SPECIFICATION Spec
CONSTANTS
  a = a
  b = b
  s = s
  c = c
  Null = Null
  INIT_SIZE = 4
  Values = {1, 2}
  Keys <- MCKeys
  HashOf <- MCHashOf
  IdOf <- MCIdOf
  CopyOf <- MCCopyOf
  FirstContent <- MCFirstContent
  Mutable <- MCMutable
  EqlMay = {"delete", "clear"}
  EqlSteps = 2
INVARIANTS WellFormed SearchesAgree
PROPERTY ImplementsOrderedMap
