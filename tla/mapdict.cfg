CONSTANTS
  o1 = o1  o2 = o2
  na = na  nb = nb
  tainted = tainted
  i1 = i1  d1 = d1  s1 = s1
  Objects = {o1, o2}
  Names = {na, nb}
  Flags = {tainted}
  Infectious = {tainted}
  Values = {i1, d1, s1}
  Nil = Nil
  Class = Class
  TypeOf <- MCTypeOf
  NUM_DIGITS_POW2 = 2
  MaxNodes = 4
  UserOps = {"singleton", "dup", "clone"}
SPECIFICATION Spec
SYMMETRY Symmetry
CHECK_DEADLOCK FALSE
INVARIANTS WellFormed NoFailure
PROPERTY ImplementsAttributes
