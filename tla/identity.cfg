CONSTANTS
  list = list  n1 = n1  n2 = n2  second = second  b = b
  c1 = c1  c2 = c2  c3 = c3
  Vars = {list, n1, n2, second, b}
  Values = {1, 2}
  Cons = {c1, c2, c3}
  NoLink = NoLink
  Reads <- ListReads
  This <- ListThis
  That <- ListThat
  UserOps = {"always", "enable", "disable", "assign"}
SPECIFICATION Spec
CHECK_DEADLOCK FALSE
INVARIANTS WellFormed LinksAreOwned EnabledIsLinked PathFollowed SameAfterAssign
PROPERTIES Terminates AssignReachesClass
