CONSTANTS
  varX = varX  varY = varY  varZ = varZ
  heavy = heavy  light = light
  c1 = c1  c2 = c2  c3 = c3
  Vars = {varX, varY, varZ}
  Solvers = {heavy, light}
  NoSolver = NoSolver
  Values = {0, 1}
  NoValue = NoValue
  Cons = {c1, c2}
  NoEnv = NoEnv
  Emptied = Emptied
  Weight <- MCWeight
  Supported <- TwoSupported
  SolverOf <- TwoSolverOf
  Reads <- TwoReads
  Breaks <- NoBreaks
  Holds <- TwoHolds
  Unsure = {}
  UserOps = {"always", "assign", "rescue"}
  MaxCopies = 1
SPECIFICATION Spec
CHECK_DEADLOCK FALSE
INVARIANT EqualityRemoved
