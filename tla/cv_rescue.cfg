CONSTANTS
  varX = varX  varY = varY  varZ = varZ
  heavy = heavy  light = light
  c1 = c1  c2 = c2  c3 = c3
  Vars = {varY, varZ}
  Solvers = {heavy, light}
  NoSolver = NoSolver
  Values = {0, 1}
  NoValue = NoValue
  Cons = {c1, c2, c3}
  NoEnv = NoEnv
  Emptied = Emptied
  Weight <- MCWeight
  Supported <- JoinSupported
  SolverOf <- JoinSolverOf
  Reads <- JoinReads
  Breaks <- JoinBreaks
  Holds <- JoinHolds
  Unsure = {heavy}
  UserOps = {"always", "enable", "disable", "strength", "assign", "read", "rescue"}
  MaxCopies = 1
SPECIFICATION Spec
CHECK_DEADLOCK FALSE
INVARIANTS Inv EnabledIsAsserted EndFollowsBegin
