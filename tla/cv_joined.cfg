CONSTANTS
  varX = varX  varY = varY  varZ = varZ
  heavy = heavy  light = light
  c1 = c1  c2 = c2  c3 = c3
  Vars = {varY, varZ}
  Solvers = {heavy, light}
  NoSolver = NoSolver
  Values = {0, 1}
  NoValue = NoValue
  Cons = {c1, c2}
  NoEnv = NoEnv
  Emptied = Emptied
  Weight <- MCWeight
  Supported <- JoinSupported
  SolverOf <- JoinSolverOf
  Reads <- JoinReads
  Breaks <- NoBreaks
  Holds <- JoinHolds
  Unsure = {}
  UserOps = {"always", "multi"}
  MaxCopies = 1
SPECIFICATION Spec
CHECK_DEADLOCK FALSE
INVARIANT EndFollowsBegin
