CONSTANTS
  varX = varX  varY = varY  varZ = varZ
  heavy = heavy
  c1 = c1  c2 = c2  c3 = c3
  Vars = {varX, varY, varZ}
  Solvers = {heavy}
  NoSolver = NoSolver
  Values = {0, 1}
  NoValue = NoValue
  Cons = {c1, c2, c3}
  NoEnv = NoEnv
  Emptied = Emptied
  Weight <- MCWeight
  Supported <- PathSupported
  SolverOf <- PathSolverOf
  Reads <- PathReads
  Breaks <- NoBreaks
  Holds <- PathHolds
  Unsure = {}
  UserOps = {"always", "disable", "strength", "assign", "multi", "read"}
  MaxCopies = 1
SPECIFICATION SettledSpec
CHECK_DEADLOCK FALSE
INVARIANTS EnabledHold AssertedOnce ModelSatisfies
PROPERTIES ImplementsStore AssignedWins
