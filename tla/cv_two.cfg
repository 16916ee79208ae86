CONSTANTS
  varX = varX  varY = varY  varZ = varZ
  heavy = heavy  light = light
  c1 = c1  c2 = c2  c3 = c3
  Vars = {varX, varY, varZ}
  Solvers = {heavy, light}
  NoSolver = NoSolver
  Values = {0, 1}
  NoValue = NoValue
  Cons = {c1, c2, c3}
  NoEnv = NoEnv
  Emptied = Emptied
  Weight <- MCWeight
  Supported <- TwoSupported
  SolverOf <- TwoSolverOf
  Reads <- TwoReads
  Breaks <- NoBreaks
  Holds <- TwoHolds
  Unsure = {}
  UserOps = {"always", "disable", "strength", "assign", "multi", "read"}
  MaxCopies = 1
SPECIFICATION Spec
CHECK_DEADLOCK FALSE
INVARIANTS Agreement NoLeftovers ReadersArePinned PinHolds SnapshotFresh
