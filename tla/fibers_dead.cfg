CONSTANTS
  f1 = f1  f2 = f2  f3 = f3
  v1 = v1  v2 = v2
  Main = Main
  Fibers = {Main, f1, f2, f3}
  NoFiber = NoFiber
  Values = {v1, v2}
  Broken = Broken
  FiberError = FiberError
  UserOps = {"migrate"}
SPECIFICATION Spec
CHECK_DEADLOCK FALSE
INVARIANT DeadIsEmpty
