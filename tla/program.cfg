CONSTANTS
  Programs <- MCPrograms
  Code <- MCCode
  Expected <- MCExpected
  MaxCalls = 3
  LONG_BIT = 8
  MaxInt = 127
SPECIFICATION Spec
INVARIANTS SameOutcome StackFits CellsByName
PROPERTIES OperandsKept VersionsRenewed Terminates
