SPECIFICATION Spec
CONSTANTS
  x = x
  y = y
  Nil = Nil
  Self = Self
  None = None
  MaxLen = 3
  MaxGiven = 12
  MaxNudges = 2
  Values <- MCValues
  Methods <- MCMethods
  ArgsOf <- MCArgsOf
  AnswersOf <- MCAnswersOf
INVARIANTS OperationsAsPromised CallsAsPromised NextsAsPromised
PROPERTY CallsEnd
