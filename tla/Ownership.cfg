SPECIFICATION Spec
CONSTANTS
  Name = {x, r}
  SelfReference = FALSE
  MaxVars = 3
  MaxOpen = 1
  MaxStatements = 5
INVARIANTS
  BorrowState
  AcceptedNeverUsesMoved
  AcceptedNeverAliases
CHECK_DEADLOCK FALSE
