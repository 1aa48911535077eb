SPECIFICATION Spec
CONSTANTS
    Programs <- MCGuard
    Budgets <- MCBudgets
    Price <- MCPrice
    Exceeded <- MCExceeded
    Declared <- MCDeclared
    Answers <- MCAnswers
    MaxLoopDepth = 16
    MaxCalls = 4
INVARIANT SameBehaviour
CHECK_DEADLOCK FALSE
