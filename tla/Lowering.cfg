SPECIFICATION Spec
CONSTANTS
    Programs <- MCPrograms
    Budgets <- MCBudgets
    Price <- MCPrice
    Exceeded <- MCExceeded
    Declared <- MCDeclared
    Answers <- MCAnswers
    MaxLoopDepth = 16
    MaxCalls = 4
INVARIANTS SameBehaviour CallsWithinBudget
PROPERTY Responsive
CHECK_DEADLOCK FALSE
