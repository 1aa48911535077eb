\* Up to three children of every kind under each strategy, and a ring of three
\* entries that wraps around.
SPECIFICATION Spec
CONSTANTS
  Kinds <- MCKinds
  MaxChildren = 3
  HistorySize = 3
  MaxRestarts = 2
  Window = 1
  MaxTime = 3
  MaxFailures = 4
INVARIANTS RingKeepsLast NoChildLeftBehind StartsInOrder StoppedMeansAllStopped
PROPERTIES EscalatesWhenTooMany
CHECK_DEADLOCK FALSE
