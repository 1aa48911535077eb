\* Three channels: one has no other consumer, one handle is NULL, and one is
\* drained by other threads as well.
SPECIFICATION FairSpec
CONSTANTS
  N = 3
  Capacity = 2
  Null = {1}
  Selector = {s1}
  Rivals = {2}
  HasTimeout = TRUE
INVARIANTS TypeOK ChosenArmReady MinusOneMeansDrained
PROPERTIES SelectAnswers
