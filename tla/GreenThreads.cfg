\* A generated program: one thread that shuts down last, three green threads of
\* which one spawns and awaits itself, and one may fail to be created.
SPECIFICATION FairSpec
CONSTANTS
  Main = {m}
  Green = {g1, g2, g3}
  N = 2
  Spawner = {m, g1}
  Awaiter = {m, g1}
  Failing = {g3}
  Restarts = FALSE
  Nobody = Nobody
INVARIANTS AtMostNRun NothingPendingAfterWait
PROPERTIES GreenThreadsFinish CallsReturn
CHECK_DEADLOCK FALSE
