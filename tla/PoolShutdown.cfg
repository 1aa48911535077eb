\* One program thread that shuts the pool down, two workers and three tasks.
\* t1 spawns while it runs, and leaves its group blocks by return; only the
\* program thread waits for tasks.
SPECIFICATION FairSpec
CONSTANTS
  Main = {m}
  Task = {t1, t2, t3}
  Worker = {w1, w2}
  Spawner = {m, t1}
  Awaiter = {m}
  Returner = {t1}
  Stopper = {m}
  Nobody = Nobody
INVARIANTS EachTaskInOnePlace WorkersWoken NoTaskDropped
PROPERTIES CallsReturn TasksComplete
