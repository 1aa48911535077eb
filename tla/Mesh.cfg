SPECIFICATION FairMeshSpec
CONSTANTS
  m = m
  n = n
  Main = {m}
  Worker = {w1, w2}
  Task = {n, t1, t2, t3, t4, t5, t6}
  Spawner = {m, n}
  Awaiter = {m, n}
  Returner = {}
  Stopper = {}
  Nobody = Nobody
  Runner = {m, n}
  Question = q
  MaxRoutes = 2
  MaxTargets = 2
  Flaky = {A}
  A = A
  B = B
  C = C
  Declared <- MCDeclared
INVARIANTS ArgsOutliveTasks WorkerForAgents
PROPERTIES RunsRoutesInOrder MeshReturns
CHECK_DEADLOCK FALSE
