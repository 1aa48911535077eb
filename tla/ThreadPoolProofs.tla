--------------------------- MODULE ThreadPoolProofs ---------------------------
(***************************************************************************)
(* Theorems about ThreadPool, for every number of workers, tasks and       *)
(* threads of the program.                                                 *)
(***************************************************************************)
EXTENDS ThreadPool, FiniteSetTheorems, TLAPS

Spawning == {"auto_init", "push"}
Stopping == {"join", "drain", "destroy"}

\* What is known of an actor inside a call: the handle it is about, and that a
\* task makes calls only while it runs.
CallInv ==
  /\ \A a \in Actor :
       /\ pc[a] \in Spawning \cup {"await"} => target[a] \in Task
       /\ pc[a] \in Spawning => a \in Spawner /\ task[target[a]] = "allocated"
       /\ pc[a] \in Stopping => a \in Stopper
       /\ a \in Task /\ pc[a] # "idle" => task[a] = "running"
  /\ \A a, b \in Actor :
       pc[a] \in Spawning /\ pc[b] \in Spawning /\ target[a] = target[b] => a = b

TypeInv == TypeOK /\ CallInv

LEMMA InitTypeInv == Init => TypeInv
<1> SUFFICES ASSUME Init PROVE TypeInv
  OBVIOUS
<1>1. /\ queue \in Seq(Task) /\ init_mutex = Nobody
      /\ \A a \in Actor : pc[a] = "idle" /\ target[a] = Nobody
  BY DEF Init
<1>2. TypeOK
  BY <1>1, PoolAssumption DEF Init, TypeOK
<1>3. CallInv
  BY <1>1 DEF CallInv, Spawning, Stopping
<1>4. QED BY <1>2, <1>3 DEF TypeInv

\* A step of others, which changes no handle that a call is about and keeps every
\* task that is inside a call running.
LEMMA CallsUndisturbed ==
  ASSUME CallInv, UNCHANGED <<pc, target>>,
         \A t \in Task : task[t] = "allocated" => task'[t] = "allocated",
         \A t \in Task : task[t] = "running" /\ pc[t] # "idle" => task'[t] = "running"
  PROVE  CallInv'
<1>1. ASSUME NEW a \in Actor
      PROVE  /\ pc[a] \in Spawning \cup {"await"} => target[a] \in Task
             /\ pc[a] \in Spawning => a \in Spawner /\ task'[target[a]] = "allocated"
             /\ pc[a] \in Stopping => a \in Stopper
             /\ a \in Task /\ pc[a] # "idle" => task'[a] = "running"
  BY <1>1 DEF CallInv
<1>2. QED BY <1>1 DEF CallInv

LEMMA WorkersKeepTypes ==
  ASSUME TypeInv, NEW w \in Worker, WorkerStep(w) \/ SpuriousWakeup(w),
         EachTaskInOnePlace
  PROVE  TypeInv'
<1>1. TypeOK'
  <2>1. CASE WorkerPops(w)
    <3>1. Head(queue) \in Task /\ Tail(queue) \in Seq(Task)
      BY <2>1 DEF WorkerPops, TypeInv, TypeOK
    <3>2. QED BY <2>1, <3>1 DEF WorkerPops, TypeInv, TypeOK
  <2>2. CASE ~WorkerPops(w)
    BY <2>2 DEF WorkerStep, WorkerSleeps, WorkerLeaves, WorkerCompletes,
                SpuriousWakeup, TypeInv, TypeOK, pool
  <2>3. QED BY <2>1, <2>2
<1>2. CallInv'
  <2>1. CASE WorkerPops(w)
    <3>1. Head(queue) \in Task /\ queue[1] = Head(queue) /\ 1 \in 1 .. Len(queue)
      BY <2>1 DEF WorkerPops, TypeInv, TypeOK
    <3>2. task[Head(queue)] = "queued"
      BY <3>1 DEF EachTaskInOnePlace
    <3>3. task' = [task EXCEPT ![Head(queue)] = "running"] /\ UNCHANGED <<pc, target>>
      BY <2>1 DEF WorkerPops
    <3>4. QED BY <3>2, <3>3, CallsUndisturbed DEF TypeInv, TypeOK
  <2>2. CASE WorkerCompletes(w)
    <3>1. /\ task' = [task EXCEPT ![job[w]] = "completed"] /\ pc[job[w]] = "idle"
          /\ UNCHANGED <<pc, target>>
      BY <2>2 DEF WorkerCompletes
    <3>2. job[w] \in Task => task[job[w]] = "running"
      BY DEF EachTaskInOnePlace
    <3>3. QED BY <3>1, <3>2, CallsUndisturbed DEF TypeInv, TypeOK
  <2>3. CASE WorkerSleeps(w) \/ WorkerLeaves(w) \/ SpuriousWakeup(w)
    BY <2>3, CallsUndisturbed
       DEF WorkerSleeps, WorkerLeaves, SpuriousWakeup, TypeInv
  <2>4. QED BY <2>1, <2>2, <2>3 DEF WorkerStep
<1>3. QED BY <1>1, <1>2 DEF TypeInv

\* A step of actor a that leaves it outside a spawn.
LEMMA CallOfActor ==
  ASSUME CallInv, NEW a \in Actor,
         \A b \in Actor \ {a} : pc'[b] = pc[b] /\ target'[b] = target[b],
         pc'[a] \notin Spawning,
         pc'[a] = "await" => target'[a] \in Task,
         pc'[a] \in Stopping => a \in Stopper,
         a \in Task /\ pc'[a] # "idle" => task'[a] = "running",
         \A t \in Task : task[t] = "allocated" =>
            task'[t] = "allocated" \/ (pc[a] \in Spawning /\ t = target[a]),
         \A t \in Task \ {a} :
            task[t] = "running" /\ pc[t] # "idle" => task'[t] = "running"
  PROVE  CallInv'
<1>1. ASSUME NEW b \in Actor \ {a}
      PROVE  /\ pc'[b] \in Spawning \cup {"await"} => target'[b] \in Task
             /\ pc'[b] \in Spawning => b \in Spawner /\ task'[target'[b]] = "allocated"
             /\ pc'[b] \in Stopping => b \in Stopper
             /\ b \in Task /\ pc'[b] # "idle" => task'[b] = "running"
  BY <1>1 DEF CallInv
<1>2. ASSUME NEW b \in Actor, NEW c \in Actor, pc'[b] \in Spawning,
             pc'[c] \in Spawning, target'[b] = target'[c]
      PROVE  b = c
  BY <1>2 DEF CallInv
<1>3. ASSUME NEW b \in Actor
      PROVE  /\ pc'[b] \in Spawning \cup {"await"} => target'[b] \in Task
             /\ pc'[b] \in Spawning => b \in Spawner /\ task'[target'[b]] = "allocated"
             /\ pc'[b] \in Stopping => b \in Stopper
             /\ b \in Task /\ pc'[b] # "idle" => task'[b] = "running"
  BY <1>1, <1>3 DEF Spawning
<1>4. QED BY <1>2, <1>3 DEF CallInv

LEMMA SpawnsKeepTypes ==
  ASSUME TypeInv, NEW a \in Actor,
         \/ lcn_threadpool_init(a) \/ SpawnInit(a) \/ SpawnPush(a)
         \/ \E t \in Task : lcn_spawn_task(a, t)
  PROVE  TypeInv'
<1>1. CASE lcn_threadpool_init(a) \/ SpawnInit(a)
  <2>1. PICK next \in {"idle", "push"} :
          InitPool(a, next) /\ (next = "push" => pc[a] = "auto_init")
    BY <1>1 DEF lcn_threadpool_init, SpawnInit
  <2>2. pc[a] \notin Stopping
    BY <1>1 DEF lcn_threadpool_init, SpawnInit, Idle, Stopping
  <2>3. << >> \in Seq(Task)
    OBVIOUS
  <2>4. TypeOK'
    BY <2>1, <2>2, <2>3 DEF InitPool, TypeInv, TypeOK, Stopping
  <2>5. /\ pc' = [pc EXCEPT ![a] = next] /\ UNCHANGED <<task, target>>
        /\ \A b \in Actor : pc'[b] = IF b = a THEN next ELSE pc[b]
    BY <2>1 DEF InitPool, TypeInv, TypeOK
  <2>6. CallInv'
    <3>1. CASE next = "idle"
      <4>1. /\ pc'[a] = "idle" /\ pc'[a] \notin Spawning
            /\ \A b \in Actor \ {a} : pc'[b] = pc[b] /\ target'[b] = target[b]
        BY <2>5, <3>1 DEF Spawning
      <4>2. QED BY <2>5, <4>1, CallOfActor DEF TypeInv, Stopping
    <3>2. CASE next = "push"
      <4>1. pc[a] = "auto_init"
        BY <2>1, <3>2
      <4>2. /\ a \in Spawner /\ target[a] \in Task /\ task[target[a]] = "allocated"
            /\ a \in Task => task[a] = "running"
        BY <4>1 DEF TypeInv, CallInv, Spawning
      <4>3. ASSUME NEW b \in Actor
            PROVE  /\ pc'[b] \in Spawning <=> pc[b] \in Spawning
                   /\ b # a => pc'[b] = pc[b]
                   /\ pc'[a] = "push"
        BY <2>5, <3>2, <4>1 DEF Spawning
      <4>4. ASSUME NEW b \in Actor
            PROVE  /\ pc'[b] \in Spawning \cup {"await"} => target'[b] \in Task
                   /\ pc'[b] \in Spawning => b \in Spawner /\ task'[target'[b]] = "allocated"
                   /\ pc'[b] \in Stopping => b \in Stopper
                   /\ b \in Task /\ pc'[b] # "idle" => task'[b] = "running"
        BY <2>5, <4>2, <4>3, <4>4 DEF TypeInv, CallInv, Stopping
      <4>5. QED BY <2>5, <4>3, <4>4 DEF TypeInv, CallInv
    <3>3. QED BY <3>1, <3>2
  <2>7. QED BY <2>4, <2>6 DEF TypeInv
<1>2. CASE SpawnPush(a)
  <2>1. /\ target[a] \in Task /\ task[target[a]] = "allocated"
        /\ pc[a] \in Spawning /\ target'[a] = Nobody /\ pc'[a] = "idle"
        /\ \A b \in Actor \ {a} : pc'[b] = pc[b] /\ target'[b] = target[b]
        /\ task' = [task EXCEPT ![target[a]] = "queued"]
    BY <1>2 DEF SpawnPush, Goto, TypeInv, TypeOK, CallInv, Spawning
  <2>2. Append(queue, target[a]) \in Seq(Task)
    BY <2>1 DEF TypeInv, TypeOK
  <2>3. group' \in [Actor -> Seq(Task) \cup {NoGroup}]
    <3>1. group[a] # NoGroup => Append(group[a], target[a]) \in Seq(Task)
      BY <2>1 DEF TypeInv, TypeOK
    <3>2. QED BY <1>2, <3>1 DEF SpawnPush, TypeInv, TypeOK
  <2>4. worker' \in [Worker -> {"none", "sleeping", "awake", "running", "exited"}]
    BY <1>2 DEF SpawnPush, queue_push, TypeInv, TypeOK
  <2>5. TypeOK'
    BY <1>2, <2>1, <2>2, <2>3, <2>4
       DEF SpawnPush, queue_push, Goto, TypeInv, TypeOK, Spawning
  <2>6. CallInv'
    <3>1. /\ pc'[a] \notin Spawning
          /\ \A t \in Task \ {target[a]} : task'[t] = task[t]
      BY <2>1 DEF Spawning, TypeInv, TypeOK
    <3>2. \A t \in Task \ {a} :
            task[t] = "running" /\ pc[t] # "idle" => task'[t] = "running"
      BY <2>1, <3>1
    <3>3. QED BY <2>1, <3>1, <3>2, CallOfActor DEF TypeInv, Stopping
  <2>7. QED BY <2>5, <2>6 DEF TypeInv
<1>3. ASSUME NEW t \in Task, lcn_spawn_task(a, t)
      PROVE  TypeInv'
  <2>1. PICK next \in Spawning :
          /\ pc' = [pc EXCEPT ![a] = next] /\ target' = [target EXCEPT ![a] = t]
          /\ task' = [task EXCEPT ![t] = "allocated"] /\ task[t] = "new"
          /\ a \in Spawner /\ t # a /\ pc[a] = "idle" /\ (a \in Task => task[a] = "running")
          /\ UNCHANGED <<pool, worker, job, owner, group>>
    BY <1>3, PoolAssumption DEF lcn_spawn_task, Goto, Idle, Active, Spawning
  <2>2. TypeOK'
    BY <2>1 DEF TypeInv, TypeOK, pool, Spawning
  <2>3. ASSUME NEW b \in Actor
        PROVE  /\ pc'[b] = IF b = a THEN next ELSE pc[b]
               /\ target'[b] = IF b = a THEN t ELSE target[b]
               /\ b # a /\ pc[b] \in Spawning => target[b] # t
    BY <1>3, <2>1, <2>3 DEF TypeInv, TypeOK, CallInv
  <2>4. CallInv'
    <3>1. /\ task'[t] = "allocated"
          /\ \A u \in Task : task[u] \in {"allocated", "running"} => task'[u] = task[u]
      BY <1>3, <2>1 DEF TypeInv, TypeOK
    <3>2. ASSUME NEW b \in Actor
          PROVE  /\ pc'[b] \in Spawning \cup {"await"} => target'[b] \in Task
                 /\ pc'[b] \in Spawning => b \in Spawner /\ task'[target'[b]] = "allocated"
                 /\ pc'[b] \in Stopping => b \in Stopper
                 /\ b \in Task /\ pc'[b] # "idle" => task'[b] = "running"
      <4>1. CASE b = a
        BY <1>3, <2>1, <2>3, <3>1, <4>1 DEF Spawning, Stopping
      <4>2. CASE b # a
        BY <2>3, <3>1, <3>2, <4>2 DEF TypeInv, CallInv
      <4>3. QED BY <4>1, <4>2
    <3>3. ASSUME NEW b \in Actor, NEW c \in Actor, pc'[b] \in Spawning,
                 pc'[c] \in Spawning, target'[b] = target'[c]
          PROVE  b = c
      BY <2>3, <3>3 DEF TypeInv, CallInv
    <3>4. QED BY <3>2, <3>3 DEF CallInv
  <2>5. QED BY <2>2, <2>4 DEF TypeInv
<1>4. QED BY <1>1, <1>2, <1>3

LEMMA AwaitsKeepTypes ==
  ASSUME TypeInv, NEW a \in Actor,
         \/ AwaitReturns(a) \/ lcn_task_group_new(a) \/ lcn_task_group_await_all(a)
         \/ GroupAwaitsNext(a) \/ lcn_task_group_free(a) \/ ReturnInsideGroup(a)
         \/ \E t \in Task : lcn_await_task(a, t)
  PROVE  TypeInv'
<1>1. CASE AwaitReturns(a)
  <2>1. /\ target[a] \in Task /\ task[target[a]] = "completed"
        /\ task' = [task EXCEPT ![target[a]] = "freed"]
        /\ target'[a] = Nobody /\ pc'[a] = "idle"
        /\ \A b \in Actor \ {a} : pc'[b] = pc[b] /\ target'[b] = target[b]
    BY <1>1 DEF AwaitReturns, Goto, TypeInv, TypeOK, CallInv
  <2>2. TypeOK'
    BY <1>1, <2>1 DEF AwaitReturns, Goto, TypeInv, TypeOK, pool
  <2>3. \A t \in Task : task[t] \in {"allocated", "running"} => task'[t] = task[t]
    BY <2>1 DEF TypeInv, TypeOK
  <2>4. CallInv'
    BY <2>1, <2>3, CallOfActor DEF TypeInv, Spawning, Stopping
  <2>5. QED BY <2>2, <2>4 DEF TypeInv
<1>2. CASE lcn_task_group_new(a)
  <2>1. UNCHANGED <<pc, target, task>>
    BY <1>2 DEF lcn_task_group_new
  <2>2. TypeOK'
    <3>1. << >> \in Seq(Task)
      OBVIOUS
    <3>2. QED BY <1>2, <3>1 DEF lcn_task_group_new, TypeInv, TypeOK, pool
  <2>3. QED BY <2>1, <2>2, CallsUndisturbed DEF TypeInv
<1>3. CASE lcn_task_group_await_all(a)
  <2>1. /\ pc' = [pc EXCEPT ![a] = "await_all"] /\ UNCHANGED <<target, task>>
        /\ pc[a] = "idle" /\ (a \in Task => task[a] = "running")
    BY <1>3, PoolAssumption DEF lcn_task_group_await_all, Idle, Active
  <2>2. TypeOK'
    BY <1>3, <2>1 DEF lcn_task_group_await_all, TypeInv, TypeOK, pool
  <2>3. /\ pc'[a] = "await_all"
        /\ \A b \in Actor \ {a} : pc'[b] = pc[b] /\ target'[b] = target[b]
    BY <2>1 DEF TypeInv, TypeOK
  <2>4. CallInv'
    BY <2>1, <2>3, CallOfActor DEF TypeInv, Spawning, Stopping
  <2>5. QED BY <2>2, <2>4 DEF TypeInv
<1>4. CASE GroupAwaitsNext(a)
  <2>1. PICK t : /\ task[t] = "completed" /\ task' = [task EXCEPT ![t] = "freed"]
                 /\ owner' = [owner EXCEPT ![t] = Nobody]
                 /\ UNCHANGED <<pool, worker, job, pc, target, group>>
    BY <1>4 DEF GroupAwaitsNext
  <2>2. TypeOK'
    BY <2>1 DEF TypeInv, TypeOK, pool
  <2>3. \A u \in Task : task[u] \in {"allocated", "running"} => task'[u] = task[u]
    BY <2>1 DEF TypeInv, TypeOK
  <2>4. QED BY <2>1, <2>2, <2>3, CallsUndisturbed DEF TypeInv
<1>5. CASE lcn_task_group_free(a) \/ ReturnInsideGroup(a)
  <2>1. /\ LeaveGroup(a) /\ pc[a] \in {"idle", "await_all"}
        /\ owner' \in [Task -> Actor \cup {Nobody}]
    BY <1>5 DEF lcn_task_group_free, ReturnInsideGroup, Idle, TypeInv, TypeOK
  <2>2. TypeOK'
    BY <2>1 DEF LeaveGroup, TypeInv, TypeOK, pool
  <2>3. /\ pc'[a] = "idle" /\ UNCHANGED <<target, task>>
        /\ \A b \in Actor \ {a} : pc'[b] = pc[b] /\ target'[b] = target[b]
    BY <2>1 DEF LeaveGroup, TypeInv, TypeOK
  <2>4. CallInv'
    BY <2>3, CallOfActor DEF TypeInv, Spawning, Stopping
  <2>5. QED BY <2>2, <2>4 DEF TypeInv
<1>6. ASSUME NEW t \in Task, lcn_await_task(a, t)
      PROVE  TypeInv'
  <2>1. /\ pc' = [pc EXCEPT ![a] = "await"] /\ target' = [target EXCEPT ![a] = t]
        /\ UNCHANGED <<pool, worker, job, task, owner, group>>
        /\ pc[a] = "idle" /\ (a \in Task => task[a] = "running")
    BY <1>6, PoolAssumption DEF lcn_await_task, Goto, Idle, Active
  <2>2. TypeOK'
    BY <1>6, <2>1 DEF TypeInv, TypeOK, pool
  <2>3. /\ pc'[a] = "await" /\ target'[a] = t
        /\ \A b \in Actor \ {a} : pc'[b] = pc[b] /\ target'[b] = target[b]
    BY <2>1 DEF TypeInv, TypeOK
  <2>4. CallInv'
    BY <1>6, <2>1, <2>3, CallOfActor DEF TypeInv, Spawning, Stopping
  <2>5. QED BY <2>2, <2>4 DEF TypeInv
<1>7. QED BY <1>1, <1>2, <1>3, <1>4, <1>5, <1>6

LEMMA ShutdownKeepsTypes ==
  ASSUME TypeInv, NEW a \in Actor, EachTaskInOnePlace,
         \/ lcn_threadpool_shutdown(a) \/ ShutdownJoins(a)
         \/ ShutdownDrains(a) \/ ShutdownDestroys(a)
  PROVE  TypeInv'
<1>1. PICK next \in Stopping \cup {"idle"} :
        pc' = [pc EXCEPT ![a] = next] /\ UNCHANGED target
  BY DEF lcn_threadpool_shutdown, ShutdownJoins, ShutdownDrains, ShutdownDestroys,
         Stopping
<1>2. /\ a \in Stopper /\ a \in Main /\ a \notin Task
      /\ \A b \in Actor \ {a} : pc'[b] = pc[b] /\ target'[b] = target[b]
  <2>1. a \in Stopper
    BY DEF lcn_threadpool_shutdown, ShutdownJoins, ShutdownDrains, ShutdownDestroys,
           TypeInv, CallInv, Stopping
  <2>2. QED BY <1>1, <2>1, PoolAssumption DEF TypeInv, TypeOK
<1>3. \A t \in Task : task[t] \in {"allocated", "running"} => task'[t] = task[t]
  BY DEF lcn_threadpool_shutdown, ShutdownJoins, ShutdownDrains, ShutdownDestroys,
         EachTaskInOnePlace
<1>4. CallInv'
  <2>1. pc'[a] = next
    BY <1>1 DEF TypeInv, TypeOK
  <2>2. QED BY <1>1, <1>2, <1>3, <2>1, CallOfActor DEF TypeInv, Spawning, Stopping
<1>5. TypeOK'
  <2>1. << >> \in Seq(Task)
    OBVIOUS
  <2>2. CASE lcn_threadpool_shutdown(a)
    BY <1>2, <2>2, PoolAssumption DEF lcn_threadpool_shutdown, Idle, TypeInv, TypeOK
  <2>3. CASE ShutdownJoins(a)
    BY <1>2, <2>3 DEF ShutdownJoins, TypeInv, TypeOK, pool
  <2>4. CASE ShutdownDrains(a)
    BY <1>2, <2>1, <2>4 DEF ShutdownDrains, TypeInv, TypeOK
  <2>5. CASE ShutdownDestroys(a)
    <3>1. /\ initialized' = FALSE /\ init_mutex' = Nobody
          /\ worker' = [w \in Worker |-> "none"] /\ pc' = [pc EXCEPT ![a] = "idle"]
          /\ shutdown' = shutdown /\ queue' = queue /\ job' = job /\ task' = task
          /\ owner' = owner /\ target' = target /\ group' = group
          /\ pc[a] = "destroy"
      BY <2>5 DEF ShutdownDestroys
    <3>2. /\ initialized' \in BOOLEAN /\ init_mutex' \in Main \cup {Nobody}
          /\ worker' \in [Worker -> {"none", "sleeping", "awake", "running", "exited"}]
          /\ pc' \in [Actor -> {"idle", "auto_init", "push", "await", "await_all",
                               "join", "drain", "destroy"}]
      BY <3>1 DEF TypeInv, TypeOK
    <3>3. ASSUME NEW b \in Actor
          PROVE  init_mutex' = b <=> pc'[b] \in {"join", "drain", "destroy"}
      <4>1. b # Nobody /\ init_mutex = a
        BY <3>1, PoolAssumption DEF TypeInv, TypeOK
      <4>2. CASE b = a
        BY <3>1, <4>1, <4>2 DEF TypeInv, TypeOK
      <4>3. CASE b # a
        BY <3>1, <4>1, <4>3 DEF TypeInv, TypeOK
      <4>4. QED BY <4>2, <4>3
    <3>4. QED BY <3>1, <3>2, <3>3 DEF TypeInv, TypeOK
  <2>6. QED BY <2>2, <2>3, <2>4, <2>5
<1>6. QED BY <1>4, <1>5 DEF TypeInv

-----------------------------------------------------------------------------
(***************************************************************************)
(* Where a task is depends on when the pool exists: its queue is emptied   *)
(* by an init, so nothing may be pushed to a pool that is gone, and a      *)
(* worker leaves only when the queue is empty and nobody is left to fill   *)
(* it.  A task that spawns occupies a worker, so the pool cannot end under *)
(* it; of a thread of the program that has to be assumed (SpawnerStops).   *)
(***************************************************************************)
LifeInv ==
  /\ ~initialized => queue = << >> /\ \A w \in Worker : worker[w] = "none"
  /\ initialized => \A w \in Worker : worker[w] # "none"
  /\ init_mutex # Nobody => initialized /\ shutdown
  /\ initialized /\ shutdown => init_mutex # Nobody
  /\ (\A w \in Worker : worker[w] = "exited") => queue = << >>
  /\ \A w \in Worker : worker[w] = "exited" => init_mutex # Nobody
  /\ \A a \in Actor : pc[a] \in {"drain", "destroy"} =>
       \A w \in Worker : worker[w] = "exited"
  /\ \A a \in Main : pc[a] = "push" => initialized

JobInv ==
  \A w \in Worker : job[w] # Nobody <=> worker[w] = "running"

PoolInv == TypeInv /\ EachTaskInOnePlace /\ JobInv /\ LifeInv

\* Of the threads of the program only the one that stops the pool spawns; tasks
\* spawn freely.
SpawnerStops == \A s \in Stopper : Spawner \cap Main \subseteq {s}

LEMMA PlacesUndisturbed ==
  ASSUME EachTaskInOnePlace, UNCHANGED <<queue, job>>,
         \A t \in Task : /\ task'[t] = "queued" <=> task[t] = "queued"
                         /\ task'[t] = "running" <=> task[t] = "running"
  PROVE  EachTaskInOnePlace'
<1>1. ASSUME NEW t \in Task
      PROVE  /\ (task'[t] = "queued") <=> \E k \in 1 .. Len(queue) : queue[k] = t
             /\ (task'[t] = "running") <=> \E w \in Worker : job[w] = t
  BY DEF EachTaskInOnePlace
<1>2. QED BY <1>1 DEF EachTaskInOnePlace

LEMMA PopKeepsPlaces ==
  ASSUME PoolInv, NEW w \in Worker, WorkerPops(w)
  PROVE  EachTaskInOnePlace'
<1> DEFINE head == Head(queue)
<1>1. /\ head \in Task /\ queue[1] = head /\ 1 \in 1 .. Len(queue)
      /\ Len(queue) \in Nat /\ Len(queue') = Len(queue) - 1
      /\ \A k \in 1 .. Len(queue') : k + 1 \in 1 .. Len(queue) /\ queue'[k] = queue[k + 1]
  BY DEF WorkerPops, PoolInv, TypeInv, TypeOK
<1>2. /\ job[w] = Nobody
      /\ \A v \in Worker : job'[v] = IF v = w THEN head ELSE job[v]
      /\ \A t \in Task : task'[t] = IF t = head THEN "running" ELSE task[t]
  BY DEF WorkerPops, PoolInv, TypeInv, TypeOK, JobInv
<1>3. /\ \A j, k \in 1 .. Len(queue) : j # k => queue[j] # queue[k]
      /\ \A t \in Task : /\ (task[t] = "queued") <=> \E k \in 1 .. Len(queue) : queue[k] = t
                         /\ (task[t] = "running") <=> \E v \in Worker : job[v] = t
      /\ \A u, v \in Worker : u # v /\ job[u] # Nobody => job[u] # job[v]
  BY DEF PoolInv, EachTaskInOnePlace
<1> HIDE DEF head
<1>4. task[head] = "queued" /\ \A v \in Worker : job[v] # head
  BY <1>1, <1>3
<1>5. ASSUME NEW t \in Task
      PROVE  (task'[t] = "queued") <=> \E k \in 1 .. Len(queue') : queue'[k] = t
  <2>1. CASE t = head
    BY <1>1, <1>2, <1>3, <2>1
  <2>2. ASSUME t # head, NEW k \in 1 .. Len(queue), queue[k] = t
        PROVE  \E i \in 1 .. Len(queue') : queue'[i] = t
    <3>1. k - 1 \in 1 .. Len(queue') /\ (k - 1) + 1 = k
      BY <1>1, <2>2
    <3>2. QED BY <1>1, <2>2, <3>1
  <2>3. ASSUME t # head, NEW k \in 1 .. Len(queue'), queue'[k] = t
        PROVE  \E i \in 1 .. Len(queue) : queue[i] = t
    BY <1>1, <2>3
  <2>4. QED BY <1>2, <1>3, <2>1, <2>2, <2>3
<1>6. ASSUME NEW t \in Task
      PROVE  (task'[t] = "running") <=> \E v \in Worker : job'[v] = t
  <2>1. t # Nobody
    BY PoolAssumption DEF Actor
  <2>2. QED BY <1>2, <1>3, <1>4, <2>1
<1>7. \A j, k \in 1 .. Len(queue') : j # k => queue'[j] # queue'[k]
  BY <1>1, <1>3
<1>8. \A u, v \in Worker : u # v /\ job'[u] # Nobody => job'[u] # job'[v]
  BY <1>1, <1>2, <1>3, <1>4
<1>9. QED BY <1>5, <1>6, <1>7, <1>8 DEF EachTaskInOnePlace

LEMMA PushKeepsPlaces ==
  ASSUME PoolInv, NEW a \in Actor, SpawnPush(a)
  PROVE  EachTaskInOnePlace'
<1> DEFINE last == target[a]
           n == Len(queue)
<1>1. /\ last \in Task /\ task[last] = "allocated" /\ n \in Nat
      /\ \A t \in Task : task'[t] = IF t = last THEN "queued" ELSE task[t]
      /\ Len(queue') = n + 1 /\ queue'[n + 1] = last /\ UNCHANGED job
      /\ \A k \in 1 .. n : queue'[k] = queue[k]
  BY DEF SpawnPush, queue_push, PoolInv, TypeInv, TypeOK, CallInv, Spawning
<1>2. /\ \A j, k \in 1 .. n : j # k => queue[j] # queue[k]
      /\ \A t \in Task : /\ (task[t] = "queued") <=> \E k \in 1 .. n : queue[k] = t
                         /\ (task[t] = "running") <=> \E v \in Worker : job[v] = t
      /\ \A u, v \in Worker : u # v /\ job[u] # Nobody => job[u] # job[v]
  BY DEF PoolInv, EachTaskInOnePlace
<1> HIDE DEF last, n
<1>3. \A k \in 1 .. Len(queue') : k \in 1 .. n \/ (k = n + 1 /\ queue'[k] = last)
  BY <1>1
<1>4. ASSUME NEW t \in Task
      PROVE  (task'[t] = "queued") <=> \E k \in 1 .. Len(queue') : queue'[k] = t
  <2>1. CASE t = last
    BY <1>1, <2>1
  <2>2. CASE t # last
    BY <1>1, <1>2, <1>3, <2>2
  <2>3. QED BY <2>1, <2>2
<1>5. ASSUME NEW j \in 1 .. Len(queue'), NEW k \in 1 .. Len(queue'), j # k
      PROVE  queue'[j] # queue'[k]
  <2>1. \A i \in 1 .. n : queue[i] # last
    BY <1>1, <1>2
  <2>2. QED BY <1>1, <1>2, <1>3, <1>5, <2>1
<1>6. QED BY <1>1, <1>2, <1>4, <1>5 DEF EachTaskInOnePlace

LEMMA WorkersKeepPlaces ==
  ASSUME PoolInv, NEW w \in Worker, WorkerStep(w) \/ SpuriousWakeup(w)
  PROVE  EachTaskInOnePlace' /\ JobInv'
<1>1. JobInv'
  <2>1. CASE WorkerPops(w)
    <3>1. Head(queue) \in Task /\ Head(queue) # Nobody
      BY <2>1, PoolAssumption DEF WorkerPops, PoolInv, TypeInv, TypeOK, Actor
    <3>2. QED BY <2>1, <3>1 DEF WorkerPops, PoolInv, TypeInv, TypeOK, JobInv
  <2>2. CASE WorkerCompletes(w)
    BY <2>2 DEF WorkerCompletes, PoolInv, TypeInv, TypeOK, JobInv
  <2>3. CASE WorkerSleeps(w) \/ WorkerLeaves(w) \/ SpuriousWakeup(w)
    BY <2>3 DEF WorkerSleeps, WorkerLeaves, SpuriousWakeup, PoolInv, TypeInv, TypeOK,
                JobInv
  <2>4. QED BY <2>1, <2>2, <2>3 DEF WorkerStep
<1>2. CASE WorkerPops(w)
  BY <1>1, <1>2, PopKeepsPlaces
<1>3. CASE WorkerCompletes(w)
  <2>1. /\ job[w] \in Task /\ UNCHANGED queue
        /\ \A v \in Worker : job'[v] = IF v = w THEN Nobody ELSE job[v]
        /\ \A t \in Task : task'[t] = IF t = job[w] THEN "completed" ELSE task[t]
    BY <1>3 DEF WorkerCompletes, pool, PoolInv, TypeInv, TypeOK, JobInv
  <2>2. /\ \A j, k \in 1 .. Len(queue) : j # k => queue[j] # queue[k]
        /\ \A t \in Task :
             /\ (task[t] = "queued") <=> \E k \in 1 .. Len(queue) : queue[k] = t
             /\ (task[t] = "running") <=> \E v \in Worker : job[v] = t
        /\ \A u, v \in Worker : u # v /\ job[u] # Nobody => job[u] # job[v]
    BY DEF PoolInv, EachTaskInOnePlace
  <2>3. ASSUME NEW t \in Task
        PROVE  /\ (task'[t] = "queued") <=> \E k \in 1 .. Len(queue) : queue[k] = t
               /\ (task'[t] = "running") <=> \E v \in Worker : job'[v] = t
    <3>1. t # Nobody /\ job[w] # Nobody
      BY <2>1, PoolAssumption DEF Actor
    <3>2. task[job[w]] = "running"
      BY <2>1, <2>2
    <3>3. CASE t = job[w]
      BY <2>1, <2>2, <3>1, <3>2, <3>3
    <3>4. CASE t # job[w]
      BY <2>1, <2>2, <3>1, <3>4
    <3>5. QED BY <3>3, <3>4
  <2>4. \A u, v \in Worker : u # v /\ job'[u] # Nobody => job'[u] # job'[v]
    BY <2>1, <2>2
  <2>5. EachTaskInOnePlace'
    BY <2>1, <2>2, <2>3, <2>4 DEF EachTaskInOnePlace
  <2>6. QED BY <1>1, <2>5
<1>4. CASE WorkerSleeps(w) \/ WorkerLeaves(w) \/ SpuriousWakeup(w)
  BY <1>1, <1>4, PlacesUndisturbed
     DEF WorkerSleeps, WorkerLeaves, SpuriousWakeup, PoolInv, pool
<1>5. QED BY <1>2, <1>3, <1>4 DEF WorkerStep

LEMMA ActorsKeepPlaces ==
  ASSUME PoolInv, NEW a \in Actor, Proceeds(a) \/ Calls(a)
  PROVE  EachTaskInOnePlace' /\ JobInv'
<1>1. CASE SpawnPush(a)
  <2>1. JobInv'
    BY <1>1 DEF SpawnPush, queue_push, Sleeping, PoolInv, TypeInv, TypeOK, JobInv
  <2>2. QED BY <1>1, <2>1, PushKeepsPlaces
<1>2. CASE lcn_threadpool_init(a) \/ SpawnInit(a)
  <2>1. PICK next : InitPool(a, next)
    BY <1>2 DEF lcn_threadpool_init, SpawnInit
  <2>2. UNCHANGED <<queue, job, task>>
    BY <2>1 DEF InitPool, PoolInv, LifeInv
  <2>3. JobInv'
    BY <2>1, <2>2 DEF InitPool, PoolInv, LifeInv, TypeInv, TypeOK, JobInv
  <2>4. QED BY <2>2, <2>3, PlacesUndisturbed DEF PoolInv
<1>3. ASSUME NEW t \in Task, lcn_spawn_task(a, t) \/ lcn_await_task(a, t)
      PROVE  EachTaskInOnePlace' /\ JobInv'
  <2>1. /\ UNCHANGED <<queue, job, worker>>
        /\ \A u \in Task : \/ task'[u] = task[u]
                           \/ task[u] = "new" /\ task'[u] = "allocated"
    BY <1>3 DEF lcn_spawn_task, lcn_await_task, pool, PoolInv, TypeInv, TypeOK
  <2>2. JobInv'
    BY <2>1 DEF PoolInv, JobInv
  <2>3. \A u \in Task : /\ task'[u] = "queued" <=> task[u] = "queued"
                        /\ task'[u] = "running" <=> task[u] = "running"
    BY <2>1
  <2>4. QED BY <2>1, <2>2, <2>3, PlacesUndisturbed DEF PoolInv
<1>4. CASE AwaitReturns(a) \/ GroupAwaitsNext(a)
  <2>1. PICK t : task[t] = "completed" /\ task' = [task EXCEPT ![t] = "freed"]
    BY <1>4 DEF AwaitReturns, GroupAwaitsNext
  <2>2. UNCHANGED <<queue, job, worker>>
    BY <1>4 DEF AwaitReturns, GroupAwaitsNext, pool
  <2>3. \A u \in Task : /\ task'[u] = "queued" <=> task[u] = "queued"
                        /\ task'[u] = "running" <=> task[u] = "running"
    BY <2>1 DEF PoolInv, TypeInv, TypeOK
  <2>4. JobInv'
    BY <2>2 DEF PoolInv, JobInv
  <2>5. QED BY <2>2, <2>3, <2>4, PlacesUndisturbed DEF PoolInv
<1>5. CASE \/ lcn_task_group_new(a) \/ lcn_task_group_await_all(a)
           \/ lcn_task_group_free(a) \/ ReturnInsideGroup(a) \/ ShutdownJoins(a)
  <2>1. UNCHANGED <<queue, job, worker, task>>
    BY <1>5 DEF lcn_task_group_new, lcn_task_group_await_all, lcn_task_group_free,
                ReturnInsideGroup, LeaveGroup, ShutdownJoins, pool
  <2>2. JobInv'
    BY <2>1 DEF PoolInv, JobInv
  <2>3. QED BY <2>1, <2>2, PlacesUndisturbed DEF PoolInv
<1>6. CASE ShutdownDrains(a)
  <2>1. queue = << >>
    BY <1>6, PoolAssumption DEF ShutdownDrains, PoolInv, LifeInv
  <2>2. UNCHANGED <<queue, job, worker>> /\ \A t \in Task : task'[t] = task[t]
    BY <1>6, <2>1 DEF ShutdownDrains
  <2>3. JobInv'
    BY <2>2 DEF PoolInv, JobInv
  <2>4. QED BY <2>2, <2>3, PlacesUndisturbed DEF PoolInv
<1>7. CASE lcn_threadpool_shutdown(a) \/ ShutdownDestroys(a)
  <2>1. UNCHANGED <<queue, job, task>>
    BY <1>7 DEF lcn_threadpool_shutdown, ShutdownDestroys
  <2>2. JobInv'
    BY <1>7, <2>1 DEF lcn_threadpool_shutdown, ShutdownDestroys, PoolInv, LifeInv,
                      TypeInv, TypeOK, JobInv
  <2>3. QED BY <2>1, <2>2, PlacesUndisturbed DEF PoolInv
<1>8. QED BY <1>1, <1>2, <1>3, <1>4, <1>5, <1>6, <1>7 DEF Proceeds, Calls

LEMMA WorkersKeepLife ==
  ASSUME PoolInv, NEW w \in Worker, WorkerStep(w) \/ SpuriousWakeup(w)
  PROVE  LifeInv'
<1>1. /\ initialized /\ worker[w] \in {"awake", "sleeping", "running"}
      /\ UNCHANGED <<initialized, shutdown, init_mutex, pc>>
      /\ \A v \in Worker : v # w => worker'[v] = worker[v]
      /\ worker'[w] # "none"
  BY DEF WorkerStep, WorkerSleeps, WorkerLeaves, WorkerPops, WorkerCompletes,
         SpuriousWakeup, pool, PoolInv, TypeInv, TypeOK, LifeInv
<1>2. worker'[w] = "exited" => queue' = << >> /\ shutdown
  BY DEF WorkerStep, WorkerSleeps, WorkerLeaves, WorkerPops, WorkerCompletes,
         SpuriousWakeup, pool, PoolInv, TypeInv, TypeOK
<1>3. QED BY <1>1, <1>2 DEF PoolInv, LifeInv

LEMMA PushKeepsLife ==
  ASSUME PoolInv, SpawnerStops, NEW a \in Actor, SpawnPush(a)
  PROVE  LifeInv'
<1>1. /\ pc[a] = "push" /\ a \in Spawner /\ pc'[a] = "idle"
      /\ \A b \in Actor : b # a => pc'[b] = pc[b]
      /\ UNCHANGED <<initialized, shutdown, init_mutex>>
      /\ \A w \in Worker : \/ worker'[w] = worker[w]
                           \/ worker[w] = "sleeping" /\ worker'[w] = "awake"
  BY DEF SpawnPush, queue_push, Goto, Sleeping, PoolInv, TypeInv, TypeOK, CallInv,
         Spawning
<1>2. initialized /\ \E w \in Worker : worker[w] # "exited"
  <2>1. CASE a \in Task
    <3>1. PICK w \in Worker : job[w] = a
      BY <1>1, <2>1 DEF PoolInv, TypeInv, CallInv, EachTaskInOnePlace
    <3>2. a # Nobody
      BY PoolAssumption
    <3>3. worker[w] = "running"
      BY <3>1, <3>2 DEF PoolInv, JobInv
    <3>4. QED BY <3>3 DEF PoolInv, LifeInv
  <2>2. CASE a \in Main
    <3>1. initialized
      BY <1>1, <2>2 DEF PoolInv, LifeInv
    <3>2. init_mutex = Nobody
      <4>1. SUFFICES ASSUME init_mutex \in Main PROVE FALSE
        BY DEF PoolInv, TypeInv, TypeOK
      <4>2. init_mutex \in Actor /\ pc[init_mutex] \in Stopping
        BY <4>1 DEF PoolInv, TypeInv, TypeOK, Actor, Stopping
      <4>3. init_mutex \in Stopper
        BY <4>2 DEF PoolInv, TypeInv, CallInv
      <4>4. a = init_mutex
        BY <1>1, <2>2, <4>3 DEF SpawnerStops
      <4>5. QED BY <1>1, <4>2, <4>4 DEF Stopping
    <3>3. QED BY <3>1, <3>2, PoolAssumption DEF PoolInv, LifeInv
  <2>3. QED BY <2>1, <2>2 DEF Actor
<1>3. \A w \in Worker : /\ worker'[w] = "exited" <=> worker[w] = "exited"
                        /\ worker'[w] = "none" <=> worker[w] = "none"
  BY <1>1
<1>4. \A b \in Actor : pc'[b] \in {"push", "drain", "destroy"} => pc'[b] = pc[b]
  BY <1>1
<1>5. QED BY <1>1, <1>2, <1>3, <1>4 DEF PoolInv, LifeInv, Actor

LEMMA ActorsKeepLife ==
  ASSUME PoolInv, SpawnerStops, NEW a \in Actor, Proceeds(a) \/ Calls(a)
  PROVE  LifeInv'
<1>1. CASE SpawnPush(a)
  BY <1>1, PushKeepsLife
<1>2. CASE lcn_threadpool_init(a) \/ SpawnInit(a)
  <2>1. PICK next \in {"idle", "push"} : InitPool(a, next)
    BY <1>2 DEF lcn_threadpool_init, SpawnInit
  <2>2. /\ init_mutex = Nobody /\ init_mutex' = Nobody /\ initialized'
        /\ \A b \in Actor : b # a => pc'[b] = pc[b]
        /\ pc'[a] \in {"idle", "push"}
        /\ initialized => UNCHANGED <<worker, queue, shutdown>>
        /\ ~initialized =>
             queue' = << >> /\ ~shutdown' /\ \A w \in Worker : worker'[w] = "awake"
    BY <2>1 DEF InitPool, PoolInv, TypeInv, TypeOK
  <2>3. \A b \in Actor : pc[b] \notin {"drain", "destroy"}
    BY <2>2, PoolAssumption DEF PoolInv, TypeInv, TypeOK
  <2>4. QED BY <2>2, <2>3, PoolAssumption DEF PoolInv, LifeInv
<1>3. ASSUME NEW t \in Task, lcn_spawn_task(a, t)
      PROVE  LifeInv'
  <2>1. /\ UNCHANGED <<initialized, shutdown, init_mutex, queue, worker>>
        /\ \A b \in Actor : b # a => pc'[b] = pc[b]
        /\ pc'[a] = IF initialized THEN "push" ELSE "auto_init"
    BY <1>3 DEF lcn_spawn_task, Goto, pool, PoolInv, TypeInv, TypeOK
  <2>2. QED BY <2>1 DEF PoolInv, LifeInv, Actor
<1>4. CASE \/ AwaitReturns(a) \/ lcn_task_group_new(a) \/ lcn_task_group_await_all(a)
           \/ GroupAwaitsNext(a) \/ lcn_task_group_free(a) \/ ReturnInsideGroup(a)
           \/ \E t \in Task : lcn_await_task(a, t)
  <2>1. /\ UNCHANGED <<initialized, shutdown, init_mutex, queue, worker>>
        /\ \A b \in Actor : pc'[b] = pc[b] \/ pc'[b] \in {"idle", "await", "await_all"}
    BY <1>4 DEF AwaitReturns, lcn_task_group_new, lcn_task_group_await_all,
                GroupAwaitsNext, lcn_task_group_free, ReturnInsideGroup, LeaveGroup,
                lcn_await_task, Goto, pool, PoolInv, TypeInv, TypeOK
  <2>2. \A b \in Actor : pc'[b] \in {"push", "drain", "destroy"} => pc'[b] = pc[b]
    BY <2>1
  <2>3. QED BY <2>1, <2>2 DEF PoolInv, LifeInv, Actor
<1>5. CASE \/ lcn_threadpool_shutdown(a) \/ ShutdownJoins(a) \/ ShutdownDrains(a)
           \/ ShutdownDestroys(a)
  <2>1. /\ a \in Stopper /\ a \in Main
        /\ \A b \in Actor : b # a => pc'[b] = pc[b]
    BY <1>5, PoolAssumption
       DEF lcn_threadpool_shutdown, ShutdownJoins, ShutdownDrains, ShutdownDestroys,
           PoolInv, TypeInv, TypeOK, CallInv, Stopping
  <2>2. CASE lcn_threadpool_shutdown(a)
    <3>1. /\ init_mutex = Nobody /\ init_mutex' = a /\ initialized /\ shutdown'
          /\ UNCHANGED <<initialized, queue>> /\ pc'[a] = "join"
          /\ \A w \in Worker : \/ worker'[w] = worker[w]
                               \/ worker[w] = "sleeping" /\ worker'[w] = "awake"
      BY <2>2 DEF lcn_threadpool_shutdown, PoolInv, TypeInv, TypeOK
    <3>2. \A w \in Worker : /\ worker'[w] = "exited" <=> worker[w] = "exited"
                            /\ worker'[w] = "none" <=> worker[w] = "none"
      BY <3>1
    <3>3. a # Nobody
      BY PoolAssumption
    <3>4. QED BY <2>1, <3>1, <3>2, <3>3 DEF PoolInv, LifeInv, Actor
  <2>3. CASE ShutdownJoins(a) \/ ShutdownDrains(a)
    <3>1. /\ UNCHANGED <<initialized, shutdown, init_mutex, worker>>
          /\ queue' = queue \/ queue' = << >>
          /\ pc'[a] \in {"drain", "destroy"}
          /\ \A w \in Worker : worker[w] = "exited"
      BY <2>3 DEF ShutdownJoins, ShutdownDrains, pool, PoolInv, TypeInv, TypeOK, LifeInv
    <3>2. QED BY <2>1, <3>1 DEF PoolInv, LifeInv, Actor
  <2>4. CASE ShutdownDestroys(a)
    <3>1. /\ ~initialized' /\ init_mutex' = Nobody /\ UNCHANGED queue
          /\ pc'[a] = "idle" /\ pc[a] = "destroy" /\ queue = << >>
          /\ \A w \in Worker : worker'[w] = "none"
      BY <2>4 DEF ShutdownDestroys, PoolInv, TypeInv, TypeOK, LifeInv
    <3>2. \A b \in Actor : pc[b] \in Stopping => b = a
      BY <3>1, PoolAssumption DEF PoolInv, TypeInv, TypeOK, Stopping
    <3>3. \A b \in Main : pc[b] # "push"
      BY <2>1, <3>1 DEF SpawnerStops, PoolInv, TypeInv, CallInv, Spawning, Actor
    <3>4. QED
      BY <2>1, <3>1, <3>2, <3>3, PoolAssumption DEF LifeInv, Stopping, Actor
  <2>5. QED BY <1>5, <2>2, <2>3, <2>4
<1>6. QED BY <1>1, <1>2, <1>3, <1>4, <1>5 DEF Proceeds, Calls

LEMMA InitPoolInv == Init => PoolInv
<1> SUFFICES ASSUME Init PROVE PoolInv
  OBVIOUS
<1>1. TypeInv
  BY InitTypeInv
<1>2. /\ queue = << >> /\ \A t \in Task : task[t] = "new" /\ t # Nobody
      /\ \A w \in Worker : job[w] = Nobody /\ worker[w] = "none"
  BY PoolAssumption DEF Init, Actor
<1>3. EachTaskInOnePlace /\ JobInv
  BY <1>2 DEF EachTaskInOnePlace, JobInv
<1>4. LifeInv
  BY <1>2, PoolAssumption DEF Init, LifeInv, Actor
<1>5. QED BY <1>1, <1>3, <1>4 DEF PoolInv

LEMMA PoolInvInductive ==
  ASSUME SpawnerStops, PoolInv, [Next]_vars
  PROVE  PoolInv'
<1>1. ASSUME NEW w \in Worker, WorkerStep(w) \/ SpuriousWakeup(w)
      PROVE  PoolInv'
  BY <1>1, WorkersKeepTypes, WorkersKeepPlaces, WorkersKeepLife DEF PoolInv
<1>2. ASSUME NEW a \in Actor, Proceeds(a) \/ Calls(a)
      PROVE  PoolInv'
  <2>1. TypeInv'
    BY <1>2, SpawnsKeepTypes, AwaitsKeepTypes, ShutdownKeepsTypes
       DEF PoolInv, Proceeds, Calls
  <2>2. QED BY <1>2, <2>1, ActorsKeepPlaces, ActorsKeepLife DEF PoolInv
<1>3. CASE UNCHANGED vars
  BY <1>3 DEF vars, pool, PoolInv, TypeInv, TypeOK, CallInv, EachTaskInOnePlace,
              JobInv, LifeInv
<1>4. QED BY <1>1, <1>2, <1>3 DEF Next

\* threads.c:222, :130-150: the queue and the workers hold every pending handle,
\* and hold it once, whatever spawns, awaits and shuts down in the meantime.
THEOREM OnePlace == SpawnerStops => (Spec => []EachTaskInOnePlace)
<1>1. SpawnerStops /\ Init => SpawnerStops /\ PoolInv
  BY InitPoolInv
<1>2. (SpawnerStops /\ PoolInv) /\ [Next]_vars => (SpawnerStops /\ PoolInv)'
  BY PoolInvInductive DEF SpawnerStops
<1>3. PoolInv => EachTaskInOnePlace
  BY DEF PoolInv
<1>4. QED BY <1>1, <1>2, <1>3, PTL DEF Spec

\* The variables keep their types; g_init_mutex is held across steps by the one
\* thread that is inside a shutdown (threads.c:235).
THEOREM TypeCorrect == SpawnerStops => (Spec => []TypeOK)
<1>1. SpawnerStops /\ Init => SpawnerStops /\ PoolInv
  BY InitPoolInv
<1>2. (SpawnerStops /\ PoolInv) /\ [Next]_vars => (SpawnerStops /\ PoolInv)'
  BY PoolInvInductive DEF SpawnerStops
<1>3. PoolInv => TypeOK
  BY DEF PoolInv, TypeInv
<1>4. QED BY <1>1, <1>2, <1>3, PTL DEF Spec

-----------------------------------------------------------------------------
(***************************************************************************)
(* A shutdown drops nothing: only the drain frees tasks that have not run, *)
(* and when it comes the workers have left an empty queue behind.          *)
(***************************************************************************)
LEMMA NothingDropped ==
  ASSUME PoolInv, \A t \in Task : task[t] # "dropped", [Next]_vars
  PROVE  \A t \in Task : task'[t] # "dropped"
<1>1. ASSUME NEW w \in Worker, WorkerStep(w) \/ SpuriousWakeup(w)
      PROVE  \A t \in Task : task'[t] # "dropped"
  BY <1>1 DEF WorkerStep, WorkerSleeps, WorkerLeaves, WorkerPops, WorkerCompletes,
              SpuriousWakeup, PoolInv, TypeInv, TypeOK
<1>2. ASSUME NEW a \in Actor, Proceeds(a) \/ Calls(a), ~ShutdownDrains(a)
      PROVE  \A t \in Task : task'[t] # "dropped"
  BY <1>2 DEF Proceeds, Calls, SpawnInit, SpawnPush, InitPool, AwaitReturns,
              lcn_task_group_await_all, GroupAwaitsNext, lcn_task_group_free,
              ReturnInsideGroup, LeaveGroup, ShutdownJoins, ShutdownDestroys,
              lcn_threadpool_init, lcn_spawn_task, lcn_await_task,
              lcn_task_group_new, lcn_threadpool_shutdown,
              PoolInv, TypeInv, TypeOK
<1>3. ASSUME NEW a \in Actor, ShutdownDrains(a)
      PROVE  \A t \in Task : task'[t] # "dropped"
  BY <1>3, PoolAssumption DEF ShutdownDrains, PoolInv, LifeInv
<1>4. CASE UNCHANGED vars
  BY <1>4 DEF vars
<1>5. QED BY <1>1, <1>2, <1>3, <1>4 DEF Next

LEMMA NothingPending ==
  ASSUME PoolInv, ~initialized, NEW t \in Task
  PROVE  task[t] \notin {"queued", "running"}
<1>1. queue = << >> /\ t # Nobody /\ \A w \in Worker : job[w] = Nobody
  BY PoolAssumption DEF PoolInv, LifeInv, JobInv, Actor
<1>2. QED BY <1>1 DEF PoolInv, EachTaskInOnePlace

\* threads.h:35, threads.c:205: shutdown frees no handle whose task has not run,
\* and once the pool is gone no task is pending.
THEOREM ShutdownRunsAll == SpawnerStops => (Spec => []NoTaskDropped)
<1> DEFINE Kept == SpawnerStops /\ PoolInv /\ \A t \in Task : task[t] # "dropped"
<1>1. SpawnerStops /\ Init => Kept
  BY InitPoolInv DEF Init
<1>2. Kept /\ [Next]_vars => Kept'
  BY PoolInvInductive, NothingDropped DEF SpawnerStops
<1>3. Kept => NoTaskDropped
  BY NothingPending DEF NoTaskDropped
<1>4. QED BY <1>1, <1>2, <1>3, PTL DEF Spec

-----------------------------------------------------------------------------
(***************************************************************************)
(* The wake-ups.  They need nothing of where tasks are, so SpawnerStops is *)
(* not assumed.                                                            *)
(***************************************************************************)
QueueType ==
  /\ worker \in [Worker -> {"none", "sleeping", "awake", "running", "exited"}]
  /\ queue \in Seq(Task \cup {Nobody})
  /\ target \in [Actor -> Task \cup {Nobody}]

WokenInv == QueueType /\ WorkersWoken

Awake == {w \in Worker : worker[w] = "awake"}

\* One worker changes, and the workers awake are one more or one less.
LEMMA OneWorker ==
  ASSUME QueueType, NEW w \in Worker, NEW s, worker' = [worker EXCEPT ![w] = s]
  PROVE  /\ Cardinality(Awake) \in Nat /\ Cardinality(Awake') \in Nat
         /\ worker[w] # "awake" /\ s = "awake" =>
              Cardinality(Awake') = Cardinality(Awake) + 1
         /\ worker[w] = "awake" /\ s # "awake" =>
              Cardinality(Awake') = Cardinality(Awake) - 1
<1>1. IsFiniteSet(Awake) /\ Cardinality(Awake) \in Nat
  BY PoolAssumption, FS_Subset, FS_CardinalityType DEF Awake
<1>2. IsFiniteSet(Awake') /\ Cardinality(Awake') \in Nat
  BY PoolAssumption, FS_Subset, FS_CardinalityType DEF Awake
<1>3. ASSUME worker[w] # "awake", s = "awake"
      PROVE  Awake' = Awake \cup {w} /\ w \notin Awake
  BY <1>3 DEF Awake, QueueType
<1>4. ASSUME worker[w] = "awake", s # "awake"
      PROVE  Awake' = Awake \ {w} /\ w \in Awake
  BY <1>4 DEF Awake, QueueType
<1>5. QED BY <1>1, <1>2, <1>3, <1>4, FS_AddElement, FS_RemoveElement

LEMMA WorkersKeepWoken ==
  ASSUME WokenInv, NEW w \in Worker, WorkerStep(w) \/ SpuriousWakeup(w)
  PROVE  WokenInv'
<1>1. PICK s \in {"sleeping", "exited", "running", "awake"} :
        worker' = [worker EXCEPT ![w] = s]
  BY DEF WorkerStep, WorkerSleeps, WorkerLeaves, WorkerPops, WorkerCompletes,
         SpuriousWakeup
<1>2. /\ Cardinality(Awake) \in Nat /\ Cardinality(Awake') \in Nat
      /\ worker[w] # "awake" /\ s = "awake" =>
              Cardinality(Awake') = Cardinality(Awake) + 1
      /\ worker[w] = "awake" /\ s # "awake" =>
              Cardinality(Awake') = Cardinality(Awake) - 1
  BY <1>1, OneWorker DEF WokenInv
<1>3. worker'[w] = s /\ \A v \in Worker : v # w => worker'[v] = worker[v]
  BY <1>1 DEF WokenInv, QueueType
<1>4. CASE WorkerPops(w)
  <2>1. /\ Tail(queue) \in Seq(Task \cup {Nobody}) /\ Len(Tail(queue)) = Len(queue) - 1
        /\ Len(queue) \in Nat
    BY <1>4 DEF WorkerPops, WokenInv, QueueType
  <2>2. QueueType'
    BY <1>1, <1>4, <2>1 DEF WorkerPops, WokenInv, QueueType
  <2>3. worker[w] = "awake" /\ s = "running"
    BY <1>3, <1>4 DEF WorkerPops, WokenInv, QueueType
  <2>4. Sleeping' = Sleeping
    BY <1>3, <2>3 DEF Sleeping
  <2>5. QED
    BY <1>2, <1>4, <2>1, <2>2, <2>3, <2>4
       DEF WorkerPops, WokenInv, WorkersWoken, Awake
<1>5. CASE WorkerSleeps(w) \/ WorkerLeaves(w)
  <2>1. queue' = queue /\ Len(queue) = 0
    BY <1>5 DEF WorkerSleeps, WorkerLeaves, pool
  <2>2. QueueType'
    BY <1>1, <1>5, <2>1 DEF WorkerSleeps, WorkerLeaves, WokenInv, QueueType
  <2>3. QED BY <1>2, <2>1, <2>2 DEF WokenInv, WorkersWoken, Awake
<1>6. CASE WorkerCompletes(w) \/ SpuriousWakeup(w)
  <2>1. /\ worker[w] # "awake" /\ s = "awake" /\ UNCHANGED <<queue, target>>
        /\ Len(queue) \in Nat
    BY <1>3, <1>6 DEF WorkerCompletes, SpuriousWakeup, pool, WokenInv, QueueType
  <2>2. QueueType'
    BY <1>1, <2>1 DEF WokenInv, QueueType
  <2>3. Sleeping' \subseteq Sleeping
    BY <1>3, <2>1 DEF Sleeping
  <2>4. QED BY <1>2, <2>1, <2>2, <2>3 DEF WokenInv, WorkersWoken, Awake
<1>7. QED BY <1>4, <1>5, <1>6 DEF WorkerStep

LEMMA PushKeepsWoken ==
  ASSUME WokenInv, NEW a \in Actor, SpawnPush(a)
  PROVE  WokenInv'
<1>1. /\ Append(queue, target[a]) \in Seq(Task \cup {Nobody})
      /\ Len(Append(queue, target[a])) = Len(queue) + 1 /\ Len(queue) \in Nat
  BY DEF WokenInv, QueueType
<1>2. queue' = Append(queue, target[a]) /\ target' = [target EXCEPT ![a] = Nobody]
  BY DEF SpawnPush, queue_push, Goto
<1>3. CASE Sleeping = {}
  <2>1. worker' = worker
    BY <1>3 DEF SpawnPush, queue_push
  <2>2. Sleeping' = {}
    BY <1>3, <2>1 DEF Sleeping
  <2>3. QueueType'
    BY <1>1, <1>2, <2>1 DEF WokenInv, QueueType
  <2>4. QED BY <2>2, <2>3 DEF WokenInv, WorkersWoken
<1>4. CASE Sleeping # {}
  <2>1. PICK w \in Sleeping : worker' = [worker EXCEPT ![w] = "awake"]
    BY <1>4 DEF SpawnPush, queue_push
  <2>2. w \in Worker /\ worker[w] = "sleeping"
    BY DEF Sleeping
  <2>3. /\ Cardinality(Awake) \in Nat
        /\ Cardinality(Awake') = Cardinality(Awake) + 1
    BY <2>1, <2>2, OneWorker DEF WokenInv
  <2>4. QueueType'
    BY <1>1, <1>2, <2>1 DEF WokenInv, QueueType
  <2>5. QED BY <1>1, <1>2, <1>4, <2>3, <2>4 DEF WokenInv, WorkersWoken, Awake
<1>5. QED BY <1>3, <1>4

LEMMA WokenInvInductive ==
  ASSUME WokenInv, [Next]_vars
  PROVE  WokenInv'
<1>1. << >> \in Seq(Task \cup {Nobody}) /\ Len(<< >>) = 0
  OBVIOUS
<1>2. \A n : n = 0 => n <= Cardinality(Awake')
  <2>1. IsFiniteSet(Awake')
    BY PoolAssumption, FS_Subset DEF Awake
  <2>2. QED BY <2>1, FS_CardinalityType
<1>3. ASSUME NEW a \in Actor, NEW next, InitPool(a, next)
      PROVE  WokenInv'
  <2>1. CASE initialized
    BY <1>3, <2>1 DEF InitPool, WokenInv, QueueType, WorkersWoken, Sleeping
  <2>2. CASE ~initialized
    BY <1>1, <1>2, <1>3, <2>2 DEF InitPool, WokenInv, QueueType, WorkersWoken, Awake
  <2>3. QED BY <2>1, <2>2
<1>4. ASSUME NEW a \in Actor,
             ShutdownDrains(a) \/ lcn_threadpool_shutdown(a) \/ ShutdownDestroys(a)
      PROVE  WokenInv'
  <2>1. Sleeping' = {} \/ (queue' = << >> /\ UNCHANGED worker)
    BY <1>4 DEF ShutdownDrains, lcn_threadpool_shutdown, ShutdownDestroys, Sleeping
  <2>2. QueueType'
    BY <1>1, <1>4 DEF ShutdownDrains, lcn_threadpool_shutdown, ShutdownDestroys,
                      WokenInv, QueueType
  <2>3. QED BY <1>1, <1>2, <2>1, <2>2 DEF WokenInv, WorkersWoken, Awake
<1>5. ASSUME UNCHANGED <<queue, worker>>, target' \in [Actor -> Task \cup {Nobody}]
      PROVE  WokenInv'
  BY <1>5 DEF WokenInv, QueueType, WorkersWoken, Sleeping
<1>6. ASSUME NEW a \in Actor, Proceeds(a) \/ Calls(a), ~SpawnPush(a), ~SpawnInit(a),
             ~lcn_threadpool_init(a), ~ShutdownDrains(a), ~lcn_threadpool_shutdown(a),
             ~ShutdownDestroys(a)
      PROVE  WokenInv'
  <2>1. UNCHANGED <<queue, worker>>
    BY <1>6 DEF Proceeds, Calls, AwaitReturns, lcn_task_group_await_all,
                GroupAwaitsNext, lcn_task_group_free, ReturnInsideGroup, LeaveGroup,
                ShutdownJoins, lcn_spawn_task, lcn_await_task, lcn_task_group_new, pool
  <2>2. \/ UNCHANGED target
        \/ \E t \in Task \cup {Nobody} : target' = [target EXCEPT ![a] = t]
    BY <1>6 DEF Proceeds, Calls, AwaitReturns, lcn_task_group_await_all,
                GroupAwaitsNext, lcn_task_group_free, ReturnInsideGroup, LeaveGroup,
                ShutdownJoins, lcn_spawn_task, lcn_await_task, lcn_task_group_new, Goto
  <2>3. target' \in [Actor -> Task \cup {Nobody}]
    BY <2>2 DEF WokenInv, QueueType
  <2>4. QED BY <1>5, <2>1, <2>3
<1>7. CASE UNCHANGED vars
  <2>1. target' \in [Actor -> Task \cup {Nobody}]
    BY <1>7 DEF vars, WokenInv, QueueType
  <2>2. QED BY <1>5, <1>7, <2>1 DEF vars, pool
<1>8. ASSUME NEW a \in Actor, SpawnInit(a) \/ lcn_threadpool_init(a)
      PROVE  WokenInv'
  BY <1>3, <1>8 DEF SpawnInit, lcn_threadpool_init
<1>9. QED
  BY <1>4, <1>6, <1>7, <1>8, WorkersKeepWoken, PushKeepsWoken DEF Next

\* threads.c:222: one pthread_cond_signal per spawn is enough, for every number
\* of workers and whoever spawns: while a worker sleeps, each queued task has a
\* worker that is awake and will look at the queue.
THEOREM Wakeups == Spec => []WorkersWoken
<1>1. Init => WokenInv
  <2>1. Init => queue \in Seq(Task \cup {Nobody}) /\ Sleeping = {}
    BY DEF Init, Sleeping
  <2>2. QED BY <2>1 DEF Init, WokenInv, QueueType, WorkersWoken
<1>2. QED BY <1>1, WokenInvInductive, PTL DEF Spec, WokenInv

-----------------------------------------------------------------------------
(***************************************************************************)
(* Tasks that wait for tasks.  A worker that runs an await serves nobody   *)
(* (threads.c:231), so the pool comes to a stop once every worker runs one *)
(* of those; short of that a queued task always has a worker.              *)
(***************************************************************************)

\* While a task is queued, some worker is awake or runs a task not among blocked,
\* if these are fewer than the workers.
LEMMA AWorkerOutside ==
  ASSUME PoolInv, WokenInv, initialized, ~shutdown, queue # << >>,
         NEW blocked, IsFiniteSet(blocked), Cardinality(blocked) < Cardinality(Worker)
  PROVE  \E w \in Worker : \/ worker[w] = "awake"
                           \/ (worker[w] = "running" /\ job[w] \notin blocked)
<1> SUFFICES ASSUME \A w \in Worker : /\ worker[w] # "awake"
                                      /\ (worker[w] = "running" => job[w] \in blocked)
             PROVE  FALSE
  OBVIOUS
<1>1. Sleeping = {}
  <2>1. Awake = {} /\ Cardinality(Awake) = 0
    BY FS_EmptySet DEF Awake
  <2>2. Len(queue) > 0
    BY DEF WokenInv, QueueType
  <2>3. ~(Len(queue) <= Cardinality(Awake))
    BY <2>1, <2>2 DEF WokenInv, QueueType
  <2>4. QED BY <2>3 DEF WokenInv, WorkersWoken, Awake
<1>2. ASSUME NEW w \in Worker PROVE worker[w] = "running"
  <2>1. worker[w] \notin {"none", "exited"}
    BY DEF PoolInv, LifeInv
  <2>2. worker[w] # "sleeping"
    BY <1>1 DEF Sleeping
  <2>3. QED BY <2>1, <2>2 DEF PoolInv, TypeInv, TypeOK
<1>3. \A w \in Worker : job[w] \in blocked /\ job[w] # Nobody
  BY <1>2 DEF PoolInv, JobInv
<1>4. job \in [Worker -> blocked]
  BY <1>3 DEF PoolInv, TypeInv, TypeOK
<1>5. PICK v, w \in Worker : v # w /\ job[v] = job[w]
  BY <1>4, PoolAssumption, FS_PigeonHole
<1>6. QED BY <1>3, <1>5 DEF PoolInv, EachTaskInOnePlace

\* Only those who await are inside an await.
Waits(a) == pc[a] \in {"await", "await_all"}
OnlyAwaitersWait == \A a \in Actor : Waits(a) => a \in Awaiter

LEMMA AwaitersStep ==
  ASSUME PoolInv, OnlyAwaitersWait, [Next]_vars
  PROVE  OnlyAwaitersWait'
<1>1. pc = [b \in Actor |-> pc[b]]
  BY DEF PoolInv, TypeInv, TypeOK
<1>2. CASE UNCHANGED pc
  BY <1>2 DEF OnlyAwaitersWait, Waits
<1>3. ASSUME NEW w \in Worker, WorkerStep(w) \/ SpuriousWakeup(w)
      PROVE  UNCHANGED pc
  BY <1>3 DEF WorkerStep, WorkerSleeps, WorkerLeaves, WorkerPops, WorkerCompletes,
              SpuriousWakeup
<1>4. ASSUME NEW a \in Actor, NEW label, pc' = [pc EXCEPT ![a] = label],
             label \in {"await", "await_all"} => a \in Awaiter
      PROVE  OnlyAwaitersWait'
  BY <1>1, <1>4 DEF OnlyAwaitersWait, Waits
<1>5. ASSUME NEW a \in Actor, Proceeds(a)
      PROVE  OnlyAwaitersWait'
  <2>1. CASE GroupAwaitsNext(a)
    BY <1>2, <2>1 DEF GroupAwaitsNext
  <2>2. CASE lcn_task_group_await_all(a)
    BY <1>4, <2>2 DEF lcn_task_group_await_all
  <2>3. CASE SpawnInit(a) \/ SpawnPush(a) \/ AwaitReturns(a)
    BY <1>4, <2>3 DEF SpawnInit, SpawnPush, InitPool, AwaitReturns, Goto
  <2>4. CASE lcn_task_group_free(a) \/ ReturnInsideGroup(a)
    BY <1>4, <2>4 DEF lcn_task_group_free, ReturnInsideGroup, LeaveGroup
  <2>5. CASE ShutdownJoins(a) \/ ShutdownDrains(a) \/ ShutdownDestroys(a)
    BY <1>4, <2>5 DEF ShutdownJoins, ShutdownDrains, ShutdownDestroys
  <2>6. QED BY <1>5, <2>1, <2>2, <2>3, <2>4, <2>5 DEF Proceeds
<1>6. ASSUME NEW a \in Actor, Calls(a)
      PROVE  OnlyAwaitersWait'
  <2>1. CASE lcn_task_group_new(a)
    BY <1>2, <2>1 DEF lcn_task_group_new
  <2>2. CASE lcn_threadpool_init(a) \/ lcn_threadpool_shutdown(a)
    BY <1>4, <2>2 DEF lcn_threadpool_init, InitPool, lcn_threadpool_shutdown
  <2>3. ASSUME NEW t \in Task, lcn_spawn_task(a, t) PROVE OnlyAwaitersWait'
    BY <1>4, <2>3 DEF lcn_spawn_task, Goto
  <2>4. ASSUME NEW t \in Task, lcn_await_task(a, t) PROVE OnlyAwaitersWait'
    BY <1>4, <2>4 DEF lcn_await_task, Goto
  <2>5. QED BY <1>6, <2>1, <2>2, <2>3, <2>4 DEF Calls
<1>7. QED BY <1>2, <1>3, <1>5, <1>6 DEF Next, vars

\* Of the tasks, fewer wait than there are workers.
FewAwaiters ==
  /\ IsFiniteSet(Awaiter \cap Task)
  /\ Cardinality(Awaiter \cap Task) < Cardinality(Worker)

OneWorkerMoves ==
  initialized /\ ~shutdown /\ queue # << >> =>
    \E w \in Worker : worker[w] = "awake" \/ (worker[w] = "running" /\ ~Waits(job[w]))

\* threads.c:231: when fewer tasks than workers ever await, the pool cannot come to
\* a stop over a queued task: a worker is awake, or runs a body that is not blocked
\* in an await.  During a shutdown it can, since the idle workers have left.
THEOREM NoStarvedQueue ==
  SpawnerStops /\ FewAwaiters => (Spec => []OneWorkerMoves)
<1> DEFINE Inv == /\ SpawnerStops /\ FewAwaiters /\ PoolInv /\ WokenInv
                  /\ OnlyAwaitersWait
<1>1. SpawnerStops /\ FewAwaiters /\ Init => Inv
  <2>1. Init => queue \in Seq(Task \cup {Nobody}) /\ Sleeping = {}
    BY DEF Init, Sleeping
  <2>2. Init => WokenInv
    BY <2>1 DEF Init, WokenInv, QueueType, WorkersWoken
  <2>3. Init => OnlyAwaitersWait
    BY DEF Init, OnlyAwaitersWait, Waits
  <2>4. QED BY <2>2, <2>3, InitPoolInv
<1>2. Inv /\ [Next]_vars => Inv'
  BY PoolInvInductive, WokenInvInductive, AwaitersStep DEF SpawnerStops, FewAwaiters
<1>3. Inv => OneWorkerMoves
  <2> SUFFICES ASSUME Inv, initialized, ~shutdown, queue # << >>
               PROVE  \E w \in Worker : \/ worker[w] = "awake"
                                        \/ (worker[w] = "running" /\ ~Waits(job[w]))
    BY DEF OneWorkerMoves
  <2>1. PICK w \in Worker : \/ worker[w] = "awake"
                            \/ (worker[w] = "running" /\ job[w] \notin Awaiter \cap Task)
    BY AWorkerOutside DEF FewAwaiters
  <2>2. worker[w] = "running" => job[w] \in Task
    BY DEF PoolInv, JobInv, TypeInv, TypeOK
  <2>3. QED BY <2>1, <2>2 DEF OnlyAwaitersWait, Actor
<1> HIDE DEF Inv
<1>4. SpawnerStops /\ FewAwaiters /\ Init /\ [][Next]_vars => []OneWorkerMoves
  BY <1>1, <1>2, <1>3, PTL
<1>5. QED BY <1>4 DEF Spec

-----------------------------------------------------------------------------
(***************************************************************************)
(* What an await waits for is still to come.  Each handle that somebody    *)
(* has is of a task that is on its way or has completed: it is freed once, *)
(* by the await of the actor or of the group that has it.                  *)
(***************************************************************************)
OnTheWay == {"queued", "running", "completed"}

HandleInv ==
  /\ \A t \in Task : owner[t] # Nobody => task[t] \in OnTheWay
  /\ \A a \in Actor : pc[a] = "await" => owner[target[a]] = a /\ target[a] \notin Members(a)
  /\ \A a \in Actor : \A t \in Members(a) : owner[t] = a \/ task[t] = "freed"
  /\ \A a \in Actor : pc[a] = "await_all" => group[a] # NoGroup

\* Who awaits waits for a task that was queued and whose handle is not yet freed.
AwaitsArePending ==
  \A a \in Actor :
    /\ pc[a] = "await" => task[target[a]] \in OnTheWay
    /\ pc[a] = "await_all" => \A k \in Unawaited(a) : task[group[a][k]] \in OnTheWay

\* A set of indices that is not empty has a least one.
LEMMA LeastIndex ==
  ASSUME NEW S \in SUBSET Nat, S # {}
  PROVE  \E i \in S : \A j \in S : i <= j
<1> DEFINE R == {p \in Nat \X Nat : p[1] < p[2]}
<1>1. R = OpToRel(<, Nat)
  BY DEF OpToRel
<1>2. IsWellFoundedOn(R, Nat)
  BY <1>1, NatLessThanWellFounded
<1>3. \A a, b \in Nat : a < b => <<a, b>> \in R
  OBVIOUS
<1> HIDE DEF R
<1>4. PICK i \in S : \A j \in S : ~(<<j, i>> \in R)
  BY <1>2, WFMin
<1>5. \A j \in S : j \in Nat
  OBVIOUS
<1>6. ASSUME NEW j \in S PROVE i <= j
  <2>1. i \in Nat /\ j \in Nat /\ ~(<<j, i>> \in R)
    BY <1>4, <1>5
  <2>2. ~(j < i)
    BY <1>3, <2>1
  <2> QED
    BY <2>1, <2>2
<1> QED
  BY <1>6

LEMMA MinIsMember ==
  ASSUME NEW S \in SUBSET Nat, S # {}
  PROVE  Min(S) \in S
<1>1. PICK i \in S : \A j \in S : i <= j
  BY LeastIndex
<1>2. QED BY <1>1 DEF Min

\* A step that neither begins an await nor changes who has a handle.
LEMMA HandlesUndisturbed ==
  ASSUME HandleInv, UNCHANGED <<owner, group>>,
         \A a \in Actor : pc'[a] = "await" => pc[a] = "await" /\ target'[a] = target[a],
         \A a \in Actor : pc'[a] = "await_all" => group[a] # NoGroup,
         \A t \in Task : /\ task[t] \in OnTheWay => task'[t] \in OnTheWay
                         /\ task[t] = "freed" => task'[t] = "freed",
         \A a \in Actor : Members(a) \subseteq Task
  PROVE  HandleInv'
<1>1. \A a \in Actor : Members(a)' = Members(a)
  BY DEF Members
<1>2. QED BY <1>1 DEF HandleInv

LEMMA MembersAreTasks ==
  ASSUME PoolInv, NEW a \in Actor
  PROVE  Members(a) \subseteq Task
<1>1. group[a] # NoGroup => group[a] \in Seq(Task)
  BY DEF PoolInv, TypeInv, TypeOK
<1>2. QED BY <1>1 DEF Members, Range

\* An actor's last step in an await: the handle t that it had is freed.
LEMMA FreedOnce ==
  ASSUME PoolInv, HandleInv, NEW a \in Actor, NEW t \in Task, owner[t] = a,
         task' = [task EXCEPT ![t] = "freed"],
         owner' = [owner EXCEPT ![t] = Nobody],
         group' = group, pc'[a] # "await", pc'[a] = "await_all" => pc[a] = "await_all",
         \A b \in Actor : b # a => pc'[b] = pc[b] /\ target'[b] = target[b]
  PROVE  HandleInv'
<1>1. /\ \A u \in Task : task'[u] = IF u = t THEN "freed" ELSE task[u]
      /\ \A u \in Task : owner'[u] = IF u = t THEN Nobody ELSE owner[u]
      /\ \A b \in Actor : pc[b] = "await" => target[b] \in Task
  BY DEF PoolInv, TypeInv, TypeOK, CallInv
<1>2. \A b \in Actor : Members(b)' = Members(b) /\ Members(b) \subseteq Task
  BY MembersAreTasks DEF Members
<1>3. \A u \in Task : owner'[u] # Nobody => task'[u] \in OnTheWay
  BY <1>1 DEF HandleInv
<1>4. ASSUME NEW b \in Actor, pc'[b] = "await"
      PROVE  owner'[target'[b]] = b /\ target'[b] \notin Members(b)'
  <2>1. b # a /\ pc[b] = "await" /\ target'[b] = target[b]
    BY <1>4
  <2>2. owner[target[b]] = b /\ target[b] \in Task /\ target[b] # t
    BY <1>1, <2>1 DEF HandleInv
  <2>3. QED BY <1>1, <1>2, <2>1, <2>2 DEF HandleInv
<1>5. ASSUME NEW b \in Actor, NEW u \in Members(b)'
      PROVE  owner'[u] = b \/ task'[u] = "freed"
  BY <1>1, <1>2, <1>5 DEF HandleInv
<1>6. \A b \in Actor : pc'[b] = "await_all" => group'[b] # NoGroup
  BY DEF HandleInv
<1>7. QED BY <1>3, <1>4, <1>5, <1>6 DEF HandleInv

LEMMA WorkersKeepHandles ==
  ASSUME PoolInv, HandleInv, NEW w \in Worker, WorkerStep(w) \/ SpuriousWakeup(w)
  PROVE  HandleInv'
<1>1. UNCHANGED <<owner, group, pc, target>>
  BY DEF WorkerStep, WorkerSleeps, WorkerLeaves, WorkerPops, WorkerCompletes,
         SpuriousWakeup
<1>2. \A t \in Task : /\ task[t] \in OnTheWay => task'[t] \in OnTheWay
                      /\ task[t] = "freed" => task'[t] = "freed"
  <2>1. CASE WorkerPops(w)
    <3>1. queue[1] = Head(queue) /\ 1 \in 1 .. Len(queue) /\ Head(queue) \in Task
      BY <2>1 DEF WorkerPops, PoolInv, TypeInv, TypeOK
    <3>2. task[Head(queue)] = "queued"
      BY <3>1 DEF PoolInv, EachTaskInOnePlace
    <3>3. task' = [task EXCEPT ![Head(queue)] = "running"]
      BY <2>1 DEF WorkerPops
    <3>4. QED BY <3>1, <3>2, <3>3 DEF PoolInv, TypeInv, TypeOK, OnTheWay
  <2>2. CASE WorkerCompletes(w)
    <3>1. job[w] \in Task => task[job[w]] = "running"
      BY DEF PoolInv, EachTaskInOnePlace
    <3>2. task' = [task EXCEPT ![job[w]] = "completed"]
      BY <2>2 DEF WorkerCompletes
    <3>3. QED BY <3>1, <3>2 DEF PoolInv, TypeInv, TypeOK, OnTheWay
  <2>3. CASE WorkerSleeps(w) \/ WorkerLeaves(w) \/ SpuriousWakeup(w)
    BY <2>3 DEF WorkerSleeps, WorkerLeaves, SpuriousWakeup
  <2>4. QED BY <2>1, <2>2, <2>3 DEF WorkerStep
<1>3. \A a \in Actor : pc'[a] = "await_all" => group[a] # NoGroup
  BY <1>1 DEF HandleInv
<1>4. QED BY <1>1, <1>2, <1>3, MembersAreTasks, HandlesUndisturbed

\* The handle that was spawned belongs to the spawner, or to the group it has open.
LEMMA PushKeepsHandles ==
  ASSUME PoolInv, HandleInv, NEW a \in Actor, SpawnPush(a)
  PROVE  HandleInv'
<1> DEFINE t == target[a]
<1>1. t \in Task /\ task[t] = "allocated" /\ a # Nobody
  BY PoolAssumption DEF SpawnPush, PoolInv, TypeInv, CallInv, Spawning
<1>2. owner[t] = Nobody /\ \A b \in Actor : t \notin Members(b)
  BY <1>1, PoolAssumption DEF HandleInv, OnTheWay, PoolInv, TypeInv, TypeOK
<1>3. /\ \A u \in Task : task'[u] = IF u = t THEN "queued" ELSE task[u]
      /\ \A u \in Task : owner'[u] = IF u = t THEN a ELSE owner[u]
      /\ pc'[a] = "idle" /\ \A b \in Actor : b # a => pc'[b] = pc[b] /\ target'[b] = target[b]
      /\ \A b \in Actor : b # a => group'[b] = group[b]
      /\ group'[a] = group[a] \/ (group[a] # NoGroup /\ group'[a] = Append(group[a], t))
      /\ \A b \in Actor : pc[b] = "await" => target[b] \in Task
  BY <1>1 DEF SpawnPush, Goto, PoolInv, TypeInv, TypeOK, CallInv
<1>4. \A b \in Actor : b # a => Members(b)' = Members(b)
  BY <1>3 DEF Members
<1>5. Members(a)' \subseteq Members(a) \cup {t}
  <2>1. CASE group'[a] = group[a]
    BY <2>1 DEF Members
  <2>2. CASE group[a] # NoGroup /\ group'[a] = Append(group[a], t)
    <3>1. group[a] \in Seq(Task)
      BY <2>2 DEF PoolInv, TypeInv, TypeOK
    <3>2. \A k \in DOMAIN group'[a] : group'[a][k] = t \/ group'[a][k] \in Range(group[a])
      BY <1>1, <2>2, <3>1 DEF Range
    <3>3. QED BY <2>2, <3>2 DEF Members, Range
  <2>3. QED BY <1>3, <2>1, <2>2
<1>6. \A b \in Actor : Members(b) \subseteq Task
  BY MembersAreTasks
<1> HIDE DEF t
<1>7. \A u \in Task : owner'[u] # Nobody => task'[u] \in OnTheWay
  BY <1>3 DEF HandleInv, OnTheWay
<1>8. ASSUME NEW b \in Actor, pc'[b] = "await"
      PROVE  owner'[target'[b]] = b /\ target'[b] \notin Members(b)'
  <2>1. b # a /\ pc[b] = "await" /\ target'[b] = target[b] /\ target[b] \in Task
    BY <1>3, <1>8
  <2>2. owner[target[b]] = b /\ target[b] # t /\ target[b] \notin Members(b)
    BY <1>2, <2>1, PoolAssumption DEF HandleInv
  <2>3. QED BY <1>3, <1>4, <2>1, <2>2
<1>9. ASSUME NEW b \in Actor, NEW u \in Members(b)'
      PROVE  owner'[u] = b \/ task'[u] = "freed"
  <2>1. CASE b = a /\ u = t
    BY <1>1, <1>3, <2>1
  <2>2. CASE u \in Members(b)
    BY <1>2, <1>3, <1>6, <2>2 DEF HandleInv
  <2>3. QED BY <1>4, <1>5, <1>9, <2>1, <2>2
<1>10. \A b \in Actor : pc'[b] = "await_all" => group'[b] # NoGroup
  BY <1>3 DEF HandleInv
<1>11. QED BY <1>7, <1>8, <1>9, <1>10 DEF HandleInv

\* A group that is left, at its end or by a return, has no handles any more.
LEMMA LeaveKeepsHandles ==
  ASSUME PoolInv, HandleInv, NEW a \in Actor,
         lcn_task_group_free(a) \/ ReturnInsideGroup(a)
  PROVE  HandleInv'
<1>1. /\ UNCHANGED <<task, target>> /\ pc'[a] = "idle"
      /\ group'[a] = NoGroup /\ pc[a] # "await"
      /\ \A b \in Actor : b # a => pc'[b] = pc[b] /\ group'[b] = group[b]
      /\ \A b \in Actor : pc[b] = "await" => target[b] \in Task
  BY DEF lcn_task_group_free, ReturnInsideGroup, LeaveGroup, Idle,
         PoolInv, TypeInv, TypeOK, CallInv
<1>2. \A u \in Task : owner'[u] = owner[u] \/ (u \in Members(a) /\ owner'[u] = Nobody)
  BY DEF lcn_task_group_free, ReturnInsideGroup, PoolInv, TypeInv, TypeOK
<1>3. /\ Members(a)' = {}
      /\ \A b \in Actor : b # a => Members(b)' = Members(b)
      /\ \A b \in Actor : Members(b) \subseteq Task
  BY <1>1, MembersAreTasks DEF Members
<1>4. \A u \in Task : u \in Members(a) => owner[u] = a \/ task[u] = "freed"
  BY DEF HandleInv
<1>5. \A u \in Task : owner'[u] # Nobody => task'[u] \in OnTheWay
  BY <1>1, <1>2 DEF HandleInv
<1>6. ASSUME NEW b \in Actor, pc'[b] = "await"
      PROVE  owner'[target'[b]] = b /\ target'[b] \notin Members(b)'
  <2>1. b # a /\ pc[b] = "await" /\ target'[b] = target[b] /\ target[b] \in Task
    BY <1>1, <1>6
  <2>2. owner[target[b]] = b /\ b # Nobody
    BY <2>1, PoolAssumption DEF HandleInv
  <2>3. task[target[b]] \in OnTheWay
    BY <2>1, <2>2 DEF HandleInv
  <2>4. target[b] \notin Members(a)
    BY <1>4, <2>1, <2>2, <2>3 DEF OnTheWay
  <2>5. QED BY <1>2, <1>3, <2>1, <2>2, <2>4 DEF HandleInv
<1>7. ASSUME NEW b \in Actor, NEW u \in Members(b)'
      PROVE  owner'[u] = b \/ task'[u] = "freed"
  <2>1. b # a /\ u \in Members(b) /\ u \in Task
    BY <1>3, <1>7
  <2>2. owner[u] = b \/ task[u] = "freed"
    BY <2>1 DEF HandleInv
  <2>3. QED BY <1>1, <1>2, <1>4, <2>1, <2>2
<1>8. \A b \in Actor : pc'[b] = "await_all" => group'[b] # NoGroup
  BY <1>1 DEF HandleInv
<1>9. QED BY <1>5, <1>6, <1>7, <1>8 DEF HandleInv

LEMMA ActorsKeepHandles ==
  ASSUME PoolInv, HandleInv, NEW a \in Actor, Proceeds(a) \/ Calls(a)
  PROVE  HandleInv'
<1>1. \A b \in Actor : Members(b) \subseteq Task
  BY MembersAreTasks
<1>2. /\ pc = [b \in Actor |-> pc[b]] /\ target = [b \in Actor |-> target[b]]
      /\ task = [t \in Task |-> task[t]]
  BY DEF PoolInv, TypeInv, TypeOK
<1>3. ASSUME NEW label, pc' = [pc EXCEPT ![a] = label], label # "await",
             label = "await_all" => group[a] # NoGroup,
             UNCHANGED <<task, owner, target, group>>
      PROVE  HandleInv'
  <2>1. \A b \in Actor : pc'[b] = "await_all" => group[b] # NoGroup
    BY <1>2, <1>3 DEF HandleInv
  <2>2. QED BY <1>1, <1>2, <1>3, <2>1, HandlesUndisturbed
<1>4. CASE SpawnInit(a) \/ lcn_threadpool_init(a)
  BY <1>3, <1>4 DEF SpawnInit, lcn_threadpool_init, InitPool
<1>5. CASE lcn_task_group_await_all(a)
  BY <1>3, <1>5 DEF lcn_task_group_await_all
<1>6. CASE ShutdownJoins(a) \/ ShutdownDestroys(a) \/ lcn_threadpool_shutdown(a)
  BY <1>3, <1>6 DEF ShutdownJoins, ShutdownDestroys, lcn_threadpool_shutdown
<1>7. CASE ShutdownDrains(a)
  <2>1. queue = << >>
    BY <1>7 DEF ShutdownDrains, PoolInv, LifeInv
  <2>2. task' = task
    BY <1>2, <1>7, <2>1 DEF ShutdownDrains
  <2>3. QED BY <1>3, <1>7, <2>2 DEF ShutdownDrains
<1>8. CASE AwaitReturns(a)
  <2>1. owner[target[a]] = a /\ target[a] \in Task
    BY <1>8 DEF AwaitReturns, HandleInv, PoolInv, TypeInv, CallInv
  <2>2. /\ pc'[a] \notin {"await", "await_all"} /\ group' = group
        /\ \A b \in Actor : b # a => pc'[b] = pc[b] /\ target'[b] = target[b]
    BY <1>2, <1>8 DEF AwaitReturns, Goto
  <2>3. /\ task' = [task EXCEPT ![target[a]] = "freed"]
        /\ owner' = [owner EXCEPT ![target[a]] = Nobody]
    BY <1>8 DEF AwaitReturns
  <2>4. QED BY <2>1, <2>2, <2>3, FreedOnce
<1>9. CASE GroupAwaitsNext(a)
  <2>1. PICK t : /\ t = group[a][Min(Unawaited(a))] /\ task[t] = "completed"
                 /\ task' = [task EXCEPT ![t] = "freed"]
                 /\ owner' = [owner EXCEPT ![t] = Nobody]
    BY <1>9 DEF GroupAwaitsNext
  <2>2. t \in Members(a)
    <3>1. Min(Unawaited(a)) \in DOMAIN group[a]
      <4>1. Unawaited(a) # {} /\ Unawaited(a) \subseteq DOMAIN group[a]
        BY <1>9 DEF GroupAwaitsNext, Unawaited
      <4>2. group[a] \in Seq(Task)
        BY <1>9 DEF GroupAwaitsNext, HandleInv, PoolInv, TypeInv, TypeOK
      <4>3. Unawaited(a) \in SUBSET Nat
        BY <4>1, <4>2
      <4>4. QED BY <4>1, <4>3, MinIsMember
    <3>2. group[a] # NoGroup
      BY <1>9 DEF GroupAwaitsNext, HandleInv
    <3>3. QED BY <2>1, <3>1, <3>2 DEF Members, Range
  <2>3. t \in Task /\ owner[t] = a
    BY <1>1, <2>1, <2>2 DEF HandleInv
  <2>4. UNCHANGED <<pc, target, group>> /\ pc[a] = "await_all"
    BY <1>9 DEF GroupAwaitsNext
  <2>5. QED BY <2>1, <2>3, <2>4, FreedOnce
<1>10. CASE lcn_task_group_new(a)
  <2>1. /\ UNCHANGED <<task, owner, pc, target>> /\ group'[a] = << >>
        /\ \A b \in Actor : b # a => group'[b] = group[b]
    BY <1>10 DEF lcn_task_group_new, PoolInv, TypeInv, TypeOK
  <2>2. Members(a)' = {}
    <3>1. DOMAIN << >> = {}
      OBVIOUS
    <3>2. QED BY <2>1, <3>1 DEF Members, Range
  <2>3. \A b \in Actor : b # a => Members(b)' = Members(b)
    BY <2>1 DEF Members
  <2>4. pc[a] = "idle"
    BY <1>10 DEF lcn_task_group_new, Idle
  <2>5. QED BY <2>1, <2>2, <2>3, <2>4 DEF HandleInv
<1>11. ASSUME NEW t \in Task, lcn_spawn_task(a, t) PROVE HandleInv'
  <2>1. task[t] = "new" /\ task' = [task EXCEPT ![t] = "allocated"]
    BY <1>11 DEF lcn_spawn_task
  <2>2. UNCHANGED <<owner, group>> /\ pc'[a] \notin {"await", "await_all"}
    BY <1>2, <1>11 DEF lcn_spawn_task, Goto
  <2>3. \A b \in Actor : b # a => pc'[b] = pc[b] /\ target'[b] = target[b]
    BY <1>2, <1>11 DEF lcn_spawn_task, Goto
  <2>4. \A u \in Task : /\ task[u] \in OnTheWay => task'[u] \in OnTheWay
                        /\ task[u] = "freed" => task'[u] = "freed"
    BY <1>2, <2>1 DEF OnTheWay
  <2>5. \A b \in Actor : pc'[b] = "await_all" => group[b] # NoGroup
    BY <2>2, <2>3 DEF HandleInv
  <2>6. QED BY <1>1, <2>2, <2>3, <2>4, <2>5, HandlesUndisturbed
<1>12. ASSUME NEW t \in Task, lcn_await_task(a, t) PROVE HandleInv'
  <2>1. UNCHANGED <<task, owner, group>> /\ owner[t] = a /\ t \notin Members(a)
    BY <1>12 DEF lcn_await_task
  <2>2. pc'[a] = "await" /\ target'[a] = t
    BY <1>2, <1>12 DEF lcn_await_task, Goto
  <2>3. \A b \in Actor : b # a => pc'[b] = pc[b] /\ target'[b] = target[b]
    BY <1>2, <1>12 DEF lcn_await_task, Goto
  <2>4. \A b \in Actor : Members(b)' = Members(b)
    BY <2>1 DEF Members
  <2>5. QED BY <2>1, <2>2, <2>3, <2>4 DEF HandleInv
<1>13. QED
  BY <1>4, <1>5, <1>6, <1>7, <1>8, <1>9, <1>10, <1>11, <1>12, PushKeepsHandles,
     LeaveKeepsHandles DEF Proceeds, Calls

\* threads.c:231, :342-380: an await, also that of a group, waits for a task that
\* was queued and whose handle is not yet freed: it never waits for a handle that is
\* gone, and no handle is freed twice.
THEOREM AwaitsAnswered == SpawnerStops => (Spec => []AwaitsArePending)
<1> DEFINE Inv == SpawnerStops /\ PoolInv /\ HandleInv
<1>1. SpawnerStops /\ Init => Inv
  <2>1. Init => HandleInv
    <3> SUFFICES ASSUME Init PROVE HandleInv
      OBVIOUS
    <3>1. \A a \in Actor : Members(a) = {} /\ pc[a] = "idle"
      BY DEF Init, Members
    <3>2. QED BY <3>1 DEF Init, HandleInv
  <2>2. QED BY <2>1, InitPoolInv
<1>2. Inv /\ [Next]_vars => Inv'
  <2> SUFFICES ASSUME Inv, [Next]_vars PROVE Inv'
    OBVIOUS
  <2>1. PoolInv' /\ SpawnerStops'
    BY PoolInvInductive DEF SpawnerStops
  <2>2. CASE UNCHANGED vars
    <3>1. \A a \in Actor : pc'[a] = "await_all" => group[a] # NoGroup
      BY <2>2 DEF vars, HandleInv
    <3>2. HandleInv'
      BY <2>2, <3>1, MembersAreTasks, HandlesUndisturbed DEF vars
    <3>3. QED BY <2>1, <3>2
  <2>3. CASE Next
    <3>1. HandleInv'
      BY <2>3, WorkersKeepHandles, ActorsKeepHandles DEF Next
    <3>2. QED BY <2>1, <3>1
  <2>4. QED BY <2>2, <2>3
<1>3. Inv => AwaitsArePending
  <2> SUFFICES ASSUME Inv, NEW a \in Actor
               PROVE  /\ pc[a] = "await" => task[target[a]] \in OnTheWay
                      /\ pc[a] = "await_all" =>
                           \A k \in Unawaited(a) : task[group[a][k]] \in OnTheWay
    BY DEF AwaitsArePending
  <2>1. ASSUME pc[a] = "await" PROVE task[target[a]] \in OnTheWay
    <3>1. owner[target[a]] = a /\ target[a] \in Task /\ a # Nobody
      BY <2>1, PoolAssumption DEF HandleInv, PoolInv, TypeInv, CallInv
    <3>2. QED BY <3>1 DEF HandleInv
  <2>2. ASSUME pc[a] = "await_all", NEW k \in Unawaited(a)
        PROVE  task[group[a][k]] \in OnTheWay
    <3>1. group[a][k] \in Members(a) /\ task[group[a][k]] # "freed"
      BY <2>2 DEF HandleInv, Unawaited, Members, Range
    <3>2. group[a][k] \in Task /\ owner[group[a][k]] = a /\ a # Nobody
      BY <3>1, MembersAreTasks, PoolAssumption DEF HandleInv
    <3>3. QED BY <3>2 DEF HandleInv
  <2>3. QED BY <2>1, <2>2
<1> HIDE DEF Inv
<1>4. SpawnerStops /\ Init /\ [][Next]_vars => []AwaitsArePending
  BY <1>1, <1>2, <1>3, PTL
<1>5. QED BY <1>4 DEF Spec
=============================================================================
