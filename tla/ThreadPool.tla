----------------------------- MODULE ThreadPool ------------------------------
(***************************************************************************)
(* src/runtime/threads.c: the thread pool behind spawn and await, and task *)
(* groups.                                                                 *)
(*                                                                         *)
(* An actor is a thread of the program or the body of a task that a worker *)
(* is running; both may spawn, await and open a task group.  A step is one *)
(* critical section of queue.mutex, g_init_mutex or a handle's mutex, or   *)
(* the unlocked read of g_pool.initialized in lcn_spawn_task.              *)
(***************************************************************************)
EXTENDS Integers, Sequences, SequencesExt

CONSTANTS
  Main,         \* the threads of the program that are not workers
  Task,         \* the tasks that may be spawned, each at most once
  Worker,       \* the workers: num_workers of them
  Spawner,      \* the actors that spawn
  Awaiter,      \* the actors that await handles, and the groups they open
  Returner,     \* the actors that may return from inside a task group block
  Stopper,      \* the program threads that shut the pool down
  Nobody        \* no actor, no task

Actor == Main \cup Task

ASSUME PoolAssumption ==
  /\ IsFiniteSet(Worker) /\ Worker # {}
  /\ Spawner \subseteq Actor /\ Awaiter \subseteq Actor
  /\ Returner \subseteq Actor /\ Stopper \subseteq Main
  /\ Main \cap Task = {}
  /\ Nobody \notin Actor

VARIABLES
  initialized,  \* g_pool.initialized
  shutdown,     \* g_pool.queue.shutdown
  queue,        \* g_pool.queue: the handles from head to tail
  init_mutex,   \* the holder of g_init_mutex while it blocks in a shutdown
  worker,       \* state of each worker thread
  job,          \* the task each worker has taken, or Nobody
  task,         \* life of each handle
  owner,        \* the actor that holds the handle
  pc,           \* the call each actor is in
  target,       \* the handle that call is about
  group         \* the handles of the actor's open task group

pool == <<initialized, shutdown, queue, init_mutex>>
vars == <<pool, worker, job, task, owner, pc, target, group>>

NoGroup == <<Nobody>>

Init ==
  /\ initialized = FALSE /\ shutdown = FALSE
  /\ queue = << >>
  /\ init_mutex = Nobody
  /\ worker = [w \in Worker |-> "none"]
  /\ job = [w \in Worker |-> Nobody]
  /\ task = [t \in Task |-> "new"]
  /\ owner = [t \in Task |-> Nobody]
  /\ pc = [a \in Actor |-> "idle"]
  /\ target = [a \in Actor |-> Nobody]
  /\ group = [a \in Actor |-> NoGroup]

\* The actor executes: the body of a task does so while a worker runs it.
Active(a) == a \in Main \/ (a \in Task /\ task[a] = "running")

Idle(a) == Active(a) /\ pc[a] = "idle"

Goto(a, label, t) ==
  /\ pc' = [pc EXCEPT ![a] = label]
  /\ target' = [target EXCEPT ![a] = t]

-----------------------------------------------------------------------------
\* worker_loop: sleep, leave, or take a task and run it.
WorkerSleeps(w) ==
  /\ worker[w] = "awake"
  /\ queue = << >> /\ ~shutdown
  /\ worker' = [worker EXCEPT ![w] = "sleeping"]
  /\ UNCHANGED <<pool, job, task, owner, pc, target, group>>

\* Variant: leaves as soon as the flag is set, whatever is queued.
LeavesAtOnce(w) ==
  /\ worker[w] = "awake"
  /\ shutdown
  /\ worker' = [worker EXCEPT ![w] = "exited"]
  /\ UNCHANGED <<pool, job, task, owner, pc, target, group>>

WorkerLeaves(w) ==
  /\ worker[w] = "awake"
  /\ queue = << >> /\ shutdown
  /\ worker' = [worker EXCEPT ![w] = "exited"]
  /\ UNCHANGED <<pool, job, task, owner, pc, target, group>>

\* Variant: the task is read but not unlinked.
WorkerPeeks(w) ==
  /\ worker[w] = "awake"
  /\ queue # << >>
  /\ job' = [job EXCEPT ![w] = Head(queue)]
  /\ task' = [task EXCEPT ![Head(queue)] = "running"]
  /\ worker' = [worker EXCEPT ![w] = "running"]
  /\ UNCHANGED <<pool, owner, pc, target, group>>

WorkerPops(w) ==
  /\ worker[w] = "awake"
  /\ queue # << >>
  /\ queue' = Tail(queue)
  /\ job' = [job EXCEPT ![w] = Head(queue)]
  /\ task' = [task EXCEPT ![Head(queue)] = "running"]
  /\ worker' = [worker EXCEPT ![w] = "running"]
  /\ UNCHANGED <<initialized, shutdown, init_mutex, owner, pc, target, group>>

\* The task's function has returned: publish the result, back to the loop.
\* A body never returns inside the statement block of a group.
WorkerCompletes(w) ==
  /\ worker[w] = "running"
  /\ pc[job[w]] = "idle" /\ group[job[w]] = NoGroup
  /\ task' = [task EXCEPT ![job[w]] = "completed"]
  /\ job' = [job EXCEPT ![w] = Nobody]
  /\ worker' = [worker EXCEPT ![w] = "awake"]
  /\ UNCHANGED <<pool, owner, pc, target, group>>

SpuriousWakeup(w) ==
  /\ worker[w] = "sleeping"
  /\ worker' = [worker EXCEPT ![w] = "awake"]
  /\ UNCHANGED <<pool, job, task, owner, pc, target, group>>

-----------------------------------------------------------------------------
\* Variant: no early return when the pool exists.
ReinitPool(a, next) ==
  /\ init_mutex = Nobody
  /\ initialized' = TRUE /\ shutdown' = FALSE /\ queue' = << >>
  /\ worker' = [w \in Worker |-> IF initialized THEN worker[w] ELSE "awake"]
  /\ pc' = [pc EXCEPT ![a] = next]
  /\ UNCHANGED <<init_mutex, job, task, owner, target, group>>

\* lcn_threadpool_init by actor a, which goes on at the label next: the queue
\* is reset and the workers are created, unless the pool exists already.
InitPool(a, next) ==
  /\ init_mutex = Nobody
  /\ IF initialized
     THEN UNCHANGED <<initialized, shutdown, queue, worker>>
     ELSE /\ initialized' = TRUE
          /\ shutdown' = FALSE
          /\ queue' = << >>
          /\ worker' = [w \in Worker |-> "awake"]
  /\ pc' = [pc EXCEPT ![a] = next]
  /\ UNCHANGED <<init_mutex, job, task, owner, target, group>>

lcn_threadpool_init(a) == a \in Main /\ Idle(a) /\ InitPool(a, "idle")

\* lcn_spawn_task: the unlocked test of initialized, and the handle.
lcn_spawn_task(a, t) ==
  /\ a \in Spawner /\ Idle(a)
  /\ task[t] = "new" /\ t # a
  /\ Goto(a, IF initialized THEN "push" ELSE "auto_init", t)
  /\ task' = [task EXCEPT ![t] = "allocated"]
  /\ UNCHANGED <<pool, worker, job, owner, group>>

SpawnInit(a) == pc[a] = "auto_init" /\ InitPool(a, "push")

\* queue_push and pthread_cond_signal: one sleeping worker is woken, if any.
Sleeping == {w \in Worker : worker[w] = "sleeping"}

\* Variant: nobody is woken.
PushWithoutSignal(a) ==
  /\ queue' = Append(queue, target[a])
  /\ UNCHANGED worker

\* Variant: a worker is woken only when the queue was empty.
SignalsWhenEmpty(a) ==
  /\ queue' = Append(queue, target[a])
  /\ IF Sleeping = {} \/ queue # << >> THEN UNCHANGED worker
     ELSE \E w \in Sleeping : worker' = [worker EXCEPT ![w] = "awake"]

queue_push(a) ==
  /\ queue' = Append(queue, target[a])
  /\ IF Sleeping = {} THEN UNCHANGED worker
     ELSE \E w \in Sleeping : worker' = [worker EXCEPT ![w] = "awake"]

\* The handle is returned, or kept by the group: a spawn statement of a
\* task_group block goes to the group, one inside another statement does not.
SpawnPush(a) ==
  /\ pc[a] = "push"
  /\ queue_push(a)
  /\ task' = [task EXCEPT ![target[a]] = "queued"]
  /\ owner' = [owner EXCEPT ![target[a]] = a]
  /\ \/ UNCHANGED group
     \/ group[a] # NoGroup /\ group' = [group EXCEPT ![a] = Append(@, target[a])]
  /\ Goto(a, "idle", Nobody)
  /\ UNCHANGED <<initialized, shutdown, init_mutex, job>>

Members(a) == IF group[a] = NoGroup THEN {} ELSE Range(group[a])

\* lcn_await_task on a handle that the actor owns; the handle is freed.
lcn_await_task(a, t) ==
  /\ a \in Awaiter /\ Idle(a)
  /\ owner[t] = a /\ t \notin Members(a)
  /\ Goto(a, "await", t)
  /\ UNCHANGED <<pool, worker, job, task, owner, group>>

AwaitReturns(a) ==
  /\ pc[a] = "await"
  /\ task[target[a]] = "completed"
  /\ task' = [task EXCEPT ![target[a]] = "freed"]
  /\ owner' = [owner EXCEPT ![target[a]] = Nobody]
  /\ Goto(a, "idle", Nobody)
  /\ UNCHANGED <<pool, worker, job, group>>

-----------------------------------------------------------------------------
\* A task_group block: new, the statements of the block, await_all, free.
lcn_task_group_new(a) ==
  /\ a \in Spawner \cap (Awaiter \cup Returner) /\ Idle(a)
  /\ group[a] = NoGroup
  /\ group' = [group EXCEPT ![a] = << >>]
  /\ UNCHANGED <<pool, worker, job, task, owner, pc, target>>

lcn_task_group_await_all(a) ==
  /\ a \in Awaiter /\ Idle(a) /\ group[a] # NoGroup
  /\ pc' = [pc EXCEPT ![a] = "await_all"]
  /\ UNCHANGED <<pool, worker, job, task, owner, target, group>>

Unawaited(a) == {k \in DOMAIN group[a] : task[group[a][k]] # "freed"}

\* The next handle in order is awaited and freed.
GroupAwaitsNext(a) ==
  /\ pc[a] = "await_all"
  /\ Unawaited(a) # {}
  /\ LET t == group[a][Min(Unawaited(a))] IN
     /\ task[t] = "completed"
     /\ task' = [task EXCEPT ![t] = "freed"]
     /\ owner' = [owner EXCEPT ![t] = Nobody]
  /\ UNCHANGED <<pool, worker, job, pc, target, group>>

LeaveGroup(a) ==
  /\ group' = [group EXCEPT ![a] = NoGroup]
  /\ pc' = [pc EXCEPT ![a] = "idle"]
  /\ UNCHANGED <<pool, worker, job, task, target>>

lcn_task_group_free(a) ==
  /\ pc[a] = "await_all"
  /\ Unawaited(a) = {}
  /\ LeaveGroup(a) /\ UNCHANGED owner

\* A return statement inside the block leaves it without await_all and free;
\* the group's handles are lost.
ReturnInsideGroup(a) ==
  /\ a \in Returner /\ Idle(a)
  /\ group[a] # NoGroup
  /\ owner' = [t \in Task |-> IF t \in Members(a) THEN Nobody ELSE owner[t]]
  /\ LeaveGroup(a)

-----------------------------------------------------------------------------
\* Variant: the workers are not woken.
ShutdownSilently(a) ==
  /\ a \in Stopper /\ Idle(a) /\ group[a] = NoGroup
  /\ init_mutex = Nobody /\ initialized
  /\ init_mutex' = a /\ shutdown' = TRUE
  /\ pc' = [pc EXCEPT ![a] = "join"]
  /\ UNCHANGED <<initialized, queue, worker, job, task, owner, target, group>>

\* lcn_threadpool_shutdown, by a thread of the program outside any group.
lcn_threadpool_shutdown(a) ==
  /\ a \in Stopper /\ Idle(a) /\ group[a] = NoGroup
  /\ init_mutex = Nobody
  /\ initialized
  /\ init_mutex' = a
  /\ shutdown' = TRUE
  /\ worker' = [w \in Worker |-> IF worker[w] = "sleeping" THEN "awake"
                                                           ELSE worker[w]]
  /\ pc' = [pc EXCEPT ![a] = "join"]
  /\ UNCHANGED <<initialized, queue, job, task, owner, target, group>>

ShutdownJoins(a) ==
  /\ pc[a] = "join"
  /\ \A w \in Worker : worker[w] = "exited"
  /\ pc' = [pc EXCEPT ![a] = "drain"]
  /\ UNCHANGED <<pool, worker, job, task, owner, target, group>>

\* What is still queued is freed without having run.
ShutdownDrains(a) ==
  /\ pc[a] = "drain"
  /\ task' = [t \in Task |-> IF \E k \in 1 .. Len(queue) : queue[k] = t
                             THEN "dropped" ELSE task[t]]
  /\ queue' = << >>
  /\ pc' = [pc EXCEPT ![a] = "destroy"]
  /\ UNCHANGED <<initialized, shutdown, init_mutex, worker, job, owner, target,
                 group>>

ShutdownDestroys(a) ==
  /\ pc[a] = "destroy"
  /\ initialized' = FALSE
  /\ init_mutex' = Nobody
  /\ worker' = [w \in Worker |-> "none"]
  /\ pc' = [pc EXCEPT ![a] = "idle"]
  /\ UNCHANGED <<shutdown, queue, job, task, owner, target, group>>

-----------------------------------------------------------------------------
WorkerStep(w) ==
  WorkerSleeps(w) \/ WorkerLeaves(w) \/ WorkerPops(w) \/ WorkerCompletes(w)

\* An actor goes on with the call it is in, or leaves its group block.
Proceeds(a) ==
  \/ SpawnInit(a) \/ SpawnPush(a)
  \/ AwaitReturns(a)
  \/ lcn_task_group_await_all(a) \/ GroupAwaitsNext(a) \/ lcn_task_group_free(a)
  \/ ReturnInsideGroup(a)
  \/ ShutdownJoins(a) \/ ShutdownDrains(a) \/ ShutdownDestroys(a)

Calls(a) ==
  \/ lcn_threadpool_init(a)
  \/ \E t \in Task : lcn_spawn_task(a, t) \/ lcn_await_task(a, t)
  \/ lcn_task_group_new(a)
  \/ lcn_threadpool_shutdown(a)

Next ==
  \/ \E w \in Worker : WorkerStep(w) \/ SpuriousWakeup(w)
  \/ \E a \in Actor : Proceeds(a) \/ Calls(a)

Spec == Init /\ [][Next]_vars

\* The workers run, an actor inside a call goes on as soon as it can, and no
\* task body runs for ever unless one of its calls does.
FairSpec ==
  /\ Spec
  /\ \A w \in Worker : WF_vars(WorkerStep(w)) /\ SF_vars(WorkerCompletes(w))
  /\ \A a \in Actor : WF_vars(Proceeds(a))

-----------------------------------------------------------------------------
\* The variables have their types, and g_init_mutex is held across steps
\* exactly by the thread inside a shutdown.
TypeOK ==
  /\ initialized \in BOOLEAN /\ shutdown \in BOOLEAN
  /\ queue \in Seq(Task)
  /\ init_mutex \in Main \cup {Nobody}
  /\ worker \in [Worker -> {"none", "sleeping", "awake", "running", "exited"}]
  /\ job \in [Worker -> Task \cup {Nobody}]
  /\ task \in [Task -> {"new", "allocated", "queued", "running", "completed",
                        "freed", "dropped"}]
  /\ owner \in [Task -> Actor \cup {Nobody}]
  /\ pc \in [Actor -> {"idle", "auto_init", "push", "await", "await_all",
                       "join", "drain", "destroy"}]
  /\ target \in [Actor -> Task \cup {Nobody}]
  /\ group \in [Actor -> Seq(Task) \cup {NoGroup}]
  /\ \A a \in Actor : init_mutex = a <=> pc[a] \in {"join", "drain", "destroy"}

\* Every handle is in one place: the queued ones are in the queue once, the
\* running ones are with exactly one worker, and no other handle is with either.
EachTaskInOnePlace ==
  /\ \A t \in Task :
       /\ (task[t] = "queued") <=> \E k \in 1 .. Len(queue) : queue[k] = t
       /\ (task[t] = "running") <=> \E w \in Worker : job[w] = t
  /\ \A j, k \in 1 .. Len(queue) : j # k => queue[j] # queue[k]
  /\ \A v, w \in Worker : v # w /\ job[v] # Nobody => job[v] # job[w]

\* One signal per spawn is enough: while a worker sleeps, each queued task has
\* a worker that is awake and has yet to look at the queue.
WorkersWoken ==
  Sleeping # {} =>
    Len(queue) <= Cardinality({w \in Worker : worker[w] = "awake"})

LeavesNoTask(a) ==
  group[a] # NoGroup /\ group'[a] = NoGroup =>
    \A t \in Members(a) : task[t] = "freed"

\* threads.h:43-44: "all spawned tasks complete before the group scope exits.
\* Tasks cannot escape the group", however the block is left.
NoTaskEscapes == [][\A a \in Actor : LeavesNoTask(a)]_vars

\* threads.h:35: shutdown "Waits for all pending tasks": no handle is ever
\* freed with its task not run, and once the pool is gone nothing is pending.
NoTaskDropped ==
  /\ \A t \in Task : task[t] # "dropped"
  /\ ~initialized => \A t \in Task : task[t] \notin {"queued", "running"}

\* Every call returns: await, await_all and shutdown.
CallsReturn == \A a \in Actor : Active(a) /\ pc[a] # "idle" ~> pc[a] = "idle"

\* Every spawned task runs to completion, also when the pool is shut down.
TasksComplete ==
  \A t \in Task : task[t] = "queued" ~> task[t] \in {"completed", "freed"}
=============================================================================
