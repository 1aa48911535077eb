---------------------------- MODULE GreenThreads -----------------------------
(***************************************************************************)
(* src/runtime/green_threads.c: green threads, each a pthread with a small *)
(* stack that a dispatcher launches and a counting throttle admits.        *)
(*                                                                         *)
(* An actor is a thread of the program or the body of a green thread.  A   *)
(* step is one critical section of g_sched.lock, of the run queue's mutex, *)
(* of g_throttle.mutex, of a handle's mutex or of g_green_init_mutex; a    *)
(* wait on a condition variable is the guard of the step that follows it,  *)
(* for each is signalled under its mutex whenever its condition turns true.*)
(* Park and unpark, which generated code never calls, are left out.        *)
(***************************************************************************)
EXTENDS Integers, Sequences, FiniteSets

CONSTANTS
  Main,         \* the threads of the program
  Green,        \* the green threads that may be spawned, each at most once
  N,            \* max_concurrent: the slots of the throttle
  Spawner,      \* the actors that spawn
  Awaiter,      \* the actors that await the handles they own
  Failing,      \* the green threads whose pthread_create may fail
  Restarts,     \* is the scheduler used again after a shutdown?
  Nobody        \* no actor, no green thread

Actor == Main \cup Green

ASSUME GreenAssumption ==
  /\ IsFiniteSet(Green)
  /\ N \in Nat \ {0}
  /\ Spawner \subseteq Actor /\ Awaiter \subseteq Actor
  /\ Failing \subseteq Green
  /\ Restarts \in BOOLEAN
  /\ Main \cap Green = {}
  /\ Nobody \notin Actor

VARIABLES
  initialized,  \* g_sched.initialized
  shutdown,     \* g_sched.shutdown
  alive_count,  \* g_sched.alive_count
  queue,        \* g_sched.queue, from head to tail
  init_mutex,   \* the holder of g_green_init_mutex while it blocks
  active,       \* g_throttle.active
  dispatcher,   \* where the dispatcher thread is in its loop
  launching,    \* the green thread it has popped
  life,         \* of each green thread and its handle
  owner,        \* the actor that holds the handle
  pc, target    \* the call each actor is in, and its handle

sched == <<initialized, shutdown, alive_count, queue, init_mutex>>
loop == <<dispatcher, launching>>
calls == <<pc, target>>
vars == <<sched, active, loop, life, owner, calls>>

Init ==
  /\ initialized = FALSE /\ shutdown = FALSE
  /\ alive_count = 0
  /\ queue = << >>
  /\ init_mutex = Nobody
  /\ active = 0
  /\ dispatcher = "none" /\ launching = Nobody
  /\ life = [g \in Green |-> "new"]
  /\ owner = [g \in Green |-> Nobody]
  /\ pc = [a \in Actor |-> "idle"]
  /\ target = [a \in Actor |-> Nobody]

Idle(a) == pc[a] = "idle" /\ (a \in Green => life[a] = "running")

Goto(a, label, g) ==
  /\ pc' = [pc EXCEPT ![a] = label]
  /\ target' = [target EXCEPT ![a] = g]

Becomes(g, stage) == life' = [life EXCEPT ![g] = stage]

-----------------------------------------------------------------------------
\* throttled_green_entry, the thread of a green thread that was launched.
\* Variant: one admitted too many.
AcquireOffByOne(g) ==
  /\ life[g] = "admission"
  /\ active <= N
  /\ active' = active + 1
  /\ Becomes(g, "running")
  /\ UNCHANGED <<sched, loop, owner, calls>>

throttle_acquire(g) ==
  /\ life[g] = "admission"
  /\ active < N
  /\ active' = active + 1
  /\ Becomes(g, "running")
  /\ UNCHANGED <<sched, loop, owner, calls>>

\* The function has returned: the result is published, awaiters are woken.
GreenCompletes(g) ==
  /\ Idle(g)
  /\ Becomes(g, "completed")
  /\ UNCHANGED <<sched, active, loop, owner, calls>>

GreenLeaves(g) ==
  /\ life[g] = "completed"
  /\ alive_count' = alive_count - 1
  /\ Becomes(g, "release")
  /\ UNCHANGED <<initialized, shutdown, queue, init_mutex, active, loop, owner,
                 calls>>

\* Variant: the slot is kept.
ExitsWithoutRelease(g) ==
  /\ life[g] = "release"
  /\ Becomes(g, "exited")
  /\ UNCHANGED <<sched, active, loop, owner, calls>>

throttle_release(g) ==
  /\ life[g] = "release"
  /\ active' = active - 1
  /\ Becomes(g, "exited")
  /\ UNCHANGED <<sched, loop, owner, calls>>

-----------------------------------------------------------------------------
\* dispatcher_loop.  Its timed wait on an empty queue always ends, so it is
\* no step of its own: DispatcherRechecks goes back to the top.
DispatcherStarts ==
  /\ dispatcher = "top"
  /\ dispatcher' = IF shutdown THEN "exited" ELSE "pop"
  /\ UNCHANGED <<sched, active, launching, life, owner, calls>>

DispatcherPops ==
  /\ dispatcher = "pop"
  /\ IF queue = << >>
     THEN /\ dispatcher' = "recheck"
          /\ UNCHANGED <<queue, launching, life>>
     ELSE /\ dispatcher' = "launch"
          /\ launching' = Head(queue)
          /\ queue' = Tail(queue)
          /\ Becomes(Head(queue), "launching")
  /\ UNCHANGED <<initialized, shutdown, alive_count, init_mutex, active, owner,
                 calls>>

DispatcherRechecks ==
  /\ dispatcher = "recheck"
  /\ dispatcher' = IF shutdown THEN "exited" ELSE "top"
  /\ UNCHANGED <<sched, active, launching, life, owner, calls>>

\* pthread_create; when it fails the handle is marked as done.
DispatcherLaunches ==
  /\ dispatcher = "launch"
  /\ \/ /\ Becomes(launching, "admission")
        /\ dispatcher' = "top" /\ launching' = Nobody
     \/ /\ launching \in Failing
        /\ Becomes(launching, "failed")
        /\ dispatcher' = "account" /\ UNCHANGED launching
  /\ UNCHANGED <<sched, active, owner, calls>>

\* Variant: a thread that could not be created stays counted.
ForgetsToAccount ==
  /\ dispatcher = "account"
  /\ dispatcher' = "top" /\ launching' = Nobody
  /\ UNCHANGED <<sched, active, life, owner, calls>>

DispatcherAccounts ==
  /\ dispatcher = "account"
  /\ alive_count' = alive_count - 1
  /\ dispatcher' = "top" /\ launching' = Nobody
  /\ UNCHANGED <<initialized, shutdown, queue, init_mutex, active, life, owner,
                 calls>>

-----------------------------------------------------------------------------
\* lcn_green_init by actor a, which goes on at the label next.  The dispatcher
\* may fail to be created: a message is printed, and the scheduler counts as
\* initialized all the same.
InitScheduler(a, next) ==
  /\ init_mutex = Nobody
  /\ IF initialized
     THEN UNCHANGED <<initialized, shutdown, alive_count, queue, active, loop>>
     ELSE /\ initialized' = TRUE /\ shutdown' = FALSE
          /\ alive_count' = 0
          /\ queue' = << >>
          /\ active' = 0
          /\ dispatcher' \in {"top", "none"} /\ launching' = Nobody
  /\ pc' = [pc EXCEPT ![a] = next]
  /\ UNCHANGED <<init_mutex, life, owner, target>>

lcn_green_init(a) == a \in Main /\ Idle(a) /\ InitScheduler(a, "idle")

\* lcn_green_spawn: the unlocked test of initialized, then the count, then the
\* queue.
lcn_green_spawn(a, g) ==
  /\ a \in Spawner /\ Idle(a)
  /\ life[g] = "new" /\ g # a
  /\ Goto(a, IF initialized THEN "count" ELSE "auto_init", g)
  /\ Becomes(g, "allocated")
  /\ UNCHANGED <<sched, active, loop, owner>>

SpawnInit(a) == pc[a] = "auto_init" /\ InitScheduler(a, "count")

SpawnCounts(a) ==
  /\ pc[a] = "count"
  /\ alive_count' = alive_count + 1
  /\ pc' = [pc EXCEPT ![a] = "push"]
  /\ UNCHANGED <<initialized, shutdown, queue, init_mutex, active, loop, life,
                 owner, target>>

SpawnPushes(a) ==
  /\ pc[a] = "push"
  /\ queue' = Append(queue, target[a])
  /\ Becomes(target[a], "queued")
  /\ owner' = [owner EXCEPT ![target[a]] = a]
  /\ Goto(a, "idle", Nobody)
  /\ UNCHANGED <<initialized, shutdown, alive_count, init_mutex, active, loop>>

lcn_green_await(a, g) ==
  /\ a \in Awaiter /\ Idle(a)
  /\ owner[g] = a
  /\ Goto(a, "await", g)
  /\ UNCHANGED <<sched, active, loop, life, owner>>

\* completed is set and the thread has ended: it is joined, the handle freed.
AwaitJoins(a) ==
  /\ pc[a] = "await"
  /\ life[target[a]] = "exited"
  /\ Becomes(target[a], "freed")
  /\ owner' = [owner EXCEPT ![target[a]] = Nobody]
  /\ Goto(a, "idle", Nobody)
  /\ UNCHANGED <<sched, active, loop>>

\* completed is set but there is no thread: the join of an unset pthread_t is
\* undefined, and nothing is assumed of the caller afterwards.
AwaitJoinsNothing(a) ==
  /\ pc[a] = "await"
  /\ life[target[a]] = "failed"
  /\ Goto(a, "undefined", target[a])
  /\ UNCHANGED <<sched, active, loop, life, owner>>

-----------------------------------------------------------------------------
\* Variant: the scheduler is stopped whatever still runs.
ShutdownWithoutWait(a) ==
  /\ a \in Main /\ Idle(a)
  /\ initialized /\ init_mutex = Nobody
  /\ init_mutex' = a /\ shutdown' = TRUE
  /\ pc' = [pc EXCEPT ![a] = "join"]
  /\ UNCHANGED <<initialized, alive_count, queue, active, loop, life, owner,
                 target>>

\* lcn_green_shutdown: the wait for all_done keeps g_green_init_mutex.
lcn_green_shutdown(a) ==
  /\ a \in Main /\ Idle(a)
  /\ initialized /\ init_mutex = Nobody
  /\ init_mutex' = a
  /\ pc' = [pc EXCEPT ![a] = "all_done"]
  /\ UNCHANGED <<initialized, shutdown, alive_count, queue, active, loop, life,
                 owner, target>>

ShutdownStops(a) ==
  /\ pc[a] = "all_done"
  /\ alive_count = 0
  /\ shutdown' = TRUE
  /\ pc' = [pc EXCEPT ![a] = "join"]
  /\ UNCHANGED <<initialized, alive_count, queue, init_mutex, active, loop,
                 life, owner, target>>

\* The dispatcher is joined if there is one (g_dispatcher_running), what is left
\* in the queue is freed, and the throttle and the scheduler are destroyed.
ShutdownDestroys(a) ==
  /\ pc[a] = "join"
  /\ dispatcher \in {"exited", "none"}
  /\ life' = [g \in Green |-> IF \E k \in 1 .. Len(queue) : queue[k] = g
                              THEN "orphan" ELSE life[g]]
  /\ queue' = << >>
  /\ initialized' = FALSE /\ shutdown' = FALSE
  /\ init_mutex' = Nobody
  /\ dispatcher' = "none"
  /\ pc' = [pc EXCEPT ![a] = IF Restarts THEN "idle" ELSE "end"]
  /\ UNCHANGED <<alive_count, active, launching, owner, target>>

-----------------------------------------------------------------------------
DispatcherStep ==
  \/ DispatcherStarts \/ DispatcherPops \/ DispatcherRechecks
  \/ DispatcherLaunches \/ DispatcherAccounts

GreenStep(g) ==
  throttle_acquire(g) \/ GreenCompletes(g) \/ GreenLeaves(g) \/ throttle_release(g)

Proceeds(a) ==
  \/ SpawnInit(a) \/ SpawnCounts(a) \/ SpawnPushes(a)
  \/ AwaitJoins(a) \/ AwaitJoinsNothing(a)
  \/ ShutdownStops(a) \/ ShutdownDestroys(a)

Calls(a) ==
  \/ lcn_green_init(a)
  \/ \E g \in Green : lcn_green_spawn(a, g) \/ lcn_green_await(a, g)
  \/ lcn_green_shutdown(a)

Next ==
  \/ DispatcherStep
  \/ \E g \in Green : GreenStep(g)
  \/ \E a \in Actor : Proceeds(a) \/ Calls(a)

Spec == Init /\ [][Next]_vars

\* The dispatcher runs, green threads run and their functions return, and an
\* actor inside a call goes on as soon as it can.
FairSpec ==
  /\ Spec
  /\ WF_vars(DispatcherStep)
  /\ \A g \in Green : WF_vars(GreenStep(g))
  /\ \A a \in Actor : WF_vars(Proceeds(a))

-----------------------------------------------------------------------------
Counted == {"queued", "launching", "admission", "running", "completed"}
Holding == {"running", "completed", "release"}

TypeOK ==
  /\ initialized \in BOOLEAN /\ shutdown \in BOOLEAN
  /\ alive_count \in 0 .. Cardinality(Green)
  /\ queue \in Seq(Green)
  /\ init_mutex \in Main \cup {Nobody}
  /\ active \in 0 .. N
  /\ dispatcher \in {"none", "top", "pop", "recheck", "launch", "account",
                     "exited"}
  /\ launching \in Green \cup {Nobody}
  /\ life \in [Green -> Counted \cup Holding \cup
                 {"new", "allocated", "failed", "exited", "freed", "orphan"}]
  /\ owner \in [Green -> Actor \cup {Nobody}]
  /\ pc \in [Actor -> {"idle", "auto_init", "count", "push", "await",
                       "undefined", "all_done", "join", "end"}]
  /\ target \in [Actor -> Green \cup {Nobody}]

\* green_threads.c:240: "at most N green threads execute concurrently", and
\* the slots taken are those of the threads between acquire and release.
AtMostNRun ==
  /\ Cardinality({g \in Green : life[g] = "running"}) <= N
  /\ initialized => active = Cardinality({g \in Green : life[g] \in Holding})

\* Shutdown waits for all pending green threads: past its wait nothing is
\* queued or running, so the drain "shouldn't happen" (green_threads.c:534),
\* and the dispatcher holds no handle.
NothingPendingAfterWait ==
  \A a \in Main : pc[a] \in {"join", "end"} =>
    /\ queue = << >>
    /\ launching = Nobody
    /\ \A g \in Green : life[g] \notin {"queued", "launching", "admission",
                                        "running", "orphan"}

\* green_threads.h: lcn_green_shutdown "joins all OS worker threads".  No
\* thread of the scheduler touches the throttle once it has been destroyed.
ShutdownJoinsThreads ==
  \A a \in Main : pc[a] = "end" => \A g \in Green : life[g] # "release"

\* A program whose behaviour is undefined promises nothing.
Undefined == \E a \in Actor : pc[a] = "undefined"

\* A scheduler whose dispatcher could not be created accepts green threads and
\* runs none of them.
Unserved == initialized /\ dispatcher = "none"

\* Every green thread runs to its end, also when nobody awaits it and the
\* scheduler is shut down, unless there is no dispatcher.
GreenThreadsFinish ==
  \A g \in Green :
    life[g] = "queued" ~>
      life[g] \in {"exited", "failed", "freed"} \/ Undefined \/ Unserved

\* green_threads.c:455, of the push of a spawn: "dispatcher will launch it".
QueuedIsLaunched == \A g \in Green : life[g] = "queued" ~> life[g] # "queued"

\* Every call returns: spawn, await and shutdown.  Without a dispatcher spawn
\* does, and shutdown once nothing is counted; an await of what was queued does
\* not, nor a shutdown that waits for it.
CallsReturn ==
  \A a \in Actor :
    pc[a] # "idle" ~>
      \/ pc[a] \in {"idle", "end"}
      \/ Undefined
      \/ Unserved /\ (pc[a] = "await" \/ (pc[a] = "all_done" /\ alive_count > 0))
=============================================================================
