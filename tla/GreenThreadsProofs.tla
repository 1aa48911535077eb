-------------------------- MODULE GreenThreadsProofs --------------------------
(***************************************************************************)
(* Theorems about GreenThreads, for any number of green threads and slots, *)
(* of a program with one thread that stops the scheduler at most once.     *)
(***************************************************************************)
EXTENDS GreenThreads, FiniteSetTheorems, TLAPS

\* With a second thread of the program, or a second start, a scheduler can be
\* started while a thread of the one before still has to give its slot back.
OneProgram == ~Restarts /\ \A a, b \in Main : a = b

Life == Counted \cup Holding \cup {"new", "allocated", "failed", "exited", "freed", "orphan"}

Types ==
  /\ initialized \in BOOLEAN /\ shutdown \in BOOLEAN
  /\ queue \in Seq(Green)
  /\ init_mutex \in Main \cup {Nobody}
  /\ dispatcher \in {"none", "top", "pop", "recheck", "launch", "account", "exited"}
  /\ launching \in Green \cup {Nobody}
  /\ life \in [Green -> Life]
  /\ owner \in [Green -> Actor \cup {Nobody}]
  /\ pc \in [Actor -> {"idle", "auto_init", "count", "push", "await",
                       "undefined", "all_done", "join", "end"}]
  /\ target \in [Actor -> Green \cup {Nobody}]

\* The run queue holds the queued green threads, each once.
QueueInv ==
  /\ \A k \in 1 .. Len(queue) : life[queue[k]] = "queued"
  /\ \A j, k \in 1 .. Len(queue) : queue[j] = queue[k] => j = k
  /\ \A g \in Green : life[g] = "queued" => \E k \in 1 .. Len(queue) : queue[k] = g

\* What the dispatcher has in hand.
LaunchInv ==
  /\ dispatcher \in {"launch", "account"} <=> launching # Nobody
  /\ dispatcher = "launch" => life[launching] = "launching"
  /\ dispatcher = "account" => life[launching] = "failed"
  /\ \A g \in Green : life[g] = "launching" => launching = g

Spawning == {"auto_init", "count", "push"}

\* What an actor in a call holds.
CallInv ==
  /\ \A a \in Actor :
       /\ pc[a] \in Spawning => target[a] \in Green /\ life[target[a]] = "allocated"
       /\ pc[a] \in {"all_done", "join", "end"} => a \in Main
       /\ pc[a] = "await" => target[a] \in Green
       /\ a \in Green /\ pc[a] # "idle" => life[a] = "running"
  /\ \A a, b \in Actor :
       pc[a] \in Spawning /\ pc[b] \in Spawning /\ target[a] = target[b] => a = b

\* The green threads that alive_count counts, and those that hold a slot.
Alive ==
  {g \in Green : \/ life[g] \in Counted
                 \/ dispatcher = "account" /\ launching = g
                 \/ \E a \in Actor : pc[a] = "push" /\ target[a] = g}
Holders == {g \in Green : life[g] \in Holding}

CountInv ==
  /\ alive_count = Cardinality(Alive)
  /\ active = Cardinality(Holders)
  /\ active <= N

\* The scheduler before its start, while it runs, and after its shutdown.
StageInv ==
  /\ \A a \in Actor : pc[a] \in {"count", "push", "all_done", "join"} => initialized
  /\ \A a \in Main : init_mutex = a <=> pc[a] \in {"all_done", "join"}
  /\ \A a \in Main : pc[a] \in {"join", "end"} => Alive = {}
  /\ initialized => \A a \in Main : pc[a] # "end"
  /\ ~initialized =>
       /\ dispatcher = "none" /\ Alive = {}
       /\ \/ \A g \in Green : life[g] \in {"new", "allocated"}
          \/ \E a \in Main : pc[a] = "end"
  /\ \A g \in Green : life[g] # "orphan"

GInv == Types /\ QueueInv /\ LaunchInv /\ CallInv /\ CountInv /\ StageInv

-----------------------------------------------------------------------------
LEMMA SubsetsFinite ==
  ASSUME NEW S \in SUBSET Green
  PROVE  IsFiniteSet(S) /\ Cardinality(S) \in 0 .. Cardinality(Green)
<1>1. IsFiniteSet(Green)
  BY GreenAssumption
<1>2. IsFiniteSet(S) /\ Cardinality(S) <= Cardinality(Green)
  BY <1>1, FS_Subset
<1>3. Cardinality(S) \in Nat /\ Cardinality(Green) \in Nat
  BY <1>1, <1>2, FS_CardinalityType
<1>4. QED BY <1>2, <1>3

LEMMA OneMore ==
  ASSUME NEW S \in SUBSET Green, NEW T \in SUBSET Green, NEW g \in Green, g \notin S,
         \A x \in Green : x \in T <=> x \in S \/ x = g
  PROVE  Cardinality(T) = Cardinality(S) + 1
<1>1. T = S \cup {g}
  OBVIOUS
<1>2. IsFiniteSet(S)
  BY SubsetsFinite
<1>3. QED BY <1>1, <1>2, FS_AddElement

LEMMA OneLess ==
  ASSUME NEW S \in SUBSET Green, NEW T \in SUBSET Green, NEW g \in S,
         \A x \in Green : x \in T <=> x \in S /\ x # g
  PROVE  Cardinality(T) = Cardinality(S) - 1
<1>1. T = S \ {g}
  OBVIOUS
<1>2. IsFiniteSet(S)
  BY SubsetsFinite
<1>3. QED BY <1>1, <1>2, FS_RemoveElement

\* What is counted changes only with what it is counted by.
LEMMA AliveSame ==
  ASSUME \A g \in Green : life'[g] \in Counted <=> life[g] \in Counted,
         UNCHANGED loop,
         \A a \in Actor : /\ pc'[a] = "push" <=> pc[a] = "push"
                          /\ pc[a] = "push" => target'[a] = target[a]
  PROVE  Alive' = Alive
<1>1. \A g \in Green : (\E a \in Actor : pc'[a] = "push" /\ target'[a] = g)
                         <=> (\E a \in Actor : pc[a] = "push" /\ target[a] = g)
  OBVIOUS
<1>2. dispatcher' = dispatcher /\ launching' = launching
  BY DEF loop
<1>3. QED BY <1>1, <1>2, Zenon DEF Alive

LEMMA HoldersSame ==
  ASSUME \A g \in Green : life'[g] \in Holding <=> life[g] \in Holding
  PROVE  Holders' = Holders
  BY DEF Holders

\* While nothing is counted, nothing is queued, launched, admitted or running.
LEMMA Quiet ==
  ASSUME GInv, Alive = {}
  PROVE  /\ queue = << >> /\ launching = Nobody
         /\ \A g \in Green : life[g] \notin Counted
         /\ \A a \in Actor : a \in Green => pc[a] = "idle" /\ ~Idle(a)
<1>1. \A g \in Green : life[g] \notin Counted
  BY DEF Alive
<1>2. queue = << >>
  <2>1. ASSUME queue # << >> PROVE FALSE
    <3>1. 1 \in 1 .. Len(queue) /\ queue[1] \in Green
      BY <2>1 DEF GInv, Types
    <3>2. life[queue[1]] = "queued"
      BY <3>1 DEF GInv, QueueInv
    <3>3. QED BY <1>1, <3>1, <3>2 DEF Counted
  <2>2. QED BY <2>1
<1>3. launching = Nobody
  <2>1. ASSUME launching # Nobody PROVE FALSE
    <3>1. launching \in Green
      BY <2>1 DEF GInv, Types
    <3>2. dispatcher \in {"launch", "account"}
      BY <2>1 DEF GInv, LaunchInv
    <3>3. CASE dispatcher = "launch"
      BY <1>1, <3>1, <3>3 DEF GInv, LaunchInv, Counted
    <3>4. CASE dispatcher = "account"
      BY <3>1, <3>4 DEF Alive
    <3>5. QED BY <3>2, <3>3, <3>4
  <2>2. QED BY <2>1
<1>4. ASSUME NEW a \in Actor, a \in Green PROVE pc[a] = "idle" /\ ~Idle(a)
  <2>1. life[a] # "running"
    BY <1>1, <1>4 DEF Counted
  <2>2. QED BY <1>4, <2>1 DEF GInv, CallInv, Idle
<1>5. QED BY <1>1, <1>2, <1>3, <1>4

\* The only thread of the program is the one that stops the scheduler.
LEMMA OnlyMain ==
  ASSUME OneProgram, GInv, NEW a \in Actor, NEW m \in Main, pc[m] \in {"join", "end"},
         pc[a] # "idle" \/ Idle(a)
  PROVE  a = m
<1>1. Alive = {}
  BY DEF GInv, StageInv
<1>2. a \notin Green
  BY <1>1, Quiet
<1>3. QED BY <1>2 DEF OneProgram, Actor

-----------------------------------------------------------------------------
\* Types.

LEMMA GreenTypes ==
  ASSUME GInv, NEW g \in Green, GreenStep(g)
  PROVE  Types'
<1>1. Types
  BY DEF GInv
<1>2. CASE throttle_acquire(g)
  BY <1>1, <1>2 DEF Types, throttle_acquire, Becomes, sched, loop, calls, Life, Counted
<1>3. CASE GreenCompletes(g)
  BY <1>1, <1>3 DEF Types, GreenCompletes, Becomes, sched, loop, calls, Life, Counted
<1>4. CASE GreenLeaves(g)
  BY <1>1, <1>4 DEF Types, GreenLeaves, Becomes, loop, calls, Life, Holding
<1>5. CASE throttle_release(g)
  BY <1>1, <1>5 DEF Types, throttle_release, Becomes, sched, loop, calls, Life
<1>6. QED BY <1>2, <1>3, <1>4, <1>5 DEF GreenStep

LEMMA DispatcherTypes ==
  ASSUME GInv, DispatcherStep
  PROVE  Types'
<1>1. Types
  BY DEF GInv
<1>2. CASE DispatcherStarts
  BY <1>1, <1>2 DEF Types, DispatcherStarts, sched, calls
<1>3. CASE DispatcherPops
  <2>1. CASE queue = << >>
    BY <1>1, <1>3, <2>1 DEF Types, DispatcherPops, calls
  <2>2. CASE queue # << >>
    <3>1. Head(queue) \in Green /\ Tail(queue) \in Seq(Green)
      BY <1>1, <2>2 DEF Types
    <3>2. [life EXCEPT ![Head(queue)] = "launching"] \in [Green -> Life]
      BY <1>1 DEF Types, Life, Counted
    <3>3. QED BY <1>1, <1>3, <2>2, <3>1, <3>2 DEF Types, DispatcherPops, Becomes, calls
  <2>3. QED BY <2>1, <2>2
<1>4. CASE DispatcherRechecks
  BY <1>1, <1>4 DEF Types, DispatcherRechecks, sched, calls
<1>5. CASE DispatcherLaunches
  BY <1>1, <1>5 DEF Types, DispatcherLaunches, Becomes, sched, calls, Life, Counted
<1>6. CASE DispatcherAccounts
  BY <1>1, <1>6 DEF Types, DispatcherAccounts, calls
<1>7. QED BY <1>2, <1>3, <1>4, <1>5, <1>6 DEF DispatcherStep

LEMMA InitTypes ==
  ASSUME Types, NEW a \in Actor, NEW next \in {"idle", "count"}, InitScheduler(a, next)
  PROVE  Types'
<1>1. /\ initialized' \in BOOLEAN /\ shutdown' \in BOOLEAN /\ queue' \in Seq(Green)
      /\ dispatcher' \in {"none", "top", "pop", "recheck", "launch", "account", "exited"}
      /\ launching' \in Green \cup {Nobody}
  <2>1. CASE initialized
    <3>1. /\ initialized' = initialized /\ shutdown' = shutdown /\ queue' = queue
          /\ dispatcher' = dispatcher /\ launching' = launching
      BY <2>1 DEF InitScheduler, loop
    <3>2. QED BY <3>1 DEF Types
  <2>2. CASE ~initialized
    <3>1. /\ initialized' = TRUE /\ shutdown' = FALSE /\ queue' = << >>
          /\ dispatcher' \in {"top", "none"} /\ launching' = Nobody
      BY <2>2 DEF InitScheduler
    <3>2. << >> \in Seq(Green)
      OBVIOUS
    <3>3. queue' \in Seq(Green)
      BY <3>1, <3>2
    <3>4. QED BY <3>1, <3>3
  <2>3. QED BY <2>1, <2>2
<1>2. /\ init_mutex' = init_mutex /\ life' = life /\ owner' = owner /\ target' = target
      /\ pc' = [pc EXCEPT ![a] = next]
  BY DEF InitScheduler
<1>3. QED BY <1>1, <1>2 DEF Types

LEMMA CallTypes ==
  ASSUME GInv, NEW a \in Actor, Calls(a)
  PROVE  Types'
<1>1. Types
  BY DEF GInv
<1>2. CASE lcn_green_init(a)
  BY <1>1, <1>2, InitTypes DEF lcn_green_init
<1>3. ASSUME NEW g \in Green, lcn_green_spawn(a, g) PROVE Types'
  BY <1>1, <1>3 DEF Types, lcn_green_spawn, Goto, Becomes, sched, loop, Life
<1>4. ASSUME NEW g \in Green, lcn_green_await(a, g) PROVE Types'
  BY <1>1, <1>4 DEF Types, lcn_green_await, Goto, sched, loop
<1>5. CASE lcn_green_shutdown(a)
  BY <1>1, <1>5 DEF Types, lcn_green_shutdown, loop
<1>6. QED BY <1>2, <1>3, <1>4, <1>5 DEF Calls

LEMMA ProceedTypes ==
  ASSUME GInv, NEW a \in Actor, Proceeds(a)
  PROVE  Types'
<1>1. Types
  BY DEF GInv
<1>2. CASE SpawnInit(a)
  BY <1>1, <1>2, InitTypes DEF SpawnInit
<1>3. CASE SpawnCounts(a)
  BY <1>1, <1>3 DEF Types, SpawnCounts, loop
<1>4. CASE SpawnPushes(a)
  <2>1. target[a] \in Green
    BY <1>4 DEF GInv, CallInv, SpawnPushes, Spawning
  <2>2. QED BY <1>1, <1>4, <2>1 DEF Types, SpawnPushes, Goto, Becomes, loop, Life, Counted
<1>5. CASE AwaitJoins(a)
  BY <1>1, <1>5 DEF Types, AwaitJoins, Goto, Becomes, sched, loop, Life
<1>6. CASE AwaitJoinsNothing(a)
  BY <1>1, <1>6 DEF Types, AwaitJoinsNothing, Goto, sched, loop
<1>7. CASE ShutdownStops(a)
  BY <1>1, <1>7 DEF Types, ShutdownStops, loop
<1>8. CASE ShutdownDestroys(a)
  <2>1. life' \in [Green -> Life]
    BY <1>1, <1>8 DEF Types, ShutdownDestroys, Life
  <2>2. /\ initialized' = FALSE /\ shutdown' = FALSE /\ queue' = << >> /\ init_mutex' = Nobody
        /\ dispatcher' = "none" /\ launching' = launching /\ owner' = owner /\ target' = target
        /\ \/ pc' = [pc EXCEPT ![a] = "idle"]
           \/ pc' = [pc EXCEPT ![a] = "end"]
    BY <1>8 DEF ShutdownDestroys
  <2>3. queue' \in Seq(Green)
    <3>1. << >> \in Seq(Green)
      OBVIOUS
    <3>2. QED BY <2>2, <3>1
  <2>4. pc' \in [Actor -> {"idle", "auto_init", "count", "push", "await",
                          "undefined", "all_done", "join", "end"}]
    BY <1>1, <2>2 DEF Types
  <2>5. QED BY <1>1, <2>1, <2>2, <2>3, <2>4 DEF Types
<1>9. QED BY <1>2, <1>3, <1>4, <1>5, <1>6, <1>7, <1>8 DEF Proceeds

-----------------------------------------------------------------------------
\* Steps that leave a part of the invariant alone.

LEMMA PlacesSame ==
  ASSUME GInv, UNCHANGED <<queue, dispatcher, launching>>,
         \A x \in Green : /\ life'[x] = "queued" <=> life[x] = "queued"
                          /\ life'[x] = "launching" <=> life[x] = "launching"
                          /\ life[x] = "failed" => life'[x] = "failed"
  PROVE  QueueInv' /\ LaunchInv'
<1>1. /\ queue' = queue /\ dispatcher' = dispatcher /\ launching' = launching
      /\ \A k \in 1 .. Len(queue) : queue[k] \in Green
      /\ launching # Nobody => launching \in Green
  BY DEF GInv, Types
<1>2. QueueInv'
  BY <1>1 DEF GInv, QueueInv
<1>3. dispatcher \in {"launch", "account"} => launching \in Green
  BY <1>1 DEF GInv, LaunchInv
<1>4. LaunchInv'
  BY <1>1, <1>3 DEF GInv, LaunchInv
<1>5. QED BY <1>2, <1>4

LEMMA CallsSame ==
  ASSUME GInv, UNCHANGED <<pc, target>>,
         \A x \in Green : /\ life[x] = "allocated" => life'[x] = "allocated"
                          /\ pc[x] # "idle" => life'[x] = life[x]
  PROVE  CallInv'
<1>1. pc' = pc /\ target' = target /\ Green \subseteq Actor
  BY DEF Actor
<1>2. CallInv
  BY DEF GInv
<1>3. QED BY <1>1, <1>2 DEF CallInv

LEMMA StageSame ==
  ASSUME GInv, UNCHANGED <<initialized, init_mutex, pc>>, Alive' \subseteq Alive,
         dispatcher' = dispatcher \/ initialized,
         \A x \in Green : life'[x] # "orphan",
         ~initialized => \A x \in Green : life[x] \in {"new", "allocated"} => life'[x] = life[x]
  PROVE  StageInv'
<1>1. initialized' = initialized /\ init_mutex' = init_mutex /\ pc' = pc
  OBVIOUS
<1>2. StageInv /\ (Alive = {} => Alive' = {})
  BY DEF GInv
<1>3. ASSUME ~initialized
      PROVE  /\ dispatcher' = "none" /\ Alive' = {}
             /\ \/ \A g \in Green : life'[g] \in {"new", "allocated"}
                \/ \E a \in Main : pc[a] = "end"
  BY <1>2, <1>3 DEF StageInv
<1>4. QED BY <1>1, <1>2, <1>3 DEF StageInv

\* A step of the life of one green thread, of which the rest of the scheduler
\* takes no notice.
LEMMA LifeSame ==
  ASSUME GInv, NEW g \in Green, NEW stage \in Life, Becomes(g, stage),
         UNCHANGED <<initialized, queue, init_mutex, loop, calls>>,
         life[g] \notin {"new", "queued", "launching", "allocated", "failed"},
         stage \notin {"queued", "launching", "orphan"},
         pc[g] = "idle" \/ life[g] # "running"
  PROVE  /\ QueueInv' /\ LaunchInv' /\ CallInv'
         /\ Alive' \subseteq Alive => StageInv'
<1>1. \A x \in Green : life'[x] = IF x = g THEN stage ELSE life[x]
  BY DEF GInv, Types, Becomes
<1>2. /\ dispatcher' = dispatcher /\ launching' = launching /\ queue' = queue
      /\ pc' = pc /\ target' = target /\ initialized' = initialized
      /\ init_mutex' = init_mutex
  BY DEF loop, calls
<1>3. QueueInv' /\ LaunchInv'
  BY <1>1, <1>2, PlacesSame
<1>4. pc[g] = "idle"
  BY DEF GInv, CallInv, Actor
<1>5. CallInv'
  BY <1>1, <1>2, <1>4, CallsSame
<1>6. \A x \in Green : life'[x] # "orphan"
  BY <1>1 DEF GInv, StageInv
<1>7. \A x \in Green : life[x] \in {"new", "allocated"} => life'[x] = life[x]
  BY <1>1
<1>8. Alive' \subseteq Alive => StageInv'
  BY <1>2, <1>6, <1>7, StageSame
<1>9. QED BY <1>3, <1>5, <1>8

LEMMA CountType ==
  ASSUME GInv
  PROVE  /\ alive_count \in 0 .. Cardinality(Green) /\ active \in 0 .. N
         /\ Cardinality(Green) \in Nat /\ N \in Nat
         /\ Alive \in SUBSET Green /\ Holders \in SUBSET Green
<1>1. Alive \in SUBSET Green /\ Holders \in SUBSET Green
  BY DEF Alive, Holders
<1>2. Cardinality(Green) \in Nat
  BY GreenAssumption, FS_CardinalityType
<1>3. QED BY <1>1, <1>2, SubsetsFinite, GreenAssumption DEF GInv, CountInv

\* The thread of a green thread.
LEMMA GreenInv ==
  ASSUME GInv, NEW g \in Green, GreenStep(g)
  PROVE  GInv'
<1>1. Types'
  BY GreenTypes
<1>2. /\ Alive \in SUBSET Green /\ Holders \in SUBSET Green
      /\ Alive' \in SUBSET Green /\ Holders' \in SUBSET Green
  BY DEF Alive, Holders
<1>3. ASSUME NEW stage, Becomes(g, stage)
      PROVE  \A x \in Green : life'[x] = IF x = g THEN stage ELSE life[x]
  BY <1>3 DEF GInv, Types, Becomes
<1>4. CASE throttle_acquire(g)
  <2>1. /\ life[g] = "admission" /\ Becomes(g, "running") /\ active < N
        /\ active' = active + 1 /\ alive_count' = alive_count
        /\ UNCHANGED <<initialized, queue, init_mutex, loop, calls>>
    BY <1>4 DEF throttle_acquire, sched
  <2>2. \A x \in Green : life'[x] = IF x = g THEN "running" ELSE life[x]
    BY <1>3, <2>1
  <2>3. Alive' = Alive
    BY <2>1, <2>2, AliveSame DEF Counted, calls
  <2>4. QueueInv' /\ LaunchInv' /\ CallInv' /\ StageInv'
    BY <2>1, <2>3, LifeSame DEF Life, Counted
  <2>5. Cardinality(Holders') = Cardinality(Holders) + 1
    <3>1. g \notin Holders
      BY <2>1 DEF Holders, Holding
    <3>2. \A x \in Green : x \in Holders' <=> x \in Holders \/ x = g
      BY <2>2 DEF Holders, Holding
    <3>3. QED BY <1>2, <3>1, <3>2, OneMore
  <2>6. CountInv'
    BY <2>1, <2>3, <2>5, CountType DEF GInv, CountInv
  <2>7. QED BY <1>1, <2>4, <2>6 DEF GInv
<1>5. CASE GreenCompletes(g)
  <2>1. /\ life[g] = "running" /\ pc[g] = "idle" /\ Becomes(g, "completed")
        /\ active' = active /\ alive_count' = alive_count
        /\ UNCHANGED <<initialized, queue, init_mutex, loop, calls>>
    BY <1>5 DEF GreenCompletes, Idle, sched
  <2>2. \A x \in Green : life'[x] = IF x = g THEN "completed" ELSE life[x]
    BY <1>3, <2>1
  <2>3. Alive' = Alive
    BY <2>1, <2>2, AliveSame DEF Counted, calls
  <2>4. QueueInv' /\ LaunchInv' /\ CallInv' /\ StageInv'
    BY <2>1, <2>3, LifeSame DEF Life, Counted
  <2>5. Holders' = Holders
    BY <2>1, <2>2, HoldersSame DEF Holding
  <2>6. CountInv'
    BY <2>1, <2>3, <2>5 DEF GInv, CountInv
  <2>7. QED BY <1>1, <2>4, <2>6 DEF GInv
<1>6. CASE GreenLeaves(g)
  <2>1. /\ life[g] = "completed" /\ Becomes(g, "release")
        /\ active' = active /\ alive_count' = alive_count - 1
        /\ UNCHANGED <<initialized, queue, init_mutex, loop, calls>>
    BY <1>6 DEF GreenLeaves
  <2>2. \A x \in Green : life'[x] = IF x = g THEN "release" ELSE life[x]
    BY <1>3, <2>1
  <2>3. /\ g \in Alive
        /\ \A x \in Green : x \in Alive' <=> x \in Alive /\ x # g
    <3>1. g \in Alive
      BY <2>1 DEF Alive, Counted
    <3>2. \A a \in Actor : pc[a] = "push" => target[a] # g
      BY <2>1 DEF GInv, CallInv, Spawning
    <3>3. ~(dispatcher = "account" /\ launching = g)
      BY <2>1 DEF GInv, LaunchInv
    <3>4. dispatcher' = dispatcher /\ launching' = launching /\ pc' = pc /\ target' = target
      BY <2>1 DEF loop, calls
    <3>5. life'[g] \notin Counted
      BY <2>2 DEF Counted
    <3>6. QED BY <2>2, <3>1, <3>2, <3>3, <3>4, <3>5 DEF Alive
  <2>4. QueueInv' /\ LaunchInv' /\ CallInv' /\ StageInv'
    BY <1>2, <2>1, <2>3, LifeSame DEF Life, Holding
  <2>5. Holders' = Holders
    BY <2>1, <2>2, HoldersSame DEF Holding
  <2>6. Cardinality(Alive') = Cardinality(Alive) - 1
    BY <1>2, <2>3, OneLess
  <2>7. CountInv'
    BY <2>1, <2>5, <2>6 DEF GInv, CountInv
  <2>8. QED BY <1>1, <2>4, <2>7 DEF GInv
<1>7. CASE throttle_release(g)
  <2>1. /\ life[g] = "release" /\ Becomes(g, "exited")
        /\ active' = active - 1 /\ alive_count' = alive_count
        /\ UNCHANGED <<initialized, queue, init_mutex, loop, calls>>
    BY <1>7 DEF throttle_release, sched
  <2>2. \A x \in Green : life'[x] = IF x = g THEN "exited" ELSE life[x]
    BY <1>3, <2>1
  <2>3. Alive' = Alive
    BY <2>1, <2>2, AliveSame DEF Counted, calls
  <2>4. QueueInv' /\ LaunchInv' /\ CallInv' /\ StageInv'
    BY <2>1, <2>3, LifeSame DEF Life
  <2>5. Cardinality(Holders') = Cardinality(Holders) - 1
    <3>1. g \in Holders
      BY <2>1 DEF Holders, Holding
    <3>2. \A x \in Green : x \in Holders' <=> x \in Holders /\ x # g
      BY <2>2 DEF Holders, Holding
    <3>3. QED BY <1>2, <3>1, <3>2, OneLess
  <2>6. CountInv'
    BY <2>1, <2>3, <2>5, CountType DEF GInv, CountInv
  <2>7. QED BY <1>1, <2>4, <2>6 DEF GInv
<1>8. QED BY <1>4, <1>5, <1>6, <1>7 DEF GreenStep

\* The dispatcher runs only while the scheduler does.
LEMMA DispatcherRuns ==
  ASSUME GInv, dispatcher # "none"
  PROVE  initialized
  BY DEF GInv, StageInv

LEMMA DispatcherInv ==
  ASSUME GInv, DispatcherStep
  PROVE  GInv'
<1>1. Types'
  BY DispatcherTypes
<1>2. /\ Alive \in SUBSET Green /\ Alive' \in SUBSET Green
      /\ initialized /\ UNCHANGED <<initialized, init_mutex, pc, target, active>>
  <2>1. Alive \in SUBSET Green /\ Alive' \in SUBSET Green
    BY DEF Alive
  <2>2. initialized
    BY DispatcherRuns DEF DispatcherStep, DispatcherStarts, DispatcherPops,
                          DispatcherRechecks, DispatcherLaunches, DispatcherAccounts
  <2>3. UNCHANGED <<initialized, init_mutex, pc, target, active>>
    BY DEF DispatcherStep, DispatcherStarts, DispatcherPops, DispatcherRechecks,
           DispatcherLaunches, DispatcherAccounts, sched, calls
  <2>4. QED BY <2>1, <2>2, <2>3
<1>3. CASE DispatcherStarts \/ DispatcherRechecks
  <2>1. /\ dispatcher \in {"top", "recheck"} /\ dispatcher' \in {"top", "pop", "exited"}
        /\ UNCHANGED <<launching, life, queue, alive_count>>
    BY <1>3 DEF DispatcherStarts, DispatcherRechecks, sched
  <2>2. Alive' = Alive
    BY <1>2, <2>1 DEF Alive
  <2>3. QueueInv' /\ LaunchInv'
    BY <2>1 DEF GInv, QueueInv, LaunchInv
  <2>4. CallInv' /\ StageInv'
    <3>1. \A x \in Green : life'[x] # "orphan" /\ life'[x] = life[x]
      BY <2>1 DEF GInv, StageInv
    <3>2. QED BY <1>2, <2>2, <3>1, CallsSame, StageSame
  <2>5. Holders' = Holders
    BY <2>1 DEF Holders
  <2>6. CountInv'
    BY <1>2, <2>1, <2>2, <2>5 DEF GInv, CountInv
  <2>7. QED BY <1>1, <2>3, <2>4, <2>6 DEF GInv
<1>4. CASE DispatcherPops
  <2>1. CASE queue = << >>
    <3>1. /\ dispatcher = "pop" /\ dispatcher' = "recheck"
          /\ UNCHANGED <<launching, life, queue, alive_count>>
      BY <1>4, <2>1 DEF DispatcherPops
    <3>2. Alive' = Alive
      BY <1>2, <3>1 DEF Alive
    <3>3. QueueInv' /\ LaunchInv'
      BY <3>1 DEF GInv, QueueInv, LaunchInv
    <3>4. CallInv' /\ StageInv'
      <4>1. \A x \in Green : life'[x] # "orphan" /\ life'[x] = life[x]
        BY <3>1 DEF GInv, StageInv
      <4>2. QED BY <1>2, <3>2, <4>1, CallsSame, StageSame
    <3>5. Holders' = Holders
      BY <3>1 DEF Holders
    <3>6. CountInv'
      BY <1>2, <3>1, <3>2, <3>5 DEF GInv, CountInv
    <3>7. QED BY <1>1, <3>3, <3>4, <3>6 DEF GInv
  <2>2. CASE queue # << >>
    <3> DEFINE g == Head(queue)
    <3>1. /\ dispatcher = "pop" /\ dispatcher' = "launch" /\ launching' = g
          /\ queue' = Tail(queue) /\ alive_count' = alive_count
          /\ Becomes(g, "launching")
      BY <1>4, <2>2 DEF DispatcherPops
    <3>2. /\ g = queue[1] /\ g \in Green /\ Len(queue) \in Nat \ {0}
          /\ Len(queue') = Len(queue) - 1
          /\ \A k \in 1 .. Len(queue) - 1 : queue'[k] = queue[k + 1]
      BY <2>2, <3>1 DEF GInv, Types
    <3>3. life[g] = "queued" /\ pc[g] = "idle"
      <4>1. life[g] = "queued"
        BY <3>2 DEF GInv, QueueInv
      <4>2. QED BY <3>2, <4>1 DEF GInv, CallInv, Actor
    <3>4. \A x \in Green : life'[x] = IF x = g THEN "launching" ELSE life[x]
      BY <3>1, <3>2 DEF GInv, Types, Becomes
    <3>5. launching = Nobody /\ \A x \in Green : life[x] # "launching"
      <4>1. launching = Nobody
        BY <3>1 DEF GInv, LaunchInv
      <4>2. QED BY <4>1, GreenAssumption DEF GInv, LaunchInv, Actor
    <3>6. LaunchInv'
      <4>1. g # Nobody
        BY <3>2, GreenAssumption DEF Actor
      <4>2. QED BY <3>1, <3>2, <3>4, <3>5, <4>1 DEF LaunchInv
    <3>7. QueueInv'
      <4>1. ASSUME NEW k \in 1 .. Len(queue') PROVE life'[queue'[k]] = "queued"
        <5>1. k + 1 \in 1 .. Len(queue) /\ queue'[k] = queue[k + 1] /\ k + 1 # 1
          BY <3>2, <4>1
        <5>2. queue[k + 1] # g /\ life[queue[k + 1]] = "queued" /\ queue[k + 1] \in Green
          BY <3>2, <5>1 DEF GInv, QueueInv, Types
        <5>3. QED BY <3>4, <5>1, <5>2
      <4>2. ASSUME NEW j \in 1 .. Len(queue'), NEW k \in 1 .. Len(queue'), queue'[j] = queue'[k]
            PROVE  j = k
        <5>1. /\ j + 1 \in 1 .. Len(queue) /\ queue'[j] = queue[j + 1]
              /\ k + 1 \in 1 .. Len(queue) /\ queue'[k] = queue[k + 1]
          BY <3>2, <4>2
        <5>2. j + 1 = k + 1
          BY <4>2, <5>1 DEF GInv, QueueInv
        <5>3. QED BY <3>2, <5>2
      <4>3. ASSUME NEW x \in Green, life'[x] = "queued"
            PROVE  \E k \in 1 .. Len(queue') : queue'[k] = x
        <5>1. x # g /\ life[x] = "queued"
          BY <3>4, <4>3
        <5>2. PICK k \in 1 .. Len(queue) : queue[k] = x
          BY <5>1 DEF GInv, QueueInv
        <5>3. k - 1 \in 1 .. Len(queue') /\ (k - 1) + 1 = k
          BY <3>2, <5>1, <5>2
        <5>4. queue'[k - 1] = x
          BY <3>2, <5>2, <5>3
        <5>5. QED BY <5>3, <5>4
      <4>4. QED BY <4>1, <4>2, <4>3 DEF QueueInv
    <3>8. Alive' = Alive /\ Holders' = Holders
      BY <1>2, <3>1, <3>3, <3>4 DEF Alive, Holders, Counted, Holding
    <3>9. CallInv' /\ StageInv'
      <4>1. /\ \A x \in Green : life'[x] # "orphan"
            /\ \A x \in Green : life[x] = "allocated" => life'[x] = "allocated"
            /\ \A x \in Green : pc[x] # "idle" => life'[x] = life[x]
        BY <3>3, <3>4 DEF GInv, StageInv
      <4>2. QED BY <1>2, <3>8, <4>1, CallsSame, StageSame
    <3>10. CountInv'
      BY <1>2, <3>1, <3>8 DEF GInv, CountInv
    <3>11. QED BY <1>1, <3>6, <3>7, <3>9, <3>10 DEF GInv
  <2>3. QED BY <2>1, <2>2
<1>5. CASE DispatcherLaunches
  <2> DEFINE g == launching
  <2>1. dispatcher = "launch" /\ g \in Green /\ life[g] = "launching" /\ g # Nobody
    BY <1>5 DEF DispatcherLaunches, GInv, LaunchInv, Types
  <2>2. pc[g] = "idle"
    BY <2>1 DEF GInv, CallInv, Actor
  <2>3. /\ queue' = queue /\ alive_count' = alive_count
        /\ \/ Becomes(g, "admission") /\ dispatcher' = "top" /\ launching' = Nobody
           \/ Becomes(g, "failed") /\ dispatcher' = "account" /\ launching' = g
    BY <1>5 DEF DispatcherLaunches, sched
  <2>4. PICK stage \in {"admission", "failed"} :
          /\ \A x \in Green : life'[x] = IF x = g THEN stage ELSE life[x]
          /\ stage = "admission" => dispatcher' = "top" /\ launching' = Nobody
          /\ stage = "failed" => dispatcher' = "account" /\ launching' = g
    BY <2>1, <2>3 DEF GInv, Types, Becomes
  <2>5. LaunchInv'
    BY <2>1, <2>4 DEF GInv, LaunchInv
  <2>6. QueueInv'
    <3>1. \A k \in 1 .. Len(queue) : queue[k] \in Green
      BY DEF GInv, Types
    <3>2. \A x \in Green : life'[x] = "queued" <=> life[x] = "queued"
      BY <2>1, <2>4
    <3>3. QED BY <2>3, <3>1, <3>2 DEF GInv, QueueInv
  <2>7. Alive' = Alive /\ Holders' = Holders
    BY <1>2, <2>1, <2>4 DEF Alive, Holders, Counted, Holding
  <2>8. CallInv' /\ StageInv'
    <3>1. /\ \A x \in Green : life'[x] # "orphan"
          /\ \A x \in Green : life[x] = "allocated" => life'[x] = "allocated"
          /\ \A x \in Green : pc[x] # "idle" => life'[x] = life[x]
      BY <2>1, <2>2, <2>4 DEF GInv, StageInv
    <3>2. QED BY <1>2, <2>7, <3>1, CallsSame, StageSame
  <2>9. CountInv'
    BY <1>2, <2>3, <2>7 DEF GInv, CountInv
  <2>10. QED BY <1>1, <2>5, <2>6, <2>8, <2>9 DEF GInv
<1>6. CASE DispatcherAccounts
  <2> DEFINE g == launching
  <2>1. dispatcher = "account" /\ g \in Green /\ life[g] = "failed"
    BY <1>6 DEF DispatcherAccounts, GInv, LaunchInv, Types
  <2>2. /\ queue' = queue /\ alive_count' = alive_count - 1 /\ life' = life
        /\ dispatcher' = "top" /\ launching' = Nobody
    BY <1>6 DEF DispatcherAccounts
  <2>3. g \in Alive /\ \A x \in Green : x \in Alive' <=> x \in Alive /\ x # g
    <3>1. \A a \in Actor : pc[a] = "push" => target[a] # g
      BY <2>1 DEF GInv, CallInv, Spawning
    <3>2. QED BY <1>2, <2>1, <2>2, <3>1 DEF Alive, Counted
  <2>4. QueueInv' /\ LaunchInv'
    BY <2>1, <2>2, GreenAssumption DEF GInv, QueueInv, LaunchInv, Actor
  <2>5. CallInv' /\ StageInv'
    <3>1. \A x \in Green : life'[x] # "orphan" /\ life'[x] = life[x]
      BY <2>2 DEF GInv, StageInv
    <3>2. QED BY <1>2, <2>3, <3>1, CallsSame, StageSame
  <2>6. Cardinality(Alive') = Cardinality(Alive) - 1
    BY <1>2, <2>3, OneLess
  <2>7. Holders' = Holders
    BY <2>2 DEF Holders
  <2>8. CountInv'
    BY <1>2, <2>2, <2>6, <2>7 DEF GInv, CountInv
  <2>9. QED BY <1>1, <2>4, <2>5, <2>8 DEF GInv
<1>7. QED BY <1>3, <1>4, <1>5, <1>6 DEF DispatcherStep

-----------------------------------------------------------------------------
\* The calls.

\* An actor goes from one place to another, where it counts and stops nothing.
LEMMA GotoSame ==
  ASSUME GInv, NEW a \in Actor, NEW label, pc' = [pc EXCEPT ![a] = label],
         UNCHANGED <<initialized, init_mutex>>, Alive' = Alive,
         dispatcher' = dispatcher,
         pc[a] \in {"idle", "auto_init", "await", "count", "push"},
         label \in {"idle", "auto_init", "count", "await", "undefined"},
         label = "count" => initialized,
         \A x \in Green : /\ life'[x] # "orphan"
                          /\ ~initialized /\ life[x] \in {"new", "allocated"}
                               => life'[x] \in {"new", "allocated"}
  PROVE  StageInv'
<1>1. /\ \A x \in Actor : pc'[x] = IF x = a THEN label ELSE pc[x]
      /\ initialized' = initialized /\ init_mutex' = init_mutex
  BY DEF GInv, Types
<1>2. /\ \A x \in Actor : pc'[x] \in {"all_done", "join", "end"} => pc'[x] = pc[x]
      /\ \A x \in Actor : pc[x] \in {"all_done", "join", "end"} => pc'[x] = pc[x]
      /\ \A x \in Actor : pc'[x] \in {"count", "push"} => initialized
      /\ Main \subseteq Actor
  BY <1>1 DEF GInv, StageInv, Actor
<1>3. \A x \in Actor : pc'[x] \in {"count", "push", "all_done", "join"} => initialized
  BY <1>2 DEF GInv, StageInv
<1>4. \A x \in Main : init_mutex = x <=> pc'[x] \in {"all_done", "join"}
  BY <1>2 DEF GInv, StageInv
<1>5. \A x \in Main : pc'[x] \in {"join", "end"} => Alive = {}
  BY <1>2 DEF GInv, StageInv
<1>6. initialized => \A x \in Main : pc'[x] # "end"
  BY <1>2 DEF GInv, StageInv
<1>7. ASSUME ~initialized
      PROVE  /\ dispatcher = "none" /\ Alive = {}
             /\ \/ \A g \in Green : life'[g] \in {"new", "allocated"}
                \/ \E x \in Main : pc'[x] = "end"
  <2>1. CASE \A g \in Green : life[g] \in {"new", "allocated"}
    BY <1>7, <2>1 DEF GInv, StageInv
  <2>2. CASE \E x \in Main : pc[x] = "end"
    BY <1>2, <1>7, <2>2 DEF GInv, StageInv
  <2>3. QED BY <1>7, <2>1, <2>2 DEF GInv, StageInv
<1>8. QED BY <1>1, <1>3, <1>4, <1>5, <1>6, <1>7 DEF StageInv

LEMMA InitInv ==
  ASSUME OneProgram, GInv, NEW a \in Actor, NEW next, InitScheduler(a, next),
         \/ next = "idle" /\ Idle(a)
         \/ next = "count" /\ pc[a] = "auto_init"
  PROVE  GInv'
<1>1. /\ life' = life /\ target' = target /\ init_mutex' = init_mutex
      /\ pc' = [pc EXCEPT ![a] = next]
      /\ initialized' = TRUE
  BY DEF InitScheduler, GInv, Types
<1>2. \A x \in Actor : pc'[x] = IF x = a THEN next ELSE pc[x]
  BY <1>1 DEF GInv, Types
<1>3. Types'
  BY InitTypes DEF GInv
<1>4. CallInv'
  <2>1. /\ \A x \in Actor : /\ pc'[x] \in Spawning => pc[x] \in Spawning
                            /\ pc'[x] \in {"all_done", "join", "end", "await"} => pc'[x] = pc[x]
                            /\ pc'[x] # "idle" => pc[x] # "idle"
    BY <1>2 DEF Spawning
  <2>2. QED BY <1>1, <2>1 DEF GInv, CallInv
<1>5. Holders' = Holders
  BY <1>1 DEF Holders
<1>6. CASE initialized
  <2>1. UNCHANGED <<initialized, shutdown, alive_count, queue, active, loop>>
    BY <1>6 DEF InitScheduler
  <2>2. QueueInv' /\ LaunchInv'
    BY <1>1, <2>1, PlacesSame DEF loop
  <2>3. Alive' = Alive
    <3>1. pc[a] \in {"idle", "auto_init"}
      BY DEF Idle
    <3>2. \A x \in Actor : pc'[x] = "push" <=> pc[x] = "push"
      BY <1>2, <3>1
    <3>3. UNCHANGED loop
      BY <2>1
    <3>4. \A x \in Actor : pc[x] = "push" => target'[x] = target[x]
      BY <1>1
    <3>5. \A x \in Green : life'[x] \in Counted <=> life[x] \in Counted
      BY <1>1
    <3>6. QED BY <3>2, <3>3, <3>4, <3>5, AliveSame
  <2>4. StageInv'
    <3>1. \A x \in Green : life'[x] # "orphan"
      BY <1>1 DEF GInv, StageInv
    <3>2. dispatcher' = dispatcher /\ UNCHANGED <<initialized, init_mutex>>
      BY <1>1, <2>1 DEF loop
    <3>3. pc[a] \in {"idle", "auto_init"}
      BY DEF Idle
    <3>4. QED BY <1>1, <1>6, <2>3, <3>1, <3>2, <3>3, GotoSame
  <2>5. CountInv'
    BY <1>5, <2>1, <2>3 DEF GInv, CountInv
  <2>6. QED BY <1>3, <1>4, <2>2, <2>4, <2>5 DEF GInv
<1>7. CASE ~initialized
  <2>1. /\ alive_count' = 0 /\ queue' = << >> /\ active' = 0
        /\ dispatcher' \in {"top", "none"} /\ launching' = Nobody
    BY <1>7 DEF InitScheduler
  <2>2. Alive = {}
    BY <1>7 DEF GInv, StageInv
  <2>3. \A m \in Main : pc[m] # "end"
    BY OnlyMain DEF Idle
  <2>4. \A g \in Green : life[g] \in {"new", "allocated"}
    BY <1>7, <2>3 DEF GInv, StageInv
  <2>5. \A x \in Actor : pc[x] \notin {"count", "push", "all_done", "join"}
    BY <1>7 DEF GInv, StageInv
  <2>6. Alive' = {} /\ Holders' = {}
    <3>1. \A x \in Actor : pc'[x] # "push"
      BY <1>2, <2>5
    <3>2. QED BY <1>1, <2>1, <2>4, <3>1 DEF Alive, Holders, Counted, Holding
  <2>7. QueueInv' /\ LaunchInv'
    BY <1>1, <2>1, <2>4 DEF QueueInv, LaunchInv
  <2>8. CountInv'
    BY <2>1, <2>6, FS_EmptySet, GreenAssumption DEF CountInv
  <2>9. StageInv'
    <3>1. Main \subseteq Actor
      BY DEF Actor
    <3>2. \A x \in Main : pc'[x] \notin {"all_done", "join", "end"}
      BY <1>2, <2>3, <2>5, <3>1
    <3>3. \A x \in Main : ~(init_mutex = x)
      BY <2>5, <3>1 DEF GInv, StageInv
    <3>4. QED BY <1>1, <2>4, <2>6, <3>2, <3>3 DEF StageInv
  <2>10. QED BY <1>3, <1>4, <2>7, <2>8, <2>9 DEF GInv
<1>8. QED BY <1>6, <1>7

\* A step by which a call begins or ends changes the place of one actor.
LEMMA SpawnInv ==
  ASSUME GInv, NEW a \in Actor, NEW g \in Green, lcn_green_spawn(a, g)
  PROVE  GInv'
<1>1. /\ Idle(a) /\ pc[a] = "idle" /\ life[g] = "new" /\ g # a
      /\ UNCHANGED <<sched, active, loop, owner>>
  BY DEF lcn_green_spawn, Idle
<1>2. PICK label \in {"count", "auto_init"} :
        /\ label = "count" => initialized
        /\ pc' = [pc EXCEPT ![a] = label]
  BY DEF lcn_green_spawn, Goto
<1>3. /\ \A x \in Green : life'[x] = IF x = g THEN "allocated" ELSE life[x]
      /\ \A x \in Actor : target'[x] = IF x = a THEN g ELSE target[x]
      /\ \A x \in Actor : pc'[x] = IF x = a THEN label ELSE pc[x]
  BY <1>2 DEF lcn_green_spawn, Goto, Becomes, GInv, Types
<1>4. Types'
  BY CallTypes DEF Calls
<1>5. /\ UNCHANGED <<initialized, init_mutex, queue, alive_count, active>>
      /\ dispatcher' = dispatcher /\ launching' = launching
  BY <1>1 DEF sched, loop
<1>6. QueueInv' /\ LaunchInv'
  <2>1. \A x \in Green : /\ life'[x] = "queued" <=> life[x] = "queued"
                         /\ life'[x] = "launching" <=> life[x] = "launching"
                         /\ life[x] = "failed" => life'[x] = "failed"
    BY <1>1, <1>3
  <2>2. QED BY <1>5, <2>1, PlacesSame
<1>7. Alive' = Alive
  <2>1. \A x \in Actor : /\ pc'[x] = "push" <=> pc[x] = "push"
                         /\ pc[x] = "push" => target'[x] = target[x]
    BY <1>1, <1>3
  <2>2. \A x \in Green : life'[x] \in Counted <=> life[x] \in Counted
    BY <1>1, <1>3 DEF Counted
  <2>3. QED BY <1>1, <2>1, <2>2, AliveSame
<1>8. Holders' = Holders
  BY <1>1, <1>3, HoldersSame DEF Holding
<1>9. CountInv'
  BY <1>5, <1>7, <1>8 DEF GInv, CountInv
<1>10. StageInv'
  <2>1. \A x \in Green : /\ life'[x] # "orphan"
                         /\ life[x] \in {"new", "allocated"} => life'[x] \in {"new", "allocated"}
    BY <1>3 DEF GInv, StageInv
  <2>2. QED BY <1>1, <1>2, <1>5, <1>7, <2>1, GotoSame
<1>11. CallInv'
  <2>1. \A x \in Actor : pc[x] \in Spawning => target[x] # g /\ x # a
    BY <1>1 DEF GInv, CallInv, Spawning
  <2>2. ASSUME NEW x \in Actor
        PROVE  /\ pc'[x] \in Spawning => target'[x] \in Green /\ life'[target'[x]] = "allocated"
               /\ pc'[x] \in {"all_done", "join", "end"} => x \in Main
               /\ pc'[x] = "await" => target'[x] \in Green
               /\ x \in Green /\ pc'[x] # "idle" => life'[x] = "running"
    <3>1. CASE x = a
      <4>1. a \in Green => life'[a] = "running"
        BY <1>1, <1>3 DEF Idle
      <4>2. QED BY <1>3, <3>1, <4>1
    <3>2. CASE x # a
      <4>1. pc'[x] = pc[x] /\ target'[x] = target[x]
        BY <1>3, <3>2
      <4>2. pc[x] \in Spawning => target[x] \in Green /\ life'[target[x]] = "allocated"
        BY <1>3, <2>1 DEF GInv, CallInv
      <4>3. x \in Green /\ pc[x] # "idle" => life'[x] = "running"
        BY <1>1, <1>3 DEF GInv, CallInv
      <4>4. /\ pc[x] \in {"all_done", "join", "end"} => x \in Main
            /\ pc[x] = "await" => target[x] \in Green
        BY DEF GInv, CallInv
      <4>5. QED BY <4>1, <4>2, <4>3, <4>4
    <3>3. QED BY <3>1, <3>2
  <2>3. ASSUME NEW x \in Actor, NEW y \in Actor,
               pc'[x] \in Spawning, pc'[y] \in Spawning, target'[x] = target'[y]
        PROVE  x = y
    <3>1. CASE x = a
      BY <1>3, <2>1, <2>3, <3>1
    <3>2. CASE y = a
      BY <1>3, <2>1, <2>3, <3>2
    <3>3. CASE x # a /\ y # a
      BY <1>3, <2>3, <3>3 DEF GInv, CallInv
    <3>4. QED BY <3>1, <3>2, <3>3
  <2>4. QED BY <2>2, <2>3 DEF CallInv
<1>12. QED BY <1>4, <1>6, <1>9, <1>10, <1>11 DEF GInv

\* Awaits, which wait for a handle and at most free it.
LEMMA AwaitInv ==
  ASSUME GInv, NEW a \in Actor,
         \/ \E g \in Green : lcn_green_await(a, g)
         \/ AwaitJoins(a)
         \/ AwaitJoinsNothing(a)
  PROVE  GInv'
<1>1. Types'
  BY CallTypes, ProceedTypes DEF Calls, Proceeds
<1>2. PICK label \in {"idle", "await", "undefined"}, g \in Green \cup {Nobody} :
        /\ pc' = [pc EXCEPT ![a] = label]
        /\ target' = [target EXCEPT ![a] = g]
        /\ label # "idle" => g \in Green
  BY DEF lcn_green_await, AwaitJoins, AwaitJoinsNothing, Goto, GInv, CallInv
<1>3. /\ UNCHANGED <<sched, active, loop>>
      /\ pc[a] \in {"idle", "await"}
      /\ pc[a] # "idle" \/ Idle(a)
  BY DEF lcn_green_await, AwaitJoins, AwaitJoinsNothing, Idle
<1>4. /\ UNCHANGED <<initialized, init_mutex, queue, alive_count, active>>
      /\ dispatcher' = dispatcher /\ launching' = launching
  BY <1>3 DEF sched, loop
<1>5. /\ \A x \in Actor : pc'[x] = IF x = a THEN label ELSE pc[x]
      /\ \A x \in Actor : target'[x] = IF x = a THEN g ELSE target[x]
  BY <1>2 DEF GInv, Types
<1>6. \A x \in Green : life'[x] = life[x] \/ (life[x] = "exited" /\ life'[x] = "freed")
  BY DEF lcn_green_await, AwaitJoins, AwaitJoinsNothing, Becomes, GInv, Types, CallInv
<1>7. QueueInv' /\ LaunchInv'
  <2>1. \A x \in Green : /\ life'[x] = "queued" <=> life[x] = "queued"
                         /\ life'[x] = "launching" <=> life[x] = "launching"
                         /\ life[x] = "failed" => life'[x] = "failed"
    BY <1>6
  <2>2. QED BY <1>4, <2>1, PlacesSame
<1>8. Alive' = Alive
  <2>1. \A x \in Actor : /\ pc'[x] = "push" <=> pc[x] = "push"
                         /\ pc[x] = "push" => target'[x] = target[x]
    BY <1>3, <1>5
  <2>2. \A x \in Green : life'[x] \in Counted <=> life[x] \in Counted
    BY <1>6 DEF Counted
  <2>3. QED BY <1>3, <2>1, <2>2, AliveSame
<1>9. Holders' = Holders
  BY <1>6, HoldersSame DEF Holding
<1>10. CountInv'
  BY <1>4, <1>8, <1>9 DEF GInv, CountInv
<1>11. StageInv'
  <2>1. \A x \in Green : /\ life'[x] # "orphan"
                         /\ life[x] \in {"new", "allocated"} => life'[x] \in {"new", "allocated"}
    BY <1>6 DEF GInv, StageInv
  <2>2. QED BY <1>2, <1>3, <1>4, <1>8, <2>1, GotoSame
<1>12. CallInv'
  <2>1. ASSUME NEW x \in Actor
        PROVE  /\ pc'[x] \in Spawning => target'[x] \in Green /\ life'[target'[x]] = "allocated"
               /\ pc'[x] \in {"all_done", "join", "end"} => x \in Main
               /\ pc'[x] = "await" => target'[x] \in Green
               /\ x \in Green /\ pc'[x] # "idle" => life'[x] = "running"
    <3>1. /\ pc[x] \in Spawning => target[x] \in Green /\ life'[target[x]] = "allocated"
          /\ pc[x] \in {"all_done", "join", "end"} => x \in Main
          /\ pc[x] = "await" => target[x] \in Green
          /\ x \in Green /\ pc[x] # "idle" => life'[x] = "running"
          /\ x \in Green /\ life[x] = "running" => life'[x] = "running"
      BY <1>6 DEF GInv, CallInv
    <3>2. CASE x = a
      BY <1>2, <1>3, <1>5, <3>1, <3>2 DEF Spawning, Idle
    <3>3. CASE x # a
      BY <1>5, <3>1, <3>3
    <3>4. QED BY <3>2, <3>3
  <2>2. ASSUME NEW x \in Actor, NEW y \in Actor,
               pc'[x] \in Spawning, pc'[y] \in Spawning, target'[x] = target'[y]
        PROVE  x = y
    <3>1. x # a /\ y # a
      BY <1>5, <2>2 DEF Spawning
    <3>2. QED BY <1>5, <2>2, <3>1 DEF GInv, CallInv
  <2>3. QED BY <2>1, <2>2 DEF CallInv
<1>13. QED BY <1>1, <1>7, <1>10, <1>11, <1>12 DEF GInv

\* The three steps of a shutdown.
LEMMA ShutdownInv ==
  ASSUME OneProgram, GInv, NEW a \in Actor,
         lcn_green_shutdown(a) \/ ShutdownStops(a) \/ ShutdownDestroys(a)
  PROVE  GInv'
<1>1. Types'
  BY CallTypes, ProceedTypes DEF Calls, Proceeds
<1>2. a \in Main /\ pc[a] \in {"idle", "all_done", "join"} /\ initialized
  BY DEF lcn_green_shutdown, ShutdownStops, ShutdownDestroys, Idle, GInv, CallInv, StageInv
<1>3. PICK label \in {"all_done", "join", "end"} :
        /\ pc' = [pc EXCEPT ![a] = label]
        /\ label = "all_done" => lcn_green_shutdown(a)
        /\ label = "join" => ShutdownStops(a)
        /\ label = "end" => ShutdownDestroys(a)
  BY DEF lcn_green_shutdown, ShutdownStops, ShutdownDestroys, OneProgram
<1>4. /\ target' = target
      /\ \A x \in Actor : pc'[x] = IF x = a THEN label ELSE pc[x]
      /\ \A m \in Main : m = a
  BY <1>2, <1>3 DEF lcn_green_shutdown, ShutdownStops, ShutdownDestroys, GInv, Types, OneProgram
<1>5. label # "all_done" => Alive = {}
  <2>1. CASE label = "join"
    <3>1. Cardinality(Alive) = 0
      BY <1>3, <2>1 DEF ShutdownStops, GInv, CountInv
    <3>2. IsFiniteSet(Alive)
      BY SubsetsFinite DEF Alive
    <3>3. QED BY <3>1, <3>2, FS_EmptySet
  <2>2. CASE label = "end"
    BY <1>2, <1>3, <2>2 DEF ShutdownDestroys, GInv, StageInv
  <2>3. QED BY <2>1, <2>2
<1>6. /\ life' = life /\ queue' = queue /\ launching' = launching
      /\ alive_count' = alive_count /\ active' = active
      /\ dispatcher' = dispatcher \/ (dispatcher' = "none" /\ label = "end")
  <2>1. CASE label \in {"all_done", "join"}
    BY <1>3, <2>1 DEF lcn_green_shutdown, ShutdownStops, loop
  <2>2. CASE label = "end"
    <3>1. queue = << >>
      BY <1>5, <2>2, Quiet
    <3>2. life \in [Green -> Life] /\ life' \in [Green -> Life]
      BY <1>1 DEF GInv, Types
    <3>3. \A x \in Green : life'[x] = life[x]
      BY <1>3, <2>2, <3>1 DEF ShutdownDestroys
    <3>4. life' = life
      BY <3>2, <3>3
    <3>5. QED BY <1>3, <2>2, <3>1, <3>4 DEF ShutdownDestroys
  <2>3. QED BY <2>1, <2>2
<1>7. QueueInv'
  BY <1>6 DEF GInv, QueueInv
<1>8. LaunchInv'
  <2>1. CASE dispatcher' = dispatcher
    BY <1>6, <2>1 DEF GInv, LaunchInv
  <2>2. CASE dispatcher' = "none" /\ label = "end"
    <3>1. launching = Nobody /\ \A x \in Green : life[x] # "launching"
      BY <1>5, <2>2, Quiet DEF Counted
    <3>2. QED BY <1>6, <2>2, <3>1 DEF LaunchInv
  <2>3. QED BY <1>6, <2>1, <2>2
<1>9. Alive' = Alive
  <2>1. \A x \in Green : (\E y \in Actor : pc'[y] = "push" /\ target'[y] = x)
                           <=> (\E y \in Actor : pc[y] = "push" /\ target[y] = x)
    BY <1>2, <1>4
  <2>2. (dispatcher' = "account") <=> (dispatcher = "account")
    <3>1. CASE dispatcher' = "none" /\ label = "end"
      <4>1. dispatcher # "account"
        BY <1>3, <3>1 DEF ShutdownDestroys
      <4>2. QED BY <3>1, <4>1
    <3>2. QED BY <1>6, <3>1
  <2>3. QED BY <1>6, <2>1, <2>2, Zenon DEF Alive
<1>10. CountInv'
  <2>1. Holders' = Holders
    BY <1>6 DEF Holders
  <2>2. QED BY <1>6, <1>9, <2>1 DEF GInv, CountInv
<1>11. CallInv'
  <2>1. /\ \A x \in Actor : pc'[x] \in Spawning => pc[x] \in Spawning
        /\ \A x \in Actor : pc'[x] \in {"all_done", "join", "end"} => x \in Main
        /\ \A x \in Actor : pc'[x] = "await" => pc[x] = "await"
        /\ \A x \in Actor : x \in Green /\ pc'[x] # "idle" => pc[x] # "idle"
    BY <1>2, <1>4, GreenAssumption DEF GInv, CallInv, Spawning
  <2>2. QED BY <1>4, <1>6, <2>1 DEF GInv, CallInv
<1>12. StageInv'
  <2>1. \A x \in Actor : pc'[x] \in {"count", "push", "all_done", "join"} => initialized'
    <3>1. CASE label = "end"
      <4>1. \A x \in Actor : x # a => x \in Green
        BY <1>4 DEF Actor
      <4>2. \A x \in Actor : x # a => pc[x] = "idle"
        BY <1>5, <3>1, <4>1, Quiet
      <4>3. QED BY <1>4, <3>1, <4>2
    <3>2. CASE label # "end"
      BY <1>2, <1>3, <3>2 DEF lcn_green_shutdown, ShutdownStops
    <3>3. QED BY <3>1, <3>2
  <2>2. a \in Actor /\ pc'[a] = label /\ a # Nobody
    BY <1>4, GreenAssumption
  <2>3. init_mutex' = a <=> label \in {"all_done", "join"}
    <3>1. CASE label = "all_done"
      BY <1>3, <3>1 DEF lcn_green_shutdown
    <3>2. CASE label = "join"
      BY <1>2, <1>3, <3>2 DEF ShutdownStops, GInv, StageInv
    <3>3. CASE label = "end"
      BY <1>3, <2>2, <3>3 DEF ShutdownDestroys
    <3>4. QED BY <3>1, <3>2, <3>3
  <2>4. label = "end" <=> ~initialized'
    BY <1>2, <1>3 DEF lcn_green_shutdown, ShutdownStops, ShutdownDestroys
  <2>5. \A x \in Green : life'[x] # "orphan"
    BY <1>6 DEF GInv, StageInv
  <2>6. label = "end" => dispatcher' = "none"
    BY <1>3 DEF ShutdownDestroys
  <2>7. QED BY <1>2, <1>4, <1>5, <1>9, <2>1, <2>2, <2>3, <2>4, <2>5, <2>6 DEF StageInv
<1>13. QED BY <1>1, <1>7, <1>8, <1>10, <1>11, <1>12 DEF GInv

\* What a spawn has counted or will count is no other's.
LEMMA SpawnCountsInv ==
  ASSUME OneProgram, GInv, NEW a \in Actor, SpawnCounts(a)
  PROVE  GInv'
<1> DEFINE g == target[a]
<1>1. Types'
  BY ProceedTypes DEF Proceeds
<1>2. /\ pc[a] = "count" /\ g \in Green /\ life[g] = "allocated" /\ initialized
      /\ UNCHANGED <<initialized, queue, init_mutex, active, dispatcher, launching, life, target>>
      /\ alive_count' = alive_count + 1
  BY DEF SpawnCounts, GInv, CallInv, StageInv, Spawning, loop
<1>3. \A x \in Actor : pc'[x] = IF x = a THEN "push" ELSE pc[x]
  BY DEF SpawnCounts, GInv, Types
<1>4. QueueInv' /\ LaunchInv'
  BY <1>2, PlacesSame
<1>5. Holders' = Holders
  BY <1>2 DEF Holders
<1>6. g \notin Alive
  <2>1. \A x \in Actor : pc[x] = "push" => target[x] # g
    BY <1>2 DEF GInv, CallInv, Spawning
  <2>2. ~(dispatcher = "account" /\ launching = g)
    BY <1>2 DEF GInv, LaunchInv
  <2>3. QED BY <1>2, <2>1, <2>2 DEF Alive, Counted
<1>7. \A x \in Green : x \in Alive' <=> x \in Alive \/ x = g
  <2>1. \A x \in Green : (\E y \in Actor : pc'[y] = "push" /\ target'[y] = x)
                           <=> (x = g \/ \E y \in Actor : pc[y] = "push" /\ target[y] = x)
    BY <1>2, <1>3
  <2>2. life' = life /\ dispatcher' = dispatcher /\ launching' = launching
    BY <1>2
  <2>3. QED BY <2>1, <2>2, Zenon DEF Alive
<1>8. CountInv'
  <2>1. Alive \in SUBSET Green /\ Alive' \in SUBSET Green
    BY DEF Alive
  <2>2. Cardinality(Alive') = Cardinality(Alive) + 1
    BY <1>2, <1>6, <1>7, <2>1, OneMore
  <2>3. QED BY <1>2, <1>5, <2>2 DEF GInv, CountInv
<1>9. CallInv'
  <2>1. /\ \A x \in Actor : pc'[x] \in Spawning => pc[x] \in Spawning
        /\ \A x \in Actor : pc'[x] \in {"all_done", "join", "end", "await"} => pc'[x] = pc[x]
        /\ \A x \in Actor : pc'[x] # "idle" => pc[x] # "idle"
    BY <1>2, <1>3 DEF Spawning
  <2>2. QED BY <1>2, <2>1 DEF GInv, CallInv
<1>10. StageInv'
  <2>1. \A m \in Main : pc[m] \notin {"join", "end"}
    BY <1>2, OnlyMain
  <2>2. Main \subseteq Actor
    BY DEF Actor
  <2>3. \A m \in Main : pc'[m] \notin {"join", "end"}
    BY <1>3, <2>1, <2>2
  <2>4. \A m \in Main : pc'[m] \in {"all_done", "join"} <=> pc[m] \in {"all_done", "join"}
    BY <1>2, <1>3, <2>2
  <2>5. QED BY <1>2, <2>3, <2>4 DEF GInv, StageInv
<1>11. QED BY <1>1, <1>4, <1>8, <1>9, <1>10 DEF GInv

LEMMA SpawnPushesInv ==
  ASSUME GInv, NEW a \in Actor, SpawnPushes(a)
  PROVE  GInv'
<1> DEFINE g == target[a]
<1>1. Types'
  BY ProceedTypes DEF Proceeds
<1>2. /\ pc[a] = "push" /\ g \in Green /\ life[g] = "allocated" /\ initialized
      /\ UNCHANGED <<initialized, alive_count, init_mutex, active, dispatcher, launching>>
      /\ queue' = Append(queue, g)
  BY DEF SpawnPushes, GInv, CallInv, StageInv, Spawning, loop
<1>3. /\ \A x \in Actor : pc'[x] = IF x = a THEN "idle" ELSE pc[x]
      /\ \A x \in Actor : target'[x] = IF x = a THEN Nobody ELSE target[x]
      /\ \A x \in Green : life'[x] = IF x = g THEN "queued" ELSE life[x]
      /\ pc' = [pc EXCEPT ![a] = "idle"]
  BY <1>2 DEF SpawnPushes, Goto, Becomes, GInv, Types
<1>4. \A x \in Actor : x # a /\ pc[x] \in Spawning => target[x] # g
  BY <1>2 DEF GInv, CallInv, Spawning
<1>5. QueueInv'
  <2>1. /\ Len(queue) \in Nat /\ Len(queue') = Len(queue) + 1
        /\ \A k \in 1 .. Len(queue) : queue'[k] = queue[k] /\ queue[k] \in Green
        /\ queue'[Len(queue) + 1] = g
    BY <1>2 DEF GInv, Types
  <2>2. \A k \in 1 .. Len(queue) : life[queue[k]] = "queued" /\ queue[k] # g
    BY <1>2 DEF GInv, QueueInv
  <2>3. \A k \in 1 .. Len(queue') : life'[queue'[k]] = "queued"
    BY <1>2, <1>3, <2>1, <2>2
  <2>4. \A j, k \in 1 .. Len(queue') : queue'[j] = queue'[k] => j = k
    BY <2>1, <2>2 DEF GInv, QueueInv
  <2>5. ASSUME NEW x \in Green, life'[x] = "queued"
        PROVE  \E k \in 1 .. Len(queue') : queue'[k] = x
    <3>1. CASE x = g
      <4>1. Len(queue) + 1 \in 1 .. Len(queue')
        BY <2>1
      <4>2. QED BY <2>1, <3>1, <4>1
    <3>2. CASE x # g
      <4>1. PICK k \in 1 .. Len(queue) : queue[k] = x
        BY <1>3, <2>5, <3>2 DEF GInv, QueueInv
      <4>2. k \in 1 .. Len(queue') /\ queue'[k] = x
        BY <2>1, <4>1
      <4>3. QED BY <4>2
    <3>3. QED BY <3>1, <3>2
  <2>6. QED BY <2>3, <2>4, <2>5 DEF QueueInv
<1>6. LaunchInv'
  <2>1. dispatcher \in {"launch", "account"} => launching \in Green /\ launching # g
    BY <1>2 DEF GInv, LaunchInv, Types
  <2>2. QED BY <1>2, <1>3, <2>1 DEF GInv, LaunchInv
<1>7. Alive' = Alive
  <2>1. \A x \in Green : (x = g \/ \E y \in Actor : pc'[y] = "push" /\ target'[y] = x)
                           <=> (\E y \in Actor : pc[y] = "push" /\ target[y] = x)
    BY <1>2, <1>3
  <2>2. \A x \in Green : x # g => (life'[x] \in Counted <=> life[x] \in Counted)
    BY <1>3
  <2>3. life'[g] \in Counted
    BY <1>2, <1>3 DEF Counted
  <2>4. dispatcher' = dispatcher /\ launching' = launching
    BY <1>2
  <2>5. \A x \in Green : x \in Alive' <=> x \in Alive
    <3>1. ASSUME NEW x \in Green, x # g PROVE x \in Alive' <=> x \in Alive
      BY <2>1, <2>2, <2>4, <3>1, Zenon DEF Alive
    <3>2. g \in Alive' /\ g \in Alive
      BY <1>2, <2>1, <2>3, <2>4 DEF Alive
    <3>3. QED BY <3>1, <3>2
  <2>6. QED BY <2>5 DEF Alive
<1>8. CountInv'
  <2>1. Holders' = Holders
    BY <1>2, <1>3, HoldersSame DEF Holding
  <2>2. QED BY <1>2, <1>7, <2>1 DEF GInv, CountInv
<1>9. CallInv'
  <2>1. \A x \in Actor : x \in Green /\ pc[x] # "idle" => x # g
    BY <1>2 DEF GInv, CallInv
  <2>2. ASSUME NEW x \in Actor
        PROVE  /\ pc'[x] \in Spawning => target'[x] \in Green /\ life'[target'[x]] = "allocated"
               /\ pc'[x] \in {"all_done", "join", "end"} => x \in Main
               /\ pc'[x] = "await" => target'[x] \in Green
               /\ x \in Green /\ pc'[x] # "idle" => life'[x] = "running"
    <3>1. CASE x = a
      BY <1>3, <3>1 DEF Spawning
    <3>2. CASE x # a
      BY <1>3, <1>4, <2>1, <3>2 DEF GInv, CallInv
    <3>3. QED BY <3>1, <3>2
  <2>3. \A x, y \in Actor :
          pc'[x] \in Spawning /\ pc'[y] \in Spawning /\ target'[x] = target'[y] => x = y
    BY <1>3 DEF GInv, CallInv, Spawning
  <2>4. QED BY <2>2, <2>3 DEF CallInv
<1>10. StageInv'
  <2>1. \A x \in Green : life'[x] # "orphan"
    BY <1>3 DEF GInv, StageInv
  <2>2. QED BY <1>2, <1>3, <1>7, <2>1, GotoSame
<1>11. QED BY <1>1, <1>5, <1>6, <1>8, <1>9, <1>10 DEF GInv

-----------------------------------------------------------------------------
LEMMA GInit ==
  ASSUME Init
  PROVE  GInv
<1>1. /\ initialized = FALSE /\ shutdown = FALSE /\ alive_count = 0 /\ queue = << >>
      /\ init_mutex = Nobody /\ active = 0 /\ dispatcher = "none" /\ launching = Nobody
      /\ life = [g \in Green |-> "new"] /\ owner = [g \in Green |-> Nobody]
      /\ pc = [a \in Actor |-> "idle"] /\ target = [a \in Actor |-> Nobody]
  BY DEF Init
<1>2. Types
  <2>1. << >> \in Seq(Green)
    OBVIOUS
  <2>2. queue \in Seq(Green)
    BY <1>1, <2>1
  <2>3. QED BY <1>1, <2>2 DEF Types, Life
<1>3. QueueInv /\ LaunchInv
  BY <1>1 DEF QueueInv, LaunchInv
<1>4. CallInv
  BY <1>1 DEF CallInv, Spawning
<1>5. Alive = {} /\ Holders = {}
  BY <1>1 DEF Alive, Holders, Counted, Holding
<1>6. CountInv
  BY <1>1, <1>5, FS_EmptySet, GreenAssumption DEF CountInv
<1>7. StageInv
  <2>1. Main \subseteq Actor /\ Nobody \notin Main
    BY GreenAssumption DEF Actor
  <2>2. QED BY <1>1, <1>5, <2>1 DEF StageInv
<1>8. QED BY <1>2, <1>3, <1>4, <1>6, <1>7 DEF GInv

LEMMA GStep ==
  ASSUME OneProgram, GInv, [Next]_vars
  PROVE  GInv'
<1>1. CASE DispatcherStep
  BY <1>1, DispatcherInv
<1>2. CASE \E g \in Green : GreenStep(g)
  BY <1>2, GreenInv
<1>3. ASSUME NEW a \in Actor, Proceeds(a) PROVE GInv'
  <2>1. CASE SpawnInit(a)
    BY <2>1, InitInv DEF SpawnInit
  <2>2. CASE SpawnCounts(a)
    BY <2>2, SpawnCountsInv
  <2>3. CASE SpawnPushes(a)
    BY <2>3, SpawnPushesInv
  <2>4. CASE AwaitJoins(a) \/ AwaitJoinsNothing(a)
    BY <2>4, AwaitInv
  <2>5. CASE ShutdownStops(a) \/ ShutdownDestroys(a)
    BY <2>5, ShutdownInv
  <2>6. QED BY <1>3, <2>1, <2>2, <2>3, <2>4, <2>5 DEF Proceeds
<1>4. ASSUME NEW a \in Actor, Calls(a) PROVE GInv'
  <2>1. CASE lcn_green_init(a)
    BY <2>1, InitInv DEF lcn_green_init
  <2>2. CASE lcn_green_shutdown(a)
    BY <2>2, ShutdownInv
  <2>3. CASE \E g \in Green : lcn_green_spawn(a, g)
    BY <2>3, SpawnInv
  <2>4. CASE \E g \in Green : lcn_green_await(a, g)
    BY <2>4, AwaitInv
  <2>5. QED BY <1>4, <2>1, <2>2, <2>3, <2>4 DEF Calls
<1>5. CASE UNCHANGED vars
  <2>1. /\ UNCHANGED <<initialized, shutdown, alive_count, queue, init_mutex, active>>
        /\ UNCHANGED <<dispatcher, launching, life, owner, pc, target>>
    BY <1>5 DEF vars, sched, loop, calls
  <2>2. Alive' = Alive /\ Holders' = Holders
    BY <2>1 DEF Alive, Holders
  <2>3. Types' /\ QueueInv' /\ LaunchInv' /\ CallInv'
    BY <2>1 DEF GInv, Types, QueueInv, LaunchInv, CallInv
  <2>4. CountInv' /\ StageInv'
    BY <2>1, <2>2 DEF GInv, CountInv, StageInv
  <2>5. QED BY <2>3, <2>4 DEF GInv
<1>6. QED BY <1>1, <1>2, <1>3, <1>4, <1>5 DEF Next

\* The invariant the theorems below rest on.
THEOREM Counts == OneProgram => (Spec => []GInv)
<1> SUFFICES ASSUME OneProgram PROVE Spec => []GInv
  OBVIOUS
<1> DEFINE Inv == GInv
<1>1. Init => Inv
  BY GInit
<1>2. Inv /\ [Next]_vars => Inv'
  BY GStep
<1> HIDE DEF Inv
<1>3. Spec => []Inv
  BY <1>1, <1>2, PTL DEF Spec
<1>4. QED BY <1>3 DEF Inv

\* Every value of the state is one the code can hold: the counters stay within
\* the slots and the green threads there are, and the calls at their places.
THEOREM TypeCorrect == OneProgram => (Spec => []TypeOK)
<1> SUFFICES ASSUME OneProgram PROVE Spec => []TypeOK
  OBVIOUS
<1>1. GInv => TypeOK
  BY CountType DEF GInv, Types, TypeOK, Life
<1>2. Spec => []GInv
  BY Counts
<1>3. QED BY <1>1, <1>2, PTL

\* green_threads.c:240, "at most N green threads execute concurrently": the
\* throttle admits N and its count is that of the threads that hold a slot.
THEOREM SlotsHeld == OneProgram => (Spec => []AtMostNRun)
<1> SUFFICES ASSUME OneProgram PROVE Spec => []AtMostNRun
  OBVIOUS
<1>1. GInv => AtMostNRun
  <2> SUFFICES ASSUME GInv PROVE AtMostNRun
    OBVIOUS
  <2> DEFINE Run == {g \in Green : life[g] = "running"}
  <2>1. Run \subseteq Holders /\ IsFiniteSet(Holders)
    BY SubsetsFinite DEF Holders, Holding
  <2>2. Cardinality(Run) <= Cardinality(Holders)
    BY <2>1, FS_Subset
  <2>3. active = Cardinality(Holders) /\ active <= N /\ active \in Nat /\ N \in Nat
    BY CountType, GreenAssumption DEF GInv, CountInv
  <2>4. Cardinality(Run) \in Nat
    BY <2>1, FS_Subset, FS_CardinalityType
  <2> HIDE DEF Run
  <2>5. Cardinality(Run) <= N
    BY <2>2, <2>3, <2>4
  <2>6. QED BY <2>3, <2>5 DEF AtMostNRun, Run, Holders
<1>2. Spec => []GInv
  BY Counts
<1>3. QED BY <1>1, <1>2, PTL

\* green_threads.c:534: past its wait a shutdown finds nothing queued, launched,
\* admitted or running, and the drain of the queue orphans no handle.
THEOREM NothingPending == OneProgram => (Spec => []NothingPendingAfterWait)
<1> SUFFICES ASSUME OneProgram PROVE Spec => []NothingPendingAfterWait
  OBVIOUS
<1>1. GInv => NothingPendingAfterWait
  <2> SUFFICES ASSUME GInv, NEW a \in Main, pc[a] \in {"join", "end"}
               PROVE  /\ queue = << >> /\ launching = Nobody
                      /\ \A g \in Green : life[g] \notin {"queued", "launching", "admission",
                                                          "running", "orphan"}
    BY DEF NothingPendingAfterWait
  <2>1. Alive = {}
    BY DEF GInv, StageInv
  <2>2. QED BY <2>1, Quiet DEF Counted, GInv, StageInv
<1>2. Spec => []GInv
  BY Counts
<1>3. QED BY <1>1, <1>2, PTL

-----------------------------------------------------------------------------
(***************************************************************************)
(* A green thread keeps its slot while it awaits another, which may itself *)
(* be waiting for a slot.  As long as fewer green threads than slots ever  *)
(* await, one slot is always held by a thread that is not blocked.         *)
(***************************************************************************)
FewAwaiters == Cardinality(Awaiter \cap Green) < N

\* Where a green thread can be blocked, or past an undefined join.
Blocked == {"await", "undefined"}

WaitInv ==
  /\ \A a \in Actor : pc[a] \in Blocked => a \in Awaiter
  /\ \A g \in Green : pc[g] # "auto_init"

\* While every slot is held, a thread that holds one is not inside a wait: it
\* computes, or is in a spawn, which blocks on nobody.
OneHolderMoves ==
  active = N => \E g \in Holders : pc[g] \in {"idle", "count", "push"}

\* A spawn from a green thread finds the scheduler started.
LEMMA GreenSpawnsCount ==
  ASSUME GInv, NEW g \in Green, Idle(g)
  PROVE  initialized
<1>1. life[g] = "running"
  BY DEF Idle
<1>2. g \in Alive
  BY <1>1 DEF Alive, Counted
<1>3. QED BY <1>2 DEF GInv, StageInv

LEMMA WaitStep ==
  ASSUME GInv, WaitInv, [Next]_vars
  PROVE  WaitInv'
<1>1. /\ pc = [a \in Actor |-> pc[a]] /\ Green \subseteq Actor
      /\ Main \cap Green = {}
  BY GreenAssumption DEF GInv, Types, Actor
<1>2. CASE UNCHANGED pc
  BY <1>2 DEF WaitInv
<1>3. ASSUME NEW a \in Actor, NEW label, pc' = [pc EXCEPT ![a] = label],
             label \in Blocked => a \in Awaiter,
             a \in Green => label # "auto_init"
      PROVE  WaitInv'
  BY <1>1, <1>3 DEF WaitInv
<1>4. CASE DispatcherStep
  BY <1>2, <1>4 DEF DispatcherStep, DispatcherStarts, DispatcherPops, DispatcherRechecks,
                    DispatcherLaunches, DispatcherAccounts, calls
<1>5. CASE \E g \in Green : GreenStep(g)
  BY <1>2, <1>5 DEF GreenStep, throttle_acquire, GreenCompletes, GreenLeaves,
                    throttle_release, calls
<1>6. ASSUME NEW a \in Actor, Proceeds(a) PROVE WaitInv'
  <2>1. CASE SpawnInit(a) \/ SpawnCounts(a) \/ SpawnPushes(a) \/ AwaitJoins(a)
    BY <1>3, <2>1 DEF SpawnInit, InitScheduler, SpawnCounts, SpawnPushes, AwaitJoins, Goto,
                      Blocked
  <2>2. CASE AwaitJoinsNothing(a)
    <3>1. a \in Awaiter
      BY <2>2 DEF AwaitJoinsNothing, WaitInv, Blocked
    <3>2. QED BY <1>3, <2>2, <3>1 DEF AwaitJoinsNothing, Goto
  <2>3. CASE ShutdownStops(a) \/ ShutdownDestroys(a)
    BY <1>3, <2>3 DEF ShutdownStops, ShutdownDestroys, Blocked
  <2>4. QED BY <1>6, <2>1, <2>2, <2>3 DEF Proceeds
<1>7. ASSUME NEW a \in Actor, Calls(a) PROVE WaitInv'
  <2>1. CASE lcn_green_init(a) \/ lcn_green_shutdown(a)
    BY <1>3, <2>1 DEF lcn_green_init, InitScheduler, lcn_green_shutdown, Blocked
  <2>2. ASSUME NEW g \in Green, lcn_green_spawn(a, g) PROVE WaitInv'
    <3>1. a \in Green => initialized
      BY <2>2, GreenSpawnsCount DEF lcn_green_spawn
    <3>2. QED BY <1>3, <2>2, <3>1 DEF lcn_green_spawn, Goto, Blocked
  <2>3. ASSUME NEW g \in Green, lcn_green_await(a, g) PROVE WaitInv'
    BY <1>3, <2>3 DEF lcn_green_await, Goto
  <2>4. QED BY <1>7, <2>1, <2>2, <2>3 DEF Calls
<1>8. CASE UNCHANGED vars
  BY <1>2, <1>8 DEF vars, calls
<1>9. QED BY <1>4, <1>5, <1>6, <1>7, <1>8 DEF Next

\* green_threads.c:240, the throttle: when fewer green threads than slots ever
\* await, the slots are never all held by threads that wait for another one,
\* so the threads in throttle_acquire are not stuck behind those they would free.
THEOREM SlotsNeverStuck ==
  OneProgram /\ FewAwaiters => (Spec => []OneHolderMoves)
<1> DEFINE Inv == OneProgram /\ FewAwaiters /\ GInv /\ WaitInv
<1>1. OneProgram /\ FewAwaiters /\ Init => Inv
  BY GInit DEF Init, WaitInv, Blocked, Actor
<1>2. Inv /\ [Next]_vars => Inv'
  BY GStep, WaitStep DEF OneProgram, FewAwaiters
<1>3. Inv => OneHolderMoves
  <2> SUFFICES ASSUME Inv, active = N,
                      \A g \in Holders : pc[g] \notin {"idle", "count", "push"}
               PROVE  FALSE
    BY DEF OneHolderMoves
  <2>1. ASSUME NEW g \in Holders PROVE g \in Awaiter \cap Green
    <3>1. g \in Green /\ g \in Actor /\ g \notin Main
      BY GreenAssumption DEF Holders, Actor
    <3>2. pc[g] \notin {"all_done", "join", "end"}
      BY <3>1 DEF GInv, CallInv
    <3>3. pc[g] \in Blocked
      BY <3>1, <3>2 DEF GInv, Types, WaitInv, Blocked
    <3>4. QED BY <3>1, <3>3 DEF WaitInv
  <2>2. Awaiter \cap Green \in SUBSET Green /\ Holders \subseteq Awaiter \cap Green
    BY <2>1
  <2>3. /\ Cardinality(Holders) <= Cardinality(Awaiter \cap Green)
        /\ Cardinality(Holders) \in Nat /\ Cardinality(Awaiter \cap Green) \in Nat
    BY <2>2, SubsetsFinite, FS_Subset, FS_CardinalityType
  <2>4. Cardinality(Holders) = N /\ N \in Nat
    BY GreenAssumption DEF GInv, CountInv
  <2>5. QED BY <2>3, <2>4 DEF FewAwaiters
<1> HIDE DEF Inv
<1>4. OneProgram /\ FewAwaiters /\ Init /\ [][Next]_vars => []OneHolderMoves
  BY <1>1, <1>2, <1>3, PTL
<1>5. QED BY <1>4 DEF Spec
=============================================================================
