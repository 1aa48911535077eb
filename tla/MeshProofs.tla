------------------------------ MODULE MeshProofs ------------------------------
(***************************************************************************)
(* Theorems about Mesh: its steps are steps of the thread pool, whose      *)
(* theorems it inherits, the arguments of a fan-out outlive its tasks, and *)
(* a mesh implements Pipeline; for every mesh, number of workers and       *)
(* runners.                                                                *)
(***************************************************************************)
EXTENDS Mesh, ThreadPoolProofs

-----------------------------------------------------------------------------
\* The inductive invariant.  First, the variables of the mesh have their types.
MeshTypes ==
  /\ mesh \in [Runner -> {Built(d) : d \in UNION Range(Declared)}]
  /\ step \in [Runner -> {"idle", "source", "fan_out", "target", "ok", "error"}]
  /\ route \in [Runner -> Nat]
  /\ current_input = [r \in Runner |-> current_input[r]] /\ DOMAIN fan_input = Runner
  /\ DOMAIN args = Runner /\ \A r \in Runner : IsList(args[r])
  /\ handles \in [Runner -> Seq(Invocation)]
  /\ DOMAIN results = Runner /\ \A r \in Runner : IsList(results[r])
  /\ DOMAIN arg = Task /\ DOMAIN output = Task

\* Who is in which call of the pool: a runner in a fan-out spawns invocations and
\* awaits them, every other actor spawns runners.
FansOut(a) == a \in Runner /\ step[a] = "fan_out"

ActorInv(a) ==
  /\ pc[a] \in Spawning \cup {"idle", "await"}
  /\ pc[a] = "await" => FansOut(a)
  /\ pc[a] \in Spawning /\ ~FansOut(a) => target[a] \in Runner
  /\ a \in Runner /\ step[a] \in {"source", "target"} => pc[a] = "idle"

\* A fan-out: the arguments are those of its agents, in their order, the k-th
\* handle is the task of the k-th, and what has been awaited is freed.
Calling(r) == IF pc[r] \in Spawning THEN 1 ELSE 0

FanInv(r) ==
  /\ Len(results[r]) <= Len(handles[r])
  /\ Len(args[r]) = Len(handles[r]) + Calling(r) /\ Len(args[r]) <= Len(Parallel(r))
  /\ pc[r] \in Spawning =>
       /\ target[r] \in Invocation
       /\ arg[target[r]] = [runner |-> r, index |-> Len(args[r])]
  /\ pc[r] = "await" => /\ Len(results[r]) < Len(handles[r])
                        /\ target[r] = handles[r][Len(results[r]) + 1]
  /\ \A k \in 1 .. Len(handles[r]) :
       /\ arg[handles[r][k]] = [runner |-> r, index |-> k]
       /\ task[handles[r][k]] \notin {"new", "allocated"}
       /\ task[handles[r][k]] = "freed" <=> k <= Len(results[r])
  /\ \A k \in 1 .. Len(args[r]) :
       args[r][k] = [agent |-> Parallel(r)[k], input |-> fan_input[r]]
  /\ \A k \in 1 .. Len(results[r]) :
       results[r][k] \in P!Answers(Parallel(r)[k], fan_input[r])

NoFan(r) == args[r] = << >> /\ handles[r] = << >> /\ results[r] = << >>

\* An invocation that is not yet awaited belongs to a fan-out under way, which
\* has its argument and holds its handle, or is about to.
Pending(t) == task[t] \in {"allocated", "queued", "running", "completed"}

Belongs(t, r, k) ==
  /\ r \in Runner /\ step[r] = "fan_out" /\ k \in 1 .. Len(args[r])
  /\ \/ k <= Len(handles[r]) /\ handles[r][k] = t
     \/ k = Len(args[r]) /\ pc[r] \in Spawning /\ target[r] = t

InvocationInv(t) ==
  /\ arg[t] = NoArg <=> task[t] = "new"
  /\ Pending(t) => Belongs(t, arg[t].runner, arg[t].index)
  /\ task[t] \in {"new", "allocated", "queued"} => output[t] = NotYet
  /\ task[t] = "completed" => output[t] # NotYet
  /\ Pending(t) /\ output[t] # NotYet =>
       output[t] \in P!Answers(Parallel(arg[t].runner)[arg[t].index],
                               fan_input[arg[t].runner])

\* What the text that a runner carries through a route is.
Entered(r) == route[r] \in 1 .. Len(mesh[r].routes)

SourceAnswered(r) ==
  /\ fan_input[r] \in P!Answers(Current(r).from[1], current_input[r])
  /\ fan_input[r] # P!Failed

StageInv(r) ==
  /\ step[r] = "idle" => route[r] = 1
  /\ step[r] = "ok" => route[r] = Len(mesh[r].routes) + 1
  /\ step[r] \in {"source", "fan_out", "target", "error"} => Entered(r)
  /\ step[r] = "source" => Current(r).kind \in {"single", "fan_out"}
  /\ step[r] = "fan_out" =>
       \/ Current(r).kind = "fan_in" /\ fan_input[r] = current_input[r]
       \/ Current(r).kind = "fan_out" /\ SourceAnswered(r)
  /\ step[r] = "target" =>
       \/ Current(r).kind = "single" /\ SourceAnswered(r)
       \/ /\ Current(r).kind = "fan_in"
          /\ fan_input[r] \in P!Collections(Current(r).from, current_input[r])

Fans == \A r \in Runner : IF step[r] = "fan_out" THEN FanInv(r) ELSE NoFan(r)

MeshInv ==
  /\ MeshTypes
  /\ \A a \in Actor : ActorInv(a)
  /\ Fans
  /\ \A t \in Invocation : InvocationInv(t)
  /\ \A r \in Runner : StageInv(r)

-----------------------------------------------------------------------------
\* Lists, that is sequences of whatever their elements are.

LEMMA EmptyList == IsList(<< >>)
<1>1. << >> \in Seq(Range(<< >>))
  OBVIOUS
<1> QED
  BY <1>1 DEF IsList

LEMMA ListLen ==
  ASSUME NEW s, IsList(s)
  PROVE  Len(s) \in Nat /\ DOMAIN s = 1 .. Len(s)
BY DEF IsList

LEMMA ListAppend ==
  ASSUME NEW s, IsList(s), NEW e
  PROVE  /\ IsList(Append(s, e))
         /\ Len(Append(s, e)) = Len(s) + 1
         /\ \A k \in 1 .. Len(s) : Append(s, e)[k] = s[k]
         /\ Append(s, e)[Len(s) + 1] = e
<1> DEFINE S == Range(s) \cup {e}
           u == Append(s, e)
<1>1. s \in Seq(S)
  <2>1. s \in Seq(Range(s)) /\ Range(s) \subseteq S
    BY DEF IsList
  <2> QED
    BY <2>1
<1>2. /\ u \in Seq(S) /\ Len(u) = Len(s) + 1 /\ Len(s) \in Nat
      /\ \A k \in 1 .. Len(s) : u[k] = s[k]
      /\ u[Len(s) + 1] = e
  BY <1>1
<1>3. u \in Seq(Range(u))
  BY <1>2 DEF Range
<1> QED
  BY <1>2, <1>3 DEF IsList

\* A function on 1 .. n is a list.
LEMMA ListOfFunction ==
  ASSUME NEW n \in Nat, NEW f, DOMAIN f = 1 .. n, f = [i \in 1 .. n |-> f[i]]
  PROVE  IsList(f) /\ Len(f) = n
<1>1. f \in [1 .. n -> Range(f)]
  BY DEF Range
<1>2. f \in Seq(Range(f))
  BY <1>1
<1> QED
  BY <1>2 DEF IsList

\* Each rank up to their number is that of one of a finite set of indices.
UpTo(S, k) == {j \in S : j <= k}

LEMMA RankGrows ==
  ASSUME NEW S \in SUBSET Nat, NEW k \in Nat, k # 0, IsFiniteSet(S)
  PROVE  /\ k \notin S => UpTo(S, k) = UpTo(S, k - 1)
         /\ Cardinality(UpTo(S, k)) <= Cardinality(UpTo(S, k - 1)) + 1
         /\ Cardinality(UpTo(S, k)) \in Nat /\ Cardinality(UpTo(S, k - 1)) \in Nat
<1>1. \A j \in S : j \in Nat
  OBVIOUS
<1>2. /\ k \notin S => UpTo(S, k) = UpTo(S, k - 1)
      /\ k \in S => UpTo(S, k) = UpTo(S, k - 1) \cup {k}
  <2>1. \A j \in S : j <= k <=> j <= k - 1 \/ j = k
    BY <1>1
  <2> QED
    BY <2>1 DEF UpTo
<1>3. IsFiniteSet(UpTo(S, k)) /\ IsFiniteSet(UpTo(S, k - 1))
  BY FS_Subset DEF UpTo
<1>4. Cardinality(UpTo(S, k)) \in Nat /\ Cardinality(UpTo(S, k - 1)) \in Nat
  BY <1>3, FS_CardinalityType
<1>5. Cardinality(UpTo(S, k)) <= Cardinality(UpTo(S, k - 1)) + 1
  BY <1>2, <1>3, <1>4, FS_AddElement
<1> QED
  BY <1>2, <1>4, <1>5

LEMMA OneOfEachRank ==
  ASSUME NEW L \in Nat, NEW S \in SUBSET (1 .. L), NEW i \in 1 .. Cardinality(S)
  PROVE  \E k \in S : Cardinality(UpTo(S, k)) = i
<1> DEFINE reach == {k \in 0 .. L : Cardinality(UpTo(S, k)) >= i}
<1>1. IsFiniteSet(1 .. L)
  BY FS_Interval
<1>2. /\ IsFiniteSet(S) /\ S \in SUBSET Nat
      /\ \A j \in S : j <= L /\ ~(j <= 0)
  <2>1. \A j \in S : j \in 1 .. L
    OBVIOUS
  <2>2. \A j \in S : j \in Nat /\ j <= L /\ ~(j <= 0)
    BY <2>1
  <2> QED
    BY <1>1, <2>2, FS_Subset
<1>3. Cardinality(S) \in Nat /\ i \in Nat /\ i >= 1 /\ i <= Cardinality(S)
  BY <1>2, FS_CardinalityType
<1>4. UpTo(S, L) = S /\ UpTo(S, 0) = {}
  BY <1>2 DEF UpTo
<1>5. PICK k \in reach : \A m \in reach : k <= m
  <2>1. L \in reach
    BY <1>3, <1>4
  <2>2. reach \in SUBSET Nat
    OBVIOUS
  <2> QED
    BY <2>1, <2>2, LeastIndex
<1>6. k # 0
  BY <1>3, <1>4, <1>5, FS_EmptySet
<1>7. k \in Nat /\ k - 1 \in 0 .. L /\ k - 1 \notin reach
  BY <1>5, <1>6
<1>8. /\ Cardinality(UpTo(S, k)) >= i
      /\ ~(Cardinality(UpTo(S, k - 1)) >= i)
  BY <1>5, <1>7
<1> HIDE DEF reach
<1>9. /\ k \notin S => UpTo(S, k) = UpTo(S, k - 1)
      /\ Cardinality(UpTo(S, k)) <= Cardinality(UpTo(S, k - 1)) + 1
      /\ Cardinality(UpTo(S, k)) \in Nat /\ Cardinality(UpTo(S, k - 1)) \in Nat
  BY <1>2, <1>6, <1>7, RankGrows
<1>10. k \in S /\ Cardinality(UpTo(S, k)) = i
  BY <1>3, <1>8, <1>9
<1> QED
  BY <1>10

\* A route as it is registered has one of the three kinds.
IsRegistered(c) == IsRoute(c) /\ c.kind # "both"

LEMMA RegisteredRoutes ==
  ASSUME NEW rs, IsList(rs), \A k \in DOMAIN rs : IsRoute(rs[k])
  PROVE  /\ IsList(Registered(rs))
         /\ \A i \in 1 .. Len(Registered(rs)) : IsRegistered(Registered(rs)[i])
<1> DEFINE kept == {k \in DOMAIN rs : /\ rs[k].kind # "both"
                                      /\ Len(rs[k].from) <= MaxTargets
                                      /\ Len(rs[k].to) <= MaxTargets}
           n == Cardinality(kept)
           last == IF n < MaxRoutes THEN n ELSE MaxRoutes
           Pick(i) == CHOOSE k \in kept : Cardinality({j \in kept : j <= k}) = i
<1>1. /\ Len(rs) \in Nat /\ DOMAIN rs = 1 .. Len(rs)
      /\ kept \in SUBSET (1 .. Len(rs))
  BY ListLen
<1>2. n \in Nat
  <2>1. IsFiniteSet(1 .. Len(rs))
    BY <1>1, FS_Interval
  <2>2. IsFiniteSet(kept)
    BY <1>1, <2>1, FS_Subset
  <2> QED
    BY <2>2, FS_CardinalityType
<1>3. last \in Nat /\ last <= n
  BY <1>2, RoutesAssumption
<1>4. Registered(rs) = [i \in 1 .. last |-> rs[Pick(i)]]
  BY DEF Registered
<1>5. \A i \in 1 .. last : Pick(i) \in kept
  <2> SUFFICES ASSUME NEW i \in 1 .. last
               PROVE  Pick(i) \in kept
    OBVIOUS
  <2>1. i \in 1 .. n
    BY <1>2, <1>3
  <2>2. \E k \in kept : Cardinality({j \in kept : j <= k}) = i
    BY <1>1, <2>1, OneOfEachRank DEF UpTo
  <2> QED
    BY <2>2
<1> HIDE DEF last, Pick
<1>6. IsList(Registered(rs)) /\ Len(Registered(rs)) = last
  <2>1. /\ DOMAIN Registered(rs) = 1 .. last
        /\ Registered(rs) = [i \in 1 .. last |-> Registered(rs)[i]]
    BY <1>4
  <2> QED
    BY <1>3, <2>1, ListOfFunction
<1>7. \A i \in 1 .. last : Registered(rs)[i] = rs[Pick(i)]
  BY <1>4
<1>8. \A k \in kept : IsRegistered(rs[k])
  BY DEF IsRegistered
<1> QED
  BY <1>5, <1>6, <1>7, <1>8

-----------------------------------------------------------------------------
\* What the declared meshes are made of, and what agents answer.

LEMMA RoutesOf ==
  ASSUME MeshTypes, NEW r \in Runner
  PROVE  /\ IsList(mesh[r].routes) /\ Len(mesh[r].routes) \in Nat
         /\ \A i \in 1 .. Len(mesh[r].routes) : IsRegistered(mesh[r].routes[i])
<1>1. PICK d \in UNION Range(Declared) : mesh[r] = Built(d)
  BY DEF MeshTypes
<1>2. mesh[r].routes = Registered(d.routes)
  BY <1>1 DEF Built
<1>3. IsList(d.routes) /\ \A k \in DOMAIN d.routes : IsRoute(d.routes[k])
  BY <1>1, RoutesAssumption
<1>4. /\ IsList(Registered(d.routes))
      /\ \A i \in 1 .. Len(Registered(d.routes)) : IsRegistered(Registered(d.routes)[i])
  BY <1>3, RegisteredRoutes
<1> QED
  BY <1>2, <1>4, ListLen

LEMMA AgentsOf ==
  ASSUME MeshTypes, NEW r \in Runner, Entered(r)
  PROVE  /\ Current(r).kind \in {"single", "fan_out", "fan_in"}
         /\ IsList(Parallel(r)) /\ Len(Parallel(r)) \in Nat
         /\ Current(r).kind # "single" =>
              \A k \in 1 .. Len(Parallel(r)) : Parallel(r)[k] \notin P!Pseudo
<1>1. IsRegistered(Current(r))
  BY RoutesOf DEF Entered, Current
<1>2. IsList(Parallel(r)) /\ Current(r).kind \in {"single", "fan_out", "fan_in"}
  BY <1>1 DEF IsRegistered, IsRoute, Parallel
<1>3. DOMAIN Parallel(r) = 1 .. Len(Parallel(r)) /\ Len(Parallel(r)) \in Nat
  BY <1>2, ListLen
<1>4. Current(r).kind # "single" => Range(Parallel(r)) \cap P!Pseudo = {}
  BY <1>1, <1>2 DEF IsRegistered, IsRoute, Parallel
<1>5. \A k \in 1 .. Len(Parallel(r)) : Parallel(r)[k] \in Range(Parallel(r))
  BY <1>3 DEF Range
<1> QED
  BY <1>2, <1>3, <1>4, <1>5

\* An answer cannot be taken for one that is not there yet.
LEMMA AnswerOfAgent ==
  ASSUME NEW a, NEW v, a \notin P!Pseudo, NEW u \in P!Answers(a, v)
  PROVE  u # NotYet
<1>1. u = <<a, v>> \/ u = << >>
  BY DEF P!Answers, P!Failed
<1>2. Len(<<a, v>>) = 2 /\ Len(<< >>) = 0 /\ Len(<<Nobody>>) = 1
  OBVIOUS
<1> QED
  BY <1>1, <1>2 DEF NotYet

-----------------------------------------------------------------------------
\* Every step of a mesh is a step of the thread pool, or none.

LEMMA FreshInvocation ==
  ASSUME Unspawned # {}
  PROVE  Fresh \in Invocation /\ Fresh \in Task \ Runner /\ task[Fresh] = "new"
<1>1. Fresh \in Unspawned
  BY DEF Fresh
<1> QED
  BY <1>1 DEF Unspawned, Invocation

LEMMA AwaitedInvocation ==
  ASSUME MeshTypes, NEW r \in Runner, FanOutAwaits(r)
  PROVE  /\ Len(results[r]) + 1 \in 1 .. Len(handles[r])
         /\ handles[r][Len(results[r]) + 1] \in Invocation
<1>1. handles[r] \in Seq(Invocation) /\ Len(results[r]) \in Nat
  BY ListLen DEF MeshTypes
<1>2. Len(results[r]) + 1 \in 1 .. Len(handles[r])
  BY <1>1 DEF FanOutAwaits
<1> QED
  BY <1>1, <1>2

LEMMA StepOfPool ==
  ASSUME MeshInv, MeshNext
  PROVE  Next \/ UNCHANGED vars
<1>1. Runner \subseteq Actor /\ Invocation \subseteq Task
  BY PoolAssumption, MeshAssumption DEF Invocation
<1>2. ASSUME NEW w \in Worker, MeshWorker(w) \/ SpuriousWakeup(w)
      PROVE  Next
  BY <1>2 DEF MeshWorker, WorkerStep, Next
<1>3. ASSUME NEW r \in Runner, MeshProceeds(r)
      PROVE  Next \/ UNCHANGED vars
  <2>1. CASE RunSource(r) \/ RunTarget(r) \/ FanOutReturns(r)
    BY <2>1 DEF RunSource, RunTarget, FanOutReturns
  <2>2. CASE FanOutSpawn(r)
    <3>1. lcn_spawn_task(r, Fresh) /\ Fresh \in Task
      BY <2>2, FreshInvocation DEF FanOutSpawn
    <3> QED
      BY <1>1, <3>1 DEF Next, Calls
  <2>3. CASE FanOutAwaits(r)
    <3> DEFINE t == handles[r][Len(results[r]) + 1]
    <3>1. t \in Invocation
      BY <2>3, AwaitedInvocation DEF MeshInv
    <3>2. lcn_await_task(r, t)
      BY <2>3 DEF FanOutAwaits
    <3> HIDE DEF t
    <3> QED
      BY <1>1, <3>1, <3>2 DEF Next, Calls
  <2>4. CASE FanOutCollects(r)
    BY <1>1, <2>4 DEF FanOutCollects, Next, Proceeds
  <2> QED
    BY <1>3, <2>1, <2>2, <2>3, <2>4 DEF MeshProceeds
<1>4. ASSUME NEW a \in Actor, SpawnProceeds(a)
      PROVE  Next
  BY <1>4 DEF SpawnProceeds, SpawnContinues, SpawnReturns, Next, Proceeds
<1>5. ASSUME NEW a \in Main, NEW t \in Runner \cap Task, SpawnRunner(a, t)
      PROVE  Next
  BY <1>5 DEF SpawnRunner, Next, Calls, Actor
<1>6. (\E r \in Runner : lcn_mesh_execute(r)) \/ (\E t \in Invocation : mesh_task_wrapper(t))
        => UNCHANGED vars
  BY DEF lcn_mesh_execute, mesh_task_wrapper
<1> QED
  BY <1>2, <1>3, <1>4, <1>5, <1>6 DEF MeshNext

-----------------------------------------------------------------------------
\* What a step leaves alone.

\* No runner changes its place in the mesh, or the text it carries.
Staying == UNCHANGED <<mesh, step, route, current_input, fan_input>>

LEMMA StagesKept ==
  ASSUME \A r \in Runner : StageInv(r), Staying
  PROVE  \A r \in Runner : StageInv(r)'
BY DEF Staying, StageInv, Entered, SourceAnswered, Current

SameFan(r) ==
  /\ mesh'[r] = mesh[r] /\ step'[r] = step[r] /\ route'[r] = route[r]
  /\ fan_input'[r] = fan_input[r]
  /\ args'[r] = args[r] /\ handles'[r] = handles[r] /\ results'[r] = results[r]
  /\ pc'[r] \in Spawning <=> pc[r] \in Spawning
  /\ pc'[r] = "await" <=> pc[r] = "await"
  /\ target'[r] = target[r]

\* A spawned invocation keeps its argument; an awaited one is freed, no other.
LEMMA FanKept ==
  ASSUME MeshTypes, NEW r \in Runner, FanInv(r), SameFan(r),
         pc[r] \in Spawning => task[target[r]] = "allocated",
         \A t \in Invocation : task[t] # "new" => arg'[t] = arg[t],
         \A k \in 1 .. Len(handles[r]) :
            /\ task'[handles[r][k]] \notin {"new", "allocated"}
            /\ task'[handles[r][k]] = "freed" <=> task[handles[r][k]] = "freed"
  PROVE  FanInv(r)'
<1>1. \A k \in 1 .. Len(handles[r]) : handles[r][k] \in Invocation
  BY DEF MeshTypes
<1>2. \A k \in 1 .. Len(handles[r]) : arg'[handles[r][k]] = [runner |-> r, index |-> k]
  BY <1>1 DEF FanInv
<1>3. pc[r] \in Spawning => arg'[target[r]] = [runner |-> r, index |-> Len(args[r])]
  BY DEF FanInv
<1>4. Parallel(r)' = Parallel(r) /\ Calling(r)' = Calling(r)
  BY DEF SameFan, Parallel, Current, Calling
<1> QED
  BY <1>2, <1>3, <1>4 DEF FanInv, SameFan

LEMMA InvocationKept ==
  ASSUME NEW t \in Invocation, InvocationInv(t),
         arg'[t] = arg[t], output'[t] = output[t],
         task'[t] = "new" <=> task[t] = "new",
         task'[t] \in {"new", "allocated", "queued"} =>
            task[t] \in {"new", "allocated", "queued"},
         task'[t] = "completed" => task[t] = "completed" \/ output[t] # NotYet,
         Pending(t)' => Pending(t),
         Pending(t)' /\ Belongs(t, arg[t].runner, arg[t].index) =>
            /\ Belongs(t, arg[t].runner, arg[t].index)'
            /\ Parallel(arg[t].runner)' = Parallel(arg[t].runner)
            /\ fan_input'[arg[t].runner] = fan_input[arg[t].runner]
  PROVE  InvocationInv(t)'
BY DEF InvocationInv, Belongs

LEMMA BelongsKept ==
  ASSUME NEW t, NEW r, NEW k, Belongs(t, r, k), SameFan(r)
  PROVE  /\ Belongs(t, r, k)' /\ Parallel(r)' = Parallel(r)
         /\ fan_input'[r] = fan_input[r]
BY DEF Belongs, SameFan, Parallel, Current

\* A step of the pool that the meshes take no notice of: tasks are begun or
\* completed, and no runner inside a fan-out enters or leaves a call.
TasksGoOn ==
  \A t \in Invocation :
    \/ task'[t] = task[t]
    \/ task[t] = "queued" /\ task'[t] = "running"
    \/ task[t] = "running" /\ task'[t] = "completed" /\ output[t] # NotYet

FansStay == \A r \in Runner : step[r] = "fan_out" => SameFan(r)

LEMMA FansKept ==
  ASSUME MeshTypes, Fans, CallInv, UNCHANGED <<meshState, arg>>, TasksGoOn, FansStay
  PROVE  Fans'
<1>1. ASSUME NEW r \in Runner, step[r] = "fan_out"
      PROVE  FanInv(r)'
  <2>1. FanInv(r) /\ SameFan(r)
    BY <1>1 DEF Fans, FansStay
  <2>2. pc[r] \in Spawning => task[target[r]] = "allocated"
    BY PoolAssumption, MeshAssumption DEF CallInv
  <2>3. \A k \in 1 .. Len(handles[r]) : handles[r][k] \in Invocation
    BY DEF MeshTypes
  <2>4. \A k \in 1 .. Len(handles[r]) :
          /\ task'[handles[r][k]] \notin {"new", "allocated"}
          /\ task'[handles[r][k]] = "freed" <=> task[handles[r][k]] = "freed"
    BY <2>1, <2>3 DEF FanInv, TasksGoOn
  <2> QED
    BY <2>1, <2>2, <2>4, FanKept
<1>2. ASSUME NEW r \in Runner, step[r] # "fan_out"
      PROVE  NoFan(r)'
  BY <1>2 DEF Fans, NoFan, meshState
<1> QED
  BY <1>1, <1>2 DEF Fans, meshState

LEMMA InvocationsKept ==
  ASSUME \A t \in Invocation : InvocationInv(t), UNCHANGED <<arg, output>>,
         TasksGoOn, FansStay
  PROVE  \A t \in Invocation : InvocationInv(t)'
<1> SUFFICES ASSUME NEW t \in Invocation
             PROVE  InvocationInv(t)'
  OBVIOUS
<1>1. /\ Pending(t)' => Pending(t)
      /\ task'[t] = "new" <=> task[t] = "new"
      /\ task'[t] \in {"new", "allocated", "queued"} =>
           task[t] \in {"new", "allocated", "queued"}
      /\ task'[t] = "completed" => task[t] = "completed" \/ output[t] # NotYet
  BY DEF TasksGoOn, Pending
<1>2. ASSUME Belongs(t, arg[t].runner, arg[t].index)
      PROVE  /\ Belongs(t, arg[t].runner, arg[t].index)'
             /\ Parallel(arg[t].runner)' = Parallel(arg[t].runner)
             /\ fan_input'[arg[t].runner] = fan_input[arg[t].runner]
  <2>1. PICK r, k : r = arg[t].runner /\ k = arg[t].index
    OBVIOUS
  <2>2. Belongs(t, r, k) /\ SameFan(r)
    BY <1>2, <2>1 DEF Belongs, FansStay
  <2>3. Belongs(t, r, k)' /\ Parallel(r)' = Parallel(r) /\ fan_input'[r] = fan_input[r]
    BY <2>2, BelongsKept
  <2> QED
    BY <2>1, <2>3
<1> QED
  BY <1>1, <1>2, InvocationKept

LEMMA QuietStep ==
  ASSUME MeshInv, CallInv, UNCHANGED meshVars, TasksGoOn, FansStay,
         \A a \in Actor : ActorInv(a)'
  PROVE  MeshInv'
<1>1. UNCHANGED <<meshState, arg, output>>
  BY DEF meshVars, wrapper
<1>2. MeshTypes'
  BY <1>1 DEF MeshInv, MeshTypes, meshState
<1>3. Fans'
  BY <1>1, FansKept DEF MeshInv
<1>4. \A t \in Invocation : InvocationInv(t)'
  BY <1>1, InvocationsKept DEF MeshInv
<1>5. \A r \in Runner : StageInv(r)'
  BY <1>1, StagesKept DEF MeshInv, Staying, meshState
<1> QED
  BY <1>2, <1>3, <1>4, <1>5 DEF MeshInv

LEMMA WorkersKeepMesh ==
  ASSUME MeshInv, PoolInv, NEW w \in Worker,
         MeshWorker(w) \/ (SpuriousWakeup(w) /\ UNCHANGED meshVars)
  PROVE  MeshInv'
<1>1. TypeOK /\ CallInv /\ EachTaskInOnePlace
  BY DEF PoolInv, TypeInv
<1>2. UNCHANGED <<pc, target>> /\ UNCHANGED meshVars
  BY DEF MeshWorker, WorkerSleeps, WorkerLeaves, WorkerPops, WorkerCompletes,
         SpuriousWakeup
<1>3. TasksGoOn
  <2>1. CASE WorkerPops(w)
    <3>1. /\ Head(queue) \in Task /\ queue[1] = Head(queue) /\ 1 \in 1 .. Len(queue)
          /\ task' = [task EXCEPT ![Head(queue)] = "running"]
      BY <1>1, <2>1 DEF WorkerPops, TypeOK
    <3>2. task[Head(queue)] = "queued"
      BY <1>1, <3>1 DEF EachTaskInOnePlace
    <3> QED
      BY <1>1, <3>1, <3>2 DEF TasksGoOn, TypeOK, Invocation
  <2>2. CASE WorkerCompletes(w) /\ BodyDone(job[w])
    <3>1. task' = [task EXCEPT ![job[w]] = "completed"]
      BY <2>2 DEF WorkerCompletes
    <3>2. ASSUME NEW t \in Invocation, t = job[w]
          PROVE  task[t] = "running" /\ output[t] # NotYet
      BY <1>1, <2>2, <3>2 DEF EachTaskInOnePlace, BodyDone, Invocation
    <3> QED
      BY <1>1, <3>1, <3>2 DEF TasksGoOn, TypeOK, Invocation
  <2>3. CASE WorkerSleeps(w) \/ WorkerLeaves(w) \/ SpuriousWakeup(w)
    BY <2>3 DEF WorkerSleeps, WorkerLeaves, SpuriousWakeup, TasksGoOn
  <2> QED
    BY <2>1, <2>2, <2>3 DEF MeshWorker
<1>4. FansStay
  BY <1>2 DEF FansStay, SameFan, meshVars, meshState
<1>5. \A a \in Actor : ActorInv(a)'
  BY <1>2 DEF MeshInv, ActorInv, FansOut, meshVars, meshState
<1> QED
  BY <1>1, <1>2, <1>3, <1>4, <1>5, QuietStep

\* lcn_spawn_task finds the pool not initialized and initializes it.
LEMMA SpawnInitKeepsMesh ==
  ASSUME MeshInv, PoolInv, NEW a \in Actor, SpawnContinues(a)
  PROVE  MeshInv'
<1>1. TypeOK /\ CallInv
  BY DEF PoolInv, TypeInv
<1>2. /\ pc[a] = "auto_init" /\ pc' = [pc EXCEPT ![a] = "push"]
      /\ UNCHANGED <<task, target>> /\ UNCHANGED meshVars
  BY DEF SpawnContinues, SpawnInit, InitPool
<1>3. \A b \in Actor : pc'[b] = IF b = a THEN "push" ELSE pc[b]
  BY <1>1, <1>2 DEF TypeOK
<1>4. TasksGoOn
  BY <1>2 DEF TasksGoOn
<1>5. \A b \in Actor : /\ pc'[b] \in Spawning <=> pc[b] \in Spawning
                       /\ pc'[b] = "await" <=> pc[b] = "await"
                       /\ pc'[b] = "idle" <=> pc[b] = "idle"
  BY <1>2, <1>3 DEF Spawning
<1>6. FansStay
  BY <1>2, <1>5, PoolAssumption, MeshAssumption
     DEF FansStay, SameFan, meshVars, meshState
<1>7. \A b \in Actor : ActorInv(b)'
  BY <1>2, <1>5 DEF MeshInv, ActorInv, FansOut, meshVars, meshState
<1> QED
  BY <1>1, <1>2, <1>4, <1>6, <1>7, QuietStep

\* lcn_spawn_task(a, t) by an actor outside any call, seen by the meshes.
LEMMA SpawnBegins ==
  ASSUME TypeOK, NEW a \in Actor, NEW t \in Task, lcn_spawn_task(a, t)
  PROVE  /\ pc[a] = "idle" /\ task[t] = "new"
         /\ pc'[a] \in Spawning /\ target'[a] = t
         /\ \A b \in Actor \ {a} : pc'[b] = pc[b] /\ target'[b] = target[b]
         /\ task'[t] = "allocated" /\ \A u \in Task \ {t} : task'[u] = task[u]
<1>1. PICK next \in Spawning : Goto(a, next, t)
  BY DEF lcn_spawn_task, Spawning
<1>2. /\ pc' = [pc EXCEPT ![a] = next] /\ target' = [target EXCEPT ![a] = t]
      /\ task' = [task EXCEPT ![t] = "allocated"]
      /\ pc[a] = "idle" /\ task[t] = "new"
  BY <1>1 DEF lcn_spawn_task, Goto, Idle
<1> QED
  BY <1>1, <1>2 DEF TypeOK

LEMMA SpawnRunnerKeepsMesh ==
  ASSUME MeshInv, PoolInv, NEW a \in Main, NEW t \in Runner \cap Task,
         SpawnRunner(a, t)
  PROVE  MeshInv'
<1>1. TypeOK /\ CallInv /\ a \in Actor /\ t \notin Invocation
  BY DEF PoolInv, TypeInv, Actor, Invocation
<1>2. /\ lcn_spawn_task(a, t) /\ UNCHANGED meshVars
      /\ a \in Runner => step[a] = "idle"
  BY DEF SpawnRunner
<1>3. /\ pc'[a] \in Spawning /\ target'[a] = t
      /\ \A b \in Actor \ {a} : pc'[b] = pc[b] /\ target'[b] = target[b]
      /\ \A u \in Task \ {t} : task'[u] = task[u]
  BY <1>1, <1>2, SpawnBegins
<1>4. TasksGoOn
  BY <1>1, <1>3 DEF TasksGoOn, Invocation
<1>5. FansStay
  BY <1>2, <1>3, PoolAssumption, MeshAssumption
     DEF FansStay, SameFan, meshVars, meshState
<1>6. ASSUME NEW b \in Actor
      PROVE  ActorInv(b)'
  <2>1. CASE b = a
    BY <1>2, <1>3, <2>1 DEF ActorInv, FansOut, Spawning, meshVars, meshState
  <2>2. CASE b # a
    BY <1>2, <1>3, <2>2 DEF MeshInv, ActorInv, FansOut, meshVars, meshState
  <2> QED
    BY <2>1, <2>2
<1> QED
  BY <1>1, <1>2, <1>4, <1>5, <1>6, QuietStep

\* The agent answers: only its own output changes.
LEMMA WrapperKeepsMesh ==
  ASSUME MeshInv, PoolInv, NEW t \in Invocation, mesh_task_wrapper(t)
  PROVE  MeshInv'
<1>1. /\ task[t] = "running" /\ output[t] = NotYet
      /\ UNCHANGED <<task, pc, target>> /\ UNCHANGED <<meshState, arg>>
  BY DEF mesh_task_wrapper, vars
<1>2. CallInv /\ MeshTypes /\ Fans /\ t \in Task
  BY DEF PoolInv, TypeInv, MeshInv, Invocation
<1>3. PICK r, k : r = arg[t].runner /\ k = arg[t].index
  OBVIOUS
<1>4. Belongs(t, r, k)
  BY <1>1, <1>3 DEF MeshInv, InvocationInv, Pending
<1>5. r \in Runner /\ step[r] = "fan_out" /\ FanInv(r) /\ k \in 1 .. Len(args[r])
  BY <1>2, <1>4 DEF Belongs, Fans
<1>6. args[r][k] = [agent |-> Parallel(r)[k], input |-> fan_input[r]]
  BY <1>5 DEF FanInv
<1>7. PICK v \in P!Answers(Parallel(r)[k], fan_input[r]) :
        output' = [output EXCEPT ![t] = v]
  <2>1. \E v \in P!Answers(args[r][k].agent, args[r][k].input) :
          output' = [output EXCEPT ![t] = v]
    BY <1>3 DEF mesh_task_wrapper
  <2>2. args[r][k].agent = Parallel(r)[k] /\ args[r][k].input = fan_input[r]
    BY <1>6
  <2> QED
    BY <2>1, <2>2
<1>8. v # NotYet
  <2>1. Entered(r) /\ Current(r).kind # "single"
    BY <1>5 DEF MeshInv, StageInv
  <2>2. Len(args[r]) <= Len(Parallel(r)) /\ Len(args[r]) \in Nat /\ Len(Parallel(r)) \in Nat
    BY <1>2, <1>5, <2>1, AgentsOf, ListLen DEF FanInv, MeshTypes
  <2>3. k \in 1 .. Len(Parallel(r))
    BY <1>5, <2>2
  <2>4. Parallel(r)[k] \notin P!Pseudo
    BY <1>2, <1>5, <2>1, <2>3, AgentsOf
  <2> QED
    BY <1>7, <2>4, AnswerOfAgent
<1>9. /\ DOMAIN output' = Task /\ output'[t] = v
      /\ \A u \in Task \ {t} : output'[u] = output[u]
  BY <1>2, <1>7 DEF MeshTypes
<1>10. MeshTypes'
  BY <1>1, <1>2, <1>9 DEF MeshTypes, meshState
<1>11. Fans'
  <2>1. TasksGoOn
    BY <1>1 DEF TasksGoOn
  <2>2. FansStay
    BY <1>1 DEF FansStay, SameFan, meshState
  <2> QED
    BY <1>1, <1>2, <2>1, <2>2, FansKept
<1>12. \A s \in Runner : StageInv(s)'
  BY <1>1, StagesKept DEF MeshInv, Staying, meshState
<1>13. \A a \in Actor : ActorInv(a)'
  BY <1>1 DEF MeshInv, ActorInv, FansOut, meshState
<1>14. ASSUME NEW u \in Invocation
       PROVE  InvocationInv(u)'
  <2>1. CASE u # t
    <3>1. /\ output'[u] = output[u] /\ u \in Task
      BY <1>9, <2>1 DEF Invocation
    <3>2. InvocationInv(u) /\ arg'[u] = arg[u] /\ task'[u] = task[u]
      BY <1>1 DEF MeshInv
    <3>3. \A q, j : /\ Belongs(u, q, j)' <=> Belongs(u, q, j)
                   /\ Parallel(q)' = Parallel(q) /\ fan_input'[q] = fan_input[q]
      BY <1>1 DEF Belongs, Parallel, Current, meshState
    <3>4. PICK q, j : q = arg[u].runner /\ j = arg[u].index
      OBVIOUS
    <3>5. Belongs(u, q, j) => /\ Belongs(u, q, j)' /\ Parallel(q)' = Parallel(q)
                              /\ fan_input'[q] = fan_input[q]
      BY <3>3
    <3> QED
      BY <3>1, <3>2, <3>4, <3>5, InvocationKept DEF Pending
  <2>2. CASE u = t
    <3>1. Belongs(t, r, k)' /\ Parallel(r)' = Parallel(r)
      BY <1>1, <1>4 DEF Belongs, Parallel, Current, meshState
    <3>2. arg'[t] = arg[t] /\ task'[t] = "running" /\ fan_input'[r] = fan_input[r]
      BY <1>1 DEF meshState
    <3>3. arg'[t] # NoArg
      BY <1>1 DEF MeshInv, InvocationInv
    <3> QED
      BY <1>3, <1>7, <1>9, <2>2, <3>1, <3>2, <3>3 DEF InvocationInv
  <2> QED
    BY <2>1, <2>2
<1> QED
  BY <1>10, <1>11, <1>12, <1>13, <1>14 DEF MeshInv

-----------------------------------------------------------------------------
\* Steps of lcn_mesh_execute: runner r, which has no task under way, moves.

Turns(r) ==
  /\ step' \in [Runner -> {"idle", "source", "fan_out", "target", "ok", "error"}]
  /\ route' \in [Runner -> Nat]
  /\ current_input' = [s \in Runner |-> current_input'[s]] /\ DOMAIN fan_input' = Runner
  /\ \A s \in Runner \ {r} :
       /\ step'[s] = step[s] /\ route'[s] = route[s]
       /\ current_input'[s] = current_input[s] /\ fan_input'[s] = fan_input[s]

Moves(r) ==
  /\ pc[r] = "idle" /\ \A t \in Invocation : Pending(t) => arg[t].runner # r
  /\ UNCHANGED <<vars, mesh, wrapper>>
  /\ Turns(r)
  /\ DOMAIN args' = Runner /\ DOMAIN results' = Runner
  /\ handles' \in [Runner -> Seq(Invocation)]
  /\ \A s \in Runner \ {r} :
       args'[s] = args[s] /\ handles'[s] = handles[s] /\ results'[s] = results[s]

LEMMA EmptyFan ==
  ASSUME NEW r \in Runner, NoFan(r)', pc'[r] = "idle", Len(Parallel(r)') \in Nat
  PROVE  FanInv(r)'
<1>1. Len(args'[r]) = 0 /\ Len(handles'[r]) = 0 /\ Len(results'[r]) = 0
  BY DEF NoFan
<1>2. Calling(r)' = 0 /\ pc'[r] \notin Spawning /\ pc'[r] # "await"
  BY DEF Calling, Spawning
<1> QED
  BY <1>1, <1>2 DEF FanInv

LEMMA MoveKeepsMesh ==
  ASSUME MeshInv, PoolInv, NEW r \in Runner, Moves(r), NoFan(r)', StageInv(r)'
  PROVE  MeshInv'
<1>1. /\ UNCHANGED <<task, pc, target, mesh, arg, output>>
      /\ MeshTypes /\ Fans /\ CallInv
  BY DEF Moves, Turns, vars, wrapper, MeshInv, PoolInv, TypeInv
<1>2. \A s \in Runner \ {r} : SameFan(s)
  BY <1>1 DEF Moves, Turns, SameFan
<1>3. MeshTypes'
  BY <1>1, EmptyList DEF Moves, Turns, MeshTypes, NoFan
<1>4. \A a \in Actor : ActorInv(a)'
  BY <1>1 DEF Moves, Turns, MeshInv, ActorInv, FansOut, Spawning
<1>5. ASSUME NEW s \in Runner \ {r}
      PROVE  /\ IF step'[s] = "fan_out" THEN FanInv(s)' ELSE NoFan(s)'
             /\ StageInv(s)'
  <2>1. SameFan(s) /\ step'[s] = step[s]
    BY <1>2 DEF Moves, Turns
  <2>2. StageInv(s)'
    <3>1. StageInv(s)
      BY DEF MeshInv
    <3>2. /\ mesh' = mesh /\ step'[s] = step[s] /\ route'[s] = route[s]
          /\ current_input'[s] = current_input[s] /\ fan_input'[s] = fan_input[s]
      BY <1>1 DEF Moves, Turns
    <3>3. /\ Current(s)' = Current(s) /\ (Entered(s)' <=> Entered(s))
          /\ SourceAnswered(s)' <=> SourceAnswered(s)
      BY <3>2 DEF Current, Entered, SourceAnswered
    <3> QED
      BY <3>1, <3>2, <3>3 DEF StageInv
  <2>3. CASE step[s] = "fan_out"
    <3>1. pc[s] \in Spawning => task[target[s]] = "allocated"
      BY <1>1, PoolAssumption, MeshAssumption DEF CallInv
    <3>2. FanInv(s)
      BY <1>1, <2>3 DEF Fans
    <3>3. \A k \in 1 .. Len(handles[s]) :
            /\ task'[handles[s][k]] \notin {"new", "allocated"}
            /\ task'[handles[s][k]] = "freed" <=> task[handles[s][k]] = "freed"
      BY <1>1, <3>2 DEF FanInv
    <3>4. FanInv(s)'
      BY <1>1, <2>1, <3>1, <3>2, <3>3, FanKept
    <3> QED
      BY <2>1, <2>2, <2>3, <3>4
  <2>4. CASE step[s] # "fan_out"
    <3>1. NoFan(s)
      BY <1>1, <2>4 DEF Fans
    <3> QED
      BY <2>1, <2>2, <2>4, <3>1 DEF NoFan, Moves, Turns
  <2> QED
    BY <2>3, <2>4
<1>6. step'[r] = "fan_out" => FanInv(r)'
  <2> SUFFICES ASSUME step'[r] = "fan_out"
               PROVE  FanInv(r)'
    OBVIOUS
  <2>1. route'[r] \in 1 .. Len(mesh[r].routes) /\ Current(r)' = mesh[r].routes[route'[r]]
    BY <1>1 DEF StageInv, Entered, Current
  <2>2. IsRegistered(Current(r)')
    BY <1>1, <2>1, RoutesOf
  <2>3. IsList(Current(r)'.from) /\ IsList(Current(r)'.to)
    BY <2>2 DEF IsRegistered, IsRoute
  <2>4. Len(Parallel(r)') \in Nat
    BY <2>3, ListLen DEF Parallel
  <2> QED
    BY <1>1, <2>4, EmptyFan DEF Moves, Turns
<1>7. ASSUME NEW t \in Invocation
      PROVE  InvocationInv(t)'
  <2>1. PICK s, k : s = arg[t].runner /\ k = arg[t].index
    OBVIOUS
  <2>2. Pending(t)' => Pending(t) /\ s # r
    BY <1>1, <2>1 DEF Pending, Moves
  <2>3. Pending(t)' /\ Belongs(t, s, k) =>
           /\ Belongs(t, s, k)' /\ Parallel(s)' = Parallel(s)
           /\ fan_input'[s] = fan_input[s]
    BY <1>2, <2>2, BelongsKept DEF Belongs
  <2>4. InvocationInv(t) /\ arg'[t] = arg[t] /\ output'[t] = output[t] /\ task'[t] = task[t]
    BY <1>1 DEF MeshInv
  <2> QED
    BY <1>1, <2>1, <2>2, <2>3, <2>4, InvocationKept
<1> QED
  BY <1>3, <1>4, <1>5, <1>6, <1>7 DEF MeshInv, Fans

LEMMA Entering ==
  ASSUME MeshTypes, NEW r \in Runner, NEW i \in 1 .. Len(mesh[r].routes) + 1, NEW v,
         GoTo(r, i, v), mesh' = mesh
  PROVE  /\ Turns(r) /\ StageInv(r)'
         /\ route'[r] = i /\ current_input'[r] = v
         /\ step'[r] = "ok" <=> i = Len(mesh[r].routes) + 1
         /\ step'[r] \in {"ok", "fan_out", "source"}
<1> DEFINE n == Len(mesh[r].routes)
           c == mesh[r].routes[i]
<1>1. n \in Nat /\ i \in Nat /\ (i <= n => IsRegistered(c))
  BY RoutesOf
<1>2. /\ route' \in [Runner -> Nat] /\ route'[r] = i
      /\ current_input' = [s \in Runner |-> current_input'[s]] /\ current_input'[r] = v
      /\ \A s \in Runner \ {r} : route'[s] = route[s] /\ current_input'[s] = current_input[s]
  BY <1>1 DEF GoTo, MeshTypes
<1> HIDE DEF n
<1>3. CASE i > n
  <2>1. step' = [step EXCEPT ![r] = "ok"] /\ UNCHANGED fan_input
    BY <1>3 DEF GoTo, n
  <2>2. Turns(r) /\ step'[r] = "ok"
    BY <1>2, <2>1 DEF Turns, MeshTypes
  <2>3. i = n + 1
    BY <1>1, <1>3 DEF n
  <2> QED
    BY <1>2, <2>2, <2>3 DEF StageInv, n
<1>4. CASE i <= n
  <2>1. i # n + 1 /\ i \in 1 .. n /\ IsRegistered(c)
    BY <1>1, <1>4
  <2>2. Entered(r)' /\ Current(r)' = c
    BY <1>2, <2>1 DEF Entered, Current, n
  <2>3. CASE c.kind = "fan_in"
    <3>1. step' = [step EXCEPT ![r] = "fan_out"] /\ fan_input' = [fan_input EXCEPT ![r] = v]
      BY <1>1, <1>4, <2>3 DEF GoTo, n
    <3>2. Turns(r) /\ step'[r] = "fan_out" /\ fan_input'[r] = v
      BY <1>2, <3>1 DEF Turns, MeshTypes
    <3> QED
      BY <1>2, <2>1, <2>2, <2>3, <3>2 DEF StageInv, n
  <2>4. CASE c.kind # "fan_in"
    <3>1. step' = [step EXCEPT ![r] = "source"] /\ UNCHANGED fan_input
      BY <1>1, <1>4, <2>4 DEF GoTo, n
    <3>2. Turns(r) /\ step'[r] = "source"
      BY <1>2, <3>1 DEF Turns, MeshTypes
    <3>3. c.kind \in {"single", "fan_out"}
      BY <2>1, <2>4 DEF IsRegistered, IsRoute
    <3> QED
      BY <1>2, <2>1, <2>2, <3>2, <3>3 DEF StageInv, n
  <2> QED
    BY <2>3, <2>4
<1> QED
  BY <1>1, <1>3, <1>4

LEMMA Failing ==
  ASSUME MeshTypes, NEW r \in Runner, Entered(r), mesh' = mesh, Fail(r)
  PROVE  /\ Turns(r) /\ StageInv(r)' /\ step'[r] = "error"
         /\ route' = route /\ current_input' = current_input
<1>1. step' = [step EXCEPT ![r] = "error"] /\ UNCHANGED <<route, current_input, fan_input>>
  BY DEF Fail
<1>2. Turns(r) /\ step'[r] = "error"
  BY <1>1 DEF Turns, MeshTypes
<1>3. Entered(r)'
  BY <1>1 DEF Entered
<1> QED
  BY <1>1, <1>2, <1>3 DEF StageInv

LEMMA InPlace ==
  ASSUME MeshInv, NEW r \in Runner, step[r] # "fan_out", pc[r] = "idle", Turns(r),
         UNCHANGED <<vars, mesh, args, handles, results, wrapper>>
  PROVE  Moves(r) /\ NoFan(r)'
<1>1. NoFan(r)
  BY DEF MeshInv, Fans
<1>2. \A t \in Invocation : Pending(t) => arg[t].runner # r
  BY DEF MeshInv, InvocationInv, Belongs
<1>3. /\ DOMAIN args' = Runner /\ DOMAIN results' = Runner
      /\ handles' \in [Runner -> Seq(Invocation)]
  BY DEF MeshInv, MeshTypes
<1> QED
  BY <1>1, <1>2, <1>3 DEF Moves, NoFan

LEMMA ExecuteKeepsMesh ==
  ASSUME MeshInv, PoolInv, NEW r \in Runner, lcn_mesh_execute(r)
  PROVE  MeshInv'
<1>1. /\ step[r] = "idle" /\ pc[r] = "idle" /\ GoTo(r, 1, current_input[r])
      /\ UNCHANGED <<vars, mesh, args, handles, results, wrapper>>
  BY DEF lcn_mesh_execute, Idle
<1>2. MeshTypes /\ 1 \in 1 .. Len(mesh[r].routes) + 1
  BY RoutesOf DEF MeshInv
<1>3. Turns(r) /\ StageInv(r)'
  BY <1>1, <1>2, Entering
<1> QED
  BY <1>1, <1>3, InPlace, MoveKeepsMesh

LEMMA SourceKeepsMesh ==
  ASSUME MeshInv, PoolInv, NEW r \in Runner, RunSource(r)
  PROVE  MeshInv'
<1>1. /\ step[r] = "source" /\ StageInv(r) /\ ActorInv(r) /\ MeshTypes
      /\ UNCHANGED <<vars, mesh, args, handles, results, wrapper>>
  BY PoolAssumption, MeshAssumption DEF RunSource, MeshInv
<1>2. pc[r] = "idle"
  BY <1>1 DEF ActorInv
<1>3. PICK v \in P!Answers(Current(r).from[1], current_input[r]) :
        IF v = P!Failed THEN Fail(r)
        ELSE /\ fan_input' = [fan_input EXCEPT ![r] = v]
             /\ step' = [step EXCEPT ![r] =
                  IF Current(r).kind = "fan_out" THEN "fan_out" ELSE "target"]
             /\ UNCHANGED <<route, current_input>>
  BY DEF RunSource
<1>4. Turns(r) /\ StageInv(r)'
  <2>1. CASE v = P!Failed
    <3>1. Fail(r) /\ Entered(r) /\ mesh' = mesh
      BY <1>1, <1>3, <2>1 DEF StageInv
    <3> QED
      BY <1>1, <3>1, Failing
  <2>2. CASE v # P!Failed
    <3>1. /\ fan_input' = [fan_input EXCEPT ![r] = v] /\ UNCHANGED <<mesh, route, current_input>>
          /\ step' = [step EXCEPT ![r] =
               IF Current(r).kind = "fan_out" THEN "fan_out" ELSE "target"]
      BY <1>1, <1>3, <2>2
    <3>2. /\ Turns(r) /\ fan_input'[r] = v
          /\ step'[r] = IF Current(r).kind = "fan_out" THEN "fan_out" ELSE "target"
      BY <1>1, <3>1 DEF Turns, MeshTypes
    <3>3. Entered(r) /\ Current(r).kind \in {"single", "fan_out"}
      BY <1>1 DEF StageInv
    <3>4. Entered(r)' /\ Current(r)' = Current(r)
      BY <3>1, <3>3 DEF Entered, Current
    <3>5. SourceAnswered(r)'
      BY <1>3, <2>2, <3>1, <3>2, <3>4 DEF SourceAnswered
    <3> QED
      BY <3>2, <3>3, <3>4, <3>5 DEF StageInv
  <2> QED
    BY <2>1, <2>2
<1> QED
  BY <1>1, <1>2, <1>4, InPlace, MoveKeepsMesh

LEMMA TargetKeepsMesh ==
  ASSUME MeshInv, PoolInv, NEW r \in Runner, RunTarget(r)
  PROVE  MeshInv'
<1>1. /\ step[r] = "target" /\ StageInv(r) /\ ActorInv(r) /\ MeshTypes
      /\ UNCHANGED <<vars, mesh, args, handles, results, wrapper>>
  BY PoolAssumption, MeshAssumption DEF RunTarget, MeshInv
<1>2. pc[r] = "idle"
  BY <1>1 DEF ActorInv
<1>3. PICK v \in P!Answers(Current(r).to[1], fan_input[r]) :
        IF v = P!Failed THEN Fail(r) ELSE GoTo(r, route[r] + 1, v)
  BY DEF RunTarget
<1>4. Entered(r) /\ mesh' = mesh /\ route[r] + 1 \in 1 .. Len(mesh[r].routes) + 1
  BY <1>1, RoutesOf DEF StageInv, Entered
<1>5. Turns(r) /\ StageInv(r)'
  <2>1. CASE Fail(r)
    BY <1>1, <1>4, <2>1, Failing
  <2>2. CASE GoTo(r, route[r] + 1, v)
    BY <1>1, <1>4, <2>2, Entering
  <2> QED
    BY <1>3, <2>1, <2>2
<1> QED
  BY <1>1, <1>2, <1>5, InPlace, MoveKeepsMesh

-----------------------------------------------------------------------------
\* The fan-out.  What it collects is one of the collections of its agents.
LEMMA CollectionOf ==
  ASSUME NEW agents, NEW v, NEW us, DOMAIN us = DOMAIN agents,
         \A k \in DOMAIN agents : us[k] \in P!Answers(agents[k], v)
  PROVE  P!Collection([k \in DOMAIN us |-> P!Part(agents[k], us[k])])
           \in P!Collections(agents, v)
<1> DEFINE Parts(k) == {P!Part(agents[k], u) : u \in P!Answers(agents[k], v)}
           c == [k \in DOMAIN us |-> P!Part(agents[k], us[k])]
<1>1. \A k \in DOMAIN agents : c[k] \in Parts(k)
  OBVIOUS
<1>2. c \in [DOMAIN agents -> UNION {Parts(k) : k \in DOMAIN agents}]
  <2>1. c = [k \in DOMAIN agents |-> P!Part(agents[k], us[k])]
    OBVIOUS
  <2>2. \A k \in DOMAIN agents :
          P!Part(agents[k], us[k]) \in UNION {Parts(j) : j \in DOMAIN agents}
    OBVIOUS
  <2> QED
    BY <2>1, <2>2
<1> HIDE DEF c
<1>3. P!Collection(c) \in P!Collections(agents, v)
  BY <1>1, <1>2 DEF P!Collections
<1> QED
  BY <1>3 DEF c

\* A fan-out that is over has every handle freed, and every answer.
LEMMA FanOver ==
  ASSUME MeshInv, NEW r \in Runner, FanOutReturns(r)
  PROVE  /\ \A t \in Invocation : Pending(t) => arg[t].runner # r
         /\ Collected(r) \in P!Collections(Parallel(r), fan_input[r])
<1>1. /\ step[r] = "fan_out" /\ pc[r] = "idle"
      /\ Len(results[r]) = Len(Parallel(r))
  BY DEF FanOutReturns
<1>2. /\ MeshTypes /\ FanInv(r) /\ Entered(r)
      /\ Calling(r) = 0 /\ pc[r] \notin Spawning
  BY <1>1 DEF MeshInv, Fans, StageInv, Calling, Spawning
<1>3. /\ Len(results[r]) \in Nat /\ Len(args[r]) \in Nat /\ Len(handles[r]) \in Nat
      /\ DOMAIN results[r] = 1 .. Len(results[r])
      /\ DOMAIN Parallel(r) = 1 .. Len(Parallel(r))
  BY <1>2, AgentsOf, ListLen DEF MeshTypes
<1>4. Len(args[r]) = Len(results[r]) /\ Len(handles[r]) = Len(results[r])
  BY <1>1, <1>2, <1>3 DEF FanInv
<1>5. \A t \in Invocation : Pending(t) => arg[t].runner # r
  <2> SUFFICES ASSUME NEW t \in Invocation, Pending(t), arg[t].runner = r
               PROVE  FALSE
    OBVIOUS
  <2>1. PICK k : k = arg[t].index
    OBVIOUS
  <2>2. Belongs(t, r, k)
    BY <2>1 DEF MeshInv, InvocationInv
  <2>3. k \in 1 .. Len(handles[r]) /\ handles[r][k] = t /\ k <= Len(results[r])
    BY <1>2, <1>3, <1>4, <2>2 DEF Belongs
  <2>4. task[t] = "freed"
    BY <1>2, <2>3 DEF FanInv
  <2> QED
    BY <2>4 DEF Pending
<1>6. Collected(r) \in P!Collections(Parallel(r), fan_input[r])
  <2>1. \A k \in DOMAIN Parallel(r) :
          results[r][k] \in P!Answers(Parallel(r)[k], fan_input[r])
    BY <1>1, <1>2, <1>3 DEF FanInv
  <2>2. DOMAIN results[r] = DOMAIN Parallel(r)
    BY <1>1, <1>3
  <2>3. PICK agents, us : agents = Parallel(r) /\ us = results[r]
    OBVIOUS
  <2>4. P!Collection([k \in DOMAIN us |-> P!Part(agents[k], us[k])])
          \in P!Collections(agents, fan_input[r])
    BY <2>1, <2>2, <2>3, CollectionOf
  <2> QED
    BY <2>3, <2>4 DEF Collected
<1> QED
  BY <1>5, <1>6

LEMMA ReturnKeepsMesh ==
  ASSUME MeshInv, PoolInv, NEW r \in Runner, FanOutReturns(r)
  PROVE  MeshInv'
<1>1. /\ step[r] = "fan_out" /\ pc[r] = "idle" /\ Leave(r)
      /\ UNCHANGED <<vars, mesh, wrapper>>
      /\ MeshTypes /\ StageInv(r) /\ Entered(r)
  BY DEF FanOutReturns, MeshInv, StageInv
<1>2. /\ args' = [args EXCEPT ![r] = << >>]
      /\ handles' = [handles EXCEPT ![r] = << >>]
      /\ results' = [results EXCEPT ![r] = << >>]
  BY <1>1 DEF Leave
<1>3. << >> \in Seq(Invocation)
  OBVIOUS
<1>4. /\ DOMAIN args' = Runner /\ DOMAIN results' = Runner
      /\ handles' \in [Runner -> Seq(Invocation)] /\ NoFan(r)'
      /\ \A s \in Runner \ {r} :
           args'[s] = args[s] /\ handles'[s] = handles[s] /\ results'[s] = results[s]
  BY <1>1, <1>2, <1>3 DEF MeshTypes, NoFan
<1>5. CASE Current(r).kind = "fan_out"
  <2>1. GoTo(r, route[r] + 1, Collected(r))
    BY <1>1, <1>5 DEF Leave
  <2>2. route[r] + 1 \in 1 .. Len(mesh[r].routes) + 1
    BY <1>1, RoutesOf DEF Entered
  <2>3. Turns(r) /\ StageInv(r)'
    BY <1>1, <2>1, <2>2, Entering
  <2> QED
    BY <1>1, <1>4, <2>3, FanOver, MoveKeepsMesh DEF Moves
<1>6. CASE Current(r).kind # "fan_out"
  <2>1. /\ fan_input' = [fan_input EXCEPT ![r] = Collected(r)]
        /\ step' = [step EXCEPT ![r] = "target"]
        /\ UNCHANGED <<route, current_input>>
    BY <1>1, <1>6 DEF Leave
  <2>2. /\ Turns(r) /\ fan_input'[r] = Collected(r) /\ step'[r] = "target"
    BY <1>1, <2>1 DEF Turns, MeshTypes
  <2>3. /\ Current(r).kind = "fan_in" /\ fan_input[r] = current_input[r]
        /\ Parallel(r) = Current(r).from
    BY <1>1, <1>6 DEF StageInv, Parallel
  <2>4. Entered(r)' /\ Current(r)' = Current(r)
    BY <1>1, <2>1 DEF Entered, Current
  <2>5. Collected(r) \in P!Collections(Current(r).from, current_input[r])
    BY <2>3, FanOver
  <2>6. P!Collections(Current(r)'.from, current_input'[r])
          = P!Collections(Current(r).from, current_input[r])
    BY <2>1, <2>4
  <2>7. StageInv(r)'
    BY <2>2, <2>3, <2>4, <2>5, <2>6 DEF StageInv
  <2> QED
    BY <1>1, <1>4, <2>2, <2>7, FanOver, MoveKeepsMesh DEF Moves
<1> QED
  BY <1>5, <1>6

\* A step of actor a inside a call of the pool that is about task t.
Acts(a, t) ==
  /\ Staying /\ UNCHANGED output
  /\ \A b \in Actor \ {a} : pc'[b] = pc[b] /\ target'[b] = target[b]
  /\ \A s \in Runner \ {a} :
       args'[s] = args[s] /\ handles'[s] = handles[s] /\ results'[s] = results[s]
  /\ \A u \in Task \ {t} : task'[u] = task[u] /\ arg'[u] = arg[u]
  /\ task[t] # "new" => arg'[t] = arg[t]

LEMMA OthersKept ==
  ASSUME MeshInv, CallInv, NEW a \in Actor, NEW t \in Task, Acts(a, t),
         task[t] = "new" \/ t \in Runner \/ arg[t].runner = a
  PROVE  /\ \A b \in Actor \ {a} : ActorInv(b)'
         /\ \A s \in Runner \ {a} :
              IF step'[s] = "fan_out" THEN FanInv(s)' ELSE NoFan(s)'
         /\ \A u \in Invocation \ {t} :
              (\A k : Belongs(u, a, k) => Belongs(u, a, k)') => InvocationInv(u)'
         /\ \A s \in Runner : StageInv(s)'
<1>1. /\ MeshTypes /\ Fans
      /\ UNCHANGED <<mesh, step, route, current_input, fan_input, output>>
      /\ \A u \in Invocation : task[u] # "new" => arg'[u] = arg[u]
  BY DEF MeshInv, Acts, Staying, Invocation
<1>2. \A b \in Actor \ {a} : ActorInv(b)'
  BY <1>1 DEF MeshInv, ActorInv, FansOut, Acts
<1>3. \A s \in Runner \ {a} : SameFan(s) /\ s \in Actor
  BY <1>1, PoolAssumption, MeshAssumption DEF SameFan, Acts
<1>4. ASSUME NEW s \in Runner \ {a}
      PROVE  IF step'[s] = "fan_out" THEN FanInv(s)' ELSE NoFan(s)'
  <2>1. IF step[s] = "fan_out" THEN FanInv(s) ELSE NoFan(s)
    BY <1>1 DEF Fans
  <2>2. ASSUME FanInv(s) PROVE FanInv(s)'
    <3>1. pc[s] \in Spawning => task[target[s]] = "allocated"
      BY <1>3 DEF CallInv
    <3>2. ASSUME NEW k \in 1 .. Len(handles[s])
          PROVE  task'[handles[s][k]] = task[handles[s][k]]
      <4>1. handles[s][k] \in Invocation /\ handles[s][k] \in Task
        BY <1>1 DEF MeshTypes, Invocation
      <4>2. /\ arg[handles[s][k]].runner = s /\ task[handles[s][k]] # "new"
        <5>1. /\ arg[handles[s][k]] = [runner |-> s, index |-> k]
              /\ task[handles[s][k]] \notin {"new", "allocated"}
          BY <2>2 DEF FanInv
        <5> QED
          BY <5>1
      <4>3. handles[s][k] # t
        BY <4>1, <4>2 DEF Invocation
      <4> QED
        BY <4>1, <4>3 DEF Acts
    <3>3. \A k \in 1 .. Len(handles[s]) :
            /\ task'[handles[s][k]] \notin {"new", "allocated"}
            /\ task'[handles[s][k]] = "freed" <=> task[handles[s][k]] = "freed"
      BY <2>2, <3>2 DEF FanInv
    <3> QED
      BY <1>1, <1>3, <2>2, <3>1, <3>3, FanKept
  <2> QED
    BY <1>1, <1>3, <2>1, <2>2 DEF NoFan, SameFan
<1>5. ASSUME NEW u \in Invocation \ {t}, \A k : Belongs(u, a, k) => Belongs(u, a, k)'
      PROVE  InvocationInv(u)'
  <2>1. /\ InvocationInv(u) /\ u \in Invocation
        /\ output'[u] = output[u] /\ task'[u] = task[u] /\ arg'[u] = arg[u]
    BY <1>1 DEF MeshInv, Invocation, Acts
  <2>2. PICK s, k : s = arg[u].runner /\ k = arg[u].index
    OBVIOUS
  <2>3. ASSUME Belongs(u, s, k)
        PROVE  /\ Belongs(u, s, k)' /\ Parallel(s)' = Parallel(s)
               /\ fan_input'[s] = fan_input[s]
    <3>1. CASE s = a
      <4>1. Belongs(u, s, k)'
        BY <1>5, <2>3, <3>1
      <4>2. Parallel(s)' = Parallel(s) /\ fan_input'[s] = fan_input[s]
        BY <1>1 DEF Parallel, Current
      <4> QED
        BY <4>1, <4>2
    <3>2. CASE s # a
      <4>1. SameFan(s)
        BY <1>3, <2>3, <3>2 DEF Belongs
      <4> QED
        BY <2>3, <4>1, BelongsKept
    <3> QED
      BY <3>1, <3>2
  <2> QED
    BY <2>1, <2>2, <2>3, InvocationKept DEF Pending
<1>6. \A s \in Runner : StageInv(s)'
  BY StagesKept DEF MeshInv, Acts
<1> QED
  BY <1>2, <1>4, <1>5, <1>6

\* The next handle is awaited, in order.
LEMMA AwaitKeepsMesh ==
  ASSUME MeshInv, PoolInv, NEW r \in Runner, FanOutAwaits(r)
  PROVE  MeshInv'
<1> DEFINE t == handles[r][Len(results[r]) + 1]
<1>1. /\ step[r] = "fan_out" /\ Len(results[r]) < Len(handles[r])
      /\ pc[r] = "idle" /\ Goto(r, "await", t)
      /\ UNCHANGED <<task, meshState, arg, output>>
  BY DEF FanOutAwaits, lcn_await_task, Idle, meshVars, wrapper
<1>2. /\ TypeOK /\ CallInv /\ MeshTypes /\ Fans /\ r \in Actor
      /\ \A a \in Actor : ActorInv(a)
  BY PoolAssumption, MeshAssumption DEF PoolInv, TypeInv, MeshInv
<1>3. /\ pc'[r] = "await" /\ target'[r] = t
      /\ \A b \in Actor \ {r} : pc'[b] = pc[b] /\ target'[b] = target[b]
  BY <1>1, <1>2 DEF Goto, TypeOK
<1> HIDE DEF t
<1>4. \A a \in Actor : ActorInv(a)'
  BY <1>1, <1>2, <1>3 DEF ActorInv, FansOut, Spawning, meshState
<1>5. FanInv(r)'
  <2>1. FanInv(r) /\ Calling(r) = 0 /\ Calling(r)' = 0 /\ Parallel(r)' = Parallel(r)
    BY <1>1, <1>2, <1>3 DEF Fans, Calling, Spawning, Parallel, Current, meshState
  <2> QED
    BY <1>1, <1>3, <2>1 DEF FanInv, meshState, Spawning, t
<1>6. ASSUME NEW s \in Runner \ {r}
      PROVE  IF step'[s] = "fan_out" THEN FanInv(s)' ELSE NoFan(s)'
  <2>1. SameFan(s) /\ s \in Actor
    BY <1>1, <1>3, PoolAssumption, MeshAssumption DEF SameFan, meshState
  <2>2. IF step[s] = "fan_out" THEN FanInv(s) ELSE NoFan(s)
    BY <1>2 DEF Fans
  <2>3. FanInv(s) => FanInv(s)'
    <3>1. pc[s] \in Spawning => task[target[s]] = "allocated"
      BY <1>2, <2>1 DEF CallInv
    <3> QED
      BY <1>1, <1>2, <2>1, <3>1, FanKept DEF FanInv
  <2> QED
    BY <2>1, <2>2, <2>3 DEF NoFan, SameFan
<1>7. ASSUME NEW u \in Invocation
      PROVE  InvocationInv(u)'
  <2>1. InvocationInv(u) /\ UNCHANGED <<task, meshState, arg, output>>
    BY <1>1 DEF MeshInv
  <2>2. PICK s, k : s = arg[u].runner /\ k = arg[u].index
    OBVIOUS
  <2>3. Belongs(u, s, k) => Belongs(u, s, k)'
    <3>1. s = r => pc[s] \notin Spawning
      BY <1>1 DEF Spawning
    <3> QED
      BY <1>1, <1>2, <1>3, <3>1, PoolAssumption, MeshAssumption DEF Belongs, meshState
  <2>4. Parallel(s)' = Parallel(s) /\ fan_input'[s] = fan_input[s]
    BY <1>1 DEF Parallel, Current, meshState
  <2> QED
    BY <2>1, <2>2, <2>3, <2>4, InvocationKept DEF Pending
<1> QED
  <2>1. MeshTypes'
    BY <1>1, <1>2 DEF MeshTypes, meshState
  <2>2. \A s \in Runner : StageInv(s)'
    BY <1>1, StagesKept DEF MeshInv, Staying, meshState
  <2>3. Fans'
    BY <1>1, <1>5, <1>6 DEF Fans, meshState
  <2> QED
    BY <1>4, <1>7, <2>1, <2>2, <2>3 DEF MeshInv

\* The awaited task is freed, and its output is the next result.
LEMMA CollectKeepsMesh ==
  ASSUME MeshInv, PoolInv, NEW r \in Runner, FanOutCollects(r)
  PROVE  MeshInv'
<1> DEFINE m == Len(results[r]) + 1
<1>1. PICK t : t = target[r]
  OBVIOUS
<1>2. /\ step[r] = "fan_out" /\ pc[r] = "await" /\ task[t] = "completed"
      /\ task' = [task EXCEPT ![t] = "freed"] /\ Goto(r, "idle", Nobody)
      /\ results' = [results EXCEPT ![r] = Append(@, output[t])]
      /\ UNCHANGED <<mesh, step, route, current_input, fan_input, args, handles, arg,
                     output>>
  BY <1>1 DEF FanOutCollects, AwaitReturns, wrapper
<1>3. /\ TypeOK /\ CallInv /\ MeshTypes /\ Fans /\ r \in Actor
  BY PoolAssumption, MeshAssumption DEF PoolInv, TypeInv, MeshInv
<1>4. /\ FanInv(r) /\ Calling(r) = 0 /\ IsList(results[r])
      /\ Len(results[r]) \in Nat /\ handles[r] \in Seq(Invocation)
  BY <1>2, <1>3, ListLen DEF Fans, Calling, Spawning, MeshTypes
<1>5. /\ m \in 1 .. Len(handles[r]) /\ t = handles[r][m]
      /\ arg[t] = [runner |-> r, index |-> m]
  <2>1. Len(results[r]) < Len(handles[r]) /\ t = handles[r][m]
    BY <1>1, <1>2, <1>4 DEF FanInv
  <2>2. m \in 1 .. Len(handles[r])
    BY <1>4, <2>1
  <2> QED
    BY <1>4, <2>1, <2>2 DEF FanInv
<1>6. t \in Invocation /\ t \in Task /\ arg[t].runner = r /\ arg[t].index = m
  BY <1>4, <1>5 DEF Invocation
<1>7. /\ pc'[r] = "idle" /\ task'[t] = "freed"
      /\ \A b \in Actor \ {r} : pc'[b] = pc[b] /\ target'[b] = target[b]
      /\ \A u \in Task \ {t} : task'[u] = task[u]
  BY <1>2, <1>3, <1>6 DEF Goto, TypeOK
<1>8. /\ DOMAIN results' = Runner /\ results'[r] = Append(results[r], output[t])
      /\ \A s \in Runner \ {r} : results'[s] = results[s]
  BY <1>2, <1>3 DEF MeshTypes
<1>9. Acts(r, t)
  BY <1>2, <1>7, <1>8 DEF Acts, Staying
<1>10. output[t] \in P!Answers(Parallel(r)[m], fan_input[r])
  BY <1>2, <1>6 DEF MeshInv, InvocationInv, Pending
<1>11. /\ IsList(results'[r]) /\ Len(results'[r]) = m
       /\ \A k \in 1 .. Len(results[r]) : results'[r][k] = results[r][k]
       /\ results'[r][m] = output[t]
  BY <1>4, <1>8, ListAppend
<1> HIDE DEF m
<1>12. FanInv(r)'
  <2>1. Calling(r)' = 0 /\ Parallel(r)' = Parallel(r) /\ pc'[r] \notin Spawning
    BY <1>2, <1>7 DEF Calling, Spawning, Parallel, Current
  <2>2. ASSUME NEW k \in 1 .. Len(handles[r])
        PROVE  /\ arg[handles[r][k]] = [runner |-> r, index |-> k]
               /\ task'[handles[r][k]] \notin {"new", "allocated"}
               /\ task'[handles[r][k]] = "freed" <=> k <= m
    <3>1. /\ handles[r][k] \in Task /\ arg[handles[r][k]] = [runner |-> r, index |-> k]
          /\ task[handles[r][k]] \notin {"new", "allocated"}
          /\ task[handles[r][k]] = "freed" <=> k <= Len(results[r])
      BY <1>4 DEF FanInv, Invocation
    <3>2. CASE k = m
      BY <1>5, <1>7, <3>1, <3>2
    <3>3. CASE k # m
      <4>1. arg[handles[r][k]].index = k
        BY <3>1
      <4>2. handles[r][k] # t
        BY <1>6, <3>3, <4>1
      <4>3. task'[handles[r][k]] = task[handles[r][k]]
        BY <1>7, <3>1, <4>2
      <4>4. k <= Len(results[r]) <=> k <= m
        BY <1>4, <3>3 DEF m
      <4> QED
        BY <3>1, <4>3, <4>4
    <3> QED
      BY <3>2, <3>3
  <2>3. \A k \in 1 .. m : results'[r][k] \in P!Answers(Parallel(r)[k], fan_input[r])
    <3>1. \A k \in 1 .. m : k \in 1 .. Len(results[r]) \/ k = m
      BY <1>4 DEF m
    <3> QED
      BY <1>4, <1>10, <1>11, <3>1 DEF FanInv
  <2>4. /\ UNCHANGED <<args, handles, arg, fan_input>>
        /\ Len(results'[r]) = m /\ m <= Len(handles[r])
        /\ Len(args[r]) = Len(handles[r]) + 0 /\ Len(args[r]) <= Len(Parallel(r))
        /\ pc'[r] \notin Spawning /\ pc'[r] # "await"
    BY <1>2, <1>4, <1>5, <1>7, <1>11, <2>1 DEF FanInv
  <2>5. \A k \in 1 .. Len(args[r]) :
          args[r][k] = [agent |-> Parallel(r)[k], input |-> fan_input[r]]
    BY <1>4 DEF FanInv
  <2> QED
    BY <2>1, <2>2, <2>3, <2>4, <2>5 DEF FanInv
<1>13. /\ \A b \in Actor \ {r} : ActorInv(b)'
       /\ \A s \in Runner \ {r} : IF step'[s] = "fan_out" THEN FanInv(s)' ELSE NoFan(s)'
       /\ \A u \in Invocation \ {t} : InvocationInv(u)'
       /\ \A s \in Runner : StageInv(s)'
  <2>1. \A u, k : Belongs(u, r, k) => Belongs(u, r, k)'
    BY <1>2 DEF Belongs, Spawning
  <2> QED
    BY <1>3, <1>6, <1>9, <2>1, OthersKept
<1>14. ActorInv(r)'
  BY <1>2, <1>7 DEF ActorInv, FansOut, Spawning
<1>15. InvocationInv(t)'
  <2>1. arg'[t] # NoArg
    BY <1>2, <1>6 DEF MeshInv, InvocationInv
  <2> QED
    BY <1>7, <2>1 DEF InvocationInv, Pending
<1>16. MeshTypes'
  BY <1>2, <1>3, <1>8, <1>11 DEF MeshTypes
<1> QED
  BY <1>2, <1>12, <1>13, <1>14, <1>15, <1>16 DEF MeshInv, Fans

\* The next agent is given its argument and a fresh handle.
LEMMA SpawnKeepsMesh ==
  ASSUME MeshInv, PoolInv, NEW r \in Runner, FanOutSpawn(r)
  PROVE  MeshInv'
<1> DEFINE m == Len(args[r]) + 1
           given == [agent |-> Parallel(r)[m], input |-> fan_input[r]]
<1>1. PICK t : t = Fresh
  OBVIOUS
<1>2. /\ step[r] = "fan_out" /\ Len(args[r]) < Len(Parallel(r))
      /\ args' = [args EXCEPT ![r] = Append(@, given)]
      /\ arg' = [arg EXCEPT ![t] = [runner |-> r, index |-> m]]
      /\ lcn_spawn_task(r, t)
      /\ UNCHANGED <<mesh, step, route, current_input, fan_input, handles, results, output>>
  BY <1>1 DEF FanOutSpawn
<1>3. t \in Invocation /\ t \in Task /\ task[t] = "new"
  BY <1>1, FreshInvocation DEF FanOutSpawn
<1>4. /\ TypeOK /\ CallInv /\ MeshTypes /\ Fans /\ r \in Actor
  BY PoolAssumption, MeshAssumption DEF PoolInv, TypeInv, MeshInv
<1>5. /\ pc[r] = "idle" /\ pc'[r] \in Spawning /\ target'[r] = t
      /\ task'[t] = "allocated"
      /\ \A b \in Actor \ {r} : pc'[b] = pc[b] /\ target'[b] = target[b]
      /\ \A u \in Task \ {t} : task'[u] = task[u]
  BY <1>2, <1>3, <1>4, SpawnBegins
<1>6. /\ FanInv(r) /\ Calling(r) = 0 /\ IsList(args[r])
      /\ Len(args[r]) \in Nat /\ handles[r] \in Seq(Invocation) /\ IsList(results[r])
  BY <1>2, <1>4, <1>5, ListLen DEF Fans, Calling, Spawning, MeshTypes
<1>7. /\ DOMAIN args' = Runner /\ args'[r] = Append(args[r], given)
      /\ \A s \in Runner \ {r} : args'[s] = args[s]
      /\ DOMAIN arg' = Task /\ arg'[t] = [runner |-> r, index |-> m]
      /\ \A u \in Task \ {t} : arg'[u] = arg[u]
  BY <1>2, <1>3, <1>4 DEF MeshTypes
<1>8. Acts(r, t)
  BY <1>2, <1>3, <1>5, <1>7 DEF Acts, Staying
<1> HIDE DEF given
<1>9. /\ IsList(args'[r]) /\ Len(args'[r]) = m
      /\ \A k \in 1 .. Len(args[r]) : args'[r][k] = args[r][k]
      /\ args'[r][m] = given
  BY <1>6, <1>7, ListAppend
<1>10. Len(handles[r]) = Len(args[r]) /\ m \in Nat
  BY <1>6 DEF FanInv
<1> HIDE DEF m
<1>11. FanInv(r)'
  <2>1. /\ Calling(r)' = 1 /\ Parallel(r)' = Parallel(r) /\ pc'[r] # "await"
    BY <1>2, <1>5 DEF Calling, Spawning, Parallel, Current
  <2>2. \A k \in 1 .. Len(handles[r]) :
          /\ arg'[handles[r][k]] = [runner |-> r, index |-> k]
          /\ task'[handles[r][k]] \notin {"new", "allocated"}
          /\ task'[handles[r][k]] = "freed" <=> k <= Len(results[r])
    <3> SUFFICES ASSUME NEW k \in 1 .. Len(handles[r])
                 PROVE  /\ arg'[handles[r][k]] = [runner |-> r, index |-> k]
                        /\ task'[handles[r][k]] \notin {"new", "allocated"}
                        /\ task'[handles[r][k]] = "freed" <=> k <= Len(results[r])
      OBVIOUS
    <3>1. /\ handles[r][k] \in Task /\ arg[handles[r][k]] = [runner |-> r, index |-> k]
          /\ task[handles[r][k]] \notin {"new", "allocated"}
          /\ task[handles[r][k]] = "freed" <=> k <= Len(results[r])
      BY <1>6 DEF FanInv, Invocation
    <3>2. handles[r][k] # t
      BY <1>3, <3>1
    <3> QED
      BY <1>5, <1>7, <3>1, <3>2
  <2>3. \A k \in 1 .. m :
          args'[r][k] = [agent |-> Parallel(r)[k], input |-> fan_input[r]]
    <3>1. \A k \in 1 .. m : k \in 1 .. Len(args[r]) \/ k = m
      BY <1>6 DEF m
    <3> QED
      BY <1>6, <1>9, <3>1 DEF FanInv, given
  <2>4. m = Len(handles[r]) + 1 /\ m <= Len(Parallel(r))
    <3>1. Len(Parallel(r)) \in Nat
      BY <1>2, <1>4, AgentsOf DEF MeshInv, StageInv
    <3> QED
      BY <1>2, <1>6, <1>10, <3>1 DEF m
  <2>5. /\ UNCHANGED <<handles, results, fan_input>> /\ Len(args'[r]) = m
        /\ Len(results[r]) <= Len(handles[r])
        /\ target'[r] \in Invocation /\ arg'[target'[r]] = [runner |-> r, index |-> m]
    BY <1>2, <1>3, <1>5, <1>6, <1>7, <1>9 DEF FanInv
  <2>6. \A k \in 1 .. Len(results[r]) :
          results[r][k] \in P!Answers(Parallel(r)[k], fan_input[r])
    BY <1>6 DEF FanInv
  <2> QED
    BY <2>1, <2>2, <2>3, <2>4, <2>5, <2>6 DEF FanInv
<1>12. /\ \A b \in Actor \ {r} : ActorInv(b)'
       /\ \A s \in Runner \ {r} : IF step'[s] = "fan_out" THEN FanInv(s)' ELSE NoFan(s)'
       /\ \A u \in Invocation \ {t} : InvocationInv(u)'
       /\ \A s \in Runner : StageInv(s)'
  <2>1. ASSUME NEW u, NEW k, Belongs(u, r, k)
        PROVE  Belongs(u, r, k)'
    <3>1. k \in 1 .. Len(args[r]) /\ k <= Len(handles[r]) /\ handles[r][k] = u
      BY <1>5, <2>1 DEF Belongs, Spawning
    <3>2. k \in 1 .. Len(args'[r])
      BY <1>6, <1>9, <3>1 DEF m
    <3> QED
      BY <1>2, <3>1, <3>2 DEF Belongs
  <2> QED
    BY <1>3, <1>4, <1>8, <2>1, OthersKept
<1>13. ActorInv(r)'
  BY <1>2, <1>5 DEF ActorInv, FansOut, Spawning
<1>14. InvocationInv(t)'
  <2>1. output'[t] = NotYet
    BY <1>2, <1>3 DEF MeshInv, InvocationInv
  <2>2. PICK k : k = m
    OBVIOUS
  <2>3. k \in 1 .. Len(args'[r]) /\ k = Len(args'[r])
    BY <1>6, <1>9, <2>2 DEF m
  <2>4. arg'[t].runner = r /\ arg'[t].index = k
    BY <1>7, <2>2
  <2>5. Belongs(t, r, k)'
    BY <1>2, <1>5, <2>3 DEF Belongs
  <2>6. task'[t] = "allocated" /\ Belongs(t, arg[t].runner, arg[t].index)'
    BY <1>5, <2>4, <2>5 DEF Belongs
  <2>7. arg'[t] # NoArg
    BY <1>4, <2>4, PoolAssumption DEF NoArg
  <2> QED
    BY <2>1, <2>6, <2>7 DEF InvocationInv
<1>15. MeshTypes'
  BY <1>2, <1>4, <1>7, <1>9 DEF MeshTypes
<1> QED
  BY <1>2, <1>11, <1>12, <1>13, <1>14, <1>15 DEF MeshInv, Fans

\* lcn_spawn_task has pushed its task and returns: to a fan-out, which keeps the
\* handle, or to whoever spawned a runner.
LEMMA PushKeepsMesh ==
  ASSUME MeshInv, PoolInv, NEW a \in Actor, SpawnReturns(a)
  PROVE  MeshInv'
<1>1. PICK t : t = target[a]
  OBVIOUS
<1>2. /\ pc[a] = "push" /\ task' = [task EXCEPT ![t] = "queued"]
      /\ Goto(a, "idle", Nobody)
      /\ UNCHANGED <<mesh, step, route, current_input, fan_input, args, results, arg,
                     output>>
  BY <1>1 DEF SpawnReturns, SpawnPush, wrapper
<1>3. /\ TypeOK /\ CallInv /\ MeshTypes /\ Fans /\ ActorInv(a)
  BY DEF PoolInv, TypeInv, MeshInv
<1>4. t \in Task /\ task[t] = "allocated"
  BY <1>1, <1>2, <1>3 DEF CallInv, Spawning
<1>5. /\ pc'[a] = "idle" /\ task'[t] = "queued"
      /\ \A b \in Actor \ {a} : pc'[b] = pc[b] /\ target'[b] = target[b]
      /\ \A u \in Task \ {t} : task'[u] = task[u]
  BY <1>2, <1>3, <1>4 DEF Goto, TypeOK
<1>6. ActorInv(a)'
  BY <1>2, <1>5 DEF ActorInv, FansOut, Spawning
<1>7. CASE ~FansOut(a)
  <2>1. UNCHANGED handles
    BY <1>7 DEF SpawnReturns, FansOut
  <2>2. t \in Runner /\ t \notin Invocation
    BY <1>1, <1>2, <1>3, <1>7 DEF ActorInv, Spawning, Invocation
  <2>3. Acts(a, t)
    BY <1>2, <1>5, <2>1 DEF Acts, Staying
  <2>4. \A u, k : ~Belongs(u, a, k)
    BY <1>7 DEF Belongs, FansOut
  <2>5. /\ \A b \in Actor \ {a} : ActorInv(b)'
        /\ \A s \in Runner \ {a} : IF step'[s] = "fan_out" THEN FanInv(s)' ELSE NoFan(s)'
        /\ \A u \in Invocation : InvocationInv(u)'
        /\ \A s \in Runner : StageInv(s)'
    BY <1>3, <1>4, <2>2, <2>3, <2>4, OthersKept
  <2>6. a \in Runner => step'[a] # "fan_out" /\ NoFan(a)'
    BY <1>2, <1>3, <1>7, <2>1 DEF Fans, FansOut, NoFan
  <2>7. MeshTypes'
    BY <1>2, <1>3, <2>1 DEF MeshTypes
  <2> QED
    BY <1>6, <2>5, <2>6, <2>7 DEF MeshInv, Fans
<1>8. CASE FansOut(a)
  <2>1. a \in Runner /\ step[a] = "fan_out" /\ handles' = [handles EXCEPT ![a] = Append(@, t)]
    BY <1>1, <1>8 DEF SpawnReturns, FansOut
  <2>2. /\ FanInv(a) /\ Calling(a) = 1
        /\ IsList(args[a]) /\ Len(args[a]) \in Nat
        /\ IsList(results[a]) /\ Len(results[a]) \in Nat
        /\ handles[a] \in Seq(Invocation) /\ Len(handles[a]) \in Nat
    BY <1>2, <1>3, <2>1, ListLen DEF Fans, Calling, Spawning, MeshTypes
  <2>3. PICK m : m = Len(args[a])
    OBVIOUS
  <2>4. /\ m = Len(handles[a]) + 1 /\ m \in Nat /\ Len(results[a]) < m
        /\ t \in Invocation /\ arg[t] = [runner |-> a, index |-> m]
        /\ Len(args[a]) <= Len(Parallel(a))
    BY <1>1, <1>2, <2>2, <2>3 DEF FanInv, Spawning
  <2>5. /\ handles' \in [Runner -> Seq(Invocation)]
        /\ handles'[a] = Append(handles[a], t)
        /\ \A s \in Runner \ {a} : handles'[s] = handles[s]
    BY <1>3, <2>1, <2>2, <2>4 DEF MeshTypes
  <2>6. /\ Len(handles'[a]) = m /\ handles'[a][m] = t
        /\ \A k \in 1 .. Len(handles[a]) : handles'[a][k] = handles[a][k]
    BY <2>2, <2>4, <2>5
  <2>7. Acts(a, t)
    BY <1>2, <1>5, <2>5 DEF Acts, Staying
  <2>8. \A k \in 1 .. m : k \in 1 .. Len(handles[a]) \/ k = m
    BY <2>2, <2>4
  <2>9. FanInv(a)'
    <3>1. Calling(a)' = 0 /\ Parallel(a)' = Parallel(a) /\ pc'[a] \notin Spawning
      BY <1>2, <1>5 DEF Calling, Spawning, Parallel, Current
    <3>2. ASSUME NEW k \in 1 .. m
          PROVE  /\ arg[handles'[a][k]] = [runner |-> a, index |-> k]
                 /\ task'[handles'[a][k]] \notin {"new", "allocated"}
                 /\ task'[handles'[a][k]] = "freed" <=> k <= Len(results[a])
      <4>1. CASE k = m
        BY <1>5, <2>2, <2>4, <2>6, <4>1
      <4>2. CASE k \in 1 .. Len(handles[a])
        <5>1. /\ handles[a][k] \in Task /\ handles'[a][k] = handles[a][k]
              /\ arg[handles[a][k]] = [runner |-> a, index |-> k]
              /\ task[handles[a][k]] \notin {"new", "allocated"}
              /\ task[handles[a][k]] = "freed" <=> k <= Len(results[a])
          BY <2>2, <2>6, <4>2 DEF FanInv, Invocation
        <5>2. handles[a][k] # t
          BY <1>4, <5>1
        <5> QED
          BY <1>5, <5>1, <5>2
      <4> QED
        BY <2>8, <4>1, <4>2
    <3>3. /\ UNCHANGED <<args, results, arg, fan_input>> /\ Len(handles'[a]) = m
          /\ Len(args[a]) = m + 0 /\ Len(results[a]) <= m
          /\ Len(args[a]) <= Len(Parallel(a)) /\ pc'[a] # "await"
      BY <1>2, <1>5, <2>2, <2>3, <2>4, <2>6
    <3>4. /\ \A k \in 1 .. Len(args[a]) :
               args[a][k] = [agent |-> Parallel(a)[k], input |-> fan_input[a]]
          /\ \A k \in 1 .. Len(results[a]) :
               results[a][k] \in P!Answers(Parallel(a)[k], fan_input[a])
      BY <2>2 DEF FanInv
    <3> QED
      BY <3>1, <3>2, <3>3, <3>4 DEF FanInv
  <2>10. /\ \A b \in Actor \ {a} : ActorInv(b)'
         /\ \A s \in Runner \ {a} : IF step'[s] = "fan_out" THEN FanInv(s)' ELSE NoFan(s)'
         /\ \A u \in Invocation \ {t} : InvocationInv(u)'
         /\ \A s \in Runner : StageInv(s)'
    <3>1. ASSUME NEW u \in Invocation \ {t}, NEW k, Belongs(u, a, k)
          PROVE  Belongs(u, a, k)'
      <4>1. k \in 1 .. Len(args[a]) /\ k <= Len(handles[a]) /\ handles[a][k] = u
        BY <1>1, <3>1 DEF Belongs
      <4>2. k \in 1 .. Len(handles[a]) /\ k <= Len(handles'[a])
        BY <2>2, <2>4, <2>6, <4>1
      <4> QED
        BY <1>2, <2>1, <2>6, <4>1, <4>2 DEF Belongs
    <3>2. arg[t].runner = a
      BY <2>4
    <3> QED
      BY <1>3, <1>4, <2>7, <3>1, <3>2, OthersKept
  <2>11. InvocationInv(t)'
    <3>1. output'[t] = NotYet
      BY <1>2, <1>4, <2>4 DEF MeshInv, InvocationInv
    <3>2. Belongs(t, a, m)'
      BY <1>2, <2>1, <2>3, <2>4, <2>6 DEF Belongs
    <3>3. Belongs(t, arg[t].runner, arg[t].index)'
      BY <1>2, <2>4, <3>2 DEF Belongs
    <3>4. arg'[t] # NoArg
      BY <1>2, <1>4, <2>4 DEF MeshInv, InvocationInv
    <3> QED
      BY <1>5, <3>1, <3>3, <3>4 DEF InvocationInv
  <2>12. MeshTypes'
    BY <1>2, <1>3, <2>5 DEF MeshTypes
  <2> QED
    BY <1>2, <1>6, <2>1, <2>9, <2>10, <2>11, <2>12 DEF MeshInv, Fans
<1> QED
  BY <1>7, <1>8

-----------------------------------------------------------------------------
\* The invariant, of the meshes and of the pool under them.

LEMMA InitMeshInv == MeshInit => MeshInv /\ PoolInv
<1> SUFFICES ASSUME MeshInit
             PROVE  MeshInv /\ PoolInv
  OBVIOUS
<1>1. PoolInv
  BY InitPoolInv DEF MeshInit
<1>2. /\ \A a \in Actor : pc[a] = "idle"
      /\ \A t \in Task : task[t] = "new" /\ output[t] = NotYet
      /\ \A r \in Runner : step[r] = "idle" /\ route[r] = 1
  BY DEF MeshInit, Init
<1>3. << >> \in Seq(Invocation) /\ IsList(<< >>)
  BY EmptyList
<1>4. MeshTypes
  BY <1>3 DEF MeshInit, MeshTypes
<1>5. \A a \in Actor : ActorInv(a)
  BY <1>2 DEF ActorInv, FansOut, Spawning
<1>6. Fans
  BY <1>2 DEF MeshInit, Fans, NoFan
<1>7. \A t \in Invocation : InvocationInv(t)
  <2>1. \A t \in Task : arg[t] = NoArg
    BY DEF MeshInit
  <2> QED
    BY <1>2, <2>1 DEF InvocationInv, Pending, Invocation
<1>8. \A r \in Runner : StageInv(r)
  BY <1>2 DEF StageInv
<1> QED
  BY <1>1, <1>4, <1>5, <1>6, <1>7, <1>8 DEF MeshInv

LEMMA MeshInvInductive ==
  ASSUME MeshInv, PoolInv, [MeshNext]_allVars
  PROVE  MeshInv' /\ PoolInv'
<1>1. CASE MeshNext
  <2>1. PoolInv'
    <3>1. SpawnerStops
      BY MeshAssumption DEF SpawnerStops
    <3>2. [Next]_vars
      BY <1>1, StepOfPool
    <3> QED
      BY <3>1, <3>2, PoolInvInductive
  <2>2. MeshInv'
    BY <1>1, WorkersKeepMesh, ExecuteKeepsMesh, SourceKeepsMesh, TargetKeepsMesh,
       SpawnKeepsMesh, AwaitKeepsMesh, CollectKeepsMesh, ReturnKeepsMesh,
       WrapperKeepsMesh, SpawnInitKeepsMesh, PushKeepsMesh, SpawnRunnerKeepsMesh
       DEF MeshNext, MeshProceeds, SpawnProceeds
  <2> QED
    BY <2>1, <2>2
<1>2. CASE UNCHANGED allVars
  <2>1. UNCHANGED vars /\ UNCHANGED <<meshState, arg, output>> /\ UNCHANGED <<task, pc, target>>
    BY <1>2 DEF allVars, vars, meshVars, wrapper
  <2>2. PoolInv'
    <3>1. SpawnerStops
      BY MeshAssumption DEF SpawnerStops
    <3> QED
      BY <2>1, <3>1, PoolInvInductive
  <2>3. TasksGoOn /\ FansStay /\ UNCHANGED meshVars
    BY <1>2, <2>1 DEF TasksGoOn, FansStay, SameFan, meshState, allVars
  <2>4. \A a \in Actor : ActorInv(a)'
    BY <2>1 DEF MeshInv, ActorInv, FansOut, meshState
  <2> QED
    BY <2>2, <2>3, <2>4, QuietStep DEF PoolInv, TypeInv
<1> QED
  BY <1>1, <1>2

\* The composition: whatever the meshes do, the pool under them behaves as module
\* ThreadPool says, so that what is proved of the pool holds of every program that
\* runs meshes on it (mesh.c:156-182 over threads.c).
THEOREM RunsOnThePool == MeshSpec => Spec
<1>1. MeshInit => MeshInv /\ PoolInv
  BY InitMeshInv
<1>2. MeshInv /\ PoolInv /\ [MeshNext]_allVars => (MeshInv /\ PoolInv)'
  BY MeshInvInductive
<1>3. MeshInit => Init
  BY DEF MeshInit
<1>4. MeshInv /\ [MeshNext]_allVars => [Next]_vars
  BY StepOfPool DEF allVars
<1> QED
  BY <1>1, <1>2, <1>3, <1>4, PTL DEF MeshSpec, Spec

\* Below a mesh too, no wakeup of a worker is lost, and no task of a fan-out is lost
\* from the queue or in two places (threads.c:77-146).
THEOREM PoolUnderMeshes == MeshSpec => [](EachTaskInOnePlace /\ WorkersWoken)
<1>1. SpawnerStops
  BY MeshAssumption DEF SpawnerStops
<1> QED
  BY <1>1, RunsOnThePool, OnePlace, Wakeups, PTL

\* mesh.c:182 over threads.c:231: since fewer tasks run meshes than there are workers,
\* the fan-outs can never occupy all workers with waiting: no ring of meshes waits
\* for tasks that nobody is left to run.
THEOREM AgentsHaveAWorker == MeshSpec => []WorkerForAgents
<1>1. MeshInit => MeshInv /\ PoolInv
  BY InitMeshInv
<1>2. MeshInv /\ PoolInv /\ [MeshNext]_allVars => (MeshInv /\ PoolInv)'
  BY MeshInvInductive
<1>3. Init => WokenInv
  <2>1. Init => queue \in Seq(Task \cup {Nobody}) /\ Sleeping = {}
    BY DEF Init, Sleeping
  <2> QED
    BY <2>1 DEF Init, WokenInv, QueueType, WorkersWoken
<1>4. WokenInv /\ [Next]_vars => WokenInv'
  BY WokenInvInductive
<1>5. PoolInv /\ WokenInv => WorkerForAgents
  <2> SUFFICES ASSUME PoolInv, WokenInv, queue # << >>
               PROVE  \E w \in Worker : \/ worker[w] = "awake"
                                        \/ (worker[w] = "running" /\ job[w] \in Invocation)
    BY DEF WorkerForAgents
  <2>1. init_mutex = Nobody
    <3>1. \A a \in Actor : pc[a] \notin Stopping
      BY MeshAssumption DEF PoolInv, TypeInv, CallInv
    <3> QED
      BY <3>1 DEF PoolInv, TypeInv, TypeOK, Stopping, Actor
  <2>2. initialized /\ ~shutdown
    BY <2>1 DEF PoolInv, TypeInv, TypeOK, LifeInv
  <2> DEFINE blocked == Runner \cap Task
  <2>3. IsFiniteSet(blocked) /\ Cardinality(blocked) < Cardinality(Worker)
    BY MeshAssumption, FS_Subset
  <2>4. PICK w \in Worker : \/ worker[w] = "awake"
                            \/ (worker[w] = "running" /\ job[w] \notin blocked)
    BY <2>2, <2>3, AWorkerOutside
  <2>5. worker[w] = "running" => job[w] \in Task
    BY DEF PoolInv, JobInv, TypeInv, TypeOK
  <2> QED
    BY <2>4, <2>5 DEF Invocation
<1> QED
  BY <1>1, <1>2, <1>3, <1>4, <1>5, RunsOnThePool, PTL DEF MeshSpec, Spec

\* The types, and what relates the arrays of lcn_mesh_fan_out to each other and to
\* its runner (mesh.c:142-228): arguments for what has begun to be spawned, handles
\* for what is, results for what has been awaited, and none outside a fan-out.
THEOREM Typing == MeshSpec => []MeshTypeOK
<1>1. MeshInit => MeshInv /\ PoolInv
  BY InitMeshInv
<1>2. MeshInv /\ PoolInv /\ [MeshNext]_allVars => (MeshInv /\ PoolInv)'
  BY MeshInvInductive
<1>3. MeshInv => MeshTypeOK
  <2> SUFFICES ASSUME MeshInv
               PROVE  MeshTypeOK
    OBVIOUS
  <2>1. ASSUME NEW r \in Runner
        PROVE  route[r] \in 1 .. Len(mesh[r].routes) + 1
    <3>1. StageInv(r) /\ Len(mesh[r].routes) \in Nat
      BY RoutesOf DEF MeshInv
    <3>2. step[r] \in {"idle", "source", "fan_out", "target", "ok", "error"}
      BY DEF MeshInv, MeshTypes
    <3> QED
      BY <3>1, <3>2 DEF StageInv, Entered
  <2>2. ASSUME NEW r \in Runner
        PROVE  /\ Len(results[r]) <= Len(handles[r])
               /\ Len(handles[r]) <= Len(args[r])
               /\ Len(args[r]) <= Len(handles[r]) + (IF pc[r] = "idle" THEN 0 ELSE 1)
               /\ step[r] # "fan_out" => args[r] = << >>
    <3>1. CASE step[r] = "fan_out"
      <4>1. FanInv(r) /\ IsList(args[r]) /\ handles[r] \in Seq(Invocation)
        BY <3>1 DEF MeshInv, Fans, MeshTypes
      <4>2. /\ Len(args[r]) \in Nat /\ Len(handles[r]) \in Nat
            /\ Len(results[r]) <= Len(handles[r])
            /\ Len(args[r]) = Len(handles[r]) + Calling(r)
        BY <4>1, ListLen DEF FanInv
      <4>3. CASE pc[r] \in Spawning
        BY <3>1, <4>2, <4>3 DEF Calling, Spawning
      <4>4. CASE pc[r] \notin Spawning
        BY <3>1, <4>2, <4>4 DEF Calling
      <4> QED
        BY <4>3, <4>4
    <3>2. CASE step[r] # "fan_out"
      <4>1. NoFan(r)
        BY <3>2 DEF MeshInv, Fans
      <4> QED
        BY <4>1 DEF NoFan
    <3> QED
      BY <3>1, <3>2
  <2> QED
    BY <2>1, <2>2 DEF MeshInv, MeshTypes, InvocationInv, MeshTypeOK
<1> QED
  BY <1>1, <1>2, <1>3, PTL DEF MeshSpec

\* mesh.c:226 frees the arguments of a fan-out only when none of its tasks can still
\* read them, with fail_fast as without.
THEOREM ArgumentsOutlive == MeshSpec => []ArgsOutliveTasks
<1>1. MeshInit => MeshInv /\ PoolInv
  BY InitMeshInv
<1>2. MeshInv /\ PoolInv /\ [MeshNext]_allVars => (MeshInv /\ PoolInv)'
  BY MeshInvInductive
<1>3. MeshInv => ArgsOutliveTasks
  <2> SUFFICES ASSUME MeshInv, NEW t \in Invocation,
                      task[t] \in {"allocated", "queued", "running"}
               PROVE  arg[t].index \in DOMAIN args[arg[t].runner]
    BY DEF ArgsOutliveTasks
  <2>1. Belongs(t, arg[t].runner, arg[t].index)
    BY DEF MeshInv, InvocationInv, Pending
  <2>2. IsList(args[arg[t].runner])
    BY <2>1 DEF Belongs, MeshInv, MeshTypes
  <2> QED
    BY <2>1, <2>2, ListLen DEF Belongs
<1> QED
  BY <1>1, <1>2, <1>3, PTL DEF MeshSpec

-----------------------------------------------------------------------------
\* Pipeline is implemented: lcn_mesh_execute is Start, the step that ends a route
\* or fails is Stage, and every other one changes nothing of what can be seen.

Seen(s) == IF s \in {"idle", "ok", "error"} THEN s ELSE "running"

\* What the abstract variables are when runner r moves.
LEMMA SeenOf ==
  ASSUME NEW r \in Runner, Turns(r), mesh' = mesh
  PROVE  /\ [s \in Runner |-> Seen(step'[s])]
              = [[s \in Runner |-> Seen(step[s])] EXCEPT ![r] = Seen(step'[r])]
         /\ [s \in Runner |-> mesh'[s].routes] = [s \in Runner |-> mesh[s].routes]
  BY DEF Turns

LEMMA StageTaken ==
  ASSUME MeshTypes, NEW r \in Runner, Turns(r), mesh' = mesh, Entered(r),
         step[r] \in {"source", "fan_out", "target"},
         NEW v \in P!Outcomes(Current(r), current_input[r]),
         IF v = P!Failed
         THEN step'[r] = "error" /\ UNCHANGED <<route, current_input>>
         ELSE /\ route'[r] = route[r] + 1 /\ current_input'[r] = v
              /\ step'[r] = "ok" <=> route[r] + 1 = Len(mesh[r].routes) + 1
              /\ step'[r] \in {"ok", "fan_out", "source"}
  PROVE  P!Stage(r)
<1> DEFINE routes == [s \in Runner |-> mesh[s].routes]
           status == [s \in Runner |-> Seen(step[s])]
<1>1. /\ status[r] = "running" /\ routes[r] = mesh[r].routes
      /\ routes[r][route[r]] = Current(r)
      /\ route[r] \in Nat /\ Len(mesh[r].routes) \in Nat
  BY RoutesOf DEF Seen, Current, Entered
<1>2. /\ [s \in Runner |-> Seen(step'[s])] = [status EXCEPT ![r] = Seen(step'[r])]
      /\ [s \in Runner |-> mesh'[s].routes] = routes
  BY SeenOf
<1>3. IF v = P!Failed
      THEN /\ [s \in Runner |-> Seen(step'[s])] = [status EXCEPT ![r] = "error"]
           /\ UNCHANGED <<route, current_input>>
      ELSE /\ current_input' = [current_input EXCEPT ![r] = v]
           /\ route' = [route EXCEPT ![r] = @ + 1]
           /\ [s \in Runner |-> Seen(step'[s])]
                = IF route[r] = Len(routes[r]) THEN [status EXCEPT ![r] = "ok"] ELSE status
  <2>1. CASE v = P!Failed
    BY <1>2, <2>1 DEF Seen
  <2>2. CASE v # P!Failed
    <3>1. current_input' = [current_input EXCEPT ![r] = v]
      BY <2>2 DEF Turns, MeshTypes
    <3>2. route' = [route EXCEPT ![r] = @ + 1]
      BY <2>2 DEF Turns, MeshTypes
    <3>3. CASE route[r] = Len(mesh[r].routes)
      BY <1>1, <1>2, <2>2, <3>1, <3>2, <3>3 DEF Seen
    <3>4. CASE route[r] # Len(mesh[r].routes)
      <4>1. step'[r] # "ok" /\ Seen(step'[r]) = "running"
        BY <1>1, <2>2, <3>4 DEF Seen
      <4>2. [status EXCEPT ![r] = "running"] = status
        BY <1>1
      <4> QED
        BY <1>1, <1>2, <2>2, <3>1, <3>2, <3>4, <4>1, <4>2
    <3> QED
      BY <3>3, <3>4
  <2> QED
    BY <2>1, <2>2
<1>4. v \in P!Outcomes(routes[r][route[r]], current_input[r])
  BY <1>1
<1> QED
  BY <1>1, <1>2, <1>3, <1>4 DEF P!Stage, Seen

LEMMA ExecuteStarts ==
  ASSUME MeshInv, NEW r \in Runner, lcn_mesh_execute(r)
  PROVE  P!Start(r)
<1> DEFINE routes == [s \in Runner |-> mesh[s].routes]
           status == [s \in Runner |-> Seen(step[s])]
<1>1. /\ step[r] = "idle" /\ GoTo(r, 1, current_input[r]) /\ mesh' = mesh
      /\ MeshTypes /\ StageInv(r)
  BY DEF lcn_mesh_execute, MeshInv
<1>2. 1 \in 1 .. Len(mesh[r].routes) + 1 /\ Len(mesh[r].routes) \in Nat
  BY <1>1, RoutesOf
<1>3. /\ Turns(r) /\ step'[r] \in {"ok", "fan_out", "source"}
      /\ step'[r] = "ok" <=> 1 = Len(mesh[r].routes) + 1
  BY <1>1, <1>2, Entering
<1>4. UNCHANGED <<route, current_input>>
  BY <1>1 DEF GoTo, MeshTypes, StageInv
<1>5. mesh[r].routes = << >> <=> 1 = Len(mesh[r].routes) + 1
  <2>1. mesh[r].routes \in Seq(Range(mesh[r].routes))
    BY <1>1, RoutesOf DEF IsList
  <2> QED
    BY <1>2, <2>1
<1>6. Seen(step'[r]) = IF routes[r] = << >> THEN "ok" ELSE "running"
  BY <1>3, <1>5 DEF Seen
<1>7. /\ [s \in Runner |-> Seen(step'[s])]
           = [status EXCEPT ![r] = IF routes[r] = << >> THEN "ok" ELSE "running"]
      /\ [s \in Runner |-> mesh'[s].routes] = routes
  BY <1>1, <1>3, <1>6, SeenOf
<1>8. status[r] = "idle"
  BY <1>1 DEF Seen
<1> QED
  BY <1>4, <1>7, <1>8 DEF P!Start, Seen

\* A step that moves no runner, or only from one part of a route to the next.
LEMMA NothingSeen ==
  ASSUME UNCHANGED <<mesh, route, current_input>>,
         \A r \in Runner : Seen(step'[r]) = Seen(step[r])
  PROVE  UNCHANGED P!vars
<1>1. [s \in Runner |-> Seen(step'[s])] = [s \in Runner |-> Seen(step[s])]
  OBVIOUS
<1> QED
  BY <1>1 DEF P!vars, Seen

LEMMA SourceSeen ==
  ASSUME MeshInv, NEW r \in Runner, RunSource(r)
  PROVE  P!Stage(r) \/ UNCHANGED P!vars
<1>1. /\ step[r] = "source" /\ mesh' = mesh /\ MeshTypes /\ Entered(r)
      /\ Current(r).kind \in {"single", "fan_out"}
  BY DEF RunSource, MeshInv, StageInv
<1>2. PICK v \in P!Answers(Current(r).from[1], current_input[r]) :
        IF v = P!Failed THEN Fail(r)
        ELSE /\ step' = [step EXCEPT ![r] =
                  IF Current(r).kind = "fan_out" THEN "fan_out" ELSE "target"]
             /\ UNCHANGED <<route, current_input>>
  BY DEF RunSource
<1>3. CASE v = P!Failed
  <2>1. v \in P!Outcomes(Current(r), current_input[r])
    BY <1>1, <1>2, <1>3 DEF P!Outcomes, P!Through
  <2>2. Turns(r) /\ step'[r] = "error" /\ UNCHANGED <<route, current_input>>
    BY <1>1, <1>2, <1>3, Failing
  <2> QED
    BY <1>1, <1>3, <2>1, <2>2, StageTaken
<1>4. CASE v # P!Failed
  <2>1. \A s \in Runner : Seen(step'[s]) = Seen(step[s])
    BY <1>1, <1>2, <1>4 DEF Seen, MeshTypes
  <2> QED
    BY <1>1, <1>2, <1>4, <2>1, NothingSeen
<1> QED
  BY <1>3, <1>4

LEMMA CollectionNotFailed ==
  ASSUME NEW agents, NEW v, NEW c \in P!Collections(agents, v)
  PROVE  c # P!Failed
<1>1. PICK parts : c = <<"collected", parts>>
  BY DEF P!Collections, P!Collection
<1>2. Len(c) = 2 /\ Len(<< >>) = 0
  BY <1>1
<1> QED
  BY <1>2 DEF P!Failed

LEMMA TargetSeen ==
  ASSUME MeshInv, NEW r \in Runner, RunTarget(r)
  PROVE  P!Stage(r)
<1>1. /\ step[r] = "target" /\ mesh' = mesh /\ MeshTypes /\ Entered(r) /\ StageInv(r)
  BY DEF RunTarget, MeshInv, StageInv
<1>2. PICK v \in P!Answers(Current(r).to[1], fan_input[r]) :
        IF v = P!Failed THEN Fail(r) ELSE GoTo(r, route[r] + 1, v)
  BY DEF RunTarget
<1>3. v \in P!Outcomes(Current(r), current_input[r])
  <2>1. CASE Current(r).kind = "single" /\ SourceAnswered(r)
    BY <1>2, <2>1 DEF P!Outcomes, P!Through, SourceAnswered
  <2>2. CASE /\ Current(r).kind = "fan_in"
             /\ fan_input[r] \in P!Collections(Current(r).from, current_input[r])
    <3>1. fan_input[r] # P!Failed
      BY <2>2, CollectionNotFailed
    <3> QED
      BY <1>2, <2>2, <3>1 DEF P!Outcomes, P!Through
  <2> QED
    BY <1>1, <2>1, <2>2 DEF StageInv
<1>4. route[r] + 1 \in 1 .. Len(mesh[r].routes) + 1
  BY <1>1, RoutesOf DEF Entered
<1>5. CASE v = P!Failed
  BY <1>1, <1>2, <1>3, <1>5, Failing, StageTaken
<1>6. CASE v # P!Failed
  BY <1>1, <1>2, <1>3, <1>4, <1>6, Entering, StageTaken
<1> QED
  BY <1>5, <1>6

LEMMA ReturnSeen ==
  ASSUME MeshInv, NEW r \in Runner, FanOutReturns(r)
  PROVE  P!Stage(r) \/ UNCHANGED P!vars
<1>1. /\ step[r] = "fan_out" /\ mesh' = mesh /\ MeshTypes /\ Entered(r) /\ StageInv(r)
      /\ Leave(r)
  BY DEF FanOutReturns, MeshInv, StageInv
<1>2. PICK v : v = Collected(r)
  OBVIOUS
<1>3. CASE Current(r).kind = "fan_out"
  <2>1. GoTo(r, route[r] + 1, v) /\ Parallel(r) = Current(r).to /\ SourceAnswered(r)
    BY <1>1, <1>2, <1>3 DEF Leave, Parallel, StageInv
  <2>2. v \in P!Collections(Current(r).to, fan_input[r]) /\ v # P!Failed
    BY <1>2, <2>1, FanOver, CollectionNotFailed
  <2>3. v \in P!Outcomes(Current(r), current_input[r])
    BY <1>3, <2>1, <2>2 DEF P!Outcomes, SourceAnswered
  <2>4. route[r] + 1 \in 1 .. Len(mesh[r].routes) + 1
    BY <1>1, RoutesOf DEF Entered
  <2> QED
    BY <1>1, <2>1, <2>2, <2>3, <2>4, Entering, StageTaken
<1>4. CASE Current(r).kind # "fan_out"
  <2>1. step' = [step EXCEPT ![r] = "target"] /\ UNCHANGED <<route, current_input>>
    BY <1>1, <1>4 DEF Leave
  <2>2. \A s \in Runner : Seen(step'[s]) = Seen(step[s])
    BY <1>1, <2>1 DEF Seen, MeshTypes
  <2> QED
    BY <1>1, <2>1, <2>2, NothingSeen
<1> QED
  BY <1>3, <1>4

LEMMA StepSeen ==
  ASSUME MeshInv, [MeshNext]_allVars
  PROVE  [P!Next]_(P!vars)
<1>1. ASSUME UNCHANGED meshState
      PROVE  UNCHANGED P!vars
  BY <1>1, NothingSeen DEF meshState
<1>2. CASE MeshNext
  <2>1. ASSUME NEW r \in Runner, lcn_mesh_execute(r) \/ MeshProceeds(r)
        PROVE  P!Start(r) \/ P!Stage(r) \/ UNCHANGED P!vars
    <3>1. CASE FanOutSpawn(r) \/ FanOutCollects(r)
      <4>1. UNCHANGED <<mesh, step, route, current_input>>
        BY <3>1 DEF FanOutSpawn, FanOutCollects
      <4> QED
        BY <4>1, NothingSeen
    <3>2. CASE FanOutAwaits(r)
      BY <1>1, <3>2 DEF FanOutAwaits, meshVars
    <3> QED
      BY <2>1, <3>1, <3>2, ExecuteStarts, SourceSeen, TargetSeen, ReturnSeen DEF MeshProceeds
  <2>2. ASSUME NEW a \in Actor, SpawnProceeds(a)
        PROVE  UNCHANGED P!vars
    <3>1. UNCHANGED <<mesh, step, route, current_input>>
      BY <2>2 DEF SpawnProceeds, SpawnContinues, SpawnReturns, meshVars, meshState
    <3> QED
      BY <3>1, NothingSeen
  <2>3. ASSUME \/ \E w \in Worker : MeshWorker(w) \/ (SpuriousWakeup(w) /\ UNCHANGED meshVars)
               \/ \E t \in Invocation : mesh_task_wrapper(t)
               \/ \E a \in Main, t \in Runner \cap Task : SpawnRunner(a, t)
        PROVE  UNCHANGED P!vars
    BY <1>1, <2>3 DEF MeshWorker, mesh_task_wrapper, SpawnRunner, meshVars
  <2> QED
    BY <1>2, <2>1, <2>2, <2>3 DEF MeshNext, P!Next
<1>3. CASE UNCHANGED allVars
  BY <1>1, <1>3 DEF allVars, meshVars
<1> QED
  BY <1>2, <1>3

\* The refinement: with every number of workers, and with fail_fast as without, a
\* mesh runs its routes one after another, each a single step from the text it is
\* given to one that its agents may answer (mesh.c:295-409).
THEOREM ImplementsPipeline == MeshSpec => RunsRoutesInOrder
<1>1. MeshInit => MeshInv /\ PoolInv
  BY InitMeshInv
<1>2. MeshInv /\ PoolInv /\ [MeshNext]_allVars => (MeshInv /\ PoolInv)'
  BY MeshInvInductive
<1>3. MeshInit => P!InitWith({Registered(m.routes) : m \in UNION Range(Declared)})
  <2> SUFFICES ASSUME MeshInit
               PROVE  P!InitWith({Registered(m.routes) : m \in UNION Range(Declared)})
    OBVIOUS
  <2>1. mesh \in [Runner -> {Built(d) : d \in UNION Range(Declared)}]
    BY DEF MeshInit
  <2>2. \A r \in Runner : mesh[r].routes \in {Registered(m.routes) : m \in UNION Range(Declared)}
    BY <2>1 DEF Built
  <2>3. [r \in Runner |-> mesh[r].routes]
          \in [Runner -> {Registered(m.routes) : m \in UNION Range(Declared)}]
    BY <2>2
  <2>4. [r \in Runner |-> Seen(step[r])] = [r \in Runner |-> "idle"]
    BY DEF MeshInit, Seen
  <2> QED
    BY <2>3, <2>4 DEF MeshInit, P!InitWith, Seen
<1>4. MeshInv /\ [MeshNext]_allVars => [P!Next]_(P!vars)
  BY StepSeen
<1> QED
  BY <1>1, <1>2, <1>3, <1>4, PTL DEF MeshSpec, RunsRoutesInOrder
===============================================================================
