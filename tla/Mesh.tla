-------------------------------- MODULE Mesh ----------------------------------
(***************************************************************************)
(* src/runtime/mesh.c over src/runtime/threads.c: the execution of agent   *)
(* meshes, whose fan-outs run on the thread pool.  The pool is module      *)
(* ThreadPool, action by action; what is added here is what its actors do  *)
(* between their calls of it: the runners execute a mesh, the other tasks  *)
(* are the invocations of agents that a fan-out spawns.                    *)
(*                                                                         *)
(* A runner may itself be a task: spawn { P.run(x) }.                      *)
(***************************************************************************)
EXTENDS ThreadPool

CONSTANTS
  Runner,       \* the actors that run a mesh
  Declared,     \* the meshes each may run: their routes and fail_fast
  Question,     \* the text that a mesh is given
  Flaky,        \* the agents that may fail
  MaxRoutes,    \* LCN_MESH_MAX_ROUTES
  MaxTargets    \* LCN_MESH_MAX_TARGETS

Invocation == Task \ Runner

\* A fan-out waits in its actor.  While fewer tasks run meshes than there are
\* workers, one worker is always left for the agents.  Nobody shuts the pool down.
ASSUME MeshAssumption ==
  /\ Runner \subseteq Spawner \cap Awaiter
  /\ IsFiniteSet(Task)
  /\ Cardinality(Runner \cap Task) < Cardinality(Worker)
  /\ Stopper = {}

VARIABLES
  mesh,         \* the mesh each runner has built: its routes and fail_fast
  step,         \* where each runner is in lcn_mesh_execute
  route,        \* the index of the route it is at
  current_input,
  fan_input,    \* what the agents of the route are given, and then the target
  args,         \* the arguments of the fan-out under way, << >> once freed
  handles,      \* the handles it has been returned
  results,      \* the results it has collected
  arg,          \* the argument that each invocation was spawned with
  output        \* what each invocation has answered, or NotYet

meshState == <<mesh, step, route, current_input, fan_input, args, handles, results>>
wrapper == <<arg, output>>
meshVars == <<meshState, wrapper>>
allVars == <<vars, meshVars>>

NotYet == <<Nobody>>
NoArg == [runner |-> Nobody, index |-> 0]

P == INSTANCE Pipeline WITH
       mesh <- [r \in Runner |-> mesh[r].routes], route <- route,
       value <- current_input,
       status <- [r \in Runner |-> IF step[r] \in {"idle", "ok", "error"}
                                   THEN step[r] ELSE "running"]

\* A route as it is declared: one agent, or a list that may be empty, on either
\* side.  A pseudo-node in a list has no function for its task to call.
IsList(s) == s \in Seq(Range(s))

IsRoute(c) ==
  /\ c.kind \in {"single", "fan_out", "fan_in", "both"}
  /\ IsList(c.from) /\ IsList(c.to)
  /\ c.kind = "fan_out" => Range(c.to) \cap P!Pseudo = {}
  /\ c.kind = "fan_in" => Range(c.from) \cap P!Pseudo = {}

ASSUME RoutesAssumption ==
  /\ MaxRoutes \in Nat /\ MaxTargets \in Nat
  /\ \A d \in UNION Range(Declared) :
       IsList(d.routes) /\ \A k \in DOMAIN d.routes : IsRoute(d.routes[k])

\* The routes that the generated code and lcn_mesh_add_route_* register: a list
\* on both sides has no case, too wide a list is refused, and so is every route
\* beyond the limit.
Registered(routes) ==
  LET kept == {k \in DOMAIN routes : /\ routes[k].kind # "both"
                                     /\ Len(routes[k].from) <= MaxTargets
                                     /\ Len(routes[k].to) <= MaxTargets}
      Rank(k) == Cardinality({j \in kept : j <= k})
      size == Cardinality(kept)
  IN [i \in 1 .. (IF size < MaxRoutes THEN size ELSE MaxRoutes) |->
        routes[CHOOSE k \in kept : Rank(k) = i]]

Built(m) == [routes |-> Registered(m.routes), fail_fast |-> m.fail_fast]

MeshInit ==
  /\ Init
  /\ mesh \in {f \in [Runner -> {Built(m) : m \in UNION Range(Declared)}] :
               \A r \in Runner : \E m \in Declared[r] : f[r] = Built(m)}
  /\ step = [r \in Runner |-> "idle"]
  /\ route = [r \in Runner |-> 1]
  /\ current_input = [r \in Runner |-> <<Question>>]
  /\ fan_input = [r \in Runner |-> P!Failed]
  /\ args = [r \in Runner |-> << >>]
  /\ handles = [r \in Runner |-> << >>]
  /\ results = [r \in Runner |-> << >>]
  /\ arg = [t \in Task |-> NoArg]
  /\ output = [t \in Task |-> NotYet]

Current(r) == mesh[r].routes[route[r]]

\* The agents that the route of r runs in parallel.
Parallel(r) == IF Current(r).kind = "fan_in" THEN Current(r).from
                                             ELSE Current(r).to

-----------------------------------------------------------------------------
\* lcn_mesh_execute: the loop over the routes.  GoTo(r, i, v) enters route i
\* with current_input v, or leaves the loop after the last one.
GoTo(r, i, v) ==
  /\ route' = [route EXCEPT ![r] = i]
  /\ current_input' = [current_input EXCEPT ![r] = v]
  /\ IF i > Len(mesh[r].routes)
     THEN step' = [step EXCEPT ![r] = "ok"] /\ UNCHANGED fan_input
     ELSE IF mesh[r].routes[i].kind = "fan_in"
          THEN /\ step' = [step EXCEPT ![r] = "fan_out"]
               /\ fan_input' = [fan_input EXCEPT ![r] = v]
          ELSE step' = [step EXCEPT ![r] = "source"] /\ UNCHANGED fan_input

Fail(r) ==
  /\ step' = [step EXCEPT ![r] = "error"]
  /\ UNCHANGED <<route, current_input, fan_input>>

lcn_mesh_execute(r) ==
  /\ step[r] = "idle" /\ Idle(r)
  /\ GoTo(r, 1, current_input[r])
  /\ UNCHANGED <<vars, mesh, args, handles, results, wrapper>>

\* The source agent of a single route or a fan-out, called in place.
RunSource(r) ==
  /\ step[r] = "source"
  /\ \E v \in P!Answers(Current(r).from[1], current_input[r]) :
       IF v = P!Failed THEN Fail(r)
       ELSE /\ fan_input' = [fan_input EXCEPT ![r] = v]
            /\ step' = [step EXCEPT ![r] =
                 IF Current(r).kind = "fan_out" THEN "fan_out" ELSE "target"]
            /\ UNCHANGED <<route, current_input>>
  /\ UNCHANGED <<vars, mesh, args, handles, results, wrapper>>

\* The target agent of a single route or a fan-in.
RunTarget(r) ==
  /\ step[r] = "target"
  /\ \E v \in P!Answers(Current(r).to[1], fan_input[r]) :
       IF v = P!Failed THEN Fail(r) ELSE GoTo(r, route[r] + 1, v)
  /\ UNCHANGED <<vars, mesh, args, handles, results, wrapper>>

-----------------------------------------------------------------------------
\* lcn_mesh_fan_out: the tasks are spawned one by one, each with the argument
\* of its agent.  Which fresh handle malloc returns does not matter.  The bound
\* on the handles is the number of invocations.
Unspawned == {t \in Invocation : task[t] = "new"}

Fresh == CHOOSE t \in Unspawned : TRUE

\* Variant: every task is given the address of the first argument.
SpawnWithFirstArg(r) ==
  /\ step[r] = "fan_out" /\ Len(args[r]) < Len(Parallel(r)) /\ Unspawned # {}
  /\ LET k == Len(args[r]) + 1 IN
     /\ args' = [args EXCEPT ![r] = Append(@, [agent |-> Parallel(r)[k],
                                               input |-> fan_input[r]])]
     /\ arg' = [arg EXCEPT ![Fresh] = [runner |-> r, index |-> 1]]
  /\ lcn_spawn_task(r, Fresh)
  /\ UNCHANGED <<mesh, step, route, current_input, fan_input, handles, results,
                 output>>

FanOutSpawn(r) ==
  /\ step[r] = "fan_out" /\ Len(args[r]) < Len(Parallel(r)) /\ Unspawned # {}
  /\ LET k == Len(args[r]) + 1 IN
     /\ args' = [args EXCEPT ![r] = Append(@, [agent |-> Parallel(r)[k],
                                               input |-> fan_input[r]])]
     /\ arg' = [arg EXCEPT ![Fresh] = [runner |-> r, index |-> k]]
  /\ lcn_spawn_task(r, Fresh)
  /\ UNCHANGED <<mesh, step, route, current_input, fan_input, handles, results,
                 output>>

\* lcn_spawn_task goes on; its handle is kept by the fan-out, if it is one.
SpawnContinues(a) == SpawnInit(a) /\ UNCHANGED meshVars

SpawnReturns(a) ==
  /\ SpawnPush(a)
  /\ IF a \in Runner /\ step[a] = "fan_out"
     THEN handles' = [handles EXCEPT ![a] = Append(@, target[a])]
     ELSE UNCHANGED handles
  /\ UNCHANGED <<mesh, step, route, current_input, fan_input, args, results,
                 wrapper>>

\* The barrier: the handles are awaited in their order.  After a failure
\* fail_fast awaits the rest in a loop of its own, which does the same.
FanOutAwaits(r) ==
  /\ step[r] = "fan_out"
  /\ Len(handles[r]) = Len(Parallel(r)) /\ Len(results[r]) < Len(handles[r])
  /\ lcn_await_task(r, handles[r][Len(results[r]) + 1])
  /\ UNCHANGED meshVars

FanOutCollects(r) ==
  /\ step[r] = "fan_out"
  /\ AwaitReturns(r)
  /\ results' = [results EXCEPT ![r] = Append(@, output[target[r]])]
  /\ UNCHANGED <<mesh, step, route, current_input, fan_input, args, handles,
                 wrapper>>

\* lcn_mesh_fan_in_collect: the results in the order of the agents, a marker in
\* the place of each that failed; nobody takes the collection for a failure.
Collected(r) == P!Collection([k \in DOMAIN results[r] |->
                                P!Part(Parallel(r)[k], results[r][k])])

\* The fan-out returns what it has collected and frees handles and arguments.
Leave(r) ==
  /\ args' = [args EXCEPT ![r] = << >>]
  /\ handles' = [handles EXCEPT ![r] = << >>]
  /\ results' = [results EXCEPT ![r] = << >>]
  /\ IF Current(r).kind = "fan_out" THEN GoTo(r, route[r] + 1, Collected(r))
     ELSE /\ fan_input' = [fan_input EXCEPT ![r] = Collected(r)]
          /\ step' = [step EXCEPT ![r] = "target"]
          /\ UNCHANGED <<route, current_input>>

\* Variant: fail_fast returns at the first failure.
ReturnAtFirstError(r) ==
  /\ step[r] = "fan_out" /\ pc[r] = "idle"
  /\ \/ Len(results[r]) = Len(Parallel(r))
     \/ mesh[r].fail_fast /\ \E k \in DOMAIN results[r] : results[r][k] = P!Failed
  /\ Leave(r)
  /\ UNCHANGED <<vars, mesh, wrapper>>

FanOutReturns(r) ==
  /\ step[r] = "fan_out" /\ pc[r] = "idle"
  /\ Len(results[r]) = Len(Parallel(r))
  /\ Leave(r)
  /\ UNCHANGED <<vars, mesh, wrapper>>

\* mesh_task_wrapper, in a worker: the argument is read and the agent called.
mesh_task_wrapper(t) ==
  /\ task[t] = "running" /\ output[t] = NotYet
  /\ LET ta == args[arg[t].runner][arg[t].index] IN
     \E v \in P!Answers(ta.agent, ta.input) : output' = [output EXCEPT ![t] = v]
  /\ UNCHANGED <<vars, meshState, arg>>

-----------------------------------------------------------------------------
\* spawn { P.run(x) }, by a thread of the program that has not begun its own.
SpawnRunner(a, t) ==
  /\ a \in Main /\ (a \in Runner => step[a] = "idle")
  /\ lcn_spawn_task(a, t)
  /\ UNCHANGED meshVars

\* The body of a task has come to its end.
BodyDone(t) == IF t \in Runner THEN step[t] \in {"ok", "error"}
                               ELSE output[t] # NotYet

MeshWorker(w) ==
  /\ \/ WorkerSleeps(w) \/ WorkerLeaves(w) \/ WorkerPops(w)
     \/ WorkerCompletes(w) /\ BodyDone(job[w])
  /\ UNCHANGED meshVars

MeshProceeds(r) ==
  \/ RunSource(r) \/ RunTarget(r)
  \/ FanOutSpawn(r) \/ FanOutAwaits(r) \/ FanOutCollects(r) \/ FanOutReturns(r)

SpawnProceeds(a) == SpawnContinues(a) \/ SpawnReturns(a)

MeshNext ==
  \/ \E w \in Worker : MeshWorker(w) \/ (SpuriousWakeup(w) /\ UNCHANGED meshVars)
  \/ \E r \in Runner : lcn_mesh_execute(r) \/ MeshProceeds(r)
  \/ \E t \in Invocation : mesh_task_wrapper(t)
  \/ \E a \in Actor : SpawnProceeds(a)
  \/ \E a \in Main, t \in Runner \cap Task : SpawnRunner(a, t)

MeshSpec == MeshInit /\ [][MeshNext]_allVars

\* Workers and runners go on while they can, an agent answers or fails, and a
\* task that runs a mesh begins it.
FairMeshSpec ==
  /\ MeshSpec
  /\ \A w \in Worker : WF_allVars(MeshWorker(w))
  /\ \A r \in Runner : WF_allVars(MeshProceeds(r))
  /\ \A a \in Actor : WF_allVars(SpawnProceeds(a))
  /\ \A r \in Runner \cap Task : WF_allVars(lcn_mesh_execute(r))
  /\ \A t \in Invocation : WF_allVars(mesh_task_wrapper(t))

-----------------------------------------------------------------------------
\* The fan-out of a runner has as many arguments as it has begun to spawn
\* tasks, handles for those spawned and results for those awaited, in order.
MeshTypeOK ==
  /\ step \in [Runner -> {"idle", "source", "fan_out", "target", "ok", "error"}]
  /\ \A r \in Runner :
       /\ route[r] \in 1 .. Len(mesh[r].routes) + 1
       /\ Len(results[r]) <= Len(handles[r])
       /\ Len(handles[r]) <= Len(args[r])
       /\ Len(args[r]) <= Len(handles[r]) + (IF pc[r] = "idle" THEN 0 ELSE 1)
       /\ step[r] # "fan_out" => args[r] = << >>
  /\ \A t \in Invocation : arg[t] = NoArg <=> task[t] = "new"

\* mesh.c:216: no task of a fan-out is queued or runs once the arguments that
\* it reads are freed, whatever fails.
ArgsOutliveTasks ==
  \A t \in Invocation : task[t] \in {"allocated", "queued", "running"} =>
    arg[t].index \in DOMAIN args[arg[t].runner]

\* mesh.c:182 over threads.c:231: a fan-out that waits inside a worker never leaves
\* only such workers to a queued task: one is awake, or runs an agent, which waits
\* for nobody.
WorkerForAgents ==
  queue # << >> =>
    \E w \in Worker : worker[w] = "awake" \/ (worker[w] = "running" /\ job[w] \in Invocation)

\* The pool hides nothing and adds nothing: whatever the workers do, and with
\* fail_fast as without, a mesh runs its routes one after another, each agent's
\* answer in the agent's place.
RunsRoutesInOrder ==
  P!InitWith({Registered(m.routes) : m \in UNION Range(Declared)}) /\ [][P!Next]_(P!vars)

\* Every mesh that is started, or spawned as a task, returns.
MeshReturns ==
  \A r \in Runner :
    (step[r] # "idle" \/ (r \in Task /\ task[r] = "queued"))
      ~> step[r] \in {"ok", "error"}
=============================================================================
