# TLA+ models of Limceron

Limceron is a language for agents. Its compiler (`src/src/`, C) lexes, parses,
type-checks and translates a program to C, to WASM, or through an IR to native
code; its runtime (`src/runtime/`, C) gives generated programs threads,
channels, supervisors, budgets, models, memory and networking. This directory
holds TLA+ models of the parts where a mistake is hard to see and hard to
test, the TLC runs that check them, and theorems about them that TLAPS checks.

    tlc -workers 2 -config Select.cfg Select.tla
    tlapm SelectProofs.tla

Every definition that stands for code is listed in `PROJECT.json` under `map`
with the lines it stands for, and keeps the name of the function where it can.

## 1. The system

| component | state | operations | interacts with | what makes it correct |
|---|---|---|---|---|
| channels `runtime/channel.c` | ring, count, closed, two condvars, one mutex | send, recv, try_recv, close, len, is_closed | any threads; select | items in order, none lost or duplicated; no lost wake-up; close releases everybody |
| select `runtime/select.c` and `codegen.c:4025-4065` | locals of one call | poll in rotation, then receive | channels, one call at a time | -1 only when all is drained; the chosen arm finds its item; an answer comes |
| thread pool, task groups `runtime/threads.c`, `codegen.c:5655-5735` | queue, workers, init mutex, handles, groups | init, spawn, await, group new/spawn/await/free, shutdown | generated `spawn`, mesh | every task runs once; no lost wake-up; nobody waits for ever; groups do not leak tasks |
| green threads `runtime/green_threads.c` | scheduler, dispatcher, throttle, handles | init, spawn, await, shutdown, park/unpark | generated `spawn` | at most N run; all finish; shutdown waits for all |
| supervisors `runtime/supervisor.c` | children, restart ring, state | add_child, start, stop, child_failed | children's start/stop functions call back | strategy restarts the right children in order; escalation counts the window exactly |
| agent mesh `runtime/mesh.c`, `codegen.c` | routes, current text, handles of a fan-out | register routes, execute single, fan-out, fan-in | pool (a fan-out spawns and awaits), agents | routes run in order, each on the text the one before left; arguments outlive the tasks; a mesh ends |
| agents: `run`, `ask` `codegen.c:8340-8800`, `lcn_runtime.h`, `runtime/llm.c` | the agent's budget, tracker, model | run, ask, lcn_llm_call | model, budget, tracker, event store | limits hold up to one reply; only answers within the limits are handed on |
| budgets `runtime/budget.c` | used tokens, start time, exhausted | check | agents | see agents |
| entropy tracking `runtime/entropy.c` | ring of records, tail, count | record, check averages over a window | `run` | the window is what was recorded last |
| event store `runtime/event.c` | ring, head, count, next_seq | emit | `lcn_llm_call`, tools | the last events, in order, numbered without a gap |
| agent-to-agent client `runtime/a2a.c` | totals, timeout, retries | send, with retries | a peer over HTTP | deliveries bounded; success means handled |
| ownership pass `src/typecheck.c` 4590-5420 | stack of variables, scope depth | one check per statement | parser's trees | accepts no use after move and no aliasing exclusive borrow |
| IR generation, WASM back end `src/ir_gen.c`, `src/ir_emit_wasm.c` | blocks, values, scopes, loop and catch stacks; `$bb`, locals, memory, budgets of a module | lower statements and expressions; dispatch loop; budget fences | parser's trees, WASM host | the module calls the host and returns as the source says; fences hold |
| delegation `runtime/delegation.c` | capability sets, a deadline | new, revoke, has | supervisors | a child's capabilities stay within the parent's |
| router `runtime/router.c` | health of endpoints | select, report, check | HTTP | failover finds a healthy endpoint |
| register allocation, native back ends | live ranges, registers, frames | allocate, emit | IR | no two live values in one place |
| package manager | manifest, lock | resolve, install | git, files | the lock reproduces the resolution |
| memory, KB, MCP, HTTP, JSON, dashboard, drivers, LSP, docs | mostly data | input and output | outside world | formatting and protocol |

The behaviours that are hard here: threads that share condition variables
(channels, pool), shutdowns that race with work that still spawns (pool, green
threads), two calls whose answers are stale when used (select), callbacks that
enter the code that called them (supervisors), limits and rings that wrap
(supervisors, events, entropy, channels), a pool whose workers wait for the
pool (mesh), limits tested before a call and charged after it (agents), a
message sent again because its answer was lost (agent-to-agent client),
invariants kept by several fields that are updated in several places
(ownership), and generated code that must mean what the source means through
every nesting of loops, handlers, guards and fences (IR). `PROJECT.json` lists
the most important at their lines, under `hazards`.

## 2. Modules

| module | models | composes |
|---|---|---|
| `BoundedFifo` | the abstract specification of a channel: a closable FIFO queue, each operation atomic | |
| `Channel` | `channel.c` critical section by critical section | implements `BoundedFifo` through `INSTANCE` (`queue` is the stretch of the ring from `head`) |
| `ChannelProofs` | theorems about `Channel`, among them that it implements `BoundedFifo` | |
| `Select` | `lcn_select` call by call, and the generated receive | stands on the abstract channel: of a queue, its length |
| `SelectProofs` | theorems about `Select` | |
| `ThreadPool` | pool, workers, await, task groups, shutdown | |
| `ThreadPoolProofs` | theorems about `ThreadPool` | |
| `GreenThreads` | scheduler, dispatcher, throttle, shutdown | |
| `GreenThreadsProofs` | theorems about `GreenThreads` | |
| `Supervisor`, `MCSupervisor` | supervisors; the kinds of children for TLC | |
| `SupervisorProofs` | theorems about `Supervisor` | |
| `Pipeline` | the abstract specification of a mesh: one route after another, each a single step on the text | |
| `Mesh`, `MCMesh` | `mesh.c` and the generated wrapper; the meshes for TLC | extends `ThreadPool`, conjoining the mesh's steps with the pool's; implements `Pipeline` |
| `MeshProofs` | theorems about `Mesh`: it runs on `ThreadPool`, whose theorems it inherits, and implements `Pipeline` | extends `ThreadPoolProofs` |
| `Agent`, `MCAgent` | run, ask, `lcn_llm_call`, budget, tracker, event store, `lcn_a2a_send`; the replies for TLC | |
| `AgentProofs` | theorems about `Agent` | |
| `Ownership` | pass 9 of the type checker, with a history of what the program does | |
| `HostCalls` | the budgets a host call is tested against, its prices, the values of generated code | |
| `Structured` | the meaning of a function body: an interpreter that knows nothing of blocks | extends `HostCalls` |
| `IrGen` | `ir_gen.c`: how a body becomes basic blocks | extends `Structured` for the trees |
| `Dispatch` | the dispatch loop of `ir_emit_wasm.c` that runs a list of blocks, whichever they are, with the fences around its host calls | extends `HostCalls` |
| `Lowering`, `MCLowering` | a program from its source to its end; the bodies for TLC | extends `IrGen` and `Dispatch`: runs the blocks of the one on the other, and compares with the meaning in `Structured` |
| `CompilerProofs` | theorems about `Ownership` and `Dispatch` | |

### How state and actions correspond to the code

**Threads.** A step is what a thread does between taking and giving up a mutex.
In `Channel` and `ThreadPool` a condition variable is the set of the threads
asleep on it: `pthread_cond_signal` removes one member of the caller's choice
or none, a broadcast empties it, and a thread that left the set evaluates its
loop condition in a later step, after anybody else may have run.
`pthread_cond_wait` may return for no reason (`SpuriousWakeup`). In
`GreenThreads` each condition variable is signalled under its mutex whenever
its condition turns true, so a wait is the guard of the step after it. Reads
without the mutex (`g_pool.initialized` in `lcn_spawn_task`) are steps of
their own.

**Channel.** `buffer, head, tail, count, closed` are the fields of the struct,
`not_empty` and `not_full` the wait sets, `pc` the loop a blocked thread is in,
`arg` its data pointer, `result` what its last call returned. An action is
either a first entry into a function (`lcn_channel_send`) or the return from a
wait (`SendWakes`, `HandoffWakes`, `RecvWakes`); both run the same loop body
(`SendLoop`, `RecvLoop`). Element copies are opaque values.

**Select.** `lcn_channel_is_closed` and `lcn_channel_len` are separate steps
(`TestClosed`, `TestLength`), with sends, closes and other receivers between
them. `answer` -2 is the timeout, which may come at any end of a scan.

**ThreadPool.** `task` is the life of a handle, `job` what a worker has taken,
`group` the handles of an open task_group block. The generated code, not the
runtime, decides who calls what; the constants `Spawner`, `Awaiter`,
`Returner`, `Stopper` say which actors do. `ReturnInsideGroup` is a `return`
in a task_group block.

**GreenThreads.** `life` follows a green thread through queue, dispatcher,
throttle and exit. `pthread_create` may fail for the threads in `Failing`; the
join of a thread that was never created is undefined behaviour and leads to
the state `undefined`, of which nothing is promised. It may fail for the
dispatcher as well (`InitScheduler`): the scheduler is initialized all the same,
and nobody serves its queue (`Unserved`).

**Supervisor.** Loops over children call `start_fn`, which may report a
failure of its own child before it returns. `stack` holds the suspended loops,
the innermost first, each with the children it has still to visit. `log` is a
history variable: the time of every failure ever reported.

**Mesh.** Each action conjoins an action of `ThreadPool` (a fan-out's spawn and
await are the pool's `lcn_spawn_task` and `lcn_await`) with what the mesh does at
that point. `step`, `route` and `current_input` are the locals of
`lcn_mesh_execute`, `args` the argument array it frees when the fan-out is over,
`handles` and `results` the other two arrays, `arg` and `output` what a task was
spawned with and what it has answered. A text is the term that produced it, so
a result in the wrong place, or of the wrong text, is a different text. What
registration drops (a list on both sides, a list too wide, a route beyond the
limit) is computed by `Registered`. An empty list `[]` is registered; its
collection is the empty string, which nobody takes for a failure, unlike the empty
string that an agent returns (`Failed`).

**Agent.** `pc` says what the one thread waits for and `by` which call it makes;
`budget`, `tracker`, `store` and `client` are the structs without the fields
nobody reads. A call is three kinds of steps: what it does up to the request
(`Run`, `lcn_ask_typed`, `lcn_a2a_send`), the outside world (`ModelReplies`,
`PeerHandles`, external), and what it does with the reply or without one
(`LlmReturns`, `PredictReturns`, `PostAnswered`, `PostFails`); for `run` the last
step includes the record, the events and the two checks (`Deliver`). An average
is compared by multiplying out, percentages stand for the floats. `recorded`
and `emitted` are histories.

**Ownership.** `Next` chooses the next statement of a program, so a behaviour
is the walk of the pass over one program. `ctx` is `OwnershipCtx`. `moved`,
`live`, `misused`, `aliased` record what the program does by the rules in the
comment at `typecheck.c:4593`, with names resolved independently of
`own_find`. Scopes are pushed as the parser's trees make them: once for the
branch of an `if` or a `match` arm, twice for `while`, `loop` and `else if`.

**Lowering.** A program is a function body, a tree of the constructors in
`Structured`. `IrGen` writes the lowering of each construct as the list of
steps in which the C code emits and opens (`<<Open("cond"), At("pre"), ...>>`);
`loc` is the frame of C variables of the construct, `scope`, `loops` and
`catches` are the stacks of the generator, with their limits. An `if` that stands alone is an expression in a statement
(`parser.c:1325`, `:1789-1811`), so it is lowered by `LowerIfValue` like any other;
`LowerIfStmt` is the path of an `else if`, the only `AST_IF` that reaches `irgen_stmt`,
and the bodies of `MCLowering` are written so. The variables
of `Dispatch` (`bb`, `pc`, `reg`, `mem`, `left`) are those of the running module;
phi nodes are the assignments at the end of the predecessor, as the emitter
places them. `Dispatch` knows no more of the code than the instructions it runs,
so what is proved of it holds of any module, and `Lowering` gives it the code of
`IrGen`. `Cost(b, f)` is the price in the table of a budget, 0 for a function that
is not in it; the tables hold no negative price (`PricesAssumption`,
`ir_emit_wasm.c:423-428`, `:557-569`), and a budget declared below zero counts as
zero (`DeclaredAssumption`, `:440-446`, `:618-626`). Only host calls can be observed. `Structured` runs a body from its start
against the answers the host has given so far and says what it does next; the
machine must do the same (`SameBehaviour`).

## 3. Runs

| run | question | bounds and why they are enough |
|---|---|---|
| `channel_buffered` | `TypeOK`, `RingOK`, `NoLostWakeup`; implements `BoundedFifo` with its liveness (`ImplementsFairFifo`) | 3 threads, 2 slots, 2 values: enough for two sleepers of one kind and a third thread that overtakes, and for the ring to wrap |
| `channel_unbuffered` | implements the queue of one item (`ImplementsFifo`, safety); `ItemHasSender`; `CloseReleasesAll` | the same, capacity 0 |
| `channel_handoff` (violation) | every consumed send returns? It does not | two senders and a receiver |
| `select` | `TypeOK`, `MinusOneMeansDrained`, `ChosenArmReady`, `SelectAnswers` | a channel of the selector's own, one shared with rivals, a NULL handle |
| `pool_shutdown` | `EachTaskInOnePlace`, `WorkersWoken`, `NoTaskDropped`, `CallsReturn`, `TasksComplete` | a program thread, 2 workers, 3 tasks of which one spawns during the shutdown |
| `green_threads` | `AtMostNRun`, `NothingPendingAfterWait`, `GreenThreadsFinish`, `CallsReturn` | 3 green threads on 2 slots, one spawns and awaits, one cannot be created; the dispatcher may fail to be created too; one start and one shutdown |
| `supervisor` | `RingKeepsLast`, `NoChildLeftBehind`, `StartsInOrder`, `StoppedMeansAllStopped`, `EscalatesWhenTooMany` | 3 children of 3 kinds, 4 failures on a ring of 3, so that it wraps; 2 restarts in a window of 1 on a clock up to 3, so that failures lie inside, at the edge of and outside the window |
| `mesh` | `ArgsOutliveTasks`, `WorkerForAgents`, `RunsRoutesInOrder` (implements `Pipeline`), `MeshReturns` | a program thread and a task that each run a mesh on 2 workers, so the task's own fan-out occupies one of the workers it needs; one agent may fail; meshes with a fan-out, a fan-in, a chain, an agent twice in one list, a list that names nobody, and every kind of route that is dropped (2 routes, 2 targets) |
| `agent` | `EventsKeepLast`, `OvershootOneReply`, `DeliveriesBounded`, `RunAnswersWithinLimits`, `CallsReturn` | 4 calls of run, ask and send; an event ring of 3 and a tracker of 2, so that both wrap; replies of 1 or 2 tokens against a limit of 3, so that the limit is met exactly and overshot; one retry |
| `ownership` | `BorrowState`, `AcceptedNeverUsesMoved`, `AcceptedNeverAliases` | every program of 5 statements over 2 names and 3 variables, with shadowing and one nested scope |
| `lowering` | `SameBehaviour`, `CallsWithinBudget`, `Responsive` | about 2500 bodies: each of 9 constructs inside each other one, with 7 kinds of statements (a call, a `?`, a counted call, return, break, continue, a constant) in the branches; 4 answers of the host, each an Ok or an Err; 3 budgets, of which two run out |
| `lowering_guard` (violation) | is an arm with a literal and a guard taken only if both hold? It is not | one body |

Named bounds: `MaxTime`, `MaxFailures`, `MaxChildren`, `HistorySize`
(Supervisor), `MaxCalls`, `MaxTime` (Agent), `MaxCalls`, `MaxLoopDepth`
(Lowering), `MaxRoutes`, `MaxTargets` (Mesh), `MaxVars`, `MaxOpen`,
`MaxStatements` (Ownership). The other models are finite by their constants:
each task or green thread is spawned at most once. Deadlock is checked except
where a program may simply be over: the bounded supervisor, agent and ownership
programs, a mesh that has answered, a green program after its shutdown, a
function that has returned or whose host does not answer.

The type invariants of `ThreadPool`, `GreenThreads`, `Supervisor`, `Mesh`,
`Agent` and `Ownership` are stated in the modules; those runs spend their time
on the other properties. All six are proved, and so is `Agent`'s
`WindowKeepsLast`.

### What the passing runs assume

- `pool_shutdown`: the thread that spawns is the one that shuts down, and only
  it waits. With a second program thread that spawns during a shutdown, the
  push goes to a queue nobody serves; with `LCN_WORKERS=1` one nested await
  waits for a task that only its own worker could run. `NoStarvedQueue`
  (section 4) says for any number of workers how many tasks may await: fewer
  than there are workers (`FewAwaiters`), and no more will do.
- `green_threads`: fewer green threads wait than there are slots, for the same
  reason (`FewAwaiters` of `SlotsNeverStuck`, which again cannot be weakened), and
  the scheduler is started once (`Restarts = FALSE`). The behaviours without a
  dispatcher are in the run, and the safety properties hold in them. What
  `GreenThreadsFinish` and `CallsReturn` promise does not (below), so
  these excuse them: the first altogether, the second the awaits, and a shutdown
  while some thread is counted. Spawns, and a shutdown that has nothing to wait
  for, must return even then.
- `mesh`: fewer tasks run meshes than there are workers (`MeshAssumption`). If
  every worker is inside a fan-out, no worker is left for the agents, and
  nothing in `mesh.c` keeps a program from it (`AgentsHaveAWorker`, section 4, is
  what the assumption buys). Nobody shuts the pool down while
  meshes run. `RoutesAssumption` says what the parser makes of a declaration, and
  that no list of a fan-out or fan-in names `input` or `output`: the generated
  code would put a NULL function there, which the task calls (`mesh.c:44`).
- `select`: `ChosenArmReady` is about channels without other consumers.
- `supervisor`: `MaxRestarts < HistorySize`. The code does not check it: with
  `max_restarts` of 256 or more the ring cannot hold enough failures and the
  supervisor never escalates.
- `agent`: one thread uses an agent, as the generated code keeps it in a local
  variable, and one thread emits events, as `event.h:4` asks.
- `ownership`: no initialiser mentions the name it defines
  (`SelfReference = FALSE`). With `let x = f(x)` the pass marks the new `x`,
  not the old one, as moved.
- `lowering`: the bodies of `MCLowering` leave out what is listed below as
  lowered differently from its meaning: conditions that open blocks, blocks that
  stand alone, names that shadow themselves, guards after a literal.

### Fairness

Weak fairness of each thread that is inside a call and can go on: mutexes and
the operating system's scheduler let it run eventually. Nothing obliges a
program to call anything, a close or a shutdown to come, a spurious wake-up to
happen. In `ThreadPool`, `WorkerCompletes` is strongly fair: it is enabled
whenever the body of a running task is outside the runtime's calls, and a body
that calls in again and again must still end; a task that runs for ever is
outside the model. `Select` assumes that the generated loop keeps selecting.
Fairness among threads asleep on one condition variable is not assumed, since
POSIX does not promise it.

In `Mesh`, workers, spawns, runners and agents that are inside a call go on: an
agent's model call ends by its HTTP timeout. In `Agent` the thread goes on and a
receive ends by its timeout; neither a model nor a peer has to reply. In
`Lowering` the engine does not stop inside the module (`WF_vars(Step)`), and the
host may never answer, so `Responsive` says that the machine again and again
waits for the host or has returned.

### Disagreements found

The two violation runs are listed under `findings` with the comment each one
contradicts. The others are described here with what reproduces them.

Concurrency:

- A shutdown does not return when a task that is still running awaits another:
  `CallsReturn` of `ThreadPool` with `Awaiter = {m, t1}` and `Spawner` the same.
- `green_threads.h:87-88` says that shutdown waits for all green threads to
  finish; `alive_count` is decremented before `throttle_release`
  (`green_threads.c:270`), so the last one may still run. `ShutdownJoinsThreads`
  of `GreenThreads` is violated with one green thread. After a new init, `active`
  is then -1 and N+1 threads are admitted (`AtMostNRun`, `Restarts = TRUE`).
- If the dispatcher cannot be created, `lcn_green_init_with_workers` prints a
  message and sets `initialized` (`green_threads.c:406-412`). Spawned threads are queued
  and never run, although `:455` says that the dispatcher will launch them; an await of
  one never returns, and `lcn_green_shutdown` waits for ever for `alive_count == 0`,
  with `g_green_init_mutex` held. `QueuedIsLaunched` of `GreenThreads` is violated
  under `FairSpec` with `Main = {m}`, `Green = {g1, g2}`, `N = 1`, nobody in `Failing`.
- `lcn_select` starts its rotation at 0 in every call, so among channels that
  have items the lowest-numbered one always wins (`select.c:77`, `:108` speak
  of fairness).
- A `return` in a task_group block skips `await_all` and `free`
  (`codegen.c:5719`; `threads.h:44` says tasks cannot escape): `NoTaskEscapes` of
  `ThreadPool` is violated with the constants of `PoolShutdown.cfg`, in which `t1`
  returns inside its group.
- `channel.h:43` says that pending sends fail on close; a sender in its
  hand-off reports success. `channel.h:40` reads as if try_recv returned false on
  a closed channel; it drains it first.
- When a supervisor escalates, not all children stop if a `start_fn` reports the
  failure (`supervisor.c:72` against `:13-14`): `EscalatedMeansAllStopped` of
  `Supervisor`, two children.
- `event.h:4` calls the event store single-threaded; `ask` in tasks of the pool
  emits into it without a lock.

Meshes:

- An agent that is the target of one route and the source of the next runs
  twice (`mesh.h:9` draws it once); every invocation builds a fresh agent, so a
  budget holds per invocation.
- `mesh.h:81` says that fail_fast aborts on the first error; the fan-out awaits
  all agents first, and without fail_fast a mesh whose agents all failed
  succeeds with the error markers as its text.
- Routes and targets beyond the limits are dropped silently, and so are lists on
  both sides of an arrow.

Agents:

- `README.md:197` of the repository says that three conditions are checked after
  each `ask()`; `lcn_ask_typed` (`lcn_runtime.h:353`) never touches the tracker,
  the time limit or `exhausted`. Limits that are not declared are 0, and an
  exceeded entropy budget does not stop later runs.
- A lost answer was paid for but is not charged; the cost is never charged; a
  local model is neither checked, charged nor logged.
- `lcn_a2a_X_call` returns `LCN_OK` for a 2xx response whose status is "error"
  (`a2a.c:199-202`, `codegen.c:7033-7043`).

Compiler:

- The ownership pass ends, with a scope, the borrows made in it and not those
  of the holders that go out of it (`typecheck.c:4679` against `:4672`):
  `BorrowsEndWithHolder` of `Ownership`. It never walks the body of `for`,
  `repeat` and a bare block (it passes them to `own_check_expr`), and reports a
  by-value argument of a method call on its first use.
- `abs`, `min`, `max`, `clamp` and `sign` never return: their branch is emitted
  into the block it opens (`ir_gen.c:1424`; the comment at `:1414` says what it
  should do). `Responsive` of `Lowering` with `Programs <- MCMath`.
- A block that stands alone, or whose value is used, is an expression to the parser
  (`parser.c:1575-1578`), and `irgen_expr` has no case for it (`ir_gen.c:2026-2028`):
  what is in it is dropped without a message. `SameBehaviour` of `Lowering` with
  `Programs <- MCBlock`.
- The condition of an `if` that opens blocks itself (a call with a fence, a
  `?`, an `if` value) leaves the branch in the block before it
  (`ir_gen.c:1607-1615`, `:2145-2157`).
- `loop_push` ignores a loop at depth 16 or more and `loop_pop` still pops
  (`ir_gen.c:563-582`); scopes do the same at their limit.
- In the IR, `let x = f(x)` reads the new slot of `x`; `&&` and `||` evaluate
  both sides; the slot of a `let` in a loop is allocated again in every
  iteration; a function that ends in a loop without a tail returns nothing.
- A fence returns from the function, past a try/catch around the call, and when
  the token fence refuses, the entropy of the call stays charged.
- Only tests call the optimisation passes. Dead code elimination counts a host
  call as pure (`ir_gen.c:3232-3300`).

## 4. Theorems

Each proofs module extends its component and proves for every value of the
constants that satisfies the named assumption (`ChannelAssumption`, ...), by an
inductive invariant.

- `ChannelProofs`. `Typing`, `Ring`: `IInv == TypeOK /\ RingOK` is inductive;
  neither part is alone, since a send relies on `tail` being the slot after the
  items and the ring relies on the types. The lemmas `RingIndex`, `RingShift`
  and `RingNext` are the arithmetic modulo the capacity. `Wakeups`: adding
  `NoLostWakeup` gives an inductive invariant; each put adds one item and, if a
  receiver sleeps, one awake receiver (`OneMore`), each take the reverse
  (`OneLess`), so the inequality between items and awake receivers is kept.
  `SenderWaits`: an item of an unbuffered channel is put by a thread that then
  waits in the hand-off, and nothing but its taking lets that thread go.
  `Implements`: under the types and `RingOK` the contents of the ring are a
  sequence of messages (`ContentsType`), a put appends to it and a take removes
  its head (`Put`, `Take`). Every step is then a step of
  `BoundedFifo` or leaves its state alone (`StepImplements`): signals,
  spurious wake-ups and the rounds of the loops cannot be seen.
- `SelectProofs`. `MinusOne`: the answer -1 rests on `ScanInv`, that while
  `all_closed` is true every channel scanned so far is closed and was found
  empty after it was closed; `DrainedStable` says that nothing changes such a
  channel. The rotation visits every channel (`RotationCovers`). `ArmReady` has
  the hypothesis `OneSelector`, as two selectors are each other's rivals: then
  between the length seen and the receive only senders touch the channel.
- `ThreadPoolProofs`. `Wakeups` holds whoever calls what, by counting: a push
  makes at most one worker more necessary and wakes one if one sleeps. The other
  theorems have the hypothesis `SpawnerStops`: of the program's threads only the
  one that shuts down spawns. Without it a push can reach a pool that is gone,
  and the next init empties its queue. Under it `PoolInv` is inductive: the
  types with what a thread in a call holds (`CallInv`), each task in exactly one
  of queue, worker and done (`EachTaskInOnePlace`), what a worker that runs a
  task may be doing (`JobInv`), and which workers exist while the pool starts,
  runs and shuts down (`LifeInv`). `OnePlace`, `TypeCorrect` and
  `ShutdownRunsAll` are parts of it; `ShutdownRunsAll` needs `LifeInv`, since a
  worker leaves only when the queue is empty, and every worker that could still
  push is one that has not left. `NoStarvedQueue` is the safety under the
  liveness the run checks: while the pool is up and a task is queued, some worker
  can take a step, as long as fewer tasks ever await than there are workers
  (`FewAwaiters`). Its centre is a pigeonhole, `AWorkerOutside`: different workers
  run different tasks, so if each were inside an await there would be as many
  awaiting tasks as workers; a worker that is not awaiting runs its task, looks at
  the queue or, by `WorkersWoken`, is awake. With as many awaiters as workers TLC
  finds the state in which all wait; during a shutdown a worker that has left
  counts no more, so the theorem speaks of the time before. `AwaitsAnswered`:
  an await waits for a task that was queued and whose handle has not been freed,
  since a handle that somebody owns is on its way (`HandleInv`).
- `GreenThreadsProofs`, with the hypothesis `OneProgram`: one program thread, and
  no start after a shutdown. Otherwise a scheduler can be started while a thread
  of the one before still has to give its slot back. `GInv` says of every
  counter what it counts: `active` the threads between acquire and release
  (`Holders`), `alive_count` those from the count in spawn to the end of the
  function, or to the account of a thread that could not be created (`Alive`).
  `Alive` is a set over three places, the life of a green thread, the
  dispatcher's hand and the calls in progress, so each step adds at most one
  member (`OneMore`), takes one (`OneLess`) or none (`AliveSame`). `SlotsHeld`
  follows since the running threads are holders. `NothingPending`: a shutdown
  leaves its wait when `Alive` is empty; then no actor but the program thread
  can take a step that counts (`Quiet`, `OnlyMain`), and that thread is in the
  shutdown. `SlotsNeverStuck`: when all slots are taken, one of the threads that
  hold them can go on (`OneHolderMoves`), if fewer green threads await than
  there are slots. A holder that cannot go on is inside an await, or past
  the undefined join that an await ends in (`Blocked`), and `WaitInv` says that only
  an `Awaiter` gets there, as a green thread's spawn finds the scheduler started
  (`GreenSpawnsCount`); so the blocked holders are awaiters, fewer than N. With one awaiter
  and one slot TLC finds the stuck state.
- `SupervisorProofs`. `RingHistory`: the ring is the end of the log, by the
  arithmetic of positions modulo the size (`RingSlotsDiffer`).
  `StoppedSupervisor`: `ChildInv` adds to the property the types of the
  suspended loops, whose indices are children. `Escalation`: the log is in the
  order of the clock (`LogInv`), so the failures in the window are its last ones.
  If the ring has forgotten one of them, everything it holds is in the window,
  and that is more than `max_restarts` already (`WindowCount`, by a bijection
  between slots and positions in the log). `NobodyLeftBehind` and `StartOrder`
  are parts of `OrderInv`, about the whole stack of suspended loops: a child
  that does not run is ahead of some loop (`AllCovered`), the children before
  the one a loop is at run or are ahead of a loop further inside
  (`EarlierCovered`), and a loop visits consecutive children (`Consecutive`).
  A failure keeps it because what it stops is exactly what the loop it pushes
  will visit (`RestartVisitsAffected`). `TypeCorrect` puts together the parts of
  `TypeOK` that `RingInv` and `ChildInv` hold with the bounds of the log and of the
  clock (`BoundsInv`).
- `AgentProofs`. `StoreHistory`: `EventsKeepLast` is inductive with the types,
  through one lemma on a ring to which an entry is appended (`RingAppend`: a
  ring that holds the end of a sequence holds the end of the longer one),
  stated on constants and used for the store. `TrackerWindow`: the same of the
  tracker, whose ring is read backwards from `tail`. `BudgetOvershoot` needs
  that the budget is below its limit from the request to the reply
  (`BelowAtRequest`): the check and the charge are different steps, and nothing
  charges in between. `Deliveries` needs that, inside a call, a message handled
  once more than attempted has its reply under way (`Attempted`).
  `AnswersWithinLimits` rests on `TrackerWindow`: what the check looks at is
  what was recorded; the limits themselves stay opaque.
- `CompilerProofs`, of `Ownership`. `StatesAgree`: every operation maps a context whose
  variables are consistent to such a context, one lemma per operation;
  `FindIndex` needs that a finite set of indices has a last one, from the
  well-foundedness of the naturals. The other two have the hypothesis
  `~SelfReference` and relate the pass to the program's own history, through
  `MeaningFound` (`own_find` resolves a name as the program means it) and
  `After` (a check keeps names, and a move or a complaint stands).
  `NoUseAfterMove`: as long as the pass has not complained, every variable the
  program has moved is marked as moved (`KnowsMoved`, in `MovedInv`). Leaving a
  scope keeps this because the variables lie in the order of their scopes
  (`Sorted`, `PopSorted`), so the number to which `own_pop_scope` cuts the list
  is the place where the outer ones end. `NoAliasedBorrow`: the counters of a
  variable cover the borrows made since the last scope was left
  (`KnowsBorrows`, in `AliasInv`); its centre is `CallGrown`, that a call
  without complaint gives back no more than it took, whatever variables its two
  arguments share. `ScopesNest`, without that hypothesis, is `TypeOK`: the walk
  opens as many scopes as it closes, so the depth never falls below the function's
  own. The scopes that are open and what each pushes add up to the depth; the sum
  is stated as the existence of a ladder of depths, one rung per open scope
  (`Ladder`), since a rung is added or taken at the end by `LadderUp` and
  `LadderDown` without induction. `ScopeCut` uses `Sorted` and the ladder: the loop of
  `own_pop_scope` (`typecheck.c:4668-4672`), which drops variables from the end while
  their scope is the one that is left, drops all of that scope and nothing else
  (`ScopeIsLast`), so the model, which keeps the outer ones by their number,
  leaves what the loop leaves.
- `CompilerProofs`, of `Dispatch`, for whatever code it runs. `BudgetsHold` is
  `CallsWithinBudget`: by `FenceInv`, what the calls have cost and what is left
  of a budget add up to at most what was declared, and what is left is never
  negative (`BudgetGlobalsInRange`); a call that a later fence refuses leaves its
  price charged, so the two do not add up to exactly that. What a sequence of calls
  costs is a sum; that the recursive function which adds it up exists and is unique
  is shown by a least counterexample (`SumsExist`, `SumsAgree`), and
  `SpentAppend` says what one more call adds. `NothingAfterReturn`: once the
  function has returned, by a fence or by itself, no call leaves and nothing is
  charged; it needs that the machine waits for one answer at a time (`CallInv`).
- `MeshProofs` extends the proofs of the pool. `MeshInv` is inductive together
  with `PoolInv`, which it needs to know where a task is. `ActorInv` says who may be in which call of the pool: a runner in a
  fan-out spawns invocations and awaits them, everybody else spawns runners.
  `FanInv` relates the three arrays of a fan-out to the handles of the pool: the
  k-th argument is the one the k-th handle was spawned with, a handle is freed
  exactly when its result has been collected, and the k-th result is an answer
  of the k-th agent to the text of the fan-out. `InvocationInv` is the other
  direction: a task that has been spawned and not awaited belongs to a fan-out
  under way, at the index its argument says. `StageInv` says what the text is
  that a runner carries through a route, and at which route it has answered.
  `Typing` (`MeshTypeOK`) is read off all four. Each step has a lemma; steps that leave
  the fan-outs alone share `QuietStep`. `RunsOnThePool`: every step of `MeshSpec`
  is one of the pool's or a stutter of it, so `PoolUnderMeshes` follows from the
  theorems about `ThreadPool` (`MeshAssumption` gives their `SpawnerStops`).
  `ArgumentsOutlive` reads off `InvocationInv`, as a fan-out keeps its arguments
  until it has as many results as agents. `AgentsHaveAWorker` is `WorkerForAgents`, the
  safety under `MeshReturns`: while a task is queued, some worker is awake or runs an
  agent, which waits for nobody, by the pigeonhole of the pool and `MeshAssumption`. `ImplementsPipeline`: a call of
  `lcn_mesh_execute` is a `Start`, the step that ends a route is a `Stage`, whose
  outcome `StageInv` and `FanInv` have collected on the way, and every other step
  leaves the state of the pipeline alone.

Only model-checked: all liveness (TLAPS does not do it under fairness), with it
that `Channel` implements the fair queue, though `NoStarvedQueue`, `SlotsNeverStuck`,
`AgentsHaveAWorker` and the wake-up theorems prove the safety it rests on; and that the generated code means what the source says
(`SameBehaviour`, `Responsive`). The interpreter and the generator are recursive
operators, and a statement about what they compute is an induction over trees,
neither of which tlapm has. The theorems about `Dispatch` are about the variables
and actions `Lowering` runs, but that every step of `Lowering` is one of theirs
cannot be stated to tlapm, since `Lowering` reaches those operators; the run checks
`CallsWithinBudget` of `Lowering` itself.

## 5. Not modelled

In modelled components: `lcn_channel_free` and `lcn_green_park`/`unpark`, which
no generated code calls; statistics and messages of supervisors; the functions
of `budget.c` that deduct, which `llm.c` bypasses; queries and replay of the
event store; `lcn_a2a_send_task` and `delegate`, which post by the same path as
`send`; the drift of the entropy tracker, since generated code records category
0 only and it is always 0; parameters, nested expressions and the limit of 512
variables in the ownership pass; in the IR, floats, strings, structures,
closures and the optimisation passes, which only tests call; in the WASM back
end, the encoding of instructions and the runtime functions it emits.

Whole components: delegation and the router are small sequential modules whose
hazards (an expiry noticed only when somebody asks, a failover that skips an
endpoint for ever) are not covered; register allocation works per function on
live ranges and is not covered either. The package manager, memory, knowledge
base, MCP, HTTP, JSON, dashboard, drivers, standard library, language server,
lexer, parser, the other passes of the type checker and the C code generator are
input and output, parsing or formatting, with little state to interleave.

Of the repository's lines of C most are not its own: `runtime/sqlite3.c` and
`sqlite3.h` are 236,398 of 293,710. The models cover the concurrent runtime,
the agents' calls, the ownership pass and the lowering of functions.

## 6. What would come next

1. `RegAlloc`: live ranges and linear scan of `ir_gen.c` and `ir_emit_arm64.c`
   with the spill slots of `ir_emit_x86.c`, against "no two live values share a
   place".
2. `Router` and `Delegation`: failover while some endpoint is healthy; a
   capability that a parent loses after it was delegated.
3. A store of events that several tasks write, once the runtime decides whether
   it locks.
