----------------------------- MODULE Supervisor ------------------------------
(***************************************************************************)
(* src/runtime/supervisor.c: children that are started in order, stopped   *)
(* in reverse order, and restarted by a strategy when one of them fails,   *)
(* until too many failures fall into the sliding window.                   *)
(*                                                                         *)
(* The calls of start_fn are steps of their own, because a child may fail  *)
(* while it starts and report so: lcn_supervisor_child_failed is then      *)
(* entered again while the loop that started the child is suspended.       *)
(* Statistics (restart_count, total_restarts, consecutive_failures, the    *)
(* dates) are left out.                                                    *)
(***************************************************************************)
EXTENDS Integers, Sequences, FiniteSets

CONSTANTS
  Kinds,        \* the kinds of children: [mode |-> ..., starts |-> ...]
  MaxChildren,  \* LCN_SUPERVISOR_MAX_CHILDREN
  HistorySize,  \* LCN_SUPERVISOR_MAX_RESTARTS, the slots of the ring
  MaxRestarts,  \* max_restarts; 0 is unlimited
  Window,       \* window_seconds
  MaxTime,      \* bound on the clock
  MaxFailures   \* bound on the failures reported

Strategy == {"one_for_one", "one_for_all", "rest_for_all"}
Mode == {"always", "on_failure", "never"}

ASSUME SupervisorAssumption ==
  /\ Kinds \subseteq [mode : Mode, starts : BOOLEAN]
  /\ MaxChildren \in Nat /\ HistorySize \in Nat \ {0}
  /\ MaxRestarts \in Nat /\ MaxRestarts < HistorySize
  /\ Window \in Nat \ {0}
  /\ MaxTime \in Nat /\ MaxFailures \in Nat

VARIABLES
  strategy, state,          \* of the supervisor
  children,                 \* mode, state, and whether there is a start_fn
  timestamps, head, count,  \* the ring of the restart history
  now,                      \* the clock, in seconds
  stack,                    \* the loops over start_fn, the innermost first
  log                       \* history variable: the time of every failure

history == <<timestamps, head, count>>
vars == <<strategy, state, children, history, now, stack, log>>

\* lcn_supervisor_new
Init ==
  /\ strategy \in Strategy
  /\ state = "stopped"
  /\ children = << >>
  /\ timestamps = [k \in 0 .. HistorySize - 1 |-> 0]
  /\ head = 0 /\ count = 0
  /\ now = 0
  /\ stack = << >>
  /\ log = << >>

-----------------------------------------------------------------------------
\* Variant: the head stays where it is when the ring is full.
RecordKeepsHead ==
  /\ timestamps' = [timestamps EXCEPT ![(head + count) % HistorySize] = now]
  /\ count' = IF count < HistorySize THEN count + 1 ELSE count
  /\ UNCHANGED head

\* The oldest entry is overwritten when the ring is full.
history_record ==
  /\ timestamps' = [timestamps EXCEPT ![(head + count) % HistorySize] = now]
  /\ IF count < HistorySize
     THEN count' = count + 1 /\ UNCHANGED head
     ELSE head' = (head + 1) % HistorySize /\ UNCHANGED count

\* Evaluated after history_record, on the primed ring.
history_count_in_window ==
  Cardinality({k \in 0 .. count' - 1 :
                 timestamps'[(head' + k) % HistorySize] >= now - Window})

\* Variant: escalates on the restart that is still allowed.
EscalatesEarly == MaxRestarts > 0 /\ history_count_in_window >= MaxRestarts

check_escalation == MaxRestarts > 0 /\ history_count_in_window > MaxRestarts

Indices(s) == 1 .. Len(s)

\* Variant: the children are started in reverse order.
Backwards(k) == [j \in 1 .. Len(children) - k + 1 |-> Len(children) - j + 1]

From(k) == [j \in 1 .. Len(children) - k + 1 |-> k + j - 1]

\* The children with an index in S after child_stop.
child_stop(S) ==
  [c \in Indices(children) |-> IF c \in S THEN [children[c] EXCEPT !.state = "stopped"]
                                          ELSE children[c]]

\* The children that a failure of child c stops, and the order of their restart.
Affected(c) ==
  CASE strategy = "one_for_one" -> {c}
    [] strategy = "one_for_all" -> Indices(children)
    [] strategy = "rest_for_all" -> c .. Len(children)

\* Variant: rest_for_all begins after the failed child.
RestartAfterFailed(c) ==
  CASE strategy = "one_for_one" -> <<c>>
    [] strategy = "one_for_all" -> From(1)
    [] strategy = "rest_for_all" -> From(c + 1)

RestartOrder(c) ==
  CASE strategy = "one_for_one" -> <<c>>
    [] strategy = "one_for_all" -> From(1)
    [] strategy = "rest_for_all" -> From(c)

\* A loop over start_fn.  In a restart the children that are never restarted
\* are passed over.
Loop(todo, restart) == [todo |-> todo, restart |-> restart, inside |-> FALSE]

-----------------------------------------------------------------------------
\* The program, outside any start_fn.  Generated code adds every child before
\* it starts the supervisor.
lcn_supervisor_add_child(kind) ==
  /\ stack = << >> /\ state = "stopped"
  /\ Len(children) < MaxChildren
  /\ children' = Append(children, [mode |-> kind.mode, starts |-> kind.starts,
                                   state |-> "stopped"])
  /\ UNCHANGED <<strategy, state, history, now, stack, log>>

lcn_supervisor_start ==
  /\ stack = << >> /\ state # "running"
  /\ state' = "running"
  /\ stack' = <<Loop(From(1), FALSE)>>
  /\ UNCHANGED <<strategy, children, history, now, log>>

\* Variant: the loop ends before the first child.
StopsAllButFirst ==
  /\ stack = << >> /\ state # "stopped"
  /\ state' = "stopped"
  /\ children' = child_stop(Indices(children) \ {1})
  /\ UNCHANGED <<strategy, history, now, stack, log>>

lcn_supervisor_stop ==
  /\ stack = << >> /\ state # "stopped"
  /\ state' = "stopped"
  /\ children' = child_stop(Indices(children))
  /\ UNCHANGED <<strategy, history, now, stack, log>>

-----------------------------------------------------------------------------
\* lcn_supervisor_child_failed: record, escalate or stop the affected children
\* and begin the loop that restarts them.
lcn_supervisor_child_failed(c) ==
  /\ state = "running" /\ c \in Indices(children)
  /\ Len(log) < MaxFailures
  /\ history_record
  /\ log' = Append(log, now)
  /\ IF check_escalation
     THEN /\ state' = "escalated"
          /\ children' = child_stop(Indices(children))
          /\ UNCHANGED stack
     ELSE /\ children' = child_stop(Affected(c))
          /\ stack' = <<Loop(RestartOrder(c), TRUE)>> \o stack
          /\ UNCHANGED state
  /\ UNCHANGED <<strategy, now>>

\* A failure reported by the program, or by the start_fn of the child itself.
ReportFailure ==
  \/ stack = << >> /\ \E c \in Indices(children) : lcn_supervisor_child_failed(c)
  \/ /\ stack # << >> /\ Head(stack).inside
     /\ lcn_supervisor_child_failed(Head(Head(stack).todo))

\* The innermost loop goes on to its next child, or ends.
Advanced ==
  LET loop == Head(stack) IN
  <<Loop(Tail(loop.todo), loop.restart)>> \o Tail(stack)

LoopEnds ==
  /\ stack # << >> /\ Head(stack).todo = << >>
  /\ stack' = Tail(stack)
  /\ UNCHANGED <<strategy, state, children, history, now, log>>

\* child_start does nothing for a child that runs or that has no start_fn, and
\* the restart loops pass over a child whose mode is never.
Passed(loop, child) ==
  \/ loop.restart /\ child.mode = "never"
  \/ child.state = "running"
  \/ ~child.starts

Between == stack # << >> /\ Head(stack).todo # << >> /\ ~Head(stack).inside

LoopPasses ==
  /\ Between
  /\ Passed(Head(stack), children[Head(Head(stack).todo)])
  /\ stack' = Advanced
  /\ UNCHANGED <<strategy, state, children, history, now, log>>

child_start ==
  /\ Between
  /\ LET c == Head(Head(stack).todo) IN
     /\ ~Passed(Head(stack), children[c])
     /\ children' = [children EXCEPT ![c].state = "restarting"]
  /\ stack' = [stack EXCEPT ![1].inside = TRUE]
  /\ UNCHANGED <<strategy, state, history, now, log>>

\* start_fn has returned, whatever happened meanwhile.
StartReturns ==
  /\ stack # << >> /\ Head(stack).inside
  /\ children' = [children EXCEPT ![Head(Head(stack).todo)].state = "running"]
  /\ stack' = Advanced
  /\ UNCHANGED <<strategy, state, history, now, log>>

Tick ==
  /\ now < MaxTime
  /\ now' = now + 1
  /\ UNCHANGED <<strategy, state, children, history, stack, log>>

Next ==
  \/ \E kind \in Kinds : lcn_supervisor_add_child(kind)
  \/ lcn_supervisor_start \/ lcn_supervisor_stop
  \/ ReportFailure
  \/ LoopEnds \/ LoopPasses \/ child_start \/ StartReturns
  \/ Tick

Spec == Init /\ [][Next]_vars

-----------------------------------------------------------------------------
TypeOK ==
  /\ strategy \in Strategy
  /\ state \in {"stopped", "running", "escalated"}
  /\ children \in Seq([mode : Mode, starts : BOOLEAN,
                       state : {"stopped", "running", "restarting"}])
  /\ Len(children) <= MaxChildren
  /\ timestamps \in [0 .. HistorySize - 1 -> Nat]
  /\ head \in 0 .. HistorySize - 1 /\ count \in 0 .. HistorySize
  /\ now \in Nat
  /\ stack \in Seq([todo : Seq(Indices(children)), restart : BOOLEAN,
                    inside : BOOLEAN])
  /\ \A k \in Indices(stack) : stack[k].inside => stack[k].todo # << >>
  /\ log \in Seq(Nat)

Quiet == stack = << >>
Kept(child) == child.mode # "never" /\ child.starts

\* The failures that fall into the window, of all that were ever reported.
InWindow == {k \in Indices(log) : log[k] >= now - Window}

\* The ring forgets only what no longer matters: the entries it keeps are the
\* last ones reported, however often it has wrapped around.
RingKeepsLast ==
  /\ count = IF Len(log) < HistorySize THEN Len(log) ELSE HistorySize
  /\ \A k \in 0 .. count - 1 :
       timestamps[(head + k) % HistorySize] = log[Len(log) - count + 1 + k]

\* supervisor.c:12-14: the supervisor escalates on the failure that makes more
\* than max_restarts within the window, and on no other.
EscalatesWhenTooMany ==
  [][Len(log') > Len(log) =>
       (state' = "escalated" <=> MaxRestarts > 0 /\ Cardinality(InWindow') > MaxRestarts)]_vars

\* After every call, a running supervisor has all its children running again,
\* but for those that are never restarted: no failure, not even one reported
\* in the middle of a restart, leaves a child behind.
NoChildLeftBehind ==
  Quiet /\ state = "running" =>
    \A c \in Indices(children) : Kept(children[c]) => children[c].state = "running"

\* "Start children in order": when start_fn of a child is called, the children
\* before it, on which it may depend, run.
StartsInOrder ==
  state = "running" /\ ~Quiet /\ Head(stack).inside =>
    \A c \in 1 .. Head(Head(stack).todo) - 1 :
      Kept(children[c]) => children[c].state = "running"

\* A supervisor that was stopped has no child that runs or starts.
StoppedMeansAllStopped ==
  state = "stopped" =>
    Quiet /\ \A c \in Indices(children) : children[c].state = "stopped"

\* supervisor.c:14: a supervisor that escalates "stops all children".
EscalatedMeansAllStopped ==
  Quiet /\ state = "escalated" =>
    \A c \in Indices(children) : children[c].state = "stopped"
=============================================================================
