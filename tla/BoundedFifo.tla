----------------------------- MODULE BoundedFifo -----------------------------
(***************************************************************************)
(* What a Limceron channel promises to the threads that share it: a queue  *)
(* of at most Capacity messages in order of arrival, with blocking Send    *)
(* and Receive, that can be closed.  Every operation takes effect in one   *)
(* atomic step; there is no ring buffer, no mutex and no condition         *)
(* variable here.  Channel.tla implements this module.                     *)
(***************************************************************************)
EXTENDS Naturals, Sequences

CONSTANTS
  Thread,       \* the threads that call the channel
  Msg,          \* the values that travel
  Capacity,     \* how many items the queue holds
  NoMsg         \* "no value": not a member of Msg

VARIABLES
  queue,        \* the items sent and not yet received, oldest first
  closed,       \* has the channel been closed?
  doing,        \* what each thread is blocked in, or "idle"
  item,         \* the value a blocked sender wants to send, else NoMsg
  result        \* what each thread's last finished call returned

fifoVars == <<queue, closed, doing, item, result>>

FifoInit ==
  /\ queue = << >>
  /\ closed = FALSE
  /\ doing = [t \in Thread |-> "idle"]
  /\ item = [t \in Thread |-> NoMsg]
  /\ result = [t \in Thread |-> "none"]

\* Thread t is calling Send(m), for the first time or after having blocked.
CallsSend(t, m) ==
  \/ doing[t] = "idle"
  \/ doing[t] = "send" /\ item[t] = m

CallsReceive(t) == doing[t] \in {"idle", "recv"}

Return(t, r) ==
  /\ doing' = [doing EXCEPT ![t] = "idle"]
  /\ item' = [item EXCEPT ![t] = NoMsg]
  /\ result' = [result EXCEPT ![t] = r]

BlockSend(t, m) ==
  /\ doing[t] = "idle"
  /\ Len(queue) = Capacity
  /\ ~closed
  /\ doing' = [doing EXCEPT ![t] = "send"]
  /\ item' = [item EXCEPT ![t] = m]
  /\ UNCHANGED <<queue, closed, result>>

\* The item enters the queue; the call returns now, or stays until a
\* receiver has taken an item (an unbuffered channel).
Put(t, m) ==
  /\ CallsSend(t, m)
  /\ Len(queue) < Capacity
  /\ ~closed
  /\ queue' = Append(queue, m)
  /\ \/ Return(t, "true")
     \/ /\ doing' = [doing EXCEPT ![t] = "handoff"]
        /\ item' = [item EXCEPT ![t] = m]
        /\ UNCHANGED result
  /\ UNCHANGED closed

RefuseSend(t) ==
  /\ doing[t] \in {"idle", "send"}
  /\ closed
  /\ Return(t, "false")
  /\ UNCHANGED <<queue, closed>>

FinishHandoff(t) ==
  /\ doing[t] = "handoff"
  /\ queue = << >> \/ closed
  /\ Return(t, "true")
  /\ UNCHANGED <<queue, closed>>

BlockReceive(t) ==
  /\ doing[t] = "idle"
  /\ queue = << >>
  /\ ~closed
  /\ doing' = [doing EXCEPT ![t] = "recv"]
  /\ UNCHANGED <<queue, closed, item, result>>

Take(t) ==
  /\ CallsReceive(t)
  /\ queue # << >>
  /\ queue' = Tail(queue)
  /\ Return(t, Head(queue))
  /\ UNCHANGED closed

\* Nothing to take: a blocked call gives up only once the channel is closed,
\* a non-blocking call at once.
RefuseReceive(t) ==
  /\ queue = << >>
  /\ doing[t] = "idle" \/ (doing[t] = "recv" /\ closed)
  /\ Return(t, "false")
  /\ UNCHANGED <<queue, closed>>

Close ==
  /\ closed' = TRUE
  /\ UNCHANGED <<queue, doing, item, result>>

\* The steps that finish, or advance, the call a thread is blocked in.
Progress(t) ==
  /\ doing[t] # "idle"
  /\ \/ \E m \in Msg : Put(t, m)
     \/ RefuseSend(t)
     \/ FinishHandoff(t)
     \/ Take(t)
     \/ RefuseReceive(t)

FifoNext ==
  \/ \E t \in Thread :
       \/ \E m \in Msg : BlockSend(t, m) \/ Put(t, m)
       \/ RefuseSend(t)
       \/ FinishHandoff(t)
       \/ BlockReceive(t)
       \/ Take(t)
       \/ RefuseReceive(t)
  \/ Close

FifoSafety == FifoInit /\ [][FifoNext]_fifoVars

\* A call that can proceed from some time on is not left blocked for ever.
FifoSpec == FifoSafety /\ \A t \in Thread : WF_fifoVars(Progress(t))
=============================================================================
