------------------------------- MODULE Channel -------------------------------
(***************************************************************************)
(* src/runtime/channel.c: a ring buffer protected by one mutex, with the   *)
(* condition variables not_empty and not_full.                             *)
(*                                                                         *)
(* A step is one critical section: what a thread does between acquiring    *)
(* the mutex (on entry, or when pthread_cond_wait returns) and releasing   *)
(* it (on return, or by waiting again).  A condition variable is the set   *)
(* of the threads asleep on it; a thread that was signalled leaves the set *)
(* and re-evaluates its loop condition in a later step, so any other       *)
(* thread may run in between.                                              *)
(***************************************************************************)
EXTENDS Integers, Sequences, FiniteSets

CONSTANTS
  Thread,       \* the threads that share the channel
  Msg,          \* the values sent: elem_size bytes each, opaque here
  Requested,    \* the capacity given to lcn_channel_new
  NoMsg         \* contents of a slot never written, argument of no call

ASSUME ChannelAssumption ==
  /\ IsFiniteSet(Thread)
  /\ Requested \in Int
  /\ NoMsg \notin Msg

VARIABLES
  buffer, head, tail, count, closed,    \* struct LcnChannel
  not_empty, not_full,                  \* the threads asleep on each condvar
  pc,           \* the loop a blocked thread is in: "send", "handoff", "recv"
  arg,          \* the data pointer of a blocked send
  result        \* what each thread's last finished call returned

vars == <<buffer, head, tail, count, closed, not_empty, not_full, pc, arg,
          result>>

unbuffered == Requested <= 0
capacity == IF unbuffered THEN 1 ELSE Requested
Slot == 0 .. capacity - 1

lcn_channel_new ==
  /\ buffer = [i \in Slot |-> NoMsg]
  /\ head = 0
  /\ tail = 0
  /\ count = 0
  /\ closed = FALSE
  /\ not_empty = {}
  /\ not_full = {}

Init ==
  /\ lcn_channel_new
  /\ pc = [t \in Thread |-> "idle"]
  /\ arg = [t \in Thread |-> NoMsg]
  /\ result = [t \in Thread |-> "none"]

-----------------------------------------------------------------------------
\* pthread_cond_signal wakes one of the threads asleep on the condvar, if any.
Signalled(waitSet) ==
  IF waitSet = {} THEN {waitSet} ELSE {waitSet \ {t} : t \in waitSet}

\* The call returns r to its caller.
Return(t, r) ==
  /\ pc' = [pc EXCEPT ![t] = "idle"]
  /\ arg' = [arg EXCEPT ![t] = NoMsg]
  /\ result' = [result EXCEPT ![t] = r]

\* The call of t, with argument m, goes to sleep in the loop named by label.
Sleep(t, label, m) ==
  /\ pc' = [pc EXCEPT ![t] = label]
  /\ arg' = [arg EXCEPT ![t] = m]
  /\ UNCHANGED result

-----------------------------------------------------------------------------
\* lcn_channel_send, from the test of its first loop on.
SendBlocks(t, m) ==
  /\ count = capacity /\ ~closed
  /\ not_full' = not_full \cup {t}
  /\ Sleep(t, "send", m)
  /\ UNCHANGED <<buffer, head, tail, count, closed, not_empty>>

SendRefused(t) ==
  /\ closed
  /\ Return(t, "false")
  /\ UNCHANGED <<buffer, head, tail, count, closed, not_empty, not_full>>

\* Mutant: an optimisation that signals only when the buffer was empty.
SendPutsSignalIfEmpty(t, m) ==
  /\ count # capacity /\ ~closed
  /\ buffer' = [buffer EXCEPT ![tail] = m]
  /\ tail' = (tail + 1) % capacity
  /\ count' = count + 1
  /\ not_empty' \in IF count = 0 THEN Signalled(not_empty) ELSE {not_empty}
  /\ IF unbuffered
     THEN not_full' = not_full \cup {t} /\ Sleep(t, "handoff", m)
     ELSE Return(t, "true") /\ UNCHANGED not_full
  /\ UNCHANGED <<head, closed>>

SendPuts(t, m) ==
  /\ count # capacity /\ ~closed
  /\ buffer' = [buffer EXCEPT ![tail] = m]
  /\ tail' = (tail + 1) % capacity
  /\ count' = count + 1
  /\ not_empty' \in Signalled(not_empty)
  /\ IF unbuffered
     THEN not_full' = not_full \cup {t} /\ Sleep(t, "handoff", m)
     ELSE Return(t, "true") /\ UNCHANGED not_full
  /\ UNCHANGED <<head, closed>>

SendLoop(t, m) ==
  SendBlocks(t, m) \/ SendRefused(t) \/ SendPuts(t, m)

lcn_channel_send(t, m) == pc[t] = "idle" /\ SendLoop(t, m)

\* Mutant: the first loop is an "if", so a woken sender does not test again.
SendWakesWithoutTest(t) ==
  /\ pc[t] = "send"
  /\ t \notin not_full
  /\ ~closed
  /\ buffer' = [buffer EXCEPT ![tail] = arg[t]]
  /\ tail' = (tail + 1) % capacity
  /\ count' = count + 1
  /\ Return(t, "true")
  /\ UNCHANGED <<head, closed, not_empty, not_full>>

SendWakes(t) ==
  /\ pc[t] = "send"
  /\ t \notin not_full
  /\ SendLoop(t, arg[t])

\* The second loop of lcn_channel_send: wait until the item is consumed.
HandoffBlocks(t) ==
  /\ count > 0 /\ ~closed
  /\ not_full' = not_full \cup {t}
  /\ UNCHANGED <<buffer, head, tail, count, closed, not_empty, pc, arg, result>>

HandoffReturns(t) ==
  /\ count = 0 \/ closed
  /\ Return(t, "true")
  /\ UNCHANGED <<buffer, head, tail, count, closed, not_empty, not_full>>

\* Mutant: the second loop is an "if", so any wakeup ends the hand-off.
HandoffWakesOnce(t) ==
  /\ pc[t] = "handoff"
  /\ t \notin not_full
  /\ Return(t, "true")
  /\ UNCHANGED <<buffer, head, tail, count, closed, not_empty, not_full>>

HandoffWakes(t) ==
  /\ pc[t] = "handoff"
  /\ t \notin not_full
  /\ HandoffBlocks(t) \/ HandoffReturns(t)

-----------------------------------------------------------------------------
\* Copy the head slot out and wake a sender: shared by recv and try_recv.
\* Mutant: the head is not advanced.
TakeHeadStays(t) ==
  /\ count' = count - 1
  /\ not_full' \in Signalled(not_full)
  /\ Return(t, buffer[head])
  /\ UNCHANGED <<buffer, head, tail, closed, not_empty>>

\* Mutant: an optimisation that signals only when the buffer was full.
TakeHeadSignalIfFull(t) ==
  /\ head' = (head + 1) % capacity
  /\ count' = count - 1
  /\ not_full' \in IF count = capacity THEN Signalled(not_full) ELSE {not_full}
  /\ Return(t, buffer[head])
  /\ UNCHANGED <<buffer, tail, closed, not_empty>>

TakeHead(t) ==
  /\ head' = (head + 1) % capacity
  /\ count' = count - 1
  /\ not_full' \in Signalled(not_full)
  /\ Return(t, buffer[head])
  /\ UNCHANGED <<buffer, tail, closed, not_empty>>

RecvBlocks(t) ==
  /\ count = 0 /\ ~closed
  /\ not_empty' = not_empty \cup {t}
  /\ Sleep(t, "recv", NoMsg)
  /\ UNCHANGED <<buffer, head, tail, count, closed, not_full>>

\* Mutant: closed is tested before emptiness, so a closed channel is not drained.
RecvRefusedIfClosed(t) ==
  /\ closed
  /\ Return(t, "false")
  /\ UNCHANGED <<buffer, head, tail, count, closed, not_empty, not_full>>

RecvRefused(t) ==
  /\ count = 0 /\ closed
  /\ Return(t, "false")
  /\ UNCHANGED <<buffer, head, tail, count, closed, not_empty, not_full>>

RecvLoop(t) ==
  \/ RecvBlocks(t)
  \/ RecvRefused(t)
  \/ count # 0 /\ TakeHead(t)

lcn_channel_recv(t) == pc[t] = "idle" /\ RecvLoop(t)

RecvWakes(t) ==
  /\ pc[t] = "recv"
  /\ t \notin not_empty
  /\ RecvLoop(t)

lcn_channel_try_recv(t) ==
  /\ pc[t] = "idle"
  /\ \/ /\ count = 0
        /\ Return(t, "false")
        /\ UNCHANGED <<buffer, head, tail, count, closed, not_empty, not_full>>
     \/ count # 0 /\ TakeHead(t)

\* Mutant: close signals one waiter of each kind in place of all of them.
CloseSignalsOne(t) ==
  /\ pc[t] = "idle"
  /\ closed' = TRUE
  /\ not_empty' \in Signalled(not_empty)
  /\ not_full' \in Signalled(not_full)
  /\ UNCHANGED <<buffer, head, tail, count, pc, arg, result>>

lcn_channel_close(t) ==
  /\ pc[t] = "idle"
  /\ closed' = TRUE
  /\ not_empty' = {}
  /\ not_full' = {}
  /\ UNCHANGED <<buffer, head, tail, count, pc, arg, result>>

\* pthread_cond_wait may return although nobody signalled.
SpuriousWakeup(t) ==
  /\ t \in not_empty \cup not_full
  /\ not_empty' = not_empty \ {t}
  /\ not_full' = not_full \ {t}
  /\ UNCHANGED <<buffer, head, tail, count, closed, pc, arg, result>>

-----------------------------------------------------------------------------
Wakes(t) == SendWakes(t) \/ HandoffWakes(t) \/ RecvWakes(t)

Next ==
  \E t \in Thread :
    \/ \E m \in Msg : lcn_channel_send(t, m)
    \/ SendWakes(t)
    \/ HandoffWakes(t)
    \/ lcn_channel_recv(t)
    \/ RecvWakes(t)
    \/ lcn_channel_try_recv(t)
    \/ lcn_channel_close(t)
    \/ SpuriousWakeup(t)

Spec == Init /\ [][Next]_vars

\* A signalled thread eventually gets the mutex and runs.  Nobody is obliged
\* to call the channel, and spurious wakeups need not happen.
FairSpec == Spec /\ \A t \in Thread : WF_vars(Wakes(t))

-----------------------------------------------------------------------------
\* Types of the struct's fields and of the threads' local state.
TypeOK ==
  /\ buffer \in [Slot -> Msg \cup {NoMsg}]
  /\ head \in Slot
  /\ tail \in Slot
  /\ count \in 0 .. capacity
  /\ closed \in BOOLEAN
  /\ not_empty \subseteq {t \in Thread : pc[t] = "recv"}
  /\ not_full \subseteq {t \in Thread : pc[t] \in {"send", "handoff"}}
  /\ pc \in [Thread -> {"idle", "send", "handoff", "recv"}]
  /\ arg \in [Thread -> Msg \cup {NoMsg}]
  /\ \A t \in Thread : pc[t] \in {"send", "handoff"} <=> arg[t] \in Msg
  /\ result \in [Thread -> Msg \cup {"none", "true", "false"}]

\* The slots from head on, count of them, hold messages, and tail is the slot
\* after them: a send never overwrites an item that was not received, a
\* receive never returns a slot nobody wrote (the index arithmetic of
\* lcn_channel_send, lcn_channel_recv and lcn_channel_try_recv agrees).
RingOK ==
  /\ tail = (head + count) % capacity
  /\ \A i \in 0 .. count - 1 : buffer[(head + i) % capacity] \in Msg

AwakeReceivers == {t \in Thread : pc[t] = "recv" /\ t \notin not_empty}
AwakeSenders == {t \in Thread : pc[t] = "send" /\ t \notin not_full}

\* While a receiver sleeps, every item in the buffer has a receiver that was
\* woken for it and has yet to run.
ReceiversWoken == not_empty # {} => count <= Cardinality(AwakeReceivers)

\* While a sender of a buffered channel sleeps, every free slot has a sender
\* that was woken for it and has yet to run.
SendersWoken ==
  ~unbuffered /\ not_full # {} => capacity - count <= Cardinality(AwakeSenders)

\* No wakeup is lost: one signal per send and per receive, never a broadcast,
\* is enough whatever thread gets the mutex first, and nobody sleeps on a
\* closed channel.
NoLostWakeup ==
  /\ ReceiversWoken
  /\ SendersWoken
  /\ closed => not_empty = {} /\ not_full = {}

\* The item in an open unbuffered channel belongs to a sender that is still
\* inside lcn_channel_send: no send of an open unbuffered channel returns
\* before its item has left the buffer.
ItemHasSender ==
  unbuffered /\ count > 0 /\ ~closed =>
    \E t \in Thread : pc[t] = "handoff" /\ arg[t] = buffer[head]

-----------------------------------------------------------------------------
\* The ring read from head, count items: the queue of BoundedFifo.
Contents == [i \in 1 .. count |-> buffer[(head + i - 1) % capacity]]

Fifo == INSTANCE BoundedFifo WITH
  Capacity <- capacity, queue <- Contents, doing <- pc, item <- arg

\* The channel is a bounded FIFO queue: whatever the interleaving of the
\* critical sections, each send, receive and close takes effect atomically,
\* in order, with the result the queue dictates.
ImplementsFifo == Fifo!FifoSafety

\* Moreover no thread stays blocked in a call that could proceed.
ImplementsFairFifo == Fifo!FifoSpec

\* lcn_channel_close releases every blocked thread.
CloseReleasesAll ==
  \A t \in Thread : closed /\ pc[t] # "idle" ~> pc[t] = "idle"

\* channel.c:7-9: an unbuffered sender blocks until the receiver has consumed
\* the item.  Once the buffer is empty every item was consumed, so a sender
\* still in its hand-off loop must return.
HandoffCompletes ==
  \A t \in Thread : pc[t] = "handoff" /\ count = 0 ~> pc[t] = "idle"
=============================================================================
