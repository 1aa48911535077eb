------------------------------- MODULE Select --------------------------------
(***************************************************************************)
(* src/runtime/select.c and the code that src/src/codegen.c generates for  *)
(* a select expression: poll the channels one after the other, then        *)
(* receive from the one that was ready.                                    *)
(*                                                                         *)
(* The channels are those of BoundedFifo, which Channel implements; of a   *)
(* queue only the length matters here.  lcn_channel_is_closed and          *)
(* lcn_channel_len are separate critical sections, so anything may happen  *)
(* between them, and between the answer of lcn_select and the receive.     *)
(***************************************************************************)
EXTENDS Integers, FiniteSets

CONSTANTS
  N,            \* the arms of the select: channels 0 .. N-1
  Capacity,     \* how many items each channel holds
  Null,         \* the channels whose handle is NULL
  Selector,     \* the threads that run the select expression in a loop
  Rivals,       \* the channels from which other threads receive as well
  HasTimeout    \* is timeout_ms > 0?

Chan == 0 .. N - 1

ASSUME SelectAssumption ==
  /\ N \in Nat \ {0}
  /\ Capacity \in Nat \ {0}
  /\ Null \subseteq Chan
  /\ Rivals \subseteq Chan
  /\ HasTimeout \in BOOLEAN

VARIABLES
  len, closed,  \* of each channel
  pc,           \* where each selector is in its loop
  offset, i, all_closed,    \* the local variables of lcn_select
  answer        \* its result; NoAnswer while it runs for the first time

vars == <<len, closed, pc, offset, i, all_closed, answer>>

NoAnswer == -3
Open == Chan \ Null

\* The channel that the scan of t examines now.
idx(t) == (i[t] + offset[t]) % N

Init ==
  /\ len = [c \in Chan |-> 0]
  /\ closed = [c \in Chan |-> FALSE]
  /\ pc = [t \in Selector |-> "idle"]
  /\ offset = [t \in Selector |-> 0]
  /\ i = [t \in Selector |-> 0]
  /\ all_closed = [t \in Selector |-> TRUE]
  /\ answer = [t \in Selector |-> NoAnswer]

-----------------------------------------------------------------------------
\* The other users of the channels.
Send(c) ==
  /\ c \in Open /\ ~closed[c] /\ len[c] < Capacity
  /\ len' = [len EXCEPT ![c] = @ + 1]
  /\ UNCHANGED <<closed, pc, offset, i, all_closed, answer>>

Close(c) ==
  /\ c \in Open
  /\ closed' = [closed EXCEPT ![c] = TRUE]
  /\ UNCHANGED <<len, pc, offset, i, all_closed, answer>>

RivalReceives(c) ==
  /\ c \in Rivals
  /\ len[c] > 0
  /\ len' = [len EXCEPT ![c] = @ - 1]
  /\ UNCHANGED <<closed, pc, offset, i, all_closed, answer>>

-----------------------------------------------------------------------------
\* Mutant: all_closed is initialised before the outer loop, not in it.
StartScanKeepsFlag(t) ==
  /\ pc' = [pc EXCEPT ![t] = "closed?"]
  /\ i' = [i EXCEPT ![t] = 0]
  /\ UNCHANGED all_closed

StartScan(t) ==
  /\ pc' = [pc EXCEPT ![t] = "closed?"]
  /\ i' = [i EXCEPT ![t] = 0]
  /\ all_closed' = [all_closed EXCEPT ![t] = TRUE]

lcn_select(t) ==
  /\ pc[t] = "idle"
  /\ offset' = [offset EXCEPT ![t] = 0]
  /\ StartScan(t)
  /\ UNCHANGED <<len, closed, answer>>

\* A NULL handle is passed over.
SkipNull(t) ==
  /\ pc[t] = "closed?" /\ i[t] < N
  /\ idx(t) \in Null
  /\ i' = [i EXCEPT ![t] = @ + 1]
  /\ UNCHANGED <<len, closed, pc, offset, all_closed, answer>>

TestClosed(t) ==
  /\ pc[t] = "closed?" /\ i[t] < N
  /\ idx(t) \notin Null
  /\ all_closed' = [all_closed EXCEPT ![t] = @ /\ closed[idx(t)]]
  /\ pc' = [pc EXCEPT ![t] = "len?"]
  /\ UNCHANGED <<len, closed, offset, i, answer>>

\* Mutant: a closed channel counts as ready.
TestLengthOrClosed(t) ==
  /\ pc[t] = "len?"
  /\ IF len[idx(t)] > 0 \/ closed[idx(t)]
     THEN /\ pc' = [pc EXCEPT ![t] = "recv"]
          /\ answer' = [answer EXCEPT ![t] = idx(t)]
          /\ UNCHANGED i
     ELSE /\ pc' = [pc EXCEPT ![t] = "closed?"]
          /\ i' = [i EXCEPT ![t] = @ + 1]
          /\ UNCHANGED answer
  /\ UNCHANGED <<len, closed, offset, all_closed>>

TestLength(t) ==
  /\ pc[t] = "len?"
  /\ IF len[idx(t)] > 0
     THEN /\ pc' = [pc EXCEPT ![t] = "recv"]
          /\ answer' = [answer EXCEPT ![t] = idx(t)]
          /\ UNCHANGED i
     ELSE /\ pc' = [pc EXCEPT ![t] = "closed?"]
          /\ i' = [i EXCEPT ![t] = @ + 1]
          /\ UNCHANGED answer
  /\ UNCHANGED <<len, closed, offset, all_closed>>

EndScan(t) ==
  /\ pc[t] = "closed?" /\ i[t] = N
  /\ \/ /\ all_closed[t]
        /\ answer' = [answer EXCEPT ![t] = -1]
        /\ pc' = [pc EXCEPT ![t] = "idle"]
     \/ /\ ~all_closed[t] /\ HasTimeout
        /\ answer' = [answer EXCEPT ![t] = -2]
        /\ pc' = [pc EXCEPT ![t] = "idle"]
     \/ /\ ~all_closed[t]
        /\ pc' = [pc EXCEPT ![t] = "sleep"]
        /\ UNCHANGED answer
  /\ UNCHANGED <<len, closed, offset, i, all_closed>>

\* Mutant: the rotation does not wrap around.
SleepWithoutWrap(t) ==
  /\ pc[t] = "sleep"
  /\ offset' = [offset EXCEPT ![t] = @ + 1]
  /\ StartScan(t)
  /\ UNCHANGED <<len, closed, answer>>

sleep_ms(t) ==
  /\ pc[t] = "sleep"
  /\ offset' = [offset EXCEPT ![t] = (@ + 1) % N]
  /\ StartScan(t)
  /\ UNCHANGED <<len, closed, answer>>

\* The generated arm calls lcn_channel_recv on the channel of the answer,
\* which blocks (no step) while that channel is open and empty, and then runs
\* its body.
ReceiveArm(t) ==
  /\ pc[t] = "recv"
  /\ LET c == answer[t] IN
     \/ len[c] > 0 /\ len' = [len EXCEPT ![c] = @ - 1]
     \/ len[c] = 0 /\ closed[c] /\ UNCHANGED len
  /\ pc' = [pc EXCEPT ![t] = "idle"]
  /\ UNCHANGED <<closed, offset, i, all_closed, answer>>

\* Mutant: the two tests of a channel are made in the opposite order.
SwappedTestLength(t) ==
  /\ pc[t] = "closed?" /\ i[t] < N
  /\ idx(t) \notin Null
  /\ IF len[idx(t)] > 0
     THEN /\ pc' = [pc EXCEPT ![t] = "recv"]
          /\ answer' = [answer EXCEPT ![t] = idx(t)]
     ELSE pc' = [pc EXCEPT ![t] = "len?"] /\ UNCHANGED answer
  /\ UNCHANGED <<len, closed, offset, i, all_closed>>

SwappedTestClosed(t) ==
  /\ pc[t] = "len?"
  /\ all_closed' = [all_closed EXCEPT ![t] = @ /\ closed[idx(t)]]
  /\ pc' = [pc EXCEPT ![t] = "closed?"]
  /\ i' = [i EXCEPT ![t] = @ + 1]
  /\ UNCHANGED <<len, closed, offset, answer>>

SwappedSelectStep(t) ==
  \/ SkipNull(t)
  \/ SwappedTestLength(t)
  \/ SwappedTestClosed(t)
  \/ EndScan(t)
  \/ sleep_ms(t)
  \/ ReceiveArm(t)

SelectStep(t) ==
  \/ SkipNull(t)
  \/ TestClosed(t)
  \/ TestLength(t)
  \/ EndScan(t)
  \/ sleep_ms(t)
  \/ ReceiveArm(t)

Next ==
  \/ \E c \in Chan : Send(c) \/ Close(c) \/ RivalReceives(c)
  \/ \E t \in Selector : lcn_select(t) \/ SelectStep(t)

Spec == Init /\ [][Next]_vars

\* The threads keep running, and the program's loop keeps selecting.
FairSpec ==
  Spec /\ \A t \in Selector : WF_vars(lcn_select(t) \/ SelectStep(t))

-----------------------------------------------------------------------------
TypeOK ==
  /\ len \in [Chan -> 0 .. Capacity]
  /\ closed \in [Chan -> BOOLEAN]
  /\ pc \in [Selector -> {"idle", "closed?", "len?", "sleep", "recv"}]
  /\ offset \in [Selector -> Chan]
  /\ i \in [Selector -> 0 .. N]
  /\ all_closed \in [Selector -> BOOLEAN]
  /\ answer \in [Selector -> Chan \cup {-1, -2, NoAnswer}]
  /\ \A t \in Selector : pc[t] = "len?" => i[t] < N /\ idx(t) \in Open
  /\ \A t \in Selector : pc[t] = "recv" => answer[t] \in Open

\* select.h:16: lcn_select "Returns -1 if all channels are closed and empty",
\* and only then: the program that gets -1 may stop without losing an item,
\* although the scan tests the channels one call at a time while others send,
\* receive and close.
Drained(c) == closed[c] /\ len[c] = 0
MinusOneMeansDrained ==
  \A t \in Selector : answer[t] = -1 => \A c \in Open : Drained(c)

\* The arm that was chosen finds an item: its receive neither blocks nor
\* leaves the variable of the arm unset.  For a channel with no other consumer.
ChosenArmReady ==
  \A t \in Selector :
    pc[t] = "recv" /\ answer[t] \notin Rivals => len[answer[t]] > 0

\* A selector that scans while an item is waiting that nobody else can take, or
\* after the last channel was closed and drained, gets an answer.
SelectAnswers ==
  \A t \in Selector :
    /\ (\E c \in Open \ Rivals : len[c] > 0) ~> pc[t] = "recv"
    /\ (\A c \in Open : Drained(c)) ~> answer[t] = -1
=============================================================================
