---------------------------- MODULE ChannelProofs ----------------------------
(***************************************************************************)
(* Theorems about Channel, for every set of threads and messages and every *)
(* requested capacity.                                                     *)
(***************************************************************************)
EXTENDS Channel, FiniteSetTheorems, SequenceTheorems, TLAPS

LEMMA CapacityType == capacity \in Nat \ {0} /\ Slot = 0 .. capacity - 1
  BY ChannelAssumption DEF capacity, unbuffered, Slot

\* In a ring of n slots, the slot i places after slot h.
LEMMA RingIndex ==
  ASSUME NEW n \in Nat \ {0}, NEW h \in 0 .. n - 1, NEW i \in 0 .. n
  PROVE  /\ (h + i) % n = IF h + i < n THEN h + i ELSE h + i - n
         /\ (h + i) % n \in 0 .. n - 1
  OBVIOUS

\* Fewer than n places apart, two slots are different.
LEMMA RingDistinct ==
  ASSUME NEW n \in Nat \ {0}, NEW h \in 0 .. n - 1,
         NEW i \in 0 .. n - 1, NEW j \in 0 .. n - 1, i # j
  PROVE  (h + i) % n # (h + j) % n
  OBVIOUS

\* i places after the successor of h is i + 1 places after h.
LEMMA RingShift ==
  ASSUME NEW n \in Nat \ {0}, NEW h \in 0 .. n - 1, NEW i \in 0 .. n - 1
  PROVE  (((h + 1) % n) + i) % n = (h + (i + 1)) % n
  OBVIOUS

\* The successor of the slot i places after h is i + 1 places after h.
LEMMA RingNext ==
  ASSUME NEW n \in Nat \ {0}, NEW h \in 0 .. n - 1, NEW i \in 0 .. n - 1
  PROVE  (((h + i) % n) + 1) % n = (h + (i + 1)) % n
  OBVIOUS

LEMMA SignalledSubset ==
  ASSUME NEW W, NEW X \in Signalled(W)
  PROVE  X \subseteq W
  BY DEF Signalled

-----------------------------------------------------------------------------
(***************************************************************************)
(* TypeOK alone is not inductive: that a receive returns a message, and    *)
(* not the contents of a slot nobody wrote, depends on RingOK.             *)
(***************************************************************************)
IInv == TypeOK /\ RingOK

LEMMA SendKeepsIInv ==
  ASSUME NEW t \in Thread, NEW m \in Msg, IInv, t \notin not_full \cup not_empty,
         SendPuts(t, m)
  PROVE  IInv'
<1> USE CapacityType DEF IInv, SendPuts
<1>1. /\ head \in 0 .. capacity - 1 /\ head' = head
      /\ count \in 0 .. capacity - 1 /\ count' = count + 1
      /\ tail \in 0 .. capacity - 1 /\ tail = (head + count) % capacity
      /\ tail' = (tail + 1) % capacity
  BY DEF TypeOK, RingOK
<1>2. tail' = (head' + count') % capacity
  <2>1. (((head + count) % capacity) + 1) % capacity = (head + (count + 1)) % capacity
    BY <1>1, RingNext
  <2>2. QED BY <1>1, <2>1
<1>3. ASSUME NEW i \in 0 .. count' - 1
      PROVE  buffer'[(head' + i) % capacity] \in Msg
  <2>1. CASE i = count
    BY <1>1, <2>1, buffer'[tail] = m DEF TypeOK
  <2>2. CASE i \in 0 .. count - 1
    <3>1. (head + i) % capacity # (head + count) % capacity
      <4> HIDE DEF IInv, SendPuts
      <4>1. i # count /\ i \in 0 .. capacity - 1
        BY <1>1, <2>2
      <4>2. QED BY <1>1, <4>1, RingDistinct
    <3>2. buffer[(head + i) % capacity] \in Msg
      BY <2>2 DEF RingOK
    <3>3. (head + i) % capacity \in 0 .. capacity - 1
      <4> HIDE DEF IInv, SendPuts
      <4>1. i \in 0 .. capacity
        BY <1>1, <2>2
      <4>2. QED BY <1>1, <4>1, RingIndex
    <3>4. /\ buffer' = [buffer EXCEPT ![tail] = m]
          /\ buffer \in [0 .. capacity - 1 -> Msg \cup {NoMsg}]
      BY DEF TypeOK
    <3>5. buffer'[(head + i) % capacity] = buffer[(head + i) % capacity]
      <4> HIDE DEF IInv, SendPuts
      <4> DEFINE k == (head + i) % capacity
      <4>1. k # tail /\ k \in 0 .. capacity - 1
        BY <1>1, <3>1, <3>3, <3>4
      <4> HIDE DEF k
      <4>2. buffer'[k] = buffer[k]
        BY <3>4, <4>1
      <4>3. QED BY <4>2 DEF k
    <3>6. QED BY <1>1, <3>2, <3>5
  <2>3. QED BY <1>1, <1>3, <2>1, <2>2
<1>4. RingOK'
  BY <1>2, <1>3 DEF RingOK
<1>5. not_empty' \subseteq not_empty
  BY SignalledSubset
<1>6. tail' \in Slot
  BY <1>1, RingIndex, 1 \in 0 .. capacity
<1>7. TypeOK'
  <2>1. CASE unbuffered
    BY <1>1, <1>5, <1>6, <2>1, ChannelAssumption DEF TypeOK, Return, Sleep
  <2>2. CASE ~unbuffered
    <3>1. arg' = [arg EXCEPT ![t] = NoMsg] /\ pc' = [pc EXCEPT ![t] = "idle"]
      BY <2>2 DEF Return
    <3>2. \A u \in Thread : pc'[u] \in {"send", "handoff"} <=> arg'[u] \in Msg
      BY <3>1, ChannelAssumption DEF TypeOK
    <3>3. /\ not_empty' \subseteq {u \in Thread : pc'[u] = "recv"}
          /\ not_full' \subseteq {u \in Thread : pc'[u] \in {"send", "handoff"}}
      BY <1>5, <2>2, <3>1 DEF TypeOK
    <3>4. /\ buffer' \in [Slot -> Msg \cup {NoMsg}]
          /\ head' \in Slot /\ tail' \in Slot /\ count' \in 0 .. capacity
          /\ closed' \in BOOLEAN
      BY <1>1, <1>6 DEF TypeOK
    <3>5. /\ pc' \in [Thread -> {"idle", "send", "handoff", "recv"}]
          /\ arg' \in [Thread -> Msg \cup {NoMsg}]
          /\ result' \in [Thread -> Msg \cup {"none", "true", "false"}]
      BY <2>2, <3>1 DEF TypeOK, Return
    <3>6. QED
      BY <3>2, <3>3, <3>4, <3>5 DEF TypeOK
  <2>3. QED BY <2>1, <2>2
<1>8. QED BY <1>4, <1>7

LEMMA TakeKeepsIInv ==
  ASSUME NEW t \in Thread, IInv, t \notin not_full \cup not_empty,
         count # 0, TakeHead(t)
  PROVE  IInv'
<1> USE CapacityType DEF IInv, TakeHead
<1>1. /\ head \in 0 .. capacity - 1 /\ head' = (head + 1) % capacity
      /\ count \in 1 .. capacity /\ count' = count - 1
      /\ tail = (head + count) % capacity /\ tail' = tail
      /\ buffer' = buffer
  BY DEF TypeOK, RingOK
<1>2. head' \in Slot
  BY <1>1, RingIndex, 1 \in 0 .. capacity
<1>3. buffer[head] \in Msg
  <2>1. (head + 0) % capacity = head
    BY <1>1
  <2>2. QED BY <1>1, <2>1, 0 \in 0 .. count - 1 DEF RingOK
<1>4. ASSUME NEW i \in 0 .. capacity - 1
      PROVE  (head' + i) % capacity = (head + (i + 1)) % capacity
  BY <1>1, RingShift
<1>5. tail' = (head' + count') % capacity
  <2>1. (head' + (count - 1)) % capacity = (head + ((count - 1) + 1)) % capacity
    BY <1>1, <1>4, count - 1 \in 0 .. capacity - 1
  <2>2. head + ((count - 1) + 1) = head + count
    BY <1>1
  <2>3. QED BY <1>1, <2>1, <2>2
<1>6. ASSUME NEW i \in 0 .. count' - 1
      PROVE  buffer'[(head' + i) % capacity] \in Msg
  <2>1. i \in 0 .. capacity - 1 /\ i + 1 \in 0 .. count - 1
    BY <1>1, <1>6
  <2>2. QED BY <1>1, <1>4, <2>1 DEF RingOK
<1>7. RingOK'
  BY <1>5, <1>6 DEF RingOK
<1>8. not_full' \subseteq not_full
  BY SignalledSubset
<1>9. TypeOK'
  BY <1>1, <1>2, <1>3, <1>8, ChannelAssumption DEF TypeOK, Return
<1>10. QED BY <1>7, <1>9

\* Steps that leave the ring alone keep RingOK.
LEMMA RingUnchanged ==
  RingOK /\ UNCHANGED <<buffer, head, tail, count>> => RingOK'
  BY DEF RingOK

LEMMA SendLoopKeepsIInv ==
  ASSUME NEW t \in Thread, NEW m \in Msg, IInv, t \notin not_full \cup not_empty,
         SendLoop(t, m)
  PROVE  IInv'
<1>1. CASE SendBlocks(t, m)
  BY <1>1, RingUnchanged, ChannelAssumption DEF SendBlocks, IInv, TypeOK, Sleep
<1>2. CASE SendRefused(t)
  BY <1>2, RingUnchanged, ChannelAssumption DEF SendRefused, IInv, TypeOK, Return
<1>3. CASE SendPuts(t, m)
  BY <1>3, SendKeepsIInv
<1>4. QED BY <1>1, <1>2, <1>3 DEF SendLoop

LEMMA RecvLoopKeepsIInv ==
  ASSUME NEW t \in Thread, IInv, t \notin not_full \cup not_empty, RecvLoop(t)
  PROVE  IInv'
<1>1. CASE RecvBlocks(t)
  BY <1>1, RingUnchanged, ChannelAssumption DEF RecvBlocks, IInv, TypeOK, Sleep
<1>2. CASE RecvRefused(t)
  BY <1>2, RingUnchanged, ChannelAssumption DEF RecvRefused, IInv, TypeOK, Return
<1>3. CASE count # 0 /\ TakeHead(t)
  BY <1>3, TakeKeepsIInv
<1>4. QED BY <1>1, <1>2, <1>3 DEF RecvLoop

LEMMA IInvInductive == IInv /\ [Next]_vars => IInv'
<1> SUFFICES ASSUME IInv, [Next]_vars PROVE IInv'
  OBVIOUS
<1>1. ASSUME NEW t \in Thread
      PROVE  /\ pc[t] # "recv" => t \notin not_empty
             /\ pc[t] \notin {"send", "handoff"} => t \notin not_full
             /\ pc[t] = "send" => arg[t] \in Msg
  BY <1>1 DEF IInv, TypeOK
<1>2. ASSUME NEW t \in Thread, NEW m \in Msg, lcn_channel_send(t, m)
      PROVE  IInv'
  BY <1>1, <1>2, SendLoopKeepsIInv DEF lcn_channel_send
<1>3. ASSUME NEW t \in Thread, SendWakes(t)
      PROVE  IInv'
  BY <1>1, <1>3, SendLoopKeepsIInv DEF SendWakes
<1>4. ASSUME NEW t \in Thread, HandoffWakes(t)
      PROVE  IInv'
  <2>1. CASE HandoffBlocks(t)
    BY <1>4, <2>1, RingUnchanged DEF HandoffWakes, HandoffBlocks, IInv, TypeOK
  <2>2. CASE HandoffReturns(t)
    BY <1>4, <2>2, RingUnchanged, ChannelAssumption
       DEF HandoffWakes, HandoffReturns, IInv, TypeOK, Return
  <2>3. QED BY <1>4, <2>1, <2>2 DEF HandoffWakes
<1>5. ASSUME NEW t \in Thread, lcn_channel_recv(t)
      PROVE  IInv'
  BY <1>1, <1>5, RecvLoopKeepsIInv DEF lcn_channel_recv
<1>6. ASSUME NEW t \in Thread, RecvWakes(t)
      PROVE  IInv'
  BY <1>1, <1>6, RecvLoopKeepsIInv DEF RecvWakes
<1>7. ASSUME NEW t \in Thread, lcn_channel_try_recv(t)
      PROVE  IInv'
  <2>1. CASE count # 0 /\ TakeHead(t)
    BY <1>1, <1>7, <2>1, TakeKeepsIInv DEF lcn_channel_try_recv
  <2>2. CASE count = 0
    BY <1>7, <2>2, RingUnchanged, ChannelAssumption
       DEF lcn_channel_try_recv, IInv, TypeOK, Return
  <2>3. QED BY <1>7, <2>1, <2>2 DEF lcn_channel_try_recv
<1>8. ASSUME NEW t \in Thread, lcn_channel_close(t)
      PROVE  IInv'
  BY <1>8, RingUnchanged DEF lcn_channel_close, IInv, TypeOK
<1>9. ASSUME NEW t \in Thread, SpuriousWakeup(t)
      PROVE  IInv'
  BY <1>9, RingUnchanged DEF SpuriousWakeup, IInv, TypeOK
<1>10. CASE UNCHANGED vars
  BY <1>10, RingUnchanged DEF vars, IInv, TypeOK
<1>11. QED
  BY <1>2, <1>3, <1>4, <1>5, <1>6, <1>7, <1>8, <1>9, <1>10 DEF Next

LEMMA InitIInv == Init => IInv
<1>1. Init => IInv
  <2>1. (0 + 0) % capacity = 0 /\ 0 .. 0 - 1 = {}
    BY CapacityType
  <2>2. Init => TypeOK
    <3>1. Init => \A t \in Thread : pc[t] = "idle" /\ arg[t] = NoMsg
      BY DEF Init
    <3>2. 0 \in Slot /\ 0 \in 0 .. capacity
      BY CapacityType
    <3>3. QED
      BY <3>1, <3>2, ChannelAssumption DEF Init, lcn_channel_new, TypeOK
  <2>3. Init => RingOK
    BY <2>1 DEF Init, lcn_channel_new, RingOK
  <2>4. QED BY <2>2, <2>3 DEF IInv
<1>2. QED BY <1>1

LEMMA SpecIInv == Spec => []IInv
  BY InitIInv, IInvInductive, PTL DEF Spec

\* The fields of the struct and the threads' local state keep their types in
\* every execution of the operations of channel.c.
THEOREM Typing == Spec => []TypeOK
  BY SpecIInv, PTL DEF IInv

\* The index arithmetic of send, recv and try_recv agrees in every execution:
\* no item is overwritten before it was received, none is read twice.
THEOREM Ring == Spec => []RingOK
  BY SpecIInv, PTL DEF IInv

-----------------------------------------------------------------------------
\* Sets of threads are finite, so they have a size.
LEMMA ThreadSets ==
  ASSUME NEW A \in SUBSET Thread
  PROVE  IsFiniteSet(A) /\ Cardinality(A) \in Nat
  BY FS_Subset, FS_CardinalityType, ChannelAssumption

\* A thread joins a set of threads.
LEMMA OneMore ==
  ASSUME NEW A \in SUBSET Thread, NEW B \in SUBSET Thread, NEW t \in B,
         A \subseteq B, t \notin A
  PROVE  Cardinality(B) >= Cardinality(A) + 1
<1>1. Cardinality(A \cup {t}) = Cardinality(A) + 1
  BY ThreadSets, FS_AddElement
<1>2. Cardinality(A \cup {t}) <= Cardinality(B)
  BY ThreadSets, FS_Subset, A \cup {t} \subseteq B
<1>3. QED BY <1>1, <1>2, ThreadSets

\* At most one thread leaves a set of threads.
LEMMA OneLess ==
  ASSUME NEW A \in SUBSET Thread, NEW B \in SUBSET Thread, NEW t \in Thread,
         A \subseteq B \cup {t}
  PROVE  Cardinality(B) >= Cardinality(A) - 1
<1>1. Cardinality(A) <= Cardinality(B \cup {t})
  BY ThreadSets, FS_Subset, B \cup {t} \in SUBSET Thread
<1>2. Cardinality(B \cup {t}) <= Cardinality(B) + 1
  BY ThreadSets, FS_AddElement, B \cup {t} \in SUBSET Thread
<1>3. QED BY <1>1, <1>2, ThreadSets, B \cup {t} \in SUBSET Thread

LEMMA NoFewer ==
  ASSUME NEW A \in SUBSET Thread, NEW B \in SUBSET Thread, A \subseteq B
  PROVE  Cardinality(A) <= Cardinality(B)
  BY ThreadSets, FS_Subset

\* A signal on a condvar with sleepers takes exactly one of them out.
LEMMA SignalledOne ==
  ASSUME NEW W, NEW X \in Signalled(W), W # {}
  PROVE  \E w \in W : X = W \ {w}
  BY DEF Signalled

(***************************************************************************)
(* The inductive form of NoLostWakeup: a buffered channel has no sender in *)
(* the hand-off loop, so whoever a receiver wakes can use the free slot.   *)
(***************************************************************************)
WakeupInv ==
  /\ IInv
  /\ NoLostWakeup
  /\ ~unbuffered => \A t \in Thread : pc[t] # "handoff"

LEMMA AwakeTypes ==
  /\ AwakeReceivers \in SUBSET Thread /\ AwakeSenders \in SUBSET Thread
  /\ AwakeReceivers' \in SUBSET Thread /\ AwakeSenders' \in SUBSET Thread
  BY DEF AwakeReceivers, AwakeSenders

LEMMA SendPutsKeepsWakeups ==
  ASSUME WakeupInv, NEW t \in Thread, NEW m \in Msg,
         pc[t] = "idle" \/ pc[t] = "send", t \notin not_full, SendPuts(t, m)
  PROVE  NoLostWakeup' /\ (~unbuffered => \A u \in Thread : pc'[u] # "handoff")
<1> USE AwakeTypes DEF SendPuts
<1>1. /\ TypeOK /\ ReceiversWoken /\ SendersWoken /\ capacity \in Nat
      /\ count \in Nat /\ count' = count + 1 /\ ~closed /\ ~closed'
  BY CapacityType DEF WakeupInv, IInv, TypeOK, NoLostWakeup
<1>2. \A u \in Thread \ {t} : pc'[u] = pc[u]
  BY <1>1 DEF TypeOK, Return, Sleep
<1>3. pc'[t] \in {"idle", "handoff"} /\ (~unbuffered => pc'[t] = "idle")
  BY <1>1 DEF TypeOK, Return, Sleep
<1>4. ReceiversWoken'
  <2>1. SUFFICES ASSUME not_empty' # {}
                 PROVE  count' <= Cardinality(AwakeReceivers')
    BY DEF ReceiversWoken
  <2>2. PICK r \in not_empty : not_empty' = not_empty \ {r}
    BY <2>1, SignalledOne DEF Signalled
  <2>3. r \in Thread /\ pc[r] = "recv" /\ r # t
    BY <1>1, <2>2 DEF TypeOK
  <2>4. AwakeReceivers \subseteq AwakeReceivers'
    BY <1>2, <2>2 DEF AwakeReceivers
  <2>5. r \in AwakeReceivers' /\ r \notin AwakeReceivers
    BY <1>2, <2>2, <2>3 DEF AwakeReceivers
  <2>6. Cardinality(AwakeReceivers') >= Cardinality(AwakeReceivers) + 1
    BY <2>4, <2>5, OneMore
  <2>7. count <= Cardinality(AwakeReceivers)
    BY <1>1, <2>2 DEF ReceiversWoken
  <2>8. QED BY <1>1, <2>6, <2>7, ThreadSets
<1>5. SendersWoken'
  <2>1. SUFFICES ASSUME ~unbuffered, not_full' # {}
                 PROVE  capacity - count' <= Cardinality(AwakeSenders')
    BY DEF SendersWoken, capacity, unbuffered
  <2>2. not_full' = not_full
    BY <2>1
  <2>3. AwakeSenders \subseteq AwakeSenders' \cup {t}
    BY <1>2, <2>2 DEF AwakeSenders
  <2>4. Cardinality(AwakeSenders') >= Cardinality(AwakeSenders) - 1
    BY <2>3, OneLess
  <2>5. capacity - count <= Cardinality(AwakeSenders)
    BY <1>1, <2>1, <2>2 DEF SendersWoken
  <2>6. QED BY <1>1, <2>4, <2>5, ThreadSets
<1>6. ~unbuffered => \A u \in Thread : pc'[u] # "handoff"
  BY <1>2, <1>3 DEF WakeupInv
<1>7. QED BY <1>1, <1>4, <1>5, <1>6 DEF NoLostWakeup

LEMMA TakeHeadKeepsWakeups ==
  ASSUME WakeupInv, NEW t \in Thread, count # 0,
         pc[t] = "idle" \/ pc[t] = "recv", t \notin not_empty, TakeHead(t)
  PROVE  NoLostWakeup' /\ (~unbuffered => \A u \in Thread : pc'[u] # "handoff")
<1> USE AwakeTypes DEF TakeHead
<1>1. /\ TypeOK /\ ReceiversWoken /\ SendersWoken /\ capacity \in Nat
      /\ count \in Nat /\ count' = count - 1 /\ closed' = closed
  BY CapacityType DEF WakeupInv, IInv, TypeOK, NoLostWakeup
<1>2. /\ \A u \in Thread \ {t} : pc'[u] = pc[u]
      /\ pc'[t] = "idle"
  BY <1>1 DEF TypeOK, Return
<1>3. ReceiversWoken'
  <2>1. SUFFICES ASSUME not_empty' # {}
                 PROVE  count' <= Cardinality(AwakeReceivers')
    BY DEF ReceiversWoken
  <2>2. AwakeReceivers \subseteq AwakeReceivers' \cup {t}
    BY <1>2 DEF AwakeReceivers
  <2>3. Cardinality(AwakeReceivers') >= Cardinality(AwakeReceivers) - 1
    BY <2>2, OneLess
  <2>4. count <= Cardinality(AwakeReceivers)
    BY <1>1, <2>1 DEF ReceiversWoken
  <2>5. QED BY <1>1, <2>3, <2>4, ThreadSets
<1>4. SendersWoken'
  <2>1. SUFFICES ASSUME ~unbuffered, not_full' # {}
                 PROVE  capacity - count' <= Cardinality(AwakeSenders')
    BY DEF SendersWoken, capacity, unbuffered
  <2>2. PICK s \in not_full : not_full' = not_full \ {s}
    BY <2>1, SignalledOne DEF Signalled
  <2>3. s \in Thread /\ pc[s] = "send" /\ s # t
    BY <1>1, <2>1, <2>2 DEF TypeOK, WakeupInv
  <2>4. AwakeSenders \subseteq AwakeSenders'
    BY <1>2, <2>2 DEF AwakeSenders
  <2>5. s \in AwakeSenders' /\ s \notin AwakeSenders
    BY <1>2, <2>2, <2>3 DEF AwakeSenders
  <2>6. Cardinality(AwakeSenders') >= Cardinality(AwakeSenders) + 1
    BY <2>4, <2>5, OneMore
  <2>7. capacity - count <= Cardinality(AwakeSenders)
    BY <1>1, <2>1, <2>2 DEF SendersWoken
  <2>8. QED BY <1>1, <2>6, <2>7, ThreadSets
<1>5. closed' => not_empty' = {} /\ not_full' = {}
  BY <1>1 DEF WakeupInv, NoLostWakeup, Signalled
<1>6. ~unbuffered => \A u \in Thread : pc'[u] # "handoff"
  BY <1>2 DEF WakeupInv
<1>7. QED BY <1>3, <1>4, <1>5, <1>6 DEF NoLostWakeup

\* Steps that move no item keep the wakeups: a thread falls asleep only when
\* there is nothing for it to do, and a thread leaves with nothing only when
\* the channel is closed.
LEMMA OtherStepsKeepWakeups ==
  ASSUME WakeupInv, NEW t \in Thread, NEW m,
         \/ pc[t] \in {"idle", "send"} /\ t \notin not_full
            /\ (SendBlocks(t, m) \/ SendRefused(t))
         \/ HandoffWakes(t)
         \/ pc[t] \in {"idle", "recv"} /\ t \notin not_empty
            /\ (RecvBlocks(t) \/ RecvRefused(t))
         \/ lcn_channel_try_recv(t) /\ count = 0
         \/ lcn_channel_close(t)
         \/ SpuriousWakeup(t)
  PROVE  NoLostWakeup' /\ (~unbuffered => \A u \in Thread : pc'[u] # "handoff")
<1> USE AwakeTypes
<1>0. /\ TypeOK /\ ReceiversWoken /\ SendersWoken /\ capacity \in Nat \ {0}
      /\ count \in 0 .. capacity
      /\ closed => not_empty = {} /\ not_full = {}
      /\ ~unbuffered => \A u \in Thread : pc[u] # "handoff"
  BY CapacityType DEF WakeupInv, IInv, TypeOK, NoLostWakeup
<1>1. CASE SendBlocks(t, m) /\ pc[t] \in {"idle", "send"} /\ t \notin not_full
  <2>1. AwakeReceivers' = AwakeReceivers
    BY <1>0, <1>1 DEF SendBlocks, Sleep, AwakeReceivers, TypeOK
  <2>2. ReceiversWoken'
    BY <1>0, <1>1, <2>1 DEF SendBlocks, ReceiversWoken
  <2>3. SendersWoken'
    BY <1>0, <1>1, ThreadSets DEF SendBlocks, SendersWoken, capacity, unbuffered
  <2>4. QED
    BY <1>0, <1>1, <2>2, <2>3 DEF SendBlocks, Sleep, TypeOK, NoLostWakeup
<1>2. CASE closed /\ (SendRefused(t) \/ RecvRefused(t) \/ HandoffReturns(t))
  BY <1>0, <1>2
     DEF SendRefused, RecvRefused, HandoffReturns, Return, TypeOK, NoLostWakeup,
         ReceiversWoken, SendersWoken, capacity, unbuffered
<1>3. CASE RecvBlocks(t) /\ pc[t] \in {"idle", "recv"} /\ t \notin not_empty
  <2>1. AwakeSenders' = AwakeSenders
    BY <1>0, <1>3 DEF RecvBlocks, Sleep, AwakeSenders, TypeOK
  <2>2. SendersWoken'
    BY <1>0, <1>3, <2>1 DEF RecvBlocks, SendersWoken, capacity, unbuffered
  <2>3. ReceiversWoken'
    BY <1>0, <1>3, ThreadSets DEF RecvBlocks, ReceiversWoken
  <2>4. QED
    BY <1>0, <1>3, <2>2, <2>3 DEF RecvBlocks, Sleep, TypeOK, NoLostWakeup
<1>4. CASE HandoffWakes(t) /\ ~closed
  <2>1. unbuffered /\ pc[t] = "handoff"
    BY <1>0, <1>4 DEF HandoffWakes
  <2>2. AwakeReceivers' = AwakeReceivers /\ UNCHANGED <<count, not_empty, closed>>
    BY <1>0, <1>4
       DEF HandoffWakes, HandoffBlocks, HandoffReturns, Return, AwakeReceivers, TypeOK
  <2>3. QED
    BY <1>0, <1>4, <2>1, <2>2
       DEF NoLostWakeup, ReceiversWoken, SendersWoken, unbuffered
<1>5. CASE lcn_channel_try_recv(t) /\ count = 0
  <2>1. pc' = pc /\ UNCHANGED <<count, not_empty, not_full, closed>>
    <3>1. /\ pc[t] = "idle" /\ pc' = [pc EXCEPT ![t] = "idle"]
          /\ UNCHANGED <<count, not_empty, not_full, closed>>
      BY <1>5 DEF lcn_channel_try_recv, Return
    <3>2. pc \in [Thread -> {"idle", "send", "handoff", "recv"}]
      BY <1>0 DEF TypeOK
    <3>3. pc' = pc
      BY <3>1, <3>2, Zenon
    <3>4. QED BY <3>1, <3>3
  <2>2. AwakeReceivers' = AwakeReceivers /\ AwakeSenders' = AwakeSenders
    BY <2>1 DEF AwakeReceivers, AwakeSenders
  <2>3. QED
    BY <1>0, <2>1, <2>2
       DEF NoLostWakeup, ReceiversWoken, SendersWoken, capacity, unbuffered
<1>6. CASE lcn_channel_close(t)
  BY <1>0, <1>6
     DEF lcn_channel_close, NoLostWakeup, ReceiversWoken, SendersWoken
<1>7. CASE SpuriousWakeup(t)
  <2>1. /\ AwakeReceivers \subseteq AwakeReceivers'
        /\ AwakeSenders \subseteq AwakeSenders'
        /\ not_empty' \subseteq not_empty /\ not_full' \subseteq not_full
        /\ UNCHANGED <<count, closed, pc>>
    BY <1>7 DEF SpuriousWakeup, AwakeReceivers, AwakeSenders
  <2>2. /\ Cardinality(AwakeReceivers) <= Cardinality(AwakeReceivers')
        /\ Cardinality(AwakeSenders) <= Cardinality(AwakeSenders')
    BY <2>1, NoFewer
  <2>3. ReceiversWoken'
    BY <1>0, <2>1, <2>2, ThreadSets DEF ReceiversWoken
  <2>4. SendersWoken'
    BY <1>0, <2>1, <2>2, ThreadSets DEF SendersWoken, capacity, unbuffered
  <2>5. QED BY <1>0, <2>1, <2>3, <2>4 DEF NoLostWakeup
<1>8. QED
  BY <1>0, <1>1, <1>2, <1>3, <1>4, <1>5, <1>6, <1>7
     DEF SendRefused, RecvRefused, HandoffWakes, HandoffBlocks

LEMMA WakeupInvInductive == WakeupInv /\ [Next]_vars => WakeupInv'
<1> SUFFICES ASSUME WakeupInv, [Next]_vars PROVE WakeupInv'
  OBVIOUS
<1>1. IInv'
  BY IInvInductive DEF WakeupInv
<1>2. ASSUME NEW t \in Thread
      PROVE  /\ pc[t] # "recv" => t \notin not_empty
             /\ pc[t] \notin {"send", "handoff"} => t \notin not_full
             /\ pc[t] = "send" => arg[t] \in Msg
  BY <1>2 DEF WakeupInv, IInv, TypeOK
<1> DEFINE Goal ==
      NoLostWakeup' /\ (~unbuffered => \A u \in Thread : pc'[u] # "handoff")
<1>3. ASSUME NEW t \in Thread, NEW m \in Msg, SendLoop(t, m),
             pc[t] = "idle" \/ pc[t] = "send", t \notin not_full
      PROVE  Goal
  <2>1. CASE SendPuts(t, m)
    BY <1>3, <2>1, SendPutsKeepsWakeups
  <2>2. CASE SendBlocks(t, m) \/ SendRefused(t)
    BY <1>3, <2>2, OtherStepsKeepWakeups
  <2>3. QED BY <1>3, <2>1, <2>2 DEF SendLoop
<1>4. ASSUME NEW t \in Thread, RecvLoop(t),
             pc[t] = "idle" \/ pc[t] = "recv", t \notin not_empty
      PROVE  Goal
  <2>1. CASE count # 0 /\ TakeHead(t)
    BY <1>4, <2>1, TakeHeadKeepsWakeups
  <2>2. CASE RecvBlocks(t) \/ RecvRefused(t)
    BY <1>4, <2>2, OtherStepsKeepWakeups
  <2>3. QED BY <1>4, <2>1, <2>2 DEF RecvLoop
<1>5. ASSUME NEW t \in Thread, NEW m \in Msg, lcn_channel_send(t, m)
      PROVE  Goal
  BY <1>2, <1>3, <1>5 DEF lcn_channel_send
<1>6. ASSUME NEW t \in Thread, SendWakes(t)
      PROVE  Goal
  BY <1>2, <1>3, <1>6 DEF SendWakes
<1>7. ASSUME NEW t \in Thread, lcn_channel_recv(t) \/ RecvWakes(t)
      PROVE  Goal
  BY <1>2, <1>4, <1>7 DEF lcn_channel_recv, RecvWakes
<1>8. ASSUME NEW t \in Thread, lcn_channel_try_recv(t)
      PROVE  Goal
  <2>1. CASE count # 0
    BY <1>2, <1>8, <2>1, TakeHeadKeepsWakeups DEF lcn_channel_try_recv
  <2>2. CASE count = 0
    BY <1>8, <2>2, OtherStepsKeepWakeups
  <2>3. QED BY <2>1, <2>2
<1>9. ASSUME NEW t \in Thread,
             HandoffWakes(t) \/ lcn_channel_close(t) \/ SpuriousWakeup(t)
      PROVE  Goal
  BY <1>9, OtherStepsKeepWakeups
<1>10. ASSUME UNCHANGED vars
       PROVE  Goal
  BY <1>10
     DEF vars, WakeupInv, NoLostWakeup, ReceiversWoken, SendersWoken, capacity,
         unbuffered, AwakeReceivers, AwakeSenders
<1>11. Goal
  <2> HIDE DEF Goal
  <2>1. QED BY <1>5, <1>6, <1>7, <1>8, <1>9, <1>10 DEF Next
<1>12. QED BY <1>1, <1>11 DEF WakeupInv

\* One pthread_cond_signal per send and per receive is enough: whatever thread
\* wins the mutex, every item a sleeping receiver could take, and every slot a
\* sleeping sender of a buffered channel could fill, has a thread woken for it.
THEOREM Wakeups == Spec => []NoLostWakeup
<1>1. Init => WakeupInv
  <2>1. Init => NoLostWakeup /\ \A t \in Thread : pc[t] # "handoff"
    BY DEF Init, lcn_channel_new, NoLostWakeup, ReceiversWoken, SendersWoken
  <2>2. QED BY <2>1, InitIInv DEF WakeupInv
<1>2. QED BY <1>1, WakeupInvInductive, PTL DEF Spec, WakeupInv

-----------------------------------------------------------------------------
\* The item of an open unbuffered channel keeps its sender: only a receive empties
\* the slot, and only then may the sender return.
LEMMA ItemHasSenderInductive ==
  IInv /\ ItemHasSender /\ [Next]_vars => ItemHasSender'
<1> SUFFICES ASSUME IInv, ItemHasSender, [Next]_vars,
                    unbuffered, count' > 0, ~closed'
             PROVE  \E t \in Thread : pc'[t] = "handoff" /\ arg'[t] = buffer'[head']
  BY DEF ItemHasSender, unbuffered
<1>1. /\ capacity = 1 /\ Slot = {0} /\ head = 0 /\ tail = 0 /\ count \in {0, 1}
      /\ pc \in [Thread -> {"idle", "send", "handoff", "recv"}]
      /\ arg \in [Thread -> Msg \cup {NoMsg}] /\ buffer \in [{0} -> Msg \cup {NoMsg}]
  BY CapacityType DEF IInv, TypeOK, capacity
<1>2. ASSUME NEW t \in Thread, NEW m \in Msg, SendPuts(t, m)
      PROVE  pc'[t] = "handoff" /\ arg'[t] = buffer'[head']
  BY <1>1, <1>2 DEF SendPuts, Sleep
<1>3. ASSUME NEW t \in Thread, count # 0, TakeHead(t)
      PROVE  FALSE
  BY <1>1, <1>3 DEF TakeHead
\* The other steps leave the slot, and every sender that waits in its hand-off.
<1>4. ASSUME UNCHANGED <<buffer, head, count, closed>>,
             \A u \in Thread : pc[u] = "handoff" => pc'[u] = "handoff" /\ arg'[u] = arg[u]
      PROVE  \E t \in Thread : pc'[t] = "handoff" /\ arg'[t] = buffer'[head']
  BY <1>4 DEF ItemHasSender
<1>5. ASSUME NEW t \in Thread, NEW m \in Msg, SendLoop(t, m), pc[t] \in {"idle", "send"}
      PROVE  \E u \in Thread : pc'[u] = "handoff" /\ arg'[u] = buffer'[head']
  <2>1. CASE SendBlocks(t, m)
    BY <1>1, <1>4, <1>5, <2>1 DEF SendBlocks, Sleep
  <2>2. CASE SendRefused(t)
    BY <2>2 DEF SendRefused
  <2>3. QED BY <1>2, <1>5, <2>1, <2>2 DEF SendLoop
<1>6. ASSUME NEW t \in Thread, RecvLoop(t), pc[t] \in {"idle", "recv"}
      PROVE  \E u \in Thread : pc'[u] = "handoff" /\ arg'[u] = buffer'[head']
  <2>1. CASE RecvBlocks(t)
    BY <1>1, <1>4, <1>6, <2>1 DEF RecvBlocks, Sleep
  <2>2. CASE RecvRefused(t)
    BY <2>2 DEF RecvRefused
  <2>3. QED BY <1>3, <1>6, <2>1, <2>2 DEF RecvLoop
<1>7. ASSUME NEW t \in Thread, HandoffWakes(t)
      PROVE  \E u \in Thread : pc'[u] = "handoff" /\ arg'[u] = buffer'[head']
  <2>1. CASE HandoffBlocks(t)
    BY <1>4, <2>1 DEF HandoffBlocks
  <2>2. CASE HandoffReturns(t)
    BY <1>1, <2>2 DEF HandoffReturns
  <2>3. QED BY <1>7, <2>1, <2>2 DEF HandoffWakes
<1>8. ASSUME NEW t \in Thread, lcn_channel_try_recv(t)
      PROVE  \E u \in Thread : pc'[u] = "handoff" /\ arg'[u] = buffer'[head']
  <2>1. CASE count = 0
    BY <1>8, <2>1 DEF lcn_channel_try_recv
  <2>2. QED BY <1>3, <1>8, <2>1 DEF lcn_channel_try_recv
<1>9. ASSUME NEW t \in Thread, lcn_channel_close(t) \/ SpuriousWakeup(t)
      PROVE  \E u \in Thread : pc'[u] = "handoff" /\ arg'[u] = buffer'[head']
  BY <1>4, <1>9 DEF lcn_channel_close, SpuriousWakeup
<1>10. CASE UNCHANGED vars
  BY <1>4, <1>10 DEF vars
<1>11. ASSUME NEW t \in Thread, NEW m \in Msg, lcn_channel_send(t, m)
       PROVE  \E u \in Thread : pc'[u] = "handoff" /\ arg'[u] = buffer'[head']
  BY <1>5, <1>11 DEF lcn_channel_send
<1>12. ASSUME NEW t \in Thread, SendWakes(t)
       PROVE  \E u \in Thread : pc'[u] = "handoff" /\ arg'[u] = buffer'[head']
  <2>1. arg[t] \in Msg
    BY <1>12 DEF SendWakes, IInv, TypeOK
  <2>2. QED BY <1>5, <1>12, <2>1 DEF SendWakes
<1>13. ASSUME NEW t \in Thread, lcn_channel_recv(t) \/ RecvWakes(t)
       PROVE  \E u \in Thread : pc'[u] = "handoff" /\ arg'[u] = buffer'[head']
  BY <1>6, <1>13 DEF lcn_channel_recv, RecvWakes
<1>14. QED
  BY <1>7, <1>8, <1>9, <1>10, <1>11, <1>12, <1>13 DEF Next

\* channel.c:7-9: while an unbuffered channel is open and holds an item, the sender
\* of that very item is still inside lcn_channel_send.
THEOREM SenderWaits == Spec => []ItemHasSender
<1>1. Init => ItemHasSender
  BY DEF Init, lcn_channel_new, ItemHasSender
<1>2. QED BY <1>1, SpecIInv, ItemHasSenderInductive, PTL DEF Spec

-----------------------------------------------------------------------------
(***************************************************************************)
(* The refinement: the stretch of the ring from head is the queue of       *)
(* BoundedFifo.                                                            *)
(***************************************************************************)
LEMMA ContentsType ==
  ASSUME IInv
  PROVE  /\ Contents \in Seq(Msg)
         /\ Len(Contents) = count
         /\ count \in 0 .. capacity /\ capacity \in Nat \ {0}
<1>1. /\ count \in 0 .. capacity /\ capacity \in Nat \ {0}
      /\ head \in 0 .. capacity - 1
  BY CapacityType DEF IInv, TypeOK
<1>2. ASSUME NEW i \in 1 .. count
      PROVE  buffer[(head + i - 1) % capacity] \in Msg
  <2>1. i - 1 \in 0 .. count - 1 /\ head + i - 1 = head + (i - 1)
    BY <1>1
  <2>2. QED BY <2>1 DEF IInv, RingOK
<1>3. QED BY <1>1, <1>2 DEF Contents

LEMMA ContentsUnchanged ==
  UNCHANGED <<buffer, head, count>> => Contents' = Contents
  BY DEF Contents, capacity, unbuffered

LEMMA TailItems ==
  ASSUME NEW S, NEW s \in Seq(S), s # << >>
  PROVE  Tail(s) = [i \in 1 .. Len(s) - 1 |-> s[i + 1]]
<1> DEFINE r == [i \in 1 .. Len(s) - 1 |-> s[i + 1]]
<1>1. /\ Tail(s) \in Seq(S) /\ Len(Tail(s)) = Len(s) - 1 /\ Len(s) \in Nat \ {0}
      /\ \A i \in 1 .. Len(Tail(s)) : Tail(s)[i] = s[i + 1]
  BY HeadTailProperties
<1>2. r \in Seq(S) /\ Len(r) = Len(s) - 1
  BY <1>1
<1>3. \A i \in 1 .. Len(s) - 1 : r[i] = s[i + 1]
  OBVIOUS
<1> HIDE DEF r
<1>4. Tail(s) = r
  BY <1>1, <1>2, <1>3, SeqEqual
<1>5. QED BY <1>4 DEF r

\* A send writes the slot after the items.
LEMMA ContentsPut ==
  ASSUME IInv, NEW t \in Thread, NEW m \in Msg, SendPuts(t, m)
  PROVE  Contents' = Append(Contents, m)
<1>1. /\ head \in 0 .. capacity - 1 /\ count \in 0 .. capacity - 1
      /\ tail = (head + count) % capacity /\ tail \in 0 .. capacity - 1
      /\ head' = head /\ count' = count + 1 /\ capacity \in Nat \ {0}
      /\ buffer' = [buffer EXCEPT ![tail] = m]
      /\ buffer \in [0 .. capacity - 1 -> Msg \cup {NoMsg}]
  BY CapacityType DEF IInv, TypeOK, RingOK, SendPuts
<1>2. ASSUME NEW i \in 1 .. count + 1
      PROVE  buffer'[(head + i - 1) % capacity] =
               IF i <= count THEN buffer[(head + i - 1) % capacity] ELSE m
  <2> DEFINE slot == (head + i - 1) % capacity
  <2>1. i - 1 \in 0 .. capacity - 1 /\ head + i - 1 = head + (i - 1)
    BY <1>1
  <2>2. slot \in 0 .. capacity - 1
    BY <1>1, <2>1, RingIndex
  <2>3. slot = tail <=> i = count + 1
    <3>1. CASE i = count + 1
      BY <1>1, <3>1
    <3>2. CASE i # count + 1
      <4>1. i - 1 # count
        BY <1>1, <3>2
      <4>2. QED BY <1>1, <2>1, <3>2, <4>1, RingDistinct
    <3>3. QED BY <3>1, <3>2
  <2> HIDE DEF slot
  <2>4. buffer'[slot] = IF slot = tail THEN m ELSE buffer[slot]
    BY <1>1, <2>2
  <2>5. i <= count <=> i # count + 1
    BY <1>1
  <2>6. QED BY <2>3, <2>4, <2>5 DEF slot
<1>3. Contents' = [i \in 1 .. count + 1 |-> buffer'[(head + i - 1) % capacity]]
  BY <1>1 DEF Contents, capacity, unbuffered
<1>4. Contents \in Seq(Msg) /\ Len(Contents) = count
  BY ContentsType
<1>5. Append(Contents, m) =
        [i \in 1 .. count + 1 |->
           IF i <= count THEN buffer[(head + i - 1) % capacity] ELSE m]
  BY <1>1, <1>4 DEF Contents
<1>6. QED BY <1>2, <1>3, <1>5

\* A receive returns the first item and keeps the others in their order.
LEMMA ContentsTake ==
  ASSUME IInv, NEW t \in Thread, count # 0, TakeHead(t)
  PROVE  /\ Contents # << >>
         /\ Contents' = Tail(Contents)
         /\ Head(Contents) = buffer[head]
<1>1. /\ head \in 0 .. capacity - 1 /\ count \in 1 .. capacity
      /\ head' = (head + 1) % capacity /\ count' = count - 1
      /\ capacity \in Nat \ {0} /\ buffer' = buffer
  BY CapacityType DEF IInv, TypeOK, TakeHead
<1>2. Contents \in Seq(Msg) /\ Len(Contents) = count
  BY ContentsType
<1>3. Head(Contents) = buffer[head]
  <2>1. (head + 1 - 1) % capacity = head
    BY <1>1
  <2>2. Head(Contents) = Contents[1] /\ 1 \in 1 .. count
    BY <1>1, <1>2
  <2>3. QED BY <2>1, <2>2 DEF Contents
<1>4. ASSUME NEW i \in 1 .. count - 1
      PROVE  (head' + i - 1) % capacity = (head + (i + 1) - 1) % capacity
  <2>1. i - 1 \in 0 .. capacity - 1
    BY <1>1
  <2>2. (((head + 1) % capacity) + (i - 1)) % capacity =
          (head + ((i - 1) + 1)) % capacity
    BY <1>1, <2>1, RingShift
  <2>3. /\ head' \in Int /\ head' + i - 1 = head' + (i - 1)
        /\ head + (i + 1) - 1 = head + ((i - 1) + 1)
    BY <1>1
  <2>4. QED BY <1>1, <2>2, <2>3
<1>5. Contents' = [i \in 1 .. count - 1 |-> buffer[(head' + i - 1) % capacity]]
  BY <1>1 DEF Contents, capacity, unbuffered
<1>6. Tail(Contents) =
        [i \in 1 .. count - 1 |-> buffer[(head + (i + 1) - 1) % capacity]]
  <2>1. Tail(Contents) = [i \in 1 .. count - 1 |-> Contents[i + 1]]
    BY <1>1, <1>2, TailItems
  <2>2. \A i \in 1 .. count - 1 : i + 1 \in 1 .. count
    BY <1>1
  <2>3. QED BY <2>1, <2>2 DEF Contents
<1>7. QED BY <1>1, <1>2, <1>3, <1>4, <1>5, <1>6

-----------------------------------------------------------------------------
\* Every first entry into send, and every return from its first wait, is a step
\* of the queue: the call blocks, is refused, or puts its item.
LEMMA SendImplements ==
  ASSUME IInv, NEW t \in Thread, NEW m \in Msg, SendLoop(t, m),
         pc[t] = "idle" \/ (pc[t] = "send" /\ arg[t] = m)
  PROVE  Fifo!FifoNext \/ UNCHANGED Fifo!fifoVars
<1>1. Contents \in Seq(Msg) /\ Len(Contents) = count /\ capacity \in Nat \ {0}
      /\ count \in 0 .. capacity
  BY ContentsType
<1>2. CASE SendBlocks(t, m)
  <2>1. Contents' = Contents /\ UNCHANGED <<closed, result>>
    BY <1>2, ContentsUnchanged DEF SendBlocks, Sleep
  <2>2. CASE pc[t] = "idle"
    <3>1. Fifo!BlockSend(t, m)
      BY <1>1, <1>2, <2>1, <2>2 DEF SendBlocks, Sleep, Fifo!BlockSend
    <3>2. QED BY <3>1 DEF Fifo!FifoNext
  <2>3. CASE pc[t] = "send" /\ arg[t] = m
    <3>1. pc' = pc /\ arg' = arg
      BY <1>2, <2>3 DEF SendBlocks, Sleep, IInv, TypeOK
    <3>2. QED BY <2>1, <3>1 DEF Fifo!fifoVars
  <2>4. QED BY <2>2, <2>3
<1>3. CASE SendRefused(t)
  <2>1. Fifo!RefuseSend(t)
    BY <1>3, ContentsUnchanged DEF SendRefused, Return, Fifo!RefuseSend, Fifo!Return
  <2>2. QED BY <2>1 DEF Fifo!FifoNext
<1>4. CASE SendPuts(t, m)
  <2>1. Contents' = Append(Contents, m)
    BY <1>4, ContentsPut
  <2>2. Len(Contents) < capacity
    BY <1>1, <1>4 DEF SendPuts
  <2>3. Fifo!Put(t, m)
    BY <1>4, <2>1, <2>2
       DEF SendPuts, Return, Sleep, Fifo!Put, Fifo!CallsSend, Fifo!Return
  <2>4. QED BY <2>3 DEF Fifo!FifoNext
<1>5. QED BY <1>2, <1>3, <1>4 DEF SendLoop

LEMMA TakeImplements ==
  ASSUME IInv, NEW t \in Thread, count # 0, TakeHead(t), pc[t] \in {"idle", "recv"}
  PROVE  Fifo!FifoNext
<1>1. Fifo!Take(t)
  BY ContentsTake DEF TakeHead, Return, Fifo!Take, Fifo!CallsReceive, Fifo!Return
<1>2. QED BY <1>1 DEF Fifo!FifoNext

LEMMA ReceiveImplements ==
  ASSUME IInv, NEW t \in Thread, RecvLoop(t), pc[t] \in {"idle", "recv"}
  PROVE  Fifo!FifoNext \/ UNCHANGED Fifo!fifoVars
<1>1. count = 0 <=> Contents = << >>
  BY ContentsType
<1>2. CASE RecvBlocks(t)
  <2>1. Contents' = Contents /\ UNCHANGED <<closed, result>>
    BY <1>2, ContentsUnchanged DEF RecvBlocks, Sleep
  <2>2. arg[t] \notin Msg /\ arg \in [Thread -> Msg \cup {NoMsg}]
    BY DEF IInv, TypeOK
  <2>3. arg' = arg
    BY <1>2, <2>2 DEF RecvBlocks, Sleep
  <2>4. CASE pc[t] = "idle"
    <3>1. Fifo!BlockReceive(t)
      BY <1>1, <1>2, <2>1, <2>3, <2>4 DEF RecvBlocks, Sleep, Fifo!BlockReceive
    <3>2. QED BY <3>1 DEF Fifo!FifoNext
  <2>5. CASE pc[t] = "recv"
    <3>1. pc' = pc
      BY <1>2, <2>5 DEF RecvBlocks, Sleep, IInv, TypeOK
    <3>2. QED BY <2>1, <2>3, <3>1 DEF Fifo!fifoVars
  <2>6. QED BY <2>4, <2>5
<1>3. CASE RecvRefused(t)
  <2>1. Fifo!RefuseReceive(t)
    BY <1>1, <1>3, ContentsUnchanged
       DEF RecvRefused, Return, Fifo!RefuseReceive, Fifo!Return
  <2>2. QED BY <2>1 DEF Fifo!FifoNext
<1>4. CASE count # 0 /\ TakeHead(t)
  BY <1>4, TakeImplements
<1>5. QED BY <1>2, <1>3, <1>4 DEF RecvLoop

\* Every critical section of channel.c is a step of the queue or changes nothing
\* a caller can see; a signal or a spurious wakeup is never visible.
LEMMA StepImplements ==
  IInv /\ [Next]_vars => [Fifo!FifoNext]_(Fifo!fifoVars)
<1> SUFFICES ASSUME IInv, [Next]_vars
             PROVE  Fifo!FifoNext \/ UNCHANGED Fifo!fifoVars
  OBVIOUS
<1> DEFINE Goal == Fifo!FifoNext \/ UNCHANGED Fifo!fifoVars
<1>1. count = 0 <=> Contents = << >>
  BY ContentsType
<1>2. ASSUME NEW t \in Thread, NEW m \in Msg, lcn_channel_send(t, m)
      PROVE  Goal
  BY <1>2, SendImplements DEF lcn_channel_send
<1>3. ASSUME NEW t \in Thread, SendWakes(t)
      PROVE  Goal
  <2>1. arg[t] \in Msg
    BY <1>3 DEF SendWakes, IInv, TypeOK
  <2>2. QED BY <1>3, <2>1, SendImplements DEF SendWakes
<1>4. ASSUME NEW t \in Thread, HandoffWakes(t)
      PROVE  Goal
  <2>1. CASE HandoffBlocks(t)
    <3>1. Contents' = Contents
      BY <2>1, ContentsUnchanged DEF HandoffBlocks
    <3>2. QED BY <2>1, <3>1 DEF HandoffBlocks, Fifo!fifoVars
  <2>2. CASE HandoffReturns(t)
    <3>1. Fifo!FinishHandoff(t)
      BY <1>1, <1>4, <2>2, ContentsUnchanged
         DEF HandoffWakes, HandoffReturns, Return, Fifo!FinishHandoff, Fifo!Return
    <3>2. QED BY <3>1 DEF Fifo!FifoNext
  <2>3. QED BY <1>4, <2>1, <2>2 DEF HandoffWakes
<1>5. ASSUME NEW t \in Thread, lcn_channel_recv(t) \/ RecvWakes(t)
      PROVE  Goal
  BY <1>5, ReceiveImplements DEF lcn_channel_recv, RecvWakes
<1>6. ASSUME NEW t \in Thread, lcn_channel_try_recv(t)
      PROVE  Goal
  <2>1. CASE count = 0
    <3>1. Fifo!RefuseReceive(t)
      BY <1>1, <1>6, <2>1, ContentsUnchanged
         DEF lcn_channel_try_recv, Return, Fifo!RefuseReceive, Fifo!Return
    <3>2. QED BY <3>1 DEF Fifo!FifoNext
  <2>2. CASE count # 0
    BY <1>6, <2>2, TakeImplements DEF lcn_channel_try_recv
  <2>3. QED BY <2>1, <2>2
<1>7. ASSUME NEW t \in Thread, lcn_channel_close(t)
      PROVE  Goal
  <2>1. Fifo!Close
    BY <1>7, ContentsUnchanged DEF lcn_channel_close, Fifo!Close
  <2>2. QED BY <2>1 DEF Fifo!FifoNext
<1>8. ASSUME NEW t \in Thread, SpuriousWakeup(t)
      PROVE  Goal
  BY <1>8, ContentsUnchanged DEF SpuriousWakeup, Fifo!fifoVars
<1>9. ASSUME UNCHANGED vars
      PROVE  Goal
  BY <1>9, ContentsUnchanged DEF vars, Fifo!fifoVars
<1>10. Goal
  <2> HIDE DEF Goal
  <2>1. QED BY <1>2, <1>3, <1>4, <1>5, <1>6, <1>7, <1>8, <1>9 DEF Next
<1>11. QED BY <1>10

\* channel.c behaves as a queue of at most `capacity` items: whatever the
\* interleaving of its critical sections, each send, receive and close takes
\* effect atomically, in order, with the result the queue dictates.
THEOREM Implements == Spec => ImplementsFifo
<1>1. Init => Fifo!FifoInit
  <2>1. SUFFICES ASSUME Init PROVE Fifo!FifoInit
    OBVIOUS
  <2>2. Contents = << >>
    <3>1. IInv /\ count = 0
      BY <2>1, InitIInv DEF Init, lcn_channel_new
    <3>2. QED BY <3>1, ContentsType
  <2>3. QED BY <2>1, <2>2 DEF Init, lcn_channel_new, Fifo!FifoInit
<1>2. QED
  BY <1>1, SpecIInv, StepImplements, PTL
     DEF Spec, ImplementsFifo, Fifo!FifoSafety
=============================================================================
