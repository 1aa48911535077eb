-------------------------- MODULE SupervisorProofs ---------------------------
(***************************************************************************)
(* Theorems about Supervisor, for any number of children, any history size *)
(* and window, and any bound on the clock and on the failures.             *)
(***************************************************************************)
EXTENDS Supervisor, SequenceTheorems, FiniteSetTheorems, TLAPS

-----------------------------------------------------------------------------
\* The restart history.

Ring == 0 .. HistorySize - 1

RingType ==
  /\ timestamps \in [Ring -> Nat]
  /\ head \in Ring
  /\ count \in 0 .. HistorySize
  /\ now \in Nat
  /\ log \in Seq(Nat)

RingInv == RingType /\ RingKeepsLast

\* Positions of the ring: different offsets from the head are different slots.
LEMMA RingSlot ==
  ASSUME NEW n \in Nat \ {0}, NEW h \in 0 .. n - 1, NEW k \in 0 .. n
  PROVE  (h + k) % n \in 0 .. n - 1
  OBVIOUS

LEMMA RingSlotsDiffer ==
  ASSUME NEW n \in Nat \ {0}, NEW h \in 0 .. n - 1,
         NEW j \in 0 .. n - 1, NEW k \in 0 .. n - 1, j # k
  PROVE  (h + j) % n # (h + k) % n
  OBVIOUS

LEMMA RingSlotNext ==
  ASSUME NEW n \in Nat \ {0}, NEW h \in 0 .. n - 1, NEW k \in 0 .. n - 1
  PROVE  /\ (((h + 1) % n) + k) % n = (h + (k + 1)) % n
         /\ (h + n) % n = h
        /\ h % n = h
  OBVIOUS

LEMMA RecordKeepsRingInv ==
  ASSUME RingInv, history_record, log' = Append(log, now), now' = now
  PROVE  RingInv'
<1> USE SupervisorAssumption
<1> DEFINE H == HistorySize
<1>1. /\ timestamps \in [Ring -> Nat] /\ head \in Ring /\ count \in 0 .. H
      /\ now \in Nat /\ log \in Seq(Nat) /\ H \in Nat \ {0}
      /\ Len(log) \in Nat
  BY DEF RingInv, RingType
<1>2. log' \in Seq(Nat) /\ Len(log') = Len(log) + 1
  BY <1>1
<1>3. /\ log'[Len(log) + 1] = now
      /\ \A j \in 1 .. Len(log) : log'[j] = log[j]
  BY <1>1
<1>4. (head + count) % H \in Ring
  BY <1>1, RingSlot DEF Ring
<1>5. /\ timestamps' \in [Ring -> Nat]
      /\ timestamps'[(head + count) % H] = now
      /\ \A s \in Ring : s # (head + count) % H => timestamps'[s] = timestamps[s]
  BY <1>1, <1>4 DEF history_record, Ring
<1>6. /\ count = IF Len(log) < H THEN Len(log) ELSE H
      /\ \A k \in 0 .. count - 1 :
           timestamps[(head + k) % H] = log[Len(log) - count + 1 + k]
  BY DEF RingInv, RingKeepsLast
<1>7. CASE count < H
  <2>1. count' = count + 1 /\ head' = head /\ count' = Len(log) + 1
    BY <1>1, <1>6, <1>7 DEF history_record
  <2>2. ASSUME NEW k \in 0 .. count' - 1
        PROVE  timestamps'[(head' + k) % H] = log'[Len(log') - count' + 1 + k]
    <3>1. CASE k = count
      BY <1>1, <1>2, <1>3, <1>5, <1>6, <1>7, <2>1, <3>1
    <3>2. CASE k # count
      <4>1. k \in 0 .. count - 1 /\ k \in 0 .. H - 1 /\ count \in 0 .. H - 1
        BY <1>1, <1>7, <2>1, <3>2
      <4>2. (head + k) % H # (head + count) % H /\ (head + k) % H \in Ring
        <5>1. /\ k \in 0 .. H /\ head \in 0 .. H - 1 /\ Ring = 0 .. H - 1
              /\ k # count
          BY <1>1, <3>2, <4>1 DEF Ring
        <5>2. (head + k) % H \in Ring
          BY <1>1, <5>1, RingSlot
        <5>3. QED BY <1>1, <4>1, <5>1, <5>2, RingSlotsDiffer
      <4>3. timestamps'[(head + k) % H] = log[Len(log) - count + 1 + k]
        BY <1>5, <1>6, <4>1, <4>2
      <4>4. /\ Len(log) - count + 1 + k \in 1 .. Len(log)
            /\ Len(log') - count' + 1 + k = Len(log) - count + 1 + k
        BY <1>1, <1>2, <1>6, <1>7, <2>1, <4>1
      <4>5. QED BY <1>3, <2>1, <4>3, <4>4
    <3>3. QED BY <3>1, <3>2
  <2>3. count' = IF Len(log') < H THEN Len(log') ELSE H
    BY <1>1, <1>2, <1>6, <1>7, <2>1
  <2>4. RingKeepsLast'
    BY <2>2, <2>3 DEF RingKeepsLast
  <2>5. head' \in Ring /\ count' \in 0 .. H
    BY <1>1, <1>7, <2>1
  <2>6. QED BY <1>1, <1>2, <1>5, <2>4, <2>5 DEF RingInv, RingType
<1>8. CASE ~(count < H)
  <2>1. count' = H /\ count = H /\ head' = (head + 1) % H /\ Len(log) >= H
    BY <1>1, <1>6, <1>8 DEF history_record
  <2>2. (head + count) % H = head
    BY <1>1, <2>1, RingSlotNext DEF Ring
  <2>3. ASSUME NEW k \in 0 .. H - 1
        PROVE  timestamps'[(head' + k) % H] = log'[Len(log') - H + 1 + k]
    <3>1. (head' + k) % H = (head + (k + 1)) % H
      BY <1>1, <2>1, RingSlotNext DEF Ring
    <3>2. CASE k = H - 1
      <4>1. (head + (k + 1)) % H = head
        <5>1. k + 1 = H
          BY <1>1, <3>2
        <5>2. QED BY <1>1, <5>1, RingSlotNext DEF Ring
      <4>2. Len(log') - H + 1 + k = Len(log) + 1
        BY <1>1, <1>2, <3>2
      <4>3. QED BY <1>3, <1>5, <2>2, <3>1, <4>1, <4>2
    <3>3. CASE k # H - 1
      <4>1. k + 1 \in 0 .. H - 1 /\ 0 \in 0 .. H - 1 /\ k + 1 # 0
        BY <1>1, <3>3
      <4>2. (head + 0) % H = head
        <5>1. head + 0 = head /\ head % H = head
          <6>1. head \in 0 .. H - 1 /\ 0 \in 0 .. H - 1 /\ head \in Int
            BY <1>1 DEF Ring
          <6>2. head % H = head
            BY <1>1, <6>1, RingSlotNext
          <6>3. head + 0 = head
            BY <6>1
          <6>4. QED BY <6>2, <6>3
        <5>2. QED BY <5>1
      <4>3. (head + (k + 1)) % H # head /\ (head + (k + 1)) % H \in Ring
        <5>1. (head + (k + 1)) % H # (head + 0) % H
          BY <1>1, <4>1, RingSlotsDiffer DEF Ring
        <5>2. (head + (k + 1)) % H \in Ring
          <6>1. k + 1 \in 0 .. H /\ head \in 0 .. H - 1 /\ Ring = 0 .. H - 1
            BY <1>1, <4>1 DEF Ring
          <6>2. QED BY <1>1, <6>1, RingSlot
        <5>3. QED BY <4>2, <5>1, <5>2
      <4>4. timestamps'[(head + (k + 1)) % H] = log[Len(log) - H + 1 + (k + 1)]
        BY <1>5, <1>6, <2>1, <2>2, <4>1, <4>3
      <4>5. /\ Len(log) - H + 1 + (k + 1) \in 1 .. Len(log)
            /\ Len(log') - H + 1 + k = Len(log) - H + 1 + (k + 1)
        BY <1>1, <1>2, <2>1, <4>1
      <4>6. QED BY <1>3, <3>1, <4>4, <4>5
    <3>4. QED BY <3>2, <3>3
  <2>4. count' = IF Len(log') < H THEN Len(log') ELSE H
    BY <1>1, <1>2, <2>1
  <2>5. RingKeepsLast'
    BY <2>1, <2>3, <2>4 DEF RingKeepsLast
  <2>6. head' \in Ring /\ count' \in 0 .. H
    BY <1>1, <2>1, RingSlot DEF Ring
  <2>7. QED BY <1>1, <1>2, <1>5, <2>5, <2>6 DEF RingInv, RingType
<1>9. QED BY <1>7, <1>8

\* No other step touches the history; only the clock moves on.
LEMMA RingInvInductive == RingInv /\ [Next]_vars => RingInv'
<1> SUFFICES ASSUME RingInv, [Next]_vars PROVE RingInv'
  OBVIOUS
<1>1. CASE ReportFailure
  <2>1. PICK c : lcn_supervisor_child_failed(c)
    BY <1>1 DEF ReportFailure
  <2>2. QED BY <2>1, RecordKeepsRingInv DEF lcn_supervisor_child_failed
<1>2. CASE UNCHANGED <<history, log>> /\ now' \in Nat
  BY <1>2 DEF RingInv, RingType, RingKeepsLast, history
<1>3. ASSUME ~ReportFailure
      PROVE  UNCHANGED <<history, log>> /\ now' \in Nat
  <2> USE DEF RingInv, RingType
  <2>1. CASE Tick
    BY <2>1 DEF Tick
  <2>2. CASE \E kind \in Kinds : lcn_supervisor_add_child(kind)
    BY <2>2 DEF lcn_supervisor_add_child
  <2>3. CASE lcn_supervisor_start \/ lcn_supervisor_stop
    BY <2>3 DEF lcn_supervisor_start, lcn_supervisor_stop
  <2>4. CASE LoopEnds \/ LoopPasses \/ child_start \/ StartReturns
    BY <2>4 DEF LoopEnds, LoopPasses, child_start, StartReturns
  <2>5. CASE UNCHANGED vars
    BY <2>5 DEF vars
  <2>6. QED BY <1>3, <2>1, <2>2, <2>3, <2>4, <2>5 DEF Next
<1>4. QED BY <1>1, <1>2, <1>3

\* The entries of the restart ring are the last failures reported, whatever
\* its size and however often it has wrapped around (history_record).
THEOREM RingHistory == Spec => []RingKeepsLast
<1>1. Init => RingInv
  BY SupervisorAssumption DEF Init, RingInv, RingType, RingKeepsLast, Ring
<1>2. RingInv => RingKeepsLast
  BY DEF RingInv
<1>3. QED BY <1>1, <1>2, RingInvInductive, PTL DEF Spec

-----------------------------------------------------------------------------
(***************************************************************************)
(* The escalation.  The ring may have forgotten failures that still fall   *)
(* into the window; but then all it remembers falls into the window too,   *)
(* and that is more than max_restarts.                                     *)
(***************************************************************************)

\* Of a history of len failures in the order of their times a ring of n entries
\* keeps the last cnt.  W are the failures in the window, V the entries of the
\* ring that are.
Remembered(n, len, cnt, W, V) ==
  /\ len \in Nat /\ cnt \in Nat /\ cnt = IF len < n THEN len ELSE n
  /\ W \subseteq 1 .. len
  /\ \A i, j \in 1 .. len : i \in W /\ i <= j => j \in W
  /\ V \subseteq 0 .. cnt - 1
  /\ \A k \in 0 .. cnt - 1 : k \in V <=> len - cnt + 1 + k \in W

LEMMA WindowCount ==
  ASSUME NEW n \in Nat \ {0}, NEW max \in 0 .. n - 1, NEW len, NEW cnt, NEW W, NEW V,
         Remembered(n, len, cnt, W, V)
  PROVE  Cardinality(V) > max <=> Cardinality(W) > max
<1> DEFINE U == W \cap ((len - cnt + 1) .. len)
           f == [k \in V |-> len - cnt + 1 + k]
           g == [i \in U |-> i - (len - cnt + 1)]
<1> USE DEF Remembered
<1>1. /\ IsFiniteSet(0 .. cnt - 1) /\ IsFiniteSet(1 .. len)
      /\ IsFiniteSet((len - cnt + 1) .. len)
      /\ Cardinality((len - cnt + 1) .. len) = cnt
  BY FS_Interval
<1>2. /\ IsFiniteSet(W) /\ IsFiniteSet(U) /\ IsFiniteSet(V)
      /\ Cardinality(U) <= Cardinality(W)
  <2>1. V \in SUBSET (0 .. cnt - 1) /\ U \in SUBSET W
    OBVIOUS
  <2>2. QED BY <1>1, <2>1, FS_Subset
<1>3. /\ Cardinality(W) \in Nat /\ Cardinality(U) \in Nat /\ Cardinality(V) \in Nat
  BY <1>2, FS_CardinalityType
<1>4. Cardinality(V) = Cardinality(U)
  <2>1. f \in Injection(V, U)
    BY DEF Injection, IsInjective
  <2>2. g \in Injection(U, V)
    BY DEF Injection, IsInjective
  <2>3. Cardinality(V) <= Cardinality(U) /\ Cardinality(U) <= Cardinality(V)
    BY <1>2, <2>1, <2>2, FS_Injection
  <2>4. QED BY <1>3, <2>3
<1>5. CASE W \subseteq U
  <2>1. W = U
    BY <1>5
  <2>2. QED BY <1>4, <2>1
<1>6. CASE ~(W \subseteq U)
  <2>1. PICK i \in W : i \in 1 .. len - cnt
    BY <1>6
  <2>2. cnt = n
    BY <2>1
  <2>3. U = (len - cnt + 1) .. len
    BY <2>1
  <2>4. Cardinality(U) = n
    BY <1>1, <2>2, <2>3
  <2>5. QED BY <1>2, <1>3, <1>4, <2>4
<1>7. QED BY <1>5, <1>6

\* Failures are logged as the clock goes on.
LogInv ==
  /\ \A i, j \in Indices(log) : i <= j => log[i] <= log[j]
  /\ \A i \in Indices(log) : log[i] <= now

EscalationInv == RingInv /\ LogInv

LEMMA EscalationInvInductive == EscalationInv /\ [Next]_vars => EscalationInv'
<1> SUFFICES ASSUME EscalationInv, [Next]_vars PROVE EscalationInv'
  OBVIOUS
<1>1. RingInv'
  BY RingInvInductive DEF EscalationInv
<1>2. log \in Seq(Nat) /\ now \in Nat /\ Len(log) \in Nat
  BY DEF EscalationInv, RingInv, RingType
<1>3. CASE ReportFailure
  <2>1. log' = Append(log, now) /\ now' = now
    BY <1>3 DEF ReportFailure, lcn_supervisor_child_failed
  <2>2. /\ Len(log') = Len(log) + 1 /\ log'[Len(log) + 1] = now
        /\ \A i \in 1 .. Len(log) : log'[i] = log[i] /\ log[i] \in Nat
    BY <1>2, <2>1
  <2>3. LogInv'
    BY <1>2, <2>1, <2>2 DEF EscalationInv, LogInv, Indices
  <2>4. QED BY <1>1, <2>3 DEF EscalationInv
<1>4. CASE ~ReportFailure
  <2>1. log' = log /\ now' \in Nat /\ now' >= now
    <3>1. CASE Tick \/ UNCHANGED vars
      BY <1>2, <3>1 DEF Tick, vars
    <3>2. ASSUME NEW kind \in Kinds, lcn_supervisor_add_child(kind)
          PROVE  log' = log /\ now' = now
      BY <3>2 DEF lcn_supervisor_add_child
    <3>3. CASE lcn_supervisor_start \/ lcn_supervisor_stop
      <4>1. log' = log /\ now' = now
        BY <3>3, ZenonT(30) DEF lcn_supervisor_start, lcn_supervisor_stop, history
      <4>2. QED BY <1>2, <4>1
    <3>4. CASE LoopEnds \/ LoopPasses \/ child_start \/ StartReturns
      BY <1>2, <3>4 DEF LoopEnds, LoopPasses, child_start, StartReturns
    <3>5. CASE \E kind \in Kinds : lcn_supervisor_add_child(kind)
      BY <1>2, <3>2, <3>5
    <3>6. QED BY <1>4, <3>1, <3>3, <3>4, <3>5 DEF Next
  <2>2. \A i \in 1 .. Len(log) : log[i] \in Nat
    BY <1>2
  <2>3. LogInv'
    BY <1>2, <2>1, <2>2 DEF EscalationInv, LogInv, Indices
  <2>4. QED BY <1>1, <2>3 DEF EscalationInv
<1>5. QED BY <1>3, <1>4

LEMMA CountInWindow ==
  ASSUME EscalationInv', now' = now
  PROVE  history_count_in_window > MaxRestarts <=> Cardinality(InWindow') > MaxRestarts
<1> DEFINE len == Len(log')
           cnt == count'
           W == InWindow'
           V == {k \in 0 .. cnt - 1 : len - cnt + 1 + k \in W}
<1>1. /\ log' \in Seq(Nat) /\ len \in Nat /\ now' \in Nat /\ cnt \in Nat
      /\ cnt = IF len < HistorySize THEN len ELSE HistorySize
  BY SupervisorAssumption DEF EscalationInv, RingInv, RingType, RingKeepsLast
<1>2. \A i \in 1 .. len : log'[i] \in Nat
  BY <1>1
<1>3. W \in SUBSET (1 .. len)
  BY DEF InWindow, Indices
<1>4. \A i, j \in 1 .. len : i \in W /\ i <= j => j \in W
  BY <1>1, <1>2, SupervisorAssumption DEF EscalationInv, LogInv, InWindow, Indices
<1>5. V = {k \in 0 .. count' - 1 :
             timestamps'[(head' + k) % HistorySize] >= now - Window}
  <2>1. ASSUME NEW k \in 0 .. count' - 1
        PROVE  /\ len - count' + 1 + k \in 1 .. len
               /\ timestamps'[(head' + k) % HistorySize] = log'[len - count' + 1 + k]
    <3>1. RingKeepsLast'
      BY DEF EscalationInv, RingInv
    <3>2. timestamps'[(head' + k) % HistorySize] = log'[len - count' + 1 + k]
      BY <2>1, <3>1 DEF RingKeepsLast
    <3>3. len - count' + 1 + k \in 1 .. len
      BY <1>1, <2>1
    <3>4. QED BY <3>2, <3>3
  <2>2. QED BY <2>1 DEF InWindow, Indices
<1>6. MaxRestarts \in 0 .. HistorySize - 1 /\ HistorySize \in Nat \ {0}
  BY SupervisorAssumption
<1>7. /\ V \in SUBSET (0 .. cnt - 1)
      /\ \A k \in 0 .. cnt - 1 : k \in V <=> len - cnt + 1 + k \in W
  OBVIOUS
<1>8. Cardinality(V) > MaxRestarts <=> Cardinality(W) > MaxRestarts
  <2> HIDE DEF len, cnt, W, V
  <2>1. Remembered(HistorySize, len, cnt, W, V)
    BY <1>1, <1>3, <1>4, <1>7 DEF Remembered
  <2>2. QED BY <1>6, <2>1, WindowCount
<1>9. QED BY <1>5, <1>8 DEF history_count_in_window

\* supervisor.c:36, :178: the supervisor escalates on exactly the failure that is
\* one too many in the window, counted over all failures ever reported, however
\* large the ring, as long as max_restarts is smaller than the ring.
THEOREM Escalation == Spec => EscalatesWhenTooMany
<1> DEFINE Exact == Len(log') > Len(log) =>
      (state' = "escalated" <=> MaxRestarts > 0 /\ Cardinality(InWindow') > MaxRestarts)
<1>1. Init => EscalationInv
  <2>1. Init => RingInv
    BY SupervisorAssumption DEF Init, RingInv, RingType, RingKeepsLast, Ring
  <2>2. QED BY <2>1 DEF Init, EscalationInv, LogInv, Indices
<1>2. EscalationInv /\ [Next]_vars => [Exact]_vars
  <2>1. SUFFICES ASSUME EscalationInv, Next, Len(log') > Len(log)
                 PROVE  state' = "escalated" <=>
                          MaxRestarts > 0 /\ Cardinality(InWindow') > MaxRestarts
    OBVIOUS
  <2>2. ReportFailure
    <3>1. ~(Len(log) > Len(log))
      BY DEF EscalationInv, RingInv, RingType
    <3>2. QED
      BY <2>1, <3>1
         DEF Next, Tick, lcn_supervisor_add_child, lcn_supervisor_start,
             lcn_supervisor_stop, LoopEnds, LoopPasses, child_start, StartReturns
  <2>3. PICK c : lcn_supervisor_child_failed(c)
    BY <2>2 DEF ReportFailure
  <2>4. state' = "escalated" <=> check_escalation
    BY <2>3 DEF lcn_supervisor_child_failed
  <2>5. EscalationInv' /\ now' = now
    BY <2>1, <2>3, EscalationInvInductive DEF lcn_supervisor_child_failed
  <2>6. QED BY <2>4, <2>5, CountInWindow DEF check_escalation
<1>3. QED BY <1>1, <1>2, EscalationInvInductive, PTL DEF Spec, EscalatesWhenTooMany

-----------------------------------------------------------------------------
\* The children and the loops that start them.

Child == [mode : Mode, starts : BOOLEAN,
          state : {"stopped", "running", "restarting"}]
Loops == [todo : Seq(Indices(children)), restart : BOOLEAN, inside : BOOLEAN]

\* Only a running or an escalated supervisor has loops under way.
ChildInv ==
  /\ strategy \in Strategy
  /\ children \in Seq(Child)
  /\ stack \in Seq(Loops)
  /\ \A k \in Indices(stack) : stack[k].inside => stack[k].todo # << >>
  /\ StoppedMeansAllStopped

\* A loop is pushed on the loops under way.
LEMMA Pushed ==
  ASSUME NEW S, NEW l \in S, NEW s \in Seq(S)
  PROVE  /\ <<l>> \o s \in Seq(S)
         /\ Len(<<l>> \o s) = Len(s) + 1
         /\ (<<l>> \o s)[1] = l
         /\ \A k \in 2 .. Len(s) + 1 : (<<l>> \o s)[k] = s[k - 1]
<1>1. <<l>> \in Seq(S) /\ Len(<<l>>) = 1 /\ <<l>>[1] = l /\ Len(s) \in Nat
  BY LenProperties
<1>2. QED BY <1>1, ConcatProperties

LEMMA ChildStop ==
  ASSUME children \in Seq(Child), NEW S
  PROVE  /\ child_stop(S) \in Seq(Child)
         /\ Len(child_stop(S)) = Len(children)
         /\ \A c \in Indices(children) \cap S : child_stop(S)[c].state = "stopped"
<1>1. Len(children) \in Nat /\ children \in [Indices(children) -> Child]
  BY LenProperties DEF Indices
<1>2. \A c \in Indices(children) :
        /\ children[c] \in Child
        /\ [children[c] EXCEPT !.state = "stopped"] \in Child
        /\ [children[c] EXCEPT !.state = "stopped"].state = "stopped"
  BY <1>1 DEF Child
<1>3. child_stop(S) \in [1 .. Len(children) -> Child]
  BY <1>2 DEF child_stop, Indices
<1>4. child_stop(S) \in Seq(Child)
  BY <1>1, <1>3, SeqDef
<1>5. Len(child_stop(S)) = Len(children)
  BY <1>1, <1>3, <1>4, LenProperties
<1>6. QED BY <1>2, <1>4, <1>5 DEF child_stop

LEMMA FromType ==
  ASSUME children \in Seq(Child), NEW k \in 1 .. Len(children) + 1
  PROVE  From(k) \in Seq(Indices(children))
<1>1. Len(children) - k + 1 \in Nat
  BY LenProperties
<1>2. From(k) \in [1 .. Len(children) - k + 1 -> Indices(children)]
  BY LenProperties DEF From, Indices
<1>3. QED BY <1>1, <1>2, SeqDef

LEMMA RestartOrderType ==
  ASSUME strategy \in Strategy, children \in Seq(Child),
         NEW c \in Indices(children)
  PROVE  RestartOrder(c) \in Seq(Indices(children))
<1>1. Len(children) \in Nat /\ 1 \in 1 .. Len(children) + 1
      /\ c \in 1 .. Len(children) + 1
  BY LenProperties DEF Indices
<1>2. <<c>> \in Seq(Indices(children))
  OBVIOUS
<1>3. QED BY <1>1, <1>2, FromType DEF RestartOrder, Strategy

LEMMA InitChildInv == Init => ChildInv
  BY DEF Init, ChildInv, StoppedMeansAllStopped, Quiet, Indices, Strategy

LEMMA ChildInvInductive == ChildInv /\ [Next]_vars => ChildInv'
<1> SUFFICES ASSUME ChildInv, [Next]_vars PROVE ChildInv'
  OBVIOUS
<1>0. /\ strategy \in Strategy /\ children \in Seq(Child) /\ stack \in Seq(Loops)
      /\ \A k \in Indices(stack) : stack[k].inside => stack[k].todo # << >>
      /\ StoppedMeansAllStopped
      /\ Len(children) \in Nat /\ Len(stack) \in Nat
  BY LenProperties DEF ChildInv
\* Unless a child is added, the type of the loops stays the same.
<1>a. ASSUME Len(children') = Len(children)
      PROVE  Loops' = Loops /\ Indices(children') = Indices(children)
  BY <1>a DEF Loops, Indices
<1>b. ASSUME strategy' \in Strategy, children' \in Seq(Child), stack' \in Seq(Loops),
             Len(children') = Len(children), state' # "stopped",
             \A k \in Indices(stack') : stack'[k].inside => stack'[k].todo # << >>
      PROVE  ChildInv'
  BY <1>a, <1>b DEF ChildInv, StoppedMeansAllStopped, Child
<1>c. ASSUME stack # << >>
      PROVE  /\ state # "stopped"
             /\ Head(stack) \in Loops /\ Tail(stack) \in Seq(Loops)
             /\ Len(stack) >= 1 /\ Head(stack) = stack[1]
             /\ Len(Tail(stack)) = Len(stack) - 1
             /\ \A k \in Indices(Tail(stack)) : Tail(stack)[k] = stack[k + 1]
  BY <1>0, <1>c, HeadTailProperties, EmptySeq DEF StoppedMeansAllStopped, Quiet, Indices
<1>1. ASSUME NEW kind \in Kinds, lcn_supervisor_add_child(kind)
      PROVE  ChildInv'
  <2>1. [mode |-> kind.mode, starts |-> kind.starts, state |-> "stopped"] \in Child
    BY SupervisorAssumption DEF Child
  <2>2. /\ children' \in Seq(Child) /\ Len(children') = Len(children) + 1
        /\ children'[Len(children) + 1].state = "stopped"
        /\ \A c \in 1 .. Len(children) : children'[c] = children[c]
    BY <1>0, <1>1, <2>1 DEF lcn_supervisor_add_child
  <2>3. stack' = << >> /\ state' = "stopped" /\ state = "stopped"
        /\ strategy' = strategy
    BY <1>1 DEF lcn_supervisor_add_child
  <2>4. \A c \in Indices(children') : children'[c].state = "stopped"
    BY <1>0, <2>2, <2>3 DEF StoppedMeansAllStopped, Indices
  <2>5. QED BY <1>0, <2>2, <2>3, <2>4
            DEF ChildInv, StoppedMeansAllStopped, Quiet, Indices, Child
<1>2. ASSUME lcn_supervisor_start PROVE ChildInv'
  <2>1. 1 \in 1 .. Len(children) + 1
    BY <1>0
  <2>2. Loop(From(1), FALSE) \in Loops /\ ~Loop(From(1), FALSE).inside
    BY <1>0, <2>1, FromType DEF Loop, Loops
  <2>3. /\ stack' = <<Loop(From(1), FALSE)>> /\ state' = "running"
        /\ UNCHANGED <<strategy, children>>
    BY <1>2 DEF lcn_supervisor_start
  <2> DEFINE l == Loop(From(1), FALSE)
  <2> HIDE DEF l
  <2>a. l \in Loops /\ ~l.inside /\ stack' = <<l>>
    BY <2>2, <2>3 DEF l
  <2>4. stack' \in Seq(Loops)
        /\ \A k \in Indices(stack') : stack'[k].inside => stack'[k].todo # << >>
    <3>1. stack' \in Seq(Loops) /\ Len(stack') = 1 /\ stack'[1] = l
      BY <2>a
    <3>2. QED BY <2>a, <3>1 DEF Indices
  <2>5. QED BY <1>0, <1>b, <2>3, <2>4
<1>3. ASSUME lcn_supervisor_stop PROVE ChildInv'
  <2>1. /\ children' = child_stop(Indices(children)) /\ stack' = stack
        /\ stack = << >> /\ strategy' = strategy
    BY <1>3 DEF lcn_supervisor_stop
  <2>2. /\ children' \in Seq(Child) /\ Len(children') = Len(children)
        /\ \A c \in Indices(children) : children'[c].state = "stopped"
    BY <1>0, <2>1, ChildStop
  <2>3. Indices(children') = Indices(children)
    BY <1>a, <2>2
  <2>4. QED BY <1>0, <2>1, <2>2, <2>3
            DEF ChildInv, StoppedMeansAllStopped, Quiet, Child, Indices
<1>4. ASSUME ReportFailure PROVE ChildInv'
  <2>1. PICK c : lcn_supervisor_child_failed(c)
    BY <1>4 DEF ReportFailure
  <2>2. c \in Indices(children) /\ strategy' = strategy
    BY <2>1 DEF lcn_supervisor_child_failed
  <2>3. CASE check_escalation
    <3>1. /\ children' = child_stop(Indices(children))
          /\ stack' = stack /\ state' = "escalated"
      BY <2>1, <2>3 DEF lcn_supervisor_child_failed
    <3>2. QED BY <1>0, <1>b, <2>2, <3>1, ChildStop
  <2>4. CASE ~check_escalation
    <3>1. /\ children' = child_stop(Affected(c))
          /\ stack' = <<Loop(RestartOrder(c), TRUE)>> \o stack
          /\ state' = "running"
      BY <2>1, <2>4 DEF lcn_supervisor_child_failed
    <3>2. Loop(RestartOrder(c), TRUE) \in Loops /\ ~Loop(RestartOrder(c), TRUE).inside
      BY <1>0, <2>2, RestartOrderType DEF Loop, Loops
    <3> DEFINE l == Loop(RestartOrder(c), TRUE)
    <3> HIDE DEF l
    <3>3. l \in Loops /\ ~l.inside /\ stack' = <<l>> \o stack
      BY <3>1, <3>2 DEF l
    <3>4. /\ stack' \in Seq(Loops) /\ Len(stack') = Len(stack) + 1
          /\ stack'[1] = l
          /\ \A k \in 2 .. Len(stack) + 1 : stack'[k] = stack[k - 1]
      BY <1>0, <3>3, Pushed
    <3>5. \A k \in Indices(stack') : stack'[k].inside => stack'[k].todo # << >>
      <4> SUFFICES ASSUME NEW k \in 1 .. Len(stack) + 1, stack'[k].inside
                   PROVE  stack'[k].todo # << >>
        BY <3>4 DEF Indices
      <4>1. k # 1
        BY <3>3, <3>4
      <4>2. k - 1 \in Indices(stack) /\ stack'[k] = stack[k - 1]
        BY <1>0, <3>4, <4>1 DEF Indices
      <4>3. QED BY <1>0, <4>2
    <3>6. QED BY <1>0, <1>b, <2>2, <3>1, <3>4, <3>5, ChildStop
  <2>5. QED BY <2>3, <2>4
<1>5. CASE LoopEnds
  <2>1. stack # << >> /\ stack' = Tail(stack)
        /\ UNCHANGED <<strategy, state, children>>
    BY <1>5 DEF LoopEnds
  <2>2. \A k \in Indices(stack') : stack'[k].inside => stack'[k].todo # << >>
    BY <1>0, <1>c, <2>1 DEF Indices
  <2>3. QED BY <1>0, <1>b, <1>c, <2>1, <2>2
\* A loop whose child is done holds the others, with no call under way.
<1>d. ASSUME stack # << >>, Head(stack).todo # << >>
      PROVE  /\ Advanced \in Seq(Loops)
             /\ \A k \in Indices(Advanced) : Advanced[k].inside => Advanced[k].todo # << >>
  <2>1. Loop(Tail(Head(stack).todo), Head(stack).restart) \in Loops
    <3>1. Tail(Head(stack).todo) \in Seq(Indices(children))
      BY <1>c, <1>d, HeadTailProperties DEF Loops
    <3>2. QED BY <1>c, <1>d, <3>1 DEF Loop, Loops
  <2> DEFINE l == Loop(Tail(Head(stack).todo), Head(stack).restart)
  <2>2. Advanced = <<l>> \o Tail(stack) /\ ~l.inside
    BY DEF Advanced, Loop
  <2> HIDE DEF l
  <2>3. /\ Advanced \in Seq(Loops) /\ Len(Advanced) = Len(stack)
        /\ Advanced[1] = l
        /\ \A k \in 2 .. Len(stack) : Advanced[k] = Tail(stack)[k - 1]
    BY <1>0, <1>c, <1>d, <2>1, <2>2 DEF l
  <2>4. \A k \in 2 .. Len(stack) : Advanced[k] = stack[k]
    BY <1>0, <1>c, <1>d, <2>3 DEF Indices
  <2>5. QED BY <1>0, <2>2, <2>3, <2>4 DEF Indices
<1>6. CASE LoopPasses
  <2>1. /\ stack # << >> /\ Head(stack).todo # << >> /\ stack' = Advanced
        /\ UNCHANGED <<strategy, state, children>>
    BY <1>6 DEF LoopPasses, Between
  <2>2. QED BY <1>0, <1>b, <1>c, <1>d, <2>1
\* The child at the head of the innermost loop takes another state.
<1>e. ASSUME stack # << >>, Head(stack).todo # << >>,
             NEW s \in {"running", "restarting"},
             children' = [children EXCEPT ![Head(Head(stack).todo)].state = s]
      PROVE  children' \in Seq(Child) /\ Len(children') = Len(children)
  <2> DEFINE c == Head(Head(stack).todo)
  <2>1. c \in Indices(children)
    BY <1>c, <1>e, HeadTailProperties DEF Loops
  <2>2. children[c] \in Child
    BY <1>0, <2>1, ElementOfSeq DEF Indices
  <2>3. [children[c] EXCEPT !.state = s] \in Child
    BY <2>2 DEF Child
  <2>4. children' = [children EXCEPT ![c] = [children[c] EXCEPT !.state = s]]
    BY <1>e
  <2>5. QED BY <1>0, <2>1, <2>3, <2>4, ExceptSeq DEF Indices
<1>7. CASE child_start
  <2>1. /\ stack # << >> /\ Head(stack).todo # << >>
        /\ stack' = [stack EXCEPT ![1].inside = TRUE]
        /\ children' = [children EXCEPT ![Head(Head(stack).todo)].state = "restarting"]
        /\ UNCHANGED <<strategy, state>>
    BY <1>7 DEF child_start, Between
  <2>2. children' \in Seq(Child) /\ Len(children') = Len(children)
    BY <1>e, <2>1
  <2> DEFINE l == [stack[1] EXCEPT !.inside = TRUE]
  <2>3. l \in Loops /\ l.todo # << >>
    BY <1>c, <2>1 DEF Loops
  <2>4. stack' = [stack EXCEPT ![1] = l] /\ 1 \in 1 .. Len(stack)
    BY <1>0, <1>c, <2>1
  <2> HIDE DEF l
  <2>5. /\ stack' \in Seq(Loops) /\ Len(stack') = Len(stack)
        /\ \A k \in 1 .. Len(stack) : stack'[k] = IF k = 1 THEN l ELSE stack[k]
    BY <1>0, <2>3, <2>4, ExceptSeq
  <2>6. \A k \in Indices(stack') : stack'[k].inside => stack'[k].todo # << >>
    BY <1>0, <2>3, <2>5 DEF Indices
  <2>7. QED BY <1>0, <1>b, <1>c, <2>1, <2>2, <2>5, <2>6
<1>8. CASE StartReturns
  <2>1. /\ stack # << >> /\ Head(stack).inside /\ stack' = Advanced
        /\ children' = [children EXCEPT ![Head(Head(stack).todo)].state = "running"]
        /\ UNCHANGED <<strategy, state>>
    BY <1>8 DEF StartReturns
  <2>2. Head(stack).todo # << >>
    BY <1>0, <1>c, <2>1 DEF Indices
  <2>3. QED BY <1>0, <1>b, <1>c, <1>d, <1>e, <2>1, <2>2
<1>9. CASE Tick \/ UNCHANGED vars
  <2>1. UNCHANGED <<strategy, state, children, stack>>
    BY <1>9 DEF Tick, vars
  <2>2. QED BY <2>1 DEF ChildInv, StoppedMeansAllStopped, Quiet, Indices, Loops
<1>10. QED BY <1>1, <1>2, <1>3, <1>4, <1>5, <1>6, <1>7, <1>8, <1>9 DEF Next

\* A stopped supervisor has no child that runs or starts and no loop under
\* way, whatever failed before and however the failures were nested
\* (lcn_supervisor_stop).
THEOREM StoppedSupervisor == Spec => []StoppedMeansAllStopped
<1>1. ChildInv => StoppedMeansAllStopped
  BY DEF ChildInv
<1>2. QED BY <1>1, InitChildInv, ChildInvInductive, PTL DEF Spec

\* The list of children is within its array, and the state of the supervisor
\* is one of the three.
BoundsInv ==
  /\ state \in {"stopped", "running", "escalated"}
  /\ Len(children) <= MaxChildren

LEMMA BoundsInvInductive ==
  ASSUME ChildInv, BoundsInv, [Next]_vars
  PROVE  BoundsInv'
<1> USE DEF BoundsInv
<1>1. children \in Seq(Child) /\ Len(children) \in Nat /\ MaxChildren \in Nat
  BY LenProperties, SupervisorAssumption DEF ChildInv
\* A child takes another state.
<1>2. ASSUME NEW c, NEW s, children' = [children EXCEPT ![c].state = s]
      PROVE  Len(children') = Len(children)
  <2>1. DOMAIN children' = DOMAIN children
    BY <1>2
  <2>2. children' \in Seq(Child)
    BY ChildInvInductive DEF ChildInv, Child
  <2>3. /\ DOMAIN children = 1 .. Len(children)
        /\ DOMAIN children' = 1 .. Len(children') /\ Len(children') \in Nat
    BY <1>1, <2>2, LenProperties
  <2>4. QED BY <1>1, <2>1, <2>3
<1>3. ASSUME NEW kind \in Kinds, lcn_supervisor_add_child(kind) PROVE BoundsInv'
  <2>1. Len(children') = Len(children) + 1 /\ Len(children) < MaxChildren /\ state' = state
    BY <1>1, <1>3 DEF lcn_supervisor_add_child
  <2>2. QED BY <1>1, <2>1
<1>4. CASE lcn_supervisor_start
  BY <1>4 DEF lcn_supervisor_start
<1>5. CASE lcn_supervisor_stop
  BY <1>1, <1>5, ChildStop DEF lcn_supervisor_stop
<1>6. CASE ReportFailure
  <2>1. PICK c : lcn_supervisor_child_failed(c)
    BY <1>6 DEF ReportFailure
  <2>2. CASE check_escalation
    BY <1>1, <2>1, <2>2, ChildStop DEF lcn_supervisor_child_failed
  <2>3. CASE ~check_escalation
    BY <1>1, <2>1, <2>3, ChildStop DEF lcn_supervisor_child_failed
  <2>4. QED BY <2>2, <2>3
<1>7. CASE LoopEnds \/ LoopPasses \/ Tick \/ UNCHANGED vars
  BY <1>7 DEF LoopEnds, LoopPasses, Tick, vars
<1>8. CASE child_start \/ StartReturns
  <2>1. \E s \in {"restarting", "running"} :
          children' = [children EXCEPT ![Head(Head(stack).todo)].state = s]
    BY <1>8 DEF child_start, StartReturns
  <2>2. Len(children') = Len(children)
    BY <1>2, <2>1
  <2>3. state' = state
    BY <1>8 DEF child_start, StartReturns
  <2>4. QED BY <2>2, <2>3
<1>9. QED BY <1>3, <1>4, <1>5, <1>6, <1>7, <1>8 DEF Next

\* Every value of the state is one the code can hold: the children within their
\* array (supervisor.c:238), head and count within the ring, each loop over
\* children there are, and a call of start_fn only while one is left to start.
THEOREM TypeCorrect == Spec => []TypeOK
<1> DEFINE Inv == RingInv /\ ChildInv /\ BoundsInv
<1>1. Init => Inv
  <2>1. Init => RingInv
    BY SupervisorAssumption DEF Init, RingInv, RingType, RingKeepsLast, Ring
  <2>2. Init => BoundsInv
    BY SupervisorAssumption DEF Init, BoundsInv
  <2>3. QED BY <2>1, <2>2, InitChildInv
<1>2. Inv /\ [Next]_vars => Inv'
  BY RingInvInductive, ChildInvInductive, BoundsInvInductive
<1>3. Inv => TypeOK
  BY DEF RingInv, RingType, Ring, ChildInv, BoundsInv, Child, Loops, TypeOK
<1> HIDE DEF Inv
<1>4. QED BY <1>1, <1>2, <1>3, PTL DEF Spec

-----------------------------------------------------------------------------
(***************************************************************************)
(* Why no child is left behind: a child that does not run is still ahead   *)
(* of one of the loops, and a child that should run before the one a loop  *)
(* is at is ahead of a loop further inside.  Loops visit consecutive       *)
(* children.                                                               *)
(***************************************************************************)
Ahead(c, k) ==
  \E j \in 1 .. k - 1 : \E x \in Indices(stack[j].todo) : stack[j].todo[x] = c
Covered(c, k) ==
  Kept(children[c]) => children[c].state = "running" \/ Ahead(c, k)

Consecutive(todo) == \A x \in 1 .. Len(todo) - 1 : todo[x + 1] = todo[x] + 1

AllCovered == \A c \in Indices(children) : Covered(c, Len(stack) + 1)
EarlierCovered ==
  \A k \in Indices(stack) :
    stack[k].todo # << >> => \A c \in 1 .. stack[k].todo[1] - 1 : Covered(c, k)

OrderInv ==
  /\ ChildInv
  /\ \A k \in Indices(stack) : Consecutive(stack[k].todo)
  /\ state = "running" => AllCovered /\ EarlierCovered

\* What is known of the loops under way.
LEMMA LoopTypes ==
  ASSUME ChildInv
  PROVE  /\ Len(stack) \in Nat /\ Len(children) \in Nat
         /\ \A k \in Indices(stack) :
              /\ stack[k].todo \in Seq(Indices(children))
              /\ Len(stack[k].todo) \in Nat
              /\ \A x \in Indices(stack[k].todo) : stack[k].todo[x] \in Indices(children)
              /\ stack[k].todo # << >> <=> Len(stack[k].todo) > 0
<1>1. stack \in Seq(Loops) /\ children \in Seq(Child)
  BY DEF ChildInv
<1>2. Len(stack) \in Nat /\ Len(children) \in Nat
  BY <1>1, LenProperties
<1>3. ASSUME NEW k \in Indices(stack)
      PROVE  stack[k].todo \in Seq(Indices(children))
  <2>1. stack[k] \in Loops
    BY <1>1, <1>3, ElementOfSeq DEF Indices
  <2>2. QED BY <2>1 DEF Loops
<1>4. ASSUME NEW T, NEW todo \in Seq(T)
      PROVE  /\ Len(todo) \in Nat
             /\ \A x \in Indices(todo) : todo[x] \in T
             /\ todo # << >> <=> Len(todo) > 0
  BY <1>4, LenProperties, ElementOfSeq, EmptySeq DEF Indices
<1>5. QED BY <1>2, <1>3, <1>4

\* The innermost loop goes on: its first child has been seen to.
LEMMA AdvanceKeepsOrder ==
  ASSUME OrderInv, ChildInv', stack # << >>, Head(stack).todo # << >>,
         stack' = Advanced, state' = state, Len(children') = Len(children),
         \A c \in Indices(children) :
           IF c = Head(Head(stack).todo)
           THEN Kept(children'[c]) => children'[c].state = "running"
           ELSE children'[c] = children[c]
  PROVE  OrderInv'
<1> DEFINE todo == stack[1].todo
<1>1. /\ Len(stack) \in Nat \ {0} /\ Head(stack) = stack[1]
      /\ todo \in Seq(Indices(children)) /\ todo # << >>
  <2>1. stack \in Seq(Loops)
    BY DEF OrderInv, ChildInv
  <2>2. Len(stack) \in Nat /\ Len(stack) # 0 /\ Head(stack) = stack[1]
    BY <2>1, LenProperties, EmptySeq
  <2>3. QED BY <2>2, LoopTypes DEF OrderInv, Indices
<1>2. /\ Len(todo) \in Nat \ {0} /\ Head(todo) = todo[1]
      /\ Tail(todo) \in Seq(Indices(children)) /\ Len(Tail(todo)) = Len(todo) - 1
      /\ \A x \in 1 .. Len(todo) - 1 : Tail(todo)[x] = todo[x + 1]
  BY <1>1, LenProperties, EmptySeq, HeadTailProperties
<1>3. /\ Len(stack') = Len(stack)
      /\ stack'[1].todo = Tail(todo)
      /\ \A k \in 2 .. Len(stack) : stack'[k] = stack[k]
  <2>1. stack \in Seq(Loops) /\ Tail(stack) \in Seq(Loops)
        /\ Len(Tail(stack)) = Len(stack) - 1
        /\ \A k \in 1 .. Len(stack) - 1 : Tail(stack)[k] = stack[k + 1]
    BY HeadTailProperties DEF OrderInv, ChildInv
  <2> DEFINE l == Loop(Tail(Head(stack).todo), Head(stack).restart)
  <2>2. stack' = <<l>> \o Tail(stack) /\ l.todo = Tail(todo)
    BY <1>1 DEF Advanced, Loop
  <2>3. l \in Loops
    BY <1>1, <1>2, <2>1, HeadTailProperties DEF Loop, Loops
  <2> HIDE DEF l
  <2>4. /\ Len(stack') = Len(Tail(stack)) + 1 /\ stack'[1] = l
        /\ \A k \in 2 .. Len(Tail(stack)) + 1 : stack'[k] = Tail(stack)[k - 1]
    BY <2>1, <2>2, <2>3, Pushed
  <2>5. QED BY <1>1, <2>1, <2>2, <2>4
<1>4. todo[1] = Head(Head(stack).todo)
  BY <1>1, <1>2
<1> HIDE DEF todo
\* What is ahead of the loops is still ahead, but for the first child.
<1>5. ASSUME NEW c \in Indices(children), NEW k \in 1 .. Len(stack) + 1, Covered(c, k)
      PROVE  Covered(c, k)'
  <2>1. CASE c = todo[1]
    BY <1>4, <1>5, <2>1 DEF Covered
  <2>2. CASE c # todo[1] /\ children[c].state = "running"
    BY <1>4, <1>5, <2>2 DEF Covered
  <2>3. CASE c # todo[1] /\ Kept(children[c]) /\ Ahead(c, k)
    <3>1. PICK j \in 1 .. k - 1 :
            \E x \in Indices(stack[j].todo) : stack[j].todo[x] = c
      BY <2>3 DEF Ahead
    <3>2. CASE j = 1
      <4>1. PICK x \in 1 .. Len(todo) : todo[x] = c
        BY <3>1, <3>2 DEF todo, Indices
      <4>2. x # 1 /\ x - 1 \in 1 .. Len(todo) - 1 /\ (x - 1) + 1 = x
        BY <1>2, <2>3, <4>1
      <4>3. x - 1 \in Indices(stack'[1].todo) /\ stack'[1].todo[x - 1] = c
        BY <1>2, <1>3, <4>1, <4>2 DEF Indices
      <4>4. QED BY <3>1, <3>2, <4>3 DEF Covered, Ahead
    <3>3. CASE j # 1
      <4>1. j \in 2 .. Len(stack)
        BY <1>1, <3>1, <3>3
      <4>2. QED BY <1>3, <3>1, <4>1 DEF Covered, Ahead
    <3>4. QED BY <3>2, <3>3
  <2>4. CASE c # todo[1] /\ ~Kept(children[c])
    BY <1>4, <2>4 DEF Covered
  <2>5. QED BY <1>5, <2>1, <2>2, <2>3, <2>4 DEF Covered
<1>6. ASSUME NEW k \in Indices(stack')
      PROVE  Consecutive(stack'[k].todo)
  <2>1. k \in Indices(stack) /\ 1 \in Indices(stack)
    BY <1>1, <1>3, <1>6 DEF Indices
  <2>2. CASE k = 1
    <3>1. \A x \in 1 .. Len(todo) - 1 : todo[x + 1] = todo[x] + 1
      BY <2>1 DEF OrderInv, Consecutive, todo
    <3>2. \A x \in 1 .. Len(todo) - 2 :
            Tail(todo)[x + 1] = todo[x + 2] /\ Tail(todo)[x] = todo[x + 1]
      <4> SUFFICES ASSUME NEW x \in 1 .. Len(todo) - 2
                   PROVE  Tail(todo)[x + 1] = todo[x + 2] /\ Tail(todo)[x] = todo[x + 1]
        OBVIOUS
      <4>1. x \in 1 .. Len(todo) - 1 /\ x + 1 \in 1 .. Len(todo) - 1 /\ (x + 1) + 1 = x + 2
        BY <1>2
      <4>2. QED BY <1>2, <4>1
    <3>3. \A x \in 1 .. Len(todo) - 2 : todo[x + 2] = todo[x + 1] + 1
      <4> SUFFICES ASSUME NEW x \in 1 .. Len(todo) - 2
                   PROVE  todo[x + 2] = todo[x + 1] + 1
        OBVIOUS
      <4>1. x + 1 \in 1 .. Len(todo) - 1 /\ (x + 1) + 1 = x + 2
        BY <1>2
      <4>2. QED BY <3>1, <4>1
    <3>4. (Len(todo) - 1) - 1 = Len(todo) - 2
      BY <1>2
    <3>5. \A x \in 1 .. Len(todo) - 2 : Tail(todo)[x + 1] = Tail(todo)[x] + 1
      BY <3>2, <3>3
    <3>6. Consecutive(Tail(todo))
      BY <1>2, <3>4, <3>5 DEF Consecutive
    <3>7. QED BY <1>3, <2>2, <3>6
  <2>3. CASE k # 1
    <3>1. stack'[k] = stack[k]
      BY <1>1, <1>3, <2>1, <2>3 DEF Indices
    <3>2. QED BY <2>1, <3>1 DEF OrderInv
  <2>4. QED BY <2>2, <2>3
<1>7. ASSUME state = "running"
      PROVE  AllCovered'
  BY <1>1, <1>3, <1>5, <1>7 DEF OrderInv, AllCovered, Indices
<1>8. ASSUME state = "running", NEW k \in Indices(stack'), stack'[k].todo # << >>,
             NEW c \in 1 .. stack'[k].todo[1] - 1
      PROVE  Covered(c, k)'
  <2>1. k \in Indices(stack) /\ 1 \in Indices(stack)
    BY <1>1, <1>3, <1>8 DEF Indices
  <2>2. /\ stack'[k].todo[1] \in Indices(children') /\ Len(stack'[k].todo) > 0
        /\ Len(children) \in Nat
    <3>1. stack'[k].todo \in Seq(Indices(children))
      <4>1. CASE k = 1
        BY <1>2, <1>3, <4>1
      <4>2. CASE k # 1
        <5>1. stack'[k] = stack[k]
          BY <1>1, <1>3, <2>1, <4>2 DEF Indices
        <5>2. QED BY <2>1, <5>1, LoopTypes DEF OrderInv
      <4>3. QED BY <4>1, <4>2
    <3>2. stack'[k].todo[1] \in Indices(children) /\ Len(stack'[k].todo) > 0
      BY <1>8, <3>1, LenProperties, EmptySeq, ElementOfSeq
    <3>3. QED BY <3>2, LoopTypes DEF OrderInv, Indices
  <2>3. c \in Indices(children)
    BY <2>2, <1>8 DEF Indices
  <2>4. k \in 1 .. Len(stack) + 1
    BY <1>1, <2>1 DEF Indices
  <2>5. CASE k = 1
    <3>1. stack'[1].todo[1] = todo[2] /\ todo[2] = todo[1] + 1 /\ Len(todo) >= 2
      <4>1. Len(todo) >= 2
        BY <1>2, <1>3, <2>2, <2>5
      <4>2. 1 \in 1 .. Len(todo) - 1
        BY <1>2, <4>1
      <4>3. QED BY <1>2, <1>3, <2>1, <4>1, <4>2 DEF OrderInv, Consecutive, todo
    <3>2. todo[1] \in Nat
      BY <1>1, <1>2, ElementOfSeq DEF Indices
    <3>3. CASE c = todo[1]
      BY <1>4, <2>3, <3>3 DEF Covered
    <3>4. CASE c # todo[1]
      <4>1. c \in 1 .. todo[1] - 1
        BY <1>8, <2>5, <3>1, <3>2, <3>4
      <4>2. Covered(c, 1)
        BY <1>1, <1>8, <2>1, <4>1 DEF OrderInv, EarlierCovered, todo
      <4>3. QED BY <1>5, <2>3, <2>4, <2>5, <4>2
    <3>5. QED BY <3>3, <3>4
  <2>6. CASE k # 1
    <3>1. stack'[k] = stack[k]
      BY <1>1, <1>3, <2>1, <2>6 DEF Indices
    <3>2. Covered(c, k)
      BY <1>8, <2>1, <3>1 DEF OrderInv, EarlierCovered
    <3>3. QED BY <1>5, <2>3, <2>4, <3>2
  <2>7. QED BY <2>5, <2>6
<1>9. state = "running" => EarlierCovered'
  BY <1>8 DEF EarlierCovered
<1>10. QED BY <1>6, <1>7, <1>9 DEF OrderInv

LEMMA FromItems ==
  ASSUME children \in Seq(Child), NEW k \in 1 .. Len(children)
  PROVE  /\ Len(From(k)) = Len(children) - k + 1
         /\ \A x \in 1 .. Len(children) - k + 1 : From(k)[x] = k + x - 1
         /\ From(k)[1] = k
         /\ Consecutive(From(k))
         /\ \A d \in k .. Len(children) : \E x \in Indices(From(k)) : From(k)[x] = d
<1>1. Len(children) \in Nat
  BY LenProperties
<1>2. Len(From(k)) = Len(children) - k + 1
  <2>1. Len(children) - k + 1 \in Nat /\ From(k) \in Seq(Indices(children))
    BY <1>1, FromType
  <2>2. DOMAIN From(k) = 1 .. Len(children) - k + 1
    BY DEF From
  <2>3. QED BY <2>1, <2>2, LenProperties
<1>3. \A x \in 1 .. Len(children) - k + 1 : From(k)[x] = k + x - 1
  BY DEF From
<1>4. Consecutive(From(k))
  BY <1>1, <1>2, <1>3 DEF Consecutive
<1>5. ASSUME NEW d \in k .. Len(children)
      PROVE  \E x \in Indices(From(k)) : From(k)[x] = d
  <2>1. d - k + 1 \in 1 .. Len(children) - k + 1 /\ k + (d - k + 1) - 1 = d
    BY <1>1
  <2>2. QED BY <1>2, <1>3, <2>1 DEF Indices
<1>6. QED BY <1>1, <1>2, <1>3, <1>4, <1>5

\* What a failure stops is what the loop it begins will visit, in order, from the
\* failed child on or from the first.
LEMMA RestartVisitsAffected ==
  ASSUME strategy \in Strategy, children \in Seq(Child), NEW c \in Indices(children)
  PROVE  /\ Consecutive(RestartOrder(c))
         /\ RestartOrder(c)[1] \in {1, c}
         /\ \A d \in Affected(c) :
              \E x \in Indices(RestartOrder(c)) : RestartOrder(c)[x] = d
         /\ \A d \in 1 .. c - 1 :
              d \in Affected(c) => RestartOrder(c)[1] = 1
<1>1. Len(children) \in Nat /\ c \in 1 .. Len(children) /\ 1 \in 1 .. Len(children)
  BY LenProperties DEF Indices
<1>2. CASE strategy = "one_for_one"
  <2>1. RestartOrder(c) = <<c>> /\ Affected(c) = {c}
    BY <1>2 DEF RestartOrder, Affected
  <2>2. Len(<<c>>) = 1 /\ <<c>>[1] = c
    OBVIOUS
  <2>3. QED BY <1>1, <2>1, <2>2 DEF Consecutive, Indices
<1>3. CASE strategy = "one_for_all"
  <2>1. RestartOrder(c) = From(1) /\ Affected(c) = 1 .. Len(children)
    BY <1>3 DEF RestartOrder, Affected, Indices
  <2>2. /\ Consecutive(From(1)) /\ From(1)[1] = 1
        /\ \A d \in 1 .. Len(children) : \E x \in Indices(From(1)) : From(1)[x] = d
    BY <1>1, FromItems
  <2>3. QED BY <2>1, <2>2, Zenon
<1>4. CASE strategy = "rest_for_all"
  <2>1. RestartOrder(c) = From(c) /\ Affected(c) = c .. Len(children)
    BY <1>4 DEF RestartOrder, Affected
  <2>2. QED BY <1>1, <2>1, FromItems
<1>5. QED BY <1>2, <1>3, <1>4 DEF Strategy

\* A failure begins a loop over all that it stops.
LEMMA FailureKeepsOrder ==
  ASSUME OrderInv, ChildInv', state = "running", state' = "running",
         NEW c \in Indices(children),
         stack = << >> \/ (stack # << >> /\ c = Head(Head(stack).todo)
                           /\ Head(stack).todo # << >>),
         children' = child_stop(Affected(c)),
         stack' = <<Loop(RestartOrder(c), TRUE)>> \o stack
  PROVE  OrderInv'
<1> DEFINE order == RestartOrder(c)
<1>1. /\ strategy \in Strategy /\ children \in Seq(Child) /\ stack \in Seq(Loops)
      /\ Len(stack) \in Nat /\ Len(children) \in Nat /\ c \in 1 .. Len(children)
  BY LenProperties DEF OrderInv, ChildInv, Indices
<1>2. /\ Consecutive(order)
      /\ order[1] \in {1, c}
      /\ \A d \in Affected(c) : \E x \in Indices(order) : order[x] = d
      /\ \A d \in 1 .. c - 1 : d \in Affected(c) => order[1] = 1
  BY <1>1, RestartVisitsAffected
<1>3. /\ Len(stack') = Len(stack) + 1 /\ stack'[1].todo = order
      /\ \A k \in 2 .. Len(stack) + 1 : stack'[k] = stack[k - 1]
  <2> DEFINE l == Loop(order, TRUE)
  <2>1. l \in Loops /\ l.todo = order /\ stack' = <<l>> \o stack
    BY <1>1, RestartOrderType DEF Loop, Loops
  <2> HIDE DEF l
  <2>2. /\ Len(stack') = Len(stack) + 1 /\ stack'[1] = l
        /\ \A k \in 2 .. Len(stack) + 1 : stack'[k] = stack[k - 1]
    <3>1. l \in Loops /\ stack \in Seq(Loops)
      BY <1>1, <2>1
    <3>2. /\ Len(<<l>> \o stack) = Len(stack) + 1 /\ (<<l>> \o stack)[1] = l
          /\ \A k \in 2 .. Len(stack) + 1 : (<<l>> \o stack)[k] = stack[k - 1]
      BY ONLY <3>1, Pushed
    <3>3. QED BY <2>1, <3>2, Zenon
  <2>3. QED BY <2>1, <2>2
<1>4. /\ Len(children') = Len(children)
      /\ \A d \in Indices(children) :
           /\ Kept(children'[d]) => Kept(children[d])
           /\ d \notin Affected(c) => children'[d] = children[d]
  <2>1. Len(children') = Len(children)
    BY <1>1, ChildStop
  <2>2. ASSUME NEW d \in Indices(children)
        PROVE  /\ Kept(children'[d]) => Kept(children[d])
               /\ d \notin Affected(c) => children'[d] = children[d]
    <3>1. children[d] \in Child
      BY <1>1, ElementOfSeq DEF Indices
    <3>2. QED BY <3>1 DEF child_stop, Kept, Child
  <2>3. QED BY <2>1, <2>2
<1> HIDE DEF order
<1>5. ASSUME NEW d \in Indices(children), NEW k \in 1 .. Len(stack) + 1, Covered(d, k)
      PROVE  Covered(d, k + 1)'
  <2>1. CASE d \in Affected(c)
    <3>1. 1 \in 1 .. (k + 1) - 1
      BY <1>1
    <3>2. \E x \in Indices(stack'[1].todo) : stack'[1].todo[x] = d
      BY <1>2, <1>3, <2>1, Zenon
    <3>3. QED BY <3>1, <3>2 DEF Covered, Ahead
  <2>2. CASE d \notin Affected(c) /\ ~Ahead(d, k)
    BY <1>4, <1>5, <2>2 DEF Covered
  <2>3. CASE Ahead(d, k)
    <3>1. PICK j \in 1 .. k - 1 :
            \E x \in Indices(stack[j].todo) : stack[j].todo[x] = d
      BY <2>3 DEF Ahead
    <3>2. j + 1 \in 2 .. Len(stack) + 1 /\ j + 1 \in 1 .. (k + 1) - 1
          /\ (j + 1) - 1 = j
      BY <1>1, <3>1
    <3>3. stack'[j + 1] = stack[j]
      BY <1>3, <3>2
    <3>4. QED BY <3>1, <3>2, <3>3 DEF Covered, Ahead
  <2>4. QED BY <2>1, <2>2, <2>3
<1>6. \A k \in Indices(stack') : Consecutive(stack'[k].todo)
  <2> SUFFICES ASSUME NEW k \in 1 .. Len(stack) + 1 PROVE Consecutive(stack'[k].todo)
    BY <1>3 DEF Indices
  <2>1. CASE k = 1
    BY <1>2, <1>3, <2>1
  <2>2. CASE k # 1
    <3>1. k - 1 \in Indices(stack) /\ stack'[k] = stack[k - 1]
      BY <1>1, <1>3, <2>2 DEF Indices
    <3>2. QED BY <3>1 DEF OrderInv
  <2>3. QED BY <2>1, <2>2
<1>7. AllCovered'
  <2>1. PICK n \in 1 .. Len(stack) + 1 : n = Len(stack) + 1
    BY <1>1
  <2>2. ASSUME NEW d \in Indices(children)
        PROVE  Covered(d, n + 1)'
    <3>1. Covered(d, n)
      BY <2>1 DEF OrderInv, AllCovered
    <3>2. QED BY <1>5, <3>1
  <2>3. Len(stack') + 1 = n + 1 /\ Indices(children') = Indices(children)
    BY <1>3, <1>4, <2>1 DEF Indices
  <2>4. QED BY <2>2, <2>3 DEF AllCovered
\* Before the failure, the children before the failed one ran.
<1>8. ASSUME NEW d \in 1 .. c - 1
      PROVE  d \in Indices(children) /\ (Kept(children[d]) => children[d].state = "running")
  <2>1. d \in Indices(children)
    BY <1>1, <1>8 DEF Indices
  <2>2. ~Ahead(d, 1)
    BY DEF Ahead
  <2>3. CASE stack = << >>
    <3>1. Len(stack) + 1 = 1
      BY <1>1, <2>3, EmptySeq
    <3>2. Covered(d, 1)
      BY <2>1, <3>1 DEF OrderInv, AllCovered
    <3>3. QED BY <2>1, <2>2, <3>2 DEF Covered
  <2>4. CASE stack # << >> /\ c = Head(Head(stack).todo) /\ Head(stack).todo # << >>
    <3>1. 1 \in Indices(stack) /\ Head(stack) = stack[1]
      BY <1>1, <2>4, EmptySeq DEF Indices
    <3>2. stack[1].todo \in Seq(Indices(children)) /\ stack[1].todo # << >>
      BY <2>4, <3>1, LoopTypes DEF OrderInv
    <3>3. c = stack[1].todo[1]
      BY <2>4, <3>1, <3>2
    <3>4. Covered(d, 1)
      BY <1>8, <3>1, <3>2, <3>3 DEF OrderInv, EarlierCovered
    <3>5. QED BY <2>1, <2>2, <3>4 DEF Covered
  <2>5. QED BY <2>3, <2>4
<1>9. ASSUME NEW k \in Indices(stack'), stack'[k].todo # << >>,
             NEW d \in 1 .. stack'[k].todo[1] - 1
      PROVE  Covered(d, k)'
  <2>1. CASE k = 1
    <3>1. d \in 1 .. c - 1 /\ d \notin Affected(c)
      <4>1. d \in 1 .. order[1] - 1
        BY <1>3, <1>9, <2>1
      <4>2. order[1] = c
        BY <1>2, <4>1
      <4>3. c # 1
        BY <4>1, <4>2
      <4>4. QED BY <1>2, <4>1, <4>2, <4>3
    <3>2. QED BY <1>4, <1>8, <3>1 DEF Covered
  <2>2. CASE k # 1
    <3>1. /\ k - 1 \in Indices(stack) /\ stack'[k] = stack[k - 1]
          /\ k - 1 \in 1 .. Len(stack) + 1 /\ (k - 1) + 1 = k
      BY <1>1, <1>3, <2>2 DEF Indices
    <3>2. Covered(d, k - 1)
      BY <1>9, <3>1 DEF OrderInv, EarlierCovered
    <3>3. stack[k - 1].todo[1] \in 1 .. Len(children)
      BY <1>9, <3>1, LoopTypes DEF OrderInv, Indices
    <3>4. d \in Indices(children)
      BY <1>1, <1>9, <3>1, <3>3 DEF Indices
    <3>5. Covered(d, (k - 1) + 1)'
      BY <1>5, <3>1, <3>2, <3>4
    <3>6. QED BY <3>1, <3>5
  <2>3. QED BY <2>1, <2>2
<1>10. QED BY <1>6, <1>7, <1>9 DEF OrderInv, EarlierCovered

LEMMA InitOrderInv == Init => OrderInv
<1> SUFFICES ASSUME Init PROVE OrderInv
  OBVIOUS
<1>1. stack = << >> /\ state = "stopped" /\ Indices(stack) = {}
  BY DEF Init, Indices
<1>2. QED BY <1>1, InitChildInv DEF OrderInv

LEMMA OrderInvInductive == OrderInv /\ [Next]_vars => OrderInv'
<1> SUFFICES ASSUME OrderInv, [Next]_vars PROVE OrderInv'
  OBVIOUS
<1>0. /\ ChildInv' /\ stack \in Seq(Loops) /\ children \in Seq(Child)
      /\ Len(stack) \in Nat /\ Len(children) \in Nat
  BY ChildInvInductive, LenProperties DEF OrderInv, ChildInv
\* With no loop under way, or while the supervisor does not run, there is nothing
\* to know but that the loops are consecutive.
<1>a. ASSUME state' # "running", stack' = stack
      PROVE  OrderInv'
  BY <1>0, <1>a DEF OrderInv
<1>1. ASSUME NEW kind \in Kinds, lcn_supervisor_add_child(kind)
      PROVE  OrderInv'
  BY <1>1, <1>a DEF lcn_supervisor_add_child
<1>2. CASE lcn_supervisor_start
  <2>1. /\ stack' = <<Loop(From(1), FALSE)>> /\ children' = children
    BY <1>2 DEF lcn_supervisor_start
  <2> DEFINE l == Loop(From(1), FALSE)
  <2>2. Len(stack') = 1 /\ stack'[1].todo = From(1)
    <3>1. stack' = <<l>> /\ l.todo = From(1)
      BY <2>1 DEF Loop
    <3> HIDE DEF l
    <3>2. QED BY <3>1
  <2>3. CASE Len(children) = 0
    <3>1. From(1) = << >>
      <4>1. From(1) \in Seq(Indices(children)) /\ Len(From(1)) \in Nat
        BY <1>0, <2>3, FromType, LenProperties
      <4>2. DOMAIN From(1) = 1 .. 0
        BY <2>3 DEF From
      <4>3. QED BY <4>1, <4>2, LenProperties, EmptySeq
    <3>2. Consecutive(From(1))
      BY <3>1 DEF Consecutive
    <3>3. \A k \in Indices(stack') : stack'[k].todo = << >>
      BY <2>2, <3>1 DEF Indices
    <3>4. AllCovered'
      BY <2>1, <2>3 DEF AllCovered, Indices
    <3>5. EarlierCovered'
      BY <3>3 DEF EarlierCovered
    <3>6. QED BY <1>0, <3>1, <3>2, <3>3, <3>4, <3>5 DEF OrderInv
  <2>4. CASE Len(children) > 0
    <3>1. /\ Consecutive(From(1)) /\ From(1)[1] = 1
          /\ \A d \in 1 .. Len(children) :
               \E x \in Indices(From(1)) : From(1)[x] = d
      BY <1>0, <2>4, FromItems, 1 \in 1 .. Len(children)
    <3>2. AllCovered'
      <4> SUFFICES ASSUME NEW d \in 1 .. Len(children) PROVE Covered(d, 2)'
        BY <2>1, <2>2 DEF AllCovered, Indices
      <4>1. \E x \in Indices(stack'[1].todo) : stack'[1].todo[x] = d
        BY <2>2, <3>1, Zenon
      <4>2. QED BY <4>1, 1 \in 1 .. 2 - 1 DEF Covered, Ahead
    <3>3. EarlierCovered'
      BY <2>2, <3>1 DEF EarlierCovered, Indices
    <3>4. \A k \in Indices(stack') : Consecutive(stack'[k].todo)
      BY <2>2, <3>1 DEF Indices
    <3>5. QED BY <1>0, <3>2, <3>3, <3>4 DEF OrderInv
  <2>5. QED BY <1>0, <2>3, <2>4
<1>3. CASE lcn_supervisor_stop
  BY <1>3, <1>a DEF lcn_supervisor_stop
<1>b. ASSUME stack # << >>
      PROVE  /\ Head(stack) = stack[1] /\ 1 \in Indices(stack)
             /\ stack[1].inside => stack[1].todo # << >>
  <2>1. Head(stack) = stack[1] /\ 1 \in Indices(stack)
    BY <1>0, <1>b, EmptySeq DEF Indices
  <2>2. QED BY <2>1 DEF OrderInv, ChildInv
<1>4. CASE ReportFailure
  <2>1. PICK c : /\ lcn_supervisor_child_failed(c)
                 /\ stack = << >> \/ (stack # << >> /\ c = Head(Head(stack).todo)
                                        /\ Head(stack).todo # << >>)
    BY <1>4, <1>b DEF ReportFailure
  <2>2. c \in Indices(children) /\ state = "running"
    BY <2>1 DEF lcn_supervisor_child_failed
  <2>3. CASE check_escalation
    <3>1. state' = "escalated" /\ stack' = stack
      BY <2>1, <2>3 DEF lcn_supervisor_child_failed
    <3>2. QED BY <1>a, <3>1
  <2>4. CASE ~check_escalation
    <3>1. /\ children' = child_stop(Affected(c)) /\ state' = state
          /\ stack' = <<Loop(RestartOrder(c), TRUE)>> \o stack
      BY <2>1, <2>4 DEF lcn_supervisor_child_failed
    <3>2. QED BY <1>0, <2>1, <2>2, <3>1, FailureKeepsOrder
  <2>5. QED BY <2>3, <2>4
<1>5. CASE LoopPasses
  <2>1. /\ stack # << >> /\ Head(stack).todo # << >> /\ stack' = Advanced
        /\ UNCHANGED <<state, children>>
        /\ Passed(Head(stack), children[Head(Head(stack).todo)])
    BY <1>5 DEF LoopPasses, Between
  <2>2. Kept(children[Head(Head(stack).todo)]) =>
          children[Head(Head(stack).todo)].state = "running"
    BY <2>1 DEF Passed, Kept
  <2>3. QED BY <1>0, <2>1, <2>2, AdvanceKeepsOrder
<1>6. CASE StartReturns
  <2>1. /\ stack # << >> /\ Head(stack).inside /\ stack' = Advanced /\ state' = state
        /\ children' = [children EXCEPT ![Head(Head(stack).todo)].state = "running"]
    BY <1>6 DEF StartReturns
  <2> DEFINE a == Head(Head(stack).todo)
  <2>2. Head(stack).todo # << >>
    BY <1>b, <2>1
  <2>3. a \in Indices(children)
    <3>1. stack[1].todo \in Seq(Indices(children)) /\ Head(stack) = stack[1]
      BY <1>b, <2>1, LoopTypes DEF OrderInv
    <3>2. QED BY <2>2, <3>1, HeadTailProperties
  <2>4. children[a] \in Child
    BY <1>0, <2>3, ElementOfSeq DEF Indices
  <2> DEFINE r == [children[a] EXCEPT !.state = "running"]
  <2>5. r \in Child /\ r.state = "running" /\ children' = [children EXCEPT ![a] = r]
    BY <2>1, <2>4 DEF Child
  <2> HIDE DEF r, a
  <2>6. /\ Len(children') = Len(children)
        /\ \A d \in 1 .. Len(children) : children'[d] = IF d = a THEN r ELSE children[d]
    BY <1>0, <2>3, <2>5, ExceptSeq DEF Indices
  <2>7. \A d \in Indices(children) :
          IF d = a THEN Kept(children'[d]) => children'[d].state = "running"
                   ELSE children'[d] = children[d]
    BY <2>5, <2>6 DEF Indices
  <2>8. QED BY <1>0, <2>1, <2>2, <2>6, <2>7, AdvanceKeepsOrder DEF a
<1>7. CASE LoopEnds
  <2>1. /\ stack # << >> /\ stack[1].todo = << >> /\ stack' = Tail(stack)
        /\ UNCHANGED <<state, children>>
    BY <1>7, <1>b DEF LoopEnds
  <2>2. /\ Len(stack') = Len(stack) - 1
        /\ \A k \in 1 .. Len(stack) - 1 : stack'[k] = stack[k + 1]
    BY <1>0, <2>1, HeadTailProperties
  <2>3. Len(stack) \in Nat \ {0} /\ Indices(stack[1].todo) = {}
    BY <1>0, <2>1, EmptySeq DEF Indices
  <2>4. ASSUME NEW c, NEW k \in 1 .. Len(stack), Covered(c, k + 1)
        PROVE  Covered(c, k)'
    <3>1. CASE Ahead(c, k + 1)
      <4>1. PICK j \in 1 .. k : \E x \in Indices(stack[j].todo) : stack[j].todo[x] = c
        BY <2>3, <3>1 DEF Ahead
      <4>2. j # 1
        BY <2>3, <4>1
      <4>3. j - 1 \in 1 .. k - 1 /\ stack'[j - 1] = stack[j]
        BY <2>2, <2>3, <4>2
      <4>4. QED BY <4>1, <4>3 DEF Covered, Ahead
    <3>2. CASE ~Ahead(c, k + 1)
      BY <2>1, <2>4, <3>2 DEF Covered
    <3>3. QED BY <3>1, <3>2
  <2>5. ASSUME NEW k \in Indices(stack')
        PROVE  k + 1 \in Indices(stack) /\ stack'[k] = stack[k + 1] /\ k \in 1 .. Len(stack)
    BY <2>2, <2>3, <2>5 DEF Indices
  <2>6. \A k \in Indices(stack') : Consecutive(stack'[k].todo)
    BY <2>5 DEF OrderInv
  <2>7. ASSUME state = "running" PROVE AllCovered'
    <3>1. PICK n \in 1 .. Len(stack) : n = Len(stack)
      BY <2>3
    <3>2. \A c \in Indices(children) : Covered(c, n + 1)
      BY <2>7, <3>1 DEF OrderInv, AllCovered
    <3>3. \A c \in Indices(children) : Covered(c, n)'
      BY <2>4, <3>2
    <3>4. Len(stack') + 1 = n
      BY <2>2, <2>3, <3>1
    <3>5. QED BY <2>1, <3>3, <3>4 DEF AllCovered
  <2>8. ASSUME state = "running" PROVE EarlierCovered'
    BY <2>4, <2>5, <2>8 DEF OrderInv, EarlierCovered
  <2>9. QED BY <1>0, <2>1, <2>6, <2>7, <2>8 DEF OrderInv
<1>8. CASE child_start
  <2> DEFINE a == Head(Head(stack).todo)
  <2>1. /\ stack # << >> /\ Head(stack).todo # << >> /\ state' = state
        /\ stack' = [stack EXCEPT ![1].inside = TRUE]
        /\ children' = [children EXCEPT ![a].state = "restarting"]
    BY <1>8 DEF child_start, Between
  <2>2. stack[1].todo \in Seq(Indices(children)) /\ stack[1] \in Loops
        /\ stack[1].todo # << >>
    BY <1>0, <1>b, <2>1, LoopTypes, ElementOfSeq DEF OrderInv, Indices
  <2>3. /\ Len(stack[1].todo) \in Nat \ {0} /\ a = stack[1].todo[1]
        /\ a \in Indices(children)
    BY <1>b, <2>1, <2>2, LenProperties, EmptySeq, HeadTailProperties
  <2>4. /\ Len(stack') = Len(stack)
        /\ \A k \in 1 .. Len(stack) : stack'[k].todo = stack[k].todo
    <3> DEFINE l == [stack[1] EXCEPT !.inside = TRUE]
    <3>1. l \in Loops /\ l.todo = stack[1].todo
      BY <2>2 DEF Loops
    <3>2. stack' = [stack EXCEPT ![1] = l] /\ 1 \in 1 .. Len(stack)
      BY <1>b, <2>1 DEF Indices
    <3> HIDE DEF l
    <3>3. /\ Len(stack') = Len(stack)
          /\ \A k \in 1 .. Len(stack) : stack'[k] = IF k = 1 THEN l ELSE stack[k]
      BY <1>0, <3>1, <3>2, ExceptSeq
    <3>4. QED BY <3>1, <3>3
  <2>5. /\ Len(children') = Len(children)
        /\ \A d \in Indices(children) : d # a => children'[d] = children[d]
    BY <1>0, <2>1
  <2> HIDE DEF a
  <2>6. ASSUME NEW c \in Indices(children), NEW k \in 1 .. Len(stack) + 1, Covered(c, k),
               c # a \/ k > 1
        PROVE  Covered(c, k)'
    <3>1. Ahead(c, k) => Ahead(c, k)'
      <4>1. \A j \in 1 .. k - 1 : stack'[j].todo = stack[j].todo
        BY <1>0, <2>4
      <4>2. QED BY <4>1 DEF Ahead
    <3>2. CASE c # a
      BY <2>5, <2>6, <3>1, <3>2 DEF Covered
    <3>3. CASE c = a /\ k > 1
      <4>1. 1 \in 1 .. k - 1 /\ 1 \in Indices(stack[1].todo)
        BY <2>3, <3>3 DEF Indices
      <4>2. Ahead(c, k)
        BY <2>3, <3>3, <4>1 DEF Ahead
      <4>3. QED BY <3>1, <4>2 DEF Covered
    <3>4. QED BY <2>6, <3>2, <3>3
  <2>7. \A k \in Indices(stack') : Consecutive(stack'[k].todo)
    BY <2>4 DEF OrderInv, Indices
  <2>8. ASSUME state = "running" PROVE AllCovered'
    <3>1. PICK n \in 1 .. Len(stack) + 1 : n = Len(stack) + 1 /\ n > 1
      BY <1>0, <1>b, <2>1 DEF Indices
    <3>2. \A c \in Indices(children) : Covered(c, n)'
      BY <2>6, <2>8, <3>1 DEF OrderInv, AllCovered
    <3>3. QED BY <2>4, <2>5, <3>1, <3>2 DEF AllCovered, Indices
  <2>9. ASSUME state = "running", NEW k \in Indices(stack'), stack'[k].todo # << >>,
               NEW c \in 1 .. stack'[k].todo[1] - 1
        PROVE  Covered(c, k)'
    <3>1. k \in Indices(stack) /\ stack'[k].todo = stack[k].todo /\ k \in 1 .. Len(stack) + 1
      BY <1>0, <2>4, <2>9 DEF Indices
    <3>2. Covered(c, k)
      BY <2>9, <3>1 DEF OrderInv, EarlierCovered
    <3>3. stack[k].todo[1] \in 1 .. Len(children)
      BY <2>9, <3>1, LoopTypes DEF OrderInv, Indices
    <3>4. c \in Indices(children)
      BY <1>0, <2>9, <3>1, <3>3 DEF Indices
    <3>5. c # a \/ k > 1
      BY <2>3, <2>9, <3>1, <3>3 DEF Indices
    <3>6. QED BY <2>6, <3>1, <3>2, <3>4, <3>5
  <2>10. QED BY <1>0, <2>1, <2>7, <2>8, <2>9 DEF OrderInv, EarlierCovered
<1>9. CASE Tick \/ UNCHANGED vars
  <2>1. UNCHANGED <<strategy, state, children, stack>>
    BY <1>9 DEF Tick, vars
  <2>2. \A c, k : Covered(c, k) => Covered(c, k)'
    BY <2>1 DEF Covered, Ahead
  <2>3. (AllCovered => AllCovered') /\ (EarlierCovered => EarlierCovered')
    BY <2>1, <2>2 DEF AllCovered, EarlierCovered
  <2>4. QED BY <1>0, <2>1, <2>3 DEF OrderInv
<1>10. QED BY <1>1, <1>2, <1>3, <1>4, <1>5, <1>6, <1>7, <1>8, <1>9 DEF Next

\* supervisor.c: after every call a running supervisor has all children running that
\* are to be restarted, whatever failed while others were being started.
THEOREM NobodyLeftBehind == Spec => []NoChildLeftBehind
<1>1. OrderInv => NoChildLeftBehind
  <2>1. SUFFICES ASSUME OrderInv, stack = << >>, state = "running",
                        NEW c \in Indices(children), Kept(children[c])
                 PROVE  children[c].state = "running"
    BY DEF NoChildLeftBehind, Quiet
  <2>2. Covered(c, 1)
    BY <2>1 DEF OrderInv, AllCovered
  <2>3. ~Ahead(c, 1)
    BY DEF Ahead
  <2>4. QED BY <2>1, <2>2, <2>3 DEF Covered
<1>2. QED BY <1>1, InitOrderInv, OrderInvInductive, PTL DEF Spec

\* A child starts only when the children before it run, also in a restart that a
\* failure during another start began.
THEOREM StartOrder == Spec => []StartsInOrder
<1>1. OrderInv => StartsInOrder
  <2>1. SUFFICES ASSUME OrderInv, state = "running", stack # << >>, Head(stack).inside,
                        NEW c \in 1 .. Head(Head(stack).todo) - 1, Kept(children[c])
                 PROVE  children[c].state = "running"
    BY DEF StartsInOrder, Quiet
  <2>2. stack \in Seq(Loops) /\ 1 \in Indices(stack) /\ Head(stack) = stack[1]
    BY <2>1, EmptySeq, LenProperties DEF OrderInv, ChildInv, Indices
  <2>3. stack[1].todo # << >> /\ stack[1].todo \in Seq(Indices(children))
    BY <2>1, <2>2, LoopTypes DEF OrderInv, ChildInv
  <2>4. Head(stack[1].todo) = stack[1].todo[1]
    BY <2>3
  <2>5. Covered(c, 1)
    BY <2>1, <2>2, <2>3, <2>4 DEF OrderInv, EarlierCovered
  <2>6. ~Ahead(c, 1)
    BY DEF Ahead
  <2>7. QED BY <2>1, <2>5, <2>6 DEF Covered
<1>2. QED BY <1>1, InitOrderInv, OrderInvInductive, PTL DEF Spec
=============================================================================
