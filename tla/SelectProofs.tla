---------------------------- MODULE SelectProofs -----------------------------
(***************************************************************************)
(* Theorems about Select, for every number of arms, capacity, set of NULL  *)
(* handles and set of selectors.                                           *)
(***************************************************************************)
EXTENDS Select, TLAPS

\* The rotation: i places after offset, modulo N.
LEMMA Rotation ==
  ASSUME NEW o \in Chan, NEW k \in 0 .. N
  PROVE  (o + 1) % N \in Chan /\ (k + o) % N \in Chan
  BY SelectAssumption DEF Chan

\* N consecutive places after any offset are all the channels.
LEMMA RotationCovers ==
  ASSUME NEW o \in Chan, NEW c \in Chan
  PROVE  \E k \in 0 .. N - 1 : (k + o) % N = c
<1> USE SelectAssumption DEF Chan
<1>1. CASE c >= o
  <2>1. c - o \in 0 .. N - 1 /\ ((c - o) + o) % N = c
    BY <1>1
  <2>2. QED BY <2>1
<1>2. CASE c < o
  <2>1. c - o + N \in 0 .. N - 1 /\ ((c - o + N) + o) % N = c
    BY <1>2
  <2>2. QED BY <2>1
<1>3. QED BY <1>1, <1>2

-----------------------------------------------------------------------------
LEMMA InitTypeOK == Init => TypeOK
  BY SelectAssumption DEF Init, TypeOK, Chan, NoAnswer

LEMMA TypeOKInductive == TypeOK /\ [Next]_vars => TypeOK'
<1> USE SelectAssumption
<1>2. TypeOK /\ [Next]_vars => TypeOK'
  <2> SUFFICES ASSUME TypeOK, [Next]_vars PROVE TypeOK'
    OBVIOUS
  <2> USE DEF TypeOK, Open, idx, StartScan
  <2>1. ASSUME NEW c \in Chan, Send(c) \/ Close(c) \/ RivalReceives(c)
        PROVE  TypeOK'
    <3>1. len' \in [Chan -> 0 .. Capacity]
      BY <2>1 DEF Send, Close, RivalReceives
    <3>2. closed' \in [Chan -> BOOLEAN]
      BY <2>1 DEF Send, Close, RivalReceives
    <3>3. UNCHANGED <<pc, offset, i, all_closed, answer>>
      BY <2>1 DEF Send, Close, RivalReceives
    <3>4. QED BY <3>1, <3>2, <3>3
  <2>2. ASSUME NEW t \in Selector, lcn_select(t)
        PROVE  TypeOK'
    <3>1. /\ offset' = [offset EXCEPT ![t] = 0] /\ pc' = [pc EXCEPT ![t] = "closed?"]
          /\ i' = [i EXCEPT ![t] = 0] /\ all_closed' = [all_closed EXCEPT ![t] = TRUE]
          /\ len' = len /\ closed' = closed /\ answer' = answer
      BY <2>2 DEF lcn_select
    <3>2. 0 \in Chan /\ 0 \in 0 .. N
      BY SelectAssumption DEF Chan
    <3>3. /\ offset' \in [Selector -> Chan] /\ i' \in [Selector -> 0 .. N]
          /\ all_closed' \in [Selector -> BOOLEAN]
          /\ pc' \in [Selector -> {"idle", "closed?", "len?", "sleep", "recv"}]
      BY <3>1, <3>2
    <3>4. \A u \in Selector : pc'[u] = "len?" =>
            pc[u] = "len?" /\ i'[u] = i[u] /\ offset'[u] = offset[u]
      BY <3>1
    <3>5. \A u \in Selector : pc'[u] = "recv" => pc[u] = "recv"
      BY <3>1
    <3>6. QED BY <3>1, <3>3, <3>4, <3>5
  <2>3. ASSUME NEW t \in Selector, SkipNull(t)
        PROVE  TypeOK'
    BY <2>3 DEF SkipNull
  <2>4. ASSUME NEW t \in Selector, TestClosed(t)
        PROVE  TypeOK'
    BY <2>4, Rotation DEF TestClosed
  <2>5. ASSUME NEW t \in Selector, TestLength(t)
        PROVE  TypeOK'
    BY <2>5, Rotation DEF TestLength
  <2>6. ASSUME NEW t \in Selector, EndScan(t)
        PROVE  TypeOK'
    <3>1. answer' \in [Selector -> Chan \cup {-1, -2, NoAnswer}]
      BY <2>6 DEF EndScan
    <3>2. /\ pc' \in [Selector -> {"idle", "closed?", "len?", "sleep", "recv"}]
          /\ pc'[t] \in {"idle", "sleep"}
          /\ \A u \in Selector \ {t} : pc'[u] = pc[u] /\ answer'[u] = answer[u]
      BY <2>6 DEF EndScan
    <3>3. UNCHANGED <<len, closed, offset, i, all_closed>>
      BY <2>6 DEF EndScan
    <3>4. /\ \A u \in Selector : pc'[u] = "len?" => pc[u] = "len?"
          /\ \A u \in Selector :
               pc'[u] = "recv" => pc[u] = "recv" /\ answer'[u] = answer[u]
      BY <3>2
    <3>5. \A u \in Selector : pc'[u] = "len?" => i'[u] < N /\ idx(u)' \in Open
      BY <3>3, <3>4
    <3>6. \A u \in Selector : pc'[u] = "recv" => answer'[u] \in Open
      BY <3>3, <3>4
    <3>7. QED
      <4> HIDE DEF Open, idx
      <4>1. QED BY <3>1, <3>2, <3>3, <3>5, <3>6
  <2>7. ASSUME NEW t \in Selector, sleep_ms(t)
        PROVE  TypeOK'
    BY <2>7, Rotation DEF sleep_ms
  <2>8. ASSUME NEW t \in Selector, ReceiveArm(t)
        PROVE  TypeOK'
    <3>1. answer[t] \in Chan
      BY <2>8 DEF ReceiveArm
    <3>2. len' \in [Chan -> 0 .. Capacity]
      BY <2>8, <3>1 DEF ReceiveArm
    <3>3. pc' = [pc EXCEPT ![t] = "idle"]
          /\ UNCHANGED <<closed, offset, i, all_closed, answer>>
      BY <2>8 DEF ReceiveArm
    <3>4. QED BY <3>2, <3>3
  <2>9. CASE UNCHANGED vars
    BY <2>9 DEF vars
  <2>10. QED
    BY <2>1, <2>2, <2>3, <2>4, <2>5, <2>6, <2>7, <2>8, <2>9 DEF Next, SelectStep
<1>3. QED BY <1>2

\* The scan's indices stay within the array of channels, and an arm is chosen
\* only for a channel whose handle is not NULL.
THEOREM Typing == Spec => []TypeOK
  BY InitTypeOK, TypeOKInductive, PTL DEF Spec

-----------------------------------------------------------------------------
(***************************************************************************)
(* What a scan knows while all_closed is still set: the channels it has    *)
(* passed are NULL or drained, and stay so because nothing can be sent to  *)
(* a closed channel; and the channel whose length it is about to test is   *)
(* closed.  With the tests of a channel in the other order the second part *)
(* would be false, and with it the invariant.                              *)
(***************************************************************************)
Passed(t, k) == (k + offset[t]) % N

ScanInv(t) ==
  pc[t] \in {"closed?", "len?"} /\ all_closed[t] =>
    /\ \A k \in 0 .. i[t] - 1 : Passed(t, k) \in Null \/ Drained(Passed(t, k))
    /\ pc[t] = "len?" => closed[idx(t)]

DrainInv == TypeOK /\ MinusOneMeansDrained /\ \A t \in Selector : ScanInv(t)

\* A drained channel stays drained.
LEMMA DrainedStable ==
  ASSUME TypeOK, NEW c \in Chan, closed[c], [Next]_vars
  PROVE  closed'[c] /\ (Drained(c) => Drained(c)')
<1> USE DEF TypeOK, Drained
<1>1. ASSUME NEW d \in Chan, Send(d) \/ Close(d) \/ RivalReceives(d)
      PROVE  closed'[c] /\ (Drained(c) => Drained(c)')
  BY <1>1 DEF Send, Close, RivalReceives, Open
<1>2. ASSUME NEW t \in Selector, ReceiveArm(t)
      PROVE  closed'[c] /\ (Drained(c) => Drained(c)')
  BY <1>2 DEF ReceiveArm, Open
<1>3. ASSUME UNCHANGED <<len, closed>>
      PROVE  closed'[c] /\ (Drained(c) => Drained(c)')
  BY <1>3
<1>4. QED
  BY <1>1, <1>2, <1>3
     DEF Next, SelectStep, lcn_select, SkipNull, TestClosed, TestLength, EndScan,
         sleep_ms, vars

\* A selector whose own variables do not change keeps what its scan knows.
LEMMA OthersKeepScan ==
  ASSUME TypeOK, NEW t \in Selector, ScanInv(t), [Next]_vars,
         pc'[t] = pc[t], i'[t] = i[t], offset'[t] = offset[t],
         all_closed'[t] = all_closed[t]
  PROVE  ScanInv(t)'
<1> SUFFICES ASSUME pc[t] \in {"closed?", "len?"}, all_closed[t]
             PROVE  /\ \A k \in 0 .. i[t] - 1 :
                          Passed(t, k) \in Null \/ Drained(Passed(t, k))'
                    /\ pc[t] = "len?" => closed'[idx(t)]
  BY DEF ScanInv, Passed, idx, Drained
<1>1. i[t] \in 0 .. N /\ offset[t] \in Chan
  BY DEF TypeOK
<1>2. ASSUME NEW k \in 0 .. i[t] - 1
      PROVE  Passed(t, k) \in Null \/ Drained(Passed(t, k))'
  <2>1. k \in 0 .. N
    BY <1>1, SelectAssumption
  <2>2. Passed(t, k) \in Chan
    BY <1>1, <2>1, Rotation DEF Passed
  <2>3. Passed(t, k) \in Null \/ Drained(Passed(t, k))
    BY DEF ScanInv
  <2>4. Passed(t, k)' = Passed(t, k)
    BY DEF Passed
  <2>5. ASSUME NEW c \in Chan, c = Passed(t, k), Drained(c)
        PROVE  Drained(c)' /\ c = Passed(t, k)'
    BY <2>4, <2>5, DrainedStable DEF Drained
  <2>6. QED BY <2>2, <2>3, <2>4, <2>5 DEF Drained
<1>3. ASSUME pc[t] = "len?"
      PROVE  closed'[idx(t)]
  BY <1>3, DrainedStable DEF ScanInv, TypeOK, Open
<1>4. QED BY <1>2, <1>3

LEMMA DrainInvInductive == DrainInv /\ [Next]_vars => DrainInv'
<1> SUFFICES ASSUME DrainInv, [Next]_vars PROVE DrainInv'
  OBVIOUS
<1>0. /\ TypeOK /\ MinusOneMeansDrained /\ TypeOK'
      /\ \A t \in Selector : ScanInv(t)
      /\ N \in Nat \ {0} /\ Open \subseteq Chan
  BY TypeOKInductive, SelectAssumption DEF DrainInv, Open
\* An answer of -1 that was given earlier remains true.
<1>1. ASSUME NEW t \in Selector, answer'[t] = answer[t]
      PROVE  answer'[t] = -1 => \A c \in Open : Drained(c)'
  BY <1>0, <1>1, DrainedStable DEF MinusOneMeansDrained, Drained
\* The selectors that do not move keep what they know.
<1>2. ASSUME NEW t \in Selector, pc'[t] = pc[t], i'[t] = i[t],
             offset'[t] = offset[t], all_closed'[t] = all_closed[t]
      PROVE  ScanInv(t)'
  BY <1>0, <1>2, OthersKeepScan
<1> DEFINE Goal == /\ \A t \in Selector : ScanInv(t)'
                   /\ \A t \in Selector :
                        answer'[t] = -1 => \A c \in Open : Drained(c)'
<1>3. SUFFICES Goal
  BY <1>0 DEF DrainInv, MinusOneMeansDrained
<1>4. ASSUME UNCHANGED <<pc, offset, i, all_closed, answer>>
      PROVE  Goal
  BY <1>1, <1>2, <1>4
<1>5. ASSUME NEW t \in Selector,
             \A u \in Selector \ {t} :
               /\ pc'[u] = pc[u] /\ i'[u] = i[u] /\ offset'[u] = offset[u]
               /\ all_closed'[u] = all_closed[u] /\ answer'[u] = answer[u],
             ScanInv(t)', answer'[t] = answer[t] \/ answer'[t] # -1
                            \/ \A c \in Open : Drained(c)'
      PROVE  Goal
  BY <1>1, <1>2, <1>5
<1>6. ASSUME NEW t \in Selector,
             lcn_select(t) \/ sleep_ms(t)
      PROVE  Goal
  <2>1. \A u \in Selector \ {t} :
          /\ pc'[u] = pc[u] /\ i'[u] = i[u] /\ offset'[u] = offset[u]
          /\ all_closed'[u] = all_closed[u] /\ answer'[u] = answer[u]
    BY <1>0, <1>6 DEF lcn_select, sleep_ms, StartScan, TypeOK
  <2>2. pc'[t] = "closed?" /\ i'[t] = 0 /\ answer'[t] = answer[t]
    BY <1>0, <1>6 DEF lcn_select, sleep_ms, StartScan, TypeOK
  <2>3. ScanInv(t)'
    BY <2>2, 0 .. 0 - 1 = {} DEF ScanInv
  <2>4. QED BY <1>5, <2>1, <2>2, <2>3
<1>7. ASSUME NEW t \in Selector, SkipNull(t) \/ TestClosed(t) \/ TestLength(t)
      PROVE  Goal
  <2>1. /\ \A u \in Selector \ {t} :
             /\ pc'[u] = pc[u] /\ i'[u] = i[u] /\ offset'[u] = offset[u]
             /\ all_closed'[u] = all_closed[u] /\ answer'[u] = answer[u]
        /\ offset' = offset /\ len' = len /\ closed' = closed
    BY <1>0, <1>7 DEF SkipNull, TestClosed, TestLength, TypeOK
  <2>2. answer'[t] = answer[t] \/ answer'[t] # -1
    BY <1>0, <1>7 DEF SkipNull, TestClosed, TestLength, TypeOK, Open, Chan
  <2>3. \A k : Passed(t, k)' = Passed(t, k) /\ Drained(k)' = Drained(k)
    BY <2>1 DEF Passed, Drained
  <2>4. ASSUME pc'[t] \in {"closed?", "len?"}, all_closed'[t]
        PROVE  /\ \A k \in 0 .. i'[t] - 1 :
                    Passed(t, k) \in Null \/ Drained(Passed(t, k))
               /\ pc'[t] = "len?" => closed'[idx(t)']
    <3>1. /\ all_closed[t] /\ pc[t] \in {"closed?", "len?"} /\ i[t] \in 0 .. N
          /\ \A k \in 0 .. i[t] - 1 :
               Passed(t, k) \in Null \/ Drained(Passed(t, k))
      BY <1>0, <1>7, <2>4
         DEF SkipNull, TestClosed, TestLength, TypeOK, ScanInv
    <3>2. CASE SkipNull(t)
      <4>1. Passed(t, i[t]) \in Null /\ i'[t] = i[t] + 1 /\ pc'[t] = "closed?"
        BY <1>0, <3>2 DEF SkipNull, Passed, idx, TypeOK
      <4>2. QED BY <3>1, <4>1
    <3>3. CASE TestClosed(t)
      BY <1>0, <2>1, <2>4, <3>1, <3>3 DEF TestClosed, idx, TypeOK
    <3>4. CASE TestLength(t)
      <4>1. closed[idx(t)] /\ Passed(t, i[t]) = idx(t)
        BY <1>0, <3>1, <3>4 DEF TestLength, ScanInv, Passed, idx
      <4>2. len[idx(t)] = 0 /\ pc'[t] = "closed?" /\ i'[t] = i[t] + 1
        BY <1>0, <2>4, <3>4 DEF TestLength, TypeOK, Open
      <4>3. Drained(Passed(t, i[t]))
        BY <4>1, <4>2 DEF Drained
      <4>4. QED BY <3>1, <4>2, <4>3
    <3>5. QED BY <1>7, <3>2, <3>3, <3>4
  <2>5. ScanInv(t)'
    BY <2>3, <2>4 DEF ScanInv
  <2>6. QED BY <1>5, <2>1, <2>2, <2>5
<1>8. ASSUME NEW t \in Selector, EndScan(t)
      PROVE  Goal
  <2>1. /\ \A u \in Selector \ {t} :
             /\ pc'[u] = pc[u] /\ i'[u] = i[u] /\ offset'[u] = offset[u]
             /\ all_closed'[u] = all_closed[u] /\ answer'[u] = answer[u]
        /\ len' = len /\ closed' = closed /\ pc'[t] \in {"idle", "sleep"}
    BY <1>0, <1>8 DEF EndScan, TypeOK
  <2>2. ASSUME answer'[t] # answer[t], answer'[t] = -1, NEW c \in Open
        PROVE  Drained(c)'
    <3>1. all_closed[t] /\ pc[t] = "closed?" /\ i[t] = N /\ offset[t] \in Chan
      BY <1>0, <1>8, <2>2 DEF EndScan, TypeOK
    <3>2. PICK k \in 0 .. N - 1 : (k + offset[t]) % N = c
      BY <1>0, <3>1, RotationCovers
    <3>3. Drained(c)
      BY <1>0, <3>1, <3>2 DEF ScanInv, Passed, Open
    <3>4. QED BY <2>1, <3>3 DEF Drained
  <2>3. ScanInv(t)'
    BY <2>1 DEF ScanInv
  <2>4. QED BY <1>5, <2>1, <2>2, <2>3
<1>9. ASSUME NEW t \in Selector, ReceiveArm(t)
      PROVE  Goal
  <2>1. /\ \A u \in Selector \ {t} :
             /\ pc'[u] = pc[u] /\ i'[u] = i[u] /\ offset'[u] = offset[u]
             /\ all_closed'[u] = all_closed[u] /\ answer'[u] = answer[u]
        /\ pc'[t] = "idle" /\ answer'[t] = answer[t]
    BY <1>0, <1>9 DEF ReceiveArm, TypeOK
  <2>2. ScanInv(t)'
    BY <2>1 DEF ScanInv
  <2>3. QED BY <1>5, <2>1, <2>2
<1>10. ASSUME NEW c \in Chan, Send(c) \/ Close(c) \/ RivalReceives(c)
       PROVE  Goal
  BY <1>4, <1>10 DEF Send, Close, RivalReceives
<1>11. QED
  <2> HIDE DEF Goal
  <2>1. QED
    BY <1>4, <1>6, <1>7, <1>8, <1>9, <1>10 DEF Next, SelectStep, vars

\* lcn_select returns -1 only when every channel is closed and empty, however
\* the sends, receives and closes of other threads interleave with its scan.
THEOREM MinusOne == Spec => []MinusOneMeansDrained
<1>1. Init => DrainInv
  BY InitTypeOK, SelectAssumption
     DEF Init, DrainInv, MinusOneMeansDrained, ScanInv, NoAnswer
<1>2. QED BY <1>1, DrainInvInductive, PTL DEF Spec, DrainInv

-----------------------------------------------------------------------------
(***************************************************************************)
(* Two selectors are rivals of each other on every channel, so the arm is  *)
(* safe only where one thread selects.                                     *)
(***************************************************************************)
OneSelector == \A s, t \in Selector : s = t

ArmInv == TypeOK /\ ChosenArmReady

LEMMA ArmInvInductive ==
  ASSUME OneSelector, ArmInv, [Next]_vars
  PROVE  ArmInv'
<1>1. TypeOK'
  BY TypeOKInductive DEF ArmInv
<1>2. SUFFICES ASSUME NEW t \in Selector, pc'[t] = "recv", answer'[t] \notin Rivals
               PROVE  len'[answer'[t]] > 0
  BY <1>1 DEF ArmInv, ChosenArmReady
<1>3. /\ len \in [Chan -> 0 .. Capacity] /\ Capacity \in Nat
      /\ pc \in [Selector -> {"idle", "closed?", "len?", "sleep", "recv"}]
      /\ answer \in [Selector -> Chan \cup {-1, -2, NoAnswer}]
  BY SelectAssumption DEF ArmInv, TypeOK
<1>4. answer'[t] \in Chan
  BY <1>1, <1>2 DEF TypeOK, Open
\* Steps after which t is still about to receive from the same channel.
<1>5. ASSUME pc[t] = "recv", answer'[t] = answer[t],
             len'[answer[t]] >= len[answer[t]]
      PROVE  len'[answer'[t]] > 0
  <2>1. len[answer[t]] > 0
    BY <1>2, <1>5 DEF ArmInv, ChosenArmReady
  <2>2. len'[answer[t]] \in Int /\ len[answer[t]] \in Int
    BY <1>1, <1>3, <1>4, <1>5 DEF TypeOK
  <2>3. QED BY <1>5, <2>1, <2>2
<1>6. ASSUME NEW c \in Chan, Send(c)
      PROVE  len'[answer'[t]] > 0
  BY <1>2, <1>3, <1>4, <1>5, <1>6 DEF Send
<1>7. ASSUME NEW c \in Chan, Close(c)
      PROVE  len'[answer'[t]] > 0
  BY <1>2, <1>3, <1>4, <1>5, <1>7 DEF Close
<1>8. ASSUME NEW c \in Chan, RivalReceives(c)
      PROVE  len'[answer'[t]] > 0
  BY <1>2, <1>3, <1>4, <1>5, <1>8 DEF RivalReceives
<1>9. ASSUME NEW s \in Selector, s = t, lcn_select(s) \/ SelectStep(s)
      PROVE  len'[answer'[t]] > 0
  <2>1. CASE TestLength(t)
    BY <1>2, <1>3, <2>1 DEF TestLength
  <2>2. CASE ~TestLength(t)
    <3>1. pc'[t] # "recv"
      BY <1>3, <1>9, <2>2
         DEF SelectStep, lcn_select, StartScan, SkipNull, TestClosed, EndScan,
             sleep_ms, ReceiveArm
    <3>2. QED BY <1>2, <3>1
  <2>3. QED BY <2>1, <2>2
<1>10. CASE UNCHANGED vars
  BY <1>2, <1>3, <1>4, <1>5, <1>10 DEF vars
<1>11. QED
  BY <1>6, <1>7, <1>8, <1>9, <1>10 DEF Next, OneSelector

\* codegen.c: the receive of the arm that lcn_select chose finds an item, for every
\* number of arms, on the channels from which only the selecting thread receives.
THEOREM ArmReady == OneSelector => (Spec => []ChosenArmReady)
<1> DEFINE Inv == OneSelector /\ ArmInv
<1>1. OneSelector /\ Init => Inv
  BY InitTypeOK DEF Init, ArmInv, ChosenArmReady
<1>2. Inv /\ [Next]_vars => Inv'
  <2>1. OneSelector => OneSelector'
    BY DEF OneSelector
  <2>2. QED BY <2>1, ArmInvInductive
<1>3. Inv => ChosenArmReady
  BY DEF ArmInv
<1> HIDE DEF Inv
<1>4. QED BY <1>1, <1>2, <1>3, PTL DEF Spec
=============================================================================
