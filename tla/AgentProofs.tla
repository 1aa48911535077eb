----------------------------- MODULE AgentProofs ------------------------------
(***************************************************************************)
(* Theorems about Agent, for any limits, any capacity of the event store   *)
(* and of the entropy tracker, any number of retries, calls and ticks.     *)
(* The fairness of FairSpec plays no part in them.                         *)
(***************************************************************************)
EXTENDS Agent, SequenceTheorems, TLAPS

-----------------------------------------------------------------------------
\* The event store: what one event does to it.

Slots == 0 .. StoreSize - 1

StoreType ==
  /\ store \in [events : [Slots -> [kind : Events, seq : Nat] \cup {NoReply}],
                head : Slots, count : 0 .. StoreSize, next_seq : Nat]
  /\ emitted \in Seq(Events)

\* The place of the k-th event of a ring that starts at h.
LEMMA RingSlot ==
  ASSUME NEW n \in Nat \ {0}, NEW h \in 0 .. n - 1, NEW k \in 0 .. n
  PROVE  (h + k) % n = IF h + k < n THEN h + k ELSE h + k - n
  OBVIOUS

LEMMA RingRange ==
  ASSUME NEW n \in Nat \ {0}, NEW h \in 0 .. n - 1, NEW k \in 0 .. n
  PROVE  /\ (h + k) % n \in 0 .. n - 1 /\ (h + 1) % n \in 0 .. n - 1
         /\ (IF k = n THEN k ELSE k + 1) \in 0 .. n
  OBVIOUS

\* A ring of n slots from h on holds the last count of len values of f.
Holds(ring, h, count, n, f, len) ==
  /\ h \in 0 .. n - 1 /\ count = (IF len < n THEN len ELSE n)
  /\ \A i \in 0 .. count - 1 : ring[(h + i) % n] = f[len - count + i]

\* One more value is put in the slot behind them, and the oldest given up.
PutIn(ring, ring2, slot, n, v) ==
  ring2[slot] = v /\ \A s \in 0 .. n - 1 : s # slot => ring2[s] = ring[s]
Moved(h, count, n, h2, count2) ==
  /\ h2 = IF count = n THEN (h + 1) % n ELSE h
  /\ count2 = IF count = n THEN count ELSE count + 1

LEMMA RingAppend ==
  ASSUME NEW n \in Nat \ {0}, NEW h, NEW len \in Nat, NEW count,
         NEW f, NEW g, NEW ring, NEW ring2, NEW h2, NEW count2,
         Holds(ring, h, count, n, f, len),
         \A i \in 0 .. len - 1 : g[i] = f[i],
         PutIn(ring, ring2, (h + count) % n, n, g[len]),
         Moved(h, count, n, h2, count2)
  PROVE  Holds(ring2, h2, count2, n, g, len + 1)
<1>0. /\ h \in 0 .. n - 1 /\ count \in 0 .. n /\ 1 \in 0 .. n
      /\ count = (IF len < n THEN len ELSE n)
      /\ h2 = IF count = n THEN (h + 1) % n ELSE h
      /\ count2 = IF count = n THEN count ELSE count + 1
  BY DEF Holds, Moved
<1>1. (h + 1) % n = IF h + 1 < n THEN h + 1 ELSE h + 1 - n
  BY <1>0, RingSlot
<1>2. h2 \in 0 .. n - 1 /\ count2 \in 0 .. n /\ count2 = IF len + 1 < n THEN len + 1 ELSE n
  BY <1>0, <1>1
<1>3. ASSUME NEW i \in 0 .. count2 - 1
      PROVE  ring2[(h2 + i) % n] = g[len + 1 - count2 + i]
  <2>1. /\ (h2 + i) % n = IF h2 + i < n THEN h2 + i ELSE h2 + i - n
        /\ (h + count) % n = IF h + count < n THEN h + count ELSE h + count - n
    <3>1. i \in 0 .. n
      BY <1>2, <1>3
    <3>2. QED BY <1>0, <1>2, <3>1, RingSlot
  <2>2. CASE i = count2 - 1
    <3>1. (h2 + i) % n = (h + count) % n /\ len + 1 - count2 + i = len
      BY <1>0, <1>1, <1>2, <2>1, <2>2
    <3>2. QED BY <3>1 DEF PutIn
  <2>3. CASE i # count2 - 1
    <3>1. DEFINE j == IF count = n THEN i + 1 ELSE i
    <3>2. j \in 0 .. count - 1 /\ len + 1 - count2 + i = len - count + j
      BY <1>0, <1>2, <1>3, <2>3
    <3>3. (h + j) % n = IF h + j < n THEN h + j ELSE h + j - n
      <4>1. j \in 0 .. n
        BY <1>0, <3>2
      <4>2. QED BY <1>0, <4>1, RingSlot
    <3>4. (h2 + i) % n = (h + j) % n /\ (h + j) % n # (h + count) % n /\ (h + j) % n \in 0 .. n - 1
      BY <1>0, <1>1, <1>2, <1>3, <2>1, <2>3, <3>2, <3>3
    <3>5. ring[(h + j) % n] = f[len - count + j] /\ len - count + j \in 0 .. len - 1
      BY <1>0, <3>2 DEF Holds
    <3>6. QED BY <3>2, <3>4, <3>5 DEF PutIn
  <2>4. QED BY <2>2, <2>3
<1>4. QED BY <1>2, <1>3 DEF Holds

\* The event with the sequence number i.
Event(s) == [i \in 0 .. Len(s) - 1 |-> [kind |-> s[i + 1], seq |-> i]]

\* Read backwards, the slots before the tail move on with it.
LEMMA BackOneSlot ==
  ASSUME NEW n \in Nat \ {0}, NEW p \in 0 .. n - 1, NEW i \in Int, i - 1 \in 0 .. n - 2,
         NEW q, q = IF p + 1 < n THEN p + 1 ELSE 0,
         NEW x, x = IF q - 1 - i < 0 THEN q - 1 - i + n ELSE q - 1 - i,
         NEW y, y = IF p - 1 - (i - 1) < 0 THEN p - 1 - (i - 1) + n ELSE p - 1 - (i - 1)
  PROVE  x = y /\ y # p /\ y \in 0 .. n - 1
<1>1. CASE p + 1 < n
  BY <1>1
<1>2. CASE ~(p + 1 < n)
  BY <1>2
<1>3. QED BY <1>1, <1>2

\* EventsKeepLast, of any store and any history.
KeepsLast(st, em) ==
  /\ st.next_seq = Len(em)
  /\ st.count = IF Len(em) < StoreSize THEN Len(em) ELSE StoreSize
  /\ \A i \in 0 .. st.count - 1 :
       LET seq == Len(em) - st.count + i IN
       st.events[(st.head + i) % StoreSize] = [kind |-> em[seq + 1], seq |-> seq]

LEMMA KeepsLastHolds ==
  ASSUME NEW em \in Seq(Events),
         NEW st, st.head \in Slots, st.count \in 0 .. StoreSize
  PROVE  KeepsLast(st, em) <=>
           /\ st.next_seq = Len(em)
           /\ Holds(st.events, st.head, st.count, StoreSize, Event(em), Len(em))
<1> USE AgentAssumption
<1>1. Len(em) \in Nat
  BY LenProperties
<1>2. ASSUME st.count = IF Len(em) < StoreSize THEN Len(em) ELSE StoreSize,
             NEW i \in 0 .. st.count - 1
      PROVE  /\ Len(em) - st.count + i \in 0 .. Len(em) - 1
             /\ Event(em)[Len(em) - st.count + i] =
                  [kind |-> em[Len(em) - st.count + i + 1], seq |-> Len(em) - st.count + i]
  <2>1. Len(em) - st.count + i \in 0 .. Len(em) - 1
    BY <1>1, <1>2
  <2>2. QED BY <2>1 DEF Event
<1>3. QED BY <1>1, <1>2 DEF KeepsLast, Holds, Slots

LEMMA EmitKeepsStore ==
  ASSUME StoreType, NEW kind \in Events, lcn_event_emit(kind)
  PROVE  /\ StoreType'
         /\ EventsKeepLast => EventsKeepLast'
<1> USE AgentAssumption DEF Slots
<1>1. /\ StoreSize \in Nat \ {0} /\ store.head \in Slots /\ store.count \in 0 .. StoreSize
      /\ store.next_seq \in Nat /\ emitted \in Seq(Events) /\ Len(emitted) \in Nat
      /\ store.events \in [Slots -> [kind : Events, seq : Nat] \cup {NoReply}]
  BY LenProperties DEF StoreType
<1> DEFINE idx == (store.head + store.count) % StoreSize
           new == [kind |-> kind, seq |-> store.next_seq]
<1>2. /\ store.head \in 0 .. StoreSize - 1 /\ store.count \in 0 .. StoreSize
  BY <1>1
<1>3. /\ idx \in Slots /\ (store.head + 1) % StoreSize \in Slots
      /\ (IF store.count = StoreSize THEN store.count ELSE store.count + 1) \in 0 .. StoreSize
  BY <1>1, <1>2, RingRange
<1>4. new \in [kind : Events, seq : Nat]
  BY <1>1
<1>5. /\ store'.events = [store.events EXCEPT ![idx] = new]
      /\ store'.head = IF store.count = StoreSize THEN (store.head + 1) % StoreSize ELSE store.head
      /\ store'.count = IF store.count = StoreSize THEN store.count ELSE store.count + 1
      /\ store'.next_seq = store.next_seq + 1
      /\ store' = [events |-> store'.events, head |-> store'.head,
                   count |-> store'.count, next_seq |-> store'.next_seq]
      /\ emitted' = Append(emitted, kind)
  BY DEF lcn_event_emit
<1>6. StoreType'
  <2>1. store'.events \in [Slots -> [kind : Events, seq : Nat] \cup {NoReply}]
    BY <1>1, <1>3, <1>4, <1>5
  <2>2. store'.head \in Slots /\ store'.count \in 0 .. StoreSize /\ store'.next_seq \in Nat
    <3>1. store'.next_seq \in Nat
      <4>1. store.next_seq \in Nat
        BY <1>1
      <4>2. store'.next_seq = store.next_seq + 1
        BY <1>5
      <4>3. QED BY <4>1, <4>2
    <3>2. store'.count \in 0 .. StoreSize
      BY <1>3, <1>5
    <3>3. store'.head \in Slots
      BY <1>1, <1>3, <1>5
    <3>4. QED BY <3>1, <3>2, <3>3
  <2>3. emitted' \in Seq(Events)
    BY <1>1, <1>5, AppendProperties
  <2>4. QED BY <1>5, <2>1, <2>2, <2>3 DEF StoreType
<1>7. ASSUME EventsKeepLast PROVE EventsKeepLast'
  <2> DEFINE len == Len(emitted)
             f == Event(emitted)
             g == Event(emitted')
  <2>1. Len(emitted') = len + 1 /\ emitted'[len + 1] = kind
        /\ \A i \in 1 .. len : emitted'[i] = emitted[i]
    BY <1>1, <1>5, AppendProperties
  <2>2. \A i \in 0 .. len - 1 : g[i] = f[i]
    BY <1>1, <2>1 DEF Event
  <2>3. /\ store.next_seq = len
        /\ Holds(store.events, store.head, store.count, StoreSize, f, len)
    BY <1>1, <1>7, KeepsLastHolds DEF EventsKeepLast, KeepsLast
  <2>4. g[len] = new
    BY <1>1, <2>1, <2>3 DEF Event
  <2>5. PutIn(store.events, store'.events, idx, StoreSize, g[len])
    BY <1>1, <1>3, <1>5, <2>4 DEF PutIn
  <2>6. Moved(store.head, store.count, StoreSize, store'.head, store'.count)
    BY <1>5 DEF Moved
  <2>7. Holds(store'.events, store'.head, store'.count, StoreSize, g, len + 1)
    <3> HIDE DEF f, g
    <3>1. QED BY <1>1, <2>2, <2>3, <2>5, <2>6, RingAppend
  <2>8. /\ store'.head \in Slots /\ store'.count \in 0 .. StoreSize
        /\ emitted' \in Seq(Events) /\ store'.next_seq = len + 1
    BY <1>5, <1>6, <2>3 DEF StoreType
  <2>9. KeepsLast(store', emitted')
    BY <2>1, <2>7, <2>8, KeepsLastHolds
  <2>10. QED BY <2>9 DEF KeepsLast, EventsKeepLast
<1>8. QED BY <1>6, <1>7

LEMMA StoreInductive ==
  ASSUME StoreType, [Next]_vars
  PROVE  StoreType' /\ (EventsKeepLast => EventsKeepLast')
<1>1. CASE \E kind \in Events : lcn_event_emit(kind)
  BY <1>1, EmitKeepsStore
<1>2. CASE UNCHANGED <<store, emitted>>
  BY <1>2 DEF StoreType, EventsKeepLast
<1>3. (\E kind \in Events : lcn_event_emit(kind)) \/ UNCHANGED <<store, emitted>>
  <2> USE DEF Events, NoEvent
  <2>1. CASE Run
    BY <2>1, Zenon DEF Run, lcn_llm_call
  <2>2. CASE lcn_ask_typed
    BY <2>2 DEF lcn_ask_typed, lcn_llm_call
  <2>3. CASE lcn_a2a_send
    BY <2>3 DEF lcn_a2a_send
  <2>4. CASE PredictReturns \/ a2a_post \/ ModelReplies \/ PeerHandles \/ Tick
    BY <2>4 DEF PredictReturns, a2a_post, ModelReplies, PeerHandles, Tick
  <2>5. CASE LlmReturns
    BY <2>5 DEF LlmReturns
  <2>6. CASE UNCHANGED vars
    BY <2>6 DEF vars
  <2>7. QED BY <2>1, <2>2, <2>3, <2>4, <2>5, <2>6 DEF Next
<1>4. QED BY <1>1, <1>2, <1>3

\* However often the event store has wrapped around, it holds the last events
\* in their order, each with its own sequence number (lcn_event_emit).
THEOREM StoreHistory == Spec => []EventsKeepLast
<1>1. Init => StoreType /\ EventsKeepLast
  <2> USE AgentAssumption
  <2>1. ASSUME Init PROVE StoreType
    BY <2>1 DEF Init, StoreType, Slots
  <2>2. ASSUME Init PROVE EventsKeepLast
    BY <2>2 DEF Init, EventsKeepLast
  <2>3. QED BY <2>1, <2>2
<1>2. StoreType /\ EventsKeepLast /\ [Next]_vars => StoreType' /\ EventsKeepLast'
  BY StoreInductive
<1>3. QED BY <1>1, <1>2, PTL DEF Spec

-----------------------------------------------------------------------------
\* Types of the rest of the state, and what the thread waits for.

TrackerType ==
  tracker \in [ring : [0 .. TrackerSize - 1 -> Signals \cup {NoReply}],
              tail : 0 .. TrackerSize - 1, count : 0 .. TrackerSize]

ModelReply == ModelReplyOf(Tokens \cup {0})

\* Only a send waits for the peer, only the other calls for the model.
CallType ==
  /\ pc \in {"idle", "predict", "llm", "post"}
  /\ by \in {"run", "ask", "send"}
  /\ answer \in {"none", "ok", "error"}
  /\ calls \in Nat /\ clock \in Nat /\ endpoint \in Endpoints
  /\ budget \in [used : Nat, exhausted : BOOLEAN]
  /\ client \in [attempts : Nat, total_requests : Nat, total_errors : Nat]
  /\ handled \in Nat
  /\ recorded \in Seq(Signals)
  /\ reply \in ModelReply \cup PeerReply \cup {NoReply}
  /\ pc = "llm" => reply \in ModelReplyOf(Tokens) \cup {NoReply}
  /\ pc = "predict" => reply \in ModelReply \cup {NoReply}
  /\ pc = "post" => reply \in PeerReply \cup {NoReply}
  /\ pc = "post" => by = "send"
  /\ pc \in {"llm", "predict"} => by # "send"

LEMMA Replies ==
  /\ NoReply \in {NoReply}
  /\ \A r \in ModelReply : r.signal \in Signals /\ r.tokens \in Nat
  /\ \A r \in ModelReplyOf(Tokens) : r \in ModelReply /\ r.tokens \in Tokens
  /\ \A r \in ModelReplyOf(Tokens) \cup ModelReply \cup PeerReply : r.status # "none" /\ r # NoReply
<1>1. \A r \in ModelReply : r.signal \in Signals /\ r.tokens \in Nat /\ r.status = "ok"
  <2>1. \A t \in Tokens \cup {0} : t \in Nat
    BY AgentAssumption
  <2>2. ASSUME NEW r \in ModelReply
        PROVE  r.signal \in Signals /\ r.tokens \in Tokens \cup {0} /\ r.status = "ok"
    BY <2>2 DEF ModelReply, ModelReplyOf
  <2>3. QED BY <2>1, <2>2
<1>2. \A r \in ModelReplyOf(Tokens) : r \in ModelReply /\ r.tokens \in Tokens
  BY DEF ModelReply, ModelReplyOf
<1>3. \A r \in PeerReply : r.status # "none"
  BY DEF PeerReply
<1>4. NoReply.status = "none"
  BY DEF NoReply
<1>5. QED BY <1>1, <1>2, <1>3, <1>4

LEMMA DeliverType ==
  ASSUME TrackerType, recorded \in Seq(Signals), NEW r \in ModelReply, Deliver(r)
  PROVE  /\ TrackerType' /\ recorded' \in Seq(Signals)
         /\ pc' = "idle" /\ answer' \in {"ok", "error"}
<1>1. r.signal \in Signals
  BY Replies
<1>2. CASE UNCHANGED <<tracker, recorded>>
  BY <1>2 DEF Deliver, Return, TrackerType
<1>3. CASE tracker' = Recorded(tracker, r.signal) /\ recorded' = Append(recorded, r.signal)
  <2> DEFINE n == TrackerSize
  <2>1. /\ n \in Nat \ {0} /\ tracker.tail \in 0 .. n - 1 /\ tracker.count \in 0 .. n
        /\ tracker.ring \in [0 .. n - 1 -> Signals \cup {NoReply}]
    BY AgentAssumption DEF TrackerType
  <2>2. /\ (tracker.tail + 1) % n \in 0 .. n - 1
        /\ (IF tracker.count < n THEN tracker.count + 1 ELSE tracker.count) \in 0 .. n
    BY <2>1
  <2>3. [tracker.ring EXCEPT ![tracker.tail] = r.signal] \in [0 .. n - 1 -> Signals \cup {NoReply}]
    BY <1>1, <2>1
  <2>4. TrackerType'
    BY <1>3, <2>2, <2>3 DEF TrackerType, Recorded
  <2>5. recorded' \in Seq(Signals)
    BY <1>1, <1>3, AppendProperties
  <2>6. QED BY <2>4, <2>5 DEF Deliver, Return
<1>4. QED BY <1>2, <1>3 DEF Deliver

LEMMA TypeInductive ==
  ASSUME TrackerType, CallType, [Next]_vars
  PROVE  TrackerType' /\ CallType'
<1>1. CASE Run \/ lcn_ask_typed \/ lcn_a2a_send
  <2>1. TrackerType'
    BY <1>1 DEF Run, lcn_ask_typed, lcn_a2a_send, Begin, TrackerType
  <2>2. CASE Run
    <3>1. budget' \in [used : Nat, exhausted : BOOLEAN]
      <4>1. [budget EXCEPT !.exhausted = TRUE] \in [used : Nat, exhausted : BOOLEAN]
        BY DEF CallType
      <4>2. QED BY <2>2, <4>1 DEF Run, CallType
    <3>2. /\ pc' \in {"idle", "predict", "llm"} /\ by' = "run" /\ reply' = NoReply
          /\ answer' \in {"none", "ok", "error"}
      BY <2>2 DEF Run, Begin, CallType, Return, lcn_llm_call
    <3>3. /\ calls' \in Nat
          /\ UNCHANGED <<clock, endpoint, client, handled, recorded>>
      BY <2>2 DEF Run, Begin, CallType
    <3>4. QED BY <2>1, <3>1, <3>2, <3>3 DEF CallType
  <2>3. CASE lcn_ask_typed
    BY <2>1, <2>3, Replies DEF lcn_ask_typed, Begin, CallType, Return, lcn_llm_call
  <2>4. CASE lcn_a2a_send
    BY <2>1, <2>4, Replies DEF lcn_a2a_send, Begin, CallType
  <2>5. QED BY <1>1, <2>1, <2>2, <2>3, <2>4
<1>2. CASE PredictReturns
  <2>1. CASE reply # NoReply
    <3>1. reply \in ModelReply /\ Deliver(reply)
      BY <1>2, <2>1 DEF PredictReturns, CallType
    <3>2. QED BY <1>2, <3>1, DeliverType DEF PredictReturns, CallType
  <2>2. CASE reply = NoReply
    BY <1>2, <2>2 DEF PredictReturns, Failed, Return, CallType, TrackerType
  <2>3. QED BY <2>1, <2>2
<1>3. CASE LlmReturns
  <2>1. CASE reply # NoReply /\ Deliver(reply) /\ budget' = [budget EXCEPT !.used = @ + reply.tokens]
    <3>1. reply \in ModelReply /\ reply.tokens \in Nat
      BY <1>3, <2>1, Replies DEF LlmReturns, CallType
    <3>2. budget' \in [used : Nat, exhausted : BOOLEAN]
      BY <2>1, <3>1 DEF CallType
    <3>3. QED BY <1>3, <2>1, <3>1, <3>2, DeliverType DEF LlmReturns, CallType
  <2>2. CASE Failed /\ UNCHANGED budget
    BY <1>3, <2>2 DEF LlmReturns, Failed, Return, CallType, TrackerType
  <2>3. QED BY <1>3, <2>1, <2>2 DEF LlmReturns
<1>4. CASE a2a_post
  <2>1. TrackerType'
    BY <1>4 DEF a2a_post, TrackerType
  <2>2. CASE PostAnswered
    <3>1. client' \in [attempts : Nat, total_requests : Nat, total_errors : Nat]
      BY <2>2 DEF PostAnswered, CallType
    <3>2. pc' = "idle" /\ answer' \in {"ok", "error"} /\ UNCHANGED reply
      BY <2>2 DEF PostAnswered, Return
    <3>3. UNCHANGED <<by, calls, clock, endpoint, budget, handled, recorded>>
      BY <1>4 DEF a2a_post
    <3>4. QED BY <2>1, <3>1, <3>2, <3>3 DEF CallType
  <2>3. CASE PostFails
    <3>1. client' \in [attempts : Nat, total_requests : Nat, total_errors : Nat]
      BY <2>3 DEF PostFails, CallType
    <3>2. /\ pc' \in {"idle", "post"} /\ answer' \in {"none", "ok", "error"} /\ reply' = NoReply
          /\ by = "send"
      BY <1>4, <2>3 DEF a2a_post, PostFails, Return, CallType
    <3>3. UNCHANGED <<by, calls, clock, endpoint, budget, handled, recorded>>
      BY <1>4 DEF a2a_post
    <3>4. QED BY <2>1, <3>1, <3>2, <3>3 DEF CallType
  <2>4. QED BY <1>4, <2>1, <2>2, <2>3 DEF a2a_post
<1>5. CASE ModelReplies
  <2>1. reply' \in ModelReply /\ (pc = "llm" => reply' \in ModelReplyOf(Tokens)) /\ pc # "post"
    BY <1>5 DEF ModelReplies, ModelReply, ModelReplyOf
  <2>2. QED BY <1>5, <2>1 DEF ModelReplies, CallType, TrackerType
<1>6. CASE PeerHandles
  <2>1. reply' \in PeerReply /\ pc = "post"
    BY <1>6 DEF PeerHandles, PeerReply
  <2>2. QED BY <1>6, <2>1 DEF PeerHandles, CallType, TrackerType
<1>7. CASE Tick
  BY <1>7 DEF Tick, CallType, TrackerType
<1>8. CASE UNCHANGED vars
  BY <1>8 DEF vars, CallType, TrackerType
<1>9. QED BY <1>1, <1>2, <1>3, <1>4, <1>5, <1>6, <1>7, <1>8 DEF Next

LEMMA InitTypes == Init => StoreType /\ TrackerType /\ CallType
<1> SUFFICES ASSUME Init PROVE StoreType /\ TrackerType /\ CallType
  OBVIOUS
<1> USE AgentAssumption DEF Init
<1>1. StoreType
  BY DEF StoreType, Slots
<1>2. TrackerType
  BY DEF TrackerType
<1>3. CallType
  BY DEF CallType
<1>4. QED BY <1>1, <1>2, <1>3

\* Every variable of the agent keeps its type, whatever the limits.
THEOREM TypeCorrect == Spec => []TypeOK
<1>1. StoreType /\ TrackerType /\ CallType /\ [Next]_vars =>
         StoreType' /\ TrackerType' /\ CallType'
  BY StoreInductive, TypeInductive
<1>2. StoreType /\ TrackerType /\ CallType => TypeOK
  BY DEF StoreType, TrackerType, CallType, TypeOK, Slots, ModelReply
<1>3. QED BY InitTypes, <1>1, <1>2, PTL DEF Spec

Types == StoreType /\ TrackerType /\ CallType

LEMMA TypesInductive == Types /\ [Next]_vars => Types'
  BY StoreInductive, TypeInductive DEF Types

-----------------------------------------------------------------------------
\* The budget: a request goes out only below the limit, and nothing is charged
\* while it is on its way.

BelowAtRequest == pc = "llm" /\ MaxTokens > 0 => budget.used < MaxTokens

LEMMA Most == MaxOf(Tokens) \in Nat /\ \A t \in Tokens : t <= MaxOf(Tokens)
<1>1. PICK most \in Tokens : \A t \in Tokens : t <= most
  BY AgentAssumption
<1>2. MaxOf(Tokens) \in Tokens /\ \A t \in Tokens : t <= MaxOf(Tokens)
  BY <1>1 DEF MaxOf
<1>3. QED BY <1>2, AgentAssumption

LEMMA BudgetInductive ==
  ASSUME Types, BelowAtRequest, OvershootOneReply, [Next]_vars
  PROVE  BelowAtRequest' /\ OvershootOneReply'
<1>1. MaxTokens \in Nat /\ budget.used \in Nat
  BY AgentAssumption DEF Types, CallType
<1>2. CASE budget'.used = budget.used /\ (pc' = "llm" => pc = "llm" \/ ~OutOfTokens)
  BY <1>1, <1>2 DEF BelowAtRequest, OvershootOneReply, OutOfTokens
<1>3. CASE LlmReturns
  <2>1. CASE reply # NoReply /\ Deliver(reply) /\ budget' = [budget EXCEPT !.used = @ + reply.tokens]
    <3>1. reply.tokens \in Tokens /\ reply \in ModelReply
      BY <1>3, <2>1, Replies DEF LlmReturns, Types, CallType
    <3>2. budget'.used = budget.used + reply.tokens /\ reply.tokens \in Nat
      BY <1>1, <2>1, <3>1, AgentAssumption DEF Types, CallType
    <3>3. reply.tokens <= MaxOf(Tokens) /\ MaxOf(Tokens) \in Nat
      BY <3>1, Most
    <3>4. MaxTokens > 0 => budget.used < MaxTokens
      BY <1>3 DEF LlmReturns, BelowAtRequest
    <3>5. OvershootOneReply'
      BY <1>1, <3>2, <3>3, <3>4 DEF OvershootOneReply
    <3>6. pc' = "idle"
      BY <2>1, <3>1, DeliverType DEF Types, CallType
    <3>7. QED BY <3>5, <3>6 DEF BelowAtRequest
  <2>2. CASE Failed /\ UNCHANGED budget
    BY <1>2, <2>2 DEF Failed, Return
  <2>3. QED BY <1>3, <2>1, <2>2 DEF LlmReturns
<1>4. CASE ~LlmReturns
  <2>1. CASE Run
    <3>1. budget'.used = budget.used
      BY <2>1 DEF Run, Types, CallType
    <3>2. pc' = "llm" => ~OutOfTokens
      BY <2>1 DEF Run, lcn_llm_call, Return
    <3>3. QED BY <1>2, <3>1, <3>2
  <2>2. CASE lcn_ask_typed
    BY <1>2, <2>2 DEF lcn_ask_typed, lcn_llm_call, Return
  <2>3. CASE lcn_a2a_send
    BY <1>2, <2>3 DEF lcn_a2a_send
  <2>4. CASE PredictReturns
    <3>1. pc' = "idle" /\ UNCHANGED budget
      BY <2>4 DEF PredictReturns, Deliver, Failed, Return
    <3>2. QED BY <1>2, <3>1
  <2>5. CASE a2a_post
    BY <1>2, <2>5 DEF a2a_post, PostAnswered, PostFails, Return
  <2>6. CASE ModelReplies \/ PeerHandles \/ Tick
    BY <1>2, <2>6 DEF ModelReplies, PeerHandles, Tick
  <2>7. CASE UNCHANGED vars
    BY <1>2, <2>7 DEF vars
  <2>8. QED BY <1>4, <2>1, <2>2, <2>3, <2>4, <2>5, <2>6, <2>7 DEF Next
<1>5. QED BY <1>3, <1>4

\* The tokens used exceed the limit by less than the costliest reply, although
\* the budget is tested before a call and charged after it (lcn_llm_call).
THEOREM BudgetOvershoot == Spec => []OvershootOneReply
<1>1. Init => Types /\ BelowAtRequest /\ OvershootOneReply
  <2>1. Init => BelowAtRequest
    BY DEF Init, BelowAtRequest
  <2>2. Init => OvershootOneReply
    BY AgentAssumption DEF Init, OvershootOneReply
  <2>3. QED BY <2>1, <2>2, InitTypes DEF Types
<1>2. Types /\ BelowAtRequest /\ OvershootOneReply /\ [Next]_vars
        => Types' /\ BelowAtRequest' /\ OvershootOneReply'
  BY TypesInductive, BudgetInductive
<1>3. QED BY <1>1, <1>2, PTL DEF Spec

-----------------------------------------------------------------------------
\* The messages to the peer: how often it has handled the current one.

Attempted ==
  /\ handled <= client.attempts + 1
  /\ handled <= 1 + MaxRetries
  /\ pc = "post" =>
       /\ client.attempts <= MaxRetries
       /\ handled <= client.attempts + (IF reply = NoReply THEN 0 ELSE 1)
       /\ reply # NoReply => handled > 0
  /\ pc = "idle" /\ by = "send" /\ answer = "ok" => handled > 0

LEMMA AttemptedInductive ==
  ASSUME Types, Attempted, [Next]_vars
  PROVE  Attempted'
<1>1. /\ client.attempts \in Nat /\ handled \in Nat /\ MaxRetries \in Nat
  BY AgentAssumption DEF Types, CallType
<1>2. CASE /\ UNCHANGED <<client, handled>>
           /\ pc' # "post"
           /\ pc' = "idle" /\ by' = "send" /\ answer' = "ok" => pc = "idle" /\ by = "send" /\ answer = "ok"
  BY <1>2 DEF Attempted
<1>3. CASE Run
  BY <1>2, <1>3 DEF Run, Begin, lcn_llm_call, Return
<1>4. CASE lcn_ask_typed
  BY <1>2, <1>4 DEF lcn_ask_typed, Begin, lcn_llm_call, Return
<1>5. CASE lcn_a2a_send
  <2>1. client'.attempts = 0 /\ handled' = 0 /\ pc' = "post" /\ reply' = NoReply
    BY <1>5 DEF lcn_a2a_send, Begin, Types, CallType
  <2>2. QED BY <1>1, <2>1 DEF Attempted
<1>6. CASE PredictReturns \/ LlmReturns
  <2>1. pc' = "idle" /\ by' # "send" /\ UNCHANGED <<client, handled>>
    BY <1>6 DEF PredictReturns, LlmReturns, Deliver, Failed, Return, Types, CallType
  <2>2. QED BY <1>2, <2>1
<1>7. CASE a2a_post
  <2>1. CASE PostAnswered
    <3>1. reply # NoReply
      BY <2>1 DEF PostAnswered, NoReply
    <3>2. handled > 0 /\ handled <= client.attempts + 1
      BY <1>7, <3>1 DEF a2a_post, Attempted
    <3>3. client'.attempts = client.attempts /\ pc' = "idle" /\ handled' = handled
      BY <1>7, <2>1 DEF a2a_post, PostAnswered, Return, Types, CallType
    <3>4. QED BY <1>1, <3>2, <3>3 DEF Attempted
  <2>2. CASE PostFails
    <3>1. /\ client'.attempts = client.attempts + 1 /\ reply' = NoReply /\ handled' = handled
          /\ handled <= client.attempts + 1 /\ client.attempts <= MaxRetries
      BY <1>1, <1>7, <2>2 DEF a2a_post, PostFails, Attempted
    <3>2. CASE client.attempts + 1 < 1 + MaxRetries
      <4>1. pc' = "post"
        BY <1>7, <2>2, <3>2 DEF a2a_post, PostFails
      <4>2. QED BY <1>1, <3>1, <3>2, <4>1 DEF Attempted
    <3>3. CASE ~(client.attempts + 1 < 1 + MaxRetries)
      <4>1. pc' = "idle" /\ answer' = "error"
        BY <2>2, <3>3 DEF PostFails, Return
      <4>2. QED BY <1>1, <3>1, <4>1 DEF Attempted
    <3>4. QED BY <3>2, <3>3
  <2>3. QED BY <1>7, <2>1, <2>2 DEF a2a_post
<1>8. CASE PeerHandles
  <2>1. reply' # NoReply
    BY <1>8 DEF PeerHandles, NoReply
  <2>2. /\ handled' = handled + 1 /\ pc = "post" /\ reply = NoReply
        /\ UNCHANGED <<pc, by, answer, client>>
    BY <1>8 DEF PeerHandles
  <2>3. QED BY <1>1, <2>1, <2>2 DEF Attempted
<1>9. CASE ModelReplies \/ Tick
  <2>1. pc # "post" \/ reply' = reply
    BY <1>9 DEF ModelReplies, Tick
  <2>2. QED BY <1>9, <2>1 DEF ModelReplies, Tick, Attempted
<1>10. CASE UNCHANGED vars
  BY <1>10 DEF vars, Attempted
<1>11. QED BY <1>3, <1>4, <1>5, <1>6, <1>7, <1>8, <1>9, <1>10 DEF Next

\* A message is handled at most once for each attempt, 1 + max_retries times in
\* all, and at least once if lcn_a2a_send reports success (a2a_post).
THEOREM Deliveries == Spec => []DeliveriesBounded
<1>1. Init => Types /\ Attempted
  <2>1. Init => Attempted
    BY AgentAssumption DEF Init, Attempted
  <2>2. QED BY <2>1, InitTypes DEF Types
<1>2. Types /\ Attempted /\ [Next]_vars => Types' /\ Attempted'
  BY TypesInductive, AttemptedInductive
<1>3. Attempted => DeliveriesBounded
  BY DEF Attempted, DeliveriesBounded
<1>4. QED BY <1>1, <1>2, <1>3, PTL DEF Spec

-----------------------------------------------------------------------------
\* The window of the entropy tracker.

Trackers == [ring : [0 .. TrackerSize - 1 -> Signals \cup {NoReply}],
             tail : 0 .. TrackerSize - 1, count : 0 .. TrackerSize]

\* A tracker holds what a history w has at its end.
Recent(t, w) ==
  /\ t.count = IF Len(w) < TrackerSize THEN Len(w) ELSE TrackerSize
  /\ \A i \in 0 .. t.count - 1 : t.ring[recent_index(t, i)] = w[Len(w) - i]

LEMMA RecordedKeepsRecent ==
  ASSUME NEW t \in Trackers, NEW w \in Seq(Signals), NEW s \in Signals, Recent(t, w)
  PROVE  Recent(Recorded(t, s), Append(w, s))
<1> DEFINE n == TrackerSize
           u == Recorded(t, s)
           v == Append(w, s)
<1>1. /\ n \in Nat \ {0} /\ t.tail \in 0 .. n - 1 /\ t.count \in 0 .. n
      /\ t.ring \in [0 .. n - 1 -> Signals \cup {NoReply}] /\ Len(w) \in Nat
  BY AgentAssumption, LenProperties DEF Trackers
<1>2. /\ u.ring = [t.ring EXCEPT ![t.tail] = s]
      /\ u.tail = (t.tail + 1) % n
      /\ u.count = IF t.count < n THEN t.count + 1 ELSE t.count
  BY DEF Recorded
<1>3. u.tail = IF t.tail + 1 < n THEN t.tail + 1 ELSE 0
  <2>1. t.tail \in 0 .. n - 1 /\ 1 \in 0 .. n
    BY <1>1
  <2>2. (t.tail + 1) % n = IF t.tail + 1 < n THEN t.tail + 1 ELSE t.tail + 1 - n
    BY <1>1, <2>1, RingSlot
  <2>3. QED BY <1>1, <1>2, <2>1, <2>2
<1>4. Len(v) = Len(w) + 1 /\ v[Len(w) + 1] = s /\ \A k \in 1 .. Len(w) : v[k] = w[k]
  BY <1>1, AppendProperties
<1>5. t.count = IF Len(w) < n THEN Len(w) ELSE n
  BY DEF Recent
<1>6. u.count = IF Len(v) < n THEN Len(v) ELSE n
  BY <1>1, <1>2, <1>4, <1>5
<1>7. ASSUME NEW i \in 0 .. u.count - 1
      PROVE  u.ring[recent_index(u, i)] = v[Len(v) - i]
  <2>1. CASE i = 0
    <3>1. recent_index(u, i) = t.tail /\ Len(v) - i = Len(w) + 1
      BY <1>1, <1>3, <1>4, <2>1 DEF recent_index
    <3>2. QED BY <1>1, <1>2, <1>4, <3>1
  <2>2. CASE i # 0
    <3>1. i - 1 \in 0 .. t.count - 1 /\ i - 1 \in 0 .. n - 2 /\ Len(w) - (i - 1) \in 1 .. Len(w)
      BY <1>1, <1>2, <1>5, <1>7, <2>2
    <3>2. /\ recent_index(u, i) = recent_index(t, i - 1)
          /\ recent_index(t, i - 1) # t.tail /\ recent_index(t, i - 1) \in 0 .. n - 1
      <4>1. /\ recent_index(u, i) =
                 IF u.tail - 1 - i < 0 THEN u.tail - 1 - i + n ELSE u.tail - 1 - i
            /\ recent_index(t, i - 1) =
                 IF t.tail - 1 - (i - 1) < 0 THEN t.tail - 1 - (i - 1) + n
                                             ELSE t.tail - 1 - (i - 1)
        BY DEF recent_index
      <4>2. n \in Nat \ {0} /\ t.tail \in 0 .. n - 1 /\ i - 1 \in 0 .. n - 2 /\ i \in Int
        BY <1>1, <3>1
      <4> HIDE DEF n, u
      <4>3. QED BY <1>3, <4>1, <4>2, BackOneSlot
    <3>3. t.ring[recent_index(t, i - 1)] = w[Len(w) - (i - 1)]
      BY <3>1 DEF Recent
    <3>4. Len(v) - i = Len(w) - (i - 1)
      BY <1>1, <1>4, <3>1
    <3>5. u.ring[recent_index(t, i - 1)] = t.ring[recent_index(t, i - 1)]
      BY <1>1, <1>2, <3>2
    <3>6. v[Len(w) - (i - 1)] = w[Len(w) - (i - 1)]
      BY <1>4, <3>1
    <3>7. QED BY <3>2, <3>3, <3>4, <3>5, <3>6
  <2>3. QED BY <2>1, <2>2
<1>8. QED BY <1>6, <1>7 DEF Recent

LEMMA RecentIsWindow ==
  ASSUME NEW t \in Trackers, NEW w \in Seq(Signals), Recent(t, w)
  PROVE  Window(t) = [i \in 1 .. (IF Len(w) < TrackerSize THEN Len(w) ELSE TrackerSize) |->
                        w[Len(w) + 1 - i]]
<1>1. t.count \in Nat /\ Len(w) \in Nat
  BY AgentAssumption, LenProperties DEF Trackers
<1>2. ASSUME NEW i \in 1 .. t.count
      PROVE  t.ring[recent_index(t, i - 1)] = w[Len(w) + 1 - i]
  <2>1. i - 1 \in 0 .. t.count - 1 /\ Len(w) - (i - 1) = Len(w) + 1 - i
    BY <1>1, <1>2
  <2>2. t.ring[recent_index(t, i - 1)] = w[Len(w) - (i - 1)]
    BY <2>1 DEF Recent
  <2>3. QED BY <2>1, <2>2
<1>3. t.count = IF Len(w) < TrackerSize THEN Len(w) ELSE TrackerSize
  BY DEF Recent
<1>4. QED BY <1>2, <1>3 DEF Window

LEMMA RecentInductive ==
  ASSUME Types, Recent(tracker, recorded), [Next]_vars
  PROVE  Recent(tracker', recorded')
<1>1. CASE UNCHANGED <<tracker, recorded>>
  BY <1>1
<1>2. CASE \E s \in Signals : tracker' = Recorded(tracker, s) /\ recorded' = Append(recorded, s)
  <2>1. PICK s \in Signals : tracker' = Recorded(tracker, s) /\ recorded' = Append(recorded, s)
    BY <1>2
  <2>2. tracker \in Trackers /\ recorded \in Seq(Signals)
    BY DEF Types, TrackerType, CallType, Trackers
  <2>3. QED BY <2>1, <2>2, RecordedKeepsRecent
<1>3. ASSUME NEW r \in ModelReply, Deliver(r)
      PROVE  Recent(tracker', recorded')
  <2>1. r.signal \in Signals
    BY Replies
  <2>2. QED BY <1>1, <1>2, <1>3, <2>1 DEF Deliver
<1>4. CASE PredictReturns
  <2>1. Failed \/ (reply \in ModelReply /\ Deliver(reply))
    BY <1>4 DEF PredictReturns, Types, CallType
  <2>2. QED BY <1>1, <1>3, <2>1 DEF Failed
<1>5. CASE LlmReturns
  <2>1. Failed \/ (reply \in ModelReply /\ Deliver(reply))
    BY <1>5, Replies DEF LlmReturns, Types, CallType
  <2>2. QED BY <1>1, <1>3, <2>1 DEF Failed
<1>6. CASE Run \/ lcn_ask_typed \/ lcn_a2a_send \/ a2a_post \/ ModelReplies \/ PeerHandles \/ Tick
  BY <1>1, <1>6 DEF Run, lcn_ask_typed, lcn_a2a_send, Begin, a2a_post, ModelReplies,
                    PeerHandles, Tick
<1>7. CASE UNCHANGED vars
  BY <1>1, <1>7 DEF vars
<1>8. QED BY <1>4, <1>5, <1>6, <1>7 DEF Next

LEMMA InitRecent == Init => Recent(tracker, recorded)
  BY AgentAssumption DEF Init, Recent

\* What an entropy check looks at is what was recorded last, the most recent
\* entry first, however often the ring has wrapped around (recent_index).
THEOREM TrackerWindow == Spec => []WindowKeepsLast
<1>1. Types /\ Recent(tracker, recorded) /\ [Next]_vars => Types' /\ Recent(tracker, recorded)'
  BY TypesInductive, RecentInductive
<1>2. Types /\ Recent(tracker, recorded) => WindowKeepsLast
  BY RecentIsWindow DEF Types, TrackerType, CallType, Trackers, WindowKeepsLast, Latest
<1>3. Init => Types
  BY InitTypes DEF Types
<1>4. QED BY <1>1, <1>2, <1>3, InitRecent, PTL DEF Spec

LEMMA AnswerWithinLimits ==
  ASSUME Types, Recent(tracker, recorded), Next,
         by = "run", pc # "idle", answer' = "ok", pc' = "idle"
  PROVE  Len(recorded') = Len(recorded) + 1 /\ WithinLimits(Latest')
<1>1. Types' /\ Recent(tracker', recorded')
  BY TypesInductive, RecentInductive
<1>2. Window(tracker') = Latest'
  <2>1. tracker' \in Trackers /\ recorded' \in Seq(Signals)
    BY <1>1 DEF Types, TrackerType, CallType, Trackers
  <2>2. QED BY <1>1, <2>1, RecentIsWindow DEF Latest
<1>3. ASSUME NEW r, Deliver(r)
      PROVE  WithinLimits(Window(tracker')) /\ \E s : recorded' = Append(recorded, s)
  BY <1>3 DEF Deliver, Return
<1>4. \E r : Deliver(r)
  <2>1. pc \in {"llm", "predict"}
    BY DEF Types, CallType
  <2>2. CASE PredictReturns \/ LlmReturns
    BY <2>2 DEF PredictReturns, LlmReturns, Failed, Return
  <2>3. CASE ModelReplies \/ PeerHandles \/ Tick
    BY <2>1, <2>3 DEF ModelReplies, PeerHandles, Tick
  <2>4. CASE Run \/ lcn_ask_typed \/ lcn_a2a_send \/ a2a_post
    BY <2>1, <2>4 DEF Run, lcn_ask_typed, lcn_a2a_send, Begin, a2a_post
  <2>5. QED BY <2>2, <2>3, <2>4 DEF Next
<1>5. recorded \in Seq(Signals)
  BY DEF Types, CallType
<1>6. WithinLimits(Window(tracker')) /\ \E s : recorded' = Append(recorded, s)
  BY <1>3, <1>4
<1>7. WithinLimits(Latest')
  BY <1>2, <1>6
<1>8. Len(recorded') = Len(recorded) + 1
  BY <1>5, <1>6
<1>9. QED BY <1>7, <1>8

\* run() hands on a reply only if the replies recorded last, this one among
\* them, keep within the entropy budget, whatever the budget is.
THEOREM AnswersWithinLimits == Spec => RunAnswersWithinLimits
<1> DEFINE Answers == by = "run" /\ pc # "idle" /\ answer' = "ok" /\ pc' = "idle"
                        => Len(recorded') = Len(recorded) + 1 /\ WithinLimits(Latest')
<1>1. Types /\ Recent(tracker, recorded) /\ [Next]_vars => Types' /\ Recent(tracker, recorded)'
  BY TypesInductive, RecentInductive
<1>2. Types /\ Recent(tracker, recorded) /\ [Next]_vars => [Answers]_vars
  <2>1. Types /\ Recent(tracker, recorded) /\ Next => Answers
    BY AnswerWithinLimits
  <2>2. QED BY <2>1
<1>3. Init => Types
  BY InitTypes DEF Types
<1>4. QED BY <1>1, <1>2, <1>3, InitRecent, PTL DEF Spec, RunAnswersWithinLimits

===============================================================================
