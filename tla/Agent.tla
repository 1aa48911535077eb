-------------------------------- MODULE Agent ---------------------------------
(***************************************************************************)
(* One agent of a generated program and its calls to the outside: the      *)
(* generated run() (codegen.c) and ask() (lcn_runtime.h), which ask a      *)
(* model through lcn_llm_call (llm.c), and the messages it sends to a peer *)
(* (a2a.c).  On the way the calls check and charge the budget (budget.c),  *)
(* record entropies and check their limits (entropy.c), and leave events   *)
(* in the event store (event.c).                                           *)
(*                                                                         *)
(* An agent is a local variable of the thread that uses it, so one thread  *)
(* makes the calls, one after another.  What is not under its control: the *)
(* model and the peer may answer, refuse, or answer and the answer is lost.*)
(***************************************************************************)
EXTENDS Integers, Sequences, SequencesExt

CONSTANTS
  Endpoints,        \* where the model may be: subset of {"local", "remote"}
  MaxTokens,        \* budget.max_tokens, 0 for no limit
  MaxDuration,      \* budget.max_duration_secs, 0 for no limit
  Tokens,           \* the tokens a reply may cost
  Signals,          \* the confidence (percent) and entropy a reply may carry
  MaxAvgEntropy,    \* entropy_budget.max_avg_entropy
  MaxLowConfidence, \* entropy_budget.max_low_confidence, percent
  TrackerSize,      \* capacity of the entropy tracker (1000)
  StoreSize,        \* LCN_EVENT_STORE_CAPACITY
  MaxRetries,       \* client.max_retries
  MaxCalls,         \* bound on the calls the program makes
  MaxTime           \* bound on the clock

ASSUME AgentAssumption ==
  /\ MaxTokens \in Nat /\ MaxDuration \in Nat /\ MaxRetries \in Nat
  /\ Tokens \subseteq Nat /\ \E most \in Tokens : \A t \in Tokens : t <= most
  /\ TrackerSize \in Nat \ {0} /\ StoreSize \in Nat \ {0}

VARIABLES
  pc,           \* "idle", or what the thread waits for: "predict", "llm", "post"
  by,           \* the call it makes: "run", "ask" or "send"
  answer,       \* what the last call returned
  calls, clock,
  endpoint,
  budget,       \* used_tokens and exhausted of LcnBudget
  tracker,      \* LcnEntropyTracker: ring, tail, count
  store,        \* LcnEventStore: events, head, count, next_seq
  reply,        \* what the model or the peer has sent back, if it has
  client,       \* attempts of the current message, and the client's totals
  handled,      \* how often the peer has handled the current message
  recorded,     \* history: everything recorded by the tracker
  emitted       \* history: everything emitted to the store

vars == <<pc, by, answer, calls, clock, endpoint, budget, tracker, store, reply,
          client, handled, recorded, emitted>>

NoReply == [status |-> "none"]
NoSignal == -1       \* confidence of a provider without logprobs
Threshold == 50      \* low_confidence_threshold, as the generated code sets it

Init ==
  /\ pc = "idle" /\ by = "run" /\ answer = "none"
  /\ calls = 0 /\ clock = 0
  /\ endpoint \in Endpoints
  /\ budget = [used |-> 0, exhausted |-> FALSE]
  /\ tracker = [ring |-> [i \in 0 .. TrackerSize - 1 |-> NoReply],
                tail |-> 0, count |-> 0]
  /\ store = [events |-> [i \in 0 .. StoreSize - 1 |-> NoReply],
              head |-> 0, count |-> 0, next_seq |-> 0]
  /\ reply = NoReply
  /\ client = [attempts |-> 0, total_requests |-> 0, total_errors |-> 0]
  /\ handled = 0
  /\ recorded = << >> /\ emitted = << >>

-----------------------------------------------------------------------------

\* Variant: the slot is computed after head has moved.
EmitAfterHead(kind) ==
  LET full == store.count = StoreSize
      head == IF full THEN (store.head + 1) % StoreSize ELSE store.head
      idx == (head + store.count) % StoreSize IN
  /\ store' = [events |-> [store.events EXCEPT ![idx] =
                             [kind |-> kind, seq |-> store.next_seq]],
               head |-> head,
               count |-> IF full THEN store.count ELSE store.count + 1,
               next_seq |-> store.next_seq + 1]
  /\ emitted' = Append(emitted, kind)

\* lcn_event_emit: the slot after the last event; if the store is full, that is
\* the slot of the oldest.
lcn_event_emit(kind) ==
  LET full == store.count = StoreSize
      idx == (store.head + store.count) % StoreSize IN
  /\ store' = [events |-> [store.events EXCEPT ![idx] =
                             [kind |-> kind, seq |-> store.next_seq]],
               head |-> IF full THEN (store.head + 1) % StoreSize ELSE store.head,
               count |-> IF full THEN store.count ELSE store.count + 1,
               next_seq |-> store.next_seq + 1]
  /\ emitted' = Append(emitted, kind)

NoEvent == UNCHANGED <<store, emitted>>

-----------------------------------------------------------------------------
\* The entropy tracker.  recent_index(t, i) is the slot of the i-th most recent
\* entry; a check looks at all entries it holds.
recent_index(t, i) ==
  IF t.tail - 1 - i < 0 THEN t.tail - 1 - i + TrackerSize ELSE t.tail - 1 - i

Window(t) == [i \in 1 .. t.count |-> t.ring[recent_index(t, i - 1)]]

Recorded(t, s) ==
  [ring |-> [t.ring EXCEPT ![t.tail] = s],
   tail |-> (t.tail + 1) % TrackerSize,
   count |-> IF t.count < TrackerSize THEN t.count + 1 ELSE t.count]

\* lcn_entropy_check_budget over a window w: the average entropy and the share of
\* low confidence.  The drift is zero, since run() records category 0 always.
WithinLimits(w) ==
  /\ FoldSeq(LAMBDA s, sum : sum + s.entropy, 0, w) <= MaxAvgEntropy * Len(w)
  /\ 100 * Len(SelectSeq(w, LAMBDA s : s.confidence < Threshold))
       <= MaxLowConfidence * Len(w)

-----------------------------------------------------------------------------
\* The budget as lcn_budget_check sees it, and as lcn_llm_call does.
OutOfTokens == MaxTokens > 0 /\ budget.used >= MaxTokens
OutOfTime == MaxDuration > 0 /\ clock >= MaxDuration

Return(a) == pc' = "idle" /\ answer' = a

\* Variant: the last token may be spent twice.
CallModelAtLimit ==
  \/ endpoint = "local" /\ pc' = "predict" /\ NoEvent /\ UNCHANGED answer
  \/ endpoint # "local" /\ MaxTokens > 0 /\ budget.used > MaxTokens /\ Return("error") /\ NoEvent
  \/ /\ endpoint # "local" /\ ~(MaxTokens > 0 /\ budget.used > MaxTokens)
     /\ pc' = "llm" /\ lcn_event_emit("LLM_REQUEST") /\ UNCHANGED answer

\* lcn_llm_call up to the request.  A local model is asked without a budget and
\* without events.
lcn_llm_call ==
  \/ endpoint = "local" /\ pc' = "predict" /\ NoEvent /\ UNCHANGED answer
  \/ endpoint # "local" /\ OutOfTokens /\ Return("error") /\ NoEvent
  \/ /\ endpoint # "local" /\ ~OutOfTokens
     /\ pc' = "llm" /\ lcn_event_emit("LLM_REQUEST") /\ UNCHANGED answer

Begin(call) ==
  /\ pc = "idle" /\ calls < MaxCalls
  /\ calls' = calls + 1 /\ by' = call
  /\ reply' = NoReply
  /\ UNCHANGED <<clock, endpoint, tracker, recorded>>

\* The generated run(): lcn_budget_check, which marks a budget it finds used up,
\* then the model.
Run ==
  /\ Begin("run")
  /\ \/ budget.exhausted /\ Return("error") /\ NoEvent /\ UNCHANGED budget
     \/ /\ ~budget.exhausted /\ (OutOfTokens \/ OutOfTime)
        /\ budget' = [budget EXCEPT !.exhausted = TRUE]
        /\ lcn_event_emit("BUDGET_EXHAUSTED")
        /\ Return("error")
     \/ ~budget.exhausted /\ ~OutOfTokens /\ ~OutOfTime /\ lcn_llm_call /\ UNCHANGED budget
  /\ UNCHANGED <<client, handled>>

\* ask() in a method of the agent: lcn_ask_typed, which refuses an endpoint that
\* the access policy denies and goes to the model otherwise.
lcn_ask_typed ==
  /\ Begin("ask")
  /\ lcn_llm_call \/ (Return("error") /\ NoEvent)
  /\ UNCHANGED <<budget, client, handled>>

\* The model computes a reply, which is on its way from then on.  A local model
\* costs no tokens and always has a confidence.
ModelReplies ==
  /\ reply = NoReply
  /\ \/ /\ pc = "llm"
        /\ \E t \in Tokens, s \in Signals :
             reply' = [status |-> "ok", tokens |-> t, signal |-> s]
     \/ /\ pc = "predict"
        /\ \E s \in Signals :
             /\ s.confidence # NoSignal
             /\ reply' = [status |-> "ok", tokens |-> 0, signal |-> s]
  /\ UNCHANGED <<pc, by, answer, calls, clock, endpoint, budget, tracker, store,
                 client, handled, recorded, emitted>>

\* Variant: the limits are checked before the reply is recorded.
DeliverUnchecked(r) ==
  IF by = "run" /\ r.signal.confidence # NoSignal
  THEN /\ tracker' = Recorded(tracker, r.signal)
       /\ recorded' = Append(recorded, r.signal)
       /\ Return(IF WithinLimits(Window(tracker)) THEN "ok" ELSE "error")
  ELSE /\ Return(IF by = "run" THEN "error" ELSE "ok")
       /\ UNCHANGED <<tracker, recorded>>

\* What the caller makes of a reply.  run() wants a confidence, records the
\* reply and hands it on only if the tracker is within its limits.
Deliver(r) ==
  IF by = "run" /\ r.signal.confidence # NoSignal
  THEN /\ tracker' = Recorded(tracker, r.signal)
       /\ recorded' = Append(recorded, r.signal)
       /\ Return(IF WithinLimits(Window(tracker')) THEN "ok" ELSE "error")
  ELSE /\ Return(IF by = "run" THEN "error" ELSE "ok")
       /\ UNCHANGED <<tracker, recorded>>

Failed == Return("error") /\ UNCHANGED <<tracker, recorded>>

\* lcn_model_predict returns.
PredictReturns ==
  /\ pc = "predict"
  /\ IF reply # NoReply THEN Deliver(reply) ELSE Failed
  /\ UNCHANGED <<by, calls, clock, endpoint, budget, store, reply, client, handled,
                 emitted>>

\* Variant: the receive has no timeout.
LlmReturnsAnswered ==
  /\ pc = "llm" /\ reply # NoReply
  /\ budget' = [budget EXCEPT !.used = @ + reply.tokens]
  /\ Deliver(reply)
  /\ lcn_event_emit("LLM_RESPONSE")
  /\ UNCHANGED <<by, calls, clock, endpoint, reply, client, handled>>

\* lcn_llm_complete returns: with the reply, or with an error because there is
\* none, it is not a success or it was lost.
LlmReturns ==
  /\ pc = "llm"
  /\ \/ /\ reply # NoReply
        /\ budget' = [budget EXCEPT !.used = @ + reply.tokens]
        /\ Deliver(reply)
     \/ Failed /\ UNCHANGED budget
  /\ lcn_event_emit("LLM_RESPONSE")
  /\ UNCHANGED <<by, calls, clock, endpoint, reply, client, handled>>

-----------------------------------------------------------------------------
\* lcn_a2a_send: a2a_post posts the message up to 1 + max_retries times.
lcn_a2a_send ==
  /\ Begin("send")
  /\ pc' = "post"
  /\ client' = [client EXCEPT !.attempts = 0]
  /\ handled' = 0
  /\ NoEvent /\ UNCHANGED <<budget, answer>>

\* The peer handles the message; its answer may say so (2xx), may be a 2xx whose
\* body reports an error, or refuse it (4xx), or fail (5xx).
PeerHandles ==
  /\ pc = "post" /\ reply = NoReply
  /\ \E s \in {"ok", "status_error", "4xx", "5xx"} : reply' = [status |-> s]
  /\ handled' = handled + 1
  /\ UNCHANGED <<pc, by, answer, calls, clock, endpoint, budget, tracker, store,
                 client, recorded, emitted>>

\* Any 2xx has a result, if only the raw body; an error has none.
PostAnswered ==
  /\ reply.status \in {"ok", "status_error", "4xx"}
  /\ client' = [client EXCEPT !.total_requests = @ + 1]
  /\ Return(IF reply.status = "4xx" THEN "error" ELSE "ok")
  /\ UNCHANGED reply

\* Variant: one more attempt than max_retries allows.
RetryOnceMore ==
  /\ client' = [attempts |-> client.attempts + 1,
                total_requests |-> client.total_requests + 1,
                total_errors |-> client.total_errors + 1]
  /\ reply' = NoReply
  /\ IF client.attempts < 1 + MaxRetries THEN UNCHANGED <<pc, answer>>
                                         ELSE Return("error")

\* After a 5xx, a lost answer or a lost request the message is posted again.
PostFails ==
  /\ client' = [attempts |-> client.attempts + 1,
                total_requests |-> client.total_requests + 1,
                total_errors |-> client.total_errors + 1]
  /\ reply' = NoReply
  /\ IF client.attempts + 1 < 1 + MaxRetries THEN UNCHANGED <<pc, answer>>
                                             ELSE Return("error")

a2a_post ==
  /\ pc = "post"
  /\ PostAnswered \/ PostFails
  /\ UNCHANGED <<by, calls, clock, endpoint, budget, tracker, store, handled,
                 recorded, emitted>>

Tick ==
  /\ clock < MaxTime
  /\ clock' = clock + 1
  /\ UNCHANGED <<pc, by, answer, calls, endpoint, budget, tracker, store, reply,
                 client, handled, recorded, emitted>>

Next ==
  \/ Run \/ lcn_ask_typed \/ lcn_a2a_send
  \/ PredictReturns \/ LlmReturns \/ a2a_post
  \/ ModelReplies \/ PeerHandles \/ Tick

Spec == Init /\ [][Next]_vars

\* The thread goes on; a receive from the network ends after HTTP_TIMEOUT_S,
\* answer or not.  Nobody has to reply.
FairSpec == Spec /\ WF_vars(PredictReturns) /\ WF_vars(LlmReturns) /\ WF_vars(a2a_post)

-----------------------------------------------------------------------------
Events == {"LLM_REQUEST", "LLM_RESPONSE", "BUDGET_EXHAUSTED"}
ModelReplyOf(S) == [status : {"ok"}, tokens : S, signal : Signals]
PeerReply == [status : {"ok", "status_error", "4xx", "5xx"}]
MaxOf(S) == CHOOSE x \in S : \A y \in S : y <= x

TypeOK ==
  /\ pc \in {"idle", "predict", "llm", "post"} /\ by \in {"run", "ask", "send"}
  /\ answer \in {"none", "ok", "error"}
  /\ calls \in Nat /\ clock \in Nat /\ endpoint \in Endpoints
  /\ budget \in [used : Nat, exhausted : BOOLEAN]
  /\ tracker \in [ring : [0 .. TrackerSize - 1 -> Signals \cup {NoReply}],
                  tail : 0 .. TrackerSize - 1, count : 0 .. TrackerSize]
  /\ store \in [events : [0 .. StoreSize - 1 -> [kind : Events, seq : Nat] \cup {NoReply}],
                head : 0 .. StoreSize - 1, count : 0 .. StoreSize, next_seq : Nat]
  /\ reply \in ModelReplyOf(Tokens \cup {0}) \cup PeerReply \cup {NoReply}
  /\ client \in [attempts : Nat, total_requests : Nat, total_errors : Nat]
  /\ handled \in Nat
  /\ recorded \in Seq(Signals) /\ emitted \in Seq(Events)

\* event.c:106: however often the store has wrapped around, it holds the last
\* events in their order, each with its own sequence number.
EventsKeepLast ==
  /\ store.next_seq = Len(emitted)
  /\ store.count = IF Len(emitted) < StoreSize THEN Len(emitted) ELSE StoreSize
  /\ \A i \in 0 .. store.count - 1 :
       LET seq == Len(emitted) - store.count + i IN
       store.events[(store.head + i) % StoreSize] = [kind |-> emitted[seq + 1], seq |-> seq]

\* What was recorded last, the most recent entry first.
Latest ==
  [i \in 1 .. (IF Len(recorded) < TrackerSize THEN Len(recorded) ELSE TrackerSize) |->
     recorded[Len(recorded) + 1 - i]]

\* entropy.c:56: the window that a check looks at is what was recorded last.
WindowKeepsLast == Window(tracker) = Latest

\* llm.c:604 and :656: the budget is tested before a call and charged after it
\* without a cap, so the tokens used exceed the limit by less than one reply.
OvershootOneReply ==
  MaxTokens > 0 => budget.used < MaxTokens + (IF budget.used = 0 THEN 1 ELSE MaxOf(Tokens))

\* codegen.c:8763: run() hands on a reply only if the replies recorded last, this
\* one among them, keep within the entropy budget.
RunAnswersWithinLimits ==
  [][by = "run" /\ pc # "idle" /\ answer' = "ok" /\ pc' = "idle"
       => Len(recorded') = Len(recorded) + 1 /\ WithinLimits(Latest')]_vars

\* a2a.c:224: a message is handled once for each attempt at most, 1 + max_retries
\* times in all, and at least once if the call reports success.
DeliveriesBounded ==
  /\ handled <= client.attempts + 1
  /\ handled <= 1 + MaxRetries
  /\ pc = "idle" /\ by = "send" /\ answer = "ok" => handled > 0

\* Every call returns.
CallsReturn == pc # "idle" ~> pc = "idle"

===============================================================================
