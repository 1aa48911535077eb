------------------------------- MODULE MCAgent --------------------------------
(***************************************************************************)
(* Replies for Agent: a provider without logprobs, a reply that is sure,   *)
(* one that is confused, and one that is not sure but has a low entropy.   *)
(***************************************************************************)
EXTENDS Agent

Signal(c, e) == [confidence |-> c, entropy |-> e]
MCSignals == {Signal(NoSignal, 0), Signal(90, 0), Signal(20, 2), Signal(40, 1)}
===============================================================================
