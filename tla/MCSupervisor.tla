---------------------------- MODULE MCSupervisor -----------------------------
(***************************************************************************)
(* Instances of Supervisor for TLC.  The mode on_failure is nowhere told   *)
(* from always, so the kinds leave it out, and a child without start_fn is *)
(* of interest only when it would be restarted.                            *)
(***************************************************************************)
EXTENDS Supervisor

MCKinds == {[mode |-> "always", starts |-> TRUE],
            [mode |-> "always", starts |-> FALSE],
            [mode |-> "never", starts |-> TRUE]}

MCAlways == {[mode |-> "always", starts |-> TRUE]}
=============================================================================
