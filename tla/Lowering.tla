------------------------------ MODULE Lowering ------------------------------
(***************************************************************************)
(* The path from a function body to running WASM: ir_gen.c lowers the      *)
(* structured body to basic blocks (module IrGen), and the machine that    *)
(* ir_emit_wasm.c emits for them (module Dispatch) runs them.  The         *)
(* generated code answers to the meaning of the body (module Structured):  *)
(* it makes the same host calls with the same arguments and gives the same *)
(* result.                                                                 *)
(*                                                                         *)
(* A program is one function.                                              *)
(***************************************************************************)
EXTENDS IrGen, Dispatch

CONSTANT
    Programs        \* the function bodies to compile

VARIABLE
    prog            \* the function body

vars == <<prog, machine>>

Init == prog \in Programs /\ code = irgen_fn_body(prog) /\ Enter
Next == DispatchNext /\ UNCHANGED prog

\* The engine that runs the module does not stop in the middle of it; the
\* host may never answer.
Spec == Init /\ [][Next]_vars /\ WF_vars(Step /\ UNCHANGED prog)

(***************************************************************************)
(* Properties.                                                             *)
(***************************************************************************)

(***************************************************************************)
(* The generated module does what the body means: the call the host has to *)
(* answer, with its argument, is the next call of the body under the       *)
(* answers so far, and the result of the function is the body's result.    *)
(***************************************************************************)
SameBehaviour ==
    After(Outcome(prog, answers, declared), LAMBDA o :
        /\ Waiting => o.kind = "call" /\ o.call = Last(sent)
        /\ result # Running => o.kind = "result" /\ result = <<o.val>>)

\* The machine never spins: again and again it waits for the host or has
\* returned.  The bodies of MCLowering call or leave in every iteration, so a
\* loop that does not come back to its call is a loop of the generated code.
Responsive == []<>(Waiting \/ result # Running)
=============================================================================
