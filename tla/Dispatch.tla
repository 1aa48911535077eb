------------------------------ MODULE Dispatch ------------------------------
(***************************************************************************)
(* The function that ir_emit_wasm.c emits for a list of basic blocks: a    *)
(* dispatch loop that runs one block after the other, over locals, linear  *)
(* memory and one global for what is left of each budget.                  *)
(*                                                                         *)
(* The blocks are whatever they are: what is said of the machine here      *)
(* holds of any code.  Lowering runs it with the code of ir_gen.c.         *)
(***************************************************************************)
EXTENDS HostCalls, FiniteSets

CONSTANTS
    Declared,       \* the budgets an agent may declare: a set of functions
    Answers,        \* what the host may answer a call
    MaxCalls        \* bound on the calls that are answered

\* A declared budget below zero counts as zero.
ASSUME DeclaredAssumption == Declared \subseteq [ToSet(Budgets) -> Nat]

VARIABLES
    code,           \* the basic blocks, each a list of instructions
    bb, pc,         \* $bb, and the place in that block
    reg,            \* the locals ($r..)
    mem,            \* linear memory: the slot each alloca points to now
    declared, left, \* the declared and the remaining budgets (module globals)
    result,         \* what the function returned, or Running
    sent,           \* the calls the host has received
    answers         \* what the host has answered so far

machine == <<code, bb, pc, reg, mem, declared, left, result, sent, answers>>

\* A result is a sequence of one value.
Running == <<>>

(***************************************************************************)
(* The dispatch loop.  $bb selects a block; its instructions run in order  *)
(* up to the first branch, jump or return.                                 *)
(***************************************************************************)
Enter ==
    /\ bb = 1 /\ pc = 1
    /\ reg = <<>> /\ mem = <<>>
    /\ declared \in Declared /\ left = declared
    /\ result = Running
    /\ sent = <<>> /\ answers = <<>>

Insts   == code[bb]
Inst    == Insts[pc]
Waiting == Len(sent) > Len(answers)

\* What runs next: a block that ends without a terminator goes on with the
\* block emitted after it, the last one leaves the function.
Op == CASE pc <= Len(Insts) -> Inst.op
        [] bb < Len(code)   -> "next"
        [] OTHER            -> "exit"
Runs(ops) == result = Running /\ ~Waiting /\ Op \in ops

Truth(b) == IF b THEN 1 ELSE 0

\* A local that was never set holds zero.  A phi was set by the jump.
Local(v) == IF v \in DOMAIN reg THEN reg[v] ELSE 0
ValueOf(i) ==
    CASE i.op = "const" -> i.n
      [] i.op = "lt"    -> Truth(Local(i.a) < Local(i.b))
      [] i.op = "gt"    -> Truth(Local(i.a) > Local(i.b))
      [] i.op = "eq"    -> Truth(Local(i.a) = Local(i.b))
      [] i.op = "add"   -> Local(i.a) + Local(i.b)
      [] i.op = "sub"   -> Local(i.a) - Local(i.b)
      [] i.op = "load"  -> mem[i.addr]
      [] i.op = "phi"   -> Local(i.id)

Compute ==
    /\ Runs({"const", "lt", "gt", "eq", "add", "sub", "load", "phi"})
    /\ reg' = With(reg, Inst.id, ValueOf(Inst))
    /\ pc' = pc + 1
    /\ UNCHANGED <<code, bb, mem, declared, left, result, sent, answers>>

\* An alloca takes eight new bytes each time it runs; nothing points to the
\* old ones any more.
Store ==
    /\ Runs({"alloca", "store"})
    /\ mem' = IF Inst.op = "alloca" THEN With(mem, Inst.id, 0)
                                    ELSE With(mem, Inst.addr, Local(Inst.v))
    /\ pc' = pc + 1
    /\ UNCHANGED <<code, bb, reg, declared, left, result, sent, answers>>

\* emit_phi_assignments: one local after the other, before the jump.
PhiAssignments(src, target) ==
    FoldSeq(LAMBDA i, r :
                LET from == {a \in i.in : a.b = src}
                IN  IF from = {} THEN r ELSE With(r, i.id, Local((CHOOSE a \in from : TRUE).v)),
            reg, SelectSeq(code[target], LAMBDA i : i.op = "phi"))

Target == CASE Op = "next"                       -> bb + 1
            [] Op = "br" /\ Local(Inst.v) = 0      -> Inst.f
            [] OTHER                             -> Inst.t

Jump ==
    /\ Runs({"br", "jmp", "next"})
    /\ bb' = Target /\ pc' = 1
    /\ reg' = IF Op = "next" THEN reg ELSE PhiAssignments(bb, Target)
    /\ UNCHANGED <<code, mem, declared, left, result, sent, answers>>

\* The function returns; past its last block it returns zero.
Finish ==
    /\ Runs({"ret", "exit"})
    /\ result' = <<CASE Op = "exit"     -> 0
                     [] Inst.v = NoId   -> NoValue
                     [] OTHER           -> Local(Inst.v)>>
    /\ UNCHANGED <<code, bb, pc, reg, mem, declared, left, sent, answers>>

(***************************************************************************)
(* A host call, after its fences.  Each fence in turn returns from the     *)
(* function if its budget does not cover the price, and charges it if it   *)
(* does; the price of a fence that was passed stays charged.               *)
(***************************************************************************)
\* Mutant: a fence stops the call only when nothing is left.
RefusesWhenEmpty(b, f) == Cost(b, f) > 0 /\ left[b] <= 0
Refuses(b, f) == Cost(b, f) > 0 /\ left[b] < Cost(b, f)

\* The fences before the first one that refuses.
Passed(f) == {i \in DOMAIN Budgets : \A j \in 1 .. i : ~Refuses(Budgets[j], f)}
Charged(b, f) == IF \E i \in Passed(f) : Budgets[i] = b THEN left[b] - Cost(b, f) ELSE left[b]

HostCall ==
    /\ Runs({"hostcall"})
    /\ left' = [b \in DOMAIN left |-> Charged(b, Inst.f)]
    /\ IF Passed(Inst.f) = DOMAIN Budgets
       THEN /\ sent' = Append(sent, [f |-> Inst.f, arg |-> Local(Inst.arg)])
            /\ UNCHANGED result
       ELSE /\ result' = <<Exceeded[Budgets[Cardinality(Passed(Inst.f)) + 1]]>>
            /\ UNCHANGED sent
    /\ UNCHANGED <<code, bb, pc, reg, mem, declared, answers>>

\* The host answers.
HostAnswer ==
    /\ Waiting
    /\ Len(answers) < MaxCalls
    /\ \E v \in Answers :
          /\ answers' = Append(answers, v)
          /\ reg' = With(reg, Inst.id, v)
    /\ pc' = pc + 1
    /\ UNCHANGED <<code, bb, mem, declared, left, result, sent>>

Step == Compute \/ Store \/ Jump \/ Finish \/ HostCall

DispatchNext == Step \/ HostAnswer

DispatchSpec == Enter /\ [][DispatchNext]_machine

(***************************************************************************)
(* Properties.                                                             *)
(***************************************************************************)
\* What a sequence of calls costs of budget b.
Spent(b, calls) ==
    LET spent[n \in 0 .. Len(calls)] ==
            IF n = 0 THEN 0 ELSE spent[n - 1] + Cost(b, calls[n].f)
    IN  spent[Len(calls)]

\* The fences (emit_entropy_fence, emit_token_fence, emit_cost_fence): whatever
\* path the function takes, the prices of the calls the host has received are
\* covered by every declared budget.
CallsWithinBudget == \A b \in ToSet(Budgets) : Spent(b, sent) <= declared[b]
=============================================================================
