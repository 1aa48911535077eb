----------------------------- MODULE HostCalls -----------------------------
(***************************************************************************)
(* What the meaning of a function body (Structured), the IR generated for  *)
(* it (IrGen) and the machine that runs it (Dispatch) have in common: the  *)
(* budgets a host call is tested against, what it costs of each, and how   *)
(* code names its values.                                                  *)
(***************************************************************************)
EXTENDS Integers, Sequences, SequencesExt

CONSTANTS
    Budgets,    \* the budgets in the order they are tested, a sequence of names
    Price,      \* Price[b]: the calls that cost some of budget b, and how much
    Exceeded    \* Exceeded[b]: the error code of budget b

ASSUME BudgetsAssumption == Budgets \in Seq(ToSet(Budgets))

\* The tables of prices hold no negative ones.
ASSUME PricesAssumption ==
    \A b \in ToSet(Budgets) : \A f \in DOMAIN Price[b] : Price[b][f] \in Nat

\* A call that is not in the table of a budget costs nothing of it.
Cost(b, f) == IF f \in DOMAIN Price[b] THEN Price[b][f] ELSE 0

\* The value of a block or a return without one, and the number of a value
\* that an instruction does not have.
NoValue == 99
NoId    == -1

With(f, k, v) == (k :> v) @@ f
=============================================================================
