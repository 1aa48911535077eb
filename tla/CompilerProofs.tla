--------------------------- MODULE CompilerProofs ---------------------------
(***************************************************************************)
(* Theorems about the compiler: about Ownership, for any names and         *)
(* programs of any length, and about Dispatch, for any code, any budgets   *)
(* and prices, and whatever the host answers.                              *)
(***************************************************************************)
EXTENDS Ownership, Dispatch, FiniteSetTheorems, SequenceTheorems,
        WellFoundedInduction, TLAPS

\* The variables and the contexts that the checker can be left with.
Tracked == [name : Name, state : {"owned", "moved", "borrowed", "mut_borrowed"},
            borrow_count : Nat, has_mut_borrow : BOOLEAN, is_copy : BOOLEAN,
            scope_depth : Int]

GoodVar == {v \in Tracked : Consistent(v)}

GoodCtx == [vars : Seq(GoodVar), reported : BOOLEAN]

OwnInv ==
  /\ ctx \in GoodCtx
  /\ scope_depth \in Int
  /\ open \in Seq({1, 2})

-----------------------------------------------------------------------------
\* Each set of naturals has a least element.
LEMMA LeastNatural ==
  ASSUME NEW S \in SUBSET Nat, S # {}
  PROVE  \E i \in S : \A j \in S : i <= j
<1> DEFINE R == {p \in Nat \X Nat : p[1] < p[2]}
<1>1. R = OpToRel(<, Nat)
  BY DEF OpToRel
<1>2. IsWellFoundedOn(R, Nat)
  BY <1>1, NatLessThanWellFounded
<1>3. \A a, b \in Nat : a < b => <<a, b>> \in R
  OBVIOUS
<1> HIDE DEF R
<1>4. PICK i \in S : \A j \in S : ~(<<j, i>> \in R)
  BY <1>2, WFMin
<1>5. \A j \in S : j \in Nat
  OBVIOUS
<1>6. ASSUME NEW j \in S PROVE i <= j
  <2>1. i \in Nat /\ j \in Nat /\ ~(<<j, i>> \in R)
    BY <1>4, <1>5
  <2>2. ~(j < i)
    BY <1>3, <2>1
  <2> QED
    BY <2>1, <2>2
<1> QED
  BY <1>6

\* Looking up a name.

\* A set of indices that is not empty has a last one.
LEMMA LastIndex ==
  ASSUME NEW n \in Nat, NEW S \in SUBSET (1 .. n), S # {}
  PROVE  \E i \in S : \A j \in S : i >= j
<1> DEFINE T == {n - i : i \in S}
<1>1. S \subseteq 1 .. n
  OBVIOUS
<1>2. T \subseteq Nat
  <2>1. ASSUME NEW i \in S PROVE n - i \in Nat
    BY <1>1
  <2> QED
    BY <2>1
<1>3. T # {}
  OBVIOUS
<1> HIDE DEF T
<1>4. PICK x \in T : \A y \in T : x <= y
  BY <1>2, <1>3, LeastNatural
<1>5. PICK i \in S : x = n - i
  BY DEF T
<1>6. \A j \in S : n - j \in T
  BY DEF T
<1>7. \A j \in S : i >= j
  BY <1>1, <1>4, <1>5, <1>6
<1> QED
  BY <1>7

\* A name is not found, or at an index.
LEMMA FindIndex ==
  ASSUME NEW c \in GoodCtx, NEW n
  PROVE  own_find(c, n) \in 0 .. Len(c.vars)
<1> DEFINE found == {i \in 1 .. Len(c.vars) : c.vars[i].name = n}
<1>1. Len(c.vars) \in Nat
  BY DEF GoodCtx
<1>2. CASE found = {}
  BY <1>1, <1>2 DEF own_find
<1>3. CASE found # {}
  <2>1. \E i \in found : \A j \in found : i >= j
    BY <1>1, <1>3, LastIndex
  <2>2. (CHOOSE i \in found : \A j \in found : i >= j) \in found
    BY <2>1
  <2> QED
    BY <1>1, <1>3, <2>2 DEF own_find
<1> QED
  BY <1>2, <1>3

-----------------------------------------------------------------------------
\* What the operations make of a variable.

LEMMA Recounted ==
  ASSUME NEW v \in Tracked, NEW k \in Nat,
         NEW st \in {"owned", "moved", "borrowed", "mut_borrowed"}
  PROVE  /\ [v EXCEPT !.borrow_count = k, !.state = st] \in Tracked
         /\ [v EXCEPT !.state = st, !.borrow_count = k] \in Tracked
<1>1. \A u \in Tracked : [u EXCEPT !.borrow_count = k] \in Tracked
  BY DEF Tracked
<1>2. \A u \in Tracked : [u EXCEPT !.state = st] \in Tracked
  BY DEF Tracked
<1> QED
  BY <1>1, <1>2

\* A borrow that the guards allow, a move and a release leave the state of a
\* variable and its counters in agreement.
LEMMA VariableSteps ==
  ASSUME NEW v \in GoodVar
  PROVE  /\ v.state # "moved" /\ v.borrow_count = 0 => BorrowedMut(v) \in GoodVar
         /\ ~v.has_mut_borrow => Borrowed(v) \in GoodVar
         /\ v.state = "owned" => [v EXCEPT !.state = "moved"] \in GoodVar
         /\ v.has_mut_borrow => Owned(v) \in GoodVar
         /\ v.borrow_count > 0 => OneLess(v) \in GoodVar
<1>1. /\ v \in Tracked
      /\ v.state = "borrowed" <=> v.borrow_count > 0
      /\ v.state = "mut_borrowed" <=> v.has_mut_borrow
  BY DEF GoodVar, Consistent
<1>2. v.borrow_count \in Nat
  BY <1>1 DEF Tracked
<1>3. ASSUME v.borrow_count = 0 PROVE BorrowedMut(v) \in GoodVar
  <2>1. BorrowedMut(v) \in Tracked
    BY <1>1 DEF Tracked, BorrowedMut
  <2>2. /\ BorrowedMut(v).state = "mut_borrowed" /\ BorrowedMut(v).has_mut_borrow
        /\ BorrowedMut(v).borrow_count = 0
    BY <1>1, <1>3 DEF Tracked, BorrowedMut
  <2> QED
    BY <2>1, <2>2 DEF GoodVar, Consistent
<1>4. ASSUME ~v.has_mut_borrow PROVE Borrowed(v) \in GoodVar
  <2>1. Borrowed(v) \in Tracked
    <3>1. v.borrow_count + 1 \in Nat
      BY <1>2
    <3> QED
      BY <1>1, <3>1, Recounted DEF Borrowed
  <2>2. /\ Borrowed(v).state = "borrowed" /\ ~Borrowed(v).has_mut_borrow
        /\ Borrowed(v).borrow_count > 0
    BY <1>1, <1>2, <1>4 DEF Tracked, Borrowed
  <2> QED
    BY <2>1, <2>2 DEF GoodVar, Consistent
<1>5. v.state = "owned" => [v EXCEPT !.state = "moved"] \in GoodVar
  BY <1>1 DEF GoodVar, Tracked, Consistent
<1>6. v.has_mut_borrow => Owned(v) \in GoodVar
  BY <1>1 DEF GoodVar, Tracked, Consistent, Owned
<1>7. ASSUME v.borrow_count > 0 PROVE OneLess(v) \in GoodVar
  <2>1. OneLess(v) \in Tracked
    <3>1. v.borrow_count - 1 \in Nat
      BY <1>2, <1>7
    <3>2. v.state \in {"owned", "moved", "borrowed", "mut_borrowed"}
      BY <1>1 DEF Tracked
    <3> QED
      BY <1>1, <3>1, <3>2, Recounted DEF OneLess
  <2>2. /\ OneLess(v).state = (IF v.borrow_count = 1 THEN "owned" ELSE v.state)
        /\ ~OneLess(v).has_mut_borrow
        /\ OneLess(v).borrow_count = v.borrow_count - 1
    BY <1>1, <1>7 DEF Tracked, OneLess
  <2>3. v.borrow_count = 1 \/ v.borrow_count - 1 > 0
    BY <1>2, <1>7
  <2> QED
    BY <1>1, <1>7, <2>1, <2>2, <2>3 DEF GoodVar, Consistent
<1> QED
  BY <1>3, <1>4, <1>5, <1>6, <1>7

LEMMA PopReleaseGood ==
  ASSUME NEW v \in GoodVar
  PROVE  PopRelease(v) \in GoodVar
  BY VariableSteps DEF PopRelease

\* One variable of a context replaced.
LEMMA Update ==
  ASSUME NEW c \in GoodCtx, NEW i \in 1 .. Len(c.vars), NEW v \in GoodVar
  PROVE  [c EXCEPT !.vars[i] = v] \in GoodCtx
  BY DEF GoodCtx

LEMMA At ==
  ASSUME NEW c \in GoodCtx, NEW i \in 1 .. Len(c.vars)
  PROVE  c.vars[i] \in GoodVar
  BY DEF GoodCtx

-----------------------------------------------------------------------------
\* The operations on a context.

LEMMA ReportGood ==
  ASSUME NEW c \in GoodCtx
  PROVE  own_report(c) \in GoodCtx
  BY DEF own_report, GoodCtx

LEMMA UseGood ==
  ASSUME NEW c \in GoodCtx, NEW n
  PROVE  own_check_use(c, n) \in GoodCtx
  BY ReportGood DEF own_check_use

LEMMA MoveGood ==
  ASSUME NEW c \in GoodCtx, NEW n
  PROVE  own_mark_move(c, n) \in GoodCtx
<1> DEFINE i == own_find(c, n)
           v == [c.vars[i] EXCEPT !.state = "moved"]
<1>1. CASE i = 0 \/ c.vars[i].is_copy \/ c.vars[i].state # "owned"
            \/ c.vars[i].borrow_count > 0 \/ c.vars[i].has_mut_borrow
  BY <1>1, ReportGood DEF own_mark_move
<1>2. CASE ~(i = 0 \/ c.vars[i].is_copy \/ c.vars[i].state # "owned"
             \/ c.vars[i].borrow_count > 0 \/ c.vars[i].has_mut_borrow)
  <2>1. i \in 1 .. Len(c.vars)
    BY <1>2, FindIndex DEF GoodCtx
  <2>2. v \in GoodVar
    BY <1>2, <2>1, At, VariableSteps
  <2>3. [c EXCEPT !.vars[i] = v] \in GoodCtx
    BY <2>1, <2>2, Update
  <2>4. own_mark_move(c, n) = [c EXCEPT !.vars[i].state = "moved"]
    BY <1>2 DEF own_mark_move
  <2>5. [c EXCEPT !.vars[i].state = "moved"] = [c EXCEPT !.vars[i] = v]
    OBVIOUS
  <2> QED
    BY <2>3, <2>4, <2>5
<1> QED
  BY <1>1, <1>2

LEMMA BorrowGood ==
  ASSUME NEW c \in GoodCtx, NEW n, NEW mut \in BOOLEAN
  PROVE  own_process_borrow(c, n, mut) \in GoodCtx
<1> DEFINE i == own_find(c, n)
           v == IF mut THEN BorrowedMut(c.vars[i]) ELSE Borrowed(c.vars[i])
           refused == c.vars[i].state = "moved" \/ (mut /\ c.vars[i].borrow_count > 0)
                      \/ c.vars[i].has_mut_borrow
<1>1. CASE i = 0 \/ refused
  BY <1>1, ReportGood DEF own_process_borrow
<1>2. CASE i # 0 /\ ~refused
  <2>1. i \in 1 .. Len(c.vars)
    BY <1>2, FindIndex DEF GoodCtx
  <2>2. c.vars[i] \in GoodVar
    BY <2>1, At
  <2>3. mut => c.vars[i].borrow_count = 0
    BY <1>2, <2>2 DEF GoodVar, Tracked
  <2>4. v \in GoodVar
    BY <1>2, <2>2, <2>3, VariableSteps
  <2>5. own_process_borrow(c, n, mut) = [c EXCEPT !.vars[i] = v]
    BY <1>2 DEF own_process_borrow
  <2> QED
    BY <2>1, <2>4, <2>5, Update
<1> QED
  BY <1>1, <1>2

LEMMA CheckArgGood ==
  ASSUME NEW c \in GoodCtx, NEW a \in Arg
  PROVE  CheckArg(c, a) \in GoodCtx
<1>1. CASE a.how = "value"
  BY <1>1, MoveGood DEF CheckArg
<1>2. CASE a.how \in {"ref", "mut"}
  BY <1>2, BorrowGood DEF CheckArg
<1>3. CASE a.how = "builder"
  BY <1>3, UseGood DEF CheckArg
<1>4. CASE a.how = "expr"
  BY <1>4 DEF CheckArg
<1> QED
  BY <1>1, <1>2, <1>3, <1>4 DEF Arg

LEMMA ReleaseArgGood ==
  ASSUME NEW c \in GoodCtx, NEW a \in Arg
  PROVE  ReleaseArg(c, a) \in GoodCtx
<1> DEFINE i == own_find(c, a.name)
<1>1. CASE i = 0
  BY <1>1 DEF ReleaseArg
<1>2. CASE i # 0
  <2>1. i \in 1 .. Len(c.vars) /\ c.vars[i] \in GoodVar
    BY <1>2, FindIndex, At DEF GoodCtx
  <2>2. c.vars[i].has_mut_borrow => [c EXCEPT !.vars[i] = Owned(c.vars[i])] \in GoodCtx
    BY <2>1, VariableSteps, Update
  <2>3. c.vars[i].borrow_count > 0 => [c EXCEPT !.vars[i] = OneLess(c.vars[i])] \in GoodCtx
    BY <2>1, VariableSteps, Update
  <2> QED
    BY <1>2, <2>2, <2>3 DEF ReleaseArg
<1> QED
  BY <1>1, <1>2

LEMMA CallGood ==
  ASSUME NEW c \in GoodCtx, NEW a \in Arg, NEW b \in Arg
  PROVE  own_check_call(c, a, b) \in GoodCtx
<1>1. CheckArg(CheckArg(c, a), b) \in GoodCtx
  BY CheckArgGood
<1> QED
  BY <1>1, ReleaseArgGood DEF own_check_call

LEMMA MethodArgGood ==
  ASSUME NEW c \in GoodCtx, NEW a \in Arg
  PROVE  CheckMethodArg(c, a) \in GoodCtx
  BY MoveGood, UseGood, CheckArgGood DEF CheckMethodArg

LEMMA PopGood ==
  ASSUME NEW c \in GoodCtx, NEW depth
  PROVE  own_pop_scope(c, depth) \in GoodCtx
<1> DEFINE S == {i \in 1 .. Len(c.vars) : c.vars[i].scope_depth < depth}
<1>1. Len(c.vars) \in Nat
  BY DEF GoodCtx
<1>2. Outside(c, depth) \in 0 .. Len(c.vars)
  <2>1. IsFiniteSet(1 .. Len(c.vars)) /\ Cardinality(1 .. Len(c.vars)) = Len(c.vars)
    BY <1>1, FS_Interval
  <2>2. S \in SUBSET (1 .. Len(c.vars))
    OBVIOUS
  <2>3. IsFiniteSet(S) /\ Cardinality(S) <= Len(c.vars)
    BY <2>1, <2>2, FS_Subset
  <2>4. Cardinality(S) \in Nat
    BY <2>3, FS_CardinalityType
  <2> QED
    BY <1>1, <2>3, <2>4 DEF Outside
<1>3. ASSUME NEW i \in 1 .. Outside(c, depth)
      PROVE  PopRelease(c.vars[i]) \in GoodVar
  BY <1>1, <1>2, At, PopReleaseGood
<1>4. [i \in 1 .. Outside(c, depth) |-> PopRelease(c.vars[i])] \in Seq(GoodVar)
  BY <1>2, <1>3
<1> QED
  BY <1>4 DEF own_pop_scope, GoodCtx

-----------------------------------------------------------------------------
\* The statements.

LEMMA RegisterGood ==
  ASSUME NEW c \in GoodCtx, NEW n \in Name, NEW copy \in BOOLEAN, scope_depth \in Int
  PROVE  own_register(c, n, copy) \in GoodCtx
<1> DEFINE v == [name |-> n, state |-> "owned", borrow_count |-> 0,
                 has_mut_borrow |-> FALSE, is_copy |-> copy, scope_depth |-> scope_depth]
<1>1. v \in GoodVar
  BY DEF GoodVar, Tracked, Consistent
<1>2. Append(c.vars, v) \in Seq(GoodVar)
  BY <1>1 DEF GoodCtx
<1> QED
  BY <1>2 DEF own_register, GoodCtx

LEMMA NoArgument == [how |-> "expr", name |-> "none"] \in Arg
  BY DEF Arg

\* A step that walks a statement within the open scopes.
LEMMA WalkedInv ==
  ASSUME OwnInv, NEW c \in GoodCtx, Walked(c)
  PROVE  OwnInv'
  BY DEF OwnInv, Walked

LEMMA ForLoopGood ==
  ASSUME OwnInv, NEW n \in Name, ForLoop(n)
  PROVE  OwnInv'
<1> DEFINE k == Len(ctx.vars) + 1
           r == own_register(ctx, n, TRUE)
           v == [r.vars[k] EXCEPT !.scope_depth = scope_depth + 1]
           inner == [r EXCEPT !.vars[k].scope_depth = scope_depth + 1]
<1>1. r \in GoodCtx
  BY RegisterGood DEF OwnInv
<1>2. k \in 1 .. Len(r.vars)
  BY DEF OwnInv, GoodCtx, own_register
<1>3. r.vars[k] \in GoodVar
  BY <1>1, <1>2, At
<1>4. scope_depth + 1 \in Int
  BY DEF OwnInv
<1>5. v \in GoodVar
  BY <1>3, <1>4 DEF GoodVar, Tracked, Consistent
<1>6. [r EXCEPT !.vars[k] = v] \in GoodCtx
  BY <1>1, <1>2, <1>5, Update
<1>7. inner \in GoodCtx
  BY <1>6
<1>8. own_pop_scope(inner, scope_depth + 1) \in GoodCtx
  BY <1>7, PopGood
<1>9. Walked(own_pop_scope(inner, scope_depth + 1))
  BY DEF ForLoop
<1> QED
  BY <1>8, <1>9, WalkedInv

LEMMA ScopeInv ==
  ASSUME OwnInv, CloseScope \/ \E n \in {1, 2} : OpenScope(n)
  PROVE  OwnInv'
<1>1. CASE \E n \in {1, 2} : OpenScope(n)
  <2> PICK n \in {1, 2} : OpenScope(n)
    BY <1>1
  <2> QED
    BY DEF OwnInv, OpenScope
<1>2. CASE CloseScope
  <2> DEFINE n == open[Len(open)]
  <2>1. open \in Seq({1, 2}) /\ open # << >>
    BY <1>2 DEF OwnInv, CloseScope
  <2>2. n \in {1, 2} /\ SubSeq(open, 1, Len(open) - 1) \in Seq({1, 2})
    BY <2>1
  <2>3. Popped(ctx, scope_depth, n) \in GoodCtx
    BY PopGood DEF OwnInv, Popped
  <2>4. /\ ctx' = Popped(ctx, scope_depth, n)
        /\ scope_depth' = scope_depth - n
        /\ open' = SubSeq(open, 1, Len(open) - 1)
    BY <1>2 DEF CloseScope
  <2> QED
    BY <2>2, <2>3, <2>4 DEF OwnInv
<1> QED
  BY <1>1, <1>2

LEMMA OwnStep == OwnInv /\ [Next]_vars => OwnInv'
<1> SUFFICES ASSUME OwnInv, [Next]_vars PROVE OwnInv'
  OBVIOUS
<1> DEFINE none == [how |-> "expr", name |-> "none"]
<1>0. ctx \in GoodCtx /\ scope_depth \in Int /\ none \in Arg
  BY NoArgument DEF OwnInv
<1>1. ASSUME NEW n \in Name, NEW copy \in BOOLEAN, Let(n, copy) PROVE OwnInv'
  BY <1>0, <1>1, RegisterGood, WalkedInv DEF Let
<1>2. ASSUME NEW n \in Name, NEW m \in Name, NEW copy \in BOOLEAN,
             LetVariable(n, m, copy)
      PROVE  OwnInv'
  <2>1. own_check_use(own_register(ctx, n, copy), m) \in GoodCtx
    BY <1>0, RegisterGood, UseGood
  <2> QED
    BY <1>2, <2>1, WalkedInv DEF LetVariable
<1>3. ASSUME NEW n \in Name, NEW a \in Arg, NEW copy \in BOOLEAN, LetCall(n, a, copy)
      PROVE  OwnInv'
  <2>1. own_register(ctx, n, copy) \in GoodCtx
    BY <1>0, RegisterGood
  <2>2. own_check_call(own_register(ctx, n, copy), a, none) \in GoodCtx
    BY <1>0, <2>1, CallGood
  <2> QED
    BY <1>3, <2>2, WalkedInv DEF LetCall
<1>4. ASSUME NEW n \in Name, NEW a \in Arg, NEW copy \in BOOLEAN, LetRef(n, a, copy)
      PROVE  OwnInv'
  <2>1. own_register(ctx, n, copy) \in GoodCtx
    BY <1>0, RegisterGood
  <2>2. own_process_borrow(own_register(ctx, n, copy), a.name, a.how = "mut") \in GoodCtx
    BY <2>1, BorrowGood
  <2> QED
    BY <1>4, <2>2, WalkedInv DEF LetRef
<1>5. ASSUME NEW n \in Name, Use(n) PROVE OwnInv'
  BY <1>0, <1>5, UseGood, WalkedInv DEF Use
<1>6. ASSUME NEW a \in Arg, NEW b \in Arg, Call(a, b) PROVE OwnInv'
  BY <1>0, <1>6, CallGood, WalkedInv DEF Call
<1>7. ASSUME NEW n \in Name, NEW a \in Arg, MethodCall(n, a) PROVE OwnInv'
  BY <1>0, <1>7, UseGood, MethodArgGood, WalkedInv DEF MethodCall
<1>8. CASE UNCHANGED vars
  BY <1>8 DEF OwnInv, vars
<1> QED
  BY <1>1, <1>2, <1>3, <1>4, <1>5, <1>6, <1>7, <1>8, ForLoopGood, ScopeInv DEF Next

\* The state of a variable in pass 9 of the type checker and its two borrow
\* counters agree after every statement of every program.
THEOREM StatesAgree == Spec => []BorrowState
<1>1. Init => OwnInv
  BY DEF Init, OwnInv, GoodCtx
<1>2. OwnInv => BorrowState
  BY At DEF OwnInv, BorrowState, GoodVar
<1> QED
  BY <1>1, <1>2, OwnStep, PTL DEF Spec

-----------------------------------------------------------------------------
(***************************************************************************)
(* What the checker knows of the program it accepts.  Mentions of names    *)
(* are resolved as the program means them.                                 *)
(***************************************************************************)

\* own_find returns the last variable of a name.
LEMMA FindIs ==
  ASSUME NEW c \in GoodCtx, NEW n
  PROVE  /\ own_find(c, n) \in 0 .. Len(c.vars) /\ Len(c.vars) \in Nat
         /\ own_find(c, n) = 0 => \A j \in 1 .. Len(c.vars) : c.vars[j].name # n
         /\ own_find(c, n) # 0 =>
              /\ c.vars[own_find(c, n)].name = n
              /\ \A j \in 1 .. Len(c.vars) : c.vars[j].name = n => j <= own_find(c, n)
<1> DEFINE found == {i \in 1 .. Len(c.vars) : c.vars[i].name = n}
<1>1. Len(c.vars) \in Nat
  BY DEF GoodCtx
<1>2. CASE found = {}
  BY <1>1, <1>2 DEF own_find
<1>3. CASE found # {}
  <2>1. \E i \in found : \A j \in found : i >= j
    BY <1>1, <1>3, LastIndex
  <2> DEFINE k == CHOOSE i \in found : \A j \in found : i >= j
  <2>2. k \in found /\ \A j \in found : k >= j
    BY <2>1
  <2>3. own_find(c, n) = k
    BY <1>3 DEF own_find
  <2> HIDE DEF k
  <2>4. k \in 1 .. Len(c.vars) /\ c.vars[k].name = n
    BY <2>2
  <2>5. \A j \in 1 .. Len(c.vars) : c.vars[j].name = n => j <= k
    BY <1>1, <2>2, <2>4
  <2> HIDE DEF found
  <2>6. QED BY <1>1, <2>3, <2>4, <2>5
<1>4. QED BY <1>2, <1>3

LEMMA FindUnique ==
  ASSUME NEW c \in GoodCtx, NEW n, NEW k \in 0 .. Len(c.vars),
         k = 0 => \A j \in 1 .. Len(c.vars) : c.vars[j].name # n,
         k # 0 => /\ c.vars[k].name = n
                  /\ \A j \in 1 .. Len(c.vars) : c.vars[j].name = n => j <= k
  PROVE  own_find(c, n) = k
<1> DEFINE i == own_find(c, n)
<1>1. /\ i \in 0 .. Len(c.vars) /\ Len(c.vars) \in Nat
      /\ i = 0 => \A j \in 1 .. Len(c.vars) : c.vars[j].name # n
      /\ i # 0 => /\ c.vars[i].name = n
                  /\ \A j \in 1 .. Len(c.vars) : c.vars[j].name = n => j <= i
  BY FindIs
<1> HIDE DEF i
<1>2. k = i
  <2>1. CASE k = 0
    BY <1>1, <2>1
  <2>2. CASE k # 0
    BY <1>1, <2>2
  <2>3. QED BY <2>1, <2>2
<1>3. QED BY <1>2 DEF i

\* The checker finds the variable the program means.
LEMMA MeaningFound ==
  ASSUME ctx \in GoodCtx, NEW n
  PROVE  Meaning(n) = own_find(ctx, n)
<1> DEFINE F == {i \in 1 .. Len(ctx.vars) : ctx.vars[i].name = n}
           m == CHOOSE x \in {0} \cup F : \A y \in {0} \cup F : x >= y
           i == own_find(ctx, n)
<1>1. i \in {0} \cup F /\ \A y \in {0} \cup F : i >= y
  BY FindIs
<1>2. m \in {0} \cup F /\ \A y \in {0} \cup F : m >= y
  BY <1>1
<1>3. {0} \cup F \subseteq Int
  BY DEF GoodCtx
<1>4. Meaning(n) = m
  BY DEF Meaning, Max
<1> HIDE DEF F, m, i
<1>5. m = i
  BY <1>1, <1>2, <1>3
<1>6. QED BY <1>4, <1>5 DEF i

\* A new variable of another name does not hide the variables of a name.
LEMMA FindRegistered ==
  ASSUME NEW c \in GoodCtx, scope_depth \in Int, NEW n \in Name, NEW m, n # m,
         NEW copy \in BOOLEAN
  PROVE  own_find(own_register(c, n, copy), m) = own_find(c, m)
<1> DEFINE d == own_register(c, n, copy)
           i == own_find(c, m)
<1>1. d \in GoodCtx
  BY RegisterGood
<1>2. /\ Len(d.vars) = Len(c.vars) + 1 /\ Len(c.vars) \in Nat
      /\ d.vars[Len(c.vars) + 1].name = n
      /\ \A j \in 1 .. Len(c.vars) : d.vars[j] = c.vars[j]
  BY DEF own_register, GoodCtx
<1>3. /\ i \in 0 .. Len(c.vars)
      /\ i = 0 => \A j \in 1 .. Len(c.vars) : c.vars[j].name # m
      /\ i # 0 => /\ c.vars[i].name = m
                  /\ \A j \in 1 .. Len(c.vars) : c.vars[j].name = m => j <= i
  BY FindIs
<1> HIDE DEF d, i
<1>4. /\ i \in 0 .. Len(d.vars)
      /\ i = 0 => \A j \in 1 .. Len(d.vars) : d.vars[j].name # m
      /\ i # 0 => /\ d.vars[i].name = m
                  /\ \A j \in 1 .. Len(d.vars) : d.vars[j].name = m => j <= i
  <2>1. \A j \in 1 .. Len(d.vars) : d.vars[j].name = m => j \in 1 .. Len(c.vars)
    BY <1>2
  <2>2. QED BY <1>2, <1>3, <2>1
<1>5. own_find(d, m) = i
  BY <1>1, <1>4, FindUnique
<1>6. QED BY <1>5 DEF d, i

-----------------------------------------------------------------------------
(***************************************************************************)
(* d is c after the checks of some expressions: the same variables, what   *)
(* was moved is moved, and a complaint stands.                             *)
(***************************************************************************)
After(c, d) ==
  /\ Len(d.vars) = Len(c.vars)
  /\ \A i \in 1 .. Len(c.vars) :
       /\ d.vars[i].name = c.vars[i].name
       /\ d.vars[i].is_copy = c.vars[i].is_copy
       /\ d.vars[i].scope_depth = c.vars[i].scope_depth
       /\ c.vars[i].state = "moved" => d.vars[i].state = "moved"
  /\ c.reported => d.reported

LEMMA AfterItself ==
  ASSUME NEW c
  PROVE  After(c, c)
  BY DEF After

LEMMA AfterAfter ==
  ASSUME NEW c, NEW d, NEW e, After(c, d), After(d, e)
  PROVE  After(c, e)
  BY DEF After

LEMMA FindAfter ==
  ASSUME NEW c, NEW d, After(c, d), NEW n
  PROVE  own_find(d, n) = own_find(c, n)
<1> DEFINE FC == {i \in 1 .. Len(c.vars) : c.vars[i].name = n}
           FD == {i \in 1 .. Len(d.vars) : d.vars[i].name = n}
<1>1. FD = FC
  BY DEF After
<1>2. /\ own_find(c, n) = IF FC = {} THEN 0 ELSE CHOOSE i \in FC : \A j \in FC : i >= j
      /\ own_find(d, n) = IF FD = {} THEN 0 ELSE CHOOSE i \in FD : \A j \in FD : i >= j
  BY DEF own_find
<1> HIDE DEF FC, FD
<1>3. QED BY <1>1, <1>2

LEMMA Updated ==
  ASSUME NEW c \in GoodCtx, NEW i \in 1 .. Len(c.vars), NEW v
  PROVE  LET d == [c EXCEPT !.vars[i] = v] IN
         /\ Len(d.vars) = Len(c.vars) /\ d.reported = c.reported
         /\ \A j \in 1 .. Len(c.vars) : d.vars[j] = IF j = i THEN v ELSE c.vars[j]
  BY DEF GoodCtx

LEMMA UpdateAfter ==
  ASSUME NEW c \in GoodCtx, NEW i \in 1 .. Len(c.vars), NEW v,
         v.name = c.vars[i].name, v.is_copy = c.vars[i].is_copy,
         v.scope_depth = c.vars[i].scope_depth,
         c.vars[i].state = "moved" => v.state = "moved"
  PROVE  After(c, [c EXCEPT !.vars[i] = v])
<1> DEFINE d == [c EXCEPT !.vars[i] = v]
<1>1. /\ Len(d.vars) = Len(c.vars) /\ d.reported = c.reported
      /\ \A j \in 1 .. Len(c.vars) : d.vars[j] = IF j = i THEN v ELSE c.vars[j]
  BY Updated
<1> HIDE DEF d
<1>2. After(c, d)
  BY <1>1 DEF After
<1>3. QED BY <1>2 DEF d

\* Borrowing and releasing keep the name, and what was not borrowed as it is.
LEMMA SameVariable ==
  ASSUME NEW v \in GoodVar
  PROVE  /\ \A u \in {BorrowedMut(v), Borrowed(v), Owned(v), OneLess(v),
                       [v EXCEPT !.state = "moved"]} :
              u.name = v.name /\ u.is_copy = v.is_copy /\ u.scope_depth = v.scope_depth
         /\ OneLess(v).state \in {"owned", v.state}
         /\ v.state = "moved" => v.borrow_count = 0 /\ ~v.has_mut_borrow
<1>1. v \in Tracked /\ Consistent(v)
  BY DEF GoodVar
<1>2. QED
  BY <1>1 DEF Tracked, BorrowedMut, Borrowed, Owned, OneLess, Consistent

LEMMA ReportAfter ==
  ASSUME NEW c \in GoodCtx
  PROVE  After(c, own_report(c)) /\ own_report(c).reported
  BY DEF own_report, GoodCtx, After

LEMMA UseAfter ==
  ASSUME NEW c \in GoodCtx, NEW n
  PROVE  /\ After(c, own_check_use(c, n))
         /\ ~own_check_use(c, n).reported =>
              /\ own_check_use(c, n) = c
              /\ own_find(c, n) # 0 => c.vars[own_find(c, n)].state # "moved"
  BY ReportAfter, AfterItself DEF own_check_use

LEMMA MoveAfter ==
  ASSUME NEW c \in GoodCtx, NEW n
  PROVE  /\ After(c, own_mark_move(c, n))
         /\ ~own_mark_move(c, n).reported =>
              LET i == own_find(c, n) IN
              \/ i = 0 \/ c.vars[i].is_copy
              \/ c.vars[i].state = "owned" /\ own_mark_move(c, n).vars[i].state = "moved"
<1> DEFINE i == own_find(c, n)
           v == [c.vars[i] EXCEPT !.state = "moved"]
<1>1. CASE i = 0 \/ c.vars[i].is_copy
  BY <1>1, AfterItself DEF own_mark_move
<1>2. CASE /\ ~(i = 0 \/ c.vars[i].is_copy)
           /\ c.vars[i].state # "owned" \/ c.vars[i].borrow_count > 0
              \/ c.vars[i].has_mut_borrow
  BY <1>2, ReportAfter DEF own_mark_move
<1>3. CASE ~(i = 0 \/ c.vars[i].is_copy \/ c.vars[i].state # "owned"
             \/ c.vars[i].borrow_count > 0 \/ c.vars[i].has_mut_borrow)
  <2>1. i \in 1 .. Len(c.vars) /\ c.vars[i] \in GoodVar
    BY <1>3, FindIndex, At DEF GoodCtx
  <2>2. own_mark_move(c, n) = [c EXCEPT !.vars[i] = v]
    BY <1>3 DEF own_mark_move
  <2>3. v.name = c.vars[i].name /\ v.is_copy = c.vars[i].is_copy
        /\ v.scope_depth = c.vars[i].scope_depth /\ v.state = "moved"
    BY <2>1 DEF GoodVar, Tracked
  <2> HIDE DEF v
  <2>4. After(c, [c EXCEPT !.vars[i] = v]) /\ [c EXCEPT !.vars[i] = v].vars[i] = v
    BY <2>1, <2>3, UpdateAfter, Updated
  <2>5. QED BY <1>3, <2>2, <2>3, <2>4
<1>4. QED BY <1>1, <1>2, <1>3

LEMMA BorrowAfter ==
  ASSUME NEW c \in GoodCtx, NEW n, NEW mut \in BOOLEAN
  PROVE  /\ After(c, own_process_borrow(c, n, mut))
         /\ ~own_process_borrow(c, n, mut).reported /\ own_find(c, n) # 0 =>
              c.vars[own_find(c, n)].state # "moved"
<1> DEFINE i == own_find(c, n)
           v == IF mut THEN BorrowedMut(c.vars[i]) ELSE Borrowed(c.vars[i])
           refused == c.vars[i].state = "moved" \/ (mut /\ c.vars[i].borrow_count > 0)
                      \/ c.vars[i].has_mut_borrow
<1>1. CASE i = 0
  BY <1>1, AfterItself DEF own_process_borrow
<1>2. CASE i # 0 /\ refused
  BY <1>2, ReportAfter DEF own_process_borrow
<1>3. CASE i # 0 /\ ~refused
  <2>1. i \in 1 .. Len(c.vars) /\ c.vars[i] \in GoodVar
    BY <1>3, FindIndex, At DEF GoodCtx
  <2>2. own_process_borrow(c, n, mut) = [c EXCEPT !.vars[i] = v]
    BY <1>3 DEF own_process_borrow
  <2>3. v.name = c.vars[i].name /\ v.is_copy = c.vars[i].is_copy
        /\ v.scope_depth = c.vars[i].scope_depth
    BY <2>1, SameVariable
  <2>4. c.vars[i].state # "moved"
    BY <1>3
  <2> HIDE DEF v
  <2>5. After(c, [c EXCEPT !.vars[i] = v])
    BY <2>1, <2>3, <2>4, UpdateAfter
  <2>6. QED BY <2>2, <2>4, <2>5
<1>4. QED BY <1>1, <1>2, <1>3

LEMMA ReleaseAfter ==
  ASSUME NEW c \in GoodCtx, NEW a
  PROVE  After(c, ReleaseArg(c, a)) /\ ReleaseArg(c, a).reported = c.reported
<1> DEFINE i == own_find(c, a.name)
<1>1. CASE ReleaseArg(c, a) = c
  BY <1>1, AfterItself
<1>2. ASSUME i # 0, c.vars[i].has_mut_borrow \/ c.vars[i].borrow_count > 0,
             NEW v \in {Owned(c.vars[i]), OneLess(c.vars[i])},
             ReleaseArg(c, a) = [c EXCEPT !.vars[i] = v]
      PROVE  After(c, ReleaseArg(c, a)) /\ ReleaseArg(c, a).reported = c.reported
  <2>1. i \in 1 .. Len(c.vars) /\ c.vars[i] \in GoodVar
    BY <1>2, FindIndex, At DEF GoodCtx
  <2>2. /\ v.name = c.vars[i].name /\ v.is_copy = c.vars[i].is_copy
        /\ v.scope_depth = c.vars[i].scope_depth
        /\ c.vars[i].state # "moved"
    <3>1. c.vars[i].borrow_count \in Nat
      BY <2>1 DEF GoodVar, Tracked
    <3>2. QED BY <1>2, <2>1, <3>1, SameVariable
  <2>3. QED BY <1>2, <2>1, <2>2, UpdateAfter, Updated
<1>3. QED BY <1>1, <1>2 DEF ReleaseArg

LEMMA CheckArgAfter ==
  ASSUME NEW c \in GoodCtx, NEW a \in Arg
  PROVE  After(c, CheckArg(c, a))
<1>1. CASE a.how = "value"
  BY <1>1, MoveAfter DEF CheckArg
<1>2. CASE a.how \in {"ref", "mut"}
  BY <1>2, BorrowAfter DEF CheckArg
<1>3. CASE a.how = "builder"
  BY <1>3, UseAfter DEF CheckArg
<1>4. CASE a.how = "expr"
  BY <1>4, AfterItself DEF CheckArg
<1>5. QED BY <1>1, <1>2, <1>3, <1>4 DEF Arg

-----------------------------------------------------------------------------
\* What an argument mentions and moves, as the checker sees it.
MentionsIn(c, a) == IF a.how = "expr" THEN {} ELSE {own_find(c, a.name)} \ {0}
MovesIn(c, a) ==
  IF a.how = "value" /\ own_find(c, a.name) # 0 /\ ~c.vars[own_find(c, a.name)].is_copy
  THEN {own_find(c, a.name)} ELSE {}

LEMMA MeaningsFound ==
  ASSUME ctx \in GoodCtx, NEW a
  PROVE  Mentions(a) = MentionsIn(ctx, a) /\ Moves(a) = MovesIn(ctx, a)
  BY MeaningFound DEF Mentions, Moves, MentionsIn, MovesIn

LEMMA MeaningsAfter ==
  ASSUME NEW c \in GoodCtx, NEW d, After(c, d), NEW a
  PROVE  MentionsIn(d, a) = MentionsIn(c, a) /\ MovesIn(d, a) = MovesIn(c, a)
<1>1. own_find(d, a.name) = own_find(c, a.name) /\ own_find(c, a.name) \in 0 .. Len(c.vars)
  BY FindAfter, FindIndex
<1>2. own_find(c, a.name) # 0 =>
        d.vars[own_find(c, a.name)].is_copy = c.vars[own_find(c, a.name)].is_copy
  BY <1>1 DEF After, GoodCtx
<1>3. QED BY <1>1, <1>2 DEF MentionsIn, MovesIn

\* The checker knows that the variables in M were moved.
KnowsMoved(c, M) ==
  \A i \in M : i \in 1 .. Len(c.vars) /\ c.vars[i].state = "moved" /\ ~c.vars[i].is_copy

LEMMA KnowsAfter ==
  ASSUME NEW c, NEW d, After(c, d), NEW M, KnowsMoved(c, M)
  PROVE  KnowsMoved(d, M)
  BY DEF After, KnowsMoved

\* An argument that passes the check mentions nothing that was moved, and what it
\* moves is known to be moved.
LEMMA ArgKnown ==
  ASSUME NEW c \in GoodCtx, NEW a \in Arg, NEW M, KnowsMoved(c, M),
         ~CheckArg(c, a).reported
  PROVE  /\ MentionsIn(c, a) \cap M = {}
         /\ KnowsMoved(CheckArg(c, a), M \cup MovesIn(c, a))
<1> DEFINE i == own_find(c, a.name)
           d == CheckArg(c, a)
<1>1. i \in 0 .. Len(c.vars) /\ Len(c.vars) \in Nat
  BY FindIs
<1>2. KnowsMoved(d, M) /\ After(c, d)
  BY CheckArgAfter, KnowsAfter
<1>3. CASE a.how = "value"
  <2>1. \/ i = 0 \/ c.vars[i].is_copy
        \/ c.vars[i].state = "owned" /\ d.vars[i].state = "moved"
    BY <1>3, MoveAfter DEF CheckArg
  <2>2. MentionsIn(c, a) \cap M = {}
    BY <2>1 DEF MentionsIn, KnowsMoved
  <2>3. ASSUME i # 0, ~c.vars[i].is_copy
        PROVE  i \in 1 .. Len(d.vars) /\ d.vars[i].state = "moved" /\ ~d.vars[i].is_copy
    BY <1>1, <1>2, <2>1, <2>3 DEF After
  <2> HIDE DEF d
  <2>4. KnowsMoved(d, M \cup MovesIn(c, a))
    BY <1>2, <2>3 DEF MovesIn, KnowsMoved
  <2>5. QED BY <2>2, <2>4 DEF d
<1>4. CASE a.how \in {"ref", "mut", "builder"}
  <2>1. i # 0 => c.vars[i].state # "moved"
    BY <1>4, BorrowAfter, UseAfter DEF CheckArg
  <2>2. QED BY <1>2, <1>4, <2>1 DEF MentionsIn, MovesIn, KnowsMoved
<1>5. CASE a.how = "expr"
  BY <1>2, <1>5 DEF MentionsIn, MovesIn
<1>6. QED BY <1>3, <1>4, <1>5 DEF Arg

LEMMA CallKnown ==
  ASSUME NEW c \in GoodCtx, NEW a \in Arg, NEW b \in Arg, NEW M, KnowsMoved(c, M),
         ~own_check_call(c, a, b).reported
  PROVE  /\ MentionsIn(c, a) \cap M = {}
         /\ MentionsIn(c, b) \cap (M \cup MovesIn(c, a)) = {}
         /\ KnowsMoved(own_check_call(c, a, b), (M \cup MovesIn(c, a)) \cup MovesIn(c, b))
<1> DEFINE d == CheckArg(c, a)
           e == CheckArg(d, b)
           f == ReleaseArg(e, a)
           g == ReleaseArg(f, b)
<1>1. d \in GoodCtx /\ e \in GoodCtx /\ f \in GoodCtx
  BY CheckArgGood, ReleaseArgGood
<1>2. After(c, d) /\ After(d, e) /\ After(e, f) /\ After(f, g)
  BY <1>1, CheckArgAfter, ReleaseAfter
<1>3. ~d.reported /\ ~e.reported
  BY <1>2 DEF After, own_check_call
<1>4. /\ MentionsIn(c, a) \cap M = {}
      /\ KnowsMoved(d, M \cup MovesIn(c, a))
  BY <1>3, ArgKnown
<1>5. /\ MentionsIn(d, b) \cap (M \cup MovesIn(c, a)) = {}
      /\ KnowsMoved(e, (M \cup MovesIn(c, a)) \cup MovesIn(d, b))
  BY <1>1, <1>3, <1>4, ArgKnown
<1>6. MentionsIn(d, b) = MentionsIn(c, b) /\ MovesIn(d, b) = MovesIn(c, b)
  BY <1>2, MeaningsAfter
<1>7. After(e, g)
  BY <1>2, AfterAfter
<1>8. KnowsMoved(g, (M \cup MovesIn(c, a)) \cup MovesIn(c, b))
  BY <1>5, <1>6, <1>7, KnowsAfter
<1>9. QED BY <1>4, <1>5, <1>6, <1>8 DEF own_check_call

LEMMA UseKnown ==
  ASSUME NEW c \in GoodCtx, NEW n, NEW M, KnowsMoved(c, M),
         ~own_check_use(c, n).reported
  PROVE  own_find(c, n) \notin M /\ own_check_use(c, n) = c
  BY UseAfter, FindIs DEF KnowsMoved

LEMMA MethodKnown ==
  ASSUME NEW c \in GoodCtx, NEW n, NEW a \in Arg, NEW M, KnowsMoved(c, M),
         ~CheckMethodArg(own_check_use(c, n), a).reported
  PROVE  /\ own_find(c, n) \notin M
         /\ MentionsIn(c, a) \cap M = {}
         /\ KnowsMoved(CheckMethodArg(own_check_use(c, n), a), M \cup MovesIn(c, a))
<1> DEFINE u == own_check_use(c, n)
           d == CheckArg(u, a)
           e == CheckMethodArg(u, a)
<1>1. u \in GoodCtx /\ d \in GoodCtx /\ After(c, u) /\ After(u, d)
  BY UseGood, CheckArgGood, UseAfter, CheckArgAfter
<1>2. After(d, e)
  <2>1. CASE a.how = "value"
    BY <1>1, <2>1, UseAfter DEF CheckMethodArg, CheckArg
  <2>2. CASE a.how # "value"
    BY <1>1, <2>2, CheckArgAfter DEF CheckMethodArg
  <2>3. QED BY <2>1, <2>2
<1>3. ~u.reported /\ ~d.reported
  BY <1>1, <1>2 DEF After
<1>4. u = c /\ own_find(c, n) \notin M
  BY <1>3, UseKnown
<1>5. MentionsIn(c, a) \cap M = {} /\ KnowsMoved(d, M \cup MovesIn(c, a))
  BY <1>3, <1>4, ArgKnown
<1>6. KnowsMoved(e, M \cup MovesIn(c, a))
  BY <1>2, <1>5, KnowsAfter
<1>7. QED BY <1>4, <1>5, <1>6

LEMMA RegisterKnown ==
  ASSUME NEW c \in GoodCtx, scope_depth \in Int, NEW n \in Name, NEW copy \in BOOLEAN,
         NEW M, KnowsMoved(c, M)
  PROVE  /\ KnowsMoved(own_register(c, n, copy), M)
         /\ own_register(c, n, copy).reported = c.reported
         /\ \A a \in Arg : n # a.name =>
              /\ MentionsIn(own_register(c, n, copy), a) = MentionsIn(c, a)
              /\ MovesIn(own_register(c, n, copy), a) = MovesIn(c, a)
<1> DEFINE d == own_register(c, n, copy)
<1>1. /\ Len(d.vars) = Len(c.vars) + 1 /\ Len(c.vars) \in Nat
      /\ \A j \in 1 .. Len(c.vars) : d.vars[j] = c.vars[j]
      /\ d.reported = c.reported
  BY DEF own_register, GoodCtx
<1>2. ASSUME NEW a \in Arg, n # a.name
      PROVE  /\ own_find(d, a.name) = own_find(c, a.name)
             /\ own_find(c, a.name) \in 0 .. Len(c.vars)
  BY <1>2, FindRegistered, FindIs
<1> HIDE DEF d
<1>3. KnowsMoved(d, M)
  BY <1>1 DEF KnowsMoved
<1>4. ASSUME NEW a \in Arg, n # a.name
      PROVE  MentionsIn(d, a) = MentionsIn(c, a) /\ MovesIn(d, a) = MovesIn(c, a)
  <2>1. own_find(d, a.name) = own_find(c, a.name) /\ own_find(c, a.name) \in 0 .. Len(c.vars)
    BY <1>2, <1>4
  <2>2. MentionsIn(d, a) = MentionsIn(c, a)
    BY <2>1, Zenon DEF MentionsIn
  <2>3. own_find(c, a.name) # 0 => d.vars[own_find(c, a.name)] = c.vars[own_find(c, a.name)]
    BY <1>1, <2>1
  <2>4. MovesIn(d, a) = MovesIn(c, a)
    BY <2>1, <2>3, Zenon DEF MovesIn
  <2>5. QED BY <2>2, <2>4
<1>5. QED BY <1>1, <1>3, <1>4 DEF d

-----------------------------------------------------------------------------
(***************************************************************************)
(* The variables lie in the order of their scopes, so that the number of   *)
(* those declared outside a scope, to which own_pop_scope cuts the list,   *)
(* is the place where they end.                                            *)
(***************************************************************************)
Sorted(c, D) ==
  /\ \A i \in 1 .. Len(c.vars) : c.vars[i].scope_depth <= D
  /\ \A i, j \in 1 .. Len(c.vars) :
       i <= j => c.vars[i].scope_depth <= c.vars[j].scope_depth

LEMMA DepthType ==
  ASSUME NEW c \in GoodCtx, NEW i \in 1 .. Len(c.vars)
  PROVE  c.vars[i].scope_depth \in Int /\ Len(c.vars) \in Nat
<1>1. c.vars[i] \in Tracked
  BY At DEF GoodVar
<1>2. QED BY <1>1 DEF Tracked, GoodCtx

LEMMA PopReleaseKeeps ==
  ASSUME NEW v \in GoodVar
  PROVE  LET u == PopRelease(v) IN
         /\ u.name = v.name /\ u.is_copy = v.is_copy /\ u.scope_depth = v.scope_depth
         /\ v.state = "moved" => u.state = "moved"
  BY SameVariable DEF PopRelease

LEMMA OutsideBounds ==
  ASSUME NEW c \in GoodCtx, NEW depth
  PROVE  /\ Outside(c, depth) \in 0 .. Len(c.vars) /\ Len(c.vars) \in Nat
         /\ \A k \in 0 .. Len(c.vars) :
              /\ (\A i \in 1 .. Len(c.vars) : c.vars[i].scope_depth < depth => i <= k)
                   => Outside(c, depth) <= k
              /\ (\A i \in 1 .. k : c.vars[i].scope_depth < depth) => k <= Outside(c, depth)
<1> DEFINE S == {i \in 1 .. Len(c.vars) : c.vars[i].scope_depth < depth}
<1>1. Len(c.vars) \in Nat
  BY DEF GoodCtx
<1>2. ASSUME NEW k \in 0 .. Len(c.vars)
      PROVE  IsFiniteSet(1 .. k) /\ Cardinality(1 .. k) = k
  BY <1>1, <1>2, FS_Interval
<1>3. S \subseteq 1 .. Len(c.vars) /\ Len(c.vars) \in 0 .. Len(c.vars)
  BY <1>1
<1>4. IsFiniteSet(S) /\ Cardinality(S) \in Nat /\ Cardinality(S) <= Len(c.vars)
  BY <1>2, <1>3, FS_Subset, FS_CardinalityType
<1>5. ASSUME NEW k \in 0 .. Len(c.vars),
             \A i \in 1 .. Len(c.vars) : c.vars[i].scope_depth < depth => i <= k
      PROVE  Cardinality(S) <= k
  <2>1. S \subseteq 1 .. k
    BY <1>5
  <2>2. QED BY <1>2, <1>5, <2>1, FS_Subset
<1>6. ASSUME NEW k \in 0 .. Len(c.vars), \A i \in 1 .. k : c.vars[i].scope_depth < depth
      PROVE  k <= Cardinality(S)
  <2>1. 1 .. k \subseteq S
    BY <1>1, <1>6
  <2> HIDE DEF S
  <2>2. Cardinality(1 .. k) <= Cardinality(S)
    BY <1>4, <2>1, FS_Subset
  <2>3. QED BY <1>2, <2>2
<1>7. Outside(c, depth) = Cardinality(S)
  BY DEF Outside
<1> HIDE DEF S
<1>8. QED BY <1>1, <1>4, <1>5, <1>6, <1>7

LEMMA PopIs ==
  ASSUME NEW c \in GoodCtx, NEW depth
  PROVE  LET d == own_pop_scope(c, depth) IN
         /\ d.reported = c.reported
         /\ Len(d.vars) = Outside(c, depth)
         /\ \A i \in 1 .. Len(d.vars) : d.vars[i] = PopRelease(c.vars[i])
<1> DEFINE f == [i \in 1 .. Outside(c, depth) |-> PopRelease(c.vars[i])]
<1>1. Outside(c, depth) \in Nat
  BY OutsideBounds
<1>2. own_pop_scope(c, depth).vars = f /\ own_pop_scope(c, depth).reported = c.reported
  BY DEF own_pop_scope, GoodCtx
<1>3. Len(f) = Outside(c, depth)
  BY <1>1
<1>4. QED BY <1>2, <1>3

\* Leaving a scope forgets nothing of the variables that stay.
LEMMA PopKnown ==
  ASSUME NEW c \in GoodCtx, NEW depth, NEW M, KnowsMoved(c, M)
  PROVE  LET d == own_pop_scope(c, depth) IN
         KnowsMoved(d, M \cap 1 .. Len(d.vars))
<1> DEFINE d == own_pop_scope(c, depth)
<1>1. /\ Len(d.vars) \in 0 .. Len(c.vars) /\ Len(c.vars) \in Nat
      /\ \A i \in 1 .. Len(d.vars) : d.vars[i] = PopRelease(c.vars[i])
  BY PopIs, OutsideBounds
<1> HIDE DEF d
<1>2. ASSUME NEW i \in M \cap 1 .. Len(d.vars)
      PROVE  d.vars[i].state = "moved" /\ ~d.vars[i].is_copy
  <2>1. i \in 1 .. Len(c.vars) /\ c.vars[i].state = "moved" /\ ~c.vars[i].is_copy
    BY <1>2 DEF KnowsMoved
  <2>2. c.vars[i] \in GoodVar
    BY <2>1, At
  <2>3. QED BY <1>1, <1>2, <2>1, <2>2, PopReleaseKeeps
<1>3. KnowsMoved(d, M \cap 1 .. Len(d.vars))
  BY <1>2 DEF KnowsMoved
<1>4. QED BY <1>3 DEF d

\* The variables of the scope that is left go, and no others.
LEMMA PopSorted ==
  ASSUME NEW c \in GoodCtx, NEW D \in Int, Sorted(c, D)
  PROVE  Sorted(own_pop_scope(c, D), D - 1)
<1> DEFINE d == own_pop_scope(c, D)
<1>1. /\ Len(d.vars) \in 0 .. Len(c.vars) /\ Len(c.vars) \in Nat
      /\ Len(d.vars) = Outside(c, D)
      /\ \A i \in 1 .. Len(d.vars) : d.vars[i] = PopRelease(c.vars[i])
  BY PopIs, OutsideBounds
<1> HIDE DEF d
<1>2. ASSUME NEW i \in 1 .. Len(d.vars)
      PROVE  i \in 1 .. Len(c.vars) /\ d.vars[i].scope_depth = c.vars[i].scope_depth
             /\ c.vars[i].scope_depth \in Int
  BY <1>1, <1>2, At, PopReleaseKeeps, DepthType
<1>3. ASSUME NEW i \in 1 .. Len(d.vars), c.vars[i].scope_depth >= D PROVE FALSE
  <2>1. i \in 1 .. Len(c.vars) /\ i - 1 \in 0 .. Len(c.vars)
    BY <1>1, <1>3
  <2>2. ASSUME NEW j \in 1 .. Len(c.vars), c.vars[j].scope_depth < D PROVE j <= i - 1
    <3>1. ~(i <= j)
      BY <1>3, <2>1, <2>2, DepthType DEF Sorted
    <3>2. QED BY <1>1, <2>1, <3>1
  <2>3. Outside(c, D) <= i - 1
    BY <2>1, <2>2, OutsideBounds
  <2>4. QED BY <1>1, <1>3, <2>3
<1>4. \A i \in 1 .. Len(d.vars) : d.vars[i].scope_depth <= D - 1
  BY <1>2, <1>3
<1>5. \A i, j \in 1 .. Len(d.vars) : i <= j => d.vars[i].scope_depth <= d.vars[j].scope_depth
  BY <1>2 DEF Sorted
<1>6. Sorted(d, D - 1)
  BY <1>4, <1>5 DEF Sorted
<1>7. QED BY <1>6 DEF d

LEMMA AfterSorted ==
  ASSUME NEW c, NEW d, After(c, d), NEW D, Sorted(c, D)
  PROVE  Sorted(d, D)
  BY DEF After, Sorted

LEMMA RegisterSorted ==
  ASSUME NEW c \in GoodCtx, scope_depth \in Int, NEW n \in Name, NEW copy \in BOOLEAN,
         Sorted(c, scope_depth)
  PROVE  Sorted(own_register(c, n, copy), scope_depth)
<1> DEFINE d == own_register(c, n, copy)
<1>1. /\ Len(d.vars) = Len(c.vars) + 1 /\ Len(c.vars) \in Nat
      /\ \A j \in 1 .. Len(c.vars) : d.vars[j] = c.vars[j]
      /\ d.vars[Len(c.vars) + 1].scope_depth = scope_depth
  BY DEF own_register, GoodCtx
<1> HIDE DEF d
<1>2. ASSUME NEW i \in 1 .. Len(d.vars)
      PROVE  d.vars[i].scope_depth <= scope_depth
  <2>1. CASE i = Len(c.vars) + 1
    BY <1>1, <2>1
  <2>2. CASE i # Len(c.vars) + 1
    <3>1. i \in 1 .. Len(c.vars)
      BY <1>1, <1>2, <2>2
    <3>2. QED BY <1>1, <3>1 DEF Sorted
  <2>3. QED BY <2>1, <2>2
<1>3. ASSUME NEW i \in 1 .. Len(d.vars), NEW j \in 1 .. Len(d.vars), i <= j
      PROVE  d.vars[i].scope_depth <= d.vars[j].scope_depth
  <2>1. CASE j = Len(c.vars) + 1
    BY <1>1, <1>2, <2>1
  <2>2. CASE j # Len(c.vars) + 1
    <3>1. i \in 1 .. Len(c.vars) /\ j \in 1 .. Len(c.vars)
      BY <1>1, <1>3, <2>2
    <3>2. QED BY <1>1, <1>3, <3>1 DEF Sorted
  <2>3. QED BY <2>1, <2>2
<1>4. Sorted(d, scope_depth)
  BY <1>2, <1>3 DEF Sorted
<1>5. QED BY <1>4 DEF d

-----------------------------------------------------------------------------
\* While the checker has not complained, the program has mentioned nothing that
\* it moved, and the checker knows what was moved.
MovedInv ==
  /\ OwnInv
  /\ Sorted(ctx, scope_depth)
  /\ ~ctx.reported => ~misused /\ KnowsMoved(ctx, moved)

\* A statement within the open scopes.
LEMMA WalkedMoved ==
  ASSUME MovedInv, NEW c \in GoodCtx, Walked(c), Sorted(c, scope_depth),
         ~c.reported => ~misused' /\ KnowsMoved(c, moved')
  PROVE  MovedInv'
<1>1. OwnInv'
  BY WalkedInv DEF MovedInv
<1>2. ctx' = c /\ scope_depth' = scope_depth
  BY DEF Walked
<1>3. Sorted(ctx, scope_depth)'
  BY <1>2
<1>4. (~ctx.reported => ~misused /\ KnowsMoved(ctx, moved))'
  BY <1>2
<1>5. QED BY <1>1, <1>3, <1>4 DEF MovedInv

LEMMA ReadIs ==
  ASSUME NEW n \in Name
  PROVE  /\ Read(n) \in Arg /\ Read(n).name = n
         /\ \A c : CheckArg(c, Read(n)) = own_check_use(c, n) /\ MovesIn(c, Read(n)) = {}
  BY DEF Read, Arg, CheckArg, MovesIn

LEMMA CallAfter ==
  ASSUME NEW c \in GoodCtx, NEW a \in Arg, NEW b \in Arg
  PROVE  After(c, own_check_call(c, a, b))
<1> DEFINE d == CheckArg(c, a)
           e == CheckArg(d, b)
           f == ReleaseArg(e, a)
           g == ReleaseArg(f, b)
<1>1. d \in GoodCtx /\ e \in GoodCtx /\ f \in GoodCtx
  BY CheckArgGood, ReleaseArgGood
<1>2. After(c, d) /\ After(d, e) /\ After(e, f) /\ After(f, g)
  BY <1>1, CheckArgAfter, ReleaseAfter
<1>3. g = own_check_call(c, a, b)
  BY DEF own_check_call
<1> HIDE DEF d, e, f, g
<1>4. QED BY <1>2, <1>3, AfterAfter

LEMMA MethodAfter ==
  ASSUME NEW c \in GoodCtx, NEW a \in Arg
  PROVE  After(c, CheckMethodArg(c, a))
<1>1. CASE a.how = "value"
  <2>1. own_mark_move(c, a.name) \in GoodCtx
    BY MoveGood
  <2>2. QED BY <1>1, <2>1, MoveAfter, UseAfter, AfterAfter DEF CheckMethodArg
<1>2. CASE a.how # "value"
  <2>1. CheckArg(c, a) \in GoodCtx
    BY CheckArgGood
  <2>2. QED BY <1>2, <2>1, CheckArgAfter, AfterAfter DEF CheckMethodArg
<1>3. QED BY <1>1, <1>2

\* An expression read or passed after a new variable of another name was declared.
LEMMA FreshArg ==
  ASSUME MovedInv, NEW n \in Name, NEW copy \in BOOLEAN, NEW a \in Arg, n # a.name,
         ~CheckArg(own_register(ctx, n, copy), a).reported
  PROVE  /\ ~misused /\ Mentions(a) \cap moved = {}
         /\ KnowsMoved(CheckArg(own_register(ctx, n, copy), a), moved \cup Moves(a))
<1> DEFINE r == own_register(ctx, n, copy)
<1>1. ctx \in GoodCtx /\ r \in GoodCtx /\ scope_depth \in Int
  BY RegisterGood DEF MovedInv, OwnInv
<1>2. ~r.reported
  BY <1>1, CheckArgAfter DEF After
<1>3. r.reported = ctx.reported
  BY DEF own_register, GoodCtx
<1>4. ~misused /\ KnowsMoved(ctx, moved)
  BY <1>2, <1>3 DEF MovedInv
<1>5. /\ KnowsMoved(r, moved)
      /\ MentionsIn(r, a) = Mentions(a) /\ MovesIn(r, a) = Moves(a)
  BY <1>1, <1>4, RegisterKnown, MeaningsFound
<1> HIDE DEF r
<1>6. MentionsIn(r, a) \cap moved = {} /\ KnowsMoved(CheckArg(r, a), moved \cup MovesIn(r, a))
  BY <1>1, <1>5, ArgKnown DEF r
<1>7. QED BY <1>4, <1>5, <1>6 DEF r

\* The declarations.
LEMMA DeclareMoved ==
  ASSUME MovedInv, ~SelfReference, NEW n \in Name, NEW copy \in BOOLEAN
  PROVE  /\ Let(n, copy) => MovedInv'
         /\ \A m \in Name : LetVariable(n, m, copy) => MovedInv'
         /\ \A a \in Arg : LetCall(n, a, copy) \/ LetRef(n, a, copy) => MovedInv'
<1> DEFINE r == own_register(ctx, n, copy)
           none == [how |-> "expr", name |-> "none"]
<1>1. ctx \in GoodCtx /\ r \in GoodCtx /\ scope_depth \in Int /\ Sorted(r, scope_depth)
  BY RegisterGood, RegisterSorted DEF MovedInv, OwnInv
<1>2. ASSUME Let(n, copy) PROVE MovedInv'
  <2>1. r.reported = ctx.reported
    BY DEF own_register, GoodCtx
  <2>2. misused' = misused /\ moved' = moved /\ Walked(r)
    BY <1>2 DEF Let, program
  <2>3. ~r.reported => ~misused /\ KnowsMoved(r, moved)
    BY <1>1, <2>1, RegisterKnown DEF MovedInv
  <2> HIDE DEF r
  <2>4. QED BY <1>1, <2>2, <2>3, WalkedMoved
<1>3. ASSUME NEW a \in Arg, n # a.name,
             ~CheckArg(r, a).reported
      PROVE  /\ ~misused /\ Mentions(a) \cap moved = {}
             /\ KnowsMoved(CheckArg(r, a), moved \cup Moves(a))
  BY <1>3, FreshArg
<1> HIDE DEF r
<1>4. ASSUME NEW m \in Name, LetVariable(n, m, copy) PROVE MovedInv'
  <2> DEFINE c == own_check_use(r, m)
  <2>1. /\ Read(m) \in Arg /\ Read(m).name = m
        /\ CheckArg(r, Read(m)) = c /\ Moves(Read(m)) = {}
    BY <1>1, ReadIs, MeaningsFound
  <2>2. /\ n # m /\ Walked(c) /\ moved' = moved
        /\ misused' = (misused \/ Mentions(Read(m)) \cap moved # {})
    BY <1>4 DEF LetVariable, Uses, r
  <2>3. c \in GoodCtx /\ Sorted(c, scope_depth)
    BY <1>1, UseGood, UseAfter, AfterSorted
  <2> HIDE DEF c
  <2>4. ~c.reported => ~misused' /\ KnowsMoved(c, moved')
    BY <1>3, <2>1, <2>2
  <2>5. QED BY <2>2, <2>3, <2>4, WalkedMoved
<1>5. ASSUME NEW a \in Arg, LetCall(n, a, copy) PROVE MovedInv'
  <2> DEFINE d == CheckArg(r, a)
             c == own_check_call(r, a, none)
  <2>1. /\ n # a.name /\ Walked(c)
        /\ misused' = (misused \/ Mentions(a) \cap moved # {}
                               \/ Mentions(none) \cap (moved \cup Moves(a)) # {})
        /\ moved' = moved \cup Moves(a) \cup Moves(none)
    BY <1>5 DEF LetCall, Passes, r
  <2>2. Mentions(none) = {} /\ Moves(none) = {} /\ none \in Arg
    BY NoArgument DEF Mentions, Moves
  <2>3. c \in GoodCtx /\ d \in GoodCtx /\ Sorted(c, scope_depth)
    BY <1>1, <2>2, CallGood, CheckArgGood, CallAfter, AfterSorted
  <2>4. After(d, c)
    <3>1. CheckArg(d, none) = d
      BY DEF CheckArg
    <3>2. After(d, ReleaseArg(d, a)) /\ ReleaseArg(d, a) \in GoodCtx
      BY <2>3, ReleaseAfter, ReleaseArgGood
    <3>3. c = ReleaseArg(ReleaseArg(d, a), none)
      BY <3>1 DEF own_check_call
    <3> HIDE DEF c, d
    <3>4. QED BY <3>2, <3>3, ReleaseAfter, AfterAfter
  <2> HIDE DEF c, none
  <2>5. ~c.reported => ~misused' /\ KnowsMoved(c, moved')
    <3>1. HAVE ~c.reported
    <3>2. ~d.reported
      BY <2>4, <3>1 DEF After
    <3>3. ~misused /\ Mentions(a) \cap moved = {} /\ KnowsMoved(d, moved \cup Moves(a))
      BY <1>3, <2>1, <3>2
    <3> HIDE DEF d
    <3>4. KnowsMoved(c, moved \cup Moves(a))
      BY <2>4, <3>3, KnowsAfter
    <3>5. QED BY <2>1, <2>2, <3>3, <3>4
  <2>6. QED BY <2>1, <2>3, <2>5, WalkedMoved
<1>6. ASSUME NEW a \in Arg, LetRef(n, a, copy) PROVE MovedInv'
  <2> DEFINE c == CheckArg(r, a)
  <2>1. /\ n # a.name /\ a.how \in {"ref", "mut"} /\ moved' = moved
        /\ misused' = (misused \/ Mentions(a) \cap moved # {})
        /\ Walked(own_process_borrow(r, a.name, a.how = "mut"))
    BY <1>6 DEF LetRef, r
  <2>2. c = own_process_borrow(r, a.name, a.how = "mut") /\ Moves(a) = {}
    BY <2>1 DEF CheckArg, Moves
  <2>3. c \in GoodCtx /\ Sorted(c, scope_depth)
    BY <1>1, CheckArgGood, CheckArgAfter, AfterSorted
  <2> HIDE DEF c
  <2>4. ~c.reported => ~misused' /\ KnowsMoved(c, moved')
    BY <1>3, <2>1, <2>2 DEF c
  <2>5. QED BY <2>1, <2>2, <2>3, <2>4, WalkedMoved
<1>7. QED BY <1>2, <1>4, <1>5, <1>6

\* A use, a call and a method call.
LEMMA MentionMoved ==
  ASSUME MovedInv
  PROVE  /\ \A n \in Name : Use(n) => MovedInv'
         /\ \A a, b \in Arg : Call(a, b) => MovedInv'
         /\ \A n \in Name, a \in Arg : MethodCall(n, a) => MovedInv'
<1>1. ctx \in GoodCtx /\ Sorted(ctx, scope_depth)
  BY DEF MovedInv, OwnInv
<1>2. ASSUME NEW n \in Name, Use(n) PROVE MovedInv'
  <2> DEFINE c == own_check_use(ctx, n)
  <2>1. /\ Walked(c) /\ moved' = moved
        /\ misused' = (misused \/ Mentions(Read(n)) \cap moved # {})
    BY <1>2 DEF Use, Uses
  <2>2. c \in GoodCtx /\ Sorted(c, scope_depth)
    BY <1>1, UseGood, UseAfter, AfterSorted
  <2>3. Mentions(Read(n)) \subseteq {own_find(ctx, n)}
    BY <1>1, MeaningFound DEF Mentions, Read
  <2>4. ~c.reported => ~misused' /\ KnowsMoved(c, moved')
    <3>1. HAVE ~c.reported
    <3>2. c = ctx
      BY <1>1, <3>1, UseAfter
    <3>3. ~misused /\ KnowsMoved(ctx, moved)
      BY <3>1, <3>2 DEF MovedInv
    <3>4. own_find(ctx, n) \notin moved
      BY <1>1, <3>1, <3>3, UseKnown
    <3>5. QED BY <2>1, <2>3, <3>2, <3>3, <3>4
  <2> HIDE DEF c
  <2>5. QED BY <2>1, <2>2, <2>4, WalkedMoved
<1>3. ASSUME NEW a \in Arg, NEW b \in Arg, Call(a, b) PROVE MovedInv'
  <2> DEFINE c == own_check_call(ctx, a, b)
  <2>1. /\ Walked(c)
        /\ misused' = (misused \/ Mentions(a) \cap moved # {}
                               \/ Mentions(b) \cap (moved \cup Moves(a)) # {})
        /\ moved' = moved \cup Moves(a) \cup Moves(b)
    BY <1>3 DEF Call, Passes
  <2>2. c \in GoodCtx /\ Sorted(c, scope_depth) /\ After(ctx, c)
    BY <1>1, CallGood, CallAfter, AfterSorted
  <2>3. /\ Mentions(a) = MentionsIn(ctx, a) /\ Moves(a) = MovesIn(ctx, a)
        /\ Mentions(b) = MentionsIn(ctx, b) /\ Moves(b) = MovesIn(ctx, b)
    BY <1>1, MeaningsFound
  <2>4. ~c.reported => ~misused' /\ KnowsMoved(c, moved')
    <3>1. HAVE ~c.reported
    <3>2. ~misused /\ KnowsMoved(ctx, moved)
      BY <2>2, <3>1 DEF MovedInv, After
    <3>3. /\ MentionsIn(ctx, a) \cap moved = {}
          /\ MentionsIn(ctx, b) \cap (moved \cup MovesIn(ctx, a)) = {}
          /\ KnowsMoved(c, (moved \cup MovesIn(ctx, a)) \cup MovesIn(ctx, b))
      BY <1>1, <3>1, <3>2, CallKnown
    <3> HIDE DEF c
    <3>4. QED BY <2>1, <2>3, <3>2, <3>3
  <2> HIDE DEF c
  <2>5. QED BY <2>1, <2>2, <2>4, WalkedMoved
<1>4. ASSUME NEW n \in Name, NEW a \in Arg, MethodCall(n, a) PROVE MovedInv'
  <2> DEFINE u == own_check_use(ctx, n)
             c == CheckMethodArg(u, a)
  <2>1. /\ Walked(c)
        /\ misused' = (misused \/ Mentions(Read(n)) \cap moved # {}
                               \/ Mentions(a) \cap (moved \cup Moves(Read(n))) # {})
        /\ moved' = moved \cup Moves(Read(n)) \cup Moves(a)
    BY <1>4 DEF MethodCall, Passes
  <2>2. u \in GoodCtx /\ c \in GoodCtx /\ After(ctx, u) /\ After(u, c)
    BY <1>1, UseGood, MethodArgGood, UseAfter, MethodAfter
  <2>3. /\ Moves(Read(n)) = {} /\ Mentions(Read(n)) \subseteq {own_find(ctx, n)}
        /\ Mentions(a) = MentionsIn(ctx, a) /\ Moves(a) = MovesIn(ctx, a)
    BY <1>1, MeaningFound, MeaningsFound DEF Mentions, Moves, Read
  <2>4. ~c.reported => ~misused' /\ KnowsMoved(c, moved')
    <3>1. HAVE ~c.reported
    <3>2. ~misused /\ KnowsMoved(ctx, moved)
      BY <2>2, <3>1 DEF MovedInv, After
    <3>3. /\ own_find(ctx, n) \notin moved
          /\ MentionsIn(ctx, a) \cap moved = {}
          /\ KnowsMoved(c, moved \cup MovesIn(ctx, a))
      BY <1>1, <3>1, <3>2, MethodKnown
    <3> HIDE DEF c
    <3>4. QED BY <2>1, <2>3, <3>2, <3>3
  <2>5. Sorted(c, scope_depth)
    BY <1>1, <2>2, AfterAfter, AfterSorted
  <2> HIDE DEF c
  <2>6. QED BY <2>1, <2>2, <2>4, <2>5, WalkedMoved
<1>5. QED BY <1>2, <1>3, <1>4

\* Scopes and for loops.

\* After a for loop the variables are those from before it, each with one borrow
\* less, and its own is gone.
LEMMA ForLoopIs ==
  ASSUME ctx \in GoodCtx, scope_depth \in Int, Sorted(ctx, scope_depth),
         NEW n \in Name, ForLoop(n)
  PROVE  /\ ctx' \in GoodCtx /\ Sorted(ctx', scope_depth) /\ Walked(ctx')
         /\ Len(ctx'.vars) = Len(ctx.vars) /\ ctx'.reported = ctx.reported
         /\ \A j \in 1 .. Len(ctx.vars) : ctx'.vars[j] = PopRelease(ctx.vars[j])
<1> DEFINE k == Len(ctx.vars) + 1
           D == scope_depth + 1
           r == own_register(ctx, n, TRUE)
           v == [r.vars[k] EXCEPT !.scope_depth = D]
           inner == [r EXCEPT !.vars[k].scope_depth = D]
           c == own_pop_scope(inner, D)
<1>1. r \in GoodCtx /\ D - 1 = scope_depth
  <2>1. r \in GoodCtx
    BY RegisterGood
  <2> HIDE DEF r
  <2>2. QED BY <2>1
<1>2. /\ Len(r.vars) = k /\ Len(ctx.vars) \in Nat /\ r.reported = ctx.reported
      /\ \A j \in 1 .. Len(ctx.vars) : r.vars[j] = ctx.vars[j]
      /\ r.vars[k] \in GoodVar
  BY <1>1, At DEF own_register, GoodCtx
<1>3. v \in GoodVar /\ v.scope_depth = D
  <2> HIDE DEF r
  <2>1. D \in Int
    BY <1>1
  <2> HIDE DEF D
  <2>2. QED BY <1>2, <2>1 DEF GoodVar, Tracked, Consistent
<1>4. inner = [r EXCEPT !.vars[k] = v]
  OBVIOUS
<1>5. Walked(c) /\ ctx' = c
  BY DEF ForLoop, Walked
<1> HIDE DEF r, v, inner, D
<1>6. /\ inner \in GoodCtx /\ Len(inner.vars) = k /\ inner.reported = ctx.reported
      /\ \A j \in 1 .. Len(ctx.vars) : inner.vars[j] = ctx.vars[j]
      /\ inner.vars[k].scope_depth = D
  BY <1>1, <1>2, <1>3, <1>4, Update, Updated
<1>7. \A j \in 1 .. Len(ctx.vars) : ctx.vars[j].scope_depth \in Int /\ ctx.vars[j].scope_depth < D
  <2>1. TAKE j \in 1 .. Len(ctx.vars)
  <2>2. ctx.vars[j].scope_depth \in Int /\ ctx.vars[j].scope_depth <= scope_depth
    BY DepthType DEF Sorted
  <2>3. QED BY <1>1, <2>2 DEF D
<1>8. D \in Int
  BY <1>1 DEF D
<1>9. Sorted(inner, D)
  <2>1. ASSUME NEW i \in 1 .. Len(inner.vars) PROVE inner.vars[i].scope_depth <= D
    <3>1. CASE i = k
      BY <1>6, <1>8, <3>1
    <3>2. CASE i # k
      <4>1. i \in 1 .. Len(ctx.vars)
        BY <1>2, <1>6, <3>2
      <4>2. inner.vars[i].scope_depth = ctx.vars[i].scope_depth
        BY <1>6, <4>1
      <4>3. ctx.vars[i].scope_depth \in Int /\ ctx.vars[i].scope_depth < D
        BY <1>7, <4>1
      <4> HIDE DEF k
      <4>4. QED BY <1>8, <4>2, <4>3
    <3>3. QED BY <3>1, <3>2
  <2>2. ASSUME NEW i \in 1 .. Len(inner.vars), NEW j \in 1 .. Len(inner.vars), i <= j
        PROVE  inner.vars[i].scope_depth <= inner.vars[j].scope_depth
    <3>1. CASE j = k
      BY <1>6, <2>1, <3>1
    <3>2. CASE j # k
      <4>1. i \in 1 .. Len(ctx.vars) /\ j \in 1 .. Len(ctx.vars)
        BY <1>2, <1>6, <2>2, <3>2
      <4>2. QED BY <1>6, <2>2, <4>1 DEF Sorted
    <3>3. QED BY <3>1, <3>2
  <2>3. QED BY <2>1, <2>2 DEF Sorted
<1>10. c \in GoodCtx /\ Sorted(c, scope_depth)
  BY <1>1, <1>6, <1>8, <1>9, PopGood, PopSorted
<1>11. Len(c.vars) = Len(ctx.vars) /\ c.reported = ctx.reported
  <2>1. Len(ctx.vars) \in 0 .. Len(inner.vars)
    BY <1>2, <1>6
  <2>2. Len(ctx.vars) <= Outside(inner, D)
    BY <1>6, <1>7, <2>1, OutsideBounds
  <2>3. ASSUME NEW i \in 1 .. Len(inner.vars), inner.vars[i].scope_depth < D
        PROVE  i <= Len(ctx.vars)
    <3>1. i # k
      BY <1>6, <1>8, <2>3
    <3>2. QED BY <1>2, <1>6, <2>3, <3>1
  <2>4. Outside(inner, D) <= Len(ctx.vars) /\ Outside(inner, D) \in Nat
    BY <1>6, <2>1, <2>3, OutsideBounds
  <2>5. Outside(inner, D) = Len(ctx.vars)
    BY <1>2, <2>2, <2>4
  <2>6. QED BY <1>6, <2>5, PopIs
<1>12. \A j \in 1 .. Len(ctx.vars) : c.vars[j] = PopRelease(ctx.vars[j])
  BY <1>6, <1>11, PopIs
<1> HIDE DEF c
<1>13. QED BY <1>5, <1>10, <1>11, <1>12

LEMMA ForLoopMoved ==
  ASSUME MovedInv, NEW n \in Name, ForLoop(n)
  PROVE  MovedInv'
<1>1. /\ ctx \in GoodCtx /\ ctx' \in GoodCtx /\ Sorted(ctx', scope_depth) /\ Walked(ctx')
      /\ Len(ctx'.vars) = Len(ctx.vars) /\ ctx'.reported = ctx.reported
      /\ \A j \in 1 .. Len(ctx.vars) : ctx'.vars[j] = PopRelease(ctx.vars[j])
  BY ForLoopIs DEF MovedInv, OwnInv
<1>2. moved' = moved \cap 1 .. Len(ctx.vars) /\ misused' = misused
  BY DEF ForLoop, Forgets
<1>3. ~ctx'.reported => ~misused' /\ KnowsMoved(ctx', moved')
  <2>1. HAVE ~ctx'.reported
  <2>2. ~misused /\ KnowsMoved(ctx, moved)
    BY <1>1, <2>1 DEF MovedInv
  <2>3. ASSUME NEW i \in moved'
        PROVE  /\ i \in 1 .. Len(ctx'.vars)
               /\ ctx'.vars[i].state = "moved" /\ ~ctx'.vars[i].is_copy
    <3>1. /\ i \in 1 .. Len(ctx.vars) /\ ctx'.vars[i] = PopRelease(ctx.vars[i])
          /\ ctx.vars[i].state = "moved" /\ ~ctx.vars[i].is_copy
      BY <1>1, <1>2, <2>2, <2>3 DEF KnowsMoved
    <3>2. ctx.vars[i] \in GoodVar
      BY <1>1, <3>1, At
    <3>3. QED BY <1>1, <3>1, <3>2, PopReleaseKeeps
  <2>4. QED BY <1>2, <2>2, <2>3 DEF KnowsMoved
<1>4. QED BY <1>1, <1>3, WalkedMoved

LEMMA ScopeMoved ==
  ASSUME MovedInv, CloseScope \/ \E n \in {1, 2} : OpenScope(n)
  PROVE  MovedInv'
<1>1. OwnInv' /\ ctx \in GoodCtx /\ scope_depth \in Int
  BY ScopeInv DEF MovedInv, OwnInv
<1>2. CASE \E n \in {1, 2} : OpenScope(n)
  <2>1. PICK n \in {1, 2} : OpenScope(n)
    BY <1>2
  <2>2. ctx' = ctx /\ scope_depth' = scope_depth + n /\ moved' = moved /\ misused' = misused
    BY <2>1 DEF OpenScope, program
  <2>3. Sorted(ctx, scope_depth + n)
    BY <1>1, DepthType DEF MovedInv, Sorted
  <2>4. QED BY <1>1, <2>2, <2>3 DEF MovedInv
<1>3. CASE CloseScope
  <2> DEFINE n == open[Len(open)]
             once == own_pop_scope(ctx, scope_depth)
             twice == own_pop_scope(once, scope_depth - 1)
  <2>1. n \in {1, 2}
    BY <1>3 DEF MovedInv, OwnInv, CloseScope
  <2>2. /\ ctx' = IF n = 1 THEN once ELSE twice
        /\ scope_depth' = scope_depth - n
        /\ moved' = moved \cap 1 .. Len(ctx'.vars) /\ misused' = misused
    BY <1>3 DEF CloseScope, Popped, Forgets
  <2>3. once \in GoodCtx /\ twice \in GoodCtx
    BY <1>1, PopGood
  <2>4. Sorted(once, scope_depth - 1) /\ Sorted(twice, scope_depth - 1 - 1)
    BY <1>1, <2>3, PopSorted DEF MovedInv
  <2>5. /\ once.reported = ctx.reported /\ twice.reported = ctx.reported
        /\ Len(once.vars) \in Nat /\ Len(twice.vars) \in 0 .. Len(once.vars)
    BY <1>1, <2>3, PopIs, OutsideBounds
  <2>6. ASSUME KnowsMoved(ctx, moved)
        PROVE  /\ KnowsMoved(once, moved \cap 1 .. Len(once.vars))
               /\ KnowsMoved(twice, moved \cap 1 .. Len(twice.vars))
    <3>1. KnowsMoved(once, moved \cap 1 .. Len(once.vars))
      BY <1>1, <2>6, PopKnown
    <3>2. KnowsMoved(twice, (moved \cap 1 .. Len(once.vars)) \cap 1 .. Len(twice.vars))
      BY <2>3, <3>1, PopKnown
    <3> HIDE DEF once, twice
    <3>3. (moved \cap 1 .. Len(once.vars)) \cap 1 .. Len(twice.vars)
            = moved \cap 1 .. Len(twice.vars)
      BY <2>5
    <3>4. QED BY <3>1, <3>2, <3>3
  <2> HIDE DEF n, once, twice
  <2>7. CASE n = 1
    <3>1. ctx' = once /\ scope_depth' = scope_depth - 1
      BY <2>2, <2>7
    <3>2. QED BY <1>1, <2>2, <2>4, <2>5, <2>6, <3>1 DEF MovedInv
  <2>8. CASE n = 2
    <3>1. ctx' = twice /\ scope_depth' = scope_depth - 1 - 1
      BY <1>1, <2>2, <2>8
    <3>2. QED BY <1>1, <2>2, <2>4, <2>5, <2>6, <3>1 DEF MovedInv
  <2>9. QED BY <2>1, <2>7, <2>8
<1>4. QED BY <1>2, <1>3

LEMMA MovedStep ==
  ASSUME ~SelfReference, MovedInv, [Next]_vars
  PROVE  MovedInv'
<1>1. CASE UNCHANGED vars
  <2>1. OwnInv'
    BY <1>1, OwnStep DEF MovedInv
  <2>2. QED BY <1>1, <2>1 DEF MovedInv, vars, program
<1>2. CASE Next
  BY <1>2, DeclareMoved, MentionMoved, ForLoopMoved, ScopeMoved DEF Next
<1>3. QED BY <1>1, <1>2

\* typecheck.c:4604, "Use after move": when no initialiser mentions the variable it
\* declares, a function about which pass 9 says nothing mentions no variable after
\* its value was passed on, however long it is and however its names hide each other.
THEOREM NoUseAfterMove == ~SelfReference => (Spec => []AcceptedNeverUsesMoved)
<1>1. Init => MovedInv
  <2>1. Init => OwnInv
    BY DEF Init, OwnInv, GoodCtx
  <2>2. QED BY <2>1 DEF Init, MovedInv, Sorted, KnowsMoved
<1> DEFINE Inv == ~SelfReference /\ MovedInv
<1>2. ~SelfReference /\ Init => Inv
  BY <1>1
<1>3. Inv /\ [Next]_vars => Inv'
  BY MovedStep
<1>4. Inv => AcceptedNeverUsesMoved
  BY DEF MovedInv, AcceptedNeverUsesMoved
<1> HIDE DEF Inv
<1>5. QED BY <1>2, <1>3, <1>4, PTL DEF Spec

-----------------------------------------------------------------------------
(***************************************************************************)
(* What the checker knows of the borrows in L, those made since the last   *)
(* scope was left: its counters cover them.                                *)
(***************************************************************************)
KnowsBorrows(c, L) ==
  \A l \in L : /\ l.of \in 1 .. Len(c.vars)
               /\ IF l.mut THEN c.vars[l.of].has_mut_borrow
                  ELSE c.vars[l.of].borrow_count > 0

\* From c to d no borrow ends.
Grown(c, d) ==
  /\ Len(d.vars) = Len(c.vars)
  /\ \A i \in 1 .. Len(c.vars) :
       /\ c.vars[i].borrow_count \in Nat /\ d.vars[i].borrow_count \in Nat
       /\ d.vars[i].borrow_count >= c.vars[i].borrow_count
       /\ c.vars[i].has_mut_borrow => d.vars[i].has_mut_borrow

BorrowIn(c, a, holder) ==
  {[of |-> i, mut |-> a.how = "mut", holder |-> holder, recent |-> TRUE] :
     i \in IF a.how \in {"ref", "mut"} THEN MentionsIn(c, a) ELSE {}}

LEMMA BorrowFound ==
  ASSUME ctx \in GoodCtx, NEW a, NEW holder
  PROVE  Borrow(a, holder) = BorrowIn(ctx, a, holder)
<1>1. Mentions(a) = MentionsIn(ctx, a)
  BY MeaningsFound
<1>2. QED BY <1>1 DEF Borrow, BorrowIn

LEMMA KnowsGrown ==
  ASSUME NEW c, NEW d, Grown(c, d), NEW L, KnowsBorrows(c, L)
  PROVE  KnowsBorrows(d, L)
<1>1. ASSUME NEW l \in L
      PROVE  /\ l.of \in 1 .. Len(d.vars)
             /\ IF l.mut THEN d.vars[l.of].has_mut_borrow ELSE d.vars[l.of].borrow_count > 0
  <2>1. /\ l.of \in 1 .. Len(c.vars)
        /\ IF l.mut THEN c.vars[l.of].has_mut_borrow ELSE c.vars[l.of].borrow_count > 0
    BY DEF KnowsBorrows
  <2>2. QED BY <2>1 DEF Grown
<1>2. QED BY <1>1 DEF KnowsBorrows

LEMMA CountType ==
  ASSUME NEW c \in GoodCtx, NEW i \in 1 .. Len(c.vars)
  PROVE  c.vars[i].borrow_count \in Nat /\ c.vars[i].has_mut_borrow \in BOOLEAN
  BY At DEF GoodVar, Tracked

LEMMA GrownGrown ==
  ASSUME NEW c \in GoodCtx, NEW d, NEW e, Grown(c, d), Grown(d, e)
  PROVE  Grown(c, e)
  BY DEF Grown, GoodCtx

LEMMA GrownItself ==
  ASSUME NEW c \in GoodCtx
  PROVE  Grown(c, c)
  BY CountType DEF Grown

\* What the operations make of the counters of a variable.
LEMMA Counters ==
  ASSUME NEW v \in GoodVar
  PROVE  /\ BorrowedMut(v).borrow_count = v.borrow_count
         /\ BorrowedMut(v).has_mut_borrow = TRUE
         /\ Borrowed(v).borrow_count = v.borrow_count + 1
         /\ Borrowed(v).has_mut_borrow = v.has_mut_borrow
         /\ Owned(v).borrow_count = v.borrow_count /\ ~Owned(v).has_mut_borrow
         /\ OneLess(v).borrow_count = v.borrow_count - 1
         /\ OneLess(v).has_mut_borrow = v.has_mut_borrow
         /\ v.borrow_count \in Nat /\ v.has_mut_borrow \in BOOLEAN
<1>1. v \in Tracked
  BY DEF GoodVar
<1>2. QED
  BY <1>1 DEF Tracked, BorrowedMut, Borrowed, Owned, OneLess

\* The counters of d are those of c, but for the variable i, borrowed as how says.
Counted(c, d, i, how) ==
  /\ Len(d.vars) = Len(c.vars)
  /\ \A j \in 1 .. Len(c.vars) :
       /\ d.vars[j].borrow_count = c.vars[j].borrow_count + (IF j = i /\ how = "ref" THEN 1 ELSE 0)
       /\ d.vars[j].has_mut_borrow = (c.vars[j].has_mut_borrow \/ (j = i /\ how = "mut"))

LEMMA CountedSame ==
  ASSUME NEW c \in GoodCtx, NEW d, NEW i, NEW how, i = 0 \/ how \notin {"ref", "mut"},
         Len(d.vars) = Len(c.vars),
         \A j \in 1 .. Len(c.vars) : /\ d.vars[j].borrow_count = c.vars[j].borrow_count
                                     /\ d.vars[j].has_mut_borrow = c.vars[j].has_mut_borrow
  PROVE  Counted(c, d, i, how)
<1>1. ASSUME NEW j \in 1 .. Len(c.vars)
      PROVE  /\ d.vars[j].borrow_count
                  = c.vars[j].borrow_count + (IF j = i /\ how = "ref" THEN 1 ELSE 0)
             /\ d.vars[j].has_mut_borrow = (c.vars[j].has_mut_borrow \/ (j = i /\ how = "mut"))
  <2>1. ~(j = i /\ how = "ref") /\ ~(j = i /\ how = "mut")
    BY <1>1 DEF GoodCtx
  <2>2. c.vars[j].borrow_count \in Nat /\ c.vars[j].has_mut_borrow \in BOOLEAN
    BY CountType
  <2>3. QED BY <2>1, <2>2
<1>2. QED BY <1>1, Zenon DEF Counted

LEMMA CountedItself ==
  ASSUME NEW c \in GoodCtx, NEW i, NEW how, i = 0 \/ how \notin {"ref", "mut"}
  PROVE  Counted(c, c, i, how)
  BY CountedSame

LEMMA ArgCounted ==
  ASSUME NEW c \in GoodCtx, NEW a \in Arg, ~CheckArg(c, a).reported
  PROVE  LET i == own_find(c, a.name) IN
         /\ Counted(c, CheckArg(c, a), i, a.how)
         /\ i # 0 /\ a.how \in {"ref", "mut"} => ~c.vars[i].has_mut_borrow
         /\ i # 0 /\ a.how = "mut" => ~(c.vars[i].borrow_count > 0)
<1> DEFINE i == own_find(c, a.name)
           d == CheckArg(c, a)
<1>1. CASE i = 0
  <2>1. d = c
    BY <1>1 DEF CheckArg, own_mark_move, own_process_borrow, own_check_use, Arg
  <2>2. QED BY <1>1, <2>1, CountedItself
<1>2. CASE i # 0 /\ a.how \in {"ref", "mut"}
  <2> DEFINE v == IF a.how = "mut" THEN BorrowedMut(c.vars[i]) ELSE Borrowed(c.vars[i])
  <2>1. i \in 1 .. Len(c.vars) /\ c.vars[i] \in GoodVar
    BY <1>2, FindIndex, At DEF GoodCtx
  <2>2. /\ d = [c EXCEPT !.vars[i] = v]
        /\ ~c.vars[i].has_mut_borrow
        /\ a.how = "mut" => ~(c.vars[i].borrow_count > 0)
    <3>1. d = own_process_borrow(c, a.name, a.how = "mut")
      BY <1>2 DEF CheckArg
    <3>2. own_report(c).reported
      BY ReportAfter
    <3>3. QED BY <1>2, <3>1, <3>2 DEF own_process_borrow
  <2>3. /\ v.borrow_count = c.vars[i].borrow_count + (IF a.how = "ref" THEN 1 ELSE 0)
        /\ v.has_mut_borrow = (c.vars[i].has_mut_borrow \/ a.how = "mut")
    <3>1. CASE a.how = "mut"
      <4>1. v.borrow_count = c.vars[i].borrow_count /\ v.has_mut_borrow = TRUE
            /\ c.vars[i].borrow_count \in Nat
        BY <2>1, <3>1, Counters
      <4> HIDE DEF v
      <4>2. v.borrow_count = c.vars[i].borrow_count + (IF a.how = "ref" THEN 1 ELSE 0)
        BY <3>1, <4>1
      <4>3. (c.vars[i].has_mut_borrow \/ a.how = "mut") = TRUE
        BY <3>1
      <4>4. QED BY <4>1, <4>2, <4>3, Zenon
    <3>2. CASE a.how = "ref"
      <4>1. v.borrow_count = c.vars[i].borrow_count + 1
            /\ v.has_mut_borrow = c.vars[i].has_mut_borrow /\ c.vars[i].has_mut_borrow \in BOOLEAN
        BY <2>1, <3>2, Counters
      <4> HIDE DEF v
      <4>2. v.borrow_count = c.vars[i].borrow_count + (IF a.how = "ref" THEN 1 ELSE 0)
        BY <3>2, <4>1
      <4>3. (c.vars[i].has_mut_borrow \/ a.how = "mut") = c.vars[i].has_mut_borrow
        BY <3>2, <4>1
      <4>4. QED BY <4>1, <4>2, <4>3
    <3>3. QED BY <1>2, <3>1, <3>2
  <2> HIDE DEF v
  <2>4. /\ Len(d.vars) = Len(c.vars)
        /\ \A j \in 1 .. Len(c.vars) : d.vars[j] = IF j = i THEN v ELSE c.vars[j]
    BY <2>1, <2>2, Updated
  <2>5. Counted(c, d, i, a.how)
    <3> HIDE DEF d, i
    <3>1. ASSUME NEW j \in 1 .. Len(c.vars)
          PROVE  /\ d.vars[j].borrow_count
                      = c.vars[j].borrow_count + (IF j = i /\ a.how = "ref" THEN 1 ELSE 0)
                 /\ d.vars[j].has_mut_borrow = (c.vars[j].has_mut_borrow \/ (j = i /\ a.how = "mut"))
      <4>1. c.vars[j].borrow_count \in Nat /\ c.vars[j].has_mut_borrow \in BOOLEAN
        BY CountType
      <4>2. CASE j = i
        BY <2>3, <2>4, <4>1, <4>2
      <4>3. CASE j # i
        BY <2>4, <4>1, <4>3
      <4>4. QED BY <4>2, <4>3
    <3>2. QED BY <2>4, <3>1 DEF Counted
  <2>6. QED BY <2>2, <2>5
<1>3. CASE i # 0 /\ a.how = "value"
  <2>1. i \in 1 .. Len(c.vars) /\ c.vars[i] \in GoodVar
    BY <1>3, FindIndex, At DEF GoodCtx
  <2> DEFINE v == [c.vars[i] EXCEPT !.state = "moved"]
  <2>2. d = c \/ d = [c EXCEPT !.vars[i] = v]
    <3>1. own_report(c).reported
      BY ReportAfter
    <3>2. QED BY <1>3, <3>1 DEF CheckArg, own_mark_move
  <2>3. v.borrow_count = c.vars[i].borrow_count /\ v.has_mut_borrow = c.vars[i].has_mut_borrow
    BY <2>1 DEF GoodVar, Tracked
  <2>4. CASE d = [c EXCEPT !.vars[i] = v]
    <3>1. /\ Len(d.vars) = Len(c.vars)
          /\ \A j \in 1 .. Len(c.vars) : d.vars[j] = IF j = i THEN v ELSE c.vars[j]
      BY <2>1, <2>4, Updated
    <3> HIDE DEF d, i, v
    <3>2. ASSUME NEW j \in 1 .. Len(c.vars)
          PROVE  /\ d.vars[j].borrow_count = c.vars[j].borrow_count
                 /\ d.vars[j].has_mut_borrow = c.vars[j].has_mut_borrow
      BY <2>3, <3>1
    <3>3. a.how \notin {"ref", "mut"}
      BY <1>3
    <3>4. Counted(c, d, i, a.how)
      BY <3>1, <3>2, <3>3, CountedSame
    <3>5. QED BY <1>3, <3>4 DEF i, d
  <2>5. QED BY <1>3, <2>2, <2>4, CountedItself
<1>4. CASE i # 0 /\ a.how \in {"builder", "expr"}
  <2>1. d = c
    BY <1>4, UseAfter DEF CheckArg
  <2>2. QED BY <1>4, <2>1, CountedItself
<1>5. QED BY <1>1, <1>2, <1>3, <1>4 DEF Arg

\* An argument that passes the check clashes with no borrow the checker knows of,
\* and the checker knows of the borrow it makes.
LEMMA ArgBorrows ==
  ASSUME NEW c \in GoodCtx, NEW a \in Arg, NEW L, KnowsBorrows(c, L), NEW holder,
         ~CheckArg(c, a).reported
  PROVE  /\ Grown(c, CheckArg(c, a))
         /\ ~Clash(BorrowIn(c, a, holder), L)
         /\ KnowsBorrows(CheckArg(c, a), L \cup BorrowIn(c, a, holder))
<1> DEFINE i == own_find(c, a.name)
           d == CheckArg(c, a)
           B == BorrowIn(c, a, holder)
<1>1. /\ Counted(c, d, i, a.how) /\ i \in 0 .. Len(c.vars)
      /\ i # 0 /\ a.how \in {"ref", "mut"} => ~c.vars[i].has_mut_borrow
      /\ i # 0 /\ a.how = "mut" => ~(c.vars[i].borrow_count > 0)
  BY ArgCounted, FindIndex
<1>2. ASSUME NEW l \in B
      PROVE  /\ l.of = i /\ i # 0 /\ l.mut = (a.how = "mut") /\ a.how \in {"ref", "mut"}
  BY <1>2 DEF BorrowIn, MentionsIn
<1> HIDE DEF i, d, B
<1>3. Grown(c, d)
  <2>1. ASSUME NEW j \in 1 .. Len(c.vars)
        PROVE  /\ c.vars[j].borrow_count \in Nat /\ d.vars[j].borrow_count \in Nat
               /\ d.vars[j].borrow_count >= c.vars[j].borrow_count
               /\ c.vars[j].has_mut_borrow => d.vars[j].has_mut_borrow
    <3>1. c.vars[j].borrow_count \in Nat
      BY CountType
    <3>2. /\ d.vars[j].borrow_count
               = c.vars[j].borrow_count + (IF j = i /\ a.how = "ref" THEN 1 ELSE 0)
          /\ c.vars[j].has_mut_borrow => d.vars[j].has_mut_borrow
      BY <1>1 DEF Counted
    <3>3. (IF j = i /\ a.how = "ref" THEN 1 ELSE 0) \in {0, 1}
      OBVIOUS
    <3>4. QED BY <3>1, <3>2, <3>3
  <2>2. QED BY <1>1, <2>1 DEF Counted, Grown
<1>4. ASSUME NEW l \in B PROVE l.of \in 1 .. Len(d.vars)
             /\ IF l.mut THEN d.vars[l.of].has_mut_borrow ELSE d.vars[l.of].borrow_count > 0
  <2>1. l.of = i /\ i \in 1 .. Len(c.vars) /\ l.mut = (a.how = "mut") /\ a.how \in {"ref", "mut"}
    BY <1>1, <1>2
  <2>2. c.vars[i].borrow_count \in Nat
    BY <2>1, CountType
  <2>3. /\ Len(d.vars) = Len(c.vars)
        /\ d.vars[i].borrow_count
             = c.vars[i].borrow_count + (IF a.how = "ref" THEN 1 ELSE 0)
        /\ a.how = "mut" => d.vars[i].has_mut_borrow
    BY <1>1, <2>1 DEF Counted
  <2>4. l.of \in 1 .. Len(d.vars)
    BY <2>1, <2>3
  <2>5. CASE a.how = "mut"
    BY <2>1, <2>3, <2>4, <2>5
  <2>6. CASE a.how = "ref"
    <3>1. d.vars[i].borrow_count = c.vars[i].borrow_count + 1 /\ ~l.mut
      BY <2>1, <2>3, <2>6
    <3>2. QED BY <2>1, <2>2, <2>4, <3>1
  <2>7. QED BY <2>1, <2>5, <2>6
<1>5. ASSUME NEW s \in B, NEW t \in L, s.of = t.of, s.mut \/ t.mut PROVE FALSE
  BY <1>1, <1>2, <1>5 DEF KnowsBorrows
<1>6. ~Clash(B, L)
  BY <1>5 DEF Clash
<1>7. KnowsBorrows(d, L)
  BY <1>3, KnowsGrown
<1>8. KnowsBorrows(d, L \cup B)
  BY <1>4, <1>7 DEF KnowsBorrows
<1>9. QED BY <1>3, <1>6, <1>8 DEF d, B

\* The end of a call ends the borrow of its argument, and no other.
LEMMA ReleaseCounted ==
  ASSUME NEW c \in GoodCtx, NEW a
  PROVE  LET i == own_find(c, a.name)
             f == ReleaseArg(c, a)
         IN \A j \in 1 .. Len(c.vars) :
              /\ f.vars[j].borrow_count \in Int
              /\ f.vars[j].borrow_count
                   >= c.vars[j].borrow_count - (IF j = i /\ a.how = "ref" THEN 1 ELSE 0)
              /\ c.vars[j].has_mut_borrow /\ ~(j = i /\ a.how = "mut") => f.vars[j].has_mut_borrow
<1> DEFINE i == own_find(c, a.name)
           f == ReleaseArg(c, a)
           less(j) == IF j = i /\ a.how = "ref" THEN 1 ELSE 0
<1>1. SUFFICES ASSUME NEW j \in 1 .. Len(c.vars)
               PROVE  /\ f.vars[j].borrow_count \in Int
                      /\ f.vars[j].borrow_count >= c.vars[j].borrow_count - less(j)
                      /\ c.vars[j].has_mut_borrow /\ ~(j = i /\ a.how = "mut")
                           => f.vars[j].has_mut_borrow
  OBVIOUS
<1>2. c.vars[j].borrow_count \in Nat /\ less(j) \in {0, 1} /\ j # 0
  BY CountType DEF GoodCtx
<1>3. CASE f.vars[j] = c.vars[j]
  <2> HIDE DEF f, less
  <2>1. QED BY <1>2, <1>3
<1>4. CASE f.vars[j] # c.vars[j]
  <2>1. i # 0 /\ f # c
    BY <1>4 DEF ReleaseArg
  <2>2. i \in 1 .. Len(c.vars) /\ c.vars[i] \in GoodVar
    BY <2>1, FindIndex, At DEF GoodCtx
  <2>3. \/ a.how = "mut" /\ f = [c EXCEPT !.vars[i] = Owned(c.vars[i])]
        \/ a.how = "ref" /\ f = [c EXCEPT !.vars[i] = OneLess(c.vars[i])]
    BY <2>1 DEF ReleaseArg
  <2> HIDE DEF i, f
  <2>4. CASE a.how = "mut" /\ f = [c EXCEPT !.vars[i] = Owned(c.vars[i])]
    <3>1. j = i /\ f.vars[j] = Owned(c.vars[j])
      BY <1>4, <2>2, <2>4, Updated
    <3>2. f.vars[j].borrow_count = c.vars[j].borrow_count
      <4>1. c.vars[j] \in GoodVar
        BY At
      <4>2. Owned(c.vars[j]).borrow_count = c.vars[j].borrow_count
        BY <4>1, Counters
      <4>3. QED BY <3>1, <4>2
    <3> HIDE DEF less
    <3>3. QED BY <1>2, <2>4, <3>1, <3>2
  <2>5. CASE a.how = "ref" /\ f = [c EXCEPT !.vars[i] = OneLess(c.vars[i])]
    <3>1. j = i /\ f.vars[j] = OneLess(c.vars[j])
      BY <1>4, <2>2, <2>5, Updated
    <3>2. /\ f.vars[j].borrow_count = c.vars[j].borrow_count - 1
          /\ f.vars[j].has_mut_borrow = c.vars[j].has_mut_borrow
      <4>1. c.vars[j] \in GoodVar
        BY At
      <4>2. /\ OneLess(c.vars[j]).borrow_count = c.vars[j].borrow_count - 1
            /\ OneLess(c.vars[j]).has_mut_borrow = c.vars[j].has_mut_borrow
        BY <4>1, Counters
      <4>3. QED BY <3>1, <4>2
    <3>3. less(j) = 1
      BY <2>5, <3>1
    <3> HIDE DEF less
    <3>4. QED BY <1>2, <3>2, <3>3
  <2>6. QED BY <2>3, <2>4, <2>5
<1>5. QED BY <1>3, <1>4

\* A call about which the checker says nothing leaves the borrows that were there.
LEMMA CallGrown ==
  ASSUME NEW c \in GoodCtx, NEW a \in Arg, NEW b \in Arg,
         ~CheckArg(CheckArg(c, a), b).reported
  PROVE  Grown(c, own_check_call(c, a, b))
<1> DEFINE i == own_find(c, a.name)
           k == own_find(c, b.name)
           d == CheckArg(c, a)
           e == CheckArg(d, b)
           f == ReleaseArg(e, a)
           g == ReleaseArg(f, b)
<1>1. d \in GoodCtx /\ e \in GoodCtx /\ f \in GoodCtx /\ g \in GoodCtx
  BY CheckArgGood, ReleaseArgGood
<1>2. After(c, d) /\ After(d, e) /\ After(e, f) /\ After(f, g)
  BY <1>1, CheckArgAfter, ReleaseAfter
<1>3. /\ Len(d.vars) = Len(c.vars) /\ Len(e.vars) = Len(c.vars)
      /\ Len(f.vars) = Len(c.vars) /\ Len(g.vars) = Len(c.vars)
  BY <1>2 DEF After
<1>4. /\ own_find(d, b.name) = k /\ own_find(e, a.name) = i /\ own_find(f, b.name) = k
  BY <1>2, FindAfter
<1>5. ~d.reported /\ ~e.reported
  BY <1>2 DEF After
<1>6. /\ Counted(c, d, i, a.how) /\ Counted(d, e, k, b.how)
      /\ i # 0 /\ a.how = "mut" => ~c.vars[i].has_mut_borrow
      /\ k # 0 /\ b.how = "mut" => ~d.vars[k].has_mut_borrow
  BY <1>1, <1>4, <1>5, ArgCounted
<1>7. \A j \in 1 .. Len(c.vars) :
        /\ f.vars[j].borrow_count \in Int /\ g.vars[j].borrow_count \in Int
        /\ f.vars[j].borrow_count
             >= e.vars[j].borrow_count - (IF j = i /\ a.how = "ref" THEN 1 ELSE 0)
        /\ e.vars[j].has_mut_borrow /\ ~(j = i /\ a.how = "mut") => f.vars[j].has_mut_borrow
        /\ g.vars[j].borrow_count
             >= f.vars[j].borrow_count - (IF j = k /\ b.how = "ref" THEN 1 ELSE 0)
        /\ f.vars[j].has_mut_borrow /\ ~(j = k /\ b.how = "mut") => g.vars[j].has_mut_borrow
  BY <1>1, <1>3, <1>4, ReleaseCounted
<1>8. g = own_check_call(c, a, b)
  BY DEF own_check_call
<1> HIDE DEF d, e, f, g, i, k
<1>9. ASSUME NEW j \in 1 .. Len(c.vars)
      PROVE  /\ c.vars[j].borrow_count \in Nat /\ g.vars[j].borrow_count \in Nat
             /\ g.vars[j].borrow_count >= c.vars[j].borrow_count
             /\ c.vars[j].has_mut_borrow => g.vars[j].has_mut_borrow
  <2> DEFINE x == IF j = i /\ a.how = "ref" THEN 1 ELSE 0
             y == IF j = k /\ b.how = "ref" THEN 1 ELSE 0
  <2>1. x \in Nat /\ y \in Nat /\ c.vars[j].borrow_count \in Nat
    BY CountType
  <2>2. /\ d.vars[j].borrow_count = c.vars[j].borrow_count + x
        /\ d.vars[j].has_mut_borrow = (c.vars[j].has_mut_borrow \/ (j = i /\ a.how = "mut"))
    BY <1>6 DEF Counted
  <2>3. /\ e.vars[j].borrow_count = d.vars[j].borrow_count + y
        /\ e.vars[j].has_mut_borrow = (d.vars[j].has_mut_borrow \/ (j = k /\ b.how = "mut"))
    BY <1>3, <1>6 DEF Counted
  <2>4. /\ f.vars[j].borrow_count \in Int /\ g.vars[j].borrow_count \in Int
        /\ f.vars[j].borrow_count >= e.vars[j].borrow_count - x
        /\ g.vars[j].borrow_count >= f.vars[j].borrow_count - y
    BY <1>7
  <2> HIDE DEF x, y
  <2>5. g.vars[j].borrow_count >= c.vars[j].borrow_count /\ g.vars[j].borrow_count \in Nat
    <3>1. ASSUME NEW p \in Nat, NEW q \in Int, NEW r \in Int,
                 q >= ((p + x) + y) - x, r >= q - y
          PROVE  r >= p /\ r \in Nat
      BY <2>1, <3>1
    <3>2. f.vars[j].borrow_count >= ((c.vars[j].borrow_count + x) + y) - x
      BY <2>2, <2>3, <2>4
    <3>3. QED BY <2>1, <2>4, <3>1, <3>2
  <2>6. ASSUME c.vars[j].has_mut_borrow PROVE g.vars[j].has_mut_borrow
    <3>1. j # 0
      BY DEF GoodCtx
    <3>2. d.vars[j].has_mut_borrow /\ ~(j = i /\ a.how = "mut")
      BY <1>6, <2>2, <2>6, <3>1
    <3>3. e.vars[j].has_mut_borrow /\ ~(j = k /\ b.how = "mut")
      BY <1>6, <2>3, <3>1, <3>2
    <3>4. QED BY <1>7, <3>2, <3>3
  <2>7. QED BY <2>1, <2>5, <2>6
<1>10. Grown(c, g)
  BY <1>3, <1>9 DEF Grown
<1>11. QED BY <1>8, <1>10

LEMMA CallBorrows ==
  ASSUME NEW c \in GoodCtx, NEW a \in Arg, NEW b \in Arg, NEW L, KnowsBorrows(c, L),
         ~own_check_call(c, a, b).reported
  PROVE  /\ KnowsBorrows(own_check_call(c, a, b), L)
         /\ ~Clash(BorrowIn(c, a, 0) \cup BorrowIn(c, b, 0), L)
         /\ ~Clash(BorrowIn(c, a, 0), BorrowIn(c, b, 0))
<1> DEFINE d == CheckArg(c, a)
           e == CheckArg(d, b)
           f == ReleaseArg(e, a)
           A == BorrowIn(c, a, 0)
           B == BorrowIn(c, b, 0)
<1>1. d \in GoodCtx /\ e \in GoodCtx /\ f \in GoodCtx
  BY CheckArgGood, ReleaseArgGood
<1>2. After(c, d) /\ After(d, e)
  BY <1>1, CheckArgAfter
<1>3. ~e.reported
  BY <1>1, ReleaseAfter DEF own_check_call
<1>4. ~d.reported
  BY <1>2, <1>3 DEF After
<1>5. ~Clash(A, L) /\ KnowsBorrows(d, L \cup A)
  BY <1>4, ArgBorrows
<1>6. BorrowIn(d, b, 0) = B
  BY <1>2, MeaningsAfter DEF BorrowIn
<1>7. ~Clash(BorrowIn(d, b, 0), L \cup A)
  BY <1>1, <1>3, <1>5, ArgBorrows
<1>8. KnowsBorrows(own_check_call(c, a, b), L)
  BY <1>3, CallGrown, KnowsGrown
<1> HIDE DEF A, B, d, e, f
<1>9. ~Clash(A \cup B, L) /\ ~Clash(A, B)
  BY <1>5, <1>6, <1>7 DEF Clash
<1>10. QED BY <1>8, <1>9 DEF A, B

LEMMA MethodBorrows ==
  ASSUME NEW c \in GoodCtx, NEW a \in Arg, NEW L, KnowsBorrows(c, L),
         ~CheckMethodArg(c, a).reported
  PROVE  KnowsBorrows(CheckMethodArg(c, a), L) /\ ~Clash(BorrowIn(c, a, 0), L)
<1> DEFINE d == CheckArg(c, a)
           e == CheckMethodArg(c, a)
<1>1. d \in GoodCtx
  BY CheckArgGood
<1>2. e = (IF a.how = "value" THEN own_check_use(d, a.name) ELSE CheckArg(d, a))
  <2>1. a.how = "value" => d = own_mark_move(c, a.name)
    BY DEF CheckArg
  <2> HIDE DEF d
  <2>2. QED BY <2>1 DEF CheckMethodArg, d
<1> HIDE DEF d, e
<1>3. After(d, e)
  BY <1>1, <1>2, UseAfter, CheckArgAfter
<1>4. ~d.reported /\ ~e.reported
  BY <1>3 DEF After, e
<1>5. KnowsBorrows(d, L \cup BorrowIn(c, a, 0)) /\ ~Clash(BorrowIn(c, a, 0), L)
  BY <1>4, ArgBorrows DEF d
<1>6. KnowsBorrows(d, L)
  BY <1>5 DEF KnowsBorrows
<1>7. CASE a.how = "value"
  <2>1. e = d
    BY <1>1, <1>2, <1>4, <1>7, UseAfter
  <2>2. QED BY <1>5, <1>6, <2>1 DEF e
<1>8. CASE a.how # "value"
  <2>1. e = CheckArg(d, a)
    BY <1>2, <1>8
  <2>2. Grown(d, e)
    BY <1>1, <1>4, <1>6, <2>1, ArgBorrows
  <2>3. QED BY <1>5, <1>6, <2>2, KnowsGrown DEF e
<1>9. QED BY <1>7, <1>8

LEMMA RegisterBorrows ==
  ASSUME NEW c \in GoodCtx, scope_depth \in Int, NEW n \in Name, NEW copy \in BOOLEAN,
         NEW L, KnowsBorrows(c, L)
  PROVE  /\ KnowsBorrows(own_register(c, n, copy), L)
         /\ own_register(c, n, copy).reported = c.reported
<1> DEFINE d == own_register(c, n, copy)
<1>1. /\ Len(d.vars) = Len(c.vars) + 1 /\ Len(c.vars) \in Nat
      /\ \A j \in 1 .. Len(c.vars) : d.vars[j] = c.vars[j]
      /\ d.reported = c.reported
  BY DEF own_register, GoodCtx
<1> HIDE DEF d
<1>2. ASSUME NEW l \in L
      PROVE  l.of \in 1 .. Len(d.vars) /\ d.vars[l.of] = c.vars[l.of]
  BY <1>1 DEF KnowsBorrows
<1>3. KnowsBorrows(d, L)
  BY <1>2 DEF KnowsBorrows
<1>4. QED BY <1>1, <1>3 DEF d

\* While the checker has not complained, no borrow has met another that excludes it,
\* and the checker knows of the recent ones.
AliasInv ==
  /\ OwnInv
  /\ ~ctx.reported => ~aliased /\ KnowsBorrows(ctx, Recent)

LEMMA WalkedAlias ==
  ASSUME AliasInv, NEW c \in GoodCtx, Walked(c),
         ~c.reported => ~aliased' /\ KnowsBorrows(c, Recent')
  PROVE  AliasInv'
<1>1. OwnInv'
  BY WalkedInv DEF AliasInv
<1>2. ctx' = c
  BY DEF Walked
<1>3. QED BY <1>1, <1>2 DEF AliasInv

LEMMA NoBorrow ==
  ASSUME NEW n
  PROVE  /\ Borrow([how |-> "expr", name |-> "none"], 0) = {}
         /\ Borrow(Read(n), 0) = {}
  BY DEF Borrow, Read

\* What is checked after a new variable of another name was declared.
LEMMA FreshBorrows ==
  ASSUME AliasInv, NEW n \in Name, NEW copy \in BOOLEAN,
         ~own_register(ctx, n, copy).reported
  PROVE  /\ ~aliased /\ KnowsBorrows(own_register(ctx, n, copy), Recent)
         /\ \A a \in Arg : n # a.name => \A h :
                BorrowIn(own_register(ctx, n, copy), a, h) = Borrow(a, h)
<1> DEFINE r == own_register(ctx, n, copy)
<1>1. ctx \in GoodCtx /\ scope_depth \in Int
  BY DEF AliasInv, OwnInv
<1>2. r.reported = ctx.reported
  BY DEF own_register, GoodCtx
<1>3. ~aliased /\ KnowsBorrows(ctx, Recent)
  BY <1>2 DEF AliasInv
<1>4. KnowsBorrows(r, Recent)
  BY <1>1, <1>3, RegisterBorrows
<1>5. ASSUME NEW a \in Arg, NEW h, n # a.name PROVE BorrowIn(r, a, h) = Borrow(a, h)
  <2>1. MentionsIn(r, a) = MentionsIn(ctx, a)
    <3>1. KnowsMoved(ctx, {})
      BY DEF KnowsMoved
    <3>2. QED BY <1>1, <1>5, <3>1, RegisterKnown
  <2>2. Borrow(a, h) = BorrowIn(ctx, a, h)
    BY <1>1, BorrowFound
  <2> HIDE DEF r
  <2>3. QED BY <2>1, <2>2 DEF BorrowIn
<1>6. QED BY <1>3, <1>4, <1>5

LEMMA DeclareAlias ==
  ASSUME AliasInv, ~SelfReference, NEW n \in Name, NEW copy \in BOOLEAN
  PROVE  /\ Let(n, copy) => AliasInv'
         /\ \A m \in Name : LetVariable(n, m, copy) => AliasInv'
         /\ \A a \in Arg : LetCall(n, a, copy) \/ LetRef(n, a, copy) => AliasInv'
<1> DEFINE r == own_register(ctx, n, copy)
           none == [how |-> "expr", name |-> "none"]
<1>1. ctx \in GoodCtx /\ r \in GoodCtx /\ none \in Arg
  BY RegisterGood, NoArgument DEF AliasInv, OwnInv
<1>2. ASSUME ~r.reported
      PROVE  /\ ~aliased /\ KnowsBorrows(r, Recent)
             /\ \A a \in Arg : n # a.name => \A h : BorrowIn(r, a, h) = Borrow(a, h)
  BY <1>2, FreshBorrows
<1>3. /\ Let(n, copy) => Walked(r) /\ UNCHANGED <<live, aliased>>
      /\ \A m \in Name : LetVariable(n, m, copy) =>
           Walked(own_check_use(r, m)) /\ UNCHANGED <<live, aliased>>
  BY DEF Let, LetVariable, Uses, program
<1>4. \A a \in Arg : LetCall(n, a, copy) =>
        /\ n # a.name /\ Walked(own_check_call(r, a, none)) /\ UNCHANGED live
        /\ aliased' = (aliased \/ Clash(Borrow(a, 0) \cup Borrow(none, 0), Recent)
                               \/ Clash(Borrow(a, 0), Borrow(none, 0)))
  BY DEF LetCall, Passes
<1>5. \A a \in Arg : LetRef(n, a, copy) =>
        LET new == Borrow(a, Len(ctx.vars) + 1) IN
        /\ n # a.name /\ a.how \in {"ref", "mut"}
        /\ Walked(own_process_borrow(r, a.name, a.how = "mut"))
        /\ aliased' = (aliased \/ Clash(new, Recent)) /\ live' = live \cup new
  BY DEF LetRef
<1> HIDE DEF r
<1>6. ASSUME live' = live PROVE Recent' = Recent
  BY <1>6 DEF Recent
<1>7. ASSUME Let(n, copy) PROVE AliasInv'
  <2>1. ~r.reported => ~aliased' /\ KnowsBorrows(r, Recent')
    BY <1>2, <1>3, <1>6, <1>7
  <2>2. QED BY <1>1, <1>3, <1>7, <2>1, WalkedAlias
<1>8. ASSUME NEW m \in Name, LetVariable(n, m, copy) PROVE AliasInv'
  <2> DEFINE c == own_check_use(r, m)
  <2>1. c \in GoodCtx /\ (~c.reported => c = r)
    BY <1>1, UseGood, UseAfter
  <2>2. Walked(c) /\ live' = live /\ aliased' = aliased
    BY <1>3, <1>8
  <2> HIDE DEF c
  <2>3. ~c.reported => ~aliased' /\ KnowsBorrows(c, Recent')
    BY <1>2, <1>6, <2>1, <2>2
  <2>4. QED BY <2>1, <2>2, <2>3, WalkedAlias
<1>9. ASSUME NEW a \in Arg, LetCall(n, a, copy) PROVE AliasInv'
  <2> DEFINE c == own_check_call(r, a, none)
  <2>1. c \in GoodCtx /\ After(r, c)
    BY <1>1, CallGood, CallAfter
  <2>2. n # a.name /\ Walked(c) /\ live' = live
        /\ aliased' = (aliased \/ Clash(Borrow(a, 0) \cup Borrow(none, 0), Recent)
                               \/ Clash(Borrow(a, 0), Borrow(none, 0)))
    BY <1>4, <1>9
  <2>3. Borrow(none, 0) = {} /\ BorrowIn(r, none, 0) = {}
    BY NoBorrow DEF BorrowIn
  <2> HIDE DEF none
  <2>4. ~c.reported => ~aliased' /\ KnowsBorrows(c, Recent')
    <3>1. HAVE ~c.reported
    <3>2. ~r.reported
      BY <2>1, <3>1 DEF After
    <3>3. ~aliased /\ KnowsBorrows(r, Recent) /\ BorrowIn(r, a, 0) = Borrow(a, 0)
      BY <1>2, <2>2, <3>2
    <3>4. /\ KnowsBorrows(c, Recent)
          /\ ~Clash(BorrowIn(r, a, 0) \cup BorrowIn(r, none, 0), Recent)
          /\ ~Clash(BorrowIn(r, a, 0), BorrowIn(r, none, 0))
      BY <1>1, <3>1, <3>3, CallBorrows
    <3> HIDE DEF c
    <3>5. QED BY <1>6, <2>2, <2>3, <3>3, <3>4
  <2> HIDE DEF c
  <2>5. QED BY <2>1, <2>2, <2>4, WalkedAlias
<1>10. ASSUME NEW a \in Arg, LetRef(n, a, copy) PROVE AliasInv'
  <2> DEFINE c == CheckArg(r, a)
             new == Borrow(a, Len(ctx.vars) + 1)
  <2>1. /\ n # a.name /\ aliased' = (aliased \/ Clash(new, Recent)) /\ live' = live \cup new
        /\ Walked(own_process_borrow(r, a.name, a.how = "mut"))
        /\ a.how \in {"ref", "mut"}
    BY <1>5, <1>10
  <2>2. c = own_process_borrow(r, a.name, a.how = "mut")
    BY <2>1 DEF CheckArg
  <2>3. c \in GoodCtx /\ After(r, c)
    BY <1>1, CheckArgGood, CheckArgAfter
  <2>4. Recent' = Recent \cup new
    <3>1. \A l \in new : l.recent
      BY DEF Borrow
    <3> HIDE DEF new
    <3>2. QED BY <2>1, <3>1 DEF Recent
  <2>5. ~c.reported => ~aliased' /\ KnowsBorrows(c, Recent')
    <3>1. HAVE ~c.reported
    <3>2. ~r.reported
      BY <2>3, <3>1 DEF After
    <3>3. ~aliased /\ KnowsBorrows(r, Recent) /\ BorrowIn(r, a, Len(ctx.vars) + 1) = new
      BY <1>2, <2>1, <3>2
    <3>4. /\ KnowsBorrows(c, Recent \cup BorrowIn(r, a, Len(ctx.vars) + 1))
          /\ ~Clash(BorrowIn(r, a, Len(ctx.vars) + 1), Recent)
      BY <1>1, <3>1, <3>3, ArgBorrows
    <3> HIDE DEF c, new
    <3>5. QED BY <2>1, <2>4, <3>3, <3>4
  <2> HIDE DEF c
  <2>6. QED BY <2>1, <2>2, <2>3, <2>5, WalkedAlias
<1>11. QED BY <1>7, <1>8, <1>9, <1>10

LEMMA MentionAlias ==
  ASSUME AliasInv
  PROVE  /\ \A n \in Name : Use(n) => AliasInv'
         /\ \A a, b \in Arg : Call(a, b) => AliasInv'
         /\ \A n \in Name, a \in Arg : MethodCall(n, a) => AliasInv'
<1>1. ctx \in GoodCtx
  BY DEF AliasInv, OwnInv
<1>2. ASSUME live' = live PROVE Recent' = Recent
  BY <1>2 DEF Recent
<1>3. ASSUME NEW n \in Name, Use(n) PROVE AliasInv'
  <2> DEFINE c == own_check_use(ctx, n)
  <2>1. c \in GoodCtx /\ (~c.reported => c = ctx)
    BY <1>1, UseGood, UseAfter
  <2>2. Walked(c) /\ live' = live /\ aliased' = aliased
    BY <1>3 DEF Use, Uses
  <2> HIDE DEF c
  <2>3. ~c.reported => ~aliased' /\ KnowsBorrows(c, Recent')
    BY <1>2, <2>1, <2>2 DEF AliasInv
  <2>4. QED BY <2>1, <2>2, <2>3, WalkedAlias
<1>4. ASSUME NEW a \in Arg, NEW b \in Arg, Call(a, b) PROVE AliasInv'
  <2> DEFINE c == own_check_call(ctx, a, b)
  <2>1. c \in GoodCtx /\ After(ctx, c)
    BY <1>1, CallGood, CallAfter
  <2>2. Walked(c) /\ live' = live
        /\ aliased' = (aliased \/ Clash(Borrow(a, 0) \cup Borrow(b, 0), Recent)
                               \/ Clash(Borrow(a, 0), Borrow(b, 0)))
    BY <1>4 DEF Call, Passes
  <2>3. Borrow(a, 0) = BorrowIn(ctx, a, 0) /\ Borrow(b, 0) = BorrowIn(ctx, b, 0)
    BY <1>1, BorrowFound
  <2>4. ~c.reported => ~aliased' /\ KnowsBorrows(c, Recent')
    <3>1. HAVE ~c.reported
    <3>2. ~aliased /\ KnowsBorrows(ctx, Recent)
      BY <2>1, <3>1 DEF AliasInv, After
    <3>3. /\ KnowsBorrows(c, Recent)
          /\ ~Clash(BorrowIn(ctx, a, 0) \cup BorrowIn(ctx, b, 0), Recent)
          /\ ~Clash(BorrowIn(ctx, a, 0), BorrowIn(ctx, b, 0))
      BY <1>1, <3>1, <3>2, CallBorrows
    <3> HIDE DEF c
    <3>4. QED BY <1>2, <2>2, <2>3, <3>2, <3>3
  <2> HIDE DEF c
  <2>5. QED BY <2>1, <2>2, <2>4, WalkedAlias
<1>5. ASSUME NEW n \in Name, NEW a \in Arg, MethodCall(n, a) PROVE AliasInv'
  <2> DEFINE u == own_check_use(ctx, n)
             c == CheckMethodArg(u, a)
  <2>1. u \in GoodCtx /\ c \in GoodCtx /\ After(u, c) /\ (~u.reported => u = ctx)
    BY <1>1, UseGood, MethodArgGood, UseAfter, MethodAfter
  <2>2. Walked(c) /\ live' = live
        /\ aliased' = (aliased \/ Clash(Borrow(Read(n), 0) \cup Borrow(a, 0), Recent)
                               \/ Clash(Borrow(Read(n), 0), Borrow(a, 0)))
    BY <1>5 DEF MethodCall, Passes
  <2>3. Borrow(a, 0) = BorrowIn(ctx, a, 0) /\ Borrow(Read(n), 0) = {}
    BY <1>1, BorrowFound, NoBorrow
  <2>4. ~c.reported => ~aliased' /\ KnowsBorrows(c, Recent')
    <3>1. HAVE ~c.reported
    <3>2. u = ctx /\ ~ctx.reported
      BY <2>1, <3>1 DEF After
    <3>3. ~aliased /\ KnowsBorrows(ctx, Recent)
      BY <3>2 DEF AliasInv
    <3>4. KnowsBorrows(c, Recent) /\ ~Clash(BorrowIn(ctx, a, 0), Recent)
      BY <1>1, <3>1, <3>2, <3>3, MethodBorrows
    <3>5. ~Clash(Borrow(Read(n), 0) \cup Borrow(a, 0), Recent)
          /\ ~Clash(Borrow(Read(n), 0), Borrow(a, 0))
      BY <2>3, <3>4 DEF Clash
    <3> HIDE DEF c
    <3>6. QED BY <1>2, <2>2, <3>3, <3>4, <3>5
  <2> HIDE DEF c
  <2>5. QED BY <2>1, <2>2, <2>4, WalkedAlias
<1>6. QED BY <1>3, <1>4, <1>5

LEMMA ScopeAlias ==
  ASSUME AliasInv, CloseScope \/ (\E n \in {1, 2} : OpenScope(n)) \/ \E n \in Name : ForLoop(n)
  PROVE  AliasInv'
<1>1. ctx \in GoodCtx /\ scope_depth \in Int
  BY DEF AliasInv, OwnInv
<1>2. OwnInv'
  BY ScopeInv, ForLoopGood DEF AliasInv
<1>3. CASE \E n \in {1, 2} : OpenScope(n)
  <2>1. UNCHANGED <<ctx, live, aliased>>
    BY <1>3 DEF OpenScope, program
  <2>2. QED BY <1>2, <2>1 DEF AliasInv, Recent
<1>4. ASSUME NEW count, Forgets(count), ctx'.reported = ctx.reported PROVE AliasInv'
  <2>1. \A l \in live' : ~l.recent
    <3>1. ASSUME NEW l \in live' PROVE ~l.recent
      <4>1. PICK k \in live : l = [k EXCEPT !.recent = FALSE]
        BY <1>4, <3>1 DEF Forgets
      <4>2. QED BY <4>1
    <3>2. QED BY <3>1
  <2>2. Recent' = {} /\ aliased' = aliased
    BY <1>4, <2>1 DEF Recent, Forgets
  <2>3. QED BY <1>2, <1>4, <2>2 DEF AliasInv, KnowsBorrows
<1>5. CASE CloseScope
  <2> DEFINE n == open[Len(open)]
             once == own_pop_scope(ctx, scope_depth)
             twice == own_pop_scope(once, scope_depth - 1)
  <2>1. once \in GoodCtx /\ once.reported = ctx.reported /\ twice.reported = ctx.reported
    BY <1>1, PopGood, PopIs
  <2>2. ctx' = (IF n = 1 THEN once ELSE twice) /\ Forgets(Len(ctx'.vars))
    BY <1>5 DEF CloseScope, Popped
  <2> HIDE DEF once, twice, n
  <2>3. QED BY <1>4, <2>1, <2>2
<1>6. CASE \E n \in Name : ForLoop(n)
  <2>1. PICK n \in Name : ForLoop(n)
    BY <1>6
  <2> DEFINE r == own_register(ctx, n, TRUE)
             inner == [r EXCEPT !.vars[Len(ctx.vars) + 1].scope_depth = scope_depth + 1]
  <2>2. Forgets(Len(ctx.vars)) /\ ctx' = own_pop_scope(inner, scope_depth + 1)
    BY <2>1 DEF ForLoop, Walked
  <2>3. inner.reported = ctx.reported
    BY <1>1 DEF own_register, GoodCtx
  <2> HIDE DEF inner
  <2>4. ctx'.reported = ctx.reported
    BY <2>2, <2>3 DEF own_pop_scope
  <2>5. QED BY <1>4, <2>2, <2>4
<1>7. QED BY <1>3, <1>5, <1>6

LEMMA AliasStep ==
  ASSUME ~SelfReference, AliasInv, [Next]_vars
  PROVE  AliasInv'
<1>1. CASE UNCHANGED vars
  <2>1. OwnInv'
    BY <1>1, OwnStep DEF AliasInv
  <2>2. QED BY <1>1, <2>1 DEF AliasInv, Recent, vars, program
<1>2. CASE Next
  BY <1>2, DeclareAlias, MentionAlias, ScopeAlias DEF Next
<1>3. QED BY <1>1, <1>2

\* typecheck.c:4606-4607, "Mutable borrow while immutably borrowed" and "Double
\* mutable borrow": when no initialiser mentions the variable it declares, a function about which pass 9 says
\* nothing takes no exclusive borrow beside another borrow made since the last scope
\* was left, whichever arguments of one call, or of a call and a let, make the two.
THEOREM NoAliasedBorrow == ~SelfReference => (Spec => []AcceptedNeverAliases)
<1>1. Init => AliasInv
  <2>1. Init => OwnInv
    BY DEF Init, OwnInv, GoodCtx
  <2>2. QED BY <2>1 DEF Init, AliasInv, Recent, KnowsBorrows
<1> DEFINE Inv == ~SelfReference /\ AliasInv
<1>2. ~SelfReference /\ Init => Inv
  BY <1>1
<1>3. Inv /\ [Next]_vars => Inv'
  BY AliasStep
<1>4. Inv => AcceptedNeverAliases
  BY DEF AliasInv, AcceptedNeverAliases
<1> HIDE DEF Inv
<1>5. QED BY <1>2, <1>3, <1>4, PTL DEF Spec

-----------------------------------------------------------------------------
(***************************************************************************)
(* The scopes.  The depths at which the open constructs began make a       *)
(* ladder from that of the function's body to the present one, each rung   *)
(* one or two scopes above the last, so no scope is left that was not      *)
(* entered; and what the program's bookkeeping names is in scope.          *)
(***************************************************************************)
Ladder(d, o, depth) ==
  /\ d \in [0 .. Len(o) -> Nat]
  /\ d[0] = 2
  /\ \A k \in 1 .. Len(o) : d[k] = d[k - 1] + o[k]
  /\ d[Len(o)] = depth

DepthInv == OwnInv /\ \E d : Ladder(d, open, scope_depth)

ScopesEntered(c) == \A i \in 1 .. Len(c.vars) : c.vars[i].scope_depth \in Nat

Borrows(c) ==
  [of : 1 .. Len(c.vars), mut : BOOLEAN, holder : 1 .. Len(c.vars), recent : BOOLEAN]

ScopeTypes ==
  /\ DepthInv
  /\ Sorted(ctx, scope_depth) /\ ScopesEntered(ctx)
  /\ Len(ctx.vars) <= MaxVars
  /\ moved \subseteq 1 .. Len(ctx.vars)
  /\ live \subseteq Borrows(ctx)

LEMMA LadderUp ==
  ASSUME NEW o \in Seq({1, 2}), NEW depth, NEW d, Ladder(d, o, depth), NEW n \in {1, 2}
  PROVE  \E e : Ladder(e, Append(o, n), depth + n)
<1> DEFINE L == Len(o)
           up == Append(o, n)
           e == [k \in 0 .. L + 1 |-> IF k = L + 1 THEN d[L] + n ELSE d[k]]
<1>1. /\ L \in Nat /\ Len(up) = L + 1 /\ up[L + 1] = n
      /\ \A k \in 1 .. L : up[k] = o[k]
  OBVIOUS
<1>2. /\ \A k \in 0 .. L : d[k] \in Nat
      /\ d[0] = 2 /\ d[L] = depth
      /\ \A k \in 1 .. L : d[k] = d[k - 1] + o[k]
  BY DEF Ladder
<1> HIDE DEF L, up
<1>3. /\ e \in [0 .. L + 1 -> Nat]
      /\ e[L + 1] = d[L] + n /\ \A k \in 0 .. L : e[k] = d[k]
  BY <1>1, <1>2
<1> HIDE DEF e
<1>4. ASSUME NEW k \in 1 .. L + 1 PROVE e[k] = e[k - 1] + up[k]
  <2>1. CASE k = L + 1
    BY <1>1, <1>3, <2>1
  <2>2. CASE k # L + 1
    <3>1. k \in 1 .. L /\ k \in 0 .. L /\ k - 1 \in 0 .. L
      BY <1>1, <2>2
    <3>2. QED BY <1>1, <1>2, <1>3, <3>1
  <2>3. QED BY <2>1, <2>2
<1>5. e[0] = 2 /\ e[L + 1] = depth + n
  BY <1>1, <1>2, <1>3
<1>6. Ladder(e, up, depth + n)
  BY <1>1, <1>3, <1>4, <1>5 DEF Ladder
<1>7. QED BY <1>6 DEF up

LEMMA LadderDown ==
  ASSUME NEW o \in Seq({1, 2}), o # << >>, NEW depth, NEW d, Ladder(d, o, depth)
  PROVE  \E e : Ladder(e, SubSeq(o, 1, Len(o) - 1), depth - o[Len(o)])
<1> DEFINE L == Len(o)
           down == SubSeq(o, 1, L - 1)
           e == [k \in 0 .. L - 1 |-> d[k]]
<1>1. L \in Nat /\ L >= 1 /\ o[L] \in {1, 2}
  OBVIOUS
<1>2. Len(down) = L - 1 /\ \A k \in 1 .. L - 1 : down[k] = o[k]
  <2> DEFINE m == L - 1
  <2>1. 1 \in Int /\ m \in Int /\ \A k \in 1 .. m : o[k] \in {1, 2}
    BY <1>1
  <2>2. down = SubSeq(o, 1, m)
    OBVIOUS
  <2> HIDE DEF m, down
  <2>3. /\ Len(down) = IF 1 <= m THEN m - 1 + 1 ELSE 0
        /\ \A k \in 1 .. m - 1 + 1 : down[k] = o[1 + k - 1]
    BY <2>1, <2>2, SubSeqProperties
  <2>4. m \in Nat /\ m - 1 + 1 = m
    BY <1>1 DEF m
  <2>5. Len(down) = m /\ \A k \in 1 .. m : down[k] = o[k]
    BY <2>3, <2>4
  <2>6. QED BY <2>5 DEF m
<1>3. /\ \A k \in 0 .. L : d[k] \in Nat
      /\ d[0] = 2 /\ d[L] = depth
      /\ \A k \in 1 .. L : d[k] = d[k - 1] + o[k]
  BY DEF Ladder
<1> HIDE DEF L, down
<1>4. e \in [0 .. L - 1 -> Nat] /\ \A k \in 0 .. L - 1 : e[k] = d[k]
  BY <1>1, <1>3
<1> HIDE DEF e
<1>5. e[0] = 2 /\ \A k \in 1 .. L - 1 : e[k] = e[k - 1] + down[k]
  <2>1. 0 \in 0 .. L - 1
    BY <1>1
  <2>2. ASSUME NEW k \in 1 .. L - 1 PROVE e[k] = e[k - 1] + down[k]
    <3>1. k \in 1 .. L /\ k \in 0 .. L - 1 /\ k - 1 \in 0 .. L - 1
      BY <1>1, <2>2
    <3>2. QED BY <1>2, <1>3, <1>4, <3>1
  <2>3. QED BY <1>3, <1>4, <2>1, <2>2
<1>6. e[L - 1] = depth - o[L]
  <2>1. d[L] = d[L - 1] + o[L] /\ d[L - 1] \in Nat /\ e[L - 1] = d[L - 1]
    BY <1>1, <1>3, <1>4
  <2>2. QED BY <1>1, <1>3, <2>1
<1>7. Ladder(e, down, depth - o[L])
  BY <1>2, <1>4, <1>5, <1>6 DEF Ladder
<1>8. QED BY <1>7 DEF down, L

LEMMA DepthNatural ==
  ASSUME DepthInv
  PROVE  scope_depth \in Nat
<1>1. PICK d : Ladder(d, open, scope_depth)
  BY DEF DepthInv
<1>2. Len(open) \in 0 .. Len(open)
  BY DEF DepthInv, OwnInv
<1>3. QED BY <1>1, <1>2 DEF Ladder

LEMMA DepthStep ==
  ASSUME DepthInv, [Next]_vars
  PROVE  DepthInv'
<1>1. OwnInv' /\ open \in Seq({1, 2})
  BY OwnStep DEF DepthInv, OwnInv
<1>2. PICK d : Ladder(d, open, scope_depth)
  BY DEF DepthInv
<1>3. CASE UNCHANGED <<open, scope_depth>>
  BY <1>1, <1>2, <1>3 DEF DepthInv
<1>4. ASSUME NEW n \in {1, 2}, OpenScope(n) PROVE DepthInv'
  <2>1. open' = Append(open, n) /\ scope_depth' = scope_depth + n
    BY <1>4 DEF OpenScope
  <2>2. \E e : Ladder(e, Append(open, n), scope_depth + n)
    BY <1>1, <1>2, LadderUp
  <2>3. QED BY <1>1, <2>1, <2>2 DEF DepthInv
<1>5. CASE CloseScope
  <2>1. /\ open # << >> /\ open' = SubSeq(open, 1, Len(open) - 1)
        /\ scope_depth' = scope_depth - open[Len(open)]
    BY <1>5 DEF CloseScope
  <2>2. \E e : Ladder(e, SubSeq(open, 1, Len(open) - 1), scope_depth - open[Len(open)])
    BY <1>1, <1>2, <2>1, LadderDown
  <2>3. QED BY <1>1, <2>1, <2>2 DEF DepthInv
<1>6. ASSUME Next, ~CloseScope, ~\E n \in {1, 2} : OpenScope(n)
      PROVE  UNCHANGED <<open, scope_depth>>
  BY <1>6 DEF Next, Let, LetVariable, LetCall, LetRef, Use, Call, MethodCall, ForLoop, Walked
<1>7. QED BY <1>3, <1>4, <1>5, <1>6 DEF vars

\* What a statement names is in scope.
LEMMA NamesInScope ==
  ASSUME ctx \in GoodCtx, NEW a \in Arg
  PROVE  /\ Mentions(a) \subseteq 1 .. Len(ctx.vars)
         /\ Moves(a) \subseteq 1 .. Len(ctx.vars)
         /\ Len(ctx.vars) \in Nat
         /\ \A h : Borrow(a, h) \subseteq [of : 1 .. Len(ctx.vars), mut : BOOLEAN,
                                           holder : {h}, recent : BOOLEAN]
<1>1. /\ Meaning(a.name) \in 0 .. Len(ctx.vars) /\ Len(ctx.vars) \in Nat
  BY MeaningFound, FindIs
<1>2. /\ Mentions(a) \subseteq 1 .. Len(ctx.vars)
      /\ Moves(a) \subseteq 1 .. Len(ctx.vars)
  BY <1>1 DEF Mentions, Moves
<1>3. ASSUME NEW h, NEW l \in Borrow(a, h)
      PROVE  l \in [of : 1 .. Len(ctx.vars), mut : BOOLEAN, holder : {h}, recent : BOOLEAN]
  <2>1. PICK i \in Mentions(a) :
          l = [of |-> i, mut |-> a.how = "mut", holder |-> h, recent |-> TRUE]
    BY <1>3, Zenon DEF Borrow
  <2>2. i \in 1 .. Len(ctx.vars)
    BY <1>2, <2>1
  <2>3. QED BY <2>1, <2>2
<1>4. QED BY <1>1, <1>2, <1>3

\* A statement within the open scopes, which may declare a variable.
LEMMA WalkedTypes ==
  ASSUME ScopeTypes, DepthInv', NEW c \in GoodCtx, Walked(c),
         Sorted(c, scope_depth), ScopesEntered(c),
         Len(ctx.vars) <= Len(c.vars), Len(c.vars) <= MaxVars,
         moved' \subseteq 1 .. Len(ctx.vars),
         \A l \in live' : l \in live \/ l \in Borrows(c)
  PROVE  ScopeTypes'
<1>1. ctx' = c /\ scope_depth' = scope_depth
  BY DEF Walked
<1>2. Len(c.vars) \in Nat /\ Len(ctx.vars) \in Nat
  BY DEF GoodCtx, ScopeTypes, DepthInv, OwnInv
<1>3. 1 .. Len(ctx.vars) \subseteq 1 .. Len(c.vars)
  BY <1>2
<1>4. Borrows(ctx) \subseteq Borrows(c)
  BY <1>3 DEF Borrows
<1>5. live' \subseteq Borrows(c)
  BY <1>4 DEF ScopeTypes
<1>6. QED BY <1>1, <1>3, <1>5 DEF ScopeTypes

\* Nothing is declared.
LEMMA MentionTypes ==
  ASSUME ScopeTypes, DepthInv', NEW c \in GoodCtx, Walked(c), After(ctx, c),
         moved' \subseteq 1 .. Len(ctx.vars), live' = live
  PROVE  ScopeTypes'
<1>1. /\ Sorted(c, scope_depth) /\ Len(c.vars) = Len(ctx.vars)
      /\ \A i \in 1 .. Len(c.vars) : c.vars[i].scope_depth = ctx.vars[i].scope_depth
  <2>1. Sorted(ctx, scope_depth)
    BY DEF ScopeTypes
  <2>2. Sorted(c, scope_depth)
    BY <2>1, AfterSorted
  <2>3. QED BY <2>2 DEF After
<1>2. Len(ctx.vars) \in Nat /\ ScopesEntered(c)
  <2>1. ctx \in GoodCtx /\ ScopesEntered(ctx)
    BY DEF ScopeTypes, DepthInv, OwnInv
  <2>2. Len(ctx.vars) \in Nat
    BY <2>1 DEF GoodCtx
  <2>3. QED BY <1>1, <2>1, <2>2 DEF ScopesEntered
<1>3. Len(c.vars) <= MaxVars
  BY <1>1 DEF ScopeTypes
<1>4. Sorted(c, scope_depth) /\ Len(ctx.vars) <= Len(c.vars)
  BY <1>1, <1>2
<1>5. \A l \in live' : l \in live \/ l \in Borrows(c)
  OBVIOUS
<1>6. QED BY <1>2, <1>3, <1>4, <1>5, WalkedTypes

\* A variable is declared.
LEMMA DeclareTypes ==
  ASSUME ScopeTypes, DepthInv', NEW n \in Name, NEW copy \in BOOLEAN, Registers(n, copy),
         NEW c \in GoodCtx, Walked(c), After(own_register(ctx, n, copy), c),
         moved' \subseteq 1 .. Len(ctx.vars),
         \A l \in live' : l \in live \/ l \in Borrows(c)
  PROVE  ScopeTypes'
<1> DEFINE r == own_register(ctx, n, copy)
<1>1. ctx \in GoodCtx /\ scope_depth \in Nat /\ Len(ctx.vars) \in Nat /\ MaxVars \in Nat
  BY DepthNatural, OwnershipAssumption DEF ScopeTypes, DepthInv, OwnInv, GoodCtx
<1>2. r \in GoodCtx /\ Sorted(r, scope_depth)
  BY <1>1, RegisterGood, RegisterSorted DEF ScopeTypes
<1>3. /\ Len(r.vars) = Len(ctx.vars) + 1
      /\ r.vars[Len(ctx.vars) + 1].scope_depth = scope_depth
      /\ \A j \in 1 .. Len(ctx.vars) : r.vars[j] = ctx.vars[j]
  BY <1>1 DEF own_register, GoodCtx
<1> HIDE DEF r
<1>4. /\ Sorted(c, scope_depth) /\ Len(c.vars) = Len(r.vars)
      /\ \A i \in 1 .. Len(c.vars) : c.vars[i].scope_depth = r.vars[i].scope_depth
  BY <1>2, AfterSorted DEF After, r
<1>5. ScopesEntered(c)
  <2>1. ASSUME NEW i \in 1 .. Len(c.vars) PROVE c.vars[i].scope_depth \in Nat
    <3>1. CASE i = Len(ctx.vars) + 1
      BY <1>1, <1>3, <1>4, <3>1
    <3>2. CASE i # Len(ctx.vars) + 1
      <4>1. i \in 1 .. Len(ctx.vars)
        BY <1>1, <1>3, <1>4, <3>2
      <4>2. QED BY <1>3, <1>4, <4>1 DEF ScopeTypes, ScopesEntered
    <3>3. QED BY <3>1, <3>2
  <2>2. QED BY <2>1 DEF ScopesEntered
<1>6. Len(ctx.vars) <= Len(c.vars) /\ Len(c.vars) <= MaxVars
  BY <1>1, <1>3, <1>4 DEF Registers
<1>7. QED BY <1>4, <1>5, <1>6, WalkedTypes

LEMMA DeclarationTypes ==
  ASSUME ScopeTypes, DepthInv', NEW n \in Name, NEW copy \in BOOLEAN
  PROVE  /\ Let(n, copy) => ScopeTypes'
         /\ \A m \in Name : LetVariable(n, m, copy) => ScopeTypes'
         /\ \A a \in Arg : LetCall(n, a, copy) \/ LetRef(n, a, copy) => ScopeTypes'
<1> DEFINE r == own_register(ctx, n, copy)
           none == [how |-> "expr", name |-> "none"]
<1>1. /\ ctx \in GoodCtx /\ r \in GoodCtx /\ none \in Arg
      /\ moved \subseteq 1 .. Len(ctx.vars)
  BY RegisterGood, NoArgument DEF ScopeTypes, DepthInv, OwnInv
<1>2. Moves(none) = {}
  BY DEF Moves
<1>3. Len(r.vars) = Len(ctx.vars) + 1 /\ Len(ctx.vars) \in Nat
  BY <1>1 DEF own_register, GoodCtx
<1> HIDE DEF r, none
<1>4. ASSUME Let(n, copy) PROVE ScopeTypes'
  <2>1. Registers(n, copy) /\ Walked(r) /\ moved' = moved /\ live' = live
    BY <1>4 DEF Let, program, r
  <2>2. QED BY <1>1, <2>1, AfterItself, DeclareTypes DEF r
<1>5. ASSUME NEW m \in Name, LetVariable(n, m, copy) PROVE ScopeTypes'
  <2> DEFINE c == own_check_use(r, m)
  <2>1. Registers(n, copy) /\ Walked(c) /\ moved' = moved /\ live' = live
    BY <1>5 DEF LetVariable, Uses, r
  <2>2. c \in GoodCtx /\ After(r, c)
    BY <1>1, UseGood, UseAfter
  <2> HIDE DEF c
  <2>3. QED BY <1>1, <2>1, <2>2, DeclareTypes DEF r
<1>6. ASSUME NEW a \in Arg, LetCall(n, a, copy) PROVE ScopeTypes'
  <2> DEFINE c == own_check_call(r, a, none)
  <2>1. /\ Registers(n, copy) /\ Walked(c) /\ live' = live
        /\ moved' = moved \cup Moves(a) \cup Moves(none)
    BY <1>6 DEF LetCall, Passes, r, none
  <2>2. c \in GoodCtx /\ After(r, c)
    BY <1>1, CallGood, CallAfter
  <2>3. moved' \subseteq 1 .. Len(ctx.vars)
    BY <1>1, <1>2, <2>1, NamesInScope
  <2> HIDE DEF c
  <2>4. QED BY <2>1, <2>2, <2>3, DeclareTypes DEF r
<1>7. ASSUME NEW a \in Arg, LetRef(n, a, copy) PROVE ScopeTypes'
  <2> DEFINE c == CheckArg(r, a)
             new == Borrow(a, Len(ctx.vars) + 1)
  <2>1. /\ a.how \in {"ref", "mut"} /\ Registers(n, copy)
        /\ Walked(own_process_borrow(r, a.name, a.how = "mut"))
        /\ moved' = moved /\ live' = live \cup new
    BY <1>7 DEF LetRef, r
  <2>2. Walked(c)
    BY <2>1 DEF CheckArg
  <2>3. c \in GoodCtx /\ After(r, c)
    BY <1>1, CheckArgGood, CheckArgAfter
  <2>4. Len(c.vars) = Len(ctx.vars) + 1
    BY <1>3, <2>3 DEF After
  <2>5. new \subseteq [of : 1 .. Len(ctx.vars), mut : BOOLEAN,
                       holder : {Len(ctx.vars) + 1}, recent : BOOLEAN]
    BY <1>1, NamesInScope
  <2> HIDE DEF c, new
  <2>6. 1 .. Len(ctx.vars) \subseteq 1 .. Len(c.vars) /\ Len(ctx.vars) + 1 \in 1 .. Len(c.vars)
    BY <1>3, <2>4
  <2>7. new \subseteq Borrows(c)
    BY <2>5, <2>6 DEF Borrows
  <2>8. QED BY <1>1, <2>1, <2>2, <2>3, <2>7, DeclareTypes DEF r
<1>8. QED BY <1>4, <1>5, <1>6, <1>7

LEMMA StatementTypes ==
  ASSUME ScopeTypes, DepthInv'
  PROVE  /\ \A n \in Name : Use(n) => ScopeTypes'
         /\ \A a, b \in Arg : Call(a, b) => ScopeTypes'
         /\ \A n \in Name, a \in Arg : MethodCall(n, a) => ScopeTypes'
<1>1. ctx \in GoodCtx /\ moved \subseteq 1 .. Len(ctx.vars)
  BY DEF ScopeTypes, DepthInv, OwnInv
<1>2. ASSUME NEW n \in Name, Use(n) PROVE ScopeTypes'
  <2> DEFINE c == own_check_use(ctx, n)
  <2>1. Walked(c) /\ moved' = moved /\ live' = live
    BY <1>2 DEF Use, Uses
  <2>2. c \in GoodCtx /\ After(ctx, c)
    BY <1>1, UseGood, UseAfter
  <2> HIDE DEF c
  <2>3. QED BY <1>1, <2>1, <2>2, MentionTypes
<1>3. ASSUME NEW a \in Arg, NEW b \in Arg, Call(a, b) PROVE ScopeTypes'
  <2> DEFINE c == own_check_call(ctx, a, b)
  <2>1. Walked(c) /\ moved' = moved \cup Moves(a) \cup Moves(b) /\ live' = live
    BY <1>3 DEF Call, Passes
  <2>2. c \in GoodCtx /\ After(ctx, c)
    BY <1>1, CallGood, CallAfter
  <2>3. moved' \subseteq 1 .. Len(ctx.vars)
    BY <1>1, <2>1, NamesInScope
  <2> HIDE DEF c
  <2>4. QED BY <2>1, <2>2, <2>3, MentionTypes
<1>4. ASSUME NEW n \in Name, NEW a \in Arg, MethodCall(n, a) PROVE ScopeTypes'
  <2> DEFINE u == own_check_use(ctx, n)
             c == CheckMethodArg(u, a)
  <2>1. /\ Walked(c) /\ moved' = moved \cup Moves(Read(n)) \cup Moves(a)
        /\ live' = live
    BY <1>4 DEF MethodCall, Passes
  <2>2. u \in GoodCtx /\ c \in GoodCtx /\ After(ctx, u) /\ After(u, c)
    BY <1>1, UseGood, MethodArgGood, UseAfter, MethodAfter
  <2>3. moved' \subseteq 1 .. Len(ctx.vars)
    BY <1>1, <2>1, ReadIs, NamesInScope
  <2> HIDE DEF c, u
  <2>4. QED BY <2>1, <2>2, <2>3, AfterAfter, MentionTypes
<1>5. QED BY <1>2, <1>3, <1>4

\* A scope is left, or a for loop passed: what remains is in scope.
LEMMA ForgetsTypes ==
  ASSUME ScopeTypes, NEW c \in GoodCtx, ctx' = c, Len(c.vars) <= Len(ctx.vars),
         Forgets(Len(c.vars)),
         \A j \in 1 .. Len(c.vars) : c.vars[j].scope_depth = ctx.vars[j].scope_depth
  PROVE  /\ ScopesEntered(c) /\ Len(c.vars) <= MaxVars
         /\ moved' \subseteq 1 .. Len(c.vars) /\ live' \subseteq Borrows(c)
<1>1. Len(ctx.vars) \in Nat /\ Len(c.vars) \in Nat /\ MaxVars \in Nat
  BY OwnershipAssumption DEF ScopeTypes, DepthInv, OwnInv, GoodCtx
<1>2. ScopesEntered(c) /\ Len(c.vars) <= MaxVars
  <2>1. \A j \in 1 .. Len(c.vars) : j \in 1 .. Len(ctx.vars)
    BY <1>1
  <2>2. QED BY <1>1, <2>1 DEF ScopeTypes, ScopesEntered
<1>3. moved' \subseteq 1 .. Len(c.vars)
  BY DEF Forgets
<1>4. ASSUME NEW l \in live' PROVE l \in Borrows(c)
  <2>1. PICK k \in live : /\ k.holder <= Len(c.vars) /\ k.of <= Len(c.vars)
                          /\ l = [k EXCEPT !.recent = FALSE]
    BY <1>4 DEF Forgets
  <2>2. k \in Borrows(ctx)
    BY <2>1 DEF ScopeTypes
  <2>3. k.holder \in 1 .. Len(c.vars) /\ k.of \in 1 .. Len(c.vars)
    BY <1>1, <2>1, <2>2 DEF Borrows
  <2>4. QED BY <2>1, <2>2, <2>3 DEF Borrows
<1>5. QED BY <1>2, <1>3, <1>4

LEMMA ScopesTypes ==
  ASSUME ScopeTypes, DepthInv'
  PROVE  /\ \A n \in Name : ForLoop(n) => ScopeTypes'
         /\ \A n \in {1, 2} : OpenScope(n) => ScopeTypes'
         /\ CloseScope => ScopeTypes'
<1>1. /\ ctx \in GoodCtx /\ Sorted(ctx, scope_depth) /\ scope_depth \in Int
      /\ open \in Seq({1, 2}) /\ Len(ctx.vars) \in Nat
  BY DEF ScopeTypes, DepthInv, OwnInv, GoodCtx
<1>2. ASSUME NEW n \in Name, ForLoop(n) PROVE ScopeTypes'
  <2>1. /\ ctx' \in GoodCtx /\ Sorted(ctx', scope_depth) /\ Walked(ctx')
        /\ Len(ctx'.vars) = Len(ctx.vars)
        /\ \A j \in 1 .. Len(ctx.vars) : ctx'.vars[j] = PopRelease(ctx.vars[j])
    BY <1>1, <1>2, ForLoopIs
  <2>2. \A j \in 1 .. Len(ctx.vars) : ctx'.vars[j].scope_depth = ctx.vars[j].scope_depth
    BY <1>1, <2>1, At, PopReleaseKeeps
  <2>3. Forgets(Len(ctx'.vars))
    BY <1>2, <2>1 DEF ForLoop
  <2>4. /\ ScopesEntered(ctx') /\ Len(ctx'.vars) <= MaxVars
        /\ moved' \subseteq 1 .. Len(ctx'.vars) /\ live' \subseteq Borrows(ctx')
    BY <1>1, <2>1, <2>2, <2>3, ForgetsTypes
  <2>5. QED BY <2>1, <2>4 DEF ScopeTypes, Walked
<1>3. ASSUME NEW n \in {1, 2}, OpenScope(n) PROVE ScopeTypes'
  <2>1. /\ ctx' = ctx /\ scope_depth' = scope_depth + n
        /\ moved' = moved /\ live' = live
    BY <1>3 DEF OpenScope, program
  <2>2. Sorted(ctx, scope_depth + n)
    BY <1>1, DepthType DEF Sorted
  <2>3. QED BY <2>1, <2>2 DEF ScopeTypes
<1>4. ASSUME CloseScope PROVE ScopeTypes'
  <2> DEFINE n == open[Len(open)]
             once == own_pop_scope(ctx, scope_depth)
             twice == own_pop_scope(once, scope_depth - 1)
  <2>1. n \in {1, 2}
    BY <1>1, <1>4 DEF CloseScope
  <2>2. /\ ctx' = IF n = 1 THEN once ELSE twice
        /\ scope_depth' = scope_depth - n /\ Forgets(Len(ctx'.vars))
    BY <1>4 DEF CloseScope, Popped
  <2>3. once \in GoodCtx /\ twice \in GoodCtx
    BY <1>1, PopGood
  <2>4. Sorted(once, scope_depth - 1) /\ Sorted(twice, scope_depth - 1 - 1)
    BY <1>1, <2>3, PopSorted
  <2>5. /\ Len(once.vars) \in 0 .. Len(ctx.vars) /\ Len(twice.vars) \in 0 .. Len(once.vars)
        /\ \A j \in 1 .. Len(once.vars) : once.vars[j] = PopRelease(ctx.vars[j])
        /\ \A j \in 1 .. Len(twice.vars) : twice.vars[j] = PopRelease(once.vars[j])
    BY <1>1, <2>3, PopIs, OutsideBounds
  <2> HIDE DEF n, once, twice
  <2>6. \A j \in 1 .. Len(once.vars) : once.vars[j].scope_depth = ctx.vars[j].scope_depth
    BY <1>1, <2>5, At, PopReleaseKeeps
  <2>7. \A j \in 1 .. Len(twice.vars) : twice.vars[j].scope_depth = ctx.vars[j].scope_depth
    <3>1. TAKE j \in 1 .. Len(twice.vars)
    <3>2. j \in 1 .. Len(once.vars)
      BY <2>5
    <3>3. twice.vars[j].scope_depth = once.vars[j].scope_depth
      BY <2>3, <2>5, <3>2, At, PopReleaseKeeps
    <3>4. QED BY <2>6, <3>2, <3>3
  <2>8. CASE n = 1
    <3>1. ctx' = once /\ scope_depth' = scope_depth - 1 /\ Forgets(Len(once.vars))
      BY <2>2, <2>8
    <3>2. QED BY <1>1, <2>3, <2>4, <2>5, <2>6, <3>1, ForgetsTypes DEF ScopeTypes
  <2>9. CASE n = 2
    <3>1. ctx' = twice /\ scope_depth' = scope_depth - 1 - 1 /\ Forgets(Len(twice.vars))
      BY <1>1, <2>2, <2>9
    <3>2. QED BY <1>1, <2>3, <2>4, <2>5, <2>7, <3>1, ForgetsTypes DEF ScopeTypes
  <2>10. QED BY <2>1, <2>8, <2>9
<1>5. QED BY <1>2, <1>3, <1>4

LEMMA ScopeTypesHold == Spec => []ScopeTypes
<1>1. Init => ScopeTypes
  <2>1. ASSUME Init PROVE ScopeTypes
    <3>1. /\ ctx.vars = << >> /\ scope_depth = 2 /\ open = << >> /\ moved = {} /\ live = {}
          /\ OwnInv
      BY <2>1 DEF Init, OwnInv, GoodCtx
    <3> DEFINE d == [k \in 0 .. 0 |-> 2]
    <3>2. Ladder(d, open, scope_depth)
      BY <3>1 DEF Ladder
    <3>3. QED BY <3>1, <3>2, OwnershipAssumption
              DEF ScopeTypes, DepthInv, Sorted, ScopesEntered
  <2>2. QED BY <2>1
<1>2. ScopeTypes /\ [Next]_vars => ScopeTypes'
  <2> SUFFICES ASSUME ScopeTypes, [Next]_vars PROVE ScopeTypes'
    OBVIOUS
  <2>1. DepthInv'
    BY DepthStep DEF ScopeTypes
  <2>2. CASE UNCHANGED vars
    BY <2>1, <2>2 DEF vars, program, ScopeTypes
  <2>3. CASE Next
    BY <2>1, <2>3, DeclarationTypes, StatementTypes, ScopesTypes DEF Next
  <2>4. QED BY <2>2, <2>3
<1>3. QED BY <1>1, <1>2, PTL DEF Spec

\* typecheck.c:4648, own_pop_scope: a scope is left only after it was entered, the
\* list of variables stays within its array, and what was moved or is borrowed, and
\* who holds it, is in scope; also when initialisers mention the name they define.
THEOREM ScopesNest == Spec => []TypeOK
<1>1. ScopeTypes => TypeOK
  <2> SUFFICES ASSUME ScopeTypes PROVE TypeOK
    OBVIOUS
  <2>1. ctx \in GoodCtx /\ scope_depth \in Nat
    BY DepthNatural DEF ScopeTypes, DepthInv, OwnInv
  <2>2. ctx.vars \in Seq(Variable)
    <3>1. ASSUME NEW i \in 1 .. Len(ctx.vars) PROVE ctx.vars[i] \in Variable
      <4>1. ctx.vars[i] \in Tracked /\ ctx.vars[i].scope_depth \in Nat
        BY <2>1, At DEF GoodVar, ScopeTypes, ScopesEntered
      <4>2. QED BY <4>1 DEF Tracked, Variable
    <3>2. ctx.vars \in Seq(GoodVar)
      BY <2>1 DEF GoodCtx
    <3>3. QED BY <3>1, <3>2
  <2>3. QED BY <2>1, <2>2 DEF ScopeTypes, Sorted, Borrows, GoodCtx, TypeOK
<1>2. QED BY <1>1, ScopeTypesHold, PTL

\* The variables of the innermost scope are the last of the list.
ScopeIsLast ==
  \A i \in 1 .. Len(ctx.vars) :
    ctx.vars[i].scope_depth < scope_depth <=> i <= Outside(ctx, scope_depth)

\* typecheck.c:4668-4672, "Remove variables declared at this scope depth": the loop
\* drops variables from the end of the list until one lies outside the scope, and so
\* drops every variable of the scope and no other, however scopes and names nest.
THEOREM ScopeCut == Spec => []ScopeIsLast
<1>1. ScopeTypes => ScopeIsLast
  <2> SUFFICES ASSUME ScopeTypes, NEW i \in 1 .. Len(ctx.vars)
               PROVE  ctx.vars[i].scope_depth < scope_depth <=> i <= Outside(ctx, scope_depth)
    BY DEF ScopeIsLast
  <2>1. /\ ctx \in GoodCtx /\ scope_depth \in Int /\ Len(ctx.vars) \in Nat
        /\ Outside(ctx, scope_depth) \in Nat
        /\ \A j \in 1 .. Len(ctx.vars) : ctx.vars[j].scope_depth \in Int
    BY OutsideBounds, DepthType DEF ScopeTypes, DepthInv, OwnInv
  <2>2. CASE ctx.vars[i].scope_depth < scope_depth
    <3>1. \A j \in 1 .. i : ctx.vars[j].scope_depth < scope_depth
      BY <2>1, <2>2 DEF ScopeTypes, Sorted
    <3>2. i \in 0 .. Len(ctx.vars)
      BY <2>1
    <3>3. QED BY <2>1, <2>2, <3>1, <3>2, OutsideBounds
  <2>3. CASE ~(ctx.vars[i].scope_depth < scope_depth)
    <3>1. ASSUME NEW j \in 1 .. Len(ctx.vars), ctx.vars[j].scope_depth < scope_depth
          PROVE  j <= i - 1
      <4>1. ~(i <= j)
        BY <2>1, <2>3, <3>1 DEF ScopeTypes, Sorted
      <4>2. QED BY <2>1, <4>1
    <3>2. i - 1 \in 0 .. Len(ctx.vars)
      BY <2>1
    <3>3. Outside(ctx, scope_depth) <= i - 1
      BY <2>1, <3>1, <3>2, OutsideBounds
    <3>4. QED BY <2>1, <2>3, <3>3
  <2>4. QED BY <2>2, <2>3
<1>2. QED BY <1>1, ScopeTypesHold, PTL

(***************************************************************************)
(* Dispatch: what a sequence of calls costs.  The sum is a recursive       *)
(* function, a CHOOSE of a function that satisfies its equation; that one  *)
(* exists and is unique up to its length follows from the least index at   *)
(* which it would fail.                                                    *)
(***************************************************************************)
\* The sums of the first 0, 1, 2, ... of n amounts.
Sums(f, n, amount) ==
  f = [k \in 0 .. n |-> IF k = 0 THEN 0 ELSE f[k - 1] + amount[k]]

LEMMA SumsExist ==
  ASSUME NEW n \in Nat, NEW amount
  PROVE  \E f : Sums(f, n, amount)
<1> DEFINE Bad == {k \in Nat : \A f : ~Sums(f, k, amount)}
<1>1. SUFFICES ASSUME Bad # {} PROVE FALSE
  OBVIOUS
<1>2. PICK k \in Bad : \A j \in Bad : k <= j
  BY <1>1, LeastNatural
<1>3. CASE k = 0
  <2>1. Sums([i \in 0 .. 0 |-> 0], 0, amount)
    BY DEF Sums
  <2> QED
    BY <1>3, <2>1
<1>4. CASE k # 0
  <2>1. k - 1 \in Nat /\ k \in Nat /\ ~(k <= k - 1)
    BY <1>4
  <2>2. PICK f : Sums(f, k - 1, amount)
    BY <1>2, <2>1
  <2> DEFINE g == [i \in 0 .. k |-> IF i = k THEN f[k - 1] + amount[k] ELSE f[i]]
  <2>3. ASSUME NEW i \in 0 .. k
        PROVE  g[i] = IF i = 0 THEN 0 ELSE g[i - 1] + amount[i]
    <3>1. CASE i = k
      BY <1>4, <2>1, <3>1
    <3>2. CASE i # k
      <4>1. i \in 0 .. k - 1 /\ (i # 0 => i - 1 \in 0 .. k - 1)
        BY <3>2
      <4>2. f[i] = IF i = 0 THEN 0 ELSE f[i - 1] + amount[i]
        BY <2>2, <4>1 DEF Sums
      <4>3. g[i] = f[i] /\ (i # 0 => g[i - 1] = f[i - 1])
        BY <3>2, <4>1
      <4> QED
        BY <4>2, <4>3
    <3> QED
      BY <3>1, <3>2
  <2>4. Sums(g, k, amount)
    BY <2>3 DEF Sums
  <2> QED
    BY <2>4
<1> QED
  BY <1>3, <1>4

\* Two such sums agree where both are defined and have the same amounts.
LEMMA SumsAgree ==
  ASSUME NEW n \in Nat, NEW m \in Nat, n <= m, NEW f, NEW g, NEW amount, NEW other,
         Sums(f, n, amount), Sums(g, m, other),
         \A i \in 1 .. n : amount[i] = other[i]
  PROVE  f[n] = g[n]
<1> DEFINE Bad == {k \in 0 .. n : f[k] # g[k]}
<1>1. SUFFICES ASSUME Bad # {} PROVE FALSE
  OBVIOUS
<1>2. PICK k \in Bad : \A j \in Bad : k <= j
  <2>1. Bad \in SUBSET Nat
    OBVIOUS
  <2> HIDE DEF Bad
  <2> QED
    BY <1>1, <2>1, LeastNatural
<1>3. /\ f[k] = IF k = 0 THEN 0 ELSE f[k - 1] + amount[k]
      /\ g[k] = IF k = 0 THEN 0 ELSE g[k - 1] + other[k]
  BY <1>2 DEF Sums
<1>4. k # 0 => k - 1 \notin Bad /\ k - 1 \in 0 .. n /\ k \in 1 .. n
  BY <1>2
<1> QED
  BY <1>2, <1>3, <1>4

\* The prices of a sequence of calls.
Prices(b, calls) == [i \in 1 .. Len(calls) |-> Cost(b, calls[i].f)]

LEMMA SpentIsSum ==
  ASSUME NEW b, NEW calls, Len(calls) \in Nat
  PROVE  \E f : Sums(f, Len(calls), Prices(b, calls)) /\ Spent(b, calls) = f[Len(calls)]
<1> DEFINE L == Len(calls)
           Spends(f) == f = [n \in 0 .. L |-> IF n = 0 THEN 0 ELSE f[n - 1] + Cost(b, calls[n].f)]
<1>1. ASSUME NEW f PROVE Spends(f) <=> Sums(f, L, Prices(b, calls))
  <2>1. ASSUME NEW k \in 0 .. L, k # 0
        PROVE  Prices(b, calls)[k] = Cost(b, calls[k].f)
    BY <2>1 DEF Prices
  <2>2. [k \in 0 .. L |-> IF k = 0 THEN 0 ELSE f[k - 1] + Cost(b, calls[k].f)]
          = [k \in 0 .. L |-> IF k = 0 THEN 0 ELSE f[k - 1] + Prices(b, calls)[k]]
    BY <2>1
  <2> QED
    BY <2>2 DEF Sums
<1>2. \E f : Spends(f)
  BY <1>1, SumsExist
<1>3. Spends(CHOOSE f : Spends(f))
  BY <1>2
<1>4. Spent(b, calls) = (CHOOSE f : Spends(f))[L]
  BY DEF Spent
<1> QED
  BY <1>1, <1>3, <1>4

\* What a sequence of calls costs, from its first call to its last.
LEMMA SpentEmpty ==
  ASSUME NEW b
  PROVE  Spent(b, <<>>) = 0
<1>1. PICK f : Sums(f, 0, Prices(b, <<>>)) /\ Spent(b, <<>>) = f[0]
  BY SpentIsSum
<1> QED
  BY <1>1 DEF Sums

\* A sequence of whatever elements.
IsSequence(s) == s \in Seq(ToSet(s))

LEMMA AppendToSequence ==
  ASSUME NEW s, IsSequence(s), NEW e
  PROVE  /\ IsSequence(Append(s, e))
         /\ Len(s) \in Nat /\ Len(Append(s, e)) = Len(s) + 1
         /\ \A k \in 1 .. Len(s) : Append(s, e)[k] = s[k]
         /\ Append(s, e)[Len(s) + 1] = e
<1> DEFINE S == ToSet(s) \cup {e}
           u == Append(s, e)
<1>1. s \in Seq(S)
  <2>1. s \in Seq(ToSet(s)) /\ ToSet(s) \subseteq S
    BY DEF IsSequence
  <2> QED
    BY <2>1
<1>2. /\ u \in Seq(S) /\ Len(u) = Len(s) + 1 /\ Len(s) \in Nat
      /\ \A k \in 1 .. Len(s) : u[k] = s[k]
      /\ u[Len(s) + 1] = e
  BY <1>1
<1>3. u \in Seq(ToSet(u))
  BY <1>2 DEF ToSet
<1> QED
  BY <1>2, <1>3 DEF IsSequence

LEMMA SpentAppend ==
  ASSUME NEW b, NEW calls, IsSequence(calls), NEW c
  PROVE  Spent(b, Append(calls, c)) = Spent(b, calls) + Cost(b, c.f)
<1> DEFINE more == Append(calls, c)
           L == Len(calls)
<1>1. /\ L \in Nat /\ Len(more) = L + 1
      /\ \A k \in 1 .. L : more[k] = calls[k]
      /\ more[L + 1] = c
  BY AppendToSequence
<1>2. PICK f : Sums(f, L, Prices(b, calls)) /\ Spent(b, calls) = f[L]
  BY <1>1, SpentIsSum
<1>3. PICK g : Sums(g, L + 1, Prices(b, more)) /\ Spent(b, more) = g[L + 1]
  <2>1. Len(more) \in Nat
    BY <1>1
  <2> QED
    BY <1>1, <2>1, SpentIsSum
<1>4. /\ \A i \in 1 .. L : Prices(b, calls)[i] = Prices(b, more)[i]
      /\ Prices(b, more)[L + 1] = Cost(b, c.f)
  BY <1>1 DEF Prices
<1> HIDE DEF more, L
<1>5. f[L] = g[L]
  <2>1. L <= L + 1 /\ L + 1 \in Nat
    BY <1>1
  <2> QED
    BY <1>1, <1>2, <1>3, <1>4, <2>1, SumsAgree
<1>6. g[L + 1] = g[L] + Prices(b, more)[L + 1]
  BY <1>1, <1>3 DEF Sums
<1> QED
  BY <1>2, <1>3, <1>4, <1>5, <1>6 DEF more

(***************************************************************************)
(* The fences.  What was spent and what is left never exceed the declared  *)
(* budget together; a refused call may leave less than that, since the     *)
(* fences before the one that refused have charged it.                     *)
(***************************************************************************)
FenceInv ==
  /\ IsSequence(sent)
  /\ declared \in [ToSet(Budgets) -> Nat]
  /\ left \in [ToSet(Budgets) -> Nat]
  /\ \A b \in ToSet(Budgets) :
        Spent(b, sent) \in Nat /\ Spent(b, sent) + left[b] <= declared[b]

LEMMA CostNatural ==
  ASSUME NEW b \in ToSet(Budgets), NEW f
  PROVE  Cost(b, f) \in Nat
BY PricesAssumption DEF Cost

\* A fence that was passed had enough left.
LEMMA PassedCovers ==
  ASSUME FenceInv, NEW f, NEW i \in Passed(f)
  PROVE  Cost(Budgets[i], f) <= left[Budgets[i]]
<1>1. Budgets[i] \in ToSet(Budgets) /\ i \in DOMAIN Budgets
  BY DEF Passed, ToSet
<1>2. Cost(Budgets[i], f) \in Nat /\ left[Budgets[i]] \in Nat
  BY <1>1, CostNatural DEF FenceInv
<1>3. i \in 1 .. i
  BY <1>1, BudgetsAssumption
<1>4. ~Refuses(Budgets[i], f)
  BY <1>3 DEF Passed
<1> QED
  BY <1>2, <1>4 DEF Refuses

LEMMA FenceInvStep == FenceInv /\ [DispatchNext]_machine => FenceInv'
<1> SUFFICES ASSUME FenceInv, [DispatchNext]_machine PROVE FenceInv'
  OBVIOUS
<1>1. CASE HostCall
  <2> DEFINE f == Inst.f
             call == [f |-> f, arg |-> Local(Inst.arg)]
             all == Passed(f) = DOMAIN Budgets
  <2>1. /\ declared' = declared
        /\ left' = [b \in DOMAIN left |-> Charged(b, f)]
        /\ sent' = IF all THEN Append(sent, call) ELSE sent
    BY <1>1 DEF HostCall
  <2>2. ASSUME NEW b \in ToSet(Budgets)
        PROVE  /\ left'[b] \in Nat /\ left'[b] <= left[b]
               /\ all => left'[b] = left[b] - Cost(b, f)
    <3>1. left'[b] = Charged(b, f) /\ left[b] \in Nat /\ Cost(b, f) \in Nat
      BY <2>1, CostNatural DEF FenceInv
    <3>2. \A i \in Passed(f) : Budgets[i] = b => Cost(b, f) <= left[b]
      BY PassedCovers
    <3>3. all => \E i \in Passed(f) : Budgets[i] = b
      BY DEF ToSet
    <3> QED
      BY <3>1, <3>2, <3>3 DEF Charged
  <2>3. IsSequence(sent')
    BY <2>1, AppendToSequence DEF FenceInv
  <2>4. left' \in [ToSet(Budgets) -> Nat]
    BY <2>1, <2>2 DEF FenceInv
  <2>5. ASSUME NEW b \in ToSet(Budgets)
        PROVE  Spent(b, sent') \in Nat /\ Spent(b, sent') + left'[b] <= declared[b]
    <3>1. /\ Spent(b, sent) \in Nat /\ Spent(b, sent) + left[b] <= declared[b]
          /\ left[b] \in Nat /\ declared[b] \in Nat /\ Cost(b, f) \in Nat
      BY CostNatural DEF FenceInv
    <3>2. CASE all
      <4>1. Spent(b, sent') = Spent(b, sent) + Cost(b, call.f)
        BY <2>1, <3>2, SpentAppend DEF FenceInv
      <4>2. Spent(b, sent') = Spent(b, sent) + Cost(b, f)
        BY <4>1
      <4> QED
        BY <2>2, <3>1, <3>2, <4>2
    <3>3. CASE ~all
      <4>1. sent' = sent
        BY <2>1, <3>3
      <4>2. Spent(b, sent') = Spent(b, sent)
        BY <4>1
      <4> QED
        BY <2>2, <3>1, <4>2
    <3> QED
      BY <3>2, <3>3
  <2> QED
    BY <2>1, <2>3, <2>4, <2>5 DEF FenceInv
<1>2. CASE UNCHANGED <<declared, left, sent>>
  BY <1>2 DEF FenceInv
<1> QED
  BY <1>1, <1>2 DEF DispatchNext, Step, Compute, Store, Jump, Finish, HostAnswer, machine

\* Whatever code runs, and whatever the host answers, the calls it has received
\* cost no more than any declared budget: the fences of emit_instruction.
THEOREM BudgetsHold == DispatchSpec => []CallsWithinBudget
<1>1. Enter => FenceInv
  BY DeclaredAssumption, SpentEmpty DEF Enter, FenceInv, IsSequence
<1>2. FenceInv => CallsWithinBudget
  BY DEF FenceInv, CallsWithinBudget
<1> QED
  BY <1>1, <1>2, FenceInvStep, PTL DEF DispatchSpec

\* The globals of the budgets (i32 and i64) stay between zero and the declared
\* budget: the subtraction of a fence never wraps around.
FencesNeverWrap == \A b \in ToSet(Budgets) : left[b] \in 0 .. declared[b]

THEOREM BudgetGlobalsInRange == DispatchSpec => []FencesNeverWrap
<1>1. Enter => FenceInv
  BY DeclaredAssumption, SpentEmpty DEF Enter, FenceInv, IsSequence
<1>2. FenceInv => FencesNeverWrap
  <2> SUFFICES ASSUME FenceInv, NEW b \in ToSet(Budgets) PROVE left[b] \in 0 .. declared[b]
    BY DEF FencesNeverWrap
  <2>1. left[b] \in Nat /\ declared[b] \in Nat /\ Spent(b, sent) \in Nat
    BY DEF FenceInv
  <2>2. Spent(b, sent) + left[b] <= declared[b]
    BY DEF FenceInv
  <2> QED
    BY <2>1, <2>2
<1> QED
  BY <1>1, <1>2, FenceInvStep, PTL DEF DispatchSpec

(***************************************************************************)
(* Calls and answers alternate, and a function that has returned has no    *)
(* call outstanding: no answer can arrive in a function that is over.      *)
(***************************************************************************)
CallInv ==
  /\ IsSequence(sent) /\ IsSequence(answers)
  /\ Len(sent) \in {Len(answers), Len(answers) + 1}
  /\ result # Running => Len(sent) = Len(answers)

LEMMA CallInvStep == CallInv /\ [DispatchNext]_machine => CallInv'
<1> SUFFICES ASSUME CallInv, [DispatchNext]_machine PROVE CallInv'
  OBVIOUS
<1> USE DEF CallInv
<1>1. CASE HostCall
  <2>1. result = Running /\ Len(sent) = Len(answers) /\ answers' = answers
    <3>1. result = Running /\ ~Waiting /\ answers' = answers
      BY <1>1 DEF HostCall, Runs
    <3>2. Len(sent) \in Nat /\ Len(answers) \in Nat
      BY AppendToSequence
    <3> QED
      BY <3>1, <3>2 DEF Waiting
  <2>2. CASE \E c : sent' = Append(sent, c) /\ result' = result
    BY <2>1, <2>2, AppendToSequence
  <2>3. CASE sent' = sent
    BY <2>1, <2>3
  <2> QED
    BY <1>1, <2>2, <2>3 DEF HostCall
<1>2. CASE HostAnswer
  <2>1. /\ Len(sent) = Len(answers) + 1 /\ result = Running
        /\ \E v : answers' = Append(answers, v)
        /\ sent' = sent /\ result' = result
    <3>1. Len(sent) \in Nat /\ Len(answers) \in Nat
      BY AppendToSequence
    <3> QED
      BY <1>2, <3>1 DEF HostAnswer, Waiting
  <2> QED
    BY <2>1, AppendToSequence
<1>3. CASE Finish
  <2>1. ~Waiting /\ UNCHANGED <<sent, answers>>
    BY <1>3 DEF Finish, Runs
  <2>2. Len(sent) \in Nat /\ Len(answers) \in Nat
    BY AppendToSequence
  <2> QED
    BY <2>1, <2>2 DEF Waiting
<1>4. CASE UNCHANGED <<result, sent, answers>>
  BY <1>4
<1> QED
  BY <1>1, <1>2, <1>3, <1>4 DEF DispatchNext, Step, Compute, Store, Jump, machine

\* Nothing changes once the function has returned or a fence has ended it: no
\* call is made any more and no answer arrives.
ReturnIsFinal == [][result = Running]_machine

THEOREM NothingAfterReturn == DispatchSpec => ReturnIsFinal
<1>1. Enter => CallInv
  BY DEF Enter, CallInv, IsSequence
<1>2. CallInv /\ [DispatchNext]_machine => [result = Running]_machine
  <2> SUFFICES ASSUME CallInv, DispatchNext PROVE result = Running
    OBVIOUS
  <2>1. CASE HostAnswer
    <3>1. Len(sent) \in Nat /\ Len(answers) \in Nat
      BY AppendToSequence DEF CallInv
    <3> QED
      BY <2>1, <3>1 DEF HostAnswer, Waiting, CallInv
  <2> QED
    BY <2>1 DEF DispatchNext, Step, Compute, Store, Jump, Finish, HostCall, Runs
<1> QED
  BY <1>1, <1>2, CallInvStep, PTL DEF DispatchSpec, ReturnIsFinal
=============================================================================
