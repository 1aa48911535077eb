------------------------------ MODULE Ownership ------------------------------
(***************************************************************************)
(* Pass 9 of src/src/typecheck.c: ownership and borrow checking.           *)
(*                                                                         *)
(* The checker walks a function once, in the order of the text, and keeps  *)
(* a stack of the variables in scope.  Next is the choice of the next      *)
(* statement of a program; ctx is the state of the checker after it.  The  *)
(* history variables say what the program itself does, by the rules of the *)
(* comment at typecheck.c:4593: what it has moved, and which borrows are   *)
(* held by variables still in scope.                                       *)
(*                                                                         *)
(* The walk never enters the body of a for or repeat loop, a bare block or *)
(* a closure, and takes no account of what an if or a match skips and a    *)
(* loop repeats when the program runs; neither does this model.            *)
(***************************************************************************)
EXTENDS Integers, Sequences, FiniteSetsExt

CONSTANTS
  Name,           \* the names a program gives to its variables
  SelfReference,  \* whether the initialiser of a let may mention its name
  MaxVars,        \* bound on the variables in scope
  MaxOpen,        \* bound on the nested scopes
  MaxStatements   \* bound on the length of the program

ASSUME OwnershipAssumption ==
  /\ SelfReference \in BOOLEAN
  /\ MaxVars \in Nat /\ MaxOpen \in Nat /\ MaxStatements \in Nat

VARIABLES
  ctx,            \* vars: innermost last; reported: whether it has complained
  scope_depth,
  open,           \* how many scopes each open construct has pushed
  moved,          \* history: the variables whose value was passed on
  live,           \* history: the borrows held by a variable in scope
  misused,        \* history: a moved variable was mentioned
  aliased,        \* history: a borrow met another one that excludes it
  statements      \* number of statements so far

program == <<moved, live, misused, aliased>>
vars == <<ctx, scope_depth, open, program, statements>>

Init ==
  /\ ctx = [vars |-> << >>, reported |-> FALSE]
  /\ scope_depth = 2               \* that of the function and of its body
  /\ open = << >>
  /\ moved = {} /\ live = {}
  /\ misused = FALSE /\ aliased = FALSE
  /\ statements = 0

-----------------------------------------------------------------------------
\* The operations of the checker, on a context c.

\* Variant: finds the outermost variable of that name.
FindOutermost(c, n) ==
  LET found == {i \in 1 .. Len(c.vars) : c.vars[i].name = n} IN
  IF found = {} THEN 0 ELSE CHOOSE i \in found : \A j \in found : i <= j

\* The innermost variable of that name; 0 if there is none.
own_find(c, n) ==
  LET found == {i \in 1 .. Len(c.vars) : c.vars[i].name = n} IN
  IF found = {} THEN 0 ELSE CHOOSE i \in found : \A j \in found : i >= j

own_report(c) == [c EXCEPT !.reported = TRUE]

own_register(c, n, copy) ==
  [c EXCEPT !.vars = Append(@, [name |-> n, state |-> "owned", borrow_count |-> 0,
                                has_mut_borrow |-> FALSE, is_copy |-> copy,
                                scope_depth |-> scope_depth])]

own_check_use(c, n) ==
  LET i == own_find(c, n) IN
  IF i # 0 /\ c.vars[i].state = "moved" THEN own_report(c) ELSE c

own_mark_move(c, n) ==
  LET i == own_find(c, n) IN
  IF i = 0 THEN c
  ELSE IF c.vars[i].is_copy THEN c
  ELSE IF \/ c.vars[i].state # "owned"
          \/ c.vars[i].borrow_count > 0 \/ c.vars[i].has_mut_borrow
       THEN own_report(c)
       ELSE [c EXCEPT !.vars[i].state = "moved"]

BorrowedMut(v) == [v EXCEPT !.state = "mut_borrowed", !.has_mut_borrow = TRUE]
Borrowed(v) == [v EXCEPT !.state = "borrowed", !.borrow_count = @ + 1]

\* Variant: a shared borrow is granted beside an exclusive one.
BorrowBesideMut(c, n, mut) ==
  LET i == own_find(c, n) IN
  IF i = 0 THEN c
  ELSE IF c.vars[i].state = "moved"
          \/ (mut /\ (c.vars[i].borrow_count > 0 \/ c.vars[i].has_mut_borrow))
       THEN own_report(c)
       ELSE [c EXCEPT !.vars[i] = IF mut THEN BorrowedMut(@) ELSE Borrowed(@)]

own_process_borrow(c, n, mut) ==
  LET i == own_find(c, n) IN
  IF i = 0 THEN c
  ELSE IF \/ c.vars[i].state = "moved"
          \/ mut /\ c.vars[i].borrow_count > 0
          \/ c.vars[i].has_mut_borrow
       THEN own_report(c)
       ELSE [c EXCEPT !.vars[i] = IF mut THEN BorrowedMut(@) ELSE Borrowed(@)]

\* An argument: a variable by value, &x, &mut x, the builder of sb_append, or
\* an expression without variables.
Arg == [how : {"value", "ref", "mut", "builder"}, name : Name]
       \cup {[how |-> "expr", name |-> "none"]}

CheckArg(c, a) ==
  CASE a.how = "value" -> own_mark_move(c, a.name)
    [] a.how \in {"ref", "mut"} -> own_process_borrow(c, a.name, a.how = "mut")
    [] a.how = "builder" -> own_check_use(c, a.name)
    [] a.how = "expr" -> c

\* Variant: the last borrow ends and the state is not reset.
CountOnly(v) == [v EXCEPT !.borrow_count = @ - 1]

Owned(v) == [v EXCEPT !.state = "owned", !.has_mut_borrow = FALSE]
OneLess(v) == [v EXCEPT !.borrow_count = @ - 1,
                        !.state = IF v.borrow_count = 1 THEN "owned" ELSE @]

\* The borrow of an argument ends with the call.
ReleaseArg(c, a) ==
  LET i == own_find(c, a.name) IN
  IF i = 0 THEN c
  ELSE IF a.how = "mut" /\ c.vars[i].has_mut_borrow
       THEN [c EXCEPT !.vars[i] = Owned(@)]
  ELSE IF a.how = "ref" /\ c.vars[i].borrow_count > 0
       THEN [c EXCEPT !.vars[i] = OneLess(@)]
       ELSE c

own_check_call(c, a, b) ==
  ReleaseArg(ReleaseArg(CheckArg(CheckArg(c, a), b), a), b)

\* A method call and a host call check an argument twice: as an argument, and
\* then as the expression it is.
CheckMethodArg(c, a) ==
  IF a.how = "value" THEN own_check_use(own_mark_move(c, a.name), a.name)
  ELSE CheckArg(CheckArg(c, a), a)

\* On the way out of a scope every variable that stays has one borrow less.
PopRelease(v) ==
  IF v.state = "borrowed" /\ v.borrow_count > 0 THEN OneLess(v)
  ELSE IF v.state = "mut_borrowed" /\ v.has_mut_borrow THEN Owned(v)
  ELSE v

\* The number of variables declared outside the scope at that depth.
Outside(c, depth) == Cardinality({i \in 1 .. Len(c.vars) : c.vars[i].scope_depth < depth})

own_pop_scope(c, depth) ==
  [c EXCEPT !.vars = [i \in 1 .. Outside(c, depth) |-> PopRelease(c.vars[i])]]

-----------------------------------------------------------------------------
\* What the program does.  A name means the last variable of that name that is
\* in scope when it is mentioned.
Meaning(n) == Max({0} \cup {i \in 1 .. Len(ctx.vars) : ctx.vars[i].name = n})

Moves(a) == IF a.how = "value" /\ Meaning(a.name) # 0 /\ ~ctx.vars[Meaning(a.name)].is_copy
            THEN {Meaning(a.name)} ELSE {}
Mentions(a) == IF a.how = "expr" THEN {} ELSE {Meaning(a.name)} \ {0}
Borrow(a, holder) == {[of |-> i, mut |-> a.how = "mut", holder |-> holder, recent |-> TRUE] :
                        i \in IF a.how \in {"ref", "mut"} THEN Mentions(a) ELSE {}}

\* Two borrows of one variable, at least one of them exclusive.
Clash(S, T) == \E s \in S, t \in T : s.of = t.of /\ (s.mut \/ t.mut)
Recent == {l \in live : l.recent}

Uses(a) ==
  /\ misused' = (misused \/ Mentions(a) \cap moved # {})
  /\ UNCHANGED <<moved, live, aliased>>

Passes(a, b) ==
  /\ misused' = (misused \/ Mentions(a) \cap moved # {}
                         \/ Mentions(b) \cap (moved \cup Moves(a)) # {})
  /\ moved' = moved \cup Moves(a) \cup Moves(b)
  /\ aliased' = (aliased \/ Clash(Borrow(a, 0) \cup Borrow(b, 0), Recent)
                         \/ Clash(Borrow(a, 0), Borrow(b, 0)))
  /\ UNCHANGED live

Statement ==
  /\ statements < MaxStatements
  /\ statements' = statements + 1

\* The checker has walked the statement, and the scopes are as before.
Walked(c) == ctx' = c /\ UNCHANGED <<scope_depth, open>>

\* A mention that moves nothing, as that of a builder does.
Read(n) == [how |-> "builder", name |-> n]

-----------------------------------------------------------------------------
\* The statements.

\* let n = e, where e is a literal, a variable or a call.  The new variable
\* is registered first, and the initialiser checked with it in scope.
Registers(n, copy) ==
  /\ Statement
  /\ Len(ctx.vars) < MaxVars

Let(n, copy) ==
  /\ Registers(n, copy)
  /\ Walked(own_register(ctx, n, copy))
  /\ UNCHANGED program

LetVariable(n, m, copy) ==
  /\ Registers(n, copy)
  /\ n # m \/ SelfReference
  /\ Walked(own_check_use(own_register(ctx, n, copy), m))
  /\ Uses(Read(m))

LetCall(n, a, copy) ==
  /\ Registers(n, copy)
  /\ n # a.name \/ SelfReference
  /\ Walked(own_check_call(own_register(ctx, n, copy), a, [how |-> "expr", name |-> "none"]))
  /\ Passes(a, [how |-> "expr", name |-> "none"])

\* let n = &m or &mut m: the new variable holds the borrow.
LetRef(n, a, copy) ==
  /\ a.how \in {"ref", "mut"}
  /\ Registers(n, copy)
  /\ n # a.name \/ SelfReference
  /\ Walked(own_process_borrow(own_register(ctx, n, copy), a.name, a.how = "mut"))
  /\ LET new == Borrow(a, Len(ctx.vars) + 1) IN
     /\ misused' = (misused \/ Mentions(a) \cap moved # {})
     /\ aliased' = (aliased \/ Clash(new, Recent))
     /\ live' = live \cup new
  /\ UNCHANGED moved

\* A variable is read: in a condition, an assignment, a return, an operand.
Use(n) ==
  /\ Statement
  /\ Walked(own_check_use(ctx, n))
  /\ Uses(Read(n))

Call(a, b) ==
  /\ b.how # "builder"
  /\ Statement
  /\ Walked(own_check_call(ctx, a, b))
  /\ Passes(a, b)

MethodCall(n, a) ==
  /\ a.how # "builder"
  /\ Statement
  /\ Walked(CheckMethodArg(own_check_use(ctx, n), a))
  /\ Passes(Read(n), a)

\* The branch of an if and the arm of a match push one scope; the body of a
\* while or a loop and the branch of an else-if push two.
OpenScope(n) ==
  /\ Statement
  /\ Len(open) < MaxOpen
  /\ scope_depth' = scope_depth + n
  /\ open' = Append(open, n)
  /\ UNCHANGED <<ctx, program>>

\* What remains in scope of the program's own bookkeeping.
Forgets(count) ==
  /\ moved' = moved \cap 1 .. count
  /\ live' = {[l EXCEPT !.recent = FALSE] :
                l \in {k \in live : k.holder <= count /\ k.of <= count}}
  /\ UNCHANGED <<misused, aliased>>

Popped(c, depth, n) ==
  IF n = 1 THEN own_pop_scope(c, depth)
  ELSE own_pop_scope(own_pop_scope(c, depth), depth - 1)

CloseScope ==
  /\ open # << >>
  /\ LET n == open[Len(open)] IN
     /\ ctx' = Popped(ctx, scope_depth, n)
     /\ scope_depth' = scope_depth - n
     /\ open' = SubSeq(open, 1, Len(open) - 1)
  /\ Forgets(Len(ctx'.vars))
  /\ UNCHANGED statements

\* A for loop pushes a scope for its variable and never walks its body.
ForLoop(n) ==
  /\ Statement
  /\ Walked(LET inner == [own_register(ctx, n, TRUE)
                            EXCEPT !.vars[Len(ctx.vars) + 1].scope_depth = scope_depth + 1]
            IN own_pop_scope(inner, scope_depth + 1))
  /\ Forgets(Len(ctx.vars))

Next ==
  \/ \E n \in Name, copy \in BOOLEAN :
       \/ Let(n, copy)
       \/ \E m \in Name : LetVariable(n, m, copy)
       \/ \E a \in Arg : LetCall(n, a, copy) \/ LetRef(n, a, copy)
  \/ \E n \in Name, a \in Arg : MethodCall(n, a)
  \/ \E n \in Name : Use(n) \/ ForLoop(n)
  \/ \E a, b \in Arg : Call(a, b)
  \/ \E n \in {1, 2} : OpenScope(n)
  \/ CloseScope

Spec == Init /\ [][Next]_vars

-----------------------------------------------------------------------------
Variable == [name : Name, state : {"owned", "moved", "borrowed", "mut_borrowed"},
             borrow_count : Nat, has_mut_borrow : BOOLEAN, is_copy : BOOLEAN,
             scope_depth : Nat]

TypeOK ==
  /\ ctx.vars \in Seq(Variable) /\ Len(ctx.vars) <= MaxVars
  /\ ctx.reported \in BOOLEAN
  /\ scope_depth \in Nat
  /\ \A i \in 1 .. Len(ctx.vars) : ctx.vars[i].scope_depth <= scope_depth
  /\ moved \subseteq 1 .. Len(ctx.vars)
  /\ \A l \in live : l.of \in 1 .. Len(ctx.vars) /\ l.holder \in 1 .. Len(ctx.vars)

\* The state of a variable and its two counters, which are updated in several
\* places, always tell the same story, so that no variable is ever recorded
\* as borrowed twice exclusively, as shared and exclusive, or as moved and
\* borrowed.
Consistent(v) ==
  /\ v.state = "borrowed" <=> v.borrow_count > 0
  /\ v.state = "mut_borrowed" <=> v.has_mut_borrow

BorrowState == \A i \in 1 .. Len(ctx.vars) : Consistent(ctx.vars[i])

\* typecheck.c:4604, "Use after move": a function about which the checker says
\* nothing mentions no variable after its value was passed on.
AcceptedNeverUsesMoved == ~ctx.reported => ~misused

\* typecheck.c:4606-4607: a function about which the checker says nothing
\* takes no exclusive borrow beside another borrow made since the last scope
\* was left.
AcceptedNeverAliases == ~ctx.reported => ~aliased

\* The checker counts the borrows of a variable that variables in scope hold.
Accurate(i) ==
  /\ ctx.vars[i].borrow_count = Cardinality({l \in live : l.of = i /\ ~l.mut})
  /\ ctx.vars[i].has_mut_borrow <=> \E l \in live : l.of = i /\ l.mut

\* typecheck.c:4672, "borrows end when the borrowing variable goes out of
\* scope": of a variable that stays when a scope is left, the borrows held in
\* that scope end and the others do not, so a count that was right is right.
BorrowsEndWithHolder ==
  [][scope_depth' < scope_depth =>
       \A i \in 1 .. Len(ctx'.vars) : Accurate(i) => Accurate(i)']_vars
=============================================================================
