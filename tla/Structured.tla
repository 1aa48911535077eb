----------------------------- MODULE Structured -----------------------------
(***************************************************************************)
(* What a Limceron function body means: the structured statements and the  *)
(* expressions that reach the IR generator, and a definitional interpreter *)
(* for them.  It knows nothing of basic blocks; Lowering compares the      *)
(* generated code with it.                                                 *)
(*                                                                         *)
(* The host calls of a program are what can be observed of it.  The        *)
(* interpreter runs a body from its start against the answers the host has *)
(* given so far, and stops where the body ends or asks for one answer      *)
(* more; so its result is the next observable step of the program.  An     *)
(* integer below zero is an Err, any other an Ok.                          *)
(***************************************************************************)
EXTENDS HostCalls

\* Expressions.  A block is a sequence of statements; its value is that of
\* its last statement if that is an expression.
Lit(n)              == [k |-> "lit", n |-> n]
Id(x)               == [k |-> "id", x |-> x]
Host(f, arg)        == [k |-> "host", f |-> f, arg |-> arg]
Positive(e)         == [k |-> "positive", e |-> e]
Try(e)              == [k |-> "try", e |-> e]
IfValue(c, b1, b2)  == [k |-> "ifValue", c |-> c, b1 |-> b1, b2 |-> b2]
BlockValue(b)       == [k |-> "block", b |-> b]
TryCatch(b, x, h)   == [k |-> "tryCatch", b |-> b, x |-> x, h |-> h]
Match(e, x, b1, y, b2) ==
    [k |-> "match", e |-> e, x |-> x, b1 |-> b1, y |-> y, b2 |-> b2]
Math(f, args)       == [k |-> "math", f |-> f, args |-> args]
MatchArms(e, arms)  == [k |-> "matchArms", e |-> e, arms |-> arms]

\* The arms of a match on integers: a literal, or a name that takes any value;
\* g is empty or holds the guard.
ArmLit(n, g, b)  == [catchall |-> FALSE, n |-> n, x |-> "", g |-> g, b |-> b]
ArmName(x, g, b) == [catchall |-> TRUE, n |-> 0, x |-> x, g |-> g, b |-> b]

\* Statements.
Let(x, e)      == [k |-> "let", x |-> x, e |-> e]
Assign(x, e)   == [k |-> "assign", x |-> x, e |-> e]
Return(e)      == [k |-> "return", e |-> e]
ExprStmt(e)    == [k |-> "expr", e |-> e]
If(c, b)       == [k |-> "if", c |-> c, b |-> b]
IfElse(c, b1, b2) == [k |-> "ifElse", c |-> c, b1 |-> b1, b2 |-> b2]
While(c, b)    == [k |-> "while", c |-> c, b |-> b]
Loop(b)        == [k |-> "loop", b |-> b]
For(x, lo, hi, b) == [k |-> "for", x |-> x, lo |-> lo, hi |-> hi, b |-> b]
Break          == [k |-> "break"]
Continue       == [k |-> "continue"]

\* The tail expression of a block.
HasTail(b) == b # <<>> /\ Last(b).k = "expr"

\* The state of a run: how it left the last construct (out), the value of the
\* last expression, the bindings in scope, the answers not used yet, what is
\* left of each budget, and the call it waits for.
NoCall  == [f |-> "none", arg |-> 0]
Start(answers, budget) ==
    [out |-> "ok", val |-> NoValue, env |-> <<>>, answers |-> answers,
     left |-> budget, call |-> NoCall]

\* What follows a construct, however it was left; and what follows it only if
\* it was not left early.
After(s, K(_)) == K(s)
Then(s, K(_))  == IF s.out = "ok" THEN K(s) ELSE s
Leave(s, out)  == [s EXCEPT !.out = out]

Latest(env, x) == CHOOSE i \in DOMAIN env : /\ env[i].x = x
                                            /\ \A j \in DOMAIN env : env[j].x = x => j <= i
Bind(s, x, v)  == [s EXCEPT !.env = Append(@, [x |-> x, v |-> v])]
Update(s, x)   == [s EXCEPT !.env[Latest(s.env, x)].v = s.val, !.val = NoValue]
Outside(s, t)  == [t EXCEPT !.env = SubSeq(@, 1, Len(s.env))]

(***************************************************************************)
(* A host call that some declared budget does not cover ends the function  *)
(* with that budget's error code; otherwise it is charged and its answer   *)
(* is the value.                                                           *)
(***************************************************************************)
Uncovered(f, left) == SelectSeq(Budgets, LAMBDA b : left[b] < Cost(b, f))

Ask(s, f) ==
    CASE Uncovered(f, s.left) # <<>> ->
            [s EXCEPT !.out = "return", !.val = Exceeded[Head(Uncovered(f, s.left))]]
      [] s.answers = <<>> ->
            [s EXCEPT !.out = "call", !.call = [f |-> f, arg |-> s.val]]
      [] OTHER ->
            [s EXCEPT !.val = Head(s.answers), !.answers = Tail(s.answers),
                      !.left = [b \in DOMAIN @ |-> @[b] - Cost(b, f)]]

\* The integer functions of the standard library.
Least(a, b)    == IF a < b THEN a ELSE b
Greatest(a, b) == IF a < b THEN b ELSE a
MathValue(f, v) ==
    CASE f = "abs"   -> Greatest(v[1], -v[1])
      [] f = "min"   -> Least(v[1], v[2])
      [] f = "max"   -> Greatest(v[1], v[2])
      [] f = "clamp" -> Least(Greatest(v[1], v[2]), v[3])
      [] f = "sign"  -> Greatest(Least(v[1], 1), -1)

RECURSIVE Eval(_, _), Run(_, _), RunBlock(_, _), RunWhile(_, _, _, _), RunFor(_, _, _, _, _),
          RunArms(_, _, _)

\* A block in a scope of its own; binds x to v first if x is a name.
RunScoped(b, s) == Outside(s, RunBlock(b, s))
RunArm(b, x, v, s) == Outside(s, RunBlock(b, Bind(s, x, v)))

\* Arguments from left to right: the state after them, and their values.
EvalArgs(args, s) ==
    FoldLeft(LAMBDA a, e : IF a.s.out # "ok" THEN a
                           ELSE After(Eval(e, a.s), LAMBDA t :
                                    [s |-> t, vals |-> Append(a.vals, t.val)]),
             [s |-> s, vals |-> <<>>], args)

Eval(e, s) ==
    CASE e.k = "lit"  -> [s EXCEPT !.val = e.n]
      [] e.k = "id"   -> [s EXCEPT !.val = s.env[Latest(s.env, e.x)].v]
      [] e.k = "host" -> Then(Eval(e.arg, s), LAMBDA t : Ask(t, e.f))
      [] e.k = "positive" ->
            Then(Eval(e.e, s), LAMBDA t : [t EXCEPT !.val = IF @ > 0 THEN 1 ELSE 0])
      [] e.k = "math" ->
            After(EvalArgs(e.args, s), LAMBDA a :
                Then(a.s, LAMBDA t : [t EXCEPT !.val = MathValue(e.f, a.vals)]))
      [] e.k = "try" ->
            Then(Eval(e.e, s), LAMBDA t : IF t.val < 0 THEN Leave(t, "err") ELSE t)
      [] e.k = "ifValue" ->
            Then(Eval(e.c, s), LAMBDA t : RunScoped(IF t.val = 1 THEN e.b1 ELSE e.b2, t))
      [] e.k = "block" -> RunScoped(e.b, s)
      [] e.k = "tryCatch" ->
            After(RunScoped(e.b, s), LAMBDA t :
                IF t.out = "err" THEN RunArm(e.h, e.x, t.val, Leave(t, "ok")) ELSE t)
      [] e.k = "match" ->
            Then(Eval(e.e, s), LAMBDA t : IF t.val < 0 THEN RunArm(e.b2, e.y, t.val, t)
                                                       ELSE RunArm(e.b1, e.x, t.val, t))
      [] e.k = "matchArms" -> Then(Eval(e.e, s), LAMBDA t : RunArms(e.arms, t.val, t))

Run(c, s) ==
    CASE c.k = "let"    -> Then(Eval(c.e, s), LAMBDA t : Bind(t, c.x, t.val))
      [] c.k = "assign" -> Then(Eval(c.e, s), LAMBDA t : Update(t, c.x))
      [] c.k = "return" -> Then(Eval(c.e, s), LAMBDA t : Leave(t, "return"))
      [] c.k = "expr"   -> Eval(c.e, s)
      [] c.k = "if"     ->
            Then(Eval(c.c, s), LAMBDA t : IF t.val = 1 THEN RunScoped(c.b, t) ELSE t)
      [] c.k = "ifElse" ->
            Then(Eval(c.c, s), LAMBDA t : RunScoped(IF t.val = 1 THEN c.b1 ELSE c.b2, t))
      [] c.k = "while"  -> RunWhile(TRUE, c.c, c.b, s)
      [] c.k = "loop"   -> RunWhile(FALSE, Lit(1), c.b, s)
      [] c.k = "for"    ->
            Then(Eval(c.lo, s), LAMBDA t :
                Then(Eval(c.hi, t), LAMBDA u : Outside(s, RunFor(c.x, t.val, u.val, c.b, u))))
      [] c.k = "break"    -> Leave(s, "break")
      [] c.k = "continue" -> Leave(s, "continue")

\* The tail of a block is its value; a block without a tail has none.
RunBlock(b, s) ==
    IF b = <<>> THEN [s EXCEPT !.val = NoValue]
    ELSE Then(Run(Head(b), s), LAMBDA t :
            CASE Tail(b) # <<>> -> RunBlock(Tail(b), t)
              [] HasTail(b)     -> t
              [] OTHER          -> [t EXCEPT !.val = NoValue])

\* What the end of an iteration does to the loop.
Iterated(t) == t.out \in {"ok", "continue"}
Ended(t) == IF t.out = "break" THEN [t EXCEPT !.out = "ok", !.val = NoValue] ELSE t

RunWhile(tested, cond, b, s) ==
    Then(IF tested THEN Eval(cond, s) ELSE [s EXCEPT !.val = 1], LAMBDA t :
        IF t.val # 1 THEN [t EXCEPT !.val = NoValue]
        ELSE After(RunScoped(b, t), LAMBDA u :
                IF Iterated(u) THEN RunWhile(tested, cond, b, Leave(u, "ok")) ELSE Ended(u)))

RunFor(x, i, end, b, s) ==
    IF i >= end THEN [s EXCEPT !.val = NoValue]
    ELSE After(RunArm(b, x, i, s), LAMBDA u :
            IF Iterated(u) THEN RunFor(x, i + 1, end, b, Leave(u, "ok")) ELSE Ended(u))

\* The first arm whose pattern matches and whose guard holds.
Guarded(a, v, s) ==
    IF a.g = <<>> THEN [s EXCEPT !.val = 1] ELSE Outside(s, Eval(a.g[1], Bind(s, a.x, v)))

RunArms(arms, v, s) ==
    CASE arms = <<>> -> [s EXCEPT !.val = NoValue]
      [] arms # <<>> /\ ~Head(arms).catchall /\ Head(arms).n # v -> RunArms(Tail(arms), v, s)
      [] OTHER ->
            Then(Guarded(Head(arms), v, s), LAMBDA t :
                IF t.val = 1 THEN RunArm(Head(arms).b, Head(arms).x, v, t)
                             ELSE RunArms(Tail(arms), v, t))

(***************************************************************************)
(* The next observable step of a function body: the call it waits for, or  *)
(* its result.  The error that ? raises outside every try is the result,   *)
(* as is the value of the tail.                                            *)
(***************************************************************************)
Outcome(body, answers, budget) ==
    After(RunBlock(body, Start(answers, budget)), LAMBDA s :
        IF s.out = "call" THEN [kind |-> "call", call |-> s.call, val |-> NoValue]
                          ELSE [kind |-> "result", call |-> NoCall, val |-> s.val])
=============================================================================
