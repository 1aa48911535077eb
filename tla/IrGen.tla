------------------------------- MODULE IrGen -------------------------------
(***************************************************************************)
(* ir_gen.c: how a structured body (module Structured) becomes basic       *)
(* blocks.  The lowering of a construct is a list of steps, in the order   *)
(* in which the C code emits and opens: the variables of the body live in  *)
(* slots (alloca, load, store), its values in numbered registers.          *)
(***************************************************************************)
EXTENDS Structured, FiniteSets

CONSTANT
    MaxLoopDepth    \* IR_GEN_MAX_LOOP_DEPTH

(***************************************************************************)
(* A context holds the blocks so far, the block instructions are appended  *)
(* to, the next value number, the variables in scope, the stacks of loops  *)
(* and of catch handlers, and the value of the expression lowered last.    *)
(* loc holds the C variables of the construct being lowered: the blocks,   *)
(* values and slots it keeps, by name.                                     *)
(***************************************************************************)
EmptyCode ==
    [bbs |-> << <<>> >>, cur |-> 1, next |-> 0, scope |-> <<>>, loops |-> <<>>,
     catches |-> <<>>, val |-> NoId, loc |-> <<>>]

ir_bb_new(c) == [c EXCEPT !.bbs = Append(@, <<>>), !.cur = Len(c.bbs) + 1]
ir_set_current_bb(c, b) == [c EXCEPT !.cur = b]

\* An instruction with a result takes the next value number.
Produce(c, inst) ==
    [c EXCEPT !.bbs[c.cur] = Append(@, inst @@ [id |-> c.next]),
              !.next = @ + 1, !.val = c.next]
EmitOnly(c, inst) == [c EXCEPT !.bbs[c.cur] = Append(@, inst @@ [id |-> NoId])]

EmitConst(c, n)         == Produce(c, [op |-> "const", n |-> n])
EmitBinop(c, op, a, b)  == Produce(c, [op |-> op, a |-> a, b |-> b])
EmitAlloca(c)           == Produce(c, [op |-> "alloca"])
EmitLoad(c, addr)       == Produce(c, [op |-> "load", addr |-> addr])
EmitStore(c, v, addr)   == EmitOnly(c, [op |-> "store", v |-> v, addr |-> addr])
EmitHostCall(c, f, arg) == Produce(c, [op |-> "hostcall", f |-> f, arg |-> arg])
EmitRet(c, v)           == EmitOnly(c, [op |-> "ret", v |-> v])
EmitBr(c, v, t, f)      == EmitOnly(c, [op |-> "br", v |-> v, t |-> t, f |-> f])
EmitJmp(c, t)           == EmitOnly(c, [op |-> "jmp", t |-> t])
EmitPhi(c, incoming)    == Produce(c, [op |-> "phi", in |-> incoming])

\* last_inst_terminates: only the last instruction counts.
Terminates(insts) == insts # <<>> /\ Last(insts).op \in {"ret", "br", "jmp"}
Terminated(c)     == Terminates(c.bbs[c.cur])

\* The scope, and the loop stack: it ignores a push when it is full, not the
\* pop.
Addr(c, x) == c.scope[Latest(c.scope, x)].addr

irgen_loop_push(c, cont, brk) ==
    IF Len(c.loops) < MaxLoopDepth
    THEN [c EXCEPT !.loops = Append(@, [cont |-> cont, brk |-> brk])]
    ELSE c
irgen_loop_pop(c) == IF c.loops = <<>> THEN c ELSE [c EXCEPT !.loops = Front(@)]

(***************************************************************************)
(* The steps of a lowering.  n, v, a, b, t and f are names in loc.         *)
(***************************************************************************)
Open(n)         == [do |-> "open", n |-> n]         \* a new block, now current
At(n)           == [do |-> "at", n |-> n]           \* block n is current again
Here(n)         == [do |-> "here", n |-> n]         \* n is the current block
Keep(n)         == [do |-> "keep", n |-> n]         \* n is the last value
Use(n)          == [do |-> "value", n |-> n]        \* the last value is n
NoTail          == [do |-> "noTail"]                \* there is no last value
Const(i)        == [do |-> "const", i |-> i]
Binop(op, a, b) == [do |-> "binop", op |-> op, a |-> a, b |-> b]
Alloca          == [do |-> "alloca"]
LoadSlot(a)     == [do |-> "load", a |-> a]
StoreSlot(a)    == [do |-> "store", a |-> a]        \* the last value, if any
Declare(x, a)   == [do |-> "bind", x |-> x, a |-> a] \* irgen_scope_add
LoadVar(x)      == [do |-> "loadVar", x |-> x]
StoreVar(x)     == [do |-> "storeVar", x |-> x]
CallHost(g)     == [do |-> "hostCall", g |-> g]
Ret             == [do |-> "ret"]
Br(t, f)        == [do |-> "br", t |-> t, f |-> f]  \* on the last value
Jmp(t)          == [do |-> "jmp", t |-> t]
JmpIfOpen(t)    == [do |-> "jmpIfOpen", t |-> t] \* unless terminated
Edge(n, v, b)   == [do |-> "edge", n |-> n, v |-> v, b |-> b]
EdgeHere(n)     == [do |-> "edgeHere", n |-> n]     \* n: the value, if the block is open
Phi(ns)         == [do |-> "phi", ns |-> ns]
PhiIfAny(ns)    == [do |-> "phiIfAny", ns |-> ns]
Expr(e)         == [do |-> "expr", e |-> e]         \* irgen_expr
Stmts(b)        == [do |-> "stmts", b |-> b]        \* irgen_stmt on each
Scoped(steps)   == [do |-> "scoped", steps |-> steps] \* between scope push and pop
PushLoop(t, f)  == [do |-> "pushLoop", t |-> t, f |-> f]
PopLoop         == [do |-> "popLoop"]
PushCatch(t, a) == [do |-> "pushCatch", t |-> t, a |-> a]
PopCatch        == [do |-> "popCatch"]
Raise           == [do |-> "raise"]
JumpOut(to)     == [do |-> "jumpOut", to |-> to]

(***************************************************************************)
(* The body of a branch, an arm, a try or the function: its tail           *)
(* expression gives the value.                                             *)
(***************************************************************************)
BodyOf(b) == IF HasTail(b) THEN <<Stmts(Front(b)), Expr(Last(b).e)>> ELSE <<Stmts(b), NoTail>>
Arm(b, n, merge) == BodyOf(b) \o <<EdgeHere(n), JmpIfOpen(merge)>>

\* A slot bound to x, holding the value v.
BindSlot(x, v) == <<Alloca, Keep("slot"), Use(v), StoreSlot("slot"), Declare(x, "slot")>>

(***************************************************************************)
(* irgen_expr.  A branch on a value goes to the block in which the value   *)
(* was computed, except that of an if, which goes to the block in which    *)
(* the lowering of its condition began.                                    *)
(***************************************************************************)
LowerIf == <<Open("then"), Open("else"), Open("merge"), At("pre"), Br("then", "else")>>

LowerIfValue(e) ==
    <<Here("pre"), Expr(e.c)>> \o LowerIf \o
    <<At("then"), Scoped(Arm(e.b1, "a1", "merge")),
      At("else"), Scoped(Arm(e.b2, "a2", "merge")),
      At("merge"), PhiIfAny({"a1", "a2"})>>

\* Is the value an Err?
TestErr == <<Keep("v"), Const(0), Keep("zero"), Binop("lt", "v", "zero"), Here("pre")>>

\* Mutant: ? returns from the function, also inside a try.
LowerTryReturns ==
    TestErr \o <<Open("err"), Open("ok"), At("pre"), Br("err", "ok"),
                 At("err"), Use("v"), Ret, At("ok")>>

LowerTry ==
    TestErr \o <<Open("err"), Open("ok"), At("pre"), Br("err", "ok"),
                 At("err"), Use("v"), Raise, At("ok")>>

LowerTryCatch(e) ==
    <<Alloca, Keep("caught"), Here("pre"), Open("body"), Open("catch"), Open("merge"),
      At("pre"), Jmp("body"),
      At("body"), PushCatch("catch", "caught"), Scoped(Arm(e.b, "a1", "merge")), PopCatch,
      At("catch"), LoadSlot("caught"), Keep("v"),
      Scoped(BindSlot(e.x, "v") \o Arm(e.h, "a2", "merge")),
      At("merge"), PhiIfAny({"a1", "a2"})>>

\* match v { Ok(x) => .., Err(y) => .. }
LowerMatch(e) ==
    <<Expr(e.e)>> \o TestErr \o
    <<Open("ok"), Open("err"), Open("merge"), At("pre"), Br("err", "ok"),
      At("ok"), Scoped(BindSlot(e.x, "v") \o Arm(e.b1, "a1", "merge")),
      At("err"), Scoped(BindSlot(e.y, "v") \o Arm(e.b2, "a2", "merge")),
      At("merge"), PhiIfAny({"a1", "a2"})>>

(***************************************************************************)
(* irgen_match_decision_tree: the arm at i has a block for its test, one   *)
(* for its body and one that goes on to the next arm.  The block of a      *)
(* guard is opened before the branch on the pattern is emitted.            *)
(***************************************************************************)
Nth(n, i) == n \o ToString(i)

ArmTest(a, body, next) ==
    CASE a.catchall /\ a.g = <<>> -> <<Jmp(body)>>
      [] a.catchall /\ a.g # <<>> ->
            <<Scoped(BindSlot(a.x, "subj") \o <<Expr(a.g[1])>>), Br(body, next)>>
      [] ~a.catchall /\ a.g = <<>> ->
            <<Const(a.n), Keep("lit"), Binop("eq", "subj", "lit"), Br(body, next)>>
      [] OTHER ->
            <<Const(a.n), Keep("lit"), Binop("eq", "subj", "lit"), Open("guard"), Br("guard", next),
              At("guard"), Scoped(<<Expr(a.g[1])>>), Br(body, next)>>

LowerArm(a, i, next) ==
    <<At(Nth("test", i))>> \o ArmTest(a, Nth("body", i), Nth("next", i)) \o
    <<At(Nth("body", i)),
      Scoped((IF a.catchall THEN BindSlot(a.x, "subj") ELSE <<>>) \o Arm(a.b, Nth("arm", i), "merge")),
      At(Nth("next", i)), Jmp(next)>>

LowerMatchArms(e) ==
    <<Expr(e.e), Keep("subj"), Here("pre"), Open("merge")>> \o
    FlattenSeq([i \in DOMAIN e.arms |-> <<Open(Nth("test", i)), Open(Nth("body", i)), Open(Nth("next", i))>>]) \o
    <<At("pre"), Jmp("test1")>> \o
    FlattenSeq([i \in DOMAIN e.arms |->
        LowerArm(e.arms[i], i, IF i = Len(e.arms) THEN "merge" ELSE Nth("test", i + 1))]) \o
    <<At("merge"), Phi({Nth("arm", i) : i \in DOMAIN e.arms})>>

(***************************************************************************)
(* The integer functions are expanded where they are called.  The branch   *)
(* is emitted after the three blocks are opened, into the last of them.    *)
(***************************************************************************)
\* v if the last value is true, w otherwise.
LowerSelect(v, w) ==
    <<Open("then"), Open("else"), Open("merge"), Br("then", "else"),
      At("then"), Jmp("merge"), At("else"), Jmp("merge"),
      At("merge"), Edge("e1", v, "then"), Edge("e2", w, "else"), Phi({"e1", "e2"})>>

Zero == <<Const(0), Keep("zero")>>

LowerSign ==
    Zero \o
    <<Const(1), Keep("one"), Const(-1), Keep("neg1"), Binop("gt", "v1", "zero"),
      Open("pos"), Open("other"), Open("out"), Br("pos", "other"),
      At("pos"), Jmp("out"),
      At("other"), Binop("lt", "v1", "zero")>> \o LowerSelect("neg1", "zero") \o
    <<Keep("in"), Here("inner"), Jmp("out"),
      At("out"), Edge("e1", "one", "pos"), Edge("e2", "in", "inner"), Phi({"e1", "e2"})>>

LowerMath(f) ==
    CASE f = "abs"   -> Zero \o <<Binop("sub", "zero", "v1"), Keep("neg"), Binop("lt", "v1", "zero")>>
                             \o LowerSelect("neg", "v1")
      [] f = "min"   -> <<Binop("lt", "v1", "v2")>> \o LowerSelect("v1", "v2")
      [] f = "max"   -> <<Binop("gt", "v1", "v2")>> \o LowerSelect("v1", "v2")
      [] f = "clamp" -> <<Binop("gt", "v1", "v2")>> \o LowerSelect("v1", "v2") \o
                        <<Keep("low"), Binop("lt", "low", "v3")>> \o LowerSelect("low", "v3")
      [] f = "sign"  -> LowerSign

LowerArgs(args) == FlattenSeq([i \in DOMAIN args |-> <<Expr(args[i]), Keep(Nth("v", i))>>])

irgen_expr(e) ==
    CASE e.k = "lit"       -> <<Const(e.n)>>
      [] e.k = "id"        -> <<LoadVar(e.x)>>
      [] e.k = "host"      -> <<Expr(e.arg), CallHost(e.f)>>
      [] e.k = "positive"  -> <<Expr(e.e), Keep("v")>> \o Zero \o <<Binop("gt", "v", "zero")>>
      [] e.k = "math"      -> LowerArgs(e.args) \o LowerMath(e.f)
      [] e.k = "try"       -> <<Expr(e.e)>> \o LowerTry \o <<Use("v")>>
      [] e.k = "ifValue"   -> LowerIfValue(e)
      [] e.k = "tryCatch"  -> LowerTryCatch(e)
      [] e.k = "block"     -> <<NoTail>>     \* irgen_expr has no case for it
      [] e.k = "match"     -> LowerMatch(e)
      [] e.k = "matchArms" -> LowerMatchArms(e)

(***************************************************************************)
(* irgen_stmt.                                                             *)
(***************************************************************************)
LowerIfStmt(s) ==
    IF s.k = "ifElse"
    THEN <<Here("pre"), Expr(s.c)>> \o LowerIf \o
         <<At("then"), Scoped(<<Stmts(s.b1)>>), Jmp("merge"),
           At("else"), Scoped(<<Stmts(s.b2)>>), Jmp("merge"), At("merge")>>
    ELSE <<Here("pre"), Expr(s.c), Open("then"), Open("merge"), At("pre"), Br("then", "merge"),
           At("then"), Scoped(<<Stmts(s.b)>>), Jmp("merge"), At("merge")>>

\* The body of a loop: its frame is on the stack while it is lowered.
LoopBody(b, cont, brk) == <<PushLoop(cont, brk), Scoped(<<Stmts(b)>>), PopLoop>>

LowerWhile(s) ==
    <<Here("pre"), Open("cond"), Open("body"), Open("exit"), At("pre"), Jmp("cond"),
      At("cond"), Expr(s.c), Br("body", "exit"),
      At("body")>> \o LoopBody(s.b, "cond", "exit") \o
    <<JmpIfOpen("cond"), At("exit")>>

LowerLoop(s) ==
    <<Here("pre"), Open("head"), Open("body"), Open("exit"), At("pre"), Jmp("head"),
      At("head"), Jmp("body"),
      At("body")>> \o LoopBody(s.b, "head", "exit") \o
    <<JmpIfOpen("head"), At("exit")>>

\* Mutant: continue goes to the test, as in a while.
ContinueAtTest == "cond"

\* Where continue goes: a for loop must not skip its increment.
ForContinue == "inc"

LowerFor(s) ==
    <<Expr(s.lo), Keep("lo"), Expr(s.hi), Keep("hi"),
      Alloca, Keep("var"), Use("lo"), StoreSlot("var"),
      Scoped(
        <<Declare(s.x, "var"), Here("pre"),
          Open("cond"), Open("body"), Open("inc"), Open("exit"), At("pre"), Jmp("cond"),
          At("cond"), LoadSlot("var"), Keep("i"), Binop("lt", "i", "hi"), Br("body", "exit"),
          At("body")>> \o LoopBody(s.b, ForContinue, "exit") \o
        <<JmpIfOpen("inc"),
          At("inc"), LoadSlot("var"), Keep("i"), Const(1), Keep("one"), Binop("add", "i", "one"),
          StoreSlot("var"), Jmp("cond"), At("exit")>>)>>

irgen_stmt(s) ==
    CASE s.k = "let"      -> <<Alloca, Keep("slot"), Declare(s.x, "slot"), Expr(s.e), StoreSlot("slot")>>
      [] s.k = "assign"   -> <<Expr(s.e), StoreVar(s.x)>>
      [] s.k = "return"   -> <<Expr(s.e), Ret>>
      [] s.k = "expr"     -> <<Expr(s.e)>>
      [] s.k \in {"if", "ifElse"} -> LowerIfStmt(s)
      [] s.k = "while"    -> LowerWhile(s)
      [] s.k = "loop"     -> LowerLoop(s)
      [] s.k = "for"      -> LowerFor(s)
      [] s.k = "break"    -> <<JumpOut("brk")>>
      [] s.k = "continue" -> <<JumpOut("cont")>>

(***************************************************************************)
(* Carrying out the steps, as long as there is a current block.  A         *)
(* construct inside another has a loc of its own; what it binds stays      *)
(* until the scope is popped.                                              *)
(***************************************************************************)
RECURSIVE Do(_, _), Gen(_, _), GenStmts(_, _)
Gen(steps, c) ==
    IF steps = <<>> \/ c.cur = NoId THEN c ELSE Gen(Tail(steps), Do(Head(steps), c))
Frame(c, steps)  == [Gen(steps, [c EXCEPT !.loc = <<>>]) EXCEPT !.loc = c.loc]
GenStmts(b, c) ==
    IF b = <<>> \/ c.cur = NoId THEN c ELSE GenStmts(Tail(b), Frame(c, irgen_stmt(Head(b))))
Name(c, n, v)    == [c EXCEPT !.loc = With(@, n, v)]
Pop(c, outer)    == [c EXCEPT !.scope = SubSeq(@, 1, Len(outer.scope))]
Arriving(c, ns)  == {a \in {c.loc[n] : n \in ns} : a.v # NoId /\ a.b # NoId}

Do(s, c) ==
    CASE s.do = "open"      -> ir_bb_new(Name(c, s.n, Len(c.bbs) + 1))
      [] s.do = "at"        -> ir_set_current_bb(c, c.loc[s.n])
      [] s.do = "here"      -> Name(c, s.n, c.cur)
      [] s.do = "keep"      -> Name(c, s.n, c.val)
      [] s.do = "value"     -> [c EXCEPT !.val = c.loc[s.n]]
      [] s.do = "noTail"    -> [c EXCEPT !.val = NoId]
      [] s.do = "const"     -> EmitConst(c, s.i)
      [] s.do = "binop"     -> EmitBinop(c, s.op, c.loc[s.a], c.loc[s.b])
      [] s.do = "alloca"    -> EmitAlloca(c)
      [] s.do = "load"      -> EmitLoad(c, c.loc[s.a])
      [] s.do = "store"     -> IF c.val = NoId THEN c ELSE EmitStore(c, c.val, c.loc[s.a])
      [] s.do = "bind"      -> [c EXCEPT !.scope = Append(@, [x |-> s.x, addr |-> c.loc[s.a]])]
      [] s.do = "loadVar"   -> EmitLoad(c, Addr(c, s.x))
      [] s.do = "storeVar"  -> IF c.val = NoId THEN c ELSE EmitStore(c, c.val, Addr(c, s.x))
      [] s.do = "hostCall"  -> EmitHostCall(c, s.g, c.val)
      [] s.do = "ret"       -> EmitRet(c, c.val)
      [] s.do = "br"        -> EmitBr(c, c.val, c.loc[s.t], c.loc[s.f])
      [] s.do = "jmp"       -> EmitJmp(c, c.loc[s.t])
      [] s.do = "jmpIfOpen" -> IF Terminated(c) THEN c ELSE EmitJmp(c, c.loc[s.t])
      [] s.do = "edge"      -> Name(c, s.n, [v |-> c.loc[s.v], b |-> c.loc[s.b]])
      [] s.do = "edgeHere"  ->
            Name(c, s.n, [v |-> c.val, b |-> IF Terminated(c) THEN NoId ELSE c.cur])
      [] s.do = "phi"       -> EmitPhi(c, Arriving(c, s.ns))
      [] s.do = "phiIfAny"  -> IF Arriving(c, s.ns) = {} THEN [c EXCEPT !.val = NoId]
                               ELSE EmitPhi(c, Arriving(c, s.ns))
      [] s.do = "expr"      -> Frame(c, irgen_expr(s.e))
      [] s.do = "stmts"     -> GenStmts(s.b, c)
      [] s.do = "scoped"    -> Pop(Gen(s.steps, c), c)
      [] s.do = "pushLoop"  -> irgen_loop_push(c, c.loc[s.t], c.loc[s.f])
      [] s.do = "popLoop"   -> irgen_loop_pop(c)
      [] s.do = "pushCatch" ->
            [c EXCEPT !.catches = Append(@, [bb |-> c.loc[s.t], slot |-> c.loc[s.a]])]
      [] s.do = "popCatch"  -> [c EXCEPT !.catches = Front(@)]
      \* The error goes to the innermost try, or out of the function.
      [] s.do = "raise"     ->
            IF c.catches = <<>> THEN EmitRet(c, c.val)
            ELSE EmitJmp(EmitStore(c, c.val, Last(c.catches).slot), Last(c.catches).bb)
      \* break and continue open a block that nothing jumps to.
      [] s.do = "jumpOut"   ->
            IF c.loops = <<>> THEN c ELSE ir_bb_new(EmitJmp(c, Last(c.loops)[s.to]))

\* The tail expression of the function is what it returns; otherwise the last
\* block returns nothing, unless it ended in a terminator.
Close(c) == IF c.val = NoId /\ Terminated(c) THEN c ELSE EmitRet(c, c.val)
irgen_fn_body(b) == Close(Gen(BodyOf(b), EmptyCode)).bbs
=============================================================================
