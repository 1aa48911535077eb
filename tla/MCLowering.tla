----------------------------- MODULE MCLowering -----------------------------
(***************************************************************************)
(* Function bodies for Lowering: one construct inside another, each with   *)
(* one of several statements in its branches.  x holds the running value,  *)
(* search is a call no budget counts, classify and chat are counted with   *)
(* the prices of ir_emit_wasm.c.                                           *)
(***************************************************************************)
EXTENDS Lowering

MCBudgets  == <<"entropy", "tokens", "cost">>
MCExceeded == [entropy |-> -9, tokens |-> -10, cost |-> -10]
Costs(n, m) == [classify |-> n, chat |-> m]
MCPrice  == [entropy |-> Costs(1, 4), tokens |-> Costs(100, 1000), cost |-> Costs(500, 30000)]

\* Plenty of everything; a budget of entropy for one classification; one of
\* tokens, which leaves the entropy of a refused call charged.
Plenty     == [entropy |-> 100, tokens |-> 100000, cost |-> 1000000]
MCDeclared == {Plenty, [Plenty EXCEPT !.entropy = 1], [Plenty EXCEPT !.tokens = 150, !.entropy = 3]}

MCAnswers == {-1, 1}

X         == Id("x")
Set(e)    == Assign("x", e)
Search    == Host("search", X)
Classify  == Host("classify", X)

\* The statements of a branch.
Leaf == [ask    |-> Set(Search),
         try    |-> Set(Try(Search)),
         fence  |-> Set(Classify),
         ret    |-> Return(X),
         brk    |-> Break,
         cont   |-> Continue,
         const  |-> Set(Lit(7))]

\* The parser makes an expression of an if and an AST_EXPR_STMT of one that
\* stands alone; irgen_stmt meets an AST_IF only where it is the else of another.
IfThen(c, b)      == ExprStmt(IfValue(c, b, <<>>))
ElseIf(c, b, els) == ExprStmt(IfValue(c, b, <<els>>))

\* The constructs, with the statements b in one branch and t in the other.
Construct(k, b, t) ==
    CASE k = "if"     -> <<ElseIf(Positive(X), b, If(Positive(Search), <<t>>))>>
      [] k = "ifElse" -> <<ElseIf(Positive(X), b,
                                  IfElse(Positive(Search), <<t>>, <<Set(Lit(3))>>))>>
      [] k = "ifValue"  -> <<Set(IfValue(Positive(X), b \o <<ExprStmt(X)>>, <<t, ExprStmt(Lit(3))>>))>>
      [] k = "match"    -> <<Let("y", Match(Search, "v", b \o <<ExprStmt(Id("v"))>>,
                                                    "w", <<t, ExprStmt(Id("w"))>>)), Set(Id("y"))>>
      [] k = "arms"     -> <<Set(MatchArms(Search,
                                <<ArmLit(-1, <<>>, b \o <<ExprStmt(Lit(4))>>),
                                  ArmName("n", <<Positive(Search)>>, <<t, ExprStmt(Id("n"))>>),
                                  ArmName("n", <<>>, <<ExprStmt(Id("n"))>>)>>))>>
      [] k = "tryCatch" -> <<Set(TryCatch(b \o <<ExprStmt(Try(Search))>>,
                                          "e", <<t, ExprStmt(Id("e"))>>))>>
      [] k = "while"    -> <<While(Positive(Search), Append(b, t))>>
      [] k = "loop"     -> <<Loop(<<Set(Search), IfThen(Positive(X), b), t>>)>>
      [] k = "for"      -> <<For("i", Lit(0), Lit(2), b \o <<Set(Host("chat", Id("i"))), t>>)>>

Kinds == {"if", "ifElse", "ifValue", "match", "arms", "tryCatch", "while", "loop", "for"}
Loops == {"while", "loop", "for"}

\* break and continue only inside a loop.
Fits(n) == /\ n.outer \in Loops \/ n.u \notin {"brk", "cont"}
           /\ {n.outer, n.inner} \cap Loops # {} \/ {n.s, n.t} \cap {"brk", "cont"} = {}

Body(n) ==
    <<Let("x", Host("search", Lit(0)))>> \o
    Construct(n.outer, Construct(n.inner, <<Leaf[n.s]>>, Leaf[n.t]), Leaf[n.u]) \o <<ExprStmt(X)>>

Names ==
    {n \in [outer : Kinds, inner : Kinds, s : DOMAIN Leaf, t : {"ask", "try", "ret", "brk"},
            u : {"fence", "brk"}] : Fits(n)}

\* An arm with a literal and a guard.
MCGuard == {<<Let("x", MatchArms(Host("search", Lit(0)),
                   <<ArmLit(1, <<Positive(Host("search", Lit(1)))>>, <<ExprStmt(Lit(7))>>),
                     ArmName("n", <<>>, <<ExprStmt(Id("n"))>>)>>)), ExprStmt(X)>>}

\* A block that stands alone.
MCBlock == {<<Let("x", Host("search", Lit(0))), ExprStmt(BlockValue(<<Set(Search)>>)), ExprStmt(X)>>}

\* The integer functions of the standard library.
MCMath == {<<Let("x", Host("search", Lit(0))), ExprStmt(e)>> :
               e \in {Math("abs", <<X>>), Math("min", <<X, Lit(0)>>), Math("max", <<X, Lit(0)>>),
                      Math("clamp", <<X, Lit(0), Lit(5)>>), Math("sign", <<X>>)}}

MCPrograms == {Body(n) : n \in Names}
=============================================================================
