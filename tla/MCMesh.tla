-------------------------------- MODULE MCMesh --------------------------------
(***************************************************************************)
(* A program thread and a task that both run a mesh, on two workers, of    *)
(* which the task occupies one.                                            *)
(***************************************************************************)
EXTENDS Mesh

CONSTANTS m, n, A, B, C

Route(kind, from, to) == [kind |-> kind, from |-> from, to |-> to]

\* A fan-out whose results the next route asks for again.
Gather == [routes |-> << Route("fan_out", <<"input">>, <<A, B>>),
                         Route("fan_in", <<A, B>>, <<C>>) >>,
           fail_fast |-> TRUE]

\* Chains, with a route of lists on both sides and one that is too wide, which
\* are not registered, and one beyond the limit of the routes.
Chain == [routes |-> << Route("single", <<"input">>, <<A>>),
                        Route("both", <<A, B>>, <<B, C>>),
                        Route("fan_out", <<A>>, <<A, B, C>>),
                        Route("fan_out", <<A>>, <<B, C>>),
                        Route("single", <<C>>, <<"output">>) >>,
          fail_fast |-> FALSE]

\* The same agent twice, after a list that names nobody.
Pair == [routes |-> << Route("fan_in", << >>, <<"output">>),
                       Route("fan_in", <<A, A>>, <<"output">>) >>,
         fail_fast |-> FALSE]

MCDeclared == (m :> {Gather, Chain}) @@ (n :> {Pair})
===============================================================================
