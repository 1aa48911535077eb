------------------------------ MODULE Pipeline --------------------------------
(***************************************************************************)
(* What a mesh promises (the route kinds of src/runtime/mesh.h): the       *)
(* routes of a mesh run one after another, each a single step on the text  *)
(* that the one before it left.  How many agents of a route run at once,   *)
(* and what else the thread pool is doing, cannot be seen from outside.    *)
(*                                                                         *)
(* A text is the term that produced it: <<a, v>> is what agent a answered  *)
(* to v, <<"error", a>> the marker for an agent that failed, and           *)
(* <<"collected", parts>> what a fan-in has made of such parts, agent by   *)
(* agent; it is the empty string when the route's list has no agent.       *)
(***************************************************************************)
EXTENDS Sequences, Naturals

CONSTANTS
  Runner,       \* the actors that run a mesh, each at most once
  Question,     \* the text a mesh starts from
  Flaky         \* the agents that may fail

VARIABLES
  mesh,         \* the routes that each runner's mesh has registered
  route,        \* the route each runner has reached
  value,        \* current_input of each runner
  status        \* what its lcn_mesh_execute is doing or has answered

vars == <<mesh, route, value, status>>

\* What an agent that fails returns: the empty string, or none.
Failed == << >>
Pseudo == {"input", "output"}

\* What the agent a may return for the text v.  A pseudo-node has no function
\* and lets the text through.
Answers(a, v) == CASE a \in Pseudo -> {v}
                   [] a \in Flaky  -> {<<a, v>>, Failed}
                   [] OTHER        -> {<<a, v>>}

\* The same for texts of which the step before may have failed.
Through(a, texts) ==
  UNION {IF v = Failed THEN {Failed} ELSE Answers(a, v) : v \in texts}

Part(a, answer) == IF answer = Failed THEN <<"error", a>> ELSE answer

\* Never a failure, not even the empty one of an empty list.
Collection(parts) == <<"collected", parts>>

\* All the collections that the agents may produce from v, agent by agent.
Collections(agents, v) ==
  LET Parts(k) == {Part(agents[k], u) : u \in Answers(agents[k], v)} IN
  {Collection(c) :
     c \in {d \in [DOMAIN agents -> UNION {Parts(k) : k \in DOMAIN agents}] :
             \A k \in DOMAIN agents : d[k] \in Parts(k)}}

Outcomes(r, v) ==
  CASE r.kind = "single"  -> Through(r.to[1], Answers(r.from[1], v))
    [] r.kind = "fan_out" ->
         UNION {IF u = Failed THEN {Failed} ELSE Collections(r.to, u) :
                  u \in Answers(r.from[1], v)}
    [] r.kind = "fan_in"  -> Through(r.to[1], Collections(r.from, v))

InitWith(meshes) ==
  /\ mesh \in [Runner -> meshes]
  /\ route = [r \in Runner |-> 1]
  /\ value = [r \in Runner |-> <<Question>>]
  /\ status = [r \in Runner |-> "idle"]

Start(r) ==
  /\ status[r] = "idle"
  /\ status' = [status EXCEPT ![r] = IF mesh[r] = << >> THEN "ok" ELSE "running"]
  /\ UNCHANGED <<mesh, route, value>>

\* One route.  A failure of the agent that it starts or ends with ends the mesh
\* with an error; one of an agent in its list does not.
Stage(r) ==
  /\ status[r] = "running"
  /\ \E v \in Outcomes(mesh[r][route[r]], value[r]) :
       IF v = Failed
       THEN /\ status' = [status EXCEPT ![r] = "error"]
            /\ UNCHANGED <<route, value>>
       ELSE /\ value' = [value EXCEPT ![r] = v]
            /\ route' = [route EXCEPT ![r] = @ + 1]
            /\ status' = IF route[r] = Len(mesh[r])
                         THEN [status EXCEPT ![r] = "ok"] ELSE status
  /\ UNCHANGED mesh

Next == \E r \in Runner : Start(r) \/ Stage(r)
=============================================================================
