--------------------------- MODULE MCApplication ---------------------------
(***************************************************************************)
(* The two halves of create(), each on its own: `part` says which of them  *)
(* a behaviour is about, and the other stays in one initial state.         *)
(*                                                                         *)
(* "application": three bindings, two of them declared and one a class     *)
(* nothing declares, wired in every way that gives no binding itself: each *)
(* takes the others it takes in either order.  Chains, diamonds, shared    *)
(* dependencies and cycles of two and three are among the 125 graphs, and  *)
(* every subset of the bindings may have an async factory.                 *)
(*                                                                         *)
(* "scopes": a root and two modules that may import, re-export and shadow  *)
(* each other and the root in either order, and one token that any of them *)
(* may declare, one of them twice.  Tokens do not influence each other.    *)
(***************************************************************************)
EXTENDS Application, ScopeGraph

MCBindings == 1..3
MCEager == <<1, 2>>

(* The sequences of up to two elements of S, without repetition.           *)
Lists(S) ==
  {s \in UNION {[1..n -> S] : n \in 0..2} : \A i, j \in DOMAIN s : s[i] = s[j] => i = j}

Takes(b) == Lists(MCBindings \ {b})

MCGraphs == {g \in [MCBindings -> UNION {Takes(b) : b \in MCBindings}] :
               \A b \in MCBindings : g[b] \in Takes(b)}

MCModules == {"root", "left", "right"}
MCTokens == {"service"}

MCLayouts ==
  LET once == {<<>>, <<"service">>}
  IN  [imports : {[root |-> i, left |-> j, right |-> k] :
                    i \in Lists({"left", "right"}) \ {<<>>}, j \in Lists({"right", "root"}),
                    k \in {<<>>, <<"left">>}},
       exports : {[root |-> <<>>, left |-> i, right |-> j] :
                    i \in Lists({"service", "right"}), j \in Lists({"service", "left"})},
       providers : {[root |-> i, left |-> j, right |-> k] :
                      i \in once, j \in once \cup {<<"service", "service">>}, k \in once},
       global : {{}, {"right"}}]

VARIABLE part

mcVars == <<part, vars, scopeVars>>

MCInit ==
  \/ /\ part = "application" /\ Init
     /\ layout = (CHOOSE g \in Layouts : TRUE) /\ ScopeInit
  \/ /\ part = "scopes" /\ ScopeInit
     /\ deps = [b \in Bindings |-> <<>>] /\ async = {} /\ kind = "core" /\ Init

MCNext ==
  \/ part = "application" /\ Next /\ UNCHANGED <<part, scopeVars>>
  \/ part = "scopes" /\ ScopeNext /\ UNCHANGED <<part, vars>>

(* Nothing of an application that only builds scopes has fairness to ask   *)
(* for: no get(), hook or request has begun.                               *)
MCSpec == MCInit /\ [][MCNext]_mcVars /\ Fairness
=============================================================================
