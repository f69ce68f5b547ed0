------------------------------ MODULE MCGuards ------------------------------
(***************************************************************************)
(* The two guards in front of an operation, each on its own: a circuit     *)
(* breaker with four outstanding attempts, and an idempotency guard with   *)
(* one key and four requests, three retries of one request and one that    *)
(* reuses the key for another.  `part` says which of them a behaviour is   *)
(* about; the other stays in its initial state.                            *)
(***************************************************************************)
EXTENDS CircuitBreaker, Idempotency, TLC

CONSTANTS r1, r2, r3, other, k1, same, different

MCRequests == {r1, r2, r3, other}
MCKeys == {k1}
MCKeyOf == [r \in MCRequests |-> k1]
MCPrints == {same, different}
MCPrintOf == [r \in MCRequests |-> IF r = other THEN different ELSE same]

VARIABLE part

MCInit == part \in {"breaker", "idempotency"} /\ Init /\ IdempotencyInit

MCNext ==
  \/ part = "breaker" /\ Next /\ UNCHANGED <<part, idempotencyVars>>
  \/ part = "idempotency" /\ IdempotencyNext /\ UNCHANGED <<part, vars>>

MCSpec == MCInit /\ [][MCNext]_<<part, vars, idempotencyVars>>

(* Attempts are interchangeable, and so are the retries.                   *)
Symmetry == Permutations(Callers) \cup Permutations({r1, r2, r3})
=============================================================================
