------------------------------ MODULE MCStores ------------------------------
(***************************************************************************)
(* The stores and pools, each on its own.  `part` says which of them a     *)
(* behaviour is about; the others stay in one initial state, with their    *)
(* options pinned.                                                         *)
(*   cache: three calls on one key, over L1, L2 or both, L2 empty or not:  *)
(*     enough for two reads promoting the same value around a del.         *)
(*   idempotency: three keys in a map of two, two requests on one of them. *)
(*   throttle: three subjects, a map of two windows, two request slots.    *)
(*   pool: two tenants and two callers over a pool of one connection.      *)
(*   transaction: two requests, one of which nests two calls, the second   *)
(*     of them with a call of its own.                                     *)
(*   redis: two users of two channels with two listeners.                  *)
(***************************************************************************)
EXTENDS Cache, MemoryIdempotencyStore, Throttle, DataSources, SqliteTransaction,
        RedisSubscriber, TLC

CONSTANTS r1, r2, r3, r4, k1, k2, k3, print, t1, t2, n1, n2, n3

MCRequests == {r1, r2, r3, r4}
MCKeys == {k1, k2, k3}
MCKeyOf == [r \in MCRequests |-> CASE r = r1 -> k1 [] r = r2 -> k1 [] r = r3 -> k2 [] r = r4 -> k3]
MCPrints == {print}
MCPrintOf == [r \in MCRequests |-> print]

MCCalls == {t1, t2, n1, n2, n3}
MCParent == [t \in MCCalls |-> CASE t \in {n1, n2} -> t1 [] t = n3 -> n2 [] OTHER -> NoParent]

VARIABLE part

Parts == {"cache", "idempotency", "throttle", "pool", "transaction", "redis"}

(* The options of the parts a behaviour is not about.                      *)
Pinned ==
  /\ part # "cache" => tiers = (CHOOSE ts \in TierChoices : TRUE) /\ l2 = Nothing
  /\ part # "throttle" => store = "redis" /\ key = [r \in Slots |-> CHOOSE k \in Subjects : TRUE]

MCInit ==
  /\ part \in Parts
  /\ CacheInit /\ MemoryInit /\ ThrottleInit /\ DsInit /\ TxInit /\ SubscriberInit
  /\ Pinned

MCNext ==
  \/ /\ part = "cache" /\ CacheNext
     /\ UNCHANGED <<part, memoryVars, throttleVars, dsVars, txVars, subscriberVars>>
  \/ /\ part = "idempotency" /\ MemoryNext
     /\ UNCHANGED <<part, cacheVars, throttleVars, dsVars, txVars, subscriberVars>>
  \/ /\ part = "throttle" /\ ThrottleNext
     /\ UNCHANGED <<part, cacheVars, memoryVars, dsVars, txVars, subscriberVars>>
  \/ /\ part = "pool" /\ DsNext
     /\ UNCHANGED <<part, cacheVars, memoryVars, throttleVars, txVars, subscriberVars>>
  \/ /\ part = "transaction" /\ TxNext
     /\ UNCHANGED <<part, cacheVars, memoryVars, throttleVars, dsVars, subscriberVars>>
  \/ /\ part = "redis" /\ SubscriberNext
     /\ UNCHANGED <<part, cacheVars, memoryVars, throttleVars, dsVars, txVars>>

MCSpec ==
  /\ MCInit
  /\ [][MCNext]_<<part, cacheVars, memoryVars, throttleVars, dsVars, txVars, subscriberVars>>

(* What no definition tells apart.  The parts share their model values, so *)
(* that one permutation serves several of them.                            *)
Symmetry == Permutations(Callers) \cup Permutations(Clients) \cup Permutations(Tenants)
=============================================================================
