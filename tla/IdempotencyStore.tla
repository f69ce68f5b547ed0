-------------------------- MODULE IdempotencyStore --------------------------
(***************************************************************************)
(* http/src/idempotency/store.ts: what the abstract class IdempotencyStore *)
(* promises of one key's record, and what RedisIdempotencyStore does with  *)
(* one SET NX PX, one GET and two compare-and-swap EVALs.  Each operation  *)
(* is atomic.  A record can be forgotten at any time: its lease or its TTL *)
(* ran out, or (MemoryIdempotencyStore) the map was full.                  *)
(***************************************************************************)
CONSTANTS
  Requests,   \* every request; a request is its own token
  Keys,       \* idempotency keys
  KeyOf,      \* the key each request carries
  Prints,     \* fingerprints
  PrintOf     \* each request's fingerprint: method, target and body

VARIABLE record   \* each key's IdempotencyRecord, with the token of its claim

Pending(r) == [state |-> "pending", token |-> r, print |-> PrintOf[r]]
Done(r) == [state |-> "done", token |-> r, print |-> PrintOf[r]]
None == [state |-> "none"]

Records == {None} \cup {Pending(r) : r \in Requests} \cup {Done(r) : r \in Requests}

Init == record = [k \in Keys |-> None]

Holds(r) == record[KeyOf[r]] = Pending(r)

(* Mutant: SET without NX.                                                 *)
ClaimWithoutNX(r, evicted) ==
  record' = [k \in Keys |-> IF k = KeyOf[r] THEN Pending(r)
                            ELSE IF k \in evicted THEN None ELSE record[k]]

(* claim(): true.  The records of `evicted` make room.                     *)
Claim(r, evicted) ==
  /\ record[KeyOf[r]] = None
  /\ record' = [k \in Keys |-> IF k = KeyOf[r] THEN Pending(r)
                               ELSE IF k \in evicted THEN None ELSE record[k]]

(* claim(): false.                                                         *)
Taken(r) == record[KeyOf[r]] # None

(* Mutant: a release that does not compare.                                *)
ReleaseWithoutCompare(r) == record' = [record EXCEPT ![KeyOf[r]] = None]

(* complete() and release() touch nothing but this request's own claim.    *)
Complete(r) ==
  record' = IF Holds(r) THEN [record EXCEPT ![KeyOf[r]] = Done(r)] ELSE record

Release(r) ==
  record' = IF Holds(r) THEN [record EXCEPT ![KeyOf[r]] = None] ELSE record

Forget(gone) ==
  /\ gone # {}
  /\ record' = [k \in Keys |-> IF k \in gone THEN None ELSE record[k]]

Next ==
  \/ \E r \in Requests :
       (\E evicted \in SUBSET Keys : Claim(r, evicted)) \/ Complete(r) \/ Release(r)
  \/ \E gone \in SUBSET Keys : Forget(gone)

Spec == Init /\ [][Next]_record
=============================================================================
