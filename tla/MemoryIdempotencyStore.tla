----------------------- MODULE MemoryIdempotencyStore -----------------------
(***************************************************************************)
(* http/src/idempotency/store.ts: MemoryIdempotencyStore, the in-process   *)
(* store.  A Map in insertion order whose expired entries are dropped on   *)
(* touch, and swept (or the oldest evicted) when the map is full; and      *)
(* #nextExpiry, which lets the sweep skip a map with nothing expired.      *)
(* Each method runs to its end without an await.                           *)
(***************************************************************************)
EXTENDS Integers, Sequences, FiniteSets, FiniteSetsExt, KeptInOrder

CONSTANTS
  Requests, Keys, KeyOf, Prints, PrintOf,   \* as in IdempotencyStore
  MaxKeys,    \* #maxKeys
  Lease,      \* leaseMs, in clock ticks
  Ttl,        \* ttlMs, in clock ticks
  MaxTime     \* bound on the clock

ASSUME MemoryAssumption ==
  /\ KeyOf \in [Requests -> Keys] /\ PrintOf \in [Requests -> Prints]
  /\ MaxKeys \in Nat \ {0} /\ Lease \in Nat \ {0} /\ Ttl \in Nat \ {0} /\ MaxTime \in Nat

VARIABLES
  entries,     \* #entries: <<key, token, done, expiresAt>> in insertion order
  nextExpiry,  \* #nextExpiry
  now,         \* Date.now()
  held         \* requests whose claim() answered true and that still run

memoryVars == <<entries, nextExpiry, now, held>>

Infinity == MaxTime + Lease + Ttl + 1

MemoryInit == entries = <<>> /\ nextExpiry = Infinity /\ now = 0 /\ held = {}

IsLive(e) == e.expiresAt > now
Has(es, k) == \E i \in DOMAIN es : es[i].key = k
Get(es, k) == es[CHOOSE i \in DOMAIN es : es[i].key = k]

Drop(es, k) == InOrder(es, {i \in DOMAIN es : es[i].key # k})
LivePart(es) == InOrder(es, {i \in DOMAIN es : IsLive(es[i])})

(* #live: an expired entry is deleted as it is touched.                    *)
Touched(k) == IF Has(entries, k) /\ ~IsLive(Get(entries, k)) THEN Drop(entries, k) ELSE entries

(* #set: Map.set keeps the place of a key it already has.                  *)
Put(es, e) ==
  IF Has(es, e.key) THEN [i \in DOMAIN es |-> IF es[i].key = e.key THEN e ELSE es[i]]
                    ELSE Append(es, e)

LowerOf(a, b) == IF a < b THEN a ELSE b

(* Mutant: an entry expiring now is not swept.                             *)
SweptLate(es) == IF nextExpiry < now THEN LivePart(es) ELSE es

(* #sweep, in its two halves: the expired entries go, if any can have      *)
(* expired; then, if the map is still full, the oldest entry goes.         *)
Swept(es) == IF nextExpiry <= now THEN LivePart(es) ELSE es

ExpiryAfterSweep(es) ==
  IF nextExpiry <= now
    THEN Min({Infinity} \cup {Swept(es)[i].expiresAt : i \in DOMAIN Swept(es)})
    ELSE nextExpiry

EvictOldest(es) == IF Len(es) >= MaxKeys /\ es # <<>> THEN Tail(es) ELSE es

(* claim()                                                                 *)
Claim(r) ==
  /\ r \notin held
  /\ ~Has(Touched(KeyOf[r]), KeyOf[r])
  /\ LET es == Touched(KeyOf[r])
         full == Len(es) >= MaxKeys
         room == IF full THEN EvictOldest(Swept(es)) ELSE es
         bound == IF full THEN ExpiryAfterSweep(es) ELSE nextExpiry
         new == [key |-> KeyOf[r], token |-> r, done |-> FALSE, expiresAt |-> now + Lease]
     IN /\ entries' = Put(room, new)
        /\ nextExpiry' = LowerOf(new.expiresAt, bound)
  /\ held' = held \cup {r}
  /\ UNCHANGED now

(* claim() answering false, and read(): both only touch.                   *)
Look(k) ==
  /\ Has(entries, k)
  /\ entries' = Touched(k)
  /\ UNCHANGED <<nextExpiry, now, held>>

(* Mutant: any claim on the key will do.                                   *)
OwnsKey(r) == Has(Touched(KeyOf[r]), KeyOf[r])

Owns(r) ==
  LET es == Touched(KeyOf[r]) IN
  Has(es, KeyOf[r]) /\ Get(es, KeyOf[r]).token = r /\ ~Get(es, KeyOf[r]).done

(* complete() and release(), by a request that claimed, however late.      *)
Complete(r) ==
  /\ r \in held
  /\ held' = held \ {r}
  /\ IF Owns(r)
       THEN LET e == [key |-> KeyOf[r], token |-> r, done |-> TRUE, expiresAt |-> now + Ttl] IN
            entries' = Put(entries, e) /\ nextExpiry' = LowerOf(e.expiresAt, nextExpiry)
       ELSE entries' = Touched(KeyOf[r]) /\ UNCHANGED nextExpiry
  /\ UNCHANGED now

Release(r) ==
  /\ r \in held
  /\ held' = held \ {r}
  /\ entries' = IF Owns(r) THEN Drop(entries, KeyOf[r]) ELSE Touched(KeyOf[r])
  /\ UNCHANGED <<nextExpiry, now>>

MemoryTick == now < MaxTime /\ now' = now + 1 /\ UNCHANGED <<entries, nextExpiry, held>>

MemoryNext ==
  \/ \E r \in Requests : Claim(r) \/ Complete(r) \/ Release(r)
  \/ \E k \in Keys : Look(k)
  \/ MemoryTick

MemorySpec == MemoryInit /\ [][MemoryNext]_memoryVars

-----------------------------------------------------------------------------
(* Making room never costs a live entry while an expired one is in the     *)
(* map: an in-flight claim is evicted only from a map full of live ones    *)
(* (#nextExpiry, "never late", store.ts:210), and the map never outgrows   *)
(* maxKeys.                                                                *)
LiveEntriesKept ==
  [][/\ Len(entries') <= MaxKeys
     /\ \A i \in DOMAIN entries :
          IsLive(entries[i]) /\ ~Has(entries', entries[i].key) =>
            \/ entries[i].token \in held \ held'
            \/ Len(entries) >= MaxKeys /\ \A j \in DOMAIN entries : IsLive(entries[j])]_memoryVars

(* The store a guard sees: an expired entry is no entry.                   *)
recordOf ==
  [k \in Keys |->
     IF Has(entries, k) /\ IsLive(Get(entries, k))
       THEN LET e == Get(entries, k) IN
            [state |-> IF e.done THEN "done" ELSE "pending",
             token |-> e.token, print |-> PrintOf[e.token]]
       ELSE [state |-> "none"]]

Abstract == INSTANCE IdempotencyStore WITH record <- recordOf

(* MemoryIdempotencyStore is an IdempotencyStore: claims are exclusive,    *)
(* completion and release touch only their own claim, and the map's own    *)
(* housekeeping only ever forgets.                                         *)
ImplementsStore == Abstract!Spec
=============================================================================
