------------------------------ MODULE Throttle ------------------------------
(***************************************************************************)
(* http/src/throttle: ThrottleGuard over either of its stores.  Over       *)
(* RedisThrottleStore, requests of several processes count against one     *)
(* Redis key each; the store sends INCR and, only when INCR answered 1,    *)
(* EXPIRE, in two round trips.  A round trip can fail before or after      *)
(* Redis applied it, and a process can die between the two.  The guard     *)
(* fails open: a hit it could not count is allowed.  MemoryThrottleStore   *)
(* counts in one step in a map of at most maxKeys windows, in which an     *)
(* expired window stays until it is touched or swept.  Time is the seconds *)
(* left in each key's window.                                              *)
(***************************************************************************)
EXTENDS Integers, FiniteSets

CONSTANTS
  Slots,     \* request slots; a slot serves one request after another
  Subjects,  \* prefix, scope and subject: what #key builds
  Limit,     \* limit.limit
  Window,    \* limit.windowSeconds
  MaxWindows,  \* MemoryThrottleStore: #maxKeys
  MaxCount,  \* bound on a counter
  Faulty     \* whether round trips fail and processes die

ASSUME ThrottleAssumption ==
  /\ Limit \in Nat /\ Window \in Nat \ {0} /\ MaxCount \in Nat /\ Faulty \in BOOLEAN
  /\ MaxWindows \in Nat \ {0} /\ IsFiniteSet(Slots) /\ IsFiniteSet(Subjects)

NoTtl == -1   \* Redis: the key has no expiry

VARIABLES
  store,     \* the store bound in this deployment: "redis" or "memory"
  count,     \* the counter of a key, 0 when the key is gone
  left,      \* its TTL, or NoTtl; 0 for an expired window in memory
  at,        \* where a request is: its next round trip, or how it was answered
  key,       \* the key a request counts against
  used,      \* what hit() answered; 0 stands for undefined
  after,     \* the retry-after of a 429; 0 before one
  current,   \* history: requests in flight that were counted in their key's current window
  admitted   \* history: how many requests a key's current window admitted

throttleVars == <<store, count, left, at, key, used, after, current, admitted>>

Busy == {"incr", "expire", "judge", "ttl"}
Idle == {"idle", "admitted", "limited"}

ThrottleInit ==
  /\ store \in {"redis", "memory"}
  /\ count = [k \in Subjects |-> 0] /\ left = [k \in Subjects |-> NoTtl]
  /\ at = [r \in Slots |-> "idle"] /\ key \in [Slots -> Subjects]
  /\ used = [r \in Slots |-> 0] /\ after = [r \in Slots |-> 0]
  /\ current = {} /\ admitted = [k \in Subjects |-> 0]

(* handle(), up to the store: a request that is limited at all.            *)
Arrive(r, k) ==
  /\ at[r] \in Idle
  /\ at' = [at EXCEPT ![r] = "incr"] /\ key' = [key EXCEPT ![r] = k]
  /\ used' = [used EXCEPT ![r] = 0] /\ after' = [after EXCEPT ![r] = 0]
  /\ UNCHANGED <<store, count, left, current, admitted>>

(* A count of 1 opens the window.                                          *)
OpensWindow(n) == n = 1

(* Redis hit(): INCR, and whether EXPIRE follows.                          *)
Incr(r) ==
  /\ store = "redis" /\ at[r] = "incr" /\ count[key[r]] < MaxCount
  /\ count' = [count EXCEPT ![key[r]] = @ + 1]
  /\ used' = [used EXCEPT ![r] = count[key[r]] + 1]
  /\ at' = [at EXCEPT ![r] = IF OpensWindow(count[key[r]] + 1) THEN "expire" ELSE "judge"]
  /\ current' = current \cup {r}
  /\ UNCHANGED <<store, left, key, after, admitted>>

(* Redis hit(): EXPIRE; on a key that is gone it does nothing.             *)
Expire(r) ==
  /\ at[r] = "expire"
  /\ left' = IF count[key[r]] > 0 THEN [left EXCEPT ![key[r]] = Window] ELSE left
  /\ at' = [at EXCEPT ![r] = "judge"]
  /\ UNCHANGED <<store, count, key, used, after, current, admitted>>

LiveWindows == {k \in Subjects : count[k] > 0 /\ left[k] > 0}

(* Mutant: a full map is cleared before its expired windows are swept.     *)
ClearsFirst == {}
(* #sweep(): the expired windows go, and all of them if that frees none.   *)
Sweep == IF Cardinality(LiveWindows) >= MaxWindows THEN {} ELSE LiveWindows

(* Memory hit(): a live window counts on; otherwise the map makes room and *)
(* a window opens.                                                         *)
MemoryHit(r) ==
  LET k == key[r]
      entries == {x \in Subjects : count[x] > 0}
      kept == IF k \in LiveWindows \/ Cardinality(entries) < MaxWindows THEN entries ELSE Sweep
      same == IF k \in LiveWindows THEN kept ELSE kept \ {k} IN
  /\ store = "memory" /\ at[r] = "incr" /\ count[k] < MaxCount
  /\ count' = [x \in Subjects |-> (IF x \in same THEN count[x] ELSE 0) + (IF x = k THEN 1 ELSE 0)]
  /\ left' = [x \in Subjects |-> IF x \in same THEN left[x] ELSE IF x = k THEN Window ELSE NoTtl]
  /\ used' = [used EXCEPT ![r] = count'[k]]
  /\ at' = [at EXCEPT ![r] = "judge"]
  /\ current' = {q \in current : key[q] \in same} \cup {r}
  /\ admitted' = [x \in Subjects |-> IF x \in same THEN admitted[x] ELSE 0]
  /\ UNCHANGED <<store, key, after>>

(* Mutant: a limit off by one.                                             *)
OverLate(n) == n > Limit + 1
Over(n) == n > Limit

(* handle(): the count decides.                                            *)
Judge(r) ==
  /\ at[r] = "judge"
  /\ IF Over(used[r])
       THEN at' = [at EXCEPT ![r] = "ttl"] /\ UNCHANGED admitted
       ELSE /\ at' = [at EXCEPT ![r] = "admitted"]
            /\ admitted' = [admitted EXCEPT ![key[r]] = IF r \in current THEN @ + 1 ELSE @]
  /\ current' = current \ {r}
  /\ UNCHANGED <<store, count, left, key, used, after>>

RawTtl(k) == IF count[k] = 0 THEN -2 ELSE left[k]
RetryAfter(k) == IF RawTtl(k) > 0 THEN RawTtl(k) ELSE Window

(* ttl() and the 429 that carries it.                                      *)
Refuse(r) ==
  /\ at[r] = "ttl"
  /\ at' = [at EXCEPT ![r] = "limited"]
  /\ after' = [after EXCEPT ![r] = RetryAfter(key[r])]
  /\ UNCHANGED <<store, count, left, key, used, current, admitted>>

(* A failed round trip, whether or not Redis applied it: #hit answers      *)
(* undefined and the guard lets the request through; #ttl answers          *)
(* undefined and the 429 names the whole window.                           *)
FailsOpen(r) ==
  /\ Faulty /\ store = "redis" /\ at[r] \in {"incr", "expire"}
  /\ \E applied \in BOOLEAN :
       /\ applied => count[key[r]] < MaxCount
       /\ count' = IF applied /\ at[r] = "incr" THEN [count EXCEPT ![key[r]] = @ + 1] ELSE count
       /\ left' = IF applied /\ at[r] = "expire" THEN [left EXCEPT ![key[r]] = Window] ELSE left
  /\ used' = [used EXCEPT ![r] = 0]
  /\ at' = [at EXCEPT ![r] = "admitted"] /\ current' = current \ {r}
  /\ UNCHANGED <<store, key, after, admitted>>

TtlFails(r) ==
  /\ Faulty /\ store = "redis" /\ at[r] = "ttl"
  /\ at' = [at EXCEPT ![r] = "limited"]
  /\ after' = [after EXCEPT ![r] = Window]
  /\ UNCHANGED <<store, count, left, key, used, current, admitted>>

Crash(r) ==
  /\ Faulty /\ store = "redis" /\ at[r] \in Busy
  /\ at' = [at EXCEPT ![r] = "idle"] /\ used' = [used EXCEPT ![r] = 0]
  /\ current' = current \ {r}
  /\ UNCHANGED <<store, count, left, key, after, admitted>>

(* A second passes: Redis drops the keys whose window is over, the map     *)
(* keeps them.                                                             *)
ThrottleTick ==
  /\ \E k \in Subjects : left[k] > 0
  /\ left' = [k \in Subjects |-> IF left[k] > 1 THEN left[k] - 1
                             ELSE IF store = "memory" /\ count[k] > 0 THEN 0 ELSE NoTtl]
  /\ count' = [k \in Subjects |-> IF left[k] = 1 /\ store = "redis" THEN 0 ELSE count[k]]
  /\ admitted' = [k \in Subjects |-> IF left[k] = 1 THEN 0 ELSE admitted[k]]
  /\ current' = {r \in current : left[key[r]] # 1}
  /\ UNCHANGED <<store, at, key, used, after>>

Step(r) ==
  Incr(r) \/ Expire(r) \/ MemoryHit(r) \/ Judge(r) \/ Refuse(r) \/ FailsOpen(r) \/ TtlFails(r) \/ Crash(r)

ThrottleNext == ThrottleTick \/ \E r \in Slots : Step(r) \/ \E k \in Subjects : Arrive(r, k)

ThrottleSpec == ThrottleInit /\ [][ThrottleNext]_throttleVars

(* A round trip answers or fails, and time passes.                         *)
ThrottleFairSpec ==
  ThrottleSpec /\ WF_throttleVars(ThrottleTick) /\ \A r \in Slots : WF_throttleVars(Step(r))

-----------------------------------------------------------------------------
(* The budget: however the round trips of concurrent requests interleave,  *)
(* fail or are cut short, a window admits at most Limit counted requests,  *)
(* and a request it refuses is told a time within the window, never Redis' *)
(* -1 or -2 (store.ts:68-72).                                              *)
BudgetPerWindow ==
  /\ \A k \in Subjects : admitted[k] <= Limit
  /\ \A r \in Slots : at[r] = "limited" => after[r] \in 1..Window

(* "The window starts at the first hit rather than being pushed forward by *)
(* every subsequent one" (store.ts:51-53): the time a window has left only *)
(* runs down.  It is cut short only to make room in a map whose every      *)
(* window has time left: until then no subject gets a second budget, and   *)
(* the map never outgrows maxKeys.                                         *)
WindowLasts ==
  [][/\ \A k \in LiveWindows :
          /\ left'[k] <= left[k]
          /\ count'[k] = 0 /\ left[k] > 1 => Cardinality(LiveWindows) = MaxWindows
     /\ store = "memory" => Cardinality({k \in Subjects : count'[k] > 0}) <= MaxWindows]_throttleVars

(* "ends when the key expires" (store.ts:7-8): a window that was opened    *)
(* ends, and the subject gets a fresh budget.                              *)
WindowEnds == \A k \in Subjects : count[k] > 0 ~> count[k] = 0
=============================================================================
