------------------------------- MODULE Cache --------------------------------
(***************************************************************************)
(* infra/src/cache: Cache (cache.ts) over TieredCacheStore (tiered.ts),    *)
(* whose L1 is a MemoryCacheStore (memory.ts) and whose L2 is a            *)
(* RedisCacheStore (redis.ts) on one connection.  Keys share nothing but   *)
(* L1's eviction, so the model follows one key, which L1 may evict and     *)
(* either tier may expire at any time.                                     *)
(*                                                                         *)
(* Every call is a caller of its own.  A caller runs from one await to the *)
(* next; L1 answers within the step that asks it, while L2's commands go   *)
(* out on the wire in call order, are applied in that order, and answer    *)
(* later.  The value a caller stores is named after the caller; L2 may     *)
(* hold one from before.                                                   *)
(***************************************************************************)
EXTENDS Integers, Sequences, FiniteSets

CONSTANTS
  Callers,
  Nothing,         \* undefined: no value, no caller
  Earlier,      \* a value another process may have left in L2
  TierChoices,  \* the sets of tiers a store may be built with
  MaxLapses     \* bound on evictions and expiries

ASSUME CacheAssumption ==
  /\ Nothing \notin Callers \cup {Earlier} /\ Earlier \notin Callers
  /\ TierChoices \subseteq SUBSET {"local", "remote"} /\ MaxLapses \in Nat
  /\ IsFiniteSet(Callers) /\ Nothing # "failed"

VARIABLES
  tiers,        \* options: the tiers that are enabled
  l1, l2,       \* what each tier holds for the key
  wire,         \* commands sent to L2 and not yet applied, oldest first
  promoting,    \* TieredCacheStore #promoting
  superseded,   \* TieredCacheStore #superseded has the key
  inflight,     \* Cache #inflight: the wrap that is loading the key
  overtaken,    \* Cache #superseded has the key
  op, pc,       \* what a caller asked for, and where it is
  read,         \* what the tier a caller asked answered
  joined,       \* the wrap whose promise a caller awaits
  answer,       \* what the call resolved to; "failed" when it rejected
  lapses,       \* evictions and expiries so far
  before        \* history: at a del, the values already stored and the loads already started

flightVars == <<inflight, overtaken>>
tierVars == <<tiers, l1, l2, wire, promoting, superseded>>
cacheCallVars == <<op, pc, read, joined, answer>>
cacheVars == <<tierVars, flightVars, cacheCallVars, lapses, before>>

LocalEnabled == "local" \in tiers
RemoteEnabled == "remote" \in tiers

Ops == {"get", "set", "del", "wrap"}

CacheInit ==
  /\ tiers \in TierChoices
  /\ l1 = Nothing /\ l2 \in {Nothing} \cup (IF RemoteEnabled THEN {Earlier} ELSE {}) /\ wire = <<>> /\ promoting = 0 /\ superseded = FALSE
  /\ inflight = Nothing /\ overtaken = FALSE
  /\ op = [c \in Callers |-> Nothing] /\ pc = [c \in Callers |-> "idle"]
  /\ read = [c \in Callers |-> Nothing] /\ joined = [c \in Callers |-> Nothing]
  /\ answer = [c \in Callers |-> Nothing]
  /\ lapses = 0 /\ before = [c \in Callers |-> [stored |-> {}, loading |-> {}]]

(* Mutants: the first of several reads clears the mark; a wrap never joins *)
(* the load in flight.                                                     *)
LeaveFlag == promoting' = promoting - 1 /\ superseded' = FALSE
MayJoinNot == FALSE

(* #supersede, of the tiered store and of the cache.                       *)
TierSupersede == superseded' = (superseded \/ promoting > 0)
CacheSupersede == overtaken' = (overtaken \/ inflight # Nothing)

(* The finally of TieredCacheStore.get.                                    *)
Leave ==
  /\ promoting' = promoting - 1
  /\ superseded' = (superseded /\ promoting > 1)

(* A call settles.  A wrap leaves #inflight and #superseded, and its       *)
(* promise settles for whoever joined it.                                  *)
Settles(c, result) ==
  LET settled == {c} \cup {d \in Callers : pc[d] = "joined" /\ joined[d] = c} IN
  /\ pc' = [d \in Callers |-> IF d \in settled THEN "done" ELSE pc[d]]
  /\ answer' = [d \in Callers |-> IF d \in settled THEN result ELSE answer[d]]
  /\ inflight' = IF op[c] = "wrap" THEN Nothing ELSE inflight
  /\ overtaken' = IF op[c] = "wrap" THEN FALSE ELSE overtaken

Goes(c, where) == pc' = [pc EXCEPT ![c] = where]
Send(c) == wire' = Append(wire, c)

Begin(c, what) == pc[c] = "idle" /\ op' = [op EXCEPT ![c] = what]

MayJoin == inflight # Nothing

(* get(), and a wrap that finds no load to join: #read, up to L1's answer. *)
BeginRead(c, what) ==
  /\ what \in {"get", "wrap"} /\ Begin(c, what)
  /\ ~(what = "wrap" /\ MayJoin)
  /\ inflight' = IF what = "wrap" THEN c ELSE inflight
  /\ read' = [read EXCEPT ![c] = IF LocalEnabled THEN l1 ELSE Nothing]
  /\ Goes(c, "near")
  /\ UNCHANGED <<tierVars, overtaken, joined, answer, lapses, before>>

(* A wrap that awaits the load in flight.                                  *)
Join(c) ==
  /\ Begin(c, "wrap") /\ MayJoin
  /\ joined' = [joined EXCEPT ![c] = inflight]
  /\ Goes(c, "joined")
  /\ UNCHANGED <<tierVars, flightVars, read, answer, lapses, before>>

(* TieredCacheStore.set up to its first await, by Cache.set or by a wrap.  *)
TierSet(c) ==
  /\ TierSupersede
  /\ IF RemoteEnabled THEN Send(c) /\ UNCHANGED l1
                      ELSE l1' = (IF LocalEnabled THEN c ELSE l1) /\ UNCHANGED wire
  /\ UNCHANGED <<tiers, l2, promoting>>

BeginSet(c) ==
  /\ Begin(c, "set")
  /\ CacheSupersede
  /\ TierSet(c)
  /\ Goes(c, IF RemoteEnabled THEN "sent" ELSE "set")
  /\ UNCHANGED <<inflight, read, joined, answer, lapses, before>>

(* The values stored by calls that are over or by another process, and the *)
(* loads under way.                                                        *)
Stored == {Earlier} \cup {c \in Callers : pc[c] = "done" /\ op[c] \in {"set", "wrap"}}
Loading == {c \in Callers : op[c] = "wrap" /\ pc[c] \in {"near", "sent", "applied", "load", "setting", "kept"}}

BeginDel(c) ==
  /\ Begin(c, "del")
  /\ CacheSupersede
  /\ TierSupersede
  /\ l1' = IF LocalEnabled THEN Nothing ELSE l1
  /\ IF RemoteEnabled THEN Send(c) ELSE UNCHANGED wire
  /\ Goes(c, IF RemoteEnabled THEN "sent" ELSE "dropped")
  /\ before' = [before EXCEPT ![c] = [stored |-> Stored, loading |-> Loading]]
  /\ UNCHANGED <<tiers, l2, promoting, inflight, read, joined, answer, lapses>>

(* A read answers its caller, or a wrap goes on to load.                   *)
ReadEnds(c, value) ==
  IF value = Nothing /\ op[c] = "wrap" THEN Goes(c, "load") /\ UNCHANGED <<answer, flightVars>>
                                    ELSE Settles(c, value)

(* TieredCacheStore.get once L1 answered.                                  *)
Near(c) ==
  /\ pc[c] = "near"
  /\ IF read[c] # Nothing \/ ~RemoteEnabled
       THEN ReadEnds(c, read[c]) /\ UNCHANGED <<wire, promoting>>
       ELSE Goes(c, "sent") /\ Send(c) /\ promoting' = promoting + 1 /\ UNCHANGED <<answer, flightVars>>
  /\ UNCHANGED <<tiers, l1, l2, superseded, op, read, joined, lapses, before>>

(* Redis applies the oldest command on the wire.                           *)
Apply ==
  /\ wire # <<>>
  /\ LET c == Head(wire)
         reading == pc[c] = "sent" /\ op[c] \in {"get", "wrap"} IN
     /\ read' = IF reading THEN [read EXCEPT ![c] = l2] ELSE read
     /\ l2' = CASE reading -> l2 [] op[c] = "del" -> Nothing [] OTHER -> c
     /\ Goes(c, CASE reading -> "applied" [] pc[c] = "setting" -> "kept"
                  [] op[c] = "set" -> "set" [] op[c] = "del" -> "dropped")
  /\ wire' = Tail(wire)
  /\ UNCHANGED <<tiers, l1, promoting, superseded, flightVars, op, joined, answer, lapses, before>>

(* The connection fails the oldest command, applied or not: the call       *)
(* rejects, through the finally of get and of wrap.                        *)
Fails ==
  /\ wire # <<>>
  /\ LET c == Head(wire)
         reading == pc[c] = "sent" /\ op[c] \in {"get", "wrap"} IN
     /\ Settles(c, "failed")
     /\ IF reading THEN Leave ELSE UNCHANGED <<promoting, superseded>>
     /\ \/ UNCHANGED l2
        \/ ~reading /\ l2' = IF op[c] = "del" THEN Nothing ELSE c
  /\ wire' = Tail(wire)
  /\ UNCHANGED <<tiers, l1, op, read, joined, lapses, before>>

(* TieredCacheStore.get once L2 answered: promote, unless superseded.      *)
Far(c) ==
  /\ pc[c] = "applied"
  /\ LET kept == IF superseded THEN Nothing ELSE read[c] IN
     /\ l1' = IF kept # Nothing /\ LocalEnabled THEN kept ELSE l1
     /\ ReadEnds(c, kept)
  /\ Leave
  /\ UNCHANGED <<tiers, l2, wire, op, read, joined, lapses, before>>

(* #read once load() is over: it threw, it returned undefined or a set or  *)
(* del overtook it, or its value is to be stored.                          *)
LoadThrows(c) ==
  /\ pc[c] = "load" /\ Settles(c, "failed")
  /\ UNCHANGED <<tierVars, op, read, joined, lapses, before>>

LoadUnstored(c) ==
  /\ pc[c] = "load"
  /\ \E value \in {Nothing, c} : (overtaken \/ value = Nothing) /\ Settles(c, value)
  /\ UNCHANGED <<tierVars, op, read, joined, lapses, before>>

LoadStores(c) ==
  /\ pc[c] = "load" /\ ~overtaken
  /\ TierSet(c)
  /\ Goes(c, IF RemoteEnabled THEN "setting" ELSE "kept")
  /\ UNCHANGED <<flightVars, op, read, joined, answer, lapses, before>>

(* TieredCacheStore.set and .del once L2 answered.                         *)
SetEnds(c) ==
  /\ pc[c] \in {"set", "kept"}
  /\ l1' = IF LocalEnabled /\ RemoteEnabled THEN c ELSE l1
  /\ Settles(c, c)
  /\ UNCHANGED <<tiers, l2, wire, promoting, superseded, op, read, joined, lapses, before>>

DelEnds(c) ==
  /\ pc[c] = "dropped"
  /\ Settles(c, Nothing)
  /\ UNCHANGED <<tierVars, op, read, joined, lapses, before>>

(* L1 evicts its coldest entry, or an entry expires.                       *)
Lapse ==
  /\ lapses < MaxLapses /\ lapses' = lapses + 1
  /\ \/ l1 # Nothing /\ l1' = Nothing /\ UNCHANGED l2
     \/ l2 # Nothing /\ l2' = Nothing /\ UNCHANGED l1
  /\ UNCHANGED <<tiers, wire, promoting, superseded, flightVars, cacheCallVars, before>>

Resume(c) ==
  Near(c) \/ Far(c) \/ LoadThrows(c) \/ LoadUnstored(c) \/ LoadStores(c) \/ SetEnds(c) \/ DelEnds(c)

CacheNext ==
  \/ \E c \in Callers :
       \/ Resume(c) \/ Join(c) \/ BeginSet(c) \/ BeginDel(c)
       \/ \E what \in Ops : BeginRead(c, what)
  \/ Apply \/ Fails \/ Lapse

CacheSpec == CacheInit /\ [][CacheNext]_cacheVars

-----------------------------------------------------------------------------
(* "wrap is read-through with one load per key in flight" (cache.ts:5):    *)
(* and #inflight names no load that is over, so a wrap never joins one,    *)
(* and a mark left behind never drops the store of a later load            *)
(* (cache.ts:64).                                                          *)
SingleFlight ==
  /\ Cardinality(Loading) <= 1
  /\ inflight # Nothing => pc[inflight] \notin {"idle", "done"}
  /\ overtaken => inflight # Nothing

(* What the dels that succeeded found stored, or found being loaded.       *)
Deleted(which(_)) == UNION {which(before[c]) : c \in {d \in Callers : op[d] = "del" /\ pc[d] = "done" /\ answer[d] = Nothing}}
DeletedStored == Deleted(LAMBDA b : b.stored)
DeletedLoads == Deleted(LAMBDA b : b.loading)

(* "a del cannot be undone by a loader that started before it"             *)
(* (cache.ts:40-41): the value of a load under way when the del was called *)
(* is in no tier once the del is over.                                     *)
LoaderKeepsDel == {l1, l2} \cap DeletedLoads = {}

(* A del that succeeded is not undone in L1: a value that was stored       *)
(* before the del was called is in L1 no more, however many reads were     *)
(* promoting it (tiered.ts:87-104).  In a store of a single tier, whose    *)
(* set has no step between its check and its write, no loader undoes it    *)
(* either.                                                                 *)
DelKept == l1 \notin DeletedStored /\ (Cardinality(tiers) < 2 => LoaderKeepsDel)
=============================================================================
