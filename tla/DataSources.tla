---------------------------- MODULE DataSources ----------------------------
(***************************************************************************)
(* The pool of data sources keyed at runtime, one database per tenant      *)
(* (packages/infra/src/db/data-sources.ts).  The pool keeps a map from a   *)
(* key to an entry, in order of last use; an entry holds the promise of a  *)
(* connection and the number of use() calls that borrow it.  Admission     *)
(* (#entry, #makeRoom, #drop) is synchronous; an open, a close, a sweep    *)
(* and close() itself each span awaits, and anything may run in between.   *)
(*                                                                         *)
(* An entry is a number, in the order of opening.  The reactions of one    *)
(* promise run one after the other in one turn, so an open that settles    *)
(* and what the calls awaiting it do next is one step.                     *)
(***************************************************************************)
EXTENDS Integers, Sequences, FiniteSets

CONSTANTS
  Tenants,      \* the keys
  Clients,      \* callers of connection() and use()
  MaxLive,      \* max: live data sources held at once, 0 for no bound
  MaxEntries,   \* bound of the model: entries ever opened
  MaxEvicted,   \* bound of the model: how often evict(key) finds an entry
  Sweeps        \* bound of the model: how often the idle sweep runs

ASSUME DataSourcesAssumption ==
  IsFiniteSet(Clients) /\ MaxLive \in Nat /\ MaxEntries \in Nat \ {0} /\ MaxEvicted \in Nat /\ Sweeps \in Nat

Entries == 1..MaxEntries

VARIABLES
  pool,         \* #entries: entries in the map's insertion order
  keyOf,        \* the key of every entry opened so far
  opening,      \* the opening promise: "unused", "pending", "open", "failed"
  conn,         \* the connection: "none", "open", or "closed" once close() is called
  leases,       \* use() calls that hold the entry
  shut,         \* #shut: "no", "wait" for the open, "late", "closing", "done"
  tracked,      \* #closing: the entries whose close close() waits for
  call,         \* what a client is doing: "idle", "get", "use" (awaiting), "work"
  holds,        \* the entry a client's call got
  todo,         \* prune(): the entries of its snapshot it has still to look at
  due,          \* those not touched since the cutoff
  awaited,      \* the entry whose close prune() awaits, 0 for none
  swept,        \* how often prune() ran
  poolClosed,   \* #closed
  closing,      \* the entries close() waits for
  displaced,    \* history: entries another entry's touch() put out of the map
  evicted       \* history: entries shut by evict(key) or close()

dsVars == <<pool, keyOf, opening, conn, leases, shut, tracked, call, holds,
            todo, due, awaited, swept, poolClosed, closing, displaced, evicted>>

connVars == <<opening, conn, leases>>
clientVars == <<call, holds>>
sweepVars == <<todo, due, awaited, swept>>
closeVars == <<poolClosed, closing>>
history == <<displaced, evicted>>

Live == {pool[i] : i \in DOMAIN pool}
Current(k) == {e \in Live : keyOf[e] = k}
Settled(e) == shut[e] \in {"late", "done"}

DsInit ==
  /\ pool = <<>> /\ keyOf = <<>>
  /\ opening = [e \in Entries |-> "unused"]
  /\ conn = [e \in Entries |-> "none"]
  /\ leases = [e \in Entries |-> 0]
  /\ shut = [e \in Entries |-> "no"]
  /\ tracked = {}
  /\ call = [c \in Clients |-> "idle"] /\ holds = [c \in Clients |-> 0]
  /\ todo = <<>> /\ due = {} /\ awaited = 0 /\ swept = 0
  /\ poolClosed = FALSE /\ closing = {}
  /\ displaced = {} /\ evicted = {}

-----------------------------------------------------------------------------
\* #entries.delete(key): the entry under the key leaves the map, if there is one.
DeleteKey(k) ==
  LET under == {i \in DOMAIN pool : keyOf[pool[i]] = k} IN
  IF under = {} THEN pool
  ELSE LET at == CHOOSE i \in under : TRUE IN
       [i \in 1..(Len(pool) - 1) |-> IF i < at THEN pool[i] ELSE pool[i + 1]]

\* touch(): the entry is re-set under its key if the key is in the map at all,
\* whichever entry the map holds for it by now.
Touch(e) ==
  LET there == Current(keyOf[e]) IN
  /\ pool' = IF there = {} THEN pool ELSE Append(DeleteKey(keyOf[e]), e)
  /\ displaced' = displaced \cup (there \ {e})
  /\ due' = due \ {e}

TouchNothing == UNCHANGED <<pool, displaced, due>>

\* #shut begins for the entries es: it waits for their opens first.
Shuts(es) == shut' = [e \in Entries |-> IF e \in es THEN "wait" ELSE shut[e]]

\* Mutant: a borrowed entry is as good a victim as any.
AnyEntry == DOMAIN pool
\* #idlest: the first, so the least recently used, of the entries nothing borrows.
Unborrowed == {i \in DOMAIN pool : leases[pool[i]] = 0}
Idlest == pool[CHOOSE i \in Unborrowed : \A j \in Unborrowed : i <= j]

Full == MaxLive > 0 /\ Len(pool) >= MaxLive

\* Mutant: the entry that makes room is dropped and nothing closes it.
DropsOpen(v) == tracked' = tracked \cup {v} /\ UNCHANGED shut
\* #drop: the slot is free at once, the close runs behind it and is tracked.
Drops(v) == tracked' = tracked \cup {v} /\ Shuts({v})

\* The call c now waits ("get", "use") or runs its work on the entry ("work").
Asks(c, how, e) ==
  /\ call' = [call EXCEPT ![c] = how]
  /\ holds' = [holds EXCEPT ![c] = e]
  /\ leases' = IF how = "get" THEN leases ELSE [leases EXCEPT ![e] = @ + 1]

\* #entry on a key the map holds.  An open that has settled is not waited for:
\* connection() returns it, use() starts its work on it or throws its failure.
Reuse(c, k, how) ==
  /\ call[c] = "idle" /\ ~poolClosed
  /\ \E e \in Current(k) :
       /\ Touch(e)
       /\ \/ opening[e] = "pending" /\ Asks(c, how, e)
          \/ opening[e] = "open" /\ how = "use" /\ Asks(c, "work", e)
          \/ /\ opening[e] = "failed" \/ (opening[e] = "open" /\ how = "get")
             /\ UNCHANGED <<clientVars, leases>>
  /\ UNCHANGED <<keyOf, opening, conn, shut, tracked, todo, awaited, swept, closeVars, evicted>>

\* #entry on a key the map does not hold: #makeRoom, then #open begins.  With
\* every entry borrowed #makeRoom throws and nothing changes.
Admit(c, k, how) ==
  LET e == Len(keyOf) + 1 IN
  /\ call[c] = "idle" /\ ~poolClosed
  /\ Current(k) = {} /\ e \in Entries
  /\ \/ ~Full /\ pool' = Append(pool, e) /\ UNCHANGED <<shut, tracked>>
     \/ /\ Full /\ Unborrowed # {}
        /\ pool' = Append(DeleteKey(keyOf[Idlest]), e)
        /\ Drops(Idlest)
  /\ keyOf' = Append(keyOf, k)
  /\ opening' = [opening EXCEPT ![e] = "pending"]
  /\ Asks(c, how, e)
  /\ UNCHANGED <<conn, sweepVars, closeVars, history>>

-----------------------------------------------------------------------------
Waiting(e, how) == {c \in Clients : call[c] = how /\ holds[c] = e}

\* The open succeeds: every connection() that awaits it touches the entry and
\* returns, every use() starts its work.
OpenSucceeds(e) ==
  /\ opening[e] = "pending" /\ ~poolClosed
  /\ opening' = [opening EXCEPT ![e] = "open"]
  /\ conn' = [conn EXCEPT ![e] = "open"]
  /\ IF Waiting(e, "get") = {} THEN TouchNothing ELSE Touch(e)
  /\ call' = [c \in Clients |-> IF c \in Waiting(e, "get") THEN "idle"
                               ELSE IF c \in Waiting(e, "use") THEN "work" ELSE call[c]]
  /\ holds' = [c \in Clients |-> IF c \in Waiting(e, "get") THEN 0 ELSE holds[c]]
  /\ UNCHANGED <<keyOf, leases, shut, tracked, todo, awaited, swept, closeVars, evicted>>

\* The open rejects: the entry leaves the map if it is still the one the map
\* holds, then every use() that awaits it gives its lease back and touches.
Rejects(e) ==
  /\ opening' = [opening EXCEPT ![e] = "failed"]
  /\ IF e \in Live THEN pool' = DeleteKey(keyOf[e]) /\ UNCHANGED <<displaced, due>>
     ELSE IF Waiting(e, "use") = {} THEN TouchNothing ELSE Touch(e)
  /\ leases' = [leases EXCEPT ![e] = @ - Cardinality(Waiting(e, "use"))]
  /\ LET failing == Waiting(e, "get") \cup Waiting(e, "use") IN
       /\ call' = [c \in Clients |-> IF c \in failing THEN "idle" ELSE call[c]]
       /\ holds' = [c \in Clients |-> IF c \in failing THEN 0 ELSE holds[c]]
  /\ UNCHANGED <<keyOf, shut, tracked, todo, awaited, swept, closeVars, evicted>>

OpenFails(e) == opening[e] = "pending" /\ Rejects(e) /\ UNCHANGED conn

\* An open that outlasted close() closes what it opened and rejects.
ClosesLate(e) == conn' = [conn EXCEPT ![e] = "closed"]
OpenTooLate(e) == opening[e] = "pending" /\ poolClosed /\ ClosesLate(e) /\ Rejects(e)

\* The work of a use() ends, or throws: the finally block.
WorkEnds(c) ==
  /\ call[c] = "work"
  /\ leases' = [leases EXCEPT ![holds[c]] = @ - 1]
  /\ Touch(holds[c])
  /\ call' = [call EXCEPT ![c] = "idle"] /\ holds' = [holds EXCEPT ![c] = 0]
  /\ UNCHANGED <<keyOf, opening, conn, shut, tracked, todo, awaited, swept, closeVars, evicted>>

-----------------------------------------------------------------------------
Moves(e, to) ==
  /\ shut' = [shut EXCEPT ![e] = to]
  /\ tracked' = IF to \in {"late", "done"} THEN tracked \ {e} ELSE tracked
  /\ UNCHANGED <<pool, keyOf, opening, leases, clientVars, sweepVars, closeVars, history>>

\* #shut after the open settled in time: close() is called, or there is nothing
\* to close.
ShutSettles(e) ==
  /\ shut[e] = "wait"
  /\ \/ opening[e] = "open" /\ conn' = [conn EXCEPT ![e] = "closed"] /\ Moves(e, "closing")
     \/ opening[e] = "failed" /\ UNCHANGED conn /\ Moves(e, "done")

\* The open outlasts closeTimeoutMs: #shut returns and leaves a close behind.
ShutTimesOut(e) == shut[e] = "wait" /\ opening[e] = "pending" /\ UNCHANGED conn /\ Moves(e, "late")

\* The close finished, failed or outlasted closeTimeoutMs.
CloseEnds(e) == shut[e] = "closing" /\ UNCHANGED conn /\ Moves(e, "done")

\* The open #shut stopped waiting for surfaced after all.
LateClose(e) ==
  /\ shut[e] = "late" /\ conn[e] = "open"
  /\ conn' = [conn EXCEPT ![e] = "closed"]
  /\ UNCHANGED <<pool, keyOf, opening, leases, shut, tracked, clientVars, sweepVars, closeVars, history>>

\* evict(key): borrowed or not.
Evict(k) ==
  /\ Cardinality(evicted) < MaxEvicted /\ Current(k) # {}
  /\ pool' = DeleteKey(k)
  /\ Shuts(Current(k))
  /\ evicted' = evicted \cup Current(k)
  /\ UNCHANGED <<keyOf, connVars, tracked, clientVars, sweepVars, closeVars, displaced>>

-----------------------------------------------------------------------------
\* prune() looks through list up to the first entry that is idle and not
\* borrowed, and evicts what the map holds for that entry's key.
Looks(list, idle) ==
  LET found == {i \in DOMAIN list : list[i] \in idle /\ leases[list[i]] = 0} IN
  IF found = {} THEN todo' = <<>> /\ awaited' = 0 /\ due' = {} /\ UNCHANGED <<pool, shut>>
  ELSE LET i == CHOOSE j \in found : \A l \in found : j <= l
           victims == Current(keyOf[list[i]]) IN
       /\ todo' = SubSeq(list, i + 1, Len(list))
       /\ awaited' = IF victims = {} THEN 0 ELSE CHOOSE v \in victims : TRUE
       /\ due' = idle
       /\ pool' = DeleteKey(keyOf[list[i]])
       /\ Shuts(victims)

Pruning == todo # <<>> \/ awaited # 0

\* The sweep starts.  The map is in order of last use, so the entries idle for
\* longer than idleMs are the first so many of it.
Prune ==
  /\ swept < Sweeps /\ ~poolClosed /\ ~Pruning
  /\ \E n \in 0..Len(pool) : Looks(pool, {pool[i] : i \in 1..n})
  /\ swept' = swept + 1
  /\ UNCHANGED <<keyOf, connVars, tracked, clientVars, closeVars, history>>

PruneGoesOn ==
  /\ Pruning /\ (awaited = 0 \/ Settled(awaited))
  /\ Looks(todo, due)
  /\ UNCHANGED <<keyOf, connVars, tracked, clientVars, swept, closeVars, history>>

\* close(): final; every live entry is shut and awaited, and every tracked one.
Close ==
  /\ ~poolClosed /\ poolClosed' = TRUE
  /\ pool' = <<>>
  /\ Shuts(Live)
  /\ closing' = Live \cup tracked
  /\ evicted' = evicted \cup Live
  /\ UNCHANGED <<keyOf, connVars, tracked, clientVars, sweepVars, displaced>>

ShutStep(e) == ShutSettles(e) \/ ShutTimesOut(e) \/ CloseEnds(e)

DsNext ==
  \/ \E c \in Clients : \/ \E k \in Tenants, how \in {"get", "use"} : Reuse(c, k, how) \/ Admit(c, k, how)
                       \/ WorkEnds(c)
  \/ \E e \in Entries : \/ OpenSucceeds(e) \/ OpenFails(e) \/ OpenTooLate(e)
                       \/ ShutStep(e) \/ LateClose(e)
  \/ \E k \in Tenants : Evict(k)
  \/ Prune \/ PruneGoesOn \/ Close

DsSpec == DsInit /\ [][DsNext]_dsVars

-----------------------------------------------------------------------------
\* The pool never holds more than max data sources.  Every open connection is in
\* the map, or a #shut is about to close it, or it was put out of the map by the
\* touch() of an older entry for its key.  And once close() resolved, the closes
\* that still run are ones evict() or a sweep began.
PoolAccounted ==
  /\ MaxLive > 0 => Len(pool) <= MaxLive
  /\ \A e \in Entries : conn[e] = "open" =>
       e \in Live \/ shut[e] \in {"wait", "late"} \/ e \in displaced
  /\ (poolClosed /\ \A e \in closing : Settled(e)) =>
       \A e \in Entries : shut[e] \in {"wait", "closing"} => e \in evicted \/ swept > 0

\* As long as no sweep ran and no touch() displaced an entry, the connection a
\* use() works on is not closed unless evict(key) or close() was called on it.
UseKeepsConnection ==
  (swept = 0 /\ displaced = {}) =>
    \A c \in Clients : call[c] = "work" => conn[holds[c]] = "open" \/ holds[c] \in evicted

\* "Never open and orphaned" (data-sources.test.ts): an open connection is in
\* the map or about to be closed.
NeverOrphaned ==
  \A e \in Entries : conn[e] = "open" => e \in Live \/ shut[e] \in {"wait", "late"}

\* "Eviction skips a borrowed data source" (docs/guide/14-database.md): only
\* evict(key) and close() begin to close one that a use() holds.
BorrowedKept ==
  [][\A e \in Entries : leases[e] > 0 /\ shut[e] = "no" /\ shut'[e] = "wait" => e \in evicted']_dsVars
=============================================================================
