------------------------------ MODULE Bulkhead ------------------------------
(***************************************************************************)
(* core/src/resilience/bulkhead.ts: a cap on concurrent calls with a       *)
(* bounded queue.  A caller acquires, maybe waits, holds a slot and        *)
(* releases it; a waiter can time out (maxWaitMs) or be aborted while      *)
(* release() is handing slots on.                                          *)
(***************************************************************************)
EXTENDS Integers, FiniteSets, Sequences

CONSTANTS
  Callers,        \* calls that can be in the bulkhead at once
  MaxConcurrent,  \* #max
  MaxQueued,      \* #maxQueued
  Timed           \* whether maxWaitMs is set

(* What the constructor accepts.                                           *)
ASSUME BulkheadAssumption ==
  /\ IsFiniteSet(Callers)
  /\ MaxConcurrent \in Nat \ {0}
  /\ MaxQueued \in Nat
  /\ Timed \in BOOLEAN

VARIABLES
  active,   \* #active
  waiting,  \* #waiting, a Set in insertion order
  call      \* how each caller's last acquire() stands

bulkheadVars == <<active, waiting, call>>

(* "held" is a resolved acquire() whose release() is still to come;        *)
(* "rejected" a rejected one, its caller free to acquire again.            *)
Calls == {"idle", "waiting", "held", "rejected"}

Holders == {c \in Callers : call[c] = "held"}
Free(c) == call[c] \in {"idle", "rejected"}
Full == active >= MaxConcurrent
QueueFull == Len(waiting) >= MaxQueued

BulkheadInit ==
  /\ active = 0
  /\ waiting = <<>>
  /\ call = [c \in Callers |-> "idle"]

-----------------------------------------------------------------------------
(* acquire(): a free slot; or neither a slot nor a queue position, or a    *)
(* queue position but a signal that already fired; or a wait.              *)

AcquireSlot(c) ==
  /\ Free(c) /\ ~Full
  /\ active' = active + 1
  /\ call' = [call EXCEPT ![c] = "held"]
  /\ UNCHANGED waiting

AcquireRejected(c, aborted) ==
  /\ Free(c) /\ Full
  /\ QueueFull \/ aborted
  /\ call' = [call EXCEPT ![c] = "rejected"]
  /\ UNCHANGED <<active, waiting>>

AcquireQueued(c) ==
  /\ Free(c) /\ Full /\ ~QueueFull
  /\ waiting' = Append(waiting, c)
  /\ call' = [call EXCEPT ![c] = "waiting"]
  /\ UNCHANGED active

(* #leave                                                                  *)
Without(s, i) == [j \in 1..(Len(s) - 1) |-> IF j < i THEN s[j] ELSE s[j + 1]]

Leave(c) ==
  \E i \in DOMAIN waiting : waiting[i] = c /\ waiting' = Without(waiting, i)

(* onAbort, or the maxWaitMs timer: only a waiter still queued has either, *)
(* since #leave removes the listener and clears the timer.                 *)
GiveUp(c) ==
  /\ call[c] = "waiting"
  /\ Leave(c)
  /\ call' = [call EXCEPT ![c] = "rejected"]
  /\ UNCHANGED active

Abort(c) == GiveUp(c)
TimeOut(c) == Timed /\ GiveUp(c)

(* Mutants: the slot is freed and handed on; the newest waiter is served.  *)
ReleaseTwice(c) ==
  /\ call[c] = "held"
  /\ active' = active - 1
  /\ \/ waiting = <<>> /\ call' = [call EXCEPT ![c] = "idle"] /\ UNCHANGED waiting
     \/ /\ waiting # <<>>
        /\ Leave(Head(waiting))
        /\ call' = [call EXCEPT ![c] = "idle", ![Head(waiting)] = "held"]

ReleaseToNewest(c) ==
  /\ call[c] = "held"
  /\ \/ waiting = <<>> /\ active' = active - 1 /\ call' = [call EXCEPT ![c] = "idle"]
        /\ UNCHANGED waiting
     \/ /\ waiting # <<>>
        /\ Leave(waiting[Len(waiting)])
        /\ call' = [call EXCEPT ![c] = "idle", ![waiting[Len(waiting)]] = "held"]
        /\ UNCHANGED active

(* release(): the slot goes back to the pool only when nobody waits.       *)
Release(c) ==
  /\ call[c] = "held"
  /\ \/ /\ waiting = <<>>
        /\ active' = active - 1
        /\ call' = [call EXCEPT ![c] = "idle"]
        /\ UNCHANGED waiting
     \/ /\ waiting # <<>>
        /\ Leave(Head(waiting))
        /\ call' = [call EXCEPT ![c] = "idle", ![Head(waiting)] = "held"]
        /\ UNCHANGED active

BulkheadNext ==
  \E c \in Callers :
    \/ AcquireSlot(c)
    \/ \E aborted \in BOOLEAN : AcquireRejected(c, aborted)
    \/ AcquireQueued(c)
    \/ Abort(c) \/ TimeOut(c)
    \/ Release(c)

BulkheadSpec == BulkheadInit /\ [][BulkheadNext]_bulkheadVars

(* policy.ts releases in a finally, so a slot held is a slot released.     *)
BulkheadFairSpec == BulkheadSpec /\ \A c \in Callers : WF_bulkheadVars(Release(c))

-----------------------------------------------------------------------------
(* The shape of the bulkhead's fields.                                     *)
BulkheadTypeOK ==
  /\ active \in 0..MaxConcurrent
  /\ waiting \in Seq(Callers)
  /\ call \in [Callers -> Calls]

(* A waiter is queued exactly once and only while its acquire() is open:   *)
(* the hand-off, the abort and the timeout each take it out.               *)
QueueHoldsWaiters ==
  /\ \A i, j \in DOMAIN waiting : i # j => waiting[i] # waiting[j]
  /\ \A c \in Callers : call[c] = "waiting" <=> \E i \in DOMAIN waiting : waiting[i] = c
  /\ Len(waiting) <= MaxQueued

(* #active is the number of resolved acquires not yet released, through    *)
(* every hand-off: no slot is lost and none is counted twice.              *)
SlotsConserved == active = Cardinality(Holders)

(* No slot lies free while somebody waits for one.                         *)
NoIdleSlot == waiting # <<>> => active = MaxConcurrent

(* "a fresh call cannot jump the queue": a slot goes to the head of the    *)
(* queue, or to a caller who arrived when the queue was empty.             *)
FirstComeFirstServed ==
  [][\A c \in Callers :
       call[c] # "held" /\ call'[c] = "held" /\ waiting # <<>> => c = Head(waiting)]_bulkheadVars
=============================================================================
