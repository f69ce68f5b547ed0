------------------------------ MODULE EventBus ------------------------------
(***************************************************************************)
(* core/src/events: EventBus.emit, #deliver and #settle (bus.ts) over the  *)
(* pending list of an AppEvent (event.ts).  dispatchEvent calls the        *)
(* listeners synchronously, in order; a listener may emit another event    *)
(* before it returns, may return a promise, and may hand work to           *)
(* waitUntil until that promise settles, or too late.  emit then waits, in *)
(* rounds, for what was collected.  The list lives on the event instance,  *)
(* so it outlives the emit and is shared by emits of the same instance.    *)
(***************************************************************************)
EXTENDS Integers, Sequences, FiniteSets

CONSTANTS
  Emits,      \* calls of emit
  EventOf,    \* the event instance each call emits
  Listeners,  \* how many listeners an event has
  Waits,      \* bound on the waitUntil calls of one handler run
  Nobody,     \* #current when no dispatch is in progress
  Reemits     \* whether an instance is emitted again before its emit is over

ASSUME EventBusAssumption ==
  /\ Listeners \in Nat /\ Waits \in Nat /\ Nobody \notin Emits /\ Reemits \in BOOLEAN

Events == {EventOf[e] : e \in Emits}

(* A handler run, what it returned, and the work it handed to waitUntil.   *)
Runs == Emits \X (1..Listeners)
Result(run) == <<run, 0>>
Promises == Runs \X (0..Waits)

VARIABLES
  pc,        \* "idle", "dispatching", "settling", "clearing" or "done"
  stack,     \* the dispatches in progress, innermost last
  current,   \* #current
  previous,  \* what an emit restores #current to
  next,      \* the listener an emit calls next
  inside,    \* emits with a listener executing
  promise,   \* a promise: "none", "pending" or "settled"
  work,      \* collected.work
  pending,   \* AppEvent #pending
  handlers, waited,  \* #settle's two indices
  round,     \* what #settle awaits
  late,      \* history: work handed over after its handler was done
  found      \* history: what an emit found in its event's list

busVars == <<stack, current, previous, next, inside>>
settleVars == <<handlers, waited, round>>
eventVars == <<pc, busVars, promise, work, pending, settleVars, late, found>>

BusInit ==
  /\ pc = [e \in Emits |-> "idle"]
  /\ stack = <<>> /\ current = Nobody /\ previous = [e \in Emits |-> Nobody]
  /\ next = [e \in Emits |-> 1] /\ inside = {}
  /\ promise = [p \in Promises |-> "none"]
  /\ work = [e \in Emits |-> <<>>] /\ pending = [v \in Events |-> <<>>]
  /\ handlers = [e \in Emits |-> 0] /\ waited = [e \in Emits |-> 0]
  /\ round = [e \in Emits |-> {}]
  /\ late = {} /\ found = [e \in Emits |-> {}]

Top == stack[Len(stack)]

(* Where an emit starts to read the list.                                  *)
From(e) == Len(pending[EventOf[e]])

Restored(e) == previous[e]

(* dispatchEvent refuses an instance that is being dispatched.             *)
MayEmit(e) ==
  /\ stack # <<>> => Top \in inside
  /\ \A d \in Emits : EventOf[d] = EventOf[e] =>
       /\ pc[d] # "dispatching"
       /\ ~Reemits => pc[d] \in {"idle", "done"}

(* emit(), up to the first listener.                                       *)
Emit(e) ==
  /\ pc[e] = "idle" /\ MayEmit(e)
  /\ pc' = [pc EXCEPT ![e] = "dispatching"]
  /\ stack' = Append(stack, e)
  /\ previous' = [previous EXCEPT ![e] = current] /\ current' = e
  /\ waited' = [waited EXCEPT ![e] = From(e)]
  /\ found' = [found EXCEPT ![e] = {pending[EventOf[e]][i] : i \in DOMAIN pending[EventOf[e]]}]
  /\ UNCHANGED <<next, inside, promise, work, pending, handlers, round, late>>

(* The run of listener next of the innermost dispatch.                     *)
RunOf(e) == <<e, next[e]>>

Call(e) ==
  /\ stack # <<>> /\ Top = e /\ e \notin inside /\ next[e] <= Listeners
  /\ inside' = inside \cup {e}
  /\ UNCHANGED <<pc, stack, current, previous, next, promise, work, pending, settleVars, late, found>>

(* #deliver once the handler returned: its failure or value is counted at  *)
(* once, its promise is collected by the dispatch in progress.             *)
Return(e) ==
  /\ stack # <<>> /\ Top = e /\ e \in inside
  /\ inside' = inside \ {e} /\ next' = [next EXCEPT ![e] = @ + 1]
  /\ \/ UNCHANGED <<promise, work>>
     \/ /\ promise' = [promise EXCEPT ![Result(RunOf(e))] = "pending"]
        /\ work' = [work EXCEPT ![current] = Append(@, Result(RunOf(e)))]
  /\ UNCHANGED <<pc, stack, current, previous, pending, settleVars, late, found>>

(* waitUntil(): inside the handler, while its promise is pending, or late. *)
Executing(run) == run[1] \in inside /\ Top = run[1] /\ RunOf(run[1]) = run
Returned(run) == next[run[1]] > run[2]

WaitUntil(p) ==
  /\ p[2] > 0 /\ promise[p] = "none"
  /\ p[2] > 1 => promise[<<p[1], p[2] - 1>>] # "none"
  /\ stack # <<>> => Executing(p[1])
  /\ Executing(p[1]) \/ Returned(p[1])
  /\ promise' = [promise EXCEPT ![p] = "pending"]
  /\ pending' = [pending EXCEPT ![EventOf[p[1][1]]] = Append(@, p)]
  /\ late' = IF ~Executing(p[1]) /\ promise[Result(p[1])] # "pending" THEN late \cup {p} ELSE late
  /\ UNCHANGED <<pc, busVars, work, settleVars, found>>

(* One turn of #settle's loop.                                             *)
Gathered(e) ==
  LET list == pending[EventOf[e]] IN
  {work[e][i] : i \in (handlers[e] + 1)..Len(work[e])}
    \cup {list[i] : i \in (waited[e] + 1)..Len(list)}

(* Mutant: #settle gathers once.                                           *)
GathersOnce(e) ==
  /\ round' = [round EXCEPT ![e] = Gathered(e)]
  /\ pc' = [pc EXCEPT ![e] = IF pc[e] = "settling" THEN "clearing" ELSE "settling"]
  /\ UNCHANGED <<handlers, waited>>

Gathers(e) ==
  /\ round' = [round EXCEPT ![e] = Gathered(e)]
  /\ handlers' = [handlers EXCEPT ![e] = Len(work[e])]
  /\ waited' = [waited EXCEPT ![e] = IF @ < Len(pending[EventOf[e]]) THEN Len(pending[EventOf[e]]) ELSE @]
  /\ pc' = [pc EXCEPT ![e] = IF Gathered(e) = {} THEN "clearing" ELSE "settling"]

(* dispatchEvent is over: restore #current and start #settle.              *)
Dispatched(e) ==
  /\ stack # <<>> /\ Top = e /\ e \notin inside /\ next[e] > Listeners
  /\ stack' = SubSeq(stack, 1, Len(stack) - 1)
  /\ current' = Restored(e)
  /\ Gathers(e)
  /\ UNCHANGED <<previous, next, inside, promise, work, pending, late, found>>

(* The awaited round is over.  Resumptions never run inside a dispatch.    *)
NextRound(e) ==
  /\ stack = <<>> /\ pc[e] = "settling" /\ \A p \in round[e] : promise[p] = "settled"
  /\ Gathers(e)
  /\ UNCHANGED <<busVars, promise, work, pending, late, found>>

(* emit() after #settle: clearPending, and the dispatch is handed back.    *)
Clear(e) ==
  /\ stack = <<>> /\ pc[e] = "clearing"
  /\ pc' = [pc EXCEPT ![e] = "done"]
  /\ pending' = [pending EXCEPT ![EventOf[e]] = <<>>]
  /\ UNCHANGED <<busVars, promise, work, settleVars, late, found>>

Settle(p) ==
  /\ stack = <<>> /\ promise[p] = "pending"
  /\ promise' = [promise EXCEPT ![p] = "settled"]
  /\ UNCHANGED <<pc, busVars, work, pending, settleVars, late, found>>

BusNext ==
  \/ \E e \in Emits : Emit(e) \/ Call(e) \/ Return(e) \/ Dispatched(e) \/ NextRound(e) \/ Clear(e)
  \/ \E p \in Promises : WaitUntil(p) \/ Settle(p)

BusSpec == BusInit /\ [][BusNext]_eventVars

-----------------------------------------------------------------------------
(* "resolves once their work has settled" (bus.ts:127): when an emit is    *)
(* over, so are its handlers' promises and all the work they handed to     *)
(* waitUntil in time.  It waits for, and reports the failures of, its own  *)
(* dispatch only: neither a nested dispatch's handlers nor what an earlier *)
(* emit of the same instance left in the list (bus.ts:135-137).            *)
EmitAwaitsWork ==
  \A e \in Emits :
    /\ pc[e] = "done" =>
         \A p \in Promises : p[1][1] = e /\ p \notin late => promise[p] # "pending"
    /\ \A i \in DOMAIN work[e] : work[e][i][1][1] = e
    /\ round[e] \cap found[e] = {}
=============================================================================
