-------------------------- MODULE ResiliencePolicy --------------------------
(***************************************************************************)
(* core/src/resilience/policy.ts: ResiliencePolicy.run over a shared       *)
(* Bulkhead and a shared CircuitBreaker.  Each caller's run() is a process *)
(* whose steps are the stretches between awaits: acquire, the loop head up *)
(* to op(signal), op settling, the retry sleep, the fallback, the finally. *)
(*                                                                         *)
(* A policy without a bulkhead is one whose MaxConcurrent is never         *)
(* reached; one without a breaker, one whose Threshold is never reached.   *)
(***************************************************************************)
EXTENDS Bulkhead

CONSTANTS
  Threshold, OpenMs, Probes, Window, MinCalls, RatioNum, RatioDen,
  MaxRetries,   \* retry.maxRetries
  HasFallback   \* whether options.fallback is set

ASSUME PolicyAssumption == MaxRetries \in Nat /\ HasFallback \in BOOLEAN

VARIABLES
  state, failures, elapsed, inFlight, failed, next, failedSum, attempt, \* CircuitBreaker
  pc,         \* where each caller's run() is suspended
  tries,      \* the loop's `attempt`: attempts begun before this one
  outcome,    \* how run() settled, or is about to once the slot is back
  cause,      \* history: what last went wrong in this run()
  succeeded   \* history: op resolved in this run()

breakerVars == <<state, failures, elapsed, inFlight, failed, next, failedSum, attempt>>
historyVars == <<cause, succeeded>>
vars == <<bulkheadVars, breakerVars, pc, tries, outcome, historyVars>>

CB == INSTANCE CircuitBreaker

(* Nobody has called run().  pc names where a run() is: "loop", about to   *)
(* run the loop head; "rejected", acquire() rejected, so the fallback runs *)
(* without a slot; "fallback", it runs holding one.                        *)
Init ==
  /\ BulkheadInit /\ CB!Init
  /\ pc = [c \in Callers |-> "idle"]
  /\ tries = [c \in Callers |-> 0]
  /\ outcome = [c \in Callers |-> "none"]
  /\ cause = [c \in Callers |-> "none"]
  /\ succeeded = [c \in Callers |-> FALSE]

Goto(c, from, to) == pc[c] = from /\ pc' = [pc EXCEPT ![c] = to]
Because(c, why) == cause' = [cause EXCEPT ![c] = why] /\ UNCHANGED succeeded
Settle(c, how) == outcome' = [outcome EXCEPT ![c] = how]

-----------------------------------------------------------------------------
(* run(): await bulkhead.acquire(signal)                                   *)

EnterSlot(c) ==
  /\ Goto(c, "idle", "loop")
  /\ AcquireSlot(c)
  /\ UNCHANGED <<breakerVars, tries, outcome, historyVars>>

EnterQueued(c) ==
  /\ Goto(c, "idle", "acquiring")
  /\ AcquireQueued(c)
  /\ UNCHANGED <<breakerVars, tries, outcome, historyVars>>

EnterRejected(c) ==
  /\ Goto(c, "idle", "rejected")
  /\ \E aborted \in BOOLEAN : AcquireRejected(c, aborted)
  /\ Because(c, "rejected")
  /\ UNCHANGED <<breakerVars, tries, outcome>>

(* The waiter's promise settled and its continuation runs.                 *)
Granted(c) ==
  /\ Goto(c, "acquiring", "loop")
  /\ call[c] = "held"
  /\ UNCHANGED <<bulkheadVars, breakerVars, tries, outcome, historyVars>>

WaiterGivesUp(c) ==
  /\ Goto(c, "acquiring", "rejected")
  /\ Abort(c) \/ TimeOut(c)
  /\ Because(c, "rejected")
  /\ UNCHANGED <<breakerVars, tries, outcome>>

-----------------------------------------------------------------------------
(* #attempts: the loop head, from onAttempt to op(signal).                 *)

(* Mutants: a throwing onAttempt skips the finally; it runs after admit(), *)
(* so the attempt it was for is never reported.                            *)
AttemptHookSkipsFinally(c) ==
  /\ Goto(c, "loop", "done")
  /\ Settle(c, "error") /\ Because(c, "hook")
  /\ UNCHANGED <<bulkheadVars, breakerVars, tries>>

AttemptHookAfterAdmit(c) ==
  /\ Goto(c, "loop", "finally")
  /\ CB!Admit(c)
  /\ Settle(c, "error") /\ Because(c, "hook")
  /\ UNCHANGED <<bulkheadVars, tries>>

AttemptHookThrows(c) ==
  /\ Goto(c, "loop", "finally")
  /\ Settle(c, "error") /\ Because(c, "hook")
  /\ UNCHANGED <<bulkheadVars, breakerVars, tries>>

AttemptRefused(c) ==
  /\ Goto(c, "loop", "fallback")
  /\ CB!Refused
  /\ Because(c, "refused")
  /\ UNCHANGED <<bulkheadVars, breakerVars, tries, outcome>>

AttemptBegins(c) ==
  /\ Goto(c, "loop", "running")
  /\ CB!Admit(c)
  /\ UNCHANGED <<bulkheadVars, tries, outcome, historyVars>>

(* onStateChange threw out of admit().                                     *)
AdmitThrows(c) ==
  /\ Goto(c, "loop", "finally")
  /\ CB!AdmitHookThrows(c)
  /\ Settle(c, "error") /\ Because(c, "hook")
  /\ UNCHANGED <<bulkheadVars, tries>>

(* Mutant: a throwing onSuccess is taken for a failed attempt.             *)
OpResolvesHookRetried(c) ==
  /\ CB!Success(c)
  /\ succeeded' = [succeeded EXCEPT ![c] = TRUE]
  /\ \/ Goto(c, "running", "finally") /\ Settle(c, "value") /\ UNCHANGED cause
     \/ Goto(c, "running", "sleeping") /\ cause' = [cause EXCEPT ![c] = "hook"]
        /\ UNCHANGED outcome
  /\ UNCHANGED <<bulkheadVars, tries>>

(* op resolved: breaker.success(), onSuccess, return.  Either hook may     *)
(* throw, and the throw is not caught.                                     *)
OpResolves(c) ==
  /\ Goto(c, "running", "finally")
  /\ CB!Success(c)
  /\ succeeded' = [succeeded EXCEPT ![c] = TRUE]
  /\ \/ Settle(c, "value") /\ UNCHANGED cause
     \/ Settle(c, "error") /\ cause' = [cause EXCEPT ![c] = "hook"]
  /\ UNCHANGED <<bulkheadVars, tries>>

(* Mutant: retries that are not counted.                                   *)
OpRejectsUncounted(c) ==
  /\ CB!Failure(c)
  /\ Goto(c, "running", "sleeping")
  /\ Because(c, "op") /\ UNCHANGED <<outcome, bulkheadVars, tries>>

(* op rejected: breaker.failure(error), the classifier, onError; then a    *)
(* sleep, the fallback, or a throw from one of those hooks.                *)
OpRejects(c) ==
  /\ CB!Failure(c)
  /\ \/ /\ Goto(c, "running", "sleeping")
        /\ tries[c] < MaxRetries
        /\ tries' = [tries EXCEPT ![c] = @ + 1]
        /\ Because(c, "op") /\ UNCHANGED outcome
     \/ /\ Goto(c, "running", "fallback")
        /\ Because(c, "op") /\ UNCHANGED <<outcome, tries>>
     \/ /\ Goto(c, "running", "finally")
        /\ Settle(c, "error") /\ Because(c, "hook") /\ UNCHANGED tries
  /\ UNCHANGED bulkheadVars

Wake(c) ==
  /\ Goto(c, "sleeping", "loop")
  /\ UNCHANGED <<bulkheadVars, breakerVars, tries, outcome, historyVars>>

-----------------------------------------------------------------------------
(* #fallback, with and without a slot; it may itself reject.               *)

FallbackOutcome(c) ==
  \/ HasFallback /\ Settle(c, "fallback")
  \/ Settle(c, "error")

Fallback(c) ==
  /\ \/ Goto(c, "fallback", "finally")
     \/ Goto(c, "rejected", "done")
  /\ FallbackOutcome(c)
  /\ UNCHANGED <<bulkheadVars, breakerVars, tries, historyVars>>

Finally(c) ==
  /\ Goto(c, "finally", "done")
  /\ Release(c)
  /\ UNCHANGED <<breakerVars, tries, outcome, historyVars>>

(* The caller's next run().                                                *)
Again(c) ==
  /\ Goto(c, "done", "idle")
  /\ tries' = [tries EXCEPT ![c] = 0]
  /\ Settle(c, "none")
  /\ cause' = [cause EXCEPT ![c] = "none"]
  /\ succeeded' = [succeeded EXCEPT ![c] = FALSE]
  /\ UNCHANGED <<bulkheadVars, breakerVars>>

Tick == CB!Tick /\ UNCHANGED <<bulkheadVars, pc, tries, outcome, historyVars>>

Attempt(c) == AttemptHookThrows(c) \/ AttemptRefused(c) \/ AttemptBegins(c) \/ AdmitThrows(c)
Settles(c) == OpResolves(c) \/ OpRejects(c)
Continue(c) ==
  Granted(c) \/ Attempt(c) \/ Settles(c) \/ Wake(c) \/ Fallback(c) \/ Finally(c)

Next ==
  \/ \E c \in Callers :
       EnterSlot(c) \/ EnterQueued(c) \/ EnterRejected(c) \/ WaiterGivesUp(c) \/ Continue(c) \/ Again(c)
  \/ Tick

(* The event loop runs every continuation, and an op ends because its      *)
(* attempt has a timeout signal.  Nothing makes a waiter give up.          *)
Spec == Init /\ [][Next]_vars /\ \A c \in Callers : WF_vars(Continue(c))

-----------------------------------------------------------------------------
(* An operation that succeeded is never run again in the same run(), and   *)
(* never answered with the fallback (policy.ts:61-66), which answers for a *)
(* refused, rejected or failed operation and never for a hook that threw.  *)
SuccessIsFinal ==
  \A c \in Callers :
    /\ succeeded[c] => pc[c] \in {"finally", "done"} /\ outcome[c] \in {"value", "error"}
    /\ outcome[c] = "fallback" => cause[c] \in {"op", "refused", "rejected"}

(* Every run() settles: a queued call too, since every slot comes back.    *)
RunSettles == \A c \in Callers : pc[c] # "idle" ~> pc[c] = "done"

(* The policies meet the contract the bulkhead relies on for its waiters:  *)
(* they only call it as its specification allows, and release every slot.  *)
KeepsBulkheadContract == BulkheadFairSpec

(* The policies meet the contract admit() states (breaker.ts:179-181).     *)
KeepsBreakerContract == CB!FairSpec
=============================================================================
