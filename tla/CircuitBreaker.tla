--------------------------- MODULE CircuitBreaker ---------------------------
(***************************************************************************)
(* core/src/resilience/breaker.ts: the CircuitBreaker a set of policies    *)
(* share.  Callers ask to make an attempt (admit), run it outside the      *)
(* breaker, and report its outcome (success, failure) any number of steps  *)
(* and any number of state changes later.                                  *)
(*                                                                         *)
(* The clock is read only as Date.now() - #openedAt >= #openMs, so the     *)
(* model keeps `elapsed`, that difference, saturated at OpenMs.            *)
(***************************************************************************)
EXTENDS Integers, Sequences, FiniteSets

CONSTANTS
  Callers,     \* concurrent attempts the policies can have outstanding
  Threshold,   \* #threshold; 0 stands for Infinity
  OpenMs,      \* #openMs, in clock ticks
  Probes,      \* #probes (halfOpenProbes)
  Window,      \* failureRate.window; 0 when no failureRate is given
  MinCalls,    \* failureRate.minimumCalls
  RatioNum,    \* failureRate.ratio = RatioNum / RatioDen
  RatioDen

(* What the constructor and outcomesFor accept.                            *)
ASSUME BreakerAssumption ==
  /\ IsFiniteSet(Callers)
  /\ Threshold \in Nat /\ OpenMs \in Nat
  /\ Probes \in Nat \ {0}
  /\ Window \in Nat /\ MinCalls \in Nat
  /\ RatioNum \in Nat \ {0} /\ RatioDen \in Nat \ {0} /\ RatioNum <= RatioDen
  /\ Window # 0 => MinCalls \in 1..Window
  /\ Window = 0 => Threshold # 0

VARIABLES
  state,     \* #state
  failures,  \* #failures: consecutive counted failures while closed
  elapsed,   \* Date.now() - #openedAt, saturated at OpenMs
  inFlight,  \* #inFlight: probe slots taken
  failed,    \* Outcomes.#failed: the ring, grown in place up to Window
  next,      \* Outcomes.#next
  failedSum, \* Outcomes.#failures
  attempt    \* ghost: what each outstanding attempt was admitted as

vars == <<state, failures, elapsed, inFlight, failed, next, failedSum, attempt>>
ring == <<failed, next, failedSum>>

States == {"closed", "open", "half-open"}

(* "plain": admitted by the circuit's present closed period; "probe":      *)
(* admitted by its present half-open period and charged to #inFlight;      *)
(* "stale": admitted before the last state change.  The code keeps no such *)
(* tag: success() and failure() treat every attempt alike.                 *)
Tags == {"none", "plain", "probe", "stale"}

Held(tag) == {c \in Callers : attempt[c] = tag}

Init ==
  /\ state = "closed"
  /\ failures = 0
  /\ elapsed = 0
  /\ inFlight = 0
  /\ failed = <<>> /\ next = 0 /\ failedSum = 0
  /\ attempt = [c \in Callers |-> "none"]

-----------------------------------------------------------------------------
(* Outcomes.push and Outcomes.clear.                                       *)

(* The outcome the slot held before, if it held one, leaves the sum.       *)
(* Mutant: an overwritten outcome stays in the sum.                        *)
EvictedNever == 0

Evicted == IF next < Len(failed) /\ failed[next + 1] THEN 1 ELSE 0

RingAfter(f) ==
  IF next < Len(failed) THEN [failed EXCEPT ![next + 1] = f] ELSE Append(failed, f)

SumAfter(f) == failedSum - Evicted + (IF f THEN 1 ELSE 0)

Push(f) ==
  IF Window = 0
    THEN UNCHANGED ring
    ELSE /\ failed' = RingAfter(f)
         /\ failedSum' = SumAfter(f)
         /\ next' = (next + 1) % Window

Trips(f) ==
  /\ Window # 0
  /\ Len(RingAfter(f)) >= MinCalls
  /\ SumAfter(f) * RatioDen >= RatioNum * Len(RingAfter(f))

Clear == failed' = <<>> /\ next' = 0 /\ failedSum' = 0

(* Every attempt still outstanding has crossed a state change.             *)
Stale(att) == [c \in Callers |-> IF att[c] = "none" THEN "none" ELSE "stale"]

(* #move: everything counted so far is forgotten.  `slots` is #inFlight    *)
(* when the call that moved returns: 0, or the slot admit() then takes.    *)
Move(to, slots) ==
  /\ state' = to
  /\ inFlight' = slots
  /\ failures' = 0
  /\ Clear

(* #open                                                                   *)
Open == elapsed' = 0 /\ Move("open", 0)

-----------------------------------------------------------------------------
(* admit().  An open circuit whose time is up first moves to half-open.    *)

Expired == state = "open" /\ elapsed >= OpenMs

AdmitClosed(c) ==
  /\ attempt[c] = "none"
  /\ state = "closed"
  /\ attempt' = [attempt EXCEPT ![c] = "plain"]
  /\ UNCHANGED <<state, failures, elapsed, inFlight, ring>>

AdmitExpired(c) ==
  /\ attempt[c] = "none"
  /\ Expired
  /\ Move("half-open", 1)
  /\ attempt' = [Stale(attempt) EXCEPT ![c] = "probe"]
  /\ UNCHANGED elapsed

(* onStateChange threw: the move is done and no slot is taken.             *)
AdmitHookThrows(c) ==
  /\ attempt[c] = "none"
  /\ Expired
  /\ Move("half-open", 0)
  /\ attempt' = Stale(attempt)
  /\ UNCHANGED elapsed

AdmitProbe(c) ==
  /\ attempt[c] = "none"
  /\ state = "half-open"
  /\ inFlight < Probes
  /\ inFlight' = inFlight + 1
  /\ attempt' = [attempt EXCEPT ![c] = "probe"]
  /\ UNCHANGED <<state, failures, elapsed, ring>>

(* The attempts admit() answers with a CircuitOpenError.                   *)
Refused ==
  \/ state = "open" /\ elapsed < OpenMs
  \/ state = "half-open" /\ inFlight >= Probes

Admit(c) == AdmitClosed(c) \/ AdmitExpired(c) \/ AdmitProbe(c)

-----------------------------------------------------------------------------
(* success()                                                               *)

Success(c) ==
  /\ attempt[c] # "none"
  /\ \/ /\ state = "half-open"
        /\ Move("closed", 0)
        /\ attempt' = Stale([attempt EXCEPT ![c] = "none"])
        /\ UNCHANGED elapsed
     \/ /\ state = "open"
        /\ attempt' = [attempt EXCEPT ![c] = "none"]
        /\ UNCHANGED <<state, failures, elapsed, inFlight, ring>>
     \/ /\ state = "closed"
        /\ failures' = 0
        /\ Push(FALSE)
        /\ attempt' = [attempt EXCEPT ![c] = "none"]
        /\ UNCHANGED <<state, elapsed, inFlight>>

(* Mutant: a declined error keeps its probe slot.                          *)
FailureDeclinedKeepsSlot(c) ==
  /\ attempt[c] # "none"
  /\ attempt' = [attempt EXCEPT ![c] = "none"]
  /\ UNCHANGED <<state, failures, elapsed, inFlight, ring>>

(* failure(error) where isFailure declines the error, e.g. an AbortError.  *)
FailureDeclined(c) ==
  /\ attempt[c] # "none"
  /\ inFlight' = IF state = "half-open" /\ inFlight > 0 THEN inFlight - 1 ELSE inFlight
  /\ attempt' = [attempt EXCEPT ![c] = "none"]
  /\ UNCHANGED <<state, failures, elapsed, ring>>

OpensOn == Trips(TRUE) \/ (Threshold # 0 /\ failures + 1 >= Threshold)

(* Mutant: an open circuit takes a late failure as one more reason to open. *)
FailureReopens(c) ==
  /\ attempt[c] # "none"
  /\ Open
  /\ attempt' = Stale([attempt EXCEPT ![c] = "none"])

(* failure(error) where the error counts against the dependency.           *)
FailureCounted(c) ==
  /\ attempt[c] # "none"
  /\ \/ /\ state = "half-open" \/ (state = "closed" /\ OpensOn)
        /\ Open
        /\ attempt' = Stale([attempt EXCEPT ![c] = "none"])
     \/ /\ state = "open"
        /\ attempt' = [attempt EXCEPT ![c] = "none"]
        /\ UNCHANGED <<state, failures, elapsed, inFlight, ring>>
     \/ /\ state = "closed" /\ ~OpensOn
        /\ failures' = failures + 1
        /\ Push(TRUE)
        /\ attempt' = [attempt EXCEPT ![c] = "none"]
        /\ UNCHANGED <<state, elapsed, inFlight>>

Failure(c) == FailureDeclined(c) \/ FailureCounted(c)

Tick ==
  /\ elapsed < OpenMs
  /\ elapsed' = elapsed + 1
  /\ UNCHANGED <<state, failures, inFlight, ring, attempt>>

Next ==
  \/ \E c \in Callers : Admit(c) \/ AdmitHookThrows(c) \/ Success(c) \/ Failure(c)
  \/ Tick

Spec == Init /\ [][Next]_vars

(* Every attempt ends: policy.ts reports each op that settles, and an op   *)
(* is bounded by its attempt's signal.                                     *)
Fairness == \A c \in Callers : WF_vars(Success(c) \/ Failure(c))

FairSpec == Spec /\ Fairness

-----------------------------------------------------------------------------
(* The shape of the breaker's fields and of the ghost tags.                *)
TypeOK ==
  /\ state \in States
  /\ failures \in Nat
  /\ elapsed \in 0..OpenMs
  /\ inFlight \in 0..Probes
  /\ failed \in Seq(BOOLEAN) /\ next \in Nat /\ failedSum \in Int
  /\ attempt \in [Callers -> Tags]

(* Every probe slot counted by #inFlight is owed by an attempt that is     *)
(* still outstanding and will give it back, so a half-open circuit cannot  *)
(* refuse for ever: outside half-open no slot is counted at all.  Attempts *)
(* of earlier periods report in between (failure(), lines 208-215).        *)
NoStrandedProbe ==
  /\ inFlight <= Cardinality(Held("probe"))
  /\ state # "half-open" => Held("probe") = {}
  /\ state # "closed" => Held("plain") = {}

(* Outcomes keeps its sum by adding and subtracting; over evictions and    *)
(* clears it stays the number of failures the ring holds, and the ring is  *)
(* empty unless the circuit is closed.                                     *)
RingCountsFailures ==
  /\ failedSum = Cardinality({i \in DOMAIN failed : failed[i]})
  /\ Len(failed) <= Window
  /\ Window # 0 => next < Window /\ (Len(failed) < Window => next = Len(failed))
  /\ state # "closed" => failed = <<>> /\ failures = 0

(* A late outcome landing while the circuit is open never restarts its     *)
(* quiet period (failure(), lines 220-222).                                *)
OpenPeriodNotExtended ==
  [][state = "open" /\ state' = "open" => elapsed' >= elapsed]_vars

(* CircuitBreakerOptions.halfOpenProbes (line 31): "Attempts let through   *)
(* at once while half-open".                                               *)
ProbeLimit == state = "half-open" => Cardinality(Held("probe")) <= Probes
=============================================================================
