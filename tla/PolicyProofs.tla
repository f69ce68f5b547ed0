---------------------------- MODULE PolicyProofs ----------------------------
(***************************************************************************)
(* ResiliencePolicy and the bulkhead it is built on.                       *)
(*                                                                         *)
(* The bulkhead, for every number of callers, slots and queue positions:   *)
(* slots are conserved, the cap and the queue bound hold, and no slot lies *)
(* free while somebody waits.  The four facts are inductive together:      *)
(* conservation needs each waiter to be queued once, and the cap needs     *)
(* conservation.                                                           *)
(*                                                                         *)
(* ResiliencePolicy implements its two components: projected on the fields *)
(* of the bulkhead every step of every run() is a step of Bulkhead or no   *)
(* step at all, and likewise for CircuitBreaker.  What was proved of each  *)
(* component alone therefore holds of the policies that share them, for    *)
(* any number of callers, slots, retries and probes.                       *)
(***************************************************************************)
EXTENDS ResiliencePolicy, FiniteSetTheorems, TLAPS

IInv == BulkheadTypeOK /\ QueueHoldsWaiters /\ SlotsConserved /\ NoIdleSlot

(* Finitely many callers hold a slot.                                      *)
LEMMA HoldersFinite == IsFiniteSet(Holders) /\ Cardinality(Holders) \in Nat
BY BulkheadAssumption, FS_Subset, FS_CardinalityType DEF Holders

(* Taking one position out of the queue keeps the others, each once.       *)
LEMMA WithoutSeq ==
  ASSUME NEW S, NEW s \in Seq(S), NEW i \in DOMAIN s,
         \A j, k \in DOMAIN s : j # k => s[j] # s[k]
  PROVE  LET t == Without(s, i)
         IN  /\ t \in Seq(S) /\ Len(t) = Len(s) - 1
             /\ \A j, k \in DOMAIN t : j # k => t[j] # t[k]
             /\ \A x : (\E j \in DOMAIN t : t[j] = x)
                         <=> (x # s[i] /\ \E j \in DOMAIN s : s[j] = x)
<1> DEFINE t == Without(s, i)
<1>1. Len(s) \in Nat /\ DOMAIN s = 1..Len(s) /\ i \in 1..Len(s) /\ Len(s) - 1 \in Nat
  OBVIOUS
<1>2. t = [j \in 1..(Len(s) - 1) |-> IF j < i THEN s[j] ELSE s[j + 1]]
  BY DEF Without
<1>3. \A j \in 1..(Len(s) - 1) : t[j] \in S
  BY <1>1, <1>2
<1>4. t \in Seq(S) /\ Len(t) = Len(s) - 1 /\ DOMAIN t = 1..(Len(s) - 1)
  BY <1>1, <1>2, <1>3
<1>5. \A j, k \in DOMAIN t : j # k => t[j] # t[k]
  BY <1>1, <1>2, <1>4
<1>6. ASSUME NEW x PROVE (\E j \in DOMAIN t : t[j] = x)
                          <=> (x # s[i] /\ \E j \in DOMAIN s : s[j] = x)
  <2>1. ASSUME NEW j \in DOMAIN t, t[j] = x
        PROVE  x # s[i] /\ \E k \in DOMAIN s : s[k] = x
    BY <1>1, <1>2, <1>4, <2>1
  <2>2. ASSUME x # s[i], NEW j \in DOMAIN s, s[j] = x
        PROVE  \E k \in DOMAIN t : t[k] = x
    <3>1. CASE j < i
      <4>1. j \in DOMAIN t /\ t[j] = x
        BY <1>1, <1>2, <1>4, <2>2, <3>1
      <4> QED BY <4>1
    <3>2. CASE j > i
      <4>1. j - 1 \in DOMAIN t /\ t[j - 1] = x
        BY <1>1, <1>2, <1>4, <2>2, <3>2
      <4> QED BY <4>1
    <3> QED BY <1>1, <2>2, <3>1, <3>2
  <2> QED BY <2>1, <2>2
<1> QED BY <1>4, <1>5, <1>6 DEF Without

(* A waiter that leaves is the only one the queue loses.                   *)
LEMMA LeaveQueue ==
  ASSUME BulkheadTypeOK, QueueHoldsWaiters, NEW c \in Callers, Leave(c)
  PROVE  /\ waiting' \in Seq(Callers) /\ Len(waiting') = Len(waiting) - 1
         /\ Len(waiting') <= MaxQueued
         /\ \A i, j \in DOMAIN waiting' : i # j => waiting'[i] # waiting'[j]
         /\ \A x : (\E i \in DOMAIN waiting' : waiting'[i] = x)
                     <=> (x # c /\ \E i \in DOMAIN waiting : waiting[i] = x)
<1>1. PICK i \in DOMAIN waiting : waiting[i] = c /\ waiting' = Without(waiting, i)
  BY DEF Leave
<1>2. waiting \in Seq(Callers) /\ Len(waiting) <= MaxQueued
      /\ \A j, k \in DOMAIN waiting : j # k => waiting[j] # waiting[k]
  BY DEF BulkheadTypeOK, QueueHoldsWaiters
<1>3. /\ waiting' \in Seq(Callers) /\ Len(waiting') = Len(waiting) - 1
      /\ \A j, k \in DOMAIN waiting' : j # k => waiting'[j] # waiting'[k]
      /\ \A x : (\E j \in DOMAIN waiting' : waiting'[j] = x)
                  <=> (x # waiting[i] /\ \E j \in DOMAIN waiting : waiting[j] = x)
  <2>1. LET t == Without(waiting, i)
        IN  /\ t \in Seq(Callers) /\ Len(t) = Len(waiting) - 1
            /\ \A j, k \in DOMAIN t : j # k => t[j] # t[k]
            /\ \A x : (\E j \in DOMAIN t : t[j] = x)
                        <=> (x # waiting[i] /\ \E j \in DOMAIN waiting : waiting[j] = x)
    BY <1>2, WithoutSeq
  <2> QED BY <1>1, <2>1
<1>4. Len(waiting') <= MaxQueued
  BY <1>2, <1>3, BulkheadAssumption
<1> QED BY <1>1, <1>3, <1>4

-----------------------------------------------------------------------------
(* acquire() that finds a slot.                                            *)
LEMMA AcquireSlotKeepsIInv ==
  ASSUME IInv, NEW c \in Callers, AcquireSlot(c)
  PROVE  IInv'
<1> USE DEF IInv, AcquireSlot, Free, Full
<1>1. Holders' = Holders \cup {c} /\ c \notin Holders
  BY DEF Holders, BulkheadTypeOK
<1>2. Cardinality(Holders') = Cardinality(Holders) + 1
  BY <1>1, HoldersFinite, FS_AddElement
<1>3. BulkheadTypeOK'
  BY BulkheadAssumption DEF BulkheadTypeOK, Calls
<1>4. QueueHoldsWaiters'
  BY DEF QueueHoldsWaiters, BulkheadTypeOK
<1>5. NoIdleSlot'
  BY BulkheadAssumption DEF NoIdleSlot, BulkheadTypeOK
<1> QED BY <1>2, <1>3, <1>4, <1>5 DEF SlotsConserved

(* acquire() that is rejected, or waits.                                   *)
LEMMA AcquireElseKeepsIInv ==
  ASSUME IInv, NEW c \in Callers,
         AcquireQueued(c) \/ \E aborted \in BOOLEAN : AcquireRejected(c, aborted)
  PROVE  IInv'
<1> USE DEF IInv, Free, Full
<1>1. Holders' = Holders
  BY DEF Holders, BulkheadTypeOK, AcquireQueued, AcquireRejected
<1>2. SlotsConserved'
  BY <1>1 DEF SlotsConserved, AcquireQueued, AcquireRejected
<1>3. CASE AcquireQueued(c)
  <2>1. waiting \in Seq(Callers) /\ Len(waiting) \in Nat /\ Len(waiting) < MaxQueued
    BY <1>3, BulkheadAssumption DEF AcquireQueued, QueueFull, BulkheadTypeOK
  <2>2. /\ waiting' \in Seq(Callers) /\ Len(waiting') = Len(waiting) + 1
        /\ DOMAIN waiting' = 1..(Len(waiting) + 1) /\ DOMAIN waiting = 1..Len(waiting)
        /\ \A i \in 1..Len(waiting) : waiting'[i] = waiting[i]
        /\ waiting'[Len(waiting) + 1] = c
    BY <1>3, <2>1 DEF AcquireQueued
  <2>3. \A i \in DOMAIN waiting : waiting[i] # c
    BY <1>3 DEF AcquireQueued, QueueHoldsWaiters
  <2>4. BulkheadTypeOK'
    BY <1>3, <2>2 DEF AcquireQueued, BulkheadTypeOK, Calls
  <2>5. \A i, j \in DOMAIN waiting' : i # j => waiting'[i] # waiting'[j]
    BY <2>1, <2>2, <2>3 DEF QueueHoldsWaiters
  <2>6. \A x \in Callers : call'[x] = "waiting" <=> \E i \in DOMAIN waiting' : waiting'[i] = x
    <3> SUFFICES ASSUME NEW x \in Callers
                 PROVE  call'[x] = "waiting" <=> \E i \in DOMAIN waiting' : waiting'[i] = x
      OBVIOUS
    <3>1. CASE x = c
      BY <1>3, <2>1, <2>2, <3>1 DEF AcquireQueued, BulkheadTypeOK
    <3>2. CASE x # c
      BY <1>3, <2>1, <2>2, <3>2 DEF AcquireQueued, BulkheadTypeOK, QueueHoldsWaiters
    <3> QED BY <3>1, <3>2
  <2>7. Len(waiting') <= MaxQueued
    BY <2>1, <2>2, BulkheadAssumption
  <2>8. NoIdleSlot'
    BY <1>3, BulkheadAssumption DEF AcquireQueued, NoIdleSlot, BulkheadTypeOK
  <2> QED BY <1>2, <2>4, <2>5, <2>6, <2>7, <2>8 DEF QueueHoldsWaiters
<1>4. CASE \E aborted \in BOOLEAN : AcquireRejected(c, aborted)
  BY <1>2, <1>4 DEF AcquireRejected, BulkheadTypeOK, Calls, QueueHoldsWaiters, NoIdleSlot
<1> QED BY <1>3, <1>4

(* A timeout or an abort.                                                  *)
LEMMA GiveUpKeepsIInv ==
  ASSUME IInv, NEW c \in Callers, GiveUp(c)
  PROVE  IInv'
<1>1. /\ waiting' \in Seq(Callers) /\ Len(waiting') = Len(waiting) - 1
      /\ Len(waiting') <= MaxQueued
      /\ \A i, j \in DOMAIN waiting' : i # j => waiting'[i] # waiting'[j]
      /\ \A x : (\E i \in DOMAIN waiting' : waiting'[i] = x)
                  <=> (x # c /\ \E i \in DOMAIN waiting : waiting[i] = x)
  BY LeaveQueue DEF IInv, GiveUp
<1>2. Holders' = Holders
  BY DEF IInv, GiveUp, Holders, BulkheadTypeOK
<1>3. BulkheadTypeOK'
  BY <1>1 DEF IInv, GiveUp, BulkheadTypeOK, Calls
<1>4. QueueHoldsWaiters'
  BY <1>1 DEF IInv, GiveUp, BulkheadTypeOK, QueueHoldsWaiters
<1>5. waiting # <<>>
  BY DEF IInv, GiveUp, QueueHoldsWaiters
<1> QED BY <1>2, <1>3, <1>4, <1>5 DEF IInv, GiveUp, SlotsConserved, NoIdleSlot

(* release(), into the pool and to the head of the queue.                  *)
LEMMA ReleaseKeepsIInv ==
  ASSUME IInv, NEW c \in Callers, Release(c)
  PROVE  IInv'
<1> USE DEF IInv
<1>1. c \in Holders /\ Cardinality(Holders) \in Nat
  BY HoldersFinite DEF Release, Holders
<1>2. CASE waiting = <<>>
  <2>1. /\ active' = active - 1 /\ UNCHANGED waiting
        /\ call' = [call EXCEPT ![c] = "idle"]
    BY <1>2 DEF Release
  <2>2. Holders' = Holders \ {c}
    BY <2>1 DEF Holders, BulkheadTypeOK
  <2>3. Cardinality(Holders') = Cardinality(Holders) - 1 /\ Cardinality(Holders') \in Nat
    BY <1>1, <2>2, HoldersFinite, FS_RemoveElement, FS_CardinalityType
  <2>4. SlotsConserved'
    BY <2>1, <2>3 DEF SlotsConserved
  <2>5. BulkheadTypeOK'
    BY <2>1, <2>3, <2>4, BulkheadAssumption DEF BulkheadTypeOK, Calls, SlotsConserved
  <2>6. QueueHoldsWaiters'
    BY <2>1, <1>1 DEF QueueHoldsWaiters, BulkheadTypeOK, Holders
  <2> QED BY <1>2, <2>1, <2>4, <2>5, <2>6 DEF NoIdleSlot
<1>3. CASE waiting # <<>>
  <2> DEFINE h == Head(waiting)
  <2>1. /\ Leave(h) /\ UNCHANGED active
        /\ call' = [call EXCEPT ![c] = "idle", ![h] = "held"]
    BY <1>3 DEF Release
  <2>2. h \in Callers /\ call[h] = "waiting" /\ h # c /\ h \notin Holders
    <3>1. waiting \in Seq(Callers) /\ 1 \in DOMAIN waiting /\ waiting[1] = h
      BY <1>3 DEF BulkheadTypeOK
    <3> QED BY <1>1, <3>1 DEF QueueHoldsWaiters, Holders
  <2>3. Holders' = (Holders \ {c}) \cup {h}
    BY <2>1, <2>2 DEF Holders, BulkheadTypeOK
  <2>4. Cardinality(Holders') = Cardinality(Holders)
    <3>1. IsFiniteSet(Holders \ {c}) /\ Cardinality(Holders \ {c}) = Cardinality(Holders) - 1
      BY <1>1, HoldersFinite, FS_RemoveElement
    <3>2. Cardinality(Holders') = Cardinality(Holders \ {c}) + 1
      BY <2>2, <2>3, <3>1, FS_AddElement
    <3> QED BY <1>1, <3>1, <3>2
  <2>5. /\ waiting' \in Seq(Callers) /\ Len(waiting') = Len(waiting) - 1
        /\ Len(waiting') <= MaxQueued
        /\ \A i, j \in DOMAIN waiting' : i # j => waiting'[i] # waiting'[j]
        /\ \A x : (\E i \in DOMAIN waiting' : waiting'[i] = x)
                    <=> (x # h /\ \E i \in DOMAIN waiting : waiting[i] = x)
    BY <2>1, <2>2, LeaveQueue
  <2>6. BulkheadTypeOK'
    BY <2>1, <2>2, <2>5 DEF BulkheadTypeOK, Calls
  <2>7. QueueHoldsWaiters'
    BY <1>1, <2>1, <2>2, <2>5 DEF QueueHoldsWaiters, BulkheadTypeOK, Holders
  <2> QED BY <1>3, <2>1, <2>4, <2>6, <2>7 DEF SlotsConserved, NoIdleSlot
<1> QED BY <1>2, <1>3

-----------------------------------------------------------------------------
(* The cap holds, the queue stays within its bound and holds each waiter   *)
(* once, #active counts the holders exactly, and no slot is free while a   *)
(* call waits.                                                             *)
THEOREM BulkheadSafe ==
  BulkheadSpec => [](BulkheadTypeOK /\ QueueHoldsWaiters /\ SlotsConserved /\ NoIdleSlot)
<1>1. BulkheadInit => IInv
  <2> SUFFICES ASSUME BulkheadInit PROVE IInv
    OBVIOUS
  <2>1. Holders = {}
    BY DEF BulkheadInit, Holders
  <2> QED BY <2>1, FS_EmptySet, BulkheadAssumption
          DEF BulkheadInit, IInv, BulkheadTypeOK, Calls, QueueHoldsWaiters, SlotsConserved, NoIdleSlot
<1>2. IInv /\ [BulkheadNext]_bulkheadVars => IInv'
  <2> SUFFICES ASSUME IInv, [BulkheadNext]_bulkheadVars PROVE IInv'
    OBVIOUS
  <2>1. CASE BulkheadNext
    BY <2>1, AcquireSlotKeepsIInv, AcquireElseKeepsIInv, GiveUpKeepsIInv, ReleaseKeepsIInv
       DEF BulkheadNext, Abort, TimeOut
  <2>2. CASE UNCHANGED bulkheadVars
    BY <2>2 DEF bulkheadVars, IInv, BulkheadTypeOK, QueueHoldsWaiters, SlotsConserved, NoIdleSlot, Holders
  <2> QED BY <2>1, <2>2
<1> QED BY <1>1, <1>2, PTL DEF BulkheadSpec, IInv

(* A slot that changes hands while calls wait goes to the head of the      *)
(* queue: a fresh call finds every slot taken.                             *)
THEOREM NoQueueJumping == BulkheadSpec => FirstComeFirstServed
<1> DEFINE A == \A c \in Callers :
                  call[c] # "held" /\ call'[c] = "held" /\ waiting # <<>> => c = Head(waiting)
<1>1. IInv /\ [BulkheadNext]_bulkheadVars => [A]_bulkheadVars
  <2> SUFFICES ASSUME IInv, BulkheadNext, NEW c \in Callers,
                      call[c] # "held", call'[c] = "held", waiting # <<>>
               PROVE  c = Head(waiting)
    OBVIOUS
  <2>1. active = MaxConcurrent
    BY DEF IInv, NoIdleSlot
  <2>2. PICK d \in Callers : GiveUp(d) \/ Release(d) \/ AcquireQueued(d)
                             \/ \E aborted \in BOOLEAN : AcquireRejected(d, aborted)
    BY <2>1, BulkheadAssumption DEF BulkheadNext, Abort, TimeOut, AcquireSlot, Full
  <2> QED BY <2>2 DEF IInv, BulkheadTypeOK, GiveUp, Release, AcquireQueued, AcquireRejected
<1>2. BulkheadSpec => []IInv
  BY BulkheadSafe DEF IInv
<1> QED BY <1>1, <1>2, PTL DEF BulkheadSpec, FirstComeFirstServed

-----------------------------------------------------------------------------
(* A run() uses the bulkhead only through acquire(), a waiter's abort or   *)
(* timeout, and release().                                                 *)
LEMMA StepsOfBulkhead == [Next]_vars => [BulkheadNext]_bulkheadVars
<1> USE DEF bulkheadVars
<1> SUFFICES ASSUME [Next]_vars PROVE BulkheadNext \/ UNCHANGED bulkheadVars
  OBVIOUS
<1>1. ASSUME NEW c \in Callers, EnterSlot(c) \/ EnterQueued(c) \/ EnterRejected(c) \/ WaiterGivesUp(c)
      PROVE  BulkheadNext
  BY <1>1 DEF EnterSlot, EnterQueued, EnterRejected, WaiterGivesUp, BulkheadNext
<1>2. ASSUME NEW c \in Callers, Finally(c) PROVE BulkheadNext
  BY <1>2 DEF Finally, BulkheadNext
<1>3. ASSUME NEW c \in Callers,
             Granted(c) \/ Attempt(c) \/ Settles(c) \/ Wake(c) \/ Fallback(c) \/ Again(c)
      PROVE  UNCHANGED bulkheadVars
  BY <1>3 DEF Granted, Attempt, AttemptHookThrows, AttemptRefused, AttemptBegins, AdmitThrows,
              Settles, OpResolves, OpRejects, Wake, Fallback, Again
<1>4. ASSUME Tick \/ UNCHANGED vars PROVE UNCHANGED bulkheadVars
  BY <1>4 DEF Tick, vars
<1> QED BY <1>1, <1>2, <1>3, <1>4 DEF Next, Continue

(* Policies keep the bulkhead's specification: whatever throws, they call  *)
(* acquire() and release() only as Bulkhead allows.                        *)
THEOREM ImplementsBulkhead == Spec => BulkheadSpec
<1>1. Init => BulkheadInit
  BY DEF Init
<1> QED BY <1>1, StepsOfBulkhead, PTL DEF Spec, BulkheadSpec

(* The slots of the bulkhead the policies share are conserved.             *)
THEOREM PoliciesConserveSlots == Spec => []SlotsConserved
BY ImplementsBulkhead, BulkheadSafe, PTL

(* A run() that waits is never overtaken by one that came later.           *)
THEOREM PoliciesKeepTheQueue == Spec => FirstComeFirstServed
BY ImplementsBulkhead, NoQueueJumping, PTL

-----------------------------------------------------------------------------
(* A run() uses the breaker only through admit(), and success() or         *)
(* failure() for an attempt that was admitted.                             *)
LEMMA StepsOfBreaker == [Next]_vars => [CB!Next]_(CB!vars)
<1> USE DEF CB!vars, breakerVars
<1> SUFFICES ASSUME [Next]_vars PROVE CB!Next \/ UNCHANGED breakerVars
  OBVIOUS
<1>1. ASSUME NEW c \in Callers, AttemptBegins(c) \/ AdmitThrows(c) \/ Settles(c)
      PROVE  CB!Next
  BY <1>1 DEF AttemptBegins, AdmitThrows, Settles, OpResolves, OpRejects, CB!Next
<1>2. ASSUME NEW c \in Callers,
             \/ EnterSlot(c) \/ EnterQueued(c) \/ EnterRejected(c) \/ WaiterGivesUp(c)
             \/ Granted(c) \/ AttemptHookThrows(c) \/ AttemptRefused(c)
             \/ Wake(c) \/ Fallback(c) \/ Finally(c) \/ Again(c)
      PROVE  UNCHANGED breakerVars
  BY <1>2 DEF EnterSlot, EnterQueued, EnterRejected, WaiterGivesUp, Granted, AttemptHookThrows,
              AttemptRefused, Wake, Fallback, Finally, Again
<1>3. ASSUME Tick PROVE CB!Next
  BY <1>3 DEF Tick, CB!Next
<1>4. ASSUME UNCHANGED vars PROVE UNCHANGED breakerVars
  BY <1>4 DEF vars
<1> QED BY <1>1, <1>2, <1>3, <1>4 DEF Next, Continue, Attempt

(* Policies keep the contract the breaker states at admit(): every         *)
(* admitted attempt is reported at most once, and only while admitted.     *)
THEOREM ImplementsBreaker == Spec => CB!Spec
<1>1. Init => CB!Init
  BY DEF Init
<1> QED BY <1>1, StepsOfBreaker, PTL DEF Spec, CB!Spec

-----------------------------------------------------------------------------
(* What SuccessIsFinal leaves out: before a run() settles it has neither   *)
(* succeeded nor an outcome, and where its fallback is to answer, the      *)
(* cause is one the fallback is for.                                       *)
Unsettled == {"idle", "loop", "acquiring", "rejected", "running", "sleeping", "fallback"}

RunOK(c) ==
  /\ pc[c] \in Unsettled => succeeded[c] = FALSE /\ outcome[c] = "none"
  /\ pc[c] \in {"rejected", "fallback"} => cause[c] \in {"op", "refused", "rejected"}
  /\ succeeded[c] = FALSE \/ (pc[c] \in {"finally", "done"} /\ outcome[c] \in {"value", "error"})
  /\ outcome[c] = "fallback" => cause[c] \in {"op", "refused", "rejected"}

RunInv ==
  /\ pc \in [Callers -> Unsettled \cup {"finally", "done"}]
  /\ outcome \in [Callers -> {"none", "value", "error", "fallback"}]
  /\ cause \in [Callers -> {"none", "op", "refused", "rejected", "hook"}]
  /\ succeeded \in [Callers -> BOOLEAN]
  /\ \A c \in Callers : RunOK(c)

(* A step of a caller's run() is none of another's.                        *)
LEMMA RunInductive == RunInv /\ [Next]_vars => RunInv'
<1> SUFFICES ASSUME RunInv, [Next]_vars PROVE RunInv'
  OBVIOUS
<1> USE DEF RunInv, RunOK, Unsettled, Goto, Because, Settle, historyVars
<1>1. ASSUME NEW c \in Callers, EnterSlot(c) \/ EnterQueued(c) \/ Granted(c) \/ Wake(c) \/ AttemptBegins(c) PROVE RunInv'
  BY <1>1 DEF EnterSlot, EnterQueued, Granted, Wake, AttemptBegins
<1>2. ASSUME NEW c \in Callers, EnterRejected(c) \/ WaiterGivesUp(c) \/ AttemptRefused(c) PROVE RunInv'
  BY <1>2 DEF EnterRejected, WaiterGivesUp, AttemptRefused
<1>3. ASSUME NEW c \in Callers, AttemptHookThrows(c) \/ AdmitThrows(c) PROVE RunInv'
  BY <1>3 DEF AttemptHookThrows, AdmitThrows
<1>4. ASSUME NEW c \in Callers, OpResolves(c) PROVE RunInv'
  BY <1>4 DEF OpResolves
<1>5. ASSUME NEW c \in Callers, OpRejects(c) PROVE RunInv'
  BY <1>5 DEF OpRejects
<1>6. ASSUME NEW c \in Callers, Fallback(c) PROVE RunInv'
  BY <1>6 DEF Fallback, FallbackOutcome
<1>7. ASSUME NEW c \in Callers, Finally(c) \/ Again(c) PROVE RunInv'
  BY <1>7 DEF Finally, Again
<1>8. CASE Tick \/ UNCHANGED vars
  BY <1>8 DEF Tick, vars
<1> QED
  BY <1>1, <1>2, <1>3, <1>4, <1>5, <1>6, <1>7, <1>8 DEF Next, Continue, Attempt, Settles

(* Whatever hooks throw: once the operation succeeded in a run() it is not *)
(* run again, and the fallback never answers for it or for a hook.         *)
THEOREM SuccessIsAlwaysFinal == Spec => []SuccessIsFinal
<1>1. Init => RunInv
  BY DEF Init, RunInv, RunOK, Unsettled
<1>2. RunInv => SuccessIsFinal
  BY DEF RunInv, RunOK, SuccessIsFinal
<1> QED
  BY <1>1, <1>2, RunInductive, PTL DEF Spec
=============================================================================
