------------------------ MODULE CircuitBreakerProofs ------------------------
(***************************************************************************)
(* The breaker's accounting, for every number of callers and every         *)
(* setting of its options: the fields keep their types, #inFlight never    *)
(* exceeds the limit nor counts a slot nobody will give back, an open      *)
(* period once begun is never made longer, and the running sum of the ring *)
(* is the number of failures in it.                                        *)
(***************************************************************************)
EXTENDS CircuitBreaker, FiniteSetTheorems, SequenceTheorems, TLAPS

IInv == TypeOK /\ NoStrandedProbe

(* The callers holding a tag are finitely many.                            *)
LEMMA HeldFinite ==
  ASSUME NEW tag
  PROVE  IsFiniteSet(Held(tag)) /\ Cardinality(Held(tag)) \in Nat
BY BreakerAssumption, FS_Subset, FS_CardinalityType DEF Held

(* Giving an idle caller the probe tag adds one to the probes held.        *)
LEMMA ProbeAdded ==
  ASSUME TypeOK, NEW c \in Callers, attempt[c] = "none",
         attempt' = [attempt EXCEPT ![c] = "probe"]
  PROVE  Cardinality(Held("probe")') = Cardinality(Held("probe")) + 1
<1>1. Held("probe")' = Held("probe") \cup {c} /\ c \notin Held("probe")
  BY DEF Held, TypeOK
<1> QED BY <1>1, HeldFinite, FS_AddElement

(* Ending an attempt removes at most one probe, and none unless that       *)
(* attempt was one.                                                        *)
LEMMA AttemptEnded ==
  ASSUME TypeOK, NEW c \in Callers, attempt' = [attempt EXCEPT ![c] = "none"]
  PROVE  /\ attempt' \in [Callers -> Tags]
         /\ Cardinality(Held("probe")') \in Nat
         /\ Cardinality(Held("probe")') >= Cardinality(Held("probe")) - 1
         /\ attempt[c] # "probe" => Held("probe")' = Held("probe")
         /\ Held("probe")' \subseteq Held("probe")
         /\ Held("plain")' \subseteq Held("plain")
<1>1. Held("probe")' = Held("probe") \ {c}
  BY DEF Held, TypeOK
<1>2. Cardinality(Held("probe")') \in Nat
      /\ Cardinality(Held("probe")') >= Cardinality(Held("probe")) - 1
  <2>1. IsFiniteSet(Held("probe")) /\ Cardinality(Held("probe")) \in Nat
    BY HeldFinite
  <2>2. IsFiniteSet(Held("probe")') /\ Cardinality(Held("probe")') =
          IF c \in Held("probe") THEN Cardinality(Held("probe")) - 1
                                 ELSE Cardinality(Held("probe"))
    BY <1>1, <2>1, FS_RemoveElement
  <2>3. Cardinality(Held("probe")') \in Nat
    BY <2>2, FS_CardinalityType
  <2> QED BY <2>1, <2>2, <2>3
<1>3. attempt' \in [Callers -> Tags]
  BY DEF TypeOK, Tags
<1>4. attempt[c] # "probe" => Held("probe")' = Held("probe")
  BY <1>1 DEF Held
<1>5. Held("plain")' \subseteq Held("plain")
  BY DEF Held, TypeOK
<1> QED BY <1>1, <1>2, <1>3, <1>4, <1>5

(* A state change leaves no attempt holding a current tag.                 *)
LEMMA AllStale ==
  ASSUME NEW att \in [Callers -> Tags], attempt' = Stale(att)
  PROVE  /\ attempt' \in [Callers -> Tags]
         /\ Held("probe")' = {} /\ Held("plain")' = {}
         /\ Cardinality(Held("probe")') = 0
BY FS_EmptySet DEF Stale, Held, Tags

(* Outcomes.push keeps the ring's types.                                   *)
LEMMA PushTypes ==
  ASSUME TypeOK, NEW f \in BOOLEAN, Push(f)
  PROVE  failed' \in Seq(BOOLEAN) /\ next' \in Nat /\ failedSum' \in Int
<1>1. CASE Window = 0
  BY <1>1 DEF Push, ring, TypeOK
<1>2. CASE Window # 0
  <2>1. Window \in Nat \ {0} /\ next' = (next + 1) % Window
    BY <1>2, BreakerAssumption DEF Push
  <2>2. next' \in Nat
    BY <2>1 DEF TypeOK
  <2>3. failed' \in Seq(BOOLEAN)
    <3>1. CASE next < Len(failed)
      <4>1. next + 1 \in 1..Len(failed)
        BY <3>1, LenProperties DEF TypeOK
      <4>2. [failed EXCEPT ![next + 1] = f] \in Seq(BOOLEAN)
        BY <4>1, ExceptSeq DEF TypeOK
      <4> QED BY <1>2, <3>1, <4>2 DEF Push, RingAfter
    <3>2. CASE ~(next < Len(failed))
      BY <1>2, <3>2, AppendProperties DEF Push, RingAfter, TypeOK
    <3> QED BY <3>1, <3>2
  <2>4. failedSum' \in Int
    BY <1>2 DEF Push, SumAfter, Evicted, TypeOK
  <2> QED BY <2>2, <2>3, <2>4
<1> QED BY <1>1, <1>2

-----------------------------------------------------------------------------
(* admit() keeps the invariant: each outcome takes a slot for a caller     *)
(* that now holds the probe tag, or takes none.                            *)
LEMMA AdmitKeepsIInv ==
  ASSUME IInv, NEW c \in Callers, Admit(c) \/ AdmitHookThrows(c)
  PROVE  IInv'
<1> USE DEF IInv
<1>1. CASE AdmitClosed(c)
  <2>1. Held("probe")' = Held("probe") /\ attempt' \in [Callers -> Tags]
    BY <1>1 DEF AdmitClosed, Held, TypeOK, Tags
  <2> QED BY <1>1, <2>1 DEF AdmitClosed, TypeOK, NoStrandedProbe, ring
<1>2. CASE AdmitExpired(c)
  <2>1. Held("probe")' = {c} /\ Held("plain")' = {} /\ attempt' \in [Callers -> Tags]
    BY <1>2 DEF AdmitExpired, Held, Stale, TypeOK, Tags
  <2>2. Cardinality(Held("probe")') = 1
    BY <2>1, FS_Singleton
  <2>3. TypeOK'
    BY <1>2, <2>1, BreakerAssumption DEF AdmitExpired, Move, Clear, TypeOK, States
  <2> QED BY <1>2, <2>1, <2>2, <2>3 DEF AdmitExpired, Move, NoStrandedProbe
<1>3. CASE AdmitProbe(c)
  <2>1. Cardinality(Held("probe")') = Cardinality(Held("probe")) + 1
    BY <1>3, ProbeAdded DEF AdmitProbe
  <2>2. attempt' \in [Callers -> Tags] /\ Held("plain")' = Held("plain")
    BY <1>3 DEF AdmitProbe, Held, TypeOK, Tags
  <2>3. TypeOK'
    BY <1>3, <2>2, BreakerAssumption DEF AdmitProbe, TypeOK, ring
  <2>4. Cardinality(Held("probe")) \in Nat
    BY HeldFinite
  <2> QED BY <1>3, <2>1, <2>2, <2>3, <2>4 DEF AdmitProbe, NoStrandedProbe, TypeOK
<1>4. CASE AdmitHookThrows(c)
  <2>1. /\ attempt' \in [Callers -> Tags]
        /\ Held("probe")' = {} /\ Held("plain")' = {}
        /\ Cardinality(Held("probe")') = 0
    BY <1>4, AllStale DEF AdmitHookThrows, TypeOK
  <2>2. TypeOK'
    BY <1>4, <2>1, BreakerAssumption DEF AdmitHookThrows, Move, Clear, TypeOK, States
  <2> QED BY <1>4, <2>1, <2>2 DEF AdmitHookThrows, Move, NoStrandedProbe
<1> QED BY <1>1, <1>2, <1>3, <1>4 DEF Admit

(* A report that moves the circuit forgets every slot and every tag.       *)
LEMMA MoveKeepsIInv ==
  ASSUME IInv, NEW c \in Callers, NEW to \in States, Move(to, 0),
         elapsed' \in 0..OpenMs, attempt' = Stale([attempt EXCEPT ![c] = "none"])
  PROVE  IInv'
<1>1. [attempt EXCEPT ![c] = "none"] \in [Callers -> Tags]
  BY DEF IInv, TypeOK, Tags
<1>2. /\ attempt' \in [Callers -> Tags]
      /\ Held("probe")' = {} /\ Held("plain")' = {}
      /\ Cardinality(Held("probe")') = 0
  BY <1>1, AllStale
<1>3. TypeOK'
  <2>1. state' \in States /\ failures' \in Nat
    BY DEF Move
  <2>2. failed' \in Seq(BOOLEAN) /\ next' \in Nat /\ failedSum' \in Int
    BY DEF Move, Clear
  <2>3. inFlight' \in 0..Probes
    BY BreakerAssumption DEF Move
  <2> QED BY <1>2, <2>1, <2>2, <2>3 DEF TypeOK
<1> QED BY <1>2, <1>3 DEF IInv, Move, NoStrandedProbe

(* A report that leaves the state alone ends one attempt; only a declined  *)
(* error while half-open gives a slot back, and it gives back at most one. *)
LEMMA ReportKeepsIInv ==
  ASSUME IInv, NEW c \in Callers, attempt' = [attempt EXCEPT ![c] = "none"],
         UNCHANGED <<state, elapsed>>, failures' \in Nat,
         failed' \in Seq(BOOLEAN), next' \in Nat, failedSum' \in Int,
         inFlight' = IF state = "half-open" /\ inFlight > 0 THEN inFlight - 1 ELSE inFlight
  PROVE  IInv'
<1>1. TypeOK /\ NoStrandedProbe
  BY DEF IInv
<1>2. /\ attempt' \in [Callers -> Tags]
      /\ Cardinality(Held("probe")') \in Nat
      /\ Cardinality(Held("probe")') >= Cardinality(Held("probe")) - 1
      /\ Held("probe")' \subseteq Held("probe")
      /\ Held("plain")' \subseteq Held("plain")
  BY <1>1, AttemptEnded
<1>3. TypeOK'
  BY <1>1, <1>2, BreakerAssumption DEF TypeOK
<1>4. inFlight' <= Cardinality(Held("probe")')
  <2>1. Cardinality(Held("probe")) \in Nat
    BY HeldFinite
  <2>2. CASE state = "half-open"
    BY <1>1, <1>2, <2>1, <2>2, BreakerAssumption DEF TypeOK, NoStrandedProbe
  <2>3. CASE state # "half-open"
    <3>1. Held("probe") = {} /\ inFlight' = inFlight
      BY <1>1, <2>3 DEF NoStrandedProbe
    <3>2. inFlight <= 0
      BY <1>1, <3>1, FS_EmptySet DEF NoStrandedProbe
    <3> QED BY <1>1, <1>2, <3>1, <3>2, BreakerAssumption DEF TypeOK
  <2> QED BY <2>2, <2>3
<1> QED BY <1>1, <1>2, <1>3, <1>4 DEF IInv, NoStrandedProbe

(* success() and failure() keep the invariant, whatever period the attempt *)
(* they report was admitted in.                                            *)
LEMMA OutcomeKeepsIInv ==
  ASSUME IInv, NEW c \in Callers, Success(c) \/ Failure(c)
  PROVE  IInv'
<1>1. TypeOK /\ elapsed \in 0..OpenMs /\ 0 \in 0..OpenMs
  BY BreakerAssumption DEF IInv, TypeOK
<1>2. CASE Success(c)
  <2>1. CASE state = "half-open"
    BY <1>1, <1>2, <2>1, MoveKeepsIInv DEF Success, States
  <2>2. CASE state = "open"
    <3>1. UNCHANGED <<state, failures, elapsed, inFlight, ring>>
          /\ attempt' = [attempt EXCEPT ![c] = "none"]
      BY <1>2, <2>2 DEF Success
    <3> QED BY <1>1, <2>2, <3>1, ReportKeepsIInv DEF TypeOK, ring
  <2>3. CASE state = "closed"
    <3>1. /\ failures' = 0 /\ Push(FALSE) /\ UNCHANGED <<state, elapsed, inFlight>>
          /\ attempt' = [attempt EXCEPT ![c] = "none"]
      BY <1>2, <2>3 DEF Success
    <3> QED BY <1>1, <2>3, <3>1, PushTypes, ReportKeepsIInv
  <2> QED BY <1>1, <2>1, <2>2, <2>3 DEF TypeOK, States
<1>3. CASE FailureDeclined(c)
  BY <1>1, <1>3, ReportKeepsIInv DEF FailureDeclined, TypeOK, ring
<1>4. CASE FailureCounted(c)
  <2>1. CASE /\ state = "half-open" \/ (state = "closed" /\ OpensOn)
             /\ Open
             /\ attempt' = Stale([attempt EXCEPT ![c] = "none"])
    BY <1>1, <2>1, MoveKeepsIInv DEF Open, States
  <2>2. CASE /\ state = "open"
             /\ attempt' = [attempt EXCEPT ![c] = "none"]
             /\ UNCHANGED <<state, failures, elapsed, inFlight, ring>>
    BY <1>1, <2>2, ReportKeepsIInv DEF TypeOK, ring
  <2>3. CASE /\ state = "closed" /\ ~OpensOn
             /\ failures' = failures + 1
             /\ Push(TRUE)
             /\ attempt' = [attempt EXCEPT ![c] = "none"]
             /\ UNCHANGED <<state, elapsed, inFlight>>
    <3>1. failures' \in Nat
      BY <1>1, <2>3 DEF TypeOK
    <3> QED BY <1>1, <2>3, <3>1, PushTypes, ReportKeepsIInv
  <2> QED BY <1>4, <2>1, <2>2, <2>3 DEF FailureCounted
<1> QED BY <1>2, <1>3, <1>4 DEF Failure

-----------------------------------------------------------------------------
(* #inFlight stays within halfOpenProbes and every field keeps its type.   *)
(* Every slot #inFlight counts is owed by an outstanding probe of the      *)
(* present half-open period, for any number of callers reporting late.     *)
THEOREM ProbeAccounting == Spec => [](TypeOK /\ NoStrandedProbe)
<1>1. Init => IInv
  <2> SUFFICES ASSUME Init PROVE IInv
    OBVIOUS
  <2>1. Held("probe") = {} /\ Held("plain") = {}
    BY DEF Init, Held
  <2>2. Cardinality(Held("probe")) = 0
    BY <2>1, FS_EmptySet
  <2>3. TypeOK
    BY BreakerAssumption DEF Init, TypeOK, States, Tags
  <2> QED BY <2>1, <2>2, <2>3 DEF Init, IInv, NoStrandedProbe
<1>2. IInv /\ [Next]_vars => IInv'
  <2> SUFFICES ASSUME IInv, [Next]_vars PROVE IInv'
    OBVIOUS
  <2>1. CASE \E c \in Callers : Admit(c) \/ AdmitHookThrows(c) \/ Success(c) \/ Failure(c)
    BY <2>1, AdmitKeepsIInv, OutcomeKeepsIInv
  <2>2. CASE Tick
    <3>1. Held("probe")' = Held("probe") /\ Held("plain")' = Held("plain")
      BY <2>2 DEF Tick, Held
    <3> QED BY <2>2, <3>1, BreakerAssumption DEF Tick, IInv, TypeOK, NoStrandedProbe, ring
  <2>3. CASE UNCHANGED vars
    <3>1. Held("probe")' = Held("probe") /\ Held("plain")' = Held("plain")
      BY <2>3 DEF vars, Held
    <3> QED BY <2>3, <3>1 DEF vars, IInv, TypeOK, NoStrandedProbe
  <2> QED BY <2>1, <2>2, <2>3 DEF Next
<1> QED BY <1>1, <1>2, PTL DEF Spec, IInv

(* A circuit that stays open only ever gets closer to its next probe: no   *)
(* late success or failure restarts the quiet period.                      *)
THEOREM QuietPeriodKept == Spec => OpenPeriodNotExtended
<1>1. TypeOK /\ [Next]_vars => [state = "open" /\ state' = "open" => elapsed' >= elapsed]_vars
  <2> SUFFICES ASSUME TypeOK, Next, state = "open", state' = "open"
               PROVE  elapsed' >= elapsed
    OBVIOUS
  <2>1. UNCHANGED elapsed \/ elapsed' = elapsed + 1
    BY DEF Next, Admit, AdmitClosed, AdmitExpired, AdmitProbe, AdmitHookThrows, Move,
           Success, Failure, FailureDeclined, FailureCounted, Tick
  <2> QED BY <2>1, BreakerAssumption DEF TypeOK
<1>2. Spec => []TypeOK
  BY ProbeAccounting, PTL
<1> QED BY <1>1, <1>2, PTL DEF Spec, OpenPeriodNotExtended

-----------------------------------------------------------------------------
(* The ring of outcomes: RingCountsFailures.                               *)
Failing(s) == {i \in 1..Len(s) : s[i] = TRUE}

(* The failures of a ring, as the property and the lemmas write them.      *)
LEMMA FailingOf ==
  ASSUME NEW s \in Seq(BOOLEAN)
  PROVE  /\ {i \in DOMAIN s : s[i]} = Failing(s)
         /\ IsFiniteSet(Failing(s)) /\ Cardinality(Failing(s)) \in Nat
         /\ Len(s) \in Nat
<1>1. DOMAIN s = 1..Len(s) /\ Len(s) \in Nat /\ \A i \in 1..Len(s) : s[i] \in BOOLEAN
  OBVIOUS
<1>2. {i \in DOMAIN s : s[i]} = Failing(s)
  BY <1>1, Zenon DEF Failing
<1>3. IsFiniteSet(1..Len(s))
  BY <1>1, FS_Interval
<1>4. Failing(s) \in SUBSET (1..Len(s))
  BY DEF Failing
<1>5. IsFiniteSet(Failing(s))
  BY <1>3, <1>4, FS_Subset
<1> QED BY <1>1, <1>2, <1>5, FS_CardinalityType

(* Outcomes.push: the slot written is the next one, inside the ring or     *)
(* just past its end, and the sum follows the failures the ring holds.     *)
LEMMA PushKeepsRing ==
  ASSUME NEW f \in BOOLEAN, TypeOK, RingCountsFailures, Window # 0, Push(f)
  PROVE  /\ failedSum' = Cardinality({i \in DOMAIN failed' : failed'[i]})
         /\ Len(failed') <= Window
         /\ next' < Window /\ (Len(failed') < Window => next' = Len(failed'))
<1> DEFINE n == Len(failed)
           S == Failing(failed)
           x == IF f THEN 1 ELSE 0
<1>1. /\ failed \in Seq(BOOLEAN) /\ n \in Nat /\ n <= Window /\ next \in Nat /\ next < Window
      /\ (n < Window => next = n) /\ Window \in Nat /\ failedSum = Cardinality(S)
      /\ IsFiniteSet(S) /\ Cardinality(S) \in Nat
  BY BreakerAssumption, FailingOf DEF TypeOK, RingCountsFailures
<1>2. failed' = RingAfter(f) /\ failedSum' = failedSum - Evicted + x /\ next' = (next + 1) % Window
  BY DEF Push, SumAfter
<1>3. next' < Window /\ (next + 1 < Window => next' = next + 1) /\ (next + 1 = Window => next' = 0)
  BY <1>1, <1>2
<1>4. CASE next < n
  <2>1. failed' = [failed EXCEPT ![next + 1] = f]
    BY <1>2, <1>4 DEF RingAfter
  <2>2. next + 1 \in 1..n
    BY <1>1, <1>4
  <2>3. /\ failed' \in Seq(BOOLEAN) /\ Len(failed') = n
        /\ failed'[next + 1] = f
        /\ \A i \in 1..n : i # next + 1 => failed'[i] = failed[i]
    BY <1>1, <2>1, <2>2
  <2>4. Evicted = IF next + 1 \in S THEN 1 ELSE 0
    <3>1. failed[next + 1] \in BOOLEAN
      BY <1>1, <2>2
    <3>2. next + 1 \in S <=> failed[next + 1] = TRUE
      BY <2>2 DEF Failing
    <3> QED BY <1>4, <3>1, <3>2 DEF Evicted
  <2>5. Len(failed') <= Window /\ (Len(failed') < Window => next' = Len(failed'))
    BY <1>1, <1>4, <2>3
  <2>6. CASE f = TRUE
    <3>1. Failing(failed') = S \cup {next + 1}
      BY <2>2, <2>3, <2>6 DEF Failing
    <3>2. Cardinality(S \cup {next + 1}) = IF next + 1 \in S THEN Cardinality(S) ELSE Cardinality(S) + 1
      BY <1>1, FS_AddElement
    <3>3. failedSum' = Cardinality(Failing(failed'))
      <4> HIDE DEF S
      <4> QED BY <1>1, <1>2, <2>4, <2>6, <3>1, <3>2
    <3> QED BY <1>3, <2>3, <2>5, <3>3, FailingOf
  <2>7. CASE f = FALSE
    <3>1. Failing(failed') = S \ {next + 1}
      BY <2>2, <2>3, <2>7 DEF Failing
    <3>2. Cardinality(S \ {next + 1}) = IF next + 1 \in S THEN Cardinality(S) - 1 ELSE Cardinality(S)
      BY <1>1, FS_RemoveElement
    <3>3. failedSum' = Cardinality(Failing(failed'))
      <4> HIDE DEF S
      <4> QED BY <1>1, <1>2, <2>4, <2>7, <3>1, <3>2
    <3> QED BY <1>3, <2>3, <2>5, <3>3, FailingOf
  <2> QED BY <2>6, <2>7
<1>5. CASE next = n /\ n < Window
  <2>1. failed' = Append(failed, f) /\ Evicted = 0
    BY <1>1, <1>2, <1>5 DEF RingAfter, Evicted
  <2>2. /\ failed' \in Seq(BOOLEAN) /\ Len(failed') = n + 1 /\ failed'[n + 1] = f
        /\ \A i \in 1..n : failed'[i] = failed[i]
    BY <1>1, <2>1
  <2>3. n + 1 \notin S
    BY <1>1 DEF Failing
  <2>4. Failing(failed') = IF f THEN S \cup {n + 1} ELSE S
    BY <1>1, <2>2 DEF Failing
  <2>5. Cardinality(S \cup {n + 1}) = Cardinality(S) + 1
    BY <1>1, <2>3, FS_AddElement
  <2>6. failedSum' = Cardinality(Failing(failed'))
    <3> HIDE DEF S
    <3>1. CASE f = TRUE
      BY <1>1, <1>2, <2>1, <2>4, <2>5, <3>1
    <3>2. CASE f = FALSE
      BY <1>1, <1>2, <2>1, <2>4, <3>2
    <3> QED BY <3>1, <3>2
  <2>7. Len(failed') <= Window /\ (Len(failed') < Window => next' = Len(failed'))
    BY <1>1, <1>3, <1>5, <2>2
  <2> QED BY <1>3, <2>2, <2>6, <2>7, FailingOf
<1> QED BY <1>1, <1>4, <1>5

(* Clearing the ring, as every state change does.                          *)
LEMMA ClearKeepsRing ==
  ASSUME Clear, failures' = 0
  PROVE  RingCountsFailures'
<1>1. failed' = <<>> /\ failedSum' = 0 /\ next' = 0 /\ Len(failed') = 0 /\ Window \in Nat
  BY BreakerAssumption DEF Clear
<1>2. {i \in DOMAIN failed' : failed'[i]} = {}
  BY <1>1
<1>3. failedSum' = Cardinality({i \in DOMAIN failed' : failed'[i]})
  BY <1>1, <1>2, FS_EmptySet
<1> QED BY <1>1, <1>3 DEF RingCountsFailures

(* An outcome counted while the circuit is closed.                         *)
LEMMA OutcomeKeepsRing ==
  ASSUME NEW f \in BOOLEAN, TypeOK, RingCountsFailures, Push(f), state = "closed",
         state' = state
  PROVE  RingCountsFailures'
<1>1. CASE Window = 0
  BY <1>1 DEF Push, ring, RingCountsFailures
<1>2. CASE Window # 0
  BY <1>2, PushKeepsRing DEF RingCountsFailures
<1> QED BY <1>1, <1>2

(* The ratio the breaker trips on is computed from a sum that is added to  *)
(* and subtracted from; for every window it stays the number of failures   *)
(* among the outcomes kept, which are forgotten whenever the state changes. *)
THEOREM RingAlwaysCounts == Spec => []RingCountsFailures
<1>1. Init => RingCountsFailures
  <2> SUFFICES ASSUME Init PROVE RingCountsFailures
    OBVIOUS
  <2>1. failed = <<>> /\ failedSum = 0 /\ next = 0 /\ Len(failed) = 0 /\ state = "closed"
    BY DEF Init
  <2>2. Cardinality({i \in DOMAIN failed : failed[i]}) = 0
    BY <2>1, FS_EmptySet
  <2> QED BY <2>1, <2>2, BreakerAssumption DEF RingCountsFailures
<1>2. TypeOK /\ RingCountsFailures /\ [Next]_vars => RingCountsFailures'
  <2> SUFFICES ASSUME TypeOK, RingCountsFailures, [Next]_vars PROVE RingCountsFailures'
    OBVIOUS
  <2>1. ASSUME UNCHANGED <<state, failures, ring>> PROVE RingCountsFailures'
    BY <2>1 DEF RingCountsFailures, ring
  <2>2. ASSUME NEW c \in Callers, Admit(c) \/ AdmitHookThrows(c) PROVE RingCountsFailures'
    BY <2>1, <2>2, ClearKeepsRing
       DEF Admit, AdmitClosed, AdmitExpired, AdmitProbe, AdmitHookThrows, Move
  <2>3. ASSUME NEW c \in Callers, Success(c) PROVE RingCountsFailures'
    <3>1. CASE state = "half-open" /\ Move("closed", 0)
      BY <3>1, ClearKeepsRing DEF Move
    <3>2. CASE UNCHANGED <<state, failures, ring>>
      BY <2>1, <3>2
    <3>3. CASE state = "closed" /\ Push(FALSE) /\ state' = state
      BY <3>3, OutcomeKeepsRing
    <3> QED BY <2>3, <3>1, <3>2, <3>3 DEF Success
  <2>4. ASSUME NEW c \in Callers, Failure(c) PROVE RingCountsFailures'
    <3>1. CASE Open
      BY <3>1, ClearKeepsRing DEF Open, Move
    <3>2. CASE UNCHANGED <<state, failures, ring>>
      BY <2>1, <3>2
    <3>3. CASE state = "closed" /\ Push(TRUE) /\ state' = state
      BY <3>3, OutcomeKeepsRing
    <3> QED BY <2>4, <3>1, <3>2, <3>3 DEF Failure, FailureDeclined, FailureCounted
  <2>5. CASE Tick \/ UNCHANGED vars
    BY <2>1, <2>5 DEF Tick, vars, ring
  <2> QED BY <2>2, <2>3, <2>4, <2>5 DEF Next
<1>3. Spec => []TypeOK
  BY ProbeAccounting, PTL
<1> QED BY <1>1, <1>2, <1>3, PTL DEF Spec
=============================================================================
