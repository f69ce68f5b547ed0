------------------------- MODULE IdempotencyProofs -------------------------
(***************************************************************************)
(* At most once, for any number of requests, keys and processes.  The      *)
(* inductive invariant says who owns a record: a request between its claim *)
(* and its answer owns the record of its key until that record is          *)
(* forgotten, and a request whose handler ran and was not undone owns it   *)
(* for good.  One record has one owner, so two such requests are one.      *)
(***************************************************************************)
EXTENDS Idempotency, TLAPS

Owning == {"claimed", "running", "keeping", "releasing"}

(* A request that may still complete or release owns its key's record.     *)
ClaimantOwns ==
  \A r \in Requests : pc[r] \in Owning /\ r \notin lapsed =>
    record[KeyOf[r]] = Store!Pending(r)

(* A run that stands owns the record of its key until it is forgotten.     *)
EffectOwns ==
  \A r \in ran \ undone : KeyOf[r] \notin forgotten =>
    record[KeyOf[r]] \in {Store!Pending(r), Store!Done(r)}

(* How the history sets follow a request's progress.                       *)
HistoryAgrees ==
  /\ \A r \in lapsed : KeyOf[r] \in forgotten
  /\ \A r \in ran : pc[r] \notin {"new", "claim", "claimed", "refused"}
  /\ \A r \in Requests : pc[r] \in {"running", "keeping", "releasing"} => r \in ran
  /\ \A r \in undone : pc[r] \in {"releasing", "answered", "crashed"}
  /\ \A r \in Requests : pc[r] = "releasing" => r \in undone
  /\ \A r \in Requests : pc[r] \notin {"answered"} => answer[r] = "none"

(* A stored response belongs to a finished run on that very key.           *)
StoredIsGenuine ==
  \A k \in Keys : \A s \in Requests :
    /\ record[k] = Store!Done(s) =>
         KeyOf[s] = k /\ s \in ran \ undone /\ pc[s] \in {"answered", "crashed"}
    /\ record[k] = Store!Pending(s) => KeyOf[s] = k

IInv ==
  /\ IdempotencyTypeOK /\ ClaimantOwns /\ EffectOwns /\ HistoryAgrees /\ StoredIsGenuine
  /\ ReplayIsGenuine /\ NotRunMeansNotRun

USE GuardAssumption

(* A record tells its state and its owner.                                 *)
LEMMA RecordsDiffer ==
  /\ \A r, s : Store!Pending(r) = Store!Pending(s) => r = s
  /\ \A r, s : Store!Done(r) = Store!Done(s) => r = s
  /\ \A r, s : Store!Pending(r) # Store!Done(s)
  /\ \A r : Store!Pending(r) # Store!None /\ Store!Done(r) # Store!None
<1>1. \A r : /\ Store!Pending(r).token = r /\ Store!Pending(r).state = "pending"
             /\ Store!Done(r).token = r /\ Store!Done(r).state = "done"
  BY DEF Store!Pending, Store!Done
<1>2. Store!None.state = "none"
  BY DEF Store!None
<1> QED BY <1>1, <1>2

(* The invariant implies the two exclusion properties.                     *)
LEMMA IInvExcludes == IInv => AtMostOnce /\ OneRunnerPerLease
<1> SUFFICES ASSUME IInv PROVE AtMostOnce /\ OneRunnerPerLease
  OBVIOUS
<1>1. AtMostOnce
  <2> SUFFICES ASSUME NEW k \in Keys \ forgotten, NEW r \in Effects(k), NEW s \in Effects(k)
               PROVE  r = s
    BY DEF AtMostOnce
  <2>1. /\ record[k] \in {Store!Pending(r), Store!Done(r)}
        /\ record[k] \in {Store!Pending(s), Store!Done(s)}
    BY DEF IInv, EffectOwns, Effects
  <2> QED BY <2>1, RecordsDiffer
<1>2. OneRunnerPerLease
  BY RecordsDiffer DEF IInv, ClaimantOwns, OneRunnerPerLease, Owning
<1> QED BY <1>1, <1>2

-----------------------------------------------------------------------------
(* The steps that move one request and leave the store alone.              *)
LEMMA LocalStepsKeepIInv ==
  ASSUME IInv, NEW r \in Requests,
         \/ Arrive(r) \/ ClaimLoses(r) \/ StoreUnreachable(r) \/ HandlerReturns(r)
         \/ HandlerUnkept(r) \/ CaptureThrows(r) \/ StoreLost(r) \/ Crash(r)
  PROVE  IInv'
<1> USE DEF IInv, history, Arrive, ClaimLoses, StoreUnreachable, HandlerReturns,
        HandlerUnkept, CaptureThrows, StoreLost, Crash, Goto, Answer, IdempotencyTypeOK, Points
<1>1. IdempotencyTypeOK'
  BY DEF Answers
<1>2. ClaimantOwns'
  BY DEF ClaimantOwns, Owning
<1>3. EffectOwns'
  BY DEF EffectOwns
<1>4. HistoryAgrees'
  BY DEF HistoryAgrees
<1>5. StoredIsGenuine'
  BY DEF HistoryAgrees, StoredIsGenuine
<1>6. ReplayIsGenuine'
  BY DEF HistoryAgrees, ReplayIsGenuine
<1>7. NotRunMeansNotRun'
  BY DEF HistoryAgrees, NotRunMeansNotRun
<1> QED BY <1>1, <1>2, <1>3, <1>4, <1>5, <1>6, <1>7

(* The handler is entered: only then does the request join `ran`.          *)
LEMMA RunKeepsIInv ==
  ASSUME IInv, NEW r \in Requests, Run(r)
  PROVE  IInv'
<1> USE DEF IInv, Run, Goto, IdempotencyTypeOK, Points
<1>1. IdempotencyTypeOK'
  OBVIOUS
<1>2. ClaimantOwns'
  BY DEF ClaimantOwns, Owning
<1>3. EffectOwns'
  BY DEF EffectOwns, ClaimantOwns, Owning, HistoryAgrees
<1>4. HistoryAgrees'
  BY DEF HistoryAgrees
<1>5. StoredIsGenuine' /\ ReplayIsGenuine'
  BY DEF HistoryAgrees, StoredIsGenuine, ReplayIsGenuine
<1>6. NotRunMeansNotRun'
  BY DEF HistoryAgrees, NotRunMeansNotRun
<1> QED BY <1>1, <1>2, <1>3, <1>4, <1>5, <1>6

(* A lost claim is answered; a replay names the owner of a stored record.  *)
LEMMA ReadKeepsIInv ==
  ASSUME IInv, NEW r \in Requests, Read(r)
  PROVE  IInv'
<1> DEFINE rec == record[KeyOf[r]]
<1> USE DEF IInv, Goto, Answer, IdempotencyTypeOK, Points, history
<1>1. pc[r] = "refused" /\ pc' = [pc EXCEPT ![r] = "answered"] /\ UNCHANGED <<record, history>>
  BY DEF Read
<1>2. ASSUME rec # Store!None, rec.state = "done", rec.print = PrintOf[r]
      PROVE  \E s \in Requests : rec = Store!Done(s) /\ rec.token = s /\ PrintOf[s] = PrintOf[r]
  <2>1. rec \in Store!Records
    OBVIOUS
  <2>2. \A t : Store!Pending(t).state = "pending"
    BY DEF Store!Pending
  <2>3. PICK s \in Requests : rec = Store!Done(s)
    BY <1>2, <2>1, <2>2 DEF Store!Records
  <2>4. rec.token = s /\ rec.print = PrintOf[s]
    BY <2>3 DEF Store!Done
  <2> QED BY <1>2, <2>3, <2>4
<1>3. /\ answer' \in [Requests -> Answers]
      /\ replayOf' \in [Requests -> Requests \cup {NoRequest}]
      /\ \A s \in Requests \ {r} : answer'[s] = answer[s] /\ replayOf'[s] = replayOf[s]
      /\ answer'[r] = "replay" =>
           /\ rec = Store!Done(replayOf'[r]) /\ replayOf'[r] \in Requests
           /\ PrintOf[replayOf'[r]] = PrintOf[r]
  BY <1>2 DEF Read, Answers
<1>4. IdempotencyTypeOK' /\ ClaimantOwns' /\ EffectOwns'
  BY <1>1, <1>3 DEF ClaimantOwns, EffectOwns, Owning
<1>5. HistoryAgrees' /\ StoredIsGenuine'
  BY <1>1, <1>3 DEF HistoryAgrees, StoredIsGenuine
<1>6. ReplayIsGenuine'
  BY <1>1, <1>3 DEF ReplayIsGenuine, StoredIsGenuine
<1>7. NotRunMeansNotRun'
  BY <1>1, <1>3 DEF HistoryAgrees, NotRunMeansNotRun
<1> QED BY <1>4, <1>5, <1>6, <1>7

-----------------------------------------------------------------------------
(* The steps that change the store.  Each can change the record of one key *)
(* only, and only a record the request owns or a free one.                 *)
LEMMA ClaimKeepsIInv ==
  ASSUME IInv, NEW r \in Requests, ClaimWins(r)
  PROVE  IInv'
<1> DEFINE k == KeyOf[r]
<1>1. /\ k \in Keys /\ record[k] = Store!None /\ pc[r] = "claim"
      /\ record' = [record EXCEPT ![k] = Store!Pending(r)]
      /\ pc' = [pc EXCEPT ![r] = "claimed"] /\ UNCHANGED <<answer, replayOf, history>>
  BY DEF ClaimWins, Store!Claim, Goto, IInv, IdempotencyTypeOK
<1>2. Store!Pending(r) \in Store!Records
  BY DEF Store!Records
<1> USE DEF IInv, IdempotencyTypeOK, Points, history
<1>3. IdempotencyTypeOK'
  BY <1>1, <1>2
<1>4. ClaimantOwns'
  BY <1>1, RecordsDiffer DEF ClaimantOwns, Owning
<1>5. EffectOwns'
  BY <1>1, RecordsDiffer DEF EffectOwns, HistoryAgrees
<1>6. HistoryAgrees' /\ ReplayIsGenuine' /\ NotRunMeansNotRun'
  BY <1>1 DEF HistoryAgrees, ReplayIsGenuine, NotRunMeansNotRun
<1>7. StoredIsGenuine'
  BY <1>1, RecordsDiffer DEF StoredIsGenuine, HistoryAgrees
<1> QED BY <1>3, <1>4, <1>5, <1>6, <1>7

(* complete(): the own claim becomes the own response, or nothing changes. *)
LEMMA CompleteKeepsIInv ==
  ASSUME IInv, NEW r \in Requests, CompleteApplied(r)
  PROVE  IInv'
<1> DEFINE k == KeyOf[r]
<1>1. /\ k \in Keys /\ pc[r] = "keeping" /\ pc' = [pc EXCEPT ![r] = "answered"]
      /\ answer' = [answer EXCEPT ![r] = "own"] /\ UNCHANGED <<replayOf, history>>
  BY DEF CompleteApplied, Answer, Goto
<1>2. \/ record[k] = Store!Pending(r) /\ record' = [record EXCEPT ![k] = Store!Done(r)]
      \/ UNCHANGED record
  BY DEF CompleteApplied, Store!Complete, Store!Holds
<1>3. Store!Done(r) \in Store!Records
  BY DEF Store!Records
<1> USE DEF IInv, IdempotencyTypeOK, Points, history
<1>4. IdempotencyTypeOK'
  BY <1>1, <1>2, <1>3 DEF Answers
<1>5. ClaimantOwns'
  BY <1>1, <1>2, RecordsDiffer DEF ClaimantOwns, Owning
<1>6. EffectOwns'
  BY <1>1, <1>2, RecordsDiffer DEF EffectOwns
<1>7. HistoryAgrees' /\ ReplayIsGenuine' /\ NotRunMeansNotRun'
  BY <1>1 DEF HistoryAgrees, ReplayIsGenuine, NotRunMeansNotRun
<1>8. StoredIsGenuine'
  BY <1>1, <1>2, RecordsDiffer DEF StoredIsGenuine, HistoryAgrees
<1> QED BY <1>4, <1>5, <1>6, <1>7, <1>8

(* release(): the own claim goes; the run it was for is undone.            *)
LEMMA ReleaseKeepsIInv ==
  ASSUME IInv, NEW r \in Requests, ReleaseApplied(r)
  PROVE  IInv'
<1> DEFINE k == KeyOf[r]
<1>1. PICK a \in {"own", "error"} :
        /\ k \in Keys /\ pc[r] = "releasing" /\ pc' = [pc EXCEPT ![r] = "answered"]
        /\ answer' = [answer EXCEPT ![r] = a] /\ UNCHANGED <<replayOf, history>>
  BY DEF ReleaseApplied, Answer, Goto
<1>2. \/ record[k] = Store!Pending(r) /\ record' = [record EXCEPT ![k] = Store!None]
      \/ UNCHANGED record
  BY DEF ReleaseApplied, Store!Release, Store!Holds
<1>3. Store!None \in Store!Records
  BY DEF Store!Records
<1> USE DEF IInv, IdempotencyTypeOK, Points, history
<1>4. IdempotencyTypeOK'
  BY <1>1, <1>2, <1>3 DEF Answers
<1>5. ClaimantOwns'
  BY <1>1, <1>2, RecordsDiffer DEF ClaimantOwns, Owning
<1>6. EffectOwns'
  BY <1>1, <1>2, RecordsDiffer DEF EffectOwns, HistoryAgrees
<1>7. HistoryAgrees' /\ ReplayIsGenuine' /\ NotRunMeansNotRun'
  BY <1>1 DEF HistoryAgrees, ReplayIsGenuine, NotRunMeansNotRun
<1>8. StoredIsGenuine'
  BY <1>1, <1>2, RecordsDiffer DEF StoredIsGenuine, HistoryAgrees
<1> QED BY <1>4, <1>5, <1>6, <1>7, <1>8

(* A forgotten record takes its owner into `lapsed`.                       *)
LEMMA ExpireKeepsIInv ==
  ASSUME IInv, NEW k \in Keys, Expire(k)
  PROVE  IInv'
<1> USE DEF IInv, IdempotencyTypeOK
<1>1. /\ record' = [record EXCEPT ![k] = Store!None] /\ record[k] # Store!None
      /\ forgotten' = forgotten \cup {k} /\ lapsed' = lapsed \cup {record[k].token}
      /\ UNCHANGED <<pc, answer, replayOf, ran, undone>>
  BY DEF Expire, Store!Forget
<1>2. PICK s \in Requests : record[k] \in {Store!Pending(s), Store!Done(s)}
  BY <1>1 DEF Store!Records
<1>3. record[k].token = s /\ KeyOf[s] = k
  <2>1. KeyOf[s] = k
    BY <1>2 DEF StoredIsGenuine
  <2> QED BY <1>2, <2>1 DEF Store!Pending, Store!Done
<1>4. Store!None \in Store!Records
  BY DEF Store!Records
<1>5. IdempotencyTypeOK'
  BY <1>1, <1>3, <1>4
<1>6. ClaimantOwns'
  BY <1>1, <1>2, <1>3, RecordsDiffer DEF ClaimantOwns, Owning
<1>7. EffectOwns'
  BY <1>1 DEF EffectOwns
<1>8. HistoryAgrees' /\ ReplayIsGenuine' /\ NotRunMeansNotRun'
  BY <1>1, <1>3 DEF HistoryAgrees, ReplayIsGenuine, NotRunMeansNotRun
<1>9. StoredIsGenuine'
  BY <1>1, RecordsDiffer DEF StoredIsGenuine
<1> QED BY <1>5, <1>6, <1>7, <1>8, <1>9

-----------------------------------------------------------------------------
(* Until a record of a key is forgotten at most one handler run on it      *)
(* stands; two handlers overlap only after a lease ran out; every replay   *)
(* is of a finished run of the same request; and a request told that it    *)
(* was not run was not run.                                                *)
THEOREM IdempotencySafe ==
  IdempotencySpec => [](IdempotencyTypeOK /\ AtMostOnce /\ OneRunnerPerLease /\ ReplayIsGenuine /\ NotRunMeansNotRun)
<1>1. IdempotencyInit => IInv
  <2> SUFFICES ASSUME IdempotencyInit PROVE IInv
    OBVIOUS
  <2> USE DEF IdempotencyInit, Store!Init
  <2>1. IdempotencyTypeOK
    BY DEF IdempotencyTypeOK, Points, Answers, Store!Records
  <2>2. ClaimantOwns /\ EffectOwns /\ HistoryAgrees
    BY DEF ClaimantOwns, EffectOwns, HistoryAgrees, Owning
  <2>3. StoredIsGenuine
    BY RecordsDiffer DEF StoredIsGenuine
  <2>4. ReplayIsGenuine /\ NotRunMeansNotRun
    BY DEF ReplayIsGenuine, NotRunMeansNotRun
  <2> QED BY <2>1, <2>2, <2>3, <2>4 DEF IInv
<1>2. IInv /\ [IdempotencyNext]_idempotencyVars => IInv'
  <2> SUFFICES ASSUME IInv, [IdempotencyNext]_idempotencyVars PROVE IInv'
    OBVIOUS
  <2>1. ASSUME NEW r \in Requests, Arrive(r) \/ Handle(r) \/ Crash(r) PROVE IInv'
    BY <2>1, LocalStepsKeepIInv, RunKeepsIInv, ReadKeepsIInv, ClaimKeepsIInv,
       CompleteKeepsIInv, ReleaseKeepsIInv DEF Handle
  <2>2. ASSUME NEW k \in Keys, Expire(k) PROVE IInv'
    BY <2>2, ExpireKeepsIInv
  <2>3. CASE UNCHANGED idempotencyVars
    BY <2>3 DEF idempotencyVars, history, IInv, IdempotencyTypeOK, ClaimantOwns, EffectOwns, HistoryAgrees,
                StoredIsGenuine, ReplayIsGenuine, NotRunMeansNotRun
  <2> QED BY <2>1, <2>2, <2>3 DEF IdempotencyNext
<1>3. IInv => IdempotencyTypeOK /\ AtMostOnce /\ OneRunnerPerLease /\ ReplayIsGenuine /\ NotRunMeansNotRun
  BY IInvExcludes DEF IInv
<1> QED BY <1>1, <1>2, <1>3, PTL DEF IdempotencySpec

(* Two handlers never run at once on a key whose leases hold.              *)
THEOREM OneRunnerPerLeaseAlways == IdempotencySpec => []OneRunnerPerLease
BY IdempotencySafe, PTL

(* Whatever crashed, lapsed or was lost, a replay carries the response of  *)
(* a completed run for the same key and request.                           *)
THEOREM ReplayIsGenuineAlways == IdempotencySpec => []ReplayIsGenuine
BY IdempotencySafe, PTL

(* A request answered with 409, 422, 503 or a replay never entered its     *)
(* handler.                                                                *)
THEOREM NotRunMeansNotRunAlways == IdempotencySpec => []NotRunMeansNotRun
BY IdempotencySafe, PTL

(* No request ends another's claim: a claim goes with its own complete or  *)
(* release, or with its lease.                                             *)
THEOREM OwnersEndClaims == IdempotencySpec => ClaimsEndedByOwner
<1> DEFINE A == \A r \in Requests :
                  record[KeyOf[r]] = Store!Pending(r) /\ record'[KeyOf[r]] # Store!Pending(r) =>
                    \/ KeyOf[r] \in forgotten' /\ r \in lapsed'
                    \/ pc[r] \in {"keeping", "releasing"} /\ pc'[r] = "answered"
<1>1. IdempotencyTypeOK /\ [IdempotencyNext]_idempotencyVars => [A]_idempotencyVars
  <2> SUFFICES ASSUME IdempotencyTypeOK, IdempotencyNext, NEW r \in Requests,
                      record[KeyOf[r]] = Store!Pending(r), record'[KeyOf[r]] # Store!Pending(r)
               PROVE  \/ KeyOf[r] \in forgotten' /\ r \in lapsed'
                      \/ pc[r] \in {"keeping", "releasing"} /\ pc'[r] = "answered"
    OBVIOUS
  <2> USE DEF IdempotencyTypeOK
  <2>1. ASSUME NEW s \in Requests, ClaimWins(s) PROVE FALSE
    BY <2>1, RecordsDiffer DEF ClaimWins, Store!Claim
  <2>2. ASSUME NEW s \in Requests, CompleteApplied(s) \/ ReleaseApplied(s)
        PROVE  pc[r] \in {"keeping", "releasing"} /\ pc'[r] = "answered"
    <3>1. Store!Holds(s) /\ KeyOf[s] = KeyOf[r]
      BY <2>2 DEF CompleteApplied, ReleaseApplied, Store!Complete, Store!Release
    <3>2. s = r
      BY <3>1, RecordsDiffer DEF Store!Holds
    <3> QED BY <2>2, <3>2 DEF CompleteApplied, ReleaseApplied, Answer, Goto
  <2>3. ASSUME NEW k \in Keys, Expire(k) PROVE KeyOf[r] \in forgotten' /\ r \in lapsed'
    <3>1. k = KeyOf[r]
      BY <2>3 DEF Expire, Store!Forget
    <3>2. record[k].token = r
      BY <3>1 DEF Store!Pending
    <3> QED BY <2>3, <3>1, <3>2 DEF Expire
  <2>4. ASSUME NEW s \in Requests,
               \/ Arrive(s) \/ ClaimLoses(s) \/ StoreUnreachable(s) \/ Run(s) \/ Read(s)
               \/ HandlerReturns(s) \/ HandlerUnkept(s) \/ CaptureThrows(s)
               \/ StoreLost(s) \/ Crash(s)
        PROVE  FALSE
    BY <2>4 DEF Arrive, ClaimLoses, StoreUnreachable, Run, Read, HandlerReturns,
                HandlerUnkept, CaptureThrows, StoreLost, Crash
  <2> QED BY <2>1, <2>2, <2>3, <2>4 DEF IdempotencyNext, Handle
<1>2. IdempotencySpec => []IdempotencyTypeOK
  BY IdempotencySafe, PTL
<1> QED BY <1>1, <1>2, PTL DEF IdempotencySpec, ClaimsEndedByOwner
=============================================================================
