---------------------------- MODULE Idempotency ----------------------------
(***************************************************************************)
(* http/src/idempotency/guard.ts: IdempotencyGuard.handle for any number   *)
(* of requests, in any number of processes, over one store.  Every store   *)
(* call is a message: it may fail before the store applied it or after, a  *)
(* process may crash at any await, and a lease may run out while its       *)
(* handler is still running.                                               *)
(***************************************************************************)
EXTENDS FiniteSets

CONSTANTS
  Requests, Keys, KeyOf, Prints, PrintOf,   \* as in IdempotencyStore
  NoRequest                                 \* no request at all

ASSUME GuardAssumption ==
  /\ KeyOf \in [Requests -> Keys]
  /\ PrintOf \in [Requests -> Prints]
  /\ NoRequest \notin Requests

VARIABLES
  record,     \* the store
  pc,         \* where each request's handle() is suspended
  answer,     \* what each request was answered with
  replayOf,   \* the request whose stored response a replay carried
  ran,        \* history: requests whose handler was entered
  undone,     \* history: requests whose handler threw or left nothing to keep
  lapsed,     \* history: requests whose record was forgotten
  forgotten   \* history: keys a record of which was forgotten

history == <<ran, undone, lapsed, forgotten>>
idempotencyVars == <<record, pc, answer, replayOf, history>>

Store == INSTANCE IdempotencyStore

(* "claim": claim() sent; "claimed" and "refused": the store applied it    *)
(* and its reply is on the way; "keeping", "releasing": complete() or      *)
(* release() sent.                                                         *)
Points == {"new", "claim", "claimed", "refused", "running", "keeping", "releasing",
           "answered", "crashed"}
Answers == {"none", "own", "error", "replay", "409", "422", "503"}

IdempotencyInit ==
  /\ Store!Init
  /\ pc = [r \in Requests |-> "new"]
  /\ answer = [r \in Requests |-> "none"]
  /\ replayOf = [r \in Requests |-> NoRequest]
  /\ ran = {} /\ undone = {} /\ lapsed = {} /\ forgotten = {}

Goto(r, from, to) == pc[r] = from /\ pc' = [pc EXCEPT ![r] = to]
Answer(r, from, a) == Goto(r, from, "answered") /\ answer' = [answer EXCEPT ![r] = a]

-----------------------------------------------------------------------------
(* handle(): the claim.                                                    *)

Arrive(r) ==
  /\ Goto(r, "new", "claim")
  /\ UNCHANGED <<record, answer, replayOf, history>>

ClaimWins(r) ==
  /\ Goto(r, "claim", "claimed")
  /\ Store!Claim(r, {})
  /\ UNCHANGED <<answer, replayOf, history>>

ClaimLoses(r) ==
  /\ Goto(r, "claim", "refused")
  /\ Store!Taken(r)
  /\ UNCHANGED <<record, answer, replayOf, history>>

(* Mutant: an unreachable store runs the handler unguarded.                *)
StoreUnreachableRuns(r) ==
  /\ Goto(r, "claim", "running")
  /\ ran' = ran \cup {r}
  /\ UNCHANGED <<record, answer, replayOf, undone, lapsed, forgotten>>

(* #reach: the command, or the reply of an applied one, was lost.          *)
StoreUnreachable(r) ==
  /\ \E from \in {"claim", "claimed", "refused"} : Answer(r, from, "503")
  /\ UNCHANGED <<record, replayOf, history>>

Run(r) ==
  /\ Goto(r, "claimed", "running")
  /\ ran' = ran \cup {r}
  /\ UNCHANGED <<record, answer, replayOf, undone, lapsed, forgotten>>

(* Mutant: a finished key is replayed whatever the retry asks for.         *)
ReadIgnoresPrint(r) ==
  /\ record[KeyOf[r]] # Store!None /\ record[KeyOf[r]].state = "done"
  /\ Answer(r, "refused", "replay")
  /\ replayOf' = [replayOf EXCEPT ![r] = record[KeyOf[r]].token]
  /\ UNCHANGED <<record, history>>

(* #answer: what the store holds by the time read() gets there.            *)
Read(r) ==
  LET rec == record[KeyOf[r]] IN
  /\ \/ /\ rec # Store!None /\ rec.print # PrintOf[r]
        /\ Answer(r, "refused", "422")
        /\ UNCHANGED replayOf
     \/ /\ rec = Store!None \/ (rec.state = "pending" /\ rec.print = PrintOf[r])
        /\ Answer(r, "refused", "409")
        /\ UNCHANGED replayOf
     \/ /\ rec # Store!None /\ rec.state = "done" /\ rec.print = PrintOf[r]
        /\ Answer(r, "refused", "replay")
        /\ replayOf' = [replayOf EXCEPT ![r] = rec.token]
  /\ UNCHANGED <<record, history>>

-----------------------------------------------------------------------------
(* The handler settles; #keep, #release.                                   *)

(* A response below 500, not a stream and within maxBodyBytes.             *)
HandlerReturns(r) ==
  /\ Goto(r, "running", "keeping")
  /\ UNCHANGED <<record, answer, replayOf, history>>

(* A throw, a 5xx, a stream or an oversized body.                          *)
HandlerUnkept(r) ==
  /\ Goto(r, "running", "releasing")
  /\ undone' = undone \cup {r}
  /\ UNCHANGED <<record, answer, replayOf, ran, lapsed, forgotten>>

(* #capture threw while reading the body: nothing is stored or released.   *)
CaptureThrows(r) ==
  /\ Answer(r, "running", "error")
  /\ UNCHANGED <<record, replayOf, history>>

CompleteApplied(r) ==
  /\ Answer(r, "keeping", "own")
  /\ Store!Complete(r)
  /\ UNCHANGED <<replayOf, history>>

ReleaseApplied(r) ==
  /\ \E a \in {"own", "error"} : Answer(r, "releasing", a)
  /\ Store!Release(r)
  /\ UNCHANGED <<replayOf, history>>

(* Mutant: a response that could not be stored is failed.                  *)
StoreLostFails(r) ==
  /\ Answer(r, "keeping", "503")
  /\ UNCHANGED <<record, replayOf, history>>

(* complete() or release() never got there: the claim lapses by itself.    *)
StoreLost(r) ==
  /\ \/ Answer(r, "keeping", "own")
     \/ \E a \in {"own", "error"} : Answer(r, "releasing", a)
  /\ UNCHANGED <<record, replayOf, history>>

Crash(r) ==
  /\ pc[r] \in Points \ {"new", "answered", "crashed"}
  /\ pc' = [pc EXCEPT ![r] = "crashed"]
  /\ UNCHANGED <<record, answer, replayOf, history>>

(* The lease of a claim, or the TTL of a response, runs out.               *)
Expire(k) ==
  /\ record[k] # Store!None
  /\ Store!Forget({k})
  /\ lapsed' = lapsed \cup {record[k].token}
  /\ forgotten' = forgotten \cup {k}
  /\ UNCHANGED <<pc, answer, replayOf, ran, undone>>

Handle(r) ==
  \/ ClaimWins(r) \/ ClaimLoses(r) \/ StoreUnreachable(r) \/ Run(r) \/ Read(r)
  \/ HandlerReturns(r) \/ HandlerUnkept(r) \/ CaptureThrows(r)
  \/ CompleteApplied(r) \/ ReleaseApplied(r) \/ StoreLost(r)

IdempotencyNext ==
  \/ \E r \in Requests : Arrive(r) \/ Handle(r) \/ Crash(r)
  \/ \E k \in Keys : Expire(k)

IdempotencySpec == IdempotencyInit /\ [][IdempotencyNext]_idempotencyVars

-----------------------------------------------------------------------------
(* The shape of the guard's state.                                         *)
IdempotencyTypeOK ==
  /\ record \in [Keys -> Store!Records]
  /\ pc \in [Requests -> Points]
  /\ answer \in [Requests -> Answers]
  /\ replayOf \in [Requests -> Requests \cup {NoRequest}]
  /\ ran \in SUBSET Requests /\ undone \in SUBSET Requests
  /\ lapsed \in SUBSET Requests /\ forgotten \in SUBSET Keys

(* Requests whose handler ran and was not undone.                          *)
Effects(k) == {r \in ran \ undone : KeyOf[r] = k}

(* The promise of the header: until a record of the key is forgotten, at   *)
(* most one handler run on it stands, through lost replies, crashes, late  *)
(* completions and any number of retries.                                  *)
AtMostOnce ==
  \A k \in Keys \ forgotten : \A r, s \in Effects(k) : r = s

(* Two handlers run at once on a key only after the lease of one ran out.  *)
OneRunnerPerLease ==
  \A r, s \in Requests \ lapsed :
    pc[r] = "running" /\ pc[s] = "running" /\ KeyOf[r] = KeyOf[s] => r = s

(* A replayed response was produced by a handler run for the same key and  *)
(* the same method, target and body, and was to be kept.                   *)
ReplayIsGenuine ==
  \A r \in Requests : answer[r] = "replay" =>
    LET s == replayOf[r] IN
    /\ s \in ran \ undone
    /\ KeyOf[s] = KeyOf[r] /\ PrintOf[s] = PrintOf[r]
    /\ pc[s] \in {"answered", "crashed"}

(* "so this request was not run": a 409, a 422, a 503 and a replay never   *)
(* come from a request whose handler was entered.                          *)
NotRunMeansNotRun ==
  \A r \in ran : answer[r] \in {"none", "own", "error"}

(* A complete or release that arrives after its lease expired cannot touch *)
(* the retry's claim (store.ts:24-26): a claim is ended by its own request *)
(* or by expiry, and only once.                                            *)
ClaimsEndedByOwner ==
  [][\A r \in Requests :
       record[KeyOf[r]] = Store!Pending(r) /\ record'[KeyOf[r]] # Store!Pending(r) =>
         \/ KeyOf[r] \in forgotten' /\ r \in lapsed'
         \/ pc[r] \in {"keeping", "releasing"} /\ pc'[r] = "answered"]_idempotencyVars
=============================================================================
