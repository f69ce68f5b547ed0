---------------------------- MODULE QueueWorkers ----------------------------
(***************************************************************************)
(* The consuming half of the queue package: QueueConsumer and              *)
(* WorkerApplication (packages/infra/src/queue/worker.ts), QueueRunner     *)
(* (runner.ts) and JobDispatcher (dispatcher.ts).  start() opens one       *)
(* bullmq worker per queue and awaits its readiness before the next;       *)
(* stop() closes them all and waits for what is mid-flight; the container  *)
(* is torn down after that.  bullmq itself is external: a ready worker     *)
(* takes jobs, close() takes no more and resolves when none is active,     *)
(* close(true) abandons the active ones to stalled recovery.               *)
(***************************************************************************)
EXTENDS Integers, FiniteSets

CONSTANTS
  LastQueue,     \* the queues are 1..LastQueue, in discovery order
  Jobs, QueueOf, \* the jobs and the queue each is on
  MaxRuns,       \* bound of the model: how often a job is run
  Early          \* whether shutdown() may come while start() still awaits

Queues == 1..LastQueue

ASSUME QueueAssumption ==
  LastQueue \in Nat \ {0} /\ QueueOf \in [Jobs -> Queues] /\ MaxRuns \in Nat /\ Early \in BOOLEAN

VARIABLES
  start,      \* start(): "no", "waiting" for readiness, "draining", "failed", "started"
  awaiting,   \* the queue whose worker start() waits for
  worker,     \* per queue: "none", "connecting", "ready", "closing", "closed"
  held,       \* #workers, as the queues of its members
  stop,       \* shutdown(): "no", "closing" (in stop()), "stopped", "down" (closed resolved)
  stopping,   \* the workers stop() found and closes
  job,        \* "waiting", "active", "over"
  runs,       \* how often a job's handler was called
  executing,    \* how many calls of it have not returned
  timedOut,   \* how many of those jobTimeoutMs gave up on
  rejected,   \* history: the workers whose close() rejected
  expired     \* history: the bound on draining a failed start ran out

queueVars == <<start, awaiting, worker, held, stop, stopping, job, runs, executing, timedOut, rejected, expired>>
workVars == <<job, runs, executing, timedOut>>

ActiveOn(q) == {j \in Jobs : QueueOf[j] = q /\ job[j] = "active"}

QueueInit ==
  /\ start = "no" /\ awaiting = 0
  /\ worker = [q \in Queues |-> "none"] /\ held = {}
  /\ stop = "no" /\ stopping = {}
  /\ job = [j \in Jobs |-> "waiting"] /\ runs = [j \in Jobs |-> 0]
  /\ executing = [j \in Jobs |-> 0] /\ timedOut = [j \in Jobs |-> 0]
  /\ rejected = {} /\ expired = FALSE

-----------------------------------------------------------------------------
\* #open(q), #workers.push, and the await of waitUntilReady().
Opens(q) ==
  /\ worker' = [worker EXCEPT ![q] = "connecting"]
  /\ held' = held \cup {q}
  /\ awaiting' = q

Start ==
  /\ start = "no" /\ (stop = "no" \/ Early)
  /\ start' = "waiting" /\ Opens(1)
  /\ UNCHANGED <<stop, stopping, workVars, rejected, expired>>

\* waitUntilReady() resolved: the next queue, or start() is done.
Ready ==
  /\ start = "waiting" /\ worker[awaiting] = "connecting"
  /\ IF awaiting = LastQueue
     THEN /\ start' = "started"
          /\ worker' = [worker EXCEPT ![awaiting] = "ready"]
          /\ UNCHANGED <<awaiting, held>>
     ELSE /\ worker' = [worker EXCEPT ![awaiting] = "ready", ![awaiting + 1] = "connecting"]
          /\ held' = held \cup {awaiting + 1}
          /\ awaiting' = awaiting + 1
          /\ UNCHANGED start
  /\ UNCHANGED <<stop, stopping, workVars, rejected, expired>>

\* close(): no new job is taken, the active ones are waited for.
Closing(q) == IF worker[q] \in {"connecting", "ready"} THEN "closing" ELSE worker[q]

\* Mutant: every worker of a failed start is force-closed.
ForcesAll(q) == "closed"
\* A worker that became ready may hold a job and is drained; one that did not
\* is force-closed.
ClosesFailed(q) == IF q = awaiting THEN "closed" ELSE Closing(q)

\* waitUntilReady() rejected: the catch block closes what was opened.
NotReady ==
  /\ start = "waiting" /\ start' = "draining"
  /\ worker' = [q \in Queues |-> IF q \in held THEN ClosesFailed(q) ELSE worker[q]]
  /\ UNCHANGED <<awaiting, held, stop, stopping, workVars, rejected, expired>>

\* closeWithin() settled for each of them: closed, rejected or out of time.
FailedStartDrained ==
  /\ start = "draining"
  /\ \/ \A q \in held : worker[q] = "closed" \/ q \in rejected
     \/ expired
  /\ start' = "failed" /\ held' = {}
  /\ UNCHANGED <<awaiting, worker, stop, stopping, workVars, rejected, expired>>

DrainExpires ==
  /\ start = "draining" /\ ~expired
  /\ \E q \in held : worker[q] = "closing"
  /\ expired' = TRUE
  /\ UNCHANGED <<start, awaiting, worker, held, stop, stopping, workVars, rejected>>

-----------------------------------------------------------------------------
\* shutdown(): stop() first.  The promise of stop() is kept, so a second call
\* finds nothing more to do.
Shutdown ==
  /\ stop = "no" /\ (start \in {"no", "failed", "started"} \/ Early)
  /\ stop' = "closing" /\ stopping' = held
  /\ worker' = [q \in Queues |-> IF q \in held THEN Closing(q) ELSE worker[q]]
  /\ UNCHANGED <<start, awaiting, held, workVars, rejected, expired>>

\* Mutant: stop() does not wait for the workers it closes.
StopAtOnce == TRUE
\* Promise.all settles: every close resolved, or one of them rejected.
StopSettles == stopping \subseteq {q \in Queues : worker[q] = "closed"} \/ stopping \cap rejected # {}

Stopped ==
  /\ stop = "closing" /\ StopSettles
  /\ stop' = "stopped"
  /\ held' = IF stopping \cap rejected = {} THEN {} ELSE held
  /\ UNCHANGED <<start, awaiting, worker, stopping, workVars, rejected, expired>>

\* app.shutdown(): the providers are torn down and closed resolves.
TearDown ==
  /\ stop = "stopped" /\ stop' = "down"
  /\ UNCHANGED <<start, awaiting, worker, held, stopping, workVars, rejected, expired>>

-----------------------------------------------------------------------------
\* bullmq: a close resolves once no job of the queue is active, or rejects.
CloseResolves(q) ==
  /\ worker[q] = "closing" /\ ActiveOn(q) = {}
  /\ worker' = [worker EXCEPT ![q] = "closed"]
  /\ UNCHANGED <<start, awaiting, held, stop, stopping, workVars, rejected, expired>>

CloseRejects(q) ==
  /\ worker[q] = "closing" /\ q \notin rejected
  /\ rejected' = rejected \cup {q}
  /\ UNCHANGED <<start, awaiting, worker, held, stop, stopping, workVars, expired>>

\* A ready worker takes a job and dispatch() calls its handler.
Take(j) ==
  /\ worker[QueueOf[j]] = "ready" /\ job[j] = "waiting" /\ runs[j] < MaxRuns
  /\ job' = [job EXCEPT ![j] = "active"]
  /\ runs' = [runs EXCEPT ![j] = @ + 1]
  /\ executing' = [executing EXCEPT ![j] = @ + 1]
  /\ UNCHANGED <<start, awaiting, worker, held, stop, stopping, timedOut, rejected, expired>>

\* The handler returned, or threw and the job waits for its next attempt.
HandlerEnds(j) ==
  /\ job[j] = "active"
  /\ executing' = [executing EXCEPT ![j] = @ - 1]
  /\ \E to \in {"over", "waiting"} : job' = [job EXCEPT ![j] = to]
  /\ UNCHANGED <<start, awaiting, worker, held, stop, stopping, runs, timedOut, rejected, expired>>

\* within(): the job fails and the handler runs on.
TimesOut(j) ==
  /\ job[j] = "active"
  /\ timedOut' = [timedOut EXCEPT ![j] = @ + 1]
  /\ \E to \in {"over", "waiting"} : job' = [job EXCEPT ![j] = to]
  /\ UNCHANGED <<start, awaiting, worker, held, stop, stopping, runs, executing, rejected, expired>>

LateReturn(j) ==
  /\ timedOut[j] > 0
  /\ timedOut' = [timedOut EXCEPT ![j] = @ - 1]
  /\ executing' = [executing EXCEPT ![j] = @ - 1]
  /\ UNCHANGED <<start, awaiting, worker, held, stop, stopping, job, runs, rejected, expired>>

QueueNext ==
  \/ Start \/ Ready \/ NotReady \/ FailedStartDrained \/ DrainExpires
  \/ Shutdown \/ Stopped \/ TearDown
  \/ \E q \in Queues : CloseResolves(q) \/ CloseRejects(q)
  \/ \E j \in Jobs : Take(j) \/ HandlerEnds(j) \/ TimesOut(j) \/ LateReturn(j)

QueueSpec == QueueInit /\ [][QueueNext]_queueVars

-----------------------------------------------------------------------------
Working(j) == executing[j] - timedOut[j]

\* A job a handler is on belongs to a worker that is not closed yet: neither a
\* failed start nor a stop abandons it to stalled recovery, which would run it a
\* second time beside the first.
NoJobAbandoned == \A j \in Jobs : job[j] = "active" => worker[QueueOf[j]] \in {"ready", "closing"}

\* Once the providers are torn down no handler that is still within its time
\* runs, unless a close() rejected or the drain of a failed start ran out of time.
TeardownAfterHandlers ==
  stop = "down" /\ rejected = {} /\ ~expired => \A j \in Jobs : Working(j) = 0

\* "Stops consuming and waits for whatever is mid-flight" (worker.ts): a
\* started worker's handlers are over once the providers are torn down.
StopWaitsForHandlers ==
  stop = "down" /\ start = "started" => \A j \in Jobs : Working(j) = 0
=============================================================================
