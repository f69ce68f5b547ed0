-------------------------- MODULE MessagingProofs --------------------------
(***************************************************************************)
(* What runs handlers and delivers messages, for any number of queues,     *)
(* jobs, subscriptions, messages and nodes.                                *)
(***************************************************************************)
EXTENDS QueueWorkers, Amqp, SseStream, Relay, EventBus, Schedule, FiniteSetTheorems,
        SequenceTheorems, TLAPS

(* Queue workers: NoJobAbandoned and TeardownAfterHandlers.  The first     *)
(* holds even when shutdown() overtakes start(); the second is proved for  *)
(* the order the runners keep, in which shutdown() waits for start()       *)
(* (Early = FALSE).                                                        *)
QueueTypeOK ==
  /\ start \in {"no", "waiting", "draining", "failed", "started"}
  /\ stop \in {"no", "closing", "stopped", "down"}
  /\ worker \in [Queues -> {"none", "connecting", "ready", "closing", "closed"}]
  /\ held \subseteq Queues /\ stopping \subseteq Queues
  /\ job \in [Jobs -> {"waiting", "active", "over"}]
  /\ executing \in [Jobs -> Int] /\ timedOut \in [Jobs -> Int]
  /\ expired \in BOOLEAN

(* What start() has opened: every queue up to the one it waits for, which  *)
(* has taken no job yet.                                                   *)
OpenedOK ==
  /\ start = "no" => \A q \in Queues : worker[q] = "none"
  /\ start # "no" => awaiting \in Queues
  /\ start = "waiting" =>
       /\ worker[awaiting] # "ready"
       /\ \A j \in Jobs : QueueOf[j] = awaiting => job[j] # "active"
       /\ \A q \in Queues : q > awaiting => worker[q] = "none"

AbandonInv == QueueTypeOK /\ OpenedOK /\ NoJobAbandoned

(* Every step keeps what is opened in order and every job a handler is on  *)
(* with an open worker.                                                    *)
LEMMA AbandonInductive == AbandonInv /\ [QueueNext]_queueVars => AbandonInv'
<1> SUFFICES ASSUME AbandonInv, [QueueNext]_queueVars PROVE AbandonInv'
  OBVIOUS
<1> USE QueueAssumption DEF AbandonInv, QueueTypeOK, OpenedOK, NoJobAbandoned, Queues
<1>1. CASE Start
  <2>1. 1 \in Queues /\ \A j \in Jobs : job[j] # "active"
    <3>1. 1 \in Queues
      OBVIOUS
    <3>2. \A q \in Queues : worker[q] = "none"
      BY <1>1 DEF Start
    <3>3. \A j \in Jobs : job[j] # "active"
      BY <3>2
    <3> QED BY <3>1, <3>3
  <2>2. worker' = [worker EXCEPT ![1] = "connecting"] /\ awaiting' = 1 /\ start' = "waiting"
    BY <1>1 DEF Start, Opens
  <2>3. QueueTypeOK'
    <3>1. held' \subseteq Queues
      BY <1>1, <2>1 DEF Start, Opens
    <3> QED
      BY <1>1, <2>1, <2>2, <3>1 DEF Start, workVars
  <2>4. OpenedOK' /\ NoJobAbandoned'
    BY <1>1, <2>1, <2>2 DEF Start, workVars
  <2> QED
    BY <2>3, <2>4
<1>2. CASE Ready
  <2>1. CASE awaiting = LastQueue
    BY <1>2, <2>1 DEF Ready, workVars
  <2>2. CASE awaiting # LastQueue
    <3>0. awaiting + 1 \in Queues
      BY <1>2, <2>2 DEF Ready
    <3>1. /\ awaiting' = awaiting + 1 /\ start' = "waiting"
          /\ held' = held \cup {awaiting + 1}
          /\ worker' = [worker EXCEPT ![awaiting] = "ready", ![awaiting + 1] = "connecting"]
          /\ UNCHANGED <<stop, stopping, job, executing, timedOut, expired>>
      BY <1>2, <2>2 DEF Ready, workVars
    <3>2. worker[awaiting + 1] = "none" /\ worker'[awaiting + 1] = "connecting"
      BY <1>2, <3>0, <3>1 DEF Ready
    <3>3. \A j \in Jobs : QueueOf[j] = awaiting + 1 => job[j] # "active"
      BY <3>0, <3>2
    <3>4. held' \subseteq Queues
      BY <3>0, <3>1
    <3>5. QueueTypeOK'
      BY <3>0, <3>1, <3>4
    <3>6. OpenedOK'
      BY <1>2, <3>0, <3>1, <3>2, <3>3 DEF Ready
    <3>7. NoJobAbandoned'
      BY <1>2, <3>0, <3>1, <3>3 DEF Ready
    <3> QED
      BY <3>5, <3>6, <3>7
  <2> QED
    BY <2>1, <2>2
<1>3. CASE NotReady
  BY <1>3 DEF NotReady, ClosesFailed, Closing, workVars
<1>4. CASE FailedStartDrained \/ DrainExpires
  BY <1>4 DEF FailedStartDrained, DrainExpires, workVars
<1>5. CASE Shutdown
  BY <1>5 DEF Shutdown, Closing, workVars
<1>6. CASE Stopped \/ TearDown
  BY <1>6 DEF Stopped, TearDown, workVars
<1>7. ASSUME NEW q \in Queues, CloseResolves(q) PROVE AbandonInv'
  BY <1>7 DEF CloseResolves, ActiveOn, workVars
<1>8. ASSUME NEW q \in Queues, CloseRejects(q) PROVE AbandonInv'
  BY <1>8 DEF CloseRejects, workVars
<1>9. ASSUME NEW j \in Jobs, Take(j) PROVE AbandonInv'
  BY <1>9 DEF Take
<1>10. ASSUME NEW j \in Jobs, HandlerEnds(j) \/ TimesOut(j) \/ LateReturn(j) PROVE AbandonInv'
  <2>1. /\ UNCHANGED <<start, awaiting, worker, held, stop, stopping, expired>>
        /\ job' \in [Jobs -> {"waiting", "active", "over"}]
        /\ \A i \in Jobs : job'[i] = "active" => job[i] = "active"
    BY <1>10 DEF HandlerEnds, TimesOut, LateReturn
  <2>2. executing' \in [Jobs -> Int]
    BY <1>10 DEF HandlerEnds, TimesOut, LateReturn
  <2>3. timedOut' \in [Jobs -> Int]
    BY <1>10 DEF HandlerEnds, TimesOut, LateReturn
  <2>4. QueueTypeOK'
    BY <2>1, <2>2, <2>3
  <2> QED
    BY <2>1, <2>4
<1>11. CASE UNCHANGED queueVars
  BY <1>11 DEF queueVars
<1> QED
  BY <1>1, <1>2, <1>3, <1>4, <1>5, <1>6, <1>7, <1>8, <1>9, <1>10, <1>11 DEF QueueNext

(* Nothing is open and no job is taken before start().                     *)
LEMMA AbandonInitial == QueueInit => AbandonInv
<1> SUFFICES ASSUME QueueInit PROVE AbandonInv
  OBVIOUS
<1>1. QueueTypeOK
  <2>1. held \subseteq Queues /\ stopping \subseteq Queues
    BY DEF QueueInit
  <2>2. executing \in [Jobs -> Int] /\ timedOut \in [Jobs -> Int]
    BY DEF QueueInit
  <2>3. expired \in BOOLEAN
    BY DEF QueueInit
  <2> QED
    BY <2>1, <2>2, <2>3 DEF QueueInit, QueueTypeOK
<1>2. OpenedOK /\ NoJobAbandoned
  BY DEF QueueInit, OpenedOK, NoJobAbandoned
<1> QED
  BY <1>1, <1>2 DEF AbandonInv

(* A job a handler is on belongs to a worker that is not closed: neither a *)
(* failed start nor a stop abandons it to stalled recovery.                *)
THEOREM NoJobEverAbandoned == QueueSpec => []NoJobAbandoned
<1>1. AbandonInv => NoJobAbandoned
  BY DEF AbandonInv
<1> QED
  BY <1>1, AbandonInitial, AbandonInductive, PTL DEF QueueSpec

-----------------------------------------------------------------------------
(* A job is worked on exactly while it is active.                          *)
WorkOK == \A j \in Jobs : executing[j] - timedOut[j] = IF job[j] = "active" THEN 1 ELSE 0

(* What is open is held, and what a failed start let go of is closed.      *)
HeldOK ==
  /\ start \in {"waiting", "draining", "started"} /\ stop \in {"no", "closing"} =>
       \A q \in Queues : worker[q] # "none" => q \in held
  /\ start = "failed" /\ stop = "no" /\ rejected = {} /\ ~expired =>
       \A q \in Queues : worker[q] \in {"none", "closed"}

(* Without Early, shutdown() finds start() settled; stop() then leaves no  *)
(* worker open unless a close rejected or a drain ran out of time.         *)
WorkersStopOK ==
  /\ stop # "no" => start \in {"no", "failed", "started"}
  /\ stop = "closing" /\ rejected = {} /\ ~expired =>
       \A q \in Queues : worker[q] \notin {"none", "closed"} => q \in stopping
  /\ stop \in {"stopped", "down"} /\ rejected = {} /\ ~expired =>
       \A q \in Queues : worker[q] \in {"none", "closed"}

StopInv == AbandonInv /\ WorkOK /\ HeldOK /\ WorkersStopOK

(* Every step of a program whose shutdown() waits for start() keeps it.    *)
LEMMA StopInductive ==
  ASSUME Early = FALSE
  PROVE  StopInv /\ [QueueNext]_queueVars => StopInv'
<1> SUFFICES ASSUME StopInv, [QueueNext]_queueVars PROVE StopInv'
  OBVIOUS
<1>0. AbandonInv /\ AbandonInv'
  BY AbandonInductive DEF StopInv
<1> USE QueueAssumption, <1>0 DEF StopInv, WorkOK, HeldOK, WorkersStopOK, AbandonInv, QueueTypeOK, OpenedOK, Queues
<1>1. CASE Start
  BY <1>1 DEF Start, Opens, workVars
<1>2. CASE Ready
  BY <1>2 DEF Ready, workVars
<1>3. CASE NotReady
  BY <1>3 DEF NotReady, ClosesFailed, Closing, workVars
<1>4. CASE FailedStartDrained
  BY <1>4 DEF FailedStartDrained, workVars
<1>5. CASE DrainExpires
  BY <1>5 DEF DrainExpires, workVars
<1>6. CASE Shutdown
  BY <1>6 DEF Shutdown, Closing, workVars
<1>7. CASE Stopped
  BY <1>7 DEF Stopped, StopSettles, workVars
<1>8. CASE TearDown
  BY <1>8 DEF TearDown, workVars
<1>9. ASSUME NEW q \in Queues, CloseResolves(q) PROVE StopInv'
  BY <1>9 DEF CloseResolves, workVars
<1>10. ASSUME NEW q \in Queues, CloseRejects(q) PROVE StopInv'
  BY <1>10 DEF CloseRejects, workVars
<1>11. ASSUME NEW j \in Jobs, Take(j) PROVE StopInv'
  BY <1>11 DEF Take
<1>12. ASSUME NEW j \in Jobs, HandlerEnds(j) PROVE StopInv'
  BY <1>12 DEF HandlerEnds
<1>13. ASSUME NEW j \in Jobs, TimesOut(j) PROVE StopInv'
  BY <1>13 DEF TimesOut
<1>14. ASSUME NEW j \in Jobs, LateReturn(j) PROVE StopInv'
  BY <1>14 DEF LateReturn
<1>15. CASE UNCHANGED queueVars
  BY <1>15 DEF queueVars
<1> QED
  BY <1>1, <1>2, <1>3, <1>4, <1>5, <1>6, <1>7, <1>8, <1>9, <1>10, <1>11, <1>12, <1>13, <1>14, <1>15
     DEF QueueNext

(* Where shutdown() waits for start(), the providers are torn down after   *)
(* every handler still within its time, unless a close() rejected or the   *)
(* drain of a failed start ran out.                                        *)
THEOREM TeardownAlwaysAfterHandlers ==
  ASSUME Early = FALSE
  PROVE  QueueSpec => []TeardownAfterHandlers
<1>1. QueueInit => StopInv
  BY AbandonInitial DEF QueueInit, StopInv, WorkOK, HeldOK, WorkersStopOK
<1>2. StopInv => TeardownAfterHandlers
  BY QueueAssumption DEF StopInv, WorkOK, WorkersStopOK, AbandonInv, QueueTypeOK, NoJobAbandoned,
     TeardownAfterHandlers, Working
<1> QED
  BY <1>1, <1>2, StopInductive, PTL DEF QueueSpec

-----------------------------------------------------------------------------
(* AMQP: NothingLost and ClosedAfterDrain.  The second speaks only of the  *)
(* time after AmqpConnection.onShutdown(); what makes it inductive is what *)
(* holds before: a delivery is out only on a consumer that consumes or     *)
(* drains, and stop() leaves no other consumer behind than those it        *)
(* drained or gave up.                                                     *)
Lettered ==
  /\ letter \in [Letters -> {"queued", "delivered", "gone"}]
  /\ requeue \in BOOLEAN

LostInv == Lettered /\ NothingLost

(* No step takes a message away but by an answer of its handler.           *)
LEMMA LostInductive == LostInv /\ [AmqpNext]_amqpVars => LostInv'
<1> SUFFICES ASSUME LostInv, [AmqpNext]_amqpVars PROVE LostInv'
  OBVIOUS
<1> USE DEF LostInv, Lettered, NothingLost
<1>1. CASE \E k \in 1..LastSub + 1 : Consume(k)
  BY <1>1 DEF Consume, brokerVars
<1>2. CASE StartSettles \/ StartRejects \/ Stop \/ StopSettled
  BY <1>2 DEF StartSettles, StartRejects, Stop, StopSettled, brokerVars
<1>3. CASE SendMessage \/ ClosePublisher \/ CloseConnection \/ Back
  BY <1>3 DEF SendMessage, ClosePublisher, CloseConnection, Back, brokerVars
<1>4. CASE Destroy \/ Lost
  BY <1>4 DEF Destroy, Lost, Requeues
<1>5. CASE \E q \in Subs : ConsumerCloses(q) \/ GivesUp(q) \/ SetUp(q)
  BY <1>5 DEF ConsumerCloses, GivesUp, SetUp, brokerVars
<1>6. ASSUME NEW m \in Letters, Deliver(m) \/ StrayEnds(m) PROVE LostInv'
  BY <1>6 DEF Deliver, StrayEnds
<1>7. ASSUME NEW m \in Letters, HandlerReturns(m) PROVE LostInv'
  BY <1>7 DEF HandlerReturns
<1>8. ASSUME NEW m \in Letters, HandlerFails(m) PROVE LostInv'
  BY <1>8 DEF HandlerFails, OnFailure
<1>9. CASE UNCHANGED amqpVars
  BY <1>9 DEF amqpVars, brokerVars
<1> QED
  BY <1>1, <1>2, <1>3, <1>4, <1>5, <1>6, <1>7, <1>8, <1>9 DEF AmqpNext

(* A message leaves the broker only by a handler that returned for it, or  *)
(* by a failure on a queue that does not requeue.                          *)
THEOREM NothingEverLost == AmqpSpec => []NothingLost
<1>1. AmqpInit => LostInv
  BY DEF AmqpInit, LostInv, Lettered, NothingLost
<1>2. LostInv => NothingLost
  BY DEF LostInv
<1> QED
  BY <1>1, <1>2, LostInductive, PTL DEF AmqpSpec

-----------------------------------------------------------------------------
AmqpTypeOK ==
  /\ letter \in [Letters -> {"queued", "delivered", "gone"}]
  /\ consumer \in [Subs -> {"none", "setup", "consuming", "closing", "closed"}]
  /\ conn \in {"none", "open", "closing", "destroyed"} /\ connClosed \in BOOLEAN
  /\ started \in {"no", "waiting", "failing", "failed", "done"}
  /\ stopped \in {"no", "draining", "done"}

(* Before start() there is no consumer; a start() that rejected has        *)
(* stopped what it opened.                                                 *)
StartOK ==
  /\ started = "no" => stopped = "no" /\ \A q \in Subs : consumer[q] = "none"
  /\ started = "failed" => stopped = "done"

(* A delivery is out on a consumer that consumes or drains.                *)
OutOK == \A m \in Letters : letter[m] = "delivered" => consumer[OnSub[m]] \in {"consuming", "closing"}

(* stop() finds every consumer there is, and settles with all of them      *)
(* closed or given up.                                                     *)
ConsumersStopOK ==
  /\ stopped = "no" => \A q \in Subs : consumer[q] # "none" => q \in consumers
  /\ stopped # "no" => \A q \in Subs : /\ consumer[q] \in {"none", "closing", "closed"}
                                       /\ consumer[q] = "closing" => q \in drains
  /\ stopped = "done" => \A q \in Subs : consumer[q] = "closing" => q \in undrained

(* The connection is closed after stop(), or where nothing was started.    *)
ClosedOK == connClosed => conn # "open" /\ (started = "no" \/ stopped = "done")

DrainInv == AmqpTypeOK /\ StartOK /\ OutOK /\ ConsumersStopOK /\ ClosedOK

(* Every step of the program and of the broker keeps it.                   *)
LEMMA DrainInductive == DrainInv /\ [AmqpNext]_amqpVars => DrainInv'
<1> SUFFICES ASSUME DrainInv, [AmqpNext]_amqpVars PROVE DrainInv'
  OBVIOUS
<1> USE AmqpAssumption DEF DrainInv, AmqpTypeOK, StartOK, OutOK, ConsumersStopOK, ClosedOK, Subs
<1>1. ASSUME NEW k \in 1..LastSub + 1, Consume(k) PROVE DrainInv'
  <2>1. stopped = "no" /\ ~connClosed /\ stopped' = "no" /\ connClosed' = FALSE
    BY <1>1 DEF Consume, Connects
  <2>2. \A m \in Letters : letter[m] # "delivered"
    BY <1>1 DEF Consume
  <2> QED
    BY <1>1, <2>1, <2>2 DEF Consume, brokerVars
<1>2. CASE StartSettles
  BY <1>2 DEF StartSettles, brokerVars
<1>3. CASE StartRejects
  BY <1>3 DEF StartRejects, brokerVars
<1>4. CASE Stop
  <2>1. stopped = "no" /\ stopped' = "draining" /\ drains' = consumers /\ started # "no"
    BY <1>4 DEF Stop
  <2>2. \A q \in Subs : consumer'[q] = IF q \in consumers THEN "closing" ELSE "none"
    BY <1>4, <2>1 DEF Stop
  <2> QED
    BY <1>4, <2>1, <2>2 DEF Stop, brokerVars
<1>5. CASE StopSettled
  BY <1>5 DEF StopSettled, brokerVars
<1>6. CASE SendMessage
  BY <1>6 DEF SendMessage, Connects, brokerVars
<1>7. CASE ClosePublisher \/ Back
  BY <1>7 DEF ClosePublisher, Back, brokerVars
<1>8. CASE CloseConnection
  BY <1>8 DEF CloseConnection, brokerVars
<1>9. CASE Destroy
  BY <1>9 DEF Destroy, Requeues
<1>10. CASE Lost
  BY <1>10 DEF Lost, Requeues
<1>11. ASSUME NEW q \in Subs, ConsumerCloses(q) PROVE DrainInv'
  BY <1>11 DEF ConsumerCloses, NothingOut, DeliveredOn, brokerVars
<1>12. ASSUME NEW q \in Subs, GivesUp(q) PROVE DrainInv'
  BY <1>12 DEF GivesUp, brokerVars
<1>13. ASSUME NEW q \in Subs, SetUp(q) PROVE DrainInv'
  BY <1>13 DEF SetUp, brokerVars
<1>14. ASSUME NEW m \in Letters, Deliver(m) PROVE DrainInv'
  BY <1>14 DEF Deliver
<1>15. ASSUME NEW m \in Letters, HandlerReturns(m) PROVE DrainInv'
  BY <1>15 DEF HandlerReturns
<1>16. ASSUME NEW m \in Letters, HandlerFails(m) PROVE DrainInv'
  BY <1>16 DEF HandlerFails, OnFailure
<1>17. ASSUME NEW m \in Letters, StrayEnds(m) PROVE DrainInv'
  BY <1>17 DEF StrayEnds
<1>18. CASE UNCHANGED amqpVars
  BY <1>18 DEF amqpVars, brokerVars
<1> QED
  BY <1>1, <1>2, <1>3, <1>4, <1>5, <1>6, <1>7, <1>8, <1>9, <1>10, <1>11, <1>12, <1>13, <1>14,
     <1>15, <1>16, <1>17, <1>18 DEF AmqpNext

(* Once the connection closes, no consumer still consumes, what is still   *)
(* out was given up by a drain, and the connection stays closed.           *)
THEOREM AlwaysClosedAfterDrain == AmqpSpec => []ClosedAfterDrain
<1>1. AmqpInit => DrainInv
  BY DEF AmqpInit, DrainInv, AmqpTypeOK, StartOK, OutOK, ConsumersStopOK, ClosedOK
<1>2. DrainInv => ClosedAfterDrain
  BY AmqpAssumption DEF DrainInv, AmqpTypeOK, StartOK, OutOK, ConsumersStopOK, ClosedOK, ClosedAfterDrain
<1> QED
  BY <1>1, <1>2, DrainInductive, PTL DEF AmqpSpec

(* Both: through broker losses, timeouts, failed starts and teardown every *)
(* message is on its queue, out, or gone by an answer, and none is out on  *)
(* a closed connection but those a drain gave up.                          *)
THEOREM DeliveriesAlwaysAccounted == AmqpSpec => []DeliveriesAccounted
BY NothingEverLost, AlwaysClosedAfterDrain, PTL DEF DeliveriesAccounted

-----------------------------------------------------------------------------
(* Server-sent events: PumpKeepsPace.  It is not inductive as it stands:   *)
(* that at most one event waits needs that a pump which asks the generator *)
(* for the next one has left none in the queue.                            *)
SseTypeOK ==
  /\ chunks \in Seq({"event", "comment"})
  /\ wanted \in BOOLEAN /\ pullDue \in BOOLEAN /\ sseClosed \in BOOLEAN
  /\ beating \in BOOLEAN /\ drained \in BOOLEAN
  /\ pump \in {"asking", "parked", "ended"}

ParkedIsWoken == pump = "parked" => ~sseClosed /\ drained /\ (chunks # <<>> \/ pullDue)

OneEvent == \A i, j \in DOMAIN chunks : chunks[i] = "event" /\ chunks[j] = "event" => i = j

AskingHasNone ==
  pump = "asking" /\ ~sseClosed => \A i \in DOMAIN chunks : chunks[i] # "event"

SseInv == SseTypeOK /\ ParkedIsWoken /\ OneEvent /\ AskingHasNone

(* What enqueue() leaves in the queue: what was there, and the chunk at    *)
(* its end unless a read took it.                                          *)
LEMMA Enqueued ==
  ASSUME NEW c \in {"event", "comment"}, SseTypeOK, Enqueue(c)
  PROVE  /\ chunks' \in Seq({"event", "comment"})
         /\ wanted' \in BOOLEAN /\ pullDue' \in BOOLEAN
         /\ \/ chunks' = chunks
            \/ /\ Len(chunks') = Len(chunks) + 1
               /\ chunks'[Len(chunks) + 1] = c
               /\ \A i \in 1..Len(chunks) : chunks'[i] = chunks[i]
         /\ chunks # <<>> => chunks' # <<>>
         /\ pullDue => pullDue'
<1>1. CASE wanted
  BY <1>1 DEF SseTypeOK, Enqueue
<1>2. CASE ~wanted
  <2>1. chunks' = Append(chunks, c) /\ wanted' = FALSE /\ pullDue' = pullDue
    BY <1>2 DEF Enqueue, SseTypeOK
  <2>2. chunks \in Seq({"event", "comment"})
    BY DEF SseTypeOK
  <2>3. /\ chunks' \in Seq({"event", "comment"})
        /\ Len(chunks') = Len(chunks) + 1
        /\ chunks'[Len(chunks) + 1] = c
        /\ \A i \in 1..Len(chunks) : chunks'[i] = chunks[i]
    BY <2>1, <2>2
  <2>4. chunks' # <<>>
    BY <2>2, <2>3
  <2> QED
    BY <2>1, <2>3, <2>4 DEF SseTypeOK
<1> QED
  BY <1>1, <1>2 DEF SseTypeOK

(* A read shifts the queue by one.                                         *)
LEMMA TailOf ==
  ASSUME SseTypeOK, chunks # <<>>
  PROVE  /\ Tail(chunks) \in Seq({"event", "comment"})
         /\ Len(Tail(chunks)) = Len(chunks) - 1
         /\ Len(chunks) > 0
         /\ \A i \in 1..Len(Tail(chunks)) : Tail(chunks)[i] = chunks[i + 1]
BY DEF SseTypeOK

(* Every step of the stream keeps it.                                      *)
LEMMA SseInductive == SseInv /\ [SseNext]_sseVars => SseInv'
<1> SUFFICES ASSUME SseInv, [SseNext]_sseVars PROVE SseInv'
  OBVIOUS
<1> USE DEF SseInv
<1> DOMAIN chunks = 1..Len(chunks) /\ Len(chunks) \in Nat
  BY DEF SseTypeOK
<1>1. CASE Sends
  <2>1. Enqueue("event")
    BY <1>1 DEF Sends
  <2>2. chunks' \in Seq({"event", "comment"}) /\ DOMAIN chunks' = 1..Len(chunks') /\ Len(chunks') \in Nat
    BY <2>1, Enqueued
  <2>3. SseTypeOK'
    <3>1. drained' \in BOOLEAN /\ pump' \in {"asking", "parked", "ended"}
      BY <1>1 DEF Sends, Parks
    <3> QED
      BY <1>1, <2>1, <3>1, Enqueued DEF Sends, SseTypeOK
  <2>4. ParkedIsWoken'
    <3> SUFFICES ASSUME pump' = "parked" PROVE ~sseClosed' /\ drained' /\ chunks' # <<>>
      BY DEF ParkedIsWoken
    <3>1. Len(chunks') >= 1
      BY <1>1 DEF Sends, Parks
    <3>2. drained'
      BY <1>1, <3>1 DEF Sends, Parks
    <3>3. chunks' # <<>>
      BY <2>2, <3>1
    <3> QED
      BY <1>1, <3>2, <3>3 DEF Sends
  <2>5. OneEvent'
    <3>1. \A i \in 1..Len(chunks) : chunks[i] # "event"
      BY <1>1 DEF Sends, AskingHasNone
    <3> SUFFICES ASSUME NEW i \in 1..Len(chunks'), NEW j \in 1..Len(chunks'),
                        chunks'[i] = "event", chunks'[j] = "event"
                 PROVE  i = j
      BY <2>2 DEF OneEvent
    <3>2. CASE chunks' = chunks
      BY <3>1, <3>2
    <3>3. CASE /\ Len(chunks') = Len(chunks) + 1
               /\ \A k \in 1..Len(chunks) : chunks'[k] = chunks[k]
      <4>1. \A k \in 1..Len(chunks') : k \in 1..Len(chunks) \/ k = Len(chunks) + 1
        BY <3>3
      <4> QED
        BY <3>1, <3>3, <4>1
    <3> QED
      BY <2>1, <3>2, <3>3, Enqueued
  <2>6. AskingHasNone'
    BY <1>1, <2>2 DEF Sends, AskingHasNone, Parks
  <2> QED
    BY <2>3, <2>4, <2>5, <2>6
<1>2. CASE Heartbeat
  <2>1. Enqueue("comment")
    BY <1>2 DEF Heartbeat
  <2>2. chunks' \in Seq({"event", "comment"}) /\ DOMAIN chunks' = 1..Len(chunks') /\ Len(chunks') \in Nat
    BY <2>1, Enqueued
  <2>3. SseTypeOK'
    BY <1>2, <2>1, Enqueued DEF Heartbeat, SseTypeOK
  <2>4. ParkedIsWoken'
    BY <1>2, <2>1, Enqueued DEF Heartbeat, ParkedIsWoken
  <2>5. \A i \in 1..Len(chunks') : chunks'[i] = "event" => i \in 1..Len(chunks) /\ chunks[i] = "event"
    <3>1. CASE chunks' = chunks
      BY <3>1
    <3>2. CASE /\ Len(chunks') = Len(chunks) + 1
               /\ chunks'[Len(chunks) + 1] = "comment"
               /\ \A k \in 1..Len(chunks) : chunks'[k] = chunks[k]
      <4>1. \A k \in 1..Len(chunks') : k \in 1..Len(chunks) \/ k = Len(chunks) + 1
        BY <3>2
      <4> QED
        BY <3>2, <4>1
    <3> QED
      BY <2>1, <3>1, <3>2, Enqueued
  <2>6. OneEvent' /\ AskingHasNone'
    BY <1>2, <2>2, <2>5 DEF Heartbeat, OneEvent, AskingHasNone
  <2> QED
    BY <2>3, <2>4, <2>6
<1>3. CASE Read
  <2>1. CASE chunks = <<>>
    BY <1>3, <2>1 DEF Read, SseTypeOK, ParkedIsWoken, OneEvent, AskingHasNone
  <2>2. CASE chunks # <<>>
    <3>1. /\ chunks' = Tail(chunks) /\ wanted' = wanted
          /\ pullDue' = (pullDue \/ (Tail(chunks) = <<>> /\ ~sseClosed))
          /\ UNCHANGED <<sseClosed, beating, drained, pump>>
      BY <1>3, <2>2 DEF Read
    <3>2. SseTypeOK'
      BY <2>2, <3>1, TailOf DEF SseTypeOK
    <3>3. ParkedIsWoken'
      BY <3>1 DEF ParkedIsWoken
    <3>4. DOMAIN chunks' = 1..Len(chunks')
      BY <3>2 DEF SseTypeOK
    <3>5. OneEvent' /\ AskingHasNone'
      BY <2>2, <3>1, <3>4, TailOf DEF OneEvent, AskingHasNone
    <3> QED
      BY <3>2, <3>3, <3>5
  <2> QED
    BY <2>1, <2>2
<1>4. CASE Pull
  <2>1. SseTypeOK'
    BY <1>4 DEF Pull, SseTypeOK
  <2>2. ParkedIsWoken'
    BY <1>4 DEF Pull, ParkedIsWoken, SseTypeOK
  <2>3. OneEvent'
    BY <1>4 DEF Pull, OneEvent
  <2>4. AskingHasNone'
    <3>1. CASE chunks = <<>>
      BY <1>4, <3>1 DEF Pull, AskingHasNone
    <3>2. CASE chunks # <<>>
      BY <1>4, <3>2 DEF Pull, AskingHasNone
    <3> QED
      BY <3>1, <3>2
  <2> QED
    BY <2>1, <2>2, <2>3, <2>4
<1>5. CASE Cancel
  <2>1. chunks' = <<>> /\ sseClosed'
    BY <1>5 DEF Cancel, SseStop
  <2>2. SseTypeOK'
    <3>1. chunks' \in Seq({"event", "comment"})
      BY <2>1
    <3>2. pump' \in {"asking", "parked", "ended"}
      BY <1>5 DEF Cancel, SseStop, SseTypeOK
    <3> QED
      BY <1>5, <3>1, <3>2 DEF Cancel, SseStop, SseTypeOK
  <2>3. pump' # "parked"
    BY <1>5 DEF Cancel, SseStop, ParkedIsWoken
  <2> QED
    BY <2>1, <2>2, <2>3 DEF ParkedIsWoken, OneEvent, AskingHasNone
<1>6. CASE Breaks \/ PumpEnds
  BY <1>6 DEF Breaks, PumpEnds, SseTypeOK, ParkedIsWoken, OneEvent, AskingHasNone
<1>7. CASE UNCHANGED sseVars
  BY <1>7 DEF sseVars, SseTypeOK, ParkedIsWoken, OneEvent, AskingHasNone
<1> QED
  BY <1>1, <1>2, <1>3, <1>4, <1>5, <1>6, <1>7 DEF SseNext

(* A parked pump is always woken by something still to come, and at most   *)
(* one event waits for the client, whatever the queue may grow to.         *)
THEOREM PumpAlwaysKeepsPace == SseSpec => []PumpKeepsPace
<1>1. SseInit => SseInv
  <2> SUFFICES ASSUME SseInit PROVE SseInv
    OBVIOUS
  <2>1. chunks = <<"comment">> /\ pump = "asking"
    BY DEF SseInit
  <2>2. SseTypeOK
    <3>1. chunks \in Seq({"event", "comment"})
      BY <2>1
    <3> QED
      BY <3>1 DEF SseInit, SseTypeOK
  <2>3. \A i \in DOMAIN chunks : chunks[i] = "comment"
    BY <2>1
  <2> QED
    BY <2>1, <2>2, <2>3 DEF SseInv, ParkedIsWoken, OneEvent, AskingHasNone
<1>2. SseInv => PumpKeepsPace
  BY DEF SseInv, ParkedIsWoken, OneEvent, PumpKeepsPace
<1> QED
  BY <1>1, <1>2, SseInductive, PTL DEF SseSpec

-----------------------------------------------------------------------------
(* Schedules: StoppedNeverFires, for records of every kind and overlap.    *)
ScheduleTypeOK ==
  /\ place \in [Armed -> {"new", "held", "gone"}]
  /\ handle \subseteq Armed /\ finished \subseteq Armed
  /\ fired \in [Armed -> Nat] /\ called \in [Armed -> Nat]

(* A handle that can still fire belongs to a record that is not finished,  *)
(* and a record is finished before it leaves #armed.                       *)
HandlesLive ==
  \A a \in Armed :
    /\ ~(a \in handle /\ a \in finished)
    /\ place[a] = "new" => a \notin handle /\ a \notin finished
    /\ place[a] = "gone" => a \in finished

ScheduleInv == ScheduleTypeOK /\ HandlesLive

(* No step of the registry or the runner arms a finished record again.     *)
LEMMA ScheduleInductive == ScheduleInv /\ [ScheduleNext]_scheduleVars => ScheduleInv'
<1> SUFFICES ASSUME ScheduleInv, [ScheduleNext]_scheduleVars PROVE ScheduleInv'
  OBVIOUS
<1> USE DEF ScheduleInv, ScheduleTypeOK, HandlesLive
<1>1. ASSUME NEW a \in Armed, Add(a) PROVE ScheduleInv'
  BY <1>1 DEF Add
<1>2. ASSUME NEW a \in Armed, Remove(a) PROVE ScheduleInv'
  BY <1>2 DEF Remove, Disarms, Held
<1>3. ASSUME NEW a \in Armed, Fire(a) \/ FireSkipped(a) PROVE ScheduleInv'
  <2>1. /\ place' = place /\ called' = called /\ fired' \in [Armed -> Nat]
        /\ handle' \in {handle, handle \ {a}}
        /\ finished' \in {finished, finished \cup {a}}
        /\ finished' = finished \/ handle' = handle \ {a}
        /\ a \in handle
    BY <1>3 DEF Fire, FireSkipped, Due, Spends
  <2> QED BY <2>1
<1>4. ASSUME NEW a \in Armed, Trigger(a) \/ SettleCalled(a) \/ SettleFired(a)
      PROVE  ScheduleInv'
  <2>1. /\ place' = place /\ handle' = handle /\ finished' = finished
        /\ fired' \in [Armed -> Nat] /\ called' \in [Armed -> Nat]
    BY <1>4 DEF Trigger, SettleCalled, SettleFired
  <2> QED BY <2>1
<1>5. CASE StopAll
  BY <1>5 DEF StopAll, Disarms, Held
<1>6. CASE Drained \/ Deadline \/ UNCHANGED scheduleVars
  BY <1>6 DEF Drained, Deadline, scheduleVars
<1> QED BY <1>1, <1>2, <1>3, <1>4, <1>5, <1>6 DEF ScheduleNext

(* The registry starts with nothing armed, and stays in ScheduleInv.       *)
LEMMA ScheduleInvAlways == ScheduleSpec => []ScheduleInv
<1>1. ScheduleInit => ScheduleInv
  BY DEF ScheduleInit, ScheduleInv, ScheduleTypeOK, HandlesLive
<1> QED BY <1>1, ScheduleInductive, PTL DEF ScheduleSpec

(* A schedule that was removed, or was held when the runner stopped, never *)
(* starts another run from its handle: remove() and stopAll() disarm it    *)
(* and nothing arms it again.                                              *)
THEOREM StoppedAlwaysSilent == ScheduleSpec => StoppedNeverFires
<1> DEFINE Silent == \A a \in Armed :
                       (place[a] = "gone" \/ (phase # "up" /\ a \in finished))
                         => fired'[a] <= fired[a]
<1>1. ASSUME ScheduleInv, ScheduleInv', [ScheduleNext]_scheduleVars
      PROVE  Silent
  <2> SUFFICES ASSUME NEW a \in Armed, a \in finished PROVE fired'[a] <= fired[a]
    BY <1>1 DEF ScheduleInv, HandlesLive
  <2>1. a \notin handle /\ fired[a] \in Nat /\ fired \in [Armed -> Nat]
    BY <1>1 DEF ScheduleInv, HandlesLive, ScheduleTypeOK
  <2>2. ASSUME NEW b \in Armed, Fire(b) PROVE fired'[a] = fired[a]
    BY <2>1, <2>2 DEF Fire, Due
  <2>3. ASSUME NEW b \in Armed, SettleFired(b) PROVE fired'[a] <= fired[a]
    BY <2>1, <2>3 DEF SettleFired
  <2>4. ASSUME NEW b \in Armed,
               Add(b) \/ Remove(b) \/ FireSkipped(b) \/ Trigger(b) \/ SettleCalled(b)
        PROVE  fired' = fired
    BY <2>4 DEF Add, Remove, FireSkipped, Trigger, SettleCalled
  <2>5. CASE StopAll \/ Drained \/ Deadline \/ UNCHANGED scheduleVars
    BY <2>1, <2>5 DEF StopAll, Drained, Deadline, scheduleVars
  <2> QED BY <1>1, <2>1, <2>2, <2>3, <2>4, <2>5 DEF ScheduleNext
<1>2. ScheduleInv /\ ScheduleInv' /\ [ScheduleNext]_scheduleVars => [Silent]_scheduleVars
  BY <1>1
<1> QED BY <1>2, ScheduleInvAlways, PTL DEF ScheduleSpec, StoppedNeverFires

(* Under skip a record has a run in flight exactly while it is running.    *)
SkipsInv ==
  /\ fired \in [Armed -> Nat] /\ called \in [Armed -> Nat]
  /\ \A a \in Armed : Overlap[a] = "skip" =>
       /\ fired[a] + called[a] <= 1
       /\ fired[a] + called[a] = 1 <=> a \in running

(* A run starts only when none is in flight, and clears the flag it set.   *)
LEMMA SkipsInductive == SkipsInv /\ [ScheduleNext]_scheduleVars => SkipsInv'
<1> SUFFICES ASSUME SkipsInv, [ScheduleNext]_scheduleVars PROVE SkipsInv'
  OBVIOUS
<1> USE DEF SkipsInv
<1>1. ASSUME NEW a \in Armed, Fire(a) PROVE SkipsInv'
  <2>0. Overlap[a] = "skip" => a \notin running
    BY <1>1 DEF Fire, MayStart, Skips
  <2>1. CASE RunsOn(a) /\ fired' = [fired EXCEPT ![a] = @ + 1]
    BY <1>1, <2>0, <2>1 DEF Fire, RunsOn
  <2>2. CASE Settles(a) /\ UNCHANGED fired
    BY <1>1, <2>0, <2>2 DEF Fire, Settles
  <2> QED BY <1>1, <2>1, <2>2 DEF Fire
<1>2. ASSUME NEW a \in Armed, Trigger(a) PROVE SkipsInv'
  <2>0. Overlap[a] = "skip" => a \notin running
    BY <1>2 DEF Trigger, MayStart, Skips
  <2>1. CASE RunsOn(a) /\ called' = [called EXCEPT ![a] = @ + 1]
    BY <1>2, <2>0, <2>1 DEF Trigger, RunsOn
  <2>2. CASE Settles(a) /\ UNCHANGED called
    BY <1>2, <2>0, <2>2 DEF Trigger, Settles
  <2> QED BY <1>2, <2>1, <2>2 DEF Trigger
<1>3. ASSUME NEW a \in Armed, SettleCalled(a) PROVE SkipsInv'
  BY <1>3 DEF SettleCalled, Settles
<1>4. ASSUME NEW a \in Armed, SettleFired(a) PROVE SkipsInv'
  BY <1>4 DEF SettleFired, Settles
<1>5. ASSUME NEW a \in Armed, Add(a) \/ Remove(a) \/ FireSkipped(a) PROVE SkipsInv'
  BY <1>5 DEF Add, Remove, FireSkipped
<1>6. CASE StopAll \/ Drained \/ Deadline \/ UNCHANGED scheduleVars
  BY <1>6 DEF StopAll, Drained, Deadline, scheduleVars
<1> QED BY <1>1, <1>2, <1>3, <1>4, <1>5, <1>6 DEF ScheduleNext

(* A drain that ends before its deadline leaves no run of a held schedule  *)
(* in flight, whether its handle or a caller's trigger() started it, when  *)
(* every schedule skips overlapping runs: one flag cannot account for the  *)
(* concurrent ones.                                                        *)
THEOREM DrainAlwaysWaitsOut ==
  ASSUME \A a \in Armed : Overlap[a] = "skip"
  PROVE  ScheduleSpec => DrainWaitsOut
<1> DEFINE WaitsOut == /\ phase = "draining" /\ phase' = "drained" => \A a \in Held : Active(a) = 0
                     /\ \A a \in Armed : Overlap[a] = "skip" => fired'[a] + called'[a] <= 1
<1>1. ScheduleInit => SkipsInv
  BY DEF ScheduleInit, SkipsInv
<1>2. ASSUME SkipsInv, SkipsInv', [ScheduleNext]_scheduleVars
      PROVE  WaitsOut
  <2>1. \A a \in Armed : Overlap[a] = "skip" => fired'[a] + called'[a] <= 1
    BY <1>2 DEF SkipsInv
  <2>2. ASSUME phase = "draining", phase' = "drained", NEW a \in Held
        PROVE  Active(a) = 0
    <3>1. Drained
      <4>1. ASSUME NEW b \in Armed,
                   \/ Add(b) \/ Remove(b) \/ Fire(b) \/ FireSkipped(b)
                   \/ Trigger(b) \/ SettleCalled(b) \/ SettleFired(b)
            PROVE  phase' = phase
        BY <4>1 DEF Add, Remove, Fire, FireSkipped, Trigger, SettleCalled, SettleFired
      <4>2. StopAll \/ Deadline \/ UNCHANGED scheduleVars => FALSE
        BY <2>2 DEF StopAll, Deadline, scheduleVars
      <4> QED BY <1>2, <2>2, <4>1, <4>2 DEF ScheduleNext
    <3>2. a \in Armed /\ a \notin running
      BY <2>2, <3>1 DEF Drained, InFlight, Held
    <3>3. fired[a] \in Nat /\ called[a] \in Nat /\ fired[a] + called[a] # 1
          /\ fired[a] + called[a] <= 1
      BY <1>2, <3>2 DEF SkipsInv
    <3> QED BY <3>3 DEF Active
  <2> QED BY <2>1, <2>2
<1>3. SkipsInv /\ SkipsInv' /\ [ScheduleNext]_scheduleVars => [WaitsOut]_scheduleVars
  BY <1>2
<1> QED BY <1>1, <1>3, SkipsInductive, PTL DEF ScheduleSpec, DrainWaitsOut

-----------------------------------------------------------------------------
(* The relay: NoClientLeaked and DeliveredOnce.                            *)
RelayTypeOK ==
  /\ server \in [Nodes -> BOOLEAN] /\ relaying \in [Nodes -> BOOLEAN]
  /\ timer \in [Nodes -> BOOLEAN]
  /\ attempt \in [Nodes -> [stage : {"idle", "connecting", "subscribing", "subscribed"},
                            client : Clients \cup {NoClient}]]
  /\ pub \in [Nodes -> Clients \cup {NoClient}] /\ sub \in [Nodes -> Clients \cup {NoClient}]
  /\ releasing \in [Nodes -> Clients \cup {NoClient}] /\ channel \in [Nodes -> BOOLEAN]
  /\ opened \subseteq Nodes \X Clients /\ listening \subseteq Nodes \X Clients
  /\ ended \subseteq Nodes

(* The clients of a node are the ones it holds: its publisher and its      *)
(* subscriber, which differ, or after close() the one it unsubscribes.     *)
HoldsClients(n) ==
  /\ \A c \in Clients : <<n, c>> \in opened => c \in {pub[n], sub[n], releasing[n]}
  /\ pub[n] # NoClient => <<n, pub[n]>> \in opened
  /\ sub[n] # NoClient => <<n, sub[n]>> \in opened /\ pub[n] # sub[n]
  /\ n \notin ended => releasing[n] = NoClient
  /\ n \in ended => /\ pub[n] = NoClient /\ sub[n] = NoClient
                    /\ timer[n] = FALSE /\ server[n] = FALSE /\ relaying[n] = FALSE

(* Only the subscriber listens, and an attempt that can still make a       *)
(* client listen is about the subscriber.                                  *)
OnlySubListens(n) ==
  /\ \A c \in Clients : <<n, c>> \in listening => c \in {sub[n], releasing[n]}
  /\ (attempt[n].stage # "idle" /\ <<n, attempt[n].client>> \in opened)
       => attempt[n].client \in {sub[n], releasing[n]}

(* A publish under way has an author and went out on a client.             *)
SendingOK ==
  /\ author \in [Messages -> Nodes \cup {NoClient}]
  /\ via \in [Messages -> Clients \cup {NoClient}]
  /\ sending \in [Messages -> {"no", "sent", "accepted", "over"}]
  /\ \A m \in Messages : sending[m] # "no" => author[m] \in Nodes
  /\ \A m \in Messages : sending[m] \in {"sent", "accepted"} => via[m] \in Clients

ClientInv ==
  /\ RelayTypeOK /\ SendingOK
  /\ \A n \in Nodes : HoldsClients(n) /\ OnlySubListens(n)

(* A client is made only where there is none, and is one nothing of the    *)
(* node refers to.                                                         *)
LEMMA OrNewOK ==
  ASSUME NEW n \in Nodes, NEW here \in Clients \cup {NoClient},
         here # NoClient \/ Unused(n) # {}
  PROVE  /\ OrNew(n, here) \in Clients
         /\ here # NoClient => OrNew(n, here) = here
         /\ here = NoClient => /\ <<n, OrNew(n, here)>> \notin opened
                               /\ attempt[n].client # OrNew(n, here)
BY DEF OrNew, Unused

(* What making or reusing the subscriber does to the node's clients.       *)
LEMMA SubscribesOK ==
  ASSUME NEW n \in Nodes, ClientInv, Subscribes(n), n \notin ended,
         UNCHANGED <<pub, releasing, listening, ended>>,
         timer' \in [Nodes -> BOOLEAN], server' \in [Nodes -> BOOLEAN],
         relaying' \in [Nodes -> BOOLEAN],
         \A k \in Nodes : k # n => timer'[k] = timer[k] /\ server'[k] = server[k]
                                   /\ relaying'[k] = relaying[k]
  PROVE  /\ sub' \in [Nodes -> Clients \cup {NoClient}]
         /\ attempt' \in [Nodes -> [stage : {"idle", "connecting", "subscribing", "subscribed"},
                                    client : Clients \cup {NoClient}]]
         /\ opened' \subseteq Nodes \X Clients
         /\ \A k \in Nodes : HoldsClients(k)' /\ OnlySubListens(k)'
<1> USE RelayAssumption DEF ClientInv, RelayTypeOK
<1>1. sub[n] # NoClient \/ Unused(n) # {}
  BY DEF Subscribes
<1>2. PICK c \in Clients : c = OrNew(n, sub[n])
  BY <1>1, OrNewOK
<1>3. /\ sub' = [sub EXCEPT ![n] = c] /\ opened' = opened \cup {<<n, c>>}
      /\ attempt' = [attempt EXCEPT ![n] = [stage |-> "connecting", client |-> c]]
  BY <1>2 DEF Subscribes
<1>4. sub[n] = c \/ (sub[n] = NoClient /\ <<n, c>> \notin opened)
  BY <1>1, <1>2, OrNewOK
<1>5. /\ sub' \in [Nodes -> Clients \cup {NoClient}]
      /\ attempt' \in [Nodes -> [stage : {"idle", "connecting", "subscribing", "subscribed"},
                                 client : Clients \cup {NoClient}]]
      /\ opened' \subseteq Nodes \X Clients
  BY <1>3
<1>6. ASSUME NEW k \in Nodes PROVE HoldsClients(k)'
  <2>1. CASE k = n
    BY <1>3, <1>4, <2>1 DEF HoldsClients
  <2>2. CASE k # n
    BY <1>3, <2>2 DEF HoldsClients
  <2> QED BY <2>1, <2>2
<1>7. ASSUME NEW k \in Nodes PROVE OnlySubListens(k)'
  <2>1. CASE k = n
    <3>1. sub'[n] = c /\ attempt'[n].client = c
      BY <1>3
    <3>2. \A d \in Clients : <<n, d>> \in listening => d \in {c, releasing[n]}
      <4>1. \A d \in Clients : <<n, d>> \in listening => d = sub[n] \/ d = releasing[n]
        BY DEF OnlySubListens
      <4>2. NoClient \notin Clients
        OBVIOUS
      <4> HIDE DEF ClientInv
      <4> QED BY <1>4, <4>1, <4>2
    <3> QED BY <2>1, <3>1, <3>2 DEF OnlySubListens
  <2>2. CASE k # n
    BY <1>3, <2>2 DEF OnlySubListens
  <2> QED BY <2>1, <2>2
<1> QED BY <1>5, <1>6, <1>7

(* What a node holds, and who listens, through every step.                 *)
LEMMA ClientInductive == ClientInv /\ [RelayNext]_relayVars => ClientInv'
<1> SUFFICES ASSUME ClientInv, [RelayNext]_relayVars PROVE ClientInv'
  OBVIOUS
<1> USE RelayAssumption DEF ClientInv
<1>1. ASSUME NEW n \in Nodes, RelayThrough(n) PROVE ClientInv'
  <2>1. /\ server' \in [Nodes -> BOOLEAN] /\ relaying' \in [Nodes -> BOOLEAN]
        /\ timer' \in [Nodes -> BOOLEAN]
        /\ \A k \in Nodes : k # n => timer'[k] = timer[k] /\ server'[k] = server[k]
                                     /\ relaying'[k] = relaying[k]
    BY <1>1 DEF RelayThrough, RelayTypeOK
  <2>2. Subscribes(n) /\ n \notin ended /\ UNCHANGED <<pub, releasing, listening, ended>>
    BY <1>1 DEF RelayThrough
  <2>3. UNCHANGED <<pub, channel, releasing, listening, author, sending, via, ended>>
    BY <1>1 DEF RelayThrough, frameVars
  <2>4. RelayTypeOK' /\ \A k \in Nodes : HoldsClients(k)' /\ OnlySubListens(k)'
    BY <2>1, <2>2, <2>3, SubscribesOK DEF RelayTypeOK
  <2> QED BY <2>3, <2>4 DEF SendingOK
<1>2. ASSUME NEW n \in Nodes, TimerFires(n) PROVE ClientInv'
  <2>1. /\ server' \in [Nodes -> BOOLEAN] /\ relaying' \in [Nodes -> BOOLEAN]
        /\ timer' \in [Nodes -> BOOLEAN]
        /\ \A k \in Nodes : k # n => timer'[k] = timer[k] /\ server'[k] = server[k]
                                     /\ relaying'[k] = relaying[k]
    BY <1>2 DEF TimerFires, RelayTypeOK
  <2>2. timer[n] # FALSE /\ n \notin ended
    BY <1>2 DEF TimerFires, HoldsClients
  <2>3. UNCHANGED <<server, relaying, pub, channel, releasing, listening, author, sending,
                    via, ended>>
    BY <1>2 DEF TimerFires, frameVars
  <2>4. CASE Subscribes(n)
    <3>1. RelayTypeOK' /\ \A k \in Nodes : HoldsClients(k)' /\ OnlySubListens(k)'
      BY <2>1, <2>2, <2>3, <2>4, SubscribesOK DEF RelayTypeOK
    <3> QED BY <2>3, <3>1 DEF SendingOK
  <2>5. CASE UNCHANGED <<sub, opened, attempt>>
    BY <2>1, <2>2, <2>3, <2>5 DEF RelayTypeOK, SendingOK, HoldsClients, OnlySubListens
  <2> QED BY <1>2, <2>4, <2>5 DEF TimerFires
<1>3. ASSUME NEW n \in Nodes, Connected(n) PROVE ClientInv'
  <2>1. UNCHANGED <<server, relaying, timer, pub, sub, channel, releasing, opened, listening,
                    author, sending, via, ended>>
    BY <1>3 DEF Connected, clientVars, frameVars
  <2>2. /\ attempt' = [attempt EXCEPT ![n].stage = "subscribing"]
        /\ attempt[n].stage # "idle"
    BY <1>3 DEF Connected
  <2>3. \A k \in Nodes : attempt'[k].client = attempt[k].client
                         /\ (attempt'[k].stage # "idle" => attempt[k].stage # "idle")
    BY <2>2 DEF RelayTypeOK
  <2>4. RelayTypeOK'
    BY <2>1, <2>2 DEF RelayTypeOK
  <2> QED BY <2>1, <2>3, <2>4 DEF SendingOK, HoldsClients, OnlySubListens
<1>4. ASSUME NEW n \in Nodes, BrokerSubscribes(n) PROVE ClientInv'
  <2>1. UNCHANGED <<server, relaying, timer, pub, sub, channel, releasing, opened,
                    author, sending, via, ended>>
    BY <1>4 DEF BrokerSubscribes, frameVars
  <2>2. PICK c \in Clients : c = attempt[n].client /\ <<n, c>> \in opened
    BY <1>4 DEF BrokerSubscribes, RelayTypeOK
  <2>3. /\ attempt' = [attempt EXCEPT ![n].stage = "subscribed"]
        /\ attempt[n].stage # "idle" /\ listening' = listening \cup {<<n, c>>}
    BY <1>4, <2>2 DEF BrokerSubscribes
  <2>4. \A k \in Nodes : attempt'[k].client = attempt[k].client
                         /\ (attempt'[k].stage # "idle" => attempt[k].stage # "idle")
    BY <2>3 DEF RelayTypeOK
  <2>5. RelayTypeOK'
    BY <2>1, <2>3 DEF RelayTypeOK
  <2>6. c \in {sub[n], releasing[n]}
    BY <2>2, <2>3 DEF OnlySubListens
  <2>7. ASSUME NEW k \in Nodes PROVE OnlySubListens(k)'
    BY <2>1, <2>3, <2>4, <2>6 DEF OnlySubListens
  <2> QED BY <2>1, <2>5, <2>7 DEF SendingOK, HoldsClients
<1>5. ASSUME NEW n \in Nodes, SubscribeResolves(n) PROVE ClientInv'
  <2>1. UNCHANGED <<server, relaying, timer, pub, sub, releasing, opened, listening,
                    author, sending, via, ended>>
    BY <1>5 DEF SubscribeResolves, frameVars
  <2>2. /\ attempt' = [attempt EXCEPT ![n] = Idle]
        /\ channel' = [channel EXCEPT ![n] = TRUE]
    BY <1>5 DEF SubscribeResolves
  <2>3. \A k \in Nodes : attempt'[k].stage # "idle" => attempt'[k] = attempt[k]
    BY <2>2 DEF RelayTypeOK, Idle
  <2>4. RelayTypeOK'
    BY <2>1, <2>2 DEF RelayTypeOK, Idle
  <2>5. ASSUME NEW k \in Nodes PROVE OnlySubListens(k)'
    BY <2>1, <2>3 DEF OnlySubListens
  <2> QED BY <2>1, <2>4, <2>5 DEF SendingOK, HoldsClients
<1>6. ASSUME NEW n \in Nodes, SubscribeRejects(n) PROVE ClientInv'
  <2>1. UNCHANGED <<server, relaying, pub, channel, releasing, author, sending, via, ended>>
    BY <1>6 DEF SubscribeRejects, frameVars
  <2>2. PICK c \in Clients \cup {NoClient} : c = attempt[n].client
    BY DEF RelayTypeOK
  <2>3. attempt' = [attempt EXCEPT ![n] = Idle]
    BY <1>6 DEF SubscribeRejects
  <2>4. /\ timer' \in [Nodes -> BOOLEAN]
        /\ \A k \in Nodes : timer'[k] # timer[k] => relaying[k] # FALSE
    BY <1>6 DEF SubscribeRejects, RelayTypeOK
  <2>5. \A k \in Nodes : attempt'[k].stage # "idle" => attempt'[k] = attempt[k]
    BY <2>3 DEF RelayTypeOK, Idle
  <2>6. attempt' \in [Nodes -> [stage : {"idle", "connecting", "subscribing", "subscribed"},
                                client : Clients \cup {NoClient}]]
    BY <2>3 DEF RelayTypeOK, Idle
  <2>7. CASE sub[n] = c
    <3>1. /\ sub' = [sub EXCEPT ![n] = NoClient] /\ opened' = opened \ {<<n, c>>}
          /\ listening' = listening \ {<<n, c>>}
      BY <1>6, <2>2, <2>7 DEF SubscribeRejects, Discarded
    <3>2. RelayTypeOK'
      BY <2>1, <2>4, <2>6, <3>1 DEF RelayTypeOK
    <3>3. ASSUME NEW k \in Nodes PROVE HoldsClients(k)'
      BY <2>1, <2>4, <2>7, <3>1 DEF HoldsClients, RelayTypeOK
    <3>4. ASSUME NEW k \in Nodes PROVE OnlySubListens(k)'
      BY <2>1, <2>5, <2>7, <3>1 DEF OnlySubListens, RelayTypeOK
    <3> QED BY <2>1, <3>2, <3>3, <3>4 DEF SendingOK
  <2>8. CASE sub[n] # c
    <3>1. UNCHANGED <<sub, opened, listening>>
      BY <1>6, <2>2, <2>8 DEF SubscribeRejects, Discarded, RelayTypeOK
    <3>2. RelayTypeOK'
      BY <2>1, <2>4, <2>6, <3>1 DEF RelayTypeOK
    <3>3. ASSUME NEW k \in Nodes PROVE HoldsClients(k)'
      BY <2>1, <2>4, <3>1 DEF HoldsClients
    <3>4. ASSUME NEW k \in Nodes PROVE OnlySubListens(k)'
      BY <2>1, <2>5, <3>1 DEF OnlySubListens
    <3> QED BY <2>1, <3>2, <3>3, <3>4 DEF SendingOK
  <2> QED BY <2>7, <2>8
<1>7. ASSUME NEW n \in Nodes, Close(n) PROVE ClientInv'
  <2>1. UNCHANGED <<attempt, author, sending, via>> /\ n \notin ended
        /\ ended' = ended \cup {n}
    BY <1>7 DEF Close, frameVars
  <2>2. /\ pub' = [pub EXCEPT ![n] = NoClient] /\ sub' = [sub EXCEPT ![n] = NoClient]
        /\ timer' = [timer EXCEPT ![n] = FALSE] /\ server' = [server EXCEPT ![n] = FALSE]
        /\ relaying' = [relaying EXCEPT ![n] = FALSE] /\ channel' = [channel EXCEPT ![n] = FALSE]
    BY <1>7 DEF Close, LetsGo
  <2>3. /\ releasing' = [releasing EXCEPT ![n] = IF channel[n] THEN sub[n] ELSE NoClient]
        /\ opened' = opened \ ShutsAtOnce(n) /\ listening' = listening \ ShutsAtOnce(n)
    BY <1>7 DEF Close
  <2>4. RelayTypeOK'
    BY <2>1, <2>2, <2>3 DEF RelayTypeOK
  <2>5. releasing[n] = NoClient /\ pub[n] \in Clients \cup {NoClient}
    BY <2>1 DEF HoldsClients, RelayTypeOK
  <2>6. \A c \in Clients :
          /\ <<n, c>> \in opened' => releasing'[n] = c
          /\ <<n, c>> \in listening' => releasing'[n] = c
    <3>1. ASSUME NEW c \in Clients, <<n, c>> \in opened' \/ <<n, c>> \in listening'
          PROVE  releasing'[n] = c
      <4>1. c \in {pub[n], sub[n], releasing[n]} /\ <<n, c>> \notin ShutsAtOnce(n)
        BY <2>3, <3>1 DEF HoldsClients, OnlySubListens
      <4>2. c = sub[n] /\ channel[n]
        BY <2>5, <4>1 DEF ShutsAtOnce
      <4> QED BY <2>3, <4>2 DEF RelayTypeOK
    <3> QED BY <3>1
  <2>7. \A k \in Nodes : k # n =>
          /\ releasing'[k] = releasing[k]
          /\ \A c \in Clients \cup {NoClient} :
               /\ <<k, c>> \in opened' <=> <<k, c>> \in opened
               /\ <<k, c>> \in listening' <=> <<k, c>> \in listening
    BY <2>3 DEF ShutsAtOnce, RelayTypeOK
  <2>8. ASSUME NEW k \in Nodes PROVE HoldsClients(k)'
    <3>1. CASE k = n
      BY <2>1, <2>2, <2>6, <3>1 DEF HoldsClients, RelayTypeOK
    <3>2. CASE k # n
      BY <2>1, <2>2, <2>7, <3>2 DEF HoldsClients, RelayTypeOK
    <3> QED BY <3>1, <3>2
  <2>9. ASSUME NEW k \in Nodes PROVE OnlySubListens(k)'
    <3>1. CASE k = n
      <4>1. opened' \subseteq Nodes \X Clients
        BY <2>4 DEF RelayTypeOK
      <4> QED BY <2>1, <2>6, <3>1, <4>1 DEF OnlySubListens
    <3>2. CASE k # n
      <4>1. attempt[k].client \in Clients \cup {NoClient}
        BY DEF RelayTypeOK
      <4> QED BY <2>1, <2>2, <2>7, <3>2, <4>1 DEF OnlySubListens
    <3> QED BY <3>1, <3>2
  <2> QED BY <2>1, <2>4, <2>8, <2>9 DEF SendingOK
<1>8. ASSUME NEW n \in Nodes, CloseEnds(n) PROVE ClientInv'
  <2>1. UNCHANGED <<server, relaying, timer, attempt, pub, sub, channel, author, sending, via,
                    ended>>
    BY <1>8 DEF CloseEnds, nodeVars, frameVars
  <2>2. /\ releasing[n] # NoClient /\ releasing' = [releasing EXCEPT ![n] = NoClient]
        /\ opened' = opened \ {<<n, releasing[n]>>}
        /\ listening' = listening \ {<<n, releasing[n]>>}
    BY <1>8 DEF CloseEnds
  <2>3. RelayTypeOK'
    BY <2>1, <2>2 DEF RelayTypeOK
  <2>4. ASSUME NEW k \in Nodes PROVE HoldsClients(k)'
    BY <2>1, <2>2 DEF HoldsClients, RelayTypeOK
  <2>5. ASSUME NEW k \in Nodes PROVE OnlySubListens(k)'
    BY <2>1, <2>2 DEF OnlySubListens, RelayTypeOK
  <2> QED BY <2>1, <2>3, <2>4, <2>5 DEF SendingOK
<1>9. ASSUME NEW n \in Nodes, NEW m \in Messages, Publish(n, m) PROVE ClientInv'
  <2>1. UNCHANGED <<server, relaying, timer, attempt, sub, channel, releasing, listening, ended>>
    BY <1>9 DEF Publish, nodeVars
  <2>2. server[n] # FALSE /\ n \notin ended /\ author' = [author EXCEPT ![m] = n]
    BY <1>9 DEF Publish, HoldsClients
  <2>3. CASE UNCHANGED <<pub, opened, sending, via>>
    <3>1. SendingOK'
      BY <2>2, <2>3 DEF SendingOK
    <3> QED BY <2>1, <2>3, <3>1 DEF RelayTypeOK, HoldsClients, OnlySubListens
  <2>4. CASE /\ pub[n] # NoClient \/ Unused(n) # {}
             /\ pub' = [pub EXCEPT ![n] = OrNew(n, @)]
             /\ opened' = opened \cup {<<n, pub'[n]>>}
             /\ sending' = [sending EXCEPT ![m] = "sent"]
             /\ via' = [via EXCEPT ![m] = pub'[n]]
    <3>1. pub[n] \in Clients \cup {NoClient}
      BY DEF RelayTypeOK
    <3>2. PICK c \in Clients : c = OrNew(n, pub[n])
      BY <2>4, <3>1, OrNewOK
    <3>3. /\ pub' = [pub EXCEPT ![n] = c] /\ opened' = opened \cup {<<n, c>>}
          /\ via' = [via EXCEPT ![m] = c]
      BY <2>4, <3>2 DEF RelayTypeOK
    <3>4. \/ pub[n] = c /\ <<n, c>> \in opened
          \/ pub[n] = NoClient /\ <<n, c>> \notin opened /\ attempt[n].client # c
      BY <2>4, <3>1, <3>2, OrNewOK DEF HoldsClients
    <3>5. SendingOK'
      BY <2>2, <2>4, <3>3 DEF SendingOK
    <3>6. RelayTypeOK'
      BY <2>1, <3>3 DEF RelayTypeOK
    <3>7. ASSUME NEW k \in Nodes PROVE HoldsClients(k)'
      <4>1. CASE k = n
        BY <2>1, <2>2, <3>3, <3>4, <4>1 DEF HoldsClients, RelayTypeOK
      <4>2. CASE k # n
        BY <2>1, <3>3, <4>2 DEF HoldsClients, RelayTypeOK
      <4> QED BY <4>1, <4>2
    <3>8. ASSUME NEW k \in Nodes PROVE OnlySubListens(k)'
      BY <2>1, <3>3, <3>4 DEF OnlySubListens
    <3> QED BY <3>5, <3>6, <3>7, <3>8
  <2> QED BY <1>9, <2>3, <2>4 DEF Publish
<1>10. ASSUME NEW n \in Nodes, NEW c \in Clients, Drops(n, c) PROVE ClientInv'
  BY <1>10 DEF Drops, nodeVars, frameVars, RelayTypeOK, SendingOK, HoldsClients, OnlySubListens
<1>11. ASSUME NEW n \in Nodes, NEW c \in Clients, NEW m \in Messages, Inbound(n, c, m)
       PROVE  ClientInv'
  BY <1>11 DEF Inbound, nodeVars, clientVars, RelayTypeOK, SendingOK, HoldsClients, OnlySubListens
<1>12. ASSUME NEW m \in Messages, BrokerAccepts(m) \/ PublishResolves(m) PROVE ClientInv'
  <2>1. UNCHANGED <<nodeVars, clientVars, author, ended>>
    BY <1>12 DEF BrokerAccepts, PublishResolves
  <2>2. SendingOK'
    BY <1>12 DEF BrokerAccepts, PublishResolves, SendingOK
  <2> QED
    BY <2>1, <2>2 DEF nodeVars, clientVars, RelayTypeOK, HoldsClients, OnlySubListens
<1>13. ASSUME NEW m \in Messages, PublishRejects(m) PROVE ClientInv'
  <2>1. UNCHANGED <<server, relaying, timer, attempt, sub, channel, releasing, listening, author,
                    ended>>
    BY <1>13 DEF PublishRejects, nodeVars
  <2>2. /\ sending[m] \in {"sent", "accepted"} /\ sending' = [sending EXCEPT ![m] = "over"]
        /\ via' = [via EXCEPT ![m] = NoClient]
    BY <1>13 DEF PublishRejects
  <2>3. PICK n \in Nodes, c \in Clients : n = author[m] /\ c = via[m]
    BY <2>2 DEF SendingOK
  <2>4. SendingOK'
    BY <2>1, <2>2 DEF SendingOK
  <2>5. CASE pub[n] = c
    <3>1. pub' = [pub EXCEPT ![n] = NoClient] /\ opened' = opened \ {<<n, c>>}
      BY <1>13, <2>3, <2>5 DEF PublishRejects, Discarded
    <3>2. RelayTypeOK'
      BY <2>1, <3>1 DEF RelayTypeOK
    <3>3. ASSUME NEW k \in Nodes PROVE HoldsClients(k)'
      BY <2>1, <2>5, <3>1 DEF HoldsClients, RelayTypeOK
    <3>4. ASSUME NEW k \in Nodes PROVE OnlySubListens(k)'
      BY <2>1, <3>1 DEF OnlySubListens
    <3> QED BY <2>4, <3>2, <3>3, <3>4
  <2>6. CASE pub[n] # c
    <3>1. pub' = pub /\ opened' = opened
      BY <1>13, <2>3, <2>6 DEF PublishRejects, Discarded, RelayTypeOK
    <3> QED BY <2>1, <2>4, <3>1 DEF RelayTypeOK, HoldsClients, OnlySubListens
  <2> QED BY <2>5, <2>6
<1>14. CASE UNCHANGED relayVars
  BY <1>14 DEF relayVars, nodeVars, clientVars, frameVars, RelayTypeOK, SendingOK,
               HoldsClients, OnlySubListens
<1> QED BY <1>1, <1>2, <1>3, <1>4, <1>5, <1>6, <1>7, <1>8, <1>9, <1>10, <1>11, <1>12, <1>13,
           <1>14 DEF RelayNext

(* The nodes start with no client, and stay in ClientInv.                  *)
LEMMA ClientInvAlways == RelaySpec => []ClientInv
<1>1. RelayInit => ClientInv
  <2> SUFFICES ASSUME RelayInit PROVE ClientInv
    OBVIOUS
  <2>1. RelayTypeOK
    BY DEF RelayInit, RelayTypeOK, Idle
  <2>2. SendingOK
    BY DEF RelayInit, SendingOK
  <2>3. ASSUME NEW n \in Nodes PROVE HoldsClients(n) /\ OnlySubListens(n)
    BY DEF RelayInit, HoldsClients, OnlySubListens, Idle
  <2> QED BY <2>1, <2>2, <2>3 DEF ClientInv
<1> QED BY <1>1, ClientInductive, PTL DEF RelaySpec

(* Every client that is not closed is held by its node, and a node that    *)
(* called close() keeps only the one it is unsubscribing, for any number   *)
(* of nodes, clients and attempts.                                         *)
THEOREM ClientsNeverLeak == RelaySpec => []NoClientLeaked
<1>1. ASSUME ClientInv PROVE NoClientLeaked
  <2>1. ASSUME NEW c \in opened PROVE c[2] \in {pub[c[1]], sub[c[1]], releasing[c[1]]}
    <3>1. PICK n \in Nodes, d \in Clients : c = <<n, d>>
      BY <1>1 DEF ClientInv, RelayTypeOK
    <3> QED BY <1>1, <3>1 DEF ClientInv, HoldsClients
  <2>2. ASSUME NEW n \in ended
        PROVE  /\ \A c \in Clients : <<n, c>> \in opened => releasing[n] = c
               /\ timer[n] = FALSE /\ server[n] = FALSE
    <3>1. n \in Nodes
      BY <1>1 DEF ClientInv, RelayTypeOK
    <3> QED BY <1>1, <3>1, RelayAssumption DEF ClientInv, HoldsClients
  <2> QED BY <2>1, <2>2 DEF NoClientLeaked
<1> QED BY <1>1, ClientInvAlways, PTL

(* A frame on its way to a node was accepted by the broker, is the only    *)
(* one of its message, and the node has not fanned that message out yet    *)
(* unless it is the author.                                                *)
FramesOnce ==
  /\ fanned \in [Nodes -> [Messages -> 0..1]]
  /\ inbox \subseteq (Nodes \X Clients) \X Messages
  /\ \A n \in Nodes, m \in Messages :
       /\ sending[m] \in {"no", "sent"} =>
            /\ author[m] # n => fanned[n][m] = 0
            /\ \A c \in Clients : <<<<n, c>>, m>> \notin inbox
       /\ \A c, d \in Clients : <<<<n, c>>, m>> \in inbox =>
            /\ author[m] # n => fanned[n][m] = 0
            /\ <<<<n, d>>, m>> \in inbox => d = c

(* The broker sends each accepted frame once to each listening client, and *)
(* a node has at most one of those.                                        *)
LEMMA FramesInductive ==
  ClientInv /\ FramesOnce /\ [RelayNext]_relayVars => FramesOnce'
<1> SUFFICES ASSUME ClientInv, FramesOnce, [RelayNext]_relayVars PROVE FramesOnce'
  OBVIOUS
<1> USE RelayAssumption DEF FramesOnce
<1>1. ASSUME NEW n \in Nodes, NEW m \in Messages, Publish(n, m) PROVE FramesOnce'
  <2>1. /\ author[m] = NoClient /\ author' = [author EXCEPT ![m] = n] /\ inbox' = inbox
        /\ fanned' = [fanned EXCEPT ![n][m] = @ + 1]
        /\ sending' \in {sending, [sending EXCEPT ![m] = "sent"]}
    BY <1>1 DEF Publish
  <2>2. sending[m] = "no" /\ sending'[m] \in {"no", "sent"}
    BY <2>1 DEF ClientInv, SendingOK
  <2>3. fanned[n][m] = 0 /\ \A k \in Nodes : fanned[k][m] = 0
    BY <2>1, <2>2
  <2>4. /\ fanned' \in [Nodes -> [Messages -> 0..1]]
        /\ \A k \in Nodes, l \in Messages : (k # n \/ l # m) => fanned'[k][l] = fanned[k][l]
    BY <2>1, <2>3
  <2>5. /\ author'[m] = n
        /\ \A l \in Messages : l # m => author'[l] = author[l] /\ sending'[l] = sending[l]
    BY <2>1 DEF ClientInv, SendingOK
  <2> QED BY <2>1, <2>2, <2>3, <2>4, <2>5
<1>2. ASSUME NEW m \in Messages, BrokerAccepts(m) PROVE FramesOnce'
  <2>1. /\ sending[m] = "sent" /\ sending' = [sending EXCEPT ![m] = "accepted"]
        /\ inbox' = inbox \cup {<<c, m>> : c \in listening}
        /\ author' = author /\ fanned' = fanned
    BY <1>2 DEF BrokerAccepts
  <2>2. /\ \A l \in Messages : l # m => sending'[l] = sending[l]
        /\ sending'[m] \notin {"no", "sent"}
    BY <2>1 DEF ClientInv, SendingOK
  <2>3. inbox' \subseteq (Nodes \X Clients) \X Messages
    BY <2>1 DEF ClientInv, RelayTypeOK
  <2>4. ASSUME NEW n \in Nodes, NEW c \in Clients, NEW l \in Messages
        PROVE  <<<<n, c>>, l>> \in inbox' <=>
                 \/ l = m /\ <<n, c>> \in listening
                 \/ <<<<n, c>>, l>> \in inbox
    BY <2>1
  <2>5. ASSUME NEW n \in Nodes, NEW c \in Clients, NEW d \in Clients,
               <<n, c>> \in listening, <<n, d>> \in listening
        PROVE  c = d
    <3>1. c \in {sub[n], releasing[n]} /\ d \in {sub[n], releasing[n]}
      BY <2>5 DEF ClientInv, OnlySubListens
    <3>2. sub[n] = NoClient \/ releasing[n] = NoClient
      BY DEF ClientInv, HoldsClients
    <3> QED BY <3>1, <3>2
  <2> QED BY <2>1, <2>2, <2>3, <2>4, <2>5
<1>3. ASSUME NEW n \in Nodes, NEW c \in Clients, NEW m \in Messages, Inbound(n, c, m)
      PROVE  FramesOnce'
  <2>1. /\ <<<<n, c>>, m>> \in inbox /\ inbox' = inbox \ {<<<<n, c>>, m>>}
        /\ fanned' = [fanned EXCEPT ![n][m] = IF FansOut(n, m) THEN @ + 1 ELSE @]
        /\ author' = author /\ sending' = sending
    BY <1>3 DEF Inbound
  <2>2. \A k \in Nodes, l \in Messages : (k # n \/ l # m) => fanned'[k][l] = fanned[k][l]
    BY <2>1
  <2>3. /\ author[m] = n => fanned'[n][m] = fanned[n][m]
        /\ fanned' \in [Nodes -> [Messages -> 0..1]]
    BY <2>1 DEF FansOut
  <2>4. sending[m] \notin {"no", "sent"}
    BY <2>1
  <2>5. \A d \in Clients : <<<<n, d>>, m>> \notin inbox'
    BY <2>1
  <2> QED BY <2>1, <2>2, <2>3, <2>4, <2>5
<1>4. ASSUME NEW m \in Messages, PublishResolves(m) \/ PublishRejects(m) PROVE FramesOnce'
  <2>1. /\ sending[m] \in {"sent", "accepted"} /\ sending' = [sending EXCEPT ![m] = "over"]
        /\ author' = author /\ inbox' = inbox /\ fanned' = fanned
    BY <1>4 DEF PublishResolves, PublishRejects
  <2> QED BY <2>1 DEF ClientInv, SendingOK
<1>5. ASSUME NEW n \in Nodes,
             \/ RelayThrough(n) \/ TimerFires(n) \/ Connected(n) \/ BrokerSubscribes(n)
             \/ SubscribeResolves(n) \/ SubscribeRejects(n) \/ Close(n) \/ CloseEnds(n)
             \/ \E c \in Clients : Drops(n, c)
      PROVE  FramesOnce'
  <2>1. UNCHANGED frameVars
    BY <1>5 DEF RelayThrough, TimerFires, Connected, BrokerSubscribes, SubscribeResolves,
                SubscribeRejects, Close, CloseEnds, Drops
  <2> QED BY <2>1 DEF frameVars
<1>6. CASE UNCHANGED relayVars
  BY <1>6 DEF relayVars, frameVars
<1> QED BY <1>1, <1>2, <1>3, <1>4, <1>5, <1>6 DEF RelayNext

(* A message is fanned out at most once on each node, for any number of    *)
(* nodes and messages and whatever fails, retries or closes meanwhile.     *)
THEOREM AlwaysDeliveredOnce == RelaySpec => []DeliveredOnce
<1>1. RelayInit => FramesOnce
  BY DEF RelayInit, FramesOnce
<1>2. FramesOnce => DeliveredOnce
  BY DEF FramesOnce, DeliveredOnce
<1> QED BY <1>1, <1>2, FramesInductive, ClientInvAlways, PTL DEF RelaySpec

-----------------------------------------------------------------------------
(* The event bus: EmitAwaitsWork, for an instance that is not emitted      *)
(* again before its emit is over (Reemits = FALSE).  The dispatches in     *)
(* progress come first: they are nested, and #current names the innermost. *)
InProgress(e) == pc[e] \in {"dispatching", "settling", "clearing"}

NestTypeOK ==
  /\ pc \in [Emits -> {"idle", "dispatching", "settling", "clearing", "done"}]
  /\ stack \in Seq(Emits) /\ previous \in [Emits -> Emits \cup {Nobody}]
  /\ next \in [Emits -> Nat \ {0}] /\ inside \subseteq Emits

StackOK ==
  /\ stack = <<>> => current = Nobody
  /\ stack # <<>> => current = stack[Len(stack)]
  /\ \A i \in 1..Len(stack) :
       /\ pc[stack[i]] = "dispatching"
       /\ previous[stack[i]] = IF i = 1 THEN Nobody ELSE stack[i - 1]
       /\ \A j \in 1..Len(stack) : stack[i] = stack[j] => i = j
  /\ \A e \in Emits : pc[e] = "dispatching" => \E i \in 1..Len(stack) : stack[i] = e
  /\ \A e \in inside : pc[e] = "dispatching" /\ next[e] <= Listeners

(* An event instance has one emit in progress.                             *)
OnePerInstance ==
  \A d, e \in Emits : InProgress(d) /\ InProgress(e) /\ EventOf[d] = EventOf[e] => d = e

NestInv == NestTypeOK /\ StackOK /\ OnePerInstance

(* What Append does to a sequence, element by element.                     *)
LEMMA Appended ==
  ASSUME NEW S, NEW s \in Seq(S), NEW x \in S
  PROVE  /\ Append(s, x) \in Seq(S) /\ Append(s, x) # <<>>
         /\ Len(Append(s, x)) = Len(s) + 1 /\ Len(s) \in Nat
         /\ Append(s, x)[Len(s) + 1] = x
         /\ \A i \in 1..Len(s) : Append(s, x)[i] = s[i]
         /\ DOMAIN Append(s, x) = 1..(Len(s) + 1) /\ DOMAIN s = 1..Len(s)
OBVIOUS

(* A sequence without its last element.                                    *)
LEMMA AllButLast ==
  ASSUME NEW S, NEW s \in Seq(S), Len(s) >= 1
  PROVE  /\ SubSeq(s, 1, Len(s) - 1) \in Seq(S)
         /\ Len(SubSeq(s, 1, Len(s) - 1)) = Len(s) - 1
         /\ \A i \in 1..(Len(s) - 1) : SubSeq(s, 1, Len(s) - 1)[i] = s[i]
<1> DEFINE n == Len(s) - 1
<1>1. n \in Int /\ n >= 0 /\ 1 \in Int /\ \A i \in 1..n : s[i] \in S
  OBVIOUS
<1> HIDE DEF n
<1>2. /\ SubSeq(s, 1, n) \in Seq(S)
      /\ Len(SubSeq(s, 1, n)) = IF 1 <= n THEN n - 1 + 1 ELSE 0
      /\ \A i \in 1..n - 1 + 1 : SubSeq(s, 1, n)[i] = s[1 + i - 1]
  BY <1>1, SubSeqProperties
<1>3. Len(SubSeq(s, 1, n)) = n /\ \A i \in 1..n : SubSeq(s, 1, n)[i] = s[i]
  BY <1>1, <1>2
<1> QED BY <1>2, <1>3 DEF n

(* The innermost dispatch is one in progress.                              *)
LEMMA TopOK ==
  ASSUME NestInv, stack # <<>>
  PROVE  Len(stack) \in Nat /\ Len(stack) >= 1 /\ Len(stack) \in 1..Len(stack)
         /\ Top \in Emits /\ pc[Top] = "dispatching" /\ current = Top
<1>1. Len(stack) \in Nat /\ Len(stack) >= 1
  BY DEF NestInv, NestTypeOK
<1>2. Len(stack) \in 1..Len(stack)
  BY <1>1
<1> QED BY <1>1, <1>2 DEF NestInv, NestTypeOK, StackOK, Top

(* Between dispatches nothing is dispatching and no listener executes.     *)
LEMMA NoneDispatching ==
  ASSUME NestInv, stack = <<>>
  PROVE  inside = {} /\ \A e \in Emits : pc[e] # "dispatching"
<1>1. Len(stack) = 0
  OBVIOUS
<1>2. \A e \in Emits : pc[e] # "dispatching"
  BY <1>1 DEF NestInv, StackOK
<1> QED BY <1>2 DEF NestInv, StackOK, NestTypeOK

(* Dispatches stay nested, one per instance.                               *)
LEMMA NestInductive ==
  ASSUME Reemits = FALSE
  PROVE  NestInv /\ [BusNext]_eventVars => NestInv'
<1> SUFFICES ASSUME NestInv, [BusNext]_eventVars PROVE NestInv'
  OBVIOUS
<1> USE EventBusAssumption
<1>1. ASSUME NEW e \in Emits, Emit(e) PROVE NestInv'
  <2>1. /\ pc[e] = "idle" /\ pc' = [pc EXCEPT ![e] = "dispatching"]
        /\ stack' = Append(stack, e) /\ current' = e
        /\ previous' = [previous EXCEPT ![e] = current]
        /\ next' = next /\ inside' = inside
        /\ \A d \in Emits : EventOf[d] = EventOf[e] => pc[d] \in {"idle", "done"}
    BY <1>1 DEF Emit, MayEmit
  <2>2. /\ Len(stack) \in Nat /\ Len(stack') = Len(stack) + 1 /\ stack'[Len(stack) + 1] = e
        /\ stack' # <<>> /\ stack' \in Seq(Emits)
        /\ \A i \in 1..Len(stack) : stack'[i] = stack[i]
    BY <2>1, Appended DEF NestInv, NestTypeOK
  <2>3. current \in Emits \cup {Nobody}
    <3>1. CASE stack = <<>>
      BY <3>1 DEF NestInv, StackOK
    <3>2. CASE stack # <<>>
      BY <3>2, TopOK
    <3> QED BY <3>1, <3>2
  <2>4. NestTypeOK'
    BY <2>1, <2>2, <2>3 DEF NestInv, NestTypeOK
  <2>5. \A i \in 1..Len(stack) : stack[i] # e /\ stack[i] \in Emits
    BY <2>1 DEF NestInv, NestTypeOK, StackOK
  <2>6. previous'[e] = IF Len(stack) = 0 THEN Nobody ELSE stack[Len(stack)]
    BY <2>1 DEF NestInv, NestTypeOK, StackOK
  <2>7. ASSUME NEW i \in 1..Len(stack')
        PROVE  /\ pc'[stack'[i]] = "dispatching"
               /\ previous'[stack'[i]] = IF i = 1 THEN Nobody ELSE stack'[i - 1]
               /\ \A j \in 1..Len(stack') : stack'[i] = stack'[j] => i = j
    <3>1. CASE i = Len(stack) + 1
      <4>1. stack'[i] = e /\ pc'[e] = "dispatching"
        BY <2>1, <2>2, <3>1 DEF NestInv, NestTypeOK
      <4>2. i = 1 <=> Len(stack) = 0
        BY <2>2, <3>1
      <4>3. Len(stack) # 0 => stack'[i - 1] = stack[Len(stack)]
        BY <2>2, <3>1
      <4>4. \A j \in 1..Len(stack') : stack'[j] = e => j = i
        BY <2>2, <2>5, <3>1
      <4> QED BY <2>6, <4>1, <4>2, <4>3, <4>4
    <3>2. CASE i \in 1..Len(stack)
      <4>1. stack'[i] = stack[i] /\ stack[i] # e /\ stack[i] \in Emits
        BY <2>2, <2>5, <3>2
      <4>2. pc'[stack[i]] = pc[stack[i]] /\ previous'[stack[i]] = previous[stack[i]]
        BY <2>1, <4>1 DEF NestInv, NestTypeOK
      <4>3. i # 1 => i - 1 \in 1..Len(stack)
        BY <2>2, <3>2
      <4>4. /\ pc[stack[i]] = "dispatching"
            /\ previous[stack[i]] = IF i = 1 THEN Nobody ELSE stack[i - 1]
            /\ \A j \in 1..Len(stack) : stack[i] = stack[j] => i = j
        BY <3>2 DEF NestInv, StackOK
      <4>5. \A j \in 1..Len(stack') : j \in 1..Len(stack) \/ stack'[j] = e
        BY <2>2
      <4> QED BY <2>2, <4>1, <4>2, <4>3, <4>4, <4>5
    <3> QED BY <2>2, <3>1, <3>2
  <2>8. ASSUME NEW d \in Emits, pc'[d] = "dispatching"
        PROVE  \E i \in 1..Len(stack') : stack'[i] = d
    <3>1. CASE d = e
      BY <2>2, <3>1
    <3>2. CASE d # e
      <4>1. PICK i \in 1..Len(stack) : stack[i] = d
        BY <2>1, <2>8, <3>2 DEF NestInv, NestTypeOK, StackOK
      <4>2. i \in 1..Len(stack')
        BY <2>2
      <4> QED BY <2>2, <4>1, <4>2
    <3> QED BY <3>1, <3>2
  <2>9. StackOK'
    <3>1. current' = stack'[Len(stack')]
      BY <2>1, <2>2
    <3>2. \A d \in inside' : pc'[d] = "dispatching" /\ next'[d] <= Listeners
      BY <2>1 DEF NestInv, NestTypeOK, StackOK
    <3> QED BY <2>2, <2>7, <2>8, <3>1, <3>2 DEF StackOK
  <2>10. OnePerInstance'
    BY <2>1 DEF NestInv, NestTypeOK, OnePerInstance, InProgress
  <2> QED BY <2>4, <2>9, <2>10 DEF NestInv
<1>2. ASSUME NEW e \in Emits, Call(e) PROVE NestInv'
  <2>1. /\ stack # <<>> /\ Top = e /\ next[e] <= Listeners /\ inside' = inside \cup {e}
        /\ UNCHANGED <<pc, stack, current, previous, next>>
    BY <1>2 DEF Call
  <2>2. pc[e] = "dispatching"
    BY <2>1, TopOK
  <2>3. \A d \in inside' : pc'[d] = "dispatching" /\ next'[d] <= Listeners
    BY <2>1, <2>2 DEF NestInv, StackOK
  <2>4. NestTypeOK'
    BY <2>1 DEF NestInv, NestTypeOK
  <2>5. StackOK'
    BY <2>1, <2>3 DEF NestInv, StackOK
  <2> QED BY <2>1, <2>4, <2>5 DEF NestInv, OnePerInstance, InProgress
<1>3. ASSUME NEW e \in Emits, Return(e) PROVE NestInv'
  <2>1. /\ inside' = inside \ {e} /\ next' = [next EXCEPT ![e] = @ + 1]
        /\ UNCHANGED <<pc, stack, current, previous>>
    BY <1>3 DEF Return
  <2>2. NestTypeOK'
    BY <2>1 DEF NestInv, NestTypeOK
  <2>3. \A d \in inside' : pc'[d] = "dispatching" /\ next'[d] <= Listeners
    BY <2>1 DEF NestInv, NestTypeOK, StackOK
  <2>4. StackOK'
    BY <2>1, <2>3 DEF NestInv, StackOK
  <2> QED BY <2>1, <2>2, <2>4 DEF NestInv, OnePerInstance, InProgress
<1>4. ASSUME NEW e \in Emits, Dispatched(e) PROVE NestInv'
  <2>1. /\ stack # <<>> /\ Top = e /\ e \notin inside
        /\ stack' = SubSeq(stack, 1, Len(stack) - 1) /\ current' = previous[e]
        /\ UNCHANGED <<previous, next, inside>>
    BY <1>4 DEF Dispatched, Restored
  <2>2. \E x \in {"clearing", "settling"} : pc' = [pc EXCEPT ![e] = x]
    BY <1>4 DEF Dispatched, Gathers
  <2>3. /\ Len(stack) \in Nat /\ Len(stack) >= 1 /\ stack[Len(stack)] = e
        /\ pc[e] = "dispatching"
    BY <2>1, TopOK DEF Top
  <2>4. stack' \in Seq(Emits) /\ Len(stack') = Len(stack) - 1
        /\ \A i \in 1..(Len(stack) - 1) : stack'[i] = stack[i]
    <3>1. stack \in Seq(Emits)
      BY DEF NestInv, NestTypeOK
    <3> QED BY <2>1, <2>3, <3>1, AllButLast
  <2>5. NestTypeOK'
    BY <2>1, <2>2, <2>4 DEF NestInv, NestTypeOK
  <2>6. \A i \in 1..(Len(stack) - 1) : i \in 1..Len(stack) /\ stack[i] # e /\ stack[i] \in Emits
    BY <2>3 DEF NestInv, NestTypeOK, StackOK
  <2>7. /\ stack' = <<>> => current' = Nobody
        /\ stack' # <<>> => current' = stack'[Len(stack')]
    <3>1. previous[e] = IF Len(stack) = 1 THEN Nobody ELSE stack[Len(stack) - 1]
      <4>1. Len(stack) \in 1..Len(stack)
        BY <2>3
      <4> QED BY <2>3, <4>1 DEF NestInv, StackOK
    <3>2. stack' = <<>> <=> Len(stack) = 1
      BY <2>3, <2>4
    <3>3. Len(stack) # 1 => stack'[Len(stack')] = stack[Len(stack) - 1]
      BY <2>3, <2>4
    <3> QED BY <2>1, <3>1, <3>2, <3>3
  <2>8. ASSUME NEW i \in 1..Len(stack')
        PROVE  /\ pc'[stack'[i]] = "dispatching"
               /\ previous'[stack'[i]] = IF i = 1 THEN Nobody ELSE stack'[i - 1]
               /\ \A j \in 1..Len(stack') : stack'[i] = stack'[j] => i = j
    <3>1. stack'[i] = stack[i] /\ i \in 1..Len(stack) /\ stack[i] # e /\ stack[i] \in Emits
      BY <2>4, <2>6
    <3>2. i # 1 => i - 1 \in 1..Len(stack') /\ stack'[i - 1] = stack[i - 1]
      BY <2>3, <2>4
    <3>3. /\ pc[stack[i]] = "dispatching"
          /\ previous[stack[i]] = IF i = 1 THEN Nobody ELSE stack[i - 1]
          /\ \A j \in 1..Len(stack) : stack[i] = stack[j] => i = j
      BY <3>1 DEF NestInv, StackOK
    <3>4. pc'[stack[i]] = pc[stack[i]]
      BY <2>2, <3>1 DEF NestInv, NestTypeOK
    <3>5. \A j \in 1..Len(stack') : j \in 1..Len(stack) /\ stack'[j] = stack[j]
      BY <2>4, <2>6
    <3> QED BY <2>1, <3>1, <3>2, <3>3, <3>4, <3>5
  <2>9. ASSUME NEW d \in Emits, pc'[d] = "dispatching"
        PROVE  \E i \in 1..Len(stack') : stack'[i] = d
    <3>1. d # e /\ pc[d] = "dispatching"
      BY <2>2, <2>9 DEF NestInv, NestTypeOK
    <3>2. PICK i \in 1..Len(stack) : stack[i] = d
      BY <3>1 DEF NestInv, StackOK
    <3>3. i \in 1..(Len(stack) - 1)
      BY <2>3, <3>1, <3>2
    <3> QED BY <2>4, <3>2, <3>3
  <2>10. \A d \in inside' : pc'[d] = "dispatching" /\ next'[d] <= Listeners
    BY <2>1, <2>2 DEF NestInv, NestTypeOK, StackOK
  <2>11. OnePerInstance'
    BY <2>2, <2>3 DEF NestInv, NestTypeOK, OnePerInstance, InProgress
  <2> QED BY <2>5, <2>7, <2>8, <2>9, <2>10, <2>11 DEF NestInv, StackOK
<1>5. ASSUME NEW e \in Emits, NextRound(e) \/ Clear(e) PROVE NestInv'
  <2>1. /\ pc[e] \in {"settling", "clearing"} /\ UNCHANGED <<stack, current, previous, next, inside>>
        /\ \E x \in {"clearing", "settling", "done"} : pc' = [pc EXCEPT ![e] = x]
    BY <1>5 DEF NextRound, Clear, Gathers, busVars
  <2>2. \A d \in Emits : pc'[d] = "dispatching" <=> pc[d] = "dispatching"
    BY <2>1 DEF NestInv, NestTypeOK
  <2>3. NestTypeOK'
    BY <2>1 DEF NestInv, NestTypeOK
  <2>4. \A i \in 1..Len(stack) : stack[i] \in Emits
    BY DEF NestInv, NestTypeOK
  <2>5. inside \subseteq Emits
    BY DEF NestInv, NestTypeOK
  <2>6. StackOK'
    BY <2>1, <2>2, <2>4, <2>5 DEF NestInv, StackOK
  <2>7. OnePerInstance'
    BY <2>1 DEF NestInv, NestTypeOK, OnePerInstance, InProgress
  <2> QED BY <2>3, <2>6, <2>7 DEF NestInv
<1>6. ASSUME NEW p \in Promises, WaitUntil(p) \/ Settle(p) PROVE NestInv'
  <2>1. UNCHANGED <<pc, stack, current, previous, next, inside>>
    BY <1>6 DEF WaitUntil, Settle, busVars
  <2> QED BY <2>1 DEF NestInv, NestTypeOK, StackOK, OnePerInstance, InProgress
<1>7. CASE UNCHANGED eventVars
  BY <1>7 DEF eventVars, busVars, NestInv, NestTypeOK, StackOK, OnePerInstance, InProgress
<1> QED BY <1>1, <1>2, <1>3, <1>4, <1>5, <1>6, <1>7 DEF BusNext

(* What an emit collects.  Handlers' promises and handed-over work are     *)
(* told apart by their index, 0 for a promise.                             *)
SettleTypeOK ==
  /\ promise \in [Promises -> {"none", "pending", "settled"}]
  /\ work \in [Emits -> Seq(Promises)] /\ pending \in [Events -> Seq(Promises)]
  /\ handlers \in [Emits -> Nat] /\ waited \in [Emits -> Nat]
  /\ round \in [Emits -> SUBSET Promises] /\ found \in [Emits -> SUBSET Promises]
  /\ late \subseteq Promises

WorkIsOwn ==
  \A e \in Emits : \A i \in 1..Len(work[e]) : work[e][i][1][1] = e /\ work[e][i][2] = 0

ListsOK ==
  /\ \A v \in Events : \A i \in 1..Len(pending[v]) :
       pending[v][i][2] > 0 /\ promise[pending[v][i]] # "none"
  /\ \A e \in Emits : \A p \in found[e] : p[2] > 0 /\ promise[p] # "none"
  /\ \A p \in late : p[2] > 0

IndicesOK(e) ==
  /\ handlers[e] <= Len(work[e])
  /\ InProgress(e) => waited[e] <= Len(pending[EventOf[e]])

(* What an emit has still to read was not in the list when it started.     *)
RoundOK(e) ==
  /\ pc[e] \in {"idle", "dispatching"} => round[e] = {}
  /\ \A p \in round[e] : p \notin found[e]
  /\ InProgress(e) => \A i \in (waited[e] + 1)..Len(pending[EventOf[e]]) :
                        pending[EventOf[e]][i] \notin found[e]

(* What an emit owes, it awaits now or will find when it gathers next.     *)
Owes(e, p) == p[1][1] = e /\ promise[p] = "pending" /\ p \notin late

OwedOK(e) ==
  \A p \in Promises : Owes(e, p) =>
    /\ pc[e] \in {"dispatching", "settling"}
    /\ p \in round[e] \/ p \in Gathered(e)

SettleInv ==
  /\ SettleTypeOK /\ WorkIsOwn /\ ListsOK
  /\ \A e \in Emits : IndicesOK(e) /\ RoundOK(e) /\ OwedOK(e)

(* The next round takes everything collected and not read yet: what it     *)
(* leaves owed is in it.                                                   *)
LEMMA GathersOK ==
  ASSUME NestInv, SettleInv, NEW e \in Emits, Gathers(e), InProgress(e),
         \A p \in round[e] : promise[p] = "settled",
         UNCHANGED <<promise, work, pending, late, found>>
  PROVE  SettleInv'
<1> USE DEF SettleInv
<1>1. /\ round' = [round EXCEPT ![e] = Gathered(e)]
      /\ handlers' = [handlers EXCEPT ![e] = Len(work[e])]
      /\ \E x \in {"clearing", "settling"} : pc' = [pc EXCEPT ![e] = x]
      /\ Gathered(e) # {} => pc' = [pc EXCEPT ![e] = "settling"]
  BY DEF Gathers
<1>2. EventOf[e] \in Events /\ Len(pending[EventOf[e]]) \in Nat /\ Len(work[e]) \in Nat
      /\ pending[EventOf[e]] \in Seq(Promises) /\ work[e] \in Seq(Promises)
      /\ handlers[e] \in Nat /\ waited[e] \in Nat
  <2>1. EventOf[e] \in Events
    BY DEF Events
  <2> QED BY <2>1 DEF SettleTypeOK
<1>3. waited' = [waited EXCEPT ![e] = Len(pending[EventOf[e]])]
  <2>1. waited[e] <= Len(pending[EventOf[e]])
    BY DEF IndicesOK
  <2>2. (IF waited[e] < Len(pending[EventOf[e]]) THEN Len(pending[EventOf[e]]) ELSE waited[e])
          = Len(pending[EventOf[e]])
    BY <1>2, <2>1
  <2> QED BY <2>2 DEF Gathers
<1>4. \A p \in Gathered(e) : p \in Promises /\ p \notin found[e]
  <2>1. ASSUME NEW i \in (handlers[e] + 1)..Len(work[e])
        PROVE  work[e][i] \in Promises /\ work[e][i] \notin found[e]
    <3>1. i \in 1..Len(work[e])
      BY <1>2
    <3>2. work[e][i] \in Promises /\ work[e][i][2] = 0
      BY <1>2, <3>1 DEF WorkIsOwn
    <3>3. \A p \in found[e] : p[2] # 0
      BY DEF ListsOK
    <3> QED BY <3>2, <3>3
  <2>2. ASSUME NEW i \in (waited[e] + 1)..Len(pending[EventOf[e]])
        PROVE  pending[EventOf[e]][i] \in Promises /\ pending[EventOf[e]][i] \notin found[e]
    <3>1. i \in 1..Len(pending[EventOf[e]])
      BY <1>2
    <3> QED BY <1>2, <3>1 DEF RoundOK
  <2> QED BY <2>1, <2>2 DEF Gathered
<1>5. SettleTypeOK'
  BY <1>1, <1>2, <1>3, <1>4 DEF SettleTypeOK
<1>6. WorkIsOwn' /\ ListsOK'
  BY DEF WorkIsOwn, ListsOK
<1>7. \A d \in Emits : d # e =>
        /\ pc'[d] = pc[d] /\ round'[d] = round[d] /\ handlers'[d] = handlers[d]
        /\ waited'[d] = waited[d]
  BY <1>1, <1>3 DEF NestInv, NestTypeOK, SettleTypeOK
<1>8. ASSUME NEW d \in Emits, d # e PROVE IndicesOK(d)' /\ RoundOK(d)' /\ OwedOK(d)'
  <2>1. Gathered(d)' = Gathered(d) /\ (InProgress(d)' <=> InProgress(d))
    BY <1>7, <1>8 DEF Gathered, InProgress
  <2>2. IndicesOK(d)'
    BY <1>7, <1>8, <2>1 DEF IndicesOK
  <2>3. RoundOK(d)'
    BY <1>7, <1>8, <2>1 DEF RoundOK
  <2>4. OwedOK(d)'
    BY <1>7, <1>8, <2>1 DEF OwedOK, Owes
  <2> QED BY <2>2, <2>3, <2>4
<1>9. /\ round'[e] = Gathered(e) /\ handlers'[e] = Len(work[e])
      /\ waited'[e] = Len(pending[EventOf[e]]) /\ pc'[e] \in {"clearing", "settling"}
      /\ Gathered(e) # {} => pc'[e] = "settling"
  BY <1>1, <1>3 DEF NestInv, NestTypeOK, SettleTypeOK
<1>10. IndicesOK(e)'
  BY <1>2, <1>9 DEF IndicesOK
<1>11. RoundOK(e)'
  BY <1>2, <1>4, <1>9 DEF RoundOK
<1>12. OwedOK(e)'
  <2> SUFFICES ASSUME NEW p \in Promises, Owes(e, p)
               PROVE  pc'[e] = "settling" /\ p \in round'[e]
    BY DEF OwedOK, Owes
  <2>1. p \in round[e] \/ p \in Gathered(e)
    BY DEF OwedOK
  <2>2. p \notin round[e]
    BY DEF Owes
  <2> QED BY <1>9, <2>1, <2>2
<1> QED BY <1>5, <1>6, <1>8, <1>10, <1>11, <1>12

(* A promise names the run it belongs to, whose own promise is Result.     *)
LEMMA PromiseParts ==
  ASSUME NEW p \in Promises
  PROVE  /\ p[1] \in Runs /\ p[1][1] \in Emits /\ p[2] \in 0..Waits
         /\ EventOf[p[1][1]] \in Events
         /\ Result(p[1]) \in Promises
         /\ Result(p[1])[1][1] = p[1][1] /\ Result(p[1])[2] = 0
<1>1. p[1] \in Runs /\ p[2] \in 0..Waits
  BY DEF Promises
<1>2. p[1][1] \in Emits
  BY <1>1 DEF Runs
<1>3. 0 \in 0..Waits
  BY EventBusAssumption
<1> QED BY <1>1, <1>2, <1>3 DEF Promises, Result, Events

(* Steps that only call listeners collect nothing.                         *)
LEMMA SettleUnchanged ==
  ASSUME SettleInv,
         UNCHANGED <<pc, promise, work, pending, handlers, waited, round, late, found>>
  PROVE  SettleInv'
<1>1. SettleTypeOK' /\ WorkIsOwn'
  BY DEF SettleInv, SettleTypeOK, WorkIsOwn
<1>2. ListsOK'
  BY DEF SettleInv, ListsOK
<1>3. ASSUME NEW e \in Emits PROVE IndicesOK(e)' /\ RoundOK(e)'
  BY DEF SettleInv, IndicesOK, RoundOK, InProgress
<1>4. ASSUME NEW e \in Emits PROVE OwedOK(e)'
  <2>1. Gathered(e)' = Gathered(e)
    BY DEF Gathered
  <2> QED BY <2>1 DEF SettleInv, OwedOK, Owes
<1> QED BY <1>1, <1>2, <1>3, <1>4 DEF SettleInv

(* Every step keeps what an emit owes within reach of its loop.            *)
LEMMA SettleInductive ==
  ASSUME Reemits = FALSE
  PROVE  NestInv /\ NestInv' /\ SettleInv /\ [BusNext]_eventVars => SettleInv'
<1> SUFFICES ASSUME NestInv, NestInv', SettleInv, [BusNext]_eventVars PROVE SettleInv'
  OBVIOUS
<1> USE EventBusAssumption
<1>0. \A e \in Emits : /\ EventOf[e] \in Events /\ pending[EventOf[e]] \in Seq(Promises)
                       /\ work[e] \in Seq(Promises) /\ handlers[e] \in Nat /\ waited[e] \in Nat
                       /\ Len(work[e]) \in Nat /\ Len(pending[EventOf[e]]) \in Nat
  <2>1. \A e \in Emits : EventOf[e] \in Events
    BY DEF Events
  <2> QED BY <2>1 DEF SettleInv, SettleTypeOK
<1>1. ASSUME NEW e \in Emits, Emit(e) PROVE SettleInv'
  <2>1. /\ pc[e] = "idle" /\ pc' = [pc EXCEPT ![e] = "dispatching"]
        /\ waited' = [waited EXCEPT ![e] = Len(pending[EventOf[e]])]
        /\ UNCHANGED <<promise, work, pending, handlers, round, late>>
    BY <1>1 DEF Emit, From
  <2>2. PICK F : /\ F = {pending[EventOf[e]][i] : i \in DOMAIN pending[EventOf[e]]}
                 /\ found' = [found EXCEPT ![e] = F]
    BY <1>1 DEF Emit
  <2>3. \A p \in F : p \in Promises /\ p[2] > 0 /\ promise[p] # "none"
    <3>1. DOMAIN pending[EventOf[e]] = 1..Len(pending[EventOf[e]]) /\ EventOf[e] \in Events
      BY <1>0
    <3>2. \A i \in 1..Len(pending[EventOf[e]]) : pending[EventOf[e]][i] \in Promises
      BY <1>0
    <3> QED BY <2>2, <3>1, <3>2 DEF SettleInv, ListsOK
  <2>4. SettleTypeOK'
    <3>1. F \in SUBSET Promises
      BY <2>3
    <3>2. found' \in [Emits -> SUBSET Promises]
      BY <2>2, <3>1 DEF SettleInv, SettleTypeOK
    <3>3. waited' \in [Emits -> Nat]
      BY <1>0, <2>1 DEF SettleInv, SettleTypeOK
    <3> QED BY <2>1, <3>2, <3>3 DEF SettleInv, SettleTypeOK
  <2>5. WorkIsOwn' /\ ListsOK'
    <3>1. \A d \in Emits : \A p \in found'[d] : p[2] > 0 /\ promise[p] # "none"
      BY <2>2, <2>3 DEF SettleInv, SettleTypeOK, ListsOK
    <3> QED BY <2>1, <3>1 DEF SettleInv, WorkIsOwn, ListsOK
  <2>6. \A d \in Emits : d # e =>
          pc'[d] = pc[d] /\ waited'[d] = waited[d] /\ found'[d] = found[d]
    BY <2>1, <2>2 DEF SettleInv, SettleTypeOK, NestInv, NestTypeOK
  <2>7. ASSUME NEW d \in Emits, d # e PROVE IndicesOK(d)' /\ RoundOK(d)' /\ OwedOK(d)'
    <3>1. Gathered(d)' = Gathered(d) /\ (InProgress(d)' <=> InProgress(d))
      BY <2>1, <2>6, <2>7 DEF Gathered, InProgress
    <3>2. IndicesOK(d)'
      BY <2>1, <2>6, <2>7, <3>1 DEF SettleInv, IndicesOK
    <3>3. RoundOK(d)'
      BY <2>1, <2>6, <2>7, <3>1 DEF SettleInv, RoundOK
    <3>4. OwedOK(d)'
      BY <2>1, <2>6, <2>7, <3>1 DEF SettleInv, OwedOK, Owes
    <3> QED BY <3>2, <3>3, <3>4
  <2>8. waited'[e] = Len(pending[EventOf[e]])
    BY <2>1 DEF SettleInv, SettleTypeOK
  <2>9. round[e] = {}
    BY <2>1 DEF SettleInv, RoundOK
  <2>10. IndicesOK(e)'
    BY <1>0, <2>1, <2>8 DEF SettleInv, IndicesOK
  <2>11. RoundOK(e)'
    BY <1>0, <2>1, <2>8, <2>9 DEF RoundOK
  <2>12. OwedOK(e)'
    BY <2>1 DEF SettleInv, OwedOK, Owes
  <2> QED BY <2>4, <2>5, <2>7, <2>10, <2>11, <2>12 DEF SettleInv
<1>2. ASSUME NEW e \in Emits, Return(e) PROVE SettleInv'
  <2>1. /\ UNCHANGED <<pc, pending, handlers, waited, round, late, found>>
        /\ stack # <<>> /\ Top = e /\ e \in inside
    BY <1>2 DEF Return, settleVars
  <2>2. current = e /\ pc[e] = "dispatching"
    BY <2>1, TopOK
  <2>3. CASE UNCHANGED <<promise, work>>
    BY <2>1, <2>3, SettleUnchanged
  <2>4. CASE /\ promise' = [promise EXCEPT ![Result(RunOf(e))] = "pending"]
             /\ work' = [work EXCEPT ![current] = Append(@, Result(RunOf(e)))]
    <3>1. PICK q \in Promises : q = Result(RunOf(e)) /\ q[1][1] = e /\ q[2] = 0
      <4>1. next[e] \in 1..Listeners /\ 0 \in 0..Waits
        BY <2>1 DEF NestInv, NestTypeOK, StackOK
      <4>2. PICK r \in Runs : r = RunOf(e) /\ r[1] = e
        <5>1. <<e, next[e]>> \in Runs /\ <<e, next[e]>>[1] = e
          BY <4>1 DEF Runs
        <5> QED BY <5>1 DEF RunOf
      <4>3. <<r, 0>> \in Promises /\ <<r, 0>>[1] = r /\ <<r, 0>>[2] = 0
        BY <4>1 DEF Promises
      <4> QED BY <4>2, <4>3 DEF Result
    <3>2. /\ promise' = [promise EXCEPT ![q] = "pending"]
          /\ work' = [work EXCEPT ![e] = Append(work[e], q)]
      BY <2>2, <2>4, <3>1
    <3>3. /\ work'[e] \in Seq(Promises) /\ Len(work'[e]) = Len(work[e]) + 1
          /\ work'[e][Len(work[e]) + 1] = q
          /\ \A i \in 1..Len(work[e]) : work'[e][i] = work[e][i]
          /\ \A d \in Emits : d # e => work'[d] = work[d]
      <4>1. work'[e] = Append(work[e], q)
        BY <3>2 DEF SettleInv, SettleTypeOK
      <4>2. \A d \in Emits : d # e => work'[d] = work[d]
        BY <3>2 DEF SettleInv, SettleTypeOK
      <4> QED BY <1>0, <4>1, <4>2, Appended
    <3>4. SettleTypeOK'
      BY <2>1, <3>2, <3>3 DEF SettleInv, SettleTypeOK
    <3>5. WorkIsOwn'
      <4>1. ASSUME NEW i \in 1..Len(work'[e]) PROVE work'[e][i][1][1] = e /\ work'[e][i][2] = 0
        <5>1. CASE i = Len(work[e]) + 1
          BY <3>1, <3>3, <5>1
        <5>2. CASE i # Len(work[e]) + 1
          <6>1. i \in 1..Len(work[e]) /\ work'[e][i] = work[e][i]
            BY <1>0, <3>3, <5>2
          <6> QED BY <6>1 DEF SettleInv, WorkIsOwn
        <5> QED BY <5>1, <5>2
      <4> QED BY <3>3, <4>1 DEF SettleInv, WorkIsOwn
    <3>6. \A p \in Promises : /\ promise[p] # "none" => promise'[p] # "none"
                              /\ p # q => promise'[p] = promise[p]
      BY <3>2 DEF SettleInv, SettleTypeOK
    <3>7. ListsOK'
      <4>1. \A v \in Events : \A i \in 1..Len(pending[v]) : pending[v][i] \in Promises
        BY DEF SettleInv, SettleTypeOK
      <4>2. \A d \in Emits : \A p \in found[d] : p \in Promises
        BY DEF SettleInv, SettleTypeOK
      <4> QED BY <2>1, <3>6, <4>1, <4>2 DEF SettleInv, ListsOK
    <3>8. \A d \in Emits : Gathered(d) \subseteq Gathered(d)' /\ q \in Gathered(e)'
      <4>1. ASSUME NEW d \in Emits, d # e PROVE Gathered(d)' = Gathered(d)
        BY <2>1, <3>3, <4>1 DEF Gathered
      <4>2. handlers[e] <= Len(work[e])
        BY DEF SettleInv, IndicesOK
      <4>3. Len(work[e]) + 1 \in (handlers[e] + 1)..Len(work'[e])
        BY <1>0, <3>3, <4>2
      <4>4. q \in Gathered(e)'
        BY <2>1, <3>3, <4>3 DEF Gathered
      <4>5. ASSUME NEW i \in (handlers[e] + 1)..Len(work[e])
            PROVE  i \in (handlers[e] + 1)..Len(work'[e]) /\ work'[e][i] = work[e][i]
        BY <1>0, <3>3
      <4>6. Gathered(e) \subseteq Gathered(e)'
        BY <2>1, <4>5 DEF Gathered
      <4> QED BY <4>1, <4>4, <4>6
    <3>9. ASSUME NEW d \in Emits PROVE IndicesOK(d)' /\ RoundOK(d)' /\ OwedOK(d)'
      <4>1. InProgress(d)' <=> InProgress(d)
        BY <2>1 DEF InProgress
      <4>2. IndicesOK(d)'
        BY <1>0, <2>1, <3>3, <4>1 DEF SettleInv, IndicesOK
      <4>3. RoundOK(d)'
        BY <2>1, <4>1 DEF SettleInv, RoundOK
      <4>4. OwedOK(d)'
        <5> SUFFICES ASSUME NEW p \in Promises, Owes(d, p)'
                     PROVE  /\ pc[d] \in {"dispatching", "settling"}
                            /\ p \in round[d] \/ p \in Gathered(d)'
          BY <2>1 DEF OwedOK
        <5>1. CASE p = q
          BY <2>2, <3>1, <3>8, <5>1 DEF Owes
        <5>2. CASE p # q
          BY <2>1, <3>6, <3>8, <5>2 DEF SettleInv, OwedOK, Owes
        <5> QED BY <5>1, <5>2
      <4> QED BY <4>2, <4>3, <4>4
    <3> QED BY <3>4, <3>5, <3>7, <3>9 DEF SettleInv
  <2> QED BY <1>2, <2>3, <2>4 DEF Return
<1>3. ASSUME NEW e \in Emits, Dispatched(e) \/ NextRound(e) PROVE SettleInv'
  <2>1. Gathers(e) /\ UNCHANGED <<promise, work, pending, late, found>>
    BY <1>3 DEF Dispatched, NextRound
  <2>2. InProgress(e) /\ \A p \in round[e] : promise[p] = "settled"
    <3>1. CASE Dispatched(e)
      <4>1. pc[e] = "dispatching"
        BY <3>1, TopOK DEF Dispatched
      <4> QED BY <4>1 DEF InProgress, SettleInv, RoundOK
    <3>2. CASE NextRound(e)
      BY <3>2 DEF NextRound, InProgress
    <3> QED BY <1>3, <3>1, <3>2
  <2> QED BY <2>1, <2>2, GathersOK
<1>4. ASSUME NEW e \in Emits, Clear(e) PROVE SettleInv'
  <2>1. /\ pc[e] = "clearing" /\ pc' = [pc EXCEPT ![e] = "done"]
        /\ pending' = [pending EXCEPT ![EventOf[e]] = <<>>]
        /\ UNCHANGED <<promise, work, handlers, waited, round, late, found>>
    BY <1>4 DEF Clear, settleVars
  <2>2. /\ pending' \in [Events -> Seq(Promises)]
        /\ \A v \in Events : pending'[v] = IF v = EventOf[e] THEN <<>> ELSE pending[v]
    <3>1. <<>> \in Seq(Promises)
      OBVIOUS
    <3> QED BY <1>0, <2>1, <3>1 DEF SettleInv, SettleTypeOK
  <2>3. SettleTypeOK' /\ WorkIsOwn'
    BY <2>1, <2>2 DEF SettleInv, SettleTypeOK, WorkIsOwn
  <2>4. ListsOK'
    BY <2>1, <2>2 DEF SettleInv, ListsOK
  <2>5. ASSUME NEW d \in Emits PROVE IndicesOK(d)' /\ RoundOK(d)' /\ OwedOK(d)'
    <3>1. CASE InProgress(d) /\ d # e
      <4>1. EventOf[d] # EventOf[e] /\ pc'[d] = pc[d]
        BY <2>1, <3>1 DEF NestInv, OnePerInstance, InProgress, NestTypeOK
      <4>2. pending'[EventOf[d]] = pending[EventOf[d]]
        BY <1>0, <2>2, <4>1
      <4>3. Gathered(d)' = Gathered(d)
        BY <2>1, <4>2 DEF Gathered
      <4>4. IndicesOK(d)' /\ RoundOK(d)'
        BY <2>1, <3>1, <4>1, <4>2 DEF SettleInv, IndicesOK, RoundOK, InProgress
      <4>5. OwedOK(d)'
        BY <2>1, <4>1, <4>3 DEF SettleInv, OwedOK, Owes
      <4> QED BY <4>4, <4>5
    <3>2. CASE ~InProgress(d) \/ d = e
      <4>1. /\ pc'[d] \notin {"dispatching", "settling", "clearing"}
            /\ pc[d] \notin {"dispatching", "settling"}
            /\ pc'[d] = "idle" => pc[d] = "idle"
        BY <2>1, <3>2 DEF NestInv, NestTypeOK, InProgress
      <4>2. IndicesOK(d)' /\ RoundOK(d)'
        BY <2>1, <4>1 DEF SettleInv, IndicesOK, RoundOK, InProgress
      <4>3. OwedOK(d)'
        BY <2>1, <4>1 DEF SettleInv, OwedOK, Owes
      <4> QED BY <4>2, <4>3
    <3> QED BY <3>1, <3>2
  <2> QED BY <2>3, <2>4, <2>5 DEF SettleInv
<1>5. ASSUME NEW p \in Promises, Settle(p) PROVE SettleInv'
  <2>1. /\ promise' = [promise EXCEPT ![p] = "settled"]
        /\ UNCHANGED <<pc, work, pending, handlers, waited, round, late, found>>
    BY <1>5 DEF Settle, settleVars
  <2>2. \A q \in Promises : /\ promise'[q] = "pending" => promise[q] = "pending"
                            /\ promise[q] # "none" => promise'[q] # "none"
    BY <2>1 DEF SettleInv, SettleTypeOK
  <2>3. SettleTypeOK' /\ WorkIsOwn'
    BY <2>1 DEF SettleInv, SettleTypeOK, WorkIsOwn
  <2>4. ListsOK'
    <3>1. \A v \in Events : \A i \in 1..Len(pending[v]) : pending[v][i] \in Promises
      BY DEF SettleInv, SettleTypeOK
    <3>2. \A d \in Emits : \A q \in found[d] : q \in Promises
      BY DEF SettleInv, SettleTypeOK
    <3> QED BY <2>1, <2>2, <3>1, <3>2 DEF SettleInv, ListsOK
  <2>5. ASSUME NEW d \in Emits PROVE IndicesOK(d)' /\ RoundOK(d)'
    BY <2>1 DEF SettleInv, IndicesOK, RoundOK, InProgress
  <2>6. ASSUME NEW d \in Emits PROVE OwedOK(d)'
    <3>1. Gathered(d)' = Gathered(d)
      BY <2>1 DEF Gathered
    <3> QED BY <2>1, <2>2, <3>1 DEF SettleInv, OwedOK, Owes
  <2> QED BY <2>3, <2>4, <2>5, <2>6 DEF SettleInv
<1>6. ASSUME NEW p \in Promises, WaitUntil(p) PROVE SettleInv'
  <2>1. /\ p[2] > 0 /\ promise[p] = "none"
        /\ stack # <<>> => Executing(p[1])
        /\ promise' = [promise EXCEPT ![p] = "pending"]
        /\ pending' = [pending EXCEPT ![EventOf[p[1][1]]] = Append(@, p)]
        /\ late' = IF ~Executing(p[1]) /\ promise[Result(p[1])] # "pending"
                   THEN late \cup {p} ELSE late
        /\ UNCHANGED <<pc, work, handlers, waited, round, found>>
    BY <1>6 DEF WaitUntil, settleVars
  <2>2. PICK e \in Emits : e = p[1][1]
    BY PromiseParts
  <2>3. PICK v \in Events : v = EventOf[e]
    BY <1>0
  <2>4. /\ pending'[v] \in Seq(Promises) /\ Len(pending'[v]) = Len(pending[v]) + 1
        /\ pending'[v][Len(pending[v]) + 1] = p /\ Len(pending[v]) \in Nat
        /\ \A i \in 1..Len(pending[v]) : pending'[v][i] = pending[v][i]
        /\ \A w \in Events : w # v => pending'[w] = pending[w]
        /\ pending' \in [Events -> Seq(Promises)]
    <3>1. pending'[v] = Append(pending[v], p) /\ pending[v] \in Seq(Promises)
      BY <2>1, <2>2, <2>3 DEF SettleInv, SettleTypeOK
    <3>2. \A w \in Events : w # v => pending'[w] = pending[w]
      BY <2>1, <2>2, <2>3 DEF SettleInv, SettleTypeOK
    <3>3. Append(pending[v], p) \in Seq(Promises)
      BY <3>1, Appended
    <3>4. pending' \in [Events -> Seq(Promises)]
      BY <2>1, <2>2, <2>3, <3>3 DEF SettleInv, SettleTypeOK
    <3> QED BY <3>1, <3>2, <3>4, Appended
  <2>5. /\ \A q \in Promises : q # p => promise'[q] = promise[q]
        /\ promise'[p] = "pending"
        /\ promise' \in [Promises -> {"none", "pending", "settled"}]
    BY <2>1 DEF SettleInv, SettleTypeOK
  <2>6. late \subseteq late' /\ late' \subseteq late \cup {p}
    BY <2>1
  <2>7. SettleTypeOK' /\ WorkIsOwn'
    BY <2>1, <2>4, <2>5, <2>6 DEF SettleInv, SettleTypeOK, WorkIsOwn
  <2>8. ListsOK'
    <3>1. ASSUME NEW w \in Events, NEW i \in 1..Len(pending'[w])
          PROVE  pending'[w][i][2] > 0 /\ promise'[pending'[w][i]] # "none"
      <4>1. CASE w = v /\ i = Len(pending[v]) + 1
        BY <2>1, <2>4, <2>5, <4>1
      <4>2. CASE w # v \/ i # Len(pending[v]) + 1
        <5>1. i \in 1..Len(pending[w]) /\ pending'[w][i] = pending[w][i]
          BY <2>4, <4>2
        <5>2. pending[w][i] \in Promises
          BY <5>1 DEF SettleInv, SettleTypeOK
        <5>3. pending[w][i][2] > 0 /\ promise[pending[w][i]] # "none"
          BY <5>1 DEF SettleInv, ListsOK
        <5> QED BY <2>5, <5>1, <5>2, <5>3
      <4> QED BY <4>1, <4>2
    <3>2. \A d \in Emits : \A q \in found[d] : q \in Promises
      BY DEF SettleInv, SettleTypeOK
    <3>3. \A d \in Emits : \A q \in found'[d] : q[2] > 0 /\ promise'[q] # "none"
      BY <2>1, <2>5, <3>2 DEF SettleInv, ListsOK
    <3>4. \A q \in late' : q[2] > 0
      BY <2>1, <2>6 DEF SettleInv, ListsOK
    <3> QED BY <3>1, <3>3, <3>4 DEF ListsOK
  <2>9. \A d \in Emits : p \notin found[d]
    BY <2>1 DEF SettleInv, ListsOK
  <2>10. ASSUME NEW d \in Emits PROVE IndicesOK(d)'
    BY <1>0, <2>1, <2>3, <2>4 DEF SettleInv, IndicesOK, InProgress
  <2>11. ASSUME NEW d \in Emits PROVE RoundOK(d)'
    <3>1. ASSUME InProgress(d), NEW i \in (waited[d] + 1)..Len(pending'[EventOf[d]])
          PROVE  pending'[EventOf[d]][i] \notin found[d]
      <4>1. CASE EventOf[d] = v /\ i = Len(pending[v]) + 1
        BY <2>4, <2>9, <4>1
      <4>2. CASE EventOf[d] # v \/ i # Len(pending[v]) + 1
        <5>1. i \in (waited[d] + 1)..Len(pending[EventOf[d]]) /\ i \in 1..Len(pending[EventOf[d]])
          BY <1>0, <2>4, <4>2
        <5>2. pending'[EventOf[d]][i] = pending[EventOf[d]][i]
          BY <1>0, <2>4, <5>1
        <5> QED BY <3>1, <5>1, <5>2 DEF SettleInv, RoundOK
      <4> QED BY <4>1, <4>2
    <3>2. /\ pc[d] \in {"idle", "dispatching"} => round[d] = {}
          /\ \A q \in round[d] : q \notin found[d]
      BY DEF SettleInv, RoundOK
    <3> QED BY <2>1, <3>1, <3>2 DEF RoundOK, InProgress
  <2>12. \A d \in Emits : Gathered(d) \subseteq Gathered(d)'
    <3> SUFFICES ASSUME NEW d \in Emits PROVE Gathered(d) \subseteq Gathered(d)'
      OBVIOUS
    <3>1. ASSUME NEW i \in (waited[d] + 1)..Len(pending[EventOf[d]])
          PROVE  /\ i \in (waited[d] + 1)..Len(pending'[EventOf[d]])
                 /\ pending'[EventOf[d]][i] = pending[EventOf[d]][i]
      <4>1. CASE EventOf[d] = v
        <5>1. i \in 1..Len(pending[v])
          BY <1>0, <4>1
        <5> QED BY <1>0, <2>4, <4>1, <5>1
      <4>2. CASE EventOf[d] # v
        BY <1>0, <2>4, <4>2
      <4> QED BY <4>1, <4>2
    <3> QED BY <2>1, <3>1 DEF Gathered
  <2>13. InProgress(e) => p \in Gathered(e)'
    <3> SUFFICES ASSUME InProgress(e) PROVE p \in Gathered(e)'
      OBVIOUS
    <3>1. waited[e] <= Len(pending[v])
      BY <2>3 DEF SettleInv, IndicesOK
    <3>2. Len(pending[v]) + 1 \in (waited[e] + 1)..Len(pending'[v])
      BY <1>0, <2>4, <3>1
    <3> QED BY <2>1, <2>3, <2>4, <3>2 DEF Gathered
  <2>14. p \notin late' => pc[e] \in {"dispatching", "settling"}
    <3> SUFFICES ASSUME p \notin late' PROVE pc[e] \in {"dispatching", "settling"}
      OBVIOUS
    <3>1. CASE Executing(p[1])
      BY <2>2, <3>1 DEF Executing, NestInv, StackOK
    <3>2. CASE ~Executing(p[1])
      <4>1. promise[Result(p[1])] = "pending"
        BY <2>1, <3>2
      <4>2. Result(p[1]) \notin late
        BY PromiseParts DEF SettleInv, ListsOK
      <4>3. Owes(e, Result(p[1])) /\ Result(p[1]) \in Promises
        BY <2>2, <4>1, <4>2, PromiseParts DEF Owes
      <4> QED BY <4>3 DEF SettleInv, OwedOK
    <3> QED BY <3>1, <3>2
  <2>15. ASSUME NEW d \in Emits PROVE OwedOK(d)'
    <3> SUFFICES ASSUME NEW q \in Promises, Owes(d, q)'
                 PROVE  /\ pc[d] \in {"dispatching", "settling"}
                        /\ q \in round[d] \/ q \in Gathered(d)'
      BY <2>1 DEF OwedOK
    <3>1. CASE q = p
      BY <2>2, <2>13, <2>14, <3>1 DEF Owes, InProgress
    <3>2. CASE q # p
      <4>1. Owes(d, q)
        BY <2>5, <2>6, <3>2 DEF Owes
      <4> QED BY <2>12, <4>1 DEF SettleInv, OwedOK
    <3> QED BY <3>1, <3>2
  <2> QED BY <2>7, <2>8, <2>10, <2>11, <2>15 DEF SettleInv
<1>7. ASSUME (\E e \in Emits : Call(e)) \/ UNCHANGED eventVars PROVE SettleInv'
  <2>1. UNCHANGED <<pc, promise, work, pending, handlers, waited, round, late, found>>
    BY <1>7 DEF Call, eventVars, settleVars
  <2> QED BY <2>1, SettleUnchanged
<1> QED BY <1>1, <1>2, <1>3, <1>4, <1>5, <1>6, <1>7 DEF BusNext

(* An emit that is over left nothing of its own pending that was handed    *)
(* over in time, and never awaited a nested dispatch's work or what an     *)
(* earlier emit left in the list: for any number of emits, listeners and   *)
(* waitUntil calls, when an instance is not emitted again before its emit  *)
(* is over.                                                                *)
THEOREM EmitAlwaysAwaitsWork ==
  ASSUME Reemits = FALSE
  PROVE  BusSpec => []EmitAwaitsWork
<1> USE EventBusAssumption
<1>1. BusInit => NestInv
  <2> SUFFICES ASSUME BusInit PROVE NestInv
    OBVIOUS
  <2>1. stack = <<>> /\ Len(stack) = 0 /\ stack \in Seq(Emits)
    BY DEF BusInit
  <2>2. NestTypeOK
    BY <2>1 DEF BusInit, NestTypeOK
  <2>3. StackOK
    BY <2>1 DEF BusInit, StackOK
  <2>4. OnePerInstance
    BY DEF BusInit, OnePerInstance, InProgress
  <2> QED BY <2>2, <2>3, <2>4 DEF NestInv
<1>2. BusInit => SettleInv
  <2> SUFFICES ASSUME BusInit PROVE SettleInv
    OBVIOUS
  <2>1. <<>> \in Seq(Promises)
    OBVIOUS
  <2>2. SettleTypeOK
    BY <2>1 DEF BusInit, SettleTypeOK
  <2>3. \A e \in Emits : Len(work[e]) = 0 /\ EventOf[e] \in Events /\ Len(pending[EventOf[e]]) = 0
    BY DEF BusInit, Events
  <2>4. WorkIsOwn /\ ListsOK
    BY <2>3 DEF BusInit, WorkIsOwn, ListsOK
  <2>5. ASSUME NEW e \in Emits PROVE IndicesOK(e) /\ RoundOK(e) /\ OwedOK(e)
    BY <2>3 DEF BusInit, IndicesOK, RoundOK, OwedOK, Owes, InProgress
  <2> QED BY <2>2, <2>4, <2>5 DEF SettleInv
<1>3. NestInv /\ SettleInv => EmitAwaitsWork
  <2> SUFFICES ASSUME SettleInv, NEW e \in Emits
               PROVE  /\ pc[e] = "done" =>
                           \A p \in Promises : p[1][1] = e /\ p \notin late => promise[p] # "pending"
                      /\ \A i \in DOMAIN work[e] : work[e][i][1][1] = e
                      /\ round[e] \cap found[e] = {}
    BY DEF EmitAwaitsWork
  <2>1. pc[e] = "done" =>
          \A p \in Promises : p[1][1] = e /\ p \notin late => promise[p] # "pending"
    BY DEF SettleInv, OwedOK, Owes
  <2>2. \A i \in DOMAIN work[e] : work[e][i][1][1] = e
    <3>1. DOMAIN work[e] = 1..Len(work[e])
      BY DEF SettleInv, SettleTypeOK
    <3> QED BY <3>1 DEF SettleInv, WorkIsOwn
  <2>3. round[e] \cap found[e] = {}
    BY DEF SettleInv, RoundOK
  <2> QED BY <2>1, <2>2, <2>3
<1>4. NestInv /\ [BusNext]_eventVars => NestInv'
  BY NestInductive
<1>5. NestInv /\ NestInv' /\ SettleInv /\ [BusNext]_eventVars => SettleInv'
  BY SettleInductive
<1> QED BY <1>1, <1>2, <1>3, <1>4, <1>5, PTL DEF BusSpec
=============================================================================
