-------------------------------- MODULE Amqp --------------------------------
(***************************************************************************)
(* The RabbitMQ half of packages/infra/src/amqp: AmqpSubscriber            *)
(* (subscriber.ts) with AmqpDispatcher (dispatcher.ts), AmqpConnection     *)
(* (connection.ts), AmqpPublisher (publisher.ts), and the order in which   *)
(* AmqpRunner (runner.ts) and the container tear them down.  The broker    *)
(* and rabbitmq-client are external: a consumer is set up again after each *)
(* reconnect, a delivery not answered on its own channel is queued again,  *)
(* and closing a consumer waits for the deliveries it has handed out.      *)
(***************************************************************************)
EXTENDS Integers, FiniteSets

CONSTANTS
  LastSub,        \* the subscriptions are 1..LastSub, one queue each
  Letters, OnSub, \* the messages and the subscription each is for
  MaxDeliveries   \* bound of the model: how often a message is delivered

Subs == 1..LastSub

ASSUME AmqpAssumption ==
  LastSub \in Nat \ {0} /\ OnSub \in [Letters -> Subs] /\ MaxDeliveries \in Nat

VARIABLES
  requeue,     \* the props.requeue of this process: what a failed handler asks for
  conn,        \* #connection: "none", "open", "closing", "destroyed"
  connClosed,  \* #closed
  reachable,   \* whether the broker is
  publisher,   \* #publisher is set
  consumer,    \* per subscription: "none", "setup", "consuming", "closing", "closed"
  consumers,   \* #consumers
  started,     \* start(): "no", "waiting", "failing", "failed", "done"
  stopped,     \* stop(): "no", "draining", "done"
  drains,      \* the consumers stop() spliced off and drains
  undrained,   \* those of them it gave up on, or whose close rejected
  letter,      \* per message: "queued", "delivered", "gone"
  deliveries,
  stray,       \* per message: handler calls still running that nobody waits for
  handled,     \* history: messages some handler call returned for
  failedOn     \* history: messages some handler call threw or timed out on

brokerVars == <<letter, deliveries, stray, handled, failedOn>>
amqpVars == <<requeue, conn, connClosed, reachable, publisher, consumer, consumers, started,
              stopped, drains, undrained, brokerVars>>

AmqpInit ==
  /\ requeue \in BOOLEAN
  /\ conn = "none" /\ connClosed = FALSE /\ reachable = TRUE /\ publisher = FALSE
  /\ consumer = [q \in Subs |-> "none"] /\ consumers = {}
  /\ started = "no" /\ stopped = "no" /\ drains = {} /\ undrained = {}
  /\ letter = [m \in Letters |-> "queued"]
  /\ deliveries = [m \in Letters |-> 0] /\ stray = [m \in Letters |-> 0]
  /\ handled = {} /\ failedOn = {}

-----------------------------------------------------------------------------
\* connection(): the live one, or a new one unless teardown has run.
Connects ==
  \/ conn = "open"
  \/ conn = "none" /\ ~connClosed

\* start(): every consumer is opened before the first await, and the k-th
\* createConsumer() may throw, after which those opened are stopped.
Consume(k) ==
  /\ started = "no" /\ Connects
  /\ conn' = "open"
  /\ consumers' = {q \in Subs : q < k}
  /\ consumer' = [q \in Subs |-> IF q < k THEN "setup" ELSE "none"]
  /\ started' = IF k > LastSub THEN "waiting" ELSE "failing"
  /\ UNCHANGED <<requeue, connClosed, reachable, publisher, stopped, drains, undrained, brokerVars>>

\* Each consumer reported itself set up, or its readyTimeoutMs ran out.
StartSettles ==
  /\ started = "waiting" /\ started' = "done"
  /\ UNCHANGED <<requeue, conn, connClosed, reachable, publisher, consumer, consumers, stopped,
                 drains, undrained, brokerVars>>

\* start() rejects once its stop() has drained.
StartRejects ==
  /\ started = "failing" /\ stopped = "done" /\ started' = "failed"
  /\ UNCHANGED <<requeue, conn, connClosed, reachable, publisher, consumer, consumers, stopped,
                 drains, undrained, brokerVars>>

\* stop(), by the failed start() or by AmqpRunner.onShutdown().
Stop ==
  /\ started # "no" /\ stopped = "no"
  /\ stopped' = "draining" /\ drains' = consumers /\ consumers' = {}
  /\ consumer' = [q \in Subs |-> IF q \in consumers THEN "closing" ELSE consumer[q]]
  /\ UNCHANGED <<requeue, conn, connClosed, reachable, publisher, started, undrained, brokerVars>>

DeliveredOn(q) == {m \in Letters : OnSub[m] = q /\ letter[m] = "delivered"}

\* Mutant: the drain does not ask whether deliveries are out.
DrainsAtOnce(q) == TRUE
\* Consumer.close() resolves when no delivery it handed out is pending.
NothingOut(q) == DeliveredOn(q) = {}

ConsumerCloses(q) ==
  /\ consumer[q] = "closing" /\ NothingOut(q)
  /\ consumer' = [consumer EXCEPT ![q] = "closed"]
  /\ UNCHANGED <<requeue, conn, connClosed, reachable, publisher, consumers, started, stopped,
                 drains, undrained, brokerVars>>

\* #drain() settles without that: drainTimeoutMs ran out, or close() rejected.
GivesUp(q) ==
  /\ stopped = "draining" /\ q \in drains \ undrained /\ consumer[q] = "closing"
  /\ undrained' = undrained \cup {q}
  /\ UNCHANGED <<requeue, conn, connClosed, reachable, publisher, consumer, consumers, started,
                 stopped, drains, brokerVars>>

StopSettled ==
  /\ stopped = "draining"
  /\ \A q \in drains : consumer[q] = "closed" \/ q \in undrained
  /\ stopped' = "done"
  /\ UNCHANGED <<requeue, conn, connClosed, reachable, publisher, consumer, consumers, started,
                 drains, undrained, brokerVars>>

-----------------------------------------------------------------------------
\* AmqpPublisher.publish(): publisher() opens one channel over connection().
SendMessage ==
  /\ Connects /\ conn' = "open" /\ publisher' = TRUE
  /\ UNCHANGED <<requeue, connClosed, reachable, consumer, consumers, started, stopped, drains,
                 undrained, brokerVars>>

\* AmqpPublisher.onShutdown(), between the runner's and the connection's.
ClosePublisher ==
  /\ publisher /\ (stopped = "done" \/ started = "no") /\ publisher' = FALSE
  /\ UNCHANGED <<requeue, conn, connClosed, reachable, consumer, consumers, started, stopped,
                 drains, undrained, brokerVars>>

\* AmqpConnection.onShutdown(): last in teardown, or by the runner whose start()
\* failed.
CloseConnection ==
  /\ ~connClosed
  /\ \/ ~publisher /\ (started = "no" \/ (stopped = "done" /\ started \in {"done", "waiting"}))
     \/ started = "failed"
  /\ connClosed' = TRUE
  /\ conn' = IF conn = "open" THEN "closing" ELSE conn
  /\ UNCHANGED <<requeue, reachable, publisher, consumer, consumers, started, stopped, drains,
                 undrained, brokerVars>>

\* The deliveries that are out go back to their queues; their handlers run on.
Requeues ==
  /\ letter' = [m \in Letters |-> IF letter[m] = "delivered" THEN "queued" ELSE letter[m]]
  /\ stray' = [m \in Letters |-> IF letter[m] = "delivered" THEN stray[m] + 1 ELSE stray[m]]
  /\ UNCHANGED <<deliveries, handled, failedOn>>

\* unsafeDestroy(), whether the close finished, threw or ran out of time.
Destroy ==
  /\ conn = "closing" /\ conn' = "destroyed" /\ Requeues
  /\ UNCHANGED <<requeue, connClosed, reachable, publisher, consumer, consumers, started, stopped,
                 drains, undrained>>

-----------------------------------------------------------------------------
\* The broker and the library.
Lost ==
  /\ reachable /\ conn \in {"open", "closing"} /\ reachable' = FALSE /\ Requeues
  /\ consumer' = [q \in Subs |-> IF consumer[q] = "consuming" THEN "setup" ELSE consumer[q]]
  /\ UNCHANGED <<requeue, conn, connClosed, publisher, consumers, started, stopped, drains, undrained>>

Back ==
  /\ ~reachable /\ reachable' = TRUE
  /\ UNCHANGED <<requeue, conn, connClosed, publisher, consumer, consumers, started, stopped, drains,
                 undrained, brokerVars>>

SetUp(q) ==
  /\ consumer[q] = "setup" /\ reachable /\ conn = "open"
  /\ consumer' = [consumer EXCEPT ![q] = "consuming"]
  /\ UNCHANGED <<requeue, conn, connClosed, reachable, publisher, consumers, started, stopped,
                 drains, undrained, brokerVars>>

\* dispatch() is called for a delivery.
Deliver(m) ==
  /\ letter[m] = "queued" /\ consumer[OnSub[m]] = "consuming" /\ deliveries[m] < MaxDeliveries
  /\ letter' = [letter EXCEPT ![m] = "delivered"]
  /\ deliveries' = [deliveries EXCEPT ![m] = @ + 1]
  /\ UNCHANGED <<requeue, conn, connClosed, reachable, publisher, consumer, consumers, started,
                 stopped, drains, undrained, stray, handled, failedOn>>

\* REQUEUE or DROP, by the queue's requeue.
OnFailure == IF requeue THEN "queued" ELSE "gone"

\* The handler returned: ACK, or the status it returned instead.
HandlerReturns(m) ==
  /\ letter[m] = "delivered" /\ handled' = handled \cup {m}
  /\ \E answer \in {"gone", "queued"} : letter' = [letter EXCEPT ![m] = answer]
  /\ UNCHANGED <<requeue, conn, connClosed, reachable, publisher, consumer, consumers, started,
                 stopped, drains, undrained, deliveries, stray, failedOn>>

\* It threw, or handlerTimeoutMs ran out and it runs on.
HandlerFails(m) ==
  /\ letter[m] = "delivered" /\ failedOn' = failedOn \cup {m}
  /\ letter' = [letter EXCEPT ![m] = OnFailure]
  /\ \E late \in {0, 1} : stray' = [stray EXCEPT ![m] = @ + late]
  /\ UNCHANGED <<requeue, conn, connClosed, reachable, publisher, consumer, consumers, started,
                 stopped, drains, undrained, deliveries, handled>>

\* A call nobody waits for ends: its answer goes nowhere.
StrayEnds(m) ==
  /\ stray[m] > 0 /\ stray' = [stray EXCEPT ![m] = @ - 1]
  /\ UNCHANGED <<requeue, conn, connClosed, reachable, publisher, consumer, consumers, started,
                 stopped, drains, undrained, letter, deliveries, handled, failedOn>>

AmqpNext ==
  \/ \E k \in 1..LastSub + 1 : Consume(k)
  \/ StartSettles \/ StartRejects \/ Stop \/ StopSettled
  \/ SendMessage \/ ClosePublisher \/ CloseConnection \/ Destroy \/ Lost \/ Back
  \/ \E q \in Subs : ConsumerCloses(q) \/ GivesUp(q) \/ SetUp(q)
  \/ \E m \in Letters : Deliver(m) \/ HandlerReturns(m) \/ HandlerFails(m) \/ StrayEnds(m)

AmqpSpec == AmqpInit /\ [][AmqpNext]_amqpVars

-----------------------------------------------------------------------------
\* A message leaves the broker only by a handler that returned for it, or by a
\* failure when the queue does not requeue: no loss, timeout, failed start or
\* teardown takes one away.
NothingLost ==
  \A m \in Letters : letter[m] = "gone" => m \in handled \/ (~requeue /\ m \in failedOn)

\* Once the connection closes, a delivery that is still out is on a consumer
\* whose drain was given up, and every consumer start() opened is closed or was
\* given up: none outlives the teardown of a failed start either.  From then on
\* nothing opens a socket again: a late publish or start() finds it refused.
ClosedAfterDrain ==
  connClosed =>
    /\ conn # "open"
    /\ \A q \in Subs : consumer[q] \notin {"setup", "consuming"}
    /\ \A m \in Letters : letter[m] = "delivered" => OnSub[m] \in undrained

\* What becomes of a delivery: no loss, timeout, failed start or teardown takes a
\* message away, and none is out on a connection that closed but those given up.
DeliveriesAccounted == NothingLost /\ ClosedAfterDrain
=============================================================================
