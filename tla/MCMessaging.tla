---------------------------- MODULE MCMessaging ----------------------------
(***************************************************************************)
(* What runs handlers and delivers messages, each on its own.  `part` says *)
(* which of them a behaviour is about; the others stay in one initial      *)
(* state, with their options pinned.                                       *)
(*   schedule: a cron, an interval that is replaced under its own name and *)
(*     a one-shot.                                                         *)
(*   events: two emits of one instance, one after the other, and an emit   *)
(*     of another event, which may be nested in either.                    *)
(*   queue: two queues, two jobs on the first and one on the second.       *)
(*   amqp: two subscriptions with a message each.                          *)
(*   relay: two nodes and two messages, either of which any node may send. *)
(*   sse: one response, with or without a heartbeat.                       *)
(***************************************************************************)
EXTENDS Schedule, EventBus, QueueWorkers, Amqp, Relay, SseStream, TLC

CONSTANTS cron, tick, retick, boot, e1, e2, other, shared, single,
          j1, j2, j3, letter1, letter2

MCArmed == {cron, tick, retick, boot}
MCName == [a \in MCArmed |-> CASE a = cron -> "cron" [] a = boot -> "boot" [] OTHER -> "tick"]
MCKind == [a \in MCArmed |-> CASE a = cron -> "cron" [] a = boot -> "once" [] OTHER -> "interval"]
AllSkip == [a \in MCArmed |-> "skip"]

MCEmits == {e1, e2, other}
MCEventOf == [e \in MCEmits |-> IF e = other THEN single ELSE shared]

MCJobs == {j1, j2, j3}
MCQueueOf == [j \in MCJobs |-> IF j = j3 THEN 2 ELSE 1]

MCLetters == {letter1, letter2}
MCOnSub == [m \in MCLetters |-> IF m = letter1 THEN 1 ELSE 2]

VARIABLE part

Parts == {"schedule", "events", "queue", "amqp", "relay", "sse"}

(* The options of the parts a behaviour is not about.                      *)
Pinned ==
  /\ part # "amqp" => requeue = FALSE
  /\ part # "sse" => beating = FALSE

MCInit ==
  /\ part \in Parts
  /\ ScheduleInit /\ BusInit /\ QueueInit /\ AmqpInit /\ RelayInit /\ SseInit
  /\ Pinned

MCNext ==
  \/ /\ part = "schedule" /\ ScheduleNext
     /\ UNCHANGED <<part, eventVars, queueVars, amqpVars, relayVars, sseVars>>
  \/ /\ part = "events" /\ BusNext
     /\ UNCHANGED <<part, scheduleVars, queueVars, amqpVars, relayVars, sseVars>>
  \/ /\ part = "queue" /\ QueueNext
     /\ UNCHANGED <<part, scheduleVars, eventVars, amqpVars, relayVars, sseVars>>
  \/ /\ part = "amqp" /\ AmqpNext
     /\ UNCHANGED <<part, scheduleVars, eventVars, queueVars, relayVars, sseVars>>
  \/ /\ part = "relay" /\ RelayNext
     /\ UNCHANGED <<part, scheduleVars, eventVars, queueVars, amqpVars, sseVars>>
  \/ /\ part = "sse" /\ SseNext
     /\ UNCHANGED <<part, scheduleVars, eventVars, queueVars, amqpVars, relayVars>>

MCSpec ==
  /\ MCInit
  /\ [][MCNext]_<<part, scheduleVars, eventVars, queueVars, amqpVars, relayVars, sseVars>>

(* Nodes are interchangeable, and so are the messages they send.           *)
Symmetry == Permutations(Nodes) \cup Permutations(Messages)
=============================================================================
