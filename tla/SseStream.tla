----------------------------- MODULE SseStream -----------------------------
(***************************************************************************)
(* A server-sent-events response (packages/http/src/sse/stream.ts): the    *)
(* pump SseStream.from() runs over a handler's events, the heartbeat, and  *)
(* the ReadableStream between them and the client.  The stream is external *)
(* (WHATWG, high-water mark 1): a read takes the oldest chunk or waits for *)
(* one, pull() is called at or after the moment the queue has emptied,     *)
(* cancel() when the client is gone.                                       *)
(***************************************************************************)
EXTENDS Integers, Sequences

CONSTANT MaxChunks   \* bound of the model: heartbeats are sent into a queue shorter than this

ASSUME SseAssumption == MaxChunks \in Nat \ {0}

VARIABLES
  chunks,     \* the stream's queue: "event" and "comment"
  wanted,     \* a read waits for a chunk
  pullDue,    \* the stream owes the source a pull()
  sseClosed,  \* #closed
  beating,    \* #timer is set
  drained,    \* #drained is set
  pump        \* "asking" the generator, "parked" in #backpressure, "ended"

sseVars == <<chunks, wanted, pullDue, sseClosed, beating, drained, pump>>

\* The constructor has sent its one comment; from() has asked for an event.
SseInit ==
  /\ chunks = <<"comment">> /\ wanted = FALSE /\ pullDue = FALSE
  /\ sseClosed = FALSE /\ beating \in BOOLEAN
  /\ drained = FALSE /\ pump = "asking"

\* controller.enqueue(): to the read that waits, else to the queue.
Enqueue(chunk) ==
  /\ chunks' = IF wanted THEN chunks ELSE Append(chunks, chunk)
  /\ wanted' = FALSE
  /\ pullDue' = (pullDue \/ wanted)

\* Mutant: a pump parked in #backpressure is not woken.
StopsSilently == sseClosed' = TRUE /\ beating' = FALSE /\ UNCHANGED <<drained, pump>>
\* #stop(): closed first, the parked pump goes on, the timer is cleared.
SseStop ==
  /\ sseClosed' = TRUE /\ beating' = FALSE /\ drained' = FALSE
  /\ pump' = IF drained THEN "asking" ELSE pump

\* #backpressure(): desiredSize is 0 or less.
Parks(size) == size >= 1

\* The generator yields and the stream is still open: send, then #backpressure.
Sends ==
  /\ pump = "asking" /\ ~sseClosed
  /\ Enqueue("event")
  /\ drained' = Parks(Len(chunks'))
  /\ pump' = IF Parks(Len(chunks')) THEN "parked" ELSE "asking"
  /\ Len(chunks) < MaxChunks
  /\ UNCHANGED <<sseClosed, beating>>

\* It yields after a disconnect: break, and close() finds the stream closed.
Breaks ==
  /\ pump = "asking" /\ sseClosed /\ pump' = "ended"
  /\ UNCHANGED <<chunks, wanted, pullDue, sseClosed, beating, drained>>

\* It ends or throws: close() or #fail(), and a read that waits gets the end.
PumpEnds ==
  /\ pump = "asking" /\ pump' = "ended"
  /\ sseClosed' = TRUE /\ beating' = FALSE /\ drained' = FALSE
  /\ wanted' = FALSE /\ UNCHANGED <<chunks, pullDue>>

Heartbeat ==
  /\ beating /\ ~sseClosed /\ Len(chunks) < MaxChunks
  /\ Enqueue("comment")
  /\ UNCHANGED <<sseClosed, beating, drained, pump>>

\* The client: it reads, and the stream owes a pull() once its queue is empty.
Read ==
  /\ ~wanted
  /\ IF chunks = <<>>
     THEN ~sseClosed /\ wanted' = TRUE /\ UNCHANGED <<chunks, pullDue>>
     ELSE /\ chunks' = Tail(chunks) /\ UNCHANGED wanted
          /\ pullDue' = (pullDue \/ (Tail(chunks) = <<>> /\ ~sseClosed))
  /\ UNCHANGED <<sseClosed, beating, drained, pump>>

\* pull(): #drained is resolved.  A pull() that was put off is not made if the
\* queue has filled again.
Pull ==
  /\ pullDue /\ pullDue' = FALSE
  /\ IF chunks = <<>>
     THEN drained' = FALSE /\ pump' = IF drained THEN "asking" ELSE pump
     ELSE UNCHANGED <<drained, pump>>
  /\ UNCHANGED <<chunks, wanted, sseClosed, beating>>

\* cancel(): the client disconnected and the queue is dropped.
Cancel ==
  /\ ~sseClosed /\ SseStop
  /\ chunks' = <<>> /\ wanted' = FALSE /\ pullDue' = FALSE

SseNext == Sends \/ Breaks \/ PumpEnds \/ Heartbeat \/ Read \/ Pull \/ Cancel

SseSpec == SseInit /\ [][SseNext]_sseVars

-----------------------------------------------------------------------------
\* A parked pump is always woken by something still to come: the stream is open
\* and a chunk is left to read or a pull() is due, so no disconnect, however it
\* falls between a send and its #backpressure, leaves the generator suspended.
\* And however slow the client, at most one event waits for it.
PumpKeepsPace ==
  /\ pump = "parked" => ~sseClosed /\ drained /\ (chunks # <<>> \/ pullDue)
  /\ \A i, j \in DOMAIN chunks : chunks[i] = "event" /\ chunks[j] = "event" => i = j
=============================================================================
