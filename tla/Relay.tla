------------------------------- MODULE Relay -------------------------------
(***************************************************************************)
(* Multi-node websocket fan-out: PubSub (packages/http/src/ws/pubsub.ts)   *)
(* on each node and the RedisRelay it was given (redis-relay.ts).  A       *)
(* publish goes to the node's own sockets and then to the broker, whose    *)
(* frames every subscribed node fans out locally, the publisher's own echo *)
(* excepted.  Redis and Bun's client are external: a client connects,      *)
(* subscribes and publishes asynchronously, any of it may fail, and a      *)
(* frame reaches the clients that are subscribed when it arrives.          *)
(* #relayFailing, which only keeps a warning from repeating, is left out.  *)
(***************************************************************************)
EXTENDS Integers, FiniteSets

CONSTANTS
  Nodes, Messages,
  MaxRetries,    \* RelayOptions.resubscribe.attempts
  Clients,       \* bound of the model: the RedisClients a node can have at a time
  NoClient

ASSUME RelayAssumption == MaxRetries \in Nat /\ NoClient \notin Clients \cup Nodes

Idle == [stage |-> "idle", client |-> NoClient]

VARIABLES
  server,     \* PubSub: #server is set
  relaying,   \* #relay is set
  retries,    \* #resubscribeLeft
  timer,      \* #resubscribeTimer is pending
  attempt,    \* the #trySubscribe in flight and the client it awaits
  pub, sub,   \* RedisRelay: #pub, #sub
  channel,    \* #channel is set
  releasing,  \* the subscriber close() awaits the UNSUBSCRIBE of
  opened,     \* the clients, as <<node, client>>, that are not closed
  listening,  \* the clients the broker has a subscription of
  author,     \* per message: the node that published it, or NoClient
  sending,    \* per message: its relay.publish(): "no", "sent", "accepted", "over"
  via,        \* ... and the client it went out on
  inbox,      \* frames on their way: <<client, message>>
  fanned,     \* per node and message: how often it was fanned out locally
  ended       \* history: the nodes that called close()

nodeVars == <<server, relaying, retries, timer, attempt>>
clientVars == <<pub, sub, channel, releasing, opened, listening>>
frameVars == <<author, sending, via, inbox, fanned>>
relayVars == <<nodeVars, clientVars, frameVars, ended>>

RelayInit ==
  /\ server = [n \in Nodes |-> FALSE] /\ relaying = [n \in Nodes |-> FALSE]
  /\ retries = [n \in Nodes |-> 0] /\ timer = [n \in Nodes |-> FALSE]
  /\ attempt = [n \in Nodes |-> Idle]
  /\ pub = [n \in Nodes |-> NoClient] /\ sub = [n \in Nodes |-> NoClient]
  /\ channel = [n \in Nodes |-> FALSE] /\ releasing = [n \in Nodes |-> NoClient]
  /\ opened = {} /\ listening = {}
  /\ author = [m \in Messages |-> NoClient] /\ sending = [m \in Messages |-> "no"]
  /\ via = [m \in Messages |-> NoClient] /\ inbox = {}
  /\ fanned = [n \in Nodes |-> [m \in Messages |-> 0]]
  /\ ended = {}

-----------------------------------------------------------------------------
\* Clients nothing of the node refers to any more: new ones are taken from them.
Unused(n) ==
  {c \in Clients :
     /\ <<n, c>> \notin opened /\ attempt[n].client # c
     /\ \A m \in Messages : ~(author[m] = n /\ via[m] = c) /\ <<<<n, c>>, m>> \notin inbox}

\* current ??= new RedisClient
OrNew(n, current) == IF current = NoClient THEN CHOOSE c \in Unused(n) : TRUE ELSE current

\* The subscriber, made if there is none, and its connect().
Subscribes(n) ==
  /\ sub[n] # NoClient \/ Unused(n) # {}
  /\ sub' = [sub EXCEPT ![n] = OrNew(n, @)]
  /\ opened' = opened \cup {<<n, sub'[n]>>}
  /\ attempt' = [attempt EXCEPT ![n] = [stage |-> "connecting", client |-> sub'[n]]]

\* listen(): the server is attached and relayThrough() makes the first attempt.
RelayThrough(n) ==
  /\ ~relaying[n] /\ n \notin ended
  /\ server' = [server EXCEPT ![n] = TRUE]
  /\ relaying' = [relaying EXCEPT ![n] = TRUE]
  /\ retries' = [retries EXCEPT ![n] = MaxRetries]
  /\ Subscribes(n)
  /\ UNCHANGED <<timer, pub, channel, releasing, listening, frameVars, ended>>

\* The retry: #trySubscribe() with no relay left does nothing.
TimerFires(n) ==
  /\ timer[n] /\ timer' = [timer EXCEPT ![n] = FALSE]
  /\ IF relaying[n] THEN Subscribes(n) ELSE UNCHANGED <<sub, opened, attempt>>
  /\ UNCHANGED <<server, relaying, retries, pub, channel, releasing, listening, frameVars, ended>>

\* connect() resolved: SUBSCRIBE is sent.
Connected(n) ==
  /\ attempt[n].stage = "connecting" /\ <<n, attempt[n].client>> \in opened
  /\ attempt' = [attempt EXCEPT ![n].stage = "subscribing"]
  /\ UNCHANGED <<server, relaying, retries, timer, clientVars, frameVars, ended>>

BrokerSubscribes(n) ==
  /\ attempt[n].stage = "subscribing" /\ <<n, attempt[n].client>> \in opened
  /\ attempt' = [attempt EXCEPT ![n].stage = "subscribed"]
  /\ listening' = listening \cup {<<n, attempt[n].client>>}
  /\ UNCHANGED <<server, relaying, retries, timer, pub, sub, channel, releasing, opened,
                 frameVars, ended>>

\* The reply is in: the attempt is over, whatever close() did meanwhile.
SubscribeResolves(n) ==
  /\ attempt[n].stage = "subscribed"
  /\ attempt' = [attempt EXCEPT ![n] = Idle]
  /\ channel' = [channel EXCEPT ![n] = TRUE]
  /\ retries' = [retries EXCEPT ![n] = 0]
  /\ UNCHANGED <<server, relaying, timer, pub, sub, releasing, opened, listening,
                 frameVars, ended>>

\* The client a failed command used is discarded only if it is still the
\* current one of its kind.
Discarded(current, failed) == current = failed

\* connect() or subscribe() rejected: the client is discarded, then the failure
\* is reported and the next attempt scheduled.
SubscribeRejects(n) ==
  LET c == attempt[n].client
      discards == Discarded(sub[n], c)
      again == retries[n] > 0 /\ relaying[n] IN
  /\ attempt[n].stage # "idle"
  /\ attempt' = [attempt EXCEPT ![n] = Idle]
  /\ sub' = [sub EXCEPT ![n] = IF discards THEN NoClient ELSE @]
  /\ opened' = IF discards THEN opened \ {<<n, c>>} ELSE opened
  /\ listening' = IF discards THEN listening \ {<<n, c>>} ELSE listening
  /\ retries' = [retries EXCEPT ![n] = IF again THEN @ - 1 ELSE @]
  /\ timer' = [timer EXCEPT ![n] = @ \/ again]
  /\ UNCHANGED <<server, relaying, pub, channel, releasing, frameVars, ended>>

-----------------------------------------------------------------------------
\* publish(): the local fan-out, then #outbound() to the relay if there is one.
Publish(n, m) ==
  /\ author[m] = NoClient /\ server[n]
  /\ author' = [author EXCEPT ![m] = n]
  /\ fanned' = [fanned EXCEPT ![n][m] = @ + 1]
  /\ IF relaying[n]
     THEN /\ pub[n] # NoClient \/ Unused(n) # {}
          /\ pub' = [pub EXCEPT ![n] = OrNew(n, @)]
          /\ opened' = opened \cup {<<n, pub'[n]>>}
          /\ sending' = [sending EXCEPT ![m] = "sent"]
          /\ via' = [via EXCEPT ![m] = pub'[n]]
     ELSE UNCHANGED <<pub, opened, sending, via>>
  /\ UNCHANGED <<nodeVars, sub, channel, releasing, listening, inbox, ended>>

\* The broker takes the frame and sends it to every subscription it has.
BrokerAccepts(m) ==
  /\ sending[m] = "sent" /\ <<author[m], via[m]>> \in opened
  /\ sending' = [sending EXCEPT ![m] = "accepted"]
  /\ inbox' = inbox \cup {<<c, m>> : c \in listening}
  /\ UNCHANGED <<nodeVars, clientVars, author, via, fanned, ended>>

PublishResolves(m) ==
  /\ sending[m] = "accepted"
  /\ sending' = [sending EXCEPT ![m] = "over"] /\ via' = [via EXCEPT ![m] = NoClient]
  /\ UNCHANGED <<nodeVars, clientVars, author, inbox, fanned, ended>>

\* publish() rejected, whether the broker had accepted the frame or not.
PublishRejects(m) ==
  LET n == author[m]
      discards == Discarded(pub[n], via[m]) IN
  /\ sending[m] \in {"sent", "accepted"}
  /\ sending' = [sending EXCEPT ![m] = "over"] /\ via' = [via EXCEPT ![m] = NoClient]
  /\ pub' = [pub EXCEPT ![n] = IF discards THEN NoClient ELSE @]
  /\ opened' = IF discards THEN opened \ {<<n, via[m]>>} ELSE opened
  /\ UNCHANGED <<nodeVars, sub, channel, releasing, listening, author, inbox, fanned,
                 ended>>

\* Mutant: #inbound() fans out the echo of this node's own publish.
FansEcho(n, m) == server[n]
\* #inbound(): not this node's own frame, and a server is still attached.
FansOut(n, m) == author[m] # n /\ server[n]

Inbound(n, c, m) ==
  /\ <<<<n, c>>, m>> \in inbox /\ inbox' = inbox \ {<<<<n, c>>, m>>}
  /\ fanned' = [fanned EXCEPT ![n][m] = IF FansOut(n, m) THEN @ + 1 ELSE @]
  /\ UNCHANGED <<nodeVars, clientVars, author, sending, via, ended>>

\* The connection of a subscriber drops: with maxRetries 0 it does not come back.
Drops(n, c) ==
  /\ <<n, c>> \in listening /\ listening' = listening \ {<<n, c>>}
  /\ UNCHANGED <<nodeVars, pub, sub, channel, releasing, opened, frameVars, ended>>

-----------------------------------------------------------------------------
\* PubSub.close() before its await: no relay, no retry, no server.
LetsGo(n) ==
  /\ relaying' = [relaying EXCEPT ![n] = FALSE]
  /\ retries' = [retries EXCEPT ![n] = 0]
  /\ timer' = [timer EXCEPT ![n] = FALSE]
  /\ server' = [server EXCEPT ![n] = FALSE]

\* Mutant: a subscriber with no channel yet is forgotten and not closed.
ShutsPublisher(n) == {<<n, pub[n]>>}
\* RedisRelay.close() up to its await: #pub is closed, and the subscriber too
\* unless a channel has to be unsubscribed first.
ShutsAtOnce(n) == {<<n, pub[n]>>} \cup (IF channel[n] THEN {} ELSE {<<n, sub[n]>>})

\* close() of both, up to the await of the UNSUBSCRIBE.
Close(n) ==
  LET shut == ShutsAtOnce(n) IN
  /\ relaying[n] /\ n \notin ended
  /\ LetsGo(n)
  /\ pub' = [pub EXCEPT ![n] = NoClient] /\ sub' = [sub EXCEPT ![n] = NoClient]
  /\ channel' = [channel EXCEPT ![n] = FALSE]
  /\ releasing' = [releasing EXCEPT ![n] = IF channel[n] THEN sub[n] ELSE NoClient]
  /\ opened' = opened \ shut /\ listening' = listening \ shut
  /\ ended' = ended \cup {n}
  /\ UNCHANGED <<attempt, frameVars>>

\* UNSUBSCRIBE resolved or rejected: the subscriber is closed either way.
CloseEnds(n) ==
  /\ releasing[n] # NoClient
  /\ releasing' = [releasing EXCEPT ![n] = NoClient]
  /\ opened' = opened \ {<<n, releasing[n]>>} /\ listening' = listening \ {<<n, releasing[n]>>}
  /\ UNCHANGED <<nodeVars, pub, sub, channel, frameVars, ended>>

RelayNext ==
  \/ \E n \in Nodes :
       \/ RelayThrough(n) \/ TimerFires(n) \/ Connected(n) \/ BrokerSubscribes(n)
       \/ SubscribeResolves(n) \/ SubscribeRejects(n) \/ Close(n) \/ CloseEnds(n)
       \/ \E m \in Messages : Publish(n, m)
       \/ \E c \in Clients : Drops(n, c) \/ \E m \in Messages : Inbound(n, c, m)
  \/ \E m \in Messages : BrokerAccepts(m) \/ PublishResolves(m) \/ PublishRejects(m)

RelaySpec == RelayInit /\ [][RelayNext]_relayVars

-----------------------------------------------------------------------------
\* A message is fanned out at most once on each node, its author's echo, retried
\* subscriptions and rejected publishes the broker had accepted included.
DeliveredOnce == \A n \in Nodes, m \in Messages : fanned[n][m] <= 1

\* Every client a node has not closed is one its relay still holds or is
\* unsubscribing: a late failure on an old client loses no newer one.  A node
\* that called close() keeps no client but the one it is unsubscribing, waits on
\* no retry and fans out nothing, whatever was in flight at that time.
NoClientLeaked ==
  /\ \A c \in opened : c[2] \in {pub[c[1]], sub[c[1]], releasing[c[1]]}
  /\ \A n \in ended :
       /\ \A c \in Clients : <<n, c>> \in opened => releasing[n] = c
       /\ ~timer[n] /\ ~server[n]
=============================================================================
