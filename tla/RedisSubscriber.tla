-------------------------- MODULE RedisSubscriber --------------------------
(***************************************************************************)
(* Subscriptions of RedisConnection (packages/infra/src/redis/client.ts):  *)
(* subscribe() opens a second socket on first use, awaits its connect(),   *)
(* enters the listener in #listeners and sends SUBSCRIBE; unsubscribe()    *)
(* sends UNSUBSCRIBE and then drops the entry; onShutdown() closes the     *)
(* socket.  Bun's RedisClient is external: it connects, subscribes and     *)
(* unsubscribes asynchronously, and each of these may be rejected.         *)
(***************************************************************************)
EXTENDS FiniteSets

CONSTANTS
  Users, Channels, Listeners,
  Sockets,    \* bound of the model: the sockets there can be
  NoSocket,
  Racing      \* whether a call may start while another connects or is on its
              \* channel, and onShutdown() while one is in flight

ASSUME RedisSubscriberAssumption == NoSocket \notin Sockets /\ Racing \in BOOLEAN

VARIABLES
  subscriber,   \* #subscriber
  sockets,      \* the subscriber sockets that are open
  registry,     \* #listeners, as <<channel, listener>> pairs
  delivers,     \* per socket: the pairs its client delivers to
  asked,        \* per caller: where its call is
  shutDown      \* history: onShutdown() has run

subscriberVars == <<subscriber, sockets, registry, delivers, asked, shutDown>>

NoCall == [at |-> "idle", socket |-> NoSocket, on |-> {}, added |-> FALSE]

SubscriberInit ==
  /\ subscriber = NoSocket /\ sockets = {} /\ registry = {}
  /\ delivers = [s \in Sockets |-> {}]
  /\ asked = [c \in Users |-> NoCall] /\ shutDown = FALSE

\* The calls that may be in flight beside one about these entries.
Apart(on) ==
  \A c \in Users : asked[c].at # "connecting" /\ {p[1] : p \in asked[c].on} \cap {p[1] : p \in on} = {}

\* The entry is made, remembering whether this call added it, and SUBSCRIBE sent.
Registers(c, s, pair) ==
  /\ registry' = registry \cup {pair}
  /\ asked' = [asked EXCEPT ![c] = [at |-> "subscribing", socket |-> s, on |-> {pair},
                                  added |-> pair \notin registry]]

Subscribe(c, pair) ==
  /\ asked[c].at = "idle" /\ (Racing \/ (Apart({pair}) /\ ~shutDown))
  /\ IF subscriber = NoSocket
     THEN \E s \in Sockets \ sockets :
            /\ \A d \in Users : asked[d].socket # s
            /\ sockets' = sockets \cup {s}
            /\ delivers' = [delivers EXCEPT ![s] = {}]
            /\ asked' = [asked EXCEPT ![c] = [at |-> "connecting", socket |-> s, on |-> {pair},
                                            added |-> FALSE]]
            /\ UNCHANGED registry
     ELSE Registers(c, subscriber, pair) /\ UNCHANGED <<sockets, delivers>>
  /\ UNCHANGED <<subscriber, shutDown>>

\* connect() resolved: this socket is the subscriber from now on.
SocketConnects(c) ==
  /\ asked[c].at = "connecting" /\ asked[c].socket \in sockets
  /\ subscriber' = asked[c].socket
  /\ \E pair \in asked[c].on : Registers(c, asked[c].socket, pair)
  /\ UNCHANGED <<sockets, delivers, shutDown>>

\* The socket that did not connect is closed, not kept for the next call.
ConnectRejects(c) ==
  /\ asked[c].at = "connecting"
  /\ sockets' = sockets \ {asked[c].socket} /\ asked' = [asked EXCEPT ![c] = NoCall]
  /\ UNCHANGED <<subscriber, registry, delivers, shutDown>>

SubscribeSucceeds(c) ==
  /\ asked[c].at = "subscribing" /\ asked[c].socket \in sockets
  /\ delivers' = [delivers EXCEPT ![asked[c].socket] = @ \cup asked[c].on]
  /\ asked' = [asked EXCEPT ![c] = NoCall]
  /\ UNCHANGED <<subscriber, sockets, registry, shutDown>>

\* Mutant: a failed SUBSCRIBE takes the entry with it whoever added it.
Retracts(c) == registry \ asked[c].on
\* Only what this call added is this call's to undo.
Undoes(c) == IF asked[c].added THEN registry \ asked[c].on ELSE registry

SubscribeFails(c) ==
  /\ asked[c].at = "subscribing"
  /\ registry' = Undoes(c) /\ asked' = [asked EXCEPT ![c] = NoCall]
  /\ UNCHANGED <<subscriber, sockets, delivers, shutDown>>

-----------------------------------------------------------------------------
\* unsubscribe(channel, listener) or, with no listener, of the whole channel.
\* With no socket or no entry of the channel it returns.
Unsubscribe(c, ch, ls) ==
  LET on == {<<ch, l>> : l \in ls} IN
  /\ asked[c].at = "idle" /\ (Racing \/ (Apart(on) /\ ~shutDown))
  /\ subscriber # NoSocket /\ \E p \in registry : p[1] = ch
  /\ asked' = [asked EXCEPT ![c] = [at |-> "unsubscribing", socket |-> subscriber, on |-> on,
                                  added |-> FALSE]]
  /\ UNCHANGED <<subscriber, sockets, registry, delivers, shutDown>>

\* The entry goes only once the command has succeeded.
UnsubscribeSucceeds(c) ==
  /\ asked[c].at = "unsubscribing" /\ asked[c].socket \in sockets
  /\ delivers' = [delivers EXCEPT ![asked[c].socket] = @ \ asked[c].on]
  /\ registry' = registry \ asked[c].on
  /\ asked' = [asked EXCEPT ![c] = NoCall]
  /\ UNCHANGED <<subscriber, sockets, shutDown>>

UnsubscribeFails(c) ==
  /\ asked[c].at = "unsubscribing" /\ asked' = [asked EXCEPT ![c] = NoCall]
  /\ UNCHANGED <<subscriber, sockets, registry, delivers, shutDown>>

\* onShutdown(): the subscriber it holds is closed.
ShutDown ==
  /\ ~shutDown /\ (Racing \/ \A c \in Users : asked[c].at = "idle")
  /\ shutDown' = TRUE /\ registry' = {}
  /\ subscriber' = NoSocket /\ sockets' = sockets \ {subscriber}
  /\ UNCHANGED <<delivers, asked>>

SubscriberNext ==
  \/ \E c \in Users :
       \/ \E pair \in Channels \X Listeners : Subscribe(c, pair)
       \/ SocketConnects(c) \/ ConnectRejects(c) \/ SubscribeSucceeds(c) \/ SubscribeFails(c)
       \/ \E ch \in Channels : \/ Unsubscribe(c, ch, Listeners)
                               \/ \E l \in Listeners : Unsubscribe(c, ch, {l})
       \/ UnsubscribeSucceeds(c) \/ UnsubscribeFails(c)
  \/ ShutDown

SubscriberSpec == SubscriberInit /\ [][SubscriberNext]_subscriberVars

-----------------------------------------------------------------------------
\* A listener of a channel no call is about is in the registry exactly when the
\* wire delivers to it, whatever failed before, so a later unsubscribe() finds
\* what there is to undo; and no socket is open but the subscriber and the one a
\* call is connecting.
SubscriptionsAccounted ==
  /\ subscriber # NoSocket =>
       \A p \in Channels \X Listeners :
         (\A c \in Users : p[1] \notin {q[1] : q \in asked[c].on}) =>
           (p \in registry) = (p \in delivers[subscriber])
  /\ sockets \subseteq
       {subscriber} \cup {asked[c].socket : c \in {d \in Users : asked[d].at = "connecting"}}
=============================================================================
