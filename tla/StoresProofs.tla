---------------------------- MODULE StoresProofs ----------------------------
(***************************************************************************)
(* The shared stores for any number of callers, keys and requests: the     *)
(* cache's single flight and its dels, the Redis subscriptions, and the    *)
(* throttle's budget and windows.                                          *)
(***************************************************************************)
EXTENDS Throttle, Cache, RedisSubscriber, FiniteSetTheorems, SequenceTheorems, TLAPS

(* The cache.  Where a caller is, by what it asked for; the wire holds     *)
(* exactly the callers that wait for L2, each once; and the wrap that is   *)
(* loading is the one #inflight names.                                     *)
CallStates == {"idle", "near", "sent", "applied", "joined", "load", "setting", "kept",
               "set", "dropped", "done"}
Values == Callers \cup {Nothing, Earlier}

CacheTypes ==
  /\ tiers \in SUBSET {"local", "remote"} /\ wire \in Seq(Callers) /\ promoting \in Int
  /\ inflight \in Callers \cup {Nothing}
  /\ op \in [Callers -> Ops \cup {Nothing}] /\ pc \in [Callers -> CallStates]
  /\ read \in [Callers -> Values] /\ l1 \in Values /\ l2 \in Values
  /\ before \in [Callers -> [stored : SUBSET Values, loading : SUBSET Callers]]

Reads(c) == op[c] \in {"get", "wrap"}

PlaceOK ==
  \A c \in Callers :
    /\ pc[c] \in {"near", "applied"} => Reads(c)
    /\ pc[c] = "sent" => op[c] \in Ops
    /\ pc[c] \in {"joined", "load", "setting", "kept"} => op[c] = "wrap"
    /\ pc[c] = "set" => op[c] = "set"
    /\ pc[c] = "dropped" => op[c] = "del"
    /\ pc[c] \in {"sent", "applied", "setting"} => RemoteEnabled

WireOK ==
  /\ \A i \in DOMAIN wire : pc[wire[i]] \in {"sent", "setting"}
  /\ \A i, j \in DOMAIN wire : wire[i] = wire[j] => i = j
  /\ \A c \in Callers : pc[c] \in {"sent", "setting"} => \E i \in DOMAIN wire : wire[i] = c

FlightOK ==
  /\ \A c \in Callers : c \in Loading <=> inflight = c
  /\ inflight = Nothing => overtaken = FALSE

FlightInv == CacheTypes /\ PlaceOK /\ WireOK /\ FlightOK

(* The oldest command on the wire.                                         *)
LEMMA WireHead ==
  ASSUME FlightInv, wire # <<>>
  PROVE  /\ Head(wire) \in Callers /\ pc[Head(wire)] \in {"sent", "setting"}
         /\ Head(wire) = wire[1] /\ 1 \in DOMAIN wire
         /\ Tail(wire) \in Seq(Callers) /\ DOMAIN wire = 1..Len(wire) /\ Len(wire) \in Nat \ {0}
         /\ DOMAIN Tail(wire) = 1..(Len(wire) - 1)
         /\ \A i \in 1..(Len(wire) - 1) : Tail(wire)[i] = wire[i + 1]
         /\ RemoteEnabled
<1>1. wire \in Seq(Callers)
  BY DEF FlightInv, CacheTypes
<1>2. /\ Head(wire) \in Callers /\ Tail(wire) \in Seq(Callers) /\ Len(Tail(wire)) = Len(wire) - 1
      /\ \A i \in 1..Len(Tail(wire)) : Tail(wire)[i] = wire[i + 1]
  BY <1>1, HeadTailProperties
<1>3. Len(wire) \in Nat \ {0} /\ DOMAIN wire = 1..Len(wire)
  BY <1>1, EmptySeq, LenProperties
<1>4. Head(wire) = wire[1] /\ 1 \in DOMAIN wire
  BY <1>1, <1>3
<1>5. DOMAIN Tail(wire) = 1..(Len(wire) - 1)
  BY <1>2, <1>3, LenProperties
<1>6. pc[Head(wire)] \in {"sent", "setting"} /\ RemoteEnabled
  BY <1>2, <1>4 DEF FlightInv, WireOK, PlaceOK
<1> QED BY <1>2, <1>3, <1>4, <1>5, <1>6

(* Applying or failing the oldest command takes it, and it alone, off.     *)
LEMMA WireAdvances ==
  ASSUME FlightInv, wire # <<>>, wire' = Tail(wire),
         pc'[Head(wire)] \notin {"sent", "setting"},
         \A d \in Callers : d # Head(wire) =>
           pc'[d] = pc[d] \/ (pc[d] = "joined" /\ pc'[d] = "done")
  PROVE  WireOK'
<1> DEFINE c == Head(wire)  n == Len(wire)
<1>1. /\ c \in Callers /\ c = wire[1] /\ 1 \in DOMAIN wire /\ DOMAIN wire = 1..n
      /\ n \in Nat \ {0} /\ DOMAIN wire' = 1..(n - 1)
      /\ \A i \in 1..(n - 1) : wire'[i] = wire[i + 1]
  BY WireHead
<1>2. \A i \in 1..(n - 1) : i + 1 \in DOMAIN wire /\ i + 1 # 1
  BY <1>1
<1>3. \A i \in 1..(n - 1) : wire'[i] # c /\ wire'[i] \in Callers
  <2>1. \A i \in 1..(n - 1) : wire[i + 1] # wire[1]
    BY <1>1, <1>2 DEF FlightInv, WireOK
  <2>2. wire \in Seq(Callers)
    BY DEF FlightInv, CacheTypes
  <2>3. \A i \in 1..(n - 1) : wire[i + 1] \in Callers
    BY <1>1, <1>2, <2>2, ElementOfSeq
  <2> QED BY <1>1, <2>1, <2>3
<1>4. \A i \in 1..(n - 1) : pc'[wire'[i]] \in {"sent", "setting"}
  BY <1>1, <1>2, <1>3 DEF FlightInv, WireOK
<1>5. \A i, j \in 1..(n - 1) : wire'[i] = wire'[j] => i = j
  <2>1. \A i, j \in 1..(n - 1) : wire[i + 1] = wire[j + 1] => i + 1 = j + 1
    BY <1>2 DEF FlightInv, WireOK
  <2> QED BY <1>1, <2>1
<1>6. ASSUME NEW d \in Callers, pc'[d] \in {"sent", "setting"}
      PROVE  \E i \in 1..(n - 1) : wire'[i] = d
  <2>1. d # c /\ pc[d] \in {"sent", "setting"}
    BY <1>6
  <2>2. PICK i \in 1..n : wire[i] = d
    BY <1>1, <2>1 DEF FlightInv, WireOK
  <2>3. i # 1 /\ i - 1 \in 1..(n - 1) /\ (i - 1) + 1 = i
    BY <1>1, <2>1, <2>2
  <2> QED BY <1>1, <2>2, <2>3
<1> QED BY <1>1, <1>4, <1>5, <1>6 DEF WireOK

(* A command is sent by a caller that waits for nothing yet.               *)
LEMMA WireSends ==
  ASSUME FlightInv, NEW c \in Callers, Send(c), pc[c] \notin {"sent", "setting"},
         pc'[c] \in {"sent", "setting"}, \A d \in Callers : d # c => pc'[d] = pc[d]
  PROVE  /\ WireOK' /\ wire' \in Seq(Callers)
         /\ Len(wire) \in Nat /\ DOMAIN wire = 1..Len(wire)
         /\ DOMAIN wire' = 1..(Len(wire) + 1)
         /\ \A i \in 1..Len(wire) : wire'[i] = wire[i] /\ wire[i] # c
         /\ wire'[Len(wire) + 1] = c
<1> DEFINE n == Len(wire)
<1>1. /\ wire' \in Seq(Callers) /\ n \in Nat /\ DOMAIN wire = 1..n /\ DOMAIN wire' = 1..(n + 1)
      /\ \A i \in 1..n : wire'[i] = wire[i]
      /\ wire'[n + 1] = c
  BY AppendProperties, LenProperties DEF Send, FlightInv, CacheTypes
<1>2. \A i \in 1..n : wire[i] # c /\ wire[i] \in Callers
  BY <1>1, ElementOfSeq DEF FlightInv, WireOK, CacheTypes
<1>3. \A i \in 1..(n + 1) : pc'[wire'[i]] \in {"sent", "setting"}
  BY <1>1, <1>2 DEF FlightInv, WireOK
<1>4. \A i, j \in 1..(n + 1) : wire'[i] = wire'[j] => i = j
  <2>1. \A i, j \in 1..n : wire[i] = wire[j] => i = j
    BY <1>1 DEF FlightInv, WireOK
  <2>2. \A i \in 1..(n + 1) : i \in 1..n \/ i = n + 1
    BY <1>1
  <2> QED BY <1>1, <1>2, <2>1, <2>2
<1>5. ASSUME NEW d \in Callers, pc'[d] \in {"sent", "setting"}
      PROVE  \E i \in 1..(n + 1) : wire'[i] = d
  <2>1. CASE d = c
    <3>1. n + 1 \in 1..(n + 1)
      BY <1>1
    <3> QED BY <1>1, <2>1, <3>1
  <2>2. CASE d # c
    <3>1. PICK i \in 1..n : wire[i] = d
      BY <1>1, <1>5, <2>2 DEF FlightInv, WireOK
    <3>2. i \in 1..(n + 1)
      BY <1>1
    <3> QED BY <1>1, <3>1, <3>2
  <2> QED BY <2>1, <2>2
<1> QED BY <1>1, <1>2, <1>3, <1>4, <1>5 DEF WireOK

(* A call that settles: it and those that joined it are done, and a wrap   *)
(* that loaded leaves no flight behind.                                    *)
LEMMA SettlingKeepsFlight ==
  ASSUME FlightInv, NEW c \in Callers, NEW v, Settles(c, v), UNCHANGED <<op, tiers>>,
         pc[c] \notin {"idle", "joined", "done"}
  PROVE  /\ pc' \in [Callers -> CallStates] /\ pc'[c] = "done"
         /\ inflight' \in Callers \cup {Nothing}
         /\ \A d \in Callers : d # c => pc'[d] = pc[d] \/ (pc[d] = "joined" /\ pc'[d] = "done")
         /\ PlaceOK' /\ FlightOK'
<1>1. /\ pc' \in [Callers -> CallStates] /\ pc'[c] = "done"
      /\ inflight' \in Callers \cup {Nothing}
      /\ \A d \in Callers : d # c => pc'[d] = pc[d] \/ (pc[d] = "joined" /\ pc'[d] = "done")
  BY DEF Settles, FlightInv, CacheTypes, CallStates
<1>2. PlaceOK'
  BY <1>1 DEF PlaceOK, FlightInv, Reads, RemoteEnabled
<1>3. pc[c] \in CallStates /\ (op[c] = "wrap" => c \in Loading)
  BY DEF FlightInv, CacheTypes, CallStates, PlaceOK, Loading
<1>4. \A d \in Callers : d \in Loading' <=> d \in Loading /\ d # c
  BY <1>1, <1>3 DEF Loading
<1>5. FlightOK'
  <2>1. CASE op[c] = "wrap"
    <3>1. inflight' = Nothing /\ overtaken' = FALSE
      BY <2>1 DEF Settles
    <3>2. inflight = c
      BY <1>3, <2>1 DEF FlightInv, FlightOK
    <3>3. \A d \in Callers : d \notin Loading'
      BY <1>4, <3>2 DEF FlightInv, FlightOK
    <3> QED BY <3>1, <3>3, CacheAssumption DEF FlightOK
  <2>2. CASE op[c] # "wrap"
    <3>1. inflight' = inflight /\ overtaken' = overtaken /\ c \notin Loading
      BY <2>2 DEF Settles, Loading
    <3> QED BY <1>4, <3>1 DEF FlightInv, FlightOK
  <2> QED BY <2>1, <2>2
<1> QED BY <1>1, <1>2, <1>5

(* A caller that goes on, from a place where it is loading if it goes to   *)
(* one: #inflight is not touched.                                          *)
LEMMA GoingKeepsFlight ==
  ASSUME FlightInv, NEW c \in Callers, NEW where \in CallStates, Goes(c, where),
         UNCHANGED <<op, tiers, inflight>>, inflight = Nothing => overtaken' = FALSE,
         op[c] = "wrap" => c \in Loading /\ where \in {"near", "sent", "applied", "load",
                                                       "setting", "kept"}
  PROVE  /\ pc' \in [Callers -> CallStates] /\ pc'[c] = where
         /\ \A d \in Callers : d # c => pc'[d] = pc[d]
         /\ FlightOK'
<1>1. /\ pc' \in [Callers -> CallStates] /\ pc'[c] = where
      /\ \A d \in Callers : d # c => pc'[d] = pc[d]
  BY DEF Goes, FlightInv, CacheTypes
<1>2. \A d \in Callers : d \in Loading' <=> d \in Loading
  BY <1>1 DEF Loading
<1> QED BY <1>1, <1>2 DEF FlightInv, FlightOK

(* Every step keeps the flight's invariant.                                *)
LEMMA FlightInductive == ASSUME FlightInv, [CacheNext]_cacheVars PROVE FlightInv'
<1> USE DEF tierVars, flightVars
<1> USE CacheAssumption
<1>1. ASSUME NEW c \in Callers, NEW what \in Ops, BeginRead(c, what) PROVE FlightInv'
  <2>1. /\ pc[c] = "idle" /\ op' = [op EXCEPT ![c] = what] /\ what \in {"get", "wrap"}
        /\ what = "wrap" => inflight = Nothing
        /\ inflight' = IF what = "wrap" THEN c ELSE inflight
        /\ pc' = [pc EXCEPT ![c] = "near"]
        /\ UNCHANGED <<tiers, l1, l2, wire, promoting, overtaken, before>>
    BY <1>1 DEF BeginRead, Begin, MayJoin, Goes
  <2>2. read' \in [Callers -> Values]
    BY <1>1 DEF BeginRead, FlightInv, CacheTypes, Values
  <2>3. CacheTypes'
    BY <2>1, <2>2 DEF FlightInv, CacheTypes, Ops, CallStates
  <2>4. \A d \in Callers : d # c => pc'[d] = pc[d] /\ op'[d] = op[d]
    BY <2>1 DEF FlightInv, CacheTypes
  <2>5. pc'[c] = "near" /\ op'[c] = what
    BY <2>1 DEF FlightInv, CacheTypes
  <2>6. PlaceOK' /\ WireOK'
    BY <2>1, <2>4, <2>5, ElementOfSeq DEF FlightInv, PlaceOK, WireOK, Reads, RemoteEnabled, CacheTypes
  <2>7. \A d \in Callers : d \in Loading' <=> d \in Loading \/ (d = c /\ what = "wrap")
    BY <2>1, <2>4, <2>5 DEF Loading
  <2>8. c \notin Loading
    BY <2>1 DEF Loading
  <2>9. FlightOK'
    BY <2>1, <2>7, <2>8 DEF FlightInv, FlightOK
  <2> QED BY <2>3, <2>6, <2>9 DEF FlightInv
<1>2. ASSUME NEW c \in Callers, Join(c) PROVE FlightInv'
  <2>1. /\ pc[c] = "idle" /\ op' = [op EXCEPT ![c] = "wrap"] /\ pc' = [pc EXCEPT ![c] = "joined"]
        /\ UNCHANGED <<tiers, l1, l2, wire, promoting, inflight, overtaken, read, before>>
    BY <1>2 DEF Join, Begin, Goes
  <2>2. CacheTypes'
    BY <2>1 DEF FlightInv, CacheTypes, Ops, CallStates
  <2>3. /\ \A d \in Callers : d # c => pc'[d] = pc[d] /\ op'[d] = op[d]
        /\ pc'[c] = "joined" /\ op'[c] = "wrap"
    BY <2>1 DEF FlightInv, CacheTypes
  <2>4. PlaceOK'
    BY <2>1, <2>3 DEF FlightInv, PlaceOK, Reads, RemoteEnabled
  <2>5. WireOK'
    BY <2>1, <2>3, ElementOfSeq DEF FlightInv, WireOK, CacheTypes
  <2>6. \A d \in Callers : d \in Loading' <=> d \in Loading
    BY <2>1, <2>3 DEF Loading
  <2>7. FlightOK'
    BY <2>1, <2>6 DEF FlightInv, FlightOK
  <2> QED BY <2>2, <2>4, <2>5, <2>7 DEF FlightInv
<1>3. ASSUME NEW c \in Callers, NEW what \in {"set", "del"}, BeginSet(c) \/ BeginDel(c),
             BeginSet(c) => what = "set", BeginDel(c) => what = "del"
      PROVE  FlightInv'
  <2> DEFINE where == IF RemoteEnabled THEN "sent" ELSE IF what = "set" THEN "set" ELSE "dropped"
  <2>1. /\ pc[c] = "idle" /\ op' = [op EXCEPT ![c] = what] /\ pc' = [pc EXCEPT ![c] = where]
        /\ UNCHANGED <<tiers, l2, promoting, inflight, read>>
        /\ IF RemoteEnabled THEN Send(c) ELSE UNCHANGED wire
        /\ l1' \in {l1, c, Nothing} /\ overtaken' = (overtaken \/ inflight # Nothing)
    BY <1>3 DEF BeginSet, BeginDel, Begin, Goes, TierSet, CacheSupersede
  <2>2. before' \in [Callers -> [stored : SUBSET Values, loading : SUBSET Callers]]
    <3>1. [stored |-> Stored, loading |-> Loading]
            \in [stored : SUBSET Values, loading : SUBSET Callers]
      BY DEF Stored, Loading, Values
    <3>2. before' = before \/ before' = [before EXCEPT ![c] = [stored |-> Stored, loading |-> Loading]]
      BY <1>3 DEF BeginSet, BeginDel
    <3>3. before \in [Callers -> [stored : SUBSET Values, loading : SUBSET Callers]]
      BY DEF FlightInv, CacheTypes
    <3> DEFINE R == [stored : SUBSET Values, loading : SUBSET Callers]
               found == [stored |-> Stored, loading |-> Loading]
    <3>4. found \in R /\ before \in [Callers -> R]
      BY <3>1, <3>3
    <3>5. before' = before \/ before' = [before EXCEPT ![c] = found]
      BY <3>2
    <3> HIDE DEF R, found
    <3>6. before' \in [Callers -> R]
      BY <3>4, <3>5
    <3> QED BY <3>6 DEF R
  <2>3. /\ \A d \in Callers : d # c => pc'[d] = pc[d] /\ op'[d] = op[d]
        /\ pc'[c] = where /\ op'[c] = what
    BY <2>1 DEF FlightInv, CacheTypes
  <2>4. WireOK' /\ wire' \in Seq(Callers)
    <3>1. CASE RemoteEnabled
      BY <2>1, <2>3, <3>1, WireSends
    <3>2. CASE ~RemoteEnabled
      BY <2>1, <2>3, <3>2, ElementOfSeq DEF FlightInv, WireOK, CacheTypes
    <3> QED BY <3>1, <3>2
  <2>5. l1' \in Values
    BY <2>1 DEF FlightInv, CacheTypes, Values
  <2>6. CacheTypes'
    BY <2>1, <2>2, <2>4, <2>5 DEF FlightInv, CacheTypes, Ops, CallStates
  <2>7. PlaceOK'
    BY <2>1, <2>3 DEF FlightInv, PlaceOK, Reads, RemoteEnabled, Ops
  <2>8. \A d \in Callers : d \in Loading' <=> d \in Loading
    BY <2>1, <2>3 DEF Loading
  <2>9. inflight = Nothing => overtaken' = FALSE
    BY <2>1, Zenon DEF FlightInv, FlightOK
  <2>10. FlightOK'
    BY <2>1, <2>8, <2>9 DEF FlightInv, FlightOK
  <2> QED BY <2>4, <2>6, <2>7, <2>10 DEF FlightInv
<1>4. ASSUME NEW c \in Callers, NEW v, Settles(c, v), UNCHANGED <<op, tiers, read, before, l2, wire>>,
             pc[c] \notin {"idle", "joined", "done", "sent", "setting"}, l1' \in Values,
             promoting' \in Int
      PROVE  FlightInv'
  <2>1. /\ pc' \in [Callers -> CallStates] /\ pc'[c] = "done"
        /\ inflight' \in Callers \cup {Nothing}
        /\ \A d \in Callers : d # c => pc'[d] = pc[d] \/ (pc[d] = "joined" /\ pc'[d] = "done")
        /\ PlaceOK' /\ FlightOK'
    BY <1>4, SettlingKeepsFlight
  <2>2. WireOK'
    <3>1. \A i \in DOMAIN wire : wire[i] \in Callers /\ pc[wire[i]] \in {"sent", "setting"}
      BY ElementOfSeq, LenProperties DEF FlightInv, WireOK, CacheTypes
    <3>2. \A i \in DOMAIN wire : pc'[wire[i]] = pc[wire[i]]
      BY <1>4, <2>1, <3>1
    <3>3. \A d \in Callers : pc'[d] \in {"sent", "setting"} => pc[d] \in {"sent", "setting"}
      BY <2>1
    <3>4. wire' = wire
      BY <1>4
    <3> QED BY <3>1, <3>2, <3>3, <3>4 DEF FlightInv, WireOK
  <2> QED BY <1>4, <2>1, <2>2 DEF FlightInv, CacheTypes
<1>5. ASSUME NEW c \in Callers, NEW where \in CallStates, Goes(c, where), PlaceOK',
             UNCHANGED <<op, tiers, inflight, overtaken, read, before, l2>>,
             l1' \in Values, promoting' \in Int,
             pc[c] \notin {"sent", "setting"},
             op[c] = "wrap" => c \in Loading
               /\ where \in {"near", "sent", "applied", "load", "setting", "kept"},
             IF where \in {"sent", "setting"} THEN Send(c) ELSE UNCHANGED wire
      PROVE  FlightInv'
  <2>1. /\ pc' \in [Callers -> CallStates] /\ pc'[c] = where
        /\ \A d \in Callers : d # c => pc'[d] = pc[d]
        /\ FlightOK'
    <3>1. inflight = Nothing => overtaken' = FALSE
      BY <1>5 DEF FlightInv, FlightOK
    <3> QED BY <1>5, <3>1, GoingKeepsFlight
  <2>2. WireOK' /\ wire' \in Seq(Callers)
    <3>1. CASE where \in {"sent", "setting"}
      BY <1>5, <2>1, <3>1, WireSends
    <3>2. CASE where \notin {"sent", "setting"}
      BY <1>5, <2>1, <3>2, ElementOfSeq DEF FlightInv, WireOK, CacheTypes
    <3> QED BY <3>1, <3>2
  <2> QED BY <1>5, <2>1, <2>2 DEF FlightInv, CacheTypes
<1>6. ASSUME NEW c \in Callers, Near(c) PROVE FlightInv'
  <2>1. /\ pc[c] = "near" /\ Reads(c) /\ UNCHANGED <<op, tiers, read, before, l1, l2>>
        /\ l1 \in Values /\ promoting \in Int /\ (op[c] = "wrap" => c \in Loading)
    BY <1>6 DEF Near, FlightInv, CacheTypes, PlaceOK, Loading
  <2>2. CASE Settles(c, read[c]) /\ UNCHANGED <<wire, promoting>>
    BY <1>4, <2>1, <2>2
  <2>3. CASE Goes(c, "load") /\ op[c] = "wrap"
             /\ UNCHANGED <<wire, promoting, inflight, overtaken>>
    <3>1. PlaceOK'
      BY <2>1, <2>3 DEF Goes, FlightInv, PlaceOK, CacheTypes, Reads, RemoteEnabled
    <3> QED BY <1>5, <2>1, <2>3, <3>1 DEF CallStates
  <2>4. CASE Goes(c, "sent") /\ Send(c) /\ promoting' = promoting + 1 /\ RemoteEnabled
             /\ UNCHANGED <<inflight, overtaken>>
    <3>1. PlaceOK'
      BY <2>1, <2>4 DEF Goes, FlightInv, PlaceOK, CacheTypes, Reads, RemoteEnabled, Ops
    <3> QED BY <1>5, <2>1, <2>4, <3>1 DEF CallStates
  <2> QED BY <1>6, <2>2, <2>3, <2>4 DEF Near, ReadEnds
<1>7. ASSUME NEW c \in Callers, Far(c) PROVE FlightInv'
  <2>1. /\ pc[c] = "applied" /\ Reads(c) /\ UNCHANGED <<op, tiers, read, before, l2, wire>>
        /\ l1' \in Values /\ promoting' \in Int /\ (op[c] = "wrap" => c \in Loading)
    BY <1>7 DEF Far, Leave, FlightInv, CacheTypes, PlaceOK, Loading
  <2>2. PICK v : ReadEnds(c, v)
    BY <1>7 DEF Far
  <2>3. CASE Settles(c, v)
    BY <1>4, <2>1, <2>3
  <2>4. CASE Goes(c, "load") /\ op[c] = "wrap" /\ UNCHANGED <<inflight, overtaken>>
    <3>1. PlaceOK'
      BY <2>1, <2>4 DEF Goes, FlightInv, PlaceOK, CacheTypes, Reads, RemoteEnabled
    <3> QED BY <1>5, <2>1, <2>4, <3>1 DEF CallStates
  <2> QED BY <2>2, <2>3, <2>4 DEF ReadEnds
<1>8. ASSUME NEW c \in Callers, LoadThrows(c) \/ LoadUnstored(c) \/ SetEnds(c) \/ DelEnds(c)
      PROVE  FlightInv'
  <2>1. /\ UNCHANGED <<op, tiers, read, before, l2, wire, promoting>>
        /\ pc[c] \in {"load", "set", "kept", "dropped"} /\ (\E v : Settles(c, v))
        /\ l1' \in {l1, c}
    BY <1>8 DEF LoadThrows, LoadUnstored, SetEnds, DelEnds
  <2>2. l1' \in Values /\ promoting' \in Int
    BY <2>1 DEF FlightInv, CacheTypes, Values
  <2> QED BY <1>4, <2>1, <2>2
<1>9. ASSUME NEW c \in Callers, LoadStores(c) PROVE FlightInv'
  <2> DEFINE where == IF RemoteEnabled THEN "setting" ELSE "kept"
  <2>1. /\ pc[c] = "load" /\ op[c] = "wrap" /\ c \in Loading /\ Goes(c, where)
        /\ UNCHANGED <<op, tiers, read, before, l2, promoting, inflight, overtaken>>
        /\ IF RemoteEnabled THEN Send(c) ELSE UNCHANGED wire
        /\ l1' \in {l1, c}
    BY <1>9 DEF LoadStores, TierSet, FlightInv, PlaceOK, Loading
  <2>2. l1' \in Values /\ promoting' \in Int
    BY <2>1 DEF FlightInv, CacheTypes, Values
  <2>3. PlaceOK'
    BY <2>1 DEF Goes, FlightInv, PlaceOK, CacheTypes, Reads, RemoteEnabled
  <2> QED BY <1>5, <2>1, <2>2, <2>3 DEF CallStates
<1>10. CASE Apply
  <2> DEFINE c == Head(wire)
             reading == pc[c] = "sent" /\ op[c] \in {"get", "wrap"}
             where == CASE reading -> "applied" [] pc[c] = "setting" -> "kept"
                        [] op[c] = "set" -> "set" [] op[c] = "del" -> "dropped"
  <2>1. /\ wire # <<>> /\ wire' = Tail(wire) /\ Goes(c, where)
        /\ UNCHANGED <<tiers, l1, promoting, inflight, overtaken, op, before>>
        /\ read' = IF reading THEN [read EXCEPT ![c] = l2] ELSE read
        /\ l2' \in {l2, Nothing, c}
    BY <1>10 DEF Apply
  <2>2. /\ c \in Callers /\ pc[c] \in {"sent", "setting"} /\ Tail(wire) \in Seq(Callers)
        /\ RemoteEnabled
    BY <2>1, WireHead
  <2>3. /\ op[c] \in Ops /\ (pc[c] = "setting" => op[c] = "wrap")
    BY <2>2 DEF FlightInv, PlaceOK, Ops
  <2>4. /\ where \in {"applied", "kept", "set", "dropped"}
        /\ where = "applied" => op[c] \in {"get", "wrap"}
        /\ where = "kept" => op[c] = "wrap"
        /\ where = "set" => op[c] = "set"
        /\ where = "dropped" => op[c] = "del"
        /\ op[c] = "wrap" => where \in {"applied", "kept"}
    BY <2>2, <2>3 DEF Ops
  <2>5. op[c] = "wrap" => c \in Loading
    BY <2>2 DEF Loading
  <2> HIDE DEF where
  <2>6. /\ pc' \in [Callers -> CallStates] /\ pc'[c] = where
        /\ \A d \in Callers : d # c => pc'[d] = pc[d]
        /\ FlightOK'
    <3>1. inflight = Nothing => overtaken' = FALSE
      BY <2>1 DEF FlightInv, FlightOK
    <3>2. where \in CallStates
      BY <2>4 DEF CallStates
    <3> HIDE DEF c
    <3> QED BY <2>1, <2>2, <2>4, <2>5, <3>1, <3>2, GoingKeepsFlight
  <2>7. WireOK'
    BY <2>1, <2>4, <2>6, WireAdvances
  <2>8. PlaceOK'
    <3> HIDE DEF c
    <3>1. op' = op /\ tiers' = tiers
      BY <2>1
    <3>2. RemoteEnabled'
      BY <2>2, <3>1 DEF RemoteEnabled
    <3> QED BY <2>2, <2>4, <2>6, <3>1, <3>2 DEF FlightInv, PlaceOK, Reads
  <2>9. read' \in [Callers -> Values] /\ l2' \in Values
    BY <2>1, <2>2 DEF FlightInv, CacheTypes, Values
  <2> QED BY <2>1, <2>2, <2>6, <2>7, <2>8, <2>9 DEF FlightInv, CacheTypes
<1>11. CASE Fails
  <2> DEFINE c == Head(wire)
  <2>1. /\ wire # <<>> /\ wire' = Tail(wire) /\ Settles(c, "failed")
        /\ UNCHANGED <<tiers, l1, op, read, before>>
        /\ l2' \in {l2, Nothing, c} /\ promoting' \in {promoting, promoting - 1}
    BY <1>11 DEF Fails, Leave
  <2>2. c \in Callers /\ pc[c] \in {"sent", "setting"} /\ Tail(wire) \in Seq(Callers)
    BY <2>1, WireHead
  <2>3. /\ pc' \in [Callers -> CallStates] /\ pc'[c] = "done"
        /\ inflight' \in Callers \cup {Nothing}
        /\ \A d \in Callers : d # c => pc'[d] = pc[d] \/ (pc[d] = "joined" /\ pc'[d] = "done")
        /\ PlaceOK' /\ FlightOK'
    <3> HIDE DEF c
    <3> QED BY <2>1, <2>2, SettlingKeepsFlight
  <2>4. WireOK'
    BY <2>1, <2>3, WireAdvances
  <2>5. l2' \in Values /\ promoting' \in Int
    BY <2>1, <2>2 DEF FlightInv, CacheTypes, Values
  <2> QED BY <2>1, <2>2, <2>3, <2>4, <2>5 DEF FlightInv, CacheTypes
<1>12. CASE Lapse \/ UNCHANGED cacheVars
  <2>1. /\ UNCHANGED <<tiers, wire, promoting, inflight, overtaken, op, pc, read, before>>
        /\ l1' \in {l1, Nothing} /\ l2' \in {l2, Nothing}
    BY <1>12 DEF Lapse, cacheVars, cacheCallVars
  <2>2. CacheTypes'
    BY <2>1 DEF FlightInv, CacheTypes, Values
  <2>3. PlaceOK' /\ WireOK'
    BY <2>1 DEF FlightInv, PlaceOK, WireOK, Reads, RemoteEnabled
  <2>4. FlightOK'
    BY <2>1 DEF FlightInv, FlightOK, Loading
  <2> QED BY <2>2, <2>3, <2>4 DEF FlightInv
<1>13. ASSUME NEW c \in Callers, BeginSet(c) PROVE FlightInv'
  <2>1. ~BeginDel(c)
    BY <1>13 DEF BeginSet, BeginDel, Begin, FlightInv, CacheTypes
  <2> QED BY <1>3, <1>13, <2>1
<1>14. ASSUME NEW c \in Callers, BeginDel(c) PROVE FlightInv'
  <2>1. ~BeginSet(c)
    BY <1>14 DEF BeginSet, BeginDel, Begin, FlightInv, CacheTypes
  <2> QED BY <1>3, <1>14, <2>1
<1> QED BY <1>1, <1>2, <1>6, <1>7, <1>8, <1>9, <1>10, <1>11, <1>12, <1>13, <1>14
        DEF CacheNext, Resume

(* The flight's invariant holds at first,                                  *)
LEMMA FlightInit == CacheInit => FlightInv
<1> SUFFICES ASSUME CacheInit PROVE FlightInv
  OBVIOUS
<1> USE CacheAssumption
<1>1. wire = <<>> /\ <<>> \in Seq(Callers) /\ DOMAIN <<>> = {}
  BY EmptySeq DEF CacheInit
<1>2. tiers \in SUBSET {"local", "remote"} /\ l1 \in Values /\ l2 \in Values
  BY DEF CacheInit, Values
<1>3. before \in [Callers -> [stored : SUBSET Values, loading : SUBSET Callers]]
  BY DEF CacheInit
<1>4. CacheTypes
  BY <1>1, <1>2, <1>3 DEF CacheInit, CacheTypes, CallStates, Values
<1>5. PlaceOK /\ WireOK
  BY <1>1 DEF CacheInit, PlaceOK, WireOK
<1>6. FlightOK
  BY DEF CacheInit, FlightOK, Loading
<1> QED BY <1>4, <1>5, <1>6 DEF FlightInv

(* and after every step.                                                   *)
LEMMA FlightAlways == CacheSpec => []FlightInv
BY FlightInit, FlightInductive, PTL DEF CacheSpec

(* One load per key in flight, whatever the callers, tiers and failures:   *)
(* #inflight (cache.ts:44-67) names the wrap that is loading, never one    *)
(* that is over, and #superseded marks no key without one.                 *)
THEOREM OneFlightAlways == CacheSpec => []SingleFlight
<1>1. FlightInv => SingleFlight
  <2> SUFFICES ASSUME FlightInv PROVE SingleFlight
    OBVIOUS
  <2>1. Loading \subseteq {inflight}
    BY DEF FlightInv, FlightOK, Loading
  <2>2. IsFiniteSet({inflight}) /\ Cardinality({inflight}) = 1
    BY FS_Singleton
  <2>3. Cardinality(Loading) <= 1
    BY <2>1, <2>2, FS_Subset
  <2>4. ASSUME inflight # Nothing PROVE pc[inflight] \notin {"idle", "done"}
    <3>1. inflight \in Loading
      BY <2>4 DEF FlightInv, CacheTypes, FlightOK
    <3> QED BY <3>1 DEF Loading
  <2>5. overtaken => inflight # Nothing
    BY Zenon DEF FlightInv, FlightOK
  <2> QED BY <2>3, <2>4, <2>5 DEF SingleFlight
<1> QED BY <1>1, FlightAlways, PTL

-----------------------------------------------------------------------------
(* A del is on its way to L2, or its key is gone from both tiers; a read   *)
(* that may promote what it finds is in flight.                            *)
Deleting(d) == op[d] = "del" /\ pc[d] = "sent"
Gone(d) == op[d] = "del" /\ (pc[d] = "dropped" \/ (pc[d] = "done" /\ answer[d] = Nothing))
Promotes(c) == Reads(c) /\ pc[c] \in {"sent", "applied"}
Promoters == {c \in Callers : Promotes(c)}
NotStored == {"near", "sent", "applied", "load"}

PromotingOK == promoting = Cardinality(Promoters) /\ superseded \in BOOLEAN

TiersOK == (~LocalEnabled => l1 = Nothing) /\ (~RemoteEnabled => l2 = Nothing)

(* What a del found stored is over; a load it found has been overtaken     *)
(* unless it had already been told to store.                               *)
HistoryOK ==
  \A d \in Callers :
    /\ \A c \in before[d].stored : c = Earlier \/ (c \in Callers /\ pc[c] = "done")
    /\ \A c \in before[d].loading :
         /\ c \in Callers /\ op[c] = "wrap" /\ pc[c] # "idle"
         /\ pc[c] \in NotStored => overtaken = TRUE

(* Neither tier holds what the del found stored, and a read that found it  *)
(* in L2 before the del got there is marked.                               *)
StoredOK ==
  \A d \in Callers :
    /\ Deleting(d) \/ Gone(d) => l1 \notin before[d].stored
    /\ Gone(d) => l2 \notin before[d].stored
    /\ \A c \in Callers : pc[c] = "applied" =>
         /\ Deleting(d) => superseded = TRUE
         /\ Gone(d) => superseded = TRUE \/ read[c] \notin before[d].stored

(* On the wire, a read ahead of a del is marked, and no load that the del  *)
(* found stores behind it.                                                 *)
QueueOK ==
  \A i, j \in DOMAIN wire : i < j =>
    /\ Promotes(wire[i]) /\ op[wire[j]] = "del" => superseded = TRUE
    /\ op[wire[i]] = "del" /\ wire[j] \in before[wire[i]].loading => pc[wire[j]] # "setting"

LoadedOK ==
  \A d \in Callers :
    /\ ~(LocalEnabled /\ RemoteEnabled) => l1 \notin before[d].loading
    /\ Gone(d) => l2 \notin before[d].loading
    /\ Gone(d) => \A c \in before[d].loading : pc[c] # "setting"

DelInv ==
  /\ FlightInv /\ PromotingOK /\ TiersOK /\ HistoryOK /\ StoredOK /\ QueueOK /\ LoadedOK

(* #supersede marks the key while any read may promote, and the finally of *)
(* get keeps the mark while another still may.                             *)
LEMMA MarkKept ==
  ASSUME FlightInv, PromotingOK, NEW c \in Promoters
  PROVE  /\ IsFiniteSet(Promoters) /\ promoting \in Nat
         /\ TierSupersede => superseded' = TRUE
         /\ \A e \in Promoters : e # c /\ Leave /\ superseded = TRUE => superseded' = TRUE
<1>1. IsFiniteSet(Promoters) /\ promoting \in Nat
  BY CacheAssumption, FS_Subset, FS_CardinalityType DEF Promoters, PromotingOK
<1>2. promoting # 0
  BY <1>1, FS_EmptySet DEF PromotingOK
<1>3. TierSupersede => superseded' = TRUE
  <2>1. promoting > 0
    BY <1>1, <1>2
  <2> QED BY <2>1, Zenon DEF TierSupersede
<1>4. ASSUME NEW e \in Promoters, e # c, Leave, superseded = TRUE PROVE superseded' = TRUE
  <2>1. /\ IsFiniteSet(Promoters \ {c}) /\ Cardinality(Promoters \ {c}) = promoting - 1
    BY <1>1, FS_RemoveElement DEF PromotingOK
  <2>2. Promoters \ {c} # {}
    BY <1>4
  <2>3. promoting - 1 # 0
    BY <2>1, <2>2, FS_EmptySet
  <2>4. promoting > 1
    BY <1>1, <1>2, <2>3
  <2> QED BY <1>4, <2>4 DEF Leave
<1> QED BY <1>1, <1>3, <1>4

(* #promoting counts the reads between asking L2 and being done with its   *)
(* answer: one more,                                                       *)
LEMMA PromotersGrow ==
  ASSUME FlightInv, PromotingOK, superseded' \in BOOLEAN, NEW c \in Callers, ~Promotes(c),
         Promotes(c)', \A d \in Callers : d # c => (Promotes(d)' <=> Promotes(d)),
         promoting' = promoting + 1
  PROVE  PromotingOK'
<1>1. IsFiniteSet(Promoters) /\ c \notin Promoters
  BY CacheAssumption, FS_Subset DEF Promoters
<1>2. Promoters' = Promoters \cup {c}
  BY DEF Promoters
<1>3. Cardinality(Promoters \cup {c}) = Cardinality(Promoters) + 1
  BY <1>1, FS_AddElement
<1> QED BY <1>2, <1>3 DEF PromotingOK

(* one less,                                                               *)
LEMMA PromotersShrink ==
  ASSUME FlightInv, PromotingOK, superseded' \in BOOLEAN, NEW c \in Callers, Promotes(c),
         ~Promotes(c)', \A d \in Callers : d # c => (Promotes(d)' <=> Promotes(d)),
         promoting' = promoting - 1
  PROVE  PromotingOK'
<1>1. IsFiniteSet(Promoters) /\ c \in Promoters
  BY CacheAssumption, FS_Subset DEF Promoters
<1>2. Promoters' = Promoters \ {c}
  BY DEF Promoters
<1>3. Cardinality(Promoters \ {c}) = Cardinality(Promoters) - 1
  BY <1>1, FS_RemoveElement
<1> QED BY <1>2, <1>3 DEF PromotingOK

(* or as many.                                                             *)
LEMMA PromotersStay ==
  ASSUME PromotingOK, superseded' \in BOOLEAN,
         \A d \in Callers : Promotes(d)' <=> Promotes(d), promoting' = promoting
  PROVE  PromotingOK'
<1>1. Promoters' = Promoters
  BY DEF Promoters
<1> QED BY <1>1 DEF PromotingOK

(* A call that settles leaves the other callers where they are, save those *)
(* that joined it.                                                         *)
LEMMA SettlingMoves ==
  ASSUME FlightInv, NEW c \in Callers, NEW v, Settles(c, v), op' = op, pc[c] # "joined"
  PROVE  /\ pc'[c] = "done" /\ answer'[c] = v
         /\ \A d \in Callers : d # c /\ pc[d] # "joined" => pc'[d] = pc[d] /\ answer'[d] = answer[d]
         /\ \A d \in Callers : pc[d] = "joined" =>
              op[d] = "wrap" /\ pc'[d] \in {"joined", "done"}
         /\ \A d \in Callers : d # c => (Promotes(d)' <=> Promotes(d))
         /\ ~Promotes(c)'
<1>1. /\ pc'[c] = "done" /\ answer'[c] = v
      /\ \A d \in Callers : d # c /\ pc[d] # "joined" => pc'[d] = pc[d] /\ answer'[d] = answer[d]
      /\ \A d \in Callers : pc[d] = "joined" => pc'[d] \in {"joined", "done"}
  BY DEF Settles
<1>2. \A d \in Callers : pc[d] = "joined" => op[d] = "wrap"
  BY DEF FlightInv, PlaceOK
<1> QED BY <1>1, <1>2 DEF Promotes, Reads

(* Every step keeps the count of the reads in flight.                      *)
LEMMA PromotingInductive ==
  ASSUME FlightInv, PromotingOK, [CacheNext]_cacheVars PROVE PromotingOK'
<1> USE DEF tierVars, flightVars
<1>0. superseded \in BOOLEAN /\ (TierSupersede => superseded' \in BOOLEAN)
      /\ (Leave => superseded' \in BOOLEAN /\ promoting' = promoting - 1)
  BY DEF PromotingOK, TierSupersede, Leave
<1>1. ASSUME NEW c \in Callers, NEW what \in Ops, BeginRead(c, what) PROVE PromotingOK'
  <2>1. /\ pc[c] = "idle" /\ op' = [op EXCEPT ![c] = what] /\ pc' = [pc EXCEPT ![c] = "near"]
        /\ promoting' = promoting /\ superseded' = superseded
    BY <1>1 DEF BeginRead, Begin, Goes
  <2>2. \A d \in Callers : Promotes(d)' <=> Promotes(d)
    BY <2>1 DEF Promotes, Reads, FlightInv, CacheTypes
  <2> QED BY <1>0, <2>1, <2>2, PromotersStay
<1>2. ASSUME NEW c \in Callers, Join(c) PROVE PromotingOK'
  <2>1. /\ pc[c] = "idle" /\ op' = [op EXCEPT ![c] = "wrap"] /\ pc' = [pc EXCEPT ![c] = "joined"]
        /\ promoting' = promoting /\ superseded' = superseded
    BY <1>2 DEF Join, Begin, Goes
  <2>2. \A d \in Callers : Promotes(d)' <=> Promotes(d)
    BY <2>1 DEF Promotes, Reads, FlightInv, CacheTypes
  <2> QED BY <1>0, <2>1, <2>2, PromotersStay
<1>3. ASSUME NEW c \in Callers, BeginSet(c) \/ BeginDel(c) PROVE PromotingOK'
  <2>1. /\ pc[c] = "idle" /\ promoting' = promoting /\ TierSupersede
        /\ \E what \in {"set", "del"} : op' = [op EXCEPT ![c] = what]
        /\ \E where \in CallStates : pc' = [pc EXCEPT ![c] = where]
    BY <1>3 DEF BeginSet, BeginDel, Begin, Goes, TierSet, CallStates
  <2>2. \A d \in Callers : Promotes(d)' <=> Promotes(d)
    BY <2>1 DEF Promotes, Reads, FlightInv, CacheTypes
  <2> QED BY <1>0, <2>1, <2>2, PromotersStay
<1>4. ASSUME NEW c \in Callers, Near(c) PROVE PromotingOK'
  <2>1. pc[c] = "near" /\ Reads(c) /\ op' = op /\ superseded' = superseded
    BY <1>4 DEF Near, FlightInv, PlaceOK
  <2>2. CASE Settles(c, read[c]) /\ promoting' = promoting
    <3>1. \A d \in Callers : Promotes(d)' <=> Promotes(d)
      BY <2>1, <2>2, SettlingMoves DEF Promotes
    <3> QED BY <1>0, <2>1, <2>2, <3>1, PromotersStay
  <2>3. CASE Goes(c, "load") /\ promoting' = promoting
    <3>1. \A d \in Callers : Promotes(d)' <=> Promotes(d)
      BY <2>1, <2>3 DEF Promotes, Reads, Goes, FlightInv, CacheTypes
    <3> QED BY <1>0, <2>1, <2>3, <3>1, PromotersStay
  <2>4. CASE Goes(c, "sent") /\ promoting' = promoting + 1
    <3>1. /\ \A d \in Callers : d # c => (Promotes(d)' <=> Promotes(d))
          /\ Promotes(c)' /\ ~Promotes(c)
      BY <2>1, <2>4 DEF Promotes, Reads, Goes, FlightInv, CacheTypes
    <3> QED BY <1>0, <2>1, <2>4, <3>1, PromotersGrow
  <2> QED BY <1>4, <2>2, <2>3, <2>4 DEF Near, ReadEnds
<1>5. ASSUME NEW c \in Callers, Far(c) PROVE PromotingOK'
  <2>1. pc[c] = "applied" /\ Promotes(c) /\ op' = op /\ Leave
    BY <1>5 DEF Far, FlightInv, PlaceOK, Promotes
  <2>2. PICK v : ReadEnds(c, v)
    BY <1>5 DEF Far
  <2>3. \A d \in Callers : d # c => (Promotes(d)' <=> Promotes(d))
    <3>1. CASE Settles(c, v)
      BY <2>1, <3>1, SettlingMoves
    <3>2. CASE Goes(c, "load")
      BY <2>1, <3>2 DEF Promotes, Reads, Goes, FlightInv, CacheTypes
    <3> QED BY <2>2, <3>1, <3>2 DEF ReadEnds
  <2>4. ~Promotes(c)'
    <3>1. CASE Settles(c, v)
      BY <2>1, <3>1, SettlingMoves
    <3>2. CASE Goes(c, "load")
      BY <2>1, <3>2 DEF Promotes, Reads, Goes, FlightInv, CacheTypes
    <3> QED BY <2>2, <3>1, <3>2 DEF ReadEnds
  <2> QED BY <1>0, <2>1, <2>3, <2>4, PromotersShrink
<1>6. ASSUME NEW c \in Callers, LoadThrows(c) \/ LoadUnstored(c) \/ SetEnds(c) \/ DelEnds(c)
      PROVE  PromotingOK'
  <2>1. /\ op' = op /\ promoting' = promoting /\ superseded' = superseded
        /\ pc[c] \in {"load", "set", "kept", "dropped"} /\ (\E v : Settles(c, v))
    BY <1>6 DEF LoadThrows, LoadUnstored, SetEnds, DelEnds
  <2>2. \A d \in Callers : Promotes(d)' <=> Promotes(d)
    BY <2>1, SettlingMoves DEF Promotes
  <2> QED BY <1>0, <2>1, <2>2, PromotersStay
<1>7. ASSUME NEW c \in Callers, LoadStores(c) PROVE PromotingOK'
  <2>1. /\ op' = op /\ promoting' = promoting /\ TierSupersede /\ pc[c] = "load"
        /\ \E where \in {"setting", "kept"} : pc' = [pc EXCEPT ![c] = where]
    BY <1>7 DEF LoadStores, TierSet, Goes
  <2>2. \A d \in Callers : Promotes(d)' <=> Promotes(d)
    BY <2>1 DEF Promotes, Reads, FlightInv, CacheTypes
  <2> QED BY <1>0, <2>1, <2>2, PromotersStay
<1>8. CASE Apply
  <2>0. PICK c \in Callers : c = Head(wire) /\ pc[c] \in {"sent", "setting"}
    BY <1>8, WireHead DEF Apply
  <2>1. /\ wire # <<>> /\ op' = op /\ promoting' = promoting /\ superseded' = superseded
        /\ Goes(c, CASE pc[c] = "sent" /\ op[c] \in {"get", "wrap"} -> "applied"
                     [] pc[c] = "setting" -> "kept" [] op[c] = "set" -> "set"
                     [] op[c] = "del" -> "dropped")
    BY <1>8, <2>0 DEF Apply
  <2>2. op[c] \in Ops /\ (pc[c] = "setting" => op[c] = "wrap")
    BY <2>0 DEF FlightInv, PlaceOK, Ops
  <2>3. Promotes(c)' <=> Promotes(c)
    <3>1. pc'[c] = "applied" <=> (pc[c] = "sent" /\ Reads(c))
      <4>1. ASSUME pc[c] = "sent" /\ Reads(c) PROVE pc'[c] = "applied"
        BY <2>1, <4>1 DEF Reads, Goes, FlightInv, CacheTypes
      <4>2. ASSUME ~(pc[c] = "sent" /\ Reads(c)) PROVE pc'[c] \in {"kept", "set", "dropped"}
        BY <2>0, <2>1, <2>2, <4>2 DEF Reads, Goes, FlightInv, CacheTypes, Ops
      <4> QED BY <4>1, <4>2
    <3>2. pc'[c] # "sent"
      BY <2>0, <2>1, <2>2 DEF Reads, Goes, FlightInv, CacheTypes, Ops
    <3>3. op'[c] = op[c]
      BY <2>1
    <3> QED BY <2>0, <3>1, <3>2, <3>3 DEF Promotes, Reads
  <2>4. \A d \in Callers : d # c => pc'[d] = pc[d] /\ op'[d] = op[d]
    BY <2>1, <2>2 DEF Goes, FlightInv, CacheTypes
  <2>5. \A d \in Callers : Promotes(d)' <=> Promotes(d)
    BY <2>3, <2>4 DEF Promotes, Reads
  <2> QED BY <1>0, <2>1, <2>5, PromotersStay
<1>9. CASE Fails
  <2>0. PICK c \in Callers : c = Head(wire) /\ pc[c] \in {"sent", "setting"}
    BY <1>9, WireHead DEF Fails
  <2>1. /\ wire # <<>> /\ op' = op /\ Settles(c, "failed")
        /\ IF pc[c] = "sent" /\ Reads(c) THEN Leave ELSE UNCHANGED <<promoting, superseded>>
    BY <1>9, <2>0 DEF Fails, Reads
  <2>3. /\ \A d \in Callers : d # c => (Promotes(d)' <=> Promotes(d))
        /\ ~Promotes(c)'
    BY <2>0, <2>1, SettlingMoves
  <2>4. Promotes(c) <=> pc[c] = "sent" /\ Reads(c)
    BY <2>0 DEF Promotes
  <2>5. CASE Promotes(c)
    BY <1>0, <2>1, <2>3, <2>4, <2>5, PromotersShrink
  <2>6. CASE ~Promotes(c)
    BY <1>0, <2>1, <2>3, <2>4, <2>6, PromotersStay
  <2> QED BY <2>5, <2>6
<1>10. CASE Lapse \/ UNCHANGED cacheVars
  <2>1. UNCHANGED <<promoting, superseded, op, pc>>
    BY <1>10 DEF Lapse, cacheVars, cacheCallVars
  <2> QED BY <2>1 DEF PromotingOK, Promoters, Promotes, Reads
<1> QED BY <1>1, <1>2, <1>3, <1>4, <1>5, <1>6, <1>7, <1>8, <1>9, <1>10 DEF CacheNext, Resume

(* What a step other than the call of a del may do: callers only go on,    *)
(* and a load goes on to no earlier place and loses no mark;               *)
Tracks ==
  /\ before' = before /\ tiers' = tiers
  /\ \A d \in Callers : pc[d] = "done" => pc'[d] = "done"
  /\ \A d \in Callers : pc[d] # "idle" => op'[d] = op[d] /\ pc'[d] # "idle"
  /\ \A d \in Callers : pc[d] # "idle" /\ op[d] = "wrap" /\ pc'[d] \in NotStored =>
       pc[d] \in NotStored /\ (overtaken = TRUE => overtaken' = TRUE)

(* the mark stays while a read may promote, and a del gets through only by *)
(* being applied;                                                          *)
Drops(d) ==
  /\ Deleting(d) /\ l1' = l1 /\ l2' = Nothing /\ read' = read /\ superseded' = superseded
  /\ \A c \in Callers : pc'[c] = "applied" => pc[c] = "applied"
  /\ \A c \in before[d].loading : pc'[c] # "setting"

KeepsDels ==
  /\ \A d \in Callers : Deleting(d)' => Deleting(d)
  /\ \A d \in Callers : Gone(d)' => Gone(d) \/ Drops(d)

(* what a read finds in L2 is what the tier held, and then every del on    *)
(* the wire has marked it.                                                 *)
KeepsMark == \A c \in Callers : Promotes(c)' /\ superseded = TRUE => superseded' = TRUE

KeepsReads ==
  \A c \in Callers : pc'[c] = "applied" =>
    \/ pc[c] = "applied" /\ read'[c] = read[c]
    \/ /\ read'[c] = l2 /\ superseded' = superseded
       /\ \A d \in Callers : Deleting(d) => superseded = TRUE

(* What a step writes to a tier: a value whose call is not over, or one a  *)
(* read promotes unmarked; and in a tier alone, no value of a load that    *)
(* was overtaken.                                                          *)
Fresh(c) == pc[c] = "idle" \/ op[c] # "wrap" \/ (pc[c] = "load" /\ overtaken # TRUE)

KeepsTiers ==
  /\ \/ l1' \in {l1, Nothing}
     \/ l1' \in Callers /\ pc[l1'] # "done" /\ (Fresh(l1') \/ (LocalEnabled /\ RemoteEnabled))
     \/ superseded # TRUE /\ LocalEnabled /\ RemoteEnabled
        /\ \E c \in Callers : pc[c] = "applied" /\ l1' = read[c]
  /\ \/ l2' \in {l2, Nothing}
     \/ l2' \in Callers /\ pc[l2'] # "done" /\ (op[l2'] # "wrap" \/ pc[l2'] = "setting")
  /\ \A c \in Callers : pc'[c] = "setting" =>
       pc[c] = "setting" \/ (pc[c] = "load" /\ overtaken # TRUE)

(* A step of that kind keeps what the dels before it found.                *)
LEMMA KeptHistory == ASSUME HistoryOK, Tracks PROVE HistoryOK'
BY DEF HistoryOK, Tracks

(* Hence neither tier regains what a del found stored:                     *)
LEMMA KeptStored ==
  ASSUME DelInv, FlightInv', Tracks, KeepsDels, KeepsMark, KeepsReads, KeepsTiers
  PROVE  StoredOK'
<1> USE CacheAssumption
<1> SUFFICES ASSUME NEW d \in Callers
             PROVE  /\ Deleting(d)' \/ Gone(d)' => l1' \notin before[d].stored
                    /\ Gone(d)' => l2' \notin before[d].stored
                    /\ \A c \in Callers : pc'[c] = "applied" =>
                         /\ Deleting(d)' => superseded' = TRUE
                         /\ Gone(d)' => superseded' = TRUE \/ read'[c] \notin before[d].stored
  BY DEF StoredOK, Tracks
<1>1. /\ Nothing \notin before[d].stored
      /\ \A c \in Callers : pc[c] # "done" => c \notin before[d].stored
  BY DEF DelInv, HistoryOK
<1>2. Deleting(d)' \/ Gone(d)' => Deleting(d) \/ Gone(d)
  BY DEF KeepsDels, Drops
<1>3. ASSUME Deleting(d) \/ Gone(d) PROVE l1' \notin before[d].stored
  BY <1>1, <1>3 DEF DelInv, StoredOK, KeepsTiers
<1>4. ASSUME Gone(d)' PROVE l2' \notin before[d].stored
  BY <1>1, <1>4 DEF DelInv, StoredOK, KeepsTiers, KeepsDels, Drops
<1>5. ASSUME NEW c \in Callers, pc'[c] = "applied" PROVE Promotes(c)'
  BY <1>5 DEF FlightInv, PlaceOK, Promotes
<1>6. ASSUME NEW c \in Callers, pc'[c] = "applied", Deleting(d)' PROVE superseded' = TRUE
  <2>1. superseded = TRUE
    BY <1>6 DEF KeepsDels, KeepsReads, DelInv, StoredOK
  <2> QED BY <1>5, <1>6, <2>1 DEF KeepsMark
<1>7. ASSUME NEW c \in Callers, pc'[c] = "applied", Gone(d)'
      PROVE  superseded' = TRUE \/ read'[c] \notin before[d].stored
  <2>1. CASE Gone(d)
    <3>1. superseded = TRUE \/ read'[c] \notin before[d].stored
      BY <1>7, <2>1 DEF KeepsReads, DelInv, StoredOK
    <3> QED BY <1>5, <1>7, <3>1 DEF KeepsMark
  <2>2. CASE Drops(d)
    BY <1>7, <2>2 DEF Drops, DelInv, StoredOK
  <2> QED BY <1>7, <2>1, <2>2 DEF KeepsDels
<1> QED BY <1>2, <1>3, <1>4, <1>6, <1>7

(* nor, in a store of one tier, what it found being loaded.                *)
LEMMA KeptLoaded ==
  ASSUME DelInv, Tracks, KeepsDels, KeepsTiers PROVE LoadedOK'
<1> USE CacheAssumption
<1> SUFFICES ASSUME NEW d \in Callers
             PROVE  /\ ~(LocalEnabled /\ RemoteEnabled) => l1' \notin before[d].loading
                    /\ Gone(d)' => l2' \notin before[d].loading
                    /\ Gone(d)' => \A c \in before[d].loading : pc'[c] # "setting"
  BY DEF LoadedOK, Tracks, LocalEnabled, RemoteEnabled
<1>1. Nothing \notin before[d].loading /\ (\A c \in before[d].loading : c \in Callers /\ ~Fresh(c))
  BY DEF DelInv, HistoryOK, Fresh, NotStored
<1>2. ~(LocalEnabled /\ RemoteEnabled) => l1' \notin before[d].loading
  BY <1>1 DEF DelInv, LoadedOK, KeepsTiers
<1>3. Gone(d)' => l2' \notin before[d].loading
  BY <1>1 DEF DelInv, LoadedOK, KeepsTiers, KeepsDels, Drops, HistoryOK
<1>4. ASSUME Gone(d)', NEW c \in before[d].loading PROVE pc'[c] # "setting"
  <2>1. c \in Callers /\ ~Fresh(c)
    BY <1>1
  <2> QED BY <1>4, <2>1 DEF DelInv, LoadedOK, KeepsTiers, KeepsDels, Drops, Fresh
<1> QED BY <1>2, <1>3, <1>4

(* No step takes the mark off a key that a read may still promote.         *)
LEMMA MarkStays == ASSUME DelInv, CacheNext PROVE KeepsMark
<1> USE DEF tierVars, flightVars
<1> SUFFICES ASSUME NEW e \in Callers, Promotes(e)', superseded = TRUE PROVE superseded' = TRUE
  BY DEF KeepsMark
<1>1. ASSUME NEW c \in Callers, Promotes(c), ~Promotes(c)', Promotes(e), Leave PROVE superseded' = TRUE
  <2>1. c \in Promoters /\ e \in Promoters
    BY <1>1 DEF Promoters
  <2>2. c # e
    BY <1>1
  <2> QED BY <1>1, <2>1, <2>2, MarkKept DEF DelInv
<1>2. TierSupersede => superseded' = TRUE
  BY DEF TierSupersede
<1>3. ASSUME NEW c \in Callers, Far(c) PROVE superseded' = TRUE
  <2>1. pc[c] = "applied" /\ Promotes(c) /\ op' = op /\ Leave
    BY <1>3 DEF Far, DelInv, FlightInv, PlaceOK, Promotes
  <2>2. PICK v : ReadEnds(c, v)
    BY <1>3 DEF Far
  <2>3. ~Promotes(c)' /\ (e # c => Promotes(e))
    <3>1. CASE Settles(c, v)
      BY <2>1, <3>1, SettlingMoves DEF DelInv
    <3>2. CASE Goes(c, "load")
      BY <2>1, <3>2 DEF Promotes, Reads, Goes, DelInv, FlightInv, CacheTypes
    <3> QED BY <2>2, <3>1, <3>2 DEF ReadEnds
  <2> QED BY <1>1, <2>1, <2>3
<1>4. CASE Fails
  <2>0. PICK c \in Callers : c = Head(wire) /\ pc[c] \in {"sent", "setting"}
    BY <1>4, WireHead DEF Fails, DelInv
  <2>1. /\ op' = op /\ Settles(c, "failed")
        /\ IF pc[c] = "sent" /\ Reads(c) THEN Leave ELSE UNCHANGED <<promoting, superseded>>
    BY <1>4, <2>0 DEF Fails, Reads
  <2>2. (e # c => Promotes(e)) /\ ~Promotes(c)'
    BY <2>0, <2>1, SettlingMoves DEF DelInv
  <2>3. CASE pc[c] = "sent" /\ Reads(c)
    BY <1>1, <2>1, <2>2, <2>3 DEF Promotes
  <2> QED BY <2>1, <2>3
<1>5. ASSUME NEW c \in Callers, Near(c) \/ LoadThrows(c) \/ LoadUnstored(c) \/ SetEnds(c) \/ DelEnds(c)
                               \/ Join(c) \/ (\E what \in Ops : BeginRead(c, what))
      PROVE  superseded' = TRUE
  BY <1>5 DEF Near, LoadThrows, LoadUnstored, SetEnds, DelEnds, Join, BeginRead
<1>6. CASE Apply \/ Lapse
  BY <1>6 DEF Apply, Lapse
<1>7. ASSUME NEW c \in Callers, LoadStores(c) \/ BeginSet(c) \/ BeginDel(c) PROVE superseded' = TRUE
  BY <1>2, <1>7 DEF LoadStores, BeginSet, BeginDel, TierSet
<1> QED BY <1>3, <1>4, <1>5, <1>6, <1>7 DEF CacheNext, Resume

(* The calls that begin, other than a del.                                 *)
LEMMA BeginKeeps ==
  ASSUME DelInv, NEW c \in Callers,
         (\E what \in Ops : BeginRead(c, what)) \/ Join(c) \/ BeginSet(c)
  PROVE  Tracks /\ KeepsDels /\ KeepsReads /\ KeepsTiers
<1> USE DEF tierVars, flightVars
<1> USE CacheAssumption
<1>1. PICK what \in {"get", "wrap", "set"}, where \in {"near", "joined", "sent", "set"} :
           pc[c] = "idle" /\ op' = [op EXCEPT ![c] = what] /\ pc' = [pc EXCEPT ![c] = where]
  BY DEF BeginRead, Join, BeginSet, Begin, Goes
<1>2. /\ UNCHANGED <<before, tiers, l2, answer>> /\ (overtaken = TRUE => overtaken' = TRUE)
      /\ \A d \in Callers : d # c => read'[d] = read[d]
      /\ l1' = l1 \/ l1' = c
  BY DEF BeginRead, Join, BeginSet, TierSet, CacheSupersede, DelInv, FlightInv, CacheTypes
<1>3. /\ \A d \in Callers : d # c => pc'[d] = pc[d] /\ op'[d] = op[d] /\ answer'[d] = answer[d]
      /\ pc'[c] = where /\ op'[c] = what
  BY <1>1, <1>2 DEF DelInv, FlightInv, CacheTypes
<1>4. Tracks
  BY <1>1, <1>2, <1>3 DEF Tracks
<1>5. KeepsDels
  BY <1>3 DEF KeepsDels, Deleting, Gone
<1>6. KeepsReads
  BY <1>2, <1>3 DEF KeepsReads
<1>7. KeepsTiers
  BY <1>1, <1>2, <1>3 DEF KeepsTiers, Fresh
<1> QED BY <1>4, <1>5, <1>6, <1>7

(* A call that settles with no command on the wire.                        *)
LEMMA SettlingKeeps ==
  ASSUME DelInv, NEW c \in Callers, NEW v, Settles(c, v), UNCHANGED <<op, tiers, before, read, l2>>,
         pc[c] \in {"near", "applied", "load", "set", "kept", "dropped"}
  PROVE  /\ Tracks /\ KeepsDels /\ KeepsReads
         /\ \A d \in Callers : pc'[d] = "setting" => pc[d] = "setting"
<1> USE CacheAssumption
<1>1. /\ pc'[c] = "done" /\ answer'[c] = v
      /\ \A d \in Callers : d # c /\ pc[d] # "joined" => pc'[d] = pc[d] /\ answer'[d] = answer[d]
      /\ \A d \in Callers : pc[d] = "joined" => op[d] = "wrap" /\ pc'[d] \in {"joined", "done"}
  BY SettlingMoves DEF DelInv
<1>2. ASSUME NEW d \in Callers, op[d] = "wrap", pc'[d] \in NotStored
      PROVE  pc[d] \in NotStored /\ (overtaken = TRUE => overtaken' = TRUE)
  <2>1. d # c /\ pc'[d] = pc[d]
    BY <1>1, <1>2 DEF NotStored
  <2>2. d \in Loading
    BY <1>2, <2>1 DEF Loading, NotStored
  <2>3. op[c] # "wrap"
    <3>1. op[c] = "wrap" => c \in Loading
      BY DEF DelInv, FlightInv, PlaceOK, Loading
    <3> QED BY <2>1, <2>2, <3>1 DEF DelInv, FlightInv, FlightOK
  <2> QED BY <1>2, <2>1, <2>3 DEF Settles
<1>3. Tracks
  BY <1>1, <1>2 DEF Tracks
<1>4. KeepsDels
  BY <1>1 DEF KeepsDels, Deleting, Gone, DelInv, FlightInv, PlaceOK, Reads
<1>5. KeepsReads
  BY <1>1 DEF KeepsReads
<1> QED BY <1>1, <1>3, <1>4, <1>5

(* A caller that goes on with no command applied.                          *)
LEMMA GoingKeeps ==
  ASSUME DelInv, NEW c \in Callers, NEW where \in {"load", "sent", "setting", "kept"}, Goes(c, where),
         UNCHANGED <<op, tiers, before, read, answer, overtaken>>,
         pc[c] \in {"near", "applied", "load"}, where \in {"setting", "kept"} => pc[c] = "load",
         pc[c] = "load" => where \in {"setting", "kept"}
  PROVE  /\ Tracks /\ KeepsDels /\ KeepsReads
         /\ \A d \in Callers : d # c => pc'[d] = pc[d]
         /\ pc'[c] = where
<1>1. (\A d \in Callers : d # c => pc'[d] = pc[d]) /\ pc'[c] = where
  BY DEF Goes, DelInv, FlightInv, CacheTypes
<1>2. op[c] # "del"
  BY DEF DelInv, FlightInv, PlaceOK, Reads
<1>3. Tracks
  BY <1>1 DEF Tracks, NotStored
<1>4. KeepsDels
  BY <1>1, <1>2 DEF KeepsDels, Deleting, Gone
<1>5. KeepsReads
  BY <1>1 DEF KeepsReads
<1> QED BY <1>1, <1>3, <1>4, <1>5

(* A caller that resumes, and the tiers it writes.                         *)
LEMMA ResumeKeeps ==
  ASSUME DelInv, NEW c \in Callers, Resume(c)
  PROVE  Tracks /\ KeepsDels /\ KeepsReads /\ KeepsTiers
<1> USE DEF tierVars, flightVars
<1>1. ASSUME Near(c) PROVE Tracks /\ KeepsDels /\ KeepsReads /\ KeepsTiers
  <2>1. pc[c] = "near" /\ UNCHANGED <<op, tiers, before, read, l1, l2>>
    BY <1>1 DEF Near
  <2>2. CASE Settles(c, read[c])
    BY <2>1, <2>2, SettlingKeeps DEF KeepsTiers
  <2>3. ASSUME NEW where \in {"load", "sent"}, Goes(c, where), UNCHANGED <<answer, overtaken>>
        PROVE  Tracks /\ KeepsDels /\ KeepsReads /\ KeepsTiers
    BY <2>1, <2>3, GoingKeeps DEF KeepsTiers
  <2> QED BY <1>1, <2>2, <2>3 DEF Near, ReadEnds
<1>2. ASSUME Far(c) PROVE Tracks /\ KeepsDels /\ KeepsReads /\ KeepsTiers
  <2> DEFINE kept == IF superseded THEN Nothing ELSE read[c]
  <2>1. /\ pc[c] = "applied" /\ UNCHANGED <<op, tiers, before, read, l2>>
        /\ l1' = IF kept # Nothing /\ LocalEnabled THEN kept ELSE l1
        /\ ReadEnds(c, kept)
    BY <1>2 DEF Far
  <2>2. \/ l1' = l1
        \/ superseded # TRUE /\ LocalEnabled /\ RemoteEnabled /\ l1' = read[c]
    <3>1. RemoteEnabled
      BY <2>1 DEF DelInv, FlightInv, PlaceOK
    <3>2. CASE superseded = TRUE
      BY <2>1, <3>2
    <3>3. CASE superseded = FALSE
      BY <2>1, <3>1, <3>3
    <3> QED BY <3>2, <3>3 DEF DelInv, PromotingOK
  <2> HIDE DEF kept
  <2>3. CASE Settles(c, kept)
    <3>1. /\ Tracks /\ KeepsDels /\ KeepsReads
          /\ \A d \in Callers : pc'[d] = "setting" => pc[d] = "setting"
      BY <2>1, <2>3, SettlingKeeps
    <3> QED BY <2>1, <2>2, <3>1 DEF KeepsTiers
  <2>4. CASE Goes(c, "load") /\ UNCHANGED <<answer, overtaken>>
    <3>1. /\ Tracks /\ KeepsDels /\ KeepsReads /\ pc'[c] = "load"
          /\ \A d \in Callers : d # c => pc'[d] = pc[d]
      BY <2>1, <2>4, GoingKeeps
    <3> QED BY <2>1, <2>2, <3>1 DEF KeepsTiers
  <2> QED BY <2>1, <2>3, <2>4 DEF ReadEnds
<1>3. ASSUME LoadThrows(c) \/ LoadUnstored(c) \/ DelEnds(c)
      PROVE  Tracks /\ KeepsDels /\ KeepsReads /\ KeepsTiers
  <2>1. pc[c] \in {"load", "dropped"} /\ UNCHANGED <<op, tiers, before, read, l1, l2>>
    BY <1>3 DEF LoadThrows, LoadUnstored, DelEnds
  <2>2. PICK v : Settles(c, v)
    BY <1>3 DEF LoadThrows, LoadUnstored, DelEnds
  <2> QED BY <2>1, <2>2, SettlingKeeps DEF KeepsTiers
<1>4. ASSUME SetEnds(c) PROVE Tracks /\ KeepsDels /\ KeepsReads /\ KeepsTiers
  <2>1. /\ pc[c] \in {"set", "kept"} /\ UNCHANGED <<op, tiers, before, read, l2>> /\ Settles(c, c)
        /\ l1' = l1 \/ (l1' = c /\ LocalEnabled /\ RemoteEnabled)
    BY <1>4 DEF SetEnds
  <2> QED BY <2>1, SettlingKeeps DEF KeepsTiers
<1>5. ASSUME LoadStores(c) PROVE Tracks /\ KeepsDels /\ KeepsReads /\ KeepsTiers
  <2>1. PICK where \in {"setting", "kept"} : Goes(c, where)
    BY <1>5 DEF LoadStores
  <2>2. /\ pc[c] = "load" /\ overtaken # TRUE /\ l1' \in {l1, c}
        /\ UNCHANGED <<op, tiers, before, read, l2, answer, overtaken>>
    BY <1>5 DEF LoadStores, TierSet
  <2>3. /\ Tracks /\ KeepsDels /\ KeepsReads /\ pc'[c] = where
        /\ \A d \in Callers : d # c => pc'[d] = pc[d]
    BY <2>1, <2>2, GoingKeeps
  <2> QED BY <2>2, <2>3 DEF KeepsTiers, Fresh
<1> QED BY <1>1, <1>2, <1>3, <1>4, <1>5 DEF Resume

(* Every other command is behind the oldest one.                           *)
LEMMA Behind ==
  ASSUME FlightInv, wire # <<>>, NEW d \in Callers, pc[d] \in {"sent", "setting"}, d # Head(wire)
  PROVE  \E j \in DOMAIN wire : 1 < j /\ wire[j] = d
<1>1. /\ Head(wire) = wire[1] /\ 1 \in DOMAIN wire /\ DOMAIN wire = 1..Len(wire)
      /\ Len(wire) \in Nat \ {0}
  BY WireHead
<1>2. PICK j \in DOMAIN wire : wire[j] = d
  BY DEF FlightInv, WireOK
<1>3. j # 1
  BY <1>1, <1>2
<1>4. 1 < j
  BY <1>1, <1>3
<1> QED BY <1>2, <1>4

(* L2 applies a command: a read finds what the tier holds, a del drops it. *)
LEMMA ApplyKeeps ==
  ASSUME DelInv, Apply PROVE Tracks /\ KeepsDels /\ KeepsReads /\ KeepsTiers
<1> USE DEF tierVars, flightVars
<1>0. PICK c \in Callers : c = Head(wire) /\ pc[c] \in {"sent", "setting"} /\ wire # <<>>
                          /\ c = wire[1] /\ 1 \in DOMAIN wire
  BY WireHead DEF Apply, DelInv
<1>1. op[c] \in Ops /\ (pc[c] = "setting" => op[c] = "wrap")
  BY <1>0 DEF DelInv, FlightInv, PlaceOK, Ops
<1>2. /\ UNCHANGED <<tiers, l1, superseded, overtaken, op, answer, before>>
      /\ Goes(c, CASE pc[c] = "sent" /\ Reads(c) -> "applied"
                   [] pc[c] = "setting" -> "kept" [] op[c] = "set" -> "set"
                   [] op[c] = "del" -> "dropped")
      /\ read' = IF pc[c] = "sent" /\ Reads(c) THEN [read EXCEPT ![c] = l2] ELSE read
      /\ l2' = CASE pc[c] = "sent" /\ Reads(c) -> l2 [] op[c] = "del" -> Nothing [] OTHER -> c
  BY <1>0 DEF Apply, Reads
<1>3. \A d \in Callers : d # c => pc'[d] = pc[d]
  BY <1>2 DEF Goes, DelInv, FlightInv, CacheTypes
<1>4. CASE pc[c] = "sent" /\ Reads(c)
  <2>1. /\ pc'[c] = "applied" /\ read'[c] = l2 /\ l2' = l2
        /\ \A d \in Callers : d # c => read'[d] = read[d]
    BY <1>2, <1>4 DEF Goes, Reads, DelInv, FlightInv, CacheTypes
  <2>2. ASSUME NEW d \in Callers, Deleting(d) PROVE superseded = TRUE
    <3>1. d # c
      BY <1>4, <2>2 DEF Deleting, Reads
    <3>2. PICK j \in DOMAIN wire : 1 < j /\ wire[j] = d
      BY <1>0, <2>2, <3>1, Behind DEF Deleting, DelInv
    <3>3. Promotes(wire[1]) /\ op[wire[j]] = "del"
      BY <1>0, <1>4, <2>2, <3>2 DEF Promotes, Deleting
    <3> QED BY <1>0, <3>2, <3>3 DEF DelInv, QueueOK
  <2>3. op[c] # "del"
    BY <1>4 DEF Reads
  <2>4. Tracks
    BY <1>2, <1>3, <1>4, <2>1 DEF Tracks, NotStored
  <2>5. KeepsDels
    BY <1>2, <1>3, <2>3 DEF KeepsDels, Deleting, Gone
  <2>6. KeepsReads
    BY <1>2, <1>3, <2>1, <2>2 DEF KeepsReads
  <2>7. KeepsTiers
    BY <1>2, <1>3, <2>1 DEF KeepsTiers
  <2> QED BY <2>4, <2>5, <2>6, <2>7
<1>5. CASE op[c] = "del"
  <2>1. pc[c] = "sent" /\ ~Reads(c)
    BY <1>0, <1>1, <1>5 DEF Reads
  <2>2. pc'[c] = "dropped" /\ read' = read /\ l2' = Nothing
    BY <1>2, <1>5, <2>1 DEF Goes, Reads, DelInv, FlightInv, CacheTypes
  <2>3. Drops(c)
    <3>1. ASSUME NEW e \in before[c].loading, pc'[e] = "setting" PROVE FALSE
      <4>1. e \in Callers /\ e # c /\ pc[e] = "setting"
        BY <1>3, <2>2, <3>1 DEF DelInv, HistoryOK
      <4>2. PICK j \in DOMAIN wire : 1 < j /\ wire[j] = e
        BY <1>0, <4>1, Behind DEF DelInv
      <4> QED BY <1>0, <1>5, <3>1, <4>1, <4>2 DEF DelInv, QueueOK
    <3>2. \A e \in Callers : pc'[e] = "applied" => pc[e] = "applied"
      BY <1>3, <2>2
    <3> QED BY <1>2, <1>5, <2>1, <2>2, <3>1, <3>2 DEF Drops, Deleting
  <2>4. Tracks
    BY <1>2, <1>3, <1>5, <2>1, <2>2 DEF Tracks, NotStored
  <2>5. KeepsDels
    BY <1>2, <1>3, <2>2, <2>3 DEF KeepsDels, Deleting, Gone
  <2>6. KeepsReads
    BY <1>3, <2>2 DEF KeepsReads
  <2>7. KeepsTiers
    BY <1>2, <1>3, <2>2 DEF KeepsTiers
  <2> QED BY <2>4, <2>5, <2>6, <2>7
<1>6. CASE op[c] = "set" \/ pc[c] = "setting"
  <2>1. ~(pc[c] = "sent" /\ Reads(c)) /\ op[c] # "del"
    BY <1>1, <1>6 DEF Reads
  <2>2. pc'[c] \in {"set", "kept"} /\ read' = read /\ l2' = c
    BY <1>1, <1>2, <1>6, <2>1 DEF Goes, Reads, DelInv, FlightInv, CacheTypes
  <2>3. op[c] # "wrap" \/ pc[c] = "setting"
    BY <1>6
  <2>4. Tracks
    BY <1>0, <1>2, <1>3, <2>2 DEF Tracks, NotStored
  <2>5. KeepsDels
    BY <1>2, <1>3, <2>1, <2>2 DEF KeepsDels, Deleting, Gone
  <2>6. KeepsReads
    BY <1>3, <2>2 DEF KeepsReads
  <2>7. KeepsTiers
    BY <1>0, <1>2, <1>3, <2>2, <2>3 DEF KeepsTiers
  <2> QED BY <2>4, <2>5, <2>6, <2>7
<1> QED BY <1>0, <1>1, <1>4, <1>5, <1>6 DEF Reads, Ops

(* The connection fails a command, applied or not.                         *)
LEMMA FailsKeeps ==
  ASSUME DelInv, Fails PROVE Tracks /\ KeepsDels /\ KeepsReads /\ KeepsTiers
<1> USE CacheAssumption
<1>0. PICK c \in Callers : c = Head(wire) /\ pc[c] \in {"sent", "setting"} /\ wire # <<>>
  BY WireHead DEF Fails, DelInv
<1>1. /\ UNCHANGED <<tiers, l1, op, read, before>> /\ Settles(c, "failed")
      /\ \/ l2' \in {l2, Nothing}
         \/ ~(pc[c] = "sent" /\ Reads(c)) /\ l2' = c
  BY <1>0 DEF Fails, Reads
<1>2. /\ pc'[c] = "done" /\ answer'[c] = "failed"
      /\ \A d \in Callers : d # c /\ pc[d] # "joined" => pc'[d] = pc[d] /\ answer'[d] = answer[d]
      /\ \A d \in Callers : pc[d] = "joined" => op[d] = "wrap" /\ pc'[d] \in {"joined", "done"}
  BY <1>0, <1>1, SettlingMoves DEF DelInv
<1>3. op[c] \in Ops /\ (pc[c] = "setting" => op[c] = "wrap")
  BY <1>0 DEF DelInv, FlightInv, PlaceOK, Ops
<1>4. ASSUME NEW d \in Callers, op[d] = "wrap", pc'[d] \in NotStored
      PROVE  pc[d] \in NotStored /\ (overtaken = TRUE => overtaken' = TRUE)
  <2>1. d # c /\ pc'[d] = pc[d]
    BY <1>2, <1>4 DEF NotStored
  <2>2. d \in Loading
    BY <1>4, <2>1 DEF Loading, NotStored
  <2>3. op[c] # "wrap"
    <3>1. op[c] = "wrap" => c \in Loading
      BY <1>0 DEF Loading
    <3> QED BY <2>1, <2>2, <3>1 DEF DelInv, FlightInv, FlightOK
  <2> QED BY <1>1, <1>4, <2>1, <2>3 DEF Settles
<1>5. Tracks
  BY <1>0, <1>1, <1>2, <1>4 DEF Tracks
<1>6. KeepsDels
  BY <1>1, <1>2 DEF KeepsDels, Deleting, Gone
<1>7. KeepsReads
  BY <1>1, <1>2 DEF KeepsReads
<1>8. KeepsTiers
  BY <1>0, <1>1, <1>2, <1>3 DEF KeepsTiers, Reads, Ops
<1> QED BY <1>5, <1>6, <1>7, <1>8

(* An entry is evicted or expires.                                         *)
LEMMA LapseKeeps == ASSUME DelInv, Lapse PROVE Tracks /\ KeepsDels /\ KeepsReads /\ KeepsTiers
<1>1. /\ UNCHANGED <<tiers, superseded, overtaken, op, pc, read, answer, before>>
      /\ l1' \in {l1, Nothing} /\ l2' \in {l2, Nothing}
  BY DEF Lapse, flightVars, cacheCallVars
<1>2. Tracks /\ KeepsTiers
  BY <1>1 DEF Tracks, KeepsTiers
<1>3. KeepsDels /\ KeepsReads
  BY <1>1 DEF KeepsDels, KeepsReads, Deleting, Gone
<1> QED BY <1>2, <1>3

(* The call of a del clears L1, overtakes the load and marks the reads.    *)
LEMMA DelBegins ==
  ASSUME DelInv, NEW c \in Callers, BeginDel(c), KeepsMark, FlightInv'
  PROVE  HistoryOK' /\ StoredOK' /\ LoadedOK'
<1> USE CacheAssumption
<1> DEFINE where == IF RemoteEnabled THEN "sent" ELSE "dropped"
           found == [stored |-> Stored, loading |-> Loading]
<1>1. /\ pc[c] = "idle" /\ op' = [op EXCEPT ![c] = "del"] /\ pc' = [pc EXCEPT ![c] = where]
      /\ before' = [before EXCEPT ![c] = found] /\ TierSupersede /\ CacheSupersede
      /\ UNCHANGED <<tiers, l2, read, answer, inflight>>
      /\ l1' = IF LocalEnabled THEN Nothing ELSE l1
  BY DEF BeginDel, Begin, Goes
<1>2. /\ \A d \in Callers : d # c => /\ pc'[d] = pc[d] /\ op'[d] = op[d] /\ answer'[d] = answer[d]
                                    /\ before'[d] = before[d]
      /\ pc'[c] = where /\ op'[c] = "del"
      /\ before'[c].stored = Stored /\ before'[c].loading = Loading
  BY <1>1 DEF DelInv, FlightInv, CacheTypes
<1>3. l1' = Nothing
  BY <1>1 DEF DelInv, TiersOK
<1>4. overtaken = TRUE \/ inflight # Nothing => overtaken' = TRUE
  <2>1. overtaken = TRUE => overtaken' = TRUE
    BY <1>1, Zenon DEF CacheSupersede
  <2>2. inflight # Nothing => overtaken' = TRUE
    BY <1>1, Zenon DEF CacheSupersede
  <2> QED BY <2>1, <2>2
<1>5. HistoryOK'
  <2>1. ASSUME NEW d \in Callers, d # c
        PROVE  /\ \A e \in before'[d].stored : e = Earlier \/ (e \in Callers /\ pc'[e] = "done")
               /\ \A e \in before'[d].loading :
                    /\ e \in Callers /\ op'[e] = "wrap" /\ pc'[e] # "idle"
                    /\ pc'[e] \in NotStored => overtaken' = TRUE
    BY <1>1, <1>2, <1>4, <2>1 DEF DelInv, HistoryOK
  <2>2. \A e \in Stored : e = Earlier \/ (e \in Callers /\ pc'[e] = "done")
    BY <1>1, <1>2 DEF Stored
  <2>3. ASSUME NEW e \in Loading
        PROVE  e \in Callers /\ op'[e] = "wrap" /\ pc'[e] # "idle" /\ overtaken' = TRUE
    <3>1. e # c /\ e \in Callers /\ op[e] = "wrap" /\ pc[e] # "idle"
      BY <1>1 DEF Loading
    <3>2. inflight = e
      BY <3>1 DEF DelInv, FlightInv, FlightOK
    <3> QED BY <1>2, <1>4, <3>1, <3>2
  <2> QED BY <1>2, <2>1, <2>2, <2>3 DEF HistoryOK
<1>6. /\ \A d \in Callers : Nothing \notin before'[d].stored /\ Nothing \notin before'[d].loading
  BY <1>5 DEF HistoryOK
<1>7. Gone(c)' => ~RemoteEnabled
  BY <1>2 DEF Gone
<1>8. ASSUME NEW e \in Callers, pc'[e] = "applied" PROVE e # c /\ Promotes(e) /\ Promotes(e)'
  <2>1. e # c /\ pc[e] = "applied"
    BY <1>2, <1>8
  <2> QED BY <1>2, <2>1 DEF DelInv, FlightInv, PlaceOK, Promotes, Reads
<1>9. StoredOK'
  <2> SUFFICES ASSUME NEW d \in Callers
               PROVE  /\ Gone(d)' => l2' \notin before'[d].stored
                      /\ \A e \in Callers : pc'[e] = "applied" =>
                           /\ Deleting(d)' => superseded' = TRUE
                           /\ Gone(d)' => superseded' = TRUE \/ read'[e] \notin before'[d].stored
    BY <1>3, <1>6 DEF StoredOK
  <2>1. CASE d = c
    <3>1. Gone(d)' => l2' \notin before'[d].stored
      BY <1>1, <1>6, <1>7, <2>1 DEF DelInv, TiersOK
    <3>2. ASSUME NEW e \in Callers, pc'[e] = "applied" PROVE superseded' = TRUE
      <4>1. e \in Promoters
        BY <1>8, <3>2 DEF Promoters
      <4> QED BY <1>1, <4>1, MarkKept DEF DelInv
    <3> QED BY <3>1, <3>2
  <2>2. CASE d # c
    <3>1. (Deleting(d)' <=> Deleting(d)) /\ (Gone(d)' <=> Gone(d)) /\ before'[d] = before[d]
      BY <1>2, <2>2 DEF Deleting, Gone
    <3>2. \A e \in Callers : pc'[e] = "applied" => pc[e] = "applied" /\ Promotes(e)'
      BY <1>2, <1>8
    <3> QED BY <1>1, <3>1, <3>2 DEF DelInv, StoredOK, KeepsMark
  <2> QED BY <2>1, <2>2
<1>10. LoadedOK'
  <2> SUFFICES ASSUME NEW d \in Callers
               PROVE  /\ Gone(d)' => l2' \notin before'[d].loading
                      /\ Gone(d)' => \A e \in before'[d].loading : pc'[e] # "setting"
    BY <1>3, <1>6 DEF LoadedOK
  <2>1. CASE d = c
    <3>1. Gone(d)' => l2' = Nothing
      BY <1>1, <1>7, <2>1 DEF DelInv, TiersOK
    <3>2. ASSUME Gone(d)', NEW e \in Loading PROVE pc'[e] # "setting"
      <4>1. e \in Callers /\ e # c
        BY <1>1 DEF Loading
      <4> QED BY <1>2, <1>7, <2>1, <3>2, <4>1 DEF DelInv, FlightInv, PlaceOK
    <3> QED BY <1>2, <1>6, <2>1, <3>1, <3>2
  <2>2. CASE d # c
    <3>1. (Gone(d)' <=> Gone(d)) /\ before'[d] = before[d]
      BY <1>2, <2>2 DEF Gone
    <3>2. \A e \in before[d].loading : e \in Callers /\ e # c
      BY <1>1 DEF DelInv, HistoryOK
    <3> QED BY <1>1, <1>2, <3>1, <3>2 DEF DelInv, LoadedOK
  <2> QED BY <2>1, <2>2
<1> QED BY <1>5, <1>9, <1>10

(* The order on the wire, when no command is sent or taken,                *)
LEMMA QueueStays ==
  ASSUME DelInv, KeepsMark, wire' = wire,
         \A d \in Callers : pc[d] \in {"sent", "setting"} =>
           pc'[d] = pc[d] /\ op'[d] = op[d] /\ before'[d] = before[d]
  PROVE  QueueOK'
<1>1. \A i \in DOMAIN wire : /\ wire[i] \in Callers /\ pc[wire[i]] \in {"sent", "setting"}
                            /\ pc'[wire[i]] = pc[wire[i]] /\ op'[wire[i]] = op[wire[i]]
                            /\ before'[wire[i]] = before[wire[i]]
  BY ElementOfSeq, LenProperties DEF DelInv, FlightInv, WireOK, CacheTypes
<1> SUFFICES ASSUME NEW i \in DOMAIN wire, NEW j \in DOMAIN wire, i < j
             PROVE  /\ Promotes(wire[i])' /\ op'[wire[j]] = "del" => superseded' = TRUE
                    /\ op'[wire[i]] = "del" /\ wire[j] \in before'[wire[i]].loading
                         => pc'[wire[j]] # "setting"
  BY DEF QueueOK
<1>2. Promotes(wire[i])' => Promotes(wire[i])
  BY <1>1 DEF Promotes, Reads
<1>3. Promotes(wire[i])' /\ superseded = TRUE => superseded' = TRUE
  BY <1>1 DEF KeepsMark
<1> QED BY <1>1, <1>2, <1>3 DEF DelInv, QueueOK

(* when the oldest is taken,                                               *)
LEMMA QueueAdvances ==
  ASSUME DelInv, KeepsMark, wire # <<>>, DOMAIN wire' = 1..(Len(wire) - 1),
         \A i \in 1..(Len(wire) - 1) : wire'[i] = wire[i + 1],
         \A d \in Callers : d # Head(wire) /\ pc[d] \in {"sent", "setting"} =>
           pc'[d] = pc[d] /\ op'[d] = op[d] /\ before'[d] = before[d]
  PROVE  QueueOK'
<1> DEFINE n == Len(wire)
<1>1. /\ Head(wire) = wire[1] /\ 1 \in DOMAIN wire /\ DOMAIN wire = 1..n
      /\ n \in Nat \ {0} /\ DOMAIN wire' = 1..(n - 1)
      /\ \A i \in 1..(n - 1) : wire'[i] = wire[i + 1]
  BY WireHead DEF DelInv
<1>2. \A i \in 1..(n - 1) : i + 1 \in DOMAIN wire /\ i + 1 # 1
  BY <1>1
<1>3. \A i \in DOMAIN wire : wire[i] \in Callers /\ pc[wire[i]] \in {"sent", "setting"}
  BY ElementOfSeq, LenProperties DEF DelInv, FlightInv, WireOK, CacheTypes
<1>4. \A i \in 1..(n - 1) : /\ wire'[i] \in Callers /\ wire'[i] # Head(wire)
                            /\ pc'[wire'[i]] = pc[wire'[i]] /\ op'[wire'[i]] = op[wire'[i]]
                            /\ before'[wire'[i]] = before[wire'[i]]
  BY <1>1, <1>2, <1>3 DEF DelInv, FlightInv, WireOK
<1>0. DOMAIN wire' = 1..(n - 1)
  BY <1>1
<1> SUFFICES ASSUME NEW i \in 1..(n - 1), NEW j \in 1..(n - 1), i < j
             PROVE  /\ Promotes(wire[i])' /\ op'[wire'[j]] = "del" => superseded' = TRUE
                    /\ op'[wire'[i]] = "del" /\ wire'[j] \in before'[wire'[i]].loading
                         => pc'[wire'[j]] # "setting"
  BY <1>0, Zenon DEF QueueOK
<1>5. /\ i + 1 \in DOMAIN wire /\ j + 1 \in DOMAIN wire /\ i + 1 < j + 1
      /\ wire'[i] = wire[i + 1] /\ wire'[j] = wire[j + 1]
  BY <1>1, <1>2
<1>6. Promotes(wire[i])' => Promotes(wire[i + 1])
  BY <1>4, <1>5 DEF Promotes, Reads
<1>7. Promotes(wire[i])' /\ superseded = TRUE => superseded' = TRUE
  <2>1. PICK e \in Callers : e = wire'[i]
    BY <1>4
  <2>2. Promotes(wire[i])' => Promotes(e)'
    BY <2>1 DEF Promotes, Reads
  <2> QED BY <2>2 DEF KeepsMark
<1> QED BY <1>4, <1>5, <1>6, <1>7 DEF DelInv, QueueOK

(* and when one is sent.                                                   *)
LEMMA QueueGrows ==
  ASSUME DelInv, KeepsMark, NEW c \in Callers, Send(c), pc[c] \notin {"sent", "setting"},
         pc'[c] \in {"sent", "setting"}, TierSupersede \/ op'[c] # "del",
         \A d \in Callers : d # c =>
           pc'[d] = pc[d] /\ op'[d] = op[d] /\ before'[d] = before[d],
         pc'[c] = "setting" => \A d \in Callers : c \notin before[d].loading
  PROVE  QueueOK'
<1> DEFINE n == Len(wire)
<1>1. /\ n \in Nat /\ DOMAIN wire = 1..n /\ DOMAIN wire' = 1..(n + 1)
      /\ \A i \in 1..n : wire'[i] = wire[i] /\ wire[i] # c
      /\ wire'[n + 1] = c
  BY WireSends DEF DelInv
<1>2. \A i \in 1..n : wire[i] \in Callers
  BY <1>1, ElementOfSeq DEF DelInv, FlightInv, CacheTypes
<1>0. DOMAIN wire' = 1..(n + 1)
  BY <1>1
<1> SUFFICES ASSUME NEW i \in 1..(n + 1), NEW j \in 1..(n + 1), i < j
             PROVE  /\ Promotes(wire[i])' /\ op'[wire'[j]] = "del" => superseded' = TRUE
                    /\ op'[wire'[i]] = "del" /\ wire'[j] \in before'[wire'[i]].loading
                         => pc'[wire'[j]] # "setting"
  BY <1>0, Zenon DEF QueueOK
<1>3. i \in 1..n /\ (j \in 1..n \/ j = n + 1)
  BY <1>1
<1>4. PICK e \in Callers : e = wire[i] /\ e = wire'[i] /\ e # c
  BY <1>1, <1>2, <1>3
<1>5. Promotes(wire[i])' => Promotes(e) /\ Promotes(e)'
  BY <1>4 DEF Promotes, Reads
<1>6. CASE j \in 1..n
  <2>1. wire'[j] = wire[j] /\ wire[j] \in Callers /\ wire[j] # c
    BY <1>1, <1>2, <1>6
  <2>2. Promotes(wire[i])' /\ op'[wire'[j]] = "del" => superseded' = TRUE
    BY <1>1, <1>3, <1>4, <1>5, <1>6, <2>1 DEF DelInv, QueueOK, KeepsMark
  <2> QED BY <1>1, <1>3, <1>4, <1>6, <2>1, <2>2 DEF DelInv, QueueOK
<1>7. CASE j = n + 1
  <2>1. wire'[j] = c
    BY <1>1, <1>7
  <2>2. Promotes(wire[i])' /\ op'[c] = "del" => superseded' = TRUE
    <3>1. Promotes(e) => e \in Promoters
      BY DEF Promoters
    <3> QED BY <1>5, <3>1, MarkKept DEF DelInv
  <2> QED BY <1>4, <2>1, <2>2
<1> QED BY <1>3, <1>6, <1>7

(* Every step keeps the order on the wire.                                 *)
LEMMA QueueInductive == ASSUME DelInv, CacheNext, KeepsMark PROVE QueueOK'
<1> USE DEF tierVars, flightVars
<1>1. ASSUME NEW c \in Callers, (\E what \in Ops : BeginRead(c, what)) \/ Join(c) PROVE QueueOK'
  <2>1. /\ pc[c] = "idle" /\ wire' = wire /\ before' = before
        /\ \E what \in Ops : op' = [op EXCEPT ![c] = what]
        /\ \E where \in CallStates : pc' = [pc EXCEPT ![c] = where]
    BY <1>1 DEF BeginRead, Join, Begin, Goes, CallStates, Ops
  <2>2. \A d \in Callers : pc[d] \in {"sent", "setting"} =>
          pc'[d] = pc[d] /\ op'[d] = op[d] /\ before'[d] = before[d]
    BY <2>1 DEF DelInv, FlightInv, CacheTypes
  <2> QED BY <2>1, <2>2, QueueStays
<1>2. ASSUME NEW c \in Callers, BeginSet(c) \/ BeginDel(c) PROVE QueueOK'
  <2>1. /\ pc[c] = "idle" /\ TierSupersede
        /\ \E what \in Ops : op' = [op EXCEPT ![c] = what]
        /\ before' = before \/ before' = [before EXCEPT ![c] = [stored |-> Stored, loading |-> Loading]]
        /\ IF RemoteEnabled THEN Send(c) ELSE wire' = wire
    BY <1>2 DEF BeginSet, BeginDel, Begin, TierSet, Ops
  <2>2. PICK where \in CallStates :
           pc' = [pc EXCEPT ![c] = where] /\ (RemoteEnabled => where = "sent")
    BY <1>2 DEF BeginSet, BeginDel, Goes, CallStates
  <2>3. /\ \A d \in Callers : d # c => pc'[d] = pc[d] /\ op'[d] = op[d] /\ before'[d] = before[d]
        /\ pc'[c] = where
    <3>1. \A d \in Callers : d # c => before'[d] = before[d]
      BY <2>1 DEF DelInv, FlightInv, CacheTypes
    <3>2. \A d \in Callers : d # c => op'[d] = op[d]
      BY <2>1 DEF DelInv, FlightInv, CacheTypes
    <3>3. (\A d \in Callers : d # c => pc'[d] = pc[d]) /\ pc'[c] = where
      BY <2>2 DEF DelInv, FlightInv, CacheTypes
    <3> QED BY <3>1, <3>2, <3>3
  <2>4. CASE RemoteEnabled
    <3>1. pc'[c] = "sent" /\ pc[c] = "idle" /\ Send(c) /\ TierSupersede
      BY <2>1, <2>2, <2>3, <2>4
    <3> QED BY <2>3, <3>1, QueueGrows
  <2>5. CASE ~RemoteEnabled
    <3>1. \A d \in Callers : pc[d] \in {"sent", "setting"} =>
            pc'[d] = pc[d] /\ op'[d] = op[d] /\ before'[d] = before[d]
      BY <2>1, <2>3
    <3> QED BY <2>1, <2>5, <3>1, QueueStays
  <2> QED BY <2>4, <2>5
<1>3. ASSUME NEW c \in Callers, NEW v, Settles(c, v), UNCHANGED <<op, before, wire>>,
             pc[c] \notin {"joined", "sent", "setting"}
      PROVE  QueueOK'
  <2>1. \A d \in Callers : d # c /\ pc[d] # "joined" => pc'[d] = pc[d]
    BY <1>3, SettlingMoves DEF DelInv
  <2>2. \A d \in Callers : pc[d] \in {"sent", "setting"} =>
          pc'[d] = pc[d] /\ op'[d] = op[d] /\ before'[d] = before[d]
    BY <1>3, <2>1
  <2> QED BY <1>3, <2>2, QueueStays
<1>4. ASSUME NEW c \in Callers, NEW where, Goes(c, where), UNCHANGED <<op, before, wire>>,
             pc[c] \notin {"sent", "setting"}
      PROVE  QueueOK'
  <2>1. \A d \in Callers : pc[d] \in {"sent", "setting"} =>
          pc'[d] = pc[d] /\ op'[d] = op[d] /\ before'[d] = before[d]
    BY <1>4 DEF Goes, DelInv, FlightInv, CacheTypes
  <2> QED BY <1>4, <2>1, QueueStays
<1>5. ASSUME NEW c \in Callers, NEW where \in {"sent", "setting"}, Goes(c, where), Send(c),
             UNCHANGED <<op, before>>, pc[c] \notin {"sent", "setting"}, op[c] # "del",
             where = "setting" => \A d \in Callers : c \notin before[d].loading
      PROVE  QueueOK'
  <2>1. /\ \A d \in Callers : d # c => pc'[d] = pc[d] /\ op'[d] = op[d] /\ before'[d] = before[d]
        /\ pc'[c] = where /\ op'[c] # "del"
    BY <1>5 DEF Goes, DelInv, FlightInv, CacheTypes
  <2> QED BY <1>5, <2>1, QueueGrows
<1>6. ASSUME NEW c \in Callers, Near(c) PROVE QueueOK'
  <2>1. pc[c] = "near" /\ op[c] # "del" /\ UNCHANGED <<op, before>>
    BY <1>6 DEF Near, DelInv, FlightInv, PlaceOK, Reads
  <2>2. CASE Settles(c, read[c]) /\ UNCHANGED wire
    BY <1>3, <2>1, <2>2
  <2>3. CASE Goes(c, "load") /\ UNCHANGED wire
    BY <1>4, <2>1, <2>3
  <2>4. CASE Goes(c, "sent") /\ Send(c)
    BY <1>5, <2>1, <2>4
  <2> QED BY <1>6, <2>2, <2>3, <2>4 DEF Near, ReadEnds
<1>7. ASSUME NEW c \in Callers, Far(c) PROVE QueueOK'
  <2>1. pc[c] = "applied" /\ UNCHANGED <<op, before, wire>>
    BY <1>7 DEF Far
  <2>2. PICK v : ReadEnds(c, v)
    BY <1>7 DEF Far
  <2> QED BY <1>3, <1>4, <2>1, <2>2 DEF ReadEnds
<1>8. ASSUME NEW c \in Callers, LoadThrows(c) \/ LoadUnstored(c) \/ SetEnds(c) \/ DelEnds(c)
      PROVE  QueueOK'
  <2>1. pc[c] \in {"load", "set", "kept", "dropped"} /\ UNCHANGED <<op, before, wire>>
    BY <1>8 DEF LoadThrows, LoadUnstored, SetEnds, DelEnds
  <2>2. PICK v : Settles(c, v)
    BY <1>8 DEF LoadThrows, LoadUnstored, SetEnds, DelEnds
  <2> QED BY <1>3, <2>1, <2>2
<1>9. ASSUME NEW c \in Callers, LoadStores(c) PROVE QueueOK'
  <2>1. /\ pc[c] = "load" /\ op[c] = "wrap" /\ overtaken # TRUE /\ UNCHANGED <<op, before>>
        /\ IF RemoteEnabled THEN Send(c) /\ Goes(c, "setting") ELSE UNCHANGED wire /\ Goes(c, "kept")
    BY <1>9 DEF LoadStores, TierSet, DelInv, FlightInv, PlaceOK
  <2>2. \A d \in Callers : c \notin before[d].loading
    BY <2>1 DEF DelInv, HistoryOK, NotStored
  <2> QED BY <1>4, <1>5, <2>1, <2>2
<1>10. CASE Apply \/ Fails
  <2>1. wire # <<>> /\ wire' = Tail(wire) /\ op' = op /\ before' = before
    BY <1>10 DEF Apply, Fails
  <2>2. /\ DOMAIN wire' = 1..(Len(wire) - 1)
        /\ \A i \in 1..(Len(wire) - 1) : wire'[i] = wire[i + 1]
        /\ Head(wire) \in Callers /\ pc[Head(wire)] \in {"sent", "setting"}
    BY <2>1, WireHead DEF DelInv
  <2>3. \A d \in Callers : d # Head(wire) /\ pc[d] \in {"sent", "setting"} => pc'[d] = pc[d]
    <3>1. CASE Apply
      BY <2>2, <3>1 DEF Apply, Goes, DelInv, FlightInv, CacheTypes
    <3>2. CASE Fails
      <4>1. Settles(Head(wire), "failed")
        BY <3>2 DEF Fails
      <4> QED BY <2>1, <2>2, <4>1 DEF Settles
    <3> QED BY <1>10, <3>1, <3>2
  <2> QED BY <2>1, <2>2, <2>3, QueueAdvances
<1>11. CASE Lapse
  <2>1. UNCHANGED <<wire, op, pc, before>>
    BY <1>11 DEF Lapse, cacheCallVars
  <2> QED BY <2>1, QueueStays
<1> QED BY <1>1, <1>2, <1>6, <1>7, <1>8, <1>9, <1>10, <1>11 DEF CacheNext, Resume

(* A tier that is disabled holds nothing.                                  *)
LEMMA TiersInductive == ASSUME DelInv, CacheNext PROVE TiersOK'
<1> USE DEF tierVars, flightVars
<1>1. ASSUME NEW c \in Callers, (\E what \in Ops : BeginRead(c, what)) \/ Join(c) \/ Near(c)
                 \/ LoadThrows(c) \/ LoadUnstored(c) \/ DelEnds(c)
      PROVE  TiersOK'
  <2>1. UNCHANGED <<tiers, l1, l2>>
    BY <1>1 DEF BeginRead, Join, Near, LoadThrows, LoadUnstored, DelEnds
  <2> QED BY <2>1 DEF DelInv, TiersOK, LocalEnabled, RemoteEnabled
<1>2. ASSUME NEW c \in Callers, BeginSet(c) \/ BeginDel(c) \/ Far(c) \/ SetEnds(c) \/ LoadStores(c)
      PROVE  TiersOK'
  <2>1. UNCHANGED <<tiers, l2>> /\ (~LocalEnabled => l1' = l1)
    BY <1>2 DEF BeginSet, BeginDel, Far, SetEnds, LoadStores, TierSet
  <2> QED BY <2>1 DEF DelInv, TiersOK, LocalEnabled, RemoteEnabled
<1>3. CASE Apply \/ Fails
  <2>1. UNCHANGED <<tiers, l1>> /\ wire # <<>>
    BY <1>3 DEF Apply, Fails
  <2>2. RemoteEnabled
    BY <2>1, WireHead DEF DelInv
  <2> QED BY <2>1, <2>2 DEF DelInv, TiersOK, LocalEnabled, RemoteEnabled
<1>4. CASE Lapse
  BY <1>4 DEF Lapse, DelInv, TiersOK, LocalEnabled, RemoteEnabled
<1> QED BY <1>1, <1>2, <1>3, <1>4 DEF CacheNext, Resume

(* Every step keeps the invariant of the dels.                             *)
LEMMA DelInductive == ASSUME DelInv, [CacheNext]_cacheVars PROVE DelInv'
<1>1. FlightInv'
  BY FlightInductive DEF DelInv
<1>2. PromotingOK'
  BY PromotingInductive DEF DelInv
<1>3. ASSUME CacheNext PROVE DelInv'
  <2>1. KeepsMark
    BY <1>3, MarkStays
  <2>2. TiersOK' /\ QueueOK'
    BY <1>3, <2>1, TiersInductive, QueueInductive
  <2>3. HistoryOK' /\ StoredOK' /\ LoadedOK'
    <3>1. CASE \E c \in Callers : BeginDel(c)
      BY <1>1, <2>1, <3>1, DelBegins
    <3>2. ASSUME Tracks /\ KeepsDels /\ KeepsReads /\ KeepsTiers
          PROVE  HistoryOK' /\ StoredOK' /\ LoadedOK'
      BY <1>1, <2>1, <3>2, KeptHistory, KeptStored, KeptLoaded DEF DelInv
    <3>3. ASSUME NEW c \in Callers,
                 (\E what \in Ops : BeginRead(c, what)) \/ Join(c) \/ BeginSet(c) \/ Resume(c)
          PROVE  HistoryOK' /\ StoredOK' /\ LoadedOK'
      BY <3>2, <3>3, BeginKeeps, ResumeKeeps
    <3>4. CASE Apply \/ Fails \/ Lapse
      BY <3>2, <3>4, ApplyKeeps, FailsKeeps, LapseKeeps
    <3> QED BY <1>3, <3>1, <3>3, <3>4 DEF CacheNext
  <2> QED BY <1>1, <1>2, <2>2, <2>3 DEF DelInv
<1>4. ASSUME UNCHANGED cacheVars PROVE DelInv'
  <2>1. UNCHANGED <<tiers, l1, l2, wire, promoting, superseded, overtaken, op, pc, read, answer, before>>
    BY <1>4 DEF cacheVars, tierVars, flightVars, cacheCallVars
  <2>2. TiersOK' /\ HistoryOK'
    BY <2>1 DEF DelInv, TiersOK, HistoryOK, LocalEnabled, RemoteEnabled
  <2>3. StoredOK' /\ LoadedOK'
    BY <2>1 DEF DelInv, StoredOK, LoadedOK, Deleting, Gone, LocalEnabled, RemoteEnabled
  <2>4. QueueOK'
    BY <2>1 DEF DelInv, QueueOK, Promotes, Reads
  <2> QED BY <1>1, <1>2, <2>2, <2>3, <2>4 DEF DelInv
<1> QED BY <1>3, <1>4

(* A del that succeeded is not undone (tiered.ts:87-104, cache.ts:40-41),  *)
(* for any number of callers, however their steps interleave, whatever L2  *)
(* fails and whatever lapses: what it found stored never comes back to L1, *)
(* and in a store of one tier no loader brings its value back either.      *)
THEOREM DelAlwaysKept == CacheSpec => []DelKept
<1>1. CacheInit => DelInv
  <2> SUFFICES ASSUME CacheInit PROVE DelInv
    OBVIOUS
  <2> USE CacheAssumption
  <2>1. FlightInv
    BY FlightInit
  <2>2. \A c \in Callers : /\ pc[c] = "idle" /\ op[c] = Nothing
                           /\ before[c].stored = {} /\ before[c].loading = {}
    BY DEF CacheInit
  <2>3. PromotingOK
    <3>1. Promoters = {}
      BY <2>2 DEF Promoters, Promotes
    <3> QED BY <3>1, FS_EmptySet DEF CacheInit, PromotingOK
  <2>4. TiersOK /\ HistoryOK
    BY <2>2 DEF CacheInit, TiersOK, HistoryOK
  <2>5. StoredOK /\ LoadedOK
    BY <2>2 DEF StoredOK, LoadedOK, Deleting, Gone
  <2>6. QueueOK
    BY EmptySeq DEF CacheInit, QueueOK
  <2> QED BY <2>1, <2>3, <2>4, <2>5, <2>6 DEF DelInv
<1>2. DelInv => DelKept
  <2> SUFFICES ASSUME DelInv PROVE DelKept
    OBVIOUS
  <2> DEFINE over == {d \in Callers : op[d] = "del" /\ pc[d] = "done" /\ answer[d] = Nothing}
  <2>1. \A d \in over : d \in Callers /\ Gone(d)
    BY DEF Gone
  <2>2. l1 \notin DeletedStored
    BY <2>1 DEF DelInv, StoredOK, DeletedStored, Deleted
  <2>3. ASSUME Cardinality(tiers) < 2 PROVE LoaderKeepsDel
    <3>1. ~(LocalEnabled /\ RemoteEnabled)
      <4>1. IsFiniteSet({"local"}) /\ Cardinality({"local"}) = 1
        BY FS_Singleton
      <4>2. Cardinality({"local"} \cup {"remote"}) = 2
        BY <4>1, FS_AddElement
      <4>3. LocalEnabled /\ RemoteEnabled => tiers = {"local"} \cup {"remote"}
        BY DEF DelInv, FlightInv, CacheTypes, LocalEnabled, RemoteEnabled
      <4> QED BY <2>3, <4>2, <4>3
    <3>2. \A d \in over : l1 \notin before[d].loading /\ l2 \notin before[d].loading
      BY <2>1, <3>1 DEF DelInv, LoadedOK
    <3> QED BY <3>2 DEF LoaderKeepsDel, DeletedLoads, Deleted
  <2> QED BY <2>2, <2>3 DEF DelKept
<1> QED BY <1>1, <1>2, DelInductive, PTL DEF CacheSpec

-----------------------------------------------------------------------------
(* The subscriptions, where calls do not race.  A call in flight has its   *)
(* channels to itself; one that connects is alone; the others are on the   *)
(* subscriber; and the registry differs from what the wire delivers to     *)
(* only in the entries SUBSCRIBE is out for, in the way their calls noted. *)
Pairs == Channels \X Listeners
Stages == {"idle", "connecting", "subscribing", "unsubscribing"}

SubscriberTypes ==
  /\ subscriber \in Sockets \cup {NoSocket} /\ sockets \subseteq Sockets
  /\ registry \subseteq Pairs /\ delivers \in [Sockets -> SUBSET Pairs]
  /\ asked = [c \in Users |-> asked[c]]
  /\ \A c \in Users : asked[c].at \in Stages /\ asked[c].on \subseteq Pairs

CallsOK ==
  \A c \in Users :
    /\ asked[c].at = "idle" => asked[c].on = {}
    /\ asked[c].at = "connecting" =>
         /\ subscriber = NoSocket /\ asked[c].socket \in Sockets
         /\ delivers[asked[c].socket] = {}
         /\ \A d \in Users : d # c => asked[d].at = "idle"
    /\ asked[c].at \in {"subscribing", "unsubscribing"} =>
         subscriber # NoSocket /\ asked[c].socket = subscriber
    /\ \A d \in Users : d # c => \A p \in asked[c].on, q \in asked[d].on : p[1] # q[1]

SocketsOK ==
  /\ \A s \in sockets : s = subscriber \/ \E c \in Users : asked[c].at = "connecting" /\ asked[c].socket = s
  /\ subscriber = NoSocket => registry = {}

RegistryOK ==
  subscriber # NoSocket =>
    /\ \A p \in Pairs :
         (\A c \in Users : asked[c].at = "subscribing" => p \notin asked[c].on) =>
           (p \in registry <=> p \in delivers[subscriber])
    /\ \A c \in Users : asked[c].at = "subscribing" => \A p \in asked[c].on :
         p \in registry /\ (asked[c].added <=> p \notin delivers[subscriber])

SubscriberInv == SubscriberTypes /\ CallsOK /\ SocketsOK /\ RegistryOK

(* Every step keeps it.                                                    *)
LEMMA SubscriberInductive ==
  ASSUME Racing = FALSE, SubscriberInv, [SubscriberNext]_subscriberVars PROVE SubscriberInv'
<1> USE RedisSubscriberAssumption
<1>1. ASSUME NEW c \in Users, NEW pair \in Pairs, Subscribe(c, pair) PROVE SubscriberInv'
  <2>1. /\ asked[c].at = "idle" /\ subscriber' = subscriber
        /\ \A d \in Users : asked[d].at # "connecting" /\ \A q \in asked[d].on : q[1] # pair[1]
    BY <1>1 DEF Subscribe, Apart
  <2>2. CASE subscriber = NoSocket
    <3>1. PICK s \in Sockets \ sockets :
            /\ sockets' = sockets \cup {s} /\ delivers' = [delivers EXCEPT ![s] = {}]
            /\ asked' = [asked EXCEPT ![c] = [at |-> "connecting", socket |-> s, on |-> {pair},
                                            added |-> FALSE]]
            /\ registry' = registry
      BY <1>1, <2>2 DEF Subscribe
    <3>2. /\ asked'[c].at = "connecting" /\ asked'[c].socket = s /\ asked'[c].on = {pair}
          /\ \A d \in Users : d # c => asked'[d] = asked[d]
      BY <3>1 DEF SubscriberInv, SubscriberTypes
    <3>3. delivers' \in [Sockets -> SUBSET Pairs] /\ delivers'[s] = {}
      BY <3>1 DEF SubscriberInv, SubscriberTypes
    <3>4. SubscriberTypes'
      BY <2>1, <3>1, <3>2, <3>3 DEF SubscriberInv, SubscriberTypes, Stages
    <3>5. \A d \in Users : d # c => asked[d].at = "idle"
      BY <2>1, <2>2 DEF SubscriberInv, SubscriberTypes, CallsOK, Stages
    <3>6. CallsOK'
      BY <2>1, <2>2, <3>1, <3>2, <3>3, <3>5 DEF SubscriberInv, CallsOK
    <3>7. SocketsOK'
      BY <2>1, <2>2, <3>1, <3>2 DEF SubscriberInv, SocketsOK
    <3> QED BY <2>1, <2>2, <3>4, <3>6, <3>7 DEF SubscriberInv, RegistryOK
  <2>3. CASE subscriber # NoSocket
    <3>1. /\ registry' = registry \cup {pair} /\ UNCHANGED <<sockets, delivers>>
          /\ asked' = [asked EXCEPT ![c] = [at |-> "subscribing", socket |-> subscriber, on |-> {pair},
                                          added |-> pair \notin registry]]
      BY <1>1, <2>3 DEF Subscribe, Registers
    <3>2. /\ asked'[c].at = "subscribing" /\ asked'[c].socket = subscriber /\ asked'[c].on = {pair}
          /\ (asked'[c].added <=> pair \notin registry)
          /\ \A d \in Users : d # c => asked'[d] = asked[d]
      BY <3>1 DEF SubscriberInv, SubscriberTypes
    <3>3. SubscriberTypes'
      BY <2>1, <3>1, <3>2 DEF SubscriberInv, SubscriberTypes, Stages
    <3>4. CallsOK'
      BY <2>1, <2>3, <3>2 DEF SubscriberInv, CallsOK
    <3>5. SocketsOK'
      BY <2>1, <2>3, <3>1, <3>2 DEF SubscriberInv, SocketsOK
    <3>6. \A d \in Users : asked[d].at = "subscribing" => pair \notin asked[d].on
      BY <2>1
    <3>7. RegistryOK'
      BY <2>1, <2>3, <3>1, <3>2, <3>6 DEF SubscriberInv, RegistryOK
    <3> QED BY <3>3, <3>4, <3>5, <3>7 DEF SubscriberInv
  <2> QED BY <2>2, <2>3
<1>2. ASSUME NEW c \in Users, SocketConnects(c) PROVE SubscriberInv'
  <2>1. /\ asked[c].at = "connecting" /\ subscriber' = asked[c].socket /\ asked[c].socket \in sockets
        /\ UNCHANGED <<sockets, delivers>>
    BY <1>2 DEF SocketConnects
  <2>2. PICK pair \in asked[c].on :
          /\ registry' = registry \cup {pair}
          /\ asked' = [asked EXCEPT ![c] = [at |-> "subscribing", socket |-> asked[c].socket,
                                          on |-> {pair}, added |-> pair \notin registry]]
    BY <1>2 DEF SocketConnects, Registers
  <2>3. /\ subscriber = NoSocket /\ registry = {} /\ asked[c].socket \in Sockets
        /\ delivers[asked[c].socket] = {} /\ pair \in Pairs
        /\ \A d \in Users : d # c => asked[d].at = "idle"
    BY <2>1, <2>2 DEF SubscriberInv, SubscriberTypes, CallsOK, SocketsOK
  <2>4. /\ asked'[c].at = "subscribing" /\ asked'[c].socket = subscriber' /\ asked'[c].on = {pair}
        /\ (asked'[c].added <=> pair \notin registry)
        /\ \A d \in Users : d # c => asked'[d] = asked[d]
    BY <2>1, <2>2 DEF SubscriberInv, SubscriberTypes
  <2>5. SubscriberTypes'
    BY <2>1, <2>2, <2>3, <2>4 DEF SubscriberInv, SubscriberTypes, Stages
  <2>6. CallsOK'
    BY <2>1, <2>2, <2>3, <2>4 DEF SubscriberInv, CallsOK
  <2>7. SocketsOK'
    <3>1. \A s \in sockets : s # NoSocket /\ s = subscriber'
      BY <2>1, <2>3 DEF SubscriberInv, SubscriberTypes, SocketsOK
    <3> QED BY <2>1, <2>3, <3>1 DEF SocketsOK
  <2>8. RegistryOK'
    BY <2>1, <2>2, <2>3, <2>4 DEF RegistryOK
  <2> QED BY <2>5, <2>6, <2>7, <2>8 DEF SubscriberInv
<1>3. ASSUME NEW c \in Users, ConnectRejects(c) PROVE SubscriberInv'
  <2>1. /\ asked[c].at = "connecting" /\ sockets' = sockets \ {asked[c].socket}
        /\ asked' = [asked EXCEPT ![c] = NoCall] /\ UNCHANGED <<subscriber, registry, delivers>>
    BY <1>3 DEF ConnectRejects
  <2>2. /\ asked'[c].at = "idle" /\ asked'[c].on = {}
        /\ \A d \in Users : d # c => asked'[d] = asked[d]
    BY <2>1 DEF SubscriberInv, SubscriberTypes, NoCall
  <2>3. subscriber = NoSocket /\ \A d \in Users : d # c => asked[d].at = "idle"
    BY <2>1 DEF SubscriberInv, CallsOK
  <2>4. SubscriberTypes'
    BY <2>1, <2>2 DEF SubscriberInv, SubscriberTypes, Stages
  <2>5. CallsOK'
    BY <2>1, <2>2, <2>3 DEF SubscriberInv, CallsOK
  <2>6. SocketsOK'
    BY <2>1, <2>2, <2>3 DEF SubscriberInv, SocketsOK
  <2> QED BY <2>1, <2>3, <2>4, <2>5, <2>6 DEF SubscriberInv, RegistryOK
<1>4. ASSUME NEW c \in Users, SubscribeSucceeds(c) \/ UnsubscribeSucceeds(c)
                             \/ SubscribeFails(c) \/ UnsubscribeFails(c)
      PROVE  SubscriberInv'
  <2>1. /\ asked[c].at \in {"subscribing", "unsubscribing"}
        /\ asked' = [asked EXCEPT ![c] = NoCall] /\ UNCHANGED <<subscriber, sockets>>
    BY <1>4 DEF SubscribeSucceeds, SubscribeFails, UnsubscribeSucceeds, UnsubscribeFails
  <2>2. /\ asked'[c].at = "idle" /\ asked'[c].on = {}
        /\ \A d \in Users : d # c => asked'[d] = asked[d]
    BY <2>1 DEF SubscriberInv, SubscriberTypes, NoCall
  <2>3. subscriber # NoSocket /\ asked[c].socket = subscriber /\ subscriber \in Sockets
    BY <2>1 DEF SubscriberInv, CallsOK, SubscriberTypes
  <2>4. /\ registry' \subseteq registry /\ delivers' \in [Sockets -> SUBSET Pairs]
        /\ \A p \in Pairs : p \notin asked[c].on =>
             /\ p \in registry' <=> p \in registry
             /\ p \in delivers'[subscriber] <=> p \in delivers[subscriber]
    BY <1>4, <2>3 DEF SubscribeSucceeds, SubscribeFails, UnsubscribeSucceeds, UnsubscribeFails, Undoes,
                SubscriberInv, SubscriberTypes
  <2>5. \A p \in asked[c].on : (\A d \in Users : d # c => p \notin asked[d].on) =>
          (p \in registry' <=> p \in delivers'[subscriber])
    <3> SUFFICES ASSUME NEW p \in asked[c].on PROVE p \in registry' <=> p \in delivers'[subscriber]
      OBVIOUS
    <3>1. p \in Pairs
      BY DEF SubscriberInv, SubscriberTypes
    <3>2. CASE SubscribeSucceeds(c)
      BY <2>3, <3>2 DEF SubscribeSucceeds, SubscriberInv, SubscriberTypes, RegistryOK
    <3>3. CASE SubscribeFails(c)
      BY <2>3, <3>3 DEF SubscribeFails, Undoes, SubscriberInv, RegistryOK
    <3>4. CASE UnsubscribeSucceeds(c)
      BY <2>3, <3>4 DEF UnsubscribeSucceeds, SubscriberInv, SubscriberTypes
    <3>5. CASE UnsubscribeFails(c)
      <4>1. \A d \in Users : asked[d].at = "subscribing" => p \notin asked[d].on
        BY <3>5 DEF UnsubscribeFails, SubscriberInv, CallsOK
      <4> QED BY <2>3, <3>1, <3>5, <4>1 DEF UnsubscribeFails, SubscriberInv, RegistryOK
    <3> QED BY <1>4, <3>2, <3>3, <3>4, <3>5
  <2>6. \A d \in Users : asked[d].at # "connecting"
    BY <2>3 DEF SubscriberInv, CallsOK
  <2>7. SubscriberTypes'
    BY <2>1, <2>2, <2>4 DEF SubscriberInv, SubscriberTypes, Stages
  <2>8. CallsOK'
    BY <2>1, <2>2, <2>6 DEF SubscriberInv, CallsOK
  <2>9. SocketsOK'
    BY <2>1, <2>2, <2>3, <2>6 DEF SubscriberInv, SocketsOK
  <2>10. RegistryOK'
    <3>1. ASSUME NEW p \in Pairs, \A d \in Users : asked'[d].at = "subscribing" => p \notin asked'[d].on
          PROVE  p \in registry' <=> p \in delivers'[subscriber]
      <4>1. CASE p \in asked[c].on
        <5>1. \A d \in Users : d # c => p \notin asked[d].on
          BY <4>1 DEF SubscriberInv, CallsOK
        <5> QED BY <2>5, <4>1, <5>1
      <4>2. CASE p \notin asked[c].on
        <5>1. \A d \in Users : asked[d].at = "subscribing" => p \notin asked[d].on
          BY <2>2, <3>1, <4>2
        <5> QED BY <2>3, <2>4, <4>2, <5>1 DEF SubscriberInv, RegistryOK
      <4> QED BY <4>1, <4>2
    <3>2. ASSUME NEW d \in Users, asked'[d].at = "subscribing", NEW p \in asked'[d].on
          PROVE  p \in registry' /\ (asked'[d].added <=> p \notin delivers'[subscriber])
      <4>1. d # c /\ asked'[d] = asked[d]
        BY <2>2, <3>2
      <4>2. p \notin asked[c].on /\ p \in Pairs
        BY <3>2, <4>1 DEF SubscriberInv, CallsOK, SubscriberTypes
      <4> QED BY <2>3, <2>4, <3>2, <4>1, <4>2 DEF SubscriberInv, RegistryOK
    <3> QED BY <2>1, <3>1, <3>2 DEF RegistryOK
  <2> QED BY <2>7, <2>8, <2>9, <2>10 DEF SubscriberInv
<1>5. ASSUME NEW c \in Users, NEW ch \in Channels, NEW ls \in SUBSET Listeners, Unsubscribe(c, ch, ls)
      PROVE  SubscriberInv'
  <2> DEFINE on == {<<ch, l>> : l \in ls}
  <2>1. /\ asked[c].at = "idle" /\ subscriber # NoSocket
        /\ \A d \in Users : asked[d].at # "connecting"
             /\ {p[1] : p \in asked[d].on} \cap {p[1] : p \in on} = {}
        /\ asked' = [asked EXCEPT ![c] = [at |-> "unsubscribing", socket |-> subscriber, on |-> on,
                                        added |-> FALSE]]
        /\ UNCHANGED <<subscriber, sockets, registry, delivers>>
    BY <1>5 DEF Unsubscribe, Apart
  <2>2. /\ asked'[c].at = "unsubscribing" /\ asked'[c].socket = subscriber /\ asked'[c].on = on
        /\ \A d \in Users : d # c => asked'[d] = asked[d]
    BY <2>1 DEF SubscriberInv, SubscriberTypes
  <2>3. on \subseteq Pairs
    BY DEF Pairs
  <2>4. \A d \in Users : \A p \in asked[d].on, q \in on : p[1] # q[1]
    BY <2>1
  <2> HIDE DEF on
  <2>5. SubscriberTypes'
    BY <2>1, <2>2, <2>3 DEF SubscriberInv, SubscriberTypes, Stages
  <2>6. CallsOK'
    BY <2>1, <2>2, <2>4 DEF SubscriberInv, CallsOK
  <2>7. SocketsOK'
    BY <2>1, <2>2 DEF SubscriberInv, SocketsOK
  <2>8. RegistryOK'
    <3>1. \A d \in Users : asked'[d].at = "subscribing" <=> asked[d].at = "subscribing"
      BY <2>1, <2>2
    <3>2. \A d \in Users : asked[d].at = "subscribing" => asked'[d] = asked[d]
      BY <2>1, <2>2
    <3>3. registry' = registry /\ delivers' = delivers /\ subscriber' = subscriber
      BY <2>1
    <3> QED BY <3>1, <3>2, <3>3 DEF SubscriberInv, RegistryOK
  <2> QED BY <2>5, <2>6, <2>7, <2>8 DEF SubscriberInv
<1>6. CASE ShutDown
  <2>1. /\ \A c \in Users : asked[c].at = "idle"
        /\ registry' = {} /\ subscriber' = NoSocket /\ sockets' = sockets \ {subscriber}
        /\ UNCHANGED <<delivers, asked>>
    BY <1>6 DEF ShutDown
  <2>2. SubscriberTypes' /\ CallsOK'
    BY <2>1 DEF SubscriberInv, SubscriberTypes, CallsOK
  <2>3. SocketsOK'
    BY <2>1 DEF SubscriberInv, SocketsOK
  <2> QED BY <2>1, <2>2, <2>3 DEF SubscriberInv, RegistryOK
<1>7. CASE UNCHANGED subscriberVars
  <2>1. UNCHANGED <<subscriber, sockets, registry, delivers, asked>>
    BY <1>7 DEF subscriberVars
  <2> QED BY <2>1 DEF SubscriberInv, SubscriberTypes, CallsOK, SocketsOK, RegistryOK
<1>8. \A l \in Listeners : {l} \in SUBSET Listeners
  OBVIOUS
<1>9. Listeners \in SUBSET Listeners
  OBVIOUS
<1> QED BY <1>1, <1>2, <1>3, <1>4, <1>5, <1>6, <1>7, <1>8, <1>9 DEF SubscriberNext, Pairs

(* Where calls do not race, the registry and the wire agree on every       *)
(* channel no call is about, whatever connect, SUBSCRIBE and UNSUBSCRIBE   *)
(* failed before (redis/client.ts), and no socket is left open.            *)
THEOREM SubscriptionsAlwaysAccounted ==
  ASSUME Racing = FALSE PROVE SubscriberSpec => []SubscriptionsAccounted
<1>1. SubscriberInit => SubscriberInv
  <2> SUFFICES ASSUME SubscriberInit PROVE SubscriberInv
    OBVIOUS
  <2>1. \A c \in Users : asked[c].at = "idle" /\ asked[c].on = {}
    BY DEF SubscriberInit, NoCall
  <2>2. SubscriberTypes
    BY <2>1 DEF SubscriberInit, SubscriberTypes, Stages
  <2> QED BY <2>1, <2>2 DEF SubscriberInit, SubscriberInv, CallsOK, SocketsOK, RegistryOK
<1>2. SubscriberInv /\ [SubscriberNext]_subscriberVars => SubscriberInv'
  BY SubscriberInductive
<1>3. SubscriberInv => SubscriptionsAccounted
  <2> SUFFICES ASSUME SubscriberInv PROVE SubscriptionsAccounted
    OBVIOUS
  <2>1. ASSUME subscriber # NoSocket, NEW p \in Channels \X Listeners,
               \A c \in Users : p[1] \notin {q[1] : q \in asked[c].on}
        PROVE  (p \in registry) = (p \in delivers[subscriber])
    <3>1. \A c \in Users : p \notin asked[c].on
      BY <2>1
    <3>2. p \in registry <=> p \in delivers[subscriber]
      BY <2>1, <3>1 DEF SubscriberInv, RegistryOK, Pairs
    <3> QED BY <3>2
  <2>2. sockets \subseteq
          {subscriber} \cup {asked[c].socket : c \in {d \in Users : asked[d].at = "connecting"}}
    BY DEF SubscriberInv, SocketsOK
  <2> QED BY <2>1, <2>2 DEF SubscriptionsAccounted
<1> QED BY <1>1, <1>2, <1>3, PTL DEF SubscriberSpec

-----------------------------------------------------------------------------
(* The windows of the throttle.  The requests a window has counted, and    *)
(* will admit once they are judged, each hold one of its counts.           *)
Passing(k) == {r \in current : key[r] = k /\ used[r] <= Limit}
Entered == {k \in Subjects : count[k] > 0}

ThrottleTypes ==
  /\ store \in {"redis", "memory"}
  /\ count \in [Subjects -> Nat] /\ admitted \in [Subjects -> Nat]
  /\ left \in [Subjects -> {NoTtl} \cup 0..Window]
  /\ at \in [Slots -> Busy \cup Idle] /\ key \in [Slots -> Subjects]
  /\ used \in [Slots -> Nat] /\ after \in [Slots -> Nat] /\ current \subseteq Slots
  /\ \A r \in Slots : at[r] = "limited" => after[r] \in 1..Window

BudgetOK(k) ==
  /\ admitted[k] + Cardinality(Passing(k)) <= count[k]
  /\ admitted[k] + Cardinality(Passing(k)) <= Limit

CountedOK ==
  /\ \A r \in current : at[r] \in {"expire", "judge"}
  /\ \A k \in Subjects : BudgetOK(k)

(* The map holds at most maxKeys windows; a key that is gone has no TTL;   *)
(* and EXPIRE is out for a key at most once, before the key has a TTL.     *)
ExpireOK(r) ==
  at[r] = "expire" =>
    /\ store = "redis" /\ left[key[r]] = NoTtl /\ count[key[r]] > 0
    /\ \A q \in Slots : q # r /\ key[q] = key[r] => at[q] # "expire"

WindowsOK ==
  /\ store = "memory" => Cardinality(Entered) <= MaxWindows
  /\ \A k \in Subjects : count[k] = 0 => left[k] = NoTtl
  /\ \A r \in Slots : ExpireOK(r)

ThrottleInv == ThrottleTypes /\ CountedOK /\ WindowsOK

(* A window's requests in flight are finitely many.                        *)
LEMMA PassingFinite ==
  ASSUME ThrottleTypes, NEW k \in Subjects
  PROVE  /\ IsFiniteSet(Passing(k)) /\ Cardinality(Passing(k)) \in Nat
         /\ admitted[k] \in Nat /\ count[k] \in Nat
<1>1. Passing(k) \subseteq Slots
  BY DEF Passing, ThrottleTypes
<1>2. IsFiniteSet(Passing(k))
  BY <1>1, ThrottleAssumption, FS_Subset
<1> QED BY <1>2, FS_CardinalityType DEF ThrottleTypes

(* A budget survives a step that takes requests of its window out of       *)
(* flight, whatever it adds to the count;                                  *)
LEMMA BudgetKept ==
  ASSUME ThrottleTypes, NEW k \in Subjects, BudgetOK(k), Passing(k)' \subseteq Passing(k),
         admitted'[k] = admitted[k], count'[k] \in Nat, count'[k] >= count[k]
  PROVE  BudgetOK(k)'
<1> DEFINE m == Cardinality(Passing(k))
           n == Cardinality(Passing(k))'
<1>1. IsFiniteSet(Passing(k)) /\ m \in Nat /\ admitted[k] \in Nat /\ count[k] \in Nat
  BY PassingFinite
<1>2. n \in Nat /\ n <= m
  <2>1. IsFiniteSet(Passing(k)')
    BY <1>1, FS_Subset
  <2> QED BY <1>1, <2>1, FS_Subset, FS_CardinalityType
<1>3. admitted[k] + m <= count[k] /\ admitted[k] + m <= Limit
  BY DEF BudgetOK
<1> HIDE DEF m, n
<1>4. admitted[k] + n <= count'[k] /\ admitted[k] + n <= Limit
  BY <1>1, <1>2, <1>3, ThrottleAssumption
<1> QED BY <1>4 DEF BudgetOK, n

(* one that counts a request in, if the count tells it to pass only within *)
(* the limit;                                                              *)
LEMMA BudgetCounts ==
  ASSUME ThrottleTypes, NEW k \in Subjects, BudgetOK(k), NEW r,
         Passing(k)' \subseteq Passing(k) \cup {r}, count'[k] = count[k] + 1,
         admitted'[k] = admitted[k], r \in Passing(k)' => count'[k] <= Limit
  PROVE  BudgetOK(k)'
<1>1. CASE r \notin Passing(k)'
  <2>1. Passing(k)' \subseteq Passing(k) /\ count'[k] \in Nat /\ count'[k] >= count[k]
    BY <1>1, PassingFinite
  <2> QED BY <2>1, BudgetKept
<1>2. CASE r \in Passing(k)'
  <2> DEFINE m == Cardinality(Passing(k))
             n == Cardinality(Passing(k))'
  <2>1. IsFiniteSet(Passing(k)) /\ m \in Nat /\ admitted[k] \in Nat /\ count[k] \in Nat
    BY PassingFinite
  <2>2. IsFiniteSet(Passing(k) \cup {r}) /\ Cardinality(Passing(k) \cup {r}) \in Nat
        /\ Cardinality(Passing(k) \cup {r}) <= m + 1
    <3>1. CASE r \in Passing(k)
      <4>1. Passing(k) \cup {r} = Passing(k)
        BY <3>1
      <4> QED BY <2>1, <4>1
    <3>2. CASE r \notin Passing(k)
      <4>1. IsFiniteSet(Passing(k) \cup {r}) /\ Cardinality(Passing(k) \cup {r}) = m + 1
        BY <2>1, <3>2, FS_AddElement
      <4> QED BY <2>1, <4>1
    <3> QED BY <3>1, <3>2
  <2>3. n \in Nat /\ n <= m + 1
    <3>1. IsFiniteSet(Passing(k)') /\ n <= Cardinality(Passing(k) \cup {r})
      BY <2>2, FS_Subset
    <3>2. n \in Nat
      BY <3>1, FS_CardinalityType
    <3> QED BY <2>1, <2>2, <3>1, <3>2
  <2>4. admitted[k] + m <= count[k]
    BY DEF BudgetOK
  <2> HIDE DEF m, n
  <2>5. admitted[k] + n <= count'[k] /\ admitted[k] + n <= Limit
    BY <1>2, <2>1, <2>3, <2>4, ThrottleAssumption
  <2> QED BY <2>5 DEF BudgetOK, n
<1> QED BY <1>1, <1>2

(* one that opens or ends a window;                                        *)
LEMMA BudgetOpens ==
  ASSUME NEW k \in Subjects, NEW r, Passing(k)' \subseteq {r}, admitted'[k] = 0, count'[k] \in Nat,
         r \in Passing(k)' => 1 <= Limit /\ 1 <= count'[k]
  PROVE  BudgetOK(k)'
<1>1. CASE Passing(k)' = {}
  <2>1. Cardinality(Passing(k)') = 0
    BY <1>1, FS_EmptySet
  <2> QED BY <2>1, ThrottleAssumption DEF BudgetOK
<1>2. CASE Passing(k)' = {r}
  <2>1. Cardinality(Passing(k)') = 1
    BY <1>2, FS_Singleton
  <2> QED BY <1>2, <2>1, ThrottleAssumption DEF BudgetOK
<1> QED BY <1>1, <1>2

(* and one that admits a request the window counted.                       *)
LEMMA BudgetAdmits ==
  ASSUME ThrottleTypes, NEW k \in Subjects, BudgetOK(k), NEW r \in Passing(k),
         Passing(k)' \subseteq Passing(k) \ {r}, admitted'[k] = admitted[k] + 1, count'[k] = count[k]
  PROVE  BudgetOK(k)'
<1> DEFINE m == Cardinality(Passing(k))
           n == Cardinality(Passing(k))'
<1>1. IsFiniteSet(Passing(k)) /\ m \in Nat /\ admitted[k] \in Nat /\ count[k] \in Nat
  BY PassingFinite
<1>2. IsFiniteSet(Passing(k) \ {r}) /\ Cardinality(Passing(k) \ {r}) = m - 1
  BY <1>1, FS_RemoveElement
<1>3. n \in Nat /\ n <= m - 1
  <2>1. IsFiniteSet(Passing(k)') /\ n <= Cardinality(Passing(k) \ {r})
    BY <1>2, FS_Subset
  <2> QED BY <1>2, <2>1, FS_CardinalityType
<1>4. admitted[k] + m <= count[k] /\ admitted[k] + m <= Limit
  BY DEF BudgetOK
<1> HIDE DEF m, n
<1>5. admitted'[k] + n <= count'[k] /\ admitted'[k] + n <= Limit
  BY <1>1, <1>3, <1>4, ThrottleAssumption
<1> QED BY <1>5 DEF BudgetOK, n

(* Every step keeps the types.                                             *)
LEMMA ThrottleTyped ==
  ASSUME ThrottleTypes, [ThrottleNext]_throttleVars PROVE ThrottleTypes'
<1> USE ThrottleAssumption
<1>1. ASSUME NEW r \in Slots, NEW k \in Subjects, Arrive(r, k) PROVE ThrottleTypes'
  BY <1>1 DEF Arrive, ThrottleTypes, Busy, Idle
<1>2. ASSUME NEW r \in Slots, Incr(r) PROVE ThrottleTypes'
  BY <1>2 DEF Incr, ThrottleTypes, Busy, Idle
<1>3. ASSUME NEW r \in Slots, Expire(r) PROVE ThrottleTypes'
  <2>1. left' \in [Subjects -> {NoTtl} \cup 0..Window]
    BY <1>3 DEF Expire, ThrottleTypes
  <2> QED BY <1>3, <2>1 DEF Expire, ThrottleTypes, Busy, Idle
<1>4. ASSUME NEW r \in Slots, MemoryHit(r) PROVE ThrottleTypes'
  <2>1. PICK same \in SUBSET Subjects :
          /\ count' = [x \in Subjects |-> (IF x \in same THEN count[x] ELSE 0) + (IF x = key[r] THEN 1 ELSE 0)]
          /\ left' = [x \in Subjects |-> IF x \in same THEN left[x] ELSE IF x = key[r] THEN Window ELSE NoTtl]
          /\ current' = {q \in current : key[q] \in same} \cup {r}
          /\ admitted' = [x \in Subjects |-> IF x \in same THEN admitted[x] ELSE 0]
    BY <1>4 DEF MemoryHit, LiveWindows, Sweep
  <2>2. /\ used' = [used EXCEPT ![r] = count'[key[r]]] /\ at' = [at EXCEPT ![r] = "judge"]
        /\ UNCHANGED <<store, key, after>>
    BY <1>4 DEF MemoryHit
  <2>3. count' \in [Subjects -> Nat] /\ admitted' \in [Subjects -> Nat]
    BY <2>1 DEF ThrottleTypes
  <2>4. left' \in [Subjects -> {NoTtl} \cup 0..Window] /\ current' \subseteq Slots
    BY <2>1 DEF ThrottleTypes
  <2>5. used' \in [Slots -> Nat]
    BY <2>2, <2>3 DEF ThrottleTypes
  <2> QED BY <2>2, <2>3, <2>4, <2>5 DEF ThrottleTypes, Busy, Idle
<1>5. ASSUME NEW r \in Slots, Judge(r) PROVE ThrottleTypes'
  BY <1>5 DEF Judge, ThrottleTypes, Busy, Idle
<1>6. ASSUME NEW r \in Slots, Refuse(r) \/ TtlFails(r) PROVE ThrottleTypes'
  <2>1. key[r] \in Subjects /\ RetryAfter(key[r]) \in 1..Window /\ Window \in 1..Window
    BY DEF ThrottleTypes, RetryAfter, RawTtl, NoTtl
  <2>2. PICK n \in 1..Window : after' = [after EXCEPT ![r] = n]
    BY <1>6, <2>1 DEF Refuse, TtlFails
  <2>3. at' = [at EXCEPT ![r] = "limited"] /\ UNCHANGED <<store, count, left, key, used, current, admitted>>
    BY <1>6 DEF Refuse, TtlFails
  <2> QED BY <2>2, <2>3 DEF ThrottleTypes, Busy, Idle
<1>7. ASSUME NEW r \in Slots, FailsOpen(r) PROVE ThrottleTypes'
  <2>1. PICK applied \in BOOLEAN :
          /\ count' = IF applied /\ at[r] = "incr" THEN [count EXCEPT ![key[r]] = @ + 1] ELSE count
          /\ left' = IF applied /\ at[r] = "expire" THEN [left EXCEPT ![key[r]] = Window] ELSE left
    BY <1>7 DEF FailsOpen
  <2>2. count' \in [Subjects -> Nat] /\ left' \in [Subjects -> {NoTtl} \cup 0..Window]
    BY <2>1 DEF ThrottleTypes
  <2> QED BY <1>7, <2>2 DEF FailsOpen, ThrottleTypes, Busy, Idle
<1>8. ASSUME NEW r \in Slots, Crash(r) PROVE ThrottleTypes'
  BY <1>8 DEF Crash, ThrottleTypes, Busy, Idle
<1>9. CASE ThrottleTick
  <2>1. left' \in [Subjects -> {NoTtl} \cup 0..Window]
    BY <1>9 DEF ThrottleTick, ThrottleTypes, NoTtl
  <2>2. count' \in [Subjects -> Nat] /\ admitted' \in [Subjects -> Nat] /\ current' \subseteq Slots
    BY <1>9 DEF ThrottleTick, ThrottleTypes
  <2> QED BY <1>9, <2>1, <2>2 DEF ThrottleTick, ThrottleTypes
<1>10. CASE UNCHANGED throttleVars
  BY <1>10 DEF throttleVars, ThrottleTypes
<1> QED BY <1>1, <1>2, <1>3, <1>4, <1>5, <1>6, <1>7, <1>8, <1>9, <1>10 DEF ThrottleNext, Step

(* Every step keeps the budgets.                                           *)
LEMMA CountedInductive ==
  ASSUME ThrottleTypes, CountedOK, [ThrottleNext]_throttleVars PROVE CountedOK'
<1> USE ThrottleAssumption
<1>1. ASSUME NEW r \in Slots, NEW k \in Subjects, Arrive(r, k) PROVE CountedOK'
  <2>1. /\ r \notin current /\ UNCHANGED <<count, current, admitted>>
        /\ \A q \in current : at'[q] = at[q] /\ key'[q] = key[q] /\ used'[q] = used[q]
    BY <1>1 DEF Arrive, CountedOK, ThrottleTypes, Idle
  <2>2. \A x \in Subjects : Passing(x)' \subseteq Passing(x) /\ count'[x] \in Nat
    BY <2>1 DEF Passing, ThrottleTypes
  <2> QED BY <2>1, <2>2, BudgetKept DEF CountedOK, ThrottleTypes
<1>2. ASSUME NEW r \in Slots, Incr(r) PROVE CountedOK'
  <2>1. PICK k \in Subjects : k = key[r]
    BY DEF ThrottleTypes
  <2>2. /\ r \notin current /\ current' = current \cup {r} /\ UNCHANGED <<key, admitted>>
        /\ count'[k] = count[k] + 1 /\ (\A x \in Subjects : x # k => count'[x] = count[x])
        /\ used'[r] = count[k] + 1 /\ at'[r] \in {"expire", "judge"}
        /\ \A q \in current : at'[q] = at[q] /\ used'[q] = used[q]
    BY <1>2, <2>1 DEF Incr, CountedOK, ThrottleTypes
  <2>3. BudgetOK(k)'
    <3>1. Passing(k)' \subseteq Passing(k) \cup {r} /\ (r \in Passing(k)' => count'[k] <= Limit)
      BY <2>2 DEF Passing
    <3> QED BY <2>2, <3>1, BudgetCounts DEF CountedOK
  <2>4. ASSUME NEW x \in Subjects, x # k PROVE BudgetOK(x)'
    <3>1. Passing(x)' \subseteq Passing(x) /\ count'[x] \in Nat /\ count'[x] >= count[x]
      BY <2>1, <2>2, <2>4 DEF Passing, ThrottleTypes
    <3> QED BY <2>2, <3>1, BudgetKept DEF CountedOK
  <2> QED BY <2>2, <2>3, <2>4 DEF CountedOK
<1>3. ASSUME NEW r \in Slots, Expire(r) \/ Refuse(r) \/ TtlFails(r) PROVE CountedOK'
  <2>1. UNCHANGED <<count, current, admitted, key, used>>
        /\ \A q \in current : at'[q] \in {"expire", "judge"}
    BY <1>3 DEF Expire, Refuse, TtlFails, CountedOK, ThrottleTypes
  <2> QED BY <2>1 DEF CountedOK, BudgetOK, Passing
<1>4. ASSUME NEW r \in Slots, MemoryHit(r) PROVE CountedOK'
  <2>1. PICK k \in Subjects : k = key[r]
    BY DEF ThrottleTypes
  <2>2. PICK same \in SUBSET Subjects :
          /\ count' = [x \in Subjects |-> (IF x \in same THEN count[x] ELSE 0) + (IF x = k THEN 1 ELSE 0)]
          /\ current' = {q \in current : key[q] \in same} \cup {r}
          /\ admitted' = [x \in Subjects |-> IF x \in same THEN admitted[x] ELSE 0]
    BY <1>4, <2>1 DEF MemoryHit, LiveWindows, Sweep
  <2>3. /\ at[r] = "incr" /\ used' = [used EXCEPT ![r] = count'[k]] /\ at' = [at EXCEPT ![r] = "judge"]
        /\ key' = key
    BY <1>4, <2>1 DEF MemoryHit
  <2>4. /\ r \notin current /\ used'[r] = count'[k] /\ at'[r] = "judge"
        /\ \A q \in current : at'[q] = at[q] /\ used'[q] = used[q]
    BY <2>3 DEF CountedOK, ThrottleTypes
  <2>5. \A x \in Subjects :
          /\ count'[x] = (IF x \in same THEN count[x] ELSE 0) + (IF x = k THEN 1 ELSE 0)
          /\ admitted'[x] = IF x \in same THEN admitted[x] ELSE 0
    BY <2>2
  <2>6. \A x \in Subjects : count[x] \in Nat /\ count'[x] \in Nat
    BY <2>5 DEF ThrottleTypes
  <2>7. ASSUME NEW x \in Subjects PROVE BudgetOK(x)'
    <3>1. CASE x \in same /\ x = k
      <4>1. Passing(x)' \subseteq Passing(x) \cup {r} /\ (r \in Passing(x)' => count'[x] <= Limit)
        BY <2>2, <2>3, <2>4, <3>1 DEF Passing
      <4>2. count'[x] = count[x] + 1 /\ admitted'[x] = admitted[x]
        BY <2>5, <2>6, <3>1
      <4> QED BY <4>1, <4>2, BudgetCounts DEF CountedOK
    <3>2. CASE x \in same /\ x # k
      <4>1. Passing(x)' \subseteq Passing(x)
        BY <2>1, <2>2, <2>3, <2>4, <3>2 DEF Passing
      <4>2. count'[x] >= count[x] /\ admitted'[x] = admitted[x]
        BY <2>5, <2>6, <3>2
      <4> QED BY <2>6, <4>1, <4>2, BudgetKept DEF CountedOK
    <3>3. CASE x \notin same
      <4>1. Passing(x)' \subseteq {r} /\ (r \in Passing(x)' => x = k /\ count'[k] <= Limit)
        BY <2>1, <2>2, <2>3, <2>4, <3>3 DEF Passing
      <4>2. admitted'[x] = 0 /\ (x = k => count'[k] = 1)
        BY <2>5, <3>3
      <4> QED BY <2>6, <4>1, <4>2, BudgetOpens
    <3> QED BY <3>1, <3>2, <3>3
  <2>8. \A q \in current' : at'[q] \in {"expire", "judge"}
    BY <2>2, <2>4 DEF CountedOK
  <2> QED BY <2>7, <2>8 DEF CountedOK
<1>5. ASSUME NEW r \in Slots, Judge(r) PROVE CountedOK'
  <2>1. PICK k \in Subjects : k = key[r]
    BY DEF ThrottleTypes
  <2>2. /\ current' = current \ {r} /\ UNCHANGED <<count, key, used>>
        /\ \A q \in current : q # r => at'[q] = at[q]
    BY <1>5 DEF Judge, ThrottleTypes
  <2>3. \A x \in Subjects : /\ Passing(x)' \subseteq Passing(x) /\ r \notin Passing(x)'
                            /\ count'[x] \in Nat /\ count'[x] >= count[x]
    BY <2>2 DEF Passing, ThrottleTypes
  <2>4. ASSUME NEW x \in Subjects PROVE BudgetOK(x)'
    <3>1. CASE admitted'[x] = admitted[x]
      BY <2>3, <3>1, BudgetKept DEF CountedOK
    <3>2. CASE admitted'[x] # admitted[x]
      <4>1. x = k /\ r \in current /\ used[r] <= Limit /\ admitted'[x] = admitted[x] + 1
        BY <1>5, <2>1, <3>2 DEF Judge, Over, ThrottleTypes
      <4>2. r \in Passing(x)
        BY <2>1, <4>1 DEF Passing
      <4> QED BY <2>2, <2>3, <4>1, <4>2, BudgetAdmits DEF CountedOK
    <3> QED BY <3>1, <3>2
  <2> QED BY <2>2, <2>4 DEF CountedOK
<1>6. ASSUME NEW r \in Slots, FailsOpen(r) \/ Crash(r) PROVE CountedOK'
  <2>1. /\ current' = current \ {r} /\ UNCHANGED <<key, admitted>>
        /\ \A q \in current : q # r => at'[q] = at[q] /\ used'[q] = used[q]
    BY <1>6 DEF FailsOpen, Crash, ThrottleTypes
  <2>2. \A x \in Subjects : count'[x] \in Nat /\ count'[x] >= count[x]
    <3>1. count' = count \/ count' = [count EXCEPT ![key[r]] = @ + 1]
      BY <1>6 DEF FailsOpen, Crash
    <3> QED BY <3>1 DEF ThrottleTypes
  <2>3. \A x \in Subjects : Passing(x)' \subseteq Passing(x)
    BY <2>1 DEF Passing
  <2> QED BY <2>1, <2>2, <2>3, BudgetKept DEF CountedOK
<1>7. CASE ThrottleTick
  <2>1. /\ current' = {r \in current : left[key[r]] # 1} /\ UNCHANGED <<at, key, used>>
        /\ \A x \in Subjects : /\ count'[x] = IF left[x] = 1 /\ store = "redis" THEN 0 ELSE count[x]
                               /\ admitted'[x] = IF left[x] = 1 THEN 0 ELSE admitted[x]
    BY <1>7 DEF ThrottleTick
  <2>2. \A x \in Subjects : count'[x] \in Nat /\ Passing(x)' \subseteq Passing(x)
    BY <2>1 DEF Passing, ThrottleTypes
  <2>3. ASSUME NEW x \in Subjects PROVE BudgetOK(x)'
    <3>1. CASE left[x] = 1
      <4>1. Passing(x)' = {} /\ admitted'[x] = 0
        BY <2>1, <3>1 DEF Passing
      <4> QED BY <2>2, <4>1, BudgetOpens
    <3>2. CASE left[x] # 1
      <4>1. admitted'[x] = admitted[x] /\ count'[x] = count[x] /\ count[x] \in Nat
        BY <2>1, <3>2 DEF ThrottleTypes
      <4>2. count'[x] >= count[x]
        BY <4>1
      <4> QED BY <2>2, <4>1, <4>2, BudgetKept DEF CountedOK
    <3> QED BY <3>1, <3>2
  <2> QED BY <2>1, <2>3 DEF CountedOK
<1>8. CASE UNCHANGED throttleVars
  BY <1>8 DEF throttleVars, CountedOK, BudgetOK, Passing
<1> QED BY <1>1, <1>2, <1>3, <1>4, <1>5, <1>6, <1>7, <1>8 DEF ThrottleNext, Step

(* The map's windows, and those of them that are live.                     *)
LEMMA EnteredFinite ==
  ASSUME ThrottleTypes
  PROVE  /\ IsFiniteSet(Entered) /\ IsFiniteSet(LiveWindows) /\ LiveWindows \subseteq Entered
         /\ Cardinality(Entered) \in Nat /\ Cardinality(LiveWindows) \in Nat
         /\ Cardinality(LiveWindows) <= Cardinality(Entered)
<1>1. IsFiniteSet(Entered) /\ LiveWindows \subseteq Entered
  BY ThrottleAssumption, FS_Subset DEF Entered, LiveWindows
<1>2. IsFiniteSet(LiveWindows) /\ Cardinality(LiveWindows) <= Cardinality(Entered)
  BY <1>1, FS_Subset
<1> QED BY <1>1, <1>2, FS_CardinalityType

(* A hit on a full map makes room first: expired windows go, and live ones *)
(* only when every window is live.                                         *)
LEMMA HitMakesRoom ==
  ASSUME ThrottleTypes, WindowsOK, NEW r \in Slots, MemoryHit(r)
  PROVE  /\ Cardinality(Entered') <= MaxWindows
         /\ \A k \in LiveWindows : left'[k] <= left[k]
         /\ \A k \in LiveWindows : count'[k] = 0 => Cardinality(LiveWindows) = MaxWindows
         /\ \A k \in Subjects : count'[k] = 0 => left'[k] = NoTtl
<1> USE ThrottleAssumption
<1> DEFINE kept == IF key[r] \in LiveWindows \/ Cardinality(Entered) < MaxWindows THEN Entered ELSE Sweep
           same == IF key[r] \in LiveWindows THEN kept ELSE kept \ {key[r]}
<1>1. PICK k \in Subjects : k = key[r]
  BY DEF ThrottleTypes
<1>2. /\ store = "memory"
      /\ count' = [x \in Subjects |-> (IF x \in same THEN count[x] ELSE 0) + (IF x = k THEN 1 ELSE 0)]
      /\ left' = [x \in Subjects |-> IF x \in same THEN left[x] ELSE IF x = k THEN Window ELSE NoTtl]
  BY <1>1, Zenon DEF MemoryHit, Entered
<1>3. /\ IsFiniteSet(Entered) /\ IsFiniteSet(LiveWindows) /\ LiveWindows \subseteq Entered
      /\ Cardinality(Entered) \in Nat /\ Cardinality(LiveWindows) \in Nat
      /\ Cardinality(LiveWindows) <= Cardinality(Entered) /\ Cardinality(Entered) <= MaxWindows
  BY <1>2, EnteredFinite DEF WindowsOK
<1>4. kept \in {Entered, LiveWindows, {}} /\ kept \subseteq Subjects
  BY <1>3 DEF Sweep, Entered
<1>5. same \subseteq kept /\ same \subseteq Entered /\ (k \in LiveWindows <=> k \in same)
  BY <1>1, <1>3, <1>4
<1>6. IF k \in LiveWindows THEN kept = Entered
        ELSE IsFiniteSet(kept) /\ Cardinality(kept) \in Nat /\ Cardinality(kept) < MaxWindows
  <2>1. IsFiniteSet({}) /\ Cardinality({}) = 0
    BY FS_EmptySet
  <2> QED BY <1>1, <1>3, <2>1 DEF Sweep
<1> HIDE DEF kept, same
<1>7. \A x \in Subjects : count'[x] > 0 <=> x \in same \/ x = k
  BY <1>2, <1>5 DEF ThrottleTypes, Entered
<1>8. Entered' = same \cup {k}
  BY <1>5, <1>7 DEF Entered
<1>9. Cardinality(Entered') <= MaxWindows
  <2>1. CASE k \in LiveWindows
    <3>1. same \cup {k} \subseteq Entered
      BY <1>3, <1>5, <2>1
    <3>2. Cardinality(same \cup {k}) <= Cardinality(Entered) /\ Cardinality(same \cup {k}) \in Nat
      BY <1>3, <3>1, FS_Subset, FS_CardinalityType
    <3> QED BY <1>3, <1>8, <3>2
  <2>2. CASE k \notin LiveWindows
    <3>1. IsFiniteSet(same) /\ Cardinality(same) <= Cardinality(kept) /\ Cardinality(same) \in Nat
      BY <1>5, <1>6, <2>2, FS_Subset, FS_CardinalityType
    <3>2. Cardinality(same \cup {k}) = Cardinality(same) + 1
      BY <1>5, <2>2, <3>1, FS_AddElement
    <3> QED BY <1>6, <1>8, <2>2, <3>1, <3>2
  <2> QED BY <2>1, <2>2
<1>10. \A x \in LiveWindows : left'[x] <= left[x]
  BY <1>2, <1>5 DEF LiveWindows, ThrottleTypes, NoTtl
<1>11. ASSUME NEW x \in LiveWindows, count'[x] = 0 PROVE Cardinality(LiveWindows) = MaxWindows
  <2>1. x \in Subjects /\ x \notin same /\ x # k /\ x \in Entered
    BY <1>3, <1>7, <1>11 DEF LiveWindows
  <2>2. k \notin LiveWindows /\ x \notin kept
    BY <1>1, <1>6, <2>1 DEF same
  <2>3. ~(Cardinality(LiveWindows) < MaxWindows)
    BY <1>1, <1>3, <1>11, <2>1, <2>2 DEF kept, Sweep
  <2> QED BY <1>3, <2>3
<1>12. \A x \in Subjects : count'[x] = 0 => left'[x] = NoTtl
  BY <1>2, <1>7
<1> QED BY <1>9, <1>10, <1>11, <1>12

(* Every step keeps the windows.                                           *)
LEMMA WindowsInductive ==
  ASSUME ThrottleInv, [ThrottleNext]_throttleVars PROVE WindowsOK'
<1> USE ThrottleAssumption
<1>0. ASSUME store' = store, store = "memory" => Entered' = Entered,
             \A k \in Subjects : count'[k] = 0 => left'[k] = NoTtl, \A r \in Slots : ExpireOK(r)'
      PROVE  WindowsOK'
  BY <1>0 DEF ThrottleInv, WindowsOK
<1>1. ASSUME UNCHANGED <<store, count, left>>,
             \A q \in Slots : at'[q] = "expire" => at[q] = "expire" /\ key'[q] = key[q]
      PROVE  WindowsOK'
  <2>1. \A q \in Slots : ExpireOK(q)'
    BY <1>1 DEF ThrottleInv, WindowsOK, ExpireOK
  <2>2. Entered' = Entered
    BY <1>1 DEF Entered
  <2> QED BY <1>0, <1>1, <2>1, <2>2 DEF ThrottleInv, WindowsOK
<1>2. ASSUME NEW r \in Slots, (\E k \in Subjects : Arrive(r, k)) \/ Judge(r) \/ Refuse(r)
                             \/ TtlFails(r) \/ Crash(r)
      PROVE  WindowsOK'
  <2>1. UNCHANGED <<store, count, left>>
    BY <1>2 DEF Arrive, Judge, Refuse, TtlFails, Crash
  <2>2. at'[r] # "expire" /\ \A q \in Slots : q # r => at'[q] = at[q] /\ key'[q] = key[q]
    BY <1>2 DEF Arrive, Judge, Refuse, TtlFails, Crash, ThrottleInv, ThrottleTypes
  <2> QED BY <1>1, <2>1, <2>2
<1>3. ASSUME NEW r \in Slots, Incr(r) PROVE WindowsOK'
  <2>1. PICK k \in Subjects : k = key[r]
    BY DEF ThrottleInv, ThrottleTypes
  <2>2. /\ store = "redis" /\ UNCHANGED <<store, left, key>>
        /\ count'[k] = count[k] + 1 /\ (\A x \in Subjects : x # k => count'[x] = count[x])
        /\ count[k] \in Nat /\ (at'[r] = "expire" => count[k] = 0)
        /\ \A q \in Slots : q # r => at'[q] = at[q]
    BY <1>3, <2>1 DEF Incr, OpensWindow, ThrottleInv, ThrottleTypes
  <2>3. \A q \in Slots : at[q] = "expire" => count[key[q]] > 0 /\ key[q] \in Subjects
    BY DEF ThrottleInv, WindowsOK, ExpireOK, ThrottleTypes
  <2>4. ASSUME NEW q \in Slots PROVE ExpireOK(q)'
    <3>1. CASE q = r
      <4>1. ASSUME at'[r] = "expire" PROVE left[k] = NoTtl /\ count'[k] > 0
        BY <2>2, <4>1 DEF ThrottleInv, WindowsOK
      <4>2. ASSUME at'[r] = "expire", NEW p \in Slots, p # r, key[p] = k PROVE at'[p] # "expire"
        BY <2>2, <2>3, <4>2
      <4> QED BY <2>1, <2>2, <3>1, <4>1, <4>2 DEF ExpireOK
    <3>2. CASE q # r
      <4>1. ASSUME at'[q] = "expire" PROVE left[key[q]] = NoTtl /\ count'[key[q]] > 0
        BY <2>2, <2>3, <3>2, <4>1 DEF ThrottleInv, WindowsOK, ExpireOK
      <4>2. ASSUME at'[q] = "expire", NEW p \in Slots, p # q, key[p] = key[q] PROVE at'[p] # "expire"
        BY <2>1, <2>2, <2>3, <3>2, <4>2 DEF ThrottleInv, WindowsOK, ExpireOK
      <4> QED BY <2>2, <3>2, <4>1, <4>2 DEF ExpireOK
    <3> QED BY <3>1, <3>2
  <2>5. \A x \in Subjects : count'[x] = 0 => left'[x] = NoTtl
    BY <2>2 DEF ThrottleInv, WindowsOK
  <2> QED BY <1>0, <2>2, <2>4, <2>5
<1>4. ASSUME NEW r \in Slots, Expire(r) \/ FailsOpen(r) PROVE WindowsOK'
  <2>1. PICK k \in Subjects : k = key[r]
    BY DEF ThrottleInv, ThrottleTypes
  <2>2. /\ UNCHANGED <<store, key>> /\ at'[r] # "expire"
        /\ \A q \in Slots : q # r => at'[q] = at[q]
    BY <1>4 DEF Expire, FailsOpen, ThrottleInv, ThrottleTypes
  <2>3. store = "redis" /\ (at[r] = "expire" => count[k] > 0)
    BY <1>4, <2>1 DEF Expire, FailsOpen, ThrottleInv, WindowsOK, ExpireOK
  <2>4. /\ \A x \in Subjects : count'[x] \in Nat /\ count'[x] >= count[x]
        /\ \A x \in Subjects : left'[x] # left[x] => x = k /\ at[r] = "expire"
    <3>1. count' = count \/ count' = [count EXCEPT ![k] = @ + 1]
      BY <1>4, <2>1 DEF Expire, FailsOpen
    <3>2. left' = left \/ (at[r] = "expire" /\ left' = [left EXCEPT ![k] = Window])
      BY <1>4, <2>1 DEF Expire, FailsOpen
    <3> QED BY <3>1, <3>2 DEF ThrottleInv, ThrottleTypes
  <2>5. \A x \in Subjects : count'[x] = 0 => left'[x] = NoTtl
    BY <2>3, <2>4 DEF ThrottleInv, ThrottleTypes, WindowsOK
  <2>6. ASSUME NEW q \in Slots PROVE ExpireOK(q)'
    <3>1. CASE at'[q] = "expire"
      <4>1. q # r /\ at[q] = "expire" /\ key'[q] = key[q] /\ key[q] \in Subjects
        BY <2>2, <3>1 DEF ThrottleInv, ThrottleTypes
      <4>2. left[key[q]] = NoTtl /\ count[key[q]] > 0
        BY <4>1 DEF ThrottleInv, WindowsOK, ExpireOK
      <4>3. left'[key[q]] = NoTtl
        BY <2>1, <2>4, <4>1, <4>2 DEF ThrottleInv, WindowsOK, ExpireOK
      <4>4. count'[key[q]] > 0
        BY <2>4, <4>1, <4>2 DEF ThrottleInv, ThrottleTypes
      <4>5. \A p \in Slots : p # q /\ key[p] = key[q] => at'[p] # "expire"
        BY <2>2, <4>1 DEF ThrottleInv, WindowsOK, ExpireOK
      <4> QED BY <2>2, <2>3, <4>1, <4>3, <4>4, <4>5 DEF ExpireOK
    <3> QED BY <3>1 DEF ExpireOK
  <2> QED BY <1>0, <2>2, <2>3, <2>5, <2>6
<1>5. ASSUME NEW r \in Slots, MemoryHit(r) PROVE WindowsOK'
  <2>1. store = "memory" /\ store' = store /\ at'[r] # "expire" /\ \A q \in Slots : q # r => at'[q] = at[q]
    BY <1>5 DEF MemoryHit, ThrottleInv, ThrottleTypes
  <2>2. \A q \in Slots : at'[q] # "expire"
    BY <2>1 DEF ThrottleInv, WindowsOK, ExpireOK
  <2>3. Cardinality(Entered') <= MaxWindows /\ \A k \in Subjects : count'[k] = 0 => left'[k] = NoTtl
    BY <1>5, HitMakesRoom DEF ThrottleInv
  <2> QED BY <2>2, <2>3 DEF WindowsOK, ExpireOK
<1>6. CASE ThrottleTick
  <2>1. /\ UNCHANGED <<store, at, key>>
        /\ \A x \in Subjects :
             /\ left'[x] = IF left[x] > 1 THEN left[x] - 1
                             ELSE IF store = "memory" /\ count[x] > 0 THEN 0 ELSE NoTtl
             /\ count'[x] = IF left[x] = 1 /\ store = "redis" THEN 0 ELSE count[x]
    BY <1>6 DEF ThrottleTick
  <2>2. store = "memory" => Entered' = Entered
    BY <2>1 DEF Entered
  <2>3. \A x \in Subjects : count'[x] = 0 => left'[x] = NoTtl
    BY <2>1 DEF ThrottleInv, ThrottleTypes, WindowsOK, NoTtl
  <2>4. ASSUME NEW q \in Slots PROVE ExpireOK(q)'
    <3>1. CASE at'[q] = "expire"
      <4>1. /\ at[q] = "expire" /\ key[q] \in Subjects /\ left[key[q]] = NoTtl /\ store = "redis"
            /\ count[key[q]] > 0
        BY <2>1, <3>1 DEF ThrottleInv, ThrottleTypes, WindowsOK, ExpireOK
      <4>2. left'[key[q]] = NoTtl /\ count'[key[q]] > 0
        BY <2>1, <4>1 DEF NoTtl
      <4> QED BY <2>1, <4>1, <4>2 DEF ThrottleInv, WindowsOK, ExpireOK
    <3> QED BY <3>1 DEF ExpireOK
  <2> QED BY <1>0, <2>1, <2>2, <2>3, <2>4
<1>7. CASE UNCHANGED throttleVars
  BY <1>1, <1>7 DEF throttleVars
<1> QED BY <1>2, <1>3, <1>4, <1>5, <1>6, <1>7 DEF ThrottleNext, Step

(* The three together.                                                     *)
LEMMA ThrottleInvAlways == ThrottleSpec => []ThrottleInv
<1>1. ThrottleInit => ThrottleInv
  <2> SUFFICES ASSUME ThrottleInit PROVE ThrottleInv
    OBVIOUS
  <2> USE ThrottleAssumption
  <2>1. ThrottleTypes
    BY DEF ThrottleInit, ThrottleTypes, Busy, Idle
  <2>2. \A k \in Subjects : Passing(k) = {}
    BY DEF ThrottleInit, Passing
  <2>3. CountedOK
    BY <2>2, FS_EmptySet DEF ThrottleInit, CountedOK, BudgetOK
  <2>4. Entered = {}
    BY DEF ThrottleInit, Entered
  <2>5. WindowsOK
    BY <2>4, FS_EmptySet DEF ThrottleInit, WindowsOK, ExpireOK
  <2> QED BY <2>1, <2>3, <2>5 DEF ThrottleInv
<1>2. ThrottleInv /\ [ThrottleNext]_throttleVars => ThrottleInv'
  BY ThrottleTyped, CountedInductive, WindowsInductive DEF ThrottleInv
<1> QED BY <1>1, <1>2, PTL DEF ThrottleSpec

(* The budget, for any number of requests in flight, of subjects and of    *)
(* processes: a window admits at most limit counted requests over either   *)
(* store, whatever round trips fail, and a 429 names a time within the     *)
(* window (guard.ts, store.ts).                                            *)
THEOREM BudgetAlwaysKept == ThrottleSpec => []BudgetPerWindow
<1>1. ThrottleInv => BudgetPerWindow
  <2> SUFFICES ASSUME ThrottleInv PROVE BudgetPerWindow
    OBVIOUS
  <2>1. ASSUME NEW k \in Subjects PROVE admitted[k] <= Limit
    <3>1. Cardinality(Passing(k)) \in Nat /\ admitted[k] \in Nat
      BY PassingFinite DEF ThrottleInv
    <3> QED BY <3>1, ThrottleAssumption DEF ThrottleInv, CountedOK, BudgetOK
  <2> QED BY <2>1 DEF BudgetPerWindow, ThrottleInv, ThrottleTypes
<1> QED BY <1>1, ThrottleInvAlways, PTL

(* A window is never pushed forward, and is cut short only to make room in *)
(* a map whose every window is live, which never outgrows maxKeys          *)
(* (store.ts): EXPIRE reaches a key once, before it has a TTL.             *)
THEOREM WindowsLast == ThrottleSpec => WindowLasts
<1> DEFINE Lasts == /\ \A k \in LiveWindows :
                         /\ left'[k] <= left[k]
                         /\ count'[k] = 0 /\ left[k] > 1 => Cardinality(LiveWindows) = MaxWindows
                    /\ store = "memory" => Cardinality({k \in Subjects : count'[k] > 0}) <= MaxWindows
<1>1. ASSUME ThrottleInv, ThrottleInv', ThrottleNext PROVE Lasts
  <2> USE ThrottleAssumption
  <2>1. store' = store
    BY <1>1 DEF ThrottleNext, Step, Arrive, Incr, Expire, MemoryHit, Judge, Refuse, FailsOpen, TtlFails,
                Crash, ThrottleTick
  <2>2. store = "memory" => Cardinality({k \in Subjects : count'[k] > 0}) <= MaxWindows
    BY <1>1, <2>1 DEF ThrottleInv, WindowsOK, Entered
  <2>3. \A k \in LiveWindows : k \in Subjects /\ count[k] \in Nat \ {0} /\ left[k] \in 1..Window
    BY <1>1 DEF LiveWindows, ThrottleInv, ThrottleTypes, NoTtl
  <2>4. ASSUME NEW k \in LiveWindows
        PROVE  left'[k] <= left[k] /\ (count'[k] = 0 /\ left[k] > 1 => Cardinality(LiveWindows) = MaxWindows)
    <3>1. ASSUME NEW r \in Slots, (\E x \in Subjects : Arrive(r, x)) \/ Judge(r) \/ Refuse(r)
                                 \/ TtlFails(r) \/ Crash(r) \/ Incr(r)
          PROVE  left' = left /\ count'[k] # 0
      <4>1. left' = left /\ (count' = count \/ count' = [count EXCEPT ![key[r]] = @ + 1])
        BY <3>1 DEF Arrive, Judge, Refuse, TtlFails, Crash, Incr
      <4> QED BY <1>1, <2>3, <4>1 DEF ThrottleInv, ThrottleTypes
    <3>2. ASSUME NEW r \in Slots, Expire(r) \/ FailsOpen(r)
          PROVE  left'[k] = left[k] /\ count'[k] # 0
      <4>1. count' = count \/ count' = [count EXCEPT ![key[r]] = @ + 1]
        BY <3>2 DEF Expire, FailsOpen
      <4>2. left' = left \/ (at[r] = "expire" /\ left' = [left EXCEPT ![key[r]] = Window])
        BY <3>2 DEF Expire, FailsOpen
      <4>3. at[r] = "expire" => key[r] # k
        BY <1>1, <2>3 DEF ThrottleInv, WindowsOK, ExpireOK, NoTtl
      <4> QED BY <1>1, <2>3, <4>1, <4>2, <4>3 DEF ThrottleInv, ThrottleTypes
    <3>3. ASSUME NEW r \in Slots, MemoryHit(r)
          PROVE  left'[k] <= left[k] /\ (count'[k] = 0 => Cardinality(LiveWindows) = MaxWindows)
      BY <1>1, <3>3, HitMakesRoom DEF ThrottleInv
    <3>4. ASSUME ThrottleTick PROVE left'[k] <= left[k] /\ (count'[k] = 0 => ~(left[k] > 1))
      <4>1. /\ left'[k] = IF left[k] > 1 THEN left[k] - 1
                            ELSE IF store = "memory" /\ count[k] > 0 THEN 0 ELSE NoTtl
            /\ count'[k] = IF left[k] = 1 /\ store = "redis" THEN 0 ELSE count[k]
        BY <2>3, <3>4 DEF ThrottleTick
      <4> QED BY <2>3, <4>1 DEF NoTtl
    <3>5. left[k] <= left[k]
      BY <2>3
    <3> QED BY <1>1, <3>1, <3>2, <3>3, <3>4, <3>5 DEF ThrottleNext, Step
  <2> QED BY <2>2, <2>4
<1>2. ThrottleInv /\ ThrottleInv' /\ [ThrottleNext]_throttleVars => [Lasts]_throttleVars
  BY <1>1
<1> QED BY <1>2, ThrottleInvAlways, PTL DEF ThrottleSpec, WindowLasts
=============================================================================
