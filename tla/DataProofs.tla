----------------------------- MODULE DataProofs -----------------------------
(***************************************************************************)
(* The pool of data sources, the memory store of idempotency records and   *)
(* transactions on SQLite, for any number of tenants, callers, entries,    *)
(* requests and nested calls.                                              *)
(***************************************************************************)
EXTENDS DataSources, MemoryIdempotencyStore, SqliteTransaction, KeptInOrderProofs, FiniteSetTheorems,
        SequenceTheorems, WellFoundedInduction, TLAPS

ElementsOf(s) == {s[i] : i \in 1..Len(s)}
DistinctBy(s, f) == \A i, j \in 1..Len(s) : f[s[i]] = f[s[j]] => i = j

(* The map: one entry per key, each opened before, never more than max.    *)
MapInv ==
  /\ pool \in Seq(Entries) /\ keyOf \in Seq(Tenants) /\ Len(keyOf) <= MaxEntries
  /\ \A i \in 1..Len(pool) : pool[i] <= Len(keyOf)
  /\ DistinctBy(pool, keyOf)
  /\ MaxLive > 0 => Len(pool) <= MaxLive

(* What a sequence holds after Append.                                     *)
LEMMA ElementsAppended ==
  ASSUME NEW S, NEW s \in Seq(S), NEW x \in S
  PROVE  /\ Append(s, x) \in Seq(S) /\ Len(Append(s, x)) = Len(s) + 1
         /\ ElementsOf(Append(s, x)) = ElementsOf(s) \cup {x}
         /\ \A i \in 1..Len(s) : Append(s, x)[i] = s[i]
         /\ Append(s, x)[Len(s) + 1] = x /\ Len(s) \in Nat
<1>1. /\ Append(s, x) \in Seq(S) /\ Len(Append(s, x)) = Len(s) + 1 /\ Len(s) \in Nat
      /\ \A i \in 1..Len(s) : Append(s, x)[i] = s[i]
      /\ Append(s, x)[Len(s) + 1] = x
  OBVIOUS
<1> DEFINE t == Append(s, x)
<1> HIDE DEF t
<1>2. ASSUME Len(t) = Len(s) + 1, Len(s) \in Nat, t[Len(s) + 1] = x,
             \A i \in 1..Len(s) : t[i] = s[i]
      PROVE  ElementsOf(t) = ElementsOf(s) \cup {x}
  <2>1. \A i \in 1..Len(t) : i \in 1..Len(s) \/ i = Len(s) + 1
    BY <1>2
  <2>2. Len(s) + 1 \in 1..Len(t) /\ \A i \in 1..Len(s) : i \in 1..Len(t)
    BY <1>2
  <2>3. ElementsOf(t) \subseteq ElementsOf(s) \cup {x}
    BY <1>2, <2>1 DEF ElementsOf
  <2>4. ElementsOf(s) \cup {x} \subseteq ElementsOf(t)
    BY <1>2, <2>2 DEF ElementsOf
  <2> QED BY <2>3, <2>4
<1> QED BY <1>1, <1>2 DEF t

(* Live, as a set of elements.                                             *)
LEMMA LiveElements ==
  ASSUME MapInv
  PROVE  Live = ElementsOf(pool) /\ Len(pool) \in Nat /\ DOMAIN pool = 1..Len(pool)
         /\ Live \subseteq Entries /\ \A e \in Live : e \in 1..Len(keyOf)
<1>1. DOMAIN pool = 1..Len(pool) /\ Len(pool) \in Nat
  BY DEF MapInv
<1>2. \A i \in 1..Len(pool) : pool[i] \in Entries
  BY DEF MapInv
<1>3. Len(keyOf) \in Nat
  BY DEF MapInv
<1> QED BY <1>1, <1>2, <1>3, DataSourcesAssumption DEF Live, ElementsOf, MapInv, Entries

(* Map.delete: the entry under the key goes, the others stay in order.     *)
LEMMA DeleteKeyOK ==
  ASSUME MapInv, NEW k
  PROVE  /\ DeleteKey(k) \in Seq(Entries)
         /\ ElementsOf(DeleteKey(k)) = Live \ Current(k)
         /\ DistinctBy(DeleteKey(k), keyOf)
         /\ Len(DeleteKey(k)) <= Len(pool)
         /\ Current(k) # {} => Len(DeleteKey(k)) + 1 = Len(pool)
<1> DEFINE under == {i \in DOMAIN pool : keyOf[pool[i]] = k}
           n == Len(pool)
<1>1. /\ Live = ElementsOf(pool) /\ n \in Nat /\ DOMAIN pool = 1..n
      /\ \A i \in 1..n : pool[i] \in Entries
      /\ \A i, j \in 1..n : keyOf[pool[i]] = keyOf[pool[j]] => i = j
      /\ pool \in Seq(Entries)
  BY LiveElements DEF MapInv, DistinctBy
<1>2. Current(k) = {pool[i] : i \in under}
  BY <1>1 DEF Current, ElementsOf
<1>3. CASE under = {}
  <2>1. DeleteKey(k) = pool /\ Current(k) = {}
    BY <1>2, <1>3 DEF DeleteKey
  <2> QED BY <1>1, <2>1 DEF DistinctBy
<1>4. CASE under # {}
  <2>1. PICK at \in 1..n : /\ keyOf[pool[at]] = k
                           /\ DeleteKey(k) = [i \in 1..(n - 1) |-> IF i < at THEN pool[i] ELSE pool[i + 1]]
    <3>1. (CHOOSE i \in under : TRUE) \in under
      BY <1>4
    <3> QED BY <1>1, <1>4, <3>1 DEF DeleteKey
  <2>2. n >= 1 /\ \A i \in 1..(n - 1) : i \in 1..n /\ i + 1 \in 1..n
    BY <1>1
  <2>3. PICK D : D = DeleteKey(k)
    OBVIOUS
  <2>4. /\ D \in Seq(Entries) /\ Len(D) = n - 1
        /\ \A i \in 1..(n - 1) : D[i] = IF i < at THEN pool[i] ELSE pool[i + 1]
    <3>1. \A i \in 1..(n - 1) : (IF i < at THEN pool[i] ELSE pool[i + 1]) \in Entries
      BY <1>1, <2>2
    <3>2. n - 1 \in Nat
      BY <1>1, <2>2
    <3>3. D = [i \in 1..(n - 1) |-> IF i < at THEN pool[i] ELSE pool[i + 1]]
      BY <2>1, <2>3
    <3>4. D \in [1..(n - 1) -> Entries]
      BY <3>1, <3>3
    <3>5. D \in Seq(Entries) /\ Len(D) = n - 1
      BY <3>2, <3>4
    <3> QED BY <3>3, <3>5
  <2>5. Current(k) = {pool[at]}
    BY <1>1, <1>2, <2>1
  <2>6. ElementsOf(D) = Live \ {pool[at]}
    <3>1. ASSUME NEW i \in 1..(n - 1) PROVE D[i] \in Live /\ D[i] # pool[at]
      BY <1>1, <2>1, <2>2, <2>4 DEF ElementsOf
    <3>2. ASSUME NEW j \in 1..n, pool[j] # pool[at] PROVE \E i \in 1..(n - 1) : D[i] = pool[j]
      <4>1. CASE j < at
        <5>1. j \in 1..(n - 1)
          BY <1>1, <2>1, <4>1
        <5> QED BY <2>4, <4>1, <5>1
      <4>2. CASE j > at
        <5>1. j - 1 \in 1..(n - 1) /\ ~(j - 1 < at) /\ (j - 1) + 1 = j
          BY <1>1, <2>1, <4>2
        <5> QED BY <2>4, <5>1
      <4> QED BY <1>1, <3>2, <4>1, <4>2
    <3>3. ElementsOf(D) \subseteq Live \ {pool[at]}
      BY <2>4, <3>1 DEF ElementsOf
    <3>4. Live \ {pool[at]} \subseteq ElementsOf(D)
      BY <1>1, <2>4, <3>2 DEF ElementsOf
    <3> QED BY <3>3, <3>4
  <2>7. DistinctBy(D, keyOf)
    <3> SUFFICES ASSUME NEW i \in 1..(n - 1), NEW j \in 1..(n - 1), keyOf[D[i]] = keyOf[D[j]]
                 PROVE  i = j
      BY <2>4 DEF DistinctBy
    <3>1. D[i] = pool[IF i < at THEN i ELSE i + 1] /\ D[j] = pool[IF j < at THEN j ELSE j + 1]
      BY <2>4
    <3>2. (IF i < at THEN i ELSE i + 1) = (IF j < at THEN j ELSE j + 1)
      BY <1>1, <2>2, <3>1
    <3> QED BY <1>1, <2>1, <3>2
  <2>8. Len(D) <= n /\ Len(D) + 1 = n
    BY <1>1, <2>4
  <2> QED BY <2>3, <2>4, <2>5, <2>6, <2>7, <2>8
<1> QED BY <1>3, <1>4

(* The live entry of a key is the only one.                                *)
LEMMA CurrentOne ==
  ASSUME MapInv, NEW v \in Live
  PROVE  Current(keyOf[v]) = {v}
<1>1. Live = ElementsOf(pool)
  BY LiveElements
<1>2. \A e \in Live : keyOf[e] = keyOf[v] => e = v
  BY <1>1 DEF MapInv, DistinctBy, ElementsOf
<1> QED BY <1>2 DEF Current

(* A step that deletes a key, and nothing else, of the map.                *)
LEMMA DeleteStep ==
  ASSUME MapInv, NEW k, pool' = DeleteKey(k), keyOf' = keyOf
  PROVE  MapInv' /\ Live' = Live \ Current(k)
<1>1. /\ pool' \in Seq(Entries) /\ ElementsOf(pool)' = Live \ Current(k)
      /\ DistinctBy(pool, keyOf)' /\ Len(pool') <= Len(pool)
  BY DeleteKeyOK DEF DistinctBy, ElementsOf
<1>2. \A e \in Live : e <= Len(keyOf)
  BY LiveElements DEF MapInv
<1>3. Len(pool') \in Nat /\ Len(pool) \in Nat /\ DOMAIN pool' = 1..Len(pool')
  BY <1>1 DEF MapInv
<1>4. Live' = Live \ Current(k)
  BY <1>1, <1>3 DEF Live, ElementsOf
<1>5. \A i \in 1..Len(pool') : pool'[i] <= Len(keyOf)
  BY <1>1, <1>2 DEF ElementsOf
<1> QED BY <1>1, <1>3, <1>4, <1>5, DataSourcesAssumption DEF MapInv

(* A step that deletes the key of an entry and sets it again, or sets a    *)
(* new one.                                                                *)
LEMMA AppendStep ==
  ASSUME MapInv, NEW rest \in Seq(Entries), NEW e \in Entries, pool' = Append(rest, e),
         ElementsOf(rest) \subseteq Live, DistinctBy(rest, keyOf),
         MaxLive > 0 => Len(rest) + 1 <= MaxLive,
         keyOf' \in Seq(Tenants), Len(keyOf') <= MaxEntries, Len(keyOf) <= Len(keyOf'),
         e <= Len(keyOf'),
         \A d \in Live : keyOf'[d] = keyOf[d],
         \A d \in ElementsOf(rest) : keyOf'[d] # keyOf'[e]
  PROVE  MapInv' /\ Live' = ElementsOf(rest) \cup {e}
<1>1. /\ pool' \in Seq(Entries) /\ Len(pool') = Len(rest) + 1 /\ Len(rest) \in Nat
      /\ ElementsOf(pool)' = ElementsOf(rest) \cup {e}
      /\ \A i \in 1..Len(rest) : pool'[i] = rest[i]
      /\ pool'[Len(rest) + 1] = e
  BY ElementsAppended DEF ElementsOf
<1>2. DOMAIN pool' = 1..Len(pool')
  BY <1>1
<1>3. Live' = ElementsOf(rest) \cup {e}
  BY <1>1, <1>2 DEF Live, ElementsOf
<1>4. \A i \in 1..Len(pool') : (i \in 1..Len(rest) /\ pool'[i] = rest[i]) \/ (i = Len(rest) + 1 /\ pool'[i] = e)
  BY <1>1
<1>5. \A i \in 1..Len(rest) : rest[i] \in ElementsOf(rest) /\ rest[i] \in Live
  BY DEF ElementsOf
<1>6. \A i \in 1..Len(pool') : pool'[i] <= Len(keyOf')
  <2>1. \A d \in Live : d <= Len(keyOf')
    BY LiveElements DEF MapInv, Entries
  <2> QED BY <1>4, <1>5, <2>1
<1>7. DistinctBy(pool, keyOf)'
  <2> SUFFICES ASSUME NEW i \in 1..Len(pool'), NEW j \in 1..Len(pool'),
                      keyOf'[pool'[i]] = keyOf'[pool'[j]]
               PROVE  i = j
    BY DEF DistinctBy
  <2>1. CASE i \in 1..Len(rest) /\ j \in 1..Len(rest)
    BY <1>1, <1>5, <2>1 DEF DistinctBy
  <2>2. CASE i = Len(rest) + 1 /\ j = Len(rest) + 1
    BY <2>2
  <2>3. CASE \/ i \in 1..Len(rest) /\ j = Len(rest) + 1
             \/ j \in 1..Len(rest) /\ i = Len(rest) + 1
    BY <1>1, <1>5, <2>3
  <2> QED BY <1>4, <2>1, <2>2, <2>3
<1> QED BY <1>1, <1>3, <1>6, <1>7 DEF MapInv

(* touch(): the key's slot goes to the entry, and what held it before is   *)
(* displaced.                                                              *)
LEMMA TouchStep ==
  ASSUME MapInv, NEW e \in Entries, e <= Len(keyOf), Touch(e), keyOf' = keyOf
  PROVE  /\ MapInv'
         /\ \A d \in Live : d \in Live' \/ d \in displaced'
         /\ Live' \subseteq Live \cup {e} /\ displaced \subseteq displaced'
         /\ displaced' = {} => Live' = Live
         /\ e \in Live => e \in Live'
<1> DEFINE there == Current(keyOf[e])
<1>0. displaced' = displaced \cup (there \ {e})
  BY DEF Touch
<1>1. CASE there = {}
  <2>1. pool' = pool
    BY <1>1 DEF Touch
  <2> QED BY <1>0, <2>1 DEF MapInv, Live, DistinctBy
<1>2. CASE there # {}
  <2>1. pool' = Append(DeleteKey(keyOf[e]), e)
    BY <1>2 DEF Touch
  <2>2. /\ DeleteKey(keyOf[e]) \in Seq(Entries) /\ ElementsOf(DeleteKey(keyOf[e])) = Live \ there
        /\ DistinctBy(DeleteKey(keyOf[e]), keyOf)
        /\ Len(DeleteKey(keyOf[e])) + 1 = Len(pool)
    BY <1>2, DeleteKeyOK
  <2>3. \A d \in Live \ there : keyOf[d] # keyOf[e]
    BY DEF Current
  <2>4. MapInv' /\ Live' = (Live \ there) \cup {e}
    <3>1. /\ keyOf' \in Seq(Tenants) /\ Len(keyOf') <= MaxEntries /\ Len(keyOf) <= Len(keyOf')
          /\ MaxLive > 0 => Len(pool) <= MaxLive
      BY DEF MapInv
    <3> QED BY <2>1, <2>2, <2>3, <3>1, AppendStep
  <2>5. there \subseteq Live /\ (e \in Live => e \in there)
    BY DEF Current
  <2>6. \A d \in Live : d \in Live' \/ d \in displaced'
    BY <1>0, <2>4
  <2>7. displaced' = {} => Live' = Live
    <3>1. displaced' = {} => there \subseteq {e}
      BY <1>0
    <3> QED BY <1>2, <2>4, <2>5, <3>1
  <2> QED BY <1>0, <2>4, <2>6, <2>7
<1> QED BY <1>1, <1>2

(* A nonempty set of natural numbers has a least one.                      *)
LEMMA LeastOf ==
  ASSUME NEW T, T \subseteq Nat, T # {}
  PROVE  \E x \in T : \A y \in T : x <= y
<1> DEFINE R == OpToRel(<, Nat)
<1>1. IsWellFoundedOn(R, Nat)
  BY NatLessThanWellFounded
<1>2. \A x, y \in Nat : x < y => <<x, y>> \in R
  BY DEF OpToRel
<1> HIDE DEF R
<1>3. PICK x \in T : \A y \in T : <<y, x>> \notin R
  BY <1>1, WFMin
<1>4. \A y \in T : ~(y < x)
  BY <1>2, <1>3
<1>5. \A y \in T : x <= y
  BY <1>4
<1> QED BY <1>5

(* #idlest finds an entry of the map that nothing borrows.                 *)
LEMMA IdlestOK ==
  ASSUME MapInv, Unborrowed # {}
  PROVE  Idlest \in Live /\ leases[Idlest] = 0
<1>1. Unborrowed \subseteq Nat /\ Unborrowed \subseteq DOMAIN pool
  BY LiveElements DEF Unborrowed
<1>2. \E i \in Unborrowed : \A j \in Unborrowed : i <= j
  BY <1>1, LeastOf
<1>3. (CHOOSE i \in Unborrowed : \A j \in Unborrowed : i <= j) \in Unborrowed
  BY <1>2
<1> QED BY <1>3 DEF Unborrowed, Idlest, Live

(* #entry on a new key: the map has room, or makes it with one entry that  *)
(* nothing borrows.                                                        *)
LEMMA AdmitStep ==
  ASSUME MapInv, NEW c \in Clients, NEW k \in Tenants, NEW how, Admit(c, k, how)
  PROVE  /\ MapInv' /\ Len(keyOf) + 1 \in Entries /\ Len(keyOf') = Len(keyOf) + 1
         /\ Len(keyOf) \in Nat
         /\ \/ /\ Live' = Live \cup {Len(keyOf) + 1} /\ shut' = shut /\ tracked' = tracked
            \/ \E v \in Live : /\ leases[v] = 0 /\ Drops(v)
                               /\ Live' = (Live \ {v}) \cup {Len(keyOf) + 1}
<1> DEFINE e == Len(keyOf) + 1
<1>1. /\ e \in Entries /\ keyOf' = Append(keyOf, k) /\ Current(k) = {}
      /\ \/ ~Full /\ pool' = Append(pool, e) /\ UNCHANGED <<shut, tracked>>
         \/ /\ Full /\ Unborrowed # {}
            /\ pool' = Append(DeleteKey(keyOf[Idlest]), e)
            /\ Drops(Idlest)
  BY DEF Admit
<1>2. /\ Len(keyOf) \in Nat /\ keyOf' \in Seq(Tenants) /\ Len(keyOf') = e /\ keyOf'[e] = k
      /\ \A i \in 1..Len(keyOf) : keyOf'[i] = keyOf[i]
  BY <1>1 DEF MapInv
<1>3. \A d \in Live : keyOf'[d] = keyOf[d] /\ keyOf[d] # k
  BY <1>1, <1>2, LiveElements DEF Current
<1>4. Len(keyOf') <= MaxEntries /\ Len(keyOf) <= Len(keyOf')
  BY <1>1, <1>2, DataSourcesAssumption DEF Entries
<1>5. Len(pool) \in Nat /\ MaxLive \in Nat /\ (MaxLive > 0 => Len(pool) <= MaxLive)
      /\ pool \in Seq(Entries) /\ DistinctBy(pool, keyOf) /\ Live = ElementsOf(pool)
  BY DataSourcesAssumption, LiveElements DEF MapInv
<1>6. CASE ~Full /\ pool' = Append(pool, e) /\ UNCHANGED <<shut, tracked>>
  <2>1. MaxLive > 0 => Len(pool) + 1 <= MaxLive
    BY <1>5, <1>6 DEF Full
  <2>2. MapInv' /\ Live' = Live \cup {e}
    <3> HIDE DEF e
    <3>1. \A d \in ElementsOf(pool) : keyOf'[d] # keyOf'[e]
      BY <1>2, <1>3, <1>5
    <3>2. e \in Entries /\ e <= Len(keyOf') /\ ElementsOf(pool) \subseteq Live
      BY <1>1, <1>2, <1>5, DataSourcesAssumption DEF Entries
    <3> QED BY <1>2, <1>3, <1>4, <1>5, <1>6, <2>1, <3>1, <3>2, AppendStep
  <2> QED BY <1>1, <1>2, <1>6, <2>2
<1>7. CASE /\ Full /\ Unborrowed # {}
           /\ pool' = Append(DeleteKey(keyOf[Idlest]), e)
           /\ Drops(Idlest)
  <2>1. PICK v \in Live : v = Idlest /\ leases[v] = 0
    BY <1>7, IdlestOK
  <2>2. Current(keyOf[v]) = {v}
    BY CurrentOne
  <2>3. PICK rest : rest = DeleteKey(keyOf[v])
    OBVIOUS
  <2>4. /\ rest \in Seq(Entries) /\ ElementsOf(rest) = Live \ {v}
        /\ DistinctBy(rest, keyOf) /\ Len(rest) + 1 = Len(pool)
    BY <2>2, <2>3, DeleteKeyOK
  <2>5. MapInv' /\ Live' = (Live \ {v}) \cup {e}
    <3>1. pool' = Append(rest, e)
      BY <1>7, <2>1, <2>3
    <3> HIDE DEF e
    <3>2. MaxLive > 0 => Len(rest) + 1 <= MaxLive
      BY <1>5, <2>4
    <3>3. \A d \in ElementsOf(rest) : keyOf'[d] # keyOf'[e]
      BY <1>2, <1>3, <2>4
    <3>4. e \in Entries /\ e <= Len(keyOf') /\ ElementsOf(rest) \subseteq Live
      BY <1>1, <1>2, <2>4, DataSourcesAssumption DEF Entries
    <3> QED BY <1>2, <1>3, <1>4, <2>4, <3>1, <3>2, <3>3, <3>4, AppendStep
  <2> QED BY <1>1, <1>2, <1>7, <2>1, <2>5
<1> QED BY <1>1, <1>6, <1>7

-----------------------------------------------------------------------------
(* PoolAccounted.  What is open, or may yet open, is in the map, about to  *)
(* be closed or displaced; a close under way is one evict(), close() or a  *)
(* sweep began, or is tracked.                                             *)
DsTypeOK ==
  /\ opening \in [Entries -> {"unused", "pending", "open", "failed"}]
  /\ conn \in [Entries -> {"none", "open", "closed"}]
  /\ shut \in [Entries -> {"no", "wait", "late", "closing", "done"}]
  /\ call \in [Clients -> {"idle", "get", "use", "work"}] /\ holds \in [Clients -> Nat]
  /\ swept \in Nat /\ poolClosed \in BOOLEAN

EntryOK(e) ==
  /\ e > Len(keyOf) => opening[e] = "unused"
  /\ conn[e] = "open" => opening[e] = "open"
  /\ opening[e] \in {"unused", "pending"} => conn[e] = "none"
  /\ (opening[e] = "pending" \/ conn[e] = "open") =>
       e \in Live \/ shut[e] \in {"wait", "late"} \/ e \in displaced
  /\ shut[e] \in {"wait", "closing"} => e \in evicted \/ swept > 0 \/ e \in tracked

HoldsOpened == \A c \in Clients : call[c] # "idle" => holds[c] \in Entries /\ holds[c] <= Len(keyOf)

AccountInv ==
  /\ MapInv /\ DsTypeOK /\ HoldsOpened
  /\ \A e \in Entries : EntryOK(e)
  /\ poolClosed = TRUE => tracked \subseteq closing
  /\ swept = 0 => todo = <<>> /\ awaited = 0

(* Taking an entry for a call.                                             *)
LEMMA AsksOK ==
  ASSUME DsTypeOK, HoldsOpened, NEW c \in Clients, NEW how \in {"get", "use", "work"},
         NEW e \in Entries, Asks(c, how, e), keyOf' \in Seq(Tenants), keyOf \in Seq(Tenants),
         e <= Len(keyOf'), Len(keyOf) <= Len(keyOf')
  PROVE  /\ call' \in [Clients -> {"idle", "get", "use", "work"}] /\ holds' \in [Clients -> Nat]
         /\ HoldsOpened'
<1>1. e \in Nat /\ Len(keyOf) \in Nat /\ Len(keyOf') \in Nat
  BY DataSourcesAssumption DEF Entries
<1>2. /\ call' = [call EXCEPT ![c] = how] /\ holds' = [holds EXCEPT ![c] = e]
  BY DEF Asks
<1>3. /\ call' \in [Clients -> {"idle", "get", "use", "work"}] /\ holds' \in [Clients -> Nat]
  BY <1>1, <1>2 DEF DsTypeOK
<1>4. ASSUME NEW d \in Clients, call'[d] # "idle"
      PROVE  holds'[d] \in Entries /\ holds'[d] <= Len(keyOf')
  <2>1. CASE d = c
    BY <1>2, <2>1 DEF DsTypeOK
  <2>2. CASE d # c
    <3>1. call'[d] = call[d] /\ holds'[d] = holds[d] /\ holds[d] \in Nat
      BY <1>2, <2>2 DEF DsTypeOK
    <3>2. holds[d] \in Entries /\ holds[d] <= Len(keyOf)
      BY <1>4, <3>1 DEF HoldsOpened
    <3> QED BY <1>1, <3>1, <3>2
  <2> QED BY <2>1, <2>2
<1> QED BY <1>3, <1>4 DEF HoldsOpened

(* Steps that shut entries of the map and put them out of it.              *)
LEMMA ShutOut ==
  ASSUME AccountInv, NEW es, Shuts(es), MapInv', keyOf' = keyOf,
         \A d \in Live : d \in Live' \/ d \in es,
         \A d \in es : d \in Entries => d \in evicted' \/ swept' > 0 \/ d \in tracked',
         evicted \subseteq evicted', tracked \subseteq tracked', swept' \in Nat, swept' >= swept,
         UNCHANGED <<opening, conn, displaced>>
  PROVE  /\ shut' \in [Entries -> {"no", "wait", "late", "closing", "done"}]
         /\ \A e \in Entries : EntryOK(e)'
<1>1. shut' = [e \in Entries |-> IF e \in es THEN "wait" ELSE shut[e]]
  BY DEF Shuts
<1>2. shut' \in [Entries -> {"no", "wait", "late", "closing", "done"}]
  BY <1>1 DEF AccountInv, DsTypeOK
<1>3. swept > 0 => swept' > 0
  BY DEF AccountInv, DsTypeOK
<1>4. ASSUME NEW e \in Entries PROVE EntryOK(e)'
  <2>1. EntryOK(e)
    BY DEF AccountInv
  <2>2. CASE e \in es
    <3>1. shut'[e] = "wait"
      BY <1>1, <2>2
    <3> QED BY <2>1, <2>2, <3>1 DEF EntryOK
  <2>3. CASE e \notin es
    <3>1. shut'[e] = shut[e]
      BY <1>1, <2>3
    <3> QED BY <1>3, <2>1, <2>3, <3>1 DEF EntryOK
  <2> QED BY <2>2, <2>3
<1> QED BY <1>2, <1>4

(* A touch keeps what is accounted for.                                    *)
LEMMA TouchAccounts ==
  ASSUME AccountInv, NEW e \in Entries, e <= Len(keyOf), Touch(e),
         UNCHANGED <<keyOf, opening, conn, shut, tracked, swept, evicted>>
  PROVE  MapInv' /\ \A d \in Entries : EntryOK(d)'
<1>1. /\ MapInv' /\ displaced \subseteq displaced'
      /\ \A d \in Live : d \in Live' \/ d \in displaced'
  BY TouchStep DEF AccountInv
<1> QED BY <1>1 DEF AccountInv, EntryOK

(* prune()'s walk shuts what it puts out of the map.                       *)
LEMMA LooksOK ==
  ASSUME AccountInv, NEW list, NEW idle, Looks(list, idle), keyOf' = keyOf,
         swept' \in Nat, swept' > 0, UNCHANGED <<opening, conn, displaced, evicted, tracked>>
  PROVE  /\ MapInv' /\ shut' \in [Entries -> {"no", "wait", "late", "closing", "done"}]
         /\ \A e \in Entries : EntryOK(e)'
<1>1. CASE UNCHANGED <<pool, shut>>
  <2>1. MapInv' /\ Live' = Live
    BY <1>1 DEF AccountInv, MapInv, Live, DistinctBy
  <2> QED BY <1>1, <2>1 DEF AccountInv, EntryOK, DsTypeOK
<1>2. CASE \E k : pool' = DeleteKey(k) /\ Shuts(Current(k))
  <2>1. PICK k : pool' = DeleteKey(k) /\ Shuts(Current(k))
    BY <1>2
  <2>2. MapInv' /\ Live' = Live \ Current(k)
    BY <2>1, DeleteStep DEF AccountInv
  <2>3. shut' = [e \in Entries |-> IF e \in Current(k) THEN "wait" ELSE shut[e]]
    BY <2>1 DEF Shuts
  <2>4. shut' \in [Entries -> {"no", "wait", "late", "closing", "done"}]
    BY <2>3 DEF AccountInv, DsTypeOK
  <2>5. ASSUME NEW e \in Entries PROVE EntryOK(e)'
    <3>1. EntryOK(e)
      BY DEF AccountInv
    <3>2. shut'[e] = IF e \in Current(k) THEN "wait" ELSE shut[e]
      BY <2>3
    <3> QED BY <2>2, <3>1, <3>2 DEF EntryOK
  <2> QED BY <2>2, <2>4, <2>5
<1> QED
  <2>1. CASE {i \in DOMAIN list : list[i] \in idle /\ leases[list[i]] = 0} = {}
    BY <1>1, <2>1 DEF Looks
  <2>2. CASE {i \in DOMAIN list : list[i] \in idle /\ leases[list[i]] = 0} # {}
    BY <1>2, <2>2 DEF Looks
  <2> QED BY <2>1, <2>2

(* An open that rejects, with or without a connection to close.            *)
LEMMA RejectsOK ==
  ASSUME AccountInv, NEW e \in Entries, opening[e] = "pending", Rejects(e),
         conn' = conn \/ conn' = [conn EXCEPT ![e] = "closed"]
  PROVE  AccountInv'
<1>1. EntryOK(e) /\ conn[e] = "none" /\ MapInv /\ DsTypeOK /\ Len(keyOf) \in Nat
  BY DEF AccountInv, EntryOK, MapInv
<1>2. e <= Len(keyOf)
  BY <1>1, DataSourcesAssumption DEF EntryOK, Entries
<1>3. /\ opening' = [opening EXCEPT ![e] = "failed"]
      /\ UNCHANGED <<keyOf, shut, tracked, todo, awaited, swept, poolClosed, closing, evicted>>
      /\ call' = [c \in Clients |-> IF c \in Waiting(e, "get") \cup Waiting(e, "use") THEN "idle" ELSE call[c]]
      /\ holds' = [c \in Clients |-> IF c \in Waiting(e, "get") \cup Waiting(e, "use") THEN 0 ELSE holds[c]]
  BY DEF Rejects, closeVars
<1>4. /\ MapInv' /\ displaced \subseteq displaced'
      /\ \A d \in Live : d # e => d \in Live' \/ d \in displaced'
  <2>1. CASE e \in Live
    <3>1. pool' = DeleteKey(keyOf[e]) /\ displaced' = displaced
      BY <2>1 DEF Rejects
    <3>2. MapInv' /\ Live' = Live \ Current(keyOf[e]) /\ Current(keyOf[e]) = {e}
      BY <1>1, <1>3, <2>1, <3>1, DeleteStep, CurrentOne
    <3> QED BY <3>1, <3>2
  <2>2. CASE e \notin Live /\ TouchNothing
    BY <1>1, <1>3, <2>2 DEF TouchNothing, MapInv, Live, DistinctBy
  <2>3. CASE e \notin Live /\ Touch(e)
    BY <1>1, <1>2, <1>3, <2>3, TouchStep
  <2> QED BY <2>1, <2>2, <2>3 DEF Rejects
<1>5. DsTypeOK'
  <2>1. conn' \in [Entries -> {"none", "open", "closed"}]
    BY <1>1 DEF DsTypeOK
  <2>2. opening' \in [Entries -> {"unused", "pending", "open", "failed"}]
    BY <1>1, <1>3 DEF DsTypeOK
  <2>3. call' \in [Clients -> {"idle", "get", "use", "work"}] /\ holds' \in [Clients -> Nat]
    BY <1>1, <1>3 DEF DsTypeOK
  <2> QED BY <1>1, <1>3, <2>1, <2>2, <2>3 DEF DsTypeOK
<1>6. HoldsOpened'
  <2> SUFFICES ASSUME NEW c \in Clients, call'[c] # "idle"
               PROVE  holds'[c] \in Entries /\ holds'[c] <= Len(keyOf')
    BY DEF HoldsOpened
  <2>1. call'[c] = call[c] /\ holds'[c] = holds[c]
    BY <1>3
  <2> QED BY <1>3, <2>1 DEF AccountInv, HoldsOpened
<1>7. ASSUME NEW d \in Entries PROVE EntryOK(d)'
  <2>1. EntryOK(d)
    BY DEF AccountInv
  <2>2. CASE d = e
    <3>1. opening'[d] = "failed" /\ conn'[d] \in {"none", "closed"}
      BY <1>1, <1>3, <2>2 DEF DsTypeOK
    <3> QED BY <1>2, <1>3, <2>1, <2>2, <3>1 DEF EntryOK
  <2>3. CASE d # e
    <3>1. opening'[d] = opening[d] /\ conn'[d] = conn[d]
      BY <1>1, <1>3, <2>3 DEF DsTypeOK
    <3> QED BY <1>3, <1>4, <2>1, <2>3, <3>1 DEF EntryOK
  <2> QED BY <2>2, <2>3
<1> QED BY <1>3, <1>4, <1>5, <1>6, <1>7 DEF AccountInv

(* The steps of a #shut that runs.                                         *)
LEMMA MovesOK ==
  ASSUME AccountInv, NEW e \in Entries, NEW to \in {"late", "closing", "done"}, Moves(e, to),
         conn' = conn \/ conn' = [conn EXCEPT ![e] = "closed"],
         \/ shut[e] = "wait" /\ opening[e] = "open" /\ to = "closing" /\ conn' = [conn EXCEPT ![e] = "closed"]
         \/ shut[e] = "wait" /\ opening[e] = "failed" /\ to = "done"
         \/ shut[e] = "wait" /\ to = "late" /\ conn' = conn
         \/ shut[e] = "closing" /\ to = "done" /\ conn' = conn
  PROVE  AccountInv'
<1>1. /\ shut' = [shut EXCEPT ![e] = to] /\ tracked \ {e} \subseteq tracked' /\ tracked' \subseteq tracked
      /\ to = "closing" => tracked' = tracked
      /\ UNCHANGED <<pool, keyOf, opening, call, holds, todo, due, awaited, swept, poolClosed, closing, displaced, evicted>>
  BY DEF Moves, clientVars, sweepVars, closeVars, history
<1>2. MapInv' /\ Live' = Live /\ HoldsOpened'
  BY <1>1 DEF AccountInv, MapInv, Live, DistinctBy, HoldsOpened
<1>3. DsTypeOK'
  <2>1. conn' \in [Entries -> {"none", "open", "closed"}]
    BY DEF AccountInv, DsTypeOK
  <2>2. shut' \in [Entries -> {"no", "wait", "late", "closing", "done"}]
    BY <1>1 DEF AccountInv, DsTypeOK
  <2> QED BY <1>1, <2>1, <2>2 DEF AccountInv, DsTypeOK
<1>4. ASSUME NEW d \in Entries PROVE EntryOK(d)'
  <2>1. EntryOK(d) /\ DsTypeOK
    BY DEF AccountInv
  <2>2. CASE d = e
    <3>1. shut'[d] = to
      BY <1>1, <2>1, <2>2 DEF DsTypeOK
    <3>2. conn'[d] = conn[d] \/ conn'[d] = "closed"
      BY <2>1 DEF DsTypeOK
    <3>3. to = "closing" => conn'[d] = "closed" /\ opening[d] = "open" /\ shut[d] = "wait"
      BY <2>1, <2>2 DEF DsTypeOK
    <3> QED BY <1>1, <1>2, <2>1, <2>2, <3>1, <3>2, <3>3 DEF EntryOK
  <2>3. CASE d # e
    <3>1. shut'[d] = shut[d] /\ conn'[d] = conn[d]
      BY <1>1, <2>1, <2>3 DEF DsTypeOK
    <3> QED BY <1>1, <1>2, <2>1, <2>3, <3>1 DEF EntryOK
  <2> QED BY <2>2, <2>3
<1> QED BY <1>1, <1>2, <1>3, <1>4 DEF AccountInv

(* #entry, for a key the map holds and for one it does not.                *)
LEMMA EntryAccounts ==
  ASSUME AccountInv, NEW c \in Clients, NEW k \in Tenants, NEW how \in {"get", "use"},
         Reuse(c, k, how) \/ Admit(c, k, how)
  PROVE  AccountInv'
<1>0. MapInv /\ DsTypeOK /\ HoldsOpened /\ keyOf \in Seq(Tenants) /\ Len(keyOf) \in Nat
  BY DEF AccountInv, MapInv
<1>1. CASE Reuse(c, k, how)
  <2>1. PICK e \in Current(k) :
          /\ Touch(e)
          /\ \/ Asks(c, how, e) \/ Asks(c, "work", e)
             \/ UNCHANGED <<clientVars, leases>>
    BY <1>1 DEF Reuse
  <2>2. UNCHANGED <<keyOf, opening, conn, shut, tracked, todo, awaited, swept, poolClosed, closing, evicted>>
    BY <1>1 DEF Reuse, closeVars
  <2>3. e \in Entries /\ e <= Len(keyOf)
    <3>1. e \in Live
      BY DEF Current
    <3> QED BY <1>0, <3>1, LiveElements
  <2>4. MapInv' /\ \A d \in Entries : EntryOK(d)'
    BY <2>1, <2>2, <2>3, TouchAccounts
  <2>5. /\ call' \in [Clients -> {"idle", "get", "use", "work"}] /\ holds' \in [Clients -> Nat]
        /\ HoldsOpened'
    <3>1. CASE UNCHANGED <<clientVars, leases>>
      BY <1>0, <2>2, <3>1 DEF clientVars, HoldsOpened, DsTypeOK
    <3>2. keyOf' \in Seq(Tenants) /\ e <= Len(keyOf') /\ Len(keyOf) <= Len(keyOf')
      BY <1>0, <2>2, <2>3
    <3>3. CASE Asks(c, how, e)
      BY <1>0, <2>3, <3>2, <3>3, AsksOK
    <3>4. CASE Asks(c, "work", e)
      <4>1. "work" \in {"get", "use", "work"}
        OBVIOUS
      <4> QED BY <1>0, <2>3, <3>2, <3>4, <4>1, AsksOK
    <3> QED BY <2>1, <3>1, <3>3, <3>4
  <2>6. DsTypeOK'
    BY <1>0, <2>2, <2>5 DEF DsTypeOK
  <2> QED BY <2>2, <2>4, <2>5, <2>6 DEF AccountInv
<1>2. CASE Admit(c, k, how)
  <2>1. PICK e : e = Len(keyOf) + 1
    OBVIOUS
  <2>2. /\ MapInv' /\ e \in Entries /\ Len(keyOf') = e
        /\ \/ Live' = Live \cup {e} /\ shut' = shut /\ tracked' = tracked
           \/ \E v \in Live : Drops(v) /\ Live' = (Live \ {v}) \cup {e}
    BY <1>0, <1>2, <2>1, AdmitStep
  <2>3. /\ ~poolClosed /\ opening' = [opening EXCEPT ![e] = "pending"] /\ Asks(c, how, e)
        /\ UNCHANGED <<conn, todo, awaited, swept, poolClosed, closing, displaced, evicted>>
    BY <1>2, <2>1 DEF Admit, sweepVars, closeVars, history
  <2>4. \A d \in Live : d \in Entries /\ d # e
    BY <1>0, <2>1, LiveElements
  <2>5. /\ tracked \subseteq tracked'
        /\ shut' \in [Entries -> {"no", "wait", "late", "closing", "done"}]
        /\ \A d \in Entries : \/ shut'[d] = shut[d] /\ (d \in Live => d \in Live')
                              \/ shut'[d] = "wait" /\ d \in tracked'
    <3>1. CASE Live' = Live \cup {e} /\ shut' = shut /\ tracked' = tracked
      BY <1>0, <3>1 DEF DsTypeOK
    <3>2. CASE \E v \in Live : Drops(v) /\ Live' = (Live \ {v}) \cup {e}
      <4>1. PICK v \in Live : Drops(v) /\ Live' = (Live \ {v}) \cup {e}
        BY <3>2
      <4>2. /\ tracked' = tracked \cup {v}
            /\ shut' = [d \in Entries |-> IF d \in {v} THEN "wait" ELSE shut[d]]
        BY <4>1 DEF Drops, Shuts
      <4> QED BY <1>0, <4>1, <4>2 DEF DsTypeOK
    <3> QED BY <2>2, <3>1, <3>2
  <2>6. /\ call' \in [Clients -> {"idle", "get", "use", "work"}] /\ holds' \in [Clients -> Nat]
        /\ HoldsOpened'
    <3>1. keyOf' \in Seq(Tenants) /\ e <= Len(keyOf') /\ Len(keyOf) <= Len(keyOf')
      BY <1>0, <2>1, <2>2 DEF MapInv
    <3>2. how \in {"get", "use", "work"}
      OBVIOUS
    <3> QED BY <1>0, <2>2, <2>3, <3>1, <3>2, AsksOK
  <2>7. DsTypeOK'
    <3>1. opening' \in [Entries -> {"unused", "pending", "open", "failed"}]
      BY <1>0, <2>3 DEF DsTypeOK
    <3> QED BY <1>0, <2>3, <2>5, <2>6, <3>1 DEF DsTypeOK
  <2>8. ASSUME NEW d \in Entries PROVE EntryOK(d)'
    <3>1. EntryOK(d) /\ d \in Nat
      BY DataSourcesAssumption DEF AccountInv, Entries
    <3>2. CASE d = e
      <4>1. opening'[d] = "pending" /\ d \in Live' /\ conn'[d] = "none"
        <5>1. e > Len(keyOf)
          BY <1>0, <2>1
        <5>2. conn[d] = "none"
          BY <3>1, <3>2, <5>1 DEF EntryOK
        <5> QED BY <1>0, <2>2, <2>3, <3>2, <5>2 DEF DsTypeOK
      <4>2. ~(d > Len(keyOf'))
        BY <2>2, <3>1, <3>2
      <4> QED BY <2>3, <2>5, <3>1, <4>1, <4>2 DEF EntryOK
    <3>3. CASE d # e
      <4>1. opening'[d] = opening[d] /\ conn'[d] = conn[d]
        BY <1>0, <2>3, <3>3 DEF DsTypeOK
      <4>2. d > Len(keyOf') => d > Len(keyOf)
        BY <1>0, <2>1, <2>2, <3>1
      <4> QED BY <2>3, <2>5, <3>1, <4>1, <4>2 DEF EntryOK
    <3> QED BY <3>2, <3>3
  <2> QED BY <2>2, <2>3, <2>6, <2>7, <2>8 DEF AccountInv
<1> QED BY <1>1, <1>2

(* AccountInv is inductive.                                                *)
LEMMA AccountInductive == ASSUME AccountInv, [DsNext]_dsVars PROVE AccountInv'
<1>0. /\ MapInv /\ DsTypeOK /\ HoldsOpened /\ keyOf \in Seq(Tenants) /\ Len(keyOf) \in Nat
      /\ swept \in Nat /\ Sweeps \in Nat
  BY DataSourcesAssumption DEF AccountInv, MapInv, DsTypeOK
<1>1. CASE \E c \in Clients, k \in Tenants, how \in {"get", "use"} : Reuse(c, k, how) \/ Admit(c, k, how)
  BY <1>1, EntryAccounts
<1>2. ASSUME NEW c \in Clients, WorkEnds(c) PROVE AccountInv'
  <2>1. /\ call[c] = "work" /\ Touch(holds[c])
        /\ call' = [call EXCEPT ![c] = "idle"] /\ holds' = [holds EXCEPT ![c] = 0]
        /\ UNCHANGED <<keyOf, opening, conn, shut, tracked, todo, awaited, swept, poolClosed, closing, evicted>>
    BY <1>2 DEF WorkEnds, closeVars
  <2>2. holds[c] \in Entries /\ holds[c] <= Len(keyOf)
    BY <1>0, <2>1 DEF HoldsOpened
  <2>3. MapInv' /\ \A d \in Entries : EntryOK(d)'
    BY <2>1, <2>2, TouchAccounts
  <2>4. DsTypeOK'
    <3>1. call' \in [Clients -> {"idle", "get", "use", "work"}] /\ holds' \in [Clients -> Nat]
      BY <1>0, <2>1 DEF DsTypeOK
    <3> QED BY <1>0, <2>1, <3>1 DEF DsTypeOK
  <2>5. HoldsOpened'
    <3> SUFFICES ASSUME NEW d \in Clients, call'[d] # "idle"
                 PROVE  holds'[d] \in Entries /\ holds'[d] <= Len(keyOf')
      BY DEF HoldsOpened
    <3>1. call'[d] = call[d] /\ holds'[d] = holds[d]
      BY <1>0, <2>1 DEF DsTypeOK
    <3> QED BY <1>0, <2>1, <3>1 DEF HoldsOpened
  <2> QED BY <2>1, <2>3, <2>4, <2>5 DEF AccountInv
<1>3. ASSUME NEW e \in Entries, OpenSucceeds(e) PROVE AccountInv'
  <2>1. /\ opening[e] = "pending"
        /\ opening' = [opening EXCEPT ![e] = "open"] /\ conn' = [conn EXCEPT ![e] = "open"]
        /\ call' = [c \in Clients |-> IF c \in Waiting(e, "get") THEN "idle"
                                      ELSE IF c \in Waiting(e, "use") THEN "work" ELSE call[c]]
        /\ holds' = [c \in Clients |-> IF c \in Waiting(e, "get") THEN 0 ELSE holds[c]]
        /\ UNCHANGED <<keyOf, shut, tracked, todo, awaited, swept, poolClosed, closing, evicted>>
        /\ TouchNothing \/ Touch(e)
    BY <1>3 DEF OpenSucceeds, closeVars
  <2>2. EntryOK(e) /\ e <= Len(keyOf)
    BY <1>0, <2>1, DataSourcesAssumption DEF AccountInv, EntryOK, Entries
  <2>3. /\ MapInv' /\ displaced \subseteq displaced'
        /\ \A d \in Live : d \in Live' \/ d \in displaced'
    <3>1. CASE TouchNothing
      BY <1>0, <2>1, <3>1 DEF TouchNothing, MapInv, Live, DistinctBy
    <3>2. CASE Touch(e)
      BY <1>0, <2>1, <2>2, <3>2, TouchStep
    <3> QED BY <2>1, <3>1, <3>2
  <2>4. DsTypeOK'
    <3>1. call' \in [Clients -> {"idle", "get", "use", "work"}] /\ holds' \in [Clients -> Nat]
      BY <1>0, <2>1 DEF DsTypeOK
    <3>2. /\ opening' \in [Entries -> {"unused", "pending", "open", "failed"}]
          /\ conn' \in [Entries -> {"none", "open", "closed"}]
      BY <1>0, <2>1 DEF DsTypeOK
    <3> QED BY <1>0, <2>1, <3>1, <3>2 DEF DsTypeOK
  <2>5. HoldsOpened'
    <3> SUFFICES ASSUME NEW c \in Clients, call'[c] # "idle"
                 PROVE  holds'[c] \in Entries /\ holds'[c] <= Len(keyOf')
      BY DEF HoldsOpened
    <3>1. call[c] # "idle" /\ holds'[c] = holds[c]
      BY <2>1 DEF Waiting
    <3> QED BY <1>0, <2>1, <3>1 DEF HoldsOpened
  <2>6. ASSUME NEW d \in Entries PROVE EntryOK(d)'
    <3>1. EntryOK(d)
      BY DEF AccountInv
    <3>2. CASE d = e
      <4>1. opening'[d] = "open" /\ conn'[d] = "open"
        BY <1>0, <2>1, <3>2 DEF DsTypeOK
      <4> QED BY <2>1, <2>2, <2>3, <3>1, <3>2, <4>1 DEF EntryOK
    <3>3. CASE d # e
      <4>1. opening'[d] = opening[d] /\ conn'[d] = conn[d]
        BY <1>0, <2>1, <3>3 DEF DsTypeOK
      <4> QED BY <2>1, <2>3, <3>1, <4>1 DEF EntryOK
    <3> QED BY <3>2, <3>3
  <2> QED BY <2>1, <2>3, <2>4, <2>5, <2>6 DEF AccountInv
<1>4. ASSUME NEW e \in Entries, OpenFails(e) \/ OpenTooLate(e) PROVE AccountInv'
  BY <1>4, RejectsOK DEF OpenFails, OpenTooLate, ClosesLate
<1>5. ASSUME NEW e \in Entries, ShutStep(e) PROVE AccountInv'
  BY <1>5, MovesOK DEF ShutStep, ShutSettles, ShutTimesOut, CloseEnds
<1>6. ASSUME NEW e \in Entries, LateClose(e) PROVE AccountInv'
  <2>1. /\ conn[e] = "open" /\ conn' = [conn EXCEPT ![e] = "closed"]
        /\ UNCHANGED <<pool, keyOf, opening, shut, tracked, call, holds, todo, awaited, swept,
                       poolClosed, closing, displaced, evicted>>
    BY <1>6 DEF LateClose, clientVars, sweepVars, closeVars, history
  <2>2. MapInv' /\ Live' = Live /\ HoldsOpened'
    BY <1>0, <2>1 DEF MapInv, Live, DistinctBy, HoldsOpened
  <2>3. DsTypeOK'
    <3>1. conn' \in [Entries -> {"none", "open", "closed"}]
      BY <1>0, <2>1 DEF DsTypeOK
    <3> QED BY <1>0, <2>1, <3>1 DEF DsTypeOK
  <2>4. ASSUME NEW d \in Entries PROVE EntryOK(d)'
    <3>1. EntryOK(d)
      BY DEF AccountInv
    <3>2. conn'[d] = IF d = e THEN "closed" ELSE conn[d]
      BY <1>0, <2>1 DEF DsTypeOK
    <3> QED BY <2>1, <2>2, <3>1, <3>2 DEF EntryOK
  <2> QED BY <2>1, <2>2, <2>3, <2>4 DEF AccountInv
<1>7. ASSUME NEW k \in Tenants, Evict(k) PROVE AccountInv'
  <2>1. /\ pool' = DeleteKey(k) /\ Shuts(Current(k)) /\ evicted' = evicted \cup Current(k)
        /\ UNCHANGED <<keyOf, opening, conn, tracked, call, holds, todo, awaited, swept,
                       poolClosed, closing, displaced>>
    BY <1>7 DEF Evict, connVars, clientVars, sweepVars, closeVars
  <2>2. MapInv' /\ Live' = Live \ Current(k)
    BY <1>0, <2>1, DeleteStep
  <2>3. /\ shut' \in [Entries -> {"no", "wait", "late", "closing", "done"}]
        /\ \A e \in Entries : EntryOK(e)'
    BY <1>0, <2>1, <2>2, ShutOut
  <2>4. DsTypeOK' /\ HoldsOpened'
    BY <1>0, <2>1, <2>3 DEF DsTypeOK, HoldsOpened
  <2> QED BY <2>1, <2>2, <2>3, <2>4 DEF AccountInv
<1>8. ASSUME Prune \/ PruneGoesOn PROVE AccountInv'
  <2>1. /\ \E list, idle : Looks(list, idle)
        /\ UNCHANGED <<keyOf, opening, conn, tracked, call, holds, poolClosed, closing, displaced, evicted>>
    BY <1>8 DEF Prune, PruneGoesOn, connVars, clientVars, closeVars, history
  <2>2. swept' \in Nat /\ swept' > 0
    <3>1. CASE Prune
      BY <1>0, <3>1 DEF Prune
    <3>2. CASE PruneGoesOn
      BY <1>0, <3>2 DEF PruneGoesOn, Pruning, AccountInv
    <3> QED BY <1>8, <3>1, <3>2
  <2>3. /\ MapInv' /\ shut' \in [Entries -> {"no", "wait", "late", "closing", "done"}]
        /\ \A e \in Entries : EntryOK(e)'
    BY <2>1, <2>2, LooksOK
  <2>4. DsTypeOK' /\ HoldsOpened'
    BY <1>0, <2>1, <2>2, <2>3 DEF DsTypeOK, HoldsOpened
  <2> QED BY <2>1, <2>2, <2>3, <2>4 DEF AccountInv
<1>9. ASSUME Close PROVE AccountInv'
  <2>1. /\ pool' = <<>> /\ poolClosed' = TRUE /\ Shuts(Live)
        /\ closing' = Live \cup tracked /\ evicted' = evicted \cup Live
        /\ UNCHANGED <<keyOf, opening, conn, tracked, call, holds, todo, awaited, swept, displaced>>
    BY <1>9 DEF Close, connVars, clientVars, sweepVars
  <2>2. MapInv'
    <3>1. pool' \in Seq(Entries) /\ Len(pool') = 0 /\ 1..Len(pool') = {}
      BY <2>1
    <3> QED BY <1>0, <2>1, <3>1, DataSourcesAssumption DEF MapInv, DistinctBy
  <2>3. /\ shut' \in [Entries -> {"no", "wait", "late", "closing", "done"}]
        /\ \A e \in Entries : EntryOK(e)'
    BY <1>0, <2>1, <2>2, ShutOut
  <2>4. DsTypeOK' /\ HoldsOpened'
    BY <1>0, <2>1, <2>3 DEF DsTypeOK, HoldsOpened
  <2> QED BY <2>1, <2>2, <2>3, <2>4 DEF AccountInv
<1>10. CASE UNCHANGED dsVars
  <2>1. MapInv' /\ DsTypeOK' /\ HoldsOpened' /\ Live' = Live
    BY <1>0, <1>10 DEF dsVars, MapInv, Live, DistinctBy, DsTypeOK, HoldsOpened
  <2> QED BY <1>10, <2>1 DEF dsVars, AccountInv, EntryOK
<1> QED BY <1>1, <1>2, <1>3, <1>4, <1>5, <1>6, <1>7, <1>8, <1>9, <1>10 DEF DsNext

(* AccountInv holds at first.                                              *)
LEMMA AccountAlways == DsSpec => []AccountInv
<1>1. DsInit => AccountInv
  <2> SUFFICES ASSUME DsInit PROVE AccountInv
    OBVIOUS
  <2>1. pool \in Seq(Entries) /\ Len(pool) = 0 /\ 1..Len(pool) = {} /\ keyOf \in Seq(Tenants) /\ Len(keyOf) = 0
    BY DEF DsInit
  <2>2. MapInv
    BY <2>1, DataSourcesAssumption DEF MapInv, DistinctBy
  <2>3. DsTypeOK /\ HoldsOpened
    BY DEF DsInit, DsTypeOK, HoldsOpened
  <2>4. \A e \in Entries : EntryOK(e)
    BY DEF DsInit, EntryOK
  <2> QED BY <2>2, <2>3, <2>4 DEF DsInit, AccountInv
<1> QED BY <1>1, AccountInductive, PTL DEF DsSpec

(* For any tenants, callers and bounds, the pool holds no more than max    *)
(* data sources, no open connection is forgotten except by the touch() of  *)
(* an older entry for its key, and a close() that resolved has waited for  *)
(* every close that evict() or a sweep did not begin.                      *)
THEOREM PoolAlwaysAccounted == DsSpec => []PoolAccounted
<1>1. AccountInv => PoolAccounted
  <2> SUFFICES ASSUME AccountInv PROVE PoolAccounted
    OBVIOUS
  <2>1. MaxLive > 0 => Len(pool) <= MaxLive
    BY DEF AccountInv, MapInv
  <2>2. \A e \in Entries : conn[e] = "open" =>
          e \in Live \/ shut[e] \in {"wait", "late"} \/ e \in displaced
    BY DEF AccountInv, EntryOK
  <2>3. ASSUME poolClosed, \A e \in closing : Settled(e), NEW e \in Entries, shut[e] \in {"wait", "closing"}
        PROVE  e \in evicted \/ swept > 0
    <3>1. e \in tracked => e \in closing
      BY <2>3 DEF AccountInv, DsTypeOK
    <3>2. e \notin closing
      BY <2>3 DEF Settled
    <3> QED BY <2>3, <3>1, <3>2 DEF AccountInv, EntryOK
  <2> QED BY <2>1, <2>2, <2>3 DEF PoolAccounted
<1> QED BY <1>1, AccountAlways, PTL

-----------------------------------------------------------------------------
(* UseKeepsConnection.  The leases of an entry count the use() calls that  *)
(* hold it, and an open a use() works on has settled; so the entry that    *)
(* makes room is one no use() holds.                                       *)
Borrowers(e) == {c \in Clients : call[c] \in {"use", "work"} /\ holds[c] = e}

LeaseInv ==
  /\ leases \in [Entries -> Int]
  /\ \A e \in Entries : leases[e] = Cardinality(Borrowers(e))
  /\ \A c \in Clients : call[c] = "work" => opening[holds[c]] = "open"

(* A use() that begins, or ends, is counted once.                          *)
LEMMA BorrowerCounts ==
  ASSUME NEW B, B \subseteq Clients, NEW c \in Clients
  PROVE  /\ IsFiniteSet(B) /\ Cardinality(B) \in Nat
         /\ c \notin B => Cardinality(B \cup {c}) = Cardinality(B) + 1
         /\ c \in B => Cardinality(B \ {c}) = Cardinality(B) - 1
<1>1. IsFiniteSet(B)
  BY DataSourcesAssumption, FS_Subset
<1>2. Cardinality(B) \in Nat
  BY <1>1, FS_CardinalityType
<1>3. c \notin B => Cardinality(B \cup {c}) = Cardinality(B) + 1
  BY <1>1, FS_AddElement
<1>4. c \in B => Cardinality(B \ {c}) = Cardinality(B) - 1
  BY <1>1, FS_RemoveElement
<1> QED BY <1>1, <1>2, <1>3, <1>4

(* #entry counts the lease of the use() it serves.                         *)
LEMMA AsksLease ==
  ASSUME DsTypeOK, LeaseInv, NEW c \in Clients, NEW how \in {"get", "use", "work"}, NEW e \in Entries,
         call[c] = "idle", Asks(c, how, e), how = "work" => opening'[e] = "open",
         \A d \in Clients : call[d] = "work" => opening'[holds[d]] = "open"
  PROVE  /\ LeaseInv'
         /\ \A d \in Entries : d # e => Borrowers(d)' \subseteq Borrowers(d)
<1>1. /\ call' = [call EXCEPT ![c] = how] /\ holds' = [holds EXCEPT ![c] = e]
      /\ leases' = IF how = "get" THEN leases ELSE [leases EXCEPT ![e] = @ + 1]
  BY DEF Asks
<1>2. /\ call'[c] = how /\ holds'[c] = e
      /\ \A d \in Clients : d # c => call'[d] = call[d] /\ holds'[d] = holds[d]
  BY <1>1 DEF DsTypeOK
<1>3. Borrowers(e) \subseteq Clients /\ c \notin Borrowers(e)
  BY DEF Borrowers
<1>4. \A d \in Entries : d # e => Borrowers(d)' = Borrowers(d)
  BY <1>2 DEF Borrowers
<1>5. Borrowers(e)' = IF how = "get" THEN Borrowers(e) ELSE Borrowers(e) \cup {c}
  BY <1>2 DEF Borrowers
<1>6. Cardinality(Borrowers(e) \cup {c}) = Cardinality(Borrowers(e)) + 1
  BY <1>3, BorrowerCounts
<1>7. leases' \in [Entries -> Int]
  BY <1>1 DEF LeaseInv
<1>8. ASSUME NEW d \in Entries PROVE leases'[d] = Cardinality(Borrowers(d)')
  <2>1. CASE d # e
    <3>1. leases'[d] = leases[d]
      BY <1>1, <2>1 DEF LeaseInv
    <3> QED BY <1>4, <2>1, <3>1 DEF LeaseInv
  <2>2. CASE d = e
    <3>1. leases'[e] = IF how = "get" THEN leases[e] ELSE leases[e] + 1
      BY <1>1 DEF LeaseInv
    <3> QED BY <1>5, <1>6, <2>2, <3>1 DEF LeaseInv
  <2> QED BY <2>1, <2>2
<1>9. \A d \in Clients : call'[d] = "work" => opening'[holds'[d]] = "open"
  BY <1>2
<1> QED BY <1>4, <1>7, <1>8, <1>9 DEF LeaseInv

(* A rejected open gives back the lease of every use() that awaits it: no  *)
(* use() works on an entry whose open is pending.                          *)
LEMMA RejectsLease ==
  ASSUME DsTypeOK, LeaseInv, NEW e \in Entries, opening[e] = "pending", Rejects(e)
  PROVE  /\ LeaseInv'
         /\ \A d \in Entries : Borrowers(d)' \subseteq Borrowers(d)
<1>1. /\ opening' = [opening EXCEPT ![e] = "failed"]
      /\ leases' = [leases EXCEPT ![e] = @ - Cardinality(Waiting(e, "use"))]
      /\ call' = [c \in Clients |-> IF c \in Waiting(e, "get") \cup Waiting(e, "use") THEN "idle" ELSE call[c]]
      /\ holds' = [c \in Clients |-> IF c \in Waiting(e, "get") \cup Waiting(e, "use") THEN 0 ELSE holds[c]]
  BY DEF Rejects
<1>2. \A c \in Clients : call[c] = "work" => holds[c] # e
  BY DEF LeaseInv
<1>3. Borrowers(e) = Waiting(e, "use") /\ Borrowers(e) \subseteq Clients
  BY <1>2 DEF Borrowers, Waiting
<1>4. Borrowers(e)' = {}
  <2> SUFFICES ASSUME NEW c \in Clients, call'[c] \in {"use", "work"}, holds'[c] = e PROVE FALSE
    BY DEF Borrowers
  <2>1. c \notin Waiting(e, "get") \cup Waiting(e, "use") /\ call'[c] = call[c] /\ holds'[c] = holds[c]
    BY <1>1
  <2> QED BY <1>2, <2>1 DEF Waiting
<1>5. \A d \in Entries : d # e => Borrowers(d)' = Borrowers(d)
  <2> SUFFICES ASSUME NEW d \in Entries, d # e, NEW c \in Clients
               PROVE  (call'[c] \in {"use", "work"} /\ holds'[c] = d) <=> (call[c] \in {"use", "work"} /\ holds[c] = d)
    BY DEF Borrowers
  <2>1. CASE c \in Waiting(e, "get") \cup Waiting(e, "use")
    BY <1>1, <2>1 DEF Waiting
  <2>2. CASE c \notin Waiting(e, "get") \cup Waiting(e, "use")
    BY <1>1, <2>2
  <2> QED BY <2>1, <2>2
<1>6. leases' \in [Entries -> Int] /\ leases'[e] = 0
  <2>1. Cardinality(Waiting(e, "use")) \in Nat /\ leases[e] = Cardinality(Waiting(e, "use"))
    <3>1. Waiting(e, "use") \subseteq Clients
      BY DEF Waiting
    <3>2. IsFiniteSet(Waiting(e, "use"))
      BY <3>1, DataSourcesAssumption, FS_Subset
    <3> QED BY <1>3, <3>2, FS_CardinalityType DEF LeaseInv
  <2> QED BY <1>1, <2>1 DEF LeaseInv
<1>7. ASSUME NEW d \in Entries PROVE leases'[d] = Cardinality(Borrowers(d)')
  <2>1. CASE d # e
    <3>1. leases'[d] = leases[d]
      BY <1>1, <2>1 DEF LeaseInv
    <3> QED BY <1>5, <2>1, <3>1 DEF LeaseInv
  <2>2. CASE d = e
    BY <1>4, <1>6, <2>2, FS_EmptySet
  <2> QED BY <2>1, <2>2
<1>8. ASSUME NEW c \in Clients, call'[c] = "work" PROVE opening'[holds'[c]] = "open"
  <2>1. call[c] = "work" /\ holds'[c] = holds[c]
    BY <1>1, <1>8
  <2>2. opening[holds[c]] = "open" /\ holds[c] # e
    BY <1>2, <2>1 DEF LeaseInv
  <2> QED BY <1>1, <2>1, <2>2 DEF DsTypeOK
<1> QED BY <1>4, <1>5, <1>6, <1>7, <1>8 DEF LeaseInv

(* The work of a use() ends.                                               *)
LEMMA WorkEndsLease ==
  ASSUME DsTypeOK, HoldsOpened, LeaseInv, NEW c \in Clients, WorkEnds(c)
  PROVE  /\ LeaseInv'
         /\ \A d \in Entries : Borrowers(d)' \subseteq Borrowers(d)
<1>1. /\ call[c] = "work" /\ leases' = [leases EXCEPT ![holds[c]] = @ - 1]
      /\ call' = [call EXCEPT ![c] = "idle"] /\ holds' = [holds EXCEPT ![c] = 0] /\ opening' = opening
  BY DEF WorkEnds
<1>2. PICK e \in Entries : e = holds[c]
  BY <1>1 DEF HoldsOpened
<1>3. /\ call'[c] = "idle"
      /\ \A d \in Clients : d # c => call'[d] = call[d] /\ holds'[d] = holds[d]
  BY <1>1 DEF DsTypeOK
<1>4. Borrowers(e) \subseteq Clients /\ c \in Borrowers(e) /\ Borrowers(e)' = Borrowers(e) \ {c}
  BY <1>1, <1>2, <1>3 DEF Borrowers
<1>5. \A d \in Entries : d # e => Borrowers(d)' = Borrowers(d)
  BY <1>1, <1>2, <1>3 DEF Borrowers
<1>6. Cardinality(Borrowers(e) \ {c}) = Cardinality(Borrowers(e)) - 1
  BY <1>4, BorrowerCounts
<1>7. leases' \in [Entries -> Int]
  BY <1>1, <1>2 DEF LeaseInv
<1>8. ASSUME NEW d \in Entries PROVE leases'[d] = Cardinality(Borrowers(d)')
  <2>1. CASE d # e
    <3>1. leases'[d] = leases[d]
      BY <1>1, <1>2, <2>1 DEF LeaseInv
    <3> QED BY <1>5, <2>1, <3>1 DEF LeaseInv
  <2>2. CASE d = e
    <3>1. leases'[e] = leases[e] - 1
      BY <1>1, <1>2 DEF LeaseInv
    <3> QED BY <1>4, <1>6, <2>2, <3>1 DEF LeaseInv
  <2> QED BY <2>1, <2>2
<1>9. ASSUME NEW d \in Clients, call'[d] = "work" PROVE opening'[holds'[d]] = "open"
  <2>1. call[d] = "work" /\ holds'[d] = holds[d]
    BY <1>3, <1>9
  <2> QED BY <1>1, <2>1 DEF LeaseInv
<1> QED BY <1>4, <1>5, <1>7, <1>8, <1>9 DEF LeaseInv

(* An open that succeeds turns the use() calls that await it into work.    *)
LEMMA SucceedsLease ==
  ASSUME DsTypeOK, LeaseInv, NEW e \in Entries, OpenSucceeds(e)
  PROVE  LeaseInv' /\ \A d \in Entries : Borrowers(d)' = Borrowers(d)
<1>1. /\ opening[e] = "pending" /\ opening' = [opening EXCEPT ![e] = "open"] /\ leases' = leases
      /\ call' = [c \in Clients |-> IF c \in Waiting(e, "get") THEN "idle"
                                    ELSE IF c \in Waiting(e, "use") THEN "work" ELSE call[c]]
      /\ holds' = [c \in Clients |-> IF c \in Waiting(e, "get") THEN 0 ELSE holds[c]]
  BY DEF OpenSucceeds
<1>2. ASSUME NEW c \in Clients
      PROVE  /\ call'[c] \in {"use", "work"} <=> call[c] \in {"use", "work"}
             /\ call'[c] # "idle" => holds'[c] = holds[c]
             /\ call'[c] = "work" => call[c] = "work" \/ holds[c] = e
  BY <1>1 DEF Waiting
<1>3. \A d \in Entries : Borrowers(d)' = Borrowers(d)
  BY <1>2 DEF Borrowers
<1>4. ASSUME NEW c \in Clients, call'[c] = "work" PROVE opening'[holds'[c]] = "open"
  <2>1. holds'[c] = holds[c] /\ (call[c] = "work" \/ holds[c] = e)
    BY <1>2, <1>4
  <2>2. CASE holds[c] = e
    BY <1>1, <2>1, <2>2 DEF DsTypeOK
  <2>3. CASE holds[c] # e
    <3>1. opening[holds[c]] = "open"
      BY <2>1, <2>3 DEF LeaseInv
    <3> QED BY <1>1, <2>1, <2>3, <3>1 DEF DsTypeOK
  <2> QED BY <2>2, <2>3
<1> QED BY <1>1, <1>3, <1>4 DEF LeaseInv

(* Quiet: no sweep ran and no touch() displaced an entry.  Then nothing in *)
(* the map is being shut, and what a use() holds is shut only by evict()   *)
(* or close().                                                             *)
Quiet == swept = 0 /\ displaced = {}

ConnKept(e) ==
  /\ e > Len(keyOf) => shut[e] = "no"
  /\ opening[e] = "open" /\ shut[e] = "no" => conn[e] = "open"

BorrowedOpen ==
  /\ \A e \in Live : shut[e] = "no"
  /\ \A e \in Entries : Borrowers(e) # {} => e \in evicted \/ shut[e] = "no"

UseInv ==
  /\ AccountInv /\ LeaseInv
  /\ \A e \in Entries : ConnKept(e)
  /\ Quiet => BorrowedOpen

(* Steps that shut nothing and bring no entry into the map.                *)
LEMMA StaysOpen ==
  ASSUME UseInv, UNCHANGED <<shut, evicted>>, Quiet' => Quiet /\ Live' \subseteq Live,
         \A e \in Entries : Borrowers(e)' \subseteq Borrowers(e) \/ e \in Live
  PROVE  Quiet' => BorrowedOpen'
BY DEF UseInv, BorrowedOpen

(* Steps that shut entries of the map, by evict() or close().              *)
LEMMA ShutsEvicted ==
  ASSUME UseInv, NEW es, es \subseteq Live, Shuts(es), Live' \subseteq Live \ es, Live \subseteq Entries,
         evicted' = evicted \cup es, UNCHANGED <<swept, displaced, call, holds>>
  PROVE  Quiet' => BorrowedOpen'
<1>1. Quiet' => Quiet /\ BorrowedOpen
  BY DEF Quiet, UseInv
<1>2. \A e \in Entries : shut'[e] = IF e \in es THEN "wait" ELSE shut[e]
  BY DEF Shuts
<1>3. \A e \in Entries : Borrowers(e)' = Borrowers(e)
  BY DEF Borrowers
<1> QED BY <1>1, <1>2, <1>3 DEF BorrowedOpen

(* Shutting entries of the map keeps what ConnKept says of every entry.    *)
LEMMA ShutsConn ==
  ASSUME UseInv, NEW es, es \subseteq Live, Shuts(es), UNCHANGED <<keyOf, opening, conn>>
  PROVE  \A e \in Entries : ConnKept(e)'
<1>1. \A e \in Live : e \in 1..Len(keyOf)
  BY LiveElements DEF UseInv, AccountInv
<1>2. Len(keyOf) \in Nat
  BY DEF UseInv, AccountInv, MapInv
<1>3. \A e \in es : ~(e > Len(keyOf))
  BY <1>1, <1>2
<1>4. \A e \in Entries : shut'[e] = IF e \in es THEN "wait" ELSE shut[e]
  BY DEF Shuts
<1> QED BY <1>3, <1>4 DEF UseInv, ConnKept

(* The steps of a #shut that runs.                                         *)
LEMMA MovesUse ==
  ASSUME UseInv, NEW e \in Entries, NEW to \in {"late", "closing", "done"}, Moves(e, to), shut[e] # "no",
         conn' = conn \/ conn' = [conn EXCEPT ![e] = "closed"]
  PROVE  /\ LeaseInv' /\ \A d \in Entries : ConnKept(d)'
         /\ Quiet' => BorrowedOpen'
<1>1. /\ shut' = [shut EXCEPT ![e] = to]
      /\ UNCHANGED <<pool, keyOf, opening, leases, call, holds, swept, displaced, evicted>>
  BY DEF Moves, clientVars, sweepVars, closeVars, history
<1>2. DsTypeOK
  BY DEF UseInv, AccountInv
<1>3. /\ shut'[e] = to
      /\ \A d \in Entries : d # e => shut'[d] = shut[d] /\ conn'[d] = conn[d]
  BY <1>1, <1>2 DEF DsTypeOK
<1>4. Live' = Live /\ \A d \in Entries : Borrowers(d)' = Borrowers(d)
  BY <1>1 DEF Live, Borrowers
<1>5. LeaseInv'
  BY <1>1, <1>4 DEF UseInv, LeaseInv
<1>6. \A d \in Entries : ConnKept(d)'
  BY <1>1, <1>3 DEF UseInv, ConnKept
<1>7. Live \subseteq Entries
  BY LiveElements DEF UseInv, AccountInv
<1>8. Quiet' => Quiet /\ BorrowedOpen
  BY <1>1 DEF Quiet, UseInv
<1>9. Quiet' => BorrowedOpen'
  BY <1>1, <1>3, <1>4, <1>7, <1>8 DEF BorrowedOpen
<1> QED BY <1>5, <1>6, <1>9

(* touch() of an entry keeps the map while it displaces nothing.           *)
LEMMA TouchQuiet ==
  ASSUME AccountInv, NEW e \in Entries, e <= Len(keyOf), Touch(e), UNCHANGED <<keyOf, swept>>
  PROVE  Quiet' => Quiet /\ Live' \subseteq Live
<1>1. displaced \subseteq displaced' /\ (displaced' = {} => Live' = Live)
  BY TouchStep DEF AccountInv
<1> QED BY <1>1 DEF Quiet

(* #entry, for a key the map holds and for one it does not.                *)
LEMMA EntryUse ==
  ASSUME UseInv, NEW c \in Clients, NEW k \in Tenants, NEW how \in {"get", "use"},
         Reuse(c, k, how) \/ Admit(c, k, how)
  PROVE  /\ LeaseInv' /\ \A d \in Entries : ConnKept(d)'
         /\ Quiet' => BorrowedOpen'
<1>0. AccountInv /\ LeaseInv /\ MapInv /\ DsTypeOK /\ Len(keyOf) \in Nat
  BY DEF UseInv, AccountInv, MapInv
<1>1. CASE Reuse(c, k, how)
  <2>1. PICK e \in Current(k) :
          /\ Touch(e)
          /\ \/ Asks(c, how, e) \/ (opening[e] = "open" /\ Asks(c, "work", e))
             \/ UNCHANGED <<clientVars, leases>>
    BY <1>1 DEF Reuse
  <2>2. /\ UNCHANGED <<keyOf, opening, conn, shut, tracked, todo, awaited, swept, poolClosed, closing, evicted>>
        /\ call[c] = "idle"
    BY <1>1 DEF Reuse, closeVars
  <2>3. e \in Live /\ e \in Entries /\ e <= Len(keyOf)
    <3>1. e \in Live
      BY DEF Current
    <3> QED BY <1>0, <3>1, LiveElements
  <2>4. LeaseInv' /\ \A d \in Entries : d # e => Borrowers(d)' \subseteq Borrowers(d)
    <3>1. CASE UNCHANGED <<clientVars, leases>>
      <4>1. \A d \in Entries : Borrowers(d)' = Borrowers(d)
        BY <3>1 DEF clientVars, Borrowers
      <4> QED BY <1>0, <2>2, <3>1, <4>1 DEF clientVars, LeaseInv
    <3>2. \A d \in Clients : call[d] = "work" => opening'[holds[d]] = "open"
      BY <1>0, <2>2 DEF LeaseInv
    <3>3. CASE Asks(c, how, e)
      <4>1. how \in {"get", "use", "work"} /\ how # "work"
        OBVIOUS
      <4> QED BY <1>0, <2>2, <2>3, <3>2, <3>3, <4>1, AsksLease
    <3>4. CASE opening[e] = "open" /\ Asks(c, "work", e)
      <4>1. "work" \in {"get", "use", "work"} /\ opening'[e] = "open"
        BY <2>2, <3>4
      <4> QED BY <1>0, <2>2, <2>3, <3>2, <3>4, <4>1, AsksLease
    <3> QED BY <2>1, <3>1, <3>3, <3>4
  <2>5. \A d \in Entries : ConnKept(d)'
    BY <2>2 DEF UseInv, ConnKept
  <2>6. Quiet' => Quiet /\ Live' \subseteq Live
    BY <1>0, <2>1, <2>2, <2>3, TouchQuiet
  <2>7. Quiet' => BorrowedOpen'
    BY <2>2, <2>3, <2>4, <2>6, StaysOpen
  <2> QED BY <2>4, <2>5, <2>7
<1>2. CASE Admit(c, k, how)
  <2>1. PICK e : e = Len(keyOf) + 1
    OBVIOUS
  <2>2. /\ e \in Entries /\ Len(keyOf') = e
        /\ \/ Live' = Live \cup {e} /\ shut' = shut
           \/ \E v \in Live : leases[v] = 0 /\ Drops(v) /\ Live' = (Live \ {v}) \cup {e}
    BY <1>0, <1>2, <2>1, AdmitStep
  <2>3. /\ call[c] = "idle" /\ opening' = [opening EXCEPT ![e] = "pending"] /\ Asks(c, how, e)
        /\ UNCHANGED <<conn, swept, displaced, evicted>>
    BY <1>2, <2>1 DEF Admit, sweepVars, history
  <2>4. /\ opening'[e] = "pending" /\ opening[e] = "unused" /\ shut[e] = "no"
        /\ \A d \in Entries : d # e => opening'[d] = opening[d]
    <3>1. e > Len(keyOf)
      BY <1>0, <2>1
    <3>2. opening[e] = "unused" /\ shut[e] = "no"
      BY <2>2, <3>1 DEF UseInv, AccountInv, EntryOK, ConnKept
    <3> QED BY <1>0, <2>2, <2>3, <3>2 DEF DsTypeOK
  <2>5. \A d \in Live : d \in Entries /\ d # e /\ d <= Len(keyOf)
    BY <1>0, <2>1, LiveElements
  <2>6. \A d \in Clients : call[d] = "work" => opening'[holds[d]] = "open"
    <3> SUFFICES ASSUME NEW d \in Clients, call[d] = "work" PROVE opening'[holds[d]] = "open"
      OBVIOUS
    <3>1. opening[holds[d]] = "open" /\ holds[d] \in Entries
      BY <1>0 DEF LeaseInv, AccountInv, HoldsOpened
    <3> QED BY <2>4, <3>1
  <2>7. LeaseInv' /\ \A d \in Entries : d # e => Borrowers(d)' \subseteq Borrowers(d)
    <3>1. how \in {"get", "use", "work"} /\ how # "work"
      OBVIOUS
    <3> QED BY <1>0, <2>2, <2>3, <2>6, <3>1, AsksLease
  <2>8. CASE Live' = Live \cup {e} /\ shut' = shut
    <3>1. \A d \in Entries : ConnKept(d)'
      <4> SUFFICES ASSUME NEW d \in Entries PROVE ConnKept(d)'
        OBVIOUS
      <4>1. d > Len(keyOf') => d > Len(keyOf)
        BY <1>0, <2>1, <2>2, DataSourcesAssumption DEF Entries
      <4> QED BY <2>3, <2>4, <2>8, <4>1 DEF UseInv, ConnKept
    <3>2. Quiet' => Quiet /\ BorrowedOpen
      BY <2>3 DEF Quiet, UseInv
    <3>3. Quiet' => BorrowedOpen'
      BY <2>3, <2>4, <2>7, <2>8, <3>2 DEF BorrowedOpen
    <3> QED BY <2>7, <3>1, <3>3
  <2>9. CASE \E v \in Live : leases[v] = 0 /\ Drops(v) /\ Live' = (Live \ {v}) \cup {e}
    <3>1. PICK v \in Live : leases[v] = 0 /\ Drops(v) /\ Live' = (Live \ {v}) \cup {e}
      BY <2>9
    <3>2. \A d \in Entries : shut'[d] = IF d = v THEN "wait" ELSE shut[d]
      BY <3>1 DEF Drops, Shuts
    <3>3. v \in Entries /\ v # e /\ v <= Len(keyOf)
      BY <2>5
    <3>4. Borrowers(v) = {}
      <4>1. Cardinality(Borrowers(v)) = 0
        BY <1>0, <3>1, <3>3 DEF LeaseInv
      <4>2. IsFiniteSet(Borrowers(v))
        <5>1. Borrowers(v) \subseteq Clients
          BY DEF Borrowers
        <5> QED BY <5>1, DataSourcesAssumption, FS_Subset
      <4> QED BY <4>1, <4>2, FS_EmptySet
    <3>5. ASSUME NEW d \in Entries PROVE ConnKept(d)'
      <4>1. d > Len(keyOf') => d > Len(keyOf) /\ d # v
        BY <1>0, <2>1, <2>2, <3>3, DataSourcesAssumption DEF Entries
      <4> QED BY <2>3, <2>4, <3>2, <4>1 DEF UseInv, ConnKept
    <3>6. Quiet' => Quiet /\ BorrowedOpen
      BY <2>3 DEF Quiet, UseInv
    <3>7. Quiet' => \A d \in Live' : shut'[d] = "no"
      BY <2>2, <2>4, <2>5, <3>1, <3>2, <3>3, <3>6 DEF BorrowedOpen
    <3>8. Quiet' => \A d \in Entries : Borrowers(d)' # {} => d \in evicted' \/ shut'[d] = "no"
      BY <2>3, <2>4, <2>7, <3>2, <3>3, <3>4, <3>6 DEF BorrowedOpen
    <3> QED BY <2>7, <3>5, <3>7, <3>8 DEF BorrowedOpen
  <2> QED BY <2>2, <2>8, <2>9
<1> QED BY <1>1, <1>2

(* UseInv is inductive.                                                    *)
LEMMA UseInductive == ASSUME UseInv, [DsNext]_dsVars PROVE UseInv'
<1>0. /\ AccountInv /\ LeaseInv /\ MapInv /\ DsTypeOK /\ HoldsOpened /\ Len(keyOf) \in Nat
      /\ swept \in Nat /\ Live \subseteq Entries
  BY LiveElements DEF UseInv, AccountInv, MapInv, DsTypeOK
<1>1. AccountInv'
  BY <1>0, AccountInductive
<1> SUFFICES LeaseInv' /\ (\A e \in Entries : ConnKept(e)') /\ (Quiet' => BorrowedOpen')
  BY <1>1 DEF UseInv
<1>2. CASE \E c \in Clients, k \in Tenants, how \in {"get", "use"} : Reuse(c, k, how) \/ Admit(c, k, how)
  BY <1>2, EntryUse
<1>3. CASE \E c \in Clients : WorkEnds(c)
  <2>1. PICK c \in Clients : WorkEnds(c)
    BY <1>3
  <2>2. LeaseInv' /\ \A d \in Entries : Borrowers(d)' \subseteq Borrowers(d)
    BY <1>0, <2>1, WorkEndsLease
  <2>3. /\ call[c] = "work" /\ Touch(holds[c])
        /\ UNCHANGED <<keyOf, opening, conn, shut, swept, evicted>>
    BY <2>1 DEF WorkEnds
  <2>4. holds[c] \in Entries /\ holds[c] <= Len(keyOf)
    BY <1>0, <2>3 DEF HoldsOpened
  <2>5. Quiet' => Quiet /\ Live' \subseteq Live
    BY <1>0, <2>3, <2>4, TouchQuiet
  <2>6. Quiet' => BorrowedOpen'
    BY <2>2, <2>3, <2>5, StaysOpen
  <2>7. \A e \in Entries : ConnKept(e)'
    BY <2>3 DEF UseInv, ConnKept
  <2> QED BY <2>2, <2>6, <2>7
<1>4. CASE \E e \in Entries : OpenSucceeds(e)
  <2>1. PICK e \in Entries : OpenSucceeds(e)
    BY <1>4
  <2>2. LeaseInv' /\ \A d \in Entries : Borrowers(d)' = Borrowers(d)
    BY <1>0, <2>1, SucceedsLease
  <2>3. /\ opening[e] = "pending" /\ (TouchNothing \/ Touch(e))
        /\ opening' = [opening EXCEPT ![e] = "open"] /\ conn' = [conn EXCEPT ![e] = "open"]
        /\ UNCHANGED <<keyOf, shut, swept, evicted>>
    BY <2>1 DEF OpenSucceeds
  <2>4. e <= Len(keyOf)
    <3>1. opening[e] = "pending"
      BY <2>1 DEF OpenSucceeds
    <3> QED BY <1>0, <3>1, DataSourcesAssumption DEF AccountInv, EntryOK, Entries
  <2>5. Quiet' => Quiet /\ Live' \subseteq Live
    <3>1. CASE TouchNothing
      BY <2>3, <3>1 DEF TouchNothing, Quiet, Live
    <3>2. CASE Touch(e)
      BY <1>0, <2>3, <2>4, <3>2, TouchQuiet
    <3> QED BY <2>3, <3>1, <3>2
  <2>6. Quiet' => BorrowedOpen'
    BY <2>2, <2>3, <2>5, StaysOpen
  <2>7. ASSUME NEW d \in Entries PROVE ConnKept(d)'
    <3>1. CASE d = e
      <4>1. conn'[d] = "open"
        BY <1>0, <2>3, <3>1 DEF DsTypeOK
      <4> QED BY <2>3, <4>1 DEF UseInv, ConnKept
    <3>2. CASE d # e
      <4>1. conn'[d] = conn[d] /\ opening'[d] = opening[d]
        BY <1>0, <2>3, <3>2 DEF DsTypeOK
      <4> QED BY <2>3, <4>1 DEF UseInv, ConnKept
    <3> QED BY <3>1, <3>2
  <2> QED BY <2>2, <2>6, <2>7
<1>5. CASE \E e \in Entries : OpenFails(e) \/ OpenTooLate(e)
  <2>1. PICK e \in Entries : OpenFails(e) \/ OpenTooLate(e)
    BY <1>5
  <2>2. /\ opening[e] = "pending" /\ Rejects(e)
        /\ conn' = conn \/ conn' = [conn EXCEPT ![e] = "closed"]
    BY <2>1 DEF OpenFails, OpenTooLate, ClosesLate
  <2>3. LeaseInv' /\ \A d \in Entries : Borrowers(d)' \subseteq Borrowers(d)
    BY <1>0, <2>2, RejectsLease
  <2>4. /\ opening' = [opening EXCEPT ![e] = "failed"] /\ UNCHANGED <<keyOf, shut, swept, evicted>>
    BY <2>2 DEF Rejects
  <2>5. e <= Len(keyOf)
    BY <1>0, <2>2, DataSourcesAssumption DEF AccountInv, EntryOK, Entries
  <2>6. Quiet' => Quiet /\ Live' \subseteq Live
    <3>1. CASE pool' = DeleteKey(keyOf[e]) /\ displaced' = displaced
      <4>1. Live' = Live \ Current(keyOf[e])
        BY <1>0, <2>4, <3>1, DeleteStep
      <4> QED BY <2>4, <3>1, <4>1 DEF Quiet
    <3>2. CASE TouchNothing
      BY <2>4, <3>2 DEF TouchNothing, Quiet, Live
    <3>3. CASE Touch(e)
      BY <1>0, <2>4, <2>5, <3>3, TouchQuiet
    <3> QED BY <2>2, <3>1, <3>2, <3>3 DEF Rejects
  <2>7. Quiet' => BorrowedOpen'
    BY <2>3, <2>4, <2>6, StaysOpen
  <2>8. ASSUME NEW d \in Entries PROVE ConnKept(d)'
    <3>1. CASE d = e
      <4>1. opening'[d] = "failed"
        BY <1>0, <2>4, <3>1 DEF DsTypeOK
      <4> QED BY <2>4, <4>1 DEF UseInv, ConnKept
    <3>2. CASE d # e
      <4>1. conn'[d] = conn[d] /\ opening'[d] = opening[d]
        BY <1>0, <2>2, <2>4, <3>2 DEF DsTypeOK
      <4> QED BY <2>4, <4>1 DEF UseInv, ConnKept
    <3> QED BY <3>1, <3>2
  <2> QED BY <2>3, <2>7, <2>8
<1>6. CASE \E e \in Entries : ShutStep(e)
  BY <1>6, MovesUse DEF ShutStep, ShutSettles, ShutTimesOut, CloseEnds
<1>7. CASE \E e \in Entries : LateClose(e)
  <2>1. PICK e \in Entries : LateClose(e)
    BY <1>7
  <2>2. /\ shut[e] = "late" /\ conn' = [conn EXCEPT ![e] = "closed"]
        /\ UNCHANGED <<pool, keyOf, opening, leases, shut, call, holds, swept, displaced, evicted>>
    BY <2>1 DEF LateClose, clientVars, sweepVars, history
  <2>3. \A d \in Entries : Borrowers(d)' = Borrowers(d)
    BY <2>2 DEF Borrowers
  <2>4. LeaseInv'
    BY <1>0, <2>2, <2>3 DEF LeaseInv
  <2>5. \A d \in Entries : ConnKept(d)'
    <3>1. \A d \in Entries : d # e => conn'[d] = conn[d]
      BY <1>0, <2>2 DEF DsTypeOK
    <3> QED BY <2>2, <3>1 DEF UseInv, ConnKept
  <2>6. Quiet' => Quiet /\ Live' \subseteq Live
    BY <2>2 DEF Quiet, Live
  <2>7. Quiet' => BorrowedOpen'
    BY <2>2, <2>3, <2>6, StaysOpen
  <2> QED BY <2>4, <2>5, <2>7
<1>8. CASE \E k \in Tenants : Evict(k)
  <2>1. PICK k \in Tenants : Evict(k)
    BY <1>8
  <2>2. /\ pool' = DeleteKey(k) /\ Shuts(Current(k)) /\ evicted' = evicted \cup Current(k)
        /\ UNCHANGED <<keyOf, opening, conn, leases, call, holds, swept, displaced>>
    BY <2>1 DEF Evict, connVars, clientVars, sweepVars
  <2>3. Live' = Live \ Current(k) /\ Current(k) \subseteq Live
    BY <1>0, <2>2, DeleteStep DEF Current
  <2>4. LeaseInv'
    BY <1>0, <2>2 DEF LeaseInv, Borrowers
  <2>5. \A d \in Entries : ConnKept(d)'
    BY <2>2, <2>3, ShutsConn
  <2>6. Quiet' => BorrowedOpen'
    BY <1>0, <2>2, <2>3, ShutsEvicted
  <2> QED BY <2>4, <2>5, <2>6
<1>9. CASE Prune \/ PruneGoesOn
  <2>1. /\ \E list, idle : Looks(list, idle)
        /\ UNCHANGED <<keyOf, opening, conn, leases, call, holds>>
    BY <1>9 DEF Prune, PruneGoesOn, connVars, clientVars
  <2>2. ~Quiet'
    <3>1. CASE Prune
      BY <1>0, <3>1 DEF Prune, Quiet
    <3>2. CASE PruneGoesOn
      BY <1>0, <3>2 DEF PruneGoesOn, Pruning, AccountInv, Quiet
    <3> QED BY <1>9, <3>1, <3>2
  <2>3. LeaseInv'
    BY <1>0, <2>1 DEF LeaseInv, Borrowers
  <2>4. shut' = shut \/ \E k : Shuts(Current(k))
    <3>1. PICK list, idle : Looks(list, idle)
      BY <2>1
    <3>2. CASE {i \in DOMAIN list : list[i] \in idle /\ leases[list[i]] = 0} = {}
      BY <3>1, <3>2 DEF Looks
    <3>3. CASE {i \in DOMAIN list : list[i] \in idle /\ leases[list[i]] = 0} # {}
      BY <3>1, <3>3 DEF Looks
    <3> QED BY <3>2, <3>3
  <2>5. \A d \in Entries : ConnKept(d)'
    <3>1. CASE shut' = shut
      BY <2>1, <3>1 DEF UseInv, ConnKept
    <3>2. CASE \E k : Shuts(Current(k))
      <4>1. \A k : Current(k) \subseteq Live
        BY DEF Current
      <4> QED BY <2>1, <3>2, <4>1, ShutsConn
    <3> QED BY <2>4, <3>1, <3>2
  <2> QED BY <2>2, <2>3, <2>5
<1>10. CASE Close
  <2>1. /\ pool' = <<>> /\ Shuts(Live) /\ evicted' = evicted \cup Live
        /\ UNCHANGED <<keyOf, opening, conn, leases, call, holds, swept, displaced>>
    BY <1>10 DEF Close, connVars, clientVars, sweepVars
  <2>2. Live' = {}
    BY <2>1 DEF Live
  <2>3. LeaseInv'
    BY <1>0, <2>1 DEF LeaseInv, Borrowers
  <2>4. \A d \in Entries : ConnKept(d)'
    BY <2>1, ShutsConn
  <2>5. Quiet' => BorrowedOpen'
    BY <1>0, <2>1, <2>2, ShutsEvicted
  <2> QED BY <2>3, <2>4, <2>5
<1>11. CASE UNCHANGED dsVars
  <2>1. UNCHANGED <<pool, keyOf, opening, conn, leases, shut, call, holds, swept, displaced, evicted>>
    BY <1>11 DEF dsVars
  <2>2. \A d \in Entries : Borrowers(d)' = Borrowers(d)
    BY <2>1 DEF Borrowers
  <2>3. LeaseInv'
    BY <1>0, <2>1, <2>2 DEF LeaseInv
  <2>4. \A d \in Entries : ConnKept(d)'
    BY <2>1 DEF UseInv, ConnKept
  <2>5. Quiet' => Quiet /\ Live' \subseteq Live
    BY <2>1 DEF Quiet, Live
  <2>6. Quiet' => BorrowedOpen'
    BY <2>1, <2>2, <2>5, StaysOpen
  <2> QED BY <2>3, <2>4, <2>6
<1> QED BY <1>2, <1>3, <1>4, <1>5, <1>6, <1>7, <1>8, <1>9, <1>10, <1>11 DEF DsNext

(* For any tenants, callers and bounds, while no sweep ran and no touch()  *)
(* displaced an entry, a use() never works on a connection that anything   *)
(* but evict(key) or close() closed: #makeRoom takes only an entry whose   *)
(* leases are zero, and the leases count every use() that holds it.        *)
THEOREM UseAlwaysKeepsConnection == DsSpec => []UseKeepsConnection
<1>1. DsInit /\ AccountInv => UseInv
  <2> SUFFICES ASSUME DsInit, AccountInv PROVE UseInv
    OBVIOUS
  <2>1. \A e \in Entries : Borrowers(e) = {}
    BY DEF DsInit, Borrowers
  <2>2. LeaseInv
    <3>1. Cardinality({}) = 0
      BY FS_EmptySet
    <3>2. \A e \in Entries : leases[e] = Cardinality(Borrowers(e))
      BY <2>1, <3>1 DEF DsInit
    <3>3. leases \in [Entries -> Int] /\ \A c \in Clients : call[c] # "work"
      BY DEF DsInit
    <3> QED BY <3>2, <3>3 DEF LeaseInv
  <2>3. \A e \in Entries : ConnKept(e)
    BY DEF DsInit, ConnKept
  <2>4. Live = {}
    BY DEF DsInit, Live
  <2> QED BY <2>1, <2>2, <2>3, <2>4 DEF UseInv, BorrowedOpen
<1>2. UseInv => UseKeepsConnection
  <2> SUFFICES ASSUME UseInv, swept = 0, displaced = {}, NEW c \in Clients, call[c] = "work",
                      holds[c] \notin evicted
               PROVE  conn[holds[c]] = "open"
    BY DEF UseKeepsConnection
  <2>1. holds[c] \in Entries /\ opening[holds[c]] = "open"
    BY DEF UseInv, AccountInv, HoldsOpened, LeaseInv
  <2>2. c \in Borrowers(holds[c])
    BY DEF Borrowers
  <2>3. shut[holds[c]] = "no"
    BY <2>1, <2>2 DEF UseInv, Quiet, BorrowedOpen
  <2> QED BY <2>1, <2>3 DEF UseInv, ConnKept
<1> QED BY <1>1, <1>2, UseInductive, AccountAlways, PTL DEF DsSpec

-----------------------------------------------------------------------------
(* The memory store of idempotency records.  Its map has one entry per     *)
(* key, and #nextExpiry is never later than the first of them to expire.   *)
Entry == [key : Keys, token : Requests, done : BOOLEAN, expiresAt : Nat]

OneEach(es) == \A i, j \in 1..Len(es) : es[i].key = es[j].key => i = j

EntriesInv ==
  /\ entries \in Seq(Entry) /\ OneEach(entries) /\ Len(entries) <= MaxKeys
  /\ nextExpiry \in Nat /\ now \in Nat /\ held \subseteq Requests
  /\ \A e \in ElementsOf(entries) : KeyOf[e.token] = e.key /\ nextExpiry <= e.expiresAt

(* What is left of the map when only the entries of K stay.                *)
LEMMA PartOK ==
  ASSUME NEW es \in Seq(Entry), OneEach(es), NEW K
  PROVE  LET t == InOrder(es, {i \in DOMAIN es : es[i] \in K}) IN
         /\ t \in Seq(Entry) /\ OneEach(t) /\ ElementsOf(t) = ElementsOf(es) \cap K
         /\ Len(t) \in Nat /\ Len(es) \in Nat /\ Len(t) <= Len(es)
         /\ Len(t) = Len(es) => ElementsOf(es) \subseteq K
<1> DEFINE at == {i \in DOMAIN es : es[i] \in K}
           t == InOrder(es, at)
           c == Cardinality(at)
<1>1. DOMAIN es = 1..Len(es) /\ Len(es) \in Nat /\ at \in SUBSET (1..Len(es))
  OBVIOUS
<1>2. PICK pos \in [1..c -> at] :
        /\ \A n \in 1..c : t[n] = es[pos[n]]
        /\ \A n, m \in 1..c : pos[n] = pos[m] => n = m
        /\ \A i \in at : \E n \in 1..c : pos[n] = i
  <2> HIDE DEF at
  <2> QED BY <1>1, InOrderOK
<1>3. t \in Seq(Entry) /\ Len(t) = c /\ c \in Nat /\ c <= Len(es) /\ (c = Len(es) => at = 1..Len(es))
  <2> HIDE DEF at
  <2> QED BY <1>1, InOrderOK
<1>4. \A i \in at : i \in 1..Len(es) /\ es[i] \in K
  BY <1>1
<1>5. \A i \in 1..Len(es) : es[i] \in K => i \in at
  BY <1>1
<1> HIDE DEF at, t, c
<1>6. OneEach(t)
  <2> SUFFICES ASSUME NEW n \in 1..c, NEW m \in 1..c, t[n].key = t[m].key PROVE n = m
    BY <1>3 DEF OneEach
  <2>1. es[pos[n]].key = es[pos[m]].key /\ pos[n] \in at /\ pos[m] \in at
    BY <1>2
  <2>2. pos[n] = pos[m]
    BY <1>4, <2>1 DEF OneEach
  <2> QED BY <1>2, <2>2
<1>7. ElementsOf(t) = ElementsOf(es) \cap K
  <2>1. ASSUME NEW n \in 1..c PROVE t[n] \in ElementsOf(es) \cap K
    <3>1. t[n] = es[pos[n]] /\ pos[n] \in at
      BY <1>2
    <3> QED BY <1>4, <3>1 DEF ElementsOf
  <2>2. ASSUME NEW i \in 1..Len(es), es[i] \in K PROVE \E n \in 1..c : t[n] = es[i]
    <3>1. PICK n \in 1..c : pos[n] = i
      BY <1>2, <1>5, <2>2
    <3> QED BY <1>2, <3>1
  <2> QED BY <1>3, <2>1, <2>2 DEF ElementsOf
<1>8. Len(t) = Len(es) => ElementsOf(es) \subseteq K
  BY <1>3, <1>4 DEF ElementsOf
<1> QED BY <1>1, <1>3, <1>6, <1>7, <1>8 DEF t, at

(* Map.get and Map.has, for a map with one entry per key.                  *)
LEMMA GetOK ==
  ASSUME NEW es \in Seq(Entry), OneEach(es)
  PROVE  /\ \A e \in ElementsOf(es) : e \in Entry /\ Has(es, e.key) /\ Get(es, e.key) = e
         /\ \A k : Has(es, k) => Get(es, k) \in ElementsOf(es) /\ Get(es, k).key = k
         /\ \A d, e \in ElementsOf(es) : d.key = e.key => d = e
<1>1. DOMAIN es = 1..Len(es) /\ \A i \in 1..Len(es) : es[i] \in Entry
  OBVIOUS
<1>2. ASSUME NEW k, Has(es, k)
      PROVE  Get(es, k) \in ElementsOf(es) /\ Get(es, k).key = k
  <2>1. \E i \in DOMAIN es : es[i].key = k
    BY <1>2 DEF Has
  <2>2. PICK i \in DOMAIN es : i = (CHOOSE j \in DOMAIN es : es[j].key = k) /\ es[i].key = k
    BY <2>1
  <2> QED BY <1>1, <2>2 DEF Get, ElementsOf
<1>3. \A d, e \in ElementsOf(es) : d.key = e.key => d = e
  BY DEF OneEach, ElementsOf
<1>4. \A e \in ElementsOf(es) : e \in Entry /\ Has(es, e.key)
  BY <1>1 DEF ElementsOf, Has
<1> QED BY <1>2, <1>3, <1>4

(* Map.delete.                                                             *)
LEMMA DropOK ==
  ASSUME NEW es \in Seq(Entry), OneEach(es), NEW k
  PROVE  /\ Drop(es, k) \in Seq(Entry) /\ OneEach(Drop(es, k))
         /\ ElementsOf(Drop(es, k)) = {e \in ElementsOf(es) : e.key # k}
         /\ Len(Drop(es, k)) \in Nat /\ Len(Drop(es, k)) <= Len(es)
         /\ Len(Drop(es, k)) = Len(es) => ~Has(es, k)
<1> DEFINE K == {e \in Entry : e.key # k}
<1>1. DOMAIN es = 1..Len(es) /\ \A i \in DOMAIN es : es[i] \in Entry
  OBVIOUS
<1>2. Drop(es, k) = InOrder(es, {i \in DOMAIN es : es[i] \in K})
  <2>1. {i \in DOMAIN es : es[i].key # k} = {i \in DOMAIN es : es[i] \in K}
    BY <1>1
  <2> QED BY <2>1 DEF Drop
<1>3. ElementsOf(es) \cap K = {e \in ElementsOf(es) : e.key # k}
  BY GetOK
<1>4. ElementsOf(es) \subseteq K => ~Has(es, k)
  BY <1>1 DEF Has, ElementsOf
<1> HIDE DEF K
<1> QED BY <1>2, <1>3, <1>4, PartOK

(* The sweep.                                                              *)
LEMMA LivePartOK ==
  ASSUME NEW es \in Seq(Entry), OneEach(es)
  PROVE  /\ LivePart(es) \in Seq(Entry) /\ OneEach(LivePart(es))
         /\ ElementsOf(LivePart(es)) = {e \in ElementsOf(es) : IsLive(e)}
         /\ Len(LivePart(es)) \in Nat /\ Len(LivePart(es)) <= Len(es)
         /\ Len(LivePart(es)) = Len(es) => \A e \in ElementsOf(es) : IsLive(e)
<1> DEFINE K == {e \in Entry : IsLive(e)}
<1>1. DOMAIN es = 1..Len(es) /\ \A i \in DOMAIN es : es[i] \in Entry
  OBVIOUS
<1>2. LivePart(es) = InOrder(es, {i \in DOMAIN es : es[i] \in K})
  <2>1. {i \in DOMAIN es : IsLive(es[i])} = {i \in DOMAIN es : es[i] \in K}
    BY <1>1
  <2> QED BY <2>1 DEF LivePart
<1>3. ElementsOf(es) \cap K = {e \in ElementsOf(es) : IsLive(e)}
  BY GetOK
<1>4. ElementsOf(es) \subseteq K => \A e \in ElementsOf(es) : IsLive(e)
  OBVIOUS
<1> HIDE DEF K
<1> QED BY <1>2, <1>3, <1>4, PartOK

(* Map.set, for a key the map has and for one it has not.                  *)
LEMMA PutOK ==
  ASSUME NEW es \in Seq(Entry), OneEach(es), NEW e \in Entry
  PROVE  /\ Put(es, e) \in Seq(Entry) /\ OneEach(Put(es, e))
         /\ ElementsOf(Put(es, e)) = {d \in ElementsOf(es) : d.key # e.key} \cup {e}
         /\ Len(es) \in Nat
         /\ Len(Put(es, e)) = IF Has(es, e.key) THEN Len(es) ELSE Len(es) + 1
<1>1. DOMAIN es = 1..Len(es) /\ Len(es) \in Nat /\ \A i \in 1..Len(es) : es[i] \in Entry
  OBVIOUS
<1>2. CASE Has(es, e.key)
  <2>1. PICK p : p = Put(es, e)
    OBVIOUS
  <2>2. p = [i \in 1..Len(es) |-> IF es[i].key = e.key THEN e ELSE es[i]]
    BY <1>1, <1>2, <2>1 DEF Put
  <2>3. p \in [1..Len(es) -> Entry]
    BY <1>1, <2>2
  <2>4. p \in Seq(Entry) /\ Len(p) = Len(es)
    BY <1>1, <2>3
  <2>5. \A i \in 1..Len(es) : p[i] = IF es[i].key = e.key THEN e ELSE es[i]
    BY <2>2
  <2>6. \A i \in 1..Len(es) : p[i].key = es[i].key
    BY <2>5
  <2>7. OneEach(p)
    BY <2>4, <2>6 DEF OneEach
  <2>8. PICK at \in 1..Len(es) : es[at].key = e.key
    BY <1>1, <1>2 DEF Has
  <2>9. ElementsOf(p) = {d \in ElementsOf(es) : d.key # e.key} \cup {e}
    <3>1. e \in ElementsOf(p)
      BY <2>4, <2>5, <2>8 DEF ElementsOf
    <3>2. \A d \in ElementsOf(p) : d = e \/ (d \in ElementsOf(es) /\ d.key # e.key)
      BY <2>4, <2>5 DEF ElementsOf
    <3>3. \A d \in ElementsOf(es) : d.key # e.key => d \in ElementsOf(p)
      BY <2>4, <2>5 DEF ElementsOf
    <3> QED BY <3>1, <3>2, <3>3
  <2> QED BY <1>1, <1>2, <2>1, <2>4, <2>7, <2>9
<1>3. CASE ~Has(es, e.key)
  <2>1. PICK p : p = Put(es, e)
    OBVIOUS
  <2>2. p = Append(es, e)
    BY <1>3, <2>1 DEF Put
  <2>3. \A d \in ElementsOf(es) : d.key # e.key
    BY <1>1, <1>3 DEF Has, ElementsOf
  <2>4. /\ p \in Seq(Entry) /\ Len(p) = Len(es) + 1
        /\ ElementsOf(p) = ElementsOf(es) \cup {e}
        /\ \A i \in 1..Len(es) : p[i] = es[i]
        /\ p[Len(es) + 1] = e
    BY <2>2, ElementsAppended
  <2>5. OneEach(p)
    <3> SUFFICES ASSUME NEW i \in 1..Len(p), NEW j \in 1..Len(p), p[i].key = p[j].key PROVE i = j
      BY DEF OneEach
    <3>1. \A n \in 1..Len(p) : n \in 1..Len(es) \/ n = Len(es) + 1
      BY <1>1, <2>4
    <3>2. \A n \in 1..Len(es) : p[n].key # e.key
      BY <2>3, <2>4 DEF ElementsOf
    <3>3. CASE i \in 1..Len(es) /\ j \in 1..Len(es)
      BY <2>4, <3>3 DEF OneEach
    <3>4. CASE i = Len(es) + 1 \/ j = Len(es) + 1
      BY <2>4, <3>1, <3>2, <3>4
    <3> QED BY <3>1, <3>3, <3>4
  <2>6. ElementsOf(p) = {d \in ElementsOf(es) : d.key # e.key} \cup {e}
    BY <2>3, <2>4
  <2> QED BY <1>1, <1>3, <2>1, <2>4, <2>5, <2>6
<1> QED BY <1>2, <1>3

(* Making room when the map is full: the oldest entry goes.                *)
LEMMA EvictOK ==
  ASSUME NEW es \in Seq(Entry), OneEach(es), Len(es) <= MaxKeys
  PROVE  /\ EvictOldest(es) \in Seq(Entry) /\ OneEach(EvictOldest(es))
         /\ ElementsOf(EvictOldest(es)) \subseteq ElementsOf(es)
         /\ Len(EvictOldest(es)) \in Nat /\ Len(EvictOldest(es)) < MaxKeys
         /\ Len(es) < MaxKeys => EvictOldest(es) = es
<1>1. Len(es) \in Nat /\ MaxKeys \in Nat /\ MaxKeys > 0
  BY MemoryAssumption
<1>2. CASE Len(es) >= MaxKeys
  <2>1. es # <<>> /\ EvictOldest(es) = Tail(es)
    BY <1>1, <1>2 DEF EvictOldest
  <2>2. PICK t : t = Tail(es)
    OBVIOUS
  <2>3. /\ t \in Seq(Entry) /\ Len(t) = Len(es) - 1
        /\ \A i \in 1..Len(t) : t[i] = es[i + 1]
    BY <2>1, <2>2
  <2>4. \A i \in 1..Len(t) : i + 1 \in 1..Len(es)
    BY <1>1, <2>3
  <2>5. OneEach(t)
    BY <2>3, <2>4 DEF OneEach
  <2>6. ElementsOf(t) \subseteq ElementsOf(es)
    BY <2>3, <2>4 DEF ElementsOf
  <2>7. Len(t) \in Nat /\ Len(t) < MaxKeys /\ ~(Len(es) < MaxKeys)
    BY <1>1, <1>2, <2>3
  <2>8. EvictOldest(es) = t
    BY <2>1, <2>2
  <2> QED BY <2>3, <2>5, <2>6, <2>7, <2>8
<1>3. CASE Len(es) < MaxKeys
  BY <1>1, <1>3 DEF EvictOldest
<1> QED BY <1>1, <1>2, <1>3

(* #live drops an expired entry of its key, and nothing else.              *)
LEMMA TouchedOK ==
  ASSUME EntriesInv, NEW k
  PROVE  /\ Touched(k) \in Seq(Entry) /\ OneEach(Touched(k))
         /\ ElementsOf(Touched(k)) \subseteq ElementsOf(entries)
         /\ \A e \in ElementsOf(entries) : IsLive(e) => e \in ElementsOf(Touched(k))
         /\ \A e \in ElementsOf(Touched(k)) : e.key = k => IsLive(e)
         /\ Len(Touched(k)) \in Nat /\ Len(Touched(k)) <= Len(entries)
         /\ Len(Touched(k)) = Len(entries) => Touched(k) = entries
         /\ (\E e \in ElementsOf(entries) : e.key = k /\ IsLive(e)) => Touched(k) = entries
<1>1. entries \in Seq(Entry) /\ OneEach(entries) /\ Len(entries) \in Nat
  BY DEF EntriesInv
<1>2. CASE Has(entries, k) /\ ~IsLive(Get(entries, k))
  <2>1. Touched(k) = Drop(entries, k)
    BY <1>2 DEF Touched
  <2>2. \A e \in ElementsOf(entries) : e.key = k => ~IsLive(e)
    BY <1>1, <1>2, GetOK
  <2> QED BY <1>1, <1>2, <2>1, <2>2, DropOK
<1>3. CASE ~(Has(entries, k) /\ ~IsLive(Get(entries, k)))
  <2>1. Touched(k) = entries
    BY <1>3 DEF Touched
  <2>2. \A e \in ElementsOf(entries) : e.key = k => IsLive(e)
    BY <1>1, <1>3, GetOK
  <2> QED BY <1>1, <2>1, <2>2
<1> QED BY <1>2, <1>3

(* What a step of the store does to the entries of its map.                *)
Kept(e) == e \in ElementsOf(entries')
Fresh(r, done, ttl) == [key |-> KeyOf[r], token |-> r, done |-> done, expiresAt |-> now + ttl]

(* A claim holds the live entry of its key, and no other request does.     *)
LEMMA OwnsOK ==
  ASSUME EntriesInv, NEW r \in Requests, Owns(r)
  PROVE  \E e \in ElementsOf(entries) :
           /\ e.key = KeyOf[r] /\ e.token = r /\ e.done = FALSE /\ IsLive(e)
<1>1. PICK es : es = Touched(KeyOf[r])
  OBVIOUS
<1>2. /\ es \in Seq(Entry) /\ OneEach(es) /\ ElementsOf(es) \subseteq ElementsOf(entries)
      /\ \A e \in ElementsOf(es) : e.key = KeyOf[r] => IsLive(e)
  BY <1>1, TouchedOK
<1>3. Has(es, KeyOf[r]) /\ Get(es, KeyOf[r]).token = r /\ ~Get(es, KeyOf[r]).done
  BY <1>1 DEF Owns
<1>4. PICK e \in ElementsOf(es) : e = Get(es, KeyOf[r]) /\ e.key = KeyOf[r]
  BY <1>2, <1>3, GetOK
<1>5. e \in Entry
  BY <1>2, GetOK
<1>6. e.done = FALSE
  BY <1>3, <1>4, <1>5 DEF Entry
<1> QED BY <1>2, <1>3, <1>4, <1>6

(* The new entry of a claim or of a stored response.                       *)
LEMMA FreshOK ==
  ASSUME EntriesInv, NEW r \in Requests, NEW done \in BOOLEAN, NEW ttl \in Nat \ {0}
  PROVE  /\ Fresh(r, done, ttl) \in Entry /\ IsLive(Fresh(r, done, ttl))
         /\ Fresh(r, done, ttl).key = KeyOf[r] /\ Fresh(r, done, ttl).token = r
         /\ Fresh(r, done, ttl).done = done /\ Fresh(r, done, ttl).expiresAt = now + ttl
<1>1. now \in Nat /\ now + ttl \in Nat /\ now + ttl > now /\ KeyOf[r] \in Keys
  BY MemoryAssumption DEF EntriesInv
<1> QED BY <1>1 DEF Fresh, Entry, IsLive

(* claim(): the room made keeps every live entry unless the map is full of *)
(* live ones.                                                              *)
LEMMA ClaimStep ==
  ASSUME EntriesInv, NEW r \in Requests, Claim(r)
  PROVE  /\ EntriesInv'
         /\ \A e \in ElementsOf(entries) : e.key = KeyOf[r] => ~IsLive(e)
         /\ Kept(Fresh(r, FALSE, Lease))
         /\ \A e \in ElementsOf(entries') : e = Fresh(r, FALSE, Lease) \/ (e \in ElementsOf(entries) /\ e.key # KeyOf[r])
         /\ \A e \in ElementsOf(entries) : IsLive(e) =>
              Kept(e) \/ (Len(entries) >= MaxKeys /\ \A d \in ElementsOf(entries) : IsLive(d))
<1>1. /\ entries \in Seq(Entry) /\ OneEach(entries) /\ Len(entries) <= MaxKeys /\ Len(entries) \in Nat
      /\ nextExpiry \in Nat /\ now \in Nat /\ held \subseteq Requests
      /\ \A e \in ElementsOf(entries) : e \in Entry /\ KeyOf[e.token] = e.key /\ nextExpiry <= e.expiresAt
      /\ MaxKeys \in Nat /\ Lease \in Nat \ {0}
  <2>1. entries \in Seq(Entry) /\ OneEach(entries)
    BY DEF EntriesInv
  <2> QED BY <2>1, GetOK, MemoryAssumption DEF EntriesInv
<1>2. PICK es : es = Touched(KeyOf[r])
  OBVIOUS
<1>3. PICK new \in Entry : new = Fresh(r, FALSE, Lease) /\ new.key = KeyOf[r] /\ new.token = r
                           /\ new.expiresAt = now + Lease
  <2>1. FALSE \in BOOLEAN
    OBVIOUS
  <2>2. LET f == Fresh(r, FALSE, Lease) IN
        f \in Entry /\ f.key = KeyOf[r] /\ f.token = r /\ f.expiresAt = now + Lease
    BY <1>1, <2>1, FreshOK
  <2> QED BY <2>2
<1>4. /\ es \in Seq(Entry) /\ OneEach(es) /\ ElementsOf(es) \subseteq ElementsOf(entries)
      /\ \A e \in ElementsOf(entries) : IsLive(e) => e \in ElementsOf(es)
      /\ Len(es) \in Nat /\ Len(es) <= Len(entries)
      /\ Len(es) = Len(entries) => es = entries
  BY <1>2, TouchedOK
<1>5. ~Has(es, KeyOf[r]) /\ \A e \in ElementsOf(es) : e.key # KeyOf[r]
  <2>1. ~Has(es, KeyOf[r])
    BY <1>2 DEF Claim
  <2> QED BY <1>4, <2>1, GetOK
<1>6. PICK room : room = IF Len(es) >= MaxKeys THEN EvictOldest(Swept(es)) ELSE es
  OBVIOUS
<1>7. PICK bound : bound = IF Len(es) >= MaxKeys THEN ExpiryAfterSweep(es) ELSE nextExpiry
  OBVIOUS
<1>8. /\ entries' = Put(room, new) /\ nextExpiry' = LowerOf(new.expiresAt, bound)
      /\ held' = held \cup {r} /\ now' = now
  BY <1>2, <1>3, <1>6, <1>7 DEF Claim, Fresh
<1>9. /\ Swept(es) \in Seq(Entry) /\ OneEach(Swept(es)) /\ ElementsOf(Swept(es)) \subseteq ElementsOf(es)
      /\ \A e \in ElementsOf(es) : IsLive(e) => e \in ElementsOf(Swept(es))
      /\ Len(Swept(es)) \in Nat /\ Len(Swept(es)) <= Len(es)
      /\ Len(Swept(es)) = Len(es) => \A e \in ElementsOf(es) : IsLive(e)
  <2>1. CASE nextExpiry <= now
    <3>1. Swept(es) = LivePart(es)
      BY <2>1 DEF Swept
    <3> QED BY <1>4, <3>1, LivePartOK
  <2>2. CASE ~(nextExpiry <= now)
    <3>1. Swept(es) = es
      BY <2>2 DEF Swept
    <3>2. ASSUME NEW e \in ElementsOf(es) PROVE IsLive(e)
      <4>1. e \in Entry /\ nextExpiry <= e.expiresAt
        BY <1>1, <1>4
      <4>2. e.expiresAt \in Nat
        BY <4>1 DEF Entry
      <4> QED BY <1>1, <2>2, <4>1, <4>2 DEF IsLive
    <3> QED BY <1>4, <3>1, <3>2
  <2> QED BY <2>1, <2>2
<1>10. /\ room \in Seq(Entry) /\ OneEach(room) /\ ElementsOf(room) \subseteq ElementsOf(es)
       /\ Len(room) \in Nat /\ Len(room) < MaxKeys
       /\ \A e \in ElementsOf(es) : IsLive(e) =>
            e \in ElementsOf(room) \/ (Len(es) >= MaxKeys /\ Len(Swept(es)) >= MaxKeys)
  <2>1. CASE Len(es) >= MaxKeys
    <3>1. room = EvictOldest(Swept(es)) /\ Len(Swept(es)) <= MaxKeys
      BY <1>1, <1>4, <1>6, <1>9, <2>1
    <3>2. /\ room \in Seq(Entry) /\ OneEach(room) /\ ElementsOf(room) \subseteq ElementsOf(Swept(es))
          /\ Len(room) \in Nat /\ Len(room) < MaxKeys
          /\ Len(Swept(es)) < MaxKeys => room = Swept(es)
      BY <1>9, <3>1, EvictOK
    <3>3. Len(Swept(es)) < MaxKeys \/ Len(Swept(es)) >= MaxKeys
      BY <1>1, <1>9
    <3> QED BY <1>9, <2>1, <3>2, <3>3
  <2>2. CASE ~(Len(es) >= MaxKeys)
    <3>1. room = es /\ Len(es) < MaxKeys
      BY <1>1, <1>4, <1>6, <2>2
    <3> QED BY <1>4, <3>1
  <2> QED BY <2>1, <2>2
<1>11. ~Has(room, new.key) /\ \A e \in ElementsOf(room) : e.key # new.key
  <2>1. \A e \in ElementsOf(room) : e.key # new.key
    BY <1>3, <1>5, <1>10
  <2>2. Has(room, new.key) => Get(room, new.key) \in ElementsOf(room) /\ Get(room, new.key).key = new.key
    BY <1>10, GetOK
  <2> QED BY <2>1, <2>2
<1>12. /\ entries' \in Seq(Entry) /\ OneEach(entries') /\ Len(entries') <= MaxKeys
       /\ ElementsOf(entries') = ElementsOf(room) \cup {new}
  <2>1. /\ Put(room, new) \in Seq(Entry) /\ OneEach(Put(room, new))
        /\ ElementsOf(Put(room, new)) = {d \in ElementsOf(room) : d.key # new.key} \cup {new}
        /\ Len(Put(room, new)) = Len(room) + 1
    BY <1>10, <1>11, PutOK
  <2>2. Len(room) + 1 <= MaxKeys
    BY <1>1, <1>10
  <2> QED BY <1>8, <1>11, <2>1, <2>2
<1>13. bound \in Nat /\ \A e \in ElementsOf(room) : bound <= e.expiresAt
  <2>1. CASE bound = nextExpiry
    BY <1>1, <1>4, <1>10, <2>1
  <2>2. CASE Len(es) >= MaxKeys /\ nextExpiry <= now
    <3> DEFINE T == {Infinity} \cup {Swept(es)[i].expiresAt : i \in DOMAIN Swept(es)}
    <3>1. DOMAIN Swept(es) = 1..Len(Swept(es)) /\ \A i \in 1..Len(Swept(es)) : Swept(es)[i] \in Entry
      BY <1>9
    <3>2. Infinity \in Nat
      BY MemoryAssumption DEF Infinity
    <3>3. T \subseteq Nat /\ T # {}
      BY <3>1, <3>2 DEF Entry
    <3>4. bound = Min(T)
      BY <1>7, <2>2 DEF ExpiryAfterSweep
    <3>5. \A e \in ElementsOf(Swept(es)) : e.expiresAt \in T
      BY <3>1 DEF ElementsOf
    <3> HIDE DEF T
    <3>6. \E x \in T : \A y \in T : x <= y
      BY <3>3, LeastOf
    <3>7. bound \in T /\ \A y \in T : bound <= y
      BY <3>4, <3>6 DEF Min
    <3>8. ElementsOf(room) \subseteq ElementsOf(Swept(es))
      <4>1. room = EvictOldest(Swept(es)) /\ Len(Swept(es)) <= MaxKeys
        BY <1>1, <1>4, <1>6, <1>9, <2>2
      <4> QED BY <1>9, <4>1, EvictOK
    <3> QED BY <3>3, <3>5, <3>7, <3>8
  <2> QED BY <1>7, <2>1, <2>2 DEF ExpiryAfterSweep
<1>14. nextExpiry' \in Nat /\ \A e \in ElementsOf(entries') : nextExpiry' <= e.expiresAt
  <2>1. /\ nextExpiry' \in Nat /\ nextExpiry' <= new.expiresAt /\ nextExpiry' <= bound
    <3>1. new.expiresAt \in Nat
      BY DEF Entry
    <3> QED BY <1>8, <1>13, <3>1 DEF LowerOf
  <2>2. ASSUME NEW e \in ElementsOf(room) PROVE nextExpiry' <= e.expiresAt
    <3>1. e \in Entry
      BY <1>10, GetOK
    <3>2. e.expiresAt \in Nat
      BY <3>1 DEF Entry
    <3> QED BY <1>13, <2>1, <3>2
  <2> QED BY <1>12, <2>1, <2>2
<1>15. EntriesInv'
  <2>1. \A e \in ElementsOf(entries') : KeyOf[e.token] = e.key
    BY <1>1, <1>3, <1>4, <1>10, <1>12
  <2>2. now' \in Nat /\ held' \subseteq Requests
    BY <1>1, <1>8
  <2> QED BY <1>12, <1>14, <2>1, <2>2 DEF EntriesInv, OneEach, ElementsOf
<1>16. \A e \in ElementsOf(entries) : e.key = KeyOf[r] => ~IsLive(e)
  BY <1>4, <1>5
<1>17. \A e \in ElementsOf(entries') : e = new \/ (e \in ElementsOf(entries) /\ e.key # KeyOf[r])
  BY <1>4, <1>5, <1>10, <1>12
<1>18. \A e \in ElementsOf(entries) : IsLive(e) =>
         Kept(e) \/ (Len(entries) >= MaxKeys /\ \A d \in ElementsOf(entries) : IsLive(d))
  <2> SUFFICES ASSUME NEW e \in ElementsOf(entries), IsLive(e), ~Kept(e)
               PROVE  Len(entries) >= MaxKeys /\ \A d \in ElementsOf(entries) : IsLive(d)
    OBVIOUS
  <2>1. Len(es) >= MaxKeys /\ Len(Swept(es)) >= MaxKeys
    BY <1>4, <1>10, <1>12 DEF Kept
  <2>2. Len(es) = Len(entries) /\ Len(Swept(es)) = Len(es) /\ Len(entries) >= MaxKeys
    BY <1>1, <1>4, <1>9, <2>1
  <2> QED BY <1>4, <1>9, <2>2
<1>19. Kept(Fresh(r, FALSE, Lease))
  BY <1>3, <1>12 DEF Kept
<1> QED BY <1>3, <1>15, <1>16, <1>17, <1>18, <1>19

(* claim() answering false, read(), and a complete() or release() that     *)
(* comes too late only touch.                                              *)
LEMMA LookStep ==
  ASSUME EntriesInv, NEW k, entries' = Touched(k), UNCHANGED <<nextExpiry, now>>, held' \subseteq held
  PROVE  /\ EntriesInv'
         /\ ElementsOf(entries') \subseteq ElementsOf(entries)
         /\ \A e \in ElementsOf(entries) : IsLive(e) => Kept(e)
<1>1. /\ entries' \in Seq(Entry) /\ OneEach(entries')
      /\ ElementsOf(entries') \subseteq ElementsOf(entries)
      /\ \A e \in ElementsOf(entries) : IsLive(e) => Kept(e)
      /\ Len(entries') \in Nat /\ Len(entries') <= Len(entries)
  BY TouchedOK DEF Kept
<1>2. Len(entries) \in Nat /\ Len(entries) <= MaxKeys /\ MaxKeys \in Nat
  BY MemoryAssumption DEF EntriesInv
<1>3. Len(entries') <= MaxKeys
  BY <1>1, <1>2
<1>4. \A e \in ElementsOf(entries') : KeyOf[e.token] = e.key /\ nextExpiry' <= e.expiresAt
  BY <1>1 DEF EntriesInv
<1>5. EntriesInv'
  BY <1>1, <1>3, <1>4 DEF EntriesInv, OneEach, ElementsOf
<1> QED BY <1>1, <1>5

(* complete() of the claim that owns the key.                              *)
LEMMA CompleteStep ==
  ASSUME EntriesInv, NEW r \in Requests, Complete(r), Owns(r)
  PROVE  /\ EntriesInv'
         /\ ElementsOf(entries') = {d \in ElementsOf(entries) : d.key # KeyOf[r]} \cup {Fresh(r, TRUE, Ttl)}
<1>1. /\ entries \in Seq(Entry) /\ OneEach(entries) /\ Len(entries) <= MaxKeys /\ Len(entries) \in Nat
      /\ nextExpiry \in Nat /\ now \in Nat /\ held \subseteq Requests /\ Ttl \in Nat \ {0}
  BY MemoryAssumption DEF EntriesInv
<1>2. PICK new : new = Fresh(r, TRUE, Ttl)
  OBVIOUS
<1>3. new \in Entry /\ new.key = KeyOf[r] /\ new.token = r /\ new.expiresAt = now + Ttl
  <2>1. TRUE \in BOOLEAN
    OBVIOUS
  <2> QED BY <1>1, <1>2, <2>1, FreshOK
<1>4. /\ entries' = Put(entries, new) /\ nextExpiry' = LowerOf(new.expiresAt, nextExpiry)
      /\ held' = held \ {r} /\ now' = now
  BY <1>2 DEF Complete, Fresh
<1>5. Has(entries, new.key)
  <2>1. PICK e \in ElementsOf(entries) : e.key = KeyOf[r]
    BY OwnsOK
  <2>2. Has(entries, e.key)
    BY <1>1, GetOK
  <2> QED BY <1>3, <2>1, <2>2
<1>6. /\ entries' \in Seq(Entry) /\ OneEach(entries') /\ Len(entries') = Len(entries)
      /\ ElementsOf(entries') = {d \in ElementsOf(entries) : d.key # new.key} \cup {new}
  BY <1>1, <1>3, <1>4, <1>5, PutOK
<1>7. nextExpiry' \in Nat /\ nextExpiry' <= new.expiresAt /\ nextExpiry' <= nextExpiry
  <2>1. new.expiresAt \in Nat
    BY <1>3 DEF Entry
  <2> QED BY <1>1, <1>4, <2>1 DEF LowerOf
<1>8. ASSUME NEW e \in ElementsOf(entries) PROVE KeyOf[e.token] = e.key /\ nextExpiry' <= e.expiresAt
  <2>1. e \in Entry /\ KeyOf[e.token] = e.key /\ nextExpiry <= e.expiresAt
    BY <1>1, GetOK DEF EntriesInv
  <2>2. e.expiresAt \in Nat
    BY <2>1 DEF Entry
  <2> QED BY <1>1, <1>7, <2>1, <2>2
<1>9. \A e \in ElementsOf(entries') : KeyOf[e.token] = e.key /\ nextExpiry' <= e.expiresAt
  BY <1>3, <1>6, <1>7, <1>8
<1>10. EntriesInv'
  BY <1>1, <1>4, <1>6, <1>7, <1>9 DEF EntriesInv, OneEach, ElementsOf
<1> QED BY <1>2, <1>3, <1>6, <1>10

(* release() of the claim that owns the key.                               *)
LEMMA ReleaseStep ==
  ASSUME EntriesInv, NEW r \in Requests, Release(r), Owns(r)
  PROVE  /\ EntriesInv'
         /\ ElementsOf(entries') = {d \in ElementsOf(entries) : d.key # KeyOf[r]}
<1>1. /\ entries \in Seq(Entry) /\ OneEach(entries) /\ Len(entries) <= MaxKeys /\ Len(entries) \in Nat
      /\ MaxKeys \in Nat
  BY MemoryAssumption DEF EntriesInv
<1>2. entries' = Drop(entries, KeyOf[r]) /\ held' = held \ {r} /\ UNCHANGED <<nextExpiry, now>>
  BY DEF Release
<1>3. /\ entries' \in Seq(Entry) /\ OneEach(entries') /\ Len(entries') \in Nat /\ Len(entries') <= Len(entries)
      /\ ElementsOf(entries') = {d \in ElementsOf(entries) : d.key # KeyOf[r]}
  BY <1>1, <1>2, DropOK
<1>4. Len(entries') <= MaxKeys
  BY <1>1, <1>3
<1>5. \A e \in ElementsOf(entries') : KeyOf[e.token] = e.key /\ nextExpiry' <= e.expiresAt
  BY <1>2, <1>3 DEF EntriesInv
<1>6. EntriesInv'
  BY <1>2, <1>3, <1>4, <1>5 DEF EntriesInv, OneEach, ElementsOf
<1> QED BY <1>3, <1>6

(* Every step is one of these, or time that passes.                        *)
LEMMA MemorySteps ==
  ASSUME MemoryNext
  PROVE  \/ \E r \in Requests : Claim(r)
         \/ \E r \in Requests : Complete(r) /\ Owns(r)
         \/ \E r \in Requests : Release(r) /\ Owns(r)
         \/ \E k : entries' = Touched(k) /\ UNCHANGED <<nextExpiry, now>> /\ held' \subseteq held
         \/ MemoryTick
BY DEF MemoryNext, Complete, Release, Look

(* EntriesInv is inductive.                                                *)
LEMMA EntriesInductive == ASSUME EntriesInv, [MemoryNext]_memoryVars PROVE EntriesInv'
<1>1. CASE MemoryTick
  BY <1>1 DEF MemoryTick, EntriesInv, OneEach, ElementsOf
<1>2. CASE UNCHANGED memoryVars
  BY <1>2 DEF memoryVars, EntriesInv, OneEach, ElementsOf
<1> QED BY <1>1, <1>2, MemorySteps, ClaimStep, CompleteStep, ReleaseStep, LookStep

(* EntriesInv always holds.                                                *)
LEMMA EntriesAlways == MemorySpec => []EntriesInv
<1>1. MemoryInit => EntriesInv
  <2> SUFFICES ASSUME MemoryInit PROVE EntriesInv
    OBVIOUS
  <2>1. entries \in Seq(Entry) /\ Len(entries) = 0 /\ 1..Len(entries) = {}
    BY DEF MemoryInit
  <2>2. Infinity \in Nat
    BY MemoryAssumption DEF Infinity
  <2> QED BY <2>1, <2>2, MemoryAssumption DEF MemoryInit, EntriesInv, OneEach, ElementsOf
<1> QED BY <1>1, EntriesInductive, PTL DEF MemorySpec

(* Whatever is claimed, completed, released, read or expires, and however  *)
(* full the map is: it never outgrows maxKeys, and a live entry leaves it  *)
(* only with its own request or from a map full of live ones.              *)
THEOREM LiveEntriesAlwaysKept == MemorySpec => LiveEntriesKept
<1> DEFINE Keeps ==
      /\ Len(entries') <= MaxKeys
      /\ \A i \in DOMAIN entries :
           IsLive(entries[i]) /\ ~Has(entries', entries[i].key) =>
             \/ entries[i].token \in held \ held'
             \/ Len(entries) >= MaxKeys /\ \A j \in DOMAIN entries : IsLive(entries[j])
<1>1. ASSUME EntriesInv, EntriesInv', MemoryNext PROVE Keeps
  <2>1. /\ Len(entries') <= MaxKeys /\ entries' \in Seq(Entry) /\ OneEach(entries')
        /\ entries \in Seq(Entry) /\ OneEach(entries) /\ DOMAIN entries = 1..Len(entries)
    BY <1>1 DEF EntriesInv, OneEach
  <2>2. \A e \in ElementsOf(entries') : Has(entries', e.key)
    BY <2>1, GetOK
  <2> SUFFICES ASSUME NEW e \in ElementsOf(entries), IsLive(e), ~Has(entries', e.key)
               PROVE  \/ e.token \in held \ held'
                      \/ Len(entries) >= MaxKeys /\ \A d \in ElementsOf(entries) : IsLive(d)
    BY <2>1 DEF ElementsOf
  <2>3. e \notin ElementsOf(entries')
    BY <2>2
  <2>4. CASE \E r \in Requests : Claim(r)
    BY <1>1, <2>3, <2>4, ClaimStep DEF Kept
  <2>5. CASE \E r \in Requests : Complete(r) /\ Owns(r)
    <3>1. PICK r \in Requests : Complete(r) /\ Owns(r)
      BY <2>5
    <3>2. ElementsOf(entries') = {d \in ElementsOf(entries) : d.key # KeyOf[r]} \cup {Fresh(r, TRUE, Ttl)}
      BY <1>1, <3>1, CompleteStep
    <3>3. Fresh(r, TRUE, Ttl).key = KeyOf[r]
      BY DEF Fresh
    <3> QED BY <2>2, <2>3, <3>2, <3>3
  <2>6. CASE \E r \in Requests : Release(r) /\ Owns(r)
    <3>1. PICK r \in Requests : Release(r) /\ Owns(r)
      BY <2>6
    <3>2. e.key = KeyOf[r]
      BY <1>1, <2>3, <3>1, ReleaseStep
    <3>3. e.token = r
      <4>1. PICK d \in ElementsOf(entries) : d.key = KeyOf[r] /\ d.token = r
        BY <1>1, <3>1, OwnsOK
      <4> QED BY <2>1, <3>2, <4>1, GetOK
    <3> QED BY <3>1, <3>3 DEF Release
  <2>7. CASE \E k : entries' = Touched(k) /\ UNCHANGED <<nextExpiry, now>> /\ held' \subseteq held
    BY <1>1, <2>3, <2>7, LookStep DEF Kept
  <2>8. CASE MemoryTick
    BY <2>3, <2>8 DEF MemoryTick
  <2> QED BY <1>1, <2>4, <2>5, <2>6, <2>7, <2>8, MemorySteps
<1>2. EntriesInv /\ EntriesInv' /\ [MemoryNext]_memoryVars => [Keeps]_memoryVars
  BY <1>1
<1> QED BY <1>2, EntriesAlways, PTL DEF MemorySpec, LiveEntriesKept

-----------------------------------------------------------------------------
(* The record a guard sees of a key: the one of the key's live entry.      *)
RecordFor(e) ==
  [state |-> IF e.done THEN "done" ELSE "pending", token |-> e.token, print |-> PrintOf[e.token]]
NoRecord == [state |-> "none"]

View(es, t, k) ==
  IF Has(es, k) /\ Get(es, k).expiresAt > t THEN RecordFor(Get(es, k)) ELSE NoRecord

Shown(es, t, k) == {e \in ElementsOf(es) : e.key = k /\ e.expiresAt > t}

(* A key's record comes from its live entry, and there is none without.    *)
LEMMA ViewOK ==
  ASSUME NEW es \in Seq(Entry), OneEach(es), NEW t, NEW k
  PROVE  /\ \A e \in Shown(es, t, k) : View(es, t, k) = RecordFor(e)
         /\ Shown(es, t, k) = {} => View(es, t, k) = NoRecord
<1>1. ASSUME NEW e \in Shown(es, t, k) PROVE View(es, t, k) = RecordFor(e)
  <2>1. e \in ElementsOf(es) /\ e.key = k /\ e.expiresAt > t
    BY <1>1 DEF Shown
  <2>2. Has(es, k) /\ Get(es, k) = e
    BY <2>1, GetOK
  <2> QED BY <2>1, <2>2 DEF View
<1>2. ASSUME Shown(es, t, k) = {} PROVE View(es, t, k) = NoRecord
  <2>1. ~(Has(es, k) /\ Get(es, k).expiresAt > t)
    <3> SUFFICES ASSUME Has(es, k), Get(es, k).expiresAt > t PROVE FALSE
      OBVIOUS
    <3>1. Get(es, k) \in ElementsOf(es) /\ Get(es, k).key = k
      BY GetOK
    <3> QED BY <1>2, <3>1 DEF Shown
  <2> QED BY <2>1 DEF View
<1> QED BY <1>1, <1>2

(* A key that gains no live entry keeps its record or loses it, and one    *)
(* whose live entry stays keeps it.                                        *)
LEMMA ViewShrinks ==
  ASSUME NEW es \in Seq(Entry), OneEach(es), NEW ds \in Seq(Entry), OneEach(ds),
         NEW t, NEW u, NEW k, Shown(ds, u, k) \subseteq Shown(es, t, k)
  PROVE  /\ View(ds, u, k) \in {View(es, t, k), NoRecord}
         /\ Shown(es, t, k) \subseteq Shown(ds, u, k) => View(ds, u, k) = View(es, t, k)
<1>1. CASE Shown(ds, u, k) = {}
  <2>1. View(ds, u, k) = NoRecord
    BY <1>1, ViewOK
  <2>2. Shown(es, t, k) \subseteq Shown(ds, u, k) => View(es, t, k) = NoRecord
    BY <1>1, ViewOK
  <2> QED BY <2>1, <2>2
<1>2. CASE Shown(ds, u, k) # {}
  <2>1. PICK e : e \in Shown(ds, u, k) /\ e \in Shown(es, t, k)
    BY <1>2
  <2>2. View(ds, u, k) = RecordFor(e) /\ View(es, t, k) = RecordFor(e)
    BY <2>1, ViewOK
  <2> QED BY <2>2
<1> QED BY <1>1, <1>2

(* The refinement mapping, before and after a step.                        *)
LEMMA RecordOfOK ==
  /\ recordOf = [k \in Keys |-> View(entries, now, k)]
  /\ recordOf' = [k \in Keys |-> View(entries', now', k)]
  /\ Abstract!None = NoRecord
  /\ \A r : Abstract!Pending(r) = [state |-> "pending", token |-> r, print |-> PrintOf[r]]
  /\ \A r : Abstract!Done(r) = [state |-> "done", token |-> r, print |-> PrintOf[r]]
BY DEF recordOf, View, RecordFor, NoRecord, IsLive, Abstract!None, Abstract!Pending, Abstract!Done

(* A step that only makes records disappear is the abstract Forget.        *)
LEMMA OnlyForgets ==
  ASSUME \A k \in Keys : View(entries', now', k) \in {View(entries, now, k), NoRecord}
  PROVE  [Abstract!Next]_recordOf
<1> DEFINE gone == {k \in Keys : View(entries', now', k) # View(entries, now, k)}
<1>1. CASE gone = {}
  BY <1>1, RecordOfOK
<1>2. CASE gone # {}
  <2>1. recordOf' = [k \in Keys |-> IF k \in gone THEN Abstract!None ELSE recordOf[k]]
    BY RecordOfOK
  <2>2. gone \in SUBSET Keys
    OBVIOUS
  <2> HIDE DEF gone
  <2>3. Abstract!Forget(gone)
    BY <1>2, <2>1 DEF Abstract!Forget
  <2> QED BY <2>2, <2>3 DEF Abstract!Next
<1> QED BY <1>1, <1>2

(* claim(): the key had no record; it has this claim's, and room was made  *)
(* only by forgetting.                                                     *)
LEMMA ClaimImplements ==
  ASSUME EntriesInv, EntriesInv', NEW r \in Requests, Claim(r)
  PROVE  Abstract!Next
<1>1. /\ entries \in Seq(Entry) /\ OneEach(entries) /\ entries' \in Seq(Entry) /\ OneEach(entries')
      /\ now \in Nat /\ now' = now /\ Lease \in Nat \ {0} /\ KeyOf[r] \in Keys
  BY MemoryAssumption DEF EntriesInv, OneEach, Claim
<1>2. PICK new : new = Fresh(r, FALSE, Lease)
  OBVIOUS
<1>3. new.key = KeyOf[r] /\ new.token = r /\ new.done = FALSE /\ new.expiresAt > now
  BY <1>1, <1>2 DEF Fresh
<1>4. /\ \A e \in ElementsOf(entries) : e.key = KeyOf[r] => ~IsLive(e)
      /\ new \in ElementsOf(entries')
      /\ \A e \in ElementsOf(entries') : e = new \/ (e \in ElementsOf(entries) /\ e.key # KeyOf[r])
  BY <1>2, ClaimStep DEF Kept
<1>5. View(entries, now, KeyOf[r]) = NoRecord
  <2>1. Shown(entries, now, KeyOf[r]) = {}
    BY <1>4 DEF Shown, IsLive
  <2> QED BY <1>1, <2>1, ViewOK
<1>6. View(entries', now', KeyOf[r]) = Abstract!Pending(r)
  <2>1. new \in Shown(entries', now', KeyOf[r])
    BY <1>1, <1>3, <1>4 DEF Shown
  <2>2. View(entries', now', KeyOf[r]) = RecordFor(new)
    BY <1>1, <2>1, ViewOK
  <2> QED BY <1>3, <2>2, RecordOfOK DEF RecordFor
<1>7. ASSUME NEW k \in Keys, k # KeyOf[r]
      PROVE  View(entries', now', k) \in {View(entries, now, k), NoRecord}
  <2>1. Shown(entries', now', k) \subseteq Shown(entries, now, k)
    BY <1>1, <1>3, <1>4, <1>7 DEF Shown
  <2> QED BY <1>1, <2>1, ViewShrinks
<1> DEFINE lost == {k \in Keys : View(entries', now', k) # View(entries, now, k)}
<1>8. recordOf[KeyOf[r]] = Abstract!None
  BY <1>1, <1>5, RecordOfOK
<1>9. recordOf' = [k \in Keys |-> IF k = KeyOf[r] THEN Abstract!Pending(r)
                                  ELSE IF k \in lost THEN Abstract!None ELSE recordOf[k]]
  <2>1. \A k \in Keys : View(entries', now', k) =
          IF k = KeyOf[r] THEN Abstract!Pending(r)
          ELSE IF k \in lost THEN Abstract!None ELSE recordOf[k]
    BY <1>6, <1>7, RecordOfOK
  <2> HIDE DEF lost
  <2> QED BY <2>1, RecordOfOK
<1>10. lost \in SUBSET Keys
  OBVIOUS
<1> HIDE DEF lost
<1>11. Abstract!Claim(r, lost)
  BY <1>8, <1>9 DEF Abstract!Claim
<1> QED BY <1>10, <1>11 DEF Abstract!Next

(* complete() and release() of the claim that owns the key: the key shows  *)
(* that claim, and its record is all that changes.                         *)
LEMMA OwnerImplements ==
  ASSUME EntriesInv, EntriesInv', NEW r \in Requests, Owns(r), Complete(r) \/ Release(r)
  PROVE  Abstract!Next
<1>1. /\ entries \in Seq(Entry) /\ OneEach(entries) /\ entries' \in Seq(Entry) /\ OneEach(entries')
      /\ now \in Nat /\ now' = now /\ Ttl \in Nat \ {0} /\ KeyOf[r] \in Keys
  BY MemoryAssumption DEF EntriesInv, OneEach, Complete, Release
<1>2. View(entries, now, KeyOf[r]) = Abstract!Pending(r)
  <2>1. PICK e \in ElementsOf(entries) : e.key = KeyOf[r] /\ e.token = r /\ e.done = FALSE /\ IsLive(e)
    BY OwnsOK
  <2>2. e \in Shown(entries, now, KeyOf[r])
    BY <2>1 DEF Shown, IsLive
  <2>3. View(entries, now, KeyOf[r]) = RecordFor(e)
    BY <1>1, <2>2, ViewOK
  <2> QED BY <2>1, <2>3, RecordOfOK DEF RecordFor
<1>3. Abstract!Holds(r)
  BY <1>1, <1>2, RecordOfOK DEF Abstract!Holds
<1>4. ASSUME \A k \in Keys : k # KeyOf[r] => Shown(entries', now', k) = Shown(entries, now, k)
      PROVE  recordOf' = [recordOf EXCEPT ![KeyOf[r]] = View(entries', now', KeyOf[r])]
  <2>1. ASSUME NEW k \in Keys, k # KeyOf[r] PROVE View(entries', now', k) = View(entries, now, k)
    BY <1>1, <1>4, <2>1, ViewShrinks
  <2> QED BY <1>1, <2>1, RecordOfOK
<1>5. CASE Complete(r)
  <2>1. PICK new : new = Fresh(r, TRUE, Ttl)
    OBVIOUS
  <2>2. new.key = KeyOf[r] /\ new.token = r /\ new.done = TRUE /\ new.expiresAt > now
    BY <1>1, <2>1 DEF Fresh
  <2>3. ElementsOf(entries') = {d \in ElementsOf(entries) : d.key # KeyOf[r]} \cup {new}
    BY <1>5, <2>1, CompleteStep
  <2>4. \A k \in Keys : k # KeyOf[r] => Shown(entries', now', k) = Shown(entries, now, k)
    BY <1>1, <2>2, <2>3 DEF Shown
  <2>5. new \in Shown(entries', now', KeyOf[r])
    BY <1>1, <2>2, <2>3 DEF Shown
  <2>6. View(entries', now', KeyOf[r]) = RecordFor(new)
    BY <1>1, <2>5, ViewOK
  <2>7. RecordFor(new) = Abstract!Done(r)
    BY <2>2, RecordOfOK DEF RecordFor
  <2>8. Abstract!Complete(r)
    BY <1>3, <1>4, <2>4, <2>6, <2>7 DEF Abstract!Complete
  <2> QED BY <2>8 DEF Abstract!Next
<1>6. CASE Release(r)
  <2>1. ElementsOf(entries') = {d \in ElementsOf(entries) : d.key # KeyOf[r]}
    BY <1>6, ReleaseStep
  <2>2. \A k \in Keys : k # KeyOf[r] => Shown(entries', now', k) = Shown(entries, now, k)
    BY <1>1, <2>1 DEF Shown
  <2>3. Shown(entries', now', KeyOf[r]) = {}
    BY <2>1 DEF Shown
  <2>4. View(entries', now', KeyOf[r]) = NoRecord
    BY <1>1, <2>3, ViewOK
  <2>5. Abstract!Release(r)
    BY <1>3, <1>4, <2>2, <2>4, RecordOfOK DEF Abstract!Release
  <2> QED BY <2>5 DEF Abstract!Next
<1> QED BY <1>5, <1>6

(* The in-process map, with its lazy expiry, its sweep and its eviction,   *)
(* is an IdempotencyStore: every step of it is a claim of a free key, a    *)
(* completion or release by the key's own claim, records that disappear,   *)
(* or nothing a guard can see.                                             *)
THEOREM MemoryImplementsStore == MemorySpec => ImplementsStore
<1>1. MemoryInit => Abstract!Init
  <2> SUFFICES ASSUME MemoryInit PROVE Abstract!Init
    OBVIOUS
  <2>1. \A k : ~Has(entries, k)
    BY DEF MemoryInit, Has
  <2> QED BY <2>1, RecordOfOK DEF View, Abstract!Init
<1>2. ASSUME EntriesInv, EntriesInv', [MemoryNext]_memoryVars PROVE [Abstract!Next]_recordOf
  <2>1. /\ entries \in Seq(Entry) /\ OneEach(entries) /\ entries' \in Seq(Entry) /\ OneEach(entries')
        /\ now \in Nat
    BY <1>2 DEF EntriesInv, OneEach
  <2>2. ASSUME ElementsOf(entries') \subseteq ElementsOf(entries), now' \in Nat, now <= now'
        PROVE  [Abstract!Next]_recordOf
    <3>1. ASSUME NEW k \in Keys
          PROVE  View(entries', now', k) \in {View(entries, now, k), NoRecord}
      <4>1. ASSUME NEW e \in ElementsOf(entries'), e.expiresAt > now'
            PROVE  e \in ElementsOf(entries) /\ e.expiresAt > now
        <5>1. e \in Entry
          BY <2>1, GetOK
        <5>2. e.expiresAt \in Nat
          BY <5>1 DEF Entry
        <5> QED BY <2>1, <2>2, <4>1, <5>2
      <4>2. Shown(entries', now', k) \subseteq Shown(entries, now, k)
        BY <4>1 DEF Shown
      <4> QED BY <2>1, <4>2, ViewShrinks
    <3> QED BY <3>1, OnlyForgets
  <2>3. CASE \E r \in Requests : Claim(r)
    BY <1>2, <2>3, ClaimImplements
  <2>4. CASE \E r \in Requests : Owns(r) /\ (Complete(r) \/ Release(r))
    BY <1>2, <2>4, OwnerImplements
  <2>5. CASE \E k : entries' = Touched(k) /\ UNCHANGED <<nextExpiry, now>> /\ held' \subseteq held
    <3>1. ElementsOf(entries') \subseteq ElementsOf(entries) /\ now' = now
      BY <1>2, <2>5, LookStep
    <3> QED BY <2>1, <2>2, <3>1
  <2>6. CASE MemoryTick
    BY <2>1, <2>2, <2>6 DEF MemoryTick
  <2>7. CASE UNCHANGED memoryVars
    BY <2>1, <2>2, <2>7 DEF memoryVars
  <2> QED BY <1>2, <2>3, <2>4, <2>5, <2>6, <2>7, MemorySteps
<1> QED BY <1>1, <1>2, EntriesAlways, PTL DEF MemorySpec, ImplementsStore, Abstract!Spec

-----------------------------------------------------------------------------
(* Transactions on one SQLite connection, while no request calls during    *)
(* another's callback.  The open calls are a stack: one per depth, each    *)
(* the parent of the next, each with its BEGIN or savepoint.               *)
SqlFrame == [level : Nat, rows : SUBSET Calls]

TxTypes ==
  /\ depth \in Nat /\ chain \in Seq(Calls)
  /\ stage \in [Calls -> {"idle", "queued", "open", "done"}] /\ level \in [Calls -> Nat]
  /\ result \in [Calls -> {"none", "resolved", "rejected"}]
  /\ frames \in Seq(SqlFrame)
  /\ committed \subseteq Calls /\ wrote \subseteq Calls

OpenStack ==
  /\ \A t \in Open : level[t] < depth
  /\ \A t, u \in Open : level[t] = level[u] => t = u
  /\ \A n \in Nat : n < depth => \E t \in Open : level[t] = n
  /\ \A t \in Open :
       IF Parent[t] = NoParent THEN level[t] = 0
       ELSE Parent[t] \in Open /\ level[t] = level[Parent[t]] + 1

FrameEach == Len(frames) = depth /\ \A i \in 1..depth : frames[i].level + 1 = i

(* The chain holds requests' own calls, and its head is the one that runs. *)
HeadRuns ==
  /\ \A i \in 1..Len(chain) : Parent[chain[i]] = NoParent
  /\ depth > 0 => chain # <<>> /\ stage[Head(chain)] = "open"

Unsettled == \A t \in Calls : stage[t] # "done" => result[t] = "none"

KnownAncestors == \A t \in Calls : t \in Open \/ t \in wrote => Ancestors[t] \subseteq Calls

(* Where a written row is.  In the frame of an open call, which is around  *)
(* its writer, and all between the two resolved; durable, and all around   *)
(* it resolved; or gone, and one around it rejected.                       *)
RowHeld(u) ==
  \A t \in Open : u \in frames[level[t] + 1].rows =>
    /\ Ancestors[t] \subseteq Ancestors[u]
    /\ \A a \in Ancestors[u] : a \in Ancestors[t] \/ result[a] = "resolved"
InFrame(u) == \E t \in Open : u \in frames[level[t] + 1].rows
RowPlaced(u) ==
  /\ RowHeld(u)
  /\ u \in committed => \A a \in Ancestors[u] : result[a] = "resolved"
  /\ u \in committed \/ InFrame(u) \/ \E a \in Ancestors[u] : result[a] = "rejected"

OnlyWritten == committed \subseteq wrote /\ \A i \in 1..depth : frames[i].rows \subseteq wrote

TxInv ==
  /\ TxTypes /\ OpenStack /\ FrameEach /\ HeadRuns /\ Unsettled /\ KnownAncestors /\ OnlyWritten
  /\ \A u \in wrote : RowPlaced(u)

(* The calls around a call satisfy the equation that defines them, and so  *)
(* a call is among them and its parent's are too.                          *)
LEMMA AncestorsOK ==
  ASSUME NEW t \in Calls
  PROVE  /\ Ancestors[t] = {t} \cup (IF Parent[t] = NoParent THEN {} ELSE Ancestors[Parent[t]])
         /\ Parent[t] \in Calls \/ Parent[t] = NoParent
<1> DEFINE Closed(S) == \A u \in S : Parent[u] = NoParent \/ Parent[u] \in S
           Up(u) == {a \in Calls : \A S \in SUBSET Calls : u \in S /\ Closed(S) => a \in S}
           f == [u \in Calls |-> Up(u)]
<1>1. \A u \in Calls : Parent[u] \in Calls \/ Parent[u] = NoParent
  BY TransactionAssumption
<1>2. ASSUME NEW u \in Calls
      PROVE  Up(u) = {u} \cup (IF Parent[u] = NoParent THEN {} ELSE Up(Parent[u]))
  <2>1. u \in Up(u)
    OBVIOUS
  <2>2. CASE Parent[u] = NoParent
    <3>1. {u} \in SUBSET Calls /\ Closed({u})
      BY <2>2
    <3>2. \A a \in Up(u) : a \in {u}
      BY <3>1
    <3> QED BY <2>1, <2>2, <3>2
  <2>3. CASE Parent[u] # NoParent
    <3>1. Parent[u] \in Calls
      BY <1>1, <2>3
    <3>2. Up(Parent[u]) \subseteq Up(u)
      BY <2>3
    <3>3. PICK S : S = {u} \cup Up(Parent[u])
      OBVIOUS
    <3>4. S \in SUBSET Calls /\ Parent[u] \in S
      BY <3>1, <3>3
    <3>5. \A a \in Up(Parent[u]) : Parent[a] = NoParent \/ Parent[a] \in Up(Parent[u])
      BY <1>1
    <3>6. Closed(S)
      BY <3>3, <3>4, <3>5
    <3>7. u \in S
      BY <3>3
    <3>8. \A a \in Up(u) : a \in S
      BY <3>4, <3>6, <3>7
    <3> QED BY <2>1, <2>3, <3>2, <3>3, <3>8
  <2> QED BY <2>2, <2>3
<1> HIDE DEF Up
<1>3. f = [u \in Calls |-> {u} \cup (IF Parent[u] = NoParent THEN {} ELSE f[Parent[u]])]
  BY <1>1, <1>2
<1> HIDE DEF f
<1>4. Ancestors = [u \in Calls |-> {u} \cup (IF Parent[u] = NoParent THEN {} ELSE Ancestors[Parent[u]])]
  BY <1>3 DEF Ancestors
<1> QED BY <1>1, <1>4

(* A call that runs with no nested one open is the top of the stack, and   *)
(* SQLite's last frame is its own.                                         *)
LEMMA TopOfStack ==
  ASSUME TxInv, NEW t \in Open, ~ChildrenOpen(t)
  PROVE  /\ level[t] + 1 = depth /\ t \in Calls /\ stage[t] = "open" /\ level[t] \in Nat
         /\ Named(level[t]) = {depth} /\ Innermost(level[t]) = depth
         /\ level[t] = 0 <=> Parent[t] = NoParent
<1>1. t \in Calls /\ stage[t] = "open" /\ level[t] \in Nat /\ depth \in Nat
  BY DEF Open, TxInv, TxTypes
<1>2. level[t] < depth
  BY DEF TxInv, OpenStack
<1>3. level[t] + 1 = depth
  <2> SUFFICES ASSUME level[t] + 1 < depth PROVE FALSE
    BY <1>1, <1>2
  <2>1. PICK n \in Open : level[n] = level[t] + 1
    BY <1>1 DEF TxInv, OpenStack
  <2>2. Parent[n] \in Open /\ level[n] = level[Parent[n]] + 1
    BY <1>1, <2>1 DEF TxInv, OpenStack
  <2>3. level[Parent[n]] \in Nat
    BY <2>2 DEF Open, TxInv, TxTypes
  <2>4. level[Parent[n]] = level[t]
    BY <1>1, <2>1, <2>2, <2>3
  <2>5. Parent[n] = t
    BY <2>2, <2>4 DEF TxInv, OpenStack
  <2> QED BY <2>1, <2>5 DEF ChildrenOpen
<1>4. Named(level[t]) = {depth}
  <2>1. frames \in Seq(SqlFrame) /\ Len(frames) = depth
    BY DEF TxInv, FrameEach, TxTypes
  <2>2. DOMAIN frames = 1..depth /\ \A i \in 1..depth : frames[i] \in SqlFrame
    BY <2>1
  <2>3. \A i \in 1..depth : frames[i].level \in Nat /\ frames[i].level + 1 = i
    BY <2>2 DEF TxInv, FrameEach, SqlFrame
  <2> QED BY <1>1, <1>3, <2>2, <2>3 DEF Named
<1>5. Innermost(level[t]) = depth
  BY <1>1, <1>4 DEF Innermost
<1>6. level[t] = 0 <=> Parent[t] = NoParent
  <2>1. Parent[t] # NoParent => level[t] # 0
    <3> SUFFICES ASSUME Parent[t] # NoParent PROVE level[t] # 0
      OBVIOUS
    <3>1. Parent[t] \in Open /\ level[t] = level[Parent[t]] + 1
      BY DEF TxInv, OpenStack
    <3>2. level[Parent[t]] \in Nat
      BY <3>1 DEF Open, TxInv, TxTypes
    <3> QED BY <3>1, <3>2
  <2> QED BY <2>1 DEF TxInv, OpenStack
<1> QED BY <1>1, <1>3, <1>4, <1>5, <1>6

(* SQLite's frames, one for each level of the depth.                       *)
LEMMA FramesOK ==
  ASSUME TxInv
  PROVE  /\ frames \in Seq(SqlFrame) /\ Len(frames) = depth /\ depth \in Nat /\ DOMAIN frames = 1..depth
         /\ \A i \in 1..depth : frames[i] \in SqlFrame /\ frames[i].rows \subseteq Calls
         /\ \A t \in Open : /\ t \in Calls /\ stage[t] = "open" /\ result[t] = "none"
                            /\ level[t] \in Nat /\ level[t] + 1 \in 1..depth
<1>1. frames \in Seq(SqlFrame) /\ Len(frames) = depth /\ depth \in Nat
  BY DEF TxInv, FrameEach, TxTypes
<1>2. DOMAIN frames = 1..depth /\ \A i \in 1..depth : frames[i] \in SqlFrame
  BY <1>1
<1>3. \A i \in 1..depth : frames[i].rows \subseteq Calls
  BY <1>2 DEF SqlFrame
<1>4. \A t \in Open : t \in Calls /\ stage[t] = "open" /\ level[t] \in Nat /\ level[t] < depth
  BY DEF Open, TxInv, TxTypes, OpenStack
<1>5. \A t \in Open : result[t] = "none"
  BY <1>4 DEF TxInv, Unsettled
<1> QED BY <1>1, <1>2, <1>3, <1>4, <1>5

(* A call that begins goes on top of the stack, with a frame of its own.   *)
LEMMA OpensStep ==
  ASSUME TxInv, NEW t \in Calls, stage[t] \in {"idle", "queued"},
         depth' = depth + 1, level' = [level EXCEPT ![t] = depth],
         frames' = Append(frames, Frame(depth)), stage' = [stage EXCEPT ![t] = "open"],
         UNCHANGED <<chain, result, committed, wrote>>,
         \/ depth = 0 /\ Parent[t] = NoParent /\ chain # <<>> /\ Head(chain) = t
         \/ Parent[t] \in Open /\ ~ChildrenOpen(Parent[t])
  PROVE  TxInv'
<1>1. TxTypes /\ OpenStack /\ FrameEach /\ HeadRuns /\ Unsettled /\ KnownAncestors
  BY DEF TxInv
<1>2. Open' = Open \cup {t} /\ t \notin Open
  BY <1>1 DEF Open, TxTypes
<1>3. level'[t] = depth /\ \A u \in Open : u # t /\ level'[u] = level[u]
  BY <1>1, <1>2, FramesOK DEF TxTypes
<1>4. depth \in Nat /\ depth' = depth + 1 /\ Frame(depth) \in SqlFrame /\ Frame(depth).rows = {}
      /\ Frame(depth).level = depth
  BY <1>1 DEF TxTypes, Frame, SqlFrame
<1>5. /\ frames' \in Seq(SqlFrame) /\ Len(frames') = depth + 1 /\ frames'[depth + 1] = Frame(depth)
      /\ \A i \in 1..depth : frames'[i] = frames[i]
  <2>1. PICK x \in SqlFrame : x = Frame(depth)
    BY <1>4
  <2>2. frames' = Append(frames, x)
    BY <2>1
  <2> QED BY <2>1, <2>2, FramesOK
<1>6. TxTypes'
  <2>1. stage' \in [Calls -> {"idle", "queued", "open", "done"}] /\ level' \in [Calls -> Nat]
    BY <1>1, <1>4 DEF TxTypes
  <2> QED BY <1>1, <1>4, <1>5, <2>1 DEF TxTypes
<1>7. Parent[t] \in Open => level[Parent[t]] + 1 = depth /\ Parent[t] # t /\ Parent[t] # NoParent
  <2> SUFFICES ASSUME Parent[t] \in Open
               PROVE  level[Parent[t]] + 1 = depth /\ Parent[t] # t /\ Parent[t] # NoParent
    OBVIOUS
  <2>1. Parent[t] \in Calls /\ Parent[t] # t
    BY <1>2, FramesOK
  <2>2. Parent[t] # NoParent
    BY <2>1, TransactionAssumption
  <2>3. ~ChildrenOpen(Parent[t])
    <3>1. depth # 0
      BY <1>4, FramesOK
    <3> QED BY <3>1
  <2> QED BY <2>1, <2>2, <2>3, TopOfStack
<1>8. OpenStack'
  <2>1. \A u \in Open' : level'[u] < depth'
    BY <1>1, <1>2, <1>3, <1>4, FramesOK DEF OpenStack
  <2>2. \A u \in Open : level'[u] # depth
    BY <1>3, <1>4, FramesOK
  <2>3. \A u, v \in Open' : level'[u] = level'[v] => u = v
    BY <1>1, <1>2, <1>3, <2>2 DEF OpenStack
  <2>4. ASSUME NEW n \in Nat, n < depth' PROVE \E u \in Open' : level'[u] = n
    <3>1. n < depth \/ n = depth
      BY <1>4, <2>4
    <3> QED BY <1>1, <1>2, <1>3, <3>1 DEF OpenStack
  <2>5. ASSUME NEW u \in Open'
        PROVE  IF Parent[u] = NoParent THEN level'[u] = 0
               ELSE Parent[u] \in Open' /\ level'[u] = level'[Parent[u]] + 1
    <3>1. CASE u \in Open
      BY <1>1, <1>2, <1>3, <3>1 DEF OpenStack
    <3>2. CASE u = t
      BY <1>2, <1>3, <1>7, <3>2
    <3> QED BY <1>2, <3>1, <3>2
  <2> QED BY <2>1, <2>3, <2>4, <2>5 DEF OpenStack
<1>9. FrameEach'
  <2>1. \A i \in 1..depth' : i \in 1..depth \/ i = depth + 1
    BY <1>4
  <2>2. \A i \in 1..depth' : frames'[i].level + 1 = i
    BY <1>1, <1>4, <1>5, <2>1 DEF FrameEach
  <2> QED BY <1>5, <2>2 DEF FrameEach
<1>10. HeadRuns'
  <2>1. chain # <<>> /\ (Head(chain) = t \/ stage[Head(chain)] = "open")
    <3>1. Parent[t] \in Open => depth > 0
      BY <1>4, FramesOK
    <3> QED BY <1>1, <3>1 DEF HeadRuns
  <2>2. Head(chain) \in Calls
    BY <1>1, <2>1 DEF TxTypes
  <2>3. stage'[Head(chain)] = "open"
    BY <1>1, <2>1, <2>2 DEF TxTypes
  <2> QED BY <1>1, <2>1, <2>3 DEF HeadRuns
<1>11. Unsettled'
  BY <1>1 DEF Unsettled, TxTypes
<1>12. KnownAncestors'
  <2>1. Ancestors[t] \subseteq Calls
    <3>1. CASE Parent[t] = NoParent
      BY <3>1, AncestorsOK
    <3>2. CASE Parent[t] \in Open
      <4>1. Ancestors[Parent[t]] \subseteq Calls
        BY <1>1, <3>2, FramesOK DEF KnownAncestors
      <4> QED BY <4>1, AncestorsOK
    <3> QED BY <3>1, <3>2
  <2> QED BY <1>1, <1>2, <2>1 DEF KnownAncestors
<1>13. ASSUME NEW u \in wrote' PROVE RowPlaced(u)'
  <2>1. RowPlaced(u)
    BY <1>13 DEF TxInv
  <2>2. \A s \in Open : frames'[level'[s] + 1] = frames[level[s] + 1]
    BY <1>3, <1>5, FramesOK
  <2>3. u \notin frames'[level'[t] + 1].rows
    BY <1>3, <1>4, <1>5
  <2>4. RowHeld(u)'
    BY <1>2, <2>1, <2>2, <2>3 DEF RowPlaced, RowHeld
  <2>5. InFrame(u) => InFrame(u)'
    BY <1>2, <2>2 DEF InFrame
  <2> QED BY <2>1, <2>4, <2>5 DEF RowPlaced
<1>14. OnlyWritten'
  <2>1. OnlyWritten
    BY DEF TxInv
  <2>2. \A i \in 1..depth' : i \in 1..depth \/ i = depth + 1
    BY <1>4
  <2> QED BY <1>4, <1>5, <2>1, <2>2 DEF OnlyWritten
<1> QED BY <1>6, <1>8, <1>9, <1>10, <1>11, <1>12, <1>13, <1>14 DEF TxInv

(* The chain after its head, or a call that is not on it, settled.         *)
LEMMA ChainOK ==
  ASSUME TxInv, NEW t, chain' = IF chain # <<>> /\ Head(chain) = t THEN Tail(chain) ELSE chain
  PROVE  chain' \in Seq(Calls) /\ \A i \in 1..Len(chain') : Parent[chain'[i]] = NoParent
<1>1. chain \in Seq(Calls) /\ \A i \in 1..Len(chain) : Parent[chain[i]] = NoParent
  BY DEF TxInv, TxTypes, HeadRuns
<1>2. CASE chain # <<>> /\ Head(chain) = t
  <2>1. PICK c : c = Tail(chain)
    OBVIOUS
  <2>2. c \in Seq(Calls) /\ Len(c) = Len(chain) - 1 /\ \A i \in 1..Len(c) : c[i] = chain[i + 1]
    BY <1>1, <1>2, <2>1
  <2>3. \A i \in 1..Len(c) : i + 1 \in 1..Len(chain)
    BY <1>1, <2>2
  <2>4. chain' = c
    BY <1>2, <2>1
  <2> QED BY <1>1, <2>2, <2>3, <2>4
<1>3. CASE ~(chain # <<>> /\ Head(chain) = t)
  BY <1>1, <1>3
<1> QED BY <1>2, <1>3

(* A call that settles leaves every settled result around a row alone.     *)
LEMMA SettledKept ==
  ASSUME TxInv, NEW t \in Calls, result[t] = "none", NEW how, result' = [result EXCEPT ![t] = how]
  PROVE  \A u \in wrote : \A a \in Ancestors[u] : result[a] # "none" => result'[a] = result[a]
<1>1. \A u \in wrote : Ancestors[u] \subseteq Calls
  BY DEF TxInv, KnownAncestors, TxTypes
<1> QED BY <1>1 DEF TxInv, TxTypes

(* With the depth at 0 nothing is open.                                    *)
LEMMA NothingOpen == ASSUME TxInv, depth = 0 PROVE Open = {} /\ frames = <<>>
<1>1. Open = {}
  BY FramesOK
<1>2. frames = <<>>
  BY FramesOK
<1> QED BY <1>1, <1>2

(* A transaction that fails to begin rejects, and nothing else happens.    *)
LEMMA BeginFails ==
  ASSUME TxInv, NEW t \in Calls, stage[t] = "queued", depth = 0, BeginThrows(t),
         UNCHANGED <<committed, wrote>>
  PROVE  TxInv'
<1>1. TxTypes /\ OpenStack /\ FrameEach /\ HeadRuns /\ Unsettled /\ KnownAncestors
  BY DEF TxInv
<1>2. /\ stage' = [stage EXCEPT ![t] = "done"] /\ result' = [result EXCEPT ![t] = "rejected"]
      /\ chain' = IF chain # <<>> /\ Head(chain) = t THEN Tail(chain) ELSE chain
      /\ UNCHANGED <<depth, level, frames, committed, wrote>>
  BY DEF BeginThrows, Ends
<1>3. Open = {} /\ Open' = {}
  BY <1>1, <1>2, NothingOpen DEF Open, TxTypes
<1>4. result[t] = "none"
  BY <1>1 DEF Unsettled
<1>5. TxTypes'
  <2>1. chain' \in Seq(Calls)
    BY <1>2, ChainOK
  <2> QED BY <1>1, <1>2, <2>1 DEF TxTypes
<1>6. OpenStack' /\ FrameEach' /\ KnownAncestors'
  BY <1>1, <1>2, <1>3 DEF OpenStack, FrameEach, KnownAncestors, TxTypes
<1>7. HeadRuns'
  BY <1>2, ChainOK DEF HeadRuns
<1>8. Unsettled'
  BY <1>1, <1>2 DEF Unsettled, TxTypes
<1>9. ASSUME NEW u \in wrote' PROVE RowPlaced(u)'
  <2>1. RowPlaced(u) /\ u \in wrote
    BY <1>2, <1>9 DEF TxInv
  <2>2. \A a \in Ancestors[u] : result[a] # "none" => result'[a] = result[a]
    BY <1>2, <1>4, <2>1, SettledKept
  <2> QED BY <1>2, <1>3, <2>1, <2>2 DEF RowPlaced, RowHeld, InFrame
<1>10. OnlyWritten'
  BY <1>2 DEF TxInv, OnlyWritten
<1> QED BY <1>5, <1>6, <1>7, <1>8, <1>9, <1>10 DEF TxInv

(* A request's own call waits its turn.                                    *)
LEMMA QueuedStep == ASSUME TxInv, NEW t \in Calls, CallQueued(t) PROVE TxInv'
<1>1. TxTypes /\ OpenStack /\ FrameEach /\ HeadRuns /\ Unsettled /\ KnownAncestors
  BY DEF TxInv
<1>2. /\ stage[t] = "idle" /\ depth = 0 /\ stage' = [stage EXCEPT ![t] = "queued"] /\ chain' = Append(chain, t)
      /\ UNCHANGED <<depth, level, frames, committed, wrote, result>>
  BY DEF CallQueued, MayCall
<1>3. Open = {} /\ Open' = {}
  BY <1>1, <1>2, NothingOpen DEF Open, TxTypes
<1>4. Parent[t] = NoParent
  <2> SUFFICES ASSUME Parent[t] # NoParent PROVE FALSE
    OBVIOUS
  <2>1. stage[Parent[t]] = "open" /\ Parent[t] \in Calls
    BY AncestorsOK DEF CallQueued, MayCall
  <2> QED BY <1>3, <2>1 DEF Open
<1>5. chain' \in Seq(Calls) /\ \A i \in 1..Len(chain') : Parent[chain'[i]] = NoParent
  <2>1. chain \in Seq(Calls)
    BY <1>1 DEF TxTypes
  <2>2. /\ chain' \in Seq(Calls) /\ Len(chain') = Len(chain) + 1 /\ Len(chain) \in Nat
        /\ \A i \in 1..Len(chain) : chain'[i] = chain[i]
        /\ chain'[Len(chain) + 1] = t
    BY <1>2, <2>1, ElementsAppended
  <2>3. \A i \in 1..Len(chain') : i \in 1..Len(chain) \/ i = Len(chain) + 1
    BY <2>2
  <2> QED BY <1>1, <1>4, <2>2, <2>3 DEF HeadRuns
<1>6. TxTypes'
  BY <1>1, <1>2, <1>5 DEF TxTypes
<1>7. OpenStack' /\ FrameEach' /\ KnownAncestors'
  BY <1>1, <1>2, <1>3 DEF OpenStack, FrameEach, KnownAncestors, TxTypes
<1>8. HeadRuns'
  BY <1>2, <1>5 DEF HeadRuns
<1>9. Unsettled'
  BY <1>1, <1>2 DEF Unsettled, TxTypes
<1>10. \A u \in wrote' : RowPlaced(u)'
  <2>1. \A u \in wrote' : RowPlaced(u)
    BY <1>2 DEF TxInv
  <2> QED BY <1>2, <1>3, <2>1 DEF RowPlaced, RowHeld, InFrame
<1>11. OnlyWritten'
  BY <1>2 DEF TxInv, OnlyWritten
<1> QED BY <1>6, <1>7, <1>8, <1>9, <1>10, <1>11 DEF TxInv

(* A write lands in the frame of the call that writes.                     *)
LEMMA WriteStep == ASSUME TxInv, NEW t \in Calls, Write(t) PROVE TxInv'
<1>1. TxTypes /\ OpenStack /\ FrameEach /\ HeadRuns /\ Unsettled /\ KnownAncestors
  BY DEF TxInv
<1>2. t \in Open /\ ~ChildrenOpen(t) /\ wrote' = wrote \cup {t} /\ UNCHANGED <<depth, chain, stage, level, result>>
  BY DEF Write, Open
<1>3. level[t] + 1 = depth /\ level[t] \in Nat /\ depth \in Nat /\ depth \in 1..depth
  BY <1>2, TopOfStack
<1>4. /\ frames \in Seq(SqlFrame) /\ Len(frames) = depth /\ DOMAIN frames = 1..depth
      /\ \A i \in 1..depth : frames[i] \in SqlFrame
  BY FramesOK
<1>5. frames' = [frames EXCEPT ![depth].rows = @ \cup {t}] /\ committed' = committed
  <2>1. frames # <<>>
    BY <1>3, <1>4
  <2> QED BY <1>4, <2>1 DEF Write
<1>6. /\ frames'[depth] \in SqlFrame /\ frames'[depth].rows = frames[depth].rows \cup {t}
      /\ frames'[depth].level = frames[depth].level
      /\ \A i \in 1..depth : i # depth => frames'[i] = frames[i]
  BY <1>3, <1>4, <1>5 DEF SqlFrame
<1>7. frames' \in Seq(SqlFrame) /\ Len(frames') = depth
  <2>1. frames' \in [1..depth -> SqlFrame]
    <3>1. DOMAIN frames' = 1..depth /\ frames' = [i \in 1..depth |-> frames'[i]]
      BY <1>4, <1>5
    <3>2. \A i \in 1..depth : frames'[i] \in SqlFrame
      BY <1>4, <1>6
    <3> QED BY <3>1, <3>2
  <2> QED BY <1>3, <2>1
<1>8. Open' = Open
  BY <1>2 DEF Open
<1>9. TxTypes'
  BY <1>1, <1>2, <1>5, <1>7 DEF TxTypes
<1>10. OpenStack' /\ HeadRuns' /\ Unsettled'
  BY <1>1, <1>2, <1>8 DEF OpenStack, HeadRuns, Unsettled
<1>11. FrameEach'
  BY <1>1, <1>2, <1>6, <1>7 DEF FrameEach
<1>12. KnownAncestors'
  BY <1>1, <1>2, <1>8 DEF KnownAncestors
<1>13. \A s \in Open : IF s = t THEN frames'[level'[s] + 1].rows = frames[level[s] + 1].rows \cup {t}
                       ELSE frames'[level'[s] + 1].rows = frames[level[s] + 1].rows
  <2>1. \A s \in Open : s # t => level[s] + 1 \in 1..depth /\ level[s] + 1 # depth
    BY <1>1, <1>2, <1>3, FramesOK DEF OpenStack
  <2> QED BY <1>2, <1>3, <1>6, <2>1
<1>14. OnlyWritten /\ t \notin wrote
  BY DEF TxInv, Write
<1>15. ASSUME NEW u \in wrote' PROVE RowPlaced(u)'
  <2>1. CASE u = t
    <3>1. \A s \in Open : t \in frames'[level'[s] + 1].rows => s = t
      BY <1>13, <1>14, FramesOK DEF OnlyWritten
    <3>2. RowHeld(t)'
      BY <1>8, <3>1 DEF RowHeld
    <3>3. InFrame(t)'
      BY <1>2, <1>8, <1>13 DEF InFrame
    <3>4. t \notin committed'
      BY <1>5, <1>14 DEF OnlyWritten
    <3> QED BY <2>1, <3>2, <3>3, <3>4 DEF RowPlaced
  <2>2. CASE u # t
    <3>1. RowPlaced(u)
      BY <1>2, <2>2 DEF TxInv
    <3>2. \A s \in Open : u \in frames'[level'[s] + 1].rows <=> u \in frames[level[s] + 1].rows
      BY <1>13, <2>2
    <3>3. RowHeld(u)'
      BY <1>2, <1>8, <3>1, <3>2 DEF RowPlaced, RowHeld
    <3>4. InFrame(u)' <=> InFrame(u)
      BY <1>8, <3>2 DEF InFrame
    <3> QED BY <1>2, <1>5, <3>1, <3>3, <3>4 DEF RowPlaced
  <2> QED BY <2>1, <2>2
<1>16. OnlyWritten'
  <2>1. \A i \in 1..depth : frames'[i].rows \subseteq wrote \cup {t}
    BY <1>3, <1>6, <1>14 DEF OnlyWritten
  <2> QED BY <1>2, <1>5, <1>14, <2>1 DEF OnlyWritten
<1> QED BY <1>9, <1>10, <1>11, <1>12, <1>15, <1>16 DEF TxInv

(* The frames below the last one, and the rows of the last one.            *)
LEMMA BelowTop ==
  ASSUME TxInv, depth > 0
  PROVE  /\ SubSeq(frames, 1, depth - 1) \in Seq(SqlFrame) /\ Len(SubSeq(frames, 1, depth - 1)) = depth - 1
         /\ \A i \in 1..depth - 1 : SubSeq(frames, 1, depth - 1)[i] = frames[i]
         /\ Rows(SubSeq(frames, depth, Len(frames))) = frames[depth].rows
<1>1. frames \in Seq(SqlFrame) /\ Len(frames) = depth /\ depth \in Nat
  BY FramesOK
<1>2. /\ SubSeq(frames, 1, depth - 1) \in Seq(SqlFrame) /\ Len(SubSeq(frames, 1, depth - 1)) = depth - 1
      /\ \A i \in 1..depth - 1 : SubSeq(frames, 1, depth - 1)[i] = frames[i]
  BY <1>1, SubSeqProperties
<1>3. PICK last : last = SubSeq(frames, depth, depth)
  OBVIOUS
<1>4. last \in Seq(SqlFrame) /\ Len(last) = 1 /\ last[1] = frames[depth]
  BY <1>1, <1>3, SubSeqProperties
<1>5. DOMAIN last = {1}
  BY <1>4
<1>6. Rows(last) = frames[depth].rows
  BY <1>4, <1>5 DEF Rows
<1> QED BY <1>1, <1>2, <1>3, <1>6

(* The top of the stack ends: what stays open is the stack below it.       *)
LEMMA LeavesStep ==
  ASSUME TxInv, NEW t \in Open, ~ChildrenOpen(t), NEW how \in {"resolved", "rejected"},
         Ends(t, how), Leaves(t), committed' \subseteq wrote,
         frames' \in Seq(SqlFrame), Len(frames') = depth - 1,
         \A i \in 1..depth - 1 : frames'[i].level = frames[i].level /\ frames'[i].rows \subseteq wrote
  PROVE  /\ TxTypes' /\ OpenStack' /\ FrameEach' /\ HeadRuns' /\ Unsettled' /\ KnownAncestors' /\ OnlyWritten'
         /\ Open' = Open \ {t}
<1>1. TxTypes /\ OpenStack /\ FrameEach /\ HeadRuns /\ Unsettled /\ KnownAncestors
  BY DEF TxInv
<1>2. /\ stage' = [stage EXCEPT ![t] = "done"] /\ result' = [result EXCEPT ![t] = how]
      /\ chain' = IF chain # <<>> /\ Head(chain) = t THEN Tail(chain) ELSE chain
      /\ depth' = depth - 1 /\ level' = level /\ wrote' = wrote
  BY DEF Ends, Leaves
<1>3. level[t] + 1 = depth /\ t \in Calls /\ level[t] \in Nat /\ depth \in Nat /\ depth - 1 \in Nat
      /\ (level[t] = 0 <=> Parent[t] = NoParent)
  BY TopOfStack, FramesOK
<1>4. Open' = Open \ {t}
  BY <1>1, <1>2, <1>3 DEF Open, TxTypes
<1>5. TxTypes'
  <2>1. chain' \in Seq(Calls)
    BY <1>2, ChainOK
  <2>2. stage' \in [Calls -> {"idle", "queued", "open", "done"}] /\ result' \in [Calls -> {"none", "resolved", "rejected"}]
    BY <1>1, <1>2 DEF TxTypes
  <2>3. committed' \subseteq Calls
    BY <1>1 DEF TxTypes
  <2> QED BY <1>1, <1>2, <1>3, <2>1, <2>2, <2>3 DEF TxTypes
<1>6. OpenStack'
  <2>1. \A u \in Open' : u \in Open /\ u # t /\ level'[u] = level[u] /\ level[u] # level[t] /\ Parent[u] # t
    BY <1>1, <1>2, <1>4 DEF OpenStack, ChildrenOpen
  <2>2. \A u \in Open' : level'[u] < depth'
    BY <1>2, <1>3, <2>1, FramesOK
  <2>3. \A u, v \in Open' : level'[u] = level'[v] => u = v
    BY <1>1, <2>1 DEF OpenStack
  <2>4. ASSUME NEW n \in Nat, n < depth' PROVE \E u \in Open' : level'[u] = n
    <3>1. n < depth /\ n # level[t]
      BY <1>2, <1>3, <2>4
    <3>2. PICK u \in Open : level[u] = n
      BY <1>1, <3>1 DEF OpenStack
    <3> QED BY <1>2, <1>4, <3>1, <3>2
  <2>5. \A u \in Open' : IF Parent[u] = NoParent THEN level'[u] = 0
                         ELSE Parent[u] \in Open' /\ level'[u] = level'[Parent[u]] + 1
    BY <1>1, <1>2, <1>4, <2>1 DEF OpenStack
  <2> QED BY <2>2, <2>3, <2>4, <2>5 DEF OpenStack
<1>7. FrameEach'
  <2>1. \A i \in 1..depth' : i \in 1..depth
    BY <1>2, <1>3
  <2> QED BY <1>1, <1>2, <2>1 DEF FrameEach
<1>8. HeadRuns'
  <2>1. \A i \in 1..Len(chain') : Parent[chain'[i]] = NoParent
    BY <1>2, ChainOK
  <2>2. depth' > 0 => chain' # <<>> /\ stage'[Head(chain')] = "open"
    <3> SUFFICES ASSUME depth' > 0 PROVE chain' # <<>> /\ stage'[Head(chain')] = "open"
      OBVIOUS
    <3>1. Parent[t] # NoParent /\ depth > 0
      BY <1>2, <1>3
    <3>2. chain # <<>> /\ stage[Head(chain)] = "open"
      BY <1>1, <3>1 DEF HeadRuns
    <3>3. Head(chain) \in Calls /\ Parent[Head(chain)] = NoParent
      <4>1. chain \in Seq(Calls)
        BY <1>1 DEF TxTypes
      <4>2. Head(chain) = chain[1] /\ 1 \in 1..Len(chain) /\ Head(chain) \in Calls
        BY <3>2, <4>1
      <4> QED BY <1>1, <4>2 DEF HeadRuns
    <3>4. Head(chain) # t
      BY <3>1, <3>3
    <3> QED BY <1>1, <1>2, <3>2, <3>3, <3>4 DEF TxTypes
  <2> QED BY <2>1, <2>2 DEF HeadRuns
<1>9. Unsettled'
  BY <1>1, <1>2 DEF Unsettled, TxTypes
<1>10. KnownAncestors'
  BY <1>1, <1>2, <1>4 DEF KnownAncestors
<1>11. OnlyWritten'
  BY <1>2 DEF OnlyWritten
<1> QED BY <1>4, <1>5, <1>6, <1>7, <1>8, <1>9, <1>10, <1>11

(* A row of a frame below the top stays placed when the top ends.          *)
LEMMA RowBelow ==
  ASSUME TxInv, NEW t \in Open, ~ChildrenOpen(t), NEW how \in {"resolved", "rejected"},
         result' = [result EXCEPT ![t] = how], level' = level, Open' = Open \ {t},
         NEW u \in wrote,
         \A s \in Open' : u \in frames'[level[s] + 1].rows <=> u \in frames[level[s] + 1].rows,
         u \in committed' <=> u \in committed,
         u \notin frames[depth].rows \/ how = "rejected"
  PROVE  RowPlaced(u)'
<1>1. RowPlaced(u)
  BY DEF TxInv
<1>2. t \in Calls /\ result[t] = "none" /\ level[t] + 1 = depth
  BY FramesOK, TopOfStack
<1>3. \A a \in Ancestors[u] : result[a] # "none" => result'[a] = result[a]
  BY <1>2, SettledKept
<1>4. RowHeld(u)'
  BY <1>1, <1>3 DEF RowPlaced, RowHeld
<1>5. u \in committed' => \A a \in Ancestors[u] : result'[a] = "resolved"
  BY <1>1, <1>3 DEF RowPlaced
<1>6. u \in committed' \/ InFrame(u)' \/ \E a \in Ancestors[u] : result'[a] = "rejected"
  <2>1. CASE u \in committed \/ \E a \in Ancestors[u] : result[a] = "rejected"
    BY <1>3, <2>1
  <2>2. CASE u \in frames[depth].rows
    <3>1. Ancestors[t] \subseteq Ancestors[u] /\ how = "rejected"
      BY <1>1, <1>2, <2>2 DEF RowPlaced, RowHeld
    <3>2. t \in Ancestors[u]
      BY <1>2, <3>1, AncestorsOK
    <3>3. result'[t] = "rejected"
      BY <1>2, <3>1 DEF TxInv, TxTypes
    <3> QED BY <3>2, <3>3
  <2>3. CASE InFrame(u) /\ u \notin frames[depth].rows
    <3>1. PICK s \in Open : u \in frames[level[s] + 1].rows
      BY <2>3 DEF InFrame
    <3>2. s # t
      BY <1>2, <2>3, <3>1
    <3> QED BY <3>1, <3>2 DEF InFrame
  <2> QED BY <1>1, <2>1, <2>2, <2>3 DEF RowPlaced
<1> QED BY <1>4, <1>5, <1>6 DEF RowPlaced

(* The callback returned: at the bottom of the stack its rows are durable, *)
(* above it they go to the frame of its parent.                            *)
LEMMA ReturnsStep == ASSUME TxInv, NEW t \in Calls, Returns(t) PROVE TxInv'
<1>1. TxTypes /\ OpenStack /\ KnownAncestors /\ OnlyWritten
  BY DEF TxInv
<1>2. t \in Open /\ ~ChildrenOpen(t) /\ Ends(t, "resolved") /\ Leaves(t)
  BY DEF Returns, Open
<1>3. /\ level[t] + 1 = depth /\ level[t] \in Nat /\ depth \in Nat /\ depth \in 1..depth /\ depth > 0
      /\ Innermost(level[t]) = depth /\ (level[t] = 0 <=> Parent[t] = NoParent) /\ result[t] = "none"
  BY <1>2, TopOfStack, FramesOK
<1>4. result' = [result EXCEPT ![t] = "resolved"] /\ level' = level /\ wrote' = wrote
  BY <1>2 DEF Ends, Leaves
<1>5. result'[t] = "resolved"
  BY <1>1, <1>4 DEF TxTypes
<1>6. \A u \in wrote : RowPlaced(u)
  BY DEF TxInv
<1>7. \A u \in frames[depth].rows : /\ u \in wrote /\ Ancestors[t] \subseteq Ancestors[u]
                                    /\ \A a \in Ancestors[u] : a \in Ancestors[t] \/ result[a] = "resolved"
  BY <1>1, <1>2, <1>3, <1>6 DEF OnlyWritten, RowPlaced, RowHeld
<1>8. \A u \in wrote : \A a \in Ancestors[u] : result[a] = "resolved" => result'[a] = "resolved"
  BY <1>3, <1>4, SettledKept
<1>9. CASE level[t] = 0
  <2>1. frames' = <<>> /\ committed' = committed \cup Rows(frames) /\ depth = 1
    BY <1>3, <1>9 DEF Returns, Sql_Commit
  <2>2. Rows(frames) = frames[depth].rows
    <3>1. DOMAIN frames = {1}
      BY <2>1, FramesOK
    <3> QED BY <2>1, <3>1 DEF Rows
  <2>3. frames' \in Seq(SqlFrame) /\ Len(frames') = depth - 1 /\ 1..depth - 1 = {}
    BY <2>1
  <2>4. committed' \subseteq wrote
    BY <1>1, <1>7, <2>1, <2>2 DEF OnlyWritten
  <2>5. /\ TxTypes' /\ OpenStack' /\ FrameEach' /\ HeadRuns' /\ Unsettled' /\ KnownAncestors' /\ OnlyWritten'
        /\ Open' = Open \ {t}
    BY <1>2, <2>3, <2>4, LeavesStep
  <2>6. Open' = {}
    <3>1. \A s \in Open : level[s] = level[t]
      BY <1>3, <1>9, <2>1, FramesOK
    <3> QED BY <1>1, <1>2, <2>5, <3>1 DEF OpenStack
  <2>7. ASSUME NEW u \in wrote' PROVE RowPlaced(u)'
    <3>1. CASE u \in frames[depth].rows
      <4>1. Ancestors[t] = {t}
        BY <1>3, <1>9, AncestorsOK
      <4>2. \A a \in Ancestors[u] : result'[a] = "resolved"
        BY <1>4, <1>5, <1>7, <1>8, <3>1, <4>1
      <4>3. u \in committed'
        BY <2>1, <2>2, <3>1
      <4> QED BY <2>6, <4>2, <4>3 DEF RowPlaced, RowHeld
    <3>2. CASE u \notin frames[depth].rows
      BY <1>2, <1>4, <2>1, <2>2, <2>5, <2>6, <3>2, RowBelow
    <3> QED BY <3>1, <3>2
  <2> QED BY <2>5, <2>7 DEF TxInv
<1>10. CASE level[t] # 0
  <2> DEFINE below == SubSeq(frames, 1, depth - 1)
             rows == frames[depth].rows
             p == Parent[t]
  <2>1. depth # 1 /\ depth - 1 \in 1..depth - 1 /\ depth - 1 \in 1..depth
    BY <1>3, <1>10
  <2>2. frames' = [below EXCEPT ![depth - 1].rows = @ \cup rows] /\ committed' = committed
    BY <1>3, <1>10, <2>1, BelowTop DEF Returns, Sql_Release
  <2>3. /\ below \in Seq(SqlFrame) /\ Len(below) = depth - 1 /\ \A i \in 1..depth - 1 : below[i] = frames[i]
        /\ DOMAIN below = 1..depth - 1
    BY <1>3, BelowTop
  <2>4. p \in Open /\ p # t /\ level[p] + 1 = depth - 1 /\ p \in Calls
    <3>1. p \in Open /\ level[t] = level[p] + 1
      BY <1>1, <1>2, <1>3, <1>10 DEF OpenStack
    <3>2. level[p] \in Nat /\ p \in Calls
      BY <3>1, FramesOK
    <3> QED BY <1>3, <3>1, <3>2
  <2>5. \A i \in 1..depth - 1 : i \in 1..depth /\ frames[i] \in SqlFrame /\ frames[i].rows \subseteq wrote
    <3>1. \A i \in 1..depth - 1 : i \in 1..depth
      BY <1>3
    <3> QED BY <1>1, <3>1, FramesOK DEF OnlyWritten
  <2>6. rows \subseteq wrote /\ rows \subseteq Calls
    BY <1>1, <1>7 DEF TxTypes
  <2> HIDE DEF below, rows, p
  <2>7. /\ frames'[depth - 1] \in SqlFrame /\ frames'[depth - 1].rows = frames[depth - 1].rows \cup rows
        /\ frames'[depth - 1].level = frames[depth - 1].level
        /\ \A i \in 1..depth - 1 : i # depth - 1 => frames'[i] = frames[i]
    BY <2>1, <2>2, <2>3, <2>5, <2>6 DEF SqlFrame
  <2>8. frames' \in Seq(SqlFrame) /\ Len(frames') = depth - 1
    <3>1. frames' = [i \in 1..depth - 1 |-> frames'[i]] /\ DOMAIN frames' = 1..depth - 1
      BY <2>2, <2>3
    <3>2. \A i \in 1..depth - 1 : frames'[i] \in SqlFrame
      BY <2>5, <2>7
    <3>3. frames' \in [1..depth - 1 -> SqlFrame] /\ depth - 1 \in Nat
      BY <1>3, <3>1, <3>2
    <3> QED BY <3>3
  <2>9. \A i \in 1..depth - 1 : frames'[i].level = frames[i].level /\ frames'[i].rows \subseteq wrote
    BY <2>5, <2>6, <2>7
  <2>10. committed' \subseteq wrote
    BY <1>1, <2>2 DEF OnlyWritten
  <2>11. /\ TxTypes' /\ OpenStack' /\ FrameEach' /\ HeadRuns' /\ Unsettled' /\ KnownAncestors' /\ OnlyWritten'
         /\ Open' = Open \ {t}
    BY <1>2, <2>8, <2>9, <2>10, LeavesStep
  <2>12. \A s \in Open' : IF s = p THEN frames'[level[s] + 1].rows = frames[level[s] + 1].rows \cup rows
                          ELSE frames'[level[s] + 1].rows = frames[level[s] + 1].rows
    <3>1. \A s \in Open' : s # p => level[s] + 1 \in 1..depth - 1 /\ level[s] + 1 # depth - 1
      <4>1. \A s \in Open' : s \in Open /\ level[s] # level[t] /\ level[s] \in Nat /\ level[s] + 1 \in 1..depth
        BY <1>1, <1>2, <2>11, FramesOK DEF OpenStack
      <4>2. \A s \in Open' : s # p => level[s] # level[p]
        BY <1>1, <2>4, <4>1 DEF OpenStack
      <4>3. level[p] \in Nat
        BY <2>4, FramesOK
      <4> QED BY <1>3, <2>4, <4>1, <4>2, <4>3
    <3> QED BY <2>4, <2>7, <3>1
  <2>13. ASSUME NEW u \in wrote' PROVE RowPlaced(u)'
    <3>1. CASE u \in rows
      <4>1. p \in Open' /\ u \in frames'[level'[p] + 1].rows
        BY <1>4, <2>4, <2>11, <2>12, <3>1
      <4>2. InFrame(u)'
        BY <4>1 DEF InFrame
      <4>3. Ancestors[t] = {t} \cup Ancestors[p]
        BY <1>3, <1>10, AncestorsOK DEF p
      <4>4. Ancestors[t] \subseteq Ancestors[u] /\ \A a \in Ancestors[u] : a \in Ancestors[t] \/ result[a] = "resolved"
        BY <1>7, <3>1 DEF rows
      <4>5. Ancestors[p] \subseteq Ancestors[u] /\ \A a \in Ancestors[u] : a \in Ancestors[p] \/ result'[a] = "resolved"
        BY <1>4, <1>5, <1>8, <4>3, <4>4
      <4>6. RowPlaced(u) /\ u \in wrote
        BY <1>4, <1>6
      <4>7. ASSUME NEW s \in Open', s # p, u \in frames'[level'[s] + 1].rows
            PROVE  /\ Ancestors[s] \subseteq Ancestors[u]
                   /\ \A a \in Ancestors[u] : a \in Ancestors[s] \/ result'[a] = "resolved"
        <5>1. s \in Open /\ u \in frames[level[s] + 1].rows
          BY <1>4, <2>11, <2>12, <4>7
        <5> QED BY <1>8, <4>6, <5>1 DEF RowPlaced, RowHeld
      <4>8. RowHeld(u)'
        BY <4>5, <4>7 DEF RowHeld
      <4>9. u \notin committed'
        <5>1. t \in Ancestors[u] /\ result[t] # "resolved"
          BY <1>3, <4>3, <4>4
        <5> QED BY <2>2, <4>6, <5>1 DEF RowPlaced
      <4> QED BY <4>2, <4>8, <4>9 DEF RowPlaced
    <3>2. CASE u \notin rows
      <4>1. \A s \in Open' : u \in frames'[level[s] + 1].rows <=> u \in frames[level[s] + 1].rows
        BY <2>12, <3>2
      <4>2. u \notin frames[depth].rows /\ u \in wrote /\ (u \in committed' <=> u \in committed)
        BY <1>4, <2>2, <3>2 DEF rows
      <4> QED BY <1>2, <1>4, <2>11, <4>1, <4>2, RowBelow
    <3> QED BY <3>1, <3>2
  <2> QED BY <2>11, <2>13 DEF TxInv
<1> QED BY <1>9, <1>10

(* The callback threw: the rows of its frame are gone.                     *)
LEMMA ThrowsStep == ASSUME TxInv, NEW t \in Calls, Throws(t) PROVE TxInv'
<1>1. t \in Open /\ ~ChildrenOpen(t) /\ Ends(t, "rejected") /\ Leaves(t)
  BY DEF Throws, Open
<1>2. /\ level[t] + 1 = depth /\ level[t] \in Nat /\ depth \in Nat /\ depth > 0
      /\ Innermost(level[t]) = depth /\ Named(level[t]) = {depth}
  BY <1>1, TopOfStack, FramesOK
<1>3. result' = [result EXCEPT ![t] = "rejected"] /\ level' = level /\ wrote' = wrote
  BY <1>1 DEF Ends, Leaves
<1>4. HasFrame(t)
  <2>1. frames # <<>>
    BY <1>2, FramesOK
  <2> QED BY <1>2, <2>1 DEF HasFrame
<1>5. committed' = committed /\ frames' \in Seq(SqlFrame) /\ Len(frames') = depth - 1
      /\ \A i \in 1..depth - 1 : frames'[i] = frames[i]
  <2>1. CASE level[t] = 0
    <3>1. frames' = <<>> /\ committed' = committed /\ depth = 1
      BY <1>2, <1>4, <2>1 DEF Throws, Undo, Sql_Rollback
    <3> QED BY <3>1
  <2>2. CASE level[t] # 0
    <3>1. frames' = SubSeq(frames, 1, depth - 1) /\ committed' = committed
      BY <1>2, <1>4, <2>2 DEF Throws, Undo, Sql_RollbackTo
    <3> QED BY <1>2, <3>1, BelowTop
  <2> QED BY <2>1, <2>2
<1>6. \A i \in 1..depth - 1 : frames'[i].level = frames[i].level /\ frames'[i].rows \subseteq wrote
  <2>1. \A i \in 1..depth - 1 : i \in 1..depth
    BY <1>2
  <2> QED BY <1>5, <2>1 DEF TxInv, OnlyWritten
<1>7. committed' \subseteq wrote
  BY <1>5 DEF TxInv, OnlyWritten
<1>8. /\ TxTypes' /\ OpenStack' /\ FrameEach' /\ HeadRuns' /\ Unsettled' /\ KnownAncestors' /\ OnlyWritten'
      /\ Open' = Open \ {t}
  BY <1>1, <1>5, <1>6, <1>7, LeavesStep
<1>9. \A s \in Open' : frames'[level[s] + 1] = frames[level[s] + 1]
  <2>1. \A s \in Open' : s \in Open /\ level[s] # level[t] /\ level[s] \in Nat /\ level[s] + 1 \in 1..depth
    BY <1>1, <1>8, FramesOK DEF TxInv, OpenStack
  <2>2. \A s \in Open' : level[s] + 1 \in 1..depth - 1
    BY <1>2, <2>1
  <2> QED BY <1>5, <2>2
<1>10. \A u \in wrote' : RowPlaced(u)'
  BY <1>1, <1>3, <1>5, <1>8, <1>9, RowBelow
<1> QED BY <1>8, <1>10 DEF TxInv

(* TxInv is inductive while no request calls during another's callback.    *)
LEMMA TxInductive == ASSUME Overlap = FALSE, TxInv, [TxNext]_txVars PROVE TxInv'
<1>1. ASSUME NEW t \in Calls, CallNested(t) PROVE TxInv'
  <2>1. depth > 0 /\ depth # 0 /\ stage[t] = "idle" /\ Scoped(t)
    <3>1. depth \in Nat
      BY FramesOK
    <3> QED BY <1>1, <3>1 DEF CallNested, MayCall
  <2>2. Parent[t] # NoParent /\ stage[Parent[t]] = "open" /\ ~ChildrenOpen(Parent[t])
    BY <1>1, <2>1 DEF CallNested, MayCall
  <2>3. Parent[t] \in Open
    BY <2>2, AncestorsOK DEF Open
  <2>4. /\ depth' = depth + 1 /\ level' = [level EXCEPT ![t] = depth]
        /\ frames' = Append(frames, Frame(depth)) /\ stage' = [stage EXCEPT ![t] = "open"]
        /\ UNCHANGED <<chain, result, committed, wrote>>
    BY <2>1 DEF Scoped
  <2> QED BY <2>1, <2>2, <2>3, <2>4, OpensStep
<1>2. ASSUME NEW t \in Calls, Dequeue(t) PROVE TxInv'
  <2>1. chain # <<>> /\ Head(chain) = t /\ stage[t] = "queued" /\ Scoped(t)
    BY <1>2 DEF Dequeue
  <2>2. depth = 0
    <3>1. depth \in Nat /\ ~(depth > 0)
      BY <2>1, FramesOK DEF TxInv, HeadRuns
    <3> QED BY <3>1
  <2>3. Parent[t] = NoParent
    <3>1. chain \in Seq(Calls)
      BY DEF TxInv, TxTypes
    <3>2. Head(chain) = chain[1] /\ 1 \in 1..Len(chain)
      BY <2>1, <3>1
    <3> QED BY <2>1, <3>2 DEF TxInv, HeadRuns
  <2>4. CASE BeginThrows(t) /\ UNCHANGED <<committed, wrote>>
    BY <2>1, <2>2, <2>4, BeginFails
  <2>5. CASE /\ depth' = depth + 1 /\ level' = [level EXCEPT ![t] = depth]
             /\ frames' = Append(frames, Frame(depth)) /\ stage' = [stage EXCEPT ![t] = "open"]
             /\ UNCHANGED <<chain, result, committed, wrote>>
    BY <2>1, <2>2, <2>3, <2>5, OpensStep
  <2> QED BY <2>1, <2>4, <2>5 DEF Scoped
<1>3. CASE UNCHANGED txVars
  BY <1>3 DEF txVars, TxInv, TxTypes, OpenStack, FrameEach, HeadRuns, Unsettled, KnownAncestors,
              OnlyWritten, RowPlaced, RowHeld, InFrame, Open
<1> QED BY <1>1, <1>2, <1>3, QueuedStep, WriteStep, ReturnsStep, ThrowsStep DEF TxNext

(* However calls nest, queue, fail to begin, throw or return: while no     *)
(* request calls transaction() during another's callback, a row is durable *)
(* exactly when its writer and every call around it resolved, and a        *)
(* connection with nothing running has no transaction open.                *)
THEOREM AllOrNothingAlways == ASSUME Overlap = FALSE PROVE TxSpec => []AllOrNothing
<1>1. TxInit => TxInv
  <2> SUFFICES ASSUME TxInit PROVE TxInv
    OBVIOUS
  <2>1. Open = {} /\ depth = 0 /\ wrote = {} /\ committed = {} /\ 1..0 = {} /\ 1..depth = {}
    BY DEF TxInit, Open
  <2>2. chain \in Seq(Calls) /\ frames \in Seq(SqlFrame) /\ Len(chain) = 0 /\ Len(frames) = 0
    BY DEF TxInit
  <2>3. TxTypes
    BY <2>1, <2>2 DEF TxInit, TxTypes
  <2>4. OpenStack /\ KnownAncestors /\ OnlyWritten
    BY <2>1 DEF OpenStack, KnownAncestors, OnlyWritten
  <2>5. FrameEach /\ HeadRuns /\ Unsettled
    BY <2>1, <2>2 DEF TxInit, FrameEach, HeadRuns, Unsettled
  <2> QED BY <2>1, <2>3, <2>4, <2>5 DEF TxInv
<1>2. TxInv => AllOrNothing
  <2> SUFFICES ASSUME TxInv PROVE AllOrNothing
    OBVIOUS
  <2>1. ASSUME NEW u \in wrote, \A a \in Ancestors[u] : result[a] = "resolved" PROVE u \in committed
    <3>1. RowPlaced(u)
      BY DEF TxInv
    <3>2. ~InFrame(u)
      <4> SUFFICES ASSUME NEW t \in Open, u \in frames[level[t] + 1].rows PROVE FALSE
        BY DEF InFrame
      <4>1. Ancestors[t] \subseteq Ancestors[u] /\ t \in Calls /\ result[t] = "none"
        BY <3>1, FramesOK DEF RowPlaced, RowHeld
      <4>2. t \in Ancestors[u]
        BY <4>1, AncestorsOK
      <4> QED BY <2>1, <4>1, <4>2
    <3> QED BY <2>1, <3>1, <3>2 DEF RowPlaced
  <2>2. \A u \in wrote : u \in committed => \A a \in Ancestors[u] : result[a] = "resolved"
    BY DEF TxInv, RowPlaced
  <2>3. ASSUME NEW u \in wrote PROVE (u \in committed) = (\A a \in Ancestors[u] : result[a] = "resolved")
    <3> DEFINE kept == \A a \in Ancestors[u] : result[a] = "resolved"
    <3>1. u \in committed <=> kept
      BY <2>1, <2>2
    <3>2. kept \in BOOLEAN /\ (u \in committed) \in BOOLEAN
      OBVIOUS
    <3> HIDE DEF kept
    <3>3. (u \in committed) = kept
      BY <3>1, <3>2
    <3> QED BY <3>3 DEF kept
  <2>4. ASSUME Open = {} PROVE depth = 0 /\ frames = <<>>
    <3>1. depth = 0
      <4>1. depth \in Nat /\ ~(0 < depth)
        BY <2>4 DEF TxInv, TxTypes, OpenStack
      <4> QED BY <4>1
    <3> QED BY <3>1, NothingOpen
  <2> QED BY <2>3, <2>4 DEF AllOrNothing
<1> QED BY <1>1, <1>2, TxInductive, PTL DEF TxSpec
=============================================================================
