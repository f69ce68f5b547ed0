------------------------- MODULE KeptInOrderProofs -------------------------
(***************************************************************************)
(* The ranks of the kept positions are 1 to their number, each once: an    *)
(* injection between finite sets of the same size is onto.                 *)
(***************************************************************************)
EXTENDS KeptInOrder, FiniteSetTheorems, SequenceTheorems, TLAPS

(* The elements at some positions, in order: there is one place for each   *)
(* of these positions.                                                     *)
LEMMA InOrderOK ==
  ASSUME NEW S, NEW s \in Seq(S), NEW at \in SUBSET (1..Len(s))
  PROVE  /\ InOrder(s, at) \in Seq(S) /\ Len(InOrder(s, at)) = Cardinality(at)
         /\ Cardinality(at) \in Nat /\ Cardinality(at) <= Len(s)
         /\ Cardinality(at) = Len(s) => at = 1..Len(s)
         /\ \E pos \in [1..Cardinality(at) -> at] :
              /\ \A n \in 1..Cardinality(at) : InOrder(s, at)[n] = s[pos[n]]
              /\ \A n, m \in 1..Cardinality(at) : pos[n] = pos[m] => n = m
              /\ \A i \in at : \E n \in 1..Cardinality(at) : pos[n] = i
<1>1. Len(s) \in Nat /\ IsFiniteSet(1..Len(s)) /\ Cardinality(1..Len(s)) = Len(s)
  <2>1. Len(s) \in Nat
    OBVIOUS
  <2> QED BY <2>1, FS_Interval
<1>2. IsFiniteSet(at) /\ Cardinality(at) \in Nat /\ Cardinality(at) <= Len(s)
      /\ (Cardinality(at) = Len(s) => at = 1..Len(s))
  BY <1>1, FS_Subset, FS_CardinalityType
<1>3. PICK c \in Nat : c = Cardinality(at)
  BY <1>2
<1> DEFINE below(i) == {j \in at : j <= i}
           rank == [i \in at |-> Cardinality(below(i))]
<1>4. \A i \in at : i \in Nat /\ i \in below(i) /\ below(i) \in SUBSET at
  OBVIOUS
<1>5. \A i \in at : IsFiniteSet(below(i)) /\ Cardinality(below(i)) \in Nat /\ Cardinality(below(i)) <= c
  BY <1>2, <1>3, <1>4, FS_Subset, FS_CardinalityType
<1>6. \A i \in at : Cardinality(below(i)) # 0
  BY <1>4, <1>5, FS_EmptySet
<1>7. \A i \in at : rank[i] \in 1..c
  <2>1. \A i \in at : rank[i] = Cardinality(below(i))
    OBVIOUS
  <2> HIDE DEF rank, below
  <2> QED BY <1>3, <1>5, <1>6, <2>1
<1>8. ASSUME NEW i \in at, NEW j \in at, i < j PROVE rank[i] # rank[j]
  <2>1. below(i) \in SUBSET below(j)
    <3>1. \A k \in at : k <= i => k <= j
      BY <1>4, <1>8
    <3> QED BY <3>1
  <2>2. below(i) # below(j)
    <3>1. ~(j <= i)
      BY <1>4, <1>8
    <3> QED BY <1>4, <3>1
  <2>3. Cardinality(below(i)) # Cardinality(below(j))
    <3> HIDE DEF below
    <3> QED BY <1>5, <2>1, <2>2, FS_Subset
  <2> QED BY <2>3
<1>9. \A i, j \in at : rank[i] = rank[j] => i = j
  <2> SUFFICES ASSUME NEW i \in at, NEW j \in at, i # j PROVE rank[i] # rank[j]
    OBVIOUS
  <2>1. i < j \/ j < i
    BY <1>4
  <2> QED BY <1>8, <2>1
<1>10. rank \in Surjection(at, 1..c)
  <2>1. rank \in [at -> 1..c]
    BY <1>7
  <2>2. rank \in Injection(at, 1..c)
    BY <1>9, <2>1 DEF Injection, IsInjective
  <2>3. IsFiniteSet(1..c) /\ Cardinality(1..c) = c
    BY <1>3, FS_Interval
  <2> QED BY <1>3, <2>2, <2>3, FS_Injection
<1>11. \A n \in 1..c : \E i \in at : rank[i] = n
  BY <1>10 DEF Surjection
<1> DEFINE pos == [n \in 1..c |-> CHOOSE i \in at : Cardinality(below(i)) = n]
<1>12. \A n \in 1..c : pos[n] \in at /\ rank[pos[n]] = n
  <2> SUFFICES ASSUME NEW n \in 1..c PROVE pos[n] \in at /\ rank[pos[n]] = n
    OBVIOUS
  <2>1. \E i \in at : Cardinality(below(i)) = n
    BY <1>11
  <2> QED BY <2>1
<1>13. pos \in [1..c -> at]
  BY <1>12
<1>14. InOrder(s, at) = [n \in 1..c |-> s[pos[n]]]
  BY <1>3 DEF InOrder
<1> HIDE DEF pos, rank
<1>15. \A n, m \in 1..c : pos[n] = pos[m] => n = m
  BY <1>12
<1>16. \A i \in at : \E n \in 1..c : pos[n] = i
  BY <1>7, <1>9, <1>12
<1>17. InOrder(s, at) \in Seq(S) /\ Len(InOrder(s, at)) = c
  <2>1. \A n \in 1..c : pos[n] \in 1..Len(s)
    BY <1>12
  <2>2. \A i \in 1..Len(s) : s[i] \in S
    OBVIOUS
  <2>3. \A n \in 1..c : s[pos[n]] \in S
    BY <2>1, <2>2
  <2>4. InOrder(s, at) \in [1..c -> S]
    BY <1>14, <2>3
  <2> QED BY <1>3, <2>4
<1>18. \A n \in 1..c : InOrder(s, at)[n] = s[pos[n]]
  BY <1>14
<1> QED BY <1>2, <1>3, <1>13, <1>15, <1>16, <1>17, <1>18
=============================================================================
