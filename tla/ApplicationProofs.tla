------------------------- MODULE ApplicationProofs -------------------------
(***************************************************************************)
(* The container for every wiring: however many bindings, whatever takes   *)
(* what and whichever factories are async, each instance is built once and *)
(* after its dependencies, and teardown visits dependents first.           *)
(*                                                                         *)
(* Order alone is not inductive.  Construct and ResolveBinding append a    *)
(* binding whose dependencies must already have instances: for the one on  *)
(* top of the stack that is what StackOK says of its frame, for a parked   *)
(* one what ParkedOK remembers from the moment it was parked.  That a      *)
(* factory is not called twice needs the parked binding to be the awaited  *)
(* one while create() resolves (AwaitOK, CallsOK).                         *)
(*                                                                         *)
(* And the module graph for every layout: the worklist of exportSets()     *)
(* stays sound, because a set only takes what its module exposes, and      *)
(* complete but for the modules still to be visited (SetsOK); so when it   *)
(* is empty the sets are closed, and hold what the least closed sets of    *)
(* the definition hold.                                                    *)
(***************************************************************************)
EXTENDS Application, ScopeGraph, KeptInOrderProofs, SequenceTheorems, WellFoundedInduction, TLAPS

Types ==
  /\ deps \in [Bindings -> Seq(Bindings)] /\ async \in SUBSET Bindings
  /\ building \in Seq([binding : Bindings, at : Nat])
  /\ settling \in SUBSET Bindings /\ order \in Seq(Bindings)
  /\ calls \in [Bindings -> Nat]
  /\ awaited \in Bindings \cup {None} /\ turn \in Nat \ {0}

Unique == \A i, j \in DOMAIN order : order[i] = order[j] => i = j

StackOK ==
  \A i \in DOMAIN building :
    /\ building[i].binding \notin Instances
    /\ building[i].at <= Len(deps[building[i].binding])
    /\ \A k \in 1..building[i].at : deps[building[i].binding][k] \in Instances
    /\ \A j \in DOMAIN building : building[i].binding = building[j].binding => i = j

ParkedOK ==
  \A b \in settling :
    b \in async /\ b \notin Instances /\ Elements(deps[b]) \subseteq Instances

AwaitOK ==
  awaited # None =>
    awaited \in settling /\ building = <<>> /\ phase \in {"resolving", "failed"}

CallsOK ==
  \A b \in Bindings :
    /\ b \in Instances \/ b = awaited => calls[b] = 1
    /\ b \notin Instances /\ b # awaited /\ (b \notin async \/ phase = "resolving")
         => calls[b] = 0

IInv == Types /\ Unique /\ DepsFirst /\ StackOK /\ ParkedOK /\ AwaitOK /\ CallsOK

(* The elements of a sequence are the values of its domain 1..Len.         *)
LEMMA AppendElements ==
  ASSUME NEW S, NEW s \in Seq(S), NEW e \in S
  PROVE  /\ Append(s, e) \in Seq(S) /\ Len(Append(s, e)) = Len(s) + 1
         /\ DOMAIN Append(s, e) = 1..(Len(s) + 1) /\ DOMAIN s = 1..Len(s)
         /\ Len(s) \in Nat
         /\ \A i \in 1..Len(s) : Append(s, e)[i] = s[i]
         /\ Append(s, e)[Len(s) + 1] = e
         /\ Elements(Append(s, e)) = Elements(s) \cup {e}
<1>1. /\ Append(s, e) \in Seq(S) /\ Len(Append(s, e)) = Len(s) + 1
      /\ DOMAIN Append(s, e) = 1..(Len(s) + 1) /\ DOMAIN s = 1..Len(s) /\ Len(s) \in Nat
      /\ \A i \in 1..Len(s) : Append(s, e)[i] = s[i]
      /\ Append(s, e)[Len(s) + 1] = e
  BY AppendProperties, LenProperties
<1>2. Elements(Append(s, e)) \subseteq Elements(s) \cup {e}
  BY <1>1 DEF Elements
<1>3. Elements(s) \subseteq Elements(Append(s, e))
  <2> SUFFICES ASSUME NEW i \in 1..Len(s) PROVE s[i] \in Elements(Append(s, e))
    BY <1>1 DEF Elements
  <2>1. i \in DOMAIN Append(s, e) /\ Append(s, e)[i] = s[i]
    BY <1>1
  <2> QED BY <2>1 DEF Elements
<1>4. e \in Elements(Append(s, e))
  <2>1. Len(s) + 1 \in DOMAIN Append(s, e)
    BY <1>1
  <2> QED BY <1>1, <2>1 DEF Elements
<1> QED BY <1>1, <1>2, <1>3, <1>4

(* #settle of a new binding whose dependencies all have instances keeps    *)
(* #order free of repetitions and topological.                             *)
LEMMA SettleKeepsOrder ==
  ASSUME Types, Unique, DepsFirst, NEW b \in Bindings, b \notin Instances,
         Elements(deps[b]) \subseteq Instances, Settle(b), UNCHANGED deps
  PROVE  /\ order' \in Seq(Bindings) /\ Instances' = Instances \cup {b}
         /\ Unique' /\ DepsFirst'
<1> DEFINE n == Len(order)
<1>1. /\ order' \in Seq(Bindings) /\ Len(order') = n + 1 /\ n \in Nat
      /\ DOMAIN order' = 1..(n + 1) /\ DOMAIN order = 1..n
      /\ \A i \in 1..n : order'[i] = order[i]
      /\ order'[n + 1] = b
      /\ Elements(order') = Elements(order) \cup {b}
  BY AppendElements DEF Types, Settle
<1>2. Instances' = Instances \cup {b}
  BY <1>1 DEF Instances
<1>3. \A i \in 1..n : order[i] # b
  BY <1>1 DEF Instances, Elements
<1>4. Unique'
  BY <1>1, <1>3 DEF Unique
<1>5. ASSUME NEW i \in 1..(n + 1)
      PROVE  Elements(deps[order'[i]]) \subseteq {order'[j] : j \in 1..(i - 1)}
  <2>1. CASE i \in 1..n
    <3>1. Elements(deps[order[i]]) \subseteq {order[j] : j \in 1..(i - 1)}
      BY <1>1, <2>1 DEF DepsFirst
    <3>2. \A j \in 1..(i - 1) : j \in 1..n /\ order'[j] = order[j]
      BY <1>1, <2>1
    <3> QED BY <1>1, <2>1, <3>1, <3>2
  <2>2. CASE i = n + 1
    <3>1. Elements(order) = {order'[j] : j \in 1..(i - 1)}
      BY <1>1, <2>2 DEF Elements
    <3> QED BY <1>1, <2>2, <3>1 DEF Instances
  <2> QED BY <1>1, <2>1, <2>2
<1>6. DepsFirst'
  <2>1. deps' = deps
    OBVIOUS
  <2> QED BY <1>1, <1>5, <2>1 DEF DepsFirst
<1> QED BY <1>1, <1>2, <1>4, <1>6

-----------------------------------------------------------------------------
(* No binding is None.                                                     *)
LEMMA NoneIsNoBinding == \A b \in Bindings : b # None
BY ApplicationAssumption

(* The frame on top of a nonempty stack.                                   *)
LEMMA TopFrame ==
  ASSUME IInv, ~Idle
  PROVE  /\ Len(building) \in Nat \ {0} /\ DOMAIN building = 1..Len(building)
         /\ Len(building) \in DOMAIN building
         /\ Top \in [binding : Bindings, at : Nat] /\ Top = building[Len(building)]
         /\ Top.binding \in Bindings /\ Top.binding \notin Instances
         /\ deps[Top.binding] \in Seq(Bindings)
         /\ awaited = None
<1>1. building \in Seq([binding : Bindings, at : Nat]) /\ building # <<>>
  BY DEF IInv, Types, Idle
<1>2. Len(building) \in Nat \ {0} /\ DOMAIN building = 1..Len(building)
  BY <1>1, EmptySeq, LenProperties
<1>3. Len(building) \in DOMAIN building
  BY <1>2
<1>4. Top \in [binding : Bindings, at : Nat]
  BY <1>1, <1>2, <1>3, ElementOfSeq DEF Top
<1>5. Top.binding \notin Instances
  BY <1>3 DEF IInv, StackOK, Top
<1>6. awaited = None
  BY <1>1 DEF IInv, AwaitOK
<1> QED BY <1>2, <1>3, <1>4, <1>5, <1>6 DEF Top, IInv, Types

(* What only touches the stack leaves the rest of the invariant alone.     *)
LEMMA StackOnly ==
  ASSUME IInv, UNCHANGED <<deps, async, settling, order, calls>>,
         UNCHANGED <<awaited, turn, phase>>, awaited = None,
         building' \in Seq([binding : Bindings, at : Nat]), StackOK'
  PROVE  IInv'
<1>1. Instances' = Instances
  BY DEF Instances
<1>2. Types'
  BY DEF IInv, Types
<1>3. Unique' /\ DepsFirst'
  BY DEF IInv, Unique, DepsFirst
<1>4. ParkedOK' /\ AwaitOK'
  BY <1>1 DEF IInv, ParkedOK, AwaitOK
<1>5. CallsOK'
  BY <1>1 DEF IInv, CallsOK
<1> QED BY <1>2, <1>3, <1>4, <1>5 DEF IInv

(* get() begins outside any construction.                                  *)
LEMMA BeginKeepsIInv ==
  ASSUME IInv, NEW b \in Bindings, Begin(b), UNCHANGED <<awaited, turn, phase>>,
         awaited = None
  PROVE  IInv'
<1>1. building' = <<Frame(b)>> /\ Frame(b) \in [binding : Bindings, at : Nat]
  BY DEF Begin, Frame
<1>2. /\ building' \in Seq([binding : Bindings, at : Nat])
      /\ DOMAIN building' = {1} /\ building'[1] = Frame(b)
  BY <1>1
<1>3. deps' = deps /\ Instances' = Instances /\ b \notin Instances
  BY DEF Begin, Instances
<1>4. Len(deps[b]) \in Nat
  BY LenProperties DEF IInv, Types
<1>5. StackOK'
  BY <1>2, <1>3, <1>4 DEF StackOK, Frame
<1> QED BY <1>2, <1>5, StackOnly DEF Begin

(* A dependency with an instance is taken.                                 *)
LEMMA TakeDepKeepsIInv ==
  ASSUME IInv, TakeDep, UNCHANGED <<awaited, turn, phase>>
  PROVE  IInv'
<1> DEFINE n == Len(building)  b == Top.binding
<1>1. ~Idle /\ Top.at < Len(deps[b]) /\ deps[b][Top.at + 1] \in Instances
  BY DEF TakeDep, Wanting, Wanted
<1>2. /\ n \in Nat \ {0} /\ DOMAIN building = 1..n /\ n \in DOMAIN building
      /\ Top \in [binding : Bindings, at : Nat] /\ Top = building[n]
      /\ deps[b] \in Seq(Bindings) /\ Len(deps[b]) \in Nat /\ awaited = None
  BY <1>1, TopFrame, LenProperties
<1>3. building' = [building EXCEPT ![n] = [Top EXCEPT !.at = Top.at + 1]]
  BY <1>2 DEF TakeDep
<1>4. [Top EXCEPT !.at = Top.at + 1] = [binding |-> b, at |-> Top.at + 1]
      /\ [binding |-> b, at |-> Top.at + 1] \in [binding : Bindings, at : Nat]
  BY <1>2
<1>5. /\ building' \in Seq([binding : Bindings, at : Nat])
      /\ DOMAIN building' = 1..n
      /\ \A i \in 1..n : i # n => building'[i] = building[i]
      /\ building'[n] = [binding |-> b, at |-> Top.at + 1]
  <2>1. building \in Seq([binding : Bindings, at : Nat])
    BY DEF IInv, Types
  <2>2. building' \in Seq([binding : Bindings, at : Nat])
    BY <1>2, <1>3, <1>4, <2>1, ExceptSeq
  <2> QED BY <1>2, <1>3, <1>4, <2>1, <2>2
<1>6. deps' = deps /\ Instances' = Instances
  BY DEF TakeDep, Instances
<1>7. ASSUME NEW i \in 1..n PROVE building'[i].binding = building[i].binding
  <2>1. CASE i # n
    BY <1>5, <2>1
  <2>2. CASE i = n
    <3>1. building'[n].binding = b
      BY <1>5
    <3> QED BY <1>2, <2>2, <3>1
  <2> QED BY <2>1, <2>2
<1>8. ASSUME NEW i \in 1..n
      PROVE  /\ building'[i].at <= Len(deps[building'[i].binding])
             /\ \A k \in 1..building'[i].at : deps[building'[i].binding][k] \in Instances
  <2>1. CASE i # n
    BY <1>2, <1>5, <2>1 DEF IInv, StackOK
  <2>2. CASE i = n
    <3>1. \A k \in 1..Top.at : deps[b][k] \in Instances
      BY <1>2 DEF IInv, StackOK
    <3>2. building'[n].at = Top.at + 1 /\ building'[n].binding = b
      BY <1>5
    <3>3. Top.at \in Nat /\ Top.at + 1 <= Len(deps[b])
      BY <1>1, <1>2
    <3>4. \A k \in 1..(Top.at + 1) : deps[b][k] \in Instances
      BY <1>1, <3>1, <3>3
    <3> QED BY <2>2, <3>2, <3>3, <3>4
  <2> QED BY <2>1, <2>2
<1>9. StackOK'
  BY <1>2, <1>5, <1>6, <1>7, <1>8 DEF IInv, StackOK
<1> QED BY <1>2, <1>5, <1>9, StackOnly DEF TakeDep

(* get() recurses into a dependency that is not under construction.        *)
LEMMA DescendKeepsIInv ==
  ASSUME IInv, Descend, UNCHANGED <<awaited, turn, phase>>
  PROVE  IInv'
<1> DEFINE n == Len(building)  w == Wanted
<1>1. ~Idle /\ Top.at < Len(deps[Top.binding]) /\ w \notin Instances /\ w \notin OnStack
  BY DEF Descend, Wanting
<1>2. /\ Top \in [binding : Bindings, at : Nat] /\ deps[Top.binding] \in Seq(Bindings)
      /\ awaited = None
  BY <1>1, TopFrame
<1>3. w \in Bindings
  <2>1. Top.at + 1 \in 1..Len(deps[Top.binding])
    BY <1>1, <1>2, LenProperties
  <2> QED BY <1>2, <2>1, ElementOfSeq DEF Wanted
<1>4. /\ building' \in Seq([binding : Bindings, at : Nat]) /\ n \in Nat
      /\ DOMAIN building' = 1..(n + 1) /\ DOMAIN building = 1..n
      /\ \A i \in 1..n : building'[i] = building[i]
      /\ building'[n + 1] = Frame(w)
  <2>1. building \in Seq([binding : Bindings, at : Nat])
    BY DEF IInv, Types
  <2>2. Frame(w) \in [binding : Bindings, at : Nat] /\ building' = Append(building, Frame(w))
    BY <1>3 DEF Descend, Frame
  <2> QED BY <2>1, <2>2, AppendProperties, LenProperties
<1>5. deps' = deps /\ Instances' = Instances
  BY DEF Descend, Instances
<1>6. \A i \in 1..n : building[i].binding # w
  BY <1>1, <1>4 DEF OnStack
<1>7. Frame(w).binding = w /\ Frame(w).at = 0 /\ Len(deps[w]) \in Nat
  BY <1>3, LenProperties DEF Frame, IInv, Types
<1>8. ASSUME NEW i \in 1..(n + 1)
      PROVE  /\ building'[i].binding \notin Instances
             /\ building'[i].at <= Len(deps[building'[i].binding])
             /\ \A k \in 1..building'[i].at : deps[building'[i].binding][k] \in Instances
  <2>1. CASE i \in 1..n
    BY <1>4, <2>1 DEF IInv, StackOK
  <2>2. CASE i = n + 1
    BY <1>1, <1>4, <1>7, <2>2
  <2> QED BY <1>4, <2>1, <2>2
<1>9. \A i, j \in 1..(n + 1) : building'[i].binding = building'[j].binding => i = j
  <2>1. \A i, j \in 1..n : building[i].binding = building[j].binding => i = j
    BY <1>4 DEF IInv, StackOK
  <2> QED BY <1>4, <1>6, <1>7, <2>1
<1>10. StackOK'
  BY <1>4, <1>5, <1>8, <1>9 DEF StackOK
<1> QED BY <1>2, <1>4, <1>10, StackOnly DEF Descend

(* A cycle or an error empties the stack.                                  *)
LEMMA UnwindKeepsIInv ==
  ASSUME IInv, Unwind, UNCHANGED <<awaited, turn>>,
         phase' = phase \/ phase' = "failed"
  PROVE  IInv'
<1>1. building' = <<>> /\ building' \in Seq([binding : Bindings, at : Nat])
  BY DEF Unwind
<1>2. Instances' = Instances
  BY DEF Unwind, Instances
<1>3. Types'
  BY <1>1 DEF IInv, Types, Unwind
<1>4. Unique' /\ DepsFirst' /\ StackOK'
  BY <1>1 DEF IInv, Unique, DepsFirst, StackOK, Unwind
<1>5. ParkedOK' /\ AwaitOK'
  BY <1>1, <1>2 DEF IInv, ParkedOK, AwaitOK, Unwind
<1>6. CallsOK'
  BY <1>2 DEF IInv, CallsOK, Unwind
<1> QED BY <1>3, <1>4, <1>5, <1>6 DEF IInv

(* An instance is completed: its frame had every dependency.               *)
LEMMA ConstructKeepsIInv ==
  ASSUME IInv, Construct, UNCHANGED <<awaited, turn, phase>>
  PROVE  IInv'
<1> DEFINE n == Len(building)  b == Top.binding
<1>1. ~Idle /\ Top.at = Len(deps[b]) /\ b \notin async
  BY DEF Construct, Complete
<1>2. /\ n \in Nat \ {0} /\ DOMAIN building = 1..n /\ n \in DOMAIN building
      /\ Top = building[n] /\ b \in Bindings /\ b \notin Instances
      /\ deps[b] \in Seq(Bindings) /\ awaited = None
  BY <1>1, TopFrame
<1>3. Elements(deps[b]) \subseteq Instances
  <2>1. \A k \in 1..Top.at : deps[b][k] \in Instances
    BY <1>2 DEF IInv, StackOK
  <2>2. DOMAIN deps[b] = 1..Len(deps[b])
    BY <1>2, LenProperties
  <2> QED BY <1>1, <2>1, <2>2 DEF Elements
<1>4. /\ order' \in Seq(Bindings) /\ Instances' = Instances \cup {b}
      /\ Unique' /\ DepsFirst'
  BY <1>2, <1>3, SettleKeepsOrder DEF IInv, Construct
<1>5. /\ building' \in Seq([binding : Bindings, at : Nat])
      /\ DOMAIN building' = 1..(n - 1)
      /\ \A i \in 1..(n - 1) : building'[i] = building[i]
  <2>1. building \in Seq([binding : Bindings, at : Nat])
    BY DEF IInv, Types
  <2>2. ASSUME NEW i \in 1..(n - 1) PROVE building[i] \in [binding : Bindings, at : Nat]
    <3>1. i \in 1..Len(building)
      BY <1>2
    <3> QED BY <2>1, <3>1, ElementOfSeq
  <2>3. building' = SubSeq(building, 1, n - 1) /\ n - 1 \in Int /\ n - 1 >= 0
    BY <1>2 DEF Construct
  <2>4. /\ building' \in Seq([binding : Bindings, at : Nat])
        /\ Len(building') = n - 1
        /\ \A i \in 1..(n - 1) : building'[i] = building[1 + i - 1]
    <3> HIDE DEF n
    <3>1. /\ SubSeq(building, 1, n - 1) \in Seq([binding : Bindings, at : Nat])
          /\ Len(SubSeq(building, 1, n - 1)) = IF 1 <= n - 1 THEN n - 1 - 1 + 1 ELSE 0
          /\ \A i \in 1..(n - 1 - 1 + 1) :
               SubSeq(building, 1, n - 1)[i] = building[1 + i - 1]
      BY <2>2, <2>3, SubSeqProperties
    <3> QED BY <1>2, <2>3, <3>1
  <2> QED BY <1>2, <2>4, LenProperties
<1>6. Types'
  BY <1>2, <1>4, <1>5 DEF IInv, Types, Construct, Called
<1>7. \A i \in 1..(n - 1) : building[i].binding # b
  BY <1>2 DEF IInv, StackOK
<1>8. StackOK'
  <2>1. \A i \in 1..(n - 1) : i \in DOMAIN building
    BY <1>2
  <2> QED BY <1>4, <1>5, <1>7, <2>1 DEF IInv, StackOK, Construct
<1>9. ParkedOK' /\ AwaitOK'
  BY <1>1, <1>2, <1>4 DEF IInv, ParkedOK, AwaitOK, Construct
<1>10. CallsOK'
  <2>1. calls[b] = 0
    BY <1>1, <1>2, NoneIsNoBinding DEF IInv, CallsOK
  <2>2. calls' = [calls EXCEPT ![b] = 1]
    BY <2>1, <1>2 DEF Construct, Called, IInv, Types
  <2> QED BY <1>1, <1>2, <1>4, <2>2 DEF IInv, CallsOK, Types, Construct
<1> QED BY <1>4, <1>6, <1>8, <1>9, <1>10 DEF IInv

(* A promise is parked: the frame had every dependency, and only create()  *)
(* awaits it.                                                              *)
LEMMA ParkKeepsIInv ==
  ASSUME IInv, Parks, Park, UNCHANGED <<turn, phase>>,
         awaited' = IF phase = "resolving" THEN Top.binding ELSE awaited
  PROVE  IInv'
<1> DEFINE b == Top.binding
<1>1. ~Idle /\ Top.at = Len(deps[b]) /\ b \in async
  BY DEF Parks, Complete
<1>2. /\ Len(building) \in DOMAIN building
      /\ Top = building[Len(building)] /\ b \in Bindings /\ b \notin Instances
      /\ deps[b] \in Seq(Bindings) /\ awaited = None
  BY <1>1, TopFrame
<1>3. Elements(deps[b]) \subseteq Instances
  <2>1. \A k \in 1..Top.at : deps[b][k] \in Instances
    BY <1>2 DEF IInv, StackOK
  <2>2. DOMAIN deps[b] = 1..Len(deps[b])
    BY <1>2, LenProperties
  <2> QED BY <1>1, <2>1, <2>2 DEF Elements
<1>4. building' = <<>> /\ building' \in Seq([binding : Bindings, at : Nat])
      /\ settling' = settling \cup {b} /\ UNCHANGED <<deps, async, order>>
      /\ Instances' = Instances
  BY DEF Park, Instances
<1>5. Types'
  <2>1. settling' \in SUBSET Bindings /\ awaited' \in Bindings \cup {None}
    BY <1>2, <1>4 DEF IInv, Types
  <2>2. calls' \in [Bindings -> Nat]
    BY <1>2 DEF IInv, Types, Park, Called
  <2> QED BY <1>4, <2>1, <2>2 DEF IInv, Types
<1>6. Unique' /\ DepsFirst' /\ StackOK'
  BY <1>4 DEF IInv, Unique, DepsFirst, StackOK
<1>7. ParkedOK'
  BY <1>1, <1>2, <1>3, <1>4 DEF IInv, ParkedOK
<1>8. AwaitOK'
  <2>1. awaited' # None => awaited' = b /\ phase = "resolving"
    BY <1>2
  <2> QED BY <1>4, <2>1 DEF AwaitOK
<1>9. CallsOK'
  <2>1. b # None /\ \A c \in Bindings : c # b => calls'[c] = calls[c]
    BY <1>2, NoneIsNoBinding DEF Park, Called, IInv, Types
  <2>2. CASE phase = "resolving"
    <3>1. calls[b] = 0
      BY <1>2, <2>1, <2>2 DEF IInv, CallsOK
    <3>2. calls'[b] = 1 /\ awaited' = b
      BY <1>2, <2>2, <3>1 DEF Park, Called, IInv, Types
    <3> QED BY <1>2, <1>4, <2>1, <2>2, <3>2, NoneIsNoBinding DEF IInv, CallsOK
  <2>3. CASE phase # "resolving"
    BY <1>1, <1>2, <1>4, <2>1, <2>3, NoneIsNoBinding DEF IInv, CallsOK
  <2> QED BY <2>2, <2>3
<1> QED BY <1>5, <1>6, <1>7, <1>8, <1>9 DEF IInv

(* The awaited factory resolves: its dependencies had instances when it    *)
(* was parked, and instances are never lost.                               *)
LEMMA FactoryResolvesKeepsIInv ==
  ASSUME IInv, FactoryResolves
  PROVE  IInv'
<1> DEFINE b == awaited
<1>1. /\ b \in settling /\ b \in Bindings /\ b \in async /\ b \notin Instances
      /\ Elements(deps[b]) \subseteq Instances /\ building = <<>>
  BY DEF FactoryResolves, IInv, AwaitOK, ParkedOK, Types
<1>2. /\ Settle(b) /\ settling' = settling \ {b} /\ awaited' = None
      /\ UNCHANGED <<deps, async, building, calls, phase, turn>>
  BY <1>1 DEF FactoryResolves, ResolveBinding
<1>3. /\ order' \in Seq(Bindings) /\ Instances' = Instances \cup {b}
      /\ Unique' /\ DepsFirst'
  BY <1>1, <1>2, SettleKeepsOrder DEF IInv
<1>4. Types'
  BY <1>2, <1>3 DEF IInv, Types
<1>5. StackOK' /\ ParkedOK' /\ AwaitOK'
  BY <1>1, <1>2, <1>3 DEF IInv, StackOK, ParkedOK, AwaitOK
<1>6. CallsOK'
  <2>1. calls[b] = 1 /\ b # None /\ calls' = calls /\ phase' = phase /\ async' = async
    BY <1>1, <1>2, NoneIsNoBinding DEF IInv, CallsOK
  <2>2. ASSUME NEW c \in Bindings
        PROVE  /\ c \in Instances' \/ c = awaited' => calls[c] = 1
               /\ c \notin Instances' /\ c # awaited' /\ (c \notin async \/ phase = "resolving")
                    => calls[c] = 0
    <3>1. c # awaited'
      BY <1>2, NoneIsNoBinding
    <3>2. CASE c = b
      BY <1>3, <2>1, <3>1, <3>2
    <3>3. CASE c # b
      BY <1>3, <3>1, <3>3 DEF IInv, CallsOK
    <3> QED BY <3>2, <3>3
  <2> QED BY <2>1, <2>2 DEF CallsOK
<1> QED BY <1>3, <1>4, <1>5, <1>6 DEF IInv

(* A step that leaves the injector alone.                                  *)
LEMMA ElsewhereKeepsIInv ==
  ASSUME IInv, UNCHANGED injectorVars, UNCHANGED awaited, turn' \in Nat \ {0},
         \/ phase' = phase
         \/ phase' = "failed"
         \/ phase' \in {"onBeforeInit", "onInit", "live"} /\ awaited = None
  PROVE  IInv'
<1>1. UNCHANGED <<deps, async, building, settling, order, calls>> /\ Instances' = Instances
  BY DEF injectorVars, Instances
<1>2. Types'
  BY <1>1 DEF IInv, Types
<1>3. Unique' /\ DepsFirst'
  BY <1>1 DEF IInv, Unique, DepsFirst
<1>4. StackOK'
  BY <1>1 DEF IInv, StackOK
<1>5. ParkedOK'
  BY <1>1 DEF IInv, ParkedOK
<1>6. AwaitOK'
  BY <1>1 DEF IInv, AwaitOK
<1>7. CallsOK'
  BY <1>1 DEF IInv, CallsOK
<1> QED BY <1>2, <1>3, <1>4, <1>5, <1>6, <1>7 DEF IInv

-----------------------------------------------------------------------------
(* Nothing is built at first.                                              *)
LEMMA InitIInv == Init => IInv
<1> SUFFICES ASSUME Init PROVE IInv
  OBVIOUS
<1>1. order = <<>> /\ building = <<>> /\ settling = {} /\ Instances = {}
  BY DEF Init, InjectorInit, Instances, Elements
<1>2. Types
  BY <1>1, GraphsAssumption DEF Init, InjectorInit, Types
<1>3. Unique /\ DepsFirst /\ StackOK /\ ParkedOK /\ AwaitOK
  BY <1>1 DEF Init, Unique, DepsFirst, StackOK, ParkedOK, AwaitOK
<1>4. CallsOK
  BY <1>1, NoneIsNoBinding DEF Init, InjectorInit, CallsOK
<1> QED BY <1>2, <1>3, <1>4 DEF IInv

(* Every step of create() and of app.get() keeps the invariant.            *)
LEMMA BootKeepsIInv == ASSUME IInv, Boot PROVE IInv'
<1> USE DEF bootVars
<1>0. turn \in Nat \ {0} /\ turn + 1 \in Nat \ {0} /\ 1 \in Nat \ {0}
  BY DEF IInv, Types
<1>1. CASE ResolveNext
  <2>1. turn \in 1..Len(Eager) /\ awaited = None
    BY <1>0, <1>1, ApplicationAssumption, LenProperties DEF ResolveNext, Resolving
  <2>2. Eager[turn] \in Bindings
    BY <2>1, ApplicationAssumption, ElementOfSeq
  <2> QED BY <1>1, <2>1, <2>2, BeginKeepsIInv DEF ResolveNext
<1>2. CASE Building
  BY <1>2, TakeDepKeepsIInv, DescendKeepsIInv, ConstructKeepsIInv DEF Building
<1>3. CASE GetThrows
  BY <1>3, UnwindKeepsIInv DEF GetThrows, Rejects
<1>4. CASE GetSignals
  BY <1>4, ParkKeepsIInv DEF GetSignals
<1>5. CASE FactoryResolves
  BY <1>5, FactoryResolvesKeepsIInv
<1>6. CASE Resolved \/ FactoryRejects \/ AllResolved
  BY <1>0, <1>6, ElsewhereKeepsIInv DEF Resolved, FactoryRejects, AllResolved, Rejects
<1>7. CASE InitHookEnds \/ InitHookThrows \/ PassEnds
  <2>1. awaited = None
    BY <1>7 DEF InitHookEnds, InitHookThrows, PassEnds, InPass, IInv, AwaitOK
  <2> QED BY <1>0, <1>7, <2>1, ElsewhereKeepsIInv
          DEF InitHookEnds, InitHookThrows, PassEnds, Rejects
<1>8. CASE \E b \in Bindings : Get(b)
  <2>1. awaited = None
    BY <1>8 DEF Get, IInv, AwaitOK
  <2> QED BY <1>8, <2>1, BeginKeepsIInv DEF Get
<1> QED BY <1>1, <1>2, <1>3, <1>4, <1>5, <1>6, <1>7, <1>8 DEF Boot

(* Drain, teardown and the server never touch the injector.                *)
LEMMA EndKeepsIInv == ASSUME IInv, Teardown \/ Http PROVE IInv'
<1>1. UNCHANGED <<injectorVars, bootVars>>
  BY DEF Teardown, Http, Drain, Shutdown, TeardownBegins, ShutdownHookSettles, Closes,
         DrainHookSettles, Listen, RequestBegins, RequestEnds, HttpShutdown, HttpStops,
         HttpStopped, RelayClosed, HttpCloses, Built
<1>2. turn' \in Nat \ {0}
  BY <1>1 DEF bootVars, IInv, Types
<1> QED BY <1>1, <1>2, ElsewhereKeepsIInv DEF bootVars

(* The invariant of the container.                                         *)
LEMMA IInvAlways == Spec => []IInv
<1>1. IInv /\ UNCHANGED vars => IInv'
  <2> SUFFICES ASSUME IInv, UNCHANGED vars PROVE IInv'
    OBVIOUS
  <2>1. UNCHANGED <<injectorVars, bootVars>>
    BY DEF vars
  <2>2. turn' \in Nat \ {0}
    BY <2>1 DEF bootVars, IInv, Types
  <2> QED BY <2>1, <2>2, ElsewhereKeepsIInv DEF bootVars
<1>2. IInv /\ [Next]_vars => IInv'
  BY <1>1, BootKeepsIInv, EndKeepsIInv DEF Next
<1> QED BY <1>2, InitIInv, PTL DEF Spec

(* For every set of bindings, wiring and choice of async factories: every  *)
(* instance is built by one call and after all it depends on.              *)
THEOREM BuildOrderAlways == Spec => []BuildOrder
<1>1. IInv => BuildOrder
  BY DEF IInv, Unique, CallsOK, BuildOrder, BuiltOnce, Types, Instances, Elements
<1> QED BY <1>1, IInvAlways, PTL

-----------------------------------------------------------------------------
(* shutdown() takes its plan once the drain is over, and the memoized      *)
(* drain cannot start again.                                               *)
DrainOK == shutting \in {"teardown", "closed"} => Drained

PlanOK ==
  /\ shutting \in {"no", "draining"} => plan = <<>>
  /\ \A i, j \in DOMAIN plan : i < j => plan[i] \notin Elements(deps[plan[j]])

(* A topological order without repetitions, reversed, never has a          *)
(* dependency before its dependent.                                        *)
LEMMA ReversedFollowsDeps ==
  ASSUME Types, Unique, DepsFirst, NEW i \in DOMAIN Reversed(order),
         NEW j \in DOMAIN Reversed(order), i < j
  PROVE  Reversed(order)[i] \notin Elements(deps[Reversed(order)[j]])
<1> DEFINE n == Len(order)  p == n + 1 - i  q == n + 1 - j
<1>1. n \in Nat /\ DOMAIN order = 1..n
  BY LenProperties DEF Types
<1>2. i \in 1..n /\ j \in 1..n
  BY <1>1 DEF Reversed
<1>3. p \in 1..n /\ q \in 1..n /\ q < p
  BY <1>1, <1>2
<1>4. Reversed(order)[i] = order[p] /\ Reversed(order)[j] = order[q]
  BY <1>2 DEF Reversed
<1>5. Elements(deps[order[q]]) \subseteq {order[k] : k \in 1..(q - 1)}
  BY <1>1, <1>3 DEF DepsFirst
<1>6. \A k \in 1..(q - 1) : k \in 1..n /\ k # p
  BY <1>1, <1>3
<1>7. \A k \in 1..(q - 1) : order[k] # order[p]
  BY <1>1, <1>3, <1>6 DEF Unique
<1> QED BY <1>4, <1>5, <1>7

(* The teardown's own invariant: it starts when the drain is over, with a  *)
(* copy of #order that later app.get() calls cannot reach.                 *)
LEMMA TeardownAlways == Spec => [](DrainOK /\ PlanOK)
<1>1. Init => DrainOK /\ PlanOK
  BY DEF Init, DrainOK, PlanOK
<1>2. ASSUME IInv, DrainOK, PlanOK, [Next]_vars PROVE (DrainOK /\ PlanOK)'
  <2>1. CASE TeardownBegins
    <3>1. plan' = Reversed(order) /\ deps' = deps /\ shutting' = "teardown"
      BY <2>1 DEF TeardownBegins, Built, injectorVars
    <3>2. DrainOK'
      BY <2>1 DEF TeardownBegins, DrainOK, Drained, drainVars
    <3>3. ASSUME NEW i \in DOMAIN Reversed(order), NEW j \in DOMAIN Reversed(order), i < j
          PROVE  Reversed(order)[i] \notin Elements(deps[Reversed(order)[j]])
      BY <1>2, <3>3, ReversedFollowsDeps DEF IInv
    <3> QED BY <3>1, <3>2, <3>3 DEF PlanOK
  <2>2. CASE UNCHANGED <<deps, plan, shutting, draining, pending>>
    BY <1>2, <2>2 DEF DrainOK, PlanOK, Drained
  <2>3. CASE Boot
    <3>1. UNCHANGED <<deps, plan, shutting, draining, pending>>
      BY <2>3 DEF Boot, Later, ResolveNext, Resolved, Building, GetThrows, GetSignals,
         FactoryResolves, FactoryRejects, AllResolved, InitHookEnds, InitHookThrows,
         PassEnds, Get, Begin, TakeDep, Descend, Construct, Unwind, Park, ResolveBinding,
         appVars, drainVars, injectorVars
    <3> QED BY <2>2, <3>1
  <2>4. CASE Drain \/ Shutdown \/ HttpShutdown \/ RelayClosed
    <3>1. /\ deps' = deps /\ plan' = plan
          /\ shutting' = shutting \/ (shutting = "no" /\ shutting' = "draining")
          /\ draining' = TRUE /\ pending' = IF draining THEN pending ELSE Instances
      BY <2>4 DEF Drain, Shutdown, HttpShutdown, RelayClosed, BeginDrain, BeginShutdown,
         Built, appVars, injectorVars
    <3> QED BY <1>2, <3>1 DEF DrainOK, PlanOK, Drained
  <2>5. CASE \E b \in Bindings : DrainHookSettles(b)
    <3>1. UNCHANGED <<deps, plan, shutting, draining>> /\ pending' \subseteq pending
      BY <2>5 DEF DrainHookSettles, Built, appVars, injectorVars
    <3> QED BY <1>2, <3>1 DEF DrainOK, PlanOK, Drained
  <2>6. CASE Closes
    <3>1. UNCHANGED <<deps, plan, draining, pending>> /\ shutting = "teardown"
          /\ shutting' = "closed"
      BY <2>6 DEF Closes, Built, drainVars, injectorVars
    <3> QED BY <1>2, <3>1 DEF DrainOK, PlanOK, Drained
  <2>7. CASE ShutdownHookSettles \/ Listen \/ RequestBegins \/ RequestEnds \/ HttpStops
             \/ HttpStopped \/ HttpCloses
    <3>1. UNCHANGED <<deps, plan, shutting, draining, pending>>
      BY <2>7 DEF ShutdownHookSettles, Listen, RequestBegins, RequestEnds, HttpStops,
         HttpStopped, HttpCloses, Built, appVars, drainVars, injectorVars
    <3> QED BY <2>2, <3>1
  <2>8. CASE UNCHANGED vars
    <3>1. UNCHANGED <<deps, plan, shutting, draining, pending>>
      BY <2>8 DEF vars, appVars, drainVars, injectorVars
    <3> QED BY <2>2, <3>1
  <2> QED BY <1>2, <2>1, <2>3, <2>4, <2>5, <2>6, <2>7, <2>8 DEF Next, Teardown, Http
<1> QED BY <1>1, <1>2, IInvAlways, PTL DEF Spec

(* For every wiring: onShutdown hooks run only once the drain is over, and *)
(* no provider is torn down before one that was built on it.               *)
THEOREM TeardownFollowsDepsAlways == Spec => []TeardownFollowsDeps
<1>1. DrainOK /\ PlanOK => TeardownFollowsDeps
  BY DEF DrainOK, PlanOK, TeardownFollowsDeps
<1> QED BY <1>1, TeardownAlways, PTL

-----------------------------------------------------------------------------
(* A container behind a server is torn down only by the server's own       *)
(* shutdown, which gets there only with no request of before the stop      *)
(* running; a request after it is one of a port bound since.               *)
ServerOK ==
  /\ serving \in Nat /\ ending \in Nat /\ port \in BOOLEAN /\ started \in BOOLEAN
  /\ port = FALSE => serving = 0
  /\ started = FALSE => port = FALSE
  /\ kind = "http" /\ shutting # "no" => stopping \in {"app", "closed"}
  /\ kind = "http" /\ stopping \in {"close", "app", "closed"} => ending = 0

(* Starting an application, draining it and running its onShutdown hooks   *)
(* leave the server alone.                                                 *)
LEMMA ElsewhereKeepsServer ==
  ASSUME Boot \/ Drain \/ TeardownBegins \/ ShutdownHookSettles \/ Closes
           \/ \E b \in Bindings : DrainHookSettles(b)
  PROVE  /\ UNCHANGED <<kind, stopping, port, started, serving, ending>>
         /\ shutting' = shutting \/ shutting # "no"
<1>1. CASE Boot
  BY <1>1 DEF Boot, Later, ResolveNext, Resolved, Building, GetThrows, GetSignals,
     FactoryResolves, FactoryRejects, AllResolved, InitHookEnds, InitHookThrows,
     PassEnds, Get, appVars, httpVars, requestVars
<1>2. CASE Drain \/ TeardownBegins \/ ShutdownHookSettles \/ Closes
  BY <1>2 DEF Drain, TeardownBegins, ShutdownHookSettles, Closes, Built, appVars, httpVars,
     requestVars
<1>3. CASE \E b \in Bindings : DrainHookSettles(b)
  BY <1>3 DEF DrainHookSettles, Built, appVars, httpVars, requestVars
<1> QED BY <1>1, <1>2, <1>3

(* The server's invariant.                                                 *)
LEMMA ServerAlways == Spec => []ServerOK
<1>1. ASSUME Init PROVE ServerOK
  <2>1. serving = 0 /\ ending = 0 /\ shutting = "no" /\ stopping = "no"
    BY <1>1 DEF Init
  <2>2. port = FALSE /\ started = FALSE
    BY <1>1 DEF Init
  <2>3. port \in BOOLEAN /\ started \in BOOLEAN
    BY <2>2, Zenon
  <2> QED BY <2>1, <2>2, <2>3 DEF ServerOK
<1>2. ASSUME ServerOK, [Next]_vars PROVE ServerOK'
  <2> USE <1>2 DEF ServerOK
  <2>1. CASE Boot \/ Drain \/ TeardownBegins \/ ShutdownHookSettles \/ Closes
               \/ \E b \in Bindings : DrainHookSettles(b)
    <3>1. /\ UNCHANGED <<kind, stopping, port, started, serving, ending>>
          /\ shutting' = shutting \/ shutting # "no"
      BY <2>1, ElsewhereKeepsServer
    <3> QED BY <3>1
  <2>2. CASE Shutdown
    BY <2>2 DEF Shutdown, Built, httpVars, requestVars
  <2>3. CASE Listen
    BY <2>3 DEF Listen, Built, appVars, requestVars
  <2>4. CASE RequestBegins
    BY <2>4 DEF RequestBegins, Built, appVars
  <2>5. CASE RequestEnds
    BY <2>5 DEF RequestEnds, Built, appVars
  <2>6. CASE HttpShutdown
    BY <2>6 DEF HttpShutdown, Built, appVars, requestVars
  <2>7. CASE HttpStops
    BY <2>7 DEF HttpStops, Built, appVars
  <2>8. CASE HttpStopped
    BY <2>8 DEF HttpStopped, Built, appVars, requestVars
  <2>9. CASE RelayClosed
    BY <2>9 DEF RelayClosed, BeginShutdown, Built, requestVars
  <2>10. CASE HttpCloses
    BY <2>10 DEF HttpCloses, Built, appVars, requestVars
  <2>11. CASE UNCHANGED vars
    BY <2>11 DEF vars, appVars, httpVars, requestVars
  <2> QED BY <2>1, <2>2, <2>3, <2>4, <2>5, <2>6, <2>7, <2>8, <2>9, <2>10, <2>11
          DEF Next, Teardown, Http
<1> QED BY <1>1, <1>2, PTL DEF Spec

(* For any number of requests: none that was running when the server was   *)
(* stopped outlives the first onShutdown hook, and one that runs later     *)
(* came in at a port bound after the stop.                                 *)
THEOREM RequestsAlwaysKeepProviders == Spec => []RequestsKeepProviders
<1>1. ServerOK => RequestsKeepProviders
  BY DEF ServerOK, RequestsKeepProviders
<1> QED BY <1>1, ServerAlways, PTL

-----------------------------------------------------------------------------
(* What the phases of a shutdown have collected, against the hooks that    *)
(* failed: those of the drain, which only runs hooks of instances, and     *)
(* from the start of the teardown also those of its loop.                  *)
DrainHooks == {<<"onBeforeShutdown", b>> : b \in Instances}

CollectedOK ==
  /\ pending \subseteq Instances
  /\ shutting \in {"no", "draining", "teardown", "closed"}
  /\ shutting \in {"no", "draining"} => threw \subseteq DrainHooks
  /\ shutting \in {"teardown", "closed"} => failures = threw
  /\ raised \subseteq threw
  /\ stopping = "closed" => shutting = "closed" /\ raised = threw

(* Instances are never lost.                                               *)
LEMMA InstancesGrow == ASSUME IInv, Boot PROVE Instances \subseteq Instances'
<1>1. CASE UNCHANGED order
  BY <1>1 DEF Instances
<1>2. CASE Building
  <2>1. CASE TakeDep \/ Descend
    BY <1>1, <2>1 DEF TakeDep, Descend
  <2>2. CASE Construct
    <3>1. Top.binding \in Bindings
      BY <2>2, TopFrame DEF Construct, Complete
    <3> QED BY <2>2, <3>1, AppendElements DEF Construct, Settle, Instances, IInv, Types
  <2> QED BY <1>2, <2>1, <2>2 DEF Building
<1>3. CASE FactoryResolves
  <2>1. awaited \in Bindings
    BY <1>3 DEF FactoryResolves, IInv, Types
  <2>2. order \in Seq(Bindings) /\ (order' = order \/ order' = Append(order, awaited))
    BY <1>3 DEF FactoryResolves, ResolveBinding, Settle, IInv, Types
  <2>3. Elements(Append(order, awaited)) = Elements(order) \cup {awaited}
    BY <2>1, <2>2, AppendElements
  <2> QED BY <1>1, <2>2, <2>3 DEF Instances
<1> QED BY <1>1, <1>2, <1>3 DEF Boot, ResolveNext, Resolved, GetThrows, GetSignals,
           FactoryRejects, AllResolved, InitHookEnds, InitHookThrows, PassEnds, Get,
           Begin, Unwind, Park, injectorVars

(* The invariant of what is collected.                                     *)
LEMMA CollectedAlways == Spec => []CollectedOK
<1>1. Init => CollectedOK
  <2>1. Init => /\ pending = {} /\ shutting = "no" /\ threw = {} /\ raised = {}
                /\ stopping = "no"
    BY DEF Init
  <2> QED BY <2>1 DEF CollectedOK
<1>2. ASSUME IInv, DrainOK, CollectedOK, [Next]_vars PROVE CollectedOK'
  <2> USE <1>2 DEF CollectedOK
  <2>1. CASE Boot
    <3>1. UNCHANGED <<pending, shutting, threw, failures, raised, stopping>>
      BY <2>1 DEF Boot, Later, ResolveNext, Resolved, Building, GetThrows, GetSignals,
         FactoryResolves, FactoryRejects, AllResolved, InitHookEnds, InitHookThrows,
         PassEnds, Get, appVars, drainVars, httpVars
    <3>2. Instances \subseteq Instances'
      BY <2>1, InstancesGrow
    <3>3. DrainHooks \subseteq DrainHooks'
      BY <3>2 DEF DrainHooks
    <3> QED BY <3>1, <3>2, <3>3
  <2>2. CASE Teardown \/ Http \/ UNCHANGED vars
    <3>1. Instances' = Instances
      BY <2>2 DEF Instances, Teardown, Http, Drain, Shutdown, TeardownBegins,
         ShutdownHookSettles, Closes, DrainHookSettles, Listen, RequestBegins, RequestEnds,
         HttpShutdown, HttpStops, HttpStopped, RelayClosed, HttpCloses, Built, vars,
         injectorVars
    <3>2. DrainHooks' = DrainHooks
      BY <3>1 DEF DrainHooks
    <3>3. CASE Drain \/ Shutdown \/ HttpShutdown \/ RelayClosed
      <4>1. /\ UNCHANGED <<threw, failures, raised>>
            /\ shutting' = shutting \/ (shutting = "no" /\ shutting' = "draining")
            /\ pending' \in {pending, Instances}
            /\ stopping' = stopping \/ stopping' \in {"drain", "app"}
        <5>1. CASE Drain \/ HttpShutdown
          BY <5>1 DEF Drain, HttpShutdown, BeginDrain, Built, appVars, httpVars
        <5>2. CASE Shutdown \/ RelayClosed
          BY <5>2 DEF Shutdown, RelayClosed, BeginDrain, BeginShutdown, Built, httpVars
        <5> QED BY <3>3, <5>1, <5>2
      <4> QED BY <3>1, <3>2, <4>1
    <3>4. CASE \E b \in Bindings : DrainHookSettles(b)
      <4>1. PICK b \in pending : DrainHookSettles(b)
        BY <3>4 DEF DrainHookSettles
      <4>2. /\ UNCHANGED <<shutting, failures, raised, stopping>>
            /\ pending' = pending \ {b}
            /\ threw' = threw \/ threw' = threw \cup {<<"onBeforeShutdown", b>>}
        BY <4>1 DEF DrainHookSettles, Built, appVars, httpVars
      <4>3. <<"onBeforeShutdown", b>> \in DrainHooks
        BY DEF DrainHooks
      <4>4. shutting \in {"no", "draining"}
        BY DEF DrainOK, Drained
      <4> QED BY <3>1, <3>2, <4>2, <4>3, <4>4
    <3>5. CASE TeardownBegins
      <4>1. /\ UNCHANGED <<pending, threw, raised, stopping>> /\ shutting = "draining"
            /\ shutting' = "teardown" /\ failures' = DrainHooks \cap threw
        BY <3>5 DEF TeardownBegins, Built, drainVars, httpVars, DrainFailures, DrainHooks
      <4> QED BY <3>1, <3>2, <4>1
    <3>6. CASE ShutdownHookSettles
      <4>1. PICK f : /\ UNCHANGED <<pending, shutting, raised, stopping>>
                     /\ shutting = "teardown"
                     /\ \/ UNCHANGED <<threw, failures>>
                        \/ threw' = threw \cup {f} /\ failures' = failures \cup {f}
        BY <3>6 DEF ShutdownHookSettles, Built, drainVars, httpVars
      <4> QED BY <3>1, <3>2, <4>1
    <3>7. CASE Closes
      <4>1. /\ UNCHANGED <<pending, threw, failures, raised, stopping>>
            /\ shutting = "teardown" /\ shutting' = "closed"
        BY <3>7 DEF Closes, Built, drainVars, httpVars
      <4> QED BY <3>1, <3>2, <4>1
    <3>8. CASE HttpStops
      <4>1. /\ UNCHANGED <<pending, threw, failures, shutting>>
            /\ stopping' = "stop" /\ raised' = DrainHooks \cap threw
        BY <3>8 DEF HttpStops, Built, drainVars, appVars, DrainFailures, DrainHooks
      <4> QED BY <3>1, <3>2, <4>1
    <3>9. CASE HttpCloses
      <4>1. /\ UNCHANGED <<pending, threw, failures, shutting>> /\ shutting = "closed"
            /\ stopping' = "closed" /\ raised' = raised \cup failures
        BY <3>9 DEF HttpCloses, Built, drainVars, appVars
      <4> QED BY <3>1, <3>2, <4>1
    <3>10. CASE Listen \/ RequestBegins \/ RequestEnds \/ HttpStopped \/ UNCHANGED vars
      <4>1. /\ UNCHANGED <<pending, threw, failures, shutting, raised>>
            /\ stopping' = stopping \/ stopping' = "close"
        BY <3>10 DEF Listen, RequestBegins, RequestEnds, HttpStopped, Built, drainVars,
           appVars, vars, httpVars
      <4> QED BY <3>1, <3>2, <4>1
    <3> QED BY <2>2, <3>3, <3>4, <3>5, <3>6, <3>7, <3>8, <3>9, <3>10 DEF Teardown, Http
  <2> QED BY <1>2, <2>1, <2>2 DEF Next
<1> QED BY <1>1, <1>2, IInvAlways, TeardownAlways, PTL DEF Spec

(* For every wiring and every set of hooks that fail, in the drain or in   *)
(* the teardown: what a shutdown ends with names exactly those.            *)
THEOREM EveryFailureAlwaysKept == Spec => []EveryFailureKept
<1>1. CollectedOK => EveryFailureKept
  BY DEF CollectedOK, EveryFailureKept
<1> QED BY <1>1, CollectedAlways, PTL

-----------------------------------------------------------------------------
(* Each frame of the stack is the dependency the frame below it is at, so  *)
(* that a binding met twice closes a cycle; and what create() is past in   *)
(* its loop over Eager has an instance.                                    *)
ChainOK ==
  \A i, j \in DOMAIN building :
    j = i + 1 =>
      /\ building[i].at + 1 \in DOMAIN deps[building[i].binding]
      /\ building[j].binding = deps[building[i].binding][building[i].at + 1]

Knotted == \E S \in SUBSET Bindings : Knot(S)

EagerOK ==
  /\ phase = "resolving" =>
       \A k \in DOMAIN Eager : k < turn => Eager[k] \in Instances
  /\ phase \in {"onBeforeInit", "onInit", "live"} => Elements(Eager) \subseteq Instances

WiringOK == ChainOK /\ EagerOK /\ (error = "cycle" => Knotted)

(* A nonempty set of natural numbers has a least one.                      *)
LEMMA LeastNatural ==
  ASSUME NEW T, T \subseteq Nat, T # {}
  PROVE  \E x \in T : \A y \in T : x <= y
<1> DEFINE R == OpToRel(<, Nat)
<1>1. IsWellFoundedOn(R, Nat)
  BY NatLessThanWellFounded
<1>2. \A x, y \in Nat : x < y => <<x, y>> \in R
  BY DEF OpToRel
<1> HIDE DEF R
<1>3. PICK x \in T : \A y \in T : <<y, x>> \notin R
  BY <1>1, WFMin
<1>4. \A y \in T : ~(y < x)
  BY <1>2, <1>3
<1>5. \A y \in T : x <= y
  BY <1>4
<1> QED BY <1>5

(* A topological order has no cycle: of a set each of whose bindings needs *)
(* another of it, the one built first would need one built before it.      *)
LEMMA BuiltIsAcyclic ==
  ASSUME Types, DepsFirst, NEW S \in SUBSET Instances
  PROVE  ~Knot(S)
<1> SUFFICES ASSUME Knot(S) PROVE FALSE
  OBVIOUS
<1> DEFINE T == {i \in DOMAIN order : order[i] \in S}
<1>1. DOMAIN order = 1..Len(order) /\ Len(order) \in Nat
  BY LenProperties DEF Types
<1>2. T \subseteq Nat /\ T # {}
  BY <1>1 DEF Knot, Instances, Elements
<1>3. PICK i \in T : \A k \in T : i <= k
  <2> HIDE DEF T
  <2> QED BY <1>2, LeastNatural
<1>4. PICK c \in Elements(deps[order[i]]) : c \in S
  BY <1>3 DEF Knot
<1>5. PICK k \in 1..(i - 1) : c = order[k]
  BY <1>3, <1>4 DEF DepsFirst
<1>6. i \in Nat /\ k \in Nat /\ k \in T /\ k < i
  BY <1>1, <1>3, <1>4, <1>5
<1>7. i <= k
  BY <1>3, <1>6
<1> QED BY <1>6, <1>7

(* A binding that is wanted while it is under construction closes a cycle: *)
(* the bindings on the stack from it to the top.                           *)
LEMMA MeetingIsACycle == ASSUME IInv, ChainOK, MeetsItself PROVE Knotted
<1> DEFINE n == Len(building)
<1>1. ~Idle /\ Top.at < Len(deps[Top.binding]) /\ Wanted \in OnStack
  BY DEF MeetsItself, Wanting
<1>2. /\ n \in Nat \ {0} /\ DOMAIN building = 1..n /\ Top = building[n]
      /\ Top \in [binding : Bindings, at : Nat] /\ deps[Top.binding] \in Seq(Bindings)
  BY <1>1, TopFrame
<1>3. PICK j \in 1..n : Wanted = building[j].binding
  BY <1>1, <1>2 DEF OnStack
<1> DEFINE S == {building[i].binding : i \in j..n}
<1>4. n \in Nat /\ j \in Nat /\ 1 <= j /\ j <= n
  BY <1>2, <1>3
<1>5. \A i \in 1..n : building[i].binding \in Bindings
  <2>1. building \in Seq([binding : Bindings, at : Nat])
    BY DEF IInv, Types
  <2>2. \A i \in 1..n : building[i] \in [binding : Bindings, at : Nat]
    BY <2>1, ElementOfSeq
  <2> QED BY <2>2
<1>6. S \subseteq Bindings
  BY <1>2, <1>3, <1>5
<1>7. ASSUME NEW i \in j..n PROVE Elements(deps[building[i].binding]) \cap S # {}
  <2>1. i \in 1..n
    BY <1>2, <1>3
  <2>2. CASE i = n
    <3>1. Top.at + 1 \in DOMAIN deps[Top.binding]
      BY <1>1, <1>2, LenProperties
    <3>2. Wanted \in Elements(deps[building[i].binding])
      BY <1>2, <2>2, <3>1 DEF Elements, Wanted
    <3>3. Wanted \in S
      BY <1>2, <1>3
    <3> QED BY <3>2, <3>3
  <2>3. CASE i # n
    <3>1. i + 1 \in j..n /\ i + 1 \in 1..n
      <4> HIDE DEF n
      <4> QED BY <1>4, <2>3
    <3>2. /\ building[i].at + 1 \in DOMAIN deps[building[i].binding]
          /\ building[i + 1].binding = deps[building[i].binding][building[i].at + 1]
      BY <1>2, <2>1, <3>1 DEF ChainOK
    <3>3. building[i + 1].binding \in Elements(deps[building[i].binding])
      BY <3>2 DEF Elements
    <3> QED BY <3>1, <3>3
  <2> QED BY <2>2, <2>3
<1>8. S # {}
  <2>1. j \in j..n
    BY <1>4
  <2> QED BY <2>1
<1>9. Knot(S)
  BY <1>7, <1>8 DEF Knot
<1> QED BY <1>6, <1>9 DEF Knotted

(* The stack stays a chain while a get() runs.                             *)
LEMMA BuildingKeepsChain == ASSUME IInv, ChainOK, Building PROVE ChainOK'
<1> DEFINE n == Len(building)
<1>1. deps' = deps /\ ~Idle
  BY DEF Building, TakeDep, Descend, Construct, Wanting, Complete
<1>2. /\ n \in Nat \ {0} /\ DOMAIN building = 1..n /\ Top = building[n]
      /\ Top \in [binding : Bindings, at : Nat] /\ deps[Top.binding] \in Seq(Bindings)
      /\ building \in Seq([binding : Bindings, at : Nat])
  BY <1>1, TopFrame DEF IInv, Types
<1>3. CASE TakeDep
  <2>1. building' = [building EXCEPT ![n].at = @ + 1]
    BY <1>3 DEF TakeDep
  <2>2. DOMAIN building' = 1..n
    BY <1>2, <2>1
  <2>3. \A i \in 1..n : building'[i].binding = building[i].binding
    BY <1>2, <2>1
  <2>4. \A i \in 1..n : i # n => building'[i] = building[i]
    BY <1>2, <2>1
  <2>5. ASSUME NEW i \in 1..n, NEW j \in 1..n, j = i + 1
        PROVE  /\ building'[i].at + 1 \in DOMAIN deps[building'[i].binding]
               /\ building'[j].binding
                    = deps[building'[i].binding][building'[i].at + 1]
    <3>1. i # n
      <4> HIDE DEF n
      <4> QED BY <1>2, <2>5
    <3> QED BY <1>2, <2>3, <2>4, <2>5, <3>1 DEF ChainOK
  <2> QED BY <1>1, <2>2, <2>5 DEF ChainOK
<1>4. CASE Descend
  <2>1. Frame(Wanted) = [binding |-> Wanted, at |-> 0]
    BY DEF Frame
  <2>2. building' = Append(building, Frame(Wanted)) /\ Top.at < Len(deps[Top.binding])
    BY <1>4 DEF Descend, Wanting
  <2>3. Top.at + 1 \in DOMAIN deps[Top.binding]
    BY <1>2, <2>2, LenProperties
  <2>4. Wanted \in Bindings
    BY <1>2, <2>3, LenProperties, ElementOfSeq DEF Wanted
  <2>5. /\ DOMAIN building' = 1..(n + 1)
        /\ \A i \in 1..n : building'[i] = building[i]
        /\ building'[n + 1] = Frame(Wanted)
    <3>1. Frame(Wanted) \in [binding : Bindings, at : Nat]
      BY <2>1, <2>4
    <3> QED BY <1>2, <2>2, <3>1, AppendProperties, LenProperties
  <2>6. ASSUME NEW i \in 1..(n + 1), NEW j \in 1..(n + 1), j = i + 1
        PROVE  /\ building'[i].at + 1 \in DOMAIN deps[building'[i].binding]
               /\ building'[j].binding
                    = deps[building'[i].binding][building'[i].at + 1]
    <3>1. i \in 1..n
      BY <1>2, <2>6
    <3>2. CASE j \in 1..n
      BY <1>2, <2>5, <2>6, <3>1, <3>2 DEF ChainOK
    <3>3. CASE j = n + 1
      <4>1. i = n
        <5> HIDE DEF n
        <5> QED BY <1>2, <2>6, <3>1, <3>3
      <4>2. building'[i] = Top /\ building'[j].binding = Wanted
        BY <1>2, <2>1, <2>5, <3>1, <3>3, <4>1
      <4> QED BY <2>3, <4>2 DEF Wanted
    <3> QED BY <1>2, <3>2, <3>3
  <2> QED BY <1>1, <2>5, <2>6 DEF ChainOK
<1>5. CASE Construct
  <2>1. building' = SubSeq(building, 1, n - 1)
    BY <1>5 DEF Construct
  <2>2. DOMAIN building' = 1..(n - 1) /\ \A i \in 1..(n - 1) : building'[i] = building[i]
    BY <1>2, <2>1
  <2>3. \A i \in 1..(n - 1) : i \in DOMAIN building
    BY <1>2
  <2> QED BY <1>1, <2>2, <2>3 DEF ChainOK
<1> QED BY <1>3, <1>4, <1>5 DEF Building

(* Every step keeps the wiring's invariant.                                *)
LEMMA WiringInductive == ASSUME IInv, WiringOK, [Next]_vars PROVE WiringOK'
<1> USE DEF bootVars
<1>0. DOMAIN Eager = 1..Len(Eager) /\ Len(Eager) \in Nat /\ turn \in Nat
  BY ApplicationAssumption, LenProperties DEF IInv, Types
<1>1. ASSUME deps' = deps, error' = error, ChainOK', UNCHANGED <<phase, turn>>,
             Instances \subseteq Instances'
      PROVE  WiringOK'
  BY <1>1 DEF WiringOK, EagerOK, Knotted, Knot
<1>2. ASSUME deps' = deps, building' = <<>> \/ building' = building PROVE ChainOK'
  BY <1>2 DEF WiringOK, ChainOK
<1>3. ASSUME NEW b, Begin(b) PROVE ChainOK'
  BY <1>3 DEF Begin, ChainOK
<1>4. CASE Building
  <2>1. deps' = deps /\ UNCHANGED <<error, phase, turn>>
    BY <1>4 DEF Building, TakeDep, Descend, Construct
  <2> QED BY <1>1, <1>4, <2>1, BuildingKeepsChain, InstancesGrow DEF Boot, WiringOK
<1>5. CASE ResolveNext \/ \E b \in Bindings : Get(b)
  <2>1. UNCHANGED <<deps, error, phase, turn>>
    BY <1>5 DEF ResolveNext, Get, Begin
  <2>2. ChainOK'
    BY <1>3, <1>5 DEF ResolveNext, Get
  <2> QED BY <1>1, <1>5, <2>1, <2>2, InstancesGrow DEF Boot
<1>6. CASE Resolved
  <2>1. /\ UNCHANGED <<deps, building, order, phase, error>> /\ turn' = turn + 1
        /\ Eager[turn] \in Instances
    BY <1>6 DEF Resolved, injectorVars
  <2>2. Instances' = Instances /\ ChainOK'
    BY <1>2, <2>1 DEF Instances
  <2>3. EagerOK'
    BY <1>0, <2>1, <2>2 DEF WiringOK, EagerOK
  <2> QED BY <2>1, <2>2, <2>3 DEF WiringOK, Knotted, Knot
<1>7. CASE GetThrows
  <2>1. /\ UNCHANGED <<deps, order>> /\ building' = <<>>
        /\ \/ UNCHANGED <<phase, turn, error>>
           \/ phase' = "failed" /\ error' = IF MeetsItself THEN "cycle" ELSE "provider"
    BY <1>7 DEF GetThrows, Unwind, Rejects
  <2>2. Instances' = Instances /\ ChainOK'
    BY <1>2, <2>1 DEF Instances
  <2>3. CASE UNCHANGED <<phase, turn, error>>
    BY <1>1, <2>1, <2>2, <2>3
  <2>4. CASE phase' = "failed" /\ error' = IF MeetsItself THEN "cycle" ELSE "provider"
    <3>1. error' = "cycle" => Knotted
      BY <2>4, MeetingIsACycle DEF WiringOK
    <3>2. Knotted' <=> Knotted
      BY <2>1 DEF Knotted, Knot
    <3> QED BY <2>2, <2>4, <3>1, <3>2 DEF WiringOK, EagerOK
  <2> QED BY <2>1, <2>3, <2>4
<1>8. CASE GetSignals
  <2>1. UNCHANGED <<deps, phase, turn, error>> /\ building' = <<>>
    BY <1>8 DEF GetSignals, Park
  <2> QED BY <1>1, <1>2, <1>8, <2>1, InstancesGrow DEF Boot
<1>9. CASE FactoryResolves
  <2>1. UNCHANGED <<deps, phase, turn, error, building>>
    BY <1>9 DEF FactoryResolves, ResolveBinding
  <2> QED BY <1>1, <1>2, <1>9, <2>1, InstancesGrow DEF Boot
<1>10. CASE FactoryRejects \/ InitHookThrows
  <2>1. UNCHANGED <<deps, building>> /\ phase' = "failed" /\ error' = "provider"
    BY <1>10 DEF FactoryRejects, InitHookThrows, Rejects, injectorVars
  <2> QED BY <1>2, <2>1 DEF WiringOK, EagerOK
<1>11. CASE AllResolved
  <2>1. /\ UNCHANGED <<deps, building, order, error>> /\ phase' = "onBeforeInit"
        /\ phase = "resolving" /\ turn > Len(Eager)
    BY <1>11 DEF AllResolved, injectorVars
  <2>2. Elements(Eager) \subseteq Instances
    BY <1>0, <2>1 DEF WiringOK, EagerOK, Elements
  <2> QED BY <1>2, <2>1, <2>2 DEF WiringOK, EagerOK, Knotted, Knot, Instances
<1>12. CASE InitHookEnds \/ PassEnds
  <2>1. /\ UNCHANGED <<deps, building, order, error>>
        /\ phase \in {"onBeforeInit", "onInit"} /\ phase' \in {phase, "onInit", "live"}
    BY <1>12 DEF InitHookEnds, PassEnds, InPass, injectorVars
  <2> QED BY <1>2, <2>1 DEF WiringOK, EagerOK, Knotted, Knot, Instances
<1>13. CASE Teardown \/ Http \/ UNCHANGED vars
  <2>1. UNCHANGED <<deps, building, order, phase, turn, error>>
    BY <1>13 DEF Teardown, Http, Drain, Shutdown, TeardownBegins,
       ShutdownHookSettles, Closes, DrainHookSettles, Listen, RequestBegins, RequestEnds,
       HttpShutdown, HttpStops, HttpStopped, RelayClosed, HttpCloses, Built, vars,
       injectorVars
  <2> QED BY <1>1, <1>2, <2>1 DEF Instances
<1> QED BY <1>4, <1>5, <1>6, <1>7, <1>8, <1>9, <1>10, <1>11, <1>12, <1>13 DEF Next, Boot

(* For every wiring: create() blames a cycle only where there is one, and  *)
(* an application that starts has every declared binding and no cycle      *)
(* among what it built.                                                    *)
THEOREM CyclesAlwaysFound == Spec => []CyclesFound
<1>1. Init => WiringOK
  BY DEF Init, InjectorInit, WiringOK, ChainOK, EagerOK
<1>2. IInv /\ WiringOK => CyclesFound
  BY BuiltIsAcyclic DEF IInv, WiringOK, EagerOK, Knotted, CyclesFound
<1> QED BY <1>1, <1>2, WiringInductive, IInvAlways, PTL DEF Spec

-----------------------------------------------------------------------------
(* Positions that are some have a first one and a last one.                *)
LEMMA FirstAndLast ==
  ASSUME NEW n \in Nat, NEW at \in SUBSET (1..n), at # {}
  PROVE  Min(at) \in at /\ Max(at) \in at
<1>1. at \subseteq Nat /\ \E first \in at : \A k \in at : first <= k
  <2>1. at \subseteq Nat
    OBVIOUS
  <2> QED BY <2>1, LeastNatural
<1> DEFINE fromEnd == {n - k : k \in at}
<1>2. fromEnd \in SUBSET Nat /\ fromEnd # {}
  <2>1. \A k \in at : n - k \in Nat
    OBVIOUS
  <2>2. PICK k \in at : TRUE
    OBVIOUS
  <2> QED BY <2>1, <2>2
<1>3. PICK d \in fromEnd : \A e \in fromEnd : d <= e
  BY <1>2, LeastNatural
<1>4. PICK last \in at : d = n - last
  BY <1>3
<1>5. \A k \in at : last >= k
  <2> SUFFICES ASSUME NEW k \in at PROVE last >= k
    OBVIOUS
  <2>1. n - last <= n - k
    BY <1>3, <1>4
  <2>2. k \in Nat /\ last \in Nat
    BY <1>1
  <2> HIDE DEF fromEnd
  <2> QED BY <2>1, <2>2
<1>6. Max(at) \in at
  BY <1>5 DEF Max
<1>7. Min(at) \in at
  BY <1>1 DEF Min
<1> QED BY <1>6, <1>7

(* What a list of maps binds is what some of them bind, and each token has *)
(* the binding of the first, or of the last, that binds it.                *)
LEMMA MapsOK ==
  ASSUME NEW n \in Nat, NEW maps, DOMAIN maps = 1..n
  PROVE  /\ \A t : t \in DOMAIN FirstOf(maps) <=> \E i \in 1..n : t \in DOMAIN maps[i]
         /\ \A t : t \in DOMAIN LastOf(maps) <=> \E i \in 1..n : t \in DOMAIN maps[i]
         /\ \A t \in DOMAIN FirstOf(maps) :
              \E i \in 1..n : t \in DOMAIN maps[i] /\ FirstOf(maps)[t] = maps[i][t]
         /\ \A t \in DOMAIN LastOf(maps) :
              Max(Having(maps, t)) \in Having(maps, t) /\ LastOf(maps)[t] = maps[Max(Having(maps, t))][t]
<1> DEFINE all == UNION {DOMAIN maps[i] : i \in DOMAIN maps}
<1>1. DOMAIN FirstOf(maps) = all /\ DOMAIN LastOf(maps) = all
  BY DEF FirstOf, LastOf
<1>2. \A t : t \in all <=> \E i \in 1..n : t \in DOMAIN maps[i]
  OBVIOUS
<1>3. ASSUME NEW t \in all
      PROVE  /\ Having(maps, t) \in SUBSET (1..n) /\ Having(maps, t) # {}
             /\ FirstOf(maps)[t] = maps[Min(Having(maps, t))][t]
             /\ LastOf(maps)[t] = maps[Max(Having(maps, t))][t]
  <2>1. Having(maps, t) \in SUBSET (1..n) /\ Having(maps, t) # {}
    BY <1>2 DEF Having
  <2>2. FirstOf(maps)[t] = maps[Min(Having(maps, t))][t] /\ LastOf(maps)[t] = maps[Max(Having(maps, t))][t]
    BY DEF FirstOf, LastOf
  <2> QED BY <2>1, <2>2
<1>4. \A t \in all : Min(Having(maps, t)) \in Having(maps, t) /\ Max(Having(maps, t)) \in Having(maps, t)
  BY <1>3, FirstAndLast
<1> HIDE DEF all
<1>5. \A t : \A i \in Having(maps, t) : i \in 1..n /\ t \in DOMAIN maps[i]
  BY DEF Having
<1>6. \A t \in all : \E i \in 1..n : t \in DOMAIN maps[i] /\ FirstOf(maps)[t] = maps[i][t]
  <2> SUFFICES ASSUME NEW t \in all
               PROVE  \E i \in 1..n : t \in DOMAIN maps[i] /\ FirstOf(maps)[t] = maps[i][t]
    OBVIOUS
  <2>1. Min(Having(maps, t)) \in 1..n /\ t \in DOMAIN maps[Min(Having(maps, t))]
    BY <1>4, <1>5
  <2> QED BY <1>3, <2>1
<1> QED BY <1>1, <1>2, <1>3, <1>4, <1>6

-----------------------------------------------------------------------------
(* The reference definitions are least sets: they are closed and lie       *)
(* inside every closed set.                                                *)
LEMMA ReachableOK ==
  ASSUME layout \in Layouts
  PROVE  /\ Root \in Reachable /\ Reachable \subseteq Modules
         /\ \A d \in Reachable : ToSet(layout.imports[d]) \subseteq Reachable
         /\ \A S \in SUBSET Modules :
              Root \in S /\ (\A d \in S : ToSet(layout.imports[d]) \subseteq S) => Reachable \subseteq S
<1>1. \A d \in Modules : ToSet(layout.imports[d]) \subseteq Modules
  <2> SUFFICES ASSUME NEW d \in Modules PROVE ToSet(layout.imports[d]) \subseteq Modules
    OBVIOUS
  <2>1. layout.imports[d] \in Seq(Modules)
    BY ScopeAssumption
  <2> QED BY <2>1 DEF ToSet
<1>2. Root \in Modules
  BY ScopeAssumption
<1>3. \A d \in Reachable : ToSet(layout.imports[d]) \subseteq Reachable
  <2> SUFFICES ASSUME NEW d \in Reachable, NEW m \in ToSet(layout.imports[d]) PROVE m \in Reachable
    OBVIOUS
  <2>1. m \in Modules
    BY <1>1 DEF Reachable
  <2> SUFFICES ASSUME NEW S \in SUBSET Modules, Root \in S,
                      \A e \in S : ToSet(layout.imports[e]) \subseteq S
               PROVE  m \in S
    BY <2>1 DEF Reachable
  <2>2. d \in S
    BY DEF Reachable
  <2> QED BY <2>2
<1> QED BY <1>2, <1>3 DEF Reachable

(* A declaration that is exported is exposed by its owner, and by whoever  *)
(* passes on what an exposing module exposes.                              *)
LEMMA ExposedOK ==
  ASSUME NEW o \in Reachable, NEW t, t \in Declares(o) \cap ToSet(layout.exports[o])
  PROVE  /\ o \in ExposedBy(o, t)
         /\ \A d \in Reachable, i \in ExposedBy(o, t) :
              \/ i \in ToSet(layout.exports[d])
              \/ t \in ToSet(layout.exports[d]) \ Declares(d) /\ i \in ToSet(layout.imports[d])
              => d \in ExposedBy(o, t)
<1> DEFINE Closed(S) == o \in S /\ \A d \in Reachable : PassesOn(d, t, S) => d \in S
<1>1. ExposedBy(o, t) = {m \in Reachable : \A S \in SUBSET Reachable : Closed(S) => m \in S}
  BY DEF ExposedBy
<1>2. o \in ExposedBy(o, t)
  BY <1>1
<1>3. ASSUME NEW d \in Reachable, NEW i \in ExposedBy(o, t),
             \/ i \in ToSet(layout.exports[d])
             \/ t \in ToSet(layout.exports[d]) \ Declares(d) /\ i \in ToSet(layout.imports[d])
      PROVE  d \in ExposedBy(o, t)
  <2> SUFFICES ASSUME NEW S \in SUBSET Reachable, Closed(S) PROVE d \in S
    BY <1>1
  <2>1. i \in S
    BY <1>1
  <2>2. PassesOn(d, t, S)
    BY <1>3, <2>1 DEF PassesOn
  <2> QED BY <2>2
<1> QED BY <1>2, <1>3

(* Only what its owner declares and exports is exposed, and only by        *)
(* modules that every closed set with the owner in it has.                 *)
LEMMA ExposedInside ==
  ASSUME NEW o \in Reachable, NEW t, NEW m \in ExposedBy(o, t)
  PROVE  /\ t \in Declares(o) \cap ToSet(layout.exports[o]) /\ m \in Reachable
         /\ \A S \in SUBSET Reachable :
              o \in S /\ (\A d \in Reachable : PassesOn(d, t, S) => d \in S) => m \in S
BY DEF ExposedBy
-----------------------------------------------------------------------------
(* collectModules() never lists a module before its imports are seen, and  *)
(* sees nothing out of the root's reach.                                   *)
VisitFrame == [module : Modules, next : Nat \ {0}]

WalkOK ==
  /\ layout \in Layouts /\ modules \in Seq(Modules) /\ walk \in Seq(VisitFrame)
  /\ Seen \subseteq Reachable /\ Root \in Seen
  /\ \A m \in Collected : ToSet(layout.imports[m]) \subseteq Seen
  /\ \A i \in DOMAIN walk : \A k \in DOMAIN layout.imports[walk[i].module] :
       k < walk[i].next => layout.imports[walk[i].module][k] \in Seen
  /\ boot # "collect" => walk = <<>>

(* Overrides and promotions come after the scopes.                         *)
OptionsOK ==
  /\ overridden \subseteq Tokens /\ promoted \subseteq Tokens
  /\ boot \notin {"promote", "built", "nothing replaced"} => overridden = {}
  /\ boot \notin {"built", "nothing replaced"} => promoted = {}

(* A module's own bindings are its providers, whichever provider is laid   *)
(* over them.                                                              *)
OwnOK ==
  boot \notin {"collect", "duplicate"} =>
    /\ DOMAIN own = Collected
    /\ \A m \in Collected :
         /\ DOMAIN own[m] = Declares(m)
         /\ \A t \in Declares(m) :
              own[m][t] = Binding(t, m, IF t \in overridden THEN "override" ELSE "declared")

(* A binding of m's set is that of an owner whose declaration m exposes,   *)
(* and what m offers and lacks m is still to be visited for.               *)
Exposed(m, t, binding) ==
  t \in Tokens /\ \E o \in Reachable : binding = Binding(t, o, "declared") /\ m \in ExposedBy(o, t)

Offers(m, t) ==
  \/ \E e \in ToSet(layout.exports[m]) \cap Collected : t \in DOMAIN sets[e]
  \/ /\ t \in ToSet(layout.exports[m])
     /\ t \in Declares(m) \/ \E i \in ToSet(layout.imports[m]) : t \in DOMAIN sets[i]

SetsOK ==
  boot = "exports" =>
    /\ DOMAIN sets = Collected /\ worklist \in Seq(Modules) /\ ToSet(worklist) \subseteq Collected
    /\ \A m \in Collected : \A t \in DOMAIN sets[m] : Exposed(m, t, sets[m][t])
    /\ \A m \in Collected \ ToSet(worklist), t \in Tokens : Offers(m, t) => t \in DOMAIN sets[m]

(* What is seen, but for promoted contracts, is somebody's own binding.    *)
ViewsOK ==
  boot \in {"scopes", "promote", "built"} =>
    /\ DOMAIN visible = Collected
    /\ \A m \in Collected : \A t \in DOMAIN visible[m] \ promoted :
         /\ t \in Tokens
         /\ \E o \in Reachable : t \in Declares(o) /\ visible[m][t] = own[o][t]

IScope == WalkOK /\ OptionsOK /\ OwnOK /\ SetsOK /\ ViewsOK

(* While the layout stays, so does what the reference definitions say.     *)
LEMMA SameLayout ==
  ASSUME layout' = layout
  PROVE  /\ Reachable' = Reachable
         /\ \A o, t : ExposedBy(o, t)' = ExposedBy(o, t)
         /\ \A t : Exposing(t)' = Exposing(t)
         /\ \A m : Declares(m)' = Declares(m)
         /\ \A m, t, binding : Exposed(m, t, binding)' <=> Exposed(m, t, binding)
         /\ \A m, t, binding : SeenByRule(m, t, binding)' <=> SeenByRule(m, t, binding)
<1>1. Reachable' = Reachable
  BY DEF Reachable
<1>2. \A m : Declares(m)' = Declares(m)
  BY DEF Declares
<1>3. \A o, t : ExposedBy(o, t)' = ExposedBy(o, t)
  BY <1>1, <1>2 DEF ExposedBy, PassesOn
<1>4. \A t : Exposing(t)' = Exposing(t)
  BY <1>1, <1>3 DEF Exposing
<1>5. \A m, t, binding : Exposed(m, t, binding)' <=> Exposed(m, t, binding)
  BY <1>1, <1>3 DEF Exposed, Binding
<1>6. \A m, t, binding : SeenByRule(m, t, binding)' <=> SeenByRule(m, t, binding)
  BY <1>2, <1>3, <1>4 DEF SeenByRule
<1> QED BY <1>1, <1>2, <1>3, <1>4, <1>5, <1>6

(* What a layout is made of.                                               *)
LEMMA LayoutTypes ==
  ASSUME layout \in Layouts, NEW m \in Modules
  PROVE  /\ layout.imports[m] \in Seq(Modules) /\ ToSet(layout.imports[m]) \subseteq Modules
         /\ layout.exports[m] \in Seq(Tokens \cup Modules)
         /\ ToSet(layout.exports[m]) \subseteq Tokens \cup Modules
         /\ Declares(m) \subseteq Tokens
<1>1. layout.imports[m] \in Seq(Modules)
  BY ScopeAssumption
<1>2. layout.exports[m] \in Seq(Tokens \cup Modules)
  BY ScopeAssumption
<1>3. layout.providers[m] \in Seq(Tokens)
  BY ScopeAssumption
<1>4. \A S : \A s \in Seq(S) : ToSet(s) \subseteq S
  BY DEF ToSet
<1> QED BY <1>1, <1>2, <1>3, <1>4 DEF Declares

-----------------------------------------------------------------------------
(* visit(): a module is listed once all its imports are seen.              *)
LEMMA VisitImportKeepsWalk ==
  ASSUME WalkOK, VisitImport
  PROVE  WalkOK'
<1> DEFINE n == Len(walk)
           top == walk[n]
           past == [walk EXCEPT ![n].next = @ + 1]
           imported == layout.imports[top.module][top.next]
<1>1. layout' = layout /\ boot' = boot /\ modules' = modules /\ boot = "collect" /\ walk # <<>>
  BY DEF VisitImport
<1>2. n \in Nat /\ n > 0 /\ DOMAIN walk = 1..n /\ walk \in Seq(VisitFrame) /\ \A i \in 1..n : walk[i] \in VisitFrame
  BY <1>1 DEF WalkOK
<1>3. top.module \in Modules /\ top.next \in Nat \ {0} /\ top.module \in Seen
  BY <1>2 DEF Seen, VisitFrame
<1>4. imported \in Modules /\ imported \in ToSet(layout.imports[top.module])
  <2>1. layout.imports[top.module] \in Seq(Modules)
    BY <1>3, LayoutTypes DEF WalkOK
  <2>2. top.next \in 1..Len(layout.imports[top.module])
    BY <1>3, <2>1 DEF VisitImport, TopVisit, ToVisit
  <2> QED BY <2>1, <2>2 DEF ToSet
<1>5. imported \in Reachable
  BY <1>3, <1>4, ReachableOK DEF WalkOK
<1>6. /\ DOMAIN past = 1..n /\ \A i \in 1..n : past[i].module = walk[i].module
      /\ \A i \in 1..n : i # n => past[i] = walk[i]
      /\ past[n].next = top.next + 1 /\ past[n] \in VisitFrame
  BY <1>2, <1>3 DEF VisitFrame
<1>7. past \in Seq(VisitFrame) /\ Len(past) = n
  <2>1. past \in [1..n -> VisitFrame]
    BY <1>2, <1>6
  <2> HIDE DEF past, n
  <2> QED BY <1>2, <2>1
<1>8. Enters(imported) \in VisitFrame /\ Enters(imported).module = imported /\ Enters(imported).next = 1
  BY <1>4 DEF VisitFrame, Enters
<1>9. walk' = IF imported \in Seen THEN past ELSE Append(past, Enters(imported))
  BY DEF VisitImport, TopVisit, ToVisit
<1> HIDE DEF past, top, imported, n
<1>10. /\ walk' \in Seq(VisitFrame) /\ 1..n \subseteq DOMAIN walk'
       /\ \A i \in 1..n : walk'[i] = past[i]
       /\ \A i \in DOMAIN walk' \ 1..n : walk'[i] = Enters(imported)
       /\ imported \notin Seen => \E i \in DOMAIN walk' : walk'[i] = Enters(imported)
  <2>1. CASE imported \in Seen
    BY <1>2, <1>6, <1>7, <1>9, <2>1
  <2>2. CASE imported \notin Seen
    <3>1. /\ walk' \in Seq(VisitFrame) /\ DOMAIN walk' = 1..(n + 1) /\ walk'[n + 1] = Enters(imported)
          /\ \A i \in 1..n : walk'[i] = past[i]
      BY <1>2, <1>7, <1>8, <1>9, <2>2
    <3> QED BY <1>2, <3>1
  <2> QED BY <2>1, <2>2
<1>11. Seen' = Seen \cup {imported}
  <2>1. Collected' = Collected
    BY <1>1 DEF Collected
  <2>2. \A i \in 1..n : walk'[i].module = walk[i].module
    BY <1>6, <1>10
  <2>3. \A i \in DOMAIN walk' \ 1..n : walk'[i].module = imported
    BY <1>8, <1>10
  <2>4. imported \notin Seen => \E i \in DOMAIN walk' : walk'[i].module = imported
    BY <1>8, <1>10
  <2>5. Seen' = Collected \cup {walk'[i].module : i \in DOMAIN walk'}
    BY <2>1 DEF Seen
  <2> QED BY <1>2, <1>10, <2>2, <2>3, <2>4, <2>5 DEF Seen
<1>12. ASSUME NEW i \in DOMAIN walk', NEW k \in DOMAIN layout.imports[walk'[i].module], k < walk'[i].next
       PROVE  layout.imports[walk'[i].module][k] \in Seen'
  <2>0. walk'[i] \in VisitFrame
    BY <1>10
  <2>1. k \in Nat \ {0}
    <3>1. layout.imports[walk'[i].module] \in Seq(Modules)
      BY <2>0, LayoutTypes DEF WalkOK, VisitFrame
    <3> QED BY <3>1
  <2>2. CASE i \in 1..n /\ i # n
    BY <1>2, <1>6, <1>10, <1>11, <1>12, <2>2 DEF WalkOK
  <2>3. CASE i = n /\ i \in 1..n
    <3>1. walk'[i].module = top.module /\ walk'[i].next = top.next + 1
      BY <1>6, <1>10, <2>3 DEF top
    <3>2. k < top.next \/ k = top.next
      BY <1>3, <1>12, <2>1, <3>1
    <3>3. k < top.next => layout.imports[top.module][k] \in Seen
      BY <1>2, <1>12, <2>3, <3>1 DEF WalkOK, top
    <3> QED BY <1>11, <3>1, <3>2, <3>3 DEF imported
  <2>4. CASE i \notin 1..n
    BY <1>8, <1>10, <1>12, <2>1, <2>4
  <2> QED BY <2>2, <2>3, <2>4
<1>13. Seen' \subseteq Reachable' /\ Root \in Seen'
  BY <1>1, <1>5, <1>11, SameLayout DEF WalkOK
<1>14. \A m \in Collected' : ToSet(layout'.imports[m]) \subseteq Seen'
  BY <1>1, <1>11 DEF WalkOK, Collected
<1> QED BY <1>1, <1>10, <1>12, <1>13, <1>14 DEF WalkOK

(* Listing the module on top leaves what is seen as it is.                 *)
LEMMA ListModuleKeepsWalk ==
  ASSUME WalkOK, ListModule
  PROVE  WalkOK'
<1> DEFINE n == Len(walk)
           top == walk[n]
<1>1. layout' = layout /\ boot' = boot /\ boot = "collect" /\ walk # <<>>
  BY DEF ListModule
<1>2. n \in Nat /\ n > 0 /\ DOMAIN walk = 1..n /\ walk \in Seq(VisitFrame) /\ \A i \in 1..n : walk[i] \in VisitFrame
  BY <1>1 DEF WalkOK
<1>3. top.module \in Modules /\ top.next \in Nat \ {0}
  BY <1>2 DEF VisitFrame
<1>4. /\ walk' \in Seq(VisitFrame) /\ DOMAIN walk' = 1..(n - 1)
      /\ \A i \in 1..(n - 1) : walk'[i] = walk[i]
  <2>1. walk' = SubSeq(walk, 1, n - 1)
    BY DEF ListModule
  <2> HIDE DEF n
  <2>2. 1 \in 1..(n + 1) /\ n - 1 \in 0..n
    BY <1>2
  <2>3. Len(walk) = n
    BY DEF n
  <2> QED BY <1>2, <2>1, <2>2, <2>3, SubSeqProperties
<1>5. modules' = Append(modules, top.module) /\ modules \in Seq(Modules)
  BY DEF ListModule, TopVisit, WalkOK
<1> HIDE DEF n
<1>6. modules' \in Seq(Modules) /\ Collected' = Collected \cup {top.module}
  <2> HIDE DEF top
  <2>1. /\ modules' \in Seq(Modules) /\ DOMAIN modules' = 1..(Len(modules) + 1)
        /\ DOMAIN modules = 1..Len(modules) /\ Len(modules) \in Nat
        /\ \A i \in 1..Len(modules) : modules'[i] = modules[i]
        /\ modules'[Len(modules) + 1] = top.module
    BY <1>3, <1>5
  <2>2. Collected' = {modules'[i] : i \in 1..(Len(modules) + 1)} /\ Collected = {modules[i] : i \in 1..Len(modules)}
    BY <2>1 DEF Collected, ToSet
  <2>3. \A i \in 1..(Len(modules) + 1) : i \in 1..Len(modules) \/ i = Len(modules) + 1
    BY <2>1
  <2>4. 1..Len(modules) \subseteq 1..(Len(modules) + 1) /\ Len(modules) + 1 \in 1..(Len(modules) + 1)
    BY <2>1
  <2> QED BY <2>1, <2>2, <2>3, <2>4
<1>7. Seen' = Seen
  <2>1. \A i \in 1..n : i \in 1..(n - 1) \/ i = n
    BY <1>2
  <2>2. 1..(n - 1) \subseteq 1..n /\ n \in 1..n
    BY <1>2
  <2> QED BY <1>2, <1>4, <1>6, <2>1, <2>2 DEF Seen
<1>8. ToSet(layout.imports[top.module]) \subseteq Seen
  <2>1. layout.imports[top.module] \in Seq(Modules)
    BY <1>3, LayoutTypes DEF WalkOK
  <2>2. top.next > Len(layout.imports[top.module])
    BY DEF ListModule, TopVisit, ToVisit, n
  <2>3. \A k \in DOMAIN layout.imports[top.module] : k < top.next
    BY <1>3, <2>1, <2>2
  <2>4. \A k \in DOMAIN layout.imports[top.module] : layout.imports[top.module][k] \in Seen
    BY <1>2, <2>3 DEF WalkOK
  <2> QED BY <2>4 DEF ToSet
<1>9. \A i \in DOMAIN walk' : i \in DOMAIN walk /\ walk'[i] = walk[i]
  BY <1>2, <1>4
<1>10. Seen' \subseteq Reachable' /\ Root \in Seen'
  BY <1>1, <1>7, SameLayout DEF WalkOK
<1>11. \A m \in Collected' : ToSet(layout'.imports[m]) \subseteq Seen'
  BY <1>1, <1>6, <1>7, <1>8 DEF WalkOK
<1>12. ASSUME NEW i \in DOMAIN walk', NEW k \in DOMAIN layout.imports[walk'[i].module], k < walk'[i].next
       PROVE  layout.imports[walk'[i].module][k] \in Seen'
  BY <1>7, <1>9, <1>12 DEF WalkOK
<1> QED BY <1>1, <1>4, <1>6, <1>10, <1>11, <1>12 DEF WalkOK

(* Once no visit is under way, the collected modules are the reachable     *)
(* ones.                                                                   *)
LEMMA AllCollected ==
  ASSUME WalkOK, walk = <<>>
  PROVE  Collected = Reachable /\ Collected \subseteq Modules
<1>1. Seen = Collected
  BY DEF Seen
<1>2. Collected \subseteq Modules
  BY DEF Collected, ToSet, WalkOK
<1>3. Reachable \subseteq Collected
  BY <1>1, <1>2, ReachableOK DEF WalkOK
<1> QED BY <1>1, <1>2, <1>3 DEF WalkOK

-----------------------------------------------------------------------------
(* What one entry of a module's exports gives is exposed by that module:   *)
(* its own binding, or one that a module it passes on exposes.             *)
LEMMA GivesOK ==
  ASSUME WalkOK, OptionsOK, OwnOK, SetsOK, boot = "exports",
         NEW m \in Collected, NEW entry \in ToSet(layout.exports[m])
  PROVE  /\ \A t : t \in DOMAIN Gives(m, entry) <=>
              \/ entry \in Collected /\ t \in DOMAIN sets[entry]
              \/ /\ t = entry
                 /\ t \in Declares(m) \/ \E i \in ToSet(layout.imports[m]) : t \in DOMAIN sets[i]
         /\ \A t \in DOMAIN Gives(m, entry) : Exposed(m, t, Gives(m, entry)[t])
<1> DEFINE imports == layout.imports[m]
           maps == [i \in DOMAIN imports |-> SetOf(imports[i])]
           found == Over(own[m], FirstOf(maps))
<1>1. Collected = Reachable /\ Collected \subseteq Modules /\ layout \in Layouts /\ overridden = {}
  BY AllCollected DEF WalkOK, OptionsOK
<1>2. m \in Modules /\ entry \in Tokens \cup Modules /\ imports \in Seq(Modules)
  BY <1>1, LayoutTypes
<1>3. \A i \in DOMAIN imports : imports[i] \in Collected
  <2>1. ToSet(imports) \subseteq Collected
    BY <1>1, ReachableOK
  <2> QED BY <2>1 DEF ToSet
<1>4. Len(imports) \in Nat /\ DOMAIN maps = 1..Len(imports) /\ DOMAIN imports = 1..Len(imports)
      /\ \A i \in 1..Len(imports) : maps[i] = sets[imports[i]]
  BY <1>2, <1>3 DEF SetOf
<1>5. DOMAIN own[m] = Declares(m) /\ \A t \in Declares(m) : own[m][t] = Binding(t, m, "declared")
  BY <1>1 DEF OwnOK
<1>6. CASE entry \in Modules
  <2>1. Gives(m, entry) = SetOf(entry) /\ entry \notin Tokens
    BY <1>6, ScopeAssumption DEF Gives
  <2>2. entry \notin Declares(m) /\ \A i \in ToSet(imports) : entry \notin DOMAIN sets[i]
    <3>1. entry \notin Declares(m)
      BY <1>1, <1>2, <2>1, LayoutTypes
    <3>2. ToSet(imports) \subseteq Collected
      BY <1>3 DEF ToSet
    <3>3. \A i \in Collected : entry \notin DOMAIN sets[i]
      BY <2>1 DEF SetsOK, Exposed
    <3> QED BY <3>1, <3>2, <3>3
  <2>3. CASE entry \in Collected
    <3>1. Gives(m, entry) = sets[entry]
      BY <2>1, <2>3 DEF SetOf
    <3>2. \A t \in DOMAIN sets[entry] : t \in Tokens /\ Exposed(m, t, sets[entry][t])
      <4> SUFFICES ASSUME NEW t \in DOMAIN sets[entry] PROVE t \in Tokens /\ Exposed(m, t, sets[entry][t])
        OBVIOUS
      <4>1. t \in Tokens
        BY <2>3 DEF SetsOK, Exposed
      <4>2. PICK o \in Reachable : sets[entry][t] = Binding(t, o, "declared") /\ entry \in ExposedBy(o, t)
        BY <2>3 DEF SetsOK, Exposed
      <4>3. m \in ExposedBy(o, t)
        BY <1>1, <4>2, ExposedInside, ExposedOK
      <4> QED BY <4>1, <4>2, <4>3 DEF Exposed
    <3> QED BY <2>2, <2>3, <3>1, <3>2
  <2>4. CASE entry \notin Collected
    <3>1. DOMAIN Gives(m, entry) = {}
      BY <2>1, <2>4 DEF SetOf, Nothing
    <3> QED BY <2>2, <2>4, <3>1
  <2> QED BY <2>3, <2>4
<1>7. CASE entry \notin Modules
  <2>1. entry \in Tokens /\ entry \notin Collected
    BY <1>1, <1>2, <1>7
  <2>2. /\ DOMAIN Gives(m, entry) = {entry} \cap DOMAIN found
        /\ \A t \in DOMAIN Gives(m, entry) : Gives(m, entry)[t] = found[t]
    BY <1>7 DEF Gives
  <2> HIDE DEF maps
  <2>3. /\ entry \in DOMAIN FirstOf(maps) <=> \E i \in 1..Len(imports) : entry \in DOMAIN sets[imports[i]]
        /\ entry \in DOMAIN FirstOf(maps) =>
             \E i \in 1..Len(imports) :
               entry \in DOMAIN sets[imports[i]] /\ FirstOf(maps)[entry] = sets[imports[i]][entry]
    BY <1>4, MapsOK
  <2>4. /\ DOMAIN found = Declares(m) \cup DOMAIN FirstOf(maps)
        /\ entry \in Declares(m) => found[entry] = Binding(entry, m, "declared")
        /\ entry \in DOMAIN FirstOf(maps) \ Declares(m) => found[entry] = FirstOf(maps)[entry]
    BY <1>5 DEF Over
  <2> HIDE DEF found
  <2>5. (\E i \in 1..Len(imports) : entry \in DOMAIN sets[imports[i]])
          <=> \E i \in ToSet(imports) : entry \in DOMAIN sets[i]
    BY <1>4 DEF ToSet
  <2>6. ASSUME entry \in DOMAIN found PROVE Exposed(m, entry, found[entry])
    <3>1. CASE entry \in Declares(m)
      BY <1>1, <2>1, <2>4, <3>1, ExposedOK DEF Exposed
    <3>2. CASE entry \notin Declares(m)
      <4>1. PICK i \in 1..Len(imports) :
              entry \in DOMAIN sets[imports[i]] /\ found[entry] = sets[imports[i]][entry]
        BY <2>3, <2>4, <2>6, <3>2
      <4>2. imports[i] \in Collected /\ imports[i] \in ToSet(imports)
        BY <1>3, <1>4 DEF ToSet
      <4>3. PICK o \in Reachable :
              sets[imports[i]][entry] = Binding(entry, o, "declared") /\ imports[i] \in ExposedBy(o, entry)
        BY <4>1, <4>2 DEF SetsOK, Exposed
      <4>4. m \in ExposedBy(o, entry)
        BY <1>1, <3>2, <4>2, <4>3, ExposedInside, ExposedOK
      <4> QED BY <2>1, <4>1, <4>3, <4>4 DEF Exposed
    <3> QED BY <3>1, <3>2
  <2> QED BY <2>1, <2>2, <2>3, <2>4, <2>5, <2>6
<1> QED BY <1>6, <1>7

(* A visit keeps what the module has and adds what it offers.              *)
LEMMA ExportsOfOK ==
  ASSUME WalkOK, OptionsOK, OwnOK, SetsOK, boot = "exports", NEW m \in Collected
  PROVE  /\ \A t : t \in DOMAIN ExportsOf(m) <=> t \in DOMAIN sets[m] \/ Offers(m, t)
         /\ \A t \in DOMAIN ExportsOf(m) : Exposed(m, t, ExportsOf(m)[t])
<1> DEFINE exports == layout.exports[m]
           maps == [i \in DOMAIN exports |-> Gives(m, exports[i])]
<1>1. Collected = Reachable /\ Collected \subseteq Modules /\ layout \in Layouts
  BY AllCollected DEF WalkOK
<1>2. exports \in Seq(Tokens \cup Modules)
  BY <1>1, LayoutTypes
<1>3. Len(exports) \in Nat /\ DOMAIN maps = 1..Len(exports) /\ DOMAIN exports = 1..Len(exports)
      /\ \A i \in 1..Len(exports) : maps[i] = Gives(m, exports[i]) /\ exports[i] \in ToSet(exports)
  BY <1>2 DEF ToSet
<1>4. \A e \in ToSet(exports) : \E i \in 1..Len(exports) : e = exports[i]
  BY <1>3 DEF ToSet
<1>0. ExportsOf(m) = Over(sets[m], FirstOf(maps))
  BY DEF ExportsOf
<1> HIDE DEF maps, exports
<1>5. /\ \A t : t \in DOMAIN ExportsOf(m) <=> t \in DOMAIN sets[m] \/ t \in DOMAIN FirstOf(maps)
      /\ \A t \in DOMAIN sets[m] : ExportsOf(m)[t] = sets[m][t]
      /\ \A t \in DOMAIN FirstOf(maps) \ DOMAIN sets[m] : ExportsOf(m)[t] = FirstOf(maps)[t]
  BY <1>0 DEF Over
<1>6. /\ \A t : t \in DOMAIN FirstOf(maps) <=> \E i \in 1..Len(exports) : t \in DOMAIN maps[i]
      /\ \A t \in DOMAIN FirstOf(maps) :
           \E i \in 1..Len(exports) : t \in DOMAIN maps[i] /\ FirstOf(maps)[t] = maps[i][t]
  BY <1>3, MapsOK
<1>7. \A t : t \in DOMAIN FirstOf(maps) <=> Offers(m, t)
  <2> SUFFICES ASSUME NEW t PROVE t \in DOMAIN FirstOf(maps) <=> Offers(m, t)
    OBVIOUS
  <2>1. t \in DOMAIN FirstOf(maps) <=> \E e \in ToSet(exports) : t \in DOMAIN Gives(m, e)
    BY <1>3, <1>4, <1>6
  <2>2. \A e \in ToSet(exports) : t \in DOMAIN Gives(m, e) <=>
              \/ e \in Collected /\ t \in DOMAIN sets[e]
              \/ /\ t = e
                 /\ t \in Declares(m) \/ \E i \in ToSet(layout.imports[m]) : t \in DOMAIN sets[i]
    BY GivesOK DEF exports
  <2> QED BY <2>1, <2>2 DEF Offers, exports
<1>8. \A t \in DOMAIN FirstOf(maps) : Exposed(m, t, FirstOf(maps)[t])
  <2> SUFFICES ASSUME NEW t \in DOMAIN FirstOf(maps) PROVE Exposed(m, t, FirstOf(maps)[t])
    OBVIOUS
  <2>1. PICK i \in 1..Len(exports) : t \in DOMAIN maps[i] /\ FirstOf(maps)[t] = maps[i][t]
    BY <1>6
  <2>2. exports[i] \in ToSet(layout.exports[m]) /\ maps[i] = Gives(m, exports[i])
    BY <1>3 DEF exports
  <2>3. Exposed(m, t, Gives(m, exports[i])[t])
    BY <2>1, <2>2, GivesOK
  <2> QED BY <2>1, <2>2, <2>3
<1>9. \A t \in DOMAIN ExportsOf(m) : Exposed(m, t, ExportsOf(m)[t])
  BY <1>5, <1>8 DEF SetsOK
<1> QED BY <1>5, <1>7, <1>9

(* The elements of a queue, of its tail and of two queues put together.    *)
LEMMA QueueElements ==
  ASSUME NEW S, NEW s \in Seq(S), NEW u \in Seq(S)
  PROVE  /\ ToSet(s \o u) = ToSet(s) \cup ToSet(u) /\ s \o u \in Seq(S)
         /\ s # <<>> => /\ ToSet(s) = {Head(s)} \cup ToSet(Tail(s))
                        /\ Head(s) \in ToSet(s) /\ Tail(s) \in Seq(S)
<1>1. /\ Len(s) \in Nat /\ DOMAIN s = 1..Len(s) /\ Len(u) \in Nat /\ DOMAIN u = 1..Len(u)
      /\ s \o u \in Seq(S) /\ DOMAIN (s \o u) = 1..(Len(s) + Len(u))
  BY ConcatProperties
<1>2. /\ \A i \in 1..Len(s) : i \in 1..(Len(s) + Len(u)) /\ (s \o u)[i] = s[i]
      /\ \A i \in 1..Len(u) : i + Len(s) \in 1..(Len(s) + Len(u)) /\ (s \o u)[i + Len(s)] = u[i]
      /\ \A i \in 1..(Len(s) + Len(u)) :
           \/ i \in 1..Len(s) /\ (s \o u)[i] = s[i]
           \/ i - Len(s) \in 1..Len(u) /\ (s \o u)[i] = u[i - Len(s)]
  BY <1>1, ConcatProperties
<1>3. ToSet(s \o u) = ToSet(s) \cup ToSet(u)
  <2>1. /\ \A e : e \in ToSet(s) <=> \E i \in 1..Len(s) : e = s[i]
        /\ \A e : e \in ToSet(u) <=> \E i \in 1..Len(u) : e = u[i]
        /\ \A e : e \in ToSet(s \o u) <=> \E i \in 1..(Len(s) + Len(u)) : e = (s \o u)[i]
    BY <1>1 DEF ToSet
  <2>2. ToSet(s \o u) \subseteq ToSet(s) \cup ToSet(u)
    BY <1>2, <2>1
  <2>3. ToSet(s) \subseteq ToSet(s \o u)
    BY <1>2, <2>1
  <2>4. ToSet(u) \subseteq ToSet(s \o u)
    BY <1>2, <2>1
  <2> QED BY <2>2, <2>3, <2>4
<1>4. ASSUME s # <<>>
      PROVE  /\ ToSet(s) = {Head(s)} \cup ToSet(Tail(s))
             /\ Head(s) \in ToSet(s) /\ Tail(s) \in Seq(S)
  <2>1. /\ Len(s) > 0 /\ Head(s) = s[1] /\ Tail(s) \in Seq(S)
        /\ DOMAIN Tail(s) = 1..(Len(s) - 1) /\ \A i \in 1..(Len(s) - 1) : Tail(s)[i] = s[i + 1]
    BY <1>1, <1>4
  <2>2. /\ \A i \in 1..Len(s) : i = 1 \/ (i - 1 \in 1..(Len(s) - 1) /\ Tail(s)[i - 1] = s[i])
        /\ \A i \in 1..(Len(s) - 1) : i + 1 \in 1..Len(s)
        /\ 1 \in 1..Len(s)
    BY <1>1, <2>1
  <2>3. /\ \A e : e \in ToSet(s) <=> \E i \in 1..Len(s) : e = s[i]
        /\ \A e : e \in ToSet(Tail(s)) <=> \E i \in 1..(Len(s) - 1) : e = Tail(s)[i]
    BY <1>1, <2>1 DEF ToSet
  <2>4. Head(s) \in ToSet(s) /\ ToSet(s) \subseteq {Head(s)} \cup ToSet(Tail(s))
    <3>1. Head(s) \in ToSet(s)
      BY <2>1, <2>2, <2>3
    <3>2. ASSUME NEW e \in ToSet(s) PROVE e = Head(s) \/ e \in ToSet(Tail(s))
      <4>1. PICK i \in 1..Len(s) : e = s[i]
        BY <2>3
      <4> QED BY <2>1, <2>2, <2>3, <4>1
    <3> QED BY <3>1, <3>2
  <2>5. ToSet(Tail(s)) \subseteq ToSet(s)
    BY <2>1, <2>2, <2>3
  <2> QED BY <2>1, <2>4, <2>5
<1> QED BY <1>1, <1>3, <1>4

(* The modules to visit again.                                             *)
LEMMA DependentsOK ==
  ASSUME modules \in Seq(Modules), NEW m, NEW queued
  PROVE  /\ DependentsOf(m, queued) \in Seq(Modules)
         /\ ToSet(DependentsOf(m, queued)) = {d \in Collected : m \in Sources(d) /\ d \notin ToSet(queued)}
<1> DEFINE at == {i \in DOMAIN modules : m \in Sources(modules[i]) /\ modules[i] \notin ToSet(queued)}
           kept == InOrder(modules, at)
           c == Cardinality(at)
<1>1. DependentsOf(m, queued) = kept
  BY DEF DependentsOf
<1>2. DOMAIN modules = 1..Len(modules) /\ at \in SUBSET (1..Len(modules))
  OBVIOUS
<1>3. \A i : i \in at <=> i \in DOMAIN modules /\ m \in Sources(modules[i]) /\ modules[i] \notin ToSet(queued)
  OBVIOUS
<1> HIDE DEF at
<1>4. /\ kept \in Seq(Modules) /\ Len(kept) = c /\ c \in Nat
      /\ \E pos \in [1..c -> at] :
           /\ \A n \in 1..c : kept[n] = modules[pos[n]]
           /\ \A i \in at : \E n \in 1..c : pos[n] = i
  BY <1>2, InOrderOK
<1> HIDE DEF kept, c
<1>5. PICK pos \in [1..c -> at] : /\ \A n \in 1..c : kept[n] = modules[pos[n]]
                                  /\ \A i \in at : \E n \in 1..c : pos[n] = i
  BY <1>4
<1>6. DOMAIN kept = 1..c
  BY <1>4
<1>7. ToSet(kept) = {modules[i] : i \in at}
  BY <1>5, <1>6 DEF ToSet
<1>8. {modules[i] : i \in at} = {d \in Collected : m \in Sources(d) /\ d \notin ToSet(queued)}
  BY <1>3 DEF Collected, ToSet
<1> QED BY <1>1, <1>4, <1>7, <1>8

(* The worklist: whatever a module offers and does not have yet, it is     *)
(* still to be visited.                                                    *)
LEMMA VisitExportsKeepsSets ==
  ASSUME WalkOK, OptionsOK, OwnOK, SetsOK, VisitExports
  PROVE  SetsOK'
<1> DEFINE m == Head(worklist)
           queued == Tail(worklist)
           again == DependentsOf(m, queued)
<1>1. boot = "exports" /\ worklist # <<>> /\ layout' = layout /\ modules' = modules
  BY DEF VisitExports
<1>2. Collected' = Collected /\ modules \in Seq(Modules)
  BY <1>1 DEF Collected, WalkOK
<1>3. /\ DOMAIN sets = Collected /\ worklist \in Seq(Modules) /\ ToSet(worklist) \subseteq Collected
      /\ \A x \in Collected : \A t \in DOMAIN sets[x] : Exposed(x, t, sets[x][t])
      /\ \A x \in Collected \ ToSet(worklist), t \in Tokens : Offers(x, t) => t \in DOMAIN sets[x]
  BY <1>1 DEF SetsOK
<1>4. ToSet(worklist) = {m} \cup ToSet(queued) /\ m \in Collected /\ queued \in Seq(Modules)
  BY <1>1, <1>3, QueueElements
<1>5. /\ again \in Seq(Modules)
      /\ ToSet(again) = {d \in Collected : m \in Sources(d) /\ d \notin ToSet(queued)}
  BY <1>2, DependentsOK
<1>6. /\ sets' = [sets EXCEPT ![m] = ExportsOf(m)]
      /\ worklist' = IF ExportsOf(m) = sets[m] THEN queued ELSE queued \o again
  BY DEF VisitExports
<1> HIDE DEF m, queued, again
<1>7. /\ DOMAIN sets' = Collected /\ sets'[m] = ExportsOf(m)
      /\ \A x \in Collected : x # m => sets'[x] = sets[x]
  BY <1>3, <1>4, <1>6
<1>8. worklist' \in Seq(Modules) /\ ToSet(worklist') \subseteq Collected
      /\ (ExportsOf(m) # sets[m] => ToSet(worklist') = ToSet(queued) \cup ToSet(again))
      /\ ToSet(queued) \subseteq ToSet(worklist')
  <2>1. queued \o again \in Seq(Modules) /\ ToSet(queued \o again) = ToSet(queued) \cup ToSet(again)
    BY <1>4, <1>5, QueueElements
  <2> QED BY <1>3, <1>4, <1>5, <1>6, <2>1
<1>9. /\ \A t : t \in DOMAIN ExportsOf(m) <=> t \in DOMAIN sets[m] \/ Offers(m, t)
      /\ \A t \in DOMAIN ExportsOf(m) : Exposed(m, t, ExportsOf(m)[t])
  BY <1>1, <1>4, ExportsOfOK
<1>10. ASSUME NEW x \in Collected, NEW t \in DOMAIN sets'[x] PROVE Exposed(x, t, sets[x][t])'
  <2>1. PICK binding : binding = sets'[x][t]
    OBVIOUS
  <2>2. Exposed(x, t, binding)
    BY <1>3, <1>7, <1>9, <2>1
  <2>3. Exposed(x, t, binding)'
    BY <1>1, <2>2, SameLayout
  <2> QED BY <2>1, <2>3
<1>11. ASSUME NEW x \in Collected, x \notin ToSet(worklist'), NEW t \in Tokens, Offers(x, t)'
       PROVE  t \in DOMAIN sets'[x]
  <2>1. x \in Modules /\ ToSet(layout.imports[x]) \subseteq Collected
    BY <1>1, AllCollected, ReachableOK DEF WalkOK
  <2>2. Declares(x)' = Declares(x)
    BY <1>1, SameLayout
  <2>3. ASSUME \A d \in Sources(x) \cap Collected : sets'[d] = sets[d] PROVE Offers(x, t)
    <3>1. \A e \in ToSet(layout.exports[x]) \cap Collected : e \in Sources(x) \cap Collected
      BY <1>1, AllCollected DEF Sources, WalkOK
    <3>2. \A i \in ToSet(layout.imports[x]) : i \in Sources(x) \cap Collected
      BY <2>1 DEF Sources
    <3> QED BY <1>1, <1>2, <1>11, <2>2, <2>3, <3>1, <3>2 DEF Offers
  <2>4. CASE ExportsOf(m) = sets[m]
    <3>1. Offers(x, t)
      BY <1>7, <2>3, <2>4
    <3>2. CASE x = m
      BY <1>7, <1>9, <3>1, <3>2
    <3>3. CASE x # m
      BY <1>3, <1>4, <1>7, <1>8, <1>11, <3>1, <3>3
    <3> QED BY <3>2, <3>3
  <2>5. CASE ExportsOf(m) # sets[m]
    <3>1. m \notin Sources(x) /\ x \notin ToSet(queued)
      BY <1>5, <1>8, <1>11, <2>5
    <3>2. Offers(x, t)
      BY <1>7, <2>3, <3>1
    <3>3. CASE x = m
      BY <1>7, <1>9, <3>2, <3>3
    <3>4. CASE x # m
      BY <1>3, <1>4, <1>7, <3>1, <3>2, <3>4
    <3> QED BY <3>3, <3>4
  <2> QED BY <2>4, <2>5
<1> QED BY <1>2, <1>7, <1>8, <1>10, <1>11 DEF SetsOK

-----------------------------------------------------------------------------
(* When nothing is left to visit, the sets are closed under what modules   *)
(* pass on, and so they hold all that the definition has exposed.          *)
LEMMA WorklistExact ==
  ASSUME WalkOK, OptionsOK, OwnOK, SetsOK, boot = "exports", worklist = <<>>
  PROVE  /\ Collected = Reachable
         /\ \A m \in Reachable, t \in Tokens :
              /\ t \in DOMAIN sets[m] <=> m \in Exposing(t)
              /\ t \in DOMAIN sets[m] => m \in ExposedBy(sets[m][t].module, t)
<1>1. Collected = Reachable /\ Collected \subseteq Modules /\ layout \in Layouts
  BY AllCollected DEF WalkOK
<1>2. \A m \in Reachable, t \in Tokens : Offers(m, t) => t \in DOMAIN sets[m]
  <2>1. ToSet(worklist) = {}
    BY DEF ToSet
  <2> QED BY <1>1, <2>1 DEF SetsOK
<1>3. ASSUME NEW m \in Reachable, NEW t \in DOMAIN sets[m]
      PROVE  m \in Exposing(t) /\ m \in ExposedBy(sets[m][t].module, t)
  <2>1. PICK o \in Reachable : sets[m][t] = Binding(t, o, "declared") /\ m \in ExposedBy(o, t)
    BY <1>1 DEF SetsOK, Exposed
  <2>2. sets[m][t].module = o
    BY <2>1 DEF Binding
  <2> QED BY <2>1, <2>2 DEF Exposing
<1>4. ASSUME NEW t \in Tokens, NEW m \in Exposing(t) PROVE t \in DOMAIN sets[m]
  <2>1. PICK o \in Reachable : m \in ExposedBy(o, t)
    BY DEF Exposing
  <2> DEFINE S == {d \in Reachable : t \in DOMAIN sets[d]}
  <2>2. t \in Declares(o) \cap ToSet(layout.exports[o]) /\ m \in Reachable
    BY <2>1, ExposedInside
  <2>3. o \in S
    BY <1>2, <2>2 DEF Offers
  <2>4. ASSUME NEW d \in Reachable, PassesOn(d, t, S) PROVE d \in S
    <3>1. Offers(d, t)
      BY <1>1, <2>4 DEF PassesOn, Offers
    <3> QED BY <1>2, <3>1
  <2>5. m \in S
    <3>1. S \in SUBSET Reachable
      OBVIOUS
    <3> HIDE DEF S
    <3> QED BY <2>1, <2>3, <2>4, <3>1, ExposedInside
  <2> QED BY <2>5
<1> QED BY <1>1, <1>3, <1>4

(* What a module is shown when the scopes are built.                       *)
LEMMA VisibleOK ==
  ASSUME WalkOK, OptionsOK, OwnOK, SetsOK, boot = "exports", worklist = <<>>, NEW m \in Reachable
  PROVE  /\ \A t \in DOMAIN Visible(m) :
              /\ t \in Tokens /\ SeenByRule(m, t, Visible(m)[t])
              /\ \E o \in Reachable : t \in Declares(o) /\ Visible(m)[t] = own[o][t]
         /\ \A t \in Tokens :
              t \in DOMAIN Visible(m) <=>
                \/ t \in Declares(m)
                \/ (ToSet(layout.imports[m]) \cup layout.global) \cap Exposing(t) # {}
<1> DEFINE imports == layout.imports[m]
           maps == [i \in DOMAIN imports |-> SetOf(imports[i])]
           globals == [i \in DOMAIN modules |-> IF modules[i] \in layout.global THEN sets[modules[i]] ELSE Nothing]
<1>1. /\ Collected = Reachable /\ Collected \subseteq Modules /\ layout \in Layouts
      /\ modules \in Seq(Modules) /\ overridden = {}
  BY AllCollected DEF WalkOK, OptionsOK
<1>2. /\ \A d \in Reachable, t \in Tokens : t \in DOMAIN sets[d] <=> d \in Exposing(t)
      /\ \A d \in Reachable, t \in Tokens : t \in DOMAIN sets[d] => d \in ExposedBy(sets[d][t].module, t)
  BY WorklistExact
<1>3. \A d \in Reachable : \A t \in DOMAIN sets[d] :
        t \in Tokens /\ \E o \in Reachable : t \in Declares(o) /\ sets[d][t] = own[o][t]
  <2> SUFFICES ASSUME NEW d \in Reachable, NEW t \in DOMAIN sets[d]
               PROVE  t \in Tokens /\ \E o \in Reachable : t \in Declares(o) /\ sets[d][t] = own[o][t]
    OBVIOUS
  <2>1. t \in Tokens /\ \E o \in Reachable : sets[d][t] = Binding(t, o, "declared") /\ d \in ExposedBy(o, t)
    BY <1>1 DEF SetsOK, Exposed
  <2>2. PICK o \in Reachable : sets[d][t] = Binding(t, o, "declared") /\ d \in ExposedBy(o, t)
    BY <2>1
  <2>3. t \in Declares(o)
    BY <2>2, ExposedInside
  <2>4. own[o][t] = Binding(t, o, "declared")
    BY <1>1, <2>3 DEF OwnOK
  <2> QED BY <2>1, <2>2, <2>3, <2>4
<1>4. imports \in Seq(Modules) /\ ToSet(imports) \subseteq Collected
  BY <1>1, LayoutTypes, ReachableOK
<1>5. /\ Len(imports) \in Nat /\ DOMAIN maps = 1..Len(imports) /\ DOMAIN imports = 1..Len(imports)
      /\ \A i \in 1..Len(imports) : maps[i] = sets[imports[i]] /\ imports[i] \in Reachable
  BY <1>1, <1>4 DEF ToSet, SetOf
<1>6. /\ Len(modules) \in Nat /\ DOMAIN globals = 1..Len(modules) /\ DOMAIN modules = 1..Len(modules)
      /\ \A i \in 1..Len(modules) :
           /\ modules[i] \in Reachable
           /\ modules[i] \in layout.global => globals[i] = sets[modules[i]]
           /\ modules[i] \notin layout.global => DOMAIN globals[i] = {}
  <2>1. Len(modules) \in Nat /\ DOMAIN globals = 1..Len(modules) /\ DOMAIN modules = 1..Len(modules)
    BY <1>1
  <2>2. \A i \in 1..Len(modules) : modules[i] \in Reachable
    BY <1>1, <2>1 DEF Collected, ToSet
  <2>3. \A i \in 1..Len(modules) : modules[i] \in layout.global => globals[i] = sets[modules[i]]
    BY <2>1
  <2>4. \A i \in 1..Len(modules) : modules[i] \notin layout.global => DOMAIN globals[i] = {}
    BY <2>1 DEF Nothing
  <2> QED BY <2>1, <2>2, <2>3, <2>4
<1>7. Global = LastOf(globals) /\ Visible(m) = Over(own[m], Over(LastOf(maps), LastOf(globals)))
  BY DEF Global, Visible
<1>8. DOMAIN own[m] = Declares(m) /\ Declares(m) \subseteq Tokens
  BY <1>1, LayoutTypes DEF OwnOK
<1> HIDE DEF maps, globals
<1>9. /\ \A t : t \in DOMAIN Visible(m) <=>
              t \in Declares(m) \/ t \in DOMAIN LastOf(maps) \/ t \in DOMAIN LastOf(globals)
      /\ \A t \in Declares(m) : Visible(m)[t] = own[m][t]
      /\ \A t \in DOMAIN LastOf(maps) \ Declares(m) : Visible(m)[t] = LastOf(maps)[t]
      /\ \A t \in DOMAIN LastOf(globals) :
           t \notin Declares(m) /\ t \notin DOMAIN LastOf(maps) => Visible(m)[t] = LastOf(globals)[t]
  BY <1>7, <1>8 DEF Over
<1>10. /\ \A t : t \in DOMAIN LastOf(maps) <=> \E i \in 1..Len(imports) : t \in DOMAIN sets[imports[i]]
       /\ \A t \in DOMAIN LastOf(maps) : Max(Having(maps, t)) \in Having(maps, t)
       /\ \A t \in DOMAIN LastOf(maps) : LastOf(maps)[t] = maps[Max(Having(maps, t))][t]
  BY <1>5, MapsOK
<1>11. /\ \A t : t \in DOMAIN LastOf(globals) <=> \E i \in 1..Len(modules) : t \in DOMAIN globals[i]
       /\ \A t \in DOMAIN LastOf(globals) :
            \E i \in 1..Len(modules) : t \in DOMAIN globals[i] /\ LastOf(globals)[t] = globals[i][t]
  <2>1. /\ \A t : t \in DOMAIN LastOf(globals) <=> \E i \in 1..Len(modules) : t \in DOMAIN globals[i]
        /\ \A t \in DOMAIN LastOf(globals) : Max(Having(globals, t)) \in Having(globals, t)
        /\ \A t \in DOMAIN LastOf(globals) : LastOf(globals)[t] = globals[Max(Having(globals, t))][t]
    BY <1>6, MapsOK
  <2>2. \A t : \A i \in Having(globals, t) : i \in 1..Len(modules) /\ t \in DOMAIN globals[i]
    BY <1>6 DEF Having
  <2> QED BY <2>1, <2>2
<1>12. /\ \A t \in Tokens : t \in DOMAIN LastOf(maps) <=> ToSet(imports) \cap Exposing(t) # {}
       /\ \A t \in DOMAIN LastOf(maps) : t \in Tokens
  <2>1. \A t \in DOMAIN LastOf(maps) : t \in Tokens
    BY <1>3, <1>5, <1>10
  <2>2. ASSUME NEW t \in Tokens PROVE t \in DOMAIN LastOf(maps) <=> ToSet(imports) \cap Exposing(t) # {}
    <3>1. t \in DOMAIN LastOf(maps) <=> \E i \in 1..Len(imports) : imports[i] \in Exposing(t)
      BY <1>2, <1>5, <1>10
    <3>2. (\E i \in 1..Len(imports) : imports[i] \in Exposing(t)) <=> ToSet(imports) \cap Exposing(t) # {}
      BY <1>5 DEF ToSet
    <3> QED BY <3>1, <3>2
  <2> QED BY <2>1, <2>2
<1>13. ASSUME NEW t \in DOMAIN LastOf(globals)
       PROVE  \E d \in layout.global \cap Reachable : t \in DOMAIN sets[d] /\ LastOf(globals)[t] = sets[d][t]
  <2>1. PICK i \in 1..Len(modules) : t \in DOMAIN globals[i] /\ LastOf(globals)[t] = globals[i][t]
    BY <1>11
  <2>2. modules[i] \in layout.global
    BY <1>6, <2>1
  <2> QED BY <1>6, <2>1, <2>2
<1>14. \A t \in Tokens : t \in DOMAIN LastOf(globals) <=> layout.global \cap Exposing(t) # {}
  <2> SUFFICES ASSUME NEW t \in Tokens
               PROVE  t \in DOMAIN LastOf(globals) <=> layout.global \cap Exposing(t) # {}
    OBVIOUS
  <2>1. t \in DOMAIN LastOf(globals) => layout.global \cap Exposing(t) # {}
    BY <1>2, <1>13
  <2>2. ASSUME NEW d \in layout.global \cap Exposing(t) PROVE t \in DOMAIN LastOf(globals)
    <3>1. d \in Reachable
      BY ExposedInside DEF Exposing
    <3>2. t \in DOMAIN sets[d]
      BY <1>2, <3>1
    <3>3. PICK i \in 1..Len(modules) : modules[i] = d
      BY <1>1, <1>6, <3>1 DEF Collected, ToSet
    <3> QED BY <1>6, <1>11, <3>2, <3>3
  <2> QED BY <2>1, <2>2
<1>15. \A t \in Tokens :
         t \in DOMAIN Visible(m) <=>
           \/ t \in Declares(m)
           \/ (ToSet(layout.imports[m]) \cup layout.global) \cap Exposing(t) # {}
  BY <1>9, <1>12, <1>14
<1>16. ASSUME NEW t \in DOMAIN Visible(m)
       PROVE  /\ t \in Tokens /\ SeenByRule(m, t, Visible(m)[t])
              /\ \E o \in Reachable : t \in Declares(o) /\ Visible(m)[t] = own[o][t]
  <2> DEFINE exposing == {i \in DOMAIN imports : imports[i] \in Exposing(t)}
  <2>1. CASE t \in Declares(m)
    <3>1. Visible(m)[t] = own[m][t] /\ own[m][t].module = m
      <4>1. own[m][t] = Binding(t, m, "declared")
        BY <1>1, <2>1 DEF OwnOK
      <4> QED BY <1>9, <2>1, <4>1 DEF Binding
    <3>2. SeenByRule(m, t, Visible(m)[t])
      BY <2>1, <3>1 DEF SeenByRule
    <3> QED BY <1>8, <2>1, <3>1, <3>2
  <2>2. CASE t \notin Declares(m) /\ t \in DOMAIN LastOf(maps)
    <3>1. t \in Tokens
      BY <1>12, <2>2
    <3>2. Having(maps, t) = exposing
      BY <1>2, <1>5, <3>1 DEF Having
    <3> HIDE DEF exposing
    <3>3. PICK i \in exposing : i = Max(exposing) /\ Visible(m)[t] = maps[i][t]
      BY <1>9, <1>10, <2>2, <3>2
    <3>4. i \in 1..Len(imports) /\ imports[i] \in Exposing(t) /\ imports[i] \in Reachable
      BY <1>5 DEF exposing
    <3>5. t \in DOMAIN sets[imports[i]] /\ Visible(m)[t] = sets[imports[i]][t]
      BY <1>2, <1>5, <3>1, <3>3, <3>4
    <3>6. imports[i] \in ExposedBy(Visible(m)[t].module, t)
      BY <1>2, <3>1, <3>4, <3>5
    <3>7. SeenByRule(m, t, Visible(m)[t])
      <4>1. exposing # {} /\ imports[Max(exposing)] \in ExposedBy(Visible(m)[t].module, t)
        BY <3>3, <3>6
      <4> QED BY <2>2, <4>1 DEF SeenByRule, exposing
    <3> QED BY <1>3, <3>1, <3>4, <3>5, <3>7
  <2>3. CASE t \notin Declares(m) /\ t \notin DOMAIN LastOf(maps)
    <3>1. PICK d \in layout.global \cap Reachable : t \in DOMAIN sets[d] /\ Visible(m)[t] = sets[d][t]
      BY <1>9, <1>13, <2>3
    <3>2. t \in Tokens /\ \E o \in Reachable : t \in Declares(o) /\ sets[d][t] = own[o][t]
      BY <1>3, <3>1
    <3>3. d \in Exposing(t) /\ d \in ExposedBy(Visible(m)[t].module, t)
      BY <1>2, <3>1, <3>2
    <3>4. exposing = {}
      BY <1>2, <1>5, <1>10, <2>3, <3>2
    <3>5. SeenByRule(m, t, Visible(m)[t])
      BY <2>3, <3>1, <3>3, <3>4 DEF SeenByRule
    <3> QED BY <3>1, <3>2, <3>5
  <2> QED BY <2>1, <2>2, <2>3
<1> QED BY <1>15, <1>16

-----------------------------------------------------------------------------
(* The steps after collectModules() leave the collected modules alone.     *)
LEMMA WalkStays ==
  ASSUME WalkOK, UNCHANGED <<layout, walk, modules>>, boot' = boot \/ walk = <<>>
  PROVE  /\ WalkOK' /\ Collected' = Collected
<1>1. Collected' = Collected /\ Seen' = Seen
  BY DEF Collected, Seen
<1>2. Reachable' = Reachable
  BY SameLayout
<1>3. boot' # "collect" => walk' = <<>>
  BY DEF WalkOK
<1> QED BY <1>1, <1>2, <1>3 DEF WalkOK

(* While visit() runs there are no scopes to speak of.                     *)
LEMMA CollectingKeepsScopes ==
  ASSUME IScope, VisitImport \/ ListModule PROVE IScope' /\ ScopesByRule'
<1>1. WalkOK'
  BY VisitImportKeepsWalk, ListModuleKeepsWalk DEF IScope
<1>2. boot' = "collect" /\ boot = "collect" /\ UNCHANGED <<overridden, promoted>>
  BY DEF VisitImport, ListModule
<1>3. OptionsOK'
  BY <1>2 DEF IScope, OptionsOK
<1>4. OwnOK' /\ SetsOK' /\ ViewsOK'
  BY <1>2 DEF OwnOK, SetsOK, ViewsOK
<1>5. ScopesByRule'
  BY <1>2 DEF ScopesByRule, ExportsExact, VisibleByRule, OverriddenEverywhere
<1> QED BY <1>1, <1>3, <1>4, <1>5 DEF IScope

(* The worklist of exportSets() starts with every collected module, so     *)
(* nothing a module offers is lost.                                        *)
LEMMA ReadModulesKeepsScopes ==
  ASSUME IScope, ReadModules PROVE IScope' /\ ScopesByRule'
<1>1. boot = "collect" /\ walk = <<>> /\ boot' \in {"exports", "duplicate"}
      /\ UNCHANGED <<layout, walk, modules, overridden, promoted>>
  BY DEF ReadModules
<1>2. WalkOK' /\ Collected' = Collected /\ Collected \subseteq Modules /\ modules \in Seq(Modules)
  BY <1>1, WalkStays, AllCollected DEF IScope, WalkOK
<1>3. OptionsOK' /\ overridden' = {}
  BY <1>1 DEF IScope, OptionsOK
<1>4. \A m : Declares(m)' = Declares(m)
  BY <1>1, SameLayout
<1>5. OwnOK'
  <2> SUFFICES ASSUME boot' = "exports" PROVE OwnOK'
    BY <1>1 DEF OwnOK
  <2>1. own' = [m \in Collected |-> OwnBindings(m)]
    BY DEF ReadModules
  <2>2. \A m \in Collected :
          own'[m] = OwnBindings(m) /\ DOMAIN OwnBindings(m) = Declares(m)
          /\ \A t \in Declares(m) : OwnBindings(m)[t] = Binding(t, m, "declared")
    BY <2>1 DEF OwnBindings
  <2>3. \A t, m, provider : Binding(t, m, provider)' = Binding(t, m, provider)
    BY DEF Binding
  <2> QED BY <1>2, <1>3, <1>4, <2>1, <2>2, <2>3 DEF OwnOK
<1>6. SetsOK'
  <2> SUFFICES ASSUME boot' = "exports" PROVE SetsOK'
    BY <1>1 DEF SetsOK
  <2>1. sets' = [m \in Collected |-> Nothing] /\ worklist' = modules
    BY DEF ReadModules
  <2>2. DOMAIN sets' = Collected /\ \A m \in Collected : DOMAIN sets'[m] = {}
    BY <2>1 DEF Nothing
  <2>3. ToSet(worklist') = Collected
    BY <2>1 DEF Collected
  <2> QED BY <1>2, <2>1, <2>2, <2>3 DEF SetsOK
<1>7. ViewsOK' /\ ScopesByRule'
  BY <1>1 DEF ViewsOK, ScopesByRule, ExportsExact, VisibleByRule, OverriddenEverywhere
<1> QED BY <1>2, <1>3, <1>5, <1>6, <1>7 DEF IScope

(* Where the bindings and the options stay, so does what is said of them.  *)
LEMMA OwnStays ==
  ASSUME OwnOK, UNCHANGED <<layout, own, overridden>>, Collected' = Collected,
         boot \notin {"collect", "duplicate"}
  PROVE  OwnOK'
<1>1. \A m : Declares(m)' = Declares(m)
  BY SameLayout
<1>2. \A t, m, provider : Binding(t, m, provider)' = Binding(t, m, provider)
  BY DEF Binding
<1> QED BY <1>1, <1>2 DEF OwnOK

(* A visit of the worklist keeps the invariant.                            *)
LEMMA VisitExportsKeepsScopes ==
  ASSUME IScope, VisitExports PROVE IScope' /\ ScopesByRule'
<1>1. boot = "exports" /\ boot' = "exports" /\ UNCHANGED <<layout, walk, modules, own, overridden, promoted>>
  BY DEF VisitExports
<1>2. WalkOK' /\ Collected' = Collected
  BY <1>1, WalkStays DEF IScope
<1>3. OptionsOK'
  BY <1>1 DEF IScope, OptionsOK
<1>4. OwnOK'
  BY <1>1, <1>2, OwnStays DEF IScope
<1>5. SetsOK'
  BY VisitExportsKeepsSets DEF IScope
<1>6. ViewsOK' /\ ScopesByRule'
  BY <1>1 DEF ViewsOK, ScopesByRule, ExportsExact, VisibleByRule, OverriddenEverywhere
<1> QED BY <1>2, <1>3, <1>4, <1>5, <1>6 DEF IScope

(* buildScopes() after the worklist: boot fails exactly where an export is *)
(* out of reach, and otherwise every module is shown what the guide says.  *)
LEMMA BuildScopesKeepsScopes ==
  ASSUME IScope, BuildScopes PROVE IScope' /\ ScopesByRule'
<1>1. /\ boot = "exports" /\ worklist = <<>> /\ boot' \in {"scopes", "unreachable"}
      /\ UNCHANGED <<layout, walk, modules, own, sets, overridden, promoted>>
      /\ boot' = "scopes" <=> ExportsResolve
      /\ boot' = "scopes" => visible' = [m \in Collected |-> Visible(m)]
  BY DEF BuildScopes
<1>2. walk = <<>>
  BY <1>1 DEF IScope, WalkOK
<1>3. WalkOK' /\ Collected' = Collected /\ Collected = Reachable /\ Collected \subseteq Modules
  BY <1>1, <1>2, WalkStays, AllCollected DEF IScope
<1>4. OptionsOK' /\ promoted = {} /\ overridden = {}
  BY <1>1 DEF IScope, OptionsOK
<1>5. OwnOK'
  BY <1>1, <1>3, OwnStays DEF IScope
<1>6. SetsOK'
  BY <1>1 DEF SetsOK
<1>7. /\ Reachable' = Reachable /\ \A m : Declares(m)' = Declares(m)
      /\ \A t : Exposing(t)' = Exposing(t)
      /\ \A o, t : ExposedBy(o, t)' = ExposedBy(o, t)
      /\ \A m, t, binding : SeenByRule(m, t, binding)' <=> SeenByRule(m, t, binding)
  BY <1>1, SameLayout
<1>8. \A m \in Reachable, t \in Tokens :
        /\ t \in DOMAIN sets[m] <=> m \in Exposing(t)
        /\ t \in DOMAIN sets[m] => m \in ExposedBy(sets[m][t].module, t)
  BY <1>1, WorklistExact DEF IScope
<1>9. ExportsExact'
  <2>1. ExportsResolve <=>
          ~ \E m \in Reachable : \E t \in ToSet(layout.exports[m]) \cap Tokens : m \notin Exposing(t)
    BY <1>3, <1>8 DEF ExportsResolve
  <2>2. boot' = "unreachable" <=>
          \E m \in Reachable : \E t \in ToSet(layout.exports[m]) \cap Tokens : m \notin Exposing(t)
    BY <1>1, <2>1
  <2> QED BY <1>1, <1>3, <1>7, <1>8, <2>2 DEF ExportsExact
<1>10. ASSUME boot' = "scopes", NEW m \in Reachable
       PROVE  /\ DOMAIN visible' = Collected /\ visible'[m] = Visible(m)
              /\ \A t \in DOMAIN Visible(m) :
                   /\ t \in Tokens /\ SeenByRule(m, t, Visible(m)[t])
                   /\ \E o \in Reachable : t \in Declares(o) /\ Visible(m)[t] = own[o][t]
              /\ \A t \in Tokens :
                   t \in DOMAIN Visible(m) <=>
                     \/ t \in Declares(m)
                     \/ (ToSet(layout.imports[m]) \cup layout.global) \cap Exposing(t) # {}
  <2>1. DOMAIN visible' = Collected /\ visible'[m] = Visible(m)
    BY <1>1, <1>3, <1>10
  <2> QED BY <1>1, <2>1, VisibleOK DEF IScope
<1>11. ViewsOK'
  <2> SUFFICES ASSUME boot' = "scopes" PROVE ViewsOK'
    BY <1>1 DEF ViewsOK
  <2>1. DOMAIN visible' = Collected
    BY <1>1
  <2>2. ASSUME NEW m \in Reachable, NEW t \in DOMAIN visible'[m]
        PROVE  t \in Tokens /\ \E o \in Reachable : t \in Declares(o) /\ visible'[m][t] = own[o][t]
    BY <1>10, <2>2
  <2> QED BY <1>1, <1>3, <1>7, <2>1, <2>2 DEF ViewsOK
<1>12. VisibleByRule'
  <2> SUFFICES ASSUME boot' = "scopes", NEW m \in Reachable, NEW t \in Tokens
               PROVE  /\ t \in DOMAIN visible'[m] <=>
                           \/ t \in Declares(m)
                           \/ (ToSet(layout.imports[m]) \cup layout.global) \cap Exposing(t) # {}
                      /\ t \in DOMAIN visible'[m] =>
                           SeenByRule(m, t, visible[m][t])' /\ visible'[m][t] = own[visible'[m][t].module][t]
    BY <1>1, <1>7 DEF VisibleByRule
  <2>1. t \in DOMAIN visible'[m] <=>
          \/ t \in Declares(m)
          \/ (ToSet(layout.imports[m]) \cup layout.global) \cap Exposing(t) # {}
    BY <1>10
  <2>2. ASSUME t \in DOMAIN visible'[m]
        PROVE  SeenByRule(m, t, visible[m][t])' /\ visible'[m][t] = own[visible'[m][t].module][t]
    <3>1. PICK binding : binding = visible'[m][t]
      OBVIOUS
    <3>2. SeenByRule(m, t, binding) /\ \E o \in Reachable : t \in Declares(o) /\ binding = own[o][t]
      BY <1>10, <2>2, <3>1
    <3>3. SeenByRule(m, t, binding)'
      BY <1>7, <3>2
    <3>4. PICK o \in Reachable : t \in Declares(o) /\ binding = own[o][t]
      BY <3>2
    <3>5. own[o][t] = Binding(t, o, "declared")
      BY <1>1, <1>3, <1>4, <3>4 DEF IScope, OwnOK
    <3>6. binding.module = o
      BY <3>4, <3>5 DEF Binding
    <3> QED BY <3>1, <3>3, <3>4, <3>6
  <2> QED BY <2>1, <2>2
<1>13. OverriddenEverywhere'
  BY <1>1 DEF OverriddenEverywhere
<1> QED BY <1>3, <1>4, <1>5, <1>6, <1>9, <1>11, <1>12, <1>13 DEF IScope, ScopesByRule

(* What is exported stays as it is once the scopes are built.              *)
LEMMA ExactStays ==
  ASSUME ExportsExact, UNCHANGED <<layout, modules, sets>>, Collected' = Collected,
         boot \in {"scopes", "promote"}, boot' \in {"promote", "built", "nothing replaced"}
  PROVE  ExportsExact'
<1>1. /\ Reachable' = Reachable
      /\ \A t : Exposing(t)' = Exposing(t)
      /\ \A o, t : ExposedBy(o, t)' = ExposedBy(o, t)
  BY SameLayout
<1> QED BY <1>1 DEF ExportsExact

(* A view is by the guide's order whichever provider its binding holds.    *)
LEMMA SeenByModule ==
  ASSUME NEW m, NEW t, NEW one, NEW other, one.module = other.module, SeenByRule(m, t, one)
  PROVE  SeenByRule(m, t, other)
BY DEF SeenByRule

(* An override lays the same provider over the declaration and over every  *)
(* view of it.                                                             *)
LEMMA OverrideKeepsScopes ==
  ASSUME IScope, ScopesByRule, Override PROVE IScope' /\ ScopesByRule'
<1>1. /\ boot = "scopes" /\ boot' = "promote" /\ overridden' \subseteq Tokens
      /\ own' = [m \in Collected |-> Substitute(own[m])]
      /\ visible' = [m \in Collected |-> Substitute(visible[m])]
      /\ UNCHANGED <<layout, walk, modules, sets, promoted>>
  BY DEF Override
<1>2. walk = <<>> /\ promoted = {} /\ overridden = {} /\ promoted' = {}
  BY <1>1 DEF IScope, WalkOK, OptionsOK
<1>3. WalkOK' /\ Collected' = Collected /\ Collected = Reachable /\ Collected \subseteq Modules
  BY <1>1, <1>2, WalkStays, AllCollected DEF IScope
<1>4. OptionsOK'
  BY <1>1, <1>2 DEF OptionsOK
<1>5. /\ Reachable' = Reachable /\ \A m : Declares(m)' = Declares(m)
      /\ \A t : Exposing(t)' = Exposing(t)
      /\ \A m, t, binding : SeenByRule(m, t, binding)' <=> SeenByRule(m, t, binding)
  BY <1>1, SameLayout
<1>6. \A view : /\ DOMAIN Substitute(view) = DOMAIN view
                /\ \A t \in DOMAIN view :
                     Substitute(view)[t] =
                       IF t \in overridden' THEN [view[t] EXCEPT !.provider = "override"] ELSE view[t]
  BY DEF Substitute
<1>7. \A t, m, provider : Binding(t, m, provider)' = Binding(t, m, provider)
  BY DEF Binding
<1>8. \A m \in Collected : \A t \in Declares(m) : own[m][t] = Binding(t, m, "declared") /\ DOMAIN own[m] = Declares(m)
  BY <1>1, <1>2 DEF IScope, OwnOK
<1>9. \A t, m : [Binding(t, m, "declared") EXCEPT !.provider = "override"] = Binding(t, m, "override")
  BY DEF Binding
<1>10. \A m \in Collected : /\ own'[m] = Substitute(own[m]) /\ visible'[m] = Substitute(visible[m])
                            /\ DOMAIN own'[m] = DOMAIN own[m] /\ DOMAIN visible'[m] = DOMAIN visible[m]
  BY <1>1, <1>6
<1>11. ASSUME NEW m \in Collected, NEW t \in Declares(m)
       PROVE  own'[m][t] = Binding(t, m, IF t \in overridden' THEN "override" ELSE "declared")
  <2>1. own'[m][t] = IF t \in overridden' THEN [own[m][t] EXCEPT !.provider = "override"] ELSE own[m][t]
    BY <1>6, <1>8, <1>10
  <2>2. own[m][t] = Binding(t, m, "declared")
    BY <1>8
  <2> QED BY <1>9, <2>1, <2>2
<1>12. OwnOK'
  <2>1. DOMAIN own' = Collected
    BY <1>1
  <2>2. \A m \in Collected : DOMAIN own'[m] = Declares(m)
    BY <1>1, <1>10 DEF IScope, OwnOK
  <2> QED BY <1>3, <1>5, <1>7, <1>11, <2>1, <2>2 DEF OwnOK
<1>13. SetsOK'
  BY <1>1 DEF SetsOK
<1>14. ASSUME NEW m \in Collected, NEW t \in DOMAIN visible[m]
       PROVE  /\ t \in Tokens
              /\ \E o \in Reachable : /\ t \in Declares(o) /\ visible[m][t] = own[o][t]
                                      /\ visible'[m][t] = own'[o][t]
  <2>1. t \in Tokens /\ \E o \in Reachable : t \in Declares(o) /\ visible[m][t] = own[o][t]
    BY <1>1, <1>2 DEF IScope, ViewsOK
  <2>2. PICK o \in Reachable : t \in Declares(o) /\ visible[m][t] = own[o][t]
    BY <2>1
  <2>3. visible'[m][t] = own'[o][t]
    <3>1. visible'[m][t] = IF t \in overridden' THEN [visible[m][t] EXCEPT !.provider = "override"] ELSE visible[m][t]
      BY <1>6, <1>10
    <3>2. o \in Collected /\ t \in DOMAIN own[o]
      BY <1>3, <1>8, <2>2
    <3>3. own'[o][t] = IF t \in overridden' THEN [own[o][t] EXCEPT !.provider = "override"] ELSE own[o][t]
      BY <1>6, <1>10, <3>2
    <3> QED BY <2>2, <3>1, <3>3
  <2> QED BY <2>1, <2>2, <2>3
<1>15. ViewsOK'
  BY <1>1, <1>2, <1>3, <1>5, <1>10, <1>14 DEF ViewsOK
<1>16. ExportsExact'
  BY <1>1, <1>3, ExactStays DEF ScopesByRule
<1>17. VisibleByRule'
  <2> SUFFICES ASSUME NEW m \in Reachable, NEW t \in Tokens
               PROVE  /\ t \in DOMAIN visible'[m] <=>
                           \/ t \in Declares(m)
                           \/ (ToSet(layout.imports[m]) \cup layout.global) \cap Exposing(t) # {}
                      /\ t \in DOMAIN visible'[m] =>
                           SeenByRule(m, t, visible[m][t])' /\ visible'[m][t] = own'[visible'[m][t].module][t]
    BY <1>1, <1>5 DEF VisibleByRule
  <2>1. /\ t \in DOMAIN visible[m] <=>
             \/ t \in Declares(m)
             \/ (ToSet(layout.imports[m]) \cup layout.global) \cap Exposing(t) # {}
        /\ t \in DOMAIN visible[m] => SeenByRule(m, t, visible[m][t])
    BY <1>1, <1>2 DEF ScopesByRule, VisibleByRule
  <2>2. ASSUME t \in DOMAIN visible[m]
        PROVE  SeenByRule(m, t, visible[m][t])' /\ visible'[m][t] = own'[visible'[m][t].module][t]
    <3>1. PICK o \in Reachable : t \in Declares(o) /\ visible[m][t] = own[o][t] /\ visible'[m][t] = own'[o][t]
      BY <1>3, <1>14, <2>2
    <3>0. \A provider : Binding(t, o, provider).module = o
      BY DEF Binding
    <3>2. own[o][t].module = o
      BY <1>3, <1>8, <3>0, <3>1
    <3>3. own'[o][t].module = o
      BY <1>3, <1>11, <3>0, <3>1
    <3>4. PICK binding : binding = visible'[m][t]
      OBVIOUS
    <3>5. SeenByRule(m, t, binding)
      BY <2>1, <2>2, <3>1, <3>2, <3>3, <3>4, SeenByModule
    <3>6. SeenByRule(m, t, binding)'
      BY <1>5, <3>5
    <3> QED BY <3>1, <3>3, <3>4, <3>6
  <2> QED BY <1>3, <1>10, <2>1, <2>2
<1>18. OverriddenEverywhere'
  BY <1>1 DEF OverriddenEverywhere
<1> QED BY <1>3, <1>4, <1>12, <1>13, <1>15, <1>16, <1>17, <1>18 DEF IScope, ScopesByRule

(* A promoted contract goes over what is seen, never over what is declared.*)
LEMMA PromoteKeepsScopes ==
  ASSUME IScope, ScopesByRule, Promote PROVE IScope' /\ ScopesByRule'
<1>1. /\ boot = "promote" /\ boot' \in {"built", "nothing replaced"} /\ promoted' \subseteq Tokens
      /\ visible' = [m \in Collected |-> Over([t \in promoted' \ DOMAIN own[m] |-> Promotes(t)], visible[m])]
      /\ UNCHANGED <<layout, walk, modules, own, sets, overridden>>
  BY DEF Promote
<1>2. walk = <<>> /\ promoted = {} /\ overridden \subseteq Tokens
  BY <1>1 DEF IScope, WalkOK, OptionsOK
<1>3. WalkOK' /\ Collected' = Collected /\ Collected = Reachable /\ Collected \subseteq Modules
  BY <1>1, <1>2, WalkStays, AllCollected DEF IScope
<1>4. OptionsOK'
  BY <1>1, <1>2 DEF OptionsOK
<1>5. /\ Reachable' = Reachable /\ \A m : Declares(m)' = Declares(m)
      /\ \A t : Exposing(t)' = Exposing(t)
      /\ \A m, t, binding : SeenByRule(m, t, binding)' <=> SeenByRule(m, t, binding)
  BY <1>1, SameLayout
<1>6. OwnOK'
  BY <1>1, <1>3, OwnStays DEF IScope
<1>7. \A m \in Collected : DOMAIN own[m] = Declares(m)
  BY <1>1 DEF IScope, OwnOK
<1>8. ASSUME NEW m \in Collected
      PROVE  /\ DOMAIN visible'[m] = (promoted' \ Declares(m)) \cup DOMAIN visible[m]
             /\ \A t \in promoted' \ Declares(m) : visible'[m][t] = Promotes(t)
             /\ \A t \in DOMAIN visible[m] : t \notin promoted' \ Declares(m) => visible'[m][t] = visible[m][t]
  <2>1. visible'[m] = Over([t \in promoted' \ Declares(m) |-> Promotes(t)], visible[m])
    BY <1>1, <1>7
  <2> QED BY <2>1 DEF Over
<1>9. /\ DOMAIN visible = Collected
      /\ \A m \in Collected : \A t \in DOMAIN visible[m] :
           t \in Tokens /\ \E o \in Reachable : t \in Declares(o) /\ visible[m][t] = own[o][t]
  BY <1>1, <1>2 DEF IScope, ViewsOK
<1>10. ViewsOK'
  <2>1. DOMAIN visible' = Collected
    BY <1>1
  <2>2. ASSUME NEW m \in Collected, NEW t \in DOMAIN visible'[m] \ promoted'
        PROVE  t \in DOMAIN visible[m] /\ visible'[m][t] = visible[m][t]
    BY <1>8
  <2>3. ASSUME NEW m \in Collected, NEW t \in DOMAIN visible'[m] \ promoted'
        PROVE  t \in Tokens /\ \E o \in Reachable : t \in Declares(o) /\ visible'[m][t] = own'[o][t]
    <3>1. own' = own
      BY <1>1
    <3> QED BY <1>9, <2>2, <3>1
  <2> QED BY <1>3, <1>5, <2>1, <2>3 DEF ViewsOK
<1>11. SetsOK'
  BY <1>1 DEF SetsOK
<1>12. ExportsExact'
  BY <1>1, <1>3, ExactStays DEF ScopesByRule
<1>13. ASSUME NEW m \in Reachable, NEW t \in Tokens
       PROVE  /\ t \in DOMAIN visible[m] <=>
                   \/ t \in Declares(m)
                   \/ (ToSet(layout.imports[m]) \cup layout.global) \cap Exposing(t) # {}
              /\ t \in DOMAIN visible[m] =>
                   SeenByRule(m, t, visible[m][t]) /\ visible[m][t] = own[visible[m][t].module][t]
  BY <1>1, <1>2 DEF ScopesByRule, VisibleByRule
<1>14. VisibleByRule'
  <2> SUFFICES ASSUME NEW m \in Reachable, NEW t \in Tokens \ promoted'
               PROVE  /\ t \in DOMAIN visible'[m] <=>
                           \/ t \in Declares(m)
                           \/ (ToSet(layout.imports[m]) \cup layout.global) \cap Exposing(t) # {}
                      /\ t \in DOMAIN visible'[m] =>
                           SeenByRule(m, t, visible[m][t])' /\ visible'[m][t] = own'[visible'[m][t].module][t]
    BY <1>1, <1>5 DEF VisibleByRule
  <2>1. t \in DOMAIN visible'[m] <=> t \in DOMAIN visible[m]
    BY <1>3, <1>8
  <2>2. ASSUME t \in DOMAIN visible[m]
        PROVE  SeenByRule(m, t, visible[m][t])' /\ visible'[m][t] = own'[visible'[m][t].module][t]
    <3>1. PICK binding : binding = visible[m][t]
      OBVIOUS
    <3>2. visible'[m][t] = binding
      BY <1>3, <1>8, <2>2, <3>1
    <3>3. SeenByRule(m, t, binding) /\ binding = own[binding.module][t]
      BY <1>13, <2>2, <3>1
    <3>4. SeenByRule(m, t, binding)'
      BY <1>5, <3>3
    <3> QED BY <1>1, <3>2, <3>3, <3>4
  <2> QED BY <1>13, <2>1, <2>2
<1>15. OverriddenEverywhere'
  <2>1. ASSUME NEW m \in Reachable PROVE promoted' \subseteq DOMAIN visible'[m]
    <3>1. \A t \in Declares(m) \cap Tokens : t \in DOMAIN visible[m]
      BY <1>13
    <3> QED BY <1>1, <1>3, <1>8, <3>1
  <2>2. ASSUME NEW m \in Reachable, NEW t \in overridden \cap DOMAIN visible'[m]
        PROVE  visible'[m][t].provider = "override"
    <3>1. CASE t \in promoted' \ Declares(m)
      <4>1. Promotes(t) = Binding(t, "(override)", "override")
        BY DEF Promotes
      <4> QED BY <1>3, <1>8, <3>1, <4>1 DEF Binding
    <3>2. CASE t \notin promoted' \ Declares(m)
      <4>1. t \in DOMAIN visible[m] /\ visible'[m][t] = visible[m][t]
        BY <1>3, <1>8, <3>2
      <4>2. PICK o \in Reachable : t \in Declares(o) /\ visible[m][t] = own[o][t]
        BY <1>3, <1>9, <4>1
      <4>3. own[o][t] = Binding(t, o, "override")
        BY <1>1, <1>3, <4>2 DEF IScope, OwnOK
      <4> QED BY <4>1, <4>2, <4>3 DEF Binding
    <3> QED BY <3>1, <3>2
  <2> QED BY <1>1, <1>5, <2>1, <2>2 DEF OverriddenEverywhere
<1> QED BY <1>3, <1>4, <1>6, <1>10, <1>11, <1>12, <1>14, <1>15 DEF IScope, ScopesByRule

(* create() starts with a visit of the root.                               *)
LEMMA InitScopes == ScopeInit => IScope /\ ScopesByRule
<1> SUFFICES ASSUME ScopeInit PROVE IScope /\ ScopesByRule
  OBVIOUS
<1>1. layout \in Layouts /\ boot = "collect" /\ walk = <<Enters(Root)>> /\ modules = <<>>
      /\ overridden = {} /\ promoted = {}
  BY DEF ScopeInit
<1>2. Enters(Root) \in VisitFrame /\ Enters(Root).module = Root /\ Enters(Root).next = 1
  BY ScopeAssumption DEF Enters, VisitFrame
<1>3. walk \in Seq(VisitFrame) /\ DOMAIN walk = {1} /\ walk[1] = Enters(Root) /\ modules \in Seq(Modules)
  BY <1>1, <1>2
<1>4. Collected = {} /\ Seen = {Root}
  BY <1>1, <1>2, <1>3 DEF Collected, Seen, ToSet
<1>5. \A i \in DOMAIN walk : \A k \in DOMAIN layout.imports[walk[i].module] : ~(k < walk[i].next)
  <2>1. layout.imports[Root] \in Seq(Modules)
    BY <1>1, ScopeAssumption, LayoutTypes
  <2>2. \A k \in DOMAIN layout.imports[Root] : ~(k < 1)
    BY <2>1
  <2> QED BY <1>2, <1>3, <2>2
<1>6. WalkOK
  BY <1>1, <1>3, <1>4, <1>5, ReachableOK DEF WalkOK
<1>7. OptionsOK /\ OwnOK /\ SetsOK /\ ViewsOK
  BY <1>1 DEF OptionsOK, OwnOK, SetsOK, ViewsOK
<1>8. ScopesByRule
  BY <1>1 DEF ScopesByRule, ExportsExact, VisibleByRule, OverriddenEverywhere
<1> QED BY <1>6, <1>7, <1>8 DEF IScope

(* Nothing changes, nothing to show.                                       *)
LEMMA ScopesStutter ==
  ASSUME IScope, ScopesByRule, UNCHANGED scopeVars PROVE IScope' /\ ScopesByRule'
<1>1. UNCHANGED <<layout, boot, walk, modules, own, sets, worklist, visible, overridden, promoted>>
  BY DEF scopeVars
<1>2. WalkOK' /\ Collected' = Collected
  BY <1>1, WalkStays DEF IScope
<1>3. /\ Reachable' = Reachable /\ \A m : Declares(m)' = Declares(m)
      /\ \A t : Exposing(t)' = Exposing(t)
      /\ \A o, t : ExposedBy(o, t)' = ExposedBy(o, t)
      /\ \A m, t, binding : Exposed(m, t, binding)' <=> Exposed(m, t, binding)
      /\ \A m, t, binding : SeenByRule(m, t, binding)' <=> SeenByRule(m, t, binding)
  BY <1>1, SameLayout
<1>4. OptionsOK' /\ OwnOK'
  <2>1. \A t, m, provider : Binding(t, m, provider)' = Binding(t, m, provider)
    BY DEF Binding
  <2> QED BY <1>1, <1>2, <1>3, <2>1 DEF IScope, OptionsOK, OwnOK
<1>5. SetsOK'
  <2>1. \A m, t : Offers(m, t)' <=> Offers(m, t)
    BY <1>1, <1>2, <1>3 DEF Offers
  <2> QED BY <1>1, <1>2, <1>3, <2>1 DEF IScope, SetsOK
<1>6. ViewsOK'
  BY <1>1, <1>2, <1>3 DEF IScope, ViewsOK
<1>7. ExportsExact'
  BY <1>1, <1>2, <1>3 DEF ScopesByRule, ExportsExact
<1>8. VisibleByRule'
  BY <1>1, <1>3 DEF ScopesByRule, VisibleByRule
<1>9. OverriddenEverywhere'
  BY <1>1, <1>3 DEF ScopesByRule, OverriddenEverywhere
<1> QED BY <1>2, <1>4, <1>5, <1>6, <1>7, <1>8, <1>9 DEF IScope, ScopesByRule

(* Whatever graph of modules create() is given, however they import and    *)
(* re-export each other and in cycles too, the worklist of exportSets()    *)
(* ends with exactly the exports the definition gives, boot fails exactly  *)
(* where one is out of reach, and every module sees the binding the        *)
(* guide's order names, overrides and promoted contracts included.         *)
THEOREM ScopesAlwaysByRule == ScopeSpec => []ScopesByRule
<1>1. ASSUME IScope, ScopesByRule, [ScopeNext]_scopeVars PROVE IScope' /\ ScopesByRule'
  BY <1>1, CollectingKeepsScopes, ReadModulesKeepsScopes, VisitExportsKeepsScopes, BuildScopesKeepsScopes,
     OverrideKeepsScopes, PromoteKeepsScopes, ScopesStutter DEF ScopeNext
<1> QED BY <1>1, InitScopes, PTL DEF ScopeSpec
=============================================================================
