------------------------------ MODULE Injector ------------------------------
(***************************************************************************)
(* The injector of @dunx/core (di/injector.ts): get() builds a binding     *)
(* after its dependencies by recursion, keeping the bindings under         *)
(* construction in #building; an async factory cannot be awaited by the    *)
(* synchronous get(), so its promise is parked in #settling, the whole     *)
(* stack is unwound and the caller retries once the promise has settled.   *)
(*                                                                         *)
(* A binding is its identity, its ordered dependencies and whether its     *)
(* factory returns a promise; values, classes and synchronous factories    *)
(* are the ones that do not.  Which token names which binding is settled   *)
(* by the scope graph before the injector exists.                          *)
(***************************************************************************)
EXTENDS Naturals, Sequences

CONSTANTS
  Bindings,   \* every binding some token resolves to
  Graphs      \* the dependency graphs considered: functions to Seq(Bindings)

ASSUME GraphsAssumption == Graphs \subseteq [Bindings -> Seq(Bindings)]

VARIABLES
  deps,       \* the wiring: what each binding's constructor or factory takes
  async,      \* the bindings whose factory returns a promise
  building,   \* #building, each frame with the dependencies it has by now
  settling,   \* keys of #settling
  order,      \* #order, also the domain of #instances
  calls       \* history: calls of each constructor or factory that returned

injectorVars == <<deps, async, building, settling, order, calls>>

Elements(s) == {s[i] : i \in DOMAIN s}
Instances == Elements(order)
Frame(b) == [binding |-> b, at |-> 0]
Top == building[Len(building)]
OnStack == {building[i].binding : i \in DOMAIN building}

(* No get() is running: JavaScript runs one to its end.                    *)
Idle == building = <<>>

InjectorInit ==
  /\ deps \in Graphs /\ async \in SUBSET Bindings
  /\ building = <<>> /\ settling = {} /\ order = <<>>
  /\ calls = [b \in Bindings |-> 0]

Called(b) == calls' = [calls EXCEPT ![b] = @ + 1]

(* #settle: the instance is cached and joins the completion order.         *)
Settle(b) == order' = Append(order, b)

-----------------------------------------------------------------------------
(* get(b) of a binding with no instance, from outside any construction.    *)
Begin(b) ==
  /\ Idle /\ b \notin Instances
  /\ building' = <<Frame(b)>>
  /\ UNCHANGED <<deps, async, settling, order, calls>>

(* The next dependency of the binding being built, if one is left.         *)
Wanting == ~Idle /\ Top.at < Len(deps[Top.binding])
Wanted == deps[Top.binding][Top.at + 1]

(* It has an instance: get() returns it.                                   *)
TakeDep ==
  /\ Wanting /\ Wanted \in Instances
  /\ building' = [building EXCEPT ![Len(building)].at = @ + 1]
  /\ UNCHANGED <<deps, async, settling, order, calls>>

(* It has none, and is not under construction: get() recurses.             *)
Descend ==
  /\ Wanting /\ Wanted \notin Instances \cup OnStack
  /\ building' = Append(building, Frame(Wanted))
  /\ UNCHANGED <<deps, async, settling, order, calls>>

(* It is under construction: CircularDependencyError leaves every get().   *)
MeetsItself == Wanting /\ Wanted \notin Instances /\ Wanted \in OnStack

(* Mutant of Complete: the last dependency is not waited for.              *)
CompleteEarly == ~Idle /\ Top.at + 1 >= Len(deps[Top.binding])

Complete == ~Idle /\ Top.at = Len(deps[Top.binding])

(* The class is constructed, or the factory answered with a value.         *)
Construct ==
  /\ Complete /\ Top.binding \notin async
  /\ Called(Top.binding)
  /\ Settle(Top.binding)
  /\ building' = SubSeq(building, 1, Len(building) - 1)
  /\ UNCHANGED <<deps, async, settling>>

(* The factory answered with a promise: park it and throw PendingSignal.   *)
Parks == Complete /\ Top.binding \in async

Park ==
  /\ Called(Top.binding)
  /\ settling' = settling \cup {Top.binding}
  /\ building' = <<>>
  /\ UNCHANGED <<deps, async, order>>

(* Any other error, or a cycle: every frame's finally pops it.             *)
Unwind ==
  /\ building' = <<>>
  /\ UNCHANGED <<deps, async, settling, order, calls>>

(* #resolveBinding once the parked promise of b has resolved.              *)
ResolveBinding(b) ==
  /\ settling' = settling \ {b}
  /\ IF b \in Instances THEN UNCHANGED order ELSE Settle(b)
  /\ UNCHANGED <<deps, async, building, calls>>

-----------------------------------------------------------------------------
(* Every instance came of exactly one call of its constructor or factory,  *)
(* and stands once in #order.                                              *)
BuiltOnce ==
  /\ \A b \in Instances : calls[b] = 1
  /\ \A i, j \in DOMAIN order : order[i] = order[j] => i = j

(* In #order dependencies come before their dependents.                    *)
DepsFirst ==
  \A i \in DOMAIN order :
    Elements(deps[order[i]]) \subseteq {order[j] : j \in 1..(i - 1)}
=============================================================================
