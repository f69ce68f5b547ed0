---------------------------- MODULE Application ----------------------------
(***************************************************************************)
(* The life of an application: AppFactory.create() resolves every declared *)
(* binding and runs the init hooks, Application.drain() and shutdown()     *)
(* (di/app.ts) end it, and HttpApplication (http/server/application.ts)    *)
(* puts a server in front: drain, stop the server, close the relay, then   *)
(* the container.                                                          *)
(*                                                                         *)
(* Every provider is given all four hooks: one without a hook behaves as   *)
(* one whose hook returns at once.  A hook settles when it likes, and may  *)
(* fail.  drain() and shutdown() are called by who holds the App create()  *)
(* returned, any number of times: the promises are memoized.               *)
(***************************************************************************)
EXTENDS Injector, FiniteSets

CONSTANTS
  Eager,        \* injector.eager: the declared bindings, in import order
  None,
  MaxGets,      \* bound on app.get() calls that build
  MaxRequests,  \* bound on the requests in progress
  MaxFailures   \* bound on the teardown hooks that fail

ASSUME ApplicationAssumption ==
  /\ Eager \in Seq(Bindings) /\ None \notin Bindings
  /\ MaxGets \in Nat /\ MaxRequests \in Nat /\ MaxFailures \in Nat

VARIABLES
  kind,       \* "core": no server; "http"; "ws": a server with gateways
  phase,      \* where create() is
  turn,       \* index of its loop: over Eager, then over #order
  awaited,    \* the parked factory create() waits for
  error,      \* why create() rejected
  draining,   \* #draining is set
  pending,    \* onBeforeShutdown hooks still running
  shutting,   \* Application.shutdown(): where it is
  plan,       \* its copy of #order, reversed
  done,       \* onShutdown hooks of the plan that have settled
  failures,   \* what the phases of Application.shutdown() collected
  stopping,   \* HttpApplication.shutdown(): where it is
  port,       \* a bound server listens
  started,    \* #started
  serving,    \* requests of the bound server whose handler is running
  ending,     \* requests that were running when the server was stopped
  raised,     \* what HttpApplication.shutdown() collected
  gets,       \* history: app.get() calls that built
  threw       \* history: the hooks that failed, with the phase

bootVars == <<phase, turn, awaited, error>>
drainVars == <<draining, pending>>
appVars == <<shutting, plan, done, failures>>
requestVars == <<serving, ending>>
httpVars == <<stopping, port, started, requestVars, raised>>
vars == <<injectorVars, bootVars, drainVars, appVars, httpVars, kind, gets, threw>>

Kinds == {"core", "http", "ws"}

Init ==
  /\ InjectorInit
  /\ kind \in Kinds
  /\ phase = "resolving" /\ turn = 1 /\ awaited = None /\ error = "none"
  /\ draining = FALSE /\ pending = {}
  /\ shutting = "no" /\ plan = <<>> /\ done = 0 /\ failures = {}
  /\ stopping = "no" /\ port = FALSE /\ started = FALSE /\ serving = 0 /\ ending = 0
  /\ raised = {} /\ gets = 0 /\ threw = {}

Later == UNCHANGED <<drainVars, appVars, httpVars, kind, gets, threw>>
Rejects(why) == phase' = "failed" /\ error' = why /\ UNCHANGED <<turn, awaited>>

-----------------------------------------------------------------------------
(* AppFactory.create()                                                     *)

Resolving == phase = "resolving" /\ awaited = None /\ turn <= Len(Eager)

ResolveNext ==
  /\ Resolving /\ Begin(Eager[turn])
  /\ UNCHANGED bootVars /\ Later

(* Mutant of Resolved: resolve() returns once the parked promise settled,  *)
(* without building the token itself.                                      *)
ResolvedUnbuilt ==
  /\ Resolving /\ Idle
  /\ turn' = turn + 1
  /\ UNCHANGED <<injectorVars, phase, awaited, error>> /\ Later

Resolved ==
  /\ Resolving /\ Idle /\ Eager[turn] \in Instances
  /\ turn' = turn + 1
  /\ UNCHANGED <<injectorVars, phase, awaited, error>> /\ Later

(* A get() runs on, whoever called it.                                     *)
Building ==
  /\ TakeDep \/ Descend \/ Construct
  /\ UNCHANGED bootVars /\ Later

(* It throws, for a cycle, a parameter nothing resolves or a constructor   *)
(* that throws: create() rejects, or app.get()'s caller has the error.     *)
GetThrows ==
  /\ ~Idle /\ Unwind
  /\ IF phase = "resolving"
       THEN Rejects(IF MeetsItself THEN "cycle" ELSE "provider")
       ELSE UNCHANGED bootVars
  /\ Later

(* It meets an async factory: only create() awaits the parked promise.     *)
GetSignals ==
  /\ Parks /\ Park
  /\ awaited' = IF phase = "resolving" THEN Top.binding ELSE awaited
  /\ UNCHANGED <<phase, turn, error>> /\ Later

FactoryResolves ==
  /\ awaited # None /\ phase = "resolving"
  /\ ResolveBinding(awaited)
  /\ awaited' = None
  /\ UNCHANGED <<phase, turn, error>> /\ Later

FactoryRejects ==
  /\ awaited # None /\ phase = "resolving"
  /\ Rejects("provider")
  /\ UNCHANGED injectorVars /\ Later

AllResolved ==
  /\ phase = "resolving" /\ awaited = None /\ turn > Len(Eager)
  /\ phase' = "onBeforeInit" /\ turn' = 1
  /\ UNCHANGED <<injectorVars, awaited, error>> /\ Later

(* The passes iterate the live #order, so what a hook's app.get() builds   *)
(* is visited by the pass it was built in.                                 *)
InPass == phase \in {"onBeforeInit", "onInit"} /\ Idle

InitHookEnds ==
  /\ InPass /\ turn <= Len(order)
  /\ turn' = turn + 1
  /\ UNCHANGED <<injectorVars, phase, awaited, error>> /\ Later

InitHookThrows ==
  /\ InPass /\ turn <= Len(order)
  /\ Rejects("provider")
  /\ UNCHANGED injectorVars /\ Later

PassEnds ==
  /\ InPass /\ turn > Len(order)
  /\ phase' = IF phase = "onBeforeInit" THEN "onInit" ELSE "live"
  /\ turn' = 1
  /\ UNCHANGED <<injectorVars, awaited, error>> /\ Later

(* app.get(), from a hook, a handler or listen(), of a class nothing       *)
(* declares or of a lazy override: only these have no instance by now.     *)
Get(b) ==
  /\ phase \in {"onBeforeInit", "onInit", "live"}
  /\ gets < MaxGets /\ gets' = gets + 1
  /\ Begin(b)
  /\ UNCHANGED <<bootVars, drainVars, appVars, httpVars, kind, threw>>

-----------------------------------------------------------------------------
(* Application.drain() and shutdown()                                      *)

Alive == phase = "live" /\ Idle
Built == UNCHANGED <<injectorVars, bootVars, kind, gets>>

(* this.#draining ??= ...                                                  *)
BeginDrain ==
  /\ draining' = TRUE
  /\ pending' = IF draining THEN pending ELSE Instances
Drained == draining /\ pending = {}

MayThrow == Cardinality(threw) < MaxFailures

Drain ==
  /\ Alive /\ ~draining
  /\ BeginDrain
  /\ Built /\ UNCHANGED <<appVars, httpVars, threw>>

DrainHookSettles(b) ==
  /\ Idle /\ b \in pending
  /\ pending' = pending \ {b}
  /\ \/ UNCHANGED threw
     \/ MayThrow /\ threw' = threw \cup {<<"onBeforeShutdown", b>>}
  /\ Built /\ UNCHANGED <<draining, appVars, httpVars>>

(* What the memoized drain rejects with: the failures among its hooks.     *)
DrainFailures == {<<"onBeforeShutdown", b>> : b \in Instances} \cap threw

BeginShutdown ==
  /\ shutting' = IF shutting = "no" THEN "draining" ELSE shutting
  /\ UNCHANGED <<plan, done, failures>>

(* shutdown() of an application without a server.                          *)
Shutdown ==
  /\ Alive /\ kind = "core" /\ shutting = "no"
  /\ BeginShutdown /\ BeginDrain
  /\ Built /\ UNCHANGED <<httpVars, threw>>

(* Mutant of Reversed: providers are torn down in construction order.      *)
Unreversed(s) == s

Reversed(s) == [i \in 1..Len(s) |-> s[Len(s) + 1 - i]]

(* Mutant of TeardownBegins: what the drain threw is caught and dropped.   *)
TeardownForgetsDrain ==
  /\ Idle /\ shutting = "draining" /\ Drained
  /\ shutting' = "teardown"
  /\ plan' = Reversed(order)
  /\ failures' = {}
  /\ Built /\ UNCHANGED <<done, drainVars, httpVars, threw>>

TeardownBegins ==
  /\ Idle /\ shutting = "draining" /\ Drained
  /\ shutting' = "teardown"
  /\ plan' = Reversed(order)
  /\ failures' = DrainFailures
  /\ Built /\ UNCHANGED <<done, drainVars, httpVars, threw>>

(* Mutant of ShutdownHookSettles: a hook that throws aborts the loop.      *)
ShutdownHookAborts ==
  /\ Idle /\ shutting = "teardown" /\ done < Len(plan)
  /\ done' = done + 1
  /\ \/ UNCHANGED <<failures, threw, shutting>>
     \/ LET failure == <<"onShutdown", plan[done + 1]>>
        IN /\ MayThrow /\ threw' = threw \cup {failure}
           /\ failures' = failures \cup {failure}
           /\ shutting' = "aborted"
  /\ Built /\ UNCHANGED <<plan, drainVars, httpVars>>

ShutdownHookSettles ==
  /\ Idle /\ shutting = "teardown" /\ done < Len(plan)
  /\ done' = done + 1
  /\ \/ UNCHANGED <<failures, threw>>
     \/ LET failure == <<"onShutdown", plan[done + 1]>>
        IN /\ MayThrow /\ threw' = threw \cup {failure}
           /\ failures' = failures \cup {failure}
  /\ Built /\ UNCHANGED <<shutting, plan, drainVars, httpVars>>

Closes ==
  /\ Idle /\ shutting = "teardown" /\ done = Len(plan)
  /\ shutting' = "closed"
  /\ Built /\ UNCHANGED <<plan, done, failures, drainVars, httpVars, threw>>

-----------------------------------------------------------------------------
(* HttpApplication                                                         *)

(* listen(), once; Bun.serve may refuse the port.                          *)
Listen ==
  /\ Alive /\ kind # "core" /\ ~started
  /\ started' = TRUE
  /\ port' \in BOOLEAN
  /\ Built /\ UNCHANGED <<stopping, requestVars, raised, drainVars, appVars, threw>>

RequestBegins ==
  /\ Idle /\ port /\ serving < MaxRequests
  /\ serving' = serving + 1
  /\ Built /\ UNCHANGED <<ending, stopping, port, started, raised, drainVars, appVars, threw>>

RequestEnds ==
  /\ Idle
  /\ \/ serving > 0 /\ serving' = serving - 1 /\ UNCHANGED ending
     \/ ending > 0 /\ ending' = ending - 1 /\ UNCHANGED serving
  /\ Built /\ UNCHANGED <<stopping, port, started, raised, drainVars, appVars, threw>>

HttpShutdown ==
  /\ Alive /\ kind # "core" /\ stopping = "no"
  /\ stopping' = "drain" /\ BeginDrain
  /\ Built /\ UNCHANGED <<port, started, requestVars, raised, appVars, threw>>

(* The drain has settled: collect, and stop the server.                    *)
HttpStops ==
  /\ Idle /\ stopping = "drain" /\ Drained
  /\ stopping' = "stop" /\ port' = FALSE
  /\ serving' = 0 /\ ending' = serving
  /\ raised' = DrainFailures
  /\ Built /\ UNCHANGED <<started, drainVars, appVars, threw>>

(* Mutant of HttpStopped: every stop is a forced one.                      *)
HttpStoppedAtOnce ==
  /\ Idle /\ stopping = "stop"
  /\ stopping' = "close"
  /\ Built /\ UNCHANGED <<port, started, requestVars, raised, drainVars, appVars, threw>>

(* binding.stop(force): without gateways it waits for open requests.       *)
HttpStopped ==
  /\ Idle /\ stopping = "stop"
  /\ kind = "http" => ending = 0
  /\ stopping' = "close"
  /\ Built /\ UNCHANGED <<port, started, requestVars, raised, drainVars, appVars, threw>>

(* pubsub.close() never throws; then the container.                        *)
RelayClosed ==
  /\ Idle /\ stopping = "close"
  /\ stopping' = "app" /\ BeginShutdown /\ BeginDrain
  /\ Built /\ UNCHANGED <<port, started, requestVars, raised, threw>>

HttpCloses ==
  /\ Idle /\ stopping = "app" /\ shutting = "closed"
  /\ stopping' = "closed"
  /\ raised' = raised \cup failures
  /\ Built /\ UNCHANGED <<port, started, requestVars, drainVars, appVars, threw>>

-----------------------------------------------------------------------------
Boot ==
  \/ ResolveNext \/ Resolved \/ Building \/ GetThrows \/ GetSignals
  \/ FactoryResolves \/ FactoryRejects \/ AllResolved
  \/ InitHookEnds \/ InitHookThrows \/ PassEnds
  \/ \E b \in Bindings : Get(b)

Teardown ==
  \/ Drain \/ Shutdown \/ TeardownBegins \/ ShutdownHookSettles \/ Closes
  \/ \E b \in Bindings : DrainHookSettles(b)

Http ==
  \/ Listen \/ RequestBegins \/ RequestEnds
  \/ HttpShutdown \/ HttpStops \/ HttpStopped \/ RelayClosed \/ HttpCloses

Next == Boot \/ Teardown \/ Http
Spec == Init /\ [][Next]_vars

(* A get() runs to its end, every hook and every request ends, and the     *)
(* event loop runs the continuation of what has settled.  Nobody has to    *)
(* call anything.                                                          *)
Fairness ==
  /\ WF_vars(Building \/ GetSignals \/ (MeetsItself /\ GetThrows))
  /\ WF_vars(\E b \in Bindings : DrainHookSettles(b))
  /\ WF_vars(TeardownBegins \/ ShutdownHookSettles \/ Closes)
  /\ WF_vars(ending > 0 /\ RequestEnds)
  /\ WF_vars(HttpStops \/ HttpStopped \/ RelayClosed \/ HttpCloses)

FairSpec == Spec /\ Fairness

-----------------------------------------------------------------------------
(* Every instance came of exactly one call of its constructor or factory,  *)
(* retried resolutions and parked promises included, and in #order every   *)
(* dependency comes before what was built on it: the order the init hooks  *)
(* follow and onShutdown reverses.                                         *)
BuildOrder == BuiltOnce /\ DepsFirst

(* A nonempty set of bindings each of which needs another of the set.      *)
Knot(S) == S # {} /\ \A b \in S : Elements(deps[b]) \cap S # {}

(* create() blames a cycle only when the wiring has one, and gets past     *)
(* resolution only with every declared binding built and no cycle among    *)
(* what it built.                                                          *)
CyclesFound ==
  /\ error = "cycle" => \E S \in SUBSET Bindings : Knot(S)
  /\ phase \in {"onBeforeInit", "onInit", "live"} =>
       /\ Elements(Eager) \subseteq Instances
       /\ ~\E S \in SUBSET Instances : Knot(S)

(* Once onShutdown hooks run no onBeforeShutdown hook does, and a provider *)
(* is torn down only after everything that was built on it: what settled   *)
(* earlier is never a dependency of what settles later.                    *)
TeardownFollowsDeps ==
  /\ shutting \in {"teardown", "closed"} => Drained
  /\ \A i, j \in DOMAIN plan : i < j => plan[i] \notin Elements(deps[plan[j]])

(* A server without gateways finishes its requests before a provider is    *)
(* torn down, and takes none after.  The exception is a listen() first     *)
(* called once the server was stopped, which nothing refuses: its port is  *)
(* open, and stays open.                                                   *)
RequestsKeepProviders ==
  kind = "http" /\ shutting \in {"teardown", "closed"} =>
    ending = 0 /\ (serving > 0 => port)

(* The error shutdown() ends with names every hook that failed and no      *)
(* other, whichever phase it failed in.                                    *)
EveryFailureKept ==
  /\ kind = "core" /\ shutting = "closed" => failures = threw
  /\ stopping = "closed" => raised = threw

(* A shutdown ends, whatever the hooks threw: `closed` resolves.           *)
ShutdownCloses ==
  /\ shutting = "draining" ~> shutting = "closed"
  /\ stopping = "drain" ~> stopping = "closed"
=============================================================================
