------------------------------ MODULE Schedule ------------------------------
(***************************************************************************)
(* infra/src/schedule: ScheduleRegistry (registry.ts) and the drain of     *)
(* ScheduleRunner.onShutdown (runner.ts).  An armed record holds an entry, *)
(* its handler and its cron or timer handle.  Handles fire, callers        *)
(* trigger, handlers settle later, and the runner stops every handle and   *)
(* polls inFlight until it is empty or its deadline passes.                *)
(***************************************************************************)
EXTENDS Integers, FiniteSets

CONSTANTS
  Armed,      \* Armed records; each is added at most once
  Name,       \* the name a record is added under
  Kind,       \* "cron", "interval" or "once"
  Overlap,    \* "skip" or "concurrent"
  MaxActive   \* bound on the runs of one record in flight

ASSUME ScheduleAssumption ==
  /\ Kind \in [Armed -> {"cron", "interval", "once"}]
  /\ Overlap \in [Armed -> {"skip", "concurrent"}]
  /\ Name \in [Armed -> STRING] /\ MaxActive \in Nat

VARIABLES
  place,     \* "new", "held" in #armed, or "gone" from it
  handle,    \* records whose cron or timer handle can still fire
  run,       \* records that still hold their handler
  running,   \* entry.running
  finished,  \* entry.finished
  fired,     \* how many runs its handle started are in flight
  called,    \* how many runs trigger() started are in flight
  phase      \* "up", then "draining", then "drained" or "deadline"

scheduleVars == <<place, handle, run, running, finished, fired, called, phase>>

ScheduleInit ==
  /\ place = [a \in Armed |-> "new"]
  /\ handle = {} /\ run = {} /\ running = {} /\ finished = {}
  /\ fired = [a \in Armed |-> 0] /\ called = [a \in Armed |-> 0]
  /\ phase = "up"

Active(a) == fired[a] + called[a]
Held == {a \in Armed : place[a] = "held"}

NameFree(a) == \A b \in Held : Name[b] # Name[a]

(* Mutants: only crons are stopped; a run does not set running.            *)
Skips(a) == a \in running /\ Overlap[a] = "skip"

Releases(a) == run' = IF Kind[a] = "once" THEN run \ {a} ELSE run

DisarmsCronOnly(as) ==
  /\ handle' = {a \in handle : a \notin as \/ Kind[a] # "cron"}
  /\ finished' = finished \cup as

(* #disarm, of one record or of all.                                       *)
Disarms(as) == handle' = handle \ as /\ finished' = finished \cup as

(* add(): a name is taken while its record is held.                        *)
Add(a) ==
  /\ place[a] = "new" /\ NameFree(a)
  /\ place' = [place EXCEPT ![a] = "held"]
  /\ run' = run \cup {a}
  /\ \E enabled \in BOOLEAN : handle' = IF enabled THEN handle \cup {a} ELSE handle
  /\ UNCHANGED <<running, finished, fired, called, phase>>

(* remove()                                                                *)
Remove(a) ==
  /\ a \in Held
  /\ place' = [place EXCEPT ![a] = "gone"]
  /\ Disarms({a})
  /\ UNCHANGED <<run, running, fired, called, phase>>

(* #invoke: the handler returns a promise, or throws at once.              *)
MayStart(a) == a \in run /\ ~Skips(a) /\ Active(a) < MaxActive
RunsOnUnmarked(a) == UNCHANGED running
RunsOn(a) == running' = running \cup {a}
Settles(a) == running' = running \ {a}

(* A handle fires.  Bun.cron does not fire while the promise it was given  *)
(* under skip is pending; a one-shot's timer fires once, and lets go of    *)
(* its handler when its run is over or was skipped.                        *)
Due(a) ==
  /\ a \in handle
  /\ ~(Kind[a] = "cron" /\ Overlap[a] = "skip" /\ fired[a] > 0)

Spends(a) ==
  /\ handle' = IF Kind[a] = "once" THEN handle \ {a} ELSE handle
  /\ finished' = IF Kind[a] = "once" THEN finished \cup {a} ELSE finished

Fire(a) ==
  /\ Due(a) /\ MayStart(a) /\ Spends(a)
  /\ \/ RunsOn(a) /\ fired' = [fired EXCEPT ![a] = @ + 1] /\ UNCHANGED run
     \/ Settles(a) /\ Releases(a) /\ UNCHANGED fired
  /\ UNCHANGED <<place, called, phase>>

FireSkipped(a) ==
  /\ Due(a) /\ Kind[a] = "once" /\ Skips(a) /\ Spends(a)
  /\ Releases(a)
  /\ UNCHANGED <<place, running, fired, called, phase>>

(* trigger(), which works before and during shutdown.                      *)
Trigger(a) ==
  /\ a \in Held /\ MayStart(a)
  /\ \/ RunsOn(a) /\ called' = [called EXCEPT ![a] = @ + 1]
     \/ Settles(a) /\ UNCHANGED called
  /\ UNCHANGED <<place, handle, run, finished, fired, phase>>

(* A run's promise settles, well or badly.                                 *)
SettleCalled(a) ==
  /\ called[a] > 0 /\ called' = [called EXCEPT ![a] = @ - 1]
  /\ Settles(a)
  /\ UNCHANGED <<place, handle, run, finished, fired, phase>>

SettleFired(a) ==
  /\ fired[a] > 0 /\ fired' = [fired EXCEPT ![a] = @ - 1]
  /\ Settles(a) /\ Releases(a)
  /\ UNCHANGED <<place, handle, finished, called, phase>>

InFlight == Held \cap running

(* onShutdown(): stopAll, then the poll, then the deadline.                *)
StopAll ==
  /\ phase = "up" /\ phase' = "draining"
  /\ Disarms(Held)
  /\ UNCHANGED <<place, run, running, fired, called>>

Drained ==
  /\ phase = "draining" /\ InFlight = {} /\ phase' = "drained"
  /\ UNCHANGED <<place, handle, run, running, finished, fired, called>>

Deadline ==
  /\ phase = "draining" /\ InFlight # {} /\ phase' = "deadline"
  /\ UNCHANGED <<place, handle, run, running, finished, fired, called>>

ScheduleNext ==
  \/ \E a \in Armed :
       \/ Add(a) \/ Remove(a) \/ Fire(a) \/ FireSkipped(a) \/ Trigger(a)
       \/ SettleCalled(a) \/ SettleFired(a)
  \/ StopAll \/ Drained \/ Deadline

ScheduleSpec == ScheduleInit /\ [][ScheduleNext]_scheduleVars

-----------------------------------------------------------------------------
(* "Stops every handle first, so nothing new starts" (runner.ts:89): a     *)
(* record that was held at the stop, or was removed, never fires again.    *)
StoppedNeverFires ==
  [][\A a \in Armed :
       (place[a] = "gone" \/ (phase # "up" /\ a \in finished)) => fired'[a] <= fired[a]]_scheduleVars

(* "then waits out what is already running" (runner.ts:89-90): a drain     *)
(* that ended before its deadline left no held schedule running.  The one  *)
(* flag it polls accounts for every run because under skip the runs of a   *)
(* schedule never overlap, whichever of its handle and its callers started *)
(* them (registry.ts:220).                                                 *)
DrainWaitsOut ==
  [][/\ phase = "draining" /\ phase' = "drained" => \A a \in Held : Active(a) = 0
     /\ \A a \in Armed : Overlap[a] = "skip" => fired'[a] + called'[a] <= 1]_scheduleVars
=============================================================================
