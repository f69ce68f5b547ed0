---------------------------- MODULE ScopeGraph ----------------------------
(***************************************************************************)
(* What create() does before anything is built: collectModules()           *)
(* (di/module.ts) flattens the import graph, buildScopes() (di/scope.ts)   *)
(* computes what each module exports and sees, and create() (di/app.ts)    *)
(* lays overrides and promoted contracts over it.  All of it is            *)
(* synchronous; a step is one visit of a loop or one loop, and the hard    *)
(* part is the worklist of exportSets(), which modules re-export in        *)
(* cycles.                                                                 *)
(*                                                                         *)
(* A layout is a module graph after resolveRef() merged the decorator with *)
(* forRoot().  Binding objects have an identity: the module that declares  *)
(* the token, and whose provider it holds.  The warnings are left out.     *)
(***************************************************************************)
EXTENDS Naturals, Sequences, SequencesExt, FiniteSetsExt, KeptInOrder

CONSTANTS
  Modules, Root,   \* the module references, by name
  Tokens, Classes, \* the injection tokens and those of them that are classes
  Layouts          \* the module graphs create() may be given

ASSUME ScopeAssumption ==
  /\ Root \in Modules /\ Classes \subseteq Tokens /\ Modules \cap Tokens = {}
  /\ \A g \in Layouts :
       /\ g.imports \in [Modules -> Seq(Modules)]
       /\ g.exports \in [Modules -> Seq(Tokens \cup Modules)]
       /\ g.providers \in [Modules -> Seq(Tokens)] \* with the controllers
       /\ g.global \subseteq Modules

VARIABLES
  layout,     \* the module graph
  boot,       \* how far create() is: "collect", "exports", "scopes", "promote", "built",
              \* or why it rejected: "duplicate", "unreachable", "nothing replaced"
  walk,       \* the calls of visit() under way, each with the import it comes to next
  modules,    \* the collected modules, imports before importers
  own,        \* scope.own, per collected module
  sets,       \* exportSets(), per collected module
  worklist,   \* its pending modules, from `at` on
  visible,    \* scope.visible, per collected module
  overridden, \* the tokens of options.overrides
  promoted,   \* the always-bound contracts
  replaced    \* the overridden tokens that replaced something

scopeVars == <<layout, boot, walk, modules, own, sets, worklist, visible, overridden, promoted, replaced>>

(* Maps: nothing bound, one over another, and several of which the first   *)
(* or the last to bind a token prevails.                                   *)
Nothing == [t \in {} |-> t]
Over(f, g) == [t \in DOMAIN f \cup DOMAIN g |-> IF t \in DOMAIN f THEN f[t] ELSE g[t]]
Having(maps, t) == {i \in DOMAIN maps : t \in DOMAIN maps[i]}
FirstOf(maps) ==
  [t \in UNION {DOMAIN maps[i] : i \in DOMAIN maps} |-> maps[Min(Having(maps, t))][t]]
LastOf(maps) ==
  [t \in UNION {DOMAIN maps[i] : i \in DOMAIN maps} |-> maps[Max(Having(maps, t))][t]]

Collected == ToSet(modules)
Binding(t, m, provider) == [token |-> t, module |-> m, provider |-> provider]

Enters(m) == [module |-> m, next |-> 1]

ScopeInit ==
  /\ layout \in Layouts /\ boot = "collect" /\ walk = <<Enters(Root)>>
  /\ modules = <<>> /\ own = Nothing /\ sets = Nothing /\ worklist = <<>> /\ visible = Nothing
  /\ overridden = {} /\ promoted = {} /\ replaced = {}

-----------------------------------------------------------------------------
\* visit(): a reference is seen before its imports are and listed after them.
Seen == Collected \cup {walk[i].module : i \in DOMAIN walk}
TopVisit == walk[Len(walk)]
ToVisit == layout.imports[TopVisit.module]

VisitImport ==
  /\ boot = "collect" /\ walk # <<>> /\ TopVisit.next <= Len(ToVisit)
  /\ LET imported == ToVisit[TopVisit.next]
         past == [walk EXCEPT ![Len(walk)].next = @ + 1]
     IN  walk' = IF imported \in Seen THEN past ELSE Append(past, Enters(imported))
  /\ UNCHANGED <<layout, boot, modules, own, sets, worklist, visible, overridden, promoted, replaced>>

ListModule ==
  /\ boot = "collect" /\ walk # <<>> /\ TopVisit.next > Len(ToVisit)
  /\ modules' = Append(modules, TopVisit.module)
  /\ walk' = SubSeq(walk, 1, Len(walk) - 1)
  /\ UNCHANGED <<layout, boot, own, sets, worklist, visible, overridden, promoted, replaced>>

Declares(m) == ToSet(layout.providers[m])
OwnBindings(m) == [t \in Declares(m) |-> Binding(t, m, "declared")]

ReadModules ==
  /\ boot = "collect" /\ walk = <<>>
  /\ IF \A m \in Collected : IsInjective(layout.providers[m])
     THEN /\ boot' = "exports"
          /\ own' = [m \in Collected |-> OwnBindings(m)]
          /\ sets' = [m \in Collected |-> Nothing]
          /\ worklist' = modules
     ELSE boot' = "duplicate" /\ UNCHANGED <<own, sets, worklist>>
  /\ UNCHANGED <<layout, walk, modules, visible, overridden, promoted, replaced>>

-----------------------------------------------------------------------------
\* exportSets()
SetOf(m) == IF m \in Collected THEN sets[m] ELSE Nothing

\* What one entry of m's exports stands for: a token is m's own or comes of the
\* first import that exposes it, a module is all it exports.
Gives(m, entry) ==
  IF entry \in Modules THEN SetOf(entry)
  ELSE LET imports == layout.imports[m]
           found == Over(own[m], FirstOf([i \in DOMAIN imports |-> SetOf(imports[i])]))
       IN  [t \in {entry} \cap DOMAIN found |-> found[t]]

\* m's set after a visit: it keeps what it has.
ExportsOf(m) ==
  Over(sets[m], FirstOf([i \in DOMAIN layout.exports[m] |-> Gives(m, layout.exports[m][i])]))

\* What m's set is a union over.
Sources(m) == ToSet(layout.imports[m]) \cup (ToSet(layout.exports[m]) \cap Modules)

\* Mutant: a module is visited again only for what it re-exports by name.
ReexportersOf(m, queued) ==
  InOrder(modules, {i \in DOMAIN modules : m \in ToSet(layout.exports[modules[i]])
                                            /\ modules[i] \notin ToSet(queued)})
\* The modules to visit again when m's set grew.
DependentsOf(m, queued) ==
  InOrder(modules, {i \in DOMAIN modules : m \in Sources(modules[i])
                                            /\ modules[i] \notin ToSet(queued)})

VisitExports ==
  /\ boot = "exports" /\ worklist # <<>>
  /\ LET m == Head(worklist)
         queued == Tail(worklist)
     IN  /\ sets' = [sets EXCEPT ![m] = ExportsOf(m)]
         /\ worklist' = IF ExportsOf(m) = sets[m] THEN queued ELSE queued \o DependentsOf(m, queued)
  /\ UNCHANGED <<layout, boot, walk, modules, own, visible, overridden, promoted, replaced>>

-----------------------------------------------------------------------------
\* assertExportsResolve()
ExportsResolve == \A m \in Collected : ToSet(layout.exports[m]) \cap Tokens \subseteq DOMAIN sets[m]

Global == LastOf([i \in DOMAIN modules |-> IF modules[i] \in layout.global THEN sets[modules[i]] ELSE Nothing])

\* The module's own bindings over its imports over the global scope.
Visible(m) ==
  LET imports == layout.imports[m]
  IN  Over(own[m], Over(LastOf([i \in DOMAIN imports |-> SetOf(imports[i])]), Global))

BuildScopes ==
  /\ boot = "exports" /\ worklist = <<>>
  /\ IF ExportsResolve
     THEN boot' = "scopes" /\ visible' = [m \in Collected |-> Visible(m)]
     ELSE boot' = "unreachable" /\ UNCHANGED visible
  /\ UNCHANGED <<layout, walk, modules, own, sets, worklist, overridden, promoted, replaced>>

-----------------------------------------------------------------------------
\* create(): overrides, first where they are declared and then wherever the
\* declaration is seen.
Substitute(view) ==
  [t \in DOMAIN view |-> IF t \in overridden' THEN [view[t] EXCEPT !.provider = "override"] ELSE view[t]]

Override ==
  /\ boot = "scopes" /\ boot' = "promote"
  /\ overridden' \in SUBSET Tokens
  /\ own' = [m \in Collected |-> Substitute(own[m])]
  /\ visible' = [m \in Collected |-> Substitute(visible[m])]
  /\ replaced' = overridden' \cap UNION {DOMAIN own[m] : m \in Collected}
  /\ UNCHANGED <<layout, walk, modules, sets, worklist, promoted>>

\* What a promoted contract is bound to: its override, its first declaration, or
\* the default.
Promotes(t) ==
  LET declaring == {i \in DOMAIN modules : t \in DOMAIN own[modules[i]]}
  IN  IF t \in overridden THEN Binding(t, "(override)", "override")
      ELSE IF declaring # {} THEN own[modules[Min(declaring)]][t]
      ELSE Binding(t, "(default)", "default")

\* Promotion, and the override of a class nothing declares, which registers lazily.
Promote ==
  /\ boot = "promote"
  /\ promoted' \in SUBSET Tokens
  /\ visible' = [m \in Collected |->
                   Over([t \in promoted' \ DOMAIN own[m] |-> Promotes(t)], visible[m])]
  /\ replaced' = replaced \cup (overridden \cap (promoted' \cup Classes))
  /\ boot' = IF overridden \subseteq replaced' THEN "built" ELSE "nothing replaced"
  /\ UNCHANGED <<layout, walk, modules, own, sets, worklist, overridden>>

ScopeNext == VisitImport \/ ListModule \/ ReadModules \/ VisitExports \/ BuildScopes \/ Override \/ Promote
ScopeSpec == ScopeInit /\ [][ScopeNext]_scopeVars

-----------------------------------------------------------------------------
(* The reference: what the guide says a module exports and sees, without a *)
(* worklist.  A least set is the intersection of the closed ones.          *)

Reachable ==
  {m \in Modules : \A S \in SUBSET Modules :
     Root \in S /\ (\A d \in S : ToSet(layout.imports[d]) \subseteq S) => m \in S}

\* d passes a token on that the modules of S expose.
PassesOn(d, t, S) ==
  \/ ToSet(layout.exports[d]) \cap S # {}
  \/ t \in ToSet(layout.exports[d]) \ Declares(d) /\ ToSet(layout.imports[d]) \cap S # {}

\* The modules through which owner's declaration of t is to be had.
ExposedBy(owner, t) ==
  IF t \notin Declares(owner) \cap ToSet(layout.exports[owner]) THEN {}
  ELSE {m \in Reachable : \A S \in SUBSET Reachable :
          owner \in S /\ (\A d \in Reachable : PassesOn(d, t, S) => d \in S) => m \in S}

Exposing(t) == UNION {ExposedBy(owner, t) : owner \in Reachable}

ExportsExact ==
  boot \notin {"collect", "exports", "duplicate"} =>
    /\ Collected = Reachable
    /\ \A m \in Reachable, t \in Tokens :
         /\ t \in DOMAIN sets[m] <=> m \in Exposing(t)
         /\ t \in DOMAIN sets[m] => m \in ExposedBy(sets[m][t].module, t)
    /\ boot = "unreachable" <=>
         \E m \in Reachable : \E t \in ToSet(layout.exports[m]) \cap Tokens : m \notin Exposing(t)

\* The guide's order: own, then the last import that exposes it, then the global scope.
SeenByRule(m, t, binding) ==
  LET imports == layout.imports[m]
      exposing == {i \in DOMAIN imports : imports[i] \in Exposing(t)}
      globals == Exposing(t) \cap layout.global
  IN  IF t \in Declares(m) THEN binding.module = m
      ELSE IF exposing # {} THEN imports[Max(exposing)] \in ExposedBy(binding.module, t)
      ELSE \E g \in globals : g \in ExposedBy(binding.module, t)

VisibleByRule ==
  boot \in {"scopes", "promote", "built"} =>
    \A m \in Reachable, t \in Tokens \ promoted :
      /\ t \in DOMAIN visible[m] <=>
           \/ t \in Declares(m)
           \/ (ToSet(layout.imports[m]) \cup layout.global) \cap Exposing(t) # {}
      /\ t \in DOMAIN visible[m] =>
           SeenByRule(m, t, visible[m][t]) /\ visible[m][t] = own[visible[m][t].module][t]

\* After create() nobody sees a binding of an overridden token but the override,
\* and everybody sees a promoted one.
OverriddenEverywhere ==
  boot = "built" =>
    \A m \in Reachable :
      /\ promoted \subseteq DOMAIN visible[m]
      /\ \A t \in overridden \cap DOMAIN visible[m] : visible[m][t].provider = "override"

(* Whatever the modules import and re-export, in cycles too, the worklist  *)
(* ends with exactly the exports the definition gives, boot fails exactly  *)
(* where one is out of reach, and every module sees what the guide's order *)
(* says, by the very binding its owner holds, overrides included.          *)
ScopesByRule == ExportsExact /\ VisibleByRule /\ OverriddenEverywhere
=============================================================================
