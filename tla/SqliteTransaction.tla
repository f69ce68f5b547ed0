------------------------- MODULE SqliteTransaction -------------------------
(***************************************************************************)
(* transaction() on bun:sqlite (packages/infra/src/db/transaction.ts).     *)
(* There is one connection, so every statement anyone issues lands in      *)
(* whatever transaction that connection has open.  scoped() issues BEGIN   *)
(* at depth 0 and SAVEPOINT dunx_sp_<depth> above it, awaits the callback  *)
(* and ends what it opened; sqliteTransaction() queues a call that finds   *)
(* the depth at 0.                                                         *)
(*                                                                         *)
(* A call is a transaction() call: one whose parent is NoParent is made by *)
(* a request of its own, the others are made and awaited by the callback   *)
(* of their parent.  Every call writes at most one row, named after it.    *)
(***************************************************************************)
EXTENDS Integers, Sequences, FiniteSets

CONSTANTS
  Calls, Parent, NoParent,   \* Parent[t]: the call whose callback makes t, or NoParent
  Overlap                    \* whether a request may call while another's callback awaits

ASSUME TransactionAssumption ==
  NoParent \notin Calls /\ Parent \in [Calls -> Calls \cup {NoParent}] /\ Overlap \in BOOLEAN

VARIABLES
  depth,      \* scope.depth
  chain,      \* scope.queue: the calls on the promise chain that have not settled
  stage,      \* "idle", "queued", "open" (the callback runs), "done"
  level,      \* the depth a call read in scoped()
  frames,     \* SQLite: the open BEGIN (level 0) and savepoints with their rows
  committed,  \* SQLite: the durable rows
  wrote,      \* history: the calls that wrote their row
  result      \* the promise of a call: "none", "resolved", "rejected"

txVars == <<depth, chain, stage, level, frames, committed, wrote, result>>

Open == {t \in Calls : stage[t] = "open"}
ChildrenOpen(t) == \E n \in Open : Parent[n] = t

TxInit ==
  /\ depth = 0 /\ chain = <<>>
  /\ stage = [t \in Calls |-> "idle"] /\ level = [t \in Calls |-> 0]
  /\ frames = <<>> /\ committed = {} /\ wrote = {}
  /\ result = [t \in Calls |-> "none"]

-----------------------------------------------------------------------------
\* SQLite's side.  A savepoint is found by name from the innermost out.
Rows(fs) == UNION {fs[i].rows : i \in DOMAIN fs}
Frame(n) == [level |-> n, rows |-> {}]
Named(n) == {i \in DOMAIN frames : frames[i].level = n}
Innermost(n) == CHOOSE i \in Named(n) : \A j \in Named(n) : j <= i

Sql_Commit == frames' = <<>> /\ committed' = committed \cup Rows(frames)
Sql_Rollback == frames' = <<>> /\ UNCHANGED committed

\* RELEASE hands the rows to the enclosing frame; the outermost one commits.
Sql_Release(n) ==
  LET i == Innermost(n)
      rows == Rows(SubSeq(frames, i, Len(frames))) IN
  IF i = 1 THEN frames' = <<>> /\ committed' = committed \cup rows
  ELSE /\ frames' = [SubSeq(frames, 1, i - 1) EXCEPT ![i - 1].rows = @ \cup rows]
       /\ UNCHANGED committed

\* ROLLBACK TO and RELEASE, together: the savepoint and all above it are gone.
Sql_RollbackTo(n) == frames' = SubSeq(frames, 1, Innermost(n) - 1) /\ UNCHANGED committed

-----------------------------------------------------------------------------
\* What settles is the head of the chain or a nested call, which is not on it.
Ends(t, how) ==
  /\ stage' = [stage EXCEPT ![t] = "done"]
  /\ result' = [result EXCEPT ![t] = how]
  /\ chain' = IF chain # <<>> /\ Head(chain) = t THEN Tail(chain) ELSE chain

\* BEGIN throws: the finally block runs, the rollback does not.
BeginThrows(t) == Ends(t, "rejected") /\ UNCHANGED <<depth, level, frames>>

\* scoped() up to its await: BEGIN fails against another writer (SQLITE_BUSY)
\* or inside an open transaction, a savepoint is always granted.
Scoped(t) ==
  /\ \/ depth = 0 /\ BeginThrows(t)
     \/ /\ depth = 0 => frames = <<>>
        /\ depth' = depth + 1
        /\ level' = [level EXCEPT ![t] = depth]
        /\ frames' = Append(frames, Frame(depth))
        /\ stage' = [stage EXCEPT ![t] = "open"]
        /\ UNCHANGED <<chain, result>>
  /\ UNCHANGED <<committed, wrote>>

MayCall(t) ==
  /\ stage[t] = "idle"
  /\ IF Parent[t] = NoParent THEN Overlap \/ depth = 0
     ELSE stage[Parent[t]] = "open" /\ ~ChildrenOpen(Parent[t])

\* sqliteTransaction(): nested as soon as the depth is above 0.
CallNested(t) == MayCall(t) /\ depth > 0 /\ Scoped(t)

CallQueued(t) ==
  /\ MayCall(t) /\ depth = 0
  /\ stage' = [stage EXCEPT ![t] = "queued"]
  /\ chain' = Append(chain, t)
  /\ UNCHANGED <<depth, level, frames, committed, wrote, result>>

\* The promise before t on the chain settled.
Dequeue(t) == chain # <<>> /\ Head(chain) = t /\ stage[t] = "queued" /\ Scoped(t)

\* The callback writes; with no transaction open SQLite commits at once.
Write(t) ==
  /\ stage[t] = "open" /\ t \notin wrote /\ ~ChildrenOpen(t)
  /\ wrote' = wrote \cup {t}
  /\ IF frames = <<>> THEN committed' = committed \cup {t} /\ UNCHANGED frames
     ELSE frames' = [frames EXCEPT ![Len(frames)].rows = @ \cup {t}] /\ UNCHANGED committed
  /\ UNCHANGED <<depth, chain, stage, level, result>>

\* Whether SQLite still has what t opened.
HasFrame(t) == IF level[t] = 0 THEN frames # <<>> ELSE Named(level[t]) # {}

Leaves(t) == depth' = depth - 1 /\ UNCHANGED <<level, wrote>>

\* The callback returned and the COMMIT or RELEASE went through.
Returns(t) ==
  /\ stage[t] = "open" /\ ~ChildrenOpen(t) /\ HasFrame(t)
  /\ IF level[t] = 0 THEN Sql_Commit ELSE Sql_Release(level[t])
  /\ Ends(t, "resolved") /\ Leaves(t)

\* Mutant: a nested call that fails leaves its rows to the enclosing one.
KeepsRows(t) == IF level[t] = 0 THEN Sql_Rollback ELSE Sql_Release(level[t])
Undo(t) == IF level[t] = 0 THEN Sql_Rollback ELSE Sql_RollbackTo(level[t])

\* The callback threw, or its COMMIT or RELEASE did: the catch block.  Where
\* SQLite no longer has what t opened, the rollback throws in its turn.
Throws(t) ==
  /\ stage[t] = "open" /\ ~ChildrenOpen(t)
  /\ IF HasFrame(t) THEN Undo(t) ELSE UNCHANGED <<frames, committed>>
  /\ Ends(t, "rejected") /\ Leaves(t)

TxNext == \E t \in Calls :
  CallNested(t) \/ CallQueued(t) \/ Dequeue(t) \/ Write(t) \/ Returns(t) \/ Throws(t)

TxSpec == TxInit /\ [][TxNext]_txVars

-----------------------------------------------------------------------------
\* t and the calls whose callbacks made it.
Ancestors[t \in Calls] == {t} \cup (IF Parent[t] = NoParent THEN {} ELSE Ancestors[Parent[t]])

\* A row is durable exactly when the call that wrote it and every call around
\* it resolved: no part of a rolled back transaction survives, no part of a
\* committed one is lost, whatever nests, queues or fails to begin.  With no
\* callback running the depth is 0 and SQLite has no transaction open, so the
\* next call begins one of its own.
AllOrNothing ==
  /\ \A t \in wrote : (t \in committed) = (\A a \in Ancestors[t] : result[a] = "resolved")
  /\ Open = {} => depth = 0 /\ frames = <<>>

\* "two top-level transactions cannot overlap: the second waits for the first to
\* finish" (docs/guide/14-database.md): once nothing runs any more, what a
\* request's own transaction() resolved with is durable.
ResolvedIsDurable ==
  Open = {} => \A t \in wrote : Parent[t] = NoParent /\ result[t] = "resolved" => t \in committed
=============================================================================
