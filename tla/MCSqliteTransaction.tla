------------------------ MODULE MCSqliteTransaction ------------------------
(* Two requests with a transaction each, and a nested call in the first.    *)
EXTENDS SqliteTransaction

CONSTANTS t1, t2, n1

MCCalls == {t1, t2, n1}
MCParent == [t \in MCCalls |-> IF t = n1 THEN t1 ELSE NoParent]
=============================================================================
