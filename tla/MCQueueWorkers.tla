--------------------------- MODULE MCQueueWorkers ---------------------------
(* Two queues with a job each.                                             *)
EXTENDS QueueWorkers

CONSTANTS j1, j2

MCJobs == {j1, j2}
MCQueueOf == [j \in MCJobs |-> IF j = j1 THEN 1 ELSE 2]
=============================================================================
