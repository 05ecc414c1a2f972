----------------------------- MODULE MCJobQueue -----------------------------
(***************************************************************************)
(* Small instances of JobQueue.                                            *)
(***************************************************************************)
EXTENDS JobQueue

CONSTANTS j1, j2, w1, w2, w3, s1, s2

AllJobs == [w \in Workers |-> Jobs]

\* w2 is started with the --job-type of j2
SecondScoped == [w \in Workers |-> IF w = w2 THEN {j2} ELSE Jobs]

SamePriority == [j \in Jobs |-> 0]

\* j1 is claimed sooner than j2
FirstUrgent == [j \in Jobs |-> IF j = j1 THEN 0 ELSE 1]

=============================================================================
