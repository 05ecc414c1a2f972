------------------------- MODULE MCScheduleDispatch -------------------------
(***************************************************************************)
(* Small instances of ScheduleDispatch.                                    *)
(***************************************************************************)
EXTENDS ScheduleDispatch, TLC

CONSTANTS a1, a2, r1, r2, w1, w2, q1

\* Schedules are alike, and so are replicas and workers: safety runs need only one of
\* the states that differ by such a renaming
Alike == Permutations(Schedules) \cup Permutations(Replicas) \cup Permutations(Workers)

=============================================================================
