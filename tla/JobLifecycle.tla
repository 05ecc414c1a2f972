---------------------------- MODULE JobLifecycle ----------------------------
(***************************************************************************)
(* What the durable job runtime promises of the background_jobs rows: the  *)
(* finite state machine of backend/jobs/states.py, for a set of jobs and   *)
(* the sessions that work on them.                                         *)
(*                                                                         *)
(* "none" is a row that does not exist yet, "purged" a row that retention  *)
(* has deleted; the other values are the values of JobStatus.              *)
(*                                                                         *)
(* claim, promote_retry_ready, the insertion and purge_terminal_jobs are   *)
(* single statements that check and change the status, the last two over   *)
(* many rows.  The other transitions are checked on the row as a session   *)
(* reads it and written by primary key later: in between the session holds *)
(* an intent, and other sessions commit.                                   *)
(***************************************************************************)

CONSTANTS Jobs, Sessions

VARIABLES
    status,     \* status[j]: the status column of row j
    intents     \* <<session, job, target>>: checked, and not yet written

vars == <<status, intents>>

-----------------------------------------------------------------------------

TERMINAL_STATES == {"succeeded", "failed", "cancelled"}

Statuses ==
    {"none", "queued", "running", "retry_wait", "purged"} \cup TERMINAL_STATES

(***************************************************************************)
(* The transitions of the job table.  "pending" is reserved: no code       *)
(* writes it.  A row is created queued and deleted when it is terminal.    *)
(***************************************************************************)
ALLOWED_TRANSITIONS ==
    {<<"queued", "running">>, <<"queued", "cancelled">>,
     <<"running", "succeeded">>, <<"running", "retry_wait">>, <<"running", "failed">>,
     <<"retry_wait", "queued">>, <<"retry_wait", "cancelled">>}

TableTransitions ==
    ALLOWED_TRANSITIONS \cup {<<"none", "queued">>} \cup (TERMINAL_STATES \X {"purged"})

\* The transitions of complete, fail and cancel: assert_transition, then a commit
Deferred ==
    {<<"running", "succeeded">>, <<"running", "retry_wait">>, <<"running", "failed">>,
     <<"queued", "cancelled">>, <<"retry_wait", "cancelled">>}

-----------------------------------------------------------------------------

Init ==
    /\ status = [j \in Jobs |-> "none"]
    /\ intents = {}

\* One statement checks and changes the rows it is about
Move ==
    /\ status' \in [Jobs -> Statuses]
    /\ \A j \in Jobs : status'[j] # status[j]
          => <<status[j], status'[j]>> \in TableTransitions \ Deferred
    /\ UNCHANGED intents

\* Session x, with no intent yet, reads row j and finds the transition allowed
Check(x, j, target) ==
    /\ <<status[j], target>> \in Deferred
    /\ \A i \in intents : i[1] # x
    /\ intents' = intents \cup {<<x, j, target>>}
    /\ UNCHANGED status

\* The session writes what it checked, whatever the row has become; a row that
\* has been deleted stays deleted
Write(i) ==
    /\ i \in intents
    /\ intents' = intents \ {i}
    /\ status' = IF status[i[2]] \in {"none", "purged"}
                 THEN status ELSE [status EXCEPT ![i[2]] = i[3]]

\* The session is lost with its intent
Drop(i) ==
    /\ i \in intents
    /\ intents' = intents \ {i}
    /\ UNCHANGED status

Next ==
    \/ Move
    \/ \E x \in Sessions, j \in Jobs, target \in Statuses : Check(x, j, target)
    \/ \E i \in intents : Write(i) \/ Drop(i)

Spec == Init /\ [][Next]_vars

=============================================================================
