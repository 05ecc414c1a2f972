--------------------------- MODULE EnrichmentQueue ---------------------------
(***************************************************************************)
(* The enrichment of entities (backend/enrichment_worker.py,               *)
(* services/enrichment_scheduler.py and the enrichment endpoints of        *)
(* routers/entities.py): the column enrichment_status, the background loop *)
(* of each API process that claims pending entities, the sessions that     *)
(* enrich an entity without claiming it (the row endpoint and the handler  *)
(* of the durable job), and everyone who queues entities.                  *)
(*                                                                         *)
(* A session is modelled by the statements it commits.  The claim and the  *)
(* scheduler's update are UPDATE ... WHERE on the status.  enrich_single_  *)
(* record and the two bulk endpoints go through the ORM: they load the     *)
(* row, and write the status by primary key, if it differs from what they  *)
(* loaded.                                                                 *)
(***************************************************************************)
EXTENDS Naturals, FiniteSets

CONSTANTS
    Entities,
    Unlabelled,         \* the entities without a primary_label
    Loops,              \* the background loops, one per API process
    Callers,            \* row requests and job workers
    Bulk,               \* bulk requests
    Providers,          \* number of active providers in _ACTIVE_CASCADE
    None,
    Modes,              \* the migration modes the enrichment domain may be in
    Budget,             \* max_budget_per_run
    MinPct,             \* min_enrichment_pct
    ById,               \* whether bulk-ids is used, which queues any entity
    MaxRequests,        \* bound on requests and scheduler runs
    MaxRestarts,        \* bound on restarts of API processes
    MaxErrors           \* bound on exceptions that leave enrich_single_record, and on
                        \* starts whose reset fails

ASSUME EnrichmentAssumption ==
    /\ None \notin Entities \cup Loops
    /\ Loops \cap Callers = {}
    /\ Modes \subseteq {"off", "shadow", "queue"}
    /\ Providers \in Nat
    /\ MaxRequests \in Nat
    /\ MaxRestarts \in Nat
    /\ MaxErrors \in Nat

VARIABLES
    status,             \* enrichment_status of each entity
    jobs,               \* queued enrichment.execute jobs of each entity
    \* sessions: program counter, entity (of a process that is down: the one it held),
    \* status it loaded, status it will write
    pc, ent, loaded, to,
    todo,               \* todo[b]: the rows bulk request b has loaded, or None
    picked,             \* the ids the scheduler has selected, or None
    \* history: entities whose status somebody else wrote while a loop held them, and
    \* entities that were left behind, by an exception or by a process that died and
    \* came up without the reset, and have not been claimed or reset since
    disturbed, orphaned,
    requests, restarts, errors

sessions == <<pc, ent, loaded, to>>
bounds   == <<requests, restarts, errors>>
vars     == <<status, jobs, sessions, todo, picked, disturbed, orphaned, bounds>>

Sessions == Loops \cup Callers
Settled  == {"completed", "failed"}
Idle     == {"none", "failed"}      \* what trigger_enrichment_bulk and the scheduler take

\* Loop l has claimed e and not finished with it
Holds(l, e) == pc[l] \in {"get", "enrich", "commit"} /\ ent[l] = e

\* Somebody who writes the rows of E, other than x, disturbs the loops that hold them
Disturbs(x, E) == {e \in E : \E l \in Loops \ {x} : Holds(l, e)}

Init ==
    /\ status \in [Entities -> {"none", "pending"}]
    /\ jobs = [e \in Entities |-> 0]
    /\ pc = [s \in Sessions |-> "idle"]
    /\ ent = [s \in Sessions |-> None]
    /\ loaded = [s \in Sessions |-> None]
    /\ to = [s \in Sessions |-> None]
    /\ todo = [b \in Bulk |-> None]
    /\ picked = None
    /\ disturbed = {}
    /\ orphaned = {}
    /\ requests = 0
    /\ restarts = 0
    /\ errors = 0

Request == requests < MaxRequests /\ requests' = requests + 1 /\ UNCHANGED <<restarts, errors>>

\* The session forgets what it did
Leave(s, at) ==
    /\ pc' = [pc EXCEPT ![s] = at]
    /\ ent' = [ent EXCEPT ![s] = None]
    /\ loaded' = [loaded EXCEPT ![s] = None]
    /\ to' = [to EXCEPT ![s] = None]

-----------------------------------------------------------------------------
(* background_enrichment_worker *)

\* Mutant: an empty SELECT is not noticed
ClaimSelectAny(l) ==
    /\ pc[l] = "idle"
    /\ \E e \in Entities \cup {None} :
          /\ e = None \/ status[e] = "pending"
          /\ pc' = [pc EXCEPT ![l] = "claim"]
          /\ ent' = [ent EXCEPT ![l] = e]
    /\ UNCHANGED <<status, jobs, loaded, to, todo, picked, disturbed, orphaned, bounds>>

\* _atomic_claim_next: the SELECT, in no particular order
ClaimSelect(l) ==
    /\ pc[l] = "idle"
    /\ \E e \in Entities :
          /\ status[e] = "pending"
          /\ pc' = [pc EXCEPT ![l] = "claim"]
          /\ ent' = [ent EXCEPT ![l] = e]
    /\ UNCHANGED <<status, jobs, loaded, to, todo, picked, disturbed, orphaned, bounds>>

\* Nothing is pending: the loop sleeps and asks again
Rest(l) ==
    /\ pc[l] = "idle"
    /\ \A e \in Entities : status[e] # "pending"
    /\ UNCHANGED vars

\* Mutant: the UPDATE has no condition on the status
ClaimUpdateBlind(l) ==
    /\ pc[l] = "claim"
    /\ status' = [status EXCEPT ![ent[l]] = "processing"]
    /\ pc' = [pc EXCEPT ![l] = "get"]
    /\ UNCHANGED <<jobs, ent, loaded, to, todo, picked, disturbed, orphaned, bounds>>

\* _atomic_claim_next: the conditional UPDATE; rowcount 0 is "try again next cycle"
ClaimUpdate(l) ==
    /\ pc[l] = "claim"
    /\ IF status[ent[l]] = "pending"
       THEN /\ status' = [status EXCEPT ![ent[l]] = "processing"]
            /\ orphaned' = orphaned \ {ent[l]}
            /\ pc' = [pc EXCEPT ![l] = "get"]
            /\ UNCHANGED <<ent, loaded, to>>
       ELSE Leave(l, "idle") /\ UNCHANGED <<status, orphaned>>
    /\ UNCHANGED <<jobs, todo, picked, disturbed, bounds>>

\* db.get: the claim's commit has expired the row, so it is read again
Get(l) ==
    /\ pc[l] = "get"
    /\ loaded' = [loaded EXCEPT ![l] = status[ent[l]]]
    /\ pc' = [pc EXCEPT ![l] = "enrich"]
    /\ UNCHANGED <<status, jobs, ent, to, todo, picked, disturbed, orphaned, bounds>>

-----------------------------------------------------------------------------
(* enrich_single_record *)

\* What cb.call(adapter.search_by_title) does: a result, none, CircuitOpenError, or
\* another exception
Answers == {"match", "empty", "open", "raise"}

\* The cascade stops at the first provider with a result, and an exception other than
\* CircuitOpenError ends it too; when no provider stops it, the web scrapers are tried
Cascade(answer, scraped) ==
    LET stops == {i \in 1..Providers : answer[i] \in {"match", "raise"}}
    IN  IF stops = {}
        THEN IF scraped THEN "completed" ELSE "failed"
        ELSE LET first == CHOOSE i \in stops : \A j \in stops : i <= j
             IN  IF answer[first] = "match" THEN "completed" ELSE "failed"

\* The search.  An entity without a label fails at once.
Enrich(s) ==
    /\ pc[s] = "enrich"
    /\ \E answer \in [1..Providers -> Answers], scraped \in BOOLEAN :
          to' = [to EXCEPT ![s] = IF ent[s] \in Unlabelled THEN "failed"
                                  ELSE Cascade(answer, scraped)]
    /\ pc' = [pc EXCEPT ![s] = "commit"]
    /\ UNCHANGED <<status, jobs, ent, loaded, todo, picked, disturbed, orphaned, bounds>>

\* Mutant: a failed search is not written back
CommitMatches(s) ==
    /\ pc[s] = "commit"
    /\ status' = IF to[s] = "completed" THEN [status EXCEPT ![ent[s]] = to[s]] ELSE status
    /\ disturbed' = disturbed \cup Disturbs(s, {ent[s]})
    /\ Leave(s, "idle")
    /\ UNCHANGED <<jobs, todo, picked, orphaned, bounds>>

\* db.commit(): the status is written if it is not the one that was loaded
Commit(s) ==
    /\ pc[s] = "commit"
    /\ IF to[s] # loaded[s]
       THEN /\ status' = [status EXCEPT ![ent[s]] = to[s]]
            /\ disturbed' = disturbed \cup Disturbs(s, {ent[s]})
       ELSE UNCHANGED <<status, disturbed>>
    /\ Leave(s, "idle")
    /\ UNCHANGED <<jobs, todo, picked, orphaned, bounds>>

\* An exception leaves enrich_single_record.  The loop logs it and goes on; the
\* entity it had claimed stays as it is.
Escape(s) ==
    /\ pc[s] \in {"get", "enrich", "commit"}
    /\ errors < MaxErrors
    /\ errors' = errors + 1
    /\ orphaned' = IF s \in Loops THEN orphaned \cup {ent[s]} ELSE orphaned
    /\ Leave(s, "idle")
    /\ UNCHANGED <<status, jobs, todo, picked, disturbed, requests, restarts>>

\* The row endpoint, or the handler of a durable job, loads the entity: neither
\* claims it
Load(c, e) ==
    /\ pc[c] = "idle"
    /\ pc' = [pc EXCEPT ![c] = "enrich"]
    /\ ent' = [ent EXCEPT ![c] = e]
    /\ loaded' = [loaded EXCEPT ![c] = status[e]]
    /\ UNCHANGED <<status, to, todo, picked, disturbed, orphaned>>

EnrichRow(c) == \E e \in Entities : Load(c, e) /\ Request /\ UNCHANGED jobs

ExecuteJob(c) ==
    \E e \in Entities :
        /\ jobs[e] > 0
        /\ jobs' = [jobs EXCEPT ![e] = @ - 1]
        /\ Load(c, e)
        /\ UNCHANGED bounds

-----------------------------------------------------------------------------
(* Queueing *)

\* trigger_enrichment_bulk loads entities in none or failed; bulk-ids any, and it
\* does not write those that are pending
BulkRead(b) ==
    /\ todo[b] = None
    /\ Request
    /\ \E E \in SUBSET {e \in Entities : status[e] \in Idle \/ (ById /\ status[e] # "pending")} :
          E # {} /\ todo' = [todo EXCEPT ![b] = E]
    /\ UNCHANGED <<status, jobs, sessions, picked, disturbed, orphaned>>

\* ... and writes them by primary key
BulkCommit(b) ==
    /\ todo[b] # None
    /\ status' = [e \in Entities |-> IF e \in todo[b] THEN "pending" ELSE status[e]]
    /\ disturbed' = disturbed \cup Disturbs(None, todo[b])
    /\ todo' = [todo EXCEPT ![b] = None]
    /\ UNCHANGED <<jobs, sessions, picked, orphaned, bounds>>

\* _check_domain
IsStale ==
    LET enriched == {e \in Entities : status[e] = "completed"}
    IN  Cardinality(enriched) * 100 < MinPct * Cardinality(Entities)

\* _requeue_domain: the SELECT, limited by the budget
SchedulerSelect ==
    LET eligible == {e \in Entities : status[e] \in Idle}
    IN  /\ picked = None
        /\ IsStale
        /\ Request
        /\ \E E \in SUBSET eligible :
              /\ E # {}
              /\ Cardinality(E) <= Budget
              /\ Cardinality(E) < Budget => E = eligible
              /\ picked' = E
        /\ UNCHANGED <<status, jobs, sessions, todo, disturbed, orphaned>>

\* _requeue_domain: in queue mode a job for each of them whose enqueue does not raise;
\* otherwise the UPDATE, which checks the status again.  The mode is read at every run.
\* The jobs of shadow mode do nothing.
SchedulerRequeue ==
    LET still == {e \in picked : status[e] \in Idle}
    IN  /\ picked # None
        /\ \/ /\ "queue" \in Modes
              /\ \E E \in SUBSET picked :
                    jobs' = [e \in Entities |-> IF e \in E THEN jobs[e] + 1 ELSE jobs[e]]
              /\ UNCHANGED <<status, disturbed>>
           \/ /\ Modes # {"queue"}
              /\ status' = [e \in Entities |-> IF e \in still THEN "pending" ELSE status[e]]
              /\ disturbed' = disturbed \cup Disturbs(None, still)
              /\ UNCHANGED jobs
        /\ picked' = None
        /\ UNCHANGED <<sessions, todo, orphaned, bounds>>

-----------------------------------------------------------------------------
(* Restarts of an API process *)

\* The process dies; what its loop held stays in processing
Kill(l) ==
    /\ pc[l] # "down"
    /\ restarts < MaxRestarts
    /\ restarts' = restarts + 1
    /\ pc' = [pc EXCEPT ![l] = "down"]
    /\ ent' = [ent EXCEPT ![l] = IF Holds(l, @) THEN @ ELSE None]
    /\ loaded' = [loaded EXCEPT ![l] = None]
    /\ to' = [to EXCEPT ![l] = None]
    /\ UNCHANGED <<status, jobs, todo, picked, disturbed, orphaned, requests, errors>>

\* Mutant: the reset gives the entities up
StartupGivesUp(l) ==
    LET reset == {e \in Entities : status[e] = "processing"}
    IN  /\ pc[l] = "down"
        /\ status' = [e \in Entities |-> IF e \in reset THEN "none" ELSE status[e]]
        /\ disturbed' = disturbed \cup Disturbs(l, reset)
        /\ orphaned' = {}
        /\ Leave(l, "idle")
        /\ UNCHANGED <<jobs, todo, picked, bounds>>

\* reset_stale_processing_records: all that are processing, whoever processes them
Startup(l) ==
    LET reset == {e \in Entities : status[e] = "processing"}
    IN  /\ pc[l] = "down"
        /\ status' = [e \in Entities |-> IF e \in reset THEN "pending" ELSE status[e]]
        /\ disturbed' = disturbed \cup Disturbs(l, reset)
        /\ orphaned' = {}
        /\ Leave(l, "idle")
        /\ UNCHANGED <<jobs, todo, picked, bounds>>

\* The bootstrap fails before the reset is committed.  It is fail-open: lifespan logs
\* the exception and starts the loop all the same.
StartupFails(l) ==
    /\ pc[l] = "down"
    /\ errors < MaxErrors
    /\ errors' = errors + 1
    /\ orphaned' = orphaned \cup ({ent[l]} \ {None})
    /\ Leave(l, "idle")
    /\ UNCHANGED <<status, jobs, todo, picked, disturbed, requests, restarts>>

-----------------------------------------------------------------------------
(* The specification *)

Loop(l) == ClaimSelect(l) \/ ClaimUpdate(l) \/ Get(l) \/ Enrich(l) \/ Commit(l)

Next ==
    \/ \E l \in Loops : Loop(l) \/ Rest(l) \/ Kill(l) \/ Startup(l) \/ StartupFails(l)
    \/ \E c \in Callers : EnrichRow(c) \/ ExecuteJob(c) \/ Enrich(c) \/ Commit(c)
    \/ \E s \in Sessions : Escape(s)
    \/ \E b \in Bulk : BulkRead(b) \/ BulkCommit(b)
    \/ SchedulerSelect \/ SchedulerRequeue

Spec == Init /\ [][Next]_vars

\* The loop polls for ever and catches every exception, and a process that died is
\* started again, with or without the reset.  Nobody has to send a request.
Fairness == \A l \in Loops : WF_vars(Loop(l)) /\ WF_vars(Startup(l) \/ StartupFails(l))

FairSpec == Spec /\ Fairness

-----------------------------------------------------------------------------
(* Properties *)

Statuses == {"none", "pending", "processing", "completed", "failed"}

\* Every variable has its type, and a session at work has an entity and, when it
\* enriches, the status it loaded.
TypeOK ==
    /\ status \in [Entities -> Statuses]
    /\ jobs \in [Entities -> Nat]
    /\ pc \in [Sessions -> {"idle", "claim", "get", "enrich", "commit", "down"}]
    /\ ent \in [Sessions -> Entities \cup {None}]
    /\ loaded \in [Sessions -> Statuses \cup {None}]
    /\ to \in [Sessions -> Settled \cup {None}]
    /\ \A s \in Sessions :
          /\ pc[s] \notin {"idle", "down"} => ent[s] \in Entities
          /\ pc[s] = "commit" => to[s] \in Settled
    /\ todo \in [Bulk -> (SUBSET Entities) \cup {None}]
    /\ picked \in (SUBSET Entities) \cup {None}
    /\ disturbed \subseteq Entities
    /\ orphaned \subseteq Entities
    /\ requests \in Nat /\ restarts \in Nat /\ errors \in Nat

\* The claim gives an entity to one loop: two loops, of two API processes, hold the same
\* entity only after somebody wrote its status under the first one (a startup of another
\* process, a request, a job), never because both claimed it.
ClaimExclusive ==
    \A k, l \in Loops : \A e \in Entities :
        (Holds(k, e) /\ Holds(l, e) /\ e \notin disturbed) => k = l

\* No entity is left in processing: while it is, a loop holds it, or the process whose
\* loop held it is down and about to start, or it was left behind by an exception or by
\* a process that came up without the reset, and nobody has claimed or reset it since.
ProcessingHasWorker ==
    \A e \in Entities : status[e] = "processing" =>
        \/ \E l \in Loops : Holds(l, e) \/ (pc[l] = "down" /\ ent[l] = e)
        \/ e \in orphaned

\* A pending entity is enriched or fails, although processes are restarted and others
\* enrich and queue entities at the same time, or it is in processing and was left
\* behind: by an exception that left enrich_single_record, or by a process that died
\* with it and whose reset failed when it came up again.
PendingSettles ==
    \A e \in Entities :
        status[e] = "pending" ~>
            status[e] \in Settled \/ (status[e] = "processing" /\ e \in orphaned)

=============================================================================
