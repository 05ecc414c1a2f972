---------------------------- MODULE Coauthorship ----------------------------
(***************************************************************************)
(* The co-authorship graph (write_coauthor_artifacts and                   *)
(* coauthor_recompute_loop in backend/enrichment_worker.py, and            *)
(* coauthorship/recompute.py): the edge of one pair of authors in each     *)
(* scope (organisation, domain), the log of the entities that contributed  *)
(* to it, the statistics computed from it, and the markers of the scopes   *)
(* whose statistics are due.                                               *)
(*                                                                         *)
(* Writers are sessions that have just enriched an entity with both        *)
(* authors; recomputers are the loops of the API processes, and the        *)
(* endpoint that forces a recompute.  Transactions are READ COMMITTED: a   *)
(* session's writes appear at its commit, an INSERT of a key that another  *)
(* open transaction has inserted waits for it, and a key found taken at    *)
(* the INSERT is an IntegrityError.  The AuthorPublication rows of an      *)
(* entity and its CoauthorContribution row are written together and have   *)
(* the same scope: they are one variable.                                  *)
(***************************************************************************)
EXTENDS Naturals, FiniteSets

CONSTANTS
    Entities, Scopes, Writers, None,
    Loops,              \* coauthor_recompute_loop of each API process
    Requests,           \* requests that force a recompute
    MaxMoves,           \* bound on changes of an entity's scope
    MaxForced           \* bound on forced recomputes

ASSUME CoauthorshipAssumption ==
    /\ None \notin Entities \cup Scopes
    /\ IsFiniteSet(Entities)
    /\ MaxMoves \in Nat
    /\ MaxForced \in Nat

VARIABLES
    home,               \* the scope of each entity
    contrib,            \* the scope of its contribution, None: there is none
    weight,             \* weight of the edge in each scope, 0: there is no edge
    stats,              \* the weight the scope's statistics were computed from
    marker,             \* the dirty marker of each scope: "none", "young" or "old"
    \* writers: program counter, entity, its scope as read, the scope its rows had, what
    \* it inserted, the weight it saw, whether it saw the markers
    wpc, ent, at, prior, inserted, seen, saw, sawPrior,
    \* recomputers: program counter, scopes of the pass, scope at hand, the weight read,
    \* whether the marker objects are still loaded, whether another one came first
    rpc, todo, cur, read, loaded, clash,
    \* history: contributions deleted from each scope; scopes in which a write and a
    \* recompute overlapped, and those in which two writes of a present edge did
    departed, raced, crowded,
    moves, forced

writers == <<wpc, ent, at, prior, inserted, seen, saw, sawPrior>>
recs    == <<rpc, todo, cur, read, loaded, clash>>
tables  == <<contrib, weight, stats, marker>>
bounds  == <<moves, forced>>
vars    == <<home, tables, writers, recs, departed, raced, crowded, bounds>>

Recomputers == Loops \cup Requests

Contributors(s) == {e \in Entities : contrib[e] = s}

Init ==
    /\ home \in [Entities -> Scopes]
    /\ contrib = [e \in Entities |-> None]
    /\ weight = [s \in Scopes |-> 0]
    /\ stats = [s \in Scopes |-> 0]
    /\ marker = [s \in Scopes |-> "none"]
    /\ wpc = [w \in Writers |-> "idle"]
    /\ ent = [w \in Writers |-> None]
    /\ at = [w \in Writers |-> None]
    /\ prior = [w \in Writers |-> None]
    /\ inserted = [w \in Writers |-> FALSE]
    /\ seen = [w \in Writers |-> 0]
    /\ saw = [w \in Writers |-> FALSE]
    /\ sawPrior = [w \in Writers |-> FALSE]
    /\ rpc = [r \in Recomputers |-> "idle"]
    /\ todo = [r \in Recomputers |-> {}]
    /\ cur = [r \in Recomputers |-> None]
    /\ read = [r \in Recomputers |-> 0]
    /\ loaded = [r \in Recomputers |-> FALSE]
    /\ clash = [r \in Recomputers |-> FALSE]
    /\ departed = [s \in Scopes |-> 0]
    /\ raced = {}
    /\ crowded = {}
    /\ moves = 0
    /\ forced = 0

-----------------------------------------------------------------------------
(* write_coauthor_artifacts, and the commit or rollback of its caller *)

\* An entity is given to another organisation or domain
Move(e) ==
    /\ moves < MaxMoves
    /\ \E s \in Scopes \ {home[e]} : home' = [home EXCEPT ![e] = s]
    /\ moves' = moves + 1
    /\ UNCHANGED <<tables, writers, recs, departed, raced, crowded, forced>>

\* Mutant: the scope of an entity without an organisation is left empty
StartUnscoped(w, e) ==
    /\ wpc[w] = "idle"
    /\ wpc' = [wpc EXCEPT ![w] = "publications"]
    /\ ent' = [ent EXCEPT ![w] = e]
    /\ UNCHANGED <<home, tables, at, prior, inserted, seen, saw, sawPrior, recs, departed, raced, crowded, bounds>>

\* The scope is read; then the authors are looked up, with commits of their own
Start(w, e) ==
    /\ wpc[w] = "idle"
    /\ wpc' = [wpc EXCEPT ![w] = "publications"]
    /\ ent' = [ent EXCEPT ![w] = e]
    /\ at' = [at EXCEPT ![w] = home[e]]
    /\ UNCHANGED <<home, tables, prior, inserted, seen, saw, sawPrior, recs, departed, raced, crowded, bounds>>

\* prior_scopes and existing_pubs, and the merge of the old scope's marker
Publications(w) ==
    /\ wpc[w] = "publications"
    /\ prior' = [prior EXCEPT ![w] = contrib[ent[w]]]
    /\ sawPrior' = [sawPrior EXCEPT ![w] =
                      contrib[ent[w]] # None /\ marker[contrib[ent[w]]] # "none"]
    /\ wpc' = [wpc EXCEPT ![w] = "contribution"]
    /\ UNCHANGED <<home, tables, ent, at, inserted, seen, saw, recs, departed, raced, crowded, bounds>>

\* The entity was recorded under another scope
Reassigns(w) == prior[w] \notin {None, at[w]}

\* w has uncommitted rows of its entity
Inserting(w) == wpc[w] \in {"edge", "mark", "commit"} /\ inserted[w]

\* The exception is logged, the transaction rolled back
Rollback(w) ==
    /\ wpc' = [wpc EXCEPT ![w] = "idle"]
    /\ ent' = [ent EXCEPT ![w] = None]
    /\ at' = [at EXCEPT ![w] = None]
    /\ prior' = [prior EXCEPT ![w] = None]
    /\ inserted' = [inserted EXCEPT ![w] = FALSE]
    /\ seen' = [seen EXCEPT ![w] = 0]
    /\ saw' = [saw EXCEPT ![w] = FALSE]
    /\ sawPrior' = [sawPrior EXCEPT ![w] = FALSE]

\* The flush of the publications and the INSERT of the contribution, which wait for
\* another writer of the same entity.  New publications must not be there yet; after a
\* reassignment the contribution cannot be; otherwise a duplicate is skipped.
Contribution(w) ==
    /\ wpc[w] = "contribution"
    /\ \A v \in Writers \ {w} : ~(Inserting(v) /\ ent[v] = ent[w])
    /\ IF prior[w] = None /\ contrib[ent[w]] # None
       THEN Rollback(w)
       ELSE /\ inserted' = [inserted EXCEPT ![w] = contrib[ent[w]] = None \/ Reassigns(w)]
            /\ wpc' = [wpc EXCEPT ![w] = IF inserted'[w] THEN "edge" ELSE "mark"]
            /\ UNCHANGED <<ent, at, prior, seen, saw, sawPrior>>
    /\ UNCHANGED <<home, tables, recs, departed, raced, crowded, bounds>>

\* The edge is loaded
Edge(w) ==
    /\ wpc[w] = "edge"
    /\ seen' = [seen EXCEPT ![w] = weight[at[w]]]
    /\ wpc' = [wpc EXCEPT ![w] = "mark"]
    /\ UNCHANGED <<home, tables, ent, at, prior, inserted, saw, sawPrior, recs, departed, raced, crowded, bounds>>

\* db.merge loads the marker of the scope
Mark(w) ==
    /\ wpc[w] = "mark"
    /\ saw' = [saw EXCEPT ![w] = marker[at[w]] # "none"]
    /\ wpc' = [wpc EXCEPT ![w] = "commit"]
    /\ UNCHANGED <<home, tables, ent, at, prior, inserted, seen, sawPrior, recs, departed, raced, crowded, bounds>>

\* Mutant: nothing keeps two edges of a pair and a scope apart
TakenMarkerOnly(w) ==
    \/ ~saw[w] /\ marker[at[w]] # "none"
    \/ Reassigns(w) /\ ~sawPrior[w] /\ marker[prior[w]] # "none"

\* A row that was absent when it was looked up, and that the commit inserts, is there by now
Taken(w) ==
    \/ inserted[w] /\ seen[w] = 0 /\ weight[at[w]] # 0
    \/ ~saw[w] /\ marker[at[w]] # "none"
    \/ Reassigns(w) /\ ~sawPrior[w] /\ marker[prior[w]] # "none"

\* The markers w inserts.  One it saw is left as it is, and not restored if it is gone.
Marks(w) ==
    {s \in Scopes : \/ s = at[w] /\ ~saw[w]
                    \/ s = prior[w] /\ Reassigns(w) /\ ~sawPrior[w]}

\* Somebody is between reading the edges of s and committing its statistics
Recomputing(s) == \E r \in Recomputers : rpc[r] \in {"wipe", "write"} /\ cur[r] = s

\* Another writer has loaded the edge of s, and will store the weight it saw plus one
Pending(w, s) ==
    \E v \in Writers \ {w} :
        Inserting(v) /\ wpc[v] # "edge" /\ at[v] = s /\ seen[v] # 0

\* What every commit that succeeds does besides the markers: the weight is the one that
\* was loaded, plus one
Stores(w) ==
    LET e == ent[w]
    IN  /\ IF inserted[w]
           THEN /\ contrib' = [contrib EXCEPT ![e] = at[w]]
                /\ weight' = [weight EXCEPT ![at[w]] = seen[w] + 1]
                /\ departed' = IF Reassigns(w)
                               THEN [departed EXCEPT ![contrib[e]] = @ + 1]
                               ELSE departed
                /\ raced' = IF Recomputing(at[w]) THEN raced \cup {at[w]} ELSE raced
                /\ crowded' = IF Pending(w, at[w]) THEN crowded \cup {at[w]} ELSE crowded
           ELSE UNCHANGED <<contrib, weight, departed, raced, crowded>>
        /\ Rollback(w)
        /\ UNCHANGED <<home, stats, recs, bounds>>

\* Mutant: the merge refreshes enqueued_at
CommitRefreshes(w) ==
    /\ wpc[w] = "commit"
    /\ IF Taken(w)
       THEN Rollback(w) /\ UNCHANGED <<home, tables, recs, departed, raced, crowded, bounds>>
       ELSE /\ marker' = [marker EXCEPT ![at[w]] = "young"]
            /\ Stores(w)

\* A marker that was seen is gone.  If its reason was another one, the commit updates it,
\* and finds no row.
Vanished(w) ==
    \/ saw[w] /\ marker[at[w]] = "none"
    \/ Reassigns(w) /\ sawPrior[w] /\ marker[prior[w]] = "none"

\* The commit of the caller
Commit(w) ==
    /\ wpc[w] = "commit"
    /\ \/ /\ Taken(w) \/ Vanished(w)
          /\ Rollback(w)
          /\ UNCHANGED <<home, tables, recs, departed, raced, crowded, bounds>>
       \/ /\ ~Taken(w)
          /\ marker' = [s \in Scopes |-> IF s \in Marks(w) THEN "young" ELSE marker[s]]
          /\ Stores(w)

-----------------------------------------------------------------------------
(* coauthor_recompute_loop and recompute_coauthor_stats *)

\* The debounce window of a marker passes
Age(s) ==
    /\ marker[s] = "young"
    /\ marker' = [marker EXCEPT ![s] = "old"]
    /\ UNCHANGED <<home, contrib, weight, stats, writers, recs, departed, raced, crowded, bounds>>

\* A pass of the loop loads the markers older than the window
Scan(r) ==
    LET due == {s \in Scopes : marker[s] = "old"}
    IN  /\ rpc[r] = "idle"
        /\ due # {}
        /\ rpc' = [rpc EXCEPT ![r] = "pass"]
        /\ todo' = [todo EXCEPT ![r] = due]
        /\ loaded' = [loaded EXCEPT ![r] = TRUE]
        /\ UNCHANGED <<home, tables, writers, cur, read, clash, departed, raced, crowded, bounds>>

\* The endpoint recomputes a scope whether it is marked or not
ForceRecompute(r) ==
    /\ rpc[r] = "idle"
    /\ \E s \in Scopes :
          /\ cur' = [cur EXCEPT ![r] = s]
          /\ read' = [read EXCEPT ![r] = weight[s]]
    /\ rpc' = [rpc EXCEPT ![r] = "wipe"]
    /\ forced < MaxForced
    /\ forced' = forced + 1
    /\ UNCHANGED <<home, tables, writers, todo, loaded, clash, departed, raced, crowded, moves>>

\* The pass is over, or it is abandoned
EndPass(r) ==
    /\ rpc' = [rpc EXCEPT ![r] = "idle"]
    /\ todo' = [todo EXCEPT ![r] = {}]
    /\ cur' = [cur EXCEPT ![r] = None]
    /\ read' = [read EXCEPT ![r] = 0]
    /\ loaded' = [loaded EXCEPT ![r] = FALSE]
    /\ clash' = [clash EXCEPT ![r] = FALSE]

\* The next scope of the pass.  A commit expires the markers that were loaded: one that
\* has been deleted since raises, and its handler, which names it, raises again.
ReadEdges(r) ==
    /\ rpc[r] = "pass"
    /\ \E s \in todo[r] :
          IF loaded[r] \/ marker[s] # "none"
          THEN /\ rpc' = [rpc EXCEPT ![r] = "wipe"]
               /\ todo' = [todo EXCEPT ![r] = @ \ {s}]
               /\ cur' = [cur EXCEPT ![r] = s]
               /\ read' = [read EXCEPT ![r] = weight[s]]
               /\ UNCHANGED <<loaded, clash>>
          ELSE EndPass(r)
    /\ UNCHANGED <<home, tables, writers, departed, raced, crowded, bounds>>

\* The old statistics are deleted
Wipe(r) ==
    /\ rpc[r] = "wipe"
    /\ rpc' = [rpc EXCEPT ![r] = "write"]
    /\ UNCHANGED <<home, tables, writers, todo, cur, read, loaded, clash, departed, raced, crowded, bounds>>

\* Mutant: the markers of all scopes are cleared
WriteStatsClears(r) ==
    /\ rpc[r] = "write"
    /\ stats' = [stats EXCEPT ![cur[r]] = read[r]]
    /\ marker' = [s \in Scopes |-> "none"]
    /\ EndPass(r)
    /\ UNCHANGED <<home, contrib, weight, writers, departed, raced, crowded, bounds>>

\* The new ones are inserted, the marker is deleted, and all is committed.  If another
\* recompute of the scope committed after the deletion, the INSERT fails, and the session,
\* which is not rolled back, fails on the rest of the pass too.
WriteStats(r) ==
    LET s == cur[r]
    IN  /\ rpc[r] = "write"
        /\ IF clash[r] /\ read[r] # 0
           THEN EndPass(r) /\ UNCHANGED <<stats, marker, raced>>
           ELSE /\ stats' = [stats EXCEPT ![s] = read[r]]
                /\ marker' = [marker EXCEPT ![s] = "none"]
                /\ raced' = IF \/ \E w \in Writers : wpc[w] = "commit" /\ at[w] = s /\ saw[w]
                               \/ \E q \in Recomputers \ {r} :
                                     rpc[q] \in {"wipe", "write"} /\ cur[q] = s
                            THEN raced \cup {s} ELSE raced
                /\ clash' = [q \in Recomputers |->
                               IF q = r THEN FALSE
                               ELSE clash[q] \/ (rpc[q] = "write" /\ cur[q] = s /\ read[r] # 0)]
                /\ rpc' = [rpc EXCEPT ![r] = IF todo[r] = {} THEN "idle" ELSE "pass"]
                /\ cur' = [cur EXCEPT ![r] = None]
                /\ read' = [read EXCEPT ![r] = 0]
                /\ loaded' = [loaded EXCEPT ![r] = FALSE]
                /\ UNCHANGED todo
        /\ UNCHANGED <<home, contrib, weight, writers, departed, crowded, bounds>>

-----------------------------------------------------------------------------
(* The specification *)

Recompute(r) == Scan(r) \/ ReadEdges(r) \/ Wipe(r) \/ WriteStats(r)

Next ==
    \/ \E e \in Entities : Move(e)
    \/ \E w \in Writers :
          \/ \E e \in Entities : Start(w, e)
          \/ Publications(w) \/ Contribution(w) \/ Edge(w) \/ Mark(w) \/ Commit(w)
    \/ \E s \in Scopes : Age(s)
    \/ \E r \in Loops : Scan(r)
    \/ \E r \in Requests : ForceRecompute(r)
    \/ \E r \in Recomputers : ReadEdges(r) \/ Wipe(r) \/ WriteStats(r)

Spec == Init /\ [][Next]_vars

\* Time passes, and the loop of an API process runs for ever.  Nobody has to enrich.
Fairness ==
    /\ \A s \in Scopes : WF_vars(Age(s))
    /\ \A r \in Loops : WF_vars(Recompute(r))

FairSpec == Spec /\ Fairness

-----------------------------------------------------------------------------
(* Properties *)

\* Every variable has its type.
TypeOK ==
    /\ home \in [Entities -> Scopes]
    /\ contrib \in [Entities -> Scopes \cup {None}]
    /\ weight \in [Scopes -> Nat]
    /\ stats \in [Scopes -> Nat]
    /\ marker \in [Scopes -> {"none", "young", "old"}]
    /\ wpc \in [Writers -> {"idle", "publications", "contribution", "edge", "mark", "commit"}]
    /\ ent \in [Writers -> Entities \cup {None}]
    /\ at \in [Writers -> Scopes \cup {None}]
    /\ \A w \in Writers : wpc[w] # "idle" => ent[w] \in Entities /\ at[w] \in Scopes
    /\ prior \in [Writers -> Scopes \cup {None}]
    /\ inserted \in [Writers -> BOOLEAN]
    /\ seen \in [Writers -> Nat]
    /\ saw \in [Writers -> BOOLEAN]
    /\ sawPrior \in [Writers -> BOOLEAN]
    /\ rpc \in [Recomputers -> {"idle", "pass", "wipe", "write"}]
    /\ todo \in [Recomputers -> SUBSET Scopes]
    /\ cur \in [Recomputers -> Scopes \cup {None}]
    /\ \A r \in Recomputers : rpc[r] \in {"wipe", "write"} => cur[r] \in Scopes
    /\ read \in [Recomputers -> Nat]
    /\ loaded \in [Recomputers -> BOOLEAN]
    /\ clash \in [Recomputers -> BOOLEAN]
    /\ departed \in [Scopes -> Nat]
    /\ raced \subseteq Scopes
    /\ crowded \subseteq Scopes
    /\ moves \in Nat /\ forced \in Nat

\* The edge of a scope counts the contributions the scope has and those that were deleted
\* from it by a reassignment, since nothing ever takes a count back.  None of them is
\* counted twice, and none is missed unless two writers had loaded the same edge: writers
\* that both found no edge, or that enrich the same entity, lose nothing.
ContributionsCounted ==
    \A s \in Scopes :
        LET had == Cardinality(Contributors(s)) + departed[s]
        IN  weight[s] <= had /\ (weight[s] = had \/ s \in crowded)

\* Statistics are out of date in silence, with no marker, only in a scope where a recompute
\* overlapped a write or another recompute.
StaleIsMarked ==
    \A s \in Scopes : stats[s] = weight[s] \/ marker[s] # "none" \/ s \in raced

\* A scope that is marked is recomputed, although it is being enriched all the time: the
\* window is counted from the first write, so a stream of writes does not postpone it.
DirtyRecomputed ==
    \A s \in Scopes : marker[s] # "none" ~> marker[s] = "none"

\* CoauthorContribution and the design of the graph: each entity contributes exactly one to
\* the weight of the edge, under any interleaving.
ContributesOnce ==
    \A s \in Scopes : weight[s] = Cardinality(Contributors(s))

=============================================================================
