------------------------- MODULE CoauthorshipProofs -------------------------
(***************************************************************************)
(* What the co-authorship graph guarantees for any number of entities,     *)
(* scopes, writers and recomputers, however their transactions interleave. *)
(***************************************************************************)
EXTENDS Coauthorship, FiniteSetTheorems, TLAPS

-----------------------------------------------------------------------------
(* Types *)

LEMMA RecomputersAre == Loops \subseteq Recomputers /\ Requests \subseteq Recomputers
BY DEF Recomputers

\* A writer that is done is as it was at the beginning.
LEMMA RollbackType ==
    ASSUME TypeOK, NEW w \in Writers, Rollback(w)
    PROVE  /\ wpc' \in [Writers -> {"idle", "publications", "contribution", "edge", "mark", "commit"}]
           /\ ent' \in [Writers -> Entities \cup {None}]
           /\ at' \in [Writers -> Scopes \cup {None}]
           /\ prior' \in [Writers -> Scopes \cup {None}]
           /\ inserted' \in [Writers -> BOOLEAN]
           /\ seen' \in [Writers -> Nat]
           /\ saw' \in [Writers -> BOOLEAN]
           /\ sawPrior' \in [Writers -> BOOLEAN]
           /\ wpc'[w] = "idle"
           /\ \A v \in Writers \ {w} :
                 /\ wpc'[v] = wpc[v] /\ ent'[v] = ent[v] /\ at'[v] = at[v] /\ prior'[v] = prior[v]
                 /\ inserted'[v] = inserted[v] /\ seen'[v] = seen[v] /\ saw'[v] = saw[v]
BY DEF TypeOK, Rollback

\* A pass that is over leaves the recomputer idle, and the others as they are.
LEMMA EndPassType ==
    ASSUME TypeOK, NEW r \in Recomputers, EndPass(r)
    PROVE  /\ rpc' \in [Recomputers -> {"idle", "pass", "wipe", "write"}]
           /\ todo' \in [Recomputers -> SUBSET Scopes]
           /\ cur' \in [Recomputers -> Scopes \cup {None}]
           /\ read' \in [Recomputers -> Nat]
           /\ loaded' \in [Recomputers -> BOOLEAN]
           /\ clash' \in [Recomputers -> BOOLEAN]
           /\ rpc'[r] = "idle"
           /\ \A q \in Recomputers \ {r} : rpc'[q] = rpc[q] /\ cur'[q] = cur[q] /\ read'[q] = read[q]
BY DEF TypeOK, EndPass

\* The effect of a commit that succeeds on the tables.
LEMMA StoresType ==
    ASSUME TypeOK, NEW w \in Writers, wpc[w] = "commit", Stores(w)
    PROVE  /\ contrib' \in [Entities -> Scopes \cup {None}]
           /\ weight' \in [Scopes -> Nat]
           /\ departed' \in [Scopes -> Nat]
           /\ raced' \subseteq Scopes
           /\ raced \subseteq raced'
           /\ crowded' \subseteq Scopes
<1>1. ent[w] \in Entities /\ at[w] \in Scopes /\ seen[w] \in Nat
  BY DEF TypeOK
<1>2. CASE inserted[w]
  <2>0. /\ contrib' = [contrib EXCEPT ![ent[w]] = at[w]]
        /\ weight' = [weight EXCEPT ![at[w]] = seen[w] + 1]
    BY <1>2 DEF Stores
  <2>1. contrib' \in [Entities -> Scopes \cup {None}] /\ weight' \in [Scopes -> Nat]
    BY <1>1, <2>0 DEF TypeOK
  <2>2. departed' \in [Scopes -> Nat]
    BY <1>1, <1>2, CoauthorshipAssumption DEF TypeOK, Stores
  <2>3. raced' \subseteq Scopes /\ raced \subseteq raced' /\ crowded' \subseteq Scopes
    BY <1>1, <1>2 DEF TypeOK, Stores
  <2> QED
    BY <2>1, <2>2, <2>3
<1>3. CASE ~inserted[w]
  BY <1>3 DEF TypeOK, Stores
<1> QED
  BY <1>2, <1>3

LEMMA InitCoauthorType == Init => TypeOK
BY CoauthorshipAssumption DEF Init, TypeOK

\* Every step of a writer or a recomputer keeps the types.
LEMMA NextCoauthorType == TypeOK /\ [Next]_vars => TypeOK'
<1> SUFFICES ASSUME TypeOK, [Next]_vars
             PROVE  TypeOK'
  OBVIOUS
<1> USE CoauthorshipAssumption
<1> USE DEF TypeOK, tables, writers, recs, bounds
<1>1. ASSUME NEW e \in Entities, Move(e)
      PROVE  TypeOK'
  BY <1>1 DEF Move
<1>2. ASSUME NEW w \in Writers, NEW e \in Entities, Start(w, e)
      PROVE  TypeOK'
  BY <1>2 DEF Start
<1>3. ASSUME NEW w \in Writers, Publications(w)
      PROVE  TypeOK'
  <2>1. prior' \in [Writers -> Scopes \cup {None}] /\ sawPrior' \in [Writers -> BOOLEAN]
    BY <1>3 DEF Publications
  <2> QED
    BY <1>3, <2>1 DEF Publications
<1>4. ASSUME NEW w \in Writers, Contribution(w)
      PROVE  TypeOK'
  <2>1. CASE prior[w] = None /\ contrib[ent[w]] # None
    <3>1. Rollback(w)
      BY <1>4, <2>1 DEF Contribution
    <3> QED
      BY <1>4, <3>1, RollbackType DEF Contribution
  <2>2. CASE ~(prior[w] = None /\ contrib[ent[w]] # None)
    <3>1. inserted' \in [Writers -> BOOLEAN]
      BY <1>4, <2>2 DEF Contribution
    <3> QED
      BY <1>4, <2>2, <3>1 DEF Contribution
  <2> QED
    BY <2>1, <2>2
<1>5. ASSUME NEW w \in Writers, Edge(w) \/ Mark(w)
      PROVE  TypeOK'
  <2>1. CASE Edge(w)
    BY <2>1 DEF Edge
  <2>2. CASE Mark(w)
    <3>1. saw' \in [Writers -> BOOLEAN]
      BY <2>2 DEF Mark
    <3> QED
      BY <2>2, <3>1 DEF Mark
  <2> QED
    BY <1>5, <2>1, <2>2
<1>6. ASSUME NEW w \in Writers, Commit(w)
      PROVE  TypeOK'
  <2>1. Rollback(w) /\ wpc[w] = "commit"
    BY <1>6 DEF Commit, Stores
  <2>2. CASE UNCHANGED <<home, tables, recs, departed, raced, crowded, bounds>>
    BY <2>1, <2>2, RollbackType
  <2>3. CASE /\ marker' = [s \in Scopes |-> IF s \in Marks(w) THEN "young" ELSE marker[s]]
             /\ Stores(w)
    <3>1. UNCHANGED <<home, stats, recs, bounds>>
      BY <2>3 DEF Stores
    <3> QED
      BY <2>1, <2>3, <3>1, RollbackType, StoresType
  <2> QED
    BY <1>6, <2>2, <2>3 DEF Commit
<1>7. ASSUME NEW s \in Scopes, Age(s)
      PROVE  TypeOK'
  BY <1>7 DEF Age
<1>8. ASSUME NEW r \in Recomputers, Scan(r) \/ ForceRecompute(r) \/ Wipe(r)
      PROVE  TypeOK'
  <2>1. CASE Scan(r)
    <3>1. todo' \in [Recomputers -> SUBSET Scopes]
      BY <2>1 DEF Scan
    <3> QED
      BY <2>1, <3>1 DEF Scan
  <2>2. CASE ForceRecompute(r)
    <3>1. PICK s \in Scopes : /\ cur' = [cur EXCEPT ![r] = s]
                             /\ read' = [read EXCEPT ![r] = weight[s]]
      BY <2>2 DEF ForceRecompute
    <3> QED
      BY <2>2, <3>1 DEF ForceRecompute
  <2>3. CASE Wipe(r)
    BY <2>3 DEF Wipe
  <2> QED
    BY <1>8, <2>1, <2>2, <2>3
<1>9. ASSUME NEW r \in Recomputers, ReadEdges(r)
      PROVE  TypeOK'
  <2>1. CASE EndPass(r)
    BY <1>9, <2>1, EndPassType DEF ReadEdges
  <2>2. CASE ~EndPass(r)
    <3>1. PICK s \in todo[r] :
             /\ todo' = [todo EXCEPT ![r] = @ \ {s}]
             /\ rpc' = [rpc EXCEPT ![r] = "wipe"]
             /\ cur' = [cur EXCEPT ![r] = s]
             /\ read' = [read EXCEPT ![r] = weight[s]]
             /\ UNCHANGED <<loaded, clash, home, tables, writers, departed, raced, crowded, bounds>>
      BY <1>9, <2>2, Zenon DEF ReadEdges
    <3>2. s \in Scopes
      OBVIOUS
    <3>3. todo' \in [Recomputers -> SUBSET Scopes]
      BY <3>1
    <3>4. rpc' \in [Recomputers -> {"idle", "pass", "wipe", "write"}]
      BY <3>1
    <3>5. /\ cur' \in [Recomputers -> Scopes \cup {None}]
          /\ read' \in [Recomputers -> Nat]
      BY <3>1, <3>2
    <3>6. \A q \in Recomputers : rpc'[q] \in {"wipe", "write"} => cur'[q] \in Scopes
      BY <3>1, <3>2
    <3> QED
      BY <3>1, <3>3, <3>4, <3>5, <3>6
  <2> QED
    BY <2>1, <2>2
<1>10. ASSUME NEW r \in Recomputers, WriteStats(r)
       PROVE  TypeOK'
  <2>1. CASE clash[r] /\ read[r] # 0
    <3>1. /\ EndPass(r)
          /\ UNCHANGED <<home, tables, writers, departed, raced, crowded, bounds>>
      BY <1>10, <2>1 DEF WriteStats
    <3> QED
      BY <3>1, EndPassType
  <2>2. CASE ~(clash[r] /\ read[r] # 0)
    <3>1. PICK s \in Scopes : s = cur[r]
      BY <1>10 DEF WriteStats
    <3>2. /\ stats' = [stats EXCEPT ![s] = read[r]]
          /\ marker' = [marker EXCEPT ![s] = "none"]
          /\ raced' \in {raced, raced \cup {s}}
          /\ rpc' = [rpc EXCEPT ![r] = IF todo[r] = {} THEN "idle" ELSE "pass"]
          /\ cur' = [cur EXCEPT ![r] = None]
          /\ read' = [read EXCEPT ![r] = 0]
          /\ loaded' = [loaded EXCEPT ![r] = FALSE]
          /\ UNCHANGED <<todo, home, contrib, weight, writers, departed, crowded, bounds>>
      BY <1>10, <2>2, <3>1 DEF WriteStats
    <3>3. clash' \in [Recomputers -> BOOLEAN]
      <4>1. clash' = [q \in Recomputers |->
                        IF q = r THEN FALSE
                        ELSE clash[q] \/ (rpc[q] = "write" /\ cur[q] = cur[r] /\ read[r] # 0)]
        BY <1>10, <2>2 DEF WriteStats
      <4> QED
        BY <4>1
    <3> QED
      BY <3>2, <3>3
  <2> QED
    BY <2>1, <2>2
<1>11. CASE UNCHANGED vars
  BY <1>11 DEF vars
<1> QED
  BY <1>1, <1>2, <1>3, <1>4, <1>5, <1>6, <1>7, <1>8, <1>9, <1>10, <1>11, RecomputersAre DEF Next

\* Tables, sessions and passes keep their types, and a session at work has an entity and a
\* scope.
THEOREM CoauthorTypeCorrect == Spec => []TypeOK
<1> QED
  BY InitCoauthorType, NextCoauthorType, PTL DEF Spec

-----------------------------------------------------------------------------
(* Statistics are stale with a marker, or after an overlap *)

\* What a recomputer has read is the weight still, and the marker a writer has seen is
\* there still, unless the scope is one where they overlapped.
StaleInv ==
    /\ StaleIsMarked
    /\ \A r \in Recomputers : rpc[r] \in {"wipe", "write"} =>
          read[r] = weight[cur[r]] \/ cur[r] \in raced
    /\ \A w \in Writers : (wpc[w] = "commit" /\ saw[w] = TRUE) =>
          marker[at[w]] # "none" \/ at[w] \in raced

LEMMA InitStale == Init => StaleInv
BY DEF Init, StaleInv, StaleIsMarked

LEMMA NextStale == TypeOK /\ StaleInv /\ [Next]_vars => StaleInv'
<1> SUFFICES ASSUME TypeOK, StaleInv, [Next]_vars
             PROVE  StaleInv'
  OBVIOUS
<1> USE CoauthorshipAssumption
<1> USE DEF TypeOK, StaleInv, StaleIsMarked, tables, writers, recs, bounds
<1>1. ASSUME NEW e \in Entities, Move(e)
      PROVE  StaleInv'
  BY <1>1 DEF Move
<1>2. ASSUME NEW w \in Writers, NEW e \in Entities, Start(w, e)
      PROVE  StaleInv'
  BY <1>2 DEF Start
<1>3. ASSUME NEW w \in Writers, Publications(w)
      PROVE  StaleInv'
  BY <1>3 DEF Publications
<1>4. ASSUME NEW w \in Writers, Contribution(w)
      PROVE  StaleInv'
  <2>1. CASE prior[w] = None /\ contrib[ent[w]] # None
    <3>1. Rollback(w)
      BY <1>4, <2>1 DEF Contribution
    <3> QED
      BY <1>4, <3>1, RollbackType DEF Contribution
  <2>2. CASE ~(prior[w] = None /\ contrib[ent[w]] # None)
    <3>1. wpc'[w] # "commit" /\ \A v \in Writers \ {w} : wpc'[v] = wpc[v]
      BY <1>4, <2>2 DEF Contribution
    <3> QED
      BY <1>4, <2>2, <3>1 DEF Contribution
  <2> QED
    BY <2>1, <2>2
<1>5. ASSUME NEW w \in Writers, Edge(w)
      PROVE  StaleInv'
  BY <1>5 DEF Edge
<1>6. ASSUME NEW w \in Writers, Mark(w)
      PROVE  StaleInv'
  BY <1>6 DEF Mark
<1>7. ASSUME NEW w \in Writers, Commit(w)
      PROVE  StaleInv'
  <2>0. /\ Rollback(w) /\ wpc[w] = "commit" /\ at[w] \in Scopes
        /\ UNCHANGED recs
    BY <1>7 DEF Commit, Stores
  <2>1. CASE UNCHANGED <<home, tables, recs, departed, raced, crowded, bounds>>
    <3>1. /\ wpc'[w] = "idle"
          /\ \A v \in Writers \ {w} : wpc'[v] = wpc[v] /\ at'[v] = at[v] /\ saw'[v] = saw[v]
      BY <2>0, RollbackType
    <3> QED
      BY <2>1, <3>1
  <2>2. CASE /\ ~Taken(w)
             /\ marker' = [s \in Scopes |-> IF s \in Marks(w) THEN "young" ELSE marker[s]]
             /\ Stores(w)
    <3>1. /\ \A s \in Scopes : marker[s] # "none" => marker'[s] # "none"
          /\ stats' = stats
      BY <2>2 DEF Stores
    <3>2. CASE ~inserted[w]
      <4>1. UNCHANGED <<weight, raced>>
        BY <2>2, <3>2 DEF Stores
      <4> QED
        BY <2>0, <3>1, <4>1, RollbackType
    <3>3. CASE inserted[w]
      <4>1. /\ weight' = [weight EXCEPT ![at[w]] = seen[w] + 1]
            /\ raced' = IF Recomputing(at[w]) THEN raced \cup {at[w]} ELSE raced
        BY <2>2, <3>3 DEF Stores
      <4>2. marker'[at[w]] # "none" \/ at[w] \in raced
        <5>1. CASE saw[w]
          BY <2>0, <3>1, <5>1
        <5>2. CASE ~saw[w]
          BY <2>0, <2>2, <5>2 DEF Marks
        <5> QED
          BY <5>1, <5>2
      <4>3. StaleIsMarked'
        BY <2>0, <3>1, <4>1, <4>2
      <4>4. ASSUME NEW r \in Recomputers, rpc'[r] \in {"wipe", "write"}
            PROVE  read'[r] = weight'[cur'[r]] \/ cur'[r] \in raced'
        <5>1. cur[r] = at[w] => Recomputing(at[w])
          BY <2>0, <4>4 DEF Recomputing
        <5> QED
          BY <2>0, <4>1, <4>4, <5>1
      <4>5. ASSUME NEW v \in Writers, wpc'[v] = "commit", saw'[v] = TRUE
            PROVE  marker'[at'[v]] # "none" \/ at'[v] \in raced'
        <5>1. v # w /\ wpc[v] = "commit" /\ saw[v] = TRUE /\ at'[v] = at[v]
          BY <2>0, <4>5 DEF Rollback
        <5>2. marker[at[v]] # "none" \/ at[v] \in raced
          BY <5>1
        <5>3. raced \subseteq raced' /\ at[v] \in Scopes
          BY <4>1, <5>1
        <5> QED
          BY <3>1, <5>1, <5>2, <5>3
      <4> QED
        BY <4>3, <4>4, <4>5
    <3> QED
      BY <3>2, <3>3
  <2> QED
    BY <1>7, <2>1, <2>2 DEF Commit
<1>8. ASSUME NEW s \in Scopes, Age(s)
      PROVE  StaleInv'
  BY <1>8 DEF Age
<1>9. ASSUME NEW r \in Recomputers, Scan(r) \/ Wipe(r)
      PROVE  StaleInv'
  <2>1. CASE Scan(r)
    BY <2>1 DEF Scan
  <2>2. CASE Wipe(r)
    BY <2>2 DEF Wipe
  <2> QED
    BY <1>9, <2>1, <2>2
<1>10. ASSUME NEW r \in Recomputers, ForceRecompute(r)
       PROVE  StaleInv'
  BY <1>10 DEF ForceRecompute
<1>11. ASSUME NEW r \in Recomputers, ReadEdges(r)
       PROVE  StaleInv'
  <2>1. CASE EndPass(r)
    BY <1>11, <2>1, EndPassType DEF ReadEdges
  <2>2. CASE ~EndPass(r)
    <3>1. PICK s \in todo[r] :
             /\ rpc' = [rpc EXCEPT ![r] = "wipe"]
             /\ cur' = [cur EXCEPT ![r] = s]
             /\ read' = [read EXCEPT ![r] = weight[s]]
             /\ UNCHANGED <<tables, writers, raced>>
      BY <1>11, <2>2, Zenon DEF ReadEdges
    <3> QED
      BY <3>1
  <2> QED
    BY <2>1, <2>2
<1>12. ASSUME NEW r \in Recomputers, WriteStats(r)
       PROVE  StaleInv'
  <2>1. CASE clash[r] /\ read[r] # 0
    <3>1. EndPass(r) /\ UNCHANGED <<tables, writers, raced>>
      BY <1>12, <2>1 DEF WriteStats
    <3> QED
      BY <3>1, EndPassType
  <2>2. CASE ~(clash[r] /\ read[r] # 0)
    <3>1. PICK s \in Scopes : s = cur[r]
      BY <1>12 DEF WriteStats
    <3>2. /\ stats' = [stats EXCEPT ![s] = read[r]]
          /\ marker' = [marker EXCEPT ![s] = "none"]
          /\ rpc' = [rpc EXCEPT ![r] = IF todo[r] = {} THEN "idle" ELSE "pass"]
          /\ cur' = [cur EXCEPT ![r] = None]
          /\ read' = [read EXCEPT ![r] = 0]
          /\ UNCHANGED <<weight, writers>>
      BY <1>12, <2>2, <3>1 DEF WriteStats
    <3>3. /\ raced \subseteq raced'
          /\ \A w \in Writers : (wpc[w] = "commit" /\ at[w] = s /\ saw[w]) => s \in raced'
      <4>1. raced' = IF \/ \E w \in Writers : wpc[w] = "commit" /\ at[w] = s /\ saw[w]
                        \/ \E q \in Recomputers \ {r} :
                              rpc[q] \in {"wipe", "write"} /\ cur[q] = s
                     THEN raced \cup {s} ELSE raced
        BY <1>12, <2>2, <3>1, Zenon DEF WriteStats
      <4> QED
        BY <4>1
    <3>4. read[r] = weight[s] \/ s \in raced
      BY <1>12, <3>1 DEF WriteStats
    <3>5. StaleIsMarked'
      BY <3>2, <3>3, <3>4
    <3>6. ASSUME NEW q \in Recomputers, rpc'[q] \in {"wipe", "write"}
          PROVE  read'[q] = weight'[cur'[q]] \/ cur'[q] \in raced'
      BY <3>2, <3>3, <3>6
    <3>7. ASSUME NEW w \in Writers, wpc'[w] = "commit", saw'[w] = TRUE
          PROVE  marker'[at'[w]] # "none" \/ at'[w] \in raced'
      BY <3>2, <3>3, <3>7
    <3> QED
      BY <3>5, <3>6, <3>7
  <2> QED
    BY <2>1, <2>2
<1>13. CASE UNCHANGED vars
  BY <1>13 DEF vars
<1> QED
  BY <1>1, <1>2, <1>3, <1>4, <1>5, <1>6, <1>7, <1>8, <1>9, <1>10, <1>11, <1>12, <1>13,
     RecomputersAre DEF Next

\* A write is never forgotten by the recompute, for any number of writers and recomputers,
\* unless the two overlapped in its scope.
THEOREM StaleStatisticsMarked == Spec => []StaleIsMarked
<1>1. Init => TypeOK /\ StaleInv
  BY InitCoauthorType, InitStale
<1>2. TypeOK /\ StaleInv /\ [Next]_vars => (TypeOK /\ StaleInv)'
  BY NextCoauthorType, NextStale
<1>3. StaleInv => StaleIsMarked
  BY DEF StaleInv
<1> QED
  BY <1>1, <1>2, <1>3, PTL DEF Spec

-----------------------------------------------------------------------------
(* What an edge counts *)

\* The contributions a scope has or has had: what its edge should count
Due(s) == Cardinality(Contributors(s)) + departed[s]

\* Writers exclude each other on an entity from the INSERT to the commit, so the
\* contribution a writer found missing is missing still; what a writer has seen of the
\* weight was due, and it is the weight still unless another one has stored the edge since:
\* then w will find the key taken, or the scope is crowded.
CountInv ==
    /\ \A s \in Scopes : weight[s] <= Due(s) /\ (weight[s] = Due(s) \/ s \in crowded)
    /\ \A v, w \in Writers : (Inserting(v) /\ Inserting(w) /\ ent[v] = ent[w]) => v = w
    /\ \A w \in Writers :
          /\ wpc[w] \in {"contribution", "edge", "mark", "commit"} /\ prior[w] # None
                => contrib[ent[w]] # None
          /\ Inserting(w) /\ ~Reassigns(w) => contrib[ent[w]] = None
          /\ Inserting(w) /\ wpc[w] # "edge" => seen[w] <= Due(at[w])
          /\ Inserting(w) /\ wpc[w] # "edge" =>
                \/ seen[w] = weight[at[w]]
                \/ seen[w] = 0 /\ weight[at[w]] # 0
                \/ at[w] \in crowded

\* What a change of one contribution does to the number of contributors of a scope.
LEMMA CountMoved ==
    ASSUME contrib \in [Entities -> Scopes \cup {None}], NEW e \in Entities,
           NEW t \in Scopes, NEW s, contrib' = [contrib EXCEPT ![e] = t]
    PROVE  /\ Cardinality(Contributors(s)) \in Nat /\ Cardinality(Contributors(s)') \in Nat
           /\ s = t /\ contrib[e] # s
                 => Cardinality(Contributors(s)') = Cardinality(Contributors(s)) + 1
           /\ s # t /\ contrib[e] = s
                 => Cardinality(Contributors(s)') = Cardinality(Contributors(s)) - 1
           /\ (s = t /\ contrib[e] = s) \/ (s # t /\ contrib[e] # s)
                 => Contributors(s)' = Contributors(s)
<1> DEFINE F == Contributors(s)
           G == {x \in Entities : contrib'[x] = s}
<1>1. IsFiniteSet(F) /\ IsFiniteSet(G)
  BY FS_Subset, CoauthorshipAssumption DEF Contributors
<1>2. Cardinality(F) \in Nat /\ Cardinality(G) \in Nat
  BY <1>1, FS_CardinalityType
<1>3. ASSUME s = t, contrib[e] # s
      PROVE  Cardinality(G) = Cardinality(F) + 1
  <2>1. G = F \cup {e} /\ e \notin F
    BY <1>3 DEF Contributors
  <2> QED
    BY <1>1, <2>1, FS_AddElement
<1>4. ASSUME s # t, contrib[e] = s
      PROVE  Cardinality(G) = Cardinality(F) - 1
  <2>1. G = F \ {e} /\ e \in F
    BY <1>4 DEF Contributors
  <2> QED
    BY <1>1, <2>1, FS_RemoveElement
<1>5. ASSUME (s = t /\ contrib[e] = s) \/ (s # t /\ contrib[e] # s)
      PROVE  G = F
  BY <1>5 DEF Contributors
<1>6. G = Contributors(s)'
  BY DEF Contributors
<1> QED
  BY <1>2, <1>3, <1>4, <1>5, <1>6

\* A commit that stores a contribution adds one to what is due in its scope and changes
\* nothing elsewhere: a contribution that is deleted from a scope is still due there.
LEMMA DueGrows ==
    ASSUME TypeOK, NEW w \in Writers, wpc[w] = "commit", inserted[w], Stores(w),
           Reassigns(w) => contrib[ent[w]] # None,
           ~Reassigns(w) => contrib[ent[w]] = None,
           NEW s \in Scopes
    PROVE  /\ Due(s)' \in Nat /\ Due(s) \in Nat
           /\ Due(s)' = IF s = at[w] THEN Due(s) + 1 ELSE Due(s)
<1> DEFINE e == ent[w]
           A == Cardinality(Contributors(s))
           B == Cardinality(Contributors(s)')
<1>1. e \in Entities /\ at[w] \in Scopes /\ at[w] # None
  BY CoauthorshipAssumption DEF TypeOK
<1>2. /\ contrib' = [contrib EXCEPT ![e] = at[w]]
      /\ departed' = IF Reassigns(w) THEN [departed EXCEPT ![contrib[e]] = @ + 1] ELSE departed
  BY DEF Stores
<1>3. contrib \in [Entities -> Scopes \cup {None}] /\ departed \in [Scopes -> Nat]
  BY DEF TypeOK
<1>4. /\ A \in Nat /\ B \in Nat
      /\ s = at[w] /\ contrib[e] # s => B = A + 1
      /\ s # at[w] /\ contrib[e] = s => B = A - 1
      /\ (s = at[w] /\ contrib[e] = s) \/ (s # at[w] /\ contrib[e] # s) => B = A
  BY <1>1, <1>2, <1>3, CountMoved
<1>5. Due(s) = A + departed[s] /\ Due(s)' = B + departed'[s]
  BY DEF Due
<1>6. /\ departed[s] \in Nat /\ departed'[s] \in Nat
      /\ departed'[s] = IF contrib[e] = s THEN departed[s] + 1 ELSE departed[s]
  BY <1>1, <1>2, <1>3, CoauthorshipAssumption
<1> HIDE DEF A, B, e
<1> QED
  BY <1>4, <1>5, <1>6

LEMMA DueType ==
    ASSUME TypeOK, NEW s \in Scopes
    PROVE  Due(s) \in Nat
<1>1. IsFiniteSet(Contributors(s))
  BY FS_Subset, CoauthorshipAssumption DEF Contributors
<1> QED
  BY <1>1, FS_CardinalityType DEF Due, TypeOK

LEMMA InitCount == Init => CountInv
<1> SUFFICES ASSUME Init
             PROVE  CountInv
  OBVIOUS
<1>1. \A s \in Scopes : Due(s) \in Nat
  BY InitCoauthorType, DueType
<1>2. \A s \in Scopes : weight[s] <= Due(s)
  BY <1>1 DEF Init
<1>4. \A s \in Scopes : weight[s] = Due(s)
  <2> SUFFICES ASSUME NEW s \in Scopes
               PROVE  weight[s] = Due(s)
    OBVIOUS
  <2>1. Contributors(s) = {}
    BY CoauthorshipAssumption DEF Init, Contributors
  <2> QED
    BY <2>1, FS_EmptySet DEF Init, Due
<1>3. \A w \in Writers : wpc[w] = "idle"
  BY DEF Init
<1> QED
  BY <1>2, <1>3, <1>4 DEF CountInv, Inserting

\* Only a commit touches what is counted; before it, a writer inserts only when no other
\* writer of its entity does, and loads a weight that is due.
LEMMA NextCount == TypeOK /\ CountInv /\ [Next]_vars => CountInv'
<1> SUFFICES ASSUME TypeOK, CountInv, [Next]_vars
             PROVE  CountInv'
  OBVIOUS
<1> USE CoauthorshipAssumption
<1> USE DEF tables, writers, recs, bounds
<1>0. \A s \in Scopes : Due(s) \in Nat
  BY DueType
<1>1. UNCHANGED <<contrib, departed>> => \A s : Due(s)' = Due(s)
  BY DEF Due, Contributors
<1>2. CASE UNCHANGED <<contrib, weight, departed, crowded, writers>>
  BY <1>1, <1>2 DEF CountInv, Inserting, Reassigns
<1>3. ASSUME NEW w \in Writers, NEW e \in Entities, Start(w, e)
      PROVE  CountInv'
  BY <1>1, <1>3 DEF Start, CountInv, Inserting, Reassigns, TypeOK
<1>4. ASSUME NEW w \in Writers, Publications(w)
      PROVE  CountInv'
  BY <1>1, <1>4 DEF Publications, CountInv, Inserting, Reassigns, TypeOK
<1>5. ASSUME NEW w \in Writers, Rollback(w), UNCHANGED <<contrib, weight, departed, crowded>>
      PROVE  CountInv'
  BY <1>1, <1>5, RollbackType DEF CountInv, Inserting, Reassigns
<1>6. ASSUME NEW w \in Writers, Contribution(w)
      PROVE  CountInv'
  <2>1. CASE prior[w] = None /\ contrib[ent[w]] # None
    BY <1>5, <1>6, <2>1 DEF Contribution
  <2>2. CASE ~(prior[w] = None /\ contrib[ent[w]] # None)
    <3>1. /\ UNCHANGED <<contrib, weight, departed, crowded, ent, at, prior, seen>>
          /\ wpc'[w] \in {"edge", "mark"}
          /\ wpc'[w] = "mark" => inserted'[w] = FALSE
          /\ inserted'[w] => contrib[ent[w]] = None \/ Reassigns(w)
          /\ wpc[w] = "contribution"
          /\ \A v \in Writers \ {w} : /\ wpc'[v] = wpc[v] /\ inserted'[v] = inserted[v]
                                      /\ ~(Inserting(v) /\ ent[v] = ent[w])
      <4>1. /\ inserted' = [inserted EXCEPT ![w] = contrib[ent[w]] = None \/ Reassigns(w)]
            /\ wpc' = [wpc EXCEPT ![w] = IF inserted'[w] THEN "edge" ELSE "mark"]
            /\ wpc[w] = "contribution"
            /\ UNCHANGED <<contrib, weight, departed, crowded, ent, at, prior, seen>>
            /\ \A v \in Writers \ {w} : ~(Inserting(v) /\ ent[v] = ent[w])
        BY <1>6, <2>2 DEF Contribution
      <4>2. inserted'[w] = (contrib[ent[w]] = None \/ Reassigns(w)) /\ inserted'[w] \in BOOLEAN
        BY <4>1 DEF TypeOK
      <4> QED
        BY <4>1, <4>2 DEF TypeOK
    <3> QED
      BY <1>1, <3>1 DEF CountInv, Inserting, Reassigns
  <2> QED
    BY <2>1, <2>2
<1>7. ASSUME NEW w \in Writers, Edge(w)
      PROVE  CountInv'
  <2>1. /\ seen' = [seen EXCEPT ![w] = weight[at[w]]]
        /\ wpc' = [wpc EXCEPT ![w] = "mark"]
        /\ UNCHANGED <<contrib, weight, departed, crowded, ent, at, prior, inserted>>
        /\ wpc[w] = "edge"
    BY <1>7 DEF Edge
  <2>2. seen'[w] <= Due(at[w]) /\ seen'[w] = weight[at[w]]
    BY <2>1 DEF CountInv, TypeOK
  <2> QED
    BY <1>1, <2>1, <2>2 DEF CountInv, Inserting, Reassigns, TypeOK
<1>8. ASSUME NEW w \in Writers, Mark(w)
      PROVE  CountInv'
  BY <1>1, <1>8 DEF Mark, CountInv, Inserting, Reassigns, TypeOK
<1>9. ASSUME NEW w \in Writers, wpc[w] = "commit", ~Taken(w), Stores(w)
      PROVE  CountInv'
  <2>1. Rollback(w)
    BY <1>9 DEF Stores
  <2>2. CASE ~inserted[w]
    BY <1>5, <1>9, <2>1, <2>2 DEF Stores
  <2>3. CASE inserted[w]
    <3>1. /\ contrib' = [contrib EXCEPT ![ent[w]] = at[w]]
          /\ weight' = [weight EXCEPT ![at[w]] = seen[w] + 1]
          /\ crowded' = IF Pending(w, at[w]) THEN crowded \cup {at[w]} ELSE crowded
      BY <1>9, <2>3 DEF Stores
    <3>2. Inserting(w) /\ at[w] \in Scopes /\ ent[w] \in Entities /\ seen[w] \in Nat
      BY <1>9, <2>3 DEF Inserting, TypeOK
    <3>3. /\ Reassigns(w) => contrib[ent[w]] # None
          /\ ~Reassigns(w) => contrib[ent[w]] = None
          /\ seen[w] <= Due(at[w])
          /\ seen[w] = weight[at[w]] \/ at[w] \in crowded
      BY <1>9, <2>3, <3>2 DEF CountInv, Reassigns, Taken
    <3>4. \A s \in Scopes : /\ Due(s)' \in Nat /\ Due(s) \in Nat
                            /\ Due(s)' = IF s = at[w] THEN Due(s) + 1 ELSE Due(s)
      BY <1>9, <2>3, <3>3, DueGrows
    <3>5. ASSUME NEW s \in Scopes
          PROVE  weight'[s] <= Due(s)' /\ (weight'[s] = Due(s)' \/ s \in crowded')
      <4>0. /\ weight[s] \in Nat /\ weight[s] <= Due(s) /\ (weight[s] = Due(s) \/ s \in crowded)
            /\ crowded \subseteq crowded'
        BY <3>1 DEF CountInv, TypeOK
      <4>1. CASE s = at[w]
        <5>1. weight'[s] = seen[w] + 1
          BY <3>1, <3>2, <4>1 DEF TypeOK
        <5> QED
          BY <3>2, <3>3, <3>4, <4>0, <4>1, <5>1
      <4>2. CASE s # at[w]
        <5>1. weight'[s] = weight[s]
          BY <3>1, <3>2, <4>2 DEF TypeOK
        <5> QED
          BY <3>4, <4>0, <4>2, <5>1
      <4> QED
        BY <4>1, <4>2
    <3>6. \A x \in Entities : contrib[x] # None => contrib'[x] # None
      BY <3>1, <3>2 DEF TypeOK
    <3>7. \A v \in Writers \ {w} : Inserting(v) => ent[v] # ent[w]
      BY <3>2 DEF CountInv
    <3>8. \A v \in Writers : wpc[v] # "idle" => ent[v] \in Entities /\ at[v] \in Scopes /\ seen[v] \in Nat
      BY DEF TypeOK
    <3>9. /\ wpc'[w] = "idle"
          /\ \A v \in Writers \ {w} :
                /\ wpc'[v] = wpc[v] /\ ent'[v] = ent[v] /\ at'[v] = at[v] /\ prior'[v] = prior[v]
                /\ inserted'[v] = inserted[v] /\ seen'[v] = seen[v]
      BY <2>1, RollbackType
    <3>10. ASSUME NEW v \in Writers
           PROVE  /\ wpc'[v] \in {"contribution", "edge", "mark", "commit"} /\ prior'[v] # None
                        => contrib'[ent'[v]] # None
                  /\ Inserting(v)' /\ ~Reassigns(v)' => contrib'[ent'[v]] = None
      BY <3>1, <3>2, <3>6, <3>7, <3>8, <3>9 DEF CountInv, Inserting, Reassigns, TypeOK
    <3>11. ASSUME NEW v \in Writers, Inserting(v)', wpc'[v] # "edge"
           PROVE  /\ (seen[v] <= Due(at[v]))'
                  /\ \/ seen'[v] = weight'[at'[v]]
                     \/ seen'[v] = 0 /\ weight'[at'[v]] # 0
                     \/ at'[v] \in crowded'
      <4>1. v # w /\ Inserting(v) /\ wpc[v] # "edge" /\ at[v] \in Scopes /\ seen[v] \in Nat
        BY <3>8, <3>9, <3>11 DEF Inserting
      <4>2. PICK s \in Scopes : s = at[v]
        BY <4>1
      <4>3. seen[v] <= Due(s) /\ Due(s) \in Nat /\ Due(s)' \in Nat /\ Due(s) <= Due(s)'
        BY <3>4, <4>1, <4>2 DEF CountInv
      <4>4. seen'[v] <= Due(s)'
        BY <3>9, <4>1, <4>3
      <4>5. seen[v] = weight[s] \/ (seen[v] = 0 /\ weight[s] # 0) \/ s \in crowded
        BY <4>1, <4>2 DEF CountInv
      <4>6. \/ seen[v] = weight'[s]
            \/ seen[v] = 0 /\ weight'[s] # 0
            \/ s \in crowded'
        <5>1. CASE s = at[w]
          <6>1. seen[v] # 0 => Pending(w, s)
            BY <4>1, <4>2 DEF Pending
          <6>2. weight'[s] = seen[w] + 1
            BY <3>1, <3>2, <5>1 DEF TypeOK
          <6> QED
            BY <3>1, <3>2, <5>1, <6>1, <6>2
        <5>2. CASE s # at[w]
          <6>1. weight'[s] = weight[s] /\ crowded \subseteq crowded'
            BY <3>1, <3>2, <5>2 DEF TypeOK
          <6> QED
            BY <4>5, <6>1
        <5> QED
          BY <5>1, <5>2
      <4>7. (seen[v] <= Due(at[v]))'
        BY <3>9, <4>1, <4>2, <4>4 DEF Due, Contributors
      <4> QED
        BY <3>9, <4>1, <4>2, <4>6, <4>7
    <3>12. ASSUME NEW u \in Writers, NEW v \in Writers, Inserting(u)', Inserting(v)', ent'[u] = ent'[v]
           PROVE  u = v
      BY <3>9, <3>12 DEF CountInv, Inserting
    <3> QED
      BY <3>5, <3>10, <3>11, <3>12 DEF CountInv
  <2> QED
    BY <2>2, <2>3
<1>10. ASSUME NEW w \in Writers, Commit(w)
       PROVE  CountInv'
  BY <1>5, <1>9, <1>10 DEF Commit
<1> QED
  BY <1>2, <1>3, <1>4, <1>6, <1>7, <1>8, <1>10 DEF Next, Move, Age, Scan,
     ForceRecompute, ReadEdges, Wipe, WriteStats, vars

\* However many writers enrich the same entities at the same time, and however their
\* transactions interleave, an edge counts every contribution its scope has or has had at
\* most once, and exactly once unless two writers had loaded it before either committed.
THEOREM EdgeCounts == Spec => []ContributionsCounted
<1>1. Init => TypeOK /\ CountInv
  BY InitCoauthorType, InitCount
<1>2. TypeOK /\ CountInv /\ [Next]_vars => (TypeOK /\ CountInv)'
  BY NextCoauthorType, NextCount
<1>3. CountInv => ContributionsCounted
  BY DEF CountInv, ContributionsCounted, Due
<1> QED
  BY <1>1, <1>2, <1>3, PTL DEF Spec

=============================================================================
