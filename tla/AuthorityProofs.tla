--------------------------- MODULE AuthorityProofs ---------------------------
(***************************************************************************)
(* What the batch resolution guarantees for any number of labels, workers, *)
(* importers, jobs, restarts and failures, and any limit.                  *)
(***************************************************************************)
EXTENDS AuthorityBatch, TLAPS

-----------------------------------------------------------------------------
(* Types *)

LEMMA InitAuthorityType == Init => TypeOK
<1> SUFFICES ASSUME Init
             PROVE  TypeOK
  OBVIOUS
<1> USE AuthorityAssumption DEF Init, JobIds
<1>1. /\ created \in 0..MaxJobs
      /\ job \in [JobIds -> {"none"} \cup Open \cup Ended]
      /\ \A j \in JobIds : job[j] = "none" <=> j > created
  OBVIOUS
<1>2. /\ cur \in [Workers -> JobIds \cup {None}]
      /\ \A w \in Workers : wpc[w] \notin {"idle", "down"} => cur[w] \in 1..created
  OBVIOUS
<1>3. /\ todo \in [Workers -> SUBSET Values] /\ live \in [Values -> Nat]
      /\ skip \in [JobIds -> BOOLEAN]
  OBVIOUS
<1> QED
  BY <1>1, <1>2, <1>3 DEF TypeOK

\* The jobs that exist have an id.
LEMMA JobIdFacts ==
    ASSUME TypeOK
    PROVE  /\ \A w \in Workers : wpc[w] \notin {"idle", "down"} => cur[w] \in JobIds /\ cur[w] \in 1..created
           /\ \A j \in 1..created : j \in JobIds
           /\ \A j \in JobIds : (j \in 1..created) <=> ~(j > created)
BY AuthorityAssumption DEF TypeOK, JobIds

\* A worker that leaves its job is the only one whose state changes.
LEMMA LeaveType ==
    ASSUME TypeOK, NEW w \in Workers, NEW at \in {"idle", "down"}, Leave(w, at)
    PROVE  /\ wpc' \in [Workers -> {"idle", "claim", "select", "run", "finish", "down"}]
           /\ cur' \in [Workers -> JobIds \cup {None}]
           /\ todo' \in [Workers -> SUBSET Values]
           /\ wpc'[w] = at
           /\ \A u \in Workers \ {w} : wpc'[u] = wpc[u] /\ cur'[u] = cur[u]
BY DEF TypeOK, Leave

LEMMA LeaveHolds ==
    ASSUME TypeOK, NEW w \in Workers, NEW at \in {"idle", "down"}, Leave(w, at)
    PROVE  \A u \in Workers : \A j \in JobIds : Holds(u, j)' <=> Holds(u, j) /\ u # w
BY LeaveType DEF Holds

\* Every step of an importer, a request or a worker keeps the types.
LEMMA NextAuthorityType == TypeOK /\ [Next]_vars => TypeOK'
<1> SUFFICES ASSUME TypeOK, [Next]_vars
             PROVE  TypeOK'
  OBVIOUS
<1> USE AuthorityAssumption, JobIdFacts
<1> USE DEF TypeOK, Open, Ended, workers, table, ghosts, bounds
<1>1. ASSUME NEW i \in Importers, Ingest(i) \/ Check(i)
      PROVE  TypeOK'
  BY <1>1 DEF Ingest, Check
<1>2. ASSUME NEW i \in Importers, Enqueue(i)
      PROVE  TypeOK'
  BY <1>2 DEF Enqueue, NewJob, JobIds
<1>3. CASE Request
  BY <1>3 DEF Request, NewJob, JobIds
<1>4. ASSUME NEW v \in Values, Discard(v)
      PROVE  TypeOK'
  BY <1>4 DEF Discard
<1>5. ASSUME NEW w \in Workers, ClaimSelect(w)
      PROVE  TypeOK'
  BY <1>5 DEF ClaimSelect
<1>6. ASSUME NEW w \in Workers, ClaimUpdate(w)
      PROVE  TypeOK'
  <2>1. cur[w] \in JobIds
    BY <1>6 DEF ClaimUpdate
  <2>2. CASE job[cur[w]] = "pending"
    BY <1>6, <2>1, <2>2 DEF ClaimUpdate
  <2>3. CASE job[cur[w]] # "pending"
    <3>1. Leave(w, "idle")
      BY <1>6, <2>3 DEF ClaimUpdate
    <3> QED
      BY <1>6, <2>3, <3>1, LeaveType DEF ClaimUpdate
  <2> QED
    BY <2>2, <2>3
<1>7. ASSUME NEW w \in Workers, SelectValues(w)
      PROVE  TypeOK'
  <2>1. PICK V \in SUBSET present : todo' = [todo EXCEPT ![w] = V]
    BY <1>7 DEF SelectValues, Selections
  <2>2. overlapped' \in BOOLEAN
    BY <1>7 DEF SelectValues
  <2> QED
    BY <1>7, <2>1, <2>2 DEF SelectValues
<1>8. ASSUME NEW w \in Workers, Resolve(w) \/ EndRun(w)
      PROVE  TypeOK'
  BY <1>8 DEF Resolve, EndRun
<1>9. ASSUME NEW w \in Workers, Finish(w) \/ Fail(w)
      PROVE  TypeOK'
  <2>1. cur[w] \in JobIds /\ cur[w] <= created /\ Leave(w, "idle")
    BY <1>9 DEF Finish, Fail
  <2>2. /\ job' \in [JobIds -> {"none"} \cup Open \cup Ended]
        /\ \A j \in JobIds : job'[j] = "none" <=> j > created
    BY <1>9, <2>1 DEF Finish, Fail
  <2> QED
    BY <1>9, <2>1, <2>2, LeaveType DEF Finish, Fail
<1>10. ASSUME NEW w \in Workers, Escape(w) \/ StartupFails(w)
       PROVE  TypeOK'
  <2>1. Leave(w, "idle")
    BY <1>10 DEF Escape, StartupFails
  <2>2. orphaned' \subseteq JobIds /\ errors' \in Nat
    BY <1>10 DEF Escape, StartupFails
  <2> QED
    BY <1>10, <2>1, <2>2, LeaveType DEF Escape, StartupFails
<1>11. ASSUME NEW w \in Workers, Startup(w)
       PROVE  TypeOK'
  <2>1. Leave(w, "idle")
    BY <1>11 DEF Startup
  <2>2. /\ job' \in [JobIds -> {"none"} \cup Open \cup Ended]
        /\ \A j \in JobIds : job'[j] = "none" <=> j > created
        /\ disturbed' \subseteq JobIds
    BY <1>11 DEF Startup
  <2> QED
    BY <1>11, <2>1, <2>2, LeaveType DEF Startup
<1>15. ASSUME NEW w \in Workers, Kill(w)
       PROVE  TypeOK'
  BY <1>15 DEF Kill
<1>12. ASSUME NEW q \in Inline, InlineSelect(q)
       PROVE  TypeOK'
  <2>1. PICK V \in SUBSET present : batch' = [batch EXCEPT ![q] = V]
    BY <1>12 DEF InlineSelect, Selections
  <2>2. overlapped' \in BOOLEAN /\ calls' \in Nat
    BY <1>12 DEF InlineSelect
  <2> QED
    BY <1>12, <2>1, <2>2 DEF InlineSelect
<1>13. ASSUME NEW q \in Inline, InlineCommit(q)
       PROVE  TypeOK'
  BY <1>13 DEF InlineCommit
<1>14. CASE UNCHANGED vars
  BY <1>14 DEF vars
<1> QED
  BY <1>1, <1>2, <1>3, <1>4, <1>5, <1>6, <1>7, <1>8, <1>9, <1>10, <1>11, <1>12, <1>13, <1>14, <1>15
     DEF Next, Run, Rest

\* The jobs that exist are those with a status, and a worker at work has one of them.
THEOREM AuthorityTypeCorrect == Spec => []TypeOK
<1> QED
  BY InitAuthorityType, NextAuthorityType, PTL DEF Spec

-----------------------------------------------------------------------------
(* Claims *)

\* The job a worker runs is in processing until another process takes it back.
ClaimInv ==
    /\ \A w \in Workers : \A j \in JobIds :
          (Holds(w, j) /\ j \notin disturbed) => job[j] = "processing"
    /\ ClaimExclusive

LEMMA InitClaim == Init => ClaimInv
BY DEF Init, ClaimInv, ClaimExclusive, Holds

LEMMA NextClaim == TypeOK /\ ClaimInv /\ [Next]_vars => ClaimInv'
<1> SUFFICES ASSUME TypeOK, ClaimInv, [Next]_vars
             PROVE  ClaimInv'
  OBVIOUS
<1> USE AuthorityAssumption, JobIdFacts
<1> USE DEF TypeOK, ClaimInv, ClaimExclusive, Holds, workers, table, ghosts, bounds
<1>1. ASSUME NEW i \in Importers, Ingest(i) \/ Check(i)
      PROVE  ClaimInv'
  BY <1>1 DEF Ingest, Check
<1>2. ASSUME NEW i \in Importers, Enqueue(i)
      PROVE  ClaimInv'
  BY <1>2 DEF Enqueue, NewJob, JobIds
<1>3. CASE Request
  BY <1>3 DEF Request, NewJob, JobIds
<1>4. ASSUME NEW v \in Values, Discard(v)
      PROVE  ClaimInv'
  BY <1>4 DEF Discard
<1>5. ASSUME NEW w \in Workers, ClaimSelect(w)
      PROVE  ClaimInv'
  BY <1>5 DEF ClaimSelect
<1>6. ASSUME NEW w \in Workers, ClaimUpdate(w)
      PROVE  ClaimInv'
  BY <1>6 DEF ClaimUpdate, Leave
<1>7. ASSUME NEW w \in Workers, SelectValues(w) \/ Resolve(w) \/ EndRun(w)
      PROVE  ClaimInv'
  <2>1. /\ cur' = cur /\ job' = job /\ disturbed' = disturbed
        /\ \A u \in Workers : \A j \in JobIds : Holds(u, j)' <=> Holds(u, j)
    BY <1>7 DEF SelectValues, Resolve, EndRun
  <2> QED
    BY <2>1
<1>8. ASSUME NEW w \in Workers, Finish(w) \/ Fail(w)
      PROVE  ClaimInv'
  BY <1>8 DEF Finish, Fail, Leave
<1>9. ASSUME NEW w \in Workers, Escape(w) \/ Kill(w) \/ StartupFails(w)
      PROVE  ClaimInv'
  BY <1>9 DEF Escape, Kill, StartupFails, Leave
<1>10. ASSUME NEW w \in Workers, Startup(w)
       PROVE  ClaimInv'
  BY <1>10 DEF Startup, Leave
<1>11. ASSUME NEW q \in Inline, InlineSelect(q) \/ InlineCommit(q)
       PROVE  ClaimInv'
  BY <1>11 DEF InlineSelect, InlineCommit
<1>12. CASE UNCHANGED vars
  BY <1>12 DEF vars
<1> QED
  BY <1>1, <1>2, <1>3, <1>4, <1>5, <1>6, <1>7, <1>8, <1>9, <1>10, <1>11, <1>12 DEF Next, Run, Rest

\* However many API processes claim at the same time, a job has one worker until the
\* startup of another process takes it back.
THEOREM JobClaimedOnce == Spec => []ClaimExclusive
<1>1. Init => TypeOK /\ ClaimInv
  BY InitAuthorityType, InitClaim
<1>2. TypeOK /\ ClaimInv /\ [Next]_vars => (TypeOK /\ ClaimInv)'
  BY NextAuthorityType, NextClaim
<1>3. ClaimInv => ClaimExclusive
  BY DEF ClaimInv
<1> QED
  BY <1>1, <1>2, <1>3, PTL DEF Spec

-----------------------------------------------------------------------------
(* Nothing is left in processing *)

LEMMA InitWorker == Init => ProcessingHasWorker
BY DEF Init, ProcessingHasWorker

LEMMA NextWorker == TypeOK /\ ProcessingHasWorker /\ [Next]_vars => ProcessingHasWorker'
<1> SUFFICES ASSUME TypeOK, ProcessingHasWorker, [Next]_vars
             PROVE  ProcessingHasWorker'
  OBVIOUS
<1> USE AuthorityAssumption, JobIdFacts
<1> USE DEF TypeOK, ProcessingHasWorker, Holds, workers, table, ghosts, bounds
<1>1. ASSUME NEW i \in Importers, Ingest(i) \/ Check(i) \/ Enqueue(i)
      PROVE  ProcessingHasWorker'
  BY <1>1 DEF Ingest, Check, Enqueue, NewJob, JobIds
<1>2. CASE Request
  BY <1>2 DEF Request, NewJob, JobIds
<1>3. ASSUME NEW v \in Values, Discard(v)
      PROVE  ProcessingHasWorker'
  BY <1>3 DEF Discard
<1>4. ASSUME NEW w \in Workers, ClaimSelect(w) \/ ClaimUpdate(w)
      PROVE  ProcessingHasWorker'
  BY <1>4 DEF ClaimSelect, ClaimUpdate, Leave
<1>5. ASSUME NEW w \in Workers, SelectValues(w) \/ Resolve(w) \/ EndRun(w)
      PROVE  ProcessingHasWorker'
  <2>1. /\ job' = job /\ orphaned' = orphaned
        /\ \A u \in Workers : \A j \in JobIds : Holds(u, j) => Holds(u, j)'
        /\ \A u \in Workers : wpc[u] = "down" => wpc'[u] = "down" /\ cur'[u] = cur[u]
    BY <1>5 DEF SelectValues, Resolve, EndRun
  <2> QED
    BY <2>1
<1>6. ASSUME NEW w \in Workers, Finish(w) \/ Fail(w)
      PROVE  ProcessingHasWorker'
  BY <1>6 DEF Finish, Fail, Leave
<1>7. ASSUME NEW w \in Workers, Escape(w) \/ Kill(w) \/ StartupFails(w)
      PROVE  ProcessingHasWorker'
  BY <1>7 DEF Escape, Kill, StartupFails, Leave
<1>8. ASSUME NEW w \in Workers, Startup(w)
      PROVE  ProcessingHasWorker'
  BY <1>8 DEF Startup
<1>9. ASSUME NEW q \in Inline, InlineSelect(q) \/ InlineCommit(q)
      PROVE  ProcessingHasWorker'
  BY <1>9 DEF InlineSelect, InlineCommit
<1>10. CASE UNCHANGED vars
  BY <1>10 DEF vars
<1> QED
  BY <1>1, <1>2, <1>3, <1>4, <1>5, <1>6, <1>7, <1>8, <1>9, <1>10 DEF Next, Run, Rest

\* However restarts, with and without the reset, and requests interleave: a job shown as
\* processing has a worker, or the process that had it is down, or it was left behind by
\* an exception or by a start whose reset failed and has not been claimed or reset since.
THEOREM NoForgottenJob == Spec => []ProcessingHasWorker
<1>1. Init => TypeOK /\ ProcessingHasWorker
  BY InitAuthorityType, InitWorker
<1>2. TypeOK /\ ProcessingHasWorker /\ [Next]_vars => (TypeOK /\ ProcessingHasWorker)'
  BY NextAuthorityType, NextWorker
<1> QED
  BY <1>1, <1>2, PTL DEF Spec

-----------------------------------------------------------------------------
(* A label is resolved once *)

\* As long as runs do not overlap, there is one of them at most, in a worker or in a
\* request, and none of the labels it still has to resolve has live records.
RunInv ==
    overlapped = FALSE =>
        /\ \A u, w \in Workers : Running(u) /\ Running(w) => u = w
        /\ \A w \in Workers : Running(w) => \A v \in todo[w] : live[v] = 0
        /\ \A q \in Inline : batch[q] # None =>
              /\ \A w \in Workers : ~Running(w)
              /\ \A p \in Inline : batch[p] # None => p = q
              /\ \A v \in batch[q] : live[v] = 0
        /\ \A v \in Values : live[v] \in {0, 1}

LEMMA InitRun == Init => RunInv
BY DEF Init, RunInv, Running

LEMMA NextRun == TypeOK /\ RunInv /\ [Next]_vars => RunInv'
<1> SUFFICES ASSUME TypeOK, RunInv, [Next]_vars, overlapped' = FALSE
             PROVE  RunInv'
  BY DEF RunInv
<1>0. overlapped = FALSE
  <2>1. ASSUME NEW w \in Workers, SelectValues(w)
        PROVE  overlapped = FALSE
    BY <2>1 DEF SelectValues, TypeOK
  <2>3. ASSUME NEW q \in Inline, InlineSelect(q)
        PROVE  overlapped = FALSE
    BY <2>3 DEF InlineSelect, TypeOK
  <2>2. CASE UNCHANGED overlapped
    BY <2>2
  <2> QED
    BY <2>1, <2>2, <2>3 DEF Next, Run, InlineCommit, Ingest, Check, Enqueue, Request, Discard, ClaimSelect, ClaimUpdate,
       Resolve, EndRun, Finish, Fail, Escape, Kill, Startup, StartupFails, Rest, ghosts, vars
<1> USE <1>0, AuthorityAssumption
<1> USE DEF TypeOK, RunInv, Running, workers
<1>1. ASSUME NEW i \in Importers, Ingest(i) \/ Check(i) \/ Enqueue(i)
      PROVE  RunInv'
  BY <1>1 DEF Ingest, Check, Enqueue
<1>2. CASE Request
  BY <1>2 DEF Request
<1>3. ASSUME NEW v \in Values, Discard(v)
      PROVE  RunInv'
  BY <1>3 DEF Discard
<1>4. ASSUME NEW w \in Workers, ClaimSelect(w) \/ ClaimUpdate(w)
      PROVE  RunInv'
  BY <1>4 DEF ClaimSelect, ClaimUpdate, Leave
<1>5. ASSUME NEW w \in Workers, SelectValues(w)
      PROVE  RunInv'
  <2>1. /\ skip[cur[w]] = TRUE /\ \A u \in Workers \ {w} : ~Running(u)
        /\ \A q \in Inline : batch[q] = None
    <3>1. ~(~skip[cur[w]] \/ Others(w))
      BY <1>5 DEF SelectValues
    <3>2. skip[cur[w]] \in BOOLEAN
      BY <1>5 DEF SelectValues, JobIds
    <3> QED
      BY <3>1, <3>2 DEF Others
  <2>2. PICK V \in SUBSET {v \in present : live[v] = 0} : todo' = [todo EXCEPT ![w] = V]
    BY <1>5, <2>1 DEF SelectValues, Selections
  <2> QED
    BY <1>5, <2>1, <2>2 DEF SelectValues
<1>6. ASSUME NEW w \in Workers, Resolve(w)
      PROVE  RunInv'
  BY <1>6 DEF Resolve
<1>7. ASSUME NEW w \in Workers, EndRun(w)
      PROVE  RunInv'
  BY <1>7 DEF EndRun
<1>8. ASSUME NEW w \in Workers,
             Finish(w) \/ Fail(w) \/ Escape(w) \/ Kill(w) \/ Startup(w) \/ StartupFails(w)
      PROVE  RunInv'
  BY <1>8 DEF Finish, Fail, Escape, Kill, Startup, StartupFails, Leave
<1>9. ASSUME NEW q \in Inline, InlineSelect(q)
      PROVE  RunInv'
  <2>1. PICK existing \in BOOLEAN :
              /\ \E V \in Selections(existing) : batch' = [batch EXCEPT ![q] = V]
              /\ overlapped' = (overlapped \/ ~existing \/ Others(q))
    BY <1>9 DEF InlineSelect
  <2>2. existing = TRUE /\ ~Others(q)
    BY <2>1
  <2>3. PICK V \in SUBSET {v \in present : live[v] = 0} : batch' = [batch EXCEPT ![q] = V]
    BY <2>1, <2>2 DEF Selections
  <2>4. (\A u \in Workers : ~Running(u)) /\ \A p \in Inline \ {q} : batch[p] = None
    BY <2>2 DEF Others
  <2> QED
    BY <1>9, <2>3, <2>4 DEF InlineSelect
<1>10. ASSUME NEW q \in Inline, InlineCommit(q)
       PROVE  RunInv'
  BY <1>10 DEF InlineCommit
<1>11. CASE UNCHANGED vars
  BY <1>11 DEF vars
<1> QED
  BY <1>1, <1>2, <1>3, <1>4, <1>5, <1>6, <1>7, <1>8, <1>9, <1>10, <1>11 DEF Next, Run, Rest

\* Jobs that were enqueued twice, failed half-way or were run again after a crash, and
\* requests that resolve inline, do not resolve a label a second time, for any number of
\* them, as long as no two runs overlap and each of them skips what is there.
THEOREM LabelResolvedOnce == Spec => []ResolvedOnce
<1>1. Init => TypeOK /\ RunInv
  BY InitAuthorityType, InitRun
<1>2. TypeOK /\ RunInv /\ [Next]_vars => (TypeOK /\ RunInv)'
  BY NextAuthorityType, NextRun
<1>3. TypeOK /\ RunInv => ResolvedOnce
  BY DEF TypeOK, RunInv, ResolvedOnce
<1> QED
  BY <1>1, <1>2, <1>3, PTL DEF Spec

=============================================================================
