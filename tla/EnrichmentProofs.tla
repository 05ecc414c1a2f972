-------------------------- MODULE EnrichmentProofs --------------------------
(***************************************************************************)
(* What the enrichment queue guarantees for any number of entities, API    *)
(* processes, sessions, requests, restarts and exceptions.                 *)
(***************************************************************************)
EXTENDS EnrichmentQueue, TLAPS

-----------------------------------------------------------------------------
(* Types *)

\* The cascade always comes to one of the two ends.
LEMMA CascadeSettles ==
    ASSUME NEW answer, NEW scraped \in BOOLEAN
    PROVE  Cascade(answer, scraped) \in Settled
BY DEF Cascade, Settled

LEMMA InitEnrichmentType == Init => TypeOK
BY EnrichmentAssumption DEF Init, TypeOK, Statuses, Settled

\* Every step of a loop, a session, a request or the scheduler keeps the types.
LEMMA NextEnrichmentType == TypeOK /\ [Next]_vars => TypeOK'
<1> SUFFICES ASSUME TypeOK, [Next]_vars
             PROVE  TypeOK'
  OBVIOUS
<1> USE EnrichmentAssumption DEF TypeOK, Statuses, Settled, Sessions, bounds, sessions
<1>1. ASSUME NEW l \in Loops, ClaimSelect(l)
      PROVE  TypeOK'
  BY <1>1 DEF ClaimSelect
<1>2. ASSUME NEW l \in Loops, ClaimUpdate(l)
      PROVE  TypeOK'
  BY <1>2 DEF ClaimUpdate, Leave
<1>3. ASSUME NEW l \in Loops, Get(l)
      PROVE  TypeOK'
  BY <1>3 DEF Get
<1>4. ASSUME NEW s \in Sessions, Enrich(s)
      PROVE  TypeOK'
  <2>1. PICK out \in Settled : to' = [to EXCEPT ![s] = out]
    BY <1>4, CascadeSettles DEF Enrich
  <2> QED
    BY <1>4, <2>1 DEF Enrich
<1>5. ASSUME NEW s \in Sessions, Commit(s)
      PROVE  TypeOK'
  BY <1>5 DEF Commit, Leave, Disturbs
<1>6. ASSUME NEW s \in Sessions, Escape(s)
      PROVE  TypeOK'
  BY <1>6 DEF Escape, Leave
<1>7. ASSUME NEW c \in Callers, EnrichRow(c)
      PROVE  TypeOK'
  BY <1>7 DEF EnrichRow, Load, Request
<1>8. ASSUME NEW c \in Callers, ExecuteJob(c)
      PROVE  TypeOK'
  BY <1>8 DEF ExecuteJob, Load
<1>9. ASSUME NEW b \in Bulk, BulkRead(b)
      PROVE  TypeOK'
  BY <1>9 DEF BulkRead, Request
<1>10. ASSUME NEW b \in Bulk, BulkCommit(b)
       PROVE  TypeOK'
  BY <1>10 DEF BulkCommit, Disturbs
<1>11. CASE SchedulerSelect
  BY <1>11 DEF SchedulerSelect, Request
<1>12. CASE SchedulerRequeue
  BY <1>12 DEF SchedulerRequeue, Disturbs
<1>13. ASSUME NEW l \in Loops, Kill(l)
       PROVE  TypeOK'
  BY <1>13 DEF Kill
<1>14. ASSUME NEW l \in Loops, Startup(l) \/ StartupFails(l)
       PROVE  TypeOK'
  BY <1>14 DEF Startup, StartupFails, Leave, Disturbs
<1>15. CASE UNCHANGED vars
  BY <1>15 DEF vars
<1> QED
  BY <1>1, <1>2, <1>3, <1>4, <1>5, <1>6, <1>7, <1>8, <1>9, <1>10, <1>11, <1>12, <1>13,
     <1>14, <1>15 DEF Next, Loop, Rest

\* A status is always one the code knows, and a session at work has an entity.
THEOREM EnrichmentTypeCorrect == Spec => []TypeOK
<1> QED
  BY InitEnrichmentType, NextEnrichmentType, PTL DEF Spec

-----------------------------------------------------------------------------
(* Claims *)

\* While a loop holds an entity nobody else has written, its status says so; that is what
\* keeps the next claim out.
ClaimInv ==
    /\ \A l \in Loops : \A e \in Entities :
          (Holds(l, e) /\ e \notin disturbed) => status[e] = "processing"
    /\ ClaimExclusive

LEMMA InitClaim == Init => ClaimInv
BY DEF Init, ClaimInv, ClaimExclusive, Holds, Sessions

LEMMA NextClaim == TypeOK /\ ClaimInv /\ [Next]_vars => ClaimInv'
<1> SUFFICES ASSUME TypeOK, ClaimInv, [Next]_vars
             PROVE  ClaimInv'
  OBVIOUS
<1> USE EnrichmentAssumption DEF TypeOK, ClaimInv, ClaimExclusive, Holds, Sessions, bounds, sessions
<1>1. ASSUME NEW l \in Loops, ClaimSelect(l)
      PROVE  ClaimInv'
  BY <1>1 DEF ClaimSelect
<1>2. ASSUME NEW l \in Loops, ClaimUpdate(l)
      PROVE  ClaimInv'
  BY <1>2 DEF ClaimUpdate, Leave
<1>3. ASSUME NEW l \in Loops, Get(l)
      PROVE  ClaimInv'
  BY <1>3 DEF Get
<1>4. ASSUME NEW s \in Sessions, Enrich(s)
      PROVE  ClaimInv'
  BY <1>4 DEF Enrich
<1>5. ASSUME NEW s \in Sessions, Commit(s)
      PROVE  ClaimInv'
  BY <1>5 DEF Commit, Leave, Disturbs
<1>6. ASSUME NEW s \in Sessions, Escape(s)
      PROVE  ClaimInv'
  BY <1>6 DEF Escape, Leave
<1>7. ASSUME NEW c \in Callers, EnrichRow(c) \/ ExecuteJob(c)
      PROVE  ClaimInv'
  BY <1>7 DEF EnrichRow, ExecuteJob, Load
<1>8. ASSUME NEW b \in Bulk, BulkRead(b)
      PROVE  ClaimInv'
  BY <1>8 DEF BulkRead
<1>9. ASSUME NEW b \in Bulk, BulkCommit(b)
      PROVE  ClaimInv'
  BY <1>9 DEF BulkCommit, Disturbs
<1>10. CASE SchedulerSelect
  BY <1>10 DEF SchedulerSelect
<1>11. CASE SchedulerRequeue
  BY <1>11 DEF SchedulerRequeue, Disturbs
<1>12. ASSUME NEW l \in Loops, Kill(l)
       PROVE  ClaimInv'
  BY <1>12 DEF Kill
<1>13. ASSUME NEW l \in Loops, Startup(l) \/ StartupFails(l)
       PROVE  ClaimInv'
  BY <1>13 DEF Startup, StartupFails, Leave, Disturbs
<1>14. CASE UNCHANGED vars
  BY <1>14 DEF vars
<1> QED
  BY <1>1, <1>2, <1>3, <1>4, <1>5, <1>6, <1>7, <1>8, <1>9, <1>10, <1>11, <1>12, <1>13,
     <1>14 DEF Next, Loop, Rest

\* However many API processes claim at the same time, an entity has one holder until
\* somebody else writes its status.
THEOREM EntityClaimedOnce == Spec => []ClaimExclusive
<1>1. Init => TypeOK /\ ClaimInv
  BY InitEnrichmentType, InitClaim
<1>2. TypeOK /\ ClaimInv /\ [Next]_vars => (TypeOK /\ ClaimInv)'
  BY NextEnrichmentType, NextClaim
<1>3. ClaimInv => ClaimExclusive
  BY DEF ClaimInv
<1> QED
  BY <1>1, <1>2, <1>3, PTL DEF Spec

-----------------------------------------------------------------------------
(* Nothing is left in processing *)

\* Loop l holds e and its commit will write the status: what it has loaded, or is about to
\* load, is not an end
Owes(l, e) == Holds(l, e) /\ (pc[l] = "get" \/ loaded[l] \notin Settled)

\* The process of loop l died while the loop held e, and has not started since.
LeftDown(l, e) == pc[l] = "down" /\ ent[l] = e

\* The inductive form of ProcessingHasWorker: a loop that has loaded the end another one
\* wrote may write nothing, so it does not count.
OwedInv ==
    \A e \in Entities : status[e] = "processing" =>
        \/ \E l \in Loops : Owes(l, e) \/ LeftDown(l, e)
        \/ e \in orphaned

LEMMA InitOwed == Init => OwedInv
BY DEF Init, OwedInv

LEMMA NextOwed == TypeOK /\ OwedInv /\ [Next]_vars => OwedInv'
<1> SUFFICES ASSUME TypeOK, OwedInv, [Next]_vars, NEW e \in Entities, status'[e] = "processing"
             PROVE  \/ \E l \in Loops : Owes(l, e)' \/ LeftDown(l, e)'
                    \/ e \in orphaned'
  BY DEF OwedInv
<1> DEFINE Goal == \/ \E l \in Loops : Owes(l, e)' \/ LeftDown(l, e)'
                   \/ e \in orphaned'
<1> USE EnrichmentAssumption
<1> USE DEF TypeOK, OwedInv, Owes, LeftDown, Holds, Sessions, Settled, Statuses, bounds, sessions
<1>1. ASSUME NEW l \in Loops, ClaimSelect(l)
      PROVE  Goal
  BY <1>1 DEF ClaimSelect
<1>2. ASSUME NEW l \in Loops, ClaimUpdate(l)
      PROVE  Goal
  BY <1>2 DEF ClaimUpdate, Leave
<1>3. ASSUME NEW l \in Loops, Get(l)
      PROVE  Goal
  BY <1>3 DEF Get
<1>4. ASSUME NEW s \in Sessions, Enrich(s)
      PROVE  Goal
  BY <1>4 DEF Enrich
<1>5. ASSUME NEW s \in Sessions, Commit(s)
      PROVE  Goal
  <2>1. status[e] = "processing" /\ (ent[s] = e => to[s] = loaded[s])
    BY <1>5 DEF Commit
  <2>2. CASE e \in orphaned
    BY <1>5, <2>2 DEF Commit
  <2>3. ASSUME NEW l \in Loops, LeftDown(l, e)
        PROVE  Goal
    BY <1>5, <2>3 DEF Commit, Leave
  <2>4. ASSUME NEW l \in Loops, Owes(l, e)
        PROVE  Goal
    <3>1. l # s
      BY <1>5, <2>1, <2>4 DEF Commit
    <3> QED
      BY <1>5, <2>4, <3>1 DEF Commit, Leave
  <2> QED
    BY <2>1, <2>2, <2>3, <2>4
<1>6. ASSUME NEW s \in Sessions, Escape(s)
      PROVE  Goal
  BY <1>6 DEF Escape, Leave
<1>7. ASSUME NEW c \in Callers, EnrichRow(c) \/ ExecuteJob(c)
      PROVE  Goal
  BY <1>7 DEF EnrichRow, ExecuteJob, Load
<1>8. ASSUME NEW b \in Bulk, BulkRead(b) \/ BulkCommit(b)
      PROVE  Goal
  BY <1>8 DEF BulkRead, BulkCommit
<1>9. CASE SchedulerSelect \/ SchedulerRequeue
  BY <1>9 DEF SchedulerSelect, SchedulerRequeue
<1>10. ASSUME NEW l \in Loops, Kill(l)
       PROVE  Goal
  BY <1>10 DEF Kill
<1>11. ASSUME NEW l \in Loops, Startup(l) \/ StartupFails(l)
       PROVE  Goal
  BY <1>11 DEF Startup, StartupFails, Leave
<1>12. CASE UNCHANGED vars
  BY <1>12 DEF vars
<1> QED
  BY <1>1, <1>2, <1>3, <1>4, <1>5, <1>6, <1>7, <1>8, <1>9, <1>10, <1>11, <1>12
     DEF Next, Loop, Rest

\* However restarts, with and without the reset, requests and sessions that do not claim
\* interleave: an entity shown as processing is held by a loop, or the process that held it
\* is down, or it was left behind by an exception or by a start whose reset failed and
\* has not been claimed or reset since.
THEOREM NoForgottenEntity == Spec => []ProcessingHasWorker
<1>1. Init => TypeOK /\ OwedInv
  BY InitEnrichmentType, InitOwed
<1>2. TypeOK /\ OwedInv /\ [Next]_vars => (TypeOK /\ OwedInv)'
  BY NextEnrichmentType, NextOwed
<1>3. OwedInv => ProcessingHasWorker
  BY DEF OwedInv, Owes, LeftDown, ProcessingHasWorker
<1> QED
  BY <1>1, <1>2, <1>3, PTL DEF Spec

=============================================================================
