--------------------------- MODULE ScheduleProofs ---------------------------
(***************************************************************************)
(* What the dispatch of schedules guarantees for any number of schedules,  *)
(* replicas, workers and triggers.                                         *)
(***************************************************************************)
EXTENDS ScheduleDispatch, FiniteSetTheorems, TLAPS

-----------------------------------------------------------------------------
(* Type correctness *)

\* The number after an occurrence is an occurrence.
LEMMA NextOccType == ASSUME NEW o \in Occs PROVE NextOcc(o) \in Occs
BY DispatchAssumption DEF Occs, NextOcc

\* The first state has its types.
LEMMA InitTypeOK == Init => TypeOK
<1> SUFFICES ASSUME Init
             PROVE  TypeOK
  OBVIOUS
<1> USE DispatchAssumption
<1>1. 0 \in Occs
  BY DEF Occs
<1>2. ScheduleTypeOK
  <2>1. FirstStatuses \subseteq RunStatuses
    BY DEF RunStatuses
  <2>2. last \in [Schedules -> RunStatuses]
    BY <2>1 DEF Init
  <2> QED
    BY <1>1, <2>2 DEF Init, ScheduleTypeOK
<1>3. JobTypeOK
  BY DEF Init, JobTypeOK
<1>4. ProcTypeOK
  BY <1>1 DEF Init, ProcTypeOK, RunStatuses
<1>5. mode \in [Replicas -> Modes] /\ todo \in [Replicas -> SUBSET Schedules]
  BY DEF Init
<1>6. HeldTypeOK
  BY DEF Init, Procs, HeldTypeOK
<1>7. HistoryTypeOK
  BY DEF Init, HistoryTypeOK
<1>8. faults \in 0..MaxFaults /\ crashes \in 0..MaxCrashes
  BY DEF Init
<1> QED
  BY <1>2, <1>3, <1>4, <1>5, <1>6, <1>7, <1>8 DEF Init, TypeOK

\* A process that leaves, takes up a schedule or has enqueued is well typed.
LEMMA ProcSteps ==
    ASSUME TypeOK, NEW p \in Procs,
           \/ Leave(p)
           \/ \E s \in Schedules, o \in Occs, at \in {"find", "loaded", "settle"} : Take(p, s, o, at)
           \/ p \in Replicas /\ pc[p] # "idle" /\ Enqueued(p)
           \/ pc[p] # "idle" /\ AfterExecute(p)
    PROVE  ProcTypeOK'
<1> USE DEF TypeOK, ScheduleTypeOK, ProcTypeOK, Executing, RunStatuses
<1>1. CASE Leave(p)
  BY <1>1, DispatchAssumption DEF Leave, Occs
<1>2. ASSUME NEW s \in Schedules, NEW o \in Occs, NEW at \in {"find", "loaded", "settle"},
             Take(p, s, o, at)
      PROVE  ProcTypeOK'
  BY <1>2 DEF Take
<1>3. CASE p \in Replicas /\ pc[p] # "idle" /\ Enqueued(p)
  BY <1>1, <1>3 DEF Enqueued
<1>4. CASE pc[p] # "idle" /\ AfterExecute(p)
  BY <1>1, <1>4 DEF AfterExecute
<1> QED
  BY <1>1, <1>2, <1>3, <1>4

\* A step of a process that is no worker leaves what the workers hold as it is.
LEMMA HeldKept ==
    ASSUME TypeOK, NEW p \in Procs, p \notin Workers, UNCHANGED held,
           \A w \in Procs \ {p} : pc'[w] = pc[w]
    PROVE  HeldTypeOK'
BY DEF held, TypeOK, HeldTypeOK, Procs

\* Every step keeps the types.
LEMMA NextTypeOK == TypeOK /\ [Next]_vars => TypeOK'
<1> SUFFICES ASSUME TypeOK, [Next]_vars
             PROVE  TypeOK'
  OBVIOUS
<1> USE DispatchAssumption
<1> USE DEF schedules, jobs, procs, held, history
<1>0. \A p \in Replicas \cup Requests : p \in Procs /\ p \notin Workers
  BY DEF Procs
<1>1. ASSUME NEW s \in Schedules, Elapse(s) \/ UpdateInterval(s) \/ SetActive(s)
      PROVE  TypeOK'
  <2>1. active' \in [Schedules -> BOOLEAN]
    BY <1>1 DEF Elapse, UpdateInterval, SetActive, TypeOK, ScheduleTypeOK
  <2>2. due' \in [Schedules -> BOOLEAN]
    <3>1. \E b \in BOOLEAN : due' = [due EXCEPT ![s] = b] \/ due' = due
      BY <1>1, Zenon DEF Elapse, UpdateInterval, SetActive
    <3> QED
      BY <3>1 DEF TypeOK, ScheduleTypeOK
  <2>3. occ' \in [Schedules -> Occs]
    <3>1. occ' = [occ EXCEPT ![s] = NextOcc(occ[s])] \/ occ' = occ
      BY <1>1, Zenon DEF Elapse, UpdateInterval, SetActive
    <3> QED
      BY <3>1, NextOccType DEF TypeOK, ScheduleTypeOK
  <2>4. UNCHANGED <<last, jobs, procs, mode, todo, held, sup, history, faults, crashes>>
    BY <1>1 DEF Elapse, UpdateInterval, SetActive
  <2> QED
    BY <2>1, <2>2, <2>3, <2>4
       DEF TypeOK, ScheduleTypeOK, JobTypeOK, ProcTypeOK, HeldTypeOK, HistoryTypeOK
<1>2. ASSUME NEW r \in Replicas, Scan(r) \/ Proceed(r)
      PROVE  TypeOK'
  <2>1. PICK s \in Schedules : Dispatch(r, s) /\ todo' \in [Replicas -> SUBSET Schedules]
    BY <1>2 DEF Scan, Proceed, TypeOK
  <2>2. occ[s] \in Occs
    BY DEF TypeOK, ScheduleTypeOK
  <2>3. ProcTypeOK'
    BY <1>0, <2>1, <2>2, ProcSteps DEF Dispatch
  <2>4. HeldTypeOK'
    <3>1. \A w \in Procs \ {r} : pc'[w] = pc[w]
      BY <1>0, <2>1 DEF Dispatch, Take, TypeOK, ProcTypeOK
    <3> QED
      BY <1>0, <1>2, <3>1, HeldKept DEF Scan, Proceed
  <2> QED
    BY <1>2, <2>1, <2>3, <2>4 DEF Scan, Proceed, TypeOK, ScheduleTypeOK, JobTypeOK, HistoryTypeOK
<1>3. ASSUME NEW r \in Replicas, Find(r) \/ EnqueueFails(r) \/ Insert(r)
      PROVE  TypeOK'
  <2>1. \/ Enqueued(r) /\ pc[r] # "idle"
        \/ pc' = [pc EXCEPT ![r] = "insert"] /\ UNCHANGED <<cur, seen, loaded>> /\ pc[r] = "find"
    BY <1>3 DEF Find, EnqueueFails, Insert
  <2>2. ProcTypeOK'
    <3>1. CASE Enqueued(r) /\ pc[r] # "idle"
      BY <1>0, <3>1, ProcSteps
    <3>2. CASE pc' = [pc EXCEPT ![r] = "insert"] /\ UNCHANGED <<cur, seen, loaded>> /\ pc[r] = "find"
      BY <1>0, <3>2 DEF TypeOK, ProcTypeOK
    <3> QED
      BY <2>1, <3>1, <3>2
  <2>3. HeldTypeOK'
    <3>1. \A w \in Procs \ {r} : pc'[w] = pc[w]
      BY <1>0, <2>1 DEF Enqueued, Leave, TypeOK, ProcTypeOK
    <3> QED
      BY <1>0, <1>3, <3>1, HeldKept DEF Find, EnqueueFails, Insert
  <2>4. JobTypeOK'
    BY <1>3 DEF Find, EnqueueFails, Insert, TypeOK, JobTypeOK
  <2>5. faults' \in 0..MaxFaults
    BY <1>3 DEF Find, EnqueueFails, Insert, TypeOK
  <2> QED
    BY <1>3, <2>2, <2>3, <2>4, <2>5
       DEF Find, EnqueueFails, Insert, TypeOK, ScheduleTypeOK, HistoryTypeOK
<1>4. ASSUME NEW r \in Replicas, Restart(r)
      PROVE  TypeOK'
  <2>1. ProcTypeOK'
    BY <1>0, <1>4, ProcSteps DEF Restart
  <2>2. HeldTypeOK'
    <3>1. \A w \in Procs \ {r} : pc'[w] = pc[w]
      BY <1>0, <1>4 DEF Restart, Leave, TypeOK, ProcTypeOK
    <3> QED
      BY <1>0, <1>4, <3>1, HeldKept DEF Restart
  <2>3. mode' \in [Replicas -> Modes] /\ todo' \in [Replicas -> SUBSET Schedules]
    BY <1>4 DEF Restart, TypeOK
  <2>4. HistoryTypeOK'
    <3>1. stranded' \subseteq Schedules
      BY <1>0, <1>4 DEF Restart, Strand, Executing, TypeOK, ProcTypeOK, HistoryTypeOK
    <3> QED
      BY <1>4, <3>1 DEF Restart, TypeOK, HistoryTypeOK
  <2>5. faults' \in 0..MaxFaults
    BY <1>4 DEF Restart, TypeOK
  <2> QED
    BY <1>4, <2>1, <2>2, <2>3, <2>4, <2>5 DEF Restart, TypeOK, ScheduleTypeOK, JobTypeOK
<1>5. ASSUME NEW p \in Procs, Begin(p) \/ Reload(p) \/ Work(p) \/ Err(p)
      PROVE  TypeOK'
  <2>1. cur[p] \in Schedules /\ pc[p] # "idle" /\ seen[p] \in Occs
    BY <1>5 DEF Begin, Reload, Work, Err, TypeOK, ProcTypeOK
  <2>2. last' \in [Schedules -> RunStatuses]
    BY <1>5, <2>1 DEF Begin, Reload, Work, Err, TypeOK, ScheduleTypeOK, RunStatuses
  <2>3. loaded' \in [Procs -> RunStatuses]
    BY <1>5, <2>1 DEF Begin, Reload, Work, Err, TypeOK, ScheduleTypeOK, ProcTypeOK
  <2>4. ProcTypeOK'
    BY <1>5, <2>1, <2>3 DEF Begin, Reload, Work, Err, TypeOK, ProcTypeOK, Executing
  <2>5. HistoryTypeOK'
    BY <1>5, <2>1 DEF Begin, Reload, Work, Err, TypeOK, HistoryTypeOK
  <2>6. HeldTypeOK'
    BY <1>5, <2>1 DEF Begin, Reload, Work, Err, TypeOK, ProcTypeOK, HeldTypeOK, Procs
  <2> QED
    BY <1>5, <2>2, <2>4, <2>5, <2>6 DEF Begin, Reload, Work, Err, TypeOK, ScheduleTypeOK, JobTypeOK
<1>6. ASSUME NEW p \in Procs, Finish(p)
      PROVE  TypeOK'
  <2>1. cur[p] \in Schedules /\ pc[p] # "idle" /\ occ[cur[p]] \in Occs
    BY <1>6 DEF Finish, TypeOK, ScheduleTypeOK, ProcTypeOK
  <2>2. ScheduleTypeOK'
    BY <1>6, <2>1, NextOccType DEF Finish, TypeOK, ScheduleTypeOK, RunStatuses
  <2>3. ProcTypeOK'
    BY <1>6, <2>1, ProcSteps DEF Finish
  <2>4. HeldTypeOK'
    BY <1>6, <2>1 DEF Finish, AfterExecute, Leave, TypeOK, ProcTypeOK, HeldTypeOK, Procs
  <2>5. HistoryTypeOK'
    BY <1>6 DEF Finish, TypeOK, HistoryTypeOK
  <2> QED
    BY <1>6, <2>2, <2>3, <2>4, <2>5 DEF Finish, TypeOK, JobTypeOK
<1>7. ASSUME NEW p \in Procs, Raise(p)
      PROVE  TypeOK'
  <2>1. cur[p] \in Schedules /\ pc[p] # "idle"
    BY <1>7 DEF Raise, Executing, TypeOK, ProcTypeOK
  <2>2. ProcTypeOK'
    <3>1. CASE Leave(p)
      BY <3>1, ProcSteps
    <3>2. CASE pc' = [pc EXCEPT ![p] = "raised"] /\ UNCHANGED <<cur, seen, loaded>>
      BY <2>1, <3>2 DEF TypeOK, ProcTypeOK
    <3> QED
      BY <1>7, <3>1, <3>2 DEF Raise
  <2>3. HeldTypeOK'
    BY <1>7, <2>1 DEF Raise, Leave, TypeOK, ProcTypeOK, HeldTypeOK, Procs
  <2>4. todo' \in [Replicas -> SUBSET Schedules] /\ faults' \in 0..MaxFaults
    BY <1>7 DEF Raise, TypeOK
  <2>5. HistoryTypeOK'
    BY <1>7, <2>1 DEF Raise, Strand, TypeOK, HeldTypeOK, HistoryTypeOK
  <2> QED
    BY <1>7, <2>2, <2>3, <2>4, <2>5 DEF Raise, TypeOK, ScheduleTypeOK, JobTypeOK
<1>8. ASSUME NEW w \in Workers, Claim(w)
      PROVE  TypeOK'
  <2>1. PICK k \in Keys :
           /\ status' = [status EXCEPT ![k] = "running"]
           /\ tries' = [tries EXCEPT ![k] = @ + 1]
           /\ key' = [key EXCEPT ![w] = k]
           /\ Take(w, k[1], k[2], IF payload[k] = "shadow" THEN "settle" ELSE "loaded")
    BY <1>8 DEF Claim
  <2>2. k[1] \in Schedules /\ k[2] \in Occs /\ w \in Procs
    BY DEF Keys, Procs
  <2>3. ProcTypeOK'
    BY <2>1, <2>2, ProcSteps
  <2>4. JobTypeOK'
    BY <1>8, <2>1 DEF Claim, TypeOK, JobTypeOK
  <2>5. HeldTypeOK'
    BY <1>8, <2>1, <2>2 DEF Claim, Take, TypeOK, ProcTypeOK, HeldTypeOK, Procs
  <2> QED
    BY <1>8, <2>3, <2>4, <2>5 DEF Claim, TypeOK, ScheduleTypeOK, HistoryTypeOK
<1>9. ASSUME NEW w \in Workers, LetGo(w)
      PROVE  ProcTypeOK' /\ HeldTypeOK'
  <2>1. w \in Procs
    BY DEF Procs
  <2>2. ProcTypeOK'
    BY <1>9, <2>1, ProcSteps DEF LetGo
  <2> QED
    BY <1>9, <2>1, <2>2 DEF LetGo, Leave, TypeOK, ProcTypeOK, HeldTypeOK, Procs
<1>10. ASSUME NEW w \in Workers, SettleRead(w)
       PROVE  TypeOK'
  <2>1. CASE LetGo(w)
    BY <1>9, <1>10, <2>1 DEF SettleRead, TypeOK, ScheduleTypeOK, JobTypeOK, HistoryTypeOK
  <2>2. CASE ~LetGo(w)
    <3>1. \E t \in Settled :
             /\ pc' = [pc EXCEPT ![w] = "write"] /\ to' = [to EXCEPT ![w] = t]
             /\ UNCHANGED <<cur, seen, loaded, key>> /\ pc[w] # "idle"
      BY <1>10, <2>2 DEF SettleRead, Failed, Settled
    <3>2. w \in Procs
      BY DEF Procs
    <3>3. ProcTypeOK' /\ HeldTypeOK'
      BY <3>1, <3>2 DEF TypeOK, ProcTypeOK, HeldTypeOK, Procs
    <3> QED
      BY <1>10, <3>3 DEF SettleRead, TypeOK, ScheduleTypeOK, JobTypeOK, HistoryTypeOK
  <2> QED
    BY <2>1, <2>2
<1>11. ASSUME NEW w \in Workers, SettleWrite(w) \/ Crash(w)
       PROVE  TypeOK'
  <2>1. LetGo(w)
    BY <1>11 DEF SettleWrite, Crash
  <2>2. JobTypeOK'
    BY <1>11 DEF SettleWrite, Crash, TypeOK, JobTypeOK, HeldTypeOK
  <2>3. crashes' \in 0..MaxCrashes
    BY <1>11 DEF SettleWrite, Crash, TypeOK
  <2>4. HistoryTypeOK'
    <3>1. stranded' \subseteq Schedules
      BY <1>11 DEF SettleWrite, Crash, Strand, TypeOK, ProcTypeOK, HistoryTypeOK, Procs
    <3> QED
      BY <1>11, <3>1 DEF SettleWrite, Crash, TypeOK, HistoryTypeOK
  <2> QED
    BY <1>9, <1>11, <2>1, <2>2, <2>3, <2>4 DEF SettleWrite, Crash, TypeOK, ScheduleTypeOK
<1>12. ASSUME NEW q \in Requests, Trigger(q)
       PROVE  TypeOK'
  <2>1. PICK s \in Schedules : Take(q, s, occ[s], "loaded")
    BY <1>12 DEF Trigger
  <2>2. occ[s] \in Occs
    BY DEF TypeOK, ScheduleTypeOK
  <2>3. ProcTypeOK'
    BY <1>0, <2>1, <2>2, ProcSteps
  <2>4. HeldTypeOK'
    <3>1. \A w \in Procs \ {q} : pc'[w] = pc[w]
      BY <1>0, <2>1 DEF Take, TypeOK, ProcTypeOK
    <3> QED
      BY <1>0, <1>12, <3>1, HeldKept DEF Trigger
  <2> QED
    BY <1>12, <2>3, <2>4 DEF Trigger, TypeOK, ScheduleTypeOK, JobTypeOK, HistoryTypeOK
<1>13. ASSUME NEW k \in Keys, Recover(k) \/ RecoverWrite(k) \/ Promote(k)
       PROVE  TypeOK'
  <2>1. JobTypeOK'
    BY <1>13 DEF Recover, RecoverWrite, Promote, Settled, TypeOK, JobTypeOK
  <2>2. crashes' \in 0..MaxCrashes /\ sup' \in (Keys \X Settled) \cup {None}
    BY <1>13 DEF Recover, RecoverWrite, Promote, Failed, Settled, TypeOK
  <2>3. HistoryTypeOK'
    BY <1>13 DEF Recover, RecoverWrite, Promote, TypeOK, HistoryTypeOK
  <2> QED
    BY <1>13, <2>1, <2>2, <2>3
       DEF Recover, RecoverWrite, Promote, TypeOK, ScheduleTypeOK, ProcTypeOK, HeldTypeOK
<1>14. CASE UNCHANGED vars
  BY <1>14 DEF vars, TypeOK, ScheduleTypeOK, JobTypeOK, ProcTypeOK, HeldTypeOK, HistoryTypeOK
<1> QED
  BY <1>1, <1>2, <1>3, <1>4, <1>5, <1>6, <1>7, <1>8, <1>10, <1>11, <1>12, <1>13, <1>14
     DEF Next, Replica, Worker, Execute, Runtime, Procs

\* Every variable of the dispatch has its type in every reachable state.
THEOREM DispatchTypeCorrect == Spec => []TypeOK
BY InitTypeOK, NextTypeOK, PTL DEF Spec

-----------------------------------------------------------------------------
(* One job per occurrence *)

\* Whoever holds a job, or is about to write one, does so for a job that exists.
JobsExist ==
    /\ \A w \in Workers : pc[w] # "idle" => status[key[w]] # "none"
    /\ sup # None => status[sup[1]] # "none"

\* A step that is not an insertion makes no job and unmakes none.
LEMMA OtherJobSteps ==
    ASSUME TypeOK, JobsExist, [Next]_vars, \A r \in Replicas : ~Insert(r), NEW k \in Keys
    PROVE  status'[k] = "none" <=> status[k] = "none"
<1> USE DEF TypeOK, JobTypeOK, schedules, jobs
<1>1. ASSUME NEW w \in Workers, Claim(w)
      PROVE  status'[k] = "none" <=> status[k] = "none"
  <2>1. PICK l \in Keys : status[l] = "queued" /\ status' = [status EXCEPT ![l] = "running"]
    BY <1>1 DEF Claim
  <2> QED
    BY <2>1
<1>2. ASSUME NEW w \in Workers, SettleWrite(w)
      PROVE  status'[k] = "none" <=> status[k] = "none"
  <2>1. to[w] \in Settled /\ status[key[w]] # "none"
    BY <1>2 DEF SettleWrite, HeldTypeOK, JobsExist
  <2> QED
    BY <1>2, <2>1 DEF SettleWrite, Settled
<1>3. ASSUME NEW l \in Keys, RecoverWrite(l)
      PROVE  status'[k] = "none" <=> status[k] = "none"
  <2>1. sup[2] \in Settled /\ status[l] # "none"
    BY <1>3 DEF RecoverWrite, JobsExist
  <2> QED
    BY <1>3, <2>1 DEF RecoverWrite, Settled
<1>4. ASSUME NEW l \in Keys, Promote(l)
      PROVE  status'[k] = "none" <=> status[k] = "none"
  BY <1>4 DEF Promote
<1>5. CASE UNCHANGED status
  BY <1>5
<1>6. \A s \in Schedules : Elapse(s) \/ UpdateInterval(s) \/ SetActive(s) => UNCHANGED status
  BY DEF Elapse, UpdateInterval, SetActive
<1>7. \A r \in Replicas : Scan(r) \/ Proceed(r) \/ Find(r) \/ EnqueueFails(r) \/ Restart(r)
                           => UNCHANGED status
  BY DEF Scan, Proceed, Find, EnqueueFails, Restart
<1>8. \A p \in Procs : Execute(p) => UNCHANGED status
  BY DEF Execute, Begin, Reload, Work, Err, Finish, Raise
<1>9. \A w \in Workers : Crash(w) \/ SettleRead(w) => UNCHANGED status
  BY DEF Crash, SettleRead
<1>10. \A q \in Requests : Trigger(q) => UNCHANGED status
  BY DEF Trigger
<1>11. \A l \in Keys : Recover(l) => UNCHANGED status
  BY DEF Recover
<1>12. UNCHANGED vars => UNCHANGED status
  BY DEF vars
<1> QED
  BY <1>1, <1>2, <1>3, <1>4, <1>5, <1>6, <1>7, <1>8, <1>9, <1>10, <1>11, <1>12
     DEF Next, Replica, Worker, Runtime, Procs

\* A job that exists goes on existing.
LEMMA JobsStay ==
    ASSUME TypeOK, JobsExist, [Next]_vars, NEW k \in Keys, status[k] # "none"
    PROVE  status'[k] # "none"
<1>1. ASSUME NEW r \in Replicas, Insert(r)
      PROVE  status'[k] # "none"
  BY <1>1 DEF Insert, jobs, TypeOK, JobTypeOK
<1> QED
  BY <1>1, OtherJobSteps

-----------------------------------------------------------------------------
(* What a process does concerns nobody else's state *)

\* What process p does in a step of its own.
Moves(p) ==
    \/ p \in Replicas /\ (Replica(p) \/ EnqueueFails(p) \/ Restart(p))
    \/ p \in Workers /\ (Worker(p) \/ Crash(p))
    \/ p \in Requests /\ (Trigger(p) \/ Execute(p))

\* A process stays as it is.
Stays(p) == pc'[p] = pc[p] /\ cur'[p] = cur[p] /\ seen'[p] = seen[p] /\ loaded'[p] = loaded[p]

\* Whatever another process does leaves process p as it is.
LEMMA MoveIsLocal ==
    ASSUME TypeOK, NEW p \in Procs, NEW q \in Procs, q # p, Moves(q)
    PROVE  Stays(p)
<1> USE DEF TypeOK, ProcTypeOK, Stays
<1>1. CASE Leave(q)
  BY <1>1 DEF Leave
<1>2. ASSUME NEW s, NEW o, NEW at, Take(q, s, o, at)
      PROVE  Stays(p)
  BY <1>2 DEF Take
<1>3. CASE Enqueued(q)
  BY <1>1, <1>3 DEF Enqueued
<1>4. CASE AfterExecute(q)
  BY <1>1, <1>4 DEF AfterExecute
<1>5. CASE \E at : pc' = [pc EXCEPT ![q] = at] /\ UNCHANGED <<cur, seen, loaded>>
  BY <1>5
<1>6. CASE Reload(q)
  BY <1>6 DEF Reload
<1>7. ASSUME Scan(q) \/ Proceed(q) \/ Find(q) \/ Insert(q) \/ EnqueueFails(q) \/ Restart(q)
      PROVE  Stays(p)
  BY <1>1, <1>2, <1>3, <1>5, <1>7 DEF Scan, Proceed, Dispatch, Find, Insert, EnqueueFails, Restart
<1>8. ASSUME Claim(q) \/ SettleRead(q) \/ SettleWrite(q) \/ Crash(q) \/ Trigger(q)
      PROVE  Stays(p)
  BY <1>1, <1>2, <1>5, <1>8 DEF Claim, SettleRead, SettleWrite, LetGo, Crash, Trigger
<1>9. ASSUME Execute(q)
      PROVE  Stays(p)
  BY <1>1, <1>4, <1>5, <1>6, <1>9 DEF Execute, Begin, Work, Err, Finish, Raise
<1> QED
  BY <1>7, <1>8, <1>9 DEF Moves, Replica, Worker

\* A process is as it was after every step but its own.
LEMMA OnlyOwnMoves ==
    ASSUME TypeOK, [Next]_vars, NEW p \in Procs, ~Moves(p)
    PROVE  Stays(p)
<1>1. CASE \E q \in Procs : Moves(q)
  BY <1>1, MoveIsLocal
<1>2. CASE UNCHANGED procs
  BY <1>2 DEF procs, Stays
<1>3. \A s \in Schedules : Elapse(s) \/ UpdateInterval(s) \/ SetActive(s) => UNCHANGED procs
  BY DEF Elapse, UpdateInterval, SetActive
<1>4. \A k \in Keys : Recover(k) \/ RecoverWrite(k) \/ Promote(k) => UNCHANGED procs
  BY DEF Recover, RecoverWrite, Promote
<1>5. UNCHANGED vars => UNCHANGED procs
  BY DEF vars
<1> QED
  BY <1>1, <1>2, <1>3, <1>4, <1>5 DEF Next, Moves, Runtime, Procs

\* Workers and their jobs: a worker holds another job only after a step of its own.
LEMMA OnlyOwnKeys ==
    ASSUME TypeOK, [Next]_vars, NEW w \in Workers, ~Moves(w)
    PROVE  key'[w] = key[w] /\ to'[w] = to[w]
<1> USE DEF TypeOK, HeldTypeOK, held
<1>1. CASE UNCHANGED held
  BY <1>1
<1>2. ASSUME NEW v \in Workers, v # w, Claim(v)
      PROVE  key'[w] = key[w] /\ to'[w] = to[w]
  BY <1>2 DEF Claim
<1>3. ASSUME NEW v \in Workers, v # w, SettleRead(v) \/ SettleWrite(v) \/ Crash(v)
      PROVE  key'[w] = key[w] /\ to'[w] = to[w]
  BY <1>3 DEF SettleRead, SettleWrite, Crash, LetGo
<1>4. \A p \in Procs : Execute(p) => UNCHANGED held
  BY DEF Execute, Begin, Reload, Work, Err, Finish, Raise
<1>5. \A s \in Schedules : Elapse(s) \/ UpdateInterval(s) \/ SetActive(s) => UNCHANGED held
  BY DEF Elapse, UpdateInterval, SetActive
<1>6. \A r \in Replicas : Scan(r) \/ Proceed(r) \/ Find(r) \/ Insert(r) \/ EnqueueFails(r) \/ Restart(r)
                           => UNCHANGED held
  BY DEF Scan, Proceed, Find, Insert, EnqueueFails, Restart
<1>7. \A q \in Requests : Trigger(q) => UNCHANGED held
  BY DEF Trigger
<1>8. \A k \in Keys : Runtime(k) => UNCHANGED held
  BY DEF Runtime, Recover, RecoverWrite, Promote
<1>9. UNCHANGED vars => UNCHANGED held
  BY DEF vars
<1> QED
  BY <1>1, <1>2, <1>3, <1>4, <1>5, <1>6, <1>7, <1>8, <1>9
     DEF Next, Moves, Replica, Worker, Procs

\* Every step keeps the jobs that are held: a worker takes up a job that is there.
LEMMA JobsExistKept == TypeOK /\ JobsExist /\ [Next]_vars => JobsExist'
<1> SUFFICES ASSUME TypeOK, JobsExist, [Next]_vars
             PROVE  JobsExist'
  OBVIOUS
<1>1. ASSUME NEW w \in Workers, pc'[w] # "idle"
      PROVE  status'[key'[w]] # "none"
  <2>1. w \in Procs /\ w \notin Replicas /\ w \notin Requests
    BY DispatchAssumption DEF Procs
  <2>2. CASE pc[w] # "idle" /\ key'[w] = key[w]
    BY <2>2, JobsStay DEF JobsExist, TypeOK, HeldTypeOK
  <2>3. CASE Claim(w)
    <3>1. PICK k \in Keys : status' = [status EXCEPT ![k] = "running"] /\ key' = [key EXCEPT ![w] = k]
      BY <2>3 DEF Claim
    <3> QED
      BY <3>1 DEF TypeOK, JobTypeOK, HeldTypeOK
  <2>4. CASE ~Moves(w)
    <3>1. pc[w] # "idle" /\ key'[w] = key[w]
      BY <1>1, <2>1, <2>4, OnlyOwnMoves, OnlyOwnKeys DEF Stays
    <3> QED
      BY <2>2, <3>1
  <2>5. CASE Execute(w)
    BY <2>2, <2>5 DEF Execute, Begin, Reload, Work, Err, Finish, Raise, Executing, held
  <2>6. CASE SettleRead(w) \/ SettleWrite(w) \/ Crash(w)
    <3>1. ~LetGo(w)
      BY <1>1, <2>1 DEF LetGo, Leave, TypeOK, ProcTypeOK
    <3> QED
      BY <2>2, <2>6, <3>1 DEF SettleRead, SettleWrite, Crash
  <2> QED
    BY <2>1, <2>3, <2>4, <2>5, <2>6 DEF Moves, Worker
<1>2. ASSUME sup' # None
      PROVE  status'[sup'[1]] # "none"
  <2>1. CASE sup' = sup
    BY <1>2, <2>1, JobsStay DEF JobsExist, TypeOK
  <2>2. ASSUME NEW k \in Keys, Recover(k)
        PROVE  status'[sup'[1]] # "none"
    BY <2>2 DEF Recover, jobs
  <2>3. ASSUME NEW k \in Keys, RecoverWrite(k)
        PROVE  FALSE
    BY <1>2, <2>3 DEF RecoverWrite
  <2>4. \A s \in Schedules : Elapse(s) \/ UpdateInterval(s) \/ SetActive(s) => sup' = sup
    BY DEF Elapse, UpdateInterval, SetActive
  <2>5. \A r \in Replicas : Scan(r) \/ Proceed(r) \/ Find(r) \/ Insert(r) \/ EnqueueFails(r) \/ Restart(r)
                             => sup' = sup
    BY DEF Scan, Proceed, Find, Insert, EnqueueFails, Restart
  <2>6. \A p \in Procs : Execute(p) => sup' = sup
    BY DEF Execute, Begin, Reload, Work, Err, Finish, Raise
  <2>7. \A w \in Workers : Claim(w) \/ SettleRead(w) \/ SettleWrite(w) \/ Crash(w) => sup' = sup
    BY DEF Claim, SettleRead, SettleWrite, Crash
  <2>8. \A q \in Requests : Trigger(q) => sup' = sup
    BY DEF Trigger
  <2>9. \A k \in Keys : Promote(k) => sup' = sup
    BY DEF Promote
  <2>10. UNCHANGED vars => sup' = sup
    BY DEF vars
  <2> QED
    BY <2>1, <2>2, <2>3, <2>4, <2>5, <2>6, <2>7, <2>8, <2>9, <2>10
       DEF Next, Replica, Worker, Runtime, Procs
<1> QED
  BY <1>1, <1>2 DEF JobsExist

\* In the first state there are no jobs and nobody holds one.
LEMMA InitJobsExist == Init => JobsExist
BY DEF Init, JobsExist, Procs

\* Under the unique constraint, no step makes a second job of an occurrence.
LEMMA OneJobKept ==
    ASSUME Tenant
    PROVE  TypeOK /\ JobsExist /\ OneJobPerOccurrence /\ [Next]_vars => OneJobPerOccurrence'
<1> SUFFICES ASSUME TypeOK, JobsExist, OneJobPerOccurrence, [Next]_vars
             PROVE  OneJobPerOccurrence'
  OBVIOUS
<1>1. CASE \A r \in Replicas : ~Insert(r)
  BY <1>1, OtherJobSteps DEF OneJobPerOccurrence
<1>2. ASSUME NEW r \in Replicas, Insert(r)
      PROVE  OneJobPerOccurrence'
  <2> DEFINE new == <<cur[r], seen[r], r>>
  <2>1. new \in Keys /\ new[1] = cur[r] /\ new[2] = seen[r]
    BY <1>2 DEF Insert, Keys, Procs, TypeOK, ProcTypeOK
  <2>2. CASE UNCHANGED jobs
    BY <2>2 DEF jobs, OneJobPerOccurrence
  <2>3. CASE /\ JobsOf(cur[r], seen[r]) = {}
             /\ status' = [status EXCEPT ![new] = "queued"]
    <3>1. \A k \in Keys : (k[1] = new[1] /\ k[2] = new[2]) => status[k] = "none"
      BY <2>1, <2>3 DEF JobsOf
    <3>2. \A k \in Keys : k # new => status'[k] = status[k]
      BY <2>1, <2>3 DEF TypeOK, JobTypeOK
    <3> QED
      BY <2>1, <3>1, <3>2 DEF OneJobPerOccurrence
  <2> QED
    BY <1>2, <2>2, <2>3 DEF Insert
<1> QED
  BY <1>1, <1>2

\* enqueue with its unique constraint: however many replicas scan a schedule of a
\* tenant, however the enqueues interleave and whatever the modes, there is never
\* more than one job for an occurrence.
THEOREM SingleJob == ASSUME Tenant PROVE Spec => []OneJobPerOccurrence
<1>1. Init => OneJobPerOccurrence
  BY DEF Init, OneJobPerOccurrence
<1> QED
  BY <1>1, InitJobsExist, JobsExistKept, OneJobKept, DispatchTypeCorrect, PTL DEF Spec

-----------------------------------------------------------------------------
(* A running schedule has an executor, or has lost one *)

\* Process p executes s and will write its outcome: it has not read the row again
\* since it wrote 'running', or has found that status in it.
WillWrite(p, s) ==
    /\ cur[p] = s
    /\ pc[p] \in Executing
    /\ pc[p] = "begun" \/ loaded[p] = "running"

\* The inductive form of RunningHasExecutor: an executor that has found another
\* outcome in the row may write nothing at its end, so it does not count.
RunningHasWriter ==
    \A s \in Schedules : last[s] = "running" =>
        s \in stranded \/ \E p \in Procs : WillWrite(p, s)

\* A step of a process that leaves the schedules alone, and strands the one it may be
\* executing.
LEMMA LostWriter ==
    ASSUME RunningHasWriter, NEW p \in Procs, last' = last, stranded \subseteq stranded',
           Strand(p) \/ pc[p] \notin Executing, \A q \in Procs \ {p} : Stays(q)
    PROVE  RunningHasWriter'
<1> SUFFICES ASSUME NEW s \in Schedules, last[s] = "running", s \notin stranded'
             PROVE  \E q \in Procs : WillWrite(q, s)'
  BY DEF RunningHasWriter
<1>1. PICK q \in Procs : WillWrite(q, s)
  BY DEF RunningHasWriter
<1>2. q # p
  BY <1>1 DEF WillWrite, Strand
<1>3. WillWrite(q, s)'
  BY <1>1, <1>2 DEF WillWrite, Stays
<1> QED
  BY <1>3

\* Every step keeps the writers, or records the schedule that has lost its own.
LEMMA WritersKept == TypeOK /\ RunningHasWriter /\ [Next]_vars => RunningHasWriter'
<1> SUFFICES ASSUME TypeOK, RunningHasWriter, [Next]_vars
             PROVE  RunningHasWriter'
  OBVIOUS
<1> USE DEF schedules, jobs, procs, history
<1>0. \A p \in Procs : Moves(p) => \A q \in Procs \ {p} : Stays(q)
  BY MoveIsLocal
<1>1. CASE UNCHANGED <<last, procs, stranded>>
  BY <1>1 DEF RunningHasWriter, WillWrite
<1>2. ASSUME NEW r \in Replicas,
             Scan(r) \/ Proceed(r) \/ Find(r) \/ Insert(r) \/ EnqueueFails(r) \/ Restart(r)
      PROVE  RunningHasWriter'
  <2>1. r \in Procs /\ last' = last /\ stranded \subseteq stranded' /\ Moves(r)
    BY <1>2 DEF Scan, Proceed, Find, Insert, EnqueueFails, Restart, Strand, Procs, Moves, Replica
  <2>2. Strand(r) \/ pc[r] \notin Executing
    BY <1>2 DEF Scan, Proceed, Find, Insert, EnqueueFails, Restart, Executing
  <2> QED
    BY <1>0, <2>1, <2>2, LostWriter
<1>3. ASSUME NEW w \in Workers, Claim(w) \/ SettleRead(w) \/ SettleWrite(w) \/ Crash(w)
      PROVE  RunningHasWriter'
  <2>1. w \in Procs /\ last' = last /\ stranded \subseteq stranded' /\ Moves(w)
    BY <1>3 DEF Claim, SettleRead, SettleWrite, Crash, Strand, Procs, Moves, Worker
  <2>2. Strand(w) \/ pc[w] \notin Executing
    BY <1>3 DEF Claim, SettleRead, SettleWrite, Crash, Executing
  <2> QED
    BY <1>0, <2>1, <2>2, LostWriter
<1>4. ASSUME NEW q \in Requests, Trigger(q)
      PROVE  RunningHasWriter'
  <2>1. q \in Procs /\ last' = last /\ stranded' = stranded /\ Moves(q) /\ pc[q] \notin Executing
    BY <1>4 DEF Trigger, Executing, Procs, Moves
  <2> QED
    BY <1>0, <2>1, LostWriter
<1>5. \A p \in Procs : Execute(p) => Moves(p)
  BY DEF Moves, Procs, Replica, Worker
<1>6. ASSUME NEW p \in Procs, Raise(p)
      PROVE  RunningHasWriter'
  <2>1. last' = last /\ stranded \subseteq stranded' /\ Strand(p) /\ Moves(p)
    BY <1>5, <1>6 DEF Raise, Strand, Execute
  <2> QED
    BY <1>0, <2>1, LostWriter
<1>7. ASSUME NEW p \in Procs, Begin(p) \/ Reload(p) \/ Work(p) \/ Err(p)
      PROVE  RunningHasWriter'
  <2> SUFFICES ASSUME NEW s \in Schedules, last'[s] = "running", s \notin stranded'
               PROVE  \E q \in Procs : WillWrite(q, s)'
    BY DEF RunningHasWriter
  <2>1. cur[p] \in Schedules /\ cur' = cur /\ stranded' = stranded /\ Moves(p)
    BY <1>5, <1>7 DEF Begin, Reload, Work, Err, Execute, TypeOK, ProcTypeOK
  <2>2. CASE Begin(p) /\ cur[p] = s
    <3>1. WillWrite(p, s)'
      BY <2>1, <2>2 DEF Begin, WillWrite, Executing, TypeOK, ProcTypeOK
    <3> QED
      BY <3>1
  <2>3. CASE ~(Begin(p) /\ cur[p] = s)
    <3>1. last[s] = "running"
      BY <1>7, <2>1, <2>3 DEF Begin, Reload, Work, Err, TypeOK, ScheduleTypeOK
    <3>2. PICK q \in Procs : WillWrite(q, s)
      BY <2>1, <3>1 DEF RunningHasWriter
    <3>3. CASE q # p
      <4>1. WillWrite(q, s)'
        BY <1>0, <2>1, <3>2, <3>3 DEF WillWrite, Stays
      <4> QED
        BY <4>1
    <3>4. CASE q = p
      <4>1. WillWrite(p, s)'
        BY <1>7, <2>3, <3>1, <3>2, <3>4
           DEF Begin, Reload, Work, Err, WillWrite, Executing, TypeOK, ProcTypeOK
      <4> QED
        BY <4>1
    <3> QED
      BY <3>3, <3>4
  <2> QED
    BY <2>2, <2>3
<1>8. ASSUME NEW p \in Procs, Finish(p)
      PROVE  RunningHasWriter'
  <2> SUFFICES ASSUME NEW s \in Schedules, last'[s] = "running", s \notin stranded'
               PROVE  \E q \in Procs : WillWrite(q, s)'
    BY DEF RunningHasWriter
  <2>1. cur[p] \in Schedules /\ Moves(p)
    BY <1>5, <1>8 DEF Finish, Execute, TypeOK, ProcTypeOK
  <2>2. last[s] = "running" /\ ~WillWrite(p, s)
    BY <1>8, <2>1 DEF Finish, WillWrite, TypeOK, ScheduleTypeOK
  <2>3. s \notin stranded
    BY <1>8, <2>1 DEF Finish
  <2>4. PICK q \in Procs : WillWrite(q, s)
    BY <2>2, <2>3 DEF RunningHasWriter
  <2>5. WillWrite(q, s)'
    BY <1>0, <2>1, <2>2, <2>4 DEF WillWrite, Stays
  <2> QED
    BY <2>5
<1>9. \A s \in Schedules : Elapse(s) \/ UpdateInterval(s) \/ SetActive(s)
                             => UNCHANGED <<last, procs, stranded>>
  BY DEF Elapse, UpdateInterval, SetActive
<1>10. \A k \in Keys : Recover(k) \/ RecoverWrite(k) \/ Promote(k) => UNCHANGED <<last, procs, stranded>>
  BY DEF Recover, RecoverWrite, Promote
<1>11. UNCHANGED vars => UNCHANGED <<last, procs, stranded>>
  BY DEF vars
<1> QED
  BY <1>1, <1>2, <1>3, <1>4, <1>6, <1>7, <1>8, <1>9, <1>10, <1>11
     DEF Next, Replica, Worker, Execute, Runtime, Procs

\* A schedule that is shown as running is being executed, or has lost an executor and
\* had no outcome since, however the executions of any number of replicas, workers and
\* triggers overlap and wherever they die or raise: no order of their commits leaves
\* 'running' behind, which would hide the schedule from the due scan.
THEOREM RunningObserved == Spec => []RunningHasExecutor
<1>1. Init => RunningHasWriter
  BY DispatchAssumption DEF Init, RunningHasWriter
<1>2. RunningHasWriter => RunningHasExecutor
  BY DEF RunningHasWriter, RunningHasExecutor, WillWrite
<1> QED
  BY <1>1, <1>2, WritersKept, DispatchTypeCorrect, PTL DEF Spec

-----------------------------------------------------------------------------
(* A scheduler thread does the work of an occurrence once *)

\* Occurrence o of schedule s has passed, or is shown as running.
Beyond(s, o) == o < occ[s] \/ (o = occ[s] /\ last[s] = "running")

\* Before the work of an execution.
Before == {"find", "insert", "loaded", "begun", "running"}

\* Replica r has done the work of occurrence o of schedule s.
HasDone(r, s, o) == done[<<s, o, r>>] # 0

\* The inductive form of ThreadRunsOnce: an occurrence whose work a thread has done
\* has passed, or its schedule is shown as running and not on the thread's due list,
\* so that the thread does not come to it again.  The last number stands for all
\* later occurrences: their work is not counted.
ThreadOnce(r) ==
    /\ pc[r] # "idle" => cur[r] \notin todo[r] /\ seen[r] <= occ[cur[r]]
    /\ (pc[r] \in {"begun", "running"} \/ (pc[r] = "loaded" /\ loaded[r] = "running")) =>
          seen[r] = MaxOcc \/ Beyond(cur[r], seen[r])
    /\ \A s \in Schedules : \A o \in Occs : HasDone(r, s, o) =>
          /\ o # MaxOcc
          /\ Beyond(s, o)
          /\ s \in todo[r] => o < occ[s]
          /\ (pc[r] \in Before /\ cur[r] = s) => o # seen[r]

\* A schedule's row goes on to the next occurrence, or stays at it with its status or
\* with 'running'.
LEMMA ScheduleSteps ==
    ASSUME TypeOK, [Next]_vars, NEW s \in Schedules
    PROVE  \/ occ'[s] = NextOcc(occ[s])
           \/ occ'[s] = occ[s] /\ last'[s] \in {last[s], "running"}
<1> DEFINE Goal == \/ occ'[s] = NextOcc(occ[s])
                   \/ occ'[s] = occ[s] /\ last'[s] \in {last[s], "running"}
<1> USE DEF TypeOK, ScheduleTypeOK, ProcTypeOK
<1>1. ASSUME NEW a \in Schedules, UpdateInterval(a)
      PROVE  Goal
  BY <1>1 DEF UpdateInterval
<1>2. ASSUME NEW p \in Procs, Begin(p)
      PROVE  Goal
  BY <1>2 DEF Begin
<1>3. ASSUME NEW p \in Procs, Finish(p)
      PROVE  Goal
  <2>1. cur[p] \in Schedules
    BY <1>3 DEF Finish
  <2>2. CASE s = cur[p]
    BY <1>3, <2>2 DEF Finish
  <2>3. CASE s # cur[p]
    BY <1>3, <2>1, <2>3 DEF Finish
  <2> QED
    BY <2>2, <2>3
<1>4. ASSUME UNCHANGED <<occ, last>>
      PROVE  Goal
  BY <1>4
<1>5. \A a \in Schedules : Elapse(a) \/ SetActive(a) => UNCHANGED <<occ, last>>
  BY DEF Elapse, SetActive
<1>6. \A r \in Replicas : Scan(r) \/ Proceed(r) \/ Find(r) \/ Insert(r) \/ EnqueueFails(r)
                           \/ Restart(r) => UNCHANGED <<occ, last>>
  BY DEF Scan, Proceed, Find, Insert, EnqueueFails, Restart, schedules
<1>7. \A p \in Procs : Reload(p) \/ Work(p) \/ Err(p) \/ Raise(p) => UNCHANGED <<occ, last>>
  BY DEF Reload, Work, Err, Raise, schedules
<1>8. \A w \in Workers : Claim(w) \/ SettleRead(w) \/ SettleWrite(w) \/ Crash(w)
                          => UNCHANGED <<occ, last>>
  BY DEF Claim, SettleRead, SettleWrite, Crash, schedules
<1>9. \A q \in Requests : Trigger(q) => UNCHANGED <<occ, last>>
  BY DEF Trigger, schedules
<1>10. \A k \in Keys : Recover(k) \/ RecoverWrite(k) \/ Promote(k) => UNCHANGED <<occ, last>>
  BY DEF Recover, RecoverWrite, Promote, schedules
<1>11. UNCHANGED vars => UNCHANGED <<occ, last>>
  BY DEF vars, schedules
<1> QED
  BY <1>1, <1>2, <1>3, <1>4, <1>5, <1>6, <1>7, <1>8, <1>9, <1>10, <1>11
     DEF Next, Replica, Worker, Execute, Runtime, Procs

\* An occurrence that has passed, or is shown as running, does not come back.
LEMMA BeyondStays ==
    ASSUME TypeOK, [Next]_vars, NEW s \in Schedules, NEW o \in Occs
    PROVE  /\ o # MaxOcc /\ Beyond(s, o) => Beyond(s, o)'
           /\ o < occ[s] => o < occ'[s]
           /\ o <= occ[s] => o <= occ'[s]
<1>1. occ[s] \in Occs /\ occ[s] \in Nat /\ MaxOcc \in Nat /\ o \in Nat /\ o <= MaxOcc
      /\ occ[s] <= MaxOcc
  BY DispatchAssumption DEF TypeOK, ScheduleTypeOK, Occs
<1>2. CASE occ'[s] = NextOcc(occ[s])
  BY <1>1, <1>2 DEF NextOcc, Beyond
<1>3. CASE occ'[s] = occ[s] /\ last'[s] \in {last[s], "running"}
  BY <1>1, <1>3 DEF Beyond
<1> QED
  BY <1>2, <1>3, ScheduleSteps

\* What a replica has done in process changes with its own work only.
LEMMA DoneSteps ==
    ASSUME TypeOK, [Next]_vars, NEW r \in Replicas, ~Work(r), NEW s \in Schedules, NEW o \in Occs
    PROVE  done'[<<s, o, r>>] = done[<<s, o, r>>]
<1> USE DEF history
<1>1. ASSUME NEW p \in Procs, p # r, Work(p)
      PROVE  done'[<<s, o, r>>] = done[<<s, o, r>>]
  <2>1. <<s, o, r>> \in Keys /\ <<s, o, r>> # <<cur[p], seen[p], p>>
    BY <1>1 DEF Keys
  <2> QED
    BY <1>1, <2>1 DEF Work, TypeOK, HistoryTypeOK
<1>2. \A a \in Schedules : Elapse(a) \/ UpdateInterval(a) \/ SetActive(a) => UNCHANGED done
  BY DEF Elapse, UpdateInterval, SetActive
<1>3. \A q \in Replicas : Scan(q) \/ Proceed(q) \/ Find(q) \/ Insert(q) \/ EnqueueFails(q)
                           \/ Restart(q) => UNCHANGED done
  BY DEF Scan, Proceed, Find, Insert, EnqueueFails, Restart
<1>4. \A p \in Procs : Begin(p) \/ Reload(p) \/ Err(p) \/ Finish(p) \/ Raise(p) => UNCHANGED done
  BY DEF Begin, Reload, Err, Finish, Raise
<1>5. \A w \in Workers : Claim(w) \/ SettleRead(w) \/ SettleWrite(w) \/ Crash(w) => UNCHANGED done
  BY DEF Claim, SettleRead, SettleWrite, Crash
<1>6. \A q \in Requests : Trigger(q) => UNCHANGED done
  BY DEF Trigger
<1>7. \A k \in Keys : Runtime(k) => UNCHANGED done
  BY DEF Runtime, Recover, RecoverWrite, Promote
<1>8. UNCHANGED vars => UNCHANGED done
  BY DEF vars
<1> QED
  BY <1>1, <1>2, <1>3, <1>4, <1>5, <1>6, <1>7, <1>8 DEF Next, Replica, Worker, Execute, Procs

\* The due list of a thread is its own.
LEMMA TodoIsOwn ==
    ASSUME TypeOK, [Next]_vars, NEW r \in Replicas, ~Moves(r)
    PROVE  todo'[r] = todo[r]
<1>0. todo \in [Replicas -> SUBSET Schedules]
  BY DEF TypeOK
<1>1. \A s \in Schedules : Elapse(s) \/ UpdateInterval(s) \/ SetActive(s) => UNCHANGED todo
  BY DEF Elapse, UpdateInterval, SetActive
<1>2. ASSUME NEW p \in Procs, p # r, Execute(p)
      PROVE  todo'[r] = todo[r]
  BY <1>0, <1>2 DEF Execute, Begin, Reload, Work, Err, Finish, Raise
<1>3. ASSUME NEW q \in Replicas, q # r,
             Scan(q) \/ Proceed(q) \/ Find(q) \/ Insert(q) \/ EnqueueFails(q) \/ Restart(q)
      PROVE  todo'[r] = todo[r]
  BY <1>0, <1>3 DEF Scan, Proceed, Find, Insert, EnqueueFails, Restart
<1>4. \A w \in Workers : Claim(w) \/ SettleRead(w) \/ SettleWrite(w) \/ Crash(w) => UNCHANGED todo
  BY DEF Claim, SettleRead, SettleWrite, Crash
<1>5. \A q \in Requests : Trigger(q) => UNCHANGED todo
  BY DEF Trigger
<1>6. \A k \in Keys : Runtime(k) => UNCHANGED todo
  BY DEF Runtime, Recover, RecoverWrite, Promote
<1>7. UNCHANGED vars => UNCHANGED todo
  BY DEF vars
<1>8. \A p \in Workers \cup Requests : p \in Procs /\ p # r
  BY DispatchAssumption DEF Procs
<1>9. Replicas \subseteq Procs
  BY DEF Procs
<1> QED
  BY <1>1, <1>2, <1>3, <1>4, <1>5, <1>6, <1>7, <1>8, <1>9 DEF Next, Moves, Replica, Worker

\* No step brings a scheduler thread back to an occurrence whose work it has done,
\* although it may die, fail to enqueue, or give up its list on the way.
LEMMA ThreadOnceKept ==
    ASSUME TypeOK, [Next]_vars, NEW r \in Replicas, ThreadOnce(r)
    PROVE  ThreadOnce(r)'
<1>2. r \in Procs /\ r \notin Workers /\ r \notin Requests
  BY DispatchAssumption DEF Procs
<1>3. ~Work(r) => \A s \in Schedules : \A o \in Occs : HasDone(r, s, o)' <=> HasDone(r, s, o)
  BY DoneSteps DEF HasDone
<1>5. CASE ~Moves(r)
  <2>1. /\ pc'[r] = pc[r] /\ cur'[r] = cur[r] /\ seen'[r] = seen[r] /\ loaded'[r] = loaded[r]
        /\ seen[r] \in Occs /\ (pc[r] # "idle" => cur[r] \in Schedules)
    BY <1>2, <1>5, OnlyOwnMoves DEF Stays, TypeOK, ProcTypeOK
  <2>2. todo'[r] = todo[r] /\ ~Work(r)
    BY <1>5, TodoIsOwn DEF Moves, Replica, Execute
  <2>3. pc'[r] # "idle" => cur'[r] \notin todo'[r] /\ seen'[r] <= occ'[cur'[r]]
    BY <2>1, <2>2, BeyondStays DEF ThreadOnce
  <2>4. ASSUME \/ pc'[r] \in {"begun", "running"}
               \/ pc'[r] = "loaded" /\ loaded'[r] = "running"
        PROVE  seen'[r] = MaxOcc \/ Beyond(cur[r], seen[r])'
    BY <2>1, <2>4, BeyondStays DEF ThreadOnce
  <2>5. ASSUME NEW s \in Schedules, NEW o \in Occs, HasDone(r, s, o)'
        PROVE  /\ o # MaxOcc
               /\ Beyond(s, o)'
               /\ s \in todo'[r] => o < occ'[s]
               /\ (pc'[r] \in Before /\ cur'[r] = s) => o # seen'[r]
    <3>1. HasDone(r, s, o)
      BY <1>3, <2>2, <2>5
    <3> QED
      BY <2>1, <2>2, <3>1, BeyondStays DEF ThreadOnce
  <2> QED
    BY <2>3, <2>4, <2>5 DEF ThreadOnce
<1>6. /\ \A s \in Schedules : occ[s] \in Nat /\ occ[s] \in Occs
      /\ seen[r] \in Occs /\ (pc[r] # "idle" => cur[r] \in Schedules)
  BY <1>2, DispatchAssumption DEF TypeOK, ScheduleTypeOK, ProcTypeOK, Occs
<1>7. \A o \in Occs : o \in Nat
  BY DEF Occs
<1>8. ASSUME Scan(r) \/ Proceed(r)
      PROVE  ThreadOnce(r)'
  <2>1. PICK s \in Schedules :
           /\ Dispatch(r, s)
           /\ s \notin todo'[r] /\ todo'[r] \subseteq Schedules
           /\ \/ last[s] # "running" /\ \A a \in todo'[r] : last[a] # "running"
              \/ s \in todo[r] /\ todo'[r] \subseteq todo[r]
    BY <1>8 DEF Scan, Proceed, DueNow, TypeOK
  <2>2. /\ cur'[r] = s /\ seen'[r] = occ[s] /\ loaded'[r] = last[s]
        /\ pc'[r] \in {"loaded", "find"}
    BY <1>2, <2>1 DEF Dispatch, Take, TypeOK, ProcTypeOK
  <2>3. UNCHANGED <<occ, last, done>>
    BY <1>8 DEF Scan, Proceed, schedules, history
  <2>4. ASSUME NEW a \in Schedules, NEW o \in Occs, HasDone(r, a, o)
        PROVE  o # MaxOcc /\ Beyond(a, o) /\ (a = s \/ a \in todo'[r] => o < occ[a])
    BY <1>6, <2>1, <2>4 DEF ThreadOnce, Beyond
  <2>5. ASSUME NEW a \in Schedules, NEW o \in Occs, HasDone(r, a, o)'
        PROVE  /\ o # MaxOcc
               /\ Beyond(a, o)'
               /\ a \in todo'[r] => o < occ'[a]
               /\ (pc'[r] \in Before /\ cur'[r] = a) => o # seen'[r]
    <3>1. HasDone(r, a, o)
      BY <2>3, <2>5 DEF HasDone
    <3> QED
      BY <1>6, <1>7, <2>2, <2>3, <2>4, <3>1 DEF Beyond
  <2>6. pc'[r] # "idle" => cur'[r] \notin todo'[r] /\ seen'[r] <= occ'[cur'[r]]
    BY <1>6, <2>1, <2>2, <2>3
  <2>7. ASSUME \/ pc'[r] \in {"begun", "running"}
               \/ pc'[r] = "loaded" /\ loaded'[r] = "running"
        PROVE  seen'[r] = MaxOcc \/ Beyond(cur[r], seen[r])'
    BY <2>2, <2>3, <2>7 DEF Beyond
  <2> QED
    BY <2>5, <2>6, <2>7 DEF ThreadOnce
<1>9. ASSUME UNCHANGED <<occ, last, done, cur, seen, todo>>,
             \/ pc'[r] = pc[r] /\ loaded'[r] = loaded[r]
             \/ pc[r] \in Before /\ pc'[r] = "insert"
             \/ pc[r] \in Before /\ pc'[r] = "loaded" /\ loaded'[r] = None
             \/ pc[r] = "begun" /\ pc'[r] = "running"
             \/ pc[r] = "running" /\ pc'[r] = "erred"
      PROVE  ThreadOnce(r)'
  BY <1>9, DispatchAssumption DEF ThreadOnce, Beyond, Before, HasDone
<1>11. ASSUME pc'[r] = "idle", todo'[r] \subseteq todo[r], ~Work(r)
       PROVE  ThreadOnce(r)'
  <2>1. ASSUME NEW s \in Schedules, NEW o \in Occs, HasDone(r, s, o)'
        PROVE  o # MaxOcc /\ Beyond(s, o)' /\ (s \in todo'[r] => o < occ'[s])
    <3>1. HasDone(r, s, o)
      BY <1>3, <1>11, <2>1
    <3> QED
      BY <1>11, <3>1, BeyondStays DEF ThreadOnce
  <2> QED
    BY <1>11, <2>1 DEF ThreadOnce, Before
<1>12. ASSUME Leave(r), Find(r) \/ Insert(r) \/ EnqueueFails(r) \/ Restart(r) \/ Finish(r) \/ Raise(r)
       PROVE  ThreadOnce(r)'
  <2>1. pc'[r] = "idle"
    BY <1>2, <1>12 DEF Leave, TypeOK, ProcTypeOK
  <2>2. todo'[r] \subseteq todo[r]
    BY <1>12 DEF Find, Insert, EnqueueFails, Restart, Finish, Raise, TypeOK
  <2>3. ~Work(r)
    BY <1>2, <2>1 DEF Work, TypeOK, ProcTypeOK
  <2> QED
    BY <1>11, <2>1, <2>2, <2>3
<1>10. ASSUME Find(r) \/ Insert(r) \/ EnqueueFails(r), ~Leave(r)
       PROVE  ThreadOnce(r)'
  <2>1. UNCHANGED <<occ, last, done, todo>> /\ pc[r] \in {"find", "insert"}
    BY <1>10 DEF Find, Insert, EnqueueFails, schedules, history
  <2>2. /\ UNCHANGED <<cur, seen>>
        /\ \/ pc' = [pc EXCEPT ![r] = "insert"]
           \/ pc' = [pc EXCEPT ![r] = "loaded"] /\ loaded' = [loaded EXCEPT ![r] = None]
    BY <1>10 DEF Find, Insert, EnqueueFails, Enqueued
  <2>3. \/ pc'[r] = "insert"
        \/ pc'[r] = "loaded" /\ loaded'[r] = None
    BY <1>2, <2>2 DEF TypeOK, ProcTypeOK
  <2> QED
    BY <1>9, <2>1, <2>2, <2>3 DEF Before
<1>13. ASSUME Restart(r) \/ Finish(r) \/ Raise(r)
       PROVE  Leave(r)
  BY <1>2, <1>13 DEF Restart, Finish, Raise, AfterExecute
<1>14. ASSUME Begin(r)
       PROVE  ThreadOnce(r)'
  <2>1. /\ pc[r] = "loaded" /\ pc'[r] = "begun" /\ UNCHANGED <<occ, done, cur, seen, todo>>
        /\ cur[r] \in Schedules
    BY <1>2, <1>6, <1>14 DEF Begin, TypeOK, ProcTypeOK, history
  <2>2. /\ loaded[r] # "running" => last'[cur[r]] = "running"
        /\ loaded[r] = "running" => last'[cur[r]] = last[cur[r]]
        /\ \A s \in Schedules : last'[s] \in {last[s], "running"}
    BY <1>14, <2>1 DEF Begin, TypeOK, ScheduleTypeOK
  <2>3. seen'[r] = MaxOcc \/ Beyond(cur[r], seen[r])'
    BY <1>6, <1>7, <2>1, <2>2 DEF ThreadOnce, Beyond
  <2>4. ASSUME NEW s \in Schedules, NEW o \in Occs, HasDone(r, s, o)'
        PROVE  /\ o # MaxOcc
               /\ Beyond(s, o)'
               /\ s \in todo'[r] => o < occ'[s]
               /\ (pc'[r] \in Before /\ cur'[r] = s) => o # seen'[r]
    BY <2>1, <2>2, <2>4 DEF ThreadOnce, Beyond, Before, HasDone
  <2> QED
    BY <2>1, <2>3, <2>4 DEF ThreadOnce
<1>15. ASSUME Reload(r) \/ Err(r)
       PROVE  ThreadOnce(r)'
  <2>1. UNCHANGED <<occ, last, done, cur, seen, todo>>
    BY <1>15 DEF Reload, Err, schedules, history
  <2>2. \/ pc[r] = "begun" /\ pc'[r] = "running"
        \/ pc[r] = "running" /\ pc'[r] = "erred"
    BY <1>2, <1>15 DEF Reload, Err, TypeOK, ProcTypeOK
  <2> QED
    BY <1>9, <2>1, <2>2
<1>16. ASSUME Work(r)
       PROVE  ThreadOnce(r)'
  <2>1. /\ UNCHANGED <<occ, last, cur, seen, todo>>
        /\ pc[r] = "running" /\ pc'[r] = "sent" /\ cur[r] \in Schedules
    BY <1>2, <1>6, <1>16 DEF Work, schedules, TypeOK, ProcTypeOK
  <2>2. ASSUME NEW s \in Schedules, NEW o \in Occs, HasDone(r, s, o)'
        PROVE  HasDone(r, s, o) \/ (s = cur[r] /\ o = seen[r] /\ seen[r] # MaxOcc)
    <3>1. <<s, o, r>> \in Keys
      BY DEF Keys
    <3>2. CASE seen[r] < MaxOcc
      <4>1. done' = [done EXCEPT ![<<cur[r], seen[r], r>>] = @ + 1]
        BY <1>2, <1>16, <3>2 DEF Work
      <4>2. <<s, o, r>> # <<cur[r], seen[r], r>> => done'[<<s, o, r>>] = done[<<s, o, r>>]
        BY <3>1, <4>1 DEF TypeOK, HistoryTypeOK
      <4>3. seen[r] # MaxOcc
        BY <1>6, <1>7, <3>2, DispatchAssumption
      <4> QED
        BY <2>2, <4>2, <4>3 DEF HasDone
    <3>3. CASE ~(seen[r] < MaxOcc)
      BY <1>16, <2>2, <3>3 DEF Work, HasDone
    <3> QED
      BY <3>2, <3>3
  <2>3. cur[r] \notin todo[r] /\ (seen[r] # MaxOcc => Beyond(cur[r], seen[r]))
    BY <2>1 DEF ThreadOnce
  <2>4. ASSUME NEW s \in Schedules, NEW o \in Occs, HasDone(r, s, o)'
        PROVE  o # MaxOcc /\ Beyond(s, o)' /\ (s \in todo'[r] => o < occ'[s])
    <3>1. CASE HasDone(r, s, o)
      BY <2>1, <3>1 DEF ThreadOnce, Beyond
    <3>2. CASE s = cur[r] /\ o = seen[r] /\ seen[r] # MaxOcc
      BY <2>1, <2>3, <3>2 DEF Beyond
    <3> QED
      BY <2>2, <2>4, <3>1, <3>2
  <2> QED
    BY <2>1, <2>4 DEF ThreadOnce, Before
<1> QED
  BY <1>2, <1>5, <1>8, <1>10, <1>12, <1>13, <1>14, <1>15, <1>16 DEF Moves, Replica, Execute

\* A thread that comes to the work of an occurrence has not done it before.
LEMMA RunsOnceKept ==
    ASSUME TypeOK, ThreadRunsOnce, [Next]_vars, \A r \in Replicas : ThreadOnce(r)
    PROVE  ThreadRunsOnce'
<1> SUFFICES ASSUME NEW s \in Schedules, NEW o \in Occs, NEW r \in Replicas
             PROVE  done'[<<s, o, r>>] <= 1
  <2>1. \A k \in Keys : \E s \in Schedules, o \in Occs, r \in Replicas : k = <<s, o, r>>
    BY DEF Keys
  <2> QED
    BY <2>1 DEF ThreadRunsOnce
<1>1. <<s, o, r>> \in Keys /\ done[<<s, o, r>>] <= 1
  BY DEF ThreadRunsOnce, Keys
<1>2. CASE ~Work(r)
  BY <1>1, <1>2, DoneSteps
<1>3. CASE Work(r) /\ <<s, o, r>> # <<cur[r], seen[r], r>>
  <2>1. done'[<<s, o, r>>] = done[<<s, o, r>>]
    BY <1>1, <1>3 DEF Work, TypeOK, HistoryTypeOK
  <2> QED
    BY <1>1, <2>1
<1>4. CASE Work(r) /\ s = cur[r] /\ o = seen[r]
  <2>1. done[<<s, o, r>>] = 0
    BY <1>4 DEF ThreadOnce, HasDone, Work, Before
  <2>2. done' = done \/ done' = [done EXCEPT ![<<s, o, r>>] = @ + 1]
    BY <1>4 DEF Work
  <2> QED
    BY <1>1, <2>1, <2>2 DEF TypeOK, HistoryTypeOK
<1> QED
  BY <1>2, <1>3, <1>4

\* However many replicas, workers and triggers execute a schedule, wherever they die,
\* raise or fail to enqueue and in whatever mode they are restarted: the scheduler
\* thread of a replica does the work of an occurrence at most once.
THEOREM ThreadWorksOnce == Spec => []ThreadRunsOnce
<1> DEFINE Inv == ThreadRunsOnce /\ \A r \in Replicas : ThreadOnce(r)
<1>1. Init => Inv
  BY DispatchAssumption DEF Init, ThreadRunsOnce, ThreadOnce, HasDone, Keys, Procs, Before
<1>2. TypeOK /\ Inv /\ [Next]_vars => Inv'
  BY ThreadOnceKept, RunsOnceKept
<1> QED
  BY <1>1, <1>2, DispatchTypeCorrect, PTL DEF Spec

-----------------------------------------------------------------------------
(* Repeated work is explained *)

\* Who is about to insert a job is the only one who can, and has not done it.
InsertFresh ==
    \A r \in Replicas : pc[r] = "insert" => status[<<cur[r], seen[r], r>>] = "none"

\* Every step keeps it: between the look-up of a key and its insertion nobody else
\* inserts in this replica's name.
LEMMA InsertFreshKept == TypeOK /\ JobsExist /\ InsertFresh /\ [Next]_vars => InsertFresh'
<1> SUFFICES ASSUME TypeOK, JobsExist, InsertFresh, [Next]_vars,
                    NEW r \in Replicas, pc'[r] = "insert"
             PROVE  status'[<<cur'[r], seen'[r], r>>] = "none"
  BY DEF InsertFresh
<1> DEFINE k == <<cur'[r], seen'[r], r>>
<1>1. r \in Procs /\ r \notin Workers /\ r \notin Requests
  BY DispatchAssumption DEF Procs
<1>2. k \in Keys
  <2>1. cur'[r] \in Schedules /\ seen'[r] \in Occs
    BY <1>1, NextTypeOK DEF TypeOK, ProcTypeOK
  <2> QED
    BY <2>1 DEF Keys
<1>3. ~Insert(r)
  BY <1>1 DEF Insert, Enqueued, Leave, TypeOK, ProcTypeOK
<1>4. status[k] = "none"
  <2>1. CASE Find(r)
    <3>1. JobsOf(cur[r], seen[r]) = {} /\ cur' = cur /\ seen' = seen
      BY <1>1, <2>1 DEF Find, Enqueued, Leave, TypeOK, ProcTypeOK
    <3> QED
      BY <1>2, <3>1 DEF JobsOf
  <2>2. CASE ~Moves(r)
    BY <1>1, <2>2, OnlyOwnMoves DEF Stays, InsertFresh
  <2>3. CASE Moves(r) /\ ~Find(r)
    <3>1. ASSUME Scan(r) \/ Proceed(r) \/ EnqueueFails(r) \/ Restart(r)
          PROVE  FALSE
      BY <1>1, <3>1 DEF Scan, Proceed, Dispatch, Take, EnqueueFails, Enqueued, Restart, Leave,
                        TypeOK, ProcTypeOK
    <3>2. ASSUME Execute(r)
          PROVE  FALSE
      BY <1>1, <3>2 DEF Execute, Begin, Reload, Work, Err, Finish, Raise, AfterExecute, Leave,
                        TypeOK, ProcTypeOK
    <3> QED
      BY <1>1, <1>3, <2>3, <3>1, <3>2 DEF Moves, Replica
  <2> QED
    BY <2>1, <2>2, <2>3
<1>5. CASE \A q \in Replicas : ~Insert(q)
  BY <1>2, <1>4, <1>5, OtherJobSteps
<1>6. ASSUME NEW q \in Replicas, Insert(q)
      PROVE  status'[k] = "none"
  <2>1. k # <<cur[q], seen[q], q>>
    BY <1>3, <1>6
  <2> QED
    BY <1>2, <1>4, <1>6, <2>1 DEF Insert, jobs, TypeOK, JobTypeOK
<1> QED
  BY <1>5, <1>6

\* The workers that may yet do the work of job k, or send it back to be done again.
Pending(k) ==
    {w \in Workers : /\ key[w] = k
                     /\ \/ pc[w] \in {"loaded", "begun", "running", "erred", "raised"}
                        \/ pc[w] = "write" /\ to[w] # "succeeded"}

\* Job k may be claimed now or later without anybody failing it first.
Open(k) == IF status[k] \in {"none", "queued", "retry_wait"} THEN 1 ELSE 0

\* The job scheduler is about to fail job k.
Failing(k) == IF sup # None /\ sup[1] = k THEN 1 ELSE 0

\* The inductive form of EffectsExplained: what has been done of a job and what may
\* still be done of it, by whoever holds it now and by the next claim.
Explained(k) == sent[k] + Cardinality(Pending(k)) + Open(k) + Failing(k) <= 1 + lapses[k]

\* Sizes of finite sets.
LEMMA Sizes ==
    ASSUME NEW S, IsFiniteSet(S), NEW T
    PROVE  /\ Cardinality(S) \in Nat
           /\ T \subseteq S => Cardinality(T) \in Nat /\ Cardinality(T) <= Cardinality(S)
           /\ \A x : T \subseteq S \cup {x} => Cardinality(T) \in Nat /\ Cardinality(T) <= Cardinality(S) + 1
           /\ \A x \in S : T \subseteq S \ {x} => Cardinality(T) \in Nat /\ Cardinality(T) + 1 <= Cardinality(S)
<1>1. Cardinality(S) \in Nat
  BY FS_CardinalityType
<1>2. \A U : IsFiniteSet(U) /\ T \subseteq U => Cardinality(T) \in Nat /\ Cardinality(T) <= Cardinality(U)
  BY FS_Subset, FS_CardinalityType
<1>3. ASSUME NEW x, T \subseteq S \cup {x}
      PROVE  Cardinality(T) \in Nat /\ Cardinality(T) <= Cardinality(S) + 1
  <2>1. IsFiniteSet(S \cup {x}) /\ Cardinality(S \cup {x}) <= Cardinality(S) + 1
    BY <1>1, FS_AddElement
  <2>2. Cardinality(S \cup {x}) \in Nat
    BY <2>1, FS_CardinalityType
  <2> QED
    BY <1>1, <1>2, <1>3, <2>1, <2>2
<1>4. ASSUME NEW x \in S, T \subseteq S \ {x}
      PROVE  Cardinality(T) \in Nat /\ Cardinality(T) + 1 <= Cardinality(S)
  <2>1. IsFiniteSet(S \ {x}) /\ Cardinality(S \ {x}) = Cardinality(S) - 1
    BY FS_RemoveElement
  <2> QED
    BY <1>1, <1>2, <1>4, <2>1
<1> QED
  BY <1>1, <1>2, <1>3, <1>4

\* A step that leaves the workers alone leaves the pending ones as they are.
LEMMA PendingSame ==
    ASSUME NEW k \in Keys, UNCHANGED held, \A w \in Workers : Stays(w)
    PROVE  Pending(k)' = Pending(k)
BY DEF Pending, Stays, held

\* A step of one worker leaves the others as pending as they are.
LEMMA PendingOthers ==
    ASSUME TypeOK, NEW k \in Keys, NEW w \in Workers, Worker(w) \/ Crash(w),
           NEW v \in Workers, v # w
    PROVE  v \in Pending(k)' <=> v \in Pending(k)
<1>1. v \in Procs /\ w \in Procs /\ Moves(w)
  BY DEF Procs, Moves
<1>2. Stays(v)
  BY <1>1, MoveIsLocal
<1>3. key'[v] = key[v] /\ to'[v] = to[v]
  <2> USE DEF TypeOK, HeldTypeOK, held
  <2>1. ASSUME Claim(w)
        PROVE  key'[v] = key[v] /\ to'[v] = to[v]
    BY <2>1 DEF Claim
  <2>2. ASSUME SettleRead(w) \/ SettleWrite(w) \/ Crash(w)
        PROVE  key'[v] = key[v] /\ to'[v] = to[v]
    BY <2>2 DEF SettleRead, SettleWrite, Crash, LetGo
  <2>3. Execute(w) => UNCHANGED held
    BY DEF Execute, Begin, Reload, Work, Err, Finish, Raise
  <2> QED
    BY <2>1, <2>2, <2>3 DEF Worker
<1> QED
  BY <1>2, <1>3 DEF Stays, Pending

\* A step of a worker keeps the account of job k: work is done once for each time the
\* job is taken up, and a worker that settles it twice in effect has taken it up twice.
LEMMA WorkerExplained ==
    ASSUME TypeOK, NEW k \in Keys, Explained(k), NEW w \in Workers, Worker(w) \/ Crash(w)
    PROVE  Explained(k)'
<1> DEFINE P == Pending(k)
           Q == Pending(k)'
<1>0. /\ w \in Procs /\ w \notin Replicas /\ w \notin Requests
      /\ sent[k] \in Nat /\ lapses[k] \in Nat
      /\ Open(k) \in {0, 1} /\ Failing(k) \in {0, 1} /\ Open(k)' \in {0, 1}
      /\ pc[w] # "idle" => key[w] \in Keys
  BY DispatchAssumption DEF Procs, TypeOK, HeldTypeOK, HistoryTypeOK, Open, Failing
<1>1. IsFiniteSet(P)
  <2>1. P \subseteq Workers
    BY DEF Pending
  <2> QED
    BY <2>1, DispatchAssumption, FS_Subset
<1>2. Q \subseteq P \cup {w} /\ Q \ {w} \subseteq P
  BY PendingOthers DEF Pending
<1>3. /\ w \notin Q \/ w \in P => Cardinality(Q) \in Nat /\ Cardinality(Q) <= Cardinality(P)
      /\ w \notin Q /\ w \in P => Cardinality(Q) \in Nat /\ Cardinality(Q) + 1 <= Cardinality(P)
      /\ Cardinality(Q) \in Nat /\ Cardinality(Q) <= Cardinality(P) + 1
      /\ Cardinality(P) \in Nat
  <2>1. w \notin Q \/ w \in P => Q \subseteq P
    BY <1>2
  <2>2. w \notin Q => Q \subseteq P \ {w}
    BY <1>2
  <2> HIDE DEF P, Q
  <2> QED
    BY <1>1, <1>2, <2>1, <2>2, Sizes
<1>4. sent[k] + Cardinality(P) + Open(k) + Failing(k) <= 1 + lapses[k]
  BY DEF Explained
<1>5. SUFFICES sent'[k] + Cardinality(Q) + Open(k)' + Failing(k)' <= 1 + lapses'[k]
  BY DEF Explained
<1> HIDE DEF P, Q
<1>6. CASE Begin(w) \/ Reload(w) \/ Err(w)
  <2>1. UNCHANGED <<sent, lapses, status, sup, key, to>>
    BY <1>6 DEF Begin, Reload, Err, history, jobs, held
  <2>2. w \in Q => w \in P
    BY <1>0, <1>6, <2>1 DEF P, Q, Pending, Begin, Reload, Err, TypeOK, ProcTypeOK
  <2> QED
    BY <1>0, <1>3, <1>4, <2>1, <2>2 DEF Open, Failing
<1>7. CASE Work(w)
  <2>1. /\ UNCHANGED <<lapses, status, sup, key, to>>
        /\ sent' = [sent EXCEPT ![key[w]] = @ + 1]
        /\ pc[w] = "running" /\ pc'[w] = "sent"
    BY <1>0, <1>7 DEF Work, jobs, held, TypeOK, ProcTypeOK
  <2>2. w \notin Q /\ (key[w] = k => w \in P)
    BY <2>1 DEF P, Q, Pending
  <2>3. sent'[k] = IF key[w] = k THEN sent[k] + 1 ELSE sent[k]
    BY <1>0, <2>1 DEF TypeOK, HistoryTypeOK
  <2> QED
    BY <1>0, <1>3, <1>4, <2>1, <2>2, <2>3 DEF Open, Failing
<1>8. CASE Finish(w)
  <2>1. UNCHANGED <<sent, lapses, status, sup>> /\ pc'[w] = "settle"
    BY <1>0, <1>8 DEF Finish, AfterExecute, jobs, TypeOK, ProcTypeOK
  <2>2. w \notin Q
    BY <2>1 DEF Q, Pending
  <2> QED
    BY <1>0, <1>3, <1>4, <2>1, <2>2 DEF Open, Failing
<1>9. CASE Raise(w)
  <2>1. /\ UNCHANGED <<sent, status, sup, key, to>>
        /\ pc[w] \in {"loaded"} \cup Executing
        /\ lapses' = IF pc[w] = "sent" THEN [lapses EXCEPT ![key[w]] = @ + 1] ELSE lapses
    BY <1>9 DEF Raise, jobs, held
  <2>2. CASE pc[w] = "sent" /\ key[w] = k
    <3>1. lapses'[k] = lapses[k] + 1
      BY <1>0, <2>1, <2>2 DEF TypeOK, HistoryTypeOK
    <3> QED
      BY <1>0, <1>3, <1>4, <2>1, <3>1 DEF Open, Failing
  <2>3. CASE ~(pc[w] = "sent" /\ key[w] = k)
    <3>1. lapses'[k] = lapses[k]
      BY <1>0, <2>1, <2>3 DEF TypeOK, HistoryTypeOK
    <3>2. w \in Q => w \in P
      BY <2>1, <2>3 DEF P, Q, Pending, Executing
    <3> QED
      BY <1>0, <1>3, <1>4, <2>1, <3>1, <3>2 DEF Open, Failing
  <2> QED
    BY <2>2, <2>3
<1>10. CASE Claim(w)
  <2>1. PICK l \in Keys :
           /\ status[l] = "queued" /\ status' = [status EXCEPT ![l] = "running"]
           /\ key' = [key EXCEPT ![w] = l]
    BY <1>10 DEF Claim
  <2>2. UNCHANGED <<sent, lapses, sup>> /\ key'[w] = l
    BY <1>10, <2>1 DEF Claim, history, TypeOK, HeldTypeOK
  <2>3. CASE l = k
    <3>1. status[k] = "queued" /\ status'[k] = "running"
      BY <2>1, <2>3 DEF TypeOK, JobTypeOK
    <3> QED
      BY <1>0, <1>3, <1>4, <2>2, <3>1 DEF Open, Failing
  <2>4. CASE l # k
    <3>1. status'[k] = status[k]
      BY <2>1, <2>4 DEF TypeOK, JobTypeOK
    <3>2. w \notin Q
      BY <2>2, <2>4 DEF Q, Pending
    <3> QED
      BY <1>0, <1>3, <1>4, <2>2, <3>1, <3>2 DEF Open, Failing
  <2> QED
    BY <2>3, <2>4
<1>11. ASSUME LetGo(w)
       PROVE  w \notin Q
  <2>1. pc'[w] = "idle"
    BY <1>0, <1>11 DEF LetGo, Leave, TypeOK, ProcTypeOK
  <2> QED
    BY <2>1 DEF Q, Pending
<1>12. CASE SettleRead(w)
  <2>1. UNCHANGED <<sent, lapses, status, sup>>
    BY <1>12 DEF SettleRead, jobs, history
  <2>2. w \in Q => w \in P
    <3>1. CASE LetGo(w)
      BY <1>11, <3>1
    <3>2. CASE ~LetGo(w)
      <4>1. /\ pc[w] \in {"settle", "raised"} /\ key' = key
            /\ pc[w] = "settle" => to'[w] = "succeeded"
            /\ pc'[w] = "write"
        BY <1>0, <1>12, <3>2 DEF SettleRead, TypeOK, ProcTypeOK, HeldTypeOK
      <4> QED
        BY <4>1 DEF P, Q, Pending
    <3> QED
      BY <3>1, <3>2
  <2> QED
    BY <1>0, <1>3, <1>4, <2>1, <2>2 DEF Open, Failing
<1>13. CASE SettleWrite(w)
  <2>1. /\ UNCHANGED <<sent, lapses, sup>> /\ w \notin Q /\ pc[w] = "write"
        /\ status' = [status EXCEPT ![key[w]] = to[w]]
    BY <1>11, <1>13 DEF SettleWrite, history
  <2>2. CASE key[w] # k
    <3>1. status'[k] = status[k]
      BY <2>1, <2>2 DEF TypeOK, JobTypeOK
    <3> QED
      BY <1>0, <1>3, <1>4, <2>1, <3>1 DEF Open, Failing
  <2>3. CASE key[w] = k /\ to[w] = "succeeded"
    <3>1. status'[k] = "succeeded"
      BY <2>1, <2>3 DEF TypeOK, JobTypeOK
    <3> QED
      BY <1>0, <1>3, <1>4, <2>1, <3>1 DEF Open, Failing
  <2>4. CASE key[w] = k /\ to[w] # "succeeded"
    <3>1. w \in P
      BY <2>1, <2>4 DEF P, Pending
    <3> QED
      BY <1>0, <1>3, <1>4, <2>1, <3>1 DEF Failing
  <2> QED
    BY <2>2, <2>3, <2>4
<1>14. CASE Crash(w)
  <2>1. UNCHANGED <<sent, lapses, status, sup>> /\ w \notin Q
    BY <1>11, <1>14 DEF Crash, jobs
  <2> QED
    BY <1>0, <1>3, <1>4, <2>1 DEF Open, Failing
<1> QED
  BY <1>6, <1>7, <1>8, <1>9, <1>10, <1>12, <1>13, <1>14 DEF Worker, Execute

\* The steps of the job scheduler keep it: each failure it writes is a lease it has
\* found expired.
LEMMA RuntimeExplained ==
    ASSUME TypeOK, NEW k \in Keys, Explained(k), NEW l \in Keys, Runtime(l)
    PROVE  Explained(k)'
<1>1. /\ sent[k] \in Nat /\ lapses[k] \in Nat /\ Cardinality(Pending(k)) \in Nat
      /\ Open(k) \in {0, 1} /\ Failing(k) \in {0, 1} /\ Open(k)' \in {0, 1}
  <2>1. Pending(k) \subseteq Workers
    BY DEF Pending
  <2>2. Cardinality(Pending(k)) \in Nat
    BY <2>1, DispatchAssumption, Sizes
  <2> QED
    BY <2>2 DEF TypeOK, HistoryTypeOK, Open, Failing
<1>2. Pending(k)' = Pending(k) /\ sent' = sent
  <2>1. UNCHANGED <<pc, key, to, sent>>
    BY DEF Runtime, Recover, RecoverWrite, Promote, procs, held, history
  <2> QED
    BY <2>1 DEF Pending
<1>3. sent[k] + Cardinality(Pending(k)) + Open(k) + Failing(k) <= 1 + lapses[k]
  BY DEF Explained
<1>4. SUFFICES sent[k] + Cardinality(Pending(k)) + Open(k)' + Failing(k)' <= 1 + lapses'[k]
  BY <1>2 DEF Explained
<1>5. CASE Recover(l)
  <2>1. /\ status' = status /\ sup = None /\ sup'[1] = l
        /\ lapses' = [lapses EXCEPT ![l] = @ + 1]
    BY <1>5 DEF Recover, jobs
  <2>2. lapses'[k] = IF l = k THEN lapses[k] + 1 ELSE lapses[k]
    BY <2>1 DEF TypeOK, HistoryTypeOK
  <2> QED
    BY <1>1, <1>3, <2>1, <2>2 DEF Open, Failing
<1>6. CASE RecoverWrite(l)
  <2>1. sup # None /\ sup[1] = l /\ sup' = None /\ lapses' = lapses
        /\ status' = [status EXCEPT ![l] = sup[2]]
    BY <1>6 DEF RecoverWrite, history
  <2>2. l # k => status'[k] = status[k]
    BY <2>1 DEF TypeOK, JobTypeOK
  <2> QED
    BY <1>1, <1>3, <2>1, <2>2 DEF Open, Failing
<1>7. CASE Promote(l)
  <2>1. sup' = sup /\ lapses' = lapses
        /\ (status'[k] = status[k] \/ (status[k] = "retry_wait" /\ status'[k] = "queued"))
    BY <1>7 DEF Promote, history, TypeOK, JobTypeOK
  <2> QED
    BY <1>1, <1>3, <2>1 DEF Open, Failing
<1> QED
  BY <1>5, <1>6, <1>7 DEF Runtime

\* Every step keeps the account of every job.
LEMMA ExplainedKept ==
    ASSUME TypeOK, InsertFresh, [Next]_vars, NEW k \in Keys, Explained(k)
    PROVE  Explained(k)'
<1>1. CASE \E w \in Workers : Worker(w) \/ Crash(w)
  BY <1>1, WorkerExplained
<1>2. CASE \E l \in Keys : Runtime(l)
  BY <1>2, RuntimeExplained
<1>3. ASSUME UNCHANGED <<sent, lapses, sup, held>>, Open(k)' = Open(k), \A w \in Workers : Stays(w)
      PROVE  Explained(k)'
  <2>1. Pending(k)' = Pending(k)
    BY <1>3, PendingSame
  <2> QED
    BY <1>3, <2>1 DEF Explained, Failing
<1>4. ASSUME NEW p \in Replicas \cup Requests, Moves(p)
      PROVE  Explained(k)'
  <2>1. p \in Procs /\ p \notin Workers
    BY DispatchAssumption DEF Procs
  <2>2. \A w \in Workers : Stays(w)
    BY <1>4, <2>1, MoveIsLocal DEF Procs
  <2>3. UNCHANGED <<sent, lapses, sup, held>>
    <3>1. Execute(p) => UNCHANGED <<sent, lapses, sup, held>>
      BY <2>1 DEF Execute, Begin, Reload, Work, Err, Finish, Raise, history
    <3>2. Scan(p) \/ Proceed(p) \/ Find(p) \/ Insert(p) \/ EnqueueFails(p) \/ Restart(p) \/ Trigger(p)
            => UNCHANGED <<sent, lapses, sup, held>>
      BY DEF Scan, Proceed, Find, Insert, EnqueueFails, Restart, Trigger, history
    <3> QED
      BY <1>4, <2>1, <3>1, <3>2 DEF Moves, Replica
  <2>4. Open(k)' = Open(k)
    <3>1. CASE UNCHANGED status
      BY <3>1 DEF Open
    <3>2. CASE p \in Replicas /\ Insert(p)
      <4>1. status[<<cur[p], seen[p], p>>] = "none"
        BY <3>2 DEF InsertFresh, Insert
      <4>2. status' = status \/ status' = [status EXCEPT ![<<cur[p], seen[p], p>>] = "queued"]
        BY <3>2 DEF Insert, jobs
      <4>3. status'[k] = status[k] \/ (status[k] = "none" /\ status'[k] = "queued")
        BY <4>1, <4>2 DEF TypeOK, JobTypeOK
      <4> QED
        BY <4>3 DEF Open
    <3>3. Execute(p) => UNCHANGED status
      BY DEF Execute, Begin, Reload, Work, Err, Finish, Raise, jobs
    <3>4. Scan(p) \/ Proceed(p) \/ Find(p) \/ EnqueueFails(p) \/ Restart(p) \/ Trigger(p) => UNCHANGED status
      BY DEF Scan, Proceed, Find, EnqueueFails, Restart, Trigger, jobs
    <3> QED
      BY <1>4, <2>1, <3>1, <3>2, <3>3, <3>4 DEF Moves, Replica
  <2> QED
    BY <1>3, <2>2, <2>3, <2>4
<1>5. CASE UNCHANGED <<sent, lapses, sup, held, status, procs>>
  BY <1>3, <1>5 DEF Open, Stays, procs
<1>6. \A s \in Schedules : Elapse(s) \/ UpdateInterval(s) \/ SetActive(s)
                            => UNCHANGED <<sent, lapses, sup, held, status, procs>>
  BY DEF Elapse, UpdateInterval, SetActive, history, jobs
<1>7. UNCHANGED vars => UNCHANGED <<sent, lapses, sup, held, status, procs>>
  BY DEF vars, history, jobs
<1> QED
  BY <1>1, <1>2, <1>4, <1>5, <1>6, <1>7 DEF Next, Moves

\* For any number of workers, although they die, are slow, raise, and lose each
\* other's updates of the job: its work is repeated only as often as its lease has
\* expired or an execution has raised after the work.
THEOREM RepetitionExplained == Spec => []EffectsExplained
<1> DEFINE Inv == JobsExist /\ InsertFresh /\ \A k \in Keys : Explained(k)
<1>1. Init => Inv
  <2> SUFFICES ASSUME Init
               PROVE  Inv
    OBVIOUS
  <2>1. InsertFresh
    BY DEF Init, InsertFresh, Procs
  <2>2. ASSUME NEW k \in Keys
        PROVE  Explained(k)
    <3>1. Pending(k) = {}
      BY DEF Init, Pending, Procs
    <3>2. Cardinality(Pending(k)) = 0
      BY <3>1, FS_EmptySet
    <3> QED
      BY <3>2 DEF Init, Explained, Open, Failing
  <2> QED
    BY <2>1, <2>2, InitJobsExist
<1>2. TypeOK /\ Inv /\ [Next]_vars => Inv'
  BY JobsExistKept, InsertFreshKept, ExplainedKept
<1>3. TypeOK /\ Inv => EffectsExplained
  <2> SUFFICES ASSUME TypeOK, Inv, NEW k \in Keys
               PROVE  sent[k] <= 1 + lapses[k]
    BY DEF EffectsExplained
  <2>1. Pending(k) \subseteq Workers
    BY DEF Pending
  <2>2. Cardinality(Pending(k)) \in Nat
    BY <2>1, DispatchAssumption, Sizes
  <2>3. sent[k] \in Nat /\ lapses[k] \in Nat /\ Open(k) \in {0, 1} /\ Failing(k) \in {0, 1}
    BY DEF TypeOK, HistoryTypeOK, Open, Failing
  <2> QED
    BY <2>2, <2>3 DEF Explained
<1> QED
  BY <1>1, <1>2, <1>3, DispatchTypeCorrect, PTL DEF Spec

-----------------------------------------------------------------------------
(* One path to the work of an occurrence *)

\* A thread enqueues unless the mode is off, and executes unless it is queue.
PathByMode ==
    \A r \in Replicas :
        /\ mode[r] = "off" => pc[r] \notin {"find", "insert"}
        /\ mode[r] = "queue" => pc[r] \notin {"loaded"} \cup Executing

\* A job carries the mode its replica had, and has unless it was restarted in another.
JobModes ==
    \A k \in Keys : status[k] # "none" =>
        /\ payload[k] \in {"shadow", "queue"}
        /\ k[3] \notin flipped => payload[k] = mode[k[3]]

\* A worker executes only jobs made for the queue.
WorkerPath ==
    \A w \in Workers : pc[w] \in {"loaded"} \cup Executing => payload[key[w]] = "queue"

\* So is a job whose work has been done.
SentPath == \A k \in Keys : sent[k] # 0 => status[k] # "none" /\ payload[k] = "queue"

\* A replica that has done work in process has not left it to the queue.
DonePath == \A k \in Keys : done[k] # 0 /\ k[3] \notin flipped => mode[k[3]] # "queue"

PathInv == PathByMode /\ JobModes /\ WorkerPath /\ SentPath /\ DonePath

\* A replica changes its mode only with a restart, which is recorded.
LEMMA ModeSteps ==
    ASSUME TypeOK, [Next]_vars, NEW r \in Replicas
    PROVE  /\ r \notin flipped' => r \notin flipped /\ mode'[r] = mode[r]
           /\ mode'[r] = mode[r] \/ pc'[r] = "idle"
<1>1. CASE UNCHANGED <<mode, flipped>>
  BY <1>1
<1>2. ASSUME NEW q \in Replicas, Restart(q)
      PROVE  /\ r \notin flipped' => r \notin flipped /\ mode'[r] = mode[r]
             /\ mode'[r] = mode[r] \/ pc'[r] = "idle"
  <2>1. PICK m \in Modes : mode' = [mode EXCEPT ![q] = m]
    BY <1>2 DEF Restart, TypeOK
  <2>2. flipped' = IF mode' # mode THEN flipped \cup {q} ELSE flipped
    BY <1>2 DEF Restart
  <2>3. q = r => pc'[r] = "idle"
    BY <1>2 DEF Restart, Leave, Procs, TypeOK, ProcTypeOK
  <2>4. q # r => mode'[r] = mode[r]
    BY <2>1 DEF TypeOK
  <2> QED
    BY <2>2, <2>3, <2>4
<1>3. \A s \in Schedules : Elapse(s) \/ UpdateInterval(s) \/ SetActive(s) => UNCHANGED <<mode, flipped>>
  BY DEF Elapse, UpdateInterval, SetActive, history
<1>4. \A q \in Replicas : Scan(q) \/ Proceed(q) \/ Find(q) \/ Insert(q) \/ EnqueueFails(q)
                           => UNCHANGED <<mode, flipped>>
  BY DEF Scan, Proceed, Find, Insert, EnqueueFails, history
<1>5. \A p \in Procs : Execute(p) => UNCHANGED <<mode, flipped>>
  BY DEF Execute, Begin, Reload, Work, Err, Finish, Raise, history
<1>6. \A w \in Workers : Claim(w) \/ SettleRead(w) \/ SettleWrite(w) \/ Crash(w)
                          => UNCHANGED <<mode, flipped>>
  BY DEF Claim, SettleRead, SettleWrite, Crash, history
<1>7. \A q \in Requests : Trigger(q) => UNCHANGED <<mode, flipped>>
  BY DEF Trigger, history
<1>8. \A k \in Keys : Runtime(k) => UNCHANGED <<mode, flipped>>
  BY DEF Runtime, Recover, RecoverWrite, Promote, history
<1>9. UNCHANGED vars => UNCHANGED <<mode, flipped>>
  BY DEF vars, history
<1> QED
  BY <1>1, <1>2, <1>3, <1>4, <1>5, <1>6, <1>7, <1>8, <1>9 DEF Next, Replica, Worker, Procs

\* The mode in a job is written with the job and stays.
LEMMA PayloadStays ==
    ASSUME TypeOK, InsertFresh, [Next]_vars, NEW k \in Keys, status[k] # "none"
    PROVE  payload'[k] = payload[k]
<1>1. CASE UNCHANGED payload
  BY <1>1
<1>2. ASSUME NEW r \in Replicas, Insert(r)
      PROVE  payload'[k] = payload[k]
  <2>1. k # <<cur[r], seen[r], r>>
    BY <1>2 DEF InsertFresh, Insert
  <2> QED
    BY <1>2, <2>1 DEF Insert, jobs, TypeOK, JobTypeOK
<1>3. \A s \in Schedules : Elapse(s) \/ UpdateInterval(s) \/ SetActive(s) => UNCHANGED payload
  BY DEF Elapse, UpdateInterval, SetActive, jobs
<1>4. \A q \in Replicas : Scan(q) \/ Proceed(q) \/ Find(q) \/ EnqueueFails(q) \/ Restart(q)
                           => UNCHANGED payload
  BY DEF Scan, Proceed, Find, EnqueueFails, Restart, jobs
<1>5. \A p \in Procs : Execute(p) => UNCHANGED payload
  BY DEF Execute, Begin, Reload, Work, Err, Finish, Raise, jobs
<1>6. \A w \in Workers : Claim(w) \/ SettleRead(w) \/ SettleWrite(w) \/ Crash(w) => UNCHANGED payload
  BY DEF Claim, SettleRead, SettleWrite, Crash, jobs
<1>7. \A q \in Requests : Trigger(q) => UNCHANGED payload
  BY DEF Trigger, jobs
<1>8. \A l \in Keys : Runtime(l) => UNCHANGED payload
  BY DEF Runtime, Recover, RecoverWrite, Promote, jobs
<1>9. UNCHANGED vars => UNCHANGED payload
  BY DEF vars, jobs
<1> QED
  BY <1>1, <1>2, <1>3, <1>4, <1>5, <1>6, <1>7, <1>8, <1>9 DEF Next, Replica, Worker, Procs

\* Every step keeps a thread on the path of its mode.
LEMMA PathByModeKept == TypeOK /\ PathByMode /\ [Next]_vars => PathByMode'
<1> SUFFICES ASSUME TypeOK, PathByMode, [Next]_vars, NEW r \in Replicas
             PROVE  /\ mode'[r] = "off" => pc'[r] \notin {"find", "insert"}
                    /\ mode'[r] = "queue" => pc'[r] \notin {"loaded"} \cup Executing
  BY DEF PathByMode
<1>1. CASE pc'[r] = "idle"
  BY <1>1 DEF Executing
<1>2. CASE pc'[r] # "idle"
  <2>1. mode'[r] = mode[r] /\ r \in Procs /\ r \notin Workers /\ r \notin Requests
    BY <1>2, ModeSteps, DispatchAssumption DEF Procs
  <2>2. CASE ~Moves(r)
    BY <2>1, <2>2, OnlyOwnMoves DEF Stays, PathByMode
  <2>3. CASE Scan(r) \/ Proceed(r)
    <3>1. pc'[r] = IF mode[r] = "off" THEN "loaded" ELSE "find"
      BY <2>1, <2>3 DEF Scan, Proceed, Dispatch, Take, TypeOK, ProcTypeOK
    <3> QED
      BY <2>1, <3>1 DEF Executing
  <2>4. CASE Find(r) \/ Insert(r) \/ EnqueueFails(r)
    <3>1. pc[r] \in {"find", "insert"}
          /\ (pc'[r] = "insert" \/ (mode[r] # "queue" /\ pc'[r] = "loaded"))
      BY <1>2, <2>1, <2>4 DEF Find, Insert, EnqueueFails, Enqueued, Leave, TypeOK, ProcTypeOK
    <3> QED
      BY <2>1, <3>1 DEF PathByMode, Executing
  <2>5. CASE Begin(r) \/ Reload(r) \/ Work(r) \/ Err(r)
    <3>1. pc[r] \in {"loaded"} \cup Executing /\ pc'[r] \in Executing
      BY <2>1, <2>5 DEF Begin, Reload, Work, Err, Executing, TypeOK, ProcTypeOK
    <3> QED
      BY <2>1, <3>1 DEF PathByMode, Executing
  <2>6. CASE Finish(r) \/ Raise(r) \/ Restart(r)
    BY <1>2, <2>1, <2>6 DEF Finish, Raise, AfterExecute, Restart, Leave, TypeOK, ProcTypeOK
  <2> QED
    BY <2>1, <2>2, <2>3, <2>4, <2>5, <2>6 DEF Moves, Replica, Execute
<1> QED
  BY <1>1, <1>2

\* Every step keeps the modes of the jobs.
LEMMA JobModesKept ==
    ASSUME TypeOK, JobsExist, InsertFresh, PathByMode, JobModes, [Next]_vars
    PROVE  JobModes'
<1> SUFFICES ASSUME NEW k \in Keys, status'[k] # "none"
             PROVE  /\ payload'[k] \in {"shadow", "queue"}
                    /\ k[3] \notin flipped' => payload'[k] = mode'[k[3]]
  BY DEF JobModes
<1>0. k[3] \in Replicas
  BY DEF Keys
<1>1. CASE status[k] # "none"
  BY <1>0, <1>1, PayloadStays, ModeSteps DEF JobModes
<1>2. CASE status[k] = "none"
  <2>1. PICK r \in Replicas : Insert(r)
    BY <1>2, OtherJobSteps
  <2>2. /\ k = <<cur[r], seen[r], r>> /\ pc[r] = "insert"
        /\ payload' = [payload EXCEPT ![k] = mode[r]] /\ UNCHANGED <<mode, flipped>>
    BY <1>2, <2>1 DEF Insert, jobs, history, TypeOK, JobTypeOK
  <2>3. payload'[k] = mode[r] /\ k[3] = r
    BY <2>2 DEF TypeOK, JobTypeOK
  <2>4. mode[r] \in {"shadow", "queue"}
    BY <2>2, DispatchAssumption DEF PathByMode, TypeOK
  <2> QED
    BY <2>2, <2>3, <2>4
<1> QED
  BY <1>1, <1>2

\* Every step keeps the workers to jobs made for the queue.
LEMMA WorkerPathKept ==
    ASSUME TypeOK, JobsExist, InsertFresh, JobModes, WorkerPath, [Next]_vars
    PROVE  WorkerPath'
<1> SUFFICES ASSUME NEW w \in Workers, pc'[w] \in {"loaded"} \cup Executing
             PROVE  payload'[key'[w]] = "queue"
  BY DEF WorkerPath
<1>1. w \in Procs /\ w \notin Replicas /\ w \notin Requests
  BY DispatchAssumption DEF Procs
<1>2. CASE pc[w] \in {"loaded"} \cup Executing /\ key'[w] = key[w]
  <2>1. key[w] \in Keys /\ status[key[w]] # "none"
    BY <1>2 DEF Executing, JobsExist, TypeOK, HeldTypeOK
  <2> QED
    BY <1>2, <2>1, PayloadStays DEF WorkerPath
<1>3. CASE ~Moves(w)
  <2>1. pc'[w] = pc[w] /\ key'[w] = key[w]
    BY <1>1, <1>3, OnlyOwnMoves, OnlyOwnKeys DEF Stays
  <2> QED
    BY <1>2, <2>1
<1>4. CASE Claim(w)
  <2>1. PICK k \in Keys :
           /\ status[k] = "queued" /\ key' = [key EXCEPT ![w] = k]
           /\ Take(w, k[1], k[2], IF payload[k] = "shadow" THEN "settle" ELSE "loaded")
    BY <1>4 DEF Claim
  <2>2. key'[w] = k /\ payload[k] # "shadow"
    BY <1>1, <2>1 DEF Take, Executing, TypeOK, ProcTypeOK, HeldTypeOK
  <2>3. payload[k] = "queue"
    BY <2>1, <2>2 DEF JobModes
  <2> QED
    BY <1>4, <2>2, <2>3 DEF Claim
<1>5. CASE Execute(w)
  BY <1>2, <1>5 DEF Execute, Begin, Reload, Work, Err, Finish, Raise, Executing, held
<1>6. CASE SettleRead(w) \/ SettleWrite(w) \/ Crash(w)
  <2>1. pc'[w] \in {"idle", "write"}
    BY <1>1, <1>6 DEF SettleRead, SettleWrite, Crash, LetGo, Leave, TypeOK, ProcTypeOK
  <2> QED
    BY <2>1 DEF Executing
<1> QED
  BY <1>1, <1>3, <1>4, <1>5, <1>6 DEF Moves, Worker

\* The work of a job changes with the work of a worker only.
LEMMA SentSteps ==
    ASSUME TypeOK, [Next]_vars, NEW k \in Keys, sent'[k] # sent[k]
    PROVE  \E w \in Workers : Work(w) /\ key[w] = k
<1>1. ASSUME NEW w \in Workers, Work(w)
      PROVE  key[w] = k
  BY <1>1 DEF Work, TypeOK, HistoryTypeOK
<1>2. \A p \in Procs \ Workers : Work(p) => UNCHANGED sent
  BY DEF Work
<1>3. \A s \in Schedules : Elapse(s) \/ UpdateInterval(s) \/ SetActive(s) => UNCHANGED sent
  BY DEF Elapse, UpdateInterval, SetActive, history
<1>4. \A q \in Replicas : Scan(q) \/ Proceed(q) \/ Find(q) \/ Insert(q) \/ EnqueueFails(q) \/ Restart(q)
                           => UNCHANGED sent
  BY DEF Scan, Proceed, Find, Insert, EnqueueFails, Restart, history
<1>5. \A p \in Procs : Begin(p) \/ Reload(p) \/ Err(p) \/ Finish(p) \/ Raise(p) => UNCHANGED sent
  BY DEF Begin, Reload, Err, Finish, Raise, history
<1>6. \A w \in Workers : Claim(w) \/ SettleRead(w) \/ SettleWrite(w) \/ Crash(w) => UNCHANGED sent
  BY DEF Claim, SettleRead, SettleWrite, Crash, history
<1>7. \A q \in Requests : Trigger(q) => UNCHANGED sent
  BY DEF Trigger, history
<1>8. \A l \in Keys : Runtime(l) => UNCHANGED sent
  BY DEF Runtime, Recover, RecoverWrite, Promote, history
<1>9. UNCHANGED vars => UNCHANGED sent
  BY DEF vars, history
<1> QED
  BY <1>1, <1>2, <1>3, <1>4, <1>5, <1>6, <1>7, <1>8, <1>9 DEF Next, Replica, Worker, Execute, Procs

\* Every step keeps the paths apart.
LEMMA PathsKept ==
    ASSUME TypeOK, JobsExist, InsertFresh, PathInv, [Next]_vars
    PROVE  PathInv'
<1> USE DEF PathInv
<1>1. PathByMode' /\ JobModes' /\ WorkerPath'
  BY PathByModeKept, JobModesKept, WorkerPathKept
<1>2. SentPath'
  <2> SUFFICES ASSUME NEW k \in Keys, sent'[k] # 0
               PROVE  status'[k] # "none" /\ payload'[k] = "queue"
    BY DEF SentPath
  <2>1. status[k] # "none" /\ payload[k] = "queue"
    <3>1. CASE sent'[k] = sent[k]
      BY <3>1 DEF SentPath
    <3>2. CASE sent'[k] # sent[k]
      <4>1. PICK w \in Workers : Work(w) /\ key[w] = k
        BY <3>2, SentSteps
      <4> QED
        BY <4>1 DEF Work, WorkerPath, JobsExist, Executing
    <3> QED
      BY <3>1, <3>2
  <2> QED
    BY <2>1, JobsStay, PayloadStays
<1>3. DonePath'
  <2> SUFFICES ASSUME NEW s \in Schedules, NEW o \in Occs, NEW r \in Replicas,
                      done'[<<s, o, r>>] # 0, r \notin flipped'
               PROVE  mode'[r] # "queue"
    <3>1. \A k \in Keys : \E s \in Schedules, o \in Occs, r \in Replicas : k = <<s, o, r>> /\ k[3] = r
      BY DEF Keys
    <3> QED
      BY <3>1 DEF DonePath
  <2>1. r \notin flipped /\ mode'[r] = mode[r] /\ <<s, o, r>> \in Keys
    BY ModeSteps DEF Keys
  <2>2. CASE Work(r)
    BY <2>1, <2>2 DEF Work, PathByMode, Executing
  <2>3. CASE ~Work(r)
    <3>1. done[<<s, o, r>>] # 0
      BY <2>3, DoneSteps
    <3> QED
      BY <2>1, <3>1 DEF DonePath
  <2> QED
    BY <2>2, <2>3
<1> QED
  BY <1>1, <1>2, <1>3

\* For any number of replicas and workers, whatever fails, and although a replica may
\* be restarted in another mode while its jobs are open: unless it has been, the work
\* of its occurrence is done by its thread or by its job, not by both.
THEOREM OneWayOnly == Spec => []OnePath
<1> DEFINE Inv == JobsExist /\ InsertFresh /\ PathInv
<1>1. Init => Inv
  <2> SUFFICES ASSUME Init
               PROVE  Inv
    OBVIOUS
  <2>1. InsertFresh /\ PathByMode /\ WorkerPath
    BY DEF Init, InsertFresh, PathByMode, WorkerPath, Procs, Executing
  <2>2. JobModes /\ SentPath /\ DonePath
    BY DEF Init, JobModes, SentPath, DonePath
  <2> QED
    BY <2>1, <2>2, InitJobsExist DEF PathInv
<1>2. TypeOK /\ Inv /\ [Next]_vars => Inv'
  BY JobsExistKept, InsertFreshKept, PathsKept
<1>3. TypeOK /\ Inv => OnePath
  <2> SUFFICES ASSUME TypeOK, Inv, NEW k \in Keys, done[k] > 0, sent[k] > 0, k[3] \notin flipped
               PROVE  FALSE
    BY DEF OnePath
  <2>1. done[k] # 0 /\ sent[k] # 0
    BY DEF TypeOK, HistoryTypeOK
  <2> QED
    BY <2>1 DEF PathInv, JobModes, SentPath, DonePath
<1> QED
  BY <1>1, <1>2, <1>3, DispatchTypeCorrect, PTL DEF Spec

=============================================================================
