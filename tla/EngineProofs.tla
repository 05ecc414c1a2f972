---------------------------- MODULE EngineProofs ----------------------------
(***************************************************************************)
(* What the job manager of the compute engine guarantees for any number of *)
(* jobs, permits, shutdowns, crashes, panics and lost writes.              *)
(***************************************************************************)
EXTENDS EngineJobs, FiniteSetTheorems, TLAPS

Held == {j \in Jobs : HasPermit(j)}

-----------------------------------------------------------------------------
(* Types *)

\* A statement on a row leaves a status in it.
LEMMA WriteRowType ==
    ASSUME TypeOK, NEW j \in Jobs, NEW written \in [Jobs -> Statuses], WriteRow(j, written)
    PROVE  /\ row' \in {row, written}
           /\ row' \in [Jobs -> Statuses]
           /\ lost' \in {lost, lost \cup {j}}
           /\ lost' \subseteq Jobs
           /\ faults' \in Nat
           /\ j \notin lost' => row' = written /\ lost' = lost
BY EngineAssumption DEF WriteRow, TypeOK

LEMMA InitEngineType == Init => TypeOK
BY EngineAssumption DEF Init, TypeOK, Statuses, HasPermit

\* Every step of the client, the engine and its tasks keeps the types.
LEMMA NextEngineType == TypeOK /\ [Next]_vars => TypeOK'
<1> SUFFICES ASSUME TypeOK, [Next]_vars
             PROVE  TypeOK'
  OBVIOUS
<1> USE EngineAssumption
<1>1. ASSUME NEW j \in Jobs, Submit(j) \/ Timeout(j) \/ Fallback(j) \/ Poll(j)
      PROVE  TypeOK'
  BY <1>1 DEF TypeOK, HasPermit, Submit, Timeout, Fallback, Poll, tables, ghosts, bounds
<1>2. ASSUME NEW j \in Jobs, Accept(j) \/ Refuse(j) \/ Cancel(j)
      PROVE  TypeOK'
  BY <1>2 DEF TypeOK, HasPermit, Accept, Refuse, Cancel, tables, ghosts, bounds, Statuses, Active
<1>3. ASSUME NEW j \in Jobs, Create(j)
      PROVE  TypeOK'
  <2>1. [row EXCEPT ![j] = "queued"] \in [Jobs -> Statuses]
    BY DEF TypeOK, Statuses, Active
  <2>2. /\ row' \in [Jobs -> Statuses] /\ lost' \subseteq Jobs /\ faults' \in Nat
    BY <1>3, <2>1, WriteRowType DEF Create
  <2> QED
    BY <1>3, <2>2 DEF TypeOK, HasPermit, Create, Statuses, Active
<1>4. ASSUME NEW j \in Jobs, Start(j)
      PROVE  TypeOK'
  <2>1. [row EXCEPT ![j] = IF @ = "none" THEN @ ELSE "running"] \in [Jobs -> Statuses]
    BY DEF TypeOK, Statuses, Active
  <2>2. /\ row' \in [Jobs -> Statuses] /\ lost' \subseteq Jobs /\ faults' \in Nat
    BY <1>4, <2>1, WriteRowType DEF Start
  <2> QED
    BY <1>4, <2>2 DEF TypeOK, HasPermit, Start, Statuses, Active
<1>5. ASSUME NEW j \in Jobs, Work(j) \/ Panic(j)
      PROVE  TypeOK'
  BY <1>5 DEF TypeOK, HasPermit, Work, Panic, tables, ghosts, bounds
<1>6. ASSUME NEW j \in Jobs, SettleRow(j)
      PROVE  TypeOK'
  <2>1. [row EXCEPT ![j] = IF @ = "none" THEN @ ELSE outcome[j]] \in [Jobs -> Statuses]
    BY DEF TypeOK, Statuses
  <2>2. /\ row' \in [Jobs -> Statuses] /\ lost' \subseteq Jobs /\ faults' \in Nat
    BY <1>6, <2>1, WriteRowType DEF SettleRow
  <2> QED
    BY <1>6, <2>2 DEF TypeOK, HasPermit, SettleRow
<1>7. ASSUME NEW j \in Jobs, SettleMem(j) \/ Evict(j)
      PROVE  TypeOK'
  BY <1>7 DEF TypeOK, HasPermit, SettleMem, Evict, tables, ghosts, bounds, Statuses
<1>8. CASE Tick \/ Shutdown \/ FailMem \/ FailRows
  BY <1>8 DEF TypeOK, HasPermit, Tick, Shutdown, FailMem, FailRows, vars, tables, ghosts, bounds,
              Statuses, Active, Ended
<1>9. CASE Exit \/ Crash \/ Restart
  BY <1>9 DEF TypeOK, HasPermit, Exit, Crash, Gone, Restart, tables, ghosts, bounds,
              Statuses, Active, Ended
<1>10. CASE UNCHANGED vars
  BY <1>10 DEF TypeOK, HasPermit, vars, tables, ghosts, bounds
<1> QED
  BY <1>1, <1>2, <1>3, <1>4, <1>5, <1>6, <1>7, <1>8, <1>9, <1>10 DEF Next, Task

\* A job of the engine always has a status in memory, in its row and in its task that the
\* job manager knows, and nothing of a job outlives the process but its row.
THEOREM EngineTypeCorrect == Spec => []TypeOK
<1> QED
  BY InitEngineType, NextEngineType, PTL DEF Spec

-----------------------------------------------------------------------------
(* Permits *)

\* The jobs that hold a permit are finitely many.
LEMMA HeldFinite == IsFiniteSet(Held) /\ Cardinality(Held) \in Nat
<1>1. Held \subseteq Jobs
  BY DEF Held
<1>2. IsFiniteSet(Held)
  BY <1>1, FS_Subset, EngineAssumption
<1> QED
  BY <1>2, FS_CardinalityType

\* A job that acquires a permit adds one to those that are held.
LEMMA Acquires ==
    ASSUME NEW j \in Jobs, ~HasPermit(j), HasPermit(j)',
           \A k \in Jobs \ {j} : HasPermit(k)' <=> HasPermit(k)
    PROVE  Cardinality(Held)' = Cardinality(Held) + 1
<1>1. Held' = Held \cup {j} /\ j \notin Held
  BY DEF Held
<1> QED
  BY <1>1, HeldFinite, FS_AddElement

\* A job that drops its permit takes one off.
LEMMA Releases ==
    ASSUME NEW j \in Jobs, HasPermit(j), ~HasPermit(j)',
           \A k \in Jobs \ {j} : HasPermit(k)' <=> HasPermit(k)
    PROVE  Cardinality(Held)' = Cardinality(Held) - 1
<1>1. Held' = Held \ {j} /\ j \in Held
  BY DEF Held
<1> QED
  BY <1>1, HeldFinite, FS_RemoveElement

\* Where nobody acquires or drops one, as many are held.
LEMMA Keeps ==
    ASSUME \A k \in Jobs : HasPermit(k)' <=> HasPermit(k)
    PROVE  Cardinality(Held)' = Cardinality(Held)
<1>1. Held' = Held
  BY DEF Held
<1> QED
  BY <1>1

Balance == engine # "down" => permits + Cardinality(Held) = MaxConcurrent

LEMMA BalanceIsPermitsBalance == Balance <=> PermitsBalance
BY DEF Balance, PermitsBalance, Held

LEMMA InitBalance == Init => Balance
<1> SUFFICES ASSUME Init
             PROVE  Balance
  OBVIOUS
<1>1. Held = {}
  BY DEF Init, Held, HasPermit
<1>2. Cardinality(Held) = 0
  BY <1>1, FS_EmptySet
<1> QED
  BY <1>2, EngineAssumption DEF Init, Balance

\* The free and the held permits change together, by one, or not at all, while the engine
\* runs; a new process starts with all of them and no task.
LEMMA NextBalance == TypeOK /\ Balance /\ [Next]_vars => Balance'
<1> SUFFICES ASSUME TypeOK, Balance, [Next]_vars
             PROVE  Balance'
  OBVIOUS
<1> USE EngineAssumption, HeldFinite
<1>1. ASSUME engine' = engine, permits' = permits,
             \A k \in Jobs : HasPermit(k)' <=> HasPermit(k)
      PROVE  Balance'
  BY <1>1, Keeps DEF Balance
<1>2. ASSUME NEW j \in Jobs, Submit(j) \/ Timeout(j) \/ Fallback(j) \/ Poll(j) \/ Refuse(j) \/ Evict(j)
      PROVE  Balance'
  BY <1>1, <1>2 DEF Submit, Timeout, Fallback, Poll, Refuse, Evict, HasPermit
<1>3. ASSUME NEW j \in Jobs, Create(j) \/ Start(j) \/ Work(j) \/ SettleRow(j)
      PROVE  Balance'
  BY <1>1, <1>3 DEF Create, Start, Work, SettleRow, HasPermit, TypeOK
<1>4. ASSUME NEW j \in Jobs, Accept(j)
      PROVE  Balance'
  <2>1. Cardinality(Held)' = Cardinality(Held) + 1
    BY <1>4, Acquires DEF Accept, HasPermit, TypeOK
  <2> QED
    BY <1>4, <2>1 DEF Accept, Balance, TypeOK
<1>5. ASSUME NEW j \in Jobs, Cancel(j) \/ Panic(j) \/ SettleMem(j)
      PROVE  Balance'
  <2>1. Cardinality(Held)' = Cardinality(Held) - 1
    BY <1>5, Releases DEF Cancel, Panic, SettleMem, HasPermit, TypeOK
  <2>2. permits' = permits + 1 /\ engine' = engine
    BY <1>5 DEF Cancel, Panic, SettleMem
  <2> QED
    BY <2>1, <2>2 DEF Balance, TypeOK
<1>6. CASE Tick \/ UNCHANGED vars
  BY <1>1, <1>6 DEF Tick, vars, HasPermit
<1>7. CASE Shutdown \/ FailMem \/ FailRows
  <2>1. Cardinality(Held)' = Cardinality(Held)
    BY <1>7, Keeps DEF Shutdown, FailMem, FailRows, HasPermit
  <2> QED
    BY <1>7, <2>1 DEF Shutdown, FailMem, FailRows, Balance
<1>8. CASE Exit \/ Crash
  BY <1>8 DEF Exit, Crash, Gone, Balance
<1>9. CASE Restart
  <2>1. Held' = {}
    BY <1>9 DEF Restart, Held, HasPermit, TypeOK
  <2>2. Cardinality(Held)' = 0
    BY <2>1, FS_EmptySet
  <2> QED
    BY <1>9, <2>2 DEF Restart, Balance
<1> QED
  BY <1>2, <1>3, <1>4, <1>5, <1>6, <1>7, <1>8, <1>9 DEF Next, Task

\* Permits are neither lost nor dropped twice, for any number of jobs and permits and any
\* sequence of faults: the free ones and the held ones are always MaxConcurrent together.
THEOREM PermitsStayBalanced == Spec => []PermitsBalance
<1>1. Init => TypeOK /\ Balance
  BY InitEngineType, InitBalance
<1>2. TypeOK /\ Balance /\ [Next]_vars => (TypeOK /\ Balance)'
  BY NextEngineType, NextBalance
<1> QED
  BY <1>1, <1>2, BalanceIsPermitsBalance, PTL DEF Spec

-----------------------------------------------------------------------------
(* One materialization, unless the client has gone *)

\* What the engine works on was accepted by it, and Python works on what it was refused or
\* what got no answer.
LateInv ==
    \A j \in Jobs :
        /\ client[j] = "refused" => task[j] = "none"
        /\ j \in worked => task[j] \in {"row", "mem", "end"}
        /\ j \in python => client[j] \in {"refused", "gone"}

LEMMA InitLate == Init => LateInv
BY DEF Init, LateInv

LEMMA NextLate == TypeOK /\ LateInv /\ [Next]_vars => LateInv'
<1> SUFFICES ASSUME TypeOK, LateInv, [Next]_vars
             PROVE  LateInv'
  OBVIOUS
<1> USE DEF TypeOK, LateInv
<1>1. ASSUME NEW j \in Jobs, Submit(j) \/ Timeout(j) \/ Fallback(j) \/ Poll(j)
      PROVE  LateInv'
  BY <1>1 DEF Submit, Timeout, Fallback, Poll
<1>2. ASSUME NEW j \in Jobs, Accept(j) \/ Refuse(j) \/ Cancel(j)
      PROVE  LateInv'
  BY <1>2 DEF Accept, Refuse, Cancel
<1>3. ASSUME NEW j \in Jobs, Task(j)
      PROVE  LateInv'
  BY <1>3 DEF Task, Create, Start, Work, SettleRow, SettleMem
<1>4. ASSUME NEW j \in Jobs, Panic(j) \/ Evict(j)
      PROVE  LateInv'
  BY <1>4 DEF Panic, Evict
<1>5. CASE Tick \/ Shutdown \/ FailMem \/ FailRows \/ Restart \/ UNCHANGED vars
  BY <1>5 DEF Tick, Shutdown, FailMem, FailRows, Restart, vars
<1>6. CASE Exit \/ Crash
  BY <1>6 DEF Exit, Crash, Gone
<1> QED
  BY <1>1, <1>2, <1>3, <1>4, <1>5, <1>6 DEF Next

\* A refusal is definite, and an answer is never taken back: only a client that stopped
\* waiting may materialize a batch the engine materializes as well.
THEOREM FallbackOnlyLate == Spec => []TwiceOnlyLate
<1>1. Init => TypeOK /\ LateInv
  BY InitEngineType, InitLate
<1>2. TypeOK /\ LateInv /\ [Next]_vars => (TypeOK /\ LateInv)'
  BY NextEngineType, NextLate
<1>3. TypeOK /\ LateInv => TwiceOnlyLate
  BY DEF TypeOK, LateInv, TwiceOnlyLate
<1> QED
  BY <1>1, <1>2, <1>3, PTL DEF Spec

-----------------------------------------------------------------------------
(* Answers are final *)

\* Memory, row and task of a job agree: a job without a task is nowhere; while the engine
\* serves, a task at work shows in memory as active; and the row has what the task has
\* written, unless a write was lost.
Agree(j) ==
    /\ task[j] \in {"none", "create"} => mem[j] = "none" /\ row[j] = "none"
    /\ (engine = "up" /\ task[j] \in {"start", "run", "row", "mem"}) => mem[j] \in Active
    /\ task[j] \in {"row", "mem"} => outcome[j] \in Ended
    /\ j \notin lost =>
          /\ task[j] \in {"start", "run", "row", "mem"} => row[j] # "none"
          /\ task[j] = "mem" => row[j] = outcome[j]
          /\ (engine = "up" /\ mem[j] \in Ended) => row[j] = mem[j]

\* An answer was given after the last write of the task, and is in the row.
Told(j) ==
    (told[j] # "none" /\ j \notin lost) =>
        task[j] = "end" /\ row[j] = told[j] /\ mem[j] \in {"none", told[j]}

ToldInv == \A j \in Jobs : Agree(j) /\ Told(j)

LEMMA InitTold == Init => ToldInv
BY DEF Init, ToldInv, Agree, Told, Ended, Active

LEMMA NextTold == TypeOK /\ ToldInv /\ [Next]_vars => ToldInv'
<1> SUFFICES ASSUME TypeOK, ToldInv, [Next]_vars, NEW k \in Jobs
             PROVE  Agree(k)' /\ Told(k)'
  BY DEF ToldInv
<1> Agree(k) /\ Told(k)
  BY DEF ToldInv
<1> USE DEF TypeOK, Agree, Told, Statuses, Active, Ended
<1>1. ASSUME NEW j \in Jobs, Submit(j) \/ Timeout(j) \/ Fallback(j) \/ Refuse(j)
      PROVE  Agree(k)' /\ Told(k)'
  BY <1>1 DEF Submit, Timeout, Fallback, Refuse, tables, ghosts, bounds
<1>2. ASSUME NEW j \in Jobs, Poll(j)
      PROVE  Agree(k)' /\ Told(k)'
  BY <1>2 DEF Poll, View, tables, ghosts, bounds
<1>3. ASSUME NEW j \in Jobs, Accept(j) \/ Cancel(j) \/ Panic(j) \/ Evict(j)
      PROVE  Agree(k)' /\ Told(k)'
  BY <1>3 DEF Accept, Cancel, Panic, Evict, tables, ghosts, bounds
<1>4. ASSUME NEW j \in Jobs, Create(j)
      PROVE  Agree(k)' /\ Told(k)'
  BY <1>4 DEF Create, WriteRow
<1>5. ASSUME NEW j \in Jobs, Start(j)
      PROVE  Agree(k)' /\ Told(k)'
  BY <1>5 DEF Start, WriteRow
<1>6. ASSUME NEW j \in Jobs, Work(j) \/ SettleMem(j)
      PROVE  Agree(k)' /\ Told(k)'
  BY <1>6 DEF Work, SettleMem, tables, ghosts, bounds
<1>7. ASSUME NEW j \in Jobs, SettleRow(j)
      PROVE  Agree(k)' /\ Told(k)'
  BY <1>7 DEF SettleRow, WriteRow
<1>8. CASE Tick \/ Shutdown \/ FailMem \/ FailRows \/ UNCHANGED vars
  BY <1>8 DEF Tick, Shutdown, FailMem, FailRows, vars, tables, ghosts, bounds
<1>9. CASE Exit \/ Crash
  BY <1>9 DEF Exit, Crash, Gone, tables, ghosts, bounds
<1>10. CASE Restart
  BY <1>10 DEF Restart, HasPermit, tables, ghosts, bounds
<1> QED
  BY <1>1, <1>2, <1>3, <1>4, <1>5, <1>6, <1>7, <1>8, <1>9, <1>10 DEF Next, Task

\* A client that was told how its job ended is told the same by every later process, from
\* memory or from the row, for any number of jobs and any shutdowns and crashes, as long as
\* no write to the row was lost.
THEOREM AnswersAreFinal == Spec => []ToldIsFinal
<1>1. Init => TypeOK /\ ToldInv
  BY InitEngineType, InitTold
<1>2. TypeOK /\ ToldInv /\ [Next]_vars => (TypeOK /\ ToldInv)'
  BY NextEngineType, NextTold
<1>3. ToldInv => ToldIsFinal
  BY DEF ToldInv, Told, ToldIsFinal, View
<1> QED
  BY <1>1, <1>2, <1>3, PTL DEF Spec

=============================================================================
