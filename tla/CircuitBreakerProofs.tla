------------------------ MODULE CircuitBreakerProofs ------------------------
(***************************************************************************)
(* What the circuit breaker guarantees for any number of threads, any      *)
(* threshold and any recovery timeout.                                     *)
(***************************************************************************)
EXTENDS CircuitBreaker, TLAPS

\* The count saturates at the threshold.
LEMMA LeastType ==
    ASSUME NEW n \in 0..Threshold
    PROVE  /\ Least(n + 1, Threshold) \in 0..Threshold
           /\ n = Threshold => Least(n + 1, Threshold) = Threshold
BY BreakerAssumption DEF Least

\* A new circuit is closed and has counted nothing.
LEMMA InitBreaker == Init => TypeOK /\ TrippedCountsFull /\ ClosedBelowThreshold
BY BreakerAssumption DEF Init, TypeOK, CircuitState, TrippedCountsFull, ClosedBelowThreshold

\* What the steps under the lock rely on, and re-establish, together.
BreakerInv == TypeOK /\ TrippedCountsFull /\ ClosedBelowThreshold

\* Every step keeps the count in line with the state: a trip needs a full count, a
\* half-open circuit keeps it, and only closing clears it.
LEMMA NextBreaker == BreakerInv /\ [Next]_vars => BreakerInv'
<1> SUFFICES ASSUME BreakerInv, [Next]_vars
             PROVE  BreakerInv'
  OBVIOUS
<1> USE BreakerAssumption
<1> USE DEF BreakerInv, TypeOK, CircuitState, TrippedCountsFull, ClosedBelowThreshold
<1>1. CurrentState \in CircuitState /\ (CurrentState = "CLOSED" <=> state = "CLOSED")
  BY DEF CurrentState
<1>2. CASE ReadState
  BY <1>1, <1>2 DEF ReadState
<1>3. CASE Reset
  BY <1>3 DEF Reset
<1>4. CASE ProviderChanges
  BY <1>4 DEF ProviderChanges
<1>5. CASE Tick
  BY <1>5 DEF Tick
<1>6. ASSUME NEW c \in Callers, Start(c)
      PROVE  BreakerInv'
  <2>1. CurrentState \in {"none", "CLOSED", "HALF_OPEN"}
    BY <1>1, <1>6 DEF Start
  <2>2. raised \in SUBSET {d \in Callers : admitted'[d] # "none"}
    BY <1>1, <1>6 DEF Start
  <2> QED
    BY <1>1, <1>6, <2>1, <2>2 DEF Start
<1>7. ASSUME NEW c \in Callers, Raise(c)
      PROVE  BreakerInv'
  BY <1>7 DEF Raise
<1>8. ASSUME NEW c \in Callers, RecordFailure(c)
      PROVE  BreakerInv'
  BY <1>8, LeastType DEF RecordFailure
<1>9. ASSUME NEW c \in Callers, RecordSuccess(c)
      PROVE  BreakerInv'
  BY <1>9 DEF RecordSuccess
<1>10. CASE UNCHANGED vars
  BY <1>10 DEF vars
<1> QED
  BY <1>2, <1>3, <1>4, <1>5, <1>6, <1>7, <1>8, <1>9, <1>10 DEF Next

\* The state of the breaker is always one the lock's critical sections expect.
THEOREM BreakerTypeCorrect == Spec => []TypeOK
<1>1. Init => BreakerInv
  BY InitBreaker DEF BreakerInv
<1>2. BreakerInv => TypeOK
  BY DEF BreakerInv
<1> QED
  BY <1>1, <1>2, NextBreaker, PTL DEF Spec

\* However many threads record their outcomes and however late: a circuit that is
\* not closed has a full count, and a closed one a failure to spare.
THEOREM CountFollowsState == Spec => [](TrippedCountsFull /\ ClosedBelowThreshold)
<1>1. Init => BreakerInv
  BY InitBreaker DEF BreakerInv
<1>2. BreakerInv => TrippedCountsFull /\ ClosedBelowThreshold
  BY DEF BreakerInv
<1> QED
  BY <1>1, <1>2, NextBreaker, PTL DEF Spec

\* One failed probe is enough: a failure recorded while the circuit is not closed
\* leaves it OPEN with the whole recovery timeout ahead.
THEOREM FailedProbeReopens == Spec => FailureReopens
<1>1. Init => BreakerInv
  BY InitBreaker DEF BreakerInv
<1>2. BreakerInv /\ [Next]_vars =>
        [\A c \in Callers : RecordFailure(c) /\ state # "CLOSED"
            => state' = "OPEN" /\ since' = 0]_vars
  <2> SUFFICES ASSUME BreakerInv, NEW c \in Callers, RecordFailure(c), state # "CLOSED"
               PROVE  state' = "OPEN" /\ since' = 0
    OBVIOUS
  <2>1. failures = Threshold
    BY DEF BreakerInv, TrippedCountsFull
  <2>2. Least(failures + 1, Threshold) = Threshold
    BY <2>1, BreakerAssumption DEF Least
  <2> QED
    BY <2>2, BreakerAssumption DEF RecordFailure, BreakerInv, TypeOK, CircuitState
<1> QED
  BY <1>1, <1>2, NextBreaker, PTL DEF Spec, FailureReopens

=============================================================================
