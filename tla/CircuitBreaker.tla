--------------------------- MODULE CircuitBreaker ---------------------------
(***************************************************************************)
(* The circuit breaker around an external provider                         *)
(* (backend/circuit_breaker.py), shared by the threads of one process.     *)
(*                                                                         *)
(* call() takes the lock to decide whether the call may start, runs the    *)
(* function outside the lock, and takes it again to record the outcome:    *)
(* two steps per call, between which the provider answers or raises, other *)
(* threads start and end their calls and an operator may reset the circuit.*)
(*                                                                         *)
(* The failure count is only ever compared with the threshold, so it       *)
(* saturates there; the counters and times kept for display are left out.  *)
(***************************************************************************)
EXTENDS Integers

CONSTANTS
    Callers,            \* threads that share the breaker
    Threshold,          \* failure_threshold
    RecoveryTicks       \* recovery_timeout

ASSUME BreakerAssumption ==
    /\ Threshold \in Nat \ {0}
    /\ RecoveryTicks \in Nat

VARIABLES
    state,              \* _state
    failures,           \* _failure_count, up to Threshold
    since,              \* time since _last_failure_time, up to RecoveryTicks
    admitted,           \* admitted[c]: the state in which c's call started, or "none"
    raised,             \* the calls whose function has raised, not yet recorded
    healthy             \* whether the provider answers

vars == <<state, failures, since, admitted, raised, healthy>>

CircuitState == {"CLOSED", "OPEN", "HALF_OPEN"}

Least(a, b) == IF a <= b THEN a ELSE b

Init ==
    /\ state = "CLOSED"
    /\ failures = 0
    /\ since = RecoveryTicks
    /\ admitted = [c \in Callers |-> "none"]
    /\ raised = {}
    /\ healthy = TRUE

-----------------------------------------------------------------------------
(* _current_state: an OPEN circuit whose cool-down is over becomes HALF_OPEN *)

\* Mutant: the circuit never cools down
CurrentStateStuck == state

CurrentState ==
    IF state = "OPEN" /\ since >= RecoveryTicks THEN "HALF_OPEN" ELSE state

-----------------------------------------------------------------------------
(* Steps under the lock *)

\* The state property: reading the state moves it
ReadState ==
    /\ state' = CurrentState
    /\ UNCHANGED <<failures, since, admitted, raised, healthy>>

\* Mutant: an OPEN circuit lets the call through
StartAnyway(c) ==
    /\ admitted[c] = "none"
    /\ state' = CurrentState
    /\ admitted' = [admitted EXCEPT ![c] = CurrentState]
    /\ UNCHANGED <<failures, since, raised, healthy>>

\* call(), first part: admitted unless the circuit is OPEN
Start(c) ==
    /\ admitted[c] = "none"
    /\ CurrentState # "OPEN"
    /\ state' = CurrentState
    /\ admitted' = [admitted EXCEPT ![c] = CurrentState]
    /\ UNCHANGED <<failures, since, raised, healthy>>

\* The function raises, outside the lock: only a provider that is down makes it
Raise(c) ==
    /\ admitted[c] # "none"
    /\ c \notin raised
    /\ ~healthy
    /\ raised' = raised \cup {c}
    /\ UNCHANGED <<state, failures, since, admitted, healthy>>

\* Mutant: a trip forgets the failures
RecordFailureForgets(c) ==
    LET count == Least(failures + 1, Threshold) IN
    /\ c \in raised
    /\ raised' = raised \ {c}
    /\ since' = 0
    /\ IF state \in {"CLOSED", "HALF_OPEN"} /\ count >= Threshold
       THEN state' = "OPEN" /\ failures' = 0
       ELSE failures' = count /\ UNCHANGED state
    /\ admitted' = [admitted EXCEPT ![c] = "none"]
    /\ UNCHANGED healthy

\* The function raised: _record_failure
RecordFailure(c) ==
    LET count == Least(failures + 1, Threshold) IN
    /\ c \in raised
    /\ raised' = raised \ {c}
    /\ failures' = count
    /\ since' = 0
    /\ state' = IF state \in {"CLOSED", "HALF_OPEN"} /\ count >= Threshold THEN "OPEN" ELSE state
    /\ admitted' = [admitted EXCEPT ![c] = "none"]
    /\ UNCHANGED healthy

\* Mutant: the counter is not reset
RecordSuccessCounting(c) ==
    /\ admitted[c] # "none"
    /\ c \notin raised
    /\ state' = "CLOSED"
    /\ admitted' = [admitted EXCEPT ![c] = "none"]
    /\ UNCHANGED <<failures, since, raised, healthy>>

\* The function returned: _record_success closes the circuit whatever its state
RecordSuccess(c) ==
    /\ admitted[c] # "none"
    /\ c \notin raised
    /\ state' = "CLOSED"
    /\ failures' = 0
    /\ admitted' = [admitted EXCEPT ![c] = "none"]
    /\ UNCHANGED <<since, raised, healthy>>

\* reset(): _last_failure_time goes back to 0, long ago
Reset ==
    /\ state' = "CLOSED"
    /\ failures' = 0
    /\ since' = RecoveryTicks
    /\ UNCHANGED <<admitted, raised, healthy>>

-----------------------------------------------------------------------------
(* The environment *)

\* The provider goes down or comes back
ProviderChanges ==
    /\ healthy' = ~healthy
    /\ UNCHANGED <<state, failures, since, admitted, raised>>

Tick ==
    /\ since < RecoveryTicks
    /\ since' = since + 1
    /\ UNCHANGED <<state, failures, admitted, raised, healthy>>

Next ==
    \/ ReadState \/ Reset \/ ProviderChanges \/ Tick
    \/ \E c \in Callers : Start(c) \/ Raise(c) \/ RecordFailure(c) \/ RecordSuccess(c)

Spec == Init /\ [][Next]_vars

\* Callers keep calling (the worker polls), every call ends and time passes.  Nobody
\* is obliged to reset the circuit or to read its state.
Fairness ==
    /\ \A c \in Callers : WF_vars(Start(c)) /\ WF_vars(RecordFailure(c) \/ RecordSuccess(c))
    /\ WF_vars(Tick)

FairSpec == Spec /\ Fairness

-----------------------------------------------------------------------------
(* Properties *)

\* Every variable has its type; only a call that was let through can have raised.
TypeOK ==
    /\ state \in CircuitState
    /\ failures \in 0..Threshold
    /\ since \in 0..RecoveryTicks
    /\ admitted \in [Callers -> {"none", "CLOSED", "HALF_OPEN"}]
    /\ raised \in SUBSET {c \in Callers : admitted[c] # "none"}
    /\ healthy \in BOOLEAN

\* A circuit that is not closed remembers a full count of failures.  _record_failure
\* relies on it: it compares the count with the threshold in HALF_OPEN too.
TrippedCountsFull == state # "CLOSED" => failures = Threshold

\* A failure recorded while the circuit is not closed leaves it OPEN with a full
\* cool-down ahead: one failed probe is enough to reopen, whatever else the other
\* threads have recorded in between.
FailureReopens ==
    [][\A c \in Callers : RecordFailure(c) /\ state # "CLOSED"
          => state' = "OPEN" /\ since' = 0]_vars

\* A closed circuit always has a failure to spare: however late failures and
\* successes of calls from before and after a trip are recorded, its count is below
\* the threshold, so it never needs more than Threshold failures to trip.
ClosedBelowThreshold == state = "CLOSED" => failures < Threshold

\* "System self-heals ... no manual intervention" (ADR-004): once the provider stays
\* up the circuit ends up closed for good, whatever was in flight.
SelfHeals == <>[]healthy => <>[](state = "CLOSED")

\* "One probe request is allowed" (module docstring, ADR-004).
OneProbe ==
    \A c, d \in Callers : admitted[c] = "HALF_OPEN" /\ admitted[d] = "HALF_OPEN" => c = d

\* "Reject all calls immediately for a recovery period" (ADR-004): a circuit that is
\* cooling down closes by a manual reset only.
CoolsDown ==
    [][state = "OPEN" /\ since < RecoveryTicks /\ state' = "CLOSED" => Reset]_vars

=============================================================================
