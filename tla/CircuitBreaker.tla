--------------------------- MODULE CircuitBreaker ---------------------------
(***************************************************************************)
(* The circuit breaker of pkg/resilience/resilience.go, used by concurrent   *)
(* clients.  A client asks Allow, runs its request, and reports the result.   *)
(* Each method is one critical section, but between Allow and the report the *)
(* breaker may have changed state any number of times, and a report is not   *)
(* tied to the state in which its request was permitted.                    *)
(* (Names that every specification has carry the prefix Breaker, so that     *)
(* AuditAndBreakerProofs can extend this module and AuditLog.)                *)
(***************************************************************************)
EXTENDS Integers

CONSTANTS
    Client,             \* requests that may be in flight together
    FailureThreshold,   \* the failureThreshold arguments that occur
    SuccessThreshold,   \* the successThreshold arguments that occur
    ResetTimeout        \* resetTimeout, in clock units

ASSUME BreakerAssumption ==
    /\ FailureThreshold \subseteq Int
    /\ SuccessThreshold \subseteq Int
    /\ ResetTimeout \in Nat

VARIABLES
    failureThreshold,
    successThreshold,
    state,          \* cb.state
    failureCount,
    successCount,
    since,          \* time.Since(lastFailureTime); beyond ResetTimeout it makes no difference
    pending         \* the clients whose request was permitted and is not reported yet

\* History, which the code does not keep.
VARIABLES
    streak,         \* failures reported since the last success, up to the threshold
    trial           \* successes reported since the breaker last became half-open

limits      == <<failureThreshold, successThreshold>>
breakerVars == <<limits, state, failureCount, successCount, since, pending, streak, trial>>

BreakerTypeOK ==
    /\ failureThreshold \in FailureThreshold
    /\ successThreshold \in SuccessThreshold
    /\ state \in {"closed", "open", "half-open"}
    /\ failureCount \in Nat
    /\ successCount \in Nat
    /\ since \in 0 .. ResetTimeout
    /\ pending \subseteq Client
    /\ streak \in Nat
    /\ trial \in Nat

\* NewCircuitBreaker.  The zero lastFailureTime is longer ago than any timeout.
BreakerInit ==
    /\ failureThreshold \in FailureThreshold
    /\ successThreshold \in SuccessThreshold
    /\ state = "closed"
    /\ failureCount = 0
    /\ successCount = 0
    /\ since = ResetTimeout
    /\ pending = {}
    /\ streak = 0
    /\ trial = 0

\* "A failureThreshold of 0 disables the circuit breaker (always allows)."
Disabled == failureThreshold <= 0

(***************************************************************************)
(* Allow.  A refusal (open, and the timeout not over) changes nothing.      *)
(***************************************************************************)
Permit(c) ==
    /\ c \notin pending
    /\ pending' = pending \cup {c}

AllowThrough(c) ==
    /\ Permit(c)
    /\ Disabled \/ state # "open"
    /\ UNCHANGED <<limits, state, failureCount, successCount, since, streak, trial>>

\* (Some definitions are preceded by a variant that a slip in the code would give;
\* PROJECT.json pairs each with the property that tells the two apart.)

\* The first request after the timeout makes the breaker half-open.
KeepsCounters(c) ==
    /\ Permit(c)
    /\ ~Disabled /\ state = "open" /\ since >= ResetTimeout
    /\ state' = "half-open"
    /\ trial' = 0
    /\ UNCHANGED <<limits, failureCount, successCount, since, streak>>
RefusalRestartsTimer(c) ==
    /\ ~Disabled /\ state = "open"
    /\ \/ /\ Permit(c)
          /\ since >= ResetTimeout
          /\ state' = "half-open"
          /\ failureCount' = 0 /\ successCount' = 0 /\ trial' = 0
          /\ UNCHANGED since
       \/ /\ since < ResetTimeout
          /\ since' = 0
          /\ UNCHANGED <<state, failureCount, successCount, pending, trial>>
    /\ UNCHANGED <<limits, streak>>
AllowTrial(c) ==
    /\ Permit(c)
    /\ ~Disabled /\ state = "open" /\ since >= ResetTimeout
    /\ state' = "half-open"
    /\ failureCount' = 0
    /\ successCount' = 0
    /\ trial' = 0
    /\ UNCHANGED <<limits, since, streak>>

(***************************************************************************)
(* RecordSuccess and RecordFailure.                                        *)
(***************************************************************************)
Report(c) ==
    /\ c \in pending
    /\ pending' = pending \ {c}

\* The breaker is disabled: nothing is counted.
RecordNothing(c) ==
    /\ Report(c)
    /\ Disabled
    /\ UNCHANGED <<limits, state, failureCount, successCount, since, streak, trial>>

ForgetsReset(c) ==
    /\ Report(c)
    /\ ~Disabled
    /\ failureCount' = failureCount
    /\ streak' = 0
    /\ \/ /\ state # "half-open"
          /\ UNCHANGED <<state, successCount, trial>>
       \/ /\ state = "half-open"
          /\ trial' = trial + 1
          /\ IF successCount + 1 >= successThreshold
             THEN state' = "closed" /\ successCount' = 0
             ELSE state' = state /\ successCount' = successCount + 1
    /\ UNCHANGED <<limits, since>>
CountsDown(c) ==
    /\ Report(c)
    /\ ~Disabled
    /\ failureCount' = failureCount - 1
    /\ streak' = 0
    /\ \/ /\ state # "half-open"
          /\ UNCHANGED <<state, successCount, trial>>
       \/ /\ state = "half-open"
          /\ trial' = trial + 1
          /\ IF successCount + 1 >= successThreshold
             THEN state' = "closed" /\ successCount' = 0
             ELSE state' = state /\ successCount' = successCount + 1
    /\ UNCHANGED <<limits, since>>
RecordSuccess(c) ==
    /\ Report(c)
    /\ ~Disabled
    /\ failureCount' = 0
    /\ streak' = 0
    /\ \/ /\ state # "half-open"
          /\ UNCHANGED <<state, successCount, trial>>
       \/ /\ state = "half-open"
          /\ trial' = trial + 1
          /\ IF successCount + 1 >= successThreshold
             THEN state' = "closed" /\ successCount' = 0
             ELSE state' = state /\ successCount' = successCount + 1
    /\ UNCHANGED <<limits, since>>

\* Reported while the breaker is open, a failure only restarts the timeout.
RecordFailure(c) ==
    /\ Report(c)
    /\ ~Disabled
    /\ since' = 0
    /\ failureCount' = IF state = "open" THEN failureCount ELSE failureCount + 1
    /\ state' = IF state = "closed" /\ failureCount + 1 < failureThreshold
                THEN "closed" ELSE "open"
    /\ streak' = IF streak < failureThreshold THEN streak + 1 ELSE streak
    /\ UNCHANGED <<limits, successCount, trial>>

BreakerTick ==
    /\ since < ResetTimeout
    /\ since' = since + 1
    /\ UNCHANGED <<limits, state, failureCount, successCount, pending, streak, trial>>

Allow(c)  == AllowThrough(c) \/ AllowTrial(c)
Record(c) == RecordNothing(c) \/ RecordSuccess(c) \/ RecordFailure(c)

BreakerNext == BreakerTick \/ \E c \in Client : Allow(c) \/ Record(c)

BreakerSpec == BreakerInit /\ [][BreakerNext]_breakerVars

\* Time passes, permitted requests end, and clients that were refused come again.
BreakerFairSpec ==
    /\ BreakerSpec
    /\ WF_breakerVars(BreakerTick)
    /\ \A c \in Client : WF_breakerVars(Record(c)) /\ WF_breakerVars(Allow(c))

(***************************************************************************)
(* Properties.                                                             *)
(***************************************************************************)

\* A closed breaker opens exactly at the failureThreshold-th failure in a row,
\* whichever requests the reports belong to and whatever happened in earlier open
\* and half-open periods; a disabled one never opens.
OpensAtThreshold ==
    [][state = "closed" =>
          (state' = "open" <=> ~Disabled /\ streak' >= failureThreshold)]_breakerVars

\* A half-open breaker closes only after successThreshold successes since it became
\* half-open, with no failure among them: nothing carries over from an earlier
\* trial that failed.
ClosesAfterTrial ==
    [][state = "half-open" /\ state' = "closed" =>
          trial' >= successThreshold /\ streak' = 0]_breakerVars

\* An open breaker is tried again: failures that arrive late restart the timeout,
\* but only requests permitted before it opened can report them.
OpenEnds == state = "open" ~> state = "half-open"
=============================================================================
