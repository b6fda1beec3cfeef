---------------------------- MODULE CircuitBreaker ----------------------------
(***************************************************************************)
(* The circuit breaker (src/utils/circuit-breaker.ts) around ChainClient's *)
(* withRetry.  Operations are asynchronous: an operation admitted in one   *)
(* state of the breaker reports its outcome in another.                    *)
(*                                                                         *)
(* Time enters the breaker only as Date.now() - lastFailureTime, compared  *)
(* with resetTimeoutMs: sinceFailure is that difference, which stops       *)
(* growing once the comparison is decided.  consecutiveFailures is only    *)
(* compared with the threshold and stops growing there.  The counters that *)
(* getStats reports and nothing reads (failures, successes, totals) are    *)
(* left out.                                                               *)
(*                                                                         *)
(* Who calls, and when, is left open: an operation may begin at any time   *)
(* or never.  In the node only the /entry fallbacks of submitSettlement    *)
(* and submitPayout go through the breaker, after the primary endpoint has *)
(* failed, and a chain that has recovered may not be called through it.    *)
(***************************************************************************)
EXTENDS Naturals

CONSTANTS Calls,             \* the operations that can be in flight together
          FailureThreshold,
          SuccessThreshold,
          ResetTimeout,
          RetryAttempts,
          MaxManual,         \* bound of the manual interventions
          Never              \* lastFailureTime = null

ASSUME ThresholdAssumption == /\ FailureThreshold \in Nat \ {0}
                              /\ SuccessThreshold \in Nat \ {0}
ASSUME TimeoutAssumption == ResetTimeout \in Nat
ASSUME AttemptsAssumption == RetryAttempts \in Nat \ {0}
ASSUME NeverAssumption == Never \notin Nat

VARIABLES state,                \* closed, open or half_open
          consecutiveFailures,
          halfOpenSuccesses,
          sinceFailure,         \* Date.now() - lastFailureTime
          left,                 \* attempts left of each operation, 0: not running
          manual                \* manual interventions so far

breakerVars == <<state, consecutiveFailures, halfOpenSuccesses, sinceFailure>>
vars == <<breakerVars, left, manual>>

State == {"closed", "open", "half_open"}

TypeOK ==
    /\ state \in State
    /\ consecutiveFailures \in 0..FailureThreshold
    /\ halfOpenSuccesses \in 0..SuccessThreshold
    /\ sinceFailure \in 0..ResetTimeout \cup {Never}
    /\ left \in [Calls -> 0..RetryAttempts]
    /\ manual \in Nat

Init ==
    /\ state = "closed"
    /\ consecutiveFailures = 0
    /\ halfOpenSuccesses = 0
    /\ sinceFailure = Never
    /\ left = [c \in Calls |-> 0]
    /\ manual = 0

\* halfOpenSuccesses survives a transition to open.
TransitionTo(new) ==
    /\ state' = new
    /\ halfOpenSuccesses' = IF new = "open" THEN halfOpenSuccesses ELSE 0

\* Mutant: any time since the failure is enough.
ResetAtOnce == sinceFailure # 0

ShouldAttemptReset == sinceFailure = Never \/ sinceFailure = ResetTimeout

\* The answer of canExecute.
Allows == state # "open" \/ ShouldAttemptReset

\* Mutant: a refused call is reported as a failure, which restarts the timeout.
ExecuteCountsRefusals(c) ==
    /\ left[c] = 0
    /\ IF Allows
         THEN /\ left' = [left EXCEPT ![c] = RetryAttempts]
              /\ IF state = "open" THEN TransitionTo("half_open")
                                   ELSE UNCHANGED <<state, halfOpenSuccesses>>
              /\ UNCHANGED sinceFailure
         ELSE /\ sinceFailure' = 0
              /\ UNCHANGED <<left, state, halfOpenSuccesses>>
    /\ UNCHANGED <<consecutiveFailures, manual>>

\* canExecute and the start of the operation; a refused call changes nothing.
Execute(c) ==
    /\ left[c] = 0
    /\ Allows
    /\ IF state = "open" THEN TransitionTo("half_open")
                         ELSE UNCHANGED <<state, halfOpenSuccesses>>
    /\ left' = [left EXCEPT ![c] = RetryAttempts]
    /\ UNCHANGED <<consecutiveFailures, sinceFailure, manual>>

\* Mutant: a late success closes an open breaker.
SuccessCloses ==
    /\ consecutiveFailures' = 0
    /\ TransitionTo("closed")
    /\ UNCHANGED sinceFailure

OnSuccess ==
    /\ consecutiveFailures' = 0
    /\ \/ /\ state = "half_open"
          /\ halfOpenSuccesses + 1 >= SuccessThreshold
          /\ TransitionTo("closed")
       \/ /\ state = "half_open"
          /\ halfOpenSuccesses + 1 < SuccessThreshold
          /\ halfOpenSuccesses' = halfOpenSuccesses + 1
          /\ UNCHANGED state
       \/ /\ state # "half_open"
          /\ UNCHANGED <<state, halfOpenSuccesses>>
    /\ UNCHANGED sinceFailure

\* Mutant: one failure too late.
TripsLate == \/ state = "half_open"
             \/ state = "closed" /\ consecutiveFailures' > FailureThreshold

\* One more failure trips the breaker: any in half_open, the last of a run of
\* FailureThreshold in closed.  In open it only restarts the timeout.
Trips == \/ state = "half_open"
         \/ state = "closed" /\ consecutiveFailures' >= FailureThreshold

OnFailure ==
    /\ sinceFailure' = 0
    /\ consecutiveFailures' = IF consecutiveFailures < FailureThreshold
                                THEN consecutiveFailures + 1
                                ELSE consecutiveFailures
    /\ IF Trips THEN TransitionTo("open")
                ELSE UNCHANGED <<state, halfOpenSuccesses>>

\* withRetry: the first attempt that succeeds ends the operation ...
AttemptSucceeds(c) ==
    /\ left[c] > 0
    /\ OnSuccess
    /\ left' = [left EXCEPT ![c] = 0]
    /\ UNCHANGED manual

\* ... a failed one is followed by another after the back-off delay, whatever
\* the breaker has become meanwhile ...
AttemptFails(c) ==
    /\ left[c] > 1
    /\ left' = [left EXCEPT ![c] = @ - 1]
    /\ UNCHANGED <<breakerVars, manual>>

\* ... and only the last is reported to the breaker as one failure.
LastAttemptFails(c) ==
    /\ left[c] = 1
    /\ OnFailure
    /\ left' = [left EXCEPT ![c] = 0]
    /\ UNCHANGED manual

\* resetCircuitBreaker: lastFailureTime is kept.
Reset ==
    /\ manual < MaxManual
    /\ manual' = manual + 1
    /\ state' = "closed"
    /\ consecutiveFailures' = 0
    /\ halfOpenSuccesses' = 0
    /\ UNCHANGED <<sinceFailure, left>>

ForceOpen ==
    /\ manual < MaxManual
    /\ manual' = manual + 1
    /\ TransitionTo("open")
    /\ sinceFailure' = 0
    /\ UNCHANGED <<consecutiveFailures, left>>

Tick ==
    /\ sinceFailure # Never
    /\ sinceFailure < ResetTimeout
    /\ sinceFailure' = sinceFailure + 1
    /\ UNCHANGED <<state, consecutiveFailures, halfOpenSuccesses, left, manual>>

Attempt(c) == AttemptSucceeds(c) \/ AttemptFails(c) \/ LastAttemptFails(c)

Next ==
    \/ \E c \in Calls : Execute(c) \/ Attempt(c)
    \/ Reset \/ ForceOpen
    \/ Tick

Spec == Init /\ [][Next]_vars

\* Time passes, and every attempt ends (the HTTP client times out after 30 s).
\* That anything is ever called is not assumed.
Fairness == /\ WF_vars(Tick)
            /\ \A c \in Calls : WF_vars(Attempt(c))

FairSpec == Spec /\ Fairness

-------------------------------------------------------------------------------

\* The counters agree with the state, whatever late outcomes arrive: a closed
\* breaker has not seen FailureThreshold failures in a row, and a half-open one
\* has not seen enough successes to close (circuit-breaker.ts:140-184).
CountersAgreeWithState ==
    /\ state = "closed" => consecutiveFailures < FailureThreshold
    /\ state = "half_open" => halfOpenSuccesses < SuccessThreshold
    /\ state = "open" => sinceFailure # Never

\* An open breaker admits nothing until ResetTimeout has passed since the last
\* failure of any operation, late ones included (circuit-breaker.ts:102-126).
CoolsDown ==
    [][state = "open" /\ sinceFailure # ResetTimeout
         => \A c \in Calls : left'[c] > 0 => left[c] > 0]_vars

\* One step never takes an open breaker back to closed, except the manual
\* reset: recovery goes through half_open (circuit-breaker.ts:145-149).
RecoveryIsTested ==
    [][state = "open" /\ state' = "closed" => manual' > manual]_vars

\* However many operations fail, and however late their failures are reported, the
\* breaker does not stay shut: again and again it would admit the next call.  An open
\* breaker admits none whose failure could put the reset off once more, and a refused
\* call is not a failure (circuit-breaker.ts:78-126, 161-184).
AdmitsAgain == []<>Allows

===============================================================================
