------------------------- MODULE CircuitBreaker_proofs -------------------------
(***************************************************************************)
(* For every number of overlapping operations and every threshold, timeout *)
(* and retry count: the breaker's counters agree with its state, an open   *)
(* breaker cools down before it admits anything, and it never goes from    *)
(* open straight to closed by itself.                                      *)
(***************************************************************************)
EXTENDS CircuitBreaker, TLAPS

IInv == TypeOK /\ CountersAgreeWithState

LEMMA InitEstablishesIInv == Init => IInv
BY ThresholdAssumption, AttemptsAssumption
DEF Init, IInv, TypeOK, State, CountersAgreeWithState

\* One lemma per action: it keeps the inductive invariant.
LEMMA ExecuteStep ==
    ASSUME IInv, NEW c \in Calls, Execute(c) PROVE IInv'
<1>1. TypeOK'
  <2>1. left' \in [Calls -> 0..RetryAttempts]
    BY AttemptsAssumption DEF IInv, TypeOK, Execute
  <2>2. state' \in State /\ halfOpenSuccesses' \in 0..SuccessThreshold
    BY ThresholdAssumption DEF IInv, TypeOK, State, Execute, TransitionTo
  <2>. QED BY <2>1, <2>2 DEF IInv, TypeOK, Execute
<1>2. CountersAgreeWithState'
  BY ThresholdAssumption
  DEF IInv, TypeOK, State, CountersAgreeWithState, Execute, TransitionTo
<1>. QED BY <1>1, <1>2 DEF IInv

LEMMA AttemptSucceedsStep ==
    ASSUME IInv, NEW c \in Calls, AttemptSucceeds(c) PROVE IInv'
<1>1. TypeOK'
  <2>1. left' \in [Calls -> 0..RetryAttempts]
    BY AttemptsAssumption DEF IInv, TypeOK, AttemptSucceeds
  <2>2. /\ state' \in State
        /\ consecutiveFailures' \in 0..FailureThreshold
        /\ halfOpenSuccesses' \in 0..SuccessThreshold
    BY ThresholdAssumption
    DEF IInv, TypeOK, State, AttemptSucceeds, OnSuccess, TransitionTo
  <2>. QED BY <2>1, <2>2 DEF IInv, TypeOK, AttemptSucceeds, OnSuccess
<1>2. CountersAgreeWithState'
  BY ThresholdAssumption
  DEF IInv, TypeOK, State, CountersAgreeWithState, AttemptSucceeds, OnSuccess,
      TransitionTo
<1>. QED BY <1>1, <1>2 DEF IInv

LEMMA AttemptFailsStep ==
    ASSUME IInv, NEW c \in Calls, AttemptFails(c) PROVE IInv'
<1>1. left' \in [Calls -> 0..RetryAttempts]
  BY AttemptsAssumption DEF IInv, TypeOK, AttemptFails
<1>. QED BY <1>1 DEF IInv, TypeOK, CountersAgreeWithState, AttemptFails, breakerVars

LEMMA LastAttemptFailsStep ==
    ASSUME IInv, NEW c \in Calls, LastAttemptFails(c) PROVE IInv'
<1>1. /\ sinceFailure' = 0
      /\ consecutiveFailures' \in 0..FailureThreshold
      /\ consecutiveFailures' < FailureThreshold
           => consecutiveFailures' = consecutiveFailures + 1
  BY ThresholdAssumption DEF IInv, TypeOK, LastAttemptFails, OnFailure
<1>2. TypeOK'
  <2>1. left' \in [Calls -> 0..RetryAttempts]
    BY AttemptsAssumption DEF IInv, TypeOK, LastAttemptFails
  <2>2. state' \in State /\ halfOpenSuccesses' \in 0..SuccessThreshold
    BY ThresholdAssumption
    DEF IInv, TypeOK, State, LastAttemptFails, OnFailure, TransitionTo
  <2>3. sinceFailure' \in 0..ResetTimeout \cup {Never}
    BY <1>1, TimeoutAssumption
  <2>. QED BY <1>1, <2>1, <2>2, <2>3 DEF IInv, TypeOK, LastAttemptFails
<1>3. CountersAgreeWithState'
  BY <1>1, ThresholdAssumption, NeverAssumption
  DEF IInv, TypeOK, State, CountersAgreeWithState, LastAttemptFails, OnFailure,
      Trips, TransitionTo
<1>. QED BY <1>2, <1>3 DEF IInv

LEMMA ManualStep ==
    ASSUME IInv, Reset \/ ForceOpen PROVE IInv'
<1>1. CASE Reset
  BY <1>1, ThresholdAssumption
  DEF IInv, TypeOK, State, CountersAgreeWithState, Reset
<1>2. CASE ForceOpen
  BY <1>2, ThresholdAssumption, TimeoutAssumption, NeverAssumption
  DEF IInv, TypeOK, State, CountersAgreeWithState, ForceOpen, TransitionTo
<1>. QED BY <1>1, <1>2

LEMMA EnvironmentStep ==
    ASSUME IInv, Tick \/ UNCHANGED vars PROVE IInv'
<1>1. CASE Tick
  BY <1>1, TimeoutAssumption, NeverAssumption
  DEF IInv, TypeOK, CountersAgreeWithState, Tick
<1>2. CASE UNCHANGED vars
  BY <1>2 DEF IInv, TypeOK, CountersAgreeWithState, vars, breakerVars
<1>. QED BY <1>1, <1>2

LEMMA IInvIsInductive == IInv /\ [Next]_vars => IInv'
<1> SUFFICES ASSUME IInv, [Next]_vars PROVE IInv'
  OBVIOUS
<1>1. ASSUME NEW c \in Calls, Execute(c) \/ Attempt(c) PROVE IInv'
  BY <1>1, ExecuteStep, AttemptSucceedsStep, AttemptFailsStep,
     LastAttemptFailsStep DEF Attempt
<1>2. CASE Reset \/ ForceOpen
  BY <1>2, ManualStep
<1>3. CASE Tick \/ UNCHANGED vars
  BY <1>3, EnvironmentStep
<1>. QED BY <1>1, <1>2, <1>3 DEF Next

\* The inductive invariant holds in every state: the breaker's counters, its
\* state and its reset timer (circuit-breaker.ts:140-210) stay consistent.
THEOREM IInvAlways == Spec => []IInv
<1>1. Init => IInv
  BY InitEstablishesIInv
<1>2. IInv /\ [Next]_vars => IInv'
  BY IInvIsInductive
<1>. QED BY <1>1, <1>2, PTL DEF Spec

\* Every variable of the breaker keeps its type.
THEOREM TypeCorrectness == Spec => []TypeOK
BY IInvAlways, PTL DEF IInv

\* Late outcomes never leave the counters at odds with the state.
THEOREM CountersAlwaysAgree == Spec => []CountersAgreeWithState
BY IInvAlways, PTL DEF IInv

\* An open breaker admits no operation until the timeout has passed.
THEOREM BreakerCoolsDown == Spec => CoolsDown
<1> DEFINE Quiet == state = "open" /\ sinceFailure # ResetTimeout
                      => \A c \in Calls : left'[c] > 0 => left[c] > 0
<1>1. ASSUME IInv, [Next]_vars PROVE [Quiet]_vars
  <2> SUFFICES ASSUME state = "open", sinceFailure # ResetTimeout,
                      NEW d \in Calls, left'[d] > 0
               PROVE  left[d] > 0
    OBVIOUS
  <2>1. ASSUME NEW c \in Calls, Execute(c) PROVE FALSE
    BY <1>1, <2>1 DEF Execute, Allows, ShouldAttemptReset, IInv, CountersAgreeWithState
  <2>2. ASSUME NEW c \in Calls, Attempt(c) PROVE left[d] > 0
    BY <1>1, <2>2, AttemptsAssumption
    DEF Attempt, AttemptSucceeds, AttemptFails, LastAttemptFails, IInv, TypeOK
  <2>3. CASE Reset \/ ForceOpen \/ Tick \/ UNCHANGED vars
    BY <1>1, <2>3 DEF Reset, ForceOpen, Tick, vars
  <2>. QED BY <1>1, <2>1, <2>2, <2>3 DEF Next
<1>. QED BY <1>1, IInvAlways, PTL DEF Spec, CoolsDown

\* Only the manual reset closes an open breaker in one step.
THEOREM RecoveryIsAlwaysTested == Spec => RecoveryIsTested
<1> DEFINE Tested == state = "open" /\ state' = "closed" => manual' > manual
<1>1. ASSUME IInv, [Next]_vars PROVE [Tested]_vars
  <2> SUFFICES ASSUME state = "open", state' = "closed" PROVE manual' > manual
    OBVIOUS
  <2>1. ASSUME NEW c \in Calls, Execute(c) \/ Attempt(c) PROVE FALSE
    BY <1>1, <2>1 DEF Execute, Attempt, AttemptSucceeds, AttemptFails, LastAttemptFails,
       OnSuccess, OnFailure, TransitionTo, breakerVars
  <2>2. CASE Reset
    BY <1>1, <2>2 DEF Reset, IInv, TypeOK
  <2>3. CASE ForceOpen \/ Tick \/ UNCHANGED vars
    BY <1>1, <2>3 DEF ForceOpen, TransitionTo, Tick, vars, breakerVars
  <2>. QED BY <1>1, <2>1, <2>2, <2>3 DEF Next
<1>. QED BY <1>1, IInvAlways, PTL DEF Spec, RecoveryIsTested

===============================================================================
