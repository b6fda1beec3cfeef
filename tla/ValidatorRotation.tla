--------------------------- MODULE ValidatorRotation ---------------------------
(***************************************************************************)
(* DPoS rotation (_deferred/src/consensus/ValidatorRotationManager.ts):    *)
(* epochs, the active set and its slots, missed slots, jail.  Every        *)
(* operation runs without interruption but for start, which awaits the     *)
(* chain between its call and its effect.                                  *)
(***************************************************************************)
EXTENDS Integers, Sequences, FiniteSets, SequencesExt

CONSTANTS Ids,           \* mediator identifiers
          Me,            \* config.mediatorPublicKey
          Stakes,        \* effective stakes that occur
          MinStake, ActiveSlots, JailThreshold,
          Cooldown,      \* unjailCooldownHours
          EpochLen,      \* rotationPeriodHours
          SlotLen,       \* slotDurationMinutes; all three in clock units
          MaxClock,      \* bound of the clock
          Never          \* no epoch, no timer, not jailed

ASSUME IdsAssumption == IsFiniteSet(Ids) /\ Me \in Ids
ASSUME RotationAssumption ==
    /\ Stakes \subseteq Nat /\ MinStake \in Nat /\ Cooldown \in Nat
    /\ {ActiveSlots, JailThreshold, EpochLen, SlotLen} \subseteq Nat \ {0}
    /\ MaxClock \in Nat
    /\ Never \notin Nat /\ Never \notin [number : Nat, active : Seq(Ids)]

VARIABLES validators, \* the Map of ValidatorInfo
          jailed,     \* the Map of jailedValidators: when each was jailed
          epoch,      \* currentEpoch
          running,    \* "off", "loading" (start awaits the chain), "on"
          epochTimer, \* when the timer is due
          clock,
          lastJailed  \* history: when each mediator was jailed last

rotationVars == <<validators, jailed, epoch, running, epochTimer, lastJailed>>
vars == <<rotationVars, clock>>

\* isActive and slotIndex are set together: slotIndex = -1 is inactive
ValidatorInfo == [effectiveStake : Stakes, slotIndex : -1..(ActiveSlots - 1),
                  missedSlots : 0..JailThreshold]
Listed == [effectiveStake : Stakes, missedSlots : 0..JailThreshold]
Epoch == [number : Nat, active : BoundedSeq(Ids, ActiveSlots)]

TypeOK ==
    /\ DOMAIN validators \subseteq Ids
    /\ validators \in [DOMAIN validators -> ValidatorInfo]
    /\ DOMAIN jailed \subseteq Ids /\ jailed \in [DOMAIN jailed -> 0..MaxClock]
    /\ epoch \in Epoch \cup {Never}
    /\ running \in {"off", "loading", "on"}
    /\ epochTimer \in Nat \cup {Never}
    /\ clock \in 0..MaxClock
    /\ lastJailed \in [Ids -> 0..MaxClock \cup {Never}]

EmptyMap == [i \in {} |-> Never]
Without(map, i) == [j \in DOMAIN map \ {i} |-> map[j]]
With(map, i, value) == [j \in DOMAIN map \cup {i} |-> IF j = i THEN value ELSE map[j]]
Known == DOMAIN validators

Init ==
    /\ validators = EmptyMap
    /\ jailed = EmptyMap
    /\ epoch = Never
    /\ running = "off"
    /\ epochTimer = Never
    /\ clock = 0
    /\ lastJailed = [i \in Ids |-> Never]

-------------------------------------------------------------------------------
(* Epochs                                                                  *)

EligibleIn(infos) ==
    {i \in DOMAIN infos : infos[i].effectiveStake >= MinStake /\ i \notin DOMAIN jailed}

\* Mutant: the jail is not asked
EligibleIgnoringJail(infos) ==
    {i \in DOMAIN infos : infos[i].effectiveStake >= MinStake}

\* selectActiveValidators: by stake, descending; the order among equal stakes
\* is that of the Map, here any
SelectActiveValidators(infos) ==
    {SubSeq(ranking, 1, IF Len(ranking) < ActiveSlots THEN Len(ranking) ELSE ActiveSlots) :
        ranking \in {q \in SetToSeqs(EligibleIn(infos)) :
                        \A a, b \in DOMAIN q :
                            a < b => infos[q[a]].effectiveStake >= infos[q[b]].effectiveStake}}

IndexIn(active, i) ==
    IF \E k \in DOMAIN active : active[k] = i
    THEN (CHOOSE k \in DOMAIN active : active[k] = i) - 1
    ELSE -1

\* Mutant: validators that drop out of the set keep their slot
UpdateWithoutReset(infos, active) ==
    [i \in DOMAIN infos |->
        IF IndexIn(active, i) = -1 THEN infos[i]
        ELSE [infos[i] EXCEPT !.slotIndex = IndexIn(active, i)]]

UpdateValidatorActiveStatus(infos, active) ==
    [i \in DOMAIN infos |-> [infos[i] EXCEPT !.slotIndex = IndexIn(active, i)]]

\* startEpochMonitoring: due at the end of the epoch, and at least one unit
\* (the code's 1000 ms) from now
TimerFor(number) ==
    LET end == (number + 1) * EpochLen
    IN  IF end > clock THEN end ELSE clock + 1

\* initializeEpoch over the validators infos: the epoch's number comes from the
\* clock, not from the epoch before, so a late timer skips epochs
InitializeEpoch(infos) ==
    \E active \in SelectActiveValidators(infos) :
        /\ epoch' = [number |-> clock \div EpochLen, active |-> active]
        /\ validators' = UpdateValidatorActiveStatus(infos, active)
        /\ epochTimer' = TimerFor(clock \div EpochLen)

StartRotation ==
    /\ running = "off"
    /\ running' = "loading"
    /\ UNCHANGED <<validators, jailed, epoch, epochTimer, clock, lastJailed>>

\* The chain's list replaces what is known of each validator in it, its missed
\* slots too, which jail nobody here; the validators it does not name stay.
\* listed is empty if the request failed
LoadValidatorsFromChain(listed) ==
    [i \in Known \cup DOMAIN listed |->
        IF i \in DOMAIN listed
        THEN [effectiveStake |-> listed[i].effectiveStake, slotIndex |-> -1,
              missedSlots |-> listed[i].missedSlots]
        ELSE validators[i]]

Loaded ==
    /\ running = "loading"
    /\ running' = "on"
    /\ \E S \in SUBSET Ids : \E listed \in [S -> Listed] :
           InitializeEpoch(LoadValidatorsFromChain(listed))
    /\ UNCHANGED <<jailed, clock, lastJailed>>

TransitionToNextEpoch ==
    /\ epochTimer # Never /\ epochTimer <= clock
    /\ InitializeEpoch(validators)
    /\ UNCHANGED <<jailed, running, clock, lastJailed>>

\* stop clears the timers; a start that is still loading sets one afterwards
StopRotation ==
    /\ running = "on"
    /\ running' = "off"
    /\ epochTimer' = Never
    /\ UNCHANGED <<validators, jailed, epoch, clock, lastJailed>>

-------------------------------------------------------------------------------
(* Slots, as functions of the time t                                       *)

SlotAt(t) == (t - epoch.number * EpochLen) \div SlotLen
HolderOf(slot) == epoch.active[(slot % Len(epoch.active)) + 1]

\* getCurrentSlot
CurrentSlot(t) == [slotIndex |-> SlotAt(t), validatorId |-> HolderOf(SlotAt(t))]

HasSlots == epoch # Never /\ epoch.active # <<>>
MyIndex == IndexIn(epoch.active, Me)

\* Mutant: the distance to one's turn without the wrap-around that skips the
\* slot one is in
NextSlotWithoutWrap(t) ==
    LET n == Len(epoch.active)
    IN  SlotAt(t) + ((MyIndex - (SlotAt(t) % n) + n) % n)

\* getNextSlotForMediator, for a mediator in the active set
NextSlotForMediator(t) ==
    LET n     == Len(epoch.active)
        until == (MyIndex - (SlotAt(t) % n) + n) % n
    IN  SlotAt(t) + (IF until = 0 THEN n ELSE until)

\* shouldMediate, in each consensus mode
ShouldMediate(mode) ==
    CASE mode = "dpos"   -> HasSlots /\ CurrentSlot(clock).validatorId = Me
      [] mode = "hybrid" -> Me \in Known /\ validators[Me].slotIndex >= 0
      [] OTHER           -> TRUE

-------------------------------------------------------------------------------
(* The validators                                                          *)

RegisterValidator(i, stake) ==
    /\ stake >= MinStake
    /\ validators' = With(validators, i,
           [effectiveStake |-> stake, slotIndex |-> -1, missedSlots |-> 0])
    /\ UNCHANGED <<jailed, epoch, running, epochTimer, clock, lastJailed>>

\* The active set is not touched: the new stake counts from the next epoch
UpdateValidatorStake(i, stake) ==
    /\ i \in Known
    /\ validators' = [validators EXCEPT ![i].effectiveStake = stake]
    /\ UNCHANGED <<jailed, epoch, running, epochTimer, clock, lastJailed>>

\* Mutant: leaving clears the jail
RemoveAndForget(i) ==
    /\ i \in Known
    /\ validators' = Without(validators, i)
    /\ jailed' = Without(jailed, i)
    /\ UNCHANGED <<epoch, running, epochTimer, clock, lastJailed>>

RemoveValidator(i) ==
    /\ i \in Known
    /\ validators' = Without(validators, i)
    /\ UNCHANGED <<jailed, epoch, running, epochTimer, clock, lastJailed>>

\* jailValidator on the validator's record info: a validator in jail is jailed
\* again, from now
Jail(i, info) ==
    /\ jailed' = With(jailed, i, clock)
    /\ validators' = [validators EXCEPT ![i] = [info EXCEPT !.slotIndex = -1]]
    /\ lastJailed' = [lastJailed EXCEPT ![i] = clock]

JailValidator(i) ==
    /\ i \in Known
    /\ Jail(i, validators[i])
    /\ UNCHANGED <<epoch, running, epochTimer, clock>>

UnjailValidator(i) ==
    /\ i \in DOMAIN jailed
    /\ clock - jailed[i] >= Cooldown
    /\ jailed' = Without(jailed, i)
    /\ validators' = IF i \in Known
                     THEN [validators EXCEPT ![i].missedSlots = 0] ELSE validators
    /\ UNCHANGED <<epoch, running, epochTimer, clock, lastJailed>>

\* The counter is cut at the threshold, above which nothing depends on it
RecordMissedSlot(i) ==
    /\ i \in Known
    /\ LET missed == IF validators[i].missedSlots < JailThreshold
                     THEN validators[i].missedSlots + 1 ELSE JailThreshold
           info   == [validators[i] EXCEPT !.missedSlots = missed]
       IN  IF missed >= JailThreshold
           THEN Jail(i, info)
           ELSE /\ validators' = [validators EXCEPT ![i] = info]
                /\ UNCHANGED <<jailed, lastJailed>>
    /\ UNCHANGED <<epoch, running, epochTimer, clock>>

RecordSlotActivity(i) ==
    /\ i \in Known
    /\ validators' = [validators EXCEPT ![i].missedSlots = 0]
    /\ UNCHANGED <<jailed, epoch, running, epochTimer, clock, lastJailed>>

Tick ==
    /\ clock < MaxClock
    /\ clock' = clock + 1
    /\ UNCHANGED rotationVars

Next ==
    \/ StartRotation \/ Loaded \/ TransitionToNextEpoch \/ StopRotation
    \/ \E i \in Ids :
        \/ \E stake \in Stakes : RegisterValidator(i, stake) \/ UpdateValidatorStake(i, stake)
        \/ RemoveValidator(i) \/ JailValidator(i) \/ UnjailValidator(i)
        \/ RecordMissedSlot(i) \/ RecordSlotActivity(i)
    \/ Tick

Spec == Init /\ [][Next]_vars

-------------------------------------------------------------------------------
(* What must hold                                                          *)

\* A validator marked active is out of jail and is the one the epoch's list has
\* at its slot index: the two places that say who serves agree, for those the
\* flag names, whatever joined, left, was reloaded or jailed meanwhile
ActiveMatchesEpoch ==
    \A i \in Known : validators[i].slotIndex >= 0 =>
        /\ i \notin DOMAIN jailed
        /\ epoch # Never
        /\ validators[i].slotIndex < Len(epoch.active)
        /\ epoch.active[validators[i].slotIndex + 1] = i

\* Who enters the active set has served the cooldown since it was jailed last:
\* neither leaving and registering again, nor a reload from the chain, nor a
\* second jailing gets a validator out early
CooldownIsServed ==
    [][\A i \in DOMAIN validators' :
          (/\ validators'[i].slotIndex >= 0
           /\ i \in Known => validators[i].slotIndex = -1
           /\ lastJailed[i] # Never) => clock - lastJailed[i] >= Cooldown]_vars

\* The slot announced to the mediator is its own, lies ahead, and no slot of its
\* own lies between: it sleeps through no turn
NextSlotIsMine ==
    (HasSlots /\ MyIndex >= 0) =>
        LET next == NextSlotForMediator(clock)
        IN  /\ HolderOf(next) = Me /\ next > SlotAt(clock)
            /\ \A slot \in (SlotAt(clock) + 1)..(next - 1) : HolderOf(slot) # Me
===============================================================================
