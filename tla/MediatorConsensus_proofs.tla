----------------------- MODULE MediatorConsensus_proofs -----------------------
(***************************************************************************)
(* The managers under _deferred/src/consensus.  Rotation: who is marked    *)
(* active is out of jail and in the epoch's list, who enters the active    *)
(* set has served the cooldown, and the slot announced is the mediator's:  *)
(* for any number of validators, any stakes and any lengths of epochs,     *)
(* slots and cooldown.  Semantic consensus: what is announced exists on    *)
(* the chain and stays, for any verifiers, meanings and similarity.        *)
(* Stake: what the node goes by is backed by what the chain holds.         *)
(***************************************************************************)
EXTENDS ValidatorRotation, SemanticConsensus, StakeManager,
        FiniteSetTheorems, WellFoundedInduction, TLAPS

Info == [effectiveStake : Nat, slotIndex : Int, missedSlots : Nat]

\* The types the proof rests on.
TypeInv ==
    /\ DOMAIN validators \subseteq Ids
    /\ validators \in [DOMAIN validators -> Info]
    /\ DOMAIN jailed \subseteq Ids
    /\ epoch # Never => epoch.active \in Seq(Ids)
    /\ clock \in Nat
    /\ lastJailed \in [Ids -> Nat \cup {Never}]

\* Who is in jail was put there when the history says; who is not, and was, has
\* served the cooldown.
JailInv ==
    \A i \in Ids : lastJailed[i] # Never =>
        IF i \in DOMAIN jailed THEN jailed[i] = lastJailed[i]
                               ELSE clock - lastJailed[i] >= Cooldown

IInv == TypeInv /\ JailInv /\ ActiveMatchesEpoch

-------------------------------------------------------------------------------
(* The operators                                                           *)

\* The list of an epoch holds eligible validators only.
LEMMA ActiveAreEligible ==
    ASSUME NEW infos, IsFiniteSet(DOMAIN infos), NEW list \in SelectActiveValidators(infos)
    PROVE  list \in Seq(EligibleIn(infos))
<1> DEFINE E == EligibleIn(infos)
<1>1. IsFiniteSet(E)
  BY FS_Subset DEF EligibleIn
<1>2. Cardinality(E) \in Nat
  BY <1>1, FS_CardinalityType
<1>3. PICK ranking \in SetToSeqs(E) :
          list = SubSeq(ranking, 1, IF Len(ranking) < ActiveSlots THEN Len(ranking)
                                                                    ELSE ActiveSlots)
  BY DEF SelectActiveValidators
<1>4. ranking \in [1..Cardinality(E) -> E]
  BY <1>3 DEF SetToSeqs
<1>5. ranking \in Seq(E)
  BY <1>2, <1>4
<1>6. ActiveSlots \in Nat
  BY RotationAssumption
<1> HIDE DEF E
<1>7. list \in Seq(E)
  BY <1>3, <1>5, <1>6
<1> QED
  BY <1>7 DEF E

\* A slot index that is not -1 points at the validator in the list.
LEMMA IndexPoints ==
    ASSUME NEW S, NEW list \in Seq(S), NEW i
    PROVE  /\ IndexIn(list, i) \in Int
           /\ IndexIn(list, i) >= 0 =>
                /\ i \in S
                /\ IndexIn(list, i) < Len(list)
                /\ list[IndexIn(list, i) + 1] = i
<1>1. CASE \E k \in DOMAIN list : list[k] = i
  <2> DEFINE at == CHOOSE k \in DOMAIN list : list[k] = i
  <2>1. at \in DOMAIN list /\ list[at] = i
    BY <1>1
  <2>2. IndexIn(list, i) = at - 1
    BY <1>1 DEF IndexIn
  <2> HIDE DEF at
  <2> QED
    BY <2>1, <2>2
<1>2. CASE ~\E k \in DOMAIN list : list[k] = i
  BY <1>2 DEF IndexIn
<1> QED
  BY <1>1, <1>2

-------------------------------------------------------------------------------
(* The steps                                                               *)

LEMMA InitIInv == Init => IInv
<1> SUFFICES ASSUME Init PROVE IInv
  OBVIOUS
<1>1. DOMAIN EmptyMap = {}
  BY DEF EmptyMap
<1>2. TypeInv
  BY <1>1 DEF Init, TypeInv, EmptyMap
<1>3. JailInv
  BY DEF Init, JailInv
<1>4. ActiveMatchesEpoch
  BY <1>1 DEF Init, ActiveMatchesEpoch, Known
<1> QED
  BY <1>2, <1>3, <1>4 DEF IInv

\* A new epoch over the validators infos: the flags point into its list, which has
\* nobody in it who is in jail.
LEMMA NewEpoch ==
    ASSUME NEW infos, DOMAIN infos \subseteq Ids, infos \in [DOMAIN infos -> Info],
           IInv, InitializeEpoch(infos), UNCHANGED <<jailed, clock, lastJailed>>
    PROVE  /\ IInv'
           /\ \A i \in DOMAIN validators' :
                 validators'[i].slotIndex >= 0 => i \notin DOMAIN jailed
<1>1. IsFiniteSet(DOMAIN infos)
  BY IdsAssumption, FS_Subset
<1>2. PICK list \in SelectActiveValidators(infos) :
          /\ epoch' = [number |-> clock \div EpochLen, active |-> list]
          /\ validators' = UpdateValidatorActiveStatus(infos, list)
  BY DEF InitializeEpoch
<1>3. list \in Seq(EligibleIn(infos))
  BY <1>1, ActiveAreEligible
<1>4. EligibleIn(infos) \subseteq Ids /\ \A i \in EligibleIn(infos) : i \notin DOMAIN jailed
  BY DEF EligibleIn
<1>5. list \in Seq(Ids)
  BY <1>3, <1>4
<1>6. \A i : IndexIn(list, i) \in Int
  BY <1>5, IndexPoints
<1>7. validators' = [i \in DOMAIN infos |-> [infos[i] EXCEPT !.slotIndex = IndexIn(list, i)]]
  BY <1>2 DEF UpdateValidatorActiveStatus
<1>8. DOMAIN validators' = DOMAIN infos /\ validators' \in [DOMAIN infos -> Info]
  BY <1>6, <1>7 DEF Info
<1>9. \A i \in DOMAIN infos : validators'[i].slotIndex = IndexIn(list, i)
  BY <1>7 DEF Info
<1>10. \A i : IndexIn(list, i) >= 0 =>
           /\ i \in EligibleIn(infos)
           /\ IndexIn(list, i) < Len(list)
           /\ list[IndexIn(list, i) + 1] = i
  BY <1>3, IndexPoints
<1>11. epoch'.active = list /\ epoch' # Never
  <2>1. clock \div EpochLen \in Nat
    BY RotationAssumption DEF IInv, TypeInv
  <2>2. epoch' \in [number : Nat, active : Seq(Ids)]
    BY <1>2, <1>5, <2>1
  <2> QED
    BY <1>2, <2>2, RotationAssumption
<1>12. TypeInv'
  BY <1>5, <1>8, <1>11 DEF IInv, TypeInv
<1>13. JailInv'
  BY DEF IInv, JailInv
<1>14. ActiveMatchesEpoch'
  BY <1>4, <1>8, <1>9, <1>10, <1>11 DEF ActiveMatchesEpoch, Known
<1>15. \A i \in DOMAIN validators' :
          validators'[i].slotIndex >= 0 => i \notin DOMAIN jailed
  BY <1>4, <1>8, <1>9, <1>10
<1> QED
  BY <1>12, <1>13, <1>14, <1>15 DEF IInv

\* The chain's list, or none, over what is known.
LEMMA LoadedTypes ==
    ASSUME IInv, NEW S \in SUBSET Ids, NEW listed \in [S -> Listed]
    PROVE  LET infos == LoadValidatorsFromChain(listed)
           IN  DOMAIN infos \subseteq Ids /\ infos \in [DOMAIN infos -> Info]
<1>1. ASSUME NEW i \in S
      PROVE  listed[i].effectiveStake \in Nat /\ listed[i].missedSlots \in Nat
  <2>1. listed[i].effectiveStake \in Stakes /\ listed[i].missedSlots \in 0..JailThreshold
    BY DEF Listed
  <2>2. listed[i].missedSlots \in Nat
    BY <2>1, RotationAssumption
  <2> QED
    BY <2>1, <2>2, RotationAssumption
<1>2. \A i \in DOMAIN validators : validators[i] \in Info
  BY DEF IInv, TypeInv
<1>3. DOMAIN listed = S
  OBVIOUS
<1> QED
  BY <1>1, <1>2, <1>3 DEF LoadValidatorsFromChain, Known, IInv, TypeInv, Info

\* A step that changes one validator's record, leaves its flag alone or clears it,
\* and changes no jail and no epoch.
LEMMA RecordChanged ==
    ASSUME NEW i \in Ids, NEW info \in Info, IInv,
           validators' = With(validators, i, info),
           \/ info.slotIndex < 0
           \/ i \in Known /\ info.slotIndex = validators[i].slotIndex,
           UNCHANGED <<jailed, epoch, clock, lastJailed>>
    PROVE  /\ IInv'
           /\ \A j \in DOMAIN validators' : validators'[j].slotIndex >= 0 =>
                 j \in Known /\ validators[j].slotIndex = validators'[j].slotIndex
<1>1. /\ DOMAIN validators' = DOMAIN validators \cup {i}
      /\ validators'[i] = info
      /\ \A j \in DOMAIN validators \ {i} : validators'[j] = validators[j]
  BY DEF With
<1>2. validators' = [j \in DOMAIN validators' |-> validators'[j]]
  BY DEF With
<1>3. TypeInv'
  BY <1>1, <1>2 DEF IInv, TypeInv
<1>4. info.slotIndex \in Int
  BY DEF Info
<1>5. \A j \in DOMAIN validators' : validators'[j].slotIndex >= 0 =>
         j \in Known /\ validators[j].slotIndex = validators'[j].slotIndex
  BY <1>1, <1>4 DEF Known
<1>6. ActiveMatchesEpoch'
  BY <1>1, <1>5 DEF IInv, ActiveMatchesEpoch, Known
<1>7. JailInv'
  BY DEF IInv, JailInv
<1> QED
  BY <1>3, <1>5, <1>6, <1>7 DEF IInv

\* Who is jailed loses its flag and is in jail from now.
LEMMA Jailed ==
    ASSUME NEW i \in Known, NEW info \in Info, IInv, Jail(i, info), UNCHANGED <<epoch, clock>>
    PROVE  /\ IInv'
           /\ \A j \in DOMAIN validators' : validators'[j].slotIndex >= 0 =>
                 j \in Known /\ validators[j].slotIndex = validators'[j].slotIndex
<1> DEFINE new == [info EXCEPT !.slotIndex = -1]
<1>1. new \in Info /\ new.slotIndex = -1
  BY DEF Info
<1> HIDE DEF new
<1>2. /\ DOMAIN validators' = DOMAIN validators
      /\ validators' \in [DOMAIN validators -> Info]
      /\ validators'[i] = new
      /\ \A j \in DOMAIN validators \ {i} : validators'[j] = validators[j]
  <2>1. validators' = [validators EXCEPT ![i] = new]
    BY DEF Jail, new
  <2> QED
    BY <1>1, <2>1 DEF IInv, TypeInv, Known
<1>3. /\ DOMAIN jailed' = DOMAIN jailed \cup {i}
      /\ jailed'[i] = clock
      /\ \A j \in DOMAIN jailed \ {i} : jailed'[j] = jailed[j]
  BY DEF Jail, With
<1>4. lastJailed' = [lastJailed EXCEPT ![i] = clock]
  BY DEF Jail
<1>5. i \in Ids
  BY DEF IInv, TypeInv, Known
<1>6. TypeInv'
  BY <1>2, <1>3, <1>4, <1>5 DEF IInv, TypeInv
<1>7. JailInv'
  BY <1>3, <1>4, <1>5 DEF IInv, TypeInv, JailInv
<1>8. \A j \in DOMAIN validators' : validators'[j].slotIndex >= 0 =>
         j # i /\ j \in Known /\ validators[j].slotIndex = validators'[j].slotIndex
  BY <1>1, <1>2 DEF Known
<1>9. ActiveMatchesEpoch'
  BY <1>2, <1>3, <1>8 DEF IInv, ActiveMatchesEpoch, Known
<1> QED
  BY <1>6, <1>7, <1>8, <1>9 DEF IInv

\* Who becomes active in a step has served the cooldown.
Entering(i) ==
    /\ validators'[i].slotIndex >= 0
    /\ i \in Known => validators[i].slotIndex = -1

\* Every step keeps the invariant, and whom it makes active is out of jail.
LEMMA NextIInv ==
    ASSUME IInv, [Next]_vars
    PROVE  /\ IInv'
           /\ \A i \in DOMAIN validators' :
                 Entering(i) => i \notin DOMAIN jailed /\ UNCHANGED <<clock, lastJailed, jailed>>
<1> USE DEF Entering
<1>1. CASE Loaded
  <2>1. PICK S \in SUBSET Ids : \E listed \in [S -> Listed] :
            InitializeEpoch(LoadValidatorsFromChain(listed))
    BY <1>1 DEF Loaded
  <2>2. PICK listed \in [S -> Listed] : InitializeEpoch(LoadValidatorsFromChain(listed))
    BY <2>1
  <2>3. UNCHANGED <<jailed, clock, lastJailed>>
    BY <1>1 DEF Loaded
  <2> QED
    BY <2>2, <2>3, LoadedTypes, NewEpoch
<1>2. CASE TransitionToNextEpoch
  <2>1. DOMAIN validators \subseteq Ids /\ validators \in [DOMAIN validators -> Info]
    BY DEF IInv, TypeInv
  <2> QED
    BY <1>2, <2>1, NewEpoch DEF TransitionToNextEpoch
<1>3. ASSUME UNCHANGED <<validators, jailed, epoch, clock, lastJailed>>
      PROVE  IInv' /\ \A i \in DOMAIN validators' : ~Entering(i)
  <2>1. IInv'
    BY <1>3 DEF IInv, TypeInv, JailInv, ActiveMatchesEpoch, Known
  <2> QED
    BY <1>3, <2>1 DEF Known
<1>4. ASSUME NEW i \in Ids, NEW weight \in Stakes, RegisterValidator(i, weight)
      PROVE  IInv' /\ \A j \in DOMAIN validators' : ~Entering(j)
  <2>1. [effectiveStake |-> weight, slotIndex |-> -1, missedSlots |-> 0] \in Info
    <3>1. weight \in Nat
      BY RotationAssumption
    <3> QED
      BY <3>1 DEF Info
  <2>2. /\ IInv'
        /\ \A j \in DOMAIN validators' : validators'[j].slotIndex >= 0 =>
              j \in Known /\ validators[j].slotIndex = validators'[j].slotIndex
    BY <1>4, <2>1, RecordChanged DEF RegisterValidator
  <2> QED
    BY <2>2
<1>5. ASSUME NEW i \in Known, NEW info \in Info, validators' = [validators EXCEPT ![i] = info],
             info.slotIndex = validators[i].slotIndex,
             UNCHANGED <<jailed, epoch, clock, lastJailed>>
      PROVE  IInv' /\ \A j \in DOMAIN validators' : ~Entering(j)
  <2>1. i \in Ids
    BY DEF IInv, TypeInv, Known
  <2>2. validators' = With(validators, i, info)
    BY <1>5 DEF IInv, TypeInv, With, Known
  <2>3. /\ IInv'
        /\ \A j \in DOMAIN validators' : validators'[j].slotIndex >= 0 =>
              j \in Known /\ validators[j].slotIndex = validators'[j].slotIndex
    BY <1>5, <2>1, <2>2, RecordChanged
  <2> QED
    BY <2>3
<1>6. ASSUME NEW i \in Known, NEW weight \in Stakes, UpdateValidatorStake(i, weight)
      PROVE  IInv' /\ \A j \in DOMAIN validators' : ~Entering(j)
  <2> DEFINE info == [validators[i] EXCEPT !.effectiveStake = weight]
  <2>1. validators[i] \in Info /\ weight \in Nat
    BY RotationAssumption DEF IInv, TypeInv, Known
  <2>2. info \in Info /\ info.slotIndex = validators[i].slotIndex
    BY <2>1 DEF Info
  <2>3. validators' = [validators EXCEPT ![i] = info]
    BY <1>6 DEF UpdateValidatorStake
  <2> QED
    BY <1>5, <1>6, <2>2, <2>3 DEF UpdateValidatorStake
<1>7. ASSUME NEW i \in Known, NEW missed \in Nat,
             validators' = [validators EXCEPT ![i] = [validators[i] EXCEPT !.missedSlots = missed]],
             UNCHANGED <<jailed, epoch, clock, lastJailed>>
      PROVE  IInv' /\ \A j \in DOMAIN validators' : ~Entering(j)
  <2> DEFINE info == [validators[i] EXCEPT !.missedSlots = missed]
  <2>1. validators[i] \in Info
    BY DEF IInv, TypeInv, Known
  <2>2. info \in Info /\ info.slotIndex = validators[i].slotIndex
    BY <2>1 DEF Info
  <2> QED
    BY <1>5, <1>7, <2>2
<1>8. ASSUME NEW i \in Known, NEW info \in Info, Jail(i, info), UNCHANGED <<epoch, clock>>
      PROVE  IInv' /\ \A j \in DOMAIN validators' : ~Entering(j)
  <2>1. /\ IInv'
        /\ \A j \in DOMAIN validators' : validators'[j].slotIndex >= 0 =>
              j \in Known /\ validators[j].slotIndex = validators'[j].slotIndex
    BY <1>8, Jailed
  <2> QED
    BY <2>1
<1>9. ASSUME NEW i \in Known, RecordMissedSlot(i)
      PROVE  IInv' /\ \A j \in DOMAIN validators' : ~Entering(j)
  <2> DEFINE missed == IF validators[i].missedSlots < JailThreshold
                       THEN validators[i].missedSlots + 1 ELSE JailThreshold
             info   == [validators[i] EXCEPT !.missedSlots = missed]
  <2>1. validators[i] \in Info
    BY DEF IInv, TypeInv, Known
  <2>2. missed \in Nat
    BY <2>1, RotationAssumption DEF Info
  <2>3. info \in Info
    BY <2>1, <2>2 DEF Info
  <2>4. CASE Jail(i, info)
    BY <1>8, <1>9, <2>3, <2>4 DEF RecordMissedSlot
  <2>5. CASE /\ validators' = [validators EXCEPT ![i] = info]
             /\ UNCHANGED <<jailed, lastJailed>>
    BY <1>7, <1>9, <2>2, <2>5 DEF RecordMissedSlot
  <2> QED
    BY <1>9, <2>4, <2>5 DEF RecordMissedSlot
<1>10. ASSUME NEW i \in Known, RemoveValidator(i)
       PROVE  IInv' /\ \A j \in DOMAIN validators' : ~Entering(j)
  <2>1. validators' = [j \in DOMAIN validators \ {i} |-> validators[j]]
    BY <1>10 DEF RemoveValidator, Without
  <2>2. UNCHANGED <<jailed, epoch, clock, lastJailed>>
    BY <1>10 DEF RemoveValidator
  <2>3. TypeInv' /\ JailInv'
    BY <2>1, <2>2 DEF IInv, TypeInv, JailInv
  <2>4. ActiveMatchesEpoch'
    BY <2>1, <2>2 DEF IInv, ActiveMatchesEpoch, Known
  <2>5. \A j \in DOMAIN validators' : j \in Known /\ validators'[j] = validators[j]
    BY <2>1 DEF Known
  <2> QED
    BY <2>3, <2>4, <2>5 DEF IInv
<1>11. ASSUME NEW i \in Ids, UnjailValidator(i)
       PROVE  IInv' /\ \A j \in DOMAIN validators' : ~Entering(j)
  <2>1. /\ i \in DOMAIN jailed /\ clock - jailed[i] >= Cooldown
        /\ DOMAIN jailed' = DOMAIN jailed \ {i}
        /\ \A j \in DOMAIN jailed' : jailed'[j] = jailed[j]
        /\ UNCHANGED <<epoch, clock, lastJailed>>
    BY <1>11 DEF UnjailValidator, Without
  <2>2. /\ validators' \in [DOMAIN validators -> Info]
        /\ DOMAIN validators' = DOMAIN validators
        /\ \A j \in DOMAIN validators : validators'[j].slotIndex = validators[j].slotIndex
    <3>1. CASE i \in Known
      <4>1. validators' = [validators EXCEPT ![i] = [validators[i] EXCEPT !.missedSlots = 0]]
        BY <1>11, <3>1 DEF UnjailValidator
      <4> QED
        BY <3>1, <4>1 DEF IInv, TypeInv, Info, Known
    <3>2. CASE i \notin Known
      BY <1>11, <3>2 DEF UnjailValidator, IInv, TypeInv
    <3> QED
      BY <3>1, <3>2
  <2>3. TypeInv'
    BY <2>1, <2>2 DEF IInv, TypeInv
  <2>4. JailInv'
    BY <2>1 DEF IInv, JailInv
  <2>5. ActiveMatchesEpoch'
    BY <2>1, <2>2 DEF IInv, ActiveMatchesEpoch, Known
  <2> QED
    BY <2>2, <2>3, <2>4, <2>5 DEF IInv, Known
<1>12. CASE Tick
  <2>1. clock' = clock + 1 /\ UNCHANGED rotationVars
    BY <1>12 DEF Tick
  <2>2. TypeInv' /\ ActiveMatchesEpoch'
    BY <2>1 DEF IInv, TypeInv, ActiveMatchesEpoch, Known, rotationVars
  <2>3. JailInv'
    <3>1. SUFFICES ASSUME NEW i \in Ids, lastJailed[i] # Never, i \notin DOMAIN jailed
                   PROVE  clock' - lastJailed[i] >= Cooldown
      BY <2>1 DEF IInv, JailInv, rotationVars
    <3>2. lastJailed[i] \in Nat /\ clock \in Nat /\ Cooldown \in Nat
      BY <3>1, RotationAssumption DEF IInv, TypeInv
    <3>3. clock - lastJailed[i] >= Cooldown
      BY <3>1 DEF IInv, JailInv
    <3> QED
      BY <2>1, <3>2, <3>3
  <2> QED
    BY <2>1, <2>2, <2>3 DEF IInv, Known, rotationVars
<1>13. ASSUME NEW i \in Known, JailValidator(i)
       PROVE  IInv' /\ \A j \in DOMAIN validators' : ~Entering(j)
  <2>1. validators[i] \in Info
    BY DEF IInv, TypeInv, Known
  <2> QED
    BY <1>8, <1>13, <2>1 DEF JailValidator
<1>14. ASSUME NEW i \in Known, RecordSlotActivity(i)
       PROVE  IInv' /\ \A j \in DOMAIN validators' : ~Entering(j)
  <2>1. validators' = [validators EXCEPT ![i] = [validators[i] EXCEPT !.missedSlots = 0]]
    BY <1>14 DEF RecordSlotActivity
  <2> QED
    BY <1>7, <1>14, <2>1 DEF RecordSlotActivity
<1>15. CASE StartRotation \/ StopRotation \/ UNCHANGED vars
  BY <1>3, <1>15 DEF StartRotation, StopRotation, vars, rotationVars
<1>16. CASE \E i \in Ids :
           \/ \E weight \in Stakes : RegisterValidator(i, weight) \/ UpdateValidatorStake(i, weight)
           \/ RemoveValidator(i) \/ JailValidator(i) \/ UnjailValidator(i)
           \/ RecordMissedSlot(i) \/ RecordSlotActivity(i)
  <2>1. PICK i \in Ids :
           \/ \E weight \in Stakes : RegisterValidator(i, weight) \/ UpdateValidatorStake(i, weight)
           \/ RemoveValidator(i) \/ JailValidator(i) \/ UnjailValidator(i)
           \/ RecordMissedSlot(i) \/ RecordSlotActivity(i)
    BY <1>16
  <2>2. IInv' /\ \A j \in DOMAIN validators' : ~Entering(j)
    <3> HIDE DEF Entering
    <3>1. CASE i \in Known
      BY <1>4, <1>6, <1>9, <1>10, <1>11, <1>13, <1>14, <2>1, <3>1
    <3>2. CASE i \notin Known
      <4>1. \/ \E weight \in Stakes : RegisterValidator(i, weight)
            \/ UnjailValidator(i)
        BY <2>1, <3>2 DEF UpdateValidatorStake, RemoveValidator, JailValidator,
                         RecordMissedSlot, RecordSlotActivity
      <4> QED
        BY <1>4, <1>11, <4>1
    <3> QED
      BY <3>1, <3>2
  <2> QED
    BY <2>2
<1> QED
  BY <1>1, <1>2, <1>12, <1>15, <1>16 DEF Next

-------------------------------------------------------------------------------
(* The theorems                                                            *)

LEMMA IInvAlways == Spec => []IInv
<1>1. IInv /\ [Next]_vars => IInv'
  BY NextIInv
<1> QED
  BY <1>1, InitIInv, PTL DEF Spec

\* Who is marked active is out of jail and stands in the epoch's list at its index,
\* whoever joins, leaves, is reloaded or jailed meanwhile
\* (ValidatorRotationManager.ts:263-281, 396-536).
THEOREM ActiveMatchesEpochAlways == Spec => []ActiveMatchesEpoch
<1>1. IInv => ActiveMatchesEpoch
  BY DEF IInv
<1> QED
  BY <1>1, IInvAlways, PTL

\* Nobody gets out of jail early by leaving, registering again or being jailed
\* twice (ValidatorRotationManager.ts:498-566).
THEOREM CooldownIsAlwaysServed == Spec => CooldownIsServed
<1> DEFINE Served ==
      \A i \in DOMAIN validators' :
         (/\ validators'[i].slotIndex >= 0
          /\ i \in Known => validators[i].slotIndex = -1
          /\ lastJailed[i] # Never) => clock - lastJailed[i] >= Cooldown
<1>1. ASSUME IInv, [Next]_vars PROVE Served
  <2>1. /\ IInv'
        /\ \A i \in DOMAIN validators' :
              Entering(i) => i \notin DOMAIN jailed
    BY <1>1, NextIInv
  <2>2. DOMAIN validators' \subseteq Ids
    BY <2>1 DEF IInv, TypeInv
  <2> QED
    BY <1>1, <2>1, <2>2 DEF IInv, JailInv, Entering
<1>2. [][Served]_vars <=> CooldownIsServed
  BY DEF CooldownIsServed
<1> QED
  BY <1>1, <1>2, IInvAlways, PTL DEF Spec

-------------------------------------------------------------------------------
(* Whose slot comes next                                                   *)

\* The number of an epoch is one and its list names nobody twice.
SlotInv ==
    epoch # Never =>
        /\ epoch.number \in Nat
        /\ epoch.active \in Seq(Ids)
        /\ \A a, b \in DOMAIN epoch.active : epoch.active[a] = epoch.active[b] => a = b

\* A list that is chosen ranks the eligible, so nobody is in it twice.
LEMMA ActiveAreDistinct ==
    ASSUME NEW infos, IsFiniteSet(DOMAIN infos), NEW list \in SelectActiveValidators(infos)
    PROVE  \A a, b \in DOMAIN list : list[a] = list[b] => a = b
<1> DEFINE E == EligibleIn(infos)
<1>1. Cardinality(E) \in Nat
  BY FS_Subset, FS_CardinalityType DEF EligibleIn
<1>2. PICK ranking \in SetToSeqs(E) :
          list = SubSeq(ranking, 1, IF Len(ranking) < ActiveSlots THEN Len(ranking)
                                                                    ELSE ActiveSlots)
  BY DEF SelectActiveValidators
<1>3. /\ ranking \in [1..Cardinality(E) -> E]
      /\ \A a, b \in 1..Cardinality(E) : a # b => ranking[a] # ranking[b]
  BY <1>2 DEF SetToSeqs, IsInjective
<1> HIDE DEF E
<1>4. ranking \in Seq(E) /\ Len(ranking) = Cardinality(E)
  BY <1>1, <1>3
<1>5. ActiveSlots \in Nat
  BY RotationAssumption
<1>6. /\ DOMAIN list \subseteq 1..Cardinality(E)
      /\ \A a \in DOMAIN list : list[a] = ranking[a]
  BY <1>1, <1>2, <1>4, <1>5
<1> QED
  BY <1>3, <1>6

LEMMA SlotInvAlways == Spec => []SlotInv
<1>1. Init => SlotInv
  BY DEF Init, SlotInv
<1>2. ASSUME IInv, SlotInv, [Next]_vars PROVE SlotInv'
  <2>1. ASSUME NEW infos, DOMAIN infos \subseteq Ids, InitializeEpoch(infos)
        PROVE  SlotInv'
    <3>1. PICK list \in SelectActiveValidators(infos) :
              epoch' = [number |-> clock \div EpochLen, active |-> list]
      BY <2>1 DEF InitializeEpoch
    <3>2. IsFiniteSet(DOMAIN infos)
      BY <2>1, FS_Subset, IdsAssumption
    <3>3. list \in Seq(Ids)
      <4>1. list \in Seq(EligibleIn(infos))
        BY <3>2, ActiveAreEligible
      <4>2. EligibleIn(infos) \subseteq Ids
        BY <2>1 DEF EligibleIn
      <4> QED
        BY <4>1, <4>2
    <3>4. \A a, b \in DOMAIN list : list[a] = list[b] => a = b
      BY <3>2, ActiveAreDistinct
    <3>5. clock \in Nat /\ EpochLen \in Nat \ {0}
      BY <1>2, RotationAssumption DEF IInv, TypeInv
    <3>6. clock \div EpochLen \in Nat
      BY <3>5
    <3> QED
      BY <3>1, <3>3, <3>4, <3>6 DEF SlotInv
  <2>2. CASE Loaded
    <3>1. PICK S \in SUBSET Ids : \E listed \in [S -> Listed] :
              InitializeEpoch(LoadValidatorsFromChain(listed))
      BY <2>2 DEF Loaded
    <3>2. PICK listed \in [S -> Listed] : InitializeEpoch(LoadValidatorsFromChain(listed))
      BY <3>1
    <3> QED
      BY <1>2, <2>1, <3>2, LoadedTypes
  <2>3. CASE TransitionToNextEpoch
    BY <1>2, <2>1, <2>3 DEF TransitionToNextEpoch, IInv, TypeInv
  <2>4. CASE UNCHANGED epoch
    BY <1>2, <2>4 DEF SlotInv
  <2> QED
    BY <1>2, <2>2, <2>3, <2>4 DEF Next, vars, rotationVars, StartRotation, StopRotation,
       RegisterValidator, UpdateValidatorStake, RemoveValidator, JailValidator,
       UnjailValidator, RecordMissedSlot, RecordSlotActivity, Tick
<1> QED
  BY <1>1, <1>2, IInvAlways, PTL DEF Spec

\* Where slot s + d stands in a round of n slots, no more than a round ahead.
LEMMA ModPlus ==
    ASSUME NEW n \in Nat \ {0}, NEW s \in Int, NEW d \in 0..n
    PROVE  /\ s % n \in 0..(n - 1)
           /\ (s + d) % n = IF (s % n) + d < n THEN (s % n) + d ELSE (s % n) + d - n
<1> DEFINE q == s \div n
           r == s % n
           p == (s + d) \div n
           t == (s + d) % n
<1>1. q \in Int /\ r \in 0..(n - 1) /\ s = n * q + r
  OBVIOUS
<1>2. p \in Int /\ t \in 0..(n - 1) /\ s + d = n * p + t
  OBVIOUS
<1> HIDE DEF q, r, p, t
<1>3. n * (p - q) = r + d - t
  BY <1>1, <1>2
<1>4. PICK k \in Int : k = p - q
  BY <1>1, <1>2
<1>5. n * k = r + d - t
  BY <1>3, <1>4
<1>6. k = 0 \/ k = 1
  <2>1. k >= 2 => n * k >= 2 * n
    BY <1>4
  <2>2. k <= -1 => n * k <= -n
    BY <1>4
  <2> QED
    BY <1>1, <1>2, <1>4, <1>5, <2>1, <2>2
<1>7. t = IF r + d < n THEN r + d ELSE r + d - n
  BY <1>1, <1>2, <1>5, <1>6
<1> QED
  BY <1>1, <1>7 DEF r, t

\* The distance to the next slot of place m, and that no slot between has it.
LEMMA NextTurn ==
    ASSUME NEW n \in Nat \ {0}, NEW s \in Int, NEW m \in 0..(n - 1)
    PROVE  LET until == (m - (s % n) + n) % n
               d     == IF until = 0 THEN n ELSE until
           IN  /\ d \in 1..n
               /\ (s + d) % n = m
               /\ \A e \in 1..(d - 1) : (s + e) % n # m
<1>1. s % n \in 0..(n - 1)
  OBVIOUS
<1> DEFINE r == s % n
           until == (m - r + n) % n
           d == IF until = 0 THEN n ELSE until
<1>2. until = IF m < r THEN m - r + n ELSE m - r
  <2>1. \A c \in 0..(n - 1) : c % n = c /\ (c + n) % n = c
    <3>1. SUFFICES ASSUME NEW c \in 0..(n - 1) PROVE c % n = c /\ (c + n) % n = c
      OBVIOUS
    <3>2. (0 + c) % n = c
      <4>1. 0 % n = 0
        OBVIOUS
      <4> QED
        BY <4>1, ModPlus
    <3>3. (c + n) % n = c
      BY <3>2, ModPlus
    <3> QED
      BY <3>2, <3>3
  <2>2. CASE m < r
    BY <1>1, <2>1, <2>2
  <2>3. CASE ~(m < r)
    <3>1. m - r \in 0..(n - 1)
      BY <1>1, <2>3
    <3> QED
      BY <2>1, <2>3, <3>1
  <2> QED
    BY <2>2, <2>3
<1> HIDE DEF until
<1>3. d \in 1..n
  BY <1>1, <1>2
<1>4. (s + d) % n = m
  <2>1. PICK e \in 0..n : e = d
    BY <1>3
  <2>2. (s + e) % n = IF r + e < n THEN r + e ELSE r + e - n
    BY ModPlus
  <2> HIDE DEF r
  <2> QED
    BY <1>1, <1>2, <2>1, <2>2 DEF r
<1>5. ASSUME NEW e \in 1..(d - 1) PROVE (s + e) % n # m
  <2>1. e \in 0..n
    BY <1>3
  <2>2. (s + e) % n = IF r + e < n THEN r + e ELSE r + e - n
    BY <2>1, ModPlus
  <2> HIDE DEF r
  <2> QED
    BY <1>1, <1>2, <1>3, <2>1, <2>2 DEF r
<1> QED
  BY <1>3, <1>4, <1>5 DEF until

\* The slot getNextSlotForMediator announces belongs to the mediator, lies ahead and
\* is the first such slot, for any length of slots, epochs and active set
\* (ValidatorRotationManager.ts:321-389).
THEOREM NextSlotIsAlwaysMine == Spec => []NextSlotIsMine
<1>1. ASSUME IInv, SlotInv PROVE NextSlotIsMine
  <2>1. SUFFICES ASSUME HasSlots, MyIndex >= 0
                 PROVE  LET next == NextSlotForMediator(clock)
                        IN  /\ HolderOf(next) = Me /\ next > SlotAt(clock)
                            /\ \A slot \in (SlotAt(clock) + 1)..(next - 1) :
                                  HolderOf(slot) # Me
    BY DEF NextSlotIsMine
  <2> DEFINE n == Len(epoch.active)
             s == SlotAt(clock)
             m == MyIndex
  <2>2. /\ epoch.active \in Seq(Ids) /\ epoch.number \in Nat
        /\ \A a, b \in DOMAIN epoch.active : epoch.active[a] = epoch.active[b] => a = b
    BY <1>1, <2>1 DEF SlotInv, HasSlots
  <2>3. n \in Nat \ {0}
    BY <2>1, <2>2 DEF HasSlots
  <2>4. m \in 0..(n - 1) /\ epoch.active[m + 1] = Me
    BY <2>1, <2>2, IndexPoints DEF MyIndex
  <2>5. s \in Int
    <3>1. clock \in Int /\ EpochLen \in Int /\ SlotLen \in Nat \ {0}
      BY <1>1, RotationAssumption DEF IInv, TypeInv
    <3>2. PICK a \in Int : a = clock - epoch.number * EpochLen
      BY <2>2, <3>1
    <3>3. a \div SlotLen \in Int
      BY <3>1
    <3> QED
      BY <3>2, <3>3 DEF SlotAt
  <2> DEFINE until == (m - (s % n) + n) % n
             d == IF until = 0 THEN n ELSE until
  <2>6. NextSlotForMediator(clock) = s + d
    BY DEF NextSlotForMediator
  <2> HIDE DEF n, s, m
  <2>7. /\ d \in 1..n
        /\ (s + d) % n = m
        /\ \A e \in 1..(d - 1) : (s + e) % n # m
    BY <2>3, <2>4, <2>5, NextTurn
  <2> HIDE DEF d
  <2>8. HolderOf(s + d) = Me
    BY <2>4, <2>7 DEF HolderOf, n
  <2>9. ASSUME NEW slot \in (s + 1)..(s + d - 1) PROVE HolderOf(slot) # Me
    <3>1. slot - s \in 1..(d - 1) /\ slot = s + (slot - s)
      BY <2>3, <2>5, <2>7
    <3>2. slot % n # m
      BY <2>7, <3>1
    <3>3. slot % n \in 0..(n - 1)
      BY <2>3, <2>5
    <3>4. PICK r \in 0..(n - 1) : r = slot % n
      BY <3>3
    <3>5. HolderOf(slot) = epoch.active[r + 1]
      BY <3>4 DEF HolderOf, n
    <3>6. DOMAIN epoch.active = 1..n
      BY <2>2 DEF n
    <3>7. r + 1 \in 1..n /\ m + 1 \in 1..n /\ r + 1 # m + 1
      BY <2>3, <2>4, <3>2, <3>4
    <3> QED
      BY <2>2, <2>4, <3>5, <3>6, <3>7
  <2>10. s + d > s
    BY <2>3, <2>5, <2>7
  <2> HIDE DEF until
  <2>11. ASSUME NEW slot \in (SlotAt(clock) + 1)..(NextSlotForMediator(clock) - 1)
         PROVE  HolderOf(slot) # Me
    <3>1. slot \in (s + 1)..(s + d - 1)
      BY <2>3, <2>5, <2>6, <2>7 DEF s
    <3> QED
      BY <2>9, <3>1
  <2>12. HolderOf(NextSlotForMediator(clock)) = Me
    BY <2>6, <2>8
  <2>13. NextSlotForMediator(clock) > SlotAt(clock)
    BY <2>6, <2>10 DEF s
  <2> QED
    BY <2>11, <2>12, <2>13, Zenon
<1> QED
  BY <1>1, IInvAlways, SlotInvAlways, PTL

-------------------------------------------------------------------------------
(* Clusters                                                                *)

\* What R says, S says too.
Within(R, S) == \A v \in Entries : R[v] # None => S[v] = R[v]

LEMMA GivenAreFinite ==
    ASSUME NEW R
    PROVE  /\ IsFiniteSet(Given(R)) /\ Cardinality(Given(R)) \in Nat
           /\ Cardinality(Given(R)) <= Cardinality(Entries)
<1>1. Given(R) \in SUBSET Entries /\ IsFiniteSet(Entries)
  BY ConsensusAssumption DEF Given
<1> QED
  BY <1>1, FS_Subset, FS_CardinalityType

LEMMA ClustersAreFinite ==
    ASSUME NEW R, NEW v
    PROVE  /\ IsFiniteSet(ClusterOf(R, v)) /\ Cardinality(ClusterOf(R, v)) \in Nat
           /\ ClusterOf(R, v) \subseteq Given(R)
           /\ Cardinality(ClusterOf(R, v)) <= Cardinality(Given(R))
<1>1. ClusterOf(R, v) \in SUBSET Given(R)
  BY DEF ClusterOf
<1> QED
  BY <1>1, GivenAreFinite, FS_Subset, FS_CardinalityType

\* The largest cluster is one of the clusters, unless there is no entry.
LEMMA LargestIsLargest ==
    ASSUME NEW R
    PROVE  /\ LargestCluster(R) \in Nat
           /\ \A v \in Given(R) : Cardinality(ClusterOf(R, v)) <= LargestCluster(R)
           /\ \/ LargestCluster(R) = 0
              \/ \E v \in Given(R) : Cardinality(ClusterOf(R, v)) = LargestCluster(R)
<1> DEFINE N == Cardinality(Entries)
           Size(v) == Cardinality(ClusterOf(R, v))
           Bounds == {m \in 0..N : \A v \in Given(R) : Size(v) <= m}
<1>1. N \in Nat
  BY ConsensusAssumption, FS_CardinalityType
<1>2. \A v \in Given(R) : Size(v) \in Nat /\ Size(v) <= N
  BY <1>1, ClustersAreFinite, GivenAreFinite
<1>3. N \in Bounds
  BY <1>1, <1>2
<1> HIDE DEF N, Size
<1>4. Bounds \in SUBSET Nat /\ Bounds # {}
  <2>1. Bounds \subseteq 0..N
    OBVIOUS
  <2>2. 0..N \subseteq Nat
    BY <1>1
  <2>3. Bounds # {}
    BY <1>3
  <2> QED
    BY <2>1, <2>2, <2>3
<1>5. \E m \in Bounds : \A k \in Bounds : ~(<<k, m>> \in OpToRel(<, Nat))
  BY <1>4, WFMin, NatLessThanWellFounded
<1>6. PICK m \in Bounds : \A k \in Bounds : ~(k < m)
  BY <1>4, <1>5 DEF OpToRel
<1>7. m = 0 \/ \E v \in Given(R) : Size(v) = m
  <2>1. SUFFICES ASSUME m # 0, \A v \in Given(R) : Size(v) # m
                 PROVE  m - 1 \in Bounds
    BY <1>1, <1>6
  <2>2. \A v \in Given(R) : Size(v) <= m - 1
    BY <1>1, <1>2, <1>6, <2>1
  <2> QED
    BY <1>1, <1>6, <2>1, <2>2
<1>8. \E n \in 0..N : /\ \A v \in Given(R) : Size(v) <= n
                      /\ n = 0 \/ \E v \in Given(R) : Size(v) = n
  BY <1>6, <1>7
<1>9. LargestCluster(R) = CHOOSE n \in 0..N : /\ \A v \in Given(R) : Size(v) <= n
                                              /\ n = 0 \/ \E v \in Given(R) : Size(v) = n
  BY DEF LargestCluster, N, Size
<1>10. /\ LargestCluster(R) \in 0..N
       /\ \A v \in Given(R) : Size(v) <= LargestCluster(R)
       /\ LargestCluster(R) = 0 \/ \E v \in Given(R) : Size(v) = LargestCluster(R)
  BY <1>8, <1>9
<1> QED
  BY <1>1, <1>10 DEF Size

\* No entry outside of a cluster is equivalent to one inside.
LEMMA ClustersAreClosed ==
    ASSUME NEW R, NEW v \in Given(R)
    PROVE  v \in ClusterOf(R, v) /\ Neighbours(R, ClusterOf(R, v)) \subseteq ClusterOf(R, v)
<1>1. v \in ClusterOf(R, v)
  BY DEF ClusterOf
<1>2. ASSUME NEW w \in Neighbours(R, ClusterOf(R, v)) PROVE w \in ClusterOf(R, v)
  <2>1. w \in Given(R)
    BY <1>2 DEF Neighbours
  <2>2. PICK g \in ClusterOf(R, v) : Equivalent(R[w], R[g])
    BY <1>2 DEF Neighbours
  <2>3. ASSUME NEW G \in SUBSET Given(R), v \in G, Neighbours(R, G) \subseteq G
        PROVE  w \in G
    <3>1. g \in G
      BY <2>2, <2>3 DEF ClusterOf
    <3>2. w \in Neighbours(R, G)
      BY <2>1, <2>2, <3>1 DEF Neighbours
    <3> QED
      BY <2>3, <3>2
  <2> QED
    BY <2>1, <2>3 DEF ClusterOf
<1> QED
  BY <1>1, <1>2

\* A part of a cluster that no other entry of it resembles is the whole cluster.
LEMMA NoIsland ==
    ASSUME NEW R, NEW v \in Given(R), NEW A \in SUBSET ClusterOf(R, v), v \in A,
           \A a \in A, b \in ClusterOf(R, v) \ A : ~Equivalent(R[b], R[a])
    PROVE  A = ClusterOf(R, v)
<1>1. ClusterOf(R, v) \subseteq Given(R)
  BY DEF ClusterOf
<1>2. ASSUME NEW w \in Neighbours(R, A) PROVE w \in A
  <2>1. PICK a \in A : Equivalent(R[w], R[a])
    BY <1>2 DEF Neighbours
  <2>2. w \in Neighbours(R, ClusterOf(R, v))
    BY <1>2, <2>1 DEF Neighbours
  <2>3. w \in ClusterOf(R, v)
    BY <2>2, ClustersAreClosed
  <2> QED
    BY <2>1, <2>3
<1>3. A \in SUBSET Given(R) /\ Neighbours(R, A) \subseteq A
  BY <1>1, <1>2
<1>4. \A w \in ClusterOf(R, v) : w \in A
  BY <1>3 DEF ClusterOf
<1> QED
  BY <1>4

\* The entries of a cluster hang together in every list that holds its own.
LEMMA ClustersHangTogether ==
    ASSUME NEW R, Within(R, answers), NEW v \in Given(R)
    PROVE  HangsTogether(ClusterOf(R, v))
<1> DEFINE C == ClusterOf(R, v)
<1>1. \A w \in C : answers[w] = R[w]
  BY DEF Within, ClusterOf, Given
<1>2. v \in C
  BY ClustersAreClosed
<1>3. SUFFICES ASSUME NEW A \in SUBSET C, A # {}, A # C,
                      \A a \in A, b \in C \ A : ~Equivalent(answers[a], answers[b])
               PROVE  FALSE
  BY DEF HangsTogether
<1>4. \A a \in A, b \in C \ A : ~Equivalent(R[b], R[a]) /\ ~Equivalent(R[a], R[b])
  BY <1>1, <1>3 DEF Equivalent
<1>5. CASE v \in A
  <2>1. A = C
    BY <1>4, <1>5, NoIsland
  <2> QED
    BY <1>3, <2>1
<1>6. CASE v \notin A
  <2>1. C \ A \in SUBSET C /\ v \in C \ A
    BY <1>2, <1>6
  <2>2. \A a \in C \ A, b \in C \ (C \ A) : ~Equivalent(R[b], R[a])
    BY <1>4
  <2>3. C \ A = C
    BY <2>1, <2>2, NoIsland
  <2> QED
    BY <1>3, <2>3
<1> QED
  BY <1>5, <1>6

\* Further answers only make clusters larger.
LEMMA ClustersGrow ==
    ASSUME NEW R, NEW S, Within(R, S), NEW v \in Given(R)
    PROVE  v \in Given(S) /\ ClusterOf(R, v) \subseteq ClusterOf(S, v)
<1>1. \A w \in Given(R) : w \in Given(S) /\ S[w] = R[w]
  BY DEF Within, Given
<1>2. SUFFICES ASSUME NEW w \in ClusterOf(R, v), NEW G \in SUBSET Given(S),
                      v \in G, Neighbours(S, G) \subseteq G
               PROVE  w \in G
  BY <1>1 DEF ClusterOf
<1> DEFINE H == G \cap Given(R)
<1>3. H \in SUBSET Given(R) /\ v \in H
  BY <1>2
<1>4. ASSUME NEW u \in Neighbours(R, H) PROVE u \in H
  <2>1. u \in Given(R)
    BY <1>4 DEF Neighbours
  <2>2. PICK h \in H : Equivalent(R[u], R[h])
    BY <1>4 DEF Neighbours
  <2>3. Equivalent(S[u], S[h])
    BY <1>1, <2>1, <2>2
  <2>4. u \in Neighbours(S, G)
    BY <1>1, <2>1, <2>2, <2>3 DEF Neighbours
  <2> QED
    BY <1>2, <2>1, <2>4
<1>5. w \in H
  BY <1>2, <1>3, <1>4 DEF ClusterOf
<1> QED
  BY <1>5

LEMMA LargestGrows ==
    ASSUME NEW R, NEW S, Within(R, S)
    PROVE  LargestCluster(R) <= LargestCluster(S)
<1>1. /\ LargestCluster(R) \in Nat /\ LargestCluster(S) \in Nat
      /\ \A v \in Given(S) : Cardinality(ClusterOf(S, v)) <= LargestCluster(S)
  BY LargestIsLargest
<1>2. CASE LargestCluster(R) = 0
  BY <1>1, <1>2
<1>3. CASE \E v \in Given(R) : Cardinality(ClusterOf(R, v)) = LargestCluster(R)
  <2>1. PICK v \in Given(R) : Cardinality(ClusterOf(R, v)) = LargestCluster(R)
    BY <1>3
  <2>2. v \in Given(S) /\ ClusterOf(R, v) \in SUBSET ClusterOf(S, v)
    BY ClustersGrow
  <2>3. IsFiniteSet(ClusterOf(S, v)) /\ Cardinality(ClusterOf(S, v)) \in Nat
    BY ClustersAreFinite
  <2>4. Cardinality(ClusterOf(R, v)) <= Cardinality(ClusterOf(S, v))
    BY <2>2, <2>3, FS_Subset
  <2> QED
    BY <1>1, <2>1, <2>2, <2>3, <2>4
<1> QED
  BY <1>2, <1>3, LargestIsLargest

-------------------------------------------------------------------------------
(* A consensus is supported                                                *)

\* No record and no reply on its way says more than the chain does.
AnswersInv ==
    /\ \A r \in Requests : Within(verification[r].responses, answers)
    /\ \A c \in Calls : Within(call[c].reply, answers)
    /\ \A c \in Calls : call[c].pc # "idle" => call[c].request \in Requests

SupportInv == ConsensusTypeOK /\ AnswersInv /\ ConsensusIsSupported

\* What a step makes of the chain: nothing is withdrawn.
ChainGrows == Within(answers, answers')

LEMMA WithinIsTransitive ==
    ASSUME NEW R, NEW S, NEW T, Within(R, S), Within(S, T)
    PROVE  Within(R, T)
BY DEF Within

LEMMA SupportStays ==
    ASSUME ChainGrows, NEW G \in SUBSET Given(answers), HangsTogether(G)
    PROVE  G \in SUBSET Given(answers') /\ HangsTogether(G)'
<1>1. \A v \in G : v \in Entries /\ answers[v] # None /\ answers'[v] = answers[v]
  BY DEF ChainGrows, Within, Given
<1>2. G \in SUBSET Given(answers')
  BY <1>1 DEF ChainGrows, Given
<1>3. \A a \in G, b \in G : Equivalent(answers[a], answers[b])
                            => Equivalent(answers'[a], answers'[b])
  BY <1>1
<1>4. HangsTogether(G)'
  BY <1>3 DEF HangsTogether
<1> QED
  BY <1>2, <1>4

Supported(S) == \E G \in SUBSET Given(S) :
                    Cardinality(G) >= RequiredConsensus /\ HangsTogether(G)

\* What aggregateConsensus announces is there.
LEMMA EvaluateIsSupported ==
    ASSUME AnswersInv, NEW v \in Verification, NEW R \in Answers, Within(R, answers),
           v.status # "consensus_reached",
           Evaluate(v, R).status = "consensus_reached"
    PROVE  Supported(answers)
<1>1. LargestCluster(R) >= RequiredConsensus
  BY DEF Evaluate, Verification
<1>2. LargestCluster(R) \in Nat /\ LargestCluster(R) # 0 /\ RequiredConsensus \in Nat
  BY <1>1, LargestIsLargest, ConsensusAssumption
<1>3. PICK w \in Given(R) : Cardinality(ClusterOf(R, w)) = LargestCluster(R)
  BY <1>2, LargestIsLargest
<1>4. HangsTogether(ClusterOf(R, w))
  BY <1>3, ClustersHangTogether
<1>5. Given(R) \subseteq Given(answers)
  BY DEF Given, Within
<1>6. ClusterOf(R, w) \in SUBSET Given(answers)
  BY <1>5 DEF ClusterOf
<1> QED
  BY <1>1, <1>3, <1>4, <1>6 DEF Supported

LEMMA EvaluateType ==
    ASSUME NEW v \in Verification, NEW R \in Answers
    PROVE  Evaluate(v, R) \in Verification /\ Evaluate(v, R).responses = R
                /\ Evaluate(v, R).deadline = v.deadline
<1>1. CASE now > v.deadline
  BY <1>1 DEF Evaluate, Verification, VerificationStatus
<1>2. CASE now <= v.deadline /\ Cardinality(Given(R)) < RequiredConsensus
  BY <1>2 DEF Evaluate, Verification, VerificationStatus
<1>3. ASSUME ~(now > v.deadline),
             ~(now <= v.deadline /\ Cardinality(Given(R)) < RequiredConsensus)
      PROVE Evaluate(v, R) \in Verification /\ Evaluate(v, R).responses = R
                /\ Evaluate(v, R).deadline = v.deadline
  <2> DEFINE reached == LargestCluster(R) >= RequiredConsensus
  <2>1. Evaluate(v, R) = [v EXCEPT !.responses = R, !.consensusReached = reached,
                         !.status = IF reached THEN "consensus_reached"
                                    ELSE "consensus_failed"]
    BY <1>3 DEF Evaluate
  <2>2. reached \in BOOLEAN
    OBVIOUS
  <2> HIDE DEF reached
  <2> QED
    BY <2>1, <2>2 DEF Verification, VerificationStatus
<1> QED
  BY <1>1, <1>2, <1>3

\* The types, with the bounds of the counters.
LEMMA NoAnswersType == NoAnswers \in Answers /\ \A R : Within(NoAnswers, R)
BY DEF NoAnswers, Answers, Within

LEMMA SupportInit == ConsensusInit => SupportInv
<1> SUFFICES ASSUME ConsensusInit PROVE SupportInv
  OBVIOUS
<1>1. NoAnswers \in Answers
  BY NoAnswersType
<1>2. ConsensusTypeOK
  BY <1>1, ConsensusAssumption DEF ConsensusInit, ConsensusTypeOK, Verification, NoVerification,
     VerificationStatus, Initiation, Call, IdleCall
<1>3. AnswersInv
  BY NoAnswersType DEF ConsensusInit, AnswersInv, NoVerification, IdleCall, NoAnswers
<1>4. ConsensusIsSupported
  BY DEF ConsensusInit, ConsensusIsSupported, NoVerification
<1> QED
  BY <1>2, <1>3, <1>4 DEF SupportInv

\* A step that leaves the records of the verifications alone.
LEMMA RecordsKept ==
    ASSUME SupportInv, ConsensusTypeOK', AnswersInv', ChainGrows,
           \A r \in Requests : verification'[r].status = "consensus_reached" =>
               verification[r].status = "consensus_reached" \/ Supported(answers)
    PROVE  SupportInv'
<1>1. ASSUME NEW r \in Requests, verification'[r].status = "consensus_reached"
      PROVE  \E G \in SUBSET Given(answers') :
                 Cardinality(G) >= RequiredConsensus /\ HangsTogether(G)'
  <2>1. Supported(answers)
    BY <1>1 DEF SupportInv, ConsensusIsSupported, Supported
  <2>2. PICK G \in SUBSET Given(answers) :
            Cardinality(G) >= RequiredConsensus /\ HangsTogether(G)
    BY <2>1 DEF Supported
  <2> QED
    BY <2>2, SupportStays
<1>2. ConsensusIsSupported'
  BY <1>1 DEF ConsensusIsSupported
<1> QED
  BY <1>2 DEF SupportInv

CallStep(c) == StartAggregate(c) \/ ServeResponses(c)

InitiationStep(r) == Initiate(r) \/ SelectVerifiers(r) \/ SelectionFails(r)

\* A step that posts a request or takes up its answer.
LEMMA InitiationSupport ==
    ASSUME SupportInv, NEW r \in Requests,
           InitiationStep(r) \/ Initiated(r) \/ SubmissionFails(r)
    PROVE  SupportInv'
<1> USE DEF SupportInv
<1>1. CASE InitiationStep(r)
  <2>1. UNCHANGED <<verification, active, asked, answers, call, now>>
    BY <1>1 DEF InitiationStep, Initiate, SelectVerifiers, SelectionFails
  <2>2. initiating' \in [Requests -> Initiation]
    <3>1. CASE Initiate(r)
      BY <3>1 DEF Initiate, ConsensusTypeOK, Initiation
    <3>2. CASE SelectionFails(r)
      BY <3>2 DEF SelectionFails, ConsensusTypeOK, Initiation
    <3>3. CASE SelectVerifiers(r)
      <4>1. PICK V \in SUBSET Verifiers :
                initiating' = [initiating EXCEPT ![r] =
                    [pc |-> "post", selected |-> V, deadline |-> now + Deadline]]
        BY <3>3 DEF SelectVerifiers, WeightedRandomSelection
      <4>2. now + Deadline \in Nat
        BY ConsensusAssumption DEF ConsensusTypeOK
      <4>3. [pc |-> "post", selected |-> V, deadline |-> now + Deadline] \in Initiation
        BY <4>2 DEF Initiation
      <4> QED
        BY <4>1, <4>3 DEF ConsensusTypeOK
    <3> QED
      BY <1>1, <3>1, <3>2, <3>3 DEF InitiationStep
  <2>3. ConsensusTypeOK'
    BY <2>1, <2>2 DEF ConsensusTypeOK
  <2>4. AnswersInv'
    BY <2>1 DEF AnswersInv, Within
  <2>5. ChainGrows
    BY <2>1 DEF ChainGrows, Within
  <2> QED
    BY <2>1, <2>3, <2>4, <2>5, RecordsKept
<1>2. CASE Initiated(r)
  <2> DEFINE new == [NoVerification EXCEPT !.status = "pending",
                                           !.deadline = initiating[r].deadline]
  <2>1. new \in Verification /\ new.responses = NoAnswers /\ new.status = "pending"
    BY NoAnswersType DEF ConsensusTypeOK, Initiation, Verification, NoVerification,
       VerificationStatus
  <2>2. verification' = [verification EXCEPT ![r] = new]
    BY <1>2 DEF Initiated
  <2>3. /\ initiating' = [initiating EXCEPT ![r].pc = "done"] /\ active' = r
        /\ asked' = asked \cup initiating[r].selected /\ UNCHANGED <<answers, call, now>>
    BY <1>2 DEF Initiated
  <2> HIDE DEF new
  <2>4. ConsensusTypeOK'
    BY <2>1, <2>2, <2>3 DEF ConsensusTypeOK, Initiation
  <2>5. \A q \in Requests : Within(verification'[q].responses, answers')
    BY <2>1, <2>2, <2>3, NoAnswersType DEF AnswersInv, ConsensusTypeOK
  <2>6. AnswersInv'
    BY <2>3, <2>5 DEF AnswersInv
  <2>7. ChainGrows
    BY <2>3 DEF ChainGrows, Within
  <2>8. \A q \in Requests : verification'[q].status = "consensus_reached" =>
            verification[q].status = "consensus_reached"
    BY <2>1, <2>2 DEF ConsensusTypeOK
  <2> QED
    BY <2>4, <2>6, <2>7, <2>8, RecordsKept
<1>3. CASE SubmissionFails(r)
  <2>1. /\ initiating' = [initiating EXCEPT ![r].pc = "done"]
        /\ asked' \in {asked, asked \cup initiating[r].selected}
        /\ UNCHANGED <<verification, active, answers, call, now>>
    BY <1>3 DEF SubmissionFails
  <2>2. ConsensusTypeOK'
    BY <2>1 DEF ConsensusTypeOK, Initiation
  <2>3. AnswersInv' /\ ChainGrows
    BY <2>1 DEF AnswersInv, Within, ChainGrows
  <2> QED
    BY <2>1, <2>2, <2>3, RecordsKept
<1> QED
  BY <1>1, <1>2, <1>3

\* A verifier answers.
LEMMA AnswerSupport ==
    ASSUME SupportInv, NEW v \in Verifiers, HandleVerificationRequest(v)
    PROVE  SupportInv'
<1> USE DEF SupportInv
<1>1. PICK e \in Entries, m \in Meanings :
          answers[e] = None /\ answers' = [answers EXCEPT ![e] = m]
  BY DEF HandleVerificationRequest
<1>2. UNCHANGED <<initiating, verification, active, asked, call, now>>
  BY DEF HandleVerificationRequest
<1>3. answers \in Answers /\ answers' \in Answers
  BY <1>1 DEF ConsensusTypeOK, Answers
<1>4. Within(answers, answers')
  BY <1>1, <1>2, <1>3 DEF Within, Answers
<1>6. \A R : Within(R, answers) => Within(R, answers')
  BY <1>4, WithinIsTransitive
<1>7. \A r \in Requests : Within(verification[r].responses, answers')
  BY <1>6 DEF AnswersInv
<1>8. AnswersInv'
  BY <1>2, <1>6, <1>7 DEF AnswersInv
<1>9. ConsensusTypeOK' /\ ChainGrows
  BY <1>2, <1>3, <1>4 DEF ConsensusTypeOK, ChainGrows
<1> QED
  BY <1>2, <1>8, <1>9, RecordsKept

LEMMA CallSupport ==
    ASSUME SupportInv, NEW c \in Calls, CallStep(c)
    PROVE  SupportInv'
<1> USE DEF SupportInv
<1>1. UNCHANGED <<initiating, verification, active, asked, answers, now>>
  BY DEF CallStep, StartAggregate, ServeResponses
<1>2. /\ call' \in [Calls -> Call]
      /\ \A d \in Calls : Within(call'[d].reply, answers)
      /\ \A d \in Calls : call'[d].pc # "idle" => call'[d].request \in Requests
  <2>1. CASE StartAggregate(c)
    <3>1. active \in Requests
      BY <2>1 DEF StartAggregate, ConsensusTypeOK
    <3>2. call' = [call EXCEPT ![c] = [IdleCall EXCEPT !.pc = "fetch", !.request = active]]
      BY <2>1 DEF StartAggregate
    <3>3. call'[c] \in Call /\ call'[c].reply = NoAnswers /\ call'[c].request = active
      BY <3>1, <3>2, NoAnswersType DEF ConsensusTypeOK, IdleCall, Call
    <3>4. \A d \in Calls \ {c} : call'[d] = call[d]
      BY <3>2 DEF ConsensusTypeOK
    <3>5. Within(NoAnswers, answers)
      BY NoAnswersType
    <3> QED
      BY <3>1, <3>2, <3>3, <3>4, <3>5 DEF ConsensusTypeOK, AnswersInv
  <2>2. CASE ServeResponses(c)
    <3>1. call' = [call EXCEPT ![c].pc = "served", ![c].reply = answers]
      BY <2>2 DEF ServeResponses
    <3>2. Within(answers, answers)
      BY DEF Within
    <3>3. /\ call'[c] \in Call /\ call'[c].reply = answers
          /\ call[c].pc # "idle" /\ call'[c].request = call[c].request
      BY <2>2, <3>1 DEF ServeResponses, ConsensusTypeOK, Call
    <3>4. \A d \in Calls \ {c} : call'[d] = call[d]
      BY <3>1 DEF ConsensusTypeOK
    <3> QED
      BY <3>1, <3>2, <3>3, <3>4 DEF ConsensusTypeOK, AnswersInv
  <2> QED
    BY <2>1, <2>2 DEF CallStep
<1>3. ConsensusTypeOK' /\ AnswersInv' /\ ChainGrows
  BY <1>1, <1>2 DEF ConsensusTypeOK, AnswersInv, ChainGrows, Within
<1> QED
  BY <1>1, <1>3, RecordsKept

\* What Aggregate does, once.
LEMMA AggregateStep ==
    ASSUME SupportInv, NEW c \in Calls, Aggregate(c)
    PROVE  \E R \in Answers :
              /\ call[c].request \in Requests
              /\ R = verification[call[c].request].responses
                     \/ (call[c].pc = "served" /\ R = call[c].reply)
              /\ Within(R, answers)
              /\ verification' = [verification EXCEPT ![call[c].request] =
                                      Evaluate(verification[call[c].request], R)]
              /\ call' = [call EXCEPT ![c] = IdleCall]
              /\ UNCHANGED <<initiating, active, asked, answers, now>>
<1> DEFINE r == call[c].request
<1>0. r \in Requests /\ call[c].pc \in {"fetch", "served"}
  BY DEF Aggregate, SupportInv, AnswersInv
<1>1. PICK R \in {verification[r].responses} \cup
                     (IF call[c].pc = "served" THEN {call[c].reply} ELSE {}) :
          verification' = [verification EXCEPT ![r] = Evaluate(@, R)]
  BY DEF Aggregate
<1>2. R = verification[r].responses \/ (call[c].pc = "served" /\ R = call[c].reply)
  BY <1>1
<1>3. R \in Answers
  BY <1>0, <1>2 DEF SupportInv, ConsensusTypeOK, Verification, Call
<1>6. Within(R, answers)
  BY <1>0, <1>2 DEF SupportInv, AnswersInv
<1>4. verification' = [verification EXCEPT ![r] = Evaluate(verification[r], R)]
  BY <1>1
<1>5. call' = [call EXCEPT ![c] = IdleCall] /\ UNCHANGED <<initiating, active, asked, answers, now>>
  BY DEF Aggregate
<1> QED
  BY <1>0, <1>2, <1>3, <1>4, <1>5, <1>6

LEMMA AggregateSupport ==
    ASSUME SupportInv, NEW c \in Calls, Aggregate(c)
    PROVE  SupportInv'
<1> DEFINE r == call[c].request
<1>1. PICK R \in Answers :
              /\ r \in Requests
              /\ Within(R, answers)
              /\ verification' = [verification EXCEPT ![r] = Evaluate(verification[r], R)]
              /\ call' = [call EXCEPT ![c] = IdleCall]
              /\ UNCHANGED <<initiating, active, asked, answers, now>>
  BY AggregateStep
<1>2. verification[r] \in Verification
  BY <1>1 DEF SupportInv, ConsensusTypeOK
<1>3. PICK e : e = Evaluate(verification[r], R)
  OBVIOUS
<1>4. e \in Verification /\ e.responses = R
  BY <1>2, <1>3, EvaluateType
<1>5. IdleCall \in Call /\ Within(IdleCall.reply, answers) /\ IdleCall.pc = "idle"
  BY NoAnswersType DEF IdleCall, Call
<1>6. verification' = [verification EXCEPT ![r] = e]
  BY <1>1, <1>3
<1>7. ConsensusTypeOK'
  BY <1>1, <1>4, <1>5, <1>6 DEF SupportInv, ConsensusTypeOK
<1>8. AnswersInv'
  BY <1>1, <1>4, <1>5, <1>6 DEF SupportInv, ConsensusTypeOK, AnswersInv
<1>9. ChainGrows
  BY <1>1 DEF ChainGrows, Within
<1>10. ASSUME NEW q \in Requests, verification'[q].status = "consensus_reached"
       PROVE  verification[q].status = "consensus_reached" \/ Supported(answers)
  <2>1. CASE q = r
    <3>1. e.status = "consensus_reached"
      BY <1>6, <1>10, <2>1 DEF SupportInv, ConsensusTypeOK
    <3>2. CASE verification[r].status # "consensus_reached"
      BY <1>1, <1>2, <1>3, <3>1, <3>2, EvaluateIsSupported DEF SupportInv
    <3> QED
      BY <2>1, <3>2
  <2>2. CASE q # r
    BY <1>6, <1>10, <2>2 DEF SupportInv, ConsensusTypeOK
  <2> QED
    BY <2>1, <2>2
<1> QED
  BY <1>7, <1>8, <1>9, <1>10, RecordsKept

LEMMA ClockSupport ==
    ASSUME SupportInv, CheckVerificationTimeouts \/ PassTime
    PROVE  SupportInv'
<1> USE DEF SupportInv
<1>1. CASE CheckVerificationTimeouts
  <2>1. /\ active \in Requests /\ verification' = [verification EXCEPT ![active].status = "timeout"]
        /\ UNCHANGED <<initiating, active, asked, answers, call, now>>
    BY <1>1 DEF CheckVerificationTimeouts, ConsensusTypeOK
  <2>2. ConsensusTypeOK'
    BY <2>1 DEF ConsensusTypeOK, Verification, VerificationStatus
  <2>3. AnswersInv'
    BY <2>1 DEF AnswersInv, ConsensusTypeOK, Verification
  <2>4. ChainGrows
    BY <2>1 DEF ChainGrows, Within
  <2>5. \A q \in Requests : verification'[q].status = "consensus_reached" =>
            verification[q].status = "consensus_reached"
    BY <2>1 DEF ConsensusTypeOK, Verification
  <2> QED
    BY <2>2, <2>3, <2>4, <2>5, RecordsKept
<1>2. CASE PassTime
  <2>1. /\ now' = now + 1 /\ now < MaxNow
        /\ UNCHANGED <<initiating, verification, active, asked, answers, call>>
    BY <1>2 DEF PassTime
  <2>2. ConsensusTypeOK'
    BY <2>1, ConsensusAssumption DEF ConsensusTypeOK
  <2>3. AnswersInv' /\ ChainGrows
    BY <2>1 DEF AnswersInv, Within, ChainGrows
  <2> QED
    BY <2>1, <2>2, <2>3, RecordsKept
<1> QED
  BY <1>1, <1>2

LEMMA SupportNext == SupportInv /\ [ConsensusNext]_consensusVars => SupportInv'
<1> SUFFICES ASSUME SupportInv, [ConsensusNext]_consensusVars PROVE SupportInv'
  OBVIOUS
<1>1. ASSUME NEW r \in Requests, \/ Initiate(r) \/ SelectVerifiers(r) \/ SelectionFails(r)
                                 \/ Initiated(r) \/ SubmissionFails(r)
      PROVE  SupportInv'
  BY <1>1, InitiationSupport DEF InitiationStep
<1>2. ASSUME NEW v \in Verifiers, HandleVerificationRequest(v) PROVE SupportInv'
  BY <1>2, AnswerSupport
<1>3. ASSUME NEW c \in Calls, StartAggregate(c) \/ ServeResponses(c) \/ Aggregate(c)
      PROVE  SupportInv'
  BY <1>3, CallSupport, AggregateSupport DEF CallStep
<1>4. CASE CheckVerificationTimeouts \/ PassTime
  BY <1>4, ClockSupport
<1>5. CASE UNCHANGED consensusVars
  BY <1>5 DEF consensusVars, SupportInv, ConsensusTypeOK, AnswersInv, ConsensusIsSupported,
     HangsTogether, Within, Given
<1> QED
  BY <1>1, <1>2, <1>3, <1>4, <1>5 DEF ConsensusNext

\* A consensus that is announced exists on the chain: enough entries hang together,
\* whoever wrote them, and whichever call announces it
\* (SemanticConsensusManager.ts:566-652).
THEOREM ConsensusIsAlwaysSupported == ConsensusSpec => []ConsensusIsSupported
<1>1. SupportInv => ConsensusIsSupported
  BY DEF SupportInv
<1> QED
  BY SupportInit, SupportNext, <1>1, PTL DEF ConsensusSpec

-------------------------------------------------------------------------------
(* A consensus is stable                                                   *)

\* No two aggregations are in flight at once.
CallsApart ==
    \A c, d \in Calls : call[c].pc # "idle" /\ call[d].pc # "idle" => c = d

\* A consensus rests on the answers of its record; the reply on its way holds the
\* answers of the record it is for; and a request that was not posted has no record.
StableInv ==
    /\ SupportInv
    /\ \A r \in Requests : verification[r].status = "consensus_reached" =>
           LargestCluster(verification[r].responses) >= RequiredConsensus
    /\ \A c \in Calls : call[c].pc = "served" =>
           Within(verification[call[c].request].responses, call[c].reply)
    /\ \A r \in Requests : initiating[r].pc # "done" => verification[r].status = "none"
    /\ active # None => initiating[active].pc = "done"
    /\ \A c \in Calls : call[c].pc # "idle" => initiating[call[c].request].pc = "done"

StaysReached ==
    \A r \in Requests :
        (verification[r].status = "consensus_reached" /\ now <= verification[r].deadline)
            => verification'[r].status = "consensus_reached"

LEMMA StableInit == ConsensusInit => StableInv
<1> SUFFICES ASSUME ConsensusInit PROVE StableInv
  OBVIOUS
<1>1. SupportInv
  BY SupportInit
<1> QED
  BY <1>1 DEF StableInv, ConsensusInit, NoVerification, IdleCall

\* Once there are enough answers for a consensus, more of them do not undo it.
LEMMA EvaluateIsStable ==
    ASSUME ConsensusTypeOK, NEW v \in Verification, NEW R \in Answers, Within(v.responses, R),
           v.status = "consensus_reached" => LargestCluster(v.responses) >= RequiredConsensus
    PROVE  /\ Evaluate(v, R).status = "consensus_reached" =>
                  LargestCluster(R) >= RequiredConsensus
           /\ (v.status = "consensus_reached" /\ now <= v.deadline) =>
                  Evaluate(v, R).status = "consensus_reached"
<1>1. /\ LargestCluster(R) \in Nat /\ LargestCluster(v.responses) \in Nat
      /\ LargestCluster(v.responses) <= LargestCluster(R)
      /\ RequiredConsensus \in Nat \ {0}
      /\ Cardinality(Given(R)) \in Nat
  BY LargestIsLargest, LargestGrows, ConsensusAssumption, GivenAreFinite
<1>2. LargestCluster(R) <= Cardinality(Given(R))
  BY <1>1, LargestIsLargest, ClustersAreFinite
<1>3. now \in Nat /\ v.deadline \in Nat
  BY ConsensusAssumption DEF ConsensusTypeOK, Verification
<1>4. CASE v.status = "consensus_reached"
  <2>1. LargestCluster(R) >= RequiredConsensus
    BY <1>1, <1>4
  <2>2. ~(Cardinality(Given(R)) < RequiredConsensus)
    BY <1>1, <1>2, <2>1
  <2>3. CASE now > v.deadline
    BY <1>3, <2>1, <2>3 DEF Evaluate, Verification
  <2>4. CASE ~(now > v.deadline)
    <3>1. Evaluate(v, R).status = "consensus_reached"
      BY <2>1, <2>2, <2>4 DEF Evaluate, Verification
    <3> QED
      BY <2>1, <3>1
  <2> QED
    BY <2>3, <2>4
<1>5. CASE v.status # "consensus_reached"
  BY <1>5 DEF Evaluate, Verification
<1> QED
  BY <1>4, <1>5

\* A step that changes no record and no call, but for a request that is posted
\* or given up.
LEMMA InitiationStable ==
    ASSUME StableInv, SupportInv', NEW r \in Requests,
           InitiationStep(r) \/ Initiated(r) \/ SubmissionFails(r)
    PROVE  StableInv' /\ StaysReached
<1>1. UNCHANGED <<answers, call, now>>
  BY DEF InitiationStep, Initiate, SelectVerifiers, SelectionFails, Initiated, SubmissionFails
<1>2. initiating[r].pc # "done" /\ verification[r].status = "none"
  BY DEF InitiationStep, Initiate, SelectVerifiers, SelectionFails, Initiated, SubmissionFails,
     StableInv
<1>3. \A q \in Requests : initiating[q].pc = "done" => initiating'[q].pc = "done"
  <2>1. \A q \in Requests \ {r} : initiating'[q] = initiating[q]
    BY DEF InitiationStep, Initiate, SelectVerifiers, SelectionFails, Initiated,
       SubmissionFails, StableInv, SupportInv, ConsensusTypeOK
  <2> QED
    BY <1>2, <2>1
<1>4. CASE ~Initiated(r)
  <2>1. UNCHANGED <<verification, active>>
    BY <1>4 DEF InitiationStep, Initiate, SelectVerifiers, SelectionFails, SubmissionFails
  <2>2. \A q \in Requests : initiating'[q].pc # "done" => verification[q].status = "none"
    BY <1>3 DEF StableInv
  <2>3. /\ active \in Requests \cup {None}
        /\ \A c \in Calls : call[c].pc # "idle" => call[c].request \in Requests
    BY DEF StableInv, SupportInv, ConsensusTypeOK, AnswersInv
  <2>4. active # None => initiating'[active].pc = "done"
    BY <1>3, <2>3 DEF StableInv
  <2>5. \A c \in Calls : call[c].pc # "idle" => initiating'[call[c].request].pc = "done"
    BY <1>3, <2>3 DEF StableInv
  <2> QED
    BY <1>1, <2>1, <2>2, <2>4, <2>5 DEF StableInv, StaysReached
<1>5. CASE Initiated(r)
  <2>1. /\ verification' = [verification EXCEPT ![r] =
               [NoVerification EXCEPT !.status = "pending", !.deadline = initiating[r].deadline]]
        /\ initiating' = [initiating EXCEPT ![r].pc = "done"] /\ active' = r
    BY <1>5 DEF Initiated
  <2>2. /\ verification'[r].status = "pending" /\ verification'[r].responses = NoAnswers
        /\ \A q \in Requests \ {r} : verification'[q] = verification[q]
        /\ initiating'[r].pc = "done"
    BY <2>1 DEF StableInv, SupportInv, ConsensusTypeOK, NoVerification, Initiation
  <2>3. \A q \in Requests : initiating'[q].pc # "done" => verification'[q].status = "none"
    BY <1>3, <2>2 DEF StableInv
  <2>4. \A c \in Calls : call[c].pc # "idle" => call[c].request \in Requests
    BY DEF StableInv, SupportInv, AnswersInv
  <2>5. \A c \in Calls : call[c].pc # "idle" => initiating'[call[c].request].pc = "done"
    BY <1>3, <2>4 DEF StableInv
  <2>6. \A q \in Requests : verification'[q].status = "consensus_reached" =>
           LargestCluster(verification'[q].responses) >= RequiredConsensus
    BY <2>2 DEF StableInv
  <2>7. ASSUME NEW c \in Calls, call[c].pc = "served"
        PROVE  Within(verification'[call[c].request].responses, call[c].reply)
    <3>1. CASE call[c].request = r
      BY <2>2, <3>1, NoAnswersType
    <3>2. CASE call[c].request # r
      BY <2>2, <2>4, <2>7, <3>2 DEF StableInv
    <3> QED
      BY <3>1, <3>2
  <2>8. StaysReached
    BY <1>2, <2>2 DEF StaysReached
  <2> QED
    BY <1>1, <2>1, <2>2, <2>3, <2>5, <2>6, <2>7, <2>8 DEF StableInv
<1> QED
  BY <1>4, <1>5

LEMMA CallStable ==
    ASSUME StableInv, SupportInv', NEW c \in Calls, CallStep(c)
    PROVE  StableInv' /\ StaysReached
<1>1. UNCHANGED <<initiating, verification, active, asked, answers, now>>
  BY DEF CallStep, StartAggregate, ServeResponses
<1>2. \A d \in Calls \ {c} : call'[d] = call[d]
  BY DEF CallStep, StartAggregate, ServeResponses, StableInv, SupportInv, ConsensusTypeOK
<1>3. CASE StartAggregate(c)
  <2>1. /\ active # None /\ active \in Requests
        /\ call' = [call EXCEPT ![c] = [IdleCall EXCEPT !.pc = "fetch", !.request = active]]
    BY <1>3 DEF StartAggregate, StableInv, SupportInv, ConsensusTypeOK
  <2>2. call'[c].pc = "fetch" /\ call'[c].request = active
    BY <2>1 DEF StableInv, SupportInv, ConsensusTypeOK, IdleCall
  <2>3. \A d \in Calls : call'[d].pc # "idle" => initiating[call'[d].request].pc = "done"
    BY <1>2, <2>1, <2>2 DEF StableInv
  <2>4. \A d \in Calls : call'[d].pc = "served" =>
           Within(verification[call'[d].request].responses, call'[d].reply)
    BY <1>2, <2>2 DEF StableInv
  <2> QED
    BY <1>1, <2>3, <2>4 DEF StableInv, StaysReached
<1>4. CASE ServeResponses(c)
  <2>1. call' = [call EXCEPT ![c].pc = "served", ![c].reply = answers] /\ call[c].pc = "fetch"
    BY <1>4 DEF ServeResponses
  <2>2. call'[c].reply = answers /\ call'[c].request = call[c].request
    BY <2>1 DEF StableInv, SupportInv, ConsensusTypeOK, Call
  <2>3. call[c].request \in Requests
    BY <2>1 DEF StableInv, SupportInv, AnswersInv
  <2>4. Within(verification[call[c].request].responses, answers)
    BY <2>3 DEF StableInv, SupportInv, AnswersInv
  <2>5. \A d \in Calls : call'[d].pc # "idle" => initiating[call'[d].request].pc = "done"
    BY <1>2, <2>1, <2>2 DEF StableInv
  <2>6. \A d \in Calls : call'[d].pc = "served" =>
           Within(verification[call'[d].request].responses, call'[d].reply)
    BY <1>2, <2>2, <2>4 DEF StableInv
  <2> QED
    BY <1>1, <2>5, <2>6 DEF StableInv, StaysReached
<1> QED
  BY <1>3, <1>4 DEF CallStep

LEMMA AggregateStable ==
    ASSUME StableInv, SupportInv', CallsApart, NEW c \in Calls, Aggregate(c)
    PROVE  StableInv' /\ StaysReached
<1> DEFINE r == call[c].request
<1>1. SupportInv
  BY DEF StableInv
<1>2. PICK R \in Answers :
              /\ r \in Requests
              /\ R = verification[r].responses \/ (call[c].pc = "served" /\ R = call[c].reply)
              /\ Within(R, answers)
              /\ verification' = [verification EXCEPT ![r] = Evaluate(verification[r], R)]
              /\ call' = [call EXCEPT ![c] = IdleCall]
              /\ UNCHANGED <<initiating, active, asked, answers, now>>
  BY <1>1, AggregateStep
<1>3. verification[r] \in Verification /\ ConsensusTypeOK
  BY <1>1, <1>2 DEF SupportInv, ConsensusTypeOK
<1>4. Within(verification[r].responses, R)
  <2>1. CASE R = verification[r].responses
    BY <2>1 DEF Within
  <2>2. CASE call[c].pc = "served" /\ R = call[c].reply
    BY <2>2 DEF StableInv
  <2> QED
    BY <1>2, <2>1, <2>2
<1>5. PICK e : e = Evaluate(verification[r], R)
  OBVIOUS
<1>6. e.responses = R
  BY <1>3, <1>5, EvaluateType
<1>7. verification[r].status = "consensus_reached" =>
          LargestCluster(verification[r].responses) >= RequiredConsensus
  BY <1>2 DEF StableInv
<1>8. /\ e.status = "consensus_reached" => LargestCluster(R) >= RequiredConsensus
      /\ (verification[r].status = "consensus_reached" /\ now <= verification[r].deadline)
             => e.status = "consensus_reached"
  BY <1>3, <1>4, <1>5, <1>7, EvaluateIsStable
<1>9. verification'[r] = e /\ \A q \in Requests \ {r} : verification'[q] = verification[q]
  BY <1>2, <1>3, <1>5 DEF ConsensusTypeOK
<1>10. \A d \in Calls : call'[d].pc = "idle"
  BY <1>2, <1>3 DEF CallsApart, ConsensusTypeOK, IdleCall, Aggregate
<1>11. initiating[r].pc = "done"
  <2>1. call[c].pc # "idle"
    BY DEF Aggregate
  <2> QED
    BY <2>1 DEF StableInv
<1> HIDE DEF r
<1>12. StaysReached
  BY <1>8, <1>9 DEF StaysReached
<1>13. \A q \in Requests : verification'[q].status = "consensus_reached" =>
           LargestCluster(verification'[q].responses) >= RequiredConsensus
  BY <1>6, <1>8, <1>9 DEF StableInv
<1>14. \A q \in Requests : initiating'[q].pc # "done" => verification'[q].status = "none"
  BY <1>2, <1>9, <1>11 DEF StableInv
<1> QED
  BY <1>2, <1>10, <1>12, <1>13, <1>14 DEF StableInv

LEMMA ClockStable ==
    ASSUME StableInv, SupportInv',
           \/ \E v \in Verifiers : HandleVerificationRequest(v)
           \/ CheckVerificationTimeouts \/ PassTime
    PROVE  StableInv' /\ StaysReached
<1>1. UNCHANGED <<initiating, active, call>>
  BY DEF HandleVerificationRequest, CheckVerificationTimeouts, PassTime
<1>2. CASE ~CheckVerificationTimeouts
  <2>1. UNCHANGED verification
    BY <1>2 DEF HandleVerificationRequest, PassTime
  <2> QED
    BY <1>1, <2>1 DEF StableInv, StaysReached
<1>3. CASE CheckVerificationTimeouts
  <2>1. /\ active \in Requests /\ verification[active].status = "pending"
        /\ verification' = [verification EXCEPT ![active].status = "timeout"]
    BY <1>3 DEF CheckVerificationTimeouts, StableInv, SupportInv, ConsensusTypeOK, Unresolved
  <2>2. /\ verification'[active].status = "timeout"
        /\ \A q \in Requests : verification'[q].responses = verification[q].responses
        /\ \A q \in Requests \ {active} : verification'[q] = verification[q]
    BY <2>1 DEF StableInv, SupportInv, ConsensusTypeOK, Verification
  <2>3. StaysReached
    BY <2>1, <2>2 DEF StaysReached
  <2>4. \A q \in Requests : verification'[q].status = "consensus_reached" =>
           LargestCluster(verification'[q].responses) >= RequiredConsensus
    BY <2>2 DEF StableInv
  <2>5. \A q \in Requests : initiating[q].pc # "done" => verification'[q].status = "none"
    BY <2>1, <2>2 DEF StableInv
  <2>6. \A d \in Calls : call[d].pc = "served" =>
           Within(verification'[call[d].request].responses, call[d].reply)
    <3>1. \A d \in Calls : call[d].pc # "idle" => call[d].request \in Requests
      BY DEF StableInv, SupportInv, AnswersInv
    <3> QED
      BY <2>2, <3>1 DEF StableInv
  <2> QED
    BY <1>1, <2>3, <2>4, <2>5, <2>6 DEF StableInv
<1> QED
  BY <1>2, <1>3

LEMMA StableNext ==
    ASSUME StableInv, CallsApart, [ConsensusNext]_consensusVars
    PROVE  StableInv' /\ StaysReached
<1>1. SupportInv'
  BY SupportNext DEF StableInv
<1>2. ASSUME NEW r \in Requests, \/ Initiate(r) \/ SelectVerifiers(r) \/ SelectionFails(r)
                                 \/ Initiated(r) \/ SubmissionFails(r)
      PROVE  StableInv' /\ StaysReached
  BY <1>1, <1>2, InitiationStable DEF InitiationStep
<1>3. CASE \/ \E v \in Verifiers : HandleVerificationRequest(v)
           \/ CheckVerificationTimeouts \/ PassTime
  BY <1>1, <1>3, ClockStable
<1>4. ASSUME NEW c \in Calls, StartAggregate(c) \/ ServeResponses(c) \/ Aggregate(c)
      PROVE  StableInv' /\ StaysReached
  BY <1>1, <1>4, CallStable, AggregateStable DEF CallStep
<1>5. CASE UNCHANGED consensusVars
  BY <1>1, <1>5 DEF consensusVars, StableInv, StaysReached
<1> QED
  BY <1>2, <1>3, <1>4, <1>5 DEF ConsensusNext

\* Until its deadline a consensus stays, if no two aggregations are in flight.
THEOREM ConsensusIsAlwaysStable == ConsensusSpec /\ []CallsApart => ConsensusIsStable
<1>1. StableInv /\ CallsApart /\ [ConsensusNext]_consensusVars => StableInv'
  BY StableNext
<1>2. StableInv /\ CallsApart /\ [ConsensusNext]_consensusVars => StaysReached
  BY StableNext
<1>3. StaysReached =>
        [\A r \in Requests :
          (verification[r].status = "consensus_reached" /\ now <= verification[r].deadline)
              => verification'[r].status = "consensus_reached"]_consensusVars
  BY DEF StaysReached
<1> QED
  BY StableInit, <1>1, <1>2, <1>3, PTL DEF ConsensusSpec, ConsensusIsStable

-------------------------------------------------------------------------------
(* The effective stake                                                     *)

BondApplied == \E p \in Places : request[p].op = "bond" /\ request[p].applied

\* While changes have not crossed there is one of them at most.  A bond that took
\* effect stands until its answer is read; a stake that is bonded leaves only by an
\* unbonding whose answer is on its way; and it is held, with what a slashing that was
\* recorded will take away.
Backed ==
    /\ \A p, q \in Places : IsChange(request[p]) /\ IsChange(request[q]) => p = q
    /\ \A p \in Places : request[p].op = "bond" /\ request[p].applied =>
           held = request[p].amount /\ ~leaving
    /\ stake.status = "bonded" /\ leaving =>
           \E p \in Places : request[p].op = "unbond" /\ request[p].applied
    /\ stake.status = "bonded" /\ ~BondApplied => stake.amount <= held
    /\ stake.status = "bonded" =>
           \A p \in Places : request[p].op = "slash" /\ ~request[p].applied =>
               stake.amount <= Less(held, request[p].amount)

BackedInv ==
    /\ StakeTypeOK
    /\ stake.effectiveStake = stake.amount + stake.delegatedAmount
    /\ ~crossed => Backed

LEMMA AmountTypes == \A amount \in Amounts \cup {0} : amount \in Nat
BY StakeAssumption

LEMMA StakeTypes ==
    ASSUME StakeTypeOK
    PROVE  /\ stake.amount \in Nat /\ stake.delegatedAmount \in Nat /\ held \in Nat
           /\ \A p \in Places : request[p].amount \in Nat /\ request[p].applied \in BOOLEAN
           /\ \A r \in late : r.amount \in Nat
           /\ crossed \in BOOLEAN /\ leaving \in BOOLEAN
<1>1. \A amount \in Amounts \cup {0} : amount \in Nat
  BY AmountTypes, Zenon
<1>2. stake.amount \in Nat /\ stake.delegatedAmount \in Nat /\ held \in Nat
  BY DEF StakeTypeOK, Stake
<1>3. ASSUME NEW p \in Places PROVE request[p].amount \in Nat /\ request[p].applied \in BOOLEAN
  <2>1. request[p] \in StakeRequest
    BY DEF StakeTypeOK
  <2>2. request[p].amount \in Amounts \cup {0} /\ request[p].applied \in BOOLEAN
    BY <2>1 DEF StakeRequest
  <2> QED
    BY <1>1, <2>2, Zenon
<1>4. ASSUME NEW r \in late PROVE r.amount \in Nat
  <2>1. r \in Change
    BY DEF StakeTypeOK
  <2>2. r.amount \in Amounts \cup {0}
    BY <2>1 DEF Change
  <2> QED
    BY <1>1, <2>2, Zenon
<1>5. crossed \in BOOLEAN /\ leaving \in BOOLEAN
  BY DEF StakeTypeOK
<1> QED
  BY <1>2, <1>3, <1>4, <1>5, Zenon

\* What taking effect leaves on the chain.
LEMMA EffectType ==
    ASSUME NEW r, TakesEffect(r), r.amount \in Nat, held \in Nat, leaving \in BOOLEAN
    PROVE  held' \in Nat /\ leaving' \in BOOLEAN
<1>1. CASE r.op = "bond"
  BY <1>1 DEF TakesEffect
<1>2. CASE r.op = "slash"
  <2>1. held' = Less(held, r.amount) /\ leaving' = leaving
    BY <1>2 DEF TakesEffect
  <2>2. Less(held, r.amount) \in Nat
    BY DEF Less
  <2> QED
    BY <2>1, <2>2
<1>3. CASE r.op = "unbond"
  BY <1>3 DEF TakesEffect
<1>4. CASE r.op \notin {"bond", "slash", "unbond"}
  BY <1>4 DEF TakesEffect
<1> QED
  BY <1>1, <1>2, <1>3, <1>4

LEMMA UpdateType ==
    ASSUME NEW s \in Stake, NEW t, t = UpdateEffectiveStake(s)
    PROVE  /\ t \in Stake /\ t.effectiveStake = t.amount + t.delegatedAmount
           /\ t.amount = s.amount /\ t.delegatedAmount = s.delegatedAmount /\ t.status = s.status
BY DEF UpdateEffectiveStake, Stake

\* What a request in flight becomes.
LEMMA RequestSet ==
    ASSUME StakeTypeOK, NEW p \in Places, NEW r \in StakeRequest,
           request' = [request EXCEPT ![p] = r]
    PROVE  /\ request' \in [Places -> StakeRequest] /\ request'[p] = r
           /\ \A q \in Places : q # p => request'[q] = request[q]
BY DEF StakeTypeOK

LEMMA IdleType ==
    /\ Idle \in StakeRequest /\ ~IsChange(Idle) /\ Idle.op = "none" /\ Idle.applied = FALSE
BY DEF Idle, StakeRequest, IsChange

\* A step of the node or the chain that sends a request, from what it does.
LEMMA SendKeeps ==
    ASSUME BackedInv, NEW p \in Places, NEW r, Send(p, r),
           r.op \in {"bond", "slash", "unbond", "delegations"}, r.amount \in Amounts \cup {0},
           stake' \in Stake, stake'.effectiveStake = stake'.amount + stake'.delegatedAmount,
           stake'.status = stake.status,
           stake'.amount = IF r.op = "slash" THEN Less(stake.amount, r.amount) ELSE stake.amount
    PROVE  BackedInv'
<1>1. PICK n : n = [op |-> r.op, amount |-> r.amount, applied |-> FALSE]
  OBVIOUS
<1>2. n \in StakeRequest /\ n.op = r.op /\ n.amount = r.amount /\ n.applied = FALSE
  BY <1>1 DEF StakeRequest
<1>3. /\ request[p] = Idle /\ request' = [request EXCEPT ![p] = n]
      /\ crossed' = (crossed \/ (IsChange(r) /\ Changing))
      /\ UNCHANGED <<held, leaving, late>>
  BY <1>1 DEF Send
<1>4. /\ request' \in [Places -> StakeRequest] /\ request'[p] = n
      /\ \A q \in Places : q # p => request'[q] = request[q]
  BY <1>2, <1>3, RequestSet DEF BackedInv
<1>5. StakeTypeOK'
  <2>1. crossed' \in BOOLEAN
    BY <1>3, StakeTypes DEF BackedInv, IsChange, Changing
  <2> QED
    BY <1>3, <1>4, <2>1 DEF BackedInv, StakeTypeOK
<1>6. ASSUME ~crossed' PROVE Backed'
  <2>1. ~crossed /\ (IsChange(r) => ~Changing) /\ Backed
    BY <1>3, <1>6, StakeTypes DEF BackedInv
  <2>2. IsChange(n) <=> IsChange(r)
    BY <1>2 DEF IsChange
  <2>3. BondApplied' = BondApplied
    <3>1. \A q \in Places : (request'[q].op = "bond" /\ request'[q].applied)
                              <=> (request[q].op = "bond" /\ request[q].applied)
      BY <1>2, <1>3, <1>4, IdleType
    <3> QED
      BY <3>1 DEF BondApplied
  <2>4. ASSUME NEW q \in Places, NEW z \in Places, IsChange(request'[q]), IsChange(request'[z])
        PROVE  q = z
    BY <1>4, <2>1, <2>2, <2>4 DEF Backed, Changing
  <2>5. ASSUME NEW q \in Places, request'[q].op = "bond", request'[q].applied
        PROVE  held' = request'[q].amount /\ ~leaving'
    BY <1>2, <1>3, <1>4, <2>1, <2>5 DEF Backed
  <2>6. ASSUME stake'.status = "bonded", leaving'
        PROVE  \E q \in Places : request'[q].op = "unbond" /\ request'[q].applied
    <3>1. PICK q \in Places : request[q].op = "unbond" /\ request[q].applied
      BY <1>3, <2>1, <2>6 DEF Backed
    <3> QED
      BY <1>3, <1>4, <3>1, IdleType
  <2>7. stake'.amount <= stake.amount /\ stake'.amount \in Nat
    <3>1. stake.amount \in Nat
      BY StakeTypes DEF BackedInv
    <3>2. r.amount \in Nat
      BY AmountTypes, Zenon
    <3> QED
      BY <3>1, <3>2 DEF Less
  <2>8. ASSUME stake'.status = "bonded", ~BondApplied' PROVE stake'.amount <= held'
    BY <1>3, <2>1, <2>3, <2>7, <2>8, StakeTypes DEF Backed, BackedInv
  <2>9. ASSUME stake'.status = "bonded", NEW q \in Places,
               request'[q].op = "slash", ~request'[q].applied
        PROVE  stake'.amount <= Less(held', request'[q].amount)
    <3>1. CASE q = p
      <4>1. r.op = "slash" /\ request'[q].amount = r.amount
        BY <1>2, <1>4, <2>9, <3>1
      <4>2. ~BondApplied
        BY <2>1, <4>1 DEF IsChange, Changing, BondApplied
      <4>3. stake.amount <= held
        BY <2>1, <2>9, <4>2 DEF Backed
      <4>4. stake.amount \in Nat /\ held \in Nat
        BY StakeTypes DEF BackedInv
      <4>6. r.amount \in Nat
        BY AmountTypes, Zenon
      <4>5. Less(stake.amount, r.amount) <= Less(held, r.amount)
        BY <4>3, <4>4, <4>6 DEF Less
      <4> QED
        BY <1>3, <4>1, <4>5
    <3>2. CASE q # p
      <4>1. request'[q] = request[q]
        BY <1>4, <3>2
      <4>2. stake.amount <= Less(held, request[q].amount)
        BY <2>1, <2>9, <4>1 DEF Backed
      <4>3. Less(held, request[q].amount) \in Nat
        BY StakeTypes DEF BackedInv, Less
      <4> QED
        BY <1>3, <2>7, <4>1, <4>2, <4>3, StakeTypes DEF BackedInv
    <3> QED
      BY <3>1, <3>2
  <2> QED
    BY <2>4, <2>5, <2>6, <2>8, <2>9 DEF Backed
<1> QED
  BY <1>5, <1>6 DEF BackedInv

\* The answer to a request, or the end of waiting for one.
LEMMA EndKeeps ==
    ASSUME BackedInv, NEW p \in Places, request' = [request EXCEPT ![p] = Idle],
           UNCHANGED <<held, leaving>>, late' \subseteq Change, crossed' \in BOOLEAN,
           crossed => crossed',
           stake' \in Stake, stake'.effectiveStake = stake'.amount + stake'.delegatedAmount,
           \/ /\ request[p].op = "bond" /\ request[p].applied
              /\ stake'.amount = request[p].amount
           \/ /\ request[p].op = "unbond" /\ stake'.status # "bonded"
           \/ /\ stake'.amount = stake.amount /\ stake'.status = stake.status
              /\ request[p].applied /\ request[p].op \in {"bond", "unbond"} => crossed'
    PROVE  BackedInv'
<1>1. /\ request' \in [Places -> StakeRequest] /\ request'[p] = Idle
      /\ \A q \in Places : q # p => request'[q] = request[q]
  BY RequestSet, IdleType DEF BackedInv
<1>2. StakeTypeOK'
  BY <1>1 DEF BackedInv, StakeTypeOK
<1>3. ASSUME ~crossed' PROVE Backed'
  <2>1. ~crossed /\ Backed
    BY <1>3 DEF BackedInv
  <2>2. \A q \in Places : request'[q].op # "none" => q # p /\ request'[q] = request[q]
    BY <1>1, IdleType
  <2>3. ASSUME NEW q \in Places, NEW z \in Places, IsChange(request'[q]), IsChange(request'[z])
        PROVE  q = z
    BY <1>1, <2>1, <2>3, IdleType DEF Backed
  <2>4. ASSUME NEW q \in Places, request'[q].op = "bond", request'[q].applied
        PROVE  held' = request'[q].amount /\ ~leaving'
    BY <2>1, <2>2, <2>4 DEF Backed
  <2>5. CASE request[p].op = "bond" /\ request[p].applied /\ stake'.amount = request[p].amount
    <3>1. held = request[p].amount /\ ~leaving
      BY <2>1, <2>5 DEF Backed
    <3>2. \A q \in Places : ~IsChange(request'[q])
      BY <1>1, <2>1, <2>5, IdleType DEF Backed, IsChange
    <3>3. \A q \in Places : request'[q].op # "slash"
      BY <3>2 DEF IsChange
    <3>4. stake'.amount <= held'
      BY <2>5, <3>1, StakeTypes DEF BackedInv
    <3> QED
      BY <2>3, <2>4, <3>1, <3>3, <3>4 DEF Backed
  <2>6. CASE request[p].op = "unbond" /\ stake'.status # "bonded"
    BY <2>3, <2>4, <2>6 DEF Backed
  <2>7. CASE /\ stake'.amount = stake.amount /\ stake'.status = stake.status
             /\ request[p].applied /\ request[p].op \in {"bond", "unbond"} => crossed'
    <3>1. ~(request[p].applied /\ request[p].op \in {"bond", "unbond"})
      BY <1>3, <2>7
    <3>2. ASSUME stake'.status = "bonded", leaving'
          PROVE  \E q \in Places : request'[q].op = "unbond" /\ request'[q].applied
      <4>1. PICK q \in Places : request[q].op = "unbond" /\ request[q].applied
        BY <2>1, <2>7, <3>2 DEF Backed
      <4> QED
        BY <1>1, <3>1, <4>1
    <3>3. ASSUME stake'.status = "bonded", ~BondApplied' PROVE stake'.amount <= held'
      <4>1. ~BondApplied
        BY <1>1, <3>1, <3>3 DEF BondApplied
      <4> QED
        BY <2>1, <2>7, <3>3, <4>1 DEF Backed
    <3>4. ASSUME stake'.status = "bonded", NEW q \in Places,
                 request'[q].op = "slash", ~request'[q].applied
          PROVE  stake'.amount <= Less(held', request'[q].amount)
      BY <2>1, <2>2, <2>7, <3>4 DEF Backed
    <3> QED
      BY <2>3, <2>4, <3>2, <3>3, <3>4 DEF Backed
  <2> QED
    BY <2>5, <2>6, <2>7
<1> QED
  BY <1>2, <1>3 DEF BackedInv

\* A request takes effect on the chain.
LEMMA ApplyKeeps ==
    ASSUME BackedInv, NEW p \in Places, Apply(p)
    PROVE  BackedInv'
<1>1. PICK r : r = request[p]
  OBVIOUS
<1>2. PICK n : n = [r EXCEPT !.applied = TRUE]
  OBVIOUS
<1>3. /\ r.op # "none" /\ ~r.applied /\ TakesEffect(r)
      /\ request' = [request EXCEPT ![p] = n] /\ UNCHANGED <<stake, late, crossed>>
  BY <1>1, <1>2 DEF Apply
<1>4. r \in StakeRequest /\ r.amount \in Nat /\ held \in Nat
  BY <1>1, StakeTypes DEF BackedInv, StakeTypeOK
<1>5. n \in StakeRequest /\ n.op = r.op /\ n.amount = r.amount /\ n.applied = TRUE
  BY <1>2, <1>4 DEF StakeRequest
<1>6. /\ request' \in [Places -> StakeRequest] /\ request'[p] = n
      /\ \A q \in Places : q # p => request'[q] = request[q]
  BY <1>3, <1>5, RequestSet DEF BackedInv
<1>7. held' \in Nat /\ leaving' \in BOOLEAN
  BY <1>3, <1>4, StakeTypes, EffectType DEF BackedInv
<1>8. StakeTypeOK'
  BY <1>3, <1>6, <1>7 DEF BackedInv, StakeTypeOK
<1>9. ASSUME ~crossed' PROVE Backed'
  <2>1. Backed
    BY <1>3, <1>9 DEF BackedInv
  <2>2. ASSUME NEW q \in Places, NEW z \in Places, IsChange(request'[q]), IsChange(request'[z])
        PROVE  q = z
    BY <1>1, <1>5, <1>6, <2>1, <2>2 DEF Backed, IsChange
  <2>3. IsChange(r) => \A q \in Places : q # p => ~IsChange(request[q])
    BY <1>1, <2>1 DEF Backed
  <2>4. CASE r.op = "delegations"
    <3>1. held' = held /\ leaving' = leaving
      BY <1>3, <2>4 DEF TakesEffect
    <3>2. BondApplied' <=> BondApplied
      BY <1>1, <1>5, <1>6, <2>4 DEF BondApplied
    <3>3. ASSUME NEW q \in Places, request'[q].op = "bond", request'[q].applied
          PROVE  held' = request'[q].amount /\ ~leaving'
      BY <1>5, <1>6, <2>1, <2>4, <3>1, <3>3 DEF Backed
    <3>4. ASSUME stake.status = "bonded", leaving'
          PROVE  \E q \in Places : request'[q].op = "unbond" /\ request'[q].applied
      BY <1>1, <1>6, <2>1, <2>4, <3>1, <3>4 DEF Backed
    <3>5. ASSUME stake.status = "bonded", NEW q \in Places,
                 request'[q].op = "slash", ~request'[q].applied
          PROVE  stake.amount <= Less(held', request'[q].amount)
      BY <1>5, <1>6, <2>1, <2>4, <3>1, <3>5 DEF Backed
    <3> QED
      BY <1>3, <2>1, <2>2, <3>1, <3>2, <3>3, <3>4, <3>5 DEF Backed
  <2>5. CASE r.op = "bond"
    <3>1. held' = r.amount /\ leaving' = FALSE
      BY <1>3, <2>5 DEF TakesEffect
    <3>2. BondApplied'
      BY <1>5, <1>6, <2>5 DEF BondApplied
    <3>3. \A q \in Places : q # p => ~IsChange(request'[q])
      BY <1>6, <2>3, <2>5 DEF IsChange
    <3>4. \A q \in Places : request'[q].op = "bond" \/ request'[q].op = "slash" => q = p
      BY <3>3 DEF IsChange
    <3> QED
      BY <1>3, <1>5, <1>6, <2>2, <2>5, <3>1, <3>2, <3>4 DEF Backed
  <2>6. CASE r.op = "unbond"
    <3>1. held' = held /\ leaving' = TRUE
      BY <1>3, <2>6 DEF TakesEffect
    <3>2. \A q \in Places : q # p => ~IsChange(request'[q])
      BY <1>6, <2>3, <2>6 DEF IsChange
    <3>3. \A q \in Places : request'[q].op # "bond" /\ request'[q].op # "slash"
      BY <1>5, <1>6, <2>6, <3>2 DEF IsChange
    <3>4. ~BondApplied
      BY <1>1, <2>3, <2>6 DEF BondApplied, IsChange
    <3> QED
      BY <1>3, <1>5, <1>6, <2>1, <2>2, <2>6, <3>1, <3>3, <3>4 DEF Backed
  <2>7. CASE r.op = "slash"
    <3>1. held' = Less(held, r.amount) /\ leaving' = leaving
      BY <1>3, <2>7 DEF TakesEffect
    <3>2. \A q \in Places : q # p => ~IsChange(request'[q]) /\ ~IsChange(request[q])
      BY <1>6, <2>3, <2>7 DEF IsChange
    <3>3. /\ \A q \in Places : request'[q].op # "bond" /\ request[q].op # "unbond"
          /\ \A q \in Places : request'[q].op = "slash" => request'[q].applied
      BY <1>1, <1>5, <1>6, <2>7, <3>2 DEF IsChange
    <3>4. stake.status = "bonded" => stake.amount <= held'
      BY <1>1, <1>3, <2>1, <2>7, <3>1 DEF Backed
    <3>5. stake.status = "bonded" => ~leaving'
      BY <2>1, <3>1, <3>3 DEF Backed
    <3> QED
      BY <1>3, <2>2, <3>3, <3>4, <3>5 DEF Backed
  <2> QED
    BY <1>3, <1>4, <2>4, <2>5, <2>6, <2>7 DEF StakeRequest
<1> QED
  BY <1>3, <1>8, <1>9 DEF BackedInv

\* What the chain does late or of its own.
LEMMA ChainKeeps ==
    ASSUME BackedInv, (\E r \in late : ApplyLate(r)) \/ Release \/ UNCHANGED stakeVars
    PROVE  BackedInv'
<1>1. CASE UNCHANGED stakeVars
  BY <1>1 DEF stakeVars, BackedInv, StakeTypeOK, Backed, BondApplied
<1>2. ASSUME NEW r \in late, ApplyLate(r) PROVE BackedInv'
  <2>1. r.amount \in Nat /\ held \in Nat /\ leaving \in BOOLEAN
    BY <1>2, StakeTypes DEF BackedInv
  <2>2. held' \in Nat /\ leaving' \in BOOLEAN /\ crossed' = TRUE /\ late' \subseteq late
    BY <1>2, <2>1, EffectType DEF ApplyLate
  <2> QED
    BY <1>2, <2>2 DEF BackedInv, StakeTypeOK, ApplyLate
<1>3. CASE Release
  <2>1. /\ leaving /\ \A p \in Places : request[p].op # "unbond"
        /\ held' = 0 /\ leaving' = FALSE /\ UNCHANGED <<stake, request, late, crossed>>
    BY <1>3 DEF Release
  <2>2. StakeTypeOK'
    BY <2>1 DEF BackedInv, StakeTypeOK
  <2>3. ASSUME ~crossed PROVE Backed'
    <3>1. Backed
      BY <2>3 DEF BackedInv
    <3>2. stake.status # "bonded" /\ \A p \in Places : ~(request[p].op = "bond" /\ request[p].applied)
      BY <2>1, <3>1 DEF Backed
    <3> QED
      BY <2>1, <3>1, <3>2 DEF Backed
  <2> QED
    BY <2>1, <2>2, <2>3 DEF BackedInv
<1> QED
  BY <1>1, <1>2, <1>3

LEMMA BackedInit == StakeInit => BackedInv
<1> SUFFICES ASSUME StakeInit PROVE BackedInv
  OBVIOUS
<1>1. StakeTypeOK
  BY StakeAssumption, IdleType DEF StakeInit, StakeTypeOK, Stake
<1>2. stake.effectiveStake = stake.amount + stake.delegatedAmount
  BY StakeAssumption DEF StakeInit
<1>3. Backed
  BY IdleType DEF StakeInit, Backed
<1> QED
  BY <1>1, <1>2, <1>3 DEF BackedInv

LEMMA BackedNext == BackedInv /\ [StakeNext]_stakeVars => BackedInv'
<1> SUFFICES ASSUME BackedInv, [StakeNext]_stakeVars PROVE BackedInv'
  OBVIOUS
<1>1. stake \in Stake /\ stake.effectiveStake = stake.amount + stake.delegatedAmount
  BY DEF BackedInv, StakeTypeOK
<1>2. ASSUME NEW p \in Places, NEW amount \in Amounts, BondStake(p, amount) PROVE BackedInv'
  BY <1>1, <1>2, SendKeeps DEF BondStake
<1>3. ASSUME NEW p \in Places, NEW amount \in Amounts, HandleSlashing(p, amount) PROVE BackedInv'
  <2>1. PICK s : s = [stake EXCEPT !.amount = Less(stake.amount, amount)]
    OBVIOUS
  <2>2. Less(stake.amount, amount) \in Nat
    BY <1>1, StakeAssumption DEF Stake, Less
  <2>3. s \in Stake /\ s.amount = Less(stake.amount, amount) /\ s.status = stake.status
    BY <1>1, <2>1, <2>2 DEF Stake
  <2>4. /\ stake' \in Stake /\ stake'.effectiveStake = stake'.amount + stake'.delegatedAmount
        /\ stake'.amount = s.amount /\ stake'.status = s.status
    BY <1>3, <2>1, <2>3, UpdateType DEF HandleSlashing
  <2> QED
    BY <1>3, <2>3, <2>4, SendKeeps DEF HandleSlashing
<1>4. ASSUME NEW p \in Places, UnbondStake(p) PROVE BackedInv'
  BY <1>1, <1>4, SendKeeps DEF UnbondStake
<1>5. ASSUME NEW p \in Places, LoadDelegations(p) PROVE BackedInv'
  BY <1>1, <1>5, SendKeeps DEF LoadDelegations, Load
<1>6. late \subseteq Change /\ crossed \in BOOLEAN /\ \A p \in Places : request[p] \in StakeRequest
  BY DEF BackedInv, StakeTypeOK
<1>7. ASSUME NEW p \in Places, Bonded(p) PROVE BackedInv'
  <2>1. PICK s : s = [stake EXCEPT !.amount = request[p].amount, !.status = "bonded"]
    OBVIOUS
  <2>2. request[p].amount \in Nat
    BY StakeTypes DEF BackedInv
  <2>3. s \in Stake /\ s.amount = request[p].amount
    BY <1>1, <2>1, <2>2 DEF Stake
  <2>4. /\ stake' \in Stake /\ stake'.effectiveStake = stake'.amount + stake'.delegatedAmount
        /\ stake'.amount = s.amount
    BY <1>7, <2>1, <2>3, UpdateType DEF Bonded
  <2> QED
    BY <1>6, <1>7, <2>3, <2>4, EndKeeps DEF Bonded, Done
<1>8. ASSUME NEW p \in Places, Unbonding(p) PROVE BackedInv'
  <2>1. /\ stake' \in Stake /\ stake'.status = "unbonding"
        /\ stake'.effectiveStake = stake'.amount + stake'.delegatedAmount
    BY <1>1, <1>8 DEF Unbonding, Stake
  <2> QED
    BY <1>6, <1>8, <2>1, EndKeeps DEF Unbonding, Done
<1>9. ASSUME NEW p \in Places, DelegationsLoaded(p) PROVE BackedInv'
  <2>1. PICK total \in Totals :
            stake' = UpdateEffectiveStake([stake EXCEPT !.delegatedAmount = total])
    BY <1>9 DEF DelegationsLoaded
  <2>2. PICK s : s = [stake EXCEPT !.delegatedAmount = total]
    OBVIOUS
  <2>3. s \in Stake /\ s.amount = stake.amount /\ s.status = stake.status
    BY <1>1, <2>2, StakeAssumption DEF Stake
  <2>4. /\ stake' \in Stake /\ stake'.effectiveStake = stake'.amount + stake'.delegatedAmount
        /\ stake'.amount = s.amount /\ stake'.status = s.status
    BY <2>1, <2>2, <2>3, UpdateType
  <2> QED
    BY <1>6, <1>9, <2>3, <2>4, EndKeeps DEF DelegationsLoaded, Done
<1>10. ASSUME NEW p \in Places, SlashingReported(p) PROVE BackedInv'
  BY <1>1, <1>6, <1>10, EndKeeps DEF SlashingReported, Done
<1>11. ASSUME NEW p \in Places, RequestFails(p) PROVE BackedInv'
  <2>1. late' \subseteq Change
    <3>1. IsChange(request[p]) => [op |-> request[p].op, amount |-> request[p].amount] \in Change
      BY <1>6 DEF IsChange, StakeRequest, Change
    <3> QED
      BY <1>6, <1>11, <3>1 DEF RequestFails
  <2>2. crossed' \in BOOLEAN /\ (crossed => crossed')
    BY <1>6, <1>11 DEF RequestFails, StakeRequest
  <2> QED
    BY <1>1, <1>11, <2>1, <2>2, EndKeeps DEF RequestFails
<1>12. ASSUME NEW p \in Places, Apply(p) PROVE BackedInv'
  BY <1>12, ApplyKeeps
<1> QED
  BY <1>2, <1>3, <1>4, <1>5, <1>7, <1>8, <1>9, <1>10, <1>11, <1>12, ChainKeeps DEF StakeNext

\* The stake the node goes by once it has bonded is backed by what the chain holds and
\* what is delegated, for any amounts and any number of requests in flight, through lost
\* answers and requests, unless changes of the stake cross (StakeManager.ts:27-160,
\* 204-257).
THEOREM EffectiveStakeIsAlwaysBacked == StakeSpec => []EffectiveStakeIsBacked
<1>1. BackedInv => EffectiveStakeIsBacked
  <2> SUFFICES ASSUME BackedInv, ~crossed, stake.status = "bonded",
                      \A p \in Places : request[p].op # "bond"
               PROVE  stake.effectiveStake <= held + stake.delegatedAmount
    BY DEF EffectiveStakeIsBacked
  <2>1. stake.amount <= held
    BY DEF BackedInv, Backed, BondApplied
  <2> QED
    BY <2>1, StakeTypes DEF BackedInv
<1> QED
  BY <1>1, BackedInit, BackedNext, PTL DEF StakeSpec
===============================================================================
