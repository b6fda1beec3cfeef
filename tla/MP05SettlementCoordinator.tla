----------------------- MODULE MP05SettlementCoordinator -----------------------
(***************************************************************************)
(* _deferred/src/settlement/MP05SettlementCoordinator.ts: settlements and  *)
(* their capitalization over the licences and delegations they refer to,   *)
(* with a clock, refused writes and restarts.  Every call runs to its end. *)
(***************************************************************************)
EXTENDS MP05CapitalizationManager

CONSTANTS
    MaxCalls,           \* bound: calls of all the interfaces in a behaviour
    MaxRestarts         \* bound: restarts in a behaviour

VARIABLES calls, restarts

vars == <<licensingVars, settlementVars, riskVars, capitalizationVars, now, failedSaves, calls, restarts>>

\* The type invariant of licences, delegations, settlements and value.
TypeOK ==
    /\ LicensingTypeOK
    /\ \A s \in DOMAIN settlements : settlements[s] \in Settlement
    /\ risks \subseteq SettlementRisk
    /\ \A e \in DOMAIN events : events[e] \in CapitalizationEvent
    /\ interfaces \subseteq CapitalizationInterface
    /\ \A e \in DOMAIN executions : executions[e] \in ExecutionMetadata
    /\ failedSaves \in 0..MaxFailedSaves /\ now \in 0..MaxTime

Init ==
    /\ LicensingInit /\ SettlementInit /\ CapitalizationInit
    /\ now = 0 /\ failedSaves = 0 /\ calls = 0 /\ restarts = 0

Call == calls < MaxCalls /\ calls' = calls + 1 /\ UNCHANGED restarts

SettlementCall ==
    /\ \E lost \in BOOLEAN :
        \/ \E terms \in SettlementTerms, otherwiseValid \in BOOLEAN, lostRisk \in BOOLEAN :
            InitiateSettlement(terms, otherwiseValid, lostRisk, lost)
        \/ \E s \in DOMAIN settlements :
            \/ FinalizeSettlement(s, lost) \/ ReverseSettlement(s, lost)
            \/ \E by \in Parties : DeclareSettlement(s, by, lost) \/ DeclareUnauthorized(s, by, lost)
            \/ \E n \in settlements[s].stages : CompleteStage(s, n, lost)
            \/ \E dispute \in Tracked : ContestSettlement(s, dispute, lost)
    /\ UNCHANGED <<licensingVars, capitalizationVars, now>>

CapitalizationCall ==
    /\ \E lost \in BOOLEAN :
        \/ \E s \in DOMAIN settlements, beneficiaries \in SUBSET Parties :
            \/ CreateCapitalizationEvent(s, beneficiaries, lost)
            \/ \E e \in DOMAIN events : GenerateCapitalizationInterface(s, e, beneficiaries, lost)
        \/ \E e \in DOMAIN events, report \in ExecutionMetadata, lostReport \in BOOLEAN :
            RecordExecution(e, report, lost, lostReport)
    /\ UNCHANGED <<licensingVars, settlementVars, riskVars, now>>

(***************************************************************************)
(* completeSettlementWorkflow: one call that initiates, declares for the   *)
(* given parties, tries to finalize and, if that worked, capitalizes.      *)
(* Whatever fails on the way, what was done before it stays.  A write that *)
(* another write of the record follows is made good by it, so only the     *)
(* last one of the settlement can be lost.                                 *)
(***************************************************************************)
DeclaredBy(settlement, declaring) ==
    IF declaring = {} THEN settlement
    ELSE LET last == CHOOSE p \in declaring : TRUE
         IN  Declared([settlement EXCEPT !.declared = declaring \ {last}], last)

Capitalized(s, beneficiaries, withInterface, lost) ==
    /\ eventIds < MaxEvents /\ eventIds' = eventIds + 1
    /\ SaveEvent(eventIds', [settlement |-> s, beneficiaries |-> beneficiaries, executed |-> FALSE], lost)
    /\ IF withInterface /\ ~lost
       THEN SaveInterface([settlement |-> s, event |-> eventIds', beneficiaries |-> beneficiaries], FALSE)
       ELSE UNCHANGED <<interfaces, interfaceFiles>>
    /\ UNCHANGED <<executions, executionFiles>>

CompleteSettlementWorkflow(terms, otherwiseValid, declaring, beneficiaries, withInterface, lost) ==
    LET s == settlementIds + 1
        declared == DeclaredBy(NewSettlement(terms), declaring)
        final == IF MayFinalize(declared) THEN Finalized(declared) ELSE declared
    IN
    /\ declaring \subseteq terms.required
    /\ settlementIds < MaxSettlements /\ settlementIds' = s
    /\ IF ~ValidatePreconditions(terms, otherwiseValid) /\ EnableRiskTracking
       THEN RecordRisk(s, "premature_settlement", FALSE) ELSE UNCHANGED riskVars
    /\ settlements' = Put(settlements, s, final)
    /\ settlementFiles' = Put(settlementFiles, s, IF lost.settlement THEN declared ELSE final)
    /\ lost.settlement => MayFinalize(declared)
    /\ IF final.finalized /\ Capitalizable(final, beneficiaries)
       THEN Capitalized(s, beneficiaries, withInterface, lost.event)
       ELSE ~lost.event /\ UNCHANGED capitalizationVars
    /\ Losing(<<lost.settlement, lost.event>>)

WorkflowCall ==
    /\ \E terms \in SettlementTerms, otherwiseValid \in BOOLEAN, declaring \in SUBSET Parties,
          beneficiaries \in SUBSET Parties, withInterface \in BOOLEAN,
          lost \in [settlement: BOOLEAN, event: BOOLEAN] :
        CompleteSettlementWorkflow(terms, otherwiseValid, declaring, beneficiaries, withInterface, lost)
    /\ UNCHANGED <<licensingVars, now>>

InLicensing == UNCHANGED <<settlementVars, riskVars, capitalizationVars>>

Restart ==
    /\ restarts < MaxRestarts /\ restarts' = restarts + 1
    /\ LoadLicenses /\ LoadDelegations /\ LoadViolations /\ LoadSettlements /\ LoadCapitalization
    /\ UNCHANGED <<now, failedSaves, calls>>

Next ==
    \/ Call /\ (LicenseCall \/ DelegationCall \/ ComplianceCall \/ PerformExpiryCheck) /\ InLicensing
    \/ Call /\ (SettlementCall \/ CapitalizationCall \/ WorkflowCall)
    \/ Tick /\ InLicensing /\ UNCHANGED <<calls, restarts>>
    \/ Restart

Spec == Init /\ [][Next]_vars

(***************************************************************************)
(* From the first declaration on, the hash of a settlement is the hash of  *)
(* what it says, in memory and on disk, whatever was refused or reloaded:  *)
(* whoever recomputes it finds the one that is stored                      *)
(* (MP05SettlementManager.ts:311, 320, 382, 441 keep it by hand).          *)
(***************************************************************************)
HashIsCurrent ==
    \A held \in {settlements, settlementFiles} : \A s \in DOMAIN held :
        held[s].declared # {} => held[s].hash = CalculateSettlementHash(held[s])

(***************************************************************************)
(* A settlement whose finalization was written never changes again on      *)
(* disk, nor in memory, but for being marked as reversed: although         *)
(* completeStage and reverseSettlement do not ask whether it is immutable  *)
(* (types/index.ts:2100 "Settlement is complete and immutable").           *)
(***************************************************************************)
FinalizedNeverChanges ==
    [][\A s \in DOMAIN settlementFiles :
        settlementFiles[s].finalized =>
            LET mayBecome == {settlementFiles[s], [settlementFiles[s] EXCEPT !.status = "reversed"]}
            IN  settlementFiles'[s] \in mayBecome
                /\ (settlements[s].finalized => settlements'[s] \in
                       mayBecome \cup {[settlements[s] EXCEPT !.status = "reversed"], settlements[s]})
      ]_<<settlements, settlementFiles>>

(***************************************************************************)
(* As long as no write was refused, value exists only of a settlement that *)
(* was finalized, every required party having declared it and every stage  *)
(* being complete, and is due to its parties; what is reported executed    *)
(* and what is handed to other systems is such value                       *)
(* (MP05CapitalizationManager.ts:135-165, 213-243, 304-322).               *)
(***************************************************************************)
ValueRestsOnFinalized ==
    failedSaves = 0 =>
        /\ \A e \in DOMAIN events :
            LET s == events[e].settlement IN
            /\ s \in DOMAIN settlements /\ settlements[s].finalized
            /\ settlements[s].declared = settlements[s].required
            /\ settlements[s].stages = settlements[s].completed
            /\ events[e].beneficiaries \subseteq settlements[s].declared
        /\ \A i \in interfaces :
            i.event \in DOMAIN events /\ events[i.event].settlement = i.settlement
        /\ \A e \in DOMAIN executions : e \in DOMAIN events /\ events[e].executed
===============================================================================
