------------------------- MODULE MP05SettlementManager -------------------------
(***************************************************************************)
(* _deferred/src/settlement/MP05SettlementManager.ts and what it asks of   *)
(* MP05SettlementValidator.ts: settlements that parties declare, in stages *)
(* if they wish, until all have declared and the result is made immutable. *)
(* The hash is what it covers and a settlement can still change: who has   *)
(* declared, and whether it was ratified and finalized.  Receipts and      *)
(* disputes, which the validator asks two other systems about, are the     *)
(* choice `otherwiseValid`.                                                *)
(***************************************************************************)
EXTENDS LicensingManager

CONSTANTS
    SettlementTerms,    \* required parties, stages and referenced licence and delegation
    EnableRiskTracking, \* enableRiskTracking of the configuration
    MaxSettlements      \* bound: settlements initiated

ASSUME SettlementAssumption ==
    /\ EnableRiskTracking \in BOOLEAN
    /\ SettlementTerms \subseteq
           [required: SUBSET Parties, stages: SUBSET Nat, license: Nat \cup {None},
            delegation: Nat \cup {None}]

VARIABLES
    settlements, settlementFiles, settlementIds,
    risks, riskFiles

settlementVars == <<settlements, settlementFiles, settlementIds>>
riskVars == <<risks, riskFiles>>

MP05SettlementStatus == {"declared", "ratified", "finalized", "contested", "reversed"}

SettlementHash == [declared: SUBSET Parties, ratified: BOOLEAN, finalized: BOOLEAN]

Settlement ==
    [status: MP05SettlementStatus, required: SUBSET Parties, declared: SUBSET Parties,
     ratified: BOOLEAN, finalized: BOOLEAN, stages: SUBSET Nat, completed: SUBSET Nat,
     immutable: BOOLEAN, contest: Tracked \cup {None}, hash: SettlementHash \cup {None}]

SettlementRisk ==
    [settlement: Nat, type: {"premature_settlement", "unauthorized_declaration"}]

SettlementInit ==
    /\ settlements = << >> /\ settlementFiles = << >> /\ settlementIds = 0
    /\ risks = {} /\ riskFiles = {}

(***************************************************************************)
(* The validator.                                                          *)
(***************************************************************************)
ValidateLicense(l) ==
    /\ GetLicense(l) # None
    /\ licenses[l].status = "active"
    /\ licenses[l].expires # None => licenses[l].expires >= now

ValidateDelegation(d) ==
    /\ d \in DOMAIN delegations
    /\ delegations[d].status = "active"
    /\ delegations[d].expires # None => delegations[d].expires >= now

ValidatePreconditions(terms, otherwiseValid) ==
    /\ otherwiseValid
    /\ terms.license # None => ValidateLicense(terms.license)
    /\ terms.delegation # None => ValidateDelegation(terms.delegation)

ValidateStageCompletion(n, completed) == 1..(n - 1) \subseteq completed /\ n \notin completed

(***************************************************************************)
(* The manager.                                                            *)
(***************************************************************************)
CalculateSettlementHash(s) ==
    [declared |-> s.declared, ratified |-> s.ratified, finalized |-> s.finalized]

Hashed(s) == [s EXCEPT !.hash = CalculateSettlementHash(s)]

\* The map is written before the file; `lost` says that the disk refused it.
SaveSettlement(s, settlement, lost) ==
    /\ settlements' = Put(settlements, s, settlement)
    /\ settlementFiles' = IF lost THEN settlementFiles ELSE Put(settlementFiles, s, settlement)

RecordRisk(s, type, lost) ==
    /\ risks' = risks \cup {[settlement |-> s, type |-> type]}
    /\ riskFiles' = IF lost THEN riskFiles ELSE riskFiles \cup {[settlement |-> s, type |-> type]}

Losing(writes) ==
    /\ failedSaves' = failedSaves + Cardinality({w \in DOMAIN writes : writes[w]})
    /\ failedSaves' <= MaxFailedSaves

NewSettlement(terms) ==
    [status |-> "declared", required |-> terms.required, declared |-> {}, ratified |-> FALSE,
     finalized |-> FALSE, stages |-> terms.stages, completed |-> {}, immutable |-> FALSE,
     contest |-> None, hash |-> None]

\* Preconditions that do not hold are recorded as a risk and stop nothing.
InitiateSettlement(terms, otherwiseValid, lostRisk, lost) ==
    /\ settlementIds < MaxSettlements
    /\ settlementIds' = settlementIds + 1
    /\ IF ~ValidatePreconditions(terms, otherwiseValid) /\ EnableRiskTracking
       THEN RecordRisk(settlementIds', "premature_settlement", lostRisk)
       ELSE ~lostRisk /\ UNCHANGED riskVars
    /\ SaveSettlement(settlementIds', NewSettlement(terms), lost)
    /\ Losing(<<lostRisk, lost>>)

Declared(settlement, by) ==
    LET s == [settlement EXCEPT !.declared = @ \cup {by}] IN
    IF s.required \subseteq s.declared
    THEN Hashed([s EXCEPT !.status = "ratified", !.ratified = TRUE])
    ELSE Hashed(s)

\* Ratifies whatever the status was: also a contested or a reversed settlement.
DeclareSettlement(s, by, lost) ==
    /\ ~settlements[s].immutable
    /\ by \in settlements[s].required /\ by \notin settlements[s].declared
    /\ SaveSettlement(s, Declared(settlements[s], by), lost)
    /\ Losing(<<lost>>)
    /\ UNCHANGED <<settlementIds, riskVars>>

DeclareUnauthorized(s, by, lost) ==
    /\ ~settlements[s].immutable
    /\ by \notin settlements[s].required
    /\ RecordRisk(s, "unauthorized_declaration", lost)
    /\ Losing(<<lost>>)
    /\ UNCHANGED settlementVars

MayFinalize(settlement) ==
    /\ settlement.status = "ratified" /\ ~settlement.immutable
    /\ settlement.stages \subseteq settlement.completed

\* Mutant: the hash is taken before finalizedAt is set.
FinalizedTooLate(settlement) ==
    [Hashed(settlement) EXCEPT !.status = "finalized", !.finalized = TRUE, !.immutable = TRUE]

Finalized(settlement) ==
    Hashed([settlement EXCEPT !.status = "finalized", !.finalized = TRUE, !.immutable = TRUE])

FinalizeSettlement(s, lost) ==
    /\ MayFinalize(settlements[s])
    /\ SaveSettlement(s, Finalized(settlements[s]), lost)
    /\ Losing(<<lost>>)
    /\ UNCHANGED <<settlementIds, riskVars>>

\* Neither the status nor `immutable` is asked.
CompleteStage(s, n, lost) ==
    /\ n \in settlements[s].stages
    /\ ValidateStageCompletion(n, settlements[s].completed)
    /\ SaveSettlement(s, Hashed([settlements[s] EXCEPT !.completed = @ \cup {n}]), lost)
    /\ Losing(<<lost>>)
    /\ UNCHANGED <<settlementIds, riskVars>>

\* Mutant: a finalized settlement may be contested.
ContestAny(s, dispute, lost) ==
    /\ SaveSettlement(s, [settlements[s] EXCEPT !.status = "contested", !.contest = dispute], lost)
    /\ Losing(<<lost>>)
    /\ UNCHANGED <<settlementIds, riskVars>>

ContestSettlement(s, dispute, lost) ==
    /\ ~settlements[s].immutable
    /\ SaveSettlement(s, [settlements[s] EXCEPT !.status = "contested", !.contest = dispute], lost)
    /\ Losing(<<lost>>)
    /\ UNCHANGED <<settlementIds, riskVars>>

\* Anybody may reverse a settlement in any status.
ReverseSettlement(s, lost) ==
    /\ SaveSettlement(s, [settlements[s] EXCEPT !.status = "reversed"], lost)
    /\ Losing(<<lost>>)
    /\ UNCHANGED <<settlementIds, riskVars>>

LoadSettlements ==
    /\ settlements' = settlementFiles /\ risks' = riskFiles
    /\ UNCHANGED <<settlementFiles, settlementIds, riskFiles>>
===============================================================================
