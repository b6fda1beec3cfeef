----------------------------- MODULE DisputeTypes -----------------------------
(***************************************************************************)
(* types/index.ts, MP-03: the records of disputes, without their prose.    *)
(***************************************************************************)
EXTENDS FiniteSets, Naturals, Sequences

CONSTANTS
    Disputes,
    Items,              \* what can be contested
    Authorities,        \* by name
    None,
    Direct              \* a resolution written past the outcome recorder

ClosedStatuses == {"resolved", "dismissed"}

DisputeStatus == {"initiated", "under_review", "clarifying", "escalated"} \cup ClosedStatuses

DisputeResolution == [dispute: Disputes, status: ClosedStatuses, id: Nat]

DisputeDeclaration ==
    [status: DisputeStatus, evidence: SUBSET Items,
     escalation: Authorities \cup {None}, resolution: DisputeResolution \cup {None, Direct}]

ClarificationRecord == [completed: BOOLEAN, statements: Nat, analysed: Nat]

EscalationDeclaration == Disputes \X Authorities

DisputePackage ==
    [dispute: Disputes, withEvidence: BOOLEAN, live: BOOLEAN, saved: SUBSET Items, complete: BOOLEAN]
===============================================================================
