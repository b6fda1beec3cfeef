----------------------------- MODULE DisputeManager -----------------------------
(***************************************************************************)
(* _deferred/src/dispute/DisputeManager.ts: the disputes, and the five     *)
(* managers it calls.  Every answer that a call waits for (of the chain,   *)
(* an authority, the language model, the data providers) arrives in a step *)
(* of its own, so that calls about one dispute overlap; a restart loses    *)
(* the calls and keeps what was saved, which is everything else.           *)
(***************************************************************************)
EXTENDS EvidenceManager, OutcomeRecorder, EscalationManager, ClarificationManager,
        DisputePackageBuilder

CONSTANTS
    Contested,          \* the items each dispute is about
    AutoFreeze,         \* autoFreezeEvidence
    MaxCalls,           \* bound: calls of the interface in a behaviour
    MaxRestarts         \* bound: restarts in a behaviour

ASSUME DisputeAssumption == Contested \in [Disputes -> SUBSET Items] /\ AutoFreeze \in BOOLEAN

ASSUME NoneAssumption ==
    /\ None \notin DisputeDeclaration /\ None \notin DisputeResolution /\ None \notin FrozenItem
    /\ None # Direct

VARIABLES
    disputes,           \* per dispute None or its declaration
    initiating,         \* those whose declaration the chain has not answered
    gathering,          \* the packages whose records are being fetched
    calls, restarts

ownVars == <<disputes, initiating, gathering, restarts>>
vars == <<frozenItems, outcomeVars, escalationVars, clarificationVars, packages, ownVars, calls>>

Gathering == [dispute: Disputes, withEvidence: BOOLEAN, clarified: BOOLEAN]

\* The type invariant of the dispute system, with the records of all its managers.
TypeOK ==
    /\ frozenItems \in [Items -> FrozenItem \cup {None}]
    /\ outcomes \subseteq DisputeResolution /\ publishing \subseteq outcomes
    /\ authorities \subseteq Authorities
    /\ submissions \subseteq escalations /\ escalations \subseteq EscalationDeclaration
    /\ submitting \in [EscalationDeclaration -> 0..MaxPosts]
    /\ clarifications \in [Disputes -> Seq(ClarificationRecord)]
    /\ packages \subseteq DisputePackage
    /\ disputes \in [Disputes -> DisputeDeclaration \cup {None}]
    /\ initiating \subseteq Disputes /\ gathering \subseteq Gathering

Init ==
    /\ EvidenceInit /\ OutcomeInit /\ EscalationInit /\ ClarificationInit /\ PackageInit
    /\ disputes = [d \in Disputes |-> None]
    /\ initiating = {} /\ gathering = {}
    /\ calls = 0 /\ restarts = 0

Known(d) == disputes[d] # None

Call == calls < MaxCalls /\ calls' = calls + 1

InitiateDispute(d) ==
    /\ Call /\ ~Known(d)
    /\ disputes' = [disputes EXCEPT ![d] =
           [status |-> "initiated", evidence |-> {}, escalation |-> None, resolution |-> None]]
    /\ initiating' = initiating \cup {d}
    /\ UNCHANGED <<frozenItems, outcomeVars, escalationVars, clarificationVars, packages, gathering, restarts>>

\* The items are frozen whether or not the chain took the declaration.
DisputeSubmitted(d) ==
    /\ initiating' = initiating \ {d}
    /\ IF AutoFreeze THEN FreezeContestedItems(d, Contested[d]) ELSE UNCHANGED frozenItems
    /\ UNCHANGED <<disputes, outcomeVars, escalationVars, clarificationVars, packages, gathering, restarts, calls>>

AddEvidence(d, linked) ==
    /\ Call /\ Known(d)
    /\ disputes' = [disputes EXCEPT ![d].evidence = @ \cup linked]
    /\ UNCHANGED <<frozenItems, outcomeVars, escalationVars, clarificationVars, packages, initiating, gathering, restarts>>

UpdateDisputeStatus(d, status) ==
    /\ Call /\ Known(d)
    /\ disputes' = [disputes EXCEPT ![d].status = status]
    /\ UNCHANGED <<frozenItems, outcomeVars, escalationVars, clarificationVars, packages, initiating, gathering, restarts>>

(***************************************************************************)
(* Closing a dispute: directly, or with an outcome of the recorder.        *)
(***************************************************************************)
Close(d, status, resolution) ==
    /\ disputes' = [disputes EXCEPT ![d].status = status, ![d].resolution = resolution]
    /\ UnfreezeItemsForDispute(d)

CloseDirectly(d, status) ==
    /\ Call /\ Known(d)
    /\ Close(d, status, Direct)
    /\ UNCHANGED <<outcomeVars, escalationVars, clarificationVars, packages, initiating, gathering, restarts>>

ResolveDispute(d) == CloseDirectly(d, "resolved")
DismissDispute(d) == CloseDirectly(d, "dismissed")

Recorded(d, recorder) ==
    /\ Call /\ Known(d) /\ recorder
    /\ UNCHANGED <<frozenItems, escalationVars, clarificationVars, packages, ownVars>>

RecordAuthorityDecision(d) == Recorded(d, AuthorityDecided(d))
RecordSettlement(d) == Recorded(d, PartiesSettled(d))
RecordDismissal(d) == Recorded(d, Dismissed(d))
RecordWithdrawal(d) == Recorded(d, Withdrawn(d))

\* Mutant: an outcome the chain refused is not applied.
ApplyIfAccepted(o, accepted) ==
    /\ PublishToChain(o)
    /\ IF accepted THEN Close(o.dispute, o.status, o) ELSE UNCHANGED <<disputes, frozenItems>>
    /\ UNCHANGED <<escalationVars, clarificationVars, packages, initiating, gathering, restarts, calls>>

ApplyOutcome(o, accepted) ==
    /\ PublishToChain(o)
    /\ Close(o.dispute, o.status, o)
    /\ UNCHANGED <<escalationVars, clarificationVars, packages, initiating, gathering, restarts, calls>>

(***************************************************************************)
(* Clarification and escalation: the status is set whatever it was.        *)
(***************************************************************************)
InitiateClarification(d) ==
    /\ Call /\ Known(d) /\ Clarify(d)
    /\ disputes' = [disputes EXCEPT ![d].status = "clarifying"]
    /\ UNCHANGED <<frozenItems, outcomeVars, escalationVars, packages, initiating, gathering, restarts>>

InClarification ==
    UNCHANGED <<frozenItems, outcomeVars, escalationVars, packages, ownVars>>

SubmitClarificationStatement(d, c) == Call /\ SubmitStatement(d, c) /\ InClarification
StartAnalysis(d, c) == Call /\ AnalyzeClarification(d, c) /\ InClarification
AnalysisAnswered(a) ==
    (ClarificationAnalysed(a) \/ AnalysisFails(a)) /\ InClarification /\ UNCHANGED calls
EndClarification(d, c) == Call /\ CompleteClarification(d, c) /\ InClarification

InitiateEscalation(d, a) ==
    /\ Call /\ Known(d) /\ Escalate(d, a)
    /\ disputes' = [disputes EXCEPT ![d].status = "escalated", ![d].escalation = a]
    /\ UNCHANGED <<frozenItems, outcomeVars, clarificationVars, packages, initiating, gathering, restarts>>

InEscalation ==
    UNCHANGED <<frozenItems, outcomeVars, clarificationVars, packages, ownVars>>

RegisterEscalationAuthority(a) == Call /\ RegisterAuthority(a) /\ InEscalation
RemoveEscalationAuthority(a) == Call /\ RemoveAuthority(a) /\ InEscalation
StartSubmission(e) == Call /\ SubmitEscalation(e) /\ InEscalation
SubmissionAnswered(e, accepted) == EscalationSubmitted(e, accepted) /\ InEscalation /\ UNCHANGED calls

(***************************************************************************)
(* Packages: the clarifications are listed when the call starts, the       *)
(* evidence and the status are those of its end.                           *)
(***************************************************************************)
CreateDisputePackage(d, withEvidence) ==
    /\ Call /\ Known(d)
    /\ gathering' = gathering \cup
           {[dispute |-> d, withEvidence |-> withEvidence, clarified |-> clarifications[d] # << >>]}
    /\ UNCHANGED <<frozenItems, outcomeVars, escalationVars, clarificationVars, packages, disputes, initiating, restarts>>

Gathered(g) ==
    LET d == g.dispute IN
    /\ BuildPackage(d, g.withEvidence, Contested[d], disputes[d].evidence,
                    disputes[d].status \in {"clarifying", "escalated"}, g.clarified)
    /\ gathering' = gathering \ {g}
    /\ UNCHANGED <<frozenItems, outcomeVars, escalationVars, clarificationVars, disputes, initiating, restarts, calls>>

RemovePackage(p) ==
    /\ Call /\ DeletePackage(p)
    /\ UNCHANGED <<frozenItems, outcomeVars, escalationVars, clarificationVars, ownVars>>

Restart ==
    /\ restarts < MaxRestarts /\ restarts' = restarts + 1
    /\ initiating' = {} /\ gathering' = {} /\ publishing' = {} /\ analysing' = {}
    /\ submitting' = [e \in EscalationDeclaration |-> 0]
    /\ LoadPackages
    /\ UNCHANGED <<frozenItems, outcomes, authorities, escalations, submissions, clarifications, disputes, calls>>

Next ==
    \/ \E d \in Disputes :
        \/ InitiateDispute(d) \/ ResolveDispute(d) \/ DismissDispute(d)
        \/ RecordAuthorityDecision(d) \/ RecordSettlement(d)
        \/ RecordDismissal(d) \/ RecordWithdrawal(d)
        \/ InitiateClarification(d)
        \/ \E linked \in SUBSET Items : AddEvidence(d, linked)
        \/ \E status \in DisputeStatus : UpdateDisputeStatus(d, status)
        \/ \E withEvidence \in BOOLEAN : CreateDisputePackage(d, withEvidence)
        \/ \E a \in Authorities : InitiateEscalation(d, a)
        \/ \E c \in DOMAIN clarifications[d] :
            SubmitClarificationStatement(d, c) \/ StartAnalysis(d, c) \/ EndClarification(d, c)
    \/ \E d \in initiating : DisputeSubmitted(d)
    \/ \E o \in publishing, accepted \in BOOLEAN : ApplyOutcome(o, accepted)
    \/ \E a \in analysing : AnalysisAnswered(a)
    \/ \E a \in Authorities : RegisterEscalationAuthority(a) \/ RemoveEscalationAuthority(a)
    \/ \E e \in EscalationDeclaration :
        StartSubmission(e) \/ \E accepted \in BOOLEAN : SubmissionAnswered(e, accepted)
    \/ \E g \in gathering : Gathered(g)
    \/ \E p \in packages : RemovePackage(p)
    \/ Restart

Spec == Init /\ [][Next]_vars

(***************************************************************************)
(* Properties.                                                             *)
(***************************************************************************)

\* The recorder never holds two outcomes of one dispute, however the calls
\* that record them overlap.
OneOutcomePerDispute == \A o1, o2 \in outcomes : o1.dispute = o2.dispute => o1 = o2

\* As long as the process has not restarted, a recorded outcome whose publication
\* is over is the resolution of its dispute, unless a direct one replaced it.
OutcomeReachesDispute ==
    restarts = 0 =>
        \A o \in outcomes \ publishing : disputes[o.dispute].resolution \in {o, Direct}

\* An item is released by the closing of the dispute it is frozen for, never
\* by that of another dispute about it.
ReleasedByItsDispute ==
    \A i \in Items : frozenItems[i] # None /\ ~IsItemFrozen(i) =>
        disputes[frozenItems[i].dispute].resolution # None

\* A package that was found complete bundles evidence for every contested item of
\* its dispute, now and when it is loaded again.
CompletePackageIsDocumented ==
    \A p \in packages : p.complete =>
        Contested[p.dispute] \subseteq BundledEvidence(p, disputes[p.dispute].evidence)
================================================================================
