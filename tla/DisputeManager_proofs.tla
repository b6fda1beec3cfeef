------------------------- MODULE DisputeManager_proofs -------------------------
(***************************************************************************)
(* A dispute has one outcome, which reaches it, an item is released by the *)
(* closing of the dispute it is frozen for, and a complete package is      *)
(* documented: for any disputes, items and authorities, and any number of  *)
(* calls that overlap.                                                     *)
(***************************************************************************)
EXTENDS DisputeManager, FiniteSetTheorems, TLAPS

Types ==
    /\ IsFiniteSet(outcomes)
    /\ outcomes \subseteq DisputeResolution
    /\ publishing \subseteq outcomes
    /\ disputes \in [Disputes -> DisputeDeclaration \cup {None}]
    /\ initiating \subseteq Disputes
    /\ frozenItems \in [Items -> FrozenItem \cup {None}]
    /\ restarts \in Nat

\* Whatever refers to a dispute refers to one that exists.
Refer ==
    /\ \A o \in outcomes : Known(o.dispute)
    /\ \A d \in initiating : Known(d)
    /\ \A i \in Items : frozenItems[i] # None => Known(frozenItems[i].dispute)

DInv ==
    Types /\ Refer /\ OneOutcomePerDispute /\ OutcomeReachesDispute /\ ReleasedByItsDispute

-------------------------------------------------------------------------------
(* The steps, by what they touch                                           *)

\* Most steps touch nothing that the invariant is about.
LEMMA Unconcerned ==
    ASSUME DInv, UNCHANGED <<frozenItems, outcomes, publishing, disputes, initiating, restarts>>
    PROVE  DInv'
<1>1. Types' /\ Refer'
  BY DEF DInv, Types, Refer, Known
<1>2. OneOutcomePerDispute' /\ OutcomeReachesDispute' /\ ReleasedByItsDispute'
  BY DEF DInv, OneOutcomePerDispute, OutcomeReachesDispute, ReleasedByItsDispute, IsItemFrozen
<1> QED
  BY <1>1, <1>2 DEF DInv

\* A dispute changes, its resolution does not.
LEMMA Amended ==
    ASSUME DInv, NEW d \in Disputes, Known(d), NEW r \in DisputeDeclaration,
           r.resolution = disputes[d].resolution,
           disputes' = [disputes EXCEPT ![d] = r],
           UNCHANGED <<frozenItems, outcomes, publishing, initiating, restarts>>
    PROVE  DInv'
<1>1. /\ DOMAIN disputes = Disputes
      /\ disputes' \in [Disputes -> DisputeDeclaration \cup {None}]
      /\ disputes'[d] = r /\ \A e \in Disputes \ {d} : disputes'[e] = disputes[e]
  BY DEF DInv, Types
<1>2. \A e \in Disputes : /\ Known(e) => Known(e)'
                          /\ disputes'[e].resolution = disputes[e].resolution
  BY <1>1, NoneAssumption DEF Known
<1>3. /\ \A o \in outcomes : o.dispute \in Disputes
      /\ \A i \in Items : frozenItems[i] # None => frozenItems[i].dispute \in Disputes
  BY DEF DInv, Types, DisputeResolution, FrozenItem
<1>4. Types'
  BY <1>1 DEF DInv, Types
<1>5. Refer'
  BY <1>2, <1>3 DEF DInv, Types, Refer
<1>6. OneOutcomePerDispute' /\ OutcomeReachesDispute' /\ ReleasedByItsDispute'
  BY <1>2, <1>3 DEF DInv, Types, OneOutcomePerDispute, OutcomeReachesDispute, ReleasedByItsDispute, IsItemFrozen
<1> QED
  BY <1>4, <1>5, <1>6 DEF DInv

\* A dispute is closed, and the publication of its outcome may be over with it.
LEMMA Closed ==
    ASSUME DInv, NEW d \in Disputes, Known(d), NEW status \in ClosedStatuses,
           NEW resolution \in outcomes \cup {Direct}, Close(d, status, resolution),
           \/ resolution = Direct /\ publishing' = publishing
           \/ resolution \in outcomes /\ resolution.dispute = d
              /\ publishing' = publishing \ {resolution},
           UNCHANGED <<outcomes, initiating, restarts>>
    PROVE  DInv'
<1>1. /\ DOMAIN disputes = Disputes /\ disputes[d] \in DisputeDeclaration
      /\ resolution \in DisputeResolution \cup {Direct} /\ resolution # None
  BY NoneAssumption DEF DInv, Types, Known
<1>2. PICK r : r = [disputes[d] EXCEPT !.status = status, !.resolution = resolution]
  OBVIOUS
<1>3. r \in DisputeDeclaration /\ r.resolution = resolution
  BY <1>1, <1>2 DEF DisputeDeclaration, DisputeStatus
<1>4. disputes' = [disputes EXCEPT ![d] = r]
  BY <1>1, <1>2 DEF Close
<1>5. /\ disputes' \in [Disputes -> DisputeDeclaration \cup {None}]
      /\ disputes'[d] = r /\ \A e \in Disputes \ {d} : disputes'[e] = disputes[e]
  BY <1>1, <1>3, <1>4 DEF DInv, Types
<1>6. \A e \in Disputes : Known(e) => Known(e)'
  BY <1>3, <1>5, NoneAssumption DEF Known
<1>7. frozenItems' = [i \in Items |->
          IF i \in FrozenFor(d) THEN [frozenItems[i] EXCEPT !.status = "dispute_resolved"]
          ELSE frozenItems[i]]
  BY DEF Close, UnfreezeItemsForDispute
<1>8. ASSUME NEW i \in Items
      PROVE  /\ frozenItems'[i] \in FrozenItem \cup {None}
             /\ frozenItems'[i] # None =>
                   /\ frozenItems[i] # None /\ frozenItems[i].dispute \in Disputes
                   /\ frozenItems'[i].dispute = frozenItems[i].dispute
             /\ frozenItems'[i] # None /\ ~IsItemFrozen(i)' =>
                   frozenItems[i].dispute = d \/ ~IsItemFrozen(i)
  <2>1. frozenItems[i] \in FrozenItem \cup {None}
    BY <1>8 DEF DInv, Types
  <2>2. CASE i \in FrozenFor(d)
    <3>1. frozenItems[i] \in FrozenItem /\ frozenItems[i].dispute = d
      BY <2>1, <2>2 DEF FrozenFor, IsItemFrozen
    <3>2. frozenItems'[i] = [frozenItems[i] EXCEPT !.status = "dispute_resolved"]
      BY <1>7, <1>8, <2>2
    <3>3. frozenItems'[i] \in FrozenItem /\ frozenItems'[i].dispute = d
      BY <3>1, <3>2 DEF FrozenItem
    <3> QED
      BY <3>1, <3>3, NoneAssumption
  <2>3. CASE i \notin FrozenFor(d)
    <3>1. frozenItems'[i] = frozenItems[i]
      BY <1>7, <1>8, <2>3
    <3> QED
      BY <2>1, <3>1 DEF FrozenItem, IsItemFrozen
  <2> QED
    BY <2>2, <2>3
<1>9. Types'
  <2>1. frozenItems' \in [Items -> FrozenItem \cup {None}]
    BY <1>7, <1>8
  <2> QED
    BY <1>5, <2>1 DEF DInv, Types
<1>10. Refer'
  <2>1. \A o \in outcomes : o.dispute \in Disputes
    BY DEF DInv, Types, DisputeResolution
  <2> QED
    BY <1>6, <1>8, <2>1 DEF DInv, Types, Refer
<1>11. OneOutcomePerDispute'
  BY DEF DInv, OneOutcomePerDispute
<1>12. OutcomeReachesDispute'
  <2> SUFFICES ASSUME restarts = 0, NEW o \in outcomes, o \notin publishing'
               PROVE  disputes'[o.dispute].resolution \in {o, Direct}
    BY DEF OutcomeReachesDispute
  <2>1. o.dispute \in Disputes
    BY DEF DInv, Types, DisputeResolution
  <2>2. CASE o.dispute = d
    <3>1. resolution = Direct \/ resolution = o
      BY <2>2 DEF DInv, OneOutcomePerDispute
    <3> QED
      BY <1>3, <1>5, <2>2, <3>1
  <2>3. CASE o.dispute # d
    <3>1. o \notin publishing
      BY <2>3
    <3> QED
      BY <1>5, <2>1, <2>3, <3>1 DEF DInv, OutcomeReachesDispute
  <2> QED
    BY <2>2, <2>3
<1>13. ReleasedByItsDispute'
  <2> SUFFICES ASSUME NEW i \in Items, frozenItems'[i] # None, ~IsItemFrozen(i)'
               PROVE  disputes'[frozenItems'[i].dispute].resolution # None
    BY DEF ReleasedByItsDispute
  <2>1. CASE frozenItems[i].dispute = d
    BY <1>1, <1>3, <1>5, <1>8, <2>1
  <2>2. CASE frozenItems[i].dispute # d
    BY <1>5, <1>8, <2>2 DEF DInv, ReleasedByItsDispute
  <2> QED
    BY <2>1, <2>2
<1> QED
  BY <1>9, <1>10, <1>11, <1>12, <1>13 DEF DInv

LEMMA InitiateKeeps ==
    ASSUME DInv, NEW d \in Disputes, InitiateDispute(d)
    PROVE  DInv'
<1>1. PICK r : r = [status |-> "initiated", evidence |-> {}, escalation |-> None, resolution |-> None]
  OBVIOUS
<1>2. /\ ~Known(d) /\ disputes' = [disputes EXCEPT ![d] = r] /\ initiating' = initiating \cup {d}
      /\ UNCHANGED <<frozenItems, outcomes, publishing, restarts>>
  BY <1>1 DEF InitiateDispute, outcomeVars
<1>3. r \in DisputeDeclaration
  BY <1>1 DEF DisputeDeclaration, DisputeStatus
<1>4. /\ disputes' \in [Disputes -> DisputeDeclaration \cup {None}]
      /\ disputes'[d] = r /\ \A e \in Disputes \ {d} : disputes'[e] = disputes[e]
  BY <1>2, <1>3 DEF DInv, Types
<1>5. \A e \in Disputes : Known(e) => Known(e)' /\ disputes'[e] = disputes[e]
  BY <1>2, <1>4 DEF Known
<1>6. Known(d)'
  BY <1>3, <1>4, NoneAssumption DEF Known
<1>7. /\ \A o \in outcomes : o.dispute \in Disputes
      /\ \A i \in Items : frozenItems[i] # None => frozenItems[i].dispute \in Disputes
  BY DEF DInv, Types, DisputeResolution, FrozenItem
<1>8. Types'
  BY <1>2, <1>4 DEF DInv, Types
<1>9. Refer'
  BY <1>2, <1>5, <1>6, <1>7 DEF DInv, Types, Refer
<1>10. OneOutcomePerDispute' /\ OutcomeReachesDispute' /\ ReleasedByItsDispute'
  BY <1>2, <1>5, <1>7 DEF DInv, Types, Refer, OneOutcomePerDispute, OutcomeReachesDispute,
                          ReleasedByItsDispute, IsItemFrozen
<1> QED
  BY <1>8, <1>9, <1>10 DEF DInv

\* The declaration was answered: its items are frozen, those that have no entry.
LEMMA SubmittedKeeps ==
    ASSUME DInv, NEW d \in initiating, DisputeSubmitted(d)
    PROVE  DInv'
<1>1. /\ initiating' = initiating \ {d} /\ d \in Disputes /\ Known(d)
      /\ UNCHANGED <<outcomes, publishing, disputes, restarts>>
  BY DEF DisputeSubmitted, outcomeVars, DInv, Types, Refer
<1>2. ASSUME NEW i \in Items
      PROVE  \/ frozenItems'[i] = frozenItems[i]
             \/ frozenItems'[i] = [dispute |-> d, status |-> "under_dispute"]
  BY DEF DisputeSubmitted, FreezeContestedItems
<1>3. frozenItems' \in [Items -> FrozenItem \cup {None}]
  <2>1. CASE AutoFreeze
    <3>1. frozenItems' = [i \in Items |->
              IF i \in Contested[d] /\ frozenItems[i] = None
              THEN [dispute |-> d, status |-> "under_dispute"]
              ELSE frozenItems[i]]
      BY <2>1 DEF DisputeSubmitted, FreezeContestedItems
    <3> QED
      BY <1>1, <3>1 DEF DInv, Types, FrozenItem
  <2>2. CASE ~AutoFreeze
    BY <2>2 DEF DisputeSubmitted, DInv, Types
  <2> QED
    BY <2>1, <2>2
<1>4. Types'
  BY <1>1, <1>3 DEF DInv, Types
<1>5. Refer'
  BY <1>1, <1>2 DEF DInv, Refer, Known
<1>6. OneOutcomePerDispute' /\ OutcomeReachesDispute'
  BY <1>1 DEF DInv, OneOutcomePerDispute, OutcomeReachesDispute
<1>7. ReleasedByItsDispute'
  BY <1>1, <1>2 DEF DInv, ReleasedByItsDispute, IsItemFrozen
<1> QED
  BY <1>4, <1>5, <1>6, <1>7 DEF DInv

\* An outcome is recorded only of a dispute that has none.
LEMMA RecordKeeps ==
    ASSUME DInv, NEW d \in Disputes, NEW status \in ClosedStatuses, Known(d), Record(d, status),
           UNCHANGED <<frozenItems, ownVars>>
    PROVE  DInv'
<1>1. PICK o : o = [dispute |-> d, status |-> status, id |-> Cardinality(outcomes) + 1]
  OBVIOUS
<1>2. /\ ~GetOutcomeForDispute(d) /\ outcomes' = outcomes \cup {o}
      /\ publishing' = publishing \cup {o}
      /\ UNCHANGED <<frozenItems, disputes, initiating, restarts>>
  BY <1>1 DEF Record, ownVars
<1>3. IsFiniteSet(outcomes') /\ Cardinality(outcomes) \in Nat
  BY <1>2, FS_AddElement, FS_CardinalityType DEF DInv, Types
<1>4. o \in DisputeResolution /\ o.dispute = d
  BY <1>1, <1>3 DEF DisputeResolution
<1>5. Types'
  BY <1>2, <1>3, <1>4 DEF DInv, Types
<1>6. Refer'
  BY <1>2, <1>4 DEF DInv, Refer, Known
<1>7. OneOutcomePerDispute'
  BY <1>2, <1>4 DEF DInv, OneOutcomePerDispute, GetOutcomeForDispute
<1>8. OutcomeReachesDispute' /\ ReleasedByItsDispute'
  BY <1>2 DEF DInv, OutcomeReachesDispute, ReleasedByItsDispute, IsItemFrozen
<1> QED
  BY <1>5, <1>6, <1>7, <1>8 DEF DInv

LEMMA RestartKeeps ==
    ASSUME DInv, Restart
    PROVE  DInv'
<1>1. /\ restarts' = restarts + 1 /\ initiating' = {} /\ publishing' = {}
      /\ UNCHANGED <<frozenItems, outcomes, disputes>>
  BY DEF Restart
<1>2. Types' /\ Refer' /\ OneOutcomePerDispute' /\ ReleasedByItsDispute'
  BY <1>1 DEF DInv, Types, Refer, Known, OneOutcomePerDispute, ReleasedByItsDispute, IsItemFrozen
<1>3. OutcomeReachesDispute'
  BY <1>1 DEF DInv, Types, OutcomeReachesDispute
<1> QED
  BY <1>2, <1>3 DEF DInv

-------------------------------------------------------------------------------
(* The calls                                                               *)

LEMMA InitDInv == Init => DInv
<1> SUFFICES ASSUME Init PROVE DInv
  OBVIOUS
<1>1. /\ outcomes = {} /\ publishing = {} /\ initiating = {} /\ restarts = 0
      /\ disputes = [d \in Disputes |-> None] /\ frozenItems = [i \in Items |-> None]
  BY DEF Init, EvidenceInit, OutcomeInit
<1>2. Types
  BY <1>1, FS_EmptySet DEF Types
<1> QED
  BY <1>1, <1>2 DEF DInv, Refer, OneOutcomePerDispute, OutcomeReachesDispute, ReleasedByItsDispute

LEMMA DisputeCallKeeps ==
    ASSUME DInv, NEW d \in Disputes,
           \/ ResolveDispute(d) \/ DismissDispute(d)
           \/ RecordAuthorityDecision(d) \/ RecordSettlement(d)
           \/ RecordDismissal(d) \/ RecordWithdrawal(d)
    PROVE  DInv'
<1>1. CASE ResolveDispute(d) \/ DismissDispute(d)
  <2>1. PICK status \in ClosedStatuses : CloseDirectly(d, status)
    BY <1>1 DEF ResolveDispute, DismissDispute, ClosedStatuses
  <2>2. /\ Known(d) /\ Close(d, status, Direct) /\ publishing' = publishing
        /\ UNCHANGED <<outcomes, initiating, restarts>>
    BY <2>1 DEF CloseDirectly, outcomeVars
  <2> QED
    BY <2>2, Closed
<1>2. CASE \/ RecordAuthorityDecision(d) \/ RecordSettlement(d)
           \/ RecordDismissal(d) \/ RecordWithdrawal(d)
  <2>1. PICK status \in ClosedStatuses : Record(d, status)
    BY <1>2 DEF RecordAuthorityDecision, RecordSettlement, RecordDismissal, RecordWithdrawal, Recorded,
                AuthorityDecided, PartiesSettled, Dismissed, Withdrawn, ClosedStatuses
  <2>2. Known(d) /\ UNCHANGED <<frozenItems, ownVars>>
    BY <1>2 DEF RecordAuthorityDecision, RecordSettlement, RecordDismissal, RecordWithdrawal, Recorded
  <2> QED
    BY <2>1, <2>2, RecordKeeps
<1> QED
  BY <1>1, <1>2

LEMMA AmendingCallKeeps ==
    ASSUME DInv, NEW d \in Disputes,
           \/ InitiateClarification(d)
           \/ \E linked \in SUBSET Items : AddEvidence(d, linked)
           \/ \E status \in DisputeStatus : UpdateDisputeStatus(d, status)
           \/ \E a \in Authorities : InitiateEscalation(d, a)
    PROVE  DInv'
<1>1. /\ Known(d)
      /\ UNCHANGED <<frozenItems, outcomes, publishing, initiating, restarts>>
  BY DEF InitiateClarification, AddEvidence, UpdateDisputeStatus, InitiateEscalation, outcomeVars
<1>2. disputes[d] \in DisputeDeclaration
  BY <1>1 DEF DInv, Types, Known
<1>3. CASE InitiateClarification(d)
  <2>1. PICK r : r = [disputes[d] EXCEPT !.status = "clarifying"]
    OBVIOUS
  <2>2. r \in DisputeDeclaration /\ r.resolution = disputes[d].resolution
    BY <1>2, <2>1 DEF DisputeDeclaration, DisputeStatus
  <2>3. disputes' = [disputes EXCEPT ![d] = r]
    BY <1>3, <2>1 DEF InitiateClarification
  <2> QED
    BY <1>1, <2>2, <2>3, Amended
<1>4. ASSUME NEW linked \in SUBSET Items, AddEvidence(d, linked)
      PROVE  DInv'
  <2>1. PICK r : r = [disputes[d] EXCEPT !.evidence = @ \cup linked]
    OBVIOUS
  <2>2. r \in DisputeDeclaration /\ r.resolution = disputes[d].resolution
    BY <1>2, <2>1 DEF DisputeDeclaration
  <2>3. disputes' = [disputes EXCEPT ![d] = r]
    BY <1>4, <2>1 DEF AddEvidence
  <2> QED
    BY <1>1, <2>2, <2>3, Amended
<1>5. ASSUME NEW status \in DisputeStatus, UpdateDisputeStatus(d, status)
      PROVE  DInv'
  <2>1. PICK r : r = [disputes[d] EXCEPT !.status = status]
    OBVIOUS
  <2>2. r \in DisputeDeclaration /\ r.resolution = disputes[d].resolution
    BY <1>2, <2>1 DEF DisputeDeclaration
  <2>3. disputes' = [disputes EXCEPT ![d] = r]
    BY <1>5, <2>1 DEF UpdateDisputeStatus
  <2> QED
    BY <1>1, <2>2, <2>3, Amended
<1>6. ASSUME NEW a \in Authorities, InitiateEscalation(d, a)
      PROVE  DInv'
  <2>1. PICK r : r = [disputes[d] EXCEPT !.status = "escalated", !.escalation = a]
    OBVIOUS
  <2>2. r \in DisputeDeclaration /\ r.resolution = disputes[d].resolution
    BY <1>2, <2>1 DEF DisputeDeclaration, DisputeStatus
  <2>3. disputes' = [disputes EXCEPT ![d] = r]
    BY <1>6, <2>1 DEF InitiateEscalation
  <2> QED
    BY <1>1, <2>2, <2>3, Amended
<1> QED
  BY <1>3, <1>4, <1>5, <1>6

LEMMA ApplyKeeps ==
    ASSUME DInv, NEW o \in publishing, NEW accepted \in BOOLEAN, ApplyOutcome(o, accepted)
    PROVE  DInv'
<1>1. o \in outcomes /\ o \in DisputeResolution /\ Known(o.dispute)
  BY DEF DInv, Types, Refer
<1>2. o.dispute \in Disputes /\ o.status \in ClosedStatuses
  BY <1>1 DEF DisputeResolution
<1>3. /\ publishing' = publishing \ {o} /\ Close(o.dispute, o.status, o)
      /\ UNCHANGED <<outcomes, initiating, restarts>>
  BY DEF ApplyOutcome, PublishToChain
<1> QED
  BY <1>1, <1>2, <1>3, Closed

LEMMA NextDInv == DInv /\ [Next]_vars => DInv'
<1> SUFFICES ASSUME DInv, [Next]_vars PROVE DInv'
  OBVIOUS
<1>1. ASSUME NEW d \in Disputes, InitiateDispute(d) PROVE DInv'
  BY <1>1, InitiateKeeps
<1>2. ASSUME NEW d \in Disputes,
             \/ ResolveDispute(d) \/ DismissDispute(d)
             \/ RecordAuthorityDecision(d) \/ RecordSettlement(d)
             \/ RecordDismissal(d) \/ RecordWithdrawal(d)
      PROVE  DInv'
  BY <1>2, DisputeCallKeeps
<1>3. ASSUME NEW d \in Disputes,
             \/ InitiateClarification(d)
             \/ \E linked \in SUBSET Items : AddEvidence(d, linked)
             \/ \E status \in DisputeStatus : UpdateDisputeStatus(d, status)
             \/ \E a \in Authorities : InitiateEscalation(d, a)
      PROVE  DInv'
  BY <1>3, AmendingCallKeeps
<1>4. ASSUME NEW d \in Disputes, NEW withEvidence \in BOOLEAN, CreateDisputePackage(d, withEvidence)
      PROVE  DInv'
  BY <1>4, Unconcerned DEF CreateDisputePackage, outcomeVars
<1>5. ASSUME NEW d \in Disputes, NEW c \in DOMAIN clarifications[d],
             SubmitClarificationStatement(d, c) \/ StartAnalysis(d, c) \/ EndClarification(d, c)
      PROVE  DInv'
  BY <1>5, Unconcerned DEF SubmitClarificationStatement, StartAnalysis, EndClarification, InClarification,
                           ownVars, outcomeVars
<1>6. ASSUME NEW d \in initiating, DisputeSubmitted(d) PROVE DInv'
  BY <1>6, SubmittedKeeps
<1>7. ASSUME NEW o \in publishing, NEW accepted \in BOOLEAN, ApplyOutcome(o, accepted) PROVE DInv'
  BY <1>7, ApplyKeeps
<1>8. ASSUME NEW a \in analysing, AnalysisAnswered(a) PROVE DInv'
  BY <1>8, Unconcerned DEF AnalysisAnswered, InClarification, ownVars, outcomeVars
<1>9. ASSUME NEW a \in Authorities, RegisterEscalationAuthority(a) \/ RemoveEscalationAuthority(a)
      PROVE  DInv'
  BY <1>9, Unconcerned DEF RegisterEscalationAuthority, RemoveEscalationAuthority, InEscalation,
                           ownVars, outcomeVars
<1>10. ASSUME NEW e \in EscalationDeclaration,
              StartSubmission(e) \/ \E accepted \in BOOLEAN : SubmissionAnswered(e, accepted)
       PROVE  DInv'
  BY <1>10, Unconcerned DEF StartSubmission, SubmissionAnswered, InEscalation, ownVars, outcomeVars
<1>11. ASSUME NEW g \in gathering, Gathered(g) PROVE DInv'
  BY <1>11, Unconcerned DEF Gathered, outcomeVars
<1>12. ASSUME NEW p \in packages, RemovePackage(p) PROVE DInv'
  BY <1>12, Unconcerned DEF RemovePackage, outcomeVars, ownVars
<1>13. CASE Restart
  BY <1>13, RestartKeeps
<1>14. CASE UNCHANGED vars
  BY <1>14, Unconcerned DEF vars, outcomeVars, ownVars
<1> QED
  BY <1>1, <1>2, <1>3, <1>4, <1>5, <1>6, <1>7, <1>8, <1>9, <1>10, <1>11, <1>12, <1>13, <1>14 DEF Next

LEMMA DInvAlways == Spec => []DInv
BY InitDInv, NextDInv, PTL DEF Spec

-------------------------------------------------------------------------------
(* The theorems                                                            *)

\* The recorder never holds two outcomes of one dispute, however many calls
\* record at once (OutcomeRecorder.ts:87-127).
THEOREM OneOutcomeAlways == Spec => []OneOutcomePerDispute
<1>1. DInv => OneOutcomePerDispute
  BY DEF DInv
<1> QED
  BY <1>1, DInvAlways, PTL

\* Until the process restarts, an outcome whose publication is over has become the
\* resolution of its dispute, or a direct one has (DisputeManager.ts:1003-1018).
THEOREM OutcomeReachesAlways == Spec => []OutcomeReachesDispute
<1>1. DInv => OutcomeReachesDispute
  BY DEF DInv
<1> QED
  BY <1>1, DInvAlways, PTL

\* An item shared by several disputes is released by the one it is frozen for
\* (EvidenceManager.ts:290-310).
THEOREM ReleasedByItsDisputeAlways == Spec => []ReleasedByItsDispute
<1>1. DInv => ReleasedByItsDispute
  BY DEF DInv
<1> QED
  BY <1>1, DInvAlways, PTL
-------------------------------------------------------------------------------
(* Packages                                                                *)

\* What a package was found complete with is on file, and as long as it holds
\* the dispute's own list, that list has it too.
Documented(p) ==
    /\ p \in DisputePackage
    /\ Known(p.dispute)
    /\ p.complete => Contested[p.dispute] \subseteq IF p.withEvidence THEN p.saved ELSE {}
    /\ p.live /\ p.withEvidence => p.saved \subseteq disputes[p.dispute].evidence

PInv ==
    /\ \A p \in packages : Documented(p)
    /\ gathering \subseteq Gathering /\ \A g \in gathering : Known(g.dispute)

\* Disputes stay, and evidence is only ever added to them.
Grows ==
    \A d \in Disputes : Known(d) =>
        disputes'[d] # None /\ disputes[d].evidence \subseteq disputes'[d].evidence

LEMMA GrowsBy ==
    ASSUME DInv, NEW d \in Disputes, Known(d), NEW r \in DisputeDeclaration,
           disputes[d].evidence \subseteq r.evidence,
           disputes' = [disputes EXCEPT ![d] = r]
    PROVE  Grows
<1>1. disputes'[d] = r /\ \A e \in Disputes \ {d} : disputes'[e] = disputes[e]
  BY DEF DInv, Types
<1>2. r # None
  BY NoneAssumption
<1> QED
  BY <1>1, <1>2 DEF Grows, Known

LEMMA CloseGrows ==
    ASSUME DInv, NEW d \in Disputes, Known(d), NEW status \in ClosedStatuses,
           NEW resolution \in DisputeResolution \cup {Direct}, Close(d, status, resolution)
    PROVE  Grows
<1>1. disputes[d] \in DisputeDeclaration
  BY DEF DInv, Types, Known
<1>2. PICK r : r = [disputes[d] EXCEPT !.status = status, !.resolution = resolution]
  OBVIOUS
<1>3. r \in DisputeDeclaration /\ r.evidence = disputes[d].evidence
  BY <1>1, <1>2 DEF DisputeDeclaration, DisputeStatus
<1>4. disputes' = [disputes EXCEPT ![d] = r]
  BY <1>1, <1>2 DEF Close, DInv, Types
<1> QED
  BY <1>3, <1>4, GrowsBy

LEMMA AmendingGrows ==
    ASSUME DInv, NEW d \in Disputes,
           \/ InitiateClarification(d)
           \/ \E linked \in SUBSET Items : AddEvidence(d, linked)
           \/ \E status \in DisputeStatus : UpdateDisputeStatus(d, status)
           \/ \E a \in Authorities : InitiateEscalation(d, a)
    PROVE  Grows
<1>1. Known(d) /\ disputes[d] \in DisputeDeclaration
  BY DEF InitiateClarification, AddEvidence, UpdateDisputeStatus, InitiateEscalation, DInv, Types, Known
<1>2. CASE InitiateClarification(d)
  <2>1. PICK r : r = [disputes[d] EXCEPT !.status = "clarifying"]
    OBVIOUS
  <2>2. r \in DisputeDeclaration /\ r.evidence = disputes[d].evidence
    BY <1>1, <2>1 DEF DisputeDeclaration, DisputeStatus
  <2>3. disputes' = [disputes EXCEPT ![d] = r]
    BY <1>2, <2>1 DEF InitiateClarification
  <2> QED
    BY <1>1, <2>2, <2>3, GrowsBy
<1>3. ASSUME NEW linked \in SUBSET Items, AddEvidence(d, linked) PROVE Grows
  <2>1. PICK r : r = [disputes[d] EXCEPT !.evidence = @ \cup linked]
    OBVIOUS
  <2>2. r \in DisputeDeclaration /\ r.evidence = disputes[d].evidence \cup linked
    BY <1>1, <2>1 DEF DisputeDeclaration
  <2>3. disputes' = [disputes EXCEPT ![d] = r]
    BY <1>3, <2>1 DEF AddEvidence
  <2> QED
    BY <1>1, <2>2, <2>3, GrowsBy
<1>4. ASSUME NEW status \in DisputeStatus, UpdateDisputeStatus(d, status) PROVE Grows
  <2>1. PICK r : r = [disputes[d] EXCEPT !.status = status]
    OBVIOUS
  <2>2. r \in DisputeDeclaration /\ r.evidence = disputes[d].evidence
    BY <1>1, <2>1 DEF DisputeDeclaration
  <2>3. disputes' = [disputes EXCEPT ![d] = r]
    BY <1>4, <2>1 DEF UpdateDisputeStatus
  <2> QED
    BY <1>1, <2>2, <2>3, GrowsBy
<1>5. ASSUME NEW a \in Authorities, InitiateEscalation(d, a) PROVE Grows
  <2>1. PICK r : r = [disputes[d] EXCEPT !.status = "escalated", !.escalation = a]
    OBVIOUS
  <2>2. r \in DisputeDeclaration /\ r.evidence = disputes[d].evidence
    BY <1>1, <2>1 DEF DisputeDeclaration, DisputeStatus
  <2>3. disputes' = [disputes EXCEPT ![d] = r]
    BY <1>5, <2>1 DEF InitiateEscalation
  <2> QED
    BY <1>1, <2>2, <2>3, GrowsBy
<1> QED
  BY <1>2, <1>3, <1>4, <1>5

\* A step that leaves the packages alone leaves them documented.
LEMMA StaysDocumented ==
    ASSUME DInv, PInv, Grows, UNCHANGED <<packages, gathering>>
    PROVE  PInv'
<1>1. ASSUME NEW p \in packages PROVE Documented(p)'
  <2>1. Documented(p) /\ p.dispute \in Disputes
    BY DEF PInv, Documented, DisputePackage
  <2> QED
    BY <2>1 DEF Documented, Grows, Known
<1>2. \A g \in gathering : g.dispute \in Disputes
  BY DEF PInv, Gathering
<1> QED
  BY <1>1, <1>2 DEF PInv, Grows, Known

LEMMA StandingGrows ==
    ASSUME UNCHANGED disputes
    PROVE  Grows
BY DEF Grows, Known

\* A package is built from the dispute's evidence as it is then.
LEMMA GatheredKeeps ==
    ASSUME DInv, PInv, NEW g \in gathering, Gathered(g)
    PROVE  PInv'
<1> DEFINE d == g.dispute
<1> DEFINE evidence == disputes[d].evidence
<1>1. d \in Disputes /\ Known(d) /\ g.withEvidence \in BOOLEAN
  BY DEF PInv, Gathering
<1>2. disputes[d] \in DisputeDeclaration /\ evidence \in SUBSET Items
  BY <1>1 DEF DInv, Types, Known, DisputeDeclaration
<1>3. PICK q : q = [dispute |-> d, withEvidence |-> g.withEvidence, live |-> TRUE,
                    saved |-> IF g.withEvidence THEN evidence ELSE {}, complete |-> FALSE]
  OBVIOUS
<1>4. PICK v : v = VerifyPackage(q, Contested[d], evidence,
                      disputes[d].status \in {"clarifying", "escalated"}, g.clarified)
  OBVIOUS
<1>5. v \in BOOLEAN /\ (v => Contested[d] \subseteq IF g.withEvidence THEN evidence ELSE {})
  <2>1. BundledEvidence(q, evidence) = IF g.withEvidence THEN evidence ELSE {}
    BY <1>1, <1>3 DEF BundledEvidence
  <2> QED
    BY <1>4, <2>1 DEF VerifyPackage
<1>6. PICK p : p = [q EXCEPT !.complete = v]
  OBVIOUS
<1>7. /\ p.dispute = d /\ p.withEvidence = g.withEvidence /\ p.complete = v
      /\ p.saved = IF g.withEvidence THEN evidence ELSE {}
      /\ p \in DisputePackage
  BY <1>1, <1>2, <1>3, <1>5, <1>6 DEF DisputePackage
<1>8. /\ packages' = packages \cup {p} /\ gathering' = gathering \ {g} /\ disputes' = disputes
  BY <1>3, <1>4, <1>6 DEF Gathered, BuildPackage
<1>9. Documented(p)
  BY <1>1, <1>5, <1>7 DEF Documented
<1> QED
  BY <1>8, <1>9 DEF PInv, Documented, Known

LEMMA RestartDocumented ==
    ASSUME DInv, PInv, Restart
    PROVE  PInv'
<1>1. /\ packages' = {[p EXCEPT !.live = FALSE] : p \in packages}
      /\ gathering' = {} /\ disputes' = disputes
  BY DEF Restart, LoadPackages
<1>2. ASSUME NEW q \in packages' PROVE Documented(q)'
  <2>1. PICK p \in packages : q = [p EXCEPT !.live = FALSE]
    BY <1>1
  <2>2. Documented(p)
    BY DEF PInv
  <2>3. /\ q.dispute = p.dispute /\ q.withEvidence = p.withEvidence /\ q.complete = p.complete
        /\ q.saved = p.saved /\ q.live = FALSE /\ q \in DisputePackage
    BY <2>1, <2>2 DEF Documented, DisputePackage
  <2> QED
    BY <1>1, <2>2, <2>3 DEF Documented, Known
<1> QED
  BY <1>1, <1>2 DEF PInv

LEMMA NextPInv == DInv /\ PInv /\ [Next]_vars => PInv'
<1> SUFFICES ASSUME DInv, PInv, [Next]_vars PROVE PInv'
  OBVIOUS
<1>1. ASSUME NEW d \in Disputes, InitiateDispute(d) PROVE PInv'
  <2>1. ~Known(d) /\ \A e \in Disputes \ {d} : disputes'[e] = disputes[e]
    BY <1>1 DEF InitiateDispute, DInv, Types
  <2>2. Grows
    BY <2>1 DEF Grows, Known
  <2> QED
    BY <1>1, <2>2, StaysDocumented DEF InitiateDispute
<1>2. ASSUME NEW d \in Disputes, ResolveDispute(d) \/ DismissDispute(d) PROVE PInv'
  <2>1. PICK status \in ClosedStatuses : CloseDirectly(d, status)
    BY <1>2 DEF ResolveDispute, DismissDispute, ClosedStatuses
  <2>2. Grows
    BY <2>1, CloseGrows DEF CloseDirectly
  <2> QED
    BY <2>1, <2>2, StaysDocumented DEF CloseDirectly
<1>3. ASSUME NEW d \in Disputes,
             \/ RecordAuthorityDecision(d) \/ RecordSettlement(d)
             \/ RecordDismissal(d) \/ RecordWithdrawal(d)
      PROVE  PInv'
  BY <1>3, StandingGrows, StaysDocumented
     DEF RecordAuthorityDecision, RecordSettlement, RecordDismissal, RecordWithdrawal, Recorded, ownVars
<1>4. ASSUME NEW d \in Disputes,
             \/ InitiateClarification(d)
             \/ \E linked \in SUBSET Items : AddEvidence(d, linked)
             \/ \E status \in DisputeStatus : UpdateDisputeStatus(d, status)
             \/ \E a \in Authorities : InitiateEscalation(d, a)
      PROVE  PInv'
  <2>1. UNCHANGED <<packages, gathering>>
    BY <1>4 DEF InitiateClarification, AddEvidence, UpdateDisputeStatus, InitiateEscalation
  <2> QED
    BY <1>4, <2>1, AmendingGrows, StaysDocumented
<1>5. ASSUME NEW d \in Disputes, NEW withEvidence \in BOOLEAN, CreateDisputePackage(d, withEvidence)
      PROVE  PInv'
  <2>1. PICK g : g = [dispute |-> d, withEvidence |-> withEvidence,
                      clarified |-> clarifications[d] # << >>]
    OBVIOUS
  <2>2. g \in Gathering /\ g.dispute = d
    BY <2>1 DEF Gathering
  <2>3. /\ Known(d) /\ gathering' = gathering \cup {g}
        /\ UNCHANGED <<packages, disputes>>
    BY <1>5, <2>1 DEF CreateDisputePackage
  <2> QED
    BY <2>2, <2>3 DEF PInv, Documented, Known
<1>6. ASSUME NEW d \in Disputes, NEW c \in DOMAIN clarifications[d],
             SubmitClarificationStatement(d, c) \/ StartAnalysis(d, c) \/ EndClarification(d, c)
      PROVE  PInv'
  BY <1>6, StandingGrows, StaysDocumented
     DEF SubmitClarificationStatement, StartAnalysis, EndClarification, InClarification, ownVars
<1>7. ASSUME NEW d \in initiating, DisputeSubmitted(d) PROVE PInv'
  BY <1>7, StandingGrows, StaysDocumented DEF DisputeSubmitted
<1>8. ASSUME NEW o \in publishing, NEW accepted \in BOOLEAN, ApplyOutcome(o, accepted) PROVE PInv'
  <2>1. o \in DisputeResolution /\ Known(o.dispute)
    BY DEF DInv, Types, Refer
  <2>2. o.dispute \in Disputes /\ o.status \in ClosedStatuses
    BY <2>1 DEF DisputeResolution
  <2>3. Grows
    BY <1>8, <2>1, <2>2, CloseGrows DEF ApplyOutcome
  <2> QED
    BY <1>8, <2>3, StaysDocumented DEF ApplyOutcome
<1>9. ASSUME NEW a \in analysing, AnalysisAnswered(a) PROVE PInv'
  BY <1>9, StandingGrows, StaysDocumented DEF AnalysisAnswered, InClarification, ownVars
<1>10. ASSUME NEW a \in Authorities, RegisterEscalationAuthority(a) \/ RemoveEscalationAuthority(a)
       PROVE  PInv'
  BY <1>10, StandingGrows, StaysDocumented
     DEF RegisterEscalationAuthority, RemoveEscalationAuthority, InEscalation, ownVars
<1>11. ASSUME NEW e \in EscalationDeclaration,
              StartSubmission(e) \/ \E accepted \in BOOLEAN : SubmissionAnswered(e, accepted)
       PROVE  PInv'
  BY <1>11, StandingGrows, StaysDocumented
     DEF StartSubmission, SubmissionAnswered, InEscalation, ownVars
<1>12. ASSUME NEW g \in gathering, Gathered(g) PROVE PInv'
  BY <1>12, GatheredKeeps
<1>13. ASSUME NEW p \in packages, RemovePackage(p) PROVE PInv'
  BY <1>13 DEF RemovePackage, DeletePackage, ownVars, PInv, Documented, Known
<1>14. CASE Restart
  BY <1>14, RestartDocumented
<1>15. CASE UNCHANGED vars
  BY <1>15, StandingGrows, StaysDocumented DEF vars, ownVars
<1> QED
  BY <1>1, <1>2, <1>3, <1>4, <1>5, <1>6, <1>7, <1>8, <1>9, <1>10, <1>11, <1>12, <1>13, <1>14, <1>15
     DEF Next

\* A package found complete has evidence for every contested item of its dispute,
\* while it shares the dispute's list, and when it is read back from its file
\* (DisputePackageBuilder.ts:69-176, 288-353, 689-719).
THEOREM CompletePackageIsDocumentedAlways == Spec => []CompletePackageIsDocumented
<1>1. Init => PInv
  BY DEF Init, PackageInit, PInv
<1>2. PInv => CompletePackageIsDocumented
  BY DEF PInv, Documented, DisputePackage, CompletePackageIsDocumented, BundledEvidence
<1> QED
  BY <1>1, <1>2, NextPInv, DInvAlways, PTL DEF Spec

===============================================================================
