---------------------------- MODULE EvidenceManager ----------------------------
(***************************************************************************)
(* _deferred/src/dispute/EvidenceManager.ts: the contested items that are  *)
(* frozen, each under one dispute, and released when that dispute closes.  *)
(* The snapshot of an item is taken without leaving the event loop's turn, *)
(* so that a dispute freezes all its items in one step.                    *)
(***************************************************************************)
EXTENDS DisputeTypes

VARIABLE frozenItems        \* per item: None, or the dispute it was frozen for

FrozenItem == [dispute: Disputes, status: {"under_dispute", "dispute_resolved"}]

EvidenceInit == frozenItems = [i \in Items |-> None]

IsItemFrozen(i) == frozenItems[i] # None /\ frozenItems[i].status = "under_dispute"

\* What has an entry is skipped, also when its dispute is over.
FreezeContestedItems(d, contested) ==
    frozenItems' = [i \in Items |->
        IF i \in contested /\ frozenItems[i] = None
        THEN [dispute |-> d, status |-> "under_dispute"]
        ELSE frozenItems[i]]

FrozenFor(d) == {i \in Items : IsItemFrozen(i) /\ frozenItems[i].dispute = d}

\* Mutant: every frozen item is released.
UnfreezeAll(d) ==
    frozenItems' = [i \in Items |->
        IF IsItemFrozen(i) THEN [frozenItems[i] EXCEPT !.status = "dispute_resolved"]
        ELSE frozenItems[i]]

UnfreezeItemsForDispute(d) ==
    frozenItems' = [i \in Items |->
        IF i \in FrozenFor(d) THEN [frozenItems[i] EXCEPT !.status = "dispute_resolved"]
        ELSE frozenItems[i]]
================================================================================
