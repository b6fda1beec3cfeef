---------------------------- MODULE OutcomeRecorder ----------------------------
(***************************************************************************)
(* _deferred/src/dispute/OutcomeRecorder.ts: the outcomes of disputes.  An *)
(* outcome is stored and saved before its publication on the chain is      *)
(* awaited, and whatever the chain answers it stands.                      *)
(***************************************************************************)
EXTENDS DisputeTypes

VARIABLES
    outcomes,       \* the outcomes recorded
    publishing      \* those whose publication has not been answered yet

outcomeVars == <<outcomes, publishing>>

OutcomeInit == outcomes = {} /\ publishing = {}

\* Mutant: an outcome counts only once it is published.
HasPublishedOutcome(d) == \E o \in outcomes \ publishing : o.dispute = d

GetOutcomeForDispute(d) == \E o \in outcomes : o.dispute = d

Record(d, status) ==
    LET o == [dispute |-> d, status |-> status, id |-> Cardinality(outcomes) + 1]
    IN  /\ ~GetOutcomeForDispute(d)
        /\ outcomes' = outcomes \cup {o}
        /\ publishing' = publishing \cup {o}

AuthorityDecided(d) == Record(d, "resolved")
PartiesSettled(d) == Record(d, "resolved")
Dismissed(d) == Record(d, "dismissed")
Withdrawn(d) == Record(d, "dismissed")

PublishToChain(o) ==
    /\ publishing' = publishing \ {o}
    /\ UNCHANGED outcomes
================================================================================
