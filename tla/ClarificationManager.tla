------------------------- MODULE ClarificationManager -------------------------
(***************************************************************************)
(* _deferred/src/dispute/ClarificationManager.ts: the clarifications of    *)
(* each dispute, one open at a time, the statements made in them and their *)
(* analyses by the language model.  Statements are counted; the consent of *)
(* the parties is stored by the code and asked by nothing.                 *)
(***************************************************************************)
EXTENDS DisputeTypes

CONSTANTS
    MaxClarifications,  \* bound: clarifications of one dispute
    MaxStatements       \* bound: statements in one clarification

VARIABLES
    clarifications,     \* per dispute the records, in order
    analysing           \* the analyses the model has not answered yet

clarificationVars == <<clarifications, analysing>>

ClarificationInit ==
    /\ clarifications = [d \in Disputes |-> << >>]
    /\ analysing = {}

Open(d) == {c \in DOMAIN clarifications[d] : ~clarifications[d][c].completed}

Clarify(d) ==
    /\ Open(d) = {}
    /\ Len(clarifications[d]) < MaxClarifications
    /\ clarifications' = [clarifications EXCEPT ![d] =
           Append(@, [completed |-> FALSE, statements |-> 0, analysed |-> 0])]
    /\ UNCHANGED analysing

SubmitStatement(d, c) ==
    /\ c \in Open(d)
    /\ clarifications[d][c].statements < MaxStatements
    /\ clarifications' = [clarifications EXCEPT ![d][c].statements = @ + 1]
    /\ UNCHANGED analysing

AnalyzeClarification(d, c) ==
    /\ c \in DOMAIN clarifications[d] /\ clarifications[d][c].statements > 0
    /\ analysing' = analysing \cup
           {[dispute |-> d, record |-> c, statements |-> clarifications[d][c].statements]}
    /\ UNCHANGED clarifications

\* The answer is stored also in a record completed since.
ClarificationAnalysed(a) ==
    /\ clarifications' = [clarifications EXCEPT ![a.dispute][a.record].analysed = a.statements]
    /\ analysing' = analysing \ {a}

AnalysisFails(a) ==
    /\ analysing' = analysing \ {a}
    /\ UNCHANGED clarifications

CompleteClarification(d, c) ==
    /\ c \in Open(d)
    /\ clarifications' = [clarifications EXCEPT ![d][c].completed = TRUE]
    /\ UNCHANGED analysing
===============================================================================
