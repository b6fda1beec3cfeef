--------------------------- MODULE EscalationManager ---------------------------
(***************************************************************************)
(* _deferred/src/dispute/EscalationManager.ts: the authorities a dispute   *)
(* can be taken to, known by their unique names, the escalations, and what *)
(* is known of their submission.  A submission is posted to the authority  *)
(* or fails at once, when no address is known.                             *)
(***************************************************************************)
EXTENDS DisputeTypes

CONSTANTS
    MaxPosts            \* bound: submissions of one escalation in flight

VARIABLES
    authorities,        \* the registered ones
    escalations,        \* pairs of a dispute and an authority
    submissions,        \* the escalations whose last submission was accepted
    submitting          \* per escalation the posts in flight

escalationVars == <<authorities, escalations, submissions, submitting>>

EscalationInit ==
    /\ authorities = {}
    /\ escalations = {}
    /\ submissions = {}
    /\ submitting = [e \in EscalationDeclaration |-> 0]

RegisterAuthority(a) ==
    /\ a \notin authorities
    /\ authorities' = authorities \cup {a}
    /\ UNCHANGED <<escalations, submissions, submitting>>

RemoveAuthority(a) ==
    /\ a \in authorities
    /\ \A e \in escalations : e[2] # a
    /\ authorities' = authorities \ {a}
    /\ UNCHANGED <<escalations, submissions, submitting>>

Escalate(d, a) ==
    /\ a \in authorities
    /\ <<d, a>> \notin escalations
    /\ escalations' = escalations \cup {<<d, a>>}
    /\ UNCHANGED <<authorities, submissions, submitting>>

SubmitEscalation(e) ==
    /\ e \in escalations \ submissions
    /\ submitting[e] < MaxPosts
    /\ submitting' = [submitting EXCEPT ![e] = @ + 1]
    /\ UNCHANGED <<authorities, escalations, submissions>>

\* The answer is stored whatever another post of the same escalation got.
EscalationSubmitted(e, accepted) ==
    /\ submitting[e] > 0
    /\ submitting' = [submitting EXCEPT ![e] = @ - 1]
    /\ submissions' = IF accepted THEN submissions \cup {e} ELSE submissions \ {e}
    /\ UNCHANGED <<authorities, escalations>>
================================================================================
