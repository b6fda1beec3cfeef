------------------------- MODULE SettlementLifecycle -------------------------
(***************************************************************************)
(* What the settlement manager promises, without its passes, its requests, *)
(* its flags and its clock.  A settlement is proposed, agreed by both      *)
(* parties, and paid; the mediator watches it from its submission until an *)
(* outcome.  The fee is asked for once the settlement is agreed and while  *)
(* it is watched; the network may deliver what was asked for, and what was *)
(* proposed, after the mediator has given the settlement up.               *)
(***************************************************************************)
CONSTANT Settlements

VARIABLES ledger,  \* what the chain holds: nothing, a proposal, an agreement
          view,    \* where the mediator is with the settlement
          asked,   \* whether the mediator has asked for its fee
          paid     \* whether the chain has applied a claim of the fee

vars == <<ledger, view, asked, paid>>

Stage == {"absent", "proposed", "agreed"}
View == {"new", "watched", "closed", "rejected", "dropped"}

TypeOK ==
    /\ ledger \in [Settlements -> Stage]
    /\ view \in [Settlements -> View]
    /\ asked \in [Settlements -> BOOLEAN]
    /\ paid \in [Settlements -> BOOLEAN]

Init ==
    /\ ledger = [s \in Settlements |-> "absent"]
    /\ view = [s \in Settlements |-> "new"]
    /\ asked = [s \in Settlements |-> FALSE]
    /\ paid = [s \in Settlements |-> FALSE]

\* A proposal may reach the chain after its submission was given up.
Propose(s) ==
    /\ ledger[s] = "absent"
    /\ view[s] \in {"new", "dropped"}
    /\ ledger' = [ledger EXCEPT ![s] = "proposed"]
    /\ UNCHANGED <<view, asked, paid>>

Agree(s) ==
    /\ ledger[s] = "proposed"
    /\ ledger' = [ledger EXCEPT ![s] = "agreed"]
    /\ UNCHANGED <<view, asked, paid>>

Watch(s) ==
    /\ view[s] = "new"
    /\ ledger[s] # "absent"
    /\ view' = [view EXCEPT ![s] = "watched"]
    /\ UNCHANGED <<ledger, asked, paid>>

Ask(s) ==
    /\ view[s] = "watched"
    /\ ledger[s] = "agreed"
    /\ asked' = [asked EXCEPT ![s] = TRUE]
    /\ UNCHANGED <<ledger, view, paid>>

\* The chain pays what was asked for, whether the mediator still waits or not.
Pay(s) ==
    /\ asked[s]
    /\ paid' = [paid EXCEPT ![s] = TRUE]
    /\ UNCHANGED <<ledger, view, asked>>

Close(s) ==
    /\ view[s] = "watched"
    /\ paid[s]
    /\ view' = [view EXCEPT ![s] = "closed"]
    /\ UNCHANGED <<ledger, asked, paid>>

Reject(s) ==
    /\ view[s] = "watched"
    /\ ~asked[s]
    /\ view' = [view EXCEPT ![s] = "rejected"]
    /\ UNCHANGED <<ledger, asked, paid>>

\* The submission or the payout failed: the mediator gives the settlement up.
Drop(s) ==
    /\ view[s] \in {"new", "watched"}
    /\ view' = [view EXCEPT ![s] = "dropped"]
    /\ UNCHANGED <<ledger, asked, paid>>

\* The node restarts: whatever it had begun it no longer knows.
Restart ==
    /\ \E begun \in SUBSET Settlements :
         /\ \A s \in Settlements \ begun : view[s] = "new"
         /\ view' = [s \in Settlements |-> IF s \in begun THEN "dropped" ELSE view[s]]
    /\ UNCHANGED <<ledger, asked, paid>>

Next ==
    \/ \E s \in Settlements :
         \/ Propose(s) \/ Agree(s) \/ Watch(s) \/ Ask(s) \/ Pay(s)
         \/ Close(s) \/ Reject(s) \/ Drop(s)
    \/ Restart

Spec == Init /\ [][Next]_vars

===============================================================================
