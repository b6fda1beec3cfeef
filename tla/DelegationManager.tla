--------------------------- MODULE DelegationManager ---------------------------
(***************************************************************************)
(* _deferred/src/licensing/DelegationManager.ts: the delegations, chained  *)
(* by redelegation, and the actions taken under them.  The text of an      *)
(* action and the powers it is matched with are abstracted to whether it   *)
(* falls within the scope.                                                 *)
(***************************************************************************)
EXTENDS GrantTypes

CONSTANTS
    DelegationTerms,    \* the parties, expiry times and scopes that are proposed
    MaxDelegationDepth, \* maxDelegationDepth of the configuration
    MaxDelegations      \* bound: proposals

VARIABLES
    delegations, delegationFiles, delegationIds,
    actions, actionFiles

delegationVars == <<delegations, delegationFiles, delegationIds, actions, actionFiles>>

DelegationInit ==
    /\ delegations = << >> /\ delegationFiles = << >> /\ delegationIds = 0
    /\ actions = {} /\ actionFiles = {}

SaveDelegation(d, delegation) ==
    /\ delegations' = Put(delegations, d, delegation)
    /\ \/ SaveSucceeds /\ delegationFiles' = Put(delegationFiles, d, delegation)
       \/ SaveFails /\ UNCHANGED delegationFiles

SetDelegationStatus(d, status) ==
    /\ SaveDelegation(d, [delegations[d] EXCEPT !.status = status])
    /\ UNCHANGED <<delegationIds, actions, actionFiles>>

\* The limit of a redelegation: its own, else its parent's, else the configured one.
MaxDepth(terms, parent) ==
    CASE terms.scope.maxDepth # None -> terms.scope.maxDepth
      [] terms.scope.maxDepth = None /\ parent.scope.maxDepth # None -> parent.scope.maxDepth
      [] OTHER -> MaxDelegationDepth

\* Mutant: the parent may have any status.
MayRedelegateAnyStatus(terms, p) ==
    /\ delegations[p].scope.redelegable
    /\ delegations[p].depth + 1 <= MaxDepth(terms, delegations[p])
    /\ terms.delegator = delegations[p].delegate

MayRedelegate(terms, p) ==
    /\ delegations[p].status = "active"
    /\ delegations[p].scope.redelegable
    /\ delegations[p].depth + 1 <= MaxDepth(terms, delegations[p])
    /\ terms.delegator = delegations[p].delegate

ProposeDelegation(terms, parent) ==
    /\ delegationIds < MaxDelegations
    /\ terms.expires # None => terms.expires > now
    /\ parent # None => MayRedelegate(terms, parent)
    /\ delegationIds' = delegationIds + 1
    /\ SaveDelegation(delegationIds',
           [delegator |-> terms.delegator, delegate |-> terms.delegate, expires |-> terms.expires,
            scope |-> terms.scope, status |-> "proposed", parent |-> parent,
            depth |-> IF parent = None THEN 0 ELSE delegations[parent].depth + 1])
    /\ UNCHANGED <<actions, actionFiles>>

RatifyDelegation(d, by) ==
    /\ delegations[d].status = "proposed"
    /\ by = delegations[d].delegator
    /\ SetDelegationStatus(d, "ratified")

\* The parent is not asked again: it may have been revoked since the proposal.
ActivateDelegation(d) ==
    /\ delegations[d].status = "ratified"
    /\ SetDelegationStatus(d, IF Expired(delegations[d]) THEN "expired" ELSE "active")

\* An action outside the scope is recorded as such, not refused.
RecordDelegatedAction(d, by, withinScope) ==
    LET action == [delegation |-> d, delegate |-> by, withinScope |-> withinScope] IN
    /\ delegations[d].status = "active"
    /\ by = delegations[d].delegate
    /\ actions' = actions \cup {action}
    /\ \/ SaveSucceeds /\ actionFiles' = actionFiles \cup {action}
       \/ SaveFails /\ UNCHANGED actionFiles
    /\ UNCHANGED <<delegations, delegationFiles, delegationIds>>

\* Redelegations of a revoked delegation are left as they are.
RevokeDelegation(d, by) ==
    /\ delegations[d].status \notin FinalStatuses
    /\ by = delegations[d].delegator
    /\ SetDelegationStatus(d, "revoked")

ExpiringDelegations ==
    {d \in DOMAIN delegations : delegations[d].status = "active" /\ Expired(delegations[d])}

LoadDelegations ==
    /\ delegations' = delegationFiles /\ actions' = actionFiles
    /\ UNCHANGED <<delegationFiles, delegationIds, actionFiles>>
===============================================================================
