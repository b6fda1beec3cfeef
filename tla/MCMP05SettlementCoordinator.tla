---------------------- MODULE MCMP05SettlementCoordinator ----------------------
(***************************************************************************)
(* Two parties, a licence that runs out, a delegation and its              *)
(* redelegation, and a settlement in a stage that rests on both.           *)
(***************************************************************************)
EXTENDS MP05SettlementCoordinator

CONSTANTS p1, p2, x1

MCParties == {p1, p2}
MCTracked == {x1}
MCLicenseTerms == {[grantor |-> p1, grantee |-> p2, expires |-> 1]}
MCDelegationTerms ==
    {[delegator |-> p1, delegate |-> p2, expires |-> 1,
      scope |-> [redelegable |-> TRUE, maxDepth |-> None]],
     [delegator |-> p2, delegate |-> p1, expires |-> None,
      scope |-> [redelegable |-> FALSE, maxDepth |-> 1]]}
MCSettlementTerms ==
    {[required |-> {p1, p2}, stages |-> {1}, license |-> 1, delegation |-> None],
     [required |-> {p1}, stages |-> {}, license |-> None, delegation |-> 1]}
===============================================================================
