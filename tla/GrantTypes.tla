------------------------------ MODULE GrantTypes ------------------------------
(***************************************************************************)
(* types/index.ts, MP-04: licences and delegations without their prose,    *)
(* and what every manager of them shares: the clock, and a disk that may   *)
(* refuse a write.  The code logs a refused write and goes on, so memory   *)
(* and disk differ from then on, until the next write of the same record.  *)
(***************************************************************************)
EXTENDS Integers, FiniteSets, TLC

CONSTANTS
    Parties,
    Tracked,            \* references a violation or a contest may carry: disputes of MP-03
    None,
    MaxTime,            \* bound: the last instant
    MaxFailedSaves      \* bound: writes the disk refuses

ASSUME GrantAssumption == None \notin Parties \cup Tracked \cup Int

VARIABLES
    now,
    failedSaves

FinalStatuses == {"expired", "revoked"}

LicenseStatus == {"proposed", "ratified", "active"} \cup FinalStatuses

License == [grantor: Parties, grantee: Parties, expires: Nat \cup {None}, status: LicenseStatus]

DelegationScope == [redelegable: BOOLEAN, maxDepth: Nat \cup {None}]

DelegationGrant ==
    [delegator: Parties, delegate: Parties, expires: Nat \cup {None}, scope: DelegationScope,
     status: LicenseStatus, parent: Nat \cup {None}, depth: Nat]

ViolationType ==
    {"license_scope_violation", "unauthorized_redelegation", "purpose_violation",
     "expired_authority", "revoked_authority"}

ScopeViolation ==
    [type: ViolationType, of: {"license", "delegation"}, id: Nat, violator: Parties,
     dispute: Tracked \cup {None}]

DelegatedAction == [delegation: Nat, delegate: Parties, withinScope: BOOLEAN]

Expired(grant) == grant.expires # None /\ grant.expires <= now

\* Map.set
Put(map, id, record) ==
    [k \in DOMAIN map \cup {id} |-> IF k = id THEN record ELSE map[k]]

\* A write that succeeds, and one that the disk refuses.
SaveSucceeds == UNCHANGED failedSaves
SaveFails == failedSaves < MaxFailedSaves /\ failedSaves' = failedSaves + 1
===============================================================================
