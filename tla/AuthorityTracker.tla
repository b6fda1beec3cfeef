--------------------------- MODULE AuthorityTracker ---------------------------
(***************************************************************************)
(* _deferred/src/licensing/AuthorityTracker.ts: the record of uses that a  *)
(* compliance check refused.  A use that complies changes nothing and is   *)
(* no step.  Matching a use with the words of a purpose, a power or a      *)
(* limit is abstracted to its outcome; equal violations are one.           *)
(***************************************************************************)
EXTENDS LicenseManager, DelegationManager

VARIABLES violations, violationFiles

violationVars == <<violations, violationFiles>>

ViolationInit == violations = {} /\ violationFiles = {}

SaveViolation(violation, replaced) ==
    /\ violations' = (violations \ replaced) \cup {violation}
    /\ \/ SaveSucceeds /\ violationFiles' = (violationFiles \ replaced) \cup {violation}
       \/ SaveFails /\ UNCHANGED violationFiles

RecordViolation(type, of, id, violator) ==
    SaveViolation([type |-> type, of |-> of, id |-> id, violator |-> violator, dispute |-> None], {})

LostAuthority(status) == IF status = "expired" THEN "expired_authority" ELSE "revoked_authority"

\* fit: what the text of the use breaks, if anything.
CheckLicenseCompliance(l, by, fit) ==
    LET status == licenses[l].status IN
    \/ /\ status # "active"
       /\ RecordViolation(LostAuthority(status), "license", l, by)
    \/ /\ status = "active" /\ fit \in {"purpose_violation", "license_scope_violation"}
       /\ RecordViolation(fit, "license", l, by)

CheckDelegationCompliance(d, by, fits) ==
    LET status == delegations[d].status IN
    \/ /\ status # "active"
       /\ RecordViolation(LostAuthority(status), "delegation", d, by)
    \/ /\ status = "active" /\ by # delegations[d].delegate
       /\ RecordViolation("unauthorized_redelegation", "delegation", d, by)
    \/ /\ status = "active" /\ by = delegations[d].delegate /\ ~fits
       /\ RecordViolation("license_scope_violation", "delegation", d, by)

LinkViolationToDispute(violation, dispute) ==
    SaveViolation([violation EXCEPT !.dispute = dispute], {violation})

LoadViolations == violations' = violationFiles /\ UNCHANGED violationFiles
===============================================================================
