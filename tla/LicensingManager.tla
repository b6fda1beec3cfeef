--------------------------- MODULE LicensingManager ---------------------------
(***************************************************************************)
(* _deferred/src/licensing/LicensingManager.ts: licences, delegations and  *)
(* the authority tracker behind one interface.  Every method runs to its   *)
(* end before the next one starts; the hazards are the clock, a write that *)
(* the disk refuses, and a restart that loads what was written.            *)
(***************************************************************************)
EXTENDS AuthorityTracker

CONSTANT AutoExpireCheck

ASSUME LicensingAssumption == AutoExpireCheck \in BOOLEAN

licensingVars == <<licenseVars, delegationVars, violationVars>>

LicensingInit == LicenseInit /\ DelegationInit /\ ViolationInit

LicensingTypeOK ==
    /\ \A l \in DOMAIN licenses : licenses[l] \in License
    /\ \A d \in DOMAIN delegations : delegations[d] \in DelegationGrant
    /\ actions \subseteq DelegatedAction
    /\ violations \subseteq ScopeViolation

LicenseCall ==
    /\ \/ \E terms \in LicenseTerms : ProposeLicense(terms)
       \/ \E l \in DOMAIN licenses :
           \/ ActivateLicense(l)
           \/ \E by \in Parties : RatifyLicense(l, by) \/ RevokeLicense(l, by)
    /\ UNCHANGED <<delegationVars, violationVars, now>>

DelegationCall ==
    /\ \/ \E terms \in DelegationTerms, parent \in DOMAIN delegations \cup {None} :
           ProposeDelegation(terms, parent)
       \/ \E d \in DOMAIN delegations :
           \/ ActivateDelegation(d)
           \/ \E by \in Parties :
               \/ RatifyDelegation(d, by) \/ RevokeDelegation(d, by)
               \/ \E within \in BOOLEAN : RecordDelegatedAction(d, by, within)
    /\ UNCHANGED <<licenseVars, violationVars, now>>

ComplianceCall ==
    /\ \/ \E l \in DOMAIN licenses, by \in Parties, fit \in ViolationType :
           CheckLicenseCompliance(l, by, fit)
       \/ \E d \in DOMAIN delegations, by \in Parties, fits \in BOOLEAN :
           CheckDelegationCompliance(d, by, fits)
       \/ \E v \in violations, dispute \in Tracked : LinkViolationToDispute(v, dispute)
    /\ UNCHANGED <<licenseVars, delegationVars, now>>

Written(files, grants, ids) ==
    [g \in DOMAIN files \cup ids |-> IF g \in ids THEN grants[g] ELSE files[g]]

\* Every expired grant is written on its own, and each write may be refused.
PerformExpiryCheck ==
    /\ AutoExpireCheck
    /\ ExpiringLicenses \cup ExpiringDelegations # {}
    /\ \E lostL \in SUBSET ExpiringLicenses, lostD \in SUBSET ExpiringDelegations :
        /\ failedSaves' = failedSaves + Cardinality(lostL) + Cardinality(lostD)
        /\ failedSaves' <= MaxFailedSaves
        /\ licenses' = ExpireAll(licenses, ExpiringLicenses)
        /\ licenseFiles' = Written(licenseFiles, licenses', ExpiringLicenses \ lostL)
        /\ delegations' = ExpireAll(delegations, ExpiringDelegations)
        /\ delegationFiles' = Written(delegationFiles, delegations', ExpiringDelegations \ lostD)
    /\ UNCHANGED <<licenseIds, delegationIds, actions, actionFiles, violationVars, now>>

Tick ==
    /\ now < MaxTime /\ now' = now + 1
    /\ UNCHANGED <<licensingVars, failedSaves>>

(***************************************************************************)
(* A licence or delegation whose end was written stays ended, on disk and  *)
(* in memory, whatever is called and however often the node restarts       *)
(* (LicenseManager.ts:339-410, DelegationManager.ts:503-574: the doc of    *)
(* the statuses calls both final).                                         *)
(***************************************************************************)
EndsForGood(grants, grantFiles, grants2, grantFiles2) ==
    \A g \in DOMAIN grantFiles :
        grantFiles[g].status \in FinalStatuses =>
            /\ grantFiles2[g] = grantFiles[g]
            /\ grants[g].status \in FinalStatuses => grants2[g].status \in FinalStatuses

WrittenEndIsFinal ==
    [][/\ EndsForGood(licenses, licenseFiles, licenses', licenseFiles')
       /\ EndsForGood(delegations, delegationFiles, delegations', delegationFiles')]_licensingVars

(***************************************************************************)
(* As long as no write was refused, authority is handed down a chain: the  *)
(* delegator of a redelegation is the delegate of its parent, one level    *)
(* higher, which its own delegator ratified and somebody put in force      *)
(* (DelegationManager.ts:151-197, types/index.ts:1969 "to prevent          *)
(* authority dilution").                                                   *)
(***************************************************************************)
AuthorityIsHandedDown ==
    failedSaves = 0 =>
        \A d \in DOMAIN delegations :
            LET parent == delegations[d].parent IN
            parent # None =>
                /\ parent \in DOMAIN delegations
                /\ delegations[parent].delegate = delegations[d].delegator
                /\ delegations[parent].depth + 1 = delegations[d].depth
                /\ delegations[parent].status \in {"active"} \cup FinalStatuses
===============================================================================
