---------------------------- MODULE LicenseManager ----------------------------
(***************************************************************************)
(* _deferred/src/licensing/LicenseManager.ts: the licences in memory and   *)
(* their files.  A licence is proposed by anybody, ratified by its grantor *)
(* and activated by anybody; nanoid() is a number that is drawn once.      *)
(***************************************************************************)
EXTENDS GrantTypes

CONSTANTS
    LicenseTerms,       \* the parties and expiry times that are proposed
    MaxLicenses         \* bound: proposals

VARIABLES
    licenses,           \* id -> licence
    licenseFiles,       \* what is on disk
    licenseIds          \* ids drawn so far

licenseVars == <<licenses, licenseFiles, licenseIds>>

LicenseInit == licenses = << >> /\ licenseFiles = << >> /\ licenseIds = 0

\* set() in the map, then saveLicense.
SaveLicense(l, license) ==
    /\ licenses' = Put(licenses, l, license)
    /\ \/ SaveSucceeds /\ licenseFiles' = Put(licenseFiles, l, license)
       \/ SaveFails /\ UNCHANGED licenseFiles

SetStatus(l, status) == SaveLicense(l, [licenses[l] EXCEPT !.status = status])

ProposeLicense(terms) ==
    /\ licenseIds < MaxLicenses
    /\ terms.expires # None => terms.expires > now
    /\ licenseIds' = licenseIds + 1
    /\ SaveLicense(licenseIds',
           [grantor |-> terms.grantor, grantee |-> terms.grantee, expires |-> terms.expires,
            status |-> "proposed"])

\* Mutant: whatever its status.
RatifyAgain(l, by) ==
    /\ by = licenses[l].grantor
    /\ SetStatus(l, "ratified")
    /\ UNCHANGED licenseIds

RatifyLicense(l, by) ==
    /\ licenses[l].status = "proposed"
    /\ by = licenses[l].grantor
    /\ SetStatus(l, "ratified")
    /\ UNCHANGED licenseIds

ActivateLicense(l) ==
    /\ licenses[l].status = "ratified"
    /\ SetStatus(l, IF Expired(licenses[l]) THEN "expired" ELSE "active")
    /\ UNCHANGED licenseIds

RevokeLicense(l, by) ==
    /\ licenses[l].status \notin FinalStatuses
    /\ by = licenses[l].grantor
    /\ SetStatus(l, "revoked")
    /\ UNCHANGED licenseIds

\* The licences checkAndExpireLicenses writes; only active ones are looked at.
ExpiringLicenses ==
    {l \in DOMAIN licenses : licenses[l].status = "active" /\ Expired(licenses[l])}

ExpireAll(grants, ids) ==
    [g \in DOMAIN grants |-> IF g \in ids THEN [grants[g] EXCEPT !.status = "expired"] ELSE grants[g]]

\* A load reads every file.
LoadLicenses == licenses' = licenseFiles /\ UNCHANGED <<licenseFiles, licenseIds>>

\* MP05SettlementValidator and the compliance checks ask for a licence by id.
GetLicense(l) == IF l \in DOMAIN licenses THEN licenses[l] ELSE None
===============================================================================
