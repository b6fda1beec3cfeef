------------------------- MODULE DisputePackageBuilder -------------------------
(***************************************************************************)
(* _deferred/src/dispute/DisputePackageBuilder.ts: the packages made of a  *)
(* dispute's records for an outside authority.  Evidence stands for the    *)
(* items it is linked to.  Until the process restarts a package holds the  *)
(* dispute's own list of evidence, and grows with it; the file holds what  *)
(* the list was when the package was built.                                *)
(***************************************************************************)
EXTENDS DisputeTypes

CONSTANTS
    MaxPackages         \* bound: packages held at a time

VARIABLE packages

PackageInit == packages = {}

BundledEvidence(p, evidence) ==
    CASE ~p.withEvidence -> {}
      [] p.withEvidence /\ p.live -> evidence
      [] OTHER -> p.saved

\* Mutant: the dispute's evidence counts, not the package's.
VerifyDispute(p, contested, evidence, proceeding, clarified) ==
    /\ contested \subseteq evidence
    /\ proceeding => clarified

VerifyPackage(p, contested, evidence, proceeding, clarified) ==
    /\ contested \subseteq BundledEvidence(p, evidence)
    /\ proceeding => clarified

BuildPackage(d, withEvidence, contested, evidence, proceeding, clarified) ==
    LET p == [dispute |-> d, withEvidence |-> withEvidence, live |-> TRUE,
              saved |-> IF withEvidence THEN evidence ELSE {}, complete |-> FALSE]
    IN  /\ Cardinality(packages) < MaxPackages
        /\ packages' = packages \cup
               {[p EXCEPT !.complete = VerifyPackage(p, contested, evidence, proceeding, clarified)]}

DeletePackage(p) ==
    /\ p \in packages
    /\ packages' = packages \ {p}

LoadPackages == packages' = {[p EXCEPT !.live = FALSE] : p \in packages}
================================================================================
