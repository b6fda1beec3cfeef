-------------------------- MODULE MCChallengeManager --------------------------
(***************************************************************************)
(* One settlement to audit, two challenge identifiers, two overlapping     *)
(* scans, two overlapping monitoring passes, one restart.                  *)
(***************************************************************************)
EXTENDS ChallengeManager, TLC

CONSTANTS t1, c1, c2, x1, x2, p1, p2

MCTargets == {t1}
MCChallenges == {c1, c2}
MCScans == {x1, x2}
MCPasses == {p1, p2}
MCSymmetry ==
    Permutations(MCChallenges) \cup Permutations(MCScans) \cup Permutations(MCPasses)

===============================================================================
