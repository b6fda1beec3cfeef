------------------------- MODULE MCSettlementManager -------------------------
(***************************************************************************)
(* The settlement manager for TLC: overlapping passes over one settlement, *)
(* and two settlements with one pass at a time.                            *)
(***************************************************************************)
EXTENDS SettlementManager, TLC

CONSTANTS p1, s1, s2, A, B

MCPasses == {p1}
MCSettlements == {s1, s2}
MCParties == {A, B}
MCSymmetry == Permutations(MCSettlements) \cup Permutations(MCParties)

\* Two states that differ only in what no action, and no property of the run,
\* looks at are one.
MCOverlapView == <<ledgerVars, nodeVars, clock>>
MCSingleView == <<ledgerVars, nodeVars, clock, crashes, answerLost, upheldFirst>>

===============================================================================
