-------------------------- MODULE MCMediatorConsensus --------------------------
(***************************************************************************)
(* The managers that decide with the chain whether a mediator counts: the  *)
(* verification of its settlements and its stake.  They share no variable, *)
(* so a behaviour moves one of them and leaves the other as it began.      *)
(*                                                                         *)
(* One settlement put to verification twice, three mediators who may       *)
(* answer again, four places in the list of responses, three summaries of  *)
(* which the middle one resembles both others; three stake requests in     *)
(* flight.  Of a stake whose changes have crossed nothing is claimed: its  *)
(* behaviours end there.                                                   *)
(***************************************************************************)
EXTENDS SemanticConsensus, StakeManager, TLC

CONSTANTS r1, r2, v1, v2, v3, e1, e2, e3, e4, c1, s1, s2, s3

MCRequests == {r1, r2}
MCVerifiers == {v1, v2, v3}
MCEntries == {e1, e2, e3, e4}
MCMeanings == {1, 2, 3}
MCSimilar == {<<1, 2>>, <<2, 3>>}
MCCalls == {c1}
MCPlaces == {s1, s2, s3}
MCSymmetry == Permutations(MCEntries) \cup Permutations(MCPlaces)

vars == <<consensusVars, stakeVars>>

Init == ConsensusInit /\ StakeInit

Next == \/ StakeInit /\ held = 1 /\ ~leaving /\ ConsensusNext /\ UNCHANGED stakeVars
        \/ ConsensusInit /\ ~crossed /\ StakeNext /\ UNCHANGED consensusVars

Spec == Init /\ [][Next]_vars
===============================================================================
