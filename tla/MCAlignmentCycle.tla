-------------------------- MODULE MCAlignmentCycle --------------------------
(* Two intents of one fee, two overlapping cycles, an index with less room *)
(* than ids.                                                               *)
EXTENDS AlignmentCycle, TLC

CONSTANTS i1, i2, c1, c2

MCIntents == {i1, i2}
MCOfferedFee == [i \in MCIntents |-> 1]
MCCycles == {c1, c2}
MCSymmetry == Permutations(MCCycles)
=============================================================================
