--------------------------- MODULE MCDisputeManager ---------------------------
(***************************************************************************)
(* Two disputes, of which one contests an item of the other, an authority, *)
(* and as many calls as it takes to bring two of them to their end.        *)
(***************************************************************************)
EXTENDS DisputeManager

CONSTANTS d1, d2, i1, i2, a1

MCDisputes == {d1, d2}
MCItems == {i1, i2}
MCAuthorities == {a1}
MCContested == [d \in MCDisputes |-> IF d = d1 THEN {i1, i2} ELSE {i2}]
===============================================================================
