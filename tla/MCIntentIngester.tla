-------------------------- MODULE MCIntentIngester --------------------------
(* Four intents of two authors: one plain, one flagged and unalignable     *)
(* only in part of the classes, so that every filter decides something.    *)
EXTENDS IntentIngester

CONSTANTS i1, i2, i3, i4, a1, a2

MCPosted == {i1, i2, i3, i4}
MCAuthors == {a1, a2}
MCAuthorOf == [i \in MCPosted |-> IF i \in {i1, i4} THEN a1 ELSE a2]
MCInvalid == {}
MCFlagged == {i2}
MCUnalignable == {i4}
=============================================================================
