------------------------- MODULE MCEffortCaptureSystem -------------------------
(***************************************************************************)
(* Segmentation and anchoring, one of them at a time: a behaviour that     *)
(* anchors or marks has one signal, from which the timer and a mark make   *)
(* two receipts, and one pass at a time; the others have more signals, two *)
(* passes and a shell.  The window, the gap and the last instant are such  *)
(* that no two of the three rules cut three signals alike.                 *)
(***************************************************************************)
EXTENDS EffortCaptureSystem

CONSTANTS
    MaxAnchored,        \* bound: signals of a behaviour that anchors
    MaxAnchoredTime     \* bound: its last instant

VARIABLE focus

MCInit == Init /\ focus \in {"segments", "anchoring"}

MCNext ==
    /\ Next /\ UNCHANGED focus
    /\ focus = "segments" => UNCHANGED <<anchoringVars, marking>>
    /\ focus = "anchoring" =>
           /\ strategy = "hybrid"
           /\ captured' <= MaxAnchored /\ now' <= MaxAnchoredTime /\ history' = 0
           /\ \A p \in Passes \ {1} : passes'[p] = NoPass

MCSpec == MCInit /\ [][MCNext]_<<vars, focus>> /\ Fairness
===============================================================================
