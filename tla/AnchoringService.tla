--------------------------- MODULE AnchoringService ---------------------------
(***************************************************************************)
(* _deferred/src/effort/ReceiptManager.ts and AnchoringService.ts: the     *)
(* receipts of validated segments, and posting them to the ledger, one     *)
(* after the other in a run of the timer.                                  *)
(*                                                                         *)
(* saveReceipt asks EffortReceiptSchema (validation/schemas.ts:143-154)    *)
(* for fields no receipt has, userId, signals, signalHash and anchored: it *)
(* throws every time, after the change in memory, and no file is ever      *)
(* written.  A receipt is what it attests; receipts that attest the same   *)
(* in the same state are one.  Its status is validated also when the model *)
(* failed and the fallback assessment stands in its place.                 *)
(*                                                                         *)
(* The ledger is external: it may take a receipt and the answer be lost,   *)
(* and take one the client has given up on.                                *)
(***************************************************************************)
EXTENDS SegmentationEngine

VARIABLES
    receipts,
    ledger,             \* what the ledger was given: receipts as they were when posted
    anchorings,         \* runs in flight: what is posted, whether it was taken, what follows
    late                \* posts that were given up on and may still arrive

anchoringVars == <<ledger, anchorings, late>>

ReceiptStatus == {"validated", "anchored"}

EffortReceipt ==
    [segment: EffortSegment, marked: BOOLEAN, status: ReceiptStatus]

\* The constructor finds no file to load.
LoadReceipts == receipts' = {}

\* The receipt is in the map when saveReceipt throws.
CreateReceipt(segment, marked) ==
    receipts' = receipts \cup
        {[segment |-> segment, marked |-> marked, status |-> "validated"]}

GetReceiptsByStatus(status) == {r \in receipts : r.status = status}

\* `others`: there are more receipts equal to this one.
MarkAsAnchored(receipt, others) ==
    IF receipt \in receipts
    THEN receipts' = (IF others THEN receipts ELSE receipts \ {receipt})
                         \cup {[receipt EXCEPT !.status = "anchored"]}
    ELSE UNCHANGED receipts

OldReceipts(cutoff) ==
    {r \in receipts : r.status # "anchored" /\ EndTime(r.segment) < cutoff}

DeleteReceipts(some) == receipts' = receipts \ some

-------------------------------------------------------------------------------
(* Anchoring                                                               *)

AnchoringInit == ledger = {} /\ anchorings = {} /\ late = {}

AutoAnchorValidatedReceipts ==
    /\ \E first \in GetReceiptsByStatus("validated") :
        anchorings' = anchorings \cup
            {[posting |-> first, taken |-> FALSE, left |-> GetReceiptsByStatus("validated") \ {first}]}
    /\ UNCHANGED <<ledger, late, receipts>>

PostTaken(run) ==
    /\ ~run.taken
    /\ ledger' = ledger \cup {run.posting}
    /\ anchorings' = (anchorings \ {run}) \cup
           {[posting |-> run.posting, taken |-> TRUE, left |-> run.left]}
    /\ UNCHANGED <<late, receipts>>

\* The post of a run that is over, or of a process that is.
TakenLate(receipt) ==
    /\ ledger' = ledger \cup {receipt}
    /\ late' = late \ {receipt}
    /\ UNCHANGED <<anchorings, receipts>>

InFlight(runs) == {run.posting : run \in {other \in runs : ~other.taken}}

\* The run goes on with one that is still there and not anchored, if any.
GoOn(run, held) ==
    LET left == run.left \cap held IN
    IF left = {} THEN anchorings' = anchorings \ {run}
    ELSE \E next \in left :
        anchorings' = (anchorings \ {run}) \cup
            {[posting |-> next, taken |-> FALSE, left |-> left \ {next}]}

\* Mutant: any answer is taken for success.
AnchoredByAnyAnswer(run, success, others) ==
    /\ MarkAsAnchored(run.posting, others)
    /\ GoOn(run, receipts')
    /\ UNCHANGED <<ledger, late>>

\* A post that ends without success may still be on its way.
AnchorReceipt(run, success, others) ==
    /\ success => run.taken
    /\ IF success THEN MarkAsAnchored(run.posting, others) ELSE ~others /\ UNCHANGED receipts
    /\ GoOn(run, receipts')
    /\ late' = late \cup InFlight({run})
    /\ UNCHANGED ledger
===============================================================================
