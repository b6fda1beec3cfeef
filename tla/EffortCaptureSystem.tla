-------------------------- MODULE EffortCaptureSystem --------------------------
(***************************************************************************)
(* _deferred/src/effort/EffortCaptureSystem.ts: the timers that cut the    *)
(* captured signals into segments, have each assessed by the language      *)
(* model and receipted, and anchor the receipts; marked segments, the      *)
(* retention, stop and restart.  A pass of a timer waits for the model at  *)
(* each segment, and the next one does not wait for it.                    *)
(***************************************************************************)
EXTENDS AnchoringService

CONSTANTS
    Strategies,         \* the configured strategy is one of these
    AutoAnchor,         \* effortAutoAnchor
    MarkedRange,        \* how far back a marked segment reaches: one hour
    Retention,          \* effortRetentionDays
    MaxPasses,          \* bound: passes of the segmentation timer in flight
    MaxRuns             \* bound: runs of the anchoring in flight

ASSUME EffortAssumption ==
    Strategies \subseteq SegmentationStrategy /\ AutoAnchor \in BOOLEAN

VARIABLES
    strategy,
    passes,             \* of each pass in flight: the segments left, the oldest time it saw
    marking,            \* marked segments the model is assessing
    retired,            \* numbers of the signals that retention or a restart dropped
    trimmed             \* history: the retention dropped signals in this life

Passes == 1..MaxPasses

NoPass == [todo |-> << >>, oldest |-> 0]

vars == <<now, observerVars, receipts, anchoringVars, strategy, passes, marking, retired, trimmed>>

\* The type invariant of the effort capture.
TypeOK ==
    /\ now \in 0..MaxTime /\ signals \in Seq(Signal) /\ captured \in 0..MaxSignals
    /\ observing \in BOOLEAN /\ history \in 0..MaxHistory /\ lastPosition \in 0..MaxHistory
    /\ receipts \cup ledger \subseteq EffortReceipt
    /\ \A run \in anchorings : {run.posting} \cup run.left \subseteq EffortReceipt
    /\ DOMAIN passes = Passes
    /\ \A p \in Passes : passes[p].todo \in Seq(EffortSegment) /\ passes[p].oldest \in 0..MaxTime
    /\ marking \subseteq EffortSegment /\ retired \subseteq 1..captured

Init ==
    /\ now = 0 /\ ObserverInit /\ AnchoringInit
    /\ receipts = {} /\ passes = [p \in Passes |-> NoPass] /\ marking = {} /\ retired = {}
    /\ trimmed = FALSE
    /\ strategy \in Strategies

Capture ==
    /\ OnFileChange \/ CheckForNewCommands \/ Shell
    /\ UNCHANGED <<now, receipts, anchoringVars, strategy, passes, marking, retired, trimmed>>

Start ==
    /\ ~observing /\ StartAll
    /\ UNCHANGED <<now, receipts, anchoringVars, strategy, passes, marking, retired, trimmed>>

\* Mutant: what was processed is really cleared.
NewPassClearingAll ==
    IF signals = << >> THEN UNCHANGED passes
    ELSE LET idle == {p \in Passes : passes[p].todo = << >>}
             segments == ProcessSignals(strategy, signals)
         IN  /\ idle # {}
             /\ passes' = [passes EXCEPT ![Min(idle)] =
                    [todo |-> segments, oldest |-> EndTime(Last(segments))]]

\* The synchronous part of processSegments: a snapshot, cut into segments.
NewPass ==
    IF signals = << >> THEN UNCHANGED passes
    ELSE LET idle == {p \in Passes : passes[p].todo = << >>}
             segments == ProcessSignals(strategy, signals)
         IN  /\ idle # {}
             /\ passes' = [passes EXCEPT ![Min(idle)] =
                    [todo |-> segments, oldest |-> StartTime(Head(segments))]]

ProcessSegments ==
    /\ observing /\ signals # << >> /\ NewPass
    /\ UNCHANGED <<now, observerVars, receipts, anchoringVars, strategy, marking, retired, trimmed>>

\* Mutant: the pass of stop() is forgotten.
StopAtOnce ==
    /\ observing /\ StopAll
    /\ UNCHANGED <<now, receipts, anchoringVars, strategy, passes, marking, retired, trimmed>>

\* One more pass, which stop() does not wait for.
Stop ==
    /\ observing /\ StopAll /\ NewPass
    /\ UNCHANGED <<now, receipts, anchoringVars, strategy, marking, retired, trimmed>>

(***************************************************************************)
(* The model answers, or the fallback assessment is taken; createReceipt   *)
(* stores the receipt and throws, so the pass goes on without anchoring    *)
(* it.  At the end the signals before the oldest of the pass are cleared,  *)
(* which is none of those the pass was about.                              *)
(***************************************************************************)
SegmentAssessed(p) ==
    LET pass == passes[p]
        last == Len(pass.todo) = 1
    IN
    /\ pass.todo # << >>
    /\ CreateReceipt(Head(pass.todo), FALSE)
    /\ passes' = [passes EXCEPT ![p] = IF last THEN NoPass ELSE [pass EXCEPT !.todo = Tail(@)]]
    /\ IF last THEN ClearSignalsBefore(pass.oldest) ELSE UNCHANGED signals
    /\ UNCHANGED <<now, captured, observing, history, lastPosition, anchoringVars, strategy,
                   marking, retired, trimmed>>

CreateMarkedSegment ==
    /\ LET recent == Since(now - MarkedRange)
       IN  recent # << >> /\ marking' = marking \cup {recent}
    /\ UNCHANGED <<now, observerVars, receipts, anchoringVars, strategy, passes, retired, trimmed>>

MarkedAssessed(segment) ==
    /\ CreateReceipt(segment, TRUE)
    /\ marking' = marking \ {segment}
    /\ UNCHANGED <<now, observerVars, anchoringVars, strategy, passes, retired, trimmed>>

AnchoringTimer ==
    /\ observing /\ AutoAnchor /\ AutoAnchorValidatedReceipts
    /\ Cardinality(anchorings) < MaxRuns
    /\ UNCHANGED <<now, observerVars, strategy, passes, marking, retired, trimmed>>

ArrivesLate ==
    /\ \E receipt \in late : TakenLate(receipt)
    /\ UNCHANGED <<now, observerVars, strategy, passes, marking, retired, trimmed>>

Anchoring(run) ==
    /\ \/ PostTaken(run)
       \/ \E success, others \in BOOLEAN : AnchorReceipt(run, success, others)
    /\ UNCHANGED <<now, observerVars, strategy, passes, marking, retired, trimmed>>

Cleanup ==
    LET cutoff == now - Retention
        dropped == {signals[i].number : i \in 1..Older(cutoff)}
    IN
    /\ dropped # {} \/ OldReceipts(cutoff) # {}
    /\ ClearSignalsBefore(cutoff)
    /\ retired' = retired \cup dropped
    /\ trimmed' = (trimmed \/ dropped # {})
    /\ DeleteReceipts(OldReceipts(cutoff))
    /\ UNCHANGED <<now, captured, observing, history, lastPosition, anchoringVars, strategy,
                   passes, marking>>

\* Signals and receipts are in memory only; what was posted may still arrive.
Restart ==
    /\ signals' = << >> /\ observing' = FALSE /\ lastPosition' = 0
    /\ LoadReceipts
    /\ passes' = [p \in Passes |-> NoPass] /\ marking' = {} /\ anchorings' = {}
    /\ late' = late \cup InFlight(anchorings)
    /\ retired' = 1..captured /\ trimmed' = FALSE
    /\ UNCHANGED <<now, captured, history, ledger, strategy>>

Tick ==
    /\ now < MaxTime /\ now' = now + 1
    /\ UNCHANGED <<observerVars, receipts, anchoringVars, strategy, passes, marking, retired, trimmed>>

Next ==
    \/ Capture \/ Start \/ Stop \/ ProcessSegments
    \/ \E p \in Passes : SegmentAssessed(p)
    \/ CreateMarkedSegment
    \/ \E segment \in marking : MarkedAssessed(segment)
    \/ AnchoringTimer
    \/ \E run \in anchorings : Anchoring(run)
    \/ ArrivesLate \/ Cleanup \/ Restart \/ Tick

(***************************************************************************)
(* The segmentation timer fires while the system runs (setInterval,        *)
(* EffortCaptureSystem.ts:73), and every call of the model returns or      *)
(* fails, which counts as an answer (EffortValidator.ts:44-51).            *)
(***************************************************************************)
Fairness ==
    /\ WF_vars(ProcessSegments)
    /\ \A p \in Passes : WF_vars(SegmentAssessed(p))

Spec == Init /\ [][Next]_vars /\ Fairness

(***************************************************************************)
(* Every signal that is captured is attested by a receipt in the end,      *)
(* unless the retention or a restart drops it first: also one captured     *)
(* while a pass waits for the model, and one captured just before stop()   *)
(* (EffortCaptureSystem.ts:106-131, 187-188).                              *)
(***************************************************************************)
Attested(n) == \E r \in receipts : \E i \in DOMAIN r.segment : r.segment[i].number = n

EverySignalIsAttested ==
    \A n \in 1..MaxSignals : (captured >= n) ~> (n \in retired \/ Attested(n))

(***************************************************************************)
(* The signals are never cleared but by the retention, and each pass cuts  *)
(* them anew.  Until it first does, two receipts of the timer that claim   *)
(* one signal tell one story, whichever passes made them and whatever was  *)
(* captured in between: one segment is the beginning of the other          *)
(* (MP-02-spec.md:106 "Segmentation rules MUST be deterministic and        *)
(* disclosed").                                                            *)
(***************************************************************************)
OfTimer == {r \in receipts : ~r.marked}

ReceiptsAgree ==
    ~trimmed => \A r, s \in OfTimer :
        ToSet(r.segment) \cap ToSet(s.segment) # {} =>
            IsPrefix(r.segment, s.segment) \/ IsPrefix(s.segment, r.segment)

(***************************************************************************)
(* And a receipt of the timer attests a segment that follows the rule.     *)
(***************************************************************************)
ReceiptsFollowTheRule ==
    \A r \in OfTimer : FollowsRule(strategy, r.segment)

(***************************************************************************)
(* A receipt that says it is anchored is on the ledger, whatever answers   *)
(* were lost, however many runs posted it, and although the retention may  *)
(* have deleted it while it was posted (AnchoringService.ts:79-112).       *)
(***************************************************************************)
AnchoredIsOnLedger ==
    \A r \in receipts : r.status = "anchored" => [r EXCEPT !.status = "validated"] \in ledger
===============================================================================
