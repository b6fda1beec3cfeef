-------------------------- MODULE SegmentationEngine --------------------------
(***************************************************************************)
(* _deferred/src/effort/SegmentationEngine.ts: signals in order of time,   *)
(* cut into segments by one of three rules.                                *)
(***************************************************************************)
EXTENDS EffortObservers

CONSTANTS
    TimeWindow,         \* effortTimeWindowMinutes
    ActivityGap         \* effortActivityGapMinutes

ASSUME SegmentationAssumption == TimeWindow \in Nat \ {0} /\ ActivityGap \in Nat \ {0}

SegmentationStrategy == {"time_window", "activity_boundary", "hybrid"}

EffortSegment == Seq(Signal) \ {<< >>}

StartTime(segment) == Head(segment).time
EndTime(segment) == Last(segment).time

OutOfWindow(segment, signal) == signal.time >= StartTime(segment) + TimeWindow

AfterGap(segment, signal) == signal.time - EndTime(segment) > ActivityGap

Cuts(strategy, segment, signal) ==
    \/ strategy \in {"time_window", "hybrid"} /\ OutOfWindow(segment, signal)
    \/ strategy \in {"activity_boundary", "hybrid"} /\ AfterGap(segment, signal)

\* The signal goes to the last segment, unless the strategy cuts before it.
Place(strategy, segments, signal) ==
    IF segments = << >> \/ Cuts(strategy, Last(segments), signal)
    THEN Append(segments, <<signal>>)
    ELSE Front(segments) \o <<Append(Last(segments), signal)>>

ProcessSignals(strategy, ordered) ==
    LET segments[n \in 0..Len(ordered)] ==
            IF n = 0 THEN << >> ELSE Place(strategy, segments[n - 1], ordered[n])
    IN  segments[Len(ordered)]

(***************************************************************************)
(* What the rules mean, stated of a segment on its own.                    *)
(***************************************************************************)
FitsWindow(segment) == EndTime(segment) - StartTime(segment) < TimeWindow

NoGap(segment) ==
    \A i \in 2..Len(segment) : segment[i].time - segment[i - 1].time <= ActivityGap

FollowsRule(strategy, segment) ==
    /\ strategy \in {"time_window", "hybrid"} => FitsWindow(segment)
    /\ strategy \in {"activity_boundary", "hybrid"} => NoGap(segment)
===============================================================================
