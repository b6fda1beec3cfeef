---------------------------- MODULE EffortObservers ----------------------------
(***************************************************************************)
(* _deferred/src/effort/observers: the signals of a user's work.  Edits    *)
(* are captured when they happen; commands when the history file is next   *)
(* looked at, from the position of the last look.  Content is left out, and*)
(* which observer it was: a signal is its number, in order of capture, and *)
(* its time.  The code joins the lists of its observers and sorts them by  *)
(* time; of two signals of one millisecond by two observers the one of the *)
(* observer registered first is then the first, here the one captured.     *)
(***************************************************************************)
EXTENDS Integers, FiniteSets, Sequences, SequencesExt, FiniteSetsExt

CONSTANTS
    MaxTime,            \* bound: the last instant
    MaxSignals,         \* bound: signals captured in a behaviour
    MaxHistory          \* bound: commands in the history file

ASSUME ObserversAssumption == {MaxTime, MaxSignals, MaxHistory} \subseteq Nat

VARIABLES
    now,
    signals,            \* held by the observers, in order of capture and so of time
    captured,           \* how many signals there have been
    observing,
    history,            \* commands in the history file
    lastPosition        \* how many of them were looked at

observerVars == <<signals, captured, observing, history, lastPosition>>

Signal == [number: 1..MaxSignals, time: 0..MaxTime]

ObserverInit ==
    /\ signals = << >> /\ captured = 0 /\ observing = FALSE
    /\ history = 0 /\ lastPosition = 0

CreateSignals(count) ==
    /\ captured + count <= MaxSignals
    /\ captured' = captured + count
    /\ signals' = signals \o [i \in 1..count |-> [number |-> captured + i, time |-> now]]

OnFileChange ==
    /\ observing
    /\ CreateSignals(1)
    /\ UNCHANGED <<observing, history, lastPosition>>

\* A history that became shorter is only noted.
CheckForNewCommands ==
    /\ observing /\ history # lastPosition
    /\ CreateSignals(IF history > lastPosition THEN history - lastPosition ELSE 0)
    /\ lastPosition' = history
    /\ UNCHANGED <<observing, history>>

\* The shell, which nobody here controls.
CommandTyped == history < MaxHistory /\ history' = history + 1
HistoryTruncated == history > 0 /\ history' = 0
Shell ==
    /\ CommandTyped \/ HistoryTruncated
    /\ UNCHANGED <<signals, captured, observing, lastPosition>>

\* What was typed while nobody observed is skipped.
StartAll == observing' = TRUE /\ lastPosition' = history /\ UNCHANGED <<signals, captured, history>>

StopAll == observing' = FALSE /\ UNCHANGED <<signals, captured, history, lastPosition>>

\* How many are from before the time: those at the front.
Older(time) == Cardinality({i \in DOMAIN signals : signals[i].time < time})

Since(time) == SubSeq(signals, Older(time) + 1, Len(signals))

ClearSignalsBefore(time) == signals' = Since(time)
===============================================================================
