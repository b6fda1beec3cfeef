---------------------- MODULE EffortCaptureSystem_proofs ----------------------
(***************************************************************************)
(* A receipt that says it is anchored is on the ledger; a receipt of the   *)
(* timer attests a segment that follows the rule, and two of them that     *)
(* claim one signal agree: for any number of signals, passes and runs of   *)
(* the anchoring, and under every rule of segmentation.                    *)
(***************************************************************************)
EXTENDS EffortCaptureSystem, FiniteSetTheorems, WellFoundedInduction, TLAPS

\* What a receipt is made of, whatever its segment.
IsReceipt(r) ==
    /\ r = [segment |-> r.segment, marked |-> r.marked, status |-> r.status]
    /\ r.status \in ReceiptStatus

\* A run posts only receipts that were validated when it began, and knows of a
\* receipt taken only if the ledger has it.
RunInv(run) ==
    /\ run = [posting |-> run.posting, taken |-> run.taken, left |-> run.left]
    /\ \A r \in {run.posting} \cup run.left : IsReceipt(r) /\ r.status = "validated"
    /\ run.taken => run.posting \in ledger

IInv ==
    /\ \A r \in receipts : IsReceipt(r)
    /\ \A run \in anchorings : RunInv(run)
    /\ AnchoredIsOnLedger

\* Nothing an initial state holds is anchored.
LEMMA InitIInv == Init => IInv
BY DEF Init, AnchoringInit, IInv, AnchoredIsOnLedger

\* The invariant is kept by whatever leaves the runs alone, takes nothing from
\* the ledger and adds to the receipts only validated ones.
LEMMA OtherReceipts ==
    ASSUME IInv, anchorings' \subseteq anchorings, ledger \subseteq ledger',
           \A r \in receipts' \ receipts : IsReceipt(r) /\ r.status = "validated"
    PROVE  IInv'
<1>1. \A r \in receipts' : IsReceipt(r)
  BY DEF IInv
<1>2. \A run \in anchorings' : RunInv(run)'
  BY DEF IInv, RunInv, IsReceipt
<1>3. AnchoredIsOnLedger'
  <2>1. SUFFICES ASSUME NEW r \in receipts', r.status = "anchored"
                 PROVE  [r EXCEPT !.status = "validated"] \in ledger'
    BY DEF AnchoredIsOnLedger
  <2>2. r \in receipts
    BY <2>1
  <2> QED
    BY <2>1, <2>2 DEF IInv, AnchoredIsOnLedger
<1> QED
  BY <1>1, <1>2, <1>3 DEF IInv, IsReceipt

\* What createReceipt adds is validated.
LEMMA CreatedReceipt ==
    ASSUME NEW segment, NEW marked, IInv, CreateReceipt(segment, marked), UNCHANGED anchoringVars
    PROVE  IInv'
<1> DEFINE created == [segment |-> segment, marked |-> marked, status |-> "validated"]
<1>1. IsReceipt(created) /\ created.status = "validated"
  BY DEF IsReceipt, ReceiptStatus
<1>2. receipts' = receipts \cup {created}
  BY DEF CreateReceipt
<1>3. \A r \in receipts' \ receipts : IsReceipt(r) /\ r.status = "validated"
  BY <1>1, <1>2
<1> QED
  BY <1>3, OtherReceipts DEF anchoringVars

\* A run that goes on posts another of the receipts it was to post.
LEMMA RunGoesOn ==
    ASSUME NEW run \in anchorings, NEW held, IInv, GoOn(run, held), ledger' = ledger
    PROVE  \A other \in anchorings' : RunInv(other)'
<1> DEFINE left == run.left \cap held
<1>1. RunInv(run)
  BY DEF IInv
<1>2. CASE left = {}
  BY <1>2 DEF GoOn, IInv, RunInv, IsReceipt
<1>3. CASE left # {}
  <2>1. PICK next \in left :
          anchorings' = (anchorings \ {run}) \cup
              {[posting |-> next, taken |-> FALSE, left |-> left \ {next}]}
    BY <1>3 DEF GoOn
  <2> DEFINE new == [posting |-> next, taken |-> FALSE, left |-> left \ {next}]
  <2>2. \A r \in {next} \cup left : IsReceipt(r) /\ r.status = "validated"
    BY <1>1 DEF RunInv
  <2>3. RunInv(new)'
    BY <2>2 DEF RunInv, IsReceipt
  <2>4. \A other \in anchorings : RunInv(other)'
    BY DEF IInv, RunInv, IsReceipt
  <2> QED
    BY <2>1, <2>3, <2>4
<1> QED
  BY <1>2, <1>3

\* Only a receipt the ledger took is marked as anchored.
LEMMA AnswerRead ==
    ASSUME NEW run \in anchorings, NEW success \in BOOLEAN, NEW others \in BOOLEAN,
           IInv, AnchorReceipt(run, success, others)
    PROVE  IInv'
<1>1. RunInv(run) /\ ledger' = ledger
  BY DEF IInv, AnchorReceipt
<1>2. \A other \in anchorings' : RunInv(other)'
  BY <1>1, RunGoesOn DEF AnchorReceipt
<1>3. CASE receipts' \subseteq receipts
  BY <1>1, <1>2, <1>3 DEF IInv, AnchoredIsOnLedger, IsReceipt
<1>4. CASE success /\ run.posting \in receipts
  <2> DEFINE marked == [run.posting EXCEPT !.status = "anchored"]
  <2>1. receipts' \subseteq receipts \cup {marked}
    BY <1>4 DEF AnchorReceipt, MarkAsAnchored
  <2>2. run.posting \in ledger /\ IsReceipt(run.posting) /\ run.posting.status = "validated"
    BY <1>1, <1>4 DEF AnchorReceipt, RunInv
  <2>3. marked = [segment |-> run.posting.segment, marked |-> run.posting.marked,
                  status |-> "anchored"]
    BY <2>2 DEF IsReceipt
  <2>4. IsReceipt(marked)
    BY <2>3 DEF IsReceipt, ReceiptStatus
  <2>5. [marked EXCEPT !.status = "validated"] = run.posting
    BY <2>2, <2>3 DEF IsReceipt
  <2>6. AnchoredIsOnLedger'
    BY <1>1, <2>1, <2>2, <2>5 DEF IInv, AnchoredIsOnLedger
  <2> QED
    BY <1>2, <2>1, <2>4, <2>6 DEF IInv, IsReceipt
<1>5. (success /\ run.posting \in receipts) \/ receipts' \subseteq receipts
  BY DEF AnchorReceipt, MarkAsAnchored
<1> QED
  BY <1>3, <1>4, <1>5

\* Every step keeps the invariant.
LEMMA NextIInv == IInv /\ [Next]_vars => IInv'
<1> SUFFICES ASSUME IInv, [Next]_vars PROVE IInv'
  OBVIOUS
<1>1. CASE UNCHANGED <<receipts, anchoringVars>>
  BY <1>1, OtherReceipts DEF anchoringVars
<1>2. ASSUME NEW p \in Passes, SegmentAssessed(p) PROVE IInv'
  BY <1>2, CreatedReceipt DEF SegmentAssessed
<1>3. ASSUME NEW segment \in marking, MarkedAssessed(segment) PROVE IInv'
  BY <1>3, CreatedReceipt DEF MarkedAssessed
<1>4. CASE AnchoringTimer
  <2>1. UNCHANGED <<ledger, receipts>>
    BY <1>4 DEF AnchoringTimer, AutoAnchorValidatedReceipts
  <2>2. PICK first \in GetReceiptsByStatus("validated") :
          anchorings' = anchorings \cup
              {[posting |-> first, taken |-> FALSE,
                left |-> GetReceiptsByStatus("validated") \ {first}]}
    BY <1>4 DEF AnchoringTimer, AutoAnchorValidatedReceipts
  <2>3. PICK left : /\ left \subseteq GetReceiptsByStatus("validated")
                    /\ anchorings' = anchorings \cup
                           {[posting |-> first, taken |-> FALSE, left |-> left]}
    BY <2>2
  <2> DEFINE new == [posting |-> first, taken |-> FALSE, left |-> left]
  <2>4. \A r \in {first} \cup left : IsReceipt(r) /\ r.status = "validated"
    BY <2>3 DEF IInv, GetReceiptsByStatus
  <2>5. RunInv(new)'
    BY <2>4 DEF RunInv, IsReceipt
  <2>6. \A run \in anchorings : RunInv(run)'
    BY <2>1 DEF IInv, RunInv, IsReceipt
  <2>7. \A run \in anchorings' : RunInv(run)'
    <3> HIDE DEF new
    <3>1. anchorings' = anchorings \cup {new}
      BY <2>3 DEF new
    <3> QED
      BY <3>1, <2>5, <2>6
  <2>8. AnchoredIsOnLedger' /\ \A r \in receipts' : IsReceipt(r)
    BY <2>1 DEF IInv, AnchoredIsOnLedger, IsReceipt
  <2> QED
    BY <2>7, <2>8 DEF IInv, IsReceipt
<1>5. ASSUME NEW run \in anchorings, PostTaken(run) PROVE IInv'
  <2> DEFINE taken == [posting |-> run.posting, taken |-> TRUE, left |-> run.left]
  <2>1. /\ ledger' = ledger \cup {run.posting}
        /\ anchorings' = (anchorings \ {run}) \cup {taken}
        /\ receipts' = receipts
    BY <1>5 DEF PostTaken
  <2>2. RunInv(run)
    BY DEF IInv
  <2>3. RunInv(taken)'
    BY <2>1, <2>2 DEF RunInv, IsReceipt
  <2>4. \A other \in anchorings : RunInv(other)'
    BY <2>1 DEF IInv, RunInv, IsReceipt
  <2> QED
    BY <2>1, <2>3, <2>4 DEF IInv, AnchoredIsOnLedger, IsReceipt
<1>6. CASE Cleanup
  BY <1>6, OtherReceipts DEF Cleanup, DeleteReceipts, anchoringVars
<1>7. CASE Restart \/ ArrivesLate
  BY <1>7, OtherReceipts DEF Restart, LoadReceipts, ArrivesLate, TakenLate
<1>8. ASSUME Capture \/ Start \/ Stop \/ ProcessSegments \/ CreateMarkedSegment \/ Tick
      PROVE  UNCHANGED <<receipts, anchoringVars>>
  BY <1>8 DEF Capture, Start, Stop, ProcessSegments, CreateMarkedSegment, Tick
<1> QED
  BY <1>1, <1>2, <1>3, <1>4, <1>5, <1>6, <1>7, <1>8, AnswerRead
     DEF Next, vars, anchoringVars, Anchoring

\* However many answers are lost, runs overlap and receipts are deleted meanwhile,
\* memory never claims an anchoring the ledger does not have
\* (AnchoringService.ts:79-112, ReceiptManager.ts:181-207).
THEOREM AnchoredIsOnLedgerAlways == Spec => []AnchoredIsOnLedger
<1>1. IInv => AnchoredIsOnLedger
  BY DEF IInv
<1> QED
  BY <1>1, InitIInv, NextIInv, PTL DEF Spec

-------------------------------------------------------------------------------
(* A function that is defined step by step exists                          *)

\* A set of natural numbers has a least element.
LEMMA LeastNat ==
  ASSUME NEW S \in SUBSET Nat, S # {}
  PROVE  \E m \in S : \A k \in S : m <= k
<1>1. \E m \in S : \A k \in S : ~(<<k, m>> \in OpToRel(<, Nat))
  BY WFMin, NatLessThanWellFounded
<1>2. PICK m \in S : \A k \in S : ~(k < m)
  BY <1>1 DEF OpToRel
<1> QED
  BY <1>2

\* f is what the steps G make of b, one after the other.
Runs(f, m, b, G) == f[0] = b /\ \A k \in 1..m : f[k] = G[k][f[k - 1]]

LEMMA RecursionExists ==
  ASSUME NEW n \in Nat, NEW V, NEW b \in V, NEW G \in [1..n -> [V -> V]]
  PROVE  \E f \in [0..n -> V] : Runs(f, n, b, G)
<1> DEFINE Good(m) == \E f \in [0..m -> V] : Runs(f, m, b, G)
           Bad == {m \in 0..n : ~Good(m)}
<1>1. SUFFICES ASSUME Bad # {} PROVE FALSE
  <2>1. n \in 0..n
    OBVIOUS
  <2> HIDE DEF Good
  <2>2. n \notin Bad => Good(n)
    BY <2>1
  <2> QED
    BY <1>1, <2>2 DEF Good
<1>2. PICK m \in Bad : \A k \in Bad : m <= k
  <2>1. Bad \subseteq Nat
    OBVIOUS
  <2> HIDE DEF Bad
  <2> QED
    BY <1>1, <2>1, LeastNat
<1>3. Good(0)
  <2> DEFINE f == [k \in 0..0 |-> b]
  <2>1. f \in [0..0 -> V] /\ f[0] = b
    OBVIOUS
  <2>2. \A k \in 1..0 : f[k] = G[k][f[k - 1]]
    OBVIOUS
  <2> HIDE DEF f
  <2>3. Runs(f, 0, b, G)
    BY <2>1, <2>2 DEF Runs
  <2> QED
    BY <2>1, <2>3
<1>4. m \in 1..n
  <2> HIDE DEF Good
  <2>1. m \in 0..n /\ ~Good(m)
    BY <1>2
  <2>2. m # 0
    BY <1>3, <2>1
  <2> QED
    BY <2>1, <2>2
<1>5. Good(m - 1)
  <2>1. m - 1 \in 0..n /\ m - 1 < m
    BY <1>4
  <2> HIDE DEF Good
  <2> QED
    BY <1>2, <2>1
<1>6. PICK f \in [0..(m - 1) -> V] : f[0] = b /\ \A k \in 1..(m - 1) : f[k] = G[k][f[k - 1]]
  BY <1>5 DEF Runs
<1> DEFINE g == [k \in 0..m |-> IF k = m THEN G[m][f[m - 1]] ELSE f[k]]
<1>7. f[m - 1] \in V /\ G[m][f[m - 1]] \in V
  BY <1>4, <1>6
<1>8. g \in [0..m -> V] /\ g[0] = b
  BY <1>4, <1>6, <1>7
<1>9. ASSUME NEW k \in 1..m PROVE g[k] = G[k][g[k - 1]]
  <2>1. CASE k = m
    BY <1>4, <2>1
  <2>2. CASE k # m
    <3>1. k \in 1..(m - 1) /\ k - 1 \in 0..m /\ k - 1 # m /\ k \in 0..m
      BY <1>4, <2>2
    <3> QED
      BY <1>6, <2>2, <3>1
  <2> QED
    BY <2>1, <2>2
<1>10. Good(m)
  <2> HIDE DEF g
  <2>1. Runs(g, m, b, G)
    BY <1>8, <1>9 DEF Runs
  <2> QED
    BY <1>8, <2>1
<1> QED
  BY <1>2, <1>10

-------------------------------------------------------------------------------
(* Segments follow the rule                                                *)

Ruled == {segment \in Seq(Signal) : segment # << >> /\ FollowsRule(strategy, segment)}

LEMMA OneSignalFollows == ASSUME NEW s \in Signal PROVE <<s>> \in Ruled
<1>1. <<s>> \in Seq(Signal) /\ <<s>> # << >>
  OBVIOUS
<1>2. s.time \in Int /\ TimeWindow \in Nat \ {0}
  BY SegmentationAssumption, ObserversAssumption DEF Signal
<1>3. FitsWindow(<<s>>)
  BY <1>2 DEF FitsWindow, EndTime, StartTime, Last
<1>4. NoGap(<<s>>)
  BY DEF NoGap
<1> QED
  BY <1>1, <1>3, <1>4 DEF Ruled, FollowsRule

\* A signal the strategy does not cut before goes to the segment.
LEMMA LongerFollows ==
    ASSUME NEW segment \in Ruled, NEW s \in Signal, ~Cuts(strategy, segment, s)
    PROVE  Append(segment, s) \in Ruled
<1> DEFINE n == Len(segment)
           longer == Append(segment, s)
<1>1. /\ segment \in Seq(Signal) /\ segment # << >> /\ FollowsRule(strategy, segment)
      /\ n \in Nat /\ n > 0
  BY DEF Ruled
<1>2. /\ longer \in Seq(Signal) /\ longer # << >> /\ Len(longer) = n + 1
      /\ longer[n + 1] = s /\ \A i \in 1..n : longer[i] = segment[i]
  BY <1>1
<1>3. \A i \in 1..n : segment[i] \in Signal
  BY <1>1
<1>4. \A x \in Signal : x.time \in Int
  BY ObserversAssumption DEF Signal
<1>5. TimeWindow \in Nat /\ ActivityGap \in Nat
  BY SegmentationAssumption
<1> HIDE DEF longer
<1>6. /\ StartTime(longer) = segment[1].time /\ EndTime(longer) = s.time
      /\ StartTime(segment) = segment[1].time /\ EndTime(segment) = segment[n].time
  BY <1>1, <1>2 DEF StartTime, EndTime, Last
<1>7. segment[1].time \in Int /\ s.time \in Int /\ segment[n].time \in Int
  BY <1>1, <1>3, <1>4
<1>8. ASSUME strategy \in {"time_window", "hybrid"} PROVE FitsWindow(longer)
  <2>1. ~(s.time >= segment[1].time + TimeWindow)
    BY <1>6, <1>8 DEF Cuts, OutOfWindow
  <2> QED
    BY <1>5, <1>6, <1>7, <2>1 DEF FitsWindow
<1>9. ASSUME strategy \in {"activity_boundary", "hybrid"} PROVE NoGap(longer)
  <2>1. ~(s.time - segment[n].time > ActivityGap)
    BY <1>6, <1>9 DEF Cuts, AfterGap
  <2>2. NoGap(segment)
    BY <1>1, <1>9 DEF FollowsRule
  <2>3. ASSUME NEW i \in 2..(n + 1) PROVE longer[i].time - longer[i - 1].time <= ActivityGap
    <3>1. CASE i = n + 1
      <4>1. longer[i] = s /\ longer[i - 1] = segment[n]
        BY <1>1, <1>2, <3>1
      <4> QED
        BY <1>5, <1>7, <2>1, <4>1
    <3>2. CASE i # n + 1
      <4>1. i \in 2..n /\ i \in 1..n /\ i - 1 \in 1..n
        BY <1>1, <3>2
      <4> QED
        BY <1>2, <2>2, <4>1 DEF NoGap
    <3> QED
      BY <3>1, <3>2
  <2> QED
    BY <1>2, <2>3 DEF NoGap
<1>10. FollowsRule(strategy, longer)
  BY <1>8, <1>9 DEF FollowsRule
<1>11. longer \in Ruled
  BY <1>2, <1>10 DEF Ruled
<1> QED
  BY <1>11 DEF longer

LEMMA PlacedFollow ==
    ASSUME NEW segments \in Seq(Ruled), NEW s \in Signal
    PROVE  Place(strategy, segments, s) \in Seq(Ruled)
<1>1. PICK one : one = <<s>>
  OBVIOUS
<1>2. one \in Ruled
  BY <1>1, OneSignalFollows
<1>3. CASE segments = << >> \/ Cuts(strategy, Last(segments), s)
  BY <1>1, <1>2, <1>3 DEF Place
<1>4. CASE segments # << >> /\ ~Cuts(strategy, Last(segments), s)
  <2>1. Len(segments) \in Nat \ {0} /\ Last(segments) \in Ruled
    BY <1>4 DEF Last
  <2>2. PICK last : last = Append(Last(segments), s)
    OBVIOUS
  <2>3. last \in Ruled
    BY <1>4, <2>1, <2>2, LongerFollows
  <2>4. Front(segments) \in Seq(Ruled)
    BY <2>1 DEF Front
  <2>5. Place(strategy, segments, s) = Front(segments) \o <<last>>
    BY <1>4, <2>2 DEF Place
  <2> QED
    BY <2>3, <2>4, <2>5
<1> QED
  BY <1>3, <1>4

\* What the rule makes of the first k signals, for each k.
Folds(f, ordered) ==
    /\ f[0] = << >>
    /\ \A k \in 1..Len(ordered) : f[k] = Place(strategy, f[k - 1], ordered[k])

\* Whatever is cut, each segment follows the rule.
LEMMA Folded ==
    ASSUME NEW ordered \in Seq(Signal)
    PROVE  \E f : /\ Folds(f, ordered)
                  /\ \A k \in 0..Len(ordered) : f[k] \in Seq(Ruled)
                  /\ ProcessSignals(strategy, ordered) = f[Len(ordered)]
<1> DEFINE n == Len(ordered)
           V == Seq(Ruled)
           G == [k \in 1..n |-> [v \in V |-> Place(strategy, v, ordered[k])]]
           Defines(f) == f = [k \in 0..n |-> IF k = 0 THEN << >>
                                    ELSE Place(strategy, f[k - 1], ordered[k])]
<1>1. n \in Nat /\ << >> \in V /\ \A k \in 1..n : ordered[k] \in Signal
  OBVIOUS
<1>2. G \in [1..n -> [V -> V]]
  BY <1>1, PlacedFollow
<1>3. PICK f \in [0..n -> V] : Runs(f, n, << >>, G)
  <2> HIDE DEF n, V, G
  <2> QED
    BY <1>1, <1>2, RecursionExists
<1>4. f[0] = << >> /\ \A k \in 1..n : f[k] = G[k][f[k - 1]]
  BY <1>3 DEF Runs
<1>5. ASSUME NEW k \in 1..n PROVE f[k] = Place(strategy, f[k - 1], ordered[k])
  <2>1. k - 1 \in 0..n /\ f[k - 1] \in V
    BY <1>1, <1>3
  <2>2. PICK v \in V : v = f[k - 1]
    BY <2>1
  <2>3. G[k][v] = Place(strategy, v, ordered[k])
    OBVIOUS
  <2> QED
    BY <1>4, <2>2, <2>3
<1>6. Defines(f)
  BY <1>1, <1>3, <1>4, <1>5
<1>7. PICK g : g = CHOOSE h : Defines(h)
  OBVIOUS
<1>8. Defines(g)
  <2> HIDE DEF Defines
  <2> QED
    BY <1>6, <1>7
<1>9. ProcessSignals(strategy, ordered) = g[n]
  BY <1>7, Zenon DEF ProcessSignals
<1>11. g[0] = << >> /\ \A k \in 1..n : g[k] = Place(strategy, g[k - 1], ordered[k])
  <2>1. 0 \in 0..n /\ \A k \in 1..n : k \in 0..n /\ k # 0
    BY <1>1
  <2>2. \A k \in 0..n : g[k] = IF k = 0 THEN << >>
                                ELSE Place(strategy, g[k - 1], ordered[k])
    BY <1>8, Zenon
  <2> QED
    BY <2>1, <2>2, Zenon
<1> DEFINE Outside == {k \in 0..n : g[k] \notin V}
<1>10. Outside = {}
  <2>1. SUFFICES ASSUME Outside # {} PROVE FALSE
    OBVIOUS
  <2>2. PICK m \in Outside : \A k \in Outside : m <= k
    <3>1. Outside \subseteq Nat
      OBVIOUS
    <3> HIDE DEF Outside
    <3> QED
      BY <2>1, <3>1, LeastNat
  <2>4. m \in 1..n
    <3>1. m \in 0..n /\ g[m] \notin V
      BY <2>2
    <3>2. m # 0
      BY <1>1, <1>11, <3>1
    <3> HIDE DEF n
    <3> QED
      BY <1>1, <3>1, <3>2
  <2>5. g[m - 1] \in V
    BY <1>1, <2>2, <2>4
  <2>6. g[m] \in V
    BY <1>1, <1>11, <2>4, <2>5, PlacedFollow
  <2> QED
    BY <2>2, <2>6
<1>12. Folds(g, ordered)
  BY <1>11 DEF Folds
<1>13. \A k \in 0..n : g[k] \in V
  BY <1>10
<1> QED
  BY <1>9, <1>12, <1>13, Zenon

LEMMA ProcessedFollow ==
    ASSUME NEW ordered \in Seq(Signal)
    PROVE  ProcessSignals(strategy, ordered) \in Seq(Ruled)
<1>1. Len(ordered) \in 0..Len(ordered)
  OBVIOUS
<1> QED
  BY <1>1, Folded

SignalsInv ==
    /\ now \in 0..MaxTime /\ captured \in 0..MaxSignals
    /\ history \in Nat /\ lastPosition \in Nat
    /\ signals \in Seq(Signal)

PassesInv ==
    /\ DOMAIN passes = Passes
    /\ \A p \in Passes : passes[p].todo \in Seq(Ruled)

RuleInv == IInv /\ SignalsInv /\ PassesInv /\ ReceiptsFollowTheRule

\* What is older is at the front, as far as it goes.
LEMMA OlderType ==
    ASSUME SignalsInv, NEW time
    PROVE  /\ Older(time) \in 0..Len(signals) /\ Since(time) \in Seq(Signal)
           /\ (\A i \in DOMAIN signals : ~(signals[i].time < time)) =>
                  Older(time) = 0 /\ Since(time) = signals
<1> DEFINE n == Len(signals)
           S == {i \in DOMAIN signals : signals[i].time < time}
<1>1. n \in Nat /\ DOMAIN signals = 1..n /\ S \subseteq 1..n /\ signals \in Seq(Signal)
  BY DEF SignalsInv
<1>2. IsFiniteSet(1..n) /\ Cardinality(1..n) = n
  BY <1>1, FS_Interval
<1>3. Cardinality(S) \in Nat /\ Cardinality(S) <= n
  <2> HIDE DEF S, n
  <2>1. S \in SUBSET (1..n)
    BY <1>1, Zenon
  <2>2. IsFiniteSet(S) /\ Cardinality(S) <= Cardinality(1..n)
    BY <1>2, <2>1, FS_Subset, Zenon
  <2> QED
    BY <1>2, <2>2, FS_CardinalityType
<1>4. Older(time) = Cardinality(S)
  BY DEF Older
<1>5. Older(time) \in 0..n
  BY <1>1, <1>3, <1>4
<1>6. Since(time) \in Seq(Signal)
  <2> HIDE DEF n
  <2>1. PICK k \in 0..n : k = Older(time)
    BY <1>5
  <2> QED
    BY <1>1, <2>1 DEF Since, n
<1>7. ASSUME \A i \in DOMAIN signals : ~(signals[i].time < time)
      PROVE  Older(time) = 0 /\ Since(time) = signals
  <2>1. S = {}
    BY <1>7
  <2>2. Older(time) = 0
    BY <1>4, <2>1, FS_EmptySet
  <2> QED
    BY <1>1, <2>2 DEF Since
<1> QED
  BY <1>5, <1>6, <1>7

LEMMA CapturedSignals ==
    ASSUME SignalsInv, NEW count \in Nat, CreateSignals(count)
    PROVE  /\ signals' \in Seq(Signal) /\ captured' \in 0..MaxSignals
           /\ captured' = captured + count /\ Len(signals') = Len(signals) + count
           /\ \A i \in 1..Len(signals) : signals'[i] = signals[i]
           /\ \A i \in 1..count : signals'[Len(signals) + i] =
                  [number |-> captured + i, time |-> now]
<1> DEFINE new == [i \in 1..count |-> [number |-> captured + i, time |-> now]]
<1>1. /\ captured + count <= MaxSignals /\ captured' = captured + count
      /\ signals' = signals \o new /\ MaxSignals \in Nat
  BY ObserversAssumption DEF CreateSignals
<1>2. captured' \in 0..MaxSignals
  BY <1>1 DEF SignalsInv
<1>3. ASSUME NEW i \in 1..count PROVE [number |-> captured + i, time |-> now] \in Signal
  BY <1>1 DEF SignalsInv, Signal
<1>4. new \in Seq(Signal) /\ Len(new) = count
  BY <1>3
<1>5. \A i \in 1..count : new[i] = [number |-> captured + i, time |-> now]
  OBVIOUS
<1> HIDE DEF new
<1>6. signals \in Seq(Signal) /\ Len(signals) \in Nat
  BY DEF SignalsInv
<1>7. signals' \in Seq(Signal) /\ Len(signals') = Len(signals) + count
  <2>1. signals \o new \in Seq(Signal)
    BY <1>4, <1>6
  <2>2. Len(signals \o new) = Len(signals) + Len(new)
    BY <1>4, <1>6
  <2> QED
    BY <1>1, <1>4, <2>1, <2>2
<1>8. ASSUME NEW i \in 1..Len(signals) PROVE signals'[i] = signals[i]
  BY <1>1, <1>4, <1>6
<1>9. ASSUME NEW i \in 1..count
      PROVE  signals'[Len(signals) + i] = [number |-> captured + i, time |-> now]
  <2>1. signals'[Len(signals) + i] = new[i]
    BY <1>1, <1>4, <1>6
  <2> QED
    BY <1>5, <2>1
<1> QED
  BY <1>1, <1>2, <1>7, <1>8, <1>9

\* A step that keeps passes and receipts.
LEMMA SignalsStep ==
    ASSUME SignalsInv, Capture \/ Start \/ Tick
    PROVE  SignalsInv' /\ UNCHANGED <<passes, receipts, strategy>>
<1>1. CASE Capture
  <2>1. CASE OnFileChange
    BY <1>1, <2>1, CapturedSignals DEF Capture, OnFileChange, SignalsInv
  <2>2. CASE CheckForNewCommands
    <3> DEFINE count == IF history > lastPosition THEN history - lastPosition ELSE 0
    <3>1. count \in Nat
      BY DEF SignalsInv
    <3>2. CreateSignals(count) /\ lastPosition' = history /\ history' = history
      BY <2>2 DEF CheckForNewCommands
    <3> HIDE DEF count
    <3> QED
      BY <1>1, <3>1, <3>2, CapturedSignals DEF Capture, SignalsInv
  <2>3. CASE Shell
    BY <1>1, <2>3 DEF Capture, Shell, CommandTyped, HistoryTruncated, SignalsInv
  <2> QED
    BY <1>1, <2>1, <2>2, <2>3 DEF Capture
<1>2. CASE Start
  BY <1>2 DEF Start, StartAll, SignalsInv
<1>3. CASE Tick
  BY <1>3, ObserversAssumption DEF Tick, SignalsInv, observerVars
<1> QED
  BY <1>1, <1>2, <1>3

\* A new pass has segments that follow the rule.
LEMMA NewPassFollows ==
    ASSUME SignalsInv, PassesInv, NewPass, UNCHANGED strategy
    PROVE  PassesInv'
<1>0. Ruled' = Ruled
  BY DEF Ruled, FollowsRule
<1>1. CASE signals = << >>
  BY <1>0, <1>1 DEF NewPass, PassesInv
<1>2. CASE signals # << >>
  <2>2. PICK segments : segments = ProcessSignals(strategy, signals)
    OBVIOUS
  <2>3. PICK m, old : passes' = [passes EXCEPT ![m] = [todo |-> segments, oldest |-> old]]
    BY <1>2, <2>2 DEF NewPass
  <2>5. segments \in Seq(Ruled)
    BY <2>2, ProcessedFollow DEF SignalsInv
  <2> QED
    BY <1>0, <2>3, <2>5 DEF PassesInv
<1> QED
  BY <1>1, <1>2

\* A step keeps the rule if its new receipts of the timer follow it.
LEMMA ReceiptsStay ==
    ASSUME ReceiptsFollowTheRule, UNCHANGED strategy,
           \A r \in receipts' : ~r.marked =>
               (\E old \in receipts : ~old.marked /\ r.segment = old.segment)
                   \/ FollowsRule(strategy, r.segment)
    PROVE  ReceiptsFollowTheRule'
BY DEF ReceiptsFollowTheRule, OfTimer, FollowsRule

LEMMA AssessedFollows ==
    ASSUME RuleInv, NEW p \in Passes, SegmentAssessed(p)
    PROVE  SignalsInv' /\ PassesInv' /\ ReceiptsFollowTheRule'
<1> DEFINE todo == passes[p].todo
<1>0. Ruled' = Ruled
  BY DEF SegmentAssessed, Ruled, FollowsRule
<1>1. todo \in Seq(Ruled) /\ todo # << >>
  BY DEF RuleInv, PassesInv, SegmentAssessed
<1>2. Head(todo) \in Ruled /\ Tail(todo) \in Seq(Ruled)
  BY <1>1
<1>3. UNCHANGED <<now, captured, history, lastPosition, strategy>>
  BY DEF SegmentAssessed
<1>4. SignalsInv'
  <2>1. signals' \in Seq(Signal)
    BY OlderType DEF SegmentAssessed, ClearSignalsBefore, RuleInv, SignalsInv
  <2> QED
    BY <1>3, <2>1 DEF RuleInv, SignalsInv
<1>5. PassesInv'
  <2>1. CASE Len(todo) = 1
    <3>1. passes' = [passes EXCEPT ![p] = NoPass]
      BY <2>1 DEF SegmentAssessed
    <3> QED
      BY <1>0, <3>1 DEF RuleInv, PassesInv, NoPass
  <2>2. CASE Len(todo) # 1
    <3>1. passes' = [passes EXCEPT ![p] = [passes[p] EXCEPT !.todo = Tail(@)]]
      BY <2>2 DEF SegmentAssessed
    <3>2. passes'[p].todo = Tail(todo) \/ passes'[p].todo \in Seq(Ruled)
      BY <3>1, <1>2 DEF RuleInv, PassesInv
    <3>3. \A q \in Passes \ {p} : passes'[q] = passes[q]
      BY <3>1 DEF RuleInv, PassesInv
    <3>4. DOMAIN passes' = Passes
      BY <3>1 DEF RuleInv, PassesInv
    <3> QED
      BY <1>0, <1>2, <3>2, <3>3, <3>4 DEF RuleInv, PassesInv
  <2> QED
    BY <2>1, <2>2
<1>6. receipts' = receipts \cup
          {[segment |-> Head(todo), marked |-> FALSE, status |-> "validated"]}
  BY DEF SegmentAssessed, CreateReceipt
<1>7. FollowsRule(strategy, Head(todo))
  BY <1>2 DEF Ruled
<1>8. ReceiptsFollowTheRule'
  <2> HIDE DEF todo
  <2> QED
    BY <1>3, <1>6, <1>7, ReceiptsStay DEF RuleInv
<1> QED
  BY <1>4, <1>5, <1>8

\* Marking a receipt as anchored leaves its segment as it is.
LEMMA AnchoringFollows ==
    ASSUME RuleInv, NEW run, Anchoring(run)
    PROVE  ReceiptsFollowTheRule'
<1>1. UNCHANGED strategy
  BY DEF Anchoring
<1>2. CASE PostTaken(run)
  BY <1>1, <1>2, ReceiptsStay DEF PostTaken, RuleInv
<1>3. ASSUME NEW success \in BOOLEAN, NEW others \in BOOLEAN,
             AnchorReceipt(run, success, others)
      PROVE  ReceiptsFollowTheRule'
  <2>1. CASE receipts' \subseteq receipts
    BY <1>1, <2>1, ReceiptsStay DEF RuleInv
  <2>2. CASE run.posting \in receipts /\
             receipts' \subseteq receipts \cup {[run.posting EXCEPT !.status = "anchored"]}
    <3>1. PICK new : new = [run.posting EXCEPT !.status = "anchored"]
      OBVIOUS
    <3>2. IsReceipt(run.posting)
      BY <2>2 DEF RuleInv, IInv
    <3>3. new.marked = run.posting.marked /\ new.segment = run.posting.segment
      BY <3>1, <3>2 DEF IsReceipt
    <3>4. receipts' \subseteq receipts \cup {new}
      BY <2>2, <3>1
    <3> QED
      BY <1>1, <2>2, <3>3, <3>4, ReceiptsStay DEF RuleInv
  <2>3. \/ receipts' \subseteq receipts
        \/ /\ run.posting \in receipts
           /\ receipts' \subseteq receipts \cup {[run.posting EXCEPT !.status = "anchored"]}
    BY <1>3 DEF AnchorReceipt, MarkAsAnchored
  <2> QED
    BY <2>1, <2>2, <2>3
<1> QED
  BY <1>2, <1>3 DEF Anchoring

LEMMA RuleNext == RuleInv /\ [Next]_vars => RuleInv'
<1> SUFFICES ASSUME RuleInv, [Next]_vars PROVE SignalsInv' /\ PassesInv' /\ ReceiptsFollowTheRule'
  BY NextIInv DEF RuleInv
<1> USE DEF RuleInv
<1>0. ASSUME UNCHANGED <<strategy, passes>> PROVE PassesInv'
  BY <1>0 DEF PassesInv, Ruled, FollowsRule
<1>1. CASE Capture \/ Start \/ Tick
  BY <1>0, <1>1, SignalsStep, ReceiptsStay
<1>2. CASE Stop \/ ProcessSegments
  <2>1. NewPass /\ UNCHANGED <<now, signals, captured, history, lastPosition, receipts, strategy>>
    BY <1>2 DEF Stop, StopAll, ProcessSegments, observerVars
  <2>2. SignalsInv'
    BY <2>1 DEF SignalsInv
  <2> QED
    BY <2>1, <2>2, NewPassFollows, ReceiptsStay
<1>3. ASSUME NEW p \in Passes, SegmentAssessed(p)
      PROVE  SignalsInv' /\ PassesInv' /\ ReceiptsFollowTheRule'
  BY <1>3, AssessedFollows
<1>4. CASE CreateMarkedSegment \/ AnchoringTimer
  <2>1. UNCHANGED <<now, observerVars, receipts, strategy, passes>>
    BY <1>4 DEF CreateMarkedSegment, AnchoringTimer, AutoAnchorValidatedReceipts
  <2>2. SignalsInv'
    BY <2>1 DEF SignalsInv, observerVars
  <2> QED
    BY <1>0, <2>1, <2>2, ReceiptsStay
<1>5. ASSUME NEW segment \in marking, MarkedAssessed(segment)
      PROVE  SignalsInv' /\ PassesInv' /\ ReceiptsFollowTheRule'
  <2>1. /\ UNCHANGED <<now, observerVars, strategy, passes>>
        /\ receipts' = receipts \cup
               {[segment |-> segment, marked |-> TRUE, status |-> "validated"]}
    BY <1>5 DEF MarkedAssessed, CreateReceipt
  <2>2. SignalsInv'
    BY <2>1 DEF SignalsInv, observerVars
  <2> QED
    BY <1>0, <2>1, <2>2, ReceiptsStay
<1>6. ASSUME NEW run \in anchorings, Anchoring(run)
      PROVE  SignalsInv' /\ PassesInv' /\ ReceiptsFollowTheRule'
  <2>1. UNCHANGED <<now, observerVars, strategy, passes>>
    BY <1>6 DEF Anchoring
  <2>2. SignalsInv'
    BY <2>1 DEF SignalsInv, observerVars
  <2> QED
    BY <1>0, <1>6, <2>1, <2>2, AnchoringFollows
<1>7. CASE Cleanup
  <2>1. /\ signals' \in Seq(Signal) /\ receipts' \subseteq receipts
        /\ UNCHANGED <<now, captured, history, lastPosition, strategy, passes>>
    BY <1>7, OlderType DEF Cleanup, DeleteReceipts, ClearSignalsBefore
  <2>2. SignalsInv'
    BY <2>1 DEF SignalsInv
  <2> QED
    BY <1>0, <2>1, <2>2, ReceiptsStay
<1>8. CASE Restart
  <2>1. /\ signals' = << >> /\ receipts' = {} /\ lastPosition' = 0
        /\ passes' = [p \in Passes |-> NoPass]
        /\ UNCHANGED <<now, captured, history, strategy>>
    BY <1>8 DEF Restart, LoadReceipts
  <2>2. SignalsInv'
    BY <2>1 DEF SignalsInv
  <2>3. PassesInv'
    <3>1. NoPass.todo \in Seq(Ruled')
      BY DEF NoPass
    <3> QED
      BY <2>1, <3>1 DEF PassesInv
  <2> QED
    BY <2>1, <2>2, <2>3, ReceiptsStay
<1>10. CASE ArrivesLate
  <2>1. UNCHANGED <<now, observerVars, receipts, strategy, passes>>
    BY <1>10 DEF ArrivesLate, TakenLate
  <2>2. SignalsInv'
    BY <2>1 DEF SignalsInv, observerVars
  <2> QED
    BY <1>0, <2>1, <2>2, ReceiptsStay
<1>9. CASE UNCHANGED vars
  <2>1. UNCHANGED <<now, observerVars, receipts, strategy, passes>>
    BY <1>9 DEF vars
  <2>2. SignalsInv'
    BY <2>1 DEF SignalsInv, observerVars
  <2> QED
    BY <1>0, <2>1, <2>2, ReceiptsStay
<1> QED
  BY <1>1, <1>2, <1>3, <1>4, <1>5, <1>6, <1>7, <1>8, <1>9, <1>10 DEF Next

LEMMA InitRule == Init => RuleInv
<1> SUFFICES ASSUME Init PROVE RuleInv
  OBVIOUS
<1>1. SignalsInv
  BY ObserversAssumption DEF Init, ObserverInit, SignalsInv
<1>2. NoPass.todo \in Seq(Ruled)
  BY DEF NoPass
<1>3. PassesInv /\ ReceiptsFollowTheRule
  BY <1>2 DEF Init, PassesInv, ReceiptsFollowTheRule, OfTimer
<1> QED
  BY <1>1, <1>3, InitIInv DEF RuleInv

\* Whatever is captured while a pass is under way, and whatever overlaps, a receipt
\* of the timer attests a segment that follows the disclosed rule
\* (SegmentationEngine.ts:73-206, EffortCaptureSystem.ts:133-190).
THEOREM ReceiptsAlwaysFollowTheRule == Spec => []ReceiptsFollowTheRule
<1>1. RuleInv => ReceiptsFollowTheRule
  BY DEF RuleInv
<1> QED
  BY <1>1, InitRule, RuleNext, PTL DEF Spec

-------------------------------------------------------------------------------
(* Receipts agree                                                          *)

\* What the rule makes of the first m signals.
Stage(rule, ordered, m) == ProcessSignals(rule, SubSeq(ordered, 1, m))

LEMMA FoldsAgree ==
    ASSUME NEW ordered \in Seq(Signal), NEW m \in 0..Len(ordered), NEW f, NEW g,
           Folds(f, ordered), Folds(g, SubSeq(ordered, 1, m))
    PROVE  g[m] = f[m]
<1> DEFINE Bad == {k \in 0..m : g[k] # f[k]}
<1>1. SUFFICES ASSUME Bad # {} PROVE FALSE
  <2>1. m \in 0..m
    OBVIOUS
  <2> QED
    BY <1>1, <2>1
<1>2. PICK k \in Bad : \A i \in Bad : k <= i
  <2>1. Bad \subseteq Nat
    OBVIOUS
  <2> HIDE DEF Bad
  <2> QED
    BY <1>1, <2>1, LeastNat
<1>3. Len(SubSeq(ordered, 1, m)) = m /\ \A i \in 1..m : SubSeq(ordered, 1, m)[i] = ordered[i]
  OBVIOUS
<1>4. k # 0
  BY <1>2 DEF Folds
<1>5. k \in 1..m /\ k \in 1..Len(ordered) /\ k - 1 \in 0..m /\ k - 1 < k
  BY <1>2, <1>4
<1>6. g[k - 1] = f[k - 1]
  BY <1>2, <1>5
<1>7. g[k] = Place(strategy, g[k - 1], ordered[k])
  BY <1>3, <1>5 DEF Folds
<1>8. f[k] = Place(strategy, f[k - 1], ordered[k])
  BY <1>5 DEF Folds
<1> QED
  BY <1>2, <1>6, <1>7, <1>8

\* One signal more is placed, and nothing else changes.
LEMMA StageStep ==
    ASSUME NEW ordered \in Seq(Signal)
    PROVE  /\ Stage(strategy, ordered, 0) = << >>
           /\ \A m \in 0..Len(ordered) : Stage(strategy, ordered, m) \in Seq(Ruled)
           /\ \A m \in 1..Len(ordered) :
                  Stage(strategy, ordered, m) = Place(strategy, Stage(strategy, ordered, m - 1), ordered[m])
<1>1. PICK f : Folds(f, ordered) /\ \A k \in 0..Len(ordered) : f[k] \in Seq(Ruled)
  BY Folded
<1>2. ASSUME NEW m \in 0..Len(ordered) PROVE Stage(strategy, ordered, m) = f[m]
  <2>1. SubSeq(ordered, 1, m) \in Seq(Signal) /\ Len(SubSeq(ordered, 1, m)) = m
    OBVIOUS
  <2>2. PICK g : /\ Folds(g, SubSeq(ordered, 1, m))
                 /\ ProcessSignals(strategy, SubSeq(ordered, 1, m)) = g[m]
    BY <2>1, Folded
  <2>3. g[m] = f[m]
    BY <1>1, <2>2, FoldsAgree
  <2> QED
    BY <2>2, <2>3 DEF Stage
<1>3. 0 \in 0..Len(ordered) /\ \A m \in 1..Len(ordered) : m \in 0..Len(ordered) /\ m - 1 \in 0..Len(ordered)
  OBVIOUS
<1>4. Stage(strategy, ordered, 0) = << >>
  BY <1>1, <1>2, <1>3 DEF Folds
<1>5. ASSUME NEW m \in 0..Len(ordered) PROVE Stage(strategy, ordered, m) \in Seq(Ruled)
  BY <1>1, <1>2
<1>6. ASSUME NEW m \in 1..Len(ordered)
      PROVE  Stage(strategy, ordered, m) = Place(strategy, Stage(strategy, ordered, m - 1), ordered[m])
  <2>1. f[m] = Place(strategy, f[m - 1], ordered[m])
    BY <1>1 DEF Folds
  <2> QED
    BY <1>2, <1>3, <2>1
<1> QED
  BY <1>4, <1>5, <1>6

\* One segment is the beginning of the other.
Begins(x, y) == Len(x) <= Len(y) /\ \A a \in 1..Len(x) : y[a] = x[a]

LEMMA BeginsIsPrefix ==
    ASSUME NEW x \in Seq(Signal), NEW y \in Seq(Signal), Begins(x, y)
    PROVE  IsPrefix(x, y)
<1>1. Len(x) \in Nat /\ Len(y) \in Nat /\ Len(x) <= Len(y)
  BY DEF Begins
<1>2. SubSeq(x, 1, Len(x)) = x
  OBVIOUS
<1>3. SubSeq(y, 1, Len(x)) = x
  BY <1>1 DEF Begins
<1> QED
  BY <1>1, <1>2, <1>3 DEF IsPrefix

\* Each of the segments is the beginning of the one in its place.
Extends(u, v) == Len(u) <= Len(v) /\ \A i \in 1..Len(u) : Begins(u[i], v[i])

\* No number is above the top, and those of a segment are below those of the next ones.
Below(u, top) == \A i \in 1..Len(u) : \A a \in 1..Len(u[i]) : u[i][a].number <= top
Apart(u) ==
    \A i, j \in 1..Len(u) : i < j =>
        \A a \in 1..Len(u[i]) : \A b \in 1..Len(u[j]) : u[i][a].number < u[j][b].number

\* The front of a sequence.
LEMMA AllButLast ==
    ASSUME NEW S, NEW u \in Seq(S), Len(u) > 0
    PROVE  /\ Len(Front(u)) = Len(u) - 1
           /\ \A i \in 1..(Len(u) - 1) : Front(u)[i] = u[i]
<1>1. PICK n \in Nat : n = Len(u) - 1
  OBVIOUS
<1>2. Front(u) = SubSeq(u, 1, n)
  BY <1>1 DEF Front
<1>3. Len(SubSeq(u, 1, n)) = n /\ \A i \in 1..n : SubSeq(u, 1, n)[i] = u[i]
  BY <1>1
<1> QED
  BY <1>1, <1>2, <1>3

\* Where a signal is placed: behind, or in the last segment.
Placed(u, v, s, last) ==
    /\ v[Len(v)] = Append(last, s)
    /\ \/ last = << >> /\ Len(v) = Len(u) + 1
       \/ last = u[Len(u)] /\ Len(v) = Len(u) /\ Len(u) > 0
    /\ \A i \in 1..(Len(v) - 1) : i \in 1..Len(u) /\ v[i] = u[i]

LEMMA PlacedWhere ==
    ASSUME NEW u \in Seq(Ruled), NEW s \in Signal, NEW v, v = Place(strategy, u, s)
    PROVE  /\ v \in Seq(Ruled) /\ Len(v) > 0
           /\ \E last \in Seq(Signal) : Placed(u, v, s, last)
<1>1. v \in Seq(Ruled)
  BY PlacedFollow
<1>2. CASE u = << >> \/ Cuts(strategy, Last(u), s)
  <2>1. PICK one : one = <<s>>
    OBVIOUS
  <2>2. v = Append(u, one) /\ one = Append(<< >>, s)
    BY <1>2, <2>1 DEF Place
  <2>9. v = Append(u, one) /\ Len(u) \in Nat
    BY <2>2
  <2>3. Len(v) = Len(u) + 1 /\ v[Len(v)] = one /\ \A i \in 1..Len(u) : v[i] = u[i]
    BY <2>9
  <2>10. << >> \in Seq(Signal)
    OBVIOUS
  <2>4. PICK last \in Seq(Signal) : last = << >>
    BY <2>10, Zenon
  <2>5. v[Len(v)] = Append(last, s)
    BY <2>2, <2>3, <2>4
  <2>6. Len(u) \in Nat
    OBVIOUS
  <2>7. \A i \in 1..(Len(v) - 1) : i \in 1..Len(u) /\ v[i] = u[i]
    BY <2>3, <2>6
  <2>8. Placed(u, v, s, last) /\ Len(v) > 0
    BY <2>3, <2>4, <2>5, <2>6, <2>7 DEF Placed
  <2> QED
    BY <1>1, <2>8, Zenon
<1>3. CASE u # << >> /\ ~Cuts(strategy, Last(u), s)
  <2>1. Len(u) \in Nat \ {0} /\ Last(u) = u[Len(u)] /\ u[Len(u)] \in Seq(Signal)
    BY <1>3 DEF Last, Ruled
  <2>2. PICK last \in Seq(Signal) : last = u[Len(u)]
    BY <2>1
  <2>3. PICK longer : longer = Append(last, s)
    OBVIOUS
  <2>4. v = Front(u) \o <<longer>>
    BY <1>3, <2>1, <2>2, <2>3 DEF Place
  <2>5. PICK front : front = Front(u)
    OBVIOUS
  <2>6. front \in Seq(Ruled) /\ Len(front) = Len(u) - 1 /\ \A i \in 1..(Len(u) - 1) : front[i] = u[i]
    <3>1. front \in Seq(Ruled)
      BY <2>1, <2>5 DEF Front
    <3>2. Len(u) > 0
      BY <2>1
    <3> QED
      BY <2>5, <3>1, <3>2, AllButLast, Zenon
  <2>7. v = front \o <<longer>>
    BY <2>4, <2>5
  <2>8. Len(v) = Len(u)
    BY <1>1, <2>1, <2>6, <2>7
  <2>9. v[Len(u)] = longer
    BY <2>1, <2>6, <2>7
  <2>10. \A i \in 1..(Len(u) - 1) : v[i] = u[i]
    BY <2>1, <2>6, <2>7
  <2>11. Placed(u, v, s, last) /\ Len(v) > 0
    BY <2>1, <2>2, <2>3, <2>8, <2>9, <2>10 DEF Placed
  <2> QED
    BY <1>1, <2>11, Zenon
<1> QED
  BY <1>2, <1>3

LEMMA PlacedExtends ==
    ASSUME NEW u \in Seq(Ruled), NEW s \in Signal, NEW v, v = Place(strategy, u, s)
    PROVE  Extends(u, v)
<1>0. PICK last \in Seq(Signal) : Placed(u, v, s, last)
  BY PlacedWhere
<1>1. /\ v[Len(v)] = Append(last, s)
      /\ \/ last = << >> /\ Len(v) = Len(u) + 1
         \/ last = u[Len(u)] /\ Len(v) = Len(u) /\ Len(u) > 0
      /\ \A i \in 1..(Len(v) - 1) : i \in 1..Len(u) /\ v[i] = u[i]
  BY <1>0 DEF Placed
<1>2. Len(u) \in Nat /\ Len(v) \in Nat
  BY PlacedWhere
<1>3. \A i \in 1..Len(u) : Len(u[i]) \in Nat
  BY DEF Ruled
<1>4. ASSUME NEW i \in 1..Len(u) PROVE Begins(u[i], v[i])
  <2>1. CASE i \in 1..(Len(v) - 1)
    <3>1. PICK x : x = u[i]
      OBVIOUS
    <3>2. v[i] = x /\ Len(x) \in Nat
      BY <1>1, <1>3, <2>1, <3>1
    <3>3. Begins(x, x)
      BY <3>2 DEF Begins
    <3> QED
      BY <3>1, <3>2, <3>3
  <2>2. CASE i \notin 1..(Len(v) - 1)
    <3>1. i = Len(v) /\ last = u[i]
      BY <1>1, <1>2, <2>2
    <3>2. v[i] = Append(last, s)
      BY <1>1, <3>1
    <3>3. Begins(last, Append(last, s))
      BY DEF Begins
    <3> QED
      BY <3>1, <3>2, <3>3
  <2> QED
    BY <2>1, <2>2
<1> QED
  BY <1>1, <1>2, <1>4 DEF Extends

LEMMA PlacedApart ==
    ASSUME NEW u \in Seq(Ruled), NEW s \in Signal, NEW v, v = Place(strategy, u, s),
           NEW top \in Int, Below(u, top), Apart(u), top < s.number
    PROVE  Below(v, s.number) /\ Apart(v)
<1>0. PICK last \in Seq(Signal) : Placed(u, v, s, last)
  BY PlacedWhere
<1>1. /\ v[Len(v)] = Append(last, s)
      /\ \/ last = << >> /\ Len(v) = Len(u) + 1
         \/ last = u[Len(u)] /\ Len(v) = Len(u) /\ Len(u) > 0
      /\ \A i \in 1..(Len(v) - 1) : i \in 1..Len(u) /\ v[i] = u[i]
  BY <1>0 DEF Placed
<1>3. \A x \in Signal : x.number \in Int
  <2>1. MaxSignals \in Nat
    BY ObserversAssumption
  <2>2. ASSUME NEW x \in Signal PROVE x.number \in Int
    BY <2>1 DEF Signal
  <2> QED
    BY <2>2
<1>2. /\ Len(u) \in Nat /\ Len(v) \in Nat /\ Len(v) > 0
      /\ s.number \in Int
      /\ \A i \in 1..Len(u) : u[i] \in Seq(Signal)
      /\ \A i \in 1..Len(v) : v[i] \in Seq(Signal)
  <2>1. v \in Seq(Ruled) /\ Len(v) > 0
    BY PlacedWhere
  <2>2. s.number \in Int
    BY <1>3
  <2>3. \A i \in 1..Len(u) : u[i] \in Seq(Signal)
    BY DEF Ruled
  <2>4. \A i \in 1..Len(v) : v[i] \in Seq(Signal)
    BY <2>1 DEF Ruled
  <2> QED
    BY <2>1, <2>2, <2>3, <2>4
<1>4. ASSUME NEW i \in 1..(Len(v) - 1), NEW a \in 1..Len(v[i])
      PROVE  v[i][a].number <= top /\ v[i][a].number \in Int
  <2>1. i \in 1..Len(u) /\ v[i] = u[i] /\ u[i] \in Seq(Signal)
    BY <1>1, <1>2
  <2>2. u[i][a].number <= top /\ u[i][a] \in Signal
    BY <1>4, <2>1 DEF Below
  <2> QED
    BY <1>3, <2>1, <2>2
<1>5. ASSUME NEW a \in 1..Len(v[Len(v)])
      PROVE  /\ v[Len(v)][a].number \in Int /\ v[Len(v)][a].number <= s.number
             /\ \/ v[Len(v)][a] = s
                \/ Len(v) = Len(u) /\ a \in 1..Len(u[Len(u)]) /\ v[Len(v)][a] = u[Len(u)][a]
  <2>1. CASE a = Len(last) + 1
    BY <1>1, <1>2, <2>1
  <2>2. CASE a # Len(last) + 1
    <3>1. a \in 1..Len(last) /\ v[Len(v)][a] = last[a]
      BY <1>1, <2>2
    <3>2. last = u[Len(u)] /\ Len(v) = Len(u) /\ Len(u) \in 1..Len(u)
      BY <1>1, <1>2, <3>1
    <3>3. u[Len(u)][a].number <= top
      BY <3>1, <3>2 DEF Below
    <3>4. u[Len(u)][a] \in Signal
      BY <1>2, <3>1, <3>2
    <3> QED
      BY <1>2, <1>3, <3>1, <3>2, <3>3, <3>4
  <2> QED
    BY <2>1, <2>2
<1>6. Below(v, s.number)
  <2>1. ASSUME NEW i \in 1..Len(v), NEW a \in 1..Len(v[i]) PROVE v[i][a].number <= s.number
    <3>1. CASE i = Len(v)
      BY <1>5, <3>1
    <3>2. CASE i # Len(v)
      <4>1. i \in 1..(Len(v) - 1)
        BY <1>2, <3>2
      <4> QED
        BY <1>2, <1>4, <4>1
    <3> QED
      BY <3>1, <3>2
  <2> QED
    BY <2>1 DEF Below
<1>7. Apart(v)
  <2>1. ASSUME NEW i \in 1..Len(v), NEW j \in 1..Len(v), i < j,
               NEW a \in 1..Len(v[i]), NEW b \in 1..Len(v[j])
        PROVE  v[i][a].number < v[j][b].number
    <3>0. i \in 1..(Len(v) - 1)
      <4>1. Len(v) \in Nat
        BY <1>2
      <4> QED
        BY <2>1, <4>1
    <3>1. i \in 1..Len(u) /\ v[i] = u[i]
      BY <1>1, <3>0
    <3>2. CASE j = Len(v)
      <4>1. CASE v[j][b] = s
        BY <1>2, <1>4, <3>0, <4>1
      <4>2. CASE Len(v) = Len(u) /\ b \in 1..Len(u[Len(u)]) /\ v[j][b] = u[Len(u)][b]
        BY <1>2, <2>1, <3>1, <3>2, <4>2 DEF Apart
      <4> QED
        BY <1>5, <3>2, <4>1, <4>2
    <3>3. CASE j # Len(v)
      <4>0. j \in 1..(Len(v) - 1)
        <5>1. Len(v) \in Nat
          BY <1>2
        <5> QED
          BY <3>3, <5>1
      <4>1. j \in 1..Len(u) /\ v[j] = u[j]
        BY <1>1, <4>0
      <4> QED
        BY <2>1, <3>1, <4>1 DEF Apart
    <3> QED
      BY <3>2, <3>3
  <2> QED
    BY <2>1 DEF Apart
<1> QED
  BY <1>6, <1>7
LEMMA ExtendsTransitive ==
    ASSUME NEW u \in Seq(Ruled), NEW v \in Seq(Ruled), NEW w \in Seq(Ruled),
           Extends(u, v), Extends(v, w)
    PROVE  Extends(u, w)
<1>1. Len(u) \in Nat /\ Len(v) \in Nat /\ Len(w) \in Nat
  OBVIOUS
<1>2. Len(u) <= Len(w)
  BY <1>1 DEF Extends
<1>3. ASSUME NEW i \in 1..Len(u) PROVE Begins(u[i], w[i])
  <2>1. i \in 1..Len(v) /\ i \in 1..Len(w)
    BY <1>1 DEF Extends
  <2>2. PICK x, y, z : x = u[i] /\ y = v[i] /\ z = w[i]
    OBVIOUS
  <2>3. Len(x) \in Nat /\ Len(y) \in Nat /\ Len(z) \in Nat
    BY <2>1, <2>2 DEF Ruled
  <2>4. Begins(x, y) /\ Begins(y, z)
    BY <2>1, <2>2 DEF Extends
  <2>5. Begins(x, z)
    BY <2>3, <2>4 DEF Begins
  <2> QED
    BY <2>2, <2>5
<1> QED
  BY <1>2, <1>3 DEF Extends

\* What was made of the first signals is extended by all that come after them.
LEMMA ProcessedExtends ==
    ASSUME NEW ordered \in Seq(Signal), NEW m \in 0..Len(ordered)
    PROVE  Extends(ProcessSignals(strategy, SubSeq(ordered, 1, m)), ProcessSignals(strategy, ordered))
<1> DEFINE n == Len(ordered)
           Good(k) == Extends(Stage(strategy, ordered, m), Stage(strategy, ordered, k))
           Bad == {k \in m..n : ~Good(k)}
<1>1. n \in Nat /\ n \in m..n
  OBVIOUS
<1>2. SUFFICES ASSUME Bad # {} PROVE FALSE
  <2>1. Good(n)
    BY <1>1, <1>2
  <2>2. SubSeq(ordered, 1, n) = ordered
    OBVIOUS
  <2> QED
    BY <2>1, <2>2 DEF Stage
<1>3. PICK k \in Bad : \A i \in Bad : k <= i
  <2>1. Bad \subseteq Nat
    OBVIOUS
  <2> HIDE DEF Bad
  <2> QED
    BY <1>2, <2>1, LeastNat
<1>4. PICK u : u = Stage(strategy, ordered, m)
  OBVIOUS
<1>5. u \in Seq(Ruled)
  BY <1>4, StageStep
<1>6. k # m
  <2>1. \A i \in 1..Len(u) : Len(u[i]) \in Nat
    BY <1>5 DEF Ruled
  <2>2. Len(u) \in Nat
    BY <1>5
  <2>3. Extends(u, u)
    BY <2>1, <2>2 DEF Extends, Begins
  <2>4. ~Good(k)
    BY <1>3
  <2> QED
    BY <1>4, <2>3, <2>4
<1>7. k \in 1..n /\ k - 1 \in m..n /\ k - 1 \in 0..n /\ k - 1 < k
  BY <1>1, <1>3, <1>6
<1>8. Good(k - 1)
  <2> HIDE DEF Good
  <2> QED
    BY <1>3, <1>7
<1>9. PICK v : v = Stage(strategy, ordered, k - 1)
  OBVIOUS
<1>10. PICK w : w = Stage(strategy, ordered, k)
  OBVIOUS
<1>11. v \in Seq(Ruled) /\ w \in Seq(Ruled)
  BY <1>7, <1>9, <1>10, StageStep
<1>12. PICK s \in Signal : s = ordered[k]
  BY <1>7
<1>13. w = Place(strategy, v, s)
  BY <1>7, <1>9, <1>10, <1>12, StageStep
<1>14. Extends(v, w)
  BY <1>11, <1>12, <1>13, PlacedExtends
<1>15. Extends(u, w)
  BY <1>4, <1>5, <1>8, <1>9, <1>11, <1>14, ExtendsTransitive
<1> QED
  BY <1>3, <1>4, <1>10, <1>15

\* The numbers go up.
Numbered(ordered) == \A i, j \in 1..Len(ordered) : i < j => ordered[i].number < ordered[j].number

Top(ordered, k) == IF k = 0 THEN 0 ELSE ordered[k].number

LEMMA ProcessedApart ==
    ASSUME NEW ordered \in Seq(Signal), Numbered(ordered)
    PROVE  Apart(ProcessSignals(strategy, ordered))
<1> DEFINE n == Len(ordered)
           Good(k) == /\ Below(Stage(strategy, ordered, k), Top(ordered, k))
                      /\ Apart(Stage(strategy, ordered, k))
           Bad == {k \in 0..n : ~Good(k)}
<1>1. n \in Nat /\ n \in 0..n
  OBVIOUS
<1>2. SUFFICES ASSUME Bad # {} PROVE FALSE
  <2>1. Good(n)
    BY <1>1, <1>2
  <2>2. SubSeq(ordered, 1, n) = ordered
    OBVIOUS
  <2> QED
    BY <2>1, <2>2 DEF Stage
<1>3. PICK k \in Bad : \A i \in Bad : k <= i
  <2>1. Bad \subseteq Nat
    OBVIOUS
  <2> HIDE DEF Bad
  <2> QED
    BY <1>2, <2>1, LeastNat
<1>4. k # 0
  <2>1. Stage(strategy, ordered, 0) = << >>
    BY StageStep
  <2>2. Good(0)
    BY <2>1 DEF Below, Apart
  <2>3. ~Good(k)
    BY <1>3
  <2> QED
    BY <2>2, <2>3
<1>5. k \in 1..n /\ k - 1 \in 0..n /\ k - 1 < k
  BY <1>1, <1>3, <1>4
<1>6. Good(k - 1)
  <2> HIDE DEF Good
  <2> QED
    BY <1>3, <1>5
<1>7. PICK v : v = Stage(strategy, ordered, k - 1)
  OBVIOUS
<1>8. PICK w : w = Stage(strategy, ordered, k)
  OBVIOUS
<1>9. v \in Seq(Ruled)
  BY <1>5, <1>7, StageStep
<1>10. PICK s \in Signal : s = ordered[k]
  BY <1>5
<1>11. w = Place(strategy, v, s)
  BY <1>5, <1>7, <1>8, <1>10, StageStep
<1>12. PICK top : top = Top(ordered, k - 1)
  OBVIOUS
<1>13. s.number \in Int /\ s.number > 0
  <2>1. MaxSignals \in Nat
    BY ObserversAssumption
  <2> QED
    BY <2>1 DEF Signal
<1>14. top \in Int /\ top < s.number
  <2>1. CASE k = 1
    BY <1>12, <1>13, <2>1 DEF Top
  <2>2. CASE k # 1
    <3>1. k - 1 \in 1..n /\ k - 1 < k
      BY <1>5, <2>2
    <3>2. top = ordered[k - 1].number
      BY <1>12, <3>1 DEF Top
    <3>3. ordered[k - 1] \in Signal
      BY <3>1
    <3>4. PICK x \in Signal : x = ordered[k - 1]
      BY <3>3
    <3>5. x.number \in Int
      <4>1. MaxSignals \in Nat
        BY ObserversAssumption
      <4> QED
        BY <4>1 DEF Signal
    <3>6. x.number < s.number
      BY <1>5, <1>10, <3>1, <3>4 DEF Numbered
    <3> QED
      BY <3>2, <3>4, <3>5, <3>6
  <2> QED
    BY <2>1, <2>2
<1>15. Below(v, top) /\ Apart(v)
  BY <1>6, <1>7, <1>12
<1>16. Below(w, s.number) /\ Apart(w)
  BY <1>9, <1>11, <1>14, <1>15, PlacedApart
<1>17. Top(ordered, k) = s.number
  BY <1>4, <1>10 DEF Top
<1> QED
  BY <1>3, <1>8, <1>16, <1>17

\* The segment is the beginning of one of those the rule makes of all the signals.
Tells(rule, ordered, segment) ==
    \E i \in 1..Len(ProcessSignals(rule, ordered)) : Begins(segment, ProcessSignals(rule, ordered)[i])

LEMMA ProcessedTells ==
    ASSUME NEW ordered \in Seq(Signal), NEW i \in 1..Len(ProcessSignals(strategy, ordered))
    PROVE  Tells(strategy, ordered, ProcessSignals(strategy, ordered)[i])
<1>1. PICK w : w = ProcessSignals(strategy, ordered)
  OBVIOUS
<1>2. w \in Seq(Ruled)
  BY <1>1, ProcessedFollow
<1>3. Len(w[i]) \in Nat
  BY <1>1, <1>2 DEF Ruled
<1>4. Begins(w[i], w[i])
  BY <1>3 DEF Begins
<1> QED
  BY <1>1, <1>4 DEF Tells

LEMMA StillTells ==
    ASSUME NEW ordered \in Seq(Signal), NEW m \in 0..Len(ordered), NEW segment \in Seq(Signal),
           Tells(strategy, SubSeq(ordered, 1, m), segment)
    PROVE  Tells(strategy, ordered, segment)
<1>1. PICK u : u = ProcessSignals(strategy, SubSeq(ordered, 1, m))
  OBVIOUS
<1>2. PICK w : w = ProcessSignals(strategy, ordered)
  OBVIOUS
<1>3. SubSeq(ordered, 1, m) \in Seq(Signal)
  OBVIOUS
<1>4. u \in Seq(Ruled) /\ w \in Seq(Ruled)
  BY <1>1, <1>2, <1>3, ProcessedFollow
<1>5. Extends(u, w)
  BY <1>1, <1>2, ProcessedExtends
<1>6. PICK i \in 1..Len(u) : Begins(segment, u[i])
  BY <1>1 DEF Tells
<1>7. i \in 1..Len(w) /\ Begins(u[i], w[i])
  BY <1>4, <1>5 DEF Extends
<1>8. Len(segment) \in Nat /\ Len(u[i]) \in Nat /\ Len(w[i]) \in Nat
  BY <1>4, <1>7 DEF Ruled
<1>9. Begins(segment, w[i])
  <2>1. PICK y, z : y = u[i] /\ z = w[i]
    OBVIOUS
  <2>2. Begins(segment, z)
    BY <1>6, <1>7, <1>8, <2>1 DEF Begins
  <2> QED
    BY <2>1, <2>2
<1> QED
  BY <1>2, <1>7, <1>9 DEF Tells

\* Two such segments that share a signal begin the same one.
LEMMA TellersAgree ==
    ASSUME NEW ordered \in Seq(Signal), Numbered(ordered),
           NEW x \in Seq(Signal), NEW y \in Seq(Signal),
           Tells(strategy, ordered, x), Tells(strategy, ordered, y),
           NEW a \in 1..Len(x), NEW b \in 1..Len(y), x[a] = y[b]
    PROVE  IsPrefix(x, y) \/ IsPrefix(y, x)
<1>1. PICK w : w = ProcessSignals(strategy, ordered)
  OBVIOUS
<1>2. w \in Seq(Ruled) /\ Apart(w)
  BY <1>1, ProcessedFollow, ProcessedApart
<1>3. PICK i \in 1..Len(w) : Begins(x, w[i])
  BY <1>1 DEF Tells
<1>4. PICK j \in 1..Len(w) : Begins(y, w[j])
  BY <1>1 DEF Tells
<1>5. /\ Len(w) \in Nat /\ Len(x) \in Nat /\ Len(y) \in Nat
      /\ Len(w[i]) \in Nat /\ Len(w[j]) \in Nat
  BY <1>2 DEF Ruled
<1>6. a \in 1..Len(w[i]) /\ w[i][a] = x[a] /\ b \in 1..Len(w[j]) /\ w[j][b] = x[a]
  BY <1>3, <1>4, <1>5 DEF Begins
<1>7. PICK s \in Signal : s = x[a]
  OBVIOUS
<1>8. s.number \in Int
  <2>1. MaxSignals \in Nat
    BY ObserversAssumption
  <2> QED
    BY <2>1 DEF Signal
<1>9. i = j
  <2>1. ASSUME i < j PROVE FALSE
    <3>1. w[i][a].number < w[j][b].number
      BY <1>2, <1>6, <2>1 DEF Apart
    <3> QED
      BY <1>6, <1>7, <1>8, <3>1
  <2>2. ASSUME j < i PROVE FALSE
    <3>1. w[j][b].number < w[i][a].number
      BY <1>2, <1>6, <2>2 DEF Apart
    <3> QED
      BY <1>6, <1>7, <1>8, <3>1
  <2> QED
    BY <1>5, <2>1, <2>2
<1>10. PICK z : z = w[i]
  OBVIOUS
<1>11. Begins(x, z) /\ Begins(y, z)
  BY <1>3, <1>4, <1>9, <1>10
<1>12. CASE Len(x) <= Len(y)
  <2>1. Begins(x, y)
    BY <1>5, <1>11, <1>12 DEF Begins
  <2> QED
    BY <2>1, BeginsIsPrefix
<1>13. CASE Len(y) <= Len(x)
  <2>1. Begins(y, x)
    BY <1>5, <1>11, <1>13 DEF Begins
  <2> QED
    BY <2>1, BeginsIsPrefix
<1> QED
  BY <1>5, <1>12, <1>13
\* The first signal begins the first segment.
LEMMA FirstOfAll ==
    ASSUME NEW ordered \in Seq(Signal), ordered # << >>
    PROVE  StartTime(Head(ProcessSignals(strategy, ordered))) = ordered[1].time
<1>1. PICK w : w = ProcessSignals(strategy, ordered)
  OBVIOUS
<1>2. PICK u : u = ProcessSignals(strategy, SubSeq(ordered, 1, 1))
  OBVIOUS
<1>3. 1 \in 0..Len(ordered) /\ 1 \in 1..Len(ordered) /\ 0 = 1 - 1
  OBVIOUS
<1>4. PICK s \in Signal : s = ordered[1]
  BY <1>3
<1>5. u = Place(strategy, << >>, s)
  BY <1>2, <1>3, <1>4, StageStep DEF Stage
<1>6. PICK one : one = <<s>>
  OBVIOUS
<1>7. u = <<one>> /\ Len(u) = 1 /\ u[1] = one
  BY <1>5, <1>6 DEF Place
<1>8. Extends(u, w)
  BY <1>1, <1>2, <1>3, ProcessedExtends
<1>9. w \in Seq(Ruled)
  BY <1>1, ProcessedFollow
<1>10. Begins(one, w[1]) /\ 1 <= Len(w)
  BY <1>7, <1>8 DEF Extends
<1>11. w[1][1] = s
  <2>1. Len(one) = 1 /\ one[1] = s
    BY <1>6
  <2>2. 1 \in 1..Len(one)
    BY <2>1
  <2> QED
    BY <1>10, <2>1, <2>2 DEF Begins
<1>12. Head(w) = w[1]
  BY <1>9, <1>10
<1>13. Head(w[1]) = w[1][1]
  BY <1>9, <1>10 DEF Ruled
<1> QED
  BY <1>1, <1>4, <1>11, <1>12, <1>13 DEF StartTime

\* The signals are in order of number and of time, and none is from the future.
Timeline ==
    /\ Numbered(signals)
    /\ \A i \in 1..Len(signals) : signals[i].number <= captured /\ signals[i].time <= now
    /\ \A i, j \in 1..Len(signals) : i < j => signals[i].time <= signals[j].time

\* The passes in flight clear nothing, and what they have left is told of the signals.
OldestIsOld ==
    \A p \in Passes : passes[p].oldest \in Nat /\ \A i \in 1..Len(signals) : passes[p].oldest <= signals[i].time
OldestIsPast == \A p \in Passes : passes[p].oldest <= now
PassesTell ==
    \A p \in Passes : \A i \in 1..Len(passes[p].todo) : Tells(strategy, signals, passes[p].todo[i])
ReceiptsTell ==
    \A r \in OfTimer : r.segment \in Seq(Signal) /\ Tells(strategy, signals, r.segment)

PassesShaped == \A p \in Passes : passes[p] = [todo |-> passes[p].todo, oldest |-> passes[p].oldest]

Story == Timeline /\ PassesShaped /\ OldestIsOld /\ OldestIsPast /\ PassesTell /\ ReceiptsTell

StoryInv == RuleInv /\ (~trimmed => Story)

\* Receipts that tell of the signals agree.
LEMMA StoryAgrees == StoryInv => ReceiptsAgree
<1> SUFFICES ASSUME StoryInv, ~trimmed, NEW r \in OfTimer, NEW s \in OfTimer,
                    ToSet(r.segment) \cap ToSet(s.segment) # {}
             PROVE  IsPrefix(r.segment, s.segment) \/ IsPrefix(s.segment, r.segment)
  BY DEF ReceiptsAgree
<1>1. PICK x : x = r.segment
  OBVIOUS
<1>2. PICK y : y = s.segment
  OBVIOUS
<1>3. ReceiptsTell /\ Numbered(signals) /\ signals \in Seq(Signal)
  BY DEF StoryInv, Story, Timeline, RuleInv, SignalsInv
<1>4. /\ x \in Seq(Signal) /\ Tells(strategy, signals, x)
      /\ y \in Seq(Signal) /\ Tells(strategy, signals, y)
  BY <1>1, <1>2, <1>3 DEF ReceiptsTell
<1>5. PICK z : z \in ToSet(x) /\ z \in ToSet(y)
  BY <1>1, <1>2
<1>6. PICK a \in 1..Len(x) : z = x[a]
  BY <1>4, <1>5 DEF ToSet
<1>7. PICK b \in 1..Len(y) : z = y[b]
  BY <1>4, <1>5 DEF ToSet
<1> QED
  BY <1>1, <1>2, <1>3, <1>4, <1>6, <1>7, TellersAgree

\* Capture, whichever way, adds signals behind.
LEMMA CapturesSome ==
    ASSUME SignalsInv, Capture
    PROVE  \E count \in Nat : CreateSignals(count) \/ (count = 0 /\ UNCHANGED <<signals, captured>>)
<1>1. CASE OnFileChange
  BY <1>1 DEF OnFileChange
<1>2. CASE CheckForNewCommands
  <2> DEFINE count == IF history > lastPosition THEN history - lastPosition ELSE 0
  <2>1. count \in Nat
    BY DEF SignalsInv
  <2>2. CreateSignals(count)
    BY <1>2 DEF CheckForNewCommands
  <2> QED
    BY <2>1, <2>2, Zenon
<1>3. CASE Shell
  <2>1. UNCHANGED <<signals, captured>>
    BY <1>3 DEF Shell
  <2> QED
    BY <2>1
<1> QED
  BY <1>1, <1>2, <1>3 DEF Capture

LEMMA CapturedTimeline ==
    ASSUME SignalsInv, Timeline, OldestIsOld, OldestIsPast, NEW count \in Nat, CreateSignals(count),
           UNCHANGED <<now, passes>>
    PROVE  Timeline' /\ OldestIsOld' /\ OldestIsPast'
<1> DEFINE n == Len(signals)
<1>1. /\ signals' \in Seq(Signal) /\ captured' = captured + count /\ Len(signals') = n + count
      /\ \A i \in 1..n : signals'[i] = signals[i]
      /\ \A i \in 1..count : signals'[n + i] = [number |-> captured + i, time |-> now]
  BY CapturedSignals
<1>2. n \in Nat /\ captured \in Nat /\ now \in Nat
  <2>1. MaxSignals \in Nat /\ MaxTime \in Nat
    BY ObserversAssumption
  <2> QED
    BY <2>1 DEF SignalsInv
<1>3. \A i \in 1..n : signals[i].number \in Int /\ signals[i].time \in Int
  <2>1. MaxSignals \in Nat /\ MaxTime \in Nat
    BY ObserversAssumption
  <2>2. \A x \in Signal : x.number \in Int /\ x.time \in Int
    BY <2>1 DEF Signal
  <2>3. \A i \in 1..n : signals[i] \in Signal
    BY DEF SignalsInv
  <2> QED
    BY <2>2, <2>3
<1>4. ASSUME NEW i \in 1..(n + count), i \notin 1..n
      PROVE  signals'[i].number = captured + (i - n) /\ signals'[i].time = now
  <2>1. PICK k \in 1..count : i = n + k
    <3>1. i - n \in 1..count /\ i = n + (i - n)
      BY <1>2, <1>4
    <3> QED
      BY <3>1
  <2>2. signals'[i] = [number |-> captured + k, time |-> now]
    BY <1>1, <2>1
  <2>3. i - n = k
    BY <1>2, <2>1
  <2> QED
    BY <2>2, <2>3
<1>5. ASSUME NEW i \in 1..n
      PROVE  /\ signals'[i].number = signals[i].number /\ signals'[i].time = signals[i].time
             /\ signals[i].number <= captured /\ signals[i].time <= now
  BY <1>1, <1>5 DEF Timeline
<1> HIDE DEF n
<1>6. ASSUME NEW i \in 1..(n + count), NEW j \in 1..(n + count), i < j
      PROVE  signals'[i].number < signals'[j].number /\ signals'[i].time <= signals'[j].time
  <2>1. CASE i \in 1..n /\ j \in 1..n
    <3>1. signals[i].number < signals[j].number /\ signals[i].time <= signals[j].time
      BY <1>6, <2>1 DEF Timeline, Numbered, n
    <3> QED
      BY <1>5, <2>1, <3>1
  <2>2. CASE i \in 1..n /\ j \notin 1..n
    <3>1. j - n > 0
      BY <1>2, <2>2
    <3> QED
      BY <1>2, <1>3, <1>4, <1>5, <2>2, <3>1
  <2>3. CASE i \notin 1..n
    <3>1. j \notin 1..n
      BY <1>2, <1>6, <2>3
    <3>2. i - n < j - n
      BY <1>2, <1>6
    <3> QED
      BY <1>2, <1>4, <2>3, <3>1, <3>2
  <2> QED
    BY <2>1, <2>2, <2>3
<1>7. ASSUME NEW i \in 1..(n + count)
      PROVE  signals'[i].number <= captured' /\ signals'[i].time <= now
  <2>1. CASE i \in 1..n
    BY <1>1, <1>2, <1>3, <1>5, <2>1
  <2>2. CASE i \notin 1..n
    <3>1. i - n <= count /\ captured \in Nat
      <4>1. i \in Int /\ i <= n + count /\ n \in Nat /\ count \in Nat
        BY <1>2
      <4>2. i - n <= count
        BY <4>1
      <4> QED
        BY <1>2, <4>2
    <3>2. captured' = captured + count /\ signals'[i].number = captured + (i - n)
      BY <1>1, <1>4, <2>2
    <3>3. signals'[i].time = now /\ now \in Nat
      BY <1>2, <1>4, <2>2
    <3>4. i - n \in Int
      BY <1>2
    <3> QED
      BY <3>1, <3>2, <3>3, <3>4
  <2> QED
    BY <2>1, <2>2
<1>8. Timeline'
  <2>1. Len(signals') = n + count /\ now' = now
    BY <1>1 DEF n
  <2>2. \A i, j \in 1..Len(signals') : i < j => signals'[i].number < signals'[j].number
    BY <1>6, <2>1
  <2>3. \A i, j \in 1..Len(signals') : i < j => signals'[i].time <= signals'[j].time
    BY <1>6, <2>1
  <2>4. \A i \in 1..Len(signals') : signals'[i].number <= captured' /\ signals'[i].time <= now'
    BY <1>7, <2>1
  <2> QED
    BY <2>2, <2>3, <2>4 DEF Timeline, Numbered
<1>9. OldestIsOld'
  <2>1. ASSUME NEW p \in Passes, NEW i \in 1..(n + count) PROVE passes[p].oldest <= signals'[i].time
    <3>1. CASE i \in 1..n
      <4>1. passes[p].oldest <= signals[i].time
        BY <3>1 DEF OldestIsOld, n
      <4> QED
        BY <1>5, <3>1, <4>1
    <3>2. CASE i \notin 1..n
      BY <1>4, <3>2 DEF OldestIsPast
    <3> QED
      BY <3>1, <3>2
  <2>2. Len(signals') = n + count
    BY <1>1 DEF n
  <2>3. \A p \in Passes : passes[p].oldest \in Nat
    BY DEF OldestIsOld
  <2> QED
    BY <2>1, <2>2, <2>3 DEF OldestIsOld
<1>10. OldestIsPast'
  BY DEF OldestIsPast
<1> QED
  BY <1>8, <1>9, <1>10
\* What was told of the signals is told still.
LEMMA TellsOnward ==
    ASSUME SignalsInv, NEW count \in Nat, CreateSignals(count), UNCHANGED strategy,
           NEW segment \in Seq(Signal), Tells(strategy, signals, segment)
    PROVE  Tells(strategy', signals', segment)
<1>1. PICK n : n = Len(signals)
  OBVIOUS
<1>2. PICK ordered : ordered = signals'
  OBVIOUS
<1>3. /\ ordered \in Seq(Signal) /\ Len(ordered) = n + count
      /\ \A i \in 1..n : ordered[i] = signals[i]
  BY <1>1, <1>2, CapturedSignals
<1>4. signals \in Seq(Signal) /\ n \in Nat
  BY <1>1 DEF SignalsInv
<1>5. n \in 0..Len(ordered)
  BY <1>3, <1>4
<1>6. SubSeq(ordered, 1, n) = signals
  BY <1>1, <1>3, <1>4, <1>5
<1>7. Tells(strategy, SubSeq(ordered, 1, n), segment)
  BY <1>6
<1>8. Tells(strategy, ordered, segment)
  BY <1>3, <1>5, <1>7, StillTells
<1> QED
  BY <1>2, <1>8

LEMMA CaptureStory ==
    ASSUME RuleInv, Story, Capture
    PROVE  Story'
<1>0. UNCHANGED <<now, receipts, strategy, passes>>
  BY DEF Capture
<1>1. PICK count \in Nat : CreateSignals(count) \/ (count = 0 /\ UNCHANGED <<signals, captured>>)
  BY CapturesSome DEF RuleInv
<1>9. PassesShaped'
  BY <1>0 DEF Story, PassesShaped
<1>2. CASE UNCHANGED <<signals, captured>>
  <2>1. Timeline' /\ OldestIsOld' /\ OldestIsPast'
    BY <1>0, <1>2 DEF Story, Timeline, Numbered, OldestIsOld, OldestIsPast
  <2>2. PassesTell' /\ ReceiptsTell'
    BY <1>0, <1>2 DEF Story, PassesTell, ReceiptsTell, OfTimer
  <2> QED
    BY <1>9, <2>1, <2>2 DEF Story
<1>3. CASE CreateSignals(count)
  <2>0. SignalsInv
    BY DEF RuleInv
  <2>1. Timeline' /\ OldestIsOld' /\ OldestIsPast'
    BY <1>0, <1>3, <2>0, CapturedTimeline DEF Story
  <2>2. ASSUME NEW p \in Passes, NEW i \in 1..Len(passes[p].todo)
        PROVE  Tells(strategy', signals', passes[p].todo[i])
    <3>1. passes[p].todo[i] \in Seq(Signal)
      <4>1. passes[p].todo \in Seq(Ruled)
        BY DEF RuleInv, PassesInv
      <4>2. passes[p].todo[i] \in Ruled
        BY <4>1
      <4> QED
        BY <4>2 DEF Ruled
    <3>2. Tells(strategy, signals, passes[p].todo[i])
      BY DEF Story, PassesTell
    <3> QED
      BY <1>0, <1>3, <2>0, <3>1, <3>2, TellsOnward
  <2>3. ASSUME NEW r \in OfTimer
        PROVE  r.segment \in Seq(Signal) /\ Tells(strategy', signals', r.segment)
    <3>1. r.segment \in Seq(Signal) /\ Tells(strategy, signals, r.segment)
      BY DEF Story, ReceiptsTell
    <3> QED
      BY <1>0, <1>3, <2>0, <3>1, TellsOnward
  <2>4. PassesTell'
    BY <1>0, <2>2 DEF PassesTell
  <2>5. ReceiptsTell'
    <3>1. OfTimer' = OfTimer
      BY <1>0 DEF OfTimer
    <3> QED
      BY <2>3, <3>1 DEF ReceiptsTell
  <2> QED
    BY <1>9, <2>1, <2>4, <2>5 DEF Story
<1> QED
  BY <1>1, <1>2, <1>3

\* A new pass has what the rule makes of the signals.
LEMMA NewPassStory ==
    ASSUME RuleInv, Story, NewPass, UNCHANGED <<now, signals, captured, receipts, strategy>>
    PROVE  Story'
<1>1. Timeline' /\ ReceiptsTell'
  BY DEF Story, Timeline, Numbered, ReceiptsTell, OfTimer
<1>2. CASE UNCHANGED passes
  <2>1. PassesShaped' /\ OldestIsOld' /\ OldestIsPast' /\ PassesTell'
    BY <1>2 DEF Story, PassesShaped, OldestIsOld, OldestIsPast, PassesTell
  <2> QED
    BY <1>1, <2>1 DEF Story
<1>3. CASE signals # << >>
  <2>1. PICK segments : segments = ProcessSignals(strategy, signals)
    OBVIOUS
  <2>2. PICK old : old = StartTime(Head(segments))
    OBVIOUS
  <2>3. PICK q : passes' = [passes EXCEPT ![q] = [todo |-> segments, oldest |-> old]]
    BY <1>3, <2>1, <2>2 DEF NewPass
  <2>4. signals \in Seq(Signal) /\ DOMAIN passes = Passes
    BY DEF RuleInv, SignalsInv, PassesInv
  <2>5. old = signals[1].time
    BY <1>3, <2>1, <2>2, <2>4, FirstOfAll
  <2>6. 1 \in 1..Len(signals) /\ \A i \in 1..Len(signals) : i \in Int /\ (i = 1 \/ 1 < i)
    BY <1>3, <2>4
  <2>7. old \in Nat /\ old <= now
    <3>1. MaxTime \in Nat
      BY ObserversAssumption
    <3>2. PICK s \in Signal : s = signals[1]
      BY <2>4, <2>6
    <3>3. s.time \in Nat
      BY <3>1 DEF Signal
    <3> QED
      BY <2>5, <2>6, <3>2, <3>3 DEF Story, Timeline
  <2>8. ASSUME NEW i \in 1..Len(signals) PROVE old <= signals[i].time
    <3>1. CASE i = 1
      BY <2>5, <2>7, <3>1
    <3>2. CASE i # 1
      BY <2>5, <2>6, <3>2 DEF Story, Timeline
    <3> QED
      BY <3>1, <3>2
  <2>9. ASSUME NEW p \in Passes
        PROVE  \/ passes'[p] = passes[p]
               \/ /\ passes'[p].todo = segments /\ passes'[p].oldest = old
                  /\ passes'[p] = [todo |-> passes'[p].todo, oldest |-> passes'[p].oldest]
    BY <2>3, <2>4
  <2>13. PassesShaped'
    BY <2>9 DEF Story, PassesShaped
  <2>10. OldestIsOld' /\ OldestIsPast'
    <3>1. ASSUME NEW p \in Passes
          PROVE  /\ passes'[p].oldest \in Nat /\ passes'[p].oldest <= now
                 /\ \A i \in 1..Len(signals) : passes'[p].oldest <= signals[i].time
      BY <2>7, <2>8, <2>9 DEF Story, OldestIsOld, OldestIsPast
    <3> QED
      BY <3>1 DEF OldestIsOld, OldestIsPast
  <2>11. ASSUME NEW p \in Passes, NEW i \in 1..Len(passes'[p].todo)
         PROVE  Tells(strategy, signals, passes'[p].todo[i])
    <3>1. CASE passes'[p] = passes[p]
      BY <3>1 DEF Story, PassesTell
    <3>2. CASE passes'[p].todo = segments
      BY <2>1, <2>4, <3>2, ProcessedTells
    <3> QED
      BY <2>9, <3>1, <3>2
  <2>12. PassesTell'
    BY <2>11 DEF PassesTell
  <2> QED
    BY <1>1, <2>10, <2>12, <2>13 DEF Story
<1> QED
  BY <1>2, <1>3 DEF NewPass

\* A pass in flight clears nothing, and the receipt it adds tells of the signals.
LEMMA AssessedStory ==
    ASSUME RuleInv, Story, NEW p \in Passes, SegmentAssessed(p)
    PROVE  Story'
<1> DEFINE todo == passes[p].todo
<1>1. UNCHANGED <<now, captured, strategy>>
  BY DEF SegmentAssessed
<1>2. DOMAIN passes = Passes /\ todo \in Seq(Ruled) /\ todo # << >> /\ SignalsInv
  BY DEF RuleInv, PassesInv, SegmentAssessed
<1>3. signals' = signals
  <2>1. CASE Len(todo) = 1
    <3>1. PICK old \in Nat : old = passes[p].oldest
      BY DEF Story, OldestIsOld
    <3>2. DOMAIN signals = 1..Len(signals)
      BY <1>2 DEF SignalsInv
    <3>3. ASSUME NEW i \in DOMAIN signals PROVE ~(signals[i].time < old)
      <4>1. old <= signals[i].time
        BY <3>1, <3>2 DEF Story, OldestIsOld
      <4>2. signals[i].time \in Int
        <5>1. MaxTime \in Nat
          BY ObserversAssumption
        <5>2. PICK s \in Signal : s = signals[i]
          BY <1>2, <3>2 DEF SignalsInv
        <5> QED
          BY <5>1, <5>2 DEF Signal
      <4> QED
        BY <4>1, <4>2
    <3>4. Since(old) = signals
      BY <1>2, <3>3, OlderType
    <3> QED
      BY <2>1, <3>1, <3>4 DEF SegmentAssessed, ClearSignalsBefore
  <2>2. CASE Len(todo) # 1
    BY <2>2 DEF SegmentAssessed
  <2> QED
    BY <2>1, <2>2
<1>4. Timeline'
  BY <1>1, <1>3 DEF Story, Timeline, Numbered
<1>5. ASSUME NEW q \in Passes
      PROVE  \/ passes'[q] = passes[q]
             \/ passes'[q] = [todo |-> << >>, oldest |-> 0]
             \/ q = p /\ passes'[q] = [todo |-> Tail(todo), oldest |-> passes[p].oldest]
  <2>1. CASE Len(todo) = 1
    BY <1>2, <2>1 DEF SegmentAssessed, NoPass
  <2>2. CASE Len(todo) # 1
    <3>1. passes' = [passes EXCEPT ![p] = [passes[p] EXCEPT !.todo = Tail(todo)]]
      BY <2>2 DEF SegmentAssessed
    <3>2. PICK pass : pass = passes[p]
      OBVIOUS
    <3>3. pass = [todo |-> pass.todo, oldest |-> pass.oldest]
      BY <3>2 DEF Story, PassesShaped
    <3>5. PICK a, b : pass = [todo |-> a, oldest |-> b]
      BY <3>3
    <3>6. PICK tail : tail = Tail(todo)
      OBVIOUS
    <3>4. [pass EXCEPT !.todo = tail] = [todo |-> tail, oldest |-> pass.oldest]
      BY <3>5
    <3> QED
      BY <1>2, <3>1, <3>2, <3>4, <3>6
  <2> QED
    BY <2>1, <2>2
<1>6. PassesShaped'
  BY <1>5 DEF Story, PassesShaped
<1>7. OldestIsOld' /\ OldestIsPast'
  <2>1. \A i \in 1..Len(signals) : signals[i].time \in Nat
    <3>1. MaxTime \in Nat
      BY ObserversAssumption
    <3>2. \A s \in Signal : s.time \in Nat
      BY <3>1 DEF Signal
    <3> QED
      BY <1>2, <3>2 DEF SignalsInv
  <2>2. now \in Nat
    BY <1>2, ObserversAssumption DEF SignalsInv
  <2>3. ASSUME NEW q \in Passes
        PROVE  /\ passes'[q].oldest \in Nat /\ passes'[q].oldest <= now
               /\ \A i \in 1..Len(signals) : passes'[q].oldest <= signals[i].time
    <3>1. passes'[q].oldest = passes[q].oldest \/ passes'[q].oldest = 0
      BY <1>5
    <3> QED
      BY <2>1, <2>2, <3>1 DEF Story, OldestIsOld, OldestIsPast
  <2> QED
    BY <1>1, <1>3, <2>3 DEF OldestIsOld, OldestIsPast
<1>8. PassesTell'
  <2>1. ASSUME NEW q \in Passes, NEW i \in 1..Len(passes'[q].todo)
        PROVE  Tells(strategy, signals, passes'[q].todo[i])
    <3>1. CASE passes'[q] = passes[q]
      BY <3>1 DEF Story, PassesTell
    <3>2. CASE passes'[q] = [todo |-> << >>, oldest |-> 0]
      BY <3>2
    <3>3. CASE q = p /\ passes'[q] = [todo |-> Tail(todo), oldest |-> passes[p].oldest]
      <4>1. i \in 1..Len(Tail(todo)) /\ passes'[q].todo[i] = Tail(todo)[i]
        BY <3>3
      <4>2. Tail(todo)[i] = todo[i + 1] /\ i + 1 \in 1..Len(todo)
        BY <1>2, <4>1
      <4> QED
        BY <4>1, <4>2 DEF Story, PassesTell
    <3> QED
      BY <1>5, <3>1, <3>2, <3>3
  <2> QED
    BY <1>1, <1>3, <2>1 DEF PassesTell
<1>9. ReceiptsTell'
  <2>1. receipts' = receipts \cup
            {[segment |-> Head(todo), marked |-> FALSE, status |-> "validated"]}
    BY DEF SegmentAssessed, CreateReceipt
  <2>2. 1 \in 1..Len(todo) /\ Head(todo) = todo[1] /\ Head(todo) \in Seq(Signal)
    BY <1>2 DEF Ruled
  <2>3. Tells(strategy, signals, Head(todo))
    BY <2>2 DEF Story, PassesTell
  <2> HIDE DEF todo
  <2>4. ASSUME NEW r \in OfTimer'
        PROVE  r.segment \in Seq(Signal) /\ Tells(strategy, signals, r.segment)
    <3>1. r \in OfTimer \/ r.segment = Head(todo)
      BY <2>1 DEF OfTimer
    <3> QED
      BY <2>2, <2>3, <3>1 DEF Story, ReceiptsTell
  <2> QED
    BY <1>1, <1>3, <2>4 DEF ReceiptsTell
<1> QED
  BY <1>4, <1>6, <1>7, <1>8, <1>9 DEF Story
\* The receipts of the timer that a step leaves have segments some had before.
LEMMA StoryStays ==
    ASSUME Story, UNCHANGED <<signals, captured, strategy, passes>>, now' \in Nat, now \in Nat, now' >= now,
           signals \in Seq(Signal),
           \A r \in receipts' : ~r.marked =>
               \E old \in receipts : ~old.marked /\ r.segment = old.segment
    PROVE  Story'
<1>1. \A i \in 1..Len(signals) : signals[i].time \in Nat
  <2>1. MaxTime \in Nat
    BY ObserversAssumption
  <2>2. \A s \in Signal : s.time \in Nat
    BY <2>1 DEF Signal
  <2> QED
    BY <2>2
<1>2. Timeline'
  <2>1. ASSUME NEW i \in 1..Len(signals) PROVE signals[i].time <= now'
    <3>1. signals[i].time <= now
      BY DEF Story, Timeline
    <3> QED
      BY <1>1, <3>1
  <2> QED
    BY <2>1 DEF Story, Timeline, Numbered
<1>3. PassesShaped' /\ OldestIsOld' /\ PassesTell'
  BY DEF Story, PassesShaped, OldestIsOld, PassesTell
<1>4. OldestIsPast'
  BY DEF Story, OldestIsOld, OldestIsPast
<1>5. ReceiptsTell'
  BY DEF Story, ReceiptsTell, OfTimer
<1> QED
  BY <1>2, <1>3, <1>4, <1>5 DEF Story

\* Marking a receipt as anchored adds no segment.
LEMMA AnchoringSegments ==
    ASSUME IInv, NEW run, Anchoring(run)
    PROVE  \A r \in receipts' : ~r.marked =>
               \E old \in receipts : ~old.marked /\ r.segment = old.segment
<1>1. CASE PostTaken(run)
  BY <1>1 DEF PostTaken
<1>2. ASSUME NEW success \in BOOLEAN, NEW others \in BOOLEAN,
             AnchorReceipt(run, success, others)
      PROVE  \A r \in receipts' : ~r.marked =>
                 \E old \in receipts : ~old.marked /\ r.segment = old.segment
  <2>1. CASE receipts' \subseteq receipts
    BY <2>1
  <2>2. CASE run.posting \in receipts /\
             receipts' \subseteq receipts \cup {[run.posting EXCEPT !.status = "anchored"]}
    <3>1. PICK new : new = [run.posting EXCEPT !.status = "anchored"]
      OBVIOUS
    <3>2. IsReceipt(run.posting)
      BY <2>2 DEF IInv
    <3>3. new.marked = run.posting.marked /\ new.segment = run.posting.segment
      BY <3>1, <3>2 DEF IsReceipt
    <3>4. receipts' \subseteq receipts \cup {new}
      BY <2>2, <3>1
    <3> QED
      BY <2>2, <3>3, <3>4
  <2>3. \/ receipts' \subseteq receipts
        \/ /\ run.posting \in receipts
           /\ receipts' \subseteq receipts \cup {[run.posting EXCEPT !.status = "anchored"]}
    BY <1>2 DEF AnchorReceipt, MarkAsAnchored
  <2> QED
    BY <2>1, <2>2, <2>3
<1> QED
  BY <1>1, <1>2 DEF Anchoring

\* A retention that dropped no signal left them as they are.
LEMMA NothingTrimmed ==
    ASSUME SignalsInv, Cleanup, ~trimmed'
    PROVE  ~trimmed /\ signals' = signals
<1>1. PICK cutoff : cutoff = now - Retention
  OBVIOUS
<1>2. PICK old : old = Older(cutoff)
  OBVIOUS
<1>3. {signals[i].number : i \in 1..old} = {} /\ ~trimmed
  BY <1>1, <1>2 DEF Cleanup
<1>4. old \in 0..Len(signals) /\ signals \in Seq(Signal)
  BY <1>2, OlderType DEF SignalsInv
<1>5. old = 0
  <2>1. CASE old > 0
    <3>1. 1 \in 1..old
      BY <1>4, <2>1
    <3> QED
      BY <1>3, <3>1
  <2> QED
    BY <1>4, <2>1
<1>6. signals' = SubSeq(signals, 1, Len(signals))
  BY <1>1, <1>2, <1>5 DEF Cleanup, ClearSignalsBefore, Since
<1> QED
  BY <1>3, <1>4, <1>6

LEMMA StoryNext == StoryInv /\ [Next]_vars => StoryInv'
<1> SUFFICES ASSUME StoryInv, [Next]_vars, ~trimmed' PROVE Story'
  BY RuleNext DEF StoryInv
<1>0. /\ RuleInv /\ SignalsInv /\ IInv /\ signals \in Seq(Signal) /\ now \in Nat
      /\ (~trimmed => Story)
  BY ObserversAssumption DEF StoryInv, RuleInv, SignalsInv
<1>1. CASE Capture
  BY <1>0, <1>1, CaptureStory DEF Capture
<1>2. CASE Stop \/ ProcessSegments
  <2>1. /\ NewPass /\ UNCHANGED <<now, signals, captured, receipts, strategy>>
        /\ trimmed' = trimmed
    BY <1>2 DEF Stop, StopAll, ProcessSegments, observerVars
  <2> QED
    BY <1>0, <2>1, NewPassStory
<1>3. ASSUME NEW p \in Passes, SegmentAssessed(p) PROVE Story'
  <2>1. trimmed' = trimmed
    BY <1>3 DEF SegmentAssessed
  <2> QED
    BY <1>0, <1>3, <2>1, AssessedStory
<1>4. CASE Start \/ Tick
  <2>1. /\ UNCHANGED <<signals, captured, receipts, strategy, passes, trimmed>>
        /\ now' \in Nat /\ now' >= now
    BY <1>0, <1>4 DEF Start, StartAll, Tick, observerVars
  <2> QED
    BY <1>0, <2>1, StoryStays
<1>5. CASE CreateMarkedSegment \/ AnchoringTimer \/ ArrivesLate \/ UNCHANGED vars
  <2>1. UNCHANGED <<now, signals, captured, receipts, strategy, passes, trimmed>>
    BY <1>5 DEF CreateMarkedSegment, AnchoringTimer, AutoAnchorValidatedReceipts, ArrivesLate,
                TakenLate, observerVars, vars
  <2> QED
    BY <1>0, <2>1, StoryStays
<1>6. ASSUME NEW segment \in marking, MarkedAssessed(segment) PROVE Story'
  <2>1. /\ UNCHANGED <<now, signals, captured, strategy, passes, trimmed>>
        /\ receipts' = receipts \cup
               {[segment |-> segment, marked |-> TRUE, status |-> "validated"]}
    BY <1>6 DEF MarkedAssessed, CreateReceipt, observerVars
  <2> QED
    BY <1>0, <2>1, StoryStays
<1>7. ASSUME NEW run \in anchorings, Anchoring(run) PROVE Story'
  <2>1. UNCHANGED <<now, signals, captured, strategy, passes, trimmed>>
    BY <1>7 DEF Anchoring, observerVars
  <2> QED
    BY <1>0, <1>7, <2>1, AnchoringSegments, StoryStays
<1>8. CASE Cleanup
  <2>1. ~trimmed /\ signals' = signals
    BY <1>0, <1>8, NothingTrimmed
  <2>2. receipts' \subseteq receipts /\ UNCHANGED <<now, captured, strategy, passes>>
    BY <1>8 DEF Cleanup, DeleteReceipts
  <2> QED
    BY <1>0, <2>1, <2>2, StoryStays
<1>9. CASE Restart
  <2>1. /\ signals' = << >> /\ receipts' = {} /\ now' = now
        /\ passes' = [p \in Passes |-> [todo |-> << >>, oldest |-> 0]]
    BY <1>9 DEF Restart, LoadReceipts, NoPass
  <2>2. Timeline'
    BY <2>1 DEF Timeline, Numbered
  <2>3. PassesShaped' /\ OldestIsOld'
    BY <2>1 DEF PassesShaped, OldestIsOld
  <2>4. OldestIsPast'
    BY <1>0, <2>1 DEF OldestIsPast
  <2>5. PassesTell' /\ ReceiptsTell'
    BY <2>1 DEF PassesTell, ReceiptsTell, OfTimer
  <2> QED
    BY <2>2, <2>3, <2>4, <2>5 DEF Story
<1> QED
  BY <1>1, <1>2, <1>3, <1>4, <1>5, <1>6, <1>7, <1>8, <1>9 DEF Next

\* Whatever was captured between two passes, however they overlap and whichever
\* rule cuts the signals, until the retention drops signals two receipts of the
\* timer that claim one signal claim the beginning of one segment
\* (SegmentationEngine.ts:73-206, EffortCaptureSystem.ts:133-190).
THEOREM ReceiptsAlwaysAgree == Spec => []ReceiptsAgree
<1>1. Init => StoryInv
  <2> SUFFICES ASSUME Init PROVE RuleInv /\ Story
    BY DEF StoryInv
  <2>1. RuleInv
    BY InitRule
  <2>2. /\ signals = << >> /\ receipts = {} /\ now = 0
        /\ passes = [p \in Passes |-> [todo |-> << >>, oldest |-> 0]]
    BY DEF Init, ObserverInit, NoPass
  <2>3. Timeline /\ PassesShaped
    BY <2>2 DEF Timeline, Numbered, PassesShaped
  <2>4. OldestIsOld /\ OldestIsPast
    BY <2>2 DEF OldestIsOld, OldestIsPast
  <2>5. PassesTell /\ ReceiptsTell
    BY <2>2 DEF PassesTell, ReceiptsTell, OfTimer
  <2> QED
    BY <2>1, <2>3, <2>4, <2>5 DEF Story
<1> QED
  BY <1>1, StoryNext, StoryAgrees, PTL DEF Spec
===============================================================================
