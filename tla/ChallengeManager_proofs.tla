------------------------ MODULE ChallengeManager_proofs ------------------------
(***************************************************************************)
(* A rejected challenge is counted once, a resolved one does not stay in   *)
(* the map, and a settlement has no more challenges of ours than scans     *)
(* raced for it: for any settlements, challenges, scans, passes, crashes.  *)
(***************************************************************************)
EXTENDS ChallengeManager, FiniteSetTheorems, TLAPS

-------------------------------------------------------------------------------
(* The invariant                                                           *)

\* A challenge under way to the chain is new: nobody tracks or checks it, and no
\* other scan posts it.
PostedIsNew ==
    \A x \in Scans :
        /\ scan[x].pc = "analyze" => scan[x].cur \in Targets
        /\ scan[x].pc # "post" => scan[x].id = None
        /\ scan[x].pc = "post" =>
             /\ scan[x].id \in Challenges /\ scan[x].cur \in Targets
             /\ history[scan[x].id].target = scan[x].cur
             /\ history[scan[x].id].status = "pending"
             /\ scan[x].id \notin submitted
             /\ \A p \in Passes : pass[p].cur # scan[x].id
             /\ \A y \in Scans : scan[y].id = scan[x].id => y = x

\* What is tracked or checked was posted once.
TrackedIsKnown ==
    /\ \A c \in submitted : history[c].target # None
    /\ \A p \in Passes :
         /\ pass[p].pc \in {"status", "publish"} <=> pass[p].cur # None
         /\ pass[p].cur # None => history[pass[p].cur].target # None

\* What a pass was told, and what the history says, is the verdict or "pending".
ToldTheVerdict ==
    /\ \A c \in Challenges : history[c].status \in {verdict[c], "pending"}
    /\ \A p \in Passes :
         pass[p].pc = "status" /\ pass[p].req = "applied" =>
             pass[p].reply \in {verdict[pass[p].cur], "pending"}

\* The challenges the history knows to be rejected: each was counted once.
KnownRejected == {c \in Challenges : history[c].status = "rejected"}

CountedInv ==
    /\ IsFiniteSet(Rejected)
    /\ ~overwritten =>
         /\ failed <= Cardinality(KnownRejected)
         /\ published <= Cardinality(KnownRejected)
         /\ \A p \in Passes : pass[p].failed <= Cardinality(KnownRejected)

CInv ==
    /\ TypeOK /\ PostedIsNew /\ TrackedIsKnown /\ NoLeakedResolution
    /\ ToldTheVerdict /\ CountedInv

-------------------------------------------------------------------------------
(* Types                                                                   *)

\* A scan or a pass moves on its own.
LEMMA ScanSet ==
    ASSUME TypeOK, NEW x \in Scans, NEW r \in Scan, scan' = [scan EXCEPT ![x] = r]
    PROVE  /\ scan' \in [Scans -> Scan] /\ scan'[x] = r
           /\ \A y \in Scans : y # x => scan'[y] = scan[y]
BY DEF TypeOK

LEMMA PassSet ==
    ASSUME TypeOK, NEW p \in Passes, NEW r \in Pass, pass' = [pass EXCEPT ![p] = r]
    PROVE  /\ pass' \in [Passes -> Pass] /\ pass'[p] = r
           /\ \A q \in Passes : q # p => pass'[q] = pass[q]
BY DEF TypeOK

LEMMA IdleFacts ==
    /\ IdleScan \in Scan /\ IdleScan.pc = "idle" /\ IdleScan.id = None
    /\ IdlePass \in Pass /\ IdlePass.pc = "idle" /\ IdlePass.cur = None /\ IdlePass.failed = 0
BY DEF IdleScan, Scan, IdlePass, Pass, Request

LEMMA BackFacts ==
    ASSUME TypeOK, NEW x \in Scans
    PROVE  BackToScan(x) \in Scan /\ BackToScan(x).pc = "scan" /\ BackToScan(x).id = None
<1>1. scan[x].todo \in SUBSET Targets
  BY DEF TypeOK, Scan
<1> QED
  BY <1>1 DEF BackToScan, IdleScan, Scan, Request

LEMMA OnwardFacts ==
    ASSUME TypeOK, NEW p \in Passes, NEW c \in Challenges
    PROVE  /\ Onward(p, c) \in Pass /\ Onward(p, c).pc = "scan"
           /\ Onward(p, c).cur = None /\ Onward(p, c).failed = 0
<1>1. pass[p].visited \in SUBSET Challenges /\ pass[p].now \in Nat
  BY DEF TypeOK, Pass
<1> QED
  BY <1>1 DEF Onward, IdlePass, Pass, Request

\* Every challenge in the map, and every one a pass asks about, has an identifier.
LEMMA CurIsChallenge ==
    ASSUME TypeOK, NEW p \in Passes, pass[p].cur # None
    PROVE  pass[p].cur \in Challenges
BY DEF TypeOK, Pass
\* What the history knows to be rejected was rejected, so there is an end to it.
LEMMA KnownFinite ==
    ASSUME CInv
    PROVE  /\ KnownRejected \subseteq Rejected /\ IsFiniteSet(KnownRejected)
           /\ Cardinality(KnownRejected) \in Nat
           /\ Cardinality(KnownRejected) <= Cardinality(Rejected)
           /\ Cardinality(Rejected) \in Nat
<1>1. KnownRejected \subseteq Rejected
  BY DEF CInv, ToldTheVerdict, KnownRejected, Rejected
<1>2. IsFiniteSet(Rejected)
  BY DEF CInv, CountedInv
<1> QED
  BY <1>1, <1>2, FS_Subset, FS_CardinalityType

LEMMA ExaminingFinite ==
    ASSUME NEW t PROVE IsFiniteSet(Examining(t)) /\ Cardinality(Examining(t)) \in Nat
<1>1. Examining(t) \subseteq Scans
  BY DEF Examining
<1> QED
  BY <1>1, ScansAssumption, FS_Subset, FS_CardinalityType

-------------------------------------------------------------------------------
(* Steps of a scan                                                         *)

\* A scan that does not post is nobody else's business.
LEMMA ScanMoves ==
    ASSUME CInv, NEW x \in Scans, NEW r \in Scan, SetScan(x, r), UNCHANGED <<open, verdict, published>>,
           together' \in [Targets -> Nat], entry' \in [Challenges -> Targets \cup {None}],
           r.pc = "analyze" => r.cur \in Targets,
           r.pc # "post" => r.id = None,
           r.pc = "post" => r.id = scan[x].id /\ r.cur = scan[x].cur /\ scan[x].pc = "post"
    PROVE  CInv'
<1>1. /\ scan' = [scan EXCEPT ![x] = r]
      /\ UNCHANGED <<submitted, history, failed, pass, clock, crashes, overwritten>>
  BY DEF SetScan
<1>2. /\ scan' \in [Scans -> Scan] /\ scan'[x] = r
      /\ \A y \in Scans : y # x => scan'[y] = scan[y]
  BY <1>1, ScanSet DEF CInv
<1>3. TypeOK'
  BY <1>1, <1>2 DEF CInv, TypeOK
<1>4. PostedIsNew'
  <2>1. \A y \in Scans : scan'[y].id # None => scan'[y].id = scan[y].id
    BY <1>2
  <2>2. ASSUME NEW y \in Scans
        PROVE  /\ scan'[y].pc = "analyze" => scan'[y].cur \in Targets
               /\ scan'[y].pc # "post" => scan'[y].id = None
               /\ scan'[y].pc = "post" => scan[y].pc = "post" /\ scan'[y].id = scan[y].id
                                          /\ scan'[y].cur = scan[y].cur
    BY <1>2 DEF CInv, PostedIsNew
  <2>3. ASSUME NEW y \in Scans, scan'[y].pc = "post"
        PROVE  /\ scan'[y].id \in Challenges /\ scan'[y].cur \in Targets
               /\ history[scan'[y].id].target = scan'[y].cur
               /\ history[scan'[y].id].status = "pending"
               /\ scan'[y].id \notin submitted
               /\ \A p \in Passes : pass[p].cur # scan'[y].id
               /\ \A z \in Scans : scan[z].id = scan'[y].id => z = y
    BY <2>2, <2>3 DEF CInv, PostedIsNew
  <2>4. ASSUME NEW y \in Scans, scan'[y].pc = "post", NEW z \in Scans, scan'[z].id = scan'[y].id
        PROVE  z = y
    BY <2>1, <2>3, <2>4, NoneAssumption
  <2> QED
    BY <1>1, <2>2, <2>3, <2>4 DEF PostedIsNew
<1>5. TrackedIsKnown' /\ NoLeakedResolution' /\ ToldTheVerdict' /\ CountedInv'
  BY <1>1 DEF CInv, TrackedIsKnown, NoLeakedResolution, ToldTheVerdict, CountedInv, Rejected, KnownRejected
<1> QED
  BY <1>3, <1>4, <1>5 DEF CInv

LEMMA ScanNextKeeps ==
    ASSUME CInv, NEW x \in Scans,
           \/ StartScan(x) \/ Listed(x) \/ EndScan(x)
           \/ \E t \in Targets : SkipTarget(x, t) \/ Analyze(x, t)
           \/ NoChallenge(x) \/ ApplyChallenge(x) \/ ChallengeLost(x)
    PROVE  CInv'
<1>1. TypeOK /\ scan[x] \in Scan /\ scan[x].todo \subseteq Targets /\ open \subseteq Targets
  BY DEF CInv, TypeOK, Scan
<1>2. /\ scan[x].pc = "analyze" => scan[x].cur \in Targets
      /\ scan[x].pc # "post" => scan[x].id = None
  BY DEF CInv, PostedIsNew
<1>3. ASSUME NEW r \in Scan, r.pc \notin {"analyze", "post"}, r.id = None, SetScan(x, r),
             UNCHANGED <<ledgerVars, together>>
      PROVE  CInv'
  BY <1>1, <1>3, ScanMoves DEF ledgerVars, TypeOK
<1>4. CASE StartScan(x)
  <2>1. PICK r : r = [IdleScan EXCEPT !.pc = "list"]
    OBVIOUS
  <2>2. r \in Scan /\ r.pc = "list" /\ r.id = None
    BY <2>1 DEF IdleScan, Scan, Request
  <2> QED
    BY <1>3, <1>4, <2>1, <2>2 DEF StartScan
<1>5. CASE Listed(x)
  <2>1. PICK found \in SUBSET open : SetScan(x, [IdleScan EXCEPT !.pc = "scan", !.todo = found])
    BY <1>5 DEF Listed
  <2>2. PICK r : r = [IdleScan EXCEPT !.pc = "scan", !.todo = found]
    OBVIOUS
  <2>3. r \in Scan /\ r.pc = "scan" /\ r.id = None
    BY <1>1, <2>2 DEF IdleScan, Scan, Request
  <2> QED
    BY <1>3, <1>5, <2>1, <2>2, <2>3 DEF Listed
<1>6. CASE EndScan(x)
  BY <1>3, <1>6, IdleFacts DEF EndScan
<1>7. ASSUME NEW t \in Targets, SkipTarget(x, t) PROVE CInv'
  <2>1. PICK r : r = [scan[x] EXCEPT !.todo = @ \ {t}]
    OBVIOUS
  <2>2. r \in Scan /\ r.pc = "scan" /\ r.id = None
    BY <1>1, <1>2, <1>7, <2>1 DEF SkipTarget, Scan
  <2> QED
    BY <1>3, <1>7, <2>1, <2>2 DEF SkipTarget
<1>8. ASSUME NEW t \in Targets, Analyze(x, t) PROVE CInv'
  <2>1. PICK r : r = [scan[x] EXCEPT !.pc = "analyze", !.todo = @ \ {t}, !.cur = t]
    OBVIOUS
  <2>2. r \in Scan /\ r.pc = "analyze" /\ r.id = None /\ r.cur = t
    BY <1>1, <1>2, <1>8, <2>1 DEF Analyze, Scan
  <2>3. together' \in [Targets -> Nat]
    <3>1. Cardinality(Examining(t)) + 1 \in Nat
      BY ExaminingFinite
    <3> QED
      BY <1>1, <1>8, <3>1 DEF Analyze, TypeOK
  <2> QED
    BY <1>1, <1>8, <2>1, <2>2, <2>3, ScanMoves DEF Analyze, ledgerVars, TypeOK
<1>9. CASE NoChallenge(x)
  BY <1>1, <1>3, <1>9, BackFacts DEF NoChallenge
<1>10. CASE ChallengeLost(x)
  BY <1>1, <1>3, <1>10, BackFacts DEF ChallengeLost
<1>11. CASE ApplyChallenge(x)
  <2>1. PICK r : r = [scan[x] EXCEPT !.req = "applied"]
    OBVIOUS
  <2>2. r \in Scan /\ r.pc = "post" /\ r.id = scan[x].id /\ r.cur = scan[x].cur
    BY <1>1, <1>11, <2>1 DEF ApplyChallenge, Scan, Request
  <2>3. entry' \in [Challenges -> Targets \cup {None}]
    BY <1>1, <1>11 DEF ApplyChallenge, TypeOK, Scan
  <2>4. together' \in [Targets -> Nat]
    BY <1>1, <1>11 DEF ApplyChallenge, TypeOK
  <2> QED
    BY <1>11, <2>1, <2>2, <2>3, <2>4, ScanMoves DEF ApplyChallenge
<1> QED
  BY <1>4, <1>5, <1>6, <1>7, <1>8, <1>9, <1>10, <1>11

\* The identifier of a new challenge is one that nothing knows yet.
LEMMA PostKeeps ==
    ASSUME CInv, NEW x \in Scans, NEW c \in Challenges, PostChallenge(x, c)
    PROVE  CInv'
<1>1. PICK h : h = [target |-> scan[x].cur, status |-> "pending", lastChecked |-> clock]
  OBVIOUS
<1>2. PICK r : r = [scan[x] EXCEPT !.pc = "post", !.id = c, !.req = "sent"]
  OBVIOUS
<1>3. /\ scan[x].pc = "analyze" /\ history[c] = NoHistory
      /\ \A y \in Scans : scan[y].id # c
      /\ history' = [history EXCEPT ![c] = h] /\ scan' = [scan EXCEPT ![x] = r]
      /\ UNCHANGED <<open, entry, verdict, published, submitted, failed, pass, clock, crashes, overwritten, together>>
  BY <1>1, <1>2 DEF PostChallenge, ledgerVars
<1>4. scan[x] \in Scan /\ scan[x].cur \in Targets /\ clock \in Nat /\ TypeOK
  BY <1>3, TimeAssumption DEF CInv, TypeOK, PostedIsNew
<1>5. /\ h \in History /\ h.target = scan[x].cur /\ h.status = "pending"
      /\ NoHistory.target = None /\ NoHistory.status = "pending"
  BY <1>1, <1>4 DEF History, Verdict, NoHistory
<1>6. r \in Scan /\ r.pc = "post" /\ r.id = c /\ r.cur = scan[x].cur
  BY <1>2, <1>4 DEF Scan, Request
<1>7. /\ scan' \in [Scans -> Scan] /\ scan'[x] = r
      /\ \A y \in Scans : y # x => scan'[y] = scan[y]
  BY <1>3, <1>4, <1>6, ScanSet
<1>8. /\ history' \in [Challenges -> History] /\ history'[c] = h
      /\ \A d \in Challenges : d # c => history'[d] = history[d]
  BY <1>3, <1>4, <1>5 DEF TypeOK
<1>9. c \notin submitted /\ \A p \in Passes : pass[p].cur # c
  BY <1>3, <1>5, NoneAssumption DEF CInv, TrackedIsKnown
<1>10. \A d \in Challenges : history'[d].status = history[d].status
  BY <1>3, <1>5, <1>8
<1>11. TypeOK'
  BY <1>3, <1>4, <1>7, <1>8 DEF TypeOK
<1>12. PostedIsNew'
  <2>1. ASSUME NEW y \in Scans, y # x
        PROVE  /\ scan'[y].pc = "analyze" => scan'[y].cur \in Targets
               /\ scan'[y].pc # "post" => scan'[y].id = None
               /\ scan'[y].pc = "post" =>
                    /\ scan'[y].id \in Challenges /\ scan'[y].cur \in Targets
                    /\ history'[scan'[y].id].target = scan'[y].cur
                    /\ history'[scan'[y].id].status = "pending"
                    /\ scan'[y].id \notin submitted'
                    /\ \A p \in Passes : pass'[p].cur # scan'[y].id
                    /\ \A z \in Scans : scan'[z].id = scan'[y].id => z = y
    BY <1>3, <1>6, <1>7, <1>8, <2>1 DEF CInv, PostedIsNew
  <2>2. /\ scan'[x].pc = "post" /\ scan'[x].id = c /\ scan'[x].cur \in Targets
        /\ history'[c].target = scan'[x].cur /\ history'[c].status = "pending"
        /\ c \notin submitted' /\ \A p \in Passes : pass'[p].cur # c
        /\ \A z \in Scans : scan'[z].id = c => z = x
    BY <1>3, <1>4, <1>5, <1>6, <1>7, <1>8, <1>9
  <2> QED
    BY <2>1, <2>2 DEF PostedIsNew
<1>13. TrackedIsKnown'
  BY <1>3, <1>8, <1>9, <1>4 DEF CInv, TrackedIsKnown, TypeOK, Pass
<1>14. NoLeakedResolution' /\ ToldTheVerdict'
  BY <1>3, <1>4, <1>10 DEF CInv, NoLeakedResolution, ToldTheVerdict, TypeOK
<1>15. CountedInv'
  <2>1. KnownRejected' = KnownRejected
    BY <1>10 DEF KnownRejected
  <2> QED
    BY <1>3, <2>1 DEF CInv, CountedInv, Rejected
<1> QED
  BY <1>11, <1>12, <1>13, <1>14, <1>15 DEF CInv

LEMMA PostedKeeps ==
    ASSUME CInv, NEW x \in Scans, ChallengePosted(x)
    PROVE  CInv'
<1>1. PICK c, r : c = scan[x].id /\ r = BackToScan(x)
  OBVIOUS
<1>2. /\ scan[x].pc = "post"
      /\ submitted' = submitted \cup {c} /\ scan' = [scan EXCEPT ![x] = r]
      /\ UNCHANGED <<open, entry, verdict, published, history, failed, pass, clock, crashes, overwritten, together>>
  BY <1>1 DEF ChallengePosted, ledgerVars
<1>3. TypeOK /\ r \in Scan /\ r.pc = "scan" /\ r.id = None
  BY <1>1, BackFacts DEF CInv
<1>4. /\ scan' \in [Scans -> Scan] /\ scan'[x] = r
      /\ \A y \in Scans : y # x => scan'[y] = scan[y]
  BY <1>2, <1>3, ScanSet
<1>5. /\ c \in Challenges /\ scan[x].cur \in Targets /\ history[c].target = scan[x].cur
      /\ history[c].status = "pending" /\ \A y \in Scans : scan[y].id = c => y = x
  BY <1>1, <1>2 DEF CInv, PostedIsNew
<1>6. TypeOK'
  BY <1>2, <1>3, <1>4, <1>5 DEF TypeOK
<1>7. PostedIsNew'
  BY <1>2, <1>3, <1>4, <1>5, NoneAssumption DEF CInv, PostedIsNew
<1>8. TrackedIsKnown' /\ NoLeakedResolution' /\ ToldTheVerdict'
  BY <1>2, <1>5, NoneAssumption DEF CInv, TrackedIsKnown, NoLeakedResolution, ToldTheVerdict
<1>9. CountedInv'
  BY <1>2 DEF CInv, CountedInv, Rejected, KnownRejected
<1> QED
  BY <1>6, <1>7, <1>8, <1>9 DEF CInv

-------------------------------------------------------------------------------
(* Steps of a pass                                                         *)

\* A pass that resolves nothing: what it asks about is tracked or was before.
LEMMA PassMoves ==
    ASSUME CInv, NEW p \in Passes, NEW r \in Pass, SetPass(p, r),
           UNCHANGED <<published, history, submitted, failed, overwritten>>,
           pass[p].pc # "publish",
           r.pc \in {"status", "publish"} <=> r.cur # None,
           r.cur # None => r.cur = pass[p].cur \/ r.cur \in submitted,
           r.failed = pass[p].failed \/ r.failed = 0,
           r.pc = "status" /\ r.req = "applied" => r.reply \in {verdict[r.cur], "pending"}
    PROVE  CInv'
<1>1. /\ pass' = [pass EXCEPT ![p] = r]
      /\ UNCHANGED <<open, entry, verdict, published, history, submitted, failed, scan, clock, crashes, overwritten, together>>
  BY DEF SetPass
<1>2. /\ pass' \in [Passes -> Pass] /\ pass'[p] = r
      /\ \A q \in Passes : q # p => pass'[q] = pass[q]
  BY <1>1, PassSet DEF CInv
<1>3. TypeOK'
  BY <1>1, <1>2 DEF CInv, TypeOK
<1>4. ASSUME NEW x \in Scans, scan[x].pc = "post", NEW q \in Passes
      PROVE  pass'[q].cur # scan[x].id
  BY <1>2, <1>4, NoneAssumption DEF CInv, PostedIsNew
<1>5. PostedIsNew'
  BY <1>1, <1>4 DEF CInv, PostedIsNew
<1>6. TrackedIsKnown'
  BY <1>1, <1>2 DEF CInv, TrackedIsKnown
<1>7. NoLeakedResolution'
  BY <1>1, <1>2 DEF CInv, NoLeakedResolution
<1>8. ToldTheVerdict'
  BY <1>1, <1>2 DEF CInv, ToldTheVerdict
<1>9. CountedInv'
  <2>1. Rejected' = Rejected /\ KnownRejected' = KnownRejected
    BY <1>1 DEF Rejected, KnownRejected
  <2>2. ASSUME ~overwritten
        PROVE  /\ failed <= Cardinality(KnownRejected)
               /\ published <= Cardinality(KnownRejected)
               /\ \A q \in Passes : pass'[q].failed <= Cardinality(KnownRejected)
    <3>1. /\ failed <= Cardinality(KnownRejected) /\ published <= Cardinality(KnownRejected)
          /\ \A q \in Passes : pass[q].failed <= Cardinality(KnownRejected)
      BY <2>2 DEF CInv, CountedInv
    <3>2. Cardinality(KnownRejected) \in Nat
      BY KnownFinite
    <3>3. 0 <= Cardinality(KnownRejected)
      BY <3>2
    <3>4. ASSUME NEW q \in Passes PROVE pass'[q].failed <= Cardinality(KnownRejected)
      BY <1>2, <3>1, <3>3
    <3> QED
      BY <3>1, <3>4
  <2> QED
    BY <1>1, <2>1, <2>2 DEF CInv, CountedInv
<1> QED
  BY <1>3, <1>5, <1>6, <1>7, <1>8, <1>9 DEF CInv

LEMMA PassNextKeeps ==
    ASSUME CInv, NEW p \in Passes,
           \/ StartPass(p) \/ EndPass(p)
           \/ \E c \in Challenges : SkipChallenge(p, c) \/ AskStatus(p, c)
           \/ AnswerStatus(p) \/ LoseStatus(p)
    PROVE  CInv'
<1>1. TypeOK /\ pass[p] \in Pass /\ clock \in Nat
  BY TimeAssumption DEF CInv, TypeOK
<1>2. pass[p].pc \in {"status", "publish"} <=> pass[p].cur # None
  BY DEF CInv, TrackedIsKnown
<1>3. ASSUME NEW r \in Pass, SetPass(p, r), r.pc \notin {"status", "publish"}, r.cur = None, r.failed = 0,
             pass[p].pc # "publish", UNCHANGED <<published, history, submitted, failed, overwritten>>
      PROVE  CInv'
  BY <1>3, PassMoves
<1>4. CASE StartPass(p)
  <2>1. PICK r : r = [IdlePass EXCEPT !.pc = "scan", !.now = clock]
    OBVIOUS
  <2>2. r \in Pass /\ r.pc = "scan" /\ r.cur = None /\ r.failed = 0
    BY <1>1, <2>1 DEF IdlePass, Pass, Request
  <2> QED
    BY <1>3, <1>4, <2>1, <2>2 DEF StartPass
<1>5. CASE EndPass(p)
  BY <1>3, <1>5, IdleFacts DEF EndPass
<1>6. ASSUME NEW c \in Challenges, SkipChallenge(p, c) PROVE CInv'
  BY <1>1, <1>3, <1>6, OnwardFacts DEF SkipChallenge
<1>7. ASSUME NEW c \in Challenges, AskStatus(p, c) PROVE CInv'
  <2>1. PICK o : o = Onward(p, c)
    OBVIOUS
  <2>2. PICK r : r = [o EXCEPT !.pc = "status", !.cur = c, !.req = "sent"]
    OBVIOUS
  <2>3. o \in Pass /\ o.failed = 0
    BY <1>1, <2>1, OnwardFacts
  <2>4. r \in Pass /\ r.pc = "status" /\ r.cur = c /\ r.failed = 0 /\ r.req = "sent"
    BY <2>2, <2>3 DEF Pass, Request
  <2>5. c \in submitted /\ SetPass(p, r) /\ pass[p].pc = "scan" /\ c # None
        /\ UNCHANGED <<published, history, submitted, failed, overwritten>>
    BY <1>7, <2>1, <2>2, NoneAssumption DEF AskStatus, Unvisited
  <2> QED
    BY <2>4, <2>5, PassMoves
<1>8. CASE AnswerStatus(p)
  <2>1. PICK v \in {verdict[pass[p].cur], "pending"} : SetPass(p, [pass[p] EXCEPT !.req = "applied", !.reply = v])
    BY <1>8 DEF AnswerStatus
  <2>2. PICK r : r = [pass[p] EXCEPT !.req = "applied", !.reply = v]
    OBVIOUS
  <2>3. pass[p].pc = "status" /\ pass[p].cur \in Challenges /\ v \in Verdict
    BY <1>1, <1>2, <1>8, CurIsChallenge DEF AnswerStatus, TypeOK, Verdict
  <2>4. /\ r \in Pass /\ r.pc = "status" /\ r.cur = pass[p].cur /\ r.failed = pass[p].failed
        /\ r.reply = v
    BY <1>1, <2>2, <2>3 DEF Pass, Request
  <2>5. SetPass(p, r) /\ UNCHANGED <<published, history, submitted, failed, overwritten>>
    BY <1>8, <2>1, <2>2 DEF AnswerStatus
  <2> QED
    BY <1>2, <2>1, <2>3, <2>4, <2>5, PassMoves
<1>9. CASE LoseStatus(p)
  <2>1. pass[p].cur \in Challenges /\ pass[p].pc = "status"
    BY <1>1, <1>2, <1>9, CurIsChallenge DEF LoseStatus
  <2> QED
    BY <1>1, <1>3, <1>9, <2>1, OnwardFacts DEF LoseStatus
<1> QED
  BY <1>4, <1>5, <1>6, <1>7, <1>8, <1>9


\* What ReadStatus does whatever it was told: the history object takes the answer.
LEMMA ReadKeeps ==
    ASSUME CInv, NEW p \in Passes, ReadStatus(p)
    PROVE  CInv'
<1>1. PICK c : c = pass[p].cur
  OBVIOUS
<1>2. pass[p].pc = "status" /\ pass[p].req = "applied" /\ TypeOK
  BY DEF ReadStatus, CInv
<1>3. c # None /\ c \in Challenges /\ history[c].target # None
  BY <1>1, <1>2, CurIsChallenge DEF CInv, TrackedIsKnown
<1>4. /\ pass[p] \in Pass /\ history[c] \in History
      /\ verdict[c] \in Verdict
  BY <1>2, <1>3 DEF TypeOK
<1>5. /\ pass[p].reply \in {verdict[c], "pending"} /\ pass[p].reply \in Verdict
      /\ history[c].status \in {verdict[c], "pending"}
  <2>1. pass[p].reply \in {verdict[c], "pending"} /\ history[c].status \in {verdict[c], "pending"}
    BY <1>1, <1>2, <1>3 DEF CInv, ToldTheVerdict
  <2> QED
    BY <1>4, <2>1 DEF Verdict
<1>6. PICK h : h = [history[c] EXCEPT !.status = pass[p].reply, !.lastChecked = pass[p].now]
  OBVIOUS
<1>7. h \in History /\ h.target = history[c].target /\ h.status = pass[p].reply
  BY <1>4, <1>5, <1>6 DEF History, Pass
<1>8. history' = [history EXCEPT ![c] = h] /\ overwritten' = (overwritten \/ Overwrites(p))
  BY <1>1, <1>6 DEF ReadStatus, Checked
<1>9. /\ history' \in [Challenges -> History] /\ history'[c] = h
      /\ \A d \in Challenges : d # c => history'[d] = history[d]
  BY <1>2, <1>3, <1>7, <1>8 DEF TypeOK
<1>10. PICK r : /\ pass' = [pass EXCEPT ![p] = r] /\ r \in Pass
                /\ UNCHANGED <<open, entry, verdict, published, scan, clock, crashes, together>>
                /\ \/ /\ ~Resolves(p) /\ r.pc = "scan" /\ r.cur = None /\ r.failed = 0
                      /\ UNCHANGED <<submitted, failed>>
                   \/ /\ pass[p].reply = "upheld" /\ r.pc = "scan" /\ r.cur = None /\ r.failed = 0
                      /\ submitted' = submitted \ {c} /\ UNCHANGED failed
                   \/ /\ Resolves(p) /\ pass[p].reply = "rejected"
                      /\ r.pc = "publish" /\ r.cur = c /\ r.failed = failed + 1
                      /\ failed' = failed + 1 /\ UNCHANGED submitted
  <2>1. UNCHANGED published
    BY DEF ReadStatus
  <2>2. PICK o : o = Onward(p, c)
    OBVIOUS
  <2>3. o \in Pass /\ o.pc = "scan" /\ o.cur = None /\ o.failed = 0
    BY <1>2, <1>3, <2>2, OnwardFacts
  <2>4. CASE ~Resolves(p) /\ SetPass(p, Onward(p, pass[p].cur)) /\ UNCHANGED <<submitted, failed>>
    BY <1>1, <2>1, <2>2, <2>3, <2>4 DEF SetPass
  <2>5. CASE /\ Resolves(p) /\ pass[p].reply = "upheld" /\ submitted' = submitted \ {pass[p].cur}
             /\ SetPass(p, Onward(p, pass[p].cur)) /\ UNCHANGED failed
    BY <1>1, <2>1, <2>2, <2>3, <2>5 DEF SetPass
  <2>6. CASE /\ Resolves(p) /\ pass[p].reply = "rejected" /\ failed' = failed + 1
             /\ SetPass(p, [pass[p] EXCEPT !.pc = "publish", !.req = "sent", !.failed = failed'])
             /\ UNCHANGED submitted
    <3>1. PICK r : r = [pass[p] EXCEPT !.pc = "publish", !.req = "sent", !.failed = failed + 1]
      OBVIOUS
    <3>2. failed + 1 \in Nat
      BY <1>2 DEF TypeOK
    <3>3. r \in Pass /\ r.pc = "publish" /\ r.cur = c /\ r.failed = failed + 1
      BY <1>1, <1>4, <3>1, <3>2 DEF Pass, Request
    <3>4. SetPass(p, r)
      BY <2>6, <3>1
    <3> QED
      BY <2>1, <2>6, <3>3, <3>4 DEF SetPass
  <2> QED
    BY <2>4, <2>5, <2>6 DEF ReadStatus
<1>11. /\ pass' \in [Passes -> Pass] /\ pass'[p] = r
       /\ \A q \in Passes : q # p => pass'[q] = pass[q]
  BY <1>2, <1>10, PassSet
<1>12. submitted' \subseteq submitted /\ submitted' \in SUBSET Challenges /\ failed' \in Nat
  BY <1>2, <1>10 DEF TypeOK
<1>13. TypeOK'
  <2>1. overwritten' \in BOOLEAN
    BY <1>2, <1>8 DEF TypeOK, Overwrites
  <2> QED
    BY <1>2, <1>9, <1>10, <1>11, <1>12, <2>1 DEF TypeOK
<1>14. PostedIsNew'
  <2>1. ASSUME NEW x \in Scans, scan[x].pc = "post"
        PROVE  /\ scan[x].id \in Challenges /\ scan[x].cur \in Targets
               /\ history'[scan[x].id].target = scan[x].cur
               /\ history'[scan[x].id].status = "pending"
               /\ scan[x].id \notin submitted'
               /\ \A q \in Passes : pass'[q].cur # scan[x].id
               /\ \A y \in Scans : scan[y].id = scan[x].id => y = x
    <3>1. /\ scan[x].id \in Challenges /\ scan[x].cur \in Targets
          /\ history[scan[x].id].target = scan[x].cur
          /\ history[scan[x].id].status = "pending"
          /\ scan[x].id \notin submitted
          /\ \A q \in Passes : pass[q].cur # scan[x].id
          /\ \A y \in Scans : scan[y].id = scan[x].id => y = x
      BY <2>1 DEF CInv, PostedIsNew
    <3>2. scan[x].id # c /\ scan[x].id # None
      BY <1>1, <3>1, NoneAssumption
    <3> QED
      BY <1>9, <1>10, <1>11, <1>12, <3>1, <3>2
  <2> QED
    BY <1>10, <2>1 DEF CInv, PostedIsNew
<1>15. TrackedIsKnown'
  <2>1. ASSUME NEW d \in Challenges, history[d].target # None PROVE history'[d].target # None
    BY <1>7, <1>9, <2>1
  <2>2. \A d \in submitted' : history'[d].target # None
    BY <1>2, <1>12, <2>1 DEF CInv, TrackedIsKnown, TypeOK
  <2>3. ASSUME NEW q \in Passes
        PROVE  /\ pass'[q].pc \in {"status", "publish"} <=> pass'[q].cur # None
               /\ pass'[q].cur # None => history'[pass'[q].cur].target # None
    <3>1. CASE q = p
      BY <1>3, <1>10, <1>11, <2>1, <3>1
    <3>2. CASE q # p
      BY <1>2, <1>11, <2>1, <3>2, CurIsChallenge DEF CInv, TrackedIsKnown
    <3> QED
      BY <3>1, <3>2
  <2> QED
    BY <2>2, <2>3 DEF TrackedIsKnown
<1>16. NoLeakedResolution'
  <2> SUFFICES ASSUME NEW d \in submitted', history'[d].status # "pending"
               PROVE  \E q \in Passes : pass'[q].pc = "publish" /\ pass'[q].cur = d
    BY DEF NoLeakedResolution
  <2>1. d \in submitted /\ d \in Challenges
    BY <1>2, <1>12 DEF TypeOK
  <2>2. CASE history[d].status # "pending"
    <3>1. PICK q \in Passes : pass[q].pc = "publish" /\ pass[q].cur = d
      BY <2>1, <2>2 DEF CInv, NoLeakedResolution
    <3> QED
      BY <1>2, <1>11, <3>1
  <2>3. CASE history[d].status = "pending"
    <3>1. d = c /\ pass[p].reply # "pending"
      BY <1>7, <1>9, <2>1, <2>3
    <3>2. Resolves(p)
      BY <1>1, <2>3, <3>1 DEF Resolves
    <3> QED
      BY <1>10, <1>11, <3>1, <3>2
  <2> QED
    BY <2>2, <2>3
<1>17. ToldTheVerdict'
  <2>1. \A d \in Challenges : history'[d].status \in {verdict[d], "pending"}
    BY <1>5, <1>7, <1>9 DEF CInv, ToldTheVerdict
  <2>2. \A q \in Passes : pass'[q].pc = "status" => pass'[q] = pass[q]
    BY <1>10, <1>11
  <2> QED
    BY <1>10, <2>1, <2>2 DEF CInv, ToldTheVerdict
<1>18. CountedInv'
  <2>1. Rejected' = Rejected
    BY <1>10 DEF Rejected
  <2>2. PICK K : K = KnownRejected'
    OBVIOUS
  <2>3. K \subseteq Rejected
    BY <1>10, <1>17, <2>2 DEF ToldTheVerdict, KnownRejected, Rejected
  <2>4. IsFiniteSet(K) /\ Cardinality(K) \in Nat /\ IsFiniteSet(Rejected)
    BY <2>3, FS_Subset, FS_CardinalityType DEF CInv, CountedInv
  <2>5. ASSUME ~overwritten'
        PROVE  /\ failed' <= Cardinality(K) /\ published' <= Cardinality(K)
               /\ \A q \in Passes : pass'[q].failed <= Cardinality(K)
    <3>1. ~overwritten /\ ~Overwrites(p)
      BY <1>8, <2>5
    <3>2. /\ failed <= Cardinality(KnownRejected) /\ published <= Cardinality(KnownRejected)
          /\ \A q \in Passes : pass[q].failed <= Cardinality(KnownRejected)
      BY <3>1 DEF CInv, CountedInv
    <3>3. KnownRejected \subseteq K
      BY <1>1, <1>5, <1>7, <1>9, <2>2, <3>1 DEF KnownRejected, Overwrites
    <3>4. Cardinality(KnownRejected) <= Cardinality(K) /\ Cardinality(KnownRejected) \in Nat
      BY <2>4, <3>3, KnownFinite, FS_Subset
    <3>5. /\ failed \in Nat /\ published \in Nat /\ \A q \in Passes : pass[q].failed \in Nat
      BY <1>2 DEF TypeOK, Pass
    <3>6. /\ failed <= Cardinality(K) /\ published <= Cardinality(K)
          /\ \A q \in Passes : pass[q].failed <= Cardinality(K)
      BY <2>4, <3>2, <3>4, <3>5
    <3>7. 0 <= Cardinality(K)
      BY <2>4
    <3>8. CASE Resolves(p) /\ pass[p].reply = "rejected"
      <4>1. c \in K /\ c \notin KnownRejected
        BY <1>1, <1>3, <1>7, <1>9, <2>2, <3>8 DEF KnownRejected, Resolves
      <4>2. PICK L : L = KnownRejected \cup {c}
        OBVIOUS
      <4>3. Cardinality(L) = Cardinality(KnownRejected) + 1
        BY <4>1, <4>2, KnownFinite, FS_AddElement
      <4>4. L \subseteq K
        BY <3>3, <4>1, <4>2
      <4>5. Cardinality(L) <= Cardinality(K)
        BY <2>4, <4>4, FS_Subset
      <4>6. failed + 1 <= Cardinality(K)
        BY <2>4, <3>2, <3>4, <3>5, <4>3, <4>5
      <4>7. ASSUME NEW q \in Passes PROVE pass'[q].failed <= Cardinality(K)
        BY <1>10, <1>11, <3>6, <3>7, <4>6
      <4>8. failed' <= Cardinality(K) /\ published' <= Cardinality(K)
        BY <1>10, <3>6, <4>6
      <4> QED
        BY <4>7, <4>8
    <3>9. CASE ~(Resolves(p) /\ pass[p].reply = "rejected")
      <4>1. UNCHANGED <<failed, published>> /\ r.failed = 0
        BY <1>10, <3>9
      <4>2. ASSUME NEW q \in Passes PROVE pass'[q].failed <= Cardinality(K)
        BY <1>11, <3>6, <3>7, <4>1
      <4> QED
        BY <3>6, <4>1, <4>2
    <3> QED
      BY <3>8, <3>9
  <2> QED
    BY <2>1, <2>2, <2>4, <2>5 DEF CountedInv
<1> QED
  BY <1>13, <1>14, <1>15, <1>16, <1>17, <1>18 DEF CInv


\* The chain takes the count the pass was sent with.
LEMMA PublishKeeps ==
    ASSUME CInv, NEW p \in Passes, ApplyPublish(p)
    PROVE  CInv'
<1>1. PICK r : r = [pass[p] EXCEPT !.req = "applied"]
  OBVIOUS
<1>2. TypeOK /\ pass[p] \in Pass /\ pass[p].pc = "publish"
  BY DEF ApplyPublish, CInv, TypeOK
<1>3. r \in Pass /\ r.pc = "publish" /\ r.cur = pass[p].cur /\ r.failed = pass[p].failed
  BY <1>1, <1>2 DEF Pass, Request
<1>4. /\ pass' = [pass EXCEPT ![p] = r] /\ published' = pass[p].failed
      /\ UNCHANGED <<open, entry, verdict, history, submitted, failed, scan, clock, crashes, overwritten, together>>
  BY <1>1 DEF ApplyPublish, SetPass
<1>5. /\ pass' \in [Passes -> Pass] /\ pass'[p] = r
      /\ \A q \in Passes : q # p => pass'[q] = pass[q]
  BY <1>2, <1>3, <1>4, PassSet
<1>6. \A q \in Passes : /\ pass'[q].pc = pass[q].pc /\ pass'[q].cur = pass[q].cur
                        /\ pass'[q].failed = pass[q].failed
                        /\ pass'[q].pc = "status" => pass'[q] = pass[q]
  BY <1>2, <1>3, <1>5
<1>7. TypeOK'
  <2>1. published' \in Nat
    BY <1>2, <1>4 DEF Pass
  <2> QED
    BY <1>2, <1>4, <1>5, <2>1 DEF TypeOK
<1>8. PostedIsNew' /\ TrackedIsKnown' /\ NoLeakedResolution'
  BY <1>4, <1>6 DEF CInv, PostedIsNew, TrackedIsKnown, NoLeakedResolution
<1>9. ToldTheVerdict'
  BY <1>4, <1>6 DEF CInv, ToldTheVerdict
<1>10. CountedInv'
  <2>1. Rejected' = Rejected /\ KnownRejected' = KnownRejected
    BY <1>4 DEF Rejected, KnownRejected
  <2> QED
    BY <1>4, <1>6, <2>1 DEF CInv, CountedInv
<1> QED
  BY <1>7, <1>8, <1>9, <1>10 DEF CInv

LEMMA EndPublishKeeps ==
    ASSUME CInv, NEW p \in Passes, EndPublish(p)
    PROVE  CInv'
<1>1. PICK c, r : c = pass[p].cur /\ r = Onward(p, c)
  OBVIOUS
<1>2. TypeOK /\ pass[p].pc = "publish" /\ c # None /\ c \in Challenges
  BY <1>1, CurIsChallenge DEF EndPublish, CInv, TrackedIsKnown
<1>3. r \in Pass /\ r.pc = "scan" /\ r.cur = None /\ r.failed = 0
  BY <1>1, <1>2, OnwardFacts
<1>4. /\ pass' = [pass EXCEPT ![p] = r] /\ submitted' = submitted \ {c}
      /\ UNCHANGED <<open, entry, verdict, published, history, failed, scan, clock, crashes, overwritten, together>>
  BY <1>1 DEF EndPublish, SetPass
<1>5. /\ pass' \in [Passes -> Pass] /\ pass'[p] = r
      /\ \A q \in Passes : q # p => pass'[q] = pass[q]
  BY <1>2, <1>3, <1>4, PassSet
<1>6. TypeOK'
  BY <1>2, <1>4, <1>5 DEF TypeOK
<1>7. PostedIsNew'
  <2>1. ASSUME NEW x \in Scans, scan[x].pc = "post", NEW q \in Passes
        PROVE  pass'[q].cur # scan[x].id
    BY <1>3, <1>5, <2>1, NoneAssumption DEF CInv, PostedIsNew
  <2> QED
    BY <1>4, <2>1 DEF CInv, PostedIsNew
<1>8. TrackedIsKnown' /\ ToldTheVerdict'
  BY <1>3, <1>4, <1>5 DEF CInv, TrackedIsKnown, ToldTheVerdict
<1>9. NoLeakedResolution'
  <2> SUFFICES ASSUME NEW d \in submitted', history'[d].status # "pending"
               PROVE  \E q \in Passes : pass'[q].pc = "publish" /\ pass'[q].cur = d
    BY DEF NoLeakedResolution
  <2>1. d \in submitted /\ d # c /\ history[d].status # "pending"
    BY <1>4
  <2>2. PICK q \in Passes : pass[q].pc = "publish" /\ pass[q].cur = d
    BY <2>1 DEF CInv, NoLeakedResolution
  <2> QED
    BY <1>1, <1>5, <2>1, <2>2
<1>10. CountedInv'
  <2>1. Rejected' = Rejected /\ KnownRejected' = KnownRejected
    BY <1>4 DEF Rejected, KnownRejected
  <2>2. 0 <= Cardinality(KnownRejected)
    BY KnownFinite
  <2> QED
    BY <1>3, <1>4, <1>5, <2>1, <2>2 DEF CInv, CountedInv
<1> QED
  BY <1>6, <1>7, <1>8, <1>9, <1>10 DEF CInv

-------------------------------------------------------------------------------
(* The environment                                                         *)

LEMMA DecideKeeps ==
    ASSUME CInv, NEW c \in Challenges, NEW v \in Verdict, Decide(c, v)
    PROVE  CInv'
<1>1. /\ verdict[c] = "pending" /\ verdict' = [verdict EXCEPT ![c] = v]
      /\ UNCHANGED <<open, entry, published, history, submitted, failed, scan, pass, clock, crashes, overwritten, together>>
  BY DEF Decide
<1>2. /\ verdict' \in [Challenges -> Verdict] /\ verdict'[c] = v
      /\ \A d \in Challenges : d # c => verdict'[d] = verdict[d]
  BY <1>1 DEF CInv, TypeOK
<1>3. TypeOK'
  BY <1>1, <1>2 DEF CInv, TypeOK
<1>4. PostedIsNew' /\ TrackedIsKnown' /\ NoLeakedResolution'
  BY <1>1 DEF CInv, PostedIsNew, TrackedIsKnown, NoLeakedResolution
<1>5. ToldTheVerdict'
  <2>1. ASSUME NEW d \in Challenges PROVE history[d].status \in {verdict'[d], "pending"}
    BY <1>1, <1>2 DEF CInv, ToldTheVerdict
  <2>2. ASSUME NEW p \in Passes, pass[p].pc = "status", pass[p].req = "applied"
        PROVE  pass[p].reply \in {verdict'[pass[p].cur], "pending"}
    <3>1. pass[p].reply \in {verdict[pass[p].cur], "pending"} /\ pass[p].cur \in Challenges
      BY <2>2, CurIsChallenge DEF CInv, ToldTheVerdict, TrackedIsKnown
    <3> QED
      BY <1>1, <1>2, <3>1
  <2> QED
    BY <1>1, <2>1, <2>2 DEF ToldTheVerdict
<1>6. CountedInv'
  <2>1. KnownRejected' = KnownRejected
    BY <1>1 DEF KnownRejected
  <2>2. Rejected' = Rejected \/ Rejected' = Rejected \cup {c}
    BY <1>1, <1>2 DEF Rejected
  <2>3. IsFiniteSet(Rejected')
    BY <2>2, FS_AddElement DEF CInv, CountedInv
  <2> QED
    BY <1>1, <2>1, <2>3 DEF CInv, CountedInv
<1> QED
  BY <1>3, <1>4, <1>5, <1>6 DEF CInv

LEMMA RestartKeeps ==
    ASSUME CInv, Restart
    PROVE  CInv'
<1>1. /\ submitted' = {} /\ scan' = [x \in Scans |-> IdleScan] /\ pass' = [p \in Passes |-> IdlePass]
      /\ failed' \in {published, 0} /\ crashes' = crashes + 1
      /\ UNCHANGED <<open, entry, verdict, published, history, clock, overwritten, together>>
  BY DEF Restart, ledgerVars
<1>2. TypeOK'
  BY <1>1, IdleFacts DEF CInv, TypeOK
<1>3. PostedIsNew' /\ TrackedIsKnown' /\ NoLeakedResolution' /\ ToldTheVerdict'
  BY <1>1, IdleFacts DEF CInv, PostedIsNew, TrackedIsKnown, NoLeakedResolution, ToldTheVerdict
<1>4. CountedInv'
  <2>1. Rejected' = Rejected /\ KnownRejected' = KnownRejected
    BY <1>1 DEF Rejected, KnownRejected
  <2>2. 0 <= Cardinality(KnownRejected)
    BY KnownFinite
  <2> QED
    BY <1>1, <2>1, <2>2, IdleFacts DEF CInv, CountedInv
<1> QED
  BY <1>2, <1>3, <1>4 DEF CInv

LEMMA RestKeeps ==
    ASSUME CInv, Tick \/ (\E t \in Targets : CloseTarget(t)) \/ UNCHANGED vars
    PROVE  CInv'
<1>1. UNCHANGED <<entry, verdict, published, history, submitted, failed, scan, pass, crashes, overwritten, together>>
  BY DEF Tick, CloseTarget, vars, ledgerVars
<1>2. open' \subseteq open /\ clock' \in 0..MaxClock
  BY TimeAssumption DEF CInv, TypeOK, Tick, CloseTarget, vars, ledgerVars
<1>3. TypeOK'
  BY <1>1, <1>2 DEF CInv, TypeOK
<1>4. PostedIsNew' /\ TrackedIsKnown' /\ NoLeakedResolution' /\ ToldTheVerdict'
  BY <1>1 DEF CInv, PostedIsNew, TrackedIsKnown, NoLeakedResolution, ToldTheVerdict
<1>5. CountedInv'
  BY <1>1 DEF CInv, CountedInv, Rejected, KnownRejected
<1> QED
  BY <1>3, <1>4, <1>5 DEF CInv

LEMMA InitCInv == Init => CInv
<1> SUFFICES ASSUME Init PROVE CInv
  OBVIOUS
<1>0. NoHistory \in History /\ "pending" \in Verdict /\ 0 \in 0..MaxClock
  BY TimeAssumption DEF NoHistory, History, Verdict
<1>1. TypeOK
  BY <1>0, IdleFacts DEF Init, TypeOK
<1>2. PostedIsNew /\ TrackedIsKnown /\ NoLeakedResolution /\ ToldTheVerdict
  BY IdleFacts DEF Init, PostedIsNew, TrackedIsKnown, NoLeakedResolution, ToldTheVerdict, NoHistory
<1>3. CountedInv
  <2>1. Rejected = {} /\ KnownRejected = {}
    BY DEF Init, Rejected, KnownRejected, NoHistory
  <2>2. IsFiniteSet(Rejected) /\ Cardinality(KnownRejected) = 0
    BY <2>1, FS_EmptySet
  <2>3. failed = 0 /\ published = 0 /\ \A p \in Passes : pass[p].failed = 0
    BY IdleFacts DEF Init
  <2> QED
    BY <2>2, <2>3 DEF CountedInv
<1> QED
  BY <1>1, <1>2, <1>3 DEF CInv

LEMMA NextCInv == CInv /\ [Next]_vars => CInv'
<1> SUFFICES ASSUME CInv, [Next]_vars PROVE CInv'
  OBVIOUS
<1>1. ASSUME NEW x \in Scans, ScanNext(x) PROVE CInv'
  BY <1>1, ScanNextKeeps, PostKeeps, PostedKeeps DEF ScanNext
<1>2. ASSUME NEW p \in Passes, PassNext(p) PROVE CInv'
  BY <1>2, PassNextKeeps, ReadKeeps, PublishKeeps, EndPublishKeeps DEF PassNext
<1>3. CASE EnvNext
  BY <1>3, DecideKeeps, RestKeeps, RestartKeeps DEF EnvNext
<1>4. CASE UNCHANGED vars
  BY <1>4, RestKeeps
<1> QED
  BY <1>1, <1>2, <1>3, <1>4 DEF Next

-------------------------------------------------------------------------------
(* The theorems                                                            *)

\* The node and the chain count no more failed challenges than there are
\* rejected ones, however passes overlap, unless an answer taken before the
\* verdict was read after it (ChallengeManager.ts:159-226).
THEOREM FailuresCountedOnceAlways == Spec => []FailuresCountedOnce
<1>1. CInv => FailuresCountedOnce
  <2> SUFFICES ASSUME CInv, ~overwritten
               PROVE  failed <= Cardinality(Rejected) /\ published <= Cardinality(Rejected)
    BY DEF FailuresCountedOnce
  <2>1. failed <= Cardinality(KnownRejected) /\ published <= Cardinality(KnownRejected)
    BY DEF CInv, CountedInv
  <2>2. failed \in Nat /\ published \in Nat
    BY DEF CInv, TypeOK
  <2> QED
    BY <2>1, <2>2, KnownFinite
<1> QED
  BY <1>1, InitCInv, NextCInv, PTL DEF Spec

\* A challenge whose resolution was seen is in the map only until the pass that
\* saw it has published the count (ChallengeManager.ts:176-226).
THEOREM NoLeakedResolutionAlways == Spec => []NoLeakedResolution
<1>1. CInv => NoLeakedResolution
  BY DEF CInv
<1> QED
  BY <1>1, InitCInv, NextCInv, PTL DEF Spec

-------------------------------------------------------------------------------
(* Challenges of one settlement                                            *)

\* Tracked challenges of a settlement and the scans still at it: together they are
\* no more than the scans that were at it when the last of them looked at the map.
RacedInv ==
    \A t \in Targets : Cardinality(TrackedOf(t)) + Cardinality(Examining(t)) <= together[t]

DInv == CInv /\ IsFiniteSet(submitted) /\ RacedInv

LEMMA TrackedFinite ==
    ASSUME IsFiniteSet(submitted), NEW t
    PROVE  IsFiniteSet(TrackedOf(t)) /\ Cardinality(TrackedOf(t)) \in Nat
<1>1. TrackedOf(t) \subseteq submitted
  BY DEF TrackedOf
<1> QED
  BY <1>1, FS_Subset, FS_CardinalityType

\* A step that begins no examination and adds nothing to the map.
LEMMA DInvShrinks ==
    ASSUME DInv, CInv', submitted' \subseteq submitted, together' = together,
           \A c \in Challenges : history[c].target # None => history'[c].target = history[c].target,
           \A x \in Scans : scan'[x].pc \in {"analyze", "post"} =>
               scan[x].pc \in {"analyze", "post"} /\ scan'[x].cur = scan[x].cur
    PROVE  DInv'
<1>1. \A c \in submitted : c \in Challenges /\ history[c].target # None
  BY DEF DInv, CInv, TypeOK, TrackedIsKnown
<1>2. IsFiniteSet(submitted) /\ IsFiniteSet(submitted')
  BY FS_Subset DEF DInv
<1>3. ASSUME NEW t \in Targets
      PROVE  (Cardinality(TrackedOf(t)) + Cardinality(Examining(t)) <= together[t])'
  <2>1. TrackedOf(t)' \subseteq TrackedOf(t) /\ Examining(t)' \subseteq Examining(t)
    BY <1>1 DEF TrackedOf, Examining
  <2>2. PICK a, b, e, g : a = TrackedOf(t) /\ b = TrackedOf(t)' /\ e = Examining(t) /\ g = Examining(t)'
    OBVIOUS
  <2>3. IsFiniteSet(a) /\ IsFiniteSet(e)
    BY <1>2, <2>2, TrackedFinite, ExaminingFinite
  <2>4. /\ Cardinality(a) \in Nat /\ Cardinality(b) \in Nat /\ Cardinality(b) <= Cardinality(a)
        /\ Cardinality(e) \in Nat /\ Cardinality(g) \in Nat /\ Cardinality(g) <= Cardinality(e)
    BY <2>1, <2>2, <2>3, FS_Subset, FS_CardinalityType
  <2>5. Cardinality(a) + Cardinality(e) <= together[t] /\ together[t] \in Nat
    BY <2>2 DEF DInv, RacedInv, CInv, TypeOK
  <2>6. Cardinality(b) + Cardinality(g) <= together[t]
    BY <2>4, <2>5
  <2> QED
    BY <2>2, <2>6
<1>4. RacedInv'
  BY <1>3 DEF RacedInv
<1> QED
  BY <1>2, <1>4 DEF DInv

\* A scan that finds no challenge of a settlement joins the ones that are at it.
LEMMA AnalyzeCounts ==
    ASSUME DInv, CInv', NEW x \in Scans, NEW t \in Targets, Analyze(x, t)
    PROVE  DInv'
<1>1. PICK r : r = [scan[x] EXCEPT !.pc = "analyze", !.todo = @ \ {t}, !.cur = t]
  OBVIOUS
<1>2. /\ scan[x].pc = "scan" /\ ~Challenged(t) /\ scan' = [scan EXCEPT ![x] = r]
      /\ together' = [together EXCEPT ![t] = Cardinality(Examining(t)) + 1]
      /\ submitted' = submitted /\ history' = history
  BY <1>1 DEF Analyze, SetScan
<1>3. TypeOK /\ r.pc = "analyze" /\ r.cur = t
  BY <1>1 DEF DInv, CInv, TypeOK, Scan
<1>4. scan'[x] = r /\ \A y \in Scans : y # x => scan'[y] = scan[y]
  BY <1>2, <1>3 DEF TypeOK
<1>5. \A u \in Targets : TrackedOf(u)' = TrackedOf(u)
  BY <1>2 DEF TrackedOf
<1>6. Cardinality(TrackedOf(t)') = 0
  BY <1>2, <1>5, FS_EmptySet DEF Challenged, TrackedOf
<1>7. x \notin Examining(t) /\ Examining(t)' = Examining(t) \cup {x}
  BY <1>2, <1>3, <1>4 DEF Examining
<1>8. Cardinality(Examining(t)') = Cardinality(Examining(t)) + 1
  BY <1>7, ExaminingFinite, FS_AddElement
<1>9. /\ together'[t] = Cardinality(Examining(t)) + 1
      /\ \A u \in Targets : u # t => together'[u] = together[u]
  BY <1>2, <1>3 DEF TypeOK
<1>10. ASSUME NEW u \in Targets
       PROVE  (Cardinality(TrackedOf(u)) + Cardinality(Examining(u)) <= together[u])'
  <2>1. CASE u = t
    BY <1>6, <1>8, <1>9, <2>1, ExaminingFinite
  <2>2. CASE u # t
    <3>1. Examining(u)' = Examining(u)
      BY <1>2, <1>3, <1>4, <2>2 DEF Examining
    <3> QED
      BY <1>5, <1>9, <2>2, <3>1 DEF DInv, RacedInv
  <2> QED
    BY <2>1, <2>2
<1>11. RacedInv'
  BY <1>10 DEF RacedInv
<1> QED
  BY <1>2, <1>11 DEF DInv

\* A challenge enters the map as the scan that posted it ends with the settlement.
LEMMA PostedCounts ==
    ASSUME DInv, CInv', NEW x \in Scans, ChallengePosted(x)
    PROVE  DInv'
<1>1. PICK c, t, r : c = scan[x].id /\ t = scan[x].cur /\ r = BackToScan(x)
  OBVIOUS
<1>2. /\ scan[x].pc = "post" /\ submitted' = submitted \cup {c} /\ history' = history
      /\ scan' = [scan EXCEPT ![x] = r] /\ together' = together
  BY <1>1 DEF ChallengePosted
<1>3. TypeOK /\ IsFiniteSet(submitted) /\ r.pc = "scan"
  BY <1>1, BackFacts DEF DInv, CInv
<1>4. /\ history[c].target = t /\ c \notin submitted /\ t \in Targets
  BY <1>1, <1>2 DEF DInv, CInv, PostedIsNew
<1>5. scan'[x] = r /\ \A y \in Scans : y # x => scan'[y] = scan[y]
  BY <1>2, <1>3 DEF TypeOK
<1>6. IsFiniteSet(submitted')
  BY <1>2, <1>3, FS_AddElement
<1>7. x \in Examining(t) /\ Examining(t)' = Examining(t) \ {x}
  BY <1>1, <1>2, <1>3, <1>5 DEF Examining
<1>8. c \notin TrackedOf(t) /\ TrackedOf(t)' = TrackedOf(t) \cup {c}
  BY <1>2, <1>4 DEF TrackedOf
<1>9. Cardinality(Examining(t)') = Cardinality(Examining(t)) - 1
  BY <1>7, ExaminingFinite, FS_RemoveElement
<1>10. Cardinality(TrackedOf(t)') = Cardinality(TrackedOf(t)) + 1
  BY <1>3, <1>8, TrackedFinite, FS_AddElement
<1>11. ASSUME NEW u \in Targets
       PROVE  (Cardinality(TrackedOf(u)) + Cardinality(Examining(u)) <= together[u])'
  <2>1. Cardinality(TrackedOf(u)) + Cardinality(Examining(u)) <= together[u] /\ together[u] \in Nat
    BY <1>3 DEF DInv, RacedInv, TypeOK
  <2>2. Cardinality(TrackedOf(u)) \in Nat /\ Cardinality(Examining(u)) \in Nat
    BY <1>3, TrackedFinite, ExaminingFinite
  <2>3. CASE u = t
    BY <1>2, <1>9, <1>10, <2>1, <2>2, <2>3
  <2>4. CASE u # t
    <3>1. Examining(u)' = Examining(u)
      BY <1>1, <1>3, <1>5, <2>4 DEF Examining
    <3>2. TrackedOf(u)' = TrackedOf(u)
      BY <1>2, <1>4, <2>4 DEF TrackedOf
    <3> QED
      BY <1>2, <2>1, <3>1, <3>2
  <2> QED
    BY <2>3, <2>4
<1>12. RacedInv'
  BY <1>11 DEF RacedInv
<1> QED
  BY <1>6, <1>12 DEF DInv

LEMMA NextDInv == DInv /\ [Next]_vars => DInv'
<1> SUFFICES ASSUME DInv, [Next]_vars PROVE DInv'
  OBVIOUS
<1>1. CInv /\ CInv' /\ TypeOK
  BY NextCInv DEF DInv, CInv
<1>2. ASSUME NEW x \in Scans, NEW r, SetScan(x, r), together' = together,
             r.pc \in {"analyze", "post"} =>
               scan[x].pc \in {"analyze", "post"} /\ r.cur = scan[x].cur
      PROVE  DInv'
  <2>1. /\ scan' = [scan EXCEPT ![x] = r] /\ UNCHANGED <<submitted, history>>
    BY <1>2 DEF SetScan
  <2>2. scan'[x] = r /\ \A y \in Scans : y # x => scan'[y] = scan[y]
    BY <1>1, <2>1 DEF TypeOK
  <2>3. \A y \in Scans : scan'[y].pc \in {"analyze", "post"} =>
               scan[y].pc \in {"analyze", "post"} /\ scan'[y].cur = scan[y].cur
    BY <1>2, <2>2
  <2> QED
    BY <1>1, <1>2, <2>1, <2>3, DInvShrinks
<1>3. ASSUME NEW x \in Scans,
             StartScan(x) \/ Listed(x) \/ EndScan(x) \/ NoChallenge(x) \/ ChallengeLost(x)
      PROVE  DInv'
  <2>1. CASE StartScan(x)
    <3>1. PICK r : r = [IdleScan EXCEPT !.pc = "list"]
      OBVIOUS
    <3>2. r.pc = "list"
      BY <3>1 DEF IdleScan
    <3> QED
      BY <1>2, <2>1, <3>1, <3>2 DEF StartScan
  <2>2. CASE Listed(x)
    <3>1. PICK found \in SUBSET open : SetScan(x, [IdleScan EXCEPT !.pc = "scan", !.todo = found])
      BY <2>2 DEF Listed
    <3>2. PICK r : r = [IdleScan EXCEPT !.pc = "scan", !.todo = found]
      OBVIOUS
    <3>3. r.pc = "scan" /\ together' = together
      BY <2>2, <3>2 DEF IdleScan, Listed
    <3> QED
      BY <1>2, <3>1, <3>2, <3>3
  <2>3. CASE EndScan(x)
    BY <1>2, <2>3, IdleFacts DEF EndScan
  <2>4. CASE NoChallenge(x) \/ ChallengeLost(x)
    BY <1>1, <1>2, <2>4, BackFacts DEF NoChallenge, ChallengeLost
  <2> QED
    BY <1>3, <2>1, <2>2, <2>3, <2>4
<1>4. ASSUME NEW x \in Scans, NEW t \in Targets, SkipTarget(x, t) PROVE DInv'
  <2>1. PICK r : r = [scan[x] EXCEPT !.todo = @ \ {t}]
    OBVIOUS
  <2>2. r.pc = "scan"
    BY <1>1, <1>4, <2>1 DEF SkipTarget, TypeOK, Scan
  <2> QED
    BY <1>2, <1>4, <2>1, <2>2 DEF SkipTarget
<1>5. ASSUME NEW x \in Scans, ApplyChallenge(x) PROVE DInv'
  <2>1. PICK r : r = [scan[x] EXCEPT !.req = "applied"]
    OBVIOUS
  <2>2. r.cur = scan[x].cur /\ scan[x].pc = "post"
    BY <1>1, <1>5, <2>1 DEF ApplyChallenge, TypeOK, Scan
  <2> QED
    BY <1>2, <1>5, <2>1, <2>2 DEF ApplyChallenge
<1>6. ASSUME NEW x \in Scans, NEW c \in Challenges, PostChallenge(x, c) PROVE DInv'
  <2>1. /\ scan[x].pc = "analyze" /\ history[c] = NoHistory /\ submitted' = submitted
        /\ \A d \in Challenges : d # c => history'[d] = history[d]
        /\ scan' = [scan EXCEPT ![x] = [scan[x] EXCEPT !.pc = "post", !.id = c, !.req = "sent"]]
        /\ together' = together
    BY <1>1, <1>6 DEF PostChallenge, TypeOK
  <2>2. scan'[x].cur = scan[x].cur /\ \A y \in Scans : y # x => scan'[y] = scan[y]
    BY <1>1, <2>1 DEF TypeOK, Scan
  <2>3. \A d \in Challenges : history[d].target # None => history'[d].target = history[d].target
    BY <2>1 DEF NoHistory
  <2> QED
    BY <1>1, <2>1, <2>2, <2>3, DInvShrinks
<1>7. ASSUME scan' = scan, submitted' \subseteq submitted, together' = together,
             \A c \in Challenges : history'[c].target = history[c].target
      PROVE  DInv'
  BY <1>1, <1>7, DInvShrinks
<1>8. ASSUME NEW p \in Passes, PassNext(p) PROVE DInv'
  <2>1. CASE ReadStatus(p)
    <3>1. \A c \in Challenges : history'[c].target = history[c].target
      BY <1>1, <2>1 DEF ReadStatus, Checked, TypeOK, History
    <3>2. scan' = scan /\ submitted' \subseteq submitted /\ together' = together
      BY <2>1 DEF ReadStatus, SetPass
    <3> QED
      BY <1>7, <3>1, <3>2
  <2>2. CASE EndPublish(p)
    BY <1>7, <2>2 DEF EndPublish, SetPass
  <2>3. ASSUME \/ StartPass(p) \/ EndPass(p)
               \/ \E c \in Challenges : SkipChallenge(p, c) \/ AskStatus(p, c)
               \/ AnswerStatus(p) \/ LoseStatus(p) \/ ApplyPublish(p)
        PROVE  UNCHANGED <<scan, submitted, history, together>>
    BY <2>3 DEF StartPass, EndPass, SkipChallenge, AskStatus, AnswerStatus, LoseStatus, ApplyPublish, SetPass
  <2> QED
    BY <1>7, <1>8, <2>1, <2>2, <2>3 DEF PassNext
<1>9. CASE Restart
  <2>1. submitted' = {} /\ scan' = [x \in Scans |-> IdleScan] /\ history' = history /\ together' = together
    BY <1>9 DEF Restart
  <2>2. \A x \in Scans : scan'[x].pc \notin {"analyze", "post"}
    BY <2>1, IdleFacts
  <2> QED
    BY <1>1, <2>1, <2>2, DInvShrinks
<1>10. ASSUME Tick \/ (\E t \in Targets : CloseTarget(t)) \/ UNCHANGED vars
              \/ \E c \in Challenges, v \in Verdict : Decide(c, v)
       PROVE  DInv'
  BY <1>7, <1>10 DEF Tick, CloseTarget, Decide, vars
<1>11. ASSUME NEW x \in Scans, ScanNext(x) PROVE DInv'
  BY <1>1, <1>3, <1>4, <1>5, <1>6, <1>11, AnalyzeCounts, PostedCounts DEF ScanNext
<1> QED
  BY <1>8, <1>9, <1>10, <1>11 DEF Next, EnvNext

\* However scans overlap, a settlement has no more challenges of ours in the map than
\* scans were between their look at the map and their post when the last of them
\* looked: through lost answers, restarts, resolutions and any number of passes
\* (MediatorNode.ts:425-470, ChallengeManager.ts:55-92).
THEOREM DuplicatesAreRacedAlways == Spec => []DuplicatesAreRaced
<1>1. Init => DInv
  <2> SUFFICES ASSUME Init PROVE DInv
    OBVIOUS
  <2>1. CInv /\ submitted = {} /\ IsFiniteSet(submitted)
    BY InitCInv, FS_EmptySet DEF Init
  <2>2. ASSUME NEW t \in Targets
        PROVE  Cardinality(TrackedOf(t)) + Cardinality(Examining(t)) <= together[t]
    <3>1. TrackedOf(t) = {} /\ Examining(t) = {} /\ together[t] = 0
      BY IdleFacts DEF Init, TrackedOf, Examining
    <3> QED
      BY <3>1, FS_EmptySet
  <2> QED
    BY <2>1, <2>2 DEF DInv, RacedInv
<1>2. DInv => DuplicatesAreRaced
  <2> SUFFICES ASSUME DInv, NEW t \in Targets
               PROVE  Cardinality(TrackedOf(t)) <= together[t]
    BY DEF DuplicatesAreRaced
  <2>1. Cardinality(TrackedOf(t)) + Cardinality(Examining(t)) <= together[t] /\ together[t] \in Nat
    BY DEF DInv, RacedInv, CInv, TypeOK
  <2>2. Cardinality(TrackedOf(t)) \in Nat /\ Cardinality(Examining(t)) \in Nat
    BY TrackedFinite, ExaminingFinite DEF DInv
  <2> QED
    BY <2>1, <2>2
<1> QED
  BY <1>1, <1>2, NextDInv, PTL DEF Spec

===============================================================================
