----------------------- MODULE SettlementManager_proofs -----------------------
(***************************************************************************)
(* For every set of settlements and of overlapping passes, every window,   *)
(* retry count and bound: the manager's types are right, it only watches   *)
(* settlements the chain knows, it claims a fee only for a settlement both *)
(* parties accepted, and a closed settlement has been paid.  While passes  *)
(* do not overlap it claims once, a challenge upheld first forfeits the    *)
(* fee, and the manager implements SettlementLifecycle.                    *)
(***************************************************************************)
EXTENDS SettlementManager, FiniteSetTheorems, TLAPS

\* A request whose answer is on its way has left its entry on the ledger.
AppliedIsRecorded ==
    /\ \A s \in Settlements : sub[s].req = "applied" => proposals[s] > 0
    /\ \A p \in Passes :
         pass[p].pc \in {"payout", "entry"} /\ pass[p].req = "applied"
           => claims[pass[p].cur] > 0

\* Acceptance flags, and the answers that will set them, never run ahead of
\* the ledger.
FlagsAreTrue ==
    /\ \A s \in Settlements : obj[s].acc \subseteq accepts[s]
    /\ \A p \in Passes :
         pass[p].pc = "status" => pass[p].reply.acc \subseteq accepts[pass[p].cur]

\* A pass that awaits something awaits it for one settlement, and it awaits a
\* payout only for one both parties accepted; nor is any claim under way, waited
\* for or not, for another one.
AwaitsAreJustified ==
    /\ \A p \in Passes :
        /\ pass[p].pc \in {"status", "payout", "entry"} => pass[p].cur \in Settlements
        /\ pass[p].pc \in {"payout", "entry"} =>
             accepts[pass[p].cur] = Parties /\ pass[p].req \in {"sent", "applied"}
    /\ \A s \in Settlements : lateClaims[s] > 0 => accepts[s] = Parties

IInv ==
    /\ TypeOK
    /\ AwaitsAreJustified
    /\ AppliedIsRecorded
    /\ FlagsAreTrue
    /\ TrackedIsOnChain
    /\ ClaimNeedsBothParties
    /\ ClosedIsPaid

-------------------------------------------------------------------------------
(* Types of the records the actions build                                  *)

LEMMA ConstantRecords ==
    IdlePass \in Pass /\ NoSub \in Submission /\ NoObj \in Object
BY RetryAssumption DEF IdlePass, Pass, PassPc, Request, Reply, NoReply,
    NoSub, Submission, SubPc, NoObj, Object, Status

LEMMA PassRecords ==
    ASSUME NEW r \in Pass, NEW pc \in PassPc, NEW now \in Nat,
           NEW visited \in SUBSET Settlements, NEW cur \in Settlements,
           NEW left \in 0..RetryAttempts, NEW req \in Request, NEW reply \in Reply
    PROVE  /\ [r EXCEPT !.pc = pc, !.now = now, !.visited = visited] \in Pass
           /\ [r EXCEPT !.pc = pc, !.now = now, !.visited = visited,
                        !.cur = cur, !.req = req] \in Pass
           /\ [r EXCEPT !.req = req] \in Pass
           /\ [r EXCEPT !.req = req, !.reply = reply] \in Pass
           /\ [r EXCEPT !.left = left, !.req = req] \in Pass
           /\ [r EXCEPT !.pc = pc, !.left = left, !.req = req] \in Pass
BY DEF Pass

LEMMA StartRecord ==
    ASSUME NEW r \in Pass, NEW now \in Nat
    PROVE  [r EXCEPT !.pc = "scan", !.now = now] \in Pass
BY DEF Pass, PassPc

LEMMA RetryRecord ==
    ASSUME NEW r \in Submission, r.left > 1
    PROVE  /\ [r EXCEPT !.left = r.left - 1, !.req = "sent"] \in Submission
           /\ [r EXCEPT !.left = r.left - 1, !.req = "sent"].req = "sent"
<1>1. r.left - 1 \in 0..RetryAttempts
  BY RetryAssumption DEF Submission
<1>. QED BY <1>1 DEF Submission, Request

LEMMA PassFields ==
    ASSUME TypeOK, NEW p \in Passes
    PROVE  /\ pass[p] \in Pass
           /\ pass[p].now \in Nat
           /\ pass[p].visited \in SUBSET Settlements
           /\ pass[p].left \in 0..RetryAttempts
           /\ pass[p].reply \in Reply
BY DEF TypeOK, Pass

LEMMA OnwardType ==
    ASSUME TypeOK, NEW p \in Passes, NEW s \in Settlements
    PROVE  Onward(p, s) \in [Passes -> Pass]
<1>1. "scan" \in PassPc /\ pass[p].visited \cup {s} \in SUBSET Settlements
  BY PassFields DEF PassPc
<1>2. [IdlePass EXCEPT !.pc = "scan", !.now = pass[p].now,
                       !.visited = pass[p].visited \cup {s}] \in Pass
  BY <1>1, ConstantRecords, PassRecords, PassFields, RetryAssumption DEF
     Reply, Request
<1>. QED BY <1>2 DEF Onward, TypeOK

LEMMA AwaitType ==
    ASSUME TypeOK, NEW p \in Passes, NEW s \in Settlements,
           NEW k \in {"status", "payout"}
    PROVE  [pass EXCEPT ![p] = [IdlePass EXCEPT
              !.pc = k, !.now = pass[p].now,
              !.visited = pass[p].visited \cup {s},
              !.cur = s, !.req = "sent"]] \in [Passes -> Pass]
<1>1. k \in PassPc /\ "sent" \in Request
      /\ pass[p].visited \cup {s} \in SUBSET Settlements
  BY PassFields DEF PassPc, Request
<1>2. [IdlePass EXCEPT !.pc = k, !.now = pass[p].now,
                       !.visited = pass[p].visited \cup {s},
                       !.cur = s, !.req = "sent"] \in Pass
  BY <1>1, ConstantRecords, PassRecords, PassFields, RetryAssumption DEF Reply
<1>. QED BY <1>2 DEF TypeOK

LEMMA MergeType ==
    ASSUME NEW o \in Object, NEW r \in Reply
    PROVE  Merge(o, r) \in Object
BY DEF Merge, Object, Reply

\* Giving a request up changes nothing but what may still arrive.
LEMMA AbandonedProposal ==
    ASSUME TypeOK, NEW s \in Settlements, NEW r, AbandonProposal(s, r)
    PROVE  /\ UNCHANGED <<proposals, accepts, verdicts, claims, lateClaims>>
           /\ lateProposals' \in [Settlements -> Nat]
BY DEF TypeOK, LedgerTypeOK, AbandonProposal

LEMMA AbandonedClaim ==
    ASSUME TypeOK, NEW s \in Settlements, NEW r, AbandonClaim(s, r)
    PROVE  /\ UNCHANGED <<proposals, accepts, verdicts, claims, lateProposals>>
           /\ lateClaims' \in [Settlements -> Nat]
           /\ \A t \in Settlements : t # s => lateClaims'[t] = lateClaims[t]
           /\ lateClaims[s] > 0 \/ r = "sent" => lateClaims'[s] > 0
BY DEF TypeOK, LedgerTypeOK, AbandonClaim

-------------------------------------------------------------------------------

LEMMA InitEstablishesIInv == Init => IInv
<1> SUFFICES ASSUME Init PROVE IInv
  OBVIOUS
<1>1. LedgerTypeOK
  BY DEF Init, LedgerInit, LedgerTypeOK
<1>2. obj \in [Settlements -> Object] /\ sub \in [Settlements -> Submission]
      /\ pass \in [Passes -> Pass] /\ tracked \in SUBSET Settlements
  BY ConstantRecords DEF Init
<1>3. clock \in 0..MaxClock /\ crashes \in Nat
  BY ClockAssumption DEF Init
<1>4. /\ answerLost \in BOOLEAN
      /\ agreedInTime \in [Settlements -> BOOLEAN] /\ upheldFirst \in SUBSET Settlements
  BY DEF Init
<1>5. AwaitsAreJustified /\ AppliedIsRecorded /\ FlagsAreTrue
  BY DEF Init, LedgerInit, NoSub, NoObj, IdlePass, AwaitsAreJustified, AppliedIsRecorded,
         FlagsAreTrue
<1>6. TrackedIsOnChain /\ ClaimNeedsBothParties /\ ClosedIsPaid
  BY DEF Init, LedgerInit, NoObj, TrackedIsOnChain, ClaimNeedsBothParties,
         ClosedIsPaid
<1>. QED BY <1>1, <1>2, <1>3, <1>4, <1>5, <1>6 DEF IInv, TypeOK

-------------------------------------------------------------------------------
(* submitSettlement                                                        *)

LEMMA CreateStep ==
    ASSUME IInv, NEW s \in Settlements, Create(s)
    PROVE  IInv'
<1>1. sub' \in [Settlements -> Submission]
  BY RetryAssumption DEF IInv, TypeOK, Create, Submission, SubPc, Request, NoSub
<1>2. obj' \in [Settlements -> Object]
  <2>1. clock + Window \in Nat
    BY WindowAssumption, ClockAssumption DEF IInv, TypeOK
  <2>2. [NoObj EXCEPT !.status = "proposed", !.deadline = clock + Window] \in Object
    BY <2>1 DEF NoObj, Object, Status
  <2>. QED BY <2>2 DEF IInv, TypeOK, Create
<1>3. TypeOK'
  BY <1>1, <1>2 DEF IInv, TypeOK, outcomes, LedgerTypeOK, Create, ledgerVars, envVars,
     NoSub, NoObj
<1>4. AwaitsAreJustified' /\ AppliedIsRecorded' /\ FlagsAreTrue'
  BY DEF IInv, TypeOK, Create, AwaitsAreJustified, AppliedIsRecorded,
     FlagsAreTrue, ledgerVars, NoSub, NoObj
<1>5. TrackedIsOnChain' /\ ClaimNeedsBothParties' /\ ClosedIsPaid'
  BY DEF IInv, TypeOK, Create, TrackedIsOnChain, ClaimNeedsBothParties,
     ClosedIsPaid, ledgerVars, NoSub, NoObj
<1>. QED BY <1>3, <1>4, <1>5 DEF IInv

LEMMA ApplyProposalStep ==
    ASSUME IInv, NEW s \in Settlements, ApplyProposal(s)
    PROVE  IInv'
<1>1. sub' \in [Settlements -> Submission]
  BY RetryAssumption DEF IInv, TypeOK, ApplyProposal, Submission, SubPc,
     Request, NoSub
<1>2. TypeOK'
  BY <1>1 DEF IInv, TypeOK, outcomes, LedgerTypeOK, ApplyProposal, ledgerVars, envVars,
     RecordProposal
<1>3. AwaitsAreJustified' /\ AppliedIsRecorded' /\ FlagsAreTrue'
  BY DEF IInv, TypeOK, outcomes, LedgerTypeOK, ApplyProposal, AwaitsAreJustified,
     AppliedIsRecorded, FlagsAreTrue, ledgerVars, RecordProposal
<1>4. TrackedIsOnChain' /\ ClaimNeedsBothParties' /\ ClosedIsPaid'
  BY DEF IInv, TypeOK, outcomes, LedgerTypeOK, ApplyProposal, TrackedIsOnChain,
     ClaimNeedsBothParties, ClosedIsPaid, ledgerVars, RecordProposal
<1>. QED BY <1>2, <1>3, <1>4 DEF IInv

LEMMA SubmitSucceedsStep ==
    ASSUME IInv, NEW s \in Settlements, SubmitSucceeds(s)
    PROVE  IInv'
<1>1. sub' \in [Settlements -> Submission]
  BY RetryAssumption DEF IInv, TypeOK, SubmitSucceeds, Submission, SubPc,
     Request, NoSub
<1>2. TypeOK'
  BY <1>1 DEF IInv, TypeOK, outcomes, LedgerTypeOK, SubmitSucceeds, ledgerVars, envVars,
     NoSub
<1>3. AwaitsAreJustified' /\ AppliedIsRecorded' /\ FlagsAreTrue'
  BY DEF IInv, TypeOK, SubmitSucceeds, AwaitsAreJustified, AppliedIsRecorded,
     FlagsAreTrue, ledgerVars, NoSub
<1>4. TrackedIsOnChain' /\ ClaimNeedsBothParties' /\ ClosedIsPaid'
  BY DEF IInv, TypeOK, SubmitSucceeds, AppliedIsRecorded, TrackedIsOnChain,
     ClaimNeedsBothParties, ClosedIsPaid, ledgerVars, NoSub
<1>. QED BY <1>2, <1>3, <1>4 DEF IInv

LEMMA ProposeFailsStep ==
    ASSUME IInv, NEW s \in Settlements, ProposeFails(s)
    PROVE  IInv'
<1>1. sub' \in [Settlements -> Submission]
  BY RetryAssumption DEF IInv, TypeOK, ProposeFails, Submission, SubPc,
     Request, NoSub
<1>a. /\ UNCHANGED <<proposals, accepts, verdicts, claims, lateClaims>>
      /\ lateProposals' \in [Settlements -> Nat]
  BY AbandonedProposal DEF IInv, ProposeFails
<1>2. TypeOK'
  BY <1>1, <1>a DEF IInv, TypeOK, outcomes, LedgerTypeOK, ProposeFails, ledgerVars, envVars, NoSub
<1>3. AwaitsAreJustified' /\ AppliedIsRecorded' /\ FlagsAreTrue'
  BY <1>a DEF IInv, TypeOK, ProposeFails, AwaitsAreJustified, AppliedIsRecorded,
     FlagsAreTrue, ledgerVars, NoSub
<1>4. TrackedIsOnChain' /\ ClaimNeedsBothParties' /\ ClosedIsPaid'
  BY <1>a DEF IInv, TypeOK, ProposeFails, TrackedIsOnChain, ClaimNeedsBothParties,
     ClosedIsPaid, ledgerVars, NoSub
<1>. QED BY <1>2, <1>3, <1>4 DEF IInv

LEMMA SubmitRetryStep ==
    ASSUME IInv, NEW s \in Settlements, SubmitRetry(s)
    PROVE  IInv'
<1>1. PICK r \in Submission : /\ sub' = [sub EXCEPT ![s] = r]
                              /\ r.req # "applied"
  <2>1. CASE sub' = [sub EXCEPT ![s] = [NoSub EXCEPT !.pc = "failed"]]
    <3>1. /\ [NoSub EXCEPT !.pc = "failed"] \in Submission
          /\ [NoSub EXCEPT !.pc = "failed"].req = "idle"
      BY RetryAssumption DEF NoSub, Submission, SubPc, Request
    <3>. QED BY <2>1, <3>1
  <2>2. CASE /\ sub[s].left > 1
             /\ sub' = [sub EXCEPT ![s] = [sub[s] EXCEPT
                              !.left = sub[s].left - 1, !.req = "sent"]]
    <3>1. sub[s] \in Submission
      BY DEF IInv, TypeOK
    <3>2. /\ [sub[s] EXCEPT !.left = sub[s].left - 1, !.req = "sent"] \in Submission
          /\ [sub[s] EXCEPT !.left = sub[s].left - 1, !.req = "sent"].req = "sent"
      BY <2>2, <3>1, RetryRecord
    <3>3. sub' = [sub EXCEPT ![s] = [sub[s] EXCEPT !.left = sub[s].left - 1,
                                                   !.req = "sent"]]
      BY <2>2
    <3> DEFINE r == [sub[s] EXCEPT !.left = sub[s].left - 1, !.req = "sent"]
    <3>4. r \in Submission /\ r.req # "applied" /\ sub' = [sub EXCEPT ![s] = r]
      BY <3>2, <3>3
    <3> HIDE DEF r
    <3>. QED BY <3>4
  <2>. QED BY <2>1, <2>2 DEF SubmitRetry
<1>a. /\ UNCHANGED <<proposals, accepts, verdicts, claims, lateClaims>>
      /\ lateProposals' \in [Settlements -> Nat]
  BY AbandonedProposal DEF IInv, SubmitRetry
<1>2. TypeOK'
  BY <1>1, <1>a DEF IInv, TypeOK, outcomes, LedgerTypeOK, SubmitRetry, ledgerVars
<1>3. AppliedIsRecorded'
  BY <1>1, <1>a DEF IInv, TypeOK, SubmitRetry, AppliedIsRecorded, ledgerVars
<1>4. AwaitsAreJustified' /\ FlagsAreTrue'
  BY <1>a DEF IInv, SubmitRetry, AwaitsAreJustified, FlagsAreTrue, ledgerVars
<1>5. TrackedIsOnChain' /\ ClaimNeedsBothParties' /\ ClosedIsPaid'
  BY <1>a DEF IInv, SubmitRetry, TrackedIsOnChain, ClaimNeedsBothParties,
         ClosedIsPaid, ledgerVars
<1>. QED BY <1>2, <1>3, <1>4, <1>5 DEF IInv

-------------------------------------------------------------------------------
(* monitorSettlements                                                      *)

LEMMA StartPassStep ==
    ASSUME IInv, NEW p \in Passes, StartPass(p)
    PROVE  IInv'
<1>1. pass' \in [Passes -> Pass]
  <2>1. [IdlePass EXCEPT !.pc = "scan", !.now = clock] \in Pass
    <3>1. clock \in Nat
      BY ClockAssumption DEF IInv, TypeOK
    <3>. QED BY <3>1, ConstantRecords, StartRecord
  <2>. QED BY <2>1 DEF IInv, TypeOK, StartPass
<1>2. TypeOK'
  BY <1>1 DEF IInv, TypeOK, outcomes, LedgerTypeOK, StartPass, ledgerVars, envVars, IdlePass
<1>3. AwaitsAreJustified' /\ AppliedIsRecorded' /\ FlagsAreTrue'
  BY DEF IInv, TypeOK, StartPass, AwaitsAreJustified, AppliedIsRecorded,
     FlagsAreTrue, ledgerVars, IdlePass
<1>4. TrackedIsOnChain' /\ ClaimNeedsBothParties' /\ ClosedIsPaid'
  BY DEF IInv, TypeOK, StartPass, TrackedIsOnChain, ClaimNeedsBothParties,
     ClosedIsPaid, ledgerVars, IdlePass
<1>. QED BY <1>2, <1>3, <1>4 DEF IInv

LEMMA EndPassStep ==
    ASSUME IInv, NEW p \in Passes, EndPass(p)
    PROVE  IInv'
<1>1. pass' \in [Passes -> Pass]
  BY ConstantRecords DEF IInv, TypeOK, EndPass
<1>2. TypeOK'
  BY <1>1 DEF IInv, TypeOK, outcomes, LedgerTypeOK, EndPass, ledgerVars, envVars, IdlePass
<1>3. AwaitsAreJustified' /\ AppliedIsRecorded' /\ FlagsAreTrue'
  BY DEF IInv, TypeOK, EndPass, AwaitsAreJustified, AppliedIsRecorded,
     FlagsAreTrue, ledgerVars, IdlePass
<1>4. TrackedIsOnChain' /\ ClaimNeedsBothParties' /\ ClosedIsPaid'
  BY DEF IInv, TypeOK, EndPass, TrackedIsOnChain, ClaimNeedsBothParties,
     ClosedIsPaid, ledgerVars, IdlePass
<1>. QED BY <1>2, <1>3, <1>4 DEF IInv

LEMMA ExpireStep ==
    ASSUME IInv, NEW p \in Passes, NEW s \in Settlements, Expire(p, s)
    PROVE  IInv'
<1>1. pass' \in [Passes -> Pass]
  BY OnwardType DEF IInv, Expire
<1>2. /\ [obj[s] EXCEPT !.status = "rejected"] \in Object
      /\ [obj[s] EXCEPT !.status = "rejected"].acc = obj[s].acc
      /\ [obj[s] EXCEPT !.status = "rejected"].status # "closed"
  BY DEF IInv, TypeOK, Object, Status
<1>3. TypeOK'
  BY <1>1, <1>2 DEF IInv, TypeOK, outcomes, LedgerTypeOK, Expire, ledgerVars, envVars
<1>4. AwaitsAreJustified' /\ AppliedIsRecorded'
  BY DEF IInv, TypeOK, Expire, Onward, AwaitsAreJustified, AppliedIsRecorded,
         ledgerVars
<1>5. FlagsAreTrue' /\ ClosedIsPaid'
  BY <1>2 DEF IInv, TypeOK, Expire, Onward, FlagsAreTrue, ClosedIsPaid, ledgerVars
<1>6. TrackedIsOnChain' /\ ClaimNeedsBothParties'
  BY DEF IInv, Expire, TrackedIsOnChain, ClaimNeedsBothParties, ledgerVars
<1>. QED BY <1>3, <1>4, <1>5, <1>6 DEF IInv

\* closeSettlement may begin on any object that has both flags, as long as the
\* flags are true.
LEMMA BeginCloseStep ==
    ASSUME IInv, NEW p \in Passes, NEW s \in Settlements, NEW o \in Object,
           o.acc \subseteq accepts[s], o.status = obj[s].status,
           BothAccepted(o), BeginClose(p, s, o),
           UNCHANGED <<ledgerVars, sub, envVars>>
    PROVE  IInv'
<1>1. accepts[s] = Parties
  BY DEF BothAccepted, IInv, TypeOK, outcomes, LedgerTypeOK
<1>2. CASE /\ obj' = [obj EXCEPT ![s] = [o EXCEPT !.status = "rejected"]]
           /\ tracked' = tracked \ {s}
           /\ pass' = Onward(p, s)
  <2>1. pass' \in [Passes -> Pass]
    BY <1>2, OnwardType DEF IInv
  <2>2. /\ [o EXCEPT !.status = "rejected"] \in Object
        /\ [o EXCEPT !.status = "rejected"].acc = o.acc
        /\ [o EXCEPT !.status = "rejected"].status # "closed"
    BY DEF Object, Status
  <2>3. TypeOK'
    BY <1>2, <2>1, <2>2 DEF IInv, TypeOK, outcomes, LedgerTypeOK, ledgerVars, envVars
  <2>4. AwaitsAreJustified' /\ AppliedIsRecorded'
    BY <1>2 DEF IInv, TypeOK, Onward, AwaitsAreJustified, AppliedIsRecorded,
           ledgerVars
  <2>5. FlagsAreTrue' /\ ClosedIsPaid'
    BY <1>2, <2>2 DEF IInv, TypeOK, Onward, FlagsAreTrue, ClosedIsPaid, ledgerVars
  <2>6. TrackedIsOnChain' /\ ClaimNeedsBothParties'
    BY <1>2 DEF IInv, TrackedIsOnChain, ClaimNeedsBothParties, ledgerVars
  <2>. QED BY <2>3, <2>4, <2>5, <2>6 DEF IInv
<1>3. CASE /\ obj' = [obj EXCEPT ![s] = o]
           /\ tracked' = tracked
           /\ pass' = [pass EXCEPT ![p] = [IdlePass EXCEPT
                         !.pc = "payout", !.now = pass[p].now,
                         !.visited = pass[p].visited \cup {s},
                         !.cur = s, !.req = "sent"]]
  <2>1. pass' \in [Passes -> Pass]
    BY <1>3, AwaitType DEF IInv
  <2>2. TypeOK'
    BY <1>3, <2>1 DEF IInv, TypeOK, outcomes, LedgerTypeOK, ledgerVars, envVars
  <2>3. AwaitsAreJustified' /\ AppliedIsRecorded'
    BY <1>1, <1>3 DEF IInv, TypeOK, IdlePass, AwaitsAreJustified,
           AppliedIsRecorded, ledgerVars
  <2>4. FlagsAreTrue' /\ ClosedIsPaid'
    BY <1>3 DEF IInv, TypeOK, IdlePass, FlagsAreTrue, ClosedIsPaid, ledgerVars
  <2>5. TrackedIsOnChain' /\ ClaimNeedsBothParties'
    BY <1>3 DEF IInv, TrackedIsOnChain, ClaimNeedsBothParties, ledgerVars
  <2>. QED BY <2>2, <2>3, <2>4, <2>5 DEF IInv
<1>. QED BY <1>2, <1>3 DEF BeginClose

LEMMA CloseExpiredStep ==
    ASSUME IInv, NEW p \in Passes, NEW s \in Settlements, CloseExpired(p, s)
    PROVE  IInv'
<1>1. obj[s] \in Object /\ obj[s].acc \subseteq accepts[s]
  BY DEF IInv, TypeOK, FlagsAreTrue
<1>. QED BY <1>1, BeginCloseStep DEF CloseExpired

LEMMA AskStatusStep ==
    ASSUME IInv, NEW p \in Passes, NEW s \in Settlements, AskStatus(p, s)
    PROVE  IInv'
<1>1. pass' \in [Passes -> Pass]
  BY AwaitType DEF IInv, AskStatus
<1>2. TypeOK'
  BY <1>1 DEF IInv, TypeOK, outcomes, LedgerTypeOK, AskStatus, ledgerVars, envVars
<1>3. AwaitsAreJustified' /\ AppliedIsRecorded' /\ FlagsAreTrue'
  BY DEF IInv, TypeOK, AskStatus, IdlePass, NoReply, AwaitsAreJustified,
         AppliedIsRecorded, FlagsAreTrue, ledgerVars
<1>4. TrackedIsOnChain' /\ ClaimNeedsBothParties' /\ ClosedIsPaid'
  BY DEF IInv, AskStatus, TrackedIsOnChain, ClaimNeedsBothParties, ClosedIsPaid,
         ledgerVars
<1>. QED BY <1>2, <1>3, <1>4 DEF IInv

LEMMA AnswerStatusStep ==
    ASSUME IInv, NEW p \in Passes, AnswerStatus(p)
    PROVE  IInv'
<1>1. pass[p].cur \in Settlements
  BY DEF IInv, AnswerStatus, AwaitsAreJustified
<1>2. PICK r \in Reply :
        /\ r.acc \subseteq accepts[pass[p].cur]
        /\ pass' = [pass EXCEPT ![p] = [pass[p] EXCEPT !.req = "applied", !.reply = r]]
  <2>1. CASE PartialSearch
    BY <1>1, <2>1 DEF IInv, TypeOK, outcomes, LedgerTypeOK, AnswerStatus, Reply
  <2>2. CASE ~PartialSearch
    BY <1>1, <2>2 DEF IInv, TypeOK, outcomes, LedgerTypeOK, AnswerStatus, Reply, Snapshot
  <2>. QED BY <2>1, <2>2
<1>3. /\ [pass[p] EXCEPT !.req = "applied", !.reply = r] \in Pass
      /\ [pass[p] EXCEPT !.req = "applied", !.reply = r].pc = "status"
      /\ [pass[p] EXCEPT !.req = "applied", !.reply = r].cur = pass[p].cur
      /\ [pass[p] EXCEPT !.req = "applied", !.reply = r].reply = r
  BY DEF IInv, TypeOK, Pass, Request, AnswerStatus
<1>4. TypeOK'
  BY <1>2, <1>3 DEF IInv, TypeOK, outcomes, LedgerTypeOK, AnswerStatus, ledgerVars, envVars
<1>5. AwaitsAreJustified' /\ AppliedIsRecorded' /\ FlagsAreTrue'
  BY <1>1, <1>2, <1>3 DEF IInv, TypeOK, AnswerStatus, AwaitsAreJustified,
         AppliedIsRecorded, FlagsAreTrue, ledgerVars
<1>6. TrackedIsOnChain' /\ ClaimNeedsBothParties' /\ ClosedIsPaid'
  BY DEF IInv, AnswerStatus, TrackedIsOnChain, ClaimNeedsBothParties,
     ClosedIsPaid,
         ledgerVars
<1>. QED BY <1>4, <1>5, <1>6 DEF IInv

LEMMA AfterStatusStep ==
    ASSUME IInv, NEW p \in Passes, pass[p].pc = "status", NEW r \in Reply,
           r.acc \subseteq accepts[pass[p].cur], AfterStatus(p, r),
           UNCHANGED <<ledgerVars, sub, envVars>>
    PROVE  IInv'
<1> DEFINE s == pass[p].cur
           o == Merge(obj[s], r)
<1>1. s \in Settlements
  BY DEF IInv, AwaitsAreJustified
<1>2. /\ o \in Object
      /\ o.status = obj[s].status
      /\ o.acc = obj[s].acc \cup r.acc
  <2>1. obj[s] \in Object
    BY <1>1 DEF IInv, TypeOK
  <2>. QED BY <2>1, MergeType DEF Merge, Object
<1>3. o.acc \subseteq accepts[s]
  BY <1>1, <1>2 DEF IInv, FlagsAreTrue
<1>4. CASE BothAccepted(o) /\ BeginClose(p, s, o)
  <2> HIDE DEF s, o
  <2>. QED BY <1>1, <1>2, <1>3, <1>4, BeginCloseStep
<1>5. CASE /\ obj' = [obj EXCEPT ![s] = o]
           /\ tracked' = tracked
           /\ pass' = Onward(p, s)
  <2> HIDE DEF s, o
  <2>1. pass' \in [Passes -> Pass]
    BY <1>1, <1>5, OnwardType DEF IInv
  <2>2. TypeOK'
    BY <1>2, <1>5, <2>1 DEF IInv, TypeOK, outcomes, LedgerTypeOK, ledgerVars, envVars
  <2>3. AwaitsAreJustified' /\ AppliedIsRecorded'
    BY <1>5 DEF IInv, TypeOK, Onward, AwaitsAreJustified, AppliedIsRecorded,
           ledgerVars
  <2>4. FlagsAreTrue' /\ ClosedIsPaid'
    BY <1>2, <1>3, <1>5 DEF IInv, TypeOK, Onward, FlagsAreTrue, ClosedIsPaid,
           ledgerVars
  <2>5. TrackedIsOnChain' /\ ClaimNeedsBothParties'
    BY <1>5 DEF IInv, TrackedIsOnChain, ClaimNeedsBothParties, ledgerVars
  <2>. QED BY <2>2, <2>3, <2>4, <2>5 DEF IInv
<1>. QED BY <1>4, <1>5 DEF AfterStatus

LEMMA ReadStatusStep ==
    ASSUME IInv, NEW p \in Passes, ReadStatus(p) PROVE IInv'
<1>1. pass[p].reply \in Reply /\ pass[p].reply.acc \subseteq accepts[pass[p].cur]
  BY PassFields DEF IInv, FlagsAreTrue, ReadStatus
<1>. QED BY <1>1, AfterStatusStep DEF ReadStatus

LEMMA LoseStatusStep ==
    ASSUME IInv, NEW p \in Passes, LoseStatus(p) PROVE IInv'
<1>1. NoReply \in Reply /\ NoReply.acc \subseteq accepts[pass[p].cur]
  BY DEF NoReply, Reply
<1>. QED BY <1>1, AfterStatusStep DEF LoseStatus

-------------------------------------------------------------------------------
(* submitPayout                                                            *)

LEMMA ApplyClaimStep ==
    ASSUME IInv, NEW p \in Passes, ApplyClaim(p) PROVE IInv'
<1>1. pass[p].cur \in Settlements /\ accepts[pass[p].cur] = Parties
  BY DEF IInv, AwaitsAreJustified, ApplyClaim
<1>2. /\ [pass[p] EXCEPT !.req = "applied"] \in Pass
      /\ [pass[p] EXCEPT !.req = "applied"].pc = pass[p].pc
      /\ [pass[p] EXCEPT !.req = "applied"].cur = pass[p].cur
  BY DEF IInv, TypeOK, Pass, Request
<1>3. /\ claims' \in [Settlements -> Nat]
      /\ claims'[pass[p].cur] > 0
      /\ \A t \in Settlements : claims[t] > 0 => claims'[t] > 0
      /\ \A t \in Settlements \ {pass[p].cur} : claims'[t] = claims[t]
  BY <1>1 DEF IInv, TypeOK, outcomes, LedgerTypeOK, ApplyClaim, RecordClaim
<1>4. TypeOK'
  BY <1>2, <1>3 DEF IInv, TypeOK, outcomes, LedgerTypeOK, ApplyClaim, RecordClaim, envVars
<1>5. AwaitsAreJustified' /\ AppliedIsRecorded' /\ FlagsAreTrue'
  BY <1>1, <1>2, <1>3 DEF IInv, TypeOK, ApplyClaim, RecordClaim,
         AwaitsAreJustified, AppliedIsRecorded, FlagsAreTrue
<1>6. TrackedIsOnChain' /\ ClaimNeedsBothParties' /\ ClosedIsPaid'
  BY <1>1, <1>3 DEF IInv, ApplyClaim, RecordClaim, TrackedIsOnChain,
         ClaimNeedsBothParties, ClosedIsPaid
<1>. QED BY <1>4, <1>5, <1>6 DEF IInv

LEMMA PayoutSucceedsStep ==
    ASSUME IInv, NEW p \in Passes, PayoutSucceeds(p) PROVE IInv'
<1>1. pass[p].cur \in Settlements /\ claims[pass[p].cur] > 0
  BY DEF IInv, AwaitsAreJustified, AppliedIsRecorded, PayoutSucceeds
<1>2. pass' \in [Passes -> Pass]
  BY <1>1, OnwardType DEF IInv, PayoutSucceeds
<1>3. PICK o \in Object : /\ obj' = [obj EXCEPT ![pass[p].cur] = o]
                          /\ o.acc = obj[pass[p].cur].acc
  <2>1. /\ [obj[pass[p].cur] EXCEPT !.status = "closed"] \in Object
        /\ [obj[pass[p].cur] EXCEPT !.status = "closed"].acc = obj[pass[p].cur].acc
    BY <1>1 DEF IInv, TypeOK, Object, Status
  <2>. QED BY <2>1 DEF PayoutSucceeds
<1>4. TypeOK'
  BY <1>2, <1>3 DEF IInv, TypeOK, outcomes, LedgerTypeOK, PayoutSucceeds, ledgerVars,
     envVars
<1>5. AwaitsAreJustified' /\ AppliedIsRecorded'
  BY DEF IInv, TypeOK, PayoutSucceeds, Onward, AwaitsAreJustified,
         AppliedIsRecorded, ledgerVars
<1>6. FlagsAreTrue' /\ ClosedIsPaid'
  BY <1>1, <1>3 DEF IInv, TypeOK, PayoutSucceeds, Onward, FlagsAreTrue,
         ClosedIsPaid, ledgerVars
<1>7. TrackedIsOnChain' /\ ClaimNeedsBothParties'
  BY DEF IInv, PayoutSucceeds, TrackedIsOnChain, ClaimNeedsBothParties, ledgerVars
<1>. QED BY <1>4, <1>5, <1>6, <1>7 DEF IInv

\* A payout request sent again, to /entry: nothing but the request changes.
LEMMA ClaimAgainStep ==
    ASSUME IInv, NEW p \in Passes, PayoutFallsBack(p) \/ PayoutRetry(p)
    PROVE  IInv'
<1>1. PICK r \in Pass : /\ pass' = [pass EXCEPT ![p] = r]
                        /\ r.pc = "entry" /\ r.req = "sent"
                        /\ r.cur = pass[p].cur
  <2>1. pass[p] \in Pass
    BY DEF IInv, TypeOK
  <2>2. CASE PayoutFallsBack(p)
    <3> DEFINE r == [pass[p] EXCEPT !.pc = "entry", !.left = RetryAttempts,
                                    !.req = "sent"]
    <3>1. RetryAttempts \in 0..RetryAttempts
      BY RetryAssumption
    <3>2. r \in Pass /\ r.pc = "entry" /\ r.req = "sent" /\ r.cur = pass[p].cur
      BY <2>1, <3>1 DEF Pass, PassPc, Request
    <3>3. pass' = [pass EXCEPT ![p] = r]
      BY <2>2 DEF PayoutFallsBack
    <3> HIDE DEF r
    <3>. QED BY <3>2, <3>3
  <2>3. CASE PayoutRetry(p)
    <3> DEFINE r == [pass[p] EXCEPT !.left = pass[p].left - 1, !.req = "sent"]
    <3>1. pass[p].left - 1 \in 0..RetryAttempts
      BY <2>1, <2>3, RetryAssumption DEF PayoutRetry, Pass
    <3>2. r \in Pass /\ r.pc = "entry" /\ r.req = "sent" /\ r.cur = pass[p].cur
      BY <2>1, <2>3, <3>1 DEF PayoutRetry, Pass, Request
    <3>3. pass' = [pass EXCEPT ![p] = r]
      BY <2>3 DEF PayoutRetry
    <3> HIDE DEF r
    <3>. QED BY <3>2, <3>3
  <2>. QED BY <2>2, <2>3
<1>2. /\ UNCHANGED <<obj, tracked, sub, clock, crashes, outcomes>>
      /\ answerLost' \in BOOLEAN
      /\ pass[p].pc \in {"payout", "entry"}
      /\ AbandonClaim(pass[p].cur, pass[p].req)
  BY DEF PayoutFallsBack, PayoutRetry
<1>a. /\ UNCHANGED <<proposals, accepts, verdicts, claims, lateProposals>>
      /\ lateClaims' \in [Settlements -> Nat]
      /\ \A t \in Settlements : t # pass[p].cur => lateClaims'[t] = lateClaims[t]
      /\ accepts[pass[p].cur] = Parties
  BY <1>2, AbandonedClaim DEF IInv, AwaitsAreJustified
<1>3. TypeOK'
  BY <1>1, <1>2, <1>a DEF IInv, TypeOK, outcomes, LedgerTypeOK, ledgerVars
<1>4. AwaitsAreJustified' /\ AppliedIsRecorded' /\ FlagsAreTrue'
  BY <1>1, <1>2, <1>a DEF IInv, TypeOK, AwaitsAreJustified, AppliedIsRecorded,
         FlagsAreTrue, ledgerVars
<1>5. TrackedIsOnChain' /\ ClaimNeedsBothParties' /\ ClosedIsPaid'
  BY <1>2, <1>a DEF IInv, TrackedIsOnChain, ClaimNeedsBothParties, ClosedIsPaid,
     ledgerVars
<1>. QED BY <1>3, <1>4, <1>5 DEF IInv

LEMMA PayoutFailsStep ==
    ASSUME IInv, NEW p \in Passes, PayoutFails(p) PROVE IInv'
<1>1. pass[p].cur \in Settlements
  BY DEF IInv, AwaitsAreJustified, PayoutFails
<1>2. pass' \in [Passes -> Pass]
  BY <1>1, OnwardType DEF IInv, PayoutFails
<1>a. /\ UNCHANGED <<proposals, accepts, verdicts, claims, lateProposals>>
      /\ lateClaims' \in [Settlements -> Nat]
      /\ \A t \in Settlements : t # pass[p].cur => lateClaims'[t] = lateClaims[t]
      /\ accepts[pass[p].cur] = Parties
  BY <1>1, AbandonedClaim DEF IInv, AwaitsAreJustified, PayoutFails
<1>3. TypeOK'
  BY <1>2, <1>a DEF IInv, TypeOK, outcomes, LedgerTypeOK, PayoutFails, ledgerVars
<1>4. AwaitsAreJustified' /\ AppliedIsRecorded' /\ FlagsAreTrue'
  BY <1>a DEF IInv, TypeOK, PayoutFails, Onward, AwaitsAreJustified,
         AppliedIsRecorded, FlagsAreTrue, ledgerVars
<1>5. TrackedIsOnChain' /\ ClaimNeedsBothParties' /\ ClosedIsPaid'
  BY <1>a DEF IInv, PayoutFails, TrackedIsOnChain, ClaimNeedsBothParties,
         ClosedIsPaid, ledgerVars
<1>. QED BY <1>3, <1>4, <1>5 DEF IInv

-------------------------------------------------------------------------------
(* The environment                                                         *)

LEMMA PartyAcceptsStep ==
    ASSUME IInv, NEW s \in Settlements, NEW q \in Parties, PartyAccepts(s, q)
    PROVE  IInv'
<1>1. /\ accepts' \in [Settlements -> SUBSET Parties]
      /\ \A t \in Settlements : accepts[t] \subseteq accepts'[t]
      /\ \A t \in Settlements : accepts[t] = Parties => accepts'[t] = Parties
  BY DEF IInv, TypeOK, outcomes, LedgerTypeOK, PartyAccepts, RecordAccept
<1>2. agreedInTime' \in [Settlements -> BOOLEAN] /\ upheldFirst' = upheldFirst
  BY DEF IInv, TypeOK, PartyAccepts
<1>3. TypeOK'
  BY <1>1, <1>2 DEF IInv, TypeOK, outcomes, LedgerTypeOK, PartyAccepts, RecordAccept,
     nodeVars
<1>4. AwaitsAreJustified' /\ AppliedIsRecorded' /\ FlagsAreTrue'
  BY <1>1 DEF IInv, PartyAccepts, RecordAccept, nodeVars, AwaitsAreJustified,
         AppliedIsRecorded, FlagsAreTrue
<1>5. TrackedIsOnChain' /\ ClaimNeedsBothParties' /\ ClosedIsPaid'
  BY <1>1 DEF IInv, PartyAccepts, RecordAccept, nodeVars, TrackedIsOnChain,
         ClaimNeedsBothParties, ClosedIsPaid
<1>. QED BY <1>3, <1>4, <1>5 DEF IInv

LEMMA ChallengeMovesStep ==
    ASSUME IInv, NEW s \in Settlements, NEW v \in ChallengeStatus,
           ChallengeMoves(s, v)
    PROVE  IInv'
<1>1. TypeOK'
  BY DEF IInv, TypeOK, outcomes, LedgerTypeOK, ChallengeMoves, RecordVerdict, nodeVars,
     envVars
<1>2. AwaitsAreJustified' /\ AppliedIsRecorded' /\ FlagsAreTrue'
  BY DEF IInv, ChallengeMoves, RecordVerdict, nodeVars, AwaitsAreJustified,
         AppliedIsRecorded, FlagsAreTrue
<1>3. TrackedIsOnChain' /\ ClaimNeedsBothParties' /\ ClosedIsPaid'
  BY DEF IInv, ChallengeMoves, RecordVerdict, nodeVars, TrackedIsOnChain,
         ClaimNeedsBothParties, ClosedIsPaid
<1>. QED BY <1>1, <1>2, <1>3 DEF IInv

\* What was on its way when the process ended.
LEMMA LateAtCrash ==
    ASSUME TypeOK, Crash
    PROVE  /\ lateProposals' \in [Settlements -> Nat]
           /\ lateClaims' \in [Settlements -> Nat]
           /\ \A s \in Settlements :
                /\ lateClaims'[s] > 0 => lateClaims[s] > 0 \/ ClaimsSent(s) # {}
                /\ lateClaims[s] > 0 \/ ClaimsSent(s) # {} => lateClaims'[s] > 0
<1>1. ASSUME NEW s \in Settlements
      PROVE  /\ Cardinality(ClaimsSent(s)) \in Nat
             /\ Cardinality(ClaimsSent(s)) = 0 <=> ClaimsSent(s) = {}
  <2>1. IsFiniteSet(ClaimsSent(s))
    BY PassesAssumption, FS_Subset DEF ClaimsSent
  <2>. QED BY <2>1, FS_CardinalityType, FS_EmptySet
<1>2. /\ lateProposals \in [Settlements -> Nat] /\ lateClaims \in [Settlements -> Nat]
  BY DEF TypeOK, LedgerTypeOK
<1>3. lateClaims' = [s \in Settlements |-> lateClaims[s] + Cardinality(ClaimsSent(s))]
  BY DEF Crash
<1>4. lateProposals' \in [Settlements -> Nat]
  <2>1. \A s \in Settlements : lateProposals[s] + (IF sub[s].req = "sent" THEN 1 ELSE 0) \in Nat
    BY <1>2
  <2>2. lateProposals' = [s \in Settlements |->
          lateProposals[s] + (IF sub[s].req = "sent" THEN 1 ELSE 0)]
    BY DEF Crash
  <2>. QED BY <2>1, <2>2
<1>5. lateClaims' \in [Settlements -> Nat]
  BY <1>1, <1>2, <1>3
<1>6. ASSUME NEW s \in Settlements
      PROVE  /\ lateClaims'[s] > 0 => lateClaims[s] > 0 \/ ClaimsSent(s) # {}
             /\ lateClaims[s] > 0 \/ ClaimsSent(s) # {} => lateClaims'[s] > 0
  BY <1>1, <1>2, <1>3
<1>. QED BY <1>4, <1>5, <1>6

LEMMA LateProposalStep ==
    ASSUME IInv, NEW s \in Settlements, LateProposal(s) PROVE IInv'
<1>1. /\ UNCHANGED <<accepts, verdicts, claims, lateClaims, nodeVars, clock, crashes, outcomes>>
      /\ proposals' \in [Settlements -> Nat] /\ lateProposals' \in [Settlements -> Nat]
      /\ answerLost' = TRUE
      /\ \A t \in Settlements : proposals[t] > 0 => proposals'[t] > 0
  BY DEF IInv, TypeOK, LedgerTypeOK, LateProposal, RecordLateProposal
<1>2. TypeOK'
  BY <1>1 DEF IInv, TypeOK, LedgerTypeOK, nodeVars, outcomes
<1>3. AwaitsAreJustified' /\ FlagsAreTrue' /\ ClaimNeedsBothParties' /\ ClosedIsPaid'
  BY <1>1 DEF IInv, nodeVars, AwaitsAreJustified, FlagsAreTrue, ClaimNeedsBothParties,
     ClosedIsPaid
<1>4. AppliedIsRecorded' /\ TrackedIsOnChain'
  BY <1>1 DEF IInv, TypeOK, nodeVars, AppliedIsRecorded, TrackedIsOnChain
<1>. QED BY <1>2, <1>3, <1>4 DEF IInv

LEMMA LateClaimStep ==
    ASSUME IInv, NEW s \in Settlements, LateClaim(s) PROVE IInv'
<1>1. /\ UNCHANGED <<accepts, verdicts, proposals, lateProposals, nodeVars, clock,
                     crashes, outcomes>>
      /\ claims' \in [Settlements -> Nat] /\ lateClaims' \in [Settlements -> Nat]
      /\ answerLost' = TRUE
      /\ lateClaims[s] > 0
      /\ \A t \in Settlements : t # s => /\ claims'[t] = claims[t]
                                        /\ lateClaims'[t] = lateClaims[t]
      /\ \A t \in Settlements : claims[t] > 0 => claims'[t] > 0
  BY DEF IInv, TypeOK, LedgerTypeOK, LateClaim, RecordLateClaim
<1>2. accepts[s] = Parties
  BY <1>1 DEF IInv, AwaitsAreJustified
<1>3. TypeOK'
  BY <1>1 DEF IInv, TypeOK, LedgerTypeOK, nodeVars, outcomes
<1>4. AwaitsAreJustified' /\ FlagsAreTrue' /\ ClaimNeedsBothParties'
  BY <1>1, <1>2 DEF IInv, nodeVars, AwaitsAreJustified, FlagsAreTrue, ClaimNeedsBothParties
<1>5. AppliedIsRecorded' /\ TrackedIsOnChain' /\ ClosedIsPaid'
  BY <1>1 DEF IInv, TypeOK, nodeVars, AwaitsAreJustified, AppliedIsRecorded,
     TrackedIsOnChain, ClosedIsPaid
<1>. QED BY <1>3, <1>4, <1>5 DEF IInv

LEMMA CrashStep == ASSUME IInv, Crash PROVE IInv'
<1>1. \A s \in Settlements :
        /\ [NoSub EXCEPT !.pc = "failed"] \in Submission
        /\ [NoSub EXCEPT !.pc = "failed"].req = "idle" /\ NoSub.req = "idle"
        /\ [obj[s] EXCEPT !.status = "forgotten", !.acc = {}, !.seen = {}] \in Object
        /\ [obj[s] EXCEPT !.status = "forgotten", !.acc = {}, !.seen = {}].acc = {}
        /\ [obj[s] EXCEPT !.status = "forgotten", !.acc = {}, !.seen = {}].status
             = "forgotten"
        /\ NoObj.acc = {} /\ NoObj.status = "none"
  BY ConstantRecords DEF IInv, TypeOK, NoSub, Submission, SubPc, NoObj,
     Object, Status
<1>2. sub' \in [Settlements -> Submission] /\ pass' \in [Passes -> Pass]
  BY <1>1, ConstantRecords DEF Crash
<1>3. obj' \in [Settlements -> Object]
  BY <1>1, ConstantRecords DEF Crash
<1>c. /\ lateProposals' \in [Settlements -> Nat] /\ lateClaims' \in [Settlements -> Nat]
      /\ \A s \in Settlements :
           lateClaims'[s] > 0 => lateClaims[s] > 0 \/ ClaimsSent(s) # {}
  BY LateAtCrash DEF IInv
<1>4. TypeOK'
  <2>1. LedgerTypeOK' /\ tracked' \in SUBSET Settlements
    BY <1>c DEF IInv, TypeOK, outcomes, LedgerTypeOK, Crash
  <2>2. clock' \in 0..MaxClock /\ crashes' \in Nat
    <3>1. clock' = clock /\ crashes' = crashes + 1
      BY DEF Crash
    <3>. QED BY <3>1, ClockAssumption DEF IInv, TypeOK
  <2>3. /\ answerLost' \in BOOLEAN
        /\ agreedInTime' \in [Settlements -> BOOLEAN] /\ upheldFirst' \in SUBSET Settlements
    BY DEF IInv, TypeOK, Crash, outcomes
  <2>. QED BY <1>2, <1>3, <2>1, <2>2, <2>3 DEF TypeOK
<1>j. \A s \in Settlements : ClaimsSent(s) # {} => accepts[s] = Parties
  BY DEF IInv, AwaitsAreJustified, ClaimsSent
<1>5. AwaitsAreJustified' /\ AppliedIsRecorded'
  <2>1. /\ accepts' = accepts /\ \A s \in Settlements : sub'[s].req # "applied"
        /\ \A p \in Passes : pass'[p].pc = "idle"
    BY <1>1 DEF Crash, IdlePass
  <2>2. \A s \in Settlements : lateClaims'[s] > 0 => accepts'[s] = Parties
    BY <1>c, <1>j, <2>1 DEF IInv, AwaitsAreJustified
  <2>. QED BY <2>1, <2>2 DEF AwaitsAreJustified, AppliedIsRecorded
<1>6. FlagsAreTrue' /\ ClosedIsPaid'
  BY <1>1 DEF IInv, Crash, IdlePass, FlagsAreTrue, ClosedIsPaid
<1>7. TrackedIsOnChain' /\ ClaimNeedsBothParties'
  BY DEF IInv, Crash, TrackedIsOnChain, ClaimNeedsBothParties
<1>. QED BY <1>4, <1>5, <1>6, <1>7 DEF IInv

\* Time alone, and a stuttering step, change nothing IInv speaks of.
LEMMA QuietStep ==
    ASSUME IInv, Tick \/ UNCHANGED vars PROVE IInv'
<1>1. clock' \in 0..MaxClock
  BY ClockAssumption DEF IInv, TypeOK, Tick, vars, envVars
<1>2. UNCHANGED <<ledgerVars, nodeVars, crashes, answerLost, outcomes>>
  BY DEF Tick, vars, envVars
<1>. QED BY <1>1, <1>2 DEF IInv, TypeOK, outcomes, LedgerTypeOK, ledgerVars, nodeVars,
     AwaitsAreJustified, AppliedIsRecorded, FlagsAreTrue, TrackedIsOnChain,
     ClaimNeedsBothParties, ClosedIsPaid

-------------------------------------------------------------------------------

LEMMA IInvIsInductive == IInv /\ [Next]_vars => IInv'
<1> SUFFICES ASSUME IInv, [Next]_vars PROVE IInv'
  OBVIOUS
<1>1. ASSUME NEW s \in Settlements, SubmitNext(s) PROVE IInv'
  BY <1>1, CreateStep, ApplyProposalStep, SubmitSucceedsStep, ProposeFailsStep,
     SubmitRetryStep DEF SubmitNext
<1>2. ASSUME NEW p \in Passes, StartPass(p) \/ ScanNext(p) PROVE IInv'
  BY <1>2, StartPassStep, EndPassStep, ExpireStep, CloseExpiredStep, AskStatusStep
  DEF ScanNext
<1>3. ASSUME NEW p \in Passes, ReplyNext(p) PROVE IInv'
  BY <1>3, AnswerStatusStep, ReadStatusStep, LoseStatusStep, ApplyClaimStep,
     PayoutSucceedsStep, ClaimAgainStep, PayoutFailsStep DEF ReplyNext
<1>4. CASE EnvNext
  BY <1>4, PartyAcceptsStep, ChallengeMovesStep, LateProposalStep, LateClaimStep,
     QuietStep, CrashStep DEF EnvNext
<1>5. CASE UNCHANGED vars
  BY <1>5, QuietStep
<1>. QED BY <1>1, <1>2, <1>3, <1>4, <1>5 DEF Next, PassNext

\* In every state the inductive invariant holds, whatever answers are lost, at
\* whatever point the node crashes and however many passes overlap.
THEOREM IInvAlways == Spec => []IInv
<1>1. Init => IInv
  BY InitEstablishesIInv
<1>2. IInv /\ [Next]_vars => IInv'
  BY IInvIsInductive
<1>. QED BY <1>1, <1>2, PTL DEF Spec

\* Every variable of the manager and of the ledger keeps its type.
THEOREM TypeCorrectness == Spec => []TypeOK
BY IInvAlways, PTL DEF IInv

\* An entry of activeSettlements always has a proposal on the ledger.
THEOREM TrackedIsOnChainAlways == Spec => []TrackedIsOnChain
BY IInvAlways, PTL DEF IInv

\* No fee is ever claimed for a settlement that lacks an acceptance.
THEOREM ClaimNeedsBothPartiesAlways == Spec => []ClaimNeedsBothParties
BY IInvAlways, PTL DEF IInv

\* A settlement whose status is closed has been paid.
THEOREM ClosedIsPaidAlways == Spec => []ClosedIsPaid
BY IInvAlways, PTL DEF IInv

-------------------------------------------------------------------------------
(* What a submission and a pass may do                                     *)

Awaits(p) == pass[p].pc \in {"status", "payout", "entry"}
Claiming(p) == pass[p].pc \in {"payout", "entry"}

\* The stages of a submission, and what cannot be there before its last one: a
\* watcher, an outcome, a claim.
BegunInOrder ==
    /\ \A s \in Settlements :
         /\ sub[s].req # "idle" <=> sub[s].pc \in {"propose", "entry"}
         /\ sub[s].pc = "none" => obj[s].status = "none"
         /\ sub[s].pc \in {"propose", "entry"} => obj[s].status = "proposed"
         /\ claims[s] > 0 \/ lateClaims[s] > 0 => sub[s].pc \in {"submitted", "failed"}
         /\ accepts[s] # {} => proposals[s] > 0
         /\ sub[s].pc = "submitted" => proposals[s] > 0
         /\ obj[s].status \in {"closed", "rejected"} => proposals[s] > 0
         /\ s \in tracked => sub[s].pc = "submitted"
    /\ \A p \in Passes : Awaits(p) => sub[pass[p].cur].pc = "submitted"

\* While nothing given up on is applied, a proposal is on the ledger when its request was
\* applied and not before.
SentOnce ==
    ~answerLost /\ crashes = 0 =>
        \A s \in Settlements :
            /\ proposals[s] <= 1
            /\ sub[s].pc \in {"none", "failed"} \/ sub[s].req = "sent"
                 => proposals[s] = 0

SubmissionInv == IInv /\ BegunInOrder /\ SentOnce

LEMMA FreshPasses ==
    ASSUME NEW p \in Passes, TypeOK, NEW s \in Settlements
    PROVE  /\ Onward(p, s)[p].pc = "scan"
           /\ \A q \in Passes \ {p} : Onward(p, s)[q] = pass[q]
BY DEF Onward, TypeOK, Pass, IdlePass

LEMMA FreshAwaits ==
    ASSUME NEW p \in Passes, TypeOK, NEW s \in Settlements,
           NEW k \in {"status", "payout"},
           pass' = [pass EXCEPT ![p] = [IdlePass EXCEPT
                      !.pc = k, !.now = pass[p].now,
                      !.visited = pass[p].visited \cup {s},
                      !.cur = s, !.req = "sent"]]
    PROVE  /\ pass'[p].pc = k /\ pass'[p].cur = s
           /\ pass'[p].req = "sent" /\ pass'[p].reply = NoReply
           /\ \A q \in Passes \ {p} : pass'[q] = pass[q]
<1>1. PICK r : r = [IdlePass EXCEPT !.pc = k, !.now = pass[p].now,
                      !.visited = pass[p].visited \cup {s}, !.cur = s, !.req = "sent"]
  OBVIOUS
<1>2. r.pc = k /\ r.cur = s /\ r.req = "sent" /\ r.reply = NoReply
  BY <1>1 DEF IdlePass
<1>. QED BY <1>1, <1>2 DEF TypeOK

\* A step of pass p moves no submission, brings no entry into the map, and
\* touches the status or the claims of a settlement only if it found it in the
\* map or was awaiting something for it.
PassEffect(p) ==
    /\ UNCHANGED <<proposals, lateProposals, accepts, verdicts, sub, clock, crashes, outcomes>>
    /\ tracked' \subseteq tracked
    /\ answerLost => answerLost'
    /\ \A q \in Passes \ {p} : pass'[q] = pass[q]
    /\ Awaits(p)' => \/ pass'[p].cur \in tracked
                     \/ Awaits(p) /\ pass'[p].cur = pass[p].cur
    /\ \A s \in Settlements :
         obj'[s].status # obj[s].status =>
             s \in tracked \/ (Awaits(p) /\ s = pass[p].cur)
    /\ \A s \in Settlements :
         /\ claims'[s] # claims[s] => Claiming(p) /\ s = pass[p].cur
         /\ lateClaims'[s] # lateClaims[s] => Claiming(p) /\ s = pass[p].cur
         /\ lateClaims[s] > 0 => lateClaims'[s] > 0

LEMMA CloseEffect ==
    ASSUME IInv, NEW p \in Passes, NEW s \in Settlements, NEW o \in Object,
           o.status = obj[s].status, BeginClose(p, s, o),
           s \in tracked \/ (Awaits(p) /\ s = pass[p].cur),
           UNCHANGED <<ledgerVars, sub, envVars>>
    PROVE  PassEffect(p)
<1> USE DEF PassEffect, IInv, ledgerVars, envVars, outcomes
<1>1. CASE /\ obj' = [obj EXCEPT ![s] = [o EXCEPT !.status = "rejected"]]
           /\ tracked' = tracked \ {s}
           /\ pass' = Onward(p, s)
  <2>1. pass'[p].pc = "scan" /\ \A q \in Passes \ {p} : pass'[q] = pass[q]
    BY <1>1, FreshPasses
  <2>. QED BY <1>1, <2>1 DEF TypeOK, Awaits
<1>2. CASE /\ obj' = [obj EXCEPT ![s] = o]
           /\ tracked' = tracked
           /\ pass' = [pass EXCEPT ![p] = [IdlePass EXCEPT
                         !.pc = "payout", !.now = pass[p].now,
                         !.visited = pass[p].visited \cup {s},
                         !.cur = s, !.req = "sent"]]
  <2>1. pass'[p].cur = s /\ \A q \in Passes \ {p} : pass'[q] = pass[q]
    BY <1>2, FreshAwaits
  <2>. QED BY <1>2, <2>1 DEF TypeOK
<1>. QED BY <1>1, <1>2 DEF BeginClose

LEMMA ScanEffect ==
    ASSUME IInv, NEW p \in Passes, StartPass(p) \/ ScanNext(p)
    PROVE  PassEffect(p)
<1> USE DEF PassEffect, Awaits, IInv, TypeOK, ledgerVars, envVars, outcomes
<1>1. CASE StartPass(p) \/ EndPass(p)
  <2>1. pass'[p].pc \in {"scan", "idle"} /\ \A q \in Passes \ {p} : pass'[q] = pass[q]
    <3>1. PICK r : r = [IdlePass EXCEPT !.pc = "scan", !.now = clock]
      OBVIOUS
    <3>2. r.pc = "scan" /\ IdlePass.pc = "idle"
      BY <3>1 DEF IdlePass
    <3>. QED BY <1>1, <3>1, <3>2 DEF StartPass, EndPass
  <2>2. UNCHANGED <<ledgerVars, obj, tracked, sub, envVars>>
    BY <1>1 DEF StartPass, EndPass
  <2>. QED BY <2>1, <2>2
<1>2. ASSUME NEW s \in Settlements, Expire(p, s) PROVE PassEffect(p)
  BY <1>2, FreshPasses DEF Expire, Visit, Unvisited, Object
<1>3. ASSUME NEW s \in Settlements, CloseExpired(p, s) PROVE PassEffect(p)
  BY <1>3, CloseEffect DEF CloseExpired, Visit, Unvisited
<1>4. ASSUME NEW s \in Settlements, AskStatus(p, s) PROVE PassEffect(p)
  BY <1>4, FreshAwaits DEF AskStatus, Visit, Unvisited
<1>. QED BY <1>1, <1>2, <1>3, <1>4 DEF ScanNext

LEMMA ReplyEffect ==
    ASSUME IInv, NEW p \in Passes, ReplyNext(p)
    PROVE  PassEffect(p)
<1> USE DEF PassEffect, Awaits, Claiming, IInv, TypeOK, ledgerVars,
         envVars, outcomes
<1>c. Awaits(p) => pass[p].cur \in Settlements
  BY DEF AwaitsAreJustified
<1>1. CASE AnswerStatus(p)
  BY <1>1 DEF AnswerStatus, Pass
<1>2. CASE ReadStatus(p) \/ LoseStatus(p)
  <2>1. PICK r \in Reply : /\ pass[p].pc = "status" /\ AfterStatus(p, r)
                           /\ UNCHANGED <<ledgerVars, sub, envVars>>
    <3>1. NoReply \in Reply /\ pass[p].reply \in Reply
      BY PassFields DEF NoReply, Reply
    <3>. QED BY <1>2, <3>1 DEF ReadStatus, LoseStatus
  <2>2. pass[p].cur \in Settlements
    BY <1>c, <2>1
  <2>3. PICK o \in Object : /\ o = Merge(obj[pass[p].cur], r)
                            /\ o.status = obj[pass[p].cur].status
    <3>1. obj[pass[p].cur] \in Object
      BY <2>2
    <3>2. Merge(obj[pass[p].cur], r) \in Object
      BY <3>1, MergeType
    <3>3. Merge(obj[pass[p].cur], r).status = obj[pass[p].cur].status
      BY <3>1 DEF Merge, Object
    <3>. QED BY <3>2, <3>3
  <2>4. CASE BeginClose(p, pass[p].cur, o)
    BY <2>1, <2>2, <2>3, <2>4, CloseEffect
  <2>5. CASE /\ obj' = [obj EXCEPT ![pass[p].cur] = o]
             /\ tracked' = tracked
             /\ pass' = Onward(p, pass[p].cur)
    BY <2>1, <2>2, <2>3, <2>5, FreshPasses
  <2>. QED BY <2>1, <2>3, <2>4, <2>5 DEF AfterStatus
<1>3. CASE ApplyClaim(p)
  BY <1>c, <1>3 DEF ApplyClaim, RecordClaim, LedgerTypeOK, Pass
<1>4. CASE PayoutSucceeds(p)
  BY <1>c, <1>4, FreshPasses DEF PayoutSucceeds, Object
<1>5. CASE PayoutFallsBack(p) \/ PayoutRetry(p)
  <2>1. pass[p].cur \in Settlements /\ AbandonClaim(pass[p].cur, pass[p].req)
    BY <1>c, <1>5 DEF PayoutFallsBack, PayoutRetry
  <2>. QED BY <1>5, <2>1, AbandonedClaim DEF PayoutFallsBack, PayoutRetry, Pass
<1>6. CASE PayoutFails(p)
  <2>1. pass[p].cur \in Settlements /\ AbandonClaim(pass[p].cur, pass[p].req)
    BY <1>c, <1>6 DEF PayoutFails
  <2>. QED BY <1>6, <2>1, AbandonedClaim, FreshPasses DEF PayoutFails
<1>. QED BY <1>1, <1>2, <1>3, <1>4, <1>5, <1>6 DEF ReplyNext

\* A crash is the only step of the node or of its environment that lets go of
\* the map.
EnvEffect ==
    /\ UNCHANGED <<proposals, claims, lateClaims, nodeVars, crashes, answerLost>>
    /\ \A s \in Settlements :
         /\ accepts[s] \subseteq accepts'[s]
         /\ accepts'[s] # accepts[s] => proposals[s] > 0

LEMMA QuietEffect ==
    ASSUME IInv, \/ \E s \in Settlements, q \in Parties : PartyAccepts(s, q)
                 \/ \E s \in Settlements, v \in ChallengeStatus : ChallengeMoves(s, v)
                 \/ Tick
                 \/ UNCHANGED vars
    PROVE  EnvEffect
BY DEF EnvEffect, IInv, TypeOK, LedgerTypeOK, PartyAccepts, RecordAccept,
   ChallengeMoves, RecordVerdict, Tick, vars, ledgerVars, envVars, nodeVars

LEMMA SubmissionStart == Init => SubmissionInv
BY InitEstablishesIInv DEF Init, LedgerInit, NoSub, NoObj, IdlePass, SubmissionInv,
   BegunInOrder, SentOnce, Awaits

LEMMA SubmissionPassStep ==
    ASSUME SubmissionInv, NEW p \in Passes, PassNext(p)
    PROVE  (BegunInOrder /\ SentOnce)'
<1> USE DEF SubmissionInv
<1>1. PassEffect(p)
  BY ScanEffect, ReplyEffect DEF PassNext
<1>2. Awaits(p) => sub[pass[p].cur].pc = "submitted"
  BY DEF BegunInOrder
<1>3. BegunInOrder'
  <2>1. \A s \in Settlements :
          /\ claims'[s] # claims[s] => sub[s].pc = "submitted"
          /\ lateClaims'[s] # lateClaims[s] => sub[s].pc = "submitted"
          /\ obj'[s].status # obj[s].status => sub[s].pc = "submitted"
    BY <1>1, <1>2 DEF PassEffect, BegunInOrder, Awaits, Claiming
  <2>2. \A s \in Settlements :
          /\ sub'[s].req # "idle" <=> sub'[s].pc \in {"propose", "entry"}
          /\ sub'[s].pc = "none" => obj'[s].status = "none"
          /\ sub'[s].pc \in {"propose", "entry"} => obj'[s].status = "proposed"
          /\ claims'[s] > 0 \/ lateClaims'[s] > 0 => sub'[s].pc \in {"submitted", "failed"}
          /\ accepts'[s] # {} => proposals'[s] > 0
          /\ sub'[s].pc = "submitted" => proposals'[s] > 0
          /\ obj'[s].status \in {"closed", "rejected"} => proposals'[s] > 0
          /\ s \in tracked' => sub'[s].pc = "submitted"
    BY <1>1, <2>1 DEF PassEffect, BegunInOrder
  <2>3. \A q \in Passes \ {p} : Awaits(q)' => sub'[pass'[q].cur].pc = "submitted"
    BY <1>1 DEF PassEffect, BegunInOrder, Awaits
  <2>4. Awaits(p)' => sub'[pass'[p].cur].pc = "submitted"
    BY <1>1, <1>2 DEF PassEffect, BegunInOrder, IInv, TypeOK
  <2>. QED BY <2>2, <2>3, <2>4 DEF BegunInOrder, Awaits
<1>4. SentOnce'
  BY <1>1 DEF PassEffect, SentOnce
<1>. QED BY <1>3, <1>4

LEMMA SubmissionQuietStep ==
    ASSUME SubmissionInv, EnvEffect
    PROVE  (BegunInOrder /\ SentOnce)'
BY DEF SubmissionInv, IInv, TypeOK, LedgerTypeOK, EnvEffect, nodeVars, BegunInOrder,
   SentOnce, Awaits

LEMMA SubmissionCrashStep ==
    ASSUME SubmissionInv, Crash
    PROVE  (BegunInOrder /\ SentOnce)'
<1>c. /\ UNCHANGED <<proposals, accepts, claims>>
      /\ \A s \in Settlements :
           lateClaims'[s] > 0 => lateClaims[s] > 0 \/ ClaimsSent(s) # {}
  BY LateAtCrash DEF SubmissionInv, IInv, Crash
<1>s. \A s \in Settlements : ClaimsSent(s) # {} => sub[s].pc = "submitted"
  BY DEF SubmissionInv, BegunInOrder, ClaimsSent, Awaits
<1>k. \A s \in Settlements :
        IF sub[s].pc = "none" THEN sub'[s].pc = "none" /\ sub'[s].req = "idle"
                                   /\ obj'[s].status = "none"
        ELSE sub'[s].pc = "failed" /\ sub'[s].req = "idle" /\ obj'[s].status = "forgotten"
  BY DEF SubmissionInv, IInv, TypeOK, Object, Crash, NoSub, NoObj
<1>1. BegunInOrder'
  <2>1. tracked' = {} /\ \A p \in Passes : pass'[p].pc = "idle"
    BY DEF Crash, IdlePass
  <2>2. \A s \in Settlements :
          claims'[s] > 0 \/ lateClaims'[s] > 0 => sub'[s].pc \in {"submitted", "failed"}
    BY <1>c, <1>s, <1>k DEF SubmissionInv, BegunInOrder
  <2>3. \A s \in Settlements : accepts'[s] # {} => proposals'[s] > 0
    BY <1>c DEF SubmissionInv, BegunInOrder
  <2>. QED BY <1>k, <2>1, <2>2, <2>3 DEF BegunInOrder, Awaits
<1>2. crashes' # 0
  <2>1. crashes \in Nat /\ crashes' = crashes + 1
    BY DEF SubmissionInv, IInv, TypeOK, Crash
  <2>. QED BY <2>1
<1>. QED BY <1>1, <1>2 DEF SentOnce

\* A late request was sent by a submission, or a pass, of its time.
LEMMA SubmissionLateStep ==
    ASSUME SubmissionInv, NEW s \in Settlements, LateProposal(s) \/ LateClaim(s)
    PROVE  (BegunInOrder /\ SentOnce)'
<1>1. /\ UNCHANGED <<accepts, obj, tracked, sub, pass>>
      /\ answerLost'
  BY DEF LateProposal, LateClaim, RecordLateProposal, RecordLateClaim, nodeVars
<1>2. \A t \in Settlements :
        /\ claims'[t] > 0 \/ lateClaims'[t] > 0 => claims[t] > 0 \/ lateClaims[t] > 0
        /\ proposals[t] > 0 => proposals'[t] > 0
  BY DEF SubmissionInv, IInv, TypeOK, LedgerTypeOK, LateProposal, LateClaim,
     RecordLateProposal, RecordLateClaim
<1>3. BegunInOrder'
  BY <1>1, <1>2 DEF SubmissionInv, BegunInOrder, Awaits
<1>. QED BY <1>1, <1>3 DEF SentOnce

\* Every step of submitSettlement replaces the record of one submission.
LEMMA SubmissionRecords ==
    /\ NoSub.pc = "none" /\ NoSub.req = "idle"
    /\ [NoSub EXCEPT !.pc = "failed"].pc = "failed"
    /\ [NoSub EXCEPT !.pc = "failed"].req = "idle"
    /\ [NoSub EXCEPT !.pc = "submitted"].pc = "submitted"
    /\ [NoSub EXCEPT !.pc = "submitted"].req = "idle"
BY DEF NoSub

\* A step that puts record r in the place of the unfinished submission of s and
\* leaves the other settlements, the passes, the claims and the crashes alone.
Advances(s, r) ==
    /\ sub[s].pc \in {"none", "propose", "entry"}
    /\ sub' = [sub EXCEPT ![s] = r]
    /\ r.pc \in {"propose", "entry", "submitted", "failed"}
    /\ r.req # "idle" <=> r.pc \in {"propose", "entry"}
    /\ UNCHANGED <<claims, lateClaims, accepts, pass, crashes>>
    /\ r.pc = "submitted" => proposals'[s] > 0
    /\ proposals[s] > 0 => proposals'[s] > 0
    /\ \A t \in Settlements \ {s} :
         /\ obj'[t].status = obj[t].status
         /\ proposals'[t] = proposals[t]
         /\ t \in tracked' <=> t \in tracked
    /\ obj'[s].status = "proposed"
    /\ s \in tracked' => r.pc = "submitted"
    /\ r.pc \in {"submitted", "failed"} => proposals' = proposals
    /\ answerLost => answerLost'
    /\ ~answerLost' /\ crashes = 0 =>
         /\ proposals'[s] <= 1
         /\ r.pc = "failed" \/ r.req = "sent" => proposals'[s] = 0

LEMMA SubmissionAdvances ==
    ASSUME SubmissionInv, NEW s \in Settlements, NEW r, Advances(s, r)
    PROVE  (BegunInOrder /\ SentOnce)'
<1> USE DEF SubmissionInv, Advances
<1>1. sub'[s] = r /\ \A t \in Settlements \ {s} : sub'[t] = sub[t]
  BY DEF IInv, TypeOK
<1>2. claims[s] = 0 /\ lateClaims[s] = 0
  BY DEF BegunInOrder, IInv, TypeOK, LedgerTypeOK
<1>3. \A p \in Passes : Awaits(p) => pass[p].cur \in Settlements /\ pass[p].cur # s
  BY DEF BegunInOrder, IInv, AwaitsAreJustified, Awaits
<1>4. BegunInOrder'
  <2>1. \A t \in Settlements \ {s} :
          /\ sub'[t].req # "idle" <=> sub'[t].pc \in {"propose", "entry"}
          /\ sub'[t].pc = "none" => obj'[t].status = "none"
          /\ sub'[t].pc \in {"propose", "entry"} => obj'[t].status = "proposed"
          /\ claims'[t] > 0 \/ lateClaims'[t] > 0 => sub'[t].pc \in {"submitted", "failed"}
          /\ accepts'[t] # {} => proposals'[t] > 0
          /\ sub'[t].pc = "submitted" => proposals'[t] > 0
          /\ obj'[t].status \in {"closed", "rejected"} => proposals'[t] > 0
          /\ t \in tracked' => sub'[t].pc = "submitted"
    BY <1>1 DEF BegunInOrder
  <2>2. /\ ~(claims'[s] > 0) /\ ~(lateClaims'[s] > 0)
        /\ accepts'[s] # {} => proposals'[s] > 0
    <3>1. claims'[s] = 0 /\ lateClaims'[s] = 0 /\ accepts'[s] = accepts[s]
      BY <1>2
    <3>2. proposals[s] \in Nat /\ (accepts[s] # {} => proposals[s] > 0)
      BY DEF BegunInOrder, IInv, TypeOK, LedgerTypeOK
    <3>. QED BY <3>1, <3>2
  <2>3. \A p \in Passes : Awaits(p)' => sub'[pass'[p].cur].pc = "submitted"
    BY <1>1, <1>3 DEF BegunInOrder, Awaits
  <2>. QED BY <1>1, <2>1, <2>2, <2>3 DEF BegunInOrder
<1>5. SentOnce'
  BY <1>1 DEF SentOnce
<1>. QED BY <1>4, <1>5

LEMMA SubmissionSteps ==
    ASSUME SubmissionInv, NEW s \in Settlements, SubmitNext(s)
    PROVE  \E r : Advances(s, r)
<1> USE DEF SubmissionInv, ledgerVars, envVars
<1>t. /\ sub \in [Settlements -> Submission] /\ sub[s].pc \in SubPc
      /\ sub[s].req \in Request
      /\ obj \in [Settlements -> Object] /\ proposals \in [Settlements -> Nat]
  BY DEF IInv, TypeOK, LedgerTypeOK, Submission
<1>b. /\ sub[s].req # "idle" <=> sub[s].pc \in {"propose", "entry"}
      /\ sub[s].pc \in {"propose", "entry"} => obj[s].status = "proposed" /\ s \notin tracked
      /\ sub[s].pc = "none" => s \notin tracked
  BY DEF BegunInOrder
<1>c. ~answerLost /\ crashes = 0 =>
          /\ proposals[s] <= 1
          /\ sub[s].pc \in {"none", "failed"} \/ sub[s].req = "sent" => proposals[s] = 0
  BY DEF SentOnce
<1>1. CASE Create(s)
  <2>1. PICK r : /\ sub' = [sub EXCEPT ![s] = r]
                 /\ r.pc \in {"propose", "failed"}
                 /\ r.req # "idle" <=> r.pc = "propose"
    <3>1. PICK a : a = [pc |-> "propose", left |-> 0, req |-> "sent"]
      OBVIOUS
    <3>2. PICK f : f = [NoSub EXCEPT !.pc = "failed"]
      OBVIOUS
    <3>3. a.pc = "propose" /\ a.req = "sent" /\ f.pc = "failed" /\ f.req = "idle"
      BY <3>1, <3>2, SubmissionRecords
    <3>4. sub' = [sub EXCEPT ![s] = a] \/ sub' = [sub EXCEPT ![s] = f]
      BY <1>1, <3>1, <3>2 DEF Create
    <3>. QED BY <3>3, <3>4
  <2>2. PICK o : o = [NoObj EXCEPT !.status = "proposed", !.deadline = clock + Window]
    OBVIOUS
  <2>3. o.status = "proposed" /\ obj' = [obj EXCEPT ![s] = o]
    BY <1>1, <2>2 DEF NoObj, Create
  <2>4. obj'[s].status = "proposed" /\ \A t \in Settlements \ {s} : obj'[t] = obj[t]
    BY <1>t, <2>3
  <2>5. /\ UNCHANGED <<proposals, claims, lateClaims, accepts, pass, crashes, answerLost, tracked>>
        /\ sub[s].pc = "none"
    BY <1>1 DEF Create
  <2>6. Advances(s, r)
    BY <1>t, <1>b, <1>c, <2>1, <2>4, <2>5 DEF Advances
  <2>. QED BY <2>6
<1>2. CASE ApplyProposal(s)
  <2>1. PICK r : r = [sub[s] EXCEPT !.req = "applied"]
    OBVIOUS
  <2>2. r.pc = sub[s].pc /\ r.req = "applied" /\ sub' = [sub EXCEPT ![s] = r]
    BY <1>t, <1>2, <2>1 DEF ApplyProposal, Submission
  <2>3. /\ proposals'[s] = proposals[s] + 1
        /\ \A t \in Settlements \ {s} : proposals'[t] = proposals[t]
    BY <1>t, <1>2 DEF ApplyProposal, RecordProposal
  <2>4. /\ UNCHANGED <<claims, lateClaims, accepts, pass, crashes, answerLost, tracked, obj>>
        /\ sub[s].req = "sent"
    BY <1>2 DEF ApplyProposal, RecordProposal
  <2>5. proposals[s] > 0 => proposals'[s] > 0
    BY <1>t, <2>3
  <2>6. sub[s].pc \in {"propose", "entry"} /\ obj[s].status = "proposed" /\ s \notin tracked
    BY <1>b, <2>4
  <2>7. ~answerLost /\ crashes = 0 => proposals'[s] <= 1
    BY <1>c, <2>3, <2>4
  <2>8. Advances(s, r)
    BY <2>2, <2>3, <2>4, <2>5, <2>6, <2>7 DEF Advances
  <2>. QED BY <2>8
<1>3. CASE SubmitSucceeds(s)
  <2>1. /\ UNCHANGED <<proposals, claims, lateClaims, accepts, pass, crashes, answerLost, obj>>
        /\ tracked' = tracked \cup {s} /\ sub[s].req = "applied"
        /\ proposals[s] > 0
    BY <1>3 DEF SubmitSucceeds, IInv, AppliedIsRecorded
  <2>2. sub[s].pc \in {"propose", "entry"} /\ obj[s].status = "proposed"
    BY <1>b, <2>1
  <2>3. PICK r : r = [NoSub EXCEPT !.pc = "submitted"]
    OBVIOUS
  <2>4. sub' = [sub EXCEPT ![s] = r] /\ r.pc = "submitted" /\ r.req = "idle"
    BY <1>3, <2>3, SubmissionRecords DEF SubmitSucceeds
  <2>5. Advances(s, r)
    BY <1>t, <1>c, <2>1, <2>2, <2>4 DEF Advances
  <2>. QED BY <2>5
<1>4. CASE ProposeFails(s) \/ SubmitRetry(s)
  <2>1. /\ UNCHANGED <<proposals, claims, lateClaims, accepts, pass, crashes, tracked, obj>>
        /\ sub[s].pc \in {"propose", "entry"}
        /\ answerLost' = (answerLost \/ sub[s].req = "applied")
    BY <1>4, AbandonedProposal DEF IInv, ProposeFails, SubmitRetry
  <2>2. PICK r : /\ sub' = [sub EXCEPT ![s] = r]
                 /\ r.pc \in {"entry", "failed"}
                 /\ r.req = IF r.pc = "entry" THEN "sent" ELSE "idle"
    <3>1. PICK f : f = [NoSub EXCEPT !.pc = "failed"]
      OBVIOUS
    <3>2. PICK a : a = [pc |-> "entry", left |-> RetryAttempts, req |-> "sent"]
      OBVIOUS
    <3>3. PICK b : b = [sub[s] EXCEPT !.left = sub[s].left - 1, !.req = "sent"]
      OBVIOUS
    <3>4. b.pc = sub[s].pc /\ b.req = "sent"
      BY <1>t, <3>3 DEF Submission
    <3>5. f.pc = "failed" /\ f.req = "idle" /\ a.pc = "entry" /\ a.req = "sent"
      BY <3>1, <3>2, SubmissionRecords
    <3>6. \/ sub' = [sub EXCEPT ![s] = f] \/ sub' = [sub EXCEPT ![s] = a]
          \/ sub[s].pc = "entry" /\ sub' = [sub EXCEPT ![s] = b]
      BY <1>4, <3>1, <3>2, <3>3 DEF ProposeFails, SubmitRetry
    <3>. QED BY <3>4, <3>5, <3>6
  <2>3. ~answerLost' /\ crashes = 0 => proposals[s] = 0
    <3>1. ~answerLost' => ~answerLost /\ sub[s].req # "applied"
      BY <2>1
    <3>. QED BY <1>b, <1>c, <1>t, <2>1, <3>1 DEF Request
  <2>4. answerLost => answerLost'
    BY <2>1
  <2>5. Advances(s, r)
    BY <1>t, <1>b, <2>1, <2>2, <2>3, <2>4 DEF Advances
  <2>. QED BY <2>5
<1>. QED BY <1>1, <1>2, <1>3, <1>4 DEF SubmitNext

LEMMA SubmissionNextStep ==
    ASSUME SubmissionInv, NEW s \in Settlements, SubmitNext(s)
    PROVE  (BegunInOrder /\ SentOnce)'
BY SubmissionSteps, SubmissionAdvances

LEMMA SubmissionNext == SubmissionInv /\ [Next]_vars => SubmissionInv'
<1> SUFFICES ASSUME SubmissionInv, [Next]_vars PROVE SubmissionInv'
  OBVIOUS
<1>1. IInv'
  BY IInvIsInductive DEF SubmissionInv
<1>2. (BegunInOrder /\ SentOnce)'
  BY SubmissionNextStep, SubmissionPassStep, QuietEffect, SubmissionQuietStep,
     SubmissionLateStep, SubmissionCrashStep DEF SubmissionInv, Next, EnvNext
<1>. QED BY <1>1, <1>2 DEF SubmissionInv

\* What the ledger has of a settlement follows from how far its submission is; and
\* while nothing given up on is applied a proposal is there once, when its request was
\* (ChainClient.ts:435-460).
THEOREM SubmissionInvAlways == Spec => []SubmissionInv
BY SubmissionStart, SubmissionNext, PTL DEF Spec

\* However often the fallback to /entry is taken and however passes overlap, a
\* proposal is on the ledger twice, or after its submission failed, only when a request
\* given up on was applied or the node crashed (ChainClient.ts:435-460).
THEOREM ProposedOnceAlways == Spec => []ProposedOnce
<1>1. SubmissionInv => ProposedOnce
  BY DEF SubmissionInv, SentOnce, ProposedOnce
<1>. QED BY <1>1, SubmissionInvAlways, PTL

-------------------------------------------------------------------------------
(* What holds while passes do not overlap                                  *)

\* At no time are two monitoring passes alive: what a 60 s timer and calls that
\* are answered at once amount to.  How many passes there are is left open.
PassesApart ==
    \A p, q \in Passes : pass[p].pc # "idle" /\ pass[q].pc # "idle" => p = q

\* What a pass awaits something for is still in the map and undecided; what was
\* claimed, or may yet be by a request given up on, and is still in the map is about
\* to be deleted; and while nothing given up on is applied there is one claim, made
\* by the request that asked for it.
ApartInv ==
    /\ \A p \in Passes : Awaits(p) => pass[p].cur \in tracked
    /\ \A s \in tracked :
         /\ obj[s].status = "proposed"
         /\ claims[s] > 0 \/ lateClaims[s] > 0
              => \E p \in Passes : Claiming(p) /\ pass[p].cur = s
    /\ ~answerLost =>
         /\ \A s \in Settlements : claims[s] <= 1
         /\ \A p \in Passes :
              Claiming(p) /\ pass[p].req # "applied" => claims[pass[p].cur] = 0

AloneInv == SubmissionInv /\ ApartInv

\* The step of a pass after which everything tracked is as it was.
Keeps(p) ==
    /\ UNCHANGED <<tracked, claims>>
    /\ \A s \in Settlements : obj'[s].status = obj[s].status
    /\ Awaits(p)' => pass'[p].cur \in tracked
    /\ Claiming(p) => Claiming(p)' /\ pass'[p].cur = pass[p].cur
    /\ ~answerLost' /\ Claiming(p)' /\ pass'[p].req # "applied"
         => ~answerLost /\ claims[pass'[p].cur] = 0

\* The step in which a pass deletes entry s, with the outcome it has then.
Releases(p, s) ==
    /\ s \in tracked
    /\ tracked' = tracked \ {s}
    /\ claims' = claims
    /\ \A t \in Settlements \ {s} : obj'[t].status = obj[t].status
    /\ ~Awaits(p)'
    /\ Claiming(p) => s = pass[p].cur /\ (claims[s] > 0 \/ lateClaims'[s] > 0)
    /\ \/ /\ obj'[s].status = "rejected" /\ ~Claiming(p)
          /\ claims[s] = 0 /\ lateClaims[s] = 0
       \/ obj'[s].status = "closed" /\ claims[s] > 0
       \/ obj'[s].status = "proposed"

\* The step in which the chain applies the claim of a pass.
Pays(p, s) ==
    /\ s \in tracked /\ accepts[s] = Parties
    /\ UNCHANGED <<tracked, obj, answerLost>>
    /\ claims' = [claims EXCEPT ![s] = @ + 1]
    /\ Claiming(p) /\ pass[p].cur = s /\ pass[p].req = "sent"
    /\ Claiming(p)' /\ pass'[p].cur = s /\ pass'[p].req = "applied"

LEMMA Alone ==
    ASSUME TypeOK, NEW p \in Passes, PassesApart, PassesApart', PassNext(p),
           PassEffect(p)
    PROVE  \A q \in Passes \ {p} : pass[q].pc = "idle" /\ pass'[q].pc = "idle"
<1>1. pass[p].pc # "idle" \/ pass'[p].pc # "idle"
  <2>1. CASE StartPass(p)
    <3>1. PICK r : r = [IdlePass EXCEPT !.pc = "scan", !.now = clock]
      OBVIOUS
    <3>2. r.pc = "scan" /\ pass' = [pass EXCEPT ![p] = r]
      BY <2>1, <3>1 DEF StartPass, IdlePass
    <3>. QED BY <3>2 DEF TypeOK
  <2>2. CASE ScanNext(p)
    BY <2>2 DEF ScanNext, EndPass, Expire, CloseExpired, AskStatus, Visit
  <2>3. CASE ReplyNext(p)
    BY <2>3 DEF ReplyNext, AnswerStatus, ReadStatus, LoseStatus, ApplyClaim,
       PayoutSucceeds, PayoutFallsBack, PayoutRetry, PayoutFails
  <2>. QED BY <2>1, <2>2, <2>3 DEF PassNext
<1>. QED BY <1>1 DEF PassesApart, PassEffect

\* While a pass claims nothing, nothing that is tracked has been claimed.
LEMMA TrackedIsUnclaimed ==
    ASSUME AloneInv, NEW p \in Passes, ~Claiming(p),
           \A q \in Passes \ {p} : pass[q].pc = "idle"
    PROVE  \A s \in tracked : claims[s] = 0 /\ lateClaims[s] = 0
<1>1. /\ tracked \subseteq Settlements /\ claims \in [Settlements -> Nat]
      /\ lateClaims \in [Settlements -> Nat]
  BY DEF AloneInv, SubmissionInv, IInv, TypeOK, LedgerTypeOK
<1>2. \A s \in tracked : ~(claims[s] > 0 \/ lateClaims[s] > 0)
  BY DEF AloneInv, ApartInv, Claiming
<1>. QED BY <1>1, <1>2

\* What a step of the only pass alive does to the map, the outcomes and the claims.
LEMMA PassKinds ==
    ASSUME AloneInv, NEW p \in Passes, PassNext(p),
           \A q \in Passes \ {p} : pass[q].pc = "idle"
    PROVE  Keeps(p) \/ \E s \in Settlements : Releases(p, s) \/ Pays(p, s)
<1> USE DEF AloneInv, SubmissionInv, IInv, ledgerVars, envVars
<1>t. /\ tracked \subseteq Settlements /\ claims \in [Settlements -> Nat]
      /\ obj \in [Settlements -> Object] /\ pass \in [Passes -> Pass]
  BY DEF TypeOK, LedgerTypeOK
<1>a. \A s \in tracked : obj[s].status = "proposed"
  BY DEF ApartInv
<1>c. Awaits(p) => pass[p].cur \in tracked
  BY DEF ApartInv
<1>1. CASE StartPass(p) \/ EndPass(p)
  <2>1. pass'[p].pc \in {"scan", "idle"} /\ pass[p].pc \in {"scan", "idle"}
    <3>1. PICK r : r = [IdlePass EXCEPT !.pc = "scan", !.now = clock]
      OBVIOUS
    <3>2. r.pc = "scan" /\ IdlePass.pc = "idle"
      BY <3>1 DEF IdlePass
    <3>. QED BY <1>t, <1>1, <3>1, <3>2 DEF StartPass, EndPass
  <2>2. UNCHANGED <<ledgerVars, obj, tracked>>
    BY <1>1 DEF StartPass, EndPass
  <2>. QED BY <2>1, <2>2 DEF Keeps, Awaits, Claiming
<1>2. ASSUME NEW s \in Settlements, Expire(p, s) PROVE Releases(p, s)
  <2>1. pass'[p].pc = "scan" /\ ~Claiming(p) /\ s \in tracked
    BY <1>2, FreshPasses DEF Expire, Visit, Unvisited, Claiming
  <2>2. /\ tracked' = tracked \ {s} /\ claims' = claims
        /\ obj'[s].status = "rejected"
        /\ \A t \in Settlements \ {s} : obj'[t] = obj[t]
    BY <1>2, <1>t DEF Expire, Object
  <2>3. claims[s] = 0 /\ lateClaims[s] = 0
    BY <2>1, TrackedIsUnclaimed
  <2>. QED BY <2>1, <2>2, <2>3 DEF Releases, Awaits
<1>3. ASSUME NEW s \in tracked, NEW o \in Object, o.status = obj[s].status,
             BeginClose(p, s, o), UNCHANGED <<ledgerVars, sub, envVars>>, ~Claiming(p)
      PROVE  Keeps(p) \/ Releases(p, s)
  <2>1. s \in Settlements /\ claims[s] = 0 /\ lateClaims[s] = 0
    BY <1>3, <1>t, TrackedIsUnclaimed
  <2>2. CASE /\ obj' = [obj EXCEPT ![s] = [o EXCEPT !.status = "rejected"]]
             /\ tracked' = tracked \ {s}
             /\ pass' = Onward(p, s)
    <3>1. pass'[p].pc = "scan"
      BY <2>1, <2>2, FreshPasses
    <3>2. obj'[s].status = "rejected" /\ \A t \in Settlements \ {s} : obj'[t] = obj[t]
      BY <1>t, <2>1, <2>2 DEF Object
    <3>. QED BY <1>3, <2>1, <2>2, <3>1, <3>2 DEF Releases, Awaits
  <2>3. CASE /\ obj' = [obj EXCEPT ![s] = o]
             /\ tracked' = tracked
             /\ pass' = [pass EXCEPT ![p] = [IdlePass EXCEPT
                           !.pc = "payout", !.now = pass[p].now,
                           !.visited = pass[p].visited \cup {s},
                           !.cur = s, !.req = "sent"]]
    <3>1. pass'[p].pc = "payout" /\ pass'[p].cur = s
      BY <2>1, <2>3, FreshAwaits
    <3>. QED BY <1>t, <1>3, <2>1, <2>3, <3>1 DEF Keeps, Awaits, Claiming
  <2>. QED BY <1>3, <2>2, <2>3 DEF BeginClose
<1>4. ASSUME NEW s \in Settlements, CloseExpired(p, s)
      PROVE  Keeps(p) \/ Releases(p, s)
  <2>1. s \in tracked /\ ~Claiming(p) /\ obj[s] \in Object
    BY <1>4, <1>t DEF CloseExpired, Visit, Unvisited, Claiming
  <2>. QED BY <1>3, <1>4, <2>1 DEF CloseExpired
<1>5. ASSUME NEW s \in Settlements, AskStatus(p, s) PROVE Keeps(p)
  <2>1. s \in tracked /\ ~Claiming(p) /\ UNCHANGED <<claims, tracked, obj>>
    BY <1>5 DEF AskStatus, Visit, Unvisited, Claiming
  <2>2. pass'[p].pc = "status" /\ pass'[p].cur = s
    BY <1>5, FreshAwaits DEF AskStatus
  <2>. QED BY <2>1, <2>2 DEF Keeps, Awaits, Claiming
<1>6. CASE AnswerStatus(p)
  <2>1. pass'[p].pc = "status" /\ pass'[p].cur = pass[p].cur /\ pass[p].pc = "status"
    BY <1>6, <1>t DEF AnswerStatus, Pass
  <2>. QED BY <1>6, <1>c, <2>1 DEF AnswerStatus, Keeps, Awaits, Claiming
<1>7. CASE ReadStatus(p) \/ LoseStatus(p)
  <2>1. PICK r \in Reply : /\ pass[p].pc = "status" /\ AfterStatus(p, r)
                           /\ UNCHANGED <<ledgerVars, sub, envVars>>
    <3>1. NoReply \in Reply /\ pass[p].reply \in Reply
      BY PassFields DEF NoReply, Reply
    <3>. QED BY <1>7, <3>1 DEF ReadStatus, LoseStatus
  <2>2. pass[p].cur \in tracked /\ ~Claiming(p)
    BY <1>c, <2>1 DEF Awaits, Claiming
  <2>3. PICK o \in Object : /\ o = Merge(obj[pass[p].cur], r)
                            /\ o.status = obj[pass[p].cur].status
    <3>1. obj[pass[p].cur] \in Object
      BY <1>t, <2>2
    <3>2. Merge(obj[pass[p].cur], r) \in Object
      BY <3>1, MergeType
    <3>3. Merge(obj[pass[p].cur], r).status = obj[pass[p].cur].status
      BY <3>1 DEF Merge, Object
    <3>. QED BY <3>2, <3>3
  <2>4. CASE BeginClose(p, pass[p].cur, o)
    BY <1>3, <1>t, <2>1, <2>2, <2>3, <2>4
  <2>5. CASE /\ obj' = [obj EXCEPT ![pass[p].cur] = o]
             /\ tracked' = tracked
             /\ pass' = Onward(p, pass[p].cur)
    <3>1. pass'[p].pc = "scan"
      BY <1>t, <2>2, <2>5, FreshPasses
    <3>. QED BY <1>t, <2>1, <2>2, <2>3, <2>5, <3>1 DEF Keeps, Awaits, Claiming
  <2>. QED BY <2>1, <2>3, <2>4, <2>5 DEF AfterStatus
<1>8. CASE ApplyClaim(p)
  <2>1. /\ pass'[p].pc = pass[p].pc /\ pass'[p].cur = pass[p].cur
        /\ pass'[p].req = "applied"
    BY <1>8, <1>t DEF ApplyClaim, Pass
  <2>2. Claiming(p) /\ Awaits(p) /\ pass[p].req = "sent"
    BY <1>8 DEF ApplyClaim, Claiming, Awaits
  <2>3. accepts[pass[p].cur] = Parties
    BY <2>2 DEF AwaitsAreJustified, Claiming
  <2>4. Pays(p, pass[p].cur)
    BY <1>8, <1>c, <2>1, <2>2, <2>3 DEF ApplyClaim, RecordClaim, Pays, Claiming
  <2>. QED BY <1>t, <1>c, <2>2, <2>4
<1>9. CASE PayoutSucceeds(p) \/ PayoutFails(p)
  <2>1. Claiming(p) /\ Awaits(p) /\ pass[p].cur \in tracked
    BY <1>9, <1>c DEF PayoutSucceeds, PayoutFails, Claiming, Awaits
  <2>2. /\ pass'[p].pc = "scan" /\ tracked' = tracked \ {pass[p].cur} /\ claims' = claims
        /\ claims[pass[p].cur] > 0 \/ lateClaims'[pass[p].cur] > 0
    <3>1. CASE PayoutSucceeds(p)
      <4>1. claims[pass[p].cur] > 0
        BY <2>1, <3>1 DEF PayoutSucceeds, AppliedIsRecorded, Claiming
      <4>. QED BY <1>t, <2>1, <3>1, <4>1, FreshPasses DEF PayoutSucceeds
    <3>2. CASE PayoutFails(p)
      <4>1. claims' = claims /\ (pass[p].req = "sent" => lateClaims'[pass[p].cur] > 0)
        BY <1>t, <2>1, <3>2, AbandonedClaim DEF PayoutFails
      <4>2. pass[p].req = "applied" => claims[pass[p].cur] > 0
        BY <2>1 DEF AppliedIsRecorded, Claiming
      <4>3. pass[p].req \in {"sent", "applied"}
        BY <2>1 DEF AwaitsAreJustified, Claiming
      <4>. QED BY <1>t, <2>1, <3>2, <4>1, <4>2, <4>3, FreshPasses DEF PayoutFails
    <3>. QED BY <1>9, <3>1, <3>2
  <2>3. \A t \in Settlements \ {pass[p].cur} : obj'[t] = obj[t]
    BY <1>9, <1>t DEF PayoutSucceeds, PayoutFails
  <2>4. CASE PayoutSucceeds(p)
    <3>1. claims[pass[p].cur] > 0
      BY <2>1, <2>4 DEF PayoutSucceeds, AppliedIsRecorded, Claiming
    <3>2. obj'[pass[p].cur].status = "closed"
      BY <1>t, <2>1, <2>4 DEF PayoutSucceeds, Object
    <3>3. Releases(p, pass[p].cur)
      BY <2>1, <2>2, <2>3, <3>1, <3>2 DEF Releases, Awaits
    <3>. QED BY <1>t, <2>1, <3>3
  <2>5. CASE PayoutFails(p)
    <3>1. obj'[pass[p].cur].status = "proposed"
      BY <1>a, <2>1, <2>5 DEF PayoutFails
    <3>2. Releases(p, pass[p].cur)
      BY <2>1, <2>2, <2>3, <3>1 DEF Releases, Awaits
    <3>. QED BY <1>t, <2>1, <3>2
  <2>. QED BY <1>9, <2>4, <2>5
<1>10. CASE PayoutFallsBack(p) \/ PayoutRetry(p)
  <2>1. /\ Claiming(p) /\ Awaits(p) /\ pass[p].cur \in tracked
        /\ UNCHANGED <<claims, obj, tracked>>
        /\ answerLost' = (answerLost \/ pass[p].req = "applied")
    BY <1>10, <1>c, <1>t, AbandonedClaim DEF PayoutFallsBack, PayoutRetry, Claiming, Awaits
  <2>2. pass'[p].cur = pass[p].cur /\ pass'[p].pc = "entry"
    BY <1>10, <1>t DEF PayoutFallsBack, PayoutRetry, Pass
  <2>3. ~answerLost' => ~answerLost /\ pass[p].req # "applied"
    BY <2>1
  <2>4. ~answerLost' => ~answerLost /\ claims[pass[p].cur] = 0
    BY <2>1, <2>3 DEF ApartInv
  <2>. QED BY <2>1, <2>2, <2>4 DEF Keeps, Awaits, Claiming
<1>. QED BY <1>1, <1>2, <1>4, <1>5, <1>6, <1>7, <1>8, <1>9, <1>10
     DEF PassNext, ScanNext, ReplyNext

LEMMA ApartSubmissionStep ==
    ASSUME AloneInv, NEW s \in Settlements, NEW r, Advances(s, r),
           tracked' \subseteq Settlements
    PROVE  ApartInv'
<1>1. /\ claims' = claims /\ lateClaims' = lateClaims /\ pass' = pass
      /\ tracked \subseteq tracked' /\ tracked' \subseteq tracked \cup {s}
      /\ tracked' \subseteq Settlements
      /\ answerLost => answerLost'
  <2>1. tracked \subseteq Settlements /\ s \notin tracked
    BY DEF AloneInv, SubmissionInv, IInv, TypeOK, BegunInOrder, Advances
  <2>. QED BY <2>1 DEF Advances
<1>2. obj'[s].status = "proposed" /\ claims[s] = 0 /\ lateClaims[s] = 0
  BY DEF AloneInv, SubmissionInv, IInv, TypeOK, LedgerTypeOK, BegunInOrder, Advances
<1>3. \A t \in tracked' : obj'[t].status = "proposed"
  BY <1>1, <1>2 DEF AloneInv, ApartInv, Advances
<1>4. \A t \in tracked' : claims'[t] > 0 \/ lateClaims'[t] > 0 => \E p \in Passes : (Claiming(p) /\ pass[p].cur = t)'
  BY <1>1, <1>2 DEF AloneInv, ApartInv, Claiming
<1>. QED BY <1>1, <1>3, <1>4 DEF AloneInv, ApartInv, Awaits, Claiming

\* What the only pass that may be alive must leave behind.
ApartAt(p, s) ==
    /\ obj'[s].status = "proposed"
    /\ claims'[s] > 0 \/ lateClaims'[s] > 0
         => pass'[p].pc \in {"payout", "entry"} /\ pass'[p].cur = s

ApartBy(p) ==
    /\ pass'[p].pc \in {"status", "payout", "entry"} => pass'[p].cur \in tracked'
    /\ \A s \in tracked' : ApartAt(p, s)
    /\ \A s \in Settlements : ~answerLost' => claims'[s] <= 1
    /\ ~answerLost' =>
         (pass'[p].pc \in {"payout", "entry"} /\ pass'[p].req # "applied"
            => claims'[pass'[p].cur] = 0)

LEMMA ApartAfter ==
    ASSUME NEW p \in Passes, ApartBy(p), \A q \in Passes \ {p} : pass'[q].pc = "idle"
    PROVE  ApartInv'
<1> USE DEF ApartBy, ApartAt, Awaits, Claiming
<1>1. \A q \in Passes : pass'[q].pc \in {"status", "payout", "entry"}
                          => pass'[q].cur \in tracked'
  <2> SUFFICES ASSUME NEW q \in Passes, pass'[q].pc \in {"status", "payout", "entry"}
               PROVE  pass'[q].cur \in tracked'
    OBVIOUS
  <2>1. q = p
    OBVIOUS
  <2>. QED BY <2>1
<1>2. \A s \in tracked' : claims'[s] > 0 \/ lateClaims'[s] > 0 =>
        \E q \in Passes : pass'[q].pc \in {"payout", "entry"} /\ pass'[q].cur = s
  OBVIOUS
<1>3. ~answerLost' => \A q \in Passes :
        pass'[q].pc \in {"payout", "entry"} /\ pass'[q].req # "applied"
          => claims'[pass'[q].cur] = 0
  <2> SUFFICES ASSUME ~answerLost', NEW q \in Passes,
                      pass'[q].pc \in {"payout", "entry"}, pass'[q].req # "applied"
               PROVE  claims'[pass'[q].cur] = 0
    OBVIOUS
  <2>1. q = p
    OBVIOUS
  <2>. QED BY <2>1
<1>. QED BY <1>1, <1>2, <1>3 DEF ApartInv

LEMMA ApartPassStep ==
    ASSUME AloneInv, NEW p \in Passes, PassNext(p), PassesApart, PassesApart'
    PROVE  ApartInv'
<1> USE DEF AloneInv, SubmissionInv, IInv
<1>e. PassEffect(p)
  BY ScanEffect, ReplyEffect DEF PassNext
<1>q. \A q \in Passes \ {p} : pass[q].pc = "idle" /\ pass'[q].pc = "idle"
  BY <1>e, Alone
<1>t. /\ tracked \subseteq Settlements /\ claims \in [Settlements -> Nat]
  BY DEF TypeOK, LedgerTypeOK
<1>c. \A s \in tracked : claims[s] > 0 \/ lateClaims[s] > 0 => Claiming(p) /\ pass[p].cur = s
  BY <1>q DEF ApartInv, Claiming
<1>l. \A s \in Settlements : lateClaims'[s] # lateClaims[s] => Claiming(p) /\ s = pass[p].cur
  BY <1>e DEF PassEffect
<1>1. CASE Keeps(p)
  <2>1. \A s \in tracked' : ApartAt(p, s)
    BY <1>1, <1>t, <1>c, <1>l DEF Keeps, ApartInv, Claiming, ApartAt
  <2>2. pass'[p].pc \in {"status", "payout", "entry"} => pass'[p].cur \in tracked'
    BY <1>1 DEF Keeps, Awaits
  <2>3. \A s \in Settlements : ~answerLost' => claims'[s] <= 1
    BY <1>1, <1>e DEF Keeps, ApartInv, PassEffect
  <2>4. ~answerLost' => (pass'[p].pc \in {"payout", "entry"} /\ pass'[p].req # "applied"
                           => claims'[pass'[p].cur] = 0)
    BY <1>1 DEF Keeps, Claiming
  <2>5. ApartBy(p)
    BY <2>1, <2>2, <2>3, <2>4 DEF ApartBy
  <2>. QED BY <1>q, <2>5, ApartAfter
<1>2. ASSUME NEW s \in Settlements, Releases(p, s) PROVE ApartInv'
  <2>1. \A t \in tracked' : ApartAt(p, t)
    BY <1>2, <1>t, <1>c, <1>l DEF Releases, ApartInv, ApartAt
  <2>2. ~Awaits(p)' /\ ~Claiming(p)'
    BY <1>2 DEF Releases, Awaits, Claiming
  <2>3. \A t \in Settlements : ~answerLost' => claims'[t] <= 1
    BY <1>2, <1>e DEF Releases, ApartInv, PassEffect
  <2>4. ApartBy(p)
    BY <2>1, <2>2, <2>3 DEF ApartBy, Awaits, Claiming
  <2>. QED BY <1>q, <2>4, ApartAfter
<1>3. ASSUME NEW s \in Settlements, Pays(p, s) PROVE ApartInv'
  <2>1. \A t \in Settlements : claims'[t] = IF t = s THEN claims[s] + 1 ELSE claims[t]
    BY <1>3, <1>t DEF Pays
  <2>2. \A t \in tracked' : ApartAt(p, t)
    BY <1>3, <1>t, <1>c, <1>l, <2>1 DEF Pays, ApartInv, Claiming, ApartAt
  <2>3. \A t \in Settlements : ~answerLost' => claims'[t] <= 1
    BY <1>3, <2>1 DEF Pays, ApartInv
  <2>4. pass'[p].req = "applied" /\ pass'[p].cur \in tracked'
    BY <1>3 DEF Pays
  <2>5. ApartBy(p)
    BY <2>2, <2>3, <2>4 DEF ApartBy
  <2>. QED BY <1>q, <2>5, ApartAfter
<1>. QED BY <1>1, <1>2, <1>3, <1>q, PassKinds

LEMMA AloneNext ==
    AloneInv /\ PassesApart /\ PassesApart' /\ [Next]_vars => AloneInv'
<1> SUFFICES ASSUME AloneInv, PassesApart, PassesApart', [Next]_vars
             PROVE  AloneInv'
  OBVIOUS
<1>1. SubmissionInv'
  BY SubmissionNext DEF AloneInv
<1>2. ASSUME NEW s \in Settlements, SubmitNext(s) PROVE ApartInv'
  <2>1. PICK r : Advances(s, r)
    BY <1>2, SubmissionSteps DEF AloneInv
  <2>2. tracked' \subseteq Settlements
    BY <1>1 DEF SubmissionInv, IInv, TypeOK
  <2>. QED BY <2>1, <2>2, ApartSubmissionStep
<1>3. ASSUME NEW p \in Passes, PassNext(p) PROVE ApartInv'
  BY <1>3, ApartPassStep
<1>4. ASSUME EnvEffect PROVE ApartInv'
  BY <1>4 DEF EnvEffect, nodeVars, AloneInv, ApartInv, Awaits, Claiming
<1>5. ASSUME Crash PROVE ApartInv'
  <2>1. tracked' = {} /\ \A p \in Passes : pass'[p].pc = "idle"
    BY <1>5 DEF Crash, IdlePass
  <2>2. ~answerLost' => \A s \in Settlements : claims'[s] <= 1
    BY <1>5 DEF Crash, ledgerVars, AloneInv, ApartInv
  <2>. QED BY <2>1, <2>2 DEF ApartInv, Awaits, Claiming
<1>6. ASSUME \/ \E s \in Settlements, q \in Parties : PartyAccepts(s, q)
             \/ \E s \in Settlements, v \in ChallengeStatus : ChallengeMoves(s, v)
             \/ Tick
             \/ UNCHANGED vars
      PROVE  ApartInv'
  <2>1. EnvEffect
    BY <1>6, QuietEffect DEF AloneInv, SubmissionInv
  <2>. QED BY <1>4, <2>1
<1>8. ASSUME NEW s \in Settlements, LateProposal(s) \/ LateClaim(s) PROVE ApartInv'
  <2>1. UNCHANGED <<obj, tracked, sub, pass>> /\ answerLost'
    BY <1>8 DEF LateProposal, LateClaim, nodeVars
  <2>2. \A t \in Settlements :
          claims'[t] > 0 \/ lateClaims'[t] > 0 => claims[t] > 0 \/ lateClaims[t] > 0
    BY <1>8 DEF AloneInv, SubmissionInv, IInv, TypeOK, LedgerTypeOK, LateProposal,
       LateClaim, RecordLateProposal, RecordLateClaim
  <2>3. tracked \subseteq Settlements
    BY DEF AloneInv, SubmissionInv, IInv, TypeOK
  <2>. QED BY <2>1, <2>2, <2>3 DEF AloneInv, ApartInv, Awaits, Claiming
<1>7. ApartInv'
  BY <1>2, <1>3, <1>5, <1>6, <1>8 DEF Next, EnvNext
<1>. QED BY <1>1, <1>7 DEF AloneInv

\* What holds of the claims while no two passes are alive
\* (SettlementManager.ts:118-171).
THEOREM AloneInvAlways == Spec /\ []PassesApart => []AloneInv
<1>1. Init => AloneInv
  <2> SUFFICES ASSUME Init PROVE AloneInv
    OBVIOUS
  <2>1. SubmissionInv
    BY SubmissionStart
  <2>2. ApartInv
    BY DEF Init, LedgerInit, IdlePass, ApartInv, Awaits, Claiming
  <2>. QED BY <2>1, <2>2 DEF AloneInv
<1>. QED BY <1>1, AloneNext, PTL DEF Spec

\* While passes do not overlap and nothing given up on is applied, the fee is
\* claimed at most once: after the deadline, through the fallback, and after a
\* crash too (SettlementManager.ts:124-159, ChainClient.ts:577-627).
THEOREM ClaimedOnceAlways == Spec /\ []PassesApart => []ClaimedOnce
<1>1. AloneInv => ClaimedOnce
  BY DEF AloneInv, ApartInv, ClaimedOnce
<1>. QED BY <1>1, AloneInvAlways, PTL

-------------------------------------------------------------------------------
(* A challenge upheld before the second acceptance                         *)

\* The node learns of the second acceptance no earlier than of the verdict that
\* was there before it: in the object, in the answer on its way, and where it
\* has stopped looking because it is claiming the fee.
Disclosed ==
    /\ \A s \in upheldFirst :
         /\ "upheld" \in verdicts[s]
         /\ claims[s] = 0 /\ lateClaims[s] = 0
         /\ obj[s].acc = Parties => "upheld" \in obj[s].seen
    /\ \A p \in Passes : pass[p].pc = "status" /\ pass[p].req = "applied" =>
         /\ obj[pass[p].cur].acc \subseteq pass[p].reply.acc
         /\ pass[p].cur \in upheldFirst /\ pass[p].reply.acc = Parties
              => "upheld" \in pass[p].reply.chal
    /\ \A p \in Passes : Claiming(p) => pass[p].cur \notin upheldFirst

LEMMA TwoParties == Parties # {}
BY PartiesAssumption, FS_EmptySet

\* What the only pass alive must leave behind.
DisclosedBy(p) ==
    /\ \A s \in upheldFirst : /\ claims'[s] = 0
                              /\ obj'[s].acc = Parties => "upheld" \in obj'[s].seen
    /\ pass'[p].pc = "status" /\ pass'[p].req = "applied" =>
         /\ obj'[pass'[p].cur].acc \subseteq pass'[p].reply.acc
         /\ pass'[p].cur \in upheldFirst /\ pass'[p].reply.acc = Parties
              => "upheld" \in pass'[p].reply.chal
    /\ pass'[p].pc \in {"payout", "entry"} => pass'[p].cur \notin upheldFirst

LEMMA DisclosedAfter ==
    ASSUME IInv, Disclosed, NEW p \in Passes, PassEffect(p), DisclosedBy(p),
           \A q \in Passes \ {p} : pass'[q].pc = "idle"
    PROVE  Disclosed'
<1>1. upheldFirst' = upheldFirst /\ verdicts' = verdicts
  BY DEF PassEffect, outcomes
<1>2. \A q \in Passes : pass'[q].pc \in {"status", "payout", "entry"} => q = p
  OBVIOUS
<1>3. \A q \in Passes : pass'[q].pc = "status" /\ pass'[q].req = "applied" =>
        /\ obj'[pass'[q].cur].acc \subseteq pass'[q].reply.acc
        /\ pass'[q].cur \in upheldFirst /\ pass'[q].reply.acc = Parties
             => "upheld" \in pass'[q].reply.chal
  BY <1>2 DEF DisclosedBy
<1>4. \A q \in Passes : pass'[q].pc \in {"payout", "entry"} => pass'[q].cur \notin upheldFirst
  BY <1>2 DEF DisclosedBy
<1>l. \A s \in upheldFirst : lateClaims'[s] = 0
  BY DEF Disclosed, PassEffect, IInv, TypeOK
<1>5. \A s \in upheldFirst : /\ "upheld" \in verdicts[s]
                             /\ claims'[s] = 0 /\ lateClaims'[s] = 0
                             /\ obj'[s].acc = Parties => "upheld" \in obj'[s].seen
  BY <1>l DEF Disclosed, DisclosedBy
<1>. QED BY <1>1, <1>3, <1>4, <1>5 DEF Disclosed, Claiming

\* Closing entry s on an object that shows the verdict forfeits the fee.
LEMMA DisclosedClose ==
    ASSUME IInv, Disclosed, NEW p \in Passes, NEW s \in Settlements, NEW o \in Object,
           BeginClose(p, s, o), UNCHANGED <<ledgerVars, sub, envVars>>,
           s \in upheldFirst => "upheld" \in o.seen
    PROVE  DisclosedBy(p)
<1>t. /\ obj \in [Settlements -> Object] /\ pass \in [Passes -> Pass]
      /\ upheldFirst \in SUBSET Settlements
  BY DEF IInv, TypeOK
<1>0. claims' = claims
  BY DEF ledgerVars
<1>1. CASE /\ obj' = [obj EXCEPT ![s] = [o EXCEPT !.status = "rejected"]]
           /\ tracked' = tracked \ {s}
           /\ pass' = Onward(p, s)
  <2>1. pass'[p].pc = "scan"
    BY <1>1, FreshPasses DEF IInv
  <2>2. obj'[s].acc = o.acc /\ obj'[s].seen = o.seen
    BY <1>t, <1>1 DEF Object
  <2>3. \A t \in Settlements \ {s} : obj'[t] = obj[t]
    BY <1>t, <1>1
  <2>. QED BY <1>0, <1>t, <2>1, <2>2, <2>3 DEF Disclosed, DisclosedBy
<1>2. CASE /\ ~Upheld(o)
           /\ obj' = [obj EXCEPT ![s] = o]
           /\ pass' = [pass EXCEPT ![p] = [IdlePass EXCEPT
                         !.pc = "payout", !.now = pass[p].now,
                         !.visited = pass[p].visited \cup {s},
                         !.cur = s, !.req = "sent"]]
  <2>1. pass'[p].pc = "payout" /\ pass'[p].cur = s
    BY <1>2, FreshAwaits DEF IInv
  <2>2. s \notin upheldFirst
    BY <1>2 DEF Upheld
  <2>3. \A t \in Settlements \ {s} : obj'[t] = obj[t]
    BY <1>t, <1>2
  <2>. QED BY <1>0, <1>t, <2>1, <2>2, <2>3 DEF Disclosed, DisclosedBy
<1>. QED BY <1>1, <1>2 DEF BeginClose

LEMMA DisclosedPassStep ==
    ASSUME ~PartialSearch, IInv, Disclosed, NEW p \in Passes, PassNext(p)
    PROVE  DisclosedBy(p)
<1>t. /\ obj \in [Settlements -> Object] /\ pass \in [Passes -> Pass]
      /\ upheldFirst \in SUBSET Settlements /\ claims \in [Settlements -> Nat]
  BY DEF IInv, TypeOK, LedgerTypeOK
<1>c. /\ pass[p].pc \in {"status", "payout", "entry"} => pass[p].cur \in Settlements
      /\ pass[p].pc \in {"payout", "entry"} => pass[p].cur \notin upheldFirst
  BY DEF IInv, AwaitsAreJustified, Disclosed, Claiming
<1>d. \A s \in upheldFirst : /\ claims[s] = 0
                             /\ obj[s].acc = Parties => "upheld" \in obj[s].seen
  BY DEF Disclosed
<1>1. CASE StartPass(p) \/ EndPass(p)
  <2>1. pass'[p].pc \in {"scan", "idle"}
    <3>1. PICK r : r = [IdlePass EXCEPT !.pc = "scan", !.now = clock]
      OBVIOUS
    <3>2. r.pc = "scan" /\ IdlePass.pc = "idle"
      BY <3>1 DEF IdlePass
    <3>. QED BY <1>t, <1>1, <3>1, <3>2 DEF StartPass, EndPass
  <2>2. UNCHANGED <<claims, obj>>
    BY <1>1 DEF StartPass, EndPass, ledgerVars
  <2>. QED BY <1>d, <2>1, <2>2 DEF DisclosedBy
<1>2. ASSUME NEW s \in Settlements, Expire(p, s) PROVE DisclosedBy(p)
  <2>1. pass'[p].pc = "scan" /\ claims' = claims
    BY <1>2, FreshPasses DEF IInv, Expire, ledgerVars
  <2>2. /\ obj'[s].acc = obj[s].acc /\ obj'[s].seen = obj[s].seen
        /\ \A t \in Settlements \ {s} : obj'[t] = obj[t]
    BY <1>t, <1>2 DEF Expire, Object
  <2>. QED BY <1>t, <1>d, <2>1, <2>2 DEF DisclosedBy
<1>3. ASSUME NEW s \in Settlements, CloseExpired(p, s) PROVE DisclosedBy(p)
  <2>1. obj[s] \in Object /\ (s \in upheldFirst => "upheld" \in obj[s].seen)
    BY <1>t, <1>d, <1>3 DEF CloseExpired, BothAccepted
  <2>. QED BY <1>3, <2>1, DisclosedClose DEF CloseExpired
<1>4. ASSUME NEW s \in Settlements, AskStatus(p, s) PROVE DisclosedBy(p)
  <2>1. pass'[p].pc = "status" /\ pass'[p].req = "sent"
    BY <1>4, FreshAwaits DEF IInv, AskStatus
  <2>. QED BY <1>d, <1>4, <2>1 DEF AskStatus, DisclosedBy, ledgerVars
<1>5. CASE AnswerStatus(p)
  <2>1. /\ pass'[p].pc = "status" /\ pass'[p].cur = pass[p].cur
        /\ pass'[p].reply.acc = accepts[pass[p].cur]
        /\ pass'[p].reply.chal = verdicts[pass[p].cur]
    BY <1>t, <1>5 DEF AnswerStatus, Snapshot, Pass
  <2>2. UNCHANGED <<claims, obj>> /\ pass[p].cur \in Settlements
    BY <1>c, <1>5 DEF AnswerStatus, ledgerVars
  <2>3. obj[pass[p].cur].acc \subseteq accepts[pass[p].cur]
    BY <2>2 DEF IInv, FlagsAreTrue
  <2>4. pass[p].cur \in upheldFirst => "upheld" \in verdicts[pass[p].cur]
    BY DEF Disclosed
  <2>. QED BY <1>d, <2>1, <2>2, <2>3, <2>4 DEF DisclosedBy
<1>6. CASE ReadStatus(p) \/ LoseStatus(p)
  <2>1. PICK r \in Reply :
          /\ pass[p].pc = "status" /\ AfterStatus(p, r)
          /\ UNCHANGED <<ledgerVars, sub, envVars>>
          /\ r = NoReply \/ (pass[p].req = "applied" /\ r = pass[p].reply)
    <3>1. NoReply \in Reply /\ pass[p].reply \in Reply
      BY PassFields DEF IInv, NoReply, Reply
    <3>. QED BY <1>6, <3>1 DEF ReadStatus, LoseStatus
  <2>2. pass[p].cur \in Settlements /\ obj[pass[p].cur] \in Object
    BY <1>c, <1>t, <2>1
  <2>3. PICK o \in Object : o = Merge(obj[pass[p].cur], r)
    BY <2>2, MergeType
  <2>4. /\ o.acc = obj[pass[p].cur].acc \cup r.acc
        /\ o.seen = IF r.chal # {} THEN r.chal ELSE obj[pass[p].cur].seen
    BY <2>2, <2>3 DEF Merge, Object
  <2>5. pass[p].cur \in upheldFirst /\ o.acc = Parties => "upheld" \in o.seen
    <3> HAVE pass[p].cur \in upheldFirst /\ o.acc = Parties
    <3>1. CASE r = NoReply
      BY <1>d, <2>4, <3>1 DEF NoReply
    <3>2. CASE pass[p].req = "applied" /\ r = pass[p].reply
      <4>1. obj[pass[p].cur].acc \subseteq r.acc /\ (r.acc = Parties => "upheld" \in r.chal)
        BY <2>1, <3>2 DEF Disclosed
      <4>2. r.acc = Parties
        BY <2>4, <4>1
      <4>. QED BY <2>4, <4>1, <4>2
    <3>. QED BY <2>1, <3>1, <3>2
  <2>6. CASE BothAccepted(o) /\ BeginClose(p, pass[p].cur, o)
    BY <2>1, <2>2, <2>5, <2>6, DisclosedClose DEF BothAccepted
  <2>7. CASE /\ ~BothAccepted(o)
             /\ obj' = [obj EXCEPT ![pass[p].cur] = o]
             /\ pass' = Onward(p, pass[p].cur)
    <3>1. pass'[p].pc = "scan" /\ claims' = claims
      BY <2>1, <2>2, <2>7, FreshPasses DEF IInv, ledgerVars
    <3>2. /\ obj'[pass[p].cur] = o /\ o.acc # Parties
          /\ \A t \in Settlements \ {pass[p].cur} : obj'[t] = obj[t]
      BY <1>t, <2>2, <2>7 DEF BothAccepted
    <3>. QED BY <1>t, <1>d, <3>1, <3>2 DEF DisclosedBy
  <2>. QED BY <2>1, <2>3, <2>6, <2>7 DEF AfterStatus
<1>7. CASE ApplyClaim(p)
  <2>1. /\ pass'[p].pc = pass[p].pc /\ pass'[p].cur = pass[p].cur /\ obj' = obj
        /\ pass[p].pc \in {"payout", "entry"}
    BY <1>t, <1>7 DEF ApplyClaim, Pass
  <2>2. \A s \in Settlements \ {pass[p].cur} : claims'[s] = claims[s]
    BY <1>t, <1>c, <1>7 DEF ApplyClaim, RecordClaim
  <2>. QED BY <1>t, <1>c, <1>d, <2>1, <2>2 DEF DisclosedBy
<1>8. CASE PayoutSucceeds(p) \/ PayoutFails(p)
  <2>1. pass'[p].pc = "scan" /\ claims' = claims /\ pass[p].cur \in Settlements
    BY <1>c, <1>8, FreshPasses DEF IInv, PayoutSucceeds, PayoutFails, AbandonClaim,
       ledgerVars
  <2>2. \A s \in Settlements : obj'[s].acc = obj[s].acc /\ obj'[s].seen = obj[s].seen
    BY <1>t, <1>8 DEF PayoutSucceeds, PayoutFails, Object
  <2>. QED BY <1>t, <1>d, <2>1, <2>2 DEF DisclosedBy
<1>9. CASE PayoutFallsBack(p) \/ PayoutRetry(p)
  <2>1. /\ pass'[p].pc = "entry" /\ pass'[p].cur = pass[p].cur
        /\ pass[p].pc \in {"payout", "entry"}
        /\ UNCHANGED <<claims, obj>>
    BY <1>t, <1>9 DEF PayoutFallsBack, PayoutRetry, AbandonClaim, Pass
  <2>. QED BY <1>c, <1>d, <2>1 DEF DisclosedBy
<1>. QED BY <1>1, <1>2, <1>3, <1>4, <1>5, <1>6, <1>7, <1>8, <1>9
     DEF PassNext, ScanNext, ReplyNext

LEMMA DisclosedSubmissionStep ==
    ASSUME SubmissionInv, Disclosed, NEW s \in Settlements, SubmitNext(s)
    PROVE  Disclosed'
<1>1. UNCHANGED <<claims, lateClaims, verdicts, pass, upheldFirst>>
  BY DEF AbandonProposal, SubmitNext, Create, ApplyProposal, SubmitSucceeds, ProposeFails, SubmitRetry,
     RecordProposal, ledgerVars, envVars, outcomes
<1>2. \A t \in Settlements : obj'[t] = obj[t] \/ (obj'[t].acc = {} /\ t = s /\ sub[s].pc = "none")
  <2>1. CASE Create(s)
    <3>1. PICK o : o = [NoObj EXCEPT !.status = "proposed", !.deadline = clock + Window]
      OBVIOUS
    <3>2. o.acc = {} /\ obj' = [obj EXCEPT ![s] = o] /\ sub[s].pc = "none"
      BY <2>1, <3>1 DEF Create, NoObj
    <3>. QED BY <3>2 DEF SubmissionInv, IInv, TypeOK
  <2>. QED BY <2>1 DEF SubmitNext, ApplyProposal, SubmitSucceeds, ProposeFails, SubmitRetry
<1>3. \A p \in Passes : Awaits(p) => pass[p].cur \in Settlements
                                     /\ ~(pass[p].cur = s /\ sub[s].pc = "none")
  BY DEF SubmissionInv, IInv, AwaitsAreJustified, BegunInOrder, Awaits
<1>4. \A p \in Passes : Awaits(p) => obj'[pass[p].cur] = obj[pass[p].cur]
  BY <1>2, <1>3
<1>5. upheldFirst \subseteq Settlements
  BY DEF SubmissionInv, IInv, TypeOK
<1>. QED BY <1>1, <1>2, <1>4, <1>5, TwoParties DEF Disclosed, Awaits, Claiming

LEMMA DisclosedEnvStep ==
    ASSUME IInv, Disclosed, EnvNext
    PROVE  Disclosed'
<1> USE DEF IInv, TypeOK, LedgerTypeOK
<1>1. ASSUME NEW s \in Settlements, NEW q \in Parties, PartyAccepts(s, q)
      PROVE  Disclosed'
  BY <1>1 DEF PartyAccepts, RecordAccept, nodeVars, Disclosed, Claiming
<1>2. ASSUME NEW s \in Settlements, NEW v \in ChallengeStatus, ChallengeMoves(s, v)
      PROVE  Disclosed'
  <2>1. /\ UNCHANGED <<claims, lateClaims, obj, pass, accepts>>
        /\ \A t \in Settlements : verdicts[t] \subseteq verdicts'[t]
        /\ verdicts'[s] = verdicts[s] \cup {v}
        /\ upheldFirst' = upheldFirst \/ ( /\ v = "upheld" /\ accepts[s] # Parties
                                            /\ upheldFirst' = upheldFirst \cup {s})
    BY <1>2 DEF ChallengeMoves, RecordVerdict, nodeVars
  <2>2. CASE upheldFirst' = upheldFirst
    BY <2>1, <2>2 DEF Disclosed, Claiming
  <2>3. CASE /\ v = "upheld" /\ accepts[s] # Parties
             /\ upheldFirst' = upheldFirst \cup {s}
    <3>1. claims[s] = 0 /\ lateClaims[s] = 0
      BY <2>3 DEF ClaimNeedsBothParties, AwaitsAreJustified
    <3>2. obj[s].acc # Parties
      <4>1. obj[s].acc \subseteq accepts[s] /\ accepts[s] \subseteq Parties
        BY DEF FlagsAreTrue
      <4>. QED BY <2>3, <4>1
    <3>3. \A p \in Passes : pass[p].pc = "status" /\ pass[p].cur = s
                              => pass[p].reply.acc # Parties
      BY <2>3 DEF FlagsAreTrue
    <3>4. \A p \in Passes : Claiming(p) => pass[p].cur # s
      BY <2>3 DEF AwaitsAreJustified, Claiming
    <3>. QED BY <2>1, <2>3, <3>1, <3>2, <3>3, <3>4 DEF Disclosed, Claiming
  <2>. QED BY <2>1, <2>2, <2>3
<1>3. CASE Tick
  BY <1>3 DEF Tick, ledgerVars, nodeVars, outcomes, Disclosed, Claiming
<1>4. CASE Crash
  <2>1. /\ UNCHANGED <<claims, verdicts, upheldFirst>>
        /\ \A p \in Passes : pass'[p].pc = "idle"
    BY <1>4 DEF Crash, outcomes, IdlePass
  <2>3. \A s \in upheldFirst : lateClaims'[s] = 0
    <3>1. ASSUME NEW s \in upheldFirst PROVE lateClaims'[s] = 0
      <4>1. lateClaims[s] = 0 /\ ClaimsSent(s) = {} /\ lateClaims'[s] \in Nat
        BY <1>4, LateAtCrash DEF Disclosed, ClaimsSent, Claiming
      <4>2. ~(lateClaims'[s] > 0)
        BY <1>4, <4>1, LateAtCrash
      <4>. QED BY <4>1, <4>2
    <3>. QED BY <3>1
  <2>2. \A s \in Settlements : obj'[s].acc = {}
    BY <1>4 DEF Crash, NoObj, Object
  <2>. QED BY <2>1, <2>2, <2>3, TwoParties DEF Disclosed, Claiming
<1>5. ASSUME NEW s \in Settlements, LateProposal(s) \/ LateClaim(s) PROVE Disclosed'
  <2>1. UNCHANGED <<accepts, verdicts, obj, pass, upheldFirst>>
    BY <1>5 DEF LateProposal, LateClaim, RecordLateProposal, RecordLateClaim, nodeVars,
       outcomes
  <2>2. \A t \in Settlements : claims[t] = 0 /\ lateClaims[t] = 0
          => claims'[t] = 0 /\ lateClaims'[t] = 0
    BY <1>5 DEF LateProposal, LateClaim, RecordLateProposal, RecordLateClaim
  <2>. QED BY <2>1, <2>2 DEF Disclosed, Claiming
<1>. QED BY <1>1, <1>2, <1>3, <1>4, <1>5 DEF EnvNext

\* A challenge upheld before the second acceptance forfeits the fee, in the window
\* and after the deadline, whatever answers are lost, as long as passes do not
\* overlap and a search finds every entry (SettlementManager.ts:147-154, 181-191).
THEOREM UpheldFirstForfeitsAlways ==
    ASSUME ~PartialSearch
    PROVE  Spec /\ []PassesApart => []UpheldFirstForfeits
<1>1. Init => Disclosed
  BY DEF Init, IdlePass, Disclosed, Claiming
<1>2. SubmissionInv /\ Disclosed /\ PassesApart /\ PassesApart' /\ [Next]_vars => Disclosed'
  <2> SUFFICES ASSUME SubmissionInv, Disclosed, PassesApart, PassesApart', [Next]_vars
               PROVE  Disclosed'
    OBVIOUS
  <2>1. ASSUME NEW p \in Passes, PassNext(p) PROVE Disclosed'
    <3>1. PassEffect(p)
      BY <2>1, ScanEffect, ReplyEffect DEF PassNext, SubmissionInv
    <3>2. \A q \in Passes \ {p} : pass'[q].pc = "idle"
      BY <2>1, <3>1, Alone DEF SubmissionInv, IInv
    <3>3. DisclosedBy(p)
      BY <2>1, DisclosedPassStep DEF SubmissionInv
    <3>. QED BY <3>1, <3>2, <3>3, DisclosedAfter DEF SubmissionInv
  <2>2. CASE UNCHANGED vars
    BY <2>2 DEF vars, ledgerVars, nodeVars, envVars, outcomes, Disclosed, Claiming
  <2>. QED BY <2>1, <2>2, DisclosedSubmissionStep, DisclosedEnvStep DEF Next, SubmissionInv
<1>3. Disclosed => UpheldFirstForfeits
  BY DEF Disclosed, UpheldFirstForfeits
<1>. QED BY <1>1, <1>2, <1>3, SubmissionInvAlways, PTL DEF Spec

-------------------------------------------------------------------------------
(* The manager implements SettlementLifecycle                              *)

\* Settlement t looks to the lifecycle as it did.
SameStage(t) == LedgerStage(t)' = LedgerStage(t)
SameView(t) == MediatorView(t)' = MediatorView(t)
SamePaid(t) == (claims'[t] > 0) <=> (claims[t] > 0)
SameAsked(t) == FeeAsked(t)' <=> FeeAsked(t)
Same(t) == SameStage(t) /\ SameView(t) /\ SameAsked(t) /\ SamePaid(t)

LEMMA MappedStage ==
    ASSUME NEW s \in Settlements, \A t \in Settlements \ {s} : SameStage(t)
    PROVE  [t \in Settlements |-> LedgerStage(t)]'
             = [[t \in Settlements |-> LedgerStage(t)] EXCEPT ![s] = LedgerStage(s)']
BY DEF SameStage, LedgerStage

LEMMA MappedView ==
    ASSUME NEW s \in Settlements, \A t \in Settlements \ {s} : SameView(t)
    PROVE  [t \in Settlements |-> MediatorView(t)]'
             = [[t \in Settlements |-> MediatorView(t)] EXCEPT ![s] = MediatorView(s)']
BY DEF SameView, MediatorView

LEMMA MappedPaid ==
    ASSUME NEW s \in Settlements, \A t \in Settlements \ {s} : SamePaid(t)
    PROVE  [t \in Settlements |-> claims[t] > 0]'
             = [[t \in Settlements |-> claims[t] > 0] EXCEPT ![s] = claims'[s] > 0]
<1>1. PICK f : f = [t \in Settlements |-> claims[t] > 0]
  OBVIOUS
<1>2. PICK g : g = [t \in Settlements |-> claims'[t] > 0]
  OBVIOUS
<1>3. g \in [Settlements -> BOOLEAN] /\ f \in [Settlements -> BOOLEAN]
  BY <1>1, <1>2
<1>4. \A t \in Settlements \ {s} : g[t] = f[t]
  BY <1>1, <1>2 DEF SamePaid
<1>5. g[s] = (claims'[s] > 0)
  BY <1>2
<1>6. g = [f EXCEPT ![s] = claims'[s] > 0]
  BY <1>3, <1>4, <1>5
<1>. QED BY <1>1, <1>2, <1>6

LEMMA MappedAsked ==
    ASSUME NEW s \in Settlements, \A t \in Settlements \ {s} : SameAsked(t)
    PROVE  [t \in Settlements |-> FeeAsked(t)]'
             = [[t \in Settlements |-> FeeAsked(t)] EXCEPT ![s] = FeeAsked(s)']
<1>1. PICK f : f = [t \in Settlements |-> FeeAsked(t)]
  OBVIOUS
<1>2. PICK g : g = [t \in Settlements |-> FeeAsked(t)']
  OBVIOUS
<1>3. g \in [Settlements -> BOOLEAN] /\ f \in [Settlements -> BOOLEAN]
  <2>1. ASSUME NEW t \in Settlements
        PROVE  FeeAsked(t) \in BOOLEAN /\ FeeAsked(t)' \in BOOLEAN
    BY DEF FeeAsked
  <2>2. f = [t \in Settlements |-> FeeAsked(t)] /\ g = [t \in Settlements |-> FeeAsked(t)']
    BY <1>1, <1>2
  <2>. QED BY <2>1, <2>2, Zenon
<1>4. \A t \in Settlements \ {s} : g[t] = f[t]
  <2>1. ASSUME NEW t \in Settlements \ {s} PROVE g[t] = f[t]
    <3>1. f[t] \in BOOLEAN /\ g[t] \in BOOLEAN
      BY <1>3
    <3>2. f[t] = FeeAsked(t) /\ g[t] = FeeAsked(t)'
      BY <1>1, <1>2, Zenon
    <3>3. FeeAsked(t)' <=> FeeAsked(t)
      BY DEF SameAsked
    <3>. QED BY <3>1, <3>2, <3>3, Zenon
  <2>. QED BY <2>1
<1>5. g[s] = FeeAsked(s)'
  BY <1>2
<1>6. g = [f EXCEPT ![s] = FeeAsked(s)']
  BY <1>3, <1>4, <1>5
<1>. QED BY <1>1, <1>2, <1>6

LEMMA MappedUnchanged ==
    /\ (\A t \in Settlements : SameStage(t)) => UNCHANGED [t \in Settlements |-> LedgerStage(t)]
    /\ (\A t \in Settlements : SameView(t)) => UNCHANGED [t \in Settlements |-> MediatorView(t)]
    /\ (\A t \in Settlements : SameAsked(t)) => UNCHANGED [t \in Settlements |-> FeeAsked(t)]
    /\ (\A t \in Settlements : SamePaid(t)) => UNCHANGED [t \in Settlements |-> claims[t] > 0]
<1>1. ASSUME \A t \in Settlements : SameAsked(t)
      PROVE  UNCHANGED [t \in Settlements |-> FeeAsked(t)]
  <2>1. ASSUME NEW t \in Settlements PROVE FeeAsked(t)' = FeeAsked(t)
    BY <1>1 DEF SameAsked, FeeAsked
  <2>. QED BY <2>1
<1>. QED BY <1>1 DEF SameStage, SameView, SamePaid, LedgerStage, MediatorView

LEMMA LifecycleStutters ==
    ASSUME \A t \in Settlements : Same(t)
    PROVE  UNCHANGED Lifecycle!vars
BY MappedUnchanged DEF Same, Lifecycle!vars

\* The step of one settlement that moves its stage on the ledger.
LEMMA LifecycleLedger ==
    ASSUME NEW s \in Settlements, \A t \in Settlements \ {s} : Same(t),
           SameView(s), SameAsked(s), SamePaid(s),
           \/ /\ LedgerStage(s) = "absent" /\ LedgerStage(s)' = "proposed"
              /\ MediatorView(s) \in {"new", "dropped"}
           \/ LedgerStage(s) = "proposed" /\ LedgerStage(s)' = "agreed"
    PROVE  Lifecycle!Propose(s) \/ Lifecycle!Agree(s)
BY MappedStage, MappedUnchanged DEF Same, Lifecycle!Propose, Lifecycle!Agree

\* The step of one settlement that moves where the mediator is with it.
LEMMA LifecycleView ==
    ASSUME NEW s \in Settlements, \A t \in Settlements \ {s} : Same(t),
           SameStage(s), SameAsked(s), SamePaid(s),
           \/ /\ MediatorView(s) = "new" /\ MediatorView(s)' = "watched"
              /\ LedgerStage(s) # "absent"
           \/ /\ MediatorView(s) = "watched" /\ MediatorView(s)' = "closed" /\ claims[s] > 0
           \/ /\ MediatorView(s) = "watched" /\ MediatorView(s)' = "rejected" /\ ~FeeAsked(s)
           \/ /\ MediatorView(s) \in {"new", "watched"} /\ MediatorView(s)' = "dropped"
    PROVE  Lifecycle!Watch(s) \/ Lifecycle!Close(s) \/ Lifecycle!Reject(s) \/ Lifecycle!Drop(s)
BY MappedView, MappedUnchanged
   DEF Same, Lifecycle!Watch, Lifecycle!Close, Lifecycle!Reject, Lifecycle!Drop

LEMMA LifecycleFee ==
    ASSUME NEW s \in Settlements, \A t \in Settlements \ {s} : Same(t),
           SameStage(s), SameView(s),
           \/ /\ SamePaid(s) /\ FeeAsked(s)'
              /\ MediatorView(s) = "watched" /\ LedgerStage(s) = "agreed"
           \/ SameAsked(s) /\ FeeAsked(s) /\ claims'[s] > 0
    PROVE  Lifecycle!Ask(s) \/ Lifecycle!Pay(s)
<1>1. CASE /\ SamePaid(s) /\ FeeAsked(s)'
           /\ MediatorView(s) = "watched" /\ LedgerStage(s) = "agreed"
  <2>1. [t \in Settlements |-> FeeAsked(t)]'
          = [[t \in Settlements |-> FeeAsked(t)] EXCEPT ![s] = TRUE]
    <3>1. [t \in Settlements |-> FeeAsked(t)]'
            = [[t \in Settlements |-> FeeAsked(t)] EXCEPT ![s] = FeeAsked(s)']
      BY MappedAsked DEF Same
    <3>2. FeeAsked(s)' = TRUE
      BY <1>1 DEF FeeAsked
    <3>. QED BY <3>1, <3>2
  <2>. QED BY <1>1, <2>1, MappedUnchanged DEF Same, Lifecycle!Ask
<1>2. CASE SameAsked(s) /\ FeeAsked(s) /\ claims'[s] > 0
  BY <1>2, MappedPaid, MappedUnchanged DEF Same, Lifecycle!Pay
<1>. QED BY <1>1, <1>2

\* A settlement that a submission is under way for, or that none was begun for,
\* is new to the mediator; and what was never proposed nobody has accepted.
LEMMA StagesAndViews ==
    ASSUME AloneInv, NEW s \in Settlements
    PROVE  /\ sub[s].pc \in {"none", "propose", "entry"} => MediatorView(s) = "new"
           /\ s \in tracked => MediatorView(s) = "watched" /\ sub[s].pc = "submitted"
           /\ proposals[s] \in Nat /\ claims[s] \in Nat
           /\ accepts[s] = Parties => proposals[s] > 0
BY TwoParties
   DEF AloneInv, SubmissionInv, IInv, TypeOK, LedgerTypeOK, BegunInOrder, ApartInv,
       MediatorView

LEMMA SubmissionIsLifecycle ==
    ASSUME AloneInv, AloneInv', NEW s \in Settlements, SubmitNext(s)
    PROVE  [Lifecycle!Next]_(Lifecycle!vars)
<1>1. PICK r : Advances(s, r)
  BY SubmissionSteps DEF AloneInv
<1> USE DEF Advances
<1>t. sub' = [sub EXCEPT ![s] = r] /\ sub \in [Settlements -> Submission]
  BY <1>1 DEF AloneInv, SubmissionInv, IInv, TypeOK
<1>2. sub'[s] = r /\ \A t \in Settlements \ {s} : sub'[t] = sub[t]
  BY <1>t
<1>3. \A t \in Settlements \ {s} : Same(t)
  BY <1>1, <1>2 DEF Same, SameStage, SameView, SameAsked, SamePaid, LedgerStage, MediatorView,
     FeeAsked
<1>4. SameAsked(s) /\ SamePaid(s) /\ MediatorView(s) = "new"
  BY <1>1, StagesAndViews DEF SameAsked, SamePaid, FeeAsked
<1>5. CASE r.pc \in {"propose", "entry"}
  <2>1. SameView(s)
    <3>1. MediatorView(s)' = "new"
      BY <1>1, <1>2, <1>5 DEF MediatorView
    <3>. QED BY <1>4, <3>1 DEF SameView
  <2>2. \/ SameStage(s)
        \/ LedgerStage(s) = "absent" /\ LedgerStage(s)' = "proposed"
    BY <1>1, StagesAndViews DEF SameStage, LedgerStage
  <2>3. CASE SameStage(s)
    BY <1>3, <1>4, <2>1, <2>3, LifecycleStutters DEF Same
  <2>4. CASE LedgerStage(s) = "absent" /\ LedgerStage(s)' = "proposed"
    BY <1>3, <1>4, <2>1, <2>4, LifecycleLedger DEF Lifecycle!Next
  <2>. QED BY <2>2, <2>3, <2>4
<1>6. CASE r.pc \in {"submitted", "failed"}
  <2>1. SameStage(s)
    BY <1>1, <1>6 DEF SameStage, LedgerStage
  <2>2. s \in tracked' => LedgerStage(s) # "absent"
    <3>1. s \in tracked' => proposals'[s] > 0
      BY DEF AloneInv, SubmissionInv, IInv, TrackedIsOnChain
    <3>. QED BY <1>1, <1>6, <3>1 DEF LedgerStage
  <2>3. MediatorView(s)' = IF s \in tracked' THEN "watched" ELSE "dropped"
    BY <1>1, <1>2, <1>6 DEF MediatorView
  <2>. QED BY <1>3, <1>4, <2>1, <2>2, <2>3, LifecycleView DEF Lifecycle!Next
<1>. QED BY <1>1, <1>5, <1>6

\* What was asked for stays asked for, whatever becomes of the request.
LEMMA AskedForEver ==
    ASSUME AloneInv, NEW p \in Passes, PassEffect(p),
           Keeps(p) \/ \E s \in Settlements : Releases(p, s) \/ Pays(p, s)
    PROVE  \A t \in Settlements : FeeAsked(t) => FeeAsked(t)'
<1>t. /\ claims \in [Settlements -> Nat]
      /\ claims' = claims \/ \E s \in Settlements : Pays(p, s)
  BY DEF AloneInv, SubmissionInv, IInv, TypeOK, LedgerTypeOK, Keeps, Releases
<1>1. \A t \in Settlements : claims[t] > 0 => claims'[t] > 0
  BY <1>t DEF Pays
<1>2. \A t \in Settlements : lateClaims[t] > 0 => lateClaims'[t] > 0
  BY DEF PassEffect
<1>3. ASSUME NEW t \in Settlements, NEW q \in Passes \ {p},
             pass[q].pc \in {"payout", "entry"}, pass[q].cur = t
      PROVE  FeeAsked(t)'
  BY <1>3 DEF PassEffect, FeeAsked
<1>4. ASSUME NEW t \in Settlements, Claiming(p), pass[p].cur = t
      PROVE  FeeAsked(t)'
  BY <1>4, <1>1 DEF Keeps, Releases, Pays, Claiming, FeeAsked
<1>. QED BY <1>1, <1>2, <1>3, <1>4 DEF FeeAsked, Claiming

\* Only the pass that is alive asks for a fee, and only for what it awaits.
LEMMA AskedByPass ==
    ASSUME AloneInv, NEW p \in Passes, PassEffect(p),
           NEW t \in Settlements, FeeAsked(t)', ~FeeAsked(t)
    PROVE  Claiming(p)' /\ pass'[p].cur = t
BY DEF AloneInv, SubmissionInv, IInv, TypeOK, LedgerTypeOK, PassEffect, FeeAsked, Claiming

LEMMA PassIsLifecycle ==
    ASSUME AloneInv, AloneInv', NEW p \in Passes, PassNext(p), PassesApart, PassesApart'
    PROVE  [Lifecycle!Next]_(Lifecycle!vars)
<1>e. PassEffect(p)
  BY ScanEffect, ReplyEffect DEF PassNext, AloneInv, SubmissionInv
<1>q. \A q \in Passes \ {p} : pass[q].pc = "idle" /\ pass'[q].pc = "idle"
  BY <1>e, Alone DEF AloneInv, SubmissionInv, IInv
<1>u. sub' = sub /\ \A s \in Settlements : SameStage(s)
  BY <1>e DEF PassEffect, SameStage, LedgerStage
<1>k. Keeps(p) \/ \E s \in Settlements : Releases(p, s) \/ Pays(p, s)
  BY <1>q, PassKinds
<1>a. \A t \in Settlements : FeeAsked(t) => FeeAsked(t)'
  BY <1>e, <1>k, AskedForEver
<1>b. \A t \in Settlements : FeeAsked(t)' /\ ~FeeAsked(t) => Claiming(p)' /\ pass'[p].cur = t
  BY <1>e, AskedByPass
<1>1. CASE Keeps(p)
  <2>1. \A s \in Settlements : SameView(s) /\ SamePaid(s)
    BY <1>1, <1>u DEF Keeps, SameView, SamePaid, MediatorView
  <2>2. CASE \A t \in Settlements : SameAsked(t)
    BY <1>u, <2>1, <2>2, LifecycleStutters DEF Same
  <2>3. ASSUME NEW s \in Settlements, ~SameAsked(s) PROVE [Lifecycle!Next]_(Lifecycle!vars)
    <3>1. FeeAsked(s)' /\ Claiming(p)' /\ pass'[p].cur = s
      BY <1>a, <1>b, <2>3 DEF SameAsked
    <3>2. \A t \in Settlements \ {s} : Same(t)
      BY <1>a, <1>b, <1>u, <2>1, <3>1 DEF Same, SameAsked
    <3>3. s \in tracked /\ accepts[s] = Parties
      <4>1. accepts'[s] = Parties
        BY <3>1 DEF AloneInv, SubmissionInv, IInv, AwaitsAreJustified, Claiming
      <4>2. s \in tracked'
        BY <3>1 DEF AloneInv, ApartInv, Awaits, Claiming
      <4>. QED BY <1>e, <4>1, <4>2 DEF PassEffect
    <3>4. MediatorView(s) = "watched" /\ LedgerStage(s) = "agreed"
      BY <3>3, StagesAndViews DEF LedgerStage
    <3>. QED BY <1>u, <2>1, <3>1, <3>2, <3>4, LifecycleFee DEF Lifecycle!Next
  <2>. QED BY <2>2, <2>3
<1>2. ASSUME NEW s \in Settlements, Releases(p, s) PROVE [Lifecycle!Next]_(Lifecycle!vars)
  <2>0. \A t \in Settlements : SameAsked(t)
    BY <1>2, <1>a, <1>b DEF Releases, SameAsked, Awaits, Claiming
  <2>1. \A t \in Settlements \ {s} : Same(t)
    BY <1>2, <1>u, <2>0 DEF Releases, Same, SameView, SamePaid, MediatorView
  <2>2. SamePaid(s) /\ MediatorView(s) = "watched" /\ sub[s].pc = "submitted"
    BY <1>2, StagesAndViews DEF Releases, SamePaid
  <2>3. obj'[s].status = "rejected" => ~FeeAsked(s)
    <3>1. obj'[s].status = "rejected" /\ ~(claims[s] > 0) =>
            ~Claiming(p) /\ ~(claims[s] > 0) /\ ~(lateClaims[s] > 0)
      BY <1>2 DEF Releases
    <3>2. CASE claims[s] > 0 /\ obj'[s].status = "rejected"
      BY <1>2, <3>2 DEF Releases
    <3>. QED BY <1>q, <3>1, <3>2 DEF FeeAsked, Claiming
  <2>4. \/ MediatorView(s)' = "rejected" /\ ~FeeAsked(s)
        \/ MediatorView(s)' = "closed" /\ claims[s] > 0
        \/ MediatorView(s)' = "dropped"
    BY <1>2, <1>u, <2>2, <2>3 DEF Releases, MediatorView
  <2>. QED BY <1>u, <2>0, <2>1, <2>2, <2>4, LifecycleView DEF Lifecycle!Next
<1>3. ASSUME NEW s \in Settlements, Pays(p, s) PROVE [Lifecycle!Next]_(Lifecycle!vars)
  <2>1. /\ \A t \in Settlements \ {s} : claims'[t] = claims[t]
        /\ claims'[s] = claims[s] + 1 /\ claims[s] \in Nat
        /\ tracked' = tracked /\ obj' = obj
    BY <1>3 DEF Pays, AloneInv, SubmissionInv, IInv, TypeOK, LedgerTypeOK
  <2>2. \A t \in Settlements : SameView(t)
    BY <1>u, <2>1 DEF SameView, MediatorView
  <2>3. FeeAsked(s)
    BY <1>3 DEF Pays, FeeAsked, Claiming
  <2>4. \A t \in Settlements : SameAsked(t)
    BY <1>3, <1>a, <1>b, <2>3 DEF Pays, SameAsked
  <2>5. \A t \in Settlements \ {s} : Same(t)
    BY <1>u, <2>1, <2>2, <2>4 DEF Same, SamePaid
  <2>6. claims'[s] > 0
    BY <2>1
  <2>. QED BY <1>u, <2>2, <2>3, <2>4, <2>5, <2>6, LifecycleFee DEF Lifecycle!Next
<1>. QED BY <1>1, <1>2, <1>3, <1>k

\* What arrives late was proposed by a submission given up, or asked for.
LEMMA LateIsLifecycle ==
    ASSUME AloneInv, NEW s \in Settlements, LateProposal(s) \/ LateClaim(s)
    PROVE  [Lifecycle!Next]_(Lifecycle!vars)
<1>t. /\ proposals \in [Settlements -> Nat] /\ claims \in [Settlements -> Nat]
      /\ lateClaims \in [Settlements -> Nat]
  BY DEF AloneInv, SubmissionInv, IInv, TypeOK, LedgerTypeOK
<1>u. UNCHANGED <<accepts, tracked, obj, sub, pass>> /\ \A t \in Settlements : SameView(t)
  BY DEF LateProposal, LateClaim, RecordLateProposal, RecordLateClaim, nodeVars, SameView,
     MediatorView
<1>1. CASE LateProposal(s)
  <2>1. /\ UNCHANGED <<claims, lateClaims>>
        /\ \A t \in Settlements \ {s} : proposals'[t] = proposals[t]
        /\ proposals'[s] > 0
    BY <1>1, <1>t DEF LateProposal, RecordLateProposal
  <2>2. \A t \in Settlements : SameAsked(t) /\ SamePaid(t)
    BY <1>u, <2>1 DEF SameAsked, SamePaid, FeeAsked
  <2>3. \A t \in Settlements \ {s} : Same(t)
    BY <1>u, <2>1, <2>2 DEF Same, SameStage, LedgerStage
  <2>4. CASE SameStage(s)
    BY <1>u, <2>2, <2>3, <2>4, LifecycleStutters DEF Same
  <2>5. CASE ~SameStage(s)
    <3>1. ~(proposals[s] > 0)
      BY <1>u, <2>1, <2>5 DEF SameStage, LedgerStage
    <3>2. accepts[s] # Parties
      BY <3>1, StagesAndViews
    <3>3. LedgerStage(s) = "absent" /\ LedgerStage(s)' = "proposed"
      BY <1>u, <2>1, <3>1, <3>2 DEF LedgerStage
    <3>4. MediatorView(s) \in {"new", "dropped"}
      BY <3>1 DEF AloneInv, SubmissionInv, BegunInOrder, MediatorView
    <3>. QED BY <1>u, <2>2, <2>3, <3>3, <3>4, LifecycleLedger DEF Lifecycle!Next
  <2>. QED BY <2>4, <2>5
<1>2. CASE LateClaim(s)
  <2>1. /\ proposals' = proposals /\ lateClaims[s] > 0 /\ claims'[s] > 0
        /\ \A t \in Settlements \ {s} : claims'[t] = claims[t] /\ lateClaims'[t] = lateClaims[t]
    BY <1>2, <1>t DEF LateClaim, RecordLateClaim
  <2>2. FeeAsked(s) /\ FeeAsked(s)'
    BY <2>1 DEF FeeAsked
  <2>3. SameAsked(s) /\ \A t \in Settlements \ {s} : SameAsked(t) /\ SamePaid(t)
    BY <1>u, <2>1, <2>2 DEF SameAsked, SamePaid, FeeAsked
  <2>4. \A t \in Settlements : SameStage(t)
    BY <1>u, <2>1 DEF SameStage, LedgerStage
  <2>. QED BY <1>u, <2>1, <2>2, <2>3, <2>4, LifecycleFee DEF Same, Lifecycle!Next
<1>. QED BY <1>1, <1>2

LEMMA PartyIsLifecycle ==
    ASSUME AloneInv, NEW s \in Settlements, NEW q \in Parties, PartyAccepts(s, q)
    PROVE  [Lifecycle!Next]_(Lifecycle!vars)
<1>1. /\ UNCHANGED <<proposals, claims, lateClaims, tracked, obj, sub, pass>>
      /\ \A t \in Settlements \ {s} : accepts'[t] = accepts[t]
      /\ proposals[s] > 0 /\ accepts[s] # Parties
  BY DEF AloneInv, SubmissionInv, IInv, TypeOK, LedgerTypeOK, PartyAccepts,
     RecordAccept, nodeVars
<1>2. \A t \in Settlements : SameView(t) /\ SameAsked(t) /\ SamePaid(t)
  BY <1>1 DEF SameView, SameAsked, SamePaid, MediatorView, FeeAsked
<1>3. \A t \in Settlements \ {s} : Same(t)
  BY <1>1, <1>2 DEF Same, SameStage, LedgerStage
<1>4. LedgerStage(s) = "proposed" /\ LedgerStage(s)' \in {"proposed", "agreed"}
  BY <1>1 DEF LedgerStage
<1>5. CASE SameStage(s)
  BY <1>2, <1>3, <1>5, LifecycleStutters DEF Same
<1>6. CASE LedgerStage(s)' = "agreed"
  BY <1>2, <1>3, <1>4, <1>6, LifecycleLedger DEF Lifecycle!Next
<1>. QED BY <1>4, <1>5, <1>6 DEF SameStage

LEMMA CrashIsLifecycle ==
    ASSUME AloneInv, Crash
    PROVE  Lifecycle!Restart
<1> DEFINE begun == {s \in Settlements : sub[s].pc # "none"}
<1>t. sub \in [Settlements -> Submission]
  BY DEF AloneInv, SubmissionInv, IInv, TypeOK
<1>1. \A s \in Settlements : SameStage(s) /\ SamePaid(s)
  BY DEF Crash, SameStage, SamePaid, LedgerStage
<1>a. \A s \in Settlements : SameAsked(s)
  <2>1. ASSUME NEW s \in Settlements PROVE FeeAsked(s) <=> FeeAsked(s)'
    <3>1. claims' = claims /\ \A p \in Passes : pass'[p].pc = "idle"
      BY DEF Crash, IdlePass
    <3>2. lateClaims'[s] > 0 <=> (lateClaims[s] > 0 \/ ClaimsSent(s) # {})
      BY LateAtCrash DEF AloneInv, SubmissionInv, IInv
    <3>3. ASSUME NEW p \in Passes, pass[p].pc \in {"payout", "entry"}, pass[p].cur = s
          PROVE  claims[s] > 0 \/ ClaimsSent(s) # {}
      BY <3>3 DEF AloneInv, SubmissionInv, IInv, AwaitsAreJustified, AppliedIsRecorded,
         ClaimsSent
    <3>4. ClaimsSent(s) # {} => FeeAsked(s)
      BY DEF ClaimsSent, FeeAsked
    <3>. QED BY <3>1, <3>2, <3>3, <3>4 DEF FeeAsked
  <2>. QED BY <2>1 DEF SameAsked
<1>2. \A s \in Settlements \ begun : MediatorView(s) = "new"
  BY StagesAndViews
<1>3. \A s \in begun : sub'[s].pc = "failed" /\ obj'[s].status = "forgotten"
  BY DEF Crash, NoSub, AloneInv, SubmissionInv, IInv, TypeOK, Object
<1>4. \A s \in Settlements \ begun : sub'[s].pc = "none" /\ obj'[s].status = "none"
  BY DEF Crash, NoSub, NoObj
<1>5. tracked' = {}
  BY DEF Crash
<1>6. \A s \in Settlements : MediatorView(s)' = IF s \in begun THEN "dropped" ELSE "new"
  BY <1>3, <1>4, <1>5 DEF MediatorView
<1>7. begun \in SUBSET Settlements
  OBVIOUS
<1>8. [s \in Settlements |-> MediatorView(s)]'
        = [s \in Settlements |-> IF s \in begun THEN "dropped"
                                 ELSE [t \in Settlements |-> MediatorView(t)][s]]
  <2>1. \A s \in Settlements : MediatorView(s)' = IF s \in begun THEN "dropped"
                                                  ELSE MediatorView(s)
    BY <1>2, <1>6
  <2>. QED BY <2>1 DEF MediatorView
<1>9. UNCHANGED <<[s \in Settlements |-> LedgerStage(s)], [s \in Settlements |-> FeeAsked(s)],
                  [s \in Settlements |-> claims[s] > 0]>>
  BY <1>1, <1>a, MappedUnchanged
<1>10. \A s \in Settlements \ begun : [t \in Settlements |-> MediatorView(t)][s] = "new"
  BY <1>2
<1>. QED BY <1>7, <1>8, <1>9, <1>10 DEF Lifecycle!Restart

LEMMA StepIsLifecycle ==
    AloneInv /\ AloneInv' /\ PassesApart /\ PassesApart' /\ [Next]_vars
      => [Lifecycle!Next]_(Lifecycle!vars)
<1> SUFFICES ASSUME AloneInv, AloneInv', PassesApart, PassesApart', [Next]_vars
             PROVE  [Lifecycle!Next]_(Lifecycle!vars)
  OBVIOUS
<1>1. CASE \/ \E s \in Settlements, v \in ChallengeStatus : ChallengeMoves(s, v)
           \/ Tick
           \/ UNCHANGED vars
  <2>1. UNCHANGED <<proposals, accepts, claims, lateClaims, tracked, obj, sub, pass>>
    BY <1>1 DEF ChallengeMoves, RecordVerdict, Tick, vars, ledgerVars, nodeVars
  <2>2. \A t \in Settlements : Same(t)
    BY <2>1 DEF Same, SameStage, SameView, SameAsked, SamePaid, LedgerStage, MediatorView,
       FeeAsked
  <2>. QED BY <2>2, LifecycleStutters
<1>2. CASE Crash
  BY <1>2, CrashIsLifecycle DEF Lifecycle!Next
<1>. QED BY <1>1, <1>2, SubmissionIsLifecycle, PassIsLifecycle, PartyIsLifecycle,
     LateIsLifecycle
     DEF Next, EnvNext

\* While passes do not overlap the manager does what SettlementLifecycle promises,
\* crashes and requests that arrive late included: the fee is asked for only while an
\* agreed settlement is watched, nothing is paid that was not asked for then, what was
\* asked for is never rejected, and an outcome is final (SettlementManager.ts:118-171).
THEOREM ImplementsLifecycleAlways == Spec /\ []PassesApart => ImplementsLifecycle
<1>1. Init => Lifecycle!Init
  <2> SUFFICES ASSUME Init PROVE Lifecycle!Init
    OBVIOUS
  <2>1. ASSUME NEW s \in Settlements
        PROVE  LedgerStage(s) = "absent" /\ MediatorView(s) = "new" /\ FeeAsked(s) = FALSE
    <3>1. sub[s] = NoSub /\ obj[s] = NoObj /\ s \notin tracked
      BY DEF Init
    <3>2. accepts[s] = {} /\ proposals[s] = 0
      BY DEF Init, LedgerInit
    <3>3. ~FeeAsked(s)
      BY DEF Init, LedgerInit, IdlePass, FeeAsked
    <3>4. FeeAsked(s) = FALSE
      BY <3>3 DEF FeeAsked
    <3>. QED BY <3>1, <3>2, <3>4, TwoParties DEF NoSub, NoObj, LedgerStage, MediatorView
  <2>3. [s \in Settlements |-> claims[s] > 0] = [s \in Settlements |-> FALSE]
    <3>1. ASSUME NEW s \in Settlements PROVE (claims[s] > 0) = FALSE
      BY DEF Init, LedgerInit
    <3>. QED BY <3>1
  <2>. QED BY <2>1, <2>3 DEF Lifecycle!Init
<1>. QED BY <1>1, StepIsLifecycle, AloneInvAlways, PTL
     DEF Spec, ImplementsLifecycle, Lifecycle!Spec

===============================================================================
