-------------------------- MODULE SettlementManager --------------------------
(***************************************************************************)
(* The mediator's settlement manager (src/settlement/SettlementManager.ts) *)
(* with the ChainClient calls it makes (src/chain/ChainClient.ts).  A      *)
(* settlement is created and submitted once.  From then on every tick of   *)
(* the monitoring timer starts a pass over the tracked settlements; the    *)
(* timer does not wait for the pass before it, so passes overlap.          *)
(*                                                                         *)
(* The node has one thread: an asynchronous function runs undisturbed from *)
(* one await to the next.  A pass whose pc is "scan" holds the thread, and *)
(* ThreadFree guards every other step of the node.                         *)
(*                                                                         *)
(* A request is "sent", then "applied" by the chain; its answer may be     *)
(* lost at either point (connection error, or the 30 s HTTP timeout), and  *)
(* the client cannot tell which.  One given up on while it was only sent   *)
(* may still be applied: during the next attempt, after the entry is gone, *)
(* or after the process is.                                                *)
(***************************************************************************)
EXTENDS SettlementLedger, FiniteSets

CONSTANTS Passes,         \* how many monitoring passes can be alive at once
          Window,         \* acceptanceWindowHours, in clock units
          RetryAttempts,  \* ChainClient's retryAttempts
          MaxClock,       \* bound of the clock
          MaxCrashes,     \* bound of the process crashes
          PartialSearch,  \* whether a search may miss entries (top_k: 20)
          None            \* no settlement

ASSUME PassesAssumption == IsFiniteSet(Passes)
ASSUME PartiesAssumption == Cardinality(Parties) = 2
ASSUME RetryAssumption == RetryAttempts \in Nat \ {0}
ASSUME WindowAssumption == Window \in Nat
ASSUME ClockAssumption == MaxClock \in Nat
ASSUME NoneAssumption == None \notin Settlements

VARIABLES obj,        \* the ProposedSettlement objects
          tracked,    \* the keys of the activeSettlements map
          sub,        \* the submitSettlement call of each settlement
          pass,       \* the monitorSettlements calls
          clock,      \* Date.now()
          crashes,    \* process crashes so far
          answerLost, \* history: a request was applied that the client gave up on
          agreedInTime, \* history: both parties accepted by the deadline
          upheldFirst \* history: a challenge was upheld before both accepted

nodeVars == <<obj, tracked, sub, pass>>
outcomes == <<agreedInTime, upheldFirst>>
envVars == <<clock, crashes, answerLost, outcomes>>
vars == <<ledgerVars, nodeVars, envVars>>

Status == {"none", "proposed", "rejected", "closed", "forgotten"}
SubPc == {"none", "propose", "entry", "submitted", "failed"}
PassPc == {"idle", "scan", "status", "payout", "entry"}
Request == {"idle", "sent", "applied"}
Reply == [acc : SUBSET Parties, chal : SUBSET ChallengeStatus]
NoReply == [acc |-> {}, chal |-> {}]

Object == [status : Status, deadline : Nat, acc : SUBSET Parties,
           seen : SUBSET ChallengeStatus]
Submission == [pc : SubPc, left : 0..RetryAttempts, req : Request]
Pass == [pc : PassPc, now : Nat, visited : SUBSET Settlements,
         cur : Settlements \cup {None}, left : 0..RetryAttempts,
         req : Request, reply : Reply]

IdlePass == [pc |-> "idle", now |-> 0, visited |-> {}, cur |-> None,
             left |-> 0, req |-> "idle", reply |-> NoReply]
NoSub == [pc |-> "none", left |-> 0, req |-> "idle"]
NoObj == [status |-> "none", deadline |-> 0, acc |-> {}, seen |-> {}]

TypeOK ==
    /\ LedgerTypeOK
    /\ obj \in [Settlements -> Object]
    /\ tracked \in SUBSET Settlements
    /\ sub \in [Settlements -> Submission]
    /\ pass \in [Passes -> Pass]
    /\ clock \in 0..MaxClock
    /\ crashes \in Nat
    /\ answerLost \in BOOLEAN
    /\ agreedInTime \in [Settlements -> BOOLEAN]
    /\ upheldFirst \in SUBSET Settlements

Init ==
    /\ LedgerInit
    /\ obj = [s \in Settlements |-> NoObj]
    /\ tracked = {}
    /\ sub = [s \in Settlements |-> NoSub]
    /\ pass = [p \in Passes |-> IdlePass]
    /\ clock = 0
    /\ crashes = 0
    /\ answerLost = FALSE
    /\ agreedInTime = [s \in Settlements |-> FALSE]
    /\ upheldFirst = {}

ThreadFree == \A p \in Passes : pass[p].pc # "scan"

\* Mutant: one acceptance is enough.
OneAccepted(o) == o.acc # {}

BothAccepted(o) == o.acc = Parties

\* Mutant: the fee is forfeited only if every challenge was upheld.
EveryUpheld(o) == o.seen = {"upheld"}

Upheld(o) == "upheld" \in o.seen

-------------------------------------------------------------------------------
(* createSettlement and submitSettlement                                   *)

\* The object is built and submitted in one go (MediatorNode.ts:327-333).  A
\* text with a secret in it is refused before anything is sent.
Create(s) ==
    /\ ThreadFree
    /\ sub[s].pc = "none"
    /\ clock + Window < MaxClock
    /\ obj' = [obj EXCEPT ![s] = [NoObj EXCEPT !.status = "proposed",
                                               !.deadline = clock + Window]]
    /\ \/ sub' = [sub EXCEPT ![s] = [pc |-> "propose", left |-> 0, req |-> "sent"]]
       \/ sub' = [sub EXCEPT ![s] = [NoSub EXCEPT !.pc = "failed"]]
    /\ UNCHANGED <<ledgerVars, tracked, pass, envVars>>

\* The chain applies the outstanding proposal request of s.
ApplyProposal(s) ==
    /\ sub[s].req = "sent"
    /\ RecordProposal(s)
    /\ sub' = [sub EXCEPT ![s] = [sub[s] EXCEPT !.req = "applied"]]
    /\ UNCHANGED <<obj, tracked, pass, envVars>>

\* Mutant: tracked before the chain has answered.
SubmitUnanswered(s) ==
    /\ ThreadFree
    /\ sub[s].req # "idle"
    /\ tracked' = tracked \cup {s}
    /\ sub' = [sub EXCEPT ![s] = [NoSub EXCEPT !.pc = "submitted"]]
    /\ UNCHANGED <<ledgerVars, obj, pass, envVars>>

\* 200 or 201: only now does the manager track the settlement.
SubmitSucceeds(s) ==
    /\ ThreadFree
    /\ sub[s].req = "applied"
    /\ tracked' = tracked \cup {s}
    /\ sub' = [sub EXCEPT ![s] = [NoSub EXCEPT !.pc = "submitted"]]
    /\ UNCHANGED <<ledgerVars, obj, pass, envVars>>

\* Mutant: the fallback follows a proposal that succeeded, too.
ProposeFallsThrough(s) ==
    /\ ThreadFree
    /\ sub[s].pc = "propose"
    /\ sub' = [sub EXCEPT ![s] = [pc |-> "entry", left |-> RetryAttempts, req |-> "sent"]]
    /\ UNCHANGED <<ledgerVars, obj, tracked, pass, envVars>>

\* Any error of /contract/propose counts as "endpoint not available": the same
\* proposal goes to /entry, unless the circuit breaker is open.
ProposeFails(s) ==
    /\ ThreadFree
    /\ sub[s].pc = "propose"
    /\ \/ sub' = [sub EXCEPT ![s] = [pc |-> "entry", left |-> RetryAttempts,
                                     req |-> "sent"]]
       \/ sub' = [sub EXCEPT ![s] = [NoSub EXCEPT !.pc = "failed"]]
    /\ AbandonProposal(s, sub[s].req)
    /\ answerLost' = (answerLost \/ sub[s].req = "applied")
    /\ UNCHANGED <<obj, tracked, pass, clock, crashes, outcomes>>

\* withRetry: the next attempt after an error; out of attempts, or on an answer
\* that is neither 200 nor 201, submitSettlement reports a failure.
SubmitRetry(s) ==
    /\ ThreadFree
    /\ sub[s].pc = "entry"
    /\ \/ /\ sub[s].left > 1
          /\ sub' = [sub EXCEPT ![s] = [sub[s] EXCEPT !.left = sub[s].left - 1,
                                                       !.req = "sent"]]
       \/ sub' = [sub EXCEPT ![s] = [NoSub EXCEPT !.pc = "failed"]]
    /\ AbandonProposal(s, sub[s].req)
    /\ answerLost' = (answerLost \/ sub[s].req = "applied")
    /\ UNCHANGED <<obj, tracked, pass, clock, crashes, outcomes>>

-------------------------------------------------------------------------------
(* monitorSettlements                                                      *)

\* A tick of the 60 s timer: the clock is read once for the whole pass.
StartPass(p) ==
    /\ ThreadFree
    /\ pass[p].pc = "idle"
    /\ pass' = [pass EXCEPT ![p] = [IdlePass EXCEPT !.pc = "scan", !.now = clock]]
    /\ UNCHANGED <<ledgerVars, obj, tracked, sub, envVars>>

Unvisited(p) == tracked \ pass[p].visited

\* The iteration over a Map is live: it skips entries deleted meanwhile and
\* reaches entries added meanwhile.
Visit(p, s) ==
    /\ pass[p].pc = "scan"
    /\ s \in Unvisited(p)

\* A pass that keeps the thread, with entry s behind it.
Onward(p, s) == [pass EXCEPT ![p] = [IdlePass EXCEPT
                    !.pc = "scan", !.now = pass[p].now,
                    !.visited = pass[p].visited \cup {s}]]

EndPass(p) ==
    /\ pass[p].pc = "scan"
    /\ Unvisited(p) = {}
    /\ pass' = [pass EXCEPT ![p] = IdlePass]
    /\ UNCHANGED <<ledgerVars, obj, tracked, sub, envVars>>

\* Mutant: an expired settlement stays in the map.
ExpireKeepsEntry(p, s) ==
    /\ Visit(p, s)
    /\ obj[s].deadline < pass[p].now
    /\ ~BothAccepted(obj[s])
    /\ obj' = [obj EXCEPT ![s] = [obj[s] EXCEPT !.status = "rejected"]]
    /\ pass' = Onward(p, s)
    /\ UNCHANGED <<ledgerVars, tracked, sub, envVars>>

\* Past the deadline, flags not both set: rejected on the flags as they are.
Expire(p, s) ==
    /\ Visit(p, s)
    /\ obj[s].deadline < pass[p].now
    /\ ~BothAccepted(obj[s])
    /\ obj' = [obj EXCEPT ![s] = [obj[s] EXCEPT !.status = "rejected"]]
    /\ tracked' = tracked \ {s}
    /\ pass' = Onward(p, s)
    /\ UNCHANGED <<ledgerVars, sub, envVars>>

\* closeSettlement up to its first await, on object o of entry s: an upheld
\* challenge forfeits the fee, else the payout request goes out.  Whatever the
\* outcome, the caller deletes the entry when closeSettlement returns.
BeginClose(p, s, o) ==
    \/ /\ Upheld(o)
       /\ obj' = [obj EXCEPT ![s] = [o EXCEPT !.status = "rejected"]]
       /\ tracked' = tracked \ {s}
       /\ pass' = Onward(p, s)
    \/ /\ ~Upheld(o)
       /\ obj' = [obj EXCEPT ![s] = o]
       /\ tracked' = tracked
       /\ pass' = [pass EXCEPT ![p] = [IdlePass EXCEPT
                     !.pc = "payout", !.now = pass[p].now,
                     !.visited = pass[p].visited \cup {s},
                     !.cur = s, !.req = "sent"]]

\* Past the deadline with both flags set: close at once, nothing is re-read.
CloseExpired(p, s) ==
    /\ Visit(p, s)
    /\ obj[s].deadline < pass[p].now
    /\ BothAccepted(obj[s])
    /\ BeginClose(p, s, obj[s])
    /\ UNCHANGED <<ledgerVars, sub, envVars>>

\* Within the window: ask the chain and give up the thread.
AskStatus(p, s) ==
    /\ Visit(p, s)
    /\ obj[s].deadline >= pass[p].now
    /\ pass' = [pass EXCEPT ![p] = [IdlePass EXCEPT
                  !.pc = "status", !.now = pass[p].now,
                  !.visited = pass[p].visited \cup {s},
                  !.cur = s, !.req = "sent"]]
    /\ UNCHANGED <<ledgerVars, obj, tracked, sub, envVars>>

\* The chain answers with the entries it has now, which the node reads later.
AnswerStatus(p) ==
    /\ pass[p].pc = "status"
    /\ pass[p].req = "sent"
    /\ \E r \in IF PartialSearch
                  THEN [acc : SUBSET accepts[pass[p].cur],
                        chal : SUBSET verdicts[pass[p].cur]]
                  ELSE {Snapshot(pass[p].cur)} :
         pass' = [pass EXCEPT ![p] = [pass[p] EXCEPT !.req = "applied", !.reply = r]]
    /\ UNCHANGED <<ledgerVars, obj, tracked, sub, envVars>>

\* The object after a status answer: a flag is only ever set, and a non-empty
\* list of challenges replaces the one before it.
Merge(o, r) == [o EXCEPT !.acc = @ \cup r.acc,
                         !.seen = IF r.chal # {} THEN r.chal ELSE @]

\* The pass resumes with reply r (an error reads as an empty reply), on the
\* object it had before the await, still in the map or not.
AfterStatus(p, r) ==
    LET s == pass[p].cur
        o == Merge(obj[s], r)
    IN  \/ /\ BothAccepted(o)
           /\ BeginClose(p, s, o)
        \/ /\ ~BothAccepted(o)
           /\ obj' = [obj EXCEPT ![s] = o]
           /\ tracked' = tracked
           /\ pass' = Onward(p, s)

ReadStatus(p) ==
    /\ ThreadFree
    /\ pass[p].pc = "status"
    /\ pass[p].req = "applied"
    /\ AfterStatus(p, pass[p].reply)
    /\ UNCHANGED <<ledgerVars, sub, envVars>>

LoseStatus(p) ==
    /\ ThreadFree
    /\ pass[p].pc = "status"
    /\ AfterStatus(p, NoReply)
    /\ UNCHANGED <<ledgerVars, sub, envVars>>

-------------------------------------------------------------------------------
(* submitPayout                                                            *)

ApplyClaim(p) ==
    /\ pass[p].pc \in {"payout", "entry"}
    /\ pass[p].req = "sent"
    /\ RecordClaim(pass[p].cur)
    /\ pass' = [pass EXCEPT ![p] = [pass[p] EXCEPT !.req = "applied"]]
    /\ UNCHANGED <<obj, tracked, sub, envVars>>

\* Mutant: a closed settlement stays in the map.
PayoutKeepsEntry(p) ==
    /\ ThreadFree
    /\ pass[p].pc \in {"payout", "entry"}
    /\ pass[p].req = "applied"
    /\ obj' = [obj EXCEPT ![pass[p].cur] = [@ EXCEPT !.status = "closed"]]
    /\ pass' = Onward(p, pass[p].cur)
    /\ UNCHANGED <<ledgerVars, tracked, sub, envVars>>

PayoutSucceeds(p) ==
    /\ ThreadFree
    /\ pass[p].pc \in {"payout", "entry"}
    /\ pass[p].req = "applied"
    /\ obj' = [obj EXCEPT ![pass[p].cur] = [@ EXCEPT !.status = "closed"]]
    /\ tracked' = tracked \ {pass[p].cur}
    /\ pass' = Onward(p, pass[p].cur)
    /\ UNCHANGED <<ledgerVars, sub, envVars>>

\* Any error of /contract/payout counts as "endpoint not available".
PayoutFallsBack(p) ==
    /\ ThreadFree
    /\ pass[p].pc = "payout"
    /\ pass' = [pass EXCEPT ![p] = [pass[p] EXCEPT !.pc = "entry",
                                                   !.left = RetryAttempts,
                                                   !.req = "sent"]]
    /\ AbandonClaim(pass[p].cur, pass[p].req)
    /\ answerLost' = (answerLost \/ pass[p].req = "applied")
    /\ UNCHANGED <<obj, tracked, sub, clock, crashes, outcomes>>

\* Mutant: the attempts are not counted.
PayoutRetryEndless(p) ==
    /\ ThreadFree
    /\ pass[p].pc = "entry"
    /\ pass' = [pass EXCEPT ![p] = [pass[p] EXCEPT !.left = pass[p].left - 1,
                                                   !.req = "sent"]]
    /\ AbandonClaim(pass[p].cur, pass[p].req)
    /\ answerLost' = (answerLost \/ pass[p].req = "applied")
    /\ UNCHANGED <<obj, tracked, sub, clock, crashes, outcomes>>

PayoutRetry(p) ==
    /\ ThreadFree
    /\ pass[p].pc = "entry"
    /\ pass[p].left > 1
    /\ pass' = [pass EXCEPT ![p] = [pass[p] EXCEPT !.left = pass[p].left - 1,
                                                   !.req = "sent"]]
    /\ AbandonClaim(pass[p].cur, pass[p].req)
    /\ answerLost' = (answerLost \/ pass[p].req = "applied")
    /\ UNCHANGED <<obj, tracked, sub, clock, crashes, outcomes>>

\* Mutant: a payout that failed closes the settlement all the same.
PayoutFailureCloses(p) ==
    /\ ThreadFree
    /\ pass[p].pc \in {"payout", "entry"}
    /\ obj' = [obj EXCEPT ![pass[p].cur] = [@ EXCEPT !.status = "closed"]]
    /\ tracked' = tracked \ {pass[p].cur}
    /\ pass' = Onward(p, pass[p].cur)
    /\ AbandonClaim(pass[p].cur, pass[p].req)
    /\ answerLost' = (answerLost \/ pass[p].req = "applied")
    /\ UNCHANGED <<sub, clock, crashes, outcomes>>

\* The breaker is open (after /contract/payout), the attempts are used up, or
\* the answer is neither 200 nor 201.  closeSettlement swallows the failure, so
\* its caller deletes the entry and the status stays what it was.
PayoutFails(p) ==
    /\ ThreadFree
    /\ pass[p].pc \in {"payout", "entry"}
    /\ tracked' = tracked \ {pass[p].cur}
    /\ pass' = Onward(p, pass[p].cur)
    /\ AbandonClaim(pass[p].cur, pass[p].req)
    /\ answerLost' = (answerLost \/ pass[p].req = "applied")
    /\ UNCHANGED <<obj, sub, clock, crashes, outcomes>>

-------------------------------------------------------------------------------
(* The environment                                                         *)

PartyAccepts(s, q) ==
    /\ RecordAccept(s, q)
    /\ agreedInTime' = [agreedInTime EXCEPT
                          ![s] = @ \/ (accepts'[s] = Parties /\ clock <= obj[s].deadline)]
    /\ UNCHANGED <<nodeVars, clock, crashes, answerLost, upheldFirst>>

ChallengeMoves(s, v) ==
    /\ RecordVerdict(s, v)
    /\ upheldFirst' = IF v = "upheld" /\ accepts[s] # Parties
                       THEN upheldFirst \cup {s} ELSE upheldFirst
    /\ UNCHANGED <<nodeVars, clock, crashes, answerLost, agreedInTime>>

Tick ==
    /\ clock < MaxClock
    /\ clock' = clock + 1
    /\ UNCHANGED <<ledgerVars, nodeVars, crashes, answerLost, outcomes>>

\* A request given up on arrives: too late for whoever waited for its answer.
LateProposal(s) ==
    /\ RecordLateProposal(s)
    /\ answerLost' = TRUE
    /\ UNCHANGED <<nodeVars, clock, crashes, outcomes>>

LateClaim(s) ==
    /\ RecordLateClaim(s)
    /\ answerLost' = TRUE
    /\ UNCHANGED <<nodeVars, clock, crashes, outcomes>>

\* The claims for s that are on their way.
ClaimsSent(s) ==
    {p \in Passes : pass[p].pc \in {"payout", "entry"} /\ pass[p].cur = s
                   /\ pass[p].req = "sent"}

\* Nothing of the manager is on disk: a restarted node tracks nothing.  What it
\* had sent is on its way all the same.
Crash ==
    /\ crashes < MaxCrashes
    /\ crashes' = crashes + 1
    /\ tracked' = {}
    /\ pass' = [p \in Passes |-> IdlePass]
    /\ sub' = [s \in Settlements |->
                 IF sub[s].pc = "none" THEN NoSub ELSE [NoSub EXCEPT !.pc = "failed"]]
    /\ obj' = [s \in Settlements |->
                 IF sub[s].pc = "none" THEN NoObj
                 ELSE [obj[s] EXCEPT !.status = "forgotten", !.acc = {}, !.seen = {}]]
    /\ lateProposals' = [s \in Settlements |->
         lateProposals[s] + IF sub[s].req = "sent" THEN 1 ELSE 0]
    /\ lateClaims' = [s \in Settlements |-> lateClaims[s] + Cardinality(ClaimsSent(s))]
    /\ UNCHANGED <<proposals, accepts, verdicts, claims, clock, answerLost, outcomes>>

-------------------------------------------------------------------------------

SubmitNext(s) ==
    \/ Create(s) \/ ApplyProposal(s) \/ SubmitSucceeds(s)
    \/ ProposeFails(s) \/ SubmitRetry(s)

ScanNext(p) ==
    \/ EndPass(p)
    \/ \E s \in Settlements : Expire(p, s) \/ CloseExpired(p, s) \/ AskStatus(p, s)

ReplyNext(p) ==
    \/ AnswerStatus(p) \/ ReadStatus(p) \/ LoseStatus(p)
    \/ ApplyClaim(p) \/ PayoutSucceeds(p) \/ PayoutFallsBack(p)
    \/ PayoutRetry(p) \/ PayoutFails(p)

PassNext(p) == StartPass(p) \/ ScanNext(p) \/ ReplyNext(p)

EnvNext ==
    \/ \E s \in Settlements, q \in Parties : PartyAccepts(s, q)
    \/ \E s \in Settlements, v \in ChallengeStatus : ChallengeMoves(s, v)
    \/ \E s \in Settlements : LateProposal(s) \/ LateClaim(s)
    \/ Tick
    \/ Crash

Next ==
    \/ \E s \in Settlements : SubmitNext(s)
    \/ \E p \in Passes : PassNext(p)
    \/ EnvNext

Spec == Init /\ [][Next]_vars

\* Time passes, the timer fires, a pass that holds the thread runs on, and a
\* request ends: by its answer or by the HTTP timeout.  The event loop serves
\* its queue in order, so a callback whose thread is taken again and again
\* still gets its turn: strong fairness for the steps that need the thread.
Fairness ==
    /\ WF_vars(Tick)
    /\ \A p \in Passes : /\ SF_vars(StartPass(p))
                         /\ WF_vars(ScanNext(p))
                         /\ SF_vars(ReplyNext(p))

FairSpec == Spec /\ Fairness

-------------------------------------------------------------------------------
(* What holds however many passes overlap                                  *)

\* The manager only watches settlements the chain knows: an entry of
\* activeSettlements has a proposal on the ledger (SettlementManager.ts:98-101).
TrackedIsOnChain == \A s \in tracked : proposals[s] > 0

\* A fee is claimed only for a settlement both parties have accepted on the
\* ledger, whatever is stale, lost or overlapping (SettlementManager.ts:125-154).
ClaimNeedsBothParties == \A s \in Settlements : claims[s] > 0 => accepts[s] = Parties

\* "closed" is never a guess: the chain has applied a claim for every settlement
\* whose status is closed (SettlementManager.ts:199-200).
ClosedIsPaid == \A s \in Settlements : obj[s].status = "closed" => claims[s] > 0

\* A proposal stands on the ledger twice, or stands there while the submission
\* has failed, only after a request given up on was applied or the node crashed:
\* the fallback from /contract/propose to /entry adds nothing else
\* (ChainClient.ts:435-460).
ProposedOnce ==
    \A s \in Settlements :
        ~answerLost /\ crashes = 0 =>
            /\ proposals[s] <= 1
            /\ sub[s].pc = "failed" => proposals[s] = 0

\* No settlement stays in activeSettlements for ever: the deadline ends what
\* the parties do not (SettlementManager.ts:124-132).
TrackedIsResolved == \A s \in Settlements : s \in tracked ~> s \notin tracked

-------------------------------------------------------------------------------
(* What holds when a pass ends before the next one starts                  *)

\* A challenge upheld before the second acceptance forfeits the fee: the answer that
\* shows the agreement shows the verdict too, as long as the search finds every
\* entry (SettlementManager.ts:147-154, 181-191).
UpheldFirstForfeits == \A s \in upheldFirst : claims[s] = 0

\* As long as no request given up on is applied the fee is claimed at most once,
\* fallback, deadline branch and crash included (SettlementManager.ts:124-159).
ClaimedOnce == \A s \in Settlements : ~answerLost => claims[s] <= 1

-------------------------------------------------------------------------------
(* The manager implements SettlementLifecycle                              *)

LedgerStage(s) == IF accepts[s] = Parties THEN "agreed"
                  ELSE IF proposals[s] > 0 THEN "proposed" ELSE "absent"

MediatorView(s) ==
    IF s \in tracked THEN "watched"
    ELSE IF obj[s].status \in {"closed", "rejected"} THEN obj[s].status
    ELSE IF sub[s].pc \in {"submitted", "failed"} THEN "dropped" ELSE "new"

\* The fee of s has been asked for: the request is on its way, waited for or not,
\* or has been applied.
FeeAsked(s) ==
    \/ claims[s] > 0
    \/ lateClaims[s] > 0
    \/ \E p \in Passes : pass[p].pc \in {"payout", "entry"} /\ pass[p].cur = s

Lifecycle == INSTANCE SettlementLifecycle WITH
    ledger <- [s \in Settlements |-> LedgerStage(s)],
    view <- [s \in Settlements |-> MediatorView(s)],
    asked <- [s \in Settlements |-> FeeAsked(s)],
    paid <- [s \in Settlements |-> claims[s] > 0]

\* With one pass at a time (SettlementManager.ts:118-171 against the 60 s timer
\* of MediatorNode.ts:362-373) every step of the manager, of a crash and of a
\* late request is a step of the lifecycle: outcomes are final, the fee is asked
\* for only while an agreed settlement is watched, one that was asked for is never
\* rejected, and whatever arrives late was asked for then.
ImplementsLifecycle == Lifecycle!Spec

-------------------------------------------------------------------------------
(* What the documentation says and the code does not do                    *)

\* "If both parties submit signed Accept entries ... within the acceptance
\* window ..., the settlement is Closed" (spec.md, 4.1): one they agreed on in
\* time is not rejected unless a challenge was upheld.
AgreedInTimeIsNotRejected ==
    \A s \in Settlements :
        agreedInTime[s] /\ obj[s].status = "rejected" => "upheld" \in verdicts[s]

===============================================================================
