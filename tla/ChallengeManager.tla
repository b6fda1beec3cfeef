--------------------------- MODULE ChallengeManager ---------------------------
(***************************************************************************)
(* The node as an auditor of other mediators: the scan for settlements to  *)
(* challenge (src/MediatorNode.ts), the challenge manager                  *)
(* (src/challenge/ChallengeManager.ts) and the reputation counter it moves *)
(* (src/reputation/ReputationTracker.ts).  Two timers start scans and      *)
(* monitoring passes without waiting for the ones before.                  *)
(*                                                                         *)
(* As in SettlementManager, pc "scan" means: holds the node's one thread.  *)
(***************************************************************************)
EXTENDS Naturals, FiniteSets

CONSTANTS Targets,        \* settlements that other mediators proposed
          Challenges,     \* challenge identifiers (nanoid values)
          Scans, Passes,  \* scans and monitoring passes alive at once
          CheckInterval,  \* challengeCheckInterval, in clock units
          MaxClock,       \* bound of the clock
          MaxCrashes,     \* bound of the crashes
          None            \* no target, no challenge

ASSUME NoneAssumption == None \notin Targets \cup Challenges
ASSUME ScansAssumption == IsFiniteSet(Scans)
ASSUME TimeAssumption == CheckInterval \in Nat /\ MaxClock \in Nat

VARIABLES open,       \* targets the chain lists as proposed
          entry,      \* the target of each challenge entry on the chain
          verdict,    \* what consensus says of each challenge
          published,  \* failedChallenges in the chain's copy of the reputation
          history,    \* the ChallengeHistory objects
          submitted,  \* the keys of the submittedChallenges map
          failed,     \* reputation.failedChallenges
          scan, pass, clock, crashes,
          overwritten, \* history: a late "pending" answer replaced a verdict
          together    \* history: how many scans had found a target free of
                      \* challenges when the last of them did

ledgerVars == <<open, entry, verdict, published>>
vars == <<ledgerVars, history, submitted, failed, scan, pass, clock, crashes, overwritten,
          together>>

Verdict == {"pending", "upheld", "rejected"}
Request == {"idle", "sent", "applied"}
History == [target : Targets \cup {None}, status : Verdict, lastChecked : Nat]
Scan == [pc : {"idle", "list", "scan", "analyze", "post"}, todo : SUBSET Targets,
         cur : Targets \cup {None}, id : Challenges \cup {None}, req : Request]
Pass == [pc : {"idle", "scan", "status", "publish"}, now : Nat,
         visited : SUBSET Challenges, cur : Challenges \cup {None},
         req : Request, reply : Verdict \cup {None}, failed : Nat]

NoHistory == [target |-> None, status |-> "pending", lastChecked |-> 0]
IdleScan == [pc |-> "idle", todo |-> {}, cur |-> None, id |-> None, req |-> "idle"]
IdlePass == [pc |-> "idle", now |-> 0, visited |-> {}, cur |-> None,
             req |-> "idle", reply |-> None, failed |-> 0]

TypeOK ==
    /\ open \in SUBSET Targets
    /\ entry \in [Challenges -> Targets \cup {None}]
    /\ verdict \in [Challenges -> Verdict]
    /\ published \in Nat
    /\ history \in [Challenges -> History]
    /\ submitted \in SUBSET Challenges
    /\ failed \in Nat
    /\ scan \in [Scans -> Scan]
    /\ pass \in [Passes -> Pass]
    /\ clock \in 0..MaxClock
    /\ crashes \in Nat
    /\ overwritten \in BOOLEAN
    /\ together \in [Targets -> Nat]

Init ==
    /\ open = Targets
    /\ entry = [c \in Challenges |-> None]
    /\ verdict = [c \in Challenges |-> "pending"]
    /\ published = 0
    /\ history = [c \in Challenges |-> NoHistory]
    /\ submitted = {}
    /\ failed = 0
    /\ scan = [x \in Scans |-> IdleScan]
    /\ pass = [p \in Passes |-> IdlePass]
    /\ clock = 0
    /\ crashes = 0
    /\ overwritten = FALSE
    /\ together = [t \in Targets |-> 0]

ThreadFree == /\ \A x \in Scans : scan[x].pc # "scan"
              /\ \A p \in Passes : pass[p].pc # "scan"

-------------------------------------------------------------------------------
(* scanForChallengeableSettlements and submitChallenge                     *)

SetScan(x, r) ==
    /\ scan' = [scan EXCEPT ![x] = r]
    /\ UNCHANGED <<submitted, history, failed, pass, clock, crashes, overwritten>>

StartScan(x) ==
    /\ ThreadFree
    /\ scan[x].pc = "idle"
    /\ SetScan(x, [IdleScan EXCEPT !.pc = "list"])
    /\ UNCHANGED <<ledgerVars, together>>

\* getRecentSettlements: some of the open settlements; nothing on an error.
Listed(x) ==
    /\ ThreadFree
    /\ scan[x].pc = "list"
    /\ \E found \in SUBSET open :
         SetScan(x, [IdleScan EXCEPT !.pc = "scan", !.todo = found])
    /\ UNCHANGED <<ledgerVars, together>>

\* Mutant: earlier challenges are not looked for.
NeverChallenged(t) == FALSE

\* getChallengesForSettlement(t) is not empty.
Challenged(t) == \E c \in submitted : history[c].target = t

SkipTarget(x, t) ==
    /\ scan[x].pc = "scan"
    /\ t \in scan[x].todo
    /\ Challenged(t)
    /\ SetScan(x, [scan[x] EXCEPT !.todo = @ \ {t}])
    /\ UNCHANGED <<ledgerVars, together>>

\* The scans that found no challenge of t and have not ended with it.
Examining(t) == {x \in Scans : scan[x].pc \in {"analyze", "post"} /\ scan[x].cur = t}

\* The intents are fetched and the model is asked: the thread is given up.
Analyze(x, t) ==
    /\ scan[x].pc = "scan"
    /\ t \in scan[x].todo
    /\ ~Challenged(t)
    /\ SetScan(x, [scan[x] EXCEPT !.pc = "analyze", !.todo = @ \ {t}, !.cur = t])
    /\ together' = [together EXCEPT ![t] = Cardinality(Examining(t)) + 1]
    /\ UNCHANGED ledgerVars

BackToScan(x) == [IdleScan EXCEPT !.pc = "scan", !.todo = scan[x].todo]

\* No contradiction, an error, or a secret in the text: nothing is sent.
NoChallenge(x) ==
    /\ ThreadFree
    /\ scan[x].pc = "analyze"
    /\ SetScan(x, BackToScan(x))
    /\ UNCHANGED <<ledgerVars, together>>

\* shouldChallenge: a new challenge is posted, the map is not looked at again.
PostChallenge(x, c) ==
    /\ ThreadFree
    /\ scan[x].pc = "analyze"
    /\ entry[c] = None
    /\ history[c] = NoHistory
    /\ \A y \in Scans : scan[y].id # c
    /\ history' = [history EXCEPT ![c] = [target |-> scan[x].cur, status |-> "pending",
                                          lastChecked |-> clock]]
    /\ scan' = [scan EXCEPT ![x] = [scan[x] EXCEPT !.pc = "post", !.id = c,
                                                   !.req = "sent"]]
    /\ UNCHANGED <<ledgerVars, submitted, failed, pass, clock, crashes, overwritten,
                   together>>

ApplyChallenge(x) ==
    /\ scan[x].pc = "post"
    /\ scan[x].req = "sent"
    /\ entry' = [entry EXCEPT ![scan[x].id] = scan[x].cur]
    /\ SetScan(x, [scan[x] EXCEPT !.req = "applied"])
    /\ UNCHANGED <<open, verdict, published, together>>

ChallengePosted(x) ==
    /\ ThreadFree
    /\ scan[x].pc = "post"
    /\ scan[x].req = "applied"
    /\ submitted' = submitted \cup {scan[x].id}
    /\ scan' = [scan EXCEPT ![x] = BackToScan(x)]
    /\ UNCHANGED <<ledgerVars, history, failed, pass, clock, crashes, overwritten,
                   together>>

\* The request or its answer was lost: the challenge is not tracked.
ChallengeLost(x) ==
    /\ ThreadFree
    /\ scan[x].pc = "post"
    /\ SetScan(x, BackToScan(x))
    /\ UNCHANGED <<ledgerVars, together>>

EndScan(x) ==
    /\ scan[x].pc = "scan"
    /\ scan[x].todo = {}
    /\ SetScan(x, IdleScan)
    /\ UNCHANGED <<ledgerVars, together>>

-------------------------------------------------------------------------------
(* monitorChallenges and handleChallengeResolution                         *)

SetPass(p, r) ==
    /\ pass' = [pass EXCEPT ![p] = r]
    /\ UNCHANGED <<open, entry, verdict, scan, clock, crashes, together>>

StartPass(p) ==
    /\ ThreadFree
    /\ pass[p].pc = "idle"
    /\ SetPass(p, [IdlePass EXCEPT !.pc = "scan", !.now = clock])
    /\ UNCHANGED <<published, history, submitted, failed, overwritten>>

Unvisited(p) == submitted \ pass[p].visited

Onward(p, c) == [IdlePass EXCEPT !.pc = "scan", !.now = pass[p].now,
                                 !.visited = pass[p].visited \cup {c}]

\* Throttled against the time the pass began.
CheckedRecently(p, c) == pass[p].now < history[c].lastChecked + CheckInterval

SkipChallenge(p, c) ==
    /\ pass[p].pc = "scan"
    /\ c \in Unvisited(p)
    /\ CheckedRecently(p, c)
    /\ SetPass(p, Onward(p, c))
    /\ UNCHANGED <<published, history, submitted, failed, overwritten>>

AskStatus(p, c) ==
    /\ pass[p].pc = "scan"
    /\ c \in Unvisited(p)
    /\ ~CheckedRecently(p, c)
    /\ SetPass(p, [Onward(p, c) EXCEPT !.pc = "status", !.cur = c, !.req = "sent"])
    /\ UNCHANGED <<published, history, submitted, failed, overwritten>>

\* The first search hit that carries the id: the verdict, or, if an older entry
\* ranks first, still "pending".  The node reads the answer later.
AnswerStatus(p) ==
    /\ pass[p].pc = "status"
    /\ pass[p].req = "sent"
    /\ \E v \in {verdict[pass[p].cur], "pending"} :
         SetPass(p, [pass[p] EXCEPT !.req = "applied", !.reply = v])
    /\ UNCHANGED <<published, history, submitted, failed, overwritten>>

\* An error, or no hit: the challenge is looked at again in the next pass.
LoseStatus(p) ==
    /\ ThreadFree
    /\ pass[p].pc = "status"
    /\ SetPass(p, Onward(p, pass[p].cur))
    /\ UNCHANGED <<published, history, submitted, failed, overwritten>>

\* Mutant: every verdict is handled, the first one or not.
ResolvesAgain(p) == pass[p].reply # "pending"

\* The old status is read after the await: only the pass that turns "pending"
\* into a verdict handles the resolution.
Resolves(p) == pass[p].reply # "pending" /\ history[pass[p].cur].status = "pending"

\* An answer taken before the verdict is read after it.
Overwrites(p) == pass[p].reply = "pending" /\ history[pass[p].cur].status # "pending"

\* What every answered check does to the history object.
Checked(p) == [history EXCEPT ![pass[p].cur] =
                 [history[pass[p].cur] EXCEPT !.status = pass[p].reply,
                                              !.lastChecked = pass[p].now]]

ReadStatus(p) ==
    /\ ThreadFree
    /\ pass[p].pc = "status"
    /\ pass[p].req = "applied"
    /\ history' = Checked(p)
    /\ overwritten' = (overwritten \/ Overwrites(p))
    /\ \/ /\ ~Resolves(p)
          /\ SetPass(p, Onward(p, pass[p].cur))
          /\ UNCHANGED <<submitted, failed>>
       \/ /\ Resolves(p)
          /\ pass[p].reply = "upheld"
          /\ submitted' = submitted \ {pass[p].cur}
          /\ SetPass(p, Onward(p, pass[p].cur))
          /\ UNCHANGED failed
       \/ /\ Resolves(p)
          /\ pass[p].reply = "rejected"
          /\ failed' = failed + 1
          /\ SetPass(p, [pass[p] EXCEPT !.pc = "publish", !.req = "sent",
                                        !.failed = failed'])
          /\ UNCHANGED submitted
    /\ UNCHANGED published

\* publishReputationUpdate: the chain replaces its copy by the one sent.
ApplyPublish(p) ==
    /\ pass[p].pc = "publish"
    /\ pass[p].req = "sent"
    /\ published' = pass[p].failed
    /\ SetPass(p, [pass[p] EXCEPT !.req = "applied"])
    /\ UNCHANGED <<history, submitted, failed, overwritten>>

\* Mutant: the challenge is kept when the publication fails.
EndPublishIfPublished(p) ==
    /\ ThreadFree
    /\ pass[p].pc = "publish"
    /\ submitted' = IF pass[p].req = "applied" THEN submitted \ {pass[p].cur} ELSE submitted
    /\ SetPass(p, Onward(p, pass[p].cur))
    /\ UNCHANGED <<published, history, failed, overwritten>>

\* Published or not, the challenge leaves the map.
EndPublish(p) ==
    /\ ThreadFree
    /\ pass[p].pc = "publish"
    /\ submitted' = submitted \ {pass[p].cur}
    /\ SetPass(p, Onward(p, pass[p].cur))
    /\ UNCHANGED <<published, history, failed, overwritten>>

EndPass(p) ==
    /\ pass[p].pc = "scan"
    /\ Unvisited(p) = {}
    /\ SetPass(p, IdlePass)
    /\ UNCHANGED <<published, history, submitted, failed, overwritten>>

-------------------------------------------------------------------------------
(* The environment                                                         *)

\* Consensus decides a challenge that stands on the chain.
Decide(c, v) ==
    /\ entry[c] # None
    /\ verdict[c] = "pending"
    /\ v # "pending"
    /\ verdict' = [verdict EXCEPT ![c] = v]
    /\ UNCHANGED <<open, entry, published, history, submitted, failed, scan, pass,
                   clock, crashes, overwritten, together>>

\* The challenged mediator's settlement is closed.
CloseTarget(t) ==
    /\ t \in open
    /\ open' = open \ {t}
    /\ UNCHANGED <<entry, verdict, published, history, submitted, failed, scan, pass,
                   clock, crashes, overwritten, together>>

Tick ==
    /\ clock < MaxClock
    /\ clock' = clock + 1
    /\ UNCHANGED <<ledgerVars, history, submitted, failed, scan, pass, crashes, overwritten,
                   together>>

\* A restart forgets the challenges and loads the reputation from the chain, or
\* starts from the defaults when that fails.
Restart ==
    /\ crashes < MaxCrashes
    /\ crashes' = crashes + 1
    /\ submitted' = {}
    /\ scan' = [x \in Scans |-> IdleScan]
    /\ pass' = [p \in Passes |-> IdlePass]
    /\ failed' \in {published, 0}
    /\ UNCHANGED <<ledgerVars, history, clock, overwritten, together>>

ScanNext(x) ==
    \/ StartScan(x) \/ Listed(x) \/ EndScan(x)
    \/ \E t \in Targets : SkipTarget(x, t) \/ Analyze(x, t)
    \/ NoChallenge(x) \/ ApplyChallenge(x) \/ ChallengePosted(x) \/ ChallengeLost(x)
    \/ \E c \in Challenges : PostChallenge(x, c)

PassNext(p) ==
    \/ StartPass(p) \/ EndPass(p)
    \/ \E c \in Challenges : SkipChallenge(p, c) \/ AskStatus(p, c)
    \/ AnswerStatus(p) \/ LoseStatus(p) \/ ReadStatus(p)
    \/ ApplyPublish(p) \/ EndPublish(p)

EnvNext ==
    \/ \E c \in Challenges, v \in Verdict : Decide(c, v)
    \/ \E t \in Targets : CloseTarget(t)
    \/ Tick \/ Restart

Next ==
    \/ \E x \in Scans : ScanNext(x)
    \/ \E p \in Passes : PassNext(p)
    \/ EnvNext

Spec == Init /\ [][Next]_vars

-------------------------------------------------------------------------------

Rejected == {c \in Challenges : verdict[c] = "rejected"}

\* A rejected challenge is counted at most once, in the node and in what the chain
\* is told, however many passes overlap, however long a publication takes and
\* across a restart, unless an answer taken before the verdict is read after it and
\* puts the challenge back to "pending" (ChallengeManager.ts:167-185).
FailuresCountedOnce ==
    ~overwritten => /\ failed <= Cardinality(Rejected)
                    /\ published <= Cardinality(Rejected)

\* A challenge that was seen resolved is in the map only while a pass is about
\* to delete it: none leaks, none blocks its settlement for ever
\* (ChallengeManager.ts:176-226).
NoLeakedResolution ==
    \A c \in submitted :
        history[c].status # "pending" =>
            \E p \in Passes : pass[p].pc = "publish" /\ pass[p].cur = c

TrackedOf(t) == {c \in submitted : history[c].target = t}

\* Scans overlap: the map is looked at before the model is asked and not again when
\* the challenge is posted.  A settlement has no more challenges of ours in the map
\* than scans were between the two when the last of them looked, so one at a time
\* unless scans raced (MediatorNode.ts:425-470, ChallengeManager.ts:55-78).
DuplicatesAreRaced ==
    \A t \in Targets : Cardinality(TrackedOf(t)) <= together[t]

===============================================================================
