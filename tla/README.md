# Formal models of the mediator node

TLA+ specifications of the mediator node (`src/`), TLC configurations that
check them on small instances, and proofs checked by TLAPS for every value of
the constants. Each definition is a translation of the source lines that
`PROJECT.json` ("map") names for it; where the documentation and the code
differ, the code is modelled and the difference is described in section 4.

Contents: 1 the system, 2 the modules and how they correspond to the code,
3 the runs, 4 where the code and its documentation differ, 5 the proofs,
6 what is not modelled, 7 the plan.

## 1. The system

A mediator node is one Node.js process. It polls a NatLangChain ledger for
*intents*, embeds them in a vector index, looks for pairs that fit, lets a
language model negotiate, proposes a *settlement* for a pair, and claims a fee
when both parties have accepted it. Optionally it challenges settlements of
other mediators. All of it hangs on five timers and one HTTP client.

| Component | State | Operations |
|---|---|---|
| `MediatorNode` | `isRunning`, `cycleInterval`, `embeddingCache` | `start`, `stop`, `executeAlignmentCycle`, the settlement, challenge and scan timers |
| `IntentIngester` | `intentCache`, `lastPollTime`, `authorFrequency`, `recentProseHashes` | `pollForIntents`, `processIntent`, `enforceMaxCacheSize` |
| `VectorDatabase` | `index`, `intentMap`, `nextId`, the files `index.bin` and `intent-map.json` | `initialize`, `addIntent`, `findSimilarIntents`, `save` |
| `LLMProvider` | hourly and daily call counters | `generateEmbedding`, `negotiateAlignment` |
| `SettlementManager` | `activeSettlements` | `createSettlement`, `submitSettlement`, `monitorSettlements`, `closeSettlement` |
| `ChallengeManager`, `ChallengeDetector` | `submittedChallenges` | `submitChallenge`, `monitorChallenges`, `handleChallengeResolution` |
| `ReputationTracker` | the reputation record | `loadReputation`, `recordFailedChallenge`, `publishReputationUpdate` |
| `ChainClient` | the breaker | one method per request; `withRetry` |
| `CircuitBreaker` | `state`, `consecutiveFailures`, `halfOpenSuccesses`, `lastFailureTime` | `canExecute`, `execute`, `reset`, `forceOpen` |

The directory `_deferred/` holds five subsystems that are complete and tested
but that the node does not start yet:

| Component | State | Operations |
|---|---|---|
| `ValidatorRotationManager` | validators, jail, the epoch and its active list, the slot timer | register, stake, remove, jail, unjail, missed slots, epochs |
| `SemanticConsensusManager` | verifications and the answers of the verifiers | initiate, respond, aggregate, deadline |
| `StakeManager`, `AuthorityManager` | own, delegated and effective stake; the authority set | bond, unbond, load delegations, slash; load the set |
| `DisputeManager` | the disputes; five managers for evidence, clarification, escalation, outcomes, packages, each with files | thirty calls, several of which await the chain, an authority or the model |
| `LicenseManager`, `DelegationManager`, `AuthorityTracker` | licences, delegations and their chains, recorded actions, violations; a file per record | propose, ratify, activate, revoke, expire, check, redelegate |
| `MP05SettlementManager`, `MP05CapitalizationManager` | settlements with declarations, stages and a hash; value events, interfaces, reports; a file per record | initiate, declare, stage, finalize, contest, reverse, capitalize, execute |
| `EffortCaptureSystem` and its observers, segmentation, receipts, anchoring | captured signals, receipts and their files | capture, segment, assess, receipt, anchor, mark, retain, stop, restart |

How they interact. `MediatorNode` owns the timers and calls everything else;
the ingester's cache is read by the cycle, the cycle calls the vector database
and the model and hands a pair to the settlement manager; both managers and
the ingester reach the ledger through `ChainClient`, which passes some requests
through the breaker. The managers share nothing with one another but the chain.

### What is hard about it

* **Overlap.** `setInterval` does not wait for the promise of its callback. A
  slow chain gives two settlement passes, two challenge passes, two polls or
  two alignment cycles that work on the same maps and objects, each resuming
  after its own awaits.
* **Lost and late answers.** Every request may be applied by the chain and its
  answer lost, and one that the client has given up on (30 s), or that was on its
  way when the process ended, may be applied afterwards. The client takes any error
  of a specialised endpoint for "endpoint not available" and repeats the request on
  `/entry`; `withRetry` repeats it again.
* **Stale reads.** Passes read an object, await, and write it; a status answer
  is a snapshot the chain took earlier, and a search may miss entries.
* **Crashes.** Settlements and challenges are only in memory. The vector
  database is on disk, in two files written one after the other by two threads,
  and only at shutdown.
* **Writes that fail.** The managers of `_deferred` write memory first and the
  file then; a write that the disk refuses is logged and forgotten, so memory and
  disk disagree until the next write of that record, or until a restart makes the
  older one true.
* **Limits and windows.** The cache, the index, the author limit and the
  duplicate window are bounded, and an object that falls out of one of them
  may still be in another.

### What makes each component correct

* SettlementManager: a fee is claimed only for what both parties accepted,
  once; a closed settlement was paid, a rejected one was not; every tracked
  settlement comes to an end.
* CircuitBreaker: counters fit the state whatever arrives late; it cools down,
  tests before it closes, and no late failures keep it shut for good.
* ChallengeManager and ReputationTracker: a verdict is counted once and a
  resolved challenge leaves the map; one challenge per settlement, or one per scan
  that raced for it.
* IntentIngester: the author limit and the duplicate window hold across
  overlapping polls; eviction keeps the newest.
* VectorDatabase and the cycle: an id leads to one intent; the vector under an
  id is that intent's; what counts as embedded can be found.
* Rotation: the flags of the validators and the list of the epoch agree, and no
  sequence of calls shortens a stay in jail.
* Consensus and stake: a consensus announced is in the list of responses of the
  chain, and stays; the stake the node goes by is backed by the chain.
* Disputes: one outcome, which reaches the dispute; an item is released by its own
  dispute; a package said to be complete is.
* Licences and delegations: an end that was written is final; authority is
  handed down a chain that was in force.
* MP-05: the hash is that of the record; a written finalization is not undone;
  value rests on a finalized settlement.
* Effort: every signal is attested; the receipts follow the disclosed rule and do
  not contradict one another; what is said to be anchored is on the ledger.

## 2. The modules

One thread runs the node. Each asynchronous function is modelled by a record
per call with a program counter that names the await it is at; an action is
the code from one await to the next. Where a loop touches many entries between
two awaits it is several actions, and a guard (`ThreadFree`, `LoopIsFree`)
keeps every other callback out meanwhile. A request is `sent`, then `applied`
by the chain, then answered, and may be lost at either point; one that is given up
on while it is only sent may still be applied.

| Module | Models | Notes |
|---|---|---|
| `SettlementLedger` | the ledger as the client uses it (external) | append-only, refuses nothing, cannot tell a repeated request; `lateProposals` and `lateClaims` count the requests nobody waits for any more, each of which it may still apply (`LateProposal`, `LateClaim`) |
| `SettlementManager` | `SettlementManager.ts`, with `submitSettlement`, `getSettlementStatus` and `submitPayout` of `ChainClient.ts` | extends the ledger. `obj` are the settlement objects, `tracked` the keys of `activeSettlements`, `sub` and `pass` the calls of `submitSettlement` and `monitorSettlements`; at its end the mapping to the lifecycle, `INSTANCE SettlementLifecycle WITH ...`, and `ImplementsLifecycle` |
| `SettlementLifecycle` | an abstract specification: absent, proposed, agreed on the ledger; new, watched, closed, rejected, dropped in the node; asked for, paid | what the manager promises, without passes, requests and clock; what `settlement_single` checks the manager against |
| `CircuitBreaker` | `circuit-breaker.ts` and `withRetry` | `left[c]` are the attempts operation `c` still has; `sinceFailure` is the time since `lastFailureTime`, cut at the timeout |
| `ChallengeManager` | `ChallengeManager.ts`, the scan and both timers of `MediatorNode.ts`, the publication of `ReputationTracker.ts` | `scan` and `pass` are the calls; `published` is the chain's copy of the counter; `together` is history: how many scans were at a settlement when the last of them looked |
| `IntentIngester` | `IntentIngester.ts`, `getPendingIntents`, `InjectionRateLimiter` | one action per way `processIntent` returns |
| `VectorDatabase` | `VectorDatabase.ts`, its files and the end of the process | a vector is named by the intent it embeds |
| `AlignmentCycle` | `executeAlignmentCycle`, `start`, `stop` | extends `VectorDatabase` and composes its steps with overlapping cycles |
| `ValidatorRotation` | `ValidatorRotationManager.ts` | every call but `start` is one step; the ranking of equal stakes is any order |
| `SemanticConsensus` | `SemanticConsensusManager.ts`, the requester and the verifiers | a summary is a meaning, and `Similar` says which pairs are equivalent; the responses are places in the chain's list, since nothing in the code looks at who wrote them |
| `StakeManager` | `StakeManager.ts`, and the chain's copy of the stake | a bond, an unbonding and a load of delegations change the record when the answer arrives, a slashing before it is reported. `MCMediatorConsensus` holds it and `SemanticConsensus`, which share nothing: a behaviour moves one of them |
| `DisputeTypes`, `EvidenceManager`, `OutcomeRecorder`, `EscalationManager`, `ClarificationManager`, `DisputePackageBuilder` | the files of these names under `dispute/`, and their types | |
| `DisputeManager` | `DisputeManager.ts` composed with the five | every answer that is awaited is a step of its own |
| `GrantTypes`, `LicenseManager`, `DelegationManager`, `AuthorityTracker`, `LicensingManager` | the files of these names under `licensing/`, and their types | `x` and `xFiles` are memory and disk; `SaveFails` is a refused write |
| `MP05SettlementManager` | `MP05SettlementManager.ts`, `MP05SettlementValidator.ts` | the hash is the record of the covered fields that still change |
| `MP05CapitalizationManager` | `MP05CapitalizationManager.ts` | |
| `MP05SettlementCoordinator` | `MP05SettlementCoordinator.ts` composed with all of licensing | |
| `EffortObservers`, `SegmentationEngine`, `AnchoringService`, `EffortCaptureSystem` | the files of these names under `effort/`; `ReceiptManager.ts` is in `AnchoringService` | `passes` are the calls of the segmentation timer, each at the model call of a segment; `anchorings` are the runs of the anchoring timer |
| `MC...` | the instances TLC checks; a module whose constants a `.cfg` can give has none. `MCSettlementManager` serves both settlement runs | |
| `X_proofs` | the proofs about `X`; `MediatorConsensus_proofs` those about rotation, consensus and stake, `MediatorNode_proofs` those about the ingester and the alignment cycle, `MP05Settlement_proofs` those about MP-05 and licensing | `Spec` is the specification of the module, `IngesterSpec`, `ConsensusSpec` and `StakeSpec` those of modules that share a proof module |

Abstractions, by module:

* *Settlement.* Texts, hashes and signatures are left out; a secret found by
  the scanner is the second alternative of `Create`. The status of a challenge
  is `upheld` or `standing`, since nothing here tells `pending` from `rejected`.
  An answer is a snapshot of the ledger or, with `PartialSearch`, any part of
  it (`top_k` is 20). The breaker appears as the choice to fail at once.
* *Breaker.* Statistics that are only reported are left out, and
  `consecutiveFailures` is cut at the threshold, above which nothing depends
  on it. The health of the chain is a boolean that may change at any time.
* *Challenges.* The detector is a choice: challenge or not.
* *Ingester.* An intent belongs to sets (`Invalid`, `Flagged`, `Unalignable`)
  instead of having a text. Its timestamp is its author's and may lie in the
  future. Only the newest `MaxAttempts` injection attempts are kept: the code
  asks for no more than whether there are that many.
* *Vectors.* Distances are left out: a search may return any point it may
  legally return. The cycle takes the best of the cache by the fee offered, in
  any order where fees are equal. What becomes of a negotiated pair is `Create` of
  `SettlementManager`. hnswlib's `readIndex` and `writeIndex` are
  asynchronous and nobody awaits them; when the process exits by itself a
  write that was started ends first, when it is killed the file is as it was,
  torn, or whole.

* *Rotation.* Stakes are numbers and only their order and the minimum matter.
  An epoch ends with its timer or late.
* *Consensus.* Embeddings and texts are meanings; equivalence is symmetric and
  need not be transitive, as a similarity threshold is not.
* *Stake.* Of the delegations their total. The chain's side is what the code takes it
  for: a bond sets the stake held, a slashing takes from it, an unbonding ends with
  its release.
* *Disputes.* Prose, hashes and timestamps are left out. Evidence stands for the
  items it is linked to. Records are written to disk in the step that changes
  them, which is what the synchronous code does when the write succeeds.
* *Licences, delegations, MP-05.* Subjects, purposes, powers and amounts are
  left out; whether an action fits a scope is a choice. Where the code writes one
  file twice in a call, only a refusal of the last write is modelled.
* *Effort.* A signal is its number and its time, a receipt the segment it attests;
  receipts that attest the same in the same state are one. The text of an
  assessment is left out. Signals captured at one instant keep the order of their
  capture, where the code puts those of the observer registered first before those
  of the other.

History variables record what a property is about and the code does not keep:
`answerLost`, `agreedInTime`, `upheldFirst`, `overwritten`, `together`, `crossed`, `cachedAt`,
`refused`, `split`, `lastJailed`, `retired`, `trimmed`, `failedSaves`. No guard of a
modelled step reads one, but for the bounds of `split` and `failedSaves`; the instance
of `consensus` stops at `crossed`, after which its property claims nothing.

Operators whose comment begins "Mutant:" are what a plausible bug would make
of the definition that follows them (a dropped guard, a comparison that is off
by one, a step that comes too early). No specification uses them. Each is
paired in `PROJECT.json` ("mutants") with the property it breaks: put in the
place of the original, TLC finds the property violated.

## 3. The runs

| Run | Question | Instance |
|---|---|---|
| `settlement_overlap` | what holds however passes overlap and answers are lost; does every settlement end? | one settlement, two passes, partial answers, two attempts |
| `settlement_single` | what holds when a pass ends before the next starts; does the manager implement the lifecycle? | two settlements, one pass, one attempt, one crash |
| `circuit_breaker` | do late outcomes confuse the breaker; may they keep it shut? | three operations, thresholds and timeout 2, two manual interventions |
| `challenges` | are verdicts counted once, do challenges leave the map, when is a settlement challenged twice? | one target, two challenges, two scans, two passes, one restart |
| `ingester` | do limit, window and eviction hold across overlapping polls? | four intents of two authors, two polls, cache of one |
| `alignment` | do ids stay right across overlaps, evictions, restarts and cut saves? | two intents, two cycles, room for two points of three |
| `rotation` | do flags, epoch and jail agree; is the announced slot right? | two validators, two stakes, two slots, a clock of four |
| `consensus` | does an announced consensus exist and stay; is the stake backed? | three verifiers, two requests, four responses of which three must agree, three meanings; three stake requests |
| `disputes` | is there one outcome, does it arrive, who releases an item, what is in a package? | two disputes that share an item, six calls, one restart |
| `settling_value` | is the hash current, is an end final, what does value rest on? | two parties, one licence, two delegations, one settlement, six calls, one refused write, one restart |
| `effort` | is every signal attested, do receipts contradict one another, what is anchored? | three signals, two passes, each of three rules; one signal, two receipts of it, two anchoring runs |
| `agreed_in_time` | the finding of section 4 | as `settlement_overlap`, with one unit of window |

**settlement_overlap.** `TrackedIsOnChain`, `ClaimNeedsBothParties` and
`ClosedIsPaid` hold whatever overlaps. `TrackedIsResolved` is liveness: the
deadline takes out of the map what the parties do not. Fairness: time passes,
the timer fires, and a request ends, by its answer or by the 30 s timeout of
the HTTP client. The event loop serves its queue in order, so a callback
that has to wait for the thread again and again still gets its turn (strong
fairness); which way a request ends is not constrained. The view leaves out
history that no property of this run reads (354,436 states).

**settlement_single.** `ClaimedOnce`, `UpheldFirstForfeits` and the refinement
need passes that do not overlap, and so are checked with one. They fail with two:
both passes may see the two acceptances and each claims the fee; one pass may
reject, at the deadline, what another is paying for. `ClaimedOnce` and
`ProposedOnce` also assume that no request given up on was applied, before or after,
since the fallback to `/entry` repeats it. The refinement assumes nothing of the kind: a proposal or a claim
may arrive when the settlement is rejected, dropped or forgotten, and
`SettlementLifecycle` says what remains true then: it was asked for while the
settlement was agreed and watched, and what was asked for is never rejected.
`UpheldFirstForfeits` needs a search that finds every entry. A tick is the
acceptance window: a settlement is created in tick 0 and is past its deadline
in tick 1; acceptances and answers fall in either. Settlements are
interchangeable and so are parties, and no property of this run is a liveness
property, so symmetry is sound. The view leaves out one history variable
(2,741,757 states).

**circuit_breaker.** `AdmitsAgain` is the liveness property: again and again the
breaker would admit the next call. It is not trivial, since every failure restarts
the timeout, those of operations admitted long before too: what ends it is that an
open breaker admits nothing more to fail and that a refused call is no failure.
Fairness: time passes and every attempt ends. Nothing is assumed about calls: the
timers' requests bypass the breaker, `withRetry` is reached only from the fallbacks
of the settlement client, and nothing calls `checkHealth`, so that the code
schedules no call that would take a half-open breaker to closed. That it gets back
to closed is therefore not claimed. Three operations are enough for one that was
admitted before the breaker opened to end in each of the later states while
two others drive it.

**challenges.** `FailuresCountedOnce` holds unless an answer taken before the
verdict is read after it (`overwritten`): then the status goes back to
`pending`, and a further pass counts the failure again while the first
publication is outstanding. Scans overlap, and two of them do challenge one
settlement twice, since the map is looked at before the model is asked and not when
the challenge is posted. `DuplicatesAreRaced` says that this is the only way: a
settlement has no more challenges of ours in the map than scans were between looking
and posting when the last of them looked. A challenge whose answer was lost is
not in the map (2,076,010 states).

**ingester.** The hour is two ticks, the clock has four, so that an intent
leaves the windows and returns. Timestamps are before or after every poll: the
intents of the second kind are fetched by every poll, the others until
`lastPollTime` passes them. With a cache of one every second intent evicts.

**alignment.** `VectorsMatch` holds as long as no more than one save left the
two files of two moments (`split`). That happens when a save is cut off, and
also when a cycle that `stop` did not wait for adds a point between the two
writes. After a second such save an id may lead to the wrong vector: ids above those
of the older map are given out again, and a second save leaves the older
index beside the newer map.

**rotation.** Two validators for two slots, with stakes above and below
the minimum: each may lead, follow, fall out, be jailed twice, leave and come
back, or be reloaded from the chain while an epoch runs. The clock covers
two epochs and a cooldown that spans one of them. The initial states are those
of a manager that was constructed and not started, and validators the chain lists
bring missed slots with them. The next own slot is computed from the active
list of the epoch that runs, also when it lies beyond its end, where another list
will hold: `NextSlotIsMine` says that it is right for the list it was asked of.

**consensus.** With four responses, a threshold of three and a middle meaning
that resembles both others, three may hang together although two of them
are not alike: this is the case the aggregation has to get right. Verifiers answer
again when they are asked again, and a second verification of the settlement is
initiated while the first is under way; its record takes the place of the other, and
the list of responses belongs to both. `ConsensusIsSupported` says that an announced
consensus is on the chain: as many entries as required hang together. Who wrote
them the code does not ask, and the property does not say.
`ConsensusIsStable` is about one aggregation in flight; of two, the
older answer may arrive last and undo what the newer one found.

Three stake requests are in flight at once, are answered in any order, fail, or
take effect after they were given up on. `EffectiveStakeIsBacked` compares what the
node goes by with what the chain holds. It leaves out changes of the stake that
overlapped or that took effect unknown to the node (`crossed`): section 4 says what
becomes of these (585,366 states, both managers together).

**disputes.** One dispute contests both items and the other one of them, so
that freezing and releasing meet. Every awaited answer (chain, authority,
model, data providers) arrives when it likes; six calls suffice to bring both
disputes to an end with two recordings overlapping, and a restart may come
between any two steps. `OutcomeReachesDispute` speaks of a process that has
not restarted: after a crash between the recorder's save and the dispute's,
the dispute is open and the recorder refuses another outcome.

**settling_value.** Six calls of any interface are enough for a settlement of two
parties to be declared, staged, finalized, capitalized and executed, with a
contest or a reversal in between; the licence runs out meanwhile. Any one write
may be refused. `ValueRestsOnFinalized` and `AuthorityIsHandedDown` speak of a
disk that refused nothing; the other three hold whatever it refuses.

**effort.** `EverySignalIsAttested` is the liveness property. Fairness: the
segmentation timer fires while the system runs, and each model call of a pass
is answered or fails, for which the code has a fallback (weak fairness of
`ProcessSegments` and of each pass). Nothing is assumed of the anchoring timer, of the
retention, of marked segments or of the clock. A window of four
ticks, a gap of two and five instants are such that no two of the rules cut three
signals alike.

A behaviour either segments or anchors (`focus`), since the receipts of the one are
all that the other sees. The first has three signals, a shell, two passes, stop and
restart. `ReceiptsAgree` speaks of receipts of different passes, which saw different
numbers of signals; it has the condition that the retention has dropped none yet, and
section 4 says what happens then. The other has one signal and so two receipts, of
the timer and of a mark, two anchoring runs at once, posts whose answers are lost
or that arrive after the run, the retention or the process has ended
(604,876 states). That memory says less than the ledger holds is not excluded:
after a lost answer a receipt is posted again.

Deadlock is checked in the runs of the running node, whose environment can
always take a step. The five runs of `_deferred` stop where their bounds on calls
and time do, and say `CHECK_DEADLOCK FALSE`.

## 4. Where the code and its documentation differ

`agreed_in_time` is a run that violates one property, which states what the
specification says: past the deadline the flags of the last answer decide and
the chain is not asked again, so that a settlement accepted in time by both
parties is rejected if no pass read both acceptances before (`spec.md:78`).

The models contain these other disagreements, which no run is spent on:

* A payout that fails loses the settlement: `closeSettlement` swallows its
  exceptions, so the caller always deletes the entry, where the comment beside it
  (`SettlementManager.ts:157-160`) says it is kept for a retry.
* A request that was given up on may be applied when its settlement is rejected,
  dropped or forgotten by a restart: a proposal then stands on the chain unwatched,
  or a fee is paid after the node has stopped waiting for it (`ChainClient.ts:442, 593`).
* `isAvailable` says no in `half_open`, where `canExecute` says yes; the alignment
  cycle asks the former (`circuit-breaker.ts:236-240`, `MediatorNode.ts:191`). Closing
  needs successes of calls through the breaker, and while cycles are skipped fewer
  things make one.
* Scans that overlap challenge one settlement once each (`MediatorNode.ts:425-470`).
* `failedChallenges`, which raises the weight, counts rejected challenges and
  not upheld ones (`spec.md:175`).
* A poll that failed moves `lastPollTime` like one that succeeded
  (`ARCHITECTURE.md:84`).
* An index file that cannot be read ends every start of the node, where it should
  be rebuilt (`ARCHITECTURE.md:397`).
* A verification whose answers contain a consensus still ends in `timeout` if no
  aggregation ran before the deadline (`types/index.ts:1019`).
* A consensus is counted in entries of the list of responses. A verifier that is
  handed a request again posts again, nobody compares `verifierId` with the
  verifiers selected or with one another, and initiations of one settlement may
  overlap (`SemanticConsensusManager.ts:291-366, 583-606, 641`).
* The answer to a bond sets the amount: a slashing recorded after the bond was sent is
  overwritten, and the node counts more stake than the chain holds
  (`StakeManager.ts:44-47, 256-257`).
* An item has one entry for good: a second dispute about it does not freeze it
  again, and it stays released while that dispute is open (`EvidenceManager.ts:104`).
* A package refers to the dispute's own list of evidence, so that what it holds
  differs before and after a restart (`DisputePackageBuilder.ts`).
* A contested or a reversed MP-05 settlement is ratified again by the last
  declaration, `reverseSettlement` asks for no status and nobody's authority, and
  the beneficiaries of an interface are not compared with those of its event.
* A redelegation's own `maxRedelegationDepth` takes the place of its parent's limit,
  and a revocation does not reach the redelegations made under it
  (`types/index.ts:1969` "to prevent authority dilution").
* `clearSignalsBefore` of the segmentation timer is asked to clear what lies before
  the oldest snapshot entry and so clears nothing (`EffortCaptureSystem.ts:186`
  "Clear processed signals"): the same signals are receipted by every pass. Once the
  retention has dropped the oldest, the rest is cut from another start, and two
  receipts of one signal may contradict each other, where "Segmentation rules MUST be
  deterministic and disclosed" (`MP-02-spec.md:106`).
* `EffortReceiptSchema` (`validation/schemas.ts:143-154`) does not describe a receipt,
  so that every receipt file is refused and a restart loads none.

## 5. The proofs

Every invariant and every action property that a passing run checks is a
theorem, for every value of the constants that the assumptions admit: any
number of settlements, passes, scans, polls, cycles, calls and restarts, any
limits, windows and bounds. The assumptions say what the code takes for granted: two
parties, positive limits and attempts, times that are natural numbers, finite
sets where the code has collections, and placeholders (`None`, `Never`,
`Absent`, `Torn`) that are none of the values they stand beside.

The shape is the same in every module. The property is seldom inductive, so
an invariant is found that is; one lemma per action, or per group of actions with
the same footprint, says that it is kept; the theorem puts the lemmas together by
the disjuncts of `Next`. An action property follows from the invariant and one
step. What follows says why each invariant is needed.

**SettlementManager_proofs.** That a claim is justified when it is applied depends
on why the request was sent. `IInv` adds `AwaitsAreJustified` (a pass awaits a
payout only for a settlement both parties have accepted on the ledger),
`FlagsAreTrue` (the acceptance flags of an object, and of every answer on its way,
are among the acceptances of the ledger, which only grow) and
`AppliedIsRecorded` (a request the chain has applied has left its entry);
`AwaitsAreJustified` also speaks of the claims nobody waits for any more. It does
not matter how old an answer is or what another pass did meanwhile, because
acceptances are never withdrawn. From it follow `TypeOK`, `TrackedIsOnChain`,
`ClaimNeedsBothParties` and `ClosedIsPaid`, and with `SubmissionInv`, which ties what
the ledger has of a settlement to how far its submission is, `ProposedOnce`.

The other three need passes that do not overlap. The hypothesis is
`[]PassesApart`, no two passes are ever alive at once: what a 60 s timer and calls
that are answered promptly amount to. It bounds no number of passes or
settlements, and with one pass it holds of every behaviour. Without it the three
are false (section 3). `ApartInv` says that what a pass awaits something for is
still in the map and undecided, so that `ClaimedOnce` follows while no answer is
lost; `Disclosed` says that a challenge upheld first is in every answer that
shows both acceptances, so that `UpheldFirstForfeits` follows if a search finds
every entry (`~PartialSearch`). `ImplementsLifecycle` is the refinement: the
initial states map to the initial state of `SettlementLifecycle`, and every step to
one of its steps or to a stutter, crashes and requests that arrive late included: a claim on
its way, awaited or not, was asked for, and asking needs an agreement the ledger keeps.

**CircuitBreaker_proofs.** `TypeOK`, `CountersAgreeWithState`, `CoolsDown` and
`RecoveryIsTested`. The invariant is the type and the counters; the two action
properties follow from it step by step.

**ChallengeManager_proofs.** `FailuresCountedOnce` compares two counters with a
number of challenges. `CInv` says that what a pass was told is the verdict or
`pending` (`ToldTheVerdict`), that a challenge on its way to the chain is new
(`PostedIsNew`), and that no counter exceeds the number of rejections the history
knows (`CountedInv`). A counter can only run ahead when the history forgets a
rejection, which is what `overwritten` records. `NoLeakedResolution` is part
of the same invariant. `DuplicatesAreRaced` has no hypothesis on overlap. It needs
`RacedInv`: the challenges of a settlement in the map and the scans that are at it are
together no more than `together`; a scan that looks finds no challenge and counts
itself in, and one that posts leaves as its challenge enters.

**MediatorNode_proofs: the ingester.** `AuthorIsLimited` counts intents and the code
counts stamps: `Stamped` says that after any moment within the hour an author has
at least as many stamps as intents let in, `WithinLimit` that the stamps of the
hour are within the limit. The lemmas `AboveAppended` and `RecentCounts` say what
appending and filtering do to the count. `CacheHoldsTheNewest` needs `FullInv`:
nothing was evicted before the cache was full, so that whatever comes in later pushes
something out that is not newer. `NoReentryWithinHour` needs `RememberedInv`: an
intent that was let in less than an hour ago has an entry in `recentProseHashes` that
is at least as young. `IngesterTyped` is the bound on the cache.

**MediatorNode_proofs: the alignment cycle.** `EmbeddedIsIndexed`, `IdsAreFresh` and
`VectorsMatch`. The vector database holds the same table up to four times: `index`,
`intentMap` and the two files. `OneMoment` says how they agree as long as every
save wrote its two files from one moment, `TwoMoments` what is left of that after one
save that did not; both follow the save and the late load of the index through
their intermediate states. `Fresh` keeps `nextId` above every id in use.

**MediatorConsensus_proofs: rotation.** `ActiveMatchesEpoch`, `CooldownIsServed` and
`NextSlotIsMine`. `JailInv` says that who is in jail was put there when the history
says, and who is not, but was, has served the cooldown. It is needed because
leaving, registering again and a reload from the chain all rebuild the record of a
validator, and only the jail remembers. `SlotInv` says that an epoch's list names
nobody twice; from there the slot announced is a matter of arithmetic modulo the
length of the list.

**MediatorConsensus_proofs: consensus and stake.** `ConsensusIsSupported`: the
record of a verification and every reply on its way say no more than the chain's list
does (`AnswersInv`), entries of which are never taken back, and a cluster, the
smallest set that holds an entry and all that resemble one of its own, hangs together.
The similarity of meanings is any relation; requests, initiations and aggregations
overlap as they like. `ConsensusIsStable` has the hypothesis
`[]CallsApart`, no two aggregations in flight at once (section 3 says what two do):
then a reply holds the answers of the record it is for (`StableInv`), and more
answers make no cluster smaller. `EffectiveStakeIsBacked` needs `Backed`, which
follows one change of the stake through its request: a bond that took effect stands
until its answer is read, a bonded stake is released only after an unbonding whose
answer the node has read, and what a slashing will take from the chain the node
has taken already.

**DisputeManager_proofs.** `OneOutcomePerDispute`, `OutcomeReachesDispute` and
`ReleasedByItsDispute` are proved together: that an outcome reaches its dispute
needs that there is no other outcome of it, and both need `Refer`, that outcomes,
declarations on their way and frozen items refer to disputes that exist, since a
dispute that did not exist could still be created and would wipe what had reached
it. `CompletePackageIsDocumented` needs `Documented`, which says of every package
both what its file holds and, while it shares the dispute's own list of evidence,
that the list has at least that.

**MP05Settlement_proofs.** `HashIsCurrent`, `FinalizedNeverChanges` and
`WrittenEndIsFinal` hold whatever writes are refused. `SInv` relates disk and
memory: where the file says finalized, the memory holds the same record or its
reversal, and a finalized record is immutable and has no stage left to complete. So
`completeStage`, which asks neither the status nor `immutable`, finds no stage.
`LInv` says the same of an end: on disk only if in memory. The lemmas about records
(`HashedIsGood`, `DeclaredIsGood`, ...) say what each operation makes of a
settlement; `Saved`, `Initiated` and `GrantSaved` say what writing it to memory and
perhaps to disk preserves. `AuthorityIsHandedDown` and `ValueRestsOnFinalized` speak of
a disk that refused nothing, and `DInv` and `VInv` say why: then memory and disk are
the same, so that a restart brings back what was checked and not something older.

**EffortCaptureSystem_proofs.** `AnchoredIsOnLedger`, whatever answers are lost and
however many runs post a receipt. `ReceiptsFollowTheRule`: `ProcessSignals` is a
recursive function over the captured signals, and `ProcessedFollow` shows for every
length that what it returns follows the rule of segmentation, which is stated without
recursion. `RuleInv` carries this through the passes that are interrupted by model
calls. `ReceiptsAgree` needs that cutting is stable: signals captured later leave the
segments before the last as they were and at most prolong the last one. `Story`
says so of each segment that a pass still has or a receipt attests (`Tells`: it is the
beginning of a segment into which the signals of the moment are cut), beside the
order of the signals (`Timeline`) and that no pass clears any. It holds until the
retention drops signals; a restart forgets the receipts with the signals.

Two of the proofs are about functions defined by recursion over a sequence
(`ProcessSignals`, `Recent`). Such a function is defined as a `CHOOSE`;
`RecursionExists` proves that there is one to choose, and what it computes is proved by
looking at the least position at which it would be wrong (`LeastNat`, from the
well-foundedness of the natural numbers).

Only model-checked are the three liveness properties (`TrackedIsResolved`,
`AdmitsAgain`, `EverySignalIsAttested`): they rest on fairness and so on
`ENABLED`, which the prover does not handle. `AgreedInTimeIsNotRejected` is the
property the code violates (section 4). The hypotheses `PassesApart` and
`CallsApart` are not proved of the code, which has no lock for them: whether they
hold depends on how fast the chain answers.

## 6. What is not modelled

* `LLMProvider`: calls to an external model, whose answers and failures are choices in
  the modules that call it. Its two call caps are counters with a guard in synchronous
  code; two adjacent windows let twice the hourly cap through within an hour.
* `ChallengeDetector`, configuration, validation, crypto, logging: pure functions of
  their input, or one model call and a threshold. The health server and the
  status pages change no state of the node. Where a schema decides what becomes of a
  record (`EffortReceiptSchema`), its effect is part of the module.
* `submitIntent`, `IntentIngester.removeIntent` and `VectorDatabase.removeIntent`:
  nothing under `src/src` calls them. Since nothing removes an intent from the
  index, its points are never freed.
* `recordSuccessfulClosure`, `recordForfeitedFee` and the other reputation
  counters: nothing calls them, although `ARCHITECTURE.md:320` says so.
* Overlaps for which the code has no rule to hold it to: two cycles index an intent
  twice, a pair is proposed again in every cycle, `(A, B)` and `(B, A)` both are.
  They are listed as hazards.
* `AuthorityManager`: one list and one flag, written from whichever answer arrives last.
  `updateRotationConfig` of the rotation (`ValidatorRotationManager.ts:621`): its
  parameters are constants here, so a change of them in the middle of an epoch is not
  covered.
* In `_deferred`: `EffortValidator` (an assessment, put in the receipt whatever it
  says), the instructions and accounting entries derived from a capitalization
  interface, the text and the hash of a dispute package, consent to a
  clarification (stored, asked by nothing), statistics and exports. Also the
  network coordinator, the multi-chain orchestrator and intent clustering: work
  claims are broadcast and each mediator keeps its own map of them, intents of several
  chains are copied into one map, and the code has no rule that settles two
  claims made at once.
* The mock chain, the demo, the frontend and the benchmarks.

## 7. The plan

Done: the settlement lifecycle, the breaker, challenges, ingestion, the vector database
with the alignment cycle; of `_deferred` the rotation, the semantic consensus and
the stake, disputes, licensing with MP-05, and effort capture. The safety
and action properties of all the passing runs are proved, and so is the
refinement of the lifecycle.

Next, in this order:

1. An abstract specification of a dispute (open, decided, closed) that
   `DisputeManager` implements while the process does not restart, checked and then
   proved with `Refer` and the invariant of the outcomes.
2. An abstract specification of the vector index (a map from ids to intents that only
   grows) that `AlignmentCycle` implements while no save is cut.
3. The types of the modules whose proofs carry only the part they need.
4. Work claims of several mediators, if a rule for two claims at once is added.
