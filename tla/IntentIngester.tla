--------------------------- MODULE IntentIngester ---------------------------
(***************************************************************************)
(* ingestion/IntentIngester.ts: every ten seconds a poll asks the chain    *)
(* for pending intents stamped after lastPollTime and puts what it gets    *)
(* through the filters of processIntent into a bounded cache.  A poll is   *)
(* not awaited by the timer, so polls overlap; the loop over an answer has *)
(* no real await, so loops do not.  An intent's prose is abstracted to the *)
(* classes its filters tell apart, and its hash to its name.               *)
(* submitIntent and removeIntent, which nothing under src/src calls, are   *)
(* left out.  An intent that is not on the chain yet is one the chain does *)
(* not list yet.                                                           *)
(***************************************************************************)
EXTENDS Integers, Sequences, FiniteSets

CONSTANTS
  Posted,        \* intents that may be posted
  Authors,
  AuthorOf,       \* author of each intent
  Invalid,        \* isValidIntent or verifySignature says no
  Flagged,        \* detectPromptInjection says yes
  Unalignable,    \* too many flags, or too vague
  Polls,          \* polls that may be in flight together
  Hour,           \* the one-hour windows, in ticks
  MaxPerAuthor,   \* maxIntentsPerAuthorPerHour
  MaxAttempts,    \* InjectionRateLimiter.maxAttempts
  MaxCache,       \* config.maxIntentsCache
  FetchLimit,     \* limit: 100
  Timestamps,     \* timestamps intents may carry
  MaxClock        \* bound of the clock

ASSUME IngesterAssumption ==
  /\ IsFiniteSet(Posted)
  /\ AuthorOf \in [Posted -> Authors]
  /\ Invalid \subseteq Posted /\ Flagged \subseteq Posted
  /\ Unalignable \subseteq Posted
  /\ {Hour, MaxPerAuthor, MaxAttempts, MaxCache, FetchLimit, MaxClock}
       \subseteq Nat \ {0}
  /\ Timestamps \subseteq Nat \ {0}

VARIABLES
  timestamp,    \* of each intent: the author's, it may lie in the future
  cache,        \* keys of intentCache
  seen,         \* recentProseHashes, 0 where there is no entry
  stamps,       \* authorFrequency
  attempts,     \* attempts of the injection rate limiter
  poll,         \* pollForIntents calls
  lastPoll,     \* lastPollTime
  clock,        \* Date.now()
  cachedAt      \* history: when an intent was last put in the cache

filters == <<seen, stamps, attempts>>
ingesterVars == <<timestamp, cache, seen, stamps, attempts, poll, lastPoll, clock,
          cachedAt>>

Time == 0..MaxClock
IdlePoll == [pc |-> "idle", since |-> 0, todo |-> {}]

IngesterInit ==
  /\ timestamp \in [Posted -> Timestamps]
  /\ cache = {}
  /\ seen = [i \in Posted |-> 0]
  /\ stamps = [a \in Authors |-> <<>>]
  /\ attempts = [a \in Authors |-> <<>>]
  /\ poll = [p \in Polls |-> IdlePoll]
  /\ lastPoll = 0
  /\ clock = 1
  /\ cachedAt = [i \in Posted |-> 0]

-----------------------------------------------------------------------------
(* One poll.                                                               *)

\* No callback runs while the loop over an answer runs.
LoopIsFree == \A p \in Polls : poll[p].pc # "processing"

StartPoll(p) ==
  /\ LoopIsFree
  /\ poll[p].pc = "idle"
  /\ poll' = [poll EXCEPT ![p] = [IdlePoll EXCEPT !.pc = "asked",
                                              !.since = lastPoll]]
  /\ UNCHANGED <<timestamp, cache, filters, lastPoll, clock, cachedAt>>

\* What getPendingIntents may return: the chain lists some of what is
\* on it (mined entries leave /pending), the client keeps what is newer
\* than `since` and cuts the list at the limit.
Answers(since) ==
  {S \in SUBSET {i \in Posted : timestamp[i] > since} :
     Cardinality(S) <= FetchLimit}

PollAnswered(p) ==
  /\ LoopIsFree
  /\ poll[p].pc = "asked"
  /\ \E S \in Answers(poll[p].since) :
       poll' = [poll EXCEPT ![p].pc = "processing", ![p].todo = S]
  /\ UNCHANGED <<timestamp, cache, filters, lastPoll, clock, cachedAt>>

\* Both endpoints failed or timed out: the client answers with no intents.
PollFailed(p) ==
  /\ LoopIsFree
  /\ poll[p].pc = "asked"
  /\ poll' = [poll EXCEPT ![p].pc = "processing"]
  /\ UNCHANGED <<timestamp, cache, filters, lastPoll, clock, cachedAt>>

EndPoll(p) ==
  /\ poll[p].pc = "processing"
  /\ poll[p].todo = {}
  /\ poll' = [poll EXCEPT ![p] = IdlePoll]
  /\ lastPoll' = clock
  /\ UNCHANGED <<timestamp, cache, filters, clock, cachedAt>>

-----------------------------------------------------------------------------
(* processIntent, one action per way it returns.                           *)

\* times.filter: what lies within the hour.
Recent(times) ==
  LET kept[n \in 0..Len(times)] ==
        IF n = 0 THEN <<>>
        ELSE IF times[n] > clock - Hour THEN Append(kept[n - 1], times[n])
        ELSE kept[n - 1]
  IN  kept[Len(times)]

Screened(i) == i \notin cache /\ i \notin Invalid

\* The author's recent attempts with this one.  Only whether there are
\* MaxAttempts of them is ever asked, so the newest that many are kept.
Attempts(i) ==
  LET all == Append(Recent(attempts[AuthorOf[i]]), clock) IN
  IF Len(all) > MaxAttempts THEN Tail(all) ELSE all

Refused(i) == i \in Flagged /\ Len(Attempts(i)) >= MaxAttempts

RecordAttempt(i) ==
  attempts' = IF i \in Flagged
              THEN [attempts EXCEPT ![AuthorOf[i]] = Attempts(i)]
              ELSE attempts

\* Mutant: the limit lets one more through.
OverRateLate(i) == Len(Recent(stamps[AuthorOf[i]])) > MaxPerAuthor

OverRate(i) == Len(Recent(stamps[AuthorOf[i]])) >= MaxPerAuthor

RecordStamp(i) ==
  stamps' = [stamps EXCEPT
               ![AuthorOf[i]] = Append(Recent(stamps[AuthorOf[i]]), clock)]

Duplicate(i) == seen[i] # 0

\* Mutant: entries are forgotten when they are an hour old, not older.
RememberShort(i) ==
  seen' = [j \in Posted |-> IF j = i THEN clock
                             ELSE IF seen[j] <= clock - Hour THEN 0
                             ELSE seen[j]]

\* The duplicate window, without the entries older than an hour.
Remember(i) ==
  seen' = [j \in Posted |-> IF j = i THEN clock
                             ELSE IF seen[j] < clock - Hour THEN 0
                             ELSE seen[j]]

\* Mutant: sorted the other way round.
KeptOldest(S) ==
  {K \in SUBSET S :
     /\ Cardinality(K) = IF Cardinality(S) <= MaxCache THEN Cardinality(S)
                         ELSE MaxCache
     /\ \A k \in K, j \in S \ K : timestamp[k] <= timestamp[j]}

\* enforceMaxCacheSize: what may be left of S.  Equal timestamps are
\* removed in the order of insertion, here in any order.
Kept(S) ==
  {K \in SUBSET S :
     /\ Cardinality(K) = IF Cardinality(S) <= MaxCache THEN Cardinality(S)
                         ELSE MaxCache
     /\ \A k \in K, j \in S \ K : timestamp[k] >= timestamp[j]}

\* Known already, or not valid.
Skip(i) ==
  /\ ~Screened(i)
  /\ UNCHANGED <<cache, filters, cachedAt>>

RefuseInjection(i) ==
  /\ Screened(i) /\ Refused(i)
  /\ RecordAttempt(i)
  /\ UNCHANGED <<cache, seen, stamps, cachedAt>>

RefuseRate(i) ==
  /\ Screened(i) /\ ~Refused(i) /\ OverRate(i)
  /\ RecordAttempt(i)
  /\ UNCHANGED <<cache, seen, stamps, cachedAt>>

\* A duplicate has used up one of the author's stamps all the same.
RefuseDuplicate(i) ==
  /\ Screened(i) /\ ~Refused(i) /\ ~OverRate(i) /\ Duplicate(i)
  /\ RecordAttempt(i)
  /\ RecordStamp(i)
  /\ UNCHANGED <<cache, seen, cachedAt>>

Accepted(i) == Screened(i) /\ ~Refused(i) /\ ~OverRate(i) /\ ~Duplicate(i)

RefuseUnalignable(i) ==
  /\ Accepted(i) /\ i \in Unalignable
  /\ RecordAttempt(i)
  /\ RecordStamp(i)
  /\ Remember(i)
  /\ UNCHANGED <<cache, cachedAt>>

CacheIntent(i) ==
  /\ Accepted(i) /\ i \notin Unalignable
  /\ RecordAttempt(i)
  /\ RecordStamp(i)
  /\ Remember(i)
  /\ cache' \in Kept(cache \union {i})
  /\ cachedAt' = [cachedAt EXCEPT ![i] = clock]

ProcessIntent(p) ==
  /\ poll[p].pc = "processing"
  /\ \E i \in poll[p].todo :
       /\ poll' = [poll EXCEPT ![p].todo = @ \ {i}]
       /\ \/ Skip(i)
          \/ RefuseInjection(i)
          \/ RefuseRate(i)
          \/ RefuseDuplicate(i)
          \/ RefuseUnalignable(i)
          \/ CacheIntent(i)
  /\ UNCHANGED <<timestamp, lastPoll, clock>>

-----------------------------------------------------------------------------
Tick ==
  /\ clock < MaxClock
  /\ clock' = clock + 1
  /\ UNCHANGED <<timestamp, cache, filters, poll, lastPoll, cachedAt>>

Poll(p) ==
  StartPoll(p) \/ PollAnswered(p) \/ PollFailed(p) \/ ProcessIntent(p)
    \/ EndPoll(p)

IngesterNext ==
  \/ \E p \in Polls : Poll(p)
  \/ Tick

IngesterSpec == IngesterInit /\ [][IngesterNext]_ingesterVars

-----------------------------------------------------------------------------
(* Properties.                                                             *)

\* Types, and the limit of ARCHITECTURE.md:80: the cache never holds more
\* than maxIntentsCache intents.
IngesterTypeOK ==
  /\ timestamp \in [Posted -> Timestamps]
  /\ cache \subseteq Posted /\ Cardinality(cache) <= MaxCache
  /\ seen \in [Posted -> Time]
  /\ stamps \in [Authors -> Seq(Time)]
  /\ attempts \in [Authors -> Seq(Time)]
  /\ poll \in [Polls -> [pc : {"idle", "asked", "processing"}, since : Time,
                         todo : SUBSET Posted]]
  /\ lastPoll \in Time /\ clock \in Time
  /\ cachedAt \in [Posted -> Time]

\* In no window of an hour are more than MaxPerAuthor intents of one author
\* let into the cache, whatever the polls in flight fetched: stamps are
\* filtered, compared and written in one step of processIntent.
AuthorIsLimited ==
  \A a \in Authors :
    Cardinality({i \in Posted : /\ AuthorOf[i] = a
                                 /\ cachedAt[i] > 0
                                 /\ cachedAt[i] > clock - Hour})
      <= MaxPerAuthor

\* Eviction never loses the newer for the older: an intent that was cached
\* and is no longer is not newer than any that is in the cache now, however
\* many evictions lie between (enforceMaxCacheSize).
CacheHoldsTheNewest ==
  \A i \in Posted : cachedAt[i] > 0 /\ i \notin cache =>
    \A j \in cache : timestamp[j] >= timestamp[i]

\* An evicted intent that is fetched again (an overlapping poll, or a
\* timestamp in the future) does not come back within an hour: the window
\* of recentProseHashes outlives the cache entry.
NoReentryWithinHour ==
  [][\A i \in Posted : cachedAt'[i] # cachedAt[i] =>
       cachedAt[i] = 0 \/ clock - cachedAt[i] > Hour]_ingesterVars

=============================================================================
