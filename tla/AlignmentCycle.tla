--------------------------- MODULE AlignmentCycle ---------------------------
(***************************************************************************)
(* The alignment cycle of MediatorNode.ts over the vector database: every  *)
(* 30 s a cycle embeds the cached intents that have no embedding yet,      *)
(* searches the index for pairs, asks the chain for more, and negotiates   *)
(* the best.  The timer does not wait for the cycle before it, and stop    *)
(* does not wait for the cycles in flight.                                 *)
(*                                                                         *)
(* A step of a cycle is what runs between two awaits.  What becomes of a   *)
(* negotiated pair is SettlementManager.tla's Create.                      *)
(***************************************************************************)
EXTENDS VectorDatabase, Sequences, SequencesExt

CONSTANTS
  OfferedFee,      \* of each intent
  Cycles,          \* cycles that may be in flight together
  Top,             \* how many candidates are negotiated
  MaxSplit         \* bound of `split`

ASSUME FeeAssumption ==
  /\ OfferedFee \in [Intents -> Nat]
  /\ Top \in Nat /\ MaxSplit \in Nat

VARIABLES
  cached,        \* the ingester's cache
  embedded,      \* keys of embeddingCache
  cycle,         \* executeAlignmentCycle calls
  refused,       \* history: embedded intents the index did not take
  split          \* history: how often a save did not write its two files
                 \* from one moment: it was cut off, or a point came between

vars == <<dbVars, cached, embedded, cycle, refused, split>>

\* A candidate pair; `id` is the id its second intent was found under, or
\* None for a pair of the chain.
Candidate == [a : Intents, b : Intents, id : Ids \union {None}]
Idle == [pc |-> "idle", list |-> <<>>, todo |-> <<>>, found |-> {}]

TypeOK ==
  /\ DbTypeOK
  /\ cached \subseteq Intents
  /\ embedded \subseteq Intents
  /\ cycle \in [Cycles -> [pc : {"idle", "loop", "embed", "match", "negotiate"},
                           list : Seq(Intents), todo : Seq(Intents),
                           found : SUBSET Candidate]]
  /\ refused \subseteq Intents
  /\ split \in 0..MaxSplit

Init ==
  /\ DbInit
  /\ cached = {}
  /\ embedded = {}
  /\ cycle = [c \in Cycles |-> Idle]
  /\ refused = {}
  /\ split = 0

\* A cycle in "loop" holds the thread, and so does a save that writes the
\* map; the node runs callbacks while it is up or stopping.
ThreadFree == mode \in {"up", "saved"} /\ \A c \in Cycles : cycle[c].pc # "loop"

-----------------------------------------------------------------------------
(* One cycle                                                               *)

\* getPrioritizedIntents: by fee, descending; the order among equal fees is
\* that of the cache, here any.
Prioritized ==
  {list \in SetToSeqs(cached) :
     \A m, n \in DOMAIN list :
       m < n => OfferedFee[list[m]] >= OfferedFee[list[n]]}

\* The timer, or the first cycle of start.  The chain is available and there
\* is an intent; otherwise the cycle ends at once.
StartCycle(c) ==
  /\ ThreadFree /\ mode = "up"
  /\ cycle[c].pc = "idle"
  /\ cached # {}
  /\ \E list \in Prioritized :
       cycle' = [cycle EXCEPT ![c] = [Idle EXCEPT !.pc = "loop", !.list = list,
                                                  !.todo = list]]
  /\ UNCHANGED <<dbVars, cached, embedded, refused, split>>

\* The next intent of the loop: one that has an embedding is passed over, an
\* embedding is requested for another.
NextIntent(c) ==
  /\ cycle[c].pc = "loop" /\ cycle[c].todo # <<>>
  /\ cycle' = IF Head(cycle[c].todo) \in embedded
              THEN [cycle EXCEPT ![c].todo = Tail(@)]
              ELSE [cycle EXCEPT ![c].pc = "embed"]
  /\ UNCHANGED <<dbVars, cached, embedded, refused, split>>

\* The embedding cache is not looked at again: another cycle may have
\* embedded the intent meanwhile, and it is added a second time.
EmbeddingArrives(c) ==
  LET i == Head(cycle[c].todo) IN
  /\ ThreadFree
  /\ cycle[c].pc = "embed"
  /\ embedded' = embedded \union {i}
  /\ AddIntent(i)
  /\ refused' = IF AddsPoint(nextId) THEN refused \ {i} ELSE refused \union {i}
  /\ IF writing /\ AddsPoint(nextId)
     THEN split < MaxSplit /\ split' = split + 1
     ELSE UNCHANGED split
  /\ cycle' = [cycle EXCEPT ![c].pc = "loop", ![c].todo = Tail(@)]
  /\ UNCHANGED cached

\* Mutant: the intent is marked before the request is sent.
EmbeddingFailsMarked(c) ==
  /\ ThreadFree
  /\ cycle[c].pc = "embed"
  /\ embedded' = embedded \union {Head(cycle[c].todo)}
  /\ cycle' = [cycle EXCEPT ![c].pc = "loop", ![c].todo = Tail(@)]
  /\ UNCHANGED <<dbVars, cached, refused, split>>

\* No embedding: the intent is passed over until the next cycle.
EmbeddingFails(c) ==
  /\ ThreadFree
  /\ cycle[c].pc = "embed"
  /\ cycle' = [cycle EXCEPT ![c].pc = "loop", ![c].todo = Tail(@)]
  /\ UNCHANGED <<dbVars, cached, embedded, refused, split>>

\* The pairs of an embedded intent of the list and one a search finds near it.
Near(c) ==
  LET pairs == {[a |-> i, b |-> intentMap[id], id |-> id] :
                  i \in embedded \intersect {cycle[c].list[n] :
                                               n \in DOMAIN cycle[c].list},
                  id \in Ids}
  IN  {k \in pairs : k.id \in Similar(k.a)}

\* findTopAlignmentCandidates: some of them.
Search(c) ==
  /\ cycle[c].pc = "loop" /\ cycle[c].todo = <<>>
  /\ \E S \in SUBSET Near(c) :
       /\ Cardinality(S) <= Top
       /\ cycle' = [cycle EXCEPT ![c] = [Idle EXCEPT !.pc = "match",
                                                     !.found = S]]
  /\ UNCHANGED <<dbVars, cached, embedded, refused, split>>

\* A pair in either order.
SamePair(k, l) == {k.a, k.b} = {l.a, l.b}

\* The chain's own matches come after the local ones; the best Top are
\* negotiated.  A request that fails brings none.
MatchesArrive(c) ==
  LET matches == {k \in [a : Intents, b : Intents, id : {None}] :
                    /\ k.a # k.b
                    /\ \A l \in cycle[c].found : ~SamePair(k, l)}
  IN
  /\ ThreadFree
  /\ cycle[c].pc = "match"
  /\ \E M \in SUBSET matches :
       /\ Cardinality(M \union cycle[c].found) <= Top
       /\ \A k, l \in M : SamePair(k, l) => k = l
       /\ cycle' = [cycle EXCEPT ![c].pc = "negotiate", ![c].found = @ \union M]
  /\ UNCHANGED <<dbVars, cached, embedded, refused, split>>

\* processAlignmentCandidate: the model answers and the settlement is
\* submitted, or not; a failure of either is caught.
Negotiate(c) ==
  /\ ThreadFree
  /\ cycle[c].pc = "negotiate"
  /\ \E k \in cycle[c].found : cycle' = [cycle EXCEPT ![c].found = @ \ {k}]
  /\ UNCHANGED <<dbVars, cached, embedded, refused, split>>

\* cleanupEmbeddingCache goes by the cache of now, not of the cycle's start.
EndCycle(c) ==
  /\ ThreadFree
  /\ cycle[c].pc = "negotiate" /\ cycle[c].found = {}
  /\ embedded' = embedded \intersect cached
  /\ refused' = refused \intersect cached
  /\ cycle' = [cycle EXCEPT ![c] = Idle]
  /\ UNCHANGED <<dbVars, cached, split>>

-----------------------------------------------------------------------------
(* The ingester, and the life of the process                               *)

\* An intent is cached or evicted.
CacheChanges(i) ==
  /\ ThreadFree
  /\ cached' = IF i \in cached THEN cached \ {i} ELSE cached \union {i}
  /\ UNCHANGED <<dbVars, embedded, cycle, refused, split>>

\* Nothing of the node but the two files outlives the process.
NodeGone ==
  /\ cached' = {}
  /\ embedded' = {}
  /\ cycle' = [c \in Cycles |-> Idle]
  /\ refused' = {}

Start == Initialize /\ NodeGone /\ UNCHANGED split

Loaded == ThreadFree /\ IndexLoaded
            /\ UNCHANGED <<cached, embedded, cycle, refused, split>>

LoadRejected == ThreadFree /\ IndexUnreadable /\ NodeGone
                  /\ UNCHANGED split

\* stop: no further cycle starts; those in flight go on.
Stop == ThreadFree /\ BeginSave
          /\ UNCHANGED <<cached, embedded, cycle, refused, split>>

Save == (WriteMap \/ WriteIndex)
          /\ UNCHANGED <<cached, embedded, cycle, refused, split>>

Exit == End /\ NodeGone /\ UNCHANGED split

Killed ==
  /\ split < MaxSplit
  /\ EndInSave
  /\ NodeGone
  /\ split' = split + 1

CycleNext(c) ==
  \/ StartCycle(c) \/ NextIntent(c) \/ EmbeddingArrives(c) \/ EmbeddingFails(c)
  \/ Search(c) \/ MatchesArrive(c) \/ Negotiate(c) \/ EndCycle(c)

Next ==
  \/ \E c \in Cycles : CycleNext(c)
  \/ \E i \in Intents : CacheChanges(i)
  \/ Start \/ Loaded \/ LoadRejected \/ Stop \/ Save \/ Exit \/ Killed

Spec == Init /\ [][Next]_vars

-----------------------------------------------------------------------------
(* Properties                                                              *)

\* The vector under an id is that of the intent the map has under it, so a
\* search never offers one intent for another's likeness - as long as no more
\* than one save left files of two moments.  Index and map are two files and either may be
\* the older one (VectorDatabase.ts:33-46, 217-221).
VectorsMatch ==
  split <= 1 =>
    \A id \in Ids : index[id] # None /\ intentMap[id] # None =>
      index[id] = intentMap[id]

\* An intent in the embedding cache can be found: some id leads from its own
\* vector to it, unless addPoint refused it.  Overlapping cycles, an eviction
\* or an index that is loaded late never take that away (MediatorNode.ts:212-218).
EmbeddedIsIndexed ==
  \A i \in embedded \ refused :
    \E id \in Ids : index[id] = i /\ intentMap[id] = i

\* While the process lives, an id in the map is never given to another intent,
\* whatever was read from the files (VectorDatabase.ts:46, 85-88).
IdsAreFresh ==
  [][\A id \in Ids : intentMap[id] # None =>
       \/ intentMap'[id] = intentMap[id]
       \/ mode' \in {"down", "up"} /\ mode' # mode]_vars

=============================================================================
