------------------------- MODULE MediatorNode_proofs -------------------------
(***************************************************************************)
(* The node's intake and its alignment cycle, for any intents, limits,     *)
(* polls and cycles in flight.                                             *)
(* Alignment: an id is never given to a second intent, an embedded intent  *)
(* can be found, and no vector stands under an intent that is not its own, *)
(* through starts that load the index late, stops and kills.               *)
(* Ingester: the author's limit holds in every window of an hour, eviction *)
(* never loses the newer for the older, and what was evicted stays out for *)
(* an hour.                                                                *)
(***************************************************************************)
EXTENDS AlignmentCycle, IntentIngester, FiniteSetTheorems, WellFoundedInduction, TLAPS

\* The types the proofs rest on.
Types ==
  /\ mode \in {"down", "up", "saving", "saved", "failed"}
  /\ loading \in BOOLEAN /\ writing \in BOOLEAN
  /\ index \in Table /\ intentMap \in Table
  /\ nextId \in Nat /\ split \in Nat
  /\ indexFile \in Table \union {Absent, Torn}
  /\ mapFile \in Table \union {Absent, Torn}

\* What is left of a cycle's list are intents, and one is left while an
\* embedding is awaited.
IsCycle(r) ==
  /\ DOMAIN r = {"pc", "list", "todo", "found"}
  /\ r.todo \in Seq(Intents)
  /\ r.pc = "embed" => r.todo # <<>>

Lists ==
  /\ cycle = [c \in Cycles |-> cycle[c]]
  /\ \A c \in Cycles : IsCycle(cycle[c])
  /\ cached \subseteq Intents /\ IsFiniteSet(cached)

\* The ids in the map were given out.
Fresh == \A id \in Ids : intentMap[id] # None => id < nextId

\* What has an embedding is an intent.
EmbeddedIntents == embedded \subseteq Intents

\* Before the index is loaded nothing was added to it.
LoadedLate == loading => embedded \subseteq refused /\ ~writing

\* writeIndex runs in a process that is saving or has saved.
WritesInSave == writing => mode \in {"saving", "saved"}

Running == mode \in {"up", "saving", "saved"}

\* Two tables agree wherever both have an intent; one has all the other has.
Match(t, u) ==
  t \in Table /\ u \in Table =>
    \A id \in Ids : t[id] # None /\ u[id] # None => t[id] = u[id]
Extends(t, u) ==
  t \in Table /\ u \in Table => \A id \in Ids : u[id] # None => t[id] = u[id]

\* A save wrote one of its files and not yet the other.
IndexAhead == mode = "saving" /\ ~writing /\ ~loading
MapAhead == mode = "saved" /\ writing

\* While every save wrote its two files from one moment, they hold the same, and
\* the memory holds that and what was added since.
OneMoment ==
  split = 0 =>
    /\ indexFile # Torn /\ mapFile # Torn
    /\ Running => /\ ~loading => index = intentMap
                  /\ loading => intentMap = indexFile
                  /\ Extends(intentMap, indexFile) /\ Extends(intentMap, mapFile)
    /\ IndexAhead => indexFile = intentMap
    /\ MapAhead => mapFile = intentMap
    /\ ~IndexAhead /\ ~MapAhead => indexFile = mapFile

\* After one save that did not, whatever is read or written next agrees still.
TwoMoments ==
  split <= 1 =>
    /\ Match(index, intentMap)
    /\ loading => Match(indexFile, intentMap)
    /\ IndexAhead => indexFile = index
    /\ MapAhead => Match(index, mapFile)
    /\ ~IndexAhead /\ ~MapAhead => Match(indexFile, mapFile)

IInv ==
  /\ Types /\ Lists /\ EmbeddedIntents /\ Fresh /\ LoadedLate /\ WritesInSave
  /\ OneMoment /\ TwoMoments /\ EmbeddedIsIndexed

-----------------------------------------------------------------------------
(* The ids                                                                 *)

\* The largest of some numbers up to n is the largest of them.
LEMMA MaxBounds ==
  ASSUME NEW n \in Nat, NEW S \in SUBSET (0..n), S # {}
  PROVE  Max(S) \in S /\ \A x \in S : x <= Max(S)
<1> DEFINE T == {m \in Nat : \A x \in S : x <= m}
<1>1. n \in T
  OBVIOUS
<1>2. \E m \in T : \A k \in T : ~(<<k, m>> \in OpToRel(<, Nat))
  BY <1>1, WFMin, NatLessThanWellFounded
<1>3. PICK m \in T : \A k \in T : ~(k < m)
  BY <1>2 DEF OpToRel
<1>4. m \in S
  <2>1. SUFFICES ASSUME m \notin S PROVE FALSE
    OBVIOUS
  <2>2. \A x \in S : x <= m - 1
    BY <1>3, <2>1
  <2>3. PICK y \in S : TRUE
    OBVIOUS
  <2>4. m - 1 \in T
    BY <1>3, <2>2, <2>3
  <2> QED
    BY <1>3, <2>4
<1> QED
  BY <1>3, <1>4 DEF Max

\* The first id after a map is above every id of the map.
LEMMA NextIdIsFree ==
  ASSUME NEW t \in Table
  PROVE  /\ NextId(t) \in Nat
         /\ \A id \in Ids : t[id] # None => id < NextId(t)
<1> DEFINE K == Keys(t) \union {0}
<1>1. K \in SUBSET (0..MaxId) /\ K # {} /\ MaxId \in Nat
  BY CapacityAssumption DEF Keys, Ids
<1>2. \A id \in Ids : t[id] # None => id \in K
  BY DEF Keys
<1>3. NextId(t) = Max(K) + 1
  BY DEF NextId
<1> HIDE DEF K
<1>4. Max(K) \in K /\ \A x \in K : x <= Max(K)
  BY <1>1, MaxBounds
<1>5. PICK max : max = Max(K)
  OBVIOUS
<1>6. K \subseteq Nat
  BY <1>1
<1>7. max \in Nat /\ \A x \in K : x <= max
  BY <1>4, <1>5, <1>6
<1>8. NextId(t) = max + 1
  BY <1>3, <1>5
<1>9. ASSUME NEW id \in Ids, t[id] # None PROVE id < NextId(t)
  <2>1. id \in K
    BY <1>2, <1>9
  <2>2. id \in Nat /\ id <= max
    BY <1>6, <1>7, <2>1
  <2> QED
    BY <1>7, <1>8, <2>2
<1>10. NextId(t) \in Nat
  BY <1>7, <1>8
<1> QED
  BY <1>9, <1>10

-----------------------------------------------------------------------------
(* The steps                                                               *)

LEMMA InitIInv == Init => IInv
<1> SUFFICES ASSUME Init PROVE IInv
  OBVIOUS
<1> USE DEF Init, DbInit
<1>1. Empty \in Table /\ \A id \in Ids : Empty[id] = None
  BY DEF Empty, Table
<1>2. Types
  BY <1>1 DEF Types
<1>3. Lists
  <2>1. <<>> \in Seq(Intents)
    OBVIOUS
  <2> QED
    BY <2>1, FS_EmptySet DEF Lists, Idle, IsCycle
<1>4. Fresh /\ LoadedLate /\ WritesInSave /\ EmbeddedIsIndexed /\ EmbeddedIntents
  BY <1>1 DEF EmbeddedIntents, Fresh, LoadedLate, WritesInSave, EmbeddedIsIndexed
<1>5. OneMoment /\ TwoMoments
  BY <1>1, FilesAssumption DEF OneMoment, TwoMoments, Running, IndexAhead, MapAhead, Match
<1> QED
  BY <1>2, <1>3, <1>4, <1>5 DEF IInv

\* A step of a cycle or of the ingester that does not touch the database.
LEMMA DatabaseUntouched ==
  ASSUME IInv, UNCHANGED <<dbVars, split>>, Lists',
         embedded' \subseteq embedded,
         embedded' \ refused' \subseteq embedded \ refused,
         loading => embedded' \subseteq refused'
  PROVE  IInv'
<1>1. UNCHANGED <<mode, loading, index, intentMap, nextId, writing, indexFile, mapFile, split>>
  BY DEF dbVars, memory, files
<1>2. Types' /\ Fresh' /\ WritesInSave'
  BY <1>1 DEF IInv, Types, Fresh, WritesInSave
<1>3. OneMoment' /\ TwoMoments'
  BY <1>1 DEF IInv, OneMoment, TwoMoments, Running, IndexAhead, MapAhead, Match, Extends
<1>4. LoadedLate' /\ EmbeddedIsIndexed' /\ EmbeddedIntents'
  BY <1>1 DEF IInv, EmbeddedIntents, LoadedLate, EmbeddedIsIndexed
<1> QED
  BY <1>2, <1>3, <1>4 DEF IInv

\* A cycle's record is replaced by another.
LEMMA CycleReplaced ==
  ASSUME Lists, NEW c \in Cycles, NEW r, IsCycle(r),
         cycle' = [cycle EXCEPT ![c] = r], UNCHANGED cached
  PROVE  Lists'
<1>1. cycle' = [d \in Cycles |-> IF d = c THEN r ELSE cycle[d]]
  BY DEF Lists
<1> QED
  BY <1>1 DEF Lists

\* The list of a cycle holds intents.
LEMMA PrioritizedIntents ==
  ASSUME Lists, NEW list \in Prioritized
  PROVE  list \in Seq(Intents)
<1>1. list \in [1..Cardinality(cached) -> cached]
  BY DEF Prioritized, SetToSeqs
<1>2. Cardinality(cached) \in Nat /\ cached \subseteq Intents
  BY FS_CardinalityType DEF Lists
<1> QED
  BY <1>1, <1>2

\* The steps that take the next intent, with an answer or without one.
LEMMA IntentDone ==
  ASSUME Lists, NEW c \in Cycles, cycle[c].pc = "embed", UNCHANGED cached,
         cycle' = [cycle EXCEPT ![c].pc = "loop", ![c].todo = Tail(@)]
  PROVE  Lists' /\ Head(cycle[c].todo) \in Intents
<1>1. IsCycle(cycle[c]) /\ cycle[c].todo # <<>>
  BY DEF Lists, IsCycle
<1> DEFINE s == cycle[c].todo
<1>6. s \in Seq(Intents) /\ s # <<>>
  BY <1>1 DEF IsCycle
<1> HIDE DEF s
<1>7. Tail(s) \in Seq(Intents) /\ Head(s) \in Intents
  BY <1>6
<1>2. PICK t \in Seq(Intents) : t = Tail(cycle[c].todo)
  BY <1>7 DEF s
<1> DEFINE r == [cycle[c] EXCEPT !.pc = "loop", !.todo = t]
<1>3. cycle' = [cycle EXCEPT ![c] = r]
  BY <1>1, <1>2 DEF Lists, IsCycle
<1>4. IsCycle(r)
  BY <1>1 DEF IsCycle
<1>5. Head(cycle[c].todo) \in Intents
  BY <1>7 DEF s
<1> HIDE DEF r
<1> QED
  BY <1>3, <1>4, <1>5, CycleReplaced

\* Of the steps of a cycle only the arrival of an embedding touches the database.
LEMMA CycleKeeps ==
  ASSUME IInv, NEW c \in Cycles,
         \/ StartCycle(c) \/ NextIntent(c) \/ EmbeddingFails(c)
         \/ Search(c) \/ MatchesArrive(c) \/ Negotiate(c) \/ EndCycle(c)
  PROVE  IInv'
<1>1. /\ UNCHANGED <<dbVars, split, cached>>
      /\ \/ UNCHANGED <<embedded, refused>>
         \/ embedded' = embedded \intersect cached /\ refused' = refused \intersect cached
  <2>1. CASE StartCycle(c) \/ NextIntent(c) \/ EmbeddingFails(c)
    BY <2>1 DEF StartCycle, NextIntent, EmbeddingFails
  <2>2. CASE Search(c)
    BY <2>2 DEF Search
  <2>3. CASE MatchesArrive(c) \/ Negotiate(c)
    BY <2>3 DEF MatchesArrive, Negotiate
  <2>4. CASE EndCycle(c)
    BY <2>4 DEF EndCycle
  <2> QED
    BY <2>1, <2>2, <2>3, <2>4
<1>2. /\ embedded' \subseteq embedded
      /\ embedded' \ refused' \subseteq embedded \ refused
      /\ loading => embedded' \subseteq refused'
  BY <1>1 DEF IInv, LoadedLate
<1>3. Lists /\ UNCHANGED cached
  BY <1>1 DEF IInv
<1> SUFFICES Lists'
  BY <1>1, <1>2, DatabaseUntouched
<1>4. IsCycle(cycle[c])
  BY <1>3 DEF Lists
<1>5. ASSUME NEW pc, pc # "embed", NEW found,
             cycle' = [cycle EXCEPT ![c] = [Idle EXCEPT !.pc = pc, !.found = found]]
      PROVE  Lists'
  <2> DEFINE r == [Idle EXCEPT !.pc = pc, !.found = found]
  <2>3. IsCycle(r)
    BY <1>5 DEF IsCycle, Idle
  <2> HIDE DEF r
  <2>4. cycle' = [cycle EXCEPT ![c] = r]
    BY <1>5 DEF r
  <2> QED
    BY <1>3, <2>3, <2>4, CycleReplaced
<1>6. ASSUME NEW pc, cycle[c].pc # "embed", pc # "embed", NEW found,
             \/ cycle' = [cycle EXCEPT ![c].pc = pc, ![c].found = found]
             \/ cycle' = [cycle EXCEPT ![c].found = found]
      PROVE  Lists'
  <2>1. PICK p \in {pc, cycle[c].pc} :
            cycle' = [cycle EXCEPT ![c] = [cycle[c] EXCEPT !.pc = p, !.found = found]]
    BY <1>3, <1>4, <1>6 DEF IsCycle, Lists
  <2> DEFINE r == [cycle[c] EXCEPT !.pc = p, !.found = found]
  <2>2. IsCycle(r)
    BY <1>4, <1>6, <2>1 DEF IsCycle
  <2> HIDE DEF r
  <2>3. cycle' = [cycle EXCEPT ![c] = r]
    BY <2>1 DEF r
  <2> QED
    BY <1>3, <2>2, <2>3, CycleReplaced
<1>7. CASE StartCycle(c)
  <2>1. PICK list \in Prioritized :
            cycle' = [cycle EXCEPT ![c] = [Idle EXCEPT !.pc = "loop", !.list = list,
                                                       !.todo = list]]
    BY <1>7 DEF StartCycle
  <2>2. list \in Seq(Intents)
    BY <1>3, PrioritizedIntents
  <2> DEFINE r == [Idle EXCEPT !.pc = "loop", !.list = list, !.todo = list]
  <2>4. IsCycle(r)
    BY <2>2 DEF IsCycle, Idle
  <2> HIDE DEF r
  <2>5. cycle' = [cycle EXCEPT ![c] = r]
    BY <2>1 DEF r
  <2> QED
    BY <1>3, <2>4, <2>5, CycleReplaced
<1>8. CASE NextIntent(c)
  <2>1. /\ cycle[c].todo # <<>>
        /\ \/ cycle' = [cycle EXCEPT ![c].todo = Tail(@)]
           \/ cycle' = [cycle EXCEPT ![c].pc = "embed"]
        /\ cycle[c].pc = "loop"
    BY <1>8 DEF NextIntent
  <2>2. Tail(cycle[c].todo) \in Seq(Intents)
    BY <1>4, <2>1 DEF IsCycle
  <2>3. PICK r : /\ cycle' = [cycle EXCEPT ![c] = r]
                 /\ \/ r = [cycle[c] EXCEPT !.todo = Tail(cycle[c].todo)]
                    \/ r = [cycle[c] EXCEPT !.pc = "embed"]
    BY <1>3, <2>1 DEF Lists
  <2>5. IsCycle(r)
    BY <1>4, <2>1, <2>2, <2>3 DEF IsCycle
  <2> QED
    BY <1>3, <2>3, <2>5, CycleReplaced
<1>9. CASE EmbeddingFails(c)
  BY <1>3, <1>9, IntentDone DEF EmbeddingFails
<1>10. CASE Search(c)
  <2>1. PICK S : cycle' = [cycle EXCEPT ![c] = [Idle EXCEPT !.pc = "match", !.found = S]]
    BY <1>10 DEF Search
  <2> QED
    BY <1>5, <2>1
<1>11. CASE MatchesArrive(c)
  <2>1. cycle[c].pc = "match"
    BY <1>11 DEF MatchesArrive
  <2>2. PICK M : cycle' = [cycle EXCEPT ![c].pc = "negotiate", ![c].found = @ \union M]
    BY <1>11 DEF MatchesArrive
  <2> QED
    BY <1>6, <2>1, <2>2
<1>12. CASE Negotiate(c)
  <2>1. cycle[c].pc = "negotiate"
    BY <1>12 DEF Negotiate
  <2>2. PICK k : cycle' = [cycle EXCEPT ![c].found = @ \ {k}]
    BY <1>12 DEF Negotiate
  <2> QED
    BY <1>6, <2>1, <2>2
<1>13. CASE EndCycle(c)
  <2>1. cycle' = [cycle EXCEPT ![c] = [Idle EXCEPT !.pc = "idle", !.found = {}]]
    BY <1>13 DEF EndCycle, Idle
  <2> QED
    BY <1>5, <2>1
<1> QED
  BY <1>7, <1>8, <1>9, <1>10, <1>11, <1>12, <1>13

\* An intent comes into the ingester's cache or leaves it.
LEMMA CacheKeeps ==
  ASSUME IInv, NEW i \in Intents, CacheChanges(i)
  PROVE  IInv'
<1>1. /\ cached' \in {cached \ {i}, cached \union {i}}
      /\ UNCHANGED <<dbVars, embedded, cycle, refused, split>>
  BY DEF CacheChanges
<1>2. IsFiniteSet(cached \ {i}) /\ IsFiniteSet(cached \union {i})
  BY FS_Subset, FS_AddElement DEF IInv, Lists
<1>3. Lists'
  BY <1>1, <1>2 DEF IInv, Lists
<1> QED
  BY <1>1, <1>3, DatabaseUntouched DEF IInv, LoadedLate

\* What is left of the node when its process ends.
LEMMA GoneKeeps ==
  ASSUME NodeGone
  PROVE  /\ Lists' /\ EmbeddedIntents' /\ EmbeddedIsIndexed'
         /\ embedded' = {}
<1>1. Lists'
  <2>1. cycle' = [c \in Cycles |-> Idle] /\ cached' = {}
    BY DEF NodeGone
  <2>2. IsCycle(Idle)
    BY DEF IsCycle, Idle
  <2> HIDE DEF Idle
  <2> QED
    BY <2>1, <2>2, FS_EmptySet DEF Lists
<1> QED
  BY <1>1 DEF NodeGone, EmbeddedIsIndexed, EmbeddedIntents

\* The answer of the model: the intent goes into the index and the map under the
\* same new id, or into neither.
LEMMA EmbeddingKeeps ==
  ASSUME IInv, NEW c \in Cycles, EmbeddingArrives(c)
  PROVE  IInv'
<1> DEFINE i == Head(cycle[c].todo)
<1>1. Lists' /\ i \in Intents
  BY IntentDone DEF IInv, EmbeddingArrives
<1>2. /\ embedded' = embedded \union {i}
      /\ nextId \in Ids /\ nextId' = nextId + 1
      /\ UNCHANGED <<mode, loading, writing, indexFile, mapFile>>
      /\ mode \in {"up", "saved"}
  BY DEF EmbeddingArrives, AddIntent, files, ThreadFree
<1>3. \/ /\ AddsPoint(nextId)
         /\ index' = [index EXCEPT ![nextId] = i]
         /\ intentMap' = [intentMap EXCEPT ![nextId] = i]
         /\ refused' = refused \ {i}
         /\ IF writing THEN split' = split + 1 ELSE UNCHANGED split
      \/ /\ UNCHANGED <<index, intentMap, split>>
         /\ refused' = refused \union {i}
  BY DEF EmbeddingArrives, AddIntent
<1> HIDE DEF i
<1>4. i # None
  BY <1>1, NoneAssumption
<1>5. /\ Types /\ Fresh /\ LoadedLate /\ WritesInSave
      /\ OneMoment /\ TwoMoments /\ EmbeddedIsIndexed /\ EmbeddedIntents
  BY DEF IInv
<1>8. EmbeddedIntents'
  BY <1>1, <1>2, <1>5 DEF EmbeddedIntents
<1>6. CASE UNCHANGED <<index, intentMap, split>> /\ refused' = refused \union {i}
  <2>1. Types' /\ WritesInSave'
    BY <1>2, <1>5, <1>6 DEF Types, WritesInSave
  <2>2. Fresh'
    BY <1>2, <1>5, <1>6 DEF Types, Fresh, Ids
  <2>3. LoadedLate' /\ EmbeddedIsIndexed'
    BY <1>2, <1>5, <1>6 DEF LoadedLate, EmbeddedIsIndexed
  <2>4. OneMoment' /\ TwoMoments'
    BY <1>2, <1>5, <1>6 DEF OneMoment, TwoMoments, Running, IndexAhead, MapAhead, Match, Extends
  <2> QED
    BY <1>1, <1>8, <2>1, <2>2, <2>3, <2>4 DEF IInv
<1>7. CASE /\ AddsPoint(nextId)
           /\ index' = [index EXCEPT ![nextId] = i]
           /\ intentMap' = [intentMap EXCEPT ![nextId] = i]
           /\ refused' = refused \ {i}
           /\ IF writing THEN split' = split + 1 ELSE UNCHANGED split
  <2>1. ~loading
    BY <1>7 DEF AddsPoint
  <2>2. Types' /\ WritesInSave'
    BY <1>1, <1>2, <1>5, <1>7 DEF Types, WritesInSave, Table
  <2>3. intentMap[nextId] = None
    BY <1>2, <1>5 DEF Types, Fresh
  <2>4. /\ index'[nextId] = i /\ intentMap'[nextId] = i
        /\ \A id \in Ids \ {nextId} : index'[id] = index[id] /\ intentMap'[id] = intentMap[id]
    BY <1>2, <1>5, <1>7 DEF Types, Table
  <2>5. Fresh'
    <3>1. SUFFICES ASSUME NEW id \in Ids, intentMap'[id] # None PROVE id < nextId'
      BY DEF Fresh
    <3>2. id \in Nat /\ nextId \in Nat /\ nextId' = nextId + 1
      BY <1>2, <1>5, <3>1 DEF Types, Ids
    <3> QED
      BY <1>5, <2>4, <3>1, <3>2 DEF Fresh
  <2>6. LoadedLate'
    BY <1>2, <2>1 DEF LoadedLate
  <2>7. EmbeddedIsIndexed'
    <3>1. SUFFICES ASSUME NEW j \in embedded' \ refused'
                   PROVE  \E id \in Ids : index'[id] = j /\ intentMap'[id] = j
      BY DEF EmbeddedIsIndexed
    <3>2. CASE j = i
      BY <1>2, <2>4, <3>2
    <3>3. CASE j # i
      <4>1. j \in embedded \ refused
        BY <1>2, <1>7, <3>1, <3>3
      <4>2. PICK id \in Ids : index[id] = j /\ intentMap[id] = j
        BY <1>5, <4>1 DEF EmbeddedIsIndexed
      <4>3. id # nextId
        BY <1>5, <2>3, <4>1, <4>2, NoneAssumption DEF EmbeddedIntents
      <4> QED
        BY <2>4, <4>2, <4>3
    <3> QED
      BY <3>2, <3>3
  <2>8. OneMoment'
    <3>1. CASE writing
      BY <1>5, <1>7, <3>1 DEF OneMoment, Types
    <3>2. CASE ~writing
      <4>1. SUFFICES ASSUME split = 0 PROVE OneMoment'
        BY <1>7, <3>2 DEF OneMoment
      <4>2. /\ index = intentMap /\ indexFile = mapFile
            /\ indexFile # Torn /\ mapFile # Torn
            /\ Extends(intentMap, indexFile)
        BY <1>2, <1>5, <2>1, <3>2, <4>1 DEF OneMoment, Running, IndexAhead, MapAhead
      <4>3. Extends(intentMap', indexFile)
        BY <1>2, <1>5, <2>3, <2>4, <4>2 DEF Extends, Types
      <4>4. index' = intentMap'
        BY <1>7, <4>2
      <4> QED
        BY <1>2, <2>1, <3>2, <4>2, <4>3, <4>4 DEF OneMoment, Running, IndexAhead, MapAhead, Extends
    <3> QED
      BY <3>1, <3>2
  <2>9. TwoMoments'
    <3>1. SUFFICES ASSUME split' <= 1 PROVE TwoMoments'
      BY DEF TwoMoments
    <3>2. split <= 1
      BY <1>5, <1>7, <3>1 DEF Types
    <3>3. Match(index', intentMap')
      BY <1>5, <2>4, <3>2 DEF TwoMoments, Match, Types
    <3>4. CASE writing
      <4>1. split = 0 /\ mode = "saved"
        BY <1>2, <1>5, <1>7, <3>1, <3>4 DEF Types, WritesInSave
      <4>2. index = intentMap /\ mapFile = intentMap
        BY <1>5, <2>1, <3>4, <4>1 DEF OneMoment, Running, MapAhead
      <4>3. Match(index', mapFile')
        BY <1>2, <2>3, <2>4, <4>2 DEF Match
      <4> QED
        BY <1>2, <2>1, <3>3, <3>4, <4>1, <4>3 DEF TwoMoments, IndexAhead, MapAhead
    <3>5. CASE ~writing
      <4>1. Match(indexFile, mapFile)
        BY <1>2, <1>5, <3>2, <3>5 DEF TwoMoments, IndexAhead, MapAhead
      <4> QED
        BY <1>2, <2>1, <3>3, <3>5, <4>1 DEF TwoMoments, IndexAhead, MapAhead
    <3> QED
      BY <3>4, <3>5
  <2> QED
    BY <1>1, <1>8, <2>2, <2>5, <2>6, <2>7, <2>8, <2>9 DEF IInv
<1> QED
  BY <1>3, <1>6, <1>7

\* A process that starts has no cycle yet; its map is the file's, or empty.
LEMMA StartKeeps ==
  ASSUME IInv, Start
  PROVE  IInv'
<1>1. /\ Lists' /\ EmbeddedIntents' /\ EmbeddedIsIndexed' /\ embedded' = {}
  BY GoneKeeps DEF Start
<1>2. /\ mode \in {"down", "failed"} /\ mode' = "up"
      /\ index' = Empty
      /\ UNCHANGED <<writing, indexFile, mapFile, split>>
  BY DEF Start, Initialize, files
<1>3. /\ Types /\ WritesInSave /\ OneMoment /\ TwoMoments
  BY DEF IInv
<1>4. ~writing
  BY <1>2, <1>3 DEF WritesInSave
<1>5. Empty \in Table /\ \A id \in Ids : Empty[id] = None
  BY DEF Empty, Table
<1>6. \/ /\ indexFile = Absent /\ ~loading'
         /\ intentMap' = Empty /\ nextId' = 0
      \/ /\ indexFile # Absent /\ loading'
         /\ \/ mapFile \in {Absent, Torn} /\ intentMap' = Empty /\ nextId' = 0
            \/ /\ mapFile \in Table /\ intentMap' = mapFile
               /\ nextId' = NextId(mapFile)
  BY <1>3 DEF Start, Initialize, CreateIndex, LoadIndex, Types
<1>7. loading' \in BOOLEAN
  BY <1>6 DEF Start, Initialize, CreateIndex, LoadIndex
<1>8. /\ intentMap' \in Table /\ nextId' \in Nat
      /\ \A id \in Ids : intentMap'[id] # None => id < nextId'
  <2>1. CASE intentMap' = Empty /\ nextId' = 0
    BY <1>5, <2>1
  <2>2. CASE mapFile \in Table /\ intentMap' = mapFile /\ nextId' = NextId(mapFile)
    BY <2>2, NextIdIsFree
  <2> QED
    BY <1>6, <2>1, <2>2
<1>9. Types'
  BY <1>2, <1>3, <1>5, <1>7, <1>8 DEF Types
<1>10. Fresh'
  BY <1>8 DEF Fresh
<1>11. LoadedLate' /\ WritesInSave'
  BY <1>1, <1>2, <1>4 DEF LoadedLate, WritesInSave
<1>12. OneMoment'
  <2>1. SUFFICES ASSUME split = 0 PROVE OneMoment'
    BY <1>2 DEF OneMoment
  <2>2. indexFile = mapFile /\ indexFile # Torn
    BY <1>2, <1>3, <2>1 DEF OneMoment, IndexAhead, MapAhead
  <2>3. CASE indexFile = Absent
    <3>1. ~loading' /\ index' = intentMap'
      BY <1>2, <1>6, <2>3
    <3> QED
      BY <1>2, <1>4, <2>2, <2>3, <3>1, FilesAssumption
         DEF OneMoment, IndexAhead, MapAhead, Extends
  <2>4. CASE indexFile # Absent
    <3>1. loading' /\ intentMap' = indexFile
      BY <1>3, <1>6, <2>2, <2>4 DEF Types
    <3> QED
      BY <1>2, <1>4, <2>2, <3>1 DEF OneMoment, IndexAhead, MapAhead, Extends
  <2> QED
    BY <2>3, <2>4
<1>13. TwoMoments'
  <2>1. SUFFICES ASSUME split <= 1 PROVE TwoMoments'
    BY <1>2 DEF TwoMoments
  <2>2. Match(indexFile, mapFile)
    BY <1>2, <1>3, <2>1 DEF TwoMoments, IndexAhead, MapAhead
  <2>3. Match(index', intentMap')
    BY <1>2, <1>5 DEF Match
  <2>4. loading' => Match(indexFile', intentMap')
    BY <1>2, <1>5, <1>6, <2>2 DEF Match
  <2> QED
    BY <1>2, <1>4, <2>2, <2>3, <2>4 DEF TwoMoments, IndexAhead, MapAhead
<1> QED
  BY <1>1, <1>9, <1>10, <1>11, <1>12, <1>13 DEF IInv

\* readIndex settles: nothing was added meanwhile that it could wipe out.
LEMMA LoadedKeeps ==
  ASSUME IInv, Loaded
  PROVE  IInv'
<1>1. /\ mode \in {"up", "saved"} /\ loading /\ ~loading'
      /\ indexFile \in Table /\ index' = indexFile
      /\ UNCHANGED <<mode, intentMap, nextId, writing, indexFile, mapFile, split>>
      /\ UNCHANGED <<cached, embedded, cycle, refused>>
  BY DEF Loaded, IndexLoaded, files
<1>2. /\ Types /\ Lists /\ EmbeddedIntents /\ Fresh /\ LoadedLate /\ WritesInSave
      /\ OneMoment /\ TwoMoments
  BY DEF IInv
<1>3. ~writing /\ embedded \subseteq refused
  BY <1>1, <1>2 DEF LoadedLate
<1>8. loading' \in BOOLEAN
  BY DEF Loaded, IndexLoaded
<1>4. Types' /\ Lists' /\ EmbeddedIntents' /\ Fresh'
  BY <1>1, <1>2, <1>8 DEF Types, Lists, EmbeddedIntents, Fresh
<1>5. LoadedLate' /\ WritesInSave' /\ EmbeddedIsIndexed'
  BY <1>1, <1>3 DEF LoadedLate, WritesInSave, EmbeddedIsIndexed
<1>6. OneMoment'
  BY <1>1, <1>2, <1>3 DEF OneMoment, Running, IndexAhead, MapAhead, Extends
<1>7. TwoMoments'
  BY <1>1, <1>2, <1>3 DEF TwoMoments, IndexAhead, MapAhead, Match
<1> QED
  BY <1>4, <1>5, <1>6, <1>7 DEF IInv

\* readIndex is rejected: the process ends over a torn file.
LEMMA RejectedKeeps ==
  ASSUME IInv, LoadRejected
  PROVE  IInv'
<1>1. /\ Lists' /\ EmbeddedIntents' /\ EmbeddedIsIndexed' /\ embedded' = {}
  BY GoneKeeps DEF LoadRejected
<1>2. /\ mode \in {"up", "saved"} /\ loading /\ indexFile = Torn /\ mode' = "failed"
      /\ UNCHANGED <<loading, index, intentMap, nextId, writing, indexFile, mapFile, split>>
  BY DEF LoadRejected, IndexUnreadable, memory, files
<1>3. /\ Types /\ Fresh /\ LoadedLate /\ OneMoment /\ TwoMoments
  BY DEF IInv
<1>4. ~writing
  BY <1>2, <1>3 DEF LoadedLate
<1>5. Types' /\ Fresh'
  BY <1>2, <1>3 DEF Types, Fresh
<1>6. LoadedLate' /\ WritesInSave'
  BY <1>1, <1>2, <1>4 DEF LoadedLate, WritesInSave
<1>7. OneMoment'
  BY <1>2, <1>3 DEF OneMoment
<1>8. TwoMoments'
  BY <1>2, <1>3, <1>4 DEF TwoMoments, IndexAhead, MapAhead, Match
<1> QED
  BY <1>1, <1>5, <1>6, <1>7, <1>8 DEF IInv

\* stop begins the save.
LEMMA StopKeeps ==
  ASSUME IInv, Stop
  PROVE  IInv'
<1>1. /\ mode = "up" /\ mode' = "saving" /\ writing' = ~loading
      /\ UNCHANGED <<loading, index, intentMap, nextId, indexFile, mapFile, split>>
      /\ UNCHANGED <<cached, embedded, cycle, refused>>
  BY DEF Stop, BeginSave, files
<1>2. /\ Types /\ Lists /\ EmbeddedIntents /\ Fresh /\ LoadedLate
      /\ OneMoment /\ TwoMoments /\ EmbeddedIsIndexed
  BY DEF IInv
<1>3. writing' \in BOOLEAN /\ loading \in BOOLEAN
  BY <1>1, <1>2 DEF Types
<1>4. Types' /\ Lists' /\ EmbeddedIntents' /\ Fresh'
  BY <1>1, <1>2, <1>3 DEF Types, Lists, EmbeddedIntents, Fresh
<1>5. LoadedLate' /\ WritesInSave' /\ EmbeddedIsIndexed'
  BY <1>1, <1>2 DEF LoadedLate, WritesInSave, EmbeddedIsIndexed
<1>6. OneMoment'
  BY <1>1, <1>2 DEF OneMoment, Running, IndexAhead, MapAhead, Extends
<1>7. TwoMoments'
  BY <1>1, <1>2 DEF TwoMoments, IndexAhead, MapAhead, Match
<1> QED
  BY <1>4, <1>5, <1>6, <1>7 DEF IInv

\* The map is written in the thread of the node.
LEMMA MapKeeps ==
  ASSUME IInv, WriteMap, UNCHANGED <<cached, embedded, cycle, refused, split>>
  PROVE  IInv'
<1>1. /\ mode = "saving" /\ mode' = "saved" /\ mapFile' = intentMap
      /\ UNCHANGED <<loading, index, intentMap, nextId, writing, indexFile, split>>
      /\ UNCHANGED <<cached, embedded, cycle, refused>>
  BY DEF WriteMap, memory
<1>2. /\ Types /\ Lists /\ EmbeddedIntents /\ Fresh /\ LoadedLate
      /\ OneMoment /\ TwoMoments /\ EmbeddedIsIndexed
  BY DEF IInv
<1>3. Types' /\ Lists' /\ EmbeddedIntents' /\ Fresh'
  BY <1>1, <1>2 DEF Types, Lists, EmbeddedIntents, Fresh
<1>4. LoadedLate' /\ WritesInSave' /\ EmbeddedIsIndexed'
  BY <1>1, <1>2 DEF LoadedLate, WritesInSave, EmbeddedIsIndexed
<1>5. OneMoment'
  <2>1. SUFFICES ASSUME split = 0 PROVE OneMoment'
    BY <1>1 DEF OneMoment
  <2>2. /\ indexFile # Torn /\ mapFile # Torn
        /\ ~loading => index = intentMap
        /\ loading => intentMap = indexFile
        /\ Extends(intentMap, indexFile)
        /\ ~writing /\ ~loading => indexFile = intentMap
    BY <1>1, <1>2, <2>1 DEF OneMoment, Running, IndexAhead
  <2>3. intentMap # Torn
    BY <1>2, FilesAssumption DEF Types
  <2>4. Extends(intentMap, intentMap)
    BY DEF Extends
  <2>5. loading => ~writing
    BY <1>2 DEF LoadedLate
  <2> QED
    BY <1>1, <2>2, <2>3, <2>4, <2>5 DEF OneMoment, Running, IndexAhead, MapAhead, Extends
<1>6. TwoMoments'
  <2>1. SUFFICES ASSUME split <= 1 PROVE TwoMoments'
    BY <1>1 DEF TwoMoments
  <2>2. /\ Match(index, intentMap)
        /\ loading => Match(indexFile, intentMap)
        /\ ~writing /\ ~loading => indexFile = index
    BY <1>1, <1>2, <2>1 DEF TwoMoments, IndexAhead
  <2> QED
    BY <1>1, <2>2 DEF TwoMoments, IndexAhead, MapAhead, Match
<1> QED
  BY <1>3, <1>4, <1>5, <1>6 DEF IInv

\* The index is written in another.
LEMMA IndexKeeps ==
  ASSUME IInv, WriteIndex, UNCHANGED <<cached, embedded, cycle, refused, split>>
  PROVE  IInv'
<1>1. /\ writing /\ ~writing' /\ indexFile' = index
      /\ UNCHANGED <<mode, loading, index, intentMap, nextId, mapFile, split>>
      /\ UNCHANGED <<cached, embedded, cycle, refused>>
  BY DEF WriteIndex
<1>2. /\ Types /\ Lists /\ EmbeddedIntents /\ Fresh /\ LoadedLate /\ WritesInSave
      /\ OneMoment /\ TwoMoments /\ EmbeddedIsIndexed
  BY DEF IInv
<1>3. ~loading /\ mode \in {"saving", "saved"}
  BY <1>1, <1>2 DEF LoadedLate, WritesInSave
<1>8. writing' \in BOOLEAN
  BY DEF WriteIndex
<1>4. Types' /\ Lists' /\ EmbeddedIntents' /\ Fresh'
  BY <1>1, <1>2, <1>8 DEF Types, Lists, EmbeddedIntents, Fresh
<1>5. LoadedLate' /\ WritesInSave' /\ EmbeddedIsIndexed'
  BY <1>1, <1>2, <1>3 DEF LoadedLate, WritesInSave, EmbeddedIsIndexed
<1>6. OneMoment'
  <2>1. SUFFICES ASSUME split = 0 PROVE OneMoment'
    BY <1>1 DEF OneMoment
  <2>2. /\ mapFile # Torn /\ index = intentMap
        /\ Extends(intentMap, mapFile)
        /\ mode = "saved" => mapFile = intentMap
    BY <1>1, <1>2, <1>3, <2>1 DEF OneMoment, Running, MapAhead
  <2>3. index # Torn
    BY <1>2, FilesAssumption DEF Types
  <2>4. Extends(intentMap, index)
    BY <2>2 DEF Extends
  <2> QED
    BY <1>1, <1>3, <2>2, <2>3, <2>4 DEF OneMoment, Running, IndexAhead, MapAhead, Extends
<1>7. TwoMoments'
  <2>1. SUFFICES ASSUME split <= 1 PROVE TwoMoments'
    BY <1>1 DEF TwoMoments
  <2>2. /\ Match(index, intentMap)
        /\ mode = "saved" => Match(index, mapFile)
    BY <1>1, <1>2, <2>1 DEF TwoMoments, MapAhead
  <2> QED
    BY <1>1, <1>3, <2>2 DEF TwoMoments, IndexAhead, MapAhead, Match
<1> QED
  BY <1>4, <1>5, <1>6, <1>7 DEF IInv

\* What a process leaves behind, whether it exits or is killed: two files that
\* agree, or the same twice while no save was cut off.
LEMMA ForgetKeeps ==
  ASSUME IInv, Forget, NodeGone, split' \in Nat,
         indexFile' \in Table \union {Absent, Torn},
         mapFile' \in Table \union {Absent, Torn},
         split' = 0 => /\ indexFile' = mapFile'
                       /\ indexFile' # Torn /\ mapFile' # Torn,
         split' <= 1 => Match(indexFile', mapFile')
  PROVE  IInv'
<1>1. /\ Lists' /\ EmbeddedIntents' /\ EmbeddedIsIndexed' /\ embedded' = {}
  BY GoneKeeps
<1>2. /\ mode' = "down" /\ ~loading' /\ ~writing' /\ nextId' = 0
      /\ index' = Empty /\ intentMap' = Empty
  BY DEF Forget
<1>3. Empty \in Table /\ \A id \in Ids : Empty[id] = None
  BY DEF Empty, Table
<1>4. loading' \in BOOLEAN /\ writing' \in BOOLEAN
  BY DEF Forget
<1>5. Types' /\ Fresh'
  BY <1>2, <1>3, <1>4 DEF Types, Fresh
<1>6. LoadedLate' /\ WritesInSave'
  BY <1>2 DEF LoadedLate, WritesInSave
<1>7. OneMoment'
  BY <1>2 DEF OneMoment, Running, IndexAhead, MapAhead
<1>8. TwoMoments'
  <2>1. Match(index', intentMap')
    BY <1>2, <1>3 DEF Match
  <2> QED
    BY <1>2, <2>1 DEF TwoMoments, IndexAhead, MapAhead
<1> QED
  BY <1>1, <1>5, <1>6, <1>7, <1>8 DEF IInv

\* It ends while no file is being written.
LEMMA ExitKeeps ==
  ASSUME IInv, Exit
  PROVE  IInv'
<1>1. /\ Forget /\ NodeGone /\ UNCHANGED <<indexFile, mapFile, split>>
      /\ mode \in {"up", "saved"} /\ ~writing
  BY DEF Exit, End, files
<1>2. Types /\ OneMoment /\ TwoMoments
  BY DEF IInv
<1>3. /\ split = 0 => indexFile = mapFile /\ indexFile # Torn /\ mapFile # Torn
      /\ split <= 1 => Match(indexFile, mapFile)
  BY <1>1, <1>2 DEF OneMoment, TwoMoments, IndexAhead, MapAhead
<1>4. /\ split' = 0 => /\ indexFile' = mapFile'
                       /\ indexFile' # Torn /\ mapFile' # Torn
      /\ split' <= 1 => Match(indexFile', mapFile')
  BY <1>1, <1>3
<1>5. /\ split' \in Nat
      /\ indexFile' \in Table \union {Absent, Torn}
      /\ mapFile' \in Table \union {Absent, Torn}
  BY <1>1, <1>2 DEF Types
<1> QED
  BY <1>1, <1>4, <1>5, ForgetKeeps

\* It is killed in a save: any of the two files may be the older one.
LEMMA KilledKeeps ==
  ASSUME IInv, Killed
  PROVE  IInv'
<1>1. /\ Forget /\ NodeGone /\ split' = split + 1
      /\ mode = "saving" \/ writing
      /\ mapFile' \in IF mode = "saving" THEN {mapFile, Torn, intentMap} ELSE {mapFile}
      /\ indexFile' \in IF writing THEN {indexFile, Torn, index} ELSE {indexFile}
  BY DEF Killed, EndInSave
<1>2. Types /\ LoadedLate /\ WritesInSave /\ OneMoment
  BY DEF IInv
<1>3. /\ split' \in Nat /\ split' # 0
      /\ indexFile' \in Table \union {Absent, Torn}
      /\ mapFile' \in Table \union {Absent, Torn}
  BY <1>1, <1>2 DEF Types
<1>4. ASSUME split' <= 1 PROVE Match(indexFile', mapFile')
  <2>1. split = 0
    BY <1>1, <1>2, <1>4 DEF Types
  <2>2. /\ ~loading => index = intentMap
        /\ loading => intentMap = indexFile
        /\ Extends(intentMap, indexFile) /\ Extends(intentMap, mapFile)
    BY <1>1, <1>2, <2>1 DEF OneMoment, Running, WritesInSave
  <2>3. loading => ~writing
    BY <1>2 DEF LoadedLate
  <2>4. Torn \notin Table
    BY FilesAssumption
  <2>5. CASE mode = "saving" /\ (writing \/ loading)
    <3>1. indexFile = mapFile
      BY <1>2, <2>1, <2>5 DEF OneMoment, IndexAhead, MapAhead
    <3> QED
      BY <1>1, <2>2, <2>3, <2>4, <2>5, <3>1 DEF Match, Extends
  <2>6. CASE mode = "saving" /\ ~writing /\ ~loading
    <3>1. indexFile = intentMap
      BY <1>2, <2>1, <2>6 DEF OneMoment, IndexAhead
    <3> QED
      BY <1>1, <2>2, <2>4, <2>6, <3>1 DEF Match, Extends
  <2>7. CASE mode # "saving"
    <3>1. mapFile = intentMap /\ writing
      BY <1>1, <1>2, <2>1, <2>7 DEF OneMoment, MapAhead, WritesInSave
    <3> QED
      BY <1>1, <2>2, <2>3, <2>4, <2>7, <3>1 DEF Match, Extends
  <2> QED
    BY <2>5, <2>6, <2>7
<1> QED
  BY <1>1, <1>3, <1>4, ForgetKeeps

LEMMA NextIInv ==
  ASSUME IInv, [Next]_vars
  PROVE  IInv'
<1>1. ASSUME NEW c \in Cycles, CycleNext(c) PROVE IInv'
  BY <1>1, CycleKeeps, EmbeddingKeeps DEF CycleNext
<1>2. ASSUME NEW i \in Intents, CacheChanges(i) PROVE IInv'
  BY <1>2, CacheKeeps
<1>3. CASE Start \/ Loaded \/ LoadRejected \/ Stop
  BY <1>3, StartKeeps, LoadedKeeps, RejectedKeeps, StopKeeps
<1>4. CASE Save
  BY <1>4, MapKeeps, IndexKeeps DEF Save
<1>5. CASE Exit \/ Killed
  BY <1>5, ExitKeeps, KilledKeeps
<1>6. CASE UNCHANGED vars
  <2>1. UNCHANGED <<dbVars, split, cached, embedded, cycle, refused>>
    BY <1>6 DEF vars
  <2>2. Lists' /\ (loading => embedded' \subseteq refused')
    BY <2>1 DEF IInv, Lists, LoadedLate
  <2> QED
    BY <2>1, <2>2, DatabaseUntouched
<1> QED
  BY <1>1, <1>2, <1>3, <1>4, <1>5, <1>6 DEF Next

-----------------------------------------------------------------------------
(* The theorems                                                            *)

LEMMA IInvAlways == Spec => []IInv
<1>1. IInv /\ [Next]_vars => IInv'
  BY NextIInv
<1> QED
  BY <1>1, InitIInv, PTL DEF Spec

\* The vector under an id is that of the intent the map has under it, whichever of
\* the two files is the older, while no more than one save left them of two
\* moments (VectorDatabase.ts:33-46, 210-228).
THEOREM VectorsMatchAlways == Spec => []VectorsMatch
<1>1. ASSUME IInv PROVE VectorsMatch
  <2>1. SUFFICES ASSUME split <= 1, NEW id \in Ids, index[id] # None, intentMap[id] # None
                 PROVE  index[id] = intentMap[id]
    BY DEF VectorsMatch
  <2>2. Match(index, intentMap) /\ index \in Table /\ intentMap \in Table
    BY <1>1, <2>1 DEF IInv, TwoMoments, Types
  <2> QED
    BY <2>1, <2>2 DEF Match
<1> QED
  BY <1>1, IInvAlways, PTL

\* However cycles overlap, an intent that has an embedding can be found, unless the
\* index refused it; an index that is loaded late wipes out nothing, because nothing
\* was added before (MediatorNode.ts:206-218, VectorDatabase.ts:77-93).
THEOREM EmbeddedIsAlwaysIndexed == Spec => []EmbeddedIsIndexed
<1>1. IInv => EmbeddedIsIndexed
  BY DEF IInv
<1> QED
  BY <1>1, IInvAlways, PTL

\* What the map has under an id it keeps there while the process lives: every id
\* given out is above those that were read (VectorDatabase.ts:46, 85-88).
THEOREM IdsAreAlwaysFresh == Spec => IdsAreFresh
<1> DEFINE KeepsIds ==
      \A id \in Ids : intentMap[id] # None =>
        \/ intentMap'[id] = intentMap[id]
        \/ mode' \in {"down", "up"} /\ mode' # mode
<1>1. ASSUME IInv, [Next]_vars PROVE KeepsIds
  <2>1. Types /\ Fresh
    BY <1>1 DEF IInv
  <2>2. ASSUME NEW c \in Cycles, EmbeddingArrives(c) PROVE KeepsIds
    <3>1. \/ UNCHANGED intentMap
          \/ \E i : intentMap' = [intentMap EXCEPT ![nextId] = i]
      BY <2>2 DEF EmbeddingArrives, AddIntent
    <3>2. ASSUME NEW id \in Ids, intentMap[id] # None PROVE intentMap'[id] = intentMap[id]
      <4>1. id # nextId
        BY <2>1, <3>2 DEF Types, Fresh
      <4> QED
        BY <2>1, <3>1, <4>1 DEF Types, Table
    <3> QED
      BY <3>2
  <2>3. ASSUME UNCHANGED intentMap PROVE KeepsIds
    BY <2>3
  <2>4. ASSUME mode' \in {"down", "up"}, mode' # mode PROVE KeepsIds
    BY <2>4
  <2> HIDE DEF KeepsIds
  <2>5. ASSUME NEW c \in Cycles, CycleNext(c) PROVE KeepsIds
    <3>1. CASE EmbeddingArrives(c)
      BY <2>2, <3>1
    <3>2. CASE UNCHANGED dbVars
      BY <2>3, <3>2 DEF dbVars, memory
    <3> QED
      BY <2>5, <3>1, <3>2 DEF CycleNext, StartCycle, NextIntent, EmbeddingFails, Search,
         MatchesArrive, Negotiate, EndCycle
  <2>6. CASE \/ \E i \in Intents : CacheChanges(i)
             \/ UNCHANGED vars
    BY <2>3, <2>6 DEF CacheChanges, vars, dbVars, memory
  <2>7. CASE Loaded \/ LoadRejected \/ Stop \/ Save
    BY <2>3, <2>7 DEF Loaded, IndexLoaded, LoadRejected, IndexUnreadable, Stop, BeginSave,
       Save, WriteMap, WriteIndex, memory
  <2>8. CASE Start
    BY <2>4, <2>8 DEF Start, Initialize
  <2>9. CASE Exit \/ Killed
    <3>1. mode' = "down" /\ mode # "down"
      BY <1>1, <2>9 DEF Exit, End, Killed, EndInSave, Forget, IInv, WritesInSave
    <3> QED
      BY <2>4, <3>1
  <2> QED
    BY <1>1, <2>5, <2>6, <2>7, <2>8, <2>9 DEF Next
<1>2. [][KeepsIds]_vars <=> IdsAreFresh
  BY DEF IdsAreFresh
<1> QED
  BY <1>1, <1>2, IInvAlways, PTL DEF Spec

-------------------------------------------------------------------------------
(* A function that is defined step by step exists                          *)

\* A set of natural numbers has a least element.
LEMMA LeastNat ==
  ASSUME NEW S \in SUBSET Nat, S # {}
  PROVE  \E m \in S : \A k \in S : m <= k
<1>1. \E m \in S : \A k \in S : ~(<<k, m>> \in OpToRel(<, Nat))
  BY WFMin, NatLessThanWellFounded
<1>2. PICK m \in S : \A k \in S : ~(k < m)
  BY <1>1 DEF OpToRel
<1> QED
  BY <1>2

\* f is what the steps G make of b, one after the other.
Runs(f, m, b, G) == f[0] = b /\ \A k \in 1..m : f[k] = G[k][f[k - 1]]

\* A function that starts in b and goes from f[k - 1] to G[k][f[k - 1]] exists.
LEMMA RecursionExists ==
  ASSUME NEW n \in Nat, NEW V, NEW b \in V, NEW G \in [1..n -> [V -> V]]
  PROVE  \E f \in [0..n -> V] : Runs(f, n, b, G)
<1> DEFINE Good(m) == \E f \in [0..m -> V] : Runs(f, m, b, G)
           Bad == {m \in 0..n : ~Good(m)}
<1>1. SUFFICES ASSUME Bad # {} PROVE FALSE
  <2>1. n \in 0..n
    OBVIOUS
  <2> HIDE DEF Good
  <2>2. n \notin Bad => Good(n)
    BY <2>1
  <2> QED
    BY <1>1, <2>2 DEF Good
<1>2. PICK m \in Bad : \A k \in Bad : m <= k
  <2>1. Bad \subseteq Nat
    OBVIOUS
  <2> HIDE DEF Bad
  <2> QED
    BY <1>1, <2>1, LeastNat
<1>3. Good(0)
  <2> DEFINE f == [k \in 0..0 |-> b]
  <2>1. f \in [0..0 -> V] /\ f[0] = b
    OBVIOUS
  <2>2. \A k \in 1..0 : f[k] = G[k][f[k - 1]]
    OBVIOUS
  <2> HIDE DEF f
  <2>3. Runs(f, 0, b, G)
    BY <2>1, <2>2 DEF Runs
  <2> QED
    BY <2>1, <2>3
<1>4. m \in 1..n
  <2> HIDE DEF Good
  <2>1. m \in 0..n /\ ~Good(m)
    BY <1>2
  <2>2. m # 0
    BY <1>3, <2>1
  <2> QED
    BY <2>1, <2>2
<1>5. Good(m - 1)
  <2>1. m - 1 \in 0..n /\ m - 1 < m
    BY <1>4
  <2> HIDE DEF Good
  <2> QED
    BY <1>2, <2>1
<1>6. PICK f \in [0..(m - 1) -> V] : f[0] = b /\ \A k \in 1..(m - 1) : f[k] = G[k][f[k - 1]]
  BY <1>5 DEF Runs
<1> DEFINE g == [k \in 0..m |-> IF k = m THEN G[m][f[m - 1]] ELSE f[k]]
<1>7. f[m - 1] \in V /\ G[m][f[m - 1]] \in V
  BY <1>4, <1>6
<1>8. g \in [0..m -> V] /\ g[0] = b
  BY <1>4, <1>6, <1>7
<1>9. ASSUME NEW k \in 1..m PROVE g[k] = G[k][g[k - 1]]
  <2>1. CASE k = m
    BY <1>4, <2>1
  <2>2. CASE k # m
    <3>1. k \in 1..(m - 1) /\ k - 1 \in 0..m /\ k - 1 # m /\ k \in 0..m
      BY <1>4, <2>2
    <3> QED
      BY <1>6, <2>2, <3>1
  <2> QED
    BY <2>1, <2>2
<1>10. Good(m)
  <2> HIDE DEF g
  <2>1. Runs(g, m, b, G)
    BY <1>8, <1>9 DEF Runs
  <2> QED
    BY <1>8, <2>1
<1> QED
  BY <1>2, <1>10

-------------------------------------------------------------------------------
(* Counting stamps                                                         *)

\* The positions up to n of the stamps after T, and how many there are.
After(times, n, T) == {k \in 1..n : times[k] > T}

Above(times, T) == Cardinality(After(times, Len(times), T))

\* There are no more of them than positions.
LEMMA AfterIsFinite ==
    ASSUME NEW times, NEW n \in Nat, NEW T
    PROVE  /\ IsFiniteSet(After(times, n, T)) /\ Cardinality(After(times, n, T)) \in Nat
           /\ Cardinality(After(times, n, T)) <= n
<1>1. IsFiniteSet(1..n) /\ Cardinality(1..n) = n
  BY FS_Interval
<1>2. After(times, n, T) \in SUBSET (1..n)
  BY DEF After
<1> QED
  BY <1>1, <1>2, FS_Subset, FS_CardinalityType

\* One position more.
LEMMA AfterOneMore ==
    ASSUME NEW times, NEW n \in Nat, NEW T
    PROVE  Cardinality(After(times, n + 1, T)) =
               IF times[n + 1] > T THEN Cardinality(After(times, n, T)) + 1
                                   ELSE Cardinality(After(times, n, T))
<1>1. IsFiniteSet(After(times, n, T))
  BY AfterIsFinite
<1>2. CASE times[n + 1] > T
  <2>1. After(times, n + 1, T) = After(times, n, T) \cup {n + 1}
    BY <1>2 DEF After
  <2>2. n + 1 \notin After(times, n, T)
    BY DEF After
  <2> QED
    BY <1>1, <1>2, <2>1, <2>2, FS_AddElement
<1>3. CASE ~(times[n + 1] > T)
  <2>1. After(times, n + 1, T) = After(times, n, T)
    BY <1>3 DEF After
  <2> QED
    BY <1>3, <2>1
<1> QED
  BY <1>2, <1>3

\* One stamp more.
LEMMA AboveAppended ==
    ASSUME NEW times \in Seq(Nat), NEW t \in Nat, NEW T
    PROVE  Above(Append(times, t), T) = IF t > T THEN Above(times, T) + 1 ELSE Above(times, T)
<1> DEFINE n == Len(times)
<1>1. PICK longer : longer = Append(times, t)
  OBVIOUS
<1>2. /\ n \in Nat /\ Len(longer) = n + 1 /\ longer[n + 1] = t
      /\ \A k \in 1..n : longer[k] = times[k]
  BY <1>1
<1>3. After(longer, n, T) = After(times, n, T)
  BY <1>2 DEF After
<1>4. Above(longer, T) = IF t > T THEN Cardinality(After(longer, n, T)) + 1
                                  ELSE Cardinality(After(longer, n, T))
  BY <1>2, AfterOneMore DEF Above
<1> QED
  BY <1>1, <1>3, <1>4 DEF Above

\* The filter keeps the stamps after the cutoff and nothing else.
LEMMA RecentCounts ==
    ASSUME NEW S \in SUBSET Nat, NEW times \in Seq(S), clock \in Nat, Hour \in Nat
    PROVE  /\ Recent(times) \in Seq(S)
           /\ Len(Recent(times)) = Above(times, clock - Hour)
           /\ \A T \in Int : T >= clock - Hour => Above(Recent(times), T) = Above(times, T)
<1> DEFINE n == Len(times)
           V == Seq(S)
           cutoff == clock - Hour
           Add(v, k) == IF times[k] > cutoff THEN Append(v, times[k]) ELSE v
           G == [k \in 1..n |-> [v \in V |-> Add(v, k)]]
           Defines(f) == f = [k \in 0..n |-> IF k = 0 THEN << >>
                                    ELSE IF times[k] > cutoff THEN Append(f[k - 1], times[k])
                                    ELSE f[k - 1]]
<1>1. n \in Nat /\ << >> \in V /\ (\A k \in 1..n : times[k] \in S) /\ cutoff \in Int
  OBVIOUS
<1>2. \A v \in V, k \in 1..n : Add(v, k) \in V
  BY <1>1
<1>3. G \in [1..n -> [V -> V]]
  <2> HIDE DEF Add, V
  <2> QED
    BY <1>2
<1>4. PICK f \in [0..n -> V] : Runs(f, n, << >>, G)
  <2> HIDE DEF n, V, G
  <2> QED
    BY <1>1, <1>3, RecursionExists
<1>5. ASSUME NEW k \in 1..n PROVE f[k] = Add(f[k - 1], k)
  <2>1. k - 1 \in 0..n /\ f[k - 1] \in V
    <3> HIDE DEF V, n, G
    <3>1. k - 1 \in 0..n
      BY <1>1
    <3> QED
      BY <1>4, <3>1
  <2>2. PICK v \in V : v = f[k - 1]
    BY <2>1
  <2>3. G[k][v] = Add(v, k)
    <3> HIDE DEF Add, V
    <3> QED
      OBVIOUS
  <2> QED
    BY <1>4, <2>2, <2>3 DEF Runs
<1>6. Defines(f)
  <2>1. f[0] = << >> /\ 0 \in 0..n /\ (\A k \in 0..n : k = 0 \/ k \in 1..n)
    BY <1>1, <1>4 DEF Runs
  <2> DEFINE E(k) == IF k = 0 THEN << >>
                     ELSE IF times[k] > cutoff THEN Append(f[k - 1], times[k])
                     ELSE f[k - 1]
  <2>2. ASSUME NEW k \in 0..n PROVE f[k] = E(k)
    <3>1. CASE k = 0
      BY <2>1, <3>1
    <3>2. CASE k # 0
      <4>1. k \in 1..n
        BY <2>1, <3>2
      <4> QED
        BY <1>5, <3>2, <4>1, Zenon
    <3> QED
      BY <3>1, <3>2
  <2>3. f = [k \in 0..n |-> f[k]]
    <3> HIDE DEF V, n, G
    <3> QED
      BY <1>4
  <2>4. f = [k \in 0..n |-> E(k)]
    <3> HIDE DEF E, n
    <3> QED
      BY <2>2, <2>3
  <2> QED
    BY <2>4, Zenon
<1>7. PICK g : g = CHOOSE h : Defines(h)
  OBVIOUS
<1>8. Defines(g)
  <2> HIDE DEF Defines
  <2> QED
    BY <1>6, <1>7
<1>9. Recent(times) = g[n]
  BY <1>7, Zenon DEF Recent
<1>10. g[0] = << >> /\ \A k \in 1..n : g[k] = Add(g[k - 1], k)
  <2>1. 0 \in 0..n /\ \A k \in 1..n : k \in 0..n /\ k # 0
    BY <1>1
  <2>2. \A k \in 0..n : g[k] = IF k = 0 THEN << >>
                                ELSE IF times[k] > cutoff THEN Append(g[k - 1], times[k])
                                ELSE g[k - 1]
    BY <1>8, Zenon
  <2> QED
    BY <2>1, <2>2, Zenon
<1> DEFINE Counts(q, k) ==
             /\ q \in V
             /\ Len(q) = Cardinality(After(times, k, cutoff))
             /\ \A T \in Int : T >= cutoff => Above(q, T) = Cardinality(After(times, k, T))
           Outside == {k \in 0..n : ~Counts(g[k], k)}
<1>11. Counts(<< >>, 0)
  <2>1. \A T : After(<< >>, 0, T) = {} /\ After(times, 0, T) = {}
    BY DEF After
  <2> QED
    BY <2>1, FS_EmptySet DEF Above
<1>12. ASSUME NEW k \in 1..n, NEW q, Counts(q, k - 1) PROVE Counts(Add(q, k), k)
  <2> HIDE DEF cutoff, n
  <2>0. /\ q \in Seq(S) /\ Len(q) \in Nat
        /\ (\A j \in 1..Len(q) : q[j] \in S)
        /\ q = [j \in 1..Len(q) |-> q[j]]
    BY <1>12
  <2>1. /\ k - 1 \in Nat /\ k = (k - 1) + 1 /\ times[k] \in S /\ times[k] \in Nat
        /\ q \in Seq(Nat)
    <3>1. k - 1 \in Nat /\ k = (k - 1) + 1 /\ times[k] \in S
      BY <1>1
    <3>2. times[k] \in Nat /\ \A j \in 1..Len(q) : q[j] \in Nat
      BY <2>0, <3>1
    <3> QED
      BY <2>0, <3>1, <3>2
  <2>2. \A T : Cardinality(After(times, k, T)) =
                 IF times[k] > T THEN Cardinality(After(times, k - 1, T)) + 1
                                 ELSE Cardinality(After(times, k - 1, T))
    BY <2>1, AfterOneMore
  <2>3. CASE times[k] > cutoff
    <3>1. Add(q, k) = Append(q, times[k])
      BY <2>3
    <3>2. Append(q, times[k]) \in V /\ Len(Append(q, times[k])) = Len(q) + 1
      BY <2>0, <2>1
    <3>3. Len(Add(q, k)) = Cardinality(After(times, k, cutoff))
      BY <1>12, <2>2, <2>3, <3>1, <3>2
    <3>4. ASSUME NEW T \in Int, T >= cutoff
          PROVE  Above(Add(q, k), T) = Cardinality(After(times, k, T))
      <4>1. Above(Append(q, times[k]), T) = IF times[k] > T THEN Above(q, T) + 1 ELSE Above(q, T)
        BY <2>1, AboveAppended
      <4>2. Above(q, T) = Cardinality(After(times, k - 1, T))
        BY <1>12, <3>4
      <4> QED
        BY <2>2, <3>1, <4>1, <4>2
    <3> QED
      BY <3>1, <3>2, <3>3, <3>4
  <2>4. CASE ~(times[k] > cutoff)
    <3>1. Add(q, k) = q
      BY <2>4
    <3>2. \A T \in Int : T >= cutoff => ~(times[k] > T)
      BY <1>1, <2>1, <2>4
    <3> QED
      BY <1>1, <1>12, <2>2, <2>4, <3>1, <3>2
  <2> QED
    BY <2>3, <2>4
<1>13. Outside = {}
  <2> HIDE DEF Counts, Add, n
  <2>1. SUFFICES ASSUME Outside # {} PROVE FALSE
    OBVIOUS
  <2>2. PICK m \in Outside : \A k \in Outside : m <= k
    <3>1. Outside \subseteq Nat
      OBVIOUS
    <3> HIDE DEF Outside
    <3> QED
      BY <2>1, <3>1, LeastNat
  <2>3. m \in 0..n /\ ~Counts(g[m], m)
    BY <2>2
  <2>4. m # 0
    BY <1>10, <1>11, <2>3
  <2>5. m \in 1..n /\ m - 1 \in 0..n /\ ~(m <= m - 1)
    BY <1>1, <2>3, <2>4
  <2>6. Counts(g[m - 1], m - 1)
    BY <2>2, <2>5
  <2>7. Counts(Add(g[m - 1], m), m)
    BY <1>12, <2>5, <2>6
  <2> QED
    BY <1>10, <2>3, <2>5, <2>7
<1>14. Counts(g[n], n)
  <2>1. n \in 0..n
    BY <1>1
  <2> HIDE DEF Counts, n
  <2>2. n \notin Outside => Counts(g[n], n)
    BY <2>1
  <2> HIDE DEF Outside
  <2> QED
    BY <1>13, <2>2
<1> QED
  BY <1>9, <1>14 DEF Above

-------------------------------------------------------------------------------
(* IntentIngester: types                                                   *)

\* The assumptions on the constants, one by one.
LEMMA IngesterNumbers ==
    /\ IsFiniteSet(Posted) /\ AuthorOf \in [Posted -> Authors]
    /\ Hour \in Nat /\ Hour > 0 /\ MaxPerAuthor \in Nat /\ MaxPerAuthor > 0
    /\ MaxAttempts \in Nat /\ MaxAttempts > 0 /\ MaxCache \in Nat /\ MaxCache > 0
    /\ MaxClock \in Nat /\ MaxClock > 0
    /\ Timestamps \subseteq Nat /\ Time \subseteq Nat /\ Time \in SUBSET Nat
<1>1. Hour \in Nat \ {0} /\ MaxPerAuthor \in Nat \ {0} /\ MaxAttempts \in Nat \ {0}
      /\ MaxCache \in Nat \ {0} /\ MaxClock \in Nat \ {0}
  BY IngesterAssumption
<1> QED
  BY <1>1, IngesterAssumption DEF Time

\* Any set of intents is finite.
LEMMA PostedFinite ==
    ASSUME NEW S \in SUBSET Posted
    PROVE  IsFiniteSet(S) /\ Cardinality(S) \in Nat
  BY IngesterNumbers, FS_Subset, FS_CardinalityType

\* What eviction leaves.
LEMMA KeptBounds ==
    ASSUME NEW S \in SUBSET Posted, NEW K \in Kept(S)
    PROVE  /\ K \subseteq S /\ Cardinality(K) <= MaxCache
           /\ Cardinality(S) <= MaxCache => K = S
           /\ Cardinality(S) > MaxCache => Cardinality(K) = MaxCache
           /\ \A k \in K, j \in S \ K : timestamp[k] >= timestamp[j]
<1>1. /\ K \in SUBSET S
      /\ Cardinality(K) = IF Cardinality(S) <= MaxCache THEN Cardinality(S) ELSE MaxCache
      /\ \A k \in K, j \in S \ K : timestamp[k] >= timestamp[j]
  BY DEF Kept
<1>2. IsFiniteSet(S) /\ Cardinality(S) \in Nat
  BY PostedFinite
<1>3. Cardinality(S) = Cardinality(K) => S = K
  BY <1>1, <1>2, FS_Subset
<1> QED
  BY <1>1, <1>2, <1>3, IngesterNumbers

\* The filters of processIntent keep the types of what they write.
LEMMA FiltersTyped ==
    ASSUME IngesterTypeOK, NEW i \in Posted
    PROVE  /\ RecordAttempt(i) => attempts' \in [Authors -> Seq(Time)]
           /\ RecordStamp(i) => stamps' \in [Authors -> Seq(Time)]
           /\ Remember(i) => seen' \in [Posted -> Time]
<1>1. /\ clock \in Time /\ clock \in Nat /\ Hour \in Nat /\ Time \in SUBSET Nat /\ 0 \in Time
      /\ AuthorOf[i] \in Authors /\ MaxAttempts \in Nat /\ MaxAttempts > 0
  BY IngesterNumbers DEF IngesterTypeOK, Time
<1>2. /\ attempts \in [Authors -> Seq(Time)] /\ stamps \in [Authors -> Seq(Time)]
      /\ seen \in [Posted -> Time]
  BY DEF IngesterTypeOK
<1> HIDE DEF Time
<1>3. \A times \in Seq(Time) : Recent(times) \in Seq(Time)
  BY <1>1, RecentCounts
<1>4. ASSUME RecordAttempt(i) PROVE attempts' \in [Authors -> Seq(Time)]
  <2>0. PICK kept \in Seq(Time) : kept = Recent(attempts[AuthorOf[i]])
    BY <1>1, <1>2, <1>3
  <2>1. PICK all \in Seq(Time) : all = Append(kept, clock) /\ Len(all) > 0
    <3>1. Append(kept, clock) \in Seq(Time) /\ Len(Append(kept, clock)) = Len(kept) + 1
          /\ Len(kept) \in Nat
      BY <1>1
    <3>2. Len(kept) + 1 > 0
      BY <3>1
    <3> QED
      BY <3>1, <3>2
  <2>2. Attempts(i) \in Seq(Time)
    <3>1. Attempts(i) = IF Len(all) > MaxAttempts THEN Tail(all) ELSE all
      BY <2>0, <2>1 DEF Attempts
    <3>2. Tail(all) \in Seq(Time)
      BY <2>1
    <3> QED
      BY <3>1, <3>2
  <2> QED
    BY <1>1, <1>2, <1>4, <2>2 DEF RecordAttempt
<1>5. ASSUME RecordStamp(i) PROVE stamps' \in [Authors -> Seq(Time)]
  <2>1. Append(Recent(stamps[AuthorOf[i]]), clock) \in Seq(Time)
    BY <1>1, <1>2, <1>3
  <2> QED
    BY <1>1, <1>2, <1>5, <2>1 DEF RecordStamp
<1>6. ASSUME Remember(i) PROVE seen' \in [Posted -> Time]
  BY <1>1, <1>2, <1>6 DEF Remember
<1> QED
  BY <1>4, <1>5, <1>6

\* The ways processIntent returns.
Returns(i) ==
  \/ Skip(i)
  \/ RefuseInjection(i)
  \/ RefuseRate(i)
  \/ RefuseDuplicate(i)
  \/ RefuseUnalignable(i)
  \/ CacheIntent(i)

\* The types, and ARCHITECTURE.md:80: the cache never holds more than
\* maxIntentsCache intents, whatever polls overlap.
THEOREM IngesterTyped == IngesterSpec => []IngesterTypeOK
<1>1. IngesterInit => IngesterTypeOK
  <2> SUFFICES ASSUME IngesterInit PROVE IngesterTypeOK
    OBVIOUS
  <2>1. Cardinality(cache) = 0 /\ cache \subseteq Posted
    BY FS_EmptySet DEF IngesterInit
  <2>2. 0 \in Time /\ 1 \in Time /\ << >> \in Seq(Time)
    BY IngesterNumbers DEF Time
  <2>3. IdlePoll \in [pc : {"idle", "asked", "processing"}, since : Time, todo : SUBSET Posted]
    BY <2>2 DEF IdlePoll
  <2> QED
    BY <2>1, <2>2, <2>3, IngesterNumbers DEF IngesterInit, IngesterTypeOK
<1>2. IngesterTypeOK /\ [IngesterNext]_ingesterVars => IngesterTypeOK'
  <2> SUFFICES ASSUME IngesterTypeOK, [IngesterNext]_ingesterVars PROVE IngesterTypeOK'
    OBVIOUS
  <2>0. 0 \in Time /\ lastPoll \in Time /\ clock \in Time
    BY IngesterNumbers DEF Time, IngesterTypeOK
  <2>1. ASSUME NEW p \in Polls, StartPoll(p) PROVE IngesterTypeOK'
    BY <2>0, <2>1 DEF IngesterTypeOK, StartPoll, IdlePoll, filters
  <2>2. ASSUME NEW p \in Polls, PollAnswered(p) PROVE IngesterTypeOK'
    BY <2>2 DEF IngesterTypeOK, PollAnswered, Answers, filters
  <2>3. ASSUME NEW p \in Polls, PollFailed(p) PROVE IngesterTypeOK'
    BY <2>3 DEF IngesterTypeOK, PollFailed, filters
  <2>4. ASSUME NEW p \in Polls, EndPoll(p) PROVE IngesterTypeOK'
    BY <2>0, <2>4 DEF IngesterTypeOK, EndPoll, IdlePoll, filters
  <2>5. ASSUME NEW p \in Polls, ProcessIntent(p) PROVE IngesterTypeOK'
    <3>1. PICK i \in poll[p].todo :
            poll' = [poll EXCEPT ![p].todo = @ \ {i}] /\ Returns(i)
      BY <2>5 DEF ProcessIntent, Returns
    <3>2. i \in Posted
      BY DEF IngesterTypeOK
    <3>3. poll' \in [Polls -> [pc : {"idle", "asked", "processing"}, since : Time,
                               todo : SUBSET Posted]]
      BY <3>1 DEF IngesterTypeOK
    <3>4. timestamp' = timestamp /\ lastPoll' = lastPoll /\ clock' = clock
      BY <2>5 DEF ProcessIntent
    <3>5. /\ attempts' \in [Authors -> Seq(Time)] /\ stamps' \in [Authors -> Seq(Time)]
          /\ seen' \in [Posted -> Time]
      <4>1. attempts' = attempts \/ RecordAttempt(i)
        BY <3>1 DEF Returns, Skip, RefuseInjection, RefuseRate, RefuseDuplicate,
                    RefuseUnalignable, CacheIntent, filters
      <4>2. stamps' = stamps \/ RecordStamp(i)
        BY <3>1 DEF Returns, Skip, RefuseInjection, RefuseRate, RefuseDuplicate,
                    RefuseUnalignable, CacheIntent, filters
      <4>3. seen' = seen \/ Remember(i)
        BY <3>1 DEF Returns, Skip, RefuseInjection, RefuseRate, RefuseDuplicate,
                    RefuseUnalignable, CacheIntent, filters
      <4> QED
        BY <3>2, <4>1, <4>2, <4>3, FiltersTyped DEF IngesterTypeOK
    <3>6. /\ cachedAt' \in [Posted -> Time]
          /\ cache' \subseteq Posted /\ Cardinality(cache') <= MaxCache
      <4>1. CASE CacheIntent(i)
        <5>1. cache \cup {i} \in SUBSET Posted /\ cache' \in Kept(cache \cup {i})
          BY <3>2, <4>1 DEF CacheIntent, IngesterTypeOK
        <5>2. cache' \subseteq cache \cup {i} /\ Cardinality(cache') <= MaxCache
          BY <5>1, KeptBounds
        <5>3. cachedAt' \in [Posted -> Time]
          BY <2>0, <3>2, <4>1 DEF CacheIntent, IngesterTypeOK
        <5> QED
          BY <5>1, <5>2, <5>3
      <4>2. CASE ~CacheIntent(i)
        <5>1. cache' = cache /\ cachedAt' = cachedAt
          BY <3>1, <4>2 DEF Returns, Skip, RefuseInjection, RefuseRate, RefuseDuplicate,
                            RefuseUnalignable
        <5> QED
          BY <5>1 DEF IngesterTypeOK
      <4> QED
        BY <4>1, <4>2
    <3> QED
      BY <3>3, <3>4, <3>5, <3>6 DEF IngesterTypeOK
  <2>6. CASE Tick
    <3>1. clock' \in Time
      BY <2>0, <2>6, IngesterNumbers DEF Tick, Time
    <3> QED
      BY <2>6, <3>1 DEF IngesterTypeOK, Tick, filters
  <2>7. CASE UNCHANGED ingesterVars
    BY <2>7 DEF IngesterTypeOK, ingesterVars, filters
  <2> QED
    BY <2>1, <2>2, <2>3, <2>4, <2>5, <2>6, <2>7 DEF IngesterNext, Poll
<1> QED
  BY <1>1, <1>2, PTL DEF IngesterSpec

-------------------------------------------------------------------------------
(* IntentIngester: the duplicate window and eviction                       *)

\* What a step does to the variables the properties speak of.
LEMMA IngesterSteps ==
    ASSUME IngesterTypeOK, [IngesterNext]_ingesterVars
    PROVE  \/ /\ UNCHANGED <<timestamp, cache, seen, stamps, cachedAt>>
              /\ clock' = clock \/ (clock' = clock + 1 /\ clock < MaxClock)
           \/ /\ UNCHANGED <<timestamp, clock>>
              /\ \E i \in Posted : Returns(i)
<1>1. ASSUME NEW p \in Polls, ProcessIntent(p)
      PROVE  UNCHANGED <<timestamp, clock>> /\ \E i \in Posted : Returns(i)
  <2>1. \E i \in poll[p].todo : Returns(i)
    BY <1>1 DEF ProcessIntent, Returns
  <2>2. poll[p].todo \subseteq Posted
    BY DEF IngesterTypeOK
  <2> QED
    BY <1>1, <2>1, <2>2 DEF ProcessIntent
<1>2. ASSUME NEW p \in Polls, StartPoll(p) \/ PollAnswered(p) \/ PollFailed(p) \/ EndPoll(p)
      PROVE  UNCHANGED <<timestamp, cache, seen, stamps, cachedAt, clock>>
  BY <1>2 DEF StartPoll, PollAnswered, PollFailed, EndPoll, filters
<1>3. CASE Tick
  BY <1>3 DEF Tick, filters
<1>4. CASE UNCHANGED ingesterVars
  BY <1>4 DEF ingesterVars, filters
<1> QED
  BY <1>1, <1>2, <1>3, <1>4 DEF IngesterNext, Poll

\* An intent that was let in is remembered for an hour at least.
RememberedInv ==
  /\ \A i \in Posted : cachedAt[i] <= clock
  /\ \A i \in Posted : cachedAt[i] = 0 \/ seen[i] >= cachedAt[i] \/ clock - cachedAt[i] > Hour

\* The filter of recentProseHashes forgets nothing that is younger than an hour.
LEMMA Remembered == IngesterSpec => [](IngesterTypeOK /\ RememberedInv)
<1>1. IngesterInit => RememberedInv
  BY DEF IngesterInit, RememberedInv
<1>2. IngesterTypeOK /\ RememberedInv /\ [IngesterNext]_ingesterVars => RememberedInv'
  <2> SUFFICES ASSUME IngesterTypeOK, RememberedInv, [IngesterNext]_ingesterVars,
                      NEW j \in Posted
               PROVE  /\ (cachedAt[j] <= clock)'
                      /\ (cachedAt[j] = 0 \/ seen[j] >= cachedAt[j] \/ clock - cachedAt[j] > Hour)'
    BY DEF RememberedInv
  <2>1. /\ cachedAt[j] \in Nat /\ seen[j] \in Nat /\ clock \in Nat /\ Hour \in Nat
        /\ cachedAt[j] <= clock
        /\ cachedAt[j] = 0 \/ seen[j] >= cachedAt[j] \/ clock - cachedAt[j] > Hour
    BY IngesterNumbers DEF IngesterTypeOK, RememberedInv
  <2>2. CASE UNCHANGED <<timestamp, cache, seen, stamps, cachedAt>>
             /\ (clock' = clock \/ (clock' = clock + 1 /\ clock < MaxClock))
    BY <2>1, <2>2
  <2>3. ASSUME NEW i \in Posted, Returns(i), clock' = clock
        PROVE  /\ (cachedAt[j] <= clock)'
               /\ (cachedAt[j] = 0 \/ seen[j] >= cachedAt[j] \/ clock - cachedAt[j] > Hour)'
    <3>1. CASE CacheIntent(i) \/ RefuseUnalignable(i)
      <4>1. seen'[j] = IF j = i THEN clock ELSE IF seen[j] < clock - Hour THEN 0 ELSE seen[j]
        BY <3>1 DEF CacheIntent, RefuseUnalignable, Remember
      <4>2. cachedAt'[j] = cachedAt[j] \/ (j = i /\ cachedAt'[j] = clock)
        BY <3>1 DEF CacheIntent, RefuseUnalignable, IngesterTypeOK
      <4> QED
        BY <2>1, <2>3, <4>1, <4>2
    <3>2. CASE ~(CacheIntent(i) \/ RefuseUnalignable(i))
      <4>1. seen' = seen /\ cachedAt' = cachedAt
        BY <2>3, <3>2 DEF Returns, Skip, RefuseInjection, RefuseRate, RefuseDuplicate, filters
      <4> QED
        BY <2>1, <2>3, <4>1
    <3> QED
      BY <3>1, <3>2
  <2> QED
    BY <2>2, <2>3, IngesterSteps
<1> QED
  BY <1>1, <1>2, IngesterTyped, PTL DEF IngesterSpec

\* An intent that was evicted and is fetched again, by an overlapping poll or
\* for its timestamp in the future, is not let in again within an hour
\* (recentProseHashes outlives the cache entry).
THEOREM NoReentryAlways == IngesterSpec => NoReentryWithinHour
<1>1. IngesterTypeOK /\ RememberedInv /\ [IngesterNext]_ingesterVars =>
        [\A i \in Posted : cachedAt'[i] # cachedAt[i] =>
           cachedAt[i] = 0 \/ clock - cachedAt[i] > Hour]_ingesterVars
  <2> SUFFICES ASSUME IngesterTypeOK, RememberedInv, [IngesterNext]_ingesterVars,
                      NEW j \in Posted, cachedAt'[j] # cachedAt[j]
               PROVE  cachedAt[j] = 0 \/ clock - cachedAt[j] > Hour
    OBVIOUS
  <2>1. PICK i \in Posted : Returns(i)
    BY IngesterSteps
  <2>2. CacheIntent(i) /\ j = i
    BY <2>1 DEF Returns, Skip, RefuseInjection, RefuseRate, RefuseDuplicate,
                RefuseUnalignable, CacheIntent, IngesterTypeOK
  <2>3. seen[j] = 0
    BY <2>2 DEF CacheIntent, Accepted, Duplicate
  <2>4. cachedAt[j] \in Nat /\ (cachedAt[j] = 0 \/ seen[j] >= cachedAt[j] \/ clock - cachedAt[j] > Hour)
    BY IngesterNumbers DEF IngesterTypeOK, RememberedInv
  <2> QED
    BY <2>3, <2>4
<1> QED
  BY <1>1, Remembered, PTL DEF IngesterSpec, NoReentryWithinHour

\* Nothing was evicted before the cache was full.
FullInv ==
  \A i \in Posted : cachedAt[i] > 0 /\ i \notin cache => Cardinality(cache) = MaxCache

\* An intent that was let into the cache and is no longer in it is not newer
\* than any that is, however many evictions by enforceMaxCacheSize lie between.
THEOREM CacheHoldsTheNewestAlways == IngesterSpec => []CacheHoldsTheNewest
<1>1. IngesterInit => FullInv /\ CacheHoldsTheNewest
  BY DEF IngesterInit, FullInv, CacheHoldsTheNewest
<1>2. IngesterTypeOK /\ FullInv /\ CacheHoldsTheNewest /\ [IngesterNext]_ingesterVars
        => FullInv' /\ CacheHoldsTheNewest'
  <2> SUFFICES ASSUME IngesterTypeOK, FullInv, CacheHoldsTheNewest, [IngesterNext]_ingesterVars
               PROVE  FullInv' /\ CacheHoldsTheNewest'
    OBVIOUS
  <2>1. CASE UNCHANGED <<timestamp, cache, cachedAt>>
    BY <2>1 DEF FullInv, CacheHoldsTheNewest
  <2>2. ASSUME NEW i \in Posted, CacheIntent(i), timestamp' = timestamp
        PROVE  FullInv' /\ CacheHoldsTheNewest'
    <3> DEFINE S == cache \cup {i}
    <3>1. /\ S \in SUBSET Posted /\ cache' \in Kept(S) /\ i \notin cache
          /\ IsFiniteSet(cache) /\ Cardinality(cache) \in Nat /\ Cardinality(cache) <= MaxCache
          /\ MaxCache \in Nat
      BY <2>2, PostedFinite, IngesterNumbers
      DEF CacheIntent, Accepted, Screened, IngesterTypeOK
    <3>2. Cardinality(S) = Cardinality(cache) + 1
      BY <3>1, FS_AddElement
    <3>3. /\ cache' \subseteq S
          /\ Cardinality(S) <= MaxCache => cache' = S
          /\ Cardinality(S) > MaxCache => Cardinality(cache') = MaxCache
          /\ \A k \in cache', j \in S \ cache' : timestamp[k] >= timestamp[j]
      BY <3>1, KeptBounds
    <3>4. \A j \in Posted : j # i => cachedAt'[j] = cachedAt[j]
      BY <2>2 DEF CacheIntent, IngesterTypeOK
    <3>5. \A j \in Posted : timestamp[j] \in Nat
      BY IngesterNumbers DEF IngesterTypeOK
    <3>6. CASE Cardinality(S) <= MaxCache
      <4>1. cache' = S /\ Cardinality(cache) # MaxCache
        BY <3>1, <3>2, <3>3, <3>6
      <4>2. ASSUME NEW j \in Posted, cachedAt'[j] > 0, j \notin cache' PROVE FALSE
        BY <3>4, <4>1, <4>2 DEF FullInv
      <4> QED
        BY <4>2 DEF FullInv, CacheHoldsTheNewest
    <3>7. CASE Cardinality(S) > MaxCache
      <4>1. Cardinality(cache') = MaxCache /\ Cardinality(cache) = MaxCache
        BY <3>1, <3>2, <3>3, <3>7
      <4>2. ASSUME NEW j \in Posted, cachedAt'[j] > 0, j \notin cache', NEW k \in cache'
            PROVE  timestamp[k] >= timestamp[j]
        <5>1. CASE j \in S
          BY <3>3, <4>2, <5>1
        <5>2. CASE j \notin S
          <6>1. \A m \in cache : timestamp[m] >= timestamp[j]
            BY <3>4, <4>2, <5>2 DEF CacheHoldsTheNewest
          <6>2. CASE k \in cache
            BY <6>1, <6>2
          <6>3. CASE k \notin cache
            <7>1. k = i
              BY <3>3, <4>2, <6>3
            <7>2. PICK m \in cache : m \notin cache'
              <8>1. SUFFICES ASSUME cache \subseteq cache' PROVE FALSE
                OBVIOUS
              <8>2. cache' = S
                BY <3>3, <4>2, <7>1, <8>1
              <8> QED
                BY <3>1, <3>7, <4>1, <8>2
            <7>3. timestamp[k] >= timestamp[m] /\ timestamp[m] >= timestamp[j]
              BY <3>3, <4>2, <6>1, <7>2
            <7>4. k \in Posted /\ m \in Posted
              BY <3>1, <7>1, <7>2
            <7> QED
              BY <3>5, <4>2, <7>3, <7>4
          <6> QED
            BY <6>2, <6>3
        <5> QED
          BY <5>1, <5>2
      <4>3. FullInv'
        BY <4>1 DEF FullInv
      <4>4. CacheHoldsTheNewest'
        BY <2>2, <4>2 DEF CacheHoldsTheNewest
      <4> QED
        BY <4>3, <4>4
    <3> QED
      BY <3>1, <3>2, <3>6, <3>7
  <2>3. UNCHANGED <<timestamp, cache, cachedAt>>
          \/ \E i \in Posted : CacheIntent(i) /\ timestamp' = timestamp
    BY IngesterSteps
    DEF Returns, Skip, RefuseInjection, RefuseRate, RefuseDuplicate, RefuseUnalignable
  <2> QED
    BY <2>1, <2>2, <2>3
<1> QED
  BY <1>1, <1>2, IngesterTyped, PTL DEF IngesterSpec

-------------------------------------------------------------------------------
(* IntentIngester: the author's limit                                      *)

\* A later moment has no more stamps after it.
LEMMA AboveLater ==
    ASSUME NEW times \in Seq(Nat), NEW T \in Int, NEW U \in Int, T <= U
    PROVE  /\ Above(times, T) \in Nat /\ Above(times, U) \in Nat
           /\ Above(times, U) <= Above(times, T)
<1>1. Len(times) \in Nat /\ \A k \in 1..Len(times) : times[k] \in Nat
  OBVIOUS
<1>2. IsFiniteSet(After(times, Len(times), T)) /\ IsFiniteSet(After(times, Len(times), U))
  BY <1>1, AfterIsFinite
<1>3. After(times, Len(times), U) \in SUBSET After(times, Len(times), T)
  BY <1>1 DEF After
<1> QED
  BY <1>2, <1>3, FS_Subset, FS_CardinalityType DEF Above

\* What the types say of the numbers.
LEMMA IngesterCounts ==
    ASSUME IngesterTypeOK
    PROVE  /\ clock \in Nat /\ Hour \in Nat /\ MaxPerAuthor \in Nat /\ clock - Hour \in Int
           /\ cachedAt \in [Posted -> Nat]
           /\ \A a \in Authors : stamps[a] \in Seq(Nat)
           /\ \A i \in Posted : AuthorOf[i] \in Authors
<1>1. clock \in Nat /\ Hour \in Nat /\ MaxPerAuthor \in Nat /\ clock - Hour \in Int
  BY IngesterNumbers DEF IngesterTypeOK
<1>2. cachedAt \in [Posted -> Nat]
  BY IngesterNumbers DEF IngesterTypeOK
<1>3. ASSUME NEW a \in Authors PROVE stamps[a] \in Seq(Nat)
  <2>1. PICK times \in Seq(Time) : times = stamps[a]
    BY DEF IngesterTypeOK
  <2>2. /\ Len(times) \in Nat /\ (\A j \in 1..Len(times) : times[j] \in Nat)
        /\ times = [j \in 1..Len(times) |-> times[j]]
    BY IngesterNumbers
  <2> QED
    BY <2>1, <2>2
<1>4. \A i \in Posted : AuthorOf[i] \in Authors
  BY IngesterNumbers
<1> QED
  BY <1>1, <1>2, <1>3, <1>4

\* The intents of a that were let into the cache after T.
LetIn(a, T) == {i \in Posted : AuthorOf[i] = a /\ cachedAt[i] > T}

\* What the author's list of stamps says of the intents that were let in:
\* each has a stamp of its own as long as it is younger than an hour.
Stamped(a) ==
  \A T \in Nat : T >= clock - Hour => Cardinality(LetIn(a, T)) <= Above(stamps[a], T)

WithinLimit(a) == Above(stamps[a], clock - Hour) <= MaxPerAuthor

StampsInv ==
  /\ \A i \in Posted : cachedAt[i] <= clock
  /\ \A a \in Authors : Stamped(a)
  /\ \A a \in Authors : WithinLimit(a)

\* A step of processIntent that stamps.
LEMMA StampStep ==
    ASSUME IngesterTypeOK, StampsInv, NEW i \in Posted, NEW a \in Authors, clock' = clock,
           ~OverRate(i), RecordStamp(i),
           CacheIntent(i) \/ cachedAt' = cachedAt
    PROVE  Stamped(a)' /\ WithinLimit(a)'
<1>1. /\ clock \in Nat /\ Hour \in Nat /\ MaxPerAuthor \in Nat /\ clock - Hour \in Int
      /\ \A b \in Authors : stamps[b] \in Seq(Nat)
      /\ AuthorOf[i] \in Authors
      /\ cachedAt \in [Posted -> Nat]
  BY IngesterCounts
<1>2. Stamped(a) /\ WithinLimit(a)
  BY DEF StampsInv
<1>3. ASSUME NEW T \in Nat
      PROVE  /\ Cardinality(LetIn(a, T)) \in Nat /\ IsFiniteSet(LetIn(a, T))
             /\ LetIn(a, T)' \in SUBSET Posted /\ Cardinality(LetIn(a, T)') \in Nat
  <2>1. LetIn(a, T) \in SUBSET Posted /\ LetIn(a, T)' \in SUBSET Posted
    BY DEF LetIn
  <2> QED
    BY <2>1, PostedFinite
\* Only i can be new, and only when the clock is past T.
<1>4. ASSUME NEW T \in Nat
      PROVE  /\ ~(clock > T) \/ AuthorOf[i] # a => LetIn(a, T)' \subseteq LetIn(a, T)
             /\ LetIn(a, T)' \subseteq LetIn(a, T) \cup {i}
  <2>1. \A j \in Posted : cachedAt'[j] = cachedAt[j] \/ (j = i /\ cachedAt'[j] = clock)
    BY <1>1 DEF CacheIntent
  <2> QED
    BY <2>1 DEF LetIn
<1>5. CASE a = AuthorOf[i]
  <2>1. PICK old \in Seq(Nat) : old = stamps[a]
    BY <1>1
  <2>2. PICK kept \in Seq(Nat) : kept = Recent(old)
    BY <1>1, <2>1, RecentCounts
  <2>3. /\ Len(kept) = Above(old, clock - Hour)
        /\ \A T \in Int : T >= clock - Hour => Above(kept, T) = Above(old, T)
        /\ Above(old, clock - Hour) \in Nat
    BY <1>1, <2>1, <2>2, RecentCounts, AboveLater
  <2>4. stamps'[a] = Append(kept, clock)
    BY <1>1, <1>5, <2>1, <2>2 DEF RecordStamp, IngesterTypeOK
  <2>5. \A T \in Int : T >= clock - Hour =>
           Above(stamps'[a], T) = IF clock > T THEN Above(old, T) + 1 ELSE Above(old, T)
    BY <1>1, <2>2, <2>3, <2>4, AboveAppended
  <2>6. Len(kept) < MaxPerAuthor
    <3>1. Len(kept) \in Nat
      BY <2>2
    <3> QED
      BY <1>1, <1>5, <2>1, <2>2, <3>1 DEF OverRate
  <2>7. WithinLimit(a)'
    <3>1. Above(stamps'[a], clock - Hour) <= MaxPerAuthor
      <4>1. clock - Hour >= clock - Hour
        BY <1>1
      <4>2. Above(stamps'[a], clock - Hour) \in {Above(old, clock - Hour) + 1, Above(old, clock - Hour)}
        BY <1>1, <2>5, <4>1
      <4> QED
        BY <1>1, <2>3, <2>6, <4>2
    <3> QED
      BY <3>1 DEF WithinLimit
  <2>8. ASSUME NEW T \in Nat, T >= clock - Hour
        PROVE  Cardinality(LetIn(a, T)') <= Above(stamps'[a], T)
    <3>1. Cardinality(LetIn(a, T)) <= Above(old, T) /\ T \in Int /\ Above(old, T) \in Nat
      BY <1>2, <2>1, <2>8, AboveLater DEF Stamped
    <3>2. CASE clock > T
      <4>1. /\ IsFiniteSet(LetIn(a, T) \cup {i})
            /\ Cardinality(LetIn(a, T) \cup {i}) <= Cardinality(LetIn(a, T)) + 1
        <5>1. PICK A : A = LetIn(a, T)
          OBVIOUS
        <5>2. IsFiniteSet(A) /\ Cardinality(A) \in Nat
          BY <1>3, <5>1
        <5>3. /\ IsFiniteSet(A \cup {i})
              /\ Cardinality(A \cup {i}) = IF i \in A THEN Cardinality(A) ELSE Cardinality(A) + 1
          BY <5>2, FS_AddElement
        <5>4. Cardinality(A \cup {i}) <= Cardinality(A) + 1
          BY <5>2, <5>3
        <5> QED
          BY <5>1, <5>3, <5>4
      <4>2. LetIn(a, T)' \in SUBSET (LetIn(a, T) \cup {i})
        BY <1>4
      <4>3. Cardinality(LetIn(a, T)') <= Cardinality(LetIn(a, T) \cup {i})
        BY <4>1, <4>2, FS_Subset
      <4>4. Cardinality(LetIn(a, T) \cup {i}) \in Nat
        BY <4>1, FS_CardinalityType
      <4>5. Above(stamps'[a], T) = Above(old, T) + 1
        BY <2>5, <2>8, <3>1, <3>2
      <4> QED
        BY <1>3, <3>1, <4>1, <4>3, <4>4, <4>5
    <3>3. CASE ~(clock > T)
      <4>1. LetIn(a, T)' \in SUBSET LetIn(a, T)
        BY <1>4, <3>3
      <4>2. Cardinality(LetIn(a, T)') <= Cardinality(LetIn(a, T))
        BY <1>3, <4>1, FS_Subset
      <4>3. Above(stamps'[a], T) = Above(old, T)
        BY <2>5, <2>8, <3>1, <3>3
      <4> QED
        BY <1>3, <3>1, <4>2, <4>3
    <3> QED
      BY <3>2, <3>3
  <2> QED
    BY <2>7, <2>8 DEF Stamped
<1>6. CASE a # AuthorOf[i]
  <2>1. stamps'[a] = stamps[a]
    BY <1>6 DEF RecordStamp, IngesterTypeOK
  <2>2. WithinLimit(a)'
    BY <1>2, <2>1 DEF WithinLimit
  <2>3. ASSUME NEW T \in Nat, T >= clock - Hour
        PROVE  Cardinality(LetIn(a, T)') <= Above(stamps'[a], T)
    <3>1. LetIn(a, T)' \in SUBSET LetIn(a, T)
      BY <1>4, <1>6
    <3>2. Cardinality(LetIn(a, T)') <= Cardinality(LetIn(a, T))
      BY <1>3, <3>1, FS_Subset
    <3>3. Cardinality(LetIn(a, T)) <= Above(stamps[a], T) /\ Above(stamps[a], T) \in Nat
      BY <1>1, <1>2, <2>3, AboveLater DEF Stamped
    <3> QED
      BY <1>3, <2>1, <3>2, <3>3
  <2> QED
    BY <2>2, <2>3 DEF Stamped
<1> QED
  BY <1>5, <1>6

\* Every step keeps the stamps ahead of the intents let in, and below the limit.
LEMMA StampsKept == IngesterSpec => [](IngesterTypeOK /\ StampsInv)
<1>1. IngesterInit => StampsInv
  <2> SUFFICES ASSUME IngesterInit PROVE StampsInv
    OBVIOUS
  <2>1. \A T : Above(<< >>, T) = 0
    <3>1. \A T : After(<< >>, 0, T) = {}
      BY DEF After
    <3> QED
      BY <3>1, FS_EmptySet DEF Above
  <2>2. ASSUME NEW a \in Authors PROVE Stamped(a) /\ WithinLimit(a)
    <3>1. stamps[a] = << >>
      BY <2>2 DEF IngesterInit
    <3>2. \A T \in Nat : LetIn(a, T) = {}
      BY DEF LetIn, IngesterInit
    <3> QED
      <4>1. \A T : Above(stamps[a], T) = 0
        BY <2>1, <3>1
      <4>2. \A T \in Nat : Cardinality(LetIn(a, T)) = 0
        BY <3>2, FS_EmptySet
      <4>3. Stamped(a)
        BY <4>1, <4>2 DEF Stamped
      <4>4. WithinLimit(a)
        <5>1. 0 <= MaxPerAuthor
          BY IngesterNumbers
        <5> QED
          BY <4>1, <5>1 DEF WithinLimit
      <4> QED
        BY <4>3, <4>4
  <2> QED
    BY <2>2 DEF StampsInv, IngesterInit
<1>2. IngesterTypeOK /\ StampsInv /\ [IngesterNext]_ingesterVars => StampsInv'
  <2> SUFFICES ASSUME IngesterTypeOK, StampsInv, [IngesterNext]_ingesterVars PROVE StampsInv'
    OBVIOUS
  <2>0. /\ clock \in Nat /\ Hour \in Nat /\ cachedAt \in [Posted -> Nat] /\ MaxPerAuthor \in Nat
        /\ \A a \in Authors : stamps[a] \in Seq(Nat)
    BY IngesterCounts
  <2>1. ASSUME UNCHANGED <<seen, stamps, cachedAt>>, clock' = clock \/ clock' = clock + 1
        PROVE  StampsInv'
    <3>1. clock' \in Nat /\ clock' >= clock /\ clock' - Hour >= clock - Hour
          /\ clock' - Hour \in Int /\ clock - Hour \in Int
      BY <2>0, <2>1
    <3>2. ASSUME NEW a \in Authors PROVE Stamped(a)' /\ WithinLimit(a)'
      <4>1. Stamped(a) /\ WithinLimit(a)
        BY DEF StampsInv
      <4>2. \A T \in Nat : T >= clock' - Hour => T >= clock - Hour
        <5> SUFFICES ASSUME NEW T \in Nat, T >= clock' - Hour PROVE T >= clock - Hour
          OBVIOUS
        <5> QED
          BY <3>1
      <4>3. \A T : LetIn(a, T)' = LetIn(a, T)
        BY <2>1 DEF LetIn
      <4>4. Stamped(a)'
        BY <2>1, <4>1, <4>2, <4>3 DEF Stamped
      <4>5. /\ Above(stamps[a], clock' - Hour) <= Above(stamps[a], clock - Hour)
            /\ Above(stamps[a], clock' - Hour) \in Nat /\ Above(stamps[a], clock - Hour) \in Nat
        BY <2>0, <3>1, AboveLater
      <4>6. Above(stamps[a], clock' - Hour) <= MaxPerAuthor
        BY <2>0, <4>1, <4>5 DEF WithinLimit
      <4>7. WithinLimit(a)'
        BY <2>1, <4>6 DEF WithinLimit
      <4> QED
        BY <4>4, <4>7
    <3>3. ASSUME NEW j \in Posted PROVE (cachedAt[j] <= clock)'
      BY <2>0, <2>1, <3>1 DEF StampsInv
    <3> QED
      BY <3>2, <3>3 DEF StampsInv
  <2>2. ASSUME NEW i \in Posted, ~OverRate(i), RecordStamp(i), clock' = clock,
               CacheIntent(i) \/ cachedAt' = cachedAt
        PROVE  StampsInv'
    <3>1. ASSUME NEW j \in Posted PROVE (cachedAt[j] <= clock)'
      <4>1. cachedAt'[j] = cachedAt[j] \/ cachedAt'[j] = clock
        BY <2>0, <2>2 DEF CacheIntent
      <4> QED
        BY <2>0, <2>2, <4>1 DEF StampsInv
    <3>2. \A a \in Authors : Stamped(a)' /\ WithinLimit(a)'
      BY <2>2, StampStep
    <3> QED
      BY <3>1, <3>2 DEF StampsInv
  <2>3. \/ UNCHANGED <<seen, stamps, cachedAt>> /\ (clock' = clock \/ clock' = clock + 1)
        \/ \E i \in Posted : /\ ~OverRate(i) /\ RecordStamp(i) /\ clock' = clock
                             /\ CacheIntent(i) \/ cachedAt' = cachedAt
    BY IngesterSteps
    DEF Returns, Skip, RefuseInjection, RefuseRate, RefuseDuplicate, RefuseUnalignable,
        CacheIntent, Accepted, filters
  <2> QED
    BY <2>1, <2>2, <2>3
<1> QED
  BY <1>1, <1>2, IngesterTyped, PTL DEF IngesterSpec

\* In no window of an hour are more than MaxPerAuthor intents of one author
\* let into the cache by processIntent, whatever the polls in flight fetched.
THEOREM AuthorIsLimitedAlways == IngesterSpec => []AuthorIsLimited
<1>1. IngesterTypeOK /\ StampsInv => AuthorIsLimited
  <2> SUFFICES ASSUME IngesterTypeOK, StampsInv, NEW a \in Authors
               PROVE  Cardinality({i \in Posted : /\ AuthorOf[i] = a
                                                  /\ cachedAt[i] > 0
                                                  /\ cachedAt[i] > clock - Hour}) <= MaxPerAuthor
    BY DEF AuthorIsLimited
  <2>1. /\ clock \in Nat /\ Hour \in Nat /\ MaxPerAuthor \in Nat
        /\ \A i \in Posted : cachedAt[i] \in Nat
    BY IngesterNumbers DEF IngesterTypeOK
  <2>2. stamps[a] \in Seq(Nat)
    BY IngesterCounts
  <2>3. PICK T \in Nat : T = IF clock >= Hour THEN clock - Hour ELSE 0
    BY <2>1
  <2>4. {i \in Posted : AuthorOf[i] = a /\ cachedAt[i] > 0 /\ cachedAt[i] > clock - Hour}
          = LetIn(a, T)
    BY <2>1, <2>3 DEF LetIn
  <2>5. Cardinality(LetIn(a, T)) <= Above(stamps[a], T) /\ T \in Int /\ clock - Hour \in Int
        /\ clock - Hour <= T
    BY <2>1, <2>3 DEF StampsInv, Stamped
  <2>6. /\ Above(stamps[a], T) \in Nat /\ Above(stamps[a], clock - Hour) \in Nat
        /\ Above(stamps[a], T) <= Above(stamps[a], clock - Hour)
    BY <2>2, <2>5, AboveLater
  <2>7. Above(stamps[a], clock - Hour) <= MaxPerAuthor
    BY DEF StampsInv, WithinLimit
  <2>8. Cardinality(LetIn(a, T)) \in Nat
    <3>1. LetIn(a, T) \in SUBSET Posted
      BY DEF LetIn
    <3> QED
      BY <3>1, PostedFinite
  <2> QED
    BY <2>1, <2>4, <2>5, <2>6, <2>7, <2>8
<1> QED
  BY <1>1, StampsKept, PTL

=============================================================================
