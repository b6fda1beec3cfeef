--------------------------- MODULE VectorDatabase ---------------------------
(***************************************************************************)
(* mapping/VectorDatabase.ts: an HNSW index of vectors under numeric ids,  *)
(* a map from the same ids to intents, and the two files they are kept in. *)
(* A vector is named by the intent it embeds.  The actions are steps of    *)
(* the database alone; AlignmentCycle.tla composes them with the cycles    *)
(* that call it.                                                           *)
(*                                                                         *)
(* readIndex and writeIndex of hnswlib-node return promises nobody awaits  *)
(* (lines 33 and 217): the index is loaded while the node runs, and it is  *)
(* written while the map is written and the node shuts down.               *)
(***************************************************************************)
EXTENDS Integers, FiniteSets, FiniteSetsExt

CONSTANTS
  Intents,
  None,         \* no intent under an id
  Absent,       \* a file that does not exist
  Torn,         \* a file whose writing was cut off
  Capacity,     \* maxElements of the index
  MaxId         \* bound of the ids

ASSUME CapacityAssumption == Capacity \in Nat /\ MaxId \in Nat
ASSUME NoneAssumption == None \notin Intents

VARIABLES
  mode,        \* the process: "down", "up", "saving", "saved" or "failed"
  loading,     \* readIndex has not settled yet
  index,       \* id -> the intent whose vector it is
  intentMap,
  nextId,
  writing,     \* writeIndex has not settled yet
  indexFile,   \* index.bin
  mapFile      \* intent-map.json

memory == <<loading, index, intentMap, nextId, writing>>
files == <<indexFile, mapFile>>
dbVars == <<mode, memory, files>>

Ids == 0..MaxId
Table == [Ids -> Intents \union {None}]
Empty == [id \in Ids |-> None]
Keys(t) == {id \in Ids : t[id] # None}

\* A file that is not there, or torn, does not read as a map.
ASSUME FilesAssumption ==
  Absent \notin Table /\ Torn \notin Table /\ Absent # Torn

DbTypeOK ==
  /\ mode \in {"down", "up", "saving", "saved", "failed"}
  /\ loading \in BOOLEAN
  /\ index \in Table /\ Cardinality(Keys(index)) <= Capacity
  /\ intentMap \in Table
  /\ nextId \in 0..(MaxId + 1)
  /\ writing \in BOOLEAN
  /\ indexFile \in Table \union {Absent, Torn}
  /\ mapFile \in Table \union {Absent, Torn}

DbInit ==
  /\ mode = "down"
  /\ loading = FALSE
  /\ index = Empty
  /\ intentMap = Empty
  /\ nextId = 0
  /\ writing = FALSE
  /\ indexFile = Absent
  /\ mapFile = Absent

-----------------------------------------------------------------------------
(* initialize                                                              *)

\* Mutant: the largest id of the map is given out again.
LastId(t) == Max(Keys(t) \union {0})

\* The first id that is not in the map that was read.
NextId(t) == Max(Keys(t) \union {0}) + 1

\* No index file: a new index, and the map file is not looked at.
CreateIndex ==
  /\ indexFile = Absent
  /\ loading' = FALSE
  /\ intentMap' = Empty
  /\ nextId' = 0

\* An index file: its loading is started.  A map that is absent or cannot be
\* parsed leaves the map empty and the ids at 0.
LoadIndex ==
  /\ indexFile # Absent
  /\ loading' = TRUE
  /\ IF mapFile \in {Absent, Torn}
     THEN intentMap' = Empty /\ nextId' = 0
     ELSE intentMap' = mapFile /\ nextId' = NextId(mapFile)

Initialize ==
  /\ mode \in {"down", "failed"}
  /\ CreateIndex \/ LoadIndex
  /\ mode' = "up"
  /\ index' = Empty
  /\ UNCHANGED <<writing, files>>

IndexLoaded ==
  /\ mode \in {"up", "saved"} /\ loading
  /\ indexFile \in Table
  /\ index' = indexFile
  /\ loading' = FALSE
  /\ UNCHANGED <<mode, intentMap, nextId, writing, files>>

\* The promise is rejected, nobody handles it, and the handler of cli.ts:10
\* ends the process.
IndexUnreadable ==
  /\ mode \in {"up", "saved"} /\ loading
  /\ indexFile = Torn
  /\ mode' = "failed"
  /\ UNCHANGED <<memory, files>>

-----------------------------------------------------------------------------
(* addIntent and findSimilarIntents                                        *)

\* Whether addPoint takes a point with label id: not before the index is
\* loaded, and a new label only while there is room.
AddsPoint(id) ==
  ~loading /\ (index[id] # None \/ Cardinality(Keys(index)) < Capacity)

\* Mutant: the map is written before the index has taken the point.
AddIntentMapFirst(i) ==
  /\ nextId \in Ids
  /\ nextId' = nextId + 1
  /\ index' = IF AddsPoint(nextId) THEN [index EXCEPT ![nextId] = i] ELSE index
  /\ intentMap' = [intentMap EXCEPT ![nextId] = i]
  /\ UNCHANGED <<mode, loading, writing, files>>

\* The id is used up even if addPoint throws.  A label that is in the index
\* already gets the new vector.
AddIntent(i) ==
  /\ nextId \in Ids
  /\ nextId' = nextId + 1
  /\ IF AddsPoint(nextId)
     THEN /\ index' = [index EXCEPT ![nextId] = i]
          /\ intentMap' = [intentMap EXCEPT ![nextId] = i]
     ELSE UNCHANGED <<index, intentMap>>
  /\ UNCHANGED <<mode, loading, writing, files>>

\* The ids a search for i may return: the map has an intent for them, another
\* one than i.  How near their vectors are is abstracted.
Similar(i) == {id \in Keys(index) : intentMap[id] \notin {None, i}}

-----------------------------------------------------------------------------
(* save, and the end of the process                                        *)

\* writeIndex starts in another thread; the map is written by this one.
BeginSave ==
  /\ mode = "up"
  /\ mode' = "saving"
  /\ writing' = ~loading
  /\ UNCHANGED <<loading, index, intentMap, nextId, files>>

WriteMap ==
  /\ mode = "saving"
  /\ mode' = "saved"
  /\ mapFile' = intentMap
  /\ UNCHANGED <<memory, indexFile>>

WriteIndex ==
  /\ writing
  /\ indexFile' = index
  /\ writing' = FALSE
  /\ UNCHANGED <<mode, loading, index, intentMap, nextId, mapFile>>

Forget ==
  /\ mode' = "down"
  /\ loading' = FALSE
  /\ index' = Empty
  /\ intentMap' = Empty
  /\ nextId' = 0
  /\ writing' = FALSE

\* The process is killed while no file is being written, or it exits after
\* a save.
End ==
  /\ mode \in {"up", "saved"} /\ ~writing
  /\ Forget
  /\ UNCHANGED files

\* It is killed in the middle of a save: each of the two files that is not
\* finished is as it was, or torn, or whole.
EndInSave ==
  /\ mode = "saving" \/ writing
  /\ Forget
  /\ mapFile' \in IF mode = "saving" THEN {mapFile, Torn, intentMap}
                  ELSE {mapFile}
  /\ indexFile' \in IF writing THEN {indexFile, Torn, index} ELSE {indexFile}

=============================================================================
