------------------------------- MODULE Corpus -------------------------------
(***************************************************************************)
(* From the chunks of the filings to the index that is served: scripts     *)
(* write chunk files, build an embedding generation of them, promote it to *)
(* the active corpus, rebuild the local collection and publish its         *)
(* manifest, copy the collection to the cloud, and a server or a Phase-1   *)
(* run loads what it serves.  Any script can be killed between two of its  *)
(* steps, and scripts of different operators overlap; the local collection *)
(* alone has one user at a time (the lock of the embedded Qdrant client).  *)
(*                                                                         *)
(* A chunk is <<file, part, version>>; its id is <<file, part>>, and two   *)
(* versions of an id differ in their text.  A fingerprint of chunks stands *)
(* for the set of chunks, and an embedding for the text it was made from.  *)
(***************************************************************************)
EXTENDS Naturals, FiniteSets

CONSTANTS Files, Versions, Generations,
          MaxEdits,       \* rewritten chunk files
          MaxKills        \* processes killed and calls to the store that fail

ASSUME CorpusAssumption == IsFiniteSet(Files)

VARIABLES
  source,     \* [Files -> chunks]: <accession>_chunks.jsonl
  gens,       \* [Generations -> its directory: made, files, manifest]
  active,     \* [Files -> chunks]: <accession>_chunks_embedded.jsonl, {} when absent
  index,      \* the published index manifest: the corpus it names, or None
  dense,      \* the local collection: its points, or None
  cloud,      \* the cloud collection: its points, or None
  builder, promoter, indexer, migrator, server,
  edits, kills
corpusVars == <<source, gens, active, index, dense, cloud, builder, promoter,
                indexer, migrator, server, edits, kills>>

Text == 1
Table == 2
None == {<< >>}     \* no manifest, no collection
Id(c) == <<c[1], c[2]>>
Corpus(files) == UNION {files[f] : f \in Files}
NonEmpty(files) == {f \in Files : files[f] # {}}
Empty == [f \in Files |-> {}]
(* Files, and the batches of a collection, are taken in order.             *)
FirstFile(S) == CHOOSE f \in S : \A h \in S : f <= h
FirstPoint(c, S) == c \in S /\ \A d \in S : 10 * c[1] + c[2] <= 10 * d[1] + d[2]
Idle == [at |-> "idle", of |-> None, rest |-> {}]
Off == [mode |-> "off", loaded |-> {}]
(* Writing a point replaces the point of its id.                           *)
Upsert(points, batch) == {p \in points : \A c \in batch : Id(p) # Id(c)} \cup batch
LocalIsFree == indexer.at \in {"idle", "loaded"} /\ migrator.at = "idle" /\ server.mode # "local"

(***************************************************************************)
(* Chunk files.                                                            *)
(***************************************************************************)
Edited == edits < MaxEdits /\ edits' = edits + 1
          /\ UNCHANGED <<gens, active, index, dense, cloud, builder, promoter,
                         indexer, migrator, server, kills>>
(* A filing is chunked again: the file is replaced, tables and all; a      *)
(* filing without a valid section leaves an empty file.                    *)
ChunkFiling == \E f \in Files, v \in Versions, n \in BOOLEAN :
  LET s == IF n THEN {} ELSE {<<f, Text, v>>}
  IN  s # source[f] /\ source' = [source EXCEPT ![f] = s] /\ Edited
RemoveTables == \E f \in Files :
  /\ \E c \in source[f] : c[2] = Table
  /\ source' = [source EXCEPT ![f] = {c \in @ : c[2] # Table}]
  /\ Edited
(* A table whose id is there already is skipped, whatever its text.        *)
AddTables == \E f \in Files, v \in Versions :
  /\ <<f, Table>> \notin {Id(c) : c \in source[f]}
  /\ source' = [source EXCEPT ![f] = @ \cup {<<f, Table, v>>}]
  /\ Edited

(***************************************************************************)
(* Embedding generations.                                                  *)
(***************************************************************************)
NoManifest == [corpus |-> None, names |-> {}]
Absent == [made |-> FALSE, files |-> Empty, manifest |-> NoManifest]
ManifestOf(files) == [corpus |-> Corpus(files), names |-> NonEmpty(files)]
(* mkdir(exist_ok=False): an id is used once.                              *)
Available(g) == ~gens[g].made
(* All chunk files are read at the start; vectors of another generation    *)
(* are reused for equal chunks only, so that they change no content.       *)
BuildStart == \E g \in Generations :
  /\ builder.at = "idle" /\ Available(g)
  /\ NonEmpty(source) # {}
  /\ gens' = [gens EXCEPT ![g] = IF @.made THEN @ ELSE [Absent EXCEPT !.made = TRUE]]
  /\ builder' = [at |-> "writing", of |-> g, rest |-> NonEmpty(source), read |-> source]
  /\ UNCHANGED <<source, active, index, dense, cloud, promoter, indexer, migrator,
                 server, edits, kills>>
BuildFile ==
  /\ builder.at = "writing" /\ builder.rest # {}
  /\ LET f == FirstFile(builder.rest)
     IN  /\ gens' = [gens EXCEPT ![builder.of].files[f] = builder.read[f]]
         /\ builder' = [builder EXCEPT !.rest = @ \ {f}]
  /\ UNCHANGED <<source, active, index, dense, cloud, promoter, indexer, migrator,
                 server, edits, kills>>
(* The manifest is made from the files on disk and published last; a       *)
(* source that became empty, or was, since the start stops the build.      *)
BuildPublish ==
  /\ builder.at = "writing" /\ builder.rest = {}
  /\ LET files == gens[builder.of].files
     IN  gens' = IF NonEmpty(files) = NonEmpty(source)
                 THEN [gens EXCEPT ![builder.of].manifest = ManifestOf(files)] ELSE gens
  /\ builder' = Idle
  /\ UNCHANGED <<source, active, index, dense, cloud, promoter, indexer, migrator,
                 server, edits, kills>>

Verified(g) ==
  /\ gens[g].manifest # NoManifest
  /\ gens[g].manifest = ManifestOf(gens[g].files)
  /\ NonEmpty(gens[g].files) = NonEmpty(source)
BoundToSource(g) == Corpus(source) = gens[g].manifest.corpus
BoundToActive(g) == Corpus(active) = gens[g].manifest.corpus

(***************************************************************************)
(* Promotion: one file after the other, each replaced atomically.          *)
(***************************************************************************)
PromoteStart == \E g \in Generations :
  /\ promoter.at = "idle" /\ Verified(g) /\ BoundToSource(g)
  /\ promoter' = [at |-> "copying", of |-> g, rest |-> gens[g].manifest.names]
  /\ UNCHANGED <<source, gens, active, index, dense, cloud, builder, indexer, migrator,
                 server, edits, kills>>
PromoteFile ==
  /\ promoter.at = "copying" /\ promoter.rest # {}
  /\ LET f == FirstFile(promoter.rest)
     IN  /\ active' = [active EXCEPT ![f] = gens[promoter.of].files[f]]
         /\ promoter' = [promoter EXCEPT !.rest = @ \ {f}]
  /\ UNCHANGED <<source, gens, index, dense, cloud, builder, indexer, migrator, server, edits, kills>>
(* The check of the active corpus reports a file that another generation   *)
(* left behind; it does not take anything back.                            *)
PromoteEnd ==
  /\ promoter.at = "copying" /\ promoter.rest = {} /\ promoter' = Idle
  /\ UNCHANGED <<source, gens, active, index, dense, cloud, builder, indexer, migrator,
                 server, edits, kills>>

(***************************************************************************)
(* The local index.                                                        *)
(***************************************************************************)
IndexUnchanged == UNCHANGED <<source, gens, active, cloud, builder, promoter, migrator,
                              server, edits, kills>>
IndexLoad == \E g \in Generations :
  /\ indexer.at = "idle" /\ Verified(g) /\ BoundToSource(g) /\ BoundToActive(g)
  /\ indexer' = [at |-> "loaded", of |-> Corpus(gens[g].files), rest |-> {}]
  /\ UNCHANGED <<index, dense>> /\ IndexUnchanged
(* The old manifest goes before the collection is touched.                 *)
\* Mutant: the manifest is only replaced at the end.
InvalidateLate == index
Invalidate == None
IndexOpen ==
  /\ indexer.at = "loaded" /\ LocalIsFree
  /\ index' = Invalidate
  /\ indexer' = [indexer EXCEPT !.at = "deleting"]
  /\ UNCHANGED dense /\ IndexUnchanged
IndexDelete ==
  /\ indexer.at = "deleting" /\ dense' = None
  /\ indexer' = [indexer EXCEPT !.at = "creating"]
  /\ UNCHANGED index /\ IndexUnchanged
IndexCreate ==
  /\ indexer.at = "creating" /\ dense' = {}
  /\ indexer' = [indexer EXCEPT !.at = "upserting", !.rest = indexer.of]
  /\ UNCHANGED index /\ IndexUnchanged
IndexUpsert ==
  /\ indexer.at = "upserting"
  /\ \E c \in indexer.rest :
       /\ FirstPoint(c, indexer.rest)
       /\ dense' = Upsert(dense, {c})
       /\ indexer' = [indexer EXCEPT !.rest = @ \ {c}]
  /\ UNCHANGED index /\ IndexUnchanged
IndexPublish ==
  /\ indexer.at = "upserting" /\ indexer.rest = {}
  /\ index' = IF Cardinality(dense) = Cardinality(indexer.of) THEN indexer.of ELSE None
  /\ indexer' = Idle
  /\ UNCHANGED dense /\ IndexUnchanged
(* An exception of the store: the manifest is removed.                     *)
IndexFail ==
  /\ indexer.at \in {"deleting", "creating", "upserting"} /\ kills < MaxKills
  /\ index' = None /\ indexer' = Idle /\ kills' = kills + 1
  /\ UNCHANGED <<source, gens, active, dense, cloud, builder, promoter, migrator, server, edits>>

(***************************************************************************)
(* The cloud collection.                                                   *)
(***************************************************************************)
MigrateUnchanged == UNCHANGED <<source, gens, active, index, dense, builder, promoter,
                                indexer, server, edits, kills>>
MigrateStart == \E recreate \in BOOLEAN :
  /\ LocalIsFree /\ dense # None
  /\ cloud' = IF recreate \/ cloud = None THEN {} ELSE cloud
  /\ migrator' = [at |-> "copying", of |-> dense, rest |-> dense]
  /\ MigrateUnchanged
MigrateBatch ==
  /\ migrator.at = "copying"
  /\ \E c \in migrator.rest :
       /\ FirstPoint(c, migrator.rest)
       /\ cloud' = Upsert(cloud, {c})
       /\ migrator' = [migrator EXCEPT !.rest = @ \ {c}]
  /\ MigrateUnchanged
(* done is the report of success: the counts are equal.                    *)
CountsAgree == Cardinality(cloud) = Cardinality(migrator.of)
MigrateEnd ==
  /\ migrator.at = "copying" /\ migrator.rest = {}
  /\ migrator' = IF CountsAgree THEN [migrator EXCEPT !.at = "done"] ELSE Idle
  /\ UNCHANGED cloud /\ MigrateUnchanged
MigrateExit == migrator.at = "done" /\ migrator' = Idle /\ UNCHANGED cloud /\ MigrateUnchanged

(***************************************************************************)
(* What is served.                                                         *)
(***************************************************************************)
ServeUnchanged == UNCHANGED <<source, gens, active, index, dense, cloud, builder, promoter,
                              indexer, migrator, edits, kills>>
(* The server loads its chunks once, from the files or from the cloud, and *)
(* keeps them until it stops; a Phase-1 run does the same with the files,  *)
(* and records the fingerprints of its chunks and of the manifest without  *)
(* comparing them.                                                         *)
ServeLocal == /\ server.mode = "off" /\ LocalIsFree /\ Corpus(active) # {}
              /\ server' = [mode |-> "local", loaded |-> Corpus(active)]
              /\ ServeUnchanged
ServeCloud == /\ server.mode = "off" /\ cloud \notin {None, {}}
              /\ kills = MaxKills     \* bound: a cloud server starts when no more can be killed
              /\ server' = [mode |-> "cloud", loaded |-> cloud]
              /\ ServeUnchanged
ServeStop == server.mode # "off" /\ server' = Off /\ ServeUnchanged
(* A process is killed: what it wrote stays.                               *)
Kill ==
  /\ kills < MaxKills /\ kills' = kills + 1
  /\ \/ builder.at # "idle" /\ builder' = Idle /\ UNCHANGED <<promoter, indexer, migrator>>
     \/ promoter.at # "idle" /\ promoter' = Idle /\ UNCHANGED <<builder, indexer, migrator>>
     \/ indexer.at # "idle" /\ indexer' = Idle /\ UNCHANGED <<builder, promoter, migrator>>
     \/ migrator.at # "idle" /\ migrator' = Idle /\ UNCHANGED <<builder, promoter, indexer>>
  /\ UNCHANGED <<source, gens, active, index, dense, cloud, server, edits>>

CorpusInit ==
  /\ \E t \in SUBSET {<<1, Table, 1>>} :
       source = [f \in Files |-> IF f = 1 THEN {<<f, Text, 1>>} \cup t ELSE {<<f, Text, 1>>}]
  /\ gens = [g \in Generations |-> Absent] /\ active = Empty
  /\ index = None /\ dense = None /\ cloud = None
  /\ builder = Idle /\ promoter = Idle /\ indexer = Idle /\ migrator = Idle
  /\ server = Off /\ edits = 0 /\ kills = 0
CorpusNext ==
  \/ ChunkFiling \/ RemoveTables \/ AddTables
  \/ BuildStart \/ BuildFile \/ BuildPublish
  \/ PromoteStart \/ PromoteFile \/ PromoteEnd
  \/ IndexLoad \/ IndexOpen \/ IndexDelete \/ IndexCreate \/ IndexUpsert \/ IndexPublish \/ IndexFail
  \/ MigrateStart \/ MigrateBatch \/ MigrateEnd \/ MigrateExit
  \/ ServeLocal \/ ServeCloud \/ ServeStop \/ Kill
CorpusSpec == CorpusInit /\ [][CorpusNext]_corpusVars

(***************************************************************************)
(* _index_provenance: what the registry says of the loaded chunks.         *)
(***************************************************************************)
Consistent(loaded, manifest) ==
  manifest # None /\ Cardinality(manifest) = Cardinality(loaded) /\ manifest = loaded

(* A published index manifest names exactly the points of the collection,  *)
(* through every kill, failure and overlap of a rebuild (index_chunks.py,  *)
(* rebuild_index_with_manifest: "a partial build can never retain stale    *)
(* trusted provenance").                                                   *)
ManifestIsTrue == index # None => dense = index

(* A generation whose manifest is published is complete and immutable: its *)
(* files are those of the manifest, whatever runs after it                 *)
(* (embedding_generation.py, build_embedding_generation).                  *)
GenerationsAreWhole ==
  \A g \in Generations :
    gens[g].manifest # NoManifest => gens[g].manifest = ManifestOf(gens[g].files)

(* When the registry calls the index of a local server consistent, or the  *)
(* manifest that a Phase-1 artifact records is that of its corpus, the     *)
(* vectors that are searched are those of the chunks that were loaded      *)
(* (registry.py, _index_provenance; retrieval_artifact.py).                *)
ConsistentIsTrue ==
  server.mode = "local" /\ Consistent(server.loaded, index) => dense = server.loaded

(* A migration that reports success has left exactly the local points in   *)
(* the cloud, also when it ran over what an earlier one had left there     *)
(* (migrate_to_qdrant_cloud.py).                                           *)
MigratedIsExact == migrator.at = "done" => cloud = dense

(* What scripts that are killed and overlap leave behind can be trusted: a *)
(* manifest names the collection, a generation is whole, a provenance that *)
(* is called consistent is, and a finished migration is exact.             *)
CorpusIsSound == ManifestIsTrue /\ GenerationsAreWhole /\ ConsistentIsTrue /\ MigratedIsExact
=============================================================================
