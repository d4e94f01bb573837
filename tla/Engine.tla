------------------------------- MODULE Engine -------------------------------
(***************************************************************************)
(* One engine process: Vector_Server's commands over a File_manager (the   *)
(* files, FileManager) and a Vector_store (RAM, VectorStore).  A command   *)
(* holds store_mutex_ from its first to its last access to either, so      *)
(* commands do not interleave; they are still not one step, because a kill *)
(* can fall between the writes of a command and leaves RAM and disk apart. *)
(*                                                                         *)
(* A document v has one embedding, EmbeddingOf[v]: parsing and             *)
(* normalisation happen before the first step.  The replies are not        *)
(* modelled here.                                                          *)
(***************************************************************************)
EXTENDS FileManager

CONSTANTS
    Space, Embedding, Origin, Dist,              \* as in VectorStore
    MaxVectors, MaxCentroids, MaxSample, NProbe, \* as in VectorStore
    EmbeddingOf                                  \* the embedding of a document

ASSUME EngineAssumption ==
    /\ EmbeddingOf \in [Val -> Embedding]
    /\ Embedding \subseteq Space
    /\ Origin \in Space
    /\ Dist \in [Space \X Space -> Nat]
    /\ MaxVectors \in Nat
    /\ {MaxCentroids, MaxSample, NProbe} \subseteq Nat \ {0}

VARIABLES
    serving,        \* run() has reached its accept loop
    command,        \* what the thread that holds store_mutex_ is doing
    stale,          \* a compaction has moved the texts since RAM was filled
    apart,          \* ids whose INSERT or DELETE failed half way, so that RAM
                    \* and disk may differ on them
    count, ids, embeddings, text_refs, metadata,            \* as in VectorStore
    centroid_count, centroids, lists, last_build_at, index_file

TextRefs == [off : 0 .. MaxCells, len : 0 .. MaxCells]

Store == INSTANCE VectorStore WITH
             up <- serving,
             TextRef <- TextRefs,
             Row <- [id : Id, embedding : Embedding, text : TextRefs]

rows == <<count, ids, embeddings, text_refs, metadata>>
topology == <<centroid_count, centroids, lists, last_build_at>>
files == <<status, disk, ram>>
engine_vars == <<files, serving, command, stale, apart, rows, topology, index_file>>

RefOf(rec) == [off |-> rec.off, len |-> rec.len]

\* entry_to_vector of each of the records rs.
RowsOf(rs) ==
    [i \in 0 .. Len(rs) - 1 |->
        [id |-> rs[i + 1].id, embedding |-> EmbeddingOf[rs[i + 1].val], text |-> RefOf(rs[i + 1])]]

\* What a loop of read_entry delivers: nothing when the streams are closed.
Loaded == IF is_open THEN ReadAll(header, entry_file.recs, AllText) ELSE <<>>

\* The ids that it delivers more than once.
Doubled == {id \in Id : \E k, l \in 1 .. Len(Loaded) :
               k # l /\ Loaded[k].id = id /\ Loaded[l].id = id}

Free == serving /\ command = "none"

-----------------------------------------------------------------------------
(* INSERT: id_exists, write_entry, make_entry.                             *)

\* Mutant: no id_exists before write_entry.
InsertText_unchecked(id, v) ==
    /\ Free
    /\ count < MaxVectors
    /\ WriteText(id, v)
    /\ command' = "insert"
    /\ UNCHANGED <<serving, stale, apart, rows, topology, index_file>>

InsertText(id, v) ==
    /\ Free
    /\ count < MaxVectors
    /\ ~Store!id_exists(id)
    /\ WriteText(id, v)
    /\ command' = "insert"
    /\ UNCHANGED <<serving, stale, apart, rows, topology, index_file>>

InsertRecord ==
    /\ WriteRecord
    /\ UNCHANGED <<serving, command, stale, apart, rows, topology, index_file>>

InsertDone ==
    /\ WriteHeader
    /\ Store!make_entry(step.rec.id, EmbeddingOf[step.rec.val], RefOf(step.rec))
    /\ command' = "none"
    /\ UNCHANGED <<serving, stale, apart, centroid_count, centroids, last_build_at, index_file>>

\* write_entry returns false: an error is replied and RAM stays as it is, with
\* the record on disk if it was the header that could not be written.
InsertFails ==
    /\ command = "insert"
    /\ \/ WriteFails /\ UNCHANGED apart
       \/ HeaderFails /\ apart' = apart \union {step.rec.id}
    /\ command' = "none"
    /\ UNCHANGED <<serving, stale, rows, topology, index_file>>

\* The next command that uses the entry file writes the header first.
HeaderRetried ==
    /\ RetryHeader
    /\ UNCHANGED <<serving, command, stale, apart, rows, topology, index_file>>

-----------------------------------------------------------------------------
(* DELETE: find_by_id, delete_entry, remove_entry, and compact when it is  *)
(* allowed.                                                                *)

DeleteStart(id) ==
    /\ Free
    /\ DeleteRecord(id)
    /\ command' = "delete"
    /\ UNCHANGED <<serving, stale, apart, rows, topology, index_file>>

DeleteMiddle ==
    /\ DeleteHeader
    /\ UNCHANGED <<serving, command, stale, apart, rows, topology, index_file>>

\* The disk has the record deleted; RAM may not know the id.
DeleteDone ==
    /\ DeleteText
    /\ \/ /\ Store!id_exists(step.rec.id)
          /\ Store!remove_entry(step.rec.id)
          /\ command' = IF compact_allowed THEN "compact" ELSE "none"
       \/ /\ ~Store!id_exists(step.rec.id)
          /\ command' = "none"
          /\ UNCHANGED <<rows, lists>>
    /\ UNCHANGED <<serving, stale, apart, centroid_count, centroids, last_build_at, index_file>>

\* delete_entry returns false although the record is gone, the text flag written
\* or not: an error is replied and RAM keeps the vector.
DeleteFails ==
    /\ command = "delete"
    /\ "delete_text" \in FailSteps
    /\ DeleteText \/ WriteFails
    /\ command' = "none"
    /\ apart' = apart \union {step.rec.id}
    /\ UNCHANGED <<serving, stale, rows, topology, index_file>>

CompactStart ==
    /\ command = "compact"
    /\ CompactCopy
    /\ UNCHANGED <<serving, command, stale, apart, rows, topology, index_file>>

CompactSwap ==
    /\ RemoveEntryFile \/ RemoveTextFile \/ RenameEntry \/ RenameText
    /\ UNCHANGED <<serving, command, stale, apart, rows, topology, index_file>>

\* The files are new; the offsets in RAM are those of the old text file.
CompactDone ==
    /\ Reopen
    /\ command' = "none"
    /\ stale' = TRUE
    /\ UNCHANGED <<serving, apart, rows, topology, index_file>>

CompactFails ==
    /\ command = "compact"
    /\ CopyFails \/ SwapFails
    /\ command' = "none"
    /\ UNCHANGED <<serving, stale, apart, rows, topology, index_file>>

-----------------------------------------------------------------------------
(* The other commands.                                                     *)

Query ==
    /\ Free
    /\ ReadText
    /\ UNCHANGED <<serving, command, stale, apart, rows, topology, index_file>>

SaveCommand ==
    /\ Free
    /\ Save
    /\ UNCHANGED <<serving, command, stale, apart, rows, topology, index_file>>

Optimize ==
    /\ Free
    /\ Store!BuildAndPersist(count, embeddings)
    /\ UNCHANGED <<files, serving, command, stale, apart, rows>>

\* The reads of LOAD write out what the text stream holds, if it is open.
Load ==
    /\ Free
    /\ Len(Loaded) <= MaxVectors
    /\ Store!FillRows(Len(Loaded), RowsOf(Loaded))
    /\ Store!BuildAndPersist(Len(Loaded), Store!RowEmbeddings(Len(Loaded), RowsOf(Loaded)))
    /\ stale' = FALSE
    /\ IF is_open THEN ReadText /\ apart' = apart \intersect Doubled
                  ELSE UNCHANGED <<files, apart>>
    /\ UNCHANGED <<serving, command>>

-----------------------------------------------------------------------------
(* The process.                                                            *)

\* The constructor of File_manager.
Start ==
    /\ OpenFiles \/ CreateEntryFile \/ CreateTextFile \/ RefuseToStart
    /\ UNCHANGED <<serving, command, stale, apart, rows, topology, index_file>>

\* run(): auto-load, then the index, then the accept loop.
Run ==
    /\ ~serving
    /\ Ready
    /\ Len(Loaded) <= MaxVectors
    /\ serving' = TRUE
    /\ Store!FillRows(Len(Loaded), RowsOf(Loaded))
    /\ LET embs == Store!RowEmbeddings(Len(Loaded), RowsOf(Loaded))
       IN  IF index_file.size = 0
           THEN Store!BuildAndPersist(Len(Loaded), embs)
           ELSE Store!RestoreIndex(Len(Loaded), embs)
    /\ apart' = apart \intersect Doubled
    /\ UNCHANGED <<files, command, stale>>

Kill ==
    /\ Crash
    /\ Store!Die
    /\ command' = "none"
    /\ stale' = FALSE
    /\ UNCHANGED <<apart, index_file>>

EngineInit ==
    /\ Init
    /\ Store!Init
    /\ command = "none"
    /\ stale = FALSE
    /\ apart = {}

EngineNext ==
    \/ \E id \in Id, v \in Val : InsertText(id, v)
    \/ InsertRecord
    \/ InsertDone
    \/ InsertFails
    \/ HeaderRetried
    \/ \E id \in Id : DeleteStart(id)
    \/ DeleteMiddle
    \/ DeleteDone
    \/ DeleteFails
    \/ CompactStart
    \/ CompactSwap
    \/ CompactDone
    \/ CompactFails
    \/ Query
    \/ SaveCommand
    \/ Optimize
    \/ Load
    \/ Start
    \/ Run
    \/ Kill

EngineSpec == EngineInit /\ [][EngineNext]_engine_vars

-----------------------------------------------------------------------------
(* Properties.                                                             *)

EngineTypeOK ==
    /\ TypeOK
    /\ Store!TypeOK
    /\ command \in {"none", "insert", "delete", "compact"}
    /\ stale \in BOOLEAN
    /\ apart \subseteq Id

\* How many rows of RAM, and how many documents on disk, are of id with
\* embedding e and a text of len cells.
InRam(id, e, len) ==
    Cardinality({i \in 0 .. count - 1 :
        ids[i] = id /\ embeddings[i] = e /\ text_refs[i].len = len})
OnDisk(id, e, len) ==
    Cardinality({k \in DOMAIN docs :
        docs[k].id = id /\ EmbeddingOf[docs[k].val] = e /\ Len(docs[k].text) = len})
Lengths == {TextLen[v] : v \in Val}

\* Between two commands RAM holds the vectors that the files hold, and no id
\* twice: INSERT checks RAM for the id and DELETE the disk, so each relies on
\* the other half to be right.  Excepted are the ids whose INSERT or DELETE
\* failed half way (the client was told an error), until a LOAD or a restart
\* has read at most one record of them.
RamMirrorsDisk ==
    Free /\ Ready =>
        \A id \in Id \ apart :
            /\ \A e \in Embedding, len \in Lengths : InRam(id, e, len) = OnDisk(id, e, len)
            /\ Cardinality({i \in 0 .. count - 1 : ids[i] = id}) <= 1

\* What read_text returns for RAM row i, <<>> when it fails.
TextOfRow(i) ==
    LET ref == text_refs[i]
    IN  IF text_readable(AllText, ref.off, ref.len) THEN text_at(AllText, ref.off, ref.len) ELSE <<>>

OwnText(i) == \E k \in DOMAIN docs : docs[k].id = ids[i] /\ docs[k].text = TextOfRow(i)

\* As long as no compaction has run since RAM was filled, QUERY reads for each
\* vector the text that was inserted with it, however INSERT and DELETE have
\* moved rows and texts about; but for the ids whose INSERT or DELETE failed
\* half way.
TextsAreOwnUntilCompaction ==
    Free /\ Ready /\ ~stale => \A i \in 0 .. count - 1 : ids[i] \in apart \/ OwnText(i)

\* What engine.md says of compaction ("refreshes RAM structures"; protocol.md:
\* "rebuilds RAM state"): QUERY reads each vector's own text after it too.
TextsAreOwn == Free /\ Ready => \A i \in 0 .. count - 1 : OwnText(i)
=============================================================================
