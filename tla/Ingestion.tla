------------------------------ MODULE Ingestion ------------------------------
(***************************************************************************)
(* Loading a folder of documents: ingestor.py puts every chunk of every    *)
(* file into the engine and ledger.py remembers, in a file, which          *)
(* documents were taken.  The process can be killed at any moment; what it *)
(* has sent the engine by then is still executed.  add_document of the     *)
(* chatbot does the same for a single file.                                *)
(*                                                                         *)
(* The engine is external here: a map from ids to chunks.  How the reply   *)
(* to one INSERT is found in the stream is the subject of Connection.      *)
(***************************************************************************)
EXTENDS Naturals, Sequences, FiniteSets

CONSTANTS
    File,           \* file names
    BaseOf,         \* what build_doc_id leaves of a file name: sanitized, truncated
    ChunksOf,       \* [File -> Nat]: into how many chunks a file is cut
    Oversized,      \* <<file, i>>: chunks longer than TEXT_MAX_LENGTH bytes
    NoChunk,        \* no chunk
    Failures,       \* what may fail: "read", "embed", "insert", "timeout", "save",
                    \* and "raise": what ingest_file does not catch
    MaxChunks,      \* bound of the model on the chunks of a file
    KillInSave,     \* whether a kill can hit the write of the ledger
    MaxKills,       \* bound of the model on kills
    MaxRuns         \* bound of the model on loads of the folder

Chunk == {<<f, i>> : f \in File, i \in 1..MaxChunks}
ChunksIn(f) == {<<f, i>> : i \in 1..ChunksOf[f]}

ASSUME IngestionAssumption ==
    /\ File # {}
    /\ ChunksOf \in [File -> 1..MaxChunks]
    /\ Oversized \subseteq Chunk /\ NoChunk \notin Chunk
    /\ Failures \subseteq {"read", "embed", "insert", "timeout", "save", "raise"}
    /\ MaxChunks \in Nat /\ KillInSave \in BOOLEAN /\ MaxKills \in Nat /\ MaxRuns \in Nat

\* _build_doc_id: what is left of the file's name, and the number of the chunk.
build_doc_id(chunk) == <<BaseOf[chunk[1]], chunk[2]>>
Id == {build_doc_id(chunk) : chunk \in Chunk}

VARIABLES
    pc,             \* what the process does: "off" when it does not run
    files,          \* files of the folder this load has not come to
    file,           \* the file it is at
    next,           \* the chunk it is at
    inserted_ids,   \* chunks of it the engine accepted, by their replies
    requests,       \* INSERTs sent and not executed
    orphans,        \* the same, of processes that were killed
    replies,        \* replies not received
    stored,         \* the engine: the chunk it has under an id
    ledger,         \* the ledger: by file the chunks accepted and the status
    torn,           \* the ledger does not parse
    spoilt,         \* in this load a write of the ledger was cut short by an error
    late,           \* a call has timed out: its reply comes later, or never
    kills, runs     \* how many there were

process == <<pc, files, file, next, inserted_ids>>
engine == <<requests, orphans, replies, stored>>
book == <<ledger, torn, spoilt>>
vars == <<process, engine, book, late, kills, runs>>

NoRecord == [status |-> "none", accepted |-> {}]
NoLedger == [f \in File |-> NoRecord]
Nobody == CHOOSE f \in File : TRUE

-----------------------------------------------------------------------------
(* ledger.py.                                                              *)

\* A ledger that does not parse reads as an empty one.
load_ledger == IF torn THEN NoLedger ELSE ledger

is_already_ingested(f) == load_ledger[f].status \in {"successful", "partial"}

Status(f, accepted) ==
    CASE accepted = {} -> "failed"
      [] accepted = ChunksIn(f) -> "successful"
      [] OTHER -> "partial"

\* Mutant: the records of other files are not read first.
record_ingestion_only(f, accepted) ==
    /\ ledger' = [NoLedger EXCEPT ![f] = [status |-> Status(f, accepted), accepted |-> accepted]]
    /\ torn' = TRUE
    /\ UNCHANGED spoilt

\* record_ingestion up to the point where open has truncated the file: ledger
\* is what it goes on to write.
record_ingestion(f, accepted) ==
    /\ ledger' = [load_ledger EXCEPT ![f] = [status |-> Status(f, accepted), accepted |-> accepted]]
    /\ torn' = TRUE
    /\ UNCHANGED spoilt

\* record_ingestion raises before it has truncated the file.
CannotOpen == "save" \in Failures /\ UNCHANGED book

Saving == {"save", "resave"}

Saved ==
    /\ pc \in Saving
    /\ torn' = FALSE
    /\ pc' = "next"
    /\ UNCHANGED <<files, file, next, inserted_ids, engine, ledger, spoilt, late, kills, runs>>

\* It raises in the middle of the write: in ingest_file the handler of
\* ingest_folder takes it, in that handler nothing does.
SaveFails ==
    /\ pc \in Saving /\ "save" \in Failures
    /\ spoilt' = TRUE
    /\ pc' = IF pc = "save" THEN "handler" ELSE "idle"
    /\ UNCHANGED <<files, file, next, inserted_ids, engine, ledger, torn, late, kills, runs>>

-----------------------------------------------------------------------------
(* ingest_folder and ingest_file.                                          *)

IngestFolder ==
    /\ pc = "idle" /\ runs < MaxRuns
    /\ runs' = runs + 1
    /\ files' = File
    /\ pc' = "next"
    /\ spoilt' = FALSE
    /\ UNCHANGED <<file, next, inserted_ids, engine, ledger, torn, late, kills>>

Skip(f) ==
    /\ pc = "next" /\ f \in files
    /\ is_already_ingested(f)
    /\ files' = files \ {f}
    /\ UNCHANGED <<pc, file, next, inserted_ids, engine, book, late, kills, runs>>

\* Mutant: a file that cannot be read is left out of the ledger.
ReadFails_unrecorded(f) ==
    /\ pc = "next" /\ f \in files /\ "read" \in Failures
    /\ ~is_already_ingested(f)
    /\ files' = files \ {f}
    /\ UNCHANGED <<pc, file, next, inserted_ids, engine, book, late, kills, runs>>

\* No text, or none that can be read.
ReadFails(f) ==
    /\ pc = "next" /\ f \in files /\ "read" \in Failures
    /\ ~is_already_ingested(f)
    /\ files' = files \ {f}
    /\ file' = f /\ inserted_ids' = {}
    /\ \/ record_ingestion(f, {}) /\ pc' = "save"
       \/ CannotOpen /\ pc' = "handler"
    /\ UNCHANGED <<next, engine, late, kills, runs>>

\* Mutant: the list goes on from file to file.
ReadChunks_keeps_ids(f) ==
    /\ pc = "next" /\ f \in files
    /\ ~is_already_ingested(f)
    /\ files' = files \ {f}
    /\ file' = f
    /\ next' = 1
    /\ pc' = "chunk"
    /\ UNCHANGED <<inserted_ids, engine, book, late, kills, runs>>

ReadChunks(f) ==
    /\ pc = "next" /\ f \in files
    /\ ~is_already_ingested(f)
    /\ files' = files \ {f}
    /\ file' = f
    /\ next' = 1
    /\ inserted_ids' = {}
    /\ pc' = "chunk"
    /\ UNCHANGED <<engine, book, late, kills, runs>>

AtChunk == pc = "chunk" /\ next <= ChunksOf[file]

\* Mutant: the chunk is noted before it is embedded.
SkipChunk_counts ==
    /\ AtChunk
    /\ <<file, next>> \in Oversized \/ "embed" \in Failures
    /\ next' = next + 1
    /\ inserted_ids' = inserted_ids \union {<<file, next>>}
    /\ UNCHANGED <<pc, files, file, engine, book, late, kills, runs>>

\* A chunk that is too long or that embed fails on is left out.
SkipChunk ==
    /\ AtChunk
    /\ <<file, next>> \in Oversized \/ "embed" \in Failures
    /\ next' = next + 1
    /\ UNCHANGED <<pc, files, file, inserted_ids, engine, book, late, kills, runs>>

\* An exception ends ingest_file within a chunk: of text that cannot be encoded.
Raises ==
    /\ AtChunk /\ "raise" \in Failures
    /\ pc' = "handler"
    /\ UNCHANGED <<files, file, next, inserted_ids, engine, book, late, kills, runs>>

SendInsert ==
    /\ AtChunk
    /\ <<file, next>> \notin Oversized
    /\ requests' = Append(requests, <<file, next>>)
    /\ pc' = "wait"
    /\ UNCHANGED <<files, file, next, inserted_ids, orphans, replies, stored, book, late, kills, runs>>

\* Mutant: an ERROR is not told from a success.
Accepts_everything(reply) == TRUE

\* insert raises on ERROR only: that the id exists is a WARNING.
Accepts(reply) == reply # "error"

\* The first reply in the chunk that recv returns decides, and the rest of the
\* chunk is gone.
Receive ==
    /\ pc = "wait"
    /\ \E n \in 1..Len(replies) : replies' = SubSeq(replies, n + 1, Len(replies))
    /\ inserted_ids' =
           IF Accepts(replies[1]) THEN inserted_ids \union {<<file, next>>} ELSE inserted_ids
    /\ next' = next + 1
    /\ pc' = "chunk"
    /\ UNCHANGED <<files, file, requests, orphans, stored, book, late, kills, runs>>

\* The next chunk goes out on the same connection.
Timeout ==
    /\ pc = "wait" /\ replies = <<>> /\ "timeout" \in Failures
    /\ next' = next + 1
    /\ pc' = "chunk"
    /\ late' = TRUE
    /\ UNCHANGED <<files, file, inserted_ids, engine, book, kills, runs>>

Record ==
    /\ pc = "chunk" /\ next > ChunksOf[file]
    /\ \/ record_ingestion(file, inserted_ids) /\ pc' = "save"
       \/ CannotOpen /\ pc' = "handler"
    /\ UNCHANGED <<files, file, next, inserted_ids, engine, late, kills, runs>>

\* The handler of ingest_folder: what the engine took of the file stays there.
\* If it raises itself the load is over.
Handle ==
    /\ pc = "handler"
    /\ \/ record_ingestion(file, {}) /\ pc' = "resave"
       \/ CannotOpen /\ pc' = "idle"
    /\ UNCHANGED <<files, file, next, inserted_ids, engine, late, kills, runs>>

\* Mutant: what could not be taken is tried again at once.
FolderDone_retries ==
    /\ pc = "next" /\ files = {}
    /\ files' = {f \in File : ~is_already_ingested(f)}
    /\ pc' = IF files' = {} THEN "idle" ELSE "next"
    /\ UNCHANGED <<file, next, inserted_ids, engine, book, late, kills, runs>>

FolderDone ==
    /\ pc = "next" /\ files = {}
    /\ pc' = "idle"
    /\ UNCHANGED <<files, file, next, inserted_ids, engine, book, late, kills, runs>>

-----------------------------------------------------------------------------
(* The engine, and the death and restart of the process.                   *)

\* INSERT of a chunk: refused, a duplicate, or stored.
Executed(chunk, reply) ==
    \/ reply = "error" /\ "insert" \in Failures /\ UNCHANGED stored
    \/ reply = "warning" /\ stored[build_doc_id(chunk)] # NoChunk /\ UNCHANGED stored
    \/ /\ reply = "ok" /\ stored[build_doc_id(chunk)] = NoChunk
       /\ stored' = [stored EXCEPT ![build_doc_id(chunk)] = chunk]

Execute ==
    /\ requests # <<>>
    /\ \E reply \in {"ok", "warning", "error"} :
        /\ Executed(Head(requests), reply)
        /\ replies' = Append(replies, reply)
    /\ requests' = Tail(requests)
    /\ UNCHANGED <<process, orphans, book, late, kills, runs>>

\* Nobody receives the reply.
ExecuteOrphan ==
    /\ \E chunk \in orphans :
        /\ \E reply \in {"ok", "warning", "error"} : Executed(chunk, reply)
        /\ orphans' = orphans \ {chunk}
    /\ UNCHANGED <<process, requests, replies, book, late, kills, runs>>

\* What the process has in memory is lost, and its connection.
Kill ==
    /\ pc # "off" /\ kills < MaxKills
    /\ pc \in Saving => KillInSave
    /\ kills' = kills + 1
    /\ pc' = "off" /\ files' = {} /\ file' = Nobody /\ next' = 0 /\ inserted_ids' = {}
    /\ orphans' = orphans \union {requests[i] : i \in DOMAIN requests}
    /\ requests' = <<>> /\ replies' = <<>>
    /\ UNCHANGED <<stored, book, late, runs>>

Start ==
    /\ pc = "off"
    /\ pc' = "idle"
    /\ UNCHANGED <<files, file, next, inserted_ids, engine, book, late, kills, runs>>

-----------------------------------------------------------------------------

Init ==
    /\ pc = "idle" /\ files = {} /\ file = Nobody /\ next = 0 /\ inserted_ids = {}
    /\ requests = <<>> /\ orphans = {} /\ replies = <<>>
    /\ stored = [id \in Id |-> NoChunk]
    /\ ledger = NoLedger /\ torn = FALSE /\ spoilt = FALSE /\ late = FALSE
    /\ kills = 0 /\ runs = 0

Work ==
    \/ \E f \in File : Skip(f) \/ ReadFails(f) \/ ReadChunks(f)
    \/ SkipChunk \/ Raises \/ SendInsert \/ Receive \/ Timeout
    \/ Record \/ Saved \/ SaveFails \/ Handle \/ FolderDone

\* The folder has been loaded as often as the model loads it.
Quiet == pc = "idle" /\ runs = MaxRuns /\ UNCHANGED vars

Next ==
    \/ IngestFolder \/ Work
    \/ Execute \/ ExecuteOrphan
    \/ Kill \/ Start
    \/ Quiet

Spec == Init /\ [][Next]_vars

\* The process and the engine go on.
FairSpec == Spec /\ WF_vars(Work) /\ WF_vars(Execute)

-----------------------------------------------------------------------------
(* Properties.                                                             *)

Holds(chunk) == stored[build_doc_id(chunk)] = chunk
Recorded(f) == load_ledger[f].status # "none"

TypeOK ==
    /\ pc \in {"off", "idle", "next", "chunk", "wait", "save", "handler", "resave"}
    /\ files \subseteq File /\ file \in File /\ next \in 0..MaxChunks + 1
    /\ inserted_ids \subseteq ChunksIn(file)
    /\ requests \in Seq(Chunk) /\ orphans \subseteq Chunk
    /\ replies \in Seq({"ok", "warning", "error"})
    /\ stored \in [Id -> Chunk \union {NoChunk}]
    /\ ledger \in [File -> [status : {"none", "failed", "partial", "successful"},
                           accepted : SUBSET Chunk]]
    /\ \A f \in File : ledger[f].accepted \subseteq ChunksIn(f)
    /\ torn \in BOOLEAN /\ spoilt \in BOOLEAN /\ late \in BOOLEAN
    /\ kills \in 0..MaxKills /\ runs \in 0..MaxRuns

\* No chunk of another file gets the same id.
OwnId(chunk) ==
    \A f \in File : \A d \in ChunksIn(f) \ Oversized :
        build_doc_id(d) = build_doc_id(chunk) => d = chunk

\* Every chunk the process counts as accepted, and every chunk the ledger
\* counts, has its id in the engine, and there its own text if no other file
\* gives that id: also a chunk a killed process had inserted before, which the
\* engine answers with a WARNING, and whatever becomes of the INSERTs a killed
\* process has left behind.  After a timeout replies are one off: then not.
AcceptedAreStored ==
    ~late => \A chunk \in inserted_ids \union UNION {load_ledger[f].accepted : f \in File} :
        /\ stored[build_doc_id(chunk)] # NoChunk
        /\ OwnId(chunk) => Holds(chunk)

\* A load that goes on to the next file has a record of each before it:
\* of a file that cannot be read, of one no chunk of which is taken, and, by the
\* handler of ingest_folder, of one that ended in an exception.  Excepted are
\* loads in which a write of the ledger was cut short by an error, which loses
\* the records before it.
LoadsRecordEveryFile ==
    pc = "next" /\ ~spoilt => \A f \in File \ files : Recorded(f)

\* As long as neither a kill nor an error has cut a write of the ledger short,
\* its rewrite for one document loses the record of no other, and a document
\* that was taken is not taken again, also if an exception ends it.
RecordsAreKept ==
    [][~torn => \A f \in File :
        /\ ledger[f].status \in {"partial", "successful"} => ledger'[f] = ledger[f]
        /\ ledger[f].status = "failed" => ledger'[f].status # "none"]_vars

\* A load comes to its end unless the process is killed, also if replies are
\* lost to the timeout or the ledger cannot be written.
LoadsEnd == (pc = "next") ~> (pc \in {"idle", "off"})
=============================================================================
