# Needle_DB: specification, model checking and proofs

TLA+ modules of the vector database in `src/services`: a C++ engine (a TCP
server over a RAM vector store with an IVF index and three files) and its
Python client with the ingestion pipeline. Source names below are those of
`src/services/engine/src` (`vector_store.cpp`, `ivf.cpp`, `file_manager.cpp`,
`vector_server.cpp`, `command_parser.cpp`) and of `src/services/client`
(`vecdb_client.py`, `pipeline/ingestor.py`, `pipeline/ledger.py`).

## The system

| Component | State | Operations | Talks to |
| :--- | :--- | :--- | :--- |
| `Vector_store` | parallel arrays `ids_`, `embeddings_`, `text_offsets_`, `text_lengths_`; `metadata_` by id; `count_` | `make_entry`, `remove_entry` (swap with the last, pop), `clear`, `id_exists`, `get_matching_indices`, `return_k_most_similar` | calls `add_`/`delete_` of the index it is attached to |
| `IVF_index` | `centroid_count`, `centroids`, `lists` of RAM indices | `build_` (k-means), `build_lists`, `add_`, `delete_`, `search_`, `set_centroids` | reads embeddings of the store |
| `File_manager` | entry file (header, records), text file (flag byte and text), index file (`last_build_at`, centroids); `header_` in RAM; three streams | constructor, `write_entry`, `read_entry`, `read_text`, `delete_entry`, `find_by_id`, `compact`, `flush_header`, index file reads and writes | the file system |
| `Vector_Server` | `store_mutex_`, `last_build_at`, one thread and one accumulator per connection | `run` (auto-load, restore or build the index, accept loop), `handle_client`: INSERT, QUERY, DELETE, OPTIMIZE, SAVE, LOAD | all of the above under `store_mutex_`; replies on the socket outside it |
| `Parser` | none | one function per command | called before the lock |
| `Client` | one socket, timeouts | one method per command, `_send`, `_receive` | the server, request by request |
| ingestion | JSON ledger | `ingest_file`, `ingest_folder`, `record_ingestion` | `Client.insert` |
| searcher, embedder, chatbot, GUI | session objects | wrappers, prompting, widgets | `Client`, a language model |

Where it is hard:

* **two copies of one truth.** INSERT asks RAM whether an id exists and writes
  to disk first; DELETE searches the disk and then removes from RAM. Each
  relies on the other half; a kill, a failed file operation or a compaction can
  separate them.
* **positions used as names.** Inverted lists name vectors by RAM index and
  `remove_entry` moves the last vector; rows name texts by file offset and
  `compact` moves every text.
* **several writes per command.** Text, record, header; tombstone, header, text
  flag; two temporary files, two deletes, two renames; `last_build_at`, then
  centroids; a ledger truncated and rewritten. A kill can fall between any two,
  and a stream may still hold what was written.
* **ties and boundaries.** Equal distances in assignment and probing; a build on
  fewer vectors than centroids; running offsets that count the flag bytes;
  words that fill their slot; lengths narrowed to 16 bits.
* **connections.** One thread per client, replies sent in pieces after the
  unlock, clients that leave in the middle of one, client timeouts with the
  reply still to come, replies whose end only a scan of the buffer can tell.

`PROJECT.json` lists each hazard with the line where it bites and the properties
that cover it.

## Modules

| Module | Models | Runs |
| :--- | :--- | :--- |
| `VectorStore` | `Vector_store`, `IVF_index`, the index file, and the server code that drives them | `VectorStore` |
| `Query` | extends it with metadata, filters, ranking and the records on disk | `Query`, `Query_reload` |
| `FileManager` | entry and text files at the granularity of system calls, kills, failing file operations | `FileManager_log`, `FileManager_kill`, `FileManager_lost_text` |
| `DocumentLog` | what the files promise: a log of documents | abstract specification of `FileManager` |
| `Engine` | the commands over `FileManager` and `VectorStore` together | `Engine`, `Engine_stale` |
| `Server` | connections, threads, mutex and replies, over two copies of the documents | `Server` |
| `Database` | what the server promises: commands that take effect at one moment, one reply each, and what failures leave open | abstract specification of `Server` |
| `Connection` | one `Client`, the stream and its framing, timeouts | `Connection` |
| `Parser` | the lines the client formats and what the server reads of them | `Parser` |
| `Ingestion` | loading a folder, the ledger, kills | `Ingestion` |
| `VectorStoreProofs`, `QueryProofs`, `ServerProofs`, `ConnectionProofs`, `ParserProofs`, `IngestionProofs` | theorems about the module of that name | proved by TLAPS |
| `FileManagerProofs` | theorems about the headers and the documents in `FileManager`, and its refinement of `DocumentLog` | proved by TLAPS |
| `EngineProofs` | theorems about `Engine`: it keeps files and store to their specifications, and RAM mirrors the disk | proved by TLAPS |
| `MC_*` | constants of the runs | |

The modules share two cuts. Below `store_mutex_`: `VectorStore` and
`FileManager` are the two halves, `Engine` drives both with every kill between
their writes, and `Server` replaces each half by the set of rows or records it holds,
which is what `DocumentLog` and `RamMirrorsDisk` say of them, to let threads
interleave. At the socket: `Server` passes whole lines and counts pieces of
replies, `Connection` cuts the pieces into chunks, `Parser` looks inside a line.
`Ingestion` uses the engine as a map from ids to chunks with replies in order.

A definition named `X_something` next to `X`, with a comment that starts with
"Mutant", is `X` with a bug in it; no specification uses it. `PROJECT.json`
names, for each property, the one that breaks it.

### VectorStore

Each command is one step: it holds `store_mutex_` from its first to its last
access to this state. `make_entry`, `remove_entry`, `add_`, `delete_`,
`build_lists`, `find_nearest_centroid` carry the names of the code and do what
it does in its order (`remove_entry` takes both slots off the lists before the
swap and adds the moved one after it, `ListsAfterRemove`). Embeddings are points
of `Space`, `Dist` any metric-like table, k-means may leave its centroids
anywhere (`KMeans`), and what a boot or LOAD reads from disk is any array of
rows, duplicates included. A list is a multiset: its order decides nothing but
the order of equal similarities. `WriteIndex` overwrites the index file from its
start and does not truncate it, so `RestoreIndex` can find centroids of an older
and larger build behind the current ones. `CrashInBuild` is a kill between
`write_index_last_build` and `write_index_`.

### Query

`Query` adds to every action of `VectorStore` what it does to `meta_map`
(`metadata_`) and to `records` (the live records of the entry file, from which
LOAD and the boot fill RAM), and defines the branch of QUERY in `handle_client`:
`get_matching_indices`, the candidates of `search_`, the intersection or the
fallback to a scan, `return_k_most_similar`. Answers are *sets* of possible
replies, since sorting may leave equal similarities in any order.
`VectorSlots` is the one `Vector` that LOAD and the boot reuse from record to
record: slots that a record does not use keep what an earlier record put there,
and `set_metadata` reads up to the first empty slot. `Full` words fill their
slot to the last byte and are read on into what follows. `mixed` is a history
variable: RAM was last filled from records with different numbers of pairs.

### FileManager

A step is what one system call makes durable against a kill of the process.
`text_buffer` is what `text_file_` has not written: a write of a small text
stays there until the next seek, close or large write (`LargeText`), since
`write_entry` flushes only the entry file. The entry stream is flushed by every
call before it returns. Kills are kills of the process; a power loss, which can
also lose what the kernel holds, is not modelled. `docs` is the sequence of
documents that the running process reads by the header on disk, with the text
that its stream still holds; a process started after a kill may read less, which
is what `KillKeepsDocuments` is about. `step.kept` records during a compaction
what there is to keep.

`SwapFails` closes both streams for the rest of the process, as the `catch` in
`compact` does. A write fails where the code tells its caller: of the record
(`WriteFails`), of the header in `write_entry`, which has appended the record by
then (`HeaderFails`; the next seek in the entry stream writes the header out,
`RetryHeader`), and of the text flag in `delete_entry`, when the record is a
tombstone already (`WriteFails`). Left out: reads that fail on open streams, a
record written in part, the flushes of the header whose failure `delete_entry`
and SAVE ignore, and an entry file that reopens after a compaction when the text
file does not.

### Engine

`Engine` extends `FileManager` and instantiates `VectorStore`; a command is the
sequence of `FileManager`'s steps with the RAM update in the step where the code
makes it, and `command` plays the mutex: no other command starts in between.
`Run` is `Vector_Server::run` up to the accept loop. `stale` is a history
variable: a compaction has run since RAM was last filled from disk. `apart` is
another: the ids whose INSERT or DELETE was answered with an error after half of
its work. `InsertFails` is `write_entry` returning false, with the record on disk
if it was the header that failed; `DeleteFails` is `delete_entry` returning false
(`vector_server.cpp:386-390`) when the record is gone, so that RAM keeps the
vector. From then on RAM and disk may differ on that id, which INSERT calls a
duplicate and DELETE does not find, or the other way round; a LOAD or a restart
ends it, unless a second INSERT has put the id on disk twice (`Doubled`).
`MaxVectors` bounds the rows of RAM as `MaxRecords` and `MaxCells` bound the
files; the code has no such limit.

### Server and Database

`pc[c]` is where the thread of connection `c` is in `handle_client`: `recv`,
`parse`, `lock`, a place inside the block of the `lock_guard` (named for the
command or for the call that comes next), `unlock`, `reply`, `ended`. Each access
to RAM or disk is a step of its own, so nothing is atomic but what the mutex
makes so. `ram` and `disk` hold rows with the number of the record each was made
from (`written` counts them), so that two records of one id are two. An INSERT or
DELETE may fail before it writes (`WriteFails`, `DeleteRefused`) or half way
(`HeaderFails`, `DeleteFails`); the latter puts its id into `apart`, as in
`Engine`. `moved` names the rows whose text a compaction has moved: QUERY reads
at the offsets RAM remembers, hence any text or none (`TextsOf`). A compaction
that fails in the swap closes the files (`CompactFails`, `is_open`): INSERT and
DELETE fail, no text can be read, and LOAD clears RAM and loads nothing. `Boots`
are the stores a server may start on. `left[c]` pieces of a reply are still to be
sent; a QUERY sends a header, one line per hit and `END`. A client in `Quitters`
may leave at any moment; the first send after that provokes a reset, and a send
after the reset raises SIGPIPE, which ends the process (`BrokenPipe`):
`docs/protocol.md` says "Each connection is independent". A line with an unknown
command is taken and never answered (`NoBranch`).

`Database` is the linearizability of this: `docs` is one set of documents, a
command takes effect at one moment between `Take` and its reply, replies of a
connection come in the order of its calls. What the code does not keep of this is
said there and not hidden in the mapping: an id may become `unsure` when an error
has left it half inserted or half deleted, and nothing is promised of it until a
LOAD (`FailsHalfway`); a compaction moves the texts, and a QUERY may answer with
another one for a document in `moved` until a LOAD; a compaction that fails may
close the files (`open`), and then no text can be read and a LOAD forgets every
document (`Forgotten`). The refinement maps `docs` to the rows of RAM whose id is
not `apart`, except while LOAD has cleared RAM and fills it from open files, when
it is those of the disk.

### Connection

The stream of one connection as pieces, each with the command it answers;
`recv` delivers any number of them. `Complete` is the condition of `_receive`:
a buffer that starts with `QUERY` needs `END` and a newline at its end, any
other a newline somewhere. Three pieces matter: a hit whose text ends in `END`
(`hitEND`), the message about a text that could not be read, which has no
newline (`skip`), and the `>` after the newline of two messages of DELETE
(`tail`). A timeout leaves the socket open and the reply on its way. `clean` (no
timeout since connect) and `delimited` (no `hitEND`, no `tail` so far) are
history variables that state when the framing can be trusted.

### Parser

A line is a sequence of tokens, a token its length, what `stoi` and `stof` make
of it, and where its `=` are. The client's formatting, the validation it does,
and `parse_*` of the server are operators; the specification formats a request
and then changes up to `MaxEdits` tokens of the line.

### Ingestion

`ingest_folder` file by file and chunk by chunk: reading, embedding and INSERT
with their failures, `record_ingestion` with the moment in which `open` has
truncated the ledger and `json.dump` has not finished (`save`), kills anywhere,
further loads. An exception ends `ingest_file` in a chunk (`Raises`) or out of
`record_ingestion`, before `open` has truncated the ledger (`CannotOpen`) or
after (`SaveFails`); the handler of `ingest_folder` then records the file as
failed (`Handle`), whatever the engine has of it, and if that raises too the load
is over. `spoilt` is a history variable: in this load an error has cut a write of
the ledger short. A `print` that raises is left out. INSERTs of a killed process
are executed later (`orphans`), and after a timeout (`late`) the next reply is
the one before.

## What the runs show

All bounds are constants of the `.cfg` files. Deadlock is checked except in
`Parser`, where a line after its last edit has no next step. Ids are symmetric in
the runs of `VectorStore`, `Query`, `Engine` and `FileManager_kill`, none of which
checks liveness.

**VectorStore** (2 ids, at most 3 vectors, 2 centroids in a space of 3 points,
1 probe). Three vectors and two centroids are the least with which a vector
moves between slots while another stays, lists tie, and a build keeps fewer
centroids than configured.
`IndexIsExact`: lists maintained one entry at a time equal a rebuild.
`SearchCoversStore`: `search_` reads no embedding outside the store and, probing
every list, misses none. `EveryVectorIsFindable`: with any number of probes a
query equal to a stored vector has it among its candidates, since probing and
assignment break ties alike. `MetadataHasOwner`. `IndexFileStartsWithRam`: the
index file starts with the centroids in RAM and carries their `last_build_at`,
whatever build was killed before. It does not say that the next boot restores
them: the boot takes as many centroids as the file is long, and what an older and
larger build, or the zeros of an empty boot, left behind them comes back.
`DeleteTakesOneRow`: a DELETE removes one row of its id and every other row
keeps id, embedding and text together.

**Query** (3 ids, 2 positions, 2 centroids of which 1 is probed, metadata with
no pair, one key twice, or two keys, one value filling its slot; 5 filters, every
`top_k`). `FiltersSeeOwnMetadata`: a filter matches only vectors inserted with
its pairs and, if its words are short, all of them, through reuse of ids, swaps
and reloads, unless RAM was filled from records with different numbers of pairs.
`SatisfiableFilterIsObeyed`: when some vector matches, there is a hit and every
hit matches, also when no geometric candidate does. `UnfilteredAnswersAreExact`:
probing every list the answer is the true top k; with fewer probes a stored
vector is still its own first hit.

**FileManager_log** (2 ids, texts of 1 and 2 bytes, one of them written through,
3 records, 7 bytes of text). `DELETE_FACTOR` is 3, with which one dead record of
three triggers a compaction that moves two others. `ImplementsLog`: every step is
an append, the removal of the first document of an id, or nothing; an INSERT that
is answered with an error may have appended. Kills and failing operations are
restricted to the moments in which the code loses nothing (`QuietSteps`,
`QuietFails`). Only these are left out: a kill between a record
and its header, with a text in the stream, or while one of the two old files is
gone, and an operation that fails with one of them gone. They are the subject of
the next run.

**FileManager_kill** (the same bounds, kills and failures everywhere, no text
written through). `HeaderIsFlushed`. `NeverUndercount`: the header on disk never
counts fewer live records than it makes visible; compaction uses the live count
as the size of its new file and would otherwise cut records off.
`CompactionKeepsContents`: wherever the swap stands or fails, the new generation
of files holds every document. `InsertIsReadable`: when `write_entry` returns true
the running process reads the document back, by the header on disk, unless a kill
has left a record beyond the header's total. A new process need not read it: its
text may still be in the stream (`FileManager_lost_text`).
`KillLosesAtMostTheLast`: a kill of an idle process loses at most the document
inserted last. `DeleteTouchesOneId`: a DELETE changes no other document. The last
two are claimed while the live records have texts of their own, none overlapping
another (`Intact`, `Apart`). Texts that stay in the stream are what ends that: a
kill loses one, and a later text lands where its record points, or inside what it
spans. States that differ only in what is left in temporary files outside a swap
are one state (`VIEW LiveFiles`): `compact` truncates them before it writes them.

**Engine** (2 ids, the same texts, 3 records, 6 bytes of text, one position and
one centroid, failures at every step that models one). Three records with two ids
are the least with which an id can be twice on disk after an INSERT that failed
half way, and with which a compaction has a document left to move. The process
may be killed at every step but two: between a record and its header, and with
the text of a finished INSERT in the stream. Either leaves a record on disk whose
document is lost, which the runs of `FileManager` are about. `RamMirrorsDisk`:
between commands RAM and disk hold the same vectors and no id twice, but for the
ids in `apart`. `TextsAreOwnUntilCompaction`: QUERY reads for each vector its own
text until a compaction runs, with the same exception; LOAD and restart repair
it. Open files only: with closed ones LOAD empties RAM.

**Server** (2 connections, 10 different lines that reach every branch, two
commands on one connection and one on the other, whose client may leave; a start
on two documents; writes and compactions may fail; 278,818 distinct states). Two threads and three commands are the least with which a
command of one client falls between two of the other; with two documents the first
DELETE already compacts and leaves one whose text has moved. The theorems below
hold for every start, new files included.
`ImplementsDatabase`; `FreeStoreIsConsistent`: while the mutex is free and the
files are open RAM and disk agree, but for the ids in `apart`;
`EveryRequestAnswered`: no path through a command forgets its reply or keeps the
mutex; `ThreadsEnd`: the thread of a client that left ends, wherever it was.

**Connection** (3 calls, QUERYs of at most 2 hits and DELETEs with both shapes of
error, timeouts). Three calls show a late reply taken by the second and its own
by the third. `CleanAnswersAreWhole`: however the stream is cut, whichever texts
could not be read and even if the server goes away, a call that returns returns
its own reply, all of it, while `clean` and `delimited` hold.
`CleanCallsReturn`: such a call does return.

**Parser** (texts of up to two words that may be numbers, pairs or empty, 16
tokens, a 3-bit `uint16_t`, two edits). `RoundTrip`: what the client sends is
what the server reads. `NothingIsIgnored`: of any accepted line, edited or not,
the tokens are the fields, in order, and nothing else but empty tokens around the
last float.

**Ingestion** (2 files of 2 chunks with the same ids, one chunk too long, two
loads, two kills, every failure; 1,259,381 distinct states). `AcceptedAreStored`:
without a timeout, what counts as accepted has its id in the engine.
`LoadsRecordEveryFile`: a load that goes on has a record of each file before, one
that ended in an exception included, unless an error cut a write of the ledger
short. `RecordsAreKept` as long as the ledger parses. `LoadsEnd`.

### Disagreements with the documentation

| Run | What TLC shows |
| :--- | :--- |
| `FileManager_lost_text` | INSERT returns, the process is killed: the document is gone, its text was never flushed (`file_manager.cpp:135`, against `file_manager.h:37`). |
| `Engine_stale` | INSERT, INSERT, DELETE with compaction: the remaining vector's text is read at its old offset (`vector_server.cpp:399`, against `docs/engine.md:172`). |
| `Query_reload` | LOAD of a record with two pairs, then one with none: the second has the first one's metadata (`vector_server.cpp:487`, against `docs/protocol.md:55`). |

Further behaviour the models have, which the passing properties exclude by a
condition stated with them:

| Where | What the code does |
| :--- | :--- |
| `ivf.cpp:41` | a build on fewer vectors than centroids lowers `centroid_count` for good (`ivf.h:76`) |
| `file_manager.cpp:140` | after a kill between record and header, the next INSERT is beyond the total a LOAD reads |
| `file_manager.cpp:206` | after a lost text the next text gets the same offset, and a DELETE of the lost id makes it unreadable |
| `file_manager.cpp:26` | with one of the two files missing the constructor throws, where `file_manager.h:27` says it recreates both |
| `file_manager.cpp:288` | a kill in the swap: with both old files deleted the next boot starts empty, with one it refuses to start |
| `file_manager.cpp:147` | an INSERT answered with an error because of the header is on disk and not in RAM |
| `vector_server.cpp:386` | a DELETE answered with an error because of the text flag is gone from disk and not from RAM: INSERT says duplicate, DELETE not found |
| `vector_server.cpp:111` | a boot takes as many centroids as the index file is long, older ones behind the last build included |
| `file_manager.cpp:310` | after a compaction that failed with the files closed, LOAD empties RAM and succeeds |
| `vector_server.cpp:220` | the id of an INSERT that exists is answered with `WARNING`, where `docs/protocol.md:78` lists it under `ERROR`; the client, which raises on `ERROR` only, takes it for success |
| `vector_server.cpp:310` | a filter no vector satisfies is read as no filter: QUERY answers unfiltered |
| `vector_store.cpp:87` | words of exactly 32 bytes are accepted and read beyond their slot (`docs/engine.md:64`) |
| `vector_server.cpp:355` | a send to a client that left raises SIGPIPE in the whole process (`docs/protocol.md`: "Each connection is independent") |
| `vector_server.cpp:350`, `:388` | the message about an unreadable text has no newline; two messages of DELETE have a `>` after theirs (`command_parser.cpp:79` likewise, against `docs/protocol.md:44`) |
| `vecdb_client.py:240` | after a timeout each reply is taken for that of the next call, and a call whose buffer starts with a late QUERY reply can wait in vain |
| `vecdb_client.py:250` | a chunk that ends in a text ending in `END` ends the reply |
| `command_parser.cpp:50` | `text_length` is narrowed to 16 bits before it is checked (`docs/protocol.md:66`) |
| `command_parser.cpp:53`, `:285` | a `text_length` of 0 is accepted; an empty value is refused in a filter (`docs/protocol.md:98`) |
| `ingestor.py:234` | files with the same base name share their ids, and the second file's chunks count as accepted |
| `ingestor.py:294` | after a timed-out INSERT the replies are one off, and a refused chunk can count as accepted |
| `ingestor.py:362` | after an exception part way a file is recorded as failed with no chunk, though the engine has some of its chunks; if that raises, the load is over |
| `ledger.py:88` | a kill or an error inside the write leaves a ledger that reads as empty and is then replaced |

## Fairness

* `Server!FairSpec`: weak fairness of `Work(c)` for each connection, the step its
  thread makes next (recv of a complete line, parse, lock, each access, unlock,
  each send). A thread of the operating system that can go on does. A
  `std::mutex` need not be fair, so weak fairness gives no thread the lock while
  others keep taking it; the commands of a run are bounded, so the lock stays
  free in the end. Clients need not send and need not stay. The leads-to
  properties allow for a client that has left and for a process that SIGPIPE ended.
* `Connection!FairSpec`: weak fairness of the server's thread (`Serve`,
  `SendPiece`) and of `recv` (`Receive`, `ServerClosed`). None of the caller, of
  timeouts, or of the end of the server.
* `Ingestion!FairSpec`: weak fairness of the process's `Work` and of the engine's
  `Execute`. None of kills.

The other specifications assume no fairness.

## What is proved

TLAPS proves the following for every value of the constants that the named
assumptions of the modules admit.

**VectorStoreProofs** (`SpaceAssumption`, `BoundsAssumption`, `RowAssumption`):
`TypeCorrect`, `IndexExact`, `SearchCovers`, `VectorsFindable`, `MetadataOwned`,
`IndexFileCurrent`, `DeleteTakesRow`. The inductive invariant is the conjunction
of `TypeOK`, `IndexIsExact`, `MetadataHasOwner` and `IndexFileStartsWithRam`.
`IndexIsExact` is needed to show that `delete_` finds the slot on exactly one
list: `NearestExists` says that `find_nearest_centroid` picks one centroid, so a
rebuilt index has each slot below `count` once and none above, and
`RemoveKeepsExact` follows the two deletes and the addition through the swap.
`SearchCovers` and `VectorsFindable` are consequences: the nearest centroid of a
stored embedding has no centroid before it, hence is probed whenever at least one
list is. `DeleteTakesRow` counts rows across the swap (`PopCount`): the slots
that held a row before and after the pop are related by the move of the last.

**FileManagerProofs**: `HeaderFlushed`, `NoUndercount`, for any texts,
`DELETE_FACTOR`, kills and failures. `NeverUndercount` alone is not inductive:
after a compaction that dropped unreadable records the total lies beyond the end
of the file, and the INSERTs that follow fill the gap. The strengthening counts,
as `Visible`, the indices below the total that the file has not got along with
the live ones; with it goes where the header in RAM and on disk may differ (after
a tombstone, or a header that could not be written), where the streams are open,
and what a call in progress remembers. The rest of the module holds lemmas on
what texts, offsets and sequences of documents are, and the theorems about the
documents.

These are (with `FileAssumption`) `TypeCorrect`, `CompactionKept`, `InsertKept`,
`DeleteKept`, `KillKept`, for any texts, `DELETE_FACTOR`, kills and failures,
under the conditions that `InsertIsReadable` and `Intact` name. The invariant
`DocInv` adds to the one above the types, which files exist at each step, what an
INSERT and a swap in progress have promised (`InsertOK`, `KeptOK`), and
`OrderOK`: texts lie in the order of their records and none starts beyond the end
of the text file. `OrderOK` is what makes a kill lose only the last document,
since only the text at the end can be cut off. `NewOffset` and the new text file
are recursive functions of the records. No induction theorem is used for them: a
least index at which a claim fails is not 0, and the definition of the function
at that index refutes it (`NewOffsetIs`, `NewTextIs`). `LogImplemented` is the
refinement of `DocumentLog`. Its hypothesis `Quiet` bounds `CrashSteps` and
`FailSteps` by the moments named for `FileManager_log` above; without it the
refinement is false, as `FileManager_lost_text` shows. The further invariant
`LogInv` needs less, `QuietKills`: no kill between a record and its header or
with a text in the stream. It says that each file and its text file are `Neat`
(the texts follow one another, end inside the file, and that of a live record has
its flag set), that the header counts every record but the one being written, and
what the call in progress remembers. The Add of the log is `WriteHeader`
(`RetryHeader`, if the header could not be written at first), except after a
compaction that dropped records, when the header's total lies beyond the file and
`WriteRecord` makes the document visible; the Remove is `DeleteRecord`; every
other step, the six of a swap, kills and boots included, leaves the log as it is.

**EngineProofs** (`FileAssumption`, `EngineAssumption`): `EngineKeepsFiles`,
`EngineKeepsStore`, `EngineTypeCorrect`, `RamMirrored`, `TextsOwn`, for any
numbers of ids, documents, vectors and centroids and any of the failures
modelled. `EngineKeepsFiles` has no hypothesis: each command is a sequence of
`FileManager`'s steps. The others assume `QuietKills`; it is as weak as it can
be, since a kill it excludes leaves a record without a readable document, or one
that the header does not count, and the next INSERT of that id makes RAM and disk
differ. `RamMirrorsDisk` is not inductive: it says nothing of the moments inside
a command, and INSERT looks for the id in RAM while DELETE looks on disk. The
invariant `EngineInv` says for each step of each command which records RAM
mirrors (`MirrorOK`: those with a live flag, without the one an INSERT is about
to bring to RAM, with the one a DELETE has yet to take from it, or those of the
temporary file during a swap), that no id is live twice in the file
(`OneEachOK`), both but for the ids in `apart`, that texts end within the text
file (`RangeOK`), which call a command is in (`CommandOK`), and that RAM is empty
before the boot (`BlankOK`). `Fresh` turns the answer of `id_exists` in RAM into
a fact about the disk, which keeps `OneEachOK`; `DeleteMirror` shows that RAM
knows every id outside `apart` that DELETE found on disk, so only an INSERT or
DELETE that failed half way leads to the branch of `DELETE` for an id that RAM
lacks. That each step is a step of `VectorStore` follows, and with it the
invariant of `VectorStoreProofs`, instantiated for the engine's store; the two
are proved together.

**QueryProofs** (the assumptions of `Query`): `QueryTypeCorrect`,
`FiltersSeeOwn`, `SatisfiableFilters`, `UnfilteredExact` and
`QueryImplementsStore`. `QInv` adds to the invariant of `VectorStore`: RAM has one
slot for each live record and no id twice (`RamOK`), and the inner map of an id
is made from the pairs of its record unless a reload mixed counts (`MapOwn`). No
duplicate id on disk is what lets DELETE, which removes the first record of an
id and one slot, keep the two in step. `SatisfiableFilters` and `UnfilteredExact`
rest on `CandidatesInStore` and on `EveryVectorIsFindable`. `DistanceAssumption`,
that only equal embeddings are at distance 0, is used for the first hit.

**ServerProofs**: `TypeCorrect`, `StoreConsistent`, `Refinement`, for any number
of connections, ids and commands. The inductive invariant adds to `TypeOK`:
`MutexOK` (a thread is inside the block exactly when it holds the mutex),
`CommandOK` (and is on its command's branch), `ResultOK` (a result exists from
the deciding step to the reply), `StoreOK` (on the ids outside `apart` RAM and
disk differ only while the holder is between two writes, and then by exactly what
it is about to do, which `Tie` says for each place) and `Counted` (finiteness,
and a piece left in every reply). Neither theorem claims anything of an id whose
INSERT or DELETE was answered with an error after half of its work, until a LOAD
has read at most one record of it; `StoreConsistent` claims nothing once a failed
compaction has closed the files. `Refinement` shows that each step of `Server` is
a step of `Database` or a stutter under the mapping of `docs`: for example
`WriteEntry` stutters and `MakeEntry` is the insertion, `DeleteEntry` stutters
and `RemoveEntry` is the deletion, `Clear` and `LoadEntry` leave `docs` as it is
because RAM and disk agree on those ids when LOAD takes the lock. A half failure
takes its id from `docs` to `unsure`, and with the files closed `Clear` is
`Forgotten`.

**ConnectionProofs**: `TypeCorrect`, `AnswersAreWhole`, for any number of hits and
calls. While `clean` and `delimited` hold, the buffer, the wire and what the
server has still to send are, in this order, the whole reply (`Answering`), and
a delimited reply is `Shaped`: no proper beginning of it looks complete
(`CompleteIsAll`).

**ParserProofs** (`ParserAssumption`, `RequestAssumption`): `RequestsArrive` and
`WholeLineRead`, for any tokens, texts, metadata, limits and any number of edits.
The assumptions say what the code has: a token that `stof` or `stoi` reads whole
has a byte and no `=`; the longest text has a length that a `uint16_t` holds;
`DIMENSIONS` has as many digits as the schema says; a text has at least one
token, if an empty one. The invariant `IInv` says that a line is a sequence of
tokens and, until it is edited, the one the client formatted. The rest is about
the operators. `SumExists` and `SumsAgree` show, by a least index as for
`NewOffset`, that `Bytes` is a sum, and `SumGrows` that it grows with each token,
because of the space in front of it: so exactly one token is `text_length` bytes on
(`TextThere`), whatever spaces and empty tokens the text has. `FieldsThere` finds
metadata and floats where the client put them, since a pair has a `=` and a float
has none. `WholeLineRead` needs nothing of the client: `RestIsRead` puts the parts
that were read together (`PartsJoin`), and they are the line.

**IngestionProofs**: `TypeCorrect`, `AcceptedStored`, `EveryFileRecorded`,
`RecordsKept`, for any files, chunks and failures, under the conditions that the
properties name (no timeout, a ledger that no cut has spoilt). The invariant says
that without a timeout the one outstanding request or reply is that of the chunk
the process waits for, that such a reply tells the truth, that the engine never
gives up an id, and which files the running load must have recorded by now, those
the handler is about to record apart.

Only model-checked: liveness (`EveryRequestAnswered`, `ThreadsEnd`,
`CleanCallsReturn`, `LoadsEnd`), which the prover does not do. Every invariant
and every action property that a passing run checks is a theorem.

## Not modelled

* Floating-point arithmetic: distances, `normalise_vector`, `stof` of values that
  overflow or are denormal. `Dist` is a table, a zero vector a value of its own.
* The schema checks of the header (magic number, version), configuration and its
  loading (`env_config.hpp`, `schema_loader.py`): read once at start.
* Reads that fail on open streams, a write that leaves part of a record or of the
  header, the flushes of the header whose failure `delete_entry` and SAVE ignore,
  failing writes of the index file, and power loss.
* In `Server`: kills of the process, which are in `Engine` and `FileManager`.
* Python's `print` raising in `ingest_file` or in the handler.
* A text of no bytes: the parser accepts it and `read_text` reports it as
  unreadable, so its hit is the message of `skip`.
* Accepting connections: a failed `accept` repeats the loop. A half line is a
  line not yet sent.
* The choice among timeouts of the client: LOAD and OPTIMIZE have longer ones.
* Reading, chunking and embedding of documents are outcomes in `Ingestion`;
  searcher, embedder, chatbot, language model and GUI keep no state the engine
  depends on. `add_document` of the chatbot repeats `ingest_file`.

## Plan

What could be added next, in this order:

1. `Server` over `Engine` instead of sets of documents, to let kills fall between
   the steps of concurrent commands.
