----------------------------- MODULE FileManager -----------------------------
(***************************************************************************)
(* File_manager: the entry file (a header and fixed-size records), the     *)
(* text file (a flag byte and the text of each record), tombstones,        *)
(* compaction through two temporary files, and the constructor that opens  *)
(* or creates the files at boot.                                           *)
(*                                                                         *)
(* A step is what one system call makes durable against a kill of the      *)
(* process, so Crash can fall between any two of them.  An fstream keeps   *)
(* what is written until a flush, a seek, a close or a large write:        *)
(* text_buffer is the appended text the text stream still holds (records   *)
(* are large, so the entry stream never holds one).  What a flush could    *)
(* not write stays in the stream too, and the next seek writes it.         *)
(*                                                                         *)
(* Failures.  FailSteps names the writes, renames and opens that may fail. *)
(* Not modelled: reads that fail, a record written in part, and the two    *)
(* flushes whose failure delete_entry and SAVE do not look at.             *)
(*                                                                         *)
(* Abstractions.  The text file is a sequence of cells: flag bytes 0 and 1 *)
(* and text bytes; a text of document v is TextLen[v] cells v, so a text   *)
(* read at a wrong offset differs from the text that was written.  Val     *)
(* stands for all the bytes of a record no operation looks into.  Indices  *)
(* of records count from 0 as in the code; recs[i + 1] is record i.        *)
(* index_file_ is part of VectorStore.                                     *)
(***************************************************************************)
EXTENDS Integers, Sequences, FiniteSets

CONSTANTS
    Id,             \* ids
    Val,            \* documents: text, embedding and metadata of a record
    TextLen,        \* length of the text of a document, in cells
    LargeText,      \* documents whose text the library writes through
    DeleteFactor,   \* schema::DELETE_FACTOR
    MaxRecords,     \* bound of the model on the records in the entry file
    MaxCells,       \* bound of the model on the length of the text file
    FailSteps,      \* where a file operation may fail
    CrashSteps      \* where the process may be killed

ASSUME FileAssumption ==
    /\ TextLen \in [Val -> Nat]
    /\ LargeText \subseteq Val
    /\ DeleteFactor \in Nat
    /\ MaxRecords \in Nat
    /\ MaxCells \in Nat
    /\ Val \cap {0, 1} = {}

VARIABLES
    status,         \* "down", "up", or "refused": the constructor threw
    exists,         \* which of the four files are in the directory
    entry_file,     \* header and records on disk
    text_file,      \* cells on disk
    temp_entry,     \* temp_database.vdb
    temp_text,      \* temp_text_database.vdb
    header,         \* header_
    text_buffer,    \* what text_file_ has not written yet
    is_open,        \* file_ and text_file_ are open
    step            \* where the call in progress stands

disk == <<exists, entry_file, text_file, temp_entry, temp_text>>
ram == <<header, text_buffer, is_open, step>>
vars == <<status, disk, ram>>

NoHeader == [live |-> 0, total |-> 0]
EmptyEntry == [header |-> NoHeader, recs |-> <<>>]
Idle == [at |-> "idle"]
SwapSteps == {"swap_entry", "swap_text", "rename_entry", "rename_text", "reopen"}
Ready == status = "up" /\ is_open /\ step = Idle

-----------------------------------------------------------------------------
(* Reading.                                                                *)

Text(v) == [i \in 1 .. TextLen[v] |-> v]

\* What the text stream reads: what is on disk and what it still holds, which
\* any seek writes out first.
AllText == text_file \o text_buffer

\* read_text and the text half of read_entry: the flag byte at off is not 0
\* and len bytes follow it.
text_readable(tf, off, len) == off + 1 + len <= Len(tf) /\ tf[off + 1] # 0
text_at(tf, off, len) == SubSeq(tf, off + 2, off + 1 + len)

\* read_entry succeeds for record i.
entry_readable(h, recs, tf, i) ==
    /\ i < h.total
    /\ i < Len(recs)
    /\ recs[i + 1].flag = 1
    /\ text_readable(tf, recs[i + 1].off, recs[i + 1].len)

\* The records a loop of read_entry delivers, in file order.
Readable(h, recs, tf) == {i \in 0 .. Len(recs) - 1 : entry_readable(h, recs, tf, i)}
Nth(S, k) == CHOOSE i \in S : Cardinality({j \in S : j < i}) = k - 1
ReadAll(h, recs, tf) ==
    LET S == Readable(h, recs, tf)
    IN  [k \in 1 .. Cardinality(S) |-> recs[Nth(S, k) + 1]]

\* The documents such a loop delivers.
Contents(h, recs, tf) ==
    LET rs == ReadAll(h, recs, tf)
    IN  [k \in DOMAIN rs |->
            [id |-> rs[k].id, val |-> rs[k].val, text |-> text_at(tf, rs[k].off, rs[k].len)]]

\* find_by_id: the live records of the id, of which the first is taken.
Found(id) ==
    {i \in 0 .. header.total - 1 :
        i < Len(entry_file.recs) /\ entry_file.recs[i + 1].flag = 1
                                 /\ entry_file.recs[i + 1].id = id}
\* Mutant: the scan does not stop at the first match.
find_by_id_last(id) == CHOOSE i \in Found(id) : \A j \in Found(id) : j <= i

find_by_id(id) == CHOOSE i \in Found(id) : \A j \in Found(id) : i <= j

compact_allowed ==
    /\ header.total # 0
    /\ (header.total - header.live) * DeleteFactor >= header.total

\* read_text and read_entry in QUERY and LOAD: their seek writes out what the
\* text stream holds.
ReadText ==
    /\ Ready
    /\ text_file' = AllText
    /\ text_buffer' = <<>>
    /\ UNCHANGED <<status, exists, entry_file, temp_entry, temp_text, header, is_open, step>>

\* flush_header, called by SAVE.
Save ==
    /\ Ready
    /\ entry_file' = [entry_file EXCEPT !.header = header]
    /\ UNCHANGED <<status, exists, text_file, temp_entry, temp_text, ram>>

-----------------------------------------------------------------------------
(* write_entry: text, then record, then header.                            *)

\* Mutant: the text stream is not positioned first, which would write it out.
WriteText_no_seek(id, v) ==
    /\ Ready
    /\ Len(entry_file.recs) < MaxRecords
    /\ Len(AllText) + 1 + TextLen[v] <= MaxCells
    /\ text_buffer' = text_buffer \o <<1>> \o Text(v)
    /\ step' = [at |-> "write_record",
                rec |-> [flag |-> 1, id |-> id, val |-> v,
                         off |-> Len(AllText), len |-> TextLen[v]]]
    /\ UNCHANGED <<status, exists, entry_file, text_file, temp_entry, temp_text, header, is_open>>

WriteText(id, v) ==
    /\ Ready
    /\ Len(entry_file.recs) < MaxRecords
    /\ Len(AllText) + 1 + TextLen[v] <= MaxCells
    /\ IF v \in LargeText
       THEN text_file' = AllText \o <<1>> \o Text(v) /\ text_buffer' = <<>>
       ELSE text_file' = AllText /\ text_buffer' = <<1>> \o Text(v)
    /\ step' = [at |-> "write_record",
                rec |-> [flag |-> 1, id |-> id, val |-> v,
                         off |-> Len(AllText), len |-> TextLen[v]]]
    /\ UNCHANGED <<status, exists, entry_file, temp_entry, temp_text, header, is_open>>

WriteRecord ==
    /\ status = "up" /\ step.at = "write_record"
    /\ entry_file' = [entry_file EXCEPT !.recs = Append(@, step.rec)]
    /\ step' = [step EXCEPT !.at = "write_header"]
    /\ UNCHANGED <<status, exists, text_file, temp_entry, temp_text, header, text_buffer, is_open>>

\* Mutant: the live count is not incremented.
WriteHeader_total_only ==
    /\ status = "up" /\ step.at = "write_header"
    /\ header' = [header EXCEPT !.total = @ + 1]
    /\ entry_file' = [entry_file EXCEPT !.header = header']
    /\ step' = Idle
    /\ UNCHANGED <<status, exists, text_file, temp_entry, temp_text, text_buffer, is_open>>

\* Mutant: the total is not incremented.
WriteHeader_live_only ==
    /\ status = "up" /\ step.at = "write_header"
    /\ header' = [header EXCEPT !.live = @ + 1]
    /\ entry_file' = [entry_file EXCEPT !.header = header']
    /\ step' = Idle
    /\ UNCHANGED <<status, exists, text_file, temp_entry, temp_text, text_buffer, is_open>>

WriteHeader ==
    /\ status = "up" /\ step.at = "write_header"
    /\ header' = [live |-> header.live + 1, total |-> header.total + 1]
    /\ entry_file' = [entry_file EXCEPT !.header = header']
    /\ step' = Idle
    /\ UNCHANGED <<status, exists, text_file, temp_entry, temp_text, text_buffer, is_open>>

\* flush_header fails: write_entry returns false with the record on disk and
\* counted in RAM.
HeaderFails ==
    /\ status = "up" /\ step.at = "write_header"
    /\ "write_header" \in FailSteps
    /\ header' = [live |-> header.live + 1, total |-> header.total + 1]
    /\ step' = [step EXCEPT !.at = "retry_header"]
    /\ UNCHANGED <<status, disk, text_buffer, is_open>>

\* The next call that uses the entry stream seeks in it first, which writes the
\* header out.  While that fails, so does the call.
RetryHeader ==
    /\ status = "up" /\ step.at = "retry_header"
    /\ entry_file' = [entry_file EXCEPT !.header = header]
    /\ step' = Idle
    /\ UNCHANGED <<status, exists, text_file, temp_entry, temp_text, header, text_buffer, is_open>>

\* The write of the record fails, and the text stays without one; or the write
\* of the text flag in delete_entry, which returns false with the record gone (a
\* flag that stays in the stream until the next seek counts as written).
WriteFails ==
    /\ status = "up"
    /\ step.at \in FailSteps \intersect {"write_record", "delete_text"}
    /\ step' = Idle
    /\ UNCHANGED <<status, disk, header, text_buffer, is_open>>

-----------------------------------------------------------------------------
(* delete_entry of the record find_by_id returns: tombstone, header, text  *)
(* flag.                                                                   *)

\* Mutant: the header is on disk before the tombstone.
DeleteRecord_header_first(id) ==
    /\ Ready
    /\ Found(id) # {}
    /\ header' = [header EXCEPT !.live = @ - 1]
    /\ entry_file' = [entry_file EXCEPT !.header = header']
    /\ step' = [at |-> "delete_header", rec |-> entry_file.recs[find_by_id(id) + 1]]
    /\ UNCHANGED <<status, exists, text_file, temp_entry, temp_text, text_buffer, is_open>>

DeleteRecord(id) ==
    /\ Ready
    /\ Found(id) # {}
    /\ LET i == find_by_id(id)
       IN  /\ entry_file' = [entry_file EXCEPT !.recs[i + 1].flag = 0]
           /\ step' = [at |-> "delete_header", rec |-> entry_file.recs[i + 1]]
    /\ header' = [header EXCEPT !.live = @ - 1]
    /\ UNCHANGED <<status, exists, text_file, temp_entry, temp_text, text_buffer, is_open>>

\* Mutant: no flush_header after the decrement.
DeleteHeader_no_flush ==
    /\ status = "up" /\ step.at = "delete_header"
    /\ step' = [step EXCEPT !.at = "delete_text"]
    /\ UNCHANGED <<status, disk, header, text_buffer, is_open>>

DeleteHeader ==
    /\ status = "up" /\ step.at = "delete_header"
    /\ entry_file' = [entry_file EXCEPT !.header = header]
    /\ step' = [step EXCEPT !.at = "delete_text"]
    /\ UNCHANGED <<status, exists, text_file, temp_entry, temp_text, header, text_buffer, is_open>>

\* A byte written at off, which may be the end of the file.
WriteByte(tf, off, byte) ==
    IF off < Len(tf) THEN [tf EXCEPT ![off + 1] = byte] ELSE Append(tf, byte)

\* Mutant: the byte behind the text is taken for its flag.
DeleteText_behind ==
    /\ status = "up" /\ step.at = "delete_text"
    /\ text_file' = WriteByte(AllText, step.rec.off + step.rec.len + 1, 0)
    /\ text_buffer' = <<>>
    /\ step' = Idle
    /\ UNCHANGED <<status, exists, entry_file, temp_entry, temp_text, header, is_open>>

DeleteText ==
    /\ status = "up" /\ step.at = "delete_text"
    /\ text_file' = WriteByte(AllText, step.rec.off, 0)
    /\ text_buffer' = <<>>
    /\ step' = Idle
    /\ UNCHANGED <<status, exists, entry_file, temp_entry, temp_text, header, is_open>>

-----------------------------------------------------------------------------
(* compact: copy the readable records into two new files, delete the two   *)
(* old files, rename the new ones, open them.                              *)

\* Mutant: the running offset leaves out the flag byte.
NewOffset_no_flag(rs, k) ==
    LET off[j \in 1 .. Len(rs)] == IF j = 1 THEN 0 ELSE off[j - 1] + rs[j - 1].len
    IN  off[k]

\* Where the k-th text of rs starts in the new text file.
NewOffset(rs, k) ==
    LET off[j \in 1 .. Len(rs)] == IF j = 1 THEN 0 ELSE off[j - 1] + 1 + rs[j - 1].len
    IN  off[k]

\* The new text file: the texts of rs as read from tf, each behind a live flag.
NewText(rs, tf) ==
    LET cells[k \in 0 .. Len(rs)] ==
          IF k = 0 THEN <<>>
          ELSE cells[k - 1] \o <<1>> \o text_at(tf, rs[k].off, rs[k].len)
    IN  cells[Len(rs)]

NewHeader == [live |-> entry_file.header.live, total |-> entry_file.header.live]

\* Both temporary files are complete and all four streams are closed.  kept
\* records what there is to keep, for the properties.
CompactCopy ==
    /\ Ready
    /\ compact_allowed
    /\ LET rs == ReadAll(header, entry_file.recs, AllText)
       IN  /\ temp_entry' = [header |-> NewHeader,
                             recs |-> [k \in DOMAIN rs |-> [rs[k] EXCEPT !.off = NewOffset(rs, k)]]]
           /\ temp_text' = NewText(rs, AllText)
    /\ text_file' = AllText
    /\ text_buffer' = <<>>
    /\ exists' = exists \union {"temp_entry", "temp_text"}
    /\ is_open' = FALSE
    /\ step' = [at |-> "swap_entry",
                kept |-> Contents(header, entry_file.recs, AllText)]
    /\ UNCHANGED <<status, entry_file, header>>

RemoveEntryFile ==
    /\ status = "up" /\ step.at = "swap_entry"
    /\ exists' = exists \ {"entry"}
    /\ entry_file' = EmptyEntry
    /\ step' = [step EXCEPT !.at = "swap_text"]
    /\ UNCHANGED <<status, text_file, temp_entry, temp_text, header, text_buffer, is_open>>

RemoveTextFile ==
    /\ status = "up" /\ step.at = "swap_text"
    /\ exists' = exists \ {"text"}
    /\ text_file' = <<>>
    /\ step' = [step EXCEPT !.at = "rename_entry"]
    /\ UNCHANGED <<status, entry_file, temp_entry, temp_text, header, text_buffer, is_open>>

RenameEntry ==
    /\ status = "up" /\ step.at = "rename_entry"
    /\ exists' = (exists \ {"temp_entry"}) \union {"entry"}
    /\ entry_file' = temp_entry
    /\ temp_entry' = EmptyEntry
    /\ step' = [step EXCEPT !.at = "rename_text"]
    /\ UNCHANGED <<status, text_file, temp_text, header, text_buffer, is_open>>

RenameText ==
    /\ status = "up" /\ step.at = "rename_text"
    /\ exists' = (exists \ {"temp_text"}) \union {"text"}
    /\ text_file' = temp_text
    /\ temp_text' = <<>>
    /\ step' = [step EXCEPT !.at = "reopen"]
    /\ UNCHANGED <<status, entry_file, temp_entry, header, text_buffer, is_open>>

Reopen ==
    /\ status = "up" /\ step.at = "reopen"
    /\ is_open' = TRUE
    /\ header' = entry_file.header
    /\ step' = Idle
    /\ UNCHANGED <<status, disk, text_buffer>>

\* A temporary file cannot be created: compact gives up with both streams open.
CopyFails ==
    /\ Ready
    /\ compact_allowed
    /\ "idle" \in FailSteps
    /\ UNCHANGED <<status, disk, ram>>

\* A delete, a rename or the open of the entry file fails: compact gives up
\* with both streams closed, and nothing opens them again.  (Not modelled: the
\* entry file opens and the text file does not.)
SwapFails ==
    /\ status = "up"
    /\ step.at \in FailSteps \intersect SwapSteps
    /\ step' = Idle
    /\ UNCHANGED <<status, disk, header, text_buffer, is_open>>

-----------------------------------------------------------------------------
(* The process.                                                            *)

\* Killed: what is on disk stays, what the streams hold is lost.
Crash ==
    /\ status = "up"
    /\ step.at \in CrashSteps
    /\ text_buffer # <<>> /\ step.at \notin {"write_record", "write_header", "retry_header"}
         => "buffered" \in CrashSteps
    /\ status' = "down"
    /\ header' = NoHeader
    /\ text_buffer' = <<>>
    /\ is_open' = FALSE
    /\ step' = Idle
    /\ UNCHANGED <<disk>>

\* The constructor with both files there.
OpenFiles ==
    /\ status # "up"
    /\ {"entry", "text"} \subseteq exists
    /\ status' = "up"
    /\ header' = entry_file.header
    /\ is_open' = TRUE
    /\ UNCHANGED <<disk, text_buffer, step>>

\* The constructor with neither of them: an empty entry file, then a text file.
CreateEntryFile ==
    /\ status # "up"
    /\ exists \cap {"entry", "text"} = {}
    /\ status' = "up"
    /\ exists' = exists \union {"entry"}
    /\ entry_file' = EmptyEntry
    /\ step' = [at |-> "create_text"]
    /\ UNCHANGED <<text_file, temp_entry, temp_text, header, text_buffer, is_open>>

CreateTextFile ==
    /\ status = "up" /\ step.at = "create_text"
    /\ exists' = exists \union {"text"}
    /\ text_file' = <<>>
    /\ header' = entry_file.header
    /\ is_open' = TRUE
    /\ step' = Idle
    /\ UNCHANGED <<status, entry_file, temp_entry, temp_text, text_buffer>>

\* The constructor with one of them: it throws, as often as it is restarted.
RefuseToStart ==
    /\ status # "up"
    /\ Cardinality(exists \cap {"entry", "text"}) = 1
    /\ status' = "refused"
    /\ UNCHANGED <<disk, ram>>

Init ==
    /\ status = "down"
    /\ exists = {}
    /\ entry_file = EmptyEntry
    /\ text_file = <<>>
    /\ temp_entry = EmptyEntry
    /\ temp_text = <<>>
    /\ header = NoHeader
    /\ text_buffer = <<>>
    /\ is_open = FALSE
    /\ step = Idle

Next ==
    \/ \E id \in Id, v \in Val : WriteText(id, v)
    \/ WriteRecord
    \/ WriteHeader
    \/ HeaderFails
    \/ RetryHeader
    \/ WriteFails
    \/ ReadText
    \/ Save
    \/ \E id \in Id : DeleteRecord(id)
    \/ DeleteHeader
    \/ DeleteText
    \/ CompactCopy
    \/ RemoveEntryFile
    \/ RemoveTextFile
    \/ RenameEntry
    \/ RenameText
    \/ Reopen
    \/ CopyFails
    \/ SwapFails
    \/ Crash
    \/ OpenFiles
    \/ CreateEntryFile
    \/ CreateTextFile
    \/ RefuseToStart

Spec == Init /\ [][Next]_vars

-----------------------------------------------------------------------------
(* Properties.                                                             *)

Cell == {0, 1} \union Val
Record == [flag : {0, 1}, id : Id, val : Val, off : Nat, len : Nat]
Header == [live : Nat, total : Nat]

\* The types of the files and of the members.
TypeOK ==
    /\ status \in {"down", "up", "refused"}
    /\ exists \subseteq {"entry", "text", "temp_entry", "temp_text"}
    /\ \A file \in {entry_file, temp_entry} :
        file.header \in Header /\ file.recs \in Seq(Record)
    /\ text_file \in Seq(Cell) /\ temp_text \in Seq(Cell) /\ text_buffer \in Seq(Cell)
    /\ header \in Header
    /\ is_open \in BOOLEAN
    /\ step.at \in SwapSteps \union {"idle", "write_record", "write_header", "retry_header",
                                     "delete_header", "delete_text", "create_text"}

\* Between two calls the header in RAM is the one on disk, once a flush that
\* failed has been made up for: a restart, SAVE or compaction never reads counts
\* older than the last command.
HeaderIsFlushed == Ready => header = entry_file.header

\* The live records that the header of the entry file makes visible.
Flagged(h, recs) == {i \in 0 .. Len(recs) - 1 : i < h.total /\ recs[i + 1].flag = 1}

\* Wherever the process is killed, the header on disk never counts fewer live
\* records than it makes visible: insert writes the record before the header
\* and delete the tombstone before the header.  Compaction relies on it, since
\* it takes the live count as the number of records of the new file.
NeverUndercount ==
    Cardinality(Flagged(entry_file.header, entry_file.recs)) <= entry_file.header.live

\* From the moment compact starts to replace the files until it returns, or
\* fails in between, everything that was readable before is readable in the
\* new generation, whatever part of it has been renamed already.
CompactionKeepsContents ==
    step.at \in SwapSteps =>
        LET e == IF "temp_entry" \in exists THEN temp_entry ELSE entry_file
            t == IF "temp_text" \in exists THEN temp_text ELSE text_file
        IN  Contents(e.header, e.recs, t) = step.kept

\* The documents that a loop of read_entry delivers by the header on disk, and
\* in a swap those that are to be kept.  The text that the stream still holds
\* counts: the process reads it, while one started after a kill would not.
docs ==
    IF step.at \in SwapSteps THEN step.kept
    ELSE Contents(entry_file.header, entry_file.recs, AllText)

\* Written, deleted and compacted this way the files are a log of documents:
\* no call changes, loses or reorders a document it does not name, and a
\* document is there with its own text as soon as the call returns.
Log == INSTANCE DocumentLog WITH
           Doc <- [id : Id, val : Val, text : {Text(v) : v \in Val}],
           IdOf <- LAMBDA d : d.id
ImplementsLog == Log!Spec

\* What file_manager.h says write_entry has done when it returns ("True upon
\* successful disk flush") and what protocol.md says of INSERT ("Persists one
\* vector, its text payload"): killing an idle process loses no document.
KillKeepsDocuments == [][Crash /\ step = Idle => docs' = docs]_vars

\* The texts of two records, flag bytes included, share no cell.
Apart(r, t) == r.off + r.len < t.off \/ t.off + t.len < r.off

\* The live records, and what else claims a text, have one each of their own:
\* what holds until a kill loses a text that its record already points to.
Intact(others) ==
    LET live == Flagged(entry_file.header, entry_file.recs)
        rec(i) == entry_file.recs[i + 1]
    IN  /\ \A r \in {rec(i) : i \in live} \union others : text_readable(AllText, r.off, r.len)
        /\ \A i, j \in live : i # j => Apart(rec(i), rec(j))
        /\ \A r \in others, i \in live : Apart(r, rec(i))

\* A kill of an idle process loses at most the document that was inserted
\* last: each later call that touches the text file writes out the text before.
KillLosesAtMostTheLast ==
    [][Crash /\ step = Idle /\ Intact({}) => docs' \in {docs, SubSeq(docs, 1, Len(docs) - 1)}]_vars

\* When write_entry returns true the running process reads the new document
\* back, by the header on disk and with its own text, unless a kill has left a
\* record beyond the total of the header: then the total reaches that record and
\* not the new one.  (Whether a new process reads it is KillKeepsDocuments.)
InsertIsReadable ==
    [][WriteHeader /\ Len(entry_file.recs) <= header.total + 1 =>
        \E k \in DOMAIN docs' :
            docs'[k].id = step.rec.id /\ docs'[k].text = Text(step.rec.val)]_vars

\* The tombstone of a DELETE takes out the first document of its id, or none
\* if a kill has lost its text, and the zero it writes into the text file
\* changes no document, as long as every record has a text of its own.
DeleteTouchesOneId ==
    [][/\ \A id \in Id : DeleteRecord(id) => Log!Remove(id) \/ docs' = docs
       /\ DeleteText /\ Intact({step.rec}) => docs' = docs]_vars
=============================================================================
