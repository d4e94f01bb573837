-------------------------------- MODULE Server --------------------------------
(***************************************************************************)
(* Vector_Server::handle_client: one thread per connection over one store  *)
(* and one set of files, store_mutex_ around what each command does to     *)
(* them, the replies sent after the unlock.  Each access to the store or   *)
(* the files is a step of its own, so what is atomic is what the mutex     *)
(* makes atomic.                                                           *)
(*                                                                         *)
(* ram holds the rows of Vector_store, disk the live records of            *)
(* File_manager; a row carries the number of the record it was made from,  *)
(* whose text it points at.  Layout, index and kills are the subject of    *)
(* VectorStore, FileManager and Engine, framing that of Connection: a line *)
(* is a Request once it is complete.  Writes and compactions may fail;     *)
(* reads fail only when the streams are closed.                            *)
(***************************************************************************)
EXTENDS Naturals, FiniteSets, Sequences

CONSTANTS
    Conn,           \* connections
    Id,             \* ids
    Val,            \* a vector with its text
    NoText,         \* a hit whose text could not be read
    Zero,           \* one that normalise_vector refuses
    Lines,          \* the commands clients send
    NoRequest,      \* no command
    None,           \* no thread
    Quitters,       \* connections whose client may leave at any moment
    Failures,       \* BOOLEAN, or {FALSE} when file operations never fail
    Boots,          \* the rows, tombstones and last_build_at run() may start with
    TopK,           \* top_k of every QUERY
    StartsAt,       \* schema::OPTIMIZE_REM_STARTS_AT
    Factor,         \* schema::OPTIMIZE_FACTOR
    DeleteFactor,   \* schema::DELETE_FACTOR
    MaxInbox,       \* bound of the model on lines in one accumulator
    MaxRequests     \* bounds of the model on the commands of each connection

Op == {"INSERT", "QUERY", "DELETE", "OPTIMIZE", "SAVE", "LOAD", "bad", "unknown"}
Request == [op : Op, id : Id, val : Val]
Row == [id : Id, val : Val, no : Nat]
Hit == [id : Id, val : Val \union {NoText}]
OnePerId(rows) == \A d, e \in rows : d.id = e.id => d = e

ASSUME ServerAssumption ==
    /\ Lines \subseteq Request
    /\ NoRequest \notin Request
    /\ None \notin Conn
    /\ NoText \notin Val
    /\ TopK \in Nat \ {0}
    /\ \A boot \in Boots :
        /\ boot.rows \subseteq Row /\ IsFiniteSet(boot.rows) /\ OnePerId(boot.rows)
        /\ boot.dead \in Nat /\ boot.built \in Nat /\ boot.written \in Nat
        /\ \A d \in boot.rows : d.no <= boot.written
    /\ StartsAt \in Nat /\ Factor \in Nat /\ DeleteFactor \in Nat
    /\ MaxInbox \in Nat /\ MaxRequests \in [Conn -> Nat]

VARIABLES
    alive,          \* the process runs
    conn,           \* the state of the socket, as the server's kernel sees it
    inbox,          \* complete lines of the accumulator and the socket
    pc,             \* where the thread of the connection is
    cmd,            \* the line it works on
    found,          \* rows a QUERY has selected
    result,         \* what it will reply
    left,           \* how many pieces of the reply are to be sent
    mutex,          \* who holds store_mutex_
    ram,            \* the rows of vector_store
    disk,           \* the live records of file_manager
    written,        \* how many records have been written
    dead,           \* tombstones since the last compaction
    is_open,        \* the streams of file_manager are open
    moved,          \* ids of rows whose text a compaction has moved since
    apart,          \* ids whose INSERT or DELETE failed half way, so that RAM
                    \* and disk may differ on them
    built,          \* last_build_at
    asked,          \* answerable commands sent
    answered        \* replies delivered in full

network == <<conn, inbox, asked>>
thread == <<pc, cmd, found, result, left>>
files == <<disk, written, dead, is_open>>
store == <<ram, files, moved, apart, built>>
vars == <<alive, network, thread, mutex, store, answered>>

Plain(kind) == [kind |-> kind, hits |-> {}]
NoResult == Plain("none")
InDocs(id, rows) == \E d \in rows : d.id = id

\* The record that the command r writes as number no.
RowOf(r, no) == [id |-> r.id, val |-> r.val, no |-> no]

\* The step of the thread of c goes from one place to another.
Goto(c, from, to) ==
    /\ alive
    /\ pc[c] = from
    /\ pc' = [pc EXCEPT ![c] = to]

\* The command has its result, and the thread goes on to the end of the block.
Decide(c, r) == result' = [result EXCEPT ![c] = r]

-----------------------------------------------------------------------------
(* Clients and the accept loop.                                            *)

Connect(c) ==
    /\ conn[c] = "none"
    /\ conn' = [conn EXCEPT ![c] = "open"]
    /\ Goto(c, "none", "recv")
    /\ UNCHANGED <<alive, inbox, asked, cmd, found, result, left, mutex, store, answered>>

\* A client may send on without waiting for replies.
SendLine(c, r) ==
    /\ alive
    /\ conn[c] = "open"
    /\ Len(inbox[c]) < MaxInbox /\ asked[c] < MaxRequests[c]
    /\ inbox' = [inbox EXCEPT ![c] = Append(@, r)]
    /\ asked' = IF r.op = "unknown" THEN asked ELSE [asked EXCEPT ![c] = @ + 1]
    /\ UNCHANGED <<alive, conn, thread, mutex, store, answered>>

Quit(c) ==
    /\ alive
    /\ c \in Quitters /\ conn[c] = "open"
    /\ conn' = [conn EXCEPT ![c] = "closed"]
    /\ UNCHANGED <<alive, inbox, asked, thread, mutex, store, answered>>

-----------------------------------------------------------------------------
(* The loop of handle_client.                                              *)

TakeLine(c) ==
    /\ inbox[c] # <<>>
    /\ Goto(c, "recv", "parse")
    /\ cmd' = [cmd EXCEPT ![c] = Head(inbox[c])]
    /\ inbox' = [inbox EXCEPT ![c] = Tail(@)]
    /\ UNCHANGED <<alive, conn, asked, found, result, left, mutex, store, answered>>

\* Mutant: only the 0 of an orderly close ends the loop.
Leave_on_eof(c) ==
    /\ conn[c] = "closed" /\ inbox[c] = <<>>
    /\ Goto(c, "recv", "ended")
    /\ UNCHANGED <<alive, network, cmd, found, result, left, mutex, store, answered>>

\* recv returns 0 when the client has closed and everything is read, and fails
\* after a reset: lines not yet received are lost.
Leave(c) ==
    /\ \/ conn[c] = "closed" /\ inbox[c] = <<>>
       \/ conn[c] = "reset"
    /\ Goto(c, "recv", "ended")
    /\ inbox' = [inbox EXCEPT ![c] = <<>>]
    /\ UNCHANGED <<alive, conn, asked, cmd, found, result, left, mutex, store, answered>>

Parse(c) ==
    /\ Goto(c, "parse", "lock")
    /\ cmd[c].op \notin {"bad", "unknown"}
    /\ UNCHANGED <<alive, network, cmd, found, result, left, mutex, store, answered>>

\* Mutant: a parse error is not reported.
ParseFails_silent(c) ==
    /\ Goto(c, "parse", "recv")
    /\ cmd[c].op = "bad"
    /\ cmd' = [cmd EXCEPT ![c] = NoRequest]
    /\ UNCHANGED <<alive, network, found, result, left, mutex, store, answered>>

\* The parser's message is sent without taking the lock.
ParseFails(c) ==
    /\ Goto(c, "parse", "reply")
    /\ cmd[c].op = "bad"
    /\ Decide(c, Plain("error"))
    /\ left' = [left EXCEPT ![c] = 1]
    /\ UNCHANGED <<alive, network, cmd, found, mutex, store, answered>>

\* No branch is taken: no reply.
NoBranch(c) ==
    /\ Goto(c, "parse", "recv")
    /\ cmd[c].op = "unknown"
    /\ cmd' = [cmd EXCEPT ![c] = NoRequest]
    /\ UNCHANGED <<alive, network, found, result, left, mutex, store, answered>>

\* Mutant: commands on different connections do not exclude each other.
Lock_shared(c) ==
    /\ mutex' = c
    /\ Goto(c, "lock", cmd[c].op)
    /\ UNCHANGED <<alive, network, cmd, found, result, left, store, answered>>

Lock(c) ==
    /\ mutex = None
    /\ mutex' = c
    /\ Goto(c, "lock", cmd[c].op)
    /\ UNCHANGED <<alive, network, cmd, found, result, left, store, answered>>

\* Mutant: a single-line reply counts as sent.
Unlock_no_piece(c) ==
    /\ Goto(c, "unlock", "reply")
    /\ mutex' = None
    /\ left' = [left EXCEPT ![c] =
                   IF cmd[c].op = "QUERY" /\ result[c].kind = "ok"
                   THEN Cardinality(found[c]) + 2 ELSE 0]
    /\ found' = [found EXCEPT ![c] = {}]
    /\ UNCHANGED <<alive, network, cmd, result, store, answered>>

\* The lock_guard's block ends.  QUERY sends a header, its hits and END.
Unlock(c) ==
    /\ Goto(c, "unlock", "reply")
    /\ mutex' = None
    /\ left' = [left EXCEPT ![c] =
                   IF cmd[c].op = "QUERY" /\ result[c].kind = "ok"
                   THEN Cardinality(found[c]) + 2 ELSE 1]
    /\ found' = [found EXCEPT ![c] = {}]
    /\ UNCHANGED <<alive, network, cmd, result, store, answered>>

\* One send that succeeds.  On a connection the client has closed it makes the
\* peer answer with a reset, which may arrive before the next send.
SendPiece(c) ==
    /\ conn[c] # "reset"
    /\ \E state \in IF conn[c] = "closed" THEN {"closed", "reset"} ELSE {conn[c]} :
           conn' = [conn EXCEPT ![c] = state]
    /\ left' = [left EXCEPT ![c] = @ - 1]
    /\ IF left[c] > 1
       THEN Goto(c, "reply", "reply") /\ UNCHANGED <<cmd, result, answered>>
       ELSE /\ Goto(c, "reply", "recv")
            /\ cmd' = [cmd EXCEPT ![c] = NoRequest]
            /\ Decide(c, NoResult)
            /\ answered' = IF conn[c] = "open" THEN [answered EXCEPT ![c] = @ + 1] ELSE answered
    /\ UNCHANGED <<alive, inbox, asked, found, mutex, store>>

\* send on a socket that was reset raises SIGPIPE, which nothing handles.
BrokenPipe(c) ==
    /\ alive /\ pc[c] = "reply" /\ conn[c] = "reset"
    /\ alive' = FALSE
    /\ UNCHANGED <<network, thread, mutex, store, answered>>

-----------------------------------------------------------------------------
(* INSERT.                                                                 *)

InsertRefused(c) ==
    /\ Goto(c, "INSERT", "unlock")
    /\ \/ InDocs(cmd[c].id, ram) /\ Decide(c, Plain("duplicate"))
       \/ /\ ~InDocs(cmd[c].id, ram) /\ cmd[c].val = Zero
          /\ Decide(c, Plain("error"))
    /\ UNCHANGED <<alive, network, cmd, found, left, mutex, store, answered>>

InsertChecked(c) ==
    /\ Goto(c, "INSERT", "write")
    /\ ~InDocs(cmd[c].id, ram) /\ cmd[c].val # Zero
    /\ UNCHANGED <<alive, network, cmd, found, result, left, mutex, store, answered>>

WriteEntry(c) ==
    /\ is_open
    /\ Goto(c, "write", "make")
    /\ written' = written + 1
    /\ disk' = disk \union {RowOf(cmd[c], written')}
    /\ UNCHANGED <<alive, network, cmd, found, result, left, mutex, ram, dead, is_open, moved, apart,
                   built, answered>>

\* write_entry returns false before it has written a record.
WriteFails(c) ==
    /\ ~is_open \/ TRUE \in Failures
    /\ Goto(c, "write", "unlock")
    /\ Decide(c, Plain("error"))
    /\ UNCHANGED <<alive, network, cmd, found, left, mutex, store, answered>>

\* write_entry returns false because of flush_header: the record is written and
\* counted.
HeaderFails(c) ==
    /\ is_open /\ TRUE \in Failures
    /\ Goto(c, "write", "unlock")
    /\ written' = written + 1
    /\ disk' = disk \union {RowOf(cmd[c], written')}
    /\ apart' = apart \union {cmd[c].id}
    /\ Decide(c, Plain("error"))
    /\ UNCHANGED <<alive, network, cmd, found, left, mutex, ram, dead, is_open, moved, built, answered>>

MakeEntry(c) ==
    LET count == Cardinality(ram') IN
    /\ Goto(c, "make", "unlock")
    /\ ram' = ram \union {RowOf(cmd[c], written)}
    /\ moved' = moved \ {cmd[c].id}
    /\ Decide(c, Plain(IF count >= built * Factor /\ count >= StartsAt THEN "advice" ELSE "ok"))
    /\ UNCHANGED <<alive, network, cmd, found, left, mutex, files, apart, built, answered>>

-----------------------------------------------------------------------------
(* QUERY, DELETE.                                                          *)

QueryRefused(c) ==
    /\ Goto(c, "QUERY", "unlock")
    /\ cmd[c].val = Zero
    /\ Decide(c, Plain("error"))
    /\ UNCHANGED <<alive, network, cmd, found, left, mutex, store, answered>>

\* Mutant: the lock is given back before the texts are read.
Search_unlocks(c) ==
    /\ Goto(c, "QUERY", "texts")
    /\ mutex' = None
    /\ cmd[c].val # Zero
    /\ \E S \in SUBSET ram :
        /\ Cardinality(S) <= TopK
        /\ ram # {} => S # {}
        /\ found' = [found EXCEPT ![c] = S]
    /\ UNCHANGED <<alive, network, cmd, result, left, store, answered>>

Search(c) ==
    /\ Goto(c, "QUERY", "texts")
    /\ cmd[c].val # Zero
    /\ \E S \in SUBSET ram :
        /\ Cardinality(S) <= TopK
        /\ ram # {} => S # {}
        /\ found' = [found EXCEPT ![c] = S]
    /\ UNCHANGED <<alive, network, cmd, result, left, mutex, store, answered>>

\* What read_text may return for a row: it reads where the text was when the
\* row was made, and a DELETE that failed half way may have marked it deleted.
TextsOf(row) ==
    IF ~is_open THEN {NoText}
    ELSE IF row.id \in moved THEN Val \union {NoText}
    ELSE IF row \in disk THEN {row.val} ELSE {row.val, NoText}

ReadTexts(c) ==
    /\ Goto(c, "texts", "unlock")
    /\ \E text \in [found[c] -> Val \union {NoText}] :
        /\ \A row \in found[c] : text[row] \in TextsOf(row)
        /\ Decide(c, [kind |-> "ok", hits |-> {[id |-> row.id, val |-> text[row]] : row \in found[c]}])
    /\ UNCHANGED <<alive, network, cmd, found, left, mutex, store, answered>>

\* The id is not found, or delete_entry fails before it writes.
DeleteRefused(c) ==
    /\ Goto(c, "DELETE", "unlock")
    /\ ~is_open \/ ~InDocs(cmd[c].id, disk) \/ TRUE \in Failures
    /\ Decide(c, Plain("error"))
    /\ UNCHANGED <<alive, network, cmd, found, left, mutex, store, answered>>

\* What find_by_id finds becomes a tombstone.
Bury(id) ==
    /\ is_open
    /\ \E d \in disk : d.id = id /\ disk' = disk \ {d}
    /\ dead' = dead + 1

\* find_by_id and delete_entry.
DeleteEntry(c) ==
    /\ Goto(c, "DELETE", "remove")
    /\ Bury(cmd[c].id)
    /\ UNCHANGED <<alive, network, cmd, found, result, left, mutex, ram, written, is_open, moved, apart,
                   built, answered>>

\* delete_entry returns false because of the text flag, when the record is a
\* tombstone already: remove_entry is not called.
DeleteFails(c) ==
    /\ TRUE \in Failures
    /\ Goto(c, "DELETE", "unlock")
    /\ Bury(cmd[c].id)
    /\ apart' = apart \union {cmd[c].id}
    /\ Decide(c, Plain("error"))
    /\ UNCHANGED <<alive, network, cmd, found, left, mutex, ram, written, is_open, moved, built, answered>>

compact_allowed ==
    LET total == Cardinality(disk) + dead IN total # 0 /\ dead * DeleteFactor >= total

RemoveEntry(c) ==
    /\ \/ /\ Goto(c, "remove", IF compact_allowed THEN "compact" ELSE "unlock")
          /\ \E d \in ram : d.id = cmd[c].id /\ ram' = ram \ {d}
          /\ Decide(c, Plain("ok"))
       \/ /\ Goto(c, "remove", "unlock")
          /\ ~InDocs(cmd[c].id, ram)
          /\ Decide(c, Plain("error"))
          /\ UNCHANGED ram
    /\ UNCHANGED <<alive, network, cmd, found, left, mutex, files, moved, apart, built, answered>>

\* The offsets in RAM stay what they were.
Compact(c) ==
    /\ Goto(c, "compact", "unlock")
    /\ dead' = 0
    /\ moved' = {d.id : d \in ram}
    /\ UNCHANGED <<alive, network, cmd, found, result, left, mutex, ram, disk, written, is_open, apart,
                   built, answered>>

\* While it copies, or while it swaps the files: then both streams stay closed.
\* The reply still says that the DELETE was successful.
CompactFails(c) ==
    /\ TRUE \in Failures
    /\ Goto(c, "compact", "unlock")
    /\ is_open' \in BOOLEAN
    /\ UNCHANGED <<alive, network, cmd, found, result, left, mutex, ram, disk, written, dead, moved, apart,
                   built, answered>>

-----------------------------------------------------------------------------
(* OPTIMIZE, SAVE, LOAD.                                                   *)

OptimizeIndex(c) ==
    /\ Goto(c, "OPTIMIZE", "unlock")
    /\ built' = Cardinality(ram)
    /\ Decide(c, Plain("ok"))
    /\ UNCHANGED <<alive, network, cmd, found, left, mutex, ram, files, moved, apart, answered>>

FlushHeader(c) ==
    /\ Goto(c, "SAVE", "unlock")
    /\ Decide(c, Plain("ok"))
    /\ UNCHANGED <<alive, network, cmd, found, left, mutex, store, answered>>

Clear(c) ==
    /\ Goto(c, "LOAD", "fill")
    /\ ram' = {}
    /\ UNCHANGED <<alive, network, cmd, found, result, left, mutex, files, moved, apart, built, answered>>

\* read_entry, which fails on closed streams, and make_entry of a next record.
LoadEntry(c) ==
    /\ is_open
    /\ Goto(c, "fill", "fill")
    /\ \E d \in disk \ ram : ram' = ram \union {d}
    /\ UNCHANGED <<alive, network, cmd, found, result, left, mutex, files, moved, apart, built, answered>>

\* The ids of which the disk has several records.
Doubled == {id \in Id : \E d, e \in disk : d # e /\ d.id = id /\ e.id = id}

LoadDone(c) ==
    /\ is_open => disk \subseteq ram
    /\ Goto(c, "fill", "unlock")
    /\ built' = Cardinality(ram)
    /\ moved' = {}
    /\ apart' = IF is_open THEN apart \intersect Doubled ELSE apart
    /\ Decide(c, Plain("ok"))
    /\ UNCHANGED <<alive, network, cmd, found, left, mutex, ram, files, answered>>

-----------------------------------------------------------------------------

Init ==
    /\ alive = TRUE
    /\ conn = [c \in Conn |-> "none"]
    /\ inbox = [c \in Conn |-> <<>>]
    /\ pc = [c \in Conn |-> "none"]
    /\ cmd = [c \in Conn |-> NoRequest]
    /\ found = [c \in Conn |-> {}]
    /\ result = [c \in Conn |-> NoResult]
    /\ left = [c \in Conn |-> 0]
    /\ mutex = None
    /\ \E boot \in Boots :
        /\ disk = boot.rows /\ ram = boot.rows
        /\ dead = boot.dead /\ built = boot.built /\ written = boot.written
    /\ is_open = TRUE /\ moved = {} /\ apart = {}
    /\ asked = [c \in Conn |-> 0]
    /\ answered = [c \in Conn |-> 0]

\* What the thread of c does until it waits for its client again.
Work(c) ==
    \/ TakeLine(c) \/ Leave(c)
    \/ Parse(c) \/ ParseFails(c) \/ NoBranch(c)
    \/ Lock(c) \/ Unlock(c)
    \/ SendPiece(c) \/ BrokenPipe(c)
    \/ InsertRefused(c) \/ InsertChecked(c) \/ WriteEntry(c) \/ WriteFails(c) \/ HeaderFails(c)
    \/ MakeEntry(c)
    \/ QueryRefused(c) \/ Search(c) \/ ReadTexts(c)
    \/ DeleteRefused(c) \/ DeleteEntry(c) \/ DeleteFails(c) \/ RemoveEntry(c)
    \/ Compact(c) \/ CompactFails(c)
    \/ OptimizeIndex(c) \/ FlushHeader(c)
    \/ Clear(c) \/ LoadEntry(c) \/ LoadDone(c)

\* Every thread waits in recv or has ended, or the process is gone.
Quiet ==
    /\ ~alive \/ \A c \in Conn : pc[c] \in {"none", "recv", "ended"} /\ inbox[c] = <<>>
    /\ UNCHANGED vars

Next ==
    \/ \E c \in Conn : Connect(c) \/ Quit(c) \/ \E r \in Lines : SendLine(c, r)
    \/ \E c \in Conn : Work(c)
    \/ Quiet

Spec == Init /\ [][Next]_vars

\* Threads are scheduled fairly.  std::mutex is not fair: that a thread which
\* waits for it gets it follows only because the others stop sending.
FairSpec == Spec /\ \A c \in Conn : WF_vars(Work(c))

-----------------------------------------------------------------------------
(* Properties.                                                             *)

Waiting == {"none", "recv", "ended"}
Unlocked == Waiting \union {"parse", "lock", "reply"}
Locked == {"INSERT", "QUERY", "DELETE", "OPTIMIZE", "SAVE", "LOAD", "write", "make",
           "texts", "remove", "compact", "fill", "unlock"}

TypeOK ==
    /\ alive \in BOOLEAN
    /\ conn \in [Conn -> {"none", "open", "closed", "reset"}]
    /\ inbox \in [Conn -> Seq(Lines)]
    /\ pc \in [Conn -> Unlocked \union Locked]
    /\ cmd \in [Conn -> Lines \union {NoRequest}]
    /\ found \in [Conn -> SUBSET Row]
    /\ result \in [Conn -> [kind : {"none", "ok", "advice", "duplicate", "error"},
                            hits : SUBSET Hit]]
    /\ left \in [Conn -> Nat]
    /\ mutex \in Conn \union {None}
    /\ ram \in SUBSET Row /\ disk \in SUBSET Row
    /\ written \in Nat /\ dead \in Nat /\ built \in Nat
    /\ is_open \in BOOLEAN /\ moved \in SUBSET Id /\ apart \in SUBSET Id
    /\ asked \in [Conn -> Nat] /\ answered \in [Conn -> Nat]

\* The rows of the ids on which no INSERT or DELETE has failed half way.
Sure(rows) == {d \in rows : d.id \notin apart}

\* Whenever store_mutex_ is free, RAM and disk hold the same documents and no
\* id twice, whatever INSERTs, DELETEs and LOADs of other connections ran and
\* failed.  Excepted are the ids whose INSERT or DELETE was answered with an
\* error after its record had been written or deleted, until a LOAD reads at
\* most one record of them, and a server whose compaction failed in the swap,
\* which has closed its files.
FreeStoreIsConsistent ==
    mutex = None /\ is_open => Sure(ram) = Sure(disk) /\ OnePerId(Sure(ram))

\* The documents as the clients see them: while LOAD has cleared RAM and is
\* filling it, those on disk.
Docs == Sure(IF mutex # None /\ pc[mutex] = "fill" /\ is_open THEN disk ELSE ram)

DB == INSTANCE Database WITH
          docs <- {[id |-> d.id, val |-> d.val] : d \in Docs},
          unsure <- apart,
          open <- is_open,
          online <- [c \in Conn |-> conn[c] = "open"],
          calls <- inbox,
          current <- cmd,
          Request <- Lines

\* Every command takes effect at one moment between being taken up and being
\* answered, on one collection of documents, and each connection is answered
\* in the order it sent.  Database says what that leaves open: an id whose
\* INSERT or DELETE failed half way, the text of a document that a compaction
\* has moved, and every text once the files are closed.
ImplementsDatabase == DB!Spec

\* As long as a client stays and the process lives, every command the server
\* knows is answered in the end, whatever the other clients do: no path
\* through a command keeps the mutex or forgets its reply.
EveryRequestAnswered ==
    \A c \in Conn :
        (answered[c] # asked[c]) ~> (answered[c] = asked[c] \/ conn[c] # "open" \/ ~alive)

\* The thread of a client that has left ends, even if it was in the middle of
\* a command or of a reply.
ThreadsEnd ==
    \A c \in Conn : (conn[c] \in {"closed", "reset"}) ~> (pc[c] = "ended" \/ ~alive)
=============================================================================
