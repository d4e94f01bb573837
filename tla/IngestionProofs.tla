--------------------------- MODULE IngestionProofs ---------------------------
(***************************************************************************)
(* Theorems about Ingestion, for any files, chunks and failures: type      *)
(* correctness, that what is counted as accepted is in the engine, that    *)
(* the ledger loses no record, and that a load records every file.         *)
(***************************************************************************)
EXTENDS Ingestion, TLAPS

\* The chunks the process sends: of a file, and not too long.
Sendable == {c \in Chunk : c \in ChunksIn(c[1]) /\ c \notin Oversized}

\* In the loop over the chunks, next is one of them.
PlaceOK ==
    /\ pc \in {"chunk", "wait"} => next >= 1
    /\ pc = "wait" => next <= ChunksOf[file] /\ <<file, next>> \notin Oversized

\* Whatever reaches the engine was sendable, and stands under its own id.
StoreOK ==
    /\ requests \in Seq(Sendable) /\ orphans \subseteq Sendable
    /\ \A id \in Id : stored[id] # NoChunk =>
           stored[id] \in Sendable /\ build_doc_id(stored[id]) = id

Taken(chunk) == stored[build_doc_id(chunk)] # NoChunk

\* Without a timeout, what is outstanding is one INSERT of the current chunk,
\* or its reply, which tells the truth.
StepOK ==
    ~late => \/ pc # "wait" /\ requests = <<>> /\ replies = <<>>
             \/ pc = "wait" /\ requests = << <<file, next>> >> /\ replies = <<>>
             \/ /\ pc = "wait" /\ requests = <<>>
                /\ \E r : replies = <<r>> /\ (r # "error" => Taken(<<file, next>>))

AcceptedOK ==
    ~late => /\ \A chunk \in inserted_ids : Taken(chunk)
             /\ \A f \in File : \A chunk \in ledger[f].accepted : Taken(chunk)

InFile == {"chunk", "wait", "handler"}

\* A load has a record of every file it has left behind; the file it is at is
\* one the ledger does not count as taken.
RecordedOK ==
    /\ ~spoilt =>
        /\ pc = "next" => \A f \in File \ files : Recorded(f)
        /\ pc \in InFile => \A f \in File \ (files \union {file}) : Recorded(f)
        /\ pc \in Saving => \A f \in File \ files : ledger[f].status # "none"
    /\ pc \in InFile => ~is_already_ingested(file)
    /\ pc \in Saving => torn

IInv == TypeOK /\ PlaceOK /\ StoreOK /\ StepOK /\ AcceptedOK /\ RecordedOK

-----------------------------------------------------------------------------
(* Facts about the operators.                                              *)

LEMMA ChunkFacts ==
    ASSUME NEW f \in File, NEW i \in 1..ChunksOf[f]
    PROVE  /\ <<f, i>> \in Chunk /\ <<f, i>> \in ChunksIn(f)
           /\ <<f, i>> \notin Oversized => <<f, i>> \in Sendable
  BY IngestionAssumption DEF IngestionAssumption, Chunk, ChunksIn, Sendable

LEMMA StatusRange ==
    ASSUME NEW f \in File, NEW accepted
    PROVE  Status(f, accepted) \in {"failed", "partial", "successful"}
  BY DEF Status

Record_ == [status : {"none", "failed", "partial", "successful"}, accepted : SUBSET Chunk]

LEMMA LoadFacts ==
    ASSUME TypeOK
    PROVE  /\ load_ledger \in [File -> Record_]
           /\ \A g \in File : load_ledger[g] = ledger[g] \/ load_ledger[g] = NoRecord
           /\ ~torn => load_ledger = ledger
  BY DEF TypeOK, load_ledger, NoLedger, NoRecord, Record_

\* A record for f changes no other, as far as the file can be read.
LEMMA RecordFacts ==
    ASSUME NEW f \in File, NEW accepted \in SUBSET ChunksIn(f), TypeOK,
           record_ingestion(f, accepted)
    PROVE  /\ torn' = TRUE /\ spoilt' = spoilt
           /\ ledger' \in [File -> Record_]
           /\ \A g \in File :
                /\ ledger'[g].accepted \subseteq ChunksIn(g)
                /\ ledger'[g].accepted \subseteq ledger[g].accepted \union accepted
                /\ g # f => ledger'[g] = load_ledger[g]
           /\ ledger'[f].status # "none"
  <1> DEFINE new == [status |-> Status(f, accepted), accepted |-> accepted]
  <1>1. new \in Record_ /\ new.status # "none" /\ new.accepted = accepted
    BY StatusRange, IngestionAssumption DEF Record_, IngestionAssumption, ChunksIn, Chunk
  <1>2. ledger' = [load_ledger EXCEPT ![f] = new]
    BY DEF record_ingestion
  <1> HIDE DEF new
  <1>3. ledger' \in [File -> Record_]
    BY <1>1, <1>2, LoadFacts
  <1>4. ledger'[f] = new /\ \A g \in File : g # f => ledger'[g] = load_ledger[g]
    BY <1>2, LoadFacts
  <1>5. \A g \in File : /\ load_ledger[g].accepted \subseteq ledger[g].accepted
                        /\ load_ledger[g].accepted \subseteq ChunksIn(g)
    <2> TAKE g \in File
    <2>1. load_ledger[g] = ledger[g] \/ load_ledger[g] = NoRecord
      BY LoadFacts
    <2>2. ledger[g].accepted \subseteq ChunksIn(g) /\ NoRecord.accepted = {}
      BY DEF TypeOK, NoRecord
    <2> QED
      BY <2>1, <2>2
  <1> QED
    BY <1>1, <1>3, <1>4, <1>5 DEF record_ingestion

-----------------------------------------------------------------------------
(* Type correctness.                                                       *)

LEMMA InitTyped == Init => IInv
  <1> SUFFICES ASSUME Init PROVE IInv
    OBVIOUS
  <1> USE IngestionAssumption DEF IngestionAssumption, Init
  <1>1. TypeOK
    <2>1. file \in File
      BY DEF Nobody
    <2>2. ledger \in [File -> Record_] /\ \A f \in File : ledger[f] = NoRecord
      BY DEF NoLedger, NoRecord, Record_
    <2>3. \A f \in File : ledger[f].accepted \subseteq ChunksIn(f)
      BY <2>2 DEF NoRecord
    <2>4. stored \in [Id -> Chunk \union {NoChunk}]
      OBVIOUS
    <2>5. /\ requests \in Seq(Chunk) /\ orphans \subseteq Chunk
          /\ replies \in Seq({"ok", "warning", "error"})
      OBVIOUS
    <2>6. next \in 0..MaxChunks + 1 /\ kills \in 0..MaxKills /\ runs \in 0..MaxRuns
      OBVIOUS
    <2>7. /\ pc \in {"off", "idle", "next", "chunk", "wait", "save", "handler", "resave"} /\ files \subseteq File
          /\ torn \in BOOLEAN /\ spoilt \in BOOLEAN /\ late \in BOOLEAN /\ inserted_ids \subseteq ChunksIn(file)
      OBVIOUS
    <2> HIDE DEF Init
    <2> QED
      BY <2>1, <2>2, <2>3, <2>4, <2>5, <2>6, <2>7 DEF TypeOK, Record_
  <1>2. PlaceOK /\ StepOK /\ RecordedOK
    BY DEF PlaceOK, StepOK, RecordedOK, InFile, Saving
  <1>3. StoreOK
    BY DEF StoreOK
  <1>4. AcceptedOK
    BY DEF AcceptedOK, NoLedger, NoRecord
  <1> QED
    BY <1>1, <1>2, <1>3, <1>4 DEF IInv

-----------------------------------------------------------------------------
(* Each conjunct is preserved.                                             *)

\* A step keeps every variable in its type.
LEMMA TypeStep ==
    ASSUME IInv, [Next]_vars
    PROVE  TypeOK'
  <1> USE IngestionAssumption DEF IngestionAssumption, IInv, TypeOK, process, engine, book
  <1>1. CASE UNCHANGED vars
    BY <1>1 DEF vars
  <1>2. CASE IngestFolder
    <2>1. runs' \in 0..MaxRuns
      BY <1>2 DEF IngestFolder
    <2>2. files' = File /\ pc' = "next" /\ spoilt' = FALSE
      BY <1>2 DEF IngestFolder
    <2>3. UNCHANGED <<file, next, inserted_ids, requests, orphans, replies, stored, ledger, torn, late, kills>>
      BY <1>2 DEF IngestFolder
    <2>4. TypeOK
      OBVIOUS
    <2> HIDE DEF IInv
    <2> QED
      BY <2>1, <2>2, <2>3, <2>4
  <1>3. ASSUME NEW f \in File, Skip(f)
        PROVE  TypeOK'
    BY <1>3 DEF Skip
  <1>4. ASSUME NEW f \in File, ReadFails(f)
        PROVE  TypeOK'
    <2>1. {} \in SUBSET ChunksIn(f)
      OBVIOUS
    <2>2. CASE record_ingestion(f, {}) /\ pc' = "save"
      <3>1. /\ ledger' \in [File -> Record_]
            /\ \A g \in File : ledger'[g].accepted \subseteq ChunksIn(g)
        BY <1>4, <2>1, <2>2, RecordFacts
      <3> QED
        BY <1>4, <2>1, <2>2, <3>1 DEF ReadFails, record_ingestion, Record_
    <2>3. CASE CannotOpen /\ pc' = "handler"
      BY <1>4, <2>1, <2>3 DEF ReadFails, CannotOpen
    <2> QED
      BY <1>4, <2>2, <2>3 DEF ReadFails
  <1>5. ASSUME NEW f \in File, ReadChunks(f)
        PROVE  TypeOK'
    BY <1>5 DEF ReadChunks
  <1>6. CASE SkipChunk
    BY <1>6 DEF SkipChunk, AtChunk
  <1>7. CASE SendInsert
    <2>1. next \in 1..ChunksOf[file]
      BY <1>7 DEF SendInsert, AtChunk, PlaceOK
    <2>2. <<file, next>> \in Chunk
      BY <2>1, ChunkFacts
    <2>3. requests' \in Seq(Chunk)
      BY <1>7, <2>2 DEF SendInsert, AtChunk
    <2> QED
      BY <1>7, <2>3 DEF SendInsert, AtChunk
  <1>8. CASE Receive
    <2>1. next \in 1..ChunksOf[file]
      BY <1>8 DEF Receive, PlaceOK
    <2>2. inserted_ids' \subseteq ChunksIn(file)
      BY <1>8, <2>1, ChunkFacts DEF Receive
    <2>3. replies' \in Seq({"ok", "warning", "error"})
      BY <1>8 DEF Receive
    <2>4. next + 1 \in 0..MaxChunks + 1
      BY <2>1
    <2> QED
      BY <1>8, <2>2, <2>3, <2>4 DEF Receive
  <1>9. CASE Timeout
    <2>1. next \in 1..ChunksOf[file]
      BY <1>9 DEF Timeout, PlaceOK
    <2> QED
      BY <1>9, <2>1 DEF Timeout
  <1>10. CASE Record
    <2>1. inserted_ids \in SUBSET ChunksIn(file) /\ file \in File
      BY <1>10 DEF Record
    <2>2. CASE record_ingestion(file, inserted_ids) /\ pc' = "save"
      <3>1. /\ ledger' \in [File -> Record_]
            /\ \A g \in File : ledger'[g].accepted \subseteq ChunksIn(g)
        BY <2>1, <2>2, RecordFacts
      <3> QED
        BY <1>10, <2>1, <2>2, <3>1 DEF Record, record_ingestion, Record_
    <2>3. CASE CannotOpen /\ pc' = "handler"
      BY <1>10, <2>3 DEF Record, CannotOpen
    <2> QED
      BY <1>10, <2>2, <2>3 DEF Record
  <1>11. CASE Saved
    BY <1>11 DEF Saved
  <1>12. CASE FolderDone
    BY <1>12 DEF FolderDone
  <1>13. CASE Execute
    <2>1. requests # <<>> /\ Head(requests) \in Chunk /\ Tail(requests) \in Seq(Chunk)
      BY <1>13 DEF Execute
    <2>2. build_doc_id(Head(requests)) \in Id
      BY <2>1 DEF Id
    <2>3. stored' \in [Id -> Chunk \union {NoChunk}]
      BY <1>13, <2>1, <2>2 DEF Execute, Executed
    <2>4. replies' \in Seq({"ok", "warning", "error"})
      BY <1>13 DEF Execute
    <2> QED
      BY <1>13, <2>1, <2>3, <2>4 DEF Execute
  <1>14. CASE ExecuteOrphan
    <2>1. PICK chunk \in orphans : /\ \E reply \in {"ok", "warning", "error"} : Executed(chunk, reply)
                                   /\ orphans' = orphans \ {chunk}
      BY <1>14 DEF ExecuteOrphan
    <2>2. build_doc_id(chunk) \in Id
      BY <2>1 DEF Id
    <2>3. stored' \in [Id -> Chunk \union {NoChunk}]
      BY <2>1, <2>2 DEF Executed
    <2> QED
      BY <1>14, <2>1, <2>3 DEF ExecuteOrphan
  <1>15. CASE Kill
    <2>1. Nobody \in File
      BY DEF Nobody
    <2>2. {requests[i] : i \in DOMAIN requests} \subseteq Chunk
      OBVIOUS
    <2> QED
      BY <1>15, <2>1, <2>2 DEF Kill
  <1>16. CASE Start
    BY <1>16 DEF Start
  <1>17. CASE Raises
    BY <1>17 DEF Raises, AtChunk
  <1>18. CASE SaveFails
    BY <1>18 DEF SaveFails, Saving
  <1>19. CASE Handle
    <2>1. {} \in SUBSET ChunksIn(file) /\ file \in File
      OBVIOUS
    <2>2. CASE record_ingestion(file, {}) /\ pc' = "resave"
      <3>1. /\ ledger' \in [File -> Record_]
            /\ \A g \in File : ledger'[g].accepted \subseteq ChunksIn(g)
        BY <2>1, <2>2, RecordFacts
      <3> QED
        BY <1>19, <2>1, <2>2, <3>1 DEF Handle, record_ingestion, Record_
    <2>3. CASE CannotOpen /\ pc' = "idle"
      BY <1>19, <2>3 DEF Handle, CannotOpen
    <2> QED
      BY <1>19, <2>2, <2>3 DEF Handle
  <1> QED
    BY <1>1, <1>2, <1>3, <1>4, <1>5, <1>6, <1>7, <1>8, <1>9, <1>10, <1>11, <1>12, <1>13, <1>14, <1>15, <1>16, <1>17, <1>18, <1>19 DEF Next, Work, Quiet

\* A step stays within the chunks of the file.
LEMMA PlaceStep ==
    ASSUME IInv, [Next]_vars
    PROVE  PlaceOK'
  <1> USE IngestionAssumption DEF IngestionAssumption, IInv, TypeOK, PlaceOK, process, engine, book
  <1>1. CASE UNCHANGED vars
    BY <1>1 DEF vars
  <1>2. CASE IngestFolder
    BY <1>2 DEF IngestFolder
  <1>3. ASSUME NEW f \in File, Skip(f)
        PROVE  PlaceOK'
    BY <1>3 DEF Skip
  <1>4. ASSUME NEW f \in File, ReadFails(f)
        PROVE  PlaceOK'
    BY <1>4 DEF ReadFails, record_ingestion, CannotOpen
  <1>5. ASSUME NEW f \in File, ReadChunks(f)
        PROVE  PlaceOK'
    BY <1>5 DEF ReadChunks
  <1>6. CASE SkipChunk
    BY <1>6 DEF SkipChunk, AtChunk
  <1>7. CASE SendInsert
    BY <1>7 DEF SendInsert, AtChunk
  <1>8. CASE Receive
    BY <1>8 DEF Receive
  <1>9. CASE Timeout
    BY <1>9 DEF Timeout
  <1>10. CASE Record
    BY <1>10 DEF Record, record_ingestion, CannotOpen
  <1>11. CASE Saved
    BY <1>11 DEF Saved, Saving
  <1>12. CASE FolderDone
    BY <1>12 DEF FolderDone
  <1>13. CASE Execute
    BY <1>13 DEF Execute
  <1>14. CASE ExecuteOrphan
    BY <1>14 DEF ExecuteOrphan
  <1>15. CASE Kill
    BY <1>15 DEF Kill, Saving
  <1>16. CASE Start
    BY <1>16 DEF Start
  <1>17. CASE Raises
    BY <1>17 DEF Raises, AtChunk
  <1>18. CASE SaveFails
    BY <1>18 DEF SaveFails, Saving
  <1>19. CASE Handle
    BY <1>19 DEF Handle, record_ingestion, CannotOpen
  <1> QED
    BY <1>1, <1>2, <1>3, <1>4, <1>5, <1>6, <1>7, <1>8, <1>9, <1>10, <1>11, <1>12, <1>13, <1>14, <1>15, <1>16, <1>17, <1>18, <1>19 DEF Next, Work, Quiet

\* The engine refuses, knows the id already, or takes the chunk: nothing it has
\* is overwritten or lost, and a chunk it does not refuse has its id there.
LEMMA ExecutedFacts ==
    ASSUME TypeOK, StoreOK, NEW chunk \in Sendable, NEW reply, Executed(chunk, reply)
    PROVE  /\ \A id \in Id : stored'[id] # NoChunk =>
                  stored'[id] \in Sendable /\ build_doc_id(stored'[id]) = id
           /\ \A other \in Chunk : Taken(other) => Taken(other)'
           /\ reply # "error" => stored'[build_doc_id(chunk)] # NoChunk
  <1>1. chunk \in Chunk /\ chunk # NoChunk /\ build_doc_id(chunk) \in Id
    BY IngestionAssumption DEF Sendable, Id, IngestionAssumption
  <1>2. CASE stored' = stored /\ (reply = "error" \/ stored[build_doc_id(chunk)] # NoChunk)
    BY <1>2 DEF StoreOK, Taken
  <1>3. CASE stored' = [stored EXCEPT ![build_doc_id(chunk)] = chunk]
    <2>1. stored'[build_doc_id(chunk)] = chunk
      BY <1>1, <1>3 DEF TypeOK
    <2>2. \A id \in Id : id # build_doc_id(chunk) => stored'[id] = stored[id]
      BY <1>1, <1>3 DEF TypeOK
    <2>3. \A other \in Chunk : build_doc_id(other) \in Id
      BY DEF Id
    <2> QED
      BY <1>1, <2>1, <2>2, <2>3 DEF StoreOK, Taken
  <1> QED
    BY <1>2, <1>3 DEF Executed

\* What reaches the engine was sendable, and stands under its own id.
LEMMA StoreStep ==
    ASSUME IInv, [Next]_vars
    PROVE  StoreOK'
  <1> USE DEF IInv, StoreOK, process, engine, book
  <1>1. CASE UNCHANGED vars
    BY <1>1 DEF vars
  <1>2. CASE IngestFolder
    BY <1>2 DEF IngestFolder
  <1>3. ASSUME NEW f \in File, Skip(f)
        PROVE  StoreOK'
    BY <1>3 DEF Skip
  <1>4. ASSUME NEW f \in File, ReadFails(f)
        PROVE  StoreOK'
    BY <1>4 DEF ReadFails, record_ingestion, CannotOpen
  <1>5. ASSUME NEW f \in File, ReadChunks(f)
        PROVE  StoreOK'
    BY <1>5 DEF ReadChunks
  <1>6. CASE SkipChunk
    BY <1>6 DEF SkipChunk, AtChunk
  <1>7. CASE SendInsert
    <2>1. <<file, next>> \in Sendable
      BY <1>7, ChunkFacts DEF SendInsert, AtChunk, PlaceOK, TypeOK
    <2>2. requests' \in Seq(Sendable)
      BY <1>7, <2>1 DEF SendInsert, AtChunk
    <2> QED
      BY <1>7, <2>2 DEF SendInsert, AtChunk
  <1>8. CASE Receive
    BY <1>8 DEF Receive
  <1>9. CASE Timeout
    BY <1>9 DEF Timeout
  <1>10. CASE Record
    BY <1>10 DEF Record, record_ingestion, CannotOpen
  <1>11. CASE Saved
    BY <1>11 DEF Saved, Saving
  <1>12. CASE FolderDone
    BY <1>12 DEF FolderDone
  <1>13. CASE Execute
    <2>1. Head(requests) \in Sendable /\ Tail(requests) \in Seq(Sendable)
      BY <1>13 DEF Execute
    <2>2. PICK reply : Executed(Head(requests), reply)
      BY <1>13 DEF Execute
    <2>3. \A id \in Id : stored'[id] # NoChunk =>
              stored'[id] \in Sendable /\ build_doc_id(stored'[id]) = id
      BY <2>1, <2>2, ExecutedFacts
    <2> QED
      BY <1>13, <2>1, <2>3 DEF Execute
  <1>14. CASE ExecuteOrphan
    <2>0. PICK chunk \in orphans : (\E r \in {"ok", "warning", "error"} : Executed(chunk, r)) /\ orphans' = orphans \ {chunk}
      BY <1>14 DEF ExecuteOrphan
    <2>1. PICK reply \in {"ok", "warning", "error"} : Executed(chunk, reply)
      BY <2>0
    <2>2. \A id \in Id : stored'[id] # NoChunk =>
              stored'[id] \in Sendable /\ build_doc_id(stored'[id]) = id
      BY <2>1, ExecutedFacts
    <2> QED
      BY <1>14, <2>0, <2>2 DEF ExecuteOrphan
  <1>15. CASE Kill
    <2>1. {requests[i] : i \in DOMAIN requests} \subseteq Sendable
      OBVIOUS
    <2> QED
      BY <1>15, <2>1 DEF Kill
  <1>16. CASE Start
    BY <1>16 DEF Start
  <1>17. CASE Raises
    BY <1>17 DEF Raises, AtChunk
  <1>18. CASE SaveFails
    BY <1>18 DEF SaveFails, Saving
  <1>19. CASE Handle
    BY <1>19 DEF Handle, record_ingestion, CannotOpen
  <1> QED
    BY <1>1, <1>2, <1>3, <1>4, <1>5, <1>6, <1>7, <1>8, <1>9, <1>10, <1>11, <1>12, <1>13, <1>14, <1>15, <1>16, <1>17, <1>18, <1>19 DEF Next, Work, Quiet

\* Every chunk that is counted is one the model knows.
LEMMA CountedChunks ==
    ASSUME TypeOK
    PROVE  /\ inserted_ids \subseteq Chunk
           /\ \A f \in File : ledger[f].accepted \subseteq Chunk
  BY IngestionAssumption DEF TypeOK, IngestionAssumption, ChunksIn, Chunk

\* What is outstanding is the INSERT of the current chunk or its reply.
LEMMA StepStep ==
    ASSUME IInv, [Next]_vars
    PROVE  StepOK'
  <1> USE DEF IInv, StepOK, Taken, process, engine, book
  <1>1. CASE UNCHANGED vars
    BY <1>1 DEF vars
  <1>2. CASE IngestFolder
    BY <1>2 DEF IngestFolder
  <1>3. ASSUME NEW f \in File, Skip(f)
        PROVE  StepOK'
    BY <1>3 DEF Skip
  <1>4. ASSUME NEW f \in File, ReadFails(f)
        PROVE  StepOK'
    BY <1>4 DEF ReadFails, record_ingestion, CannotOpen
  <1>5. ASSUME NEW f \in File, ReadChunks(f)
        PROVE  StepOK'
    BY <1>5 DEF ReadChunks
  <1>6. CASE SkipChunk
    BY <1>6 DEF SkipChunk, AtChunk
  <1>7. CASE SendInsert
    <2>1. ~late => requests' = << <<file, next>> >> /\ replies' = <<>>
      BY <1>7 DEF SendInsert, AtChunk
    <2> QED
      BY <1>7, <2>1 DEF SendInsert, AtChunk
  <1>8. CASE Receive
    <2>1. CASE ~late
      <3>1. requests = <<>> /\ \E r : replies = <<r>>
        BY <1>8, <2>1 DEF Receive
      <3>2. replies' = <<>>
        BY <1>8, <3>1 DEF Receive
      <3> QED
        BY <1>8, <3>1, <3>2 DEF Receive
    <2> QED
      BY <1>8, <2>1 DEF Receive
  <1>9. CASE Timeout
    BY <1>9 DEF Timeout
  <1>10. CASE Record
    BY <1>10 DEF Record, record_ingestion, CannotOpen
  <1>11. CASE Saved
    BY <1>11 DEF Saved, Saving
  <1>12. CASE FolderDone
    BY <1>12 DEF FolderDone
  <1>13. CASE Execute
    <2>1. CASE ~late
      <3>1. pc = "wait" /\ requests = << <<file, next>> >> /\ replies = <<>>
        BY <1>13, <2>1 DEF Execute
      <3>2. Head(requests) = <<file, next>> /\ <<file, next>> \in Sendable /\ Tail(requests) = <<>>
        BY <3>1 DEF StoreOK
      <3>3. PICK reply : Executed(<<file, next>>, reply) /\ replies' = <<reply>>
        BY <1>13, <3>1, <3>2 DEF Execute
      <3>4. reply # "error" => stored'[build_doc_id(<<file, next>>)] # NoChunk
        BY <3>2, <3>3, ExecutedFacts DEF StoreOK
      <3> QED
        BY <1>13, <3>1, <3>2, <3>3, <3>4 DEF Execute, Taken
    <2> QED
      BY <1>13, <2>1 DEF Execute
  <1>14. CASE ExecuteOrphan
    <2>0. PICK chunk \in orphans : \E r \in {"ok", "warning", "error"} : Executed(chunk, r)
      BY <1>14 DEF ExecuteOrphan
    <2>1. PICK reply \in {"ok", "warning", "error"} : Executed(chunk, reply)
      BY <2>0
    <2>2. \A other \in Chunk : Taken(other) => Taken(other)'
      BY <2>1, ExecutedFacts DEF StoreOK
    <2>3. pc = "wait" => <<file, next>> \in Chunk
      BY ChunkFacts DEF TypeOK, PlaceOK
    <2> QED
      BY <1>14, <2>2, <2>3 DEF ExecuteOrphan, Taken
  <1>15. CASE Kill
    BY <1>15 DEF Kill, Saving
  <1>16. CASE Start
    BY <1>16 DEF Start
  <1>17. CASE Raises
    BY <1>17 DEF Raises, AtChunk
  <1>18. CASE SaveFails
    BY <1>18 DEF SaveFails, Saving
  <1>19. CASE Handle
    BY <1>19 DEF Handle, record_ingestion, CannotOpen
  <1> QED
    BY <1>1, <1>2, <1>3, <1>4, <1>5, <1>6, <1>7, <1>8, <1>9, <1>10, <1>11, <1>12, <1>13, <1>14, <1>15, <1>16, <1>17, <1>18, <1>19 DEF Next, Work, Quiet

\* What is counted as accepted has its id in the engine.
LEMMA AcceptedStep ==
    ASSUME IInv, [Next]_vars
    PROVE  AcceptedOK'
  <1> USE DEF IInv, AcceptedOK, process, engine, book
  <1>1. CASE UNCHANGED vars
    BY <1>1 DEF vars, Taken
  <1>2. CASE IngestFolder
    BY <1>2 DEF IngestFolder, Taken
  <1>3. ASSUME NEW f \in File, Skip(f)
        PROVE  AcceptedOK'
    BY <1>3 DEF Skip, Taken
  <1>4. ASSUME NEW f \in File, ReadFails(f)
        PROVE  AcceptedOK'
    <2>1. {} \in SUBSET ChunksIn(f)
      OBVIOUS
    <2>2. \A g \in File : ledger'[g].accepted \subseteq ledger[g].accepted
      BY <1>4, <2>1, RecordFacts DEF ReadFails, CannotOpen
    <2> QED
      BY <1>4, <2>2 DEF ReadFails, Taken
  <1>5. ASSUME NEW f \in File, ReadChunks(f)
        PROVE  AcceptedOK'
    BY <1>5 DEF ReadChunks, Taken
  <1>6. CASE SkipChunk
    BY <1>6 DEF SkipChunk, AtChunk, Taken
  <1>7. CASE SendInsert
    BY <1>7 DEF SendInsert, AtChunk, Taken
  <1>8. CASE Receive
    <2>1. ~late /\ Accepts(replies[1]) => Taken(<<file, next>>)
      BY <1>8 DEF Receive, StepOK, Accepts
    <2> QED
      BY <1>8, <2>1 DEF Receive, Taken
  <1>9. CASE Timeout
    BY <1>9 DEF Timeout, Taken
  <1>10. CASE Record
    <2>1. inserted_ids \in SUBSET ChunksIn(file) /\ file \in File
      BY DEF TypeOK
    <2>2. \A g \in File : ledger'[g].accepted \subseteq ledger[g].accepted \union inserted_ids
      BY <1>10, <2>1, RecordFacts DEF Record, CannotOpen
    <2> QED
      BY <1>10, <2>2 DEF Record, Taken
  <1>11. CASE Saved
    BY <1>11 DEF Saved, Taken
  <1>12. CASE FolderDone
    BY <1>12 DEF FolderDone, Taken
  <1>13. CASE Execute
    <2>1. Head(requests) \in Sendable
      BY <1>13 DEF Execute, StoreOK
    <2>2. \A other \in Chunk : Taken(other) => Taken(other)'
      BY <1>13, <2>1, ExecutedFacts DEF Execute
    <2> QED
      BY <1>13, <2>2, CountedChunks DEF Execute
  <1>14. CASE ExecuteOrphan
    <2>0. PICK chunk \in orphans : \E r \in {"ok", "warning", "error"} : Executed(chunk, r)
      BY <1>14 DEF ExecuteOrphan
    <2>1. PICK reply \in {"ok", "warning", "error"} : Executed(chunk, reply)
      BY <2>0
    <2>2. \A other \in Chunk : Taken(other) => Taken(other)'
      BY <2>1, ExecutedFacts DEF StoreOK
    <2> QED
      BY <1>14, <2>2, CountedChunks DEF ExecuteOrphan
  <1>15. CASE Kill
    BY <1>15 DEF Kill, Taken
  <1>16. CASE Start
    BY <1>16 DEF Start, Taken
  <1>17. CASE Raises
    BY <1>17 DEF Raises, AtChunk, Taken
  <1>18. CASE SaveFails
    BY <1>18 DEF SaveFails, Saving, Taken
  <1>19. CASE Handle
    <2>1. {} \in SUBSET ChunksIn(file) /\ file \in File
      BY DEF TypeOK
    <2>2. \A g \in File : ledger'[g].accepted \subseteq ledger[g].accepted
      BY <1>19, <2>1, RecordFacts DEF Handle, CannotOpen
    <2> QED
      BY <1>19, <2>2 DEF Handle, Taken
  <1> QED
    BY <1>1, <1>2, <1>3, <1>4, <1>5, <1>6, <1>7, <1>8, <1>9, <1>10, <1>11, <1>12, <1>13, <1>14, <1>15, <1>16, <1>17, <1>18, <1>19 DEF Next, Work, Quiet

\* A load leaves a record of every file it comes past.
LEMMA RecordedStep ==
    ASSUME IInv, [Next]_vars
    PROVE  RecordedOK'
  <1> USE DEF IInv, RecordedOK, InFile, Saving, process, engine, book
  <1>1. CASE UNCHANGED vars
    BY <1>1 DEF vars, Recorded, is_already_ingested, load_ledger
  <1>2. CASE IngestFolder
    BY <1>2 DEF IngestFolder, Recorded, is_already_ingested, load_ledger
  <1>3. ASSUME NEW f \in File, Skip(f)
        PROVE  RecordedOK'
    BY <1>3 DEF Skip, Recorded, is_already_ingested, load_ledger
  <1>4. ASSUME NEW f \in File, ReadFails(f)
        PROVE  RecordedOK'
    <2>1. CASE record_ingestion(f, {}) /\ pc' = "save"
      <3>1. /\ torn' = TRUE /\ spoilt' = spoilt /\ ledger'[f].status # "none"
            /\ \A g \in File : g # f => ledger'[g] = load_ledger[g]
        BY <2>1, RecordFacts
      <3> QED
        BY <1>4, <2>1, <3>1 DEF ReadFails, Recorded
    <2>2. CASE CannotOpen /\ pc' = "handler"
      BY <1>4, <2>2 DEF ReadFails, CannotOpen, Recorded, is_already_ingested, load_ledger
    <2> QED
      BY <1>4, <2>1, <2>2 DEF ReadFails
  <1>5. ASSUME NEW f \in File, ReadChunks(f)
        PROVE  RecordedOK'
    BY <1>5 DEF ReadChunks, Recorded, is_already_ingested, load_ledger
  <1>6. CASE SkipChunk
    BY <1>6 DEF SkipChunk, AtChunk, Recorded, is_already_ingested, load_ledger
  <1>7. CASE SendInsert
    BY <1>7 DEF SendInsert, AtChunk, Recorded, is_already_ingested, load_ledger
  <1>8. CASE Receive
    BY <1>8 DEF Receive, Recorded, is_already_ingested, load_ledger
  <1>9. CASE Timeout
    BY <1>9 DEF Timeout, Recorded, is_already_ingested, load_ledger
  <1>10. CASE Record
    <2>1. inserted_ids \in SUBSET ChunksIn(file) /\ file \in File
      BY DEF TypeOK
    <2>2. CASE record_ingestion(file, inserted_ids) /\ pc' = "save"
      <3>1. /\ torn' = TRUE /\ spoilt' = spoilt /\ ledger'[file].status # "none"
            /\ \A g \in File : g # file => ledger'[g] = load_ledger[g]
        BY <2>1, <2>2, RecordFacts
      <3> QED
        BY <1>10, <2>2, <3>1 DEF Record, Recorded
    <2>3. CASE CannotOpen /\ pc' = "handler"
      BY <1>10, <2>3 DEF Record, CannotOpen, Recorded, is_already_ingested, load_ledger
    <2> QED
      BY <1>10, <2>2, <2>3 DEF Record
  <1>11. CASE Saved
    BY <1>11 DEF Saved, Recorded, is_already_ingested, load_ledger
  <1>12. CASE FolderDone
    BY <1>12 DEF FolderDone, Recorded, is_already_ingested, load_ledger
  <1>13. CASE Execute
    BY <1>13 DEF Execute, Recorded, is_already_ingested, load_ledger
  <1>14. CASE ExecuteOrphan
    BY <1>14 DEF ExecuteOrphan, Recorded, is_already_ingested, load_ledger
  <1>15. CASE Kill
    BY <1>15 DEF Kill, Recorded, is_already_ingested, load_ledger
  <1>16. CASE Start
    BY <1>16 DEF Start, Recorded, is_already_ingested, load_ledger
  <1>17. CASE Raises
    BY <1>17 DEF Raises, AtChunk, Recorded, is_already_ingested, load_ledger
  <1>18. CASE SaveFails
    <2>1. torn' /\ spoilt' /\ pc' \in {"handler", "idle"} /\ file' \in File
      BY <1>18 DEF SaveFails, TypeOK
    <2>2. load_ledger'[file'] = NoRecord
      BY <2>1 DEF load_ledger, NoLedger
    <2>3. ~is_already_ingested(file)'
      BY <2>2 DEF is_already_ingested, NoRecord
    <2> QED
      BY <2>1, <2>3
  <1>19. CASE Handle
    <2>1. {} \in SUBSET ChunksIn(file) /\ file \in File
      BY DEF TypeOK
    <2>2. CASE record_ingestion(file, {}) /\ pc' = "resave"
      <3>1. /\ torn' = TRUE /\ spoilt' = spoilt /\ ledger'[file].status # "none"
            /\ \A g \in File : g # file => ledger'[g] = load_ledger[g]
        BY <2>1, <2>2, RecordFacts
      <3> QED
        BY <1>19, <2>2, <3>1 DEF Handle, Recorded
    <2>3. CASE CannotOpen /\ pc' = "idle"
      BY <1>19, <2>3 DEF Handle, CannotOpen, Recorded, is_already_ingested, load_ledger
    <2> QED
      BY <1>19, <2>2, <2>3 DEF Handle
  <1> QED
    BY <1>1, <1>2, <1>3, <1>4, <1>5, <1>6, <1>7, <1>8, <1>9, <1>10, <1>11, <1>12, <1>13, <1>14, <1>15, <1>16, <1>17, <1>18, <1>19 DEF Next, Work, Quiet

-----------------------------------------------------------------------------
(* The theorems.                                                           *)

LEMMA Inductive == Spec => []IInv
  <1>1. IInv /\ [Next]_vars => IInv'
    BY TypeStep, PlaceStep, StoreStep, StepStep, AcceptedStep, RecordedStep DEF IInv
  <1> QED
    BY InitTyped, <1>1, PTL DEF Spec

\* Every variable keeps its type; the ledger's record of a file names chunks of
\* that file only.
THEOREM TypeCorrect == Spec => []TypeOK
  <1>1. IInv => TypeOK
    BY DEF IInv
  <1> QED
    BY Inductive, <1>1, PTL

\* Whatever was killed and whatever failed, without a timeout every chunk that
\* is counted as accepted has its id in the engine, and its own text there if no
\* other file gives that id.
THEOREM AcceptedStored == Spec => []AcceptedAreStored
  <1>1. IInv => AcceptedAreStored
    <2> SUFFICES ASSUME IInv, ~late,
                        NEW chunk \in inserted_ids \union UNION {load_ledger[f].accepted : f \in File}
                 PROVE  Taken(chunk) /\ (OwnId(chunk) => Holds(chunk))
      BY DEF AcceptedAreStored, Taken
    <2>1. Taken(chunk) /\ chunk \in Chunk
      BY LoadFacts, CountedChunks DEF IInv, AcceptedOK, NoRecord
    <2> DEFINE there == stored[build_doc_id(chunk)]
    <2>2. there \in Sendable /\ build_doc_id(there) = build_doc_id(chunk)
      BY <2>1 DEF IInv, StoreOK, Taken, Id
    <2>3. \E f \in File : there \in ChunksIn(f) \ Oversized
      BY <2>2 DEF Sendable, Chunk
    <2>4. OwnId(chunk) => there = chunk
      BY <2>2, <2>3 DEF OwnId
    <2> QED
      BY <2>1, <2>4 DEF Holds
  <1> QED
    BY Inductive, <1>1, PTL

\* Whatever file could not be read or ended in an exception, a load that goes on
\* to the next has a record of each before it, unless a write of the ledger was
\* cut short by an error.
THEOREM EveryFileRecorded == Spec => []LoadsRecordEveryFile
  <1>1. IInv => LoadsRecordEveryFile
    BY DEF IInv, RecordedOK, LoadsRecordEveryFile
  <1> QED
    BY Inductive, <1>1, PTL

\* As long as the ledger can be read, its rewrite for one document, also by the
\* handler of an exception, loses the record of no other, and a document that
\* was taken keeps the record it has.
THEOREM RecordsKept == Spec => RecordsAreKept
  <1> DEFINE Kept == ~torn => \A f \in File :
                 /\ ledger[f].status \in {"partial", "successful"} => ledger'[f] = ledger[f]
                 /\ ledger[f].status = "failed" => ledger'[f].status # "none"
  <1>1. ASSUME IInv, [Next]_vars PROVE Kept
    <2> SUFFICES ASSUME ~torn PROVE Kept
      OBVIOUS
    <2>1. load_ledger = ledger
      BY <1>1, LoadFacts DEF IInv
    <2>2. CASE Record /\ ~UNCHANGED ledger
      <3>1. inserted_ids \in SUBSET ChunksIn(file) /\ file \in File
        BY <1>1 DEF IInv, TypeOK
      <3>2. /\ ledger'[file].status # "none"
            /\ \A g \in File : g # file => ledger'[g] = load_ledger[g]
        BY <1>1, <2>2, <3>1, RecordFacts DEF Record, CannotOpen, book, IInv
      <3>3. ledger[file].status \notin {"partial", "successful"}
        BY <1>1, <2>1, <2>2 DEF IInv, RecordedOK, InFile, Record, is_already_ingested
      <3> QED
        BY <2>1, <3>1, <3>2, <3>3
    <2>6. CASE Handle /\ ~UNCHANGED ledger
      <3>1. {} \in SUBSET ChunksIn(file) /\ file \in File
        BY <1>1 DEF IInv, TypeOK
      <3>2. /\ ledger'[file].status # "none"
            /\ \A g \in File : g # file => ledger'[g] = load_ledger[g]
        BY <1>1, <2>6, <3>1, RecordFacts DEF Handle, CannotOpen, book, IInv
      <3>3. ledger[file].status \notin {"partial", "successful"}
        BY <1>1, <2>1, <2>6 DEF IInv, RecordedOK, InFile, Handle, is_already_ingested
      <3> QED
        BY <2>1, <3>1, <3>2, <3>3
    <2>3. ASSUME NEW f \in File, ReadFails(f), ~UNCHANGED ledger PROVE Kept
      <3>1. /\ ledger'[f].status # "none"
            /\ \A g \in File : g # f => ledger'[g] = load_ledger[g]
        BY <1>1, <2>3, RecordFacts DEF ReadFails, CannotOpen, book, IInv
      <3>2. ledger[f].status \notin {"partial", "successful"}
        BY <2>1, <2>3 DEF ReadFails, is_already_ingested
      <3> QED
        BY <2>1, <3>1, <3>2
    <2>4. CASE UNCHANGED ledger
      BY <2>4
    <2>5. ledger' = ledger \/ Record \/ Handle \/ \E f \in File : ReadFails(f)
      BY <1>1 DEF Next, Work, Quiet, vars, process, engine, book, Raises, SaveFails, IngestFolder, Skip, ReadChunks, SkipChunk,
                  SendInsert, Receive, Timeout, Saved, FolderDone, Execute, ExecuteOrphan, Kill, Start
    <2> QED
      BY <2>2, <2>3, <2>4, <2>5, <2>6
  <1>2. IInv /\ [Next]_vars => [Kept]_vars
    BY <1>1
  <1>3. Spec => [][Kept]_vars
    BY Inductive, <1>2, PTL DEF Spec
  <1> QED
    BY <1>3 DEF RecordsAreKept
==============================================================================
