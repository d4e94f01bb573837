---------------------------- MODULE ServerProofs ----------------------------
(***************************************************************************)
(* Theorems about Server, for any number of connections, ids and commands: *)
(* the mutex makes RAM and disk one collection of documents, and what the  *)
(* clients see is Database.                                                *)
(***************************************************************************)
EXTENDS Server, FiniteSetTheorems, TLAPS

-----------------------------------------------------------------------------
(* The inductive invariant.                                                *)

\* What is counted is finite, and there is a piece left to send in a reply.
Counted ==
    /\ IsFiniteSet(ram) /\ IsFiniteSet(disk)
    /\ \A c \in Conn : IsFiniteSet(found[c])
    /\ \A c \in Conn : pc[c] = "reply" => left[c] >= 1

\* A thread is inside the block of the lock_guard if and only if it holds the
\* mutex.
MutexOK == \A c \in Conn : pc[c] \in Locked <=> mutex = c

\* Which command a place in the code belongs to.
OpAt(place) ==
    CASE place \in {"write", "make"} -> "INSERT"
      [] place = "texts" -> "QUERY"
      [] place \in {"remove", "compact"} -> "DELETE"
      [] place = "fill" -> "LOAD"
      [] OTHER -> place

\* A thread has a command unless it waits for one, and is on that command's
\* branch.
CommandOK ==
    \A c \in Conn :
        /\ pc[c] \in Waiting => cmd[c] = NoRequest
        /\ pc[c] \notin Waiting => cmd[c] \in Lines
        /\ pc[c] \in Locked \ {"unlock"} => cmd[c].op = OpAt(pc[c])
        /\ pc[c] = "lock" => cmd[c].op \notin {"bad", "unknown"}

\* A command has a result from the step that decides it to its reply.
Decided == {"compact", "unlock", "reply"}
ResultOK == \A c \in Conn : result[c] = NoResult <=> pc[c] \notin Decided

\* Places where RAM and disk can differ.
Between == {"make", "remove", "fill"}
\* What is known where the holder of the mutex is between two writes.
Tie(c) ==
    /\ pc[c] \in {"write", "make"} => ~InDocs(cmd[c].id, ram) /\ cmd[c].val # Zero
    /\ pc[c] = "make" => is_open /\ Sure(disk) = Sure(ram \union {RowOf(cmd[c], written)})
    /\ pc[c] = "remove" => /\ is_open
                           /\ Sure(disk) = {d \in Sure(ram) : d.id # cmd[c].id}
                           /\ cmd[c].id \notin apart => InDocs(cmd[c].id, ram)
    /\ pc[c] = "fill" => IF is_open THEN ram \subseteq disk ELSE ram = {}
    /\ pc[c] = "texts" => /\ found[c] \subseteq ram
                          /\ ram # {} => found[c] # {}
                          /\ cmd[c].val # Zero
    /\ pc[c] = "compact" => is_open /\ result[c] = Plain("ok")

\* On the ids that are sure, RAM and disk have no id twice, and are the same
\* but between two writes.
StoreOK ==
    /\ OnePerId(Sure(ram))
    /\ is_open => OnePerId(Sure(disk))
    /\ is_open /\ (\A c \in Conn : pc[c] \notin Between) => Sure(ram) = Sure(disk)
    /\ \A c \in Conn : Tie(c)

IInv == TypeOK /\ Counted /\ MutexOK /\ CommandOK /\ ResultOK /\ StoreOK

-----------------------------------------------------------------------------
(* Each conjunct is preserved.                                             *)

\* A thread that waits for the mutex goes on to the block of its command.
LEMMA LockTarget ==
    ASSUME IInv, NEW c \in Conn, pc[c] = "lock"
    PROVE  cmd[c].op \in {"INSERT", "QUERY", "DELETE", "OPTIMIZE", "SAVE", "LOAD"}
BY ServerAssumption DEF IInv, CommandOK, Waiting, Request, Op

\* A send either leaves more to send or ends the command.
MoreToSend(c) ==
    /\ pc[c] = "reply" /\ left[c] > 1
    /\ left' = [left EXCEPT ![c] = @ - 1]
    /\ UNCHANGED <<pc, cmd, result, answered, inbox, found, mutex, ram, disk, written, dead, is_open, moved, apart,
                   built, asked, alive>>
LastSent(c) ==
    /\ pc[c] = "reply"
    /\ left' = [left EXCEPT ![c] = @ - 1]
    /\ pc' = [pc EXCEPT ![c] = "recv"]
    /\ cmd' = [cmd EXCEPT ![c] = NoRequest]
    /\ result' = [result EXCEPT ![c] = NoResult]
    /\ UNCHANGED <<inbox, found, mutex, ram, disk, written, dead, is_open, moved, apart,
                   built, asked, alive>>

LEMMA SentPiece ==
    ASSUME IInv, NEW c \in Conn, SendPiece(c)
    PROVE  MoreToSend(c) \/ LastSent(c)
<1>1. left[c] \in Nat /\ pc = [pc EXCEPT ![c] = pc[c]]
  BY DEF IInv, TypeOK
<1>2. CASE left[c] > 1
  <2>1. pc[c] = "reply" /\ pc' = [pc EXCEPT ![c] = "reply"] /\ UNCHANGED <<cmd, result, answered>>
    BY <1>2 DEF SendPiece, Goto
  <2>2. pc' = pc
    BY <1>1, <2>1
  <2> QED
    BY <1>2, <2>1, <2>2 DEF SendPiece, MoreToSend, files, store
<1>3. CASE ~(left[c] > 1)
  BY <1>3 DEF SendPiece, LastSent, Goto, Decide, files, store
<1> QED
  BY <1>2, <1>3

\* A step that only decides on a reply adds nothing to count.
LEMMA OnlyDecides ==
    ASSUME IInv, NEW c \in Conn, NEW from, Goto(c, from, "unlock"),
           IsFiniteSet(ram'), IsFiniteSet(disk'), UNCHANGED <<found, left>>
    PROVE  Counted'
<1>1. pc \in [Conn -> Unlocked \union Locked] /\ pc' = [pc EXCEPT ![c] = "unlock"]
  BY DEF IInv, TypeOK, Goto
<1>2. \A x \in Conn : pc'[x] = "reply" => left'[x] >= 1
  BY <1>1 DEF IInv, Counted
<1> QED
  BY <1>2 DEF IInv, Counted

\* A thread that goes on needs the command of the place it goes to.
LEMMA CommandAt ==
    ASSUME IInv, NEW c \in Conn, NEW from, NEW to, Goto(c, from, to),
           \A x \in Conn \ {c} : cmd'[x] = cmd[x],
           to \in Waiting => cmd'[c] = NoRequest,
           to \notin Waiting => cmd'[c] \in Lines,
           to \in Locked \ {"unlock"} => cmd'[c].op = OpAt(to),
           to = "lock" => cmd'[c].op \notin {"bad", "unknown"}
    PROVE  CommandOK'
<1>1. pc \in [Conn -> Unlocked \union Locked] /\ pc' = [pc EXCEPT ![c] = to]
  BY DEF IInv, TypeOK, Goto
<1>2. \A x \in Conn : pc'[x] = IF x = c THEN to ELSE pc[x]
  BY <1>1
<1> QED
  BY <1>2 DEF IInv, CommandOK

\* A step within the block of the mutex stays on the branch of its command.
LEMMA BranchKept ==
    ASSUME IInv, NEW c \in Conn, NEW from \in Locked \ {"unlock"}, NEW to \in Locked, Goto(c, from, to),
           to # "unlock" => OpAt(to) = OpAt(from), UNCHANGED cmd
    PROVE  CommandOK'
<1>1. pc[c] = from
  BY DEF Goto
<1>2. from \notin Waiting /\ to \notin Waiting /\ to # "lock"
  BY DEF Locked, Waiting
<1>3. cmd[c] \in Lines /\ cmd[c].op = OpAt(from)
  BY <1>1, <1>2 DEF IInv, CommandOK
<1> QED
  BY <1>2, <1>3, CommandAt

\* The next record is of the type of a record.
LEMMA Written ==
    ASSUME IInv, NEW c \in Conn, pc[c] = "write", written' = written + 1,
           disk' = disk \union {RowOf(cmd[c], written')}
    PROVE  written' \in Nat /\ disk' \in SUBSET Row /\ IsFiniteSet(disk')
<1>1. written' \in Nat
  BY DEF IInv, TypeOK
<1>2. cmd[c] \in Lines
  BY DEF IInv, CommandOK, Waiting
<1>3. RowOf(cmd[c], written') \in Row
  BY <1>1, <1>2, ServerAssumption DEF RowOf, Row, Request
<1>4. disk \in SUBSET Row /\ IsFiniteSet(disk)
  BY DEF IInv, TypeOK, Counted
<1>5. IsFiniteSet(disk')
  BY <1>4, FS_AddElement
<1> QED
  BY <1>1, <1>3, <1>4, <1>5

\* One record less, one tombstone more.
LEMMA Buried ==
    ASSUME IInv, NEW id, Bury(id)
    PROVE  disk' \in SUBSET Row /\ dead' \in Nat /\ IsFiniteSet(disk')
<1>1. disk \in SUBSET Row /\ dead \in Nat /\ IsFiniteSet(disk)
  BY DEF IInv, TypeOK, Counted
<1>2. disk' \subseteq disk /\ dead' = dead + 1
  BY DEF Bury
<1>3. IsFiniteSet(disk')
  BY <1>1, <1>2, FS_Subset
<1> QED
  BY <1>1, <1>2, <1>3

\* A step of a command that writes the store.
LEMMA Worked ==
    ASSUME TypeOK, NEW c \in Conn, NEW to \in Unlocked \union Locked, pc' = [pc EXCEPT ![c] = to],
           UNCHANGED <<alive, conn, inbox, asked, cmd, found, left, mutex, answered>>,
           result' \in [Conn -> [kind : {"none", "ok", "advice", "duplicate", "error"}, hits : SUBSET Hit]],
           ram' \in SUBSET Row, disk' \in SUBSET Row, written' \in Nat, dead' \in Nat, built' \in Nat,
           is_open' \in BOOLEAN, moved' \in SUBSET Id, apart' \in SUBSET Id
    PROVE  TypeOK'
<1>1. pc' \in [Conn -> Unlocked \union Locked]
  BY DEF TypeOK
<1> QED
  BY <1>1 DEF TypeOK

\* A step keeps every variable in its type.
LEMMA TypeStep ==
    ASSUME IInv, [Next]_vars
    PROVE  TypeOK'
<1> USE ServerAssumption DEF IInv, TypeOK, CommandOK, network, thread, files, store, Goto, Decide, Plain, NoResult, Locked, Unlocked, Waiting, OpAt, Row, Hit, Request, Op
<1>1. CASE UNCHANGED vars
  BY <1>1 DEF vars
<1>2. ASSUME NEW c \in Conn, NEW r \in Lines, SendLine(c, r)
      PROVE  TypeOK'
  <2>1. inbox' \in [Conn -> Seq(Lines)]
    BY <1>2 DEF SendLine
  <2>2. asked' = asked \/ asked' = [asked EXCEPT ![c] = asked[c] + 1]
    BY <1>2 DEF SendLine
  <2>3. asked[c] + 1 \in Nat
    BY <1>2, SMTT(30) DEF SendLine
  <2>4. asked' \in [Conn -> Nat]
    <3>1. asked \in [Conn -> Nat]
      OBVIOUS
    <3> HIDE DEF IInv, TypeOK
    <3> QED
      BY <2>2, <2>3, <3>1
  <2> QED
    BY <1>2, <2>1, <2>2, <2>3, <2>4 DEF SendLine
<1>3. ASSUME NEW c \in Conn, Connect(c)
      PROVE  TypeOK'
  BY <1>3 DEF Connect
<1>4. ASSUME NEW c \in Conn, Quit(c)
      PROVE  TypeOK'
  BY <1>4 DEF Quit
<1>5. ASSUME NEW c \in Conn, TakeLine(c)
      PROVE  TypeOK'
  <2>1. inbox[c] \in Seq(Lines) /\ inbox[c] # <<>>
    BY <1>5 DEF TakeLine
  <2>2. Head(inbox[c]) \in Lines /\ Tail(inbox[c]) \in Seq(Lines)
    BY <1>5, <2>1
  <2>3. inbox' \in [Conn -> Seq(Lines)] /\ cmd' \in [Conn -> Lines \union {NoRequest}]
    BY <1>5, <2>2 DEF TakeLine
  <2> QED
    BY <1>5, <2>1, <2>2, <2>3 DEF TakeLine
<1>6. ASSUME NEW c \in Conn, Leave(c)
      PROVE  TypeOK'
  <2>1. inbox' \in [Conn -> Seq(Lines)]
    BY <1>6 DEF Leave
  <2> QED
    BY <1>6, <2>1 DEF Leave
<1>7. ASSUME NEW c \in Conn, Parse(c)
      PROVE  TypeOK'
  BY <1>7 DEF Parse
<1>8. ASSUME NEW c \in Conn, ParseFails(c)
      PROVE  TypeOK'
  BY <1>8 DEF ParseFails
<1>9. ASSUME NEW c \in Conn, NoBranch(c)
      PROVE  TypeOK'
  BY <1>9 DEF NoBranch
<1>10. ASSUME NEW c \in Conn, Lock(c)
      PROVE  TypeOK'
  <2>1. cmd[c].op \in Locked /\ pc' = [pc EXCEPT ![c] = cmd[c].op]
    BY <1>10, LockTarget DEF Lock
  <2>2. pc' \in [Conn -> Unlocked \union Locked]
    <3>1. pc \in [Conn -> Unlocked \union Locked]
      OBVIOUS
    <3> HIDE DEF IInv, TypeOK, Unlocked, Locked
    <3> QED
      BY <2>1, <3>1
  <2>3. TypeOK
    OBVIOUS
  <2>4. mutex' = c /\ UNCHANGED <<alive, conn, inbox, asked, cmd, found, result, left,
                                  ram, disk, written, dead, is_open, moved, apart,
                                  built, answered>>
    BY <1>10 DEF Lock
  <2> HIDE DEF IInv, CommandOK, Goto, Decide, Plain, NoResult, Locked, Unlocked, Waiting, OpAt, Row, Hit, Request, Op
  <2> QED
    BY <2>2, <2>3, <2>4
<1>11. ASSUME NEW c \in Conn, Unlock(c)
      PROVE  TypeOK'
  <2>1. Cardinality(found[c]) \in Nat
    BY <1>11, FS_CardinalityType DEF Unlock, Counted
  <2>2. left' \in [Conn -> Nat]
    BY <1>11, <2>1 DEF Unlock
  <2> QED
    BY <1>11, <2>1, <2>2 DEF Unlock
<1>12. ASSUME NEW c \in Conn, SendPiece(c)
      PROVE  TypeOK'
  <2>1. left[c] \in Nat /\ left[c] >= 1
    BY <1>12 DEF SendPiece, Counted
  <2>2. conn' \in [Conn -> {"none", "open", "closed", "reset"}]
    BY <1>12 DEF SendPiece
  <2>3. answered' = answered \/ answered' = [answered EXCEPT ![c] = @ + 1]
    BY <1>12 DEF SendPiece
  <2>4. answered[c] + 1 \in Nat
    BY <1>12, SMTT(30)
  <2>5. answered' \in [Conn -> Nat]
    <3>1. answered \in [Conn -> Nat]
      OBVIOUS
    <3> HIDE DEF IInv, TypeOK
    <3> QED
      BY <2>3, <2>4, <3>1
  <2>6. MoreToSend(c) \/ LastSent(c)
    BY <1>12, SentPiece
  <2>7. left[c] - 1 \in Nat
    BY <1>12, <2>1, SMTT(30)
  <2>8. left' = [left EXCEPT ![c] = left[c] - 1]
    BY <1>12 DEF SendPiece
  <2>9. left' \in [Conn -> Nat]
    BY <1>12, <2>7, <2>8
  <2>10. pc' = pc \/ pc' = [pc EXCEPT ![c] = "recv"]
    BY <1>12, <2>6 DEF MoreToSend, LastSent
  <2>11. pc' \in [Conn -> Unlocked \union Locked]
    <3>1. pc \in [Conn -> Unlocked \union Locked] /\ "recv" \in Unlocked \union Locked
      OBVIOUS
    <3> HIDE DEF IInv, Unlocked, Locked
    <3> QED
      BY <2>10, <3>1
  <2>12. cmd' = cmd \/ cmd' = [cmd EXCEPT ![c] = NoRequest]
    BY <1>12, <2>6 DEF MoreToSend, LastSent
  <2>13. cmd' \in [Conn -> Lines \union {NoRequest}]
    BY <1>12, <2>12
  <2>14. result' = result \/ result' = [result EXCEPT ![c] = NoResult]
    BY <1>12, <2>6 DEF MoreToSend, LastSent
  <2>15. result' \in [Conn -> [kind : {"none", "ok", "advice", "duplicate", "error"}, hits : SUBSET Hit]]
    <3> DEFINE R == [kind : {"none", "ok", "advice", "duplicate", "error"}, hits : SUBSET Hit]
    <3>1. result \in [Conn -> R] /\ NoResult \in R
      OBVIOUS
    <3> HIDE DEF IInv, NoResult, R
    <3>2. result' \in [Conn -> R]
      BY <2>14, <3>1
    <3> QED
      BY <3>2 DEF R
  <2>16. UNCHANGED <<alive, inbox, asked, found, mutex, ram, disk, written, dead, is_open, moved, apart, built>>
    BY <1>12 DEF SendPiece
  <2>17. TypeOK
    OBVIOUS
  <2> HIDE DEF IInv, CommandOK, Goto, Decide, Plain, NoResult, Locked, Unlocked, Waiting, OpAt, Row, Hit, Request, Op
  <2> QED
    BY <2>2, <2>5, <2>9, <2>11, <2>13, <2>15, <2>16, <2>17
<1>13. ASSUME NEW c \in Conn, BrokenPipe(c)
      PROVE  TypeOK'
  BY <1>13 DEF BrokenPipe
<1>14. ASSUME NEW c \in Conn, InsertRefused(c)
      PROVE  TypeOK'
  <2>1. PICK k \in {"duplicate", "error"} : result' = [result EXCEPT ![c] = Plain(k)]
    BY <1>14 DEF InsertRefused
  <2>2. result' \in [Conn -> [kind : {"none", "ok", "advice", "duplicate", "error"}, hits : SUBSET Hit]]
    BY <1>14, <2>1
  <2> QED
    BY <1>14, <2>1, <2>2 DEF InsertRefused
<1>15. ASSUME NEW c \in Conn, InsertChecked(c)
      PROVE  TypeOK'
  BY <1>15 DEF InsertChecked
<1>16. ASSUME NEW c \in Conn, WriteEntry(c)
      PROVE  TypeOK'
  <2>1. written' \in Nat /\ disk' \in SUBSET Row
    BY <1>16, Written DEF WriteEntry
  <2> QED
    BY <1>16, <2>1 DEF WriteEntry
<1>17. ASSUME NEW c \in Conn, WriteFails(c)
      PROVE  TypeOK'
  BY <1>17 DEF WriteFails
<1>31. ASSUME NEW c \in Conn, HeaderFails(c)
      PROVE  TypeOK'
  <2>1. written' \in Nat /\ disk' \in SUBSET Row
    BY <1>31, Written DEF HeaderFails
  <2>2. apart' \in SUBSET Id
    BY <1>31 DEF HeaderFails
  <2>3. result' \in [Conn -> [kind : {"none", "ok", "advice", "duplicate", "error"}, hits : SUBSET Hit]]
    BY <1>31 DEF HeaderFails
  <2>4. pc' = [pc EXCEPT ![c] = "unlock"] /\ UNCHANGED <<alive, conn, inbox, asked, cmd, found, left, mutex, answered>>
    BY <1>31 DEF HeaderFails
  <2>5. UNCHANGED <<ram, is_open, moved, built>>
    BY <1>31 DEF HeaderFails
  <2>6. UNCHANGED dead
    BY <1>31 DEF HeaderFails
  <2>7. "unlock" \in Unlocked \union Locked /\ TypeOK
    OBVIOUS
  <2> HIDE DEF IInv, TypeOK, CommandOK, Goto, Decide, Plain, NoResult, Locked, Unlocked, Waiting, OpAt, Row, Hit, Request, Op
  <2> QED
    BY <2>1, <2>2, <2>3, <2>4, <2>5, <2>6, <2>7, Worked DEF TypeOK
<1>18. ASSUME NEW c \in Conn, MakeEntry(c)
      PROVE  TypeOK'
  <2>1. cmd[c] \in Lines
    BY <1>18 DEF MakeEntry
  <2>2. RowOf(cmd[c], written) \in Row
    BY <1>18, <2>1 DEF RowOf
  <2>3. ram' \in SUBSET Row
    BY <1>18, <2>2, SMTT(30) DEF MakeEntry
  <2>4. result' \in [Conn -> [kind : {"none", "ok", "advice", "duplicate", "error"}, hits : SUBSET Hit]]
    BY <1>18 DEF MakeEntry
  <2>5. moved' \in SUBSET Id
    BY <1>18 DEF MakeEntry
  <2> QED
    BY <1>18, <2>1, <2>2, <2>3, <2>4, <2>5 DEF MakeEntry
<1>19. ASSUME NEW c \in Conn, QueryRefused(c)
      PROVE  TypeOK'
  BY <1>19 DEF QueryRefused
<1>20. ASSUME NEW c \in Conn, Search(c)
      PROVE  TypeOK'
  <2>1. found' \in [Conn -> SUBSET Row]
    BY <1>20, SMTT(30) DEF Search
  <2> QED
    BY <1>20, <2>1 DEF Search
<1>21. ASSUME NEW c \in Conn, ReadTexts(c)
      PROVE  TypeOK'
  <2>1. PICK text \in [found[c] -> Val \union {NoText}] :
            result' = [result EXCEPT ![c] =
                [kind |-> "ok", hits |-> {[id |-> row.id, val |-> text[row]] : row \in found[c]}]]
    BY <1>21 DEF ReadTexts
  <2>2. {[id |-> row.id, val |-> text[row]] : row \in found[c]} \in SUBSET Hit
    <3>1. found[c] \subseteq Row
      OBVIOUS
    <3>2. ASSUME NEW row \in found[c]  PROVE [id |-> row.id, val |-> text[row]] \in Hit
      <4>1. row.id \in Id
        BY <3>1
      <4>2. text[row] \in Val \union {NoText}
        BY <2>1
      <4> QED
        BY <4>1, <4>2
    <3> HIDE DEF IInv, TypeOK, CommandOK, Hit, Row
    <3> QED
      BY <3>2
  <2>3. result' \in [Conn -> [kind : {"none", "ok", "advice", "duplicate", "error"}, hits : SUBSET Hit]]
    <3> DEFINE R == [kind : {"none", "ok", "advice", "duplicate", "error"}, hits : SUBSET Hit]
               h == {[id |-> row.id, val |-> text[row]] : row \in found[c]}
    <3>1. result \in [Conn -> R] /\ h \in SUBSET Hit
      BY <2>2
    <3> HIDE DEF IInv, TypeOK, h, Hit
    <3> QED
      BY <2>1, <3>1 DEF h
  <2> QED
    BY <1>21, <2>3 DEF ReadTexts
<1>22. ASSUME NEW c \in Conn, DeleteRefused(c)
      PROVE  TypeOK'
  BY <1>22 DEF DeleteRefused
<1>23. ASSUME NEW c \in Conn, DeleteEntry(c)
      PROVE  TypeOK'
  <2>1. disk' \in SUBSET Row /\ dead' \in Nat
    BY <1>23, Buried DEF DeleteEntry
  <2> QED
    BY <1>23, <2>1 DEF DeleteEntry
<1>32. ASSUME NEW c \in Conn, DeleteFails(c)
      PROVE  TypeOK'
  <2>1. disk' \in SUBSET Row /\ dead' \in Nat
    BY <1>32, Buried DEF DeleteFails
  <2>2. apart' \in SUBSET Id
    BY <1>32 DEF DeleteFails
  <2>3. result' \in [Conn -> [kind : {"none", "ok", "advice", "duplicate", "error"}, hits : SUBSET Hit]]
    BY <1>32 DEF DeleteFails
  <2>4. pc' = [pc EXCEPT ![c] = "unlock"] /\ UNCHANGED <<alive, conn, inbox, asked, cmd, found, left, mutex, answered>>
    BY <1>32 DEF DeleteFails
  <2>5. UNCHANGED <<ram, is_open, moved, built>>
    BY <1>32 DEF DeleteFails
  <2>6. UNCHANGED written
    BY <1>32 DEF DeleteFails
  <2>7. "unlock" \in Unlocked \union Locked /\ TypeOK
    OBVIOUS
  <2> HIDE DEF IInv, TypeOK, CommandOK, Goto, Decide, Plain, NoResult, Locked, Unlocked, Waiting, OpAt, Row, Hit, Request, Op
  <2> QED
    BY <2>1, <2>2, <2>3, <2>4, <2>5, <2>6, <2>7, Worked DEF TypeOK
<1>24. ASSUME NEW c \in Conn, RemoveEntry(c)
      PROVE  TypeOK'
  <2>1. ram' \in SUBSET Row
    BY <1>24 DEF RemoveEntry
  <2>2. \E kind \in {"ok", "error"} : result' = [result EXCEPT ![c] = Plain(kind)]
    BY <1>24 DEF RemoveEntry
  <2>3. \E to \in {"compact", "unlock"} : pc' = [pc EXCEPT ![c] = to]
    BY <1>24 DEF RemoveEntry
  <2>4. result' \in [Conn -> [kind : {"none", "ok", "advice", "duplicate", "error"}, hits : SUBSET Hit]]
    BY <2>2
  <2>5. pc' \in [Conn -> Unlocked \union Locked]
    BY <2>3
  <2> QED
    BY <1>24, <2>1, <2>4, <2>5 DEF RemoveEntry
<1>25. ASSUME NEW c \in Conn, Compact(c)
      PROVE  TypeOK'
  <2>1. {d.id : d \in ram} \in SUBSET Id
    <3>1. ASSUME NEW d \in ram  PROVE d.id \in Id
      OBVIOUS
    <3> HIDE DEF IInv, TypeOK, CommandOK, Row
    <3> QED
      BY <3>1
  <2>2. moved' \in SUBSET Id /\ dead' \in Nat
    BY <1>25, <2>1 DEF Compact
  <2> QED
    BY <1>25, <2>2 DEF Compact
<1>33. ASSUME NEW c \in Conn, CompactFails(c)
      PROVE  TypeOK'
  BY <1>33 DEF CompactFails
<1>26. ASSUME NEW c \in Conn, OptimizeIndex(c)
      PROVE  TypeOK'
  BY <1>26, FS_CardinalityType DEF OptimizeIndex, Counted
<1>27. ASSUME NEW c \in Conn, FlushHeader(c)
      PROVE  TypeOK'
  BY <1>27 DEF FlushHeader
<1>28. ASSUME NEW c \in Conn, Clear(c)
      PROVE  TypeOK'
  BY <1>28 DEF Clear
<1>29. ASSUME NEW c \in Conn, LoadEntry(c)
      PROVE  TypeOK'
  BY <1>29 DEF LoadEntry
<1>30. ASSUME NEW c \in Conn, LoadDone(c)
      PROVE  TypeOK'
  BY <1>30, FS_CardinalityType DEF LoadDone, Counted
<1> QED
  BY <1>1, <1>2, <1>3, <1>4, <1>5, <1>6, <1>7, <1>8, <1>9, <1>10, <1>11, <1>12, <1>13, <1>14, <1>15, <1>16, <1>17, <1>18, <1>19, <1>20, <1>21, <1>22, <1>23, <1>24, <1>25, <1>26, <1>27, <1>28, <1>29, <1>30, <1>31, <1>32, <1>33
     DEF Next, Work, Quiet

\* A step adds or removes one document at a time, and a reply has a piece left
\* as long as it is being sent.
LEMMA CountedStep ==
    ASSUME IInv, [Next]_vars
    PROVE  Counted'
<1> USE ServerAssumption DEF IInv, TypeOK, CommandOK, network, thread, files, store, Goto, Decide, Plain, NoResult, Locked, Unlocked, Waiting, OpAt, Counted
<1>1. CASE UNCHANGED vars
  BY <1>1 DEF vars
<1>2. ASSUME NEW c \in Conn, NEW r \in Lines, SendLine(c, r)
      PROVE  Counted'
  BY <1>2 DEF SendLine
<1>3. ASSUME NEW c \in Conn, Connect(c)
      PROVE  Counted'
  BY <1>3 DEF Connect
<1>4. ASSUME NEW c \in Conn, Quit(c)
      PROVE  Counted'
  BY <1>4 DEF Quit
<1>5. ASSUME NEW c \in Conn, TakeLine(c)
      PROVE  Counted'
  BY <1>5 DEF TakeLine
<1>6. ASSUME NEW c \in Conn, Leave(c)
      PROVE  Counted'
  BY <1>6 DEF Leave
<1>7. ASSUME NEW c \in Conn, Parse(c)
      PROVE  Counted'
  BY <1>7 DEF Parse
<1>8. ASSUME NEW c \in Conn, ParseFails(c)
      PROVE  Counted'
  <2>1. left' = [left EXCEPT ![c] = 1]
    BY <1>8 DEF ParseFails
  <2> QED
    BY <1>8, <2>1, SMTT(30) DEF ParseFails
<1>9. ASSUME NEW c \in Conn, NoBranch(c)
      PROVE  Counted'
  BY <1>9 DEF NoBranch
<1>10. ASSUME NEW c \in Conn, Lock(c)
      PROVE  Counted'
  BY <1>10, LockTarget DEF Lock
<1>11. ASSUME NEW c \in Conn, Unlock(c)
      PROVE  Counted'
  <2>1. Cardinality(found[c]) \in Nat
    BY <1>11, FS_CardinalityType
  <2>2. left'[c] >= 1
    BY <1>11, <2>1 DEF Unlock
  <2>3. \A x \in Conn : IsFiniteSet(found'[x])
    BY <1>11, FS_EmptySet DEF Unlock
  <2> QED
    BY <1>11, <2>1, <2>2, <2>3 DEF Unlock
<1>12. ASSUME NEW c \in Conn, SendPiece(c)
      PROVE  Counted'
  <2>1. MoreToSend(c) \/ LastSent(c)
    BY <1>12, SentPiece
  <2>2. CASE MoreToSend(c)
    BY <1>12, <2>2, SMTT(30) DEF MoreToSend
  <2>3. CASE LastSent(c)
    BY <1>12, <2>3, FS_EmptySet DEF LastSent
  <2> QED
    BY <1>12, <2>1, <2>2, <2>3 DEF SendPiece
<1>13. ASSUME NEW c \in Conn, BrokenPipe(c)
      PROVE  Counted'
  BY <1>13 DEF BrokenPipe
<1>14. ASSUME NEW c \in Conn, InsertRefused(c)
      PROVE  Counted'
  BY <1>14, OnlyDecides DEF InsertRefused
<1>15. ASSUME NEW c \in Conn, InsertChecked(c)
      PROVE  Counted'
  BY <1>15 DEF InsertChecked
<1>16. ASSUME NEW c \in Conn, WriteEntry(c)
      PROVE  Counted'
  <2>1. IsFiniteSet(disk')
    BY <1>16, Written DEF WriteEntry
  <2> QED
    BY <1>16, <2>1 DEF WriteEntry
<1>17. ASSUME NEW c \in Conn, WriteFails(c)
      PROVE  Counted'
  BY <1>17, OnlyDecides DEF WriteFails
<1>31. ASSUME NEW c \in Conn, HeaderFails(c)
      PROVE  Counted'
  <2>1. IsFiniteSet(disk')
    BY <1>31, Written DEF HeaderFails
  <2> QED
    BY <1>31, <2>1, OnlyDecides DEF HeaderFails
<1>18. ASSUME NEW c \in Conn, MakeEntry(c)
      PROVE  Counted'
  <2>1. IsFiniteSet(ram')
    BY <1>18, FS_AddElement DEF MakeEntry
  <2> QED
    BY <1>18, <2>1, OnlyDecides DEF MakeEntry
<1>19. ASSUME NEW c \in Conn, QueryRefused(c)
      PROVE  Counted'
  BY <1>19, OnlyDecides DEF QueryRefused
<1>20. ASSUME NEW c \in Conn, Search(c)
      PROVE  Counted'
  <2>1. PICK S \in SUBSET ram : found' = [found EXCEPT ![c] = S]
    BY <1>20 DEF Search
  <2>2. IsFiniteSet(S)
    BY <2>1, FS_Subset
  <2>3. \A x \in Conn : IsFiniteSet(found'[x])
    BY <2>1, <2>2
  <2> QED
    BY <1>20, <2>3 DEF Search
<1>21. ASSUME NEW c \in Conn, ReadTexts(c)
      PROVE  Counted'
  BY <1>21, OnlyDecides DEF ReadTexts
<1>22. ASSUME NEW c \in Conn, DeleteRefused(c)
      PROVE  Counted'
  BY <1>22, OnlyDecides DEF DeleteRefused
<1>23. ASSUME NEW c \in Conn, DeleteEntry(c)
      PROVE  Counted'
  <2>1. IsFiniteSet(disk')
    BY <1>23, Buried DEF DeleteEntry
  <2> QED
    BY <1>23, <2>1 DEF DeleteEntry
<1>32. ASSUME NEW c \in Conn, DeleteFails(c)
      PROVE  Counted'
  <2>1. IsFiniteSet(disk')
    BY <1>32, Buried DEF DeleteFails
  <2> QED
    BY <1>32, <2>1, OnlyDecides DEF DeleteFails
<1>24. ASSUME NEW c \in Conn, RemoveEntry(c)
      PROVE  Counted'
  <2>1. ram' \subseteq ram /\ UNCHANGED <<disk, found, left>>
    BY <1>24 DEF RemoveEntry
  <2>2. IsFiniteSet(ram')
    BY <2>1, FS_Subset
  <2>3. \E to \in {"compact", "unlock"} : pc' = [pc EXCEPT ![c] = to]
    BY <1>24 DEF RemoveEntry
  <2> QED
    BY <2>1, <2>2, <2>3
<1>25. ASSUME NEW c \in Conn, Compact(c)
      PROVE  Counted'
  BY <1>25 DEF Compact
<1>33. ASSUME NEW c \in Conn, CompactFails(c)
      PROVE  Counted'
  BY <1>33 DEF CompactFails
<1>26. ASSUME NEW c \in Conn, OptimizeIndex(c)
      PROVE  Counted'
  BY <1>26, OnlyDecides DEF OptimizeIndex
<1>27. ASSUME NEW c \in Conn, FlushHeader(c)
      PROVE  Counted'
  BY <1>27, OnlyDecides DEF FlushHeader
<1>28. ASSUME NEW c \in Conn, Clear(c)
      PROVE  Counted'
  BY <1>28, FS_EmptySet DEF Clear
<1>29. ASSUME NEW c \in Conn, LoadEntry(c)
      PROVE  Counted'
  <2>1. IsFiniteSet(ram')
    BY <1>29, FS_AddElement DEF LoadEntry
  <2> QED
    BY <1>29, <2>1 DEF LoadEntry
<1>30. ASSUME NEW c \in Conn, LoadDone(c)
      PROVE  Counted'
  BY <1>30, OnlyDecides DEF LoadDone
<1> QED
  BY <1>1, <1>2, <1>3, <1>4, <1>5, <1>6, <1>7, <1>8, <1>9, <1>10, <1>11, <1>12, <1>13, <1>14, <1>15, <1>16, <1>17, <1>18, <1>19, <1>20, <1>21, <1>22, <1>23, <1>24, <1>25, <1>26, <1>27, <1>28, <1>29, <1>30, <1>31, <1>32, <1>33
     DEF Next, Work, Quiet

\* A step enters a locked block with the mutex and leaves it with Unlock.
LEMMA MutexStep ==
    ASSUME IInv, [Next]_vars
    PROVE  MutexOK'
<1> USE ServerAssumption DEF IInv, TypeOK, CommandOK, network, thread, files, store, Goto, Decide, Plain, NoResult, Locked, Unlocked, Waiting, OpAt, MutexOK
<1>1. CASE UNCHANGED vars
  BY <1>1 DEF vars
<1>2. ASSUME NEW c \in Conn, NEW r \in Lines, SendLine(c, r)
      PROVE  MutexOK'
  BY <1>2 DEF SendLine
<1>3. ASSUME NEW c \in Conn, Connect(c)
      PROVE  MutexOK'
  BY <1>3 DEF Connect
<1>4. ASSUME NEW c \in Conn, Quit(c)
      PROVE  MutexOK'
  BY <1>4 DEF Quit
<1>5. ASSUME NEW c \in Conn, TakeLine(c)
      PROVE  MutexOK'
  BY <1>5 DEF TakeLine
<1>6. ASSUME NEW c \in Conn, Leave(c)
      PROVE  MutexOK'
  BY <1>6 DEF Leave
<1>7. ASSUME NEW c \in Conn, Parse(c)
      PROVE  MutexOK'
  BY <1>7 DEF Parse
<1>8. ASSUME NEW c \in Conn, ParseFails(c)
      PROVE  MutexOK'
  BY <1>8 DEF ParseFails
<1>9. ASSUME NEW c \in Conn, NoBranch(c)
      PROVE  MutexOK'
  BY <1>9 DEF NoBranch
<1>10. ASSUME NEW c \in Conn, Lock(c)
      PROVE  MutexOK'
  BY <1>10, LockTarget DEF Lock
<1>11. ASSUME NEW c \in Conn, Unlock(c)
      PROVE  MutexOK'
  BY <1>11 DEF Unlock
<1>12. ASSUME NEW c \in Conn, SendPiece(c)
      PROVE  MutexOK'
  <2>1. MoreToSend(c) \/ LastSent(c)
    BY <1>12, SentPiece
  <2>2. CASE MoreToSend(c)
    BY <1>12, <2>2 DEF MoreToSend
  <2>3. CASE LastSent(c)
    BY <1>12, <2>3 DEF LastSent
  <2> QED
    BY <1>12, <2>1, <2>2, <2>3 DEF SendPiece
<1>13. ASSUME NEW c \in Conn, BrokenPipe(c)
      PROVE  MutexOK'
  BY <1>13 DEF BrokenPipe
<1>14. ASSUME NEW c \in Conn, InsertRefused(c)
      PROVE  MutexOK'
  BY <1>14 DEF InsertRefused
<1>15. ASSUME NEW c \in Conn, InsertChecked(c)
      PROVE  MutexOK'
  BY <1>15 DEF InsertChecked
<1>16. ASSUME NEW c \in Conn, WriteEntry(c)
      PROVE  MutexOK'
  BY <1>16 DEF WriteEntry
<1>17. ASSUME NEW c \in Conn, WriteFails(c)
      PROVE  MutexOK'
  BY <1>17 DEF WriteFails
<1>31. ASSUME NEW c \in Conn, HeaderFails(c)
      PROVE  MutexOK'
  BY <1>31 DEF HeaderFails
<1>18. ASSUME NEW c \in Conn, MakeEntry(c)
      PROVE  MutexOK'
  BY <1>18 DEF MakeEntry
<1>19. ASSUME NEW c \in Conn, QueryRefused(c)
      PROVE  MutexOK'
  BY <1>19 DEF QueryRefused
<1>20. ASSUME NEW c \in Conn, Search(c)
      PROVE  MutexOK'
  BY <1>20 DEF Search
<1>21. ASSUME NEW c \in Conn, ReadTexts(c)
      PROVE  MutexOK'
  BY <1>21 DEF ReadTexts
<1>22. ASSUME NEW c \in Conn, DeleteRefused(c)
      PROVE  MutexOK'
  BY <1>22 DEF DeleteRefused
<1>23. ASSUME NEW c \in Conn, DeleteEntry(c)
      PROVE  MutexOK'
  BY <1>23 DEF DeleteEntry
<1>32. ASSUME NEW c \in Conn, DeleteFails(c)
      PROVE  MutexOK'
  BY <1>32 DEF DeleteFails
<1>24. ASSUME NEW c \in Conn, RemoveEntry(c)
      PROVE  MutexOK'
  <2>1. pc[c] = "remove" /\ (\E to \in {"compact", "unlock"} : pc' = [pc EXCEPT ![c] = to]) /\ mutex' = mutex
    BY <1>24 DEF RemoveEntry
  <2> QED
    BY <2>1
<1>25. ASSUME NEW c \in Conn, Compact(c)
      PROVE  MutexOK'
  BY <1>25 DEF Compact
<1>33. ASSUME NEW c \in Conn, CompactFails(c)
      PROVE  MutexOK'
  BY <1>33 DEF CompactFails
<1>26. ASSUME NEW c \in Conn, OptimizeIndex(c)
      PROVE  MutexOK'
  BY <1>26 DEF OptimizeIndex
<1>27. ASSUME NEW c \in Conn, FlushHeader(c)
      PROVE  MutexOK'
  BY <1>27 DEF FlushHeader
<1>28. ASSUME NEW c \in Conn, Clear(c)
      PROVE  MutexOK'
  BY <1>28 DEF Clear
<1>29. ASSUME NEW c \in Conn, LoadEntry(c)
      PROVE  MutexOK'
  BY <1>29 DEF LoadEntry
<1>30. ASSUME NEW c \in Conn, LoadDone(c)
      PROVE  MutexOK'
  BY <1>30 DEF LoadDone
<1> QED
  BY <1>1, <1>2, <1>3, <1>4, <1>5, <1>6, <1>7, <1>8, <1>9, <1>10, <1>11, <1>12, <1>13, <1>14, <1>15, <1>16, <1>17, <1>18, <1>19, <1>20, <1>21, <1>22, <1>23, <1>24, <1>25, <1>26, <1>27, <1>28, <1>29, <1>30, <1>31, <1>32, <1>33
     DEF Next, Work, Quiet

\* A step stays on the branch of its command.
LEMMA CommandStep ==
    ASSUME IInv, [Next]_vars
    PROVE  CommandOK'
<1> USE ServerAssumption DEF IInv, TypeOK, CommandOK, network, thread, files, store, Goto, Decide, Plain, NoResult, Locked, Unlocked, Waiting, OpAt, Request, Op
<1>1. CASE UNCHANGED vars
  BY <1>1 DEF vars
<1>2. ASSUME NEW c \in Conn, NEW r \in Lines, SendLine(c, r)
      PROVE  CommandOK'
  BY <1>2 DEF SendLine
<1>3. ASSUME NEW c \in Conn, Connect(c)
      PROVE  CommandOK'
  BY <1>3, CommandAt DEF Connect
<1>4. ASSUME NEW c \in Conn, Quit(c)
      PROVE  CommandOK'
  BY <1>4 DEF Quit
<1>5. ASSUME NEW c \in Conn, TakeLine(c)
      PROVE  CommandOK'
  <2>1. inbox[c] \in Seq(Lines) /\ inbox[c] # <<>>
    BY <1>5 DEF TakeLine
  <2>2. Head(inbox[c]) \in Lines
    BY <2>1
  <2>3. cmd'[c] = Head(inbox[c])
    BY <1>5 DEF TakeLine
  <2> QED
    BY <1>5, <2>2, <2>3, CommandAt DEF TakeLine
<1>6. ASSUME NEW c \in Conn, Leave(c)
      PROVE  CommandOK'
  BY <1>6, CommandAt DEF Leave
<1>7. ASSUME NEW c \in Conn, Parse(c)
      PROVE  CommandOK'
  BY <1>7, CommandAt DEF Parse
<1>8. ASSUME NEW c \in Conn, ParseFails(c)
      PROVE  CommandOK'
  BY <1>8, CommandAt DEF ParseFails
<1>9. ASSUME NEW c \in Conn, NoBranch(c)
      PROVE  CommandOK'
  BY <1>9 DEF NoBranch
<1>10. ASSUME NEW c \in Conn, Lock(c)
      PROVE  CommandOK'
  BY <1>10, LockTarget, CommandAt DEF Lock
<1>11. ASSUME NEW c \in Conn, Unlock(c)
      PROVE  CommandOK'
  BY <1>11, CommandAt DEF Unlock
<1>12. ASSUME NEW c \in Conn, SendPiece(c)
      PROVE  CommandOK'
  <2>1. MoreToSend(c) \/ LastSent(c)
    BY <1>12, SentPiece
  <2>2. CASE MoreToSend(c)
    BY <1>12, <2>2 DEF MoreToSend
  <2>3. CASE LastSent(c)
    BY <1>12, <2>3 DEF LastSent
  <2> QED
    BY <1>12, <2>1, <2>2, <2>3 DEF SendPiece
<1>13. ASSUME NEW c \in Conn, BrokenPipe(c)
      PROVE  CommandOK'
  BY <1>13 DEF BrokenPipe
<1>14. ASSUME NEW c \in Conn, InsertRefused(c)
      PROVE  CommandOK'
  BY <1>14, BranchKept DEF InsertRefused
<1>15. ASSUME NEW c \in Conn, InsertChecked(c)
      PROVE  CommandOK'
  BY <1>15, BranchKept DEF InsertChecked
<1>16. ASSUME NEW c \in Conn, WriteEntry(c)
      PROVE  CommandOK'
  BY <1>16, BranchKept DEF WriteEntry
<1>17. ASSUME NEW c \in Conn, WriteFails(c)
      PROVE  CommandOK'
  BY <1>17, BranchKept DEF WriteFails
<1>31. ASSUME NEW c \in Conn, HeaderFails(c)
      PROVE  CommandOK'
  BY <1>31, BranchKept DEF HeaderFails
<1>18. ASSUME NEW c \in Conn, MakeEntry(c)
      PROVE  CommandOK'
  BY <1>18, BranchKept DEF MakeEntry
<1>19. ASSUME NEW c \in Conn, QueryRefused(c)
      PROVE  CommandOK'
  BY <1>19, BranchKept DEF QueryRefused
<1>20. ASSUME NEW c \in Conn, Search(c)
      PROVE  CommandOK'
  BY <1>20, BranchKept DEF Search
<1>21. ASSUME NEW c \in Conn, ReadTexts(c)
      PROVE  CommandOK'
  BY <1>21, BranchKept DEF ReadTexts
<1>22. ASSUME NEW c \in Conn, DeleteRefused(c)
      PROVE  CommandOK'
  BY <1>22, BranchKept DEF DeleteRefused
<1>23. ASSUME NEW c \in Conn, DeleteEntry(c)
      PROVE  CommandOK'
  BY <1>23, BranchKept DEF DeleteEntry
<1>32. ASSUME NEW c \in Conn, DeleteFails(c)
      PROVE  CommandOK'
  BY <1>32, BranchKept DEF DeleteFails
<1>24. ASSUME NEW c \in Conn, RemoveEntry(c)
      PROVE  CommandOK'
  <2>1. PICK to \in {"compact", "unlock"} : Goto(c, "remove", to)
    BY <1>24 DEF RemoveEntry
  <2> QED
    BY <1>24, <2>1, BranchKept DEF RemoveEntry
<1>25. ASSUME NEW c \in Conn, Compact(c)
      PROVE  CommandOK'
  BY <1>25, BranchKept DEF Compact
<1>33. ASSUME NEW c \in Conn, CompactFails(c)
      PROVE  CommandOK'
  BY <1>33, BranchKept DEF CompactFails
<1>26. ASSUME NEW c \in Conn, OptimizeIndex(c)
      PROVE  CommandOK'
  BY <1>26, BranchKept DEF OptimizeIndex
<1>27. ASSUME NEW c \in Conn, FlushHeader(c)
      PROVE  CommandOK'
  BY <1>27, BranchKept DEF FlushHeader
<1>28. ASSUME NEW c \in Conn, Clear(c)
      PROVE  CommandOK'
  BY <1>28, BranchKept DEF Clear
<1>29. ASSUME NEW c \in Conn, LoadEntry(c)
      PROVE  CommandOK'
  BY <1>29, BranchKept DEF LoadEntry
<1>30. ASSUME NEW c \in Conn, LoadDone(c)
      PROVE  CommandOK'
  BY <1>30, BranchKept DEF LoadDone
<1> QED
  BY <1>1, <1>2, <1>3, <1>4, <1>5, <1>6, <1>7, <1>8, <1>9, <1>10, <1>11, <1>12, <1>13, <1>14, <1>15, <1>16, <1>17, <1>18, <1>19, <1>20, <1>21, <1>22, <1>23, <1>24, <1>25, <1>26, <1>27, <1>28, <1>29, <1>30, <1>31, <1>32, <1>33
     DEF Next, Work, Quiet

\* A result appears with the step that decides it and goes with the reply.
LEMMA ResultStep ==
    ASSUME IInv, [Next]_vars
    PROVE  ResultOK'
<1> USE ServerAssumption DEF IInv, TypeOK, CommandOK, network, thread, files, store, Goto, Decide, Plain, NoResult, Locked, Unlocked, Waiting, OpAt, ResultOK, Decided
<1>1. CASE UNCHANGED vars
  BY <1>1 DEF vars
<1>2. ASSUME NEW c \in Conn, NEW r \in Lines, SendLine(c, r)
      PROVE  ResultOK'
  BY <1>2 DEF SendLine
<1>3. ASSUME NEW c \in Conn, Connect(c)
      PROVE  ResultOK'
  BY <1>3 DEF Connect
<1>4. ASSUME NEW c \in Conn, Quit(c)
      PROVE  ResultOK'
  BY <1>4 DEF Quit
<1>5. ASSUME NEW c \in Conn, TakeLine(c)
      PROVE  ResultOK'
  BY <1>5 DEF TakeLine
<1>6. ASSUME NEW c \in Conn, Leave(c)
      PROVE  ResultOK'
  BY <1>6 DEF Leave
<1>7. ASSUME NEW c \in Conn, Parse(c)
      PROVE  ResultOK'
  BY <1>7 DEF Parse
<1>8. ASSUME NEW c \in Conn, ParseFails(c)
      PROVE  ResultOK'
  BY <1>8 DEF ParseFails
<1>9. ASSUME NEW c \in Conn, NoBranch(c)
      PROVE  ResultOK'
  BY <1>9 DEF NoBranch
<1>10. ASSUME NEW c \in Conn, Lock(c)
      PROVE  ResultOK'
  BY <1>10, LockTarget DEF Lock
<1>11. ASSUME NEW c \in Conn, Unlock(c)
      PROVE  ResultOK'
  BY <1>11 DEF Unlock
<1>12. ASSUME NEW c \in Conn, SendPiece(c)
      PROVE  ResultOK'
  <2>1. MoreToSend(c) \/ LastSent(c)
    BY <1>12, SentPiece
  <2>2. CASE MoreToSend(c)
    BY <1>12, <2>2 DEF MoreToSend
  <2>3. CASE LastSent(c)
    BY <1>12, <2>3 DEF LastSent
  <2> QED
    BY <1>12, <2>1, <2>2, <2>3 DEF SendPiece
<1>13. ASSUME NEW c \in Conn, BrokenPipe(c)
      PROVE  ResultOK'
  BY <1>13 DEF BrokenPipe
<1>14. ASSUME NEW c \in Conn, InsertRefused(c)
      PROVE  ResultOK'
  <2>1. PICK k \in {"duplicate", "error"} : result' = [result EXCEPT ![c] = Plain(k)] /\ pc[c] = "INSERT" /\ pc' = [pc EXCEPT ![c] = "unlock"]
    BY <1>14 DEF InsertRefused
  <2>2. "INSERT" \notin Decided /\ "unlock" \in Decided /\ Plain(k) # Plain("none")
    BY <2>1 DEF Decided
  <2> QED
    BY <2>1, <2>2
<1>15. ASSUME NEW c \in Conn, InsertChecked(c)
      PROVE  ResultOK'
  BY <1>15 DEF InsertChecked
<1>16. ASSUME NEW c \in Conn, WriteEntry(c)
      PROVE  ResultOK'
  BY <1>16 DEF WriteEntry
<1>17. ASSUME NEW c \in Conn, WriteFails(c)
      PROVE  ResultOK'
  BY <1>17 DEF WriteFails
<1>31. ASSUME NEW c \in Conn, HeaderFails(c)
      PROVE  ResultOK'
  BY <1>31 DEF HeaderFails
<1>18. ASSUME NEW c \in Conn, MakeEntry(c)
      PROVE  ResultOK'
  BY <1>18 DEF MakeEntry
<1>19. ASSUME NEW c \in Conn, QueryRefused(c)
      PROVE  ResultOK'
  BY <1>19 DEF QueryRefused
<1>20. ASSUME NEW c \in Conn, Search(c)
      PROVE  ResultOK'
  BY <1>20 DEF Search
<1>21. ASSUME NEW c \in Conn, ReadTexts(c)
      PROVE  ResultOK'
  <2>1. PICK text \in [found[c] -> Val \union {NoText}] :
            result' = [result EXCEPT ![c] =
                [kind |-> "ok", hits |-> {[id |-> row.id, val |-> text[row]] : row \in found[c]}]]
    BY <1>21 DEF ReadTexts
  <2> DEFINE r == [kind |-> "ok", hits |-> {[id |-> row.id, val |-> text[row]] : row \in found[c]}]
  <2>2. r # [kind |-> "none", hits |-> {}]
    <3>1. r.kind = "ok"
      OBVIOUS
    <3> QED
      BY <3>1
  <2>3. result' = [result EXCEPT ![c] = r]
    BY <2>1
  <2> HIDE DEF r
  <2> QED
    BY <1>21, <2>2, <2>3 DEF ReadTexts
<1>22. ASSUME NEW c \in Conn, DeleteRefused(c)
      PROVE  ResultOK'
  BY <1>22 DEF DeleteRefused
<1>23. ASSUME NEW c \in Conn, DeleteEntry(c)
      PROVE  ResultOK'
  BY <1>23 DEF DeleteEntry
<1>32. ASSUME NEW c \in Conn, DeleteFails(c)
      PROVE  ResultOK'
  BY <1>32 DEF DeleteFails
<1>24. ASSUME NEW c \in Conn, RemoveEntry(c)
      PROVE  ResultOK'
  <2>1. pc[c] = "remove" /\ \E to \in {"compact", "unlock"} : pc' = [pc EXCEPT ![c] = to]
    BY <1>24 DEF RemoveEntry
  <2>2. \E kind \in {"ok", "error"} : result' = [result EXCEPT ![c] = Plain(kind)]
    BY <1>24 DEF RemoveEntry
  <2>3. "remove" \notin Decided /\ "compact" \in Decided /\ "unlock" \in Decided
    BY DEF Decided
  <2>4. \A kind \in {"ok", "error"} : Plain(kind) # Plain("none")
    OBVIOUS
  <2>5. PICK kind \in {"ok", "error"} : result' = [result EXCEPT ![c] = Plain(kind)]
    BY <2>2
  <2>6. pc'[c] \in Decided /\ \A x \in Conn \ {c} : pc'[x] = pc[x]
    BY <2>1, <2>3
  <2>7. result'[c] # NoResult /\ \A x \in Conn \ {c} : result'[x] = result[x]
    BY <2>4, <2>5
  <2> QED
    BY <2>6, <2>7
<1>25. ASSUME NEW c \in Conn, Compact(c)
      PROVE  ResultOK'
  BY <1>25 DEF Compact
<1>33. ASSUME NEW c \in Conn, CompactFails(c)
      PROVE  ResultOK'
  BY <1>33 DEF CompactFails
<1>26. ASSUME NEW c \in Conn, OptimizeIndex(c)
      PROVE  ResultOK'
  BY <1>26 DEF OptimizeIndex
<1>27. ASSUME NEW c \in Conn, FlushHeader(c)
      PROVE  ResultOK'
  BY <1>27 DEF FlushHeader
<1>28. ASSUME NEW c \in Conn, Clear(c)
      PROVE  ResultOK'
  BY <1>28 DEF Clear
<1>29. ASSUME NEW c \in Conn, LoadEntry(c)
      PROVE  ResultOK'
  BY <1>29 DEF LoadEntry
<1>30. ASSUME NEW c \in Conn, LoadDone(c)
      PROVE  ResultOK'
  BY <1>30 DEF LoadDone
<1> QED
  BY <1>1, <1>2, <1>3, <1>4, <1>5, <1>6, <1>7, <1>8, <1>9, <1>10, <1>11, <1>12, <1>13, <1>14, <1>15, <1>16, <1>17, <1>18, <1>19, <1>20, <1>21, <1>22, <1>23, <1>24, <1>25, <1>26, <1>27, <1>28, <1>29, <1>30, <1>31, <1>32, <1>33
     DEF Next, Work, Quiet

\* The places where RAM, disk and thread are tied together.
Tied == {"write", "make", "remove", "fill", "texts", "compact"}

\* A step to and from other places.
LEMMA UntiedStep ==
    ASSUME TypeOK, StoreOK, NEW c \in Conn, NEW to, to \notin Tied, pc[c] \notin Between,
           pc' = [pc EXCEPT ![c] = to], UNCHANGED <<ram, disk, written, is_open, apart>>,
           \A x \in Conn \ {c} : cmd'[x] = cmd[x] /\ found'[x] = found[x] /\ result'[x] = result[x]
    PROVE  StoreOK'
<1>1. pc'[c] = to /\ \A x \in Conn \ {c} : pc'[x] = pc[x]
  BY DEF TypeOK
<1>2. UNCHANGED <<Sure(ram), Sure(disk)>>
  BY DEF Sure
<1>3. OnePerId(Sure(ram))' /\ (is_open => OnePerId(Sure(disk)))'
  BY <1>2 DEF StoreOK, OnePerId
<1>4. (is_open /\ (\A x \in Conn : pc[x] \notin Between) => Sure(ram) = Sure(disk))'
  <2>1. SUFFICES ASSUME \A x \in Conn : pc'[x] \notin Between  PROVE \A x \in Conn : pc[x] \notin Between
    BY <1>2 DEF StoreOK
  <2> QED
    BY <1>1, <2>1
<1>5. ASSUME NEW x \in Conn  PROVE Tie(x)'
  <2>1. CASE x = c
    BY <1>1, <2>1 DEF Tied, Tie
  <2>2. CASE x # c
    <3>1. Tie(x) /\ pc'[x] = pc[x] /\ cmd'[x] = cmd[x] /\ found'[x] = found[x] /\ result'[x] = result[x]
      BY <1>1, <2>2 DEF StoreOK
    <3>2. RowOf(cmd[x], written)' = RowOf(cmd[x], written)
      BY <3>1 DEF RowOf
    <3>3. Sure(ram \union {RowOf(cmd[x], written)})' = Sure(ram \union {RowOf(cmd[x], written)})
      BY <3>2 DEF Sure
    <3> QED
      BY <1>2, <3>1, <3>3 DEF Tie, InDocs
  <2> QED
    BY <2>1, <2>2
<1> QED
  BY <1>3, <1>4, <1>5 DEF StoreOK

\* A step of the holder of the mutex: only what it does to its own place is to
\* be shown.
LEMMA HeldStep ==
    ASSUME TypeOK, MutexOK, NEW c \in Conn, NEW to,
           pc[c] \in Locked, pc' = [pc EXCEPT ![c] = to],
           OnePerId(Sure(ram))', (is_open => OnePerId(Sure(disk)))',
           to \notin Between /\ is_open' => Sure(ram)' = Sure(disk)', Tie(c)'
    PROVE  StoreOK'
<1>1. pc'[c] = to
  BY DEF TypeOK
<1>2. ASSUME NEW x \in Conn, x # c  PROVE pc'[x] \notin Locked
  BY <1>2 DEF TypeOK, MutexOK
<1>3. ASSUME NEW x \in Conn  PROVE Tie(x)'
  <2>1. CASE x = c
    BY <2>1
  <2>2. CASE x # c
    <3>1. pc'[x] \notin {"write", "make", "remove", "fill", "texts", "compact"}
      BY <1>2, <2>2 DEF Locked
    <3> QED
      BY <3>1 DEF Tie
  <2> QED
    BY <2>1, <2>2
<1>4. (is_open /\ (\A x \in Conn : pc[x] \notin Between) => Sure(ram) = Sure(disk))'
  BY <1>1
<1> QED
  BY <1>3, <1>4 DEF StoreOK

\* A step on which no thread moves.
LEMMA UnmovedStep ==
    ASSUME StoreOK, UNCHANGED <<pc, cmd, found, result, ram, disk, written, is_open, apart>>
    PROVE  StoreOK'
<1>1. UNCHANGED <<Sure(ram), Sure(disk)>>
  BY DEF Sure
<1>2. ASSUME NEW x \in Conn  PROVE Tie(x)'
  <2>1. Tie(x)
    BY DEF StoreOK
  <2>2. Sure(ram \union {RowOf(cmd[x], written)})' = Sure(ram \union {RowOf(cmd[x], written)})
    BY DEF Sure, RowOf
  <2> QED
    BY <1>1, <2>1, <2>2 DEF Tie, InDocs
<1> QED
  BY <1>1, <1>2 DEF StoreOK, OnePerId

\* A thread inside the lock_guard's block sees RAM and disk agree unless it is
\* itself between two writes.
LEMMA NotBetween ==
    ASSUME IInv, NEW c \in Conn, pc[c] \in Locked \ Between, is_open
    PROVE  Sure(ram) = Sure(disk)
<1>1. ASSUME NEW x \in Conn, x # c  PROVE pc[x] \notin Between
  BY <1>1 DEF IInv, MutexOK, Locked, Between
<1> QED
  BY <1>1 DEF IInv, StoreOK

\* A compaction, and with it a compaction that fails, finds the files open.
LEMMA Open ==
    ASSUME IInv, NEW c \in Conn, pc[c] = "compact"
    PROVE  is_open
BY DEF IInv, StoreOK, Tie

\* A record whose id is not among several is the only one of its id.
LEMMA Settled ==
    ASSUME IInv, is_open, NEW d \in disk, NEW e \in disk, d.id = e.id,
           d.id \notin apart \intersect Doubled
    PROVE  d = e
<1>1. CASE d.id \notin apart
  BY <1>1 DEF IInv, StoreOK, Sure, OnePerId
<1>2. CASE d.id \notin Doubled
  <2>1. d.id \in Id
    BY DEF IInv, TypeOK, Row
  <2> QED
    BY <1>2, <2>1 DEF Doubled
<1> QED
  BY <1>1, <1>2

\* Fewer ids are sure after a command has failed half way, and RAM and disk
\* still agree on them, whatever was written of the others.
LEMMA Doubted ==
    ASSUME IInv, NEW c \in Conn, pc[c] \in Locked \ Between, is_open, NEW id,
           apart' = apart \union {id}, \A d : d.id # id => (d \in disk <=> d \in disk'),
           UNCHANGED <<ram, is_open>>
    PROVE  Sure(ram)' = Sure(disk)' /\ OnePerId(Sure(ram))' /\ OnePerId(Sure(disk))'
<1>1. Sure(ram) = Sure(disk) /\ OnePerId(Sure(ram))
  BY NotBetween DEF IInv, StoreOK
<1>2. \A d : d \in Sure(ram)' <=> d \in Sure(ram) /\ d.id # id
  BY DEF Sure
<1>3. \A d : d \in Sure(disk)' <=> d \in Sure(disk) /\ d.id # id
  BY DEF Sure
<1>4. Sure(ram)' = Sure(disk)'
  BY <1>1, <1>2, <1>3
<1>5. OnePerId(Sure(ram))'
  BY <1>1, <1>2 DEF OnePerId
<1> QED
  BY <1>4, <1>5 DEF OnePerId

\* RAM and disk differ only while one thread is between its two writes.
LEMMA StoreStep ==
    ASSUME IInv, [Next]_vars
    PROVE  StoreOK'
<1> USE ServerAssumption DEF IInv, TypeOK, MutexOK, CommandOK, network, thread, files, store, Goto, Decide, Locked, Unlocked, Waiting, OpAt
<1>1. CASE UNCHANGED vars
  BY <1>1, UnmovedStep DEF vars
<1>2. ASSUME NEW c \in Conn, NEW r \in Lines, SendLine(c, r)
      PROVE  StoreOK'
  BY <1>2, UnmovedStep DEF SendLine
<1>3. ASSUME NEW c \in Conn, Connect(c)
      PROVE  StoreOK'
  <2>1. pc[c] \notin Between /\ pc' = [pc EXCEPT ![c] = "recv"] /\ UNCHANGED <<ram, disk, written, is_open, apart>>
    BY <1>3 DEF Connect, Between
  <2>2. \A x \in Conn \ {c} : cmd'[x] = cmd[x] /\ found'[x] = found[x] /\ result'[x] = result[x]
    BY <1>3 DEF Connect
  <2>3. "recv" \notin Tied
    BY <1>3 DEF Tied, Connect
  <2> QED
    BY <2>1, <2>2, <2>3, UntiedStep
<1>4. ASSUME NEW c \in Conn, Quit(c)
      PROVE  StoreOK'
  BY <1>4, UnmovedStep DEF Quit
<1>5. ASSUME NEW c \in Conn, TakeLine(c)
      PROVE  StoreOK'
  <2>1. pc[c] \notin Between /\ pc' = [pc EXCEPT ![c] = "parse"] /\ UNCHANGED <<ram, disk, written, is_open, apart>>
    BY <1>5 DEF TakeLine, Between
  <2>2. \A x \in Conn \ {c} : cmd'[x] = cmd[x] /\ found'[x] = found[x] /\ result'[x] = result[x]
    BY <1>5 DEF TakeLine
  <2>3. "parse" \notin Tied
    BY <1>5 DEF Tied, TakeLine
  <2> QED
    BY <2>1, <2>2, <2>3, UntiedStep
<1>6. ASSUME NEW c \in Conn, Leave(c)
      PROVE  StoreOK'
  <2>1. pc[c] \notin Between /\ pc' = [pc EXCEPT ![c] = "ended"] /\ UNCHANGED <<ram, disk, written, is_open, apart>>
    BY <1>6 DEF Leave, Between
  <2>2. \A x \in Conn \ {c} : cmd'[x] = cmd[x] /\ found'[x] = found[x] /\ result'[x] = result[x]
    BY <1>6 DEF Leave
  <2>3. "ended" \notin Tied
    BY <1>6 DEF Tied, Leave
  <2> QED
    BY <2>1, <2>2, <2>3, UntiedStep
<1>7. ASSUME NEW c \in Conn, Parse(c)
      PROVE  StoreOK'
  <2>1. pc[c] \notin Between /\ pc' = [pc EXCEPT ![c] = "lock"] /\ UNCHANGED <<ram, disk, written, is_open, apart>>
    BY <1>7 DEF Parse, Between
  <2>2. \A x \in Conn \ {c} : cmd'[x] = cmd[x] /\ found'[x] = found[x] /\ result'[x] = result[x]
    BY <1>7 DEF Parse
  <2>3. "lock" \notin Tied
    BY <1>7 DEF Tied, Parse
  <2> QED
    BY <2>1, <2>2, <2>3, UntiedStep
<1>8. ASSUME NEW c \in Conn, ParseFails(c)
      PROVE  StoreOK'
  <2>1. pc[c] \notin Between /\ pc' = [pc EXCEPT ![c] = "reply"] /\ UNCHANGED <<ram, disk, written, is_open, apart>>
    BY <1>8 DEF ParseFails, Between
  <2>2. \A x \in Conn \ {c} : cmd'[x] = cmd[x] /\ found'[x] = found[x] /\ result'[x] = result[x]
    BY <1>8 DEF ParseFails
  <2>3. "reply" \notin Tied
    BY <1>8 DEF Tied, ParseFails
  <2> QED
    BY <2>1, <2>2, <2>3, UntiedStep
<1>9. ASSUME NEW c \in Conn, NoBranch(c)
      PROVE  StoreOK'
  <2>1. pc[c] \notin Between /\ pc' = [pc EXCEPT ![c] = "recv"] /\ UNCHANGED <<ram, disk, written, is_open, apart>>
    BY <1>9 DEF NoBranch, Between
  <2>2. \A x \in Conn \ {c} : cmd'[x] = cmd[x] /\ found'[x] = found[x] /\ result'[x] = result[x]
    BY <1>9 DEF NoBranch
  <2>3. "recv" \notin Tied
    BY <1>9 DEF Tied, NoBranch
  <2> QED
    BY <2>1, <2>2, <2>3, UntiedStep
<1>10. ASSUME NEW c \in Conn, Lock(c)
      PROVE  StoreOK'
  <2>1. pc[c] \notin Between /\ pc' = [pc EXCEPT ![c] = cmd[c].op] /\ UNCHANGED <<ram, disk, written, is_open, apart>>
    BY <1>10, LockTarget DEF Lock, Between
  <2>2. \A x \in Conn \ {c} : cmd'[x] = cmd[x] /\ found'[x] = found[x] /\ result'[x] = result[x]
    BY <1>10 DEF Lock
  <2>3. cmd[c].op \notin Tied
    BY <1>10, LockTarget DEF Tied, Lock
  <2> QED
    BY <2>1, <2>2, <2>3, UntiedStep
<1>11. ASSUME NEW c \in Conn, Unlock(c)
      PROVE  StoreOK'
  <2>1. pc[c] \notin Between /\ pc' = [pc EXCEPT ![c] = "reply"] /\ UNCHANGED <<ram, disk, written, is_open, apart>>
    BY <1>11 DEF Unlock, Between
  <2>2. \A x \in Conn \ {c} : cmd'[x] = cmd[x] /\ found'[x] = found[x] /\ result'[x] = result[x]
    BY <1>11 DEF Unlock
  <2>3. "reply" \notin Tied
    BY <1>11 DEF Tied, Unlock
  <2> QED
    BY <2>1, <2>2, <2>3, UntiedStep
<1>12. ASSUME NEW c \in Conn, SendPiece(c)
      PROVE  StoreOK'
  <2>1. MoreToSend(c) \/ LastSent(c)
    BY <1>12, SentPiece
  <2>2. CASE MoreToSend(c)
    BY <2>2, UnmovedStep DEF MoreToSend
  <2>3. CASE LastSent(c)
    <3>1. pc[c] \notin Between /\ "recv" \notin Tied
      BY <2>3 DEF LastSent, Between, Tied
    <3>2. \A x \in Conn \ {c} : cmd'[x] = cmd[x] /\ found'[x] = found[x] /\ result'[x] = result[x]
      BY <2>3 DEF LastSent
    <3> QED
      BY <2>3, <3>1, <3>2, UntiedStep DEF LastSent
  <2> QED
    BY <2>1, <2>2, <2>3
<1>13. ASSUME NEW c \in Conn, BrokenPipe(c)
      PROVE  StoreOK'
  BY <1>13, UnmovedStep DEF BrokenPipe
<1>14. ASSUME NEW c \in Conn, InsertRefused(c)
      PROVE  StoreOK'
  <2>1. pc[c] \notin Between /\ pc' = [pc EXCEPT ![c] = "unlock"] /\ UNCHANGED <<ram, disk, written, is_open, apart>>
    BY <1>14 DEF InsertRefused, Between
  <2>2. \A x \in Conn \ {c} : cmd'[x] = cmd[x] /\ found'[x] = found[x] /\ result'[x] = result[x]
    BY <1>14 DEF InsertRefused
  <2>3. "unlock" \notin Tied
    BY <1>14 DEF Tied, InsertRefused
  <2> QED
    BY <2>1, <2>2, <2>3, UntiedStep
<1>15. ASSUME NEW c \in Conn, InsertChecked(c)
      PROVE  StoreOK'
  <2>1. pc[c] = "INSERT" /\ pc' = [pc EXCEPT ![c] = "write"] /\ pc'[c] = "write"
    BY <1>15 DEF InsertChecked
  <2>2. is_open => Sure(ram) = Sure(disk)
    BY <2>1, NotBetween DEF Locked, Between
  <2>3. UNCHANGED <<ram, disk, apart, is_open, cmd>> /\ ~InDocs(cmd[c].id, ram) /\ cmd[c].val # Zero
    BY <1>15 DEF InsertChecked
  <2>4. UNCHANGED <<Sure(ram), Sure(disk)>>
    BY <2>3 DEF Sure
  <2>5. OnePerId(Sure(ram))' /\ (is_open => OnePerId(Sure(disk)))'
    BY <2>3, <2>4 DEF StoreOK, OnePerId
  <2>6. Tie(c)'
    BY <2>1, <2>3 DEF Tie, InDocs
  <2>7. is_open' => Sure(ram)' = Sure(disk)'
    BY <2>2, <2>3, <2>4
  <2> QED
    BY <2>1, <2>5, <2>6, <2>7, HeldStep DEF Locked
<1>16. ASSUME NEW c \in Conn, WriteEntry(c)
      PROVE  StoreOK'
  <2>10. PICK row : row = RowOf(cmd[c], written')
    OBVIOUS
  <2>1. pc[c] = "write" /\ pc' = [pc EXCEPT ![c] = "make"] /\ pc'[c] = "make"
    BY <1>16 DEF WriteEntry
  <2>2. UNCHANGED <<ram, apart, is_open, cmd>> /\ disk' = disk \union {row} /\ is_open
    BY <1>16, <2>10 DEF WriteEntry
  <2>3. Sure(ram) = Sure(disk) /\ OnePerId(Sure(ram))
    BY <2>1, <2>2, NotBetween DEF Locked, Between, StoreOK
  <2>4. ~InDocs(cmd[c].id, ram) /\ cmd[c].val # Zero /\ row.id = cmd[c].id
    BY <2>1, <2>10 DEF StoreOK, Tie, RowOf
  <2>5. UNCHANGED Sure(ram)
    BY <2>2 DEF Sure
  <2>6. Sure(disk)' = Sure(ram \union {row})'
    <3>1. \A d : d \in Sure(disk)' <=> d \in Sure(disk) \/ (d = row /\ row.id \notin apart)
      BY <2>2 DEF Sure
    <3>2. \A d : d \in {x \in ram \union {row} : x.id \notin apart} <=> d \in Sure(ram) \/ (d = row /\ row.id \notin apart)
      BY DEF Sure
    <3>3. Sure(ram \union {row})' = {x \in ram \union {row} : x.id \notin apart}
      BY <2>2 DEF Sure
    <3>4. Sure(disk)' = {x \in ram \union {row} : x.id \notin apart}
      BY <2>3, <3>1, <3>2
    <3> QED
      BY <3>3, <3>4
  <2>7. OnePerId(Sure(disk))'
    <3>1. \A d \in Sure(disk)' : d \in Sure(ram) \/ d = row
      BY <2>2, <2>3 DEF Sure
    <3>2. \A d \in Sure(ram) : d.id # row.id
      BY <2>4 DEF Sure, InDocs
    <3> QED
      BY <2>3, <3>1, <3>2 DEF OnePerId
  <2>8. Tie(c)'
    <3>1. ~InDocs(cmd'[c].id, ram') /\ cmd'[c].val # Zero /\ is_open'
      BY <2>2, <2>4 DEF InDocs
    <3>2. Sure(disk)' = Sure(ram \union {RowOf(cmd[c], written)})'
      <4>1. RowOf(cmd'[c], written') = row
        BY <2>2, <2>10
      <4>2. Sure(ram \union {RowOf(cmd[c], written)})' = {x \in ram \union {row} : x.id \notin apart}
        BY <2>2, <4>1 DEF Sure
      <4>3. Sure(ram \union {row})' = {x \in ram \union {row} : x.id \notin apart}
        BY <2>2 DEF Sure
      <4> QED
        BY <2>6, <4>2, <4>3
    <3> QED
      BY <2>1, <3>1, <3>2 DEF Tie, InDocs
  <2>9. OnePerId(Sure(ram))'
    BY <2>3, <2>5 DEF OnePerId
  <2> QED
    BY <2>1, <2>7, <2>8, <2>9, HeldStep DEF Locked, Between
<1>17. ASSUME NEW c \in Conn, WriteFails(c)
      PROVE  StoreOK'
  <2>1. pc[c] \notin Between /\ pc' = [pc EXCEPT ![c] = "unlock"] /\ UNCHANGED <<ram, disk, written, is_open, apart>>
    BY <1>17 DEF WriteFails, Between
  <2>2. \A x \in Conn \ {c} : cmd'[x] = cmd[x] /\ found'[x] = found[x] /\ result'[x] = result[x]
    BY <1>17 DEF WriteFails
  <2>3. "unlock" \notin Tied
    BY <1>17 DEF Tied, WriteFails
  <2> QED
    BY <2>1, <2>2, <2>3, UntiedStep
<1>31. ASSUME NEW c \in Conn, HeaderFails(c)
      PROVE  StoreOK'
  <2>1. pc[c] = "write" /\ pc' = [pc EXCEPT ![c] = "unlock"] /\ pc'[c] = "unlock"
    BY <1>31 DEF HeaderFails
  <2>2. pc[c] \in Locked \ Between
    BY <2>1 DEF Locked, Between
  <2>3. is_open /\ UNCHANGED <<ram, is_open>> /\ apart' = apart \union {cmd[c].id}
    BY <1>31 DEF HeaderFails
  <2>4. \A d : d.id # cmd[c].id => (d \in disk <=> d \in disk')
    BY <1>31 DEF HeaderFails, RowOf
  <2>5. Sure(ram)' = Sure(disk)' /\ OnePerId(Sure(ram))' /\ OnePerId(Sure(disk))'
    BY <2>2, <2>3, <2>4, Doubted
  <2>6. Tie(c)'
    BY <2>1 DEF Tie
  <2> QED
    BY <2>1, <2>2, <2>5, <2>6, HeldStep
<1>18. ASSUME NEW c \in Conn, MakeEntry(c)
      PROVE  StoreOK'
  <2>1. pc[c] = "make" /\ pc' = [pc EXCEPT ![c] = "unlock"] /\ pc'[c] = "unlock"
    BY <1>18 DEF MakeEntry
  <2>2. is_open /\ Sure(disk) = Sure(ram \union {RowOf(cmd[c], written)}) /\ OnePerId(Sure(disk))
    BY <2>1 DEF StoreOK, Tie
  <2>3. UNCHANGED <<disk, apart, is_open>> /\ ram' = ram \union {RowOf(cmd[c], written)}
    BY <1>18 DEF MakeEntry
  <2>4. Sure(ram)' = Sure(disk) /\ Sure(disk)' = Sure(disk)
    BY <2>2, <2>3 DEF Sure
  <2>5. OnePerId(Sure(ram))' /\ OnePerId(Sure(disk))'
    <3>1. \A d, e \in Sure(disk) : d.id = e.id => d = e
      BY <2>2 DEF OnePerId
    <3> HIDE DEF IInv
    <3>2. OnePerId(Sure(ram))'
      BY <2>4, <3>1 DEF OnePerId
    <3>3. OnePerId(Sure(disk))'
      BY <2>4, <3>1 DEF OnePerId
    <3> QED
      BY <3>2, <3>3
  <2>6. Tie(c)'
    BY <2>1 DEF Tie
  <2> QED
    BY <2>1, <2>4, <2>5, <2>6, HeldStep DEF Locked
<1>19. ASSUME NEW c \in Conn, QueryRefused(c)
      PROVE  StoreOK'
  <2>1. pc[c] \notin Between /\ pc' = [pc EXCEPT ![c] = "unlock"] /\ UNCHANGED <<ram, disk, written, is_open, apart>>
    BY <1>19 DEF QueryRefused, Between
  <2>2. \A x \in Conn \ {c} : cmd'[x] = cmd[x] /\ found'[x] = found[x] /\ result'[x] = result[x]
    BY <1>19 DEF QueryRefused
  <2>3. "unlock" \notin Tied
    BY <1>19 DEF Tied, QueryRefused
  <2> QED
    BY <2>1, <2>2, <2>3, UntiedStep
<1>20. ASSUME NEW c \in Conn, Search(c)
      PROVE  StoreOK'
  <2>1. pc[c] = "QUERY" /\ pc' = [pc EXCEPT ![c] = "texts"] /\ pc'[c] = "texts"
    BY <1>20 DEF Search
  <2>2. is_open => Sure(ram) = Sure(disk)
    BY <2>1, NotBetween DEF Locked, Between
  <2>3. UNCHANGED <<ram, disk, apart, is_open, cmd>> /\ cmd[c].val # Zero
    BY <1>20 DEF Search
  <2>4. UNCHANGED <<Sure(ram), Sure(disk)>>
    BY <2>3 DEF Sure
  <2>5. OnePerId(Sure(ram))' /\ (is_open => OnePerId(Sure(disk)))'
    BY <2>3, <2>4 DEF StoreOK, OnePerId
  <2>6. Tie(c)'
    <3>1. PICK S \in SUBSET ram : found' = [found EXCEPT ![c] = S] /\ (ram # {} => S # {})
      BY <1>20 DEF Search
    <3>2. found'[c] = S
      BY <3>1
    <3> QED
      BY <2>1, <2>3, <3>1, <3>2 DEF Tie
  <2>7. is_open' => Sure(ram)' = Sure(disk)'
    BY <2>2, <2>3, <2>4
  <2> QED
    BY <2>1, <2>5, <2>6, <2>7, HeldStep DEF Locked
<1>21. ASSUME NEW c \in Conn, ReadTexts(c)
      PROVE  StoreOK'
  <2>1. pc[c] \notin Between /\ pc' = [pc EXCEPT ![c] = "unlock"] /\ UNCHANGED <<ram, disk, written, is_open, apart>>
    BY <1>21 DEF ReadTexts, Between
  <2>2. \A x \in Conn \ {c} : cmd'[x] = cmd[x] /\ found'[x] = found[x] /\ result'[x] = result[x]
    BY <1>21 DEF ReadTexts
  <2>3. "unlock" \notin Tied
    BY <1>21 DEF Tied, ReadTexts
  <2> QED
    BY <2>1, <2>2, <2>3, UntiedStep
<1>22. ASSUME NEW c \in Conn, DeleteRefused(c)
      PROVE  StoreOK'
  <2>1. pc[c] \notin Between /\ pc' = [pc EXCEPT ![c] = "unlock"] /\ UNCHANGED <<ram, disk, written, is_open, apart>>
    BY <1>22 DEF DeleteRefused, Between
  <2>2. \A x \in Conn \ {c} : cmd'[x] = cmd[x] /\ found'[x] = found[x] /\ result'[x] = result[x]
    BY <1>22 DEF DeleteRefused
  <2>3. "unlock" \notin Tied
    BY <1>22 DEF Tied, DeleteRefused
  <2> QED
    BY <2>1, <2>2, <2>3, UntiedStep
<1>23. ASSUME NEW c \in Conn, DeleteEntry(c)
      PROVE  StoreOK'
  <2>1. pc[c] = "DELETE" /\ pc' = [pc EXCEPT ![c] = "remove"] /\ pc'[c] = "remove"
    BY <1>23 DEF DeleteEntry
  <2>2. UNCHANGED <<ram, apart, is_open, cmd>> /\ is_open
    BY <1>23 DEF DeleteEntry, Bury
  <2>3. PICK d \in disk : d.id = cmd[c].id /\ disk' = disk \ {d}
    BY <1>23 DEF DeleteEntry, Bury
  <2>4. Sure(ram) = Sure(disk) /\ OnePerId(Sure(ram))
    BY <2>1, <2>2, NotBetween DEF Locked, Between, StoreOK
  <2>5. \A e : e \in Sure(disk)' <=> e \in Sure(disk) /\ e.id # cmd[c].id
    BY <2>2, <2>3, <2>4 DEF Sure, OnePerId
  <2>6. UNCHANGED Sure(ram)
    BY <2>2 DEF Sure
  <2>7. Sure(disk)' = {e \in Sure(ram) : e.id # cmd[c].id}
    BY <2>4, <2>5
  <2>8. OnePerId(Sure(ram))' /\ OnePerId(Sure(disk))'
    BY <2>4, <2>6, <2>7 DEF OnePerId
  <2>9. cmd[c].id \notin apart => InDocs(cmd[c].id, ram)
    BY <2>3, <2>4 DEF Sure, InDocs
  <2>10. Tie(c)'
    <3>1. is_open' /\ Sure(disk)' = {e \in Sure(ram)' : e.id # cmd'[c].id}
      BY <2>2, <2>6, <2>7
    <3>2. cmd'[c].id \notin apart' => InDocs(cmd'[c].id, ram')
      BY <2>2, <2>9 DEF InDocs
    <3> QED
      BY <2>1, <3>1, <3>2 DEF Tie, InDocs
  <2> QED
    BY <2>1, <2>8, <2>10, HeldStep DEF Locked, Between
<1>32. ASSUME NEW c \in Conn, DeleteFails(c)
      PROVE  StoreOK'
  <2>1. pc[c] = "DELETE" /\ pc' = [pc EXCEPT ![c] = "unlock"] /\ pc'[c] = "unlock"
    BY <1>32 DEF DeleteFails
  <2>2. pc[c] \in Locked \ Between
    BY <2>1 DEF Locked, Between
  <2>3. is_open /\ UNCHANGED <<ram, is_open>> /\ apart' = apart \union {cmd[c].id}
    BY <1>32 DEF DeleteFails, Bury
  <2>4. \A d : d.id # cmd[c].id => (d \in disk <=> d \in disk')
    BY <1>32 DEF DeleteFails, Bury
  <2>5. Sure(ram)' = Sure(disk)' /\ OnePerId(Sure(ram))' /\ OnePerId(Sure(disk))'
    BY <2>2, <2>3, <2>4, Doubted
  <2>6. Tie(c)'
    BY <2>1 DEF Tie
  <2> QED
    BY <2>1, <2>2, <2>5, <2>6, HeldStep
<1>24. ASSUME NEW c \in Conn, RemoveEntry(c)
      PROVE  StoreOK'
  <2>1. pc[c] = "remove"
    BY <1>24 DEF RemoveEntry
  <2>2. /\ is_open /\ Sure(disk) = {d \in Sure(ram) : d.id # cmd[c].id}
        /\ cmd[c].id \notin apart => InDocs(cmd[c].id, ram)
        /\ OnePerId(Sure(ram)) /\ OnePerId(Sure(disk))
    BY <2>1 DEF StoreOK, Tie
  <2>3. UNCHANGED <<disk, apart, is_open>>
    BY <1>24 DEF RemoveEntry
  <2>4. \A e : e \in Sure(ram)' <=> e \in Sure(ram) /\ e.id # cmd[c].id
    <3>1. CASE \E d \in ram : d.id = cmd[c].id /\ ram' = ram \ {d}
      BY <2>2, <2>3, <3>1 DEF Sure, OnePerId
    <3>2. CASE ~InDocs(cmd[c].id, ram) /\ ram' = ram
      BY <2>3, <3>2 DEF Sure, InDocs
    <3> QED
      BY <1>24, <3>1, <3>2 DEF RemoveEntry
  <2>5. Sure(ram)' = Sure(disk) /\ Sure(disk)' = Sure(disk)
    <3>1. Sure(disk)' = Sure(disk)
      BY <2>3 DEF Sure
    <3>2. \A e : e \in Sure(disk) <=> e \in Sure(ram) /\ e.id # cmd[c].id
      BY <2>2
    <3>3. \A e : e \in Sure(ram)' <=> e \in Sure(disk)
      BY <2>4, <3>2
    <3> HIDE DEF IInv
    <3> QED
      BY <3>1, <3>3
  <2>6. OnePerId(Sure(ram))' /\ OnePerId(Sure(disk))'
    BY <2>2, <2>5 DEF OnePerId
  <2>7. PICK to \in {"compact", "unlock"} :
            pc' = [pc EXCEPT ![c] = to] /\ (to = "compact" => result' = [result EXCEPT ![c] = Plain("ok")])
    BY <1>24 DEF RemoveEntry
  <2>8. pc'[c] = to /\ (to = "compact" => result'[c] = Plain("ok"))
    BY <2>7
  <2>9. Tie(c)'
    BY <2>2, <2>3, <2>8 DEF Tie, Plain
  <2> QED
    BY <2>1, <2>5, <2>6, <2>7, <2>9, HeldStep DEF Locked
<1>25. ASSUME NEW c \in Conn, Compact(c)
      PROVE  StoreOK'
  <2>1. pc[c] \notin Between /\ pc' = [pc EXCEPT ![c] = "unlock"] /\ UNCHANGED <<ram, disk, written, is_open, apart>>
    BY <1>25 DEF Compact, Between
  <2>2. \A x \in Conn \ {c} : cmd'[x] = cmd[x] /\ found'[x] = found[x] /\ result'[x] = result[x]
    BY <1>25 DEF Compact
  <2>3. "unlock" \notin Tied
    BY <1>25 DEF Tied, Compact
  <2> QED
    BY <2>1, <2>2, <2>3, UntiedStep
<1>33. ASSUME NEW c \in Conn, CompactFails(c)
      PROVE  StoreOK'
  <2>1. pc[c] = "compact" /\ pc' = [pc EXCEPT ![c] = "unlock"] /\ pc'[c] = "unlock"
    BY <1>33 DEF CompactFails
  <2>2. UNCHANGED <<ram, disk, apart>>
    BY <1>33 DEF CompactFails
  <2>3. UNCHANGED <<Sure(ram), Sure(disk)>>
    BY <2>2 DEF Sure
  <2>4. is_open \/ ~is_open'
    BY <1>33, Open DEF CompactFails
  <2>5. is_open => Sure(ram) = Sure(disk)
    BY <2>1, NotBetween DEF Locked, Between
  <2>6. OnePerId(Sure(ram))' /\ (is_open => OnePerId(Sure(disk)))'
    BY <2>3, <2>4 DEF StoreOK, OnePerId
  <2>7. Tie(c)'
    BY <2>1 DEF Tie
  <2>8. is_open' => Sure(ram)' = Sure(disk)'
    BY <2>3, <2>4, <2>5
  <2> QED
    BY <2>1, <2>6, <2>7, <2>8, HeldStep DEF Locked
<1>26. ASSUME NEW c \in Conn, OptimizeIndex(c)
      PROVE  StoreOK'
  <2>1. pc[c] \notin Between /\ pc' = [pc EXCEPT ![c] = "unlock"] /\ UNCHANGED <<ram, disk, written, is_open, apart>>
    BY <1>26 DEF OptimizeIndex, Between
  <2>2. \A x \in Conn \ {c} : cmd'[x] = cmd[x] /\ found'[x] = found[x] /\ result'[x] = result[x]
    BY <1>26 DEF OptimizeIndex
  <2>3. "unlock" \notin Tied
    BY <1>26 DEF Tied, OptimizeIndex
  <2> QED
    BY <2>1, <2>2, <2>3, UntiedStep
<1>27. ASSUME NEW c \in Conn, FlushHeader(c)
      PROVE  StoreOK'
  <2>1. pc[c] \notin Between /\ pc' = [pc EXCEPT ![c] = "unlock"] /\ UNCHANGED <<ram, disk, written, is_open, apart>>
    BY <1>27 DEF FlushHeader, Between
  <2>2. \A x \in Conn \ {c} : cmd'[x] = cmd[x] /\ found'[x] = found[x] /\ result'[x] = result[x]
    BY <1>27 DEF FlushHeader
  <2>3. "unlock" \notin Tied
    BY <1>27 DEF Tied, FlushHeader
  <2> QED
    BY <2>1, <2>2, <2>3, UntiedStep
<1>28. ASSUME NEW c \in Conn, Clear(c)
      PROVE  StoreOK'
  <2>1. pc[c] = "LOAD" /\ pc' = [pc EXCEPT ![c] = "fill"] /\ pc'[c] = "fill"
    BY <1>28 DEF Clear
  <2>2. ram' = {} /\ UNCHANGED <<disk, apart, is_open>>
    BY <1>28 DEF Clear
  <2>3. Sure(ram)' = {} /\ Sure(disk)' = Sure(disk)
    BY <2>2 DEF Sure
  <2>4. OnePerId(Sure(ram))' /\ (is_open => OnePerId(Sure(disk)))'
    BY <2>2, <2>3 DEF StoreOK, OnePerId
  <2>5. Tie(c)'
    BY <2>1, <2>2 DEF Tie
  <2> QED
    BY <2>1, <2>4, <2>5, HeldStep DEF Locked, Between
<1>29. ASSUME NEW c \in Conn, LoadEntry(c)
      PROVE  StoreOK'
  <2>1. pc[c] = "fill" /\ pc' = [pc EXCEPT ![c] = "fill"] /\ pc'[c] = "fill"
    BY <1>29 DEF LoadEntry
  <2>2. is_open /\ ram \subseteq disk /\ OnePerId(Sure(disk))
    BY <1>29, <2>1 DEF LoadEntry, StoreOK, Tie
  <2>3. ram' \subseteq disk /\ UNCHANGED <<disk, apart, is_open>>
    BY <1>29, <2>2 DEF LoadEntry
  <2>4. Sure(ram)' \subseteq Sure(disk) /\ Sure(disk)' = Sure(disk)
    BY <2>3 DEF Sure
  <2>5. OnePerId(Sure(ram))' /\ OnePerId(Sure(disk))'
    BY <2>2, <2>4 DEF OnePerId
  <2>6. Tie(c)'
    BY <2>1, <2>2, <2>3 DEF Tie
  <2> QED
    BY <2>1, <2>5, <2>6, HeldStep DEF Locked, Between
<1>30. ASSUME NEW c \in Conn, LoadDone(c)
      PROVE  StoreOK'
  <2>1. pc[c] = "fill" /\ pc' = [pc EXCEPT ![c] = "unlock"] /\ pc'[c] = "unlock"
    BY <1>30 DEF LoadDone
  <2>2. UNCHANGED <<ram, disk, is_open>>
    BY <1>30 DEF LoadDone
  <2>3. Tie(c)'
    BY <2>1 DEF Tie
  <2>4. CASE is_open
    <3>1. ram = disk
      BY <1>30, <2>1, <2>4 DEF LoadDone, StoreOK, Tie
    <3>2. apart' = apart \intersect Doubled
      BY <1>30, <2>4 DEF LoadDone
    <3>3. OnePerId(Sure(disk))'
      <4> SUFFICES ASSUME NEW d \in Sure(disk)', NEW e \in Sure(disk)', d.id = e.id  PROVE d = e
        BY DEF OnePerId
      <4>1. d \in disk /\ e \in disk /\ d.id \notin apart \intersect Doubled
        BY <2>2, <3>2 DEF Sure
      <4> QED
        BY <2>4, <4>1, Settled
    <3>4. Sure(ram)' = Sure(disk)'
      BY <2>2, <3>1 DEF Sure
    <3>5. OnePerId(Sure(ram))'
      BY <3>3, <3>4 DEF OnePerId
    <3> QED
      BY <2>1, <2>3, <3>3, <3>4, <3>5, HeldStep DEF Locked
  <2>5. CASE ~is_open
    <3>1. apart' = apart
      BY <1>30, <2>5 DEF LoadDone
    <3>2. UNCHANGED Sure(ram)
      BY <2>2, <3>1 DEF Sure
    <3>3. OnePerId(Sure(ram))' /\ ~is_open'
      BY <2>2, <2>5, <3>2 DEF StoreOK, OnePerId
    <3> QED
      BY <2>1, <2>3, <3>3, HeldStep DEF Locked
  <2> QED
    BY <2>4, <2>5
<1> QED
  BY <1>1, <1>2, <1>3, <1>4, <1>5, <1>6, <1>7, <1>8, <1>9, <1>10, <1>11, <1>12, <1>13, <1>14, <1>15, <1>16, <1>17, <1>18, <1>19, <1>20, <1>21, <1>22, <1>23, <1>24, <1>25, <1>26, <1>27, <1>28, <1>29, <1>30, <1>31, <1>32, <1>33
     DEF Next, Work, Quiet

-----------------------------------------------------------------------------
(* The theorems.                                                           *)

\* The server starts with an empty store and no connection.
LEMMA InitIInv == Init => IInv
<1> SUFFICES ASSUME Init  PROVE IInv
  OBVIOUS
<1> USE ServerAssumption DEF Init
<1>1. TypeOK
  BY DEF TypeOK, Unlocked, Locked, Waiting, NoResult, Plain
<1>2. Counted
  BY FS_EmptySet DEF Counted, NoResult, Plain
<1>3. MutexOK /\ CommandOK
  BY DEF MutexOK, CommandOK, Locked, Waiting
<1>4. ResultOK /\ StoreOK
  BY DEF ResultOK, Decided, StoreOK, OnePerId, Sure, Tie, Between
<1> QED
  BY <1>1, <1>2, <1>3, <1>4 DEF IInv

\* The invariant holds of every state.
LEMMA Invariance == Spec => []IInv
<1>1. IInv /\ [Next]_vars => IInv'
  BY TypeStep, CountedStep, MutexStep, CommandStep, ResultStep, StoreStep DEF IInv
<1> QED
  BY InitIInv, <1>1, PTL DEF Spec

\* Every variable keeps its type, for any number of connections: in particular
\* no reply sends more pieces than it has.
THEOREM TypeCorrect == Spec => []TypeOK
BY Invariance, PTL DEF IInv

\* Whenever store_mutex_ is free and the files are open, RAM and disk hold the
\* same documents and no id twice, however the threads of any number of
\* connections interleave and whichever writes and compactions fail: but for
\* the ids whose INSERT or DELETE failed with half of its work done, until a
\* LOAD finds at most one record of them.
THEOREM StoreConsistent == Spec => []FreeStoreIsConsistent
<1>1. IInv => FreeStoreIsConsistent
  <2> SUFFICES ASSUME IInv, mutex = None, is_open  PROVE Sure(ram) = Sure(disk) /\ OnePerId(Sure(ram))
    BY DEF FreeStoreIsConsistent
  <2>1. \A c \in Conn : pc[c] \notin Locked
    BY ServerAssumption DEF IInv, MutexOK
  <2> QED
    BY <2>1 DEF IInv, StoreOK, Locked, Between
<1> QED
  BY Invariance, <1>1, PTL

-----------------------------------------------------------------------------
(* Server implements Database.                                             *)

\* The clients see no difference when a thread moves on, or takes or gives back
\* the mutex, and writes nothing.
LEMMA DocsSame ==
    ASSUME IInv, NEW c \in Conn, NEW to, to # "fill", pc[c] # "fill",
           pc' = [pc EXCEPT ![c] = to], UNCHANGED <<ram, disk, is_open, apart>>,
           \/ mutex' = mutex
           \/ mutex = None /\ mutex' = c
           \/ mutex = c /\ mutex' = None
    PROVE  Docs' = Docs
BY ServerAssumption DEF IInv, TypeOK, Docs, Sure

\* What the clients see is RAM, unless LOAD is filling it.
LEMMA DocsAt ==
    ASSUME IInv, NEW c \in Conn, pc[c] \in Locked
    PROVE  Docs = Sure(IF pc[c] = "fill" /\ is_open THEN disk ELSE ram)
BY ServerAssumption DEF IInv, MutexOK, Docs

\* And after its next step.
LEMMA DocsNext ==
    ASSUME IInv, NEW c \in Conn, pc[c] \in Locked, mutex' = mutex
    PROVE  Docs' = Sure(IF pc[c] = "fill" /\ is_open THEN disk ELSE ram)'
BY ServerAssumption DEF IInv, TypeOK, MutexOK, Docs, Sure

\* What Database has of an id that is sure.
LEMMA HasSure ==
    ASSUME NEW id
    PROVE  DB!Has(id) <=> \E d \in Docs : d.id = id
<1> DEFINE S == {[id |-> d.id, val |-> d.val] : d \in Docs}
<1>1. ASSUME NEW d \in Docs, d.id = id  PROVE \E e \in S : e.id = id
  <2>1. [id |-> d.id, val |-> d.val] \in S
    OBVIOUS
  <2> QED
    BY <1>1, <2>1
<1>2. ASSUME NEW e \in S, e.id = id  PROVE \E d \in Docs : d.id = id
  BY <1>2
<1> QED
  BY <1>1, <1>2 DEF DB!Has

\* A thread in a branch has a command, and no result until it decides one.
LEMMA OnBranch ==
    ASSUME IInv, NEW c \in Conn, pc[c] \notin Waiting, pc[c] \notin Decided
    PROVE  cmd[c] \in Lines /\ cmd[c] # NoRequest /\ result[c] = NoResult
BY ServerAssumption DEF IInv, CommandOK, ResultOK

\* Every step of the server is a step of Database or none that clients see.
LEMMA StepRefines ==
    ASSUME IInv, [Next]_vars
    PROVE  [DB!Next]_(DB!db_vars)
<1> USE ServerAssumption DEF network, thread, files, store, Goto, Decide
<1>1. CASE UNCHANGED vars
  BY <1>1 DEF vars, Docs, Sure, DB!db_vars, DB!db
<1>2. ASSUME NEW c \in Conn, NEW r \in Lines, SendLine(c, r)
      PROVE  DB!Next
  <2>1. DB!Call(c, r)
    BY <1>2 DEF SendLine, DB!Call, DB!db, Docs, Sure
  <2> QED
    BY <2>1 DEF DB!Next
<1>3. ASSUME NEW c \in Conn, Connect(c)
      PROVE  [DB!Next]_(DB!db_vars)
  <2>1. Docs' = Docs
    <3>1. pc[c] # "fill" /\ "recv" # "fill" /\ pc' = [pc EXCEPT ![c] = "recv"] /\ UNCHANGED <<ram, disk, is_open, apart>>
      BY <1>3 DEF Connect
    <3>2. mutex' = mutex \/ (mutex = None /\ mutex' = c) \/ (mutex = c /\ mutex' = None)
      BY <1>3 DEF Connect
    <3> QED
      BY <3>1, <3>2, DocsSame
  <2>2. [x \in Conn |-> conn[x] = "open"]' = [[x \in Conn |-> conn[x] = "open"] EXCEPT ![c] = TRUE]
    BY <1>3 DEF Connect, IInv, TypeOK
  <2>3. DB!Connect(c)
    BY <1>3, <2>1, <2>2 DEF Connect, DB!Connect, DB!db
  <2> QED
    BY <2>3 DEF DB!Next
<1>4. ASSUME NEW c \in Conn, Quit(c)
      PROVE  [DB!Next]_(DB!db_vars)
  <2>1. Docs' = Docs
    BY <1>4 DEF Quit, Docs, Sure
  <2>2. [x \in Conn |-> conn[x] = "open"]' = [[x \in Conn |-> conn[x] = "open"] EXCEPT ![c] = FALSE]
    BY <1>4 DEF Quit, IInv, TypeOK
  <2>3. DB!Quit(c)
    BY <1>4, <2>1, <2>2 DEF Quit, DB!Quit, DB!db
  <2> QED
    BY <2>3 DEF DB!Next
<1>5. ASSUME NEW c \in Conn, TakeLine(c)
      PROVE  [DB!Next]_(DB!db_vars)
  <2>1. Docs' = Docs
    <3>1. pc[c] # "fill" /\ "parse" # "fill" /\ pc' = [pc EXCEPT ![c] = "parse"] /\ UNCHANGED <<ram, disk, is_open, apart>>
      BY <1>5 DEF TakeLine
    <3>2. mutex' = mutex \/ (mutex = None /\ mutex' = c) \/ (mutex = c /\ mutex' = None)
      BY <1>5 DEF TakeLine
    <3> QED
      BY <3>1, <3>2, DocsSame
  <2>2. DB!Take(c)
    BY <1>5, <2>1, TRUE DEF TakeLine, DB!Take, DB!db, IInv, CommandOK, Waiting
  <2> QED
    BY <2>2 DEF DB!Next
<1>6. ASSUME NEW c \in Conn, Leave(c)
      PROVE  [DB!Next]_(DB!db_vars)
  <2>1. Docs' = Docs
    <3>1. pc[c] # "fill" /\ "ended" # "fill" /\ pc' = [pc EXCEPT ![c] = "ended"] /\ UNCHANGED <<ram, disk, is_open, apart>>
      BY <1>6 DEF Leave
    <3>2. mutex' = mutex \/ (mutex = None /\ mutex' = c) \/ (mutex = c /\ mutex' = None)
      BY <1>6 DEF Leave
    <3> QED
      BY <3>1, <3>2, DocsSame
  <2>2. DB!Hangup(c)
    BY <1>6, <2>1 DEF Leave, DB!Hangup, DB!db
  <2> QED
    BY <2>2 DEF DB!Next
<1>7. ASSUME NEW c \in Conn, Parse(c)
      PROVE  [DB!Next]_(DB!db_vars)
  <2>1. Docs' = Docs
    <3>1. pc[c] # "fill" /\ "lock" # "fill" /\ pc' = [pc EXCEPT ![c] = "lock"] /\ UNCHANGED <<ram, disk, is_open, apart>>
      BY <1>7 DEF Parse
    <3>2. mutex' = mutex \/ (mutex = None /\ mutex' = c) \/ (mutex = c /\ mutex' = None)
      BY <1>7 DEF Parse
    <3> QED
      BY <3>1, <3>2, DocsSame
  <2> QED
    BY <1>7, <2>1 DEF Parse, DB!db_vars, DB!db
<1>8. ASSUME NEW c \in Conn, ParseFails(c)
      PROVE  [DB!Next]_(DB!db_vars)
  <2>1. Docs' = Docs
    <3>1. pc[c] # "fill" /\ "reply" # "fill" /\ pc' = [pc EXCEPT ![c] = "reply"] /\ UNCHANGED <<ram, disk, is_open, apart>>
      BY <1>8 DEF ParseFails
    <3>2. mutex' = mutex \/ (mutex = None /\ mutex' = c) \/ (mutex = c /\ mutex' = None)
      BY <1>8 DEF ParseFails
    <3> QED
      BY <3>1, <3>2, DocsSame
  <2>2. cmd[c] \in Lines /\ cmd[c] # NoRequest /\ result[c] = NoResult
    BY <1>8, OnBranch DEF ParseFails, Waiting, Decided
  <2>3. DB!Refused(c)
    BY <1>8, <2>1 DEF ParseFails, DB!Refused, Plain, DB!Plain, DB!Replies, DB!db
  <2>4. DB!Effect(c)
    BY <1>8, <2>2, <2>3 DEF ParseFails, DB!Effect, NoResult, Plain, DB!NoResult, DB!Plain
  <2> QED
    BY <2>4 DEF DB!Next
<1>9. ASSUME NEW c \in Conn, NoBranch(c)
      PROVE  [DB!Next]_(DB!db_vars)
  <2>1. Docs' = Docs
    <3>1. pc[c] # "fill" /\ "recv" # "fill" /\ pc' = [pc EXCEPT ![c] = "recv"] /\ UNCHANGED <<ram, disk, is_open, apart>>
      BY <1>9 DEF NoBranch
    <3>2. mutex' = mutex \/ (mutex = None /\ mutex' = c) \/ (mutex = c /\ mutex' = None)
      BY <1>9 DEF NoBranch
    <3> QED
      BY <3>1, <3>2, DocsSame
  <2>2. DB!Ignore(c)
    BY <1>9, <2>1, OnBranch DEF NoBranch, DB!Ignore, DB!db, Waiting, Decided
  <2> QED
    BY <2>2 DEF DB!Next
<1>10. ASSUME NEW c \in Conn, Lock(c)
      PROVE  [DB!Next]_(DB!db_vars)
  <2>1. Docs' = Docs
    <3>1. pc[c] # "fill" /\ cmd[c].op # "fill" /\ pc' = [pc EXCEPT ![c] = cmd[c].op] /\ UNCHANGED <<ram, disk, is_open, apart>>
      BY <1>10, LockTarget DEF Lock
    <3>2. mutex' = mutex \/ (mutex = None /\ mutex' = c) \/ (mutex = c /\ mutex' = None)
      BY <1>10 DEF Lock
    <3> QED
      BY <3>1, <3>2, DocsSame
  <2> QED
    BY <1>10, <2>1 DEF Lock, DB!db_vars, DB!db
<1>11. ASSUME NEW c \in Conn, Unlock(c)
      PROVE  [DB!Next]_(DB!db_vars)
  <2>1. Docs' = Docs
    <3>1. pc[c] # "fill" /\ "reply" # "fill" /\ pc' = [pc EXCEPT ![c] = "reply"] /\ UNCHANGED <<ram, disk, is_open, apart>>
      BY <1>11 DEF Unlock
    <3>2. mutex' = mutex \/ (mutex = None /\ mutex' = c) \/ (mutex = c /\ mutex' = None)
      BY <1>11 DEF Unlock, IInv, MutexOK, Locked
    <3> QED
      BY <3>1, <3>2, DocsSame
  <2> QED
    BY <1>11, <2>1 DEF Unlock, DB!db_vars, DB!db
<1>12. ASSUME NEW c \in Conn, SendPiece(c)
      PROVE  [DB!Next]_(DB!db_vars)
  <2>1. Docs' = Docs
    BY <1>12 DEF SendPiece, IInv, TypeOK, Docs, Sure
  <2>2. [x \in Conn |-> conn[x] = "open"]' = [x \in Conn |-> conn[x] = "open"]
    BY <1>12, SMTT(30) DEF SendPiece, IInv, TypeOK
  <2>3. CASE left[c] > 1
    BY <1>12, <2>1, <2>2, <2>3 DEF SendPiece, DB!db_vars, DB!db
  <2>4. CASE ~(left[c] > 1)
    <3>1. DB!Return(c)
      <4>1. pc[c] = "reply"
        BY <1>12, <2>4 DEF SendPiece
      <4>2. result[c] # NoResult
        BY <4>1 DEF IInv, ResultOK, Decided
      <4> QED
        BY <1>12, <2>1, <2>2, <2>4, <4>2 DEF SendPiece, DB!Return, DB!db, NoResult, Plain, DB!NoResult, DB!Plain
    <3> QED
      BY <3>1 DEF DB!Next
  <2> QED
    BY <2>3, <2>4
<1>13. ASSUME NEW c \in Conn, BrokenPipe(c)
      PROVE  [DB!Next]_(DB!db_vars)
  <2>1. Docs' = Docs
    BY <1>13 DEF BrokenPipe, Docs, Sure
  <2> QED
    BY <1>13, <2>1 DEF BrokenPipe, DB!db_vars, DB!db
<1>14. ASSUME NEW c \in Conn, InsertRefused(c)
      PROVE  [DB!Next]_(DB!db_vars)
  <2>1. Docs' = Docs
    <3>1. pc[c] # "fill" /\ "unlock" # "fill" /\ pc' = [pc EXCEPT ![c] = "unlock"] /\ UNCHANGED <<ram, disk, is_open, apart>>
      BY <1>14 DEF InsertRefused
    <3>2. mutex' = mutex \/ (mutex = None /\ mutex' = c) \/ (mutex = c /\ mutex' = None)
      BY <1>14 DEF InsertRefused
    <3> QED
      BY <3>1, <3>2, DocsSame
  <2>2. cmd[c] \in Lines /\ cmd[c] # NoRequest /\ result[c] = NoResult
    BY <1>14, OnBranch DEF InsertRefused, Waiting, Decided
  <2>3. DB!Inserted(c)
    <3>1. cmd[c].op = "INSERT"
      BY <1>14, <2>2 DEF InsertRefused, IInv, CommandOK, Locked, OpAt
    <3>2. Docs = Sure(ram)
      BY <1>14, DocsAt DEF InsertRefused, Locked
    <3>3. UNCHANGED <<apart, moved, is_open>>
      BY <1>14 DEF InsertRefused
    <3>4. CASE InDocs(cmd[c].id, ram) /\ result' = [result EXCEPT ![c] = Plain("duplicate")]
      <4>1. DB!Has(cmd[c].id) \/ cmd[c].id \in apart
        BY <3>2, <3>4, HasSure DEF InDocs, Sure
      <4> QED
        BY <2>1, <3>1, <3>3, <3>4, <4>1 DEF DB!Inserted, Plain, DB!Plain, DB!Replies, DB!db
    <3>5. CASE ~InDocs(cmd[c].id, ram) /\ result' = [result EXCEPT ![c] = Plain("error")]
      <4>1. ~DB!Has(cmd[c].id)
        BY <3>2, <3>5, HasSure DEF InDocs, Sure
      <4> QED
        BY <2>1, <3>1, <3>3, <3>5, <4>1 DEF DB!Inserted, Plain, DB!Plain, DB!Replies, DB!db
    <3> QED
      BY <1>14, <3>4, <3>5 DEF InsertRefused
  <2>4. DB!Effect(c)
    BY <1>14, <2>2, <2>3 DEF InsertRefused, DB!Effect, NoResult, Plain, DB!NoResult, DB!Plain
  <2> QED
    BY <2>4 DEF DB!Next
<1>15. ASSUME NEW c \in Conn, InsertChecked(c)
      PROVE  [DB!Next]_(DB!db_vars)
  <2>1. Docs' = Docs
    <3>1. pc[c] # "fill" /\ "write" # "fill" /\ pc' = [pc EXCEPT ![c] = "write"] /\ UNCHANGED <<ram, disk, is_open, apart>>
      BY <1>15 DEF InsertChecked
    <3>2. mutex' = mutex \/ (mutex = None /\ mutex' = c) \/ (mutex = c /\ mutex' = None)
      BY <1>15 DEF InsertChecked
    <3> QED
      BY <3>1, <3>2, DocsSame
  <2> QED
    BY <1>15, <2>1 DEF InsertChecked, DB!db_vars, DB!db
<1>16. ASSUME NEW c \in Conn, WriteEntry(c)
      PROVE  [DB!Next]_(DB!db_vars)
  <2>1. Docs = Sure(ram) /\ Docs' = Sure(ram)'
    <3>1. pc[c] = "write" /\ pc' = [pc EXCEPT ![c] = "make"] /\ mutex' = mutex /\ pc'[c] = "make"
      BY <1>16 DEF WriteEntry, IInv, TypeOK
    <3>2. pc[c] \in Locked
      BY <3>1 DEF Locked
    <3> QED
      BY <3>1, <3>2, DocsAt, DocsNext DEF Sure
  <2>2. Docs' = Docs
    BY <1>16, <2>1 DEF WriteEntry, Sure
  <2> QED
    BY <1>16, <2>2 DEF WriteEntry, DB!db_vars, DB!db
<1>17. ASSUME NEW c \in Conn, WriteFails(c)
      PROVE  [DB!Next]_(DB!db_vars)
  <2>1. Docs' = Docs
    <3>1. pc[c] # "fill" /\ "unlock" # "fill" /\ pc' = [pc EXCEPT ![c] = "unlock"] /\ UNCHANGED <<ram, disk, is_open, apart>>
      BY <1>17 DEF WriteFails
    <3>2. mutex' = mutex \/ (mutex = None /\ mutex' = c) \/ (mutex = c /\ mutex' = None)
      BY <1>17 DEF WriteFails
    <3> QED
      BY <3>1, <3>2, DocsSame
  <2>2. cmd[c] \in Lines /\ cmd[c] # NoRequest /\ result[c] = NoResult
    BY <1>17, OnBranch DEF WriteFails, Waiting, Decided
  <2>3. DB!Inserted(c)
    <3>1. cmd[c].op = "INSERT"
      BY <1>17, <2>2 DEF WriteFails, IInv, CommandOK, Locked, OpAt
    <3>2. Docs = Sure(ram)
      BY <1>17, DocsAt DEF WriteFails, Locked
    <3>3. ~InDocs(cmd[c].id, ram)
      BY <1>17 DEF WriteFails, IInv, StoreOK, Tie
    <3>4. ~DB!Has(cmd[c].id)
      BY <3>2, <3>3, HasSure DEF InDocs, Sure
    <3> QED
      BY <1>17, <2>1, <3>1, <3>4 DEF WriteFails, DB!Inserted, Plain, DB!Plain, DB!Replies, DB!db
  <2>4. DB!Effect(c)
    BY <1>17, <2>2, <2>3 DEF WriteFails, DB!Effect, NoResult, Plain, DB!NoResult, DB!Plain
  <2> QED
    BY <2>4 DEF DB!Next
<1>31. ASSUME NEW c \in Conn, HeaderFails(c)
      PROVE  [DB!Next]_(DB!db_vars)
  <2>1. Docs = Sure(ram) /\ Docs' = Sure(ram)'
    <3>1. pc[c] = "write" /\ pc' = [pc EXCEPT ![c] = "unlock"] /\ mutex' = mutex /\ pc'[c] = "unlock"
      BY <1>31 DEF HeaderFails, IInv, TypeOK
    <3>2. pc[c] \in Locked
      BY <3>1 DEF Locked
    <3> QED
      BY <3>1, <3>2, DocsAt, DocsNext DEF Sure
  <2>2. cmd[c] \in Lines /\ cmd[c] # NoRequest /\ result[c] = NoResult
    BY <1>31, OnBranch DEF HeaderFails, Waiting, Decided
  <2>3. DB!FailsHalfway(c)
    <3>1. UNCHANGED <<ram, moved, is_open>> /\ apart' = apart \union {cmd[c].id}
      BY <1>31 DEF HeaderFails, Bury
    <3>2. \A d : d \in Docs' <=> d \in Docs /\ d.id # cmd[c].id
      BY <2>1, <3>1 DEF Sure
    <3>3. {[id |-> d.id, val |-> d.val] : d \in Docs'}
          = {e \in {[id |-> d.id, val |-> d.val] : d \in Docs} : e.id # cmd[c].id}
      BY <3>2
    <3> QED
      BY <1>31, <3>1, <3>3 DEF HeaderFails, DB!FailsHalfway, DB!Without, DB!Replies, Plain, DB!Plain
  <2>4. DB!Inserted(c)
    <3>1. cmd[c].op = "INSERT"
      BY <1>31, <2>2 DEF HeaderFails, IInv, CommandOK, Locked, OpAt
    <3>2. ~InDocs(cmd[c].id, ram)
      BY <1>31 DEF HeaderFails, IInv, StoreOK, Tie
    <3>3. ~DB!Has(cmd[c].id)
      BY <2>1, <3>2, HasSure DEF InDocs, Sure
    <3> QED
      BY <2>3, <3>1, <3>3 DEF DB!Inserted
  <2>5. DB!Effect(c)
    BY <1>31, <2>2, <2>4 DEF HeaderFails, DB!Effect, NoResult, Plain, DB!NoResult, DB!Plain
  <2> QED
    BY <2>5 DEF DB!Next
<1>18. ASSUME NEW c \in Conn, MakeEntry(c)
      PROVE  [DB!Next]_(DB!db_vars)
  <2>1. Docs = Sure(ram) /\ Docs' = Sure(ram)'
    <3>1. pc[c] = "make" /\ pc' = [pc EXCEPT ![c] = "unlock"] /\ mutex' = mutex /\ pc'[c] = "unlock"
      BY <1>18 DEF MakeEntry, IInv, TypeOK
    <3>2. pc[c] \in Locked
      BY <3>1 DEF Locked
    <3> QED
      BY <3>1, <3>2, DocsAt, DocsNext DEF Sure
  <2>2. cmd[c] \in Lines /\ cmd[c] # NoRequest /\ result[c] = NoResult
    BY <1>18, OnBranch DEF MakeEntry, Waiting, Decided
  <2>3. DB!Inserted(c)
    <3>1. cmd[c].op = "INSERT"
      BY <1>18, <2>2 DEF MakeEntry, IInv, CommandOK, Locked, OpAt
    <3>2. ~InDocs(cmd[c].id, ram) /\ cmd[c].val # Zero
      BY <1>18 DEF MakeEntry, IInv, StoreOK, Tie
    <3>3. ~DB!Has(cmd[c].id)
      BY <2>1, <3>2, HasSure DEF InDocs, Sure
    <3> DEFINE row == RowOf(cmd[c], written)
               S(docs) == {[id |-> d.id, val |-> d.val] : d \in docs}
    <3>4. row.id = cmd[c].id /\ row.val = cmd[c].val
      BY DEF RowOf
    <3>5. ram' = ram \union {row} /\ UNCHANGED apart
      BY <1>18 DEF MakeEntry
    <3> HIDE DEF row
    <3>6. S(Docs') = IF cmd[c].id \in apart THEN S(Docs) ELSE S(Docs) \union {[id |-> cmd[c].id, val |-> cmd[c].val]}
      <4>1. CASE cmd[c].id \in apart
        <5>1. Docs' = Docs
          BY <2>1, <3>4, <3>5, <4>1 DEF Sure
        <5> QED
          BY <4>1, <5>1
      <4>2. CASE cmd[c].id \notin apart
        <5>1. Docs' = Docs \union {row}
          BY <2>1, <3>4, <3>5, <4>2 DEF Sure
        <5> QED
          BY <3>4, <4>2, <5>1
      <4> QED
        BY <4>1, <4>2
    <3>7. \E kind \in {"ok", "advice"} : DB!Replies(c, DB!Plain(kind))
      BY <1>18 DEF MakeEntry, Plain, DB!Plain, DB!Replies
    <3>8. moved' = moved \ {cmd[c].id} /\ UNCHANGED <<apart, is_open>>
      BY <1>18 DEF MakeEntry
    <3> QED
      BY <3>1, <3>2, <3>3, <3>6, <3>7, <3>8 DEF DB!Inserted
  <2>4. DB!Effect(c)
    BY <1>18, <2>2, <2>3 DEF MakeEntry, DB!Effect, NoResult, Plain, DB!NoResult, DB!Plain
  <2> QED
    BY <2>4 DEF DB!Next
<1>19. ASSUME NEW c \in Conn, QueryRefused(c)
      PROVE  [DB!Next]_(DB!db_vars)
  <2>1. Docs' = Docs
    <3>1. pc[c] # "fill" /\ "unlock" # "fill" /\ pc' = [pc EXCEPT ![c] = "unlock"] /\ UNCHANGED <<ram, disk, is_open, apart>>
      BY <1>19 DEF QueryRefused
    <3>2. mutex' = mutex \/ (mutex = None /\ mutex' = c) \/ (mutex = c /\ mutex' = None)
      BY <1>19 DEF QueryRefused
    <3> QED
      BY <3>1, <3>2, DocsSame
  <2>2. cmd[c] \in Lines /\ cmd[c] # NoRequest /\ result[c] = NoResult
    BY <1>19, OnBranch DEF QueryRefused, Waiting, Decided
  <2>3. DB!Queried(c)
    <3>1. cmd[c].op = "QUERY"
      BY <1>19, <2>2 DEF QueryRefused, IInv, CommandOK, Locked, OpAt
    <3> QED
      BY <1>19, <2>1, <3>1 DEF QueryRefused, DB!Queried, Plain, DB!Plain, DB!Replies, DB!db
  <2>4. DB!Effect(c)
    BY <1>19, <2>2, <2>3 DEF QueryRefused, DB!Effect, NoResult, Plain, DB!NoResult, DB!Plain
  <2> QED
    BY <2>4 DEF DB!Next
<1>20. ASSUME NEW c \in Conn, Search(c)
      PROVE  [DB!Next]_(DB!db_vars)
  <2>1. Docs' = Docs
    <3>1. pc[c] # "fill" /\ "texts" # "fill" /\ pc' = [pc EXCEPT ![c] = "texts"] /\ UNCHANGED <<ram, disk, is_open, apart>>
      BY <1>20 DEF Search
    <3>2. mutex' = mutex \/ (mutex = None /\ mutex' = c) \/ (mutex = c /\ mutex' = None)
      BY <1>20 DEF Search
    <3> QED
      BY <3>1, <3>2, DocsSame
  <2> QED
    BY <1>20, <2>1 DEF Search, DB!db_vars, DB!db
<1>21. ASSUME NEW c \in Conn, ReadTexts(c)
      PROVE  [DB!Next]_(DB!db_vars)
  <2>1. Docs' = Docs
    <3>1. pc[c] # "fill" /\ "unlock" # "fill" /\ pc' = [pc EXCEPT ![c] = "unlock"] /\ UNCHANGED <<ram, disk, is_open, apart>>
      BY <1>21 DEF ReadTexts
    <3>2. mutex' = mutex \/ (mutex = None /\ mutex' = c) \/ (mutex = c /\ mutex' = None)
      BY <1>21 DEF ReadTexts
    <3> QED
      BY <3>1, <3>2, DocsSame
  <2>2. cmd[c] \in Lines /\ cmd[c] # NoRequest /\ result[c] = NoResult
    BY <1>21, OnBranch DEF ReadTexts, Waiting, Decided
  <2>3. DB!Queried(c)
    <3>1. cmd[c].op = "QUERY"
      BY <1>21, <2>2 DEF ReadTexts, IInv, CommandOK, Locked, OpAt
    <3>2. pc[c] = "texts" /\ UNCHANGED <<apart, moved, is_open>>
      BY <1>21 DEF ReadTexts
    <3>3. Docs = Sure(ram) /\ OnePerId(Sure(ram)) /\ (is_open => Sure(ram) = Sure(disk))
      BY <3>2, DocsAt, NotBetween DEF Locked, Between, IInv, StoreOK
    <3>4. found[c] \subseteq ram /\ (ram # {} => found[c] # {}) /\ cmd[c].val # Zero
      BY <3>2 DEF IInv, StoreOK, Tie
    <3>5. PICK text \in [found[c] -> Val \union {NoText}] :
              /\ \A row \in found[c] : text[row] \in TextsOf(row)
              /\ result' = [result EXCEPT ![c] =
                  [kind |-> "ok", hits |-> {[id |-> row.id, val |-> text[row]] : row \in found[c]}]]
      BY <1>21 DEF ReadTexts
    <3> DEFINE hits == {[id |-> row.id, val |-> text[row]] : row \in found[c]}
               S == {[id |-> d.id, val |-> d.val] : d \in Docs}
    <3>6. hits \in SUBSET [id : Id, val : Val \union {NoText}]
      BY <3>4, <3>5 DEF IInv, TypeOK, Row
    <3>7. ASSUME NEW h \in hits
          PROVE  h.id \in apart \/ \E d \in S : d.id = h.id /\ h.val \in DB!Answers(d)
      <4>1. PICK row \in found[c] : h = [id |-> row.id, val |-> text[row]]
        BY <3>7
      <4>2. CASE row.id \notin apart
        <5> DEFINE d == [id |-> row.id, val |-> row.val]
        <5>1. row \in Docs
          BY <3>3, <3>4, <4>2 DEF Sure
        <5>2. d \in S
          BY <5>1
        <5>3. is_open => row \in disk
          BY <3>3, <5>1 DEF Sure
        <5>4. h.id = row.id /\ h.val \in TextsOf(row)
          BY <3>5, <4>1
        <5>5. h.val \in DB!Answers(d)
          BY <5>3, <5>4 DEF TextsOf, DB!Answers
        <5> HIDE DEF S
        <5> QED
          BY <5>2, <5>4, <5>5
      <4> QED
        BY <4>1, <4>2
    <3>8. ASSUME NEW g \in hits, NEW h \in hits, g.id = h.id
          PROVE  g = h \/ g.id \in apart
      <4>1. PICK row \in found[c] : g = [id |-> row.id, val |-> text[row]]
        BY <3>8
      <4>2. PICK other \in found[c] : h = [id |-> other.id, val |-> text[other]]
        BY <3>8
      <4>3. row.id \notin apart => row = other
        BY <3>3, <3>4, <3>8, <4>1, <4>2 DEF Sure, OnePerId
      <4> QED
        BY <4>1, <4>2, <4>3
    <3>9. S # {} => hits # {}
      <4> SUFFICES ASSUME NEW x \in S  PROVE hits # {}
        OBVIOUS
      <4>1. PICK d \in Docs : x = [id |-> d.id, val |-> d.val]
        OBVIOUS
      <4>2. d \in ram
        BY <3>3, <4>1 DEF Sure
      <4>3. PICK row \in found[c] : TRUE
        BY <3>4, <4>2
      <4>4. [id |-> row.id, val |-> text[row]] \in hits
        BY <4>3
      <4> QED
        BY <4>4
    <3> HIDE DEF hits, S
    <3>10. DB!Replies(c, [kind |-> "ok", hits |-> hits])
      BY <3>5 DEF DB!Replies, hits
    <3> QED
      BY <2>1, <3>1, <3>2, <3>4, <3>6, <3>7, <3>8, <3>9, <3>10 DEF DB!Queried, DB!db, S
  <2>4. DB!Effect(c)
    BY <1>21, <2>2, <2>3 DEF ReadTexts, DB!Effect, NoResult, Plain, DB!NoResult, DB!Plain
  <2> QED
    BY <2>4 DEF DB!Next
<1>22. ASSUME NEW c \in Conn, DeleteRefused(c)
      PROVE  [DB!Next]_(DB!db_vars)
  <2>1. Docs' = Docs
    <3>1. pc[c] # "fill" /\ "unlock" # "fill" /\ pc' = [pc EXCEPT ![c] = "unlock"] /\ UNCHANGED <<ram, disk, is_open, apart>>
      BY <1>22 DEF DeleteRefused
    <3>2. mutex' = mutex \/ (mutex = None /\ mutex' = c) \/ (mutex = c /\ mutex' = None)
      BY <1>22 DEF DeleteRefused
    <3> QED
      BY <3>1, <3>2, DocsSame
  <2>2. cmd[c] \in Lines /\ cmd[c] # NoRequest /\ result[c] = NoResult
    BY <1>22, OnBranch DEF DeleteRefused, Waiting, Decided
  <2>3. DB!Deleted(c)
    <3>1. cmd[c].op = "DELETE"
      BY <1>22, <2>2 DEF DeleteRefused, IInv, CommandOK, Locked, OpAt
    <3> QED
      BY <1>22, <2>1, <3>1 DEF DeleteRefused, DB!Deleted, Plain, DB!Plain, DB!Replies, DB!db
  <2>4. DB!Effect(c)
    BY <1>22, <2>2, <2>3 DEF DeleteRefused, DB!Effect, NoResult, Plain, DB!NoResult, DB!Plain
  <2> QED
    BY <2>4 DEF DB!Next
<1>23. ASSUME NEW c \in Conn, DeleteEntry(c)
      PROVE  [DB!Next]_(DB!db_vars)
  <2>1. Docs = Sure(ram) /\ Docs' = Sure(ram)'
    <3>1. pc[c] = "DELETE" /\ pc' = [pc EXCEPT ![c] = "remove"] /\ mutex' = mutex /\ pc'[c] = "remove"
      BY <1>23 DEF DeleteEntry, IInv, TypeOK
    <3>2. pc[c] \in Locked
      BY <3>1 DEF Locked
    <3> QED
      BY <3>1, <3>2, DocsAt, DocsNext DEF Sure
  <2>2. Docs' = Docs
    BY <1>23, <2>1 DEF DeleteEntry, Sure
  <2> QED
    BY <1>23, <2>2 DEF DeleteEntry, DB!db_vars, DB!db
<1>32. ASSUME NEW c \in Conn, DeleteFails(c)
      PROVE  [DB!Next]_(DB!db_vars)
  <2>1. Docs = Sure(ram) /\ Docs' = Sure(ram)'
    <3>1. pc[c] = "DELETE" /\ pc' = [pc EXCEPT ![c] = "unlock"] /\ mutex' = mutex /\ pc'[c] = "unlock"
      BY <1>32 DEF DeleteFails, IInv, TypeOK
    <3>2. pc[c] \in Locked
      BY <3>1 DEF Locked
    <3> QED
      BY <3>1, <3>2, DocsAt, DocsNext DEF Sure
  <2>2. cmd[c] \in Lines /\ cmd[c] # NoRequest /\ result[c] = NoResult
    BY <1>32, OnBranch DEF DeleteFails, Waiting, Decided
  <2>3. DB!FailsHalfway(c)
    <3>1. UNCHANGED <<ram, moved, is_open>> /\ apart' = apart \union {cmd[c].id}
      BY <1>32 DEF DeleteFails, Bury
    <3>2. \A d : d \in Docs' <=> d \in Docs /\ d.id # cmd[c].id
      BY <2>1, <3>1 DEF Sure
    <3>3. {[id |-> d.id, val |-> d.val] : d \in Docs'}
          = {e \in {[id |-> d.id, val |-> d.val] : d \in Docs} : e.id # cmd[c].id}
      BY <3>2
    <3> QED
      BY <1>32, <3>1, <3>3 DEF DeleteFails, DB!FailsHalfway, DB!Without, DB!Replies, Plain, DB!Plain
  <2>4. DB!Deleted(c)
    <3>1. cmd[c].op = "DELETE"
      BY <1>32, <2>2 DEF DeleteFails, IInv, CommandOK, Locked, OpAt
    <3>2. is_open /\ InDocs(cmd[c].id, disk)
      BY <1>32 DEF DeleteFails, Bury, InDocs
    <3>3. Sure(ram) = Sure(disk)
      BY <1>32, <3>2, NotBetween DEF DeleteFails, Locked, Between
    <3>4. DB!Has(cmd[c].id) \/ cmd[c].id \in apart
      BY <2>1, <3>2, <3>3, HasSure DEF InDocs, Sure
    <3> QED
      BY <2>3, <3>1, <3>4 DEF DB!Deleted
  <2>5. DB!Effect(c)
    BY <1>32, <2>2, <2>4 DEF DeleteFails, DB!Effect, NoResult, Plain, DB!NoResult, DB!Plain
  <2> QED
    BY <2>5 DEF DB!Next
<1>24. ASSUME NEW c \in Conn, RemoveEntry(c)
      PROVE  [DB!Next]_(DB!db_vars)
  <2>1. Docs = Sure(ram) /\ Docs' = Sure(ram)'
    <3>1. pc[c] = "remove" /\ (\E to \in {"compact", "unlock"} : pc' = [pc EXCEPT ![c] = to]) /\ mutex' = mutex
      BY <1>24 DEF RemoveEntry
    <3>2. pc[c] \in Locked /\ pc'[c] # "fill"
      BY <3>1 DEF Locked, IInv, TypeOK
    <3> QED
      BY <3>1, <3>2, DocsAt, DocsNext DEF Sure
  <2>2. cmd[c] \in Lines /\ cmd[c] # NoRequest /\ result[c] = NoResult
    BY <1>24, OnBranch DEF RemoveEntry, Waiting, Decided
  <2>3. DB!Deleted(c)
    <3>1. cmd[c].op = "DELETE"
      BY <1>24, <2>2 DEF RemoveEntry, IInv, CommandOK, Locked, OpAt
    <3> DEFINE S(docs) == {[id |-> d.id, val |-> d.val] : d \in docs}
    <3>2. UNCHANGED <<apart, moved, is_open>>
      BY <1>24 DEF RemoveEntry
    <3>3. CASE /\ \E d \in ram : d.id = cmd[c].id /\ ram' = ram \ {d}
               /\ result' = [result EXCEPT ![c] = Plain("ok")]
      <4>1. DB!Has(cmd[c].id) \/ cmd[c].id \in apart
        BY <2>1, <3>3, HasSure DEF Sure
      <4>2. OnePerId(Sure(ram))
        BY DEF IInv, StoreOK
      <4>3. \A e : e \in Docs' <=> e \in Docs /\ e.id # cmd[c].id
        BY <2>1, <3>2, <3>3, <4>2 DEF Sure, OnePerId
      <4>4. S(Docs') = {e \in S(Docs) : e.id # cmd[c].id}
        BY <4>3
      <4> QED
        BY <3>1, <3>2, <3>3, <4>1, <4>4 DEF DB!Deleted, DB!Without, DB!Replies, Plain, DB!Plain
    <3>4. CASE /\ ~InDocs(cmd[c].id, ram) /\ ram' = ram
               /\ result' = [result EXCEPT ![c] = Plain("error")]
      <4>1. Docs' = Docs
        BY <2>1, <3>2, <3>4 DEF Sure
      <4> QED
        BY <3>1, <3>2, <3>4, <4>1 DEF DB!Deleted, DB!Replies, DB!db, Plain, DB!Plain
    <3> QED
      BY <1>24, <3>3, <3>4 DEF RemoveEntry
  <2>4. DB!Effect(c)
    BY <1>24, <2>2, <2>3 DEF RemoveEntry, DB!Effect, NoResult, Plain, DB!NoResult, DB!Plain
  <2> QED
    BY <2>4 DEF DB!Next
<1>25. ASSUME NEW c \in Conn, Compact(c)
      PROVE  [DB!Next]_(DB!db_vars)
  <2>1. Docs' = Docs
    <3>1. pc[c] # "fill" /\ "unlock" # "fill" /\ pc' = [pc EXCEPT ![c] = "unlock"] /\ UNCHANGED <<ram, disk, is_open, apart>>
      BY <1>25 DEF Compact
    <3>2. mutex' = mutex \/ (mutex = None /\ mutex' = c) \/ (mutex = c /\ mutex' = None)
      BY <1>25 DEF Compact
    <3> QED
      BY <3>1, <3>2, DocsSame
  <2>2. cmd[c] # NoRequest /\ cmd[c].op = "DELETE" /\ result[c] = Plain("ok")
    BY <1>25, ServerAssumption DEF Compact, IInv, CommandOK, StoreOK, Tie, Locked, Waiting, OpAt
  <2>3. Docs = Sure(ram)
    BY <1>25, DocsAt DEF Compact, Locked
  <2> DEFINE some == {d.id : d \in ram} \intersect apart
             S == {[id |-> d.id, val |-> d.val] : d \in Docs}
  <2>4. {d.id : d \in ram} = {d.id : d \in S} \union some
    <3>1. {d.id : d \in S} = {d.id : d \in Docs}
      <4>1. ASSUME NEW d \in Docs  PROVE d.id \in {e.id : e \in S}
        <5>1. [id |-> d.id, val |-> d.val] \in S
          OBVIOUS
        <5> QED
          BY <5>1
      <4>2. ASSUME NEW e \in S  PROVE e.id \in {d.id : d \in Docs}
        BY <4>2
      <4> QED
        BY <4>1, <4>2
    <3> HIDE DEF S
    <3> QED
      BY <2>3, <3>1 DEF Sure
  <2>5. some \in SUBSET apart
    OBVIOUS
  <2> HIDE DEF some
  <2>6. DB!Compacted(c)
    <3>1. moved' = {d.id : d \in S} \union some /\ UNCHANGED <<apart, is_open, conn, inbox, cmd, result, answered>>
      BY <1>25, <2>4 DEF Compact
    <3> QED
      BY <2>1, <2>2, <2>5, <3>1 DEF DB!Compacted, Plain, DB!Plain
  <2> QED
    BY <2>6 DEF DB!Next
<1>33. ASSUME NEW c \in Conn, CompactFails(c)
      PROVE  [DB!Next]_(DB!db_vars)
  <2>1. Docs' = Docs
    <3>1. pc[c] = "compact" /\ pc' = [pc EXCEPT ![c] = "unlock"] /\ mutex' = mutex /\ UNCHANGED <<ram, apart>>
      BY <1>33 DEF CompactFails
    <3>2. pc[c] \in Locked /\ pc'[c] # "fill"
      BY <3>1 DEF Locked, IInv, TypeOK
    <3> QED
      BY <3>1, <3>2, DocsAt, DocsNext DEF Sure
  <2>2. cmd[c] # NoRequest /\ cmd[c].op = "DELETE" /\ result[c] = Plain("ok")
    BY <1>33, ServerAssumption DEF CompactFails, IInv, CommandOK, StoreOK, Tie, Locked, Waiting, OpAt
  <2>3. is_open' \in BOOLEAN /\ is_open
    BY <1>33, Open DEF CompactFails
  <2>4. CASE is_open' = FALSE
    <3>1. DB!Compacted(c)
      BY <1>33, <2>1, <2>2, <2>4 DEF CompactFails, DB!Compacted, Plain, DB!Plain
    <3> QED
      BY <3>1 DEF DB!Next
  <2>5. CASE is_open' = TRUE
    <3>1. is_open' = is_open
      BY <2>3, <2>5 DEF IInv, TypeOK
    <3> QED
      BY <1>33, <2>1, <3>1 DEF CompactFails, DB!db_vars, DB!db
  <2> QED
    BY <2>3, <2>4, <2>5
<1>26. ASSUME NEW c \in Conn, OptimizeIndex(c)
      PROVE  [DB!Next]_(DB!db_vars)
  <2>1. Docs' = Docs
    <3>1. pc[c] # "fill" /\ "unlock" # "fill" /\ pc' = [pc EXCEPT ![c] = "unlock"] /\ UNCHANGED <<ram, disk, is_open, apart>>
      BY <1>26 DEF OptimizeIndex
    <3>2. mutex' = mutex \/ (mutex = None /\ mutex' = c) \/ (mutex = c /\ mutex' = None)
      BY <1>26 DEF OptimizeIndex
    <3> QED
      BY <3>1, <3>2, DocsSame
  <2>2. cmd[c] \in Lines /\ cmd[c] # NoRequest /\ result[c] = NoResult
    BY <1>26, OnBranch DEF OptimizeIndex, Waiting, Decided
  <2>3. DB!Maintained(c)
    <3>1. cmd[c].op = "OPTIMIZE"
      BY <1>26, <2>2 DEF OptimizeIndex, IInv, CommandOK, Locked, OpAt
    <3> QED
      BY <1>26, <2>1, <3>1 DEF OptimizeIndex, DB!Maintained, Plain, DB!Plain, DB!Replies, DB!db
  <2>4. DB!Effect(c)
    BY <1>26, <2>2, <2>3 DEF OptimizeIndex, DB!Effect, NoResult, Plain, DB!NoResult, DB!Plain
  <2> QED
    BY <2>4 DEF DB!Next
<1>27. ASSUME NEW c \in Conn, FlushHeader(c)
      PROVE  [DB!Next]_(DB!db_vars)
  <2>1. Docs' = Docs
    <3>1. pc[c] # "fill" /\ "unlock" # "fill" /\ pc' = [pc EXCEPT ![c] = "unlock"] /\ UNCHANGED <<ram, disk, is_open, apart>>
      BY <1>27 DEF FlushHeader
    <3>2. mutex' = mutex \/ (mutex = None /\ mutex' = c) \/ (mutex = c /\ mutex' = None)
      BY <1>27 DEF FlushHeader
    <3> QED
      BY <3>1, <3>2, DocsSame
  <2>2. cmd[c] \in Lines /\ cmd[c] # NoRequest /\ result[c] = NoResult
    BY <1>27, OnBranch DEF FlushHeader, Waiting, Decided
  <2>3. DB!Maintained(c)
    <3>1. cmd[c].op = "SAVE"
      BY <1>27, <2>2 DEF FlushHeader, IInv, CommandOK, Locked, OpAt
    <3> QED
      BY <1>27, <2>1, <3>1 DEF FlushHeader, DB!Maintained, Plain, DB!Plain, DB!Replies, DB!db
  <2>4. DB!Effect(c)
    BY <1>27, <2>2, <2>3 DEF FlushHeader, DB!Effect, NoResult, Plain, DB!NoResult, DB!Plain
  <2> QED
    BY <2>4 DEF DB!Next
<1>28. ASSUME NEW c \in Conn, Clear(c)
      PROVE  [DB!Next]_(DB!db_vars)
  <2>1. Docs = Sure(ram) /\ Docs' = Sure(IF is_open THEN disk ELSE ram)'
    <3>1. pc[c] = "LOAD" /\ pc' = [pc EXCEPT ![c] = "fill"] /\ mutex' = mutex /\ pc'[c] = "fill"
      BY <1>28 DEF Clear, IInv, TypeOK
    <3>2. pc[c] \in Locked
      BY <3>1 DEF Locked
    <3> QED
      BY <3>1, <3>2, DocsAt, DocsNext DEF Sure
  <2>2. cmd[c] # NoRequest /\ cmd[c].op = "LOAD"
    BY <1>28, OnBranch DEF Clear, Waiting, Decided, IInv, CommandOK, Locked, OpAt
  <2>3. ram' = {} /\ UNCHANGED <<disk, is_open, apart, moved, conn, inbox, cmd, result, answered>>
    BY <1>28 DEF Clear
  <2>4. CASE is_open
    <3>1. Sure(ram) = Sure(disk)
      BY <1>28, <2>4, NotBetween DEF Clear, Locked, Between
    <3>2. Docs' = Docs
      BY <2>1, <2>3, <2>4, <3>1 DEF Sure
    <3> QED
      BY <2>3, <3>2 DEF DB!db_vars, DB!db
  <2>5. CASE ~is_open
    <3>1. Docs' = {}
      BY <2>1, <2>3, <2>5 DEF Sure
    <3>2. DB!Forgotten(c)
      BY <2>2, <2>3, <2>5, <3>1 DEF DB!Forgotten
    <3> QED
      BY <3>2 DEF DB!Next
  <2> QED
    BY <2>4, <2>5
<1>29. ASSUME NEW c \in Conn, LoadEntry(c)
      PROVE  [DB!Next]_(DB!db_vars)
  <2>1. /\ Docs = Sure(IF is_open THEN disk ELSE ram)
        /\ Docs' = Sure(IF is_open THEN disk ELSE ram)'
    <3>1. pc[c] = "fill" /\ pc' = [pc EXCEPT ![c] = "fill"] /\ mutex' = mutex /\ pc'[c] = "fill"
      BY <1>29 DEF LoadEntry, IInv, TypeOK
    <3>2. pc[c] \in Locked
      BY <3>1 DEF Locked
    <3> QED
      BY <3>1, <3>2, DocsAt, DocsNext DEF Sure
  <2>2. Docs' = Docs
    BY <1>29, <2>1 DEF LoadEntry, Sure
  <2> QED
    BY <1>29, <2>2 DEF LoadEntry, DB!db_vars, DB!db
<1>30. ASSUME NEW c \in Conn, LoadDone(c)
      PROVE  [DB!Next]_(DB!db_vars)
  <2>1. /\ Docs = Sure(IF is_open THEN disk ELSE ram)
        /\ Docs' = Sure(ram)'
    <3>1. pc[c] = "fill" /\ pc' = [pc EXCEPT ![c] = "unlock"] /\ mutex' = mutex /\ pc'[c] = "unlock"
      BY <1>30 DEF LoadDone, IInv, TypeOK
    <3>2. pc[c] \in Locked
      BY <3>1 DEF Locked
    <3> QED
      BY <3>1, <3>2, DocsAt, DocsNext DEF Sure
  <2>2. cmd[c] \in Lines /\ cmd[c] # NoRequest /\ result[c] = NoResult
    BY <1>30, OnBranch DEF LoadDone, Waiting, Decided
  <2>3. DB!Loaded(c)
    <3>1. cmd[c].op = "LOAD"
      BY <1>30, <2>2 DEF LoadDone, IInv, CommandOK, Locked, OpAt
    <3> DEFINE S(docs) == {[id |-> d.id, val |-> d.val] : d \in docs}
    <3>2. moved' = {} /\ UNCHANGED <<ram, disk, is_open>> /\ DB!Replies(c, DB!Plain("ok"))
      BY <1>30 DEF LoadDone, DB!Replies, Plain, DB!Plain
    <3>3. CASE ~is_open
      <4>1. apart' = apart
        BY <1>30, <3>3 DEF LoadDone
      <4>2. Docs' = Docs
        BY <2>1, <3>2, <3>3, <4>1 DEF Sure
      <4>3. S(Docs') = S(Docs) \union {}
        BY <4>2
      <4> HIDE DEF S
      <4>4. apart' \in SUBSET apart /\ {} \in SUBSET [id : apart \ apart', val : Val]
        BY <4>1
      <4> QED
        BY <3>1, <3>2, <4>3, <4>4 DEF DB!Loaded, S
    <3>4. CASE is_open
      <4>1. ram = disk
        BY <1>30, <3>4 DEF LoadDone, IInv, StoreOK, Tie
      <4>2. apart' = apart \intersect Doubled
        BY <1>30, <3>4 DEF LoadDone
      <4> DEFINE back == {d \in disk : d.id \in apart \ apart'}
      <4>3. Docs' = Docs \union back
        <5>1. \A d : d \in Docs' <=> d \in disk /\ d.id \notin apart'
          BY <2>1, <3>2, <4>1 DEF Sure
        <5>2. \A d : d \in Docs <=> d \in disk /\ d.id \notin apart
          BY <2>1, <3>4 DEF Sure
        <5>3. \A d : d \in back <=> d \in disk /\ d.id \in apart /\ d.id \notin apart'
          OBVIOUS
        <5>4. apart' \subseteq apart
          BY <4>2
        <5> HIDE DEF back
        <5> QED
          BY <5>1, <5>2, <5>3, <5>4
      <4>4. S(back) \in SUBSET [id : apart \ apart', val : Val]
        BY DEF IInv, TypeOK, Row
      <4>5. ASSUME NEW d \in back, NEW e \in back, d.id = e.id  PROVE d = e
        BY <3>4, <4>2, <4>5, Settled
      <4> HIDE DEF back
      <4>6. \A d, e \in S(back) : d.id = e.id => d = e
        BY <4>5
      <4>7. S(Docs') = S(Docs) \union S(back)
        BY <4>3
      <4>8. apart' \in SUBSET apart
        BY <4>2
      <4> QED
        BY <3>1, <3>2, <4>4, <4>6, <4>7, <4>8 DEF DB!Loaded
    <3> QED
      BY <3>3, <3>4 DEF IInv, TypeOK
  <2>4. DB!Effect(c)
    BY <1>30, <2>2, <2>3 DEF LoadDone, DB!Effect, NoResult, Plain, DB!NoResult, DB!Plain
  <2> QED
    BY <2>4 DEF DB!Next
<1> QED
  BY <1>1, <1>2, <1>3, <1>4, <1>5, <1>6, <1>7, <1>8, <1>9, <1>10, <1>11, <1>12, <1>13, <1>14, <1>15, <1>16, <1>17, <1>18, <1>19, <1>20, <1>21, <1>22, <1>23, <1>24, <1>25, <1>26, <1>27, <1>28, <1>29, <1>30, <1>31, <1>32, <1>33
     DEF Next, Work, Quiet

\* Server implements Database: whatever the threads of any number of
\* connections do and whichever writes and compactions fail, every command takes
\* effect at one moment on one collection of documents, and replies follow the
\* order of each connection's commands.  What failures and compactions leave
\* open is in Database: the ids left half inserted or half deleted, the texts of
\* documents that a compaction has moved, and files that have been closed.
THEOREM Refinement == Spec => ImplementsDatabase
<1>1. Init => DB!Init
  <2> SUFFICES ASSUME Init  PROVE DB!Init
    OBVIOUS
  <2> DEFINE S == {[id |-> d.id, val |-> d.val] : d \in Docs}
  <2>1. Docs = ram /\ ram \subseteq Row /\ OnePerId(ram)
    BY ServerAssumption DEF Init, Docs, Sure
  <2>2. S \subseteq [id : Id, val : Val] /\ \A d, e \in S : d.id = e.id => d = e
    BY <2>1 DEF Row, OnePerId
  <2> HIDE DEF S
  <2> QED
    BY <2>2 DEF Init, DB!Init, NoResult, Plain, DB!NoResult, DB!Plain, S
<1> QED
  BY <1>1, Invariance, StepRefines, PTL DEF Spec, ImplementsDatabase, DB!Spec
=============================================================================
