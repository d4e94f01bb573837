-------------------------- MODULE FileManagerProofs --------------------------
(***************************************************************************)
(* Theorems about FileManager, for any documents, DELETE_FACTOR, kills and *)
(* failing operations: between calls the header on disk is the one in RAM, *)
(* and it never counts fewer live records than it makes visible.  Then     *)
(* lemmas on what is read from the files and what compact writes, and the  *)
(* theorems about the documents that the two files hold.                   *)
(***************************************************************************)
EXTENDS FileManager, FiniteSetTheorems, SequenceTheorems, WellFoundedInduction, TLAPS

-----------------------------------------------------------------------------
(* The inductive invariant.                                                *)

\* A sequence of things with a flag.  (That the offsets compact gives them are
\* numbers is not needed here.)
Flags(recs) == \E R : recs \in Seq(R) /\ \A r \in R : "flag" \in DOMAIN r

FilesOK ==
    /\ header \in Header
    /\ \A file \in {entry_file, temp_entry} :
        /\ file = [header |-> file.header, recs |-> file.recs]
        /\ file.header \in Header
        /\ Flags(file.recs)

RecordSteps == {"write_record", "write_header", "retry_header", "delete_header", "delete_text"}

\* What a call in progress remembers.
StepOK ==
    \/ step.at \in {"idle", "create_text"} /\ step = [at |-> step.at]
    \/ step.at \in RecordSteps /\ step = [at |-> step.at, rec |-> step.rec] /\ "flag" \in DOMAIN step.rec
    \/ step.at \in SwapSteps /\ step = [at |-> step.at, kept |-> step.kept]

\* Where the streams are open.
OpenOK ==
    /\ status # "up" => step = Idle
    /\ is_open => status = "up" /\ step.at \notin SwapSteps \union {"create_text"}
    /\ step.at \in RecordSteps => is_open

\* The records below the total of h that can be live: those flagged so and
\* those the file has not got (yet).
Visible(h, recs) == {i \in 0 .. h.total - 1 : i < Len(recs) => recs[i + 1].flag = 1}
Covered(h, recs) == Cardinality(Visible(h, recs)) <= h.live

\* The live counts, in RAM, on disk and in what a compaction makes of it, cover
\* the records they make visible.  After a compaction that dropped unreadable
\* records the total is beyond the end of the file, and the next INSERTs fill
\* the gap: this is why Visible counts it.
CountOK ==
    /\ is_open /\ step.at \notin {"delete_header", "retry_header"} => header = entry_file.header
    /\ step.at = "delete_header" =>
        header.total = entry_file.header.total /\ Covered(header, entry_file.recs)
    /\ step.at = "retry_header" =>
        header.total = entry_file.header.total + 1 /\ Covered(header, entry_file.recs)
    /\ Covered(entry_file.header, entry_file.recs)
    /\ temp_entry.header.live = temp_entry.header.total

IInv == FilesOK /\ StepOK /\ OpenOK /\ CountOK

-----------------------------------------------------------------------------
(* Facts about the operators.                                              *)

\* A non-empty set of naturals has a least element.
LEMMA LeastElement ==
    ASSUME NEW T \in SUBSET Nat, T # {}
    PROVE  \E m \in T : \A n \in T : m <= n
  <1>1. PICK m \in T : \A n \in T : <<n, m>> \notin OpToRel(<, Nat)
    BY NatLessThanWellFounded, WFMin
  <1>2. \A n \in T : ~(n < m)
    BY <1>1 DEF OpToRel
  <1> QED
    BY <1>2

LEMMA VisibleFinite ==
    ASSUME NEW h \in Header, NEW recs
    PROVE  IsFiniteSet(Visible(h, recs)) /\ Cardinality(Visible(h, recs)) \in Nat
  <1>1. 0 \in Int /\ h.total - 1 \in Int
    BY DEF Header
  <1>2. IsFiniteSet(0 .. h.total - 1)
    BY <1>1, FS_Interval
  <1>3. Visible(h, recs) \subseteq 0 .. h.total - 1
    BY DEF Visible
  <1>4. IsFiniteSet(Visible(h, recs))
    BY <1>2, <1>3, FS_Subset
  <1> QED
    BY <1>4, FS_CardinalityType

\* An index too large for the file was counted already.
LEMMA VisibleAppend ==
    ASSUME NEW h \in Header, NEW recs, NEW r, Flags(recs), "flag" \in DOMAIN r
    PROVE  /\ Flags(Append(recs, r))
           /\ Visible(h, Append(recs, r)) \subseteq Visible(h, recs)
  <1>1. PICK R : recs \in Seq(R) /\ \A x \in R : "flag" \in DOMAIN x
    BY DEF Flags
  <1> DEFINE S == R \union {r}
  <1>2. recs \in Seq(S) /\ \A x \in S : "flag" \in DOMAIN x
    BY <1>1
  <1> HIDE DEF S
  <1>3. r \in S
    BY DEF S
  <1>4. Append(recs, r) \in Seq(S)
    BY <1>2, <1>3
  <1>5. /\ Len(recs) \in Nat /\ Len(Append(recs, r)) = Len(recs) + 1
        /\ \A i \in 1 .. Len(recs) : Append(recs, r)[i] = recs[i]
    BY <1>2, <1>3
  <1>6. ASSUME NEW i \in Visible(h, Append(recs, r))
        PROVE  i \in Visible(h, recs)
    <2>1. i \in 0 .. h.total - 1 /\ i \in Nat
      BY DEF Visible, Header
    <2>2. i < Len(recs) => i + 1 \in 1 .. Len(recs) /\ i < Len(Append(recs, r))
      BY <1>5, <2>1
    <2> QED
      BY <1>5, <2>1, <2>2 DEF Visible
  <1> QED
    BY <1>2, <1>4, <1>6 DEF Flags

\* A tombstone takes its index out.
LEMMA VisibleTombstone ==
    ASSUME NEW h \in Header, NEW recs, Flags(recs),
           NEW i \in 0 .. h.total - 1, i < Len(recs), recs[i + 1].flag = 1
    PROVE  /\ Flags([recs EXCEPT ![i + 1].flag = 0])
           /\ i \in Visible(h, recs)
           /\ Visible(h, [recs EXCEPT ![i + 1].flag = 0]) \subseteq Visible(h, recs) \ {i}
  <1>1. PICK R : recs \in Seq(R) /\ \A x \in R : "flag" \in DOMAIN x
    BY DEF Flags
  <1>2. i \in Nat /\ Len(recs) \in Nat /\ i + 1 \in 1 .. Len(recs)
    BY <1>1 DEF Header
  <1> DEFINE dead == [recs[i + 1] EXCEPT !.flag = 0]
             S == R \union {dead}
             new == [recs EXCEPT ![i + 1] = dead]
  <1>3. recs[i + 1] \in R
    BY <1>1, <1>2
  <1>4. "flag" \in DOMAIN dead /\ dead.flag = 0
    BY <1>1, <1>3
  <1>5. new = [recs EXCEPT ![i + 1].flag = 0]
    OBVIOUS
  <1> HIDE DEF dead
  <1>6. recs \in Seq(S) /\ dead \in S /\ \A x \in S : "flag" \in DOMAIN x
    BY <1>1, <1>4
  <1>7. /\ new \in Seq(S) /\ Len(new) = Len(recs) /\ new[i + 1] = dead
        /\ \A j \in 1 .. Len(recs) : j # i + 1 => new[j] = recs[j]
    BY <1>2, <1>6
  <1> HIDE DEF new
  <1>8. ASSUME NEW j \in Visible(h, new)
        PROVE  j \in Visible(h, recs) \ {i}
    <2>1. j \in 0 .. h.total - 1 /\ j \in Nat
      BY DEF Visible, Header
    <2>2. j # i
      BY <1>2, <1>4, <1>7, <1>8 DEF Visible
    <2>3. j < Len(recs) => j + 1 \in 1 .. Len(recs) /\ j + 1 # i + 1
      BY <1>2, <2>1, <2>2
    <2> QED
      BY <1>7, <2>1, <2>2, <2>3 DEF Visible
  <1>9. i \in Visible(h, recs)
    BY DEF Visible
  <1> QED
    BY <1>5, <1>6, <1>7, <1>8, <1>9 DEF Flags

\* Fewer visible records are covered too.
LEMMA CoveredSubset ==
    ASSUME NEW h \in Header, NEW recs, NEW new, Covered(h, recs),
           Visible(h, new) \subseteq Visible(h, recs)
    PROVE  Covered(h, new)
  <1>1. Cardinality(Visible(h, new)) <= Cardinality(Visible(h, recs))
    BY VisibleFinite, FS_Subset
  <1> QED
    BY <1>1, VisibleFinite DEF Covered, Header

\* A set of n numbers has a k-th smallest, for every k up to n.
LEMMA NthExists ==
    ASSUME NEW n \in Nat, NEW S \in SUBSET (0 .. n - 1), NEW k \in 1 .. Cardinality(S)
    PROVE  Nth(S, k) \in S /\ Cardinality({j \in S : j < Nth(S, k)}) = k - 1
  <1> DEFINE Below(i) == {j \in S : j < i}
             T == {i \in Nat : Cardinality(Below(i)) >= k}
  <1>1. IsFiniteSet(0 .. n - 1)
    BY FS_Interval
  <1>2. /\ IsFiniteSet(S) /\ Cardinality(S) \in Nat /\ k \in Nat /\ k >= 1
        /\ \A j \in S : j \in Nat /\ j < n
    <2>1. IsFiniteSet(S)
      BY <1>1, FS_Subset
    <2>2. Cardinality(S) \in Nat
      BY <2>1, FS_CardinalityType
    <2> QED
      BY <2>1, <2>2
  <1>3. \A i \in Nat : IsFiniteSet(Below(i)) /\ Cardinality(Below(i)) \in Nat
    BY <1>2, FS_Subset, FS_CardinalityType
  <1>4. n \in T
    <2>1. Below(n) = S
      BY <1>2
    <2> QED
      BY <1>2, <2>1
  <1>5. PICK m \in T : \A i \in T : m <= i
    BY <1>4, LeastElement
  <1>6. m # 0
    <2>1. \A j \in S : ~(j < 0)
      BY <1>2
    <2>2. Below(0) = {}
      BY <2>1
    <2> QED
      BY <1>2, <1>5, <2>2, FS_EmptySet
  <1>7. m - 1 \in Nat /\ m - 1 \notin T
    BY <1>5, <1>6
  <1>8. Below(m) = IF m - 1 \in S THEN Below(m - 1) \union {m - 1} ELSE Below(m - 1)
    <2>1. m \in Nat /\ \A j \in S : j < m <=> j < m - 1 \/ j = m - 1
      BY <1>2, <1>5
    <2> HIDE DEF T
    <2> QED
      BY <2>1
  <1>9. Cardinality(Below(m - 1)) < k /\ Cardinality(Below(m)) >= k
    <2> HIDE DEF Below
    <2>1. \A i \in T : Cardinality(Below(i)) >= k
      OBVIOUS
    <2>2. ~(Cardinality(Below(m - 1)) >= k)
      BY <1>7
    <2> QED
      BY <1>2, <1>3, <1>5, <1>7, <2>1, <2>2
  <1>10. m - 1 \in S
    BY <1>2, <1>3, <1>5, <1>7, <1>8, <1>9
  <1>11. Cardinality(Below(m)) = Cardinality(Below(m - 1)) + 1
    <2>1. Below(m) = Below(m - 1) \union {m - 1} /\ m - 1 \notin Below(m - 1)
      BY <1>7, <1>8, <1>10
    <2> HIDE DEF Below
    <2> QED
      BY <1>3, <1>7, <2>1, FS_AddElement
  <1>12. Cardinality(Below(m - 1)) = k - 1
    BY <1>2, <1>3, <1>5, <1>7, <1>9, <1>11
  <1>13. \E i \in S : Cardinality(Below(i)) = k - 1
    BY <1>10, <1>12
  <1> QED
    BY <1>13 DEF Nth

\* A loop of read_entry delivers records of the file, and with new offsets they
\* are a sequence of records again.
LEMMA CopiedFlags ==
    ASSUME NEW h, NEW recs, NEW tf, Flags(recs)
    PROVE  LET rs == ReadAll(h, recs, tf)
           IN  Flags([k \in DOMAIN rs |-> [rs[k] EXCEPT !.off = NewOffset(rs, k)]])
  <1> DEFINE S == Readable(h, recs, tf)
             rs == ReadAll(h, recs, tf)
             new == [k \in DOMAIN rs |-> [rs[k] EXCEPT !.off = NewOffset(rs, k)]]
             R == {new[k] : k \in DOMAIN rs}
  <1>1. PICK Q : recs \in Seq(Q) /\ \A r \in Q : "flag" \in DOMAIN r
    BY DEF Flags
  <1>2. Len(recs) \in Nat /\ S \in SUBSET (0 .. Len(recs) - 1)
    BY <1>1 DEF Readable
  <1>3. IsFiniteSet(S) /\ Cardinality(S) \in Nat
    <2>1. IsFiniteSet(0 .. Len(recs) - 1)
      BY <1>2, FS_Interval
    <2>2. IsFiniteSet(S)
      BY <1>2, <2>1, FS_Subset
    <2> QED
      BY <2>2, FS_CardinalityType
  <1>4. DOMAIN rs = 1 .. Cardinality(S) /\ \A k \in DOMAIN rs : rs[k] = recs[Nth(S, k) + 1]
    BY DEF ReadAll
  <1>5. ASSUME NEW k \in DOMAIN rs
        PROVE  "flag" \in DOMAIN rs[k]
    <2>1. Nth(S, k) \in S
      BY <1>2, <1>4, NthExists
    <2>2. Nth(S, k) + 1 \in 1 .. Len(recs)
      BY <1>2, <2>1
    <2> QED
      BY <1>1, <1>4, <2>2
  <1>6. \A r \in R : "flag" \in DOMAIN r
    BY <1>5
  <1>7. new \in Seq(R)
    <2>1. new \in [1 .. Cardinality(S) -> R]
      BY <1>4
    <2> QED
      BY <1>3, <2>1
  <1> QED
    BY <1>6, <1>7 DEF Flags

\* A file that was created and not written.
LEMMA EmptyFacts ==
    /\ EmptyEntry = [header |-> EmptyEntry.header, recs |-> EmptyEntry.recs]
    /\ EmptyEntry.header = NoHeader /\ NoHeader \in Header
    /\ NoHeader.live = 0 /\ NoHeader.total = 0
    /\ Flags(EmptyEntry.recs) /\ Covered(NoHeader, EmptyEntry.recs)
  <1>1. EmptyEntry.recs = <<>>
    BY DEF EmptyEntry
  <1>2. Flags(<<>>)
    <2> DEFINE E == {}
    <2>1. <<>> \in Seq(E) /\ \A r \in E : "flag" \in DOMAIN r
      OBVIOUS
    <2> HIDE DEF E
    <2> QED
      BY <2>1 DEF Flags
  <1>3. Covered(NoHeader, <<>>)
    <2>1. Visible(NoHeader, <<>>) = {}
      BY DEF Visible, NoHeader
    <2> QED
      BY <2>1, FS_EmptySet DEF Covered, NoHeader
  <1> QED
    BY <1>1, <1>2, <1>3 DEF EmptyEntry, NoHeader, Header

LEMMA InitHolds == Init => IInv
  <1> SUFFICES ASSUME Init PROVE IInv
    OBVIOUS
  <1>1. FilesOK
    BY EmptyFacts DEF Init, FilesOK
  <1>2. StepOK /\ OpenOK
    BY DEF Init, StepOK, OpenOK, Idle, SwapSteps, RecordSteps
  <1>3. CountOK
    BY EmptyFacts DEF Init, CountOK, Idle
  <1> QED
    BY <1>1, <1>2, <1>3 DEF IInv

\* find_by_id returns a live record, which delete_entry marks.
LEMMA DeleteFacts ==
    ASSUME FilesOK, NEW id, DeleteRecord(id)
    PROVE  \E i \in 0 .. header.total - 1 :
               /\ i < Len(entry_file.recs) /\ entry_file.recs[i + 1].flag = 1
               /\ "flag" \in DOMAIN entry_file.recs[i + 1]
               /\ entry_file' = [header |-> entry_file.header,
                                 recs |-> [entry_file.recs EXCEPT ![i + 1].flag = 0]]
               /\ step' = [at |-> "delete_header", rec |-> entry_file.recs[i + 1]]
  <1> DEFINE i == find_by_id(id)
  <1>1. Found(id) \in SUBSET Nat /\ Found(id) # {}
    <2>1. header.total \in Nat
      BY DEF FilesOK, Header
    <2>2. Found(id) \subseteq 0 .. header.total - 1
      BY DEF Found
    <2>3. Found(id) # {}
      BY DEF DeleteRecord
    <2> QED
      BY <2>1, <2>2, <2>3
  <1>2. i \in Found(id)
    <2>1. \E m \in Found(id) : \A j \in Found(id) : m <= j
      BY <1>1, LeastElement
    <2> QED
      BY <2>1 DEF find_by_id
  <1>3. /\ i \in 0 .. header.total - 1
        /\ i < Len(entry_file.recs) /\ entry_file.recs[i + 1].flag = 1
    BY <1>2 DEF Found
  <1>4. "flag" \in DOMAIN entry_file.recs[i + 1]
    <2>1. PICK R : entry_file.recs \in Seq(R) /\ \A r \in R : "flag" \in DOMAIN r
      BY DEF FilesOK, Flags
    <2>2. i + 1 \in 1 .. Len(entry_file.recs)
      BY <1>3, <2>1 DEF FilesOK, Header
    <2> QED
      BY <2>1, <2>2
  <1>5. entry_file' = [header |-> entry_file.header,
                       recs |-> [entry_file.recs EXCEPT ![i + 1].flag = 0]]
    <2>1. entry_file' = [entry_file EXCEPT !.recs[i + 1].flag = 0]
      BY DEF DeleteRecord
    <2>2. entry_file = [header |-> entry_file.header, recs |-> entry_file.recs]
      BY DEF FilesOK
    <2> QED
      BY <2>1, <2>2
  <1>6. step' = [at |-> "delete_header", rec |-> entry_file.recs[i + 1]]
    BY DEF DeleteRecord
  <1> HIDE DEF i
  <1> QED
    BY <1>3, <1>4, <1>5, <1>6

\* A tombstone takes one record out of the count, which had it.
LEMMA DeleteCovered ==
    ASSUME IInv, NEW id, DeleteRecord(id)
    PROVE  /\ header' \in Header /\ header'.total = header.total
           /\ Flags(entry_file'.recs)
           /\ Covered(header', entry_file'.recs)
           /\ Covered(entry_file'.header, entry_file'.recs)
  <1> DEFINE h == header
             recs == entry_file.recs
  <1>1. PICK i \in 0 .. h.total - 1 :
            /\ i < Len(recs) /\ recs[i + 1].flag = 1
            /\ entry_file' = [header |-> entry_file.header, recs |-> [recs EXCEPT ![i + 1].flag = 0]]
    BY DeleteFacts DEF IInv
  <1> DEFINE new == [recs EXCEPT ![i + 1].flag = 0]
  <1>2. h \in Header /\ h = entry_file.header /\ Flags(recs) /\ Covered(h, recs)
    BY DEF DeleteRecord, Ready, Idle, IInv, FilesOK, CountOK
  <1>3. header' = [live |-> h.live - 1, total |-> h.total]
    BY <1>2 DEF DeleteRecord, Header
  <1>4. Flags(new) /\ i \in Visible(h, recs) /\ Visible(h, new) \subseteq Visible(h, recs) \ {i}
    BY <1>1, <1>2, VisibleTombstone
  <1>5. entry_file'.recs = new /\ entry_file'.header = h
    BY <1>1, <1>2
  <1> HIDE DEF h, recs, new
  <1>6. /\ IsFiniteSet(Visible(h, recs)) /\ Cardinality(Visible(h, recs)) \in Nat
        /\ Cardinality(Visible(h, new)) \in Nat
    BY <1>2, VisibleFinite
  <1>7. /\ IsFiniteSet(Visible(h, recs) \ {i})
        /\ Cardinality(Visible(h, recs) \ {i}) = Cardinality(Visible(h, recs)) - 1
    BY <1>4, <1>6, FS_RemoveElement
  <1>8. Cardinality(Visible(h, new)) <= Cardinality(Visible(h, recs)) - 1
    BY <1>4, <1>7, FS_Subset
  <1>9. Cardinality(Visible(h, recs)) <= h.live /\ h.live \in Nat /\ h.total \in Nat
    BY <1>2 DEF Covered, Header
  <1>10. header' \in Header
    BY <1>3, <1>6, <1>8, <1>9 DEF Header
  <1>11. Visible(header', new) = Visible(h, new)
    BY <1>3 DEF Visible
  <1>12. Covered(header', new)
    BY <1>3, <1>6, <1>8, <1>9, <1>11 DEF Covered
  <1>13. Covered(h, new)
    BY <1>6, <1>8, <1>9 DEF Covered
  <1> QED
    BY <1>3, <1>4, <1>5, <1>10, <1>12, <1>13 DEF h

-----------------------------------------------------------------------------
(* Each conjunct is preserved.                                             *)

\* What a call remembers is what the rest of it needs.
LEMMA StepStep ==
    ASSUME IInv, [Next]_vars
    PROVE  StepOK'
  <1> USE DEF IInv, StepOK, OpenOK, Idle, SwapSteps, RecordSteps, Ready, disk, ram
  <1>1. CASE UNCHANGED vars
    BY <1>1 DEF vars
  <1>2. ASSUME NEW id \in Id, NEW v \in Val, WriteText(id, v)
        PROVE  StepOK'
    BY <1>2 DEF WriteText
  <1>3. CASE WriteRecord
    BY <1>3 DEF WriteRecord
  <1>4. CASE WriteHeader
    BY <1>4 DEF WriteHeader
  <1>5. CASE ReadText
    BY <1>5 DEF ReadText
  <1>6. CASE Save
    BY <1>6 DEF Save
  <1>7. ASSUME NEW id \in Id, DeleteRecord(id)
        PROVE  StepOK'
    <2>1. PICK i \in 0 .. header.total - 1 :
              /\ "flag" \in DOMAIN entry_file.recs[i + 1]
              /\ step' = [at |-> "delete_header", rec |-> entry_file.recs[i + 1]]
      BY <1>7, DeleteFacts
    <2> QED
      BY <2>1
  <1>8. CASE DeleteHeader
    BY <1>8 DEF DeleteHeader
  <1>9. CASE DeleteText
    BY <1>9 DEF DeleteText
  <1>10. CASE CompactCopy
    BY <1>10 DEF CompactCopy
  <1>11. CASE RemoveEntryFile
    BY <1>11 DEF RemoveEntryFile
  <1>12. CASE RemoveTextFile
    BY <1>12 DEF RemoveTextFile
  <1>13. CASE RenameEntry
    BY <1>13 DEF RenameEntry
  <1>14. CASE RenameText
    BY <1>14 DEF RenameText
  <1>15. CASE Reopen
    BY <1>15 DEF Reopen
  <1>16. CASE CopyFails
    BY <1>16 DEF CopyFails
  <1>17. CASE SwapFails
    BY <1>17 DEF SwapFails
  <1>a. CASE WriteFails
    BY <1>a DEF WriteFails
  <1>b. CASE HeaderFails
    BY <1>b DEF HeaderFails
  <1>c. CASE RetryHeader
    BY <1>c DEF RetryHeader
  <1>18. CASE Crash
    BY <1>18 DEF Crash
  <1>19. CASE OpenFiles
    BY <1>19 DEF OpenFiles
  <1>20. CASE CreateEntryFile
    BY <1>20 DEF CreateEntryFile
  <1>21. CASE CreateTextFile
    BY <1>21 DEF CreateTextFile
  <1>22. CASE RefuseToStart
    BY <1>22 DEF RefuseToStart
  <1> QED
    BY <1>1, <1>2, <1>3, <1>4, <1>5, <1>6, <1>7, <1>8, <1>9, <1>10, <1>11, <1>12, <1>13, <1>14, <1>15, <1>16, <1>17, <1>a, <1>b, <1>c, <1>18, <1>19, <1>20, <1>21, <1>22 DEF Next

\* The streams are open outside a compaction that has closed them.
LEMMA OpenStep ==
    ASSUME IInv, [Next]_vars
    PROVE  OpenOK'
  <1> USE DEF IInv, StepOK, OpenOK, Idle, SwapSteps, RecordSteps, Ready, disk, ram
  <1>1. CASE UNCHANGED vars
    BY <1>1 DEF vars
  <1>2. ASSUME NEW id \in Id, NEW v \in Val, WriteText(id, v)
        PROVE  OpenOK'
    BY <1>2 DEF WriteText
  <1>3. CASE WriteRecord
    BY <1>3 DEF WriteRecord
  <1>4. CASE WriteHeader
    BY <1>4 DEF WriteHeader
  <1>5. CASE ReadText
    BY <1>5 DEF ReadText
  <1>6. CASE Save
    BY <1>6 DEF Save
  <1>7. ASSUME NEW id \in Id, DeleteRecord(id)
        PROVE  OpenOK'
    BY <1>7 DEF DeleteRecord
  <1>8. CASE DeleteHeader
    BY <1>8 DEF DeleteHeader
  <1>9. CASE DeleteText
    BY <1>9 DEF DeleteText
  <1>10. CASE CompactCopy
    BY <1>10 DEF CompactCopy
  <1>11. CASE RemoveEntryFile
    BY <1>11 DEF RemoveEntryFile
  <1>12. CASE RemoveTextFile
    BY <1>12 DEF RemoveTextFile
  <1>13. CASE RenameEntry
    BY <1>13 DEF RenameEntry
  <1>14. CASE RenameText
    BY <1>14 DEF RenameText
  <1>15. CASE Reopen
    BY <1>15 DEF Reopen
  <1>16. CASE CopyFails
    BY <1>16 DEF CopyFails
  <1>17. CASE SwapFails
    BY <1>17 DEF SwapFails
  <1>a. CASE WriteFails
    BY <1>a DEF WriteFails
  <1>b. CASE HeaderFails
    BY <1>b DEF HeaderFails
  <1>c. CASE RetryHeader
    BY <1>c DEF RetryHeader
  <1>18. CASE Crash
    BY <1>18 DEF Crash
  <1>19. CASE OpenFiles
    BY <1>19 DEF OpenFiles
  <1>20. CASE CreateEntryFile
    BY <1>20 DEF CreateEntryFile
  <1>21. CASE CreateTextFile
    BY <1>21 DEF CreateTextFile
  <1>22. CASE RefuseToStart
    BY <1>22 DEF RefuseToStart
  <1> QED
    BY <1>1, <1>2, <1>3, <1>4, <1>5, <1>6, <1>7, <1>8, <1>9, <1>10, <1>11, <1>12, <1>13, <1>14, <1>15, <1>16, <1>17, <1>a, <1>b, <1>c, <1>18, <1>19, <1>20, <1>21, <1>22 DEF Next

\* Headers stay headers, and the files sequences of records.
LEMMA FilesStep ==
    ASSUME IInv, [Next]_vars
    PROVE  FilesOK'
  <1> USE DEF IInv, FilesOK, disk, ram
  <1>1. CASE UNCHANGED vars
    BY <1>1 DEF vars
  <1>2. ASSUME NEW id \in Id, NEW v \in Val, WriteText(id, v)
        PROVE  FilesOK'
    BY <1>2 DEF WriteText
  <1>3. CASE WriteRecord
    <2>1. Flags(Append(entry_file.recs, step.rec))
      BY <1>3, VisibleAppend DEF WriteRecord, StepOK, RecordSteps, SwapSteps
    <2>2. entry_file' = [header |-> entry_file.header, recs |-> Append(entry_file.recs, step.rec)]
      BY <1>3 DEF WriteRecord
    <2> QED
      BY <1>3, <2>1, <2>2 DEF WriteRecord
  <1>4. CASE WriteHeader
    <2>1. header' \in Header
      BY <1>4 DEF WriteHeader, Header
    <2>2. entry_file' = [header |-> header', recs |-> entry_file.recs]
      BY <1>4 DEF WriteHeader
    <2> QED
      BY <1>4, <2>1, <2>2 DEF WriteHeader
  <1>5. CASE ReadText
    BY <1>5 DEF ReadText
  <1>6. CASE Save
    <2>1. entry_file' = [header |-> header, recs |-> entry_file.recs]
      BY <1>6 DEF Save
    <2> QED
      BY <1>6, <2>1 DEF Save
  <1>7. ASSUME NEW id \in Id, DeleteRecord(id)
        PROVE  FilesOK'
    <2>1. header' \in Header /\ Flags(entry_file'.recs)
      BY <1>7, DeleteCovered
    <2>2. PICK i : entry_file' = [header |-> entry_file.header,
                                 recs |-> [entry_file.recs EXCEPT ![i + 1].flag = 0]]
      BY <1>7, DeleteFacts
    <2>3. entry_file' = [header |-> entry_file'.header, recs |-> entry_file'.recs]
      BY <2>2
    <2>4. entry_file'.header \in Header
      BY <2>2
    <2> QED
      BY <1>7, <2>1, <2>3, <2>4 DEF DeleteRecord
  <1>8. CASE DeleteHeader
    <2>1. entry_file' = [header |-> header, recs |-> entry_file.recs]
      BY <1>8 DEF DeleteHeader
    <2> QED
      BY <1>8, <2>1 DEF DeleteHeader
  <1>9. CASE DeleteText
    BY <1>9 DEF DeleteText
  <1>10. CASE CompactCopy
    <2> DEFINE rs == ReadAll(header, entry_file.recs, AllText)
               new == [k \in DOMAIN rs |-> [rs[k] EXCEPT !.off = NewOffset(rs, k)]]
    <2>1. temp_entry' = [header |-> NewHeader, recs |-> new]
      BY <1>10 DEF CompactCopy
    <2>2. Flags(new)
      BY CopiedFlags
    <2>3. NewHeader \in Header
      BY DEF NewHeader, Header
    <2> HIDE DEF new
    <2> QED
      BY <1>10, <2>1, <2>2, <2>3 DEF CompactCopy
  <1>11. CASE RemoveEntryFile
    BY <1>11, EmptyFacts DEF RemoveEntryFile
  <1>12. CASE RemoveTextFile
    BY <1>12 DEF RemoveTextFile
  <1>13. CASE RenameEntry
    BY <1>13, EmptyFacts DEF RenameEntry
  <1>14. CASE RenameText
    BY <1>14 DEF RenameText
  <1>15. CASE Reopen
    BY <1>15 DEF Reopen
  <1>16. CASE CopyFails
    BY <1>16 DEF CopyFails
  <1>17. CASE SwapFails
    BY <1>17 DEF SwapFails
  <1>a. CASE WriteFails
    BY <1>a DEF WriteFails
  <1>b. CASE HeaderFails
    <2>1. header' \in Header
      BY <1>b DEF HeaderFails, Header
    <2> QED
      BY <1>b, <2>1 DEF HeaderFails
  <1>c. CASE RetryHeader
    <2>1. header' = header
      BY <1>c DEF RetryHeader
    <2>2. entry_file' = [header |-> header', recs |-> entry_file.recs]
      BY <1>c DEF RetryHeader
    <2> QED
      BY <1>c, <2>1, <2>2 DEF RetryHeader
  <1>18. CASE Crash
    BY <1>18, EmptyFacts DEF Crash
  <1>19. CASE OpenFiles
    BY <1>19 DEF OpenFiles
  <1>20. CASE CreateEntryFile
    BY <1>20, EmptyFacts DEF CreateEntryFile
  <1>21. CASE CreateTextFile
    BY <1>21, EmptyFacts DEF CreateTextFile
  <1>22. CASE RefuseToStart
    BY <1>22 DEF RefuseToStart
  <1> QED
    BY <1>1, <1>2, <1>3, <1>4, <1>5, <1>6, <1>7, <1>8, <1>9, <1>10, <1>11, <1>12, <1>13, <1>14, <1>15, <1>16, <1>17, <1>a, <1>b, <1>c, <1>18, <1>19, <1>20, <1>21, <1>22 DEF Next

\* One more record is visible when the total grows by one.
LEMMA HeaderGrows ==
    ASSUME NEW h \in Header, NEW recs, Covered(h, recs)
    PROVE  Covered([live |-> h.live + 1, total |-> h.total + 1], recs)
  <1> DEFINE g == [live |-> h.live + 1, total |-> h.total + 1]
  <1>1. g \in Header /\ g.live = h.live + 1 /\ g.total = h.total + 1 /\ h.live \in Nat /\ h.total \in Nat
    BY DEF Header
  <1> HIDE DEF g
  <1>2. Visible(g, recs) \subseteq Visible(h, recs) \union {h.total}
    BY <1>1 DEF Visible
  <1>3. /\ IsFiniteSet(Visible(h, recs)) /\ Cardinality(Visible(h, recs)) \in Nat
        /\ Cardinality(Visible(g, recs)) \in Nat
    BY <1>1, VisibleFinite
  <1>4. /\ IsFiniteSet(Visible(h, recs) \union {h.total})
        /\ Cardinality(Visible(h, recs) \union {h.total}) \in Nat
        /\ Cardinality(Visible(h, recs) \union {h.total}) <= Cardinality(Visible(h, recs)) + 1
    <2>1. /\ IsFiniteSet(Visible(h, recs) \union {h.total})
          /\ Cardinality(Visible(h, recs) \union {h.total}) =
                 IF h.total \in Visible(h, recs) THEN Cardinality(Visible(h, recs))
                 ELSE Cardinality(Visible(h, recs)) + 1
      BY <1>3, FS_AddElement
    <2> QED
      BY <1>3, <2>1
  <1>5. Cardinality(Visible(g, recs)) <= Cardinality(Visible(h, recs) \union {h.total})
    BY <1>2, <1>4, FS_Subset
  <1> QED
    BY <1>1, <1>3, <1>4, <1>5 DEF Covered, g

\* What a compaction writes has as many records in its total as it counts live.
LEMMA FullHeader ==
    ASSUME NEW h \in Header, NEW recs, h.live = h.total
    PROVE  Covered(h, recs)
  <1>1. h.total \in Nat /\ 0 \in Int /\ h.total - 1 \in Int
    BY DEF Header
  <1>2. IsFiniteSet(0 .. h.total - 1) /\ Cardinality(0 .. h.total - 1) = h.total
    <2>1. /\ IsFiniteSet(0 .. h.total - 1)
          /\ Cardinality(0 .. h.total - 1) = IF 0 > h.total - 1 THEN 0 ELSE (h.total - 1) - 0 + 1
      BY <1>1, FS_Interval
    <2> QED
      BY <1>1, <2>1
  <1>3. Visible(h, recs) \subseteq 0 .. h.total - 1
    BY DEF Visible
  <1>4. Cardinality(Visible(h, recs)) <= h.total
    BY <1>2, <1>3, FS_Subset
  <1> QED
    BY <1>4 DEF Covered

\* The live counts keep covering what they make visible.
LEMMA CountStep ==
    ASSUME IInv, [Next]_vars
    PROVE  CountOK'
  <1> USE DEF IInv, CountOK, disk, ram
  <1>1. CASE UNCHANGED vars
    BY <1>1 DEF vars
  <1>2. ASSUME NEW id \in Id, NEW v \in Val, WriteText(id, v)
        PROVE  CountOK'
    BY <1>2 DEF WriteText, Ready, Idle, OpenOK
  <1>3. CASE WriteRecord
    <2>1. /\ entry_file'.header = entry_file.header
          /\ entry_file'.recs = Append(entry_file.recs, step.rec)
      BY <1>3 DEF WriteRecord, FilesOK
    <2>2. Visible(entry_file.header, Append(entry_file.recs, step.rec))
              \subseteq Visible(entry_file.header, entry_file.recs)
      BY <1>3, VisibleAppend DEF WriteRecord, StepOK, RecordSteps, SwapSteps, FilesOK
    <2>3. Covered(entry_file'.header, entry_file'.recs)
      BY <2>1, <2>2, CoveredSubset DEF FilesOK
    <2>4. step'.at = "write_header"
      BY <1>3 DEF WriteRecord, StepOK, RecordSteps, SwapSteps
    <2> QED
      BY <1>3, <2>1, <2>3, <2>4 DEF WriteRecord
  <1>4. CASE WriteHeader
    <2>1. header = entry_file.header /\ header \in Header
      BY <1>4 DEF WriteHeader, OpenOK, RecordSteps, FilesOK
    <2>2. Covered(header', entry_file.recs)
      BY <1>4, <2>1, HeaderGrows DEF WriteHeader
    <2>3. entry_file'.header = header' /\ entry_file'.recs = entry_file.recs
      BY <1>4 DEF WriteHeader, FilesOK
    <2> QED
      BY <1>4, <2>2, <2>3 DEF WriteHeader, Idle
  <1>5. CASE ReadText
    BY <1>5 DEF ReadText, Ready, Idle, OpenOK
  <1>6. CASE Save
    <2>1. header = entry_file.header
      BY <1>6 DEF Save, Ready, Idle
    <2>2. entry_file' = entry_file
      BY <1>6, <2>1 DEF Save, FilesOK
    <2> QED
      BY <1>6, <2>2 DEF Save
  <1>7. ASSUME NEW id \in Id, DeleteRecord(id)
        PROVE  CountOK'
    <2>1. /\ header' \in Header /\ header'.total = header.total
          /\ Covered(header', entry_file'.recs)
          /\ Covered(entry_file'.header, entry_file'.recs)
      BY <1>7, DeleteCovered
    <2>2. header = entry_file.header
      BY <1>7 DEF DeleteRecord, Ready, Idle
    <2>3. entry_file'.header = entry_file.header /\ step'.at = "delete_header"
      <3>1. PICK i : /\ entry_file' = [header |-> entry_file.header,
                                      recs |-> [entry_file.recs EXCEPT ![i + 1].flag = 0]]
                     /\ step' = [at |-> "delete_header", rec |-> entry_file.recs[i + 1]]
        BY <1>7, DeleteFacts
      <3> QED
        BY <3>1
    <2> QED
      BY <1>7, <2>1, <2>2, <2>3 DEF DeleteRecord
  <1>8. CASE DeleteHeader
    <2>1. entry_file'.header = header /\ entry_file'.recs = entry_file.recs
      BY <1>8 DEF DeleteHeader, FilesOK
    <2>2. step'.at = "delete_text"
      BY <1>8 DEF DeleteHeader, StepOK, RecordSteps, SwapSteps
    <2> QED
      BY <1>8, <2>1, <2>2 DEF DeleteHeader
  <1>9. CASE DeleteText
    BY <1>9 DEF DeleteText, Ready, Idle, OpenOK
  <1>10. CASE CompactCopy
    <2>1. temp_entry'.header.live = temp_entry'.header.total
      BY <1>10 DEF CompactCopy, NewHeader
    <2> QED
      BY <1>10, <2>1 DEF CompactCopy
  <1>11. CASE RemoveEntryFile
    <2>1. is_open' = FALSE /\ step'.at = "swap_text"
      BY <1>11 DEF RemoveEntryFile, OpenOK, SwapSteps, StepOK, RecordSteps
    <2> QED
      BY <1>11, <2>1, EmptyFacts DEF RemoveEntryFile
  <1>12. CASE RemoveTextFile
    <2>1. is_open' = FALSE /\ step'.at = "rename_entry"
      BY <1>12 DEF RemoveTextFile, OpenOK, SwapSteps, StepOK, RecordSteps
    <2> QED
      BY <1>12, <2>1 DEF RemoveTextFile
  <1>13. CASE RenameEntry
    <2>1. is_open' = FALSE /\ step'.at = "rename_text"
      BY <1>13 DEF RenameEntry, OpenOK, SwapSteps, StepOK, RecordSteps
    <2>2. Covered(temp_entry.header, temp_entry.recs)
      BY FullHeader DEF FilesOK
    <2> QED
      BY <1>13, <2>1, <2>2, EmptyFacts DEF RenameEntry
  <1>14. CASE RenameText
    <2>1. is_open' = FALSE /\ step'.at = "reopen"
      BY <1>14 DEF RenameText, OpenOK, SwapSteps, StepOK, RecordSteps
    <2> QED
      BY <1>14, <2>1 DEF RenameText
  <1>15. CASE Reopen
    BY <1>15 DEF Reopen, Ready, Idle, OpenOK
  <1>16. CASE CopyFails
    BY <1>16 DEF CopyFails, Ready, Idle, OpenOK
  <1>17. CASE SwapFails
    <2>1. is_open' = FALSE /\ step'.at = "idle"
      BY <1>17 DEF SwapFails, OpenOK, SwapSteps, Idle
    <2> QED
      BY <1>17, <2>1 DEF SwapFails
  <1>a. CASE WriteFails
    <2>1. step'.at = "idle" /\ step.at \in {"write_record", "delete_text"}
      BY <1>a DEF WriteFails, Idle
    <2> QED
      BY <1>a, <2>1 DEF WriteFails, OpenOK, RecordSteps
  <1>b. CASE HeaderFails
    <2>1. header = entry_file.header /\ header \in Header
      BY <1>b DEF HeaderFails, OpenOK, RecordSteps, FilesOK
    <2>2. Covered(header', entry_file.recs) /\ header'.total = header.total + 1
      BY <1>b, <2>1, HeaderGrows DEF HeaderFails
    <2>3. step'.at = "retry_header"
      BY <1>b DEF HeaderFails, StepOK, RecordSteps, SwapSteps
    <2> QED
      BY <1>b, <2>1, <2>2, <2>3 DEF HeaderFails
  <1>c. CASE RetryHeader
    <2>1. Covered(header, entry_file.recs)
      BY <1>c DEF RetryHeader
    <2>2. entry_file'.header = header' /\ entry_file'.recs = entry_file.recs
      BY <1>c DEF RetryHeader, FilesOK
    <2> QED
      BY <1>c, <2>1, <2>2 DEF RetryHeader, Idle
  <1>18. CASE Crash
    BY <1>18 DEF Crash, Ready, Idle, OpenOK
  <1>19. CASE OpenFiles
    BY <1>19 DEF OpenFiles, Ready, Idle, OpenOK
  <1>20. CASE CreateEntryFile
    <2>1. is_open' = FALSE /\ step'.at = "create_text"
      BY <1>20 DEF CreateEntryFile, OpenOK
    <2> QED
      BY <1>20, <2>1, EmptyFacts DEF CreateEntryFile
  <1>21. CASE CreateTextFile
    BY <1>21 DEF CreateTextFile, Ready, Idle, OpenOK
  <1>22. CASE RefuseToStart
    BY <1>22 DEF RefuseToStart, Ready, Idle, OpenOK
  <1> QED
    BY <1>1, <1>2, <1>3, <1>4, <1>5, <1>6, <1>7, <1>8, <1>9, <1>10, <1>11, <1>12, <1>13, <1>14, <1>15, <1>16, <1>17, <1>a, <1>b, <1>c, <1>18, <1>19, <1>20, <1>21, <1>22 DEF Next

\* What is visible on disk is counted.
LEMMA CoveredMeansCounted == IInv => NeverUndercount
  <1> SUFFICES ASSUME IInv PROVE NeverUndercount
    OBVIOUS
  <1> DEFINE h == entry_file.header
             recs == entry_file.recs
  <1>1. h \in Header /\ Flags(recs) /\ Covered(h, recs)
    BY DEF IInv, FilesOK, CountOK
  <1> HIDE DEF h, recs
  <1>2. Flagged(h, recs) \subseteq Visible(h, recs)
    <2>1. Len(recs) \in Nat
      BY <1>1 DEF Flags
    <2> QED
      BY <1>1, <2>1 DEF Flagged, Visible, Header
  <1>3. Cardinality(Flagged(h, recs)) \in Nat /\ Cardinality(Flagged(h, recs)) <= Cardinality(Visible(h, recs))
    BY <1>1, <1>2, VisibleFinite, FS_Subset, FS_CardinalityType
  <1>4. Cardinality(Flagged(h, recs)) <= h.live
    BY <1>1, <1>3, VisibleFinite DEF Covered, Header
  <1> QED
    BY <1>4 DEF NeverUndercount, h, recs

-----------------------------------------------------------------------------
(* The theorems.                                                           *)

LEMMA Inductive == Spec => []IInv
  <1>1. IInv /\ [Next]_vars => IInv'
    BY FilesStep, StepStep, OpenStep, CountStep DEF IInv
  <1> QED
    BY InitHolds, <1>1, PTL DEF Spec

\* Between two calls the header in RAM is the one on disk, whichever calls
\* failed and wherever the process was killed before.
THEOREM HeaderFlushed == Spec => []HeaderIsFlushed
  <1>1. IInv => HeaderIsFlushed
    BY DEF IInv, CountOK, HeaderIsFlushed, Ready, Idle
  <1> QED
    BY Inductive, <1>1, PTL

\* Wherever the process is killed, the header on disk does not count fewer live
\* records than it makes visible.
THEOREM NoUndercount == Spec => []NeverUndercount
  BY Inductive, CoveredMeansCounted, PTL

-----------------------------------------------------------------------------
(* What compact computes.  Its two recursive functions are defined by a    *)
(* CHOOSE; that there is something to choose is shown by a least           *)
(* counterexample.                                                         *)

\* The running sum of w, with one more in every step, exists.
LEMMA OffsetsExist ==
    ASSUME NEW n \in Nat, NEW w \in [1 .. n -> Nat]
    PROVE  \E f \in [1 .. n -> Nat] :
               \A j \in 1 .. n : f[j] = IF j = 1 THEN 0 ELSE f[j - 1] + 1 + w[j - 1]
  <1> DEFINE Fits(f, m) ==
               /\ f \in [1 .. m -> Nat]
               /\ \A j \in 1 .. m : f[j] = IF j = 1 THEN 0 ELSE f[j - 1] + 1 + w[j - 1]
             T == {m \in 0 .. n : ~ \E f : Fits(f, m)}
  <1>1. ASSUME T # {} PROVE FALSE
    <2>0. T \in SUBSET Nat
      OBVIOUS
    <2>1. PICK m \in T : \A i \in T : m <= i
      <3> HIDE DEF T
      <3> QED
        BY <1>1, <2>0, LeastElement
    <2>2. m # 0
      <3>1. Fits([j \in 1 .. 0 |-> 0], 0)
        OBVIOUS
      <3> HIDE DEF Fits
      <3> QED
        BY <3>1
    <2>3. m - 1 \in 0 .. n /\ m - 1 \notin T /\ m \in Nat /\ m \in 1 .. n
      <3>1. m \in 0 .. n
        OBVIOUS
      <3> HIDE DEF T
      <3> QED
        BY <2>1, <2>2, <3>1
    <2>4. PICK f : Fits(f, m - 1)
      BY <2>3
    <2> DEFINE last == IF m = 1 THEN 0 ELSE f[m - 1] + 1 + w[m - 1]
               g == [j \in 1 .. m |-> IF j = m THEN last ELSE f[j]]
    <2>5. last \in Nat
      BY <2>3, <2>4
    <2> HIDE DEF last
    <2>6. \A j \in 1 .. m : j # m => j \in 1 .. m - 1
      BY <2>3
    <2>7. g \in [1 .. m -> Nat]
      BY <2>4, <2>5, <2>6
    <2>8. \A j \in 1 .. m : g[j] = IF j = 1 THEN 0 ELSE g[j - 1] + 1 + w[j - 1]
      <3> SUFFICES ASSUME NEW j \in 1 .. m
                   PROVE  g[j] = IF j = 1 THEN 0 ELSE g[j - 1] + 1 + w[j - 1]
        OBVIOUS
      <3>1. j # 1 => j - 1 \in 1 .. m /\ j - 1 # m /\ g[j - 1] = f[j - 1]
        BY <2>3
      <3>2. CASE j = m
        BY <3>1, <3>2 DEF last
      <3>3. CASE j # m
        BY <2>4, <2>6, <3>1, <3>3
      <3> QED
        BY <3>2, <3>3
    <2>9. Fits(g, m)
      BY <2>7, <2>8
    <2> HIDE DEF Fits, g
    <2> QED
      BY <2>1, <2>9
  <1>2. n \in 0 .. n
    OBVIOUS
  <1>3. \E f : Fits(f, n)
    BY <1>1, <1>2
  <1> QED
    BY <1>3

\* NewOffset is that sum: the first text starts the file, every other one
\* follows the text before it.
LEMMA NewOffsetIs ==
    ASSUME NEW rs \in Seq(Record), NEW k \in 1 .. Len(rs)
    PROVE  /\ NewOffset(rs, k) \in Nat
           /\ NewOffset(rs, k) = IF k = 1 THEN 0 ELSE NewOffset(rs, k - 1) + 1 + rs[k - 1].len
  <1> DEFINE n == Len(rs)
             w == [j \in 1 .. n |-> rs[j].len]
             Def(f) == f = [j \in 1 .. n |-> IF j = 1 THEN 0 ELSE f[j - 1] + 1 + rs[j - 1].len]
             off == CHOOSE f : Def(f)
  <1>1. n \in Nat /\ \A j \in 1 .. n : rs[j] \in Record
    OBVIOUS
  <1>2. w \in [1 .. n -> Nat]
    BY <1>1 DEF Record
  <1>3. PICK f \in [1 .. n -> Nat] :
            \A j \in 1 .. n : f[j] = IF j = 1 THEN 0 ELSE f[j - 1] + 1 + w[j - 1]
    <2> HIDE DEF w
    <2> QED
      BY <1>1, <1>2, OffsetsExist
  <1>4. \A j \in 1 .. n : j # 1 => j - 1 \in 1 .. n
    BY <1>1
  <1>5. Def(f)
    BY <1>3, <1>4
  <1>6. Def(off)
    <2> HIDE DEF Def
    <2> QED
      BY <1>5
  <1>7. \A j \in 1 .. n : NewOffset(rs, j) = off[j]
    BY DEF NewOffset
  <1> HIDE DEF off
  <1>8. \A j \in 1 .. n : off[j] = IF j = 1 THEN 0 ELSE off[j - 1] + 1 + rs[j - 1].len
    BY <1>6
  <1>9. \A j \in 1 .. n : off[j] \in Nat
    <2> DEFINE T == {j \in 1 .. n : off[j] \notin Nat}
    <2>1. ASSUME T # {} PROVE FALSE
      <3>0. T \in SUBSET Nat
        BY <1>1
      <3>1. PICK m \in T : \A i \in T : m <= i
        <4> HIDE DEF T
        <4> QED
          BY <2>1, <3>0, LeastElement
      <3>2. m # 1
        BY <1>8, <3>1
      <3>3. m - 1 \in 1 .. n /\ m - 1 \notin T
        BY <1>1, <3>1, <3>2
      <3>4. off[m - 1] \in Nat /\ rs[m - 1].len \in Nat
        BY <1>1, <3>3 DEF Record
      <3> QED
        BY <1>8, <3>1, <3>2, <3>4
    <2> QED
      BY <2>1
  <1> QED
    BY <1>4, <1>7, <1>8, <1>9

\* So does the concatenation of texts, each behind a flag.
LEMMA CellsExist ==
    ASSUME NEW n \in Nat, NEW t \in [1 .. n -> Seq(Cell)]
    PROVE  \E f \in [0 .. n -> Seq(Cell)] :
               \A j \in 0 .. n : f[j] = IF j = 0 THEN <<>> ELSE f[j - 1] \o <<1>> \o t[j]
  <1> DEFINE Fits(f, m) ==
               /\ f \in [0 .. m -> Seq(Cell)]
               /\ \A j \in 0 .. m : f[j] = IF j = 0 THEN <<>> ELSE f[j - 1] \o <<1>> \o t[j]
             T == {m \in 0 .. n : ~ \E f : Fits(f, m)}
  <1>1. ASSUME T # {} PROVE FALSE
    <2>0. T \in SUBSET Nat
      OBVIOUS
    <2>1. PICK m \in T : \A i \in T : m <= i
      <3> HIDE DEF T
      <3> QED
        BY <1>1, <2>0, LeastElement
    <2>2. m # 0
      <3>1. Fits([j \in 0 .. 0 |-> <<>>], 0)
        OBVIOUS
      <3> HIDE DEF Fits
      <3> QED
        BY <3>1
    <2>3. m - 1 \in 0 .. n /\ m - 1 \notin T /\ m \in Nat /\ m \in 1 .. n
      <3>1. m \in 0 .. n
        OBVIOUS
      <3> HIDE DEF T
      <3> QED
        BY <2>1, <2>2, <3>1
    <2>4. PICK f : Fits(f, m - 1)
      BY <2>3
    <2> DEFINE last == f[m - 1] \o <<1>> \o t[m]
               g == [j \in 0 .. m |-> IF j = m THEN last ELSE f[j]]
    <2>5. last \in Seq(Cell)
      <3>1. f[m - 1] \in Seq(Cell) /\ t[m] \in Seq(Cell)
        BY <2>3, <2>4
      <3>2. <<1>> \in Seq(Cell)
        BY DEF Cell
      <3> HIDE DEF Fits, T
      <3> QED
        BY <3>1, <3>2
    <2> HIDE DEF last
    <2>6. \A j \in 0 .. m : j # m => j \in 0 .. m - 1
      BY <2>3
    <2>7. g \in [0 .. m -> Seq(Cell)]
      BY <2>4, <2>5, <2>6
    <2>8. \A j \in 0 .. m : g[j] = IF j = 0 THEN <<>> ELSE g[j - 1] \o <<1>> \o t[j]
      <3> SUFFICES ASSUME NEW j \in 0 .. m
                   PROVE  g[j] = IF j = 0 THEN <<>> ELSE g[j - 1] \o <<1>> \o t[j]
        OBVIOUS
      <3>1. j # 0 => j - 1 \in 0 .. m /\ j - 1 # m /\ g[j - 1] = f[j - 1]
        BY <2>3
      <3>2. CASE j = m
        BY <2>2, <3>1, <3>2 DEF last
      <3>3. CASE j # m
        BY <2>4, <2>6, <3>1, <3>3
      <3> QED
        BY <3>2, <3>3
    <2>9. Fits(g, m)
      BY <2>7, <2>8
    <2> HIDE DEF Fits, g
    <2> QED
      BY <2>1, <2>9
  <1>2. n \in 0 .. n
    OBVIOUS
  <1>3. \E f : Fits(f, n)
    BY <1>1, <1>2
  <1> QED
    BY <1>3

-----------------------------------------------------------------------------
(* Texts in a text file.                                                   *)

\* tg holds the text t behind a live flag at place.
Placed(tg, place, t) ==
    /\ place + 1 + Len(t) <= Len(tg)
    /\ tg[place + 1] = 1
    /\ \A i \in 1 .. Len(t) : tg[place + 1 + i] = t[i]

\* What read_text returns.
LEMMA TextAt ==
    ASSUME NEW tf \in Seq(Cell), NEW off \in Nat, NEW len \in Nat, off + 1 + len <= Len(tf)
    PROVE  /\ text_at(tf, off, len) \in Seq(Cell)
           /\ Len(text_at(tf, off, len)) = len
           /\ \A i \in 1 .. len : text_at(tf, off, len)[i] = tf[off + 1 + i]
  <1>1. text_at(tf, off, len) = [i \in 1 .. len |-> tf[off + 1 + i]]
    <2>1. text_at(tf, off, len) = [i \in 1 .. (off + 1 + len) - (off + 2) + 1 |-> tf[i + (off + 2) - 1]]
      BY DEF text_at
    <2>2. (off + 1 + len) - (off + 2) + 1 = len /\ \A i \in Int : i + (off + 2) - 1 = off + 1 + i
      OBVIOUS
    <2> QED
      BY <2>1, <2>2
  <1>2. \A i \in 1 .. len : tf[off + 1 + i] \in Cell
    OBVIOUS
  <1> QED
    BY <1>1, <1>2

\* A text that was placed is read back.
LEMMA PlacedText ==
    ASSUME NEW tg \in Seq(Cell), NEW place \in Nat, NEW t \in Seq(Cell), Placed(tg, place, t)
    PROVE  text_readable(tg, place, Len(t)) /\ text_at(tg, place, Len(t)) = t
  <1>1. Len(t) \in Nat /\ place + 1 + Len(t) <= Len(tg) /\ tg[place + 1] = 1
    BY DEF Placed
  <1>2. /\ text_at(tg, place, Len(t)) \in Seq(Cell)
        /\ Len(text_at(tg, place, Len(t))) = Len(t)
        /\ \A i \in 1 .. Len(t) : text_at(tg, place, Len(t))[i] = tg[place + 1 + i]
    BY <1>1, TextAt
  <1>3. text_at(tg, place, Len(t)) = t
    BY <1>2 DEF Placed
  <1> QED
    BY <1>1, <1>3 DEF text_readable

\* It stays where it is when the file grows.
LEMMA PlacedLonger ==
    ASSUME NEW tg \in Seq(Cell), NEW place \in Nat, NEW t \in Seq(Cell), Placed(tg, place, t),
           NEW more \in Seq(Cell)
    PROVE  Placed(tg \o more, place, t)
  <1>1. Len(tg \o more) = Len(tg) + Len(more) /\ Len(tg) \in Nat /\ Len(more) \in Nat /\ Len(t) \in Nat
    OBVIOUS
  <1>2. \A i \in 1 .. Len(tg) : (tg \o more)[i] = tg[i]
    OBVIOUS
  <1> QED
    BY <1>1, <1>2 DEF Placed

\* A text that is appended behind a flag is placed.
LEMMA PlacedEnd ==
    ASSUME NEW tg \in Seq(Cell), NEW t \in Seq(Cell)
    PROVE  /\ tg \o <<1>> \o t \in Seq(Cell)
           /\ Len(tg \o <<1>> \o t) = Len(tg) + 1 + Len(t)
           /\ tg \o (<<1>> \o t) = tg \o <<1>> \o t
           /\ Placed(tg \o <<1>> \o t, Len(tg), t)
  <1>1. <<1>> \in Seq(Cell) /\ Len(<<1>>) = 1 /\ <<1>>[1] = 1
    BY DEF Cell
  <1> DEFINE u == tg \o <<1>>
  <1>2. /\ u \in Seq(Cell) /\ Len(u) = Len(tg) + 1 /\ u[Len(tg) + 1] = 1
    BY <1>1
  <1>3. tg \o (<<1>> \o t) = u \o t
    BY <1>1, ConcatAssociative
  <1> HIDE DEF u
  <1>4. /\ u \o t \in Seq(Cell) /\ Len(u \o t) = Len(u) + Len(t)
        /\ \A i \in 1 .. Len(u) : (u \o t)[i] = u[i]
        /\ \A i \in 1 .. Len(t) : (u \o t)[Len(u) + i] = t[i]
    BY <1>2
  <1>5. Len(tg) \in Nat /\ Len(t) \in Nat
    OBVIOUS
  <1>6. Placed(u \o t, Len(tg), t)
    BY <1>2, <1>4, <1>5 DEF Placed
  <1> QED
    BY <1>2, <1>3, <1>4, <1>5, <1>6 DEF u

\* compact gives every text it copies a place at the new offset of its record.
LEMMA NewTextIs ==
    ASSUME NEW rs \in Seq(Record), NEW tf \in Seq(Cell),
           \A k \in 1 .. Len(rs) : text_readable(tf, rs[k].off, rs[k].len)
    PROVE  /\ NewText(rs, tf) \in Seq(Cell)
           /\ \A k \in 1 .. Len(rs) :
                Placed(NewText(rs, tf), NewOffset(rs, k), text_at(tf, rs[k].off, rs[k].len))
  <1> DEFINE n == Len(rs)
             t == [k \in 1 .. n |-> text_at(tf, rs[k].off, rs[k].len)]
             Def(f) == f = [k \in 0 .. n |-> IF k = 0 THEN <<>>
                                ELSE f[k - 1] \o <<1>> \o text_at(tf, rs[k].off, rs[k].len)]
             cells == CHOOSE f : Def(f)
  <1>1. n \in Nat /\ \A k \in 1 .. n : rs[k].off \in Nat /\ rs[k].len \in Nat
    <2>1. n \in Nat /\ \A k \in 1 .. n : rs[k] \in Record
      OBVIOUS
    <2> QED
      BY <2>1 DEF Record
  <1>2. \A k \in 1 .. n : t[k] \in Seq(Cell) /\ Len(t[k]) = rs[k].len
    BY <1>1, TextAt DEF text_readable
  <1>3. t \in [1 .. n -> Seq(Cell)]
    BY <1>2
  <1>4. PICK f \in [0 .. n -> Seq(Cell)] :
            \A j \in 0 .. n : f[j] = IF j = 0 THEN <<>> ELSE f[j - 1] \o <<1>> \o t[j]
    <2> HIDE DEF t
    <2> QED
      BY <1>1, <1>3, CellsExist
  <1>5. \A j \in 0 .. n : j # 0 => j \in 1 .. n /\ j - 1 \in 0 .. n
    BY <1>1
  <1>6. Def(f)
    BY <1>4, <1>5
  <1>7. Def(cells)
    <2> HIDE DEF Def
    <2> QED
      BY <1>6
  <1>8. NewText(rs, tf) = cells[n]
    BY DEF NewText
  <1> HIDE DEF cells
  <1>9. /\ cells[0] = <<>>
        /\ \A j \in 1 .. n : cells[j] = cells[j - 1] \o <<1>> \o t[j]
    <2>1. 0 \in 0 .. n /\ \A j \in 1 .. n : j \in 0 .. n /\ j # 0
      BY <1>1
    <2>2. cells[0] = <<>>
      BY <1>7, <2>1
    <2>3. \A j \in 1 .. n : cells[j] = cells[j - 1] \o <<1>> \o t[j]
      BY <1>7, <2>1
    <2> QED
      BY <2>2, <2>3
  <1> DEFINE Good(m) == /\ cells[m] \in Seq(Cell)
                        /\ Len(cells[m]) = IF m = 0 THEN 0 ELSE NewOffset(rs, m) + 1 + Len(t[m])
                        /\ \A k \in 1 .. m : Placed(cells[m], NewOffset(rs, k), t[k])
  <1>10. Good(0)
    <2>1. <<>> \in Seq(Cell) /\ Len(<<>>) = 0 /\ \A k : k \notin 1 .. 0
      OBVIOUS
    <2> HIDE DEF t
    <2> QED
      BY <1>9, <2>1
  <1>11. ASSUME NEW m \in 1 .. n, Good(m - 1)
         PROVE  Good(m)
    <2>1. m \in Nat /\ m - 1 \in Nat /\ m - 1 \in 0 .. n /\ (m # 1 => m - 1 \in 1 .. n)
      BY <1>1
    <2>2. /\ \A k \in 1 .. m : NewOffset(rs, k) \in Nat
          /\ NewOffset(rs, m) = Len(cells[m - 1])
      <3>1. \A k \in 1 .. n : NewOffset(rs, k) \in Nat
        BY NewOffsetIs
      <3>2. NewOffset(rs, m) = IF m = 1 THEN 0 ELSE NewOffset(rs, m - 1) + 1 + rs[m - 1].len
        BY NewOffsetIs
      <3>3. m # 1 => Len(t[m - 1]) = rs[m - 1].len
        BY <1>2, <2>1
      <3>4. Len(cells[m - 1]) = IF m - 1 = 0 THEN 0 ELSE NewOffset(rs, m - 1) + 1 + Len(t[m - 1])
        BY <1>11
      <3>5. \A k \in 1 .. m : k \in 1 .. n
        BY <1>1
      <3> HIDE DEF t, Good
      <3> QED
        BY <2>1, <3>1, <3>2, <3>3, <3>4, <3>5
    <2>3. /\ cells[m - 1] \in Seq(Cell)
          /\ \A k \in 1 .. m - 1 : Placed(cells[m - 1], NewOffset(rs, k), t[k])
      BY <1>11
    <2>4. t[m] \in Seq(Cell) /\ \A k \in 1 .. m : t[k] \in Seq(Cell)
      BY <1>1, <1>2
    <2>5. cells[m] = cells[m - 1] \o <<1>> \o t[m]
      BY <1>9
    <2> HIDE DEF t, n, Good
    <2>6. /\ cells[m] \in Seq(Cell)
          /\ Len(cells[m]) = Len(cells[m - 1]) + 1 + Len(t[m])
          /\ cells[m] = cells[m - 1] \o (<<1>> \o t[m])
          /\ Placed(cells[m], NewOffset(rs, m), t[m])
      <3>1. cells[m - 1] \in Seq(Cell) /\ t[m] \in Seq(Cell) /\ NewOffset(rs, m) = Len(cells[m - 1])
        BY <2>2, <2>3, <2>4
      <3>2. ASSUME NEW c \in Seq(Cell), NEW u \in Seq(Cell)
            PROVE  /\ c \o <<1>> \o u \in Seq(Cell)
                   /\ Len(c \o <<1>> \o u) = Len(c) + 1 + Len(u)
                   /\ c \o <<1>> \o u = c \o (<<1>> \o u)
                   /\ Placed(c \o <<1>> \o u, Len(c), u)
        BY PlacedEnd
      <3>3. /\ cells[m - 1] \o <<1>> \o t[m] \in Seq(Cell)
            /\ Len(cells[m - 1] \o <<1>> \o t[m]) = Len(cells[m - 1]) + 1 + Len(t[m])
            /\ cells[m - 1] \o <<1>> \o t[m] = cells[m - 1] \o (<<1>> \o t[m])
            /\ Placed(cells[m - 1] \o <<1>> \o t[m], Len(cells[m - 1]), t[m])
        BY <3>1, <3>2, Zenon
      <3>4. Len(cells[m]) = Len(cells[m - 1]) + 1 + Len(t[m])
        BY <2>5, <3>3
      <3> QED
        BY <2>5, <3>1, <3>3, <3>4, Zenon
    <2>7. <<1>> \o t[m] \in Seq(Cell)
      <3>1. <<1>> \in Seq(Cell)
        BY DEF Cell
      <3> QED
        BY <2>4, <3>1
    <2>8. \A k \in 1 .. m - 1 : Placed(cells[m], NewOffset(rs, k), t[k])
      <3> SUFFICES ASSUME NEW k \in 1 .. m - 1
                   PROVE  Placed(cells[m], NewOffset(rs, k), t[k])
        OBVIOUS
      <3>1. k \in 1 .. m
        BY <2>1
      <3> QED
        BY <2>2, <2>3, <2>4, <2>6, <2>7, <3>1, PlacedLonger
    <2>9. \A k \in 1 .. m : k = m \/ k \in 1 .. m - 1
      BY <2>1
    <2>10. \A k \in 1 .. m : Placed(cells[m], NewOffset(rs, k), t[k])
      BY <2>6, <2>8, <2>9
    <2>11. m # 0
      BY <2>1
    <2> QED
      BY <2>2, <2>6, <2>10, <2>11 DEF Good
  <1>12. \A m \in 0 .. n : Good(m)
    <2> DEFINE T == {m \in 0 .. n : ~Good(m)}
    <2> HIDE DEF Good
    <2>1. ASSUME T # {} PROVE FALSE
      <3>0. T \in SUBSET Nat
        BY <1>1
      <3>1. PICK m \in T : \A i \in T : m <= i
        <4> HIDE DEF T
        <4> QED
          BY <2>1, <3>0, LeastElement
      <3>2. m \in 0 .. n /\ m # 0
        BY <1>10
      <3>3. m \in 1 .. n /\ m - 1 \in 0 .. n /\ m - 1 \notin T
        <4> HIDE DEF T
        <4> QED
          BY <1>1, <3>0, <3>1, <3>2
      <3>4. Good(m - 1)
        BY <3>3
      <3> QED
        BY <1>11, <3>1, <3>3, <3>4
    <2> QED
      BY <2>1
  <1>13. Good(n)
    <2>1. n \in 0 .. n
      BY <1>1
    <2> HIDE DEF Good
    <2> QED
      BY <1>12, <2>1
  <1> QED
    BY <1>8, <1>13

-----------------------------------------------------------------------------
(* What a loop of read_entry delivers.                                     *)

\* Every member of a set of n numbers has its turn.
LEMMA NthOf ==
    ASSUME NEW n \in Nat, NEW S \in SUBSET (0 .. n - 1), NEW i \in S
    PROVE  LET k == Cardinality({j \in S : j < i}) + 1
           IN  k \in 1 .. Cardinality(S) /\ Nth(S, k) = i
  <1> DEFINE Below(m) == {j \in S : j < m}
             rank(m) == Cardinality(Below(m))
             k == rank(i) + 1
  <1>1. IsFiniteSet(S) /\ Cardinality(S) \in Nat /\ \A j \in S : j \in Nat
    <2>1. IsFiniteSet(0 .. n - 1)
      BY FS_Interval
    <2>2. IsFiniteSet(S)
      BY <2>1, FS_Subset
    <2> QED
      BY <2>2, FS_CardinalityType
  <1>2. \A m \in S : IsFiniteSet(Below(m)) /\ rank(m) \in Nat
    <2> SUFFICES ASSUME NEW m \in S
                 PROVE  IsFiniteSet(Below(m)) /\ rank(m) \in Nat
      OBVIOUS
    <2>1. Below(m) \in SUBSET S
      OBVIOUS
    <2> HIDE DEF Below
    <2> QED
      BY <1>1, <2>1, FS_Subset, FS_CardinalityType
  <1>3. ASSUME NEW m \in S, NEW T, IsFiniteSet(T), Below(m) \union {m} \subseteq T
        PROVE  rank(m) + 1 <= Cardinality(T)
    <2>1. m \notin Below(m) /\ IsFiniteSet(Below(m)) /\ rank(m) \in Nat
      BY <1>1, <1>2
    <2> HIDE DEF Below
    <2>2. Cardinality(Below(m) \union {m}) = rank(m) + 1
      BY <2>1, FS_AddElement
    <2>3. Cardinality(Below(m) \union {m}) <= Cardinality(T)
      BY <1>3, FS_Subset
    <2> QED
      BY <2>2, <2>3
  <1>4. rank(i) + 1 <= Cardinality(S)
    <2>1. Below(i) \union {i} \subseteq S
      OBVIOUS
    <2> HIDE DEF rank, Below
    <2> QED
      BY <1>1, <1>3, <2>1
  <1>5. ASSUME NEW a \in S, NEW b \in S, a < b
        PROVE  rank(a) + 1 <= rank(b)
    <2>1. Below(a) \union {a} \subseteq Below(b)
      <3>1. a \in Nat /\ b \in Nat /\ \A j \in S : j \in Nat /\ (j < a => j < b)
        BY <1>1, <1>5
      <3> QED
        BY <1>5, <3>1
    <2>2. IsFiniteSet(Below(b))
      BY <1>2
    <2>3. rank(a) + 1 <= Cardinality(Below(b))
      <3> HIDE DEF rank, Below
      <3> QED
        BY <1>3, <2>1, <2>2
    <2> QED
      BY <2>3
  <1> HIDE DEF rank
  <1>6. rank(i) \in Nat /\ k \in 1 .. Cardinality(S) /\ k - 1 = rank(i)
    <2>1. rank(i) \in Nat /\ Cardinality(S) \in Nat /\ rank(i) + 1 <= Cardinality(S)
      BY <1>1, <1>2, <1>4
    <2> QED
      BY <2>1
  <1>7. Nth(S, k) \in S /\ rank(Nth(S, k)) = k - 1
    <2> HIDE DEF k
    <2> QED
      BY <1>6, NthExists DEF rank
  <1> HIDE DEF k
  <1>8. Nth(S, k) = i
    <2> DEFINE m == Nth(S, k)
    <2>1. m \in S /\ m \in Nat /\ i \in Nat /\ rank(m) = rank(i) /\ rank(m) \in Nat
      BY <1>1, <1>2, <1>6, <1>7
    <2> HIDE DEF m
    <2> QED
      BY <1>5, <2>1 DEF m
  <1> QED
    BY <1>6, <1>8 DEF k, rank

\* All of them, in order.
LEMMA NthOfAll ==
    ASSUME NEW n \in Nat
    PROVE  /\ Cardinality(0 .. n - 1) = n
           /\ \A k \in 1 .. n : Nth(0 .. n - 1, k) = k - 1
  <1>1. \A m \in Nat : Cardinality(0 .. m - 1) = m
    <2> SUFFICES ASSUME NEW m \in Nat
                 PROVE  Cardinality(0 .. m - 1) = m
      OBVIOUS
    <2>1. 0 \in Int /\ m - 1 \in Int
      OBVIOUS
    <2>2. Cardinality(0 .. m - 1) = IF 0 > m - 1 THEN 0 ELSE (m - 1) - 0 + 1
      BY <2>1, FS_Interval
    <2> QED
      BY <2>2
  <1>2. ASSUME NEW k \in 1 .. n
        PROVE  Nth(0 .. n - 1, k) = k - 1
    <2>1. k - 1 \in 0 .. n - 1 /\ k - 1 \in Nat
      OBVIOUS
    <2> DEFINE Below == {j \in 0 .. n - 1 : j < k - 1}
    <2>2. Below = 0 .. (k - 1) - 1
      OBVIOUS
    <2>3. Cardinality(Below) + 1 = k
      <3> HIDE DEF Below
      <3>1. Cardinality(0 .. (k - 1) - 1) = k - 1
        BY <1>1, <2>1
      <3> QED
        BY <2>1, <2>2, <3>1
    <2>4. Nth(0 .. n - 1, Cardinality(Below) + 1) = k - 1
      BY <2>1, NthOf
    <2> HIDE DEF Below
    <2> QED
      BY <2>3, <2>4
  <1> QED
    BY <1>1, <1>2

\* The turns are in order.
LEMMA NthOrder ==
    ASSUME NEW n \in Nat, NEW S \in SUBSET (0 .. n - 1),
           NEW j \in 1 .. Cardinality(S), NEW k \in 1 .. Cardinality(S), j < k
    PROVE  Nth(S, j) < Nth(S, k)
  <1> DEFINE Below(m) == {i \in S : i < m}
             x == Nth(S, j)
             y == Nth(S, k)
  <1>1. x \in S /\ Cardinality(Below(x)) = j - 1
    BY NthExists
  <1>2. y \in S /\ Cardinality(Below(y)) = k - 1
    BY NthExists
  <1> HIDE DEF x, y
  <1>3. IsFiniteSet(S) /\ Cardinality(S) \in Nat /\ x \in Nat /\ y \in Nat /\ \A i \in S : i \in Nat
    <2>1. IsFiniteSet(0 .. n - 1)
      BY FS_Interval
    <2>2. IsFiniteSet(S)
      BY <2>1, FS_Subset
    <2> QED
      BY <1>1, <1>2, <2>2, FS_CardinalityType
  <1>4. ASSUME ~(x < y) PROVE FALSE
    <2>1. \A i \in S : i < y => i < x
      BY <1>3, <1>4
    <2>2. Below(y) \subseteq Below(x)
      BY <2>1
    <2>3. IsFiniteSet(Below(x))
      BY <1>3, FS_Subset
    <2> HIDE DEF Below
    <2>4. Cardinality(Below(y)) <= Cardinality(Below(x))
      BY <2>2, <2>3, FS_Subset
    <2> QED
      BY <1>1, <1>2, <1>3, <2>4
  <1> QED
    BY <1>4 DEF x, y

\* A number above all others comes last.
LEMMA NthAdd ==
    ASSUME NEW n \in Nat, NEW S \in SUBSET (0 .. n - 1), NEW m \in Nat, \A i \in S : i < m
    PROVE  /\ Cardinality(S \union {m}) = Cardinality(S) + 1 /\ Cardinality(S) \in Nat
           /\ \A k \in 1 .. Cardinality(S) : Nth(S \union {m}, k) = Nth(S, k)
           /\ Nth(S \union {m}, Cardinality(S) + 1) = m
  <1> DEFINE T == S \union {m}
             q == IF n > m + 1 THEN n ELSE m + 1
  <1>1. IsFiniteSet(S) /\ Cardinality(S) \in Nat /\ \A i \in S : i \in Nat
    <2>1. IsFiniteSet(0 .. n - 1)
      BY FS_Interval
    <2>2. IsFiniteSet(S)
      BY <2>1, FS_Subset
    <2> QED
      BY <2>2, FS_CardinalityType
  <1>2. q \in Nat /\ T \in SUBSET (0 .. q - 1)
    OBVIOUS
  <1>3. m \notin S
    BY <1>1
  <1>4. Cardinality(T) = Cardinality(S) + 1
    BY <1>1, <1>3, FS_AddElement
  <1>5. ASSUME NEW k \in 1 .. Cardinality(S)
        PROVE  Nth(T, k) = Nth(S, k)
    <2> DEFINE x == Nth(S, k)
    <2>1. x \in S /\ Cardinality({j \in S : j < x}) = k - 1
      BY NthExists
    <2> HIDE DEF x
    <2>2. x \in T /\ x \in Nat /\ x < m
      BY <1>1, <2>1
    <2>3. {j \in T : j < x} = {j \in S : j < x}
      <3>1. ~(m < x)
        BY <2>2
      <3> QED
        BY <3>1
    <2>4. Nth(T, Cardinality({j \in T : j < x}) + 1) = x
      <3> HIDE DEF T, q
      <3> QED
        BY <1>2, <2>2, NthOf
    <2>5. Cardinality({j \in T : j < x}) + 1 = k
      BY <1>1, <2>1, <2>3
    <2> QED
      BY <2>4, <2>5 DEF x
  <1>6. Nth(T, Cardinality(S) + 1) = m
    <2>1. {j \in T : j < m} = S
      <3>1. ~(m < m)
        OBVIOUS
      <3> QED
        BY <3>1
    <2>2. m \in T
      OBVIOUS
    <2>3. Nth(T, Cardinality({j \in T : j < m}) + 1) = m
      <3> HIDE DEF T, q
      <3> QED
        BY <1>2, <2>2, NthOf
    <2> QED
      BY <2>1, <2>3
  <1> QED
    BY <1>1, <1>4, <1>5, <1>6

\* Without one number those behind it move up.
LEMMA NthRemove ==
    ASSUME NEW n \in Nat, NEW S \in SUBSET (0 .. n - 1), NEW k \in 1 .. Cardinality(S)
    PROVE  LET T == S \ {Nth(S, k)}
           IN  /\ Cardinality(T) = Cardinality(S) - 1 /\ Cardinality(S) \in Nat
               /\ \A j \in 1 .. Cardinality(S) - 1 :
                    Nth(T, j) = IF j < k THEN Nth(S, j) ELSE Nth(S, j + 1)
  <1> DEFINE i == Nth(S, k)
             T == S \ {i}
  <1>1. IsFiniteSet(S) /\ Cardinality(S) \in Nat /\ \A j \in S : j \in Nat
    <2>1. IsFiniteSet(0 .. n - 1)
      BY FS_Interval
    <2>2. IsFiniteSet(S)
      BY <2>1, FS_Subset
    <2> QED
      BY <2>2, FS_CardinalityType
  <1>2. i \in S
    BY NthExists
  <1>3. Cardinality(T) = Cardinality(S) - 1
    <2> HIDE DEF i
    <2> QED
      BY <1>1, <1>2, FS_RemoveElement
  <1>4. ASSUME NEW j \in 1 .. Cardinality(S) - 1
        PROVE  Nth(T, j) = IF j < k THEN Nth(S, j) ELSE Nth(S, j + 1)
    <2> DEFINE l == IF j < k THEN j ELSE j + 1
               x == Nth(S, l)
    <2>1. l \in 1 .. Cardinality(S) /\ l # k /\ (j < k <=> l < k) /\ (l > k => l = j + 1) /\ (l < k => l = j)
      BY <1>1
    <2> HIDE DEF l
    <2>2. x \in S /\ Cardinality({y \in S : y < x}) = l - 1
      BY <2>1, NthExists
    <2>3. (l < k => x < i) /\ (k < l => i < x)
      BY <2>1, NthOrder
    <2> HIDE DEF x, i
    <2>4. x \in Nat /\ i \in Nat /\ x \in T
      BY <1>1, <1>2, <2>1, <2>2, <2>3
    <2> DEFINE A == {y \in S : y < x}
               B == {y \in T : y < x}
    <2>5. Cardinality(B) = j - 1
      <3>1. CASE l < k
        <4>1. A = B
          BY <2>3, <2>4, <3>1
        <4> QED
          BY <2>1, <2>2, <3>1, <4>1
      <3>2. CASE k < l
        <4>1. B = A \ {i} /\ i \in A
          BY <1>2, <2>3, <3>2
        <4>2. IsFiniteSet(A) /\ Cardinality(A) = l - 1
          BY <1>1, <2>2, FS_Subset
        <4> HIDE DEF A, B
        <4>3. Cardinality(A \ {i}) = Cardinality(A) - 1
          BY <4>1, <4>2, FS_RemoveElement
        <4> QED
          BY <1>1, <2>1, <3>2, <4>1, <4>2, <4>3
      <3> QED
        BY <1>1, <2>1, <3>1, <3>2
    <2>6. T \in SUBSET (0 .. n - 1)
      OBVIOUS
    <2>7. Nth(T, Cardinality(B) + 1) = x
      <3> HIDE DEF T
      <3> QED
        BY <2>4, <2>6, NthOf
    <2>8. Cardinality(B) + 1 = j
      <3> HIDE DEF B
      <3> QED
        BY <1>1, <2>5
    <2>9. Nth(T, j) = x
      <3> HIDE DEF B, T
      <3> QED
        BY <2>7, <2>8
    <2> QED
      BY <2>9 DEF x, l
  <1> QED
    BY <1>1, <1>3, <1>4

\* The records of the file that are readable, as many as there are.
LEMMA ReadAllIs ==
    ASSUME NEW h, NEW recs \in Seq(Record), NEW tf
    PROVE  /\ Readable(h, recs, tf) \in SUBSET (0 .. Len(recs) - 1)
           /\ ReadAll(h, recs, tf) \in Seq(Record)
           /\ Len(ReadAll(h, recs, tf)) = Cardinality(Readable(h, recs, tf))
           /\ Len(ReadAll(h, recs, tf)) \in Nat
           /\ DOMAIN ReadAll(h, recs, tf) = 1 .. Len(ReadAll(h, recs, tf))
           /\ \A k \in 1 .. Len(ReadAll(h, recs, tf)) :
                /\ Nth(Readable(h, recs, tf), k) \in Readable(h, recs, tf)
                /\ ReadAll(h, recs, tf)[k] = recs[Nth(Readable(h, recs, tf), k) + 1]
                /\ ReadAll(h, recs, tf)[k].flag = 1
                /\ text_readable(tf, ReadAll(h, recs, tf)[k].off, ReadAll(h, recs, tf)[k].len)
  <1> DEFINE S == Readable(h, recs, tf)
             rs == ReadAll(h, recs, tf)
  <1>1. Len(recs) \in Nat /\ S \in SUBSET (0 .. Len(recs) - 1)
    BY DEF Readable
  <1>2. Cardinality(S) \in Nat
    <2>1. IsFiniteSet(0 .. Len(recs) - 1)
      BY <1>1, FS_Interval
    <2>2. IsFiniteSet(S)
      BY <1>1, <2>1, FS_Subset
    <2> QED
      BY <2>2, FS_CardinalityType
  <1>3. \A k \in 1 .. Cardinality(S) : Nth(S, k) \in S
    <2> HIDE DEF S
    <2> QED
      BY <1>1, NthExists
  <1>4. rs = [k \in 1 .. Cardinality(S) |-> recs[Nth(S, k) + 1]]
    BY DEF ReadAll
  <1>5. \A i \in S : recs[i + 1].flag = 1 /\ text_readable(tf, recs[i + 1].off, recs[i + 1].len)
    BY DEF Readable, entry_readable
  <1> HIDE DEF S, rs
  <1>6. \A k \in 1 .. Cardinality(S) : recs[Nth(S, k) + 1] \in Record
    <2> SUFFICES ASSUME NEW k \in 1 .. Cardinality(S)
                 PROVE  recs[Nth(S, k) + 1] \in Record
      OBVIOUS
    <2>1. Nth(S, k) \in 0 .. Len(recs) - 1
      BY <1>1, <1>3
    <2>2. Nth(S, k) + 1 \in 1 .. Len(recs)
      BY <1>1, <2>1
    <2> QED
      BY <2>2
  <1>7. rs \in Seq(Record) /\ Len(rs) = Cardinality(S) /\ DOMAIN rs = 1 .. Cardinality(S)
    BY <1>2, <1>4, <1>6
  <1>8. ASSUME NEW k \in 1 .. Len(rs)
        PROVE  /\ Nth(S, k) \in S /\ rs[k] = recs[Nth(S, k) + 1] /\ rs[k].flag = 1
               /\ text_readable(tf, rs[k].off, rs[k].len)
    BY <1>3, <1>4, <1>5, <1>7
  <1> QED
    BY <1>1, <1>2, <1>7, <1>8 DEF S, rs

\* What compact writes is again a sequence of records.
LEMMA CopiedRecords ==
    ASSUME NEW rs \in Seq(Record)
    PROVE  LET new == [k \in DOMAIN rs |-> [rs[k] EXCEPT !.off = NewOffset(rs, k)]]
           IN  /\ new \in Seq(Record) /\ Len(new) = Len(rs)
               /\ \A k \in 1 .. Len(rs) :
                    /\ new[k].flag = rs[k].flag /\ new[k].id = rs[k].id
                    /\ new[k].val = rs[k].val /\ new[k].len = rs[k].len
                    /\ new[k].off = NewOffset(rs, k)
  <1> DEFINE new == [k \in DOMAIN rs |-> [rs[k] EXCEPT !.off = NewOffset(rs, k)]]
  <1>1. Len(rs) \in Nat /\ DOMAIN rs = 1 .. Len(rs) /\ \A k \in 1 .. Len(rs) : rs[k] \in Record
    OBVIOUS
  <1>2. ASSUME NEW k \in 1 .. Len(rs)
        PROVE  /\ new[k] \in Record
               /\ new[k].flag = rs[k].flag /\ new[k].id = rs[k].id
               /\ new[k].val = rs[k].val /\ new[k].len = rs[k].len
               /\ new[k].off = NewOffset(rs, k)
    <2>1. NewOffset(rs, k) \in Nat
      BY NewOffsetIs
    <2>2. new[k] = [rs[k] EXCEPT !.off = NewOffset(rs, k)]
      BY <1>1
    <2> HIDE DEF new
    <2> QED
      BY <1>1, <2>1, <2>2 DEF Record
  <1>3. new = [k \in 1 .. Len(rs) |-> new[k]]
    BY <1>1
  <1> HIDE DEF new
  <1>4. new \in Seq(Record) /\ Len(new) = Len(rs)
    BY <1>1, <1>2, <1>3
  <1> QED
    BY <1>2, <1>4 DEF new

Document == [id : Id, val : Val, text : Seq(Cell)]

\* The document of record i.
DocAt(recs, tf, i) ==
    [id |-> recs[i + 1].id, val |-> recs[i + 1].val,
     text |-> text_at(tf, recs[i + 1].off, recs[i + 1].len)]

\* The documents of a file are those of its readable records.
LEMMA ContentsIs ==
    ASSUME NEW h, NEW recs \in Seq(Record), NEW tf \in Seq(Cell)
    PROVE  /\ Readable(h, recs, tf) \in SUBSET (0 .. Len(recs) - 1)
           /\ Cardinality(Readable(h, recs, tf)) \in Nat /\ Len(recs) \in Nat
           /\ Contents(h, recs, tf) \in Seq(Document)
           /\ Len(Contents(h, recs, tf)) = Cardinality(Readable(h, recs, tf))
           /\ \A k \in 1 .. Cardinality(Readable(h, recs, tf)) :
                /\ Nth(Readable(h, recs, tf), k) \in Readable(h, recs, tf)
                /\ Contents(h, recs, tf)[k] = DocAt(recs, tf, Nth(Readable(h, recs, tf), k))
  <1> DEFINE S == Readable(h, recs, tf)
             C == Contents(h, recs, tf)
             rs == ReadAll(h, recs, tf)
  <1>1. /\ S \in SUBSET (0 .. Len(recs) - 1)
        /\ rs \in Seq(Record) /\ Len(rs) = Cardinality(S) /\ Len(rs) \in Nat
        /\ DOMAIN rs = 1 .. Len(rs)
    BY ReadAllIs
  <1>2. \A k \in 1 .. Len(rs) :
            /\ Nth(S, k) \in S
            /\ rs[k] = recs[Nth(S, k) + 1]
            /\ rs[k].flag = 1
            /\ text_readable(tf, rs[k].off, rs[k].len)
    BY ReadAllIs
  <1> DEFINE D(k) == [id |-> rs[k].id, val |-> rs[k].val, text |-> text_at(tf, rs[k].off, rs[k].len)]
  <1>3. C = [k \in DOMAIN rs |-> D(k)]
    BY DEF Contents
  <1>4. Len(recs) \in Nat
    OBVIOUS
  <1> HIDE DEF S, C, rs
  <1>5. ASSUME NEW k \in 1 .. Len(rs)
        PROVE  D(k) \in Document /\ D(k) = DocAt(recs, tf, Nth(S, k))
    <2>1. rs[k] \in Record
      BY <1>1
    <2>2. text_at(tf, rs[k].off, rs[k].len) \in Seq(Cell)
      BY <1>2, <2>1, TextAt DEF Record, text_readable
    <2>3. D(k) = DocAt(recs, tf, Nth(S, k))
      BY <1>2 DEF DocAt
    <2>4. rs[k].id \in Id /\ rs[k].val \in Val
      BY <2>1 DEF Record
    <2>5. D(k) \in Document
      BY <2>2, <2>4 DEF Document
    <2> QED
      BY <2>3, <2>5
  <1> HIDE DEF D
  <1>6. C \in Seq(Document) /\ Len(C) = Cardinality(S)
    <2> DEFINE n == Len(rs)
    <2>1. C = [k \in 1 .. n |-> D(k)] /\ n \in Nat /\ \A k \in 1 .. n : D(k) \in Document
      BY <1>1, <1>3, <1>5
    <2> HIDE DEF n
    <2>2. C \in Seq(Document) /\ Len(C) = n
      BY <2>1
    <2> QED
      BY <1>1, <2>2 DEF n
  <1>7. ASSUME NEW k \in 1 .. Cardinality(S)
        PROVE  Nth(S, k) \in S /\ C[k] = DocAt(recs, tf, Nth(S, k))
    BY <1>1, <1>2, <1>3, <1>5
  <1> QED
    BY <1>1, <1>4, <1>6, <1>7 DEF S, C

\* Sequences of documents that agree everywhere.
LEMMA SameDocs ==
    ASSUME NEW C \in Seq(Document), NEW E \in Seq(Document), Len(C) = Len(E),
           \A k \in 1 .. Len(C) : C[k] = E[k]
    PROVE  C = E
  BY SeqEqual

\* The same records and texts are the same documents.
LEMMA ContentsSame ==
    ASSUME NEW h, NEW recs \in Seq(Record), NEW tf \in Seq(Cell),
           NEW g, NEW news \in Seq(Record), NEW tg \in Seq(Cell),
           Readable(g, news, tg) = Readable(h, recs, tf),
           \A i \in Readable(h, recs, tf) : DocAt(news, tg, i) = DocAt(recs, tf, i)
    PROVE  Contents(g, news, tg) = Contents(h, recs, tf)
  <1> DEFINE S == Readable(h, recs, tf)
             C == Contents(h, recs, tf)
             E == Contents(g, news, tg)
  <1>1. /\ C \in Seq(Document) /\ Len(C) = Cardinality(S) /\ Cardinality(S) \in Nat
        /\ \A k \in 1 .. Cardinality(S) : Nth(S, k) \in S /\ C[k] = DocAt(recs, tf, Nth(S, k))
    BY ContentsIs
  <1>2. /\ E \in Seq(Document) /\ Len(E) = Cardinality(Readable(g, news, tg))
        /\ \A k \in 1 .. Cardinality(Readable(g, news, tg)) :
              /\ Nth(Readable(g, news, tg), k) \in Readable(g, news, tg)
              /\ E[k] = DocAt(news, tg, Nth(Readable(g, news, tg), k))
    BY ContentsIs, ZenonT(30)
  <1>3. \A i \in S : DocAt(news, tg, i) = DocAt(recs, tf, i)
    OBVIOUS
  <1>4. Readable(g, news, tg) = S
    OBVIOUS
  <1> HIDE DEF S, C, E
  <1>5. Len(C) = Len(E) /\ \A k \in 1 .. Len(C) : C[k] = E[k]
    BY <1>1, <1>2, <1>3, <1>4
  <1>6. C = E
    BY <1>1, <1>2, <1>5, SameDocs
  <1> QED
    BY <1>6 DEF C, E

\* The second file reads like the first with one more record m behind.
ReadsMore(h, recs, tf, g, news, tg, m) ==
    /\ \A i \in Readable(h, recs, tf) : i < m
    /\ Readable(g, news, tg) = Readable(h, recs, tf) \union {m}
    /\ \A i \in Readable(h, recs, tf) : DocAt(news, tg, i) = DocAt(recs, tf, i)

\* One more document.
WithDoc(C, d) == Append(C, d)

\* One more readable record behind the others is one more document.
LEMMA ContentsAdd ==
    ASSUME NEW h, NEW recs \in Seq(Record), NEW tf \in Seq(Cell),
           NEW g, NEW news \in Seq(Record), NEW tg \in Seq(Cell), NEW m \in Nat,
           ReadsMore(h, recs, tf, g, news, tg, m)
    PROVE  Contents(g, news, tg) = WithDoc(Contents(h, recs, tf), DocAt(news, tg, m))
  <1> DEFINE S == Readable(h, recs, tf)
             T == S \union {m}
             c == Cardinality(S)
             C == Contents(h, recs, tf)
             E == Contents(g, news, tg)
             new == DocAt(news, tg, m)
  <1>1. /\ S \in SUBSET (0 .. Len(recs) - 1) /\ Len(recs) \in Nat /\ c \in Nat
        /\ C \in Seq(Document) /\ Len(C) = c
        /\ \A k \in 1 .. c : Nth(S, k) \in S /\ C[k] = DocAt(recs, tf, Nth(S, k))
    BY ContentsIs
  <1>2. /\ E \in Seq(Document) /\ Len(E) = Cardinality(Readable(g, news, tg))
        /\ \A k \in 1 .. Cardinality(Readable(g, news, tg)) :
              /\ Nth(Readable(g, news, tg), k) \in Readable(g, news, tg)
              /\ E[k] = DocAt(news, tg, Nth(Readable(g, news, tg), k))
    BY ContentsIs, ZenonT(30)
  <1>3. /\ \A i \in S : DocAt(news, tg, i) = DocAt(recs, tf, i)
        /\ \A i \in S : i < m
        /\ Readable(g, news, tg) = T
    BY DEF ReadsMore
  <1> HIDE DEF S, C, E, new
  <1>4. /\ Cardinality(T) = c + 1
        /\ \A k \in 1 .. c : Nth(T, k) = Nth(S, k)
        /\ Nth(T, c + 1) = m
    BY <1>1, <1>3, NthAdd
  <1> HIDE DEF c, T
  <1>5. E[c + 1] = new
    <2>1. c + 1 \in 1 .. c + 1
      BY <1>1
    <2> QED
      BY <1>2, <1>3, <1>4, <2>1 DEF new
  <1>6. \A k \in 1 .. c : k \in 1 .. c + 1 /\ E[k] = C[k]
    <2> SUFFICES ASSUME NEW k \in 1 .. c
                 PROVE  k \in 1 .. c + 1 /\ E[k] = C[k]
      OBVIOUS
    <2>1. k \in 1 .. c + 1
      BY <1>1
    <2> QED
      BY <1>1, <1>2, <1>3, <1>4, <2>1
  <1>7. Len(E) = c + 1
    <2>1. Cardinality(Readable(g, news, tg)) = c + 1
      BY <1>3, <1>4
    <2> QED
      BY <1>2, <2>1
  <1>8. new \in Document
    <2>1. c + 1 \in 1 .. Len(E)
      BY <1>1, <1>7
    <2>2. E[c + 1] \in Document
      BY <1>2, <2>1
    <2> QED
      BY <1>5, <2>2
  <1>9. /\ Append(C, new) \in Seq(Document) /\ Len(Append(C, new)) = c + 1
        /\ Append(C, new)[c + 1] = new
        /\ \A k \in 1 .. c : Append(C, new)[k] = C[k]
    BY <1>1, <1>8, AppendProperties
  <1>10. \A k \in 1 .. c + 1 : E[k] = Append(C, new)[k]
    <2> SUFFICES ASSUME NEW k \in 1 .. c + 1
                 PROVE  E[k] = Append(C, new)[k]
      OBVIOUS
    <2>1. CASE k = c + 1
      BY <1>5, <1>9, <2>1
    <2>2. CASE k # c + 1
      <3>1. k \in 1 .. c
        BY <1>1, <2>2
      <3> QED
        BY <1>6, <1>9, <3>1
    <2> QED
      BY <2>1, <2>2
  <1>11. E = Append(C, new)
    BY <1>2, <1>7, <1>9, <1>10, SameDocs
  <1> QED
    BY <1>11 DEF WithDoc, C, E, new

\* The second file reads like the first without its k-th readable record.
ReadsLess(h, recs, tf, g, news, tg, k) ==
    /\ k \in 1 .. Cardinality(Readable(h, recs, tf))
    /\ Readable(g, news, tg) = Readable(h, recs, tf) \ {Nth(Readable(h, recs, tf), k)}
    /\ \A i \in Readable(g, news, tg) : DocAt(news, tg, i) = DocAt(recs, tf, i)

\* All documents of C but the k-th.
AllBut(C, k) == SubSeq(C, 1, k - 1) \o SubSeq(C, k + 1, Len(C))

\* Without one readable record its document is missing and no other.
LEMMA ContentsRemove ==
    ASSUME NEW h, NEW recs \in Seq(Record), NEW tf \in Seq(Cell),
           NEW g, NEW news \in Seq(Record), NEW tg \in Seq(Cell),
           NEW k, ReadsLess(h, recs, tf, g, news, tg, k)
    PROVE  Contents(g, news, tg) = AllBut(Contents(h, recs, tf), k)
  <1> DEFINE S == Readable(h, recs, tf)
             T == S \ {Nth(S, k)}
             c == Cardinality(S)
             C == Contents(h, recs, tf)
             E == Contents(g, news, tg)
  <1>1. /\ S \in SUBSET (0 .. Len(recs) - 1) /\ Len(recs) \in Nat /\ c \in Nat
        /\ C \in Seq(Document) /\ Len(C) = c
        /\ \A j \in 1 .. c : Nth(S, j) \in S /\ C[j] = DocAt(recs, tf, Nth(S, j))
    BY ContentsIs
  <1>2. /\ E \in Seq(Document) /\ Len(E) = Cardinality(Readable(g, news, tg))
        /\ \A j \in 1 .. Cardinality(Readable(g, news, tg)) :
              /\ Nth(Readable(g, news, tg), j) \in Readable(g, news, tg)
              /\ E[j] = DocAt(news, tg, Nth(Readable(g, news, tg), j))
    BY ContentsIs, ZenonT(30)
  <1>3. /\ \A i \in T : DocAt(news, tg, i) = DocAt(recs, tf, i)
        /\ Readable(g, news, tg) = T
    BY DEF ReadsLess
  <1>4. k \in 1 .. c
    BY DEF ReadsLess
  <1> HIDE DEF S, C, E
  <1>5. /\ Cardinality(T) = c - 1
        /\ \A j \in 1 .. c - 1 : Nth(T, j) = IF j < k THEN Nth(S, j) ELSE Nth(S, j + 1)
    BY <1>1, <1>4, NthRemove
  <1> HIDE DEF T, c
  <1>6. ASSUME NEW j \in 1 .. c - 1
        PROVE  E[j] = IF j < k THEN C[j] ELSE C[j + 1]
    <2>1. j \in 1 .. c /\ j + 1 \in 1 .. c
      BY <1>1
    <2>2. E[j] = DocAt(recs, tf, Nth(T, j))
      BY <1>2, <1>3, <1>5
    <2>3. C[j] = DocAt(recs, tf, Nth(S, j)) /\ C[j + 1] = DocAt(recs, tf, Nth(S, j + 1))
      BY <1>1, <2>1
    <2> QED
      BY <1>5, <2>2, <2>3
  <1> DEFINE A == SubSeq(C, 1, k - 1)
             B == SubSeq(C, k + 1, Len(C))
  <1>7. /\ A \in Seq(Document) /\ Len(A) = k - 1 /\ \A j \in 1 .. k - 1 : A[j] = C[j]
    <2>1. k - 1 \in 1 - 1 .. Len(C) /\ 1 \in Int /\ k - 1 \in Int
      BY <1>1, <1>4
    <2> QED
      BY <1>1, <1>4, <2>1
  <1>8. /\ B \in Seq(Document) /\ Len(B) = c - k /\ \A j \in 1 .. c - k : B[j] = C[j + k]
    BY <1>1, <1>4
  <1> HIDE DEF A, B
  <1>9. A \o B \in Seq(Document) /\ Len(A \o B) = c - 1 /\ Len(E) = c - 1
    <2>1. A \o B \in Seq(Document) /\ Len(A \o B) = Len(A) + Len(B)
      BY <1>7, <1>8, ConcatProperties
    <2>2. Len(A) + Len(B) = c - 1
      BY <1>1, <1>4, <1>7, <1>8
    <2>3. Len(E) = c - 1
      BY <1>2, <1>3, <1>5
    <2> QED
      BY <2>1, <2>2, <2>3
  <1>10. ASSUME NEW j \in 1 .. c - 1
         PROVE  (A \o B)[j] = E[j]
    <2>1. CASE j < k
      <3>1. j \in 1 .. Len(A)
        BY <1>1, <1>4, <1>7, <2>1
      <3>2. (A \o B)[j] = A[j]
        BY <1>7, <1>8, <3>1
      <3> QED
        BY <1>6, <1>7, <2>1, <3>1, <3>2
    <2>2. CASE ~(j < k)
      <3>1. j - (k - 1) \in 1 .. c - k /\ (j - (k - 1)) + k = j + 1 /\ Len(A) + (j - (k - 1)) = j
        BY <1>1, <1>4, <1>7, <2>2
      <3>2. (A \o B)[Len(A) + (j - (k - 1))] = B[j - (k - 1)]
        BY <1>7, <1>8, <3>1
      <3> QED
        BY <1>6, <1>8, <2>2, <3>1, <3>2
    <2> QED
      BY <2>1, <2>2
  <1>11. E = A \o B
    BY <1>2, <1>9, <1>10, SameDocs
  <1> QED
    BY <1>11 DEF AllBut, C, E, A, B

\* A record is read as before if its cells are as before.
LEMMA SameCells ==
    ASSUME NEW recs \in Seq(Record), NEW news \in Seq(Record), NEW i \in Nat, i < Len(recs), i < Len(news),
           news[i + 1] = recs[i + 1],
           NEW tf \in Seq(Cell), NEW tg \in Seq(Cell),
           recs[i + 1].off + 1 + recs[i + 1].len <= Len(tf),
           recs[i + 1].off + 1 + recs[i + 1].len <= Len(tg),
           \A j \in recs[i + 1].off + 1 .. recs[i + 1].off + 1 + recs[i + 1].len : tf[j] = tg[j]
    PROVE  /\ text_readable(tg, news[i + 1].off, news[i + 1].len)
                <=> text_readable(tf, recs[i + 1].off, recs[i + 1].len)
           /\ DocAt(news, tg, i) = DocAt(recs, tf, i)
  <1> DEFINE off == recs[i + 1].off
             len == recs[i + 1].len
  <1>1. off \in Nat /\ len \in Nat
    <2>1. recs[i + 1] \in Record
      OBVIOUS
    <2> QED
      BY <2>1 DEF Record
  <1>2. off + 1 + len <= Len(tf) /\ off + 1 + len <= Len(tg)
        /\ \A j \in off + 1 .. off + 1 + len : tf[j] = tg[j]
    OBVIOUS
  <1>3. news[i + 1].off = off /\ news[i + 1].len = len
    OBVIOUS
  <1> HIDE DEF off, len
  <1>4. off + 1 \in off + 1 .. off + 1 + len /\ \A j \in 1 .. len : off + 1 + j \in off + 1 .. off + 1 + len
    BY <1>1
  <1>5. text_readable(tg, off, len) <=> text_readable(tf, off, len)
    BY <1>2, <1>4 DEF text_readable
  <1>6. text_at(tg, off, len) = text_at(tf, off, len)
    <2>1. /\ text_at(tf, off, len) \in Seq(Cell) /\ Len(text_at(tf, off, len)) = len
          /\ \A j \in 1 .. len : text_at(tf, off, len)[j] = tf[off + 1 + j]
      BY <1>1, <1>2, TextAt
    <2>2. /\ text_at(tg, off, len) \in Seq(Cell) /\ Len(text_at(tg, off, len)) = len
          /\ \A j \in 1 .. len : text_at(tg, off, len)[j] = tg[off + 1 + j]
      BY <1>1, <1>2, TextAt
    <2>3. \A j \in 1 .. len : text_at(tg, off, len)[j] = text_at(tf, off, len)[j]
      BY <1>2, <1>4, <2>1, <2>2
    <2> QED
      BY <2>1, <2>2, <2>3, SeqEqual
  <1>7. DocAt(news, tg, i) = DocAt(recs, tf, i)
    BY <1>3, <1>6 DEF DocAt, off, len
  <1> QED
    BY <1>3, <1>5, <1>7 DEF off, len

-----------------------------------------------------------------------------
(* What compact writes.                                                    *)

Ordered(recs) == \A i, j \in 1 .. Len(recs) : i < j => recs[i].off <= recs[j].off
Within(recs, n) == \A i \in 1 .. Len(recs) : recs[i].off <= n

\* The records of the new entry file.
Moved(rs) == [k \in DOMAIN rs |-> [rs[k] EXCEPT !.off = NewOffset(rs, k)]]

LEMMA NewOffsetsOrdered ==
    ASSUME NEW rs \in Seq(Record), NEW i \in 1 .. Len(rs), NEW j \in 1 .. Len(rs), i < j
    PROVE  NewOffset(rs, i) <= NewOffset(rs, j)
  <1> DEFINE n == Len(rs)
             T == {m \in 1 .. n : i < m /\ ~(NewOffset(rs, i) <= NewOffset(rs, m))}
  <1>1. n \in Nat /\ \A m \in 1 .. n : rs[m] \in Record
    OBVIOUS
  <1>2. ASSUME T # {} PROVE FALSE
    <2>0. T \in SUBSET Nat
      BY <1>1
    <2>1. PICK m \in T : \A l \in T : m <= l
      <3> HIDE DEF T
      <3> QED
        BY <1>2, <2>0, LeastElement
    <2>2. m \in 1 .. n /\ i < m /\ ~(NewOffset(rs, i) <= NewOffset(rs, m)) /\ m \in Nat /\ i \in Nat
      BY <1>1
    <2>3. m # 1 /\ m - 1 \in 1 .. n /\ i <= m - 1
      BY <1>1, <2>2
    <2>4. m - 1 \notin T
      <3>1. ~(m <= m - 1)
        BY <2>2
      <3> HIDE DEF T
      <3> QED
        BY <2>1, <3>1
    <2>5. NewOffset(rs, i) <= NewOffset(rs, m - 1)
      <3>1. CASE i = m - 1
        BY <3>1, NewOffsetIs
      <3>2. CASE i < m - 1
        BY <2>3, <2>4, <3>2
      <3> QED
        BY <2>2, <2>3, <3>1, <3>2
    <2>6. NewOffset(rs, m) = NewOffset(rs, m - 1) + 1 + rs[m - 1].len
      BY <2>2, <2>3, NewOffsetIs
    <2>7. NewOffset(rs, i) \in Nat /\ NewOffset(rs, m - 1) \in Nat
      BY <2>3, NewOffsetIs
    <2>8. rs[m - 1].len \in Nat
      BY <1>1, <2>3 DEF Record
    <2> QED
      BY <2>2, <2>5, <2>6, <2>7, <2>8
  <1> QED
    BY <1>2

\* The readable records are the records of the new files, each with its text,
\* if the new header counts as many.
LEMMA CompactKeeps ==
    ASSUME NEW h \in Header, NEW recs \in Seq(Record), NEW tf \in Seq(Cell), NEW g \in Header,
           Cardinality(Readable(h, recs, tf)) <= g.total,
           NEW rs, rs = ReadAll(h, recs, tf)
    PROVE  /\ Moved(rs) \in Seq(Record) /\ NewText(rs, tf) \in Seq(Cell)
           /\ Contents(g, Moved(rs), NewText(rs, tf)) = Contents(h, recs, tf)
           /\ Ordered(Moved(rs)) /\ Within(Moved(rs), Len(NewText(rs, tf)))
  <1> DEFINE S == Readable(h, recs, tf)
             new == Moved(rs)
             tg == NewText(rs, tf)
             n == Len(rs)
             t(k) == text_at(tf, rs[k].off, rs[k].len)
  <1>1. rs \in Seq(Record) /\ n = Cardinality(S) /\ n \in Nat
    BY ReadAllIs
  <1>2. \A k \in 1 .. n :
            /\ Nth(S, k) \in S
            /\ rs[k] = recs[Nth(S, k) + 1]
            /\ rs[k].flag = 1
            /\ text_readable(tf, rs[k].off, rs[k].len)
    <2> DEFINE all == ReadAll(h, recs, tf)
    <2>1. \A k \in 1 .. Len(all) :
            /\ Nth(S, k) \in S
            /\ all[k] = recs[Nth(S, k) + 1]
            /\ all[k].flag = 1
            /\ text_readable(tf, all[k].off, all[k].len)
      BY ReadAllIs
    <2>2. rs = all
      OBVIOUS
    <2> HIDE DEF all, S
    <2> QED
      BY <2>1, <2>2
  <1>3. /\ new \in Seq(Record) /\ Len(new) = n
        /\ \A k \in 1 .. n :
             /\ new[k].flag = rs[k].flag /\ new[k].id = rs[k].id
             /\ new[k].val = rs[k].val /\ new[k].len = rs[k].len
             /\ new[k].off = NewOffset(rs, k)
    BY <1>1, CopiedRecords DEF Moved
  <1>4. tg \in Seq(Cell) /\ \A k \in 1 .. n : Placed(tg, NewOffset(rs, k), t(k))
    <2>1. \A k \in 1 .. Len(rs) : text_readable(tf, rs[k].off, rs[k].len)
      BY <1>2
    <2> QED
      BY <1>1, <2>1, NewTextIs
  <1>5. \A k \in 1 .. n : rs[k] \in Record /\ rs[k].off \in Nat /\ rs[k].len \in Nat
    <2>1. \A k \in 1 .. n : rs[k] \in Record
      BY <1>1
    <2> QED
      BY <2>1 DEF Record
  <1> HIDE DEF new, tg, n
  <1>6. ASSUME NEW k \in 1 .. n
        PROVE  t(k) \in Seq(Cell) /\ Len(t(k)) = rs[k].len
    BY <1>2, <1>5, TextAt DEF text_readable
  <1> HIDE DEF t
  <1>7. ASSUME NEW k \in 1 .. n
        PROVE  /\ text_readable(tg, new[k].off, new[k].len)
               /\ text_at(tg, new[k].off, new[k].len) = t(k)
               /\ new[k].flag = 1
    <2>1. NewOffset(rs, k) \in Nat
      BY <1>1, NewOffsetIs DEF n
    <2>2. new[k].off = NewOffset(rs, k) /\ new[k].len = Len(t(k)) /\ new[k].flag = 1
      <3>1. rs[k].flag = 1
        BY <1>2
      <3>2. new[k].off = NewOffset(rs, k) /\ new[k].len = rs[k].len /\ new[k].flag = rs[k].flag
        BY <1>3
      <3>3. Len(t(k)) = rs[k].len
        BY <1>6
      <3> QED
        BY <3>1, <3>2, <3>3
    <2>3. t(k) \in Seq(Cell) /\ Placed(tg, NewOffset(rs, k), t(k))
      BY <1>4, <1>6
    <2>4. text_readable(tg, NewOffset(rs, k), Len(t(k))) /\ text_at(tg, NewOffset(rs, k), Len(t(k))) = t(k)
      BY <1>4, <2>1, <2>3, PlacedText
    <2> QED
      BY <2>2, <2>4
  <1>8. Readable(g, new, tg) = 0 .. n - 1
    <2>1. g.total \in Nat /\ n <= g.total
      BY <1>1 DEF Header
    <2>2. ASSUME NEW i \in 0 .. n - 1
          PROVE  entry_readable(g, new, tg, i)
      <3>1. i + 1 \in 1 .. n /\ i < g.total /\ i < n
        BY <1>1, <2>1
      <3> QED
        BY <1>3, <1>7, <3>1 DEF entry_readable
    <2> QED
      BY <1>3, <2>2 DEF Readable
  <1>9. Contents(g, new, tg) = Contents(h, recs, tf)
    <2> DEFINE C == Contents(h, recs, tf)
               E == Contents(g, new, tg)
    <2>1. /\ C \in Seq(Document) /\ Len(C) = Cardinality(S)
          /\ \A k \in 1 .. Cardinality(S) : Nth(S, k) \in S /\ C[k] = DocAt(recs, tf, Nth(S, k))
      BY ContentsIs
    <2> DEFINE R == Readable(g, new, tg)
    <2>2. /\ E \in Seq(Document) /\ Len(E) = Cardinality(R)
          /\ \A k \in 1 .. Cardinality(R) : Nth(R, k) \in R /\ E[k] = DocAt(new, tg, Nth(R, k))
      BY <1>3, <1>4, ContentsIs
    <2>3. Cardinality(R) = n /\ \A k \in 1 .. n : Nth(R, k) = k - 1
      <3>1. Cardinality(0 .. n - 1) = n /\ \A k \in 1 .. n : Nth(0 .. n - 1, k) = k - 1
        BY <1>1, NthOfAll
      <3> QED
        BY <1>8, <3>1
    <2> HIDE DEF R, C, E, S
    <2>4. ASSUME NEW k \in 1 .. n
          PROVE  C[k] = E[k]
      <3>1. E[k] = DocAt(new, tg, k - 1) /\ C[k] = DocAt(recs, tf, Nth(S, k))
        BY <1>1, <2>1, <2>2, <2>3
      <3>2. (k - 1) + 1 = k
        OBVIOUS
      <3>3. DocAt(new, tg, k - 1) = [id |-> rs[k].id, val |-> rs[k].val, text |-> t(k)]
        <4>1. DocAt(new, tg, k - 1) =
                [id |-> new[k].id, val |-> new[k].val, text |-> text_at(tg, new[k].off, new[k].len)]
          BY <3>2 DEF DocAt
        <4> QED
          BY <1>3, <1>7, <4>1
      <3>4. DocAt(recs, tf, Nth(S, k)) = [id |-> rs[k].id, val |-> rs[k].val, text |-> t(k)]
        BY <1>2 DEF DocAt, t
      <3> QED
        BY <3>1, <3>3, <3>4
    <2>5. C = E
      BY <1>1, <2>1, <2>2, <2>3, <2>4, SameDocs
    <2> QED
      BY <2>5 DEF C, E
  <1>10. Ordered(new)
    <2> SUFFICES ASSUME NEW i \in 1 .. n, NEW j \in 1 .. n, i < j
                 PROVE  new[i].off <= new[j].off
      BY <1>3 DEF Ordered
    <2>1. NewOffset(rs, i) <= NewOffset(rs, j)
      BY <1>1, NewOffsetsOrdered DEF n
    <2> QED
      BY <1>3, <2>1
  <1>11. Within(new, Len(tg))
    <2> SUFFICES ASSUME NEW k \in 1 .. n
                 PROVE  new[k].off <= Len(tg)
      BY <1>3 DEF Within
    <2>1. new[k].off \in Nat /\ new[k].len \in Nat /\ Len(tg) \in Nat
      <3>1. new[k] \in Record
        BY <1>3
      <3> QED
        BY <1>4, <3>1 DEF Record
    <2> QED
      BY <1>7, <2>1 DEF text_readable
  <1> QED
    BY <1>3, <1>4, <1>9, <1>10, <1>11 DEF new, tg

-----------------------------------------------------------------------------
(* The documents.  Compaction keeps them, INSERT delivers its own, DELETE  *)
(* and a kill take out one, and where kills and failing operations are     *)
(* quiet the files implement DocumentLog.  The inductive invariant is on   *)
(* top of the one above.                                                   *)

\* Files and streams hold records and cells, and a call in progress remembers
\* a record.
TypesOK ==
    /\ status \in {"down", "up", "refused"}
    /\ exists \subseteq {"entry", "text", "temp_entry", "temp_text"}
    /\ entry_file.recs \in Seq(Record) /\ temp_entry.recs \in Seq(Record)
    /\ text_file \in Seq(Cell) /\ temp_text \in Seq(Cell) /\ text_buffer \in Seq(Cell)
    /\ is_open \in BOOLEAN
    /\ step.at \in RecordSteps => step.rec \in Record

\* What the swap has to keep, wherever it stands.
KeptOK ==
    /\ step.at \in {"swap_entry", "swap_text", "rename_entry"} =>
        /\ {"temp_entry", "temp_text"} \subseteq exists
        /\ Contents(temp_entry.header, temp_entry.recs, temp_text) = step.kept
    /\ step.at = "rename_text" =>
        /\ "temp_entry" \notin exists /\ "temp_text" \in exists
        /\ Contents(entry_file.header, entry_file.recs, temp_text) = step.kept
    /\ step.at = "reopen" =>
        /\ "temp_entry" \notin exists /\ "temp_text" \notin exists
        /\ Contents(entry_file.header, entry_file.recs, text_file) = step.kept

\* The document an INSERT in progress has written.
InsertOK ==
    /\ step.at \in {"write_record", "write_header", "retry_header"} =>
        /\ step.rec.flag = 1 /\ step.rec.val \in Val
        /\ step.rec.len = Len(Text(step.rec.val))
        /\ Placed(AllText, step.rec.off, Text(step.rec.val))
    /\ step.at \in {"write_header", "retry_header"} =>
        /\ Len(entry_file.recs) # 0
        /\ entry_file.recs[Len(entry_file.recs)] = step.rec

\* Which files are there, and when the text stream can hold something.
FilesThere ==
    /\ is_open => {"entry", "text"} \subseteq exists
    /\ ~is_open => text_buffer = <<>>
    /\ step.at = "create_text" => entry_file.recs = <<>> /\ "entry" \in exists
    /\ step.at \in {"rename_entry", "rename_text"} => "text" \notin exists
    /\ step.at = "rename_text" => "entry" \in exists
    /\ step.at = "reopen" => {"entry", "text"} \subseteq exists

\* The texts of a file come in the order of their records, and none starts
\* beyond its end.
OrderOK ==
    /\ Ordered(entry_file.recs)
    /\ "text" \in exists => Within(entry_file.recs, Len(text_file))
    /\ step.at = "write_record" =>
        step.rec.off <= Len(text_file) /\ Within(entry_file.recs, step.rec.off)
    /\ step.at \in {"swap_entry", "swap_text", "rename_entry"} =>
        Ordered(temp_entry.recs) /\ Within(temp_entry.recs, Len(temp_text))
    /\ step.at = "rename_text" => Within(entry_file.recs, Len(temp_text))

DocInv == TypesOK /\ KeptOK /\ InsertOK /\ FilesThere /\ OrderOK

-----------------------------------------------------------------------------
(* What single operations do.                                              *)

LEMMA TextIs ==
    ASSUME NEW v \in Val
    PROVE  Text(v) \in Seq(Cell) /\ Len(Text(v)) = TextLen[v] /\ TextLen[v] \in Nat
  <1>1. TextLen[v] \in Nat
    BY FileAssumption
  <1>2. Text(v) = [i \in 1 .. TextLen[v] |-> v] /\ v \in Cell
    BY DEF Text, Cell
  <1> QED
    BY <1>1, <1>2

\* write_entry places the text at the end of what the text stream reads.
LEMMA WriteFacts ==
    ASSUME TypesOK, NEW id \in Id, NEW v \in Val, WriteText(id, v)
    PROVE  /\ text_file' \in Seq(Cell) /\ text_buffer' \in Seq(Cell)
           /\ AllText \in Seq(Cell) /\ AllText' = AllText \o (<<1>> \o Text(v))
           /\ Len(text_file) \in Nat /\ Len(AllText) \in Nat
           /\ Len(text_file) <= Len(AllText) /\ Len(AllText) <= Len(text_file')
           /\ step'.at = "write_record"
           /\ step'.rec \in Record /\ step'.rec.flag = 1 /\ step'.rec.val = v /\ step'.rec.id = id
           /\ step'.rec.off = Len(AllText) /\ step'.rec.len = Len(Text(v))
           /\ Placed(AllText', step'.rec.off, Text(v))
           /\ AllText' \in Seq(Cell) /\ Len(AllText') = Len(AllText) + 1 + Len(Text(v))
  <1> DEFINE all == AllText
             t == Text(v)
             e == <<1>> \o t
             rec == [flag |-> 1, id |-> id, val |-> v, off |-> Len(AllText), len |-> TextLen[v]]
  <1>1. t \in Seq(Cell) /\ Len(t) = TextLen[v] /\ TextLen[v] \in Nat
    BY TextIs
  <1>2. text_file \in Seq(Cell) /\ text_buffer \in Seq(Cell) /\ all = text_file \o text_buffer
    BY DEF TypesOK, AllText
  <1>3. all \in Seq(Cell) /\ Len(all) = Len(text_file) + Len(text_buffer)
    BY <1>2
  <1>4. step' = [at |-> "write_record", rec |-> rec]
    BY DEF WriteText
  <1>5. /\ v \in LargeText => text_file' = all \o <<1>> \o t /\ text_buffer' = <<>>
        /\ v \notin LargeText => text_file' = all /\ text_buffer' = e
    BY DEF WriteText
  <1>6. AllText' = text_file' \o text_buffer'
    BY DEF AllText
  <1> HIDE DEF all, t
  <1>7. /\ all \o <<1>> \o t \in Seq(Cell) /\ Len(all \o <<1>> \o t) = Len(all) + 1 + Len(t)
        /\ all \o e = all \o <<1>> \o t
        /\ Placed(all \o <<1>> \o t, Len(all), t)
    BY <1>1, <1>3, PlacedEnd
  <1>8. e \in Seq(Cell)
    <2>1. <<1>> \in Seq(Cell)
      BY DEF Cell
    <2> QED
      BY <1>1, <2>1
  <1> HIDE DEF e
  <1>9. /\ text_file' \in Seq(Cell) /\ text_buffer' \in Seq(Cell)
        /\ AllText' = all \o e
        /\ Len(all) <= Len(text_file')
    <2>1. CASE v \in LargeText
      <3>1. AllText' = all \o <<1>> \o t
        BY <1>5, <1>6, <1>7, <2>1, ConcatEmptySeq
      <3>2. <<>> \in Seq(Cell)
        OBVIOUS
      <3>3. Len(all) <= Len(all) + 1 + Len(t)
        BY <1>1, <1>3
      <3> QED
        BY <1>5, <1>7, <2>1, <3>1, <3>2, <3>3
    <2>2. CASE v \notin LargeText
      <3>1. Len(all) <= Len(all)
        BY <1>3
      <3> QED
        BY <1>3, <1>5, <1>6, <1>8, <2>2, <3>1
    <2> QED
      BY <2>1, <2>2
  <1>10. Len(text_file) \in Nat /\ Len(all) \in Nat /\ Len(text_file) <= Len(all)
    BY <1>2, <1>3
  <1>11. rec \in Record
    BY <1>1, <1>10 DEF Record, all
  <1> HIDE DEF rec
  <1>12. /\ step'.at = "write_record" /\ step'.rec = rec
    BY <1>4
  <1>13. /\ rec.flag = 1 /\ rec.val = v /\ rec.id = id /\ rec.off = Len(all) /\ rec.len = Len(t)
    BY <1>1 DEF rec, all
  <1> QED
    BY <1>3, <1>7, <1>9, <1>10, <1>11, <1>12, <1>13 DEF all, t, e

Dead(recs, i) == [recs EXCEPT ![i + 1].flag = 0]

\* Marking a record dead changes nothing else.
LEMMA TombstoneIs ==
    ASSUME NEW recs \in Seq(Record), NEW i \in Nat, i < Len(recs)
    PROVE  /\ Dead(recs, i) \in Seq(Record) /\ Len(Dead(recs, i)) = Len(recs)
           /\ \A j \in 1 .. Len(recs) : j # i + 1 => Dead(recs, i)[j] = recs[j]
           /\ \A j \in 1 .. Len(recs) : Dead(recs, i)[j].off = recs[j].off
           /\ \A j \in 1 .. Len(recs) : Dead(recs, i)[j].len = recs[j].len
           /\ Dead(recs, i)[i + 1].flag = 0
  <1> DEFINE dead == [recs[i + 1] EXCEPT !.flag = 0]
             new == [recs EXCEPT ![i + 1] = dead]
  <1>1. i + 1 \in 1 .. Len(recs) /\ Len(recs) \in Nat
    OBVIOUS
  <1>2. recs[i + 1] \in Record
    BY <1>1
  <1>3. dead \in Record /\ dead.flag = 0 /\ dead.off = recs[i + 1].off /\ dead.len = recs[i + 1].len
    BY <1>2 DEF Record
  <1>4. new = Dead(recs, i)
    BY DEF Dead
  <1> HIDE DEF dead
  <1>5. /\ new \in Seq(Record) /\ Len(new) = Len(recs) /\ new[i + 1] = dead
        /\ \A j \in 1 .. Len(recs) : j # i + 1 => new[j] = recs[j]
    BY <1>1, <1>3
  <1> HIDE DEF new
  <1>6. \A j \in 1 .. Len(recs) : new[j].off = recs[j].off /\ new[j].len = recs[j].len
    BY <1>3, <1>5
  <1> QED
    BY <1>3, <1>4, <1>5, <1>6

\* delete_entry marks one record and remembers it.
LEMMA DeleteIs ==
    ASSUME IInv, TypesOK, NEW id, DeleteRecord(id)
    PROVE  \E i \in Nat :
               /\ i < Len(entry_file.recs) /\ i < header.total /\ entry_file.recs[i + 1].flag = 1
               /\ entry_file'.header = entry_file.header
               /\ entry_file'.recs = Dead(entry_file.recs, i)
               /\ step'.at = "delete_header" /\ step'.rec = entry_file.recs[i + 1]
               /\ step'.rec \in Record
  <1>1. PICK i \in 0 .. header.total - 1 :
            /\ i < Len(entry_file.recs) /\ entry_file.recs[i + 1].flag = 1
            /\ entry_file' = [header |-> entry_file.header,
                              recs |-> [entry_file.recs EXCEPT ![i + 1].flag = 0]]
            /\ step' = [at |-> "delete_header", rec |-> entry_file.recs[i + 1]]
    BY DeleteFacts DEF IInv
  <1>2. header.total \in Nat /\ entry_file.recs \in Seq(Record)
    BY DEF IInv, FilesOK, Header, TypesOK
  <1>3. i \in Nat /\ i < header.total
    BY <1>2
  <1>4. entry_file.recs[i + 1] \in Record
    BY <1>1, <1>2, <1>3
  <1> QED
    BY <1>1, <1>3, <1>4 DEF Dead

\* A byte written into the text file, or at its end.
LEMMA WriteByteIs ==
    ASSUME NEW tf \in Seq(Cell), NEW off \in Nat
    PROVE  /\ WriteByte(tf, off, 0) \in Seq(Cell)
           /\ Len(tf) <= Len(WriteByte(tf, off, 0))
           /\ \A j \in 1 .. Len(tf) : j # off + 1 => WriteByte(tf, off, 0)[j] = tf[j]
           /\ off < Len(tf) => Len(WriteByte(tf, off, 0)) = Len(tf)
  <1>1. 0 \in Cell /\ Len(tf) \in Nat
    BY DEF Cell
  <1>2. CASE off < Len(tf)
    <2>1. off + 1 \in 1 .. Len(tf)
      BY <1>1, <1>2
    <2>2. WriteByte(tf, off, 0) = [tf EXCEPT ![off + 1] = 0]
      BY <1>2 DEF WriteByte
    <2> QED
      BY <1>1, <2>1, <2>2
  <1>3. CASE ~(off < Len(tf))
    <2>1. WriteByte(tf, off, 0) = Append(tf, 0)
      BY <1>3 DEF WriteByte
    <2> QED
      BY <1>1, <1>3, <2>1
  <1> QED
    BY <1>2, <1>3

\* compact writes the documents there are into the new files, in order: the
\* header on disk counts at least as many.
LEMMA CopyFacts ==
    ASSUME IInv, TypesOK, CompactCopy
    PROVE  /\ temp_entry'.recs \in Seq(Record) /\ temp_text' \in Seq(Cell)
           /\ Contents(temp_entry'.header, temp_entry'.recs, temp_text') = step'.kept
           /\ step'.kept = Contents(header, entry_file.recs, AllText)
           /\ header = entry_file.header
           /\ Cardinality(Readable(header, entry_file.recs, AllText)) <= temp_entry'.header.total
           /\ Ordered(temp_entry'.recs) /\ Within(temp_entry'.recs, Len(temp_text'))
           /\ step'.at = "swap_entry"
  <1> DEFINE rs == ReadAll(header, entry_file.recs, AllText)
             recs == entry_file.recs
             S == Readable(header, recs, AllText)
  <1>1. header = entry_file.header /\ header \in Header
    BY DEF IInv, CountOK, FilesOK, CompactCopy, Ready, Idle
  <1>2. recs \in Seq(Record) /\ AllText \in Seq(Cell)
    BY DEF TypesOK, AllText
  <1>3. NewHeader \in Header /\ NewHeader.total = entry_file.header.live
    BY <1>1 DEF NewHeader, Header
  <1>4. Cardinality(S) <= NewHeader.total
    <2>1. S \subseteq Flagged(header, recs)
      BY DEF Readable, Flagged, entry_readable
    <2>2. IsFiniteSet(Flagged(header, recs)) /\ Cardinality(Flagged(header, recs)) \in Nat
      <3>1. Len(recs) \in Nat /\ 0 \in Int /\ Len(recs) - 1 \in Int
        BY <1>2
      <3>2. IsFiniteSet(0 .. Len(recs) - 1)
        BY <3>1, FS_Interval
      <3>3. Flagged(header, recs) \subseteq 0 .. Len(recs) - 1
        BY DEF Flagged
      <3>4. IsFiniteSet(Flagged(header, recs))
        BY <3>2, <3>3, FS_Subset
      <3> QED
        BY <3>4, FS_CardinalityType
    <2>3. Cardinality(Flagged(header, recs)) <= entry_file.header.live
      BY <1>1, CoveredMeansCounted DEF NeverUndercount
    <2>4. Cardinality(S) <= Cardinality(Flagged(header, recs)) /\ Cardinality(S) \in Nat
      BY <2>1, <2>2, FS_Subset, FS_CardinalityType
    <2>5. entry_file.header.live \in Nat
      BY <1>1 DEF Header
    <2> QED
      BY <1>3, <2>2, <2>3, <2>4, <2>5
  <1>5. /\ temp_entry' = [header |-> NewHeader, recs |-> Moved(rs)]
        /\ temp_text' = NewText(rs, AllText)
        /\ step' = [at |-> "swap_entry", kept |-> Contents(header, recs, AllText)]
    BY DEF CompactCopy, Moved
  <1>7. Cardinality(S) <= temp_entry'.header.total
    BY <1>4, <1>5
  <1> HIDE DEF recs
  <1>6. /\ Moved(rs) \in Seq(Record) /\ NewText(rs, AllText) \in Seq(Cell)
        /\ Contents(NewHeader, Moved(rs), NewText(rs, AllText)) = Contents(header, recs, AllText)
        /\ Ordered(Moved(rs)) /\ Within(Moved(rs), Len(NewText(rs, AllText)))
    <2>1. rs = ReadAll(header, recs, AllText)
      BY DEF recs
    <2> HIDE DEF rs
    <2> QED
      BY <1>1, <1>2, <1>3, <1>4, <2>1, CompactKeeps
  <1> HIDE DEF rs
  <1> QED
    BY <1>1, <1>5, <1>6, <1>7 DEF recs

-----------------------------------------------------------------------------
(* Every step keeps the invariant.                                         *)

\* What the steps of a call leave and set.
LEMMA StepFacts ==
    ASSUME IInv, [Next]_vars
    PROVE  /\ WriteRecord => /\ step' = [at |-> "write_header", rec |-> step.rec]
                             /\ entry_file' = [header |-> entry_file.header,
                                               recs |-> Append(entry_file.recs, step.rec)]
           /\ WriteHeader => /\ entry_file'.recs = entry_file.recs /\ entry_file'.header = header'
                             /\ step' = Idle
           /\ HeaderFails => step' = [at |-> "retry_header", rec |-> step.rec]
           /\ RetryHeader => /\ entry_file'.recs = entry_file.recs /\ entry_file'.header = header
                             /\ step' = Idle
           /\ Save => entry_file'.recs = entry_file.recs /\ entry_file'.header = header
           /\ DeleteHeader => /\ step' = [at |-> "delete_text", rec |-> step.rec]
                              /\ entry_file'.recs = entry_file.recs /\ entry_file'.header = header
           /\ RemoveEntryFile => step' = [at |-> "swap_text", kept |-> step.kept]
           /\ RemoveTextFile => step' = [at |-> "rename_entry", kept |-> step.kept]
           /\ RenameEntry => step' = [at |-> "rename_text", kept |-> step.kept]
           /\ RenameText => step' = [at |-> "reopen", kept |-> step.kept]
  <1> USE DEF IInv, FilesOK, StepOK, RecordSteps, SwapSteps
  <1>1. entry_file = [header |-> entry_file.header, recs |-> entry_file.recs]
    OBVIOUS
  <1>2. ASSUME WriteRecord
        PROVE  /\ step' = [at |-> "write_header", rec |-> step.rec]
               /\ entry_file' = [header |-> entry_file.header, recs |-> Append(entry_file.recs, step.rec)]
    <2>1. step = [at |-> step.at, rec |-> step.rec] /\ step' = [step EXCEPT !.at = "write_header"]
      BY <1>2 DEF WriteRecord
    <2>2. entry_file' = [entry_file EXCEPT !.recs = Append(entry_file.recs, step.rec)]
      BY <1>2 DEF WriteRecord
    <2> QED
      BY <1>1, <2>1, <2>2
  <1>3. ASSUME WriteHeader
        PROVE  entry_file'.recs = entry_file.recs /\ entry_file'.header = header' /\ step' = Idle
    BY <1>1, <1>3 DEF WriteHeader
  <1>4. ASSUME Save
        PROVE  entry_file'.recs = entry_file.recs /\ entry_file'.header = header
    BY <1>1, <1>4 DEF Save
  <1>5. ASSUME DeleteHeader
        PROVE  /\ step' = [at |-> "delete_text", rec |-> step.rec]
               /\ entry_file'.recs = entry_file.recs /\ entry_file'.header = header
    <2>1. step = [at |-> step.at, rec |-> step.rec] /\ step' = [step EXCEPT !.at = "delete_text"]
      BY <1>5 DEF DeleteHeader
    <2> QED
      BY <1>1, <1>5, <2>1 DEF DeleteHeader
  <1>6. ASSUME RemoveEntryFile
        PROVE  step' = [at |-> "swap_text", kept |-> step.kept]
    BY <1>6 DEF RemoveEntryFile
  <1>7. ASSUME RemoveTextFile
        PROVE  step' = [at |-> "rename_entry", kept |-> step.kept]
    BY <1>7 DEF RemoveTextFile
  <1>8. ASSUME RenameEntry
        PROVE  step' = [at |-> "rename_text", kept |-> step.kept]
    BY <1>8 DEF RenameEntry
  <1>9. ASSUME RenameText
        PROVE  step' = [at |-> "reopen", kept |-> step.kept]
    BY <1>9 DEF RenameText
  <1>10. ASSUME HeaderFails
         PROVE  step' = [at |-> "retry_header", rec |-> step.rec]
    <2>1. step = [at |-> step.at, rec |-> step.rec] /\ step' = [step EXCEPT !.at = "retry_header"]
      BY <1>10 DEF HeaderFails
    <2> QED
      BY <2>1
  <1>11. ASSUME RetryHeader
         PROVE  entry_file'.recs = entry_file.recs /\ entry_file'.header = header /\ step' = Idle
    BY <1>1, <1>11 DEF RetryHeader
  <1> QED
    BY <1>2, <1>3, <1>4, <1>5, <1>6, <1>7, <1>8, <1>9, <1>10, <1>11

\* Records stay records and cells cells.
LEMMA TypesStep ==
    ASSUME IInv, DocInv, [Next]_vars
    PROVE  TypesOK'
  <1> USE DEF TypesOK, disk, ram
  <1>1. CASE UNCHANGED vars
    BY <1>1 DEF vars, DocInv
  <1>2. ASSUME NEW id \in Id, NEW v \in Val, WriteText(id, v)
        PROVE  TypesOK'
    <2>1. step'.rec \in Record /\ text_file' \in Seq(Cell) /\ text_buffer' \in Seq(Cell)
      BY <1>2, WriteFacts DEF DocInv
    <2> QED
      BY <1>2, <2>1 DEF WriteText, DocInv
  <1>3. CASE WriteRecord
    <2>1. step.rec \in Record
      BY <1>3 DEF WriteRecord, RecordSteps, DocInv
    <2>2. Append(entry_file.recs, step.rec) \in Seq(Record)
      BY <2>1 DEF DocInv
    <2> QED
      BY <1>3, <2>1, <2>2, StepFacts DEF WriteRecord, DocInv
  <1>4. CASE WriteHeader
    BY <1>4, StepFacts DEF WriteHeader, DocInv, Idle, RecordSteps
  <1>5. CASE ReadText
    <2>1. AllText \in Seq(Cell) /\ <<>> \in Seq(Cell)
      BY DEF DocInv, AllText
    <2> QED
      BY <1>5, <2>1 DEF ReadText, DocInv
  <1>6. CASE Save
    BY <1>6, StepFacts DEF Save, DocInv
  <1>7. ASSUME NEW id \in Id, DeleteRecord(id)
        PROVE  TypesOK'
    <2>1. PICK i \in Nat :
              /\ i < Len(entry_file.recs)
              /\ entry_file'.recs = Dead(entry_file.recs, i)
              /\ step'.rec \in Record
      BY <1>7, DeleteIs DEF DocInv
    <2>2. entry_file'.recs \in Seq(Record)
      BY <2>1, TombstoneIs DEF DocInv
    <2> QED
      BY <1>7, <2>1, <2>2 DEF DeleteRecord, DocInv
  <1>8. CASE DeleteHeader
    <2>1. step.rec \in Record
      BY <1>8 DEF DeleteHeader, RecordSteps, DocInv
    <2> QED
      BY <1>8, <2>1, StepFacts DEF DeleteHeader, DocInv
  <1>9. CASE DeleteText
    <2>1. step.rec.off \in Nat
      BY <1>9 DEF DeleteText, RecordSteps, Record, DocInv
    <2>2. AllText \in Seq(Cell) /\ <<>> \in Seq(Cell)
      BY DEF DocInv, AllText
    <2>3. WriteByte(AllText, step.rec.off, 0) \in Seq(Cell)
      BY <2>1, <2>2, WriteByteIs
    <2> QED
      BY <1>9, <2>2, <2>3 DEF DeleteText, DocInv, Idle, RecordSteps
  <1>10. CASE CompactCopy
    <2>1. temp_entry'.recs \in Seq(Record) /\ temp_text' \in Seq(Cell) /\ step'.at = "swap_entry"
      BY <1>10, CopyFacts DEF DocInv
    <2>2. AllText \in Seq(Cell) /\ <<>> \in Seq(Cell)
      BY DEF DocInv, AllText
    <2> QED
      BY <1>10, <2>1, <2>2 DEF CompactCopy, DocInv, RecordSteps
  <1>11. CASE RemoveEntryFile
    BY <1>11, StepFacts DEF RemoveEntryFile, DocInv, EmptyEntry, RecordSteps
  <1>12. CASE RemoveTextFile
    BY <1>12, StepFacts DEF RemoveTextFile, DocInv, RecordSteps
  <1>13. CASE RenameEntry
    BY <1>13, StepFacts DEF RenameEntry, DocInv, EmptyEntry, RecordSteps
  <1>14. CASE RenameText
    BY <1>14, StepFacts DEF RenameText, DocInv, RecordSteps
  <1>15. CASE Reopen
    BY <1>15 DEF Reopen, DocInv, Idle, RecordSteps
  <1>16. CASE CopyFails
    BY <1>16 DEF CopyFails, DocInv
  <1>17. CASE SwapFails
    BY <1>17 DEF SwapFails, DocInv, Idle, RecordSteps
  <1>a. CASE WriteFails
    BY <1>a DEF WriteFails, DocInv, Idle, RecordSteps
  <1>b. CASE HeaderFails
    BY <1>b, StepFacts DEF HeaderFails, DocInv, Idle, RecordSteps
  <1>c. CASE RetryHeader
    BY <1>c, StepFacts DEF RetryHeader, DocInv, Idle, RecordSteps
  <1>18. CASE Crash
    <2>1. <<>> \in Seq(Cell)
      OBVIOUS
    <2> QED
      BY <1>18, <2>1 DEF Crash, DocInv, Idle, RecordSteps
  <1>19. CASE OpenFiles
    BY <1>19 DEF OpenFiles, DocInv
  <1>20. CASE CreateEntryFile
    BY <1>20 DEF CreateEntryFile, DocInv, EmptyEntry, RecordSteps
  <1>21. CASE CreateTextFile
    BY <1>21 DEF CreateTextFile, DocInv, Idle, RecordSteps
  <1>22. CASE RefuseToStart
    BY <1>22 DEF RefuseToStart, DocInv
  <1> QED
    BY <1>1, <1>2, <1>3, <1>4, <1>5, <1>6, <1>7, <1>8, <1>9, <1>10, <1>11, <1>12, <1>13, <1>14, <1>15, <1>16, <1>17, <1>a, <1>b, <1>c, <1>18, <1>19, <1>20, <1>21, <1>22 DEF Next

\* Whatever has been renamed, what compact copied is in the new generation.
LEMMA KeptStep ==
    ASSUME IInv, DocInv, [Next]_vars
    PROVE  KeptOK'
  <1> USE DEF KeptOK, disk, ram, IInv
  <1>1. CASE UNCHANGED vars
    BY <1>1 DEF vars, DocInv
  <1>2. ASSUME NEW id \in Id, NEW v \in Val, WriteText(id, v)
        PROVE  KeptOK'
    BY <1>2, StepFacts DEF WriteText, DocInv, Idle, Ready, OpenOK
  <1>3. CASE WriteRecord
    BY <1>3, StepFacts DEF WriteRecord, DocInv, Idle, Ready, OpenOK
  <1>4. CASE WriteHeader
    BY <1>4, StepFacts DEF WriteHeader, DocInv, Idle, Ready, OpenOK
  <1>5. CASE ReadText
    BY <1>5, StepFacts DEF ReadText, DocInv, Idle, Ready, OpenOK
  <1>6. CASE Save
    BY <1>6, StepFacts DEF Save, DocInv, Idle, Ready, OpenOK
  <1>7. ASSUME NEW id \in Id, DeleteRecord(id)
        PROVE  KeptOK'
    <2>1. step'.at = "delete_header"
      BY <1>7, DeleteIs DEF DocInv
    <2> QED
      BY <2>1
  <1>8. CASE DeleteHeader
    BY <1>8, StepFacts DEF DeleteHeader, DocInv, Idle, Ready, OpenOK
  <1>9. CASE DeleteText
    BY <1>9, StepFacts DEF DeleteText, DocInv, Idle, Ready, OpenOK
  <1>10. CASE CompactCopy
    <2>1. /\ step'.at = "swap_entry"
          /\ Contents(temp_entry'.header, temp_entry'.recs, temp_text') = step'.kept
      BY <1>10, CopyFacts DEF DocInv
    <2>2. exists' = exists \union {"temp_entry", "temp_text"}
      BY <1>10 DEF CompactCopy
    <2> QED
      BY <2>1, <2>2
  <1>11. CASE RemoveEntryFile
    <2>1. step'.at = "swap_text" /\ step'.kept = step.kept
      BY <1>11, StepFacts
    <2> QED
      BY <1>11, <2>1 DEF RemoveEntryFile, DocInv
  <1>12. CASE RemoveTextFile
    <2>1. step'.at = "rename_entry" /\ step'.kept = step.kept
      BY <1>12, StepFacts
    <2> QED
      BY <1>12, <2>1 DEF RemoveTextFile, DocInv
  <1>13. CASE RenameEntry
    <2>1. step'.at = "rename_text" /\ step'.kept = step.kept
      BY <1>13, StepFacts
    <2> QED
      BY <1>13, <2>1 DEF RenameEntry, DocInv
  <1>14. CASE RenameText
    <2>1. step'.at = "reopen" /\ step'.kept = step.kept
      BY <1>14, StepFacts
    <2> QED
      BY <1>14, <2>1 DEF RenameText, DocInv
  <1>15. CASE Reopen
    BY <1>15, StepFacts DEF Reopen, DocInv, Idle, Ready, OpenOK
  <1>16. CASE CopyFails
    BY <1>16, StepFacts DEF CopyFails, DocInv, Idle, Ready, OpenOK
  <1>17. CASE SwapFails
    BY <1>17, StepFacts DEF SwapFails, DocInv, Idle, Ready, OpenOK
  <1>a. CASE WriteFails
    BY <1>a, StepFacts DEF WriteFails, DocInv, Idle, Ready, OpenOK
  <1>b. CASE HeaderFails
    BY <1>b, StepFacts DEF HeaderFails, DocInv, Idle, Ready, OpenOK
  <1>c. CASE RetryHeader
    BY <1>c, StepFacts DEF RetryHeader, DocInv, Idle, Ready, OpenOK
  <1>18. CASE Crash
    BY <1>18, StepFacts DEF Crash, DocInv, Idle, Ready, OpenOK
  <1>19. CASE OpenFiles
    BY <1>19, StepFacts DEF OpenFiles, DocInv, Idle, Ready, OpenOK
  <1>20. CASE CreateEntryFile
    BY <1>20, StepFacts DEF CreateEntryFile, DocInv, Idle, Ready, OpenOK
  <1>21. CASE CreateTextFile
    BY <1>21, StepFacts DEF CreateTextFile, DocInv, Idle, Ready, OpenOK
  <1>22. CASE RefuseToStart
    BY <1>22, StepFacts DEF RefuseToStart, DocInv, Idle, Ready, OpenOK
  <1> QED
    BY <1>1, <1>2, <1>3, <1>4, <1>5, <1>6, <1>7, <1>8, <1>9, <1>10, <1>11, <1>12, <1>13, <1>14, <1>15, <1>16, <1>17, <1>a, <1>b, <1>c, <1>18, <1>19, <1>20, <1>21, <1>22 DEF Next

\* An INSERT in progress has written its text, then its record.
LEMMA InsertStep ==
    ASSUME IInv, DocInv, [Next]_vars
    PROVE  InsertOK'
  <1> USE DEF InsertOK, disk, ram, IInv
  <1>1. CASE UNCHANGED vars
    BY <1>1 DEF vars, DocInv, AllText
  <1>2. ASSUME NEW id \in Id, NEW v \in Val, WriteText(id, v)
        PROVE  InsertOK'
    <2>1. /\ step'.at = "write_record" /\ step'.rec.flag = 1 /\ step'.rec.val = v
          /\ step'.rec.len = Len(Text(v)) /\ Placed(AllText', step'.rec.off, Text(v))
      BY <1>2, WriteFacts DEF DocInv
    <2> QED
      BY <2>1
  <1>3. CASE WriteRecord
    <2>1. /\ step'.at = "write_header" /\ step'.rec = step.rec
          /\ entry_file'.recs = Append(entry_file.recs, step.rec)
      BY <1>3, StepFacts
    <2>2. AllText' = AllText /\ step.at = "write_record"
      BY <1>3 DEF WriteRecord, AllText
    <2>3. step.rec \in Record /\ entry_file.recs \in Seq(Record)
      BY <2>2 DEF DocInv, TypesOK, RecordSteps
    <2>4. /\ Len(Append(entry_file.recs, step.rec)) # 0
          /\ Append(entry_file.recs, step.rec)[Len(Append(entry_file.recs, step.rec))] = step.rec
      BY <2>3
    <2>5. /\ step.rec.flag = 1 /\ step.rec.val \in Val /\ step.rec.len = Len(Text(step.rec.val))
          /\ Placed(AllText, step.rec.off, Text(step.rec.val))
      BY <2>2 DEF DocInv
    <2> QED
      BY <2>1, <2>2, <2>4, <2>5
  <1>4. CASE WriteHeader
    BY <1>4, StepFacts DEF WriteHeader, DocInv, Idle, Ready, OpenOK
  <1>5. CASE ReadText
    BY <1>5, StepFacts DEF ReadText, DocInv, Idle, Ready, OpenOK
  <1>6. CASE Save
    BY <1>6, StepFacts DEF Save, DocInv, Idle, Ready, OpenOK
  <1>7. ASSUME NEW id \in Id, DeleteRecord(id)
        PROVE  InsertOK'
    <2>1. step'.at = "delete_header"
      BY <1>7, DeleteIs DEF DocInv
    <2> QED
      BY <2>1
  <1>8. CASE DeleteHeader
    BY <1>8, StepFacts DEF DeleteHeader, DocInv, Idle, Ready, OpenOK
  <1>9. CASE DeleteText
    BY <1>9, StepFacts DEF DeleteText, DocInv, Idle, Ready, OpenOK
  <1>10. CASE CompactCopy
    <2>1. step'.at = "swap_entry"
      BY <1>10, CopyFacts DEF DocInv
    <2> QED
      BY <2>1
  <1>11. CASE RemoveEntryFile
    BY <1>11, StepFacts DEF RemoveEntryFile, DocInv, Idle, Ready, OpenOK
  <1>12. CASE RemoveTextFile
    BY <1>12, StepFacts DEF RemoveTextFile, DocInv, Idle, Ready, OpenOK
  <1>13. CASE RenameEntry
    BY <1>13, StepFacts DEF RenameEntry, DocInv, Idle, Ready, OpenOK
  <1>14. CASE RenameText
    BY <1>14, StepFacts DEF RenameText, DocInv, Idle, Ready, OpenOK
  <1>15. CASE Reopen
    BY <1>15, StepFacts DEF Reopen, DocInv, Idle, Ready, OpenOK
  <1>16. CASE CopyFails
    BY <1>16, StepFacts DEF CopyFails, DocInv, Idle, Ready, OpenOK
  <1>17. CASE SwapFails
    BY <1>17, StepFacts DEF SwapFails, DocInv, Idle, Ready, OpenOK
  <1>a. CASE WriteFails
    BY <1>a, StepFacts DEF WriteFails, DocInv, Idle, Ready, OpenOK
  <1>b. CASE HeaderFails
    <2>1. step'.at = "retry_header" /\ step'.rec = step.rec /\ step.at = "write_header"
      BY <1>b, StepFacts DEF HeaderFails
    <2>2. AllText' = AllText /\ entry_file' = entry_file
      BY <1>b DEF HeaderFails, AllText
    <2> QED
      BY <2>1, <2>2 DEF DocInv
  <1>c. CASE RetryHeader
    BY <1>c, StepFacts DEF RetryHeader, DocInv, Idle, Ready, OpenOK
  <1>18. CASE Crash
    BY <1>18, StepFacts DEF Crash, DocInv, Idle, Ready, OpenOK
  <1>19. CASE OpenFiles
    BY <1>19, StepFacts DEF OpenFiles, DocInv, Idle, Ready, OpenOK
  <1>20. CASE CreateEntryFile
    BY <1>20, StepFacts DEF CreateEntryFile, DocInv, Idle, Ready, OpenOK
  <1>21. CASE CreateTextFile
    BY <1>21, StepFacts DEF CreateTextFile, DocInv, Idle, Ready, OpenOK
  <1>22. CASE RefuseToStart
    BY <1>22, StepFacts DEF RefuseToStart, DocInv, Idle, Ready, OpenOK
  <1> QED
    BY <1>1, <1>2, <1>3, <1>4, <1>5, <1>6, <1>7, <1>8, <1>9, <1>10, <1>11, <1>12, <1>13, <1>14, <1>15, <1>16, <1>17, <1>a, <1>b, <1>c, <1>18, <1>19, <1>20, <1>21, <1>22 DEF Next

\* Files come and go with the steps of the swap and of the constructor.
LEMMA ThereStep ==
    ASSUME IInv, DocInv, [Next]_vars
    PROVE  FilesThere'
  <1> USE DEF FilesThere, disk, ram, IInv
  <1>1. CASE UNCHANGED vars
    BY <1>1 DEF vars, DocInv
  <1>2. ASSUME NEW id \in Id, NEW v \in Val, WriteText(id, v)
        PROVE  FilesThere'
    <2>1. step'.at = "write_record"
      BY <1>2, WriteFacts DEF DocInv
    <2> QED
      BY <1>2, <2>1 DEF WriteText, Ready, DocInv
  <1>3. CASE WriteRecord
    BY <1>3, StepFacts DEF WriteRecord, DocInv, Idle, Ready, OpenOK
  <1>4. CASE WriteHeader
    BY <1>4, StepFacts DEF WriteHeader, DocInv, Idle, Ready, OpenOK
  <1>5. CASE ReadText
    BY <1>5, StepFacts DEF ReadText, DocInv, Idle, Ready, OpenOK
  <1>6. CASE Save
    BY <1>6, StepFacts DEF Save, DocInv, Idle, Ready, OpenOK
  <1>7. ASSUME NEW id \in Id, DeleteRecord(id)
        PROVE  FilesThere'
    <2>1. step'.at = "delete_header"
      BY <1>7, DeleteIs DEF DocInv
    <2> QED
      BY <1>7, <2>1 DEF DeleteRecord, Ready, DocInv
  <1>8. CASE DeleteHeader
    BY <1>8, StepFacts DEF DeleteHeader, DocInv, Idle, Ready, OpenOK
  <1>9. CASE DeleteText
    BY <1>9, StepFacts DEF DeleteText, DocInv, Idle, Ready, OpenOK
  <1>10. CASE CompactCopy
    <2>1. step'.at = "swap_entry"
      BY <1>10, CopyFacts DEF DocInv
    <2> QED
      BY <1>10, <2>1 DEF CompactCopy, Ready, DocInv
  <1>11. CASE RemoveEntryFile
    BY <1>11, StepFacts DEF RemoveEntryFile, SwapSteps, OpenOK, DocInv
  <1>12. CASE RemoveTextFile
    BY <1>12, StepFacts DEF RemoveTextFile, SwapSteps, OpenOK, DocInv
  <1>13. CASE RenameEntry
    BY <1>13, StepFacts DEF RenameEntry, SwapSteps, OpenOK, DocInv
  <1>14. CASE RenameText
    BY <1>14, StepFacts DEF RenameText, SwapSteps, OpenOK, DocInv
  <1>15. CASE Reopen
    BY <1>15, StepFacts DEF Reopen, DocInv, Idle, Ready, OpenOK
  <1>16. CASE CopyFails
    BY <1>16, StepFacts DEF CopyFails, DocInv, Idle, Ready, OpenOK
  <1>17. CASE SwapFails
    BY <1>17, StepFacts DEF SwapFails, DocInv, Idle, Ready, OpenOK
  <1>a. CASE WriteFails
    BY <1>a, StepFacts DEF WriteFails, DocInv, Idle, Ready, OpenOK
  <1>b. CASE HeaderFails
    BY <1>b, StepFacts DEF HeaderFails, DocInv, Idle, Ready, OpenOK
  <1>c. CASE RetryHeader
    BY <1>c, StepFacts DEF RetryHeader, DocInv, Idle, Ready, OpenOK
  <1>18. CASE Crash
    BY <1>18, StepFacts DEF Crash, DocInv, Idle, Ready, OpenOK
  <1>19. CASE OpenFiles
    BY <1>19, StepFacts DEF OpenFiles, DocInv, Idle, Ready, OpenOK
  <1>20. CASE CreateEntryFile
    BY <1>20 DEF CreateEntryFile, EmptyEntry, DocInv, OpenOK, Idle
  <1>21. CASE CreateTextFile
    BY <1>21, StepFacts DEF CreateTextFile, DocInv, Idle, Ready, OpenOK
  <1>22. CASE RefuseToStart
    BY <1>22, StepFacts DEF RefuseToStart, DocInv, Idle, Ready, OpenOK
  <1> QED
    BY <1>1, <1>2, <1>3, <1>4, <1>5, <1>6, <1>7, <1>8, <1>9, <1>10, <1>11, <1>12, <1>13, <1>14, <1>15, <1>16, <1>17, <1>a, <1>b, <1>c, <1>18, <1>19, <1>20, <1>21, <1>22 DEF Next

\* A file that grows still reaches behind the start of every text.
LEMMA WithinMore ==
    ASSUME NEW recs \in Seq(Record), NEW n \in Nat, NEW m \in Nat, Within(recs, n), n <= m
    PROVE  Within(recs, m)
  <1> SUFFICES ASSUME NEW i \in 1 .. Len(recs)
               PROVE  recs[i].off <= m
    BY DEF Within
  <1>1. recs[i] \in Record
    OBVIOUS
  <1> QED
    BY <1>1 DEF Within, Record

\* A record is appended whose text starts behind the others.
LEMMA OrderedAppend ==
    ASSUME NEW recs \in Seq(Record), NEW rec \in Record, NEW n \in Nat,
           Ordered(recs), Within(recs, rec.off), Within(recs, n), rec.off <= n
    PROVE  Ordered(Append(recs, rec)) /\ Within(Append(recs, rec), n)
  <1> DEFINE new == Append(recs, rec)
  <1>1. /\ Len(recs) \in Nat /\ Len(new) = Len(recs) + 1 /\ new[Len(recs) + 1] = rec
        /\ \A i \in 1 .. Len(recs) : new[i] = recs[i]
    OBVIOUS
  <1> HIDE DEF new
  <1>2. \A i \in 1 .. Len(recs) + 1 : i \in 1 .. Len(recs) \/ i = Len(recs) + 1
    BY <1>1
  <1>3. Within(new, n)
    BY <1>1, <1>2 DEF Within
  <1>4. Ordered(new)
    <2> SUFFICES ASSUME NEW i \in 1 .. Len(recs) + 1, NEW j \in 1 .. Len(recs) + 1, i < j
                 PROVE  new[i].off <= new[j].off
      BY <1>1 DEF Ordered
    <2>1. i \in 1 .. Len(recs)
      BY <1>1
    <2>2. CASE j = Len(recs) + 1
      BY <1>1, <2>1, <2>2 DEF Within
    <2>3. CASE j \in 1 .. Len(recs)
      BY <1>1, <2>1, <2>3 DEF Ordered
    <2> QED
      BY <1>2, <2>2, <2>3
  <1> QED
    BY <1>3, <1>4 DEF new

LEMMA EmptyOrdered ==
    ASSUME NEW n
    PROVE  Ordered(EmptyEntry.recs) /\ Within(EmptyEntry.recs, n)
  <1>1. Len(EmptyEntry.recs) = 0 /\ \A i : i \notin 1 .. 0
    BY DEF EmptyEntry
  <1> QED
    BY <1>1 DEF Ordered, Within

\* The texts stay in the order of the records.
LEMMA OrderStep ==
    ASSUME IInv, DocInv, [Next]_vars
    PROVE  OrderOK'
  <1> USE DEF OrderOK, disk, ram, IInv
  <1>1. CASE UNCHANGED vars
    BY <1>1 DEF vars, DocInv
  <1>2. ASSUME NEW id \in Id, NEW v \in Val, WriteText(id, v)
        PROVE  OrderOK'
    <2>1. /\ step'.at = "write_record" /\ step'.rec.off = Len(AllText)
          /\ Len(text_file) \in Nat /\ Len(AllText) \in Nat
          /\ Len(text_file) <= Len(AllText) /\ Len(AllText) <= Len(text_file')
          /\ text_file' \in Seq(Cell)
      BY <1>2, WriteFacts DEF DocInv
    <2>2. Within(entry_file.recs, Len(text_file)) /\ entry_file.recs \in Seq(Record)
      BY <1>2 DEF WriteText, Ready, DocInv, FilesThere, TypesOK
    <2>3. Len(text_file') \in Nat
      BY <2>1
    <2>4. Within(entry_file.recs, Len(AllText))
      BY <2>1, <2>2, WithinMore
    <2>5. Within(entry_file.recs, Len(text_file'))
      BY <2>1, <2>3, <2>4, <2>2, WithinMore
    <2> QED
      BY <1>2, <2>1, <2>4, <2>5 DEF WriteText, DocInv
  <1>3. CASE WriteRecord
    <2>1. /\ step'.at = "write_header"
          /\ entry_file'.recs = Append(entry_file.recs, step.rec)
      BY <1>3, StepFacts
    <2>2. step.at = "write_record" /\ text_file' = text_file /\ exists' = exists
      BY <1>3 DEF WriteRecord
    <2>3. step.rec \in Record /\ entry_file.recs \in Seq(Record) /\ Len(text_file) \in Nat
      BY <2>2 DEF DocInv, TypesOK, RecordSteps
    <2>4. "text" \in exists
      BY <2>2 DEF DocInv, FilesThere, OpenOK, RecordSteps
    <2>5. /\ Ordered(Append(entry_file.recs, step.rec))
          /\ Within(Append(entry_file.recs, step.rec), Len(text_file))
      BY <2>2, <2>3, <2>4, OrderedAppend DEF DocInv
    <2> QED
      BY <2>1, <2>2, <2>5
  <1>4. CASE WriteHeader
    BY <1>4, StepFacts DEF WriteHeader, DocInv, Idle, Ready, OpenOK
  <1>5. CASE ReadText
    <2>1. /\ entry_file.recs \in Seq(Record) /\ Len(text_file) \in Nat /\ Len(AllText) \in Nat
          /\ Len(text_file) <= Len(AllText)
      BY DEF DocInv, TypesOK, AllText
    <2>2. "text" \in exists => Within(entry_file.recs, Len(AllText))
      BY <2>1, WithinMore DEF DocInv
    <2> QED
      BY <1>5, <2>2 DEF ReadText, Ready, Idle, DocInv
  <1>6. CASE Save
    BY <1>6, StepFacts DEF Save, DocInv, Idle, Ready, OpenOK
  <1>7. ASSUME NEW id \in Id, DeleteRecord(id)
        PROVE  OrderOK'
    <2>1. PICK i \in Nat : /\ i < Len(entry_file.recs) /\ step'.at = "delete_header"
                          /\ entry_file'.recs = Dead(entry_file.recs, i)
      BY <1>7, DeleteIs DEF DocInv
    <2>2. /\ Len(Dead(entry_file.recs, i)) = Len(entry_file.recs)
          /\ \A j \in 1 .. Len(entry_file.recs) : Dead(entry_file.recs, i)[j].off = entry_file.recs[j].off
      BY <2>1, TombstoneIs DEF DocInv, TypesOK
    <2>3. /\ Ordered(Dead(entry_file.recs, i))
          /\ "text" \in exists => Within(Dead(entry_file.recs, i), Len(text_file))
      BY <2>2 DEF DocInv, Ordered, Within
    <2> QED
      BY <1>7, <2>1, <2>3 DEF DeleteRecord
  <1>8. CASE DeleteHeader
    BY <1>8, StepFacts DEF DeleteHeader, DocInv, Idle, Ready, OpenOK
  <1>9. CASE DeleteText
    <2>1. step.rec.off \in Nat /\ AllText \in Seq(Cell) /\ text_file \in Seq(Cell)
      BY <1>9 DEF DeleteText, RecordSteps, Record, DocInv, TypesOK, AllText
    <2>2. /\ WriteByte(AllText, step.rec.off, 0) \in Seq(Cell)
          /\ Len(AllText) <= Len(WriteByte(AllText, step.rec.off, 0))
      BY <2>1, WriteByteIs
    <2>3. text_file' = WriteByte(AllText, step.rec.off, 0) /\ entry_file' = entry_file /\ exists' = exists
      BY <1>9 DEF DeleteText
    <2>4. /\ Len(text_file) \in Nat /\ Len(text_file') \in Nat /\ Len(text_file) <= Len(text_file')
      <3>1. Len(text_file) <= Len(AllText) /\ Len(AllText) \in Nat /\ Len(text_file) \in Nat
        BY DEF DocInv, TypesOK, AllText
      <3>2. Len(text_file') \in Nat
        BY <2>2, <2>3
      <3> QED
        BY <2>2, <2>3, <3>1, <3>2
    <2>5. "text" \in exists => Within(entry_file.recs, Len(text_file'))
      BY <2>4, WithinMore DEF DocInv, TypesOK
    <2> QED
      BY <1>9, <2>3, <2>5 DEF DeleteText, Idle, DocInv
  <1>10. CASE CompactCopy
    <2>1. /\ step'.at = "swap_entry"
          /\ Ordered(temp_entry'.recs) /\ Within(temp_entry'.recs, Len(temp_text'))
      BY <1>10, CopyFacts DEF DocInv
    <2>2. /\ entry_file.recs \in Seq(Record) /\ Len(text_file) \in Nat /\ Len(AllText) \in Nat
          /\ Len(text_file) <= Len(AllText)
      BY DEF DocInv, TypesOK, AllText
    <2>3. Within(entry_file.recs, Len(AllText))
      BY <1>10, <2>2, WithinMore DEF CompactCopy, Ready, DocInv, FilesThere
    <2>4. text_file' = AllText /\ entry_file' = entry_file
      BY <1>10 DEF CompactCopy
    <2> QED
      BY <2>1, <2>3, <2>4 DEF DocInv
  <1>11. CASE RemoveEntryFile
    <2>1. step'.at = "swap_text" /\ step.at = "swap_entry"
      BY <1>11, StepFacts DEF RemoveEntryFile
    <2> QED
      BY <1>11, <2>1, EmptyOrdered DEF RemoveEntryFile, DocInv
  <1>12. CASE RemoveTextFile
    <2>1. step'.at = "rename_entry" /\ step.at = "swap_text"
      BY <1>12, StepFacts DEF RemoveTextFile
    <2> QED
      BY <1>12, <2>1 DEF RemoveTextFile, DocInv
  <1>13. CASE RenameEntry
    <2>1. step'.at = "rename_text" /\ step.at = "rename_entry"
      BY <1>13, StepFacts DEF RenameEntry
    <2>2. "text" \notin exists'
      BY <1>13, <2>1 DEF RenameEntry, DocInv, FilesThere
    <2> QED
      BY <1>13, <2>1, <2>2 DEF RenameEntry, DocInv
  <1>14. CASE RenameText
    <2>1. step'.at = "reopen" /\ step.at = "rename_text"
      BY <1>14, StepFacts DEF RenameText
    <2> QED
      BY <1>14, <2>1 DEF RenameText, DocInv
  <1>15. CASE Reopen
    BY <1>15, StepFacts DEF Reopen, DocInv, Idle, Ready, OpenOK
  <1>16. CASE CopyFails
    BY <1>16, StepFacts DEF CopyFails, DocInv, Idle, Ready, OpenOK
  <1>17. CASE SwapFails
    BY <1>17, StepFacts DEF SwapFails, DocInv, Idle, Ready, OpenOK
  <1>a. CASE WriteFails
    BY <1>a, StepFacts DEF WriteFails, DocInv, Idle, Ready, OpenOK
  <1>b. CASE HeaderFails
    BY <1>b, StepFacts DEF HeaderFails, DocInv, Idle, Ready, OpenOK
  <1>c. CASE RetryHeader
    BY <1>c, StepFacts DEF RetryHeader, DocInv, Idle, Ready, OpenOK
  <1>18. CASE Crash
    BY <1>18, StepFacts DEF Crash, DocInv, Idle, Ready, OpenOK
  <1>19. CASE OpenFiles
    BY <1>19, StepFacts DEF OpenFiles, DocInv, Idle, Ready, OpenOK
  <1>20. CASE CreateEntryFile
    BY <1>20, EmptyOrdered DEF CreateEntryFile, DocInv
  <1>21. CASE CreateTextFile
    <2>1. entry_file.recs = EmptyEntry.recs
      BY <1>21 DEF CreateTextFile, DocInv, FilesThere, EmptyEntry
    <2> QED
      BY <1>21, <2>1, EmptyOrdered DEF CreateTextFile, Idle, DocInv
  <1>22. CASE RefuseToStart
    BY <1>22, StepFacts DEF RefuseToStart, DocInv, Idle, Ready, OpenOK
  <1> QED
    BY <1>1, <1>2, <1>3, <1>4, <1>5, <1>6, <1>7, <1>8, <1>9, <1>10, <1>11, <1>12, <1>13, <1>14, <1>15, <1>16, <1>17, <1>a, <1>b, <1>c, <1>18, <1>19, <1>20, <1>21, <1>22 DEF Next

-----------------------------------------------------------------------------
(* The theorems.                                                           *)

\* A process that finds nothing to open satisfies the invariant.
LEMMA DocInit == Init => DocInv
  <1> SUFFICES ASSUME Init PROVE DocInv
    OBVIOUS
  <1>1. \A R : <<>> \in Seq(R)
    OBVIOUS
  <1>2. TypesOK
    BY <1>1 DEF Init, TypesOK, EmptyEntry, Idle, RecordSteps
  <1>3. KeptOK /\ InsertOK
    BY DEF Init, KeptOK, InsertOK, Idle
  <1>4. FilesThere
    BY DEF Init, FilesThere, Idle
  <1>5. OrderOK
    BY EmptyOrdered DEF Init, OrderOK, Idle
  <1> QED
    BY <1>2, <1>3, <1>4, <1>5 DEF DocInv

\* In every state the counts agree (IInv), the values in the files and the
\* members have their types, the files needed by the step in progress exist, the
\* records are laid out in the order of their texts, and a compaction or an
\* insert in progress still has what it promised to keep. Everything below
\* follows from this invariant.
THEOREM DocInductive == Spec => [](IInv /\ DocInv)
  <1>1. IInv /\ DocInv /\ [Next]_vars => DocInv'
    BY TypesStep, KeptStep, InsertStep, ThereStep, OrderStep DEF DocInv
  <1> QED
    BY DocInit, Inductive, <1>1, PTL DEF Spec

\* The types of the files and of the members.
THEOREM TypeCorrect == Spec => []TypeOK
  <1>1. IInv /\ DocInv => TypeOK
    BY DEF IInv, FilesOK, StepOK, RecordSteps, DocInv, TypesOK, TypeOK
  <1> QED
    BY DocInductive, <1>1, PTL

\* Whatever part of the swap has been done, and whichever step of it fails,
\* everything that was readable before the compaction is readable in the new
\* generation of files.
THEOREM CompactionKept == Spec => []CompactionKeepsContents
  <1>1. DocInv => CompactionKeepsContents
    BY DEF DocInv, KeptOK, CompactionKeepsContents, SwapSteps
  <1> QED
    BY DocInductive, <1>1, PTL

\* What the record that WriteHeader makes visible holds.
LEMMA InsertDelivers ==
    ASSUME IInv, DocInv, [Next]_vars, WriteHeader, Len(entry_file.recs) <= header.total + 1
    PROVE  \E k \in DOMAIN docs' :
               docs'[k].id = step.rec.id /\ docs'[k].text = Text(step.rec.val)
  <1> DEFINE recs == entry_file.recs
             all == AllText
             h == header'
             m == Len(recs) - 1
             S == Readable(h, recs, all)
             t == Text(step.rec.val)
  <1>1. step.at = "write_header" /\ step' = Idle
    BY StepFacts DEF WriteHeader
  <1>2. docs' = Contents(h, recs, all)
    <2>1. entry_file'.recs = recs /\ entry_file'.header = h
      BY StepFacts
    <2>2. AllText' = all
      BY DEF WriteHeader, AllText
    <2> QED
      BY <1>1, <2>1, <2>2 DEF docs, Idle, SwapSteps
  <1>3. recs \in Seq(Record) /\ all \in Seq(Cell) /\ step.rec \in Record
    BY <1>1 DEF DocInv, TypesOK, RecordSteps, AllText
  <1>4. /\ step.rec.flag = 1 /\ step.rec.val \in Val /\ step.rec.len = Len(t)
        /\ Placed(all, step.rec.off, t)
        /\ Len(recs) # 0 /\ recs[Len(recs)] = step.rec
    BY <1>1 DEF DocInv, InsertOK
  <1>5. m \in Nat /\ m + 1 = Len(recs) /\ m < Len(recs) /\ m < h.total
    <2>1. h.total = header.total + 1 /\ header.total \in Nat
      BY DEF WriteHeader, IInv, FilesOK, Header
    <2>2. Len(recs) \in Nat
      BY <1>3
    <2> QED
      BY <1>4, <2>1, <2>2
  <1>6. t \in Seq(Cell) /\ step.rec.off \in Nat
    BY <1>3, <1>4, TextIs DEF Record
  <1> HIDE DEF recs, all, h, t
  <1>7. text_readable(all, step.rec.off, step.rec.len) /\ text_at(all, step.rec.off, step.rec.len) = t
    BY <1>3, <1>4, <1>6, PlacedText
  <1> HIDE DEF m
  <1>8. m \in S
    <2>1. m \in 0 .. Len(recs) - 1
      BY <1>5
    <2>2. entry_readable(h, recs, all, m)
      BY <1>4, <1>5, <1>7 DEF entry_readable
    <2> QED
      BY <2>1, <2>2 DEF Readable
  <1>9. /\ S \in SUBSET (0 .. Len(recs) - 1) /\ Len(recs) \in Nat
        /\ Contents(h, recs, all) \in Seq(Document)
        /\ Len(Contents(h, recs, all)) = Cardinality(S)
    BY <1>3, ContentsIs
  <1>10. \A k \in 1 .. Cardinality(S) :
             Nth(S, k) \in S /\ Contents(h, recs, all)[k] = DocAt(recs, all, Nth(S, k))
    BY <1>3, ContentsIs
  <1> HIDE DEF S
  <1>11. PICK k \in 1 .. Cardinality(S) : Nth(S, k) = m
    BY <1>8, <1>9, NthOf
  <1>12. docs'[k] = DocAt(recs, all, m) /\ k \in DOMAIN docs'
    <2>1. docs'[k] = DocAt(recs, all, m)
      BY <1>2, <1>10, <1>11
    <2>2. DOMAIN docs' = 1 .. Cardinality(S)
      BY <1>2, <1>9, LenProperties
    <2> QED
      BY <2>1, <2>2
  <1>13. docs'[k].id = step.rec.id /\ docs'[k].text = t
    BY <1>4, <1>5, <1>7, <1>12 DEF DocAt
  <1> QED
    BY <1>12, <1>13 DEF t

\* When write_entry returns true the running process reads the new document
\* back, unless a kill has left a record beyond the total of the header.
THEOREM InsertKept == Spec => InsertIsReadable
  <1>1. IInv /\ DocInv /\ [Next]_vars =>
            [WriteHeader /\ Len(entry_file.recs) <= header.total + 1 =>
                \E k \in DOMAIN docs' :
                    docs'[k].id = step.rec.id /\ docs'[k].text = Text(step.rec.val)]_vars
    BY InsertDelivers
  <1> QED
    BY DocInductive, <1>1, PTL DEF Spec, InsertIsReadable

\* A tombstone takes out the document of the first live record of the id, if
\* that record is readable.
LEMMA TombstoneRemoves ==
    ASSUME IInv, DocInv, [Next]_vars, NEW id, DeleteRecord(id)
    PROVE  Log!Remove(id) \/ docs' = docs
  <1> DEFINE recs == entry_file.recs
             all == AllText
             h == header
             i == find_by_id(id)
             S == Readable(h, recs, all)
  <1>1. Found(id) \in SUBSET Nat /\ Found(id) # {}
    BY DEF DeleteRecord, Found, IInv, FilesOK, Header
  <1>2. i \in Found(id) /\ \A j \in Found(id) : i <= j
    <2>1. \E m \in Found(id) : \A j \in Found(id) : m <= j
      BY <1>1, LeastElement
    <2> QED
      BY <2>1 DEF find_by_id
  <1>3. \A j : j \in Found(id) <=> /\ j \in 0 .. h.total - 1 /\ j < Len(recs)
                                  /\ recs[j + 1].flag = 1 /\ recs[j + 1].id = id
    BY DEF Found
  <1>4. recs \in Seq(Record) /\ all \in Seq(Cell) /\ h \in Header /\ h = entry_file.header /\ step = Idle
    BY DEF DocInv, TypesOK, AllText, IInv, FilesOK, CountOK, DeleteRecord, Ready, Idle
  <1>5. entry_file' = [header |-> h, recs |-> Dead(recs, i)] /\ step'.at = "delete_header"
    <2>1. entry_file = [header |-> entry_file.header, recs |-> entry_file.recs]
      BY DEF IInv, FilesOK
    <2>2. entry_file' = [entry_file EXCEPT !.recs[i + 1].flag = 0]
      BY DEF DeleteRecord
    <2>3. step'.at = "delete_header"
      BY DEF DeleteRecord
    <2> QED
      BY <1>4, <2>1, <2>2, <2>3 DEF Dead
  <1>6. AllText' = all
    BY DEF DeleteRecord, AllText
  <1>7. docs = Contents(h, recs, all) /\ docs' = Contents(h, Dead(recs, i), all)
    BY <1>4, <1>5, <1>6 DEF docs, Idle, SwapSteps
  <1> HIDE DEF recs, all, h, i
  <1>8. i \in Nat /\ i < Len(recs) /\ i < h.total /\ recs[i + 1].id = id
    BY <1>1, <1>2, <1>3, <1>4 DEF Header
  <1>9. /\ Dead(recs, i) \in Seq(Record) /\ Len(Dead(recs, i)) = Len(recs) /\ Len(recs) \in Nat
        /\ \A j \in 1 .. Len(recs) : j # i + 1 => Dead(recs, i)[j] = recs[j]
        /\ Dead(recs, i)[i + 1].flag = 0
    BY <1>4, <1>8, TombstoneIs
  <1> DEFINE T == Readable(h, Dead(recs, i), all)
  <1>10. T = S \ {i}
    <2>1. ASSUME NEW j \in 0 .. Len(recs) - 1, j # i
          PROVE  entry_readable(h, Dead(recs, i), all, j) <=> entry_readable(h, recs, all, j)
      <3>1. j + 1 \in 1 .. Len(recs) /\ j + 1 # i + 1
        BY <1>8, <1>9, <2>1
      <3> QED
        BY <1>9, <3>1 DEF entry_readable
    <2>2. ~entry_readable(h, Dead(recs, i), all, i)
      BY <1>9 DEF entry_readable
    <2> QED
      BY <1>9, <2>1, <2>2 DEF Readable
  <1>11. /\ S \in SUBSET (0 .. Len(recs) - 1) /\ Cardinality(S) \in Nat /\ Len(recs) \in Nat
         /\ Contents(h, recs, all) \in Seq(Document)
         /\ Len(Contents(h, recs, all)) = Cardinality(S)
    BY <1>4, ContentsIs
  <1>12. \A k \in 1 .. Cardinality(S) :
             Nth(S, k) \in S /\ Contents(h, recs, all)[k] = DocAt(recs, all, Nth(S, k))
    BY <1>4, ContentsIs
  <1>13. \A j \in T : DocAt(Dead(recs, i), all, j) = DocAt(recs, all, j)
    <2> SUFFICES ASSUME NEW j \in T
                 PROVE  DocAt(Dead(recs, i), all, j) = DocAt(recs, all, j)
      OBVIOUS
    <2>1. j \in 0 .. Len(recs) - 1 /\ j # i
      BY <1>10, <1>11
    <2>2. j + 1 \in 1 .. Len(recs) /\ j + 1 # i + 1
      BY <1>8, <1>9, <2>1
    <2> QED
      BY <1>9, <2>2 DEF DocAt
  <1>14. CASE i \notin S
    <2>1. T = S
      BY <1>10, <1>14
    <2>2. \A j \in S : DocAt(Dead(recs, i), all, j) = DocAt(recs, all, j)
      BY <1>13, <2>1
    <2>3. Contents(h, Dead(recs, i), all) = Contents(h, recs, all)
      BY <1>4, <1>9, <2>1, <2>2, ContentsSame
    <2> QED
      BY <1>7, <2>3
  <1>15. CASE i \in S
    <2>1. PICK k \in 1 .. Cardinality(S) : Nth(S, k) = i
      <3> HIDE DEF S
      <3> QED
        BY <1>11, <1>15, NthOf
    <2>2. T = S \ {Nth(S, k)}
      BY <1>10, <2>1
    <2>3. docs' = SubSeq(docs, 1, k - 1) \o SubSeq(docs, k + 1, Len(docs))
      <3> DEFINE C == Contents(h, recs, all)
      <3>1. Contents(h, Dead(recs, i), all) = SubSeq(C, 1, k - 1) \o SubSeq(C, k + 1, Len(C))
        <4> DEFINE news == Dead(recs, i)
        <4>1. recs \in Seq(Record) /\ news \in Seq(Record) /\ all \in Seq(Cell)
          BY <1>4, <1>9
        <4>2. k \in 1 .. Cardinality(Readable(h, recs, all))
          OBVIOUS
        <4>3. Readable(h, news, all) = Readable(h, recs, all) \ {Nth(Readable(h, recs, all), k)}
          BY <2>2
        <4>4. \A j \in Readable(h, news, all) : DocAt(news, all, j) = DocAt(recs, all, j)
          BY <1>13
        <4> HIDE DEF news
        <4>5. ReadsLess(h, recs, all, h, news, all, k)
          BY <4>2, <4>3, <4>4 DEF ReadsLess
        <4>6. Contents(h, news, all) = AllBut(Contents(h, recs, all), k)
          BY <4>1, <4>5, ContentsRemove
        <4> QED
          BY <4>6 DEF news, AllBut
      <3> QED
        BY <1>7, <3>1
    <2> HIDE DEF S, T
    <2>4. k \in DOMAIN docs
      <3>1. DOMAIN docs = 1 .. Cardinality(S)
        BY <1>7, <1>11, LenProperties
      <3> QED
        BY <3>1
    <2>5. docs[k].id = id
      <3>1. docs[k] = DocAt(recs, all, i)
        BY <1>7, <1>12, <2>1
      <3>2. DocAt(recs, all, i).id = id
        BY <1>8 DEF DocAt
      <3> QED
        BY <3>1, <3>2
    <2>6. ASSUME NEW j \in 1 .. k - 1
          PROVE  docs[j].id # id
      <3>1. j \in 1 .. Cardinality(S) /\ j < k
        BY <1>11
      <3>2. Nth(S, j) < i /\ Nth(S, j) \in S
        BY <1>11, <1>12, <2>1, <3>1, NthOrder
      <3>3. docs[j].id = recs[Nth(S, j) + 1].id
        <4>1. docs[j] = DocAt(recs, all, Nth(S, j))
          BY <1>7, <1>12, <3>1
        <4>2. DocAt(recs, all, Nth(S, j)).id = recs[Nth(S, j) + 1].id
          BY DEF DocAt
        <4> QED
          BY <4>1, <4>2
      <3>4. /\ Nth(S, j) \in 0 .. Len(recs) - 1 /\ Nth(S, j) < h.total
            /\ recs[Nth(S, j) + 1].flag = 1
        BY <3>2 DEF S, Readable, entry_readable
      <3>5. h.total \in Nat
        BY <1>4 DEF Header
      <3>6. Nth(S, j) \in 0 .. h.total - 1 /\ Nth(S, j) < Len(recs)
        BY <1>9, <3>4, <3>5
      <3>7. ~(i <= Nth(S, j))
        BY <1>8, <3>2, <3>6
      <3> QED
        BY <1>2, <1>3, <3>3, <3>4, <3>6, <3>7
    <2> QED
      BY <2>3, <2>4, <2>5, <2>6 DEF Log!Remove
  <1> QED
    BY <1>14, <1>15

\* The zero written into the flag of a text reaches no other text.
LEMMA ZeroIsOwn ==
    ASSUME IInv, DocInv, [Next]_vars, DeleteText, Intact({step.rec})
    PROVE  docs' = docs
  <1> DEFINE recs == entry_file.recs
             all == AllText
             h == entry_file.header
             off == step.rec.off
             new == WriteByte(all, off, 0)
             S == Readable(h, recs, all)
             T == Readable(h, recs, new)
  <1>1. step.at = "delete_text" /\ step' = Idle /\ entry_file' = entry_file
    BY DEF DeleteText
  <1>2. recs \in Seq(Record) /\ all \in Seq(Cell) /\ step.rec \in Record
    BY <1>1 DEF DocInv, TypesOK, AllText, RecordSteps
  <1>3. off \in Nat /\ step.rec.len \in Nat
    BY <1>2 DEF Record
  <1>4. /\ text_readable(all, off, step.rec.len)
        /\ \A i \in Flagged(h, recs) : /\ Apart(step.rec, recs[i + 1])
                                       /\ text_readable(all, recs[i + 1].off, recs[i + 1].len)
    BY DEF Intact
  <1>5. new \in Seq(Cell) /\ Len(new) = Len(all) /\ \A j \in 1 .. Len(all) : j # off + 1 => new[j] = all[j]
    <2>1. off < Len(all)
      BY <1>2, <1>3, <1>4 DEF text_readable
    <2> HIDE DEF new
    <2>2. /\ WriteByte(all, off, 0) \in Seq(Cell)
          /\ off < Len(all) => Len(WriteByte(all, off, 0)) = Len(all)
          /\ \A j \in 1 .. Len(all) : j # off + 1 => WriteByte(all, off, 0)[j] = all[j]
      BY <1>2, <1>3, WriteByteIs
    <2> QED
      BY <2>1, <2>2 DEF new
  <1>6. docs = Contents(h, recs, all) /\ docs' = Contents(h, recs, new)
    <2>1. AllText' = new
      <3>1. text_file' = new /\ text_buffer' = <<>>
        BY DEF DeleteText
      <3> HIDE DEF new
      <3> QED
        BY <1>5, <3>1, ConcatEmptySeq DEF AllText
    <2> QED
      BY <1>1, <2>1 DEF docs, Idle, SwapSteps
  <1> HIDE DEF recs, all, h, off, new
  <1>7. ASSUME NEW i \in Flagged(h, recs)
        PROVE  /\ text_readable(new, recs[i + 1].off, recs[i + 1].len)
               /\ DocAt(recs, new, i) = DocAt(recs, all, i)
    <2>1. i \in Nat /\ i < Len(recs) /\ i + 1 \in 1 .. Len(recs)
      BY <1>2 DEF Flagged
    <2>2. recs[i + 1].off \in Nat /\ recs[i + 1].len \in Nat
      <3>1. recs[i + 1] \in Record
        BY <1>2, <2>1
      <3> QED
        BY <3>1 DEF Record
    <2>3. text_readable(all, recs[i + 1].off, recs[i + 1].len)
      BY <1>4
    <2>4. recs[i + 1].off + 1 + recs[i + 1].len <= Len(all)
      BY <2>3 DEF text_readable
    <2>5. off + step.rec.len < recs[i + 1].off \/ recs[i + 1].off + recs[i + 1].len < off
      BY <1>4 DEF Apart, off
    <2>6. \A j \in recs[i + 1].off + 1 .. recs[i + 1].off + 1 + recs[i + 1].len :
              j \in 1 .. Len(all) /\ j # off + 1
      <3> DEFINE a == recs[i + 1].off
                 b == recs[i + 1].len
      <3>1. a \in Nat /\ b \in Nat /\ Len(all) \in Nat /\ a + 1 + b <= Len(all)
        BY <1>2, <2>2, <2>4
      <3>2. off + step.rec.len < a \/ a + b < off
        BY <2>5
      <3> HIDE DEF a, b
      <3> SUFFICES ASSUME NEW j \in a + 1 .. a + 1 + b
                   PROVE  j \in 1 .. Len(all) /\ j # off + 1
        BY DEF a, b
      <3>3. j \in 1 .. Len(all)
        BY <3>1
      <3>4. j # off + 1
        BY <1>3, <3>1, <3>2
      <3> QED
        BY <3>3, <3>4
    <2>7. \A j \in recs[i + 1].off + 1 .. recs[i + 1].off + 1 + recs[i + 1].len : all[j] = new[j]
      BY <1>5, <2>6
    <2>8. recs[i + 1].off + 1 + recs[i + 1].len <= Len(new)
      BY <1>5, <2>4
    <2>9. recs[i + 1] = recs[i + 1]
      OBVIOUS
    <2>10. /\ text_readable(new, recs[i + 1].off, recs[i + 1].len)
                <=> text_readable(all, recs[i + 1].off, recs[i + 1].len)
           /\ DocAt(recs, new, i) = DocAt(recs, all, i)
      BY <1>2, <1>5, <2>1, <2>4, <2>7, <2>8, <2>9, SameCells
    <2> QED
      BY <2>3, <2>10
  <1>8. \A i \in 0 .. Len(recs) - 1 :
            entry_readable(h, recs, new, i) <=> entry_readable(h, recs, all, i)
    <2> SUFFICES ASSUME NEW i \in 0 .. Len(recs) - 1
                 PROVE  entry_readable(h, recs, new, i) <=> entry_readable(h, recs, all, i)
      OBVIOUS
    <2>1. CASE i \in Flagged(h, recs)
      BY <1>4, <1>7, <2>1 DEF entry_readable
    <2>2. CASE i \notin Flagged(h, recs)
      BY <2>2 DEF entry_readable, Flagged
    <2> QED
      BY <2>1, <2>2
  <1>9. T = S /\ \A i \in S : i \in Flagged(h, recs)
    BY <1>8 DEF Readable, Flagged, entry_readable
  <1>10. \A i \in S : DocAt(recs, new, i) = DocAt(recs, all, i)
    BY <1>7, <1>9
  <1>11. Contents(h, recs, new) = Contents(h, recs, all)
    BY <1>2, <1>5, <1>9, <1>10, ContentsSame
  <1> QED
    BY <1>6, <1>11

\* A tombstone takes out one document of its id, and the zero in the text file
\* none.
THEOREM DeleteKept == Spec => DeleteTouchesOneId
  <1>1. IInv /\ DocInv /\ [Next]_vars =>
            [/\ \A id \in Id : DeleteRecord(id) => Log!Remove(id) \/ docs' = docs
             /\ DeleteText /\ Intact({step.rec}) => docs' = docs]_vars
    BY TombstoneRemoves, ZeroIsOwn
  <1> QED
    BY DocInductive, <1>1, PTL DEF Spec, DeleteTouchesOneId

\* A text that ends within the shorter of two files is the same in both.
LEMMA SameBefore ==
    ASSUME NEW old, NEW all, Len(old) \in Nat, \A j \in 1 .. Len(old) : all[j] = old[j],
           NEW o \in Nat, NEW l \in Nat, o + 1 + l <= Len(old)
    PROVE  \A j \in o + 1 .. o + 1 + l : all[j] = old[j]
  <1>1. \A j \in o + 1 .. o + 1 + l : j \in 1 .. Len(old)
    <2> DEFINE n == Len(old)
    <2>1. n \in Nat /\ o + 1 + l <= n
      OBVIOUS
    <2> HIDE DEF n
    <2>2. \A j \in o + 1 .. o + 1 + l : j \in 1 .. n
      BY <2>1
    <2> QED
      BY <2>2 DEF n
  <1> QED
    BY <1>1

\* A kill takes nothing that a text file on disk holds: only the last text can
\* still be in the stream.
LEMMA KillTakesTheLast ==
    ASSUME IInv, DocInv, Crash, step = Idle, Intact({})
    PROVE  docs' \in {docs, SubSeq(docs, 1, Len(docs) - 1)}
  <1> DEFINE recs == entry_file.recs
             h == entry_file.header
             all == AllText
             old == text_file
             S == Readable(h, recs, all)
             T == Readable(h, recs, old)
  <1>1. /\ recs \in Seq(Record) /\ old \in Seq(Cell) /\ text_buffer \in Seq(Cell) /\ all \in Seq(Cell)
        /\ Len(recs) \in Nat
    BY DEF DocInv, TypesOK, AllText
  <1>2. docs = Contents(h, recs, all) /\ docs' = Contents(h, recs, old)
    <2>1. text_file' = text_file /\ entry_file' = entry_file /\ step' = Idle /\ text_buffer' = <<>>
      BY DEF Crash, disk
    <2>2. AllText' = old
      BY <1>1, <2>1, ConcatEmptySeq DEF AllText
    <2> QED
      BY <2>1, <2>2 DEF docs, Idle, SwapSteps
  <1>3. CASE text_buffer = <<>>
    <2>1. all = old
      BY <1>1, <1>3, ConcatEmptySeq DEF AllText
    <2> QED
      BY <1>2, <2>1
  <1>4. CASE text_buffer # <<>>
    <2>1. Within(recs, Len(old)) /\ Ordered(recs)
      BY <1>4 DEF DocInv, FilesThere, OrderOK
    <2>2. Len(old) <= Len(all) /\ \A j \in 1 .. Len(old) : all[j] = old[j]
      BY <1>1, ConcatProperties DEF AllText
    <2>3. /\ \A i \in Flagged(h, recs) : text_readable(all, recs[i + 1].off, recs[i + 1].len)
          /\ \A i, j \in Flagged(h, recs) : i # j => Apart(recs[i + 1], recs[j + 1])
      BY DEF Intact
    <2> HIDE DEF recs, h, all, old
    <2>4. S = Flagged(h, recs)
      BY <2>3 DEF Readable, entry_readable, Flagged
    <2>5. ASSUME NEW i \in S
          PROVE  /\ i \in 0 .. Len(recs) - 1 /\ i + 1 \in 1 .. Len(recs)
                 /\ recs[i + 1] \in Record /\ recs[i + 1].off \in Nat /\ recs[i + 1].len \in Nat
                 /\ recs[i + 1].off <= Len(old)
      <3>1. i \in 0 .. Len(recs) - 1 /\ i + 1 \in 1 .. Len(recs)
        BY <1>1 DEF Readable
      <3>2. recs[i + 1] \in Record
        BY <1>1, <3>1
      <3> QED
        BY <2>1, <3>1, <3>2 DEF Record, Within
    <2>6. ASSUME NEW i \in S, recs[i + 1].off + 1 + recs[i + 1].len <= Len(old)
          PROVE  i \in T /\ DocAt(recs, old, i) = DocAt(recs, all, i)
      <3>1. /\ i \in Nat /\ i < Len(recs) /\ recs[i + 1] = recs[i + 1]
            /\ recs[i + 1].off + 1 + recs[i + 1].len <= Len(all)
        BY <1>1, <2>2, <2>5, <2>6
      <3>2. \A j \in recs[i + 1].off + 1 .. recs[i + 1].off + 1 + recs[i + 1].len : all[j] = old[j]
        <4>1. recs[i + 1].off \in Nat /\ recs[i + 1].len \in Nat
          BY <2>5
        <4>2. Len(old) \in Nat
          BY <1>1
        <4>3. recs[i + 1].off + 1 + recs[i + 1].len <= Len(old)
          BY <2>6
        <4> QED
          BY <2>2, <4>1, <4>2, <4>3, SameBefore
      <3>3. /\ text_readable(old, recs[i + 1].off, recs[i + 1].len)
                 <=> text_readable(all, recs[i + 1].off, recs[i + 1].len)
            /\ DocAt(recs, old, i) = DocAt(recs, all, i)
        BY <1>1, <2>6, <3>1, <3>2, SameCells
      <3> QED
        BY <2>5, <3>3 DEF Readable, entry_readable
    <2>7. ASSUME NEW i \in T
          PROVE  i \in S /\ recs[i + 1].off + 1 + recs[i + 1].len <= Len(old)
      BY <2>4 DEF Readable, entry_readable, Flagged, text_readable
    <2>8. T \subseteq S /\ \A i \in T : DocAt(recs, old, i) = DocAt(recs, all, i)
      BY <2>6, <2>7
    <2>9. CASE T = S
      <3>1. \A i \in S : DocAt(recs, old, i) = DocAt(recs, all, i)
        BY <2>8, <2>9
      <3>2. Contents(h, recs, old) = Contents(h, recs, all)
        BY <1>1, <2>9, <3>1, ContentsSame
      <3> QED
        BY <1>2, <3>2
    <2>10. CASE T # S
      <3>1. PICK i \in S : i \notin T
        BY <2>8, <2>10
      <3>2. ASSUME NEW j \in S, j # i
            PROVE  j \in T /\ j < i
        <4>1. Apart(recs[i + 1], recs[j + 1])
          BY <2>3, <2>4, <3>2
        <4>2. ~(recs[i + 1].off + 1 + recs[i + 1].len <= Len(old))
          BY <2>6, <3>1
        <4>3. ~(j > i) \/ recs[i + 1].off <= recs[j + 1].off
          <5>1. CASE j > i
            <6>1. i + 1 \in 1 .. Len(recs) /\ j + 1 \in 1 .. Len(recs) /\ i + 1 < j + 1
              BY <2>5, <5>1
            <6> QED
              BY <2>1, <6>1 DEF Ordered
          <5> QED
            BY <5>1
        <4> DEFINE a == recs[i + 1].off
                   b == recs[i + 1].len
                   c == recs[j + 1].off
                   d == recs[j + 1].len
                   n == Len(old)
        <4>4. /\ a \in Nat /\ b \in Nat /\ c \in Nat /\ d \in Nat /\ n \in Nat
              /\ c <= n /\ a <= n /\ i \in Int /\ j \in Int
          BY <1>1, <2>5
        <4>5. a + b < c \/ c + d < a
          BY <4>1 DEF Apart
        <4>6. ~(a + 1 + b <= n) /\ (~(j > i) \/ a <= c)
          BY <4>2, <4>3
        <4> HIDE DEF a, b, c, d, n
        <4>7. c + 1 + d <= n /\ j < i
          BY <3>2, <4>4, <4>5, <4>6
        <4> QED
          BY <2>6, <4>7 DEF c, d, n
      <3> DEFINE k == Cardinality(S)
      <3>3. S \in SUBSET (0 .. Len(recs) - 1) /\ k \in Nat
        BY <1>1, ContentsIs
      <3>4. Nth(S, k) = i /\ k \in 1 .. k
        <4> HIDE DEF S
        <4>1. PICK m \in 1 .. k : Nth(S, m) = i
          BY <1>1, <3>1, <3>3, NthOf
        <4>2. m = k
          <5> SUFFICES ASSUME m # k
                       PROVE  FALSE
            OBVIOUS
          <5>1. m < k /\ k \in 1 .. k
            BY <3>3, <4>1
          <5>2. Nth(S, m) < Nth(S, k)
            BY <1>1, <3>3, <4>1, <5>1, NthOrder
          <5>4. Nth(S, k) \in S
            BY <1>1, <3>3, <5>1, NthExists
          <5>3. Nth(S, k) \in Int /\ i \in Int
            BY <1>1, <2>5, <3>1, <5>4
          <5> QED
            BY <3>2, <4>1, <5>2, <5>3, <5>4
        <4> QED
          BY <4>1, <4>2
      <3>5. T = S \ {Nth(S, k)}
        BY <2>8, <3>1, <3>2, <3>4
      <3> HIDE DEF k
      <3>6. Contents(h, recs, old) = AllBut(Contents(h, recs, all), k)
        <4>1. k \in 1 .. Cardinality(Readable(h, recs, all))
          BY <3>4 DEF k
        <4>2. Readable(h, recs, old) = Readable(h, recs, all) \ {Nth(Readable(h, recs, all), k)}
          BY <3>5
        <4>3. \A j \in Readable(h, recs, old) : DocAt(recs, old, j) = DocAt(recs, all, j)
          BY <2>8
        <4>4. ReadsLess(h, recs, all, h, recs, old, k)
          BY <4>1, <4>2, <4>3 DEF ReadsLess
        <4> QED
          BY <1>1, <4>4, ContentsRemove
      <3>7. Contents(h, recs, all) \in Seq(Document) /\ Len(Contents(h, recs, all)) = k
        BY <1>1, ContentsIs DEF k
      <3> DEFINE C == Contents(h, recs, all)
      <3>8. C \in Seq(Document) /\ Len(C) = k
        BY <3>7
      <3>9. Contents(h, recs, old) = SubSeq(C, 1, k - 1) \o SubSeq(C, k + 1, Len(C))
        BY <3>6 DEF AllBut
      <3>10. docs = C /\ docs' = Contents(h, recs, old)
        BY <1>2
      <3> HIDE DEF C
      <3>11. SubSeq(C, k + 1, Len(C)) = <<>>
        BY <3>3, <3>8
      <3>12. SubSeq(C, 1, k - 1) \in Seq(Document)
        BY <3>3, <3>4, <3>8
      <3>13. docs' = SubSeq(docs, 1, Len(docs) - 1)
        BY <3>8, <3>9, <3>10, <3>11, <3>12, ConcatEmptySeq
      <3> QED
        BY <3>13
    <2> QED
      BY <2>9, <2>10
  <1> QED
    BY <1>3, <1>4

\* Killed while no call is in progress, the store loses at most the document
\* inserted last, wherever earlier kills have left it.
THEOREM KillKept == Spec => KillLosesAtMostTheLast
  <1>1. IInv /\ DocInv /\ [Next]_vars =>
            [Crash /\ step = Idle /\ Intact({}) =>
                docs' \in {docs, SubSeq(docs, 1, Len(docs) - 1)}]_vars
    BY KillTakesTheLast
  <1> QED
    BY DocInductive, <1>1, PTL DEF Spec, KillLosesAtMostTheLast

-----------------------------------------------------------------------------
(* The log.                                                                *)

\* The texts of a file follow one another, those of dead records included.
Spaced(recs) == \A i, j \in 1 .. Len(recs) : i < j => recs[i].off + 1 + recs[i].len <= recs[j].off
Fits(recs, n) == \A i \in 1 .. Len(recs) : recs[i].off + 1 + recs[i].len <= n
Lit(recs, tf) == \A i \in 1 .. Len(recs) : recs[i].flag = 1 => tf[recs[i].off + 1] # 0
Neat(recs, tf) == Spaced(recs) /\ Fits(recs, Len(tf)) /\ Lit(recs, tf)

\* The texts of the live records have the same cells in both files.
SameTexts(recs, tf, tg) ==
    \A i \in 1 .. Len(recs) : recs[i].flag = 1 =>
        \A j \in recs[i].off + 1 .. recs[i].off + 1 + recs[i].len : tf[j] = tg[j]

\* The fields of a record in a file.
LEMMA Fields ==
    ASSUME NEW recs \in Seq(Record), NEW i \in 1 .. Len(recs)
    PROVE  recs[i] \in Record /\ recs[i].off \in Nat /\ recs[i].len \in Nat
  <1>1. recs[i] \in Record
    OBVIOUS
  <1> QED
    BY <1>1 DEF Record

\* In a neat file every live record below the total is readable.
LEMMA NeatReads ==
    ASSUME NEW h, NEW recs \in Seq(Record), NEW tf, Neat(recs, tf)
    PROVE  Readable(h, recs, tf) = Flagged(h, recs)
  <1>1. ASSUME NEW i \in 0 .. Len(recs) - 1
        PROVE  i + 1 \in 1 .. Len(recs) /\ i < Len(recs)
    OBVIOUS
  <1>2. ASSUME NEW i \in 0 .. Len(recs) - 1, recs[i + 1].flag = 1
        PROVE  text_readable(tf, recs[i + 1].off, recs[i + 1].len)
    BY <1>1, <1>2 DEF Neat, Fits, Lit, text_readable
  <1> QED
    BY <1>1, <1>2 DEF Readable, Flagged, entry_readable

\* It stays neat, and the same documents, where its texts stay.
LEMMA SameNeat ==
    ASSUME NEW h, NEW recs \in Seq(Record), NEW tf \in Seq(Cell), NEW tg \in Seq(Cell),
           Neat(recs, tf), Fits(recs, Len(tg)), SameTexts(recs, tf, tg)
    PROVE  Neat(recs, tg) /\ Contents(h, recs, tg) = Contents(h, recs, tf)
  <1>1. Neat(recs, tg)
    <2>1. ASSUME NEW i \in 1 .. Len(recs), recs[i].flag = 1
          PROVE  tg[recs[i].off + 1] # 0
      <3>1. recs[i].off + 1 \in recs[i].off + 1 .. recs[i].off + 1 + recs[i].len
        BY Fields
      <3>2. tf[recs[i].off + 1] = tg[recs[i].off + 1]
        BY <2>1, <3>1 DEF SameTexts
      <3> QED
        BY <2>1, <3>2 DEF Neat, Lit
    <2> QED
      BY <2>1 DEF Neat, Lit
  <1>2. Readable(h, recs, tg) = Flagged(h, recs) /\ Readable(h, recs, tf) = Flagged(h, recs)
    BY <1>1, NeatReads
  <1>3. ASSUME NEW i \in Flagged(h, recs)
        PROVE  DocAt(recs, tg, i) = DocAt(recs, tf, i)
    <2>1. i \in Nat /\ i < Len(recs) /\ i + 1 \in 1 .. Len(recs) /\ recs[i + 1].flag = 1
      BY DEF Flagged
    <2>2. /\ recs[i + 1].off + 1 + recs[i + 1].len <= Len(tf)
          /\ recs[i + 1].off + 1 + recs[i + 1].len <= Len(tg)
          /\ \A j \in recs[i + 1].off + 1 .. recs[i + 1].off + 1 + recs[i + 1].len : tf[j] = tg[j]
      BY <2>1 DEF Neat, Fits, SameTexts
    <2>3. recs[i + 1] = recs[i + 1]
      OBVIOUS
    <2> QED
      BY <2>1, <2>2, <2>3, SameCells
  <1>4. Contents(h, recs, tg) = Contents(h, recs, tf)
    BY <1>2, <1>3, ContentsSame
  <1> QED
    BY <1>1, <1>4

\* A file that agrees up to where all texts end.
LEMMA SameBeginning ==
    ASSUME NEW recs \in Seq(Record), NEW tf, NEW tg, NEW n \in Nat, NEW m \in Nat,
           Fits(recs, n), n <= m, \A j \in 1 .. n : tf[j] = tg[j]
    PROVE  Fits(recs, m) /\ SameTexts(recs, tf, tg)
  <1>1. ASSUME NEW i \in 1 .. Len(recs)
        PROVE  /\ recs[i].off + 1 + recs[i].len <= m
               /\ \A j \in recs[i].off + 1 .. recs[i].off + 1 + recs[i].len : tf[j] = tg[j]
    <2> DEFINE x == recs[i].off
               y == recs[i].len
    <2>1. x \in Nat /\ y \in Nat
      BY Fields
    <2>2. x + 1 + y <= n
      BY DEF Fits
    <2> HIDE DEF x, y
    <2>3. x + 1 + y <= m /\ \A j \in x + 1 .. x + 1 + y : j \in 1 .. n
      BY <2>1, <2>2
    <2>4. \A j \in x + 1 .. x + 1 + y : tf[j] = tg[j]
      BY <2>3
    <2> QED
      BY <2>3, <2>4 DEF x, y
  <1> QED
    BY <1>1 DEF Fits, SameTexts

\* A file without records.
LEMMA NeatEmpty ==
    ASSUME NEW tf
    PROVE  Neat(<<>>, tf)
  <1>1. Len(<<>>) = 0 /\ \A i : i \notin 1 .. 0
    OBVIOUS
  <1> QED
    BY <1>1 DEF Neat, Spaced, Fits, Lit

\* A record for a text behind the others.
LEMMA NeatAppend ==
    ASSUME NEW recs \in Seq(Record), NEW rec \in Record, NEW tf,
           Neat(recs, tf), Fits(recs, rec.off), rec.off + 1 + rec.len <= Len(tf), tf[rec.off + 1] # 0
    PROVE  Neat(Append(recs, rec), tf)
  <1> DEFINE new == Append(recs, rec)
             n == Len(recs)
  <1>1. n \in Nat /\ Len(new) = n + 1 /\ new[n + 1] = rec /\ \A i \in 1 .. n : new[i] = recs[i]
    OBVIOUS
  <1> HIDE DEF new
  <1>2. ASSUME NEW i \in 1 .. n + 1
        PROVE  i = n + 1 \/ i \in 1 .. n
    BY <1>1
  <1>3. Spaced(new)
    <2> SUFFICES ASSUME NEW i \in 1 .. n + 1, NEW j \in 1 .. n + 1, i < j
                 PROVE  new[i].off + 1 + new[i].len <= new[j].off
      BY <1>1 DEF Spaced
    <2>1. i \in 1 .. n
      BY <1>1
    <2>2. CASE j = n + 1
      BY <1>1, <2>1, <2>2 DEF Fits
    <2>3. CASE j \in 1 .. n
      BY <1>1, <2>1, <2>3 DEF Neat, Spaced
    <2> QED
      BY <1>2, <2>2, <2>3
  <1>4. Fits(new, Len(tf))
    BY <1>1, <1>2 DEF Neat, Fits
  <1>5. Lit(new, tf)
    BY <1>1, <1>2 DEF Neat, Lit
  <1> QED
    BY <1>3, <1>4, <1>5 DEF Neat, new

\* A tombstone.
LEMMA NeatDead ==
    ASSUME NEW recs \in Seq(Record), NEW i \in Nat, i < Len(recs), NEW tf, Neat(recs, tf)
    PROVE  Neat(Dead(recs, i), tf)
  <1> DEFINE new == Dead(recs, i)
  <1>1. /\ new \in Seq(Record) /\ Len(new) = Len(recs)
        /\ \A j \in 1 .. Len(recs) : j # i + 1 => new[j] = recs[j]
        /\ \A j \in 1 .. Len(recs) : new[j].off = recs[j].off
        /\ \A j \in 1 .. Len(recs) : new[j].len = recs[j].len
        /\ new[i + 1].flag = 0
    BY TombstoneIs
  <1> HIDE DEF new
  <1>2. Spaced(new) /\ Fits(new, Len(tf))
    BY <1>1 DEF Neat, Spaced, Fits
  <1>3. Lit(new, tf)
    <2> SUFFICES ASSUME NEW j \in 1 .. Len(recs), new[j].flag = 1
                 PROVE  tf[new[j].off + 1] # 0
      BY <1>1 DEF Lit
    <2>1. j # i + 1
      BY <1>1
    <2>2. new[j] = recs[j]
      BY <1>1, <2>1
    <2> QED
      BY <2>2 DEF Neat, Lit
  <1> QED
    BY <1>2, <1>3 DEF Neat, new

\* What compact writes.
LEMMA NeatCopy ==
    ASSUME NEW h, NEW recs \in Seq(Record), NEW tf \in Seq(Cell), NEW rs, rs = ReadAll(h, recs, tf)
    PROVE  /\ Neat(Moved(rs), NewText(rs, tf))
           /\ Len(Moved(rs)) = Cardinality(Readable(h, recs, tf))
  <1> DEFINE new == Moved(rs)
             tg == NewText(rs, tf)
             n == Len(rs)
  <1>1. rs \in Seq(Record) /\ n = Cardinality(Readable(h, recs, tf)) /\ n \in Nat
    BY ReadAllIs
  <1>2. \A k \in 1 .. n : text_readable(tf, rs[k].off, rs[k].len)
    <2> DEFINE all == ReadAll(h, recs, tf)
    <2>1. \A k \in 1 .. Len(all) :
            /\ Nth(Readable(h, recs, tf), k) \in Readable(h, recs, tf)
            /\ all[k] = recs[Nth(Readable(h, recs, tf), k) + 1]
            /\ all[k].flag = 1
            /\ text_readable(tf, all[k].off, all[k].len)
      BY ReadAllIs
    <2>2. rs = all
      OBVIOUS
    <2> HIDE DEF all
    <2> QED
      BY <2>1, <2>2
  <1>3. /\ new \in Seq(Record) /\ Len(new) = n
        /\ \A k \in 1 .. n :
             /\ new[k].flag = rs[k].flag /\ new[k].id = rs[k].id
             /\ new[k].val = rs[k].val /\ new[k].len = rs[k].len
             /\ new[k].off = NewOffset(rs, k)
    BY <1>1, CopiedRecords DEF Moved
  <1>4. /\ tg \in Seq(Cell)
        /\ \A k \in 1 .. n : Placed(tg, NewOffset(rs, k), text_at(tf, rs[k].off, rs[k].len))
    BY <1>1, <1>2, NewTextIs
  <1>5. ASSUME NEW k \in 1 .. n
        PROVE  Len(text_at(tf, rs[k].off, rs[k].len)) = rs[k].len
    <2>1. rs[k].off \in Nat /\ rs[k].len \in Nat
      BY <1>1, Fields
    <2> QED
      BY <1>2, <2>1, TextAt DEF text_readable
  <1> HIDE DEF new, tg
  <1>6. ASSUME NEW k \in 1 .. n
        PROVE  new[k].off + 1 + new[k].len <= Len(tg) /\ tg[new[k].off + 1] # 0
    <2>1. new[k].off = NewOffset(rs, k) /\ new[k].len = rs[k].len
      BY <1>3
    <2>2. Placed(tg, NewOffset(rs, k), text_at(tf, rs[k].off, rs[k].len))
      BY <1>4
    <2>3. /\ NewOffset(rs, k) + 1 + Len(text_at(tf, rs[k].off, rs[k].len)) <= Len(tg)
          /\ tg[NewOffset(rs, k) + 1] = 1
      BY <2>2 DEF Placed
    <2> QED
      BY <1>5, <2>1, <2>3
  <1>7. ASSUME NEW i \in 1 .. n, NEW j \in 1 .. n, i < j
        PROVE  new[i].off + 1 + new[i].len <= new[j].off
    <2>1. i + 1 \in 1 .. n /\ i + 1 # 1 /\ (i + 1) - 1 = i
      BY <1>1, <1>7
    <2>2. NewOffset(rs, i + 1) = NewOffset(rs, i) + 1 + rs[i].len /\ NewOffset(rs, i + 1) \in Nat
      BY <1>1, <2>1, NewOffsetIs
    <2>3. NewOffset(rs, i + 1) <= NewOffset(rs, j)
      <3>1. CASE i + 1 = j
        BY <2>2, <3>1
      <3>2. CASE i + 1 # j
        <4>1. i + 1 < j
          BY <1>1, <1>7, <3>2
        <4> QED
          BY <1>1, <2>1, <4>1, NewOffsetsOrdered
      <3> QED
        BY <3>1, <3>2
    <2> QED
      BY <1>3, <2>2, <2>3
  <1> QED
    BY <1>1, <1>3, <1>6, <1>7 DEF Neat, Spaced, Fits, Lit, new, tg

-----------------------------------------------------------------------------
(* The moments of a kill or of a failing operation after which the files   *)
(* are the log they were: not between a record and its header, not while   *)
(* one of the two old files is gone, and not with a text in the stream.    *)

\* Less is enough for the files to stay in order: no kill between a record and
\* its header, none with a finished text in the stream.  Failing operations may
\* then strand one of the two files, but not put them out of order.
QuietKills ==
    /\ "write_header" \notin CrashSteps /\ "retry_header" \notin CrashSteps
    /\ "buffered" \notin CrashSteps

Quiet ==
    /\ CrashSteps \subseteq {"idle", "create_text", "write_record", "delete_header", "delete_text",
                             "swap_entry", "reopen"}
    /\ FailSteps \subseteq {"idle", "write_record", "write_header", "delete_text",
                            "swap_entry", "reopen"}

\* The entry file and the text file that belongs to it.
NeatOK ==
    /\ "text" \in exists => Neat(entry_file.recs, AllText)
    /\ step.at = "rename_text" => Neat(entry_file.recs, temp_text)
    /\ step.at \in {"swap_entry", "swap_text", "rename_entry"} => Neat(temp_entry.recs, temp_text)

\* No entry file, no records.
ThereOK ==
    /\ "entry" \notin exists => entry_file.recs = <<>>
    /\ step.at \in {"swap_text", "rename_entry"} => "entry" \notin exists

\* The header counts every record, except one that is just being written.
TotalOK ==
    /\ step.at \notin {"write_header", "retry_header"} =>
        Len(entry_file.recs) <= entry_file.header.total
    /\ step.at \in {"write_header", "retry_header"} =>
        Len(entry_file.recs) <= entry_file.header.total + 1
    /\ step.at \in {"swap_entry", "swap_text", "rename_entry"} =>
        Len(temp_entry.recs) <= temp_entry.header.total

\* The record a call in progress remembers lies behind the others, or is the
\* dead one; a swap that has removed nothing still has what it copied.
CallOK ==
    /\ step.at = "write_record" => Fits(entry_file.recs, step.rec.off)
    /\ step.at \in {"delete_header", "delete_text"} =>
        \E i \in 1 .. Len(entry_file.recs) :
            entry_file.recs[i].flag = 0 /\ entry_file.recs[i].off = step.rec.off
    /\ step.at = "swap_entry" => Contents(entry_file.header, entry_file.recs, AllText) = step.kept

LogInv == NeatOK /\ ThereOK /\ TotalOK /\ CallOK

LEMMA LogInit == Init => LogInv
  <1> SUFFICES ASSUME Init PROVE LogInv
    OBVIOUS
  <1>1. entry_file.recs = <<>> /\ entry_file.header.total = 0 /\ step.at = "idle"
    BY DEF Init, EmptyEntry, NoHeader, Idle
  <1>2. Neat(entry_file.recs, AllText)
    BY <1>1, NeatEmpty
  <1> QED
    BY <1>1, <1>2 DEF LogInv, NeatOK, ThereOK, TotalOK, CallOK

\* The new text is behind the others.
LEMMA WriteIsNeat ==
    ASSUME IInv, DocInv, LogInv, NEW id \in Id, NEW v \in Val, WriteText(id, v), NEW h
    PROVE  /\ Neat(entry_file.recs, AllText') /\ Fits(entry_file.recs, step'.rec.off)
           /\ Contents(h, entry_file.recs, AllText') = Contents(h, entry_file.recs, AllText)
  <1> DEFINE recs == entry_file.recs
             all == AllText
             new == AllText'
  <1>1. /\ all \in Seq(Cell) /\ new = all \o (<<1>> \o Text(v)) /\ new \in Seq(Cell)
        /\ Len(new) = Len(all) + 1 + Len(Text(v)) /\ step'.rec.off = Len(all)
    BY WriteFacts DEF DocInv
  <1>2. recs \in Seq(Record) /\ Text(v) \in Seq(Cell)
    BY TextIs DEF DocInv, TypesOK
  <1>3. Neat(recs, all)
    BY DEF LogInv, NeatOK, WriteText, Ready, DocInv, FilesThere
  <1> HIDE DEF recs, all, new
  <1>4. Len(all) \in Nat /\ Len(new) \in Nat /\ Len(all) <= Len(new)
    BY <1>1, <1>2
  <1>5. \A j \in 1 .. Len(all) : all[j] = new[j]
    <2>1. <<1>> \o Text(v) \in Seq(Cell)
      BY <1>2 DEF Cell
    <2> QED
      BY <1>1, <2>1, ConcatProperties
  <1>6. Fits(recs, Len(new)) /\ SameTexts(recs, all, new)
    BY <1>2, <1>3, <1>4, <1>5, SameBeginning DEF Neat
  <1>7. Neat(recs, new) /\ Contents(h, recs, new) = Contents(h, recs, all)
    BY <1>1, <1>2, <1>3, <1>6, SameNeat
  <1> QED
    BY <1>1, <1>3, <1>7 DEF Neat, recs, all, new

\* A quiet kill takes no text that a record points to.
LEMMA CrashIsNeat ==
    ASSUME QuietKills, IInv, DocInv, LogInv, Crash, NEW h
    PROVE  /\ AllText' = text_file
           /\ "text" \in exists => Neat(entry_file.recs, text_file)
           /\ Contents(h, entry_file.recs, text_file) = Contents(h, entry_file.recs, AllText)
  <1> DEFINE recs == entry_file.recs
             all == AllText
             old == text_file
  <1>1. recs \in Seq(Record) /\ old \in Seq(Cell) /\ text_buffer \in Seq(Cell) /\ all \in Seq(Cell)
    BY DEF DocInv, TypesOK, AllText
  <1>2. AllText' = old
    <2>1. text_file' = text_file /\ text_buffer' = <<>>
      BY DEF Crash, disk
    <2> QED
      BY <1>1, <2>1, ConcatEmptySeq DEF AllText
  <1>3. "text" \in exists => Neat(recs, all)
    BY DEF LogInv, NeatOK
  <1>4. CASE text_buffer = <<>>
    <2>1. all = old
      BY <1>1, <1>4, ConcatEmptySeq DEF AllText
    <2> QED
      BY <1>2, <1>3, <2>1
  <1>5. CASE text_buffer # <<>>
    <2>1. step.at = "write_record" /\ "text" \in exists
      BY <1>5 DEF Crash, QuietKills, DocInv, FilesThere
    <2>2. step.rec.off \in Nat /\ step.rec.off <= Len(old) /\ Fits(recs, step.rec.off)
      BY <2>1 DEF DocInv, TypesOK, OrderOK, RecordSteps, Record, LogInv, CallOK
    <2> DEFINE n == step.rec.off
    <2>3. n \in Nat /\ n <= Len(old) /\ Fits(recs, n) /\ Len(old) \in Nat
      BY <1>1, <2>2
    <2>4. \A j \in 1 .. n : all[j] = old[j]
      <3>1. \A j \in 1 .. Len(old) : all[j] = old[j]
        BY <1>1, ConcatProperties DEF AllText
      <3> HIDE DEF all, old, n
      <3> QED
        BY <2>3, <3>1
    <2> HIDE DEF recs, all, old, n
    <2>5. Fits(recs, Len(old)) /\ SameTexts(recs, all, old)
      BY <1>1, <2>3, <2>4, SameBeginning
    <2>6. Neat(recs, old) /\ Contents(h, recs, old) = Contents(h, recs, all)
      BY <1>1, <1>3, <2>1, <2>5, SameNeat
    <2> QED
      BY <1>2, <2>6 DEF recs, all, old
  <1> QED
    BY <1>4, <1>5

\* The zero falls into the text of a dead record.
LEMMA ZeroIsNeat ==
    ASSUME IInv, DocInv, LogInv, DeleteText, NEW h
    PROVE  /\ Neat(entry_file.recs, AllText')
           /\ Contents(h, entry_file.recs, AllText') = Contents(h, entry_file.recs, AllText)
  <1> DEFINE recs == entry_file.recs
             all == AllText
             off == step.rec.off
             new == WriteByte(all, off, 0)
  <1>1. recs \in Seq(Record) /\ all \in Seq(Cell) /\ off \in Nat /\ step.at = "delete_text"
    BY DEF DocInv, TypesOK, AllText, DeleteText, RecordSteps, Record
  <1>2. Neat(recs, all)
    BY <1>1 DEF LogInv, NeatOK, IInv, OpenOK, RecordSteps, DocInv, FilesThere
  <1>3. PICK i \in 1 .. Len(recs) : recs[i].flag = 0 /\ recs[i].off = off
    BY <1>1 DEF LogInv, CallOK
  <1>4. /\ WriteByte(all, off, 0) \in Seq(Cell)
        /\ Len(all) <= Len(WriteByte(all, off, 0))
        /\ \A j \in 1 .. Len(all) : j # off + 1 => WriteByte(all, off, 0)[j] = all[j]
        /\ off < Len(all) => Len(WriteByte(all, off, 0)) = Len(all)
    BY <1>1, WriteByteIs
  <1>5. AllText' = new
    <2>1. text_file' = new /\ text_buffer' = <<>>
      BY DEF DeleteText
    <2> QED
      BY <1>4, <2>1, ConcatEmptySeq DEF AllText
  <1> HIDE DEF recs, all, off, new
  <1>6. ASSUME NEW k \in 1 .. Len(recs), recs[k].flag = 1
        PROVE  \A j \in recs[k].off + 1 .. recs[k].off + 1 + recs[k].len : all[j] = new[j]
    <2> DEFINE x == recs[k].off
               y == recs[k].len
               z == recs[i].len
    <2>1. x \in Nat /\ y \in Nat /\ z \in Nat /\ Len(all) \in Nat
      BY <1>1, Fields
    <2>2. x + 1 + y <= Len(all)
      BY <1>2 DEF Neat, Fits
    <2>3. x + 1 + y <= off \/ off + 1 + z <= x
      <3>1. k # i
        BY <1>3, <1>6
      <3>2. k < i \/ i < k
        BY <1>1, <3>1
      <3> QED
        BY <1>2, <1>3, <3>2 DEF Neat, Spaced
    <2> HIDE DEF x, y, z
    <2>4. \A j \in x + 1 .. x + 1 + y : j \in 1 .. Len(all) /\ j # off + 1
      BY <1>1, <2>1, <2>2, <2>3
    <2>5. \A j \in x + 1 .. x + 1 + y : all[j] = new[j]
      BY <1>4, <2>4 DEF new
    <2> QED
      BY <2>5 DEF x, y
  <1>7. Fits(recs, Len(new)) /\ new \in Seq(Cell)
    <2>1. Len(all) \in Nat /\ Len(new) \in Nat /\ Len(all) <= Len(new) /\ new \in Seq(Cell)
      BY <1>1, <1>4 DEF new
    <2>2. ASSUME NEW k \in 1 .. Len(recs)
          PROVE  recs[k].off + 1 + recs[k].len <= Len(new)
      <3>1. recs[k].off \in Nat /\ recs[k].len \in Nat
        BY <1>1, Fields
      <3>2. recs[k].off + 1 + recs[k].len <= Len(all)
        BY <1>2 DEF Neat, Fits
      <3> QED
        BY <2>1, <3>1, <3>2
    <2> QED
      BY <2>1, <2>2 DEF Fits
  <1>8. SameTexts(recs, all, new)
    BY <1>6 DEF SameTexts
  <1>9. Neat(recs, new) /\ Contents(h, recs, new) = Contents(h, recs, all)
    BY <1>1, <1>2, <1>7, <1>8, SameNeat
  <1> QED
    BY <1>5, <1>9 DEF recs, all

\* The record of an INSERT is for the text that was written last.
LEMMA AppendedIsNeat ==
    ASSUME IInv, DocInv, LogInv, step.at = "write_record"
    PROVE  Neat(Append(entry_file.recs, step.rec), AllText)
  <1>1. /\ step.rec \in Record /\ entry_file.recs \in Seq(Record)
        /\ step.rec.len = Len(Text(step.rec.val)) /\ Placed(AllText, step.rec.off, Text(step.rec.val))
    BY DEF DocInv, TypesOK, InsertOK, RecordSteps
  <1>2. step.rec.off + 1 + step.rec.len <= Len(AllText) /\ AllText[step.rec.off + 1] # 0
    BY <1>1 DEF Placed
  <1>3. Neat(entry_file.recs, AllText) /\ Fits(entry_file.recs, step.rec.off)
    BY DEF LogInv, NeatOK, CallOK, IInv, OpenOK, RecordSteps, DocInv, FilesThere
  <1> QED
    BY <1>1, <1>2, <1>3, NeatAppend

\* A copy is neat, and its header counts it.
LEMMA CopyIsNeat ==
    ASSUME IInv, DocInv, CompactCopy
    PROVE  Neat(temp_entry'.recs, temp_text') /\ Len(temp_entry'.recs) <= temp_entry'.header.total
  <1> DEFINE rs == ReadAll(header, entry_file.recs, AllText)
  <1>1. entry_file.recs \in Seq(Record) /\ AllText \in Seq(Cell)
    BY DEF DocInv, TypesOK, AllText
  <1>2. temp_entry'.recs = Moved(rs) /\ temp_text' = NewText(rs, AllText)
    BY DEF CompactCopy, Moved
  <1>3. Cardinality(Readable(header, entry_file.recs, AllText)) <= temp_entry'.header.total
    BY CopyFacts DEF DocInv
  <1>4. rs = ReadAll(header, entry_file.recs, AllText)
    OBVIOUS
  <1> HIDE DEF rs
  <1>5. /\ Neat(Moved(rs), NewText(rs, AllText))
        /\ Len(Moved(rs)) = Cardinality(Readable(header, entry_file.recs, AllText))
    BY <1>1, <1>4, NeatCopy
  <1> QED
    BY <1>2, <1>3, <1>5

\* The texts stay where the records say.
LEMMA NeatStep ==
    ASSUME QuietKills, IInv, DocInv, LogInv, [Next]_vars
    PROVE  NeatOK'
  <1> USE DEF NeatOK, LogInv, disk, ram, IInv
  <1>1. CASE UNCHANGED vars
    BY <1>1 DEF vars, AllText
  <1>2. ASSUME NEW id \in Id, NEW v \in Val, WriteText(id, v)
        PROVE  NeatOK'
    <2>1. step'.at = "write_record"
      BY <1>2, WriteFacts DEF DocInv
    <2>2. Neat(entry_file.recs, AllText') /\ entry_file' = entry_file
      BY <1>2, WriteIsNeat DEF WriteText
    <2> QED
      BY <2>1, <2>2
  <1>3. CASE WriteRecord
    <2>1. /\ step'.at = "write_header" /\ step.at = "write_record" /\ AllText' = AllText
          /\ entry_file'.recs = Append(entry_file.recs, step.rec)
      BY <1>3, StepFacts DEF WriteRecord, AllText
    <2>2. Neat(Append(entry_file.recs, step.rec), AllText)
      BY <2>1, AppendedIsNeat
    <2> QED
      BY <2>1, <2>2
  <1>4. CASE WriteHeader
    BY <1>4, StepFacts DEF WriteHeader, Idle, AllText
  <1>5. CASE ReadText
    <2>1. AllText' = AllText
      BY <1>5, ConcatEmptySeq DEF ReadText, AllText, DocInv, TypesOK
    <2> QED
      BY <1>5, <2>1 DEF ReadText, Ready, Idle
  <1>6. CASE Save
    BY <1>6, StepFacts DEF Save, Ready, Idle, AllText
  <1>7. ASSUME NEW id \in Id, DeleteRecord(id)
        PROVE  NeatOK'
    <2>1. PICK i \in Nat : /\ i < Len(entry_file.recs) /\ step'.at = "delete_header"
                          /\ entry_file'.recs = Dead(entry_file.recs, i)
      BY <1>7, DeleteIs DEF DocInv
    <2>2. AllText' = AllText /\ "text" \in exists
      BY <1>7 DEF DeleteRecord, AllText, Ready, DocInv, FilesThere
    <2>3. Neat(Dead(entry_file.recs, i), AllText)
      BY <2>1, <2>2, NeatDead DEF DocInv, TypesOK
    <2> QED
      BY <2>1, <2>2, <2>3
  <1>8. CASE DeleteHeader
    BY <1>8, StepFacts DEF DeleteHeader, AllText
  <1>9. CASE DeleteText
    <2>1. Neat(entry_file.recs, AllText')
      BY <1>9, ZeroIsNeat
    <2> QED
      BY <1>9, <2>1 DEF DeleteText, Idle
  <1>10. CASE CompactCopy
    <2>1. step'.at = "swap_entry"
      BY <1>10, CopyFacts DEF DocInv
    <2>2. Neat(temp_entry'.recs, temp_text')
      BY <1>10, CopyIsNeat
    <2>3. AllText' = AllText /\ entry_file' = entry_file /\ "text" \in exists
      <3>1. AllText \in Seq(Cell) /\ text_file' = AllText /\ text_buffer' = <<>>
        BY <1>10 DEF CompactCopy, AllText, DocInv, TypesOK
      <3>2. AllText' = AllText
        BY <3>1, ConcatEmptySeq DEF AllText
      <3> QED
        BY <1>10, <3>2 DEF CompactCopy, Ready, DocInv, FilesThere
    <2> QED
      BY <2>1, <2>2, <2>3
  <1>11. CASE RemoveEntryFile
    <2>1. step'.at = "swap_text" /\ step.at = "swap_entry" /\ entry_file'.recs = <<>>
      BY <1>11, StepFacts DEF RemoveEntryFile, EmptyEntry
    <2>2. Neat(<<>>, AllText')
      BY NeatEmpty
    <2> QED
      BY <1>11, <2>1, <2>2 DEF RemoveEntryFile
  <1>12. CASE RemoveTextFile
    <2>1. step'.at = "rename_entry" /\ step.at = "swap_text"
      BY <1>12, StepFacts DEF RemoveTextFile
    <2> QED
      BY <1>12, <2>1 DEF RemoveTextFile
  <1>13. CASE RenameEntry
    <2>1. step'.at = "rename_text" /\ step.at = "rename_entry"
      BY <1>13, StepFacts DEF RenameEntry
    <2>2. "text" \notin exists
      BY <2>1 DEF DocInv, FilesThere
    <2> QED
      BY <1>13, <2>1, <2>2 DEF RenameEntry
  <1>14. CASE RenameText
    <2>1. step'.at = "reopen" /\ step.at = "rename_text"
      BY <1>14, StepFacts DEF RenameText
    <2>2. text_buffer = <<>>
      BY <2>1 DEF OpenOK, SwapSteps, DocInv, FilesThere
    <2>3. AllText' = temp_text
      BY <1>14, <2>2, ConcatEmptySeq DEF RenameText, AllText, DocInv, TypesOK
    <2> QED
      BY <1>14, <2>1, <2>3 DEF RenameText
  <1>15. CASE Reopen
    BY <1>15 DEF Reopen, Idle, AllText
  <1>16. CASE CopyFails
    BY <1>16 DEF CopyFails, AllText
  <1>17. CASE SwapFails
    BY <1>17 DEF SwapFails, Idle, AllText
  <1>a. CASE WriteFails
    BY <1>a DEF WriteFails, Idle, AllText
  <1>b. CASE HeaderFails
    BY <1>b, StepFacts DEF HeaderFails, AllText
  <1>c. CASE RetryHeader
    BY <1>c, StepFacts DEF RetryHeader, Idle, AllText
  <1>18. CASE Crash
    <2>1. AllText' = text_file /\ ("text" \in exists => Neat(entry_file.recs, text_file))
      BY <1>18, CrashIsNeat
    <2> QED
      BY <1>18, <2>1 DEF Crash, Idle
  <1>19. CASE OpenFiles
    BY <1>19 DEF OpenFiles, AllText
  <1>20. CASE CreateEntryFile
    <2>1. Neat(<<>>, AllText')
      BY NeatEmpty
    <2> QED
      BY <1>20, <2>1 DEF CreateEntryFile, EmptyEntry
  <1>21. CASE CreateTextFile
    <2>1. entry_file.recs = <<>> /\ Neat(<<>>, AllText')
      BY <1>21, NeatEmpty DEF CreateTextFile, DocInv, FilesThere
    <2> QED
      BY <1>21, <2>1 DEF CreateTextFile, Idle
  <1>22. CASE RefuseToStart
    BY <1>22 DEF RefuseToStart, AllText
  <1> QED
    BY <1>1, <1>2, <1>3, <1>4, <1>5, <1>6, <1>7, <1>8, <1>9, <1>10, <1>11, <1>12, <1>13, <1>14, <1>15, <1>16, <1>17, <1>a, <1>b, <1>c, <1>18, <1>19, <1>20, <1>21, <1>22 DEF Next

\* Records are written into a file that is there.
LEMMA EntryStep ==
    ASSUME QuietKills, IInv, DocInv, LogInv, [Next]_vars
    PROVE  ThereOK'
  <1> USE DEF ThereOK, LogInv, disk, ram, IInv
  <1>1. CASE UNCHANGED vars
    BY <1>1 DEF vars
  <1>2. ASSUME NEW id \in Id, NEW v \in Val, WriteText(id, v)
        PROVE  ThereOK'
    BY <1>2, WriteFacts DEF WriteText, DocInv
  <1>3. CASE WriteRecord
    <2>1. "entry" \in exists
      BY <1>3 DEF WriteRecord, OpenOK, RecordSteps, DocInv, FilesThere
    <2> QED
      BY <1>3, <2>1, StepFacts DEF WriteRecord
  <1>4. CASE WriteHeader
    BY <1>4, StepFacts DEF WriteHeader, Idle
  <1>5. CASE ReadText
    BY <1>5 DEF ReadText
  <1>6. CASE Save
    BY <1>6, StepFacts DEF Save
  <1>7. ASSUME NEW id \in Id, DeleteRecord(id)
        PROVE  ThereOK'
    <2>1. "entry" \in exists
      BY <1>7 DEF DeleteRecord, Ready, DocInv, FilesThere
    <2>2. step'.at = "delete_header"
      BY <1>7, DeleteIs DEF DocInv
    <2> QED
      BY <1>7, <2>1, <2>2 DEF DeleteRecord
  <1>8. CASE DeleteHeader
    BY <1>8, StepFacts DEF DeleteHeader
  <1>9. CASE DeleteText
    BY <1>9 DEF DeleteText, Idle
  <1>10. CASE CompactCopy
    <2>1. step'.at = "swap_entry"
      BY <1>10, CopyFacts DEF DocInv
    <2> QED
      BY <1>10, <2>1 DEF CompactCopy
  <1>11. CASE RemoveEntryFile
    BY <1>11, StepFacts DEF RemoveEntryFile, EmptyEntry
  <1>12. CASE RemoveTextFile
    BY <1>12, StepFacts DEF RemoveTextFile
  <1>13. CASE RenameEntry
    BY <1>13, StepFacts DEF RenameEntry
  <1>14. CASE RenameText
    BY <1>14, StepFacts DEF RenameText, DocInv, FilesThere
  <1>15. CASE Reopen
    BY <1>15 DEF Reopen, Idle
  <1>16. CASE CopyFails
    BY <1>16 DEF CopyFails
  <1>17. CASE SwapFails
    BY <1>17 DEF SwapFails, Idle
  <1>a. CASE WriteFails
    BY <1>a DEF WriteFails, Idle
  <1>b. CASE HeaderFails
    BY <1>b, StepFacts DEF HeaderFails
  <1>c. CASE RetryHeader
    BY <1>c, StepFacts DEF RetryHeader, Idle
  <1>18. CASE Crash
    BY <1>18 DEF Crash, Idle
  <1>19. CASE OpenFiles
    BY <1>19 DEF OpenFiles
  <1>20. CASE CreateEntryFile
    BY <1>20 DEF CreateEntryFile
  <1>21. CASE CreateTextFile
    BY <1>21 DEF CreateTextFile, Idle
  <1>22. CASE RefuseToStart
    BY <1>22 DEF RefuseToStart
  <1> QED
    BY <1>1, <1>2, <1>3, <1>4, <1>5, <1>6, <1>7, <1>8, <1>9, <1>10, <1>11, <1>12, <1>13, <1>14, <1>15, <1>16, <1>17, <1>a, <1>b, <1>c, <1>18, <1>19, <1>20, <1>21, <1>22 DEF Next

\* The header keeps counting every record.
LEMMA TotalStep ==
    ASSUME QuietKills, IInv, DocInv, LogInv, [Next]_vars
    PROVE  TotalOK'
  <1> USE DEF TotalOK, LogInv, disk, ram, IInv
  <1>1. CASE UNCHANGED vars
    BY <1>1 DEF vars
  <1>2. ASSUME NEW id \in Id, NEW v \in Val, WriteText(id, v)
        PROVE  TotalOK'
    BY <1>2, WriteFacts DEF WriteText, Ready, Idle, DocInv
  <1>3. CASE WriteRecord
    <2>1. /\ step'.at = "write_header" /\ step.at = "write_record"
          /\ entry_file'.recs = Append(entry_file.recs, step.rec)
          /\ entry_file'.header = entry_file.header
      BY <1>3, StepFacts DEF WriteRecord
    <2>2. /\ step.rec \in Record /\ entry_file.recs \in Seq(Record)
          /\ entry_file.header.total \in Nat
      BY <2>1 DEF DocInv, TypesOK, RecordSteps, FilesOK, Header
    <2>3. Len(Append(entry_file.recs, step.rec)) = Len(entry_file.recs) + 1 /\ Len(entry_file.recs) \in Nat
      BY <2>2
    <2> QED
      BY <2>1, <2>2, <2>3
  <1>4. CASE WriteHeader
    <2>1. /\ entry_file'.recs = entry_file.recs /\ entry_file'.header = header' /\ step' = Idle
          /\ header'.total = header.total + 1 /\ step.at = "write_header"
      BY <1>4, StepFacts DEF WriteHeader
    <2>2. header = entry_file.header
      BY <2>1 DEF OpenOK, RecordSteps, CountOK
    <2> QED
      BY <2>1, <2>2 DEF Idle
  <1>5. CASE ReadText
    BY <1>5 DEF ReadText
  <1>6. CASE Save
    <2>1. header = entry_file.header /\ step.at = "idle"
      BY <1>6 DEF Save, Ready, Idle, CountOK
    <2> QED
      BY <1>6, <2>1, StepFacts DEF Save
  <1>7. ASSUME NEW id \in Id, DeleteRecord(id)
        PROVE  TotalOK'
    <2>1. PICK i \in Nat : /\ i < Len(entry_file.recs) /\ step'.at = "delete_header"
                          /\ entry_file'.recs = Dead(entry_file.recs, i)
                          /\ entry_file'.header = entry_file.header
      BY <1>7, DeleteIs DEF DocInv
    <2>2. Len(Dead(entry_file.recs, i)) = Len(entry_file.recs)
      BY <2>1, TombstoneIs DEF DocInv, TypesOK
    <2> QED
      BY <1>7, <2>1, <2>2 DEF DeleteRecord, Ready, Idle
  <1>8. CASE DeleteHeader
    BY <1>8, StepFacts DEF DeleteHeader, CountOK
  <1>9. CASE DeleteText
    BY <1>9 DEF DeleteText, Idle
  <1>10. CASE CompactCopy
    <2>1. step'.at = "swap_entry"
      BY <1>10, CopyFacts DEF DocInv
    <2>2. Len(temp_entry'.recs) <= temp_entry'.header.total
      BY <1>10, CopyIsNeat
    <2> QED
      BY <1>10, <2>1, <2>2 DEF CompactCopy, Ready, Idle
  <1>11. CASE RemoveEntryFile
    BY <1>11, StepFacts DEF RemoveEntryFile, EmptyEntry, NoHeader
  <1>12. CASE RemoveTextFile
    BY <1>12, StepFacts DEF RemoveTextFile
  <1>13. CASE RenameEntry
    BY <1>13, StepFacts DEF RenameEntry
  <1>14. CASE RenameText
    BY <1>14, StepFacts DEF RenameText
  <1>15. CASE Reopen
    BY <1>15 DEF Reopen, Idle
  <1>16. CASE CopyFails
    BY <1>16 DEF CopyFails
  <1>17. CASE SwapFails
    BY <1>17 DEF SwapFails, Idle, SwapSteps
  <1>a. CASE WriteFails
    BY <1>a DEF WriteFails, Idle, SwapSteps
  <1>b. CASE HeaderFails
    BY <1>b, StepFacts DEF HeaderFails, SwapSteps
  <1>c. CASE RetryHeader
    <2>1. /\ entry_file'.recs = entry_file.recs /\ entry_file'.header = header /\ step' = Idle
          /\ step.at = "retry_header"
      BY <1>c, StepFacts DEF RetryHeader
    <2>2. header.total = entry_file.header.total + 1
      BY <2>1 DEF CountOK
    <2> QED
      BY <2>1, <2>2 DEF Idle
  <1>18. CASE Crash
    BY <1>18 DEF Crash, Idle, QuietKills
  <1>19. CASE OpenFiles
    BY <1>19 DEF OpenFiles
  <1>20. CASE CreateEntryFile
    BY <1>20 DEF CreateEntryFile, EmptyEntry, NoHeader
  <1>21. CASE CreateTextFile
    BY <1>21 DEF CreateTextFile, Idle
  <1>22. CASE RefuseToStart
    BY <1>22 DEF RefuseToStart
  <1> QED
    BY <1>1, <1>2, <1>3, <1>4, <1>5, <1>6, <1>7, <1>8, <1>9, <1>10, <1>11, <1>12, <1>13, <1>14, <1>15, <1>16, <1>17, <1>a, <1>b, <1>c, <1>18, <1>19, <1>20, <1>21, <1>22 DEF Next

\* What a call in progress relies on.
LEMMA CallStep ==
    ASSUME QuietKills, IInv, DocInv, LogInv, [Next]_vars
    PROVE  CallOK'
  <1> USE DEF CallOK, LogInv, disk, ram, IInv
  <1>1. CASE UNCHANGED vars
    BY <1>1 DEF vars, AllText
  <1>2. ASSUME NEW id \in Id, NEW v \in Val, WriteText(id, v)
        PROVE  CallOK'
    <2>1. step'.at = "write_record"
      BY <1>2, WriteFacts DEF DocInv
    <2>2. Fits(entry_file.recs, step'.rec.off) /\ entry_file' = entry_file
      BY <1>2, WriteIsNeat DEF WriteText
    <2> QED
      BY <2>1, <2>2
  <1>3. CASE WriteRecord
    BY <1>3, StepFacts DEF WriteRecord
  <1>4. CASE WriteHeader
    BY <1>4, StepFacts DEF WriteHeader, Idle
  <1>5. CASE ReadText
    BY <1>5 DEF ReadText, Ready, Idle
  <1>6. CASE Save
    BY <1>6 DEF Save, Ready, Idle
  <1>7. ASSUME NEW id \in Id, DeleteRecord(id)
        PROVE  CallOK'
    <2>1. PICK i \in Nat : /\ i < Len(entry_file.recs) /\ step'.at = "delete_header"
                          /\ entry_file'.recs = Dead(entry_file.recs, i)
                          /\ step'.rec = entry_file.recs[i + 1]
      BY <1>7, DeleteIs DEF DocInv
    <2>2. /\ Len(Dead(entry_file.recs, i)) = Len(entry_file.recs) /\ Len(entry_file.recs) \in Nat
          /\ \A j \in 1 .. Len(entry_file.recs) :
                Dead(entry_file.recs, i)[j].off = entry_file.recs[j].off
          /\ Dead(entry_file.recs, i)[i + 1].flag = 0
      BY <2>1, TombstoneIs DEF DocInv, TypesOK
    <2>3. i + 1 \in 1 .. Len(entry_file.recs)
      BY <2>1, <2>2
    <2>4. /\ entry_file'.recs[i + 1].flag = 0 /\ entry_file'.recs[i + 1].off = step'.rec.off
          /\ i + 1 \in 1 .. Len(entry_file'.recs)
      BY <2>1, <2>2, <2>3
    <2> QED
      BY <2>1, <2>4
  <1>8. CASE DeleteHeader
    <2>1. /\ step'.at = "delete_text" /\ step'.rec = step.rec /\ step.at = "delete_header"
          /\ entry_file'.recs = entry_file.recs
      BY <1>8, StepFacts DEF DeleteHeader
    <2> QED
      BY <2>1
  <1>9. CASE DeleteText
    BY <1>9 DEF DeleteText, Idle
  <1>10. CASE CompactCopy
    <2>1. step'.at = "swap_entry" /\ step'.kept = Contents(header, entry_file.recs, AllText)
          /\ header = entry_file.header
      BY <1>10, CopyFacts DEF DocInv
    <2>2. AllText' = AllText /\ entry_file' = entry_file
      <3>1. AllText \in Seq(Cell) /\ text_file' = AllText /\ text_buffer' = <<>>
        BY <1>10 DEF CompactCopy, AllText, DocInv, TypesOK
      <3>2. AllText' = AllText
        BY <3>1, ConcatEmptySeq DEF AllText
      <3> QED
        BY <1>10, <3>2 DEF CompactCopy
    <2>3. Contents(entry_file'.header, entry_file'.recs, AllText') = step'.kept
      BY <2>1, <2>2
    <2> QED
      BY <2>1, <2>3
  <1>11. CASE RemoveEntryFile
    BY <1>11, StepFacts DEF RemoveEntryFile
  <1>12. CASE RemoveTextFile
    BY <1>12, StepFacts DEF RemoveTextFile
  <1>13. CASE RenameEntry
    BY <1>13, StepFacts DEF RenameEntry
  <1>14. CASE RenameText
    BY <1>14, StepFacts DEF RenameText
  <1>15. CASE Reopen
    BY <1>15 DEF Reopen, Idle
  <1>16. CASE CopyFails
    BY <1>16 DEF CopyFails, Ready, Idle
  <1>17. CASE SwapFails
    BY <1>17 DEF SwapFails, Idle
  <1>a. CASE WriteFails
    BY <1>a DEF WriteFails, Idle
  <1>b. CASE HeaderFails
    BY <1>b, StepFacts DEF HeaderFails
  <1>c. CASE RetryHeader
    BY <1>c, StepFacts DEF RetryHeader, Idle
  <1>18. CASE Crash
    BY <1>18 DEF Crash, Idle
  <1>19. CASE OpenFiles
    BY <1>19 DEF OpenFiles, OpenOK, Idle
  <1>20. CASE CreateEntryFile
    BY <1>20 DEF CreateEntryFile
  <1>21. CASE CreateTextFile
    BY <1>21 DEF CreateTextFile, Idle
  <1>22. CASE RefuseToStart
    BY <1>22 DEF RefuseToStart, OpenOK, Idle
  <1> QED
    BY <1>1, <1>2, <1>3, <1>4, <1>5, <1>6, <1>7, <1>8, <1>9, <1>10, <1>11, <1>12, <1>13, <1>14, <1>15, <1>16, <1>17, <1>a, <1>b, <1>c, <1>18, <1>19, <1>20, <1>21, <1>22 DEF Next

LEMMA LogInvStep ==
    ASSUME QuietKills, IInv, DocInv, LogInv, [Next]_vars
    PROVE  LogInv'
  BY NeatStep, EntryStep, TotalStep, CallStep DEF LogInv

-----------------------------------------------------------------------------
(* Every step is a step of the log.                                        *)

\* A file without records has no documents.
LEMMA NoDocuments ==
    ASSUME NEW h, NEW tf \in Seq(Cell)
    PROVE  Contents(h, <<>>, tf) = <<>>
  <1>1. <<>> \in Seq(Record) /\ Len(<<>>) = 0
    OBVIOUS
  <1>2. Readable(h, <<>>, tf) = {}
    BY <1>1 DEF Readable
  <1>3. Contents(h, <<>>, tf) \in Seq(Document) /\ Len(Contents(h, <<>>, tf)) = 0
    BY <1>1, <1>2, ContentsIs, FS_EmptySet
  <1> QED
    BY <1>3, EmptySeq

\* One more record below the total is one more document: the last one.
LEMMA OneMore ==
    ASSUME NEW h \in Header, NEW g \in Header, NEW recs \in Seq(Record), NEW news \in Seq(Record),
           NEW tf \in Seq(Cell), NEW m \in Nat, Neat(recs, tf), Neat(news, tf),
           m < Len(news), m <= Len(recs), \A i \in 1 .. m : news[i] = recs[i],
           h.total <= m \/ Len(recs) = m, h.total >= m, Len(news) = m + 1, g.total >= m + 1,
           news[m + 1].flag = 1
    PROVE  Contents(g, news, tf) = WithDoc(Contents(h, recs, tf), DocAt(news, tf, m))
  <1>1. Readable(h, recs, tf) = Flagged(h, recs) /\ Readable(g, news, tf) = Flagged(g, news)
    BY NeatReads
  <1>2. /\ Len(recs) \in Nat /\ Len(news) \in Nat /\ h.total \in Nat /\ g.total \in Nat
    BY DEF Header
  <1>3. ASSUME NEW i \in Flagged(h, recs)
        PROVE  i \in Nat /\ i < m /\ i + 1 \in 1 .. m
    BY <1>2 DEF Flagged
  <1>4. Flagged(g, news) = Flagged(h, recs) \union {m}
    <2>1. ASSUME NEW i \in 0 .. m - 1
          PROVE  i \in Flagged(g, news) <=> i \in Flagged(h, recs)
      <3>1. i + 1 \in 1 .. m /\ i \in 0 .. Len(recs) - 1 /\ i \in 0 .. Len(news) - 1 /\ i < h.total /\ i < g.total
        BY <1>2, <2>1
      <3> QED
        BY <3>1 DEF Flagged
    <2>2. m \in Flagged(g, news)
      BY <1>2 DEF Flagged
    <2>3. ASSUME NEW i \in Flagged(g, news)
          PROVE  i = m \/ i \in 0 .. m - 1
      BY <1>2 DEF Flagged
    <2>4. ASSUME NEW i \in Flagged(h, recs)
          PROVE  i \in 0 .. m - 1
      BY <1>2, <1>3
    <2> QED
      BY <2>1, <2>2, <2>3, <2>4
  <1>5. \A i \in Readable(h, recs, tf) : i < m
    BY <1>1, <1>3
  <1>6. Readable(g, news, tf) = Readable(h, recs, tf) \union {m}
    BY <1>1, <1>4
  <1>7. \A i \in Readable(h, recs, tf) : DocAt(news, tf, i) = DocAt(recs, tf, i)
    BY <1>1, <1>3 DEF DocAt
  <1> QED
    <2>1. ReadsMore(h, recs, tf, g, news, tf, m)
      BY <1>5, <1>6, <1>7 DEF ReadsMore
    <2> QED
      BY <2>1, ContentsAdd

\* The same records below the total.
LEMMA NoMore ==
    ASSUME NEW h \in Header, NEW g \in Header, NEW recs \in Seq(Record), NEW news \in Seq(Record),
           NEW tf \in Seq(Cell), NEW m \in Nat, Neat(recs, tf), Neat(news, tf),
           m <= Len(news), m <= Len(recs), \A i \in 1 .. m : news[i] = recs[i],
           h.total <= m \/ Len(recs) = m, g.total <= m \/ Len(news) = m,
           h.total >= m, g.total >= m
    PROVE  Contents(g, news, tf) = Contents(h, recs, tf)
  <1>1. Readable(h, recs, tf) = Flagged(h, recs) /\ Readable(g, news, tf) = Flagged(g, news)
    BY NeatReads
  <1>2. /\ Len(recs) \in Nat /\ Len(news) \in Nat /\ h.total \in Nat /\ g.total \in Nat
    BY DEF Header
  <1>3. ASSUME NEW i \in Flagged(h, recs)
        PROVE  i \in 0 .. m - 1 /\ i + 1 \in 1 .. m
    BY <1>2 DEF Flagged
  <1>4. ASSUME NEW i \in Flagged(g, news)
        PROVE  i \in 0 .. m - 1
    BY <1>2 DEF Flagged
  <1>5. ASSUME NEW i \in 0 .. m - 1
        PROVE  i \in Flagged(g, news) <=> i \in Flagged(h, recs)
    <2>1. i + 1 \in 1 .. m /\ i \in 0 .. Len(recs) - 1 /\ i \in 0 .. Len(news) - 1 /\ i < h.total /\ i < g.total
      BY <1>2, <1>5
    <2> QED
      BY <2>1 DEF Flagged
  <1>6. Readable(g, news, tf) = Readable(h, recs, tf)
    <2>1. \A i : i \in Flagged(g, news) <=> i \in Flagged(h, recs)
      BY <1>3, <1>4, <1>5
    <2>2. Flagged(g, news) \subseteq Flagged(h, recs) /\ Flagged(h, recs) \subseteq Flagged(g, news)
      BY <2>1
    <2>3. Flagged(g, news) = Flagged(h, recs)
      BY <2>2
    <2> QED
      BY <1>1, <2>3
  <1>7. \A i \in Readable(h, recs, tf) : DocAt(news, tf, i) = DocAt(recs, tf, i)
    BY <1>1, <1>3 DEF DocAt
  <1> QED
    BY <1>6, <1>7, ContentsSame

\* The document of a record that holds a text as it was written is one of the
\* documents of the log.
LEMMA AddIsNext ==
    ASSUME NEW recs \in Seq(Record), NEW tf \in Seq(Cell), NEW i \in Nat, i + 1 \in 1 .. Len(recs),
           recs[i + 1].len = Len(Text(recs[i + 1].val)),
           Placed(tf, recs[i + 1].off, Text(recs[i + 1].val)),
           docs' = WithDoc(docs, DocAt(recs, tf, i))
    PROVE  Log!Next
  <1> DEFINE r == recs[i + 1]
             v == recs[i + 1].val
             d == [id |-> r.id, val |-> v, text |-> Text(v)]
  <1>1. r \in Record /\ r.off \in Nat /\ r.id \in Id /\ v \in Val
    <2>1. r \in Record
      OBVIOUS
    <2> QED
      BY <2>1 DEF Record
  <1>2. Text(v) \in Seq(Cell)
    BY <1>1, TextIs
  <1>3. text_at(tf, r.off, Len(Text(v))) = Text(v)
    BY <1>1, <1>2, PlacedText
  <1>4. DocAt(recs, tf, i) = d
    BY <1>3 DEF DocAt
  <1>5. d \in [id : Id, val : Val, text : {Text(w) : w \in Val}]
    BY <1>1
  <1> HIDE DEF d, r, v
  <1>6. docs' = Append(docs, d)
    BY <1>4 DEF WithDoc
  <1> QED
    BY <1>5, <1>6 DEF Log!Next, Log!Add

\* INSERT: the record, or the header that counts it, adds the document.
LEMMA WriteRecordAdds ==
    ASSUME IInv, DocInv, LogInv, [Next]_vars, WriteRecord
    PROVE  Log!Next \/ docs' = docs
  <1> DEFINE recs == entry_file.recs
             h == entry_file.header
             all == AllText
             m == Len(recs)
             news == Append(recs, step.rec)
  <1>1. /\ step'.at = "write_header" /\ step.at = "write_record" /\ AllText' = all
        /\ entry_file'.recs = news /\ entry_file'.header = h
    BY StepFacts DEF WriteRecord, AllText
  <1>2. /\ step.rec \in Record /\ recs \in Seq(Record) /\ all \in Seq(Cell) /\ h \in Header
        /\ step.rec.flag = 1 /\ step.rec.len = Len(Text(step.rec.val))
        /\ Placed(all, step.rec.off, Text(step.rec.val))
    BY <1>1 DEF DocInv, TypesOK, InsertOK, RecordSteps, AllText, IInv, FilesOK
  <1>3. /\ news \in Seq(Record) /\ Len(news) = m + 1 /\ m \in Nat /\ news[m + 1] = step.rec
        /\ \A i \in 1 .. m : news[i] = recs[i]
    BY <1>2
  <1>4. Neat(recs, all) /\ Neat(news, all) /\ m <= h.total /\ h.total \in Nat
    <2>1. Neat(news, all)
      BY <1>1, AppendedIsNeat
    <2>2. Neat(recs, all) /\ m <= h.total
      BY <1>1 DEF LogInv, NeatOK, TotalOK, IInv, OpenOK, RecordSteps, DocInv, FilesThere
    <2> QED
      BY <1>2, <2>1, <2>2 DEF Header
  <1>5. docs = Contents(h, recs, all) /\ docs' = Contents(h, news, all)
    BY <1>1 DEF docs, SwapSteps
  <1> HIDE DEF recs, h, all, m, news
  <1>6. CASE h.total <= m
    <2>1. h.total <= m \/ Len(recs) = m
      BY <1>6
    <2>2. m <= Len(news) /\ m <= Len(recs)
      BY <1>3 DEF m
    <2>3. Contents(h, news, all) = Contents(h, recs, all)
      BY <1>2, <1>3, <1>4, <1>6, <2>1, <2>2, NoMore
    <2> QED
      BY <1>5, <2>3
  <1>7. CASE ~(h.total <= m)
    <2>1. h.total >= m + 1 /\ h.total >= m
      BY <1>3, <1>4, <1>7
    <2>2. m <= Len(recs) /\ Len(recs) = m /\ m < Len(news) /\ news[m + 1].flag = 1
      BY <1>2, <1>3 DEF m
    <2>3. Contents(h, news, all) = WithDoc(Contents(h, recs, all), DocAt(news, all, m))
      BY <1>2, <1>3, <1>4, <2>1, <2>2, OneMore
    <2>4. docs' = WithDoc(docs, DocAt(news, all, m))
      BY <1>5, <2>3
    <2>5. m + 1 \in 1 .. Len(news)
      BY <1>3
    <2> QED
      BY <1>2, <1>3, <2>4, <2>5, AddIsNext
  <1> QED
    BY <1>6, <1>7

LEMMA WriteHeaderAdds ==
    ASSUME IInv, DocInv, LogInv, [Next]_vars, WriteHeader \/ RetryHeader
    PROVE  Log!Next \/ docs' = docs
  <1> DEFINE recs == entry_file.recs
             h == entry_file.header
             g == header'
             all == AllText
             n == Len(recs)
  <1>1. /\ step' = Idle /\ step.at \in {"write_header", "retry_header"} /\ AllText' = all
        /\ entry_file'.recs = recs /\ entry_file'.header = g
    BY StepFacts DEF WriteHeader, RetryHeader, AllText
  <1>2. /\ recs \in Seq(Record) /\ all \in Seq(Cell) /\ h \in Header /\ n \in Nat
    BY <1>1 DEF DocInv, TypesOK, RecordSteps, AllText, IInv, FilesOK
  <1>3. g \in Header /\ g.total = h.total + 1 /\ h.total \in Nat
    <2>1. CASE WriteHeader
      <3>1. header = h /\ g = [live |-> header.live + 1, total |-> header.total + 1]
        BY <2>1 DEF WriteHeader, IInv, OpenOK, RecordSteps, CountOK
      <3> QED
        BY <1>2, <3>1 DEF Header
    <2>2. CASE RetryHeader
      <3>1. g = header /\ header.total = h.total + 1 /\ header \in Header
        BY <2>2 DEF RetryHeader, IInv, CountOK, FilesOK
      <3> QED
        BY <1>2, <3>1 DEF Header
    <2> QED
      BY <2>1, <2>2
  <1>4. Neat(recs, all) /\ n <= h.total + 1
    BY <1>1 DEF LogInv, NeatOK, TotalOK, IInv, OpenOK, RecordSteps, DocInv, FilesThere
  <1>5. docs = Contents(h, recs, all) /\ docs' = Contents(g, recs, all)
    BY <1>1 DEF docs, SwapSteps, Idle
  <1>6. /\ n # 0 /\ recs[n] = step.rec /\ step.rec.flag = 1
        /\ step.rec.len = Len(Text(step.rec.val)) /\ Placed(all, step.rec.off, Text(step.rec.val))
    BY <1>1 DEF DocInv, InsertOK
  <1> HIDE DEF recs, h, all, n, g
  <1>7. CASE n <= h.total
    <2>1. n <= Len(recs) /\ Len(recs) = n /\ h.total >= n /\ g.total >= n
      BY <1>2, <1>3, <1>7 DEF n
    <2>2. \A i \in 1 .. n : recs[i] = recs[i]
      OBVIOUS
    <2>3. Contents(g, recs, all) = Contents(h, recs, all)
      BY <1>2, <1>3, <1>4, <2>1, <2>2, NoMore
    <2> QED
      BY <1>5, <2>3
  <1>8. CASE ~(n <= h.total)
    <2> DEFINE m == h.total
    <2>1. n = m + 1 /\ m \in Nat
      BY <1>2, <1>3, <1>4, <1>8
    <2>2. /\ m < Len(recs) /\ m <= Len(recs) /\ h.total <= m /\ h.total >= m
          /\ Len(recs) = m + 1 /\ g.total >= m + 1 /\ recs[m + 1].flag = 1
      BY <1>3, <1>6, <2>1 DEF n
    <2>3. \A i \in 1 .. m : recs[i] = recs[i]
      OBVIOUS
    <2> HIDE DEF m
    <2>4. Contents(g, recs, all) = WithDoc(Contents(h, recs, all), DocAt(recs, all, m))
      BY <1>2, <1>3, <1>4, <2>1, <2>2, <2>3, OneMore
    <2>5. docs' = WithDoc(docs, DocAt(recs, all, m))
      BY <1>5, <2>4
    <2>6. m + 1 \in 1 .. Len(recs) /\ recs[m + 1] = step.rec
      BY <1>6, <2>1, <2>2
    <2> QED
      BY <1>2, <1>6, <2>1, <2>5, <2>6, AddIsNext
  <1> QED
    BY <1>7, <1>8

\* Every step is a step of the log.
LEMMA LogStep ==
    ASSUME Quiet, IInv, DocInv, LogInv, [Next]_vars
    PROVE  Log!Next \/ docs' = docs
  <1> USE DEF disk, ram, LogInv
  <1>0. QuietKills
    BY DEF Quiet, QuietKills
  <1>1. CASE UNCHANGED vars
    BY <1>1 DEF vars, docs, AllText
  <1>2. ASSUME NEW id \in Id, NEW v \in Val, WriteText(id, v)
        PROVE  docs' = docs
    <2>1. step'.at = "write_record" /\ step.at = "idle" /\ entry_file' = entry_file
      BY <1>2, WriteFacts DEF DocInv, WriteText, Ready, Idle
    <2>2. Contents(entry_file.header, entry_file.recs, AllText')
            = Contents(entry_file.header, entry_file.recs, AllText)
      BY <1>2, WriteIsNeat
    <2> QED
      BY <2>1, <2>2 DEF docs, SwapSteps
  <1>3. CASE WriteRecord
    BY <1>3, WriteRecordAdds
  <1>4. CASE WriteHeader
    BY <1>4, WriteHeaderAdds
  <1>5. CASE ReadText
    <2>1. AllText' = AllText
      BY <1>5, ConcatEmptySeq DEF ReadText, AllText, DocInv, TypesOK
    <2> QED
      BY <1>5, <2>1 DEF ReadText, docs
  <1>6. CASE Save
    <2>1. /\ entry_file'.recs = entry_file.recs /\ entry_file'.header = entry_file.header
          /\ AllText' = AllText /\ step' = step
      BY <1>6, StepFacts DEF Save, Ready, Idle, IInv, CountOK, AllText
    <2> QED
      BY <2>1 DEF docs
  <1>7. ASSUME NEW id \in Id, DeleteRecord(id)
        PROVE  Log!Next \/ docs' = docs
    <2>1. CASE docs' = docs
      BY <2>1
    <2>2. CASE Log!Remove(id)
      <3>1. PICK v \in Val : TRUE
        <4>1. step'.rec \in Record
          BY <1>7, DeleteIs DEF DocInv
        <4> QED
          BY <4>1 DEF Record
      <3>2. [id |-> id, val |-> v, text |-> Text(v)] \in [id : Id, val : Val, text : {Text(w) : w \in Val}]
        OBVIOUS
      <3> QED
        BY <2>2, <3>2 DEF Log!Next
    <2> QED
      BY <1>7, <2>1, <2>2, TombstoneRemoves
  <1>8. CASE DeleteHeader
    <2>1. /\ step.at = "delete_header" /\ step'.at = "delete_text" /\ AllText' = AllText
          /\ entry_file'.recs = entry_file.recs /\ entry_file'.header = header
      BY <1>8, StepFacts DEF DeleteHeader, AllText
    <2>2. header.total = entry_file.header.total
      BY <2>1 DEF IInv, CountOK
    <2>3. Readable(header, entry_file.recs, AllText) = Readable(entry_file.header, entry_file.recs, AllText)
      BY <2>2 DEF Readable, entry_readable
    <2>4. Contents(header, entry_file.recs, AllText) = Contents(entry_file.header, entry_file.recs, AllText)
      BY <2>3 DEF Contents, ReadAll
    <2> QED
      BY <2>1, <2>4 DEF docs, SwapSteps
  <1>9. CASE DeleteText
    <2>1. Contents(entry_file.header, entry_file.recs, AllText')
            = Contents(entry_file.header, entry_file.recs, AllText)
      BY <1>9, ZeroIsNeat
    <2> QED
      BY <1>9, <2>1 DEF DeleteText, docs, SwapSteps, Idle
  <1>10. CASE CompactCopy
    <2>1. step'.at = "swap_entry" /\ step'.kept = Contents(header, entry_file.recs, AllText)
          /\ header = entry_file.header
      BY <1>10, CopyFacts DEF DocInv
    <2>2. step.at = "idle"
      BY <1>10 DEF CompactCopy, Ready, Idle
    <2> QED
      BY <2>1, <2>2 DEF docs, SwapSteps
  <1>11. CASE RemoveEntryFile
    BY <1>11, StepFacts DEF RemoveEntryFile, docs, SwapSteps
  <1>12. CASE RemoveTextFile
    BY <1>12, StepFacts DEF RemoveTextFile, docs, SwapSteps
  <1>13. CASE RenameEntry
    BY <1>13, StepFacts DEF RenameEntry, docs, SwapSteps
  <1>14. CASE RenameText
    BY <1>14, StepFacts DEF RenameText, docs, SwapSteps
  <1>15. ASSUME step.at \in {"swap_entry", "reopen"}, step' = Idle, entry_file' = entry_file,
                AllText' = text_file \/ AllText' = AllText
         PROVE  docs' = docs
    <2>1. text_buffer = <<>>
      BY <1>15 DEF IInv, OpenOK, SwapSteps, DocInv, FilesThere
    <2>2. AllText = text_file /\ AllText' = text_file
      BY <1>15, <2>1, ConcatEmptySeq DEF AllText, DocInv, TypesOK
    <2>3. Contents(entry_file.header, entry_file.recs, text_file) = step.kept
      BY <1>15, <2>2 DEF CallOK, DocInv, KeptOK
    <2> QED
      BY <1>15, <2>2, <2>3 DEF docs, SwapSteps, Idle
  <1>16. CASE Reopen
    BY <1>15, <1>16 DEF Reopen, AllText
  <1>17. CASE CopyFails
    BY <1>17 DEF CopyFails, docs, AllText
  <1>18. CASE SwapFails
    BY <1>15, <1>18 DEF SwapFails, Quiet, SwapSteps, AllText
  <1>a. CASE WriteFails
    BY <1>a DEF WriteFails, docs, SwapSteps, Idle, AllText
  <1>b. CASE HeaderFails
    BY <1>b, StepFacts DEF HeaderFails, docs, SwapSteps, AllText
  <1>c. CASE RetryHeader
    BY <1>c, WriteHeaderAdds
  <1>19. CASE Crash
    <2>1. /\ AllText' = text_file /\ entry_file' = entry_file /\ step' = Idle
          /\ Contents(entry_file.header, entry_file.recs, text_file)
               = Contents(entry_file.header, entry_file.recs, AllText)
      BY <1>0, <1>19, CrashIsNeat DEF Crash
    <2>2. CASE step.at \in SwapSteps
      <3>1. step.at \in {"swap_entry", "reopen"}
        BY <1>19, <2>2 DEF Crash, Quiet, SwapSteps
      <3> QED
        BY <1>15, <2>1, <3>1
    <2>3. CASE step.at \notin SwapSteps
      BY <2>1, <2>3 DEF docs, SwapSteps, Idle
    <2> QED
      BY <2>2, <2>3
  <1>20. CASE OpenFiles
    BY <1>20 DEF OpenFiles, docs, AllText
  <1>21. CASE CreateEntryFile
    <2>1. /\ entry_file.recs = <<>> /\ entry_file'.recs = <<>> /\ step'.at = "create_text"
          /\ step = Idle /\ AllText' = AllText /\ AllText \in Seq(Cell)
      BY <1>21 DEF CreateEntryFile, EmptyEntry, ThereOK, IInv, OpenOK, AllText, DocInv, TypesOK
    <2> QED
      BY <2>1, NoDocuments DEF docs, SwapSteps, Idle
  <1>22. CASE CreateTextFile
    <2>1. /\ entry_file.recs = <<>> /\ entry_file' = entry_file /\ step' = Idle
          /\ step.at = "create_text" /\ AllText \in Seq(Cell)
      BY <1>22 DEF CreateTextFile, AllText, DocInv, TypesOK, FilesThere
    <2>2. AllText' \in Seq(Cell)
      <3>1. text_file' = <<>> /\ text_buffer' = text_buffer /\ text_buffer \in Seq(Cell) /\ <<>> \in Seq(Cell)
        BY <1>22 DEF CreateTextFile, DocInv, TypesOK
      <3> QED
        BY <3>1 DEF AllText
    <2> QED
      BY <2>1, <2>2, NoDocuments DEF docs, SwapSteps, Idle
  <1>23. CASE RefuseToStart
    BY <1>23 DEF RefuseToStart, docs, AllText
  <1> QED
    BY <1>1, <1>2, <1>3, <1>4, <1>5, <1>6, <1>7, <1>8, <1>9, <1>10, <1>11, <1>12, <1>13, <1>14, <1>16, <1>17, <1>18, <1>a, <1>b, <1>c, <1>19, <1>20, <1>21, <1>22, <1>23 DEF Next

\* Where kills and failures are quiet the files implement the log.
THEOREM LogImplemented ==
    ASSUME Quiet
    PROVE  Spec => ImplementsLog
  <1>1. Init => Log!Init
    <2> SUFFICES ASSUME Init PROVE Log!Init
      OBVIOUS
    <2>1. entry_file.recs = <<>> /\ step.at = "idle" /\ AllText \in Seq(Cell)
      BY DEF Init, EmptyEntry, Idle, AllText
    <2> QED
      BY <2>1, NoDocuments DEF Log!Init, docs, SwapSteps
  <1>2. IInv /\ DocInv /\ LogInv /\ [Next]_vars => LogInv'
    BY LogInvStep DEF Quiet, QuietKills
  <1>3. IInv /\ DocInv /\ LogInv /\ [Next]_vars => [Log!Next]_docs
    BY LogStep
  <1> QED
    BY DocInductive, LogInit, <1>1, <1>2, <1>3, PTL DEF Spec, ImplementsLog, Log!Spec
=============================================================================
