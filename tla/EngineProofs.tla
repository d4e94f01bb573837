----------------------------- MODULE EngineProofs -----------------------------
(***************************************************************************)
(* The engine as a whole, for every value of its constants: each command   *)
(* keeps the files and the vector store to their own specifications, and   *)
(* between two commands RAM holds the vectors that the files hold.         *)
(*                                                                         *)
(* The hypothesis of the theorems is QuietKills of FileManagerProofs: no   *)
(* kill falls between a record and its header or finds a text in the       *)
(* stream.  Every other kill is allowed, and every failure that the module *)
(* models; where one leaves RAM and disk apart, they may differ on the ids *)
(* in apart and on no other.                                               *)
(***************************************************************************)
EXTENDS Engine, FileManagerProofs

\* The theorems about the vector store, for the engine's vector store.
StoreProofs == INSTANCE VectorStoreProofs WITH
                   up <- serving,
                   TextRef <- TextRefs,
                   Row <- [id : Id, embedding : Embedding, text : TextRefs]

-----------------------------------------------------------------------------
(* The inductive invariant, on top of those of the files.                  *)

\* Where the records with a live flag are, and which they are.
Live(recs) == {i \in 1 .. Len(recs) : recs[i].flag = 1}
LiveRecords(recs) == {recs[i] : i \in Live(recs)}

\* No two live records have one id, but for the ids in A; none has this id.
OneEach(recs, A) ==
    \A i, j \in Live(recs) : recs[i].id = recs[j].id => i = j \/ recs[i].id \in A
New(recs, id) == \A i \in Live(recs) : recs[i].id # id

\* The steps of a swap that has yet to rename the new entry file.
Copied == {"swap_entry", "swap_text", "rename_entry"}

\* What the thread with store_mutex_ does, and where its call stands.
CommandOK ==
    /\ command \in {"none", "insert", "delete", "compact"} /\ stale \in BOOLEAN
    /\ serving \in BOOLEAN /\ apart \subseteq Id
    /\ serving => status = "up" /\ step.at # "create_text"
    /\ command = "insert" <=> step.at \in {"write_record", "write_header"}
    /\ command = "delete" <=> step.at \in {"delete_header", "delete_text"}
    /\ step.at \in SwapSteps => command = "compact"
    /\ command # "none" => serving
    /\ command = "insert" => count < MaxVectors /\ ~Store!id_exists(step.rec.id)

\* Before run() has loaded anything RAM is that of a new process.
BlankOK ==
    ~serving =>
        /\ count = 0 /\ metadata = {} /\ last_build_at = 0
        /\ \A array \in {ids, embeddings, text_refs} : array = Store!EmptyArray
        /\ centroid_count = MaxCentroids
        /\ centroids = Store!NoCentroids /\ lists = Store!NoLists

\* The texts end within the text file, whose length the model bounds.
RangeOK ==
    /\ Fits(entry_file.recs, MaxCells)
    /\ step.at \in Copied => Fits(temp_entry.recs, MaxCells)
    /\ step.at \in {"write_record", "write_header"} =>
        step.rec.off + 1 + step.rec.len <= MaxCells

\* No id is twice on disk, whatever a call in progress has done to the files,
\* but for those whose INSERT or DELETE failed half way.
OneEachOK ==
    /\ OneEach(entry_file.recs, apart)
    /\ step.at \in Copied => OneEach(temp_entry.recs, apart)
    /\ step.at \in {"write_record", "delete_header", "delete_text"} =>
        step.rec.id \in apart \/ New(entry_file.recs, step.rec.id)

\* RAM row i is that of record r; exact: its text is where r says.
Holds(idarr, embarr, refarr, i, r, exact) ==
    /\ idarr[i] = r.id
    /\ embarr[i] = EmbeddingOf[r.val]
    /\ refarr[i].len = r.len
    /\ exact => refarr[i].off = r.off

\* But for the ids in A the n rows are those of the records R, and no two have
\* one id.
Mirrors(n, idarr, embarr, refarr, R, A, exact) ==
    /\ \A i \in 0 .. n - 1 : idarr[i] \in A \/ \E r \in R : Holds(idarr, embarr, refarr, i, r, exact)
    /\ \A r \in R : r.id \in A \/ \E i \in 0 .. n - 1 : Holds(idarr, embarr, refarr, i, r, exact)
    /\ \A i, j \in 0 .. n - 1 : idarr[i] = idarr[j] => i = j \/ idarr[i] \in A

InMemory(R, exact) == Mirrors(count, ids, embeddings, text_refs, R, apart, exact)

\* What RAM mirrors while a call is under way: an INSERT enters RAM after its
\* header is written, a DELETE leaves RAM after its text flag is, and a swap
\* moves the texts but no document.
MirrorOK ==
    serving =>
        /\ is_open /\ step.at \in {"idle", "write_record", "retry_header"} =>
            InMemory(LiveRecords(entry_file.recs), ~stale)
        /\ step.at = "write_header" =>
            InMemory({entry_file.recs[i] : i \in Live(entry_file.recs) \ {Len(entry_file.recs)}}, ~stale)
        /\ step.at \in {"delete_header", "delete_text"} =>
            InMemory(LiveRecords(entry_file.recs) \union {step.rec}, ~stale)
        /\ step.at \in Copied => InMemory(LiveRecords(temp_entry.recs), FALSE)
        /\ step.at \in {"rename_text", "reopen"} => InMemory(LiveRecords(entry_file.recs), FALSE)

FilesInv == IInv /\ DocInv /\ LogInv
EngineInv == CommandOK /\ BlankOK /\ RangeOK /\ OneEachOK /\ MirrorOK

-----------------------------------------------------------------------------
(* What the file operations do to the live records.                        *)

\* A tombstone takes out one of them.
LEMMA LiveDead ==
    ASSUME NEW recs \in Seq(Record), NEW i \in Nat, i < Len(recs), recs[i + 1].flag = 1,
           NEW A, OneEach(recs, A)
    PROVE  /\ OneEach(Dead(recs, i), A)
           /\ recs[i + 1].id \in A \/ New(Dead(recs, i), recs[i + 1].id)
           /\ LiveRecords(recs) = LiveRecords(Dead(recs, i)) \union {recs[i + 1]}
  <1> DEFINE new == Dead(recs, i)
             k == i + 1
  <1>1. /\ Len(new) = Len(recs) /\ k \in 1 .. Len(recs) /\ new[k].flag = 0
        /\ \A j \in 1 .. Len(recs) : j # k => new[j] = recs[j]
    BY TombstoneIs
  <1> HIDE DEF new, k
  <1>2. Live(recs) = Live(new) \union {k} /\ k \notin Live(new)
    BY <1>1 DEF Live, k
  <1>3. \A j \in Live(new) : new[j] = recs[j] /\ j \in Live(recs) /\ j # k
    BY <1>1, <1>2 DEF Live
  <1>4. k \in Live(recs)
    BY <1>2
  <1>5. OneEach(new, A) /\ (recs[k].id \in A \/ New(new, recs[k].id))
    BY <1>3, <1>4 DEF OneEach, New
  <1>6. LiveRecords(recs) = LiveRecords(new) \union {recs[k]}
    BY <1>2, <1>3 DEF LiveRecords
  <1> QED
    BY <1>5, <1>6 DEF new, k

\* The record of an INSERT adds one.
LEMMA LiveAppend ==
    ASSUME NEW recs \in Seq(Record), NEW rec \in Record, rec.flag = 1,
           NEW A, OneEach(recs, A), rec.id \in A \/ New(recs, rec.id)
    PROVE  /\ OneEach(Append(recs, rec), A)
           /\ Len(Append(recs, rec)) = Len(recs) + 1
           /\ LiveRecords(recs)
                = {Append(recs, rec)[i] : i \in Live(Append(recs, rec)) \ {Len(recs) + 1}}
           /\ LiveRecords(Append(recs, rec)) = LiveRecords(recs) \union {rec}
  <1> DEFINE new == Append(recs, rec)
             n == Len(recs)
  <1>1. n \in Nat /\ Len(new) = n + 1 /\ new[n + 1] = rec /\ \A i \in 1 .. n : new[i] = recs[i]
    OBVIOUS
  <1> HIDE DEF new, n
  <1>2. Live(new) = Live(recs) \union {n + 1} /\ n + 1 \notin Live(recs)
    <2>1. Live(recs) \subseteq 1 .. n
      BY DEF Live, n
    <2>2. \A i \in 1 .. n : i \in Live(new) <=> i \in Live(recs)
      BY <1>1 DEF Live, n
    <2>3. n + 1 \in Live(new) /\ Live(new) \subseteq 1 .. n + 1
      BY <1>1 DEF Live
    <2>4. \A i : i \in 1 .. n + 1 <=> i \in 1 .. n \/ i = n + 1
      BY <1>1
    <2>5. n + 1 \notin 1 .. n
      BY <1>1
    <2> QED
      BY <2>1, <2>2, <2>3, <2>4, <2>5
  <1>3. \A i \in Live(recs) : new[i] = recs[i]
    BY <1>1 DEF Live, n
  <1>4. Live(new) \ {n + 1} = Live(recs)
    BY <1>2
  <1>5. OneEach(new, A)
    <2> SUFFICES ASSUME NEW i \in Live(new), NEW j \in Live(new), new[i].id = new[j].id
                 PROVE  i = j \/ new[i].id \in A
      BY DEF OneEach
    <2>1. CASE i = n + 1 \/ j = n + 1
      BY <1>1, <1>2, <1>3, <2>1 DEF New
    <2>2. CASE i # n + 1 /\ j # n + 1
      BY <1>2, <1>3, <2>2 DEF OneEach
    <2> QED
      BY <2>1, <2>2
  <1>6. LiveRecords(recs) = {new[i] : i \in Live(new) \ {n + 1}}
    BY <1>3, <1>4 DEF LiveRecords
  <1>7. LiveRecords(new) = LiveRecords(recs) \union {rec}
    BY <1>1, <1>2, <1>3 DEF LiveRecords
  <1> QED
    BY <1>1, <1>5, <1>6, <1>7 DEF new, n

\* A loop of read_entry over files in order delivers the live records, each once.
LEMMA ReadLive ==
    ASSUME NEW h \in Header, NEW recs \in Seq(Record), NEW tf, NEW rs, rs = ReadAll(h, recs, tf),
           Neat(recs, tf), Len(recs) <= h.total, NEW A, OneEach(recs, A)
    PROVE  /\ rs \in Seq(Record) /\ Len(rs) \in Nat
           /\ LiveRecords(recs) = {rs[k] : k \in 1 .. Len(rs)}
           /\ \A k, l \in 1 .. Len(rs) : rs[k].id = rs[l].id => k = l \/ rs[k].id \in A
           /\ \A i, j \in Live(recs) : i # j =>
                \E k, l \in 1 .. Len(rs) : k # l /\ rs[k] = recs[i] /\ rs[l] = recs[j]
           /\ \A k \in 1 .. Len(rs) : rs[k].flag = 1
           /\ Spaced(rs)
  <1> DEFINE S == Readable(h, recs, tf)
             nth(k) == Nth(S, k)
             n == Len(recs)
  <1>1. /\ S \in SUBSET (0 .. n - 1) /\ rs \in Seq(Record)
        /\ Len(rs) = Cardinality(S) /\ Len(rs) \in Nat /\ n \in Nat
        /\ \A k \in 1 .. Len(rs) : nth(k) \in S /\ rs[k] = recs[nth(k) + 1] /\ rs[k].flag = 1
    <2> DEFINE all == ReadAll(h, recs, tf)
    <2>1. /\ Readable(h, recs, tf) \in SUBSET (0 .. Len(recs) - 1) /\ all \in Seq(Record)
          /\ Len(all) = Cardinality(Readable(h, recs, tf)) /\ Len(all) \in Nat
          /\ \A k \in 1 .. Len(all) :
               /\ Nth(Readable(h, recs, tf), k) \in Readable(h, recs, tf)
               /\ all[k] = recs[Nth(Readable(h, recs, tf), k) + 1]
               /\ all[k].flag = 1
               /\ text_readable(tf, all[k].off, all[k].len)
      BY ReadAllIs
    <2>2. rs = all /\ n \in Nat
      OBVIOUS
    <2>3. S = Readable(h, recs, tf) /\ n = Len(recs) /\ \A k : nth(k) = Nth(S, k)
      OBVIOUS
    <2> HIDE DEF all, S, n, nth
    <2>4. /\ S \in SUBSET (0 .. n - 1) /\ rs \in Seq(Record)
          /\ Len(rs) = Cardinality(S) /\ Len(rs) \in Nat
      BY <2>1, <2>2, <2>3
    <2>5. ASSUME NEW k \in 1 .. Len(rs)
          PROVE  nth(k) \in S /\ rs[k] = recs[nth(k) + 1] /\ rs[k].flag = 1
      BY <2>1, <2>2, <2>3
    <2> QED
      BY <2>2, <2>4, <2>5
  <1>2. \A i : i \in S <=> i + 1 \in Live(recs) /\ i \in 0 .. n - 1
    <2>1. S = Flagged(h, recs)
      BY NeatReads
    <2>2. h.total \in Nat
      BY DEF Header
    <2> QED
      BY <1>1, <2>1, <2>2 DEF Flagged, Live
  <1>3. ASSUME NEW i \in S
        PROVE  \E k \in 1 .. Len(rs) : nth(k) = i
    <2> DEFINE k == Cardinality({j \in S : j < i}) + 1
    <2>1. k \in 1 .. Cardinality(S) /\ Nth(S, k) = i
      <3> HIDE DEF S, n
      <3> QED
        BY <1>1, NthOf
    <2> QED
      BY <1>1, <2>1
  <1>4. ASSUME NEW k \in 1 .. Len(rs), NEW l \in 1 .. Len(rs), k < l
        PROVE  nth(k) < nth(l)
    <2> HIDE DEF S, n
    <2> QED
      BY <1>1, <1>4, NthOrder
  <1>5. ASSUME NEW k \in 1 .. Len(rs), NEW l \in 1 .. Len(rs), nth(k) = nth(l)
        PROVE  k = l
    <2>1. ~(nth(k) < nth(l)) /\ ~(nth(l) < nth(k))
      <3>1. nth(k) \in S /\ nth(k) \in Nat
        BY <1>1
      <3> QED
        BY <1>5, <3>1
    <2>2. ~(k < l) /\ ~(l < k)
      BY <1>4, <2>1
    <2> QED
      BY <1>1, <2>2
  <1> HIDE DEF S, nth
  <1>6. ASSUME NEW k \in 1 .. Len(rs)
        PROVE  nth(k) + 1 \in Live(recs) /\ rs[k] = recs[nth(k) + 1] /\ nth(k) \in Nat
    BY <1>1, <1>2
  <1>7. ASSUME NEW i \in Live(recs)
        PROVE  \E k \in 1 .. Len(rs) : rs[k] = recs[i] /\ nth(k) + 1 = i
    <2>1. i - 1 \in 0 .. n - 1 /\ (i - 1) + 1 = i
      BY <1>1 DEF Live
    <2>2. i - 1 \in S
      BY <1>2, <2>1
    <2>3. PICK k \in 1 .. Len(rs) : nth(k) = i - 1
      BY <1>3, <2>2
    <2> QED
      BY <1>6, <2>1, <2>3
  <1>8. LiveRecords(recs) = {rs[k] : k \in 1 .. Len(rs)}
    <2>1. ASSUME NEW r \in LiveRecords(recs)
          PROVE  r \in {rs[k] : k \in 1 .. Len(rs)}
      <3>1. PICK i \in Live(recs) : r = recs[i]
        BY DEF LiveRecords
      <3>2. PICK k \in 1 .. Len(rs) : rs[k] = recs[i]
        BY <1>7
      <3> QED
        BY <3>1, <3>2
    <2>2. ASSUME NEW k \in 1 .. Len(rs)
          PROVE  rs[k] \in LiveRecords(recs)
      BY <1>6 DEF LiveRecords
    <2> QED
      BY <2>1, <2>2
  <1>11. ASSUME NEW i \in Live(recs), NEW j \in Live(recs), i # j
         PROVE  \E k, l \in 1 .. Len(rs) : k # l /\ rs[k] = recs[i] /\ rs[l] = recs[j]
    <2>1. PICK k \in 1 .. Len(rs) : rs[k] = recs[i] /\ nth(k) + 1 = i
      BY <1>7
    <2>2. PICK l \in 1 .. Len(rs) : rs[l] = recs[j] /\ nth(l) + 1 = j
      BY <1>7
    <2>3. k # l
      BY <1>11, <2>1, <2>2
    <2> QED
      BY <2>1, <2>2, <2>3
  <1>9. ASSUME NEW k \in 1 .. Len(rs), NEW l \in 1 .. Len(rs), rs[k].id = rs[l].id, rs[k].id \notin A
        PROVE  k = l
    <2> DEFINE i == nth(k) + 1
               j == nth(l) + 1
    <2>0. i \in Live(recs) /\ j \in Live(recs) /\ recs[i].id = recs[j].id /\ recs[i].id \notin A
      BY <1>6, <1>9
    <2> HIDE DEF i, j
    <2>1. i = j
      BY <2>0 DEF OneEach
    <2>2. nth(k) = nth(l)
      BY <1>6, <2>1 DEF i, j
    <2> QED
      BY <1>5, <2>2
  <1>10. Spaced(rs)
    <2> SUFFICES ASSUME NEW k \in 1 .. Len(rs), NEW l \in 1 .. Len(rs), k < l
                 PROVE  rs[k].off + 1 + rs[k].len <= rs[l].off
      BY DEF Spaced
    <2>1. nth(k) + 1 \in 1 .. n /\ nth(l) + 1 \in 1 .. n /\ nth(k) + 1 < nth(l) + 1
      BY <1>4, <1>6 DEF Live
    <2> QED
      BY <1>6, <2>1 DEF Neat, Spaced
  <1> QED
    BY <1>1, <1>8, <1>9, <1>10, <1>11

\* Compaction moves no text towards the end.
LEMMA MovedDown ==
    ASSUME NEW rs \in Seq(Record), Spaced(rs), NEW k \in 1 .. Len(rs)
    PROVE  NewOffset(rs, k) <= rs[k].off
  <1> DEFINE n == Len(rs)
             T == {m \in 1 .. n : ~(NewOffset(rs, m) <= rs[m].off)}
  <1>1. n \in Nat /\ \A m \in 1 .. n : rs[m].off \in Nat /\ rs[m].len \in Nat
    BY Fields
  <1>2. ASSUME T # {} PROVE FALSE
    <2>0. T \in SUBSET Nat
      BY <1>1
    <2>1. PICK m \in T : \A l \in T : m <= l
      <3> HIDE DEF T
      <3> QED
        BY <1>2, <2>0, LeastElement
    <2>2. m \in 1 .. n /\ ~(NewOffset(rs, m) <= rs[m].off) /\ m \in Nat
      BY <1>1
    <2>3. m # 1
      BY <1>1, <2>2, NewOffsetIs
    <2>4. m - 1 \in 1 .. n /\ m - 1 < m
      BY <1>1, <2>2, <2>3
    <2>5. m - 1 \notin T
      <3>1. ~(m <= m - 1)
        BY <2>2
      <3> HIDE DEF T
      <3> QED
        BY <2>1, <3>1
    <2>6. NewOffset(rs, m - 1) <= rs[m - 1].off
      BY <2>4, <2>5
    <2>7. NewOffset(rs, m) = NewOffset(rs, m - 1) + 1 + rs[m - 1].len
      BY <2>2, <2>3, NewOffsetIs
    <2>8. rs[m - 1].off + 1 + rs[m - 1].len <= rs[m].off
      BY <2>2, <2>4 DEF Spaced
    <2> DEFINE before == rs[m - 1].off
               len == rs[m - 1].len
               off == rs[m].off
               moved == NewOffset(rs, m - 1)
    <2>9. before \in Nat /\ len \in Nat /\ off \in Nat /\ moved \in Nat
      BY <1>1, <2>2, <2>4, NewOffsetIs
    <2>10. ~(moved + 1 + len <= off) /\ moved <= before /\ before + 1 + len <= off
      BY <2>2, <2>6, <2>7, <2>8
    <2> HIDE DEF before, len, off, moved
    <2> QED
      BY <2>9, <2>10
  <1> QED
    BY <1>2

\* R and T hold the same records, but for where their texts are.
Alike(R, T) ==
    /\ \A r \in R : \E t \in T : t.id = r.id /\ t.val = r.val /\ t.len = r.len
    /\ \A t \in T : \E r \in R : t.id = r.id /\ t.val = r.val /\ t.len = r.len

\* The new entry file holds the live records of the old one.
LEMMA CopyLive ==
    ASSUME NEW h \in Header, NEW recs \in Seq(Record), NEW tf, NEW rs, rs = ReadAll(h, recs, tf),
           Neat(recs, tf), Len(recs) <= h.total, NEW A, OneEach(recs, A),
           NEW n \in Nat, Fits(recs, n)
    PROVE  /\ OneEach(Moved(rs), A) /\ Fits(Moved(rs), n)
           /\ Alike(LiveRecords(recs), LiveRecords(Moved(rs)))
  <1> DEFINE new == Moved(rs)
             m == Len(rs)
  <1>1. /\ rs \in Seq(Record) /\ m \in Nat /\ Spaced(rs)
        /\ LiveRecords(recs) = {rs[k] : k \in 1 .. m}
        /\ \A k, l \in 1 .. m : rs[k].id = rs[l].id => k = l \/ rs[k].id \in A
        /\ \A k \in 1 .. m : rs[k].flag = 1
    BY ReadLive
  <1>2. /\ new \in Seq(Record) /\ Len(new) = m
        /\ \A k \in 1 .. m :
             /\ new[k].flag = rs[k].flag /\ new[k].id = rs[k].id
             /\ new[k].val = rs[k].val /\ new[k].len = rs[k].len
             /\ new[k].off = NewOffset(rs, k)
    BY <1>1, CopiedRecords DEF Moved
  <1> HIDE DEF new, m
  <1>3. Live(new) = 1 .. m
    BY <1>1, <1>2 DEF Live
  <1>4. OneEach(new, A)
    BY <1>1, <1>2, <1>3 DEF OneEach
  <1>5. Alike(LiveRecords(recs), LiveRecords(new))
    <2>1. LiveRecords(new) = {new[k] : k \in 1 .. m}
      BY <1>3 DEF LiveRecords
    <2>2. ASSUME NEW r \in LiveRecords(recs)
          PROVE  \E t \in LiveRecords(new) : t.id = r.id /\ t.val = r.val /\ t.len = r.len
      <3>1. PICK k \in 1 .. m : r = rs[k]
        BY <1>1
      <3> QED
        BY <1>2, <2>1, <3>1
    <2>3. ASSUME NEW t \in LiveRecords(new)
          PROVE  \E r \in LiveRecords(recs) : t.id = r.id /\ t.val = r.val /\ t.len = r.len
      <3>1. PICK k \in 1 .. m : t = new[k]
        BY <2>1
      <3> QED
        BY <1>1, <1>2, <3>1
    <2> QED
      BY <2>2, <2>3 DEF Alike
  <1>6. ASSUME NEW k \in 1 .. m
        PROVE  new[k].off + 1 + new[k].len <= n
    <2>1. NewOffset(rs, k) <= rs[k].off /\ NewOffset(rs, k) \in Nat
      BY <1>1, MovedDown, NewOffsetIs DEF m
    <2>2. rs[k].off \in Nat /\ rs[k].len \in Nat
      BY <1>1, Fields DEF m
    <2>3. rs[k] \in LiveRecords(recs)
      BY <1>1
    <2>4. rs[k].off + 1 + rs[k].len <= n
      BY <2>3 DEF LiveRecords, Live, Fits
    <2>5. new[k].off = NewOffset(rs, k) /\ new[k].len = rs[k].len
      BY <1>2
    <2> QED
      BY <2>1, <2>2, <2>4, <2>5
  <1>7. Fits(new, n)
    BY <1>2, <1>6 DEF Fits
  <1> QED
    BY <1>4, <1>5, <1>7 DEF new

-----------------------------------------------------------------------------
(* What the operations on RAM do to the rows.                              *)

\* Rows that mirror the records exactly also mirror them but for their texts.
LEMMA MirrorsLoosely ==
    ASSUME NEW n, NEW idarr, NEW embarr, NEW refarr, NEW R, NEW A, NEW x,
           Mirrors(n, idarr, embarr, refarr, R, A, x)
    PROVE  Mirrors(n, idarr, embarr, refarr, R, A, FALSE)
  <1>1. ASSUME NEW i, NEW r, Holds(idarr, embarr, refarr, i, r, x)
        PROVE  Holds(idarr, embarr, refarr, i, r, FALSE)
    BY <1>1 DEF Holds
  <1> QED
    BY <1>1 DEF Mirrors

\* Only the records of the other ids count, of which there may be fewer.
LEMMA MirrorsOthers ==
    ASSUME NEW n, NEW idarr, NEW embarr, NEW refarr, NEW R, NEW T, NEW A, NEW B, NEW x,
           A \subseteq B, \A r : r.id \in B \/ (r \in R <=> r \in T),
           Mirrors(n, idarr, embarr, refarr, R, A, x)
    PROVE  Mirrors(n, idarr, embarr, refarr, T, B, x)
  <1>1. \A i, r : Holds(idarr, embarr, refarr, i, r, x) => idarr[i] = r.id
    BY DEF Holds
  <1> QED
    BY <1>1 DEF Mirrors

\* They also mirror the records that a compaction has made of them.
LEMMA MirrorsAlike ==
    ASSUME NEW n, NEW idarr, NEW embarr, NEW refarr, NEW R, NEW T, NEW A, Alike(R, T),
           Mirrors(n, idarr, embarr, refarr, R, A, FALSE)
    PROVE  Mirrors(n, idarr, embarr, refarr, T, A, FALSE)
  <1>1. ASSUME NEW i, NEW r, NEW t, t.id = r.id, t.val = r.val, t.len = r.len
        PROVE  Holds(idarr, embarr, refarr, i, r, FALSE) <=> Holds(idarr, embarr, refarr, i, t, FALSE)
    BY <1>1 DEF Holds
  <1>2. ASSUME NEW i \in 0 .. n - 1, idarr[i] \notin A
        PROVE  \E t \in T : Holds(idarr, embarr, refarr, i, t, FALSE)
    <2>1. PICK r \in R : Holds(idarr, embarr, refarr, i, r, FALSE)
      BY <1>2 DEF Mirrors
    <2>2. PICK t \in T : t.id = r.id /\ t.val = r.val /\ t.len = r.len
      BY DEF Alike
    <2> QED
      BY <1>1, <2>1, <2>2
  <1>3. ASSUME NEW t \in T, t.id \notin A
        PROVE  \E i \in 0 .. n - 1 : Holds(idarr, embarr, refarr, i, t, FALSE)
    <2>1. PICK r \in R : t.id = r.id /\ t.val = r.val /\ t.len = r.len
      BY DEF Alike
    <2>2. PICK i \in 0 .. n - 1 : Holds(idarr, embarr, refarr, i, r, FALSE)
      BY <1>3, <2>1 DEF Mirrors
    <2> QED
      BY <1>1, <2>1, <2>2
  <1> QED
    BY <1>2, <1>3 DEF Mirrors

\* The rows loaded from the files mirror their live records.
LEMMA RowsMirror ==
    ASSUME NEW rs \in Seq(Record), NEW R, R = {rs[k] : k \in 1 .. Len(rs)}, NEW A,
           \A k, l \in 1 .. Len(rs) : rs[k].id = rs[l].id => k = l \/ rs[k].id \in A,
           Store!FillRows(Len(rs), RowsOf(rs))
    PROVE  Mirrors(count', ids', embeddings', text_refs', R, A, TRUE)
  <1> DEFINE n == Len(rs)
  <1>1. n \in Nat
    OBVIOUS
  <1>2. /\ count' = n
        /\ \A i \in 0 .. n - 1 : ids'[i] = RowsOf(rs)[i].id
        /\ \A i \in 0 .. n - 1 : embeddings'[i] = RowsOf(rs)[i].embedding
        /\ \A i \in 0 .. n - 1 : text_refs'[i] = RowsOf(rs)[i].text
    BY DEF Store!FillRows, Store!RowEmbeddings
  <1>3. \A i \in 0 .. n - 1 : /\ RowsOf(rs)[i].id = rs[i + 1].id
                              /\ RowsOf(rs)[i].embedding = EmbeddingOf[rs[i + 1].val]
                              /\ RowsOf(rs)[i].text.off = rs[i + 1].off
                              /\ RowsOf(rs)[i].text.len = rs[i + 1].len
    BY DEF RowsOf, RefOf
  <1> HIDE DEF n
  <1>4. ASSUME NEW i \in 0 .. n - 1
        PROVE  /\ i + 1 \in 1 .. n /\ rs[i + 1] \in R /\ ids'[i] = rs[i + 1].id
               /\ Holds(ids', embeddings', text_refs', i, rs[i + 1], TRUE)
    <2>1. i + 1 \in 1 .. n
      BY <1>1
    <2>2. rs[i + 1] \in R
      BY <2>1 DEF n
    <2> QED
      BY <1>2, <1>3, <2>1, <2>2 DEF Holds
  <1>5. ASSUME NEW r \in R
        PROVE  \E i \in 0 .. n - 1 : Holds(ids', embeddings', text_refs', i, r, TRUE)
    <2>1. PICK k \in 1 .. n : r = rs[k]
      BY DEF n
    <2>2. k - 1 \in 0 .. n - 1 /\ (k - 1) + 1 = k
      BY <1>1
    <2>3. Holds(ids', embeddings', text_refs', k - 1, rs[(k - 1) + 1], TRUE)
      BY <1>4, <2>2
    <2> QED
      BY <2>1, <2>2, <2>3
  <1>6. ASSUME NEW i \in 0 .. n - 1, NEW j \in 0 .. n - 1, ids'[i] = ids'[j], ids'[i] \notin A
        PROVE  i = j
    <2>1. i + 1 \in 1 .. n /\ j + 1 \in 1 .. n /\ rs[i + 1].id = rs[j + 1].id /\ rs[i + 1].id \notin A
      BY <1>4, <1>6
    <2>2. i + 1 = j + 1
      BY <2>1 DEF n
    <2> QED
      BY <1>1, <2>2
  <1> QED
    BY <1>2, <1>4, <1>5, <1>6 DEF Mirrors

\* make_entry adds the row of the record it is given.
LEMMA RowsPush ==
    ASSUME NEW R, NEW A, NEW x, NEW rec, count \in Nat, ~Store!id_exists(rec.id),
           Mirrors(count, ids, embeddings, text_refs, R, A, x),
           Store!make_entry(rec.id, EmbeddingOf[rec.val], RefOf(rec))
    PROVE  Mirrors(count', ids', embeddings', text_refs', R \union {rec}, A, x)
  <1> DEFINE row(i, r) == Holds(ids, embeddings, text_refs, i, r, x)
             new(i, r) == Holds(ids', embeddings', text_refs', i, r, x)
  <1>1. /\ count' = count + 1
        /\ \A i \in 0 .. count - 1 : /\ ids'[i] = ids[i] /\ embeddings'[i] = embeddings[i]
                                     /\ text_refs'[i] = text_refs[i]
        /\ ids'[count] = rec.id /\ embeddings'[count] = EmbeddingOf[rec.val]
        /\ text_refs'[count] = RefOf(rec)
    BY DEF Store!make_entry, Store!Pushed
  <1>2. \A i \in 0 .. count - 1 : \A r : new(i, r) <=> row(i, r)
    BY <1>1 DEF Holds
  <1>3. new(count, rec)
    BY <1>1 DEF Holds, RefOf
  <1>4. /\ \A i \in 0 .. count - 1 : ids[i] \in A \/ \E r \in R : row(i, r)
        /\ \A r \in R : r.id \in A \/ \E i \in 0 .. count - 1 : row(i, r)
        /\ \A i, j \in 0 .. count - 1 : ids[i] = ids[j] => i = j \/ ids[i] \in A
    BY DEF Mirrors
  <1>5. \A i \in 0 .. count - 1 : ids'[i] = ids[i] /\ ids[i] # rec.id
    BY <1>1 DEF Store!id_exists
  <1>6. \A i : i \in 0 .. count' - 1 <=> i \in 0 .. count - 1 \/ i = count
    BY <1>1
  <1> HIDE DEF row, new
  <1>7. \A i \in 0 .. count' - 1 : ids'[i] \in A \/ \E r \in R \union {rec} : new(i, r)
    BY <1>2, <1>3, <1>4, <1>5, <1>6
  <1>8. \A r \in R \union {rec} : r.id \in A \/ \E i \in 0 .. count' - 1 : new(i, r)
    BY <1>2, <1>3, <1>4, <1>6
  <1>9. \A i, j \in 0 .. count' - 1 : ids'[i] = ids'[j] => i = j \/ ids'[i] \in A
    BY <1>1, <1>4, <1>5, <1>6
  <1> QED
    BY <1>7, <1>8, <1>9 DEF Mirrors, new

\* remove_entry takes out the row of the record with its id.
LEMMA RowsPop ==
    ASSUME NEW R, NEW A, NEW x, NEW rec, count \in Nat, \A r \in R : r.id # rec.id \/ r.id \in A,
           Mirrors(count, ids, embeddings, text_refs, R \union {rec}, A, x),
           NEW target \in 0 .. count - 1, ids[target] = rec.id,
           count' = count - 1,
           ids' = Store!SwapPopped(ids, target),
           embeddings' = Store!SwapPopped(embeddings, target),
           text_refs' = Store!SwapPopped(text_refs, target)
    PROVE  Mirrors(count', ids', embeddings', text_refs', R, A, x)
  <1> DEFINE row(i, r) == Holds(ids, embeddings, text_refs, i, r, x)
             new(i, r) == Holds(ids', embeddings', text_refs', i, r, x)
             from(i) == IF i = target THEN count - 1 ELSE i
  <1>1. \A i \in 0 .. count - 2 : /\ ids'[i] = ids[from(i)] /\ embeddings'[i] = embeddings[from(i)]
                                  /\ text_refs'[i] = text_refs[from(i)]
    BY DEF Store!SwapPopped
  <1>2. /\ \A i \in 0 .. count - 2 : from(i) \in 0 .. count - 1 /\ from(i) # target
        /\ \A i \in 0 .. count - 1 : i # target => \E j \in 0 .. count - 2 : from(j) = i
        /\ \A i, j \in 0 .. count - 2 : from(i) = from(j) => i = j
    <2>1. ASSUME NEW i \in 0 .. count - 1, i # target
          PROVE  \E j \in 0 .. count - 2 : from(j) = i
      <3>1. CASE i = count - 1
        <4>1. target \in 0 .. count - 2 /\ from(target) = i
          BY <2>1, <3>1
        <4> QED
          BY <4>1
      <3>2. CASE i # count - 1
        <4>1. i \in 0 .. count - 2 /\ from(i) = i
          BY <2>1, <3>2
        <4> QED
          BY <4>1
      <3> QED
        BY <3>1, <3>2
    <2> QED
      BY <2>1
  <1>3. \A i \in 0 .. count - 2 : \A r : new(i, r) <=> row(from(i), r)
    BY <1>1 DEF Holds
  <1>4. /\ \A i \in 0 .. count - 1 : ids[i] \in A \/ \E r \in R \union {rec} : row(i, r)
        /\ \A r \in R \union {rec} : r.id \in A \/ \E i \in 0 .. count - 1 : row(i, r)
        /\ \A i, j \in 0 .. count - 1 : ids[i] = ids[j] => i = j \/ ids[i] \in A
    BY DEF Mirrors
  <1>5. \A i, r : row(i, r) => ids[i] = r.id
    BY DEF Holds
  <1>6. \A i \in 0 .. count - 1 : i # target => ids[i] # rec.id \/ ids[i] \in A
    BY <1>4
  <1>7. \A i \in 0 .. count - 2 : ids'[i] = ids[from(i)]
    BY <1>1
  <1>8. 0 .. count' - 1 = 0 .. count - 2
    OBVIOUS
  <1> HIDE DEF row, new, from
  <1>9. ASSUME NEW i \in 0 .. count - 2, ids'[i] \notin A
        PROVE  \E r \in R : new(i, r)
    <2>1. PICK r \in R \union {rec} : row(from(i), r)
      BY <1>2, <1>4, <1>7, <1>9
    <2>2. r # rec
      BY <1>2, <1>5, <1>6, <1>7, <1>9, <2>1
    <2> QED
      BY <1>3, <2>1, <2>2
  <1>10. ASSUME NEW r \in R, r.id \notin A
         PROVE  \E i \in 0 .. count - 2 : new(i, r)
    <2>1. PICK i \in 0 .. count - 1 : row(i, r)
      BY <1>4, <1>10
    <2>2. i # target
      BY <1>5, <1>10, <2>1
    <2>3. PICK j \in 0 .. count - 2 : from(j) = i
      BY <1>2, <2>2
    <2> QED
      BY <1>3, <2>1, <2>3
  <1>11. ASSUME NEW i \in 0 .. count - 2, NEW j \in 0 .. count - 2, ids'[i] = ids'[j],
                ids'[i] \notin A
         PROVE  i = j
    BY <1>2, <1>4, <1>7, <1>11
  <1> QED
    BY <1>8, <1>9, <1>10, <1>11 DEF Mirrors, new

-----------------------------------------------------------------------------
(* The engine keeps its files to FileManager.                              *)

LEMMA EngineStep ==
    ASSUME [EngineNext]_engine_vars
    PROVE  [Next]_vars
  <1> USE DEF files
  <1>1. ASSUME NEW id \in Id, NEW v \in Val, InsertText(id, v)
        PROVE  Next
    BY <1>1 DEF InsertText, Next
  <1>2. ASSUME NEW id \in Id, DeleteStart(id)
        PROVE  Next
    BY <1>2 DEF DeleteStart, Next
  <1>3. CASE InsertRecord \/ InsertDone \/ DeleteMiddle \/ DeleteDone
    BY <1>3 DEF InsertRecord, InsertDone, DeleteMiddle, DeleteDone, Next
  <1>11. CASE InsertFails \/ HeaderRetried \/ DeleteFails
    BY <1>11 DEF InsertFails, HeaderRetried, DeleteFails, Next
  <1>4. CASE CompactStart \/ CompactSwap \/ CompactDone \/ CompactFails
    BY <1>4 DEF CompactStart, CompactSwap, CompactDone, CompactFails, Next
  <1>5. CASE Query \/ SaveCommand
    BY <1>5 DEF Query, SaveCommand, Next
  <1>6. CASE Optimize
    BY <1>6 DEF Optimize, vars
  <1>7. CASE Load
    BY <1>7 DEF Load, Next, vars
  <1>8. CASE Start \/ Kill
    BY <1>8 DEF Start, Kill, Next
  <1>9. CASE Run
    BY <1>9 DEF Run, vars
  <1>10. CASE UNCHANGED engine_vars
    BY <1>10 DEF engine_vars, vars
  <1> QED
    BY <1>1, <1>2, <1>3, <1>4, <1>5, <1>6, <1>7, <1>8, <1>9, <1>10, <1>11 DEF EngineNext

\* The commands use the two files as File_manager's operations allow, whatever
\* happens in between: all that holds of the files holds of the engine's files.
THEOREM EngineKeepsFiles == EngineSpec => Spec
  <1>1. EngineInit => Init
    BY DEF EngineInit
  <1>2. [EngineNext]_engine_vars => [Next]_vars
    BY EngineStep
  <1> QED
    BY <1>1, <1>2, PTL DEF EngineSpec, Spec

\* So the invariants of the files hold of the engine.
LEMMA FilesInvariant ==
    ASSUME QuietKills
    PROVE  EngineSpec => []FilesInv
  <1>1. Init => LogInv
    BY LogInit
  <1>2. IInv /\ DocInv /\ LogInv /\ [Next]_vars => LogInv'
    BY LogInvStep
  <1>3. Spec => []LogInv
    BY <1>1, <1>2, DocInductive, PTL DEF Spec
  <1> QED
    BY <1>3, EngineKeepsFiles, DocInductive, PTL DEF FilesInv

-----------------------------------------------------------------------------
(* Ids and texts on disk.                                                  *)

\* What the files are between two calls.
LEMMA ReadyFacts ==
    ASSUME FilesInv, is_open, step.at = "idle"
    PROVE  /\ header = entry_file.header /\ header \in Header
           /\ entry_file.recs \in Seq(Record) /\ AllText \in Seq(Cell)
           /\ Neat(entry_file.recs, AllText) /\ Len(entry_file.recs) <= header.total
  <1>1. header = entry_file.header /\ header \in Header
    BY DEF FilesInv, IInv, CountOK, FilesOK
  <1>2. entry_file.recs \in Seq(Record) /\ AllText \in Seq(Cell)
    BY DEF FilesInv, DocInv, TypesOK, AllText
  <1>3. Neat(entry_file.recs, AllText) /\ Len(entry_file.recs) <= entry_file.header.total
    BY DEF FilesInv, LogInv, NeatOK, TotalOK, DocInv, FilesThere
  <1> QED
    BY <1>1, <1>2, <1>3

\* The steps that leave the records of both entry files alone.
RecordsStay ==
    /\ entry_file'.recs = entry_file.recs /\ temp_entry' = temp_entry
    /\ step'.at \in Copied => step.at \in Copied
    /\ step'.at \in {"write_record", "write_header"} => step' = step
    /\ step'.at \in {"delete_header", "delete_text"} =>
        step.at \in {"delete_header", "delete_text"} /\ step'.rec = step.rec

\* The others.
LEMMA RecordsStep ==
    ASSUME FilesInv, [Next]_vars
    PROVE  \/ \E id \in Id, v \in Val : WriteText(id, v)
           \/ WriteRecord
           \/ \E id \in Id : DeleteRecord(id)
           \/ CompactCopy
           \/ RenameEntry
           \/ entry_file'.recs = <<>> /\ temp_entry' = temp_entry /\ step'.at = "create_text"
           \/ /\ entry_file'.recs = <<>> /\ temp_entry' = temp_entry
              /\ step'.at = "swap_text" /\ step.at = "swap_entry"
           \/ RecordsStay
  <1> USE DEF RecordsStay, Copied, disk, ram, FilesInv, IInv
  <1>1. CASE UNCHANGED vars
    BY <1>1 DEF vars
  <1>2. CASE WriteHeader
    BY <1>2, StepFacts DEF WriteHeader, Idle
  <1>3. CASE ReadText \/ CopyFails
    BY <1>3 DEF ReadText, CopyFails
  <1>4. CASE Save
    BY <1>4, StepFacts DEF Save
  <1>5. CASE DeleteHeader
    <2>1. /\ step' = [at |-> "delete_text", rec |-> step.rec] /\ step.at = "delete_header"
          /\ entry_file'.recs = entry_file.recs /\ temp_entry' = temp_entry
      BY <1>5, StepFacts DEF DeleteHeader
    <2> QED
      BY <2>1
  <1>6. CASE DeleteText
    BY <1>6 DEF DeleteText, Idle
  <1>7. CASE RemoveEntryFile
    BY <1>7, StepFacts DEF RemoveEntryFile, EmptyEntry
  <1>8. CASE RemoveTextFile
    BY <1>8, StepFacts DEF RemoveTextFile
  <1>9. CASE RenameText
    BY <1>9, StepFacts DEF RenameText
  <1>10. CASE Reopen \/ SwapFails
    BY <1>10 DEF Reopen, SwapFails, Idle
  <1>11. CASE Crash
    BY <1>11 DEF Crash, Idle
  <1>12. CASE OpenFiles \/ RefuseToStart
    BY <1>12 DEF OpenFiles, RefuseToStart
  <1>13. CASE CreateEntryFile
    BY <1>13 DEF CreateEntryFile, EmptyEntry
  <1>14. CASE CreateTextFile
    BY <1>14 DEF CreateTextFile, Idle
  <1>15. CASE WriteFails
    BY <1>15 DEF WriteFails, Idle
  <1>16. CASE HeaderFails
    <2>1. step'.at = "retry_header" /\ entry_file' = entry_file /\ temp_entry' = temp_entry
      BY <1>16, StepFacts DEF HeaderFails
    <2> QED
      BY <2>1
  <1>17. CASE RetryHeader
    BY <1>17, StepFacts DEF RetryHeader, Idle
  <1> QED
    BY <1>1, <1>2, <1>3, <1>4, <1>5, <1>6, <1>7, <1>8, <1>9, <1>10, <1>11, <1>12, <1>13, <1>14,
       <1>15, <1>16, <1>17 DEF Next

\* A file without records.
LEMMA NoRecords == Fits(<<>>, MaxCells) /\ (\A A : OneEach(<<>>, A)) /\ LiveRecords(<<>>) = {}
  <1>1. Len(<<>>) = 0 /\ \A i : i \notin 1 .. 0
    OBVIOUS
  <1>2. Live(<<>>) = {}
    BY <1>1 DEF Live
  <1> QED
    BY <1>1, <1>2 DEF Fits, OneEach, LiveRecords

LEMMA RangeStep ==
    ASSUME FilesInv, RangeOK, OneEachOK, [Next]_vars
    PROVE  RangeOK'
  <1>0. entry_file.recs \in Seq(Record) /\ MaxCells \in Nat
    BY FileAssumption DEF FilesInv, DocInv, TypesOK
  <1>1. ASSUME NEW id \in Id, NEW v \in Val, WriteText(id, v)
        PROVE  RangeOK'
    <2>1. /\ entry_file' = entry_file /\ step'.at = "write_record"
          /\ step'.rec.off = Len(AllText) /\ step'.rec.len = TextLen[v]
          /\ Len(AllText) + 1 + TextLen[v] <= MaxCells
      BY <1>1 DEF WriteText
    <2> QED
      BY <2>1 DEF RangeOK, Copied
  <1>2. CASE WriteRecord
    <2>1. /\ step.at = "write_record" /\ step' = [at |-> "write_header", rec |-> step.rec]
          /\ entry_file'.recs = Append(entry_file.recs, step.rec)
      BY <1>2, StepFacts DEF WriteRecord, FilesInv
    <2>2. step.rec \in Record /\ step.rec.off + 1 + step.rec.len <= MaxCells /\ Fits(entry_file.recs, MaxCells)
      BY <2>1 DEF RangeOK, FilesInv, DocInv, TypesOK, RecordSteps
    <2> DEFINE new == Append(entry_file.recs, step.rec)
    <2>3. /\ Len(new) = Len(entry_file.recs) + 1 /\ Len(entry_file.recs) \in Nat
          /\ new[Len(entry_file.recs) + 1] = step.rec
          /\ \A i \in 1 .. Len(entry_file.recs) : new[i] = entry_file.recs[i]
      BY <1>0, <2>2
    <2> HIDE DEF new
    <2>4. \A i \in 1 .. Len(new) : i \in 1 .. Len(entry_file.recs) \/ i = Len(entry_file.recs) + 1
      BY <2>3
    <2>5. Fits(new, MaxCells)
      BY <2>2, <2>3, <2>4 DEF Fits
    <2> QED
      BY <2>1, <2>2, <2>5 DEF RangeOK, Copied, new
  <1>3. ASSUME NEW id \in Id, DeleteRecord(id)
        PROVE  RangeOK'
    <2>1. PICK i \in Nat : /\ i < Len(entry_file.recs) /\ step'.at = "delete_header"
                          /\ entry_file'.recs = Dead(entry_file.recs, i)
      BY <1>3, DeleteIs DEF FilesInv, DocInv
    <2>2. /\ Len(Dead(entry_file.recs, i)) = Len(entry_file.recs)
          /\ \A j \in 1 .. Len(entry_file.recs) : Dead(entry_file.recs, i)[j].off = entry_file.recs[j].off
          /\ \A j \in 1 .. Len(entry_file.recs) : Dead(entry_file.recs, i)[j].len = entry_file.recs[j].len
      BY <1>0, <2>1, TombstoneIs
    <2>3. Fits(Dead(entry_file.recs, i), MaxCells)
      BY <2>2 DEF RangeOK, Fits
    <2> QED
      BY <2>1, <2>3 DEF RangeOK, Copied
  <1>4. CASE CompactCopy
    <2> DEFINE rs == ReadAll(header, entry_file.recs, AllText)
    <2>1. is_open /\ step.at = "idle" /\ entry_file' = entry_file /\ step'.at = "swap_entry"
          /\ temp_entry'.recs = Moved(rs)
      BY <1>4 DEF CompactCopy, Ready, Idle, Moved
    <2>2. rs = ReadAll(header, entry_file.recs, AllText)
      OBVIOUS
    <2> HIDE DEF rs
    <2>3. Fits(Moved(rs), MaxCells)
      BY <1>0, <2>1, <2>2, ReadyFacts, CopyLive DEF RangeOK, OneEachOK
    <2> QED
      BY <2>1, <2>3 DEF RangeOK
  <1>5. CASE RenameEntry
    BY <1>5, StepFacts DEF RenameEntry, FilesInv, RangeOK, Copied
  <1>6. CASE \/ entry_file'.recs = <<>> /\ temp_entry' = temp_entry /\ step'.at = "create_text"
             \/ /\ entry_file'.recs = <<>> /\ temp_entry' = temp_entry
                /\ step'.at = "swap_text" /\ step.at = "swap_entry"
    BY <1>6, NoRecords DEF RangeOK, Copied
  <1>7. CASE RecordsStay
    BY <1>7 DEF RecordsStay, RangeOK
  <1> QED
    BY <1>1, <1>2, <1>3, <1>4, <1>5, <1>6, <1>7, RecordsStep

LEMMA OneEachStep ==
    ASSUME FilesInv, RangeOK, OneEachOK, [Next]_vars, apart \subseteq apart',
           \A id \in Id, v \in Val : WriteText(id, v) => id \in apart \/ New(entry_file.recs, id)
    PROVE  OneEachOK'
  <1>8. \A recs : OneEach(recs, apart) => OneEach(recs, apart')
    BY DEF OneEach
  <1>0. entry_file.recs \in Seq(Record) /\ MaxCells \in Nat
    BY FileAssumption DEF FilesInv, DocInv, TypesOK
  <1>1. ASSUME NEW id \in Id, NEW v \in Val, WriteText(id, v)
        PROVE  OneEachOK'
    <2>1. /\ entry_file' = entry_file /\ step'.at = "write_record" /\ step'.rec.id = id
      BY <1>1 DEF WriteText
    <2> QED
      BY <1>1, <1>8, <2>1 DEF OneEachOK, Copied
  <1>2. CASE WriteRecord
    <2>1. /\ step.at = "write_record" /\ step'.at = "write_header"
          /\ entry_file'.recs = Append(entry_file.recs, step.rec)
      BY <1>2, StepFacts DEF WriteRecord, FilesInv
    <2>2. step.rec \in Record /\ step.rec.flag = 1
      BY <2>1 DEF FilesInv, DocInv, TypesOK, InsertOK, RecordSteps
    <2>3. OneEach(Append(entry_file.recs, step.rec), apart)
      BY <1>0, <2>1, <2>2, LiveAppend DEF OneEachOK
    <2> QED
      BY <1>8, <2>1, <2>3 DEF OneEachOK, Copied
  <1>3. ASSUME NEW id \in Id, DeleteRecord(id)
        PROVE  OneEachOK'
    <2>1. PICK i \in Nat : /\ i < Len(entry_file.recs) /\ step'.at = "delete_header"
                          /\ entry_file.recs[i + 1].flag = 1
                          /\ entry_file'.recs = Dead(entry_file.recs, i)
                          /\ step'.rec = entry_file.recs[i + 1]
      BY <1>3, DeleteIs DEF FilesInv, DocInv
    <2>2. /\ OneEach(Dead(entry_file.recs, i), apart)
          /\ \/ entry_file.recs[i + 1].id \in apart
             \/ New(Dead(entry_file.recs, i), entry_file.recs[i + 1].id)
      BY <1>0, <2>1, LiveDead DEF OneEachOK
    <2> QED
      BY <1>8, <2>1, <2>2 DEF OneEachOK, Copied
  <1>4. CASE CompactCopy
    <2> DEFINE rs == ReadAll(header, entry_file.recs, AllText)
    <2>1. is_open /\ step.at = "idle" /\ entry_file' = entry_file /\ step'.at = "swap_entry"
          /\ temp_entry'.recs = Moved(rs)
      BY <1>4 DEF CompactCopy, Ready, Idle, Moved
    <2>2. rs = ReadAll(header, entry_file.recs, AllText)
      OBVIOUS
    <2> HIDE DEF rs
    <2>3. OneEach(Moved(rs), apart)
      BY <1>0, <2>1, <2>2, ReadyFacts, CopyLive DEF RangeOK, OneEachOK
    <2> QED
      BY <1>8, <2>1, <2>3 DEF OneEachOK
  <1>5. CASE RenameEntry
    BY <1>5, <1>8, StepFacts DEF RenameEntry, FilesInv, OneEachOK, Copied
  <1>6. CASE \/ entry_file'.recs = <<>> /\ temp_entry' = temp_entry /\ step'.at = "create_text"
             \/ /\ entry_file'.recs = <<>> /\ temp_entry' = temp_entry
                /\ step'.at = "swap_text" /\ step.at = "swap_entry"
    BY <1>6, <1>8, NoRecords DEF OneEachOK, Copied
  <1>7. CASE RecordsStay
    BY <1>7, <1>8 DEF RecordsStay, OneEachOK
  <1> QED
    BY <1>1, <1>2, <1>3, <1>4, <1>5, <1>6, <1>7, RecordsStep

-----------------------------------------------------------------------------
(* What the commands do to their own state.                                *)

LEMMA CommandStep ==
    ASSUME IInv, TypesOK, CommandOK, [EngineNext]_engine_vars
    PROVE  CommandOK'
  <1> USE DEF Idle, SwapSteps, RecordSteps
  <1>0. [Next]_vars
    BY EngineStep
  <1>1. ASSUME NEW id \in Id, NEW v \in Val, InsertText(id, v)
        PROVE  CommandOK'
    BY <1>1 DEF InsertText, WriteText, Free, rows, CommandOK, Store!id_exists
  <1>2. CASE InsertRecord
    <2>1. step.at = "write_record" /\ step' = [at |-> "write_header", rec |-> step.rec]
      BY <1>0, <1>2, StepFacts DEF InsertRecord, WriteRecord
    <2>2. UNCHANGED <<serving, command, stale, apart, count, ids, status>>
      BY <1>2 DEF InsertRecord, WriteRecord, rows
    <2>3. step'.at = "write_header" /\ step'.rec = step.rec
      BY <2>1
    <2> QED
      BY <2>1, <2>2, <2>3 DEF CommandOK, Store!id_exists
  <1>3. CASE InsertDone
    BY <1>3 DEF InsertDone, WriteHeader, CommandOK
  <1>4. ASSUME NEW id \in Id, DeleteStart(id)
        PROVE  CommandOK'
    BY <1>4 DEF DeleteStart, DeleteRecord, Free, CommandOK
  <1>5. CASE DeleteMiddle
    <2>1. step.at = "delete_header" /\ step'.at = "delete_text"
      BY <1>0, <1>5, StepFacts DEF DeleteMiddle, DeleteHeader
    <2>2. UNCHANGED <<serving, command, stale, apart, count, status>>
      BY <1>5 DEF DeleteMiddle, DeleteHeader, rows
    <2> QED
      BY <2>1, <2>2 DEF CommandOK
  <1>6. CASE DeleteDone
    <2>1. /\ step.at = "delete_text" /\ step'.at = "idle" /\ status' = status
          /\ command' \in {"none", "compact"} /\ serving' = serving /\ stale' = stale
          /\ apart' = apart
      BY <1>6 DEF DeleteDone, DeleteText
    <2> QED
      BY <2>1 DEF CommandOK
  <1>7. CASE CompactStart
    <2>1. /\ command = "compact" /\ step'.at = "swap_entry"
          /\ UNCHANGED <<serving, command, stale, apart, count, status>>
      BY <1>7 DEF CompactStart, CompactCopy, rows
    <2> QED
      BY <2>1 DEF CommandOK
  <1>8. CASE CompactSwap
    <2>1. /\ step.at \in SwapSteps /\ step'.at \in SwapSteps
          /\ UNCHANGED <<serving, command, stale, apart, count, status>>
      BY <1>0, <1>8, StepFacts
         DEF CompactSwap, RemoveEntryFile, RemoveTextFile, RenameEntry, RenameText, rows
    <2> QED
      BY <2>1 DEF CommandOK
  <1>9. CASE CompactDone
    BY <1>9 DEF CompactDone, Reopen, CommandOK, disk
  <1>10. CASE CompactFails
    <2>1. /\ step'.at \in {"idle"} /\ command' = "none"
          /\ UNCHANGED <<serving, stale, apart, count, status>>
      BY <1>10 DEF CompactFails, CopyFails, SwapFails, Ready, ram, rows
    <2> QED
      BY <2>1 DEF CommandOK
  <1>11. CASE Query \/ SaveCommand
    BY <1>11 DEF Query, SaveCommand, Free, ReadText, Save, ram, rows, CommandOK
  <1>12. CASE Optimize
    BY <1>12 DEF Optimize, Free, files, ram, rows, CommandOK
  <1>13. CASE Load
    <2>1. /\ UNCHANGED <<serving, command, status, step>> /\ stale' = FALSE /\ command = "none"
          /\ apart' \subseteq apart
      BY <1>13 DEF Load, Free, ReadText, files, ram
    <2> QED
      BY <2>1 DEF CommandOK
  <1>14. CASE Start
    <2>1. ~serving
      BY <1>14 DEF Start, OpenFiles, CreateEntryFile, CreateTextFile, RefuseToStart, CommandOK
    <2>2. step.at \in {"idle", "create_text"} /\ step'.at \in {"idle", "create_text"}
      BY <1>14 DEF Start, OpenFiles, CreateEntryFile, CreateTextFile, RefuseToStart, ram, IInv, OpenOK
    <2>3. UNCHANGED <<serving, command, stale, apart, count>> /\ command = "none"
      BY <1>14, <2>1 DEF Start, rows, CommandOK
    <2> QED
      BY <2>1, <2>2, <2>3 DEF CommandOK
  <1>15. CASE Run
    <2>1. /\ UNCHANGED <<status, step, command, stale>> /\ serving' = TRUE
          /\ status = "up" /\ step.at = "idle" /\ ~serving /\ apart' \subseteq apart
      BY <1>15 DEF Run, Ready, files, ram
    <2> QED
      BY <2>1 DEF CommandOK
  <1>16. CASE Kill
    BY <1>16 DEF Kill, Crash, Store!Die, CommandOK
  <1>17. CASE UNCHANGED engine_vars
    BY <1>17 DEF engine_vars, files, ram, rows, CommandOK, Store!id_exists
  <1>18. CASE InsertFails
    <2>1. /\ step.at \in {"write_record", "write_header"} /\ step'.at \in {"idle", "retry_header"}
          /\ command' = "none" /\ UNCHANGED <<serving, stale, count, status>>
          /\ apart' \subseteq apart \union {step.rec.id}
      BY <1>0, <1>18, StepFacts DEF InsertFails, WriteFails, HeaderFails, rows, CommandOK
    <2>2. step.rec.id \in Id
      BY <2>1 DEF TypesOK, Record
    <2> QED
      BY <2>1, <2>2 DEF CommandOK
  <1>19. CASE HeaderRetried
    <2>1. /\ step.at = "retry_header" /\ step'.at = "idle"
          /\ UNCHANGED <<serving, command, stale, apart, count, status>>
      BY <1>19 DEF HeaderRetried, RetryHeader, rows
    <2> QED
      BY <2>1 DEF CommandOK
  <1>20. CASE DeleteFails
    <2>1. /\ step.at \in {"delete_header", "delete_text"} /\ step'.at = "idle"
          /\ command' = "none" /\ UNCHANGED <<serving, stale, count, status>>
          /\ apart' = apart \union {step.rec.id}
      BY <1>20 DEF DeleteFails, DeleteText, WriteFails, rows, CommandOK
    <2>2. step.rec.id \in Id
      BY <2>1 DEF TypesOK, Record
    <2> QED
      BY <2>1, <2>2 DEF CommandOK
  <1> QED
    BY <1>1, <1>2, <1>3, <1>4, <1>5, <1>6, <1>7, <1>8, <1>9, <1>10, <1>11, <1>12, <1>13, <1>14,
       <1>15, <1>16, <1>17, <1>18, <1>19, <1>20 DEF EngineNext

\* Every command needs a server that has loaded the files.
LEMMA BlankStep ==
    ASSUME IInv, CommandOK, BlankOK, [EngineNext]_engine_vars
    PROVE  BlankOK'
  <1>1. CASE UNCHANGED <<serving, rows, topology>>
    BY <1>1 DEF BlankOK, rows, topology
  <1>2. CASE serving'
    BY <1>2 DEF BlankOK
  <1>3. CASE Kill
    BY <1>3 DEF Kill, Store!Die, BlankOK
  <1>4. CASE InsertRecord \/ InsertDone \/ DeleteMiddle \/ DeleteDone
    <2>1. /\ step.at \in {"write_record", "write_header", "delete_header", "delete_text"}
          /\ serving' = serving
      BY <1>4 DEF InsertRecord, InsertDone, DeleteMiddle, DeleteDone, WriteRecord, WriteHeader,
                  DeleteHeader, DeleteText
    <2>2. serving
      BY <2>1 DEF CommandOK
    <2> QED
      BY <1>2, <2>1, <2>2
  <1>5. CASE Query \/ SaveCommand \/ Optimize \/ Load \/ Run
    BY <1>2, <1>5 DEF Query, SaveCommand, Optimize, Load, Run, Free
  <1>6. ASSUME NEW id \in Id, NEW v \in Val, InsertText(id, v)
        PROVE  BlankOK'
    BY <1>2, <1>6 DEF InsertText, Free
  <1>7. ASSUME NEW id \in Id, DeleteStart(id)
        PROVE  BlankOK'
    BY <1>2, <1>7 DEF DeleteStart, Free
  <1>8. CASE CompactStart \/ CompactSwap \/ CompactDone \/ CompactFails \/ Start
    BY <1>1, <1>8 DEF CompactStart, CompactSwap, CompactDone, CompactFails, Start
  <1>9. CASE UNCHANGED engine_vars
    BY <1>1, <1>9 DEF engine_vars
  <1>10. CASE InsertFails \/ HeaderRetried \/ DeleteFails
    BY <1>1, <1>10 DEF InsertFails, HeaderRetried, DeleteFails
  <1> QED
    BY <1>3, <1>4, <1>5, <1>6, <1>7, <1>8, <1>9, <1>10 DEF EngineNext

\* What VectorStore assumes holds of the engine's constants.
LEMMA StoreRow == StoreProofs!RowAssumption
  BY EngineAssumption DEF StoreProofs!RowAssumption

LEMMA StoreSpace == StoreProofs!SpaceAssumption
  BY EngineAssumption DEF EngineAssumption, StoreProofs!SpaceAssumption

LEMMA StoreBounds == StoreProofs!BoundsAssumption
  BY EngineAssumption DEF EngineAssumption, StoreProofs!BoundsAssumption

\* Only an INSERT starts to write a text.
LEMMA OnlyInsertWrites ==
    ASSUME IInv, CommandOK, EngineNext, step.at = "idle", step'.at = "write_record"
    PROVE  \E id \in Id, v \in Val : InsertText(id, v)
  <1> USE DEF Idle, SwapSteps, RecordSteps
  <1>1. ASSUME NEW id \in Id, DeleteStart(id)
        PROVE  FALSE
    BY <1>1 DEF DeleteStart, DeleteRecord
  <1>2. ~(InsertRecord \/ InsertDone \/ DeleteMiddle \/ DeleteDone)
    BY DEF InsertRecord, InsertDone, DeleteMiddle, DeleteDone, WriteRecord, WriteHeader,
           DeleteHeader, DeleteText
  <1>3. ~(CompactStart \/ CompactSwap \/ CompactDone \/ CompactFails)
    BY DEF CompactStart, CompactSwap, CompactDone, CompactFails, CompactCopy, RemoveEntryFile,
           RemoveTextFile, RenameEntry, RenameText, Reopen, CopyFails, SwapFails, ram
  <1>4. ~(Query \/ SaveCommand \/ Optimize \/ Load)
    BY DEF Query, SaveCommand, Optimize, Load, ReadText, Save, files, ram
  <1>5. ~(Start \/ Run \/ Kill)
    BY DEF Start, OpenFiles, CreateEntryFile, CreateTextFile, RefuseToStart, Run, Kill, Crash,
           files, ram
  <1>6. ~(InsertFails \/ HeaderRetried \/ DeleteFails)
    BY DEF InsertFails, HeaderRetried, DeleteFails, WriteFails, HeaderFails, RetryHeader, DeleteText
  <1> QED
    BY <1>1, <1>2, <1>3, <1>4, <1>5, <1>6 DEF EngineNext

\* RAM mirrors the disk, so an id that RAM does not know is new to the disk.
LEMMA Fresh ==
    ASSUME MirrorOK, NEW id \in Id, NEW v \in Val, InsertText(id, v)
    PROVE  id \in apart \/ New(entry_file.recs, id)
  <1>1. serving /\ is_open /\ step.at = "idle" /\ ~Store!id_exists(id)
    BY DEF InsertText, Free, WriteText, Ready, Idle
  <1>2. InMemory(LiveRecords(entry_file.recs), ~stale)
    BY <1>1 DEF MirrorOK
  <1>3. ASSUME NEW i \in Live(entry_file.recs), id \notin apart
        PROVE  entry_file.recs[i].id # id
    <2>1. entry_file.recs[i] \in LiveRecords(entry_file.recs)
      BY DEF LiveRecords
    <2>2. CASE entry_file.recs[i].id \in apart
      BY <1>3, <2>2
    <2>3. CASE entry_file.recs[i].id \notin apart
      <3>1. PICK j \in 0 .. count - 1 : ids[j] = entry_file.recs[i].id
        BY <1>2, <2>1, <2>3 DEF InMemory, Mirrors, Holds
      <3> QED
        BY <1>1, <3>1 DEF Store!id_exists
    <2> QED
      BY <2>2, <2>3
  <1> QED
    BY <1>3 DEF New

\* LOAD and the boot leave apart what they read twice.
LEMMA Resolved ==
    ASSUME FilesInv, CommandOK, OneEachOK, is_open, step.at = "idle",
           apart' = apart \intersect Doubled
    PROVE  /\ OneEach(entry_file.recs, apart')
           /\ \A k, l \in 1 .. Len(Loaded) : Loaded[k].id = Loaded[l].id =>
                k = l \/ Loaded[k].id \in apart'
  <1> DEFINE rs == Loaded
             recs == entry_file.recs
  <1>1. rs = ReadAll(header, entry_file.recs, AllText)
    BY DEF Loaded
  <1>2. Doubled = {id \in Id : \E k, l \in 1 .. Len(rs) : k # l /\ rs[k].id = id /\ rs[l].id = id}
    BY DEF Doubled
  <1> HIDE DEF rs
  <1>3. /\ rs \in Seq(Record)
        /\ \A k, l \in 1 .. Len(rs) : rs[k].id = rs[l].id => k = l \/ rs[k].id \in apart
        /\ \A i, j \in Live(entry_file.recs) : i # j =>
             \E k, l \in 1 .. Len(rs) :
                k # l /\ rs[k] = entry_file.recs[i] /\ rs[l] = entry_file.recs[j]
    <2>1. /\ header \in Header /\ entry_file.recs \in Seq(Record) /\ AllText \in Seq(Cell)
          /\ Neat(entry_file.recs, AllText) /\ Len(entry_file.recs) <= header.total
      BY ReadyFacts
    <2>2. OneEach(entry_file.recs, apart)
      BY DEF OneEachOK
    <2> HIDE DEF Doubled
    <2> QED
      BY ONLY <1>1, <2>1, <2>2, ReadLive
  <1>4. ASSUME NEW k \in 1 .. Len(rs)
        PROVE  rs[k].id \in Id
    <2>1. rs[k] \in Record
      BY <1>3
    <2> QED
      BY <2>1 DEF Record
  <1>5. ASSUME NEW k \in 1 .. Len(rs), NEW l \in 1 .. Len(rs), rs[k].id = rs[l].id, k # l
        PROVE  rs[k].id \in apart'
    BY <1>2, <1>3, <1>4, <1>5
  <1>6. ASSUME NEW i \in Live(recs), NEW j \in Live(recs), recs[i].id = recs[j].id, i # j
        PROVE  recs[i].id \in apart'
    <2>1. PICK k \in 1 .. Len(rs), l \in 1 .. Len(rs) :
            k # l /\ rs[k] = entry_file.recs[i] /\ rs[l] = entry_file.recs[j]
      BY <1>3, <1>6
    <2> QED
      BY <1>5, <1>6, <2>1
  <1>7. OneEach(entry_file.recs, apart')
    BY <1>6 DEF OneEach
  <1> QED
    BY <1>5, <1>7 DEF rs

\* Where serving and idle, the thread that holds store_mutex_ is between calls.
LEMMA FreeIsIdle ==
    ASSUME IInv, CommandOK, Free
    PROVE  step.at \in {"idle", "retry_header"} /\ (~is_open => step.at = "idle")
  BY DEF Free, CommandOK, IInv, StepOK, OpenOK, RecordSteps

\* No command, and no kill, brings an id twice to the disk, but for those that
\* an operation failed half way has set apart.
LEMMA NoIdTwice ==
    ASSUME FilesInv, CommandOK, RangeOK, OneEachOK, MirrorOK, [EngineNext]_engine_vars
    PROVE  OneEachOK'
  <1>1. ASSUME NEW id \in Id, NEW v \in Val, WriteText(id, v)
        PROVE  id \in apart \/ New(entry_file.recs, id)
    <2>1. step.at = "idle" /\ step'.at = "write_record" /\ step'.rec.id = id
      BY <1>1 DEF WriteText, Ready, Idle
    <2>2. EngineNext
      BY <2>1 DEF engine_vars, files, ram
    <2>3. PICK new \in Id, w \in Val : InsertText(new, w)
      BY <2>1, <2>2, OnlyInsertWrites DEF FilesInv
    <2>4. step'.rec.id = new
      BY <2>3 DEF InsertText, WriteText
    <2> QED
      BY <2>1, <2>3, <2>4, Fresh
  <1>2. CASE apart \subseteq apart'
    BY <1>1, <1>2, EngineStep, OneEachStep
  <1>3. CASE (Load \/ Run) /\ is_open
    <2>1. /\ step.at = "idle" /\ step' = step /\ entry_file' = entry_file
          /\ apart' = apart \intersect Doubled
      <3>1. CASE Load
        BY <1>3, <3>1 DEF Load, ReadText, Ready, Idle
      <3>2. CASE Run
        BY <3>2 DEF Run, Ready, Idle, files, disk, ram
      <3> QED
        BY <1>3, <3>1, <3>2
    <2>2. OneEach(entry_file.recs, apart')
      BY <1>3, <2>1, Resolved
    <2> QED
      BY <2>1, <2>2 DEF OneEachOK, Copied
  <1>4. CASE (~Load /\ ~Run) \/ ~is_open
    <2> SUFFICES apart \subseteq apart'
      BY <1>2
    <2>1. ASSUME NEW id \in Id, NEW v \in Val, InsertText(id, v)
          PROVE  apart \subseteq apart'
      BY <2>1 DEF InsertText
    <2>2. ASSUME NEW id \in Id, DeleteStart(id)
          PROVE  apart \subseteq apart'
      BY <2>2 DEF DeleteStart
    <2>3. CASE InsertRecord \/ InsertDone \/ InsertFails \/ HeaderRetried
      BY <2>3 DEF InsertRecord, InsertDone, InsertFails, HeaderRetried
    <2>4. CASE DeleteMiddle \/ DeleteDone \/ DeleteFails
      BY <2>4 DEF DeleteMiddle, DeleteDone, DeleteFails
    <2>5. CASE CompactStart \/ CompactSwap \/ CompactDone \/ CompactFails
      BY <2>5 DEF CompactStart, CompactSwap, CompactDone, CompactFails
    <2>6. CASE Query \/ SaveCommand \/ Optimize \/ Start \/ Kill
      BY <2>6 DEF Query, SaveCommand, Optimize, Start, Kill
    <2>7. CASE Load
      BY <1>4, <2>7 DEF Load, ReadText, Ready, Run
    <2>8. CASE Run
      BY <1>4, <2>8 DEF Run, Ready
    <2>9. CASE UNCHANGED engine_vars
      BY <2>9 DEF engine_vars
    <2> QED
      BY <2>1, <2>2, <2>3, <2>4, <2>5, <2>6, <2>7, <2>8, <2>9 DEF EngineNext
  <1> QED
    BY <1>3, <1>4

-----------------------------------------------------------------------------
(* RAM mirrors the disk: one lemma per step that moves a document.         *)

\* The record of an INSERT is on disk, its row not yet in RAM.
LEMMA RecordMirror ==
    ASSUME FilesInv, OneEachOK, CommandOK, MirrorOK, InsertRecord, [Next]_vars
    PROVE  MirrorOK'
  <1> DEFINE recs == entry_file.recs
  <1>1. /\ step.at = "write_record" /\ step'.at = "write_header"
        /\ entry_file'.recs = Append(recs, step.rec)
    BY StepFacts DEF InsertRecord, WriteRecord, FilesInv
  <1>2. /\ recs \in Seq(Record) /\ step.rec \in Record /\ step.rec.flag = 1 /\ is_open
        /\ OneEach(recs, apart) /\ (step.rec.id \in apart \/ New(recs, step.rec.id)) /\ serving
    BY <1>1 DEF FilesInv, IInv, OpenOK, DocInv, TypesOK, InsertOK, RecordSteps, OneEachOK, CommandOK
  <1>3. InMemory(LiveRecords(recs), ~stale)
    BY <1>1, <1>2 DEF MirrorOK
  <1> DEFINE new == Append(recs, step.rec)
  <1>4. Len(new) = Len(recs) + 1 /\ LiveRecords(recs) = {new[i] : i \in Live(new) \ {Len(recs) + 1}}
    BY <1>2, LiveAppend
  <1>5. UNCHANGED <<count, ids, embeddings, text_refs, stale, apart>>
    BY DEF InsertRecord, rows
  <1> HIDE DEF new, recs
  <1>6. InMemory({entry_file.recs[i] : i \in Live(entry_file.recs) \ {Len(entry_file.recs)}}, ~stale)'
    <2>1. {new[i] : i \in Live(new) \ {Len(new)}} = LiveRecords(recs)
      BY <1>4
    <2>2. entry_file'.recs = new
      BY <1>1 DEF new
    <2> QED
      BY <1>3, <1>5, <2>1, <2>2 DEF InMemory
  <1> QED
    BY <1>1, <1>6 DEF MirrorOK, Copied

\* make_entry brings it to RAM, which does not know its id.
LEMMA InsertMirror ==
    ASSUME FilesInv, OneEachOK, CommandOK, MirrorOK, count \in Nat, InsertDone, [Next]_vars
    PROVE  MirrorOK'
  <1> DEFINE recs == entry_file.recs
             n == Len(recs)
             R == {recs[i] : i \in Live(recs) \ {n}}
  <1>1. /\ step.at = "write_header" /\ step'.at = "idle" /\ entry_file'.recs = recs
        /\ stale' = stale /\ apart' = apart
    BY StepFacts DEF InsertDone, WriteHeader, FilesInv, Idle
  <1>2. /\ step.rec \in Record /\ step.rec.flag = 1 /\ n # 0 /\ recs[n] = step.rec
        /\ serving /\ recs \in Seq(Record) /\ ~Store!id_exists(step.rec.id)
    BY <1>1 DEF FilesInv, DocInv, TypesOK, InsertOK, RecordSteps, OneEachOK, CommandOK
  <1>3. InMemory(R, ~stale)
    BY <1>1, <1>2 DEF MirrorOK
  <1>4. n \in Live(recs)
    <2>1. n \in 1 .. n
      BY <1>2
    <2> QED
      BY <1>2, <2>1 DEF Live
  <1>6. R \union {step.rec} = LiveRecords(recs)
    BY <1>2, <1>4 DEF LiveRecords
  <1>7. Store!make_entry(step.rec.id, EmbeddingOf[step.rec.val], RefOf(step.rec))
    BY DEF InsertDone
  <1> DEFINE x == ~stale
  <1> HIDE DEF R, n, recs, x
  <1>8. Mirrors(count, ids, embeddings, text_refs, R, apart, x)
    BY <1>3 DEF InMemory, x
  <1>9. Mirrors(count', ids', embeddings', text_refs', R \union {step.rec}, apart, x)
    BY <1>2, <1>7, <1>8, RowsPush
  <1>10. InMemory(LiveRecords(entry_file.recs), ~stale)'
    BY <1>1, <1>6, <1>9 DEF InMemory, x
  <1> QED
    BY <1>1, <1>10 DEF MirrorOK, Copied

\* When write_entry has failed RAM stays as it was, and so do the other ids.
LEMMA InsertFailsMirror ==
    ASSUME FilesInv, CommandOK, MirrorOK, InsertFails, [Next]_vars
    PROVE  MirrorOK'
  <1> DEFINE recs == entry_file.recs
             n == Len(recs)
             R == {recs[i] : i \in Live(recs) \ {n}}
             T == LiveRecords(recs)
             x == ~stale
  <1>1. /\ step.at \in {"write_record", "write_header"} /\ entry_file' = entry_file
        /\ UNCHANGED <<serving, count, ids, embeddings, text_refs, stale>>
    BY DEF InsertFails, WriteFails, HeaderFails, CommandOK, rows, disk
  <1>2. serving /\ is_open
    BY <1>1 DEF FilesInv, IInv, OpenOK, RecordSteps, CommandOK
  <1>3. CASE WriteFails
    <2>1. step.at = "write_record" /\ step'.at = "idle" /\ apart' = apart
      BY <1>1, <1>3 DEF InsertFails, WriteFails, HeaderFails, Idle
    <2>2. InMemory(LiveRecords(entry_file.recs), ~stale)'
      BY <1>1, <1>2, <2>1 DEF MirrorOK, InMemory
    <2> QED
      BY <2>1, <2>2 DEF MirrorOK, Copied
  <1>4. CASE HeaderFails
    <2>1. step.at = "write_header" /\ step'.at = "retry_header" /\ apart' = apart \union {step.rec.id}
      BY <1>4, StepFacts DEF InsertFails, WriteFails, HeaderFails, FilesInv
    <2>2. Mirrors(count, ids, embeddings, text_refs, R, apart, x)
      BY <1>2, <2>1 DEF MirrorOK, InMemory
    <2>3. n # 0 /\ recs[n] = step.rec
      BY <2>1 DEF FilesInv, DocInv, InsertOK
    <2>4. \A r : r.id \in apart' \/ (r \in R <=> r \in T)
      BY <2>1, <2>3 DEF LiveRecords
    <2> HIDE DEF R, T, x
    <2>5. Mirrors(count, ids, embeddings, text_refs, T, apart', x)
      BY <2>1, <2>2, <2>4, MirrorsOthers
    <2>6. InMemory(LiveRecords(entry_file.recs), ~stale)'
      BY <1>1, <2>5 DEF InMemory, T, x
    <2> QED
      BY <2>1, <2>6 DEF MirrorOK, Copied
  <1> QED
    BY <1>3, <1>4 DEF InsertFails

\* A tombstone is on disk, its row still in RAM.
LEMMA TombstoneMirror ==
    ASSUME FilesInv, OneEachOK, MirrorOK, NEW id \in Id, DeleteStart(id)
    PROVE  MirrorOK'
  <1> DEFINE recs == entry_file.recs
  <1>1. /\ step.at = "idle" /\ is_open /\ serving
        /\ UNCHANGED <<count, ids, embeddings, text_refs, stale, apart>>
    BY DEF DeleteStart, DeleteRecord, Ready, Idle, Free, rows
  <1>2. PICK i \in Nat : /\ i < Len(recs) /\ step'.at = "delete_header"
                        /\ recs[i + 1].flag = 1 /\ step'.rec = recs[i + 1]
                        /\ entry_file'.recs = Dead(recs, i)
    BY DeleteIs DEF DeleteStart, FilesInv, DocInv
  <1>3. recs \in Seq(Record) /\ OneEach(recs, apart) /\ InMemory(LiveRecords(recs), ~stale)
    BY <1>1 DEF FilesInv, DocInv, TypesOK, OneEachOK, MirrorOK
  <1>4. LiveRecords(recs) = LiveRecords(Dead(recs, i)) \union {recs[i + 1]}
    BY <1>2, <1>3, LiveDead
  <1> HIDE DEF recs
  <1>5. InMemory(LiveRecords(entry_file.recs) \union {step.rec}, ~stale)'
    BY <1>1, <1>2, <1>3, <1>4 DEF InMemory
  <1> QED
    BY <1>2, <1>5 DEF MirrorOK, Copied

\* remove_entry takes it out: RAM knows the id of every DELETE that the disk
\* has accepted, but for those set apart.
LEMMA DeleteMirror ==
    ASSUME FilesInv, OneEachOK, CommandOK, MirrorOK, StoreProofs!TypeOK, DeleteDone
    PROVE  MirrorOK'
  <1> DEFINE id == step.rec.id
             R == LiveRecords(entry_file.recs)
             both == R \union {step.rec}
             target == Store!get_index_in_ram(id)
             x == ~stale
  <1>1. /\ step.at = "delete_text" /\ step'.at = "idle" /\ entry_file' = entry_file
        /\ stale' = stale /\ apart' = apart
    BY DEF DeleteDone, DeleteText, Idle
  <1>2. /\ step.rec \in Record /\ id \in Id /\ serving
        /\ id \in apart \/ New(entry_file.recs, id)
    BY <1>1 DEF FilesInv, DocInv, TypesOK, RecordSteps, OneEachOK, CommandOK, Record
  <1>3. Mirrors(count, ids, embeddings, text_refs, both, apart, x)
    BY <1>1, <1>2 DEF MirrorOK, InMemory
  <1>4. \A r \in R : r.id # id \/ r.id \in apart
    BY <1>2 DEF New, LiveRecords
  <1>5. CASE Store!id_exists(id)
    <2>1. target \in 0 .. count - 1 /\ ids[target] = id
      <3>1. StoreProofs!id_exists(id)
        BY <1>5 DEF Store!id_exists, StoreProofs!id_exists
      <3>2. target = StoreProofs!get_index_in_ram(id)
        BY DEF Store!get_index_in_ram, StoreProofs!get_index_in_ram
      <3> HIDE DEF target, id
      <3> QED
        BY <1>2, <3>1, <3>2, StoreProofs!IndexInRam, StoreRow, StoreSpace, StoreBounds
    <2>2. /\ count' = count - 1
          /\ ids' = Store!SwapPopped(ids, target)
          /\ embeddings' = Store!SwapPopped(embeddings, target)
          /\ text_refs' = Store!SwapPopped(text_refs, target)
      BY <1>5 DEF DeleteDone, Store!remove_entry
    <2>3. count \in Nat
      BY StoreBounds DEF StoreProofs!TypeOK, StoreProofs!BoundsAssumption
    <2> HIDE DEF R, target, x
    <2>4. Mirrors(count', ids', embeddings', text_refs', R, apart, x)
      BY <1>3, <1>4, <2>1, <2>2, <2>3, RowsPop
    <2>5. InMemory(LiveRecords(entry_file.recs), ~stale)'
      BY <1>1, <2>4 DEF InMemory, R, x
    <2> QED
      BY <1>1, <2>5 DEF MirrorOK, Copied
  <1>6. CASE ~Store!id_exists(id)
    <2>1. id \in apart
      BY <1>3, <1>6 DEF Mirrors, Holds, Store!id_exists
    <2>2. UNCHANGED <<count, ids, embeddings, text_refs>>
      BY <1>6 DEF DeleteDone, rows
    <2>3. \A r : r.id \in apart \/ (r \in both <=> r \in R)
      BY <2>1
    <2> HIDE DEF R, both, x
    <2>4. Mirrors(count, ids, embeddings, text_refs, R, apart, x)
      BY <1>3, <2>3, MirrorsOthers
    <2>5. InMemory(LiveRecords(entry_file.recs), ~stale)'
      BY <1>1, <2>2, <2>4 DEF InMemory, R, x
    <2> QED
      BY <1>1, <2>5 DEF MirrorOK, Copied
  <1> QED
    BY <1>5, <1>6

\* When delete_entry has failed RAM stays as it was, and so do the other ids.
LEMMA DeleteFailsMirror ==
    ASSUME FilesInv, CommandOK, MirrorOK, DeleteFails
    PROVE  MirrorOK'
  <1> DEFINE R == LiveRecords(entry_file.recs)
             both == R \union {step.rec}
             x == ~stale
  <1>1. /\ step.at = "delete_text" /\ step'.at = "idle" /\ entry_file' = entry_file
        /\ UNCHANGED <<count, ids, embeddings, text_refs, stale>>
        /\ apart' = apart \union {step.rec.id} /\ serving
    BY DEF DeleteFails, DeleteText, WriteFails, Idle, CommandOK, rows, disk
  <1>2. Mirrors(count, ids, embeddings, text_refs, both, apart, x)
    BY <1>1 DEF MirrorOK, InMemory
  <1>3. \A r : r.id \in apart' \/ (r \in both <=> r \in R)
    BY <1>1
  <1> HIDE DEF R, both, x
  <1>4. Mirrors(count, ids, embeddings, text_refs, R, apart', x)
    BY <1>1, <1>2, <1>3, MirrorsOthers
  <1>5. InMemory(LiveRecords(entry_file.recs), ~stale)'
    BY <1>1, <1>4 DEF InMemory, R, x
  <1> QED
    BY <1>1, <1>5 DEF MirrorOK, Copied

\* The new files of a compaction hold the same documents, at other offsets.
LEMMA CopyMirror ==
    ASSUME FilesInv, RangeOK, OneEachOK, CommandOK, MirrorOK, CompactStart
    PROVE  MirrorOK'
  <1> DEFINE recs == entry_file.recs
             rs == ReadAll(header, recs, AllText)
  <1>1. /\ is_open /\ step.at = "idle" /\ serving /\ step'.at = "swap_entry"
        /\ temp_entry'.recs = Moved(rs)
        /\ UNCHANGED <<count, ids, embeddings, text_refs, stale, apart>>
    BY DEF CompactStart, CompactCopy, Ready, Idle, Moved, CommandOK, rows
  <1>2. rs = ReadAll(header, recs, AllText)
    OBVIOUS
  <1> HIDE DEF rs
  <1>3. Alike(LiveRecords(recs), LiveRecords(Moved(rs)))
    <2>1. MaxCells \in Nat
      BY FileAssumption
    <2> QED
      BY <1>1, <1>2, <2>1, ReadyFacts, CopyLive DEF RangeOK, OneEachOK
  <1> DEFINE R == LiveRecords(recs)
             T == LiveRecords(Moved(rs))
             x == ~stale
  <1>4. Mirrors(count, ids, embeddings, text_refs, R, apart, x)
    BY <1>1 DEF MirrorOK, InMemory
  <1> HIDE DEF R, T, x
  <1>5. Mirrors(count, ids, embeddings, text_refs, R, apart, FALSE)
    BY <1>4, MirrorsLoosely
  <1>6. Mirrors(count, ids, embeddings, text_refs, T, apart, FALSE)
    BY <1>3, <1>5, MirrorsAlike DEF R, T
  <1>7. InMemory(LiveRecords(temp_entry.recs), FALSE)'
    BY <1>1, <1>6 DEF InMemory, T
  <1> QED
    BY <1>1, <1>7 DEF MirrorOK, Copied

\* LOAD and the boot fill RAM with what the files hold.
LEMMA LoadMirror ==
    ASSUME FilesInv, CommandOK, OneEachOK, is_open, step.at = "idle",
           apart' = apart \intersect Doubled,
           Store!FillRows(Len(Loaded), RowsOf(Loaded))
    PROVE  Mirrors(count', ids', embeddings', text_refs', LiveRecords(entry_file.recs), apart', TRUE)
  <1> DEFINE rs == Loaded
  <1>1. rs = ReadAll(header, entry_file.recs, AllText)
    BY DEF Loaded
  <1>6. \A k, l \in 1 .. Len(rs) : rs[k].id = rs[l].id => k = l \/ rs[k].id \in apart'
    BY Resolved
  <1> HIDE DEF rs
  <1>2. /\ rs \in Seq(Record)
        /\ LiveRecords(entry_file.recs) = {rs[k] : k \in 1 .. Len(rs)}
    BY <1>1, ReadyFacts, ReadLive DEF OneEachOK
  <1>3. Store!FillRows(Len(rs), RowsOf(rs))
    BY DEF rs
  <1> DEFINE R == LiveRecords(entry_file.recs)
  <1>4. R = {rs[k] : k \in 1 .. Len(rs)}
    BY <1>2
  <1> HIDE DEF R
  <1>5. Mirrors(count', ids', embeddings', text_refs', R, apart', TRUE)
    BY <1>2, <1>3, <1>4, <1>6, RowsMirror
  <1> QED
    BY <1>5 DEF R

LEMMA MirrorStep ==
    ASSUME FilesInv, CommandOK, RangeOK, OneEachOK, MirrorOK, StoreProofs!TypeOK, [EngineNext]_engine_vars
    PROVE  MirrorOK'
  <1> USE DEF Copied
  <1>0. [Next]_vars /\ IInv
    BY EngineStep DEF FilesInv
  <1>1. ASSUME NEW id \in Id, NEW v \in Val, InsertText(id, v)
        PROVE  MirrorOK'
    <2>1. /\ serving /\ step.at = "idle" /\ is_open /\ step'.at = "write_record"
          /\ UNCHANGED <<entry_file, count, ids, embeddings, text_refs, stale, apart>>
      BY <1>1 DEF InsertText, WriteText, Free, Ready, Idle, rows
    <2>2. InMemory(LiveRecords(entry_file.recs), ~stale)'
      BY <2>1 DEF MirrorOK, InMemory
    <2> QED
      BY <2>1, <2>2 DEF MirrorOK
  <1>2. CASE InsertRecord
    BY <1>0, <1>2, RecordMirror
  <1>3. CASE InsertDone
    <2>1. count \in Nat
      BY StoreBounds DEF StoreProofs!TypeOK, StoreProofs!BoundsAssumption
    <2> QED
      BY <1>0, <1>3, <2>1, InsertMirror
  <1>4. ASSUME NEW id \in Id, DeleteStart(id)
        PROVE  MirrorOK'
    BY <1>4, TombstoneMirror
  <1>5. CASE DeleteMiddle
    <2>1. /\ step.at = "delete_header" /\ step' = [at |-> "delete_text", rec |-> step.rec]
          /\ entry_file'.recs = entry_file.recs
          /\ UNCHANGED <<serving, count, ids, embeddings, text_refs, stale, apart>>
      BY <1>0, <1>5, StepFacts DEF DeleteMiddle, DeleteHeader, rows
    <2>2. step'.at = "delete_text" /\ step'.rec = step.rec
      BY <2>1
    <2>3. serving => InMemory(LiveRecords(entry_file.recs) \union {step.rec}, ~stale)'
      BY <2>1, <2>2 DEF MirrorOK, InMemory
    <2> QED
      BY <2>1, <2>2, <2>3 DEF MirrorOK
  <1>6. CASE DeleteDone
    BY <1>6, DeleteMirror
  <1>7. CASE CompactStart
    BY <1>7, CopyMirror
  <1>8. CASE CompactSwap
    <2>0. UNCHANGED <<serving, count, ids, embeddings, text_refs, stale, apart>>
      BY <1>8 DEF CompactSwap, rows
    <2>1. CASE RemoveEntryFile \/ RemoveTextFile
      <3>1. /\ step.at \in Copied /\ step'.at \in Copied \ {"swap_entry"} /\ temp_entry' = temp_entry
        BY <1>0, <2>1, StepFacts DEF RemoveEntryFile, RemoveTextFile
      <3>2. serving => InMemory(LiveRecords(temp_entry.recs), FALSE)'
        BY <2>0, <3>1 DEF MirrorOK, InMemory
      <3> QED
        BY <2>0, <3>1, <3>2 DEF MirrorOK
    <2>2. CASE RenameEntry
      <3>1. step.at = "rename_entry" /\ step'.at = "rename_text" /\ entry_file' = temp_entry
        BY <1>0, <2>2, StepFacts DEF RenameEntry
      <3>2. serving => InMemory(LiveRecords(entry_file.recs), FALSE)'
        BY <2>0, <3>1 DEF MirrorOK, InMemory
      <3> QED
        BY <2>0, <3>1, <3>2 DEF MirrorOK
    <2>3. CASE RenameText
      <3>1. step.at = "rename_text" /\ step'.at = "reopen" /\ entry_file' = entry_file
        BY <1>0, <2>3, StepFacts DEF RenameText
      <3>2. serving => InMemory(LiveRecords(entry_file.recs), FALSE)'
        BY <2>0, <3>1 DEF MirrorOK, InMemory
      <3> QED
        BY <2>0, <3>1, <3>2 DEF MirrorOK
    <2> QED
      BY <1>8, <2>1, <2>2, <2>3 DEF CompactSwap
  <1>9. CASE CompactDone
    <2>1. /\ step.at = "reopen" /\ step'.at = "idle" /\ entry_file' = entry_file /\ stale' = TRUE
          /\ UNCHANGED <<serving, count, ids, embeddings, text_refs, apart>>
      BY <1>9 DEF CompactDone, Reopen, Idle, disk, rows
    <2>2. serving => InMemory(LiveRecords(entry_file.recs), ~stale)'
      BY <2>1 DEF MirrorOK, InMemory
    <2> QED
      BY <2>1, <2>2 DEF MirrorOK
  <1>10. CASE CompactFails
    <2>0. UNCHANGED <<serving, count, ids, embeddings, text_refs, stale, apart>>
      BY <1>10 DEF CompactFails, rows
    <2>1. CASE CopyFails
      BY <2>0, <2>1 DEF CopyFails, disk, ram, MirrorOK, InMemory
    <2>2. CASE SwapFails
      <3>1. ~is_open' /\ step'.at = "idle"
        BY <1>0, <2>2 DEF SwapFails, IInv, OpenOK, Idle
      <3> QED
        BY <3>1 DEF MirrorOK
    <2> QED
      BY <1>10, <2>1, <2>2 DEF CompactFails
  <1>11. CASE Query \/ SaveCommand
    <2>1. /\ step' = step /\ is_open' = is_open /\ entry_file'.recs = entry_file.recs
          /\ temp_entry' = temp_entry
          /\ UNCHANGED <<serving, count, ids, embeddings, text_refs, stale, apart>>
      BY <1>0, <1>11, StepFacts DEF Query, SaveCommand, ReadText, Save, ram, rows
    <2> QED
      BY <2>1 DEF MirrorOK, InMemory
  <1>12. CASE Optimize
    BY <1>12 DEF Optimize, files, disk, ram, rows, MirrorOK, InMemory
  <1>13. CASE Load
    <2>1. CASE is_open
      <3>1. /\ step.at = "idle" /\ step' = step /\ entry_file' = entry_file /\ stale' = FALSE
            /\ apart' = apart \intersect Doubled /\ Store!FillRows(Len(Loaded), RowsOf(Loaded))
        BY <1>13, <2>1 DEF Load, ReadText, Ready, Idle
      <3>2. InMemory(LiveRecords(entry_file.recs), ~stale)'
        BY <2>1, <3>1, LoadMirror DEF InMemory
      <3> QED
        BY <3>1, <3>2 DEF MirrorOK
    <2>2. CASE ~is_open
      <3>1. step.at = "idle" /\ step' = step /\ is_open' = is_open
        BY <1>0, <1>13, <2>2, FreeIsIdle DEF Load, files, ram
      <3> QED
        BY <2>2, <3>1 DEF MirrorOK
    <2> QED
      BY <2>1, <2>2
  <1>14. CASE Start
    <2>1. ~serving
      BY <1>14 DEF Start, OpenFiles, CreateEntryFile, CreateTextFile, RefuseToStart, CommandOK
    <2> QED
      BY <1>14, <2>1 DEF Start, MirrorOK
  <1>15. CASE Run
    <2>1. /\ step.at = "idle" /\ step' = step /\ is_open /\ entry_file' = entry_file /\ stale' = stale
          /\ apart' = apart \intersect Doubled
      BY <1>15 DEF Run, Ready, Idle, files, disk, ram
    <2>2. Mirrors(count', ids', embeddings', text_refs', LiveRecords(entry_file.recs), apart', TRUE)
      BY <1>15, <2>1, LoadMirror DEF Run
    <2>3. Mirrors(count', ids', embeddings', text_refs', LiveRecords(entry_file.recs), apart', ~stale)
      <3>1. CASE stale
        <4>1. Mirrors(count', ids', embeddings', text_refs', LiveRecords(entry_file.recs), apart', FALSE)
          BY <2>2, MirrorsLoosely
        <4> QED
          BY <3>1, <4>1 DEF Mirrors, Holds
      <3>2. CASE ~stale
        BY <2>2, <3>2 DEF Mirrors, Holds
      <3> QED
        BY <3>1, <3>2
    <2> QED
      BY <2>1, <2>3 DEF MirrorOK, InMemory
  <1>16. CASE Kill
    BY <1>16 DEF Kill, Store!Die, MirrorOK
  <1>17. CASE UNCHANGED engine_vars
    BY <1>17 DEF engine_vars, files, disk, ram, rows, MirrorOK, InMemory
  <1>18. CASE InsertFails
    BY <1>0, <1>18, InsertFailsMirror
  <1>19. CASE HeaderRetried
    <2>1. /\ step.at = "retry_header" /\ step'.at = "idle" /\ is_open' = is_open
          /\ entry_file'.recs = entry_file.recs
          /\ UNCHANGED <<serving, count, ids, embeddings, text_refs, stale, apart>>
      BY <1>0, <1>19, StepFacts DEF HeaderRetried, RetryHeader, Idle, rows
    <2> QED
      BY <2>1 DEF MirrorOK, InMemory
  <1>20. CASE DeleteFails
    BY <1>20, DeleteFailsMirror
  <1> QED
    BY <1>1, <1>2, <1>3, <1>4, <1>5, <1>6, <1>7, <1>8, <1>9, <1>10, <1>11, <1>12, <1>13, <1>14,
       <1>15, <1>16, <1>17, <1>18, <1>19, <1>20 DEF EngineNext

-----------------------------------------------------------------------------
(* The engine keeps its vector store to VectorStore.                       *)

StoreRows == [id : Id, embedding : Embedding, text : TextRefs]

\* The row of a record whose text ends within the text file.
LEMMA RowIs ==
    ASSUME NEW rec \in Record, rec.off + 1 + rec.len <= MaxCells
    PROVE  [id |-> rec.id, embedding |-> EmbeddingOf[rec.val], text |-> RefOf(rec)] \in StoreRows
  <1>1. rec.id \in Id /\ rec.val \in Val /\ rec.off \in Nat /\ rec.len \in Nat /\ MaxCells \in Nat
    BY FileAssumption DEF Record
  <1>2. EmbeddingOf[rec.val] \in Embedding
    BY <1>1, EngineAssumption
  <1>3. rec.off \in 0 .. MaxCells /\ rec.len \in 0 .. MaxCells
    BY <1>1
  <1>4. RefOf(rec) \in TextRefs
    BY <1>3 DEF RefOf, TextRefs
  <1> QED
    BY <1>1, <1>2, <1>4 DEF StoreRows

\* What LOAD and the boot read are rows of the store.
LEMMA LoadedRows ==
    ASSUME FilesInv, RangeOK
    PROVE  Len(Loaded) \in Nat /\ RowsOf(Loaded) \in [0 .. Len(Loaded) - 1 -> StoreRows]
  <1>1. CASE ~is_open
    <2>1. Loaded = <<>> /\ Len(<<>>) = 0 /\ \A i : i \notin 0 .. 0 - 1
      BY <1>1 DEF Loaded
    <2> QED
      BY <2>1 DEF RowsOf
  <1>2. CASE is_open
    <2> DEFINE recs == entry_file.recs
               all == ReadAll(header, recs, AllText)
    <2>1. recs \in Seq(Record)
      BY DEF FilesInv, DocInv, TypesOK
    <2>2. /\ Readable(header, recs, AllText) \in SUBSET (0 .. Len(recs) - 1)
          /\ all \in Seq(Record)
          /\ Len(all) = Cardinality(Readable(header, recs, AllText))
          /\ Len(all) \in Nat
          /\ DOMAIN all = 1 .. Len(all)
          /\ \A k \in 1 .. Len(all) :
               /\ Nth(Readable(header, recs, AllText), k) \in Readable(header, recs, AllText)
               /\ all[k] = recs[Nth(Readable(header, recs, AllText), k) + 1]
               /\ all[k].flag = 1
               /\ text_readable(AllText, all[k].off, all[k].len)
      BY <2>1, ReadAllIs
    <2> HIDE DEF recs, all
    <2>3. ASSUME NEW k \in 1 .. Len(all)
          PROVE  all[k] \in Record /\ all[k].off + 1 + all[k].len <= MaxCells
      <3>1. PICK i \in 0 .. Len(recs) - 1 : all[k] = recs[i + 1]
        BY <2>2
      <3>2. i + 1 \in 1 .. Len(recs)
        BY <2>1
      <3> QED
        BY <2>2, <3>1, <3>2 DEF RangeOK, Fits, recs
    <2>4. ASSUME NEW i \in 0 .. Len(all) - 1
          PROVE  RowsOf(all)[i] \in StoreRows
      <3>1. i + 1 \in 1 .. Len(all)
        BY <2>2
      <3>2. [id |-> all[i + 1].id, embedding |-> EmbeddingOf[all[i + 1].val], text |-> RefOf(all[i + 1])]
              \in StoreRows
        BY <2>3, <3>1, RowIs
      <3> QED
        BY <3>2 DEF RowsOf
    <2>5. RowsOf(all) \in [0 .. Len(all) - 1 -> StoreRows]
      BY <2>4 DEF RowsOf
    <2>6. Loaded = all
      BY <1>2 DEF Loaded, all, recs
    <2> QED
      BY <2>2, <2>5, <2>6
  <1> QED
    BY <1>1, <1>2

LEMMA StoreStep ==
    ASSUME FilesInv, EngineInv, StoreProofs!TypeOK, [EngineNext]_engine_vars
    PROVE  [Store!Next]_Store!vars
  <1> USE DEF StoreRows
  <1>0. [Next]_vars /\ CommandOK /\ RangeOK
    BY EngineStep DEF EngineInv
  <1>1. CASE UNCHANGED <<serving, rows, topology, index_file>>
    BY <1>1 DEF rows, topology, Store!vars, Store!rows, Store!topology
  <1>2. CASE InsertDone
    <2> DEFINE rec == step.rec
               r == [id |-> rec.id, embedding |-> EmbeddingOf[rec.val], text |-> RefOf(rec)]
    <2>1. step.at = "write_header"
      BY <1>2 DEF InsertDone, WriteHeader
    <2>2. rec \in Record /\ rec.off + 1 + rec.len <= MaxCells /\ serving /\ count < MaxVectors
      BY <1>0, <2>1 DEF FilesInv, DocInv, TypesOK, RecordSteps, RangeOK, CommandOK
    <2>3. r \in StoreRows
      BY <2>2, RowIs
    <2>4. ~Store!id_exists(rec.id)
      BY <1>0, <2>1 DEF CommandOK
    <2>5. Store!make_entry(r.id, r.embedding, r.text)
      BY <1>2 DEF InsertDone
    <2>6. UNCHANGED <<serving, centroid_count, centroids, last_build_at, index_file>>
      BY <1>2 DEF InsertDone
    <2>7. r.id = rec.id
      OBVIOUS
    <2> HIDE DEF r, rec
    <2>8. Store!Insert
      BY <2>2, <2>3, <2>4, <2>5, <2>6, <2>7 DEF Store!Insert
    <2> QED
      BY <2>8 DEF Store!Next
  <1>3. CASE DeleteDone
    <2>1. step.at = "delete_text"
      BY <1>3 DEF DeleteDone, DeleteText
    <2>2. step.rec.id \in Id /\ serving
      BY <1>0, <2>1 DEF FilesInv, DocInv, TypesOK, RecordSteps, CommandOK, Record
    <2>3. CASE Store!id_exists(step.rec.id)
      <3>1. Store!Delete(step.rec.id)
        BY <1>3, <2>2, <2>3 DEF DeleteDone, Store!Delete
      <3> QED
        BY <2>2, <3>1 DEF Store!Next
    <2>4. CASE ~Store!id_exists(step.rec.id)
      BY <1>1, <1>3, <2>4 DEF DeleteDone, topology
    <2> QED
      BY <2>3, <2>4
  <1>4. CASE Optimize
    <2>1. Store!Optimize
      BY <1>4 DEF Optimize, Free, rows, Store!Optimize, Store!rows
    <2> QED
      BY <2>1 DEF Store!Next
  <1> DEFINE n == Len(Loaded)
             rs == RowsOf(Loaded)
  <1>5. n \in Nat /\ rs \in [0 .. n - 1 -> StoreRows] /\ (n <= MaxVectors => n \in 0 .. MaxVectors)
    BY <1>0, LoadedRows, EngineAssumption
  <1>6. CASE Load
    <2>1. /\ serving /\ UNCHANGED serving /\ n <= MaxVectors
          /\ Store!FillRows(n, rs) /\ Store!BuildAndPersist(n, Store!RowEmbeddings(n, rs))
      BY <1>6 DEF Load, Free
    <2> HIDE DEF n, rs
    <2>2. Store!Load
      BY <1>5, <2>1 DEF Store!Load
    <2> QED
      BY <2>2 DEF Store!Next
  <1>7. CASE Run
    <2>1. /\ ~serving /\ serving' = TRUE /\ n <= MaxVectors
          /\ Store!FillRows(n, rs)
          /\ IF index_file.size = 0 THEN Store!BuildAndPersist(n, Store!RowEmbeddings(n, rs))
                                    ELSE Store!RestoreIndex(n, Store!RowEmbeddings(n, rs))
      BY <1>7 DEF Run
    <2> HIDE DEF n, rs
    <2>2. Store!Boot
      BY <1>5, <2>1 DEF Store!Boot
    <2> QED
      BY <2>2 DEF Store!Next
  <1>8. CASE Kill
    <2>1. CASE serving
      BY <1>8, <2>1 DEF Kill, Store!Crash, Store!Next
    <2>2. CASE ~serving
      <3>1. /\ count = 0 /\ metadata = {} /\ last_build_at = 0
            /\ ids = Store!EmptyArray /\ embeddings = Store!EmptyArray /\ text_refs = Store!EmptyArray
            /\ centroid_count = MaxCentroids
            /\ centroids = Store!NoCentroids /\ lists = Store!NoLists /\ serving = FALSE
        BY <1>0, <2>2 DEF EngineInv, BlankOK, CommandOK
      <3> QED
        BY <1>8, <3>1 DEF Kill, Store!Die, Store!vars, Store!rows, Store!topology
    <2> QED
      BY <2>1, <2>2
  <1>9. ASSUME NEW id \in Id, NEW v \in Val, InsertText(id, v)
        PROVE  [Store!Next]_Store!vars
    BY <1>1, <1>9 DEF InsertText
  <1>10. ASSUME NEW id \in Id, DeleteStart(id)
         PROVE  [Store!Next]_Store!vars
    BY <1>1, <1>10 DEF DeleteStart
  <1>11. CASE InsertRecord \/ DeleteMiddle \/ Query \/ SaveCommand \/ Start
    BY <1>1, <1>11 DEF InsertRecord, DeleteMiddle, Query, SaveCommand, Start
  <1>12. CASE CompactStart \/ CompactSwap \/ CompactDone \/ CompactFails
    BY <1>1, <1>12 DEF CompactStart, CompactSwap, CompactDone, CompactFails
  <1>13. CASE UNCHANGED engine_vars
    BY <1>1, <1>13 DEF engine_vars
  <1>14. CASE InsertFails \/ HeaderRetried \/ DeleteFails
    BY <1>1, <1>14 DEF InsertFails, HeaderRetried, DeleteFails
  <1> QED
    BY <1>2, <1>3, <1>4, <1>6, <1>7, <1>8, <1>9, <1>10, <1>11, <1>12, <1>13, <1>14 DEF EngineNext

\* VectorStoreProofs speaks of the same store.
LEMMA SameRows ==
    ASSUME NEW n, NEW rs, NEW id
    PROVE  /\ Store!id_exists(id) <=> StoreProofs!id_exists(id)
           /\ Store!RowEmbeddings(n, rs) = StoreProofs!RowEmbeddings(n, rs)
           /\ Store!FillRows(n, rs) <=> StoreProofs!FillRows(n, rs)
           /\ Store!Die <=> StoreProofs!Die
  <1>1. Store!id_exists(id) <=> StoreProofs!id_exists(id)
    BY DEF Store!id_exists, StoreProofs!id_exists
  <1>2. Store!RowEmbeddings(n, rs) = StoreProofs!RowEmbeddings(n, rs)
    BY DEF Store!RowEmbeddings, StoreProofs!RowEmbeddings
  <1>3. Store!FillRows(n, rs) <=> StoreProofs!FillRows(n, rs)
    BY <1>2 DEF Store!FillRows, StoreProofs!FillRows
  <1>4. Store!Die <=> StoreProofs!Die
    BY DEF Store!Die, StoreProofs!Die, Store!EmptyArray, StoreProofs!EmptyArray,
           Store!NoCentroids, StoreProofs!NoCentroids, Store!NoLists, StoreProofs!NoLists,
           Store!Slot, StoreProofs!Slot
  <1> QED
    BY <1>1, <1>2, <1>3, <1>4

LEMMA SameIndex ==
    ASSUME NEW n, NEW embs
    PROVE  /\ Store!BuildAndPersist(n, embs) <=> StoreProofs!BuildAndPersist(n, embs)
           /\ Store!RestoreIndex(n, embs) <=> StoreProofs!RestoreIndex(n, embs)
  <1>1. Store!BuildAndPersist(n, embs) <=> StoreProofs!BuildAndPersist(n, embs)
    BY DEF Store!BuildAndPersist, StoreProofs!BuildAndPersist, Store!KMeans, StoreProofs!KMeans,
           Store!BuiltCount, StoreProofs!BuiltCount, Store!Smaller, StoreProofs!Smaller,
           Store!Larger, StoreProofs!Larger, Store!build_lists, StoreProofs!build_lists,
           Store!find_nearest_centroid, StoreProofs!find_nearest_centroid,
           Store!Before, StoreProofs!Before, Store!WriteIndex, StoreProofs!WriteIndex,
           Store!Slot, StoreProofs!Slot
  <1>2. Store!RestoreIndex(n, embs) <=> StoreProofs!RestoreIndex(n, embs)
    BY DEF Store!RestoreIndex, StoreProofs!RestoreIndex, Store!build_lists, StoreProofs!build_lists,
           Store!find_nearest_centroid, StoreProofs!find_nearest_centroid,
           Store!Before, StoreProofs!Before, Store!Slot, StoreProofs!Slot
  <1> QED
    BY <1>1, <1>2

LEMMA SameEntry ==
    ASSUME NEW id, NEW e, NEW t
    PROVE  /\ Store!make_entry(id, e, t) <=> StoreProofs!make_entry(id, e, t)
           /\ Store!remove_entry(id) <=> StoreProofs!remove_entry(id)
  <1>1. Store!make_entry(id, e, t) <=> StoreProofs!make_entry(id, e, t)
    BY DEF Store!make_entry, StoreProofs!make_entry, Store!Pushed, StoreProofs!Pushed,
           Store!add_, StoreProofs!add_, Store!find_nearest_centroid,
           StoreProofs!find_nearest_centroid, Store!Before, StoreProofs!Before
  <1>2. Store!remove_entry(id) <=> StoreProofs!remove_entry(id)
    BY DEF Store!remove_entry, StoreProofs!remove_entry, Store!get_index_in_ram,
           StoreProofs!get_index_in_ram, Store!SwapPopped, StoreProofs!SwapPopped,
           Store!ListsAfterRemove, StoreProofs!ListsAfterRemove, Store!delete_, StoreProofs!delete_,
           Store!add_, StoreProofs!add_, Store!find_nearest_centroid,
           StoreProofs!find_nearest_centroid, Store!Before, StoreProofs!Before
  <1> QED
    BY <1>1, <1>2

LEMMA SameStep == [Store!Next]_Store!vars => [StoreProofs!Next]_StoreProofs!vars
  <1>1. Store!vars = StoreProofs!vars /\ Store!rows = StoreProofs!rows
    BY DEF Store!vars, StoreProofs!vars, Store!rows, StoreProofs!rows, Store!topology,
           StoreProofs!topology
  <1>2. Store!Boot => StoreProofs!Boot
    BY SameRows, SameIndex DEF Store!Boot, StoreProofs!Boot
  <1>3. Store!Insert => StoreProofs!Insert
    BY SameRows, SameEntry DEF Store!Insert, StoreProofs!Insert
  <1>4. ASSUME NEW id \in Id, Store!Delete(id)
        PROVE  StoreProofs!Delete(id)
    BY <1>4, SameRows, SameEntry DEF Store!Delete, StoreProofs!Delete
  <1>5. Store!Optimize => StoreProofs!Optimize
    BY <1>1, SameIndex DEF Store!Optimize, StoreProofs!Optimize, Store!rows, StoreProofs!rows
  <1>6. Store!Load => StoreProofs!Load
    BY SameRows, SameIndex DEF Store!Load, StoreProofs!Load
  <1>7. Store!Crash => StoreProofs!Crash
    BY SameRows DEF Store!Crash, StoreProofs!Crash
  <1>8. Store!CrashInBuild => StoreProofs!CrashInBuild
    BY SameRows DEF Store!CrashInBuild, StoreProofs!CrashInBuild
  <1>9. Store!vars' = Store!vars => StoreProofs!vars' = StoreProofs!vars
    BY DEF Store!vars, StoreProofs!vars, Store!rows, StoreProofs!rows, Store!topology,
           StoreProofs!topology
  <1>10. Store!Next => StoreProofs!Next
    BY <1>2, <1>3, <1>4, <1>5, <1>6, <1>7, <1>8 DEF Store!Next, StoreProofs!Next
  <1> QED
    BY <1>9, <1>10

LEMMA SameInit == Store!Init => StoreProofs!Init
  BY DEF Store!Init, StoreProofs!Init, Store!EmptyArray, StoreProofs!EmptyArray,
         Store!NoCentroids, StoreProofs!NoCentroids, Store!NoLists, StoreProofs!NoLists,
         Store!Slot, StoreProofs!Slot, Store!NoIndexFile, StoreProofs!NoIndexFile

-----------------------------------------------------------------------------
(* The invariant holds of the engine.                                      *)

LEMMA EngineStart == EngineInit => EngineInv /\ StoreProofs!IInv
  <1> SUFFICES ASSUME EngineInit
               PROVE  EngineInv /\ StoreProofs!IInv
    OBVIOUS
  <1>1. /\ serving = FALSE /\ command = "none" /\ stale = FALSE /\ apart = {}
        /\ step.at = "idle" /\ step = Idle
        /\ entry_file.recs = <<>>
    BY DEF EngineInit, Init, Store!Init, Idle, EmptyEntry
  <1>2. CommandOK /\ RangeOK /\ OneEachOK /\ MirrorOK
    BY <1>1, NoRecords DEF CommandOK, RangeOK, OneEachOK, MirrorOK, SwapSteps, Copied
  <1>3. BlankOK
    BY DEF EngineInit, Store!Init, BlankOK
  <1>4. StoreProofs!IInv
    BY SameInit, StoreRow, StoreSpace, StoreBounds, StoreProofs!InitEstablishes DEF EngineInit
  <1> QED
    BY <1>2, <1>3, <1>4 DEF EngineInv

LEMMA EngineInvStep ==
    ASSUME FilesInv, EngineInv, StoreProofs!IInv, [EngineNext]_engine_vars
    PROVE  EngineInv' /\ StoreProofs!IInv' /\ [Store!Next]_Store!vars
  <1>1. /\ IInv /\ CommandOK /\ BlankOK /\ RangeOK /\ OneEachOK /\ MirrorOK /\ StoreProofs!TypeOK
        /\ TypesOK /\ [Next]_vars
    BY EngineStep DEF FilesInv, DocInv, EngineInv, StoreProofs!IInv
  <1>2. CommandOK' /\ BlankOK' /\ RangeOK' /\ OneEachOK' /\ MirrorOK'
    BY <1>1, CommandStep, BlankStep, RangeStep, NoIdTwice, MirrorStep
  <1>3. [Store!Next]_Store!vars
    BY <1>1, StoreStep
  <1>4. StoreProofs!IInv'
    BY <1>3, SameStep, StoreRow, StoreSpace, StoreBounds, StoreProofs!StepEstablishes
  <1> QED
    BY <1>2, <1>3, <1>4 DEF EngineInv

\* Whatever is inserted, deleted, loaded or compacted, and wherever the process
\* is killed, every state of the engine satisfies the invariant.
LEMMA EngineInvariant ==
    ASSUME QuietKills
    PROVE  EngineSpec => [](FilesInv /\ EngineInv /\ StoreProofs!IInv)
  <1>1. EngineInit => EngineInv /\ StoreProofs!IInv
    BY EngineStart
  <1>2. FilesInv /\ EngineInv /\ StoreProofs!IInv /\ [EngineNext]_engine_vars
          => EngineInv' /\ StoreProofs!IInv'
    BY EngineInvStep
  <1>3. EngineSpec => []FilesInv
    BY FilesInvariant
  <1> QED
    BY <1>1, <1>2, <1>3, PTL DEF EngineSpec

\* INSERT, DELETE, OPTIMIZE, LOAD, the boot and a kill drive the vector store
\* and the index exactly as VectorStore says they may: an INSERT never brings
\* an id that RAM has, and every row of a LOAD or a boot is one.  All that
\* VectorStoreProofs shows of the store (the lists are exact, a search covers
\* the store) holds in the engine, failing operations included.
THEOREM EngineKeepsStore ==
    ASSUME QuietKills
    PROVE  EngineSpec => Store!Spec
  <1>1. EngineInit => Store!Init
    BY DEF EngineInit
  <1>2. FilesInv /\ EngineInv /\ StoreProofs!IInv /\ [EngineNext]_engine_vars
          => [Store!Next]_Store!vars
    BY EngineInvStep
  <1> QED
    BY <1>1, <1>2, EngineInvariant, PTL DEF EngineSpec, Store!Spec

\* The types of the files, of RAM and of the command in progress: the arrays
\* of the store keep one length, the lists count occurrences of slots within
\* them, and what RAM remembers of a text are offsets within the text file.
THEOREM EngineTypeCorrect ==
    ASSUME QuietKills
    PROVE  EngineSpec => []EngineTypeOK
  <1>1. EngineInv /\ StoreProofs!IInv /\ TypeOK => EngineTypeOK
    <2> SUFFICES ASSUME EngineInv, StoreProofs!IInv, TypeOK
                 PROVE  EngineTypeOK
      OBVIOUS
    <2>1. StoreProofs!TypeOK
      BY DEF StoreProofs!IInv
    <2>2. Store!TypeOK
      BY <2>1 DEF StoreProofs!TypeOK, Store!TypeOK, StoreProofs!Slot, Store!Slot
    <2> QED
      BY <2>2 DEF EngineTypeOK, EngineInv, CommandOK
  <1> QED
    BY <1>1, EngineInvariant, EngineKeepsFiles, TypeCorrect, PTL

-----------------------------------------------------------------------------
(* What the invariant says between two commands.                           *)

\* The documents on disk are those of the records that a loop of read_entry
\* delivers, each with a text as long as its record says.
LEMMA DocumentsAre ==
    ASSUME FilesInv, OneEachOK, is_open, step.at = "idle"
    PROVE  /\ LiveRecords(entry_file.recs) = {Loaded[k] : k \in 1 .. Len(Loaded)}
           /\ \A k, l \in 1 .. Len(Loaded) : Loaded[k].id = Loaded[l].id =>
                k = l \/ Loaded[k].id \in apart
           /\ DOMAIN docs = 1 .. Len(Loaded)
           /\ \A k \in 1 .. Len(Loaded) :
                /\ docs[k].id = Loaded[k].id /\ docs[k].val = Loaded[k].val
                /\ docs[k].text = text_at(AllText, Loaded[k].off, Loaded[k].len)
                /\ Len(docs[k].text) = Loaded[k].len
                /\ text_readable(AllText, Loaded[k].off, Loaded[k].len)
  <1> DEFINE recs == entry_file.recs
             rs == ReadAll(header, recs, AllText)
             all == ReadAll(header, recs, AllText)
  <1>1. Loaded = rs /\ docs = Contents(header, recs, AllText)
    BY ReadyFacts DEF Loaded, docs, SwapSteps
  <1>2. recs \in Seq(Record) /\ AllText \in Seq(Cell)
    BY ReadyFacts
  <1>3. /\ Readable(header, recs, AllText) \in SUBSET (0 .. Len(recs) - 1)
        /\ all \in Seq(Record)
        /\ Len(all) = Cardinality(Readable(header, recs, AllText))
        /\ Len(all) \in Nat
        /\ DOMAIN all = 1 .. Len(all)
        /\ \A k \in 1 .. Len(all) :
             /\ Nth(Readable(header, recs, AllText), k) \in Readable(header, recs, AllText)
             /\ all[k] = recs[Nth(Readable(header, recs, AllText), k) + 1]
             /\ all[k].flag = 1
             /\ text_readable(AllText, all[k].off, all[k].len)
    <2> HIDE DEF recs
    <2> QED
      BY <1>2, ReadAllIs
  <1>4. rs = all
    OBVIOUS
  <1>5. Contents(header, recs, AllText) =
          [k \in DOMAIN rs |->
            [id |-> rs[k].id, val |-> rs[k].val, text |-> text_at(AllText, rs[k].off, rs[k].len)]]
    BY DEF Contents
  <1>6. rs = ReadAll(header, recs, AllText)
    OBVIOUS
  <1> HIDE DEF rs, all
  <1>7. /\ LiveRecords(recs) = {rs[k] : k \in 1 .. Len(rs)}
        /\ \A k, l \in 1 .. Len(rs) : rs[k].id = rs[l].id => k = l \/ rs[k].id \in apart
    BY <1>2, <1>6, ReadyFacts, ReadLive DEF OneEachOK
  <1>8. /\ DOMAIN docs = 1 .. Len(rs)
        /\ \A k \in 1 .. Len(rs) :
             /\ docs[k].id = rs[k].id /\ docs[k].val = rs[k].val
             /\ docs[k].text = text_at(AllText, rs[k].off, rs[k].len)
    BY <1>1, <1>3, <1>4, <1>5
  <1>9. ASSUME NEW k \in 1 .. Len(rs)
        PROVE  /\ text_readable(AllText, rs[k].off, rs[k].len)
               /\ Len(text_at(AllText, rs[k].off, rs[k].len)) = rs[k].len
    <2>1. text_readable(AllText, rs[k].off, rs[k].len) /\ rs[k] \in Record
      BY <1>3, <1>4
    <2>2. rs[k].off \in Nat /\ rs[k].len \in Nat /\ rs[k].off + 1 + rs[k].len <= Len(AllText)
      BY <2>1 DEF Record, text_readable
    <2> QED
      BY <1>2, <2>1, <2>2, TextAt
  <1> QED
    BY <1>1, <1>7, <1>8, <1>9

\* Two sets of at most one element each.
LEMMA SameCount ==
    ASSUME NEW A, NEW B, A = {} <=> B = {},
           \A i, j \in A : i = j, \A i, j \in B : i = j
    PROVE  Cardinality(A) = Cardinality(B) /\ Cardinality(A) <= 1
  <1>1. CASE A = {}
    BY <1>1, FS_EmptySet
  <1>2. CASE A # {}
    <2>1. PICK i \in A : A = {i}
      BY <1>2
    <2>2. PICK j \in B : B = {j}
      BY <1>2
    <2> QED
      BY <2>1, <2>2, FS_Singleton
  <1> QED
    BY <1>1, <1>2

LEMMA MirrorIsCounted ==
    ASSUME FilesInv, EngineInv
    PROVE  RamMirrorsDisk
  <1> SUFFICES ASSUME Free, Ready, NEW id \in Id \ apart
               PROVE  /\ \A e \in Embedding, len \in Lengths : InRam(id, e, len) = OnDisk(id, e, len)
                      /\ Cardinality({i \in 0 .. count - 1 : ids[i] = id}) <= 1
    BY DEF RamMirrorsDisk
  <1> DEFINE rs == Loaded
             R == LiveRecords(entry_file.recs)
  <1>1. step.at = "idle" /\ is_open /\ serving
    BY DEF Free, Ready, Idle
  <1>2. /\ R = {rs[k] : k \in 1 .. Len(rs)}
        /\ \A k, l \in 1 .. Len(rs) : rs[k].id = rs[l].id => k = l \/ rs[k].id \in apart
        /\ DOMAIN docs = 1 .. Len(rs)
        /\ \A k \in 1 .. Len(rs) : /\ docs[k].id = rs[k].id /\ docs[k].val = rs[k].val
                                   /\ Len(docs[k].text) = rs[k].len
    BY <1>1, DocumentsAre DEF EngineInv
  <1>3. /\ \A i \in 0 .. count - 1 : ids[i] \in apart \/
            \E r \in R : /\ ids[i] = r.id /\ text_refs[i].len = r.len
                        /\ embeddings[i] = EmbeddingOf[r.val]
        /\ \A r \in R : r.id \in apart \/
            \E i \in 0 .. count - 1 : /\ ids[i] = r.id /\ text_refs[i].len = r.len
                                      /\ embeddings[i] = EmbeddingOf[r.val]
        /\ \A i, j \in 0 .. count - 1 : ids[i] = ids[j] => i = j \/ ids[i] \in apart
    BY <1>1 DEF EngineInv, MirrorOK, InMemory, Mirrors, Holds
  <1> HIDE DEF rs, R
  <1>4. ASSUME NEW e \in Embedding, NEW len \in Lengths
        PROVE  InRam(id, e, len) = OnDisk(id, e, len)
    <2> DEFINE A == {i \in 0 .. count - 1 :
                       ids[i] = id /\ embeddings[i] = e /\ text_refs[i].len = len}
               B == {k \in DOMAIN docs :
                       docs[k].id = id /\ EmbeddingOf[docs[k].val] = e /\ Len(docs[k].text) = len}
    <2>1. \A i, j \in A : i = j
      BY <1>3
    <2>2. \A k, l \in B : k = l
      BY <1>2
    <2>3. ASSUME NEW i \in A
          PROVE  B # {}
      <3>1. PICK r \in R : ids[i] = r.id /\ text_refs[i].len = r.len /\ embeddings[i] = EmbeddingOf[r.val]
        BY <1>3
      <3>2. PICK k \in 1 .. Len(rs) : r = rs[k]
        BY <1>2
      <3>3. k \in B
        BY <1>2, <3>1, <3>2
      <3> QED
        BY <3>3
    <2>4. ASSUME NEW k \in B
          PROVE  A # {}
      <3>1. k \in 1 .. Len(rs) /\ rs[k] \in R /\ rs[k].id \notin apart
        BY <1>2
      <3>2. PICK i \in 0 .. count - 1 : /\ ids[i] = rs[k].id /\ text_refs[i].len = rs[k].len
                                        /\ embeddings[i] = EmbeddingOf[rs[k].val]
        BY <1>3, <3>1
      <3>3. i \in A
        BY <1>2, <3>1, <3>2
      <3> QED
        BY <3>3
    <2>5. A = {} <=> B = {}
      BY <2>3, <2>4
    <2> HIDE DEF A, B
    <2>6. Cardinality(A) = Cardinality(B)
      BY <2>1, <2>2, <2>5, SameCount
    <2> QED
      BY <2>6 DEF A, B, InRam, OnDisk
  <1>5. Cardinality({i \in 0 .. count - 1 : ids[i] = id}) <= 1
    <2> DEFINE A == {i \in 0 .. count - 1 : ids[i] = id}
    <2>1. \A i, j \in A : i = j
      BY <1>3
    <2> HIDE DEF A
    <2>2. Cardinality(A) <= 1
      BY <2>1, SameCount
    <2> QED
      BY <2>2 DEF A
  <1> QED
    BY <1>4, <1>5

LEMMA MirrorIsOwn ==
    ASSUME FilesInv, EngineInv
    PROVE  TextsAreOwnUntilCompaction
  <1> SUFFICES ASSUME Free, Ready, ~stale, NEW i \in 0 .. count - 1, ids[i] \notin apart
               PROVE  OwnText(i)
    BY DEF TextsAreOwnUntilCompaction
  <1>1. step.at = "idle" /\ is_open /\ serving
    BY DEF Free, Ready, Idle
  <1>2. PICK r \in LiveRecords(entry_file.recs) :
          ids[i] = r.id /\ text_refs[i].len = r.len /\ text_refs[i].off = r.off
    BY <1>1 DEF EngineInv, MirrorOK, InMemory, Mirrors, Holds
  <1>3. /\ LiveRecords(entry_file.recs) = {Loaded[k] : k \in 1 .. Len(Loaded)}
        /\ DOMAIN docs = 1 .. Len(Loaded)
        /\ \A k \in 1 .. Len(Loaded) :
             /\ docs[k].id = Loaded[k].id
             /\ docs[k].text = text_at(AllText, Loaded[k].off, Loaded[k].len)
             /\ text_readable(AllText, Loaded[k].off, Loaded[k].len)
    BY <1>1, DocumentsAre DEF EngineInv
  <1>4. PICK k \in 1 .. Len(Loaded) : r = Loaded[k]
    BY <1>2, <1>3
  <1>5. docs[k].id = ids[i] /\ docs[k].text = TextOfRow(i) /\ k \in DOMAIN docs
    BY <1>2, <1>3, <1>4 DEF TextOfRow
  <1> QED
    BY <1>5 DEF OwnText

\* Between two commands RAM holds exactly the vectors that the files hold, and
\* no id twice, although INSERT asks RAM for the id and DELETE the disk: after
\* any INSERTs, DELETEs, LOADs and compactions and any of the failures modelled,
\* but for the ids whose INSERT or DELETE has failed half way, and after any
\* kill that QuietKills allows: none between a record and its header or with a
\* text still in the stream, both of which can leave RAM and disk apart.
THEOREM RamMirrored ==
    ASSUME QuietKills
    PROVE  EngineSpec => []RamMirrorsDisk
  <1>1. FilesInv /\ EngineInv => RamMirrorsDisk
    BY MirrorIsCounted
  <1> QED
    BY <1>1, EngineInvariant, PTL

\* As long as no compaction has run since RAM was filled, QUERY reads for each
\* vector in RAM the text that was inserted with it, but for the ids whose
\* INSERT or DELETE has failed half way.
THEOREM TextsOwn ==
    ASSUME QuietKills
    PROVE  EngineSpec => []TextsAreOwnUntilCompaction
  <1>1. FilesInv /\ EngineInv => TextsAreOwnUntilCompaction
    BY MirrorIsOwn
  <1> QED
    BY <1>1, EngineInvariant, PTL
===============================================================================
