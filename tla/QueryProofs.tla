----------------------------- MODULE QueryProofs -----------------------------
(***************************************************************************)
(* The invariants of Query, for every value of its constants.              *)
(*                                                                         *)
(* Query adds the records of the entry file and the contents of metadata_  *)
(* to VectorStore.  The inductive invariant QInv therefore adds to IInv    *)
(* what ties these to RAM: a running server has one slot for every live    *)
(* record and no id twice (RamOK), and the inner map of every id is made   *)
(* from the pairs of its record (MapOwn).  Given QInv every step of Query  *)
(* is a step of VectorStore (LEMMA StepsAreStoreSteps), so IInv comes from *)
(* VectorStoreProofs.                                                      *)
(***************************************************************************)
EXTENDS Query, VectorStoreProofs, SequenceTheorems

-----------------------------------------------------------------------------
(* Ranking.                                                                *)

LEMMA SmallerNat ==
    ASSUME NEW a \in Nat, NEW b \in Nat
    PROVE  /\ Smaller(a, b) \in Nat /\ Smaller(a, b) <= a /\ Smaller(a, b) <= b
           /\ Smaller(a, b) = a \/ Smaller(a, b) = b
BY DEF Smaller

\* A non-empty ranking of slots that are there has a first element.
LEMMA TopKType ==
    ASSUME NEW q, NEW k \in Nat, NEW S, IsFiniteSet(S), NEW s \in TopK(q, S, k)
    PROVE  /\ Smaller(k, Cardinality(S)) \in Nat
           /\ s \in [1 .. Smaller(k, Cardinality(S)) -> S]
           /\ Hits(s) \subseteq S
           /\ S # {} /\ k > 0 => s # <<>> /\ 1 \in DOMAIN s /\ s[1] \in Hits(s)
<1>1. Cardinality(S) \in Nat
    BY FS_CardinalityType
<1>2. Smaller(k, Cardinality(S)) \in Nat
    BY <1>1, SmallerNat
<1>3. s \in [1 .. Smaller(k, Cardinality(S)) -> S]
    BY DEF TopK
<1>4. Hits(s) \subseteq S
    BY <1>3 DEF Hits
<1>5. ASSUME S # {}, k > 0
      PROVE  s # <<>> /\ 1 \in DOMAIN s /\ s[1] \in Hits(s)
    <2>1. Cardinality(S) > 0
        BY <1>1, <1>5, FS_EmptySet
    <2>2. Smaller(k, Cardinality(S)) > 0
        BY <1>5, <2>1 DEF Smaller
    <2>3. 1 \in DOMAIN s
        BY <1>2, <1>3, <2>2
    <2>4. <<>> \in Seq(S) /\ Len(<<>>) = 0
        BY EmptySeq
    <2>5. s \in Seq(S) /\ Len(s) # 0
        BY <1>2, <1>3, <2>2
    <2> QED BY <2>3, <2>4, <2>5 DEF Hits
<1> QED BY <1>2, <1>3, <1>4, <1>5

\* A query equal to a stored embedding ranks a slot of that embedding first.
LEMMA EqualRanksFirst ==
    ASSUME TypeOK, NEW q \in Embedding, NEW k \in Nat \ {0},
           NEW S \in SUBSET (0 .. count - 1), NEW h \in S, embeddings[h] = q,
           NEW s \in TopK(q, S, k)
    PROVE  1 \in DOMAIN s /\ s[1] \in Hits(s) /\ embeddings[s[1]] = q /\ s # <<>>
<1>0. count \in Nat
    BY BoundsAssumption DEF TypeOK
<1>1. IsFiniteSet(S)
    <2>1. 0 \in Int /\ count - 1 \in Int
        BY <1>0
    <2>2. IsFiniteSet(0 .. count - 1)
        BY <2>1, FS_Interval
    <2> QED BY <2>2, FS_Subset
<1>2. 1 \in DOMAIN s /\ s[1] \in Hits(s) /\ s # <<>> /\ Hits(s) \subseteq S
    <2>1. k \in Nat /\ k > 0
        OBVIOUS
    <2> QED BY <1>1, <2>1, TopKType
<1>3. DOMAIN s \in SUBSET (Nat \ {0})
    BY <1>1, TopKType
<1>4. \A i \in 0 .. count - 1 : embeddings[i] \in Embedding
    BY DEF TypeOK
<1>5. \A e, d \in Embedding : Dist[<<e, d>>] \in Nat
    BY SpaceAssumption
<1>6. ~MoreSimilar(q, h, s[1])
    <2>1. CASE h \in Hits(s)
        <3>1. PICK n \in DOMAIN s : s[n] = h
            BY <2>1 DEF Hits
        <3>2. CASE n = 1
            BY <1>4, <1>5, <3>1, <3>2 DEF MoreSimilar
        <3>3. CASE n # 1
            <4>1. 1 < n
                BY <1>3, <3>3
            <4> QED BY <1>2, <3>1, <4>1 DEF TopK
        <3> QED BY <3>2, <3>3
    <2>2. CASE h \notin Hits(s)
        BY <1>2, <2>2 DEF TopK
    <2> QED BY <2>1, <2>2
<1>7. s[1] \in 0 .. count - 1
    BY <1>2
<1>8. Dist[<<q, embeddings[h]>>] = 0
    BY DistanceAssumption
<1>9. Dist[<<q, embeddings[s[1]]>>] = 0
    BY <1>4, <1>5, <1>6, <1>7, <1>8 DEF MoreSimilar
<1> QED BY <1>2, <1>4, <1>7, <1>9, DistanceAssumption

\* Ranking the k best again leaves the k best.
LEMMA TopKOfTopK ==
    ASSUME NEW q, NEW k \in Nat, NEW S, IsFiniteSet(S),
           NEW c \in TopK(q, S, k), NEW s \in TopK(q, Hits(c), k)
    PROVE  s \in TopK(q, S, k)
<1> DEFINE n == Smaller(k, Cardinality(S))
<1>1. n \in Nat /\ c \in [1 .. n -> S] /\ Cardinality(S) \in Nat /\ n <= k
    BY TopKType, FS_CardinalityType, SmallerNat
<1>2. \A m, j \in 1 .. n : m < j => c[m] # c[j]
    BY <1>1 DEF TopK
<1> HIDE DEF n
<1>3. IsFiniteSet(Hits(c)) /\ Cardinality(Hits(c)) = n
    <2>1. IsFiniteSet(1 .. n) /\ Cardinality(1 .. n) = n
        BY <1>1, FS_Interval
    <2>2. c \in Injection(1 .. n, Hits(c))
        <3>1. c \in [1 .. n -> Hits(c)]
            BY <1>1 DEF Hits
        <3>2. \A m, j \in 1 .. n : c[m] = c[j] => m = j
            <4> SUFFICES ASSUME NEW m \in 1 .. n, NEW j \in 1 .. n, c[m] = c[j], m # j
                         PROVE  FALSE
                OBVIOUS
            <4>1. m < j \/ j < m
                BY <1>1
            <4> QED BY <1>2, <4>1
        <3> QED BY <3>1, <3>2 DEF Injection, IsInjective
    <2>3. c \in Surjection(1 .. n, Hits(c))
        BY <1>1 DEF Surjection, Hits
    <2>4. c \in Bijection(1 .. n, Hits(c))
        BY <2>2, <2>3 DEF Bijection
    <2> QED BY <2>1, <2>4, FS_Bijection DEF ExistsBijection
<1>4. Smaller(k, Cardinality(Hits(c))) = n
    BY <1>1, <1>3 DEF Smaller
<1>5. s \in [1 .. n -> Hits(c)] /\ Hits(s) \subseteq Hits(c) /\ Hits(c) \subseteq S
    BY <1>3, <1>4, TopKType
<1>6. /\ \A m, j \in 1 .. n : m < j => s[m] # s[j] /\ ~MoreSimilar(q, s[j], s[m])
      /\ \A i \in Hits(c) \ Hits(s), j \in 1 .. n : ~MoreSimilar(q, i, s[j])
    BY <1>5 DEF TopK
<1>7. Hits(s) = Hits(c)
    <2>1. s \in Injection(1 .. n, Hits(c))
        <3>1. \A m, j \in 1 .. n : s[m] = s[j] => m = j
            <4> SUFFICES ASSUME NEW m \in 1 .. n, NEW j \in 1 .. n, s[m] = s[j], m # j
                         PROVE  FALSE
                OBVIOUS
            <4>1. m < j \/ j < m
                BY <1>1
            <4> QED BY <1>6, <4>1
        <3> QED BY <1>5, <3>1 DEF Injection, IsInjective
    <2>2. IsFiniteSet(1 .. n) /\ Cardinality(1 .. n) = n
        BY <1>1, FS_Interval
    <2>3. s \in Surjection(1 .. n, Hits(c))
        BY <1>3, <2>1, <2>2, FS_Injection
    <2> QED BY <1>5, <2>3 DEF Surjection, Hits
<1>8. \A i \in S \ Hits(s), j \in 1 .. n : ~MoreSimilar(q, i, s[j])
    <2> SUFFICES ASSUME NEW i \in S \ Hits(s), NEW j \in 1 .. n
                 PROVE  ~MoreSimilar(q, i, s[j])
        OBVIOUS
    <2>1. PICK m \in 1 .. n : c[m] = s[j]
        BY <1>1, <1>5 DEF Hits
    <2>2. ~MoreSimilar(q, i, c[m])
        BY <1>1, <1>7 DEF TopK
    <2> QED BY <2>1, <2>2
<1>9. s \in [1 .. n -> S]
    BY <1>5
<1> QED BY <1>5, <1>6, <1>8, <1>9 DEF TopK, n

-----------------------------------------------------------------------------
(* What QUERY answers, in a state that satisfies VectorStore's invariant.  *)

LEMMA CandidatesInStore ==
    ASSUME IInv, NEW q \in Embedding, NEW k \in Nat, NEW c \in search_(q, k)
    PROVE  /\ count \in Nat /\ count <= MaxVectors
           /\ IsFiniteSet(0 .. count - 1)
           /\ Candidates(q) \subseteq 0 .. count - 1 /\ IsFiniteSet(Candidates(q))
           /\ Hits(c) \subseteq Candidates(q)
<1>1. count \in Nat /\ count <= MaxVectors
    BY BoundsAssumption DEF IInv, TypeOK
<1>2. IsFiniteSet(0 .. count - 1)
    BY <1>1, FS_Interval
<1>3. Candidates(q) \subseteq 0 .. count - 1
    BY SearchCoverage DEF SearchCoversStore
<1>4. IsFiniteSet(Candidates(q))
    BY <1>2, <1>3, FS_Subset
<1>5. Hits(c) \subseteq Candidates(q)
    BY <1>4, TopKType DEF search_
<1> QED BY <1>1, <1>2, <1>3, <1>4, <1>5

LEMMA FilterObeyed == IInv => SatisfiableFilterIsObeyed
<1> SUFFICES ASSUME IInv, NEW f \in Filters, get_matching_indices(f) # {},
                    NEW q \in Embedding, NEW k \in 1 .. MaxVectors,
                    NEW s \in Answers(q, k, f)
             PROVE  s # <<>> /\ Hits(s) \subseteq get_matching_indices(f)
    BY DEF SatisfiableFilterIsObeyed
<1> DEFINE matching == get_matching_indices(f)
<1>1. PICK c \in search_(q, k) :
        s \in return_k_most_similar(q, k, Selected(Hits(c), matching))
    BY DEF Answers
<1>2. k \in Nat /\ k > 0
    BY BoundsAssumption
<1>3. matching \subseteq 0 .. count - 1 /\ IsFiniteSet(matching)
    <2>1. matching \subseteq 0 .. count - 1
        BY DEF get_matching_indices
    <2> HIDE DEF matching
    <2> QED BY <1>2, <2>1, CandidatesInStore, FS_Subset
<1> HIDE DEF matching
<1>4. Selected(Hits(c), matching) # {} /\ Selected(Hits(c), matching) \subseteq matching
    BY DEF Selected, matching
<1>5. s \in TopK(q, Selected(Hits(c), matching), k)
    BY <1>1, <1>4 DEF return_k_most_similar
<1>6. IsFiniteSet(Selected(Hits(c), matching))
    BY <1>3, <1>4, FS_Subset
<1>7. s # <<>> /\ Hits(s) \subseteq Selected(Hits(c), matching)
    BY <1>2, <1>4, <1>5, <1>6, TopKType
<1> QED BY <1>4, <1>7 DEF matching

LEMMA AnswersExact == IInv => UnfilteredAnswersAreExact
<1> SUFFICES ASSUME IInv, NEW q \in Embedding, NEW k \in 1 .. MaxVectors,
                    NEW s \in Answers(q, k, <<>>)
             PROVE  /\ NProbe >= centroid_count => s \in TopK(q, 0 .. count - 1, k)
                    /\ (\E i \in 0 .. count - 1 : embeddings[i] = q) =>
                           s # <<>> /\ embeddings[s[1]] = q
    BY DEF UnfilteredAnswersAreExact
<1> DEFINE all == 0 .. count - 1
<1>1. get_matching_indices(<<>>) = all
    BY DEF get_matching_indices
<1>2. PICK c \in search_(q, k) :
        s \in return_k_most_similar(q, k, Selected(Hits(c), all))
    BY <1>1 DEF Answers
<1>3. k \in Nat \ {0} /\ k > 0
    BY BoundsAssumption
<1>4. /\ count \in Nat /\ IsFiniteSet(all) /\ IsFiniteSet(Candidates(q))
      /\ Candidates(q) \subseteq all /\ Hits(c) \subseteq Candidates(q)
    BY <1>3, CandidatesInStore
<1> HIDE DEF all
<1>5. \/ Hits(c) = {} /\ s \in TopK(q, all, k)
      \/ Hits(c) # {} /\ s \in TopK(q, Hits(c), k)
    <2>1. CASE Hits(c) = {}
        <3>1. Selected(Hits(c), all) = all
            BY <2>1 DEF Selected
        <3> QED BY <1>2, <2>1, <3>1 DEF return_k_most_similar, all
    <2>2. CASE Hits(c) # {}
        <3>1. Selected(Hits(c), all) = Hits(c)
            BY <1>4, <2>2 DEF Selected
        <3> QED BY <1>2, <2>2, <3>1 DEF return_k_most_similar
    <2> QED BY <2>1, <2>2
<1>6. ASSUME NProbe >= centroid_count
      PROVE  s \in TopK(q, all, k)
    <2>1. Candidates(q) = all
        BY <1>6, SearchCoverage DEF SearchCoversStore, all
    <2>2. c \in TopK(q, all, k)
        BY <2>1 DEF search_
    <2> QED BY <1>3, <1>4, <1>5, <2>2, TopKOfTopK
<1>7. ASSUME NEW i \in all, embeddings[i] = q
      PROVE  s # <<>> /\ embeddings[s[1]] = q
    <2>1. i \in Candidates(q)
        BY <1>7, VectorFindable DEF EveryVectorIsFindable, all
    <2>2. c[1] \in Hits(c) /\ embeddings[c[1]] = q
        BY <1>3, <1>4, <1>7, <2>1, EqualRanksFirst DEF search_, all, IInv
    <2>3. s \in TopK(q, Hits(c), k)
        BY <1>5, <2>2
    <2> QED BY <1>3, <1>4, <2>2, <2>3, EqualRanksFirst DEF all, IInv
<1> QED BY <1>6, <1>7 DEF all

-----------------------------------------------------------------------------
(* From pairs to the inner map.                                            *)

\* A non-empty set of naturals that has a bound has a greatest element.
LEMMA GreatestNatural ==
    ASSUME NEW T \in SUBSET Nat, T # {}, NEW b \in Nat, \A m \in T : m <= b
    PROVE  \E m \in T : \A n \in T : n <= m
<1> DEFINE U == {b - m : m \in T}
<1>1. U \in SUBSET Nat
    <2>1. \A m \in T : b - m \in Nat
        OBVIOUS
    <2> QED BY <2>1
<1>2. U # {}
    OBVIOUS
<1>3. PICK u \in U : \A v \in U : u <= v
    BY <1>1, <1>2, LeastNatural
<1>4. PICK m \in T : u = b - m
    BY <1>3
<1>5. ASSUME NEW n \in T PROVE n <= m
    <2>1. b - n \in U
        OBVIOUS
    <2>2. u <= b - n
        BY <1>3, <2>1
    <2>3. n \in Nat /\ m \in Nat
        OBVIOUS
    <2> QED BY <1>4, <2>2, <2>3
<1> QED BY <1>5

\* Metadata is a sequence of pairs of words.
LEMMA PairsType ==
    ASSUME NEW pairs \in Pairs
    PROVE  /\ Len(pairs) \in 0 .. MaxPairs /\ Len(pairs) \in Nat
           /\ DOMAIN pairs = 1 .. Len(pairs)
           /\ \A m \in DOMAIN pairs : pairs[m] \in Pair
           /\ pairs = [m \in 1 .. Len(pairs) |-> pairs[m]]
<1>1. PICK n \in 0 .. MaxPairs : pairs \in [1 .. n -> Pair]
    BY DEF Pairs
<1>2. n \in Nat
    BY MetadataAssumption
<1>3. Len(pairs) = n /\ DOMAIN pairs = 1 .. n
    BY <1>1, <1>2
<1> QED BY <1>1, <1>2, <1>3

\* The slots of a vector: some first ones are used.
Slots == UNION {[1 .. n -> Pair] : n \in Nat}

LEMMA PairsAreSlots == Pairs \subseteq Slots
<1>1. \A n \in 0 .. MaxPairs : n \in Nat
    BY MetadataAssumption
<1> QED BY <1>1 DEF Pairs, Slots

\* The inner map has the keys of the slots, and of a key the value of the
\* last slot with that key: what HasPair says.
LEMMA InnerMapMeans ==
    ASSUME NEW slots \in Slots
    PROVE  /\ DOMAIN InnerMap(slots) \subseteq Word
           /\ \A p \in Pair : HasPair(slots, p) <=>
                p.key \in DOMAIN InnerMap(slots) /\ InnerMap(slots)[p.key] = p.val
<1>1. PICK n \in Nat : slots \in [1 .. n -> Pair]
    BY DEF Slots
<1>2. DOMAIN InnerMap(slots) = {slots[m].key : m \in DOMAIN slots}
    BY DEF InnerMap
<1>3. DOMAIN InnerMap(slots) \subseteq Word
    BY <1>1, <1>2 DEF Pair
<1>4. ASSUME NEW p \in Pair
      PROVE  HasPair(slots, p) <=>
                p.key \in DOMAIN InnerMap(slots) /\ InnerMap(slots)[p.key] = p.val
    <2> DEFINE last(m) == slots[m].key = p.key
                          /\ \A j \in DOMAIN slots : j > m => slots[j].key # p.key
               c == CHOOSE m \in DOMAIN slots : last(m)
    <2>1. ASSUME NEW m \in DOMAIN slots, last(m)
          PROVE  c = m
        <3>1. c \in DOMAIN slots /\ last(c)
            BY <2>1
        <3> HIDE DEF c
        <3>2. ~(c > m) /\ ~(m > c)
            BY <2>1, <3>1
        <3> QED BY <1>1, <3>1, <3>2
    <2>2. ASSUME p.key \in DOMAIN InnerMap(slots)
          PROVE  InnerMap(slots)[p.key] = slots[c].val
        BY <1>2, <2>2 DEF InnerMap
    <2>3. ASSUME p.key \in DOMAIN InnerMap(slots)
          PROVE  c \in DOMAIN slots /\ last(c)
        <3> DEFINE T == {m \in DOMAIN slots : slots[m].key = p.key}
        <3>1. T \in SUBSET Nat /\ T # {} /\ \A m \in T : m <= n
            BY <1>1, <1>2, <2>3
        <3>2. PICK m \in T : \A j \in T : j <= m
            BY <3>1, GreatestNatural
        <3>3. m \in DOMAIN slots /\ last(m)
            BY <1>1, <3>2
        <3> QED BY <3>3
    <2> HIDE DEF c
    <2>4. ASSUME HasPair(slots, p)
          PROVE  p.key \in DOMAIN InnerMap(slots) /\ InnerMap(slots)[p.key] = p.val
        <3>1. PICK m \in DOMAIN slots : slots[m] = p /\ last(m)
            BY <2>4 DEF HasPair
        <3>2. p.key \in DOMAIN InnerMap(slots)
            BY <1>2, <3>1
        <3> QED BY <2>1, <2>2, <3>1, <3>2
    <2>5. ASSUME p.key \in DOMAIN InnerMap(slots), InnerMap(slots)[p.key] = p.val
          PROVE  HasPair(slots, p)
        <3>1. c \in DOMAIN slots /\ last(c) /\ slots[c].val = p.val
            BY <2>2, <2>3, <2>5
        <3>2. slots[c] \in Pair
            BY <1>1, <3>1
        <3>3. slots[c] = p
            BY <3>1, <3>2 DEF Pair
        <3> QED BY <3>1, <3>3 DEF HasPair
    <2> QED BY <2>4, <2>5
<1> QED BY <1>3, <1>4

-----------------------------------------------------------------------------
(* The inductive invariant.                                                *)

Record == [id : Id, embedding : Embedding, text : TextRef, pairs : Metadata]

\* Records carry the row of some INSERT.
StoredRecord ==
    {r \in Record : [id |-> r.id, embedding |-> r.embedding, text |-> r.text] \in Row}

RecordsOK ==
    /\ records \in Seq(StoredRecord)
    /\ Len(records) <= MaxVectors
    /\ \A m, n \in 1 .. Len(records) : records[m].id = records[n].id => m = n

MapOK ==
    /\ DOMAIN meta_map = metadata
    /\ \A id \in metadata : DOMAIN meta_map[id] \subseteq Word
    /\ mixed \in BOOLEAN

\* RAM has one slot for every live record, and no id twice.
RamOK ==
    up => /\ count = Len(records)
          /\ \A i, j \in 0 .. count - 1 : ids[i] = ids[j] => i = j
          /\ \A i \in 0 .. count - 1 : \E n \in 1 .. Len(records) : records[n].id = ids[i]
          /\ \A n \in 1 .. Len(records) :
                /\ \E i \in 0 .. count - 1 : ids[i] = records[n].id
                /\ records[n].id \in metadata

\* The inner maps are made from the pairs of the records.
MapOwn ==
    up /\ ~mixed =>
        \A n \in 1 .. Len(records) : meta_map[records[n].id] = InnerMap(records[n].pairs)

QInv ==
    /\ IInv
    /\ RecordsOK
    /\ MapOK
    /\ RamOK
    /\ MapOwn

\* A record is what an INSERT has written.
LEMMA RecordsType ==
    ASSUME RecordsOK
    PROVE  /\ Len(records) \in Nat /\ DOMAIN records = 1 .. Len(records)
           /\ Len(records) \in 0 .. MaxVectors
           /\ records \in [1 .. Len(records) -> StoredRecord]
           /\ \A n \in 1 .. Len(records) :
                /\ records[n] \in Record
                /\ records[n].id \in Id
                /\ records[n].pairs \in Metadata /\ records[n].pairs \in Pairs
                /\ [id |-> records[n].id, embedding |-> records[n].embedding,
                    text |-> records[n].text] \in Row
<1>1. /\ Len(records) \in Nat /\ DOMAIN records = 1 .. Len(records)
      /\ records \in [1 .. Len(records) -> StoredRecord]
    BY DEF RecordsOK
<1>2. \A n \in 1 .. Len(records) : records[n] \in StoredRecord
    BY <1>1
<1>3. Len(records) \in 0 .. MaxVectors
    BY <1>1, BoundsAssumption DEF RecordsOK
<1> QED BY <1>1, <1>2, <1>3, MetadataAssumption DEF StoredRecord, Record

-----------------------------------------------------------------------------
(* LOAD and the boot.                                                      *)

\* The reused Vector is a sequence of pairs whatever the earlier records.
LEMMA VectorSlotsType ==
    ASSUME RecordsOK, NEW n \in 1 .. Len(records)
    PROVE  VectorSlots(n) \in Slots
<1> DEFINE Users(m) == {j \in 1 .. n : m <= Len(records[j].pairs)}
           used == {m \in 1 .. MaxPairs : Users(m) # {}}
           last(m) == CHOOSE j \in Users(m) : \A i \in Users(m) : i <= j
<1>1. VectorSlots(n) = [m \in used |-> records[last(m)].pairs[m]]
    BY DEF VectorSlots
<1>2. n \in Nat /\ \A j \in 1 .. n : j \in 1 .. Len(records)
    BY RecordsType
<1>3. \A j \in 1 .. n : records[j].pairs \in Pairs
    BY <1>2, RecordsType
<1>4. \A j \in 1 .. n : Len(records[j].pairs) \in Nat
    BY <1>3, PairsType
<1>5. ASSUME NEW m \in used
      PROVE  records[last(m)].pairs[m] \in Pair
    <2>1. Users(m) \in SUBSET Nat /\ Users(m) # {} /\ \A j \in Users(m) : j <= n
        BY <1>2
    <2> HIDE DEF Users
    <2>2. PICK j \in Users(m) : \A i \in Users(m) : i <= j
        BY <1>2, <2>1, GreatestNatural
    <2>3. last(m) \in Users(m)
        BY <2>2
    <2> HIDE DEF last
    <2>4. last(m) \in 1 .. n /\ m <= Len(records[last(m)].pairs)
        BY <2>3 DEF Users
    <2>5. m \in 1 .. Len(records[last(m)].pairs)
        BY <1>4, <2>4
    <2> QED BY <1>3, <2>4, <2>5, PairsType
<1>6. \E k \in Nat : used = 1 .. k
    <2>1. CASE used = {}
        <3>1. used = 1 .. 0
            BY <2>1
        <3> HIDE DEF used
        <3> QED BY <3>1
    <2>2. CASE used # {}
        <3>1. used \in SUBSET Nat /\ (\A m \in used : m <= MaxPairs) /\ MaxPairs \in Nat
            BY MetadataAssumption
        <3>2. PICK k \in used : \A m \in used : m <= k
            BY <2>2, <3>1, GreatestNatural
        <3>3. PICK j \in 1 .. n : k <= Len(records[j].pairs)
            BY <3>2
        <3>4. ASSUME NEW m \in 1 .. k PROVE m \in used
            <4>1. m \in 1 .. MaxPairs
                BY <3>1, <3>2
            <4>2. j \in Users(m)
                BY <1>4, <3>1, <3>2, <3>3
            <4> QED BY <4>1, <4>2
        <3>5. ASSUME NEW m \in used PROVE m \in 1 .. k
            BY <3>1, <3>2
        <3>6. used = 1 .. k
            <4> HIDE DEF used
            <4> QED BY <3>4, <3>5
        <3> HIDE DEF used
        <3> QED BY <3>1, <3>2, <3>6
    <2> QED BY <2>1, <2>2
<1> HIDE DEF used, last
<1>7. PICK k \in Nat : used = 1 .. k
    BY <1>6
<1>8. VectorSlots(n) \in [1 .. k -> Pair]
    BY <1>1, <1>5, <1>7
<1> QED BY <1>7, <1>8 DEF Slots

\* Where all records have as many pairs, each one overwrites the last in full.
LEMMA VectorSlotsAlike ==
    ASSUME RecordsOK, NEW n \in 1 .. Len(records),
           \A i, j \in 1 .. Len(records) : Len(records[i].pairs) = Len(records[j].pairs)
    PROVE  VectorSlots(n) = records[n].pairs
<1> DEFINE Users(m) == {j \in 1 .. n : m <= Len(records[j].pairs)}
           used == {m \in 1 .. MaxPairs : Users(m) # {}}
           last(m) == CHOOSE j \in Users(m) : \A i \in Users(m) : i <= j
           k == Len(records[n].pairs)
<1>1. VectorSlots(n) = [m \in used |-> records[last(m)].pairs[m]]
    BY DEF VectorSlots
<1>2. n \in Nat /\ \A j \in 1 .. n : j \in 1 .. Len(records)
    BY RecordsType
<1>3. records[n].pairs \in Pairs
    BY RecordsType
<1>4. k \in 0 .. MaxPairs /\ k \in Nat /\ records[n].pairs = [m \in 1 .. k |-> records[n].pairs[m]]
    BY <1>3, PairsType
<1>5. \A j \in 1 .. n : Len(records[j].pairs) = k
    BY <1>2
<1> HIDE DEF k
<1>6. \A m \in 1 .. k : Users(m) = 1 .. n
    BY <1>4, <1>5
<1>7. \A m \in 1 .. MaxPairs : Users(m) # {} => m <= k
    BY <1>5
<1>8. used = 1 .. k
    <2>1. \A m \in 1 .. k : m \in 1 .. MaxPairs /\ Users(m) # {}
        BY <1>2, <1>4, <1>6, MetadataAssumption
    <2> HIDE DEF Users
    <2> QED BY <1>4, <1>7, <2>1, MetadataAssumption
<1>9. \A m \in 1 .. k : last(m) = n
    <2>1. (CHOOSE j \in 1 .. n : \A i \in 1 .. n : i <= j) = n
        BY <1>2
    <2> QED BY <1>6, <2>1
<1> HIDE DEF used, last
<1> QED BY <1>1, <1>4, <1>8, <1>9

\* The rows that LOAD and the boot read are rows of VectorStore.
LEMMA RecordRowsType ==
    ASSUME RecordsOK
    PROVE  RecordRows \in [0 .. Len(records) - 1 -> Row]
<1>1. \A i \in 0 .. Len(records) - 1 : i + 1 \in 1 .. Len(records)
    BY RecordsType
<1> QED BY <1>1, RecordsType DEF RecordRows

LEMMA FillKeeps ==
    ASSUME RecordsOK, FillFromRecords
    PROVE  RecordsOK' /\ MapOK' /\ RamOK' /\ MapOwn'
<1> DEFINE L == Len(records)
           place(id) == CHOOSE n \in DOMAIN records : records[n].id = id
<1>1. /\ L \in Nat /\ DOMAIN records = 1 .. L /\ UNCHANGED records
      /\ count' = L
      /\ ids' = [i \in 0 .. L - 1 |-> RecordRows[i].id]
      /\ metadata' = {RecordRows[i].id : i \in 0 .. L - 1}
      /\ meta_map' = [id \in {records[n].id : n \in DOMAIN records} |->
                         InnerMap(VectorSlots(place(id)))]
      /\ mixed' = \E m, n \in 1 .. L : Len(records[m].pairs) # Len(records[n].pairs)
    BY RecordsType DEF FillFromRecords, FillRows, FilledMap
<1>2. \A i \in 0 .. L - 1 : i + 1 \in 1 .. L /\ RecordRows[i].id = records[i + 1].id
    BY <1>1 DEF RecordRows
<1>3. \A n \in 1 .. L : n - 1 \in 0 .. L - 1 /\ n = (n - 1) + 1
    BY <1>1
<1>4. ASSUME NEW n \in 1 .. L
      PROVE  place(records[n].id) = n /\ place(records[n].id) \in 1 .. L
    BY <1>1 DEF RecordsOK
<1> HIDE DEF place, L
<1>5. metadata' = {records[n].id : n \in 1 .. L}
    <2>1. \A i \in 0 .. L - 1 : RecordRows[i].id \in {records[n].id : n \in 1 .. L}
        BY <1>2
    <2>2. ASSUME NEW n \in 1 .. L
          PROVE  records[n].id \in {RecordRows[i].id : i \in 0 .. L - 1}
        <3>1. n - 1 \in 0 .. L - 1 /\ RecordRows[n - 1].id = records[n].id
            BY <1>2, <1>3
        <3> QED BY <3>1
    <2> QED BY <1>1, <2>1, <2>2
<1>6. RecordsOK'
    BY <1>1 DEF RecordsOK
<1>7. MapOK'
    <2>1. DOMAIN meta_map' = metadata'
        BY <1>1, <1>5
    <2>2. ASSUME NEW id \in metadata'
          PROVE  DOMAIN meta_map'[id] \subseteq Word
        <3>1. PICK n \in 1 .. L : id = records[n].id
            BY <1>5
        <3>2. meta_map'[id] = InnerMap(VectorSlots(n))
            BY <1>1, <1>4, <1>5, <3>1
        <3>3. VectorSlots(n) \in Slots
            BY VectorSlotsType DEF L
        <3> QED BY <3>2, <3>3, InnerMapMeans
    <2> QED BY <1>1, <2>1, <2>2 DEF MapOK
<1>8. RamOK'
    <2>1. \A i \in 0 .. L - 1 : ids'[i] = records[i + 1].id
        BY <1>1, <1>2
    <2>2. \A i, j \in 0 .. L - 1 : ids'[i] = ids'[j] => i = j
        <3> SUFFICES ASSUME NEW i \in 0 .. L - 1, NEW j \in 0 .. L - 1, ids'[i] = ids'[j]
                     PROVE  i = j
            OBVIOUS
        <3>1. records[i + 1].id = records[j + 1].id
            BY <2>1
        <3>2. i + 1 = j + 1
            BY <1>2, <3>1 DEF RecordsOK, L
        <3> QED BY <3>2
    <2>3. \A n \in 1 .. L : \E i \in 0 .. L - 1 : ids'[i] = records[n].id
        BY <1>3, <2>1
    <2> QED BY <1>1, <1>2, <1>5, <2>1, <2>2, <2>3 DEF RamOK, L
<1>9. MapOwn'
    <2>1. ASSUME ~mixed', NEW n \in 1 .. L
          PROVE  meta_map'[records[n].id] = InnerMap(records[n].pairs)
        <3>1. VectorSlots(n) = records[n].pairs
            BY <1>1, <2>1, VectorSlotsAlike DEF L
        <3> QED BY <1>1, <1>4, <3>1
    <2> QED BY <1>1, <2>1 DEF MapOwn, L
<1> QED BY <1>6, <1>7, <1>8, <1>9

\* Every step here is a step of VectorStore: LOAD and the boot read rows that
\* the entry file holds.
LEMMA StepsAreStoreSteps ==
    ASSUME RecordsOK, [QueryNext]_query_vars
    PROVE  [Next]_vars
<1>1. ASSUME NEW r \in Row, NEW pairs \in Metadata, InsertWithMetadata(r, pairs)
      PROVE  Insert
    BY <1>1 DEF InsertWithMetadata, Insert
<1>2. ASSUME NEW id \in Id, DeleteRecord(id)
      PROVE  Delete(id)
    BY <1>2 DEF DeleteRecord
<1>3. OptimizeIndex => Optimize
    BY DEF OptimizeIndex
<1>4. Len(records) \in 0 .. MaxVectors /\ RecordRows \in [0 .. Len(records) - 1 -> Row]
    BY RecordsType, RecordRowsType
<1>5. LoadRecords => Load
    BY <1>4 DEF LoadRecords, FillFromRecords, Load
<1>6. BootFromRecords => Boot
    BY <1>4 DEF BootFromRecords, FillFromRecords, Boot
<1>7. QueryCrash => Crash
    BY DEF QueryCrash
<1>8. UNCHANGED query_vars => UNCHANGED vars
    BY DEF query_vars
<1> QED BY <1>1, <1>2, <1>3, <1>5, <1>6, <1>7, <1>8 DEF QueryNext, Next

-----------------------------------------------------------------------------
(* INSERT and DELETE.                                                      *)

LEMMA InsertKeeps ==
    ASSUME QInv, NEW r \in Row, NEW pairs \in Metadata, InsertWithMetadata(r, pairs)
    PROVE  RecordsOK' /\ MapOK' /\ RamOK' /\ MapOwn'
<1> DEFINE L == Len(records)
           new == [id |-> r.id, embedding |-> r.embedding, text |-> r.text, pairs |-> pairs]
<1>1. /\ up /\ up' = up /\ count < MaxVectors /\ ~id_exists(r.id)
      /\ ids' = Pushed(ids, r.id) /\ count' = count + 1 /\ metadata' = metadata \union {r.id}
      /\ records' = Append(records, new)
      /\ meta_map' = [x \in DOMAIN meta_map \union {r.id} |->
                         IF x = r.id THEN InnerMap(pairs) ELSE meta_map[x]]
      /\ mixed' = mixed
    BY DEF InsertWithMetadata, make_entry
<1>2. /\ L \in Nat /\ L = count /\ records \in Seq(StoredRecord)
      /\ \A n \in 1 .. L : records[n] \in Record
    BY <1>1, RecordsType DEF QInv, RamOK, RecordsOK
<1>3. new \in StoredRecord /\ new.id = r.id /\ new.pairs = pairs
    <2>1. r \in [id : Id, embedding : Embedding, text : TextRef]
        BY RowAssumption
    <2>2. [id |-> r.id, embedding |-> r.embedding, text |-> r.text] = r
        BY <2>1
    <2>3. new \in Record
        BY <2>1 DEF Record
    <2> QED BY <2>2, <2>3 DEF StoredRecord
<1> HIDE DEF new, L
<1>4. /\ records' \in Seq(StoredRecord) /\ Len(records') = L + 1
      /\ records'[L + 1] = new
      /\ \A n \in 1 .. L : records'[n] = records[n]
    BY <1>1, <1>2, <1>3, AppendProperties DEF L
<1>5. \A n \in 1 .. L : records[n].id # r.id
    <2>1. \A n \in 1 .. L : \E i \in 0 .. count - 1 : ids[i] = records[n].id
        BY <1>1 DEF QInv, RamOK, L
    <2> QED BY <1>1, <2>1 DEF id_exists
<1>6. \A n \in 1 .. L + 1 : n = L + 1 \/ n \in 1 .. L
    BY <1>2
<1>7. RecordsOK'
    <2>1. Len(records') <= MaxVectors
        BY <1>1, <1>2, <1>4, BoundsAssumption
    <2>2. \A m, n \in 1 .. L : records[m].id = records[n].id => m = n
        BY DEF QInv, RecordsOK, L
    <2>3. \A m, n \in 1 .. L + 1 : records'[m].id = records'[n].id => m = n
        BY <1>3, <1>4, <1>5, <1>6, <2>2
    <2> QED BY <1>4, <2>1, <2>3 DEF RecordsOK
<1>8. DOMAIN InnerMap(pairs) \subseteq Word
    <2>1. pairs \in Slots
        BY MetadataAssumption, PairsAreSlots
    <2> QED BY <2>1, InnerMapMeans
<1>9. MapOK'
    <2>1. /\ DOMAIN meta_map = metadata /\ mixed \in BOOLEAN
          /\ \A id \in metadata : DOMAIN meta_map[id] \subseteq Word
        BY DEF QInv, MapOK
    <2> QED BY <1>1, <1>8, <2>1 DEF MapOK
<1>10. count \in Nat /\ \A i \in 0 .. count : ids'[i] = IF i = count THEN r.id ELSE ids[i]
    BY <1>1, <1>2 DEF Pushed
<1>11. \A i \in 0 .. count : i = count \/ i \in 0 .. count - 1
    BY <1>10
<1>12. RamOK'
    <2>1. /\ \A i, j \in 0 .. count - 1 : ids[i] = ids[j] => i = j
          /\ \A i \in 0 .. count - 1 : \E n \in 1 .. L : records[n].id = ids[i]
          /\ \A n \in 1 .. L : /\ \E i \in 0 .. count - 1 : ids[i] = records[n].id
                               /\ records[n].id \in metadata
        BY <1>1 DEF QInv, RamOK, L
    <2>2. \A i \in 0 .. count - 1 : ids[i] # r.id
        BY <1>1 DEF id_exists
    <2>3. \A i, j \in 0 .. count : ids'[i] = ids'[j] => i = j
        BY <1>10, <1>11, <2>1, <2>2
    <2>4. ASSUME NEW i \in 0 .. count PROVE \E n \in 1 .. L + 1 : records'[n].id = ids'[i]
        <3>1. CASE i = count
            <4>1. L + 1 \in 1 .. L + 1 /\ records'[L + 1].id = ids'[i]
                BY <1>2, <1>3, <1>4, <1>10, <3>1
            <4> QED BY <4>1
        <3>2. CASE i \in 0 .. count - 1
            <4>1. PICK n \in 1 .. L : records[n].id = ids[i]
                BY <2>1, <3>2
            <4>2. n \in 1 .. L + 1 /\ records'[n].id = ids'[i]
                BY <1>2, <1>4, <1>10, <3>2, <4>1
            <4> QED BY <4>2
        <3> QED BY <1>11, <3>1, <3>2
    <2>5. ASSUME NEW n \in 1 .. L + 1
          PROVE  /\ \E i \in 0 .. count : ids'[i] = records'[n].id
                 /\ records'[n].id \in metadata'
        <3>1. CASE n = L + 1
            <4>1. count \in 0 .. count /\ ids'[count] = records'[n].id
                BY <1>3, <1>4, <1>10, <3>1
            <4> QED BY <1>1, <1>3, <1>4, <3>1, <4>1
        <3>2. CASE n \in 1 .. L
            <4>1. PICK i \in 0 .. count - 1 : ids[i] = records[n].id
                BY <2>1, <3>2
            <4>2. i \in 0 .. count /\ ids'[i] = records'[n].id
                BY <1>4, <1>10, <3>2, <4>1
            <4> QED BY <1>1, <1>4, <2>1, <3>2, <4>2
        <3> QED BY <1>6, <3>1, <3>2
    <2>6. 0 .. count' - 1 = 0 .. count
        BY <1>1, <1>10
    <2>7. count' = Len(records') /\ Len(records') = L + 1
        BY <1>1, <1>2, <1>4
    <2> QED BY <2>3, <2>4, <2>5, <2>6, <2>7 DEF RamOK
<1>13. MapOwn'
    <2> SUFFICES ASSUME ~mixed, NEW n \in 1 .. L + 1
                 PROVE  meta_map'[records'[n].id] = InnerMap(records'[n].pairs)
        BY <1>1, <1>4 DEF MapOwn
    <2>1. CASE n = L + 1
        BY <1>1, <1>3, <1>4, <2>1
    <2>2. CASE n \in 1 .. L
        <3>1. records[n].id \in DOMAIN meta_map /\ records[n].id # r.id
            BY <1>1, <1>5, <2>2 DEF QInv, RamOK, MapOK, L
        <3>2. meta_map[records[n].id] = InnerMap(records[n].pairs)
            BY <1>1, <2>2 DEF QInv, MapOwn, L
        <3> QED BY <1>1, <1>4, <2>2, <3>1, <3>2
    <2> QED BY <1>6, <2>1, <2>2
<1> QED BY <1>7, <1>9, <1>12, <1>13

LEMMA DeleteKeeps ==
    ASSUME QInv, NEW id \in Id, DeleteRecord(id)
    PROVE  RecordsOK' /\ MapOK' /\ RamOK' /\ MapOwn'
<1> DEFINE L == Len(records)
           target == get_index_in_ram(id)
<1>1. PICK gone \in DOMAIN records :
        records[gone].id = id /\ records' = RecordsWithout(gone)
    BY DEF DeleteRecord
<1>2. /\ up /\ up' = up /\ id_exists(id)
      /\ ids' = SwapPopped(ids, target) /\ count' = count - 1 /\ metadata' = metadata \ {id}
      /\ meta_map' = [x \in DOMAIN meta_map \ {id} |-> meta_map[x]]
      /\ mixed' = mixed
    BY DEF DeleteRecord, Delete, remove_entry
<1>3. /\ L \in Nat /\ L = count /\ gone \in 1 .. L
      /\ \A n \in 1 .. L : records[n] \in StoredRecord
    BY <1>2, RecordsType DEF QInv, RamOK
<1>4. target \in 0 .. count - 1 /\ ids[target] = id
    BY <1>2, IndexInRam DEF QInv, IInv
<1> HIDE DEF L, target
<1>5. /\ \A i, j \in 0 .. count - 1 : ids[i] = ids[j] => i = j
      /\ \A i \in 0 .. count - 1 : \E n \in 1 .. L : records[n].id = ids[i]
      /\ \A n \in 1 .. L : /\ \E i \in 0 .. count - 1 : ids[i] = records[n].id
                           /\ records[n].id \in metadata
      /\ \A m, n \in 1 .. L : records[m].id = records[n].id => m = n
    BY <1>2 DEF QInv, RamOK, RecordsOK, L
\* Where the n-th record left was before.
<1> DEFINE old(n) == IF n < gone THEN n ELSE n + 1
<1>6. /\ records' \in Seq(StoredRecord) /\ Len(records') = L - 1
      /\ \A n \in 1 .. L - 1 : /\ records'[n] = records[old(n)]
                               /\ old(n) \in 1 .. L /\ old(n) # gone
    <2>1. records' = [n \in 1 .. L - 1 |-> IF n < gone THEN records[n] ELSE records[n + 1]]
        BY <1>1 DEF RecordsWithout, L
    <2>2. \A n \in 1 .. L - 1 : old(n) \in 1 .. L /\ old(n) # gone
        BY <1>3
    <2>3. \A n \in 1 .. L - 1 : records'[n] = records[old(n)]
        BY <2>1
    <2>4. records' \in [1 .. L - 1 -> StoredRecord] /\ L - 1 \in Nat
        <3> HIDE DEF old
        <3>1. \A n \in 1 .. L - 1 : records'[n] \in StoredRecord
            BY <1>3, <2>2, <2>3
        <3> QED BY <1>3, <2>1, <3>1
    <2>5. records' \in Seq(StoredRecord) /\ Len(records') = L - 1
        BY <2>4
    <2> QED BY <2>2, <2>3, <2>5
<1>7. \A m, n \in 1 .. L - 1 : old(m) = old(n) => m = n
    BY <1>3
<1>8. ASSUME NEW j \in 1 .. L, j # gone
      PROVE  \E n \in 1 .. L - 1 : old(n) = j
    <2>1. CASE j < gone
        <3>1. j \in 1 .. L - 1 /\ old(j) = j
            BY <1>3, <2>1
        <3> QED BY <3>1
    <2>2. CASE j > gone
        <3>1. j - 1 \in 1 .. L - 1 /\ old(j - 1) = j
            BY <1>3, <2>2
        <3> QED BY <3>1
    <2> QED BY <1>3, <1>8, <2>1, <2>2
<1> HIDE DEF old
<1>9. ASSUME NEW n \in 1 .. L - 1
      PROVE  records'[n].id # id
    <2>1. records'[n] = records[old(n)] /\ old(n) \in 1 .. L /\ old(n) # gone
        BY <1>6
    <2> QED BY <1>1, <1>3, <1>5, <2>1
<1>10. RecordsOK'
    <2>1. Len(records') <= MaxVectors
        BY <1>3, <1>6, BoundsAssumption DEF QInv, RecordsOK, L
    <2>2. \A m, n \in 1 .. L - 1 : records'[m].id = records'[n].id => m = n
        BY <1>5, <1>6, <1>7
    <2> QED BY <1>6, <2>1, <2>2 DEF RecordsOK
<1>11. MapOK'
    BY <1>2 DEF QInv, MapOK
<1>12. RamOK'
    <2> DEFINE slot(i) == IF i = target THEN count - 1 ELSE i
    <2>1. \A i \in 0 .. count - 2 : /\ ids'[i] = ids[slot(i)]
                                    /\ slot(i) \in 0 .. count - 1 /\ slot(i) # target
        BY <1>2, <1>3, <1>4 DEF SwapPopped
    <2>2. \A i, j \in 0 .. count - 2 : slot(i) = slot(j) => i = j
        BY <1>3
    <2>3. ASSUME NEW j \in 0 .. count - 1, j # target
          PROVE  \E i \in 0 .. count - 2 : slot(i) = j
        <3>1. CASE j = count - 1
            <4>1. target \in 0 .. count - 2 /\ slot(target) = j
                BY <1>3, <1>4, <2>3, <3>1
            <4> QED BY <4>1
        <3>2. CASE j # count - 1
            <4>1. j \in 0 .. count - 2 /\ slot(j) = j
                BY <1>3, <2>3, <3>2
            <4> QED BY <4>1
        <3> QED BY <3>1, <3>2
    <2> HIDE DEF slot
    <2>4. \A i, j \in 0 .. count - 2 : ids'[i] = ids'[j] => i = j
        BY <1>5, <2>1, <2>2
    <2>5. ASSUME NEW i \in 0 .. count - 2
          PROVE  \E n \in 1 .. L - 1 : records'[n].id = ids'[i]
        <3>1. ids'[i] = ids[slot(i)] /\ slot(i) \in 0 .. count - 1 /\ ids[slot(i)] # id
            BY <1>4, <1>5, <2>1
        <3>2. PICK j \in 1 .. L : records[j].id = ids[slot(i)]
            BY <1>5, <3>1
        <3>3. PICK n \in 1 .. L - 1 : old(n) = j
            BY <1>1, <1>8, <3>1, <3>2
        <3> QED BY <1>6, <3>1, <3>2, <3>3
    <2>6. ASSUME NEW n \in 1 .. L - 1
          PROVE  /\ \E i \in 0 .. count - 2 : ids'[i] = records'[n].id
                 /\ records'[n].id \in metadata'
        <3>1. records'[n] = records[old(n)] /\ old(n) \in 1 .. L
            BY <1>6
        <3>2. PICK j \in 0 .. count - 1 : ids[j] = records'[n].id
            BY <1>5, <3>1
        <3>3. PICK i \in 0 .. count - 2 : slot(i) = j
            BY <1>4, <1>9, <2>3, <3>2
        <3>4. records'[n].id \in metadata'
            BY <1>2, <1>5, <1>9, <3>1
        <3> QED BY <2>1, <3>2, <3>3, <3>4
    <2>7. 0 .. count' - 1 = 0 .. count - 2
        BY <1>2, <1>3
    <2> QED BY <1>2, <1>3, <1>6, <2>4, <2>5, <2>6, <2>7 DEF RamOK
<1>13. MapOwn'
    <2> SUFFICES ASSUME ~mixed, NEW n \in 1 .. L - 1
                 PROVE  meta_map'[records'[n].id] = InnerMap(records'[n].pairs)
        BY <1>2, <1>6 DEF MapOwn
    <2>1. records'[n] = records[old(n)] /\ old(n) \in 1 .. L
        BY <1>6
    <2>2. records[old(n)].id \in DOMAIN meta_map /\ records[old(n)].id # id
        BY <1>5, <1>9, <2>1 DEF QInv, MapOK
    <2>3. meta_map[records[old(n)].id] = InnerMap(records[old(n)].pairs)
        BY <1>2, <2>1 DEF QInv, MapOwn, L
    <2> QED BY <1>2, <2>1, <2>2, <2>3
<1> QED BY <1>10, <1>11, <1>12, <1>13

-----------------------------------------------------------------------------
(* The theorems.                                                           *)

LEMMA QueryInitEstablishes == QueryInit => QInv
<1> SUFFICES ASSUME QueryInit PROVE QInv
    OBVIOUS
<1>1. IInv /\ ~up
    BY InitEstablishes DEF QueryInit, Init
<1>2. RecordsOK
    <2>1. <<>> \in Seq(StoredRecord) /\ Len(<<>>) = 0
        BY EmptySeq
    <2>2. records = <<>>
        BY DEF QueryInit
    <2> QED BY <2>1, <2>2, BoundsAssumption DEF RecordsOK
<1>3. MapOK
    BY DEF QueryInit, Init, MapOK
<1> QED BY <1>1, <1>2, <1>3 DEF QInv, RamOK, MapOwn

LEMMA QueryStepEstablishes ==
    ASSUME QInv, [QueryNext]_query_vars
    PROVE  QInv'
<1>1. IInv'
    BY StepsAreStoreSteps, StepEstablishes DEF QInv
<1>2. ASSUME NEW r \in Row, NEW pairs \in Metadata, InsertWithMetadata(r, pairs)
      PROVE  QInv'
    BY <1>1, <1>2, InsertKeeps DEF QInv
<1>3. ASSUME NEW id \in Id, DeleteRecord(id)
      PROVE  QInv'
    BY <1>1, <1>3, DeleteKeeps DEF QInv
<1>4. CASE OptimizeIndex
    BY <1>1, <1>4
    DEF QInv, OptimizeIndex, Optimize, rows, RecordsOK, MapOK, RamOK, MapOwn
<1>5. CASE LoadRecords
    BY <1>1, <1>5, FillKeeps DEF QInv, LoadRecords
<1>6. CASE BootFromRecords
    BY <1>1, <1>6, FillKeeps DEF QInv, BootFromRecords
<1>7. CASE QueryCrash
    BY <1>1, <1>7 DEF QInv, QueryCrash, Crash, Die, RecordsOK, MapOK, RamOK, MapOwn
<1>8. CASE UNCHANGED query_vars
    BY <1>1, <1>8 DEF QInv, query_vars, vars, rows, RecordsOK, MapOK, RamOK, MapOwn
<1> QED BY <1>2, <1>3, <1>4, <1>5, <1>6, <1>7, <1>8 DEF QueryNext

\* QInv is inductive.
THEOREM QueryInductive == QuerySpec => []QInv
<1>1. QueryInit => QInv
    BY QueryInitEstablishes
<1>2. QInv /\ [QueryNext]_query_vars => QInv'
    BY QueryStepEstablishes
<1> QED BY <1>1, <1>2, PTL DEF QuerySpec

\* The store with metadata and an entry file is a store: every behaviour of
\* Query is one of VectorStore, so what is proved of that module holds here.
THEOREM QueryImplementsStore == QuerySpec => Spec
<1>1. QueryInit => Init
    BY DEF QueryInit
<1>2. QInv /\ [QueryNext]_query_vars => [Next]_vars
    BY StepsAreStoreSteps DEF QInv
<1> QED BY <1>1, <1>2, QueryInductive, PTL DEF QuerySpec, Spec

\* metadata_ has the keys VectorStore keeps, and records have the types that an
\* INSERT gives them.
THEOREM QueryTypeCorrect == QuerySpec => []QueryTypeOK
<1>1. QInv => QueryTypeOK
    <2> SUFFICES ASSUME QInv PROVE QueryTypeOK
        OBVIOUS
    <2>1. \A n \in DOMAIN records : records[n] \in Record
        BY RecordsType DEF QInv
    <2> QED BY <2>1 DEF QInv, QueryTypeOK, IInv, MapOK, Record
<1> QED BY <1>1, QueryInductive, PTL

\* A filter matches the vectors inserted with its pairs, through any reuse of
\* ids, swap of rows and reload, unless a reload has mixed pair counts.
THEOREM FiltersSeeOwn == QuerySpec => []FiltersSeeOwnMetadata
<1>1. QInv => FiltersSeeOwnMetadata
    <2> SUFFICES ASSUME QInv, up, ~mixed, NEW f \in Filters
                 PROVE  /\ get_matching_indices(f) \subseteq Meant(f)
                        /\ Short(f) => Meant(f) \subseteq get_matching_indices(f)
        BY DEF FiltersSeeOwnMetadata
    <2>1. DOMAIN records = 1 .. Len(records)
        BY RecordsType DEF QInv
    <2>2. ASSUME NEW i \in 0 .. count - 1
          PROVE  \E n \in 1 .. Len(records) :
                    /\ records[n].id = ids[i] /\ ids[i] \in DOMAIN meta_map
                    /\ meta_map[ids[i]] = InnerMap(records[n].pairs)
                    /\ records[n].pairs \in Slots
        <3>1. PICK n \in 1 .. Len(records) : records[n].id = ids[i]
            BY DEF QInv, RamOK
        <3>2. records[n].pairs \in Pairs
            BY RecordsType DEF QInv
        <3> QED BY <3>1, <3>2, PairsAreSlots DEF QInv, RamOK, MapOK, MapOwn
    <2>3. \A m, n \in 1 .. Len(records) : records[m].id = records[n].id => m = n
        BY DEF QInv, RecordsOK
    <2>4. f \in Pairs /\ \A m \in DOMAIN f : f[m] \in Pair
        BY PairsType, MetadataAssumption
    <2>5. ASSUME NEW i \in get_matching_indices(f)
          PROVE  i \in Meant(f)
        <3>1. i \in 0 .. count - 1
            BY DEF get_matching_indices
        <3>2. PICK n \in 1 .. Len(records) :
                    /\ records[n].id = ids[i] /\ ids[i] \in DOMAIN meta_map
                    /\ meta_map[ids[i]] = InnerMap(records[n].pairs)
                    /\ records[n].pairs \in Slots
            BY <2>2, <3>1
        <3>3. ASSUME NEW m \in DOMAIN f
              PROVE  HasPair(records[n].pairs, f[m])
            <4>1. f # <<>>
                BY <3>3, EmptySeq, LenProperties
            <4>2. /\ f[m].key \in DOMAIN meta_map[ids[i]]
                  /\ meta_map[ids[i]][f[m].key] = f[m].val
                BY <4>1 DEF get_matching_indices
            <4> QED BY <2>4, <3>2, <4>2, InnerMapMeans
        <3> QED BY <2>1, <3>1, <3>2, <3>3 DEF Meant
    <2>6. ASSUME Short(f), NEW i \in Meant(f)
          PROVE  i \in get_matching_indices(f)
        <3>1. i \in 0 .. count - 1
            BY DEF Meant
        <3>2. PICK n \in 1 .. Len(records) :
                    /\ records[n].id = ids[i] /\ ids[i] \in DOMAIN meta_map
                    /\ meta_map[ids[i]] = InnerMap(records[n].pairs)
                    /\ records[n].pairs \in Slots
            BY <2>2, <3>1
        <3>3. PICK j \in 1 .. Len(records) :
                    /\ records[j].id = ids[i]
                    /\ \A m \in DOMAIN f : HasPair(records[j].pairs, f[m])
            BY <2>1 DEF Meant
        <3>4. j = n
            BY <2>3, <3>2, <3>3
        <3>5. ASSUME NEW m \in DOMAIN f
              PROVE  /\ KeyReadable(f, m) /\ ValueReadable(f, m)
                     /\ f[m].key \in DOMAIN meta_map[ids[i]]
                     /\ meta_map[ids[i]][f[m].key] = f[m].val
            <4>1. HasPair(records[n].pairs, f[m])
                BY <3>3, <3>4
            <4>2. KeyReadable(f, m) /\ ValueReadable(f, m)
                BY <2>6 DEF Short, KeyReadable, ValueReadable
            <4> QED BY <2>4, <3>2, <4>1, <4>2, InnerMapMeans
        <3> QED BY <3>1, <3>2, <3>5 DEF get_matching_indices
    <2> QED BY <2>5, <2>6
<1> QED BY <1>1, QueryInductive, PTL

\* A QUERY whose filter some vector satisfies returns hits, and only hits that
\* satisfy it.
THEOREM SatisfiableFilters == QuerySpec => []SatisfiableFilterIsObeyed
<1>1. QInv => SatisfiableFilterIsObeyed
    BY FilterObeyed DEF QInv
<1> QED BY <1>1, QueryInductive, PTL

\* Without a filter a search of every list is exact, and a query equal to a
\* stored embedding has it as its first hit however few lists are searched.
THEOREM UnfilteredExact == QuerySpec => []UnfilteredAnswersAreExact
<1>1. QInv => UnfilteredAnswersAreExact
    BY AnswersExact DEF QInv
<1> QED BY <1>1, QueryInductive, PTL
=============================================================================
