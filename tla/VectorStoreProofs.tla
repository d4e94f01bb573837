-------------------------- MODULE VectorStoreProofs --------------------------
(***************************************************************************)
(* The invariants of VectorStore, for every value of its constants.        *)
(*                                                                         *)
(* The inductive invariant is IInv.  IndexIsExact carries the argument: an *)
(* INSERT adds to the lists what build_lists would put there, and a DELETE *)
(* takes out exactly the two slots that change, because each of them is on *)
(* exactly one list.  That a nearest centroid exists at all (the CHOOSE of *)
(* find_nearest_centroid) is LEMMA NearestExists.                          *)
(***************************************************************************)
EXTENDS VectorStore, TLAPS, WellFoundedInduction, FiniteSetTheorems

IInv ==
    /\ TypeOK
    /\ IndexIsExact
    /\ MetadataHasOwner
    /\ IndexFileStartsWithRam

-----------------------------------------------------------------------------
(* The nearest centroid.                                                   *)

\* A non-empty set of naturals has a least element.
LEMMA LeastNatural ==
    ASSUME NEW T \in SUBSET Nat, T # {}
    PROVE  \E m \in T : \A n \in T : m <= n
<1>1. PICK m \in T : \A n \in T : <<n, m>> \notin OpToRel(<, Nat)
    BY NatLessThanWellFounded, WFMin
<1>2. \A n \in T : ~(n < m)
    BY <1>1 DEF OpToRel
<1> QED BY <1>2

\* Among k > 0 centroids one is nearest, and find_nearest_centroid returns it.
LEMMA NearestExists ==
    ASSUME NEW k \in Nat \ {0}, NEW cents \in [0 .. k - 1 -> Space], NEW e \in Space
    PROVE  /\ find_nearest_centroid(e, cents, k) \in 0 .. k - 1
           /\ \A d \in 0 .. k - 1 : ~Before(e, cents, d, find_nearest_centroid(e, cents, k))
<1> DEFINE D == [c \in 0 .. k - 1 |-> Dist[<<e, cents[c]>>]]
           T == {D[c] : c \in 0 .. k - 1}
           C(m) == {c \in 0 .. k - 1 : D[c] = m}
<1>1. \A c \in 0 .. k - 1 : D[c] \in Nat /\ D[c] = Dist[<<e, cents[c]>>]
    BY SpaceAssumption
<1> HIDE DEF D
<1>2. T \in SUBSET Nat /\ T # {}
    <2>1. 0 \in 0 .. k - 1
        OBVIOUS
    <2> QED BY <1>1, <2>1
<1>3. PICK m \in T : \A n \in T : m <= n
    BY <1>2, LeastNatural
<1>4. C(m) \in SUBSET Nat /\ C(m) # {}
    <2>1. PICK c \in 0 .. k - 1 : D[c] = m
        BY <1>3
    <2> QED BY <2>1
<1>5. PICK b \in C(m) : \A c \in C(m) : b <= c
    BY <1>4, LeastNatural
<1>6. b \in 0 .. k - 1 /\ D[b] = m /\ m \in Nat
    BY <1>1, <1>5
<1>7. \A d \in 0 .. k - 1 : ~Before(e, cents, d, b)
    <2> SUFFICES ASSUME NEW d \in 0 .. k - 1 PROVE ~Before(e, cents, d, b)
        OBVIOUS
    <2>1. D[d] \in Nat /\ m <= D[d]
        BY <1>1, <1>3
    <2>2. D[d] = m => b <= d
        BY <1>5
    <2>3. D[d] = Dist[<<e, cents[d]>>] /\ m = Dist[<<e, cents[b]>>]
        BY <1>1, <1>6
    <2> QED BY <1>6, <2>1, <2>2, <2>3 DEF Before
<1> QED BY <1>6, <1>7 DEF find_nearest_centroid

-----------------------------------------------------------------------------
(* The inverted lists.                                                     *)

Lists(k) == [0 .. k - 1 -> [Slot -> Nat]]

\* index is on one of the k lists, once.
OnceOn(l, k, index) ==
    \E h \in 0 .. k - 1 :
        l[h][index] = 1 /\ \A c \in 0 .. k - 1 : c # h => l[c][index] = 0

\* The k lists without index.
Without(l, k, index) ==
    [c \in 0 .. k - 1 |-> [i \in Slot |-> IF i = index THEN 0 ELSE l[c][i]]]

\* delete_ of an index that occurs once leaves the other indices alone.
LEMMA DeleteOnce ==
    ASSUME NEW k \in Nat, NEW l \in Lists(k), NEW index \in Slot, OnceOn(l, k, index)
    PROVE  delete_(l, index) = Without(l, k, index)
<1>1. PICK h \in 0 .. k - 1 :
        l[h][index] = 1 /\ \A c \in 0 .. k - 1 : c # h => l[c][index] = 0
    BY DEF OnceOn
<1>2. {c \in DOMAIN l : l[c][index] > 0} = {h}
    BY <1>1 DEF Lists
<1>3. (CHOOSE c \in {h} : \A d \in {h} : c <= d) = h
    OBVIOUS
<1>4. delete_(l, index) = [l EXCEPT ![h][index] = @ - 1]
    BY <1>2, <1>3 DEF delete_
<1>5. [l EXCEPT ![h][index] = @ - 1] = Without(l, k, index)
    <2> SUFFICES \A c \in 0 .. k - 1 :
            [l EXCEPT ![h][index] = @ - 1][c] = Without(l, k, index)[c]
        BY DEF Lists, Without
    <2>1. ASSUME NEW c \in 0 .. k - 1
          PROVE  [l EXCEPT ![h][index] = @ - 1][c] = Without(l, k, index)[c]
        <3>1. l[c] \in [Slot -> Nat]
            BY DEF Lists
        <3>2. CASE c = h
            <4>1. [l EXCEPT ![h][index] = @ - 1][c] = [l[c] EXCEPT ![index] = @ - 1]
                BY <3>2 DEF Lists
            <4>2. \A i \in Slot : [l[c] EXCEPT ![index] = @ - 1][i] = Without(l, k, index)[c][i]
                BY <1>1, <3>1, <3>2 DEF Without
            <4> QED BY <3>1, <4>1, <4>2 DEF Without
        <3>3. CASE c # h
            <4>1. \A i \in Slot : l[c][i] = Without(l, k, index)[c][i]
                BY <1>1, <3>1, <3>3 DEF Without
            <4> QED BY <3>1, <3>3, <4>1 DEF Lists, Without
        <3> QED BY <3>2, <3>3
    <2> QED BY <2>1
<1> QED BY <1>4, <1>5

\* add_ in full: one more occurrence of index on its nearest list.
LEMMA AddOne ==
    ASSUME NEW k \in Nat \ {0}, NEW l \in Lists(k), NEW index \in Slot,
           NEW cents \in [0 .. k - 1 -> Space], NEW e \in Space
    PROVE  add_(l, index, e, cents, k) =
             [c \in 0 .. k - 1 |-> [i \in Slot |->
                IF i = index /\ c = find_nearest_centroid(e, cents, k)
                THEN l[c][i] + 1 ELSE l[c][i]]]
<1>1. find_nearest_centroid(e, cents, k) \in 0 .. k - 1
    BY NearestExists
<1> QED BY <1>1 DEF add_, Lists

Embeddings(n) == [0 .. n - 1 -> Embedding]
Centroids(k) == [0 .. k - 1 -> Space]

\* A rebuild puts every vector on exactly one list.
LEMMA BuiltOnce ==
    ASSUME NEW n \in 0 .. MaxVectors, NEW embs \in Embeddings(n),
           NEW k \in Nat \ {0}, NEW cents \in Centroids(k)
    PROVE  /\ build_lists(n, embs, cents, k) \in Lists(k)
           /\ \A index \in 0 .. n - 1 : OnceOn(build_lists(n, embs, cents, k), k, index)
<1>1. build_lists(n, embs, cents, k) \in Lists(k)
    BY DEF build_lists, Lists
<1>2. ASSUME NEW index \in 0 .. n - 1
      PROVE  OnceOn(build_lists(n, embs, cents, k), k, index)
    <2> DEFINE h == find_nearest_centroid(embs[index], cents, k)
    <2>1. h \in 0 .. k - 1
        BY NearestExists, SpaceAssumption DEF Embeddings, Centroids
    <2>2. index \in Slot
        BY BoundsAssumption DEF Slot
    <2>3. \A c \in 0 .. k - 1 :
            build_lists(n, embs, cents, k)[c][index] = IF h = c THEN 1 ELSE 0
        BY <2>2 DEF build_lists
    <2> HIDE DEF h
    <2> QED BY <2>1, <2>3 DEF OnceOn
<1> QED BY <1>1, <1>2

\* INSERT: add_ on exact lists gives the lists of one vector more.
LEMMA AddKeepsExact ==
    ASSUME NEW n \in 0 .. MaxVectors, n < MaxVectors, NEW embs \in Embeddings(n),
           NEW e \in Embedding, NEW k \in Nat \ {0}, NEW cents \in Centroids(k)
    PROVE  add_(build_lists(n, embs, cents, k), n, e, cents, k) =
             build_lists(n + 1, [i \in 0 .. n |-> IF i = n THEN e ELSE embs[i]], cents, k)
<1> DEFINE l == build_lists(n, embs, cents, k)
           pushed == [i \in 0 .. n |-> IF i = n THEN e ELSE embs[i]]
           h == find_nearest_centroid(e, cents, k)
<1>1. n \in Slot /\ e \in Space /\ l \in Lists(k)
    BY BuiltOnce, BoundsAssumption, SpaceAssumption DEF Slot
<1>2. add_(l, n, e, cents, k) =
        [c \in 0 .. k - 1 |-> [i \in Slot |-> IF i = n /\ c = h THEN l[c][i] + 1 ELSE l[c][i]]]
    BY <1>1, AddOne DEF Centroids
<1>3. ASSUME NEW c \in 0 .. k - 1, NEW i \in Slot
      PROVE  (IF i = n /\ c = h THEN l[c][i] + 1 ELSE l[c][i]) =
             (IF i < n + 1 /\ find_nearest_centroid(pushed[i], cents, k) = c THEN 1 ELSE 0)
    <2>1. l[c][i] = IF i < n /\ find_nearest_centroid(embs[i], cents, k) = c THEN 1 ELSE 0
        BY DEF build_lists
    <2>2. i \in Nat
        BY DEF Slot
    <2>3. CASE i = n
        BY <2>1, <2>3
    <2>4. CASE i < n
        BY <2>1, <2>2, <2>4
    <2>5. CASE i > n
        BY <2>1, <2>2, <2>5
    <2> QED BY <2>2, <2>3, <2>4, <2>5
<1> HIDE DEF l, pushed, h
<1>4. add_(l, n, e, cents, k) = build_lists(n + 1, pushed, cents, k)
    BY <1>2, <1>3 DEF build_lists
<1> QED BY <1>4 DEF l, pushed

\* DELETE: the two slots leave the lists and the moved vector enters again.
LEMMA RemoveKeepsExact ==
    ASSUME TypeOK, IndexIsExact, NEW target \in 0 .. count - 1
    PROVE  ListsAfterRemove(target, count - 1) =
             build_lists(count - 1, SwapPopped(embeddings, target), centroids, centroid_count)
<1> DEFINE k == centroid_count
           last == count - 1
           near(i) == find_nearest_centroid(embeddings[i], centroids, k)
           moved == SwapPopped(embeddings, target)
           l1 == Without(lists, k, target)
           l2 == Without(l1, k, last)
<1>1. /\ count \in 0 .. MaxVectors /\ k \in Nat \ {0} /\ centroids \in Centroids(k)
      /\ embeddings \in Embeddings(count) /\ target \in Slot /\ last \in Slot
      /\ last \in 0 .. count - 1
    BY BoundsAssumption DEF TypeOK, Slot, Centroids, Embeddings
<1>2. lists \in Lists(k) /\ OnceOn(lists, k, target) /\ OnceOn(lists, k, last)
    BY <1>1, BuiltOnce DEF IndexIsExact
<1>3. delete_(lists, target) = l1
    BY <1>1, <1>2, DeleteOnce
<1>4. \A c \in 0 .. k - 1, i \in Slot :
        lists[c][i] = IF i < count /\ near(i) = c THEN 1 ELSE 0
    BY DEF IndexIsExact, build_lists
<1>5. CASE target = last
    <2>1. ASSUME NEW c \in 0 .. k - 1, NEW i \in Slot
          PROVE  (IF i = target THEN 0 ELSE lists[c][i]) =
                 (IF i < count - 1 /\ find_nearest_centroid(moved[i], centroids, k) = c
                  THEN 1 ELSE 0)
        <3>1. i \in Nat
            BY DEF Slot
        <3>2. i < count - 1 => moved[i] = embeddings[i]
            BY <1>1, <1>5, <3>1 DEF SwapPopped
        <3> QED BY <1>1, <1>4, <1>5, <3>1, <3>2
    <2>2. l1 = build_lists(count - 1, moved, centroids, k)
        BY <2>1 DEF Without, build_lists
    <2> QED BY <1>3, <1>5, <2>2 DEF ListsAfterRemove
<1>6. CASE target # last
    <2>1. l1 \in Lists(k) /\ OnceOn(l1, k, last)
        <3>1. l1 \in Lists(k)
            BY <1>2 DEF Lists, Without
        <3>2. \A c \in 0 .. k - 1 : l1[c][last] = lists[c][last]
            BY <1>1, <1>6 DEF Without
        <3> QED BY <1>2, <3>1, <3>2 DEF OnceOn
    <2>2. delete_(l1, last) = l2
        BY <1>1, <2>1, DeleteOnce
    <2>3. l2 \in Lists(k)
        BY <2>1 DEF Lists, Without
    <2>4. embeddings[last] \in Space
        BY <1>1, SpaceAssumption DEF Embeddings
    <2>5. add_(l2, target, embeddings[last], centroids, k) =
            [c \in 0 .. k - 1 |-> [i \in Slot |->
                IF i = target /\ c = near(last) THEN l2[c][i] + 1 ELSE l2[c][i]]]
        <3> DEFINE e == embeddings[last]
        <3> HIDE DEF l2, k, e
        <3>1. k \in Nat \ {0} /\ target \in Slot /\ centroids \in [0 .. k - 1 -> Space]
              /\ e \in Space
            BY <1>1, <2>4 DEF Centroids, e
        <3>2. add_(l2, target, e, centroids, k) =
                [c \in 0 .. k - 1 |-> [i \in Slot |->
                    IF i = target /\ c = find_nearest_centroid(e, centroids, k)
                    THEN l2[c][i] + 1 ELSE l2[c][i]]]
            BY <2>3, <3>1, AddOne
        <3> QED BY <3>2 DEF e
    <2>6. ASSUME NEW c \in 0 .. k - 1, NEW i \in Slot
          PROVE  (IF i = target /\ c = near(last) THEN l2[c][i] + 1 ELSE l2[c][i]) =
                 (IF i < count - 1 /\ find_nearest_centroid(moved[i], centroids, k) = c
                  THEN 1 ELSE 0)
        <3>1. i \in Nat /\ target \in Nat /\ count \in Nat
            BY <1>1 DEF Slot
        <3>2. l2[c][i] = IF i = last \/ i = target THEN 0 ELSE lists[c][i]
            BY DEF Without
        <3>3. i < count - 1 => moved[i] = embeddings[IF i = target THEN last ELSE i]
            BY <3>1 DEF SwapPopped
        <3>4. CASE i = target
            BY <1>1, <1>6, <3>1, <3>2, <3>3, <3>4
        <3>5. CASE i # target
            BY <1>1, <1>4, <3>1, <3>2, <3>3, <3>5
        <3> QED BY <3>4, <3>5
    <2>7. add_(l2, target, embeddings[last], centroids, k) =
            build_lists(count - 1, moved, centroids, k)
        <3> HIDE DEF l2, moved, near
        <3> QED BY <2>5, <2>6 DEF build_lists
    <2> QED BY <1>3, <1>6, <2>2, <2>7 DEF ListsAfterRemove
<1> QED BY <1>5, <1>6

-----------------------------------------------------------------------------
(* The invariant, one lemma per group of actions.                          *)

\* The linear scan of get_index_in_ram finds a slot that holds the id.
LEMMA IndexInRam ==
    ASSUME TypeOK, NEW id \in Id, id_exists(id)
    PROVE  get_index_in_ram(id) \in 0 .. count - 1 /\ ids[get_index_in_ram(id)] = id
<1> DEFINE T == {i \in 0 .. count - 1 : ids[i] = id}
<1>1. T \in SUBSET Nat /\ T # {}
    <2>1. PICK i \in 0 .. count - 1 : ids[i] = id
        BY DEF id_exists
    <2>2. i \in T
        BY <2>1
    <2>3. count \in Nat
        BY BoundsAssumption DEF TypeOK
    <2> QED BY <2>2, <2>3
<1>2. PICK m \in T : \A i \in T : m <= i
    BY <1>1, LeastNatural
<1>3. m \in 0 .. count - 1 /\ ids[m] = id /\ \A j \in 0 .. m - 1 : ids[j] # id
    BY <1>2 DEF TypeOK
<1> QED BY <1>3 DEF get_index_in_ram

\* The half of the invariant that speaks of the index.
IndexInv(n, embs) ==
    /\ centroid_count \in 1 .. MaxCentroids
    /\ centroids \in Centroids(centroid_count)
    /\ lists = build_lists(n, embs, centroids, centroid_count)
    /\ lists \in Lists(centroid_count)
    /\ last_build_at \in 0 .. MaxVectors
    /\ index_file \in [last_build_at : 0 .. MaxVectors, size : 0 .. MaxCentroids,
                       centroids : UNION {Centroids(k) : k \in 0 .. MaxCentroids}]
    /\ index_file.centroids \in Centroids(index_file.size)

IndexFileMatches ==
    /\ index_file.last_build_at = last_build_at
    /\ index_file.size >= centroid_count
    /\ \A c \in 0 .. centroid_count - 1 : index_file.centroids[c] = centroids[c]

\* build_ and the two index file writes establish it, whatever the vectors.
LEMMA BuildEstablishes ==
    ASSUME TypeOK, NEW n \in 0 .. MaxVectors, NEW embs \in Embeddings(n),
           BuildAndPersist(n, embs)
    PROVE  IndexInv(n, embs)' /\ IndexFileMatches'
<1> DEFINE k == BuiltCount(n)
<1>1. PICK cents \in KMeans(n, k) :
        /\ centroid_count' = k
        /\ centroids' = cents
        /\ lists' = build_lists(n, embs, cents, k)
        /\ last_build_at' = n
        /\ index_file' = WriteIndex(index_file, n, cents, k)
    BY DEF BuildAndPersist
<1>2. k \in 1 .. MaxCentroids /\ k \in Nat \ {0}
    BY BoundsAssumption DEF TypeOK, BuiltCount, Smaller
<1>3. cents \in Centroids(k)
    BY SpaceAssumption DEF KMeans, Centroids
<1>4. build_lists(n, embs, cents, k) \in Lists(k)
    BY <1>2, <1>3, BuiltOnce
<1> HIDE DEF k
<1>5. /\ index_file'.last_build_at = n
      /\ index_file'.size = Larger(k, index_file.size)
      /\ index_file'.centroids =
           [c \in 0 .. Larger(k, index_file.size) - 1 |->
              IF c < k THEN cents[c] ELSE index_file.centroids[c]]
    BY <1>1 DEF WriteIndex
<1>6. /\ Larger(k, index_file.size) \in 0 .. MaxCentroids
      /\ Larger(k, index_file.size) >= k
    BY <1>2, BoundsAssumption DEF TypeOK, Larger
<1>7. \A c \in 0 .. Larger(k, index_file.size) - 1 :
        (IF c < k THEN cents[c] ELSE index_file.centroids[c]) \in Space
    <2>1. ASSUME NEW c \in 0 .. Larger(k, index_file.size) - 1
          PROVE  (IF c < k THEN cents[c] ELSE index_file.centroids[c]) \in Space
        <3>1. CASE c < k
            <4>1. c \in 0 .. k - 1
                BY <1>2, <3>1
            <4> QED BY <1>3, <3>1, <4>1 DEF Centroids
        <3>2. CASE c >= k
            <4>1. c \in 0 .. index_file.size - 1
                BY <1>2, <3>2 DEF TypeOK, Larger
            <4>2. index_file.centroids \in [0 .. index_file.size - 1 -> Space]
                BY DEF TypeOK
            <4>3. ~(c < k)
                BY <1>2, <3>2
            <4> QED BY <4>1, <4>2, <4>3
        <3> QED BY <1>2, <3>1, <3>2
    <2> QED BY <2>1
<1>8. /\ index_file'.centroids \in Centroids(index_file'.size)
      /\ index_file' \in [last_build_at : 0 .. MaxVectors, size : 0 .. MaxCentroids,
                          centroids : UNION {Centroids(j) : j \in 0 .. MaxCentroids}]
    <2>1. index_file'.centroids \in Centroids(index_file'.size)
        BY <1>5, <1>7 DEF Centroids
    <2>2. index_file' = [last_build_at |-> n, size |-> index_file'.size,
                         centroids |-> index_file'.centroids]
        BY <1>1 DEF WriteIndex
    <2> QED BY <1>5, <1>6, <2>1, <2>2
<1>9. \A c \in 0 .. k - 1 : index_file'.centroids[c] = cents[c]
    BY <1>2, <1>5, <1>6
<1> QED BY <1>1, <1>2, <1>3, <1>4, <1>5, <1>6, <1>8, <1>9 DEF IndexInv, IndexFileMatches

\* So does a boot that finds centroids in the file.
LEMMA RestoreEstablishes ==
    ASSUME TypeOK, NEW n \in 0 .. MaxVectors, NEW embs \in Embeddings(n),
           index_file.size # 0, RestoreIndex(n, embs)
    PROVE  IndexInv(n, embs)' /\ IndexFileMatches'
<1>1. index_file.size \in 1 .. MaxCentroids /\ index_file.size \in Nat \ {0}
    BY BoundsAssumption DEF TypeOK
<1>2. index_file.centroids \in Centroids(index_file.size)
    BY DEF TypeOK, Centroids
<1>3. build_lists(n, embs, index_file.centroids, index_file.size) \in Lists(index_file.size)
    BY <1>1, <1>2, BuiltOnce
<1> QED BY <1>1, <1>2, <1>3 DEF TypeOK, RestoreIndex, IndexInv, IndexFileMatches

\* The rows that LOAD and the boot put in RAM.
RowsInv ==
    /\ count \in 0 .. MaxVectors
    /\ ids \in [0 .. count - 1 -> Id]
    /\ embeddings \in Embeddings(count)
    /\ text_refs \in [0 .. count - 1 -> TextRef]
    /\ metadata \subseteq Id
    /\ MetadataHasOwner

LEMMA FillEstablishes ==
    ASSUME NEW n \in 0 .. MaxVectors, NEW rs \in [0 .. n - 1 -> Row], FillRows(n, rs)
    PROVE  RowsInv' /\ count' = n /\ embeddings' = RowEmbeddings(n, rs)
           /\ RowEmbeddings(n, rs) \in Embeddings(n)
<1>1. \A i \in 0 .. n - 1 : rs[i].id \in Id /\ rs[i].embedding \in Embedding /\ rs[i].text \in TextRef
    BY RowAssumption
<1>2. RowEmbeddings(n, rs) \in Embeddings(n)
    BY <1>1 DEF RowEmbeddings, Embeddings
<1>3. metadata' \subseteq Id /\ \A id \in metadata' : \E i \in 0 .. n - 1 : ids'[i] = id
    BY <1>1 DEF FillRows
<1> QED BY <1>1, <1>2, <1>3 DEF FillRows, RowsInv, MetadataHasOwner, id_exists

\* The two halves make up the invariant of a running server.
LEMMA Halves ==
    ASSUME RowsInv', IndexInv(count, embeddings)', IndexFileMatches', up' \in BOOLEAN
    PROVE  IInv'
BY DEF RowsInv, IndexInv, IndexFileMatches, IInv, TypeOK, IndexIsExact,
       IndexFileStartsWithRam, Embeddings, Centroids, Lists

LEMMA InitEstablishes == Init => IInv
<1> SUFFICES ASSUME Init PROVE IInv
    OBVIOUS
<1>1. TypeOK
    <2>1. /\ NoCentroids \in [0 .. MaxCentroids - 1 -> Space]
          /\ NoLists \in [0 .. MaxCentroids - 1 -> [Slot -> Nat]]
          /\ MaxCentroids \in 1 .. MaxCentroids
        BY BoundsAssumption, SpaceAssumption DEF NoCentroids, NoLists
    <2>2. \A S : EmptyArray \in [0 .. 0 - 1 -> S]
        BY DEF EmptyArray
    <2>3. /\ NoIndexFile.centroids \in [0 .. NoIndexFile.size - 1 -> Space]
          /\ NoIndexFile \in [last_build_at : 0 .. MaxVectors, size : 0 .. MaxCentroids,
                  centroids : UNION {[0 .. k - 1 -> Space] : k \in 0 .. MaxCentroids}]
        <3>1. [i \in 0 .. -1 |-> Origin] \in [0 .. 0 - 1 -> Space]
            OBVIOUS
        <3>2. 0 \in 0 .. MaxCentroids /\ 0 \in 0 .. MaxVectors
            BY BoundsAssumption
        <3> QED BY <3>1, <3>2 DEF NoIndexFile
    <2>4. 0 \in 0 .. MaxVectors
        BY BoundsAssumption
    <2> QED BY <2>1, <2>2, <2>3, <2>4 DEF Init, TypeOK
<1>2. IndexIsExact
    BY BoundsAssumption DEF Init, IndexIsExact, NoLists, build_lists, Slot
<1>3. MetadataHasOwner /\ IndexFileStartsWithRam
    BY DEF Init, MetadataHasOwner, IndexFileStartsWithRam
<1> QED BY <1>1, <1>2, <1>3 DEF IInv

LEMMA DieEstablishes ==
    ASSUME TypeOK, Die, \/ index_file' = index_file
                        \/ \E n \in 0 .. MaxVectors :
                              index_file' = [index_file EXCEPT !.last_build_at = n]
    PROVE  IInv'
<1>1. TypeOK'
    <2>1. /\ NoCentroids \in [0 .. MaxCentroids - 1 -> Space]
          /\ NoLists \in [0 .. MaxCentroids - 1 -> [Slot -> Nat]]
          /\ MaxCentroids \in 1 .. MaxCentroids
          /\ 0 \in 0 .. MaxVectors
        BY BoundsAssumption, SpaceAssumption DEF NoCentroids, NoLists
    <2>2. \A S : EmptyArray \in [0 .. 0 - 1 -> S]
        BY DEF EmptyArray
    <2>3. /\ index_file'.size = index_file.size
          /\ index_file'.centroids = index_file.centroids
          /\ index_file' \in [last_build_at : 0 .. MaxVectors, size : 0 .. MaxCentroids,
                  centroids : UNION {[0 .. k - 1 -> Space] : k \in 0 .. MaxCentroids}]
        BY DEF TypeOK
    <2>4. index_file'.centroids \in [0 .. index_file'.size - 1 -> Space]
        BY <2>3 DEF TypeOK
    <2> QED BY <2>1, <2>2, <2>3, <2>4 DEF Die, TypeOK
<1>2. IndexIsExact'
    BY BoundsAssumption DEF Die, IndexIsExact, NoLists, build_lists, Slot
<1>3. MetadataHasOwner' /\ IndexFileStartsWithRam'
    BY DEF Die, MetadataHasOwner, IndexFileStartsWithRam
<1> QED BY <1>1, <1>2, <1>3 DEF IInv

LEMMA BootEstablishes ==
    ASSUME IInv, Boot
    PROVE  IInv'
<1>0. PICK n \in 0 .. MaxVectors : \E rs \in [0 .. n - 1 -> Row] :
        /\ FillRows(n, rs)
        /\ IF index_file.size = 0 THEN BuildAndPersist(n, RowEmbeddings(n, rs))
                                  ELSE RestoreIndex(n, RowEmbeddings(n, rs))
    BY DEF Boot
<1>1. PICK rs \in [0 .. n - 1 -> Row] :
        /\ FillRows(n, rs)
        /\ IF index_file.size = 0 THEN BuildAndPersist(n, RowEmbeddings(n, rs))
                                  ELSE RestoreIndex(n, RowEmbeddings(n, rs))
    BY <1>0
<1>2. RowsInv' /\ count' = n /\ embeddings' = RowEmbeddings(n, rs)
      /\ RowEmbeddings(n, rs) \in Embeddings(n)
    BY <1>1, FillEstablishes
<1>3. IndexInv(n, RowEmbeddings(n, rs))' /\ IndexFileMatches'
    BY <1>1, <1>2, BuildEstablishes, RestoreEstablishes DEF IInv
<1>4. IndexInv(count, embeddings)'
    BY <1>2, <1>3 DEF IndexInv, RowEmbeddings
<1>5. up' \in BOOLEAN
    BY DEF Boot
<1> QED BY <1>2, <1>3, <1>4, <1>5, Halves

LEMMA LoadEstablishes ==
    ASSUME IInv, Load
    PROVE  IInv'
<1>0. PICK n \in 0 .. MaxVectors : \E rs \in [0 .. n - 1 -> Row] :
        FillRows(n, rs) /\ BuildAndPersist(n, RowEmbeddings(n, rs))
    BY DEF Load
<1>1. PICK rs \in [0 .. n - 1 -> Row] :
        FillRows(n, rs) /\ BuildAndPersist(n, RowEmbeddings(n, rs))
    BY <1>0
<1>2. RowsInv' /\ count' = n /\ embeddings' = RowEmbeddings(n, rs)
      /\ RowEmbeddings(n, rs) \in Embeddings(n)
    BY <1>1, FillEstablishes
<1>3. IndexInv(n, RowEmbeddings(n, rs))' /\ IndexFileMatches'
    BY <1>1, <1>2, BuildEstablishes DEF IInv
<1>4. IndexInv(count, embeddings)'
    BY <1>2, <1>3 DEF IndexInv, RowEmbeddings
<1>5. up' \in BOOLEAN
    BY DEF Load, IInv, TypeOK
<1> QED BY <1>2, <1>3, <1>4, <1>5, Halves

LEMMA OptimizeEstablishes ==
    ASSUME IInv, Optimize
    PROVE  IInv'
<1>1. BuildAndPersist(count, embeddings) /\ UNCHANGED <<up, rows>>
    BY DEF Optimize
<1>2. count \in 0 .. MaxVectors /\ embeddings \in Embeddings(count)
    BY DEF IInv, TypeOK, Embeddings
<1>3. PICK n \in 0 .. MaxVectors : n = count
    BY <1>2
<1>4. IndexInv(count, embeddings)' /\ IndexFileMatches'
    BY <1>1, <1>2, BuildEstablishes DEF IInv, IndexInv, rows
<1>5. RowsInv'
    BY <1>1 DEF rows, IInv, TypeOK, RowsInv, Embeddings, MetadataHasOwner, id_exists
<1>6. up' \in BOOLEAN
    BY <1>1 DEF IInv, TypeOK
<1> QED BY <1>4, <1>5, <1>6, Halves

LEMMA InsertEstablishes ==
    ASSUME IInv, Insert
    PROVE  IInv'
<1>1. PICK id \in Id, e \in Embedding, t \in TextRef : make_entry(id, e, t)
    BY RowAssumption DEF Insert
<1> DEFINE k == centroid_count
           pushed == [i \in 0 .. count |-> IF i = count THEN e ELSE embeddings[i]]
<1>2. /\ count \in 0 .. MaxVectors /\ count < MaxVectors
      /\ embeddings \in Embeddings(count) /\ k \in Nat \ {0} /\ centroids \in Centroids(k)
      /\ count' = count + 1 /\ count' \in 0 .. MaxVectors
    BY <1>1, BoundsAssumption
    DEF IInv, TypeOK, Insert, Embeddings, Centroids, make_entry
<1>3. UNCHANGED <<up, centroid_count, centroids, last_build_at, index_file>>
    BY DEF Insert
<1>4. ids' \in [0 .. count' - 1 -> Id] /\ text_refs' \in [0 .. count' - 1 -> TextRef]
      /\ embeddings' \in Embeddings(count') /\ embeddings' = pushed
    <2>1. 0 .. count' - 1 = 0 .. count
        BY <1>2
    <2>2. ids \in [0 .. count - 1 -> Id] /\ text_refs \in [0 .. count - 1 -> TextRef]
        BY DEF IInv, TypeOK
    <2>3. \A S, a, x : a \in [0 .. count - 1 -> S] /\ x \in S => Pushed(a, x) \in [0 .. count -> S]
        BY <1>2 DEF Pushed
    <2> QED BY <1>1, <1>2, <2>1, <2>2, <2>3 DEF make_entry, Embeddings, Pushed
<1>5. lists' = build_lists(count', embeddings', centroids', centroid_count')
    <2>1. lists = build_lists(count, embeddings, centroids, k)
        BY DEF IInv, IndexIsExact
    <2>2. lists' = add_(lists, count, e, centroids, k)
        BY <1>1 DEF make_entry
    <2>3. add_(build_lists(count, embeddings, centroids, k), count, e, centroids, k) =
            build_lists(count + 1, pushed, centroids, k)
        BY <1>2, AddKeepsExact
    <2> QED BY <1>2, <1>3, <1>4, <2>1, <2>2, <2>3
<1>6. metadata' \subseteq Id /\ MetadataHasOwner'
    <2>1. metadata' = metadata \union {id} /\ metadata \subseteq Id
        BY <1>1 DEF make_entry, IInv, TypeOK
    <2>2. \A i \in 0 .. count : ids'[i] = IF i = count THEN id ELSE ids[i]
        BY <1>1 DEF make_entry, Pushed
    <2>3. \A x \in metadata : \E i \in 0 .. count - 1 : ids[i] = x
        BY DEF IInv, MetadataHasOwner, id_exists
    <2>4. \A x \in metadata' : \E i \in 0 .. count' - 1 : ids'[i] = x
        <3> SUFFICES ASSUME NEW x \in metadata' PROVE \E i \in 0 .. count' - 1 : ids'[i] = x
            OBVIOUS
        <3>1. CASE x = id
            BY <1>2, <2>2, <3>1
        <3>2. CASE x \in metadata
            BY <1>2, <2>2, <2>3, <3>2
        <3> QED BY <2>1, <3>1, <3>2
    <2> QED BY <2>1, <2>4 DEF MetadataHasOwner, id_exists
<1>7. lists' \in Lists(centroid_count')
    BY <1>2, <1>3, <1>4, <1>5, BuiltOnce
<1>8. RowsInv'
    BY <1>2, <1>4, <1>6 DEF RowsInv
<1>9. IInv'
    BY <1>3, <1>5, <1>7, <1>8
    DEF IInv, TypeOK, IndexIsExact, IndexFileStartsWithRam, RowsInv, Embeddings, Lists
<1> QED BY <1>9

LEMMA DeleteEstablishes ==
    ASSUME IInv, NEW id \in Id, Delete(id)
    PROVE  IInv'
<1> DEFINE target == get_index_in_ram(id)
           k == centroid_count
<1>1. target \in 0 .. count - 1 /\ ids[target] = id
    BY IndexInRam DEF IInv, Delete
<1>2. /\ count \in 0 .. MaxVectors /\ count > 0 /\ k \in Nat \ {0} /\ centroids \in Centroids(k)
      /\ embeddings \in Embeddings(count)
      /\ count' = count - 1 /\ count' \in 0 .. MaxVectors
    BY <1>1, BoundsAssumption DEF IInv, TypeOK, Centroids, Embeddings, Delete, remove_entry
<1>3. UNCHANGED <<up, centroid_count, centroids, last_build_at, index_file>>
    BY DEF Delete
<1>4. lists' = build_lists(count', embeddings', centroids', centroid_count')
    <2>1. lists' = ListsAfterRemove(target, count - 1) /\ embeddings' = SwapPopped(embeddings, target)
        BY DEF Delete, remove_entry
    <2> HIDE DEF target
    <2>2. ListsAfterRemove(target, count - 1) =
            build_lists(count - 1, SwapPopped(embeddings, target), centroids, k)
        BY <1>1, RemoveKeepsExact DEF IInv
    <2> QED BY <1>2, <1>3, <2>1, <2>2
<1> DEFINE last == count - 1
<1>5. ids' \in [0 .. count' - 1 -> Id] /\ text_refs' \in [0 .. count' - 1 -> TextRef]
      /\ embeddings' \in Embeddings(count')
    <2>1. 0 .. count' - 1 = 0 .. count - 2
        BY <1>2
    <2>2. ids \in [0 .. count - 1 -> Id] /\ text_refs \in [0 .. count - 1 -> TextRef]
          /\ embeddings \in [0 .. count - 1 -> Embedding]
        BY DEF IInv, TypeOK
    <2>3. ids' = SwapPopped(ids, target) /\ text_refs' = SwapPopped(text_refs, target)
          /\ embeddings' = SwapPopped(embeddings, target)
        BY DEF Delete, remove_entry
    <2> HIDE DEF target
    <2>4. \A S, a : a \in [0 .. count - 1 -> S] => SwapPopped(a, target) \in [0 .. count - 2 -> S]
        BY <1>1, <1>2 DEF SwapPopped
    <2> QED BY <2>1, <2>2, <2>3, <2>4 DEF Embeddings
<1>6. metadata' \subseteq Id /\ MetadataHasOwner'
    <2>1. metadata' = metadata \ {id} /\ metadata \subseteq Id
        BY DEF Delete, remove_entry, IInv, TypeOK
    <2>2. \A i \in 0 .. count - 2 : ids'[i] = IF i = target THEN ids[count - 1] ELSE ids[i]
        BY DEF Delete, remove_entry, SwapPopped
    <2>3. \A x \in metadata : \E i \in 0 .. count - 1 : ids[i] = x
        BY DEF IInv, MetadataHasOwner, id_exists
    <2>4. \A x \in metadata' : \E i \in 0 .. count' - 1 : ids'[i] = x
        <3> SUFFICES ASSUME NEW x \in metadata' PROVE \E i \in 0 .. count' - 1 : ids'[i] = x
            OBVIOUS
        <3>1. PICK i \in 0 .. count - 1 : ids[i] = x
            BY <2>1, <2>3
        <3>2. i # target
            BY <1>1, <2>1, <3>1
        <3> HIDE DEF target
        <3>3. CASE i = count - 1
            <4>1. target \in 0 .. count - 2
                BY <1>1, <1>2, <3>2, <3>3
            <4>2. ids'[target] = x
                BY <2>2, <3>1, <3>3, <4>1
            <4> QED BY <1>2, <4>1, <4>2
        <3>4. CASE i # count - 1
            <4>1. i \in 0 .. count - 2
                BY <1>2, <3>4
            <4> QED BY <1>2, <2>2, <3>1, <3>2, <4>1
        <3> QED BY <3>3, <3>4
    <2> QED BY <2>1, <2>4 DEF MetadataHasOwner, id_exists
<1>7. lists' \in Lists(centroid_count')
    BY <1>2, <1>3, <1>4, <1>5, BuiltOnce
<1>8. IInv'
    BY <1>2, <1>3, <1>4, <1>5, <1>6, <1>7
    DEF IInv, TypeOK, IndexIsExact, IndexFileStartsWithRam, Embeddings, Lists
<1> QED BY <1>8

-----------------------------------------------------------------------------
(* The theorems.                                                           *)

\* Every step preserves IInv.
LEMMA StepEstablishes ==
    ASSUME IInv, [Next]_vars
    PROVE  IInv'
<1>1. CASE Boot
    BY <1>1, BootEstablishes
<1>2. CASE Insert
    BY <1>2, InsertEstablishes
<1>3. ASSUME NEW id \in Id, Delete(id) PROVE IInv'
    BY <1>3, DeleteEstablishes
<1>4. CASE Optimize
    BY <1>4, OptimizeEstablishes
<1>5. CASE Load
    BY <1>5, LoadEstablishes
<1>6. CASE Crash
    BY <1>6, DieEstablishes DEF Crash, IInv
<1>7. CASE CrashInBuild
    BY <1>7, DieEstablishes DEF CrashInBuild, IInv
<1>8. CASE UNCHANGED vars
    BY <1>8
    DEF vars, rows, topology, IInv, TypeOK, IndexIsExact, MetadataHasOwner,
        IndexFileStartsWithRam, id_exists
<1> QED BY <1>1, <1>2, <1>3, <1>4, <1>5, <1>6, <1>7, <1>8 DEF Next

\* IInv is inductive.
THEOREM Inductive == Spec => []IInv
<1>1. Init => IInv
    BY InitEstablishes
<1>2. IInv /\ [Next]_vars => IInv'
    BY StepEstablishes
<1> QED BY <1>1, <1>2, PTL DEF Spec

\* The arrays, the lists and the index file have the types of the C++ members
\* they model, after any sequence of commands, kills and restarts.
THEOREM TypeCorrect == Spec => []TypeOK
<1>1. IInv => TypeOK
    BY DEF IInv
<1> QED BY <1>1, Inductive, PTL

\* The inverted lists maintained by add_, delete_ and the slot move of
\* remove_entry are always those of a rebuild with the same centroids.
THEOREM IndexExact == Spec => []IndexIsExact
<1>1. IInv => IndexIsExact
    BY DEF IInv
<1> QED BY <1>1, Inductive, PTL

\* metadata_ holds no map without a vector of that id.
THEOREM MetadataOwned == Spec => []MetadataHasOwner
<1>1. IInv => MetadataHasOwner
    BY DEF IInv
<1> QED BY <1>1, Inductive, PTL

\* The index file of a running server starts with the server's centroids and
\* carries their last_build_at; what stands behind them is older.
THEOREM IndexFileCurrent == Spec => []IndexFileStartsWithRam
<1>1. IInv => IndexFileStartsWithRam
    BY DEF IInv
<1> QED BY <1>1, Inductive, PTL

\* The list a vector is on is the first one that a query equal to it probes.
LEMMA VectorFindable == IInv => EveryVectorIsFindable
<1> SUFFICES ASSUME IInv, NEW i \in 0 .. count - 1
             PROVE  i \in Candidates(embeddings[i])
    BY DEF EveryVectorIsFindable
<1> DEFINE k == centroid_count
           q == embeddings[i]
           h == find_nearest_centroid(q, centroids, k)
<1>1. k \in Nat \ {0} /\ centroids \in [0 .. k - 1 -> Space] /\ q \in Space /\ i \in Slot
    BY SpaceAssumption, BoundsAssumption DEF IInv, TypeOK, Slot
<1>2. lists[h][i] = 1 /\ h \in 0 .. k - 1
    <2>1. h \in 0 .. k - 1
        BY <1>1, NearestExists
    <2> HIDE DEF k
    <2>2. lists[h][i] = IF i < count /\ find_nearest_centroid(q, centroids, k) = h THEN 1 ELSE 0
        BY <1>1, <2>1 DEF IInv, IndexIsExact, build_lists, k
    <2>3. i < count
        BY DEF IInv, TypeOK
    <2> QED BY <2>1, <2>2, <2>3
<1>3. {d \in 0 .. k - 1 : Before(q, centroids, d, h)} = {}
    BY <1>1, NearestExists
<1>4. h \in Probed(q)
    BY <1>2, <1>3, FS_EmptySet, BoundsAssumption DEF Probed
<1> QED BY <1>1, <1>2, <1>4 DEF Candidates

\* search_ probes the list that holds the query itself, if it is stored.
THEOREM VectorsFindable == Spec => []EveryVectorIsFindable
BY Inductive, VectorFindable, PTL

\* search_ reads a probed list, and every list when it may probe them all.
LEMMA SearchCoverage == IInv => SearchCoversStore
<1> SUFFICES ASSUME IInv, NEW q \in Embedding
             PROVE  /\ Candidates(q) \subseteq 0 .. count - 1
                    /\ NProbe >= centroid_count => Candidates(q) = 0 .. count - 1
    BY DEF SearchCoversStore
<1> DEFINE k == centroid_count
           near(i) == find_nearest_centroid(embeddings[i], centroids, k)
<1>1. /\ k \in Nat \ {0} /\ centroids \in [0 .. k - 1 -> Space]
      /\ count \in Nat /\ 0 .. count - 1 \subseteq Slot
      /\ \A i \in 0 .. count - 1 : embeddings[i] \in Space
    BY SpaceAssumption, BoundsAssumption DEF IInv, TypeOK, Slot
<1>2. \A c \in 0 .. k - 1, i \in Slot :
        lists[c][i] = IF i < count /\ near(i) = c THEN 1 ELSE 0
    BY DEF IInv, IndexIsExact, build_lists
<1>3. Probed(q) \subseteq 0 .. k - 1
    BY DEF Probed
<1>4. Candidates(q) \subseteq 0 .. count - 1
    <2> SUFFICES ASSUME NEW i \in Candidates(q) PROVE i \in 0 .. count - 1
        OBVIOUS
    <2>1. i \in Slot /\ \E c \in 0 .. k - 1 : lists[c][i] > 0
        BY <1>3 DEF Candidates
    <2>2. i < count
        BY <1>2, <2>1
    <2> QED BY <1>1, <2>1, <2>2 DEF Slot
<1>5. ASSUME NProbe >= k
      PROVE  0 .. count - 1 \subseteq Candidates(q)
    <2>1. ASSUME NEW c \in 0 .. k - 1 PROVE c \in Probed(q)
        <3> DEFINE others == (0 .. k - 1) \ {c}
                   nearer == {d \in 0 .. k - 1 : Before(q, centroids, d, c)}
        <3>1. IsFiniteSet(0 .. k - 1) /\ Cardinality(0 .. k - 1) = k
            BY <1>1, FS_Interval
        <3>2. IsFiniteSet(others) /\ Cardinality(others) = k - 1
            BY <3>1, FS_RemoveElement
        <3>3. nearer \subseteq others
            <4>1. ~Before(q, centroids, c, c)
                <5>1. Dist[<<q, centroids[c]>>] \in Nat
                    BY <1>1, SpaceAssumption
                <5> QED BY <5>1 DEF Before
            <4> QED BY <4>1
        <3>4. Cardinality(nearer) <= k - 1 /\ Cardinality(nearer) \in Nat
            BY <3>2, <3>3, FS_Subset, FS_CardinalityType
        <3>5. Cardinality(nearer) < NProbe
            BY <1>1, <1>5, <3>4, BoundsAssumption
        <3> QED BY <3>5 DEF Probed
    <2>2. ASSUME NEW i \in 0 .. count - 1 PROVE i \in Candidates(q)
        <3>1. near(i) \in 0 .. k - 1 /\ i \in Slot /\ i < count
            BY <1>1, NearestExists
        <3>2. lists[near(i)][i] = 1
            BY <1>2, <3>1
        <3> HIDE DEF near
        <3> QED BY <2>1, <3>1, <3>2 DEF Candidates
    <2> QED BY <2>2
<1> QED BY <1>4, <1>5

\* search_ never reads embeddings_ outside the store, and misses nothing when
\* it probes every list.
THEOREM SearchCovers == Spec => []SearchCoversStore
BY Inductive, SearchCoverage, PTL

\* What a swap with the last element and a pop do to the set of slots that
\* match: the target is gone, and the last slot's match is at the target.
LEMMA PopCount ==
    ASSUME NEW n \in Nat \ {0}, NEW target \in 0 .. n - 1,
           NEW A \in SUBSET (0 .. n - 1), NEW B \in SUBSET (0 .. n - 2),
           \A j \in 0 .. n - 2 : j \in B <=> IF j = target THEN n - 1 \in A ELSE j \in A
    PROVE  Cardinality(B) = Cardinality(A) - IF target \in A THEN 1 ELSE 0
<1> DEFINE C == A \ {target}
<1>1. IsFiniteSet(A) /\ Cardinality(A) \in Nat
    <2>1. IsFiniteSet(0 .. n - 1)
        BY FS_Interval
    <2>2. IsFiniteSet(A)
        BY <2>1, FS_Subset
    <2> QED BY <2>2, FS_CardinalityType
<1>2. /\ IsFiniteSet(C)
      /\ Cardinality(C) = IF target \in A THEN Cardinality(A) - 1 ELSE Cardinality(A)
    BY <1>1, FS_RemoveElement
<1>3. Cardinality(C) \in Nat
    BY <1>2, FS_CardinalityType
<1>0. \A j : j \in 0 .. n - 2 <=> j \in 0 .. n - 1 /\ j # n - 1
    OBVIOUS
<1>4. CASE n - 1 \notin C
    <2>1. ASSUME NEW j PROVE j \in B <=> j \in C
        <3>1. CASE j \in 0 .. n - 2
            BY <1>0, <1>4, <3>1
        <3>2. CASE j \notin 0 .. n - 2
            BY <1>0, <1>4, <3>2
        <3> QED BY <3>1, <3>2
    <2>2. B = C
        BY <2>1
    <2> QED BY <1>1, <1>2, <2>2
<1>5. CASE n - 1 \in C
    <2>0. target # n - 1 /\ n - 1 \in A
        BY <1>5
    <2>1. B = (C \ {n - 1}) \union {target} /\ target \notin C \ {n - 1}
        <3>1. ASSUME NEW j PROVE j \in B <=> j \in (C \ {n - 1}) \union {target}
            <4>1. CASE j \in 0 .. n - 2
                BY <1>0, <2>0, <4>1
            <4>2. CASE j \notin 0 .. n - 2
                BY <1>0, <2>0, <4>2
            <4> QED BY <4>1, <4>2
        <3> QED BY <3>1
    <2> HIDE DEF C
    <2>2. IsFiniteSet(C \ {n - 1}) /\ Cardinality(C \ {n - 1}) = Cardinality(C) - 1
        BY <1>2, <1>5, FS_RemoveElement
    <2>3. Cardinality(B) = Cardinality(C \ {n - 1}) + 1
        BY <2>1, <2>2, FS_AddElement
    <2>4. Cardinality(B) = Cardinality(C)
        BY <1>3, <2>2, <2>3
    <2> QED BY <1>1, <1>2, <2>4
<1> QED BY <1>4, <1>5

\* A DELETE takes out one row of its id, and every other row keeps its id,
\* embedding and text together through the swap.
THEOREM DeleteTakesRow == Spec => DeleteTakesOneRow
<1> DEFINE Rows(x, e, t) == RowCount(count, ids, embeddings, text_refs, x, e, t)
           OneRow == \A id \in Id : Delete(id) => \E i \in 0 .. count - 1 :
               /\ ids[i] = id
               /\ \A x \in Id, e \in Embedding, t \in TextRef :
                   RowCount(count', ids', embeddings', text_refs', x, e, t) =
                       Rows(x, e, t)
                       - IF <<x, e, t>> = <<ids[i], embeddings[i], text_refs[i]>> THEN 1 ELSE 0
<1>1. ASSUME IInv PROVE OneRow
    <2> SUFFICES ASSUME NEW id \in Id, Delete(id)
                 PROVE  \E i \in 0 .. count - 1 :
                            /\ ids[i] = id
                            /\ \A x \in Id, e \in Embedding, t \in TextRef :
                                RowCount(count', ids', embeddings', text_refs', x, e, t) =
                                    Rows(x, e, t)
                                    - IF <<x, e, t>> = <<ids[i], embeddings[i], text_refs[i]>> THEN 1 ELSE 0
        OBVIOUS
    <2> DEFINE target == get_index_in_ram(id)
    <2>1. target \in 0 .. count - 1 /\ ids[target] = id
        BY <1>1, IndexInRam DEF IInv, Delete
    <2>2. /\ count' = count - 1
          /\ ids' = SwapPopped(ids, target)
          /\ embeddings' = SwapPopped(embeddings, target)
          /\ text_refs' = SwapPopped(text_refs, target)
        BY DEF Delete, remove_entry
    <2>3. count \in Nat \ {0}
        BY <1>1, <2>1, BoundsAssumption DEF IInv, TypeOK
    <2> HIDE DEF target
    <2>4. ASSUME NEW x \in Id, NEW e \in Embedding, NEW t \in TextRef
          PROVE  RowCount(count', ids', embeddings', text_refs', x, e, t) =
                     Rows(x, e, t)
                     - IF <<x, e, t>> = <<ids[target], embeddings[target], text_refs[target]>> THEN 1 ELSE 0
        <3> DEFINE A == {i \in 0 .. count - 1 : ids[i] = x /\ embeddings[i] = e /\ text_refs[i] = t}
                   B == {i \in 0 .. count - 2 : ids'[i] = x /\ embeddings'[i] = e /\ text_refs'[i] = t}
        <3>1. \A j \in 0 .. count - 2 : j \in B <=> IF j = target THEN count - 1 \in A ELSE j \in A
            BY <2>1, <2>2, <2>3 DEF SwapPopped
        <3>2. RowCount(count', ids', embeddings', text_refs', x, e, t) = Cardinality(B)
            <4>1. count' - 1 = count - 2
                BY <2>2, <2>3
            <4> QED BY <4>1 DEF RowCount
        <3>3. Rows(x, e, t) = Cardinality(A)
            BY DEF RowCount
        <3>4. target \in A <=> <<x, e, t>> = <<ids[target], embeddings[target], text_refs[target]>>
            BY <2>1
        <3>5. A \in SUBSET (0 .. count - 1) /\ B \in SUBSET (0 .. count - 2)
            OBVIOUS
        <3> HIDE DEF A, B
        <3>6. Cardinality(B) = Cardinality(A) - IF target \in A THEN 1 ELSE 0
            BY <2>1, <2>3, <3>1, <3>5, PopCount
        <3> QED BY <3>2, <3>3, <3>4, <3>6
    <2> QED BY <2>1, <2>4
<1>2. IInv /\ [Next]_vars => [OneRow]_vars
    BY <1>1
<1>3. Spec => [][OneRow]_vars
    BY <1>2, Inductive, PTL DEF Spec
<1> QED BY <1>3 DEF DeleteTakesOneRow
==============================================================================
