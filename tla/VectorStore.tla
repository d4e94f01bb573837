----------------------------- MODULE VectorStore -----------------------------
(***************************************************************************)
(* The RAM half of the engine: Vector_store (the parallel arrays ids_,     *)
(* embeddings_, text_offsets_/text_lengths_ and the metadata_ map) and the *)
(* IVF_index attached to it (centroids and inverted lists), with the       *)
(* server code that drives the two (INSERT, DELETE, OPTIMIZE, LOAD, the    *)
(* boot sequence of Vector_Server::run) and the index file in which the    *)
(* centroids survive a restart.                                            *)
(*                                                                         *)
(* Abstractions.  An embedding is a point of Space and Dist is the squared *)
(* distance of two points: only comparisons of distances matter.  k-means  *)
(* may leave its centroids anywhere in Space.  An inverted list is the     *)
(* number of times each RAM index occurs on it: the order inside a list    *)
(* only breaks ties between equal similarities.  Text offset and length    *)
(* are one value of TextRef.  metadata_ is the set of ids that own an      *)
(* inner map.  What LOAD and the boot read from disk is any array of rows: *)
(* duplicate ids included, since a crash can leave them in the file.       *)
(* Each command is one step: it runs under store_mutex_ from its first to  *)
(* its last access.                                                        *)
(***************************************************************************)
EXTENDS Integers, FiniteSets

CONSTANTS
    Id,             \* ids a client may use
    TextRef,        \* where a text lies in the text file: offset and length
    Row,            \* the vectors there may be: id, embedding and text
    Space,          \* the positions an embedding or a centroid can have
    Embedding,      \* the unit vectors
    Origin,         \* the zero vector a centroid starts as
    Dist,           \* IVF_index::euclidean_distance on Space
    MaxVectors,     \* bound of the model on the number of stored vectors
    MaxCentroids,   \* schema::MAX_CENTROIDS
    MaxSample,      \* schema::MAX_KMEANS_SAMPLE
    NProbe          \* schema::MAX_PROBES_SEARCH

ASSUME RowAssumption == Row \subseteq [id : Id, embedding : Embedding, text : TextRef]

ASSUME SpaceAssumption ==
    /\ Embedding \subseteq Space
    /\ Origin \in Space
    /\ Dist \in [Space \X Space -> Nat]

ASSUME BoundsAssumption ==
    /\ MaxVectors \in Nat
    /\ MaxCentroids \in Nat \ {0}
    /\ MaxSample \in Nat \ {0}
    /\ NProbe \in Nat \ {0}

VARIABLES
    up,             \* the server process is running
    count,          \* count_
    ids,            \* ids_
    embeddings,     \* embeddings_
    text_refs,      \* text_offsets_ and text_lengths_
    metadata,       \* the keys of metadata_
    centroid_count, \* IVF_index::centroid_count
    centroids,      \* IVF_index::centroids, the first centroid_count of them
    lists,          \* IVF_index::lists
    last_build_at,  \* Vector_Server::last_build_at
    index_file      \* the index file: last_build_at and the centroids

rows == <<count, ids, embeddings, text_refs, metadata>>
topology == <<centroid_count, centroids, lists, last_build_at>>
vars == <<up, rows, topology, index_file>>

Slot == 0 .. MaxVectors - 1
Smaller(a, b) == IF a < b THEN a ELSE b
Larger(a, b) == IF a < b THEN b ELSE a

-----------------------------------------------------------------------------
(* IVF_index: nearest centroid, inverted lists, k-means, search.           *)

\* Centroid c is before d for point e: nearer, or as near with a lower index.
Before(e, cents, c, d) ==
    \/ Dist[<<e, cents[c]>>] < Dist[<<e, cents[d]>>]
    \/ Dist[<<e, cents[c]>>] = Dist[<<e, cents[d]>>] /\ c < d

\* Mutant: a comparison with <= in the loop keeps the last of equal centroids.
find_nearest_centroid_last(e, cents, k) ==
    CHOOSE c \in 0 .. k - 1 : \A d \in 0 .. k - 1 :
        /\ Dist[<<e, cents[c]>>] <= Dist[<<e, cents[d]>>]
        /\ d > c => Dist[<<e, cents[c]>>] < Dist[<<e, cents[d]>>]

\* The nearest of the first k centroids, the lowest index among equals.
find_nearest_centroid(e, cents, k) ==
    CHOOSE c \in 0 .. k - 1 : \A d \in 0 .. k - 1 : ~Before(e, cents, d, c)

add_(l, index, e, cents, k) ==
    [l EXCEPT ![find_nearest_centroid(e, cents, k)][index] = @ + 1]

\* Removes one occurrence of index, from the first list that holds it.
delete_(l, index) ==
    LET Holding == {c \in DOMAIN l : l[c][index] > 0}
    IN  IF Holding = {} THEN l
        ELSE [l EXCEPT ![CHOOSE c \in Holding : \A d \in Holding : c <= d][index] = @ - 1]

\* The lists as computed from scratch for the first n embeddings.
build_lists(n, embs, cents, k) ==
    [c \in 0 .. k - 1 |-> [i \in Slot |->
        IF i < n /\ find_nearest_centroid(embs[i], cents, k) = c THEN 1 ELSE 0]]

\* How many centroids build_ keeps for n vectors: never more than before.
BuiltCount(n) ==
    IF n = 0 THEN centroid_count
             ELSE Smaller(centroid_count, Smaller(n, MaxSample))

\* Where k-means can leave k centroids: at the origin when there is no vector.
KMeans(n, k) == IF n = 0 THEN {[c \in 0 .. k - 1 |-> Origin]} ELSE [0 .. k - 1 -> Space]

\* The lists a query at q reads: its NProbe nearest centroids.
Probed(q) ==
    {c \in 0 .. centroid_count - 1 :
        Cardinality({d \in 0 .. centroid_count - 1 : Before(q, centroids, d, c)}) < NProbe}

\* The RAM indices whose embedding search_ compares with the query.
Candidates(q) == {i \in Slot : \E c \in Probed(q) : lists[c][i] > 0}

-----------------------------------------------------------------------------
(* Vector_store.                                                           *)

id_exists(id) == \E i \in 0 .. count - 1 : ids[i] = id

get_index_in_ram(id) ==
    CHOOSE i \in 0 .. count - 1 : ids[i] = id /\ \A j \in 0 .. i - 1 : ids[j] # id

\* An array of count elements with x pushed at its end.
Pushed(a, x) == [i \in 0 .. count |-> IF i = count THEN x ELSE a[i]]

\* Mutant: the last element is copied and never popped.
SwapPopped_no_pop(a, target) ==
    [i \in 0 .. count - 1 |-> IF i = target THEN a[count - 1] ELSE a[i]]

\* An array of count elements whose last one replaces the one at target.
SwapPopped(a, target) ==
    [i \in 0 .. count - 2 |-> IF i = target THEN a[count - 1] ELSE a[i]]

make_entry(id, e, t) ==
    /\ ids' = Pushed(ids, id)
    /\ embeddings' = Pushed(embeddings, e)
    /\ text_refs' = Pushed(text_refs, t)
    /\ metadata' = metadata \union {id}
    /\ count' = count + 1
    /\ lists' = add_(lists, count, e, centroids, centroid_count)

\* Mutant: the old slot of the moved vector stays on its list.
ListsAfterRemove_keeps_last(target, last) ==
    IF target = last
    THEN delete_(lists, target)
    ELSE add_(delete_(lists, target), target, embeddings[last], centroids, centroid_count)

\* Mutant: the moved vector does not enter the lists again.
ListsAfterRemove_forgets_moved(target, last) ==
    delete_(delete_(lists, target), last)

\* What remove_entry leaves of the lists: both slots leave the index, and the
\* vector moved from the last slot to target enters it again.
ListsAfterRemove(target, last) ==
    IF target = last
    THEN delete_(lists, target)
    ELSE add_(delete_(delete_(lists, target), last), target,
              embeddings[last], centroids, centroid_count)

\* Mutant: the inner metadata map is not erased.
remove_entry_keeps_metadata(id) ==
    LET target == get_index_in_ram(id)
    IN  /\ lists' = ListsAfterRemove(target, count - 1)
        /\ ids' = SwapPopped(ids, target)
        /\ embeddings' = SwapPopped(embeddings, target)
        /\ text_refs' = SwapPopped(text_refs, target)
        /\ metadata' = metadata
        /\ count' = count - 1

\* Mutant: text offset and length of the moved vector are popped, not moved.
remove_entry_pops_text(id) ==
    LET target == get_index_in_ram(id)
    IN  /\ lists' = ListsAfterRemove(target, count - 1)
        /\ ids' = SwapPopped(ids, target)
        /\ embeddings' = SwapPopped(embeddings, target)
        /\ text_refs' = SwapPopped(text_refs, count - 1)
        /\ metadata' = metadata \ {id}
        /\ count' = count - 1

remove_entry(id) ==
    LET target == get_index_in_ram(id)
    IN  /\ lists' = ListsAfterRemove(target, count - 1)
        /\ ids' = SwapPopped(ids, target)
        /\ embeddings' = SwapPopped(embeddings, target)
        /\ text_refs' = SwapPopped(text_refs, target)
        /\ metadata' = metadata \ {id}
        /\ count' = count - 1

RowEmbeddings(n, rs) == [i \in 0 .. n - 1 |-> rs[i].embedding]

\* clear() and one make_entry for each of the n rows read from disk.
FillRows(n, rs) ==
    /\ count' = n
    /\ ids' = [i \in 0 .. n - 1 |-> rs[i].id]
    /\ embeddings' = RowEmbeddings(n, rs)
    /\ text_refs' = [i \in 0 .. n - 1 |-> rs[i].text]
    /\ metadata' = {rs[i].id : i \in 0 .. n - 1}

-----------------------------------------------------------------------------
(* The index file: written over from its start and never truncated.        *)

NoIndexFile == [last_build_at |-> 0, size |-> 0, centroids |-> [i \in 0 .. -1 |-> Origin]]

\* write_index_ of the first k centroids over what the file already holds.
WriteIndex(file, n, cents, k) ==
    [last_build_at |-> n,
     size |-> Larger(k, file.size),
     centroids |-> [c \in 0 .. Larger(k, file.size) - 1 |->
                       IF c < k THEN cents[c] ELSE file.centroids[c]]]

\* Mutant: the file is written before build_ has moved the centroids.
BuildAndPersist_writes_first(n, embs) ==
    \E cents \in KMeans(n, BuiltCount(n)) :
        /\ centroid_count' = BuiltCount(n)
        /\ centroids' = cents
        /\ lists' = build_lists(n, embs, cents, BuiltCount(n))
        /\ last_build_at' = n
        /\ index_file' = WriteIndex(index_file, n, centroids, centroid_count)

\* build_ on n vectors, then last_build_at and the index file.
BuildAndPersist(n, embs) ==
    \E cents \in KMeans(n, BuiltCount(n)) :
        /\ centroid_count' = BuiltCount(n)
        /\ centroids' = cents
        /\ lists' = build_lists(n, embs, cents, BuiltCount(n))
        /\ last_build_at' = n
        /\ index_file' = WriteIndex(index_file, n, cents, BuiltCount(n))

\* set_centroids from the file, then build_lists, without running k-means.
RestoreIndex(n, embs) ==
    /\ centroid_count' = index_file.size
    /\ centroids' = index_file.centroids
    /\ lists' = build_lists(n, embs, index_file.centroids, index_file.size)
    /\ last_build_at' = index_file.last_build_at
    /\ UNCHANGED index_file

-----------------------------------------------------------------------------
(* What the server does with them.                                         *)

\* RAM of a process that has just been started: an IVF_index that will ask
\* for MaxCentroids centroids, and nothing else.
EmptyArray == [i \in 0 .. -1 |-> Origin]
NoCentroids == [c \in 0 .. MaxCentroids - 1 |-> Origin]
NoLists == [c \in 0 .. MaxCentroids - 1 |-> [i \in Slot |-> 0]]

Init ==
    /\ up = FALSE
    /\ count = 0
    /\ ids = EmptyArray
    /\ embeddings = EmptyArray
    /\ text_refs = EmptyArray
    /\ metadata = {}
    /\ centroid_count = MaxCentroids
    /\ centroids = NoCentroids
    /\ lists = NoLists
    /\ last_build_at = 0
    /\ index_file = NoIndexFile

\* The process is gone, and its RAM with it.
Die ==
    /\ up' = FALSE
    /\ count' = 0
    /\ ids' = EmptyArray
    /\ embeddings' = EmptyArray
    /\ text_refs' = EmptyArray
    /\ metadata' = {}
    /\ centroid_count' = MaxCentroids
    /\ centroids' = NoCentroids
    /\ lists' = NoLists
    /\ last_build_at' = 0

\* Auto-load, then the index: rebuilt when the file holds no centroid.
Boot ==
    /\ ~up
    /\ up' = TRUE
    /\ \E n \in 0 .. MaxVectors : \E rs \in [0 .. n - 1 -> Row] :
        /\ FillRows(n, rs)
        /\ IF index_file.size = 0
           THEN BuildAndPersist(n, RowEmbeddings(n, rs))
           ELSE RestoreIndex(n, RowEmbeddings(n, rs))

Insert ==
    /\ up /\ count < MaxVectors
    /\ \E r \in Row :
        /\ ~id_exists(r.id)
        /\ make_entry(r.id, r.embedding, r.text)
    /\ UNCHANGED <<up, centroid_count, centroids, last_build_at, index_file>>

Delete(id) ==
    /\ up
    /\ id_exists(id)
    /\ remove_entry(id)
    /\ UNCHANGED <<up, centroid_count, centroids, last_build_at, index_file>>

Optimize ==
    /\ up
    /\ BuildAndPersist(count, embeddings)
    /\ UNCHANGED <<up, rows>>

Load ==
    /\ up
    /\ \E n \in 0 .. MaxVectors : \E rs \in [0 .. n - 1 -> Row] :
        /\ FillRows(n, rs)
        /\ BuildAndPersist(n, RowEmbeddings(n, rs))
    /\ UNCHANGED up

\* The process is killed: RAM is gone, the index file stays.
Crash ==
    /\ up
    /\ Die
    /\ UNCHANGED index_file

\* Killed in OPTIMIZE, LOAD or a rebuilding boot, after write_index_last_build
\* and before write_index_.
CrashInBuild ==
    /\ up \/ index_file.size = 0
    /\ \E n \in 0 .. MaxVectors : index_file' = [index_file EXCEPT !.last_build_at = n]
    /\ Die

Next ==
    \/ Boot
    \/ Insert
    \/ \E id \in Id : Delete(id)
    \/ Optimize
    \/ Load
    \/ Crash
    \/ CrashInBuild

Spec == Init /\ [][Next]_vars

-----------------------------------------------------------------------------
(* Properties.                                                             *)

\* The state has the types of the C++ members, and the parallel arrays have
\* one length.
TypeOK ==
    /\ up \in BOOLEAN
    /\ count \in 0 .. MaxVectors
    /\ ids \in [0 .. count - 1 -> Id]
    /\ embeddings \in [0 .. count - 1 -> Embedding]
    /\ text_refs \in [0 .. count - 1 -> TextRef]
    /\ metadata \subseteq Id
    /\ centroid_count \in 1 .. MaxCentroids
    /\ centroids \in [0 .. centroid_count - 1 -> Space]
    /\ lists \in [0 .. centroid_count - 1 -> [Slot -> Nat]]
    /\ last_build_at \in 0 .. MaxVectors
    /\ index_file \in [last_build_at : 0 .. MaxVectors, size : 0 .. MaxCentroids,
                       centroids : UNION {[0 .. k - 1 -> Space] : k \in 0 .. MaxCentroids}]
    /\ index_file.centroids \in [0 .. index_file.size - 1 -> Space]

\* The lists that INSERT and DELETE keep up to date one entry at a time
\* (add_, delete_, the slot that remove_entry moves) are at every moment the
\* lists that build_lists would compute from scratch.
IndexIsExact == lists = build_lists(count, embeddings, centroids, centroid_count)

\* search_ never returns an index outside the store, whose embedding would be
\* read past the end of embeddings_, and a search that probes every list
\* misses no vector.
SearchCoversStore ==
    \A q \in Embedding :
        /\ Candidates(q) \subseteq 0 .. count - 1
        /\ NProbe >= centroid_count => Candidates(q) = 0 .. count - 1

\* However few lists search_ probes, a query equal to a stored vector has that
\* vector among its candidates: probing and list maintenance agree on ties.
EveryVectorIsFindable == \A i \in 0 .. count - 1 : i \in Candidates(embeddings[i])

\* No inner metadata map outlives the last vector with its id.
MetadataHasOwner == \A id \in metadata : id_exists(id)

\* While the server runs, the index file starts with the centroids in RAM, in
\* their order, and carries their last_build_at: every OPTIMIZE reaches the
\* file.  No more is true.  The file is never truncated and a boot takes as many
\* centroids as it is long, so a build that keeps fewer than one before leaves
\* old ones, or the zeros of an empty boot, which the next boot brings back.
IndexFileStartsWithRam ==
    up => /\ index_file.last_build_at = last_build_at
          /\ index_file.size >= centroid_count
          /\ \A c \in 0 .. centroid_count - 1 : index_file.centroids[c] = centroids[c]

\* How many rows of the store are <<id, e, t>>, in arrays of n elements.
RowCount(n, idarr, embarr, refarr, id, e, t) ==
    Cardinality({i \in 0 .. n - 1 : idarr[i] = id /\ embarr[i] = e /\ refarr[i] = t})

\* A DELETE takes out one row, of the id it names, and every other vector
\* keeps its own id, embedding and text although one of them changes slot.
DeleteTakesOneRow ==
    [][\A id \in Id : Delete(id) => \E i \in 0 .. count - 1 :
        /\ ids[i] = id
        /\ \A x \in Id, e \in Embedding, t \in TextRef :
            RowCount(count', ids', embeddings', text_refs', x, e, t) =
                RowCount(count, ids, embeddings, text_refs, x, e, t)
                - IF <<x, e, t>> = <<ids[i], embeddings[i], text_refs[i]>> THEN 1 ELSE 0]_vars
=============================================================================
