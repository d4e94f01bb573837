-------------------------------- MODULE Query --------------------------------
(***************************************************************************)
(* QUERY: what a client gets back for a vector, a top_k and metadata       *)
(* filters, from a store that INSERT, DELETE, OPTIMIZE, LOAD and restarts  *)
(* have shaped (VectorStore).  Added to that module: the contents of       *)
(* metadata_ and the live records of the entry file, from which LOAD and   *)
(* the boot fill RAM.                                                      *)
(*                                                                         *)
(* Metadata is a sequence of pairs, the used slots of meta_data[].  A key  *)
(* or value is a member of Word; Full are those of META_DATA_LENGTH bytes, *)
(* which have no terminating zero in their slot.  A reply is a sequence of *)
(* RAM indices; where similarities are equal, std::sort and partial_sort   *)
(* may leave any order, so an operator returns the set of possible ones.   *)
(***************************************************************************)
EXTENDS VectorStore, Sequences

CONSTANTS
    Word,           \* the keys and values of metadata
    Full,           \* those that fill their slot to the last byte
    MaxPairs,       \* schema::META_DATA_KP_PAIRS
    Metadata,       \* the pairs an INSERT may carry
    Filters         \* the pairs a QUERY may carry

Pair == [key : Word, val : Word]
Pairs == UNION {[1 .. n -> Pair] : n \in 0 .. MaxPairs}

ASSUME MetadataAssumption ==
    /\ Full \subseteq Word
    /\ MaxPairs \in Nat \ {0}
    /\ Metadata \subseteq Pairs
    /\ Filters \subseteq Pairs

\* What the comparison of squared distances needs of the unit vectors.
ASSUME DistanceAssumption ==
    \A e, d \in Embedding : Dist[<<e, d>>] = 0 <=> e = d

VARIABLES
    records,        \* the live records of the entry file, in file order
    meta_map,       \* metadata_: the inner map of every id that owns one
    mixed           \* RAM was last filled from records of unlike pair counts

query_vars == <<vars, records, meta_map, mixed>>

-----------------------------------------------------------------------------
(* Metadata, from its slots to the map.                                    *)

\* The inner map set_metadata builds: of equal keys the last one stays.
InnerMap(slots) ==
    [key \in {slots[m].key : m \in DOMAIN slots} |->
        slots[CHOOSE m \in DOMAIN slots :
                /\ slots[m].key = key
                /\ \A n \in DOMAIN slots : n > m => slots[n].key # key].val]

\* The slots of the Vector that LOAD and the boot reuse from record to record:
\* entry_to_vector copies the used ones and leaves the others as they were.
VectorSlots(n) ==
    LET Users(m) == {j \in 1 .. n : m <= Len(records[j].pairs)}
        used == {m \in 1 .. MaxPairs : Users(m) # {}}
        last(m) == CHOOSE j \in Users(m) : \A i \in Users(m) : i <= j
    IN  [m \in used |-> records[last(m)].pairs[m]]

\* metadata_ after the fill.
FilledMap == [id \in {records[n].id : n \in DOMAIN records} |->
                 InnerMap(VectorSlots(CHOOSE n \in DOMAIN records : records[n].id = id))]

\* std::string(key) of a full key runs on into the value behind it, and of a
\* full value into the next slot: right only if that slot is there and unused.
KeyReadable(f, m) == f[m].key \notin Full
ValueReadable(f, m) == f[m].val \notin Full \/ (m = Len(f) /\ m < MaxPairs)

\* Mutant: one pair that matches is enough.
get_matching_indices_any(f) ==
    {i \in 0 .. count - 1 : f = <<>> \/
        (/\ ids[i] \in DOMAIN meta_map
         /\ \E m \in DOMAIN f :
             /\ KeyReadable(f, m) /\ ValueReadable(f, m)
             /\ f[m].key \in DOMAIN meta_map[ids[i]]
             /\ meta_map[ids[i]][f[m].key] = f[m].val)}

get_matching_indices(f) ==
    {i \in 0 .. count - 1 : f = <<>> \/
        (/\ ids[i] \in DOMAIN meta_map
         /\ \A m \in DOMAIN f :
             /\ KeyReadable(f, m) /\ ValueReadable(f, m)
             /\ f[m].key \in DOMAIN meta_map[ids[i]]
             /\ meta_map[ids[i]][f[m].key] = f[m].val)}

-----------------------------------------------------------------------------
(* Ranking.                                                                *)

\* On unit vectors a higher dot product is a smaller distance.
MoreSimilar(q, i, j) == Dist[<<q, embeddings[i]>>] < Dist[<<q, embeddings[j]>>]

Hits(answer) == {answer[n] : n \in DOMAIN answer}

\* Mutant: an unsorted prefix.
TopK_unsorted(q, S, k) ==
    {s \in [1 .. Smaller(k, Cardinality(S)) -> S] :
        \A m, n \in DOMAIN s : m < n => s[m] # s[n]}

\* The first k elements of S in descending order of similarity.
TopK(q, S, k) ==
    {s \in [1 .. Smaller(k, Cardinality(S)) -> S] :
        /\ \A m, n \in DOMAIN s : m < n => s[m] # s[n] /\ ~MoreSimilar(q, s[n], s[m])
        /\ \A i \in S \ Hits(s), n \in DOMAIN s : ~MoreSimilar(q, i, s[n])}

search_(q, k) == TopK(q, Candidates(q), k)

\* An empty selection stands for the whole store.
return_k_most_similar(q, k, selected) ==
    TopK(q, IF selected = {} THEN 0 .. count - 1 ELSE selected, k)

\* Mutant: candidates that all fail the filter are returned all the same.
Selected_keeps_candidates(candidates, matching) ==
    IF candidates \intersect matching = {} THEN candidates ELSE candidates \intersect matching

\* The selection the server passes on: the candidates that match, or all that
\* match when no candidate does.  An empty matching list excludes no candidate.
Selected(candidates, matching) ==
    LET filtered == {c \in candidates : matching = {} \/ c \in matching}
    IN  IF filtered = {} THEN matching ELSE filtered

Answers(q, k, f) ==
    LET matching == get_matching_indices(f)
    IN  UNION {return_k_most_similar(q, k, selected) :
                  selected \in {Selected(Hits(c), matching) : c \in search_(q, k)}}

-----------------------------------------------------------------------------
(* The commands that shape the store.                                      *)

RecordRows ==
    [i \in 0 .. Len(records) - 1 |->
        [id |-> records[i + 1].id, embedding |-> records[i + 1].embedding,
         text |-> records[i + 1].text]]

\* clear(), then entry_to_vector and make_entry for every record.
FillFromRecords ==
    /\ FillRows(Len(records), RecordRows)
    /\ meta_map' = FilledMap
    /\ mixed' = \E m, n \in DOMAIN records : Len(records[m].pairs) # Len(records[n].pairs)
    /\ UNCHANGED records

QueryInit ==
    /\ Init
    /\ records = <<>>
    /\ meta_map = [id \in {} |-> InnerMap(<<>>)]
    /\ mixed = FALSE

\* INSERT converts into a Vector of its own: every unused slot is empty.
InsertWithMetadata(r, pairs) ==
    /\ up /\ count < MaxVectors
    /\ ~id_exists(r.id)
    /\ make_entry(r.id, r.embedding, r.text)
    /\ records' = Append(records, [id |-> r.id, embedding |-> r.embedding, text |-> r.text,
                                  pairs |-> pairs])
    /\ meta_map' = [x \in DOMAIN meta_map \union {r.id} |->
                       IF x = r.id THEN InnerMap(pairs) ELSE meta_map[x]]
    /\ UNCHANGED <<up, centroid_count, centroids, last_build_at, index_file, mixed>>

\* The live records once the flag of the n-th one is cleared.
RecordsWithout(n) ==
    [m \in 1 .. Len(records) - 1 |-> IF m < n THEN records[m] ELSE records[m + 1]]

DeleteRecord(id) ==
    /\ Delete(id)
    /\ \E n \in DOMAIN records :
        /\ records[n].id = id
        /\ \A m \in 1 .. n - 1 : records[m].id # id
        /\ records' = RecordsWithout(n)
    /\ meta_map' = [x \in DOMAIN meta_map \ {id} |-> meta_map[x]]
    /\ UNCHANGED mixed

OptimizeIndex == Optimize /\ UNCHANGED <<records, meta_map, mixed>>

LoadRecords ==
    /\ up
    /\ FillFromRecords
    /\ BuildAndPersist(Len(records), RowEmbeddings(Len(records), RecordRows))
    /\ UNCHANGED up

BootFromRecords ==
    /\ ~up
    /\ up' = TRUE
    /\ FillFromRecords
    /\ IF index_file.size = 0
       THEN BuildAndPersist(Len(records), RowEmbeddings(Len(records), RecordRows))
       ELSE RestoreIndex(Len(records), RowEmbeddings(Len(records), RecordRows))

\* A kill that loses no record: those that do are FileManager's subject.
QueryCrash ==
    /\ Crash
    /\ meta_map' = [id \in {} |-> InnerMap(<<>>)]
    /\ mixed' = FALSE
    /\ UNCHANGED records

QueryNext ==
    \/ \E r \in Row, pairs \in Metadata : InsertWithMetadata(r, pairs)
    \/ \E id \in Id : DeleteRecord(id)
    \/ OptimizeIndex
    \/ LoadRecords
    \/ BootFromRecords
    \/ QueryCrash

QuerySpec == QueryInit /\ [][QueryNext]_query_vars

-----------------------------------------------------------------------------
(* Properties.                                                             *)

\* The keys of the metadata map are those VectorStore keeps, and every record
\* has pairs an INSERT can carry.
QueryTypeOK ==
    /\ TypeOK
    /\ DOMAIN meta_map = metadata
    /\ \A id \in metadata : DOMAIN meta_map[id] \subseteq Word
    /\ \A n \in DOMAIN records : records[n] \in
           [id : Id, embedding : Embedding, text : TextRef, pairs : Metadata]
    /\ mixed \in BOOLEAN

\* The pairs as a client means them: of equal keys the last one counts.
HasPair(pairs, p) ==
    \E m \in DOMAIN pairs :
        pairs[m] = p /\ \A n \in DOMAIN pairs : n > m => pairs[n].key # p.key

\* The RAM indices whose record has every pair of the filter.
Meant(f) ==
    {i \in 0 .. count - 1 : \E n \in DOMAIN records :
        /\ records[n].id = ids[i]
        /\ \A m \in DOMAIN f : HasPair(records[n].pairs, f[m])}

Short(f) == \A m \in DOMAIN f : f[m].key \notin Full /\ f[m].val \notin Full

\* As long as RAM was not filled from records with different numbers of pairs,
\* a filter matches only vectors that were inserted with its pairs, and one of
\* short words all of them, through any reuse of ids, swap of rows and reload.
FiltersSeeOwnMetadata ==
    up /\ ~mixed => \A f \in Filters :
        /\ get_matching_indices(f) \subseteq Meant(f)
        /\ Short(f) => get_matching_indices(f) = Meant(f)

\* When some vector satisfies the filter, QUERY returns at least one hit and
\* only hits that satisfy it, whether or not the geometric candidates do.
SatisfiableFilterIsObeyed ==
    up => \A f \in Filters : LET matching == get_matching_indices(f) IN
        matching # {} => \A q \in Embedding, k \in 1 .. MaxVectors :
            \A s \in Answers(q, k, f) : s # <<>> /\ Hits(s) \subseteq matching

\* Without a filter, a query that probes every list returns the k most similar
\* vectors of the store, however they were inserted, moved and reloaded; and
\* with any number of probes, a query equal to a stored embedding has a vector
\* with that embedding as its first hit.
UnfilteredAnswersAreExact ==
    up => \A q \in Embedding, k \in 1 .. MaxVectors : \A s \in Answers(q, k, <<>>) :
        /\ NProbe >= centroid_count => s \in TopK(q, 0 .. count - 1, k)
        /\ (\E i \in 0 .. count - 1 : embeddings[i] = q) =>
               s # <<>> /\ embeddings[s[1]] = q

\* What vector_store.h says of set_metadata ("Maps parsed key-value metadata
\* entries to a specific vector identifier") and protocol.md of INSERT
\* ("Persists one vector, its text payload, and optional metadata"): RAM holds
\* for every vector the metadata it was inserted with, after a reload too.
MetadataIsOwn ==
    up => \A n \in DOMAIN records : meta_map[records[n].id] = InnerMap(records[n].pairs)
=============================================================================
