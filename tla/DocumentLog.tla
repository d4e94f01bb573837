----------------------------- MODULE DocumentLog -----------------------------
(***************************************************************************)
(* What the engine's storage promises: a log of documents, in the order    *)
(* they were inserted, from which one document can be removed.             *)
(***************************************************************************)
EXTENDS Naturals, Sequences

CONSTANTS Doc,      \* the documents: id, record and text
          IdOf(_)   \* the id of a document

VARIABLE docs

Init == docs = <<>>

Add(d) == docs' = Append(docs, d)

\* The first document of the id leaves the log; the order of the rest stays.
Remove(id) ==
    \E k \in DOMAIN docs :
        /\ IdOf(docs[k]) = id
        /\ \A j \in 1 .. k - 1 : IdOf(docs[j]) # id
        /\ docs' = SubSeq(docs, 1, k - 1) \o SubSeq(docs, k + 1, Len(docs))

Next == \/ \E d \in Doc : Add(d)
        \/ \E d \in Doc : Remove(IdOf(d))

Spec == Init /\ [][Next]_docs
=============================================================================
