------------------------------- MODULE Database -------------------------------
(***************************************************************************)
(* What the server promises to its clients: one collection of documents on *)
(* which every command takes effect at one moment between the moment it is *)
(* taken up and its reply, and one reply per command, in the order the     *)
(* connection sent them.  A command the server does not know gets none.    *)
(*                                                                         *)
(* The promise is not whole.  An INSERT or DELETE that is answered with an *)
(* error may have done half of its work: its id is unsure until a LOAD, and*)
(* nothing is said of what commands do to unsure ids.  A compaction moves  *)
(* the texts, after which a QUERY may answer with another text until the   *)
(* next LOAD; if it fails it may close the files, after which no text can  *)
(* be read and a LOAD forgets every document.                              *)
(***************************************************************************)
EXTENDS Naturals, Sequences

CONSTANTS Conn, Id, Val, NoText, Zero, Request, NoRequest

VARIABLES
    docs,           \* the documents: id and vector with text, of ids not unsure
    unsure,         \* ids that an error has left half inserted or half deleted
    moved,          \* ids of documents whose text a compaction has moved
    open,           \* the files are open
    online,         \* the client holds its end of the connection open
    calls,          \* commands sent and not yet taken up
    current,        \* the command being worked on
    result,         \* its result, once it has taken effect
    answered        \* how many replies have been delivered

Plain(kind) == [kind |-> kind, hits |-> {}]
NoResult == Plain("none")

db == <<docs, unsure, moved, open>>

Has(id) == \E d \in docs : d.id = id
Without(id) == {d \in docs : d.id # id}

Init ==
    /\ docs \subseteq [id : Id, val : Val] /\ \A d, e \in docs : d.id = e.id => d = e
    /\ unsure = {} /\ moved = {} /\ open = TRUE
    /\ online = [c \in Conn |-> FALSE]
    /\ calls = [c \in Conn |-> <<>>]
    /\ current = [c \in Conn |-> NoRequest]
    /\ result = [c \in Conn |-> NoResult]
    /\ answered = [c \in Conn |-> 0]

Connect(c) ==
    /\ online' = [online EXCEPT ![c] = TRUE]
    /\ UNCHANGED <<db, calls, current, result, answered>>

Quit(c) ==
    /\ online' = [online EXCEPT ![c] = FALSE]
    /\ UNCHANGED <<db, calls, current, result, answered>>

Call(c, r) ==
    /\ online[c]
    /\ calls' = [calls EXCEPT ![c] = Append(@, r)]
    /\ UNCHANGED <<db, online, current, result, answered>>

Take(c) ==
    /\ current[c] = NoRequest /\ calls[c] # <<>>
    /\ current' = [current EXCEPT ![c] = Head(calls[c])]
    /\ calls' = [calls EXCEPT ![c] = Tail(@)]
    /\ UNCHANGED <<db, online, result, answered>>

Ignore(c) ==
    /\ current[c] # NoRequest /\ current[c].op = "unknown"
    /\ current' = [current EXCEPT ![c] = NoRequest]
    /\ UNCHANGED <<db, online, calls, result, answered>>

Replies(c, r) == result' = [result EXCEPT ![c] = r]

\* The command of c has failed and left its id unsure.
FailsHalfway(c) ==
    /\ docs' = Without(current[c].id)
    /\ unsure' = unsure \union {current[c].id}
    /\ Replies(c, Plain("error"))
    /\ UNCHANGED <<moved, open>>

Inserted(c) ==
    LET id == current[c].id IN
    /\ current[c].op = "INSERT"
    /\ \/ (Has(id) \/ id \in unsure) /\ Replies(c, Plain("duplicate")) /\ UNCHANGED db
       \/ ~Has(id) /\ Replies(c, Plain("error")) /\ UNCHANGED db
       \/ ~Has(id) /\ FailsHalfway(c)
       \/ /\ ~Has(id) /\ current[c].val # Zero
          /\ docs' = IF id \in unsure THEN docs ELSE docs \union {[id |-> id, val |-> current[c].val]}
          /\ moved' = moved \ {id}
          /\ \E kind \in {"ok", "advice"} : Replies(c, Plain(kind))
          /\ UNCHANGED <<unsure, open>>

Deleted(c) ==
    LET id == current[c].id IN
    /\ current[c].op = "DELETE"
    /\ \/ Replies(c, Plain("error")) /\ UNCHANGED db
       \/ (Has(id) \/ id \in unsure) /\ FailsHalfway(c)
       \/ /\ Has(id) \/ id \in unsure
          /\ docs' = Without(id)
          /\ Replies(c, Plain("ok"))
          /\ UNCHANGED <<unsure, moved, open>>

\* A DELETE that was successful compacts, or fails to and closes the files.
Compacted(c) ==
    /\ current[c] # NoRequest /\ current[c].op = "DELETE" /\ result[c] = Plain("ok")
    /\ \/ /\ \E some \in SUBSET unsure : moved' = {d.id : d \in docs} \union some
          /\ UNCHANGED open
       \/ open' = FALSE /\ UNCHANGED moved
    /\ UNCHANGED <<docs, unsure, online, calls, current, result, answered>>

\* What QUERY answers with for document d.
Answers(d) ==
    IF ~open THEN {NoText} ELSE IF d.id \in moved THEN Val \union {NoText} ELSE {d.val}

\* The hits of one QUERY are documents that are there at one moment, none of
\* them twice, with their own texts, and there is one unless there is no
\* document at all.
Queried(c) ==
    /\ current[c].op = "QUERY"
    /\ \/ current[c].val = Zero /\ Replies(c, Plain("error"))
       \/ /\ current[c].val # Zero
          /\ \E hits \in SUBSET [id : Id, val : Val \union {NoText}] :
              /\ \A h \in hits : h.id \in unsure \/ \E d \in docs : d.id = h.id /\ h.val \in Answers(d)
              /\ \A g, h \in hits : g.id = h.id => g = h \/ g.id \in unsure
              /\ docs # {} => hits # {}
              /\ Replies(c, [kind |-> "ok", hits |-> hits])
    /\ UNCHANGED db

\* OPTIMIZE and SAVE change no document.
Maintained(c) ==
    /\ current[c].op \in {"OPTIMIZE", "SAVE"}
    /\ Replies(c, Plain("ok"))
    /\ UNCHANGED db

\* LOAD changes no document either.  It may settle what became of an unsure id.
Loaded(c) ==
    /\ current[c].op = "LOAD"
    /\ unsure' \in SUBSET unsure
    /\ \E settled \in SUBSET [id : unsure \ unsure', val : Val] :
        /\ \A d, e \in settled : d.id = e.id => d = e
        /\ docs' = docs \union settled
    /\ moved' = {}
    /\ Replies(c, Plain("ok"))
    /\ UNCHANGED open

\* Unless it finds the files closed.
Forgotten(c) ==
    /\ current[c] # NoRequest /\ current[c].op = "LOAD" /\ ~open
    /\ docs' = {}
    /\ UNCHANGED <<unsure, moved, open, online, calls, current, result, answered>>

Refused(c) == current[c].op = "bad" /\ Replies(c, Plain("error")) /\ UNCHANGED db

Effect(c) ==
    /\ current[c] # NoRequest /\ result[c] = NoResult
    /\ \/ Inserted(c) \/ Deleted(c) \/ Queried(c)
       \/ Maintained(c) \/ Loaded(c) \/ Refused(c)
    /\ UNCHANGED <<online, calls, current, answered>>

\* The reply is delivered, or lost if the client has gone.
Return(c) ==
    /\ result[c] # NoResult
    /\ result' = [result EXCEPT ![c] = NoResult]
    /\ current' = [current EXCEPT ![c] = NoRequest]
    /\ answered' = IF online[c] THEN [answered EXCEPT ![c] = @ + 1] ELSE answered
    /\ UNCHANGED <<db, online, calls>>

\* What a client sent before it left may be lost.
Hangup(c) ==
    /\ ~online[c]
    /\ calls' = [calls EXCEPT ![c] = <<>>]
    /\ UNCHANGED <<db, online, current, result, answered>>

Next == \E c \in Conn :
    \/ Connect(c) \/ Quit(c) \/ Take(c) \/ Ignore(c)
    \/ Effect(c) \/ Compacted(c) \/ Forgotten(c) \/ Return(c) \/ Hangup(c)
    \/ \E r \in Request : Call(c, r)

db_vars == <<db, online, calls, current, result, answered>>

Spec == Init /\ [][Next]_db_vars
=============================================================================
