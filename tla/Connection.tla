------------------------------ MODULE Connection ------------------------------
(***************************************************************************)
(* One Client of vecdb_client.py and the thread of the server that answers *)
(* it: a stream of reply lines, which recv hands over in chunks of any     *)
(* length, and the buffer in which _receive looks for the end of a reply.  *)
(*                                                                         *)
(* A piece is what one send of handle_client puts on the stream, and knows *)
(* the command it answers.  A chunk that ends inside a piece decides       *)
(* nothing that the chunk up to the piece before does not, so chunks are   *)
(* whole pieces.  What commands do is the subject of Server.               *)
(***************************************************************************)
EXTENDS Naturals, Sequences, SequencesExt

CONSTANTS
    Kinds,          \* the commands the caller makes: "QUERY", or one of one line
    HitKinds,       \* the hits texts can make: "hit", "hitEND", "skip"
    ErrorReplies,   \* the error replies of a command of one line
    Timeouts,       \* whether replies may take longer than the timeout
    MaxHits,        \* bound of the model on the hits of one reply
    MaxCalls        \* bound of the model on calls

ASSUME ConnectionAssumption ==
    /\ HitKinds \subseteq {"hit", "hitEND", "skip"}
    /\ ErrorReplies \subseteq {<<"error">>, <<"error", "tail">>}
    /\ Timeouts \in BOOLEAN /\ MaxHits \in Nat /\ MaxCalls \in Nat

VARIABLES
    mode,           \* "closed", "idle" or "waiting": what the caller does
    calls,          \* how many calls were made
    buffer,         \* the buffer of the call that waits
    answer,         \* what the last call that came to an end returned
    clean,          \* no call has timed out since connect
    requests,       \* commands the server has not taken up
    todo,           \* pieces of a reply the server has not sent
    wire,           \* pieces sent and not received
    eof,            \* the server has closed its end
    reply,          \* the reply the server decided on last
    delimited       \* so far _receive could tell the end of every reply

client == <<mode, calls, buffer, answer, clean>>
server == <<requests, todo, wire, eof, reply, delimited>>
vars == <<client, server>>

NoAnswer == [call |-> 0, pieces |-> <<>>]

-----------------------------------------------------------------------------
(* Replies, as handle_client sends them.                                   *)

\* A hit has a line of its own.  The one of a hit whose text ends in END looks
\* like the last line in a buffer; the message about a text that could not be
\* read has no newline.
QueryReplies ==
    {<<"head">> \o hits \o <<"END">> : hits \in UNION {[1..n -> HitKinds] : n \in 0..MaxHits}}

Replies(kind) ==
    IF kind = "QUERY" THEN QueryReplies \union {<<"error">>}
    ELSE {<<"ok">>} \union ErrorReplies

\* Pieces that have no newline: ">" is what two messages of DELETE have after
\* theirs.
Unended == {"skip", "tail"}

\* _receive can tell the end of a reply wherever a chunk ends: no piece comes
\* after its last newline, and no text in it ends in END.
Delimited(pieces) == \A i \in DOMAIN pieces : pieces[i].what \notin {"tail", "hitEND"}

-----------------------------------------------------------------------------
(* The client.                                                             *)

Connect ==
    /\ mode = "closed"
    /\ mode' = "idle"
    /\ answer' = NoAnswer
    /\ clean' = TRUE
    /\ requests' = <<>> /\ todo' = <<>> /\ wire' = <<>> /\ eof' = FALSE
    /\ reply' = <<>> /\ delimited' = TRUE
    /\ UNCHANGED <<calls, buffer>>

\* A thread that still works for the old socket has nowhere to send to.
Disconnect ==
    /\ mode = "idle"
    /\ mode' = "closed"
    /\ UNCHANGED <<calls, buffer, answer, clean, server>>

Send(kind) ==
    /\ mode = "idle" /\ ~eof /\ calls < MaxCalls
    /\ mode' = "waiting"
    /\ calls' = calls + 1
    /\ buffer' = <<>>
    /\ answer' = NoAnswer
    /\ requests' = Append(requests, [call |-> calls + 1, kind |-> kind])
    /\ UNCHANGED <<clean, todo, wire, eof, reply, delimited>>

\* Mutant: the header of a QUERY is a line like any other.
Complete_at_newline(pieces) == \E i \in DOMAIN pieces : pieces[i].what \notin Unended

\* Mutant: END ends every reply.
Complete_at_end(pieces) == Last(pieces).what \in {"END", "hitEND"}

\* When _receive takes what it has for a reply: a buffer that starts with QUERY
\* once it ends with END and a newline, any other once it has a newline.
Complete(pieces) ==
    IF Head(pieces).what = "head" THEN Last(pieces).what \in {"END", "hitEND"}
    ELSE \E i \in DOMAIN pieces : pieces[i].what \notin Unended

\* All that arrived goes into the buffer, and with it the rest of a chunk.
Receive ==
    /\ mode = "waiting"
    /\ \E n \in 1..Len(wire) :
        LET pieces == buffer \o SubSeq(wire, 1, n) IN
        /\ wire' = SubSeq(wire, n + 1, Len(wire))
        /\ IF Complete(pieces)
           THEN /\ mode' = "idle"
                /\ buffer' = <<>>
                /\ answer' = [call |-> calls, pieces |-> pieces]
           ELSE buffer' = pieces /\ UNCHANGED <<mode, answer>>
    /\ UNCHANGED <<calls, clean, requests, todo, eof, reply, delimited>>

\* Mutant: the buffer belongs to the client and outlives the call.
Timeout_keeps_buffer ==
    /\ Timeouts
    /\ mode = "waiting" /\ wire = <<>> /\ ~eof
    /\ mode' = "idle"
    /\ clean' = FALSE
    /\ UNCHANGED <<calls, buffer, answer, server>>

\* The call raises and its buffer is gone; the socket stays as it is.
Timeout ==
    /\ Timeouts
    /\ mode = "waiting" /\ wire = <<>> /\ ~eof
    /\ mode' = "idle"
    /\ buffer' = <<>>
    /\ clean' = FALSE
    /\ UNCHANGED <<calls, answer, server>>

ServerClosed ==
    /\ mode = "waiting" /\ wire = <<>> /\ eof
    /\ mode' = "idle"
    /\ buffer' = <<>>
    /\ UNCHANGED <<calls, answer, clean, server>>

-----------------------------------------------------------------------------
(* The server.                                                             *)

Serve ==
    /\ todo = <<>> /\ requests # <<>>
    /\ \E r \in Replies(Head(requests).kind) :
        LET pieces == [i \in DOMAIN r |-> [of |-> Head(requests).call, what |-> r[i], at |-> i]]
        IN  /\ todo' = pieces
            /\ reply' = pieces
            /\ delimited' = (delimited /\ Delimited(pieces))
    /\ requests' = Tail(requests)
    /\ UNCHANGED <<client, wire, eof>>

SendPiece ==
    /\ todo # <<>>
    /\ wire' = Append(wire, Head(todo))
    /\ todo' = Tail(todo)
    /\ UNCHANGED <<client, requests, eof, reply, delimited>>

\* The process ends: nothing more is sent, and what was sent can be received.
Exit ==
    /\ mode # "closed" /\ ~eof
    /\ eof' = TRUE
    /\ requests' = <<>> /\ todo' = <<>>
    /\ UNCHANGED <<client, wire, reply, delimited>>

-----------------------------------------------------------------------------

Init ==
    /\ mode = "closed" /\ calls = 0 /\ buffer = <<>> /\ answer = NoAnswer /\ clean = TRUE
    /\ requests = <<>> /\ todo = <<>> /\ wire = <<>> /\ eof = FALSE
    /\ reply = <<>> /\ delimited = TRUE

Work == Serve \/ SendPiece
Read == Receive \/ ServerClosed

Next ==
    \/ Connect \/ Disconnect \/ \E kind \in Kinds : Send(kind)
    \/ Read \/ Timeout
    \/ Work \/ Exit

Spec == Init /\ [][Next]_vars

\* The thread of the server goes on, and a recv returns what there is.
FairSpec == Spec /\ WF_vars(Work) /\ WF_vars(Read)

-----------------------------------------------------------------------------
(* Properties.                                                             *)

Piece == [of : 1..MaxCalls, at : Nat,
          what : {"ok", "error", "tail", "head", "hit", "hitEND", "skip", "END"}]

TypeOK ==
    /\ mode \in {"closed", "idle", "waiting"}
    /\ calls \in 0..MaxCalls
    /\ buffer \in Seq(Piece) /\ todo \in Seq(Piece) /\ wire \in Seq(Piece)
    /\ answer.call \in 0..MaxCalls /\ answer.pieces \in Seq(Piece)
    /\ clean \in BOOLEAN /\ eof \in BOOLEAN
    /\ requests \in Seq([call : 1..MaxCalls, kind : Kinds])
    /\ reply \in Seq(Piece) /\ delimited \in BOOLEAN
    /\ mode # "waiting" => buffer = <<>>

Answered == answer # NoAnswer

\* The stream holds nothing but the reply to the call that waits for it.
InStep == clean /\ delimited

\* On a connection on which nothing timed out, a call returns exactly the reply
\* to its own command, however the stream is cut into chunks, whichever texts
\* could not be read and even if the server goes away in the middle, as long as
\* every reply up to it was delimited.
CleanAnswersAreWhole == Answered /\ InStep => answer.pieces = reply

\* On such a connection no call depends on its timeout: it returns.  (After a
\* late reply it can wait in vain: a buffer that starts with the late reply of a
\* QUERY and ends with the reply to another command is never complete.)
CleanCallsReturn == mode = "waiting" /\ InStep ~> mode # "waiting"
=============================================================================
