--------------------------- MODULE ConnectionProofs ---------------------------
(***************************************************************************)
(* Theorems about Connection, for any number of hits and calls and any     *)
(* chunks recv may return: type correctness, and that a call on a clean    *)
(* connection returns the whole reply to its own command.                  *)
(***************************************************************************)
EXTENDS Connection, TLAPS

-----------------------------------------------------------------------------
(* The inductive invariant.                                                *)

\* _receive cannot take a part of the reply r for a reply: it has one piece, or
\* is that of a QUERY and has END at its end only.
Shaped(r) ==
    \/ Len(r) = 1
    \/ /\ Len(r) >= 1 /\ r[1].what = "head"
       /\ \A i \in 1 .. Len(r) - 1 : r[i].what \notin {"END", "hitEND"}

\* s is what r has from position k + 1 on.
Part(s, r, k) == k + Len(s) <= Len(r) /\ \A i \in 1 .. Len(s) : s[i] = r[k + i]

\* The command is on its way.
Asked == Len(requests) <= 1 /\ buffer = <<>> /\ wire = <<>> /\ todo = <<>>

\* The reply is in the buffer, on the wire and with the server, in this order.
Answering ==
    /\ requests = <<>>
    /\ Part(buffer, reply, 0)
    /\ Part(wire, reply, Len(buffer))
    /\ Part(todo, reply, Len(buffer) + Len(wire))
    /\ Shaped(reply)

StreamOK ==
    InStep =>
        /\ mode # "waiting" => requests = <<>> /\ todo = <<>> /\ wire = <<>>
        /\ mode = "waiting" => Asked \/ Answering
        /\ Answered => answer.pieces = reply
        /\ mode = "waiting" => ~Answered
        /\ eof => requests = <<>> /\ todo = <<>>

IInv == TypeOK /\ StreamOK

-----------------------------------------------------------------------------
(* Facts about the operators.                                              *)

\* What handle_client sends are pieces of a kind, and _receive can tell their
\* end if no text ends in END and nothing follows the newline.
LEMMA ReplyFacts ==
    ASSUME NEW kind, NEW call \in 1 .. MaxCalls, NEW r \in Replies(kind)
    PROVE  LET pieces == [i \in DOMAIN r |-> [of |-> call, what |-> r[i], at |-> i]]
           IN  /\ pieces \in Seq(Piece)
               /\ Delimited(pieces) => Shaped(pieces)
  <1> DEFINE pieces == [i \in DOMAIN r |-> [of |-> call, what |-> r[i], at |-> i]]
             Whats == {"ok", "error", "tail", "head", "hit", "hitEND", "skip", "END"}
  <1> USE ConnectionAssumption DEF ConnectionAssumption
  <1>1. CASE r \in QueryReplies
    <2>0. PICK n \in 0 .. MaxHits : \E hits \in [1 .. n -> HitKinds] :
              r = <<"head">> \o hits \o <<"END">>
      BY <1>1 DEF QueryReplies
    <2>1. PICK hits \in [1 .. n -> HitKinds] : r = <<"head">> \o hits \o <<"END">>
      BY <2>0
    <2>2. n \in Nat /\ hits \in Seq(HitKinds) /\ Len(hits) = n
      BY <2>1
    <2>3. /\ <<"head">> \in Seq(Whats) /\ hits \in Seq(Whats) /\ <<"END">> \in Seq(Whats)
      <3>1. HitKinds \subseteq Whats /\ "head" \in Whats /\ "END" \in Whats
        OBVIOUS
      <3> HIDE DEF Whats
      <3>2. hits \in [1 .. n -> Whats]
        BY <2>1, <3>1
      <3>3. hits \in Seq(Whats)
        BY <2>2, <3>2
      <3> QED
        BY <3>1, <3>3
    <2>4. r \in Seq(Whats) /\ Len(r) = n + 2
      BY <2>1, <2>2, <2>3
    <2>5. /\ r[1] = "head" /\ r[n + 2] = "END"
          /\ \A i \in 2 .. n + 1 : r[i] = hits[i - 1] /\ hits[i - 1] \in HitKinds
      BY <2>1, <2>2, <2>3
    <2>6. DOMAIN r = 1 .. n + 2 /\ \A i \in 1 .. n + 2 : r[i] \in Whats
      BY <2>2, <2>4
    <2>7. pieces \in Seq(Piece) /\ Len(pieces) = n + 2
      BY <2>2, <2>6 DEF Piece
    <2>8. ASSUME Delimited(pieces), NEW i \in 1 .. n + 1
          PROVE  pieces[i].what \notin {"END", "hitEND"}
      <3>1. pieces[i].what = r[i] /\ pieces[i].what # "hitEND"
        BY <2>2, <2>6, <2>8 DEF Delimited
      <3>2. r[i] # "END"
        BY <2>2, <2>5
      <3> QED
        BY <3>1, <3>2
    <2>9. pieces[1].what = "head"
      BY <2>2, <2>5, <2>6
    <2>10. Delimited(pieces) => Shaped(pieces)
      <3> HIDE DEF pieces
      <3> QED
        BY <2>2, <2>7, <2>8, <2>9 DEF Shaped
    <2> QED
      BY <2>7, <2>10
  <1>2. CASE r \in {<<"ok">>, <<"error">>}
    <2>1. DOMAIN r = 1 .. 1 /\ r[1] \in {"ok", "error"}
      BY <1>2
    <2>2. pieces \in Seq(Piece) /\ Len(pieces) = 1
      BY <2>1 DEF Piece
    <2> QED
      BY <2>2 DEF Shaped
  <1>3. CASE r = <<"error", "tail">>
    <2>1. pieces \in Seq(Piece)
      BY <1>3 DEF Piece
    <2>2. 2 \in DOMAIN pieces /\ pieces[2].what = "tail"
      BY <1>3
    <2> QED
      BY <2>1, <2>2 DEF Delimited
  <1>4. r \in QueryReplies \/ r \in {<<"ok">>, <<"error">>} \/ r = <<"error", "tail">>
    BY DEF Replies
  <1> QED
    BY <1>1, <1>2, <1>3, <1>4

\* The beginning of a reply that _receive takes for a reply is all of it.
LEMMA CompleteIsAll ==
    ASSUME NEW r \in Seq(Piece), Shaped(r), NEW pieces \in Seq(Piece),
           Part(pieces, r, 0), pieces # <<>>, Complete(pieces)
    PROVE  pieces = r
  <1>1. Len(pieces) \in Nat /\ Len(pieces) >= 1 /\ Len(r) \in Nat /\ Len(pieces) <= Len(r)
    BY DEF Part
  <1>2. \A i \in 1 .. Len(pieces) : pieces[i] = r[i]
    BY <1>1 DEF Part
  <1>3. Len(pieces) = Len(r)
    <2>1. CASE Len(r) = 1
      BY <1>1, <2>1
    <2>2. CASE r[1].what = "head" /\ \A i \in 1 .. Len(r) - 1 : r[i].what \notin {"END", "hitEND"}
      <3>1. Head(pieces) = r[1]
        BY <1>1, <1>2
      <3>2. Last(pieces).what \in {"END", "hitEND"} /\ Last(pieces) = r[Len(pieces)]
        BY <1>1, <1>2, <2>2, <3>1 DEF Complete, Last
      <3> QED
        BY <1>1, <2>2, <3>2
    <2> QED
      BY <2>1, <2>2 DEF Shaped
  <1> QED
    BY <1>1, <1>2, <1>3

LEMMA InitHolds == Init => IInv
  <1> SUFFICES ASSUME Init PROVE IInv
    OBVIOUS
  <1>1. TypeOK
    <2>1. <<>> \in Seq(Piece)
      OBVIOUS
    <2>2. <<>> \in Seq([call : 1 .. MaxCalls, kind : Kinds])
      OBVIOUS
    <2>3. answer.call = 0 /\ answer.pieces = <<>>
      BY DEF Init, NoAnswer
    <2>4. calls \in 0 .. MaxCalls /\ answer.call \in 0 .. MaxCalls
      BY <2>3, ConnectionAssumption DEF ConnectionAssumption, Init
    <2>5. mode = "closed" /\ clean = TRUE /\ eof = FALSE /\ delimited = TRUE
      BY DEF Init
    <2>6. /\ buffer = <<>> /\ todo = <<>> /\ wire = <<>> /\ requests = <<>> /\ reply = <<>>
      BY DEF Init
    <2> QED
      BY <2>1, <2>2, <2>3, <2>4, <2>5, <2>6 DEF TypeOK
  <1>2. StreamOK
    BY DEF Init, StreamOK, Answered
  <1> QED
    BY <1>1, <1>2 DEF IInv

\* What Receive does when n pieces of the wire arrive.
Arrive(n) ==
    LET pieces == buffer \o SubSeq(wire, 1, n) IN
    /\ wire' = SubSeq(wire, n + 1, Len(wire))
    /\ IF Complete(pieces)
       THEN mode' = "idle" /\ buffer' = <<>> /\ answer' = [call |-> calls, pieces |-> pieces]
       ELSE buffer' = pieces /\ UNCHANGED <<mode, answer>>

\* What Serve does when the reply it decides on is r.
AnswerWith(r) ==
    LET pieces == [i \in DOMAIN r |-> [of |-> Head(requests).call, what |-> r[i], at |-> i]]
    IN  todo' = pieces /\ reply' = pieces /\ delimited' = (delimited /\ Delimited(pieces))

LEMMA ServeFacts ==
    ASSUME Serve
    PROVE  /\ todo = <<>> /\ requests # <<>> /\ requests' = Tail(requests)
           /\ UNCHANGED <<mode, calls, buffer, answer, clean, wire, eof>>
           /\ \E r \in Replies(Head(requests).kind) : AnswerWith(r)
  <1>1. \E r \in Replies(Head(requests).kind) : AnswerWith(r)
    BY Zenon DEF Serve, AnswerWith
  <1> QED
    BY <1>1, Zenon DEF Serve, client

LEMMA ReceiveFacts ==
    ASSUME Receive
    PROVE  \E n \in 1 .. Len(wire) : Arrive(n)
  BY DEF Receive, Arrive

LEMMA HeadFacts ==
    ASSUME TypeOK, requests # <<>>
    PROVE  /\ Head(requests).call \in 1 .. MaxCalls
           /\ Tail(requests) \in Seq([call : 1 .. MaxCalls, kind : Kinds])
  <1> DEFINE R == [call : 1 .. MaxCalls, kind : Kinds]
  <1>1. requests \in Seq(R)
    BY DEF TypeOK
  <1>2. Head(requests) \in R /\ Tail(requests) \in Seq(R)
    <2> HIDE DEF R
    <2> QED
      BY <1>1
  <1> QED
    BY <1>2

\* How pieces divides the wire.
LEMMA ArriveFacts ==
    ASSUME TypeOK, NEW n \in 1 .. Len(wire)
    PROVE  LET pieces == buffer \o SubSeq(wire, 1, n)
               rest == SubSeq(wire, n + 1, Len(wire))
           IN  /\ pieces \in Seq(Piece) /\ Len(pieces) = Len(buffer) + n /\ pieces # <<>>
               /\ \A i \in 1 .. Len(buffer) : pieces[i] = buffer[i]
               /\ \A i \in Len(buffer) + 1 .. Len(buffer) + n : pieces[i] = wire[i - Len(buffer)]
               /\ rest \in Seq(Piece) /\ Len(rest) = Len(wire) - n
               /\ \A i \in 1 .. Len(rest) : rest[i] = wire[n + i]
  <1> DEFINE first == SubSeq(wire, 1, n)
             rest == SubSeq(wire, n + 1, Len(wire))
             pieces == buffer \o first
  <1>1. /\ buffer \in Seq(Piece) /\ wire \in Seq(Piece)
        /\ Len(buffer) \in Nat /\ Len(wire) \in Nat /\ n \in Nat /\ n >= 1 /\ n <= Len(wire)
    BY DEF TypeOK
  <1>2. /\ first \in Seq(Piece) /\ Len(first) = n
        /\ \A i \in 1 .. n : first[i] = wire[i]
    BY <1>1
  <1>3. /\ rest \in Seq(Piece) /\ Len(rest) = Len(wire) - n
        /\ \A i \in 1 .. Len(rest) : rest[i] = wire[n + i]
    BY <1>1
  <1> HIDE DEF first, rest
  <1>4. /\ pieces \in Seq(Piece) /\ Len(pieces) = Len(buffer) + n
        /\ \A i \in 1 .. Len(buffer) : pieces[i] = buffer[i]
        /\ \A i \in Len(buffer) + 1 .. Len(buffer) + n : pieces[i] = first[i - Len(buffer)]
    BY <1>1, <1>2
  <1>5. \A i \in Len(buffer) + 1 .. Len(buffer) + n : pieces[i] = wire[i - Len(buffer)]
    BY <1>1, <1>2, <1>4
  <1>6. pieces # <<>>
    BY <1>1, <1>4
  <1> QED
    BY <1>3, <1>4, <1>5, <1>6 DEF first, rest

-----------------------------------------------------------------------------
(* Each conjunct is preserved.                                             *)

\* A step keeps every variable in its type.
LEMMA TypeStep ==
    ASSUME IInv, [Next]_vars
    PROVE  TypeOK'
  <1> USE DEF IInv, TypeOK, client, server
  <1>1. CASE UNCHANGED vars
    BY <1>1 DEF vars
  <1>2. CASE Connect
    <2>1. answer'.call \in 0 .. MaxCalls /\ answer'.pieces \in Seq(Piece)
      BY <1>2, ConnectionAssumption DEF Connect, NoAnswer, ConnectionAssumption
    <2>2. <<>> \in Seq(Piece) /\ <<>> \in Seq([call : 1 .. MaxCalls, kind : Kinds])
      OBVIOUS
    <2> QED
      BY <1>2, <2>1, <2>2 DEF Connect
  <1>3. CASE Disconnect
    BY <1>3 DEF Disconnect
  <1>4. ASSUME NEW kind \in Kinds, Send(kind)
        PROVE  TypeOK'
    <2>1. answer'.call \in 0 .. MaxCalls /\ answer'.pieces \in Seq(Piece)
      BY <1>4, ConnectionAssumption DEF Send, NoAnswer, ConnectionAssumption
    <2>2. calls + 1 \in 1 .. MaxCalls
      BY <1>4, ConnectionAssumption DEF Send, ConnectionAssumption
    <2>3. requests' \in Seq([call : 1 .. MaxCalls, kind : Kinds])
      BY <1>4, <2>2 DEF Send
    <2> QED
      BY <1>4, <2>1, <2>2, <2>3 DEF Send
  <1>5. CASE Receive
    <2>1. PICK n \in 1 .. Len(wire) : Arrive(n)
      BY <1>5, ReceiveFacts
    <2>2. buffer \o SubSeq(wire, 1, n) \in Seq(Piece) /\ SubSeq(wire, n + 1, Len(wire)) \in Seq(Piece)
      BY ArriveFacts
    <2>3. mode = "waiting" /\ UNCHANGED <<calls, clean, requests, todo, eof, reply, delimited>>
      BY <1>5 DEF Receive
    <2> DEFINE pieces == buffer \o SubSeq(wire, 1, n)
    <2>4. /\ wire' = SubSeq(wire, n + 1, Len(wire))
          /\ \/ mode' = "idle" /\ buffer' = <<>> /\ answer' = [call |-> calls, pieces |-> pieces]
             \/ buffer' = pieces /\ mode' = mode /\ answer' = answer
      BY <2>1 DEF Arrive
    <2>5. wire' \in Seq(Piece) /\ pieces \in Seq(Piece) /\ <<>> \in Seq(Piece)
      BY <2>2, <2>4
    <2> HIDE DEF pieces
    <2>6. CASE mode' = "idle" /\ buffer' = <<>> /\ answer' = [call |-> calls, pieces |-> pieces]
      <3>1. answer'.call = calls /\ answer'.pieces = pieces
        BY <2>6
      <3> QED
        BY <2>3, <2>5, <2>6, <3>1
    <2>7. CASE buffer' = pieces /\ mode' = mode /\ answer' = answer
      BY <2>3, <2>5, <2>7
    <2> QED
      BY <2>4, <2>6, <2>7
  <1>6. CASE ServerClosed
    BY <1>6 DEF ServerClosed
  <1>7. CASE Timeout
    BY <1>7 DEF Timeout
  <1>8. CASE Serve
    <2>1. PICK r \in Replies(Head(requests).kind) : AnswerWith(r)
      BY <1>8, ServeFacts
    <2>2. Head(requests).call \in 1 .. MaxCalls /\ Tail(requests) \in Seq([call : 1 .. MaxCalls, kind : Kinds])
      BY <1>8, ServeFacts, HeadFacts
    <2>3. todo' \in Seq(Piece) /\ reply' \in Seq(Piece)
      BY <2>1, <2>2, ReplyFacts DEF AnswerWith
    <2>4. delimited' \in BOOLEAN
      BY <2>1 DEF AnswerWith
    <2> QED
      BY <1>8, ServeFacts, <2>2, <2>3, <2>4
  <1>9. CASE SendPiece
    <2>1. wire' \in Seq(Piece) /\ todo' \in Seq(Piece)
      BY <1>9 DEF SendPiece
    <2> QED
      BY <1>9, <2>1 DEF SendPiece
  <1>10. CASE Exit
    BY <1>10 DEF Exit
  <1> QED
    BY <1>1, <1>2, <1>3, <1>4, <1>5, <1>6, <1>7, <1>8, <1>9, <1>10 DEF Next, Read, Work

\* The stream holds the reply to the call that waits, and nothing else.
LEMMA StreamStep ==
    ASSUME IInv, [Next]_vars
    PROVE  StreamOK'
  <1> USE DEF IInv, StreamOK, InStep, Answered, client, server
  <1>1. CASE UNCHANGED vars
    BY <1>1 DEF vars, Asked, Answering, Part
  <1>2. CASE Connect
    BY <1>2 DEF Connect
  <1>3. CASE Disconnect
    BY <1>3 DEF Disconnect
  <1>4. ASSUME NEW kind \in Kinds, Send(kind)
        PROVE  StreamOK'
    <2>1. InStep => Len(requests') <= 1
      BY <1>4 DEF Send, TypeOK
    <2> QED
      BY <1>4, <2>1 DEF Send, Asked, NoAnswer
  <1>5. CASE Receive
    <2>1. PICK n \in 1 .. Len(wire) : Arrive(n)
      BY <1>5, ReceiveFacts
    <2>2. mode = "waiting" /\ UNCHANGED <<calls, clean, requests, todo, eof, reply, delimited>>
      BY <1>5 DEF Receive
    <2> SUFFICES ASSUME InStep PROVE StreamOK'
      BY <2>2
    <2>3. wire # <<>> /\ Answering
      BY <2>1, <2>2 DEF Asked, TypeOK
    <2> DEFINE pieces == buffer \o SubSeq(wire, 1, n)
               rest == SubSeq(wire, n + 1, Len(wire))
    <2>4. /\ pieces \in Seq(Piece) /\ Len(pieces) = Len(buffer) + n /\ pieces # <<>>
          /\ \A i \in 1 .. Len(buffer) : pieces[i] = buffer[i]
          /\ \A i \in Len(buffer) + 1 .. Len(buffer) + n : pieces[i] = wire[i - Len(buffer)]
          /\ rest \in Seq(Piece) /\ Len(rest) = Len(wire) - n
          /\ \A i \in 1 .. Len(rest) : rest[i] = wire[n + i]
      BY ArriveFacts
    <2>5. wire' = rest /\ IF Complete(pieces)
                         THEN mode' = "idle" /\ buffer' = <<>> /\ answer' = [call |-> calls, pieces |-> pieces]
                         ELSE buffer' = pieces /\ UNCHANGED <<mode, answer>>
      BY <2>1 DEF Arrive
    <2> HIDE DEF pieces, rest
    <2>6. /\ Len(buffer) \in Nat /\ Len(wire) \in Nat /\ Len(todo) \in Nat /\ Len(reply) \in Nat
          /\ n \in Nat /\ n >= 1 /\ n <= Len(wire)
      BY DEF TypeOK
    <2>7. Part(pieces, reply, 0)
      <3>1. Len(pieces) <= Len(reply)
        BY <2>3, <2>4, <2>6 DEF Answering, Part
      <3>2. ASSUME NEW i \in 1 .. Len(pieces)
            PROVE  pieces[i] = reply[0 + i]
        <4>1. CASE i <= Len(buffer)
          BY <2>3, <2>4, <2>6, <4>1 DEF Answering, Part
        <4>2. CASE i > Len(buffer)
          <5>1. i - Len(buffer) \in 1 .. Len(wire) /\ pieces[i] = wire[i - Len(buffer)]
            BY <2>4, <2>6, <4>2
          <5>2. wire[i - Len(buffer)] = reply[Len(buffer) + (i - Len(buffer))]
            BY <2>3, <5>1 DEF Answering, Part
          <5> QED
            BY <2>6, <5>1, <5>2
        <4> QED
          BY <2>4, <2>6, <4>1, <4>2
      <3> QED
        BY <2>4, <2>6, <3>1, <3>2 DEF Part
    <2>8. Part(rest, reply, Len(pieces)) /\ Len(pieces) + Len(rest) = Len(buffer) + Len(wire)
      BY <2>3, <2>4, <2>6 DEF Answering, Part
    <2>9. CASE Complete(pieces)
      <3>1. pieces = reply
        BY <2>3, <2>4, <2>7, <2>9, CompleteIsAll DEF Answering, TypeOK
      <3>2. Len(rest) = 0 /\ Len(todo) = 0
        BY <2>3, <2>4, <2>6, <2>8, <3>1 DEF Answering, Part
      <3>3. wire' = <<>> /\ todo = <<>>
        BY <2>4, <2>5, <3>2 DEF TypeOK
      <3>4. requests = <<>>
        BY <2>3 DEF Answering
      <3> QED
        BY <2>2, <2>5, <2>9, <3>1, <3>3, <3>4
    <2>10. CASE ~Complete(pieces)
      <3>1. /\ buffer' = pieces /\ wire' = rest
            /\ UNCHANGED <<mode, answer, requests, todo, reply>>
        BY <2>2, <2>5, <2>10
      <3>2. Answering'
        BY <2>3, <2>7, <2>8, <3>1 DEF Answering
      <3> QED
        BY <2>2, <3>1, <3>2
    <2> QED
      BY <2>9, <2>10
  <1>6. CASE ServerClosed
    BY <1>6 DEF ServerClosed
  <1>7. CASE Timeout
    BY <1>7 DEF Timeout
  <1>8. CASE Serve
    <2>1. PICK r \in Replies(Head(requests).kind) : AnswerWith(r)
      BY <1>8, ServeFacts
    <2>2. Head(requests).call \in 1 .. MaxCalls
      BY <1>8, ServeFacts, HeadFacts
    <2>3. todo' \in Seq(Piece) /\ reply' = todo' /\ (Delimited(reply') => Shaped(reply'))
      BY <2>1, <2>2, ReplyFacts DEF AnswerWith
    <2> SUFFICES ASSUME InStep' PROVE StreamOK'
      OBVIOUS
    <2>4. InStep /\ Delimited(reply')
      BY <1>8, ServeFacts, <2>1 DEF AnswerWith, TypeOK
    <2>5. mode = "waiting" /\ Len(requests) <= 1 /\ buffer = <<>> /\ wire = <<>>
      BY <1>8, ServeFacts, <2>4 DEF Asked, Answering
    <2>6. requests' = <<>>
      BY <1>8, ServeFacts, <2>5 DEF TypeOK
    <2>7. UNCHANGED <<buffer, wire, mode, answer>>
      BY <1>8, ServeFacts
    <2>8. Answering'
      BY <2>3, <2>4, <2>5, <2>6, <2>7 DEF Answering, Part
    <2>9. ~Answered'
      BY <2>4, <2>5, <2>7
    <2>10. ~eof'
      BY <1>8, ServeFacts, <2>4
    <2> QED
      BY <2>5, <2>6, <2>7, <2>8, <2>9, <2>10
  <1>9. CASE SendPiece
    <2>1. /\ todo # <<>> /\ wire' = Append(wire, Head(todo)) /\ todo' = Tail(todo)
          /\ UNCHANGED <<client, requests, eof, reply, delimited>>
      BY <1>9 DEF SendPiece
    <2> SUFFICES ASSUME InStep PROVE StreamOK'
      BY <2>1
    <2>2. mode = "waiting" /\ Answering
      BY <2>1 DEF Asked
    <2>3. /\ Len(buffer) \in Nat /\ Len(wire) \in Nat /\ Len(todo) \in Nat /\ Len(reply) \in Nat
          /\ Len(todo) >= 1 /\ Len(wire') = Len(wire) + 1 /\ Len(todo') = Len(todo) - 1
          /\ \A i \in 1 .. Len(wire) : wire'[i] = wire[i]
          /\ wire'[Len(wire) + 1] = todo[1]
          /\ \A i \in 1 .. Len(todo') : todo'[i] = todo[i + 1]
      BY <2>1 DEF TypeOK
    <2>4. Part(wire', reply, Len(buffer))
      <3>1. /\ Len(buffer) + Len(wire') <= Len(reply)
            /\ wire'[Len(wire) + 1] = reply[Len(buffer) + (Len(wire) + 1)]
        BY <2>2, <2>3 DEF Answering, Part
      <3>2. \A i \in 1 .. Len(wire) : wire'[i] = reply[Len(buffer) + i]
        BY <2>2, <2>3 DEF Answering, Part
      <3>3. \A i \in 1 .. Len(wire') : i \in 1 .. Len(wire) \/ i = Len(wire) + 1
        BY <2>3
      <3> QED
        BY <3>1, <3>2, <3>3 DEF Part
    <2>5. Part(todo', reply, Len(buffer) + Len(wire'))
      BY <2>2, <2>3 DEF Answering, Part
    <2>6. Answering'
      BY <2>1, <2>2, <2>4, <2>5 DEF Answering, Part
    <2> QED
      BY <2>1, <2>2, <2>6
  <1>10. CASE Exit
    <2>1. InStep /\ Answering => Answering'
      BY <1>10 DEF Exit, Answering, Part, TypeOK
    <2>2. Asked => Asked'
      BY <1>10 DEF Exit, Asked
    <2> QED
      BY <1>10, <2>1, <2>2 DEF Exit
  <1> QED
    BY <1>1, <1>2, <1>3, <1>4, <1>5, <1>6, <1>7, <1>8, <1>9, <1>10 DEF Next, Read, Work

-----------------------------------------------------------------------------
(* The theorems.                                                           *)

LEMMA Inductive == Spec => []IInv
  <1>1. IInv /\ [Next]_vars => IInv'
    BY TypeStep, StreamStep DEF IInv
  <1> QED
    BY InitHolds, <1>1, PTL DEF Spec

\* Every variable keeps its type, and no buffer outlives its call.
THEOREM TypeCorrect == Spec => []TypeOK
  <1>1. IInv => TypeOK
    BY DEF IInv
  <1> QED
    BY Inductive, <1>1, PTL

\* On a connection on which nothing timed out and every reply was delimited, a
\* call returns the whole reply to its own command, however many hits it has
\* and however the stream is cut.
THEOREM AnswersAreWhole == Spec => []CleanAnswersAreWhole
  <1>1. IInv => CleanAnswersAreWhole
    BY DEF IInv, StreamOK, CleanAnswersAreWhole
  <1> QED
    BY Inductive, <1>1, PTL
==============================================================================
