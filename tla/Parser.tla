-------------------------------- MODULE Parser --------------------------------
(***************************************************************************)
(* command_parser.cpp: what the server makes of a line, against what the   *)
(* client that formatted it meant.  A line is its command word and what    *)
(* spaces separate (two spaces in a row have an empty token between them). *)
(* A token is what the parser can see of it: its length in bytes, what     *)
(* std::stoi and std::stof make of it, and where its '=' are.              *)
(***************************************************************************)
EXTENDS Integers, Sequences, SequencesExt

CONSTANTS
    ID_LENGTH, META_DATA_LENGTH, META_DATA_KP_PAIRS, TEXT_MAX_LENGTH,
    DIMENSIONS, DIMENSIONS_NO_OF_DIGITS, MAX_K_SIMILAR,
    Uint16,         \* how many values a uint16_t has
    NaN,            \* not a number
    Tokens,         \* the tokens lines are made of
    Requests,       \* what clients ask for
    MaxEdits,       \* bound of the model on what makes a line another one
    MaxLine         \* bound of the model on tokens in a line

\* int is what std::stoi reads at its start, whole whether that is all of it,
\* float whether std::stof reads all of it; eq is the number of '=', key and
\* val are the lengths around the first.
Token == [len : Nat, int : Int \union {NaN}, whole : BOOLEAN, float : BOOLEAN,
          eq : Nat, key : Nat, val : Nat]

IsInt(t) == t.int # NaN /\ t.whole

\* A number has digits and no '='.
ASSUME ParserAssumption ==
    /\ {ID_LENGTH, META_DATA_LENGTH, META_DATA_KP_PAIRS, TEXT_MAX_LENGTH,
        DIMENSIONS, DIMENSIONS_NO_OF_DIGITS, MAX_K_SIMILAR, Uint16} \subseteq Nat \ {0}
    /\ TEXT_MAX_LENGTH < Uint16
    /\ NaN \notin Int
    /\ \A t \in Tokens : t \in Token /\ (t.float \/ IsInt(t) => t.len > 0 /\ t.eq = 0)
    /\ MaxEdits \in Nat /\ MaxLine \in Nat

VARIABLES
    request,        \* what a client asked for
    word, line,     \* the line on the wire: its command and the tokens after it
    edits           \* how many tokens were changed since it was formatted

vars == <<request, word, line, edits>>

Refused == [ok |-> FALSE, newline |-> TRUE]
RefusedWithTail == [ok |-> FALSE, newline |-> FALSE]
Accepted(fields) == [ok |-> TRUE, fields |-> fields]

\* Bytes of tokens with the spaces between them.
Bytes(tokens) ==
    LET upto[i \in 0..Len(tokens)] == IF i = 0 THEN -1 ELSE upto[i - 1] + 1 + tokens[i].len
    IN  upto[Len(tokens)]

-----------------------------------------------------------------------------
(* Fields that INSERT and QUERY share.                                     *)

\* Where the metadata that starts at token i ends: at the first token without
\* '='.
MetaEnd(tokens, i) ==
    LET plain == {j \in i..Len(tokens) : tokens[j].eq = 0}
    IN  IF plain = {} THEN Len(tokens) + 1 ELSE CHOOSE j \in plain : \A k \in plain : j <= k

PairOK(t) ==
    /\ t.eq = 1
    /\ t.key \in 1..META_DATA_LENGTH
    /\ t.val \in 1..META_DATA_LENGTH

MetaOK(pairs) ==
    /\ Len(pairs) <= META_DATA_KP_PAIRS
    /\ \A i \in DOMAIN pairs : PairOK(pairs[i])

\* Mutant: what follows the last float is not looked at.
LastFloat_any(tokens) == IF Head(tokens).float THEN {Head(tokens)} ELSE {}

\* The last float is all that is left of the line: stof skips spaces before it
\* and only spaces may follow.
LastFloat(tokens) ==
    LET alone == {i \in DOMAIN tokens : \A j \in DOMAIN tokens : j # i => tokens[j].len = 0}
    IN  {tokens[i] : i \in {j \in alone : tokens[j].float}}

\* The floats from token i on; empty if they cannot be read.
Floats(tokens, i) ==
    LET last == i + DIMENSIONS - 1 IN
    IF last > Len(tokens) THEN {}
    ELSE IF \E j \in i..last - 1 : ~tokens[j].float THEN {}
    ELSE {Append(SubSeq(tokens, i, last - 1), f) :
             f \in LastFloat(SubSeq(tokens, last, Len(tokens)))}

-----------------------------------------------------------------------------
(* The parsers.                                                            *)

\* The token is not the last of the line, and has a length in the range.
Field(tokens, i, lengths) == i < Len(tokens) /\ tokens[i].len \in lengths

\* Mutant: the text ends at the next space.
TextEnds_at_space(tokens, length) == {j \in 3..Len(tokens) - 1 : j = 3}

\* The token that the text ends with: text_length bytes on there is a space.
TextEnds(tokens, length) ==
    {j \in 3..Len(tokens) - 1 : Bytes(SubSeq(tokens, 3, j)) = length}

\* INSERT <id> <text_length> <text> <dims> [key=val ...] f1 ... fn
insert_parsing(tokens) ==
    LET text_length == tokens[2].int % Uint16
        ends == TextEnds(tokens, text_length)
        dims == 1 + CHOOSE j \in ends : TRUE
        floats == MetaEnd(tokens, dims + 1)
        pairs == SubSeq(tokens, dims + 1, floats - 1)
    IN  IF \/ ~Field(tokens, 1, 1..ID_LENGTH)
           \/ ~Field(tokens, 2, Nat \ {0})
           \/ ~IsInt(tokens[2])
           \/ text_length > TEXT_MAX_LENGTH
           \/ ends = {}
           \/ ~Field(tokens, dims, {DIMENSIONS_NO_OF_DIGITS})
           \/ tokens[dims].int = NaN
        THEN Refused
        ELSE IF tokens[dims].int # DIMENSIONS THEN RefusedWithTail
        ELSE IF ~tokens[dims].whole \/ ~MetaOK(pairs) \/ Floats(tokens, floats) = {} THEN Refused
        ELSE Accepted([id |-> tokens[1], text |-> SubSeq(tokens, 3, dims - 1), meta |-> pairs,
                       floats |-> CHOOSE s \in Floats(tokens, floats) : TRUE])

\* QUERY <top_k> <dims> [key=val ...] f1 ... fn, with top_k cut to its maximum.
query_parsing(tokens) ==
    LET floats == MetaEnd(tokens, 3)
        pairs == SubSeq(tokens, 3, floats - 1)
    IN  IF \/ ~Field(tokens, 1, Nat \ {0}) \/ ~IsInt(tokens[1]) \/ tokens[1].int < 1
           \/ ~Field(tokens, 2, Nat \ {0}) \/ ~IsInt(tokens[2])
        THEN Refused
        ELSE IF tokens[2].int # DIMENSIONS THEN RefusedWithTail
        ELSE IF ~MetaOK(pairs) \/ Floats(tokens, floats) = {} THEN Refused
        ELSE Accepted([top_k |-> IF tokens[1].int > MAX_K_SIMILAR THEN MAX_K_SIMILAR
                                 ELSE tokens[1].int,
                       meta |-> pairs,
                       floats |-> CHOOSE s \in Floats(tokens, floats) : TRUE])

\* DELETE <id>: all that is left of the line.
delete_parsing(tokens) ==
    IF Bytes(tokens) \in 1..ID_LENGTH THEN Accepted([id |-> tokens]) ELSE Refused

\* What handle_client answers a line, or does with it; nothing of what follows
\* SAVE, LOAD and OPTIMIZE is looked at.
Parsed ==
    CASE word \in {"INSERT", "QUERY", "DELETE"} /\ line = <<>> -> Refused
      [] word = "INSERT" /\ line # <<>> -> insert_parsing(line)
      [] word = "QUERY" /\ line # <<>> -> query_parsing(line)
      [] word = "DELETE" /\ line # <<>> -> delete_parsing(line)
      [] OTHER -> Accepted([op |-> word])

-----------------------------------------------------------------------------
(* The client.                                                             *)

\* A number as the client writes it.
Written(n) == CHOOSE t \in Tokens : t.int = n /\ t.whole

\* The lines Client.insert, query, delete, save, load and optimize send.
Format(r) ==
    CASE r.op = "INSERT" ->
           <<r.id, Written(Bytes(r.text))>> \o r.text \o <<Written(DIMENSIONS)>> \o r.meta \o r.floats
      [] r.op = "QUERY" -> <<Written(r.top_k), Written(DIMENSIONS)>> \o r.meta \o r.floats
      [] r.op = "DELETE" -> r.id
      [] OTHER -> <<>>

\* What the client lets through: no field is too long, there are not too many
\* pairs, every float is there, and no space or '=' is where it would break the
\* line.  It asks for no field to have something in it.
Sends(r) ==
    /\ r.op = "INSERT" => r.id.len <= ID_LENGTH /\ Bytes(r.text) <= TEXT_MAX_LENGTH
    /\ r.op = "DELETE" => Bytes(r.id) <= ID_LENGTH /\ Len(r.id) = 1
    /\ r.op = "QUERY" => r.top_k >= 1
    /\ r.op \in {"INSERT", "QUERY"} =>
        /\ Len(r.floats) = DIMENSIONS
        /\ Len(r.meta) <= META_DATA_KP_PAIRS
        /\ \A i \in DOMAIN r.meta :
            r.meta[i].eq = 1 /\ r.meta[i].key <= META_DATA_LENGTH /\ r.meta[i].val <= META_DATA_LENGTH

\* What a request is made of: an empty text is an empty token, and the tokens
\* have the numbers the client writes, DIMENSIONS in as many digits as the
\* schema says.
ASSUME RequestAssumption ==
    /\ \E t \in Tokens : t.int = DIMENSIONS /\ t.whole
    /\ Written(DIMENSIONS).len = DIMENSIONS_NO_OF_DIGITS
    /\ \A r \in Requests :
        /\ r.op \in {"INSERT", "QUERY"} =>
            /\ r.meta \in Seq(Tokens)
            /\ r.floats \in Seq({t \in Tokens : t.float})
        /\ r.op = "INSERT" =>
            /\ r.id \in Tokens /\ r.text \in Seq(Tokens) \ {<<>>}
            /\ \E t \in Tokens : t.int = Bytes(r.text) /\ t.whole
        /\ r.op = "QUERY" => r.top_k \in Int /\ \E t \in Tokens : t.int = r.top_k /\ t.whole
        /\ r.op = "DELETE" => r.id \in Seq(Tokens)

-----------------------------------------------------------------------------

Init ==
    /\ request \in {r \in Requests : Sends(r)}
    /\ word = request.op
    /\ line = Format(request)
    /\ edits = 0

\* Another client's line: a token more, less or other than this one has.
Edit ==
    /\ edits < MaxEdits
    /\ \/ \E i \in DOMAIN line, t \in Tokens : line' = [line EXCEPT ![i] = t]
       \/ \E i \in DOMAIN line : line' = RemoveAt(line, i)
       \/ /\ Len(line) < MaxLine
          /\ \E i \in 1..Len(line) + 1, t \in Tokens : line' = InsertAt(line, i, t)
    /\ edits' = edits + 1
    /\ UNCHANGED <<request, word>>

Next == Edit
Spec == Init /\ [][Next]_vars

-----------------------------------------------------------------------------
(* Properties.                                                             *)

\* An id, a key or a value of the request is empty.
SomethingIsEmpty(r) ==
    \/ r.op = "INSERT" /\ r.id.len = 0
    \/ r.op = "DELETE" /\ r.id[1].len = 0
    \/ r.op \in {"INSERT", "QUERY"} /\ \E i \in DOMAIN r.meta : r.meta[i].key = 0 \/ r.meta[i].val = 0

\* What the server reads of a line the client let through is what the client
\* meant, whatever spaces, numbers and '=' are in the text and however much of
\* it is empty; it refuses only a line with an empty id, key or value.
RoundTrip ==
    edits = 0 =>
        /\ Parsed.ok <=> ~SomethingIsEmpty(request)
        /\ Parsed.ok /\ request.op = "INSERT" =>
            Parsed.fields = [id |-> request.id, text |-> request.text,
                             meta |-> request.meta, floats |-> request.floats]
        /\ Parsed.ok /\ request.op = "QUERY" =>
            /\ Parsed.fields.meta = request.meta /\ Parsed.fields.floats = request.floats
            /\ Parsed.fields.top_k =
                   IF request.top_k > MAX_K_SIMILAR THEN MAX_K_SIMILAR ELSE request.top_k
        /\ Parsed.ok /\ request.op = "DELETE" => Parsed.fields.id = request.id

\* The line is what was read of it, in its order, and the last float among
\* empty tokens.
Is(tokens, read, last) ==
    /\ IsPrefix(read, tokens)
    /\ \E i \in Len(read) + 1..Len(tokens) :
        /\ tokens[i] = last
        /\ \A j \in Len(read) + 1..Len(tokens) : j # i => tokens[j].len = 0

\* No part of an accepted line is ignored or read as two things, and every
\* field is within its limits: written again, the fields give the line, up to
\* spaces around the last float and to what text_length has beyond 16 bits.
NothingIsIgnored ==
    Parsed.ok /\ word \in {"INSERT", "QUERY"} =>
        LET f == Parsed.fields IN
        /\ MetaOK(f.meta) /\ Len(f.floats) = DIMENSIONS
        /\ word = "INSERT" =>
            /\ f.id.len <= ID_LENGTH /\ Bytes(f.text) <= TEXT_MAX_LENGTH
            /\ \E n \in Tokens, d \in Tokens :
                /\ IsInt(n) /\ n.int % Uint16 = Bytes(f.text)
                /\ IsInt(d) /\ d.int = DIMENSIONS
                /\ Is(line, <<f.id, n>> \o f.text \o <<d>> \o f.meta \o Front(f.floats),
                      Last(f.floats))
        /\ word = "QUERY" =>
            \E k \in Tokens, d \in Tokens :
                /\ IsInt(k) /\ k.int >= f.top_k
                /\ IsInt(d) /\ d.int = DIMENSIONS
                /\ Is(line, <<k, d>> \o f.meta \o Front(f.floats), Last(f.floats))
=============================================================================
