------------------------------ MODULE MC_Parser ------------------------------
(***************************************************************************)
(* A schema of two floats, ids of two bytes and texts of four; texts of up *)
(* to two words, which may be numbers, pairs or empty.                     *)
(***************************************************************************)
EXTENDS Parser

Plain(len) == [len |-> len, int |-> NaN, whole |-> FALSE, float |-> FALSE, eq |-> 0, key |-> 0, val |-> 0]
Number(n, len) == [Plain(len) EXCEPT !.int = n, !.whole = TRUE, !.float = TRUE]
Pair(key, val, eq) == [Plain(key + val + eq) EXCEPT !.eq = eq, !.key = key, !.val = val]
Empty == Plain(0)

\* With a 9 that is 1 where integers have three bits; with "2x", and "2.1",
\* which is a float and as an integer 2 with something after it.
Alphabet == {Empty, Plain(1), Plain(3), Number(0, 1), Number(1, 1), Number(2, 1), Number(3, 1),
             Number(4, 1), Number(5, 1), Number(9, 1),
             [Plain(2) EXCEPT !.int = 2], [Plain(3) EXCEPT !.int = 2, !.float = TRUE],
             Pair(1, 1, 1), Pair(1, 0, 1), Pair(1, 1, 2), Pair(2, 1, 1)}

TextWords == {Empty, Plain(1), Plain(3), Number(2, 1), Pair(1, 1, 1)}
Texts == {t \in [1..1 -> TextWords] \union [1..2 -> TextWords] : Bytes(t) <= 4}
Metas == {<<>>, <<Pair(1, 1, 1)>>, <<Pair(1, 1, 1), Pair(1, 1, 1)>>}
Vectors == {<<Number(1, 1), Number(2, 1)>>}

Inserts == {[op |-> "INSERT", id |-> i, text |-> t, meta |-> m, floats |-> v] :
               i \in {Plain(1), Empty}, t \in Texts, m \in Metas, v \in Vectors}
Queries == {[op |-> "QUERY", top_k |-> k, meta |-> m, floats |-> v] :
               k \in 1..4, m \in Metas \union {<<Pair(1, 0, 1)>>}, v \in Vectors}
Others == {[op |-> "DELETE", id |-> <<Plain(1)>>], [op |-> "DELETE", id |-> <<Empty>>],
           [op |-> "SAVE"], [op |-> "LOAD"], [op |-> "OPTIMIZE"]}
All == Inserts \union Queries \union Others
=============================================================================
