----------------------------- MODULE ParserProofs -----------------------------
(***************************************************************************)
(* Theorems about Parser, for any tokens, requests and limits: the server  *)
(* reads of a line what the client that formatted it meant, and it ignores *)
(* no part of a line that it accepts, whoever formatted it.                *)
(***************************************************************************)
EXTENDS Parser, SequenceTheorems, WellFoundedInduction, TLAPS

-----------------------------------------------------------------------------
(* The bytes of a line.  What Bytes sums up is a function it chooses: that *)
(* there is one, and one only, is shown by a least counterexample.         *)

LEMMA LeastOf ==
    ASSUME NEW S \in SUBSET Nat, S # {}
    PROVE  \E n \in S : \A m \in S : n <= m
  <1>1. PICK n \in S : \A m \in S : <<m, n>> \notin OpToRel(<, Nat)
    <2>1. IsWellFoundedOn(OpToRel(<, Nat), Nat)
      BY NatLessThanWellFounded
    <2> QED
      BY <2>1, WFMin
  <1>2. \A m \in S : ~(m < n)
    BY <1>1 DEF OpToRel
  <1> QED
    BY <1>2

\* f sums up the tokens and the spaces before them.
IsSum(f, tokens) ==
    /\ f \in [0 .. Len(tokens) -> Int]
    /\ \A i \in 0 .. Len(tokens) : f[i] = IF i = 0 THEN -1 ELSE f[i - 1] + 1 + tokens[i].len

LEMMA TokenType ==
    ASSUME NEW s \in Seq(Tokens), NEW i \in 1 .. Len(s)
    PROVE  s[i] \in Tokens /\ s[i] \in Token /\ s[i].len \in Nat
  <1>1. s[i] \in Tokens
    OBVIOUS
  <1>2. s[i] \in Token
    BY <1>1, ParserAssumption
  <1> QED
    BY <1>1, <1>2 DEF Token

\* A part of a line has the tokens of the line.
LEMMA PartOf ==
    ASSUME NEW s \in Seq(Tokens), NEW i \in 1 .. Len(s) + 1, NEW j \in i - 1 .. Len(s)
    PROVE  /\ SubSeq(s, i, j) \in Seq(Tokens)
           /\ Len(SubSeq(s, i, j)) = j - i + 1
           /\ \A k \in 1 .. j - i + 1 : SubSeq(s, i, j)[k] = s[i + k - 1]
  <1>1. Len(s) \in Nat /\ \A k \in i .. j : s[k] \in Tokens
    OBVIOUS
  <1> QED
    BY <1>1

LEMMA SumExists ==
    ASSUME NEW s \in Seq(Tokens)
    PROVE  \E f : IsSum(f, s)
  <1> DEFINE part(m) == SubSeq(s, 1, m)
             Sum(f, m) == /\ f \in [0 .. m -> Int]
                          /\ \A i \in 0 .. m : f[i] = IF i = 0 THEN -1 ELSE f[i - 1] + 1 + s[i].len
             Without == {m \in 0 .. Len(s) : ~ \E f : Sum(f, m)}
  <1>1. ASSUME Without # {} PROVE FALSE
    <2>1. Without \in SUBSET Nat
      OBVIOUS
    <2>2. PICK m \in Without : \A i \in Without : m <= i
      <3> HIDE DEF Without
      <3> QED
        BY <1>1, <2>1, LeastOf
    <2>3. m # 0
      <3>1. Sum([i \in 0 .. 0 |-> -1], 0)
        OBVIOUS
      <3> HIDE DEF Sum
      <3> QED
        BY <3>1
    <2>4. m \in Nat /\ m \in 1 .. Len(s) /\ m - 1 \in 0 .. Len(s)
      <3>1. m \in 0 .. Len(s)
        OBVIOUS
      <3> HIDE DEF Without
      <3> QED
        BY <2>3, <3>1
    <2>5. m - 1 \notin Without
      <3> HIDE DEF Without
      <3> QED
        BY <2>2, <2>4
    <2>6. PICK f : Sum(f, m - 1)
      BY <2>4, <2>5
    <2> DEFINE g == [i \in 0 .. m |-> IF i = m THEN f[m - 1] + 1 + s[m].len ELSE f[i]]
    <2>7. s[m].len \in Nat
      BY <2>4, TokenType
    <2>8. \A i \in 0 .. m : i # m => i \in 0 .. m - 1
      BY <2>4
    <2>9. g \in [0 .. m -> Int]
      BY <2>4, <2>6, <2>7, <2>8
    <2>10. ASSUME NEW i \in 0 .. m
           PROVE  g[i] = IF i = 0 THEN -1 ELSE g[i - 1] + 1 + s[i].len
      <3>1. i # 0 => i - 1 \in 0 .. m /\ i - 1 # m /\ g[i - 1] = f[i - 1]
        BY <2>4
      <3>2. CASE i = m
        BY <2>4, <3>1, <3>2
      <3>3. CASE i # m
        BY <2>6, <2>8, <3>1, <3>3
      <3> QED
        BY <3>2, <3>3
    <2>11. Sum(g, m)
      BY <2>9, <2>10
    <2> HIDE DEF Sum, g
    <2> QED
      BY <2>2, <2>11
  <1>2. Len(s) \in 0 .. Len(s)
    OBVIOUS
  <1>3. \E f : Sum(f, Len(s))
    BY <1>1, <1>2
  <1> QED
    BY <1>3 DEF IsSum

\* It grows from token to token.
LEMMA SumGrows ==
    ASSUME NEW s \in Seq(Tokens), NEW f, IsSum(f, s),
           NEW i \in 0 .. Len(s), NEW j \in 0 .. Len(s), i < j
    PROVE  f[i] < f[j]
  <1> DEFINE Bad == {k \in 0 .. Len(s) : i < k /\ ~(f[i] < f[k])}
  <1>0. Len(s) \in Nat /\ f \in [0 .. Len(s) -> Int]
    BY DEF IsSum
  <1>1. ASSUME Bad # {} PROVE FALSE
    <2>1. PICK k \in Bad : \A m \in Bad : k <= m
      <3>1. Bad \in SUBSET Nat
        OBVIOUS
      <3> HIDE DEF Bad
      <3> QED
        BY <1>1, <3>1, LeastOf
    <2>2. k \in 1 .. Len(s) /\ k - 1 \in 0 .. Len(s) /\ i <= k - 1 /\ k - 1 < k
      BY <1>0
    <2>3. f[k] = f[k - 1] + 1 + s[k].len /\ f[k] \in Int /\ f[k - 1] \in Int /\ f[i] \in Int
      <3>1. k \in 0 .. Len(s) /\ k # 0
        BY <2>2
      <3> HIDE DEF Bad
      <3> QED
        BY <1>0, <2>2, <3>1 DEF IsSum
    <2>4. s[k].len \in Nat
      BY <2>2, TokenType
    <2>5. f[k - 1] < f[k]
      BY <2>3, <2>4
    <2>6. k - 1 \notin Bad
      <3> HIDE DEF Bad
      <3> QED
        BY <2>1, <2>2
    <2>7. i = k - 1 \/ f[i] < f[k - 1]
      BY <2>2, <2>6
    <2> QED
      BY <2>3, <2>5, <2>7
  <1> QED
    BY <1>1

\* There is one sum: of two, no token is the first where they differ.
LEMMA SumsAgree ==
    ASSUME NEW s \in Seq(Tokens), NEW i \in 0 .. Len(s), NEW f, IsSum(f, s), NEW g,
           \A k \in 0 .. Len(s) : g[k] = IF k = 0 THEN -1 ELSE g[k - 1] + 1 + s[k].len
    PROVE  f[i] = g[i]
  <1> DEFINE Bad == {k \in 0 .. Len(s) : f[k] # g[k]}
  <1>1. ASSUME Bad # {} PROVE FALSE
    <2>1. PICK k \in Bad : \A m \in Bad : k <= m
      <3>1. Bad \in SUBSET Nat
        OBVIOUS
      <3> HIDE DEF Bad
      <3> QED
        BY <1>1, <3>1, LeastOf
    <2>2. k # 0
      BY DEF IsSum
    <2>3. k - 1 \in 0 .. Len(s) /\ k \in 0 .. Len(s) /\ ~(k <= k - 1)
      BY <2>2
    <2>4. f[k - 1] = g[k - 1]
      <3>1. k - 1 \notin Bad
        <4> HIDE DEF Bad
        <4> QED
          BY <2>1, <2>3
      <3> QED
        BY <2>3, <3>1
    <2> QED
      BY <2>2, <2>3, <2>4 DEF IsSum
  <1> QED
    BY <1>1

\* Bytes is its last value.
LEMMA BytesIsSum ==
    ASSUME NEW s \in Seq(Tokens), NEW f, IsSum(f, s)
    PROVE  Bytes(s) = f[Len(s)]
  <1> DEFINE Def(g) == g = [i \in 0 .. Len(s) |-> IF i = 0 THEN -1 ELSE g[i - 1] + 1 + s[i].len]
             upto == CHOOSE g : Def(g)
  <1>1. Def(f)
    BY DEF IsSum
  <1>2. Def(upto)
    <2> HIDE DEF Def
    <2> QED
      BY <1>1
  <1>3. Bytes(s) = upto[Len(s)]
    BY DEF Bytes
  <1>4. \A k \in 0 .. Len(s) : upto[k] = IF k = 0 THEN -1 ELSE upto[k - 1] + 1 + s[k].len
    <2> HIDE DEF upto
    <2> QED
      BY <1>2
  <1>5. Len(s) \in 0 .. Len(s)
    OBVIOUS
  <1>6. f[Len(s)] = upto[Len(s)]
    <2> HIDE DEF upto
    <2> QED
      BY <1>4, <1>5, SumsAgree
  <1> QED
    BY <1>3, <1>6

\* A part of a line from its start is a sum up to there.
LEMMA PrefixIsSum ==
    ASSUME NEW s \in Seq(Tokens), NEW f, IsSum(f, s), NEW k \in 0 .. Len(s)
    PROVE  Bytes(SubSeq(s, 1, k)) = f[k]
  <1> DEFINE p == SubSeq(s, 1, k)
             g == [i \in 0 .. k |-> f[i]]
  <1>1. p \in Seq(Tokens) /\ Len(p) = k /\ \A i \in 1 .. k : p[i] = s[i]
    OBVIOUS
  <1>2. g \in [0 .. k -> Int]
    BY DEF IsSum
  <1>3. ASSUME NEW i \in 0 .. k
        PROVE  g[i] = IF i = 0 THEN -1 ELSE g[i - 1] + 1 + p[i].len
    <2>1. i \in 0 .. Len(s) /\ (i # 0 => i - 1 \in 0 .. k /\ i \in 1 .. k)
      OBVIOUS
    <2>2. f[i] = IF i = 0 THEN -1 ELSE f[i - 1] + 1 + s[i].len
      BY <2>1 DEF IsSum
    <2>3. i # 0 => p[i] = s[i]
      BY <1>1, <2>1
    <2> HIDE DEF p
    <2> QED
      BY <2>1, <2>2, <2>3
  <1>4. IsSum(g, p)
    <2> HIDE DEF g, p
    <2> QED
      BY <1>1, <1>2, <1>3 DEF IsSum
  <1>5. Bytes(p) = g[Len(p)]
    <2> HIDE DEF g, p
    <2> QED
      BY <1>1, <1>4, BytesIsSum
  <1>6. k \in 0 .. k
    OBVIOUS
  <1> QED
    BY <1>1, <1>5, <1>6

\* The longer of two parts from the start has more bytes, so that a number of
\* bytes says where a text ends.
LEMMA LongerHasMore ==
    ASSUME NEW s \in Seq(Tokens), NEW i \in 0 .. Len(s), NEW j \in 0 .. Len(s), i < j
    PROVE  /\ Bytes(SubSeq(s, 1, i)) \in Int
           /\ Bytes(SubSeq(s, 1, j)) \in Int
           /\ Bytes(SubSeq(s, 1, i)) < Bytes(SubSeq(s, 1, j))
  <1>1. PICK f : IsSum(f, s)
    BY SumExists
  <1>2. Bytes(SubSeq(s, 1, i)) = f[i] /\ Bytes(SubSeq(s, 1, j)) = f[j]
    BY <1>1, PrefixIsSum
  <1>3. f[i] < f[j]
    BY <1>1, SumGrows
  <1>4. f[i] \in Int /\ f[j] \in Int
    BY <1>1 DEF IsSum
  <1> QED
    BY <1>2, <1>3, <1>4

\* What has a token has no less than no bytes; one token has its own.
LEMMA BytesType ==
    ASSUME NEW s \in Seq(Tokens), s # <<>>
    PROVE  /\ Bytes(s) \in Nat
           /\ Len(s) = 1 => Bytes(s) = s[1].len
  <1>1. PICK f : IsSum(f, s)
    BY SumExists
  <1>2. Len(s) \in Nat /\ Len(s) > 0
    OBVIOUS
  <1>3. 0 \in 0 .. Len(s) /\ 1 \in 0 .. Len(s) /\ Len(s) \in 0 .. Len(s) /\ 1 \in 1 .. Len(s)
    BY <1>2
  <1>4. s[1].len \in Nat
    BY <1>3, TokenType
  <1>5. f[0] = -1 /\ f[1] = f[1 - 1] + 1 + s[1].len /\ f[Len(s)] \in Int
    BY <1>1, <1>3 DEF IsSum
  <1>6. f[1] = s[1].len
    BY <1>4, <1>5
  <1>7. Len(s) # 1 => f[1] < f[Len(s)]
    <2>1. \A n \in Nat : n > 0 /\ n # 1 => 1 < n
      OBVIOUS
    <2>2. Len(s) # 1 => 1 < Len(s)
      BY <1>2, <2>1
    <2> QED
      BY <1>1, <1>3, <2>2, SumGrows
  <1>8. Bytes(s) = f[Len(s)]
    BY <1>1, BytesIsSum
  <1>9. f[Len(s)] \in Nat
    <2>1. CASE Len(s) = 1
      BY <1>4, <1>6, <2>1
    <2>2. CASE Len(s) # 1
      <3>1. \A a \in Nat, b \in Int : a < b => b \in Nat
        OBVIOUS
      <3> QED
        BY <1>4, <1>5, <1>6, <1>7, <2>2, <3>1
    <2> QED
      BY <2>1, <2>2
  <1> QED
    BY <1>6, <1>8, <1>9

-----------------------------------------------------------------------------
(* The metadata and the floats.                                            *)

LEMMA MetaEndType ==
    ASSUME NEW s \in Seq(Tokens), NEW i \in 1 .. Len(s) + 1
    PROVE  MetaEnd(s, i) \in i .. Len(s) + 1
  <1> DEFINE plain == {j \in i .. Len(s) : s[j].eq = 0}
  <1>1. CASE plain = {}
    BY <1>1 DEF MetaEnd
  <1>2. CASE plain # {}
    <2>1. plain \in SUBSET Nat
      OBVIOUS
    <2>2. \E j \in plain : \A k \in plain : j <= k
      <3> HIDE DEF plain
      <3> QED
        BY <1>2, <2>1, LeastOf
    <2>3. MetaEnd(s, i) = CHOOSE j \in plain : \A k \in plain : j <= k
      BY <1>2 DEF MetaEnd
    <2>4. MetaEnd(s, i) \in plain
      <3> HIDE DEF plain
      <3> QED
        BY <2>2, <2>3
    <2> QED
      BY <2>4
  <1> QED
    BY <1>1, <1>2

\* The metadata ends where '=' does.
LEMMA MetaEndIs ==
    ASSUME NEW s \in Seq(Tokens), NEW i \in 1 .. Len(s) + 1, NEW k \in i .. Len(s),
           s[k].eq = 0, \A j \in i .. k - 1 : s[j].eq # 0
    PROVE  MetaEnd(s, i) = k
  <1> DEFINE plain == {j \in i .. Len(s) : s[j].eq = 0}
  <1>1. k \in plain /\ plain # {}
    OBVIOUS
  <1>2. \A j \in plain : k <= j
    OBVIOUS
  <1>3. \A j \in plain : (\A l \in plain : j <= l) <=> j = k
    <2>1. \A j \in plain : j \in Int
      OBVIOUS
    <2> HIDE DEF plain
    <2> QED
      BY <1>1, <1>2, <2>1
  <1>4. MetaEnd(s, i) = CHOOSE j \in plain : \A l \in plain : j <= l
    BY <1>1 DEF MetaEnd
  <1> HIDE DEF plain
  <1> QED
    BY <1>1, <1>3, <1>4

\* Where there are as many floats as the line has tokens left, they are read.
LEMMA FloatsThere ==
    ASSUME NEW s \in Seq(Tokens), NEW i \in 1 .. Len(s), i + DIMENSIONS - 1 = Len(s),
           \A j \in i .. Len(s) : s[j].float
    PROVE  Floats(s, i) = {SubSeq(s, i, Len(s))}
  <1> DEFINE n == Len(s)
             last == SubSeq(s, n, n)
  <1>1. n \in Nat /\ n \in 1 .. n /\ DIMENSIONS \in Nat \ {0}
    BY ParserAssumption
  <1>2. last \in Seq(Tokens) /\ Len(last) = 1 /\ last[1] = s[n]
    BY <1>1
  <1>3. LastFloat(last) = {s[n]}
    <2>1. DOMAIN last = {1} /\ last[1].float
      BY <1>1, <1>2
    <2>2. \A x : x \in LastFloat(last) <=> x = last[1]
      <3> HIDE DEF last
      <3> QED
        BY <2>1 DEF LastFloat
    <2> QED
      BY <1>2, <2>2
  <1>4. Append(SubSeq(s, i, n - 1), s[n]) = SubSeq(s, i, n)
    BY <1>1
  <1>5. ~(i + DIMENSIONS - 1 > n) /\ ~ \E j \in i .. i + DIMENSIONS - 1 - 1 : ~s[j].float
    BY <1>1
  <1>6. Floats(s, i) = {Append(SubSeq(s, i, n - 1), f) : f \in LastFloat(last)}
    <2> DEFINE k == i + DIMENSIONS - 1
    <2>1. Floats(s, i) =
            {Append(SubSeq(s, i, k - 1), f) : f \in LastFloat(SubSeq(s, k, Len(s)))}
      BY <1>5 DEF Floats
    <2>2. k = n
      OBVIOUS
    <2> HIDE DEF k
    <2> QED
      BY <2>1, <2>2
  <1> HIDE DEF last
  <1> QED
    BY <1>3, <1>4, <1>6

\* Whatever is read is what the line has, and the rest of it is empty.
LEMMA FloatsRead ==
    ASSUME NEW s \in Seq(Tokens), NEW i \in 1 .. Len(s) + 1, NEW floats \in Floats(s, i)
    PROVE  LET last == i + DIMENSIONS - 1 IN
           /\ last \in i .. Len(s)
           /\ floats \in Seq(Tokens) /\ Len(floats) = DIMENSIONS
           /\ Front(floats) = SubSeq(s, i, last - 1)
           /\ \E k \in last .. Len(s) :
               /\ s[k] = Last(floats)
               /\ \A j \in last .. Len(s) : j # k => s[j].len = 0
  <1> DEFINE last == i + DIMENSIONS - 1
             rest == SubSeq(s, last, Len(s))
  <1>1. DIMENSIONS \in Nat \ {0} /\ Len(s) \in Nat
    BY ParserAssumption
  <1>2. last <= Len(s)
    BY <1>1 DEF Floats
  <1>3. last \in i .. Len(s) /\ last \in 1 .. Len(s)
    BY <1>1, <1>2
  <1>4. PICK f \in LastFloat(rest) : floats = Append(SubSeq(s, i, last - 1), f)
    BY <1>3 DEF Floats
  <1>5. rest \in Seq(Tokens) /\ Len(rest) = Len(s) - last + 1
        /\ \A j \in 1 .. Len(rest) : rest[j] = s[last + j - 1]
    BY <1>1, <1>3
  <1>6. PICK k \in DOMAIN rest : rest[k] = f /\ \A j \in DOMAIN rest : j # k => rest[j].len = 0
    BY <1>4 DEF LastFloat
  <1>7. DOMAIN rest = 1 .. Len(rest)
    BY <1>5
  <1>8. last + k - 1 \in last .. Len(s) /\ s[last + k - 1] = f /\ f \in Tokens
    <2> HIDE DEF last, rest
    <2> QED
      BY <1>1, <1>3, <1>5, <1>6, <1>7
  <1>9. ASSUME NEW j \in last .. Len(s), j # last + k - 1
        PROVE  s[j].len = 0
    <2>1. j - last + 1 \in 1 .. Len(rest) /\ j - last + 1 # k /\ last + (j - last + 1) - 1 = j
      <3> HIDE DEF last, rest
      <3> QED
        BY <1>1, <1>3, <1>5, <1>6, <1>7, <1>9
    <2> HIDE DEF last, rest
    <2> QED
      BY <1>5, <1>6, <1>7, <2>1
  <1>10. SubSeq(s, i, last - 1) \in Seq(Tokens) /\ Len(SubSeq(s, i, last - 1)) = DIMENSIONS - 1
    BY <1>1, <1>3
  <1>11. /\ floats \in Seq(Tokens) /\ Len(floats) = DIMENSIONS
         /\ Front(floats) = SubSeq(s, i, last - 1) /\ Last(floats) = f
    <2> DEFINE front == SubSeq(s, i, last - 1)
    <2>1. front \in Seq(Tokens) /\ Len(front) = DIMENSIONS - 1 /\ floats = Append(front, f)
      BY <1>4, <1>10
    <2> HIDE DEF front
    <2>2. floats \in Seq(Tokens) /\ Len(floats) = DIMENSIONS
      BY <1>1, <1>8, <2>1
    <2>3. Front(floats) = front /\ Last(floats) = f
      BY <1>1, <1>8, <2>1, <2>2 DEF Front, Last
    <2> QED
      BY <2>2, <2>3 DEF front
  <1> QED
    BY <1>3, <1>8, <1>9, <1>11

-----------------------------------------------------------------------------
(* The client's lines.                                                     *)

\* A part of a line that has the tokens of t is t.
LEMMA PartIs ==
    ASSUME NEW s \in Seq(Tokens), NEW t \in Seq(Tokens), NEW i \in 1 .. Len(s) + 1,
           i + Len(t) - 1 <= Len(s), \A k \in 1 .. Len(t) : s[i + k - 1] = t[k]
    PROVE  SubSeq(s, i, i + Len(t) - 1) = t
  <1> DEFINE j == i + Len(t) - 1
  <1>1. Len(s) \in Nat /\ Len(t) \in Nat /\ i \in Nat /\ j \in i - 1 .. Len(s) /\ j - i + 1 = Len(t)
    OBVIOUS
  <1> HIDE DEF j
  <1>2. /\ SubSeq(s, i, j) \in Seq(Tokens)
        /\ Len(SubSeq(s, i, j)) = j - i + 1
        /\ \A k \in 1 .. j - i + 1 : SubSeq(s, i, j)[k] = s[i + k - 1]
    BY <1>1, PartOf
  <1>3. SubSeq(s, i, j) = t
    BY <1>1, <1>2, SeqEqual
  <1> QED
    BY <1>3 DEF j

\* What the client writes for a number is one.
LEMMA WrittenIs ==
    ASSUME NEW n \in Int, \E t \in Tokens : t.int = n /\ t.whole
    PROVE  /\ Written(n) \in Tokens /\ Written(n).int = n /\ Written(n).whole
           /\ IsInt(Written(n)) /\ Written(n).len \in Nat \ {0} /\ Written(n).eq = 0
  <1>1. Written(n) \in Tokens /\ Written(n).int = n /\ Written(n).whole
    BY DEF Written
  <1>2. IsInt(Written(n))
    BY <1>1, ParserAssumption DEF IsInt
  <1>3. Written(n) \in Token /\ Written(n).len > 0 /\ Written(n).eq = 0
    BY <1>1, <1>2, ParserAssumption
  <1> QED
    BY <1>1, <1>2, <1>3 DEF Token

\* The metadata and the floats of an INSERT or a QUERY.
LEMMA RequestType ==
    ASSUME NEW r \in Requests, Sends(r), r.op \in {"INSERT", "QUERY"}
    PROVE  /\ r.meta \in Seq(Tokens) /\ Len(r.meta) <= META_DATA_KP_PAIRS
           /\ \A k \in 1 .. Len(r.meta) :
               /\ r.meta[k] \in Token /\ r.meta[k].eq = 1
               /\ r.meta[k].key <= META_DATA_LENGTH /\ r.meta[k].val <= META_DATA_LENGTH
           /\ r.floats \in Seq(Tokens) /\ Len(r.floats) = DIMENSIONS
           /\ \A k \in 1 .. DIMENSIONS : r.floats[k].float /\ r.floats[k].eq = 0
  <1>1. r.meta \in Seq(Tokens) /\ r.floats \in Seq({t \in Tokens : t.float})
    BY RequestAssumption
  <1>2. r.floats \in Seq(Tokens) /\ Len(r.floats) = DIMENSIONS
    <2>1. {t \in Tokens : t.float} \subseteq Tokens
      OBVIOUS
    <2> QED
      BY <1>1, <2>1, SeqMonotonic DEF Sends
  <1>3. ASSUME NEW k \in 1 .. DIMENSIONS
        PROVE  r.floats[k].float /\ r.floats[k].eq = 0
    <2>1. r.floats[k] \in {t \in Tokens : t.float}
      BY <1>1, <1>2, ElementOfSeq
    <2> QED
      BY <2>1, ParserAssumption
  <1>4. DOMAIN r.meta = 1 .. Len(r.meta)
    BY <1>1
  <1>5. \A k \in 1 .. Len(r.meta) : r.meta[k] \in Token
    BY <1>1, TokenType
  <1> QED
    BY <1>1, <1>2, <1>3, <1>4, <1>5 DEF Sends

\* The server reads the metadata and the floats of a request where they are,
\* and refuses none but an empty key or value.
LEMMA FieldsThere ==
    ASSUME NEW r \in Requests, Sends(r), r.op \in {"INSERT", "QUERY"},
           NEW s \in Seq(Tokens), NEW i \in 1 .. Len(s),
           Len(s) = i - 1 + Len(r.meta) + DIMENSIONS,
           \A k \in 1 .. Len(r.meta) : s[i + k - 1] = r.meta[k],
           \A k \in 1 .. DIMENSIONS : s[i + Len(r.meta) + k - 1] = r.floats[k]
    PROVE  /\ MetaEnd(s, i) = i + Len(r.meta)
           /\ SubSeq(s, i, i + Len(r.meta) - 1) = r.meta
           /\ Floats(s, i + Len(r.meta)) = {r.floats}
           /\ MetaOK(r.meta) <=>
                  ~ \E k \in DOMAIN r.meta : r.meta[k].key = 0 \/ r.meta[k].val = 0
  <1> DEFINE m == Len(r.meta)
             b == i + m
  <1>1. /\ r.meta \in Seq(Tokens) /\ Len(r.meta) <= META_DATA_KP_PAIRS
        /\ \A k \in 1 .. Len(r.meta) :
            /\ r.meta[k] \in Token /\ r.meta[k].eq = 1
            /\ r.meta[k].key <= META_DATA_LENGTH /\ r.meta[k].val <= META_DATA_LENGTH
        /\ r.floats \in Seq(Tokens) /\ Len(r.floats) = DIMENSIONS
        /\ \A k \in 1 .. DIMENSIONS : r.floats[k].float /\ r.floats[k].eq = 0
    BY RequestType
  <1>2. DIMENSIONS \in Nat \ {0} /\ m \in Nat /\ Len(s) \in Nat /\ i \in Nat \ {0}
    <2>1. DIMENSIONS \in Nat \ {0}
      BY ParserAssumption
    <2>2. m \in Nat
      BY <1>1
    <2>3. Len(s) \in Nat /\ i \in Nat \ {0}
      OBVIOUS
    <2> QED
      BY <2>1, <2>2, <2>3
  <1>3. b \in i .. Len(s) /\ b \in 1 .. Len(s) /\ b + DIMENSIONS - 1 = Len(s) /\ b \in Nat
    BY <1>2
  <1>4. MetaEnd(s, i) = b
    <2>1. s[b].eq = 0
      <3>1. 1 \in 1 .. DIMENSIONS /\ i + Len(r.meta) + 1 - 1 = b
        BY <1>2, <1>3
      <3>2. s[b] = r.floats[1]
        BY <3>1
      <3> QED
        BY <1>1, <3>1, <3>2
    <2>2. ASSUME NEW j \in i .. b - 1 PROVE s[j].eq # 0
      <3>1. j - i + 1 \in 1 .. m /\ i + (j - i + 1) - 1 = j
        BY <1>2
      <3>2. s[j] = r.meta[j - i + 1]
        BY <3>1
      <3>3. r.meta[j - i + 1].eq = 1
        BY <1>1, <3>1
      <3> QED
        BY <3>2, <3>3
    <2>3. i \in 1 .. Len(s) + 1
      BY <1>2
    <2> QED
      BY <1>3, <2>1, <2>2, <2>3, MetaEndIs
  <1>5. SubSeq(s, i, b - 1) = r.meta
    <2>1. i \in 1 .. Len(s) + 1 /\ i + Len(r.meta) - 1 <= Len(s)
      BY <1>2
    <2> QED
      BY <1>1, <2>1, PartIs
  <1>6. Floats(s, b) = {r.floats}
    <2>1. ASSUME NEW j \in b .. Len(s) PROVE s[j].float
      <3>1. j - b + 1 \in 1 .. DIMENSIONS /\ b + (j - b + 1) - 1 = j
        <4> HIDE DEF b
        <4> QED
          BY <1>2, <1>3
      <3>2. s[j] = r.floats[j - b + 1]
        BY <3>1
      <3>3. r.floats[j - b + 1].float
        BY <1>1, <3>1
      <3> QED
        BY <3>2, <3>3
    <2>2. Floats(s, b) = {SubSeq(s, b, Len(s))}
      <3> HIDE DEF b
      <3> QED
        BY <1>3, <2>1, FloatsThere
    <2>3. SubSeq(s, b, b + Len(r.floats) - 1) = r.floats
      <3>1. b \in 1 .. Len(s) + 1 /\ b + Len(r.floats) - 1 <= Len(s)
        BY <1>1, <1>2, <1>3
      <3>2. \A k \in 1 .. Len(r.floats) : s[b + k - 1] = r.floats[k]
        BY <1>1
      <3> HIDE DEF b
      <3> QED
        BY <1>1, <3>1, <3>2, PartIs
    <2> QED
      BY <1>1, <1>3, <2>2, <2>3
  <1>7. MetaOK(r.meta) <=> ~ \E k \in DOMAIN r.meta : r.meta[k].key = 0 \/ r.meta[k].val = 0
    <2>1. DOMAIN r.meta = 1 .. m
      BY <1>1
    <2>2. META_DATA_LENGTH \in Nat
      BY ParserAssumption
    <2>3. ASSUME NEW k \in 1 .. m
          PROVE  PairOK(r.meta[k]) <=> ~(r.meta[k].key = 0 \/ r.meta[k].val = 0)
      <3>1. /\ r.meta[k] \in Token /\ r.meta[k].eq = 1
            /\ r.meta[k].key <= META_DATA_LENGTH /\ r.meta[k].val <= META_DATA_LENGTH
        BY <1>1
      <3>2. r.meta[k].key \in Nat /\ r.meta[k].val \in Nat
        BY <3>1 DEF Token
      <3> QED
        BY ONLY <2>2, <3>1, <3>2 DEF PairOK
    <2> QED
      BY <1>1, <2>1, <2>3 DEF MetaOK
  <1> QED
    BY <1>4, <1>5, <1>6, <1>7

\* Where the tokens of two lines are in the line they make.
LEMMA Joined ==
    ASSUME NEW s \in Seq(Tokens), NEW t \in Seq(Tokens)
    PROVE  /\ s \o t \in Seq(Tokens)
           /\ Len(s \o t) = Len(s) + Len(t)
           /\ \A k \in 1 .. Len(s) : (s \o t)[k] = s[k]
           /\ \A k \in 1 .. Len(t) : (s \o t)[Len(s) + k] = t[k]
  <1> DEFINE c == s \o t
  <1>1. /\ c \in Seq(Tokens) /\ Len(c) = Len(s) + Len(t)
        /\ \A i \in 1 .. Len(s) + Len(t) : c[i] = IF i <= Len(s) THEN s[i] ELSE t[i - Len(s)]
    BY ConcatProperties
  <1>2. Len(s) \in Nat /\ Len(t) \in Nat
    OBVIOUS
  <1> HIDE DEF c
  <1>3. ASSUME NEW k \in 1 .. Len(s) PROVE c[k] = s[k]
    <2>1. k \in 1 .. Len(s) + Len(t) /\ k <= Len(s)
      BY <1>2
    <2> QED
      BY <1>1, <2>1
  <1>4. ASSUME NEW k \in 1 .. Len(t) PROVE c[Len(s) + k] = t[k]
    <2>1. /\ Len(s) + k \in 1 .. Len(s) + Len(t) /\ ~(Len(s) + k <= Len(s))
          /\ Len(s) + k - Len(s) = k
      BY <1>2
    <2>2. c[Len(s) + k] = t[Len(s) + k - Len(s)]
      BY <1>1, <2>1
    <2> QED
      BY <2>1, <2>2
  <1> QED
    BY <1>1, <1>3, <1>4 DEF c

\* What is where in the line of a QUERY.
LEMMA QueryLine ==
    ASSUME NEW r \in Requests, Sends(r), r.op = "QUERY"
    PROVE  LET s == Format(r)
               m == Len(r.meta)
           IN  /\ s \in Seq(Tokens) /\ Len(s) = 2 + m + DIMENSIONS
               /\ s[1] = Written(r.top_k) /\ s[2] = Written(DIMENSIONS)
               /\ \A k \in 1 .. m : s[2 + k] = r.meta[k]
               /\ \A k \in 1 .. DIMENSIONS : s[2 + m + k] = r.floats[k]
  <1> DEFINE m == Len(r.meta)
             head == <<Written(r.top_k), Written(DIMENSIONS)>>
             front == head \o r.meta
             s == front \o r.floats
  <1>1. r.meta \in Seq(Tokens) /\ r.floats \in Seq(Tokens) /\ Len(r.floats) = DIMENSIONS
    BY RequestType
  <1>2. DIMENSIONS \in Nat \ {0} /\ m \in Nat
    BY <1>1, ParserAssumption
  <1>3. Written(r.top_k) \in Tokens /\ Written(DIMENSIONS) \in Tokens
    <2>1. r.top_k \in Int /\ \E t \in Tokens : t.int = r.top_k /\ t.whole
      BY RequestAssumption
    <2>2. DIMENSIONS \in Int /\ \E t \in Tokens : t.int = DIMENSIONS /\ t.whole
      BY <1>2, RequestAssumption
    <2> QED
      BY <2>1, <2>2, WrittenIs
  <1>4. /\ head \in Seq(Tokens) /\ Len(head) = 2
        /\ head[1] = Written(r.top_k) /\ head[2] = Written(DIMENSIONS)
    BY <1>3
  <1>5. s = Format(r)
    BY DEF Format
  <1> HIDE DEF head
  <1>6. /\ front \in Seq(Tokens) /\ Len(front) = 2 + m
        /\ \A k \in 1 .. 2 : front[k] = head[k]
        /\ \A k \in 1 .. m : front[2 + k] = r.meta[k]
    <2>1. /\ front \in Seq(Tokens) /\ Len(front) = Len(head) + Len(r.meta)
          /\ \A k \in 1 .. Len(head) : front[k] = head[k]
          /\ \A k \in 1 .. Len(r.meta) : front[Len(head) + k] = r.meta[k]
      BY <1>1, <1>4, Joined
    <2> HIDE DEF front
    <2> QED
      BY <1>1, <1>4, <2>1
  <1> HIDE DEF front, m
  <1>7. /\ s \in Seq(Tokens) /\ Len(s) = 2 + m + DIMENSIONS
        /\ \A k \in 1 .. 2 + m : s[k] = front[k]
        /\ \A k \in 1 .. DIMENSIONS : s[2 + m + k] = r.floats[k]
    <2>1. /\ s \in Seq(Tokens) /\ Len(s) = Len(front) + Len(r.floats)
          /\ \A k \in 1 .. Len(front) : s[k] = front[k]
          /\ \A k \in 1 .. Len(r.floats) : s[Len(front) + k] = r.floats[k]
      BY <1>1, <1>6, Joined
    <2> HIDE DEF s
    <2> QED
      BY <1>1, <1>6, <2>1
  <1> HIDE DEF s
  <1>8. /\ 1 \in 1 .. 2 /\ 2 \in 1 .. 2 /\ 1 \in 1 .. 2 + m /\ 2 \in 1 .. 2 + m
        /\ \A k \in 1 .. m : 2 + k \in 1 .. 2 + m
    BY <1>2
  <1> QED
    BY <1>4, <1>5, <1>6, <1>7, <1>8 DEF m

\* The server reads it as it was meant.
LEMMA QueryRead ==
    ASSUME NEW r \in Requests, Sends(r), r.op = "QUERY"
    PROVE  LET p == query_parsing(Format(r)) IN
           /\ p.ok <=> ~SomethingIsEmpty(r)
           /\ p.ok => p.fields = [top_k |-> IF r.top_k > MAX_K_SIMILAR THEN MAX_K_SIMILAR ELSE r.top_k,
                                  meta |-> r.meta, floats |-> r.floats]
  <1> DEFINE s == Format(r)
             m == Len(r.meta)
             k == Written(r.top_k)
             d == Written(DIMENSIONS)
  <1>1. /\ s \in Seq(Tokens) /\ Len(s) = 2 + m + DIMENSIONS
        /\ s[1] = k /\ s[2] = d
        /\ \A i \in 1 .. m : s[2 + i] = r.meta[i]
        /\ \A i \in 1 .. DIMENSIONS : s[2 + m + i] = r.floats[i]
    BY QueryLine
  <1>2. m \in Nat /\ DIMENSIONS \in Nat \ {0} /\ r.top_k \in Int /\ r.top_k >= 1
    <2>1. r.meta \in Seq(Tokens)
      BY RequestType
    <2>2. DIMENSIONS \in Nat \ {0}
      BY ParserAssumption
    <2>3. r.top_k \in Int
      BY RequestAssumption
    <2>4. r.top_k >= 1
      BY DEF Sends
    <2> QED
      BY <2>1, <2>2, <2>3, <2>4
  <1>3. k.int = r.top_k /\ IsInt(k) /\ k.len \in Nat \ {0}
    BY <1>2, WrittenIs, RequestAssumption
  <1>4. d.int = DIMENSIONS /\ IsInt(d) /\ d.len \in Nat \ {0}
    BY <1>2, WrittenIs, RequestAssumption
  <1> HIDE DEF s, m, k, d
  <1>5. Len(s) \in Nat /\ 2 < Len(s) /\ 3 \in 1 .. Len(s) /\ Len(s) = 3 - 1 + m + DIMENSIONS
    BY <1>1, <1>2
  <1>6. /\ MetaEnd(s, 3) = 3 + m
        /\ SubSeq(s, 3, 3 + m - 1) = r.meta
        /\ Floats(s, 3 + m) = {r.floats}
        /\ MetaOK(r.meta) <=> ~ \E i \in DOMAIN r.meta : r.meta[i].key = 0 \/ r.meta[i].val = 0
    <2>1. \A i \in 1 .. m : s[3 + i - 1] = r.meta[i]
      <3>1. \A i \in 1 .. m : 3 + i - 1 = 2 + i
        BY <1>2
      <3> QED
        BY <1>1, <3>1
    <2>2. \A i \in 1 .. DIMENSIONS : s[3 + m + i - 1] = r.floats[i]
      <3>1. \A i \in 1 .. DIMENSIONS : 3 + m + i - 1 = 2 + m + i
        BY <1>2
      <3> QED
        BY <1>1, <3>1
    <2> QED
      BY <1>1, <1>5, <2>1, <2>2, FieldsThere DEF m
  <1>7. ~(\/ ~Field(s, 1, Nat \ {0}) \/ ~IsInt(s[1]) \/ s[1].int < 1
          \/ ~Field(s, 2, Nat \ {0}) \/ ~IsInt(s[2]))
    <2>1. 1 < Len(s) /\ ~(r.top_k < 1)
      BY <1>2, <1>5
    <2> QED
      BY <1>1, <1>3, <1>4, <1>5, <2>1 DEF Field
  <1>8. s[2].int = DIMENSIONS /\ s[1].int = r.top_k
    BY <1>1, <1>3, <1>4
  <1>9. SubSeq(s, 3, MetaEnd(s, 3) - 1) = r.meta /\ Floats(s, MetaEnd(s, 3)) = {r.floats}
    <2>1. MetaEnd(s, 3) = 3 + m /\ SubSeq(s, 3, 3 + m - 1) = r.meta /\ Floats(s, 3 + m) = {r.floats}
      BY <1>6
    <2>2. MetaEnd(s, 3) \in Int /\ MetaEnd(s, 3) - 1 = 3 + m - 1
      BY <1>2, <2>1
    <2> QED
      BY <2>1, <2>2
  <1>10. (CHOOSE f \in {r.floats} : TRUE) = r.floats
    OBVIOUS
  <1> DEFINE fields == [top_k |-> IF r.top_k > MAX_K_SIMILAR THEN MAX_K_SIMILAR ELSE r.top_k,
                        meta |-> r.meta, floats |-> r.floats]
  <1>11. query_parsing(s) = IF MetaOK(r.meta) THEN Accepted(fields) ELSE Refused
    <2>1. {r.floats} # {}
      OBVIOUS
    <2> DEFINE e == MetaEnd(s, 3)
               read == [top_k |-> IF s[1].int > MAX_K_SIMILAR THEN MAX_K_SIMILAR ELSE s[1].int,
                        meta |-> SubSeq(s, 3, e - 1),
                        floats |-> CHOOSE f \in Floats(s, e) : TRUE]
    <2>2. query_parsing(s) =
              IF ~MetaOK(SubSeq(s, 3, e - 1)) \/ Floats(s, e) = {} THEN Refused ELSE Accepted(read)
      <3> HIDE DEF fields
      <3> QED
        BY <1>7, <1>8 DEF query_parsing
    <2>3. read = fields
      <3>1. (CHOOSE f \in Floats(s, e) : TRUE) = r.floats
        BY <1>9, <1>10
      <3> QED
        BY <1>8, <1>9, <3>1
    <2> HIDE DEF read, fields
    <2> QED
      BY <1>9, <2>1, <2>2, <2>3
  <1>12. MetaOK(r.meta) <=> ~SomethingIsEmpty(r)
    BY <1>6 DEF SomethingIsEmpty
  <1> HIDE DEF fields
  <1>13. query_parsing(s).ok <=> MetaOK(r.meta)
    BY <1>11 DEF Accepted, Refused
  <1>14. query_parsing(s).ok => query_parsing(s).fields = fields
    BY <1>11 DEF Accepted, Refused
  <1> QED
    BY <1>12, <1>13, <1>14 DEF s, fields

\* A DELETE has one token.
LEMMA DeleteRead ==
    ASSUME NEW r \in Requests, Sends(r), r.op = "DELETE"
    PROVE  LET p == delete_parsing(Format(r)) IN
           /\ Format(r) \in Seq(Tokens) \ {<<>>}
           /\ p.ok <=> ~SomethingIsEmpty(r)
           /\ p.ok => p.fields = [id |-> r.id]
  <1>1. Format(r) = r.id
    BY DEF Format
  <1>2. r.id \in Seq(Tokens) /\ Len(r.id) = 1 /\ Bytes(r.id) <= ID_LENGTH
    BY RequestAssumption DEF Sends
  <1>3. r.id # <<>>
    BY <1>2
  <1>4. Bytes(r.id) = r.id[1].len /\ Bytes(r.id) \in Nat
    BY <1>2, <1>3, BytesType
  <1>5. SomethingIsEmpty(r) <=> Bytes(r.id) = 0
    BY <1>4 DEF SomethingIsEmpty
  <1>6. Bytes(r.id) \in 1 .. ID_LENGTH <=> ~SomethingIsEmpty(r)
    <2>1. ID_LENGTH \in Nat
      BY ParserAssumption
    <2> QED
      BY <1>2, <1>4, <1>5, <2>1
  <1>7. delete_parsing(r.id) = IF ~SomethingIsEmpty(r) THEN Accepted([id |-> r.id]) ELSE Refused
    BY <1>6 DEF delete_parsing
  <1> QED
    BY <1>1, <1>2, <1>3, <1>7 DEF Accepted, Refused

\* What is where in the line of an INSERT.
LEMMA InsertLine ==
    ASSUME NEW r \in Requests, Sends(r), r.op = "INSERT"
    PROVE  LET s == Format(r)
               w == Len(r.text)
               m == Len(r.meta)
           IN  /\ s \in Seq(Tokens) /\ Len(s) = 3 + w + m + DIMENSIONS
               /\ s[1] = r.id /\ s[2] = Written(Bytes(r.text))
               /\ \A k \in 1 .. w : s[2 + k] = r.text[k]
               /\ s[3 + w] = Written(DIMENSIONS)
               /\ \A k \in 1 .. m : s[3 + w + k] = r.meta[k]
               /\ \A k \in 1 .. DIMENSIONS : s[3 + w + m + k] = r.floats[k]
  <1> DEFINE w == Len(r.text)
             m == Len(r.meta)
             n == Written(Bytes(r.text))
             d == Written(DIMENSIONS)
             head == <<r.id, n>>
             dims == <<d>>
             withText == head \o r.text
             withDims == withText \o dims
             front == withDims \o r.meta
             s == front \o r.floats
  <1>1. r.meta \in Seq(Tokens) /\ r.floats \in Seq(Tokens) /\ Len(r.floats) = DIMENSIONS
    BY RequestType
  <1>2. r.id \in Tokens /\ r.text \in Seq(Tokens) /\ r.text # <<>>
    BY RequestAssumption
  <1>3. DIMENSIONS \in Nat \ {0} /\ m \in Nat /\ w \in Nat
    BY <1>1, <1>2, ParserAssumption
  <1>4. n \in Tokens /\ d \in Tokens
    <2>1. Bytes(r.text) \in Int /\ \E t \in Tokens : t.int = Bytes(r.text) /\ t.whole
      <3>1. Bytes(r.text) \in Int
        BY <1>2, BytesType
      <3>2. \E t \in Tokens : t.int = Bytes(r.text) /\ t.whole
        BY RequestAssumption
      <3> QED
        BY <3>1, <3>2
    <2>2. DIMENSIONS \in Int /\ \E t \in Tokens : t.int = DIMENSIONS /\ t.whole
      BY <1>3, RequestAssumption
    <2> QED
      BY <2>1, <2>2, WrittenIs
  <1>5. s = Format(r)
    BY DEF Format
  <1> HIDE DEF n, d
  <1>6. head \in Seq(Tokens) /\ Len(head) = 2 /\ head[1] = r.id /\ head[2] = n
    BY <1>2, <1>4
  <1>7. dims \in Seq(Tokens) /\ Len(dims) = 1 /\ dims[1] = d
    BY <1>4
  <1> HIDE DEF head, dims
  <1>8. /\ withText \in Seq(Tokens) /\ Len(withText) = 2 + w
        /\ \A k \in 1 .. 2 : withText[k] = head[k]
        /\ \A k \in 1 .. w : withText[2 + k] = r.text[k]
    <2>1. /\ withText \in Seq(Tokens) /\ Len(withText) = Len(head) + Len(r.text)
          /\ \A k \in 1 .. Len(head) : withText[k] = head[k]
          /\ \A k \in 1 .. Len(r.text) : withText[Len(head) + k] = r.text[k]
      BY <1>2, <1>6, Joined
    <2> HIDE DEF withText
    <2> QED
      BY <1>2, <1>6, <2>1
  <1> HIDE DEF withText, w
  <1>9. /\ withDims \in Seq(Tokens) /\ Len(withDims) = 3 + w
        /\ \A k \in 1 .. 2 + w : withDims[k] = withText[k]
        /\ withDims[3 + w] = d
    <2>1. /\ withDims \in Seq(Tokens) /\ Len(withDims) = Len(withText) + Len(dims)
          /\ \A k \in 1 .. Len(withText) : withDims[k] = withText[k]
          /\ \A k \in 1 .. Len(dims) : withDims[Len(withText) + k] = dims[k]
      BY <1>7, <1>8, Joined
    <2>2. 2 + w + 1 = 3 + w /\ 1 \in 1 .. 1
      BY <1>3
    <2> HIDE DEF withDims
    <2> QED
      BY <1>7, <1>8, <2>1, <2>2
  <1> HIDE DEF withDims
  <1>10. /\ front \in Seq(Tokens) /\ Len(front) = 3 + w + m
         /\ \A k \in 1 .. 3 + w : front[k] = withDims[k]
         /\ \A k \in 1 .. m : front[3 + w + k] = r.meta[k]
    <2>1. /\ front \in Seq(Tokens) /\ Len(front) = Len(withDims) + Len(r.meta)
          /\ \A k \in 1 .. Len(withDims) : front[k] = withDims[k]
          /\ \A k \in 1 .. Len(r.meta) : front[Len(withDims) + k] = r.meta[k]
      BY <1>1, <1>9, Joined
    <2> HIDE DEF front
    <2> QED
      BY <1>1, <1>9, <2>1
  <1> HIDE DEF front, m
  <1>11. /\ s \in Seq(Tokens) /\ Len(s) = 3 + w + m + DIMENSIONS
         /\ \A k \in 1 .. 3 + w + m : s[k] = front[k]
         /\ \A k \in 1 .. DIMENSIONS : s[3 + w + m + k] = r.floats[k]
    <2>1. /\ s \in Seq(Tokens) /\ Len(s) = Len(front) + Len(r.floats)
          /\ \A k \in 1 .. Len(front) : s[k] = front[k]
          /\ \A k \in 1 .. Len(r.floats) : s[Len(front) + k] = r.floats[k]
      BY <1>1, <1>10, Joined
    <2> HIDE DEF s
    <2> QED
      BY <1>1, <1>10, <2>1
  <1> HIDE DEF s
  <1>12. ASSUME NEW k \in 1 .. 3 + w PROVE s[k] = withDims[k]
    <2>1. k \in 1 .. 3 + w + m
      BY <1>3
    <2> QED
      BY <1>10, <1>11, <2>1
  <1>13. ASSUME NEW k \in 1 .. 2 + w PROVE s[k] = withText[k]
    <2>1. k \in 1 .. 3 + w
      BY <1>3
    <2> QED
      BY <1>9, <1>12, <2>1
  <1>14. s[1] = r.id /\ s[2] = n
    <2>1. 1 \in 1 .. 2 /\ 2 \in 1 .. 2 /\ 1 \in 1 .. 2 + w /\ 2 \in 1 .. 2 + w
      BY <1>3
    <2> QED
      BY <1>6, <1>8, <1>13, <2>1
  <1>15. ASSUME NEW k \in 1 .. w PROVE s[2 + k] = r.text[k]
    <2>1. 2 + k \in 1 .. 2 + w
      BY <1>3
    <2> QED
      BY <1>8, <1>13, <2>1
  <1>16. s[3 + w] = d
    <2>1. 3 + w \in 1 .. 3 + w
      BY <1>3
    <2> QED
      BY <1>9, <1>12, <2>1
  <1>17. ASSUME NEW k \in 1 .. m PROVE s[3 + w + k] = r.meta[k]
    <2>1. 3 + w + k \in 1 .. 3 + w + m
      BY <1>3
    <2> QED
      BY <1>10, <1>11, <2>1
  <1> QED
    BY <1>5, <1>11, <1>14, <1>15, <1>16, <1>17 DEF n, d, m, w

\* A text is read to its end, whatever spaces are in it: text_length bytes on
\* there is one space.
LEMMA TextThere ==
    ASSUME NEW s \in Seq(Tokens), NEW t \in Seq(Tokens), t # <<>>, 2 + Len(t) < Len(s),
           \A k \in 1 .. Len(t) : s[2 + k] = t[k]
    PROVE  /\ SubSeq(s, 3, 2 + Len(t)) = t
           /\ TextEnds(s, Bytes(t)) = {2 + Len(t)}
  <1> DEFINE w == Len(t)
             n == Len(s)
             u == SubSeq(s, 3, n)
  <1>1. n \in Nat /\ w \in Nat \ {0} /\ 2 + w < n
    BY EmptySeq
  <1> HIDE DEF w, n
  <1>2. SubSeq(s, 3, 2 + w) = t
    <2>1. 3 \in 1 .. Len(s) + 1 /\ 3 + Len(t) - 1 <= Len(s) /\ 3 + Len(t) - 1 = 2 + w
      BY <1>1 DEF n, w
    <2>2. ASSUME NEW k \in 1 .. Len(t) PROVE s[3 + k - 1] = t[k]
      <3>1. 3 + k - 1 = 2 + k
        OBVIOUS
      <3> QED
        BY <3>1
    <2> QED
      BY <2>1, <2>2, PartIs
  <1>3. /\ u \in Seq(Tokens) /\ Len(u) = n - 2
        /\ \A k \in 1 .. n - 2 : u[k] = s[2 + k]
    <2>1. 3 \in 1 .. Len(s) + 1 /\ n \in 3 - 1 .. Len(s) /\ n - 3 + 1 = n - 2
      BY <1>1 DEF n
    <2>2. /\ u \in Seq(Tokens) /\ Len(u) = n - 2
          /\ \A k \in 1 .. n - 2 : u[k] = s[3 + k - 1]
      BY <2>1, PartOf
    <2>3. \A k \in 1 .. n - 2 : 3 + k - 1 = 2 + k
      BY <1>1
    <2> HIDE DEF u
    <2> QED
      BY <2>2, <2>3
  <1> HIDE DEF u
  <1>4. ASSUME NEW j \in 3 .. n - 1
        PROVE  SubSeq(s, 3, j) = SubSeq(u, 1, j - 2)
    <2> DEFINE p == SubSeq(u, 1, j - 2)
    <2>1. j \in Nat /\ j - 2 \in 1 .. n - 2 /\ j - 2 \in Nat
      BY <1>1
    <2>2. /\ p \in Seq(Tokens) /\ Len(p) = j - 2
          /\ \A k \in 1 .. j - 2 : p[k] = u[k]
      <3>1. 1 \in 1 .. Len(u) + 1 /\ j - 2 \in 1 - 1 .. Len(u) /\ j - 2 - 1 + 1 = j - 2
        BY <1>1, <1>3, <2>1
      <3>2. /\ p \in Seq(Tokens) /\ Len(p) = j - 2
            /\ \A k \in 1 .. j - 2 : p[k] = u[1 + k - 1]
        BY <1>3, <3>1, PartOf
      <3>3. \A k \in 1 .. j - 2 : 1 + k - 1 = k
        BY <2>1
      <3> HIDE DEF p
      <3> QED
        BY <3>2, <3>3
    <2> HIDE DEF p
    <2>3. 3 \in 1 .. Len(s) + 1 /\ 3 + Len(p) - 1 <= Len(s) /\ 3 + Len(p) - 1 = j
      BY <1>1, <2>1, <2>2 DEF n
    <2>4. ASSUME NEW k \in 1 .. Len(p) PROVE s[3 + k - 1] = p[k]
      <3>1. 3 + k - 1 = 2 + k /\ k \in 1 .. j - 2 /\ k \in 1 .. n - 2
        BY <1>1, <2>1, <2>2
      <3> QED
        BY <1>3, <2>2, <3>1
    <2> QED
      BY <2>2, <2>3, <2>4, PartIs DEF p
  <1>5. 2 + w \in 3 .. n - 1 /\ 2 + w - 2 = w
    BY <1>1
  <1>6. t = SubSeq(u, 1, w)
    <2> DEFINE j == 2 + w
    <2>1. j \in 3 .. n - 1 /\ j - 2 = w
      BY <1>1
    <2>2. SubSeq(s, 3, j) = t
      BY <1>2
    <2> HIDE DEF j
    <2>3. SubSeq(s, 3, j) = SubSeq(u, 1, j - 2)
      BY <1>4, <2>1
    <2> QED
      BY <2>1, <2>2, <2>3
  <1>7. ASSUME NEW j \in 3 .. n - 1
        PROVE  Bytes(SubSeq(s, 3, j)) = Bytes(t) <=> j = 2 + w
    <2>1. j - 2 \in 0 .. Len(u) /\ w \in 0 .. Len(u)
      BY <1>1, <1>3, <1>5
    <2>2. CASE j < 2 + w
      <3>1. j - 2 < w
        BY <1>1, <2>2
      <3>2. Bytes(SubSeq(u, 1, j - 2)) < Bytes(SubSeq(u, 1, w))
            /\ Bytes(SubSeq(u, 1, j - 2)) \in Int /\ Bytes(SubSeq(u, 1, w)) \in Int
        BY <1>3, <2>1, <3>1, LongerHasMore
      <3>3. Bytes(SubSeq(u, 1, j - 2)) # Bytes(SubSeq(u, 1, w)) /\ j # 2 + w
        BY <1>1, <2>2, <3>2
      <3> QED
        BY <1>4, <1>6, <3>3
    <2>3. CASE j > 2 + w
      <3>1. w < j - 2
        BY <1>1, <2>3
      <3>2. Bytes(SubSeq(u, 1, w)) < Bytes(SubSeq(u, 1, j - 2))
            /\ Bytes(SubSeq(u, 1, j - 2)) \in Int /\ Bytes(SubSeq(u, 1, w)) \in Int
        BY <1>3, <2>1, <3>1, LongerHasMore
      <3>3. Bytes(SubSeq(u, 1, j - 2)) # Bytes(SubSeq(u, 1, w)) /\ j # 2 + w
        BY <1>1, <2>3, <3>2
      <3> QED
        BY <1>4, <1>6, <3>3
    <2>4. CASE j = 2 + w
      BY <1>2, <2>4
    <2> QED
      BY <1>1, <2>2, <2>3, <2>4
  <1>8. \A x : x \in TextEnds(s, Bytes(t)) <=> x = 2 + w
    BY <1>5, <1>7 DEF TextEnds, n
  <1> QED
    BY <1>2, <1>8 DEF w

\* The server reads an INSERT as it was meant.
LEMMA InsertRead ==
    ASSUME NEW r \in Requests, Sends(r), r.op = "INSERT"
    PROVE  LET p == insert_parsing(Format(r)) IN
           /\ p.ok <=> ~SomethingIsEmpty(r)
           /\ p.ok => p.fields = [id |-> r.id, text |-> r.text, meta |-> r.meta, floats |-> r.floats]
  <1> DEFINE s == Format(r)
             w == Len(r.text)
             m == Len(r.meta)
             b == Bytes(r.text)
             n == Written(b)
             d == Written(DIMENSIONS)
  <1>1. /\ s \in Seq(Tokens) /\ Len(s) = 3 + w + m + DIMENSIONS
        /\ s[1] = r.id /\ s[2] = n
        /\ \A k \in 1 .. w : s[2 + k] = r.text[k]
        /\ s[3 + w] = d
        /\ \A k \in 1 .. m : s[3 + w + k] = r.meta[k]
        /\ \A k \in 1 .. DIMENSIONS : s[3 + w + m + k] = r.floats[k]
    BY InsertLine
  <1>2. /\ r.text \in Seq(Tokens) /\ r.text # <<>> /\ b \in Nat /\ w \in Nat \ {0}
        /\ r.id.len \in Nat /\ r.id.len <= ID_LENGTH /\ b <= TEXT_MAX_LENGTH
    <2>1. r.text \in Seq(Tokens) /\ r.text # <<>> /\ r.id \in Tokens
      BY RequestAssumption
    <2>2. b \in Nat /\ w \in Nat \ {0}
      BY <2>1, BytesType, EmptySeq
    <2>3. r.id \in Token
      BY <2>1, ParserAssumption
    <2> QED
      BY <2>1, <2>2, <2>3 DEF Token, Sends
  <1>3. m \in Nat /\ DIMENSIONS \in Nat \ {0}
    BY RequestType, ParserAssumption
  <1>4. n.int = b /\ IsInt(n) /\ n.len \in Nat \ {0}
    <2>1. \E t \in Tokens : t.int = b /\ t.whole
      BY RequestAssumption
    <2>2. b \in Int
      BY <1>2
    <2> HIDE DEF b
    <2> QED
      BY <2>1, <2>2, WrittenIs
  <1>5. /\ d.int = DIMENSIONS /\ d.int # NaN /\ d.whole /\ d.len = DIMENSIONS_NO_OF_DIGITS
    <2>1. DIMENSIONS \in Int /\ \E t \in Tokens : t.int = DIMENSIONS /\ t.whole
      BY <1>3, RequestAssumption
    <2> QED
      BY <2>1, WrittenIs, RequestAssumption DEF IsInt
  <1> HIDE DEF s, w, m, b, n, d
  <1> DEFINE i == 4 + w
  <1>6. /\ Len(s) \in Nat /\ 1 < Len(s) /\ 2 < Len(s) /\ 2 + w < Len(s) /\ 3 + w < Len(s)
        /\ i \in 1 .. Len(s) /\ Len(s) = i - 1 + m + DIMENSIONS /\ 1 + (2 + w) = 3 + w
        /\ 3 + w + 1 = i /\ 3 + w - 1 = 2 + w
    BY <1>1, <1>2, <1>3
  <1>7. SubSeq(s, 3, 2 + w) = r.text /\ TextEnds(s, b) = {2 + w}
    BY <1>1, <1>2, <1>6, TextThere DEF w, b
  <1>8. /\ MetaEnd(s, i) = i + m
        /\ SubSeq(s, i, i + m - 1) = r.meta
        /\ Floats(s, i + m) = {r.floats}
        /\ MetaOK(r.meta) <=> ~ \E k \in DOMAIN r.meta : r.meta[k].key = 0 \/ r.meta[k].val = 0
    <2>1. \A k \in 1 .. m : s[i + k - 1] = r.meta[k]
      <3>1. \A k \in 1 .. m : i + k - 1 = 3 + w + k
        BY <1>2, <1>3
      <3> HIDE DEF i
      <3> QED
        BY <1>1, <3>1
    <2>2. \A k \in 1 .. DIMENSIONS : s[i + m + k - 1] = r.floats[k]
      <3>1. \A k \in 1 .. DIMENSIONS : i + m + k - 1 = 3 + w + m + k
        BY <1>2, <1>3
      <3> HIDE DEF i
      <3> QED
        BY <1>1, <3>1
    <2> HIDE DEF i
    <2> QED
      BY <1>1, <1>6, <2>1, <2>2, FieldsThere DEF m
  <1> HIDE DEF i
  <1> DEFINE text_length == s[2].int % Uint16
  <1>9. text_length = b
    <2>1. TEXT_MAX_LENGTH \in Nat /\ Uint16 \in Nat \ {0} /\ TEXT_MAX_LENGTH < Uint16
      BY ParserAssumption
    <2>2. b \in 0 .. Uint16 - 1
      BY <1>2, <2>1
    <2>3. \A x \in Nat, y \in Nat \ {0} : x < y => x % y = x
      OBVIOUS
    <2>4. b % Uint16 = b
      BY <1>2, <2>1, <2>2, <2>3
    <2>5. s[2].int = b
      BY <1>1, <1>4
    <2> QED
      BY <2>4, <2>5
  <1>10. 1 + (CHOOSE j \in TextEnds(s, text_length) : TRUE) = 3 + w
    <2>1. (CHOOSE j \in {2 + w} : TRUE) = 2 + w
      OBVIOUS
    <2>2. TextEnds(s, text_length) = {2 + w}
      BY <1>7, <1>9
    <2> QED
      BY <1>6, <2>1, <2>2
  <1> DEFINE dims == 1 + CHOOSE j \in TextEnds(s, text_length) : TRUE
             floats == MetaEnd(s, dims + 1)
             pairs == SubSeq(s, dims + 1, floats - 1)
             read == [id |-> s[1], text |-> SubSeq(s, 3, dims - 1), meta |-> pairs,
                      floats |-> CHOOSE f \in Floats(s, floats) : TRUE]
             fields == [id |-> r.id, text |-> r.text, meta |-> r.meta, floats |-> r.floats]
             bad == \/ ~Field(s, 1, 1 .. ID_LENGTH) \/ ~Field(s, 2, Nat \ {0}) \/ ~IsInt(s[2])
                    \/ text_length > TEXT_MAX_LENGTH \/ TextEnds(s, text_length) = {}
                    \/ ~Field(s, dims, {DIMENSIONS_NO_OF_DIGITS}) \/ s[dims].int = NaN
  <1>11. insert_parsing(s) =
           IF bad THEN Refused
           ELSE IF s[dims].int # DIMENSIONS THEN RefusedWithTail
           ELSE IF ~s[dims].whole \/ ~MetaOK(pairs) \/ Floats(s, floats) = {} THEN Refused
           ELSE Accepted(read)
    BY DEF insert_parsing
  <1> HIDE DEF text_length
  <1>12. dims = 3 + w
    BY <1>10
  <1> HIDE DEF dims
  <1>13. floats = i + m
    BY <1>6, <1>8, <1>12
  <1> HIDE DEF floats
  <1>14. pairs = r.meta
    <2>1. dims + 1 = i /\ floats - 1 = i + m - 1
      BY <1>2, <1>3, <1>6, <1>12, <1>13
    <2> QED
      BY <1>8, <2>1
  <1> HIDE DEF pairs
  <1>15. Floats(s, floats) = {r.floats}
    BY <1>8, <1>13
  <1>16. bad <=> r.id.len = 0
    <2>1. Field(s, 2, Nat \ {0}) /\ IsInt(s[2])
      BY <1>1, <1>4, <1>6 DEF Field
    <2>2. ~(text_length > TEXT_MAX_LENGTH)
      <3>1. TEXT_MAX_LENGTH \in Nat
        BY ParserAssumption
      <3> QED
        BY <1>2, <1>9, <3>1
    <2>3. TextEnds(s, text_length) # {}
      BY <1>7, <1>9
    <2>4. Field(s, dims, {DIMENSIONS_NO_OF_DIGITS}) /\ s[dims].int # NaN
      BY <1>1, <1>5, <1>6, <1>12 DEF Field
    <2>5. Field(s, 1, 1 .. ID_LENGTH) <=> r.id.len # 0
      <3>1. ID_LENGTH \in Nat
        BY ParserAssumption
      <3>2. r.id.len \in 1 .. ID_LENGTH <=> r.id.len # 0
        BY <1>2, <3>1
      <3> QED
        BY <1>1, <1>6, <3>2 DEF Field
    <2> QED
      BY <2>1, <2>2, <2>3, <2>4, <2>5
  <1>17. read = fields
    <2>1. (CHOOSE f \in Floats(s, floats) : TRUE) = r.floats
      BY <1>15
    <2>2. SubSeq(s, 3, dims - 1) = r.text
      <3>1. dims - 1 = 2 + w
        BY <1>2, <1>12
      <3> QED
        BY <1>7, <3>1
    <2> QED
      BY <1>1, <1>14, <2>1, <2>2
  <1>18. s[dims].int = DIMENSIONS /\ s[dims].whole
    BY <1>1, <1>5, <1>12
  <1> HIDE DEF read, fields, bad
  <1>19. insert_parsing(s) = IF r.id.len = 0 \/ ~MetaOK(r.meta) THEN Refused ELSE Accepted(fields)
    <2>1. {r.floats} # {}
      OBVIOUS
    <2> QED
      BY <1>11, <1>14, <1>15, <1>16, <1>17, <1>18, <2>1
  <1>20. r.id.len = 0 \/ ~MetaOK(r.meta) <=> SomethingIsEmpty(r)
    BY <1>8 DEF SomethingIsEmpty
  <1>21. insert_parsing(s).ok <=> ~(r.id.len = 0 \/ ~MetaOK(r.meta))
    BY <1>19 DEF Accepted, Refused
  <1>22. insert_parsing(s).ok => insert_parsing(s).fields = fields
    BY <1>19 DEF Accepted, Refused
  <1> QED
    BY <1>20, <1>21, <1>22 DEF s, fields

-----------------------------------------------------------------------------
(* Any line.                                                               *)

\* Two parts of a line that follow each other are one.
LEMMA PartsJoin ==
    ASSUME NEW s \in Seq(Tokens), NEW a \in 0 .. Len(s), NEW b \in a .. Len(s)
    PROVE  SubSeq(s, 1, a) \o SubSeq(s, a + 1, b) = SubSeq(s, 1, b)
  <1> DEFINE p == SubSeq(s, 1, a)
             q == SubSeq(s, a + 1, b)
             u == SubSeq(s, 1, b)
  <1>1. Len(s) \in Nat /\ a \in Nat /\ b \in Nat /\ a <= b
    OBVIOUS
  <1>2. p \in Seq(Tokens) /\ Len(p) = a /\ \A k \in 1 .. a : p[k] = s[k]
    BY <1>1
  <1>3. q \in Seq(Tokens) /\ Len(q) = b - a /\ \A k \in 1 .. b - a : q[k] = s[a + k]
    BY <1>1
  <1>4. u \in Seq(Tokens) /\ Len(u) = b /\ \A k \in 1 .. b : u[k] = s[k]
    BY <1>1
  <1> HIDE DEF p, q, u
  <1>5. /\ p \o q \in Seq(Tokens) /\ Len(p \o q) = Len(p) + Len(q)
        /\ \A k \in 1 .. Len(p) : (p \o q)[k] = p[k]
        /\ \A k \in 1 .. Len(q) : (p \o q)[Len(p) + k] = q[k]
    BY <1>2, <1>3, Joined
  <1>6. Len(p \o q) = b
    BY <1>1, <1>2, <1>3, <1>5
  <1>7. ASSUME NEW k \in 1 .. b PROVE (p \o q)[k] = u[k]
    <2>1. CASE k <= a
      <3>1. k \in 1 .. a /\ k \in 1 .. Len(p)
        BY <1>1, <1>2, <2>1
      <3> QED
        BY <1>2, <1>4, <1>5, <3>1
    <2>2. CASE ~(k <= a)
      <3>1. k - a \in 1 .. b - a /\ k - a \in 1 .. Len(q) /\ a + (k - a) = k
        BY <1>1, <1>3, <2>2
      <3>2. (p \o q)[a + (k - a)] = q[k - a]
        BY <1>2, <1>5, <3>1
      <3> QED
        BY <1>3, <1>4, <3>1, <3>2
    <2> QED
      BY <2>1, <2>2
  <1>8. p \o q = u
    BY <1>4, <1>5, <1>6, <1>7, SeqEqual
  <1> QED
    BY <1>8 DEF p, q, u

\* The metadata and the floats that are read are all of the line from where
\* they start.
LEMMA RestIsRead ==
    ASSUME NEW s \in Seq(Tokens), NEW i \in 0 .. Len(s), NEW floats \in Floats(s, MetaEnd(s, i + 1))
    PROVE  /\ Len(floats) = DIMENSIONS
           /\ Is(s, SubSeq(s, 1, i) \o SubSeq(s, i + 1, MetaEnd(s, i + 1) - 1) \o Front(floats),
                 Last(floats))
  <1> DEFINE e == MetaEnd(s, i + 1)
             last == e + DIMENSIONS - 1
             front == SubSeq(s, 1, last - 1)
  <1>1. Len(s) \in Nat /\ i \in Nat /\ DIMENSIONS \in Nat \ {0}
    BY ParserAssumption
  <1>2. e \in i + 1 .. Len(s) + 1
    <2>1. i + 1 \in 1 .. Len(s) + 1
      BY <1>1
    <2> QED
      BY <2>1, MetaEndType
  <1> HIDE DEF e
  <1>3. e \in 1 .. Len(s) + 1 /\ e \in Nat
    BY <1>1, <1>2
  <1>4. /\ last \in e .. Len(s)
        /\ Len(floats) = DIMENSIONS
        /\ Front(floats) = SubSeq(s, e, last - 1)
        /\ \E k \in last .. Len(s) :
            /\ s[k] = Last(floats)
            /\ \A j \in last .. Len(s) : j # k => s[j].len = 0
    <2>1. floats \in Floats(s, e)
      BY DEF e
    <2> QED
      BY <1>3, <2>1, FloatsRead
  <1>5. SubSeq(s, 1, i) \o SubSeq(s, i + 1, e - 1) = SubSeq(s, 1, e - 1)
    <2>1. e - 1 \in i .. Len(s)
      BY <1>1, <1>2
    <2> QED
      BY <2>1, PartsJoin
  <1>6. SubSeq(s, 1, e - 1) \o SubSeq(s, e, last - 1) = front
    <2>1. e - 1 \in 0 .. Len(s) /\ last - 1 \in e - 1 .. Len(s) /\ e - 1 + 1 = e
      BY <1>1, <1>2, <1>3, <1>4
    <2>2. SubSeq(s, 1, e - 1) \o SubSeq(s, e - 1 + 1, last - 1) = front
      BY <2>1, PartsJoin
    <2> QED
      BY <2>1, <2>2
  <1>7. front \in Seq(Tokens) /\ Len(front) = last - 1 /\ last - 1 + 1 = last
        /\ SubSeq(front, 1, last - 1) = front /\ last - 1 <= Len(s)
    <2>1. last - 1 \in 0 .. Len(s) /\ last \in Nat
      BY <1>1, <1>3, <1>4
    <2> HIDE DEF last
    <2>2. /\ front \in Seq(Tokens) /\ Len(front) = last - 1
          /\ \A k \in 1 .. last - 1 : front[k] = s[k]
      BY <1>1, <2>1
    <2> HIDE DEF front
    <2>3. SubSeq(front, 1, 1 + Len(front) - 1) = front
      <3>1. 1 \in 1 .. Len(front) + 1 /\ 1 + Len(front) - 1 <= Len(front)
            /\ \A k \in 1 .. Len(front) : front[1 + k - 1] = front[k]
        BY <2>2
      <3> QED
        BY <2>2, <3>1, PartIs
    <2>4. 1 + Len(front) - 1 = last - 1
      BY <2>1, <2>2
    <2> QED
      BY <2>1, <2>2, <2>3, <2>4
  <1>8. IsPrefix(front, s)
    <2> HIDE DEF front, last
    <2> QED
      BY <1>7 DEF IsPrefix, front
  <1>9. Is(s, front, Last(floats))
    <2>1. Len(front) + 1 = last
      BY <1>7
    <2> HIDE DEF front, last
    <2> QED
      BY <1>4, <1>8, <2>1 DEF Is
  <1> HIDE DEF front, last
  <1>10. SubSeq(s, 1, i) \o SubSeq(s, i + 1, e - 1) \o Front(floats) = front
    BY <1>4, <1>5, <1>6
  <1> QED
    BY <1>4, <1>9, <1>10 DEF e

\* The first two tokens, and one.
LEMMA SmallParts ==
    ASSUME NEW s \in Seq(Tokens)
    PROVE  /\ 2 <= Len(s) => SubSeq(s, 1, 2) = <<s[1], s[2]>>
           /\ \A i \in 1 .. Len(s) : SubSeq(s, i, i) = <<s[i]>>
  <1>1. Len(s) \in Nat
    OBVIOUS
  <1>2. ASSUME 2 <= Len(s) PROVE SubSeq(s, 1, 2) = <<s[1], s[2]>>
    <2> DEFINE t == <<s[1], s[2]>>
    <2>1. 1 \in 1 .. Len(s) /\ 2 \in 1 .. Len(s)
      BY <1>1, <1>2
    <2>2. t \in Seq(Tokens) /\ Len(t) = 2 /\ t[1] = s[1] /\ t[2] = s[2]
      BY <2>1, TokenType
    <2> HIDE DEF t
    <2>3. 1 \in 1 .. Len(s) + 1 /\ 1 + Len(t) - 1 <= Len(s) /\ 1 + Len(t) - 1 = 2
      BY <1>1, <1>2, <2>2
    <2>4. ASSUME NEW k \in 1 .. Len(t) PROVE s[1 + k - 1] = t[k]
      <3>1. (k = 1 \/ k = 2) /\ 1 + k - 1 = k
        BY <2>2
      <3> QED
        BY <2>2, <3>1
    <2> QED
      BY <2>2, <2>3, <2>4, PartIs DEF t
  <1>3. ASSUME NEW i \in 1 .. Len(s) PROVE SubSeq(s, i, i) = <<s[i]>>
    <2> DEFINE t == <<s[i]>>
    <2>1. t \in Seq(Tokens) /\ Len(t) = 1 /\ t[1] = s[i]
      BY TokenType
    <2> HIDE DEF t
    <2>2. i \in 1 .. Len(s) + 1 /\ i + Len(t) - 1 <= Len(s) /\ i + Len(t) - 1 = i
      BY <1>1, <2>1
    <2>3. ASSUME NEW k \in 1 .. Len(t) PROVE s[i + k - 1] = t[k]
      <3>1. k = 1 /\ i + k - 1 = i
        BY <2>1
      <3> QED
        BY <2>1, <3>1
    <2> QED
      BY <2>1, <2>2, <2>3, PartIs DEF t
  <1> QED
    BY <1>2, <1>3

\* What is read of a QUERY, written again, is the line.
LEMMA QueryIsRead ==
    ASSUME NEW s \in Seq(Tokens), query_parsing(s).ok
    PROVE  LET f == query_parsing(s).fields IN
           /\ MetaOK(f.meta) /\ Len(f.floats) = DIMENSIONS
           /\ \E k \in Tokens, d \in Tokens :
               /\ IsInt(k) /\ k.int >= f.top_k
               /\ IsInt(d) /\ d.int = DIMENSIONS
               /\ Is(s, <<k, d>> \o f.meta \o Front(f.floats), Last(f.floats))
  <1> DEFINE e == MetaEnd(s, 2 + 1)
             floats == CHOOSE x \in Floats(s, e) : TRUE
             pairs == SubSeq(s, 2 + 1, e - 1)
             top_k == IF s[1].int > MAX_K_SIMILAR THEN MAX_K_SIMILAR ELSE s[1].int
             fields == [top_k |-> top_k, meta |-> pairs, floats |-> floats]
             bad == \/ ~Field(s, 1, Nat \ {0}) \/ ~IsInt(s[1]) \/ s[1].int < 1
                    \/ ~Field(s, 2, Nat \ {0}) \/ ~IsInt(s[2])
  <1>0. 2 + 1 = 3
    OBVIOUS
  <1>1. query_parsing(s) =
          IF bad THEN Refused
          ELSE IF s[2].int # DIMENSIONS THEN RefusedWithTail
          ELSE IF ~MetaOK(pairs) \/ Floats(s, e) = {} THEN Refused
          ELSE Accepted(fields)
    BY <1>0 DEF query_parsing
  <1> HIDE DEF fields
  <1>2. /\ ~bad /\ s[2].int = DIMENSIONS /\ MetaOK(pairs) /\ Floats(s, e) # {}
        /\ query_parsing(s) = Accepted(fields)
    <2> HIDE DEF bad, pairs, e
    <2> QED
      BY <1>1 DEF Refused, RefusedWithTail
  <1>3. query_parsing(s).fields = fields
    BY <1>2 DEF Accepted
  <1>4. fields.top_k = top_k /\ fields.meta = pairs /\ fields.floats = floats
    BY DEF fields
  <1>5. 2 < Len(s) /\ IsInt(s[1]) /\ IsInt(s[2])
    BY <1>2 DEF Field
  <1>6. floats \in Floats(s, e)
    BY <1>2
  <1>7. Len(s) \in Nat /\ 2 \in 0 .. Len(s) /\ 1 \in 1 .. Len(s) /\ 2 \in 1 .. Len(s)
    BY <1>5
  <1> HIDE DEF floats
  <1>8. /\ Len(floats) = DIMENSIONS
        /\ Is(s, SubSeq(s, 1, 2) \o pairs \o Front(floats), Last(floats))
    BY <1>6, <1>7, RestIsRead
  <1>9. SubSeq(s, 1, 2) = <<s[1], s[2]>> /\ s[1] \in Tokens /\ s[2] \in Tokens
    <2>1. 2 <= Len(s)
      BY <1>7
    <2> QED
      BY <1>7, <2>1, SmallParts, TokenType
  <1> HIDE DEF pairs
  <1>10. s[1].int >= top_k
    <2>1. s[1].int \in Int
      <3>1. s[1] \in Token
        BY <1>7, TokenType
      <3> QED
        BY <1>5, <3>1 DEF Token, IsInt
    <2>2. MAX_K_SIMILAR \in Int
      BY ParserAssumption
    <2> QED
      BY <2>1, <2>2
  <1> HIDE DEF top_k
  <1>11. /\ IsInt(s[1]) /\ s[1].int >= top_k
         /\ IsInt(s[2]) /\ s[2].int = DIMENSIONS
         /\ Is(s, <<s[1], s[2]>> \o pairs \o Front(floats), Last(floats))
    BY <1>2, <1>5, <1>8, <1>9, <1>10
  <1>12. \E k \in Tokens, d \in Tokens :
           /\ IsInt(k) /\ k.int >= top_k
           /\ IsInt(d) /\ d.int = DIMENSIONS
           /\ Is(s, <<k, d>> \o pairs \o Front(floats), Last(floats))
    BY <1>9, <1>11
  <1> QED
    BY <1>2, <1>3, <1>4, <1>8, <1>12

\* What is read of an INSERT, written again, is the line.
LEMMA InsertIsRead ==
    ASSUME NEW s \in Seq(Tokens), insert_parsing(s).ok
    PROVE  LET f == insert_parsing(s).fields IN
           /\ MetaOK(f.meta) /\ Len(f.floats) = DIMENSIONS
           /\ f.id.len <= ID_LENGTH /\ Bytes(f.text) <= TEXT_MAX_LENGTH
           /\ \E n \in Tokens, d \in Tokens :
               /\ IsInt(n) /\ n.int % Uint16 = Bytes(f.text)
               /\ IsInt(d) /\ d.int = DIMENSIONS
               /\ Is(s, <<f.id, n>> \o f.text \o <<d>> \o f.meta \o Front(f.floats), Last(f.floats))
  <1> DEFINE length == s[2].int % Uint16
             ends == TextEnds(s, length)
             dims == 1 + CHOOSE j \in ends : TRUE
             e == MetaEnd(s, dims + 1)
             floats == CHOOSE x \in Floats(s, e) : TRUE
             pairs == SubSeq(s, dims + 1, e - 1)
             text == SubSeq(s, 3, dims - 1)
             fields == [id |-> s[1], text |-> text, meta |-> pairs, floats |-> floats]
             bad == \/ ~Field(s, 1, 1 .. ID_LENGTH) \/ ~Field(s, 2, Nat \ {0}) \/ ~IsInt(s[2])
                    \/ length > TEXT_MAX_LENGTH \/ ends = {}
                    \/ ~Field(s, dims, {DIMENSIONS_NO_OF_DIGITS}) \/ s[dims].int = NaN
  <1>1. insert_parsing(s) =
          IF bad THEN Refused
          ELSE IF s[dims].int # DIMENSIONS THEN RefusedWithTail
          ELSE IF ~s[dims].whole \/ ~MetaOK(pairs) \/ Floats(s, e) = {} THEN Refused
          ELSE Accepted(fields)
    BY DEF insert_parsing
  <1> HIDE DEF fields
  <1>2. /\ ~bad /\ s[dims].int = DIMENSIONS /\ s[dims].whole /\ MetaOK(pairs) /\ Floats(s, e) # {}
        /\ insert_parsing(s) = Accepted(fields)
    <2> HIDE DEF bad, pairs, e, dims
    <2> QED
      BY <1>1 DEF Refused, RefusedWithTail
  <1>3. insert_parsing(s).fields = fields
    BY <1>2 DEF Accepted
  <1>4. fields.id = s[1] /\ fields.text = text /\ fields.meta = pairs /\ fields.floats = floats
    BY DEF fields
  <1>5. floats \in Floats(s, e)
    BY <1>2
  <1> HIDE DEF floats, e
  <1>6. /\ dims - 1 \in 3 .. Len(s) - 1 /\ Bytes(text) = length /\ dims - 1 \in Nat
        /\ 1 + (dims - 1) = dims
    <2> DEFINE end == CHOOSE j \in ends : TRUE
    <2>1. ends # {}
      BY <1>2
    <2>2. end \in ends
      <3> HIDE DEF ends
      <3> QED
        BY <2>1
    <2> HIDE DEF end
    <2>3. end \in 3 .. Len(s) - 1 /\ Bytes(SubSeq(s, 3, end)) = length
      BY <2>2 DEF TextEnds
    <2>4. dims = 1 + end
      BY DEF end
    <2>5. dims - 1 = end /\ end \in Nat /\ 1 + (dims - 1) = dims
      BY <2>3, <2>4
    <2> HIDE DEF dims
    <2> QED
      BY <2>3, <2>5
  <1>7. /\ 1 < Len(s) /\ s[1].len \in 1 .. ID_LENGTH /\ IsInt(s[2])
        /\ ~(length > TEXT_MAX_LENGTH)
        /\ dims < Len(s) /\ s[dims].int # NaN
    <2> HIDE DEF dims, ends, length
    <2> QED
      BY <1>2 DEF Field
  <1> HIDE DEF dims, ends
  <1>8. /\ Len(s) \in Nat /\ dims \in Nat /\ dims \in 0 .. Len(s)
        /\ 1 \in 1 .. Len(s) /\ 2 \in 1 .. Len(s) /\ dims \in 1 .. Len(s)
        /\ dims - 1 \in 2 .. Len(s) /\ dims \in dims - 1 .. Len(s) /\ dims - 1 \in 0 .. Len(s)
        /\ 2 \in 0 .. Len(s) /\ dims - 1 + 1 = dims
    <2>1. Len(s) \in Nat
      OBVIOUS
    <2> QED
      BY <1>6, <1>7, <2>1
  <1>9. s[1] \in Tokens /\ s[2] \in Tokens /\ s[dims] \in Tokens
    BY <1>8, TokenType
  <1>10. /\ Len(floats) = DIMENSIONS
         /\ Is(s, SubSeq(s, 1, dims) \o pairs \o Front(floats), Last(floats))
    BY <1>5, <1>8, RestIsRead DEF e
  <1> HIDE DEF pairs
  <1>11. SubSeq(s, 1, dims) = <<s[1], s[2]>> \o text \o <<s[dims]>>
    <2>1. SubSeq(s, 1, 2) = <<s[1], s[2]>>
      <3>1. 2 <= Len(s)
        BY <1>8
      <3> QED
        BY <3>1, SmallParts
    <2>2. SubSeq(s, dims, dims) = <<s[dims]>>
      BY <1>8, SmallParts
    <2>3. SubSeq(s, 1, 2) \o SubSeq(s, 2 + 1, dims - 1) = SubSeq(s, 1, dims - 1)
      BY <1>8, PartsJoin
    <2>4. SubSeq(s, 1, dims - 1) \o SubSeq(s, dims - 1 + 1, dims) = SubSeq(s, 1, dims)
      BY <1>8, PartsJoin
    <2>5. 2 + 1 = 3
      OBVIOUS
    <2> QED
      BY <1>8, <2>1, <2>2, <2>3, <2>4, <2>5
  <1> HIDE DEF text
  <1>12. s[1].len <= ID_LENGTH /\ Bytes(text) <= TEXT_MAX_LENGTH
    <2>1. ID_LENGTH \in Int /\ TEXT_MAX_LENGTH \in Int
      BY ParserAssumption
    <2>2. length \in Int
      <3>1. s[2].int \in Int /\ Uint16 \in Nat \ {0}
        <4>1. s[2] \in Token
          BY <1>9, ParserAssumption
        <4> QED
          BY <1>7, <4>1, ParserAssumption DEF Token, IsInt
      <3> QED
        BY <3>1
    <2> HIDE DEF length
    <2> QED
      BY <1>6, <1>7, <2>1, <2>2
  <1>13. /\ IsInt(s[2]) /\ s[2].int % Uint16 = Bytes(text)
         /\ IsInt(s[dims]) /\ s[dims].int = DIMENSIONS
         /\ Is(s, <<s[1], s[2]>> \o text \o <<s[dims]>> \o pairs \o Front(floats), Last(floats))
    BY <1>2, <1>6, <1>7, <1>10, <1>11 DEF IsInt
  <1> HIDE DEF length
  <1>14. \E n \in Tokens, d \in Tokens :
           /\ IsInt(n) /\ n.int % Uint16 = Bytes(text)
           /\ IsInt(d) /\ d.int = DIMENSIONS
           /\ Is(s, <<s[1], n>> \o text \o <<d>> \o pairs \o Front(floats), Last(floats))
    BY <1>9, <1>13
  <1> QED
    BY <1>2, <1>3, <1>4, <1>10, <1>12, <1>14

-----------------------------------------------------------------------------
(* The inductive invariant.                                                *)

\* Whatever was done to it, a line is a sequence of tokens; until something is,
\* it is the one the client formatted.
IInv ==
    /\ request \in Requests /\ Sends(request) /\ word = request.op
    /\ line \in Seq(Tokens)
    /\ edits \in Nat
    /\ edits = 0 => line = Format(request)

LEMMA FormatType ==
    ASSUME NEW r \in Requests, Sends(r)
    PROVE  /\ Format(r) \in Seq(Tokens)
           /\ r.op \in {"INSERT", "QUERY", "DELETE"} => Format(r) # <<>>
  <1>0. DIMENSIONS \in Nat
    BY ParserAssumption
  <1>1. CASE r.op = "INSERT"
    <2>1. /\ Format(r) \in Seq(Tokens)
          /\ Len(Format(r)) = 3 + Len(r.text) + Len(r.meta) + DIMENSIONS
      BY <1>1, InsertLine
    <2>2. r.text \in Seq(Tokens) /\ r.meta \in Seq(Tokens)
      BY <1>1, RequestAssumption
    <2>3. Len(Format(r)) # 0
      <3>1. Len(r.text) \in Nat /\ Len(r.meta) \in Nat
        BY <2>2
      <3>2. \A x \in Nat, y \in Nat, z \in Nat : 3 + x + y + z # 0
        OBVIOUS
      <3> QED
        BY <1>0, <2>1, <3>1, <3>2
    <2>4. Format(r) # <<>>
      BY <2>3, EmptySeq
    <2> QED
      BY <2>1, <2>4
  <1>2. CASE r.op = "QUERY"
    <2>1. /\ Format(r) \in Seq(Tokens)
          /\ Len(Format(r)) = 2 + Len(r.meta) + DIMENSIONS
      BY <1>2, QueryLine
    <2>2. r.meta \in Seq(Tokens)
      BY <1>2, RequestAssumption
    <2>3. Len(Format(r)) # 0
      <3>1. Len(r.meta) \in Nat
        BY <2>2
      <3>2. \A x \in Nat, y \in Nat : 2 + x + y # 0
        OBVIOUS
      <3> QED
        BY <1>0, <2>1, <3>1, <3>2
    <2>4. Format(r) # <<>>
      BY <2>3, EmptySeq
    <2> QED
      BY <2>1, <2>4
  <1>3. CASE r.op = "DELETE"
    BY <1>3, DeleteRead
  <1>4. CASE r.op \notin {"INSERT", "QUERY", "DELETE"}
    BY <1>4 DEF Format
  <1> QED
    BY <1>1, <1>2, <1>3, <1>4

LEMMA InitHolds == Init => IInv
  BY FormatType DEF Init, IInv

LEMMA EditKeeps == IInv /\ [Next]_vars => IInv'
  <1> SUFFICES ASSUME IInv, [Next]_vars PROVE IInv'
    OBVIOUS
  <1>1. CASE UNCHANGED vars
    BY <1>1 DEF vars, IInv
  <1>2. CASE Edit
    <2>1. line' \in Seq(Tokens)
      <3>1. ASSUME NEW i \in DOMAIN line, NEW t \in Tokens, line' = [line EXCEPT ![i] = t]
            PROVE  line' \in Seq(Tokens)
        BY <3>1, ExceptSeq DEF IInv
      <3>2. ASSUME NEW i \in DOMAIN line, line' = RemoveAt(line, i)
            PROVE  line' \in Seq(Tokens)
        <4>1. i \in 1 .. Len(line) /\ Len(line) \in Nat /\ line \in Seq(Tokens)
          BY DEF IInv
        <4>2. SubSeq(line, 1, i - 1) \in Seq(Tokens) /\ SubSeq(line, i + 1, Len(line)) \in Seq(Tokens)
          BY <4>1
        <4> QED
          BY <3>2, <4>2, ConcatProperties DEF RemoveAt
      <3>3. ASSUME NEW i \in 1 .. Len(line) + 1, NEW t \in Tokens, line' = InsertAt(line, i, t)
            PROVE  line' \in Seq(Tokens)
        <4>1. Len(line) \in Nat /\ line \in Seq(Tokens)
          BY DEF IInv
        <4>2. SubSeq(line, 1, i - 1) \in Seq(Tokens) /\ SubSeq(line, i, Len(line)) \in Seq(Tokens)
          BY <4>1
        <4>3. SubSeq(line, 1, i - 1) \o <<t>> \in Seq(Tokens)
          BY <4>2, ConcatProperties
        <4> QED
          BY <3>3, <4>2, <4>3, ConcatProperties DEF InsertAt
      <3> QED
        BY <1>2, <3>1, <3>2, <3>3 DEF Edit
    <2> QED
      BY <1>2, <2>1 DEF Edit, IInv
  <1> QED
    BY <1>1, <1>2 DEF Next

LEMMA Inductive == Spec => []IInv
  BY InitHolds, EditKeeps, PTL DEF Spec

-----------------------------------------------------------------------------
(* The theorems.                                                           *)

\* What the server reads of a line that a client of this code formatted is what
\* the client was asked for, and it refuses none but one with an empty id, key
\* or value.
THEOREM RequestsArrive == Spec => []RoundTrip
  <1>1. IInv => RoundTrip
    <2> SUFFICES ASSUME IInv, edits = 0
                 PROVE  /\ Parsed.ok <=> ~SomethingIsEmpty(request)
                        /\ Parsed.ok /\ request.op = "INSERT" =>
                            Parsed.fields = [id |-> request.id, text |-> request.text,
                                             meta |-> request.meta, floats |-> request.floats]
                        /\ Parsed.ok /\ request.op = "QUERY" =>
                            /\ Parsed.fields.meta = request.meta
                            /\ Parsed.fields.floats = request.floats
                            /\ Parsed.fields.top_k =
                                   IF request.top_k > MAX_K_SIMILAR THEN MAX_K_SIMILAR ELSE request.top_k
                        /\ Parsed.ok /\ request.op = "DELETE" => Parsed.fields.id = request.id
      BY DEF RoundTrip
    <2>1. request \in Requests /\ Sends(request) /\ word = request.op /\ line = Format(request)
      BY DEF IInv
    <2>2. CASE request.op = "INSERT"
      <3>1. line # <<>>
        BY <2>1, <2>2, FormatType
      <3>2. Parsed = insert_parsing(Format(request))
        BY <2>1, <2>2, <3>1 DEF Parsed
      <3> QED
        BY <2>1, <2>2, <3>2, InsertRead
    <2>3. CASE request.op = "QUERY"
      <3>1. line # <<>>
        BY <2>1, <2>3, FormatType
      <3>2. Parsed = query_parsing(Format(request))
        BY <2>1, <2>3, <3>1 DEF Parsed
      <3>3. /\ Parsed.ok <=> ~SomethingIsEmpty(request)
            /\ Parsed.ok => Parsed.fields =
                   [top_k |-> IF request.top_k > MAX_K_SIMILAR THEN MAX_K_SIMILAR ELSE request.top_k,
                    meta |-> request.meta, floats |-> request.floats]
        BY <2>1, <2>3, <3>2, QueryRead
      <3> QED
        BY <2>3, <3>3
    <2>4. CASE request.op = "DELETE"
      <3>1. line # <<>>
        BY <2>1, <2>4, FormatType
      <3>2. Parsed = delete_parsing(Format(request))
        BY <2>1, <2>4, <3>1 DEF Parsed
      <3>3. /\ Parsed.ok <=> ~SomethingIsEmpty(request)
            /\ Parsed.ok => Parsed.fields = [id |-> request.id]
        BY <2>1, <2>4, <3>2, DeleteRead
      <3> QED
        BY <2>4, <3>3
    <2>5. CASE request.op \notin {"INSERT", "QUERY", "DELETE"}
      <3>1. Parsed = Accepted([op |-> word])
        BY <2>1, <2>5 DEF Parsed
      <3> QED
        BY <2>5, <3>1 DEF Accepted, SomethingIsEmpty
    <2> QED
      BY <2>2, <2>3, <2>4, <2>5
  <1> QED
    BY Inductive, <1>1, PTL

\* Whoever formatted an INSERT or a QUERY that the server accepts, each part of
\* the line is a field that is read, once, and within its limits.
THEOREM WholeLineRead == Spec => []NothingIsIgnored
  <1>1. IInv => NothingIsIgnored
    <2>1. ASSUME IInv PROVE line \in Seq(Tokens)
      BY <2>1 DEF IInv
    <2>2. ASSUME IInv, word = "INSERT", Parsed.ok PROVE NothingIsIgnored
      <3>1. Parsed = insert_parsing(line)
        BY <2>2 DEF Parsed, Refused
      <3> QED
        BY <2>1, <2>2, <3>1, InsertIsRead DEF NothingIsIgnored
    <2>3. ASSUME IInv, word = "QUERY", Parsed.ok PROVE NothingIsIgnored
      <3>1. Parsed = query_parsing(line)
        BY <2>3 DEF Parsed, Refused
      <3> QED
        BY <2>1, <2>3, <3>1, QueryIsRead DEF NothingIsIgnored
    <2> QED
      BY <2>2, <2>3 DEF NothingIsIgnored
  <1> QED
    BY Inductive, <1>1, PTL
=============================================================================
