---------------------------- MODULE ValuesProofs ----------------------------
(***************************************************************************)
(* Proofs about Values.  What a fold over a text, a row or a table yields  *)
(* is proved by induction on the length, and induction by the fact that a  *)
(* set of natural numbers has a least element.                             *)
(***************************************************************************)
EXTENDS Values, SequenceTheorems, WellFoundedInduction, TLAPS

\* Natural numbers have a least one among them.
LEMMA LeastElement ==
  ASSUME NEW T \in SUBSET Nat, T # {}
  PROVE  \E x \in T : \A y \in T : x <= y
<1> DEFINE R == {p \in Nat \X Nat : p[1] < p[2]}
<1>1. IsWellFoundedOn(R, Nat)
  BY NatLessThanWellFounded DEF OpToRel
<1> HIDE DEF R
<1>2. PICK x \in T : \A y \in T : <<y, x>> \notin R
  BY <1>1, WFMin
<1>3. x \in Nat /\ \A y \in T : y \in Nat /\ ~(y < x)
  BY <1>2 DEF R
<1>4. \A y \in T : x <= y
  BY <1>3
<1>5. QED
  BY <1>2, <1>4

\* Induction up to m, for a set instead of a predicate.
LEMMA Induction ==
  ASSUME NEW m \in Nat, NEW S, 0 \in S, \A k \in 0..m - 1 : k \in S => k + 1 \in S
  PROVE  0..m \subseteq S
<1> DEFINE T == (0..m) \ S
<1> SUFFICES ASSUME T # {} PROVE FALSE
  OBVIOUS
<1>1. T \in SUBSET Nat
  OBVIOUS
<1> HIDE DEF T
<1>2. PICK x \in T : \A y \in T : x <= y
  BY <1>1, LeastElement
<1>3. x \in Nat /\ x - 1 \notin T
  BY <1>1, <1>2
<1>4. x # 0 /\ x - 1 \in 0..m - 1 /\ x \notin S
  BY <1>2, <1>3 DEF T
<1>5. QED
  BY <1>2, <1>3, <1>4 DEF T

-----------------------------------------------------------------------------
\* The function in FlattenSeq.
Flattened(f, n, ss) == f = [i \in 1..n |-> IF i = 1 THEN ss[i] ELSE f[i - 1] \o ss[i]]

\* It can be defined for one piece more.
LEMMA FlattenMore ==
  ASSUME NEW n \in Nat, NEW ss, NEW f, Flattened(f, n, ss)
  PROVE  \E g : Flattened(g, n + 1, ss)
<1> DEFINE next == IF n + 1 = 1 THEN ss[n + 1] ELSE f[n] \o ss[n + 1]
           g == [i \in 1..n + 1 |-> IF i = n + 1 THEN next ELSE f[i]]
<1> HIDE DEF next
<1>1. g[n + 1] = next
  OBVIOUS
<1>0. \A i \in 1..n : g[i] = f[i]
  OBVIOUS
<1>2. g = [i \in 1..n + 1 |-> g[i]]
  OBVIOUS
<1> HIDE DEF g
<1>3. ASSUME NEW i \in 1..n + 1
      PROVE  g[i] = IF i = 1 THEN ss[i] ELSE g[i - 1] \o ss[i]
  <2>1. CASE i = n + 1
    <3>1. i # 1 => i - 1 = n /\ n \in 1..n
      BY <2>1
    <3>2. QED
      BY <1>0, <1>1, <2>1, <3>1 DEF next
  <2>2. CASE i \in 1..n
    <3>1. f[i] = IF i = 1 THEN ss[i] ELSE f[i - 1] \o ss[i]
      BY <2>2 DEF Flattened
    <3>2. i # 1 => i - 1 \in 1..n
      BY <2>2
    <3>3. QED
      BY <1>0, <2>2, <3>1, <3>2
  <2>3. QED
    BY <2>1, <2>2
<1>4. Flattened(g, n + 1, ss)
  BY <1>2, <1>3 DEF Flattened
<1>5. QED
  BY <1>4

\* What FlattenSeq yields, prefix by prefix.
LEMMA FlattenFacts ==
  ASSUME NEW S, NEW ss \in Seq(Seq(S))
  PROVE  \E f \in [0..Len(ss) -> Seq(S)] :
           /\ f[0] = << >>
           /\ \A i \in 1..Len(ss) : f[i] = f[i - 1] \o ss[i]
           /\ FlattenSeq(ss) = f[Len(ss)]
<1> DEFINE L == Len(ss)
           N == {n \in Nat : \E f : Flattened(f, n, ss)}
           h == CHOOSE f : Flattened(f, L, ss)
<1>0. L \in Nat /\ \A i \in 1..L : ss[i] \in Seq(S)
  OBVIOUS
<1> HIDE DEF L
<1>1. 0 \in N
  BY Flattened(<< >>, 0, ss) DEF Flattened
<1>2. ASSUME NEW n \in 0..L - 1, n \in N PROVE n + 1 \in N
  <2>1. n \in Nat /\ n + 1 \in Nat
    BY <1>0
  <2>2. QED
    BY <1>2, <2>1, FlattenMore
<1> HIDE DEF N
<1>3. L \in N
  <2>1. 0..L \subseteq N
    BY <1>0, <1>1, <1>2, Induction
  <2>2. QED
    BY <1>0, <2>1
<1>4. Flattened(h, L, ss)
  BY <1>3 DEF N
<1> HIDE DEF h
<1>5. \A i \in 1..L : h[i] = IF i = 1 THEN ss[i] ELSE h[i - 1] \o ss[i]
  BY <1>4 DEF Flattened
<1> DEFINE z == [i \in 0..L |-> IF i = 0 THEN << >> ELSE h[i]]
           Z == {n \in Nat : z[n] \in Seq(S)}
<1>6. z[0] = << >> /\ \A i \in 1..L : z[i] = h[i]
  BY <1>0
<1>w. z = [i \in 0..L |-> z[i]]
  OBVIOUS
<1> HIDE DEF z
<1>7. ASSUME NEW i \in 1..L PROVE z[i] = z[i - 1] \o ss[i]
  <2>1. CASE i = 1
    <3>1. z[i] = ss[i] /\ z[i - 1] = << >> /\ ss[i] \in Seq(S)
      BY <1>0, <1>5, <1>6, <2>1
    <3>2. QED
      BY <3>1, ConcatEmptySeq
  <2>2. CASE i # 1
    <3>1. i - 1 \in 1..L
      BY <1>0, <2>2
    <3>2. QED
      BY <1>5, <1>6, <2>2, <3>1
  <2>3. QED
    BY <2>1, <2>2
<1>8. z \in [0..L -> Seq(S)]
  <2>1. 0 \in Z
    BY <1>6, EmptySeq
  <2>2. ASSUME NEW n \in 0..L - 1, n \in Z PROVE n + 1 \in Z
    <3>1. n + 1 \in 1..L /\ (n + 1) - 1 = n
      BY <1>0
    <3>2. z[n + 1] = z[n] \o ss[n + 1]
      BY <1>7, <3>1
    <3>3. z[n] \in Seq(S) /\ ss[n + 1] \in Seq(S)
      BY <1>0, <2>2, <3>1
    <3>4. z[n + 1] \in Seq(S)
      BY <3>2, <3>3, ConcatProperties
    <3>5. QED
      BY <3>1, <3>4, <1>0
  <2> HIDE DEF Z
  <2>3. 0..L \subseteq Z
    BY <1>0, <2>1, <2>2, Induction
  <2>4. QED
    BY <2>3, <1>w DEF Z
<1>9. FlattenSeq(ss) = z[L]
  <2>1. CASE L = 0
    BY <1>6, <2>1 DEF FlattenSeq, L
  <2>2. CASE L # 0
    <3>1. FlattenSeq(ss) = h[L]
      BY <2>2 DEF FlattenSeq, h, Flattened, L
    <3>2. QED
      BY <1>0, <1>6, <2>2, <3>1
  <2>3. QED
    BY <2>1, <2>2
<1>10. QED
  BY <1>6, <1>7, <1>8, <1>9 DEF L

-----------------------------------------------------------------------------
\* Whatever stands in a text of JSON.
Token ==
  Char \cup Marks \cup {"a", "t", "r", "n", "u"} \cup {Decimal(n) : n \in Integer}
    \cup {Digits(g.number) : g \in {g \in Given : g.is = "number"}}

\* The function in Read.
Reading(f, n, p, text) ==
  f = [k \in 0..n |-> IF k = 0 THEN p ELSE Parse(f[k - 1], text[k])]

\* It can be defined for one token more.
LEMMA ReadMore ==
  ASSUME NEW n \in Nat, NEW p, NEW text, NEW f, Reading(f, n, p, text)
  PROVE  \E g : Reading(g, n + 1, p, text)
<1> DEFINE next == Parse(f[n], text[n + 1])
           g == [k \in 0..n + 1 |-> IF k = n + 1 THEN next ELSE f[k]]
<1> HIDE DEF next
<1>1. g[n + 1] = next
  OBVIOUS
<1>2. \A k \in 0..n : g[k] = f[k]
  OBVIOUS
<1>3. g = [k \in 0..n + 1 |-> g[k]]
  OBVIOUS
<1> HIDE DEF g
<1>4. ASSUME NEW k \in 0..n + 1
      PROVE  g[k] = IF k = 0 THEN p ELSE Parse(g[k - 1], text[k])
  <2>1. CASE k = n + 1
    <3>1. k # 0 /\ k - 1 = n /\ n \in 0..n
      BY <2>1
    <3>2. QED
      BY <1>1, <1>2, <2>1, <3>1 DEF next
  <2>2. CASE k \in 0..n
    <3>1. f[k] = IF k = 0 THEN p ELSE Parse(f[k - 1], text[k])
      BY <2>2 DEF Reading
    <3>2. k # 0 => k - 1 \in 0..n
      BY <2>2
    <3>3. QED
      BY <1>2, <2>2, <3>1, <3>2
  <2>3. QED
    BY <2>1, <2>2
<1>5. Reading(g, n + 1, p, text)
  BY <1>3, <1>4 DEF Reading
<1>6. QED
  BY <1>5

\* The states of the parser, token by token.
LEMMA ReadFacts ==
  ASSUME NEW p, NEW text \in Seq(Token)
  PROVE  \E f : /\ f[0] = p
                /\ \A k \in 1..Len(text) : f[k] = Parse(f[k - 1], text[k])
                /\ Read(p, text) = f[Len(text)]
<1> DEFINE L == Len(text)
           N == {n \in Nat : \E f : Reading(f, n, p, text)}
           f == CHOOSE f : Reading(f, L, p, text)
<1>1. L \in Nat
  OBVIOUS
<1> HIDE DEF L
<1>2. 0 \in N
  <2>1. Reading([k \in 0..0 |-> p], 0, p, text)
    BY DEF Reading
  <2>2. QED
    BY <2>1
<1>3. ASSUME NEW n \in 0..L - 1, n \in N PROVE n + 1 \in N
  <2>1. n \in Nat /\ n + 1 \in Nat
    BY <1>1
  <2>2. QED
    BY <1>3, <2>1, ReadMore
<1> HIDE DEF N
<1>4. L \in N
  <2>1. 0..L \subseteq N
    BY <1>1, <1>2, <1>3, Induction
  <2>2. QED
    BY <1>1, <2>1
<1>5. Reading(f, L, p, text)
  BY <1>4 DEF N
<1>6. Read(p, text) = f[L]
  BY DEF Read, Reading, L
<1> HIDE DEF f
<1>7. f[0] = p /\ \A k \in 1..L : f[k] = Parse(f[k - 1], text[k])
  <2>1. \A k \in 0..L : f[k] = IF k = 0 THEN p ELSE Parse(f[k - 1], text[k])
    BY <1>5 DEF Reading
  <2>2. QED
    BY <1>1, <2>1
<1>8. QED
  BY <1>6, <1>7 DEF L

\* Nothing read, nothing changed.
LEMMA ReadEmpty == \A p : Read(p, << >>) = p
BY ReadFacts, EmptySeq

\* A sequence of one.
LEMMA OneSeq ==
  ASSUME NEW S, NEW t \in S
  PROVE  <<t>> \in Seq(S) /\ Len(<<t>>) = 1 /\ <<t>>[1] = t
OBVIOUS

\* Reading one token is a step of the parser.
LEMMA ReadOne ==
  ASSUME NEW p, NEW t \in Token
  PROVE  Read(p, <<t>>) = Parse(p, t)
<1> DEFINE s == <<t>>
<1>1. s \in Seq(Token) /\ Len(s) = 1 /\ s[1] = t
  BY OneSeq
<1> HIDE DEF s
<1>2. PICK f : /\ f[0] = p
               /\ \A k \in 1..Len(s) : f[k] = Parse(f[k - 1], s[k])
               /\ Read(p, s) = f[Len(s)]
  BY <1>1, ReadFacts
<1>3. ASSUME NEW k \in 1..Len(s), k = 1 PROVE f[k] = Parse(f[0], s[1])
  <2>1. k - 1 = 0
    BY <1>3
  <2>2. f[k] = Parse(f[k - 1], s[k])
    BY <1>2
  <2>3. QED
    BY <1>3, <2>1, <2>2
<1>4. QED
  BY <1>1, <1>2, <1>3, 1 \in 1..1 DEF s

\* A text and another after it are read one after the other.
LEMMA ReadConcat ==
  ASSUME NEW p, NEW s \in Seq(Token), NEW t \in Seq(Token)
  PROVE  Read(p, s \o t) = Read(Read(p, s), t)
<1> DEFINE A == Len(s)
           B == Len(t)
           u == s \o t
<1>1. /\ A \in Nat /\ B \in Nat /\ u \in Seq(Token) /\ Len(u) = A + B
      /\ \A k \in 1..A : u[k] = s[k]
      /\ \A k \in 1..B : u[A + k] = t[k]
  BY ConcatProperties
<1>2. PICK f : /\ f[0] = p
               /\ \A k \in 1..A : f[k] = Parse(f[k - 1], s[k])
               /\ Read(p, s) = f[A]
  BY ReadFacts
<1>3. PICK g : /\ g[0] = Read(p, s)
               /\ \A k \in 1..B : g[k] = Parse(g[k - 1], t[k])
               /\ Read(Read(p, s), t) = g[B]
  BY ReadFacts
<1> HIDE DEF u, A, B
<1>4. PICK h : /\ h[0] = p
               /\ \A k \in 1..A + B : h[k] = Parse(h[k - 1], u[k])
               /\ Read(p, u) = h[A + B]
  <2>1. \E h : /\ h[0] = p
               /\ \A k \in 1..Len(u) : h[k] = Parse(h[k - 1], u[k])
               /\ Read(p, u) = h[Len(u)]
    BY <1>1, ReadFacts
  <2>2. QED
    BY <1>1, <2>1
<1>5. h[A] = f[A]
  <2> DEFINE N == {n \in Nat : h[n] = f[n]}
  <2>1. 0 \in N
    BY <1>2, <1>4
  <2>2. ASSUME NEW k \in 0..A - 1, k \in N PROVE k + 1 \in N
    <3>1. k + 1 \in 1..A /\ k + 1 \in 1..A + B /\ (k + 1) - 1 = k /\ k \in Nat
      BY <1>1
    <3>2. h[k + 1] = Parse(h[k], u[k + 1]) /\ f[k + 1] = Parse(f[k], s[k + 1])
      BY <1>2, <1>4, <3>1
    <3>3. QED
      BY <1>1, <2>2, <3>1, <3>2
  <2> HIDE DEF N
  <2>3. 0..A \subseteq N
    BY <1>1, <2>1, <2>2, Induction
  <2>4. QED
    BY <1>1, <2>3 DEF N
<1>6. h[A + B] = g[B]
  <2> DEFINE N == {n \in Nat : h[A + n] = g[n]}
  <2>1. 0 \in N
    BY <1>1, <1>2, <1>3, <1>5
  <2>2. ASSUME NEW k \in 0..B - 1, k \in N PROVE k + 1 \in N
    <3>1. /\ k + 1 \in 1..B /\ (k + 1) - 1 = k /\ k \in Nat
          /\ A + (k + 1) \in 1..A + B /\ (A + (k + 1)) - 1 = A + k
      BY <1>1
    <3>2. h[A + (k + 1)] = Parse(h[A + k], u[A + (k + 1)]) /\ g[k + 1] = Parse(g[k], t[k + 1])
      BY <1>3, <1>4, <3>1
    <3>3. QED
      BY <1>1, <2>2, <3>1, <3>2
  <2> HIDE DEF N
  <2>3. 0..B \subseteq N
    BY <1>1, <2>1, <2>2, Induction
  <2>4. QED
    BY <1>1, <2>3 DEF N
<1>7. QED
  BY <1>3, <1>4, <1>6 DEF u, A, B

-----------------------------------------------------------------------------
\* A state of the parser.
State(at, rows, members, name, text, key) ==
  [at |-> at, rows |-> rows, members |-> members, name |-> name, text |-> text, key |-> key]

\* The steps of the parser within a string.
LEMMA ParseString ==
  ASSUME NEW rows, NEW members, NEW name, NEW text, NEW key, NEW c
  PROVE  /\ c \in {"a", "odd"} =>
              Parse(State("string", rows, members, name, text, key), c)
                = State("string", rows, members, name, Append(text, c), key)
         /\ c \in {"quote", "backslash"} =>
              Parse(State("escape", rows, members, name, text, key), c)
                = State("string", rows, members, name, Append(text, c), key)
         /\ Parse(State("hex", rows, members, name, text, key), c)
              = State("string", rows, members, name, Append(text, c), key)
BY DEF Parse, State, Letter

\* The escapes that stand for another character, or for more of them.
LEMMA ParseEscape ==
  ASSUME NEW rows, NEW members, NEW name, NEW text, NEW key
  PROVE  /\ Parse(State("string", rows, members, name, text, key), "backslash")
              = State("escape", rows, members, name, text, key)
         /\ Parse(State("escape", rows, members, name, text, key), "t")
              = State("string", rows, members, name, Append(text, "tab"), key)
         /\ Parse(State("escape", rows, members, name, text, key), "r")
              = State("string", rows, members, name, Append(text, "return"), key)
         /\ Parse(State("escape", rows, members, name, text, key), "n")
              = State("string", rows, members, name, Append(text, "newline"), key)
         /\ Parse(State("escape", rows, members, name, text, key), "u")
              = State("hex", rows, members, name, text, key)
<1>1. Letter["t"] = "tab" /\ Letter["r"] = "return" /\ Letter["n"] = "newline"
  BY DEF Letter
<1>2. DOMAIN Letter = {"t", "r", "n"}
  BY DEF Letter
<1> HIDE DEF Letter
<1>3. QED
  BY <1>1, <1>2 DEF Parse, State

\* Two pieces are one and one.
LEMMA TwoSeq ==
  ASSUME NEW S, NEW t \in S, NEW u \in S
  PROVE  <<t, u>> \in Seq(S) /\ <<t, u>> = <<t>> \o <<u>>
<1>1. <<t>> \in Seq(S) /\ <<t, u>> \in Seq(S) /\ <<t, u>> = Append(<<t>>, u)
  OBVIOUS
<1>2. QED
  BY <1>1, AppendIsConcat

\* Three pieces are two and one.
LEMMA ThreeSeq ==
  ASSUME NEW S, NEW t \in S, NEW u \in S, NEW v \in S
  PROVE  <<t, u, v>> \in Seq(S) /\ <<t, u, v>> = <<t, u>> \o <<v>>
<1>1. <<t, u>> \in Seq(S) /\ <<t, u, v>> \in Seq(S) /\ <<t, u, v>> = Append(<<t, u>>, v)
  OBVIOUS
<1>2. QED
  BY <1>1, AppendIsConcat

\* Two tokens are read one after the other.
LEMMA ReadTwo ==
  ASSUME NEW p, NEW t \in Token, NEW u \in Token
  PROVE  <<t, u>> \in Seq(Token) /\ Read(p, <<t, u>>) = Parse(Parse(p, t), u)
<1> DEFINE q == Parse(p, t)
           first == <<t>>
           second == <<u>>
<1>1. first \in Seq(Token) /\ second \in Seq(Token)
  BY OneSeq
<1>2. <<t, u>> \in Seq(Token) /\ <<t, u>> = first \o second
  BY TwoSeq
<1>3. Read(p, first) = q
  BY ReadOne
<1>4. Read(q, second) = Parse(q, u)
  BY ReadOne
<1> HIDE DEF first, second
<1>5. Read(p, first \o second) = Read(q, second)
  BY <1>1, <1>3, ReadConcat
<1>6. QED
  BY <1>2, <1>4, <1>5

\* Three tokens are read one after the other.
LEMMA ReadThree ==
  ASSUME NEW p, NEW t \in Token, NEW u \in Token, NEW v \in Token
  PROVE  /\ <<t, u, v>> \in Seq(Token)
         /\ Read(p, <<t, u, v>>) = Parse(Parse(Parse(p, t), u), v)
<1> DEFINE q == Parse(Parse(p, t), u)
           first == <<t, u>>
           second == <<v>>
<1>1. first \in Seq(Token) /\ second \in Seq(Token)
  BY OneSeq, ReadTwo
<1>2. <<t, u, v>> \in Seq(Token) /\ <<t, u, v>> = first \o second
  BY ThreeSeq
<1>3. Read(p, first) = q
  BY ReadTwo
<1>4. Read(q, second) = Parse(q, v)
  BY ReadOne
<1> HIDE DEF first, second
<1>5. Read(p, first \o second) = Read(q, second)
  BY <1>1, <1>3, ReadConcat
<1>6. QED
  BY <1>2, <1>4, <1>5

\* What writeEscaped writes of a character, JSON.parse reads as this character.
LEMMA ReadEscaped ==
  ASSUME NEW c \in Char, NEW rows, NEW members, NEW name, NEW text, NEW key
  PROVE  /\ Escaped(c) \in Seq(Token)
         /\ Read(State("string", rows, members, name, text, key), Escaped(c))
              = State("string", rows, members, name, Append(text, c), key)
<1> DEFINE p == State("string", rows, members, name, text, key)
           e == State("escape", rows, members, name, text, key)
           h == State("hex", rows, members, name, text, key)
           q(d) == State("string", rows, members, name, Append(text, d), key)
<1>1. /\ Parse(p, "backslash") = e /\ Parse(e, "u") = h
      /\ Parse(e, "t") = q("tab") /\ Parse(e, "r") = q("return") /\ Parse(e, "n") = q("newline")
  BY ParseEscape
<1>2. /\ c = "a" => Parse(p, c) = q(c)
      /\ c \in {"quote", "backslash"} => Parse(e, c) = q(c)
      /\ Parse(h, c) = q(c)
  <2>1. c = "a" => Parse(p, c) = q(c)
    BY ParseString
  <2>2. c \in {"quote", "backslash"} => Parse(e, c) = q(c)
    BY ParseString
  <2>3. Parse(h, c) = q(c)
    BY ParseString
  <2>4. QED
    BY <2>1, <2>2, <2>3
<1>0. {c, "quote", "backslash", "t", "r", "n", "u"} \subseteq Token
  BY DEF Token, Marks
<1> HIDE DEF p, e, h, q
<1> SUFFICES Escaped(c) \in Seq(Token) /\ Read(p, Escaped(c)) = q(c)
  BY DEF p, q
<1>3. CASE c = "a"
  <2>1. Escaped(c) = <<c>>
    BY <1>3 DEF Escaped
  <2>2. QED
    BY <1>0, <1>2, <1>3, <2>1, ReadOne, OneSeq
<1>4. ASSUME NEW t \in Token, Escaped(c) = <<"backslash", t>>, Parse(e, t) = q(c)
      PROVE  Escaped(c) \in Seq(Token) /\ Read(p, Escaped(c)) = q(c)
  <2>1. /\ Read(p, <<"backslash", t>>) = Parse(Parse(p, "backslash"), t)
        /\ <<"backslash", t>> \in Seq(Token)
    BY <1>0, ReadTwo
  <2>2. QED
    BY <1>1, <1>4, <2>1
<1>5. CASE c \in {"quote", "backslash"}
  <2>1. Escaped(c) = <<"backslash", c>>
    BY <1>5 DEF Escaped
  <2>2. QED
    BY <1>0, <1>2, <1>4, <1>5, <2>1
<1>6. CASE c = "tab"
  <2>1. Escaped(c) = <<"backslash", "t">>
    BY <1>6 DEF Escaped
  <2>2. QED
    BY <1>0, <1>1, <1>4, <1>6, <2>1
<1>7. CASE c = "return"
  <2>1. Escaped(c) = <<"backslash", "r">>
    BY <1>7 DEF Escaped
  <2>2. QED
    BY <1>0, <1>1, <1>4, <1>7, <2>1
<1>8. CASE c = "newline"
  <2>1. Escaped(c) = <<"backslash", "n">>
    BY <1>8 DEF Escaped
  <2>2. QED
    BY <1>0, <1>1, <1>4, <1>8, <2>1
<1>9. CASE c \notin {"a", "quote", "backslash", "tab", "return", "newline"}
  <2>1. Escaped(c) = <<"backslash", "u", c>>
    BY <1>9 DEF Escaped
  <2>2. "backslash" \in Token /\ "u" \in Token /\ c \in Token
    BY <1>0
  <2>3. /\ Read(p, <<"backslash", "u", c>>) = Parse(Parse(Parse(p, "backslash"), "u"), c)
        /\ <<"backslash", "u", c>> \in Seq(Token)
    BY <2>2, ReadThree
  <2>4. QED
    BY <1>1, <1>2, <2>1, <2>3
<1>10. QED
  BY <1>3, <1>5, <1>6, <1>7, <1>8, <1>9

-----------------------------------------------------------------------------
\* The beginning of a text, which grows by its next character.
LEMMA PrefixGrows ==
  ASSUME NEW S, NEW text \in Seq(S)
  PROVE  /\ SubSeq(text, 1, 0) = << >>
         /\ SubSeq(text, 1, Len(text)) = text
         /\ \A i \in 0..Len(text) - 1 :
              SubSeq(text, 1, i + 1) = Append(SubSeq(text, 1, i), text[i + 1])
<1>1. SubSeq(text, 1, 0) = << >>
  BY SubSeqEmpty
<1>2. SubSeq(text, 1, Len(text)) = text
  BY SubSeqFull
<1>3. ASSUME NEW i \in 0..Len(text) - 1
      PROVE  SubSeq(text, 1, i + 1) = Append(SubSeq(text, 1, i), text[i + 1])
  <2>1. /\ Len(text) \in Nat /\ i + 1 \in 1..Len(text) /\ 1 \in 1..Len(text)
        /\ (i + 1) - 1 = i /\ i + 1 \in 1..Len(text)
    OBVIOUS
  <2>2. SubSeq(text, 1, i + 1) = SubSeq(text, 1, i) \o <<text[i + 1]>>
    BY <2>1, SubSeqRecursiveSecond
  <2>3. text[i + 1] \in S /\ \A k \in 1..i : text[k] \in S
    BY <2>1, ElementOfSeq
  <2>4. SubSeq(text, 1, i) \in Seq(S)
    BY <2>1, <2>3, SubSeqProperties
  <2>5. QED
    BY <2>2, <2>3, <2>4, AppendIsConcat
<1>4. QED
  BY <1>1, <1>2, <1>3

\* Within a string, characters that need no escape are read as they are.
LEMMA ReadPlain ==
  ASSUME NEW text \in Seq({"a"}), NEW rows, NEW members, NEW name, NEW key
  PROVE  /\ text \in Seq(Token)
         /\ Read(State("string", rows, members, name, << >>, key), text)
              = State("string", rows, members, name, text, key)
<1> DEFINE L == Len(text)
           p(t) == State("string", rows, members, name, t, key)
<1>1. text \in Seq(Token) /\ L \in Nat
  BY SeqMonotonic DEF Token
<1>2. \A i \in 1..L : text[i] = "a"
  BY ElementOfSeq
<1>3. \A t : Parse(p(t), "a") = p(Append(t, "a"))
  BY ParseString
<1>4. PICK f : /\ f[0] = p(<< >>)
               /\ \A k \in 1..Len(text) : f[k] = Parse(f[k - 1], text[k])
               /\ Read(p(<< >>), text) = f[Len(text)]
  BY <1>1, ReadFacts
<1>5. /\ SubSeq(text, 1, 0) = << >> /\ SubSeq(text, 1, L) = text
      /\ \A i \in 0..L - 1 : SubSeq(text, 1, i + 1) = Append(SubSeq(text, 1, i), text[i + 1])
  BY PrefixGrows
<1> DEFINE N == {n \in Nat : f[n] = p(SubSeq(text, 1, n))}
<1>6. \A k \in 1..L : f[k] = Parse(f[k - 1], "a")
  BY <1>2, <1>4
<1> HIDE DEF L, p
<1>7. 0 \in N
  BY <1>4, <1>5
<1>8. ASSUME NEW k \in 0..L - 1, k \in N PROVE k + 1 \in N
  <2>1. k \in Nat /\ k + 1 \in 1..L /\ (k + 1) - 1 = k
    BY <1>1
  <2>2. f[k + 1] = Parse(f[k], "a")
    BY <1>6, <2>1
  <2>3. Parse(f[k], "a") = p(Append(SubSeq(text, 1, k), "a"))
    BY <1>3, <1>8
  <2>4. SubSeq(text, 1, k + 1) = Append(SubSeq(text, 1, k), "a")
    BY <1>2, <1>5, <2>1
  <2>5. f[k + 1] = p(SubSeq(text, 1, k + 1))
    BY <2>2, <2>3, <2>4
  <2>6. QED
    BY <2>1, <2>5
<1> HIDE DEF N
<1>9. 0..L \subseteq N
  BY <1>1, <1>7, <1>8, Induction
<1>10. f[L] = p(SubSeq(text, 1, L))
  BY <1>1, <1>9 DEF N
<1>11. QED
  BY <1>1, <1>4, <1>5, <1>10 DEF L, p

\* What writeEscaped writes between the quotation marks.
Inside(text) == FlattenSeq([n \in DOMAIN text |-> Escaped(text[n])])

\* Within a string, it is read as the characters it was written for.
LEMMA ReadAllEscaped ==
  ASSUME NEW text \in Seq(Char), NEW rows, NEW members, NEW name, NEW key
  PROVE  /\ Inside(text) \in Seq(Token)
         /\ Read(State("string", rows, members, name, << >>, key), Inside(text))
              = State("string", rows, members, name, text, key)
<1> DEFINE L == Len(text)
           ss == [n \in DOMAIN text |-> Escaped(text[n])]
           p(t) == State("string", rows, members, name, t, key)
<1>1. L \in Nat /\ DOMAIN text = 1..L /\ \A i \in 1..L : text[i] \in Char
  BY LenProperties, ElementOfSeq
<1>2. \A c \in Char : \A t :
        Escaped(c) \in Seq(Token) /\ Read(p(t), Escaped(c)) = p(Append(t, c))
  BY ReadEscaped
<1>3. /\ SubSeq(text, 1, 0) = << >> /\ SubSeq(text, 1, L) = text
      /\ \A i \in 0..L - 1 : SubSeq(text, 1, i + 1) = Append(SubSeq(text, 1, i), text[i + 1])
  BY PrefixGrows
<1> HIDE DEF L, p
<1>4. ss = [n \in 1..L |-> Escaped(text[n])]
  BY <1>1
<1>5. ss \in Seq(Seq(Token)) /\ Len(ss) = L /\ \A i \in 1..L : ss[i] = Escaped(text[i])
  BY <1>1, <1>2, <1>4
<1> HIDE DEF ss
<1>6. PICK f \in [0..L -> Seq(Token)] :
        /\ f[0] = << >>
        /\ \A i \in 1..L : f[i] = f[i - 1] \o ss[i]
        /\ FlattenSeq(ss) = f[L]
  BY <1>5, FlattenFacts
<1> DEFINE N == {n \in Nat : Read(p(<< >>), f[n]) = p(SubSeq(text, 1, n))}
<1>7. 0 \in N
  BY <1>3, <1>6, ReadEmpty
<1>8. ASSUME NEW k \in 0..L - 1, k \in N PROVE k + 1 \in N
  <2>1. k \in Nat /\ k \in 0..L /\ k + 1 \in 1..L /\ (k + 1) - 1 = k
    BY <1>1
  <2>2. f[k + 1] = f[k] \o Escaped(text[k + 1])
    BY <1>5, <1>6, <2>1
  <2>3. f[k] \in Seq(Token) /\ Escaped(text[k + 1]) \in Seq(Token)
    BY <1>1, <1>2, <1>6, <2>1
  <2>4. Read(p(<< >>), f[k + 1]) = Read(p(SubSeq(text, 1, k)), Escaped(text[k + 1]))
    BY <1>8, <2>2, <2>3, ReadConcat
  <2>5. Read(p(<< >>), f[k + 1]) = p(Append(SubSeq(text, 1, k), text[k + 1]))
    BY <1>1, <1>2, <2>1, <2>4
  <2>6. SubSeq(text, 1, k + 1) = Append(SubSeq(text, 1, k), text[k + 1])
    BY <1>3
  <2>7. Read(p(<< >>), f[k + 1]) = p(SubSeq(text, 1, k + 1))
    BY <2>5, <2>6
  <2>8. QED
    BY <2>1, <2>7
<1> HIDE DEF N
<1>9. 0..L \subseteq N
  BY <1>1, <1>7, <1>8, Induction
<1>10. Read(p(<< >>), f[L]) = p(SubSeq(text, 1, L)) /\ f[L] \in Seq(Token)
  BY <1>1, <1>6, <1>9 DEF N
<1>11. QED
  BY <1>3, <1>6, <1>10 DEF p, ss, Inside
-----------------------------------------------------------------------------
\* The parser is in this state, with these rows and these members; the other
\* fields are left over from the last string.
At(p, at, rows, members) ==
  \E name, text, key : p = State(at, rows, members, name, text, key)

\* The steps of the parser outside a string.
LEMMA ParseAt ==
  ASSUME NEW p, NEW rows, NEW m
  PROVE  /\ At(p, "begin", rows, m) => At(Parse(p, "beginArray"), "first", rows, m)
         /\ At(p, "first", rows, m) => At(Parse(p, "endArray"), "end", rows, m)
         /\ At(p, "first", rows, m) => At(Parse(p, "beginObject"), "pair", rows, << >>)
         /\ At(p, "row", rows, m) => At(Parse(p, "beginObject"), "pair", rows, << >>)
         /\ At(p, "after", rows, m) => At(Parse(p, "comma"), "pair", rows, m)
         /\ At(p, "after", rows, m) => At(Parse(p, "endObject"), "next", Append(rows, m), m)
         /\ At(p, "next", rows, m) => At(Parse(p, "comma"), "row", rows, m)
         /\ At(p, "next", rows, m) => At(Parse(p, "endArray"), "end", rows, m)
<1>1. ASSUME NEW name, NEW text, NEW key
      PROVE  /\ Parse(State("begin", rows, m, name, text, key), "beginArray")
                  = State("first", rows, m, name, text, key)
             /\ Parse(State("first", rows, m, name, text, key), "endArray")
                  = State("end", rows, m, name, text, key)
             /\ Parse(State("first", rows, m, name, text, key), "beginObject")
                  = State("pair", rows, << >>, name, text, key)
             /\ Parse(State("row", rows, m, name, text, key), "beginObject")
                  = State("pair", rows, << >>, name, text, key)
  BY DEF Parse, State
<1>2. ASSUME NEW name, NEW text, NEW key
      PROVE  /\ Parse(State("after", rows, m, name, text, key), "comma")
                  = State("pair", rows, m, name, text, key)
             /\ Parse(State("after", rows, m, name, text, key), "endObject")
                  = State("next", Append(rows, m), m, name, text, key)
             /\ Parse(State("next", rows, m, name, text, key), "comma")
                  = State("row", rows, m, name, text, key)
             /\ Parse(State("next", rows, m, name, text, key), "endArray")
                  = State("end", rows, m, name, text, key)
  BY DEF Parse, State
<1>3. QED
  BY <1>1, <1>2 DEF At

\* A string is the name of a member or not.
Yes == TRUE
No == FALSE

Fields == {"at", "rows", "members", "name", "text", "key"}

\* A state is known by its fields.
LEMMA FieldsOfState ==
  ASSUME NEW q, q = [x \in Fields |-> q[x]]
  PROVE  q = State(q.at, q.rows, q.members, q.name, q.text, q.key)
BY DEF State, Fields

\* A value ends a member.
LEMMA MemberState ==
  ASSUME NEW at, NEW rows, NEW m, NEW name, NEW text, NEW key, NEW v
  PROVE  Member(State(at, rows, m, name, text, key), v)
           = State("after", rows, With(m, name, v), name, text, key)
<1> DEFINE p == State(at, rows, m, name, text, key)
           w == With(m, name, v)
           e == [p EXCEPT !.members = w, !.at = "after"]
<1>1. p.name = name /\ p.members = m
  BY DEF State
<1>2. Member(p, v) = e
  BY <1>1 DEF Member
<1> HIDE DEF w
<1>3. e = [x \in Fields |-> e[x]]
  BY DEF State, Fields
<1>4. /\ e.at = "after" /\ e.rows = rows /\ e.members = w /\ e.name = name /\ e.text = text
      /\ e.key = key
  BY DEF State
<1> HIDE DEF e
<1>5. e = State(e.at, e.rows, e.members, e.name, e.text, e.key)
  BY <1>3, FieldsOfState
<1>6. QED
  BY <1>2, <1>4, <1>5 DEF w

\* A quotation mark begins a string, or ends the name of a member.
LEMMA ParseQuote ==
  ASSUME NEW rows, NEW m, NEW name, NEW text, NEW key
  PROVE  /\ Parse(State("pair", rows, m, name, text, key), "quote")
              = State("string", rows, m, name, << >>, Yes)
         /\ Parse(State("value", rows, m, name, text, key), "quote")
              = State("string", rows, m, name, << >>, No)
         /\ Parse(State("string", rows, m, name, text, Yes), "quote")
              = State("colon", rows, m, text, text, Yes)
         /\ Parse(State("colon", rows, m, name, text, key), "colon")
              = State("value", rows, m, name, text, key)
<1>1. Parse(State("pair", rows, m, name, text, key), "quote")
        = State("string", rows, m, name, << >>, Yes)
  <2> DEFINE e == Parse(State("pair", rows, m, name, text, key), "quote")
  <2>1. e = [x \in Fields |-> e[x]]
    BY DEF Parse, State, Fields
  <2>2. /\ e.at = "string" /\ e.rows = rows /\ e.members = m /\ e.name = name
        /\ e.text = << >> /\ e.key = Yes
    BY DEF Parse, State, Yes
  <2> HIDE DEF e
  <2>3. e = State(e.at, e.rows, e.members, e.name, e.text, e.key)
    BY <2>1, FieldsOfState
  <2>4. QED
    BY <2>2, <2>3 DEF e
<1>2. Parse(State("value", rows, m, name, text, key), "quote")
        = State("string", rows, m, name, << >>, No)
  <2> DEFINE e == Parse(State("value", rows, m, name, text, key), "quote")
  <2>1. e = [x \in Fields |-> e[x]]
    BY DEF Parse, State, Fields, Marks
  <2>2. /\ e.at = "string" /\ e.rows = rows /\ e.members = m /\ e.name = name
        /\ e.text = << >> /\ e.key = No
    BY DEF Parse, State, Marks, No
  <2> HIDE DEF e
  <2>3. e = State(e.at, e.rows, e.members, e.name, e.text, e.key)
    BY <2>1, FieldsOfState
  <2>4. QED
    BY <2>2, <2>3 DEF e
<1>3. Parse(State("string", rows, m, name, text, Yes), "quote")
        = State("colon", rows, m, text, text, Yes)
  <2> DEFINE e == Parse(State("string", rows, m, name, text, Yes), "quote")
  <2>1. e = [x \in Fields |-> e[x]]
    BY DEF Parse, State, Fields, Yes
  <2>2. /\ e.at = "colon" /\ e.rows = rows /\ e.members = m /\ e.name = text
        /\ e.text = text /\ e.key = Yes
    BY DEF Parse, State, Yes
  <2> HIDE DEF e
  <2>3. e = State(e.at, e.rows, e.members, e.name, e.text, e.key)
    BY <2>1, FieldsOfState
  <2>4. QED
    BY <2>2, <2>3 DEF e
<1>4. Parse(State("colon", rows, m, name, text, key), "colon")
        = State("value", rows, m, name, text, key)
  BY DEF Parse, State
<1>5. QED
  BY <1>1, <1>2, <1>3, <1>4

\* A quotation mark ends a text.
LEMMA ParseEndOfText ==
  ASSUME NEW rows, NEW m, NEW name, NEW text
  PROVE  Parse(State("string", rows, m, name, text, No), "quote")
           = State("after", rows, With(m, name, [is |-> "text", text |-> text]),
                   name, text, No)
<1> DEFINE p == State("string", rows, m, name, text, No)
           v == [is |-> "text", text |-> text]
<1>1. Member(p, v) = State("after", rows, With(m, name, v), name, text, No)
  BY MemberState
<1>2. p.at = "string" /\ p.key = No /\ p.text = text
  BY DEF State
<1> HIDE DEF p
<1>3. Parse(p, "quote") = Member(p, v)
  BY <1>2 DEF Parse, No
<1>4. QED
  BY <1>1, <1>3 DEF p

\* A text is refused.
Refused(p) == \E rows, m : At(p, "error", rows, m)

\* A null is a member.
LEMMA ParseNull ==
  ASSUME NEW rows, NEW m, NEW name, NEW text, NEW key
  PROVE  Parse(State("value", rows, m, name, text, key), "null")
           = State("after", rows, With(m, name, [is |-> "null"]), name, text, key)
<1> DEFINE p == State("value", rows, m, name, text, key)
<1>1. p.at = "value"
  BY DEF State
<1>2. Member(p, [is |-> "null"])
        = State("after", rows, With(m, name, [is |-> "null"]), name, text, key)
  BY MemberState
<1> HIDE DEF p
<1>3. Parse(p, "null") = Member(p, [is |-> "null"])
  BY <1>1 DEF Parse, Marks
<1>4. QED
  BY <1>2, <1>3 DEF p

\* A number is a member, and an infinite one is refused.
LEMMA ParseValue ==
  ASSUME NEW rows, NEW m, NEW name, NEW text, NEW key, NEW t
  PROVE  /\ t \notin Marks =>
              Parse(State("value", rows, m, name, text, key), t)
                = State("after", rows, With(m, name, [is |-> "number", number |-> t]),
                        name, text, key)
         /\ t \in {"Inf", "minusInf"} =>
              Refused(Parse(State("value", rows, m, name, text, key), t))
<1> DEFINE p == State("value", rows, m, name, text, key)
           v == [is |-> "number", number |-> t]
<1>1. p.at = "value"
  BY DEF State
<1>2. Member(p, v) = State("after", rows, With(m, name, v), name, text, key)
  BY MemberState
<1>3. ASSUME t \in {"Inf", "minusInf"} PROVE Parse(p, t) = State("error", rows, m, name, text, key)
  BY <1>3 DEF Parse, State, Marks
<1> HIDE DEF p
<1>4. t \notin Marks => Parse(p, t) = Member(p, v)
  BY <1>1 DEF Parse, Marks
<1>5. QED
  BY <1>2, <1>3, <1>4 DEF p, Refused, At

-----------------------------------------------------------------------------
\* A text between two others is read in its turn.
LEMMA ReadBetween ==
  ASSUME NEW p, NEW s \in Seq(Token), NEW t \in Seq(Token), NEW u \in Seq(Token)
  PROVE  /\ s \o t \o u \in Seq(Token)
         /\ Read(p, s \o t \o u) = Read(Read(Read(p, s), t), u)
<1>1. s \o t \in Seq(Token) /\ s \o t \o u \in Seq(Token)
  BY ConcatProperties
<1>2. Read(p, s \o t) = Read(Read(p, s), t)
  BY ReadConcat
<1>3. \A st \in Seq(Token) : Read(p, st \o u) = Read(Read(p, st), u)
  BY ReadConcat
<1>4. QED
  BY <1>1, <1>2, <1>3

\* The quotation mark as a text.
LEMMA ReadQuote ==
  /\ Quote \in Seq(Token)
  /\ \A p : Read(p, Quote) = Parse(p, "quote")
<1>1. "quote" \in Token
  BY DEF Token, Marks
<1>2. QED
  BY <1>1, OneSeq, ReadOne DEF Quote

\* The name of a column, and what stands before its value.
LEMMA ReadName ==
  ASSUME NEW p, NEW rows, NEW m, At(p, "pair", rows, m), NEW name \in Seq({"a"})
  PROVE  /\ Quote \o name \o Quote \o <<"colon">> \in Seq(Token)
         /\ \E text, key : Read(p, Quote \o name \o Quote \o <<"colon">>)
                            = State("value", rows, m, name, text, key)
<1> DEFINE before == Quote \o name \o Quote
<1>1. PICK old, text, key : p = State("pair", rows, m, old, text, key)
  BY DEF At
<1>2. name \in Seq(Token)
  BY ReadPlain
<1>3. before \in Seq(Token) /\ Read(p, before) = Read(Read(Read(p, Quote), name), Quote)
  BY <1>2, ReadQuote, ReadBetween
<1>4. Read(p, Quote) = State("string", rows, m, old, << >>, Yes)
  BY <1>1, ReadQuote, ParseQuote
<1>5. Read(State("string", rows, m, old, name, Yes), Quote) = State("colon", rows, m, name, name, Yes)
  BY ReadQuote, ParseQuote
<1>6. Read(State("string", rows, m, old, << >>, Yes), name) = State("string", rows, m, old, name, Yes)
  BY ReadPlain
<1>7. Read(p, before) = State("colon", rows, m, name, name, Yes)
  BY <1>3, <1>4, <1>5, <1>6
<1>8. "colon" \in Token
  BY DEF Token, Marks
<1>9. /\ <<"colon">> \in Seq(Token)
      /\ Read(State("colon", rows, m, name, name, Yes), <<"colon">>)
           = State("value", rows, m, name, name, Yes)
  <2>1. Parse(State("colon", rows, m, name, name, Yes), "colon")
          = State("value", rows, m, name, name, Yes)
    BY ParseQuote
  <2>2. QED
    BY <1>8, <2>1, OneSeq, ReadOne
<1> HIDE DEF before
<1>10. /\ before \o <<"colon">> \in Seq(Token)
       /\ Read(p, before \o <<"colon">>) = Read(Read(p, before), <<"colon">>)
  BY <1>3, <1>9, ReadConcat, ConcatProperties
<1>11. QED
  BY <1>7, <1>9, <1>10 DEF before

\* A quoted text, of which the inside is read as text.
LEMMA ReadQuoted ==
  ASSUME NEW body \in Seq(Token), NEW rows, NEW m, NEW name, NEW old, NEW key, NEW text,
         Read(State("string", rows, m, name, << >>, No), body)
           = State("string", rows, m, name, text, No)
  PROVE  /\ Quote \o body \o Quote \in Seq(Token)
         /\ At(Read(State("value", rows, m, name, old, key), Quote \o body \o Quote),
               "after", rows, With(m, name, [is |-> "text", text |-> text]))
<1> DEFINE p == State("value", rows, m, name, old, key)
           v == [is |-> "text", text |-> text]
<1>1. Read(p, Quote) = State("string", rows, m, name, << >>, No)
  BY ReadQuote, ParseQuote
<1>2. Read(State("string", rows, m, name, text, No), Quote)
        = State("after", rows, With(m, name, v), name, text, No)
  BY ReadQuote, ParseEndOfText
<1>3. Read(State("string", rows, m, name, << >>, No), body) = State("string", rows, m, name, text, No)
  OBVIOUS
<1> HIDE DEF p, v
<1>4. /\ Quote \o body \o Quote \in Seq(Token)
      /\ Read(p, Quote \o body \o Quote) = Read(Read(Read(p, Quote), body), Quote)
  BY ReadQuote, ReadBetween
<1>5. Read(p, Quote \o body \o Quote) = State("after", rows, With(m, name, v), name, text, No)
  BY <1>1, <1>2, <1>3, <1>4
<1>6. QED
  BY <1>4, <1>5 DEF At, p, v

-----------------------------------------------------------------------------
\* What JSON.parse makes of what GetRow writes of a value: one that comes back,
\* as BackComesBack below says.
Back(g) ==
  CASE g.is = "null" -> [is |-> "null"]
    [] g.is = "text" -> [is |-> "text", text |-> UpToNul(g.text)]
    [] g.is = "number" /\ g.number = "NaN" -> [is |-> "null"]
    [] g.is = "number" /\ g.number # "NaN" -> [is |-> "number", number |-> Digits(g.number)]
    [] g.is = "boolean" -> [is |-> "number", number |-> Decimal(IF g.yes THEN 1 ELSE 0)]
    [] g.is = "date" -> [is |-> "number", number |-> Decimal(g.ticks \div Tick - Epoch)]
    [] g.is = "buffer" -> [is |-> "text", text |-> g.bytes]

\* The members of a row, the last ones of their names.
Expected(n) ==
  LET last(name) == CHOOSE i \in 1..Columns :
        names[i] = name /\ \A j \in i + 1..Columns : names[j] # name
  IN  [name \in {names[i] : i \in 1..Columns} |-> Back(given[n][last(name)])]

\* What is left of a text is one.
LEMMA UpToNulIsText ==
  ASSUME NEW text \in Seq(Char)
  PROVE  UpToNul(text) \in Seq(Char)
<1> DEFINE nul == {n \in 1..Len(text) : text[n] = "nul"}
           k == CHOOSE n \in nul : \A m \in nul : n <= m
<1>1. CASE nul = {}
  BY <1>1 DEF UpToNul
<1>2. CASE nul # {}
  <2>1. nul \in SUBSET Nat
    OBVIOUS
  <2>2. \E n \in nul : \A m \in nul : n <= m
    <3> HIDE DEF nul
    <3>1. QED
      BY <1>2, <2>1, LeastElement
  <2>3. k \in 1..Len(text)
    <3>1. k \in nul
      <4> HIDE DEF nul
      <4>1. QED
        BY <2>2
    <3>2. QED
      BY <3>1
  <2>4. UpToNul(text) = SubSeq(text, 1, k - 1)
    BY <1>2 DEF UpToNul
  <2> HIDE DEF k, nul
  <2>5. \A i \in 1..k - 1 : text[i] \in Char
    BY <2>3, ElementOfSeq, LenProperties
  <2>6. k - 1 \in Int
    BY <2>3, LenProperties
  <2>7. SubSeq(text, 1, k - 1) \in Seq(Char)
    BY <2>5, <2>6, SubSeqProperties
  <2>8. QED
    BY <2>4, <2>7
<1>3. QED
  BY <1>1, <1>2

\* What is left is a beginning of the text, and all of it where there is no NUL.
LEMMA UpToNulBegins ==
  ASSUME NEW text \in Seq(Char)
  PROVE  /\ IsPrefix(UpToNul(text), text)
         /\ UpToNul(text) = text \/ \E n \in 1..Len(text) : text[n] = "nul"
<1> DEFINE nul == {n \in 1..Len(text) : text[n] = "nul"}
           k == CHOOSE n \in nul : \A m \in nul : n <= m
<1>0. Len(text) \in Nat
  BY LenProperties
<1>1. CASE nul = {}
  <2>1. UpToNul(text) = text
    BY <1>1 DEF UpToNul
  <2>2. QED
    BY <1>0, <2>1 DEF IsPrefix
<1>2. CASE nul # {}
  <2>1. nul \in SUBSET Nat
    OBVIOUS
  <2>2. \E n \in nul : \A m \in nul : n <= m
    <3> HIDE DEF nul
    <3>1. QED
      BY <1>2, <2>1, LeastElement
  <2>3. k \in nul
    <3> HIDE DEF nul
    <3>1. QED
      BY <2>2
  <2>4. k \in 1..Len(text) /\ text[k] = "nul"
    BY <2>3
  <2>5. UpToNul(text) = SubSeq(text, 1, k - 1)
    BY <1>2 DEF UpToNul
  <2> HIDE DEF k, nul
  <2> DEFINE s == SubSeq(text, 1, k - 1)
  <2>6. \A i \in 1..k - 1 : text[i] \in Char
    BY <2>4, ElementOfSeq, LenProperties
  <2>7. k - 1 \in Nat /\ k - 1 <= Len(text)
    BY <1>0, <2>4
  <2>8. /\ s \in Seq(Char) /\ Len(s) = k - 1
        /\ \A i \in 1..k - 1 : s[i] = text[i]
    BY <2>6, <2>7, SubSeqProperties
  <2> HIDE DEF s
  <2>9. \A i \in 1..k - 1 : s[i] \in Char
    BY <2>8, ElementOfSeq
  <2>10. /\ SubSeq(s, 1, k - 1) \in Seq(Char) /\ Len(SubSeq(s, 1, k - 1)) = k - 1
         /\ \A i \in 1..k - 1 : SubSeq(s, 1, k - 1)[i] = s[i]
    BY <2>7, <2>9, SubSeqProperties
  <2>11. SubSeq(s, 1, k - 1) = s
    BY <2>8, <2>10, SeqEqual
  <2>12. IsPrefix(s, text)
    BY <2>7, <2>8, <2>11 DEF IsPrefix, s
  <2>13. QED
    BY <2>4, <2>5, <2>12 DEF s
<1>3. QED
  BY <1>1, <1>2

\* Sixty-four bits hold what they can hold.
LEMMA SignedUnsigned ==
  ASSUME NEW n \in Integer
  PROVE  Signed(Unsigned(n)) = n
<1>1. Width \in Nat /\ Width > 2 /\ Width % 2 = 0
  BY ValueAssumption
<1> DEFINE H == Width \div 2
<1>2. H \in Nat /\ Width = 2 * H
  BY <1>1
<1>3. n \in Int /\ -H <= n /\ n < H
  BY <1>2 DEF Integer
<1> HIDE DEF H
<1>4. n % Width = IF n < 0 THEN n + Width ELSE n
  <2>1. CASE n >= 0
    <3>1. n < Width
      BY <1>2, <1>3
    <3>2. QED
      BY <1>1, <1>3, <2>1, <3>1
  <2>2. CASE n < 0
    <3>1. 0 <= n + Width /\ n + Width < Width
      BY <1>2, <1>3, <2>2
    <3>2. QED
      BY <1>1, <1>3, <2>2, <3>1
  <2>3. QED
    BY <1>3, <2>1, <2>2
<1>5. QED
  BY <1>2, <1>3, <1>4 DEF Signed, Unsigned, H

\* Whole milliseconds are divided exactly, before 1601 as after.
LEMMA WholeMilliseconds ==
  ASSUME NEW ticks \in Int, ticks % Tick = 0, ticks \div Tick - Epoch \in Integer
  PROVE  UnixTime(ticks) = ticks \div Tick - Epoch
<1> DEFINE q == ticks \div Tick
<1>1. Tick \in Nat /\ Tick > 0 /\ Epoch \in Nat
  BY ValueAssumption
<1>2. q \in Int /\ ticks = Tick * q
  BY <1>1
<1>3. ticks < 0 => (-ticks) \div Tick = -q
  <2>1. -ticks = Tick * (-q)
    BY <1>1, <1>2
  <2>2. ASSUME NEW r \in Int PROVE (Tick * r) \div Tick = r
    BY <1>1
  <2>3. QED
    BY <1>2, <2>1, <2>2
<1>4. UnixTime(ticks) = Signed(Unsigned(q - Epoch))
  <2>1. CASE ticks < 0
    BY <1>1, <1>2, <1>3, <2>1 DEF UnixTime
  <2>2. CASE ~(ticks < 0)
    BY <2>2 DEF UnixTime
  <2>3. QED
    BY <2>1, <2>2
<1>5. QED
  BY <1>4, SignedUnsigned

-----------------------------------------------------------------------------
\* What can be bound, and the infinite numbers of it.
Bindable == {g \in Given : g.is # "object"}

\* What JSON.parse makes of a value is what comes back of it.
LEMMA BackComesBack ==
  ASSUME NEW g \in Bindable
  PROVE  ComesBack(g, Back(g))
<1>1. /\ g \in Given /\ g.is \in {"null", "boolean", "number", "text", "date", "buffer"}
      /\ g.is = "text" => g.text \in Seq(Char)
  BY ValueAssumption DEF Bindable
<1>2. CASE g.is = "text"
  <2> DEFINE t == UpToNul(g.text)
             v == [is |-> "text", text |-> t]
  <2>1. /\ IsPrefix(t, g.text)
        /\ t = g.text \/ \E n \in 1..Len(g.text) : g.text[n] = "nul"
    BY <1>1, <1>2, UpToNulBegins
  <2>2. Back(g) = v
    BY <1>2 DEF Back
  <2> HIDE DEF t
  <2>3. v.is = "text" /\ v.text = t
    OBVIOUS
  <2> HIDE DEF v
  <2>4. Back(g).is = "text" /\ Back(g).text = t
    BY <2>2, <2>3
  <2>5. QED
    BY <1>2, <2>1, <2>4 DEF ComesBack
<1>3. CASE g.is # "text"
  BY <1>1, <1>3 DEF ComesBack, Back
<1>4. QED
  BY <1>2, <1>3
Endless(g) == g.is = "number" /\ g.number \in Infinite

\* What is bound of a value, kind by kind, is written and comes back as this.
LEMMA BoundValue ==
  ASSUME NEW g \in Bindable
  PROVE  \/ /\ ColumnText(Bound(g)) = <<"null">> /\ Back(g) = [is |-> "null"]
            /\ ~Endless(g)
         \/ /\ Endless(g) /\ \E t \in {"Inf", "minusInf"} : ColumnText(Bound(g)) = <<t>>
         \/ /\ ~Endless(g)
            /\ \E t \in Token \ Marks : /\ ColumnText(Bound(g)) = <<t>>
                                         /\ Back(g) = [is |-> "number", number |-> t]
         \/ /\ ~Endless(g)
            /\ \E text \in Seq(Char) : /\ ColumnText(Bound(g)) = Quote \o Inside(text) \o Quote
                                        /\ Back(g) = [is |-> "text", text |-> text]
         \/ /\ ~Endless(g)
            /\ \E text \in Seq({"a"}) : /\ ColumnText(Bound(g)) = Quote \o text \o Quote
                                         /\ Back(g) = [is |-> "text", text |-> text]
<1>1. /\ g \in Given
      /\ g.is \in {"null", "boolean", "number", "text", "date", "buffer"}
  BY ValueAssumption DEF Bindable
<1>2. CASE g.is = "null"
  <2>1. Bound(g) = [is |-> "null"] /\ Back(g) = [is |-> "null"] /\ ~Endless(g)
    BY <1>2 DEF Bound, Back, Endless
  <2>2. ColumnText([is |-> "null"]) = <<"null">>
    BY DEF ColumnText
  <2>3. QED
    BY <2>1, <2>2
<1>3. CASE g.is = "number" /\ g.number = "NaN"
  <2>1. Bound(g) = [is |-> "null"] /\ Back(g) = [is |-> "null"] /\ ~Endless(g)
    BY <1>3 DEF Bound, Back, Endless, Infinite
  <2>2. ColumnText([is |-> "null"]) = <<"null">>
    BY DEF ColumnText
  <2>3. QED
    BY <2>1, <2>2
<1>4. CASE g.is = "number" /\ g.number # "NaN"
  <2> DEFINE t == Digits(g.number)
  <2>1. /\ Bound(g) = [is |-> "float", number |-> g.number]
        /\ Back(g) = [is |-> "number", number |-> t]
    BY <1>4 DEF Bound, Back
  <2>2. ColumnText([is |-> "float", number |-> g.number]) = <<t>>
    BY DEF ColumnText
  <2>3. t \in Token
    BY <1>1, <1>4 DEF Token
  <2>4. IF g.number \in Infinite THEN t \in {"Inf", "minusInf"} ELSE t \notin Marks
    BY <1>1, <1>4, ValueAssumption
  <2> HIDE DEF t
  <2>5. QED
    BY <1>4, <2>1, <2>2, <2>3, <2>4 DEF Endless
<1>5. CASE g.is = "text"
  <2> DEFINE text == UpToNul(g.text)
  <2>1. text \in Seq(Char)
    BY <1>1, <1>5, ValueAssumption, UpToNulIsText
  <2>2. /\ Bound(g) = [is |-> "text", text |-> text] /\ Back(g) = [is |-> "text", text |-> text]
        /\ ~Endless(g)
    BY <1>5 DEF Bound, Back, Endless
  <2> HIDE DEF text
  <2>3. ColumnText([is |-> "text", text |-> text]) = Quote \o Inside(text) \o Quote
    BY DEF ColumnText, writeEscaped, Inside
  <2>4. QED
    BY <2>1, <2>2, <2>3
<1>6. ASSUME NEW n \in Integer, Bound(g) = [is |-> "integer", n |-> n],
             Back(g) = [is |-> "number", number |-> Decimal(n)], ~Endless(g)
      PROVE  \E t \in Token \ Marks : /\ ColumnText(Bound(g)) = <<t>>
                                       /\ Back(g) = [is |-> "number", number |-> t]
  <2>1. Decimal(n) \in Token \ Marks
    BY ValueAssumption DEF Token
  <2>2. ColumnText([is |-> "integer", n |-> n]) = <<Decimal(n)>>
    BY DEF ColumnText
  <2>3. QED
    BY <1>6, <2>1, <2>2
<1>7. CASE g.is = "boolean"
  <2> DEFINE n == IF g.yes THEN 1 ELSE 0
  <2>1. 0 \in Integer /\ 1 \in Integer
    BY ValueAssumption DEF Integer
  <2>2. /\ Bound(g) = [is |-> "integer", n |-> n]
        /\ Back(g) = [is |-> "number", number |-> Decimal(n)] /\ ~Endless(g)
    BY <1>7 DEF Bound, Back, Endless
  <2>3. n \in Integer
    BY <2>1
  <2> HIDE DEF n
  <2>4. QED
    BY <1>6, <2>2, <2>3
<1>8. CASE g.is = "date"
  <2> DEFINE n == g.ticks \div Tick - Epoch
  <2>1. g.ticks \in Int /\ g.ticks % Tick = 0 /\ n \in Integer
    BY <1>1, <1>8, ValueAssumption
  <2>2. UnixTime(g.ticks) = n
    BY <2>1, WholeMilliseconds
  <2>3. /\ Bound(g) = [is |-> "integer", n |-> UnixTime(g.ticks)]
        /\ Back(g) = [is |-> "number", number |-> Decimal(n)] /\ ~Endless(g)
    BY <1>8 DEF Bound, Back, Endless
  <2> HIDE DEF n
  <2>4. QED
    BY <1>6, <2>1, <2>2, <2>3
<1>9. CASE g.is = "buffer"
  <2>1. g.bytes \in Seq({"a"})
    BY <1>1, <1>9, ValueAssumption
  <2>2. /\ Bound(g) = [is |-> "blob", bytes |-> g.bytes]
        /\ Back(g) = [is |-> "text", text |-> g.bytes] /\ ~Endless(g)
    BY <1>9 DEF Bound, Back, Endless
  <2>3. ColumnText([is |-> "blob", bytes |-> g.bytes]) = Quote \o g.bytes \o Quote
    BY DEF ColumnText
  <2>4. QED
    BY <2>1, <2>2, <2>3
<1>10. QED
  BY <1>1, <1>2, <1>3, <1>4, <1>5, <1>7, <1>8, <1>9

\* Once refused, a text stays refused.
LEMMA ParseError ==
  ASSUME NEW p, Refused(p), NEW t
  PROVE  Refused(Parse(p, t))
<1>1. ASSUME NEW rows, NEW m, NEW name, NEW text, NEW key
      PROVE  Parse(State("error", rows, m, name, text, key), t)
               = State("error", rows, m, name, text, key)
  BY DEF Parse, State
<1>2. QED
  BY <1>1 DEF Refused, At

\* The same for any number of tokens.
LEMMA ReadError ==
  ASSUME NEW p, Refused(p), NEW text \in Seq(Token)
  PROVE  Refused(Read(p, text))
<1> DEFINE L == Len(text)
<1>1. PICK f : /\ f[0] = p
               /\ \A k \in 1..Len(text) : f[k] = Parse(f[k - 1], text[k])
               /\ Read(p, text) = f[Len(text)]
  BY ReadFacts
<1>2. L \in Nat
  OBVIOUS
<1> DEFINE N == {n \in Nat : Refused(f[n])}
<1> HIDE DEF L
<1>3. 0 \in N
  BY <1>1
<1>4. ASSUME NEW k \in 0..L - 1, k \in N PROVE k + 1 \in N
  <2>1. k \in Nat /\ k + 1 \in Nat /\ k + 1 \in 1..L /\ (k + 1) - 1 = k
    BY <1>2
  <2>2. f[k + 1] = Parse(f[k], text[k + 1])
    BY <1>1, <2>1 DEF L
  <2>3. Refused(f[k + 1])
    BY <1>4, <2>2, ParseError
  <2>4. QED
    BY <2>1, <2>3
<1> HIDE DEF N
<1>5. 0..L \subseteq N
  BY <1>2, <1>3, <1>4, Induction
<1>6. QED
  BY <1>1, <1>2, <1>5 DEF N, L

\* A value as JSON: infinite it is refused, otherwise it is a member.
LEMMA ReadValue ==
  ASSUME NEW g \in Bindable, NEW rows, NEW m, NEW name, NEW old, NEW key
  PROVE  /\ ColumnText(Bound(g)) \in Seq(Token)
         /\ Endless(g) =>
              Refused(Read(State("value", rows, m, name, old, key), ColumnText(Bound(g))))
         /\ ~Endless(g) =>
              At(Read(State("value", rows, m, name, old, key), ColumnText(Bound(g))),
                 "after", rows, With(m, name, Back(g)))
<1> DEFINE p == State("value", rows, m, name, old, key)
           text == ColumnText(Bound(g))
           Goal == /\ text \in Seq(Token)
                   /\ Endless(g) => Refused(Read(p, text))
                   /\ ~Endless(g) => At(Read(p, text), "after", rows, With(m, name, Back(g)))
<1>0. {"null", "Inf", "minusInf"} \subseteq Token
  BY DEF Token, Marks
<1>1. ASSUME NEW t \in Token PROVE <<t>> \in Seq(Token) /\ Read(p, <<t>>) = Parse(p, t)
  BY OneSeq, ReadOne
<1>2. Parse(p, "null") = State("after", rows, With(m, name, [is |-> "null"]), name, old, key)
  BY ParseNull
<1>3. ASSUME NEW t \in Token \ Marks
      PROVE  Parse(p, t) = State("after", rows, With(m, name, [is |-> "number", number |-> t]),
                                 name, old, key)
  BY ParseValue
<1>4. ASSUME NEW t \in {"Inf", "minusInf"} PROVE Refused(Parse(p, t))
  BY ParseValue
<1>5. ASSUME NEW body \in Seq(Token), NEW v,
             Read(State("string", rows, m, name, << >>, No), body)
               = State("string", rows, m, name, v, No)
      PROVE  /\ Quote \o body \o Quote \in Seq(Token)
             /\ At(Read(p, Quote \o body \o Quote), "after", rows,
                   With(m, name, [is |-> "text", text |-> v]))
  BY <1>5, ReadQuoted
<1>6. ASSUME NEW v \in Seq(Char)
      PROVE  /\ Inside(v) \in Seq(Token)
             /\ Read(State("string", rows, m, name, << >>, No), Inside(v))
                  = State("string", rows, m, name, v, No)
  BY ReadAllEscaped
<1>7. ASSUME NEW v \in Seq({"a"})
      PROVE  /\ v \in Seq(Token)
             /\ Read(State("string", rows, m, name, << >>, No), v)
                  = State("string", rows, m, name, v, No)
  BY ReadPlain
<1>8. \/ /\ text = <<"null">> /\ Back(g) = [is |-> "null"] /\ ~Endless(g)
      \/ Endless(g) /\ \E t \in {"Inf", "minusInf"} : text = <<t>>
      \/ /\ ~Endless(g)
         /\ \E t \in Token \ Marks : text = <<t>> /\ Back(g) = [is |-> "number", number |-> t]
      \/ /\ ~Endless(g)
         /\ \E v \in Seq(Char) : /\ text = Quote \o Inside(v) \o Quote
                                  /\ Back(g) = [is |-> "text", text |-> v]
      \/ /\ ~Endless(g)
         /\ \E v \in Seq({"a"}) : /\ text = Quote \o v \o Quote
                                   /\ Back(g) = [is |-> "text", text |-> v]
  BY BoundValue
<1> SUFFICES Goal
  BY DEF p, text
<1> HIDE DEF p, text
<1>9. CASE text = <<"null">> /\ Back(g) = [is |-> "null"] /\ ~Endless(g)
  <2>1. text \in Seq(Token) /\ Read(p, text) = Parse(p, "null")
    BY <1>0, <1>1, <1>9
  <2>2. QED
    BY <1>2, <1>9, <2>1 DEF At
<1>10. CASE Endless(g) /\ \E t \in {"Inf", "minusInf"} : text = <<t>>
  <2>1. PICK t \in {"Inf", "minusInf"} : text = <<t>>
    BY <1>10
  <2>2. text \in Seq(Token) /\ Read(p, text) = Parse(p, t)
    BY <1>0, <1>1, <2>1
  <2>3. QED
    BY <1>4, <1>10, <2>2
<1>11. ASSUME ~Endless(g), NEW t \in Token \ Marks, text = <<t>>,
              Back(g) = [is |-> "number", number |-> t]
       PROVE  Goal
  <2>1. text \in Seq(Token) /\ Read(p, text) = Parse(p, t)
    BY <1>1, <1>11
  <2>2. QED
    BY <1>3, <1>11, <2>1 DEF At
<1>12. ASSUME ~Endless(g), NEW body \in Seq(Token), NEW v, text = Quote \o body \o Quote,
              Back(g) = [is |-> "text", text |-> v],
              Read(State("string", rows, m, name, << >>, No), body)
                = State("string", rows, m, name, v, No)
       PROVE  Goal
  BY <1>5, <1>12
<1>13. QED
  BY <1>6, <1>7, <1>8, <1>9, <1>10, <1>11, <1>12

\* A column without the comma after it.
Cell(name, v) == Quote \o name \o Quote \o <<"colon">> \o ColumnText(v)

\* It is read as a member, unless its value is infinite.
LEMMA ReadCell ==
  ASSUME NEW p, NEW rows, NEW m, At(p, "pair", rows, m), NEW name \in Seq({"a"}),
         NEW g \in Bindable
  PROVE  /\ Cell(name, Bound(g)) \in Seq(Token)
         /\ Endless(g) => Refused(Read(p, Cell(name, Bound(g))))
         /\ ~Endless(g) => At(Read(p, Cell(name, Bound(g))), "after", rows, With(m, name, Back(g)))
<1> DEFINE before == Quote \o name \o Quote \o <<"colon">>
           text == ColumnText(Bound(g))
<1>1. before \in Seq(Token)
  BY ReadName
<1>2. PICK old, key : Read(p, before) = State("value", rows, m, name, old, key)
  BY ReadName
<1> DEFINE q == State("value", rows, m, name, old, key)
<1>3. /\ text \in Seq(Token)
      /\ Endless(g) => Refused(Read(q, text))
      /\ ~Endless(g) => At(Read(q, text), "after", rows, With(m, name, Back(g)))
  BY ReadValue
<1>4. Cell(name, Bound(g)) = before \o text
  BY DEF Cell
<1> HIDE DEF before, text, q
<1>5. Read(p, before \o text) = Read(Read(p, before), text) /\ before \o text \in Seq(Token)
  BY <1>1, <1>3, ReadConcat, ConcatProperties
<1>6. Read(p, before) = q
  BY <1>2 DEF q
<1>7. QED
  BY <1>3, <1>4, <1>5, <1>6

\* A column, after which another is expected.
LEMMA ReadColumn ==
  ASSUME NEW p, NEW rows, NEW m, At(p, "pair", rows, m), NEW name \in Seq({"a"}),
         NEW g \in Bindable
  PROVE  /\ Column(name, Bound(g)) \in Seq(Token)
         /\ Endless(g) => Refused(Read(p, Column(name, Bound(g))))
         /\ ~Endless(g) => At(Read(p, Column(name, Bound(g))), "pair", rows, With(m, name, Back(g)))
<1> DEFINE cell == Cell(name, Bound(g))
           after == With(m, name, Back(g))
           comma == <<"comma">>
<1>1. /\ cell \in Seq(Token)
      /\ Endless(g) => Refused(Read(p, cell))
      /\ ~Endless(g) => At(Read(p, cell), "after", rows, after)
  BY ReadCell
<1>2. "comma" \in Token
  BY DEF Token, Marks
<1>3. comma \in Seq(Token) /\ \A q : Read(q, comma) = Parse(q, "comma")
  BY <1>2, OneSeq, ReadOne
<1>4. Column(name, Bound(g)) = cell \o comma
  BY DEF Column, Cell
<1> HIDE DEF cell, comma, after
<1>5. cell \o comma \in Seq(Token) /\ Read(p, cell \o comma) = Parse(Read(p, cell), "comma")
  BY <1>1, <1>3, ReadConcat, ConcatProperties
<1>6. Endless(g) => Refused(Parse(Read(p, cell), "comma"))
  BY <1>1, ParseError
<1>7. ~Endless(g) => At(Parse(Read(p, cell), "comma"), "pair", rows, after)
  BY <1>1, ParseAt
<1>8. QED
  BY <1>4, <1>5, <1>6, <1>7 DEF after

-----------------------------------------------------------------------------
\* The last comma gives way to what closes the text.
LEMMA OverLastComma ==
  ASSUME NEW S, NEW text \in Seq(S), NEW c \in S, NEW d \in S
  PROVE  OverLast(text \o <<c>>, d) = text \o <<d>>
<1> DEFINE u == text \o <<c>>
<1>1. u = Append(text, c) /\ text \o <<d>> = Append(text, d)
  BY AppendIsConcat
<1>2. u \in Seq(S) /\ Len(u) = Len(text) + 1 /\ \A i \in 1..Len(text) : u[i] = text[i]
  BY <1>1, AppendProperties
<1> HIDE DEF u
<1>3. Front(u) = SubSeq(u, 1, Len(text))
  BY <1>2 DEF Front
<1>4. /\ SubSeq(u, 1, Len(text)) \in Seq(S)
      /\ Len(SubSeq(u, 1, Len(text))) = Len(text)
      /\ \A i \in 1..Len(text) : SubSeq(u, 1, Len(text))[i] = u[i]
  BY <1>2, LenProperties, ElementOfSeq, SubSeqProperties
<1>5. SubSeq(u, 1, Len(text)) = text
  BY <1>2, <1>4, SeqEqual
<1>6. QED
  BY <1>1, <1>3, <1>5 DEF OverLast, u

\* The members that stand for the first columns of a row: for every name among
\* them the value of the last column that has it.
Holds(m, gs, i) ==
  /\ m = [name \in {names[j] : j \in 1..i} |-> m[name]]
  /\ \A name \in {names[j] : j \in 1..i} :
       \E j \in 1..i : /\ names[j] = name /\ m[name] = Back(gs[j])
                       /\ \A k \in j + 1..i : names[k] # name

\* No member stands for no column.
LEMMA HoldsNone == \A gs : Holds(<< >>, gs, 0)
<1>1. 1..0 = {}
  OBVIOUS
<1>2. {names[j] : j \in {}} = {}
  OBVIOUS
<1>3. << >> = [name \in {} |-> << >>[name]]
  OBVIOUS
<1>4. QED
  BY <1>1, <1>2, <1>3 DEF Holds

\* The next column puts its value in place of an earlier one of its name.
LEMMA HoldsMore ==
  ASSUME NEW i \in Nat, NEW m, NEW gs, Holds(m, gs, i)
  PROVE  Holds(With(m, names[i + 1], Back(gs[i + 1])), gs, i + 1)
<1> DEFINE n == names[i + 1]
           v == Back(gs[i + 1])
           D == {names[j] : j \in 1..i}
           E == {names[j] : j \in 1..i + 1}
           w == With(m, n, v)
<1>1. DOMAIN m = D
  BY DEF Holds
<1>2. E = D \cup {n}
  <2>1. 1..i + 1 = (1..i) \cup {i + 1}
    OBVIOUS
  <2>2. QED
    BY <2>1
<1>3. w = [name \in D \cup {n} |-> IF name = n THEN v ELSE m[name]]
  BY <1>1 DEF With
<1>4. w = [name \in E |-> w[name]]
  <2> HIDE DEF E, D, n, v
  <2>1. QED
    BY <1>2, <1>3
<1>5. ASSUME NEW name \in E
      PROVE  \E j \in 1..i + 1 : /\ names[j] = name /\ w[name] = Back(gs[j])
                                  /\ \A k \in j + 1..i + 1 : names[k] # name
  <2>1. CASE name = n
    <3>1. i + 1 \in 1..i + 1 /\ (i + 1) + 1..i + 1 = {}
      OBVIOUS
    <3>2. w[name] = v
      <4> HIDE DEF w, n, v, D
      <4>1. QED
        BY <1>3, <2>1
    <3>3. QED
      BY <2>1, <3>1, <3>2
  <2>2. CASE name # n
    <3>1. name \in D
      BY <1>2, <2>2
    <3>2. w[name] = m[name]
      <4> HIDE DEF w, n, v, D
      <4>1. QED
        BY <1>3, <2>2, <3>1
    <3>3. PICK j \in 1..i : /\ names[j] = name /\ m[name] = Back(gs[j])
                            /\ \A k \in j + 1..i : names[k] # name
      BY <3>1 DEF Holds
    <3>4. \A k \in j + 1..i + 1 : k \in j + 1..i \/ k = i + 1
      OBVIOUS
    <3>5. j \in 1..i + 1 /\ \A k \in j + 1..i + 1 : names[k] # name
      BY <2>2, <3>3, <3>4
    <3>6. QED
      BY <3>2, <3>3, <3>5
  <2>3. QED
    BY <2>1, <2>2
<1> HIDE DEF w
<1>6. QED
  BY <1>4, <1>5 DEF Holds, w

\* Of all columns, they are what the client expects.
LEMMA HoldsExpected ==
  ASSUME NEW n, NEW m, names \in Names, Holds(m, given[n], Columns)
  PROVE  m = Expected(n)
<1> DEFINE last(name) == CHOOSE i \in 1..Columns :
             names[i] = name /\ \A j \in i + 1..Columns : names[j] # name
           D == {names[j] : j \in 1..Columns}
<1>1. Columns \in Nat
  BY ValueAssumption, LenProperties DEF Columns
<1>2. ASSUME NEW name \in D PROVE m[name] = Back(given[n][last(name)])
  <2>1. PICK j \in 1..Columns : /\ names[j] = name /\ m[name] = Back(given[n][j])
                                /\ \A k \in j + 1..Columns : names[k] # name
    BY DEF Holds
  <2>2. ASSUME NEW i \in 1..Columns, names[i] = name, \A k \in i + 1..Columns : names[k] # name
        PROVE  i = j
    <3>1. ~(i < j) /\ ~(j < i)
      BY <1>1, <2>1, <2>2
    <3>2. QED
      BY <1>1, <3>1
  <2>3. last(name) = j
    BY <2>1, <2>2
  <2>4. QED
    BY <2>1, <2>3
<1>3. m = [name \in D |-> m[name]]
  BY DEF Holds
<1> HIDE DEF D, last
<1>4. m = [name \in D |-> Back(given[n][last(name)])]
  BY <1>2, <1>3
<1>5. QED
  BY <1>4 DEF Expected, D, last

-----------------------------------------------------------------------------
\* After some columns of a row: refused at an infinite number, or waiting at this
\* place with the members of these columns.
Members(p, at, rows, gs, i) ==
  IF \E j \in 1..i : Endless(gs[j])
    THEN Refused(p)
    ELSE \E m : At(p, at, rows, m) /\ Holds(m, gs, i)

\* After a text that stands for one more value.
LEMMA OneMoreMember ==
  ASSUME NEW i \in Nat, NEW p, NEW rows, NEW gs, Members(p, "pair", rows, gs, i),
         NEW text \in Seq(Token), NEW at,
         Endless(gs[i + 1]) /\ ~Refused(p) => Refused(Read(p, text)),
         \A m : At(p, "pair", rows, m) /\ ~Endless(gs[i + 1]) =>
                  At(Read(p, text), at, rows, With(m, names[i + 1], Back(gs[i + 1])))
  PROVE  Members(Read(p, text), at, rows, gs, i + 1)
<1>1. \A j \in 1..i + 1 : j \in 1..i \/ j = i + 1
  OBVIOUS
<1>2. i + 1 \in 1..i + 1 /\ \A j \in 1..i : j \in 1..i + 1
  OBVIOUS
<1>3. Refused(p) => Refused(Read(p, text))
  BY ReadError
<1>4. CASE \E j \in 1..i : Endless(gs[j])
  <2>1. Refused(p)
    BY <1>4 DEF Members
  <2>2. \E j \in 1..i + 1 : Endless(gs[j])
    BY <1>2, <1>4
  <2>3. QED
    BY <1>3, <2>1, <2>2 DEF Members
<1>5. CASE ~\E j \in 1..i : Endless(gs[j])
  <2>1. PICK m : At(p, "pair", rows, m) /\ Holds(m, gs, i)
    BY <1>5 DEF Members
  <2>2. CASE Endless(gs[i + 1])
    <3>1. \E j \in 1..i + 1 : Endless(gs[j])
      BY <1>2, <2>2
    <3>2. Refused(Read(p, text))
      BY <1>3, <2>2
    <3>3. QED
      BY <3>1, <3>2 DEF Members
  <2>3. CASE ~Endless(gs[i + 1])
    <3>1. ~\E j \in 1..i + 1 : Endless(gs[j])
      BY <1>1, <1>5, <2>3
    <3>2. Holds(With(m, names[i + 1], Back(gs[i + 1])), gs, i + 1)
      BY <2>1, HoldsMore
    <3>3. At(Read(p, text), at, rows, With(m, names[i + 1], Back(gs[i + 1])))
      BY <2>1, <2>3
    <3>4. QED
      BY <3>1, <3>2, <3>3 DEF Members
  <2>4. QED
    BY <2>2, <2>3
<1>6. QED
  BY <1>4, <1>5

\* The names of the columns when no character in them needs an escape.
LEMMA CleanNames ==
  ASSUME names \in Names, Clean
  PROVE  Columns \in Nat \ {0} /\ \A i \in 1..Columns : names[i] \in Seq({"a"})
<1>1. names \in Seq(Seq(Char)) /\ names # << >>
  BY ValueAssumption
<1>2. Columns \in Nat \ {0}
  BY <1>1, LenProperties, EmptySeq DEF Columns
<1>3. ASSUME NEW i \in 1..Columns PROVE names[i] \in Seq({"a"})
  <2> DEFINE name == names[i]
  <2>1. name \in Seq(Char)
    BY <1>1, <1>3, ElementOfSeq DEF Columns
  <2>2. \A n \in 1..Len(name) : name[n] = "a"
    BY <1>3 DEF Clean
  <2> HIDE DEF name
  <2>3. name \in Seq({"a"})
    BY <2>1, <2>2
  <2>4. QED
    BY <2>3 DEF name
<1>4. QED
  BY <1>2, <1>3

\* What SQLite stores of the values bound for a row.
Stored(gs) == [i \in DOMAIN gs |-> Bound(gs[i])]

\* The columns of a row up to the last one.
LEMMA ReadColumns ==
  ASSUME names \in Names, Clean, NEW gs \in Seq(Bindable), Len(gs) = Columns,
         NEW p, NEW rows, At(p, "pair", rows, << >>)
  PROVE  \E f \in [0..Columns -> Seq(Token)] :
           /\ FlattenSeq([i \in DOMAIN Stored(gs) |-> Column(names[i], Stored(gs)[i])])
                = f[Columns]
           /\ \A i \in 1..Columns : f[i] = f[i - 1] \o Column(names[i], Bound(gs[i]))
           /\ \A i \in 0..Columns : Members(Read(p, f[i]), "pair", rows, gs, i)
<1> DEFINE C == Columns
           ss == [i \in DOMAIN Stored(gs) |-> Column(names[i], Stored(gs)[i])]
<1>1. C \in Nat /\ \A i \in 1..C : names[i] \in Seq({"a"}) /\ gs[i] \in Bindable
  BY CleanNames, ElementOfSeq
<1>2. /\ DOMAIN Stored(gs) = 1..C
      /\ \A i \in 1..C : Stored(gs)[i] = Bound(gs[i])
  BY LenProperties DEF Stored
<1>3. ASSUME NEW i \in 1..C
      PROVE  /\ Column(names[i], Bound(gs[i])) \in Seq(Token)
             /\ \A q, m : At(q, "pair", rows, m) =>
                  /\ Endless(gs[i]) => Refused(Read(q, Column(names[i], Bound(gs[i]))))
                  /\ ~Endless(gs[i]) => At(Read(q, Column(names[i], Bound(gs[i]))), "pair", rows,
                                           With(m, names[i], Back(gs[i])))
  <2>1. names[i] \in Seq({"a"}) /\ gs[i] \in Bindable
    BY <1>1
  <2>2. Column(names[i], Bound(gs[i])) \in Seq(Token)
    BY <2>1, ReadColumn
  <2>3. QED
    BY <2>1, <2>2, ReadColumn
<1>4. ss = [i \in 1..C |-> Column(names[i], Bound(gs[i]))]
  BY <1>2
<1> HIDE DEF C, ss
<1>5. ss \in Seq(Seq(Token)) /\ Len(ss) = C
  BY <1>1, <1>3, <1>4
<1>6. \A i \in 1..C : ss[i] = Column(names[i], Bound(gs[i]))
  BY <1>4
<1>7. PICK f \in [0..C -> Seq(Token)] :
        /\ f[0] = << >>
        /\ \A i \in 1..C : f[i] = f[i - 1] \o ss[i]
        /\ FlattenSeq(ss) = f[C]
  BY <1>5, FlattenFacts
<1>8. \A i \in 1..C : f[i] = f[i - 1] \o Column(names[i], Bound(gs[i]))
  BY <1>6, <1>7
<1> DEFINE N == {n \in Nat : Members(Read(p, f[n]), "pair", rows, gs, n)}
<1>9. 0 \in N
  <2>1. Read(p, f[0]) = p
    BY <1>7, ReadEmpty
  <2>2. 1..0 = {}
    OBVIOUS
  <2>3. Members(p, "pair", rows, gs, 0)
    BY <2>2, HoldsNone DEF Members
  <2>4. QED
    BY <2>1, <2>3
<1>10. ASSUME NEW k \in 0..C - 1, k \in N PROVE k + 1 \in N
  <2> DEFINE q == Read(p, f[k])
             text == Column(names[k + 1], Bound(gs[k + 1]))
  <2>1. k \in Nat /\ k \in 0..C /\ k + 1 \in Nat /\ k + 1 \in 1..C /\ (k + 1) - 1 = k
    BY <1>1
  <2>2. f[k + 1] = f[k] \o text
    BY <1>8, <2>1
  <2>3. /\ text \in Seq(Token)
        /\ \A m : At(q, "pair", rows, m) =>
             /\ Endless(gs[k + 1]) => Refused(Read(q, text))
             /\ ~Endless(gs[k + 1]) => At(Read(q, text), "pair", rows,
                                          With(m, names[k + 1], Back(gs[k + 1])))
    BY <1>3, <2>1
  <2>4. Members(q, "pair", rows, gs, k)
    BY <1>10
  <2>5. f[k] \in Seq(Token)
    BY <1>7, <2>1
  <2> HIDE DEF q, text, N
  <2>6. Endless(gs[k + 1]) /\ ~Refused(q) => Refused(Read(q, text))
    BY <2>3, <2>4 DEF Members
  <2>7. Members(Read(q, text), "pair", rows, gs, k + 1)
    BY <2>1, <2>3, <2>4, <2>6, OneMoreMember
  <2>8. Read(p, f[k + 1]) = Read(q, text)
    BY <2>2, <2>3, <2>5, ReadConcat DEF q
  <2>9. Members(Read(p, f[k + 1]), "pair", rows, gs, k + 1)
    BY <2>7, <2>8
  <2>10. QED
    BY <2>1, <2>9 DEF N
<1> HIDE DEF N
<1>11. 0..C \subseteq N
  BY <1>1, <1>9, <1>10, Induction
<1>12. \A i \in 0..C : Members(Read(p, f[i]), "pair", rows, gs, i)
  BY <1>11 DEF N
<1>13. QED
  BY <1>7, <1>8, <1>12 DEF C, ss

\* A text that ends with its last comma, and what GetRow and All make of it.
LEMMA ClosedText ==
  ASSUME NEW flat \in Seq(Token), NEW cell \in Seq(Token), NEW b \in Token, NEW e \in Token
  PROVE  OverLast(<<b>> \o (flat \o (cell \o <<"comma">>)), e)
           = <<b>> \o (flat \o cell) \o <<e>>
<1> DEFINE begin == <<b>>
           comma == <<"comma">>
           end == <<e>>
<1>0. \A x, y, z \in Seq(Token) : (x \o y) \o z = x \o (y \o z) /\ x \o y \in Seq(Token)
  <2> SUFFICES ASSUME NEW x \in Seq(Token), NEW y \in Seq(Token), NEW z \in Seq(Token)
               PROVE  (x \o y) \o z = x \o (y \o z) /\ x \o y \in Seq(Token)
    OBVIOUS
  <2>1. (x \o y) \o z = x \o (y \o z)
    BY ConcatAssociative
  <2>2. x \o y \in Seq(Token)
    BY ConcatProperties
  <2>3. QED
    BY <2>1, <2>2
<1>1. "comma" \in Token
  BY DEF Token, Marks
<1>2. begin \in Seq(Token) /\ comma \in Seq(Token)
  BY <1>1, OneSeq
<1>3. ASSUME NEW text \in Seq(Token) PROVE OverLast(text \o comma, e) = text \o end
  BY <1>1, OverLastComma
<1> HIDE DEF begin, comma, end
<1> DEFINE both == flat \o cell
           all == begin \o both
<1>4. flat \o (cell \o comma) = both \o comma /\ both \in Seq(Token)
  BY <1>0, <1>2
<1> HIDE DEF both
<1>5. begin \o (both \o comma) = all \o comma /\ all \in Seq(Token)
  <2>1. begin \in Seq(Token)
    BY <1>2
  <2>2. both \in Seq(Token)
    BY <1>4
  <2>3. comma \in Seq(Token)
    BY <1>2
  <2>4. (begin \o both) \o comma = begin \o (both \o comma)
    BY <1>0, <2>1, <2>2, <2>3
  <2>5. begin \o both \in Seq(Token)
    BY <1>0, <2>1, <2>2
  <2>6. QED
    BY <2>4, <2>5
<1> HIDE DEF all
<1>6. OverLast(all \o comma, e) = all \o end
  BY <1>3, <1>5
<1>7. QED
  BY <1>4, <1>5, <1>6 DEF begin, comma, end, both, all

\* A row that GetRow has written.
LEMMA ReadRow ==
  ASSUME names \in Names, Clean, NEW gs \in Seq(Bindable), Len(gs) = Columns,
         NEW p, NEW rows, NEW old, At(p, "first", rows, old) \/ At(p, "row", rows, old)
  PROVE  /\ GetRow(Stored(gs)) \in Seq(Token)
         /\ IF \E j \in 1..Columns : Endless(gs[j])
              THEN Refused(Read(p, GetRow(Stored(gs))))
              ELSE \E m : /\ At(Read(p, GetRow(Stored(gs))), "next", Append(rows, m), m)
                          /\ Holds(m, gs, Columns)
<1> DEFINE C == Columns
           begin == <<"beginObject">>
           end == <<"endObject">>
           q == Read(p, begin)
           cell == Cell(names[C], Bound(gs[C]))
           text == GetRow(Stored(gs))
<1>1. C \in Nat \ {0} /\ \A i \in 1..C : names[i] \in Seq({"a"}) /\ gs[i] \in Bindable
  BY CleanNames, ElementOfSeq
<1>2. names[C] \in Seq({"a"}) /\ gs[C] \in Bindable
  BY <1>1
<1>3. "beginObject" \in Token /\ "endObject" \in Token
  BY DEF Token, Marks
<1>4. /\ begin \in Seq(Token) /\ end \in Seq(Token)
      /\ q = Parse(p, "beginObject") /\ \A r : Read(r, end) = Parse(r, "endObject")
  BY <1>3, OneSeq, ReadOne
<1>5. At(q, "pair", rows, << >>)
  BY <1>4, ParseAt
<1>6. PICK f \in [0..C -> Seq(Token)] :
        /\ FlattenSeq([i \in DOMAIN Stored(gs) |-> Column(names[i], Stored(gs)[i])]) = f[C]
        /\ \A i \in 1..C : f[i] = f[i - 1] \o Column(names[i], Bound(gs[i]))
        /\ \A i \in 0..C : Members(Read(q, f[i]), "pair", rows, gs, i)
  <2> HIDE DEF q
  <2>1. QED
    BY <1>5, ReadColumns
<1>7. text = OverLast(begin \o f[C], "endObject")
  BY <1>6 DEF GetRow
<1>8. Column(names[C], Bound(gs[C])) = cell \o <<"comma">>
  BY DEF Column, Cell
<1> DEFINE flat == f[C - 1]
           r == Read(q, flat)
<1>9. C \in 1..C /\ C - 1 \in 0..C /\ C - 1 \in Nat /\ (C - 1) + 1 = C
  BY <1>1
<1>10. f[C] = flat \o (cell \o <<"comma">>) /\ flat \in Seq(Token)
  BY <1>6, <1>8, <1>9
<1>11. Members(r, "pair", rows, gs, C - 1)
  BY <1>6, <1>9
<1>12. /\ cell \in Seq(Token)
       /\ \A m : At(r, "pair", rows, m) =>
            /\ Endless(gs[C]) => Refused(Read(r, cell))
            /\ ~Endless(gs[C]) => At(Read(r, cell), "after", rows,
                                     With(m, names[C], Back(gs[C])))
  <2>1. PICK s, m : At(s, "pair", rows, m)
    BY <1>5
  <2>2. cell \in Seq(Token)
    BY <1>2, <2>1, ReadCell
  <2>3. QED
    BY <1>2, <2>2, ReadCell
<1> HIDE DEF C, begin, end, q, cell, text, flat, r
<1>13. text = begin \o (flat \o cell) \o end
  <2>1. OverLast(begin \o (flat \o (cell \o <<"comma">>)), "endObject")
          = begin \o (flat \o cell) \o end
    BY <1>3, <1>10, <1>12, ClosedText DEF begin, end
  <2>2. QED
    BY <1>7, <1>10, <2>1
<1>14. Members(Read(r, cell), "after", rows, gs, C)
  <2> DEFINE k == C - 1
  <2>1. k \in Nat /\ k + 1 = C /\ Members(r, "pair", rows, gs, k)
    BY <1>9, <1>11
  <2>2. Endless(gs[k + 1]) /\ ~Refused(r) => Refused(Read(r, cell))
    BY <1>12, <2>1 DEF Members
  <2>3. \A m : At(r, "pair", rows, m) /\ ~Endless(gs[k + 1]) =>
               At(Read(r, cell), "after", rows, With(m, names[k + 1], Back(gs[k + 1])))
    BY <1>12, <2>1
  <2> HIDE DEF k
  <2>4. Members(Read(r, cell), "after", rows, gs, k + 1)
    BY <1>12, <2>1, <2>2, <2>3, OneMoreMember
  <2>5. QED
    BY <2>1, <2>4
<1>15. text \in Seq(Token) /\ Read(p, text) = Parse(Read(r, cell), "endObject")
  <2>1. flat \o cell \in Seq(Token) /\ Read(q, flat \o cell) = Read(r, cell)
    BY <1>10, <1>12, ReadConcat, ConcatProperties DEF r
  <2> DEFINE both == flat \o cell
  <2>2. text = begin \o both \o end /\ both \in Seq(Token)
    BY <1>13, <2>1
  <2> HIDE DEF both
  <2>3. /\ begin \o both \o end \in Seq(Token)
        /\ Read(p, begin \o both \o end) = Read(Read(Read(p, begin), both), end)
    BY <1>4, <2>2, ReadBetween
  <2>4. QED
    BY <1>4, <2>1, <2>2, <2>3 DEF q, both
<1>16. CASE \E j \in 1..C : Endless(gs[j])
  <2>1. Refused(Read(r, cell))
    BY <1>14, <1>16 DEF Members
  <2>2. Refused(Read(p, text))
    BY <1>15, <2>1, ParseError
  <2>3. QED
    BY <1>15, <1>16, <2>2 DEF C, text
<1>17. CASE ~\E j \in 1..C : Endless(gs[j])
  <2>1. PICK m : At(Read(r, cell), "after", rows, m) /\ Holds(m, gs, C)
    BY <1>14, <1>17 DEF Members
  <2>2. At(Read(p, text), "next", Append(rows, m), m)
    BY <1>15, <2>1, ParseAt
  <2>3. QED
    BY <1>15, <1>17, <2>1, <2>2 DEF C, text
<1>18. QED
  BY <1>16, <1>17

-----------------------------------------------------------------------------
\* After some rows: refused at an infinite number, or waiting at this place with
\* the rows the client expects.
EndlessRow(n) == \E j \in 1..Columns : Endless(given[n][j])

RowsRead(p, at, k) ==
  IF \E n \in 1..k : EndlessRow(n)
    THEN Refused(p)
    ELSE \E m : At(p, at, [n \in 1..k |-> Expected(n)], m)

\* One row more is expected.
LEMMA OneMoreExpected ==
  ASSUME NEW k \in Nat
  PROVE  Append([n \in 1..k |-> Expected(n)], Expected(k + 1)) = [n \in 1..k + 1 |-> Expected(n)]
<1> DEFINE S == {Expected(n) : n \in 1..k + 1}
           s == [n \in 1..k |-> Expected(n)]
           e == Expected(k + 1)
           t == [n \in 1..k + 1 |-> Expected(n)]
<1>1. k + 1 \in 1..k + 1 /\ \A n \in 1..k : n \in 1..k + 1
  OBVIOUS
<1>2. s \in [1..k -> S] /\ e \in S /\ t \in [1..k + 1 -> S]
  BY <1>1
<1>3. \A n \in 1..k + 1 : t[n] = IF n \in 1..k THEN s[n] ELSE e
  BY <1>1
<1> HIDE DEF S, s, e, t
<1>4. s \in Seq(S) /\ Len(s) = k /\ t \in Seq(S) /\ Len(t) = k + 1
  BY <1>2, IsASeq
<1>5. /\ Append(s, e) \in Seq(S) /\ Len(Append(s, e)) = k + 1
      /\ \A n \in 1..k : Append(s, e)[n] = s[n]
      /\ Append(s, e)[k + 1] = e
  BY <1>2, <1>4, AppendProperties
<1>6. \A n \in 1..k + 1 : Append(s, e)[n] = t[n]
  BY <1>1, <1>3, <1>5
<1>7. Append(s, e) = t
  BY <1>4, <1>5, <1>6, SeqEqual
<1>8. QED
  BY <1>7 DEF s, e, t

\* The rows the client has bound.
RowsBound(L) ==
  /\ names \in Names
  /\ L \in Nat
  /\ \A n \in 1..L : given[n] \in Seq(Bindable) /\ Len(given[n]) = Columns

\* A row is read as the next one.
LEMMA OneMoreRow ==
  ASSUME NEW L, RowsBound(L), Clean, NEW k \in 0..L - 1, NEW p, NEW at \in {"first", "row"},
         RowsRead(p, at, k)
  PROVE  /\ GetRow(Stored(given[k + 1])) \in Seq(Token)
         /\ RowsRead(Read(p, GetRow(Stored(given[k + 1]))), "next", k + 1)
<1> DEFINE gs == given[k + 1]
           text == GetRow(Stored(gs))
           q == Read(p, text)
           rows == [n \in 1..k |-> Expected(n)]
<1>1. k \in Nat /\ k + 1 \in 1..L /\ names \in Names
  BY DEF RowsBound
<1>2. gs \in Seq(Bindable) /\ Len(gs) = Columns
  BY <1>1 DEF RowsBound
<1>3. \A n \in 1..k + 1 : n \in 1..k \/ n = k + 1
  BY <1>1
<1>4. k + 1 \in 1..k + 1 /\ \A n \in 1..k : n \in 1..k + 1
  BY <1>1
<1>5. EndlessRow(k + 1) <=> \E j \in 1..Columns : Endless(gs[j])
  BY DEF EndlessRow
<1>6. text \in Seq(Token)
  <2> DEFINE s == State("row", << >>, << >>, << >>, << >>, No)
  <2>1. At(s, "row", << >>, << >>)
    BY DEF At
  <2> HIDE DEF s, gs
  <2>2. QED
    BY <1>1, <1>2, <2>1, ReadRow
<1>7. ASSUME NEW m, At(p, at, rows, m)
      PROVE  IF EndlessRow(k + 1) THEN Refused(q)
             ELSE \E w : At(q, "next", Append(rows, w), w) /\ Holds(w, gs, Columns)
  <2> HIDE DEF gs, rows
  <2>1. At(p, "first", rows, m) \/ At(p, "row", rows, m)
    BY <1>7
  <2>2. IF \E j \in 1..Columns : Endless(gs[j]) THEN Refused(q)
        ELSE \E w : At(q, "next", Append(rows, w), w) /\ Holds(w, gs, Columns)
    BY <1>1, <1>2, <2>1, ReadRow
  <2>3. QED
    BY <1>5, <2>2
<1>8. \A w : Holds(w, gs, Columns) => w = Expected(k + 1)
  BY <1>1, HoldsExpected
<1>9. Append(rows, Expected(k + 1)) = [n \in 1..k + 1 |-> Expected(n)]
  BY <1>1, OneMoreExpected
<1>10. RowsRead(p, at, k) = IF \E n \in 1..k : EndlessRow(n) THEN Refused(p)
                            ELSE \E m : At(p, at, rows, m)
  BY DEF RowsRead
<1> HIDE DEF gs, text, q, rows
<1>11. CASE \E n \in 1..k : EndlessRow(n)
  <2>1. Refused(p) /\ \E n \in 1..k + 1 : EndlessRow(n)
    BY <1>4, <1>10, <1>11
  <2>2. Refused(q)
    BY <1>6, <2>1, ReadError DEF q
  <2>3. QED
    BY <1>6, <2>1, <2>2 DEF RowsRead, q, text, gs
<1>12. CASE ~\E n \in 1..k : EndlessRow(n)
  <2>1. PICK m : At(p, at, rows, m)
    BY <1>10, <1>12
  <2>2. CASE EndlessRow(k + 1)
    <3>1. Refused(q) /\ \E n \in 1..k + 1 : EndlessRow(n)
      BY <1>4, <1>7, <2>1, <2>2
    <3>2. QED
      BY <1>6, <3>1 DEF RowsRead, q, text, gs
  <2>3. CASE ~EndlessRow(k + 1)
    <3>1. ~\E n \in 1..k + 1 : EndlessRow(n)
      BY <1>3, <1>12, <2>3
    <3>2. PICK w : At(q, "next", Append(rows, w), w) /\ w = Expected(k + 1)
      BY <1>7, <1>8, <2>1, <2>3
    <3>3. At(q, "next", [n \in 1..k + 1 |-> Expected(n)], w)
      BY <1>9, <3>2
    <3>4. RowsRead(q, "next", k + 1)
      BY <3>1, <3>3 DEF RowsRead
    <3>5. QED
      BY <1>6, <3>4 DEF q, text, gs
  <2>4. QED
    BY <2>2, <2>3
<1>13. QED
  BY <1>11, <1>12

\* What follows a row: another one, or the end.
LEMMA AfterRow ==
  ASSUME NEW p, NEW k, RowsRead(p, "next", k)
  PROVE  /\ RowsRead(Parse(p, "comma"), "row", k)
         /\ RowsRead(Parse(p, "endArray"), "end", k)
<1> DEFINE rows == [n \in 1..k |-> Expected(n)]
<1> HIDE DEF rows
<1>1. RowsRead(p, "next", k) = IF \E n \in 1..k : EndlessRow(n) THEN Refused(p)
                               ELSE \E m : At(p, "next", rows, m)
  BY DEF RowsRead, rows
<1>2. CASE \E n \in 1..k : EndlessRow(n)
  <2>1. Refused(Parse(p, "comma")) /\ Refused(Parse(p, "endArray"))
    BY <1>1, <1>2, ParseError
  <2>2. QED
    BY <1>2, <2>1 DEF RowsRead
<1>3. CASE ~\E n \in 1..k : EndlessRow(n)
  <2>1. PICK m : At(p, "next", rows, m)
    BY <1>1, <1>3
  <2>2. At(Parse(p, "comma"), "row", rows, m) /\ At(Parse(p, "endArray"), "end", rows, m)
    BY <2>1, ParseAt
  <2>3. QED
    BY <1>3, <2>2 DEF RowsRead, rows
<1>4. QED
  BY <1>2, <1>3

\* The text of a table.
TableOf(L) == [n \in 1..L |-> Stored(given[n])]
RowPiece(n) == GetRow(Stored(given[n])) \o <<"comma">>

\* Where the next row is expected, after k of them.
Before(k) == IF k = 0 THEN "first" ELSE "row"

\* A row and its comma.
LEMMA ReadPiece ==
  ASSUME NEW L, RowsBound(L), Clean, NEW k \in 0..L - 1, NEW p, NEW at \in {"first", "row"},
         RowsRead(p, at, k)
  PROVE  RowPiece(k + 1) \in Seq(Token) /\ RowsRead(Read(p, RowPiece(k + 1)), "row", k + 1)
<1> DEFINE text == GetRow(Stored(given[k + 1]))
           comma == <<"comma">>
           q == Read(p, text)
<1>1. text \in Seq(Token) /\ RowsRead(q, "next", k + 1)
  BY OneMoreRow
<1>2. "comma" \in Token
  BY DEF Token, Marks
<1>3. comma \in Seq(Token) /\ Read(q, comma) = Parse(q, "comma")
  BY <1>2, OneSeq, ReadOne
<1>4. RowsRead(Parse(q, "comma"), "row", k + 1)
  <2> HIDE DEF q
  <2>1. QED
    BY <1>1, AfterRow
<1>5. RowPiece(k + 1) = text \o comma
  BY DEF RowPiece
<1> HIDE DEF text, comma
<1>6. text \o comma \in Seq(Token) /\ Read(p, text \o comma) = Read(Read(p, text), comma)
  BY <1>1, <1>3, ReadConcat, ConcatProperties
<1>7. QED
  BY <1>3, <1>4, <1>5, <1>6

\* The rows of a table up to the last one.
LEMMA ReadPieces ==
  ASSUME NEW L, RowsBound(L), Clean, NEW p, RowsRead(p, "first", 0)
  PROVE  \E f \in [0..L -> Seq(Token)] :
           /\ FlattenSeq([n \in DOMAIN TableOf(L) |-> GetRow(TableOf(L)[n]) \o <<"comma">>]) = f[L]
           /\ \A n \in 1..L : f[n] = f[n - 1] \o RowPiece(n)
           /\ \A n \in 0..L : RowsRead(Read(p, f[n]), Before(n), n)
<1> DEFINE ss == [n \in DOMAIN TableOf(L) |-> GetRow(TableOf(L)[n]) \o <<"comma">>]
<1>1. L \in Nat
  BY DEF RowsBound
<1>2. ss = [n \in 1..L |-> RowPiece(n)]
  <2>1. DOMAIN TableOf(L) = 1..L /\ \A n \in 1..L : TableOf(L)[n] = Stored(given[n])
    BY DEF TableOf
  <2>2. \A n \in 1..L : GetRow(TableOf(L)[n]) \o <<"comma">> = RowPiece(n)
    BY <2>1 DEF RowPiece
  <2>3. QED
    BY <2>1, <2>2
<1>3. ASSUME NEW k \in 0..L - 1, NEW q, NEW at \in {"first", "row"}, RowsRead(q, at, k)
      PROVE  RowPiece(k + 1) \in Seq(Token) /\ RowsRead(Read(q, RowPiece(k + 1)), "row", k + 1)
  BY <1>3, ReadPiece
<1>4. ASSUME NEW n \in 1..L PROVE RowPiece(n) \in Seq(Token)
  <2> DEFINE text == GetRow(Stored(given[n]))
             s == State("row", << >>, << >>, << >>, << >>, No)
             gs == given[n]
  <2>1. names \in Names /\ gs \in Seq(Bindable) /\ Len(gs) = Columns
    BY DEF RowsBound
  <2>2. At(s, "row", << >>, << >>)
    BY DEF At
  <2>3. text \in Seq(Token)
    <3> HIDE DEF s
    <3>1. GetRow(Stored(gs)) \in Seq(Token)
      <4> HIDE DEF gs
      <4>1. QED
        BY <2>1, <2>2, ReadRow
    <3>2. QED
      BY <3>1
  <2>4. "comma" \in Token
    BY DEF Token, Marks
  <2>5. <<"comma">> \in Seq(Token)
    BY <2>4, OneSeq
  <2> HIDE DEF text
  <2>6. text \o <<"comma">> \in Seq(Token)
    BY <2>3, <2>5, ConcatProperties
  <2>7. QED
    BY <2>6 DEF RowPiece, text
<1> HIDE DEF ss
<1>5. ss \in Seq(Seq(Token)) /\ Len(ss) = L /\ \A n \in 1..L : ss[n] = RowPiece(n)
  BY <1>1, <1>2, <1>4
<1>6. PICK f \in [0..L -> Seq(Token)] :
        /\ f[0] = << >>
        /\ \A n \in 1..L : f[n] = f[n - 1] \o ss[n]
        /\ FlattenSeq(ss) = f[L]
  BY <1>5, FlattenFacts
<1>7. \A n \in 1..L : f[n] = f[n - 1] \o RowPiece(n)
  BY <1>5, <1>6
<1> DEFINE N == {n \in Nat : RowsRead(Read(p, f[n]), Before(n), n)}
<1>8. 0 \in N
  <2>1. Read(p, f[0]) = p /\ Before(0) = "first"
    BY <1>6, ReadEmpty DEF Before
  <2>2. QED
    BY <2>1
<1>9. ASSUME NEW k \in 0..L - 1, k \in N PROVE k + 1 \in N
  <2> DEFINE q == Read(p, f[k])
             text == RowPiece(k + 1)
  <2>1. k \in Nat /\ k \in 0..L /\ k + 1 \in Nat /\ k + 1 \in 1..L /\ (k + 1) - 1 = k /\ k + 1 # 0
    BY <1>1
  <2>2. Before(k) \in {"first", "row"} /\ Before(k + 1) = "row"
    BY <2>1 DEF Before
  <2>3. RowsRead(q, Before(k), k)
    BY <1>9
  <2>4. text \in Seq(Token) /\ RowsRead(Read(q, text), "row", k + 1)
    <3> HIDE DEF q
    <3>1. QED
      BY <1>3, <2>2, <2>3
  <2>5. f[k + 1] = f[k] \o text /\ f[k] \in Seq(Token)
    BY <1>6, <1>7, <2>1
  <2> HIDE DEF q, text, N
  <2>6. Read(p, f[k + 1]) = Read(q, text)
    BY <2>4, <2>5, ReadConcat DEF q
  <2>7. RowsRead(Read(p, f[k + 1]), Before(k + 1), k + 1)
    BY <2>2, <2>4, <2>6
  <2>8. QED
    BY <2>1, <2>7 DEF N
<1> HIDE DEF N
<1>10. 0..L \subseteq N
  BY <1>1, <1>8, <1>9, Induction
<1>11. \A n \in 0..L : RowsRead(Read(p, f[n]), Before(n), n)
  BY <1>10 DEF N
<1>12. QED
  BY <1>6, <1>7, <1>11 DEF ss

\* The parser begins here.
LEMMA AtStart == At(Start, "begin", << >>, << >>)
<1>1. Start = State("begin", << >>, << >>, << >>, << >>, No)
  BY DEF Start, State, No
<1>2. QED
  BY <1>1 DEF At

\* Nothing is expected of no rows.
LEMMA NoRows == [n \in 1..0 |-> Expected(n)] = << >>
<1>1. 1..0 = {}
  OBVIOUS
<1>2. [n \in {} |-> Expected(n)] = << >>
  OBVIOUS
<1>3. QED
  BY <1>1, <1>2

\* What All writes of a table that is not empty.
LEMMA ReadAll ==
  ASSUME NEW L \in Nat \ {0}, RowsBound(L), Clean
  PROVE  RowsRead(Read(Start, All(TableOf(L))), "end", L)
<1> DEFINE begin == <<"beginArray">>
           end == <<"endArray">>
           p == Read(Start, begin)
           k == L - 1
           cell == GetRow(Stored(given[L]))
           text == All(TableOf(L))
<1>1. "beginArray" \in Token /\ "endArray" \in Token
  BY DEF Token, Marks
<1>2. /\ begin \in Seq(Token) /\ end \in Seq(Token)
      /\ p = Parse(Start, "beginArray") /\ \A r : Read(r, end) = Parse(r, "endArray")
  BY <1>1, OneSeq, ReadOne
<1>3. RowsRead(p, "first", 0)
  <2>1. At(p, "first", << >>, << >>)
    BY <1>2, AtStart, ParseAt
  <2>2. ~\E n \in 1..0 : EndlessRow(n)
    OBVIOUS
  <2> HIDE DEF p
  <2>3. At(p, "first", [n \in 1..0 |-> Expected(n)], << >>)
    BY <2>1, NoRows
  <2>4. QED
    BY <2>2, <2>3 DEF RowsRead
<1>4. PICK f \in [0..L -> Seq(Token)] :
        /\ FlattenSeq([n \in DOMAIN TableOf(L) |-> GetRow(TableOf(L)[n]) \o <<"comma">>]) = f[L]
        /\ \A n \in 1..L : f[n] = f[n - 1] \o RowPiece(n)
        /\ \A n \in 0..L : RowsRead(Read(p, f[n]), Before(n), n)
  <2> HIDE DEF p
  <2>1. QED
    BY <1>3, ReadPieces
<1>5. k \in 0..L - 1 /\ k + 1 = L /\ L \in 1..L /\ L - 1 \in 0..L /\ k \in 0..L
  OBVIOUS
<1>6. text = OverLast(begin \o f[L], "endArray")
  <2>1. TableOf(L) # << >>
    <3>1. DOMAIN TableOf(L) = 1..L /\ DOMAIN << >> = {}
      BY EmptySeq, LenProperties DEF TableOf
    <3>2. QED
      BY <1>5, <3>1
  <2>2. QED
    BY <1>4, <2>1 DEF All
<1> DEFINE flat == f[L - 1]
           r == Read(p, flat)
<1>7. RowsRead(r, Before(k), k) /\ flat \in Seq(Token)
  BY <1>4, <1>5
<1>8. f[L] = flat \o (cell \o <<"comma">>)
  BY <1>4, <1>5 DEF RowPiece
<1> HIDE DEF p, r, text, flat
<1>9. cell \in Seq(Token) /\ RowsRead(Read(r, cell), "next", L)
  <2>1. Before(k) \in {"first", "row"}
    BY DEF Before
  <2> HIDE DEF k
  <2>2. /\ GetRow(Stored(given[k + 1])) \in Seq(Token)
        /\ RowsRead(Read(r, GetRow(Stored(given[k + 1]))), "next", k + 1)
    BY <1>5, <1>7, <2>1, OneMoreRow
  <2>3. QED
    BY <1>5, <2>2
<1> HIDE DEF begin, end, cell, k
<1>10. OverLast(begin \o (flat \o (cell \o <<"comma">>)), "endArray")
         = begin \o (flat \o cell) \o end
  BY <1>1, <1>7, <1>9, ClosedText DEF begin, end
<1> DEFINE both == flat \o cell
<1>11. both \in Seq(Token) /\ Read(p, both) = Read(r, cell)
  BY <1>7, <1>9, ReadConcat, ConcatProperties DEF r
<1>12. text = begin \o both \o end
  BY <1>6, <1>8, <1>10
<1> HIDE DEF both
<1>13. Read(Start, begin \o both \o end) = Read(Read(Read(Start, begin), both), end)
  BY <1>2, <1>11, ReadBetween
<1>14. Read(Start, text) = Parse(Read(r, cell), "endArray")
  BY <1>2, <1>11, <1>12, <1>13 DEF p
<1>15. RowsRead(Parse(Read(r, cell), "endArray"), "end", L)
  BY <1>9, AfterRow
<1>16. QED
  BY <1>14, <1>15 DEF text

-----------------------------------------------------------------------------
\* The rows of the table are those bound, and so are the values of the next row.
ValueInv ==
  /\ names \in Names
  /\ given \in Seq(Seq(Bindable)) /\ given # << >>
  /\ \A n \in 1..Len(given) - 1 : Len(given[n]) = Columns
  /\ table = TableOf(Len(given) - 1)
  /\ row = Stored(given[Len(given)])
  /\ out # << >> => row = << >> /\ out = All(table)

\* A stored row has as many values as were bound.
LEMMA StoredSeq ==
  ASSUME NEW gs \in Seq(Bindable)
  PROVE  /\ Stored(gs) = [i \in 1..Len(gs) |-> Bound(gs[i])]
         /\ Stored(gs) \in Seq({Bound(g) : g \in Bindable})
         /\ Len(Stored(gs)) = Len(gs)
<1>1. DOMAIN gs = 1..Len(gs) /\ Len(gs) \in Nat /\ \A i \in 1..Len(gs) : gs[i] \in Bindable
  BY LenProperties, ElementOfSeq
<1>2. Stored(gs) = [i \in 1..Len(gs) |-> Bound(gs[i])]
  BY <1>1 DEF Stored
<1>3. Stored(gs) \in [1..Len(gs) -> {Bound(g) : g \in Bindable}]
  BY <1>1, <1>2
<1>4. QED
  BY <1>1, <1>2, <1>3, IsASeq

\* One value more is bound, one more is stored.
LEMMA StoredMore ==
  ASSUME NEW gs \in Seq(Bindable), NEW g \in Bindable
  PROVE  Stored(Append(gs, g)) = Append(Stored(gs), Bound(g))
<1> DEFINE S == {Bound(h) : h \in Bindable}
           a == Append(gs, g)
           b == Bound(g)
           s == Stored(gs)
           L == Len(gs)
<1>1. /\ a \in Seq(Bindable) /\ Len(a) = L + 1 /\ L \in Nat
      /\ \A i \in 1..L : a[i] = gs[i]
      /\ a[L + 1] = g
  BY AppendProperties, LenProperties
<1>2. s \in Seq(S) /\ Len(s) = L /\ s = [i \in 1..L |-> Bound(gs[i])]
  BY StoredSeq
<1>3. Stored(a) \in Seq(S) /\ Len(Stored(a)) = L + 1 /\ Stored(a) = [i \in 1..L + 1 |-> Bound(a[i])]
  <2> HIDE DEF a, L
  <2>1. QED
    BY <1>1, StoredSeq
<1>4. b \in S
  OBVIOUS
<1> HIDE DEF S, a, s, L
<1>5. /\ Append(s, b) \in Seq(S) /\ Len(Append(s, b)) = L + 1
      /\ \A i \in 1..L : Append(s, b)[i] = s[i]
      /\ Append(s, b)[L + 1] = b
  <2> HIDE DEF b
  <2>1. s \in Seq(S) /\ b \in S
    BY <1>2, <1>4
  <2>2. /\ Append(s, b) \in Seq(S) /\ Len(Append(s, b)) = Len(s) + 1
        /\ \A i \in 1..Len(s) : Append(s, b)[i] = s[i]
        /\ Append(s, b)[Len(s) + 1] = b
    BY <2>1, AppendProperties
  <2>3. QED
    BY <1>2, <2>2
<1>6. \A i \in 1..L : Stored(a)[i] = Bound(gs[i]) /\ s[i] = Bound(gs[i])
  BY <1>1, <1>2, <1>3
<1>7. Stored(a)[L + 1] = b
  BY <1>1, <1>3
<1>8. \A i \in 1..L + 1 : Append(s, b)[i] = Stored(a)[i]
  <2>1. \A i \in 1..L + 1 : i \in 1..L \/ i = L + 1
    BY <1>1
  <2>2. QED
    BY <1>5, <1>6, <1>7, <2>1
<1>9. Append(s, b) = Stored(a)
  <2> HIDE DEF b
  <2>1. QED
    BY <1>3, <1>5, <1>8, SeqEqual
<1>10. QED
  BY <1>9 DEF a, s

\* One row more is stored.
LEMMA TableMore ==
  ASSUME NEW L \in Nat
  PROVE  Append(TableOf(L), Stored(given[L + 1])) = TableOf(L + 1)
<1> DEFINE S == {Stored(given[n]) : n \in 1..L + 1}
           s == TableOf(L)
           e == Stored(given[L + 1])
           t == TableOf(L + 1)
<1>1. L + 1 \in 1..L + 1 /\ \A n \in 1..L : n \in 1..L + 1
  OBVIOUS
<1>2. s \in [1..L -> S] /\ e \in S /\ t \in [1..L + 1 -> S]
  BY <1>1 DEF TableOf
<1>3. \A n \in 1..L + 1 : t[n] = IF n \in 1..L THEN s[n] ELSE e
  BY <1>1 DEF TableOf
<1> HIDE DEF S, s, e, t
<1>4. s \in Seq(S) /\ Len(s) = L /\ t \in Seq(S) /\ Len(t) = L + 1
  BY <1>2, IsASeq
<1>5. /\ Append(s, e) \in Seq(S) /\ Len(Append(s, e)) = L + 1
      /\ \A n \in 1..L : Append(s, e)[n] = s[n]
      /\ Append(s, e)[L + 1] = e
  BY <1>2, <1>4, AppendProperties
<1>6. \A n \in 1..L + 1 : Append(s, e)[n] = t[n]
  BY <1>1, <1>3, <1>5
<1>7. Append(s, e) = t
  BY <1>4, <1>5, <1>6, SeqEqual
<1>8. QED
  BY <1>7 DEF s, e, t

\* It holds at the beginning.
LEMMA ValueInvInit == ValueInit => ValueInv
<1> SUFFICES ASSUME ValueInit PROVE ValueInv
  OBVIOUS
<1> DEFINE none == << >>
<1>1. none \in Seq(Bindable) /\ Len(none) = 0 /\ none = << >>
  BY EmptySeq
<1> HIDE DEF none
<1>2. given = <<none>> /\ given \in Seq(Seq(Bindable)) /\ Len(given) = 1 /\ given[1] = none
  <2>1. given = <<none>>
    BY DEF ValueInit, none
  <2>2. QED
    BY <1>1, <2>1, OneSeq
<1>3. given # << >> /\ Len(given) - 1 = 0
  BY <1>2
<1>4. table = TableOf(0)
  <2>1. [n \in {} |-> Stored(given[n])] = << >> /\ 1..0 = {}
    OBVIOUS
  <2>2. QED
    BY <2>1 DEF TableOf, ValueInit
<1>5. row = Stored(none)
  <2>1. DOMAIN none = {}
    BY <1>1, EmptySeq
  <2>2. [i \in {} |-> Bound(none[i])] = << >>
    OBVIOUS
  <2>3. QED
    BY <2>1, <2>2 DEF Stored, ValueInit
<1>6. names \in Names /\ out = << >>
  BY DEF ValueInit
<1>7. \A n \in 1..Len(given) - 1 : FALSE
  <2>1. 1..0 = {}
    OBVIOUS
  <2>2. QED
    BY <1>3, <2>1
<1>8. QED
  BY <1>2, <1>3, <1>4, <1>5, <1>6, <1>7 DEF ValueInv

\* Every step keeps the invariant.
LEMMA ValueInvNext == ValueInv /\ [ValueNext]_valueVars => ValueInv'
<1> SUFFICES ASSUME ValueInv, [ValueNext]_valueVars PROVE ValueInv'
  OBVIOUS
<1> DEFINE L == Len(given) - 1
           gs == given[Len(given)]
<1>1. /\ given \in Seq(Seq(Bindable)) /\ given # << >>
      /\ L \in Nat /\ L + 1 = Len(given) /\ L + 1 \in 1..Len(given)
  BY EmptySeq, LenProperties DEF ValueInv
<1>2. \A n \in 1..L + 1 : given[n] \in Seq(Bindable)
  BY <1>1, ElementOfSeq
<1>3. gs \in Seq(Bindable) /\ gs = given[L + 1]
  BY <1>1, <1>2
<1>4. CASE BindNext
  <2>1. PICK g \in Given :
          \/ /\ g.is # "object" /\ Len(row) < Len(names) /\ Len(table) < MaxRows
             /\ row' = Append(row, Bound(g))
             /\ given' = [given EXCEPT ![Len(given)] = Append(@, g)]
          \/ UNCHANGED <<row, given>>
    BY <1>4 DEF BindNext
  <2>2. UNCHANGED <<names, table, out>> /\ out = << >>
    BY <1>4 DEF BindNext, Ready
  <2>3. CASE UNCHANGED <<row, given>>
    BY <2>2, <2>3 DEF ValueInv, TableOf, Columns
  <2>4. CASE g.is # "object" /\ row' = Append(row, Bound(g))
             /\ given' = [given EXCEPT ![Len(given)] = Append(@, g)]
    <3> DEFINE more == Append(gs, g)
    <3>1. g \in Bindable
      BY <2>4 DEF Bindable
    <3>2. more \in Seq(Bindable)
      BY <1>3, <3>1, AppendProperties
    <3>3. Stored(more) = Append(Stored(gs), Bound(g))
      <4> HIDE DEF gs
      <4>1. QED
        BY <1>3, <3>1, StoredMore
    <3>4. given' = [given EXCEPT ![L + 1] = more]
      BY <1>1, <2>4
    <3> HIDE DEF more, L
    <3>5. given' \in Seq(Seq(Bindable)) /\ Len(given') = L + 1
      BY <1>1, <3>2, <3>4, ExceptSeq
    <3>6. given'[L + 1] = more /\ \A n \in 1..L : given'[n] = given[n]
      <4>1. DOMAIN given = 1..L + 1
        BY <1>1, LenProperties
      <4>2. \A n \in 1..L : n \in 1..L + 1 /\ n # L + 1
        BY <1>1
      <4>3. QED
        BY <1>1, <3>4, <4>1, <4>2
    <3>7. row' = Stored(given'[L + 1])
      BY <2>4, <3>3, <3>6 DEF ValueInv
    <3>8. table' = [n \in 1..L |-> Stored(given'[n])]
      BY <2>2, <3>6 DEF ValueInv, TableOf, L
    <3>9. /\ given' # << >> /\ Len(given') - 1 = L
      BY <1>1, <3>5, EmptySeq
    <3>10. \A n \in 1..L : Len(given'[n]) = Len(names')
      BY <2>2, <3>6 DEF ValueInv, Columns, L
    <3>11. names' \in Names /\ out' = << >>
      BY <2>2 DEF ValueInv
    <3>12. QED
      BY <3>5, <3>7, <3>8, <3>9, <3>10, <3>11 DEF ValueInv, TableOf, Columns
  <2>5. QED
    BY <2>1, <2>3, <2>4
<1>5. CASE Insert
  <2>1. /\ out = << >> /\ Len(row) = Len(names) /\ table' = Append(table, row) /\ row' = << >>
        /\ given' = Append(given, << >>) /\ names' = names /\ out' = out
    BY <1>5 DEF Insert, Ready
  <2> DEFINE none == << >>
  <2>2. none \in Seq(Bindable) /\ Stored(none) = << >>
    <3>1. [i \in {} |-> Bound(none[i])] = << >> /\ DOMAIN none = {}
      OBVIOUS
    <3>2. QED
      BY <3>1, EmptySeq DEF Stored
  <2>3. given' = Append(given, none)
    BY <2>1
  <2> HIDE DEF none, L
  <2>4. /\ given' \in Seq(Seq(Bindable)) /\ Len(given') = L + 2 /\ given'[L + 2] = none
        /\ \A n \in 1..L + 1 : given'[n] = given[n]
    <3>1. /\ Append(given, none) \in Seq(Seq(Bindable))
          /\ Len(Append(given, none)) = Len(given) + 1
          /\ \A n \in 1..Len(given) : Append(given, none)[n] = given[n]
          /\ Append(given, none)[Len(given) + 1] = none
      BY <1>1, <2>2, AppendProperties
    <3>2. QED
      BY <1>1, <2>3, <3>1
  <2>5. given' # << >> /\ Len(given') - 1 = L + 1
    BY <1>1, <2>4, EmptySeq
  <2>6. row' = Stored(given'[Len(given')])
    BY <2>1, <2>2, <2>4
  <2>7. table' = TableOf(L + 1)
    <3>1. table = TableOf(L) /\ row = Stored(given[L + 1])
      BY <1>1 DEF ValueInv, L
    <3>2. QED
      BY <1>1, <2>1, <3>1, TableMore
  <2>8. table' = [n \in 1..L + 1 |-> Stored(given'[n])]
    BY <2>4, <2>7 DEF TableOf
  <2>9. ASSUME NEW n \in 1..L + 1 PROVE Len(given'[n]) = Len(names')
    <3>1. CASE n \in 1..L
      BY <2>1, <2>4, <3>1 DEF ValueInv, Columns, L
    <3>2. CASE n = L + 1
      <4>1. Len(Stored(gs)) = Len(gs)
        <5> HIDE DEF gs
        <5>1. QED
          BY <1>3, StoredSeq
      <4>2. Len(gs) = Len(names)
        BY <2>1, <4>1 DEF ValueInv
      <4>3. QED
        BY <1>3, <2>1, <2>4, <3>2, <4>2
    <3>3. QED
      BY <1>1, <3>1, <3>2
  <2>10. names' \in Names /\ out' = << >>
    BY <2>1 DEF ValueInv
  <2>11. QED
    BY <2>4, <2>5, <2>6, <2>8, <2>9, <2>10 DEF ValueInv, TableOf, Columns
<1>6. CASE Select
  <2>1. row = << >> /\ out' = All(table) /\ UNCHANGED <<names, given, table, row>>
    BY <1>6 DEF Select
  <2>2. names' = names
    BY <2>1
  <2>3. out' = All(table)'
    BY <2>1 DEF All, GetRow, Column
  <2>4. QED
    BY <2>1, <2>3 DEF ValueInv, TableOf, Columns
<1>7. CASE CallFails \/ UNCHANGED valueVars
  <2>1. UNCHANGED <<names, given, table, row, out>>
    BY <1>7 DEF CallFails, valueVars
  <2>2. All(table)' = All(table)
    BY <2>1 DEF All, GetRow, Column
  <2>3. QED
    BY <2>1, <2>2 DEF ValueInv, TableOf, Columns
<1>8. QED
  BY <1>4, <1>5, <1>6, <1>7 DEF ValueNext

\* Rows without an infinite number are those without an endless row.
LEMMA FiniteRows ==
  ASSUME ValueInv, row = << >>
  PROVE  Finite <=> ~\E n \in 1..Len(given) - 1 : EndlessRow(n)
<1> DEFINE L == Len(given) - 1
           gs == given[Len(given)]
<1>1. given \in Seq(Seq(Bindable)) /\ L \in Nat /\ Len(given) = L + 1 /\ L + 1 \in 1..Len(given)
  BY EmptySeq, LenProperties DEF ValueInv
<1>2. gs \in Seq(Bindable)
  BY <1>1, ElementOfSeq
<1>3. gs = given[L + 1] /\ Len(gs) = 0
  <2>1. Len(Stored(gs)) = Len(gs)
    <3> HIDE DEF gs
    <3>1. QED
      BY <1>2, StoredSeq
  <2>2. Stored(gs) = << >>
    BY DEF ValueInv
  <2>3. QED
    BY <1>1, <2>1, <2>2, EmptySeq
<1>4. \A n \in 1..L : Len(given[n]) = Columns
  BY DEF ValueInv
<1>5. Finite <=> \A n \in 1..L + 1 : \A i \in 1..Len(given[n]) : ~Endless(given[n][i])
  BY <1>1 DEF Finite, Endless
<1> HIDE DEF L, gs
<1>6. \A n \in 1..L + 1 : n \in 1..L \/ n = L + 1
  BY <1>1
<1>7. \A n \in 1..L : n \in 1..L + 1
  BY <1>1
<1>8. \A i \in 1..Len(given[L + 1]) : FALSE
  <2>1. 1..0 = {}
    OBVIOUS
  <2>2. QED
    BY <1>3, <2>1
<1>9. Finite <=> \A n \in 1..L : \A i \in 1..Columns : ~Endless(given[n][i])
  BY <1>4, <1>5, <1>6, <1>7, <1>8
<1>10. QED
  BY <1>9 DEF EndlessRow, L

\* An empty table is an empty array.
LEMMA NothingComesBack ==
  LET p == Read(Start, All(<< >>)) IN p.at = "end" /\ p.rows = << >>
<1> DEFINE begin == "beginArray"
           end == "endArray"
           p == Read(Start, <<begin, end>>)
<1>1. begin \in Token /\ end \in Token
  BY DEF Token, Marks
<1>2. p = Parse(Parse(Start, begin), end)
  BY <1>1, ReadTwo
<1>3. At(Parse(Start, begin), "first", << >>, << >>)
  BY AtStart, ParseAt
<1>4. At(Parse(Parse(Start, begin), end), "end", << >>, << >>)
  BY <1>3, ParseAt
<1> HIDE DEF p
<1>5. At(p, "end", << >>, << >>)
  BY <1>2, <1>4
<1>6. All(<< >>) = <<begin, end>>
  BY DEF All
<1>7. QED
  BY <1>5, <1>6 DEF At, State, p

\* The members of a row are values that come back, those of the last columns of
\* their names.
LEMMA ExpectedComesBack ==
  ASSUME NEW n, given[n] \in Seq(Bindable), Len(given[n]) = Columns
  PROVE  /\ DOMAIN Expected(n) = {names[i] : i \in 1..Columns}
         /\ \A i \in 1..Columns :
              (\A j \in i + 1..Columns : names[j] # names[i]) =>
                ComesBack(given[n][i], Expected(n)[names[i]])
<1> DEFINE last(name) == CHOOSE i \in 1..Columns :
             names[i] = name /\ \A j \in i + 1..Columns : names[j] # name
<1>1. Columns \in Nat
  BY LenProperties
<1>2. DOMAIN Expected(n) = {names[i] : i \in 1..Columns}
  BY DEF Expected
<1>3. ASSUME NEW i \in 1..Columns, \A j \in i + 1..Columns : names[j] # names[i]
      PROVE  ComesBack(given[n][i], Expected(n)[names[i]])
  <2>1. ASSUME NEW k \in 1..Columns, names[k] = names[i],
               \A j \in k + 1..Columns : names[j] # names[i]
        PROVE  k = i
    <3>1. ~(i < k) /\ ~(k < i)
      BY <1>1, <1>3, <2>1
    <3>2. QED
      BY <1>1, <3>1
  <2>2. last(names[i]) = i
    BY <1>3, <2>1
  <2> HIDE DEF last
  <2>3. Expected(n)[names[i]] = Back(given[n][last(names[i])])
    BY <1>3 DEF Expected, last
  <2>4. given[n][i] \in Bindable
    BY <1>3, ElementOfSeq
  <2>5. QED
    BY <2>2, <2>3, <2>4, BackComesBack
<1>4. QED
  BY <1>2, <1>3

\* RowsComeBack follows from what the rows are.
LEMMA RowsComeBackFromInv == ValueInv => RowsComeBack
<1> DEFINE L == Len(given) - 1
           p == Read(Start, out)
<1> SUFFICES ASSUME ValueInv, out # << >>, table = << >> \/ Clean, Finite
             PROVE  /\ p.at = "end" /\ Len(p.rows) = Len(table)
                    /\ \A n \in 1..Len(table) :
                         /\ DOMAIN p.rows[n] = {names[i] : i \in 1..Columns}
                         /\ \A i \in 1..Columns :
                              (\A j \in i + 1..Columns : names[j] # names[i]) =>
                                ComesBack(given[n][i], p.rows[n][names[i]])
  BY DEF RowsComeBack
<1>1. L \in Nat /\ table = TableOf(L) /\ row = << >> /\ out = All(table)
  BY EmptySeq, LenProperties DEF ValueInv
<1>2. ~\E n \in 1..L : EndlessRow(n)
  BY <1>1, FiniteRows
<1>3. Len(table) = L
  <2> DEFINE S == {Stored(given[n]) : n \in 1..L}
  <2>1. TableOf(L) \in [1..L -> S]
    BY DEF TableOf
  <2> HIDE DEF L, S
  <2>2. QED
    BY <1>1, <2>1, IsASeq
<1>4. RowsBound(L)
  <2>1. given \in Seq(Seq(Bindable)) /\ \A n \in 1..L : n \in 1..Len(given)
    BY <1>1, LenProperties DEF ValueInv
  <2>2. \A n \in 1..L : given[n] \in Seq(Bindable)
    BY <2>1, ElementOfSeq
  <2>3. QED
    BY <1>1, <2>2 DEF ValueInv, RowsBound
<1>5. CASE table = << >>
  <2>1. L = 0
    BY <1>3, <1>5, EmptySeq
  <2>2. p.at = "end" /\ p.rows = << >>
    BY <1>1, <1>5, NothingComesBack
  <2>3. 1..Len(table) = {} /\ Len(p.rows) = Len(table)
    BY <1>5, <2>2, EmptySeq
  <2>4. QED
    BY <2>2, <2>3
<1>6. CASE table # << >>
  <2>1. L # 0
    <3>1. TableOf(0) = << >>
      <4>1. 1..0 = {} /\ [n \in {} |-> Stored(given[n])] = << >>
        OBVIOUS
      <4>2. QED
        BY <4>1 DEF TableOf
    <3>2. QED
      BY <1>1, <1>6, <3>1
  <2>2. RowsRead(p, "end", L)
    <3>1. L \in Nat \ {0} /\ Clean
      BY <1>1, <1>6, <2>1
    <3> HIDE DEF L
    <3>2. RowsRead(Read(Start, All(TableOf(L))), "end", L)
      BY <1>4, <3>1, ReadAll
    <3>3. QED
      BY <1>1, <3>2
  <2> HIDE DEF p, L
  <2>3. PICK m : At(p, "end", [n \in 1..L |-> Expected(n)], m)
    BY <1>2, <2>2 DEF RowsRead
  <2>4. p.at = "end" /\ p.rows = [n \in 1..L |-> Expected(n)]
    BY <2>3 DEF At, State
  <2>5. Len(p.rows) = L
    <3> DEFINE S == {Expected(n) : n \in 1..L}
    <3>1. [n \in 1..L |-> Expected(n)] \in [1..L -> S]
      OBVIOUS
    <3> HIDE DEF S
    <3>2. QED
      BY <1>1, <2>4, <3>1, IsASeq
  <2>6. ASSUME NEW n \in 1..L
        PROVE  /\ DOMAIN p.rows[n] = {names[i] : i \in 1..Columns}
               /\ \A i \in 1..Columns :
                    (\A j \in i + 1..Columns : names[j] # names[i]) =>
                      ComesBack(given[n][i], p.rows[n][names[i]])
    <3>1. p.rows[n] = Expected(n)
      BY <2>4
    <3>2. given[n] \in Seq(Bindable) /\ Len(given[n]) = Columns
      BY <1>4 DEF RowsBound
    <3>3. QED
      BY <3>1, <3>2, ExpectedComesBack
  <2>7. QED
    BY <1>3, <2>4, <2>5, <2>6
<1>7. QED
  BY <1>5, <1>6

\* However many rows are stored, what was bound comes back row by row and column
\* by column, of a text with a NUL maybe only a beginning, unless a number is
\* infinite or a column name needs an escape.
THEOREM ValuesRowsComeBack == ValueSpec => []RowsComeBack
<1>1. ValueSpec => []ValueInv
  BY ValueInvInit, ValueInvNext, PTL DEF ValueSpec
<1>2. QED
  BY <1>1, RowsComeBackFromInv, PTL

-----------------------------------------------------------------------------
\* The SQLiteError of a failure is that of its code, or the one for a message
\* made from nothing.
ErrorInv ==
  error # Nothing =>
    /\ failure \in 1..26
    /\ \/ error = WrapException(ThrowSQLiteError(failure))
       \/ failure = 25 /\ error = WrapException(Hresult(32768, 16387))

\* A SQLiteError has the halves of its HRESULT.
LEMMA ErrorOf ==
  ASSUME NEW h \in Int, NEW l
  PROVE  WrapException(Hresult(h, l))
           = [high |-> h, low |-> l, resultCode |-> IF (h \div 8192) % 2 = 1 THEN l ELSE 0]
<1> DEFINE r == Hresult(h, l)
<1>1. r.high = h - 65536 /\ r.low = l
  BY DEF Hresult
<1>2. r.high + 65536 = h
  BY <1>1
<1> HIDE DEF r
<1>3. WrapException(r) = [high |-> h, low |-> l,
                          resultCode |-> IF (h \div 8192) % 2 = 1 THEN l ELSE 0]
  BY <1>1, <1>2 DEF WrapException, WrapIf
<1>4. QED
  BY <1>3 DEF r

\* The halves of the HRESULT that a code has.
High(code) ==
  CASE code \in {1, 4, 17, 25} -> 32768
    [] code = 15 -> 33654
    [] code \in {2, 3, 18, 19, 21} -> 40964
    [] OTHER -> 32775

Low(code) ==
  CASE code = 1 -> 16389 [] code = 4 -> 16388 [] code = 5 -> 170 [] code = 6 -> 33
    [] code = 7 -> 14 [] code = 8 -> 6009 [] code = 9 -> 995 [] code = 10 -> 1117
    [] code = 11 -> 4313 [] code = 12 -> 1 [] code = 13 -> 4314 [] code = 14 -> 2
    [] code = 15 -> 1 [] code = 16 -> 4306 [] code = 17 -> 12 [] code = 20 -> 1629
    [] code = 22 -> 50 [] code = 23 -> 1244 [] code = 24 -> 1392 [] code = 25 -> 11
    [] code = 26 -> 1065 [] OTHER -> code

\* They are the halves of what throwSQLiteError throws.
LEMMA HalvesOf ==
  ASSUME NEW code \in 1..26
  PROVE  ThrowSQLiteError(code) = Hresult(High(code), Low(code))
BY DEF ThrowSQLiteError, Win32, High, Low

\* No two codes have the same halves.
LEMMA HalvesTell ==
  ASSUME NEW c \in 1..26, NEW d \in 1..26, High(c) = High(d), Low(c) = Low(d)
  PROVE  c = d
BY DEF High, Low

\* Only the codes without an HRESULT of the system have the bit, and none is E_POINTER.
LEMMA HalvesFacts ==
  ASSUME NEW c \in 1..26
  PROVE  /\ High(c) \in Int
         /\ (High(c) \div 8192) % 2 = IF c \in {2, 3, 18, 19, 21} THEN 1 ELSE 0
         /\ c \in {2, 3, 18, 19, 21} => Low(c) = c
         /\ ~(High(c) = 32768 /\ Low(c) = 16387)
BY DEF High, Low

\* The SQLiteError of a code.
LEMMA ErrorOfCode ==
  ASSUME NEW c \in 1..26
  PROVE  WrapException(ThrowSQLiteError(c))
           = [high |-> High(c), low |-> Low(c),
              resultCode |-> IF c \in {2, 3, 18, 19, 21} THEN c ELSE 0]
<1>1. WrapException(Hresult(High(c), Low(c)))
        = [high |-> High(c), low |-> Low(c),
           resultCode |-> IF (High(c) \div 8192) % 2 = 1 THEN Low(c) ELSE 0]
  BY HalvesFacts, ErrorOf
<1>2. QED
  BY <1>1, HalvesFacts, HalvesOf

\* ErrorTellsCode follows from where the error comes from.
LEMMA ErrorTellsFromInv == ErrorInv => ErrorTellsCode
<1> SUFFICES ASSUME ErrorInv, error # Nothing
             PROVE  /\ \A code \in 1..26 \ {failure} : WrapException(ThrowSQLiteError(code)) # error
                    /\ error.resultCode \in {0, failure}
                    /\ failure \in {2, 3, 18, 19, 21} => error.resultCode = failure
  BY DEF ErrorTellsCode
<1>1. failure \in 1..26
  BY DEF ErrorInv
<1>2. CASE error = WrapException(ThrowSQLiteError(failure))
  <2>1. error = [high |-> High(failure), low |-> Low(failure),
                 resultCode |-> IF failure \in {2, 3, 18, 19, 21} THEN failure ELSE 0]
    BY <1>1, <1>2, ErrorOfCode
  <2>2. ASSUME NEW code \in 1..26 \ {failure} PROVE WrapException(ThrowSQLiteError(code)) # error
    <3>1. WrapException(ThrowSQLiteError(code)).high = High(code)
          /\ WrapException(ThrowSQLiteError(code)).low = Low(code)
      BY ErrorOfCode
    <3>2. error.high = High(failure) /\ error.low = Low(failure)
      BY <2>1
    <3>3. QED
      BY <1>1, <3>1, <3>2, HalvesTell
  <2>3. QED
    BY <2>1, <2>2
<1>3. CASE failure = 25 /\ error = WrapException(Hresult(32768, 16387))
  <2>1. error = [high |-> 32768, low |-> 16387, resultCode |-> 0]
    <3>1. error = [high |-> 32768, low |-> 16387,
                   resultCode |-> IF (32768 \div 8192) % 2 = 1 THEN 16387 ELSE 0]
      BY <1>3, ErrorOf
    <3>2. (32768 \div 8192) % 2 = 0
      OBVIOUS
    <3>3. QED
      BY <3>1, <3>2
  <2>2. ASSUME NEW code \in 1..26 PROVE WrapException(ThrowSQLiteError(code)) # error
    <3>1. WrapException(ThrowSQLiteError(code)).high = High(code)
          /\ WrapException(ThrowSQLiteError(code)).low = Low(code)
      BY ErrorOfCode
    <3>2. QED
      BY <2>1, <3>1, HalvesFacts
  <2>3. QED
    BY <1>3, <2>1, <2>2
<1>4. QED
  BY <1>2, <1>3 DEF ErrorInv

\* The SQLiteError of any failure tells which of the SQLite codes it was.
THEOREM ValuesErrorTells == ValueSpec => []ErrorTellsCode
<1>1. ValueInit => ErrorInv
  BY DEF ValueInit, ErrorInv
<1>2. ErrorInv /\ [ValueNext]_valueVars => ErrorInv'
  <2> SUFFICES ASSUME ErrorInv, [ValueNext]_valueVars PROVE ErrorInv'
    OBVIOUS
  <2>1. ASSUME NEW code \in 1..26, Fail(code) PROVE ErrorInv'
    BY <2>1 DEF Fail, ErrorInv, WrapException, WrapIf, ThrowSQLiteError, Win32, Hresult
  <2>2. CASE BindNext
    <3>1. PICK g \in Given :
            \/ UNCHANGED <<failure, error>>
            \/ Fail(20)
            \/ Fail(25)
            \/ failure' = 25 /\ error' \in {WrapException(Hresult(32768, 16387)), Nothing}
      BY <2>2 DEF BindNext
    <3>2. CASE UNCHANGED <<failure, error>>
      BY <3>2 DEF ErrorInv, WrapException, WrapIf, ThrowSQLiteError, Win32, Hresult
    <3>3. CASE failure' = 25 /\ error' \in {WrapException(Hresult(32768, 16387)), Nothing}
      BY <3>3 DEF ErrorInv, WrapException, WrapIf, Hresult
    <3>4. QED
      BY <2>1, <3>1, <3>2, <3>3
  <2>3. CASE CallFails
    BY <2>1, <2>3 DEF CallFails
  <2>4. CASE Insert \/ Select \/ UNCHANGED valueVars
    <3>1. UNCHANGED <<failure, error>>
      BY <2>4 DEF Insert, Select, valueVars
    <3>2. QED
      BY <3>1 DEF ErrorInv, WrapException, WrapIf, ThrowSQLiteError, Win32, Hresult
  <2>5. QED
    BY <2>2, <2>3, <2>4 DEF ValueNext
<1>3. ValueSpec => []ErrorInv
  BY <1>1, <1>2, PTL DEF ValueSpec
<1>4. QED
  BY <1>3, ErrorTellsFromInv, PTL
=============================================================================
