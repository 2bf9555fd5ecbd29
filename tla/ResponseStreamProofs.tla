------------------------ MODULE ResponseStreamProofs ------------------------
(***************************************************************************)
(* How responses are cut from a connection, proved for any menu of them,   *)
(* any bodies, chunks, buffers and packets.                                *)
(***************************************************************************)
EXTENDS ResponseStream, FiniteSetTheorems, WellFoundedInduction, TLAPS

Responses == Menu \cup Unasked

Token == {HeadToken(r) : r \in Responses}
         \cup {SizeToken(n, odd) : n \in Nat, odd \in BOOLEAN}
         \cup {[t |-> "data"], [t |-> "crlf"], [t |-> "trailer"]}

Message(r) == <<HeadToken(r)>> \o BodyTokens(r)

-----------------------------------------------------------------------------
(* Bodies on the wire. FlattenSeq is a recursive function over the chunks; *)
(* induction is over a set of numbers, no operator is given to a theorem.  *)

(* Induction over the numbers, of a set rather than of a predicate.        *)
LEMMA InductionOnNat ==
  ASSUME NEW Good, 0 \in Good, \A n \in Nat : n \in Good => n + 1 \in Good
  PROVE  Nat \subseteq Good
<1> DEFINE Bad == Nat \ Good
<1>1. SUFFICES ASSUME Bad # {} PROVE FALSE
  OBVIOUS
<1> HIDE DEF Bad
<1>2. PICK n \in Bad : \A m \in Bad : ~ (<<m, n>> \in OpToRel(<, Nat))
  BY <1>1, NatLessThanWellFounded, WFMin DEF Bad
<1>3. \A m \in Bad : ~ (m < n)
  BY <1>2 DEF OpToRel, Bad
<1>4. n \in Nat /\ n # 0
  BY DEF Bad
<1>5. n - 1 \in Nat /\ n - 1 \notin Bad
  BY <1>3, <1>4
<1>6. (n - 1) + 1 \in Good
  BY <1>5 DEF Bad
<1> QED BY <1>4, <1>6 DEF Bad

(* f holds the concatenations of the first sequences of ss.                *)
Joins(ss, n, f) == f = [i \in 1..n |-> IF i = 1 THEN ss[i] ELSE f[i - 1] \o ss[i]]

LEMMA JoinsExist ==
  ASSUME NEW ss, NEW n \in Nat
  PROVE  \E f : Joins(ss, n, f)
<1> DEFINE Good == {m \in Nat : \E f : Joins(ss, m, f)}
<1>1. 0 \in Good
  <2>1. Joins(ss, 0, [i \in 1..0 |-> ss[i]])
    BY DEF Joins
  <2> QED BY <2>1
<1>2. ASSUME NEW m \in Nat, m \in Good PROVE m + 1 \in Good
  <2>1. PICK f : Joins(ss, m, f)
    BY <1>2
  <2> DEFINE g == [i \in 1..(m + 1) |-> IF i = 1 THEN ss[i]
                                        ELSE IF i = m + 1 THEN f[m] \o ss[i] ELSE f[i]]
  <2>2. \A i \in 1..m : g[i] = f[i]
    BY <2>1 DEF Joins
  <2>3. \A i \in 1..(m + 1) : g[i] = IF i = 1 THEN ss[i] ELSE g[i - 1] \o ss[i]
    <3>1. SUFFICES ASSUME NEW i \in 1..(m + 1), i # 1
                   PROVE  g[i] = g[i - 1] \o ss[i]
      OBVIOUS
    <3>2. i - 1 \in 1..m
      BY <3>1
    <3>5. g[i - 1] = f[i - 1]
      BY <3>2, <2>2
    <3>3. CASE i = m + 1
      <4>1. g[i] = f[m] \o ss[i]
        BY <3>1, <3>3, Zenon
      <4>2. i - 1 = m
        BY <3>3
      <4> QED BY <4>1, <4>2, <3>5
    <3>4. CASE i # m + 1
      <4>1. i \in 1..m
        BY <3>4
      <4>2. f[i] = f[i - 1] \o ss[i]
        BY <3>1, <4>1, <2>1 DEF Joins
      <4> QED BY <4>1, <4>2, <3>5, <2>2
    <3> QED BY <3>3, <3>4
  <2> HIDE DEF g
  <2>4. Joins(ss, m + 1, g)
    BY <2>3 DEF Joins, g
  <2> QED BY <2>4
<1> HIDE DEF Good
<1>3. n \in Good
  BY <1>1, <1>2, InductionOnNat
<1> QED BY <1>3 DEF Good

(* What each of several sequences satisfies, and two joined if each does,  *)
(* all of them joined satisfy.                                             *)
LEMMA FlattenIn ==
  ASSUME NEW Good, NEW S, NEW ss \in Seq(S), ss # <<>>,
         \A i \in 1..Len(ss) : ss[i] \in Good,
         \A a, b \in Good : a \o b \in Good
  PROVE  FlattenSeq(ss) \in Good
<1> DEFINE n == Len(ss)
           f == CHOOSE f : Joins(ss, n, f)
           Fine == {m \in Nat : m \in 1..n => f[m] \in Good}
<1>1. n \in Nat /\ n # 0
  OBVIOUS
<1>2. FlattenSeq(ss) = f[n]
  BY <1>1 DEF FlattenSeq, Joins
<1>3. Joins(ss, n, f)
  BY <1>1, JoinsExist
<1> HIDE DEF f
<1>4. \A i \in 1..n : f[i] = IF i = 1 THEN ss[i] ELSE f[i - 1] \o ss[i]
  BY <1>3 DEF Joins
<1>5. 0 \in Fine
  OBVIOUS
<1>6. ASSUME NEW m \in Nat, m \in Fine PROVE m + 1 \in Fine
  <2>1. SUFFICES ASSUME m + 1 \in 1..n PROVE f[m + 1] \in Good
    OBVIOUS
  <2>2. CASE m = 0
    BY <2>1, <2>2, <1>4
  <2>3. CASE m # 0
    <3>1. m \in 1..n /\ f[m] \in Good
      BY <2>1, <2>3, <1>6
    <3>2. f[m + 1] = f[m] \o ss[m + 1]
      <4>1. m + 1 # 1 /\ (m + 1) - 1 = m
        BY <2>3
      <4> QED BY <2>1, <4>1, <1>4
    <3> QED BY <2>1, <3>1, <3>2
  <2> QED BY <2>2, <2>3
<1> HIDE DEF Fine
<1>7. n \in Fine
  BY <1>1, <1>5, <1>6, InductionOnNat
<1> QED BY <1>1, <1>2, <1>7 DEF Fine

(* n tokens of data.                                                       *)
LEMMA DataShape ==
  ASSUME NEW n \in Nat
  PROVE  /\ Data(n) \in Seq(Token) /\ Len(Data(n)) = n
         /\ \A i \in 1..n : Data(n)[i] = [t |-> "data"]
BY DEF Data, Token

(* A chunk: its size, its data, an end of line.                            *)
LEMMA ChunkShape ==
  ASSUME NEW n \in Nat, NEW odd \in BOOLEAN
  PROVE  /\ Chunk(n, odd) \in Seq(Token) /\ Len(Chunk(n, odd)) = n + 2
         /\ Chunk(n, odd)[1] = SizeToken(n, odd)
         /\ \A i \in 2..(n + 1) : Chunk(n, odd)[i] = [t |-> "data"]
         /\ Chunk(n, odd)[n + 2] = [t |-> "crlf"]
<1> DEFINE z == SizeToken(n, odd)
           e == [t |-> "crlf"]
           d == Data(n)
<1>1. z \in Token /\ e \in Token
  BY DEF Token
<1>2. d \in Seq(Token) /\ Len(d) = n /\ \A i \in 1..n : d[i] = [t |-> "data"]
  BY DataShape
<1>3. Chunk(n, odd) = <<z>> \o d \o <<e>>
  BY DEF Chunk, EndOfLine
<1> HIDE DEF z, e, d
<1>4. <<z>> \o d \in Seq(Token) /\ Len(<<z>> \o d) = n + 1
  BY <1>1, <1>2
<1>5. /\ (<<z>> \o d)[1] = z
      /\ \A i \in 2..(n + 1) : (<<z>> \o d)[i] = d[i - 1]
  BY <1>1, <1>2
<1>6. \A i \in 2..(n + 1) : (<<z>> \o d)[i] = [t |-> "data"]
  BY <1>2, <1>5
<1> DEFINE c == <<z>> \o d
<1> HIDE DEF c
<1>7. c \in Seq(Token) /\ Len(c) = n + 1 /\ c[1] = z
      /\ \A i \in 2..(n + 1) : c[i] = [t |-> "data"]
  BY <1>4, <1>5, <1>6 DEF c
<1>8. /\ c \o <<e>> \in Seq(Token) /\ Len(c \o <<e>>) = n + 2
      /\ \A i \in 1..(n + 1) : (c \o <<e>>)[i] = c[i]
      /\ (c \o <<e>>)[n + 2] = e
  BY <1>1, <1>7
<1>9. Chunk(n, odd) = c \o <<e>>
  BY <1>3 DEF c
<1> QED BY <1>7, <1>8, <1>9 DEF z, e

(* What is at position e of s, after the data of a chunk of size n: its    *)
(* end of line and then the size of another; or, if it is the last, a      *)
(* trailer or the end of line that ends s.                                 *)
AtChunkEnd(s, e, n) ==
  IF n = 0 THEN IF s[e].t = "crlf" THEN e = Len(s) ELSE s[e].t = "trailer"
  ELSE s[e].t = "crlf" /\ e < Len(s) /\ s[e + 1].t = "size"

(* In s, after position q, there is the rest of a chunk of size n of which *)
(* c units of data are before q.                                           *)
InChunk(s, q, n, c) ==
  /\ n \in Nat /\ c \in 0..n /\ q + (n - c) + 1 <= Len(s)
  /\ \A i \in 1..(n - c) : s[q + i].t = "data"
  /\ AtChunkEnd(s, q + (n - c) + 1, n)

WellChunked(s) ==
  /\ s # <<>> /\ s[1].t = "size"
  /\ \A q \in 1..Len(s) : s[q].t # "head"
  /\ \A q \in 1..Len(s) : s[q].t = "size" => InChunk(s, q, s[q].k, 0)

(* Chunks before the last.                                                 *)
Chunked ==
  {s \in Seq(Token) :
     /\ s # <<>> /\ s[1].t = "size"
     /\ \A q \in 1..Len(s) : s[q].t # "head"
     /\ \A q \in 1..Len(s) : s[q].t = "size" =>
          /\ s[q].k \in Nat \ {0} /\ q + s[q].k + 1 <= Len(s)
          /\ \A i \in 1..s[q].k : s[q + i].t = "data"
          /\ s[q + s[q].k + 1].t = "crlf"
          /\ q + s[q].k + 2 <= Len(s) => s[q + s[q].k + 2].t = "size"}

LEMMA ChunkChunked ==
  ASSUME NEW n \in Nat \ {0}, NEW odd \in BOOLEAN
  PROVE  Chunk(n, odd) \in Chunked
<1> DEFINE s == Chunk(n, odd)
<1>1. /\ s \in Seq(Token) /\ Len(s) = n + 2
      /\ s[1] = SizeToken(n, odd)
      /\ \A i \in 2..(n + 1) : s[i] = [t |-> "data"]
      /\ s[n + 2] = [t |-> "crlf"]
  BY ChunkShape
<1> HIDE DEF s
<1>2. s # <<>> /\ s[1].t = "size" /\ s[1].k = n /\ s[n + 2].t = "crlf"
  BY <1>1 DEF SizeToken
<1>3. \A i \in 2..(n + 1) : s[i].t = "data"
  BY <1>1
<1>4. \A q \in 1..Len(s) : s[q].t # "head" /\ (s[q].t = "size" => q = 1)
  <2>1. ASSUME NEW q \in 1..Len(s) PROVE q = 1 \/ q \in 2..(n + 1) \/ q = n + 2
    BY <1>1
  <2> QED BY <2>1, <1>2, <1>3
<1>5. \A i \in 1..n : s[1 + i].t = "data"
  BY <1>3
<1>6. s \in Chunked
  BY <1>1, <1>2, <1>4, <1>5 DEF Chunked
<1> QED BY <1>6 DEF s

(* The positions of two sequences joined.                                  *)
LEMMA JoinShape ==
  ASSUME NEW S, NEW a \in Seq(S), NEW b \in Seq(S)
  PROVE  /\ a \o b \in Seq(S) /\ Len(a \o b) = Len(a) + Len(b)
         /\ \A i \in 1..Len(a) : (a \o b)[i] = a[i]
         /\ \A i \in 1..Len(b) : (a \o b)[Len(a) + i] = b[i]
OBVIOUS

LEMMA JoinChunked ==
  ASSUME NEW a \in Chunked, NEW b \in Chunked
  PROVE  a \o b \in Chunked
<1> DEFINE s == a \o b
<1>1. a \in Seq(Token) /\ b \in Seq(Token) /\ a # <<>> /\ b # <<>>
  BY DEF Chunked
<1>2. /\ s \in Seq(Token) /\ Len(s) = Len(a) + Len(b)
      /\ \A i \in 1..Len(a) : s[i] = a[i]
      /\ \A i \in 1..Len(b) : s[Len(a) + i] = b[i]
  BY <1>1, JoinShape
<1> HIDE DEF s
<1>3. Len(a) \in Nat \ {0} /\ Len(b) \in Nat \ {0}
  BY <1>1
<1>4. s # <<>> /\ s[1].t = "size"
  <2>1. 1 \in 1..Len(a) /\ a[1].t = "size" /\ Len(s) # 0
    BY <1>2, <1>3 DEF Chunked
  <2>2. s[1] = a[1]
    BY <2>1, <1>2
  <2> QED BY <2>1, <2>2, <1>2
<1>5. s[Len(a) + 1].t = "size"
  BY <1>2, <1>3 DEF Chunked
<1>6. ASSUME NEW q \in 1..Len(s), s[q].t = "size"
      PROVE  /\ s[q].k \in Nat \ {0} /\ q + s[q].k + 1 <= Len(s)
             /\ \A i \in 1..s[q].k : s[q + i].t = "data"
             /\ s[q + s[q].k + 1].t = "crlf"
             /\ q + s[q].k + 2 <= Len(s) => s[q + s[q].k + 2].t = "size"
  <2>1. CASE q <= Len(a)
    <3>1. q \in 1..Len(a) /\ s[q] = a[q]
      BY <1>2, <1>3, <2>1
    <3>2. PICK n : n = a[q].k
      OBVIOUS
    <3>3. /\ n \in Nat \ {0} /\ q + n + 1 <= Len(a)
          /\ \A i \in 1..n : a[q + i].t = "data"
          /\ a[q + n + 1].t = "crlf"
          /\ q + n + 2 <= Len(a) => a[q + n + 2].t = "size"
      BY <1>6, <3>1, <3>2 DEF Chunked
    <3>4. \A i \in 1..n : s[q + i].t = "data"
      <4>1. \A i \in 1..n : q + i \in 1..Len(a)
        BY <3>1, <3>3, <1>3
      <4> QED BY <4>1, <3>3, <1>2
    <3>5. s[q + n + 1].t = "crlf"
      <4>1. q + n + 1 \in 1..Len(a)
        BY <3>1, <3>3, <1>3
      <4> QED BY <4>1, <3>3, <1>2
    <3>6. q + n + 2 <= Len(s) => s[q + n + 2].t = "size"
      <4>1. CASE q + n + 2 <= Len(a)
        <5>1. q + n + 2 \in 1..Len(a)
          BY <4>1, <3>1, <3>3, <1>3
        <5> QED BY <5>1, <3>3, <4>1, <1>2
      <4>2. CASE ~(q + n + 2 <= Len(a))
        <5>1. q + n + 2 = Len(a) + 1
          BY <4>2, <3>1, <3>3, <1>3
        <5> QED BY <5>1, <1>5
      <4> QED BY <4>1, <4>2
    <3>7. s[q].k = n /\ q + n + 1 <= Len(s)
      BY <3>1, <3>2, <3>3, <1>2, <1>3
    <3> QED BY <3>3, <3>4, <3>5, <3>6, <3>7
  <2>2. CASE ~(q <= Len(a))
    <3>1. PICK p \in 1..Len(b) : q = Len(a) + p
      <4>1. q - Len(a) \in 1..Len(b) /\ q = Len(a) + (q - Len(a))
        BY <1>2, <1>3, <2>2
      <4> QED BY <4>1
    <3>2. s[q] = b[p]
      BY <3>1, <1>2
    <3>3. PICK n : n = b[p].k
      OBVIOUS
    <3>4. /\ n \in Nat \ {0} /\ p + n + 1 <= Len(b)
          /\ \A i \in 1..n : b[p + i].t = "data"
          /\ b[p + n + 1].t = "crlf"
          /\ p + n + 2 <= Len(b) => b[p + n + 2].t = "size"
      BY <1>6, <3>1, <3>2, <3>3 DEF Chunked
    <3>5. \A i \in 1..n : s[q + i].t = "data"
      <4>1. \A i \in 1..n : p + i \in 1..Len(b) /\ q + i = Len(a) + (p + i)
        BY <3>1, <3>4, <1>3
      <4> QED BY ZenonT(60), <4>1, <3>4, <1>2
    <3>6. s[q + n + 1].t = "crlf"
      <4>1. p + n + 1 \in 1..Len(b) /\ q + n + 1 = Len(a) + (p + n + 1)
        BY <3>1, <3>4, <1>3
      <4> QED BY <4>1, <3>4, <1>2
    <3>7. q + n + 2 <= Len(s) => s[q + n + 2].t = "size"
      <4>1. SUFFICES ASSUME q + n + 2 <= Len(s) PROVE s[q + n + 2].t = "size"
        OBVIOUS
      <4>2. p + n + 2 \in 1..Len(b) /\ q + n + 2 = Len(a) + (p + n + 2)
        BY <4>1, <3>1, <3>4, <1>2, <1>3
      <4>3. b[p + n + 2].t = "size"
        BY <4>2, <3>4
      <4> QED BY <4>2, <4>3, <1>2
    <3>8. s[q].k = n /\ q + n + 1 <= Len(s)
      BY SMTT(60), <3>1, <3>2, <3>3, <3>4, <1>2, <1>3
    <3> QED BY <3>4, <3>5, <3>6, <3>7, <3>8
  <2> QED BY <2>1, <2>2
<1>7. ASSUME NEW q \in 1..Len(s) PROVE s[q].t # "head"
  <2>1. CASE q <= Len(a)
    <3>1. q \in 1..Len(a) /\ s[q] = a[q]
      BY <1>2, <1>3, <2>1
    <3> QED BY <3>1 DEF Chunked
  <2>2. CASE ~(q <= Len(a))
    <3>1. q - Len(a) \in 1..Len(b) /\ q = Len(a) + (q - Len(a))
      BY <1>2, <1>3, <2>2
    <3>2. s[q] = b[q - Len(a)]
      BY <3>1, <1>2
    <3> QED BY <3>1, <3>2 DEF Chunked
  <2> QED BY <2>1, <2>2
<1>8. s \in Chunked
  BY <1>2, <1>4, <1>6, <1>7 DEF Chunked
<1> QED BY <1>8 DEF s

(* All the chunks of a body, before the last one.                          *)
LEMMA ChunksChunked ==
  ASSUME NEW c \in Seq(Nat \ {0}), NEW odd
  PROVE  LET s == FlattenSeq([i \in DOMAIN c |-> Chunk(c[i], i \in odd)])
         IN s = <<>> \/ s \in Chunked
<1> DEFINE ss == [i \in DOMAIN c |-> Chunk(c[i], i \in odd)]
<1>1. ASSUME NEW i \in 1..Len(c) PROVE Chunk(c[i], i \in odd) \in Chunked
  <2>1. c[i] \in Nat \ {0} /\ (i \in odd) \in BOOLEAN
    OBVIOUS
  <2> QED BY <2>1, ChunkChunked
<1>2. ss \in Seq(Chunked) /\ Len(ss) = Len(c) /\ \A i \in 1..Len(ss) : ss[i] \in Chunked
  BY SMTT(60), <1>1
<1> HIDE DEF ss
<1>3. CASE ss = <<>>
  <2>1. FlattenSeq(ss) = <<>>
    BY <1>3 DEF FlattenSeq
  <2> QED BY <2>1 DEF ss
<1>4. CASE ss # <<>>
  <2>1. FlattenSeq(ss) \in Chunked
    BY <1>2, <1>4, JoinChunked, FlattenIn
  <2> QED BY <2>1 DEF ss
<1> QED BY <1>3, <1>4

(* The last chunk, a trailer if there is one, and the end of line make a   *)
(* body of them.                                                           *)
Trailer(trailer) == IF trailer THEN <<[t |-> "trailer"]>> ELSE <<>>
LastChunk(odd, trailer) == <<SizeToken(0, odd)>> \o Trailer(trailer) \o EndOfLine

LEMMA LastChunkShape ==
  ASSUME NEW odd \in BOOLEAN, NEW trailer \in BOOLEAN
  PROVE  /\ LastChunk(odd, trailer) \in Seq(Token)
         /\ LastChunk(odd, trailer)[1] = SizeToken(0, odd)
         /\ IF trailer THEN /\ Len(LastChunk(odd, trailer)) = 3
                            /\ LastChunk(odd, trailer)[2] = [t |-> "trailer"]
                            /\ LastChunk(odd, trailer)[3] = [t |-> "crlf"]
            ELSE /\ Len(LastChunk(odd, trailer)) = 2
                 /\ LastChunk(odd, trailer)[2] = [t |-> "crlf"]
<1> DEFINE z == SizeToken(0, odd)
           f == [t |-> "trailer"]
           e == [t |-> "crlf"]
<1>1. z \in Token /\ f \in Token /\ e \in Token
  BY DEF Token
<1>2. LastChunk(odd, trailer) = <<z>> \o (IF trailer THEN <<f>> ELSE <<>>) \o <<e>>
  BY DEF LastChunk, Trailer, EndOfLine
<1> HIDE DEF z, f, e
<1>3. CASE trailer
  <2>1. PICK b : b = <<z>> \o <<f>>
    OBVIOUS
  <2>2. b \in Seq(Token) /\ Len(b) = 2 /\ b[1] = z /\ b[2] = f
    BY <1>1, <2>1
  <2>3. LastChunk(odd, trailer) = b \o <<e>>
    BY <1>2, <1>3, <2>1
  <2>4. /\ b \o <<e>> \in Seq(Token) /\ Len(b \o <<e>>) = 3
        /\ (b \o <<e>>)[1] = z /\ (b \o <<e>>)[2] = f /\ (b \o <<e>>)[3] = e
    <3>0. <<e>> \in Seq(Token) /\ Len(<<e>>) = 1 /\ <<e>>[1] = e
      BY <1>1
    <3>1. PICK c : c = <<e>> /\ c \in Seq(Token) /\ Len(c) = 1 /\ c[1] = e
      BY <3>0
    <3>4. b \in Seq(Token) /\ c \in Seq(Token)
      BY <2>2, <3>1
    <3>2. /\ b \o c \in Seq(Token) /\ Len(b \o c) = Len(b) + Len(c)
          /\ \A i \in 1..Len(b) : (b \o c)[i] = b[i]
          /\ \A i \in 1..Len(c) : (b \o c)[Len(b) + i] = c[i]
      BY ONLY <3>4, SMTT(30)
    <3>3. Len(b \o c) = 3 /\ 1 \in 1..Len(b) /\ 2 \in 1..Len(b) /\ 1 \in 1..Len(c) /\ Len(b) + 1 = 3
      BY <2>2, <3>1, <3>2
    <3> QED BY <2>2, <3>1, <3>2, <3>3
  <2> QED BY <1>3, <2>3, <2>4 DEF z, f, e
<1>4. CASE ~trailer
  <2>1. <<z>> \o <<>> = <<z>>
    BY <1>1
  <2>2. LastChunk(odd, trailer) = <<z>> \o <<e>>
    BY <1>2, <1>4, <2>1
  <2>3. /\ <<z>> \o <<e>> \in Seq(Token) /\ Len(<<z>> \o <<e>>) = 2
        /\ (<<z>> \o <<e>>)[1] = z /\ (<<z>> \o <<e>>)[2] = e
    BY <1>1
  <2> QED BY <1>4, <2>2, <2>3 DEF z, e
<1> QED BY <1>3, <1>4

LEMMA BodyWellChunked ==
  ASSUME NEW a, a = <<>> \/ a \in Chunked, NEW odd \in BOOLEAN, NEW trailer \in BOOLEAN
  PROVE  /\ a \o LastChunk(odd, trailer) \in Seq(Token)
         /\ WellChunked(a \o LastChunk(odd, trailer))
<1> DEFINE s == a \o LastChunk(odd, trailer)
           n == Len(a)
<1>1. a \in Seq(Token)
  <2>1. <<>> \in Seq(Token)
    OBVIOUS
  <2> QED BY <2>1 DEF Chunked
<1> HIDE DEF n, s
<1>l. PICK z \in Seq(Token) :
        /\ z = LastChunk(odd, trailer) /\ Len(z) \in 2..3
        /\ z[1].t = "size" /\ z[1].k = 0
        /\ Len(z) = 2 => z[2].t = "crlf"
        /\ Len(z) = 3 => z[2].t = "trailer" /\ z[3].t = "crlf"
  <2>1. PICK z : z = LastChunk(odd, trailer)
    OBVIOUS
  <2>2. /\ z \in Seq(Token) /\ z[1] = SizeToken(0, odd)
        /\ IF trailer THEN Len(z) = 3 /\ z[2] = [t |-> "trailer"] /\ z[3] = [t |-> "crlf"]
           ELSE Len(z) = 2 /\ z[2] = [t |-> "crlf"]
    BY <2>1, LastChunkShape
  <2>3. z[1].t = "size" /\ z[1].k = 0
    BY <2>2 DEF SizeToken
  <2>4. /\ Len(z) = 2 \/ Len(z) = 3
        /\ Len(z) = 2 => z[2].t = "crlf"
        /\ Len(z) = 3 => z[2].t = "trailer" /\ z[3].t = "crlf"
    <3>1. CASE trailer
      BY <2>2, <3>1
    <3>2. CASE ~trailer
      BY <2>2, <3>2
    <3> QED BY <3>1, <3>2
  <2> QED BY <2>1, <2>2, <2>3, <2>4
<1>2. /\ s \in Seq(Token) /\ Len(s) = n + Len(z)
      /\ \A i \in 1..n : s[i] = a[i]
      /\ \A i \in 1..Len(z) : s[n + i] = z[i]
  BY <1>1, <1>l, JoinShape DEF n, s
<1>3. n \in Nat
  BY <1>1 DEF n
<1>n. n # 0 => a # <<>>
  BY DEF n
<1>4. /\ s[n + 1].t = "size" /\ s[n + 1].k = 0
      /\ Len(z) = 2 => s[n + 2].t = "crlf"
      /\ Len(z) = 3 => s[n + 2].t = "trailer" /\ s[n + 3].t = "crlf"
  <2>1. s[n + 1] = z[1] /\ s[n + 2] = z[2] /\ (Len(z) = 3 => s[n + 3] = z[3])
    BY <1>2, <1>l
  <2> QED BY <2>1, <1>l
<1>h. ASSUME NEW q \in 1..Len(s) PROVE s[q].t # "head" /\ (s[q].t = "size" => q <= n + 1)
  <2>1. CASE q <= n
    <3>1. q \in 1..n /\ s[q] = a[q] /\ a \in Chunked
      BY <1>2, <1>3, <1>n, <2>1 DEF n
    <3> QED BY <3>1, <2>1, <1>3 DEF Chunked, n
  <2>2. CASE ~(q <= n)
    <3>2. Len(z) = 2 \/ Len(z) = 3
      BY <1>l
    <3>4. q \in Int /\ q <= n + Len(z)
      BY <1>2, <1>3, <3>2
    <3>1. q = n + 1 \/ q = n + 2 \/ (Len(z) = 3 /\ q = n + 3)
      <4>1. CASE Len(z) = 2
        BY <1>3, <2>2, <3>4, <4>1
      <4>2. CASE Len(z) = 3
        BY <1>3, <2>2, <3>4, <4>2
      <4> QED BY <3>2, <4>1, <4>2
    <3>3. s[q].t # "head" /\ (q # n + 1 => s[q].t # "size")
      BY <3>1, <3>2, <1>4
    <3> QED BY <3>3, <1>3
  <2> QED BY <2>1, <2>2
<1>5. s # <<>> /\ s[1].t = "size"
  <2>1. CASE a = <<>>
    <3>2. n = 0
      BY <1>3, <1>n, <2>1 DEF n
    <3>3. n + 1 = 1 /\ Len(s) # 0
      BY <3>2, <1>2, <1>l
    <3>4. s # <<>>
      BY <3>3, <1>2
    <3> QED BY <3>3, <3>4, <1>4
  <2>2. CASE a # <<>>
    <3>1. 1 \in 1..n /\ a[1].t = "size"
      BY <2>2, <1>1 DEF Chunked, n
    <3>2. s[1] = a[1] /\ Len(s) # 0
      BY <3>1, <1>2, <1>3, <1>l
    <3> QED BY <3>1, <3>2
  <2> QED BY <2>1, <2>2
<1>6. ASSUME NEW q \in 1..Len(s), s[q].t = "size" PROVE InChunk(s, q, s[q].k, 0)
  <2>1. CASE q <= n
    <3>1. q \in 1..n /\ s[q] = a[q] /\ a \in Chunked
      BY <1>2, <1>3, <2>1 DEF n
    <3>2. PICK m : m = a[q].k
      OBVIOUS
    <3>3. /\ m \in Nat \ {0} /\ q + m + 1 <= n
          /\ \A i \in 1..m : a[q + i].t = "data"
          /\ a[q + m + 1].t = "crlf"
          /\ q + m + 2 <= n => a[q + m + 2].t = "size"
      BY <1>6, <3>1, <3>2 DEF Chunked, n
    <3>4. \A i \in 1..m : s[q + i].t = "data"
      <4>1. \A i \in 1..m : q + i \in 1..n
        BY <3>1, <3>3, <1>3
      <4> QED BY <4>1, <3>3, <1>2
    <3>5. s[q + m + 1].t = "crlf"
      <4>1. q + m + 1 \in 1..n
        BY <3>1, <3>3, <1>3
      <4> QED BY <4>1, <3>3, <1>2
    <3>6. s[q + m + 2].t = "size"
      <4>1. CASE q + m + 2 <= n
        <5>1. q + m + 2 \in 1..n
          BY <4>1, <3>1, <3>3, <1>3
        <5> QED BY <5>1, <4>1, <3>3, <1>2
      <4>2. CASE ~(q + m + 2 <= n)
        <5>1. q + m + 2 = n + 1
          BY <4>2, <3>1, <3>3, <1>3
        <5> QED BY <5>1, <1>4
      <4> QED BY <4>1, <4>2
    <3>7. /\ 0 \in 0..m /\ m - 0 = m /\ q + m + 1 <= Len(s) /\ q + m + 2 <= Len(s) /\ m # 0
      BY <3>1, <3>3, <1>2, <1>3, <1>l
    <3>8. InChunk(s, q, m, 0)
      <4>1. AtChunkEnd(s, q + m + 1, m)
        <5>1. (q + m + 1) + 1 = q + m + 2 /\ q + m + 1 < Len(s)
          BY <3>1, <3>3, <3>7, <1>2, <1>3, <1>l
        <5> QED BY <5>1, <3>5, <3>6, <3>7 DEF AtChunkEnd
      <4> QED BY <3>3, <3>4, <3>7, <4>1 DEF InChunk
    <3> QED BY <3>1, <3>2, <3>8
  <2>2. CASE ~(q <= n)
    <3>1. q = n + 1
      BY <2>2, <1>h, <1>3, <1>6
    <3>2. InChunk(s, n + 1, 0, 0)
      <4>1. (n + 1) + (0 - 0) + 1 = n + 2 /\ (n + 1) + 1 = n + 2 /\ 0 \in 0..0 /\ n + 2 <= Len(s)
        BY <1>2, <1>3, <1>l
      <4>2. IF s[n + 2].t = "crlf" THEN n + 2 = Len(s) ELSE s[n + 2].t = "trailer"
        <5>1. CASE Len(z) = 2
          BY <5>1, <1>2, <1>4
        <5>2. CASE Len(z) = 3
          BY <5>2, <1>4
        <5> QED BY <5>1, <5>2, <1>l
      <4> QED BY <4>1, <4>2 DEF InChunk, AtChunkEnd
    <3> QED BY <3>1, <3>2, <1>4
  <2> QED BY <2>1, <2>2
<1>7. WellChunked(s)
  BY <1>5, <1>6, <1>h DEF WellChunked
<1> QED BY <1>2, <1>7 DEF s

(* What a head says is what the menus say.                                 *)
LEMMA HeadType ==
  ASSUME NEW r \in Responses
  PROVE  /\ ContentLength(r) \in Nat \cup {-1}
         /\ TransferEncoding(r) # <<>> => ContentLength(r) = -1
         /\ r.chunks \in Seq(Nat \ {0}) /\ r.extent \in Nat
         /\ r.coding \in Seq({"chunked", "gzip"})
         /\ r.trailer \in BOOLEAN
BY MenuAssumption DEF Responses, ContentLength

LEMMA TokenKinds ==
  ASSUME NEW x \in Token
  PROVE  /\ x.t = "size" => x.k \in Nat
         /\ x.t = "head" => x.r \in Responses /\ x = HeadToken(x.r)
<1>1. ASSUME NEW r \in Responses, x = HeadToken(r)
      PROVE  x.t = "head" /\ x.r = r
  BY <1>1 DEF HeadToken
<1>2. ASSUME NEW n \in Nat, NEW odd \in BOOLEAN, x = SizeToken(n, odd)
      PROVE  x.t = "size" /\ x.k = n
  BY <1>2 DEF SizeToken
<1> QED BY <1>1, <1>2 DEF Token

(* A body in chunks.                                                       *)
LEMMA ChunkedBody ==
  ASSUME NEW r \in Responses, ~NoBodyStatus(r), IsChunked(r), ~Tunnel(r)
  PROVE  BodyTokens(r) \in Seq(Token) /\ WellChunked(BodyTokens(r))
<1> DEFINE a == FlattenSeq([i \in DOMAIN r.chunks |-> Chunk(r.chunks[i], i \in r.odd)])
           odd == Len(r.chunks) + 1 \in r.odd
           z == <<SizeToken(0, odd)>>
           t == Trailer(r.trailer)
           e == <<[t |-> "crlf"]>>
<1>0. odd \in BOOLEAN /\ r.trailer \in BOOLEAN
  BY HeadType
<1>1. a = <<>> \/ a \in Chunked
  BY HeadType, ChunksChunked
<1>2. BodyTokens(r) = a \o z \o t \o e
  BY DEF BodyTokens, EndOfLine, Trailer
<1>3. a \in Seq(Token)
  <2>1. <<>> \in Seq(Token)
    OBVIOUS
  <2> HIDE DEF a
  <2> QED BY <1>1, <2>1 DEF Chunked
<1>4. z \in Seq(Token) /\ t \in Seq(Token) /\ e \in Seq(Token)
  <2>1. SizeToken(0, odd) \in Token /\ [t |-> "trailer"] \in Token /\ [t |-> "crlf"] \in Token
    <3> HIDE DEF odd
    <3> QED BY <1>0 DEF Token
  <2> QED BY <2>1 DEF Trailer
<1>5. LastChunk(odd, r.trailer) = z \o t \o e
  BY DEF LastChunk, EndOfLine
<1>6. a \o LastChunk(odd, r.trailer) \in Seq(Token) /\ WellChunked(a \o LastChunk(odd, r.trailer))
  <2> HIDE DEF a, odd
  <2> QED BY <1>0, <1>1, BodyWellChunked
<1> HIDE DEF a, odd, z, t, e
<1>7. a \o z \o t \o e = a \o (z \o t \o e)
  <2>1. a \o z \o t = a \o (z \o t)
    BY SMTT(60), <1>3, <1>4
  <2> DEFINE u == z \o t
  <2>2. u \in Seq(Token)
    BY <1>4
  <2> HIDE DEF u
  <2>3. (a \o u) \o e = a \o (u \o e)
    BY SMTT(60), <1>3, <1>4, <2>2
  <2> QED BY <2>1, <2>3 DEF u
<1> QED BY <1>2, <1>5, <1>6, <1>7

(* Any body is a sequence of tokens.                                       *)
LEMMA BodyType ==
  ASSUME NEW r \in Responses
  PROVE  BodyTokens(r) \in Seq(Token)
<1>1. r.extent \in Nat
  BY HeadType
<1>2. <<>> \in Seq(Token)
  OBVIOUS
<1>3. CASE NoBodyStatus(r)
  BY <1>2, <1>3 DEF BodyTokens
<1>4. CASE ~NoBodyStatus(r) /\ ~(IsChunked(r) /\ ~Tunnel(r))
  BY <1>1, <1>4, DataShape DEF BodyTokens
<1>5. CASE ~NoBodyStatus(r) /\ IsChunked(r) /\ ~Tunnel(r)
  BY <1>5, ChunkedBody
<1> QED BY <1>3, <1>4, <1>5

LEMMA MessageType ==
  ASSUME NEW r \in Responses
  PROVE  /\ Message(r) \in Seq(Token) /\ Len(Message(r)) = Len(BodyTokens(r)) + 1
         /\ Message(r)[1] = HeadToken(r)
         /\ \A i \in 1..Len(BodyTokens(r)) : Message(r)[1 + i] = BodyTokens(r)[i]
<1> DEFINE h == HeadToken(r)
           s == BodyTokens(r)
<1>1. h \in Token /\ s \in Seq(Token)
  BY BodyType DEF Token
<1>2. Message(r) = <<h>> \o s
  BY DEF Message
<1> HIDE DEF h, s
<1>3. /\ <<h>> \o s \in Seq(Token) /\ Len(<<h>> \o s) = Len(s) + 1
      /\ (<<h>> \o s)[1] = h
      /\ \A i \in 1..Len(s) : (<<h>> \o s)[1 + i] = s[i]
  BY <1>1
<1> QED BY <1>2, <1>3 DEF h, s

(* The body after a head that readHeader accepts, by the reader that       *)
(* readResponse sets up.                                                   *)
LEMMA FramedBody ==
  ASSUME NEW r \in Responses, Framed(r), ~Refused(r)
  PROVE  /\ TransferEncoding(r) # <<>> => WellChunked(BodyTokens(r))
         /\ ContentLength(r) > 0 =>
              /\ Len(BodyTokens(r)) = ContentLength(r)
              /\ \A i \in 1..Len(BodyTokens(r)) : BodyTokens(r)[i].t = "data"
         /\ ContentLength(r) = 0 => BodyTokens(r) = <<>>
<1>1. /\ r.coding \in Seq({"chunked", "gzip"}) /\ r.extent \in Nat
      /\ r.length \in Nat \cup {-1}
  BY HeadType, MenuAssumption DEF Responses
<1>2. CASE TransferEncoding(r) # <<>>
  <2>1. /\ ~Tunnel(r) /\ TransferEncoding(r) = r.coding /\ r.coding # <<>>
        /\ ContentLength(r) = -1
    BY <1>2 DEF TransferEncoding, ContentLength
  <2>2. ~NoBodyStatus(r)
    BY <2>1 DEF Framed
  <2>3. IsChunked(r)
    <3>1. "gzip" \notin ToSet(r.coding)
      BY <2>1 DEF Refused
    <3>2. Len(r.coding) \in DOMAIN r.coding /\ r.coding[Len(r.coding)] \in {"chunked", "gzip"}
      BY <1>1, <2>1
    <3>3. r.coding[Len(r.coding)] = "chunked"
      BY <3>1, <3>2 DEF ToSet
    <3> QED BY <3>3, <2>1 DEF IsChunked, Last
  <2> QED BY <2>1, <2>2, <2>3, ChunkedBody
<1>3. CASE TransferEncoding(r) = <<>>
  <2>1. CASE Tunnel(r) \/ ContentLength(r) = -1
    BY <1>3, <2>1 DEF ContentLength
  <2>2. CASE ~Tunnel(r) /\ NoBodyStatus(r)
    BY <1>3, <2>2 DEF ContentLength, BodyTokens
  <2>3. CASE ~Tunnel(r) /\ ~NoBodyStatus(r) /\ ContentLength(r) # -1
    <3>1. ContentLength(r) = r.length /\ r.length # -1
      BY <1>3, <2>3 DEF ContentLength
    <3>2. r.coding = <<>>
      BY <1>3, <2>3 DEF TransferEncoding, Framed
    <3>3. r.extent = r.length
      BY <2>3, <3>1, <3>2 DEF Framed, UntilClose
    <3>4. BodyTokens(r) = Data(r.extent)
      BY <2>3, <3>2 DEF BodyTokens, IsChunked
    <3>5. /\ Data(r.extent) \in Seq(Token) /\ Len(Data(r.extent)) = r.extent
          /\ \A i \in 1..r.extent : Data(r.extent)[i].t = "data"
      <4>1. PICK n \in Nat : n = r.extent
        BY <1>1
      <4>2. /\ Data(n) \in Seq(Token) /\ Len(Data(n)) = n
            /\ \A i \in 1..n : Data(n)[i] = [t |-> "data"]
        BY DataShape
      <4>3. \A i \in 1..n : Data(n)[i].t = "data"
        BY <4>2
      <4> QED BY <4>1, <4>2, <4>3
    <3>6. r.extent = 0 => Data(r.extent) = <<>>
      BY <3>5
    <3> QED BY <1>3, <3>1, <3>3, <3>4, <3>5, <3>6
  <2> QED BY <2>1, <2>2, <2>3
<1> QED BY <1>2, <1>3

-----------------------------------------------------------------------------
(* Steps. What a reader takes from the wire, it takes from its front.      *)

LEMMA MinOfTwo ==
  ASSUME NEW a \in Int, NEW b \in Int
  PROVE  Min({a, b}) = IF a <= b THEN a ELSE b
<1>1. \E x \in {a, b} : \A y \in {a, b} : x <= y
  OBVIOUS
<1> QED BY <1>1 DEF Min

LEMMA MaxOfTwo ==
  ASSUME NEW a \in Int, NEW b \in Int
  PROVE  Max({a, b}) = IF a >= b THEN a ELSE b
<1>1. \E x \in {a, b} : \A y \in {a, b} : x >= y
  OBVIOUS
<1> QED BY <1>1 DEF Max

LEMMA MinOfThree ==
  ASSUME NEW a \in Int, NEW b \in Int, NEW c \in Int
  PROVE  /\ Min({a, b, c}) \in Int
         /\ Min({a, b, c}) <= a /\ Min({a, b, c}) <= b /\ Min({a, b, c}) <= c
<1>1. \E x \in {a, b, c} : \A y \in {a, b, c} : x <= y
  <2>1. CASE a <= b /\ a <= c
    BY <2>1
  <2>2. CASE b <= a /\ b <= c
    BY <2>2
  <2>3. CASE c <= a /\ c <= b
    BY <2>3
  <2> QED BY <2>1, <2>2, <2>3
<1> DEFINE m == Min({a, b, c})
<1>2. m \in {a, b, c} /\ \A y \in {a, b, c} : m <= y
  BY <1>1 DEF Min
<1> HIDE DEF m
<1>3. m \in Int /\ m <= a /\ m <= b /\ m <= c
  BY <1>2
<1> QED BY <1>3 DEF m

LEMMA ClipBounds ==
  ASSUME remaining \in Nat \cup {-1}, NEW b \in 1..MaxRead
  PROVE  /\ Clip(b) \in Nat \ {0} /\ Clip(b) <= b
         /\ remaining > 0 => Clip(b) <= remaining
BY MenuAssumption, MinOfTwo DEF Clip

LEMMA FillsBound ==
  ASSUME buffered \in Nat, NEW n \in Nat
  PROVE  FillsFrom(n) \in Nat
BY MaxOfTwo DEF FillsFrom

(* The first n tokens of the wire are read.                                *)
Drops(n) ==
  /\ n \in 0..Len(wire)
  /\ wire' \in Seq(Token) /\ Len(wire') = Len(wire) - n
  /\ \A i \in 1..(Len(wire) - n) : wire'[i] = wire[n + i]

LEMMA SuffixShape ==
  ASSUME NEW s \in Seq(Token), NEW n \in 0..Len(s)
  PROVE  /\ SubSeq(s, n + 1, Len(s)) \in Seq(Token)
         /\ Len(SubSeq(s, n + 1, Len(s))) = Len(s) - n
         /\ \A i \in 1..(Len(s) - n) : SubSeq(s, n + 1, Len(s))[i] = s[n + i]
OBVIOUS

LEMMA TailShape ==
  ASSUME NEW s \in Seq(Token), s # <<>>
  PROVE  /\ Tail(s) \in Seq(Token) /\ Len(Tail(s)) = Len(s) - 1
         /\ \A i \in 1..(Len(s) - 1) : Tail(s)[i] = s[i + 1]
         /\ Head(s) = s[1] /\ Head(s) \in Token /\ Len(s) \in Nat \ {0}
OBVIOUS

Typed ==
  /\ TypeOK /\ wire \in Seq(Token)
  /\ phase = "body" => \E r \in Responses : cur = <<r>>

(* A call of chunkedReader.Read that finds what it needs: h tokens of a    *)
(* size line, k of data, then the end of line if the chunk ends.           *)
LEMMA ChunkedTakes ==
  ASSUME Typed, NEW b \in 1..MaxRead, ReadChunked(b)
  PROVE  \E h \in 0..1, k \in Nat :
           /\ h = (IF size = -1 THEN 1 ELSE 0) /\ SizeNow \in Nat
           /\ SizeNow = (IF size = -1 THEN wire[1].k ELSE size)
           /\ size = -1 => wire # <<>> /\ wire[1].t = "size"
           /\ h + k <= Len(wire) /\ k <= SizeNow - count /\ k <= Clip(b)
           /\ SizeNow # 0 => k > 0
           /\ Took(k)
           /\ \/ /\ count + k < SizeNow
                 /\ count' = count + k /\ size' = SizeNow /\ end' = end
                 /\ Drops(h + k)
              \/ /\ count + k = SizeNow
                 /\ h + k < Len(wire) /\ wire[h + k + 1].t = "crlf"
                 /\ count' = 0
                 /\ size' = IF SizeNow = 0 THEN 0 ELSE -1
                 /\ end' = IF SizeNow = 0 THEN "eof" ELSE end
                 /\ Drops(h + k + 1)
              \/ /\ count + k = SizeNow
                 /\ IF h + k = Len(wire) THEN ~open ELSE wire[h + k + 1].t # "crlf"
                 /\ count' = count + k /\ size' = SizeNow /\ end' = "error"
                 /\ Drops(h + k)
<1>t. wire \in Seq(Token) /\ size \in Nat \cup {-1} /\ count \in Nat /\ remaining \in Nat \cup {-1}
  BY DEF Typed, TypeOK
<1> DEFINE h == IF size = -1 THEN 1 ELSE 0
           a == AfterSize
<1>1. size = -1 => wire # <<>> /\ wire[1].t = "size"
  <2>1. SUFFICES ASSUME size = -1 PROVE wire # <<>> /\ wire[1].t = "size"
    OBVIOUS
  <2>2. wire # <<>> /\ Head(wire).t = "size"
    BY <2>1 DEF ReadChunked, NeedsSize, SizeLine
  <2> QED BY <2>2, <1>t, TailShape
<1>2. SizeNow \in Nat /\ SizeNow = (IF size = -1 THEN wire[1].k ELSE size)
  <2>1. CASE size = -1
    <3>1. wire[1] \in Token /\ Head(wire) = wire[1]
      BY <1>1, <1>t, <2>1, TailShape
    <3>2. wire[1].k \in Nat
      BY <3>1, <1>1, <2>1, TokenKinds
    <3> QED BY <3>1, <3>2, <2>1 DEF SizeNow, NeedsSize
  <2> QED BY <2>1, <1>t DEF SizeNow, NeedsSize
<1>3. /\ h \in 0..1 /\ h <= Len(wire)
      /\ a \in Seq(Token) /\ Len(a) = Len(wire) - h
      /\ \A i \in 1..(Len(wire) - h) : a[i] = wire[h + i]
  <2>1. CASE size = -1
    BY <2>1, <1>1, <1>t, TailShape DEF AfterSize, NeedsSize
  <2>2. CASE size # -1
    BY <2>2, <1>t DEF AfterSize, NeedsSize
  <2> QED BY <2>1, <2>2
<1>4. PICK k \in 0..Min({Clip(b), SizeNow - count, Len(a)}) :
        LET rest == SubSeq(a, k + 1, Len(a)) IN
        /\ SizeNow # 0 => k > 0
        /\ Took(k)
        /\ \/ /\ count + k < SizeNow
              /\ count' = count + k /\ size' = SizeNow
              /\ wire' = rest
              /\ UNCHANGED end
           \/ /\ count + k = SizeNow
              /\ rest # <<>> /\ Head(rest).t = "crlf"
              /\ wire' = Tail(rest)
              /\ count' = 0
              /\ size' = IF SizeNow = 0 THEN 0 ELSE -1
              /\ end' = IF SizeNow = 0 THEN "eof" ELSE end
           \/ /\ count + k = SizeNow
              /\ IF rest = <<>> THEN ~open ELSE Head(rest).t # "crlf"
              /\ wire' = rest
              /\ count' = count + k /\ size' = SizeNow
              /\ end' = "error"
  BY DEF ReadChunked
<1> HIDE DEF h, a
<1> DEFINE rest == SubSeq(a, k + 1, Len(a))
<1>5. k \in Nat /\ k <= Clip(b) /\ k <= SizeNow - count /\ k <= Len(a)
  <2>1. Clip(b) \in Int /\ SizeNow - count \in Int /\ Len(a) \in Int
    BY SMTT(60), <1>t, <1>2, <1>3, ClipBounds
  <2>2. /\ Min({Clip(b), SizeNow - count, Len(a)}) \in Int
        /\ Min({Clip(b), SizeNow - count, Len(a)}) <= Clip(b)
        /\ Min({Clip(b), SizeNow - count, Len(a)}) <= SizeNow - count
        /\ Min({Clip(b), SizeNow - count, Len(a)}) <= Len(a)
    BY <2>1, MinOfThree
  <2> QED BY <2>1, <2>2
<1>6. /\ rest \in Seq(Token) /\ Len(rest) = Len(wire) - (h + k)
      /\ \A i \in 1..(Len(wire) - (h + k)) : rest[i] = wire[h + k + i]
  <2>1. /\ rest \in Seq(Token) /\ Len(rest) = Len(a) - k
        /\ \A i \in 1..(Len(a) - k) : rest[i] = a[k + i]
    BY <1>3, <1>5, SuffixShape
  <2> HIDE DEF rest
  <2>2. Len(a) - k = Len(wire) - (h + k)
    BY <1>3, <1>5, <1>t
  <2>3. ASSUME NEW i \in 1..(Len(wire) - (h + k)) PROVE rest[i] = wire[h + k + i]
    <3>1. i \in 1..(Len(a) - k)
      BY <2>2
    <3>2. k + i \in 1..(Len(wire) - h) /\ h + (k + i) = h + k + i
      BY <1>3, <1>5, <1>t
    <3> QED BY <2>1, <3>1, <3>2, <1>3
  <2> QED BY <2>1, <2>2, <2>3
<1> HIDE DEF rest
<1>7. h + k \in 0..Len(wire) /\ Len(wire) \in Nat
  BY <1>3, <1>5, <1>t
<1>8. wire' = rest => Drops(h + k)
  BY <1>6, <1>7 DEF Drops
<1>9. rest # <<>> => /\ h + k < Len(wire) /\ Head(rest) = wire[h + k + 1]
                     /\ wire' = Tail(rest) => Drops(h + k + 1)
  <2>1. SUFFICES ASSUME rest # <<>>
                 PROVE  /\ h + k < Len(wire) /\ Head(rest) = wire[h + k + 1]
                        /\ wire' = Tail(rest) => Drops(h + k + 1)
    OBVIOUS
  <2>2. /\ Tail(rest) \in Seq(Token) /\ Len(Tail(rest)) = Len(rest) - 1
        /\ \A i \in 1..(Len(rest) - 1) : Tail(rest)[i] = rest[i + 1]
        /\ Head(rest) = rest[1] /\ Len(rest) \in Nat \ {0}
    BY <2>1, <1>6, TailShape
  <2>3. h + k < Len(wire) /\ h + k + 1 \in 0..Len(wire) /\ Len(rest) - 1 = Len(wire) - (h + k + 1)
    BY SMTT(60), <2>2, <1>6, <1>7, <1>3, <1>5
  <2>4. Head(rest) = wire[h + k + 1]
    BY <2>2, <2>3, <1>6
  <2>5. ASSUME NEW i \in 1..(Len(wire) - (h + k + 1)) PROVE Tail(rest)[i] = wire[h + k + 1 + i]
    <3>1. i \in 1..(Len(rest) - 1)
      BY <2>3
    <3>2. i + 1 \in 1..(Len(wire) - (h + k)) /\ h + k + (i + 1) = h + k + 1 + i
      <4>1. h \in Int /\ k \in Int /\ Len(wire) \in Int
        BY <1>3, <1>5, <1>7
      <4> QED BY <4>1
    <3> QED BY <2>2, <3>1, <3>2, <1>6
  <2> QED BY <2>2, <2>3, <2>4, <2>5 DEF Drops
<1>10. (rest = <<>>) <=> (h + k = Len(wire))
  <2>1. rest = <<>> => Len(rest) = 0
    OBVIOUS
  <2>2. rest # <<>> => Len(rest) # 0
    BY <1>6
  <2> QED BY <2>1, <2>2, <1>6, <1>7
<1>11. \/ /\ count + k < SizeNow
          /\ count' = count + k /\ size' = SizeNow /\ end' = end
          /\ Drops(h + k)
       \/ /\ count + k = SizeNow
          /\ h + k < Len(wire) /\ wire[h + k + 1].t = "crlf"
          /\ count' = 0
          /\ size' = IF SizeNow = 0 THEN 0 ELSE -1
          /\ end' = IF SizeNow = 0 THEN "eof" ELSE end
          /\ Drops(h + k + 1)
       \/ /\ count + k = SizeNow
          /\ IF h + k = Len(wire) THEN ~open ELSE wire[h + k + 1].t # "crlf"
          /\ count' = count + k /\ size' = SizeNow /\ end' = "error"
          /\ Drops(h + k)
  BY <1>4, <1>8, <1>9, <1>10, Zenon DEF rest
<1> QED BY SMTT(60), <1>1, <1>2, <1>3, <1>4, <1>5, <1>7, <1>11 DEF h

(* A call of ReadRaw that finds what it needs: n units.                    *)
LEMMA RawTakes ==
  ASSUME Typed, NEW b \in 1..MaxRead, ReadRaw(b)
  PROVE  \E n \in Nat :
           /\ Drops(n) /\ Took(n) /\ n <= Clip(b)
           /\ buffered' \in 0..Len(wire')
           /\ \/ end' = end
              \/ end' = "eof" /\ n = Len(wire) /\ n < Clip(b)
<1>t. /\ wire \in Seq(Token) /\ buffered \in Nat /\ buffered <= Len(wire)
      /\ remaining \in Nat \cup {-1} /\ Len(wire) \in Nat
  BY DEF Typed, TypeOK
<1>c. Clip(b) \in Nat \ {0}
  BY <1>t, ClipBounds
<1> DEFINE fromBufio == Min({buffered, Clip(b)})
           socket == Len(wire) - buffered
<1>1. fromBufio \in Nat /\ fromBufio <= buffered /\ fromBufio <= Clip(b)
  BY <1>t, <1>c, MinOfTwo
<1>2. ASSUME NEW n \in 0..Len(wire), wire' = SubSeq(wire, n + 1, Len(wire)) PROVE Drops(n)
  <2>1. /\ SubSeq(wire, n + 1, Len(wire)) \in Seq(Token)
        /\ Len(SubSeq(wire, n + 1, Len(wire))) = Len(wire) - n
        /\ \A i \in 1..(Len(wire) - n) : SubSeq(wire, n + 1, Len(wire))[i] = wire[n + i]
    BY <1>t, SuffixShape
  <2> QED BY <2>1, <1>2 DEF Drops
<1>3. CASE /\ wire' = SubSeq(wire, fromBufio + 1, Len(wire))
           /\ buffered' = buffered - fromBufio /\ Took(fromBufio) /\ UNCHANGED end
  <2> HIDE DEF fromBufio
  <2>1. fromBufio \in 0..Len(wire)
    BY <1>1, <1>t
  <2>2. Drops(fromBufio)
    BY <1>2, <1>3, <2>1
  <2>3. Len(wire') = Len(wire) - fromBufio
    BY <2>2 DEF Drops
  <2>4. buffered' \in 0..Len(wire')
    BY <2>3, <1>1, <1>3, <1>t
  <2> QED BY <1>1, <1>3, <2>2, <2>4
<1>4. CASE /\ buffered < Clip(b)
           /\ \E k \in 1..Min({socket, Clip(b) - buffered}) :
                /\ wire' = SubSeq(wire, buffered + k + 1, Len(wire))
                /\ buffered' = 0 /\ Took(buffered + k)
           /\ UNCHANGED end
  <2>1. Min({socket, Clip(b) - buffered}) \in Int
        /\ Min({socket, Clip(b) - buffered}) <= socket
        /\ Min({socket, Clip(b) - buffered}) <= Clip(b) - buffered
    BY <1>t, <1>c, MinOfTwo
  <2>2. PICK k \in 1..Min({socket, Clip(b) - buffered}) :
                /\ wire' = SubSeq(wire, buffered + k + 1, Len(wire))
                /\ buffered' = 0 /\ Took(buffered + k)
    BY <1>4
  <2>3. PICK n \in Nat : n = buffered + k
    BY <1>t, <2>1
  <2>4. n \in 0..Len(wire) /\ n <= Clip(b)
    BY <1>t, <1>c, <2>1, <2>3
  <2>5. wire' = SubSeq(wire, n + 1, Len(wire)) /\ Took(n)
    BY <2>2, <2>3
  <2>6. Drops(n)
    BY <1>2, <2>4, <2>5
  <2>7. Len(wire') = Len(wire) - n
    BY <2>6 DEF Drops
  <2>8. buffered' \in 0..Len(wire')
    BY <2>2, <2>4, <2>7, <1>t
  <2> QED BY <1>4, <2>4, <2>5, <2>6, <2>8
<1>5. CASE /\ buffered < Clip(b) /\ socket = 0 /\ ~open
           /\ wire' = <<>> /\ buffered' = 0 /\ Took(buffered) /\ end' = "eof"
  <2>1. buffered = Len(wire)
    BY <1>5, <1>t
  <2>2. Drops(Len(wire))
    BY <1>5, <1>t DEF Drops
  <2>3. buffered' \in 0..Len(wire')
    BY <1>5
  <2>4. PICK n \in Nat : n = buffered /\ n = Len(wire)
    BY <1>t, <2>1
  <2>5. Took(n) /\ Drops(n) /\ n < Clip(b)
    BY <1>5, <2>2, <2>4
  <2>6. n <= Clip(b)
    BY <1>c, <2>5
  <2> QED BY <1>5, <2>3, <2>4, <2>5, <2>6
<1> QED BY <1>3, <1>4, <1>5 DEF ReadRaw

(* Data taken is counted, and no more of a declared length than is left.   *)
LEMMA TookTyped ==
  ASSUME Typed, NEW n \in Nat, NEW b \in 1..MaxRead, n <= Clip(b), Took(n)
  PROVE  /\ got' = got + n /\ got' \in Nat
         /\ remaining' \in Nat \cup {-1}
         /\ remaining' = IF remaining > 0 THEN remaining - n ELSE remaining
         /\ remaining > 0 => n <= remaining
<1>1. remaining \in Nat \cup {-1} /\ got \in Nat
  BY DEF Typed, TypeOK
<1>2. Clip(b) \in Nat /\ (remaining > 0 => Clip(b) <= remaining)
  BY <1>1, ClipBounds
<1> QED BY <1>1, <1>2 DEF Took

LEMMA TypeInit == Init => Typed
<1> SUFFICES ASSUME Init PROVE Typed
  OBVIOUS
<1>1. wire \in Seq(Token) /\ Len(wire) = 0
  BY DEF Init
<1>2. buffered \in 0..Len(wire)
  BY <1>1 DEF Init
<1> QED BY <1>1, <1>2 DEF Init, Typed, TypeOK

LEMMA TypeStep == Typed /\ [Next]_streamVars => Typed'
<1> SUFFICES ASSUME Typed, [Next]_streamVars PROVE Typed'
  OBVIOUS
<1>t. /\ wire \in Seq(Token) /\ Len(wire) \in Nat
      /\ buffered \in Nat /\ buffered <= Len(wire)
      /\ {open, cut} \subseteq BOOLEAN
      /\ phase \in {"idle", "head", "body", "closed", "panic"}
      /\ remaining \in Nat \cup {-1} /\ reader \in {"nil", "raw", "chunked"}
      /\ size \in Nat \cup {-1} /\ count \in Nat
      /\ size # -1 => count <= size
      /\ got \in Nat /\ end \in {"none", "eof", "error"}
      /\ phase = "body" => \E r \in Responses : cur = <<r>>
  BY DEF Typed, TypeOK
<1>m. ASSUME NEW r \in Responses, wire' = wire \o <<HeadToken(r)>> \o BodyTokens(r)
      PROVE  wire' \in Seq(Token) /\ Len(wire') >= Len(wire)
  <2>1. PICK h \in Token : h = HeadToken(r)
    BY DEF Token
  <2>2. PICK s \in Seq(Token) : s = BodyTokens(r)
    BY BodyType
  <2>3. wire' = wire \o <<h>> \o s
    BY <1>m, <2>1, <2>2
  <2>4. wire \o <<h>> \in Seq(Token) /\ Len(wire \o <<h>>) = Len(wire) + 1
    BY <1>t
  <2> QED BY <1>t, <2>3, <2>4
<1>1. ASSUME NEW r \in Menu, Serve(r) PROVE Typed'
  <2>1. wire' \in Seq(Token) /\ Len(wire') >= Len(wire)
    BY <1>1, <1>m DEF Serve, Responses
  <2>2. open' \in BOOLEAN /\ phase' = "head"
    BY <1>1 DEF Serve
  <2>3. buffered' \in 0..Len(wire')
    BY <1>1, <1>t, <2>1 DEF Serve
  <2> QED BY <1>1, <1>t, <2>1, <2>2, <2>3 DEF Serve, sessionVars, Typed, TypeOK
<1>2. ASSUME NEW r \in Unasked, GiveUp(r) PROVE Typed'
  <2>1. wire' \in Seq(Token) /\ Len(wire') >= Len(wire)
    BY <1>2, <1>m DEF GiveUp, Responses
  <2>3. buffered' \in 0..Len(wire')
    BY <1>2, <1>t, <2>1 DEF GiveUp
  <2> QED BY <1>2, <1>t, <2>1, <2>3 DEF GiveUp, sessionVars, Typed, TypeOK
<1>3. CASE NextRequest
  BY <1>3, <1>t DEF NextRequest, sessionVars, Typed, TypeOK
<1>4. CASE Cut
  <2>1. PICK k \in buffered..Len(wire) - 1 : wire' = SubSeq(wire, 1, k)
    BY <1>4 DEF Cut
  <2>2. wire' \in Seq(Token) /\ Len(wire') = k
    BY <1>t, <2>1
  <2>3. buffered' \in 0..Len(wire')
    BY <1>4, <1>t, <2>1, <2>2 DEF Cut
  <2> QED BY <1>4, <1>t, <2>2, <2>3 DEF Cut, sessionVars, Typed, TypeOK
<1>5. CASE ReadResponse
  <2>1. CASE wire # <<>> /\ Head(wire).t = "head" /\ ~Refused(Head(wire).r)
    <3>1. PICK r : r = Head(wire).r
      OBVIOUS
    <3>2. /\ Tail(wire) \in Seq(Token) /\ Len(Tail(wire)) = Len(wire) - 1 /\ Head(wire) \in Token
      BY <1>t, <2>1, TailShape
    <3>3. r \in Responses
      BY <2>1, <3>1, <3>2, TokenKinds
    <3>4. /\ phase' = "body" /\ cur' = <<r>> /\ remaining' = ContentLength(r)
          /\ reader' \in {"nil", "raw", "chunked"}
          /\ wire' = Tail(wire) /\ buffered' \in FillsFrom(1)..Len(wire')
      BY <1>5, <2>1, <3>1 DEF ReadResponse
    <3>5. buffered' \in 0..Len(wire')
      <4>1. FillsFrom(1) \in Nat
        BY <1>t, FillsBound
      <4> QED BY <3>4, <4>1
    <3>6. remaining' \in Nat \cup {-1}
      BY <3>3, <3>4, HeadType
    <3> QED BY <1>5, <1>t, <3>2, <3>3, <3>4, <3>5, <3>6 DEF ReadResponse, Typed, TypeOK
  <2>2. CASE ~(wire # <<>> /\ Head(wire).t = "head" /\ ~Refused(Head(wire).r))
    <3>1. phase' = "closed" /\ UNCHANGED <<wire, buffered, cur, remaining, reader>>
      BY <1>5, <2>2 DEF ReadResponse
    <3> QED BY <1>5, <1>t, <3>1 DEF ReadResponse, Typed, TypeOK
  <2> QED BY <2>1, <2>2
<1>6. CASE ReadEnd
  BY <1>6, <1>t DEF ReadEnd, Typed, TypeOK
<1>7. CASE ReadNil
  BY <1>7, <1>t DEF ReadNil, sessionVars, Typed, TypeOK
<1>8. ASSUME NEW b \in 1..MaxRead, ReadRaw(b) PROVE Typed'
  <2>1. PICK n \in Nat :
           /\ Drops(n) /\ Took(n) /\ n <= Clip(b)
           /\ buffered' \in 0..Len(wire')
           /\ end' = end \/ end' = "eof"
    BY <1>8, RawTakes
  <2>2. got' \in Nat /\ remaining' \in Nat \cup {-1}
    BY <1>8, <2>1, TookTyped
  <2>3. wire' \in Seq(Token)
    BY <2>1 DEF Drops
  <2>4. UNCHANGED <<open, cut, phase, cur, reader, size, count>>
    BY <1>8 DEF ReadRaw
  <2> QED BY <1>t, <2>1, <2>2, <2>3, <2>4 DEF Typed, TypeOK
<1>9. ASSUME NEW b \in 1..MaxRead, ReadChunked(b) PROVE Typed'
  <2>1. PICK h \in 0..1, k \in Nat :
           /\ SizeNow \in Nat /\ k <= Clip(b) /\ Took(k)
           /\ \E n \in Nat : Drops(n)
           /\ \/ count + k < SizeNow /\ count' = count + k /\ size' = SizeNow /\ end' = end
              \/ /\ count' = 0 /\ size' = IF SizeNow = 0 THEN 0 ELSE -1
                 /\ end' = IF SizeNow = 0 THEN "eof" ELSE end
              \/ count + k = SizeNow /\ count' = count + k /\ size' = SizeNow /\ end' = "error"
    <3>1. \A n : Drops(n) => n \in Nat
      BY <1>t DEF Drops
    <3> QED BY <1>9, <3>1, ChunkedTakes
  <2>2. got' \in Nat /\ remaining' \in Nat \cup {-1}
    BY <1>9, <2>1, TookTyped
  <2>3. wire' \in Seq(Token)
    BY <2>1 DEF Drops
  <2>4. /\ size' \in Nat \cup {-1} /\ count' \in Nat /\ end' \in {"none", "eof", "error"}
        /\ size' # -1 => count' <= size'
    BY SMTT(60), <1>t, <2>1
  <2>5. UNCHANGED <<open, cut, phase, cur, reader>>
    BY <1>9 DEF ReadChunked
  <2>6. buffered' \in 0..Len(wire')
    <3>1. Len(wire) - Len(wire') \in Nat
      BY <1>t, <2>1 DEF Drops
    <3>2. FillsFrom(Len(wire) - Len(wire')) \in Nat
      BY <1>t, <3>1, FillsBound
    <3>3. buffered' \in FillsFrom(Len(wire) - Len(wire'))..Len(wire')
      BY <1>9 DEF ReadChunked
    <3> QED BY <3>2, <3>3
  <2> QED BY <1>t, <2>2, <2>3, <2>4, <2>5, <2>6 DEF Typed, TypeOK
<1>10. CASE ReadBroken
  <2>1. wire' \in Seq(Token)
    <3>1. wire' = IF wire = <<>> THEN wire ELSE Tail(wire)
      BY <1>10 DEF ReadBroken
    <3> QED BY <1>t, <3>1, TailShape
  <2>2. buffered' \in 0..Len(wire')
    <3>1. FillsFrom(1) \in Nat
      BY <1>t, FillsBound
    <3>2. buffered' \in FillsFrom(1)..Len(wire')
      BY <1>10 DEF ReadBroken
    <3> QED BY <3>1, <3>2
  <2>3. end' = "error" /\ UNCHANGED <<open, cut, phase, cur, remaining, reader, size, count, got>>
    BY <1>10 DEF ReadBroken
  <2> QED BY <1>t, <2>1, <2>2, <2>3 DEF Typed, TypeOK
<1>11. CASE CloseBody
  <2>1. phase' \in {"idle", "closed"}
    BY <1>11 DEF CloseBody
  <2> QED BY <1>11, <1>t, <2>1 DEF CloseBody, sessionVars, Typed, TypeOK
<1>12. CASE Redial
  <2>1. wire' \in Seq(Token) /\ Len(wire') = 0
    BY <1>12 DEF Redial, Fresh
  <2>2. buffered' \in 0..Len(wire')
    BY <1>12, <2>1 DEF Redial, Fresh
  <2> QED BY <1>12, <2>1, <2>2 DEF Redial, Fresh, Typed, TypeOK
<1>13. CASE UNCHANGED streamVars
  BY <1>13, <1>t DEF streamVars, Typed, TypeOK
<1> QED BY <1>1, <1>2, <1>3, <1>4, <1>5, <1>6, <1>7, <1>8, <1>9, <1>10, <1>11, <1>12, <1>13
        DEF Next

-----------------------------------------------------------------------------
(* Where a connection is in the responses that were sent on it. s is the   *)
(* body at hand, p the tokens of it that are read, x what follows it: no   *)
(* more than one response that nobody asked for.                           *)

Extras == {<<>>} \cup {Message(u) : u \in Unasked}

(* The wire has what is in s after p, all of it unless the server died.    *)
OnWire(s, p) ==
  /\ Len(wire) <= Len(s) - p
  /\ \A i \in 1..Len(wire) : wire[i] = s[p + i]
  /\ ~cut => Len(wire) = Len(s) - p

(* A connection that Read failed on: no head comes next, none ever will.   *)
Lost == IF wire = <<>> THEN cut ELSE wire[1].t # "head"

(* What the session knows of the body: how much of it is left, or how far  *)
(* it is in a chunk; and the user has had the data before p. After an error*)
(* that is the data before a token that chunkedReader does not take.       *)
ReaderAt(s, p) ==
  /\ got = DataWithin(s, p)
  /\ reader = "raw" => /\ \A i \in 1..Len(s) : s[i].t = "data"
                       /\ remaining = Len(s) - p
  /\ reader = "nil" => remaining \in {-1, 0} /\ (remaining = 0 => s = <<>>)
  /\ reader = "chunked" =>
       /\ remaining = -1 /\ WellChunked(s)
       /\ end = "none" =>
            IF size = -1 THEN count = 0 /\ p < Len(s) /\ s[p + 1].t = "size"
            ELSE size > 0 /\ count < size /\ InChunk(s, p, size, count)
  /\ end # "none" =>
       \/ end = "eof" /\ p = Len(s)
       \/ cut /\ wire = <<>>
       \/ /\ end = "error" /\ Lost
          /\ \E i \in DOMAIN s : Untaken(s[i]) /\ got = DataWithin(s, i - 1)

StreamInv ==
  \E x \in Extras :
    /\ open => x = <<>> /\ ~cut
    /\ phase \in {"idle", "head"} /\ end = "error" => Lost
    /\ phase = "idle" /\ end # "error" => OnWire(x, 0)
    /\ phase = "head" /\ end # "error" => \E r \in Responses : OnWire(Message(r) \o x, 0)
    /\ phase = "body" => \E r \in Responses, p \in Nat :
                           /\ cur = <<r>> /\ p <= Len(BodyTokens(r))
                           /\ OnWire(BodyTokens(r) \o x, p)
                           /\ ReaderAt(BodyTokens(r), p)

LEMMA ExtrasType ==
  ASSUME NEW x \in Extras
  PROVE  x \in Seq(Token)
<1>1. <<>> \in Seq(Token)
  OBVIOUS
<1> QED BY <1>1, MessageType DEF Extras, Responses

(* Reading n tokens moves the position by n.                               *)
LEMMA Advance ==
  ASSUME wire \in Seq(Token), NEW s \in Seq(Token), NEW p \in Nat, OnWire(s, p),
         NEW n \in Nat, Drops(n), cut' = cut
  PROVE  OnWire(s, p + n)'
<1>1. /\ Len(wire) \in Nat /\ n <= Len(wire) /\ Len(wire') = Len(wire) - n
      /\ \A i \in 1..(Len(wire) - n) : wire'[i] = wire[n + i]
  BY DEF Drops
<1>2. Len(s) \in Nat
  OBVIOUS
<1>3. ASSUME NEW i \in 1..Len(wire') PROVE wire'[i] = s[(p + n) + i]
  <2>1. wire'[i] = wire[n + i]
    BY <1>1
  <2>2. n + i \in 1..Len(wire) /\ p + (n + i) = (p + n) + i
    BY <1>1
  <2> QED BY <2>1, <2>2 DEF OnWire
<1>4. Len(wire') <= Len(s) - (p + n)
  BY <1>1, <1>2 DEF OnWire
<1>5. ~cut' => Len(wire') = Len(s) - (p + n)
  BY <1>1, <1>2 DEF OnWire
<1> QED BY <1>3, <1>4, <1>5 DEF OnWire

(* What is left unread after a is b.                                       *)
LEMMA After ==
  ASSUME wire' \in Seq(Token), NEW a \in Seq(Token), NEW b \in Seq(Token),
         OnWire(a \o b, Len(a))'
  PROVE  OnWire(b, 0)'
<1>1. /\ Len(a \o b) = Len(a) + Len(b)
      /\ \A i \in 1..Len(b) : (a \o b)[Len(a) + i] = b[i]
  BY JoinShape
<1>2. Len(a) \in Nat /\ Len(b) \in Nat /\ Len(wire') \in Nat
  OBVIOUS
<1>3. Len(wire') <= Len(b) - 0 /\ (~cut' => Len(wire') = Len(b) - 0)
  BY <1>1, <1>2 DEF OnWire
<1>4. ASSUME NEW i \in 1..Len(wire') PROVE wire'[i] = b[0 + i]
  <2>1. i \in 1..Len(b) /\ 0 + i = i
    BY <1>2, <1>3
  <2> QED BY <2>1, <1>1 DEF OnWire
<1> QED BY <1>3, <1>4 DEF OnWire

(* What is sent after all that was sent stands after it.                   *)
LEMMA Grow ==
  ASSUME wire \in Seq(Token), NEW s \in Seq(Token), NEW m \in Seq(Token),
         NEW p \in Nat, p <= Len(s), OnWire(s, p), ~cut, cut' = cut, wire' = wire \o m
  PROVE  OnWire(s \o m, p)'
<1>1. /\ Len(s \o m) = Len(s) + Len(m)
      /\ \A i \in 1..Len(s) : (s \o m)[i] = s[i]
      /\ \A i \in 1..Len(m) : (s \o m)[Len(s) + i] = m[i]
  BY JoinShape
<1>2. /\ Len(wire') = Len(wire) + Len(m)
      /\ \A i \in 1..Len(wire) : wire'[i] = wire[i]
      /\ \A i \in 1..Len(m) : wire'[Len(wire) + i] = m[i]
  BY JoinShape
<1>3. /\ Len(wire) \in Nat /\ Len(s) \in Nat /\ Len(m) \in Nat
      /\ Len(wire) = Len(s) - p
  BY DEF OnWire
<1>4. Len(wire') = Len(s \o m) - p
  BY <1>1, <1>2, <1>3
<1>5. ASSUME NEW i \in 1..Len(wire') PROVE wire'[i] = (s \o m)[p + i]
  <2>1. CASE i <= Len(wire)
    <3>1. i \in 1..Len(wire) /\ p + i \in 1..Len(s)
      BY <2>1, <1>3
    <3> QED BY <3>1, <1>1, <1>2 DEF OnWire
  <2>2. CASE ~(i <= Len(wire))
    <3>1. PICK j \in 1..Len(m) : i = Len(wire) + j
      <4>1. i - Len(wire) \in 1..Len(m) /\ i = Len(wire) + (i - Len(wire))
        BY <2>2, <1>2, <1>3
      <4> QED BY <4>1
    <3>2. p + i = Len(s) + j
      BY <3>1, <1>3
    <3> QED BY <3>1, <3>2, <1>1, <1>2
  <2> QED BY <2>1, <2>2
<1>6. Len(wire') <= Len(s \o m) - p
  BY <1>1, <1>3, <1>4
<1> QED BY <1>4, <1>5, <1>6 DEF OnWire

(* A server that dies leaves a part of what was there.                     *)
LEMMA CutShort ==
  ASSUME wire \in Seq(Token), NEW s \in Seq(Token), NEW p \in Nat, OnWire(s, p),
         NEW k \in 0..Len(wire), wire' = SubSeq(wire, 1, k), cut' = TRUE
  PROVE  OnWire(s, p)'
<1>1. Len(wire') = k /\ \A i \in 1..k : wire'[i] = wire[i]
  OBVIOUS
<1>2. k <= Len(s) - p
  BY DEF OnWire
<1>3. \A i \in 1..k : wire'[i] = s[p + i]
  BY <1>1 DEF OnWire
<1> QED BY <1>1, <1>2, <1>3 DEF OnWire

(* A lost connection stays lost, whatever is sent after what is unread.    *)
LEMMA LostGrows ==
  ASSUME wire \in Seq(Token), NEW m \in Seq(Token), wire' = wire \o m, Lost, ~cut
  PROVE  Lost'
<1>1. wire # <<>> /\ wire[1].t # "head"
  BY DEF Lost
<1>2. wire' # <<>> /\ wire'[1] = wire[1]
  BY <1>1
<1> QED BY <1>1, <1>2 DEF Lost

LEMMA LostCutShort ==
  ASSUME wire \in Seq(Token), NEW k \in 0..Len(wire), wire' = SubSeq(wire, 1, k),
         cut' = TRUE, Lost, wire # <<>>
  PROVE  Lost'
<1>1. wire[1].t # "head"
  BY DEF Lost
<1>2. wire' \in Seq(Token) /\ Len(wire') = k /\ \A i \in 1..k : wire'[i] = wire[i]
  OBVIOUS
<1>3. wire' # <<>> => wire'[1] = wire[1]
  BY <1>2
<1> QED BY <1>1, <1>3 DEF Lost

(* Counting data.                                                          *)
LEMMA DataStart == ASSUME NEW s PROVE DataWithin(s, 0) = 0
<1>1. {i \in 1..0 : s[i].t = "data"} = {}
  OBVIOUS
<1> QED BY <1>1, FS_EmptySet DEF DataWithin

LEMMA DataNext ==
  ASSUME NEW s, NEW p \in Nat
  PROVE  /\ DataWithin(s, p) \in Nat
         /\ s[p + 1].t = "data" => DataWithin(s, p + 1) = DataWithin(s, p) + 1
         /\ s[p + 1].t # "data" => DataWithin(s, p + 1) = DataWithin(s, p)
<1> DEFINE D == {i \in 1..p : s[i].t = "data"}
           E == {i \in 1..(p + 1) : s[i].t = "data"}
<1>1. IsFiniteSet(D) /\ Cardinality(D) \in Nat
  <2>1. IsFiniteSet(1..p)
    BY FS_Interval
  <2>2. D \subseteq 1..p
    OBVIOUS
  <2> HIDE DEF D
  <2> QED BY <2>1, <2>2, FS_Subset, FS_CardinalityType
<1>2. p + 1 \notin D
  OBVIOUS
<1>3. s[p + 1].t = "data" => E = D \cup {p + 1}
  OBVIOUS
<1>4. s[p + 1].t # "data" => E = D
  OBVIOUS
<1> HIDE DEF D, E
<1>5. Cardinality(D \cup {p + 1}) = Cardinality(D) + 1
  BY <1>1, <1>2, FS_AddElement
<1> QED BY <1>1, <1>3, <1>4, <1>5 DEF DataWithin, D, E

LEMMA DataRun ==
  ASSUME NEW s, NEW p \in Nat, NEW k \in Nat, \A i \in 1..k : s[p + i].t = "data"
  PROVE  DataWithin(s, p + k) = DataWithin(s, p) + k
<1> DEFINE Good == {n \in Nat : n <= k => DataWithin(s, p + n) = DataWithin(s, p) + n}
<1>0. DataWithin(s, p) \in Nat
  BY DataNext
<1>1. 0 \in Good
  BY <1>0
<1>2. ASSUME NEW n \in Nat, n \in Good PROVE n + 1 \in Good
  <2>1. SUFFICES ASSUME n + 1 <= k PROVE DataWithin(s, p + (n + 1)) = DataWithin(s, p) + (n + 1)
    OBVIOUS
  <2>2. DataWithin(s, p + n) = DataWithin(s, p) + n
    BY <1>2, <2>1
  <2>3. PICK q \in Nat : q = p + n
    OBVIOUS
  <2>4. q + 1 = p + (n + 1) /\ n + 1 \in 1..k
    BY <2>1, <2>3
  <2>5. s[q + 1].t = "data"
    BY <2>4
  <2>6. DataWithin(s, q + 1) = DataWithin(s, q) + 1
    BY <2>5, DataNext
  <2> QED BY <1>0, <2>2, <2>3, <2>4, <2>6
<1> HIDE DEF Good
<1>3. k \in Good
  BY <1>1, <1>2, InductionOnNat
<1> QED BY <1>3 DEF Good

(* Reading k units of a chunk.                                             *)
LEMMA ChunkMoves ==
  ASSUME NEW s \in Seq(Token), NEW q \in Nat, NEW n, NEW c, InChunk(s, q, n, c),
         NEW k \in Nat, k <= n - c
  PROVE  /\ q + k + 1 <= Len(s)
         /\ \A i \in 1..k : s[q + i].t = "data"
         /\ c + k < n => InChunk(s, q + k, n, c + k)
         /\ c + k = n => AtChunkEnd(s, q + k + 1, n)
<1>1. n \in Nat /\ c \in Nat /\ c <= n /\ Len(s) \in Nat /\ q + (n - c) + 1 <= Len(s)
  BY DEF InChunk
<1>2. q + k + 1 <= Len(s)
  BY <1>1
<1>3. \A i \in 1..k : s[q + i].t = "data"
  <2>1. \A i \in 1..k : i \in 1..(n - c)
    BY <1>1
  <2> QED BY <2>1 DEF InChunk
<1>4. ASSUME c + k < n PROVE InChunk(s, q + k, n, c + k)
  <2>1. /\ n - (c + k) = (n - c) - k /\ (q + k) + (n - (c + k)) = q + (n - c)
        /\ c + k \in 0..n /\ n # 0
    BY <1>1, <1>4
  <2>2. ASSUME NEW i \in 1..(n - (c + k)) PROVE s[(q + k) + i].t = "data"
    <3>1. k + i \in 1..(n - c) /\ q + (k + i) = (q + k) + i
      BY <1>1, <1>4
    <3> QED BY <3>1 DEF InChunk
  <2> QED BY <1>1, <2>1, <2>2 DEF InChunk
<1>5. ASSUME c + k = n
      PROVE  AtChunkEnd(s, q + k + 1, n)
  <2>1. q + (n - c) + 1 = q + k + 1
    BY <1>1, <1>5
  <2> QED BY <2>1 DEF InChunk
<1> QED BY <1>2, <1>3, <1>4, <1>5

(* A body and what follows it are tokens; a position in the body is one of *)
(* the two together.                                                       *)
LEMMA BodyOnWire ==
  ASSUME wire \in Seq(Token), NEW s \in Seq(Token), NEW x \in Seq(Token),
         NEW p \in Nat, p <= Len(s), OnWire(s \o x, p)
  PROVE  /\ s \o x \in Seq(Token)
         /\ Len(wire) \in Nat /\ Len(s) \in Nat
         /\ \A i \in Nat : 1 <= i /\ i <= Len(wire) /\ p + i <= Len(s) => wire[i] = s[p + i]
         /\ ~cut => Len(wire) >= Len(s) - p
<1>1. /\ s \o x \in Seq(Token) /\ Len(s \o x) = Len(s) + Len(x)
      /\ \A i \in 1..Len(s) : (s \o x)[i] = s[i]
  BY JoinShape
<1>2. Len(wire) \in Nat /\ Len(s) \in Nat /\ Len(x) \in Nat
  OBVIOUS
<1>3. ASSUME NEW i \in Nat, 1 <= i, i <= Len(wire), p + i <= Len(s) PROVE wire[i] = s[p + i]
  <2>1. i \in 1..Len(wire) /\ p + i \in 1..Len(s)
    BY <1>2, <1>3
  <2> QED BY <2>1, <1>1 DEF OnWire
<1>4. ~cut => Len(wire) >= Len(s) - p
  BY <1>1, <1>2 DEF OnWire
<1> QED BY <1>1, <1>2, <1>3, <1>4

LEMMA EmptyWire ==
  ASSUME wire \in Seq(Token)
  PROVE  Len(wire) = 0 <=> wire = <<>>
OBVIOUS

(* ReadChunked in a body of chunks.                                        *)
LEMMA ReadChunkedAt ==
  ASSUME Typed, NEW b \in 1..MaxRead, ReadChunked(b),
         NEW s \in Seq(Token), NEW x \in Seq(Token), NEW p \in Nat, p <= Len(s),
         OnWire(s \o x, p), ReaderAt(s, p)
  PROVE  \E q \in Nat : q <= Len(s) /\ OnWire(s \o x, q)' /\ ReaderAt(s, q)'
<1> DEFINE n == SizeNow
<1>t. /\ wire \in Seq(Token) /\ Len(wire) \in Nat /\ Len(s) \in Nat
      /\ remaining \in Nat \cup {-1} /\ got \in Nat
  BY DEF Typed, TypeOK
<1>r. reader = "chunked" /\ end = "none" /\ UNCHANGED <<open, cut, reader>>
  BY DEF ReadChunked, Reading
<1>w. /\ s \o x \in Seq(Token)
      /\ \A i \in Nat : 1 <= i /\ i <= Len(wire) /\ p + i <= Len(s) => wire[i] = s[p + i]
      /\ ~cut => Len(wire) >= Len(s) - p
  BY <1>t, BodyOnWire
<1>1. /\ remaining = -1 /\ WellChunked(s) /\ got = DataWithin(s, p)
      /\ IF size = -1 THEN count = 0 /\ p < Len(s) /\ s[p + 1].t = "size"
         ELSE size > 0 /\ count < size /\ InChunk(s, p, size, count)
  BY <1>r DEF ReaderAt
<1>2. PICK h \in 0..1, k \in Nat :
           /\ h = (IF size = -1 THEN 1 ELSE 0) /\ n \in Nat
           /\ n = (IF size = -1 THEN wire[1].k ELSE size)
           /\ size = -1 => wire # <<>> /\ wire[1].t = "size"
           /\ h + k <= Len(wire) /\ k <= n - count
           /\ Took(k)
           /\ \/ /\ count + k < n
                 /\ count' = count + k /\ size' = n /\ end' = end
                 /\ Drops(h + k)
              \/ /\ count + k = n
                 /\ h + k < Len(wire) /\ wire[h + k + 1].t = "crlf"
                 /\ count' = 0
                 /\ size' = IF n = 0 THEN 0 ELSE -1
                 /\ end' = IF n = 0 THEN "eof" ELSE end
                 /\ Drops(h + k + 1)
              \/ /\ count + k = n
                 /\ IF h + k = Len(wire) THEN ~open ELSE wire[h + k + 1].t # "crlf"
                 /\ count' = count + k /\ size' = n /\ end' = "error"
                 /\ Drops(h + k)
  BY ChunkedTakes
<1> HIDE DEF n
<1>3. remaining' = -1 /\ got' = got + k
  BY <1>1, <1>2 DEF Took
<1>4. PICK q \in Nat : q = p + h
  OBVIOUS
<1>5. InChunk(s, q, n, count) /\ DataWithin(s, q) = got /\ count \in Nat
  <2>1. CASE size = -1
    <3>1. h = 1 /\ wire # <<>> /\ count = 0 /\ p + 1 <= Len(s)
      BY <1>1, <1>2, <1>t, <2>1
    <3>2. wire[1] = s[p + 1]
      BY <3>1, <1>w, <1>t, EmptyWire
    <3>3. p + 1 \in 1..Len(s) /\ s[p + 1].k = n /\ s[p + 1].t = "size"
      BY <3>1, <3>2, <1>1, <1>2, <1>t, <2>1
    <3>4. InChunk(s, p + 1, n, 0)
      BY <3>3, <1>1 DEF WellChunked
    <3>5. DataWithin(s, p + 1) = DataWithin(s, p)
      BY <3>3, DataNext
    <3> QED BY <3>1, <3>4, <3>5, <1>1, <1>4
  <2>2. CASE size # -1
    <3>1. h = 0 /\ n = size /\ q = p
      BY <1>2, <1>4, <2>2
    <3>2. InChunk(s, p, size, count)
      BY <1>1, <2>2
    <3> QED BY <3>1, <3>2, <1>1 DEF InChunk
  <2> QED BY <2>1, <2>2
<1>6. /\ q + k + 1 <= Len(s)
      /\ \A i \in 1..k : s[q + i].t = "data"
      /\ count + k < n => InChunk(s, q + k, n, count + k)
      /\ count + k = n => AtChunkEnd(s, q + k + 1, n)
  <2>1. PICK c, N : c = count /\ N = n
    OBVIOUS
  <2>2. k <= N - c /\ InChunk(s, q, N, c) /\ s \in Seq(Token) /\ q \in Nat /\ k \in Nat
    BY <1>2, <1>5, <2>1
  <2>3. /\ q + k + 1 <= Len(s)
        /\ \A i \in 1..k : s[q + i].t = "data"
        /\ c + k < N => InChunk(s, q + k, N, c + k)
        /\ c + k = N => AtChunkEnd(s, q + k + 1, N)
    BY ONLY <2>2, ChunkMoves, ZenonT(60)
  <2> QED BY <2>1, <2>3
<1>7. DataWithin(s, q + k) = got'
  BY <1>3, <1>5, <1>6, DataRun
<1>8. CASE /\ count + k < n
           /\ count' = count + k /\ size' = n /\ end' = end
           /\ Drops(h + k)
  <2>1. PICK m \in Nat : m = q + k
    OBVIOUS
  <2>2. m = p + (h + k) /\ h + k \in Nat
    BY <2>1, <1>4
  <2>3. OnWire(s \o x, m)'
    BY <2>2, <1>8, <1>r, <1>t, <1>w, Advance
  <2>4. m <= Len(s)
    BY <2>1, <1>6, <1>t
  <2>5. size' > 0 /\ count' < size' /\ size' # -1 /\ InChunk(s, m, size', count')
    <3>1. n \in Nat /\ count \in Nat /\ k \in Nat /\ count + k < n
      BY <1>2, <1>5, <1>8
    <3>2. n > 0 /\ n # -1
      BY <3>1
    <3>3. InChunk(s, m, n, count + k)
      BY <3>1, <1>6, <2>1
    <3> QED BY <3>1, <3>2, <3>3, <1>8
  <2>6. ReaderAt(s, m)'
    BY <1>r, <1>1, <1>3, <1>7, <1>8, <2>1, <2>5 DEF ReaderAt
  <2> QED BY <2>3, <2>4, <2>6
<1>9. CASE /\ count + k = n
           /\ h + k < Len(wire) /\ wire[h + k + 1].t = "crlf"
           /\ count' = 0
           /\ size' = IF n = 0 THEN 0 ELSE -1
           /\ end' = IF n = 0 THEN "eof" ELSE end
           /\ Drops(h + k + 1)
  <2>1. PICK m \in Nat : m = q + k + 1
    OBVIOUS
  <2>2. m = p + (h + k + 1) /\ h + k + 1 \in Nat
    BY <2>1, <1>4
  <2>3. OnWire(s \o x, m)'
    BY <2>2, <1>9, <1>r, <1>t, <1>w, Advance
  <2>4. m <= Len(s)
    BY <2>1, <1>6
  <2>c. s[q + k + 1].t = "crlf"
    <3>1. PICK j \in Nat : j = h + k + 1
      OBVIOUS
    <3>2. 1 <= j /\ j <= Len(wire) /\ p + j <= Len(s) /\ p + j = q + k + 1
      <4>1. h + k < Len(wire) /\ q + k + 1 <= Len(s) /\ q = p + h
        BY <1>9, <1>4, <1>6
      <4> QED BY <3>1, <4>1, <1>t
    <3>3. wire[j] = s[p + j]
      BY <3>2, <1>w
    <3> QED BY <3>1, <3>2, <3>3, <1>9
  <2>5. DataWithin(s, m) = got'
    <3>1. q + k \in Nat /\ s[(q + k) + 1].t # "data"
      BY <2>c
    <3> QED BY <3>1, <1>7, <2>1, DataNext
  <2>6. CASE n = 0
    <3>1. end' = "eof" /\ m = Len(s)
      BY <2>6, <2>c, <1>9, <1>6, <2>1 DEF AtChunkEnd
    <3>2. ReaderAt(s, m)'
      BY <3>1, <1>r, <1>1, <1>3, <2>5 DEF ReaderAt
    <3> QED BY <2>3, <2>4, <3>2
  <2>7. CASE n # 0
    <3>1. m < Len(s) /\ m + 1 = q + k + 2 /\ s[m + 1].t = "size"
      <4>1. m < Len(s) /\ s[m + 1].t = "size"
        BY <2>7, <1>9, <1>6, <2>1 DEF AtChunkEnd
      <4>2. m + 1 = q + k + 2
        BY <2>1
      <4> QED BY <4>1, <4>2
    <3>2. end' = "none" /\ size' = -1 /\ count' = 0
      BY <2>7, <1>9, <1>r
    <3>3. ReaderAt(s, m)'
      BY <3>1, <3>2, <1>r, <1>1, <1>3, <2>5 DEF ReaderAt
    <3> QED BY <2>3, <2>4, <3>3
  <2> QED BY <2>6, <2>7
<1>10. CASE /\ count + k = n
            /\ IF h + k = Len(wire) THEN ~open ELSE wire[h + k + 1].t # "crlf"
            /\ count' = count + k /\ size' = n /\ end' = "error"
            /\ Drops(h + k)
  <2>1. PICK m \in Nat : m = q + k
    OBVIOUS
  <2>2. m = p + (h + k) /\ h + k \in Nat /\ Drops(h + k)
    BY <2>1, <1>4, <1>10
  <2>3. OnWire(s \o x, m)'
    BY <2>2, <1>r, <1>t, <1>w, Advance
  <2>4. m <= Len(s) /\ m + 1 <= Len(s)
    BY <2>1, <1>6, <1>t
  <2>5. CASE h + k = Len(wire)
    <3>1. cut
      <4>1. Len(wire) < Len(s) - p
        BY <2>5, <1>4, <1>6, <1>t
      <4> QED BY <4>1, <1>w, <1>t
    <3>2. wire' = <<>>
      <4>1. wire' \in Seq(Token) /\ Len(wire') = 0
        BY <2>5, <2>2, <1>t DEF Drops
      <4> QED BY <4>1
    <3>3. ReaderAt(s, m)'
      BY <1>r, <1>1, <1>3, <1>7, <1>10, <2>1, <3>1, <3>2 DEF ReaderAt
    <3> QED BY <2>3, <2>4, <3>3
  <2>6. CASE h + k # Len(wire)
    <3>1. PICK j \in Nat : j = h + k + 1
      OBVIOUS
    <3>2. 1 <= j /\ j <= Len(wire) /\ p + j <= Len(s) /\ p + j = m + 1
      BY <2>1, <2>4, <2>6, <3>1, <1>2, <1>4, <1>t
    <3>3. wire[j] = s[m + 1] /\ wire[j].t # "crlf"
      BY <3>1, <3>2, <2>6, <1>w, <1>10
    <3>4. s[m + 1].t = "trailer"
      <4>1. q + k + 1 = m + 1
        BY <2>1
      <4> QED BY <4>1, <3>3, <1>6, <1>10 DEF AtChunkEnd
    <3>5. wire' # <<>> /\ wire'[1] = wire[j]
      <4>1. /\ wire' \in Seq(Token) /\ Len(wire') = Len(wire) - (h + k)
            /\ \A i \in 1..(Len(wire) - (h + k)) : wire'[i] = wire[(h + k) + i]
        BY <2>2 DEF Drops
      <4>2. 1 \in 1..(Len(wire) - (h + k)) /\ (h + k) + 1 = j
        BY <3>1, <3>2, <1>t
      <4>3. wire'[1] = wire[j] /\ Len(wire') # 0
        BY SMTT(60), <4>1, <4>2
      <4> QED BY <4>1, <4>3
    <3>6. Lost'
      BY <3>3, <3>4, <3>5 DEF Lost
    <3>7. m + 1 \in DOMAIN s /\ Untaken(s[m + 1]) /\ got' = DataWithin(s, (m + 1) - 1)
      <4>1. (m + 1) - 1 = m /\ m + 1 \in 1..Len(s)
        BY <2>4, <1>t
      <4> QED BY <4>1, <3>4, <1>7, <2>1 DEF Untaken
    <3>8. ReaderAt(s, m)'
      <4>1. \E i \in DOMAIN s : Untaken(s[i]) /\ got' = DataWithin(s, i - 1)
        BY <3>7
      <4> QED BY <1>r, <1>1, <1>3, <1>7, <1>10, <2>1, <3>6, <4>1 DEF ReaderAt
    <3> QED BY <2>3, <2>4, <3>8
  <2> QED BY <2>5, <2>6
<1> QED BY <1>2, <1>8, <1>9, <1>10

(* Nor is such a body broken, unless the server died or a size line is odd.*)
LEMMA ReadBrokenAt ==
  ASSUME Typed, ReadBroken,
         NEW s \in Seq(Token), NEW x \in Seq(Token), NEW p \in Nat, p <= Len(s),
         OnWire(s \o x, p), ReaderAt(s, p)
  PROVE  \E q \in Nat : q <= Len(s) /\ OnWire(s \o x, q)' /\ ReaderAt(s, q)'
<1>t. /\ wire \in Seq(Token) /\ Len(wire) \in Nat /\ Len(s) \in Nat
  BY DEF Typed, TypeOK
<1>r. /\ reader = "chunked" /\ end = "none" /\ end' = "error"
      /\ UNCHANGED <<open, cut, reader, remaining, got>>
      /\ wire' = IF wire = <<>> THEN wire ELSE Tail(wire)
  BY DEF ReadBroken, Reading
<1>w. /\ s \o x \in Seq(Token)
      /\ \A i \in Nat : 1 <= i /\ i <= Len(wire) /\ p + i <= Len(s) => wire[i] = s[p + i]
      /\ ~cut => Len(wire) >= Len(s) - p
  BY <1>t, BodyOnWire
<1>1. /\ remaining = -1 /\ WellChunked(s) /\ got = DataWithin(s, p)
      /\ IF size = -1 THEN count = 0 /\ p < Len(s) /\ s[p + 1].t = "size"
         ELSE size > 0 /\ count < size /\ InChunk(s, p, size, count)
  BY <1>r DEF ReaderAt
<1>2. CASE wire = <<>>
  <2>1. Len(wire) = 0
    BY <1>2, <1>t, EmptyWire
  <2>2. p < Len(s)
    BY <1>1, <1>t DEF InChunk
  <2>3. cut
    BY <2>1, <2>2, <1>w, <1>t
  <2>4. UNCHANGED wire
    BY <1>2, <1>r
  <2>5. OnWire(s \o x, p)'
    BY <2>4, <1>r DEF OnWire
  <2>6. ReaderAt(s, p)'
    BY <2>3, <2>4, <1>1, <1>2, <1>r DEF ReaderAt
  <2> QED BY <2>5, <2>6
<1>3. CASE wire # <<>>
  <2>1. /\ Tail(wire) \in Seq(Token) /\ Len(Tail(wire)) = Len(wire) - 1
        /\ \A i \in 1..(Len(wire) - 1) : Tail(wire)[i] = wire[i + 1]
        /\ Head(wire) = wire[1] /\ Head(wire) \in Token /\ Len(wire) \in Nat \ {0}
    BY <1>3, <1>t, TailShape
  <2>2. size = -1 => /\ p + 1 \in 1..Len(s) /\ s[p + 1].t = "size" /\ wire[1] = s[p + 1]
                     /\ InChunk(s, p + 1, s[p + 1].k, 0) /\ p + 1 < Len(s)
    <3>1. SUFFICES ASSUME size = -1
                   PROVE  /\ p + 1 \in 1..Len(s) /\ s[p + 1].t = "size" /\ wire[1] = s[p + 1]
                          /\ InChunk(s, p + 1, s[p + 1].k, 0) /\ p + 1 < Len(s)
      OBVIOUS
    <3>2. p + 1 \in 1..Len(s) /\ s[p + 1].t = "size"
      BY <3>1, <1>1, <1>t
    <3>3. wire[1] = s[p + 1]
      BY <3>2, <2>1, <1>w
    <3>4. InChunk(s, p + 1, s[p + 1].k, 0)
      BY <3>2, <1>1 DEF WellChunked
    <3>5. p + 1 < Len(s)
      BY SMTT(60), <3>4, <1>t DEF InChunk
    <3> QED BY <3>2, <3>3, <3>4, <3>5
  <2>3. size = -1
    <3>1. SUFFICES ASSUME size # -1 PROVE FALSE
      OBVIOUS
    <3>2. AfterSize = <<>>
      BY <3>1, <1>3 DEF ReadBroken, NeedsSize
    <3> QED BY <3>1, <3>2, <1>3 DEF AfterSize, NeedsSize
  <2>4. Drops(1)
    BY <2>1, <1>3, <1>r DEF Drops
  <2>5. OnWire(s \o x, p + 1)'
    BY <2>4, <1>r, <1>t, <1>w, Advance
  <2>6. DataWithin(s, p + 1) = DataWithin(s, p)
    BY <2>2, <2>3, DataNext
  <2>7. CASE SizeLine
    <3>1. AfterSize = <<>>
      BY <2>7, <1>3 DEF ReadBroken, NeedsSize
    <3>2. Len(wire) = 1 /\ wire' = <<>>
      <4>1. Tail(wire) = <<>>
        BY <3>1, <2>3 DEF AfterSize, NeedsSize
      <4>2. wire' = Tail(wire) /\ Len(Tail(wire)) = 0
        BY <4>1, <1>3, <1>r
      <4> QED BY <4>1, <4>2, <2>1
    <3>3. cut
      BY <3>2, <2>2, <2>3, <1>w, <1>t
    <3>4. ReaderAt(s, p + 1)'
      BY <3>2, <3>3, <2>6, <1>1, <1>r DEF ReaderAt
    <3> QED BY <2>2, <2>3, <2>5, <3>4, <1>t
  <2>8. CASE ~SizeLine
    <3>1. Untaken(s[p + 1])
      BY <2>1, <2>2, <2>3, <2>8, <1>3 DEF SizeLine, Untaken
    <3>2. p + 1 \in DOMAIN s /\ got' = DataWithin(s, (p + 1) - 1)
      BY <2>2, <2>3, <1>1, <1>r
    <3>3. Lost'
      <4>1. CASE wire' = <<>>
        <5>1. Len(wire) = 1
          <6>1. Tail(wire) = <<>>
            BY <4>1, <1>3, <1>r
          <6>2. Len(<<>>) = 0
            OBVIOUS
          <6>3. Len(Tail(wire)) = 0
            BY <6>1, <6>2, Zenon
          <6> QED BY <6>3, <2>1
        <5>2. cut
          BY <5>1, <2>2, <2>3, <1>w, <1>t
        <5> QED BY <4>1, <5>2, <1>r DEF Lost
      <4>2. CASE wire' # <<>>
        <5>1. Len(wire) >= 2 /\ wire'[1] = wire[2]
          <6>0. wire' = Tail(wire) /\ wire' \in Seq(Token)
            BY <2>1, <1>3, <1>r
          <6>1. wire' = Tail(wire) /\ Len(wire') # 0
            BY <6>0, <4>2
          <6>2. Len(wire) - 1 # 0
            BY <6>1, <2>1
          <6>3. 1 \in 1..(Len(wire) - 1) /\ Len(wire) >= 2
            BY <6>2, <2>1
          <6>4. Tail(wire)[1] = wire[1 + 1]
            BY <6>3, <2>1
          <6> QED BY <6>1, <6>3, <6>4
        <5>2. p + 2 \in 1..Len(s)
          BY <2>2, <2>3, <1>t
        <5>3. wire[2] = s[p + 2]
          BY <5>1, <5>2, <1>w
        <5>4. s[p + 2].t # "head"
          BY <5>2, <1>1 DEF WellChunked
        <5> QED BY <4>2, <5>1, <5>3, <5>4 DEF Lost
      <4> QED BY <4>1, <4>2
    <3>4. ReaderAt(s, p + 1)'
      <4>1. \E i \in DOMAIN s : Untaken(s[i]) /\ got' = DataWithin(s, i - 1)
        BY <3>1, <3>2
      <4> QED BY <3>3, <4>1, <2>6, <1>1, <1>r DEF ReaderAt
    <3> QED BY <2>2, <2>3, <2>5, <3>4, <1>t
  <2> QED BY <2>7, <2>8
<1> QED BY <1>2, <1>3

(* ReadRaw in a body that is all data.                                     *)
LEMMA ReadRawAt ==
  ASSUME Typed, NEW b \in 1..MaxRead, ReadRaw(b),
         NEW s \in Seq(Token), NEW x \in Seq(Token), NEW p \in Nat, p <= Len(s),
         OnWire(s \o x, p), ReaderAt(s, p)
  PROVE  \E q \in Nat : q <= Len(s) /\ OnWire(s \o x, q)' /\ ReaderAt(s, q)'
<1>t. /\ wire \in Seq(Token) /\ Len(wire) \in Nat /\ Len(s) \in Nat
      /\ remaining \in Nat \cup {-1} /\ got \in Nat
  BY DEF Typed, TypeOK
<1>r. /\ reader = "raw" /\ end = "none" /\ remaining # 0
      /\ UNCHANGED <<open, cut, reader>>
  BY DEF ReadRaw, Reading
<1>w. /\ s \o x \in Seq(Token)
      /\ ~cut => Len(wire) >= Len(s) - p
  BY <1>t, BodyOnWire
<1>1. /\ \A i \in 1..Len(s) : s[i].t = "data"
      /\ remaining = Len(s) - p /\ got = DataWithin(s, p)
  BY <1>r DEF ReaderAt
<1>2. PICK n \in Nat :
           /\ Drops(n) /\ Took(n) /\ n <= Clip(b)
           /\ \/ end' = end
              \/ end' = "eof" /\ n = Len(wire) /\ n < Clip(b)
  BY RawTakes
<1>3. /\ got' = got + n /\ n <= remaining /\ remaining' = remaining - n
      /\ Clip(b) \in Nat /\ Clip(b) <= remaining
  <2>1. remaining > 0
    BY <1>r, <1>1, <1>t
  <2>2. Clip(b) \in Nat /\ Clip(b) <= remaining
    BY <2>1, <1>t, ClipBounds
  <2> QED BY <2>1, <2>2, <1>2, TookTyped
<1>4. PICK m \in Nat : m = p + n
  OBVIOUS
<1>5. m <= Len(s) /\ remaining' = Len(s) - m
  BY <1>1, <1>3, <1>4, <1>t
<1>6. OnWire(s \o x, m)'
  BY <1>2, <1>4, <1>r, <1>t, <1>w, Advance
<1>7. DataWithin(s, m) = got'
  <2>1. \A i \in 1..n : s[p + i].t = "data"
    <3>1. \A i \in 1..n : p + i \in 1..Len(s)
      BY <1>4, <1>5, <1>t
    <3> QED BY <3>1, <1>1
  <2> QED BY <2>1, <1>1, <1>3, <1>4, DataRun
<1>8. end' # "none" => cut' /\ wire' = <<>>
  <2>1. SUFFICES ASSUME end' # "none" PROVE cut' /\ wire' = <<>>
    OBVIOUS
  <2>2. n = Len(wire) /\ n < Clip(b)
    BY <2>1, <1>2, <1>r
  <2>3. Len(wire) < Len(s) - p
    BY SMTT(60), <2>2, <1>1, <1>3, <1>t
  <2>4. wire' \in Seq(Token) /\ Len(wire') = 0
    BY <2>2, <1>2, <1>t DEF Drops
  <2>5. wire' = <<>>
    BY <2>4
  <2> QED BY <2>3, <2>5, <1>w, <1>r, <1>t
<1>9. ReaderAt(s, m)'
  BY <1>r, <1>1, <1>5, <1>7, <1>8 DEF ReaderAt
<1> QED BY <1>5, <1>6, <1>9

-----------------------------------------------------------------------------
LEMMA StreamInit == Init => StreamInv
<1> SUFFICES ASSUME Init PROVE StreamInv
  OBVIOUS
<1>1. wire \in Seq(Token) /\ Len(wire) = 0 /\ Len(<<>>) = 0
  BY DEF Init
<1>2. OnWire(<<>>, 0)
  BY <1>1 DEF OnWire
<1> QED BY <1>2 DEF Init, StreamInv, Extras

(* What the invariant says while a body is read, for a step that reads     *)
(* from it.                                                                *)
LEMMA BodyStep ==
  ASSUME Typed, StreamInv, phase = "body",
         UNCHANGED <<open, cut, phase, cur>>,
         \A s, x \in Seq(Token) : \A p \in Nat :
            p <= Len(s) /\ OnWire(s \o x, p) /\ ReaderAt(s, p) =>
              \E q \in Nat : q <= Len(s) /\ OnWire(s \o x, q)' /\ ReaderAt(s, q)'
  PROVE  StreamInv'
<1>1. PICK x \in Extras :
        /\ open => x = <<>> /\ ~cut
        /\ \E r \in Responses, p \in Nat :
             /\ cur = <<r>> /\ p <= Len(BodyTokens(r))
             /\ OnWire(BodyTokens(r) \o x, p) /\ ReaderAt(BodyTokens(r), p)
  BY DEF StreamInv
<1>2. PICK r \in Responses, p \in Nat :
        /\ cur = <<r>> /\ p <= Len(BodyTokens(r))
        /\ OnWire(BodyTokens(r) \o x, p) /\ ReaderAt(BodyTokens(r), p)
  BY <1>1
<1>3. x \in Seq(Token) /\ BodyTokens(r) \in Seq(Token)
  BY ExtrasType, BodyType
<1>4. PICK q \in Nat : /\ q <= Len(BodyTokens(r))
                       /\ OnWire(BodyTokens(r) \o x, q)' /\ ReaderAt(BodyTokens(r), q)'
  BY <1>2, <1>3
<1>5. phase' = "body" /\ cur' = <<r>> /\ (open' => x = <<>> /\ ~cut')
  BY <1>1, <1>2
<1> QED BY <1>4, <1>5 DEF StreamInv

LEMMA StreamStep ==
  ASSUME \A r \in Responses : Framed(r)
  PROVE  Typed /\ StreamInv /\ [Next]_streamVars => StreamInv'
<1> SUFFICES ASSUME Typed, StreamInv, [Next]_streamVars PROVE StreamInv'
  OBVIOUS
<1>t. /\ wire \in Seq(Token) /\ Len(wire) \in Nat /\ buffered \in Nat
      /\ remaining \in Nat \cup {-1}
  BY DEF Typed, TypeOK
<1>e. <<>> \in Seq(Token) /\ <<>> \in Extras
  BY DEF Extras
<1>x. PICK x \in Extras :
        /\ open => x = <<>> /\ ~cut
        /\ phase \in {"idle", "head"} /\ end = "error" => Lost
        /\ phase = "idle" /\ end # "error" => OnWire(x, 0)
        /\ phase = "head" /\ end # "error" => \E r \in Responses : OnWire(Message(r) \o x, 0)
        /\ phase = "body" => \E r \in Responses, p \in Nat :
                               /\ cur = <<r>> /\ p <= Len(BodyTokens(r))
                               /\ OnWire(BodyTokens(r) \o x, p)
                               /\ ReaderAt(BodyTokens(r), p)
  BY DEF StreamInv
<1>s. x \in Seq(Token)
  BY ExtrasType
<1>n. ASSUME NEW s \in Seq(Token) PROVE s \o <<>> = s
  OBVIOUS
<1>a. ASSUME NEW r \in Responses
      PROVE  wire \o <<HeadToken(r)>> \o BodyTokens(r) = wire \o Message(r)
  <2>1. PICK h \in Token : h = HeadToken(r)
    BY DEF Token
  <2>2. PICK s \in Seq(Token) : s = BodyTokens(r)
    BY BodyType
  <2>3. wire \o <<h>> \o s = wire \o (<<h>> \o s)
    BY SMTT(60), <1>t
  <2> QED BY <2>1, <2>2, <2>3 DEF Message
<1>1. ASSUME NEW r \in Menu, Serve(r) PROVE StreamInv'
  <2>1. r \in Responses /\ open /\ phase = "idle" /\ UNCHANGED <<cut, end>>
    BY <1>1 DEF Serve, Responses, sessionVars
  <2>2. x = <<>> /\ ~cut /\ (end # "error" => OnWire(<<>>, 0))
    BY <2>1, <1>x
  <2>3. wire' = wire \o Message(r) /\ phase' = "head" /\ Message(r) \in Seq(Token)
    BY <1>1, <2>1, <1>a, MessageType DEF Serve
  <2>4. 0 <= Len(<<>>)
    OBVIOUS
  <2>5. end # "error" => OnWire(<<>> \o Message(r), 0)'
    BY <2>1, <2>2, <2>3, <2>4, <1>t, <1>e, Grow
  <2>6. <<>> \o Message(r) = Message(r) \o <<>>
    BY <2>3
  <2>7. end' # "error" => OnWire(Message(r) \o <<>>, 0)'
    BY <2>1, <2>5, <2>6
  <2>8. end' = "error" => Lost'
    BY <2>1, <2>2, <2>3, <1>t, <1>x, LostGrows
  <2> QED BY <2>1, <2>2, <2>3, <2>7, <2>8, <1>e DEF StreamInv
<1>2. ASSUME NEW u \in Unasked, GiveUp(u) PROVE StreamInv'
  <2>1. /\ u \in Responses /\ open /\ phase \in {"head", "body"} /\ ~open'
        /\ UNCHANGED <<cut, phase, cur, remaining, reader, size, count, got, end>>
    BY <1>2 DEF GiveUp, Responses, sessionVars
  <2>2. x = <<>> /\ ~cut
    BY <2>1, <1>x
  <2>3. /\ wire' = wire \o Message(u) /\ Message(u) \in Seq(Token) /\ Message(u) \in Extras
    BY <1>2, <2>1, <1>a, MessageType DEF GiveUp, Extras
  <2>l. Lost => Lost'
    BY <2>2, <2>3, <1>t, LostGrows
  <2>6. CASE phase = "head" /\ end = "error"
    BY <2>1, <2>3, <2>6, <2>l, <1>x DEF StreamInv
  <2>4. CASE phase = "head" /\ end # "error"
    <3>1. PICK r \in Responses : OnWire(Message(r) \o <<>>, 0)
      BY <2>2, <2>4, <1>x
    <3>2. PICK m \in Seq(Token) : m = Message(r)
      BY MessageType
    <3>4. OnWire(m, 0) /\ 0 <= Len(m)
      BY <3>1, <3>2, <1>n
    <3>5. OnWire(m \o Message(u), 0)'
      BY <2>1, <2>2, <2>3, <3>4, <1>t, Grow
    <3>3. OnWire(Message(r) \o Message(u), 0)'
      BY <3>2, <3>5
    <3> QED BY <2>1, <2>3, <2>4, <3>3 DEF StreamInv
  <2>5. CASE phase = "body"
    <3>1. PICK r \in Responses, p \in Nat :
            /\ cur = <<r>> /\ p <= Len(BodyTokens(r))
            /\ OnWire(BodyTokens(r) \o <<>>, p) /\ ReaderAt(BodyTokens(r), p)
      BY <2>2, <2>5, <1>x
    <3>2. BodyTokens(r) \in Seq(Token) /\ OnWire(BodyTokens(r), p)
      BY <3>1, <1>n, BodyType
    <3>3. OnWire(BodyTokens(r) \o Message(u), p)'
      BY <2>1, <2>2, <2>3, <3>1, <3>2, <1>t, Grow
    <3>4. ReaderAt(BodyTokens(r), p)'
      BY <2>1, <2>2, <2>l, <3>1 DEF ReaderAt
    <3> QED BY <2>1, <2>3, <2>5, <3>1, <3>3, <3>4 DEF StreamInv
  <2> QED BY <2>1, <2>4, <2>5, <2>6
<1>3. CASE NextRequest
  <2>1. /\ phase = "idle" /\ phase' = "head" /\ ~open /\ wire # <<>>
        /\ UNCHANGED <<wire, open, cut, cur, end>>
    BY <1>3 DEF NextRequest, sessionVars
  <2>l. CASE end = "error"
    <3>1. Lost'
      BY <2>1, <2>l, <1>x DEF Lost
    <3> QED BY <2>1, <2>l, <3>1, <1>x DEF StreamInv
  <2>e. CASE end # "error"
    <3>2. OnWire(x, 0)
      BY <2>1, <2>e, <1>x
    <3>3. x # <<>>
      <4>1. SUFFICES ASSUME x = <<>> PROVE FALSE
        OBVIOUS
      <4>2. Len(wire) # 0 /\ Len(x) = 0
        BY <2>1, <4>1, <1>t, EmptyWire
      <4> QED BY <3>2, <4>2, <1>t DEF OnWire
    <3>4. PICK u \in Unasked : x = Message(u)
      BY <3>3 DEF Extras
    <3>5. u \in Responses /\ Message(u) \o <<>> = x
      BY <3>4, <1>s, <1>n DEF Responses
    <3>6. OnWire(Message(u) \o <<>>, 0)'
      BY <2>1, <3>2, <3>5 DEF OnWire
    <3> QED BY <2>1, <2>e, <3>5, <3>6, <1>e DEF StreamInv
  <2> QED BY <2>l, <2>e
<1>4. CASE Cut
  <2>1. PICK k \in buffered..Len(wire) - 1 : wire' = SubSeq(wire, 1, k)
    BY <1>4 DEF Cut
  <2>2. /\ k \in 0..Len(wire) /\ cut' = TRUE /\ ~open' /\ wire # <<>>
        /\ phase \in {"head", "body"}
        /\ UNCHANGED <<phase, cur, remaining, reader, size, count, got, end>>
    BY <1>4, <1>t, <2>1 DEF Cut, sessionVars
  <2>l. Lost => Lost'
    BY <2>1, <2>2, <1>t, LostCutShort
  <2>5. CASE phase = "head" /\ end = "error"
    BY <2>2, <2>5, <2>l, <1>x DEF StreamInv
  <2>3. CASE phase = "head" /\ end # "error"
    <3>1. PICK r \in Responses : OnWire(Message(r) \o x, 0)
      BY <2>3, <1>x
    <3>2. Message(r) \o x \in Seq(Token)
      BY <1>s, MessageType
    <3>3. OnWire(Message(r) \o x, 0)'
      BY <2>1, <2>2, <3>1, <3>2, <1>t, CutShort
    <3> QED BY <2>2, <2>3, <3>3 DEF StreamInv
  <2>4. CASE phase = "body"
    <3>1. PICK r \in Responses, p \in Nat :
            /\ cur = <<r>> /\ p <= Len(BodyTokens(r))
            /\ OnWire(BodyTokens(r) \o x, p) /\ ReaderAt(BodyTokens(r), p)
      BY <2>4, <1>x
    <3>2. BodyTokens(r) \o x \in Seq(Token)
      BY <1>s, BodyType
    <3>3. OnWire(BodyTokens(r) \o x, p)'
      BY <2>1, <2>2, <3>1, <3>2, <1>t, CutShort
    <3>4. ReaderAt(BodyTokens(r), p)'
      BY <2>2, <2>l, <3>1 DEF ReaderAt
    <3> QED BY <2>2, <2>4, <3>1, <3>3, <3>4 DEF StreamInv
  <2> QED BY <2>2, <2>3, <2>4, <2>5
<1>5. CASE ReadResponse
  <2>1. /\ phase = "head" /\ UNCHANGED <<open, cut>>
        /\ size' = -1 /\ count' = 0 /\ got' = 0 /\ end' = "none"
    BY <1>5 DEF ReadResponse
  <2>2. CASE wire # <<>> /\ Head(wire).t = "head" /\ ~Refused(Head(wire).r)
    <3>0. end # "error"
      <4>1. Head(wire) = wire[1]
        BY <2>2, <1>t, TailShape
      <4> QED BY <4>1, <2>1, <2>2, <1>x DEF Lost
    <3>1. PICK r \in Responses : OnWire(Message(r) \o x, 0)
      BY <2>1, <3>0, <1>x
    <3>2. PICK m \in Seq(Token) : m = Message(r) \o x
      <4>1. PICK s \in Seq(Token) : s = Message(r)
        BY MessageType
      <4>2. s \o x \in Seq(Token)
        BY <1>s
      <4> QED BY <4>1, <4>2
    <3>3. /\ Len(Message(r)) >= 1 /\ Message(r)[1] = HeadToken(r)
          /\ Message(r) \in Seq(Token)
      BY MessageType, BodyType
    <3>4. m[1] = HeadToken(r)
      BY <3>2, <3>3, <1>s
    <3>5. /\ Tail(wire) \in Seq(Token) /\ Len(Tail(wire)) = Len(wire) - 1
          /\ \A i \in 1..(Len(wire) - 1) : Tail(wire)[i] = wire[i + 1]
          /\ Head(wire) = wire[1] /\ Len(wire) \in Nat \ {0}
      BY <2>2, <1>t, TailShape
    <3>6. Head(wire) = HeadToken(r)
      <4>1. 1 \in 1..Len(wire) /\ 0 + 1 = 1
        BY <3>5
      <4>2. wire[1] = m[0 + 1]
        BY <3>1, <3>2, <4>1 DEF OnWire
      <4> QED BY <4>1, <4>2, <3>4, <3>5
    <3>7. Head(wire).r = r /\ ~Refused(r)
      BY <2>2, <3>6 DEF HeadToken
    <3>8. /\ phase' = "body" /\ cur' = <<r>> /\ remaining' = ContentLength(r)
          /\ reader' = IF TransferEncoding(r) # <<>> THEN "chunked"
                       ELSE IF ContentLength(r) > 0 THEN "raw" ELSE "nil"
          /\ wire' = Tail(wire)
      BY <1>5, <2>2, <3>7 DEF ReadResponse
    <3>9. Drops(1)
      BY <3>5, <3>8 DEF Drops
    <3>10. OnWire(m, 0 + 1)'
      BY <3>1, <3>2, <3>9, <2>1, <1>t, Advance
    <3>11. PICK h \in Token : h = HeadToken(r)
      BY DEF Token
    <3>12. PICK s \in Seq(Token) : s = BodyTokens(r)
      BY BodyType
    <3>13. /\ m = <<h>> \o (s \o x) /\ <<h>> \in Seq(Token) /\ s \o x \in Seq(Token)
           /\ Len(<<h>>) = 0 + 1
      <4>1. m = (<<h>> \o s) \o x
        BY <3>2, <3>11, <3>12 DEF Message
      <4> QED BY SMTT(60), <4>1, <1>s
    <3>14. PICK z \in Seq(Token) : z = s \o x
      BY <3>13
    <3>15. OnWire(<<h>> \o z, Len(<<h>>))'
      BY <3>10, <3>13, <3>14
    <3>16. wire' \in Seq(Token)
      BY <3>5, <3>8
    <3>17. OnWire(z, 0)'
      BY <3>13, <3>15, <3>16, After
    <3>18. /\ TransferEncoding(r) # <<>> => WellChunked(s)
           /\ ContentLength(r) > 0 => /\ Len(s) = ContentLength(r)
                                      /\ \A i \in 1..Len(s) : s[i].t = "data"
           /\ ContentLength(r) = 0 => s = <<>>
           /\ ContentLength(r) \in Nat \cup {-1}
           /\ TransferEncoding(r) # <<>> => ContentLength(r) = -1
      BY <3>7, <3>12, FramedBody, HeadType
    <3>19. ReaderAt(s, 0)'
      <4>1. WellChunked(s) => 0 < Len(s) /\ s[0 + 1].t = "size"
        BY DEF WellChunked
      <4>2. got' = DataWithin(s, 0)
        BY <2>1, DataStart
      <4>3. reader' = "raw" => (\A i \in 1..Len(s) : s[i].t = "data") /\ remaining' = Len(s) - 0
        BY <3>8, <3>18
      <4>4. reader' = "nil" => remaining' \in {-1, 0} /\ (remaining' = 0 => s = <<>>)
        BY <3>8, <3>18
      <4>5. reader' = "chunked" => remaining' = -1 /\ WellChunked(s)
        BY <3>8, <3>18
      <4> QED BY <2>1, <4>1, <4>2, <4>3, <4>4, <4>5 DEF ReaderAt
    <3>20. open' => x = <<>> /\ ~cut'
      BY <2>1, <1>x
    <3>21. 0 \in Nat /\ 0 <= Len(BodyTokens(r))
      BY BodyType
    <3>22. OnWire(BodyTokens(r) \o x, 0)' /\ ReaderAt(BodyTokens(r), 0)'
      BY <3>12, <3>14, <3>17, <3>19
    <3> QED BY <3>8, <3>20, <3>21, <3>22 DEF StreamInv
  <2>3. CASE ~(wire # <<>> /\ Head(wire).t = "head" /\ ~Refused(Head(wire).r))
    <3>1. phase' = "closed"
      BY <1>5, <2>3 DEF ReadResponse
    <3> QED BY <2>1, <3>1, <1>x DEF StreamInv
  <2> QED BY <2>2, <2>3
<1>6. CASE ReadEnd
  <2>1. /\ phase = "body" /\ remaining = 0 /\ end' = "eof"
        /\ UNCHANGED <<wire, open, cut, phase, cur, remaining, reader, size, count, got>>
    BY <1>6 DEF ReadEnd, Reading
  <2>2. ASSUME NEW s \in Seq(Token), NEW y \in Seq(Token), NEW p \in Nat, p <= Len(s),
               OnWire(s \o y, p), ReaderAt(s, p)
        PROVE  OnWire(s \o y, p)' /\ ReaderAt(s, p)'
    <3>1. OnWire(s \o y, p)'
      BY <2>1, <2>2 DEF OnWire
    <3>2. Len(s) \in Nat
      OBVIOUS
    <3>3. p = Len(s)
      <4>1. CASE reader = "raw"
        BY <2>1, <2>2, <3>2, <4>1 DEF ReaderAt
      <4>2. CASE reader = "nil"
        <5>1. s = <<>>
          BY <2>1, <2>2, <4>2 DEF ReaderAt
        <5>2. Len(s) = 0
          BY <5>1
        <5> QED BY <2>2, <5>2
      <4>3. reader # "chunked"
        BY <2>1, <2>2 DEF ReaderAt
      <4> QED BY <4>1, <4>2, <4>3 DEF Typed, TypeOK
    <3>4. ReaderAt(s, p)'
      BY <2>1, <2>2, <3>3 DEF ReaderAt
    <3> QED BY <3>1, <3>4
  <2> QED BY <2>1, <2>2, BodyStep
<1>7. CASE ReadNil
  <2>1. phase' = "panic" /\ UNCHANGED <<open, cut>>
    BY <1>7 DEF ReadNil
  <2> QED BY <2>1, <1>x DEF StreamInv
<1>8. ASSUME NEW b \in 1..MaxRead, ReadRaw(b) PROVE StreamInv'
  <2>1. phase = "body" /\ UNCHANGED <<open, cut, phase, cur>>
    BY <1>8 DEF ReadRaw, Reading
  <2>2. ASSUME NEW s \in Seq(Token), NEW y \in Seq(Token), NEW p \in Nat, p <= Len(s),
               OnWire(s \o y, p), ReaderAt(s, p)
        PROVE  \E q \in Nat : q <= Len(s) /\ OnWire(s \o y, q)' /\ ReaderAt(s, q)'
    BY <1>8, <2>2, ReadRawAt
  <2> QED BY <2>1, <2>2, BodyStep
<1>9. ASSUME NEW b \in 1..MaxRead, ReadChunked(b) PROVE StreamInv'
  <2>1. phase = "body" /\ UNCHANGED <<open, cut, phase, cur>>
    BY <1>9 DEF ReadChunked, Reading
  <2>2. ASSUME NEW s \in Seq(Token), NEW y \in Seq(Token), NEW p \in Nat, p <= Len(s),
               OnWire(s \o y, p), ReaderAt(s, p)
        PROVE  \E q \in Nat : q <= Len(s) /\ OnWire(s \o y, q)' /\ ReaderAt(s, q)'
    BY <1>9, <2>2, ReadChunkedAt
  <2> QED BY <2>1, <2>2, BodyStep
<1>10. CASE ReadBroken
  <2>1. phase = "body" /\ UNCHANGED <<open, cut, phase, cur>>
    BY <1>10 DEF ReadBroken, Reading
  <2>2. ASSUME NEW s \in Seq(Token), NEW y \in Seq(Token), NEW p \in Nat, p <= Len(s),
               OnWire(s \o y, p), ReaderAt(s, p)
        PROVE  \E q \in Nat : q <= Len(s) /\ OnWire(s \o y, q)' /\ ReaderAt(s, q)'
    BY <1>10, <2>2, ReadBrokenAt
  <2> QED BY <2>1, <2>2, BodyStep
<1>11. CASE CloseBody
  <2>1. /\ phase = "body" /\ end # "none" /\ phase' \in {"idle", "closed"}
        /\ UNCHANGED <<wire, open, cut, cur, end>>
    BY <1>11 DEF CloseBody, sessionVars
  <2>2. PICK r \in Responses, p \in Nat :
          /\ p <= Len(BodyTokens(r))
          /\ OnWire(BodyTokens(r) \o x, p) /\ ReaderAt(BodyTokens(r), p)
    BY <2>1, <1>x
  <2>5. end' = "error" => Lost'
    BY <2>1, <2>2 DEF ReaderAt, Lost
  <2>3. end' # "error" => OnWire(x, 0)'
    <3>0. SUFFICES ASSUME end # "error" PROVE OnWire(x, 0)'
      BY <2>1
    <3>1. CASE p = Len(BodyTokens(r))
      <4>1. OnWire(BodyTokens(r) \o x, Len(BodyTokens(r)))'
        BY <2>1, <2>2, <3>1 DEF OnWire
      <4>2. wire' \in Seq(Token) /\ BodyTokens(r) \in Seq(Token)
        BY <2>1, <1>t, BodyType
      <4> QED BY <4>1, <4>2, <1>s, After
    <3>2. CASE cut /\ wire = <<>>
      <4>1. Len(wire') = 0 /\ cut' = cut /\ Len(x) \in Nat
        BY <3>2, <2>1, <1>t, <1>s, EmptyWire
      <4> QED BY <3>2, <4>1 DEF OnWire
    <3> QED BY <2>1, <2>2, <3>0, <3>1, <3>2 DEF ReaderAt
  <2>4. open' => x = <<>> /\ ~cut'
    BY <2>1, <1>x
  <2> QED BY <2>1, <2>3, <2>4, <2>5 DEF StreamInv
<1>12. CASE Redial
  <2>1. /\ wire' = <<>> /\ phase' = "idle" /\ ~cut' /\ end' = "none"
    BY <1>12 DEF Redial, Fresh
  <2>2. Len(wire') = 0 /\ Len(<<>>) = 0
    BY <2>1
  <2>3. OnWire(<<>>, 0)'
    BY <2>2 DEF OnWire
  <2> QED BY <2>1, <2>3, <1>e DEF StreamInv
<1>13. CASE UNCHANGED streamVars
  <2>1. UNCHANGED <<wire, open, cut, phase, cur, remaining, reader, size, count, got, end>>
    BY <1>13 DEF streamVars
  <2>2. \A s, p : OnWire(s, p)' <=> OnWire(s, p)
    BY <2>1 DEF OnWire
  <2>4. Lost' <=> Lost
    BY <2>1 DEF Lost
  <2>5. ASSUME NEW s, NEW p, ReaderAt(s, p) PROVE ReaderAt(s, p)'
    BY <2>1, <2>4, <2>5 DEF ReaderAt
  <2> QED BY <2>1, <2>2, <2>4, <2>5, <1>x DEF StreamInv
<1> QED BY <1>1, <1>2, <1>3, <1>4, <1>5, <1>6, <1>7, <1>8, <1>9, <1>10, <1>11, <1>12, <1>13
        DEF Next

-----------------------------------------------------------------------------
(* Every variable holds values of its kind, whatever the servers send.     *)
THEOREM StreamTypeOK == Spec => []TypeOK
<1>1. Typed => TypeOK
  BY DEF Typed
<1> QED BY <1>1, TypeInit, TypeStep, PTL DEF Spec

LEMMA StreamAlways ==
  ASSUME \A r \in Responses : Framed(r)
  PROVE  Spec => [](Typed /\ StreamInv)
<1>1. Init => Typed /\ StreamInv
  BY TypeInit, StreamInit
<1>2. Typed /\ StreamInv /\ [Next]_streamVars => (Typed /\ StreamInv)'
  BY TypeStep, StreamStep
<1> QED BY <1>1, <1>2, PTL DEF Spec

(* What is unread on a connection that the pool keeps begins with a head   *)
(* exactly if the last body was read to its end: readHeader and Read find  *)
(* the boundary between responses, in any sizes of chunks, buffers and     *)
(* packets; and what Read leaves behind when it refuses a trailer or an odd*)
(* size line, on a connection that Session.Close keeps, is never taken for *)
(* the next response.                                                      *)
THEOREM StreamAligned ==
  ASSUME \A r \in Responses : Framed(r)
  PROVE  Spec => []Aligned
<1>1. Typed /\ StreamInv => Aligned
  <2>1. SUFFICES ASSUME Typed, StreamInv, phase = "idle", wire # <<>>
                 PROVE  Head(wire).t = "head" <=> end # "error"
    BY DEF Aligned
  <2>2. PICK x \in Extras : (end = "error" => Lost) /\ (end # "error" => OnWire(x, 0))
    BY <2>1 DEF StreamInv
  <2>3. /\ wire \in Seq(Token) /\ Len(wire) \in Nat \ {0} /\ Head(wire) = wire[1]
    BY <2>1, TailShape DEF Typed
  <2>4. CASE end = "error"
    BY <2>1, <2>2, <2>3, <2>4 DEF Lost
  <2>5. CASE end # "error"
    <3>1. Len(x) # 0 /\ wire[1] = x[1]
      <4>1. 1 \in 1..Len(wire) /\ 0 + 1 = 1 /\ Len(x) \in Nat
        BY <2>3, ExtrasType
      <4>2. Len(wire) <= Len(x) - 0 /\ wire[1] = x[0 + 1]
        BY <2>2, <2>5, <4>1 DEF OnWire
      <4> QED BY <2>3, <4>1, <4>2
    <3>2. x # <<>>
      BY <3>1
    <3>3. PICK u \in Unasked : x = Message(u)
      BY <3>2 DEF Extras
    <3>4. x[1] = HeadToken(u)
      BY <3>3, MessageType DEF Responses
    <3> QED BY <2>3, <2>5, <3>1, <3>4 DEF HeadToken
  <2> QED BY <2>4, <2>5
<1> QED BY <1>1, StreamAlways, PTL

(* The user who is told io.EOF has read the whole body and nothing else.   *)
THEOREM StreamComplete ==
  ASSUME \A r \in Responses : Framed(r)
  PROVE  Spec => []Complete
<1>1. Typed /\ StreamInv => Complete
  <2>1. SUFFICES ASSUME Typed, StreamInv, phase = "body", end = "eof", ~cut
                 PROVE  got = Units(Resp)
    BY DEF Complete
  <2>2. PICK r \in Responses, p \in Nat : cur = <<r>> /\ ReaderAt(BodyTokens(r), p)
    BY <2>1 DEF StreamInv
  <2>3. p = Len(BodyTokens(r)) /\ got = DataWithin(BodyTokens(r), p)
    BY <2>1, <2>2 DEF ReaderAt
  <2>4. Resp = r
    BY <2>2 DEF Resp
  <2> QED BY <2>3, <2>4 DEF Units
<1> QED BY <1>1, StreamAlways, PTL

(* Read fails when the server dies, and else at a trailer or an odd size   *)
(* line of the body and nowhere but there: the user has all the data before*)
(* it and none from after it. Every other body is read without an error.   *)
THEOREM StreamNoSpuriousError ==
  ASSUME \A r \in Responses : Framed(r)
  PROVE  Spec => []NoSpuriousError
<1>1. Typed /\ StreamInv => NoSpuriousError
  <2>1. SUFFICES ASSUME StreamInv, phase = "body", end = "error", ~cut
                 PROVE  \E i \in DOMAIN BodyTokens(Resp) :
                          /\ Untaken(BodyTokens(Resp)[i])
                          /\ got = DataWithin(BodyTokens(Resp), i - 1)
    BY DEF NoSpuriousError
  <2>2. PICK r \in Responses, p \in Nat : cur = <<r>> /\ ReaderAt(BodyTokens(r), p)
    BY <2>1 DEF StreamInv
  <2>3. Resp = r
    BY <2>2 DEF Resp
  <2> QED BY <2>1, <2>2, <2>3 DEF ReaderAt
<1> QED BY <1>1, StreamAlways, PTL

(* Read never waits for bytes that the server does not owe.                *)
THEOREM StreamNeverOverreads ==
  ASSUME \A r \in Responses : Framed(r)
  PROVE  Spec => []NeverOverreads
<1>1. Typed /\ StreamInv => NeverOverreads
  <2>1. SUFFICES ASSUME Typed, StreamInv, Reading, remaining # 0, reader # "nil", open, wire = <<>>
                 PROVE  FALSE
    BY DEF NeverOverreads
  <2>2. /\ phase = "body" /\ end = "none" /\ reader \in {"raw", "chunked"}
        /\ wire \in Seq(Token)
    BY <2>1 DEF Reading, Typed, TypeOK
  <2>3. PICK r \in Responses, p \in Nat :
          /\ p <= Len(BodyTokens(r)) /\ OnWire(BodyTokens(r) \o <<>>, p)
          /\ ReaderAt(BodyTokens(r), p) /\ ~cut
    BY <2>1, <2>2 DEF StreamInv
  <2>4. PICK s \in Seq(Token) : s = BodyTokens(r)
    BY BodyType
  <2>5. s \o <<>> = s /\ Len(s) \in Nat
    OBVIOUS
  <2>6. OnWire(s, p) /\ ReaderAt(s, p) /\ p <= Len(s)
    BY <2>3, <2>4, <2>5
  <2>7. p = Len(s)
    <3>1. Len(wire) = 0
      BY <2>1, <2>2, EmptyWire
    <3> QED BY <2>3, <2>5, <2>6, <3>1 DEF OnWire
  <2>8. p < Len(s)
    <3>1. CASE reader = "raw"
      <4>1. remaining = Len(s) - p
        BY <2>6, <3>1 DEF ReaderAt
      <4> QED BY <2>1, <2>5, <2>6, <4>1
    <3>2. CASE reader = "chunked"
      <4>1. IF size = -1 THEN p < Len(s) ELSE InChunk(s, p, size, count)
        BY <2>2, <2>6, <3>2 DEF ReaderAt
      <4> QED BY <2>5, <4>1 DEF InChunk
    <3> QED BY <2>2, <3>1, <3>2
  <2> QED BY <2>5, <2>7, <2>8
<1> QED BY <1>1, StreamAlways, PTL
=============================================================================
