----------------------------- MODULE Md5Proofs -----------------------------
(***************************************************************************)
(* Proofs about Md5, for every size of a block and every length of a       *)
(* message: md5_update may be given a stream in pieces of any size, and    *)
(* the blocks GenerateMD5 compresses are those of RFC 1321.                *)
(***************************************************************************)
EXTENDS Md5, SequenceTheorems, TLAPS

-----------------------------------------------------------------------------
(***************************************************************************)
(* Division by a symbolic number.                                          *)
(***************************************************************************)
\* Quotient and remainder.
LEMMA Division ==
    ASSUME NEW a \in Nat, NEW b \in Nat, b > 0
    PROVE  /\ a \div b \in Nat /\ a % b \in 0..(b - 1)
           /\ a = b * (a \div b) + (a % b)
OBVIOUS

\* A product grows with its factor.
LEMMA Multiples ==
    ASSUME NEW b \in Nat, NEW j \in Int, NEW k \in Int, j <= k
    PROVE  b * j <= b * k
<1>1. k - j \in Nat /\ b * (k - j) \in Nat
    OBVIOUS
<1>2. b * k = b * j + b * (k - j)
    OBVIOUS
<1> QED
    BY <1>1, <1>2

\* There are no other quotient and remainder.
LEMMA DivisionUnique ==
    ASSUME NEW a \in Nat, NEW b \in Nat, b > 0,
           NEW q \in Int, NEW r \in 0..(b - 1), a = b * q + r
    PROVE  a \div b = q /\ a % b = r
<1> DEFINE p == a \div b
           s == a % b
<1>1. p \in Nat /\ s \in 0..(b - 1) /\ a = b * p + s
    BY Division
<1> HIDE DEF p, s
<1>2. ASSUME q > p PROVE FALSE
    <2>1. b * (p + 1) <= b * q
        BY <1>1, <1>2, Multiples
    <2> QED
        BY <1>1, <2>1
<1>3. ASSUME q < p PROVE FALSE
    <2>1. b * (q + 1) <= b * p
        BY <1>1, <1>3, Multiples
    <2> QED
        BY <1>1, <2>1
<1>4. q = p /\ r = s
    BY <1>1, <1>2, <1>3
<1> QED
    BY <1>4 DEF p, s

\* n + l bytes when n + head of them fill p blocks.
LEMMA Aligned ==
    ASSUME NEW b \in Nat, b > 0, NEW n \in Nat, NEW l \in Nat, NEW head \in 0..l, NEW p \in Nat,
           n + head = b * p
    PROVE  /\ (l - head) \div b \in Nat
           /\ head + b * ((l - head) \div b) + ((l - head) % b) = l
           /\ (l - head) % b \in 0..(b - 1)
           /\ (n + l) \div b = p + ((l - head) \div b)
           /\ (n + l) % b = (l - head) % b
<1> DEFINE d == l - head
           w == d \div b
           r == d % b
<1>1. d \in Nat /\ head + d = l
    OBVIOUS
<1> HIDE DEF d
<1>2. w \in Nat /\ r \in 0..(b - 1) /\ d = b * w + r
    BY <1>1, Division
<1> HIDE DEF w, r
<1>3. n + l = b * (p + w) + r /\ p + w \in Int
    BY <1>1, <1>2
<1>4. (n + l) \div b = p + w /\ (n + l) % b = r
    BY <1>2, <1>3, DivisionUnique
<1>5. head + b * w + r = l
    BY <1>1, <1>2
<1> QED
    BY <1>2, <1>4, <1>5 DEF d, w, r

\* The k-th block after them.
LEMMA BlockPlace ==
    ASSUME NEW b \in Nat, NEW n \in Nat, NEW l \in Nat, NEW head \in Nat, NEW p \in Nat,
           n + head = b * p, NEW w \in Nat, head + b * w <= l, NEW k \in 1..w
    PROVE  /\ head + b * (k - 1) \in Nat
           /\ head + b * (k - 1) + b = head + b * k
           /\ head + b * (k - 1) + b <= l
           /\ b * (p + k - 1) = n + (head + b * (k - 1))
           /\ b * (p + w) <= n + l
<1>1. b * k <= b * w
    BY Multiples
<1>2. /\ b * (k - 1) \in Nat /\ b * k = b * (k - 1) + b
      /\ b * (p + k - 1) = b * p + b * (k - 1) /\ b * (p + w) = b * p + b * w
    OBVIOUS
<1> QED
    BY <1>1, <1>2

-----------------------------------------------------------------------------
(***************************************************************************)
(* The blocks of a stream.                                                 *)
(***************************************************************************)
Chunks == [1..Block -> Bytes]
Chunk(s, k) == SubSeq(s, Block * (k - 1) + 1, Block * k)
Blocks(s) == [k \in 1..(Len(s) \div Block) |-> Chunk(s, k)]

\* Functions are equal if they agree everywhere.
LEMMA SameFunction ==
    ASSUME NEW S, NEW T, NEW f \in [S -> T], NEW g \in [S -> T], \A x \in S : f[x] = g[x]
    PROVE  f = g
OBVIOUS

\* n bytes from position m + 1 on.
LEMMA CutAt ==
    ASSUME NEW S, NEW s \in Seq(S), NEW m \in Nat, NEW n \in Nat, m + n <= Len(s)
    PROVE  /\ SubSeq(s, m + 1, m + n) \in Seq(S)
           /\ Len(SubSeq(s, m + 1, m + n)) = n
           /\ \A i \in 1..n : SubSeq(s, m + 1, m + n)[i] = s[m + i]
<1> DEFINE a == m + 1
           b == m + n
<1>1. a \in Int /\ b \in Int /\ a <= b + 1 /\ b - a + 1 = n /\ \A i \in 1..n : a + i - 1 = m + i
    OBVIOUS
<1>2. \A i \in a..b : s[i] \in S
    BY LenProperties, ElementOfSeq
<1> HIDE DEF a, b
<1>3. SubSeq(s, a, b) \in Seq(S) /\ \A i \in 1..(b - a + 1) : SubSeq(s, a, b)[i] = s[a + i - 1]
    BY <1>1, <1>2, SubSeqProperties
<1>4. Len(SubSeq(s, a, b)) = n
    BY <1>1, <1>2, SubSeqProperties
<1> QED
    BY <1>1, <1>3, <1>4 DEF a, b

\* A block cut out from position m + 1 on.
LEMMA CutIsChunk ==
    ASSUME NEW s \in Seq(Bytes), NEW m \in Nat, m + Block <= Len(s)
    PROVE  /\ SubSeq(s, m + 1, m + Block) \in Chunks
           /\ \A i \in 1..Block : SubSeq(s, m + 1, m + Block)[i] = s[m + i]
<1>1. Block \in Nat
    BY Md5Assumption
<1> DEFINE c == SubSeq(s, m + 1, m + Block)
<1>2. c \in Seq(Bytes) /\ Len(c) = Block /\ \A i \in 1..Block : c[i] = s[m + i]
    BY <1>1, CutAt
<1>3. c \in Chunks
    BY <1>2, LenProperties DEF Chunks
<1> QED
    BY <1>2, <1>3

\* The buffer holds what follows the last whole block.
Buffers(buffer, s) ==
    /\ buffer \in Chunks
    /\ \A i \in 1..(Len(s) % Block) : buffer[i] = s[Block * (Len(s) \div Block) + i]

\* The k-th block of a stream that has as many.
LEMMA ChunkOf ==
    ASSUME NEW s \in Seq(Bytes), NEW n \in Nat, Block * n <= Len(s), NEW k \in 1..n
    PROVE  /\ Chunk(s, k) \in Chunks
           /\ \A i \in 1..Block : Chunk(s, k)[i] = s[Block * (k - 1) + i]
<1>1. Block \in Nat /\ Block > 0 /\ Len(s) \in Nat
    BY Md5Assumption, LenProperties
<1>2. Block * (k - 1) \in Nat /\ Block * k = Block * (k - 1) + Block
    BY <1>1
<1>3. Block * k <= Block * n
    BY <1>1, Multiples
<1>4. Block * (k - 1) + Block <= Len(s)
    BY <1>1, <1>2, <1>3
<1> QED
    BY <1>2, <1>4, CutIsChunk DEF Chunk

\* The whole blocks of the input from position head + 1 on.
Whole(input, head, whole) ==
    [k \in 1..whole |-> SubSeq(input, head + Block * (k - 1) + 1, head + Block * k)]

\* A whole block of the input is a block of the stream.
LEMMA WholeBlock ==
    ASSUME NEW s \in Seq(Bytes), NEW input \in Seq(Bytes), NEW head \in Nat,
           NEW p \in Nat, Len(s) + head = Block * p,
           NEW whole \in Nat, head + Block * whole <= Len(input), NEW k \in 1..whole
    PROVE  /\ Whole(input, head, whole)[k] \in Chunks
           /\ Whole(input, head, whole)[k] = Chunk(s \o input, p + k)
<1> DEFINE t == s \o input
           m == head + Block * (k - 1)
           c == SubSeq(input, m + 1, m + Block)
<1>1. Block \in Nat /\ Block > 0 /\ Len(s) \in Nat /\ Len(input) \in Nat
    BY Md5Assumption, LenProperties
<1>2. /\ t \in Seq(Bytes) /\ Len(t) = Len(s) + Len(input)
      /\ \A i \in 1..(Len(s) + Len(input)) : t[i] = IF i <= Len(s) THEN s[i] ELSE input[i - Len(s)]
    BY ConcatProperties
<1>3. /\ m \in Nat /\ m + Block = head + Block * k /\ m + Block <= Len(input)
      /\ Block * (p + k - 1) = Len(s) + m
      /\ Block * (p + whole) <= Len(s) + Len(input)
    BY <1>1, BlockPlace
<1>4. Whole(input, head, whole)[k] = c
    BY <1>3 DEF Whole
<1> HIDE DEF t, m
<1>5. c \in Chunks /\ \A i \in 1..Block : c[i] = input[m + i]
    BY <1>3, CutIsChunk
<1>6. p + k \in 1..(p + whole) /\ p + whole \in Nat
    OBVIOUS
<1>7. Block * (p + whole) <= Len(t)
    BY <1>2, <1>3
<1>8. /\ Chunk(t, p + k) \in Chunks
      /\ \A i \in 1..Block : Chunk(t, p + k)[i] = t[Block * (p + k - 1) + i]
    <2> DEFINE j == p + k
               n == p + whole
    <2>1. n \in Nat /\ j \in 1..n /\ Block * n <= Len(t) /\ t \in Seq(Bytes)
        BY <1>2, <1>6, <1>7
    <2> HIDE DEF j, n
    <2>2. Chunk(t, j) \in Chunks /\ \A i \in 1..Block : Chunk(t, j)[i] = t[Block * (j - 1) + i]
        BY <2>1, ChunkOf
    <2> QED
        BY <2>2 DEF j
<1>9. ASSUME NEW i \in 1..Block
      PROVE  t[Block * (p + k - 1) + i] = input[m + i]
    <2>1. /\ Block * (p + k - 1) + i = Len(s) + (m + i)
          /\ Len(s) + (m + i) \in 1..(Len(s) + Len(input))
          /\ ~(Len(s) + (m + i) <= Len(s)) /\ (Len(s) + (m + i)) - Len(s) = m + i
        <3> DEFINE z == Block * (p + k - 1)
        <3>1. z = Len(s) + m /\ m \in Nat /\ m + Block <= Len(input)
            BY <1>3
        <3> HIDE DEF z
        <3>2. z + i = Len(s) + (m + i)
            BY <1>1, <3>1
        <3>3. m + i \in 1..Len(input)
            BY <1>1, <3>1
        <3>4. ~(Len(s) + (m + i) <= Len(s)) /\ (Len(s) + (m + i)) - Len(s) = m + i
            BY <1>1, <3>1
        <3>5. Len(s) + (m + i) \in 1..(Len(s) + Len(input))
            BY <1>1, <3>1, <3>3
        <3> QED
            BY <3>2, <3>4, <3>5 DEF z
    <2> QED
        BY <1>2, <2>1
<1> HIDE DEF c
<1>10. c = Chunk(t, p + k)
    <2> DEFINE d == Chunk(t, p + k)
               I == 1..Block
    <2>1. c \in [I -> Bytes] /\ d \in [I -> Bytes]
        BY <1>5, <1>8 DEF Chunks
    <2>2. \A i \in I : c[i] = d[i]
        BY <1>5, <1>8, <1>9
    <2> HIDE DEF d, I
    <2>3. c = d
        BY <2>1, <2>2, SameFunction
    <2> QED
        BY <2>3 DEF d
<1> QED
    BY <1>4, <1>5, <1>10 DEF t

\* st is ctx.state once the buffer has been emptied, head what that took of the
\* input: p blocks have been compressed.
Emptied(s, input, head, p, st) ==
    /\ head \in 0..Len(input) /\ p \in Nat /\ Len(s) + head = Block * p
    /\ st \in Seq(Chunks) /\ Len(st) = p
    /\ \A k \in 1..p : st[k] = Chunk(s \o input, k)

\* The loop over the whole blocks adds the next blocks of the stream.
LEMMA Extends ==
    ASSUME NEW s \in Seq(Bytes), NEW input \in Seq(Bytes), NEW head, NEW p, NEW st,
           Emptied(s, input, head, p, st),
           NEW whole \in Nat, head + Block * whole <= Len(input)
    PROVE  st \o Whole(input, head, whole) = [k \in 1..(p + whole) |-> Chunk(s \o input, k)]
<1> DEFINE more == Whole(input, head, whole)
           all == [k \in 1..(p + whole) |-> Chunk(s \o input, k)]
<1>0. /\ head \in Nat /\ p \in Nat /\ Len(s) + head = Block * p
      /\ st \in Seq(Chunks) /\ Len(st) = p /\ \A k \in 1..p : st[k] = Chunk(s \o input, k)
    BY LenProperties DEF Emptied
<1>1. \A k \in 1..whole : more[k] \in Chunks /\ more[k] = Chunk(s \o input, p + k)
    BY <1>0, WholeBlock
<1>2. more = [k \in 1..whole |-> more[k]]
    BY DEF Whole
<1> HIDE DEF more
<1>3. more \in [1..whole -> Chunks]
    BY <1>1, <1>2
<1>4. more \in Seq(Chunks) /\ Len(more) = whole
    BY <1>3
<1>5. /\ st \o more \in Seq(Chunks) /\ Len(st \o more) = p + whole
      /\ \A k \in 1..(p + whole) : (st \o more)[k] = IF k <= p THEN st[k] ELSE more[k - p]
    <2>1. /\ st \o more \in Seq(Chunks) /\ Len(st \o more) = Len(st) + Len(more)
          /\ \A k \in 1..(Len(st) + Len(more)) :
                (st \o more)[k] = IF k <= Len(st) THEN st[k] ELSE more[k - Len(st)]
        BY <1>0, <1>4, ConcatProperties
    <2>2. Len(st) = p /\ Len(more) = whole
        BY <1>0, <1>4
    <2> QED
        BY <2>1, <2>2
<1>6. ASSUME NEW k \in 1..(p + whole)
      PROVE  (st \o more)[k] = Chunk(s \o input, k)
    <2>1. CASE k <= p
        <3>1. k \in 1..p
            BY <1>0, <2>1
        <3> QED
            BY <1>0, <1>5, <2>1, <3>1
    <2>2. CASE ~(k <= p)
        <3>1. k - p \in 1..whole /\ p + (k - p) = k
            BY <1>0, <2>2
        <3> QED
            BY <1>1, <1>5, <2>2, <3>1
    <2> QED
        BY <2>1, <2>2
<1>7. st \o more \in [1..(p + whole) -> Chunks]
    BY <1>5, LenProperties
<1> QED
    BY <1>6, <1>7 DEF more

\* The blocks of a stream are chunks.
LEMMA BlocksAre ==
    ASSUME NEW s \in Seq(Bytes), NEW q, q = Len(s) \div Block
    PROVE  /\ q \in Nat /\ Block * q <= Len(s)
           /\ Blocks(s) \in Seq(Chunks) /\ Len(Blocks(s)) = q
           /\ \A k \in 1..q : Blocks(s)[k] = Chunk(s, k)
<1>1. Block \in Nat /\ Block > 0 /\ Len(s) \in Nat
    BY Md5Assumption, LenProperties
<1>2. /\ Len(s) \div Block \in Nat /\ Len(s) % Block \in Nat
      /\ Len(s) = Block * (Len(s) \div Block) + (Len(s) % Block)
    BY <1>1, Division
<1> DEFINE b == [k \in 1..q |-> Chunk(s, k)]
<1>3. Blocks(s) = b
    BY DEF Blocks
<1>4. q \in Nat /\ Block * q <= Len(s)
    BY <1>1, <1>2
<1>5. \A k \in 1..q : Chunk(s, k) \in Chunks
    BY <1>4, ChunkOf
<1>6. b \in [1..q -> Chunks]
    BY <1>5
<1>7. b \in Seq(Chunks) /\ Len(b) = q
    <2> HIDE DEF b
    <2> QED
        BY <1>4, <1>6
<1> QED
    BY <1>3, <1>4, <1>7

\* More bytes leave the blocks there are.
LEMMA BlocksKept ==
    ASSUME NEW s \in Seq(Bytes), NEW input \in Seq(Bytes),
           NEW q \in Nat, Block * q <= Len(s), NEW k \in 1..q
    PROVE  Chunk(s \o input, k) = Chunk(s, k)
<1> DEFINE t == s \o input
           c == Chunk(s, k)
           d == Chunk(t, k)
           I == 1..Block
<1>1. Block \in Nat /\ Block > 0 /\ Len(s) \in Nat /\ Len(input) \in Nat
    BY Md5Assumption, LenProperties
<1>2. /\ t \in Seq(Bytes) /\ Len(t) = Len(s) + Len(input)
      /\ \A i \in 1..(Len(s) + Len(input)) : t[i] = IF i <= Len(s) THEN s[i] ELSE input[i - Len(s)]
    BY ConcatProperties
<1> HIDE DEF t
<1>3. Block * q <= Len(t)
    BY <1>1, <1>2
<1>4. c \in Chunks /\ d \in Chunks
    BY <1>2, <1>3, ChunkOf
<1>5. \A i \in I : c[i] = s[Block * (k - 1) + i] /\ d[i] = t[Block * (k - 1) + i]
    BY <1>2, <1>3, ChunkOf
<1>6. Block * k <= Block * q /\ Block * (k - 1) \in Nat /\ Block * k = Block * (k - 1) + Block
    BY <1>1, Multiples
<1>7. ASSUME NEW i \in I PROVE t[Block * (k - 1) + i] = s[Block * (k - 1) + i]
    <2>1. Block * (k - 1) + i \in 1..(Len(s) + Len(input)) /\ Block * (k - 1) + i <= Len(s)
        BY <1>1, <1>6
    <2> QED
        BY <1>2, <2>1
<1>8. c \in [I -> Bytes] /\ d \in [I -> Bytes]
    BY <1>4 DEF Chunks
<1> HIDE DEF c, d, I
<1>9. c = d
    BY <1>5, <1>7, <1>8, SameFunction
<1> QED
    BY <1>9 DEF c, d, t

\* What memcpy leaves in the buffer.
LEMMA Copied ==
    ASSUME NEW buffer \in Chunks, NEW input \in Seq(Bytes), NEW at \in Nat
    PROVE  /\ memcpy(buffer, at, input) \in Chunks
           /\ \A i \in 1..Block :
                memcpy(buffer, at, input)[i] =
                    IF i - at \in 1..Len(input) THEN input[i - at] ELSE buffer[i]
<1>1. \A i \in 1..Block : buffer[i] \in Bytes
    BY DEF Chunks
<1>2. \A i \in 1..Len(input) : input[i] \in Bytes
    BY ElementOfSeq
<1> QED
    BY <1>1, <1>2 DEF memcpy, Chunks

\* A buffer that the input completes is the next block.
LEMMA Filled ==
    ASSUME NEW s \in Seq(Bytes), NEW input \in Seq(Bytes), NEW buffer \in Chunks,
           NEW q \in Nat, NEW left \in 0..(Block - 1), Len(s) = Block * q + left,
           \A i \in 1..left : buffer[i] = s[Block * q + i],
           Block - left <= Len(input)
    PROVE  memcpy(buffer, left, SubSeq(input, 1, Block - left)) = Chunk(s \o input, q + 1)
<1> DEFINE t == s \o input
           h == Block - left
           x == SubSeq(input, 1, h)
           c == memcpy(buffer, left, x)
           d == Chunk(t, q + 1)
           I == 1..Block
<1>1. /\ Block \in Nat /\ Block > 0 /\ Len(s) \in Nat /\ Len(input) \in Nat
      /\ left \in Nat /\ h \in Nat /\ left + h = Block
    BY Md5Assumption, LenProperties
<1>2. /\ t \in Seq(Bytes) /\ Len(t) = Len(s) + Len(input)
      /\ \A i \in 1..(Len(s) + Len(input)) : t[i] = IF i <= Len(s) THEN s[i] ELSE input[i - Len(s)]
    BY ConcatProperties
<1>3. x \in Seq(Bytes) /\ Len(x) = h /\ \A i \in 1..h : x[i] = input[i]
    <2> HIDE DEF h
    <2>1. 0 \in Nat /\ 0 + 1 = 1 /\ 0 + h = h /\ 0 + h <= Len(input)
        BY <1>1 DEF h
    <2>2. /\ SubSeq(input, 0 + 1, 0 + h) \in Seq(Bytes)
          /\ Len(SubSeq(input, 0 + 1, 0 + h)) = h
          /\ \A i \in 1..h : SubSeq(input, 0 + 1, 0 + h)[i] = input[0 + i]
        BY <1>1, <2>1, CutAt
    <2> QED
        BY <1>1, <2>1, <2>2
<1> HIDE DEF t, h, x
<1>4. /\ c \in Chunks
      /\ \A i \in I : c[i] = IF i - left \in 1..h THEN x[i - left] ELSE buffer[i]
    <2>1. left \in Nat /\ x \in Seq(Bytes)
        BY <1>1, <1>3
    <2>2. /\ c \in Chunks
          /\ \A i \in 1..Block : c[i] = IF i - left \in 1..Len(x) THEN x[i - left] ELSE buffer[i]
        BY <2>1, Copied
    <2> QED
        BY <1>3, <2>2
<1>5. d \in Chunks /\ \A i \in I : d[i] = t[Block * q + i]
    <2> DEFINE n == q + 1
    <2>1. n \in Nat /\ n \in 1..n /\ n - 1 = q /\ Block * n <= Len(t)
        BY <1>1, <1>2 DEF h
    <2> HIDE DEF n
    <2>2. Chunk(t, n) \in Chunks /\ \A i \in 1..Block : Chunk(t, n)[i] = t[Block * (n - 1) + i]
        BY <1>2, <2>1, ChunkOf
    <2> QED
        BY <2>1, <2>2 DEF n
<1>6. ASSUME NEW i \in I PROVE c[i] = d[i]
    <2>0. Block * q \in Nat
        BY <1>1
    <2>1. CASE i <= left
        <3>1. ~(i - left \in 1..h) /\ i \in 1..left
            BY <1>1, <2>1
        <3>2. Block * q + i \in 1..(Len(s) + Len(input)) /\ Block * q + i <= Len(s)
            <4> DEFINE z == Block * q
            <4>1. /\ z \in Nat /\ i \in Nat /\ i > 0 /\ i <= left /\ Len(s) = z + left
                  /\ left \in Nat /\ Len(s) \in Nat /\ Len(input) \in Nat
                BY <1>1, <2>0, <2>1
            <4> HIDE DEF z
            <4>2. z + i \in Nat /\ z + i >= 1 /\ z + i <= Len(s) /\ Len(s) <= Len(s) + Len(input)
                BY <4>1
            <4>3. z + i \in 1..(Len(s) + Len(input)) /\ z + i <= Len(s)
                BY <4>1, <4>2
            <4> QED
                BY <4>3 DEF z
        <3> QED
            BY <1>2, <1>4, <1>5, <3>1, <3>2
    <2>2. CASE ~(i <= left)
        <3>1. i - left \in 1..h
            BY <1>1, <2>2
        <3>2. /\ Block * q + i \in 1..(Len(s) + Len(input)) /\ ~(Block * q + i <= Len(s))
              /\ (Block * q + i) - Len(s) = i - left
            BY <1>1, <2>0, <2>2 DEF h
        <3>3. c[i] = x[i - left] /\ x[i - left] = input[i - left]
            BY <1>3, <1>4, <3>1
        <3>4. t[Block * q + i] = input[i - left]
            <4> DEFINE j == Block * q + i
            <4>1. j \in 1..(Len(s) + Len(input)) /\ ~(j <= Len(s)) /\ j - Len(s) = i - left
                BY <3>2
            <4> HIDE DEF j
            <4>2. t[j] = input[i - left]
                BY <1>2, <4>1
            <4> QED
                BY <4>2 DEF j
        <3> QED
            BY <1>5, <3>3, <3>4
    <2> QED
        BY <2>1, <2>2
<1>7. c \in [I -> Bytes] /\ d \in [I -> Bytes]
    BY <1>4, <1>5 DEF Chunks
<1> HIDE DEF c, d, I
<1>8. c = d
    BY <1>6, <1>7, SameFunction
<1> QED
    BY <1>8 DEF c, d, t, x, h

\* When a bytes of the input are compressed, the rest of it belongs at position
\* at + 1 of the buffer, which it does not fill.
Leaves(s, input, a, p, at) ==
    /\ a \in 0..Len(input) /\ p \in Nat /\ at \in 0..(Block - 1)
    /\ Len(s) + a = Block * p + at /\ at + (Len(input) - a) < Block

\* memcpy to that position leaves the buffer right.
LEMMA Buffered ==
    ASSUME NEW s \in Seq(Bytes), NEW input \in Seq(Bytes), NEW buffer \in Chunks,
           NEW a, NEW p, NEW at, Leaves(s, input, a, p, at),
           at > 0 => a = 0 /\ \A i \in 1..at : buffer[i] = s[Block * p + i]
    PROVE  Buffers(memcpy(buffer, at, SubSeq(input, a + 1, Len(input))), s \o input)
<1> DEFINE t == s \o input
           h == Len(input) - a
           x == SubSeq(input, a + 1, Len(input))
           b == memcpy(buffer, at, x)
           z == Block * p
<1>0. /\ Block \in Nat /\ Block > 0 /\ Len(s) \in Nat /\ Len(input) \in Nat
      /\ a \in 0..Len(input) /\ p \in Nat /\ at \in 0..(Block - 1)
      /\ Len(s) + a = Block * p + at /\ at + (Len(input) - a) < Block
    BY Md5Assumption, LenProperties DEF Leaves
<1>1. /\ Block \in Nat /\ Block > 0 /\ Len(s) \in Nat /\ Len(input) \in Nat
      /\ a \in Nat /\ at \in Nat /\ h \in Nat /\ a + h = Len(input) /\ z \in Nat
      /\ Len(s) + a = z + at /\ at + h < Block /\ p \in Int
    BY <1>0
<1>2. /\ t \in Seq(Bytes) /\ Len(t) = Len(s) + Len(input)
      /\ \A i \in 1..(Len(s) + Len(input)) : t[i] = IF i <= Len(s) THEN s[i] ELSE input[i - Len(s)]
    BY ConcatProperties
<1>3. x \in Seq(Bytes) /\ Len(x) = h /\ \A i \in 1..h : x[i] = input[a + i]
    <2> HIDE DEF h
    <2>1. /\ SubSeq(input, a + 1, a + h) \in Seq(Bytes)
          /\ Len(SubSeq(input, a + 1, a + h)) = h
          /\ \A i \in 1..h : SubSeq(input, a + 1, a + h)[i] = input[a + i]
        BY <1>1, CutAt
    <2> QED
        BY <1>1, <2>1
<1> HIDE DEF t, h, x, z
<1>4. /\ b \in Chunks
      /\ \A i \in 1..Block : b[i] = IF i - at \in 1..h THEN x[i - at] ELSE buffer[i]
    <2>1. /\ b \in Chunks
          /\ \A i \in 1..Block : b[i] = IF i - at \in 1..Len(x) THEN x[i - at] ELSE buffer[i]
        BY <1>1, <1>3, Copied
    <2> QED
        BY <1>3, <2>1
<1> HIDE DEF b
<1>5. ASSUME NEW i \in 1..(at + h) PROVE b[i] = t[z + i]
    <2>0. i \in 1..Block /\ i \in Nat
        BY <1>1 DEF h
    <2>1. CASE i <= at
        <3>1. /\ ~(i - at \in 1..h) /\ i \in 1..at /\ at > 0 /\ a = 0
              /\ buffer[i] = s[z + i]
            BY <1>1, <2>0, <2>1 DEF z
        <3>2. z + i \in 1..(Len(s) + Len(input)) /\ z + i <= Len(s)
            BY <1>1, <2>0, <2>1, <3>1
        <3> QED
            BY <1>2, <1>4, <2>0, <3>1, <3>2
    <2>2. CASE ~(i <= at)
        <3>1. i - at \in 1..h
            BY <1>1, <2>2
        <3>2. /\ z + i \in 1..(Len(s) + Len(input)) /\ ~(z + i <= Len(s))
              /\ (z + i) - Len(s) = a + (i - at)
            BY <1>1, <2>0, <2>2 DEF h
        <3>3. b[i] = x[i - at] /\ x[i - at] = input[a + (i - at)]
            BY <1>3, <1>4, <2>0, <3>1
        <3>4. t[z + i] = input[a + (i - at)]
            <4> DEFINE j == z + i
            <4>1. j \in 1..(Len(s) + Len(input)) /\ ~(j <= Len(s)) /\ j - Len(s) = a + (i - at)
                BY <3>2
            <4> HIDE DEF j
            <4>2. t[j] = input[a + (i - at)]
                BY <1>2, <4>1
            <4> QED
                BY <4>2 DEF j
        <3> QED
            BY <3>3, <3>4
    <2> QED
        BY <2>1, <2>2
<1>6. Len(t) \div Block = p /\ Len(t) % Block = at + h
    <2> DEFINE n == Len(t)
               r == at + h
    <2>0. n = Len(s) + Len(input) /\ r = at + h
        BY <1>2
    <2> HIDE DEF n, r
    <2>1. n \in Nat /\ r \in 0..(Block - 1) /\ n = z + r
        BY <1>1, <2>0
    <2>2. n \in Nat /\ Block \in Nat /\ Block > 0 /\ p \in Int /\ n = Block * p + r
        BY <1>1, <2>1 DEF z
    <2> HIDE DEF z
    <2>3. n \div Block = p /\ n % Block = r
        BY <2>1, <2>2, DivisionUnique
    <2> QED
        BY <2>3 DEF n, r
<1>7. Buffers(b, t)
    BY <1>4, <1>5, <1>6 DEF Buffers, z
<1> QED
    BY <1>7 DEF b, t, x

-----------------------------------------------------------------------------
(***************************************************************************)
(* The context after a stream of bytes: every whole block is compressed,   *)
(* the rest is buffered, and total[0] is the number of bits as a word.     *)
(***************************************************************************)
Represents(c, s) ==
    /\ c.total[1] = (8 * Len(s)) % Word /\ c.total[2] \in Nat
    /\ c.state = Blocks(s)
    /\ Buffers(c.buffer, s)

\* A word holds a whole number of blocks, so that the place in the buffer is not
\* lost when total[0] wraps.
LEMMA TotalPlace ==
    ASSUME NEW n \in Nat
    PROVE  /\ (8 * n) % Word \in 0..(Word - 1)
           /\ (((8 * n) % Word) \div 8) % Block = n % Block
<1>1. Block \in Nat /\ Block > 0 /\ Word \in Nat /\ Word > 0 /\ 8 * Block \in Nat /\ 8 * Block > 0
    BY Md5Assumption
<1>2. PICK m \in Nat : Word = (8 * Block) * m
    <2>1. Word = (8 * Block) * (Word \div (8 * Block)) + (Word % (8 * Block))
        BY <1>1, Division
    <2>2. Word \div (8 * Block) \in Nat /\ Word % (8 * Block) = 0
        BY <1>1, Division, Md5Assumption
    <2> DEFINE z == Word \div (8 * Block)
    <2>3. z \in Nat /\ Word = (8 * Block) * z + 0
        BY <2>1, <2>2
    <2> HIDE DEF z
    <2>4. Word = (8 * Block) * z
        BY <1>1, <2>3
    <2> QED
        BY <2>3, <2>4
<1> DEFINE q == (8 * n) \div Word
           r == (8 * n) % Word
           y == n % Block
           x == n \div Block
<1>3. q \in Nat /\ r \in 0..(Word - 1) /\ 8 * n = Word * q + r
    BY <1>1, Division
<1>4. x \in Nat /\ y \in 0..(Block - 1) /\ n = Block * x + y
    BY <1>1, Division
<1> HIDE DEF q, r, x, y
<1>5. m * q \in Nat /\ Word * q = 8 * (Block * (m * q))
    BY <1>1, <1>2, <1>3
<1> DEFINE z == m * q
<1>6. z \in Nat /\ Word * q = 8 * (Block * z)
    BY <1>5
<1> HIDE DEF z
<1>7. r = 8 * (n - Block * z) /\ n - Block * z \in Nat
    <2> DEFINE w == Block * z
    <2>1. w \in Nat /\ 8 * n = 8 * w + r
        BY <1>1, <1>3, <1>6
    <2> HIDE DEF w
    <2>2. r = 8 * (n - w) /\ n - w \in Nat
        BY <1>1, <1>3, <2>1
    <2> QED
        BY <2>2 DEF w
<1>8. r \div 8 = n - Block * z
    <2> DEFINE w == n - Block * z
    <2>1. w \in Nat /\ r = 8 * w
        BY <1>7
    <2> HIDE DEF w
    <2>2. r \div 8 = w
        BY <2>1
    <2> QED
        BY <2>2 DEF w
<1>9. (n - Block * z) % Block = y
    <2> DEFINE a == n - Block * z
    <2>1. a \in Nat /\ a = Block * (x - z) + y /\ x - z \in Int
        BY <1>1, <1>4, <1>6, <1>7
    <2> HIDE DEF a
    <2>2. a % Block = y
        BY <1>1, <1>4, <2>1, DivisionUnique
    <2> QED
        BY <2>2 DEF a
<1> QED
    BY <1>3, <1>8, <1>9 DEF r, y

\* The bits of l bytes more.
LEMMA TotalSum ==
    ASSUME NEW n \in Nat, NEW l \in Nat
    PROVE  (((8 * n) % Word) + 8 * l) % Word = (8 * (n + l)) % Word
<1>1. Word \in Nat /\ Word > 0
    BY Md5Assumption
<1> DEFINE q == (8 * n) \div Word
           r == (8 * n) % Word
           a == r + 8 * l
           p == a \div Word
           x == a % Word
           b == 8 * (n + l)
<1>2. q \in Nat /\ r \in 0..(Word - 1) /\ 8 * n = Word * q + r
    BY <1>1, Division
<1> HIDE DEF q, r
<1>3. a \in Nat /\ b \in Nat /\ b = 8 * n + 8 * l
    BY <1>1, <1>2
<1>4. p \in Nat /\ x \in 0..(Word - 1) /\ a = Word * p + x
    <2> HIDE DEF a
    <2> QED
        BY <1>1, <1>3, Division
<1>5. a = r + 8 * l
    OBVIOUS
<1> HIDE DEF a, p, x, b
<1>6. b = Word * (q + p) + x /\ q + p \in Int
    BY <1>1, <1>2, <1>3, <1>4, <1>5
<1>7. b % Word = x
    BY <1>1, <1>3, <1>4, <1>6, DivisionUnique
<1> QED
    BY <1>7 DEF a, b, r, x

\* The loop of md5_update and what it leaves, once the buffer is empty.
LEMMA UpdateAligned ==
    ASSUME NEW s \in Seq(Bytes), NEW input \in Seq(Bytes), NEW head, NEW p, NEW st,
           Emptied(s, input, head, p, st), NEW buffer \in Chunks
    PROVE  LET whole == (Len(input) - head) \div Block
           IN  /\ st \o Whole(input, head, whole) = Blocks(s \o input)
               /\ Buffers(memcpy(buffer, 0, SubSeq(input, head + Block * whole + 1, Len(input))),
                          s \o input)
<1> DEFINE n == Len(s)
           l == Len(input)
           t == s \o input
           whole == (l - head) \div Block
           r == (l - head) % Block
           a == head + Block * whole
<1>1. /\ Block \in Nat /\ Block > 0 /\ n \in Nat /\ l \in Nat
      /\ head \in 0..l /\ p \in Nat /\ n + head = Block * p
    BY Md5Assumption, LenProperties DEF Emptied
<1>2. t \in Seq(Bytes) /\ Len(t) = n + l
    BY ConcatProperties
<1> HIDE DEF n, l, t
<1>3. /\ whole \in Nat /\ head + Block * whole + r = l /\ r \in 0..(Block - 1)
      /\ (n + l) \div Block = p + whole /\ (n + l) % Block = r
    BY <1>1, Aligned
<1> HIDE DEF whole, r
<1>4. /\ head \in Nat /\ a \in 0..l /\ head + Block * whole <= l /\ l - a = r
      /\ n + a = Block * (p + whole) /\ p + whole \in Nat
    <2> DEFINE z == Block * whole
               y == Block * p
    <2>1. z \in Nat /\ y \in Nat /\ head + z + r = l /\ n + head = y /\ Block * (p + whole) = y + z
        BY <1>1, <1>3
    <2>2. a = head + z
        OBVIOUS
    <2> HIDE DEF z, y, a
    <2>3. a \in 0..l /\ head + z <= l /\ l - a = r /\ n + a = y + z
        BY <1>1, <1>3, <2>1, <2>2
    <2> QED
        BY <1>1, <1>3, <2>1, <2>3 DEF z
<1>5. st \o Whole(input, head, whole) = Blocks(t)
    <2>1. whole \in Nat /\ head + Block * whole <= Len(input)
        BY <1>3, <1>4 DEF l
    <2>2. st \o Whole(input, head, whole) = [k \in 1..(p + whole) |-> Chunk(s \o input, k)]
        BY <2>1, Extends
    <2>3. Len(t) \div Block = p + whole
        BY <1>2, <1>3
    <2> QED
        BY <2>2, <2>3 DEF Blocks, t
<1>6. Leaves(s, input, a, p + whole, 0)
    <2>1. n + a = Block * (p + whole) + 0 /\ 0 + (l - a) < Block /\ 0 \in 0..(Block - 1)
        BY <1>1, <1>3, <1>4
    <2> HIDE DEF a
    <2> QED
        BY <1>4, <2>1 DEF Leaves, n, l
<1>7. Buffers(memcpy(buffer, 0, SubSeq(input, a + 1, Len(input))), s \o input)
    <2>1. ~(0 > 0)
        OBVIOUS
    <2> HIDE DEF a
    <2> QED
        BY <1>6, <2>1, Buffered
<1> QED
    BY <1>5, <1>7 DEF whole, t, l

\* The input does not complete the buffer.
LEMMA UpdateShort ==
    ASSUME NEW s \in Seq(Bytes), NEW input \in Seq(Bytes), NEW q \in Nat,
           NEW left \in 0..(Block - 1), Len(s) = Block * q + left,
           left + Len(input) < Block, left > 0,
           NEW buffer \in Chunks, \A i \in 1..left : buffer[i] = s[Block * q + i]
    PROVE  /\ Blocks(s \o input) = Blocks(s)
           /\ Buffers(memcpy(buffer, left, SubSeq(input, 1, Len(input))), s \o input)
<1> DEFINE t == s \o input
           r == left + Len(input)
           b == memcpy(buffer, left, SubSeq(input, 1, Len(input)))
<1>1. /\ Block \in Nat /\ Block > 0 /\ Len(s) \in Nat /\ Len(input) \in Nat /\ left \in Nat
      /\ Block * q \in Nat
    BY Md5Assumption, LenProperties
<1>2. t \in Seq(Bytes) /\ Len(t) = Len(s) + Len(input)
    BY ConcatProperties
<1>3. Len(s) \div Block = q /\ Len(s) % Block = left
    <2> DEFINE n == Len(s)
    <2>1. n \in Nat /\ n = Block * q + left /\ q \in Int
        BY <1>1
    <2> HIDE DEF n
    <2>2. n \div Block = q /\ n % Block = left
        BY <1>1, <2>1, DivisionUnique
    <2> QED
        BY <2>2 DEF n
<1>4. Len(t) \div Block = q /\ Len(t) % Block = r
    <2> DEFINE n == Len(t)
    <2>1. n \in Nat /\ n = Block * q + r /\ r \in 0..(Block - 1) /\ q \in Int
        BY <1>1, <1>2
    <2> HIDE DEF n, t, r
    <2>2. n \div Block = q /\ n % Block = r
        BY <1>1, <2>1, DivisionUnique
    <2> QED
        BY <2>2 DEF n
<1>5. Blocks(t) = Blocks(s)
    <2>1. Block * q <= Len(s)
        BY <1>1
    <2>2. \A k \in 1..q : Chunk(t, k) = Chunk(s, k)
        BY <2>1, BlocksKept
    <2> HIDE DEF t
    <2> QED
        BY <1>3, <1>4, <2>2 DEF Blocks
<1>6. Buffers(b, t)
    <2>1. Leaves(s, input, 0, q, left)
        BY <1>1 DEF Leaves
    <2>2. Buffers(memcpy(buffer, left, SubSeq(input, 0 + 1, Len(input))), s \o input)
        BY <2>1, Buffered
    <2>3. 0 + 1 = 1
        OBVIOUS
    <2> QED
        BY <2>2, <2>3
<1> QED
    BY <1>5, <1>6 DEF t, b

\* The count of bits after l bytes more.
LEMMA CountedIs ==
    ASSUME NEW n \in Nat, NEW l \in Nat, NEW total, total[1] = (8 * n) % Word, total[2] \in Nat
    PROVE  /\ Counted(total, l)[1] = (8 * (n + l)) % Word
           /\ Counted(total, l)[2] \in Nat
<1> DEFINE low == Cut(total[1] + 8 * l)
<1>1. Word \in Nat /\ Word > 0 /\ 8 * l \in Nat
    BY Md5Assumption
<1>2. (8 * l) \div Word \in Nat
    BY <1>1, Division
<1>3. low = (8 * (n + l)) % Word
    BY TotalSum DEF Cut
<1> HIDE DEF low
<1>4. Counted(total, l) = <<low, total[2] + (8 * l) \div Word + (IF low < 8 * l THEN 1 ELSE 0)>>
    BY DEF Counted, low
<1> DEFINE w == (8 * l) \div Word
           e == IF low < 8 * l THEN 1 ELSE 0
<1>5. w \in Nat /\ e \in Nat
    BY <1>2
<1>6. Counted(total, l)[1] = low /\ Counted(total, l)[2] = total[2] + w + e
    BY <1>4
<1> HIDE DEF w, e
<1>7. total[2] + w + e \in Nat
    BY <1>5
<1> QED
    BY <1>3, <1>6, <1>7

\* md5_update, whatever was given to it before and however much it is given now.
THEOREM Streaming ==
    ASSUME NEW s \in Seq(Bytes), NEW input \in Seq(Bytes), NEW c, Represents(c, s)
    PROVE  Represents(md5_update(c, input), s \o input)
<1> DEFINE n == Len(s)
           l == Len(input)
           t == s \o input
           q == n \div Block
           left == n % Block
           u == md5_update(c, input)
           head == IF Completes(left, l) THEN Block - left ELSE 0
           filled == memcpy(c.buffer, left, SubSeq(input, 1, head))
           whole == (l - head) \div Block
<1>1. Block \in Nat /\ Block > 0 /\ n \in Nat /\ l \in Nat
    BY Md5Assumption, LenProperties
<1>2. q \in Nat /\ left \in 0..(Block - 1) /\ n = Block * q + left
    BY <1>1, Division
<1>3. (c.total[1] \div 8) % Block = left
    BY <1>1, TotalPlace DEF Represents
<1>4. /\ u.total = IF l = 0 THEN c.total ELSE Counted(c.total, l)
      /\ u.state = (IF head > 0 THEN Append(c.state, filled) ELSE c.state) \o Whole(input, head, whole)
      /\ u.buffer = memcpy(filled, IF head > 0 THEN 0 ELSE left,
                           SubSeq(input, head + Block * whole + 1, l))
    BY <1>3 DEF md5_update, md5_process, Whole
<1>5. t \in Seq(Bytes) /\ Len(t) = n + l
    BY ConcatProperties
<1> HIDE DEF u, t
<1>6. u.total[1] = (8 * Len(t)) % Word /\ u.total[2] \in Nat
    <2>1. c.total[1] = (8 * n) % Word /\ c.total[2] \in Nat
        BY DEF Represents
    <2>2. CASE l = 0
        <3>1. n + l = n
            BY <1>1, <2>2
        <3> QED
            BY <1>4, <1>5, <2>1, <2>2, <3>1
    <2>3. CASE l # 0
        <3>1. /\ Counted(c.total, l)[1] = (8 * (n + l)) % Word
              /\ Counted(c.total, l)[2] \in Nat
            BY <1>1, <2>1, CountedIs
        <3> QED
            BY <1>4, <1>5, <2>3, <3>1
    <2> QED
        BY <2>2, <2>3
<1>7. Block * q <= n
    BY <1>1, <1>2
<1>8. /\ c.state = Blocks(s) /\ c.state \in Seq(Chunks) /\ Len(c.state) = q
      /\ \A k \in 1..q : c.state[k] = Chunk(s \o input, k)
    <2>1. c.state = Blocks(s)
        BY DEF Represents
    <2>2. Blocks(s) \in Seq(Chunks) /\ Len(Blocks(s)) = q /\ \A k \in 1..q : Blocks(s)[k] = Chunk(s, k)
        BY BlocksAre
    <2> HIDE DEF q
    <2>3. \A k \in 1..q : Chunk(s \o input, k) = Chunk(s, k)
        BY <1>2, <1>7, BlocksKept
    <2> QED
        BY <2>1, <2>2, <2>3
<1>9. c.buffer \in Chunks /\ \A i \in 1..left : c.buffer[i] = s[Block * q + i]
    BY DEF Represents, Buffers
<1> HIDE DEF q, left
<1>10. Completes(left, l) <=> left > 0 /\ Block - left <= l
    BY <1>1, <1>2 DEF Completes
<1>11. CASE Completes(left, l)
    <2> DEFINE st == Append(c.state, filled)
    <2>1. head = Block - left /\ head \in 0..l /\ head > 0
        BY <1>1, <1>2, <1>10, <1>11
    <2>2. filled = Chunk(s \o input, q + 1)
        <3>1. Len(s) = Block * q + left /\ Block - left <= Len(input)
            BY <1>2, <1>10, <1>11
        <3>2. memcpy(c.buffer, left, SubSeq(input, 1, Block - left)) = Chunk(s \o input, q + 1)
            BY <1>2, <1>9, <3>1, Filled
        <3> QED
            BY <2>1, <3>2
    <2>3. n + head = Block * (q + 1)
        BY <1>1, <1>2, <2>1
    <2> HIDE DEF head, filled
    <2>4. filled \in Chunks
        <3> DEFINE m == q + 1
        <3>1. m \in Nat /\ m \in 1..m /\ Block * m <= Len(t)
            BY <1>1, <1>2, <1>5, <2>1, <2>3
        <3> HIDE DEF m
        <3>2. Chunk(t, m) \in Chunks
            BY <1>5, <3>1, ChunkOf
        <3> QED
            BY <2>2, <3>2 DEF m, t
    <2>5. /\ st \in Seq(Chunks) /\ Len(st) = q + 1
          /\ \A k \in 1..q : st[k] = c.state[k]
          /\ st[q + 1] = filled
        BY <1>8, <2>4, AppendProperties
    <2> HIDE DEF st
    <2>6. \A k \in 1..(q + 1) : st[k] = Chunk(s \o input, k)
        <3> SUFFICES ASSUME NEW k \in 1..(q + 1) PROVE st[k] = Chunk(s \o input, k)
            OBVIOUS
        <3>1. k \in 1..q \/ k = q + 1
            BY <1>2
        <3> QED
            BY <1>8, <2>2, <2>5, <3>1
    <2>7. Emptied(s, input, head, q + 1, st)
        <3>1. q + 1 \in Nat
            BY <1>2
        <3> QED
            BY <2>1, <2>3, <2>5, <2>6, <3>1 DEF Emptied
    <2>8. /\ st \o Whole(input, head, whole) = Blocks(s \o input)
          /\ Buffers(memcpy(filled, 0, SubSeq(input, head + Block * whole + 1, l)), s \o input)
        BY <2>4, <2>7, UpdateAligned
    <2> HIDE DEF whole
    <2>9. u.state = Blocks(t) /\ Buffers(u.buffer, t)
        BY <1>4, <2>1, <2>8 DEF t, st
    <2> QED
        BY <1>6, <2>9 DEF Represents, u, t
<1>12. ASSUME ~Completes(left, l)
       PROVE  /\ head = 0 /\ ~(head > 0) /\ filled = c.buffer
    <2>1. head = 0 /\ ~(head > 0)
        BY <1>12
    <2>2. SubSeq(input, 1, 0) = <<>>
        BY SubSeqEmpty
    <2>3. filled = memcpy(c.buffer, left, <<>>)
        BY <2>1, <2>2
    <2>4. \A i \in 1..Block : ~(i - left \in 1..Len(<<>>))
        BY <1>1, <1>2
    <2>5. memcpy(c.buffer, left, <<>>) = [i \in 1..Block |-> c.buffer[i]]
        BY <2>4 DEF memcpy
    <2>6. [i \in 1..Block |-> c.buffer[i]] = c.buffer
        BY <1>9 DEF Chunks
    <2> QED
        BY <2>1, <2>3, <2>5, <2>6
<1>13. CASE ~Completes(left, l) /\ left = 0
    <2>1. head = 0 /\ ~(head > 0) /\ filled = c.buffer
        BY <1>12, <1>13
    <2>2. n + head = Block * q /\ head \in 0..l
        BY <1>1, <1>2, <1>13, <2>1
    <2> HIDE DEF head, filled
    <2>3. Emptied(s, input, head, q, c.state)
        BY <1>2, <1>8, <2>2 DEF Emptied
    <2>4. /\ c.state \o Whole(input, head, whole) = Blocks(s \o input)
          /\ Buffers(memcpy(c.buffer, 0, SubSeq(input, head + Block * whole + 1, l)), s \o input)
        BY <1>9, <2>3, UpdateAligned
    <2> HIDE DEF whole
    <2>5. u.state = Blocks(t) /\ Buffers(u.buffer, t)
        BY <1>4, <1>13, <2>1, <2>4 DEF t
    <2> QED
        BY <1>6, <2>5 DEF Represents, u, t
<1>14. CASE ~Completes(left, l) /\ left # 0
    <2>1. head = 0 /\ ~(head > 0) /\ filled = c.buffer
        BY <1>12, <1>14
    <2>2. left > 0 /\ left + l < Block
        BY <1>1, <1>2, <1>10, <1>14
    <2>3. whole = 0
        <3>1. l - head = l /\ l \in 0..(Block - 1) /\ l = Block * 0 + l /\ 0 \in Int
            BY <1>1, <1>2, <2>1, <2>2
        <3>2. l \div Block = 0
            BY <1>1, <3>1, DivisionUnique
        <3> QED
            BY <3>1, <3>2
    <2>4. /\ Blocks(s \o input) = Blocks(s)
          /\ Buffers(memcpy(c.buffer, left, SubSeq(input, 1, l)), s \o input)
        BY <1>2, <1>9, <2>2, UpdateShort
    <2>5. Whole(input, head, whole) = <<>>
        BY <2>3 DEF Whole
    <2>6. head + Block * whole + 1 = 1
        BY <1>1, <2>1, <2>3
    <2>7. u.state = c.state \o <<>> /\ u.buffer = memcpy(c.buffer, left, SubSeq(input, 1, l))
        <3> HIDE DEF head, filled, whole
        <3> QED
            BY <1>4, <2>1, <2>5, <2>6
    <2>8. c.state \o <<>> = c.state
        BY <1>8, ConcatEmptySeq
    <2>9. u.state = Blocks(t) /\ Buffers(u.buffer, t)
        BY <1>8, <2>4, <2>7, <2>8 DEF t
    <2> QED
        BY <1>6, <2>9 DEF Represents, u, t
<1> QED
    BY <1>11, <1>13, <1>14

-----------------------------------------------------------------------------
(***************************************************************************)
(* GenerateMD5: what has been given to md5_update at each pc.              *)
(***************************************************************************)
\* The padding of md5_finish and the length it has taken before.
Pad == SubSeq(md5_padding, 1, padn(len % Block))
LengthBytes == PUT_UINT32(8 * len) \o PUT_UINT32(0)

\* The stream of bytes so far.
Given ==
    CASE pc = "starts" -> <<>>
      [] pc = "finish" -> message
      [] pc = "msglen" -> message \o Pad
      [] pc = "done"   -> (message \o Pad) \o LengthBytes

\* Inductive: the context stands for the stream, and msglen is what md5_finish took
\* before the padding was counted.
Md5Inv ==
    /\ pc \in {"starts", "finish", "msglen", "done"} /\ len \in 0..MaxLen
    /\ Represents(ctx, Given)
    /\ pc = "starts" => ctx.total = <<0, 0>>
    /\ pc \in {"starts", "finish"} => msglen = <<>> /\ ctx.total[2] = 0
    /\ pc \in {"msglen", "done"} => msglen = LengthBytes

\* The number of bits of a message is a word.
LEMMA BitsAreWord ==
    ASSUME len \in 0..MaxLen
    PROVE  /\ len \in Nat /\ 8 * len \in 0..(Word - 1)
           /\ (8 * len) % Word = 8 * len /\ (8 * len) \div Word = 0
<1>1. /\ Word \in Nat /\ Word > 0 /\ len \in Nat /\ 8 * len \in 0..(Word - 1)
      /\ 8 * len \in Nat /\ 8 * len = Word * 0 + 8 * len /\ 0 \in Int
    BY Md5Assumption
<1> DEFINE a == 8 * len
<1>2. a \in Nat /\ a \in 0..(Word - 1) /\ a = Word * 0 + a
    BY <1>1
<1> HIDE DEF a
<1>3. a % Word = a /\ a \div Word = 0
    BY <1>1, <1>2, DivisionUnique
<1> QED
    BY <1>1, <1>3 DEF a

\* The pieces given to md5_update are bytes.
LEMMA Pieces ==
    ASSUME len \in 0..MaxLen
    PROVE  /\ message \in Seq(Bytes) /\ Len(message) = len
           /\ padn(len % Block) \in 1..Block
           /\ Pad \in Seq(Bytes) /\ Len(Pad) = padn(len % Block)
           /\ \A i \in 1..Len(Pad) : Pad[i] = IF i = 1 THEN <<"x80", 0>> ELSE <<"zero", 0>>
           /\ LengthBytes \in Seq(Bytes) /\ Len(LengthBytes) = 2 * WordLen
           /\ \A j \in 1..(2 * WordLen) :
                LengthBytes[j] = IF j <= WordLen THEN <<"len", <<8 * len, j>>>>
                                 ELSE <<"len", <<0, j - WordLen>>>>
           /\ message \o Pad \in Seq(Bytes)
<1>1. /\ Block \in Nat /\ WordLen \in Nat /\ Block > 2 * WordLen /\ WordLen > 0
      /\ MaxLen \in Nat /\ Word \in Nat
      /\ len \in Nat /\ len <= MaxLen /\ 8 * len \in 0..Word /\ 0 \in 0..Word
    BY Md5Assumption
<1>2. len % Block \in 0..(Block - 1)
    BY <1>1, Division
<1>3. message \in [1..len -> Bytes]
    <2>1. \A i \in 1..len : <<"msg", i>> \in Bytes
        BY <1>1 DEF Bytes
    <2> QED
        BY <2>1 DEF message
<1>4. message \in Seq(Bytes) /\ Len(message) = len
    BY <1>1, <1>3
<1> DEFINE n == padn(len % Block)
<1>5. n \in 1..Block /\ n \in Nat
    BY <1>1, <1>2 DEF padn
<1>6. /\ md5_padding \in Seq(Bytes) /\ Len(md5_padding) = Block
      /\ \A i \in 1..Block : md5_padding[i] = IF i = 1 THEN <<"x80", 0>> ELSE <<"zero", 0>>
    <2>1. md5_padding \in [1..Block -> Bytes]
        BY DEF md5_padding, Bytes
    <2>2. \A i \in 1..Block : md5_padding[i] = IF i = 1 THEN <<"x80", 0>> ELSE <<"zero", 0>>
        BY DEF md5_padding
    <2> QED
        BY <1>1, <2>1, <2>2
<1> HIDE DEF n
<1>7. /\ Pad \in Seq(Bytes) /\ Len(Pad) = n
      /\ \A i \in 1..n : Pad[i] = md5_padding[i]
    <2>1. 0 + n <= Len(md5_padding) /\ 0 + 1 = 1 /\ 0 + n = n /\ \A i \in 1..n : 0 + i = i
        BY <1>5, <1>6
    <2>2. /\ SubSeq(md5_padding, 0 + 1, 0 + n) \in Seq(Bytes)
          /\ Len(SubSeq(md5_padding, 0 + 1, 0 + n)) = n
          /\ \A i \in 1..n : SubSeq(md5_padding, 0 + 1, 0 + n)[i] = md5_padding[0 + i]
        BY <1>5, <1>6, <2>1, CutAt
    <2>3. Pad = SubSeq(md5_padding, 0 + 1, 0 + n)
        BY <2>1 DEF Pad, n
    <2> QED
        BY <2>1, <2>2, <2>3
<1>8. \A i \in 1..n : Pad[i] = IF i = 1 THEN <<"x80", 0>> ELSE <<"zero", 0>>
    BY <1>5, <1>6, <1>7
<1>9. /\ LengthBytes \in Seq(Bytes) /\ Len(LengthBytes) = 2 * WordLen
      /\ \A j \in 1..(2 * WordLen) :
            LengthBytes[j] = IF j <= WordLen THEN <<"len", <<8 * len, j>>>>
                             ELSE <<"len", <<0, j - WordLen>>>>
    <2>1. ASSUME NEW v \in 0..Word
          PROVE  /\ PUT_UINT32(v) \in Seq(Bytes) /\ Len(PUT_UINT32(v)) = WordLen
                 /\ \A j \in 1..WordLen : PUT_UINT32(v)[j] = <<"len", <<v, j>>>>
        <3>1. \A j \in 1..WordLen : <<"len", <<v, j>>>> \in Bytes
            BY DEF Bytes
        <3>2. PUT_UINT32(v) \in [1..WordLen -> Bytes]
            BY <3>1 DEF PUT_UINT32
        <3>3. \A j \in 1..WordLen : PUT_UINT32(v)[j] = <<"len", <<v, j>>>>
            BY DEF PUT_UINT32
        <3> QED
            BY <1>1, <3>2, <3>3
    <2> DEFINE x == PUT_UINT32(8 * len)
               y == PUT_UINT32(0)
    <2>2. /\ x \in Seq(Bytes) /\ Len(x) = WordLen /\ y \in Seq(Bytes) /\ Len(y) = WordLen
          /\ \A j \in 1..WordLen : x[j] = <<"len", <<8 * len, j>>>> /\ y[j] = <<"len", <<0, j>>>>
        BY <1>1, <2>1
    <2>3. LengthBytes = x \o y
        BY DEF LengthBytes
    <2> HIDE DEF x, y
    <2>4. /\ x \o y \in Seq(Bytes) /\ Len(x \o y) = Len(x) + Len(y)
          /\ \A j \in 1..(Len(x) + Len(y)) : (x \o y)[j] = IF j <= Len(x) THEN x[j] ELSE y[j - Len(x)]
        BY <2>2, ConcatProperties
    <2>5. Len(x) + Len(y) = 2 * WordLen
        BY <1>1, <2>2
    <2>6. ASSUME NEW j \in 1..(2 * WordLen)
          PROVE  LengthBytes[j] = IF j <= WordLen THEN <<"len", <<8 * len, j>>>>
                                  ELSE <<"len", <<0, j - WordLen>>>>
        <3>1. CASE j <= WordLen
            <4>1. j \in 1..WordLen
                BY <1>1, <3>1
            <4> QED
                BY <2>2, <2>3, <2>4, <2>5, <3>1, <4>1
        <3>2. CASE ~(j <= WordLen)
            <4>1. j - WordLen \in 1..WordLen
                BY <1>1, <3>2
            <4> QED
                BY <2>2, <2>3, <2>4, <2>5, <3>2, <4>1
        <3> QED
            BY <3>1, <3>2
    <2> QED
        BY <2>3, <2>4, <2>5, <2>6
<1>10. message \o Pad \in Seq(Bytes)
    BY <1>4, <1>7, ConcatProperties
<1> QED
    BY <1>4, <1>5, <1>7, <1>8, <1>9, <1>10 DEF n

\* md5_starts stands for the empty stream, whatever the buffer holds.
LEMMA Md5Initial == Init => Md5Inv
<1> SUFFICES ASSUME Init PROVE Md5Inv
    OBVIOUS
<1>1. /\ pc = "starts" /\ len \in 0..MaxLen /\ ctx = md5_starts /\ msglen = <<>>
      /\ Block \in Nat /\ Block > 0 /\ Word \in Nat /\ Word > 0
    BY Md5Assumption DEF Init
<1>2. /\ ctx.total = <<0, 0>> /\ ctx.state = <<>>
      /\ ctx.buffer = [i \in 1..Block |-> <<"junk", 0>>]
    BY <1>1 DEF md5_starts
<1>3. Len(<<>>) = 0 /\ 0 \div Block = 0 /\ 0 % Block = 0 /\ (8 * 0) % Word = 0
    <2>1. 0 = Block * 0 + 0 /\ 0 = Word * 0 + 0 /\ 0 \in 0..(Block - 1) /\ 0 \in 0..(Word - 1)
        BY <1>1
    <2>2. 0 \div Block = 0 /\ 0 % Block = 0 /\ 0 % Word = 0
        BY <1>1, <2>1, DivisionUnique
    <2> QED
        BY <2>2
<1>4. Blocks(<<>>) = <<>>
    BY <1>3 DEF Blocks
<1>5. Buffers(ctx.buffer, <<>>)
    BY <1>2, <1>3 DEF Buffers, Chunks, Bytes
<1>6. Represents(ctx, <<>>)
    BY <1>2, <1>3, <1>4, <1>5 DEF Represents
<1> QED
    BY <1>1, <1>2, <1>6 DEF Md5Inv, Given

\* Every step gives the next piece to md5_update.
LEMMA Md5Step == Md5Inv /\ [Next]_vars => Md5Inv'
<1> SUFFICES ASSUME Md5Inv, [Next]_vars PROVE Md5Inv'
    OBVIOUS
<1>1. /\ len \in 0..MaxLen /\ Represents(ctx, Given)
      /\ pc = "starts" => ctx.total = <<0, 0>>
      /\ pc \in {"starts", "finish"} => msglen = <<>> /\ ctx.total[2] = 0
      /\ pc \in {"msglen", "done"} => msglen = LengthBytes
    BY DEF Md5Inv
<1>2. /\ message \in Seq(Bytes) /\ Len(message) = len /\ Pad \in Seq(Bytes)
      /\ LengthBytes \in Seq(Bytes) /\ message \o Pad \in Seq(Bytes)
    BY <1>1, Pieces
<1>3. CASE Message
    <2>1. pc = "starts" /\ pc' = "finish" /\ ctx' = md5_update(ctx, message) /\ UNCHANGED <<len, msglen>>
        BY <1>3 DEF Message
    <2>2. Given = <<>> /\ Given' = message
        BY <2>1 DEF Given, message
    <2>3. Represents(ctx', message)
        <3>1. <<>> \in Seq(Bytes) /\ <<>> \o message = message
            BY <1>2, ConcatEmptySeq
        <3>2. Represents(md5_update(ctx, message), <<>> \o message)
            BY <1>1, <1>2, <2>2, <3>1, Streaming
        <3> QED
            BY <2>1, <3>1, <3>2
    <2>4. ctx'.total[2] = 0
        <3>1. ctx.total = <<0, 0>> /\ Len(message) = len
            BY <1>1, <1>2, <2>1
        <3>2. ctx'.total = IF len = 0 THEN <<0, 0>> ELSE Counted(<<0, 0>>, len)
            BY <2>1, <3>1 DEF md5_update
        <3>3. /\ len \in Nat /\ (8 * len) % Word = 8 * len /\ (8 * len) \div Word = 0
              /\ 0 + 8 * len = 8 * len /\ ~(8 * len < 8 * len)
            BY <1>1, BitsAreWord
        <3>4. Cut(0 + 8 * len) = 8 * len
            BY <3>3 DEF Cut
        <3>5. Counted(<<0, 0>>, len)[2] = 0 + 0 + 0
            BY <3>3, <3>4 DEF Counted
        <3> QED
            BY <3>2, <3>5
    <2> QED
        BY <1>1, <2>1, <2>2, <2>3, <2>4 DEF Md5Inv
<1>4. CASE Padding
    <2>1. /\ pc = "finish" /\ pc' = "msglen"
          /\ msglen' = PUT_UINT32(ctx.total[1]) \o PUT_UINT32(ctx.total[2])
          /\ ctx' = md5_update(ctx, SubSeq(md5_padding, 1, padn((ctx.total[1] \div 8) % Block)))
          /\ UNCHANGED len
        BY <1>4 DEF Padding
    <2>2. Given = message /\ Given' = message \o Pad
        BY <2>1 DEF Given, message, Pad
    <2>3. ctx.total[1] = (8 * len) % Word
        BY <1>1, <1>2, <2>2 DEF Represents
    <2>4. /\ len \in Nat /\ (8 * len) % Word = 8 * len
          /\ (((8 * len) % Word) \div 8) % Block = len % Block
        BY <1>1, BitsAreWord, TotalPlace
    <2>5. ctx' = md5_update(ctx, Pad)
        BY <2>1, <2>3, <2>4 DEF Pad
    <2>6. Represents(ctx', message \o Pad)
        BY <1>1, <1>2, <2>2, <2>5, Streaming
    <2>7. msglen' = LengthBytes'
        <3>1. ctx.total[1] = 8 * len /\ ctx.total[2] = 0
            BY <1>1, <2>1, <2>3, <2>4
        <3> QED
            BY <2>1, <3>1 DEF LengthBytes
    <2> QED
        BY <1>1, <2>1, <2>2, <2>6, <2>7 DEF Md5Inv
<1>5. CASE Length
    <2>1. pc = "msglen" /\ pc' = "done" /\ ctx' = md5_update(ctx, msglen) /\ UNCHANGED <<len, msglen>>
        BY <1>5 DEF Length
    <2>2. Given = message \o Pad /\ Given' = (message \o Pad) \o LengthBytes
        BY <2>1 DEF Given, message, Pad, LengthBytes
    <2>3. Represents(ctx', (message \o Pad) \o LengthBytes)
        BY <1>1, <1>2, <2>1, <2>2, Streaming
    <2>4. msglen' = LengthBytes'
        BY <1>1, <2>1 DEF LengthBytes
    <2> QED
        BY <1>1, <2>1, <2>2, <2>3, <2>4 DEF Md5Inv
<1>6. CASE UNCHANGED vars
    <2>1. UNCHANGED <<pc, len, ctx, msglen>>
        BY <1>6 DEF vars
    <2>2. Given' = Given /\ LengthBytes' = LengthBytes
        BY <2>1 DEF Given, message, Pad, LengthBytes
    <2> QED
        BY <2>1, <2>2 DEF Md5Inv
<1> QED
    BY <1>3, <1>4, <1>5, <1>6 DEF Next, GenerateMD5

\* At every step the context stands for what has been given to md5_update.
THEOREM Md5Invariant == Spec => []Md5Inv
    BY Md5Initial, Md5Step, PTL DEF Spec

\* The sums of md5_update stay words and its copies stay within the buffer.
THEOREM TypeCorrect == Spec => []TypeOK
<1>1. Md5Inv => TypeOK
    <2> SUFFICES ASSUME Md5Inv PROVE TypeOK
        OBVIOUS
    <2>1. /\ pc \in {"starts", "finish", "msglen", "done"} /\ len \in 0..MaxLen
          /\ Represents(ctx, Given) /\ msglen \in {<<>>, LengthBytes}
        BY DEF Md5Inv
    <2>2. Given \in Seq(Bytes)
        <3>1. /\ <<>> \in Seq(Bytes) /\ message \in Seq(Bytes) /\ message \o Pad \in Seq(Bytes)
              /\ LengthBytes \in Seq(Bytes)
            BY <2>1, Pieces
        <3>2. (message \o Pad) \o LengthBytes \in Seq(Bytes)
            BY <3>1, ConcatProperties
        <3> QED
            BY <2>1, <3>1, <3>2 DEF Given
    <2>3. ctx.total[1] \in 0..(Word - 1) /\ ctx.total[2] \in Nat
        <3> DEFINE n == Len(Given)
        <3>1. n \in Nat /\ ctx.total[1] = (8 * n) % Word /\ ctx.total[2] \in Nat
            BY <2>1, <2>2, LenProperties DEF Represents
        <3> HIDE DEF n
        <3> QED
            BY <3>1, TotalPlace
    <2>4. \A k \in 1..Len(ctx.state) : ctx.state[k] \in [1..Block -> Bytes]
        <3>1. ctx.state = Blocks(Given) /\ Blocks(Given) \in Seq(Chunks)
            BY <2>1, <2>2, BlocksAre DEF Represents
        <3> QED
            BY <3>1, ElementOfSeq DEF Chunks
    <2>5. ctx.buffer \in [1..Block -> Bytes]
        BY <2>1 DEF Represents, Buffers, Chunks
    <2>6. \A i \in 1..Len(msglen) : msglen[i] \in Bytes
        <3>1. msglen \in Seq(Bytes)
            <4>1. LengthBytes \in Seq(Bytes) /\ <<>> \in Seq(Bytes)
                BY <2>1, Pieces, EmptySeq
            <4> QED
                BY <2>1, <4>1
        <3> QED
            BY <3>1, ElementOfSeq
    <2> QED
        BY <2>1, <2>3, <2>4, <2>5, <2>6 DEF TypeOK
<1> QED
    BY <1>1, Md5Invariant, PTL

\* The padding of md5_finish is that of RFC 1321: as few zeros as there can be.
LEMMA FewestZeros ==
    ASSUME len \in 0..MaxLen
    PROVE  (CHOOSE k \in 0..(Block - 1) : (len + 1 + k + 2 * WordLen) % Block = 0)
              = padn(len % Block) - 1
<1> DEFINE r == len % Block
           q == len \div Block
           z == padn(r) - 1
<1>1. Block \in Nat /\ WordLen \in Nat /\ WordLen > 0 /\ Block > 2 * WordLen /\ len \in Nat
    BY Md5Assumption
<1>2. r \in 0..(Block - 1) /\ q \in Nat /\ len = Block * q + r
    BY <1>1, Division
<1> HIDE DEF r, q
<1>3. z \in 0..(Block - 1) /\ (r + 1 + z + 2 * WordLen = Block \/ r + 1 + z + 2 * WordLen = 2 * Block)
    BY <1>1, <1>2 DEF padn
<1> HIDE DEF z
<1>4. PICK y \in Nat : len + 1 + z + 2 * WordLen = Block * y
    <2>1. CASE r + 1 + z + 2 * WordLen = Block
        <3>1. len + 1 + z + 2 * WordLen = Block * (q + 1) /\ q + 1 \in Nat
            BY <1>1, <1>2, <1>3, <2>1
        <3> QED
            BY <3>1
    <2>2. CASE r + 1 + z + 2 * WordLen = 2 * Block
        <3>1. len + 1 + z + 2 * WordLen = Block * (q + 2) /\ q + 2 \in Nat
            BY <1>1, <1>2, <1>3, <2>2
        <3> QED
            BY <3>1
    <2> QED
        BY <1>3, <2>1, <2>2
<1>5. (len + 1 + z + 2 * WordLen) % Block = 0
    <2> DEFINE a == len + 1 + z + 2 * WordLen
    <2>1. a \in Nat /\ a = Block * y + 0 /\ 0 \in 0..(Block - 1) /\ y \in Int
        BY <1>1, <1>3, <1>4
    <2> HIDE DEF a
    <2>2. a % Block = 0
        BY <1>1, <2>1, DivisionUnique
    <2> QED
        BY <2>2 DEF a
<1>6. ASSUME NEW k \in 0..(Block - 1), (len + 1 + k + 2 * WordLen) % Block = 0
      PROVE  k = z
    <2> DEFINE a == len + 1 + k + 2 * WordLen
               x == a \div Block
    <2>1. a \in Nat
        BY <1>1
    <2> HIDE DEF a
    <2>2. x \in Nat /\ a = Block * x + (a % Block)
        BY <1>1, <2>1, Division
    <2>3. a % Block = 0
        BY <1>6 DEF a
    <2> HIDE DEF x
    <2>4. a = Block * x
        BY <1>1, <2>2, <2>3
    <2>5. k - z = Block * (x - y) /\ z - k = Block * (y - x)
        BY <1>1, <1>3, <1>4, <2>2, <2>4 DEF a
    <2>6. CASE k >= z
        <3> DEFINE d == k - z
                   e == x - y
        <3>1. d \in Nat /\ d \in 0..(Block - 1) /\ d = Block * e + 0 /\ e \in Int
              /\ d = Block * 0 + d /\ 0 \in 0..(Block - 1)
            BY <1>1, <1>3, <2>2, <2>5, <2>6
        <3> HIDE DEF d, e
        <3>2. d % Block = 0 /\ d % Block = d
            BY <1>1, <3>1, DivisionUnique
        <3> QED
            BY <1>3, <3>2 DEF d
    <2>7. CASE z >= k
        <3> DEFINE d == z - k
                   e == y - x
        <3>1. d \in Nat /\ d \in 0..(Block - 1) /\ d = Block * e + 0 /\ e \in Int
              /\ d = Block * 0 + d /\ 0 \in 0..(Block - 1)
            BY <1>1, <1>3, <2>2, <2>5, <2>7
        <3> HIDE DEF d, e
        <3>2. d % Block = 0 /\ d % Block = d
            BY <1>1, <3>1, DivisionUnique
        <3> QED
            BY <1>3, <3>2 DEF d
    <2> QED
        BY <1>3, <2>6, <2>7
<1>7. (CHOOSE k \in 0..(Block - 1) : (len + 1 + k + 2 * WordLen) % Block = 0) = z
    BY <1>3, <1>5, <1>6
<1> QED
    BY <1>7 DEF z, r

\* What GenerateMD5 gives to md5_update is the padded message of RFC 1321.
LEMMA GivenIsPadded ==
    ASSUME len \in 0..MaxLen
    PROVE  (message \o Pad) \o LengthBytes = Padded
<1> DEFINE n == padn(len % Block)
           x == <<<<"x80", 0>>>>
           zeros == [i \in 1..(n - 1) |-> <<"zero", 0>>]
<1>1. /\ message \in Seq(Bytes) /\ n \in 1..Block /\ Pad \in Seq(Bytes) /\ Len(Pad) = n
      /\ \A i \in 1..n : Pad[i] = IF i = 1 THEN <<"x80", 0>> ELSE <<"zero", 0>>
    BY Pieces
<1>2. Padded = ((message \o x) \o zeros) \o LengthBytes
    <2>1. (8 * len) % Word = 8 * len /\ (8 * len) \div Word = 0
        BY BitsAreWord
    <2>2. (CHOOSE k \in 0..(Block - 1) : (len + 1 + k + 2 * WordLen) % Block = 0) = n - 1
        BY FewestZeros
    <2> DEFINE bits == [j \in 1..(2 * WordLen) |-> <<"len", Bits(j)>>]
    <2>3. LengthBytes = bits
        <3>1. LengthBytes \in [1..(2 * WordLen) -> Bytes]
            BY Pieces, LenProperties
        <3>2. \A j \in 1..(2 * WordLen) : LengthBytes[j] = <<"len", Bits(j)>>
            BY <2>1, Pieces DEF Bits
        <3> QED
            BY <3>1, <3>2
    <2>4. Padded = ((message \o x) \o zeros) \o bits
        BY <2>2 DEF Padded
    <2> QED
        BY <2>3, <2>4
<1> HIDE DEF n
<1>3. n - 1 \in Nat /\ n = 1 + (n - 1)
    BY <1>1, Md5Assumption
<1>4. x \in Seq(Bytes) /\ Len(x) = 1 /\ x[1] = <<"x80", 0>>
    BY DEF Bytes
<1>5. zeros \in Seq(Bytes) /\ Len(zeros) = n - 1 /\ \A i \in 1..(n - 1) : zeros[i] = <<"zero", 0>>
    <2> DEFINE m == n - 1
    <2>1. zeros \in [1..m -> Bytes] /\ m \in Nat
        BY <1>3 DEF Bytes
    <2>2. \A i \in 1..m : zeros[i] = <<"zero", 0>>
        OBVIOUS
    <2> HIDE DEF m, zeros
    <2> QED
        BY <2>1, <2>2 DEF m
<1> HIDE DEF x, zeros
<1>6. Pad = x \o zeros
    <2>1. /\ x \o zeros \in Seq(Bytes) /\ Len(x \o zeros) = n
          /\ \A i \in 1..n : (x \o zeros)[i] = IF i <= 1 THEN x[i] ELSE zeros[i - 1]
        <3>1. /\ x \o zeros \in Seq(Bytes) /\ Len(x \o zeros) = Len(x) + Len(zeros)
              /\ \A i \in 1..(Len(x) + Len(zeros)) :
                    (x \o zeros)[i] = IF i <= Len(x) THEN x[i] ELSE zeros[i - Len(x)]
            BY <1>4, <1>5, ConcatProperties
        <3>2. Len(x) + Len(zeros) = n
            BY <1>3, <1>4, <1>5
        <3> QED
            BY <1>4, <3>1, <3>2
    <2>2. ASSUME NEW i \in 1..n PROVE Pad[i] = (x \o zeros)[i]
        <3>1. CASE i = 1
            <4>1. (x \o zeros)[1] = x[1]
                BY <2>1, <3>1
            <4>2. Pad[1] = <<"x80", 0>>
                BY <1>1, <3>1
            <4> QED
                BY <1>4, <3>1, <4>1, <4>2
        <3>2. CASE i # 1
            <4>1. i - 1 \in 1..(n - 1) /\ ~(i <= 1)
                BY <1>1, <3>2
            <4> QED
                BY <1>1, <1>5, <2>1, <3>2, <4>1
        <3> QED
            BY <3>1, <3>2
    <2> QED
        BY <1>1, <2>1, <2>2, SeqEqual
<1>7. (message \o x) \o zeros = message \o Pad
    BY <1>1, <1>4, <1>5, <1>6, ConcatAssociative
<1> QED
    BY <1>2, <1>7

\* Md5.cc:2 "RFC 1321 compliant", for messages of every length and blocks of every
\* size: what md5_process is given are the blocks of the padded message.
THEOREM DigestCorrect == Spec => []DigestIsRFC
<1>1. Md5Inv => DigestIsRFC
    <2> SUFFICES ASSUME Md5Inv, pc = "done"
                 PROVE  ctx.state = [k \in 1..(Len(Padded) \div Block) |->
                                        SubSeq(Padded, Block * (k - 1) + 1, Block * k)]
        BY DEF DigestIsRFC
    <2>1. len \in 0..MaxLen /\ Represents(ctx, Given) /\ Given = (message \o Pad) \o LengthBytes
        BY DEF Md5Inv, Given
    <2>2. Given = Padded
        BY <2>1, GivenIsPadded
    <2>3. ctx.state = Blocks(Padded)
        BY <2>1, <2>2 DEF Represents
    <2> QED
        BY <2>3 DEF Blocks, Chunk
<1> QED
    BY <1>1, Md5Invariant, PTL
=============================================================================
