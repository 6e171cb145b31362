----------------------------- MODULE PoolsProofs -----------------------------
(***************************************************************************)
(* Proofs about the two connection pools and the threads that borrow from  *)
(* both, for every number of threads and connections.                      *)
(***************************************************************************)
EXTENDS Pools, FiniteSetTheorems, SequenceTheorems, TLAPS

-----------------------------------------------------------------------------
(***************************************************************************)
(* Queues without duplicates.                                              *)
(***************************************************************************)
Distinct(s) == \A i, j \in 1..Len(s) : s[i] = s[j] => i = j
Elements(s) == {s[i] : i \in 1..Len(s)}
Front(s, k) == {s[i] : i \in 1..k}

\* r is what poolPush makes of s.
Pushed(S, s, e, r) == s \in Seq(S) /\ r = Append(s, e)

\* poolPush of something that is not in the queue.
LEMMA PushDistinct ==
    ASSUME NEW S, NEW s \in Seq(S), NEW e \in S, Distinct(s), e \notin Elements(s)
    PROVE  /\ Append(s, e) \in Seq(S) /\ Len(Append(s, e)) = Len(s) + 1
           /\ Distinct(Append(s, e))
           /\ Elements(Append(s, e)) = Elements(s) \union {e}
BY DEF Distinct, Elements

\* r is what poolPop leaves of s when it has taken the first m + 1 elements.
Popped(S, s, m, r) ==
    /\ s \in Seq(S)
    /\ m \in 0..(Len(s) - 1)
    /\ r = SubSeq(s, m + 2, Len(s))

\* Popping the first m + 1 of a list without repetitions leaves the others.
LEMMA PopDistinct ==
    ASSUME NEW S, NEW s, NEW m, NEW r, Popped(S, s, m, r), Distinct(s)
    PROVE  /\ r \in Seq(S) /\ Len(r) = Len(s) - m - 1
           /\ Distinct(r)
           /\ Elements(r) = Elements(s) \ Front(s, m + 1)
<1>1. /\ s \in Seq(S) /\ r = SubSeq(s, m + 2, Len(s))
      /\ Len(s) \in Nat /\ m \in Nat /\ m < Len(s)
    BY LenProperties DEF Popped
<1>2. /\ r \in Seq(S) /\ Len(r) = Len(s) - m - 1
      /\ \A i \in 1..(Len(s) - m - 1) : r[i] = s[m + i + 1]
    <2>1. \A i \in (m + 2)..Len(s) : s[i] \in S
        BY <1>1, ElementOfSeq
    <2> QED
        BY <1>1, <2>1, SubSeqProperties
<1>3. Distinct(r)
    <2> SUFFICES ASSUME NEW i \in 1..Len(r), NEW j \in 1..Len(r), r[i] = r[j]
                 PROVE  i = j
        BY DEF Distinct
    <2>1. /\ m + i + 1 \in 1..Len(s) /\ m + j + 1 \in 1..Len(s)
          /\ s[m + i + 1] = s[m + j + 1]
        <3>1. i \in 1..(Len(s) - m - 1) /\ j \in 1..(Len(s) - m - 1)
            BY <1>2
        <3>2. r[i] = s[m + i + 1] /\ r[j] = s[m + j + 1]
            BY <1>2, <3>1
        <3> QED
            BY <1>1, <3>1, <3>2
    <2>2. m + i + 1 = m + j + 1
        BY <2>1 DEF Distinct
    <2> QED
        BY <1>1, <1>2, <2>2
<1>4. Elements(r) = Elements(s) \ Front(s, m + 1)
    <2>1. ASSUME NEW x \in Elements(r)
          PROVE  x \in Elements(s) \ Front(s, m + 1)
        <3>1. PICK i \in 1..Len(r) : x = r[i]
            BY DEF Elements
        <3>2. m + i + 1 \in 1..Len(s) /\ m + i + 1 > m + 1 /\ x = s[m + i + 1]
            BY <1>1, <1>2, <3>1
        <3>3. \A j \in 1..(m + 1) : j \in 1..Len(s) /\ j # m + i + 1
            BY <1>1, <3>2
        <3> QED
            BY <3>2, <3>3 DEF Elements, Front, Distinct
    <2>2. ASSUME NEW x \in Elements(s) \ Front(s, m + 1)
          PROVE  x \in Elements(r)
        <3>1. PICK i \in 1..Len(s) : x = s[i]
            BY DEF Elements
        <3>2. i > m + 1
            BY <1>1, <3>1 DEF Front
        <3>3. i - m - 1 \in 1..Len(r) /\ r[i - m - 1] = x
            BY <1>1, <1>2, <3>1, <3>2
        <3> QED
            BY <3>3 DEF Elements
    <2> QED
        BY <2>1, <2>2
<1> QED
    BY <1>2, <1>3, <1>4

\* A queue without duplicates has as many elements as places.
LEMMA DistinctCardinality ==
    ASSUME NEW S, NEW s \in Seq(S), Distinct(s)
    PROVE  IsFiniteSet(Elements(s)) /\ Cardinality(Elements(s)) = Len(s)
<1> DEFINE f == [i \in 1..Len(s) |-> s[i]]
<1>1. Len(s) \in Nat
    BY LenProperties
<1>2. IsFiniteSet(1..Len(s)) /\ Cardinality(1..Len(s)) = Len(s)
    <2>1. PICK n \in Nat : n = Len(s)
        BY <1>1
    <2>2. /\ IsFiniteSet(1..n)
          /\ Cardinality(1..n) = IF 1 > n THEN 0 ELSE n - 1 + 1
        BY FS_Interval
    <2>3. Cardinality(1..n) = n
        BY <2>2
    <2> QED
        BY <2>1, <2>2, <2>3
<1>3. f \in [1..Len(s) -> Elements(s)]
    BY DEF Elements
<1>4. \A i, j \in 1..Len(s) : f[i] = f[j] => i = j
    BY DEF Distinct
<1>5. \A x \in Elements(s) : \E i \in 1..Len(s) : f[i] = x
    BY DEF Elements
<1>6. f \in Bijection(1..Len(s), Elements(s))
    <2> HIDE DEF f
    <2> QED
        BY <1>3, <1>4, <1>5 DEF Bijection, Injection, Surjection, IsInjective
<1> QED
    BY <1>2, <1>6, FS_Bijection DEF ExistsBijection

-----------------------------------------------------------------------------
(***************************************************************************)
(* What both pools have in common: a queue s of idle connections and a     *)
(* function h, what each thread holds.                                     *)
(***************************************************************************)
Holders(h) == {t \in Threads : h[t] # NULL}
Holdings(h) == {h[t] : t \in Holders(h)}
Gets(h, t, c) == [h EXCEPT ![t] = c]

\* S is the set of connections.
HeldType(S, h) == NULL \notin S /\ h \in [Threads -> S \union {NULL}]

\* Every connection has one owner.
Owned(s, h) ==
    /\ Distinct(s)
    /\ Elements(s) \intersect Holdings(h) = {}
    /\ \A t, u \in Holders(h) : h[t] = h[u] => t = u

\* One thread more, or less, holds something; all of them never do while one
\* is asking.
LEMMA OneMore ==
    ASSUME NEW A, A \subseteq Threads, NEW t \in Threads, t \notin A
    PROVE  /\ Cardinality(A) \in Nat
           /\ Cardinality(A \union {t}) = Cardinality(A) + 1
           /\ Cardinality(A) + 1 <= Cardinality(Threads)
           /\ Cardinality(A) + 1 <= MAX_CONNECT
<1>1. IsFiniteSet(Threads) /\ Cardinality(Threads) \in Nat
    BY PoolAssumption, FS_CardinalityType
<1>2. IsFiniteSet(A) /\ Cardinality(A) \in Nat
    BY <1>1, FS_Subset, FS_CardinalityType
<1>3. Cardinality(A \union {t}) = Cardinality(A) + 1
    BY <1>2, FS_AddElement
<1>4. Cardinality(A \union {t}) <= Cardinality(Threads)
    <2>1. A \union {t} \subseteq Threads
        OBVIOUS
    <2> QED
        BY <1>1, <2>1, FS_Subset
<1> QED
    BY <1>1, <1>2, <1>3, <1>4, PoolAssumption

\* Removing one element.
LEMMA OneLess ==
    ASSUME NEW A, A \subseteq Threads, NEW t \in A
    PROVE  Cardinality(A) \in Nat /\ Cardinality(A \ {t}) = Cardinality(A) - 1
<1>1. IsFiniteSet(Threads)
    BY PoolAssumption
<1>2. IsFiniteSet(A) /\ Cardinality(A) \in Nat
    BY <1>1, FS_Subset, FS_CardinalityType
<1> QED
    BY <1>2, FS_RemoveElement

\* The connection at place m + 1 is handed out, the ones before it are dropped.
LEMMA OwnedReuse ==
    ASSUME NEW S, NEW h, HeldType(S, h),
           NEW s, NEW m, NEW r, Popped(S, s, m, r), Owned(s, h),
           NEW t \in Threads, h[t] = NULL,
           NEW g, g = Gets(h, t, s[m + 1])
    PROVE  /\ r \in Seq(S) /\ Len(r) = Len(s) - m - 1
           /\ Elements(r) = Elements(s) \ Front(s, m + 1)
           /\ s[m + 1] \in S /\ s[m + 1] \in Elements(s)
           /\ \A i \in 1..m : s[i] # s[m + 1]
           /\ Owned(r, g)
<1> DEFINE c == s[m + 1]
<1>1. s \in Seq(S) /\ Len(s) \in Nat /\ m \in Nat /\ m + 1 \in 1..Len(s)
    BY LenProperties DEF Popped
<1>2. c \in S /\ c \in Elements(s)
    BY <1>1, ElementOfSeq DEF Elements
<1>3. /\ r \in Seq(S) /\ Len(r) = Len(s) - m - 1
      /\ Distinct(r)
      /\ Elements(r) = Elements(s) \ Front(s, m + 1)
    BY PopDistinct DEF Owned
<1>4. Holders(g) = Holders(h) \union {t} /\ Holdings(g) = Holdings(h) \union {c}
    BY <1>2 DEF Holders, Holdings, Gets, HeldType
<1>5. c \notin Elements(r) /\ c \notin Holdings(h)
    BY <1>1, <1>2, <1>3 DEF Owned, Front
<1>6. Elements(r) \intersect Holdings(g) = {}
    BY <1>3, <1>4, <1>5 DEF Owned
<1>7. \A u, v \in Holders(g) : g[u] = g[v] => u = v
    BY <1>4, <1>5 DEF Owned, Holdings, Holders, Gets, HeldType
<1>8. \A i \in 1..m : s[i] # c
    BY <1>1 DEF Owned, Distinct
<1> QED
    BY <1>2, <1>3, <1>6, <1>7, <1>8 DEF Owned

\* A new connection is handed out when the queue is empty or has been emptied.
LEMMA OwnedCreate ==
    ASSUME NEW S, NEW h, HeldType(S, h),
           NEW s, Owned(s, h), NEW t \in Threads, h[t] = NULL,
           NEW c \in S, c \notin Holdings(h),
           NEW g, g = Gets(h, t, c)
    PROVE  Owned(<<>>, g) /\ Owned(<<>>, h) /\ Elements(<<>>) = {}
<1>1. Holders(g) = Holders(h) \union {t} /\ Holdings(g) = Holdings(h) \union {c}
    BY DEF Holders, Holdings, Gets, HeldType
<1>2. Distinct(<<>>) /\ Elements(<<>>) = {}
    BY DEF Distinct, Elements
<1>3. \A u, v \in Holders(g) : g[u] = g[v] => u = v
    BY <1>1 DEF Owned, Holdings, Holders, Gets, HeldType
<1> QED
    BY <1>2, <1>3 DEF Owned

\* A thread lets go of what it holds.
LEMMA OwnedLetGo ==
    ASSUME NEW S, NEW h, HeldType(S, h),
           NEW s, Owned(s, h), NEW t \in Threads, h[t] # NULL,
           NEW g, g = Gets(h, t, NULL)
    PROVE  /\ h[t] \in S /\ h[t] \in Holdings(h) /\ h[t] \notin Elements(s)
           /\ Holdings(g) = Holdings(h) \ {h[t]}
           /\ Owned(s, g)
<1>1. h[t] \in S /\ t \in Holders(h) /\ h[t] \in Holdings(h)
    BY DEF Holdings, Holders, HeldType
<1>2. Holders(g) = Holders(h) \ {t}
    BY DEF Holders, Gets, HeldType
<1>3. \A u \in Holders(g) : u \in Holders(h) /\ g[u] = h[u] /\ u # t
    BY <1>2 DEF Holders, Gets, HeldType
<1>4. Holdings(g) = Holdings(h) \ {h[t]}
    <2>1. ASSUME NEW u \in Holders(g) PROVE g[u] \in Holdings(h) \ {h[t]}
        BY <1>1, <1>3 DEF Owned, Holdings
    <2>2. ASSUME NEW u \in Holders(h), h[u] # h[t] PROVE h[u] \in Holdings(g)
        <3>1. u \in Holders(g) /\ g[u] = h[u]
            BY <1>2, <2>2 DEF Holders, Gets, HeldType
        <3> QED
            BY <3>1 DEF Holdings
    <2> QED
        BY <2>1, <2>2 DEF Holdings
<1>5. \A u, v \in Holders(g) : g[u] = g[v] => u = v
    BY <1>3 DEF Owned
<1> QED
    BY <1>1, <1>4, <1>5 DEF Owned

\* What a thread held goes to the back of the queue.
LEMMA OwnedReturn ==
    ASSUME NEW S, NEW h, HeldType(S, h),
           NEW s, Owned(s, h), NEW t \in Threads, h[t] # NULL,
           NEW r, Pushed(S, s, h[t], r),
           NEW g, g = Gets(h, t, NULL)
    PROVE  /\ r \in Seq(S) /\ Len(r) = Len(s) + 1
           /\ Elements(r) = Elements(s) \union {h[t]}
           /\ Holdings(g) = Holdings(h) \ {h[t]}
           /\ h[t] \in Holdings(h)
           /\ Owned(r, g)
<1>1. /\ h[t] \in S /\ h[t] \in Holdings(h) /\ h[t] \notin Elements(s)
      /\ Holdings(g) = Holdings(h) \ {h[t]} /\ Owned(s, g)
    BY OwnedLetGo
<1>2. /\ r \in Seq(S) /\ Len(r) = Len(s) + 1
      /\ Distinct(r)
      /\ Elements(r) = Elements(s) \union {h[t]}
    BY <1>1, PushDistinct DEF Owned, Pushed
<1> QED
    BY <1>1, <1>2 DEF Owned

-----------------------------------------------------------------------------
(***************************************************************************)
(* MysqlPool.  Its invariant adds to the properties that only connected    *)
(* MYSQL objects are in the queue or handed out: createOneConnect then     *)
(* never returns one that already has an owner.                            *)
(***************************************************************************)
Connected == \A c \in Elements(mysqlpool) \union Holdings(held) : state[c] # "none"

MysqlInv ==
    /\ MysqlTypeOK
    /\ Owned(mysqlpool, held)
    /\ Connected
    /\ CountIsExact
    /\ NeverTooMany

\* The state of every connection that was not among the first k is kept by the
\* loop that closes those.
LEMMA ClosedKeeps ==
    ASSUME MysqlTypeOK, NEW k \in 0..Len(mysqlpool)
    PROVE  /\ Closed(k) \in [Conns -> {"none", "up", "down"}]
           /\ \A c \in Conns \ Front(mysqlpool, k) : Closed(k)[c] = state[c]
BY DEF MysqlTypeOK, Closed, Front

\* The borrowers are the threads whose connection is not NULL.
LEMMA BorrowedIsHolders ==
    /\ Borrowed = Holders(held) /\ Borrowed \subseteq Threads
    /\ Borrowed' = Holders(held')
BY DEF Borrowed, Holders

\* getOneConnect when a connection of the queue answers its ping: the thread
\* gets a live one, and the count follows the ones closed on the way.
LEMMA ReuseStep ==
    ASSUME MysqlInv, NEW t \in Threads, held[t] = NULL,
           NEW k \in 0..Len(mysqlpool), Pinged(k), Reuse(t, k)
    PROVE  MysqlInv' /\ state'[held'[t]] = "up"
<1> DEFINE c == mysqlpool[k + 1]
<1>1. MysqlTypeOK /\ Owned(mysqlpool, held) /\ NULL \notin Conns
    BY PoolAssumption DEF MysqlInv
<1>2. /\ mysqlpool \in Seq(Conns) /\ held \in [Threads -> Conns \union {NULL}]
      /\ Len(mysqlpool) \in Nat /\ connect_count \in Int
    BY <1>1, LenProperties DEF MysqlTypeOK
<1>3. k \in 0..(Len(mysqlpool) - 1)
    BY <1>2 DEF Reuse
<1>4. /\ mysqlpool' = SubSeq(mysqlpool, k + 2, Len(mysqlpool))
      /\ held' = [held EXCEPT ![t] = mysqlpool[k + 1]]
      /\ connect_count' = connect_count - k
      /\ state' = Closed(k) /\ reason' = reason
    BY DEF Reuse, Rest, CountLess
<1>5. /\ mysqlpool' \in Seq(Conns) /\ Len(mysqlpool') = Len(mysqlpool) - k - 1
      /\ Elements(mysqlpool') = Elements(mysqlpool) \ Front(mysqlpool, k + 1)
      /\ c \in Conns /\ c \in Elements(mysqlpool)
      /\ \A i \in 1..k : mysqlpool[i] # c
      /\ Owned(mysqlpool', held')
    <2>1. HeldType(Conns, held) /\ held' = Gets(held, t, mysqlpool[k + 1])
        BY <1>1, <1>2, <1>4 DEF HeldType, Gets
    <2>2. Popped(Conns, mysqlpool, k, mysqlpool')
        BY <1>2, <1>3, <1>4 DEF Popped
    <2> QED
        BY <1>1, <2>1, <2>2, OwnedReuse
<1>6. /\ Closed(k) \in [Conns -> {"none", "up", "down"}]
      /\ \A d \in Conns \ Front(mysqlpool, k) : Closed(k)[d] = state[d]
    BY <1>1, ClosedKeeps
<1>7. MysqlTypeOK'
    BY <1>1, <1>2, <1>4, <1>5, <1>6, SMTT(30) DEF MysqlTypeOK
<1>8. state'[held'[t]] = "up"
    <2>1. c \notin Front(mysqlpool, k) /\ held'[t] = c
        BY <1>2, <1>4, <1>5 DEF Front
    <2>2. state[c] = "up"
        BY <1>3, <1>2 DEF Pinged
    <2> QED
        BY <1>4, <1>5, <1>6, <2>1, <2>2
<1>9. Connected'
    <2> SUFFICES ASSUME NEW d \in Elements(mysqlpool') \union Holdings(held')
                 PROVE  state'[d] # "none"
        BY DEF Connected
    <2>1. CASE d \in Elements(mysqlpool')
        <3>1. Front(mysqlpool, k) \subseteq Front(mysqlpool, k + 1)
            BY DEF Front
        <3>2. d \in Elements(mysqlpool) /\ d \notin Front(mysqlpool, k)
            BY <1>5, <2>1, <3>1
        <3>3. d \in Conns
            BY <1>2, <3>2, ElementOfSeq DEF Elements
        <3> QED
            BY <1>4, <1>6, <3>2, <3>3 DEF MysqlInv, Connected
    <2>2. CASE d \in Holdings(held')
        <3>1. PICK u \in Holders(held') : d = held'[u]
            BY <2>2 DEF Holdings
        <3>2. CASE u = t
            BY <1>8, <3>1, <3>2
        <3>3. CASE u # t
            <4>1. u \in Holders(held) /\ d = held[u] /\ d \in Conns
                BY <1>2, <1>4, <3>1, <3>3 DEF Holders
            <4>2. d \in Holdings(held) /\ d \notin Elements(mysqlpool)
                BY <1>1, <4>1 DEF Holdings, Owned
            <4>3. d \notin Front(mysqlpool, k)
                BY <1>2, <4>2 DEF Front, Elements
            <4> QED
                BY <1>4, <1>6, <4>1, <4>2, <4>3 DEF MysqlInv, Connected
        <3> QED
            BY <3>2, <3>3
    <2> QED
        BY <2>1, <2>2
<1>10. CountIsExact'
    <2>1. Holders(held') = Holders(held) \union {t} /\ t \notin Holders(held)
        BY <1>1, <1>2, <1>4, <1>5 DEF Holders
    <2>2. /\ Cardinality(Borrowed') = Cardinality(Borrowed) + 1
          /\ Cardinality(Borrowed) \in Nat
        BY <2>1, OneMore, BorrowedIsHolders
    <2>3. connect_count = Len(mysqlpool) + Cardinality(Borrowed)
        BY DEF MysqlInv, CountIsExact
    <2>4. connect_count' = Len(mysqlpool') + Cardinality(Borrowed')
        BY <1>2, <1>3, <1>4, <1>5, <2>2, <2>3
    <2> QED
        BY <2>4 DEF CountIsExact
<1>11. NeverTooMany'
    BY <1>4 DEF MysqlInv, NeverTooMany
<1> QED
    BY <1>5, <1>7, <1>8, <1>9, <1>10, <1>11 DEF MysqlInv

\* getOneConnect when no connection of the queue answers: all of them are
\* closed, and a new one is made or the thread gets NULL.
LEMMA CreateStep ==
    ASSUME MysqlInv, NEW t \in Threads, held[t] = NULL,
           NEW k \in 0..Len(mysqlpool), Create(t, k)
    PROVE  /\ MysqlInv'
           /\ held'[t] # NULL => state'[held'[t]] = "up"
<1>1. MysqlTypeOK /\ Owned(mysqlpool, held) /\ NULL \notin Conns /\ HeldType(Conns, held)
    BY PoolAssumption DEF MysqlInv, MysqlTypeOK, HeldType
<1>2. /\ mysqlpool \in Seq(Conns) /\ held \in [Threads -> Conns \union {NULL}]
      /\ Len(mysqlpool) \in Nat /\ connect_count \in Int
      /\ reason \in [Threads -> {"none", "unreachable", "tooMany"}]
    BY <1>1, LenProperties DEF MysqlTypeOK
<1>3. k = Len(mysqlpool) /\ mysqlpool' = <<>>
    BY DEF Create
<1>4. /\ Closed(k) \in [Conns -> {"none", "up", "down"}]
      /\ \A d \in Conns \ Front(mysqlpool, k) : Closed(k)[d] = state[d]
    BY <1>1, ClosedKeeps
<1>5. /\ <<>> \in Seq(Conns) /\ Len(<<>>) = 0 /\ Elements(<<>>) = {}
    BY DEF Elements
<1>6. \A d \in Holdings(held) : d \in Conns /\ Closed(k)[d] = state[d] /\ state[d] # "none"
    <2> SUFFICES ASSUME NEW u \in Holders(held)
                 PROVE  LET d == held[u] IN
                        d \in Conns /\ Closed(k)[d] = state[d] /\ state[d] # "none"
        BY DEF Holdings
    <2>1. held[u] \in Conns /\ held[u] \in Holdings(held)
        BY <1>2 DEF Holders, Holdings
    <2>2. held[u] \notin Front(mysqlpool, k)
        BY <1>1, <1>2, <1>3, <2>1 DEF Owned, Front, Elements
    <2> QED
        BY <1>4, <2>1, <2>2 DEF MysqlInv, Connected
<1>7. /\ connect_count - k = Cardinality(Holders(held))
      /\ Cardinality(Holders(held)) \in Nat
      /\ Cardinality(Holders(held)) + 1 <= MAX_CONNECT
      /\ Cardinality(Holders(held) \union {t}) = Cardinality(Holders(held)) + 1
    <2>1. t \notin Holders(held) /\ Holders(held) \subseteq Threads
        BY DEF Holders
    <2>2. connect_count = Len(mysqlpool) + Cardinality(Holders(held))
        BY BorrowedIsHolders DEF MysqlInv, CountIsExact
    <2>3. /\ Cardinality(Holders(held)) \in Nat
          /\ Cardinality(Holders(held)) + 1 <= MAX_CONNECT
          /\ Cardinality(Holders(held) \union {t}) = Cardinality(Holders(held)) + 1
        BY <2>1, OneMore
    <2> QED
        BY <1>2, <1>3, <2>2, <2>3
<1>8. Room(k)
    BY <1>7, PoolAssumption DEF Room, CountLess
<1>9. ASSUME NEW c \in Conns, Closed(k)[c] = "none",
             held' = [held EXCEPT ![t] = c], state' = [Closed(k) EXCEPT ![c] = "up"],
             connect_count' = CountLess(k) + 1, reason' = reason
      PROVE  MysqlInv' /\ state'[held'[t]] = "up"
    <2>1. c \notin Holdings(held)
        BY <1>6, <1>9
    <2>2. /\ Holders(held') = Holders(held) \union {t}
          /\ Holdings(held') = Holdings(held) \union {c}
        BY <1>1, <1>2, <1>9 DEF Holders, Holdings
    <2>3. Owned(mysqlpool', held')
        <3>1. held' = Gets(held, t, c)
            BY <1>9 DEF Gets
        <3>2. Owned(<<>>, held')
            BY <1>1, <2>1, <3>1, OwnedCreate
        <3> QED
            BY <1>3, <3>2
    <2>4. MysqlTypeOK'
        BY <1>2, <1>3, <1>4, <1>5, <1>7, <1>9 DEF MysqlTypeOK, CountLess
    <2>5. state'[held'[t]] = "up"
        BY <1>2, <1>4, <1>9
    <2>6. Connected'
        <3>1. \A d \in Holdings(held') : state'[d] # "none"
            BY <1>4, <1>6, <1>9, <2>2
        <3>2. Elements(mysqlpool') = {}
            BY <1>3, <1>5
        <3> QED
            BY <3>1, <3>2 DEF Connected
    <2>7. CountIsExact'
        <3>1. connect_count' = Len(mysqlpool') + Cardinality(Borrowed')
            BY <1>3, <1>5, <1>7, <1>9, <2>2, BorrowedIsHolders DEF CountLess
        <3> QED
            BY <3>1 DEF CountIsExact
    <2>8. NeverTooMany'
        BY <1>9 DEF MysqlInv, NeverTooMany
    <2> QED
        BY <2>3, <2>4, <2>5, <2>6, <2>7, <2>8 DEF MysqlInv
<1>10. ASSUME reason' = [reason EXCEPT ![t] = IF Room(k) THEN "unreachable" ELSE "tooMany"],
              connect_count' = CountLess(k), state' = Closed(k), held' = held
       PROVE  MysqlInv' /\ held'[t] = NULL
    <2>1. Owned(mysqlpool', held')
        BY <1>1, <1>3, <1>5, <1>10 DEF Owned, Distinct
    <2>2. MysqlTypeOK'
        BY <1>2, <1>3, <1>4, <1>5, <1>7, <1>8, <1>10 DEF MysqlTypeOK, CountLess
    <2>3. Connected'
        <3>1. \A d \in Holdings(held') : state'[d] # "none"
            BY <1>6, <1>10
        <3>2. Elements(mysqlpool') = {}
            BY <1>3, <1>5
        <3> QED
            BY <3>1, <3>2 DEF Connected
    <2>4. CountIsExact'
        <3>1. connect_count' = Len(mysqlpool') + Cardinality(Borrowed')
            BY <1>3, <1>5, <1>7, <1>10, BorrowedIsHolders DEF CountLess
        <3> QED
            BY <3>1 DEF CountIsExact
    <2>5. NeverTooMany'
        BY <1>2, <1>8, <1>10 DEF MysqlInv, NeverTooMany
    <2> QED
        BY <1>10, <2>1, <2>2, <2>3, <2>4, <2>5 DEF MysqlInv
<1> QED
    BY <1>9, <1>10 DEF Create

\* getOneConnect of MysqlPool.
LEMMA GetStep ==
    ASSUME MysqlInv, NEW t \in Threads, getOneConnect(t)
    PROVE  /\ MysqlInv'
           /\ \A u \in Threads : held[u] = NULL /\ held'[u] # NULL => state'[held'[u]] = "up"
<1>1. PICK k \in 0..Len(mysqlpool) : Pinged(k) /\ (Reuse(t, k) \/ Create(t, k))
    BY DEF getOneConnect
<1>2. held[t] = NULL
    BY DEF getOneConnect
<1>3. MysqlInv' /\ (held'[t] # NULL => state'[held'[t]] = "up")
    BY <1>1, <1>2, ReuseStep, CreateStep
<1>4. \A u \in Threads \ {t} : held'[u] = held[u]
    BY <1>1 DEF Reuse, Create, MysqlInv, MysqlTypeOK
<1> QED
    BY <1>3, <1>4

\* A step that leaves the pool alone.
LEMMA MysqlStutter ==
    ASSUME MysqlInv, UNCHANGED mysqlVars
    PROVE  MysqlInv'
BY DEF MysqlInv, MysqlTypeOK, Owned, Connected, CountIsExact, Borrowed, NeverTooMany,
       mysqlVars

\* close of MysqlPool: the connection, dead or alive, goes back to the queue.
LEMMA CloseStep ==
    ASSUME MysqlInv, NEW t \in Threads, close(t)
    PROVE  MysqlInv' /\ \A u \in Threads : held[u] = NULL => held'[u] = NULL
<1>1. /\ mysqlpool \in Seq(Conns) /\ held \in [Threads -> Conns \union {NULL}]
      /\ Len(mysqlpool) \in Nat /\ connect_count \in Int /\ NULL \notin Conns
    BY PoolAssumption, LenProperties DEF MysqlInv, MysqlTypeOK
<1>2. /\ held' = [held EXCEPT ![t] = NULL]
      /\ connect_count' = connect_count /\ state' = state /\ reason' = reason
    BY DEF close
<1>3. NeverTooMany'
    BY <1>2 DEF MysqlInv, NeverTooMany
<1>4. CASE held[t] = NULL
    <2>1. mysqlpool' = mysqlpool /\ held' = held
        BY <1>1, <1>2, <1>4 DEF close, Returned
    <2> QED
        BY <1>2, <2>1, MysqlStutter DEF mysqlVars
<1>5. CASE held[t] # NULL
    <2>1. mysqlpool' = Append(mysqlpool, held[t])
        BY <1>5 DEF close, Returned
    <2>2. /\ mysqlpool' \in Seq(Conns) /\ Len(mysqlpool') = Len(mysqlpool) + 1
          /\ Elements(mysqlpool') = Elements(mysqlpool) \union {held[t]}
          /\ Holdings(held') = Holdings(held) \ {held[t]}
          /\ held[t] \in Holdings(held)
          /\ Owned(mysqlpool', held')
        <3>1. HeldType(Conns, held) /\ held' = Gets(held, t, NULL)
            BY <1>1, <1>2 DEF HeldType, Gets
        <3>2. Owned(mysqlpool, held)
            BY DEF MysqlInv
        <3>3. Pushed(Conns, mysqlpool, held[t], mysqlpool')
            BY <1>1, <2>1 DEF Pushed
        <3> QED
            BY <1>5, <3>1, <3>2, <3>3, OwnedReturn
    <2>3. MysqlTypeOK'
        BY <1>1, <1>2, <2>2 DEF MysqlInv, MysqlTypeOK
    <2>4. Connected'
        BY <1>2, <2>2 DEF MysqlInv, Connected
    <2>5. CountIsExact'
        <3>1. Holders(held') = Holders(held) \ {t} /\ t \in Holders(held)
            BY <1>1, <1>2, <1>5 DEF Holders
        <3>2. /\ Cardinality(Borrowed') = Cardinality(Borrowed) - 1
              /\ Cardinality(Borrowed) \in Nat
            BY <3>1, OneLess, BorrowedIsHolders
        <3>3. connect_count = Len(mysqlpool) + Cardinality(Borrowed)
            BY DEF MysqlInv, CountIsExact
        <3>4. connect_count' = Len(mysqlpool') + Cardinality(Borrowed')
            BY <1>1, <1>2, <2>2, <3>2, <3>3
        <3> QED
            BY <3>4 DEF CountIsExact
    <2> QED
        BY <1>1, <1>2, <1>3, <2>2, <2>3, <2>4, <2>5 DEF MysqlInv
<1> QED
    BY <1>4, <1>5

\* A connection dies, wherever it is.
LEMMA DiesStep ==
    ASSUME MysqlInv, NEW c \in Conns, ConnectionDies(c)
    PROVE  MysqlInv' /\ held' = held
BY DEF MysqlInv, MysqlTypeOK, Owned, Connected, CountIsExact, Borrowed, NeverTooMany,
       ConnectionDies

-----------------------------------------------------------------------------
(***************************************************************************)
(* RedisPool.  The invariant is ownership, exact knowledge of what is      *)
(* connected, and the bound.                                               *)
(***************************************************************************)
OpenedIsOwned == opened = Elements(redispool) \union Holdings(redis_held)

RedisInv ==
    /\ Redis!TypeOK
    /\ Owned(redispool, redis_held)
    /\ OpenedIsOwned
    /\ ContextsBounded

\* The Cardinality that RedisPool's instance brings is the standard one.
LEMMA SameCardinality == \A S : Redis!Cardinality(S) = Cardinality(S)
BY DEF Redis!Cardinality, Cardinality

\* No more is handed out than there are threads to hold it.
LEMMA HoldingsBounded ==
    ASSUME NEW h
    PROVE  /\ IsFiniteSet(Holdings(h)) /\ Cardinality(Holdings(h)) \in Nat
           /\ Cardinality(Holdings(h)) <= Cardinality(Holders(h))
<1> DEFINE f == [t \in Holders(h) |-> h[t]]
<1>1. IsFiniteSet(Threads) /\ Holders(h) \subseteq Threads
    BY PoolAssumption DEF Holders
<1>2. IsFiniteSet(Holders(h))
    BY <1>1, FS_Subset
<1>3. /\ f \in [Holders(h) -> Holdings(h)]
      /\ \A c \in Holdings(h) : \E t \in Holders(h) : f[t] = c
    BY DEF Holdings
<1>4. f \in Surjection(Holders(h), Holdings(h))
    <2> HIDE DEF f
    <2> QED
        BY <1>3 DEF Surjection
<1>5. IsFiniteSet(Holdings(h)) /\ Cardinality(Holdings(h)) <= Cardinality(Holders(h))
    BY <1>2, <1>4, FS_Surjection
<1> QED
    BY <1>5, FS_CardinalityType

\* getOneConnect of RedisPool.
LEMMA RedisGetStep ==
    ASSUME RedisInv, NEW t \in Threads, Redis!getOneConnect(t)
    PROVE  RedisInv'
<1>1. /\ redispool \in Seq(Contexts) /\ redis_held \in [Threads -> Contexts \union {NULL}]
      /\ Len(redispool) \in Nat /\ redis_count \in Nat /\ opened \subseteq Contexts
      /\ NULL \notin Contexts /\ redis_held[t] = NULL
      /\ Owned(redispool, redis_held)
    BY RedisAssumption, LenProperties
    DEF RedisInv, Redis!TypeOK, Redis!getOneConnect
<1>2. HeldType(Contexts, redis_held)
    BY <1>1 DEF HeldType
<1>3. CASE Redis!Reuse(t)
    <2> DEFINE m == 0
    <2>1. /\ redispool' = Tail(redispool) /\ redispool # <<>>
          /\ redis_held' = [redis_held EXCEPT ![t] = Head(redispool)]
          /\ redis_count' = redis_count /\ opened' = opened
        BY <1>3 DEF Redis!Reuse, Redis!isEmpty, Redis!poolPop
    <2>2. Popped(Contexts, redispool, m, redispool') /\ Head(redispool) = redispool[m + 1]
        <3>1. Len(redispool) >= 1 /\ Head(redispool) = redispool[1]
            BY <1>1, <2>1
        <3>2. redispool' = SubSeq(redispool, 2, Len(redispool))
            BY <1>1, <2>1, TailIsSubSeq
        <3> QED
            BY <1>1, <3>1, <3>2 DEF Popped
    <2>3. Front(redispool, m + 1) = {Head(redispool)}
        BY <1>1, <2>2 DEF Front
    <2> HIDE DEF m
    <2>4. redis_held' = Gets(redis_held, t, redispool[m + 1])
        BY <2>1, <2>2 DEF Gets
    <2>5. /\ redispool' \in Seq(Contexts)
          /\ Elements(redispool') = Elements(redispool) \ Front(redispool, m + 1)
          /\ redispool[m + 1] \in Contexts /\ redispool[m + 1] \in Elements(redispool)
          /\ Owned(redispool', redis_held')
        BY <1>1, <1>2, <2>2, <2>4, OwnedReuse
    <2>6. Redis!TypeOK'
        BY <1>1, <2>1, <2>2, <2>5 DEF Redis!TypeOK
    <2>7. Holdings(redis_held') = Holdings(redis_held) \union {Head(redispool)}
        BY <1>1, <2>1, <2>2, <2>5 DEF Holdings, Holders
    <2>8. OpenedIsOwned'
        BY <2>1, <2>2, <2>3, <2>5, <2>7 DEF RedisInv, OpenedIsOwned
    <2>9. ContextsBounded'
        BY <2>1 DEF RedisInv, ContextsBounded, Redis!ConnectionsBounded
    <2> QED
        BY <2>5, <2>6, <2>8, <2>9 DEF RedisInv
<1>4. CASE Redis!Create(t)
    <2>1. redispool = <<>> /\ redispool' = redispool /\ redis_count' = redis_count
        BY <1>4 DEF Redis!Create, Redis!isEmpty
    <2>2. CASE UNCHANGED <<redis_held, opened>>
        BY <2>1, <2>2 DEF RedisInv, Redis!TypeOK, Owned, OpenedIsOwned,
                          ContextsBounded, Redis!ConnectionsBounded
    <2>3. ASSUME NEW c \in Contexts \ opened,
                 redis_held' = [redis_held EXCEPT ![t] = c],
                 opened' = opened \union {c}
          PROVE  RedisInv'
        <3>1. Elements(redispool) = {} /\ opened = Holdings(redis_held)
            BY <2>1 DEF Elements, RedisInv, OpenedIsOwned
        <3>2. redis_held' = Gets(redis_held, t, c) /\ c \notin Holdings(redis_held)
            BY <2>3, <3>1 DEF Gets
        <3>3. Owned(<<>>, redis_held')
            BY <1>1, <1>2, <2>3, <3>2, OwnedCreate
        <3>4. Redis!TypeOK'
            BY <1>1, <2>1, <2>3 DEF Redis!TypeOK
        <3>5. Holdings(redis_held') = Holdings(redis_held) \union {c}
            BY <1>1, <2>3 DEF Holdings, Holders
        <3>6. OpenedIsOwned'
            BY <2>1, <2>3, <3>1, <3>5 DEF OpenedIsOwned
        <3>7. Cardinality(opened') <= Cardinality(Threads)
            <4>1. t \notin Holders(redis_held) /\ Holders(redis_held) \subseteq Threads
                BY <1>1 DEF Holders
            <4>2. /\ Cardinality(Holders(redis_held)) \in Nat
                  /\ Cardinality(Holders(redis_held)) + 1 <= Cardinality(Threads)
                BY <4>1, OneMore
            <4>3. /\ IsFiniteSet(opened) /\ Cardinality(opened) \in Nat
                  /\ Cardinality(opened) <= Cardinality(Holders(redis_held))
                BY <3>1, HoldingsBounded
            <4>4. Cardinality(opened') = Cardinality(opened) + 1
                BY <2>3, <4>3, FS_AddElement
            <4>5. Cardinality(Threads) \in Nat
                BY PoolAssumption, FS_CardinalityType
            <4> QED
                BY <4>2, <4>3, <4>4, <4>5
        <3>8. Owned(redispool', redis_held')
            BY <2>1, <3>3
        <3> QED
            BY <3>4, <3>6, <3>7, <3>8, SameCardinality
            DEF RedisInv, ContextsBounded, Redis!ConnectionsBounded
    <2> QED
        BY <1>4, <2>2, <2>3 DEF Redis!Create
<1> QED
    BY <1>3, <1>4 DEF Redis!getOneConnect

\* A step that leaves the pool alone.
LEMMA RedisStutter ==
    ASSUME RedisInv, UNCHANGED redisVars
    PROVE  RedisInv'
BY DEF RedisInv, Redis!TypeOK, Owned, OpenedIsOwned, ContextsBounded,
       Redis!ConnectionsBounded, redisVars

\* close of RedisPool.
LEMMA RedisCloseStep ==
    ASSUME RedisInv, NEW t \in Threads, Redis!close(t)
    PROVE  RedisInv'
<1>1. /\ redispool \in Seq(Contexts) /\ redis_held \in [Threads -> Contexts \union {NULL}]
      /\ redis_count \in Nat /\ opened \subseteq Contexts
      /\ NULL \notin Contexts /\ Owned(redispool, redis_held)
    BY RedisAssumption DEF RedisInv, Redis!TypeOK
<1>2. /\ redis_held' = [redis_held EXCEPT ![t] = NULL]
      /\ redis_count' = redis_count /\ opened' = opened
    BY DEF Redis!close
<1>3. CASE redis_held[t] = NULL
    <2>1. redispool' = redispool /\ redis_held' = redis_held
        BY <1>1, <1>2, <1>3 DEF Redis!close
    <2> QED
        BY <1>2, <2>1, RedisStutter DEF redisVars
<1>4. CASE redis_held[t] # NULL
    <2>1. HeldType(Contexts, redis_held) /\ redis_held' = Gets(redis_held, t, NULL)
        BY <1>1, <1>2 DEF HeldType, Gets
    <2>2. Pushed(Contexts, redispool, redis_held[t], redispool')
        BY <1>1, <1>4 DEF Redis!close, Pushed
    <2>3. /\ redispool' \in Seq(Contexts)
          /\ Elements(redispool') = Elements(redispool) \union {redis_held[t]}
          /\ Holdings(redis_held') = Holdings(redis_held) \ {redis_held[t]}
          /\ redis_held[t] \in Holdings(redis_held)
          /\ Owned(redispool', redis_held')
        BY <1>1, <1>4, <2>1, <2>2, OwnedReturn
    <2>4. Redis!TypeOK'
        BY <1>1, <1>2, <2>3 DEF Redis!TypeOK
    <2>5. OpenedIsOwned'
        BY <1>2, <2>3 DEF RedisInv, OpenedIsOwned
    <2>6. ContextsBounded'
        BY <1>2 DEF RedisInv, ContextsBounded, Redis!ConnectionsBounded
    <2> QED
        BY <2>3, <2>4, <2>5, <2>6 DEF RedisInv
<1> QED
    BY <1>3, <1>4

\* prepareForSeckill frees its context.
LEMMA RedisFreeStep ==
    ASSUME RedisInv, NEW t \in Threads, redis_held[t] # NULL, Redis!redisFree(t)
    PROVE  RedisInv'
<1>1. /\ redispool \in Seq(Contexts) /\ redis_held \in [Threads -> Contexts \union {NULL}]
      /\ redis_count \in Nat /\ opened \subseteq Contexts
      /\ NULL \notin Contexts /\ Owned(redispool, redis_held)
    BY RedisAssumption DEF RedisInv, Redis!TypeOK
<1>2. /\ redis_held' = [redis_held EXCEPT ![t] = NULL] /\ redispool' = redispool
      /\ redis_count' = redis_count /\ opened' = opened \ {redis_held[t]}
    BY DEF Redis!redisFree
<1>3. HeldType(Contexts, redis_held) /\ redis_held' = Gets(redis_held, t, NULL)
    BY <1>1, <1>2 DEF HeldType, Gets
<1>4. /\ redis_held[t] \notin Elements(redispool)
      /\ Holdings(redis_held') = Holdings(redis_held) \ {redis_held[t]}
      /\ Owned(redispool, redis_held')
    BY <1>1, <1>3, OwnedLetGo
<1>5. Redis!TypeOK'
    BY <1>1, <1>2 DEF Redis!TypeOK
<1>6. OpenedIsOwned'
    BY <1>2, <1>4 DEF RedisInv, OpenedIsOwned
<1>7. ContextsBounded'
    <2>1. Cardinality(opened) <= Cardinality(Threads)
        BY SameCardinality DEF RedisInv, ContextsBounded, Redis!ConnectionsBounded
    <2>2. IsFiniteSet(opened)
        BY <1>1, RedisAssumption, FS_Subset
    <2>3. opened' \subseteq opened
        BY <1>2
    <2>4. /\ Cardinality(opened') \in Nat /\ Cardinality(opened) \in Nat
          /\ Cardinality(opened') <= Cardinality(opened)
        BY <2>2, <2>3, FS_Subset, FS_CardinalityType
    <2>5. Cardinality(Threads) \in Nat
        BY PoolAssumption, FS_CardinalityType
    <2>6. Cardinality(opened') <= Cardinality(Threads)
        BY <2>1, <2>4, <2>5
    <2> QED
        BY <2>6, SameCardinality DEF ContextsBounded, Redis!ConnectionsBounded
<1> QED
    BY <1>2, <1>4, <1>5, <1>6, <1>7 DEF RedisInv

-----------------------------------------------------------------------------
(***************************************************************************)
(* The threads on both pools.                                              *)
(***************************************************************************)
PoolsInv == TypeOK /\ MysqlInv /\ RedisInv

\* The empty pools satisfy the invariant.
LEMMA PoolsInitial == Init => PoolsInv
<1> SUFFICES ASSUME Init PROVE PoolsInv
    OBVIOUS
<1>1. MysqlInit /\ Redis!Init /\ alive = TRUE /\ pc \in [Threads -> Labels]
    BY DEF Init, Labels
<1>2. <<>> \in Seq(Conns) /\ <<>> \in Seq(Contexts) /\ Len(<<>>) = 0
    OBVIOUS
<1>3. /\ Holders(held) = {} /\ Holders(redis_held) = {}
      /\ Holdings(held) = {} /\ Holdings(redis_held) = {}
    BY <1>1 DEF MysqlInit, Redis!Init, Holders, Holdings
<1>4. /\ Owned(mysqlpool, held) /\ Owned(redispool, redis_held)
      /\ Elements(mysqlpool) = {} /\ Elements(redispool) = {}
    BY <1>1, <1>3 DEF MysqlInit, Redis!Init, Owned, Distinct, Elements
<1>5. MysqlTypeOK /\ Redis!TypeOK /\ TypeOK
    BY <1>1, <1>2 DEF MysqlInit, Redis!Init, MysqlTypeOK, Redis!TypeOK, TypeOK
<1>6. CountIsExact
    BY <1>1, <1>2, <1>3, BorrowedIsHolders, FS_EmptySet DEF MysqlInit, CountIsExact
<1>7. ContextsBounded
    <2>1. opened = {} /\ Cardinality({}) = 0
        BY <1>1, FS_EmptySet DEF Redis!Init
    <2>2. Cardinality(Threads) \in Nat
        BY PoolAssumption, FS_CardinalityType
    <2> QED
        BY <2>1, <2>2, SameCardinality DEF ContextsBounded, Redis!ConnectionsBounded
<1>8. Connected /\ NeverTooMany /\ OpenedIsOwned
    BY <1>1, <1>3, <1>4
    DEF MysqlInit, Redis!Init, Connected, NeverTooMany, OpenedIsOwned
<1> QED
    BY <1>4, <1>5, <1>6, <1>7, <1>8 DEF PoolsInv, MysqlInv, RedisInv

\* One step of any thread, or the death of a connection.
LEMMA PoolsStep ==
    ASSUME PoolsInv, [Next]_vars
    PROVE  /\ PoolsInv'
           /\ \A u \in Threads : held[u] = NULL /\ held'[u] # NULL => state'[held'[u]] = "up"
<1>1. TypeOK /\ MysqlInv /\ RedisInv
    BY DEF PoolsInv
<1> DEFINE Live == \A u \in Threads :
                     held[u] = NULL /\ held'[u] # NULL => state'[held'[u]] = "up"
<1>2. ASSUME MysqlInv', RedisInv',
             alive' \in BOOLEAN, pc' \in [Threads -> Labels]
      PROVE  PoolsInv'
    BY <1>2 DEF PoolsInv, MysqlInv, RedisInv, TypeOK
<1>3. ASSUME UNCHANGED mysqlVars PROVE MysqlInv' /\ Live
    BY <1>1, <1>3, MysqlStutter DEF mysqlVars
<1>4. ASSUME UNCHANGED redisVars PROVE RedisInv'
    BY <1>1, <1>4, RedisStutter
<1>5. ASSUME NEW t \in Threads,
             BorrowRedis(t) \/ ReturnAtOnce(t) \/ ReturnRedis(t)
      PROVE  PoolsInv' /\ Live
    <2>1. Redis!getOneConnect(t) \/ Redis!close(t)
        BY <1>5 DEF BorrowRedis, ReturnAtOnce, ReturnRedis
    <2>2. RedisInv'
        BY <1>1, <2>1, RedisGetStep, RedisCloseStep
    <2>3. /\ UNCHANGED mysqlVars /\ alive' \in BOOLEAN
          /\ pc' \in [Threads -> Labels]
        BY <1>1, <1>5 DEF BorrowRedis, ReturnAtOnce, ReturnRedis, TypeOK, Labels
    <2> QED
        BY <1>2, <1>3, <2>2, <2>3
<1>6. ASSUME NEW t \in Threads, NullCommand(t)
      PROVE  PoolsInv' /\ Live
    <2>1. /\ UNCHANGED <<mysqlVars, redisVars>> /\ alive' \in BOOLEAN
          /\ pc' \in [Threads -> Labels]
        BY <1>1, <1>6 DEF NullCommand, TypeOK, Labels
    <2> QED
        BY <1>2, <1>3, <1>4, <2>1
<1>7. ASSUME NEW t \in Threads, BorrowMysql(t)
      PROVE  PoolsInv' /\ Live
    <2>1. MysqlInv' /\ Live
        BY <1>1, <1>7, GetStep DEF BorrowMysql
    <2>2. /\ UNCHANGED redisVars /\ alive' \in BOOLEAN
          /\ pc' \in [Threads -> Labels]
        BY <1>1, <1>7 DEF BorrowMysql, TypeOK, Labels
    <2> QED
        BY <1>2, <1>4, <2>1, <2>2
<1>8. ASSUME NEW t \in Threads, ReturnMysql(t)
      PROVE  PoolsInv' /\ Live
    <2>1. MysqlInv' /\ Live
        BY <1>1, <1>8, CloseStep DEF ReturnMysql
    <2>2. /\ UNCHANGED redisVars /\ alive' \in BOOLEAN
          /\ pc' \in [Threads -> Labels]
        BY <1>1, <1>8 DEF ReturnMysql, TypeOK, Labels
    <2> QED
        BY <1>2, <1>4, <2>1, <2>2
<1>9. ASSUME NEW c \in Conns, Dies(c)
      PROVE  PoolsInv' /\ Live
    <2>1. MysqlInv' /\ Live
        BY <1>1, <1>9, DiesStep DEF Dies
    <2>2. /\ UNCHANGED redisVars /\ alive' \in BOOLEAN
          /\ pc' \in [Threads -> Labels]
        BY <1>1, <1>9 DEF Dies, TypeOK
    <2> QED
        BY <1>2, <1>4, <2>1, <2>2
<1>10. CASE PrepareMysql
    <2>1. MysqlInv' /\ Live
        BY <1>1, <1>10, RedisAssumption, GetStep DEF PrepareMysql
    <2>2. /\ UNCHANGED redisVars /\ alive' \in BOOLEAN /\ pc' \in [Threads -> Labels]
        BY <1>1, <1>10 DEF PrepareMysql, TypeOK, Labels
    <2> QED
        BY <1>2, <1>4, <2>1, <2>2
<1>11. CASE PrepareRedis
    <2>1. RedisInv'
        BY <1>1, <1>11, RedisAssumption, RedisGetStep DEF PrepareRedis
    <2>2. /\ UNCHANGED mysqlVars /\ alive' \in BOOLEAN /\ pc' \in [Threads -> Labels]
        BY <1>1, <1>11 DEF PrepareRedis, TypeOK, Labels
    <2> QED
        BY <1>2, <1>3, <2>1, <2>2
<1>12. CASE PrepareReturns
    <2>1. MysqlInv' /\ Live
        BY <1>1, <1>12, RedisAssumption, CloseStep DEF PrepareReturns
    <2>2. RedisInv'
        BY <1>1, <1>12, RedisAssumption, RedisCloseStep DEF PrepareReturns
    <2>3. alive' \in BOOLEAN /\ pc' \in [Threads -> Labels]
        BY <1>1, <1>12 DEF PrepareReturns, TypeOK, Labels
    <2> QED
        BY <1>2, <2>1, <2>2, <2>3
<1>13. CASE PrepareLeaks
    <2>1. RedisInv'
        BY <1>1, <1>13, RedisAssumption, RedisFreeStep DEF PrepareLeaks, HasBoth
    <2>2. /\ UNCHANGED mysqlVars /\ alive' \in BOOLEAN /\ pc' \in [Threads -> Labels]
        BY <1>1, <1>13 DEF PrepareLeaks, TypeOK, Labels
    <2> QED
        BY <1>2, <1>3, <2>1, <2>2
<1>14. CASE PrepareEnds \/ UNCHANGED vars
    <2>1. /\ UNCHANGED <<mysqlVars, redisVars>> /\ alive' \in BOOLEAN
          /\ pc' \in [Threads -> Labels]
        BY <1>1, <1>14 DEF PrepareEnds, vars, TypeOK
    <2> QED
        BY <1>2, <1>3, <1>4, <2>1
<1> QED
    BY <1>5, <1>6, <1>7, <1>8, <1>9, <1>10, <1>11, <1>12, <1>13, <1>14 DEF Next

\* The invariant holds in every reachable state.
THEOREM PoolsInvariant == Spec => []PoolsInv
BY PoolsInitial, PoolsStep, PTL DEF Spec

\* Type correctness of the two pools and their borrowers.
THEOREM TypeCorrect == Spec => []TypeOK
<1>1. PoolsInv => TypeOK
    BY DEF PoolsInv
<1> QED
    BY <1>1, PoolsInvariant, PTL

\* connect_count is exact, whatever dies and whatever fails to connect.
THEOREM CountExact == Spec => []CountIsExact
<1>1. PoolsInv => CountIsExact
    BY DEF PoolsInv, MysqlInv
<1> QED
    BY <1>1, PoolsInvariant, PTL

\* No two threads share a MYSQL connection, and none is in the queue while used.
THEOREM ConnectionOneOwner == Spec => []OneOwner
<1>1. ASSUME PoolsInv PROVE OneOwner
    <2>1. /\ mysqlpool \in Seq(Conns) /\ Owned(mysqlpool, held)
        BY <1>1 DEF PoolsInv, MysqlInv, MysqlTypeOK
    <2>2. DOMAIN mysqlpool = 1..Len(mysqlpool)
        BY <2>1, LenProperties
    <2> QED
        BY <2>1, <2>2, BorrowedIsHolders DEF OneOwner, Owned, Distinct, Elements, Holdings
<1> QED
    BY <1>1, PoolsInvariant, PTL

\* With as many connections allowed as there are threads, no thread is refused one
\* because of the limit.
THEOREM LimitNeverMet == Spec => []NeverTooMany
<1>1. PoolsInv => NeverTooMany
    BY DEF PoolsInv, MysqlInv
<1> QED
    BY <1>1, PoolsInvariant, PTL

\* A thread that gets a connection gets a live one.
THEOREM LiveConnections == Spec => HandsOutLive
<1>1. ASSUME PoolsInv, [Next]_vars
      PROVE  [\A t \in Threads :
                held[t] = NULL /\ held'[t] # NULL => state'[held'[t]] = "up"]_mysqlVars
    BY <1>1, PoolsStep
<1> QED
    BY <1>1, PoolsInvariant, PTL DEF Spec, HandsOutLive

\* A redisContext has one owner, and the connected ones are those that are owned.
THEOREM ContextsOwned == Spec => []ContextOneOwner
<1>1. ASSUME PoolsInv PROVE ContextOneOwner
    <2>1. redispool \in Seq(Contexts) /\ Owned(redispool, redis_held) /\ OpenedIsOwned
        BY <1>1 DEF PoolsInv, RedisInv, Redis!TypeOK
    <2>2. Redis!Pooled = Elements(redispool)
        BY <2>1, LenProperties DEF Redis!Pooled, Elements
    <2>3. /\ Redis!Borrowed = Holders(redis_held)
          /\ {redis_held[t] : t \in Redis!Borrowed} = Holdings(redis_held)
        BY DEF Redis!Borrowed, Holders, Holdings
    <2>4. Cardinality(Redis!Pooled) = Len(redispool)
        BY <2>1, <2>2, DistinctCardinality DEF Owned
    <2> QED
        BY <2>1, <2>2, <2>3, <2>4, SameCardinality
        DEF ContextOneOwner, Redis!OneOwner, Owned, OpenedIsOwned
<1> QED
    BY <1>1, PoolsInvariant, PTL

\* Never more Redis connections than threads, although nothing counts them.
THEOREM ContextsNeverTooMany == Spec => []ContextsBounded
<1>1. PoolsInv => ContextsBounded
    BY DEF PoolsInv, RedisInv
<1> QED
    BY <1>1, PoolsInvariant, PTL
=============================================================================
