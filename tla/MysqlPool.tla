------------------------------ MODULE MysqlPool ------------------------------
(***************************************************************************)
(* MysqlPool (mysqlpool.cc): a FIFO of idle connections shared by the      *)
(* threads, and connect_count, the connections idle or handed out.         *)
(* poollock is held for the whole of getOneConnect (pings and connects     *)
(* included) and of close, so each is one step.                            *)
(***************************************************************************)
EXTENDS Integers, Sequences, FiniteSets

CONSTANTS
    Threads,      \* the borrowers
    Conns,        \* identities of MYSQL objects
    NULL,         \* no connection
    MAX_CONNECT

ASSUME PoolAssumption ==
    /\ IsFiniteSet(Threads) /\ IsFiniteSet(Conns) /\ NULL \notin Conns
    /\ MAX_CONNECT \in Nat
    \* one connection per thread at a time: main and 20 threads, MAX_CONNECT 30
    /\ Cardinality(Threads) <= MAX_CONNECT

VARIABLES
    mysqlpool,     \* the queue of idle connections
    connect_count,
    state,         \* of each MYSQL object: "none" until connected, "up", "down"
    held,          \* what getOneConnect returned to each thread
    reason         \* why it last returned NULL to the thread

mysqlVars == <<mysqlpool, connect_count, state, held, reason>>

MysqlTypeOK ==
    /\ mysqlpool \in Seq(Conns)
    /\ connect_count \in Int
    /\ state \in [Conns -> {"none", "up", "down"}]
    /\ held \in [Threads -> Conns \union {NULL}]
    /\ reason \in [Threads -> {"none", "unreachable", "tooMany"}]

\* setParameter
MysqlInit ==
    /\ mysqlpool = <<>>
    /\ connect_count = 0
    /\ state = [c \in Conns |-> "none"]
    /\ held = [t \in Threads |-> NULL]
    /\ reason = [t \in Threads |-> "none"]

-----------------------------------------------------------------------------
(***************************************************************************)
(* OnePing, CountKept, TooTight, PopsBack and Unchecked are seeded bugs,   *)
(* each of the shape of the definition that follows it; no action uses     *)
(* them.                                                                   *)
(***************************************************************************)
\* while (!isEmpty() && mysql_ping(poolFront())): k is the number of connections
\* at the front of the queue that do not answer.
OnePing(k) == k = IF mysqlpool # <<>> /\ state[mysqlpool[1]] = "down" THEN 1 ELSE 0
Pinged(k) ==
    /\ \A i \in 1..k : state[mysqlpool[i]] = "down"
    /\ k < Len(mysqlpool) => state[mysqlpool[k + 1]] = "up"

\* connect_count-- for every connection that is closed
CountKept(k) == connect_count
CountLess(k) == connect_count - k

\* connect_count < MAX_CONNECT
TooTight(k) == CountLess(k) + 1 < MAX_CONNECT
Room(k) == CountLess(k) < MAX_CONNECT

\* poolPop of the connections closed and of the one handed out
PopsBack(k) == SubSeq(mysqlpool, k + 1, Len(mysqlpool) - 1)
Rest(k) == SubSeq(mysqlpool, k + 2, Len(mysqlpool))

\* mysql_close of the first k
Closed(k) == [c \in Conns |-> IF \E i \in 1..k : mysqlpool[i] = c THEN "none" ELSE state[c]]

\* A connection from the queue.
Reuse(t, k) ==
    /\ k < Len(mysqlpool)
    /\ held' = [held EXCEPT ![t] = mysqlpool[k + 1]]
    /\ mysqlpool' = Rest(k)
    /\ connect_count' = CountLess(k)
    /\ state' = Closed(k)
    /\ UNCHANGED reason

\* createOneConnect, which counts a connection only when it has succeeded.
Create(t, k) ==
    /\ k = Len(mysqlpool)
    /\ mysqlpool' = <<>>
    /\ \/ /\ Room(k)
          /\ \E c \in {c \in Conns : Closed(k)[c] = "none"} :
                /\ held' = [held EXCEPT ![t] = c]
                /\ state' = [Closed(k) EXCEPT ![c] = "up"]
          /\ connect_count' = CountLess(k) + 1
          /\ UNCHANGED reason
       \/ /\ reason' = [reason EXCEPT ![t] = IF Room(k) THEN "unreachable" ELSE "tooMany"]
          /\ connect_count' = CountLess(k)
          /\ state' = Closed(k)
          /\ UNCHANGED held

getOneConnect(t) ==
    /\ held[t] = NULL
    /\ \E k \in 0..Len(mysqlpool) : Pinged(k) /\ (Reuse(t, k) \/ Create(t, k))

\* if (conn != NULL) the connection goes to the back of the queue, whatever its
\* state.
Unchecked(t) == Append(mysqlpool, held[t])
Returned(t) == IF held[t] = NULL THEN mysqlpool ELSE Append(mysqlpool, held[t])

close(t) ==
    /\ mysqlpool' = Returned(t)
    /\ held' = [held EXCEPT ![t] = NULL]
    /\ UNCHANGED <<connect_count, state, reason>>

\* MySQL restarts or times the connection out.
ConnectionDies(c) ==
    /\ state[c] = "up"
    /\ state' = [state EXCEPT ![c] = "down"]
    /\ UNCHANGED <<mysqlpool, connect_count, held, reason>>

-----------------------------------------------------------------------------
Borrowed == {t \in Threads : held[t] # NULL}

\* connect_count is the number of connections, idle and handed out: neither the
\* closing of dead ones nor a failed connect lets it drift.
CountIsExact == connect_count = Len(mysqlpool) + Cardinality(Borrowed)

\* A connection has one owner: it is not in the queue twice, not in the queue
\* while a thread uses it, and not used by two threads.
OneOwner ==
    /\ \A i, j \in DOMAIN mysqlpool : mysqlpool[i] = mysqlpool[j] => i = j
    /\ \A t \in Borrowed : \A i \in DOMAIN mysqlpool : mysqlpool[i] # held[t]
    /\ \A t, u \in Borrowed : held[t] = held[u] => t = u

\* A thread is never told "the number of mysql connections is too much!": with
\* a connection per thread at most, the limit cannot be met, however many
\* connections have died since the start.
NeverTooMany == \A t \in Threads : reason[t] # "tooMany"

\* Whatever getOneConnect hands out answered its ping (or is new), although dead
\* and live connections are mixed in the queue.
HandsOutLive ==
    [][\A t \in Threads : held[t] = NULL /\ held'[t] # NULL => state'[held'[t]] = "up"]_mysqlVars
=============================================================================
