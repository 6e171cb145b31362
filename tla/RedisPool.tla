------------------------------ MODULE RedisPool ------------------------------
(***************************************************************************)
(* RedisPool (redispool.cc): the queue of idle redisContexts.  It differs  *)
(* from MysqlPool in two ways: a context is handed out without a ping, and *)
(* createOneConnect does not count what it creates, so that connect_count  *)
(* keeps the 0 of setParameter.  Pools.tla composes the two.               *)
(***************************************************************************)
EXTENDS Integers, Sequences, FiniteSets

CONSTANTS
    Threads,      \* the borrowers
    Contexts,     \* identities of redisContext objects
    NULL,         \* no context
    MAX_CONNECT

VARIABLES
    redispool,     \* the queue of idle contexts
    connect_count,
    opened,        \* the contexts that are connected
    held           \* what getOneConnect returned to each thread

TypeOK ==
    /\ redispool \in Seq(Contexts)
    /\ connect_count \in Nat
    /\ opened \subseteq Contexts
    /\ held \in [Threads -> Contexts \union {NULL}]

\* setParameter
Init ==
    /\ redispool = <<>>
    /\ connect_count = 0
    /\ opened = {}
    /\ held = [t \in Threads |-> NULL]

-----------------------------------------------------------------------------
\* NoTest and NoPop are seeded bugs, each of the shape of the definition that
\* follows it; no action uses them.
NoTest == TRUE
isEmpty == redispool = <<>>

NoPop == redispool
poolPop == Tail(redispool)

\* conn = poolFront(); poolPop();
Reuse(t) ==
    /\ ~isEmpty
    /\ held' = [held EXCEPT ![t] = Head(redispool)]
    /\ redispool' = poolPop
    /\ UNCHANGED <<connect_count, opened>>

\* createOneConnect.  NULL is returned when Redis cannot be reached, and when
\* connect_count has come to MAX_CONNECT.
Create(t) ==
    /\ isEmpty
    /\ \/ connect_count < MAX_CONNECT /\ \E c \in Contexts \ opened :
            /\ held' = [held EXCEPT ![t] = c]
            /\ opened' = opened \union {c}
       \/ UNCHANGED <<held, opened>>
    /\ UNCHANGED <<redispool, connect_count>>

getOneConnect(t) == held[t] = NULL /\ (Reuse(t) \/ Create(t))

\* if (conn != NULL) the context goes to the back of the queue.
close(t) ==
    /\ redispool' = IF held[t] = NULL THEN redispool ELSE Append(redispool, held[t])
    /\ held' = [held EXCEPT ![t] = NULL]
    /\ UNCHANGED <<connect_count, opened>>

\* A borrower disconnects its context instead.
redisFree(t) ==
    /\ held' = [held EXCEPT ![t] = NULL]
    /\ opened' = opened \ {held[t]}
    /\ UNCHANGED <<redispool, connect_count>>

-----------------------------------------------------------------------------
Borrowed == {t \in Threads : held[t] # NULL}
Pooled == {redispool[i] : i \in DOMAIN redispool}

\* A context has one owner, and none is lost: every connected one is in the
\* queue exactly once or with exactly one thread.
OneOwner ==
    /\ Cardinality(Pooled) = Len(redispool)
    /\ \A t, u \in Borrowed : held[t] = held[u] => t = u
    /\ Pooled \intersect {held[t] : t \in Borrowed} = {}
    /\ opened = Pooled \union {held[t] : t \in Borrowed}

\* What bounds the pool although connect_count does not: a connection is only
\* opened when the queue is empty, so there are never more than threads.
ConnectionsBounded == Cardinality(opened) <= Cardinality(Threads)
=============================================================================
