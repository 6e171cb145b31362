-------------------------------- MODULE Pools --------------------------------
(***************************************************************************)
(* The threads of the server on the two pools: HandleRPCS and the FINISH   *)
(* branch borrow a redisContext and give it back; the PROCESS branch       *)
(* borrows a redisContext, then a MYSQL connection, and gives them back in *)
(* the same order (Worker.cc, seckill_server.cc).  Before them main        *)
(* borrows one of each for prepareForSeckill.                              *)
(***************************************************************************)
EXTENDS MysqlPool

CONSTANTS
    main,                \* the thread that starts the others
    Contexts,            \* identities of redisContext objects
    REDIS_MAX_CONNECTCOUNT

ASSUME RedisAssumption ==
    main \in Threads /\ IsFiniteSet(Contexts) /\ NULL \notin Contexts /\ REDIS_MAX_CONNECTCOUNT \in Nat \ {0}

VARIABLES
    redispool, redis_count, opened, redis_held,
    alive,   \* FALSE after a command on a NULL context
    pc       \* what each thread has borrowed

Redis == INSTANCE RedisPool WITH MAX_CONNECT <- REDIS_MAX_CONNECTCOUNT,
                                 connect_count <- redis_count, held <- redis_held

redisVars == <<redispool, redis_count, opened, redis_held>>
vars == <<mysqlVars, redisVars, alive, pc>>

Labels == {"prepare", "prepareRedis", "prepared", "join", "loop", "redis", "both", "mysql"}

TypeOK ==
    /\ MysqlTypeOK
    /\ Redis!TypeOK
    /\ alive \in BOOLEAN
    /\ pc \in [Threads -> Labels]

\* main, after the two setParameter
Init ==
    /\ MysqlInit
    /\ Redis!Init
    /\ alive = TRUE
    /\ pc = [t \in Threads |-> IF t = main THEN "prepare" ELSE "loop"]

-----------------------------------------------------------------------------
(***************************************************************************)
(* prepareForSeckill                                                       *)
(***************************************************************************)
PrepareMysql ==
    /\ alive /\ pc[main] = "prepare"
    /\ getOneConnect(main)
    /\ pc' = [pc EXCEPT ![main] = "prepareRedis"]
    /\ UNCHANGED <<redisVars, alive>>

PrepareRedis ==
    /\ alive /\ pc[main] = "prepareRedis"
    /\ Redis!getOneConnect(main)
    /\ pc' = [pc EXCEPT ![main] = "prepared"]
    /\ UNCHANGED <<mysqlVars, alive>>

\* exit(1) after a query, or a query or command on NULL.
PrepareEnds ==
    /\ alive /\ pc[main] = "prepared"
    /\ alive' = FALSE
    /\ UNCHANGED <<mysqlVars, redisVars, pc>>

HasBoth == held[main] # NULL /\ redis_held[main] # NULL

\* Its end, and the one after a failed SET, give both back.
PrepareReturns ==
    /\ alive /\ pc[main] = "prepared" /\ HasBoth
    /\ close(main) /\ Redis!close(main)
    /\ pc' = [pc EXCEPT ![main] = "join"]
    /\ UNCHANGED alive

\* After a failed HMSET the context is freed, and the MySQL connection is main's
\* for ever.
PrepareLeaks ==
    /\ alive /\ pc[main] = "prepared" /\ HasBoth
    /\ Redis!redisFree(main)
    /\ pc' = [pc EXCEPT ![main] = "join"]
    /\ UNCHANGED <<mysqlVars, alive>>

-----------------------------------------------------------------------------
(***************************************************************************)
(* The threads, from when main waits in pthread_join.                      *)
(***************************************************************************)
\* getOneConnect at the gate, in PROCESS and in FINISH
BorrowRedis(t) ==
    /\ alive /\ pc[t] = "loop" /\ pc[main] = "join"
    /\ Redis!getOneConnect(t)
    /\ pc' = [pc EXCEPT ![t] = "redis"]
    /\ UNCHANGED <<mysqlVars, alive>>

\* LLEN, LPUSH or LPOP: redisCommand ends the process if the context is NULL.
NullCommand(t) ==
    /\ alive /\ pc[t] \in {"redis", "both"}
    /\ redis_held[t] = NULL
    /\ alive' = FALSE
    /\ UNCHANGED <<mysqlVars, redisVars, pc>>

\* The gate and FINISH are done with their one command.
ReturnAtOnce(t) ==
    /\ alive /\ pc[t] = "redis" /\ redis_held[t] # NULL
    /\ Redis!close(t)
    /\ pc' = [pc EXCEPT ![t] = "loop"]
    /\ UNCHANGED <<mysqlVars, alive>>

\* PROCESS: mysql_->getOneConnect() comes before the LPUSH.
BorrowMysql(t) ==
    /\ alive /\ pc[t] = "redis"
    /\ getOneConnect(t)
    /\ pc' = [pc EXCEPT ![t] = "both"]
    /\ UNCHANGED <<redisVars, alive>>

\* redis_->close(redisconn); mysql_->close(mysqlconnection);
ReturnRedis(t) ==
    /\ alive /\ pc[t] = "both" /\ redis_held[t] # NULL
    /\ Redis!close(t)
    /\ pc' = [pc EXCEPT ![t] = "mysql"]
    /\ UNCHANGED <<mysqlVars, alive>>

ReturnMysql(t) ==
    /\ alive /\ pc[t] = "mysql"
    /\ close(t)
    /\ pc' = [pc EXCEPT ![t] = "loop"]
    /\ UNCHANGED <<redisVars, alive>>

Dies(c) == alive /\ ConnectionDies(c) /\ UNCHANGED <<redisVars, alive, pc>>

Next ==
    \/ PrepareMysql \/ PrepareRedis \/ PrepareEnds \/ PrepareReturns \/ PrepareLeaks
    \/ \E t \in Threads :
        \/ BorrowRedis(t) \/ NullCommand(t) \/ ReturnAtOnce(t)
        \/ BorrowMysql(t) \/ ReturnRedis(t) \/ ReturnMysql(t)
    \/ \E c \in Conns : Dies(c)
    \/ ~alive /\ UNCHANGED vars

Spec == Init /\ [][Next]_vars

-----------------------------------------------------------------------------
\* A redisContext has one owner and none is lost (RedisPool).
ContextOneOwner == Redis!OneOwner

\* At most one Redis connection per thread is ever opened (RedisPool).
ContextsBounded == Redis!ConnectionsBounded
=============================================================================
