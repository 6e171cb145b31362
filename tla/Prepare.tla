------------------------------- MODULE Prepare -------------------------------
(***************************************************************************)
(* main and prepareForSeckill (seckill_server.cc): how a server process    *)
(* fills the two stores before it serves.  The stores outlive the process, *)
(* which docker-compose starts again whenever it ends (restart: always).   *)
(***************************************************************************)
EXTENDS Stores

CONSTANTS
    NoComma,    \* the 300 after which the comma is left out
    MaxStarts   \* bound: server processes started

ASSUME PrepareAssumption == NoComma \in 1..Users /\ MaxStarts \in Nat \ {0}

VARIABLES
    pc,           \* the next call of the process, "Run" when it serves
    starts,       \* processes started so far
    failed,       \* history: a call of this process's preparation has failed
    rows,         \* rows of usr_info not yet copied to Redis
    local_count   \* the local total_count of prepareForSeckill

processVars == <<pc, starts, failed, rows, local_count>>

\* A new database, or the one the repository ships (components/mysql/data): the
\* users 1 to 300 that an earlier version registered, and an earlier sale.
Init ==
    /\ pc = "createGoods" /\ starts = 1 /\ failed = FALSE
    /\ rows = {} /\ local_count = 0
    /\ \/ g_totalcount = Nil /\ usr_info = Nil /\ order_info = Nil
       \/ /\ usr_info = 1..NoComma
          /\ order_info \in SUBSET usr_info
          /\ g_totalcount = Goods - Cardinality(order_info) /\ g_totalcount >= 0
    /\ total_count = Nil /\ redis_usrs = {} /\ redis_orders = {}

-----------------------------------------------------------------------------
Goto(label) == pc' = label

\* mysql_query or redisCommand returns an error.
QueryFails == "mysql_error" \in Faults /\ failed' = TRUE
CommandFails == "redis_drop" \in Faults /\ failed' = TRUE

\* CREATE TABLE IF NOT EXISTS goods_info; like all results below that are not
\* mentioned, its result is not looked at.
CreateGoods ==
    /\ pc = "createGoods" /\ Goto("resetStock")
    /\ \/ g_totalcount' = (IF g_totalcount = Nil THEN 0 ELSE g_totalcount) /\ UNCHANGED failed
       \/ QueryFails /\ UNCHANGED g_totalcount
    /\ UNCHANGED <<starts, rows, local_count, usr_info, order_info, redisVars>>

\* INSERT ... ON DUPLICATE KEY UPDATE g_totalcount = 50.  (AddsStock is a seeded
\* bug.)
AddsStock == g_totalcount + Goods
NewStock == Goods

ResetStock ==
    /\ pc = "resetStock" /\ Goto("dropOrders")
    /\ \/ g_totalcount # Nil /\ g_totalcount' = NewStock /\ UNCHANGED failed
       \/ g_totalcount = Nil /\ UNCHANGED <<g_totalcount, failed>>
       \/ QueryFails /\ UNCHANGED g_totalcount
    /\ UNCHANGED <<starts, rows, local_count, usr_info, order_info, redisVars>>

\* DROP TABLE IF EXISTS order_info.  (NotDropped and SetsFifty are seeded
\* bugs.)
NotDropped == order_info
Dropped == Nil

DropOrders ==
    /\ pc = "dropOrders" /\ Goto("findUsers")
    /\ \/ order_info' = Dropped /\ UNCHANGED failed
       \/ QueryFails /\ UNCHANGED order_info
    /\ UNCHANGED <<starts, rows, local_count, g_totalcount, usr_info, redisVars>>

\* Is there a table usr_info?  exit(1) if that cannot be told.
FindUsers ==
    /\ pc = "findUsers"
    /\ \/ Goto(IF usr_info = Nil THEN "createUsers" ELSE "selectUsers") /\ UNCHANGED failed
       \/ QueryFails /\ Goto("down")
    /\ UNCHANGED <<starts, rows, local_count, mysqlVars, redisVars>>

CreateUsers ==
    /\ pc = "createUsers" /\ Goto("insertUsers")
    /\ \/ usr_info' = {} /\ UNCHANGED failed
       \/ QueryFails /\ UNCHANGED usr_info
    /\ UNCHANGED <<starts, rows, local_count, g_totalcount, order_info, redisVars>>

\* The VALUES list parses if a comma follows every row but the last; the code
\* leaves it out after row NoComma.
Comma(i) == i # NoComma
WellFormed == \A i \in Names : Comma(i) <=> i < Users

InsertUsers ==
    /\ pc = "insertUsers" /\ Goto("selectUsers")
    /\ \/ usr_info' = (IF WellFormed /\ usr_info # Nil THEN Names ELSE usr_info) /\ UNCHANGED failed
       \/ QueryFails /\ UNCHANGED usr_info
    /\ UNCHANGED <<starts, rows, local_count, g_totalcount, order_info, redisVars>>

\* SELECT * FROM usr_info, and exit(1) if it fails.
SelectUsers ==
    /\ pc = "selectUsers"
    /\ \/ usr_info # Nil /\ rows' = usr_info /\ Goto("HMSET") /\ UNCHANGED failed
       \/ usr_info = Nil /\ Goto("down") /\ UNCHANGED <<rows, failed>>
       \/ QueryFails /\ Goto("down") /\ UNCHANGED rows
    /\ UNCHANGED <<starts, local_count, mysqlVars, redisVars>>

\* HMSET usr_info for one row.  A failure ends the preparation, and the server
\* starts all the same.
LoadUser ==
    /\ pc = "HMSET" /\ rows # {}
    /\ LET u == CHOOSE u \in rows : \A v \in rows : u <= v IN
         \/ /\ redis_usrs' = redis_usrs \union {u} /\ rows' = rows \ {u}
            /\ Goto("HMSET") /\ UNCHANGED failed
         \/ /\ CommandFails /\ Goto("Run")
            /\ redis_usrs' \in {redis_usrs, redis_usrs \union {u}} /\ rows' = {}
    /\ UNCHANGED <<starts, local_count, mysqlVars, total_count, redis_orders>>

\* SELECT * FROM goods_info, and exit(1) if it fails.
SelectStock ==
    /\ pc = "HMSET" /\ rows = {}
    /\ \/ /\ g_totalcount # Nil /\ local_count' = g_totalcount
          /\ Goto("createOrders") /\ UNCHANGED failed
       \/ g_totalcount = Nil /\ Goto("down") /\ UNCHANGED <<local_count, failed>>
       \/ QueryFails /\ Goto("down") /\ UNCHANGED local_count
    /\ UNCHANGED <<starts, rows, mysqlVars, redisVars>>

CreateOrders ==
    /\ pc = "createOrders" /\ Goto("SET")
    /\ \/ order_info' = (IF order_info = Nil THEN {} ELSE order_info) /\ UNCHANGED failed
       \/ QueryFails /\ UNCHANGED order_info
    /\ UNCHANGED <<starts, rows, local_count, g_totalcount, usr_info, redisVars>>

\* SET total_count to the stock that was read; a failure ends the preparation.
SetsFifty == Goods
NewTotal == local_count

SetTotal ==
    /\ pc = "SET"
    /\ local_count' = 0
    /\ \/ total_count' = NewTotal /\ Goto("DEL") /\ UNCHANGED failed
       \/ CommandFails /\ total_count' \in {total_count, NewTotal} /\ Goto("Run")
    /\ UNCHANGED <<starts, rows, mysqlVars, redis_usrs, redis_orders>>

DelOrders ==
    /\ pc = "DEL" /\ Goto("Run")
    /\ \/ redis_orders' = {} /\ UNCHANGED failed
       \/ CommandFails /\ redis_orders' \in {redis_orders, {}}
    /\ UNCHANGED <<starts, rows, local_count, mysqlVars, total_count, redis_usrs>>

prepareForSeckill ==
    \/ CreateGoods \/ ResetStock \/ DropOrders \/ FindUsers \/ CreateUsers \/ InsertUsers
    \/ SelectUsers \/ LoadUser \/ SelectStock \/ CreateOrders \/ SetTotal \/ DelOrders

\* A new process; what the last one kept in memory is gone.
Restart ==
    /\ pc = "down" /\ starts < MaxStarts
    /\ starts' = starts + 1
    /\ Goto("createGoods") /\ failed' = FALSE /\ rows' = {} /\ local_count' = 0
    /\ UNCHANGED <<mysqlVars, redisVars>>

-----------------------------------------------------------------------------
PrepareTypeOK ==
    /\ pc \in {"createGoods", "resetStock", "dropOrders", "findUsers", "createUsers", "insertUsers",
               "selectUsers", "HMSET", "createOrders", "SET", "DEL", "Run", "down"}
    /\ starts \in 1..MaxStarts /\ failed \in BOOLEAN
    /\ rows \subseteq Names /\ local_count \in 0..Goods
    /\ g_totalcount \in (0..Goods) \union {Nil}
    /\ usr_info \in (SUBSET Names) \union {Nil} /\ order_info \in (SUBSET Names) \union {Nil}
    /\ total_count \in (0..Goods) \union {Nil}
    /\ redis_usrs \subseteq Names /\ redis_orders \subseteq Names
=============================================================================
