------------------------------- MODULE Stores -------------------------------
(***************************************************************************)
(* What Prepare.tla, Client.tla and Deployment.tla share: the two stores,  *)
(* which outlive the server's processes, and the failures.                 *)
(***************************************************************************)
EXTENDS Integers, FiniteSets

CONSTANTS
    Users,    \* the 400 user names of prepareForSeckill and of the test data
    Goods,    \* the 50 items
    Nil,      \* no such table, no such key
    Faults    \* the failures the environment may inject

(***************************************************************************)
(* mysql_error   a statement fails                                         *)
(* mysql_down    the client cannot connect to MySQL                        *)
(* commit_drop   the connection fails before a COMMIT is executed          *)
(* redis_drop    a command of prepareForSeckill fails, executed or not     *)
(* crash         the server process ends at any step                       *)
(* thread_error  the client cannot create a thread                         *)
(***************************************************************************)
FaultKinds ==
    {"mysql_error", "mysql_down", "commit_drop", "redis_drop", "crash", "thread_error"}

ASSUME StoresAssumption ==
    /\ Users \in Nat /\ Goods \in Nat /\ Nil \notin Int
    /\ \A S \in SUBSET (1..Users) : S # Nil
    /\ Faults \subseteq FaultKinds

VARIABLES
    \* MySQL
    g_totalcount,   \* stock of goods '10'; an empty table and a stock of 0 are one
    usr_info, order_info,
    \* Redis
    total_count, redis_usrs, redis_orders

mysqlVars == <<g_totalcount, usr_info, order_info>>
redisVars == <<total_count, redis_usrs, redis_orders>>

Names == 1..Users
=============================================================================
