----------------------------- MODULE Deployment -----------------------------
(***************************************************************************)
(* The whole system: server processes that prepare the sale (Prepare.tla)  *)
(* and then serve it, and the test client (Client.tla).  docker-compose    *)
(* restarts the server whenever it ends.                                   *)
(*                                                                         *)
(* The handler, which Seckill.tla models command by command, has four      *)
(* steps here: the checks, the reservation in Redis or the discovery that  *)
(* everything is sold, the return of what MySQL refused, and the order in  *)
(* MySQL.  Another handler or a crash may come between any two of them and *)
(* between the order and the answer.  Its COMMIT may be lost; its Redis    *)
(* commands do not fail here, which is Seckill.tla's subject.  The gate of *)
(* HandleRPCS (Server.tla) is left out: it only delays a call, for ever if *)
(* need be, and nothing here says that a call is answered.                 *)
(***************************************************************************)
EXTENDS Prepare, Client

VARIABLES
    failedCount,   \* in the memory of the server
    before,        \* history: the winners of processes that have ended
    lost           \* history: this process's winners whose COMMIT was lost

historyVars == <<before, lost>>
vars == <<processVars, mysqlVars, redisVars, failedCount, clientVars, historyVars>>

TypeOK ==
    /\ PrepareTypeOK /\ ClientTypeOK /\ failedCount \in Nat
    /\ before \subseteq Threads /\ lost \subseteq Threads

DeploymentInit ==
    /\ Init /\ ClientInit /\ failedCount = 0
    /\ before = {} /\ lost = {}

-----------------------------------------------------------------------------
(***************************************************************************)
(* Worker::Proceed for the request of thread t.                            *)
(***************************************************************************)
Answer(t, r) == reply' = [reply EXCEPT ![t] = r] /\ Move(t, "answered")

Serving(t, label) ==
    /\ pc = "Run" /\ cpc[t] = label
    /\ UNCHANGED <<starts, rows, local_count, usr_info, redis_usrs, name, success_count,
                   response_count, mtx, pool, isnormol, printed, running, before>>

\* checkUserInfo and checkUserHasGot: registered, and has not got one.
Valid(t) == name[t] \in redis_usrs \ redis_orders

Check(t) ==
    /\ Serving(t, "sent")
    /\ \/ Valid(t) /\ Move(t, "checked") /\ UNCHANGED reply
       \/ ~Valid(t) /\ Answer(t, "0")
    /\ UNCHANGED <<pc, failed, g_totalcount, order_info, total_count, redis_orders, failedCount, lost>>

\* (AnyCount and NotInserted are seeded bugs.)
AnyCount == total_count # Nil
OnSale == total_count \notin {Nil, 0}

\* WATCH, GET, MULTI and an EXEC that is not aborted, which is one with total_count
\* as it was at the GET.
Reserve(t) ==
    /\ Serving(t, "checked") /\ OnSale
    /\ total_count' = total_count - 1
    /\ redis_orders' = redis_orders \union {name[t]}
    /\ Move(t, "booking")
    /\ UNCHANGED <<pc, failed, g_totalcount, order_info, reply, failedCount, lost>>

\* RETRYCOUNT times another handler's EXEC or SET came between GET and EXEC.  (How
\* many others there are is not counted here.)
Surrender(t) ==
    /\ Serving(t, "checked") /\ total_count # Nil
    /\ Answer(t, "0")
    /\ UNCHANGED <<pc, failed, g_totalcount, order_info, total_count, redis_orders, failedCount, lost>>

\* GET answers 0; on to pthread_rwlock_wrlock.
SoldOut(t) ==
    /\ Serving(t, "checked") /\ total_count = 0
    /\ Move(t, "soldOut")
    /\ UNCHANGED <<pc, failed, g_totalcount, order_info, total_count, redis_orders, reply, failedCount, lost>>

\* What MySQL refused goes back on sale, over whatever total_count is by now.
\* (NotCleared is a seeded bug.)
NotCleared == UNCHANGED failedCount
Cleared == failedCount' = 0

Return(t) ==
    /\ Serving(t, "soldOut")
    /\ \/ failedCount > 0 /\ total_count' = failedCount /\ Cleared
       \/ failedCount = 0 /\ UNCHANGED <<total_count, failedCount>>
    /\ Answer(t, "0")
    /\ UNCHANGED <<pc, failed, g_totalcount, order_info, redis_orders, lost>>

\* usr_name is the primary key of order_info.  (AnyName is a seeded bug.)
AnyName(t) == order_info # Nil
Inserts(t) == IF order_info = Nil THEN FALSE ELSE name[t] \notin order_info
NotInserted(t) == order_info
Inserted(t) == order_info \union {name[t]}

\* No stock or none that can be read; the order, whose COMMIT may be lost without
\* anybody noticing; or an order that fails, is rolled back and recorded.
Book(t) ==
    /\ Serving(t, "booking")
    /\ \/ /\ g_totalcount \in {Nil, 0} \/ "mysql_error" \in Faults
          /\ Answer(t, "0")
          /\ UNCHANGED <<g_totalcount, order_info, failedCount, lost>>
       \/ /\ g_totalcount \notin {Nil, 0} /\ Inserts(t)
          /\ g_totalcount' = g_totalcount - 1
          /\ order_info' = Inserted(t)
          /\ Answer(t, "1")
          /\ UNCHANGED <<failedCount, lost>>
       \/ /\ g_totalcount \notin {Nil, 0} /\ Inserts(t) /\ "commit_drop" \in Faults
          /\ lost' = lost \union {t}
          /\ Answer(t, "1")
          /\ UNCHANGED <<g_totalcount, order_info, failedCount>>
       \/ /\ g_totalcount \notin {Nil, 0} /\ (~Inserts(t) \/ "mysql_error" \in Faults)
          /\ failedCount' = failedCount + 1
          /\ Answer(t, "0")
          /\ UNCHANGED <<g_totalcount, order_info, lost>>
    /\ UNCHANGED <<pc, failed, total_count, redis_orders>>

\* The answer arrives, or there is nobody to give it.  (A call fails at once
\* while no server listens.)
Receive(t) ==
    /\ running
    /\ \/ cpc[t] = "answered" /\ pc = "Run" /\ UNCHANGED reply
       \/ cpc[t] = "sent" /\ pc # "Run" /\ reply' = [reply EXCEPT ![t] = "RPC failed"]
    /\ Move(t, "lock")
    /\ UNCHANGED <<processVars, mysqlVars, redisVars, failedCount, name, success_count,
                   response_count, mtx, pool, isnormol, printed, running, historyVars>>

\* The process ends: every call that has no answer yet fails.
End ==
    /\ pc' = "down" /\ failedCount' = 0
    /\ cpc' = [t \in Threads |-> IF cpc[t] \in Calling THEN "lock" ELSE cpc[t]]
    /\ reply' = [t \in Threads |-> IF cpc[t] \in Calling THEN "RPC failed" ELSE reply[t]]
    /\ before' = {t \in Winners : cpc[t] \notin Calling} /\ lost' = {}
    /\ UNCHANGED <<starts, failed, rows, local_count, mysqlVars, redisVars, name, success_count,
                   response_count, mtx, pool, isnormol, printed, running>>

Crash == "crash" \in Faults /\ pc # "down" /\ End

\* GET answers nil if no preparation has come to SET: atoi of a null pointer.
NilCrash(t) == pc = "Run" /\ cpc[t] = "checked" /\ total_count = Nil /\ End

-----------------------------------------------------------------------------
Proceed(t) ==
    \/ Check(t) \/ Reserve(t) \/ Surrender(t) \/ SoldOut(t) \/ Return(t) \/ Book(t)
    \/ NilCrash(t) \/ Receive(t)

Server ==
    /\ prepareForSeckill \/ Restart
    /\ UNCHANGED <<failedCount, clientVars, historyVars>>

ClientStep(t) ==
    /\ onSeckill(t)
    /\ UNCHANGED <<processVars, mysqlVars, redisVars, failedCount, historyVars>>

\* The client has ended, one way or the other: the server need not go on.
ClientDone == ~running \/ \A t \in Threads : cpc[t] = "end"

Finished == ClientDone /\ UNCHANGED vars

Next ==
    \/ Server \/ Crash
    \/ \E t \in Threads : Proceed(t) \/ ClientStep(t)
    \/ Finished

Spec == DeploymentInit /\ [][Next]_vars

-----------------------------------------------------------------------------
Booking == {t \in Threads : cpc[t] = "booking"}

\* The cache never offers more than MySQL has, whichever calls of whichever start
\* failed and wherever a process ended: prepareForSeckill fills Redis with the
\* stock it reads back from MySQL, after it has set it.
CacheNeverAhead ==
    pc = "Run" /\ total_count # Nil =>
        /\ g_totalcount # Nil
        /\ total_count + failedCount + Cardinality(Booking) <= g_totalcount

\* A start none of whose calls failed repairs what earlier processes left of stock
\* and orders, wherever they ended: the server begins to serve with both stores in
\* the initial state of Seckill.tla.
StartRepairs ==
    [][pc # "Run" /\ pc' = "Run" /\ ~failed' =>
         /\ g_totalcount' = Goods /\ total_count' = Goods
         /\ order_info' = {} /\ redis_orders' = {}]_vars

\* The winners of the process that serves, and those whose COMMIT arrived.
Served == Winners \ before
Sold == Served \ lost

\* What checkSeckillInfo compares: a process tells nobody "1" twice or, unless the
\* COMMIT is lost, in vain.  Its successes have their orders, even if two requests of
\* a user have passed the duplicate check in Redis before either is booked; and no
\* other order exists, of an earlier process or of an answer that a crash kept back,
\* unless the preparation failed to drop the old ones.
SuccessesAreOrders ==
    LET got == {name[t] : t \in Sold} IN
    pc = "Run" =>
        /\ Cardinality(Sold) = Cardinality(got)
        /\ got # {} => got \subseteq order_info
        /\ ~failed => got = order_info

\* Each start of the server sells the stock once more (prepareForSeckill resets it
\* and forgets the orders), but never more than that, whatever failed in the
\* preparation, whatever the process before it left, and however many COMMITs are
\* lost: then only the count in Redis is in the way.
SoldPerStart == Cardinality(Served) <= Goods

\* While a process serves, with both stores as its preparation left them, every
\* step is one of the abstract sale: "1" comes with an item and an order of a
\* registered user who had none, and nothing else changes stock, orders or answers.
TheSale == INSTANCE Sale WITH
    Workers  <- Threads,
    Requests <- {[usrname |-> n, usrkey |-> Nil] : n \in TestNames},
    usr_info <- [n \in Names |-> Nil],
    LossyCommit <- "commit_drop" \in Faults,
    asked    <- [t \in Threads |-> [usrname |-> name[t], usrkey |-> Nil]],
    stock    <- IF g_totalcount = Nil THEN 0 ELSE g_totalcount,
    orders   <- IF order_info = Nil THEN {} ELSE order_info,
    answer   <- [t \in Threads |-> IF reply[t] = "RPC failed" THEN "0" ELSE reply[t]]

ServesTheSale ==
    [][pc = "Run" /\ pc' = "Run" => [TheSale!SaleNext]_(TheSale!saleVars)]_vars

\* seckill_client.cc:195 "注册用户名为1~400": a server that was prepared without a
\* failure knows the users 1 to 400.
UsersRegistered == pc = "Run" /\ ~failed => Names \subseteq redis_usrs
=============================================================================
