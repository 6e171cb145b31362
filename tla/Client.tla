------------------------------- MODULE Client -------------------------------
(***************************************************************************)
(* The test client (seckill_client.cc): NUM_THREADS threads send one       *)
(* request each, count the answers under a mutex and, outside of it, see   *)
(* whether theirs was the last one; who thinks so compares the count with  *)
(* MySQL.  Deployment.tla provides the server.                             *)
(*                                                                         *)
(* The stores to success_count and response_count are taken to become      *)
(* visible in program order, as on x86-64.                                 *)
(***************************************************************************)
EXTENDS Stores

CONSTANTS
    Threads,   \* the NUM_THREADS threads
    Few,       \* the 5 of prepareTestData
    testType   \* the last command line argument as an integer, 0 without one

ASSUME ClientAssumption == IsFiniteSet(Threads) /\ Threads # {} /\ Few \in Nat

VARIABLES
    name,                            \* *args of each thread
    cpc,                             \* what each thread does next
    reply,                           \* what SeckillClient::seckill returned
    success_count, response_count, mtx,
    pool,                            \* the MysqlPool singleton
    isnormol,                        \* local isnormol of checkSeckillInfo
    printed,                         \* the verdict each thread has printed
    running                          \* the client process has not crashed

clientVars == <<name, cpc, reply, success_count, response_count, mtx, pool,
                isnormol, printed, running>>

\* The names prepareTestData may give to a thread, rand() % n being any of 0..n-1.
TestNames ==
    CASE testType = 1 -> 0..(Users - 1)
      [] testType = 2 -> Users..(2 * Users - 1)
      [] testType = 3 -> 0..(Few - 1)
      [] testType = 4 -> Users..(Users + Few - 1)
      [] testType = 5 -> 0..((3 * Users) \div 2 - 1)
      [] OTHER -> {0}

Calling == {"sent", "checked", "soldOut", "booking", "answered"}   \* moved on by the server

Checking == {"open", "stock", "orders", "delete"}

ClientTypeOK ==
    /\ name \in [Threads -> TestNames]
    /\ cpc \in [Threads -> Calling \union Checking
                            \union {"create", "lock", "unlock", "test", "end"}]
    /\ reply \in [Threads -> {"none", "0", "1", "RPC failed"}]
    /\ success_count \in Nat /\ response_count \in Nat
    /\ mtx \in BOOLEAN
    /\ pool \in {"none", "live", "deleted"}
    /\ isnormol \in [Threads -> BOOLEAN]
    /\ printed \in [Threads -> {"none", "normal", "error"}]
    /\ running \in BOOLEAN

ClientInit ==
    /\ name \in [Threads -> TestNames]
    /\ cpc = [t \in Threads |-> "create"]
    /\ reply = [t \in Threads |-> "none"]
    /\ success_count = 0 /\ response_count = 0 /\ mtx = FALSE
    /\ pool = "none"
    /\ isnormol = [t \in Threads |-> TRUE]
    /\ printed = [t \in Threads |-> "none"]
    /\ running = TRUE

-----------------------------------------------------------------------------
At(t, label) == running /\ cpc[t] = label
Move(t, label) == cpc' = [cpc EXCEPT ![t] = label]

\* pthread_create and the thread up to StartCall; an error is only printed.
Create(t) ==
    /\ At(t, "create")
    /\ Move(t, "sent") \/ ("thread_error" \in Faults /\ Move(t, "end"))
    /\ UNCHANGED <<name, reply, success_count, response_count, mtx, pool, isnormol, printed, running>>

Success(t) == IF reply[t] = "1" THEN 1 ELSE 0   \* atoi("RPC failed") is 0

\* The two increments, to label "unlock" and from it.  (ResponseFirst and
\* OnlyAnswers are seeded bugs.)
ResponseFirst(t) ==
    \/ cpc[t] = "lock" /\ response_count' = response_count + 1 /\ UNCHANGED success_count
    \/ cpc[t] = "unlock" /\ success_count' = success_count + Success(t) /\ UNCHANGED response_count
OnlyAnswers(t) ==
    \/ cpc[t] = "lock" /\ success_count' = success_count + Success(t) /\ UNCHANGED response_count
    \/ /\ cpc[t] = "unlock" /\ UNCHANGED success_count
       /\ response_count' = response_count + (IF reply[t] = "RPC failed" THEN 0 ELSE 1)
Increment(t) ==
    \/ cpc[t] = "lock" /\ success_count' = success_count + Success(t) /\ UNCHANGED response_count
    \/ cpc[t] = "unlock" /\ response_count' = response_count + 1 /\ UNCHANGED success_count

\* mtx.lock() and ++success_count, then ++response_count and mtx.unlock().
Count(t) ==
    /\ \/ At(t, "lock") /\ ~mtx /\ mtx' = TRUE /\ Move(t, "unlock")
       \/ At(t, "unlock") /\ mtx' = FALSE /\ Move(t, "test")
    /\ Increment(t)
    /\ UNCHANGED <<name, reply, pool, isnormol, printed, running>>

\* if (response_count == 500), without the mutex
Test(t) ==
    /\ At(t, "test")
    /\ Move(t, IF response_count = Cardinality(Threads) THEN "open" ELSE "end")
    /\ UNCHANGED <<name, reply, success_count, response_count, mtx, pool, isnormol, printed, running>>

-----------------------------------------------------------------------------
(***************************************************************************)
(* checkSeckillInfo.  Using the pool after another thread has deleted it   *)
(* is undefined: the process may crash, or go on as if nothing had         *)
(* happened.                                                               *)
(***************************************************************************)
UseAfterDelete(t) ==
    /\ running /\ cpc[t] \in {"open", "orders", "delete"} /\ pool = "deleted"
    /\ running' = FALSE
    /\ UNCHANGED <<name, cpc, reply, success_count, response_count, mtx, pool, isnormol, printed>>

\* mysql_query on the NULL that getOneConnect returns when it cannot connect.
NullCrash(t) ==
    /\ At(t, "open") /\ "mysql_down" \in Faults
    /\ running' = FALSE
    /\ pool' = IF pool = "none" THEN "live" ELSE pool
    /\ UNCHANGED <<name, cpc, reply, success_count, response_count, mtx, isnormol, printed>>

\* getMysqlPoolObject, setParameter, getOneConnect; too many successes?
Open(t) ==
    /\ At(t, "open") /\ Move(t, "stock")
    /\ pool' = IF pool = "none" THEN "live" ELSE pool
    /\ isnormol' = [isnormol EXCEPT ![t] = success_count <= Goods]
    /\ UNCHANGED <<name, reply, success_count, response_count, mtx, printed, running>>

\* isnormol = false, never back to true.
StillNormal(t, ok) == isnormol[t] /\ ok

\* 50 - total_count against success_count; total_count is 0 if the SELECT fails.
CheckStock(t) ==
    /\ At(t, "stock") /\ Move(t, "orders")
    /\ \E stock \in {IF g_totalcount = Nil THEN 0 ELSE g_totalcount}
                        \union (IF "mysql_error" \in Faults THEN {0} ELSE {}) :
         isnormol' = [isnormol EXCEPT ![t] = StillNormal(t, Goods - stock = success_count)]
    /\ UNCHANGED <<name, reply, success_count, response_count, mtx, pool, printed, running>>

\* executeSql("SELECT usr_name ..."): nothing is checked if it fails or finds no
\* row.  The strings it returns are those of a result that has been freed, so
\* containsDuplicate may say anything of two rows or more.
CheckOrders(t) ==
    /\ At(t, "orders") /\ Move(t, "delete")
    /\ \/ /\ order_info \in {Nil, {}} \/ "mysql_error" \in Faults
          /\ UNCHANGED isnormol
       \/ /\ order_info \notin {Nil, {}}
          /\ \E duplicate \in {FALSE, Cardinality(order_info) > 1} :
                isnormol' = [isnormol EXCEPT ![t] =
                    StillNormal(t, Cardinality(order_info) = success_count /\ ~duplicate)]
    /\ UNCHANGED <<name, reply, success_count, response_count, mtx, pool, printed, running>>

\* delete mysql, and the verdict
PrintVerdict(t) ==
    /\ At(t, "delete") /\ Move(t, "end")
    /\ pool' = "deleted"
    /\ printed' = [printed EXCEPT ![t] = IF isnormol[t] THEN "normal" ELSE "error"]
    /\ isnormol' = [isnormol EXCEPT ![t] = TRUE]
    /\ UNCHANGED <<name, reply, success_count, response_count, mtx, running>>

onSeckill(t) ==
    \/ Create(t) \/ Count(t) \/ Test(t) \/ UseAfterDelete(t) \/ NullCrash(t) \/ Open(t)
    \/ CheckStock(t) \/ CheckOrders(t) \/ PrintVerdict(t)

-----------------------------------------------------------------------------
Checkers == {t \in Threads : cpc[t] \in Checking \/ printed[t] # "none"}

Winners == {t \in Threads : reply[t] = "1"}

\* Whoever compares success_count with MySQL has the final number: the test of
\* response_count is outside the mutex, but it can only see the last value when
\* every success has been counted.
ChecksSeeFinalCount == Checkers # {} => success_count = Cardinality(Winners)

\* The verdict "normal" is never given to a sale that handed out more items than
\* there are, as two processes can between them (each sells a full stock), even
\* if the two queries of checkSeckillInfo fail or a restart comes between them.
OversellIsReported ==
    (\E t \in Threads : printed[t] = "normal") => Cardinality(Winners) <= Goods

\* The last answer is noticed: the client never ends, with a reply to each of its
\* calls, without a verdict.  The increments are under the mutex and the test is
\* not, so each thread may read response_count when others have passed it, but
\* not all of them too early.  (That the calls end at all the server does not
\* promise: see RequestsAreAnswered of Server.tla.)
SomebodyChecks ==
    (\A t \in Threads : cpc[t] = "end" /\ reply[t] # "none")
        => \E t \in Threads : printed[t] # "none"
=============================================================================
