-------------------------- MODULE DeploymentProofs --------------------------
(***************************************************************************)
(* Proofs about Deployment, for every number of client threads, users,     *)
(* items and server processes, every test type and every combination of    *)
(* failures.                                                               *)
(***************************************************************************)
EXTENDS Deployment, FiniteSetTheorems, WellFoundedInduction, TLAPS

-----------------------------------------------------------------------------
(***************************************************************************)
(* The parts of the invariant.                                             *)
(***************************************************************************)
\* Labels of a client thread before its answer, and from the answer on.
Unanswered == {"create", "sent", "checked", "soldOut", "booking"}
Replied == {"answered", "lock", "unlock", "test"} \union Checking

\* Only a process that serves has requests and reservations in its memory.
Held == {"checked", "soldOut", "booking", "answered"}

MemoryInv == pc # "Run" => failedCount = 0 /\ \A t \in Threads : cpc[t] \notin Held

\* A thread has its reply exactly from the answer on.  (A thread that could not
\* be created ends without one.)
ReplyInv ==
    \A t \in Threads : /\ cpc[t] \in Unanswered => reply[t] = "none"
                       /\ cpc[t] \in Replied => reply[t] # "none"

\* Only registered users reserve.
NamesInv == \A t \in Threads : cpc[t] \in {"checked", "booking"} => name[t] \in Names

\* CacheNeverAhead, at any time; nothing is reserved or returned without a
\* total_count; the local total_count that SET stores is the stock of MySQL.
CacheInv ==
    /\ total_count # Nil =>
          /\ g_totalcount # Nil
          /\ total_count + failedCount + Cardinality(Booking) <= g_totalcount
    /\ total_count = Nil => failedCount = 0 /\ Booking = {}

LocalInv == pc \in {"createOrders", "SET"} => local_count = g_totalcount

BaseInv == TypeOK /\ MemoryInv /\ NamesInv /\ CacheInv /\ LocalInv

\* What a preparation none of whose calls has failed has achieved at each of its
\* calls.
AfterReset == {"dropOrders", "findUsers", "createUsers", "insertUsers", "selectUsers",
               "HMSET", "createOrders", "SET", "DEL"}
AfterDrop == {"findUsers", "createUsers", "insertUsers", "selectUsers", "HMSET", "createOrders"}

ProgressInv ==
    ~failed =>
        /\ pc = "resetStock" => g_totalcount # Nil
        /\ pc \in AfterReset => g_totalcount = Goods
        /\ pc \in AfterDrop => order_info = Nil
        /\ pc \in {"SET", "DEL"} => order_info = {}
        /\ pc = "DEL" => total_count = Goods

\* The winners of a process that has ended are in before.  Those of the one that
\* serves have different names, all of them in order_info, which has no others if
\* the preparation worked.
ProcessSale ==
    /\ before \subseteq Winners /\ lost \subseteq Winners
    /\ pc # "Run" => Winners \subseteq before
    /\ pc = "Run" =>
          /\ \A t, u \in Sold : name[t] = name[u] => t = u
          /\ \A t \in Sold : name[t] \in order_info
          /\ ~failed => \A n \in order_info : \E t \in Sold : name[t] = n

\* An item of this process is on sale, reserved, to be returned or sold.
BudgetInv ==
    pc = "Run" =>
        /\ total_count = Nil => Served = {}
        /\ total_count # Nil =>
              Cardinality(Served) + total_count + failedCount + Cardinality(Booking) <= Goods

\* The threads that have counted their success, and their response.
Counted == {t \in Threads : cpc[t] \in {"unlock", "test", "end"} \union Checking
                            /\ reply[t] # "none"}
Responded == {t \in Counted : cpc[t] # "unlock"}

CountInv ==
    /\ success_count = Cardinality(Winners \intersect Counted)
    /\ response_count = Cardinality(Responded)
    /\ Checkers # {} => Responded = Threads

\* When everybody has responded somebody is about to find out, or has.
CheckInv ==
    Responded = Threads => \E t \in Threads : cpc[t] = "test" \/ t \in Checkers

\* What a thread that runs the check has established.
NotOversold == success_count <= Goods

VerdictInv ==
    \A t \in Threads :
        /\ cpc[t] \in {"stock", "orders", "delete"} /\ isnormol[t] => NotOversold
        /\ printed[t] = "normal" => NotOversold

-----------------------------------------------------------------------------
(***************************************************************************)
(* Types and the cache.                                                    *)
(***************************************************************************)
\* prepareForSeckill walks through the rows in their order: there is a first one.
LEMMA FirstRow ==
    ASSUME NEW S, S \subseteq Names, S # {}
    PROVE  (CHOOSE u \in S : \A v \in S : u <= v) \in S
<1>1. Names \subseteq Nat /\ S \subseteq Nat
    BY StoresAssumption DEF Names
<1>2. PICK x \in S : \A y \in S : ~(<<y, x>> \in OpToRel(<, Nat))
    BY <1>1, NatLessThanWellFounded, WFMin
<1>3. \A y \in S : ~(y < x)
    BY <1>1, <1>2 DEF OpToRel
<1>4. \A y \in S : x <= y
    BY <1>1, <1>3
<1> QED
    BY <1>4

\* The cache before any request is served.
CacheLow == total_count # Nil => g_totalcount # Nil /\ total_count <= g_totalcount

\* A call of the preparation keeps the types, and never stores more in Redis than
\* there is in MySQL.
LEMMA PrepareStep ==
    ASSUME PrepareTypeOK, CacheLow, LocalInv, prepareForSeckill \/ Restart
    PROVE  PrepareTypeOK' /\ CacheLow' /\ LocalInv' /\ pc # "Run"
<1> USE DEF Goto, QueryFails, CommandFails, mysqlVars, redisVars
<1>1. Users \in Nat /\ Goods \in Nat /\ Nil \notin Int /\ MaxStarts \in Nat \ {0}
    BY StoresAssumption, PrepareAssumption
<1>2. CASE CreateGoods
    <2>1. /\ pc = "createGoods" /\ pc' = "resetStock" /\ failed' \in {failed, TRUE}
          /\ g_totalcount' = g_totalcount \/ (g_totalcount = Nil /\ g_totalcount' = 0)
          /\ UNCHANGED <<starts, rows, local_count, usr_info, order_info, redisVars>>
        BY <1>2 DEF CreateGoods
    <2>2. g_totalcount' \in (0..Goods) \union {Nil} /\ CacheLow'
        BY <1>1, <2>1 DEF PrepareTypeOK, CacheLow
    <2> QED
        BY <2>1, <2>2 DEF PrepareTypeOK, LocalInv
<1>3. CASE ResetStock
    <2>1. /\ pc = "resetStock" /\ pc' = "dropOrders" /\ failed' \in {failed, TRUE}
          /\ g_totalcount' = g_totalcount \/ (g_totalcount # Nil /\ g_totalcount' = Goods)
          /\ UNCHANGED <<starts, rows, local_count, usr_info, order_info, redisVars>>
        BY <1>3 DEF ResetStock, NewStock
    <2>2. g_totalcount' \in (0..Goods) \union {Nil} /\ CacheLow'
        BY <1>1, <2>1 DEF PrepareTypeOK, CacheLow
    <2> QED
        BY <2>1, <2>2 DEF PrepareTypeOK, LocalInv
<1>4. CASE DropOrders
    BY <1>1, <1>4 DEF PrepareTypeOK, CacheLow, LocalInv, DropOrders, Dropped
<1>5. CASE FindUsers
    BY <1>1, <1>5 DEF PrepareTypeOK, CacheLow, LocalInv, FindUsers
<1>6. CASE CreateUsers
    BY <1>1, <1>6 DEF PrepareTypeOK, CacheLow, LocalInv, CreateUsers
<1>7. CASE InsertUsers
    BY <1>1, <1>7 DEF PrepareTypeOK, CacheLow, LocalInv, InsertUsers
<1>8. CASE SelectUsers
    BY <1>1, <1>8 DEF PrepareTypeOK, CacheLow, LocalInv, SelectUsers
<1>9. CASE LoadUser
    <2> DEFINE u == CHOOSE u \in rows : \A v \in rows : u <= v
    <2>1. u \in rows /\ u \in Names
        BY <1>9, FirstRow DEF LoadUser, PrepareTypeOK
    <2>2. /\ redis_usrs' \subseteq redis_usrs \union {u} /\ rows' \subseteq rows
          /\ pc' \in {"HMSET", "Run"} /\ pc = "HMSET" /\ failed' \in {failed, TRUE}
          /\ UNCHANGED <<starts, local_count, mysqlVars, total_count, redis_orders>>
        BY <1>9 DEF LoadUser
    <2> HIDE DEF u
    <2> QED
        BY <1>1, <2>1, <2>2 DEF PrepareTypeOK, CacheLow, LocalInv
<1>10. CASE SelectStock
    BY <1>1, <1>10 DEF PrepareTypeOK, CacheLow, LocalInv, SelectStock
<1>11. CASE CreateOrders
    BY <1>1, <1>11 DEF PrepareTypeOK, CacheLow, LocalInv, CreateOrders
<1>12. CASE SetTotal
    <2>1. /\ pc = "SET" /\ pc' \in {"DEL", "Run"} /\ failed' \in {failed, TRUE}
          /\ local_count' = 0 /\ total_count' \in {total_count, local_count}
          /\ UNCHANGED <<starts, rows, mysqlVars, redis_usrs, redis_orders>>
        BY <1>12 DEF SetTotal, NewTotal
    <2>2. /\ total_count' \in (0..Goods) \union {Nil} /\ local_count' \in 0..Goods
          /\ CacheLow'
        BY <1>1, <2>1 DEF PrepareTypeOK, CacheLow, LocalInv
    <2> QED
        BY <2>1, <2>2 DEF PrepareTypeOK, LocalInv
<1>13. CASE DelOrders
    BY <1>1, <1>13 DEF PrepareTypeOK, CacheLow, LocalInv, DelOrders
<1>14. CASE Restart
    <2>1. /\ pc = "down" /\ pc' = "createGoods" /\ failed' = FALSE /\ rows' = {}
          /\ local_count' = 0 /\ starts < MaxStarts /\ starts' = starts + 1
          /\ UNCHANGED <<mysqlVars, redisVars>>
        BY <1>14 DEF Restart
    <2>2. starts' \in 1..MaxStarts /\ local_count' \in 0..Goods
        BY <1>1, <2>1 DEF PrepareTypeOK
    <2> QED
        BY <2>1, <2>2 DEF PrepareTypeOK, CacheLow, LocalInv
<1> QED
    BY <1>2, <1>3, <1>4, <1>5, <1>6, <1>7, <1>8, <1>9, <1>10, <1>11, <1>12, <1>13, <1>14
    DEF prepareForSeckill

\* The number of reservations that are being booked.
LEMMA BookingIsNat ==
    /\ IsFiniteSet(Threads) /\ Booking \subseteq Threads /\ IsFiniteSet(Booking)
    /\ Cardinality(Booking) \in Nat
<1>1. IsFiniteSet(Threads) /\ Booking \subseteq Threads
    BY ClientAssumption DEF Booking
<1> QED
    BY <1>1, FS_Subset, FS_CardinalityType

\* While the process does not serve, the two forms of the cache's bound agree.
LEMMA CacheAtRest ==
    ASSUME TypeOK, MemoryInv, pc # "Run"
    PROVE  CacheInv <=> CacheLow
<1>1. Booking = {} /\ failedCount = 0
    BY DEF MemoryInv, Booking, Held
<1>2. Cardinality(Booking) = 0
    BY <1>1, FS_EmptySet
<1>3. total_count \in Int \union {Nil} /\ Nil \notin Int
    BY StoresAssumption DEF TypeOK, PrepareTypeOK
<1> QED
    BY <1>1, <1>2, <1>3 DEF CacheInv, CacheLow

\* The stores, new or shipped with an earlier sale, and the idle client satisfy BaseInv.
LEMMA BaseInitial == DeploymentInit => BaseInv
<1> SUFFICES ASSUME DeploymentInit PROVE BaseInv
    OBVIOUS
<1>1. Init /\ ClientInit /\ failedCount = 0 /\ before = {} /\ lost = {}
    BY DEF DeploymentInit
<1>2. /\ Users \in Nat /\ Goods \in Nat /\ Nil \notin Int /\ MaxStarts \in Nat \ {0}
      /\ NoComma \in 1..Users
    BY StoresAssumption, PrepareAssumption
<1>3. usr_info \in (SUBSET Names) \union {Nil} /\ order_info \in (SUBSET Names) \union {Nil}
    BY <1>1, <1>2 DEF Init, Names
<1>4. g_totalcount \in (0..Goods) \union {Nil}
    <2>1. ASSUME NEW S, S \subseteq 1..NoComma PROVE Cardinality(S) \in Nat
        <3>1. IsFiniteSet(1..NoComma)
            BY <1>2, FS_Interval
        <3> QED
            BY <2>1, <3>1, FS_Subset, FS_CardinalityType
    <2> QED
        BY <1>1, <1>2, <2>1 DEF Init
<1>5. PrepareTypeOK
    <2>1. starts \in 1..MaxStarts /\ local_count \in 0..Goods
        BY <1>1, <1>2 DEF Init
    <2> QED
        BY <1>1, <1>3, <1>4, <2>1 DEF Init, PrepareTypeOK
<1>6. ClientTypeOK
    BY <1>1 DEF ClientInit, ClientTypeOK, Calling, Checking
<1>7. MemoryInv /\ NamesInv /\ Booking = {}
    BY <1>1 DEF ClientInit, MemoryInv, NamesInv, Booking, Held
<1> QED
    BY <1>1, <1>2, <1>5, <1>6, <1>7 DEF Init, BaseInv, TypeOK, CacheInv, LocalInv

\* A step of the server's process.
LEMMA ServerBase ==
    ASSUME BaseInv, Server
    PROVE  BaseInv'
<1>1. TypeOK /\ MemoryInv /\ NamesInv /\ CacheInv /\ LocalInv
    BY DEF BaseInv
<1>2. (prepareForSeckill \/ Restart) /\ UNCHANGED <<failedCount, clientVars, historyVars>>
    BY DEF Server
<1>3. pc # "Run"
    BY <1>2 DEF prepareForSeckill, Restart, CreateGoods, ResetStock, DropOrders, FindUsers,
                CreateUsers, InsertUsers, SelectUsers, LoadUser, SelectStock, CreateOrders,
                SetTotal, DelOrders
<1>4. CacheLow
    BY <1>1, <1>3, CacheAtRest
<1>5. PrepareTypeOK' /\ CacheLow' /\ LocalInv'
    BY <1>1, <1>2, <1>4, PrepareStep DEF TypeOK
<1>6. TypeOK'
    BY <1>1, <1>2, <1>5 DEF TypeOK, ClientTypeOK, clientVars, historyVars
<1>7. MemoryInv' /\ NamesInv'
    BY <1>1, <1>2, <1>3 DEF MemoryInv, NamesInv, clientVars
<1>8. CacheInv'
    <2>1. Booking' = {} /\ failedCount' = 0
        BY <1>1, <1>2, <1>3 DEF MemoryInv, Booking, Held, clientVars
    <2>2. Cardinality(Booking') = 0
        BY <2>1, FS_EmptySet
    <2>3. total_count' \in Int \union {Nil} /\ Nil \notin Int
        BY <1>5, StoresAssumption DEF PrepareTypeOK
    <2> QED
        BY <1>5, <2>1, <2>2, <2>3 DEF CacheInv, CacheLow
<1> QED
    BY <1>5, <1>6, <1>7, <1>8 DEF BaseInv

\* A thread that takes up or gives up its reservation.
LEMMA BookingMoves ==
    ASSUME ClientTypeOK, NEW t \in Threads, NEW label, Move(t, label)
    PROVE  /\ (cpc[t] = "booking" <=> label = "booking") => Booking' = Booking
           /\ cpc[t] # "booking" /\ label = "booking" =>
                 Cardinality(Booking') = Cardinality(Booking) + 1
           /\ cpc[t] = "booking" /\ label # "booking" =>
                 Cardinality(Booking') = Cardinality(Booking) - 1
<1>1. /\ DOMAIN cpc = Threads /\ cpc' = [cpc EXCEPT ![t] = label]
      /\ IsFiniteSet(Booking) /\ Cardinality(Booking) \in Nat
    BY BookingIsNat DEF ClientTypeOK, Move
<1>2. (cpc[t] = "booking" <=> label = "booking") => Booking' = Booking
    BY <1>1 DEF Booking
<1>3. cpc[t] # "booking" /\ label = "booking" => Booking' = Booking \union {t} /\ t \notin Booking
    BY <1>1 DEF Booking
<1>4. cpc[t] = "booking" /\ label # "booking" => Booking' = Booking \ {t} /\ t \in Booking
    BY <1>1 DEF Booking
<1> QED
    BY <1>1, <1>2, <1>3, <1>4, FS_AddElement, FS_RemoveElement

\* The types of what a handler leaves to its client.
LEMMA AnswerType ==
    ASSUME ClientTypeOK, NEW t \in Threads,
           UNCHANGED <<name, success_count, response_count, mtx, pool, isnormol, printed, running>>,
           \/ Answer(t, "0") \/ Answer(t, "1")
           \/ UNCHANGED reply /\ \E label \in Calling : Move(t, label)
    PROVE  ClientTypeOK'
    BY DEF ClientTypeOK, Answer, Move, Calling

\* The steps of a handler up to its answer.
Handle(t) == Check(t) \/ Reserve(t) \/ Surrender(t) \/ SoldOut(t) \/ Return(t) \/ Book(t)

\* What all of them have in common.
LEMMA HandleFrame ==
    ASSUME NEW t \in Threads, Handle(t)
    PROVE  /\ pc = "Run" /\ pc' = "Run" /\ failed' = failed /\ before' = before
           /\ UNCHANGED <<starts, rows, local_count, usr_info, redis_usrs>>
           /\ UNCHANGED <<name, success_count, response_count, mtx, pool, isnormol, printed, running>>
           /\ cpc[t] \in {"sent", "checked", "soldOut", "booking"}
           /\ \/ Answer(t, "0") \/ Answer(t, "1")
              \/ UNCHANGED reply /\ \E label \in Calling : Move(t, label)
    BY DEF Handle, Check, Reserve, Surrender, SoldOut, Return, Book, Serving, Calling

\* The steps that take no reservation and settle none do not touch the stores,
\* but for the return.
LEMMA HandleQuiet ==
    ASSUME NEW t \in Threads, Handle(t), ~Reserve(t), ~Book(t)
    PROVE  /\ cpc[t] # "booking"
           /\ \E label \in Calling : label # "booking" /\ Move(t, label)
           /\ UNCHANGED reply \/ reply' = [reply EXCEPT ![t] = "0"]
           /\ UNCHANGED <<g_totalcount, order_info, redis_orders, lost>>
           /\ \/ UNCHANGED <<total_count, failedCount>>
              \/ failedCount > 0 /\ total_count' = failedCount /\ failedCount' = 0
<1>1. CASE Return(t)
    BY <1>1 DEF Return, Cleared, Serving, Answer, Calling
<1>2. CASE Check(t) \/ Surrender(t) \/ SoldOut(t)
    BY <1>2 DEF Check, Surrender, SoldOut, Serving, Answer, Calling
<1> QED
    BY <1>1, <1>2 DEF Handle

\* The four outcomes of Book.
LEMMA BookOutcomes ==
    ASSUME NEW t \in Threads, Book(t)
    PROVE  /\ cpc[t] = "booking" /\ Move(t, "answered")
           /\ UNCHANGED <<total_count, redis_orders>>
           /\ \/ /\ reply' = [reply EXCEPT ![t] = "0"]
                 /\ failedCount' \in {failedCount, failedCount + 1}
                 /\ UNCHANGED <<g_totalcount, order_info, lost>>
              \/ /\ reply' = [reply EXCEPT ![t] = "1"] /\ UNCHANGED failedCount
                 /\ g_totalcount \notin {Nil, 0} /\ order_info # Nil /\ name[t] \notin order_info
                 /\ \/ /\ g_totalcount' = g_totalcount - 1
                       /\ order_info' = order_info \union {name[t]} /\ UNCHANGED lost
                    \/ /\ "commit_drop" \in Faults /\ lost' = lost \union {t}
                       /\ UNCHANGED <<g_totalcount, order_info>>
    BY DEF Book, Serving, Answer, Inserts, Inserted

\* The steps of a handler keep BaseInv.
LEMMA HandlerBase ==
    ASSUME BaseInv, NEW t \in Threads, Handle(t)
    PROVE  BaseInv'
<1>1. /\ PrepareTypeOK /\ ClientTypeOK /\ failedCount \in Nat
      /\ before \subseteq Threads /\ lost \subseteq Threads
      /\ NamesInv /\ CacheInv
    BY DEF BaseInv, TypeOK
<1>2. /\ pc = "Run" /\ pc' = "Run" /\ failed' = failed /\ before' = before
      /\ UNCHANGED <<starts, rows, local_count, usr_info, redis_usrs>>
      /\ UNCHANGED <<name, success_count, response_count, mtx, pool, isnormol, printed, running>>
    BY HandleFrame
<1>3. /\ Goods \in Nat /\ Nil \notin Int
      /\ g_totalcount \in (0..Goods) \union {Nil} /\ total_count \in (0..Goods) \union {Nil}
    BY <1>1, StoresAssumption DEF PrepareTypeOK
<1>4. Cardinality(Booking) \in Nat
    BY BookingIsNat
<1>5. ClientTypeOK'
    BY <1>1, HandleFrame, AnswerType
<1>6. ASSUME failedCount' \in Nat, NamesInv', CacheInv', lost' \subseteq Threads,
             g_totalcount' \in (0..Goods) \union {Nil}, total_count' \in (0..Goods) \union {Nil},
             order_info' \in (SUBSET Names) \union {Nil}, redis_orders' \subseteq Names
      PROVE  BaseInv'
    <2>1. PrepareTypeOK'
        BY <1>1, <1>2, <1>6 DEF PrepareTypeOK
    <2> QED
        BY <1>1, <1>2, <1>5, <1>6, <2>1 DEF BaseInv, TypeOK, MemoryInv, LocalInv
<1>7. CASE ~Reserve(t) /\ ~Book(t)
    <2>1. /\ cpc[t] # "booking"
          /\ UNCHANGED <<g_totalcount, order_info, redis_orders, lost>>
          /\ \/ UNCHANGED <<total_count, failedCount>>
             \/ failedCount > 0 /\ total_count' = failedCount /\ failedCount' = 0
        BY <1>7, HandleQuiet
    <2>2. PICK label \in Calling : label # "booking" /\ Move(t, label)
        BY <1>7, HandleQuiet
    <2>3. Booking' = Booking
        BY <1>1, <2>1, <2>2, BookingMoves
    <2>4. NamesInv'
        <3>1. cpc'[t] = "checked" => name[t] \in redis_usrs
            BY <1>1, <1>7 DEF Handle, Check, Valid, Surrender, SoldOut, Return, Answer, Move,
                              ClientTypeOK
        <3> QED
            BY <1>1, <1>2, <2>2, <3>1 DEF NamesInv, Move, ClientTypeOK, PrepareTypeOK
    <2>5. CacheInv' /\ total_count' \in (0..Goods) \union {Nil} /\ failedCount' \in Nat
        BY <1>1, <1>3, <1>4, <2>1, <2>3 DEF CacheInv
    <2> QED
        BY <1>1, <1>6, <2>1, <2>4, <2>5 DEF PrepareTypeOK
<1>8. CASE Reserve(t)
    <2>1. /\ Move(t, "booking") /\ cpc[t] = "checked"
          /\ total_count \notin {Nil, 0} /\ total_count' = total_count - 1
          /\ redis_orders' = redis_orders \union {name[t]}
          /\ UNCHANGED <<g_totalcount, order_info, failedCount, lost>>
        BY <1>8 DEF Reserve, Serving, OnSale
    <2>2. Cardinality(Booking') = Cardinality(Booking) + 1
        BY <1>1, <2>1, BookingMoves
    <2>3. name[t] \in Names /\ NamesInv'
        BY <1>1, <1>2, <2>1 DEF NamesInv, Move, ClientTypeOK
    <2>4. CacheInv' /\ total_count' \in (0..Goods) \union {Nil}
        BY <1>1, <1>3, <1>4, <2>1, <2>2 DEF CacheInv
    <2>5. redis_orders' \subseteq Names
        BY <1>1, <2>1, <2>3 DEF PrepareTypeOK
    <2> QED
        BY <1>1, <1>6, <2>1, <2>3, <2>4, <2>5 DEF PrepareTypeOK
<1>9. CASE Book(t)
    <2>1. /\ Move(t, "answered") /\ cpc[t] = "booking"
          /\ UNCHANGED <<total_count, redis_orders>>
          /\ \/ UNCHANGED <<g_totalcount, order_info, failedCount>>
             \/ failedCount' = failedCount + 1 /\ UNCHANGED <<g_totalcount, order_info>>
             \/ /\ g_totalcount \notin {Nil, 0} /\ g_totalcount' = g_totalcount - 1
                /\ order_info # Nil /\ order_info' = order_info \union {name[t]}
                /\ UNCHANGED failedCount
          /\ lost' \subseteq lost \union {t}
        BY <1>9, BookOutcomes
    <2>2. Cardinality(Booking') = Cardinality(Booking) - 1 /\ Booking # {}
        BY <1>1, <2>1, BookingMoves DEF Booking
    <2>3. NamesInv'
        BY <1>1, <1>2, <2>1 DEF NamesInv, Move, ClientTypeOK
    <2>4. order_info' \in (SUBSET Names) \union {Nil}
        BY <1>1, <2>1 DEF PrepareTypeOK, NamesInv
    <2>5. /\ CacheInv' /\ failedCount' \in Nat
          /\ g_totalcount' \in (0..Goods) \union {Nil}
        BY <1>1, <1>3, <1>4, <2>1, <2>2 DEF CacheInv
    <2> QED
        BY <1>1, <1>6, <2>1, <2>3, <2>4, <2>5 DEF PrepareTypeOK
<1> QED
    BY <1>7, <1>8, <1>9

\* The process ends, and with it its reservations and its failedCount.
LEMMA EndBase ==
    ASSUME BaseInv, End
    PROVE  BaseInv'
<1>1. /\ PrepareTypeOK /\ ClientTypeOK /\ failedCount \in Nat /\ NamesInv /\ CacheInv
      /\ before' \subseteq Threads /\ lost' \subseteq Threads
    BY DEF BaseInv, TypeOK, End, Winners
<1>2. /\ pc' = "down" /\ failedCount' = 0
      /\ cpc' = [t \in Threads |-> IF cpc[t] \in Calling THEN "lock" ELSE cpc[t]]
      /\ reply' = [t \in Threads |-> IF cpc[t] \in Calling THEN "RPC failed" ELSE reply[t]]
      /\ UNCHANGED <<starts, failed, rows, local_count, mysqlVars, redisVars>>
      /\ UNCHANGED <<name, success_count, response_count, mtx, pool, isnormol, printed, running>>
    BY DEF End
<1>3. PrepareTypeOK'
    BY <1>1, <1>2 DEF PrepareTypeOK, mysqlVars, redisVars
<1>4. ClientTypeOK'
    BY <1>1, <1>2 DEF ClientTypeOK
<1>5. \A t \in Threads : cpc'[t] \notin Held
    BY <1>1, <1>2 DEF ClientTypeOK, Calling, Checking, Held
<1>6. Booking' = {} /\ NamesInv' /\ MemoryInv'
    BY <1>2, <1>5 DEF Booking, NamesInv, MemoryInv, Held
<1>7. CacheInv'
    <2>1. Cardinality(Booking') = 0 /\ Cardinality(Booking) \in Nat
        BY <1>6, FS_EmptySet, BookingIsNat
    <2>2. UNCHANGED <<g_totalcount, total_count>>
        BY <1>2 DEF mysqlVars, redisVars
    <2>3. /\ g_totalcount \in Int \union {Nil} /\ total_count \in Int \union {Nil}
          /\ Nil \notin Int
        BY <1>1, StoresAssumption DEF PrepareTypeOK
    <2>4. CacheInv /\ failedCount \in Nat /\ failedCount' = 0
        BY <1>1, <1>2
    <2> QED
        BY <1>6, <2>1, <2>2, <2>3, <2>4 DEF CacheInv
<1> QED
    BY <1>1, <1>2, <1>3, <1>4, <1>6, <1>7 DEF BaseInv, TypeOK, LocalInv

\* The client receives its answer, or an error.
LEMMA ReceiveBase ==
    ASSUME BaseInv, NEW t \in Threads, Receive(t)
    PROVE  BaseInv'
<1>1. /\ PrepareTypeOK /\ ClientTypeOK /\ failedCount \in Nat
      /\ before \subseteq Threads /\ lost \subseteq Threads
      /\ MemoryInv /\ NamesInv /\ CacheInv /\ LocalInv
    BY DEF BaseInv, TypeOK
<1>2. /\ Move(t, "lock") /\ cpc[t] \in {"sent", "answered"}
      /\ reply' = reply \/ reply' = [reply EXCEPT ![t] = "RPC failed"]
      /\ UNCHANGED <<processVars, mysqlVars, redisVars, failedCount, before, lost>>
      /\ UNCHANGED <<name, success_count, response_count, mtx, pool, isnormol, printed, running>>
    BY DEF Receive, historyVars
<1>3. PrepareTypeOK' /\ LocalInv'
    BY <1>1, <1>2 DEF PrepareTypeOK, LocalInv, processVars, mysqlVars, redisVars
<1>4. ClientTypeOK'
    BY <1>1, <1>2 DEF ClientTypeOK, Move
<1>5. Booking' = Booking
    <2>1. ClientTypeOK /\ Move(t, "lock") /\ ~(cpc[t] = "booking")
        BY <1>1, <1>2
    <2>2. (cpc[t] = "booking" <=> "lock" = "booking") => Booking' = Booking
        BY <2>1, BookingMoves
    <2> QED
        BY <2>1, <2>2
<1>6. MemoryInv' /\ NamesInv'
    BY <1>1, <1>2 DEF MemoryInv, NamesInv, ClientTypeOK, Move, processVars, Held
<1>7. CacheInv'
    BY <1>1, <1>2, <1>5 DEF CacheInv, mysqlVars, redisVars
<1> QED
    BY <1>1, <1>2, <1>3, <1>4, <1>6, <1>7 DEF BaseInv, TypeOK

\* What a step of a client thread leaves alone: the replies, the names and the
\* threads whose request the server has.
LEMMA ClientFrame ==
    ASSUME ClientTypeOK, NEW t \in Threads, onSeckill(t)
    PROVE  /\ ClientTypeOK' /\ UNCHANGED <<name, reply>>
           /\ \A u \in Threads : cpc'[u] = cpc[u] \/
                 (u = t /\ cpc[u] \notin Calling /\ cpc'[u] \notin {"create"} \union Held)
<1> USE DEF Held
<1>1. CASE Create(t)
    BY <1>1 DEF Create, At, Move, ClientTypeOK, Calling
<1>2. CASE Count(t)
    <2>1. /\ cpc[t] \in {"lock", "unlock"} /\ mtx' \in BOOLEAN
          /\ cpc' = [cpc EXCEPT ![t] = "unlock"] \/ cpc' = [cpc EXCEPT ![t] = "test"]
          /\ UNCHANGED <<name, reply, pool, isnormol, printed, running>>
        BY <1>2 DEF Count, At, Move
    <2>2. success_count' \in Nat /\ response_count' \in Nat
        <3>1. success_count' \in {success_count, success_count + Success(t)}
            BY <1>2 DEF Count, Increment
        <3>2. response_count' \in {response_count, response_count + 1}
            BY <1>2 DEF Count, Increment
        <3>3. Success(t) \in Nat
            BY DEF Success
        <3> QED
            <4>1. success_count \in Nat /\ response_count \in Nat
                BY DEF ClientTypeOK
            <4> QED
                BY <3>1, <3>2, <3>3, <4>1
    <2> QED
        BY <2>1, <2>2 DEF ClientTypeOK, Calling
<1>3. CASE Test(t)
    BY <1>3 DEF Test, At, Move, ClientTypeOK, Calling, Checking
<1>4. CASE UseAfterDelete(t) \/ NullCrash(t)
    BY <1>4 DEF UseAfterDelete, NullCrash, ClientTypeOK
<1>5. CASE Open(t)
    <2>1. /\ cpc[t] = "open" /\ cpc' = [cpc EXCEPT ![t] = "stock"] /\ pool' \in {"live", pool}
          /\ UNCHANGED <<name, reply, success_count, response_count, mtx, printed, running>>
        BY <1>5 DEF Open, At, Move
    <2>2. isnormol' \in [Threads -> BOOLEAN]
        <3> DEFINE ok == success_count <= Goods
        <3>1. ok \in BOOLEAN
            OBVIOUS
        <3>2. isnormol' = [isnormol EXCEPT ![t] = ok] /\ isnormol \in [Threads -> BOOLEAN]
            BY <1>5 DEF Open, ClientTypeOK
        <3> HIDE DEF ok
        <3> QED
            BY <3>1, <3>2
    <2> QED
        BY <2>1, <2>2 DEF ClientTypeOK, Calling, Checking
<1>6. CASE CheckStock(t)
    <2>1. /\ cpc[t] = "stock" /\ cpc' = [cpc EXCEPT ![t] = "orders"]
          /\ UNCHANGED <<name, reply, success_count, response_count, mtx, pool, printed, running>>
        BY <1>6 DEF CheckStock, At, Move
    <2>2. isnormol' \in [Threads -> BOOLEAN]
        BY <1>6 DEF CheckStock, StillNormal, ClientTypeOK
    <2> QED
        BY <2>1, <2>2 DEF ClientTypeOK, Calling, Checking
<1>7. CASE CheckOrders(t)
    <2>1. /\ cpc[t] = "orders" /\ cpc' = [cpc EXCEPT ![t] = "delete"]
          /\ UNCHANGED <<name, reply, success_count, response_count, mtx, pool, printed, running>>
        BY <1>7 DEF CheckOrders, At, Move
    <2>2. isnormol' \in [Threads -> BOOLEAN]
        BY <1>7 DEF CheckOrders, StillNormal, ClientTypeOK
    <2> QED
        BY <2>1, <2>2 DEF ClientTypeOK, Calling, Checking
<1>8. CASE PrintVerdict(t)
    <2>1. /\ cpc[t] = "delete" /\ cpc' = [cpc EXCEPT ![t] = "end"] /\ pool' = "deleted"
          /\ UNCHANGED <<name, reply, success_count, response_count, mtx, running>>
        BY <1>8 DEF PrintVerdict, At, Move
    <2>2. /\ isnormol' \in [Threads -> BOOLEAN]
          /\ printed' \in [Threads -> {"none", "normal", "error"}]
        BY <1>8 DEF PrintVerdict, ClientTypeOK
    <2> QED
        BY <2>1, <2>2 DEF ClientTypeOK, Calling, Checking
<1> QED
    BY <1>1, <1>2, <1>3, <1>4, <1>5, <1>6, <1>7, <1>8 DEF onSeckill

\* A client thread cannot disturb the stores, nor the requests the server has.
LEMMA ClientBase ==
    ASSUME BaseInv, NEW t \in Threads, ClientStep(t)
    PROVE  BaseInv'
<1>1. /\ PrepareTypeOK /\ ClientTypeOK /\ failedCount \in Nat
      /\ before \subseteq Threads /\ lost \subseteq Threads
      /\ MemoryInv /\ NamesInv /\ CacheInv /\ LocalInv
    BY DEF BaseInv, TypeOK
<1>2. onSeckill(t) /\ UNCHANGED <<processVars, mysqlVars, redisVars, failedCount, before, lost>>
    BY DEF ClientStep, historyVars
<1>3. /\ ClientTypeOK' /\ UNCHANGED <<name, reply>>
      /\ \A u \in Threads : cpc'[u] = cpc[u] \/
            (u = t /\ cpc[u] \notin Calling /\ cpc'[u] \notin {"create"} \union Held)
    BY <1>1, <1>2, ClientFrame
<1>4. PrepareTypeOK' /\ LocalInv'
    BY <1>1, <1>2 DEF PrepareTypeOK, LocalInv, processVars, mysqlVars, redisVars
<1>5. Booking' = Booking
    BY <1>3 DEF Booking, Calling, Held
<1>6. MemoryInv' /\ NamesInv'
    BY <1>1, <1>2, <1>3 DEF MemoryInv, NamesInv, processVars, Held
<1>7. CacheInv'
    BY <1>1, <1>2, <1>5 DEF CacheInv, mysqlVars, redisVars
<1> QED
    BY <1>1, <1>2, <1>3, <1>4, <1>6, <1>7 DEF BaseInv, TypeOK

\* Every step of the system, a crash at any place included, keeps BaseInv.
LEMMA BaseStep == BaseInv /\ [Next]_vars => BaseInv'
<1> SUFFICES ASSUME BaseInv, [Next]_vars PROVE BaseInv'
    OBVIOUS
<1>1. CASE Server
    BY <1>1, ServerBase
<1>2. CASE Crash
    BY <1>2, EndBase DEF Crash
<1>3. ASSUME NEW t \in Threads, Proceed(t)
      PROVE  BaseInv'
    BY <1>3, HandlerBase, ReceiveBase, EndBase DEF Proceed, Handle, NilCrash
<1>4. ASSUME NEW t \in Threads, ClientStep(t)
      PROVE  BaseInv'
    BY <1>4, ClientBase
<1>5. CASE UNCHANGED vars
    <2> USE <1>5 DEF vars, processVars, mysqlVars, redisVars, clientVars, historyVars
    <2>1. TypeOK'
        <3>1. PrepareTypeOK'
            BY DEF BaseInv, TypeOK, PrepareTypeOK
        <3>2. ClientTypeOK'
            BY DEF BaseInv, TypeOK, ClientTypeOK
        <3> QED
            BY <3>1, <3>2 DEF BaseInv, TypeOK
    <2>2. MemoryInv' /\ NamesInv' /\ LocalInv' /\ Booking' = Booking
        BY DEF BaseInv, MemoryInv, NamesInv, LocalInv, Booking
    <2> QED
        <3>1. CacheInv /\ UNCHANGED <<total_count, g_totalcount, failedCount>>
            BY DEF BaseInv
        <3>2. CacheInv'
            BY <2>2, <3>1 DEF CacheInv
        <3> QED
            BY <2>1, <2>2, <3>2 DEF BaseInv
<1> QED
    BY <1>1, <1>2, <1>3, <1>4, <1>5 DEF Next, Finished

\* The types and the bound of the cache hold in every state, also while a start
\* is under way or no process runs.
THEOREM BaseInvariant == Spec => []BaseInv
<1> QED
    BY BaseInitial, BaseStep, PTL DEF Spec

\* Every variable keeps its type: among others, the stock of neither store is ever
\* negative or more than Goods, and the preparation never reads a row of a table
\* that does not exist.
THEOREM TypeCorrect == Spec => []TypeOK
<1>1. BaseInv => TypeOK
    BY DEF BaseInv
<1> QED
    BY <1>1, BaseInvariant, PTL

\* The cache never offers more than MySQL has, whichever calls of prepareForSeckill
\* failed and wherever a process ended.
THEOREM CacheSafe == Spec => []CacheNeverAhead
<1>1. BaseInv => CacheNeverAhead
    BY DEF BaseInv, CacheInv, CacheNeverAhead
<1> QED
    BY <1>1, BaseInvariant, PTL

-----------------------------------------------------------------------------
(***************************************************************************)
(* A preparation none of whose calls fails repairs the stores.             *)
(***************************************************************************)
\* Only the preparation is concerned.
LEMMA ProgressElsewhere ==
    ASSUME [Next]_vars, ~Server
    PROVE  \/ pc' \in {"Run", "down"}
           \/ UNCHANGED <<pc, failed, g_totalcount, order_info, total_count>>
<1>1. CASE Crash
    BY <1>1 DEF Crash, End
<1>2. ASSUME NEW t \in Threads, Proceed(t)
      PROVE  \/ pc' \in {"Run", "down"}
             \/ UNCHANGED <<pc, failed, g_totalcount, order_info, total_count>>
    <2>1. CASE Receive(t)
        BY <2>1 DEF Receive, processVars, mysqlVars, redisVars
    <2>2. CASE NilCrash(t)
        BY <2>2 DEF NilCrash, End
    <2>3. CASE Handle(t)
        BY <2>3, HandleFrame
    <2> QED
        BY <1>2, <2>1, <2>2, <2>3 DEF Proceed, Handle
<1>3. ASSUME NEW t \in Threads, ClientStep(t)
      PROVE  UNCHANGED <<pc, failed, g_totalcount, order_info, total_count>>
    BY <1>3 DEF ClientStep, processVars, mysqlVars, redisVars
<1>4. CASE UNCHANGED vars
    BY <1>4 DEF vars, processVars, mysqlVars, redisVars
<1> QED
    BY <1>1, <1>2, <1>3, <1>4 DEF Next, Finished

\* Each call of prepareForSeckill that works does its part; one that fails is noted
\* in failed.
LEMMA ProgressServer ==
    ASSUME ProgressInv, LocalInv, Server
    PROVE  ProgressInv'
<1> USE DEF Goto, QueryFails, CommandFails, mysqlVars, redisVars, ProgressInv, AfterReset, AfterDrop
<1>1. Goods \in Nat /\ Nil \notin Int
    BY StoresAssumption
<1>2. SUFFICES ASSUME ~failed' PROVE ProgressInv'
    OBVIOUS
<1>3. CASE CreateGoods
    BY <1>1, <1>2, <1>3 DEF CreateGoods
<1>4. CASE ResetStock
    BY <1>1, <1>2, <1>4 DEF ResetStock, NewStock
<1>5. CASE DropOrders
    BY <1>2, <1>5 DEF DropOrders, Dropped
<1>6. CASE FindUsers
    BY <1>2, <1>6 DEF FindUsers
<1>7. CASE CreateUsers
    BY <1>2, <1>7 DEF CreateUsers
<1>8. CASE InsertUsers
    BY <1>2, <1>8 DEF InsertUsers
<1>9. CASE SelectUsers
    BY <1>2, <1>9 DEF SelectUsers
<1>10. CASE LoadUser
    <2>1. /\ pc = "HMSET" /\ pc' \in {"HMSET", "Run"} /\ (pc' = "HMSET" => failed' = failed)
          /\ UNCHANGED <<mysqlVars, total_count>>
        BY <1>10 DEF LoadUser
    <2> QED
        BY <1>2, <2>1
<1>11. CASE SelectStock
    BY <1>2, <1>11 DEF SelectStock
<1>12. CASE CreateOrders
    BY <1>2, <1>12 DEF CreateOrders
<1>13. CASE SetTotal
    BY <1>2, <1>13 DEF SetTotal, NewTotal, LocalInv
<1>14. CASE DelOrders
    BY <1>2, <1>14 DEF DelOrders
<1>15. CASE Restart
    BY <1>2, <1>15 DEF Restart
<1> QED
    BY <1>3, <1>4, <1>5, <1>6, <1>7, <1>8, <1>9, <1>10, <1>11, <1>12, <1>13, <1>14, <1>15
    DEF Server, prepareForSeckill

\* At each of its calls, a preparation without a failure has achieved what the
\* calls before were for.
THEOREM ProgressInvariant == Spec => []ProgressInv
<1>1. DeploymentInit => ProgressInv
    BY DEF DeploymentInit, Init, ProgressInv, AfterReset, AfterDrop
<1>2. BaseInv /\ ProgressInv /\ [Next]_vars => ProgressInv'
    <2> SUFFICES ASSUME BaseInv, ProgressInv, [Next]_vars PROVE ProgressInv'
        OBVIOUS
    <2>1. CASE Server
        BY <2>1, ProgressServer DEF BaseInv
    <2>2. CASE ~Server
        BY <2>2, ProgressElsewhere DEF ProgressInv, AfterReset, AfterDrop
    <2> QED
        BY <2>1, <2>2
<1> QED
    BY <1>1, <1>2, BaseInvariant, PTL DEF Spec

\* The step with which a process begins to serve.
LEMMA RepairStep ==
    ASSUME ProgressInv, [Next]_vars, pc # "Run", pc' = "Run", ~failed'
    PROVE  /\ g_totalcount' = Goods /\ total_count' = Goods
           /\ order_info' = {} /\ redis_orders' = {}
<1>1. Server
    <2>1. CASE Crash
        BY <2>1 DEF Crash, End
    <2>2. ASSUME NEW t \in Threads, Proceed(t)
          PROVE  FALSE
        BY <2>2, HandleFrame DEF Proceed, Handle, NilCrash, End, Receive, processVars
    <2>3. ASSUME NEW t \in Threads, ClientStep(t)
          PROVE  FALSE
        BY <2>3 DEF ClientStep, processVars
    <2>4. CASE UNCHANGED vars
        BY <2>4 DEF vars, processVars
    <2> QED
        BY <2>1, <2>2, <2>3, <2>4 DEF Next, Finished
<1>2. DelOrders
    <2> USE DEF Goto, QueryFails, CommandFails
    <2>1. ~LoadUser
        BY DEF LoadUser
    <2>2. ~SetTotal
        BY DEF SetTotal
    <2> QED
        BY <1>1, <2>1, <2>2 DEF Server, prepareForSeckill, CreateGoods, ResetStock, DropOrders,
            FindUsers, CreateUsers, InsertUsers, SelectUsers, SelectStock, CreateOrders, Restart
<1>3. /\ pc = "DEL" /\ failed' = failed /\ redis_orders' = {}
      /\ UNCHANGED <<g_totalcount, order_info, total_count>>
    BY <1>2 DEF DelOrders, CommandFails, mysqlVars
<1> QED
    BY <1>3 DEF ProgressInv, AfterReset

\* A start none of whose calls failed begins to serve with both stores in the
\* initial state of the sale, whatever earlier processes left behind.
THEOREM StartsRepair == Spec => StartRepairs
<1>1. ProgressInv /\ [Next]_vars =>
        [pc # "Run" /\ pc' = "Run" /\ ~failed' =>
            /\ g_totalcount' = Goods /\ total_count' = Goods
            /\ order_info' = {} /\ redis_orders' = {}]_vars
    BY RepairStep
<1> QED
    BY <1>1, ProgressInvariant, PTL DEF Spec, StartRepairs

-----------------------------------------------------------------------------
(***************************************************************************)
(* The replies, and what each process sells.                               *)
(***************************************************************************)
\* The ways of a client thread that the server has no part in.
LEMMA ClientMoves ==
    ASSUME ClientTypeOK, NEW t \in Threads, onSeckill(t)
    PROVE  \A u \in Threads :
             \/ cpc'[u] = cpc[u]
             \/ u = t /\ cpc[u] = "create" /\ cpc'[u] \in {"sent", "end"}
             \/ /\ u = t /\ cpc[u] \in {"lock", "unlock", "test"} \union Checking
                /\ cpc'[u] \in {"unlock", "test", "end"} \union Checking
<1> USE DEF At, Move, Checking
<1>1. DOMAIN cpc = Threads
    BY DEF ClientTypeOK
<1>2. CASE Create(t)
    BY <1>1, <1>2 DEF Create
<1>3. CASE Count(t)
    BY <1>1, <1>3 DEF Count
<1>4. CASE Test(t)
    BY <1>1, <1>4 DEF Test
<1>5. CASE UseAfterDelete(t) \/ NullCrash(t)
    BY <1>1, <1>5 DEF UseAfterDelete, NullCrash
<1>6. CASE Open(t)
    BY <1>1, <1>6 DEF Open
<1>7. CASE CheckStock(t)
    BY <1>1, <1>7 DEF CheckStock
<1>8. CASE CheckOrders(t)
    BY <1>1, <1>8 DEF CheckOrders
<1>9. CASE PrintVerdict(t)
    BY <1>1, <1>9 DEF PrintVerdict
<1> QED
    BY <1>2, <1>3, <1>4, <1>5, <1>6, <1>7, <1>8, <1>9 DEF onSeckill

\* Every step keeps replies and labels together: an answer, an error and the end of
\* the process all move the thread on.
LEMMA ReplyStep ==
    ASSUME ClientTypeOK, ReplyInv, [Next]_vars
    PROVE  ReplyInv'
<1>1. /\ DOMAIN cpc = Threads /\ DOMAIN reply = Threads
      /\ \A t \in Threads : cpc[t] \in Calling \union Checking
                                \union {"create", "lock", "unlock", "test", "end"}
    BY DEF ClientTypeOK
<1>2. CASE UNCHANGED <<cpc, reply>>
    BY <1>2 DEF ReplyInv
<1>3. CASE End
    BY <1>1, <1>3 DEF End, ReplyInv, Unanswered, Replied, Calling, Checking
<1>4. ASSUME NEW t \in Threads, Handle(t)
      PROVE  ReplyInv'
    <2>1. \/ Answer(t, "0") \/ Answer(t, "1")
          \/ /\ cpc[t] \in {"sent", "checked"} /\ UNCHANGED reply
             /\ Move(t, "checked") \/ Move(t, "soldOut") \/ Move(t, "booking")
        BY <1>4 DEF Handle, Check, Reserve, Surrender, SoldOut, Return, Book, Serving
    <2> QED
        BY <1>1, <2>1 DEF Answer, Move, ReplyInv, Unanswered, Replied, Checking
<1>5. ASSUME NEW t \in Threads, Receive(t)
      PROVE  ReplyInv'
    <2>1. /\ Move(t, "lock")
          /\ \/ cpc[t] = "answered" /\ UNCHANGED reply
             \/ reply' = [reply EXCEPT ![t] = "RPC failed"]
        BY <1>5 DEF Receive
    <2> QED
        BY <1>1, <2>1 DEF Move, ReplyInv, Unanswered, Replied, Checking
<1>6. ASSUME NEW t \in Threads, onSeckill(t)
      PROVE  ReplyInv'
    <2>1. UNCHANGED reply
        BY <1>6, ClientFrame
    <2> QED
        BY <1>6, <2>1, ClientMoves DEF ReplyInv, Unanswered, Replied, Checking
<1>7. Server \/ UNCHANGED vars => UNCHANGED <<cpc, reply>>
    BY DEF Server, vars, clientVars
<1> QED
    BY <1>2, <1>3, <1>4, <1>5, <1>6, <1>7
    DEF Next, Crash, Proceed, Handle, NilCrash, ClientStep, Finished

\* A client thread has a reply exactly from the answer on.
THEOREM ReplyInvariant == Spec => []ReplyInv
<1>1. DeploymentInit => ReplyInv
    BY DEF DeploymentInit, ClientInit, ReplyInv, Unanswered, Replied, Checking
<1>2. BaseInv /\ ReplyInv /\ [Next]_vars => ReplyInv'
    BY ReplyStep DEF BaseInv, TypeOK
<1> QED
    BY <1>1, <1>2, BaseInvariant, PTL DEF Spec

\* An answer other than "1" leaves the winners as they are; "1" adds one.
LEMMA WinnersMove ==
    ASSUME ClientTypeOK, ReplyInv, NEW t \in Threads, cpc[t] \in Unanswered,
           NEW r, reply' = [reply EXCEPT ![t] = r]
    PROVE  /\ r # "1" => Winners' = Winners
           /\ r = "1" => Winners' = Winners \union {t} /\ t \notin Winners
<1>1. DOMAIN reply = Threads /\ reply[t] = "none"
    BY DEF ClientTypeOK, ReplyInv
<1> QED
    BY <1>1 DEF Winners

\* Only an order and the end of a process change the winners.
LEMMA QuietSteps ==
    ASSUME ClientTypeOK, ReplyInv, [Next]_vars, ~End, ~\E t \in Threads : Book(t)
    PROVE  Winners' = Winners /\ UNCHANGED <<name, before, lost>>
<1>1. CASE Server \/ UNCHANGED vars
    BY <1>1 DEF Server, vars, clientVars, historyVars, Winners
<1>2. ASSUME NEW t \in Threads, Handle(t), ~Reserve(t), ~Book(t)
      PROVE  Winners' = Winners /\ UNCHANGED <<name, before, lost>>
    <2>1. /\ UNCHANGED reply \/ reply' = [reply EXCEPT ![t] = "0"]
          /\ cpc[t] \in Unanswered /\ UNCHANGED <<name, before, lost>>
        BY <1>2, HandleFrame, HandleQuiet DEF Unanswered
    <2> QED
        BY <2>1, WinnersMove DEF Winners
<1>3. ASSUME NEW t \in Threads, Reserve(t)
      PROVE  Winners' = Winners /\ UNCHANGED <<name, before, lost>>
    BY <1>3 DEF Reserve, Serving, Winners
<1>4. ASSUME NEW t \in Threads, Receive(t)
      PROVE  Winners' = Winners /\ UNCHANGED <<name, before, lost>>
    <2>1. /\ UNCHANGED <<name, before, lost>>
          /\ \/ UNCHANGED reply
             \/ cpc[t] = "sent" /\ reply' = [reply EXCEPT ![t] = "RPC failed"]
        BY <1>4 DEF Receive, historyVars
    <2> QED
        BY <2>1, WinnersMove DEF Winners, Unanswered
<1>5. ASSUME NEW t \in Threads, ClientStep(t)
      PROVE  Winners' = Winners /\ UNCHANGED <<name, before, lost>>
    BY <1>5, ClientFrame DEF ClientStep, historyVars, Winners
<1> QED
    BY <1>1, <1>2, <1>3, <1>4, <1>5
    DEF Next, Crash, Proceed, Handle, NilCrash, Finished

\* The steps that are neither the server's nor Book leave the orders alone.
LEMMA OrdersKept ==
    ASSUME [Next]_vars, ~Server, ~End, ~\E t \in Threads : Book(t)
    PROVE  UNCHANGED <<pc, failed, order_info>>
<1>1. ASSUME NEW t \in Threads, Proceed(t)
      PROVE  UNCHANGED <<pc, failed, order_info>>
    BY <1>1 DEF Proceed, Check, Reserve, Surrender, SoldOut, Return, Serving, NilCrash, Receive,
                processVars, mysqlVars
<1>2. ASSUME NEW t \in Threads, ClientStep(t)
      PROVE  UNCHANGED <<pc, failed, order_info>>
    BY <1>2 DEF ClientStep, processVars, mysqlVars
<1> QED
    BY <1>1, <1>2 DEF Next, Crash, Finished, vars, processVars, mysqlVars

\* What the end of a process does to the winners.
LEMMA EndWinners ==
    ASSUME ClientTypeOK, End
    PROVE  Winners' = before' /\ Winners' \subseteq Winners /\ lost' = {} /\ pc' = "down"
<1>1. /\ reply' = [t \in Threads |-> IF cpc[t] \in Calling THEN "RPC failed" ELSE reply[t]]
      /\ before' = {t \in Winners : cpc[t] \notin Calling} /\ lost' = {} /\ pc' = "down"
    BY DEF End
<1> QED
    BY <1>1 DEF Winners

\* A call of the preparation, or the start of a process.
LEMMA ServerNotRunning == Server => pc # "Run" /\ UNCHANGED <<name, reply>>
BY DEF Server, clientVars, prepareForSeckill, Restart, CreateGoods, ResetStock, DropOrders,
       FindUsers, CreateUsers, InsertUsers, SelectUsers, LoadUser, SelectStock, CreateOrders,
       SetTotal, DelOrders

\* An order and the answer "1" for it come in one step, and a new process has
\* neither.
LEMMA ProcessSaleStep ==
    ASSUME BaseInv, ProgressInv, ReplyInv, ProcessSale, [Next]_vars
    PROVE  ProcessSale'
<1>1. ClientTypeOK
    BY DEF BaseInv, TypeOK
<1>2. CASE Server
    <2>1. Winners' = Winners /\ UNCHANGED <<before, lost>> /\ pc # "Run"
        BY <1>2, ServerNotRunning DEF Server, historyVars, Winners
    <2>2. Sold' = {}
        BY <2>1 DEF ProcessSale, Sold, Served
    <2>3. pc' = "Run" /\ ~failed' => order_info' = {}
        BY <2>1, RepairStep
    <2> QED
        BY <2>1, <2>2, <2>3 DEF ProcessSale
<1>3. CASE End
    BY <1>1, <1>3, EndWinners DEF ProcessSale
<1>4. CASE ~Server /\ ~End /\ ~\E t \in Threads : Book(t)
    <2>1. /\ Winners' = Winners /\ UNCHANGED <<name, before, lost>>
          /\ UNCHANGED <<pc, failed, order_info>>
        BY <1>1, <1>4, QuietSteps, OrdersKept
    <2>2. Sold' = Sold
        BY <2>1 DEF Sold, Served
    <2> QED
        BY <2>1, <2>2 DEF ProcessSale
<1>5. ASSUME NEW t \in Threads, Book(t)
      PROVE  ProcessSale'
    <2>1. /\ cpc[t] \in Unanswered /\ pc = "Run"
          /\ UNCHANGED <<pc, failed, name, before>>
        BY <1>5, HandleFrame DEF Handle, Unanswered
    <2>2. t \notin Winners /\ t \notin before /\ t \notin lost
        BY <2>1 DEF ReplyInv, Winners, ProcessSale
    <2>3. CASE reply' = [reply EXCEPT ![t] = "0"] /\ UNCHANGED <<order_info, lost>>
        <3>1. Winners' = Winners
            BY <1>1, <2>1, <2>3, WinnersMove
        <3>2. Sold' = Sold
            BY <2>1, <2>3, <3>1 DEF Sold, Served
        <3> QED
            BY <2>1, <2>3, <3>1, <3>2 DEF ProcessSale
    <2>4. CASE /\ reply' = [reply EXCEPT ![t] = "1"] /\ name[t] \notin order_info
               /\ order_info' = order_info \union {name[t]} /\ UNCHANGED lost
        <3>1. Winners' = Winners \union {t}
            BY <1>1, <2>1, <2>4, WinnersMove
        <3>2. Sold' = Sold \union {t} /\ t \notin Sold
            BY <2>1, <2>2, <2>4, <3>1 DEF Sold, Served
        <3> QED
            BY <2>1, <2>4, <3>1, <3>2 DEF ProcessSale
    <2>5. CASE /\ reply' = [reply EXCEPT ![t] = "1"] /\ UNCHANGED order_info
               /\ lost' = lost \union {t}
        <3>1. Winners' = Winners \union {t}
            BY <1>1, <2>1, <2>5, WinnersMove
        <3>2. Sold' = Sold
            BY <2>1, <2>2, <2>5, <3>1 DEF Sold, Served
        <3> QED
            BY <2>1, <2>5, <3>1, <3>2 DEF ProcessSale
    <2> QED
        BY <1>5, <2>3, <2>4, <2>5, BookOutcomes
<1> QED
    BY <1>2, <1>3, <1>4, <1>5

\* While a process serves, its winners and the orders correspond one to one, but for
\* lost COMMITs and the orders a failed preparation left behind.
THEOREM ProcessSaleInvariant == Spec => []ProcessSale
<1>1. DeploymentInit => ProcessSale
    BY DEF DeploymentInit, Init, ClientInit, ProcessSale, Winners
<1>2. BaseInv /\ ProgressInv /\ ReplyInv /\ ProcessSale /\ [Next]_vars => ProcessSale'
    BY ProcessSaleStep
<1> QED
    BY <1>1, <1>2, BaseInvariant, ProgressInvariant, ReplyInvariant, PTL DEF Spec

\* The process that serves, whichever start it is, tells nobody "1" twice or, unless
\* the COMMIT is lost, in vain; and the orders are its successes unless its
\* preparation failed to drop the old ones.
THEOREM SuccessesOrdered == Spec => []SuccessesAreOrders
<1>1. ProcessSale => SuccessesAreOrders
    <2> DEFINE got == {name[t] : t \in Sold}
    <2>1. SUFFICES ASSUME ProcessSale, pc = "Run"
                   PROVE  /\ Cardinality(Sold) = Cardinality(got)
                          /\ got # {} => got \subseteq order_info
                          /\ ~failed => got = order_info
        BY DEF SuccessesAreOrders
    <2>2. /\ \A t, u \in Sold : name[t] = name[u] => t = u
          /\ \A t \in Sold : name[t] \in order_info
          /\ ~failed => \A n \in order_info : \E t \in Sold : name[t] = n
        BY <2>1 DEF ProcessSale
    <2>3. Cardinality(Sold) = Cardinality(got)
        <3> DEFINE f == [t \in Sold |-> name[t]]
        <3>1. IsFiniteSet(Sold)
            <4>1. Sold \subseteq Threads
                BY DEF Sold, Served, Winners
            <4> QED
                BY <4>1, ClientAssumption, FS_Subset
        <3>2. f \in Bijection(Sold, got)
            BY <2>2 DEF Bijection, Injection, Surjection, IsInjective
        <3>3. ExistsBijection(Sold, got)
            BY <3>2 DEF ExistsBijection
        <3> HIDE DEF got
        <3> QED
            BY <3>1, <3>3, FS_Bijection
    <2> QED
        BY <2>2, <2>3
<1> QED
    BY <1>1, ProcessSaleInvariant, PTL

-----------------------------------------------------------------------------
(***************************************************************************)
(* The client's counters and its verdict.                                  *)
(***************************************************************************)
\* A step that counts nothing: each thread keeps its label and its reply, or is
\* counted neither before nor after.
Uncounted ==
    /\ UNCHANGED <<success_count, response_count, printed>>
    /\ \A u \in Threads :
          \/ cpc'[u] = cpc[u] /\ reply'[u] = reply[u]
          \/ /\ cpc[u] \in Calling \union {"create"}
             /\ cpc'[u] \in Calling \union {"lock"} \/ (cpc'[u] = "end" /\ reply'[u] = "none")

\* Such a step leaves the counts as they were.
LEMMA UncountedStep ==
    ASSUME CountInv, Uncounted
    PROVE  CountInv'
<1> USE DEF Calling, Checking
<1>1. \A u \in Threads : /\ u \in Counted' <=> u \in Counted
                         /\ u \in Responded' <=> u \in Responded
    BY DEF Uncounted, Counted, Responded
<1>2. Counted' = Counted /\ Responded' = Responded
    BY <1>1 DEF Counted, Responded
<1>3. Winners' \intersect Counted' = Winners \intersect Counted
    <2>1. \A u \in Counted : reply'[u] = reply[u]
        BY <1>2 DEF Uncounted, Counted
    <2> QED
        BY <1>2, <2>1 DEF Winners, Counted
<1>4. Checkers' = Checkers
    BY DEF Uncounted, Checkers
<1> QED
    BY <1>2, <1>3, <1>4 DEF Uncounted, CountInv

\* The steps of Next other than the client's are of this kind.
LEMMA ElsewhereUncounted ==
    ASSUME ClientTypeOK, ReplyInv, [Next]_vars, ~\E t \in Threads : ClientStep(t)
    PROVE  Uncounted
<1>1. /\ DOMAIN cpc = Threads /\ DOMAIN reply = Threads
      /\ \A t \in Threads : cpc[t] \in Calling \union Checking
                                \union {"create", "lock", "unlock", "test", "end"}
    BY DEF ClientTypeOK
<1>2. CASE Server \/ UNCHANGED vars
    BY <1>2 DEF Server, vars, clientVars, Uncounted
<1>3. CASE End
    BY <1>1, <1>3 DEF End, Uncounted
<1>4. ASSUME NEW t \in Threads, Handle(t)
      PROVE  Uncounted
    <2>1. /\ cpc[t] \in Calling
          /\ \/ Answer(t, "0") \/ Answer(t, "1")
             \/ UNCHANGED reply /\ \E label \in Calling : Move(t, label)
          /\ UNCHANGED <<success_count, response_count, printed>>
        BY <1>4, HandleFrame DEF Calling
    <2> QED
        BY <1>1, <2>1 DEF Answer, Move, Uncounted, Calling
<1>5. ASSUME NEW t \in Threads, Receive(t)
      PROVE  Uncounted
    <2>1. /\ cpc[t] \in Calling /\ Move(t, "lock")
          /\ UNCHANGED reply \/ reply' = [reply EXCEPT ![t] = "RPC failed"]
          /\ UNCHANGED <<success_count, response_count, printed>>
        BY <1>5 DEF Receive, Calling
    <2> QED
        BY <1>1, <2>1 DEF Move, Uncounted
<1> QED
    BY <1>2, <1>3, <1>4, <1>5 DEF Next, Crash, Proceed, Handle, NilCrash, Finished

\* A step of a thread that has been counted and stays counted.
LEMMA CountedMoves ==
    ASSUME ClientTypeOK, CountInv, NEW t \in Threads, NEW label, Move(t, label),
           cpc[t] \in {"test"} \union Checking, label \in {"end"} \union Checking,
           UNCHANGED <<reply, success_count, response_count>>,
           \A u \in Threads : u # t => printed'[u] = printed[u],
           cpc[t] = "test" => /\ printed'[t] = printed[t]
                              /\ label = "end" \/ response_count = Cardinality(Threads)
    PROVE  CountInv'
<1>1. /\ DOMAIN cpc = Threads /\ cpc' = [cpc EXCEPT ![t] = label] /\ Winners' = Winners
    BY DEF ClientTypeOK, Move, Winners
<1>2. Counted' = Counted /\ Responded' = Responded
    BY <1>1 DEF Counted, Responded, Checking
<1>3. Checkers' # {} => Responded = Threads
    <2>1. CASE cpc[t] \in Checking
        <3>1. t \in Checkers
            BY <2>1 DEF Checkers
        <3> QED
            BY <3>1 DEF CountInv
    <2>2. CASE cpc[t] = "test" /\ label = "end"
        <3>1. \A u \in Threads : u \in Checkers' => u \in Checkers
            BY <1>1, <2>2 DEF Checkers, Checking
        <3>2. Checkers' \subseteq Checkers
            BY <3>1 DEF Checkers
        <3> QED
            BY <3>2 DEF CountInv
    <2>3. CASE response_count = Cardinality(Threads)
        <3>1. Cardinality(Threads) = Cardinality(Responded)
            BY <2>3 DEF CountInv
        <3>2. IsFiniteSet(Threads) /\ Responded \in SUBSET Threads
            BY ClientAssumption DEF Responded, Counted
        <3> QED
            BY <3>1, <3>2, FS_Subset
    <2> QED
        BY <2>1, <2>2, <2>3
<1> QED
    BY <1>1, <1>2, <1>3 DEF CountInv

\* The two increments count their thread once; every other step counts nothing.
LEMMA CountStep ==
    ASSUME ClientTypeOK, ReplyInv, CountInv, [Next]_vars
    PROVE  CountInv'
<1>1. CASE ~\E t \in Threads : ClientStep(t)
    BY <1>1, ElsewhereUncounted, UncountedStep
<1>2. ASSUME NEW t \in Threads, onSeckill(t)
      PROVE  CountInv'
    <2>1. DOMAIN cpc = Threads /\ DOMAIN printed = Threads /\ UNCHANGED reply
        BY <1>2, ClientFrame DEF ClientTypeOK
    <2>2. CASE Create(t)
        <3>1. cpc[t] = "create" /\ reply[t] = "none"
            BY <2>2 DEF Create, At, ReplyInv, Unanswered
        <3>2. Uncounted
            BY <2>1, <2>2, <3>1 DEF Create, Move, Uncounted, Calling
        <3> QED
            BY <3>2, UncountedStep
    <2>3. CASE Count(t) /\ cpc[t] = "lock"
        <3>1. /\ cpc' = [cpc EXCEPT ![t] = "unlock"] /\ reply[t] # "none"
              /\ success_count' = success_count + Success(t)
              /\ UNCHANGED <<response_count, printed>>
            BY <2>3 DEF Count, At, Move, Increment, ReplyInv, Replied
        <3>2. t \notin Counted /\ Counted' = Counted \union {t} /\ Responded' = Responded
            BY <2>1, <2>3, <3>1 DEF Counted, Responded, Checking
        <3>3. Checkers' = Checkers /\ Winners' = Winners
            BY <2>1, <2>3, <3>1 DEF Checkers, Winners, Checking
        <3>4. Cardinality(Winners \intersect Counted') = success_count + Success(t)
            <4>1. IsFiniteSet(Winners \intersect Counted)
                BY ClientAssumption, FS_Subset DEF Winners, Counted
            <4>2. success_count = Cardinality(Winners \intersect Counted)
                BY DEF CountInv
            <4>3. CASE reply[t] = "1"
                <5>1. /\ Winners \intersect Counted' = (Winners \intersect Counted) \union {t}
                      /\ t \notin Winners \intersect Counted /\ Success(t) = 1
                    BY <3>2, <4>3 DEF Winners, Success
                <5>2. Cardinality((Winners \intersect Counted) \union {t})
                        = Cardinality(Winners \intersect Counted) + 1
                    BY <4>1, <5>1, FS_AddElement
                <5> QED
                    BY <4>2, <5>1, <5>2
            <4>4. CASE reply[t] # "1"
                <5>1. Winners \intersect Counted' = Winners \intersect Counted /\ Success(t) = 0
                    BY <3>2, <4>4 DEF Winners, Success
                <5>2. success_count \in Nat
                    BY DEF ClientTypeOK
                <5>3. Cardinality(Winners \intersect Counted') = success_count
                    BY <4>2, <5>1
                <5> QED
                    BY <5>1, <5>2, <5>3
            <4> QED
                BY <4>3, <4>4
        <3> QED
            BY <3>1, <3>2, <3>3, <3>4 DEF CountInv
    <2>4. CASE Count(t) /\ cpc[t] = "unlock"
        <3>1. /\ cpc' = [cpc EXCEPT ![t] = "test"] /\ reply[t] # "none"
              /\ response_count' = response_count + 1
              /\ UNCHANGED <<success_count, printed>>
            BY <2>4 DEF Count, At, Move, Increment, ReplyInv, Replied
        <3>2. t \notin Responded /\ Counted' = Counted /\ Responded' = Responded \union {t}
            BY <2>1, <2>4, <3>1 DEF Counted, Responded, Checking
        <3>3. Checkers' = Checkers /\ Winners' = Winners
            BY <2>1, <2>4, <3>1 DEF Checkers, Winners, Checking
        <3>4. IsFiniteSet(Responded)
            BY ClientAssumption, FS_Subset DEF Responded, Counted
        <3>5. Cardinality(Responded') = response_count + 1
            BY <3>2, <3>4, FS_AddElement DEF CountInv
        <3> QED
            BY <3>1, <3>2, <3>3, <3>5 DEF CountInv
    <2>5. CASE Test(t)
        <3> DEFINE label == IF response_count = Cardinality(Threads) THEN "open" ELSE "end"
        <3>1. /\ Move(t, label) /\ cpc[t] = "test"
              /\ UNCHANGED <<reply, success_count, response_count, printed>>
            BY <2>5 DEF Test, At
        <3>2. label \in {"end"} \union Checking
            BY DEF Checking
        <3>3. label = "end" \/ response_count = Cardinality(Threads)
            OBVIOUS
        <3> HIDE DEF label
        <3> QED
            BY <3>1, <3>2, <3>3, CountedMoves
    <2>6. CASE UseAfterDelete(t) \/ NullCrash(t)
        <3>1. UNCHANGED <<cpc, reply, success_count, response_count, printed>>
            BY <2>6 DEF UseAfterDelete, NullCrash
        <3> QED
            BY <3>1 DEF CountInv, Counted, Responded, Winners, Checkers
    <2>7. CASE Open(t) \/ CheckStock(t) \/ CheckOrders(t) \/ PrintVerdict(t)
        <3>1. /\ cpc[t] \in Checking
              /\ \E label \in {"end"} \union Checking : Move(t, label)
              /\ UNCHANGED <<reply, success_count, response_count>>
            BY <2>7 DEF Open, CheckStock, CheckOrders, PrintVerdict, At, Checking
        <3>2. \A u \in Threads : u # t => printed'[u] = printed[u]
            BY <2>1, <2>7 DEF Open, CheckStock, CheckOrders, PrintVerdict
        <3>3. cpc[t] # "test"
            BY <3>1 DEF Checking
        <3> QED
            BY <3>1, <3>2, <3>3, CountedMoves
    <2> QED
        BY <1>2, <2>2, <2>3, <2>4, <2>5, <2>6, <2>7 DEF onSeckill, Count, At
<1> QED
    BY <1>1, <1>2 DEF ClientStep

\* success_count and response_count are exact at every step between lock and unlock,
\* and nobody checks before everybody has responded.
THEOREM CountInvariant == Spec => []CountInv
<1>1. DeploymentInit => CountInv
    <2> SUFFICES ASSUME DeploymentInit PROVE CountInv
        OBVIOUS
    <2>1. Counted = {} /\ Responded = {} /\ Checkers = {} /\ Winners = {}
        BY DEF DeploymentInit, ClientInit, Counted, Responded, Checkers, Winners, Checking
    <2>2. success_count = 0 /\ response_count = 0
        BY DEF DeploymentInit, ClientInit
    <2>3. Winners \intersect Counted = {}
        BY <2>1
    <2> QED
        BY <2>1, <2>2, <2>3, FS_EmptySet DEF CountInv
<1>2. BaseInv /\ ReplyInv /\ CountInv /\ [Next]_vars => CountInv'
    BY CountStep DEF BaseInv, TypeOK
<1> QED
    BY <1>1, <1>2, BaseInvariant, ReplyInvariant, PTL DEF Spec

\* Whoever compares success_count with MySQL has the final number, although the
\* test of response_count is outside the mutex.
THEOREM ChecksFinal == Spec => []ChecksSeeFinalCount
<1>1. CountInv => ChecksSeeFinalCount
    <2> SUFFICES ASSUME CountInv, Checkers # {}
                 PROVE  success_count = Cardinality(Winners)
        BY DEF ChecksSeeFinalCount
    <2>1. Responded = Threads /\ success_count = Cardinality(Winners \intersect Counted)
        BY DEF CountInv
    <2>2. Winners \intersect Counted = Winners
        BY <2>1 DEF Responded, Winners
    <2> QED
        BY <2>1, <2>2
<1> QED
    BY <1>1, CountInvariant, PTL

\* success_count does not change once a thread has begun the check.
LEMMA CheckersSeeNoCount ==
    ASSUME CountInv, ClientTypeOK, [Next]_vars, Checkers # {}
    PROVE  success_count' = success_count
<1>1. \A t \in Threads : cpc[t] # "lock"
    BY DEF CountInv, Responded, Counted, Checking
<1>2. ASSUME NEW t \in Threads, Count(t)
      PROVE  success_count' = success_count
    BY <1>1, <1>2 DEF Count, Increment
<1>3. ASSUME NEW t \in Threads, onSeckill(t)
      PROVE  success_count' = success_count
    BY <1>2, <1>3 DEF onSeckill, Create, Test, UseAfterDelete, NullCrash, Open, CheckStock,
                      CheckOrders, PrintVerdict
<1>4. ASSUME NEW t \in Threads, Proceed(t)
      PROVE  success_count' = success_count
    BY <1>4, HandleFrame DEF Proceed, Handle, NilCrash, End, Receive
<1>5. Server \/ Crash \/ UNCHANGED vars => success_count' = success_count
    BY DEF Server, Crash, End, vars, clientVars
<1> QED
    BY <1>3, <1>4, <1>5 DEF Next, ClientStep, Finished

\* Only the test in Open makes isnormol true again, and it looks at success_count.
LEMMA VerdictStep ==
    ASSUME ClientTypeOK, ReplyInv, CountInv, VerdictInv, [Next]_vars
    PROVE  VerdictInv'
<1>1. /\ DOMAIN cpc = Threads /\ DOMAIN printed = Threads /\ DOMAIN isnormol = Threads
      /\ isnormol \in [Threads -> BOOLEAN]
    BY DEF ClientTypeOK
<1>2. Checkers # {} => (NotOversold' <=> NotOversold)
    BY CheckersSeeNoCount DEF NotOversold
<1>3. ASSUME UNCHANGED <<printed, isnormol>>,
             \A u \in Threads : cpc'[u] \in {"stock", "orders", "delete"} => cpc'[u] = cpc[u]
      PROVE  VerdictInv'
    BY <1>2, <1>3 DEF VerdictInv, Checkers, Checking
<1>4. CASE ~\E t \in Threads : ClientStep(t)
    <2>1. Uncounted
        BY <1>4, ElsewhereUncounted
    <2>2. UNCHANGED isnormol
        BY <1>4, HandleFrame DEF Next, Server, Crash, Proceed, Handle, NilCrash, End, Receive,
                                 Finished, vars, clientVars
    <2> QED
        BY <1>3, <2>1, <2>2 DEF Uncounted, Calling
<1>5. ASSUME NEW t \in Threads, onSeckill(t)
      PROVE  VerdictInv'
    <2>1. CASE Create(t) \/ Count(t) \/ Test(t) \/ UseAfterDelete(t) \/ NullCrash(t)
        BY <1>1, <1>3, <2>1 DEF Create, Count, Test, UseAfterDelete, NullCrash, At, Move
    <2>2. ASSUME cpc[t] \in Checking, NEW label, Move(t, label), UNCHANGED printed,
                 \A u \in Threads : u # t => isnormol'[u] = isnormol[u],
                 isnormol'[t] => NotOversold
          PROVE  VerdictInv'
        <3>1. NotOversold' <=> NotOversold
            BY <1>2, <2>2 DEF Checkers
        <3> QED
            BY <1>1, <2>2, <3>1 DEF VerdictInv, Move
    <2>3. CASE Open(t)
        <3>1. /\ cpc[t] \in Checking /\ Move(t, "stock") /\ UNCHANGED printed
              /\ isnormol' = [isnormol EXCEPT ![t] = NotOversold]
            BY <2>3 DEF Open, At, Checking, NotOversold
        <3> QED
            BY <1>1, <2>2, <3>1
    <2>4. CASE CheckStock(t) \/ CheckOrders(t)
        <3>1. /\ cpc[t] \in Checking /\ (Move(t, "orders") \/ Move(t, "delete"))
              /\ cpc[t] \in {"stock", "orders"} /\ UNCHANGED printed
            BY <2>4 DEF CheckStock, CheckOrders, At, Checking
        <3>2. \/ UNCHANGED isnormol
              \/ \E ok : isnormol' = [isnormol EXCEPT ![t] = isnormol[t] /\ ok]
            BY <2>4 DEF CheckStock, CheckOrders, StillNormal
        <3>3. /\ \A u \in Threads : u # t => isnormol'[u] = isnormol[u]
              /\ isnormol'[t] => isnormol[t]
            BY <1>1, <3>2
        <3>4. isnormol[t] => NotOversold
            BY <3>1 DEF VerdictInv
        <3> QED
            BY <2>2, <3>1, <3>3, <3>4
    <2>5. CASE PrintVerdict(t)
        <3>1. /\ cpc[t] = "delete" /\ cpc' = [cpc EXCEPT ![t] = "end"]
              /\ isnormol' = [isnormol EXCEPT ![t] = TRUE]
              /\ printed' = [printed EXCEPT ![t] = IF isnormol[t] THEN "normal" ELSE "error"]
            BY <2>5 DEF PrintVerdict, At, Move
        <3>2. NotOversold' <=> NotOversold
            BY <1>2, <3>1 DEF Checkers, Checking
        <3> QED
            BY <1>1, <3>1, <3>2 DEF VerdictInv
    <2> QED
        BY <1>5, <2>1, <2>3, <2>4, <2>5 DEF onSeckill
<1> QED
    BY <1>4, <1>5 DEF ClientStep

\* A check under way that is still normal, and a verdict "normal", mean that
\* success_count is within the stock.
THEOREM VerdictInvariant == Spec => []VerdictInv
<1>1. DeploymentInit => VerdictInv
    BY DEF DeploymentInit, ClientInit, VerdictInv
<1>2. BaseInv /\ ReplyInv /\ CountInv /\ VerdictInv /\ [Next]_vars => VerdictInv'
    BY VerdictStep DEF BaseInv, TypeOK
<1> QED
    BY <1>1, <1>2, BaseInvariant, ReplyInvariant, CountInvariant, PTL DEF Spec

\* The verdict "normal" is never given to a sale that handed out more items than
\* there are, whatever failed and however often the server was restarted.
THEOREM OversellReported == Spec => []OversellIsReported
<1>1. VerdictInv /\ ChecksSeeFinalCount => OversellIsReported
    <2> SUFFICES ASSUME VerdictInv, ChecksSeeFinalCount,
                        NEW t \in Threads, printed[t] = "normal"
                 PROVE  Cardinality(Winners) <= Goods
        BY DEF OversellIsReported
    <2>1. NotOversold
        BY DEF VerdictInv
    <2>2. t \in Checkers
        BY DEF Checkers
    <2>3. success_count = Cardinality(Winners)
        BY <2>2 DEF ChecksSeeFinalCount
    <2> QED
        BY <2>1, <2>3 DEF NotOversold
<1> QED
    BY <1>1, VerdictInvariant, ChecksFinal, PTL
\* The last thread to respond has its test still before it, and the test sees all
\* responses.
LEMMA CheckStep ==
    ASSUME ClientTypeOK, ReplyInv, CountInv, CheckInv, [Next]_vars
    PROVE  CheckInv'
<1>1. DOMAIN cpc = Threads /\ DOMAIN printed = Threads
    BY DEF ClientTypeOK
<1>2. CASE ~\E t \in Threads : ClientStep(t)
    <2>1. Uncounted
        BY <1>2, ElsewhereUncounted
    <2>2. \A u \in Threads : u \in Responded' => u \in Responded
        BY <2>1 DEF Uncounted, Counted, Responded, Calling, Checking
    <2>3. \A u \in Threads : cpc[u] = "test" \/ u \in Checkers => cpc'[u] = "test" \/ u \in Checkers'
        BY <2>1 DEF Uncounted, Checkers, Calling, Checking
    <2>4. Responded' = Threads => Responded = Threads
        BY <2>2 DEF Responded, Counted
    <2> QED
        BY <2>3, <2>4 DEF CheckInv
<1>3. ASSUME NEW t \in Threads, onSeckill(t)
      PROVE  CheckInv'
    <2>1. UNCHANGED reply
        BY <1>3, ClientFrame
    <2>2. CASE Create(t) \/ (Count(t) /\ cpc[t] = "lock")
        <3>1. \/ cpc'[t] \in {"sent", "unlock"}
              \/ cpc'[t] = "end" /\ reply'[t] = "none"
            BY <1>1, <2>1, <2>2 DEF Create, Count, At, Move, ReplyInv, Unanswered
        <3>2. t \notin Responded'
            BY <3>1 DEF Responded, Counted, Checking
        <3> QED
            BY <3>2 DEF CheckInv
    <2>3. CASE Count(t) /\ cpc[t] = "unlock"
        <3>1. cpc'[t] = "test"
            BY <1>1, <2>3 DEF Count, At, Move
        <3> QED
            BY <3>1 DEF CheckInv
    <2>4. CASE Test(t)
        <3>1. CASE response_count = Cardinality(Threads)
            <4>1. t \in Checkers'
                BY <1>1, <2>4, <3>1 DEF Test, At, Move, Checkers, Checking
            <4> QED
                BY <4>1 DEF CheckInv
        <3>2. CASE response_count # Cardinality(Threads)
            <4>1. CountInv'
                BY CountStep
            <4>2. response_count' = response_count
                BY <2>4 DEF Test
            <4>3. Responded' # Threads
                BY <3>2, <4>1, <4>2 DEF CountInv
            <4> QED
                BY <4>3 DEF CheckInv
        <3> QED
            BY <3>1, <3>2
    <2>5. CASE UseAfterDelete(t) \/ NullCrash(t)
        <3>1. UNCHANGED <<cpc, reply, printed>>
            BY <2>5 DEF UseAfterDelete, NullCrash
        <3> QED
            BY <3>1 DEF CheckInv, Responded, Counted, Checkers
    <2>6. CASE Open(t) \/ CheckStock(t) \/ CheckOrders(t) \/ PrintVerdict(t)
        <3>1. cpc'[t] \in Checking \/ printed'[t] # "none"
            BY <1>1, <2>6 DEF Open, CheckStock, CheckOrders, PrintVerdict, Move, Checking
        <3>2. t \in Checkers'
            BY <3>1 DEF Checkers
        <3> QED
            BY <3>2 DEF CheckInv
    <2> QED
        BY <1>3, <2>2, <2>3, <2>4, <2>5, <2>6 DEF onSeckill, Count, At
<1> QED
    BY <1>2, <1>3 DEF ClientStep

\* When every thread has responded, one of them is before its test or past it with
\* the right result.
THEOREM CheckInvariant == Spec => []CheckInv
<1>1. DeploymentInit => CheckInv
    <2>1. DeploymentInit => Responded = {}
        BY DEF DeploymentInit, ClientInit, Responded, Counted, Checking
    <2> QED
        BY <2>1, ClientAssumption DEF CheckInv
<1>2. BaseInv /\ ReplyInv /\ CountInv /\ CheckInv /\ [Next]_vars => CheckInv'
    BY CheckStep DEF BaseInv, TypeOK
<1> QED
    BY <1>1, <1>2, BaseInvariant, ReplyInvariant, CountInvariant, PTL DEF Spec

\* The client does not end with all replies and no verdict: although the test is
\* outside the mutex, not every thread can take it too early.
THEOREM VerdictGiven == Spec => []SomebodyChecks
<1>1. CheckInv => SomebodyChecks
    <2> SUFFICES ASSUME CheckInv, \A t \in Threads : cpc[t] = "end" /\ reply[t] # "none"
                 PROVE  \E t \in Threads : printed[t] # "none"
        BY DEF SomebodyChecks
    <2>1. Responded = Threads
        BY DEF Responded, Counted
    <2>2. PICK t \in Threads : t \in Checkers
        BY <2>1 DEF CheckInv
    <2> QED
        BY <2>2 DEF Checkers, Checking
<1> QED
    BY <1>1, CheckInvariant, PTL

-----------------------------------------------------------------------------
(***************************************************************************)
(* How much each process sells.                                            *)
(***************************************************************************)
\* The winners of a process are a finite set.
LEMMA ServedFinite == IsFiniteSet(Served) /\ Cardinality(Served) \in Nat
<1>1. Served \subseteq Threads
    BY DEF Served, Winners
<1> QED
    BY <1>1, ClientAssumption, FS_Subset, FS_CardinalityType

\* A step that sells an item, returns it or reserves it takes it from elsewhere.
LEMMA BudgetMoves ==
    ASSUME BaseInv, BudgetInv, pc = "Run", total_count # Nil,
           NEW s \in Nat, Cardinality(Served') = s, NEW c \in Nat, total_count' = c,
           NEW f \in Nat, failedCount' = f, NEW b \in Nat, Cardinality(Booking') = b,
           s + c + f + b
              <= Cardinality(Served) + total_count + failedCount + Cardinality(Booking)
    PROVE  BudgetInv'
<1>1. total_count \in Nat /\ failedCount \in Nat /\ Goods \in Nat /\ Nil \notin Int
    BY StoresAssumption DEF BaseInv, TypeOK, PrepareTypeOK
<1>2. Cardinality(Served) + total_count + failedCount + Cardinality(Booking) <= Goods
    BY DEF BudgetInv
<1>3. PICK n \in Nat :
          n = Cardinality(Served) + total_count + failedCount + Cardinality(Booking)
    BY <1>1, BookingIsNat, ServedFinite
<1>4. s + c + f + b <= Goods
    <2>1. n <= Goods /\ s + c + f + b <= n
        BY <1>2, <1>3
    <2> QED
        BY <1>1, <2>1
<1>5. Cardinality(Served') + total_count' + failedCount' + Cardinality(Booking') <= Goods
    BY <1>4
<1>6. total_count' # Nil
    BY <1>1
<1> QED
    BY <1>5, <1>6 DEF BudgetInv

\* A process begins with at most Goods items on sale, and no step of it adds one.
LEMMA BudgetStep ==
    ASSUME BaseInv, ReplyInv, ProcessSale, BudgetInv, [Next]_vars
    PROVE  BudgetInv'
<1>1. /\ ClientTypeOK /\ failedCount \in Nat /\ total_count \in Nat \union {Nil}
      /\ Nil \notin Int /\ CacheInv /\ MemoryInv
    BY StoresAssumption DEF BaseInv, TypeOK, PrepareTypeOK
<1>2. Cardinality(Booking) \in Nat /\ Cardinality(Served) \in Nat
    BY BookingIsNat, ServedFinite
<1>3. ASSUME UNCHANGED <<pc, total_count, failedCount>>, Served' = Served, Booking' = Booking
      PROVE  BudgetInv'
    BY <1>3 DEF BudgetInv
<1>4. CASE Server
    <2>1. pc # "Run" /\ UNCHANGED <<cpc, reply, before, failedCount>>
        BY <1>4, ServerNotRunning DEF Server, clientVars, historyVars
    <2>2. Served' = {} /\ Booking' = {} /\ failedCount' = 0
        BY <1>1, <2>1 DEF ProcessSale, Served, Winners, MemoryInv, Booking, Held
    <2>3. Cardinality(Served') = 0 /\ Cardinality(Booking') = 0
        BY <2>2, FS_EmptySet
    <2>4. total_count' \in (0..Goods) \union {Nil} /\ Goods \in Nat
        <3>1. BaseInv'
            BY BaseStep
        <3> QED
            BY <3>1, StoresAssumption DEF BaseInv, TypeOK, PrepareTypeOK
    <2> QED
        BY <2>2, <2>3, <2>4 DEF BudgetInv
<1>5. CASE End
    BY <1>1, <1>5, EndWinners DEF BudgetInv
<1>6. ASSUME NEW t \in Threads, Handle(t), ~Reserve(t), ~Book(t)
      PROVE  BudgetInv'
    <2>1. /\ pc = "Run" /\ pc' = "Run" /\ cpc[t] \in Unanswered /\ cpc[t] # "booking"
          /\ UNCHANGED <<before, lost>>
          /\ UNCHANGED reply \/ reply' = [reply EXCEPT ![t] = "0"]
          /\ \/ UNCHANGED <<total_count, failedCount>>
             \/ failedCount > 0 /\ total_count' = failedCount /\ failedCount' = 0
        BY <1>6, HandleFrame, HandleQuiet DEF Unanswered
    <2>2. PICK label \in Calling : label # "booking" /\ Move(t, label)
        BY <1>6, HandleQuiet
    <2>3. Booking' = Booking
        BY <1>1, <2>1, <2>2, BookingMoves
    <2>4. Served' = Served
        BY <1>1, <2>1, WinnersMove DEF Served, Winners
    <2>5. CASE UNCHANGED <<total_count, failedCount>>
        BY <1>3, <2>1, <2>3, <2>4, <2>5
    <2>6. CASE failedCount > 0 /\ total_count' = failedCount /\ failedCount' = 0
        <3>1. total_count # Nil /\ total_count \in Nat
            BY <1>1, <2>6 DEF CacheInv
        <3> QED
            BY <1>1, <1>2, <2>1, <2>3, <2>4, <2>6, <3>1, BudgetMoves
    <2> QED
        BY <2>1, <2>5, <2>6
<1>7. ASSUME NEW t \in Threads, Reserve(t)
      PROVE  BudgetInv'
    <2>1. /\ pc = "Run" /\ cpc[t] = "checked" /\ Move(t, "booking")
          /\ total_count \notin {Nil, 0} /\ total_count' = total_count - 1
          /\ UNCHANGED <<reply, before, failedCount>>
        BY <1>7 DEF Reserve, Serving, OnSale
    <2>2. Cardinality(Booking') = Cardinality(Booking) + 1
        BY <1>1, <2>1, BookingMoves
    <2>3. Served' = Served
        BY <2>1 DEF Served, Winners
    <2> QED
        BY <1>1, <1>2, <2>1, <2>2, <2>3, BudgetMoves
<1>8. ASSUME NEW t \in Threads, Book(t)
      PROVE  BudgetInv'
    <2>1. /\ pc = "Run" /\ cpc[t] = "booking" /\ cpc[t] \in Unanswered /\ Move(t, "answered")
          /\ UNCHANGED <<total_count, before>>
          /\ \/ /\ reply' = [reply EXCEPT ![t] = "0"]
                /\ failedCount' \in {failedCount, failedCount + 1}
             \/ reply' = [reply EXCEPT ![t] = "1"] /\ UNCHANGED failedCount
        BY <1>8, HandleFrame, BookOutcomes DEF Handle, Unanswered
    <2>2. Cardinality(Booking') = Cardinality(Booking) - 1 /\ Cardinality(Booking) > 0
        <3>1. Booking # {} /\ Cardinality(Booking') = Cardinality(Booking) - 1
            BY <1>1, <2>1, BookingMoves DEF Booking
        <3> QED
            BY <1>2, <3>1, BookingIsNat, FS_EmptySet
    <2>3. total_count # Nil /\ total_count \in Nat
        BY <1>1, <2>1 DEF CacheInv, Booking
    <2>4. CASE /\ reply' = [reply EXCEPT ![t] = "0"]
               /\ failedCount' \in {failedCount, failedCount + 1}
        <3>1. Served' = Served
            BY <1>1, <2>1, <2>4, WinnersMove DEF Served
        <3>2. PICK f \in Nat : failedCount' = f /\ f <= failedCount + 1
            BY <1>1, <2>4
        <3>3. PICK b \in Nat : Cardinality(Booking') = b /\ b = Cardinality(Booking) - 1
            BY <1>2, <2>2
        <3>4. Cardinality(Served) + total_count + f + b
                 <= Cardinality(Served) + total_count + failedCount + Cardinality(Booking)
            BY <1>1, <1>2, <2>3, <3>2, <3>3
        <3> QED
            BY <1>2, <2>1, <2>3, <3>1, <3>2, <3>3, <3>4, BudgetMoves
    <2>5. CASE reply' = [reply EXCEPT ![t] = "1"] /\ UNCHANGED failedCount
        <3>1. Winners' = Winners \union {t} /\ t \notin Winners
            BY <1>1, <2>1, <2>5, WinnersMove
        <3>2. Served' = Served \union {t} /\ t \notin Served
            BY <2>1, <3>1 DEF Served, ProcessSale
        <3>3. Cardinality(Served') = Cardinality(Served) + 1
            BY <3>2, ServedFinite, FS_AddElement
        <3>4. PICK b \in Nat : Cardinality(Booking') = b /\ b = Cardinality(Booking) - 1
            BY <1>2, <2>2
        <3>5. PICK s \in Nat : Cardinality(Served') = s /\ s = Cardinality(Served) + 1
            BY <1>2, <3>3
        <3>6. s + total_count + failedCount + b
                 <= Cardinality(Served) + total_count + failedCount + Cardinality(Booking)
            BY <1>1, <1>2, <2>3, <3>4, <3>5
        <3> QED
            BY <1>1, <2>1, <2>3, <2>5, <3>4, <3>5, <3>6, BudgetMoves
    <2> QED
        BY <2>1, <2>4, <2>5
<1>9. ASSUME NEW t \in Threads, Receive(t)
      PROVE  BudgetInv'
    <2>1. /\ cpc[t] # "booking" /\ cpc' = [cpc EXCEPT ![t] = "lock"]
          /\ \/ UNCHANGED reply
             \/ cpc[t] = "sent" /\ reply' = [reply EXCEPT ![t] = "RPC failed"]
          /\ UNCHANGED <<pc, total_count, failedCount, before>>
        BY <1>9 DEF Receive, Move, processVars, redisVars, historyVars
    <2>2. Booking' = Booking
        BY <1>1, <2>1 DEF Booking, ClientTypeOK
    <2>3. Served' = Served
        BY <1>1, <2>1, WinnersMove DEF Served, Winners, Unanswered
    <2> QED
        BY <1>3, <2>1, <2>2, <2>3
<1>10. ASSUME NEW t \in Threads, ClientStep(t)
      PROVE  BudgetInv'
    <2>1. UNCHANGED <<pc, total_count, failedCount, before>> /\ onSeckill(t)
        BY <1>10 DEF ClientStep, processVars, redisVars, historyVars
    <2>2. UNCHANGED reply /\ Booking' = Booking
        BY <1>1, <2>1, ClientFrame DEF Booking, Calling, Held
    <2> QED
        BY <1>3, <2>1, <2>2 DEF Served, Winners
<1>11. CASE UNCHANGED vars
    BY <1>3, <1>11 DEF vars, processVars, redisVars, clientVars, historyVars, Served, Winners, Booking
<1> QED
    BY <1>4, <1>5, <1>6, <1>7, <1>8, <1>9, <1>10, <1>11
    DEF Next, Crash, Proceed, Handle, NilCrash, Finished

\* What a process has sold, reserved, to return and on sale never exceeds Goods.
THEOREM BudgetInvariant == Spec => []BudgetInv
<1>1. DeploymentInit => BudgetInv
    BY DEF DeploymentInit, Init, BudgetInv
<1>2. BaseInv /\ ReplyInv /\ ProcessSale /\ BudgetInv /\ [Next]_vars => BudgetInv'
    BY BudgetStep
<1> QED
    BY <1>1, <1>2, BaseInvariant, ReplyInvariant, ProcessSaleInvariant, PTL DEF Spec

\* However often the server ends and is started again, whichever statements of its
\* preparations fail and whichever COMMITs are lost, each process tells at most
\* Goods clients "1".
THEOREM OversellBounded == Spec => []SoldPerStart
<1>1. BaseInv /\ ProcessSale /\ BudgetInv => SoldPerStart
    <2> SUFFICES ASSUME BaseInv, ProcessSale, BudgetInv PROVE Cardinality(Served) <= Goods
        BY DEF SoldPerStart
    <2>1. /\ Goods \in Nat /\ failedCount \in Nat /\ total_count \in Nat \union {Nil}
          /\ Cardinality(Served) \in Nat /\ Cardinality(Booking) \in Nat
        BY StoresAssumption, ServedFinite, BookingIsNat DEF BaseInv, TypeOK, PrepareTypeOK
    <2>2. CASE Served = {}
        BY <2>1, <2>2, FS_EmptySet
    <2>3. CASE pc = "Run" /\ total_count # Nil
        BY <2>1, <2>3 DEF BudgetInv
    <2> QED
        BY <2>2, <2>3 DEF BudgetInv, ProcessSale, Served
<1> QED
    BY <1>1, BaseInvariant, ProcessSaleInvariant, BudgetInvariant, PTL

-----------------------------------------------------------------------------
(***************************************************************************)
(* A process that serves is the abstract sale.                             *)
(***************************************************************************)
\* A step that changes neither stock nor orders, names nor replies.
LEMMA SaleStutters ==
    ASSUME UNCHANGED <<g_totalcount, order_info, name, reply>>
    PROVE  UNCHANGED TheSale!saleVars
BY DEF TheSale!saleVars

\* An answer "0" that leaves no trace is a refusal of the sale.
LEMMA SaleRefuses ==
    ASSUME ClientTypeOK, NEW t \in Threads, reply[t] = "none", reply' = [reply EXCEPT ![t] = "0"],
           UNCHANGED <<g_totalcount, order_info, name>>
    PROVE  TheSale!Refuse(t)
<1> DEFINE answer == [u \in Threads |-> IF reply[u] = "RPC failed" THEN "0" ELSE reply[u]]
<1>1. answer[t] = "none" /\ answer' = [answer EXCEPT ![t] = "0"]
    BY DEF ClientTypeOK
<1> HIDE DEF answer
<1>2. TheSale!Refuse(t) <=>
          /\ answer[t] = "none" /\ answer' = [answer EXCEPT ![t] = "0"]
          /\ UNCHANGED <<[u \in Threads |-> [usrname |-> name[u], usrkey |-> Nil]],
                         IF g_totalcount = Nil THEN 0 ELSE g_totalcount,
                         IF order_info = Nil THEN {} ELSE order_info>>
    BY DEF TheSale!Refuse, answer
<1> QED
    BY <1>1, <1>2

\* An order, its item and its answer are a purchase of the sale; an answer whose
\* COMMIT is lost is what the sale calls a loss.
LEMMA SaleSells ==
    ASSUME BaseInv, NEW t \in Threads, reply[t] = "none", reply' = [reply EXCEPT ![t] = "1"],
           name[t] \in Names, UNCHANGED name,
           g_totalcount \notin {Nil, 0}, order_info # Nil, name[t] \notin order_info,
           \/ g_totalcount' = g_totalcount - 1 /\ order_info' = order_info \union {name[t]}
           \/ "commit_drop" \in Faults /\ UNCHANGED <<g_totalcount, order_info>>
    PROVE  TheSale!Buy(t) \/ TheSale!Lose(t)
<1>1. ClientTypeOK /\ g_totalcount \in 0..Goods /\ g_totalcount > 0 /\ g_totalcount - 1 # Nil
    BY StoresAssumption DEF BaseInv, TypeOK, PrepareTypeOK
<1>2. TheSale!MayBuy(t)
    BY <1>1 DEF ClientTypeOK, TheSale!MayBuy
<1>3. CASE g_totalcount' = g_totalcount - 1 /\ order_info' = order_info \union {name[t]}
    <2>1. order_info' # Nil
        BY <1>3, StoresAssumption DEF BaseInv, TypeOK, PrepareTypeOK, Names
    <2> QED
        BY <1>1, <1>2, <1>3, <2>1 DEF ClientTypeOK, TheSale!Buy
<1>4. CASE "commit_drop" \in Faults /\ UNCHANGED <<g_totalcount, order_info>>
    BY <1>1, <1>2, <1>4 DEF ClientTypeOK, TheSale!Lose
<1> QED
    BY <1>3, <1>4

\* Between two ends of the process only Book changes what the sale sees, apart from
\* refusals.
LEMMA SaleStep ==
    ASSUME BaseInv, ReplyInv, [Next]_vars, pc = "Run", pc' = "Run"
    PROVE  [TheSale!SaleNext]_(TheSale!saleVars)
<1>1. ClientTypeOK
    BY DEF BaseInv, TypeOK
<1>2. ASSUME NEW t \in Threads, cpc[t] \in Unanswered, reply' = [reply EXCEPT ![t] = "0"],
             UNCHANGED <<g_totalcount, order_info, name>>
      PROVE  TheSale!SaleNext
    <2>1. TheSale!Refuse(t)
        BY <1>1, <1>2, SaleRefuses DEF ReplyInv
    <2> QED
        BY <2>1 DEF TheSale!SaleNext
<1>3. ASSUME NEW t \in Threads, Handle(t), ~Reserve(t), ~Book(t)
      PROVE  TheSale!SaleNext \/ UNCHANGED TheSale!saleVars
    <2>1. /\ UNCHANGED reply \/ reply' = [reply EXCEPT ![t] = "0"]
          /\ cpc[t] \in Unanswered /\ UNCHANGED <<g_totalcount, order_info, name>>
        BY <1>3, HandleFrame, HandleQuiet DEF Unanswered
    <2> QED
        BY <1>2, <2>1, SaleStutters
<1>4. ASSUME NEW t \in Threads, Reserve(t)
      PROVE  UNCHANGED TheSale!saleVars
    BY <1>4, SaleStutters DEF Reserve, Serving
<1>5. ASSUME NEW t \in Threads, Book(t)
      PROVE  TheSale!SaleNext
    <2>1. cpc[t] = "booking" /\ cpc[t] \in Unanswered /\ UNCHANGED name
        BY <1>5, HandleFrame, BookOutcomes DEF Handle, Unanswered
    <2>2. CASE reply' = [reply EXCEPT ![t] = "0"] /\ UNCHANGED <<g_totalcount, order_info>>
        BY <1>2, <2>1, <2>2
    <2>3. CASE /\ reply' = [reply EXCEPT ![t] = "1"]
               /\ g_totalcount \notin {Nil, 0} /\ order_info # Nil /\ name[t] \notin order_info
               /\ \/ /\ g_totalcount' = g_totalcount - 1
                     /\ order_info' = order_info \union {name[t]}
                  \/ "commit_drop" \in Faults /\ UNCHANGED <<g_totalcount, order_info>>
        <3>1. reply[t] = "none" /\ name[t] \in Names
            BY <2>1 DEF ReplyInv, BaseInv, NamesInv
        <3>2. TheSale!Buy(t) \/ TheSale!Lose(t)
            BY <2>1, <2>3, <3>1, SaleSells
        <3> QED
            BY <3>2 DEF TheSale!SaleNext
    <2> QED
        BY <1>5, <2>2, <2>3, BookOutcomes
<1>6. ASSUME NEW t \in Threads, Receive(t)
      PROVE  UNCHANGED TheSale!saleVars
    BY <1>6, SaleStutters DEF Receive, mysqlVars
<1>7. ASSUME NEW t \in Threads, ClientStep(t)
      PROVE  UNCHANGED TheSale!saleVars
    BY <1>1, <1>7, ClientFrame, SaleStutters DEF ClientStep, mysqlVars
<1>8. ~Server /\ ~End
    BY DEF Server, End, prepareForSeckill, Restart, CreateGoods, ResetStock, DropOrders, FindUsers,
           CreateUsers, InsertUsers, SelectUsers, LoadUser, SelectStock, CreateOrders, SetTotal,
           DelOrders
<1>9. CASE UNCHANGED vars
    BY <1>9, SaleStutters DEF vars, mysqlVars, clientVars
<1> QED
    BY <1>3, <1>4, <1>5, <1>6, <1>7, <1>8, <1>9
    DEF Next, Crash, Proceed, Handle, NilCrash, Finished

\* From the moment a process serves until it ends, whatever its preparation has left
\* in the stores, the deployed handler implements the steps of the abstract sale.
THEOREM ServesSale == Spec => ServesTheSale
<1>1. BaseInv /\ ReplyInv /\ [Next]_vars =>
          [pc = "Run" /\ pc' = "Run" => [TheSale!SaleNext]_(TheSale!saleVars)]_vars
    BY SaleStep
<1> QED
    BY <1>1, BaseInvariant, ReplyInvariant, PTL DEF Spec, ServesTheSale
=============================================================================
