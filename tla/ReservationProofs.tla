-------------------------- MODULE ReservationProofs --------------------------
(***************************************************************************)
(* Proofs about the Redis half of Seckill (seckillGoods): the watches, the *)
(* items reserved and returned, and who buys the first one.                *)
(***************************************************************************)
EXTENDS SeckillProofs

-----------------------------------------------------------------------------
(***************************************************************************)
(* No watch is left on a connection that goes back to the pool.            *)
(***************************************************************************)
\* A healthy connection watches total_count only from WATCH to UNWATCH or EXEC.
Watching == {"GET", "MULTI", "EXEC", "retry", "soldOut"}

WatchInv ==
    \A w \in Workers :
        /\ pc[w] = "new" => watch[w] = "none"
        /\ conn[w] = "ok" /\ pc[w] \notin Watching => watch[w] = "none"

\* Every step keeps WatchInv: a command either reaches Redis or breaks the context.
LEMMA WatchStep ==
    ASSUME TypeOK, WatchInv, NEW w \in Workers, Step(w)
    PROVE  WatchInv'
<1> USE DEF At, Goto, Answer, WatchInv, Watching, Replies, Refused, redisVars
<1>0. DOMAIN pc = Workers /\ DOMAIN conn = Workers /\ DOMAIN watch = Workers
    BY DEF TypeOK
<1>1. CASE Start(w) \/ StartCrash(w) \/ MysqlCrash(w)
    BY <1>0, <1>1 DEF Start, StartCrash, MysqlCrash
<1>2. CASE checkUserInfo(w) \/ checkUserInfo_mysql(w)
    BY <1>0, <1>2 DEF checkUserInfo, checkUserInfo_mysql
<1>3. CASE checkUserHasGot(w) \/ checkUserHasGot_mysql(w)
    BY <1>0, <1>3 DEF checkUserHasGot, checkUserHasGot_mysql
<1>4. CASE WatchTotal(w) \/ GetTotal(w) \/ Multi(w)
    BY <1>0, <1>4 DEF WatchTotal, WATCH, GetTotal, Multi
<1>5. CASE ExecOk(w)
    <2>1. /\ pc[w] = "EXEC" /\ \E l \in {"SELECT", "retry"} : pc' = [pc EXCEPT ![w] = l]
          /\ conn' \in {conn, [conn EXCEPT ![w] = "broken"]}
          /\ TouchTotal(w, "none")
        BY <1>5 DEF ExecOk, HasReplies, ReplyLost
    <2> QED
        BY <1>0, <2>1 DEF TouchTotal
<1>6. CASE ExecAbort(w) \/ Retry(w) \/ SoldOut(w)
    BY <1>0, <1>6 DEF ExecAbort, Retry, SoldOut, UNWATCH
<1>7. CASE SetTotal(w)
    <2>1. /\ pc[w] = "SET" /\ \E l \in {"setReply", "setFailed"} : pc' = [pc EXCEPT ![w] = l]
          /\ conn' \in {conn, [conn EXCEPT ![w] = "broken"]}
          /\ TouchTotal(w, watch[w]) \/ UNCHANGED watch
        BY <1>7 DEF SetTotal, ReplyLost
    <2> QED
        BY <1>0, <2>1 DEF TouchTotal
<1>8. CASE ReleaseFailed(w)
    BY <1>0, <1>8 DEF ReleaseFailed
<1>9. CASE Select(w) \/ SelectFails(w) \/ Update(w) \/ Insert(w)
    BY <1>0, <1>9 DEF Select, SelectFails, Update, Insert
<1>10. CASE Rollback(w) \/ Record(w) \/ Commit(w) \/ IncRead(w) \/ IncWrite(w)
    BY <1>0, <1>10 DEF Rollback, Record, Commit, IncRead, IncWrite
<1> QED
    BY <1>1, <1>2, <1>3, <1>4, <1>5, <1>6, <1>7, <1>8, <1>9, <1>10
    DEF Step, Checks, seckillGoods, seckillGoods_mysql

\* A healthy context watches total_count only between WATCH and UNWATCH or EXEC.
THEOREM WatchInvariant == Spec => []WatchInv
<1>1. Init => WatchInv
    BY DEF Init, WatchInv
<1>2. TypeOK /\ WatchInv /\ [Next]_vars => WatchInv'
    <2> SUFFICES ASSUME TypeOK, WatchInv, [Next]_vars PROVE WatchInv'
        OBVIOUS
    <2>1. CASE \E w \in Workers : Step(w)
        BY <2>1, WatchStep
    <2>2. CASE UNCHANGED vars
        BY <2>2 DEF vars, redisVars, WatchInv
    <2> QED
        BY <2>1, <2>2 DEF Next, Finished
<1> QED
    BY <1>1, <1>2, TypeCorrect, PTL DEF Spec

\* Whatever fails, a healthy context goes back to RedisPool without a WATCH that
\* would spoil the EXEC of its next user: every path through seckillGoods ends
\* with UNWATCH or EXEC, or with a broken context.
THEOREM WatchesEnd == Spec => []NoWatchLeak
<1>1. WatchInv => NoWatchLeak
    BY DEF WatchInv, Watching, NoWatchLeak
<1> QED
    BY <1>1, WatchInvariant, PTL

-----------------------------------------------------------------------------
(***************************************************************************)
(* The orders are marked in Redis.  A worker without a Redis context skips *)
(* Redis altogether; with the bundled hiredis it kills the process.        *)
(***************************************************************************)
NoFallback == ~("redis_down" \in Faults /\ RedisNullSafe)

HasContext == alive => \A w \in Workers : conn[w] # "null"

Booked == {"SELECT", "UPDATE", "INSERT", "end"}

MarkInv ==
    /\ HasContext
    /\ OrdersAreMarked
    /\ \A w \in Workers : pc[w] \in Booked => usr_name(w) \in redis_orders

\* A connection becomes NULL only in the step that ends the process.
LEMMA ContextStep ==
    ASSUME NoFallback, TypeOK, HasContext, NEW w \in Workers, Step(w)
    PROVE  alive /\ HasContext'
<1> USE DEF At, Goto, Answer, HasContext, Replies, Refused, redisVars
<1>0. DOMAIN conn = Workers
    BY DEF TypeOK
<1>1. CASE Start(w) \/ StartCrash(w) \/ MysqlCrash(w)
    BY <1>0, <1>1 DEF Start, StartCrash, MysqlCrash, NoFallback
<1>2. CASE checkUserInfo(w) \/ checkUserInfo_mysql(w)
    BY <1>0, <1>2 DEF checkUserInfo, checkUserInfo_mysql
<1>3. CASE checkUserHasGot(w) \/ checkUserHasGot_mysql(w)
    BY <1>0, <1>3 DEF checkUserHasGot, checkUserHasGot_mysql
<1>4. CASE seckillGoods(w)
    BY <1>0, <1>4 DEF seckillGoods, WatchTotal, GetTotal, Multi, ExecOk, HasReplies, ReplyLost,
                      ExecAbort, Retry, SoldOut, SetTotal, ReleaseFailed
<1>5. CASE Select(w) \/ SelectFails(w) \/ Update(w) \/ Insert(w)
    BY <1>0, <1>5 DEF Select, SelectFails, Update, Insert
<1>6. CASE Rollback(w) \/ Record(w) \/ Commit(w) \/ IncRead(w) \/ IncWrite(w)
    BY <1>0, <1>6 DEF Rollback, Record, Commit, IncRead, IncWrite
<1> QED
    BY <1>1, <1>2, <1>3, <1>4, <1>5, <1>6 DEF Step, Checks, seckillGoods_mysql

\* A worker books only after its EXEC.
LEMMA BookedStep ==
    ASSUME NoFallback, TypeOK, HasContext, NEW w \in Workers, Step(w)
    PROVE  /\ redis_orders \subseteq redis_orders'
           /\ pc'[w] \in Booked => pc[w] \in Booked \/ (ExecOk(w) /\ usr_name(w) \in redis_orders')
           /\ \A v \in Workers \ {w} : pc'[v] = pc[v]
           /\ request' = request
<1> USE DEF At, Goto, Answer, Booked, redisVars
<1>0. DOMAIN pc = Workers
    BY DEF TypeOK
<1>1. CASE Start(w) \/ StartCrash(w) \/ MysqlCrash(w)
    BY <1>0, <1>1 DEF Start, StartCrash, MysqlCrash
<1>2. CASE checkUserInfo(w) \/ checkUserInfo_mysql(w)
    BY <1>0, <1>2 DEF checkUserInfo, checkUserInfo_mysql
<1>3. CASE checkUserHasGot(w) \/ checkUserHasGot_mysql(w)
    BY <1>0, <1>3 DEF checkUserHasGot, checkUserHasGot_mysql, HasContext
<1>4. CASE WatchTotal(w) \/ GetTotal(w) \/ Multi(w)
    BY <1>0, <1>4 DEF WatchTotal, GetTotal, Multi
<1>5. CASE ExecOk(w)
    BY <1>0, <1>5 DEF ExecOk, HasReplies, Mark
<1>6. CASE ExecAbort(w) \/ Retry(w)
    BY <1>0, <1>6 DEF ExecAbort, Retry
<1>7. CASE SoldOut(w) \/ SetTotal(w) \/ ReleaseFailed(w)
    BY <1>0, <1>7 DEF SoldOut, SetTotal, ReleaseFailed
<1>8. CASE Select(w) \/ SelectFails(w) \/ Update(w) \/ Insert(w)
    BY <1>0, <1>8 DEF Select, SelectFails, Update, Insert
<1>9. CASE Rollback(w) \/ Record(w) \/ Commit(w) \/ IncRead(w) \/ IncWrite(w)
    BY <1>0, <1>9 DEF Rollback, Record, Commit, IncRead, IncWrite
<1> QED
    BY <1>1, <1>2, <1>3, <1>4, <1>5, <1>6, <1>7, <1>8, <1>9
    DEF Step, Checks, seckillGoods, seckillGoods_mysql

\* EXEC marks the user before seckillGoods_mysql can book the order.
LEMMA MarkStep ==
    ASSUME NoFallback, SafeInv, MarkInv, NEW w \in Workers, Step(w)
    PROVE  MarkInv'
<1>1. /\ redis_orders \subseteq redis_orders' /\ request' = request
      /\ pc'[w] \in Booked => pc[w] \in Booked \/ (ExecOk(w) /\ usr_name(w) \in redis_orders')
      /\ \A v \in Workers \ {w} : pc'[v] = pc[v]
    BY BookedStep DEF SafeInv, MarkInv
<1>2. HasContext'
    BY ContextStep DEF SafeInv, MarkInv
<1>3. \/ order_info' = order_info
      \/ Commit(w) /\ order_info' = order_info \union {usr_name(w)}
    BY TablesChange DEF SafeInv
<1>4. OrdersAreMarked'
    BY <1>1, <1>3 DEF MarkInv, OrdersAreMarked, Commit, At, Booked
<1>5. \A v \in Workers : pc'[v] \in Booked => usr_name(v)' \in redis_orders'
    BY <1>1 DEF MarkInv, usr_name
<1> QED
    BY <1>2, <1>4, <1>5 DEF MarkInv

\* Whoever is booking has been marked in Redis.
THEOREM MarkInvariant ==
    ASSUME NoFallback
    PROVE  Spec => []MarkInv
<1>1. Init => MarkInv
    BY DEF Init, MarkInv, HasContext, OrdersAreMarked, Booked
<1>2. SafeInv /\ MarkInv /\ [Next]_vars => MarkInv'
    <2> SUFFICES ASSUME SafeInv, MarkInv, [Next]_vars PROVE MarkInv'
        OBVIOUS
    <2>1. CASE \E w \in Workers : Step(w)
        BY <2>1, MarkStep
    <2>2. CASE UNCHANGED vars
        BY <2>2 DEF vars, redisVars, mysqlVars, MarkInv, HasContext, OrdersAreMarked, usr_name
    <2> QED
        BY <2>1, <2>2 DEF Next, Finished
<1> QED
    BY <1>1, <1>2, Safe, PTL DEF Spec

\* Unless requests are served without Redis, the duplicate check of checkUserHasGot
\* knows every order in MySQL, whatever else fails.
THEOREM OrdersMarked ==
    ASSUME NoFallback
    PROVE  Spec => []OrdersAreMarked
<1>1. MarkInv => OrdersAreMarked
    BY DEF MarkInv
<1> QED
    BY <1>1, MarkInvariant, PTL

-----------------------------------------------------------------------------
(***************************************************************************)
(* The reservations.  A command that Redis executes without its reply      *)
(* arriving is excluded: SET total_count would then leave failedCount as   *)
(* it is, and its items would be offered twice.                            *)
(***************************************************************************)
\* Who holds the write lock is handing items back.
Returning == {"SET", "setReply", "setFailed"}

RwlockInv == \A w \in Workers : rwlock = w <=> pc[w] \in Returning

\* An undisturbed watch means that the GET is still up to date.
CleanInv ==
    \A w \in Workers :
        /\ pc[w] \in {"GET", "MULTI", "EXEC"} /\ conn[w] = "ok" => watch[w] # "none"
        /\ pc[w] \in {"MULTI", "EXEC"} /\ watch[w] = "clean" => total_count > 0

\* The rwlock is taken and released with the return of items.
LEMMA RwlockStep ==
    ASSUME TypeOK, RwlockInv, NEW w \in Workers, Step(w)
    PROVE  RwlockInv'
<1> USE DEF At, Goto, Answer, RwlockInv, Returning, sharedVars
<1>0. DOMAIN pc = Workers /\ None \notin Workers
    BY WorkersAssumption DEF TypeOK
<1>1. CASE Start(w) \/ StartCrash(w) \/ MysqlCrash(w)
    BY <1>0, <1>1 DEF Start, StartCrash, MysqlCrash
<1>2. CASE checkUserInfo(w) \/ checkUserInfo_mysql(w)
    BY <1>0, <1>2 DEF checkUserInfo, checkUserInfo_mysql
<1>3. CASE checkUserHasGot(w) \/ checkUserHasGot_mysql(w)
    BY <1>0, <1>3 DEF checkUserHasGot, checkUserHasGot_mysql
<1>4. CASE WatchTotal(w) \/ GetTotal(w) \/ Multi(w)
    BY <1>0, <1>4 DEF WatchTotal, GetTotal, Multi
<1>5. CASE ExecOk(w) \/ ExecAbort(w) \/ Retry(w)
    BY <1>0, <1>5 DEF ExecOk, HasReplies, ExecAbort, Retry
<1>6. CASE SoldOut(w) \/ SetTotal(w)
    BY <1>0, <1>6 DEF SoldOut, SetTotal
<1>7. CASE ReleaseFailed(w)
    BY <1>0, <1>7 DEF ReleaseFailed, Unlock
<1>8. CASE Select(w) \/ SelectFails(w) \/ Update(w) \/ Insert(w)
    BY <1>0, <1>8 DEF Select, SelectFails, Update, Insert
<1>9. CASE Rollback(w) \/ Record(w) \/ Commit(w) \/ IncRead(w) \/ IncWrite(w)
    BY <1>0, <1>9 DEF Rollback, Record, Commit, IncRead, IncWrite
<1> QED
    BY <1>1, <1>2, <1>3, <1>4, <1>5, <1>6, <1>7, <1>8, <1>9
    DEF Step, Checks, seckillGoods, seckillGoods_mysql

\* Whoever writes total_count spoils the watches of all others.
LEMMA CleanStep ==
    ASSUME TypeOK, WatchInv, CleanInv, NEW w \in Workers, Step(w)
    PROVE  CleanInv'
<1> USE DEF At, Goto, Answer, CleanInv, Replies, Refused, redisVars
<1>0. DOMAIN pc = Workers /\ DOMAIN conn = Workers /\ DOMAIN watch = Workers
    BY DEF TypeOK
<1>1. CASE Start(w) \/ StartCrash(w) \/ MysqlCrash(w)
    BY <1>0, <1>1 DEF Start, StartCrash, MysqlCrash
<1>2. CASE checkUserInfo(w) \/ checkUserInfo_mysql(w)
    BY <1>0, <1>2 DEF checkUserInfo, checkUserInfo_mysql
<1>3. CASE checkUserHasGot(w) \/ checkUserHasGot_mysql(w)
    BY <1>0, <1>3 DEF checkUserHasGot, checkUserHasGot_mysql
<1>4. CASE WatchTotal(w)
    BY <1>0, <1>4 DEF WatchTotal, WATCH
<1>5. CASE GetTotal(w) \/ Multi(w)
    BY <1>0, <1>5 DEF GetTotal, OnSale, Multi
<1>6. CASE ExecOk(w)
    <2>1. /\ \E l \in {"SELECT", "retry"} : pc' = [pc EXCEPT ![w] = l]
          /\ conn' \in {conn, [conn EXCEPT ![w] = "broken"]}
          /\ TouchTotal(w, "none")
        BY <1>6 DEF ExecOk, HasReplies, ReplyLost
    <2> QED
        BY <1>0, <2>1 DEF TouchTotal
<1>7. CASE ExecAbort(w) \/ Retry(w) \/ SoldOut(w)
    BY <1>0, <1>7 DEF ExecAbort, Retry, SoldOut, UNWATCH
<1>8. CASE SetTotal(w)
    <2>1. /\ \E l \in {"setReply", "setFailed"} : pc' = [pc EXCEPT ![w] = l]
          /\ conn' \in {conn, [conn EXCEPT ![w] = "broken"]}
          /\ TouchTotal(w, watch[w]) \/ UNCHANGED <<watch, total_count>>
        BY <1>8 DEF SetTotal, ReplyLost
    <2> QED
        BY <1>0, <2>1 DEF TouchTotal
<1>9. CASE ReleaseFailed(w)
    BY <1>0, <1>9 DEF ReleaseFailed
<1>10. CASE Select(w) \/ SelectFails(w) \/ Update(w) \/ Insert(w)
    BY <1>0, <1>10 DEF Select, SelectFails, Update, Insert
<1>11. CASE Rollback(w) \/ Record(w) \/ Commit(w) \/ IncRead(w) \/ IncWrite(w)
    BY <1>0, <1>11 DEF Rollback, Record, Commit, IncRead, IncWrite
<1> QED
    BY <1>1, <1>2, <1>3, <1>4, <1>5, <1>6, <1>7, <1>8, <1>9, <1>10, <1>11
    DEF Step, Checks, seckillGoods, seckillGoods_mysql

Flying == Booked \union {"record"}

\* How a step changes the number of workers that hold an item.
LEMMA FlightMoves ==
    ASSUME TypeOK, NEW w \in Workers, NEW l, Goto(w, l)
    PROVE  /\ Cardinality(InFlight) \in Nat
           /\ (pc[w] \in Flying <=> l \in Flying) => InFlight' = InFlight
           /\ pc[w] \notin Flying /\ l \in Flying =>
                 Cardinality(InFlight') = Cardinality(InFlight) + 1
           /\ pc[w] \in Flying /\ l \notin Flying =>
                 Cardinality(InFlight') = Cardinality(InFlight) - 1
<1>1. /\ DOMAIN pc = Workers /\ pc' = [pc EXCEPT ![w] = l]
      /\ IsFiniteSet(InFlight)
    BY WorkersAssumption, FS_Subset DEF TypeOK, Goto, InFlight
<1>2. Cardinality(InFlight) \in Nat
    BY <1>1, FS_CardinalityType
<1>3. (pc[w] \in Flying <=> l \in Flying) => InFlight' = InFlight
    BY <1>1 DEF InFlight, Flying, Booked
<1>4. pc[w] \notin Flying /\ l \in Flying =>
          InFlight' = InFlight \union {w} /\ w \notin InFlight
    BY <1>1 DEF InFlight, Flying, Booked
<1>5. pc[w] \in Flying /\ l \notin Flying => InFlight' = InFlight \ {w} /\ w \in InFlight
    BY <1>1 DEF InFlight, Flying, Booked
<1> QED
    BY <1>1, <1>2, <1>3, <1>4, <1>5, FS_AddElement, FS_RemoveElement

\* failedCount counts unless somebody has just written it to Redis.
LEMMA RecordedIs ==
    /\ (\A v \in Workers : pc[v] # "setReply") => Recorded = failedCount
    /\ (\E v \in Workers : pc[v] = "setReply") => Recorded = 0
    BY DEF Recorded

\* The same after a step.
LEMMA RecordedIsPrime ==
    /\ (\A v \in Workers : pc'[v] # "setReply") => Recorded' = failedCount'
    /\ (\E v \in Workers : pc'[v] = "setReply") => Recorded' = 0
    BY DEF Recorded

\* A step that moves w away from, or past, the return of items.
LEMMA RecordedStays ==
    ASSUME TypeOK, NEW w \in Workers, NEW l, Goto(w, l),
           pc[w] # "setReply", l # "setReply", UNCHANGED failedCount
    PROVE  Recorded' = Recorded
<1>1. \A v \in Workers : pc'[v] = "setReply" <=> pc[v] = "setReply"
    BY DEF TypeOK, Goto
<1> QED
    BY <1>1 DEF Recorded

\* A step of w that neither takes nor gives up an item.
Idle(w) ==
    \E l \in Labels :
        /\ Goto(w, l)
        /\ pc[w] \in Flying <=> l \in Flying
        /\ pc[w] # "setReply" /\ l # "setReply"
        /\ UNCHANGED <<total_count, g_totalcount, failedCount>>

\* A step of w that gives up its item without a trace.
Drops(w) ==
    \E l \in Labels :
        /\ Goto(w, l)
        /\ pc[w] \in Flying /\ l \notin Flying
        /\ pc[w] # "setReply" /\ l # "setReply"
        /\ UNCHANGED <<total_count, failedCount>>
        /\ g_totalcount' = g_totalcount \/ g_totalcount' = g_totalcount - 1

\* An idle step keeps the budget.
LEMMA IdleBudget ==
    ASSUME TypeOK, ReservationBudget, NEW w \in Workers, Idle(w)
    PROVE  ReservationBudget'
<1>1. PICK l \in Labels :
        /\ Goto(w, l)
        /\ pc[w] \in Flying <=> l \in Flying
        /\ pc[w] # "setReply" /\ l # "setReply"
        /\ UNCHANGED <<total_count, g_totalcount, failedCount>>
    BY DEF Idle
<1>2. InFlight' = InFlight
    BY <1>1, FlightMoves
<1>3. Recorded' = Recorded
    BY <1>1, RecordedStays
<1> QED
    BY <1>1, <1>2, <1>3 DEF ReservationBudget

\* Giving up an item keeps the budget, also if the item is sold.
LEMMA DropsBudget ==
    ASSUME TypeOK, ReservationBudget, NEW w \in Workers, Drops(w)
    PROVE  ReservationBudget'
<1>1. PICK l \in Labels :
        /\ Goto(w, l)
        /\ pc[w] \in Flying /\ l \notin Flying
        /\ pc[w] # "setReply" /\ l # "setReply"
        /\ UNCHANGED <<total_count, failedCount>>
        /\ g_totalcount' = g_totalcount \/ g_totalcount' = g_totalcount - 1
    BY DEF Drops
<1>2. Cardinality(InFlight) \in Nat /\ Cardinality(InFlight') = Cardinality(InFlight) - 1
    BY <1>1, FlightMoves
<1>3. Recorded' = Recorded
    BY <1>1, RecordedStays
<1>4. total_count \in Int /\ g_totalcount \in Int /\ Recorded \in Nat
    BY DEF TypeOK, Recorded
<1> QED
    BY <1>1, <1>2, <1>3, <1>4 DEF ReservationBudget

\* The steps that are idle.
LEMMA IdleSteps ==
    ASSUME NoFallback, TypeOK, HasContext, NEW w \in Workers,
           \/ Checks(w) /\ ~StartCrash(w)
           \/ WatchTotal(w) \/ GetTotal(w) \/ Multi(w) \/ ExecAbort(w) \/ Retry(w) \/ SoldOut(w)
           \/ Update(w) \/ Insert(w) \/ Rollback(w) \/ IncRead(w) \/ IncWrite(w)
    PROVE  Idle(w)
<1> USE DEF At, Answer, Idle, Flying, Booked, Labels, redisVars, mysqlVars, sharedVars
<1>1. CASE Start(w)
    BY <1>1 DEF Start
<1>2. CASE checkUserInfo(w) \/ checkUserInfo_mysql(w)
    BY <1>2 DEF checkUserInfo, checkUserInfo_mysql
<1>3. CASE checkUserHasGot(w) \/ checkUserHasGot_mysql(w)
    BY <1>3 DEF checkUserHasGot, checkUserHasGot_mysql, HasContext
<1>4. CASE WatchTotal(w) \/ GetTotal(w) \/ Multi(w)
    BY <1>4 DEF WatchTotal, GetTotal, Multi
<1>5. CASE ExecAbort(w) \/ Retry(w) \/ SoldOut(w)
    BY <1>5 DEF ExecAbort, Retry, SoldOut
<1>6. CASE Update(w) \/ Insert(w)
    BY <1>6 DEF Update, Insert
<1>7. CASE Rollback(w) \/ IncRead(w) \/ IncWrite(w)
    BY <1>7 DEF Rollback, mysql_rollback, RollbackTx, IncRead, IncWrite
<1> QED
    BY <1>1, <1>2, <1>3, <1>4, <1>5, <1>6, <1>7 DEF Checks

\* Every step keeps the budget: EXEC takes an item from the offer, Record notes one
\* for return, SET puts the noted ones back on offer.
LEMMA BudgetStep ==
    ASSUME NoFallback, "redis_lost" \notin Faults, SafeInv, HasContext, RwlockInv, CleanInv,
           ReservationBudget, NEW w \in Workers, Step(w)
    PROVE  ReservationBudget'
<1>1. TypeOK /\ DOMAIN pc = Workers
    BY DEF SafeInv, TypeOK
<1>2. total_count \in Int /\ g_totalcount \in Int /\ failedCount \in Nat /\ Recorded \in Nat
    BY <1>1 DEF TypeOK, Recorded
<1>3. CASE StartCrash(w) \/ MysqlCrash(w)
    <2>1. UNCHANGED <<pc, total_count, g_totalcount, failedCount>>
        BY <1>3 DEF StartCrash, MysqlCrash, redisVars, mysqlVars, sharedVars
    <2>2. InFlight' = InFlight /\ Recorded' = Recorded
        BY <2>1 DEF InFlight, Recorded
    <2> QED
        BY <2>1, <2>2 DEF ReservationBudget
<1>4. CASE \/ Checks(w) /\ ~StartCrash(w)
           \/ WatchTotal(w) \/ GetTotal(w) \/ Multi(w) \/ ExecAbort(w) \/ Retry(w) \/ SoldOut(w)
           \/ Update(w) \/ Insert(w) \/ Rollback(w) \/ IncRead(w) \/ IncWrite(w)
    BY <1>1, <1>4, IdleSteps, IdleBudget
<1>5. CASE ExecOk(w)
    <2>1. /\ Goto(w, "SELECT") /\ pc[w] = "EXEC" /\ conn[w] = "ok" /\ watch[w] # "dirty"
          /\ total_count' = total_count - 1 /\ UNCHANGED <<g_totalcount, failedCount>>
        BY <1>5 DEF ExecOk, HasReplies, Replies, ReplyLost, At, mysqlVars, sharedVars
    <2>2. total_count > 0
        BY <1>1, <2>1 DEF CleanInv, TypeOK
    <2>3. pc[w] \notin Flying /\ "SELECT" \in Flying
        BY <2>1 DEF Flying, Booked
    <2>4. Cardinality(InFlight) \in Nat /\ Cardinality(InFlight') = Cardinality(InFlight) + 1
        BY <1>1, <2>1, <2>3, FlightMoves
    <2>5. Recorded' = Recorded
        BY <1>1, <2>1, RecordedStays
    <2> QED
        BY <1>2, <2>1, <2>2, <2>4, <2>5 DEF ReservationBudget
<1>6. CASE SetTotal(w)
    <2>1. /\ pc[w] = "SET"
          /\ \/ Goto(w, "setReply") /\ total_count' = failedCount
             \/ Goto(w, "setFailed") /\ UNCHANGED total_count
          /\ UNCHANGED <<g_totalcount, failedCount>>
        BY <1>6 DEF SetTotal, ReplyLost, At, mysqlVars, sharedVars
    <2>2. CASE Goto(w, "setReply") /\ total_count' = failedCount
        <3>1. Recorded = failedCount
            <4>1. \A v \in Workers : pc[v] # "setReply"
                BY <2>1 DEF RwlockInv, Returning
            <4> QED
                BY <4>1, RecordedIs
        <3>2. Recorded' = 0
            <4>1. pc'[w] = "setReply"
                BY <1>1, <2>2 DEF Goto
            <4> QED
                BY <4>1, RecordedIsPrime
        <3>3. pc[w] \notin Flying /\ "setReply" \notin Flying
            BY <2>1 DEF Flying, Booked
        <3>4. Cardinality(InFlight) \in Nat /\ InFlight' = InFlight
            BY <1>1, <2>2, <3>3, FlightMoves
        <3> QED
            BY <1>2, <2>1, <2>2, <3>1, <3>2, <3>4 DEF ReservationBudget
    <2>3. CASE Goto(w, "setFailed") /\ UNCHANGED total_count
        <3>1. Idle(w)
            BY <2>1, <2>3 DEF Idle, Labels, Flying, Booked
        <3> QED
            BY <1>1, <3>1, IdleBudget
    <2> QED
        BY <2>1, <2>2, <2>3
<1>7. CASE ReleaseFailed(w)
    <2>1. /\ Goto(w, "done") /\ UNCHANGED <<total_count, g_totalcount>>
          /\ \/ pc[w] = "setReply" /\ failedCount' = 0
             \/ pc[w] \in {"SET", "setFailed"} /\ UNCHANGED failedCount
        BY <1>7 DEF ReleaseFailed, Answer, At, redisVars, mysqlVars
    <2>2. CASE pc[w] = "setReply" /\ failedCount' = 0
        <3>1. Recorded' = 0 /\ Recorded = 0
            BY <2>2, RecordedIs, RecordedIsPrime
        <3>2. pc[w] \notin Flying /\ "done" \notin Flying
            BY <2>2 DEF Flying, Booked
        <3>3. InFlight' = InFlight
            BY <1>1, <2>1, <3>2, FlightMoves
        <3> QED
            BY <2>1, <3>1, <3>3 DEF ReservationBudget
    <2>3. CASE pc[w] \in {"SET", "setFailed"} /\ UNCHANGED failedCount
        <3>1. Idle(w)
            BY <2>1, <2>3 DEF Idle, Labels, Flying, Booked
        <3> QED
            BY <1>1, <3>1, IdleBudget
    <2> QED
        BY <2>1, <2>2, <2>3
<1>8. CASE Select(w)
    <2>1. Idle(w) \/ Drops(w)
        BY <1>8 DEF Select, At, Answer, Idle, Drops, Labels, Flying, Booked, redisVars, sharedVars
    <2> QED
        BY <1>1, <2>1, IdleBudget, DropsBudget
<1>9. CASE SelectFails(w)
    <2>1. Drops(w)
        BY <1>9 DEF SelectFails, At, Answer, Drops, Labels, Flying, Booked, redisVars, sharedVars
    <2> QED
        BY <1>1, <2>1, DropsBudget
<1>10. CASE Record(w)
    <2>1. /\ Goto(w, "done") /\ pc[w] = "record" /\ rwlock = None
          /\ failedCount' = failedCount + 1 /\ UNCHANGED <<total_count, g_totalcount>>
        BY <1>10 DEF Record, CountFailure, Answer, At, redisVars, mysqlVars
    <2>2. \A v \in Workers : pc[v] # "setReply" /\ pc'[v] # "setReply"
        BY <1>1, <2>1, WorkersAssumption DEF RwlockInv, Returning, Goto
    <2>3. Recorded = failedCount /\ Recorded' = failedCount'
        BY <2>2, RecordedIs, RecordedIsPrime
    <2>4. pc[w] \in Flying /\ "done" \notin Flying
        BY <2>1 DEF Flying, Booked
    <2>5. Cardinality(InFlight) \in Nat /\ Cardinality(InFlight') = Cardinality(InFlight) - 1
        BY <1>1, <2>1, <2>4, FlightMoves
    <2> QED
        BY <1>2, <2>1, <2>3, <2>5 DEF ReservationBudget
<1>11. CASE Commit(w)
    <2>1. g_totalcount' = g_totalcount \/ g_totalcount' = g_totalcount - 1
        BY TablesChange DEF SafeInv
    <2>2. Goto(w, "incRead") /\ pc[w] = "end" /\ UNCHANGED <<total_count, failedCount>>
        BY <1>11 DEF Commit, At, redisVars, sharedVars
    <2>3. Drops(w)
        BY <2>1, <2>2 DEF Drops, Labels, Flying, Booked
    <2> QED
        BY <1>1, <2>3, DropsBudget
<1> QED
    BY <1>3, <1>4, <1>5, <1>6, <1>7, <1>8, <1>9, <1>10, <1>11
    DEF Step, seckillGoods, seckillGoods_mysql

BudgetInv == RwlockInv /\ CleanInv /\ ReservationBudget

\* The rwlock, the watches and the budget, together inductive.
THEOREM BudgetInvariant ==
    ASSUME NoFallback, "redis_lost" \notin Faults
    PROVE  Spec => []BudgetInv
<1>1. Init => BudgetInv
    <2> SUFFICES ASSUME Init PROVE BudgetInv
        OBVIOUS
    <2>1. RwlockInv /\ CleanInv
        BY WorkersAssumption DEF Init, RwlockInv, Returning, CleanInv
    <2>2. InFlight = {} /\ Recorded = 0
        BY DEF Init, InFlight, Recorded
    <2>3. Cardinality(InFlight) = 0
        BY <2>2, FS_EmptySet
    <2>4. total_count = Goods /\ g_totalcount = Goods /\ Goods \in Nat
        BY CountAssumption DEF Init
    <2> QED
        BY <2>1, <2>2, <2>3, <2>4 DEF BudgetInv, ReservationBudget
<1>2. SafeInv /\ WatchInv /\ MarkInv /\ BudgetInv /\ [Next]_vars => BudgetInv'
    <2> SUFFICES ASSUME SafeInv, WatchInv, MarkInv, BudgetInv, [Next]_vars PROVE BudgetInv'
        OBVIOUS
    <2>1. TypeOK /\ HasContext /\ RwlockInv /\ CleanInv /\ ReservationBudget
        BY DEF SafeInv, MarkInv, BudgetInv
    <2>2. ASSUME NEW w \in Workers, Step(w)
          PROVE  BudgetInv'
        BY <2>1, <2>2, RwlockStep, CleanStep, BudgetStep DEF BudgetInv
    <2>3. CASE UNCHANGED vars
        <3>1. RwlockInv' /\ CleanInv'
            BY <2>1, <2>3 DEF vars, redisVars, sharedVars, RwlockInv, CleanInv
        <3>2. /\ UNCHANGED <<total_count, g_totalcount>>
              /\ InFlight' = InFlight /\ Recorded' = Recorded
            BY <2>3 DEF vars, redisVars, mysqlVars, sharedVars, InFlight, Recorded
        <3>3. ReservationBudget'
            BY <2>1, <3>2 DEF ReservationBudget
        <3> QED
            BY <3>1, <3>3 DEF BudgetInv
    <2> QED
        BY <2>2, <2>3 DEF Next, Finished
<1> QED
    BY <1>1, <1>2, Safe, WatchInvariant, MarkInvariant, PTL DEF Spec

\* The items on offer in Redis, recorded for return or being booked never exceed
\* the stock of MySQL, as long as no worker bypasses Redis and no reply of Redis
\* is lost: WATCH and EXEC, the rwlock and SET-then-clear hand out no item twice.
THEOREM BudgetKept ==
    ASSUME NoFallback, "redis_lost" \notin Faults
    PROVE  Spec => []ReservationBudget
<1>1. BudgetInv => ReservationBudget
    BY DEF BudgetInv
<1> QED
    BY <1>1, BudgetInvariant, PTL

-----------------------------------------------------------------------------
(***************************************************************************)
(* Somebody buys, when nothing fails.  Until the first EXEC succeeds no    *)
(* watch is spoilt and nobody is turned away, and whoever executed it      *)
(* cannot be refused by MySQL before somebody has bought.                  *)
(***************************************************************************)
\* Nothing fails: every connection works.
WorkingInv ==
    \A w \in Workers : /\ conn[w] = IF pc[w] = "new" THEN "none" ELSE "ok"
                       /\ mconn[w] = IF pc[w] = "new" THEN "none" ELSE "ok"

\* No EXEC has succeeded yet.
Untouched ==
    /\ total_count = Goods /\ redis_orders = {}
    /\ \A w \in Workers :
          /\ watch[w] # "dirty"
          /\ \/ pc[w] \in {"new", "checkUserInfo", "checkUserHasGot", "WATCH", "GET", "MULTI", "EXEC"}
             \/ pc[w] = "done" /\ ~KeyMatches(w)

FirstBuyerInv ==
    Winners = {} => /\ \A w \in Workers : isSuc[w] /\ pc[w] # "record"
                    /\ InFlight # {} \/ Untouched

\* Without failures no command is refused and no statement fails.
LEMMA NothingFails ==
    ASSUME Faults = {}, WorkingInv, NEW w \in Workers, pc[w] # "new"
    PROVE  /\ conn[w] = "ok" /\ mconn[w] = "ok"
           /\ ~Refused(w) /\ ~ReplyLost(w) /\ ~QueryFails(w)
    BY DEF WorkingInv, Refused, ReplyLost, QueryFails

\* Every step keeps the connections working.
LEMMA WorkingStep ==
    ASSUME Faults = {}, TypeOK, WorkingInv, NEW w \in Workers, Step(w)
    PROVE  WorkingInv'
<1> USE DEF At, Goto, Answer, redisVars, mysqlVars
<1>0. DOMAIN pc = Workers /\ DOMAIN conn = Workers /\ DOMAIN mconn = Workers
    BY DEF TypeOK
<1>1. CASE pc[w] = "new"
    <2>1. Start(w)
        BY <1>1 DEF Step, Checks, StartCrash, checkUserInfo, checkUserInfo_mysql, checkUserHasGot,
            checkUserHasGot_mysql, seckillGoods, WatchTotal, GetTotal, Multi, ExecOk, ExecAbort,
            Retry, SoldOut, SetTotal, ReleaseFailed, seckillGoods_mysql, Select, SelectFails,
            MysqlCrash, Update, Insert, Rollback, Record, Commit, IncRead, IncWrite, WorkingInv
    <2> QED
        BY <1>0, <1>1, <2>1 DEF Start, WorkingInv
<1>2. CASE pc[w] # "new"
    <2>1. /\ conn[w] = "ok" /\ mconn[w] = "ok"
          /\ ~Refused(w) /\ ~ReplyLost(w) /\ ~QueryFails(w)
        BY <1>2, NothingFails
    <2>2. UNCHANGED <<conn, mconn>> /\ \E l \in Labels \ {"new"} : pc' = [pc EXCEPT ![w] = l]
        <3>1. CASE Checks(w)
            BY <1>2, <2>1, <3>1 DEF Checks, Start, StartCrash, checkUserInfo, checkUserInfo_mysql,
                checkUserHasGot, checkUserHasGot_mysql, Replies, Labels
        <3>2. CASE seckillGoods(w)
            BY <2>1, <3>2 DEF seckillGoods, WatchTotal, GetTotal, Multi, ExecOk, HasReplies,
                ExecAbort, Retry, SoldOut, SetTotal, ReleaseFailed, Replies, Labels
        <3>3. CASE seckillGoods_mysql(w)
            BY <2>1, <3>3 DEF seckillGoods_mysql, Select, SelectFails, MysqlCrash, Update, Insert,
                Rollback, Record, Commit, IncRead, IncWrite, Labels
        <3> QED
            BY <3>1, <3>2, <3>3 DEF Step
    <2> QED
        BY <1>0, <1>2, <2>2 DEF WorkingInv
<1> QED
    BY <1>1, <1>2

\* A worker that holds an item keeps it until somebody has bought.
LEMMA HolderStep ==
    ASSUME Faults = {}, TypeOK, WorkingInv, order_info = {}, g_totalcount > 0,
           \A v \in Workers : isSuc[v] /\ pc[v] # "record",
           NEW w \in Workers, Step(w), ~Commit(w)
    PROVE  /\ isSuc' = isSuc /\ pc'[w] # "record"
           /\ pc[w] \in Flying => pc'[w] \in Flying
<1> USE DEF At, Goto, Answer, redisVars, mysqlVars
<1>0. DOMAIN pc = Workers
    BY DEF TypeOK
<1>1. pc[w] # "new" => conn[w] # "null" /\ mconn[w] = "ok" /\ ~QueryFails(w)
    BY NothingFails
<1>2. CASE Checks(w)
    BY <1>0, <1>2 DEF Checks, Start, StartCrash, checkUserInfo, checkUserInfo_mysql,
        checkUserHasGot, checkUserHasGot_mysql, Flying, Booked
<1>3. CASE seckillGoods(w)
    BY <1>0, <1>3 DEF seckillGoods, WatchTotal, GetTotal, Multi, ExecOk, HasReplies, ExecAbort,
        Retry, SoldOut, SetTotal, ReleaseFailed, Flying, Booked
<1>4. CASE Select(w)
    <2>0. ~(g_totalcount <= 0)
        BY DEF TypeOK
    <2>1. pc' = [pc EXCEPT ![w] = "UPDATE"] /\ isSuc' = isSuc
        BY <1>4, <2>0 DEF Select
    <2> QED
        BY <1>0, <2>1 DEF Flying, Booked
<1>5. CASE SelectFails(w) \/ MysqlCrash(w) \/ Update(w)
    BY <1>0, <1>1, <1>5 DEF SelectFails, MysqlCrash, Update, Flying, Booked
<1>6. CASE Insert(w) \/ Rollback(w) \/ Record(w)
    BY <1>0, <1>1, <1>6 DEF Insert, Rollback, Record, Flying, Booked
<1>7. CASE IncRead(w) \/ IncWrite(w)
    BY <1>0, <1>7 DEF IncRead, IncWrite, Flying, Booked
<1> QED
    BY <1>2, <1>3, <1>4, <1>5, <1>6, <1>7 DEF Step, seckillGoods_mysql

\* Before the first EXEC nothing can go wrong for anybody.
LEMMA UntouchedStep ==
    ASSUME Faults = {}, TypeOK, WorkingInv, Untouched, Goods > 0, NEW w \in Workers, Step(w)
    PROVE  Untouched' \/ InFlight' # {}
<1> USE DEF At, Goto, Answer, redisVars, mysqlVars
<1>0. /\ DOMAIN pc = Workers /\ DOMAIN watch = Workers
      /\ total_count = Goods /\ redis_orders = {} /\ watch[w] # "dirty"
      /\ \/ pc[w] \in {"new", "checkUserInfo", "checkUserHasGot", "WATCH", "GET", "MULTI", "EXEC"}
         \/ pc[w] = "done" /\ ~KeyMatches(w)
    BY DEF TypeOK, Untouched
<1>1. pc[w] # "new" => conn[w] = "ok" /\ ~Refused(w) /\ ~ReplyLost(w)
    BY NothingFails
<1>2. ASSUME NEW l \in {"checkUserInfo", "checkUserHasGot", "WATCH", "GET", "MULTI", "EXEC", "done"},
             pc' = [pc EXCEPT ![w] = l], l = "done" => ~KeyMatches(w),
             watch' = watch \/ watch' = [watch EXCEPT ![w] = "clean"],
             UNCHANGED <<request, total_count, redis_orders>>
      PROVE  Untouched'
    BY <1>0, <1>2 DEF Untouched, KeyMatches, usr_name
<1>3. CASE Start(w)
    BY <1>2, <1>3 DEF Start
<1>4. CASE checkUserInfo(w)
    BY <1>1, <1>2, <1>4 DEF checkUserInfo
<1>5. CASE checkUserHasGot(w)
    BY <1>0, <1>1, <1>2, <1>5 DEF checkUserHasGot
<1>6. CASE WatchTotal(w)
    BY <1>1, <1>2, <1>6 DEF WatchTotal, WATCH
<1>7. CASE GetTotal(w)
    BY <1>0, <1>1, <1>2, <1>7 DEF GetTotal, OnSale
<1>8. CASE Multi(w)
    BY <1>1, <1>2, <1>8 DEF Multi
<1>9. CASE ExecOk(w)
    <2>1. pc' = [pc EXCEPT ![w] = "SELECT"]
        BY <1>1, <1>9 DEF ExecOk, HasReplies
    <2>2. w \in InFlight'
        BY <1>0, <2>1 DEF InFlight
    <2> QED
        BY <2>2
<1>10. ~ExecAbort(w) /\ ~checkUserInfo_mysql(w) /\ ~checkUserHasGot_mysql(w) /\ ~MysqlCrash(w)
    BY <1>0, <1>1 DEF ExecAbort, checkUserInfo_mysql, checkUserHasGot_mysql, MysqlCrash
<1>11. ~StartCrash(w)
    BY DEF StartCrash
<1>12. ~Retry(w) /\ ~SoldOut(w) /\ ~SetTotal(w) /\ ~ReleaseFailed(w)
    BY <1>0 DEF Retry, SoldOut, SetTotal, ReleaseFailed
<1>13. seckillGoods_mysql(w) => MysqlCrash(w)
    BY <1>0 DEF seckillGoods_mysql, Select, SelectFails, Update, Insert, Rollback, Record, Commit,
        IncRead, IncWrite
<1> QED
    BY <1>3, <1>4, <1>5, <1>6, <1>7, <1>8, <1>9, <1>10, <1>11, <1>12, <1>13
    DEF Step, Checks, seckillGoods

\* The first item taken is held until it, or one taken later, has been bought.
LEMMA FirstBuyerStep ==
    ASSUME Faults = {}, Goods > 0, SafeInv, AnswerInv, OrdersMatchAnswers, WorkingInv,
           FirstBuyerInv, NEW w \in Workers, Step(w)
    PROVE  FirstBuyerInv'
<1>1. SUFFICES ASSUME Winners' = {} PROVE FirstBuyerInv'
    BY DEF FirstBuyerInv
<1>2. TypeOK /\ DOMAIN pc = Workers /\ DOMAIN response = Workers
    BY DEF SafeInv, TypeOK
<1>3. ~Commit(w)
    <2>1. ASSUME Commit(w) PROVE w \in Winners'
        BY <1>2, <2>1 DEF Commit, Winners
    <2> QED
        BY <1>1, <2>1
<1>4. Winners = {}
    <2>1. Winners \subseteq Winners'
        BY <1>2, <1>3, AnswersChange DEF Winners
    <2> QED
        BY <1>1, <2>1
<1>5. order_info = {} /\ g_totalcount > 0
    <2>1. order_info = {}
        BY <1>4 DEF OrdersMatchAnswers
    <2>2. Cardinality(order_info) = 0
        BY <2>1, FS_EmptySet
    <2>3. g_totalcount + Cardinality(order_info) = Goods /\ g_totalcount \in Int
        BY <1>2 DEF SafeInv, StockInv, StockMatchesOrders, TypeOK
    <2> QED
        BY <2>1, <2>2, <2>3
<1>6. /\ \A v \in Workers : isSuc[v] /\ pc[v] # "record"
      /\ InFlight # {} \/ Untouched
    BY <1>4 DEF FirstBuyerInv
<1>7. /\ isSuc' = isSuc /\ pc'[w] # "record"
      /\ pc[w] \in Flying => pc'[w] \in Flying
    BY <1>2, <1>3, <1>5, <1>6, HolderStep
<1>8. \A v \in Workers \ {w} : pc'[v] = pc[v]
    <2>1. NoFallback /\ HasContext
        BY DEF NoFallback, HasContext, WorkingInv
    <2> QED
        BY <1>2, <2>1, BookedStep
<1>9. \A v \in Workers : isSuc'[v] /\ pc'[v] # "record"
    BY <1>6, <1>7, <1>8
<1>10. InFlight' # {} \/ Untouched'
    <2>1. CASE InFlight # {}
        <3>1. PICK v \in Workers : pc[v] \in Flying
            BY <2>1 DEF InFlight, Flying, Booked
        <3>2. pc'[v] \in Flying
            BY <1>7, <1>8, <3>1
        <3>3. v \in InFlight'
            BY <3>2 DEF InFlight, Flying, Booked
        <3> QED
            BY <3>3
    <2>2. CASE Untouched
        BY <1>2, <2>2, UntouchedStep
    <2> QED
        BY <1>6, <2>1, <2>2
<1> QED
    BY <1>9, <1>10 DEF FirstBuyerInv

\* Without failures every connection works from the start of the request on.
THEOREM WorkingInvariant ==
    ASSUME Faults = {}
    PROVE  Spec => []WorkingInv
<1>1. Init => WorkingInv
    BY DEF Init, WorkingInv
<1>2. TypeOK /\ WorkingInv /\ [Next]_vars => WorkingInv'
    <2> SUFFICES ASSUME TypeOK, WorkingInv, [Next]_vars PROVE WorkingInv'
        OBVIOUS
    <2>1. CASE \E w \in Workers : Step(w)
        BY <2>1, WorkingStep
    <2>2. CASE UNCHANGED vars
        BY <2>2 DEF vars, redisVars, mysqlVars, WorkingInv
    <2> QED
        BY <2>1, <2>2 DEF Next, Finished
<1> QED
    BY <1>1, <1>2, TypeCorrect, PTL DEF Spec

\* As long as nobody has bought, either nobody has been turned away or somebody is
\* about to buy.
THEOREM FirstBuyerInvariant ==
    ASSUME Faults = {}, Goods > 0
    PROVE  Spec => []FirstBuyerInv
<1>1. Init => FirstBuyerInv
    BY DEF Init, FirstBuyerInv, Untouched
<1>2. SafeInv /\ AnswerInv /\ OrdersMatchAnswers /\ WorkingInv /\ FirstBuyerInv /\ [Next]_vars
        => FirstBuyerInv'
    <2> SUFFICES ASSUME SafeInv, AnswerInv, OrdersMatchAnswers, WorkingInv, FirstBuyerInv,
                        [Next]_vars
                 PROVE  FirstBuyerInv'
        OBVIOUS
    <2>1. CASE \E w \in Workers : Step(w)
        BY <2>1, FirstBuyerStep
    <2>2. CASE UNCHANGED vars
        BY <2>2 DEF vars, redisVars, mysqlVars, FirstBuyerInv, Winners, InFlight, Untouched,
            KeyMatches, usr_name
    <2> QED
        BY <2>1, <2>2 DEF Next, Finished
<1>3. SafeInv => TypeOK
    BY DEF SafeInv
<1>4. "commit_drop" \notin Faults
    OBVIOUS
<1>5. Spec => []OrdersMatchAnswers
    BY <1>4, AnswersCorrect
<1> QED
    BY <1>1, <1>2, <1>3, <1>5, AnswerInit, AnswerNext, Safe, WorkingInvariant, PTL DEF Spec

\* Contention alone cannot make everybody lose: when every request has been served
\* and nothing failed, somebody with a valid request has bought, whatever the
\* number of workers and of attempts.
THEOREM SomebodyBuys ==
    ASSUME Faults = {}
    PROVE  Spec => []SomebodyWins
<1>1. CASE Goods > 0
    <2>1. FirstBuyerInv => SomebodyWins
        <3> SUFFICES ASSUME FirstBuyerInv, AllDone, NEW w \in Workers, KeyMatches(w), Winners = {}
                     PROVE  FALSE
            BY DEF SomebodyWins
        <3>1. InFlight = {}
            BY DEF AllDone, InFlight
        <3>2. Untouched
            BY <3>1 DEF FirstBuyerInv
        <3> QED
            BY <3>2 DEF Untouched, AllDone
    <2>2. Spec => []FirstBuyerInv
        BY <1>1, FirstBuyerInvariant
    <2> QED
        BY <2>1, <2>2, PTL
<1>2. CASE ~(Goods > 0)
    <2>1. SomebodyWins
        BY <1>2 DEF SomebodyWins
    <2> QED
        BY <2>1, PTL
<1> QED
    BY <1>1, <1>2
=============================================================================
