---------------------------- MODULE SeckillProofs ----------------------------
(***************************************************************************)
(* Proofs about Seckill, for every number of workers, every stock, every   *)
(* set of requests and every combination of failures.                      *)
(***************************************************************************)
EXTENDS Seckill, FiniteSetTheorems, TLAPS

-----------------------------------------------------------------------------
(***************************************************************************)
(* Type correctness.                                                       *)
(***************************************************************************)
\* The name in a worker's request is one of the names in Requests.
LEMMA UserNames ==
    ASSUME TypeOK, NEW w \in Workers
    PROVE  usr_name(w) \in {r.usrname : r \in Requests}
BY DEF TypeOK, usr_name

\* Init sets every variable to a value of its type.
LEMMA TypeInit == Init => TypeOK
BY CountAssumption DEF Init, TypeOK, Labels

\* A write to total_count turns a watch into a watch.
LEMMA TypeTouch ==
    ASSUME TypeOK, NEW w \in Workers, NEW own \in {"none", "clean", "dirty"},
           TouchTotal(w, own)
    PROVE  watch' \in [Workers -> {"none", "clean", "dirty"}]
BY DEF TypeOK, TouchTotal

\* A failing statement keeps the types of what it may change.
LEMMA TypeQueryFails ==
    ASSUME TypeOK, NEW w \in Workers, QueryFails(w)
    PROVE  /\ mconn' \in [Workers -> {"none", "ok", "broken", "null"}]
           /\ tx' \in [Workers -> SUBSET {"update", "insert"}]
           /\ rowLock' \in Workers \union {None}
BY DEF TypeOK, QueryFails

\* Every step of a worker keeps the types.
LEMMA TypeStep ==
    ASSUME TypeOK, NEW w \in Workers, Step(w)
    PROVE  TypeOK'
<1> USE DEF At, Goto, Answer, redisVars, mysqlVars, sharedVars
<1> DEFINE names == {r.usrname : r \in Requests}
<1>0. usr_name(w) \in names
    BY UserNames
<1> HIDE DEF names
<1>1. CASE Start(w)
    BY <1>1 DEF TypeOK, Labels, Start
<1>2. CASE StartCrash(w)
    BY <1>2 DEF TypeOK, Labels, StartCrash
<1>3. CASE checkUserInfo(w)
    BY <1>3, ZenonT(30) DEF TypeOK, Labels, checkUserInfo, Replies, Refused
<1>4. CASE checkUserInfo_mysql(w)
    BY <1>4, ZenonT(30) DEF TypeOK, Labels, checkUserInfo_mysql, QueryFails
<1>5. CASE checkUserHasGot(w)
    BY <1>5 DEF TypeOK, Labels, checkUserHasGot, Replies, Refused
<1>6. CASE checkUserHasGot_mysql(w)
    BY <1>6, ZenonT(30) DEF TypeOK, Labels, checkUserHasGot_mysql, QueryFails
<1>7. CASE WatchTotal(w)
    BY <1>7 DEF TypeOK, Labels, WatchTotal, Replies, Refused, WATCH
<1>8. CASE GetTotal(w)
    BY <1>8 DEF TypeOK, Labels, GetTotal, Replies, Refused
<1>9. CASE Multi(w)
    BY <1>9 DEF TypeOK, Labels, Multi, Replies, Refused
<1>10. CASE ExecOk(w)
    <2>1. redis_orders' \subseteq names
        BY <1>0, <1>10 DEF TypeOK, ExecOk, Mark, names
    <2>2. watch' \in [Workers -> {"none", "clean", "dirty"}]
        BY <1>10, TypeTouch DEF ExecOk
    <2>3. /\ pc' \in [Workers -> Labels]
          /\ conn' \in [Workers -> {"none", "ok", "broken", "null"}]
          /\ UNCHANGED <<alive, request>>
        BY <1>10 DEF TypeOK, Labels, ExecOk, Replies, ReplyLost, HasReplies
    <2>4. /\ total_count' \in Int
          /\ UNCHANGED <<response, repeatCount, mysqlVars, sharedVars>>
        BY <1>10 DEF TypeOK, ExecOk
    <2> QED
        BY <2>1, <2>2, <2>3, <2>4 DEF TypeOK, names
<1>11. CASE ExecAbort(w)
    BY <1>11 DEF TypeOK, Labels, ExecAbort, Replies, Refused
<1>12. CASE Retry(w)
    BY <1>12, ZenonT(30) DEF TypeOK, Labels, Retry, Replies, Refused, UNWATCH
<1>13. CASE SoldOut(w)
    BY <1>13 DEF TypeOK, Labels, SoldOut, Replies, Refused, UNWATCH
<1>14. CASE SetTotal(w)
    <2>1. watch[w] \in {"none", "clean", "dirty"}
        BY DEF TypeOK
    <2>2. TouchTotal(w, watch[w]) \/ UNCHANGED watch
        BY <1>14 DEF SetTotal
    <2>3. watch' \in [Workers -> {"none", "clean", "dirty"}]
        BY <2>1, <2>2, TypeTouch DEF TypeOK
    <2>4. /\ pc' \in [Workers -> Labels]
          /\ conn' \in [Workers -> {"none", "ok", "broken", "null"}]
          /\ UNCHANGED <<alive, request>>
        BY <1>14 DEF TypeOK, Labels, SetTotal, Replies, Refused, ReplyLost
    <2>5. total_count' \in {failedCount, total_count}
        BY <1>14 DEF SetTotal
    <2>6. UNCHANGED <<response, redis_orders, repeatCount, mysqlVars, sharedVars>>
        BY <1>14 DEF SetTotal
    <2> QED
        BY <2>3, <2>4, <2>5, <2>6 DEF TypeOK
<1>15. CASE ReleaseFailed(w)
    BY <1>15 DEF TypeOK, Labels, ReleaseFailed, Unlock
<1>16. CASE Select(w)
    BY <1>16 DEF TypeOK, Labels, Select, ForUpdate, LockRow
<1>17. CASE SelectFails(w)
    BY <1>17 DEF TypeOK, Labels, SelectFails, QueryFails, Failed
<1>18. CASE MysqlCrash(w)
    BY <1>18 DEF TypeOK, Labels, MysqlCrash
<1>19. CASE Update(w)
    <2>1. /\ mconn' \in [Workers -> {"none", "ok", "broken", "null"}]
          /\ tx' \in [Workers -> SUBSET {"update", "insert"}]
          /\ rowLock' \in Workers \union {None}
        BY <1>19, TypeQueryFails DEF TypeOK, Update, LockRow
    <2> QED
        BY <1>19, <2>1 DEF TypeOK, Labels, Update, Failed
<1>20. CASE Insert(w)
    <2>1. /\ mconn' \in [Workers -> {"none", "ok", "broken", "null"}]
          /\ tx' \in [Workers -> SUBSET {"update", "insert"}]
          /\ rowLock' \in Workers \union {None}
        BY <1>20, TypeQueryFails DEF TypeOK, Insert
    <2> QED
        BY <1>20, <2>1 DEF TypeOK, Labels, Insert, Failed
<1>21. CASE Rollback(w)
    BY <1>21 DEF TypeOK, Labels, Rollback, mysql_rollback, RollbackTx, EndTx
<1>22. CASE Record(w)
    BY <1>22 DEF TypeOK, Labels, Record, CountFailure
<1>23. CASE Commit(w)
    <2>1. order_info' \subseteq names
        BY <1>0, <1>23 DEF TypeOK, Commit, CommitTx, RollbackTx, names
    <2> QED
        BY <1>23, <2>1 DEF TypeOK, Labels, Commit, CommitTx, RollbackTx, EndTx, names
<1>24. CASE IncRead(w)
    BY <1>24 DEF TypeOK, Labels, IncRead
<1>25. CASE IncWrite(w)
    BY <1>25 DEF TypeOK, Labels, IncWrite
<1> QED
    BY <1>1, <1>2, <1>3, <1>4, <1>5, <1>6, <1>7, <1>8, <1>9, <1>10, <1>11, <1>12,
       <1>13, <1>14, <1>15, <1>16, <1>17, <1>18, <1>19, <1>20, <1>21, <1>22, <1>23,
       <1>24, <1>25
    DEF Step, Checks, seckillGoods, seckillGoods_mysql

\* Steps that leave everything alone keep the types.
LEMMA TypeStutter == TypeOK /\ UNCHANGED vars => TypeOK'
BY DEF TypeOK, vars, redisVars, mysqlVars, sharedVars

\* Every step keeps the types.
LEMMA TypeNext == TypeOK /\ [Next]_vars => TypeOK'
BY TypeStep, TypeStutter DEF Next, Finished

\* The variables of the handler keep their types in every behaviour.
THEOREM TypeCorrect == Spec => []TypeOK
BY TypeInit, TypeNext, PTL DEF Spec

-----------------------------------------------------------------------------
(***************************************************************************)
(* The stock.  RowLockProtects is not inductive alone: what a worker has   *)
(* written must also be tied to isSuc and to the place it has reached.     *)
(***************************************************************************)
InTx == {"UPDATE", "INSERT", "end"}
AfterTx == {"record", "incRead", "incWrite", "done"}

\* isSuc says which writes the open transaction holds; a pending order is new.
WritesFollowIsSuc ==
    \A w \in Workers :
        /\ pc[w] \notin InTx \union AfterTx => isSuc[w]
        /\ pc[w] = "UPDATE" => isSuc[w]
        /\ pc[w] \notin {"INSERT", "end"} => tx[w] = {}
        /\ pc[w] = "INSERT" /\ isSuc[w] => tx[w] = {"update"}
        /\ pc[w] = "end" /\ isSuc[w] => tx[w] = {"update", "insert"}
        /\ tx[w] # {} => mconn[w] = "ok"
        /\ "insert" \in tx[w] => usr_name(w) \notin order_info

LockInv == RowLockProtects /\ WritesFollowIsSuc

\* The conjuncts of LockInv for one worker.
LockAt(w) ==
    /\ pc[w] \in InTx /\ mconn[w] = "ok" => rowLock = w
    /\ tx[w] # {} => rowLock = w /\ mconn[w] = "ok"
    /\ rowLock = w => pc[w] \in InTx /\ seen[w] = g_totalcount /\ g_totalcount > 0
    /\ pc[w] \notin InTx \union AfterTx => isSuc[w]
    /\ pc[w] = "UPDATE" => isSuc[w]
    /\ pc[w] \notin {"INSERT", "end"} => tx[w] = {}
    /\ pc[w] = "INSERT" /\ isSuc[w] => tx[w] = {"update"}
    /\ pc[w] = "end" /\ isSuc[w] => tx[w] = {"update", "insert"}
    /\ "insert" \in tx[w] => usr_name(w) \notin order_info

\* LockInv, worker by worker.
LEMMA LockInvAt == LockInv <=> \A w \in Workers : LockAt(w)
BY DEF LockInv, RowLockProtects, WritesFollowIsSuc, LockAt, InTx

\* The same after a step.
LEMMA LockInvAtPrime == LockInv' <=> \A w \in Workers : LockAt(w)'
BY DEF LockInv, RowLockProtects, WritesFollowIsSuc, LockAt, InTx, usr_name

\* What a step of w does to another worker v: it leaves v's own state alone, and
\* neither takes v's lock nor writes what v's lock protects.
Undisturbed(w, v) ==
    /\ pc'[v] = pc[v] /\ mconn'[v] = mconn[v] /\ seen'[v] = seen[v]
    /\ tx'[v] = tx[v] /\ isSuc'[v] = isSuc[v] /\ request' = request
    /\ rowLock' = v <=> rowLock = v
    /\ rowLock = v => UNCHANGED <<g_totalcount, order_info>>

\* A worker that is not disturbed keeps its part of LockInv.
LEMMA OtherWorkers ==
    ASSUME NEW w, NEW v, LockAt(v), Undisturbed(w, v)
    PROVE  LockAt(v)'
BY DEF LockAt, Undisturbed, usr_name, InTx, AfterTx

\* It is enough to look at the worker that takes the step.
LEMMA LockFromOwn ==
    ASSUME LockInv, NEW w \in Workers, LockAt(w)',
           \A v \in Workers \ {w} : Undisturbed(w, v)
    PROVE  LockInv'
<1>1. \A v \in Workers : LockAt(v)
    BY LockInvAt
<1>2. ASSUME NEW v \in Workers \ {w}
      PROVE  LockAt(v)'
    BY <1>1, OtherWorkers
<1> QED
    BY <1>2, LockInvAtPrime

\* A step that stays outside the transaction and leaves MySQL alone.
LEMMA OutsideTx ==
    ASSUME TypeOK, LockInv, NEW w \in Workers, NEW l \in Labels \ InTx,
           pc[w] \notin InTx, pc' = [pc EXCEPT ![w] = l],
           l \notin AfterTx => pc[w] \notin AfterTx,
           UNCHANGED <<request, mysqlVars>>
    PROVE  LockInv'
BY DEF TypeOK, LockInv, RowLockProtects, WritesFollowIsSuc, InTx, AfterTx, mysqlVars, usr_name

\* Every step keeps LockInv.
LEMMA LockStep ==
    ASSUME TypeOK, LockInv, NEW w \in Workers, Step(w)
    PROVE  LockInv'
<1> USE DEF At, Goto, Answer, InTx, AfterTx
<1>0. LockAt(w)
    BY LockInvAt
<1>1. CASE Start(w)
    BY <1>1 DEF TypeOK, LockInv, RowLockProtects, WritesFollowIsSuc, usr_name, Start, redisVars
<1>2. CASE StartCrash(w) \/ MysqlCrash(w)
    BY <1>2 DEF LockInv, RowLockProtects, WritesFollowIsSuc, usr_name, StartCrash, MysqlCrash, mysqlVars
<1>3. CASE checkUserInfo(w) \/ checkUserHasGot(w)
    BY <1>3, OutsideTx DEF checkUserInfo, checkUserHasGot, Labels
<1>4. CASE checkUserInfo_mysql(w) \/ checkUserHasGot_mysql(w)
    BY <1>4 DEF TypeOK, LockInv, RowLockProtects, WritesFollowIsSuc, usr_name,
       checkUserInfo_mysql, checkUserHasGot_mysql, QueryFails
<1>5. CASE WatchTotal(w) \/ GetTotal(w) \/ Multi(w)
    BY <1>5, OutsideTx DEF WatchTotal, GetTotal, Multi, Labels
<1>6. CASE ExecOk(w) \/ ExecAbort(w) \/ Retry(w)
    BY <1>6, OutsideTx DEF ExecOk, ExecAbort, Retry, HasReplies, Labels
<1>7. CASE SoldOut(w) \/ SetTotal(w) \/ ReleaseFailed(w)
    BY <1>7, OutsideTx DEF SoldOut, SetTotal, ReleaseFailed, Labels
<1>8. CASE Select(w)
    <2>1. LockAt(w)'
        BY <1>0, <1>8 DEF TypeOK, LockAt, usr_name, Select, ForUpdate, LockRow
    <2>2. \A v \in Workers \ {w} : Undisturbed(w, v)
        BY <1>8, WorkersAssumption, ZenonT(30) DEF TypeOK, Undisturbed, Select, ForUpdate, LockRow
    <2> QED
        BY <2>1, <2>2, LockFromOwn
<1>9. CASE SelectFails(w)
    BY <1>9 DEF TypeOK, LockInv, RowLockProtects, WritesFollowIsSuc, usr_name, SelectFails,
       QueryFails, Failed
<1>10. CASE Update(w)
    <2>1. LockAt(w)'
        BY <1>0, <1>10 DEF TypeOK, LockAt, usr_name, Update, LockRow, QueryFails, Failed
    <2>2. \A v \in Workers \ {w} : Undisturbed(w, v)
        BY <1>10, WorkersAssumption DEF TypeOK, Undisturbed, Update, LockRow, QueryFails, Failed
    <2> QED
        BY <2>1, <2>2, LockFromOwn
<1>11. CASE Insert(w)
    <2>1. LockAt(w)'
        BY <1>0, <1>11 DEF TypeOK, LockAt, usr_name, Insert, QueryFails, Failed
    <2>2. \A v \in Workers \ {w} : Undisturbed(w, v)
        BY <1>11, WorkersAssumption DEF TypeOK, Undisturbed, Insert, QueryFails, Failed
    <2> QED
        BY <2>1, <2>2, LockFromOwn
<1>12. CASE Rollback(w)
    <2>1. LockAt(w)'
        BY <1>0, <1>12, WorkersAssumption DEF TypeOK, LockAt, usr_name, Rollback, mysql_rollback,
           RollbackTx, EndTx
    <2>2. \A v \in Workers \ {w} : Undisturbed(w, v)
        BY <1>12, WorkersAssumption DEF TypeOK, Undisturbed, Rollback, mysql_rollback, RollbackTx,
           EndTx
    <2> QED
        BY <2>1, <2>2, LockFromOwn
<1>13. CASE Record(w) \/ IncRead(w) \/ IncWrite(w)
    BY <1>13, OutsideTx DEF Record, IncRead, IncWrite, Labels
<1>14. CASE Commit(w)
    <2>1. rowLock = w
        BY <1>0, <1>14 DEF Commit, LockAt
    <2>2. LockAt(w)'
        BY <1>0, <1>14, WorkersAssumption DEF TypeOK, LockAt, usr_name, Commit, CommitTx,
           RollbackTx, EndTx
    <2>3. \A v \in Workers \ {w} : Undisturbed(w, v)
        BY <1>14, <2>1, WorkersAssumption DEF TypeOK, Undisturbed, Commit, CommitTx, RollbackTx, EndTx
    <2> QED
        BY <2>2, <2>3, LockFromOwn
<1> QED
    BY <1>1, <1>2, <1>3, <1>4, <1>5, <1>6, <1>7, <1>8, <1>9, <1>10, <1>11, <1>12,
       <1>13, <1>14
    DEF Step, Checks, seckillGoods, seckillGoods_mysql

\* Only a COMMIT changes the committed tables, and it adds one new order and
\* takes one item, or it is lost.
LEMMA TablesChange ==
    ASSUME TypeOK, LockInv, NEW w \in Workers, Step(w)
    PROVE  \/ UNCHANGED <<g_totalcount, order_info>>
           \/ /\ Commit(w)
              /\ usr_name(w) \notin order_info
              /\ g_totalcount > 0
              /\ g_totalcount' = g_totalcount - 1
              /\ order_info' = order_info \union {usr_name(w)}
<1>0. LockAt(w)
    BY LockInvAt
<1>1. CASE Commit(w)
    BY <1>0, <1>1 DEF LockAt, Commit, CommitTx, RollbackTx, At, InTx
<1>2. CASE Checks(w) \/ seckillGoods(w)
    BY <1>2 DEF Checks, Start, StartCrash, checkUserInfo, checkUserInfo_mysql, checkUserHasGot,
       checkUserHasGot_mysql, seckillGoods, WatchTotal, GetTotal, Multi, ExecOk, ExecAbort,
       Retry, SoldOut, SetTotal, ReleaseFailed, mysqlVars
<1>3. CASE seckillGoods_mysql(w) /\ ~Commit(w)
    BY <1>3 DEF seckillGoods_mysql, Select, SelectFails, MysqlCrash, Update, Insert, Rollback,
       mysql_rollback, RollbackTx, Record, IncRead, IncWrite, mysqlVars
<1> QED
    BY <1>1, <1>2, <1>3 DEF Step

StockInv == StockMatchesOrders /\ IsFiniteSet(order_info)

\* Every step keeps stock and orders adding up.
LEMMA StockStep ==
    ASSUME TypeOK, LockInv, StockInv, NEW w \in Workers, Step(w)
    PROVE  StockInv'
<1>1. CASE UNCHANGED <<g_totalcount, order_info>>
    BY <1>1 DEF StockInv, StockMatchesOrders
<1>2. CASE /\ usr_name(w) \notin order_info
           /\ g_totalcount > 0
           /\ g_totalcount' = g_totalcount - 1
           /\ order_info' = order_info \union {usr_name(w)}
    <2>1. /\ IsFiniteSet(order_info')
          /\ Cardinality(order_info') = Cardinality(order_info) + 1
        BY <1>2, FS_AddElement DEF StockInv
    <2>2. Cardinality(order_info) \in Nat
        BY FS_CardinalityType DEF StockInv
    <2> QED
        BY <1>2, <2>1, <2>2, CountAssumption DEF TypeOK, StockInv, StockMatchesOrders
<1> QED
    BY <1>1, <1>2, TablesChange

SafeInv == TypeOK /\ LockInv /\ StockInv

\* The prepared stores satisfy the invariant.
LEMMA SafeInit == Init => SafeInv
<1> SUFFICES ASSUME Init PROVE SafeInv
    OBVIOUS
<1>1. TypeOK
    BY TypeInit
<1>2. LockInv
    BY WorkersAssumption DEF Init, LockInv, RowLockProtects, WritesFollowIsSuc, InTx, AfterTx
<1>3. StockInv
    BY FS_EmptySet, CountAssumption DEF Init, StockInv, StockMatchesOrders
<1> QED
    BY <1>1, <1>2, <1>3 DEF SafeInv

\* Every step keeps the invariant.
LEMMA SafeNext == SafeInv /\ [Next]_vars => SafeInv'
<1> SUFFICES ASSUME SafeInv, [Next]_vars PROVE SafeInv'
    OBVIOUS
<1>1. CASE \E w \in Workers : Step(w)
    BY <1>1, TypeStep, LockStep, StockStep DEF SafeInv
<1>2. CASE UNCHANGED vars
    BY <1>2, TypeStutter DEF SafeInv, LockInv, RowLockProtects, WritesFollowIsSuc, StockInv,
       StockMatchesOrders, usr_name, vars, mysqlVars
<1> QED
    BY <1>1, <1>2 DEF Next, Finished

\* Types, lock and stock, together inductive.
THEOREM Safe == Spec => []SafeInv
BY SafeInit, SafeNext, PTL DEF Spec

\* No failure and no interleaving makes MySQL sell an item twice or lose one of
\* its own: the stock of seckillGoods_mysql and order_info always add up.
THEOREM StockSafe == Spec => []StockMatchesOrders
<1>1. SafeInv => StockMatchesOrders
    BY DEF SafeInv, StockInv
<1> QED
    BY <1>1, Safe, PTL

\* The row lock covers every transaction of seckillGoods_mysql.
THEOREM LockSafe == Spec => []RowLockProtects
<1>1. SafeInv => RowLockProtects
    BY DEF SafeInv, LockInv
<1> QED
    BY <1>1, Safe, PTL

-----------------------------------------------------------------------------
(***************************************************************************)
(* The handler implements the sale.                                        *)
(***************************************************************************)
\* A worker has answered only after its transaction, and is past checkUserInfo
\* only with a matching key.
AnswerInv ==
    \A w \in Workers :
        /\ pc[w] \notin {"incRead", "incWrite", "done"} => response[w] = "none"
        /\ pc[w] \notin {"new", "checkUserInfo", "done"} => KeyMatches(w)

\* Every step keeps AnswerInv: the answer is set once, on the way out.
LEMMA AnswerStep ==
    ASSUME TypeOK, AnswerInv, NEW w \in Workers, Step(w)
    PROVE  AnswerInv'
<1> USE DEF At, Goto, Answer, AnswerInv, KeyMatches, usr_name, TypeOK
<1>1. CASE Start(w) \/ StartCrash(w) \/ MysqlCrash(w)
    BY <1>1 DEF Start, StartCrash, MysqlCrash
<1>2. CASE checkUserInfo(w) \/ checkUserInfo_mysql(w)
    BY <1>2 DEF checkUserInfo, checkUserInfo_mysql
<1>3. CASE checkUserHasGot(w) \/ checkUserHasGot_mysql(w)
    BY <1>3 DEF checkUserHasGot, checkUserHasGot_mysql
<1>4. CASE WatchTotal(w) \/ GetTotal(w) \/ Multi(w)
    BY <1>4 DEF WatchTotal, GetTotal, Multi
<1>5. CASE ExecOk(w) \/ ExecAbort(w) \/ Retry(w)
    BY <1>5 DEF ExecOk, HasReplies, ExecAbort, Retry
<1>6. CASE SoldOut(w) \/ SetTotal(w) \/ ReleaseFailed(w)
    BY <1>6 DEF SoldOut, SetTotal, ReleaseFailed
<1>7. CASE Select(w) \/ SelectFails(w) \/ Update(w) \/ Insert(w)
    BY <1>7 DEF Select, SelectFails, Update, Insert
<1>8. CASE Rollback(w) \/ Record(w) \/ Commit(w)
    BY <1>8 DEF Rollback, Record, Commit
<1>9. CASE IncRead(w) \/ IncWrite(w)
    BY <1>9 DEF IncRead, IncWrite
<1> QED
    BY <1>1, <1>2, <1>3, <1>4, <1>5, <1>6, <1>7, <1>8, <1>9
    DEF Step, Checks, seckillGoods, seckillGoods_mysql

\* What a step of w does to the answers.
LEMMA AnswersChange ==
    ASSUME AnswerInv, NEW w \in Workers, Step(w)
    PROVE  /\ request' = request
           /\ ~Commit(w) => \/ response' = response
                            \/ /\ response[w] = "none"
                               /\ response' = [response EXCEPT ![w] = "0"]
<1> USE DEF At, Goto, Answer, AnswerInv
<1>1. CASE Checks(w)
    BY <1>1 DEF Checks, Start, StartCrash, checkUserInfo, checkUserInfo_mysql, checkUserHasGot,
       checkUserHasGot_mysql
<1>2. CASE seckillGoods(w)
    BY <1>2 DEF seckillGoods, WatchTotal, GetTotal, Multi, ExecOk, HasReplies, ExecAbort,
       Retry, SoldOut, SetTotal, ReleaseFailed
<1>3. CASE seckillGoods_mysql(w)
    BY <1>3 DEF seckillGoods_mysql, Select, SelectFails, MysqlCrash, Update, Insert, Rollback,
       Record, Commit, IncRead, IncWrite
<1> QED
    BY <1>1, <1>2, <1>3 DEF Step

\* A step of the handler is a purchase, a lost one, a refusal or invisible.
LEMMA SaleStep ==
    ASSUME SafeInv, AnswerInv, NEW w \in Workers, Step(w)
    PROVE  \/ TheSale!Buy(w) \/ TheSale!Lose(w) \/ TheSale!Refuse(w)
           \/ UNCHANGED TheSale!saleVars
<1>0. LockAt(w)
    BY LockInvAt DEF SafeInv
<1>1. CASE Commit(w)
    <2>1. /\ g_totalcount > 0 /\ seen[w] = g_totalcount
          /\ tx[w] = {"update", "insert"}
          /\ usr_name(w) \notin order_info
        BY <1>0, <1>1 DEF Commit, At, LockAt
    <2>2. response[w] = "none" /\ KeyMatches(w)
        BY <1>1 DEF Commit, At, AnswerInv
    <2>3. /\ \/ /\ g_totalcount' = g_totalcount - 1
                /\ order_info' = order_info \union {usr_name(w)}
             \/ "commit_drop" \in Faults /\ UNCHANGED <<g_totalcount, order_info>>
          /\ response' = [response EXCEPT ![w] = "1"]
          /\ request' = request
        BY <1>1, <2>1 DEF Commit, CommitTx, RollbackTx, Goto
    <2>4. TheSale!MayBuy(w)
        BY <2>1, <2>2 DEF TheSale!MayBuy, KeyMatches, usr_name
    <2> QED
        BY <2>3, <2>4 DEF TheSale!Buy, TheSale!Lose, usr_name
<1>2. CASE ~Commit(w)
    <2>1. UNCHANGED <<g_totalcount, order_info>>
        BY <1>2, TablesChange DEF SafeInv
    <2> QED
        BY <1>2, <2>1, AnswersChange DEF TheSale!Refuse, TheSale!saleVars
<1> QED
    BY <1>1, <1>2

\* Nobody has answered at the start.
LEMMA AnswerInit == Init => AnswerInv
BY DEF Init, AnswerInv

\* Every step, also of nobody, keeps AnswerInv.
LEMMA AnswerNext == TypeOK /\ AnswerInv /\ [Next]_vars => AnswerInv'
<1> SUFFICES ASSUME TypeOK, AnswerInv, [Next]_vars PROVE AnswerInv'
    OBVIOUS
<1>1. CASE \E w \in Workers : Step(w)
    BY <1>1, AnswerStep
<1>2. CASE UNCHANGED vars
    BY <1>2 DEF AnswerInv, KeyMatches, usr_name, vars
<1> QED
    BY <1>1, <1>2 DEF Next, Finished

\* Whatever fails, Worker::Proceed behaves as the abstract sale: every "1" is
\* answered for one new order of a registered user and one item taken, or for a
\* COMMIT that was lost and left both as they were; every "0" leaves no trace in
\* MySQL.
THEOREM Implements == Spec => ImplementsSale
<1>1. Init => TheSale!SaleInit
    BY DEF Init, TheSale!SaleInit
<1>2. SafeInv /\ AnswerInv /\ [Next]_vars => [TheSale!SaleNext]_(TheSale!saleVars)
    <2> SUFFICES ASSUME SafeInv, AnswerInv, [Next]_vars
                 PROVE  [TheSale!SaleNext]_(TheSale!saleVars)
        OBVIOUS
    <2>1. CASE \E w \in Workers : Step(w)
        BY <2>1, SaleStep DEF TheSale!SaleNext
    <2>2. CASE UNCHANGED vars
        BY <2>2 DEF vars, mysqlVars, TheSale!saleVars
    <2> QED
        BY <2>1, <2>2 DEF Next, Finished
<1>3. SafeInv => TypeOK
    BY DEF SafeInv
<1> QED
    BY <1>1, <1>2, <1>3, AnswerInit, AnswerNext, Safe, PTL DEF Spec, ImplementsSale, TheSale!SaleSpec

-----------------------------------------------------------------------------
(***************************************************************************)
(* The answers and the table agree, unless a COMMIT is lost.               *)
(***************************************************************************)
LEMMA OrdersStep ==
    ASSUME "commit_drop" \notin Faults, SafeInv, AnswerInv, OrdersMatchAnswers,
           NEW w \in Workers, Step(w)
    PROVE  OrdersMatchAnswers'
<1>1. request' = request
    BY AnswersChange
<1>2. CASE Commit(w)
    <2>0. LockAt(w)
        BY LockInvAt DEF SafeInv
    <2>1. /\ usr_name(w) \notin order_info
          /\ order_info' = order_info \union {usr_name(w)}
        BY <1>2, <2>0 DEF Commit, CommitTx, At, LockAt
    <2>2. response' = [response EXCEPT ![w] = "1"]
        BY <1>2 DEF Commit
    <2>3. Winners' = Winners \union {w}
        BY <2>2 DEF Winners, SafeInv, TypeOK
    <2>4. \A v \in Winners : usr_name(v) # usr_name(w)
        BY <2>1 DEF OrdersMatchAnswers
    <2> QED
        BY <1>1, <2>1, <2>3, <2>4 DEF OrdersMatchAnswers, usr_name
<1>3. CASE ~Commit(w)
    <2>1. UNCHANGED order_info
        BY <1>3, TablesChange DEF SafeInv
    <2>2. Winners' = Winners
        BY <1>3, AnswersChange DEF Winners, SafeInv, TypeOK
    <2> QED
        BY <1>1, <2>1, <2>2 DEF OrdersMatchAnswers, usr_name
<1> QED
    BY <1>2, <1>3

\* The users told "1" are exactly those with a row in order_info, and none is
\* told so twice.
THEOREM AnswersCorrect ==
    ASSUME "commit_drop" \notin Faults
    PROVE  Spec => []OrdersMatchAnswers
<1>1. Init => OrdersMatchAnswers
    BY DEF Init, OrdersMatchAnswers, Winners
<1>2. SafeInv /\ AnswerInv /\ OrdersMatchAnswers /\ [Next]_vars => OrdersMatchAnswers'
    <2> SUFFICES ASSUME SafeInv, AnswerInv, OrdersMatchAnswers, [Next]_vars
                 PROVE  OrdersMatchAnswers'
        OBVIOUS
    <2>1. CASE \E w \in Workers : Step(w)
        BY <2>1, OrdersStep
    <2>2. CASE UNCHANGED vars
        BY <2>2 DEF vars, mysqlVars, OrdersMatchAnswers, Winners, usr_name
    <2> QED
        BY <2>1, <2>2 DEF Next, Finished
<1>3. SafeInv => TypeOK
    BY DEF SafeInv
<1> QED
    BY <1>1, <1>2, <1>3, AnswerInit, AnswerNext, Safe, PTL DEF Spec
=============================================================================
