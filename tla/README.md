# Verification of the seckill (flash sale) server

TLA+ modules, TLC runs and TLAPS proofs for the C++ gRPC server in `src/GRPC/src`: 500 clients compete for 50 items; Redis
decides quickly, MySQL records the orders.  Line numbers below are those of `src/GRPC/src/*`.

## 1. Inventory

| Part | State | Operations | Correct means |
|---|---|---|---|
| **Request handler** `Worker.cc` (PROCESS branch of `Proceed`, `checkUserInfo`, `checkUserHasGot`, `seckillGoods`, `seckillGoods_mysql` and the `_mysql` fallbacks) | Redis: `total_count`, hash `order_info`, hash `usr_info`, the WATCH of each connection. MySQL: `goods_info`, `order_info`, row lock. Memory: `failedCount_` under `rwlock_`, `successNum_` | one request: check key, check duplicate, WATCH/GET/MULTI/EXEC, then SELECT FOR UPDATE/UPDATE/INSERT/COMMIT; failed orders are counted and offered again when Redis is sold out | no oversell, one order per user, answers agree with the table, no item lost, every request answered |
| **Server loop** `seckill_server.cc` (`Run`, `HandleRPCS`) and the **life of a Worker** (`CREATE`, `PROCESS`, `FINISH`) | completion queue, Redis list `work_list`, `sucNum_` | gate (`llen work_list` against `50 - sucNum_`), `Next`, `Proceed` | one listener always, no Worker used after `delete this`, bounded admission, no thread waits for ever |
| **MysqlPool**, **RedisPool** | queue of idle connections, `connect_count` | `getOneConnect`, `close` | one owner per connection, exact count, limit respected |
| **Preparation** `prepareForSeckill` | both stores | creates and fills tables, loads users and stock into Redis | both stores start equal, also after a failure or a restart |
| **Test client** `seckill_client.cc` | `response_count`, `success_count`, the pool singleton | 500 threads, final check | the check runs, on final numbers, and misses no oversell |
| **Md5** | context: length, buffer, state | `md5_starts`, `md5_update`, `md5_finish` | the blocks of RFC 1321, whatever the length |

Interaction: 20 threads run `HandleRPCS`; each takes an event from the one completion queue and calls `Proceed` of the Worker it
names.  A Worker borrows one Redis and one MySQL connection, answers, and is deleted when gRPC reports that the answer is
written.  All threads share Redis, MySQL, the two pools, `failedCount`, `sucNum_` and the rwlock.

Hard behaviour: the two stores are updated one after the other with no common transaction; any call may fail, or succeed with
its reply lost; counters are read long before they are used; the gate holds back the events that would open it; the container
restarts after an abort and prepares the sale again.  `PROJECT.json` lists the hazards line by line.

## 2. Modules

| Module | Models |
|---|---|
| `Sale` | abstract specification: stock, orders, one answer per request (`Buy`, `Refuse`, and `Lose` where a COMMIT can be lost); `Seckill` implements it, and so does `Deployment` while a process serves |
| `Seckill` | the handler; one step per Redis command, SQL statement or access to shared memory |
| `Server` | threads, gate, queue and Worker life cycle; the handler is one step of `Sale`, which `Seckill` implements |
| `MysqlPool`, `RedisPool` | the pools; each operation is atomic because `poollock` covers it |
| `Pools` | composes the two pools with `prepareForSeckill` and the threads, which borrow from both |
| `Stores` | the two stores and the failures, shared by the next three |
| `Prepare` | `main` and `prepareForSeckill`: one step per statement or command, and the restart of the container |
| `Client` | the test client: threads, counters, `checkSeckillInfo` |
| `Deployment` | composes `Prepare` and `Client` with a handler of four steps; crashes of the server |
| `Md5` | how `GenerateMD5` cuts a message into blocks |
| `SeckillProofs` | theorems about the MySQL half of `Seckill` and the refinement of `Sale` |
| `ReservationProofs` | theorems about the Redis half of `Seckill` |
| `ServerProofs`, `PoolsProofs`, `DeploymentProofs`, `Md5Proofs` | theorems about the module they are named after |
| `MCSeckill`, `MCServer`, `MCPools`, `MCDeployment` | instances for TLC |

### Seckill

`pc[w]` names the call worker `w` makes next, with the command's name (`"WATCH"`, `"EXEC"`, `"SELECT"`...).  One worker serves
one request, so `Workers` is the set of requests in flight; each has a thread of its own, which is the case the code's 20
threads allow for up to 20 of them.

*Redis.* `conn[w]` is the state of the borrowed context.  `Replies`, `Refused` and `ReplyLost` are the three outcomes of
`redisCommand`; a context that has failed refuses everything (hiredis keeps `err` set).  `watch[w]` becomes `dirty` when another
connection writes `total_count`.  DECR and HMSET are queued after MULTI and take effect in `ExecOk`, atomically.

*MySQL.* Committed state is `g_totalcount` and `order_info` (its primary key is the user name); `tx[w]` holds the open writes,
`rowLock` the lock on goods row '10'.  A statement can fail with the transaction open (`mysql_error`, e.g. a lock wait
timeout) or with the connection (`mysql_drop`, which makes the server roll back).  The result of `mysql_commit` is ignored by
the code; `commit_drop` makes it matter: the user is told "1" and nothing has happened, which is the step `Lose` of `Sale`.

*Shared memory.* The rwlock is only ever write-locked.  `++ *successNum_` is a data race in the code: a load and a store.

*Recursion* of `seckillGoods` is the loop `WATCH -> ... -> retry -> WATCH` with `repeatCount`.

*NULL context.* The bundled hiredis dereferences it, so with `RedisNullSafe = FALSE` an unreachable Redis ends the process at
the LPUSH of `Proceed` (`StartCrash`).  The fallback functions are nevertheless modelled; `RedisNullSafe = TRUE` asks what they
would do behind a client library that returns an error instead.  No run mixes this up: only `seckill_fallback` sets it.

### Server

A thread is at `loop`, `llen`, `gate`, `Next` or inside `Proceed`.  `sucNum_` is read twice, before and after LLEN, as in the
code.  The queue is FIFO; gRPC may delay a request (`Arrive`) or the completion of `Finish` (`Written`) for any time.  The event
of a `Finish` whose client has gone has `ok = false`, and `GPR_ASSERT(ok)` aborts.  `workingNum` and the register of the
increment are reset when they go out of scope.  What a worker does for its request is one step of `Sale`: `Buy` and `Lose` lead to
`++ *successNum_`, `Refuse` does not.  With `commit_drop` in `Faults` the Worker counts a success whose COMMIT was lost, as the code does
(`Worker.cc:381-383`); the gate can then be lifted with items left, which is why the properties about the gate exclude it.

### Pools

`MysqlPool.Pinged(k)` says that the ping loop closes the first `k` connections.  `RedisPool` hands out contexts untested and does
not count them, so that its limit is never met; what bounds it is that a context is only opened when the queue is empty
(`ContextsBounded`).  In `Pools` `main` borrows one of each for `prepareForSeckill` and gives both back (`PrepareReturns`), or frees the
context and keeps the MySQL connection for ever, which is what the return after a failed HMSET does (`PrepareLeaks`,
`seckill_server.cc:229-230`), or ends the process (`PrepareEnds`).  Then a thread borrows a context alone (the gate and the FINISH branch) or a context and then a MySQL
connection (PROCESS), and gives them back in the order of the code; a command on the context of an unreachable Redis ends the
process (`NullCommand`).

### Prepare, Client, Deployment

`Prepare!pc` is the next call of the server process, `"Run"` when it serves and `"down"` when it has ended.  MySQL and Redis
outlive the process; `Nil` is a missing table or key.  The results the code does not look at are not looked at: a failed
`CREATE`, `INSERT` or `DROP` only sets the history variable `failed`.  A failed `SELECT` is `exit(1)`, a failed HMSET or SET ends
the preparation and the server runs all the same.  `WellFormed` says whether the `VALUES` list of the users parses.  The first
process finds a new database or one like that under `components/mysql/data` (users 1 to 300, an earlier sale).

In `Client` a thread's `cpc` goes `create`, (the call), `lock`, `unlock`, `test`, and for those that see the last response through
the steps of `checkSeckillInfo`.  The two increments are separate steps because the test of `response_count` is outside the mutex.
`executeSql` is part of `CheckOrders`; the row pointers it returns are dangling, so `containsDuplicate` may say anything of two
rows.  A thread that uses the pool another one has deleted may crash the client (`UseAfterDelete`) or go on; one that gets no MySQL
connection crashes it at the first query (`NullCrash`).

`Deployment` moves a call through `sent`, `checked` (the two checks have passed), `booking` (reserved in Redis, nothing in MySQL yet) or
`soldOut` (GET has answered 0, the rwlock is not taken yet) and `answered`.  Between any two of these another handler may act, so two
requests of one user can both pass the duplicate check, and a SET may overwrite a `total_count` that another handler has just
set.  `Reserve` is WATCH to EXEC when EXEC is not aborted; an abort that is retried changes nothing, one that is not is `Surrender`.
`Book` may lose its COMMIT.  `Crash` may come between any two steps, and then every call without an answer is "RPC failed".  `NilCrash` is
`atoi(reply->str)` of a nil reply, when no preparation has come to SET.  `before` and `lost` are history variables: whom earlier
processes told "1", and whom this one told so although the COMMIT was lost.  Failures of the handler's own Redis commands are left to
`Seckill`, the gate to `Server`: it delays calls, for ever if it must, and nothing in `Deployment` depends on an answer being given.

### Md5

A byte is known by where it comes from: the message and a place in it, or a number of bits and a place in the word that holds it.
`ctx.state` is the sequence of blocks given to `md5_process`; equal sequences give equal digests.  In the code `Block` is 64 and
`WordLen` is 4, so that the two words of the length take 8 bytes and `padn` is `56 - last` or `120 - last`.  `md5_update` is in closed form: the block it completes, the whole blocks, the rest that is buffered.

Operators such as `NoWatch`, `LaxGate` or `PopsBack` are seeded bugs: each precedes the definition it corrupts, is used by no
action, and is substituted for it to see that the property meant to catch it does.

## 3. Runs

| Run | Bounds | Checks |
|---|---|---|
| `seckill_contention` | 4 workers, 2 users, 2 items, RETRYCOUNT 2, no failure | `ReservationBudget`: Redis never offers or lends more than MySQL has; `OrdersAreMarked`: every order is known to the duplicate check; `SomebodyWins` |
| `seckill_fallback` | 3 workers, valid, wrong-key and unknown requests, 2 items; failing calls, Redis or MySQL unreachable for some | `StockMatchesOrders`, `RowLockProtects`, `OrdersMatchAnswers`, `ImplementsSale` |
| `seckill_liveness` | 2 workers, 1 item, every failure, lost replies and COMMITs included, fairness | `TypeOK`, `NoWatchLeak`, `StockMatchesOrders`, `ImplementsSale`, `RequestsAreAnswered` |
| `server_gate` | 2 threads, 4 requests, 2 items | `WorkListCounts`, `AdmissionBound`, `OpenGateMeansSoldOut` |
| `server_liveness` | 2 threads, 2 requests, 6 items, lost commands and COMMITs, leaving clients, 1 stale entry, fairness | `TypeOK`, `OneListener`, `OneOwner`, `RequestsAreAnswered`, `WorkersAreDeleted` |
| `pools` | `main` and 3 threads, MySQL limit 4, 4 connections, 5 contexts | `TypeOK`, `CountIsExact`, `OneOwner`, `NeverTooMany`, `HandsOutLive`, `ContextOneOwner`, `ContextsBounded` |
| `deployment` | 3 client threads (one user twice, another once), 2 items, 2 starts, every failure, crashes anywhere | `TypeOK`; `CacheNeverAhead`: Redis never offers more than MySQL has, whatever failed; `StartRepairs`: a start without failures restores the initial state of `Seckill`; `SuccessesAreOrders`: the successes of a process are its orders; `SoldPerStart`: a process sells at most one stock, even when COMMITs are lost; `ChecksSeeFinalCount`; `SomebodyChecks`: the client does not end without a verdict; `OversellIsReported`: it notices when two processes sell more than there is; `ServesTheSale`: while a process serves, every step is one of `Sale` |
| `md5` | blocks of 8 bytes, words of 2, messages of 0 to 63 bytes | `TypeOK`, `DigestIsRFC` |

Why the bounds are enough.  Four workers on two items with two users give: two requests of one user that both pass the
duplicate check and both reserve, a failed order that goes back to Redis, a worker that sees zero and hands it back, and one
that buys it.  RETRYCOUNT 2 reaches both the second attempt and the surrender.  Three workers suffice for the lock: a holder, a
waiter and a third that fails.  In `server_gate` the limit of two is passed by two threads at once, so the bound
`Goods - 1 + Threads` is met.  In `pools` the number of borrowers, `main` with the connection it may keep among them, equals the limit, so one connection counted too
many is noticed; the fifth context allows one more than there are borrowers.  `MCPools!LowestFirst` gives a new connection the lowest
free number, since which object it is makes no difference.  Symmetry is used where no fairness is assumed.

In `deployment` two starts are one that leaves something behind and one that finds it.  With two items and three threads a process can
have two winners, two processes can sell more than there is, and three successes, which the second start must not reach alone, are
possible: without the reset of the stock, or with a count in Redis that goes too far, `SoldPerStart` fails.  Two of the threads send
the same name, so that both pass the duplicate check and only the primary key separates them.  `NoComma = Users` makes the `INSERT` of the
users parse, so that there is somebody to sell to on a new database (`deployment_users` is about the other case); the databases that are
not new are left to the proofs, as are other draws of the names.  `MCDeployment!InOrder` takes steps that commute in one order only and
leaves out those that nobody can see: steps in the client's own memory wait until all calls have ended, and from then on the server
only does what the two queries of `checkSeckillInfo` could see.  The theorems need neither restriction: they are about `Deployment!Spec`.
In `md5` messages end at each of the eight places of a block, after none to seven whole blocks, and the padding wraps `total[0]`.

Runs that disagree with a statement of the repository (each has a finding with the quotation):

| Run | Shows |
|---|---|
| `seckill_overwritten_return` | nothing fails; a late SET of `total_count` overwrites items just handed back (5 workers, 3 items) |
| `seckill_redis_down` | an unreachable Redis ends the process; the documented fallback is not reached |
| `server_livelock` | every thread spins at the gate, FINISH events wait behind it, a request is never answered |
| `deployment_users` | nothing fails; a server serves without knowing all the users the client takes for registered |

Other things the modelling showed, which have no run of their own:

- A failed `SELECT ... FOR UPDATE` takes the sold-out return, so the item is neither sold nor returned (`SelectFails`, `Worker.cc:348`).
- The result of `mysql_commit` is ignored: with `commit_drop` a user is told "1" without an order (`Worker.cc:381`).
- `++ *successNum_` loses successes (`IncRead`, `IncWrite`); as long as no COMMIT is lost `OpenGateMeansSoldOut` holds all the same, because
  the counter only gets smaller.  A lost COMMIT is counted as a success and takes no stock: the gate may then be lifted with an item
  left in MySQL, and the bound on admissions goes with it.
- A user whose order failed in MySQL stays in the Redis hash `order_info` and is refused from then on.
- `RedisPool::createOneConnect` never increments `connect_count`: `redispool.h`'s limit is not enforced and the destructor takes
  the unsigned counter below zero.
- Two client threads can both run the check and delete the pool; the client may then crash before a verdict.
- `Random(400)` is 0 to 399: the test data take user 0 for registered and user 400 for unregistered; without an argument all
  requests are of user 0.
- `uint32` is `unsigned long`, 64 bits wide on the target, and `total[0] < length << 3` compares with a number that is not cut: the
  length of a message of 2^29 bytes or more would be counted wrongly.  `Md5Assumption` excludes it; the program hashes at most 10 bytes.
- A preparation that fails at HMSET frees its Redis context and does not return its MySQL connection (`PrepareLeaks`); the pool's limit of 30
  leaves room for it beside the 20 threads (`NeverTooMany`).
- The client does not look at the connection `getOneConnect` returns; without MySQL its check crashes (`NullCrash`).

Fairness.  `Seckill!FairSpec`: weak fairness of each worker, since each runs on a thread of its own and no call of the code waits
without a limit (Redis and MySQL answer or the connection fails; InnoDB and the rwlock go to somebody when they are free).
`Server!FairSpec`: weak fairness of each thread and of gRPC's deliveries; clients promise nothing.  `server_livelock` is found under
this fairness, so it is not a matter of an unlucky scheduler.  `Deployment` assumes none: because of the gate a call that was sent need
not be answered, so `SomebodyChecks` is about the end of the client, if it comes to it, and not about its coming.

## 4. Proofs

The theorems hold for every value of the constants that the modules' assumptions allow: any finite set of workers or threads,
any stock, retry count and set of requests, and any set of failures unless a hypothesis says otherwise.  TLC evaluates the
assumptions in the passing runs.  Every safety property of the passing runs has its theorem.

### Seckill, the MySQL half (`SeckillProofs`)

| Theorem | Property | Hypothesis |
|---|---|---|
| `TypeCorrect` | `TypeOK` | |
| `StockSafe` | `StockMatchesOrders` | (even when COMMITs are lost) |
| `LockSafe` | `RowLockProtects` | |
| `AnswersCorrect` | `OrdersMatchAnswers` | `"commit_drop" \notin Faults` |
| `Implements` | `ImplementsSale` | (a lost COMMIT is `Lose`) |

`StockMatchesOrders` is not inductive: a COMMIT writes `seen - 1`, so one must know that `seen` is current
(`RowLockProtects`) and that the transaction holds both writes or is rolled back (`WritesFollowIsSuc`: `isSuc` decides which
writes are open at each place).  `LockInv` is their conjunction; `LockFromOwn` reduces each step to the worker that takes it,
because the others are `Undisturbed`.  `TablesChange` then says that the committed tables only change in `Commit`, by one new
order and one item, and `StockStep` adds up the cardinalities.  For the refinement `AnswerInv` adds that a worker answers once
and has passed `checkUserInfo`; `SaleStep` maps `Commit` to `Buy`, or to `Lose` if it is lost, an answer "0" to `Refuse` and everything else
to a stutter.  `LossyCommit` of `Sale` is `"commit_drop" \in Faults`: without that failure `Lose` is disabled, and every "1" comes with an
item and an order.  `AnswersCorrect` needs the hypothesis: a lost COMMIT is answered "1" (section 3).

### Seckill, the Redis half (`ReservationProofs`)

| Theorem | Property | Hypothesis |
|---|---|---|
| `WatchesEnd` | `NoWatchLeak` | |
| `OrdersMarked` | `OrdersAreMarked` | `NoFallback` |
| `BudgetKept` | `ReservationBudget` | `NoFallback`, `"redis_lost" \notin Faults` |
| `SomebodyBuys` | `SomebodyWins` | `Faults = {}` |

`NoFallback` says that no request is served without Redis.  It holds of the bundled hiredis (`RedisNullSafe = FALSE`), with which
an unreachable Redis ends the process; behind the fallback a user orders in MySQL and is in no Redis hash.  `"redis_lost"` is excluded
because an EXEC or SET that was carried out and whose reply is lost is taken for one that was not: after such a SET the items stay
recorded in `failedCount` and are offered again, so the budget really is exceeded.

- `WatchInv` adds to `NoWatchLeak` where a healthy connection may watch at all (`Watching`).
- `MarkInv` adds that a worker from SELECT to COMMIT has its user in the Redis hash (`Booked`): EXEC put it there.
- `ReservationBudget` needs two facts about other workers.  `CleanInv`: at EXEC an undisturbed watch means that the positive
  number GET returned still stands, so DECR stays above or at zero.  `RwlockInv`: the rwlock is held exactly from the reading
  of `failedCount` to its release, so that what one worker hands back nobody else changes.  From MySQL's side `LockInv` gives that
  a COMMIT takes one item for one worker in flight.
- `SomebodyWins` is about the end of a run.  `FirstBuyerInv` says of every state before the first success that somebody has
  reserved, or that nobody has touched `total_count` (`Untouched`): then no watch is dirty, so the next EXEC succeeds, and nobody
  with a valid request can have been refused.

### Server (`ServerProofs`)

| Theorem | Property | Hypothesis |
|---|---|---|
| `TypeCorrect` | `TypeOK` | |
| `WorkersOwned` | `OneOwner` | |
| `ListensOnce` | `OneListener` | |
| `WorkListExact` | `WorkListCounts` | `"redis_drop" \notin Faults` |
| `GateOpensWhenSoldOut` | `OpenGateMeansSoldOut` | `"commit_drop" \notin Faults` |
| `AdmissionIsBounded` | `AdmissionBound` | `"redis_drop" \notin Faults`, `"commit_drop" \notin Faults` |

- `TypeInv` adds to `TypeOK` that a thread past `Next` has a Worker (`HasJob`).
- `OwnInv` replaces the sum of `OneOwner` by what an induction can use: events name different Workers, so do threads; a Worker is
  alive exactly when it is in one of the three places; and the places exclude each other.
- `ListenInv` names the one accepted request that `OneListener` counts.
- `SoldInv` says why the lost updates of `sucNum_` are harmless: the counter and every register a thread has loaded from it,
  plus the increments still to come, do not exceed the number of winners, and winners and stock add up to `Goods`.  The latter is where
  a lost COMMIT, a winner who takes no stock, is excluded.
- `AdmitInv` counts with `work_list` every thread that has read a length below the limit or is past the gate (`InFlight`):
  each may push at any later time.  A lost LPUSH or LPOP makes the list drift, and a gate that is lifted while goods are left admits
  anybody, hence the two hypotheses.

### Pools (`PoolsProofs`)

`TypeCorrect` (`TypeOK`), `CountExact` (`CountIsExact`), `ConnectionOneOwner` (`OneOwner`), `LimitNeverMet` (`NeverTooMany`),
`LiveConnections` (`HandsOutLive`), `ContextsOwned` (`ContextOneOwner`), `ContextsNeverTooMany` (`ContextsBounded`); no hypothesis
beyond the assumption that there are at most `MAX_CONNECT` borrowers (20 threads and `main`, and 30, in the code).

`Owned` is the common core: queue entries differ, holders differ, and nobody holds what is in the queue.  For MySQL `Connected` adds
that both kinds have been opened, so that a new connection is none of them; The connection `main` may keep is one it holds, so
nothing of this changes.  `CountIsExact` with `Owned` bounds
`connect_count` by the threads whenever the queue is empty, which is `NeverTooMany`.  For Redis `OpenedIsOwned` says that no context
is lost, and `ContextsBounded` follows because one is opened only when the queue is empty and the opener holds none.

### Deployment (`DeploymentProofs`)

`TypeCorrect` (`TypeOK`), `CacheSafe` (`CacheNeverAhead`), `StartsRepair` (`StartRepairs`), `SuccessesOrdered`
(`SuccessesAreOrders`), `ChecksFinal` (`ChecksSeeFinalCount`), `VerdictGiven` (`SomebodyChecks`), `OversellReported`
(`OversellIsReported`), `OversellBounded` (`SoldPerStart`), `ServesSale` (`ServesTheSale`); no hypothesis beyond the constants' assumptions (`MaxStarts` is at least 1, since
the initial state has a process; `Nil` is neither a number nor a set of users).

- `BaseInv`: a process that does not serve has nothing in its memory (`MemoryInv`), only registered users reserve (`NamesInv`),
  and the local copy that SET stores is the stock of MySQL (`LocalInv`).  With these `CacheInv` is inductive: a preparation only
  raises the stock of MySQL before it raises that of Redis, whichever of its statements fail.
- `ProgressInv` says for each `pc` which parts of a preparation without failures are done; at `"Run"` it is `StartRepairs`.
- `ProcessSale` relates the winners of the process that serves to `order_info`, whichever process it is: an order comes with its answer,
  and while none serves all winners are those of earlier ones.  An order that the preparation failed to drop is why equality needs
  `~failed`.
- `CountInv` says that `success_count` counts the winners that have passed the mutex and `response_count` those that have left
  it.  A thread that sees `response_count` complete therefore knows that everyone has counted.  `VerdictInv` carries that knowledge
  to the verdict.
- `CheckInv` says that once everybody has responded somebody still has the test before him or is past it with success: the last one to
  respond tests later than that.  At the end of all threads this is `SomebodyChecks`.
- `BudgetInv` is why a process sells one stock at most although a lost COMMIT leaves MySQL's count as it was: what this process has sold,
  what Redis offers, what is reserved and what is to be returned are together within `Goods`.  It holds when a process begins to serve
  because no preparation leaves more than `Goods` in either store (`TypeCorrect`), and a late SET only replaces the count by
  returned items, which it takes out of `failedCount`.
- `SaleStep` maps `Book` with an order to `Buy` or, without its COMMIT, to `Lose`, every answer "0" to `Refuse` and the rest to stutters; `ReplyInv` gives that the
  request is unanswered and `NamesInv` that its user is registered.  With `StartRepairs`, which gives the initial stock and no
  orders, this is the sale of `Sale` between two ends of the process; after a preparation that failed it is one of fewer items, or
  one in which some users have an order already.

### Md5 (`Md5Proofs`)

`TypeCorrect` (`TypeOK`), `DigestCorrect` (`DigestIsRFC`) and `Streaming`, for every `Block`, `WordLen` and `Word` that `Md5Assumption`
allows (64, 4 and 2^32 among them) and every message shorter than `Word` bits.

- `Represents(c, s)` says what a context owes a stream `s`: the whole blocks of `s` are compressed, in order, the buffer holds
  what follows them (and anything behind that), and `total[0]` is the number of bits, cut to a word.
- `Streaming` is about `md5_update` alone: a context that represents `s`, given any `input`, represents `s \o input`.  Its cases
  are those of the code: the input completes the buffer (`Filled`, then `UpdateAligned`), the buffer is empty (`UpdateAligned`), or
  the input stays in it (`UpdateShort`).  It does not depend on the length of the message: `TotalPlace` shows that the place in
  the buffer survives the wrap of `total[0]`, because a word counts a whole number of blocks.
- `Md5Inv`, the inductive invariant: at each `pc` the context represents what `GenerateMD5` has given to `md5_update` so far, and
  `msglen` was taken before the padding was counted.  `GivenIsPadded` identifies the whole with the padding of RFC 1321, where
  `FewestZeros` is the arithmetic of `padn`.
- Positions are quotients and remainders by the symbolic `Block`, which the SMT solver does not decide by itself: `Division`,
  `DivisionUnique`, `Aligned` and `BlockPlace` state what is needed of them, and the rest of the proof hides products.

### Only model-checked

Liveness (`RequestsAreAnswered`, `WorkersAreDeleted`): fairness is out of the prover's reach.  The
counterexamples of the violation runs are what they are: no theorem states their properties.

## 5. Plan

Done in this order: `Seckill` with `Sale`, `Server`, the pools, `Prepare`, `Client` and `Deployment`, `Md5`; then the proofs of the
same modules.  Every part of the inventory has its module, up to what section 6 lists, and every safety property of a passing run
its proof.  What is left is liveness, which stays with TLC, and a `Deployment` whose handler is `Seckill` itself, step by step: its
state space is the product of the two, and the interface between them (a reservation, an order, an answer) is what
`ServesTheSale` and `ImplementsSale` state on either side.

## 6. Not modelled

Vendored code: `src/GRPC/src/include` (the headers of hiredis and of the MySQL client), build files and the data under
`components/`.  These headers are by far the largest part of the tree (the program's own sources are 1900 lines), but they
declare an interface and keep no state of this program; what the program needs of them is in the operators marked external.
Of the program's own lines the rest are includes, declarations, logging, the formatting of `MD5::ToString`, members of `MD5`
that nothing calls, the constructors and destructors of the pools, and the creation of their singletons, which the server
performs before it has threads.

Message contents beyond user and key.  Memory leaks (replies not freed on early returns, the `MYSQL` object of a failed connect).
The joins at the end of `Run` (it joins `tids[0]` twenty times), since the threads never return.  InnoDB gap locks, which
`checkUserHasGot_mysql` releases before it returns.  Loss of Redis data while the server runs.  The rounds of `md5_process`: TLC's
integers have 32 bits with a sign, and the digests of the shipped database show that they are right.
