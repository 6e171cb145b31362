------------------------------- MODULE Server -------------------------------
(***************************************************************************)
(* ServerImpl::HandleRPCS (seckill_server.cc) and the life of a Worker     *)
(* (Worker.cc): the threads that wait at the admission gate, take events   *)
(* from the one completion queue and run Worker::Proceed.                  *)
(*                                                                         *)
(* What a worker does for its request between LPUSH and Finish is one step *)
(* of the abstract sale (Sale.tla), which Seckill.tla implements; here the *)
(* worker, the request and the client that sent it are one identifier.     *)
(* gRPC is modelled from its use: a request is matched with the one        *)
(* outstanding Requestseckill, and both it and Finish end in an event.     *)
(***************************************************************************)
EXTENDS Integers, Sequences, FiniteSets

CONSTANTS
    Threads,       \* the WORKER_NUM threads of Run
    Workers,       \* one Worker object per request
    None,          \* no Worker
    Requests,      \* the contents of the requests
    usr_info,      \* the registered users
    Goods,         \* the 50 of HandleRPCS and of prepareForSeckill
    StaleEntries,  \* length of work_list left behind by an earlier process
    Faults         \* of ServerFaults, the failures the environment may inject

(***************************************************************************)
(* redis_drop   a command on work_list is not executed                     *)
(* client_gone  a client goes away before its answer is written            *)
(* commit_drop  the COMMIT of a purchase is lost, which the Worker does    *)
(*              not notice: it counts the success and answers "1"          *)
(***************************************************************************)
ServerFaults == {"redis_drop", "client_gone", "commit_drop"}

ASSUME ThreadsAssumption == IsFiniteSet(Threads) /\ IsFiniteSet(Workers) /\ None \notin Workers
ASSUME GateAssumption == Goods \in Nat /\ StaleEntries \in Nat /\ Faults \subseteq ServerFaults

VARIABLES
    alive,         \* the process has not been aborted by an assertion
    client,        \* the client behind each request, which has sent it
    \* gRPC
    accepting,     \* a Requestseckill is outstanding
    cq,            \* the completion queue: [worker, ok] events
    writing,       \* workers whose Finish has not completed
    \* the threads
    pc, workingNum, job,
    num,           \* the value of sucNum_ a thread is incrementing
    \* shared state
    status,        \* status_ of each worker, with its life before and after
    work_list,     \* length of the Redis list work_list
    sucNum_,
    \* the sale
    request, g_totalcount, order_info, response

TheSale == INSTANCE Sale WITH asked <- request, stock <- g_totalcount,
                              orders <- order_info, answer <- response,
                              LossyCommit <- "commit_drop" \in Faults

saleVars == <<request, g_totalcount, order_info, response>>
grpcVars == <<accepting, cq, writing>>
threadVars == <<pc, workingNum, job, num>>
sharedVars == <<status, work_list, sucNum_>>
vars == <<alive, client, grpcVars, threadVars, sharedVars, saleVars>>

TypeOK ==
    /\ alive \in BOOLEAN
    /\ client \in [Workers -> {"waiting", "answered", "gone"}]
    /\ accepting \in BOOLEAN
    /\ cq \in Seq([worker : Workers, ok : BOOLEAN])
    /\ writing \subseteq Workers
    /\ pc \in [Threads -> {"loop", "llen", "gate", "Next", "Proceed", "accept",
                           "seckill", "incRead", "incWrite", "Finish"}]
    /\ workingNum \in [Threads -> Nat]
    /\ job \in [Threads -> Workers \union {None}]
    /\ num \in [Threads -> Nat]
    /\ status \in [Workers -> {"none", "PROCESS", "FINISH", "deleted"}]
    /\ work_list \in Nat
    /\ sucNum_ \in Nat
    /\ g_totalcount \in Nat
    /\ order_info \subseteq {r.usrname : r \in Requests}
    /\ response \in [Workers -> {"none", "0", "1"}]

\* Run has created the first Worker, whose constructor has called Proceed.
Init ==
    /\ alive = TRUE
    /\ client = [w \in Workers |-> "waiting"]
    /\ accepting = TRUE
    /\ cq = <<>>
    /\ writing = {}
    /\ pc = [t \in Threads |-> "loop"]
    /\ workingNum = [t \in Threads |-> 0]
    /\ job = [t \in Threads |-> None]
    /\ num = [t \in Threads |-> 0]
    /\ status = [w \in Workers |-> "none"]
    /\ work_list = StaleEntries
    /\ sucNum_ = 0
    /\ TheSale!SaleInit

-----------------------------------------------------------------------------
(***************************************************************************)
(* The clients and gRPC.                                                   *)
(***************************************************************************)
\* A client dies or closes its channel before it has the answer.
Leave(w) ==
    /\ "client_gone" \in Faults
    /\ client[w] = "waiting"
    /\ client' = [client EXCEPT ![w] = "gone"]
    /\ UNCHANGED <<alive, grpcVars, threadVars, sharedVars, saleVars>>

\* A request meets the outstanding Requestseckill.
Arrive(w) ==
    /\ alive /\ accepting
    /\ client[w] = "waiting" /\ status[w] = "none"
    /\ accepting' = FALSE
    /\ status' = [status EXCEPT ![w] = "PROCESS"]
    /\ cq' = Append(cq, [worker |-> w, ok |-> TRUE])
    /\ UNCHANGED <<alive, client, writing, threadVars, work_list, sucNum_, saleVars>>

\* Finish completes: its event says whether the answer could be written.
Written(w) ==
    /\ alive
    /\ w \in writing
    /\ writing' = writing \ {w}
    /\ cq' = Append(cq, [worker |-> w, ok |-> client[w] = "waiting"])
    /\ client' = [client EXCEPT ![w] = IF @ = "waiting" THEN "answered" ELSE @]
    /\ UNCHANGED <<alive, accepting, threadVars, sharedVars, saleVars>>

-----------------------------------------------------------------------------
(***************************************************************************)
(* HandleRPCS.  ComparesSuccesses, LaxGate and, further down, NoNewWorker, *)
(* EverybodyCounts, NoPop, BelowZero and NoDelete are seeded bugs: each    *)
(* has the shape of the definition that follows it, and no action uses it. *)
(***************************************************************************)
At(t, label) == alive /\ pc[t] = label

Goto(t, label) == pc' = [pc EXCEPT ![t] = label] /\ UNCHANGED alive

\* if (sucNum_ < 50)
Loop(t) ==
    /\ At(t, "loop")
    /\ Goto(t, IF sucNum_ < Goods THEN "llen" ELSE "Next")
    /\ UNCHANGED <<client, grpcVars, workingNum, job, num, sharedVars, saleVars>>

\* LLEN work_list; without a reply the thread goes on to the queue.
Llen(t) ==
    /\ At(t, "llen")
    /\ \/ Goto(t, "gate") /\ workingNum' = [workingNum EXCEPT ![t] = work_list]
       \/ "redis_drop" \in Faults /\ Goto(t, "Next") /\ UNCHANGED workingNum
    /\ UNCHANGED <<client, grpcVars, job, num, sharedVars, saleVars>>

\* if (workingNum >= 50 - sucNum_), where sucNum_ is read for the second time;
\* workingNum goes out of scope
ComparesSuccesses(t) == workingNum[t] >= sucNum_
LaxGate(t) == workingNum[t] > Goods - sucNum_
GateClosed(t) == workingNum[t] >= Goods - sucNum_

Gate(t) ==
    /\ At(t, "gate")
    /\ Goto(t, IF GateClosed(t) THEN "loop" ELSE "Next")
    /\ workingNum' = [workingNum EXCEPT ![t] = 0]
    /\ UNCHANGED <<client, grpcVars, job, num, sharedVars, saleVars>>

\* cq_->Next waits for an event; GPR_ASSERT(ok) aborts the process.
NextEvent(t) ==
    /\ At(t, "Next")
    /\ cq # <<>>
    /\ cq' = Tail(cq)
    /\ job' = [job EXCEPT ![t] = Head(cq).worker]
    /\ alive' = Head(cq).ok
    /\ pc' = [pc EXCEPT ![t] = "Proceed"]
    /\ UNCHANGED <<client, accepting, writing, workingNum, num, sharedVars, saleVars>>

-----------------------------------------------------------------------------
(***************************************************************************)
(* Worker::Proceed.                                                        *)
(***************************************************************************)
\* PROCESS: status_ = FINISH, which no other thread can observe, and LPUSH work_list.
Push(t) ==
    /\ At(t, "Proceed")
    /\ status[job[t]] = "PROCESS"
    /\ status' = [status EXCEPT ![job[t]] = "FINISH"]
    /\ \/ work_list' = work_list + 1
       \/ "redis_drop" \in Faults /\ UNCHANGED work_list
    /\ Goto(t, "accept")
    /\ UNCHANGED <<client, grpcVars, workingNum, job, num, sucNum_, saleVars>>

\* new Worker(...), whose constructor calls Requestseckill.
NoNewWorker == UNCHANGED accepting
NewWorker == accepting' = TRUE

Accept(t) ==
    /\ At(t, "accept")
    /\ NewWorker
    /\ Goto(t, "seckill")
    /\ UNCHANGED <<client, cq, writing, workingNum, job, num, sharedVars, saleVars>>

\* ++ *successNum_ is reached by a success only.
EverybodyCounts(t) == "incRead"
AfterRefusal(t) == "Finish"

\* The checks, the purchase and the answer.  A lost COMMIT is a success to the
\* Worker, so it is counted as well.
Seckill(t) ==
    /\ At(t, "seckill")
    /\ \/ TheSale!Buy(job[t]) /\ Goto(t, "incRead")
       \/ TheSale!Lose(job[t]) /\ Goto(t, "incRead")
       \/ TheSale!Refuse(job[t]) /\ Goto(t, AfterRefusal(t))
    /\ UNCHANGED <<client, grpcVars, workingNum, job, num, sharedVars>>

IncRead(t) ==
    /\ At(t, "incRead")
    /\ num' = [num EXCEPT ![t] = sucNum_]
    /\ Goto(t, "incWrite")
    /\ UNCHANGED <<client, grpcVars, workingNum, job, sharedVars, saleVars>>

IncWrite(t) ==
    /\ At(t, "incWrite")
    /\ sucNum_' = num[t] + 1
    /\ num' = [num EXCEPT ![t] = 0]
    /\ Goto(t, "Finish")
    /\ UNCHANGED <<client, grpcVars, workingNum, job, status, work_list, saleVars>>

\* responder_.Finish, and back to the gate.
Finish(t) ==
    /\ At(t, "Finish")
    /\ writing' = writing \union {job[t]}
    /\ job' = [job EXCEPT ![t] = None]
    /\ Goto(t, "loop")
    /\ UNCHANGED <<client, accepting, cq, workingNum, num, sharedVars, saleVars>>

\* LPOP work_list, which does nothing to an empty list.
NoPop == work_list
BelowZero == work_list - 1
Popped == IF work_list > 0 THEN work_list - 1 ELSE 0

\* delete this
NoDelete(w) == UNCHANGED status
Delete(w) == status' = [status EXCEPT ![w] = "deleted"]

\* FINISH: LPOP, then delete this.
Pop(t) ==
    /\ At(t, "Proceed")
    /\ status[job[t]] = "FINISH"
    /\ \/ work_list' = Popped
       \/ "redis_drop" \in Faults /\ UNCHANGED work_list
    /\ Delete(job[t])
    /\ job' = [job EXCEPT ![t] = None]
    /\ Goto(t, "loop")
    /\ UNCHANGED <<client, grpcVars, workingNum, num, sucNum_, saleVars>>

-----------------------------------------------------------------------------
HandleRPCS(t) ==
    \/ Loop(t) \/ Llen(t) \/ Gate(t) \/ NextEvent(t)
    \/ Push(t) \/ Accept(t) \/ Seckill(t) \/ IncRead(t) \/ IncWrite(t)
    \/ Finish(t) \/ Pop(t)

gRPC(w) == Arrive(w) \/ Written(w)

\* All threads wait in cq_->Next for clients that have nothing left to ask, or
\* the process is gone.
Idle ==
    /\ ~alive \/ (cq = <<>> /\ \A t \in Threads : pc[t] = "Next")
    /\ UNCHANGED vars

Next ==
    \/ \E t \in Threads : HandleRPCS(t)
    \/ \E w \in Workers : gRPC(w) \/ Leave(w)
    \/ Idle

Spec == Init /\ [][Next]_vars

\* Every thread is scheduled and gRPC delivers; clients promise nothing.
FairSpec ==
    /\ Spec
    /\ \A t \in Threads : WF_vars(HandleRPCS(t))
    /\ \A w \in Workers : WF_vars(gRPC(w))

-----------------------------------------------------------------------------
(***************************************************************************)
(* Properties.                                                             *)
(***************************************************************************)
Winners == {w \in Workers : response[w] = "1"}

\* Threads that took a request off the queue and have not created the next
\* Worker, and requests that wait for such a thread.
Accepted ==
    {w \in Workers : status[w] = "PROCESS"}
        \union {job[t] : t \in {t \in Threads : pc[t] = "accept"}}

\* The server never stops listening and never listens twice: there is one
\* outstanding Requestseckill, or exactly one accepted request on the way to
\* the new Worker that replaces it (Proceed creates the next Worker itself).
OneListener == Cardinality(Accepted) = IF accepting THEN 0 ELSE 1

\* A Worker is never used after "delete this" and never run by two threads: it
\* is referred to by one event, one thread or one unfinished Finish at most,
\* and by exactly one of them while it is alive.
References(w) ==
    Cardinality({i \in DOMAIN cq : cq[i].worker = w})
        + Cardinality({t \in Threads : job[t] = w})
        + (IF w \in writing THEN 1 ELSE 0)

OneOwner ==
    \A w \in Workers : References(w) = IF status[w] \in {"PROCESS", "FINISH"} THEN 1 ELSE 0

\* While Redis executes every command, work_list counts exactly the workers
\* between LPUSH and LPOP, on top of what an earlier process left behind.
WorkListCounts ==
    work_list = StaleEntries + Cardinality({w \in Workers : status[w] = "FINISH"})

\* The gate is check-then-act, but bounded: as long as goods are left, at most
\* one worker per thread gets in above the limit (HandleRPCS reads work_list,
\* waits in Next for any length of time and only then does LPUSH).  It takes a
\* Redis that executes every command and a MySQL that loses no COMMIT.
AdmissionBound ==
    g_totalcount > 0 /\ StaleEntries < Goods =>
        work_list <= Goods - 1 + Cardinality(Threads)

\* The gate is given up (sucNum_ >= 50) only when everything is sold: the
\* unlocked increments of sucNum_ can lose a success but never invent one.  A
\* lost COMMIT, counted as a success, can: without one, this holds.
OpenGateMeansSoldOut == sucNum_ >= Goods => g_totalcount = 0

\* Every request that is sent is answered, unless its client leaves or the
\* process is aborted.  (seckill_client.cc:183 waits for all 500 answers.)
RequestsAreAnswered ==
    \A w \in Workers :
        (client[w] = "waiting") ~> (client[w] \in {"answered", "gone"} \/ ~alive)

\* Every Worker that was created for a request is deleted in the end.
WorkersAreDeleted ==
    \A w \in Workers : (status[w] = "PROCESS") ~> (status[w] = "deleted" \/ ~alive)
=============================================================================
