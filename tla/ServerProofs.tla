---------------------------- MODULE ServerProofs ----------------------------
(***************************************************************************)
(* Proofs about Server, for every number of threads and requests, every    *)
(* stock and, where it is not said otherwise, every failure.               *)
(***************************************************************************)
EXTENDS Server, FiniteSetTheorems, SequenceTheorems, TLAPS

-----------------------------------------------------------------------------
(***************************************************************************)
(* Type correctness.  The sale's requests do not change: that the name of  *)
(* a buyer is a name of Requests needs it.                                 *)
(***************************************************************************)
Events == [worker : Workers, ok : BOOLEAN]

\* The labels at which a thread has no Worker, and those at which it has sent
\* its LPUSH and owes the Finish.
Free == {"loop", "llen", "gate", "Next"}
Engaged == {"accept", "seckill", "incRead", "incWrite", "Finish"}

\* Between the queue and Finish or delete a thread has a Worker.
HasJob == \A t \in Threads : job[t] = None <=> pc[t] \in Free

TypeInv == TypeOK /\ request \in [Workers -> Requests] /\ HasJob

\* A thread past Next has a Worker.
LEMMA JobIsWorker ==
    ASSUME TypeInv, NEW t \in Threads, pc[t] \notin Free
    PROVE  job[t] \in Workers
BY DEF TypeInv, TypeOK, HasJob

\* The initial state is well typed.
LEMMA TypeInitial == Init => TypeInv
<1> SUFFICES ASSUME Init PROVE TypeInv
    OBVIOUS
<1>1. TypeOK
    BY GateAssumption DEF Init, TheSale!SaleInit, TypeOK
<1>2. request \in [Workers -> Requests] /\ HasJob
    BY DEF Init, TheSale!SaleInit, HasJob, Free
<1> QED
    BY <1>1, <1>2 DEF TypeInv

\* Every step of a thread, of gRPC and of a client keeps the types.
LEMMA TypeStep ==
    ASSUME TypeInv, [Next]_vars
    PROVE  TypeInv'
<1> USE DEF At, Goto, grpcVars, threadVars, sharedVars, saleVars, Free
<1>1. TypeOK /\ request \in [Workers -> Requests] /\ HasJob /\ None \notin Workers
    BY ThreadsAssumption DEF TypeInv
<1>2. ASSUME NEW t \in Threads, Loop(t) PROVE TypeInv'
    BY <1>1, <1>2 DEF TypeInv, TypeOK, HasJob, Loop
<1>3. ASSUME NEW t \in Threads, Llen(t) PROVE TypeInv'
    BY <1>1, <1>3, ZenonT(30) DEF TypeInv, TypeOK, HasJob, Llen
<1>4. ASSUME NEW t \in Threads, Gate(t) PROVE TypeInv'
    BY <1>1, <1>4 DEF TypeInv, TypeOK, HasJob, Gate
<1>5. ASSUME NEW t \in Threads, NextEvent(t) PROVE TypeInv'
    <2>1. cq \in Seq(Events) /\ cq # <<>> /\ cq' = Tail(cq)
        BY <1>1, <1>5 DEF TypeOK, Events, NextEvent
    <2>2. cq' \in Seq(Events) /\ Head(cq) \in Events
        BY <2>1, HeadTailProperties
    <2>3. Head(cq).worker \in Workers /\ Head(cq).ok \in BOOLEAN
        BY <2>2 DEF Events
    <2> QED
        BY <1>1, <1>5, <2>2, <2>3 DEF TypeInv, TypeOK, HasJob, NextEvent, Events
<1>6. ASSUME NEW t \in Threads, Push(t) PROVE TypeInv'
    <2>1. work_list' \in Nat
        BY <1>1, <1>6 DEF TypeOK, Push
    <2>2. status' \in [Workers -> {"none", "PROCESS", "FINISH", "deleted"}]
        BY <1>1, <1>6 DEF TypeOK, Push
    <2>3. pc' = [pc EXCEPT ![t] = "accept"] /\ job' = job /\ pc[t] = "Proceed"
        BY <1>6 DEF Push
    <2>4. /\ pc' \in [Threads -> {"loop", "llen", "gate", "Next", "Proceed", "accept",
                                  "seckill", "incRead", "incWrite", "Finish"}]
          /\ HasJob'
        BY <1>1, <2>3 DEF TypeOK, HasJob
    <2>5. UNCHANGED <<alive, client, grpcVars, workingNum, job, num, sucNum_, saleVars>>
        BY <1>6 DEF Push
    <2> QED
        BY <1>1, <2>1, <2>2, <2>4, <2>5 DEF TypeInv, TypeOK
<1>7. ASSUME NEW t \in Threads, Accept(t) PROVE TypeInv'
    BY <1>1, <1>7 DEF TypeInv, TypeOK, HasJob, Accept, NewWorker
<1>8. ASSUME NEW t \in Threads, Seckill(t) PROVE TypeInv'
    <2>1. job[t] \in Workers
        BY <1>8, JobIsWorker DEF Seckill
    <2>2. request[job[t]].usrname \in {r.usrname : r \in Requests}
        BY <1>1, <2>1
    <2>3. CASE TheSale!Buy(job[t]) /\ Goto(t, "incRead")
        <3>1. order_info' \subseteq {r.usrname : r \in Requests}
            <4> DEFINE names == {r.usrname : r \in Requests}
            <4>1. order_info \subseteq names /\ request[job[t]].usrname \in names
                BY <1>1, <2>2 DEF TypeOK
            <4> HIDE DEF names
            <4>2. order_info' \subseteq names
                BY <2>3, <4>1 DEF TheSale!Buy
            <4> QED
                BY <4>2 DEF names
        <3>2. g_totalcount' \in Nat /\ request' = request
              /\ response' \in [Workers -> {"none", "0", "1"}]
            <4>1. g_totalcount \in Nat /\ response \in [Workers -> {"none", "0", "1"}]
                BY <1>1 DEF TypeOK
            <4>2. /\ g_totalcount > 0 /\ g_totalcount' = g_totalcount - 1
                  /\ response' = [response EXCEPT ![job[t]] = "1"] /\ request' = request
                BY <2>3 DEF TheSale!Buy, TheSale!MayBuy
            <4>3. g_totalcount' \in Nat
                BY <4>1, <4>2
            <4>4. response' \in [Workers -> {"none", "0", "1"}]
                BY <4>1, <4>2
            <4> QED
                BY <4>2, <4>3, <4>4
        <3>3. /\ pc' \in [Threads -> {"loop", "llen", "gate", "Next", "Proceed", "accept",
                                      "seckill", "incRead", "incWrite", "Finish"}]
              /\ HasJob'
            BY <1>1, <1>8, <2>3 DEF TypeOK, HasJob, Seckill
        <3>4. UNCHANGED <<alive, client, grpcVars, workingNum, job, num, sharedVars>>
            BY <1>8, <2>3 DEF Seckill
        <3> QED
            BY <1>1, <3>1, <3>2, <3>3, <3>4 DEF TypeInv, TypeOK
    <2>4. CASE TheSale!Refuse(job[t]) /\ Goto(t, AfterRefusal(t))
        BY <1>1, <1>8, <2>4
        DEF TypeInv, TypeOK, HasJob, Seckill, TheSale!Refuse, AfterRefusal
    <2>5. CASE TheSale!Lose(job[t]) /\ Goto(t, "incRead")
        BY <1>1, <1>8, <2>5
        DEF TypeInv, TypeOK, HasJob, Seckill, TheSale!Lose
    <2> QED
        BY <1>8, <2>3, <2>4, <2>5 DEF Seckill
<1>9. ASSUME NEW t \in Threads, IncRead(t) PROVE TypeInv'
    BY <1>1, <1>9 DEF TypeInv, TypeOK, HasJob, IncRead
<1>10. ASSUME NEW t \in Threads, IncWrite(t) PROVE TypeInv'
    BY <1>1, <1>10 DEF TypeInv, TypeOK, HasJob, IncWrite
<1>11. ASSUME NEW t \in Threads, Finish(t) PROVE TypeInv'
    <2>1. job[t] \in Workers
        BY <1>11, JobIsWorker DEF Finish
    <2> QED
        BY <1>1, <1>11, <2>1 DEF TypeInv, TypeOK, HasJob, Finish
<1>12. ASSUME NEW t \in Threads, Pop(t) PROVE TypeInv'
    <2>1. work_list' \in Nat
        BY <1>1, <1>12 DEF TypeOK, Pop, Popped
    <2> QED
        BY <1>1, <1>12, <2>1 DEF TypeInv, TypeOK, HasJob, Pop, Delete
<1>13. ASSUME NEW w \in Workers, Leave(w) PROVE TypeInv'
    BY <1>1, <1>13 DEF TypeInv, TypeOK, HasJob, Leave
<1>14. ASSUME NEW w \in Workers, Arrive(w) PROVE TypeInv'
    <2>1. [worker |-> w, ok |-> TRUE] \in Events /\ cq \in Seq(Events)
        BY <1>1 DEF Events, TypeOK
    <2>2. cq' \in Seq(Events)
        BY <1>14, <2>1, AppendProperties DEF Arrive
    <2> QED
        BY <1>1, <1>14, <2>2 DEF TypeInv, TypeOK, HasJob, Arrive, Events
<1>15. ASSUME NEW w \in Workers, Written(w) PROVE TypeInv'
    <2>1. [worker |-> w, ok |-> client[w] = "waiting"] \in Events /\ cq \in Seq(Events)
        BY <1>1 DEF Events, TypeOK
    <2>2. cq' \in Seq(Events)
        BY <1>15, <2>1, AppendProperties DEF Written
    <2> QED
        BY <1>1, <1>15, <2>2 DEF TypeInv, TypeOK, HasJob, Written, Events
<1>16. CASE UNCHANGED vars
    BY <1>1, <1>16 DEF TypeInv, TypeOK, HasJob, vars
<1> QED
    BY <1>2, <1>3, <1>4, <1>5, <1>6, <1>7, <1>8, <1>9, <1>10, <1>11, <1>12, <1>13,
       <1>14, <1>15, <1>16
    DEF Next, HandleRPCS, gRPC, Idle

\* The types, and that a thread in the midst of a job has one.
LEMMA TypeInvariant == Spec => []TypeInv
BY TypeInitial, TypeStep, PTL DEF Spec

\* The server's state is of its type.
THEOREM TypeCorrect == Spec => []TypeOK
<1>1. TypeInv => TypeOK
    BY DEF TypeInv
<1> QED
    BY <1>1, TypeInvariant, PTL

-----------------------------------------------------------------------------
(***************************************************************************)
(* Ownership.  A Worker between its creation and its deletion is in        *)
(* exactly one of three places: an event of the queue, a thread, or a      *)
(* Finish that has not completed.  The status of the ones that have sent   *)
(* LPUSH is FINISH, so that their next event is the last.                  *)
(***************************************************************************)
Waiting == {cq[i].worker : i \in 1..Len(cq)}
Busy == {job[t] : t \in Threads} \ {None}
Live == {w \in Workers : status[w] \in {"PROCESS", "FINISH"}}

EventsDiffer == \A i, j \in 1..Len(cq) : cq[i].worker = cq[j].worker => i = j
JobsDiffer == \A t, u \in Threads : job[t] = job[u] /\ job[t] # None => t = u

Places ==
    /\ Waiting \intersect Busy = {}
    /\ Waiting \intersect writing = {}
    /\ Busy \intersect writing = {}
    /\ Live = Waiting \union Busy \union writing

Finishing ==
    /\ \A t \in Threads : pc[t] \in Engaged => status[job[t]] = "FINISH"
    /\ \A w \in writing : status[w] = "FINISH"

OwnInv == EventsDiffer /\ JobsDiffer /\ Places /\ Finishing

\* An event is added to the queue.
LEMMA QueueAppend ==
    ASSUME TypeInv, EventsDiffer, NEW e \in Events, cq' = Append(cq, e),
           e.worker \notin Waiting
    PROVE  EventsDiffer' /\ Waiting' = Waiting \union {e.worker}
<1>1. cq \in Seq(Events) /\ Len(cq) \in Nat
    BY LenProperties DEF TypeInv, TypeOK, Events
<1>2. /\ Len(cq') = Len(cq) + 1
      /\ \A i \in 1..Len(cq) : cq'[i] = cq[i]
      /\ cq'[Len(cq) + 1] = e
    BY <1>1, AppendProperties
<1>3. EventsDiffer'
    <2> SUFFICES ASSUME NEW i \in 1..Len(cq'), NEW j \in 1..Len(cq'),
                        cq'[i].worker = cq'[j].worker
                 PROVE  i = j
        BY DEF EventsDiffer
    <2>1. CASE i \in 1..Len(cq) /\ j \in 1..Len(cq)
        BY <1>2, <2>1 DEF EventsDiffer
    <2>2. CASE i = Len(cq) + 1 /\ j \in 1..Len(cq)
        BY <1>2, <2>2 DEF Waiting
    <2>3. CASE i \in 1..Len(cq) /\ j = Len(cq) + 1
        BY <1>2, <2>3 DEF Waiting
    <2> QED
        BY <1>1, <1>2, <2>1, <2>2, <2>3
<1>4. Waiting' = Waiting \union {e.worker}
    <2>1. \A i \in 1..Len(cq') : cq'[i].worker \in Waiting \union {e.worker}
        BY <1>1, <1>2 DEF Waiting
    <2>2. \A i \in 1..Len(cq) : cq[i].worker \in Waiting'
        BY <1>1, <1>2 DEF Waiting
    <2>3. e.worker \in Waiting'
        BY <1>1, <1>2 DEF Waiting
    <2> QED
        BY <2>1, <2>2, <2>3 DEF Waiting
<1> QED
    BY <1>3, <1>4

\* The event at the front is taken.
LEMMA QueueTail ==
    ASSUME TypeInv, EventsDiffer, cq # <<>>, cq' = Tail(cq)
    PROVE  /\ EventsDiffer'
           /\ Head(cq).worker \in Waiting
           /\ Waiting' = Waiting \ {Head(cq).worker}
<1>1. cq \in Seq(Events) /\ Len(cq) \in Nat /\ Len(cq) >= 1 /\ Head(cq) = cq[1]
    BY LenProperties DEF TypeInv, TypeOK, Events
<1>2. /\ Len(cq') = Len(cq) - 1
      /\ \A i \in 1..Len(cq') : cq'[i] = cq[i + 1]
    BY <1>1, HeadTailProperties
<1>3. EventsDiffer'
    <2> SUFFICES ASSUME NEW i \in 1..Len(cq'), NEW j \in 1..Len(cq'),
                        cq'[i].worker = cq'[j].worker
                 PROVE  i = j
        BY DEF EventsDiffer
    <2>1. i + 1 \in 1..Len(cq) /\ j + 1 \in 1..Len(cq)
        BY <1>1, <1>2
    <2>2. cq[i + 1].worker = cq[j + 1].worker
        BY <1>2
    <2>3. i + 1 = j + 1
        BY <2>1, <2>2 DEF EventsDiffer
    <2> QED
        BY <2>3
<1>4. Head(cq).worker \in Waiting
    BY <1>1 DEF Waiting
<1>5. Waiting' = Waiting \ {Head(cq).worker}
    <2>1. ASSUME NEW i \in 1..Len(cq')
          PROVE  cq'[i].worker \in Waiting \ {Head(cq).worker}
        <3>1. i + 1 \in 1..Len(cq) /\ i + 1 # 1 /\ 1 \in 1..Len(cq)
            BY <1>1, <1>2
        <3>2. cq'[i] = cq[i + 1]
            BY <1>2
        <3>3. cq[i + 1].worker # cq[1].worker
            BY <3>1 DEF EventsDiffer
        <3> QED
            BY <1>1, <3>1, <3>2, <3>3 DEF Waiting
    <2>2. ASSUME NEW i \in 1..Len(cq), cq[i].worker # Head(cq).worker
          PROVE  cq[i].worker \in Waiting'
        <3>1. i # 1
            BY <1>1, <2>2
        <3>2. i - 1 \in 1..Len(cq') /\ (i - 1) + 1 = i
            BY <1>1, <1>2, <3>1
        <3>3. cq'[i - 1] = cq[i]
            BY <1>2, <3>2
        <3> QED
            BY <3>2, <3>3 DEF Waiting
    <2> QED
        BY <2>1, <2>2 DEF Waiting
<1> QED
    BY <1>3, <1>4, <1>5

\* A thread takes a Worker.
LEMMA JobTaken ==
    ASSUME TypeInv, JobsDiffer, NEW t \in Threads, job[t] = None,
           NEW w \in Workers, w \notin Busy, job' = [job EXCEPT ![t] = w]
    PROVE  JobsDiffer' /\ Busy' = Busy \union {w}
<1>1. job \in [Threads -> Workers \union {None}] /\ None \notin Workers
    BY ThreadsAssumption DEF TypeInv, TypeOK
<1>2. JobsDiffer'
    BY <1>1 DEF JobsDiffer, Busy
<1>3. Busy' = Busy \union {w}
    BY <1>1 DEF Busy
<1> QED
    BY <1>2, <1>3

\* A thread is done with its Worker.
LEMMA JobDropped ==
    ASSUME TypeInv, JobsDiffer, NEW t \in Threads, job[t] # None,
           job' = [job EXCEPT ![t] = None]
    PROVE  JobsDiffer' /\ Busy' = Busy \ {job[t]} /\ job[t] \in Busy
<1>1. job \in [Threads -> Workers \union {None}] /\ None \notin Workers
    BY ThreadsAssumption DEF TypeInv, TypeOK
<1>2. JobsDiffer'
    BY <1>1 DEF JobsDiffer
<1>3. job[t] \in Busy
    BY DEF Busy
<1>4. \A u \in Threads \ {t} : job'[u] = job[u] /\ (job[u] = job[t] => job[u] = None)
    BY <1>1 DEF JobsDiffer
<1>5. Busy' \subseteq Busy \ {job[t]}
    BY <1>1, <1>4 DEF Busy
<1>6. ASSUME NEW u \in Threads, job[u] # None, job[u] # job[t]
      PROVE  job[u] \in Busy'
    <2>1. job'[u] = job[u]
        BY <1>1, <1>6
    <2> QED
        BY <1>6, <2>1 DEF Busy
<1>7. Busy \ {job[t]} \subseteq Busy'
    BY <1>6 DEF Busy
<1> QED
    BY <1>2, <1>3, <1>5, <1>7

\* A step that moves a thread without touching a Worker.
LEMMA OwnQuiet ==
    ASSUME OwnInv, UNCHANGED <<cq, writing, job, status>>,
           \A t \in Threads : pc'[t] \in Engaged => pc[t] \in Engaged
    PROVE  OwnInv'
<1>1. EventsDiffer' /\ JobsDiffer' /\ Waiting' = Waiting /\ Busy' = Busy /\ Live' = Live
    BY DEF OwnInv, EventsDiffer, JobsDiffer, Waiting, Busy, Live
<1>2. Places'
    BY <1>1 DEF OwnInv, Places
<1>3. Finishing'
    BY DEF OwnInv, Finishing
<1> QED
    BY <1>1, <1>2, <1>3 DEF OwnInv

\* At the start nobody owns a worker twice.
LEMMA OwnInitial == Init => OwnInv
<1> SUFFICES ASSUME Init PROVE OwnInv
    OBVIOUS
<1>1. Waiting = {} /\ Busy = {} /\ writing = {} /\ Live = {} /\ EventsDiffer
    BY DEF Init, Waiting, Busy, Live, EventsDiffer
<1>2. JobsDiffer /\ Finishing
    BY DEF Init, JobsDiffer, Finishing, Engaged
<1> QED
    BY <1>1, <1>2 DEF OwnInv, Places

\* The places a Worker goes through, one case per step that moves one.
LEMMA OwnStep ==
    ASSUME TypeInv, OwnInv, [Next]_vars
    PROVE  OwnInv'
<1> USE DEF At, Goto, grpcVars, threadVars, sharedVars, saleVars
<1>1. EventsDiffer /\ JobsDiffer /\ Places /\ Finishing
    BY DEF OwnInv
<1>2. /\ pc \in [Threads -> {"loop", "llen", "gate", "Next", "Proceed", "accept",
                             "seckill", "incRead", "incWrite", "Finish"}]
      /\ job \in [Threads -> Workers \union {None}] /\ HasJob /\ None \notin Workers
      /\ status \in [Workers -> {"none", "PROCESS", "FINISH", "deleted"}]
      /\ writing \subseteq Workers
    BY ThreadsAssumption DEF TypeInv, TypeOK
<1>3. ASSUME NEW t \in Threads, Loop(t) \/ Llen(t) \/ Gate(t) PROVE OwnInv'
    <2>1. UNCHANGED <<cq, writing, job, status>>
        BY <1>3 DEF Loop, Llen, Gate
    <2>2. \E l \in Free : pc' = [pc EXCEPT ![t] = l]
        BY <1>3 DEF Loop, Llen, Gate, Free
    <2>3. \A u \in Threads : pc'[u] \in Engaged => pc[u] \in Engaged
        BY <1>2, <2>2 DEF Free, Engaged
    <2> QED
        BY <2>1, <2>3, OwnQuiet
<1>4. ASSUME NEW t \in Threads, Accept(t) \/ Seckill(t) \/ IncRead(t) \/ IncWrite(t)
      PROVE  OwnInv'
    <2>1. UNCHANGED <<cq, writing, job, status>>
        BY <1>4 DEF Accept, Seckill, IncRead, IncWrite
    <2>2. pc[t] \in Engaged /\ \E l \in Engaged : pc' = [pc EXCEPT ![t] = l]
        BY <1>4 DEF Accept, Seckill, IncRead, IncWrite, Engaged, AfterRefusal
    <2>3. \A u \in Threads : pc'[u] \in Engaged => pc[u] \in Engaged
        BY <1>2, <2>2
    <2> QED
        BY <2>1, <2>3, OwnQuiet
<1>5. ASSUME NEW t \in Threads, NextEvent(t) PROVE OwnInv'
    <2> DEFINE w == Head(cq).worker
    <2>1. /\ cq # <<>> /\ cq' = Tail(cq) /\ pc[t] = "Next"
          /\ job' = [job EXCEPT ![t] = w] /\ pc' = [pc EXCEPT ![t] = "Proceed"]
          /\ UNCHANGED <<writing, status>>
        BY <1>5 DEF NextEvent
    <2>2. EventsDiffer' /\ w \in Waiting /\ Waiting' = Waiting \ {w}
        BY <1>1, <2>1, QueueTail
    <2>3. w \in Live /\ w \in Workers /\ w \notin Busy /\ w \notin writing
        BY <1>1, <2>2 DEF Places, Live
    <2>4. job[t] = None
        BY <1>2, <2>1 DEF HasJob, Free
    <2> HIDE DEF w
    <2>5. JobsDiffer' /\ Busy' = Busy \union {w}
        BY <1>1, <2>1, <2>3, <2>4, JobTaken
    <2>6. Live' = Live
        BY <2>1 DEF Live
    <2>7. Places'
        BY <1>1, <2>1, <2>2, <2>3, <2>5, <2>6 DEF Places
    <2>8. Finishing'
        BY <1>1, <1>2, <2>1 DEF Finishing, Engaged
    <2> QED
        BY <2>2, <2>5, <2>7, <2>8 DEF OwnInv
<1>6. ASSUME NEW t \in Threads, Push(t) PROVE OwnInv'
    <2>1. /\ pc[t] = "Proceed" /\ status[job[t]] = "PROCESS"
          /\ status' = [status EXCEPT ![job[t]] = "FINISH"]
          /\ pc' = [pc EXCEPT ![t] = "accept"] /\ UNCHANGED <<cq, writing, job>>
        BY <1>6 DEF Push
    <2>2. job[t] \in Workers
        BY <2>1, JobIsWorker DEF Free
    <2>3. Live' = Live
        BY <1>2, <2>1, <2>2 DEF Live
    <2>4. EventsDiffer' /\ JobsDiffer' /\ Waiting' = Waiting /\ Busy' = Busy
        BY <1>1, <2>1 DEF EventsDiffer, JobsDiffer, Waiting, Busy
    <2>5. Places'
        BY <1>1, <2>1, <2>3, <2>4 DEF Places
    <2>6. \A w \in Workers : status[w] = "FINISH" => status'[w] = "FINISH"
        BY <1>2, <2>1, <2>2
    <2>7. status'[job[t]] = "FINISH"
        BY <1>2, <2>1, <2>2
    <2>8. \A u \in Threads : pc'[u] \in Engaged => status'[job'[u]] = "FINISH"
        <3> SUFFICES ASSUME NEW u \in Threads, u # t, pc[u] \in Engaged
                     PROVE  status'[job[u]] = "FINISH"
            BY <1>2, <2>1, <2>7
        <3>1. job[u] \in Workers
            BY JobIsWorker DEF Free, Engaged
        <3> QED
            BY <1>1, <2>6, <3>1 DEF Finishing
    <2>9. Finishing'
        BY <1>1, <1>2, <2>1, <2>6, <2>8 DEF Finishing
    <2> QED
        BY <2>4, <2>5, <2>9 DEF OwnInv
<1>7. ASSUME NEW t \in Threads, Finish(t) PROVE OwnInv'
    <2>1. /\ pc[t] = "Finish" /\ writing' = writing \union {job[t]}
          /\ job' = [job EXCEPT ![t] = None] /\ pc' = [pc EXCEPT ![t] = "loop"]
          /\ UNCHANGED <<cq, status>>
        BY <1>7 DEF Finish
    <2>2. job[t] # None /\ status[job[t]] = "FINISH"
        BY <1>1, <1>2, <2>1 DEF HasJob, Free, Finishing, Engaged
    <2>3. JobsDiffer' /\ Busy' = Busy \ {job[t]} /\ job[t] \in Busy
        BY <1>1, <2>1, <2>2, JobDropped
    <2>4. EventsDiffer' /\ Waiting' = Waiting /\ Live' = Live
        BY <1>1, <2>1 DEF EventsDiffer, Waiting, Live
    <2>5. Places'
        BY <1>1, <2>1, <2>3, <2>4 DEF Places
    <2>6. Finishing'
        BY <1>1, <1>2, <2>1, <2>2 DEF Finishing, Engaged
    <2> QED
        BY <2>3, <2>4, <2>5, <2>6 DEF OwnInv
<1>8. ASSUME NEW t \in Threads, Pop(t) PROVE OwnInv'
    <2>1. /\ pc[t] = "Proceed" /\ status' = [status EXCEPT ![job[t]] = "deleted"]
          /\ job' = [job EXCEPT ![t] = None] /\ pc' = [pc EXCEPT ![t] = "loop"]
          /\ UNCHANGED <<cq, writing>>
        BY <1>8 DEF Pop, Delete
    <2>2. job[t] # None /\ job[t] \in Workers
        BY <2>1, JobIsWorker, <1>2 DEF Free
    <2>3. JobsDiffer' /\ Busy' = Busy \ {job[t]} /\ job[t] \in Busy
        BY <1>1, <2>1, <2>2, JobDropped
    <2>4. EventsDiffer' /\ Waiting' = Waiting
        BY <1>1, <2>1 DEF EventsDiffer, Waiting
    <2>5. Live' = Live \ {job[t]}
        BY <1>2, <2>1, <2>2 DEF Live
    <2>6. Places'
        BY <1>1, <2>1, <2>3, <2>4, <2>5 DEF Places
    <2>7. ASSUME NEW u \in Threads, pc'[u] \in Engaged
          PROVE  status'[job'[u]] = "FINISH"
        <3>1. u # t /\ pc[u] \in Engaged /\ job'[u] = job[u]
            BY <1>2, <2>1, <2>7 DEF Engaged
        <3>2. job[u] \in Workers
            BY <3>1, JobIsWorker DEF Free, Engaged
        <3>3. job[u] # job[t]
            BY <1>1, <2>2, <3>1 DEF JobsDiffer
        <3> QED
            BY <1>1, <1>2, <2>1, <3>1, <3>2, <3>3 DEF Finishing
    <2>8. ASSUME NEW w \in writing' PROVE status'[w] = "FINISH"
        <3>1. w \in writing /\ w # job[t] /\ w \in Workers
            BY <1>1, <1>2, <2>1, <2>3 DEF Places
        <3> QED
            BY <1>1, <1>2, <2>1, <3>1 DEF Finishing
    <2>9. Finishing'
        BY <2>7, <2>8 DEF Finishing
    <2> QED
        BY <2>3, <2>4, <2>6, <2>9 DEF OwnInv
<1>9. ASSUME NEW w \in Workers, Leave(w) PROVE OwnInv'
    BY <1>9, OwnQuiet DEF Leave
<1>10. ASSUME NEW w \in Workers, Arrive(w) PROVE OwnInv'
    <2> DEFINE e == [worker |-> w, ok |-> TRUE]
    <2>1. /\ status[w] = "none" /\ status' = [status EXCEPT ![w] = "PROCESS"]
          /\ cq' = Append(cq, e) /\ UNCHANGED <<writing, pc, job>>
        BY <1>10 DEF Arrive
    <2>2. w \notin Live /\ Live' = Live \union {w}
        BY <1>2, <2>1 DEF Live
    <2>3. w \notin Waiting /\ w \notin Busy /\ w \notin writing
        BY <1>1, <2>2 DEF Places
    <2>4. e \in Events /\ e.worker = w
        BY DEF Events
    <2> HIDE DEF e
    <2>5. EventsDiffer' /\ Waiting' = Waiting \union {w}
        BY <1>1, <2>1, <2>3, <2>4, QueueAppend
    <2>6. JobsDiffer' /\ Busy' = Busy
        BY <1>1, <2>1 DEF JobsDiffer, Busy
    <2>7. Places'
        BY <1>1, <2>1, <2>2, <2>3, <2>5, <2>6 DEF Places
    <2>8. ASSUME NEW u \in Threads, pc[u] \in Engaged PROVE status'[job[u]] = "FINISH"
        <3>1. job[u] \in Workers /\ status[job[u]] = "FINISH"
            BY <1>1, <2>8, JobIsWorker DEF Free, Engaged, Finishing
        <3> QED
            BY <1>2, <2>1, <3>1
    <2>9. \A v \in writing : status'[v] = "FINISH"
        BY <1>1, <1>2, <2>1, <2>3 DEF Finishing
    <2>10. Finishing'
        BY <2>1, <2>8, <2>9 DEF Finishing
    <2> QED
        BY <2>5, <2>6, <2>7, <2>10 DEF OwnInv
<1>11. ASSUME NEW w \in Workers, Written(w) PROVE OwnInv'
    <2> DEFINE e == [worker |-> w, ok |-> client[w] = "waiting"]
    <2>1. /\ w \in writing /\ writing' = writing \ {w}
          /\ cq' = Append(cq, e) /\ UNCHANGED <<status, pc, job>>
        BY <1>11 DEF Written
    <2>2. w \notin Waiting /\ w \notin Busy
        BY <1>1, <2>1 DEF Places
    <2>3. e \in Events /\ e.worker = w
        BY DEF Events
    <2> HIDE DEF e
    <2>4. EventsDiffer' /\ Waiting' = Waiting \union {w}
        BY <1>1, <2>1, <2>2, <2>3, QueueAppend
    <2>5. JobsDiffer' /\ Busy' = Busy /\ Live' = Live
        BY <1>1, <2>1 DEF JobsDiffer, Busy, Live
    <2>6. Places'
        BY <1>1, <2>1, <2>2, <2>4, <2>5 DEF Places
    <2>7. Finishing'
        BY <1>1, <2>1 DEF Finishing
    <2> QED
        BY <2>4, <2>5, <2>6, <2>7 DEF OwnInv
<1>12. CASE UNCHANGED vars
    BY <1>12, OwnQuiet DEF vars
<1> QED
    BY <1>3, <1>4, <1>5, <1>6, <1>7, <1>8, <1>9, <1>10, <1>11, <1>12
    DEF Next, HandleRPCS, gRPC, Idle

\* Every worker has one owner in every state.
LEMMA OwnInvariant == Spec => []OwnInv
BY OwnInitial, OwnStep, TypeInvariant, PTL DEF Spec

\* A Worker is referred to exactly once while it is alive and never afterwards.
THEOREM WorkersOwned == Spec => []OneOwner
<1>1. ASSUME TypeInv, OwnInv PROVE OneOwner
    <2> SUFFICES ASSUME NEW w \in Workers
                 PROVE  References(w) = IF w \in Live THEN 1 ELSE 0
        BY DEF OneOwner, Live
    <2> DEFINE A == {i \in DOMAIN cq : cq[i].worker = w}
               B == {t \in Threads : job[t] = w}
    <2>1. /\ EventsDiffer /\ JobsDiffer /\ Places
          /\ cq \in Seq(Events) /\ DOMAIN cq = 1..Len(cq) /\ None \notin Workers
        BY <1>1, LenProperties, ThreadsAssumption DEF OwnInv, TypeInv, TypeOK, Events
    <2>2. IF w \in Waiting THEN \E i : A = {i} ELSE A = {}
        BY <2>1, ZenonT(30) DEF Waiting, EventsDiffer
    <2>3. IF w \in Busy THEN \E t : B = {t} ELSE B = {}
        BY <2>1 DEF Busy, JobsDiffer
    <2>4. Cardinality({}) = 0 /\ \A x : Cardinality({x}) = 1
        BY FS_EmptySet, FS_Singleton
    <2>5. References(w) = Cardinality(A) + Cardinality(B) + (IF w \in writing THEN 1 ELSE 0)
        BY DEF References
    <2> HIDE DEF A, B
    <2>6. /\ Cardinality(A) = IF w \in Waiting THEN 1 ELSE 0
          /\ Cardinality(B) = IF w \in Busy THEN 1 ELSE 0
        BY <2>2, <2>3, <2>4
    <2>7. CASE w \in Waiting
        BY <2>1, <2>5, <2>6, <2>7 DEF Places
    <2>8. CASE w \in Busy
        BY <2>1, <2>5, <2>6, <2>8 DEF Places
    <2>9. CASE w \in writing
        BY <2>1, <2>5, <2>6, <2>9 DEF Places
    <2>10. CASE w \notin Waiting \union Busy \union writing
        BY <2>1, <2>5, <2>6, <2>10 DEF Places
    <2> QED
        BY <2>7, <2>8, <2>9, <2>10
<1> QED
    BY <1>1, TypeInvariant, OwnInvariant, PTL

-----------------------------------------------------------------------------
(***************************************************************************)
(* Listening: the request that used up the outstanding Requestseckill is   *)
(* the only one on the way to the Worker that replaces it.                 *)
(***************************************************************************)
ListenInv ==
    /\ accepting => Accepted = {}
    /\ ~accepting => \E w \in Workers : Accepted = {w}

\* At the start the next request is awaited and none has been taken.
LEMMA ListenInitial == Init => ListenInv
BY DEF Init, ListenInv, Accepted

\* A step by which no request arrives, is pushed or makes its new Worker.
LEMMA ListenQuiet ==
    ASSUME ListenInv, accepting' = accepting,
           \A w \in Workers : status'[w] = "PROCESS" <=> status[w] = "PROCESS",
           \A t \in Threads : /\ pc'[t] = "accept" <=> pc[t] = "accept"
                              /\ pc[t] = "accept" => job'[t] = job[t]
    PROVE  ListenInv'
<1>1. Accepted' = Accepted
    BY DEF Accepted
<1> QED
    BY <1>1 DEF ListenInv

\* Every other step, too, leaves one listener.
LEMMA ListenStep ==
    ASSUME TypeInv, OwnInv, ListenInv, [Next]_vars
    PROVE  ListenInv'
<1> USE DEF At, Goto, grpcVars, threadVars, sharedVars, saleVars
<1>1. /\ pc \in [Threads -> {"loop", "llen", "gate", "Next", "Proceed", "accept",
                             "seckill", "incRead", "incWrite", "Finish"}]
      /\ job \in [Threads -> Workers \union {None}] /\ None \notin Workers
      /\ status \in [Workers -> {"none", "PROCESS", "FINISH", "deleted"}]
    BY ThreadsAssumption DEF TypeInv, TypeOK
<1>2. JobsDiffer /\ Finishing
    BY DEF OwnInv
<1>3. ASSUME NEW t \in Threads,
             \/ Loop(t) \/ Llen(t) \/ Gate(t) \/ NextEvent(t) \/ Seckill(t)
             \/ IncRead(t) \/ IncWrite(t) \/ Finish(t)
      PROVE  ListenInv'
    <2>1. accepting' = accepting /\ status' = status
        BY <1>3 DEF Loop, Llen, Gate, NextEvent, Seckill, IncRead, IncWrite, Finish
    <2>2. pc[t] # "accept" /\ \E l : l # "accept" /\ pc' = [pc EXCEPT ![t] = l]
        BY <1>3 DEF Loop, Llen, Gate, NextEvent, Seckill, IncRead, IncWrite, Finish, AfterRefusal
    <2>3. \A u \in Threads \ {t} : job'[u] = job[u]
        BY <1>1, <1>3 DEF Loop, Llen, Gate, NextEvent, Seckill, IncRead, IncWrite, Finish
    <2> QED
        BY <1>1, <2>1, <2>2, <2>3, ListenQuiet
<1>4. ASSUME NEW t \in Threads, Pop(t) PROVE ListenInv'
    <2>1. /\ pc[t] = "Proceed" /\ status[job[t]] = "FINISH" /\ accepting' = accepting
          /\ status' = [status EXCEPT ![job[t]] = "deleted"]
          /\ job' = [job EXCEPT ![t] = None] /\ pc' = [pc EXCEPT ![t] = "loop"]
        BY <1>4 DEF Pop, Delete
    <2>2. job[t] \in Workers
        BY <2>1, JobIsWorker DEF Free
    <2>3. \A w \in Workers : status'[w] = "PROCESS" <=> status[w] = "PROCESS"
        BY <1>1, <2>1, <2>2
    <2>4. \A u \in Threads : /\ pc'[u] = "accept" <=> pc[u] = "accept"
                             /\ pc[u] = "accept" => job'[u] = job[u]
        BY <1>1, <2>1
    <2> QED
        BY <2>1, <2>3, <2>4, ListenQuiet
<1>5. ASSUME NEW t \in Threads, Push(t) PROVE ListenInv'
    <2>1. /\ pc[t] = "Proceed" /\ status[job[t]] = "PROCESS" /\ accepting' = accepting
          /\ status' = [status EXCEPT ![job[t]] = "FINISH"]
          /\ pc' = [pc EXCEPT ![t] = "accept"] /\ job' = job
        BY <1>5 DEF Push
    <2>2. job[t] \in Workers
        BY <2>1, JobIsWorker DEF Free
    <2>3. \A w \in Workers : status'[w] = "PROCESS" <=> (status[w] = "PROCESS" /\ w # job[t])
        BY <1>1, <2>1, <2>2
    <2>4. \A u \in Threads : pc'[u] = "accept" <=> (pc[u] = "accept" \/ u = t)
        BY <1>1, <2>1
    <2>5. Accepted' = Accepted
        BY <2>1, <2>2, <2>3, <2>4 DEF Accepted
    <2> QED
        BY <2>1, <2>5 DEF ListenInv
<1>6. ASSUME NEW t \in Threads, Accept(t) PROVE ListenInv'
    <2>1. /\ pc[t] = "accept" /\ accepting' = TRUE
          /\ pc' = [pc EXCEPT ![t] = "seckill"] /\ UNCHANGED <<job, status>>
        BY <1>6 DEF Accept, NewWorker
    <2>2. job[t] \in Workers /\ status[job[t]] = "FINISH"
        BY <1>2, <2>1, JobIsWorker DEF Free, Engaged, Finishing
    <2>3. job[t] \in Accepted
        BY <2>1 DEF Accepted
    <2>4. \A w \in Accepted : w = job[t]
        BY <2>3 DEF ListenInv
    <2>5. \A w \in Workers : status[w] # "PROCESS"
        BY <2>2, <2>4 DEF Accepted
    <2>6. \A u \in Threads : pc[u] = "accept" => u = t
        <3> SUFFICES ASSUME NEW u \in Threads, pc[u] = "accept" PROVE u = t
            OBVIOUS
        <3>1. job[u] = job[t]
            BY <2>4 DEF Accepted
        <3> QED
            BY <1>1, <1>2, <2>2, <3>1 DEF JobsDiffer
    <2>7. \A u \in Threads : pc'[u] # "accept"
        BY <1>1, <2>1, <2>6
    <2>8. Accepted' = {}
        BY <2>1, <2>5, <2>7 DEF Accepted
    <2> QED
        BY <2>1, <2>8 DEF ListenInv
<1>7. ASSUME NEW w \in Workers, Arrive(w) PROVE ListenInv'
    <2>1. /\ accepting /\ accepting' = FALSE
          /\ status' = [status EXCEPT ![w] = "PROCESS"] /\ UNCHANGED <<pc, job>>
        BY <1>7 DEF Arrive
    <2>2. Accepted = {}
        BY <2>1 DEF ListenInv
    <2>3. Accepted' = {w}
        BY <1>1, <2>1, <2>2 DEF Accepted
    <2> QED
        BY <2>1, <2>3 DEF ListenInv
<1>8. ASSUME NEW w \in Workers, Written(w) \/ Leave(w) PROVE ListenInv'
    BY <1>8, ListenQuiet DEF Written, Leave
<1>9. CASE UNCHANGED vars
    BY <1>9, ListenQuiet DEF vars
<1> QED
    BY <1>3, <1>4, <1>5, <1>6, <1>7, <1>8, <1>9 DEF Next, HandleRPCS, gRPC, Idle

\* The server listens with exactly one Requestseckill, or is about to.
THEOREM ListensOnce == Spec => []OneListener
<1>1. ListenInv => OneListener
    BY FS_EmptySet, FS_Singleton DEF ListenInv, OneListener
<1> QED
    BY <1>1, ListenInitial, ListenStep, TypeInvariant, OwnInvariant, PTL DEF Spec

-----------------------------------------------------------------------------
(***************************************************************************)
(* Counting.                                                               *)
(***************************************************************************)
\* One element more, one element less.
LEMMA AddOne ==
    ASSUME NEW U, IsFiniteSet(U), NEW A, A \subseteq U, NEW x \in U, x \notin A
    PROVE  /\ Cardinality(A) \in Nat
           /\ Cardinality(A \union {x}) = Cardinality(A) + 1
<1>1. IsFiniteSet(A) /\ Cardinality(A) \in Nat
    BY FS_Subset, FS_CardinalityType
<1> QED
    BY <1>1, FS_AddElement

\* Removing one element.
LEMMA RemoveOne ==
    ASSUME NEW U, IsFiniteSet(U), NEW A, A \subseteq U, NEW x \in A
    PROVE  /\ Cardinality(A) \in Nat \ {0}
           /\ Cardinality(A \ {x}) = Cardinality(A) - 1
<1>1. IsFiniteSet(A) /\ Cardinality(A) \in Nat
    BY FS_Subset, FS_CardinalityType
<1>2. Cardinality(A) # 0
    BY <1>1, FS_EmptySet
<1> QED
    BY <1>1, <1>2, FS_RemoveElement

\* The Workers between LPUSH and LPOP.
Pushed == {w \in Workers : status[w] = "FINISH"}

\* work_list starts with the stale entries only.
LEMMA CountInitial == Init => WorkListCounts
<1> SUFFICES ASSUME Init PROVE WorkListCounts
    OBVIOUS
<1>1. {w \in Workers : status[w] = "FINISH"} = {} /\ work_list = StaleEntries
    BY DEF Init
<1> QED
    BY <1>1, FS_EmptySet, GateAssumption DEF WorkListCounts

\* With a Redis that executes every command, LPUSH and LPOP follow the Workers.
LEMMA CountStep ==
    ASSUME "redis_drop" \notin Faults, TypeInv, WorkListCounts, [Next]_vars
    PROVE  WorkListCounts'
<1> USE DEF At, Goto, grpcVars, threadVars, sharedVars, saleVars
<1>1. /\ IsFiniteSet(Workers) /\ Pushed \subseteq Workers
      /\ status \in [Workers -> {"none", "PROCESS", "FINISH", "deleted"}]
      /\ work_list \in Nat /\ StaleEntries \in Nat
      /\ work_list = StaleEntries + Cardinality(Pushed)
    BY ThreadsAssumption, GateAssumption
    DEF TypeInv, TypeOK, Pushed, WorkListCounts
<1>2. ASSUME work_list' = StaleEntries + Cardinality(Pushed')
      PROVE  WorkListCounts'
    BY <1>2 DEF WorkListCounts, Pushed
<1>3. ASSUME work_list' = work_list, Pushed' = Pushed PROVE WorkListCounts'
    BY <1>1, <1>2, <1>3
<1>4. ASSUME NEW t \in Threads,
             \/ Loop(t) \/ Llen(t) \/ Gate(t) \/ NextEvent(t) \/ Accept(t) \/ Seckill(t)
             \/ IncRead(t) \/ IncWrite(t) \/ Finish(t)
      PROVE  WorkListCounts'
    <2>1. work_list' = work_list /\ status' = status
        BY <1>4 DEF Loop, Llen, Gate, NextEvent, Accept, Seckill, IncRead, IncWrite, Finish
    <2> QED
        BY <1>3, <2>1 DEF Pushed
<1>5. ASSUME NEW t \in Threads, Push(t) PROVE WorkListCounts'
    <2>1. /\ pc[t] = "Proceed" /\ status[job[t]] = "PROCESS"
          /\ status' = [status EXCEPT ![job[t]] = "FINISH"] /\ work_list' = work_list + 1
        BY <1>5 DEF Push
    <2>2. job[t] \in Workers
        BY <2>1, JobIsWorker DEF Free
    <2>3. Pushed' = Pushed \union {job[t]} /\ job[t] \notin Pushed
        BY <1>1, <2>1, <2>2 DEF Pushed
    <2>4. Cardinality(Pushed) \in Nat /\ Cardinality(Pushed') = Cardinality(Pushed) + 1
        BY <1>1, <2>2, <2>3, AddOne
    <2> QED
        BY <1>1, <1>2, <2>1, <2>4
<1>6. ASSUME NEW t \in Threads, Pop(t) PROVE WorkListCounts'
    <2>1. /\ pc[t] = "Proceed" /\ status[job[t]] = "FINISH"
          /\ status' = [status EXCEPT ![job[t]] = "deleted"]
          /\ work_list' = IF work_list > 0 THEN work_list - 1 ELSE 0
        BY <1>6 DEF Pop, Delete, Popped
    <2>2. job[t] \in Workers
        BY <2>1, JobIsWorker DEF Free
    <2>3. Pushed' = Pushed \ {job[t]} /\ job[t] \in Pushed
        BY <1>1, <2>1, <2>2 DEF Pushed
    <2>4. /\ Cardinality(Pushed) \in Nat \ {0}
          /\ Cardinality(Pushed') = Cardinality(Pushed) - 1
        BY <1>1, <2>3, RemoveOne
    <2> QED
        BY <1>1, <1>2, <2>1, <2>4
<1>7. ASSUME NEW w \in Workers, Arrive(w) PROVE WorkListCounts'
    BY <1>1, <1>3, <1>7 DEF Arrive, Pushed
<1>8. ASSUME NEW w \in Workers, Written(w) \/ Leave(w) PROVE WorkListCounts'
    BY <1>3, <1>8 DEF Written, Leave, Pushed
<1>9. CASE UNCHANGED vars
    BY <1>3, <1>9 DEF vars, Pushed
<1> QED
    BY <1>4, <1>5, <1>6, <1>7, <1>8, <1>9 DEF Next, HandleRPCS, gRPC, Idle

\* work_list is exact as long as Redis executes every command, whatever the
\* clients do and whatever was in the list before.
THEOREM WorkListExact ==
    ASSUME "redis_drop" \notin Faults
    PROVE  Spec => []WorkListCounts
<1>1. TypeInv /\ WorkListCounts /\ [Next]_vars => WorkListCounts'
    BY CountStep
<1> QED
    BY <1>1, CountInitial, TypeInvariant, PTL DEF Spec

-----------------------------------------------------------------------------
(***************************************************************************)
(* The successes.  sucNum_ is incremented without a lock: it may fall      *)
(* behind the number of winners, and the value a thread has read may be    *)
(* older still, but with one more for every increment on its way none of   *)
(* them gets ahead of it.  Winners and stock add up as long as every       *)
(* COMMIT arrives.                                                         *)
(***************************************************************************)
Pending == {t \in Threads : pc[t] \in {"incRead", "incWrite"}}

SoldInv ==
    /\ Cardinality(Winners) + g_totalcount = Goods
    /\ sucNum_ + Cardinality(Pending) <= Cardinality(Winners)
    /\ \A t \in Threads :
        pc[t] = "incWrite" => num[t] + Cardinality(Pending) <= Cardinality(Winners)

\* The counters are natural numbers.
LEMMA CountsAreNat ==
    /\ Cardinality(Winners) \in Nat /\ Cardinality(Pending) \in Nat
    /\ Winners \subseteq Workers /\ Pending \subseteq Threads
<1>1. Winners \subseteq Workers /\ Pending \subseteq Threads
    BY DEF Winners, Pending
<1> QED
    BY <1>1, ThreadsAssumption, FS_Subset, FS_CardinalityType

\* Nothing is sold at the start.
LEMMA SoldInitial == Init => SoldInv
<1> SUFFICES ASSUME Init PROVE SoldInv
    OBVIOUS
<1>1. Winners = {} /\ Pending = {} /\ g_totalcount = Goods /\ sucNum_ = 0
    BY DEF Init, TheSale!SaleInit, Winners, Pending
<1>2. \A t \in Threads : pc[t] # "incWrite"
    BY DEF Init
<1> QED
    BY <1>1, <1>2, FS_EmptySet, GateAssumption DEF SoldInv

\* A step that neither sells nor counts.
LEMMA SoldQuiet ==
    ASSUME SoldInv, UNCHANGED <<response, g_totalcount, sucNum_, num>>, Pending' = Pending,
           \A t \in Threads : pc'[t] = "incWrite" => pc[t] = "incWrite"
    PROVE  SoldInv'
<1>1. Winners' = Winners
    BY DEF Winners
<1> QED
    BY <1>1 DEF SoldInv

\* Every step keeps SoldInv, if no COMMIT is lost.
LEMMA SoldStep ==
    ASSUME "commit_drop" \notin Faults, TypeInv, SoldInv, [Next]_vars
    PROVE  SoldInv'
<1> USE DEF At, Goto, grpcVars, threadVars, sharedVars, saleVars
<1>1. /\ pc \in [Threads -> {"loop", "llen", "gate", "Next", "Proceed", "accept",
                             "seckill", "incRead", "incWrite", "Finish"}]
      /\ num \in [Threads -> Nat] /\ sucNum_ \in Nat /\ g_totalcount \in Nat
      /\ response \in [Workers -> {"none", "0", "1"}]
      /\ IsFiniteSet(Threads) /\ IsFiniteSet(Workers) /\ Goods \in Nat
    BY ThreadsAssumption, GateAssumption DEF TypeInv, TypeOK
<1>2. ASSUME NEW t \in Threads,
             \/ Loop(t) \/ Llen(t) \/ Gate(t) \/ NextEvent(t) \/ Push(t) \/ Accept(t)
             \/ Finish(t) \/ Pop(t)
      PROVE  SoldInv'
    <2>1. UNCHANGED <<response, g_totalcount, sucNum_, num>>
        BY <1>2 DEF Loop, Llen, Gate, NextEvent, Push, Accept, Finish, Pop
    <2>2. /\ pc[t] \notin {"incRead", "incWrite"}
          /\ \E l : l \notin {"incRead", "incWrite"} /\ pc' = [pc EXCEPT ![t] = l]
        BY <1>2 DEF Loop, Llen, Gate, NextEvent, Push, Accept, Finish, Pop
    <2>3. /\ Pending' = Pending
          /\ \A u \in Threads : pc'[u] = "incWrite" => pc[u] = "incWrite"
        BY <1>1, <2>2 DEF Pending
    <2> QED
        BY <2>1, <2>3, SoldQuiet
<1>3. ASSUME NEW t \in Threads, At(t, "seckill"), TheSale!Buy(job[t]), Goto(t, "incRead"),
             UNCHANGED <<job, num, sharedVars>>
      PROVE  SoldInv'
    <2>1. /\ response[job[t]] = "none" /\ response' = [response EXCEPT ![job[t]] = "1"]
          /\ g_totalcount > 0 /\ g_totalcount' = g_totalcount - 1
          /\ sucNum_' = sucNum_ /\ num' = num
        BY <1>3 DEF TheSale!Buy, TheSale!MayBuy
    <2>2. job[t] \in Workers
        BY <1>3, JobIsWorker DEF Free
    <2>3. Winners' = Winners \union {job[t]} /\ job[t] \notin Winners
        BY <1>1, <2>1, <2>2 DEF Winners
    <2>4. Cardinality(Winners') = Cardinality(Winners) + 1
        BY <1>1, <2>2, <2>3, AddOne, CountsAreNat
    <2>5. Pending' = Pending \union {t} /\ t \notin Pending
        BY <1>1, <1>3 DEF Pending
    <2>6. Cardinality(Pending') = Cardinality(Pending) + 1
        BY <1>1, <2>5, AddOne, CountsAreNat
    <2>7. \A u \in Threads : pc'[u] = "incWrite" => pc[u] = "incWrite"
        BY <1>1, <1>3
    <2>8. Cardinality(Winners') + g_totalcount' = Goods
        BY <1>1, <2>1, <2>4, CountsAreNat DEF SoldInv
    <2>9. sucNum_' + Cardinality(Pending') <= Cardinality(Winners')
        BY <1>1, <2>1, <2>4, <2>6, CountsAreNat DEF SoldInv
    <2>10. ASSUME NEW u \in Threads, pc'[u] = "incWrite"
           PROVE  num'[u] + Cardinality(Pending') <= Cardinality(Winners')
        <3>1. num[u] \in Nat /\ num[u] + Cardinality(Pending) <= Cardinality(Winners)
            BY <1>1, <2>7, <2>10 DEF SoldInv
        <3> QED
            BY <2>1, <2>4, <2>6, <3>1, CountsAreNat
    <2> QED
        BY <2>8, <2>9, <2>10 DEF SoldInv
<1>4. ASSUME NEW t \in Threads, At(t, "seckill"), TheSale!Refuse(job[t]), Goto(t, "Finish"),
             UNCHANGED <<job, num, sharedVars>>
      PROVE  SoldInv'
    <2>1. /\ response[job[t]] = "none" /\ response' = [response EXCEPT ![job[t]] = "0"]
          /\ UNCHANGED <<g_totalcount, sucNum_, num>>
        BY <1>4 DEF TheSale!Refuse
    <2>2. Winners' = Winners
        BY <1>1, <2>1 DEF Winners
    <2>3. /\ Pending' = Pending
          /\ \A u \in Threads : pc'[u] = "incWrite" => pc[u] = "incWrite"
        BY <1>1, <1>4 DEF Pending
    <2> QED
        BY <2>1, <2>2, <2>3 DEF SoldInv
<1>5. ASSUME NEW t \in Threads, Seckill(t) PROVE SoldInv'
    BY <1>3, <1>4, <1>5 DEF Seckill, AfterRefusal, TheSale!Lose
<1>6. ASSUME NEW t \in Threads, IncRead(t) PROVE SoldInv'
    <2>1. /\ pc[t] = "incRead" /\ pc' = [pc EXCEPT ![t] = "incWrite"]
          /\ num' = [num EXCEPT ![t] = sucNum_]
          /\ UNCHANGED <<response, g_totalcount, sucNum_>>
        BY <1>6 DEF IncRead
    <2>2. Pending' = Pending /\ Winners' = Winners
        BY <1>1, <2>1 DEF Pending, Winners
    <2>3. ASSUME NEW u \in Threads, pc'[u] = "incWrite"
          PROVE  num'[u] + Cardinality(Pending) <= Cardinality(Winners)
        <3>1. CASE u = t
            BY <1>1, <2>1, <3>1 DEF SoldInv
        <3>2. CASE u # t
            BY <1>1, <2>1, <2>3, <3>2 DEF SoldInv
        <3> QED
            BY <3>1, <3>2
    <2> QED
        BY <2>1, <2>2, <2>3 DEF SoldInv
<1>7. ASSUME NEW t \in Threads, IncWrite(t) PROVE SoldInv'
    <2>1. /\ pc[t] = "incWrite" /\ pc' = [pc EXCEPT ![t] = "Finish"]
          /\ num' = [num EXCEPT ![t] = 0] /\ sucNum_' = num[t] + 1
          /\ UNCHANGED <<response, g_totalcount>>
        BY <1>7 DEF IncWrite
    <2>2. Winners' = Winners /\ Pending' = Pending \ {t} /\ t \in Pending
        BY <1>1, <2>1 DEF Pending, Winners
    <2>3. Cardinality(Pending') = Cardinality(Pending) - 1
        BY <1>1, <2>2, RemoveOne, CountsAreNat
    <2>4. num[t] \in Nat /\ num[t] + Cardinality(Pending) <= Cardinality(Winners)
        BY <1>1, <2>1 DEF SoldInv
    <2>5. sucNum_' + Cardinality(Pending') <= Cardinality(Winners')
        BY <2>1, <2>2, <2>3, <2>4, CountsAreNat
    <2>6. ASSUME NEW u \in Threads, pc'[u] = "incWrite"
          PROVE  num'[u] + Cardinality(Pending') <= Cardinality(Winners')
        <3>1. u # t /\ pc[u] = "incWrite" /\ num'[u] = num[u] /\ num[u] \in Nat
            BY <1>1, <2>1, <2>6
        <3>2. num[u] + Cardinality(Pending) <= Cardinality(Winners)
            BY <3>1 DEF SoldInv
        <3> QED
            BY <2>2, <2>3, <3>1, <3>2, CountsAreNat
    <2> QED
        BY <2>1, <2>2, <2>5, <2>6 DEF SoldInv
<1>8. ASSUME NEW w \in Workers, Arrive(w) \/ Written(w) \/ Leave(w) PROVE SoldInv'
    BY <1>8, SoldQuiet DEF Arrive, Written, Leave, Pending
<1>9. CASE UNCHANGED vars
    BY <1>9, SoldQuiet DEF vars, Pending
<1> QED
    BY <1>2, <1>5, <1>6, <1>7, <1>8, <1>9 DEF Next, HandleRPCS, gRPC, Idle

\* Then SoldInv holds in every state.
LEMMA SoldInvariant ==
    ASSUME "commit_drop" \notin Faults
    PROVE  Spec => []SoldInv
<1>1. TypeInv /\ SoldInv /\ [Next]_vars => SoldInv'
    BY SoldStep
<1> QED
    BY <1>1, SoldInitial, TypeInvariant, PTL DEF Spec

\* SoldInv says what the gate needs.
LEMMA SoldImpliesGate ==
    ASSUME TypeInv, SoldInv
    PROVE  OpenGateMeansSoldOut
BY CountsAreNat, GateAssumption DEF TypeInv, TypeOK, SoldInv, OpenGateMeansSoldOut

\* If no COMMIT is lost, the gate is given up only when everything is sold,
\* although sucNum_ is incremented without a lock and Redis may drop any command.
THEOREM GateOpensWhenSoldOut ==
    ASSUME "commit_drop" \notin Faults
    PROVE  Spec => []OpenGateMeansSoldOut
<1>1. TypeInv /\ SoldInv => OpenGateMeansSoldOut
    BY SoldImpliesGate
<1> QED
    BY <1>1, SoldInvariant, TypeInvariant, PTL

-----------------------------------------------------------------------------
(***************************************************************************)
(* Admission.  A thread that has read a length below the limit, or has     *)
(* passed the gate, may push at any later time: each of them counts as     *)
(* one entry that is on its way.                                           *)
(***************************************************************************)
InFlight ==
    {t \in Threads : \/ pc[t] \in {"Next", "Proceed"}
                     \/ pc[t] = "gate" /\ workingNum[t] < Goods}

Bound == Goods - 1 + Cardinality(Threads)

AdmitInv ==
    g_totalcount > 0 /\ StaleEntries < Goods =>
        work_list + Cardinality(InFlight) <= Bound

\* The requests in flight are finitely many.
LEMMA InFlightIsNat ==
    /\ InFlight \subseteq Threads /\ Cardinality(InFlight) \in Nat
    /\ Cardinality(InFlight) <= Cardinality(Threads) /\ Cardinality(Threads) \in Nat
    /\ IsFiniteSet(Threads) /\ Goods \in Nat /\ StaleEntries \in Nat
<1>1. InFlight \subseteq Threads
    BY DEF InFlight
<1> QED
    BY <1>1, ThreadsAssumption, GateAssumption, FS_Subset, FS_CardinalityType

\* Nothing is in flight at the start.
LEMMA AdmitInitial == Init => AdmitInv
<1> SUFFICES ASSUME Init PROVE AdmitInv
    OBVIOUS
<1>1. InFlight = {} /\ work_list = StaleEntries
    BY DEF Init, InFlight
<1>2. Cardinality(InFlight) = 0
    BY <1>1, FS_EmptySet
<1> QED
    BY <1>1, <1>2, InFlightIsNat DEF AdmitInv, Bound

\* A step that lets nobody in: nothing is pushed, no thread becomes one in flight,
\* and the stock does not grow.
LEMMA AdmitQuiet ==
    ASSUME TypeInv, TypeInv', AdmitInv, g_totalcount' <= g_totalcount,
           work_list' <= work_list, InFlight' \subseteq InFlight
    PROVE  AdmitInv'
<1>1. /\ g_totalcount \in Nat /\ g_totalcount' \in Nat
      /\ work_list \in Nat /\ work_list' \in Nat
    BY DEF TypeInv, TypeOK
<1>2. IsFiniteSet(InFlight)
    BY InFlightIsNat, FS_Subset
<1>3. Cardinality(InFlight') <= Cardinality(InFlight) /\ Cardinality(InFlight') \in Nat
    BY <1>2, FS_Subset, FS_CardinalityType
<1>4. Cardinality(Threads) \in Nat /\ Cardinality(InFlight) \in Nat /\ Goods \in Nat
    BY InFlightIsNat
<1> QED
    BY <1>1, <1>3, <1>4 DEF AdmitInv, Bound

\* Every step keeps AdmitInv.
LEMMA AdmitStep ==
    ASSUME "redis_drop" \notin Faults, TypeInv, TypeInv', OpenGateMeansSoldOut, AdmitInv,
           [Next]_vars
    PROVE  AdmitInv'
<1> USE DEF At, Goto, grpcVars, threadVars, sharedVars, saleVars
<1>1. /\ pc \in [Threads -> {"loop", "llen", "gate", "Next", "Proceed", "accept",
                             "seckill", "incRead", "incWrite", "Finish"}]
      /\ workingNum \in [Threads -> Nat] /\ sucNum_ \in Nat
      /\ g_totalcount \in Nat /\ work_list \in Nat /\ Goods \in Nat
    BY GateAssumption DEF TypeInv, TypeOK
<1>2. ASSUME NEW t \in Threads, Loop(t) PROVE AdmitInv'
    <2>1. CASE sucNum_ < Goods
        <3>1. pc' = [pc EXCEPT ![t] = "llen"] /\ UNCHANGED <<workingNum, work_list, g_totalcount>>
            BY <1>2, <2>1 DEF Loop
        <3>2. InFlight' \subseteq InFlight
            BY <1>1, <3>1 DEF InFlight
        <3> QED
            BY <1>1, <3>1, <3>2, AdmitQuiet
    <2>2. CASE ~(sucNum_ < Goods)
        <3>1. g_totalcount = 0 /\ g_totalcount' = g_totalcount
            BY <1>1, <1>2, <2>2 DEF Loop, OpenGateMeansSoldOut
        <3> QED
            BY <3>1 DEF AdmitInv
    <2> QED
        BY <2>1, <2>2
<1>3. ASSUME NEW t \in Threads, Llen(t) PROVE AdmitInv'
    <2>1. /\ pc[t] = "llen" /\ pc' = [pc EXCEPT ![t] = "gate"]
          /\ workingNum' = [workingNum EXCEPT ![t] = work_list]
          /\ UNCHANGED <<work_list, g_totalcount>>
        BY <1>3 DEF Llen
    <2>2. CASE work_list < Goods
        <3>1. /\ InFlight' \subseteq Threads /\ IsFiniteSet(Threads)
              /\ Cardinality(Threads) \in Nat
            BY InFlightIsNat DEF InFlight
        <3>2. Cardinality(InFlight') \in Nat /\ Cardinality(InFlight') <= Cardinality(Threads)
            BY <3>1, FS_Subset, FS_CardinalityType
        <3> QED
            BY <1>1, <2>1, <2>2, <3>1, <3>2 DEF AdmitInv, Bound
    <2>3. CASE ~(work_list < Goods)
        <3>1. InFlight' \subseteq InFlight
            BY <1>1, <2>1, <2>3 DEF InFlight
        <3> QED
            BY <1>1, <2>1, <3>1, AdmitQuiet
    <2> QED
        BY <2>2, <2>3
<1>4. ASSUME NEW t \in Threads, Gate(t) PROVE AdmitInv'
    <2>1. /\ pc[t] = "gate" /\ workingNum' = [workingNum EXCEPT ![t] = 0]
          /\ pc' = [pc EXCEPT ![t] = IF GateClosed(t) THEN "loop" ELSE "Next"]
          /\ UNCHANGED <<work_list, g_totalcount>>
        BY <1>4 DEF Gate
    <2>2. ~GateClosed(t) => workingNum[t] < Goods
        BY <1>1 DEF GateClosed
    <2>3. ~GateClosed(t) => t \in InFlight
        BY <2>1, <2>2 DEF InFlight
    <2>4. \A u \in Threads \ {t} : pc'[u] = pc[u] /\ workingNum'[u] = workingNum[u]
        BY <1>1, <2>1
    <2>5. GateClosed(t) => pc'[t] = "loop"
        BY <1>1, <2>1
    <2>6. InFlight' \subseteq InFlight
        BY <2>3, <2>4, <2>5 DEF InFlight
    <2> QED
        BY <1>1, <2>1, <2>6, AdmitQuiet
<1>5. ASSUME NEW t \in Threads, NextEvent(t) PROVE AdmitInv'
    <2>1. /\ pc[t] = "Next" /\ pc' = [pc EXCEPT ![t] = "Proceed"]
          /\ UNCHANGED <<workingNum, work_list, g_totalcount>>
        BY <1>5 DEF NextEvent
    <2>2. InFlight' \subseteq InFlight
        BY <1>1, <2>1 DEF InFlight
    <2> QED
        BY <1>1, <2>1, <2>2, AdmitQuiet
<1>6. ASSUME NEW t \in Threads, Push(t) PROVE AdmitInv'
    <2>1. /\ pc[t] = "Proceed" /\ pc' = [pc EXCEPT ![t] = "accept"]
          /\ work_list' = work_list + 1 /\ UNCHANGED <<workingNum, g_totalcount>>
        BY <1>6 DEF Push
    <2>2. InFlight' = InFlight \ {t} /\ t \in InFlight
        BY <1>1, <2>1 DEF InFlight
    <2>3. /\ Cardinality(InFlight) \in Nat
          /\ Cardinality(InFlight') = Cardinality(InFlight) - 1
        BY <2>2, InFlightIsNat, RemoveOne
    <2> QED
        BY <1>1, <2>1, <2>3, InFlightIsNat DEF AdmitInv, Bound
<1>7. ASSUME NEW t \in Threads,
             Accept(t) \/ Seckill(t) \/ IncRead(t) \/ IncWrite(t) \/ Finish(t)
      PROVE  AdmitInv'
    <2>1. UNCHANGED <<workingNum, work_list>>
        BY <1>7 DEF Accept, Seckill, IncRead, IncWrite, Finish
    <2>2. \E l : l \notin {"Next", "Proceed", "gate"} /\ pc' = [pc EXCEPT ![t] = l]
        BY <1>7 DEF Accept, Seckill, IncRead, IncWrite, Finish, AfterRefusal
    <2>3. InFlight' \subseteq InFlight
        BY <1>1, <2>1, <2>2 DEF InFlight
    <2>4. g_totalcount' \in {g_totalcount, g_totalcount - 1}
        BY <1>7 DEF Accept, Seckill, IncRead, IncWrite, Finish, TheSale!Buy, TheSale!Lose,
               TheSale!Refuse
    <2> QED
        BY <1>1, <2>1, <2>3, <2>4, AdmitQuiet
<1>8. ASSUME NEW t \in Threads, Pop(t) PROVE AdmitInv'
    <2>1. /\ pc' = [pc EXCEPT ![t] = "loop"] /\ UNCHANGED <<workingNum, g_totalcount>>
          /\ work_list' = IF work_list > 0 THEN work_list - 1 ELSE 0
        BY <1>8 DEF Pop, Popped
    <2>2. InFlight' \subseteq InFlight
        BY <1>1, <2>1 DEF InFlight
    <2> QED
        BY <1>1, <2>1, <2>2, AdmitQuiet
<1>9. ASSUME NEW w \in Workers, Arrive(w) \/ Written(w) \/ Leave(w) PROVE AdmitInv'
    <2>1. UNCHANGED <<pc, workingNum, work_list, g_totalcount>>
        BY <1>9 DEF Arrive, Written, Leave
    <2>2. InFlight' \subseteq InFlight
        BY <2>1 DEF InFlight
    <2> QED
        BY <1>1, <2>1, <2>2, AdmitQuiet
<1>10. CASE UNCHANGED vars
    BY <1>10 DEF vars, AdmitInv, InFlight
<1> QED
    BY <1>2, <1>3, <1>4, <1>5, <1>6, <1>7, <1>8, <1>9, <1>10
    DEF Next, HandleRPCS, gRPC, Idle

\* While goods are left, no more than one Worker per thread is admitted beyond
\* the limit of the gate, as long as Redis executes every command and no COMMIT is
\* lost (a lost one lifts the gate before everything is sold).
THEOREM AdmissionIsBounded ==
    ASSUME "redis_drop" \notin Faults, "commit_drop" \notin Faults
    PROVE  Spec => []AdmissionBound
<1>1. TypeInv /\ TypeInv' /\ OpenGateMeansSoldOut /\ AdmitInv /\ [Next]_vars => AdmitInv'
    BY AdmitStep
<1>2. ASSUME TypeInv, AdmitInv PROVE AdmissionBound
    <2>1. work_list \in Nat
        BY <1>2 DEF TypeInv, TypeOK
    <2> QED
        BY <1>2, <2>1, InFlightIsNat DEF AdmitInv, AdmissionBound, Bound
<1> QED
    BY <1>1, <1>2, AdmitInitial, TypeInvariant, GateOpensWhenSoldOut, PTL DEF Spec
=============================================================================
