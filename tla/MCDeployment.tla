--------------------------- MODULE MCDeployment ---------------------------
\* Small instances of Deployment for TLC.
EXTENDS Deployment, TLC

\* A new database, and of the names prepareTestData may draw: all threads but one
\* send the name 1, so that one user asks twice and another once.  (Where a
\* preparation fails they are not known.)
MCInit ==
    /\ DeploymentInit /\ order_info = Nil
    /\ \E u \in Threads : name = [t \in Threads |-> IF t = u THEN 2 ELSE 1]

(***************************************************************************)
(* Steps that commute are taken in one order only, and steps that change   *)
(* nothing that a property or another step can see are left out.           *)
(*                                                                         *)
(* Apart from its call and its two queries a thread touches nothing but    *)
(* the client's memory, which the server does not see: such steps wait     *)
(* until every call has ended, and from then on the server waits for them. *)
(* Threads are created and calls to a server that does not listen fail     *)
(* before a preparation, not in the middle of it; a thread that cannot be  *)
(* created is the first to know.                                           *)
(*                                                                         *)
(* When every call has ended, the server is seen through the two queries   *)
(* only.  A preparation then stops where it is done with MySQL and its     *)
(* calls do not fail; the last process does not end.  The queries come     *)
(* after a statement that changes what they see, or before the first.      *)
(* When the server changes nothing any more (Still), the threads that have *)
(* seen the last response run checkSeckillInfo one after the other.  A     *)
(* client that crashes leaves everything as it is: it does so while the    *)
(* first process serves.                                                   *)
(***************************************************************************)
Local == {"lock", "unlock", "test", "open", "delete"}
CallsOver == \A t \in Threads : cpc[t] \notin Calling \union {"create"}
Still == CallsOver /\ starts = MaxStarts /\ pc \in {"Run", "down"}

Moves(labels) == \E t \in Threads : cpc[t] \in labels /\ cpc'[t] # cpc[t]

InOrder ==
    /\ Moves(Local) => CallsOver
    /\ Moves({"create", "sent"}) /\ pc' # "down" =>
         pc \in {"createGoods", "Run"} \/ (pc = "down" /\ starts = MaxStarts)
    /\ (\E t \in Threads : cpc[t] = "create" /\ cpc'[t] = "end") =>
         pc = "createGoods" /\ starts = 1
    /\ CallsOver /\ (ClientDone \/ pc \in {"SET", "DEL"} \/ \E t \in Threads : cpc[t] \in Local)
         => UNCHANGED processVars
    /\ CallsOver /\ failed' => failed
    /\ CallsOver /\ starts = MaxStarts => ~Crash
    /\ Still /\ Moves({"open"}) =>
         \A t \in Threads : cpc[t] \notin {"test", "stock", "orders", "delete"}
    /\ Moves({"stock", "orders"}) =>
         Still \/ pc \in {"Run", "resetStock", "dropOrders", "findUsers", "SET"}
    /\ running' \/ (starts = 1 /\ pc = "Run")

MCSpec == MCInit /\ [][Next /\ InOrder]_vars

Symmetry == Permutations(Threads)
=============================================================================
