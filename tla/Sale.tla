-------------------------------- MODULE Sale --------------------------------
(***************************************************************************)
(* What the flash sale promises, with no cache, no pool and no threads: a  *)
(* stock of goods_info rows, one order per user, and for every request one *)
(* answer.  "1" is answered by the very step that takes one item out of    *)
(* the stock and books it for the user; "0" changes nothing.  Where a      *)
(* COMMIT can be lost, which the handler does not notice, a request that   *)
(* could have bought may be answered "1" for nothing.  Seckill.tla is      *)
(* shown to implement this specification; Server.tla is built on it.       *)
(***************************************************************************)
EXTENDS Naturals

CONSTANTS
    Workers,    \* one Worker object per request
    Requests,   \* the requests a client may send: [usrname, usrkey] records
    usr_info,   \* the registered users: a function from name to key
    Goods,      \* the items on sale
    LossyCommit \* may a COMMIT be lost on the way to MySQL?

VARIABLES
    asked,      \* the request of every worker
    stock,      \* items not sold yet
    orders,     \* the names that bought one
    answer      \* "none" until the worker answers "0" or "1"

saleVars == <<asked, stock, orders, answer>>

SaleInit ==
    /\ asked \in [Workers -> Requests]
    /\ stock = Goods
    /\ orders = {}
    /\ answer = [w \in Workers |-> "none"]

\* A registered user with the right key and no order yet, while there is stock.
MayBuy(w) ==
    /\ answer[w] = "none"
    /\ asked[w].usrname \in DOMAIN usr_info
    /\ usr_info[asked[w].usrname] = asked[w].usrkey
    /\ asked[w].usrname \notin orders
    /\ stock > 0

\* The user takes one item.
Buy(w) ==
    /\ MayBuy(w)
    /\ stock' = stock - 1
    /\ orders' = orders \union {asked[w].usrname}
    /\ answer' = [answer EXCEPT ![w] = "1"]
    /\ UNCHANGED asked

\* The COMMIT of a purchase is lost: the answer is given, the item stays.
Lose(w) ==
    /\ LossyCommit
    /\ MayBuy(w)
    /\ answer' = [answer EXCEPT ![w] = "1"]
    /\ UNCHANGED <<asked, stock, orders>>

\* The service may refuse any request, as long as that leaves no trace.
Refuse(w) ==
    /\ answer[w] = "none"
    /\ answer' = [answer EXCEPT ![w] = "0"]
    /\ UNCHANGED <<asked, stock, orders>>

SaleNext == \E w \in Workers : Buy(w) \/ Lose(w) \/ Refuse(w)

SaleSpec == SaleInit /\ [][SaleNext]_saleVars

=============================================================================
