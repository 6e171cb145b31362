----------------------------- MODULE MCSeckill -----------------------------
(***************************************************************************)
(* Small instances of Seckill for TLC: two registered users, one request   *)
(* with a wrong key and one from a user who is not registered.             *)
(***************************************************************************)
EXTENDS Seckill, TLC

MCUsrInfo == [a |-> "keyA", b |-> "keyB"]

Valid == {[usrname |-> "a", usrkey |-> "keyA"], [usrname |-> "b", usrkey |-> "keyB"]}

\* Requests of registered users only: the cases that compete for the goods.
MCBuyers == Valid

\* The same user again and again (testType 3 of the client).
MCOneUser == {[usrname |-> "a", usrkey |-> "keyA"]}

MCAnyone == Valid \union {[usrname |-> "a", usrkey |-> "keyB"],
                          [usrname |-> "c", usrkey |-> "keyC"]}

\* Redis or MySQL cannot be reached for some of the requests.
MCFallbackFaults == {"redis_down", "redis_drop", "mysql_down", "mysql_error", "mysql_drop"}

Symmetry == Permutations(Workers)
=============================================================================
