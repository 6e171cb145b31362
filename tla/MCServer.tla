------------------------------ MODULE MCServer ------------------------------
(***************************************************************************)
(* Small instances of Server for TLC: every worker's request is fixed, so  *)
(* that the first of them are valid and the others are not registered.     *)
(***************************************************************************)
EXTENDS Server, TLC

MCUsrInfo == [a |-> "keyA", b |-> "keyB", c |-> "keyC"]

MCBuyers == {[usrname |-> "a", usrkey |-> "keyA"], [usrname |-> "b", usrkey |-> "keyB"],
             [usrname |-> "c", usrkey |-> "keyC"]}

\* One user and one who is not registered.
MCMixed == {[usrname |-> "a", usrkey |-> "keyA"], [usrname |-> "x", usrkey |-> "keyX"]}

Symmetry == Permutations(Threads) \union Permutations(Workers)
=============================================================================
