------------------------------ MODULE MCPools ------------------------------
\* A small instance of Pools for TLC.
EXTENDS Pools, TLC

\* Connections and contexts are numbers here, and a new one gets the lowest that is
\* free: which one it gets makes no difference to anybody.
LowestFirst ==
    /\ \A c \in Conns : state[c] = "none" /\ state'[c] = "up" =>
          \A d \in Conns : d < c => state[d] # "none"
    /\ \A c \in opened' \ opened : \A d \in Contexts : d < c => d \in opened

MCSpec == Init /\ [][Next /\ LowestFirst]_vars

Symmetry == Permutations(Threads \ {main})
=============================================================================
