----------------------------- MODULE MCPostgres -----------------------------
(* Two instances contending for the bucket, and one instance that runs an  *)
(* informer and keeps its lease: over one key for longer, over two.        *)
EXTENDS PostgresCache

CONSTANTS a, b, k1, k2

Contention ==
    [instances |-> {a, b}, informer |-> FALSE, keys |-> {k1}, ticks |-> 4, writes |-> 2,
     faults |-> 1, grants |-> 2]
OneKey ==
    [instances |-> {a}, informer |-> TRUE, keys |-> {k1}, ticks |-> 0, writes |-> 4,
     faults |-> 1, grants |-> 0]
TwoKeys ==
    [instances |-> {a}, informer |-> TRUE, keys |-> {k1, k2}, ticks |-> 0, writes |-> 3,
     faults |-> 1, grants |-> 0]

MCDeployments == {Contention, OneKey, TwoKeys}
NoFaults == {[OneKey EXCEPT !.writes = 2, !.faults = 0]}
=============================================================================
