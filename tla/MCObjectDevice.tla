--------------------------- MODULE MCObjectDevice ---------------------------
(* A small object device: two keys, a store for one or two objects, slots  *)
(* of one payload block.                                                   *)
EXTENDS ObjectDevice

CONSTANTS A, B, Bad

MCFormats == {A, B, Bad}
MCImage == {c \in [1 .. Keys -> MCFormats \cup {None}] :
              /\ Cardinality({k \in 1 .. Keys : c[k] # None}) <= Capacity
              /\ \A k \in 1 .. Keys : c[k] # Bad}

Only(k, v) == [j \in 1 .. Keys |-> IF j = k THEN v ELSE None]
(* Near the largest generation, so that it is reached.                     *)
MCEarlier == {[gen |-> 6, image |-> Only(1, B)]}
MCWanted == {Only(1, A), [j \in 1 .. Keys |-> B], Only(2, Bad)}
=============================================================================
