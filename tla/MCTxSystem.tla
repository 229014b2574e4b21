----------------------------- MODULE MCTxSystem -----------------------------
(* Instances of TxSystem for TLC.                                           *)
EXTENDS TxSystem

CONSTANTS r1, r2

MCTimeout == [r \in Request |-> IF r = r1 THEN 1 ELSE 2]
=============================================================================
