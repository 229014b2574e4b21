------------------------------ MODULE MCTxPass ------------------------------
(* Instances of TxPass for TLC.                                             *)
EXTENDS TxPass

CONSTANT r1

MCTimeout == [r \in Request |-> 2]
=============================================================================
