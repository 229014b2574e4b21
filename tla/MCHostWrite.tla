---------------------------- MODULE MCHostWrite -----------------------------
(* Instances of HostWrite for TLC.                                          *)
EXTENDS HostWrite

CONSTANTS hosted, left
=============================================================================
