----------------------------- MODULE MCStagedNor -----------------------------
(* Instances of StagedNor for TLC.                                          *)
EXTENDS StagedNor

MCHostData == SUBSET Bit
=============================================================================
