------------------------------ MODULE MCSifCmd ------------------------------
(* Small instances of SifCmd for TLC.                                       *)
EXTENDS SifCmd
=============================================================================
