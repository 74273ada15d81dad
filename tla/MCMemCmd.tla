------------------------------ MODULE MCMemCmd ------------------------------
(* A small instance of MemCmd for TLC.                                      *)
EXTENDS MemCmd

MCOffsets == {1}

(* Nothing, less than a chunk, a chunk, a chunk and a part.                 *)
MCSizes == {0, 2, 3, 4}

(* Less than a quadword, a quadword and a part, more than dataBuffer holds. *)
MCGsSizes == {1, 3, 4}
=============================================================================
