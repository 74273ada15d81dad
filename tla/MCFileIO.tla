------------------------------ MODULE MCFileIO ------------------------------
(* Small instances of FileIO for TLC.                                       *)
EXTENDS FileIO, TLC

(* Callers are interchangeable, and so are the numbers of handles.          *)
(* Connections are too: they are told apart only by equality, and a         *)
(* connection and the handle made for it are permuted together.             *)
Symmetry ==
    Permutations(Callers) \cup Permutations(Conns) \cup Permutations(Nums)
=============================================================================
