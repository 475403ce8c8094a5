----------------------------- MODULE MCFileTail -----------------------------
(***************************************************************************)
(* Instances of FileTail for TLC.                                          *)
(***************************************************************************)
EXTENDS FileTail, TLC

CONSTANTS f1, f2

OneFile == {f1}
TwoFiles == {f1, f2}
Swap == Permutations(TwoFiles)
=============================================================================
