------------------------------ MODULE MCSinceDB ------------------------------
(***************************************************************************)
(* Instances of SinceDB for TLC.                                           *)
(***************************************************************************)
EXTENDS SinceDB, TLC

CONSTANTS f1, f2

TwoFiles == {f1, f2}
FewLines == [f \in TwoFiles |-> IF f = f1 THEN 3 ELSE 1]
OneLine  == [f \in TwoFiles |-> 1]
=============================================================================
