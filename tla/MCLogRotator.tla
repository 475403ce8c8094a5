----------------------------- MODULE MCLogRotator -----------------------------
(***************************************************************************)
(* The instance of LogRotator for TLC.                                     *)
(***************************************************************************)
EXTENDS LogRotator

AnyCall == {"open", "truncate", "write"}
=============================================================================
