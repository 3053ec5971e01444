------------------------------ MODULE MCErrorLog ------------------------------
(* A small instance of ErrorLog for TLC. *)
EXTENDS ErrorLog, TLC
=============================================================================
