------------------------------ MODULE TmpNoopMC -------------------------------
(* A small instance of TmpNoop for TLC. *)
EXTENDS TmpNoop
===============================================================================
