---------------------------- MODULE TmpExchangeMC -----------------------------
(* A small instance of TmpExchange for TLC. *)
EXTENDS TmpExchange
===============================================================================
