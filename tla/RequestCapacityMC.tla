-------------------------- MODULE RequestCapacityMC ---------------------------
(* A small instance of RequestCapacity for TLC. *)
EXTENDS RequestCapacity
===============================================================================
