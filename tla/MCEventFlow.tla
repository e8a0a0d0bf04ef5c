------------------------------ MODULE MCEventFlow ------------------------------
(* EventFlow for TLC. *)
EXTENDS EventFlow
================================================================================
