------------------------------ MODULE MCTlsProxy ------------------------------
(* TlsProxy for TLC. *)
EXTENDS TlsProxy
================================================================================
