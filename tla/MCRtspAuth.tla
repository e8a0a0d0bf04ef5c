------------------------------ MODULE MCRtspAuth ------------------------------
(* RtspAuth for TLC. *)
EXTENDS RtspAuth
================================================================================
