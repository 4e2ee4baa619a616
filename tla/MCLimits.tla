------------------------------ MODULE MCLimits ------------------------------
(* Small instances of Limits for TLC. *)
EXTENDS Limits
=============================================================================
