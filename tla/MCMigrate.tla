------------------------------ MODULE MCMigrate ------------------------------
(* Small instances of Migrate for TLC. *)
EXTENDS Migrate, TLC

CONSTANTS p1, p2, p3

\* p3 is of an earlier release, with one script less.
MCLast == (p1 :> 4 @@ p2 :> 4 @@ p3 :> 3)
=============================================================================
