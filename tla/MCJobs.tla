------------------------------- MODULE MCJobs -------------------------------
(* Small instances of Jobs for TLC. *)
EXTENDS Jobs, TLC

\* Processes are interchangeable; used by the safety runs only.
Symmetry == Permutations(Procs)
=============================================================================
