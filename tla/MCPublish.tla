----------------------------- MODULE MCPublish -----------------------------
(* Small instances of Publish for TLC. *)
EXTENDS Publish, TLC

\* Items and runs are interchangeable.
Symmetry == Permutations(Items) \cup Permutations(Procs)
=============================================================================
