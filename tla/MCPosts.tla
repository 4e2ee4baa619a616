------------------------------ MODULE MCPosts ------------------------------
(* Small instances of Posts for TLC. *)
EXTENDS Posts, TLC

\* Requests are interchangeable.
Symmetry == Permutations(Conns)
=============================================================================
