----------------------------- MODULE MCSessions -----------------------------
(* Small instances of Sessions for TLC. *)
EXTENDS Sessions, TLC

\* Tabs, session ids and tokens are interchangeable.
Symmetry == Permutations(Tabs) \cup Permutations(Ids) \cup Permutations(Tokens)
=============================================================================
