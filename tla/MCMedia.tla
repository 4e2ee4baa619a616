------------------------------ MODULE MCMedia ------------------------------
(* Small instances of Media for TLC. *)
EXTENDS Media, TLC

\* Users, images, ids and uploads are interchangeable.
Symmetry ==
    Permutations(Users) \cup Permutations(Images) \cup Permutations(Ids) \cup Permutations(Conns)
=============================================================================
