----------------------------- MODULE MCAccounts -----------------------------
(* Small instances of Accounts for TLC. *)
EXTENDS Accounts, TLC

\* Users, passkeys, challenges and requests are interchangeable.
Symmetry ==
    Permutations(Users) \cup Permutations(Keys) \cup Permutations(Challenges) \cup Permutations(Conns)
=============================================================================
