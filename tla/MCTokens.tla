------------------------------ MODULE MCTokens ------------------------------
(***************************************************************************)
(* Small instances of Tokens for TLC.                                      *)
(***************************************************************************)
EXTENDS Tokens, TLC

CONSTANTS u1, u2, f1, f2, k1, k2, k3, k4, s1, s2

\* Ids are random, and nothing orders users or requests.
Symmetry ==
    Permutations(Users) \cup Permutations(Families) \cup Permutations(Tokens)
        \cup Permutations(Slots)
=============================================================================
