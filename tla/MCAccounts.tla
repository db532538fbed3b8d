----------------------------- MODULE MCAccounts -----------------------------
(***************************************************************************)
(* A small instance of Accounts for TLC.                                   *)
(***************************************************************************)
EXTENDS Accounts, TLC

CONSTANTS u1, u2, f1, f2, k1, k2, k3, s1, s2, mail, post, mine, yours, acme

\* Two people want one address; the other one is free to be changed to.
TwoForOneAddress == [address : {mail}, password : Passwords, org : Organizations]

\* Ids are random, and nothing orders slots or passwords.
Symmetry ==
    Permutations(Users) \cup Permutations(Families) \cup Permutations(Tokens)
        \cup Permutations(Slots) \cup Permutations(Passwords)
=============================================================================
