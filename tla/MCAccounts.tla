----------------------------- MODULE MCAccounts -----------------------------
(* Accounts on a small instance.                                           *)
EXTENDS Accounts, TLC

Symmetry ==
    Permutations(Clients) \cup Permutations(Names) \cup Permutations(Emails)
    \cup Permutations(Passwords) \cup Permutations(Secrets)

=============================================================================
