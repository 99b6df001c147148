----------------------------- MODULE MCLinking -----------------------------
(***************************************************************************)
(* Two users, two hosts and two accounts: each account may be linked with  *)
(* both users, one after the other or at a time.                           *)
(***************************************************************************)
EXTENDS Linking, TLC

MCSymmetry == Permutations(Users) \cup Permutations(Accounts) \cup Permutations(Hosts)

=============================================================================
