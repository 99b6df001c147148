------------------------------ MODULE MCViews ------------------------------
(***************************************************************************)
(* Two hosts in a group each and two users; one list, which others write   *)
(* beside.                                                                 *)
(***************************************************************************)
EXTENDS HostViews, TLC

CONSTANTS h1, h2, g1, g2

MCgroup_id == (h1 :> g1) @@ (h2 :> g2)
MCSymmetry == Permutations(Users)

=============================================================================
