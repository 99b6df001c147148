------------------------------ MODULE MCLease ------------------------------
(***************************************************************************)
(* Two users and two hosts of one group.  u1 may hold two hosts through an *)
(* AD group, u2 one through the configured limit.                          *)
(***************************************************************************)
EXTENDS LeaseSystem, TLC

CONSTANTS h1, h2, u1, u2, g1, ad

MCgroup_id == [h \in Hosts |-> g1]
MCUserGroups == (u1 :> {ad}) @@ (u2 :> {})
MCGroupLimits == ad :> 2
MCInitialTimes == {-1, 1}
MCOver == {-1}
MCSymmetry == Permutations(Requests) \cup Permutations(Hosts)

=============================================================================
