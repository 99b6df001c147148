------------------------------ MODULE MCTimer ------------------------------
(***************************************************************************)
(* Two users and two hosts; the leases found at the start end in half an   *)
(* hour.  Requests name one of the hosts; the loop and the buttons are     *)
(* about both.                                                             *)
(***************************************************************************)
EXTENDS ReleaseTimer, TLC

MCFirstEnds == {1}

MCWanted == {{CHOOSE h \in Hosts : TRUE}}

=============================================================================
