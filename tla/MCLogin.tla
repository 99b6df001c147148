------------------------------ MODULE MCLogin ------------------------------
(***************************************************************************)
(* Requests are used again and again, so two of them show every pair of    *)
(* requests at a time, after any history.                                  *)
(***************************************************************************)
EXTENDS Login, TLC

MCSymmetry ==
    Permutations(Requests) \cup Permutations(Browsers) \cup Permutations(People)

=============================================================================
