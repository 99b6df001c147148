------------------------------ MODULE MCTokens ------------------------------
(***************************************************************************)
(* Two users, each allowed one token, and three web requests: enough for a *)
(* user to create, revoke and create again while another does the same.    *)
(***************************************************************************)
EXTENDS ApiTokens, TLC

MCSymmetry == Permutations(WebRequests) \cup Permutations(Tokens)
                \cup Permutations(Users)

=============================================================================
