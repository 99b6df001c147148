------------------------------- MODULE MCPool -------------------------------
(***************************************************************************)
(* Two connections, the fewest the program can run with: the timer alone   *)
(* takes both.  With two requests beside it there is always somebody who   *)
(* has to wait.                                                            *)
(***************************************************************************)
EXTENDS Pool, TLC

\* A login, a page that unwraps, an API request that writes and one that reads.
MCSomeRoutes == {
    [front |-> "open", name |-> "login"],
    [front |-> "page", name |-> "release_hosts"],
    [front |-> "api", name |-> "lease_hosts"],
    [front |-> "tool", name |-> "list_all_hosts"]}

=============================================================================
