---------------------------- MODULE MCUsersInfo ----------------------------
(***************************************************************************)
(* Two calls that share the two connections: enough for a login beside a   *)
(* search and for two logins at a time.                                    *)
(***************************************************************************)
EXTENDS UsersInfo, TLC

\* A search, and a login with the right password or none.  A wrong one goes the
\* way of the right one for a person who is not there.
MCQuestions == {
    q \in D!Question :
        q.op # "get_user_info" /\ (q.op = "check_authentication" => q.password # "wrong")}

=============================================================================
