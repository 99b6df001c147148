------------------------------ MODULE Sessions ------------------------------
(***************************************************************************)
(* What logging in promises, with no table users, no ids and no sessions   *)
(* in sight: in each browser nobody or one person is logged in.  Somebody  *)
(* gets logged in only by a request that has given this person's password  *)
(* in that browser, and only once for it; until somebody else logs in      *)
(* there, the account stays the same person's or ends.  A page is served   *)
(* as the person who was logged in when the request looked, and only after *)
(* the AD has vouched for that person since.                               *)
(***************************************************************************)
EXTENDS AdServer

CONSTANTS Browsers, Requests, Null

VARIABLES
    entries,   \* the AD's entry of each person
    proved,    \* in which browser whose right password has been given
    account,   \* who is logged in in each browser
    request    \* how far each request has come

Idle == [at |-> "idle"]

Becomes(r, q) == request' = [request EXCEPT ![r] = q]

\* A password is given; if it serves to log in, then this request.
Check(r, b, p) ==
    /\ request[r].at = "idle"
    /\ Authentic(entries[p], "right")
    /\ proved' = proved \cup {<<b, p>>}
    /\ \/ Becomes(r, [at |-> "signing in", browser |-> b, person |-> p])
       \/ UNCHANGED request
    /\ UNCHANGED <<entries, account>>

SignIn(r) ==
    /\ request[r].at = "signing in"
    /\ account' = [account EXCEPT ![request[r].browser] = request[r].person]
    /\ Becomes(r, Idle)
    /\ UNCHANGED <<entries, proved>>

Visit(r, b) ==
    /\ Becomes(r, [at |-> "asking", browser |-> b])
    /\ UNCHANGED <<entries, proved, account>>

Read(r) ==
    /\ request[r].at = "asking"
    /\ account[request[r].browser] # Null
    /\ Becomes(r, [at |-> "as", person |-> account[request[r].browser]])
    /\ UNCHANGED <<entries, proved, account>>

Vouch(r) ==
    /\ request[r].at = "as"
    /\ Info(entries[request[r].person]) = "some"
    /\ Becomes(r, [request[r] EXCEPT !.at = "vouched"])
    /\ UNCHANGED <<entries, proved, account>>

Serve(r) ==
    /\ request[r].at = "vouched"
    /\ Becomes(r, [request[r] EXCEPT !.at = "served"])
    /\ UNCHANGED <<entries, proved, account>>

\* Accounts end and requests end: logout, expiry, restart, removed users,
\* refusals and errors.
Drop ==
    LET B == {b \in Browsers : account'[b] = Null}
        R == {r \in Requests : request'[r] = Idle}
    IN  /\ account' = [b \in Browsers |-> IF b \in B THEN Null ELSE account[b]]
        /\ request' = [r \in Requests |-> IF r \in R THEN Idle ELSE request[r]]
        /\ UNCHANGED <<entries, proved>>

Edit ==
    /\ entries' \in [People -> Entry]
    /\ UNCHANGED <<proved, account, request>>

Init ==
    /\ entries \in [People -> Entry]
    /\ proved = {}
    /\ account = [b \in Browsers |-> Null]
    /\ request = [r \in Requests |-> Idle]

Next ==
    \/ \E r \in Requests :
          \/ \E b \in Browsers : Visit(r, b) \/ \E p \in People : Check(r, b, p)
          \/ SignIn(r) \/ Read(r) \/ Vouch(r) \/ Serve(r)
    \/ Drop
    \/ Edit

Spec == Init /\ [][Next]_<<entries, proved, account, request>>

=============================================================================
