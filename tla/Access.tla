------------------------------- MODULE Access -------------------------------
(***************************************************************************)
(* What API tokens promise, with no queries in sight.  A token is issued   *)
(* to one user, once; it is theirs until it is withdrawn and never comes   *)
(* back, to them or to anybody else.  A request is served for the user its *)
(* token belonged to at some time after it was sent, if the AD server knew *)
(* that user at some time after that.                                      *)
(***************************************************************************)
CONSTANTS Users, Tokens, Requests, Null

VARIABLES
    owner,    \* the user of each token that is in force, or Null
    issued,   \* the tokens that have ever been in force
    people,   \* the users the AD server knows
    call      \* each request: its stage, its token and its user

access == <<owner, issued, people, call>>

Unsent == [stage |-> "new", token |-> Null, user |-> Null]

Issue(u, t) ==
    /\ t \notin issued
    /\ issued' = issued \cup {t}
    /\ owner' = [owner EXCEPT ![t] = u]
    /\ UNCHANGED <<people, call>>

Withdraw(t) ==
    /\ owner[t] # Null
    /\ owner' = [owner EXCEPT ![t] = Null]
    /\ UNCHANGED <<issued, people, call>>

Turnover ==
    /\ people' \in SUBSET Users
    /\ UNCHANGED <<owner, issued, call>>

Moves(a, c) ==
    /\ call' = [call EXCEPT ![a] = c]
    /\ UNCHANGED <<owner, issued, people>>

Send(a, t) ==
    /\ call[a] = Unsent
    /\ Moves(a, [stage |-> "sent", token |-> t, user |-> Null])

Recognise(a) ==
    /\ call[a].stage = "sent"
    /\ owner[call[a].token] # Null
    /\ Moves(a, [stage |-> "known", token |-> call[a].token,
                 user |-> owner[call[a].token]])

Serve(a) ==
    /\ call[a].stage = "known"
    /\ call[a].user \in people
    /\ Moves(a, [call[a] EXCEPT !.stage = "served"])

\* A request may always fail.
Refuse(a) ==
    /\ call[a].stage \in {"new", "sent", "known"}
    /\ Moves(a, [call[a] EXCEPT !.stage = "refused"])

Init ==
    /\ owner = [t \in Tokens |-> Null]
    /\ issued = {}
    /\ people = Users
    /\ call = [a \in Requests |-> Unsent]

Next ==
    \/ \E t \in Tokens : Withdraw(t) \/ \E u \in Users : Issue(u, t)
    \/ Turnover
    \/ \E a \in Requests :
          \/ \E t \in Tokens : Send(a, t)
          \/ Recognise(a) \/ Serve(a) \/ Refuse(a)

Spec == Init /\ [][Next]_access

=============================================================================
