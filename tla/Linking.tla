------------------------------ MODULE Linking ------------------------------
(***************************************************************************)
(* Telegram accounts: a user is linked by sending the bot the code of the  *)
(* web page (main_state_handler, link_user); expiration notices go to the  *)
(* user's account (get_message_sender).  A button of a notice carries a    *)
(* number of hours and nothing else: a press extends whatever leases of    *)
(* the user whom get_user_by_tg_handle finds for the account are in the    *)
(* window by then, whether the notice listed them or not.  The column      *)
(* tg_handle is not unique, so there may be several users to an account.   *)
(***************************************************************************)
CONSTANTS
    Users,
    Hosts,
    Accounts,   \* Telegram accounts
    Null

ASSUME LinkingAssumption == Null \notin Users \cup Accounts

VARIABLES
    tg_handle,   \* table users: the account of each user
    expiring,    \* the user of each host whose lease ends within the window
    buttons,     \* the accounts that have been sent notices with buttons
    callback,    \* the press of a button each account waits for
    \* Not in the program:
    coded,       \* which account has sent whose code
    extended     \* the account of the last extension, and the hosts it selected

vars == <<tg_handle, expiring, buttons, callback, coded, extended>>

NoCallback == [pc |-> "none"]

NoExtension == [by |-> Null, rows |-> <<>>]

\* What the SELECT of the hosts to extend returns: for each, whose it is.
Rows == UNION {[S -> Users] : S \in SUBSET Hosts}

-----------------------------------------------------------------------------
\* main_state_handler with the code of u's page; UsersService::link_user.  Any
\* other text changes nothing.
link_user(t, u) ==
    /\ tg_handle' = [tg_handle EXCEPT ![u] = t]
    /\ coded' = coded \cup {<<t, u>>}
    /\ UNCHANGED <<expiring, buttons, callback, extended>>

\* ExpirationSoon, with the buttons, which can be pressed long after.  That a
\* notice loses them once it is answered is left out: another may have some.
notify(u) ==
    /\ \E h \in Hosts : expiring[h] = u
    /\ tg_handle[u] # Null
    /\ buttons' = buttons \cup {tg_handle[u]}
    /\ UNCHANGED <<tg_handle, expiring, callback, coded, extended>>

press(t) ==
    /\ t \in buttons
    /\ callback[t].pc = "none"
    /\ callback' = [callback EXCEPT ![t] = [pc |-> "pressed"]]
    /\ UNCHANGED <<tg_handle, expiring, buttons, coded, extended>>

\* Mutant: any user who has a tg_handle.
LinkedTo_Anybody(t) == {u \in Users : tg_handle[u] # Null}

LinkedTo(t) == {u \in Users : tg_handle[u] = t}

End(t) == callback' = [callback EXCEPT ![t] = NoCallback]

\* Mutant: that no user is linked is not looked at.
get_user_by_tg_handle_Unwrapped(t) ==
    /\ callback[t].pc = "pressed"
    /\ \E u \in IF LinkedTo(t) = {} THEN {Null} ELSE LinkedTo(t) :
          callback' = [callback EXCEPT ![t] = [pc |-> "found", user |-> u]]
    /\ UNCHANGED <<tg_handle, expiring, buttons, coded, extended>>

\* One of the users with that tg_handle, or "User not found".
get_user_by_tg_handle(t) ==
    /\ callback[t].pc = "pressed"
    /\ IF LinkedTo(t) = {} THEN End(t)
       ELSE \E u \in LinkedTo(t) :
               callback' = [callback EXCEPT ![t] = [pc |-> "found", user |-> u]]
    /\ UNCHANGED <<tg_handle, expiring, buttons, coded, extended>>

\* The hosts of that user that are in the window now, or "No expiring hosts".
get_expiring_hosts_for_user(t) ==
    LET ids == {h \in Hosts : expiring[h] = callback[t].user}
    IN  /\ callback[t].pc = "found"
        /\ IF ids = {} THEN End(t)
           ELSE callback' = [callback EXCEPT ![t] =
                   [pc |-> "selected", rows |-> [h \in ids |-> expiring[h]]]]
        /\ UNCHANGED <<tg_handle, expiring, buttons, coded, extended>>

\* The UPDATE of these ids, whoever has them by now, and "Lease extended".  A
\* lease that has been over for long may be in the window still.
extend_hosts_lease(t) ==
    LET ids == DOMAIN callback[t].rows
    IN  /\ callback[t].pc = "selected"
        /\ End(t)
        /\ \E Out \in SUBSET ids :
              expiring' = [h \in Hosts |-> IF h \in Out THEN Null ELSE expiring[h]]
        /\ extended' = [by |-> t, rows |-> callback[t].rows]
        /\ UNCHANGED <<tg_handle, buttons, coded>>

extend_fail(t) ==
    /\ callback[t].pc # "none"
    /\ End(t)
    /\ UNCHANGED <<tg_handle, expiring, buttons, coded, extended>>

\* A lease comes into the window, leaves it, or is over; or the host is taken.
Expiring(h) ==
    /\ \E u \in Users \cup {Null} : expiring' = [expiring EXCEPT ![h] = u]
    /\ UNCHANGED <<tg_handle, buttons, callback, coded, extended>>

-----------------------------------------------------------------------------
Init ==
    /\ tg_handle = [u \in Users |-> Null]
    /\ expiring \in [Hosts -> Users \cup {Null}]
    /\ buttons = {}
    /\ callback = [t \in Accounts |-> NoCallback]
    /\ coded = {}
    /\ extended = NoExtension

Next ==
    \/ \E t \in Accounts, u \in Users : link_user(t, u)
    \/ \E u \in Users : notify(u)
    \/ \E h \in Hosts : Expiring(h)
    \/ \E t \in Accounts :
          \/ press(t) \/ get_user_by_tg_handle(t) \/ get_expiring_hosts_for_user(t)
          \/ extend_hosts_lease(t) \/ extend_fail(t)

Spec == Init /\ [][Next]_vars

-----------------------------------------------------------------------------
(***************************************************************************)
(* Properties.                                                             *)
(***************************************************************************)
TypeOK ==
    /\ tg_handle \in [Users -> Accounts \cup {Null}]
    /\ expiring \in [Hosts -> Users \cup {Null}]
    /\ buttons \subseteq Accounts
    /\ callback \in [Accounts ->
          {NoCallback} \cup [pc : {"pressed"}] \cup [pc : {"found"}, user : Users]
            \cup [pc : {"selected"}, rows : Rows]]
    /\ coded \subseteq Accounts \X Users
    /\ extended \in [by : Accounts, rows : Rows] \cup {NoExtension}

\* A press selects for extension no host but those leased, when it reads them, by
\* a user whose code the account has sent, whoever is linked anew while the press
\* is handled.  What becomes of a host between that SELECT and the UPDATE is the
\* matter of LeaseSystem.
ExtendsOnlyCoded ==
    \A h \in DOMAIN extended.rows : <<extended.by, extended.rows[h]>> \in coded

=============================================================================
