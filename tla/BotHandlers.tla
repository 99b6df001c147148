---------------------------- MODULE BotHandlers ----------------------------
(***************************************************************************)
(* src/bot/handlers.rs: the "+1h / +8h / +1d" buttons of an expiration     *)
(* notice.  Each member of Callbacks is one press of a button; it is       *)
(* delivered once and ends "ok", "ignored" (no positive number of hours),  *)
(* "no_expiring" (nothing to extend) or "error".                           *)
(***************************************************************************)
EXTENDS Registry

CONSTANTS
    CallbackHours   \* the hours a press carries; text that is no number is 0

ASSUME BotAssumption == CallbackHours \subseteq Int

VARIABLES
    cb,         \* where each callback is
    extending   \* the hosts and hours a callback is about to extend

botVars == <<cb, extending>>

NoExtension == [ids |-> {}, hours |-> 0]

\* handle_extend_callback, for a press that carries no positive number.
ignore_callback(c, hours) ==
    /\ cb[c] = "new"
    /\ hours <= 0
    /\ cb' = [cb EXCEPT ![c] = "ignored"]
    /\ UNCHANGED <<registryVars, extending>>

\* extend_user_hosts for user u, whom get_user_by_tg_handle finds for the
\* sender: the SELECT of the hosts that expire within the window.  Hosts whose
\* lease is already over are among them until the timer frees them.  It ends
\* with an error if no user has the sender's tg_handle or a query fails.
extend_select(c, u, hours) ==
    LET ids == get_expiring_hosts_for_user(hosts, u, now + EXPIRATION_NOTIFY_WINDOW)
    IN  /\ cb[c] = "new"
        /\ hours > 0
        /\ \/ /\ ids = {}
              /\ cb' = [cb EXCEPT ![c] = "no_expiring"]
              /\ UNCHANGED <<registryVars, extending>>
           \/ /\ cb' = [cb EXCEPT ![c] = "error"]
              /\ UNCHANGED <<registryVars, extending>>
           \/ /\ ids # {}
              /\ cb' = [cb EXCEPT ![c] = "query"]
              /\ extending' = [extending EXCEPT ![c] = [ids |-> ids, hours |-> hours]]
              /\ UNCHANGED registryVars

\* extend_user_hosts: the UPDATE of the hosts it has selected.
extend_update(c) ==
    /\ cb[c] = "query"
    /\ cb' = [cb EXCEPT ![c] = "update"]
    /\ extending' = [extending EXCEPT ![c] = NoExtension]
    /\ StartStmt(c, extend_hosts_lease(extending[c].ids, extending[c].hours))

extend_row(c) ==
    /\ cb[c] = "update"
    /\ WriteRow(c)
    /\ UNCHANGED botVars

extend_commit(c) ==
    /\ cb[c] = "update"
    /\ Commit(c)
    /\ \E answer \in {"ok", "error"} : cb' = [cb EXCEPT ![c] = answer]
    /\ UNCHANGED extending

\* A query fails: handle_extend_callback answers "Failed to extend lease".
extend_fail(c) ==
    /\ cb[c] \in {"query", "update"}
    /\ Rollback(c)
    /\ cb' = [cb EXCEPT ![c] = "error"]
    /\ extending' = [extending EXCEPT ![c] = NoExtension]

-----------------------------------------------------------------------------
BotInit ==
    /\ cb = [c \in Callbacks |-> "new"]
    /\ extending = [c \in Callbacks |-> NoExtension]

Press(c) ==
    \/ \E hours \in CallbackHours : ignore_callback(c, hours)
    \/ \E u \in Users, hours \in CallbackHours : extend_select(c, u, hours)

BotTypeOK ==
    /\ cb \in [Callbacks -> {"new", "ignored", "query", "update", "ok",
                             "no_expiring", "error"}]
    /\ extending \in [Callbacks -> [ids : SUBSET Hosts, hours : Int]]

=============================================================================
