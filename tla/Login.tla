------------------------------- MODULE Login -------------------------------
(***************************************************************************)
(* Logging in, sessions and the guard of the web pages:                    *)
(* src/web/auth/middleware.rs, src/web/auth/login.rs and the session layer *)
(* of src/web/mod.rs.  The AD answers as module Directory promises.        *)
(*                                                                         *)
(* A session is kept in memory and holds the id of a user.  The first      *)
(* login of a person inserts the user, in a transaction that other first   *)
(* logins of that person wait for.                                         *)
(***************************************************************************)
EXTENDS Naturals, AdServer

CONSTANTS
    Requests,   \* requests in flight: logins, pages, logouts
    Browsers,   \* each has a session cookie
    MaxUsers,   \* bound: values of the sequence users.id
    Edits,      \* what becomes of the AD's entries
    Null

ASSUME LoginAssumption ==
    /\ MaxUsers \in Nat
    /\ Null \notin People \cup 1..MaxUsers
    /\ Edits \subseteq Entry

Ids == 1..MaxUsers

VARIABLES
    entries,   \* the AD's entry of each person
    users,     \* table users: the dn of each row
    next_id,   \* the sequence of users.id
    session,   \* MemoryStore: the user of each browser's session
    req,       \* each request
    inserted,  \* the dn a request's open transaction has inserted
    \* Not in the program:
    proved,    \* in which browser whose right password has been given
    born       \* the users that have been there

vars == <<entries, users, next_id, session, req, inserted, proved, born>>

Idle == [pc |-> "idle"]

Busy(r) == req[r].pc \notin {"idle", "served"}

At(r, pc) == req[r].pc = pc

Goto(r, pc) == req' = [req EXCEPT ![r].pc = pc]

End(r) == req' = [req EXCEPT ![r] = Idle]

get_users_by_dn(p) == {u \in Ids : users[u] = p}

-----------------------------------------------------------------------------
(***************************************************************************)
(* Backend::authenticate and the handler login.                            *)
(***************************************************************************)
submit(r, b, p, password) ==
    /\ ~Busy(r)
    /\ req' = [req EXCEPT ![r] = [pc |-> "find", browser |-> b, person |-> p,
                                  password |-> password]]
    /\ UNCHANGED <<entries, users, next_id, session, inserted, proved, born>>

\* "Wrong credentials" for an unknown person, "Something went wrong" for an
\* error.
find_user_info(r) ==
    /\ At(r, "find")
    /\ \E a \in {Find(entries[req[r].person]), "error"} :
          IF a = "some" THEN Goto(r, "check") ELSE End(r)
    /\ UNCHANGED <<entries, users, next_id, session, inserted, proved, born>>

Right(r) == Authentic(entries[req[r].person], req[r].password)

GavePassword(r) ==
    proved' = IF Right(r) THEN proved \cup {<<req[r].browser, req[r].person>>}
                          ELSE proved

check_authentication(r) ==
    /\ At(r, "check")
    /\ \/ Right(r) /\ Goto(r, "look")
       \/ End(r)
    /\ GavePassword(r)
    /\ UNCHANGED <<entries, users, next_id, session, inserted, born>>

\* get_user_by_dn, in a transaction of its own.
get_user_by_dn(r) ==
    /\ At(r, "look")
    /\ LET found == get_users_by_dn(req[r].person)
       IN  IF found = {} THEN Goto(r, "add")
           ELSE \E u \in found :
                   req' = [req EXCEPT ![r] = [pc |-> "login", browser |-> @.browser,
                                              user |-> u]]
    /\ UNCHANGED <<entries, users, next_id, session, inserted, proved, born>>

Insert(r, u) ==
    /\ inserted' = [inserted EXCEPT ![r] = req[r].person]
    /\ req' = [req EXCEPT ![r] = [pc |-> "commit", browser |-> @.browser,
                                  person |-> @.person, user |-> u]]

\* Mutants: dn is not UNIQUE; the id of a removed user is taken again.
add_user_NotUnique(r) ==
    /\ At(r, "add")
    /\ next_id <= MaxUsers
    /\ Insert(r, next_id)
    /\ next_id' = next_id + 1
    /\ UNCHANGED <<entries, users, session, proved, born>>

add_user_FreeId(r) ==
    /\ At(r, "add")
    /\ \A r2 \in Requests : inserted[r2] = Null
    /\ get_users_by_dn(req[r].person) = {}
    /\ \E u \in {i \in Ids : users[i] = Null} : Insert(r, u)
    /\ next_id' = 1
    /\ UNCHANGED <<entries, users, session, proved, born>>

\* The INSERT: dn is UNIQUE, so it waits for another transaction that inserts
\* the same dn, and is an error when there is such a row.  It takes a number
\* from the sequence either way.
add_user(r) ==
    /\ At(r, "add")
    /\ \A r2 \in Requests : inserted[r2] # req[r].person
    /\ IF get_users_by_dn(req[r].person) = {} /\ next_id <= MaxUsers
       THEN Insert(r, next_id)
       ELSE End(r) /\ UNCHANGED inserted
    /\ next_id' = IF next_id <= MaxUsers THEN next_id + 1 ELSE next_id
    /\ UNCHANGED <<entries, users, session, proved, born>>

Committed(r) ==
    /\ users' = [users EXCEPT ![req[r].user] = inserted[r]]
    /\ born' = born \cup {req[r].user}
    /\ inserted' = [inserted EXCEPT ![r] = Null]

commit(r) ==
    /\ At(r, "commit")
    /\ Committed(r)
    /\ req' = [req EXCEPT ![r] = [pc |-> "login", browser |-> @.browser, user |-> @.user]]
    /\ UNCHANGED <<entries, next_id, session, proved>>

\* The commit took effect, but its answer is an error: the login fails with the
\* user there.
commit_fail(r) ==
    /\ At(r, "commit")
    /\ Committed(r)
    /\ End(r)
    /\ UNCHANGED <<entries, next_id, session, proved>>

\* AuthSession::login: the session holds the user's id.
login(r) ==
    /\ At(r, "login")
    /\ session' = [session EXCEPT ![req[r].browser] = req[r].user]
    /\ End(r)
    /\ UNCHANGED <<entries, users, next_id, inserted, proved, born>>

-----------------------------------------------------------------------------
(***************************************************************************)
(* Backend::get_user, auth_middleware, and what is behind it.              *)
(***************************************************************************)
visit(r, b, page) ==
    /\ ~Busy(r)
    /\ req' = [req EXCEPT ![r] = [pc |-> "load", browser |-> b, page |-> page]]
    /\ UNCHANGED <<entries, users, next_id, session, inserted, proved, born>>

Known(p) == Info(entries[p]) = "some"

\* Mutant: the user of a session is taken to be there.
get_user_Unwrapped(r) ==
    LET u == session[req[r].browser]
    IN  /\ At(r, "load")
        /\ IF u = Null THEN End(r)
           ELSE req' = [req EXCEPT ![r] = [pc |-> "info", browser |-> @.browser,
                            page |-> @.page, person |-> users[u], known |-> FALSE]]
        /\ UNCHANGED <<entries, users, next_id, session, inserted, proved, born>>

\* The session's user is read.  Without a session, or when the user is gone,
\* the browser is sent to the login page.
get_user(r) ==
    LET u == session[req[r].browser]
        p == IF u = Null THEN Null ELSE users[u]
    IN  /\ At(r, "load")
        /\ IF p = Null THEN End(r)
           ELSE req' = [req EXCEPT ![r] = [pc |-> "info", browser |-> @.browser,
                            page |-> @.page, person |-> p, known |-> Known(p)]]
        /\ UNCHANGED <<entries, users, next_id, session, inserted, proved, born>>

\* Mutant: when the AD does not answer, the user of the session is taken.
get_user_info_Lenient(r) ==
    /\ At(r, "info")
    /\ \E a \in {Info(entries[req[r].person]), "error"} :
          IF a # "none" THEN Goto(r, "handle") ELSE End(r)
    /\ UNCHANGED <<entries, users, next_id, session, inserted, proved, born>>

\* The AD is asked about the user; with no good answer there is no user and
\* the browser is sent to the login page.
get_user_info(r) ==
    /\ At(r, "info")
    /\ \E a \in {Info(entries[req[r].person]), "error"} :
          IF a = "some" THEN Goto(r, "handle") ELSE End(r)
    /\ UNCHANGED <<entries, users, next_id, session, inserted, proved, born>>

serve(r) ==
    /\ At(r, "handle")
    /\ req[r].page = "hosts"
    /\ Goto(r, "served")
    /\ UNCHANGED <<entries, users, next_id, session, inserted, proved, born>>

logout(r) ==
    /\ At(r, "handle")
    /\ req[r].page = "logout"
    /\ session' = [session EXCEPT ![req[r].browser] = Null]
    /\ End(r)
    /\ UNCHANGED <<entries, users, next_id, inserted, proved, born>>

-----------------------------------------------------------------------------
(***************************************************************************)
(* What else happens.                                                      *)
(***************************************************************************)
\* A query fails or the browser goes away: the open transaction is dropped.
fail(r) ==
    /\ Busy(r)
    /\ End(r)
    /\ inserted' = [inserted EXCEPT ![r] = Null]
    /\ UNCHANGED <<entries, users, next_id, session, proved, born>>

\* The program stops and starts again; the sessions were in its memory.
Restart ==
    /\ session' = [b \in Browsers |-> Null]
    /\ req' = [r \in Requests |-> Idle]
    /\ inserted' = [r \in Requests |-> Null]
    /\ UNCHANGED <<entries, users, next_id, proved, born>>

\* Seven days of inactivity.
Expire(b) ==
    /\ session' = [session EXCEPT ![b] = Null]
    /\ UNCHANGED <<entries, users, next_id, req, inserted, proved, born>>

\* An administrator deletes a row of users.
RemoveUser(u) ==
    /\ users' = [users EXCEPT ![u] = Null]
    /\ UNCHANGED <<entries, next_id, session, req, inserted, proved, born>>

\* A request whose person is known to the AD meanwhile.
Informed(q, p) ==
    IF q.pc \in {"info", "handle"} /\ q.person = p THEN [q EXCEPT !.known = TRUE] ELSE q

\* People join and leave the AD, or are edited there.
Edit(p) ==
    /\ \E e \in Edits :
          /\ entries' = [entries EXCEPT ![p] = e]
          /\ req' = IF Info(e) = "some"
                    THEN [r \in Requests |-> Informed(req[r], p)]
                    ELSE req
    /\ UNCHANGED <<users, next_id, session, inserted, proved, born>>

-----------------------------------------------------------------------------
Init ==
    /\ entries = [p \in People |-> "whole"]
    /\ users = [u \in Ids |-> Null]
    /\ next_id = 1
    /\ session = [b \in Browsers |-> Null]
    /\ req = [r \in Requests |-> Idle]
    /\ inserted = [r \in Requests |-> Null]
    /\ proved = {}
    /\ born = {}

Arrive(r) ==
    \E b \in Browsers :
        \/ \E p \in People, password \in {"right", "wrong"} : submit(r, b, p, password)
        \/ \E page \in {"hosts", "logout"} : visit(r, b, page)

Handle(r) ==
    \/ find_user_info(r) \/ check_authentication(r) \/ get_user_by_dn(r)
    \/ add_user(r) \/ commit(r) \/ login(r)
    \/ get_user(r) \/ get_user_info(r) \/ serve(r) \/ logout(r)

Next ==
    \/ \E r \in Requests : Arrive(r) \/ Handle(r) \/ fail(r) \/ commit_fail(r)
    \/ Restart
    \/ \E b \in Browsers : Expire(b)
    \/ \E u \in Ids : RemoveUser(u)
    \/ \E p \in People : Edit(p)

Spec == Init /\ [][Next]_vars

-----------------------------------------------------------------------------
(***************************************************************************)
(* Properties.                                                             *)
(***************************************************************************)
RequestType ==
    [pc : {"idle"}]
      \cup [pc : {"find", "check", "look", "add"}, browser : Browsers, person : People,
            password : {"right", "wrong"}]
      \cup [pc : {"commit"}, browser : Browsers, person : People, user : Ids]
      \cup [pc : {"login"}, browser : Browsers, user : Ids]
      \cup [pc : {"load"}, browser : Browsers, page : {"hosts", "logout"}]
      \cup [pc : {"info", "handle", "served"}, browser : Browsers,
            page : {"hosts", "logout"}, person : People, known : BOOLEAN]

TypeOK ==
    /\ entries \in [People -> Entry]
    /\ users \in [Ids -> People \cup {Null}]
    /\ next_id \in 1..(MaxUsers + 1)
    /\ session \in [Browsers -> Ids \cup {Null}]
    /\ req \in [Requests -> RequestType]
    /\ inserted \in [Requests -> People \cup {Null}]
    /\ proved \subseteq Browsers \X People
    /\ born \subseteq Ids

\* A person has one row in users, however many first logins run at a time.
OneRowPerPerson ==
    \A u, v \in Ids : users[u] # Null /\ users[u] = users[v] => u = v

\* A session holds a user who has been committed, and as long as the user is
\* there, somebody has given that person's password in that browser: no other
\* login, restart, or removal of users in between changes whom it stands for.
SessionIsProved ==
    \A b \in Browsers :
        session[b] # Null =>
            /\ session[b] \in born
            /\ users[session[b]] # Null => <<b, users[session[b]]>> \in proved

\* Nobody gets a page without a password given in that browser, and nobody who
\* was not in the AD at some time after the request had read the user.
ServedOnlyProved ==
    \A r \in Requests :
        req[r].pc = "served" =>
            /\ <<req[r].browser, req[r].person>> \in proved
            /\ req[r].known

\* Who is logged in in a browser, and how far a request has come, for Sessions.
Account(b) == IF session[b] = Null THEN Null ELSE users[session[b]]

SigningIn(b, p) == [at |-> "signing in", browser |-> b, person |-> p]

Progress(r) ==
    LET q == req[r]
    IN  CASE q.pc \in {"look", "add", "commit"} -> SigningIn(q.browser, q.person)
          [] q.pc = "login" /\ users[q.user] # Null -> SigningIn(q.browser, users[q.user])
          [] q.pc = "load"   -> [at |-> "asking", browser |-> q.browser]
          [] q.pc = "info"   -> [at |-> "as", person |-> q.person]
          [] q.pc = "handle" -> [at |-> "vouched", person |-> q.person]
          [] q.pc = "served" -> [at |-> "served", person |-> q.person]
          [] OTHER -> [at |-> "idle"]

Promised == INSTANCE Sessions WITH account <- [b \in Browsers |-> Account(b)],
                                   request <- [r \in Requests |-> Progress(r)]

\* Users and sessions together are accounts that one password check opens at
\* most once: no commit, restart, removal of a user or late login in between
\* lets a browser change hands, or a page be served as somebody else.
SessionsSpec == Promised!Spec

=============================================================================
