----------------------------- MODULE UsersInfo -----------------------------
(***************************************************************************)
(* src/ldap/mod.rs: two tasks keep a connection to the AD server each, and *)
(* the methods of UsersInfo use a clone of the handle they find.           *)
(*                                                                         *)
(* The connection in `authorized_ldap' is bound with tachikoma's own       *)
(* account and serves searches.  The one in `ldap' is bound again and      *)
(* again with the names and passwords of the people who log in.  All calls *)
(* share these two connections.                                            *)
(***************************************************************************)
EXTENDS Naturals, FiniteSets

CONSTANTS
    People,        \* distinguished names
    Calls,         \* calls of the methods of UsersInfo
    Connections,   \* names for the connections somebody has a handle of
    Service,       \* tachikoma's own account in the AD
    Nobody,        \* who a connection is bound as before a bind or after a failed one
    Questions,     \* what the callers ask
    Edits,         \* what becomes of the AD's entries
    Null,
    MaxTroubles    \* bound: outages, broken connections, refused logins

Keepers == {"ldap", "authorized_ldap"}

VARIABLES
    entries,     \* the AD's entry of each person
    reachable,   \* the AD server accepts connections
    conn,        \* each connection, and who it is bound as
    state,       \* UsersInfoState: the handle published by each keeper
    keeper,      \* where each keeper is, and its connection
    running,     \* UsersInfo::work has not returned
    req,         \* the question, the handle and the answer of each call
    troubles     \* outages, broken connections and refused logins so far

vars == <<entries, reachable, conn, state, keeper, running, req, troubles>>

Public(q) ==
    CASE q.state = "new"      -> [state |-> "new"]
      [] q.state = "answered" -> [state |-> "answered", answer |-> q.answer,
                                  question |-> q.question]
      [] OTHER                -> [state |-> "asked", question |-> q.question]

D == INSTANCE Directory WITH call <- [r \in Calls |-> Public(req[r])]

ASSUME UsersInfoAssumption ==
    /\ Null \notin Connections
    /\ Service \notin People \cup {Nobody}
    /\ Questions \subseteq D!Question
    /\ Edits \subseteq D!Entry
    /\ MaxTroubles \in Nat

Open(c) == conn[c].open

\* A name that can be given to a new connection.
Fresh(c) ==
    /\ ~Open(c)
    /\ \A k \in Keepers : c \notin {state[k], keeper[k].conn}
    /\ \A r \in Calls : req[r].state = "using" => req[r].handle # c

Trouble ==
    /\ troubles < MaxTroubles
    /\ troubles' = troubles + 1

-----------------------------------------------------------------------------
(***************************************************************************)
(* The keepers.                                                            *)
(***************************************************************************)
At(k, pc) == running /\ keeper[k].pc = pc

Goto(k, pc) == keeper' = [keeper EXCEPT ![k].pc = pc]

\* LdapConnAsync::with_settings.
connect(k) ==
    /\ At(k, "connect")
    /\ reachable
    /\ \E c \in Connections :
          /\ Fresh(c)
          /\ conn' = [conn EXCEPT ![c] = [open |-> TRUE, bound |-> Nobody]]
          /\ keeper' = [keeper EXCEPT ![k] =
                [pc |-> IF k = "authorized_ldap" THEN "bind" ELSE "publish",
                 conn |-> c]]
    /\ UNCHANGED <<entries, reachable, state, running, req, troubles>>

connect_fail(k) ==
    /\ At(k, "connect")
    /\ \/ ~reachable /\ UNCHANGED troubles
       \/ Trouble
    /\ Goto(k, "clear")
    /\ UNCHANGED <<entries, reachable, conn, state, running, req>>

\* simple_bind with tachikoma's account.
bind ==
    LET c == keeper["authorized_ldap"].conn
    IN  /\ At("authorized_ldap", "bind")
        /\ Open(c)
        /\ conn' = [conn EXCEPT ![c].bound = Service]
        /\ Goto("authorized_ldap", "publish")
        /\ UNCHANGED <<entries, reachable, state, running, req, troubles>>

\* "Unable to bind credentials", "Unable to authorize": the keeper returns, and
\* so does work, and with it the race of the tasks in main.
bind_fail ==
    LET c == keeper["authorized_ldap"].conn
    IN  /\ At("authorized_ldap", "bind")
        /\ \/ ~Open(c) /\ UNCHANGED troubles
           \/ Open(c) /\ Trouble
        /\ running' = FALSE
        /\ Goto("authorized_ldap", "ended")
        /\ UNCHANGED <<entries, reachable, conn, state, req>>

\* Mutants: the connection is driven before its handle is published; the
\* handle is published before the bind.
publish_AfterDrive(k) ==
    /\ At(k, "publish")
    /\ ~Open(keeper[k].conn)
    /\ state' = [state EXCEPT ![k] = keeper[k].conn]
    /\ Goto(k, "clear")
    /\ UNCHANGED <<entries, reachable, conn, running, req, troubles>>

publish_BeforeBind(k) ==
    /\ At(k, "publish") \/ (At(k, "bind") /\ state[k] = Null)
    /\ state' = [state EXCEPT ![k] = keeper[k].conn]
    /\ IF keeper[k].pc = "bind" THEN UNCHANGED keeper ELSE Goto(k, "drive")
    /\ UNCHANGED <<entries, reachable, conn, running, req, troubles>>

publish(k) ==
    /\ At(k, "publish")
    /\ state' = [state EXCEPT ![k] = keeper[k].conn]
    /\ Goto(k, "drive")
    /\ UNCHANGED <<entries, reachable, conn, running, req, troubles>>

\* drive() returns when the connection is broken.
drive_end(k) ==
    /\ At(k, "drive")
    /\ ~Open(keeper[k].conn)
    /\ Goto(k, "clear")
    /\ UNCHANGED <<entries, reachable, conn, state, running, req, troubles>>

\* Mutant: the broken handle stays.
clear_Nothing(k) ==
    /\ At(k, "clear")
    /\ keeper' = [keeper EXCEPT ![k] = [pc |-> "sleep", conn |-> Null]]
    /\ UNCHANGED <<entries, reachable, conn, state, running, req, troubles>>

clear(k) ==
    /\ At(k, "clear")
    /\ state' = [state EXCEPT ![k] = Null]
    /\ keeper' = [keeper EXCEPT ![k] = [pc |-> "sleep", conn |-> Null]]
    /\ UNCHANGED <<entries, reachable, conn, running, req, troubles>>

\* reconnect_interval is over.
wake(k) ==
    /\ At(k, "sleep")
    /\ Goto(k, "connect")
    /\ UNCHANGED <<entries, reachable, conn, state, running, req, troubles>>

-----------------------------------------------------------------------------
(***************************************************************************)
(* The methods: get_user_info, find_user_info, check_authentication.       *)
(***************************************************************************)
ask(r) ==
    /\ running
    /\ req[r].state = "new"
    /\ \E q \in Questions :
          req' = [req EXCEPT ![r] = [state |-> "asked", question |-> q]]
    /\ UNCHANGED <<entries, reachable, conn, state, keeper, running, troubles>>

Answer(r, a) ==
    req' = [req EXCEPT ![r] = [state |-> "answered", answer |-> a,
                               question |-> req[r].question]]

\* Mutant: passwords are checked on the connection that serves searches.
HandleOf_Shared(question) == state["authorized_ldap"]

\* get_ldap, get_authorized_ldap.
HandleOf(question) ==
    state[IF question.op = "check_authentication" THEN "ldap" ELSE "authorized_ldap"]

\* Mutant: an empty password is sent to the AD.
BlankPassword_No(question) == FALSE

BlankPassword(question) ==
    question.op = "check_authentication" /\ question.password = "empty"

\* Mutant: a call does not look whether there is a connection.
take_handle_Unchecked(r) ==
    /\ running
    /\ req[r].state = "asked"
    /\ req' = [req EXCEPT ![r] = [state |-> "using", question |-> req[r].question,
                                  handle |-> HandleOf(req[r].question)]]
    /\ UNCHANGED <<entries, reachable, conn, state, keeper, running, troubles>>

\* Without a connection, or with an empty password, there is no answer.
take_handle(r) ==
    LET handle == HandleOf(req[r].question)
    IN  /\ running
        /\ req[r].state = "asked"
        /\ IF BlankPassword(req[r].question) \/ handle = Null
           THEN Answer(r, "error")
           ELSE req' = [req EXCEPT ![r] =
                    [state |-> "using", question |-> req[r].question,
                     handle |-> handle]]
        /\ UNCHANGED <<entries, reachable, conn, state, keeper, running, troubles>>

\* What the AD answers to a search: only tachikoma's account sees the people.
SearchResult(r) ==
    LET q == req[r].question
    IN  IF conn[req[r].handle].bound = Service
        THEN {D!Truth(q, entries[q.person])}
        ELSE {"none", "error"}

\* do_authorized_ldap_request and the first entry it finds.
search(r) ==
    /\ running
    /\ req[r].state = "using"
    /\ req[r].question.op # "check_authentication"
    /\ Open(req[r].handle)
    /\ \E a \in SearchResult(r) : Answer(r, a)
    /\ UNCHANGED <<entries, reachable, conn, state, keeper, running, troubles>>

\* simple_bind with the person's password.  The AD takes a bind with an empty
\* password for an anonymous one and accepts it.
simple_bind(r) ==
    LET q == req[r].question
        right == D!Authentic(entries[q.person], q.password)
    IN  /\ running
        /\ req[r].state = "using"
        /\ q.op = "check_authentication"
        /\ Open(req[r].handle)
        /\ conn' = [conn EXCEPT ![req[r].handle].bound = IF right THEN q.person ELSE Nobody]
        /\ Answer(r, IF right \/ q.password = "empty" THEN "ok" ELSE "error")
        /\ UNCHANGED <<entries, reachable, state, keeper, running, troubles>>

\* Mutant: a call waits for the answer of a broken connection.
request_fail_Waits(r) ==
    /\ running
    /\ req[r].state = "using"
    /\ Open(req[r].handle)
    /\ Trouble
    /\ Answer(r, "error")
    /\ UNCHANGED <<entries, reachable, conn, state, keeper, running>>

\* The handle's connection is broken, or the AD fails to answer.
request_fail(r) ==
    /\ running
    /\ req[r].state = "using"
    /\ \/ ~Open(req[r].handle) /\ UNCHANGED troubles
       \/ Open(req[r].handle) /\ Trouble
    /\ Answer(r, "error")
    /\ UNCHANGED <<entries, reachable, conn, state, keeper, running>>

-----------------------------------------------------------------------------
(***************************************************************************)
(* The AD server and the network.                                          *)
(***************************************************************************)
Broken(S) ==
    [c \in Connections |->
        IF c \in S THEN [conn[c] EXCEPT !.open = FALSE] ELSE conn[c]]

Outage ==
    /\ reachable
    /\ Trouble
    /\ reachable' = FALSE
    /\ conn' = Broken(Connections)
    /\ UNCHANGED <<entries, state, keeper, running, req>>

Recovery ==
    /\ ~reachable
    /\ reachable' = TRUE
    /\ UNCHANGED <<entries, conn, state, keeper, running, req, troubles>>

Break(c) ==
    /\ Open(c)
    /\ Trouble
    /\ conn' = Broken({c})
    /\ UNCHANGED <<entries, reachable, state, keeper, running, req>>

\* People join and leave the AD, or are edited there.
Edit(p) ==
    /\ \E e \in Edits : entries' = [entries EXCEPT ![p] = e]
    /\ UNCHANGED <<reachable, conn, state, keeper, running, req, troubles>>

-----------------------------------------------------------------------------
Init ==
    /\ entries = [p \in People |-> "whole"]
    /\ reachable \in BOOLEAN
    /\ conn = [c \in Connections |-> [open |-> FALSE, bound |-> Nobody]]
    /\ state = [k \in Keepers |-> Null]
    /\ keeper = [k \in Keepers |-> [pc |-> "connect", conn |-> Null]]
    /\ running = TRUE
    /\ req = [r \in Calls |-> [state |-> "new"]]
    /\ troubles = 0

Keeping ==
    \/ bind \/ bind_fail
    \/ \E k \in Keepers : \/ connect(k) \/ connect_fail(k) \/ publish(k)
                          \/ drive_end(k) \/ clear(k) \/ wake(k)

Serving(r) == take_handle(r) \/ search(r) \/ simple_bind(r) \/ request_fail(r)

Next ==
    \/ Keeping
    \/ \E r \in Calls : ask(r) \/ Serving(r)
    \/ Outage \/ Recovery
    \/ \E c \in Connections : Break(c)
    \/ \E p \in People : Edit(p)

Spec == Init /\ [][Next]_vars

\* tokio polls keepers and calls whenever they can go on; a connection attempt
\* and a bind end, one way or the other.
KeeperFairness(k) ==
    /\ WF_vars(connect(k) \/ connect_fail(k))
    /\ WF_vars(publish(k) \/ drive_end(k) \/ clear(k) \/ wake(k))

FairSpec ==
    /\ Spec
    /\ WF_vars(bind \/ bind_fail)
    /\ \A k \in Keepers : KeeperFairness(k)
    /\ \A r \in Calls : WF_vars(Serving(r))

-----------------------------------------------------------------------------
(***************************************************************************)
(* Properties.                                                             *)
(***************************************************************************)
Handles == Connections \cup {Null}

TypeOK ==
    /\ entries \in [People -> D!Entry]
    /\ reachable \in BOOLEAN
    /\ conn \in [Connections -> [open : BOOLEAN, bound : People \cup {Service, Nobody}]]
    /\ state \in [Keepers -> Handles]
    /\ keeper \in [Keepers -> [pc : {"connect", "bind", "publish", "drive", "clear",
                                     "sleep", "ended"},
                               conn : Handles]]
    /\ running \in BOOLEAN
    /\ req \in [Calls ->
          [state : {"new"}]
            \cup [state : {"asked"}, question : D!Question]
            \cup [state : {"using"}, question : D!Question, handle : Connections]
            \cup [state : {"answered"}, question : D!Question, answer : D!Answer]]
    /\ troubles \in 0..MaxTroubles

\* Every search goes over a connection bound as tachikoma, and stays there:
\* the handle is published after the bind, and no login, whatever its timing,
\* binds the connection to somebody else.
SearchesAsService ==
    \A r \in Calls :
        /\ req[r].state = "using"
        /\ req[r].question.op # "check_authentication"
        => conn[req[r].handle].bound = Service

\* check_authentication says yes to nobody without the right password: not to
\* an empty one, which the AD takes, and not because of another person's bind
\* on the shared connection.
OkOnlyWithPassword ==
    \A r \in Calls :
        /\ req[r].state = "answered"
        /\ req[r].answer = "ok"
        => req[r].question.password = "right"

\* The methods keep the promise of module Directory.
DirectorySpec == D!Spec

Live(k) == state[k] # Null /\ Open(state[k])

\* After an outage or a broken connection there is a working handle again, as
\* long as the AD can be reached.
Restored == \A k \in Keepers : reachable ~> Live(k) \/ ~reachable \/ ~running

\* The handle of a broken connection does not stay published, also while the AD
\* cannot be reached.
BrokenHandleGoes ==
    \A k \in Keepers :
        state[k] # Null /\ ~Live(k) ~> state[k] = Null \/ Live(k) \/ ~running

\* Every call is answered, whatever becomes of its connection.
CallsAnswered ==
    \A r \in Calls : req[r].state # "new" ~> req[r].state = "answered" \/ ~running

=============================================================================
