---------------------------- MODULE ReleaseTimer ----------------------------
(***************************************************************************)
(* The loop of hosts_release_timer in src/logic/release.rs with a notifier *)
(* configured: free the leases that are over, tell their users, warn the   *)
(* users of leases that end within the window, sleep ten seconds.  The     *)
(* loop remembers in memory whom it has warned (sent_hosts_notification).  *)
(*                                                                         *)
(* Requests and extend callbacks run between any two steps of the loop.    *)
(* Here a request is one step on the table and a callback two, its SELECT  *)
(* and its UPDATE; module LeaseSystem has their transactions.  They run in *)
(* the same process, so nothing happens while it is down.                  *)
(*                                                                         *)
(* Time passes between any two steps, whatever the loop is doing: a query  *)
(* may take long, and the rounds may fail for as long as they like.        *)
(***************************************************************************)
EXTENDS HostRows

CONSTANTS
    Wanted,        \* the sets of hosts that requests name
    LeaseHours,    \* the hours users lease a host for, 0 among them
    ExtendHours,   \* the hours an extend button adds
    FirstEnds,     \* the ends of the leases found in the table at the start
    MaxNow,        \* bound: the clock stops here
    MaxTroubles    \* bound: failed queries, failed sends and crashes

ASSUME ReleaseTimerAssumption ==
    /\ IsFiniteSet(Hosts)
    /\ IsFiniteSet(Users)
    /\ Null \notin Users
    /\ Null \notin Int
    /\ Wanted \subseteq SUBSET Hosts
    /\ LeaseHours \subseteq Nat
    /\ ExtendHours \subseteq Nat \ {0}
    /\ FirstEnds \subseteq Int
    /\ MaxNow \in Nat
    /\ MaxTroubles \in Nat

VARIABLES
    hosts,     \* the rows of the hosts table
    now,       \* Utc::now(), in half hours
    linked,    \* the users whose tg_handle is set
    tpc,       \* where the loop is
    pending,   \* what is left to do for each user in this part of the loop
    message,   \* the warning being sent: its user, the hosts it lists, and
               \* those of them that were the user's when notify read the rows
    sent,      \* sent_hosts_notification
    extending, \* what each user's press of a button has selected to extend
    troubles,  \* failed queries, failed sends and crashes so far
    \* Not in the program:
    told,      \* hosts whose owner was warned since they came into the window
    unseen,    \* hosts taken, or extended out of the window, that no scan has
               \* found outside the window since
    lost       \* `sent' was lost in a crash, or a delivery was not recorded

othersVars == <<now, linked, extending>>
loopVars == <<tpc, pending, message, sent>>
ghosts == <<told, unseen, lost>>
vars == <<hosts, othersVars, loopVars, troubles, ghosts>>

Nobody == [u \in Users |-> {}]
NoMessage == [user |-> Null, hosts |-> {}, owned |-> {}]
NoExtension == [ids |-> {}, hours |-> 0]
NoExtensions == [u \in Users |-> NoExtension]

\* Leases that end within the window, those already over included.
Soon == get_leased_until_hosts(hosts, now + EXPIRATION_NOTIFY_WINDOW)

ByOwner(S) == [u \in Users |-> S \cap get_leased_hosts(hosts, u)]

Freed(S) == [h \in Hosts |-> IF h \in S THEN FreeRow ELSE hosts[h]]

\* get_message_sender: there is a chat to write to.
HasSender(u) == u \in linked

Up == tpc \notin {"down", "panicked"}

Trouble ==
    /\ troubles < MaxTroubles
    /\ troubles' = troubles + 1

-----------------------------------------------------------------------------
(***************************************************************************)
(* ReleaseTimer::release.                                                  *)
(***************************************************************************)
\* The SELECT of the leases that are over, grouped by user.
release ==
    LET expired == get_leased_until_hosts(hosts, now)
    IN  /\ tpc = "release"
        /\ pending' = ByOwner(expired)
        /\ tpc' = IF expired = {} THEN "scan" ELSE "free"
        /\ UNCHANGED <<hosts, othersVars, message, sent, troubles, ghosts>>

\* The UPDATE of the selected ids, whatever they have become, the commit, and
\* the removal of these hosts from what was sent to their users.
release_commit ==
    LET expired == UNION {pending[u] : u \in Users}
    IN  /\ tpc = "free"
        /\ hosts' = Freed(expired)
        /\ told' = told \ expired
        /\ sent' = [u \in Users |-> sent[u] \ pending[u]]
        /\ tpc' = "tell"
        /\ UNCHANGED <<othersVars, pending, message, troubles, unseen, lost>>

\* "Release fail": a query fails, or the commit does, before or after it took
\* effect.  Nothing is removed from `sent' and nobody is told.
release_fail ==
    LET expired == UNION {pending[u] : u \in Users}
    IN  /\ Trouble
        /\ \/ /\ tpc \in {"release", "free"}
              /\ UNCHANGED <<hosts, told>>
           \/ /\ tpc = "free"
              /\ hosts' = Freed(expired)
              /\ told' = told \ expired
        /\ tpc' = "scan"
        /\ pending' = Nobody
        /\ UNCHANGED <<othersVars, message, sent, unseen, lost>>

\* The users are done with one by one, in the order of a HashMap.
Done(u, next) ==
    /\ pending' = [pending EXCEPT ![u] = {}]
    /\ tpc' = IF \E v \in Users \ {u} : pending[v] # {} THEN tpc ELSE next

\* notify_released_hosts for one user: sent or not, it is not tried again.
notify_released_hosts(u) ==
    /\ tpc = "tell"
    /\ pending[u] # {}
    /\ Done(u, "scan")
    /\ UNCHANGED <<hosts, othersVars, message, sent, troubles, ghosts>>

-----------------------------------------------------------------------------
(***************************************************************************)
(* ReleaseTimer::notify_soon_release and Notifier::notify.                 *)
(***************************************************************************)
\* Mutant: what was sent is never forgotten here.
notify_soon_release_NoCleanUp ==
    /\ tpc = "scan"
    /\ pending' = ByOwner(Soon)
    /\ unseen' = unseen \cap Soon
    /\ tpc' = IF Soon = {} THEN "sleep" ELSE "notify"
    /\ UNCHANGED <<hosts, othersVars, message, sent, troubles, told, lost>>

\* The SELECT of the leases that end within the window.  What was sent about
\* any other host is forgotten.
notify_soon_release ==
    /\ tpc = "scan"
    /\ pending' = ByOwner(Soon)
    /\ sent' = [u \in Users |-> sent[u] \cap Soon]
    /\ unseen' = unseen \cap Soon
    /\ tpc' = IF Soon = {} THEN "sleep" ELSE "notify"
    /\ UNCHANGED <<hosts, othersVars, message, troubles, told, lost>>

\* Mutant: the error ends the loop.
scan_fail_Ends ==
    /\ tpc = "scan"
    /\ Trouble
    /\ tpc' = "ended"
    /\ UNCHANGED <<hosts, othersVars, pending, message, sent, ghosts>>

\* The SELECT fails: nothing is sent in this round, and nothing forgotten.
scan_fail ==
    /\ tpc = "scan"
    /\ Trouble
    /\ tpc' = "sleep"
    /\ UNCHANGED <<hosts, othersVars, pending, message, sent, ghosts>>

\* The process ends, and with it all that it has in memory.
Die(how) ==
    /\ tpc' = how
    /\ pending' = Nobody
    /\ message' = NoMessage
    /\ sent' = Nobody
    /\ extending' = NoExtensions
    /\ lost' = TRUE

\* Notifier::notify up to the send, for the hosts this user has not been
\* warned of.  A user without tg_handle has no message sender; a row that has
\* lost its leased_until since the SELECT makes `unwrap' panic.
notify(u) ==
    LET fresh == pending[u] \ sent[u]
        owned == fresh \cap get_leased_hosts(hosts, u)
    IN  /\ tpc = "notify"
        /\ pending[u] # {}
        /\ \/ /\ fresh = {} \/ ~HasSender(u)
              /\ Done(u, "sleep")
              /\ UNCHANGED <<message, sent, extending, lost>>
           \/ /\ fresh # {} /\ HasSender(u)
              /\ IF \E h \in fresh : hosts[h].until = Null
                 THEN Die("panicked")
                 ELSE /\ message' = [user |-> u, hosts |-> fresh, owned |-> owned]
                      /\ tpc' = "send"
                      /\ UNCHANGED <<pending, sent, extending, lost>>
        /\ UNCHANGED <<hosts, now, linked, troubles, told, unseen>>

\* A query of notify fails: logged.
notify_fail(u) ==
    /\ tpc = "notify"
    /\ pending[u] # {}
    /\ Trouble
    /\ Done(u, "sleep")
    /\ UNCHANGED <<hosts, othersVars, message, sent, ghosts>>

\* The hosts of which the message, if it arrives now, warns their owner: it was
\* the owner when the rows were read and still is, and the lease still ends
\* within the window.
Tells == {h \in message.owned \cap Soon : hosts[h].user = message.user}

Sent ==
    /\ tpc = "send"
    /\ pending' = [pending EXCEPT ![message.user] = {}]
    /\ tpc' = IF \E v \in Users \ {message.user} : pending[v] # {}
              THEN "notify" ELSE "sleep"
    /\ message' = NoMessage
    /\ UNCHANGED <<hosts, othersVars, unseen>>

\* Mutant: what was sent is not recorded.
send_message_Forget ==
    /\ Sent
    /\ told' = told \cup Tells
    /\ UNCHANGED <<sent, troubles, lost>>

send_message ==
    /\ Sent
    /\ told' = told \cup Tells
    /\ sent' = [sent EXCEPT ![message.user] = @ \cup message.hosts]
    /\ UNCHANGED <<troubles, lost>>

\* Mutant: a warning is recorded as sent whether it was or not.
send_fail_Recorded ==
    /\ Sent
    /\ Trouble
    /\ \/ UNCHANGED <<told, lost>>
       \/ told' = told \cup Tells /\ lost' = TRUE
    /\ sent' = [sent EXCEPT ![message.user] = @ \cup message.hosts]

\* Telegram's API returns an error, before or after it took the message.
send_fail ==
    /\ Sent
    /\ Trouble
    /\ \/ UNCHANGED <<told, lost>>
       \/ told' = told \cup Tells /\ lost' = TRUE
    /\ UNCHANGED sent

wake ==
    /\ tpc = "sleep"
    /\ tpc' = "release"
    /\ UNCHANGED <<hosts, othersVars, pending, message, sent, troubles, ghosts>>

-----------------------------------------------------------------------------
(***************************************************************************)
(* The rest of the process, and the process itself.                        *)
(***************************************************************************)
\* A request or a callback has changed the table: the leases of S are new ones.
Changed(S) ==
    /\ Up
    /\ UNCHANGED <<now, linked, loopVars, troubles, lost>>
    /\ told' = told \ S
    /\ unseen' = unseen \cup S

\* A user's request takes hosts, whoever holds them by now.  A lease of no days
\* and no hours is over at once.
lease(u, S, hours) ==
    /\ hosts' = [h \in Hosts |-> IF h \in S
                                 THEN [user |-> u, until |-> now + hours * Hour]
                                 ELSE hosts[h]]
    /\ Changed(S)
    /\ UNCHANGED extending

\* A user's request releases hosts of theirs.
free(u, S) ==
    /\ S \subseteq get_leased_hosts(hosts, u)
    /\ hosts' = Freed(S)
    /\ Changed(S)
    /\ UNCHANGED extending

\* extend_user_hosts up to its UPDATE, for a press of a button in the chat of a
\* user who is linked: the presses in one chat are handled one after the other.
extend_select(u, hours) ==
    LET ids == get_expiring_hosts_for_user(hosts, u, now + EXPIRATION_NOTIFY_WINDOW)
    IN  /\ Up
        /\ u \in linked
        /\ extending[u] = NoExtension
        /\ ids # {}
        /\ extending' = [extending EXCEPT ![u] = [ids |-> ids, hours |-> hours]]
        /\ UNCHANGED <<hosts, now, linked, loopVars, troubles, ghosts>>

\* The UPDATE of these ids, whoever holds them by now, and its commit: a lease
\* that leaves the window starts afresh.
extend_update(u) ==
    LET chosen == extending[u]
    IN  /\ chosen # NoExtension
        /\ hosts' = [h \in Hosts |->
                        IF h \in chosen.ids /\ hosts[h].until # Null
                        THEN [hosts[h] EXCEPT !.until = @ + chosen.hours * Hour]
                        ELSE hosts[h]]
        /\ Changed(Soon \ Soon')
        /\ extending' = [extending EXCEPT ![u] = NoExtension]

\* A query of extend_user_hosts fails.
extend_fail(u) ==
    /\ extending[u] # NoExtension
    /\ extending' = [extending EXCEPT ![u] = NoExtension]
    /\ UNCHANGED <<hosts, now, linked, loopVars, troubles, ghosts>>

\* UsersService::link_user: the user's /start in Telegram.
link_user(u) ==
    /\ Up
    /\ u \notin linked
    /\ linked' = linked \cup {u}
    /\ UNCHANGED <<hosts, now, extending, loopVars, troubles, ghosts>>

\* The process is killed.
Crash ==
    /\ Up
    /\ Trouble
    /\ Die("down")
    /\ UNCHANGED <<hosts, now, linked, told, unseen>>

Restart ==
    /\ ~Up
    /\ tpc' = "release"
    /\ UNCHANGED <<hosts, othersVars, pending, message, sent, troubles, ghosts>>

\* Half an hour passes.
Tick ==
    /\ now < MaxNow
    /\ now' = now + 1
    /\ UNCHANGED <<hosts, linked, extending, loopVars, troubles, ghosts>>

-----------------------------------------------------------------------------
Init ==
    /\ hosts \in [Hosts -> [user : Users, until : FirstEnds] \cup {FreeRow}]
    /\ now = 0
    /\ linked \in SUBSET Users
    /\ tpc = "release"
    /\ pending = Nobody
    /\ message = NoMessage
    /\ sent = Nobody
    /\ extending = NoExtensions
    /\ troubles = 0
    /\ told = {}
    /\ unseen = {}
    /\ lost = FALSE

Loop ==
    \/ release \/ release_commit \/ notify_soon_release \/ send_message \/ wake
    \/ \E u \in Users : notify_released_hosts(u) \/ notify(u)

Failure ==
    \/ release_fail \/ scan_fail \/ send_fail
    \/ \E u \in Users : notify_fail(u)

Others ==
    \E u \in Users :
        \/ \E S \in Wanted :
              \/ \E hours \in LeaseHours : lease(u, S, hours)
              \/ free(u, S)
        \/ \E hours \in ExtendHours : extend_select(u, hours)
        \/ extend_update(u) \/ extend_fail(u)
        \/ link_user(u)

Next == Loop \/ Failure \/ Others \/ Crash \/ Restart \/ Tick

Spec == Init /\ [][Next]_vars

\* The runtime polls the loop whenever it can go on, and sqlx and teloxide end
\* every call, with an answer or a timeout.  Nothing restarts the process.
FairSpec == Spec /\ WF_vars(Loop)

-----------------------------------------------------------------------------
(***************************************************************************)
(* Properties.                                                             *)
(***************************************************************************)
TypeOK ==
    /\ hosts \in [Hosts -> Row]
    /\ now \in 0..MaxNow
    /\ linked \subseteq Users
    /\ tpc \in {"release", "free", "tell", "scan", "notify", "send", "sleep",
                "down", "panicked"}
    /\ pending \in [Users -> SUBSET Hosts]
    /\ message.user \in Users \cup {Null}
    /\ message.hosts \subseteq Hosts
    /\ message.owned \subseteq message.hosts
    /\ sent \in [Users -> SUBSET Hosts]
    /\ extending \in [Users -> [ids : SUBSET Hosts, hours : Nat]]
    /\ troubles \in 0..MaxTroubles
    /\ told \subseteq Hosts
    /\ unseen \subseteq Hosts
    /\ lost \in BOOLEAN

\* notify_soon_release leaves a host out of a warning only if its owner has
\* been warned since the lease came into the window, or if no scan has come
\* round since the lease began: `sent' is cleaned up by host id only, when a scan
\* finds the host outside the window.  A host that changed hands, was released
\* or was extended is warned of again as soon as one scan has found it outside,
\* whatever failed or was lost before and after.
SuppressedOnlyIfTold ==
    \A u \in Users :
        sent[u] \cap get_leased_hosts(hosts, u) \cap Soon \subseteq told \cup unseen

\* Nobody is warned twice of the same end of lease, unless the process died or
\* Telegram reported an error for a message it had taken.
NoSecondNotice == tpc = "send" /\ ~lost => Tells \cap told = {}

\* What SuppressedOnlyIfTold leaves open: u has been warned of an earlier lease
\* of h, and h was leased anew, or extended, and is back in the window with no
\* scan between.  It takes a lease of no hours, or rounds that fail for hours.
Masked(u, h) == h \in sent[u] \cap unseen

\* A linked user with a lease that ends within the window is warned of it, if
\* the lease and the process stay: also the user who links after the loop has
\* first failed to reach them, and the new owner of a host its old owner had
\* been warned of.  The rounds may fail for as long as they like before.
EventuallyTold ==
    \A u \in Users, h \in Hosts :
        LET due == h \in get_leased_hosts(hosts, u) \cap Soon
        IN  due /\ HasSender(u) /\ Up ~> h \in told \/ ~due \/ ~Up \/ Masked(u, h)

\* The `unwrap' in Notifier::notify never fails: a host notify_soon_release has
\* selected still has its leased_until when notify reads it again.
NoPanic == tpc # "panicked"

=============================================================================
