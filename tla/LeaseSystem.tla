---------------------------- MODULE LeaseSystem ----------------------------
(***************************************************************************)
(* The program's writers of the hosts table together: user requests        *)
(* (HostsService), the Telegram extend callback (BotHandlers) and the      *)
(* release timer (ReleaseTx), each in transactions of its own on the one   *)
(* Registry.  src/bin/tachikoma.rs runs them as tasks of one process.      *)
(***************************************************************************)
EXTENDS HostsService, BotHandlers, ReleaseTx

CONSTANTS
    InitialTimes,   \* the ends of the leases found in the table at the start
    MaxNow,         \* bound: the clock stops here
    MaxFailures     \* bound: transactions that fail for outside reasons

ASSUME LeaseSystemAssumption ==
    /\ InitialTimes \subseteq Int
    /\ MaxNow \in Nat
    /\ MaxFailures \in Nat

VARIABLE failures   \* transactions failed so far

vars == <<registryVars, serviceVars, botVars, timer, failures>>

Init ==
    /\ hosts \in [Hosts -> [user : Users, until : InitialTimes] \cup {FreeRow}]
    /\ \A u \in Users : Cardinality(get_leased_hosts(hosts, u)) <= get_lease_limit(u)
    /\ draft = hosts
    /\ rowLock = [h \in Hosts |-> Null]
    /\ stmt = [t \in Tx |-> NoStmt]
    /\ now = 0
    /\ ServiceInit
    /\ BotInit
    /\ timer = "sleep"
    /\ failures = 0

\* A user's request.
StartRequest(r) == Arrive(r) /\ UNCHANGED <<botVars, timer, failures>>
PickHost(r) == Pick(r) /\ UNCHANGED <<botVars, timer, failures>>
RequestRow(r) == write_row(r) /\ UNCHANGED <<botVars, timer, failures>>
RequestCommit(r) == commit(r) /\ UNCHANGED <<botVars, timer, failures>>

RequestFails(r) ==
    /\ failures < MaxFailures
    /\ failures' = failures + 1
    /\ abort(r)
    /\ UNCHANGED <<botVars, timer>>

\* A press of an extend button.
StartCallback(c) == Press(c) /\ UNCHANGED <<serviceVars, timer, failures>>
CallbackUpdate(c) == extend_update(c) /\ UNCHANGED <<serviceVars, timer, failures>>
CallbackRow(c) == extend_row(c) /\ UNCHANGED <<serviceVars, timer, failures>>
CallbackCommit(c) == extend_commit(c) /\ UNCHANGED <<serviceVars, timer, failures>>

CallbackFails(c) ==
    /\ failures < MaxFailures
    /\ failures' = failures + 1
    /\ extend_fail(c)
    /\ UNCHANGED <<serviceVars, timer>>

\* The release timer.
TimerSelect == release_select /\ UNCHANGED <<serviceVars, botVars, failures>>
TimerRow == release_row /\ UNCHANGED <<serviceVars, botVars, failures>>
TimerCommit == release_commit /\ UNCHANGED <<serviceVars, botVars, failures>>

TimerFails ==
    /\ failures < MaxFailures
    /\ failures' = failures + 1
    /\ release_fail
    /\ UNCHANGED <<serviceVars, botVars>>

\* The detector ends one of the transactions of a deadlock; its statement
\* returns an error.
DeadlockVictim ==
    \/ \E r \in Requests : /\ Deadlocked(r) /\ abort(r)
                           /\ UNCHANGED <<botVars, timer, failures>>
    \/ \E c \in Callbacks : /\ Deadlocked(c) /\ extend_fail(c)
                            /\ UNCHANGED <<serviceVars, timer, failures>>
    \/ /\ Deadlocked(Timer) /\ release_fail
       /\ UNCHANGED <<serviceVars, botVars, failures>>

\* Half an hour passes.
Tick ==
    /\ now < MaxNow
    /\ now' = now + 1
    /\ UNCHANGED <<hosts, draft, rowLock, stmt, serviceVars, botVars, timer, failures>>

Next ==
    \/ \E r \in Requests : \/ StartRequest(r) \/ PickHost(r) \/ RequestRow(r)
                           \/ RequestCommit(r) \/ RequestFails(r)
    \/ \E c \in Callbacks : \/ StartCallback(c) \/ CallbackUpdate(c)
                            \/ CallbackRow(c) \/ CallbackCommit(c)
                            \/ CallbackFails(c)
    \/ TimerSelect \/ TimerRow \/ TimerCommit \/ TimerFails
    \/ DeadlockVictim
    \/ Tick

Spec == Init /\ [][Next]_vars

(***************************************************************************)
(* Fairness: the runtime polls every task that can go on, a transaction    *)
(* that has not been cut off goes on, PostgreSQL's detector runs after     *)
(* deadlock_timeout, and the timer's loop never ends.  A statement that    *)
(* waits for a row lock is queued for it, so it is not passed over for     *)
(* ever: its row steps are strongly fair.  Nothing makes a                 *)
(* user send a request, the clock run to its bound or a query fail.        *)
(***************************************************************************)
Fairness ==
    /\ \A r \in Requests : /\ WF_vars(PickHost(r) \/ RequestCommit(r))
                           /\ SF_vars(RequestRow(r))
    /\ \A c \in Callbacks : /\ WF_vars(CallbackUpdate(c) \/ CallbackCommit(c))
                            /\ SF_vars(CallbackRow(c))
    /\ WF_vars(TimerSelect \/ TimerCommit)
    /\ SF_vars(TimerRow)
    /\ WF_vars(DeadlockVictim)

FairSpec == Spec /\ Fairness

-----------------------------------------------------------------------------
(***************************************************************************)
(* Properties.                                                             *)
(***************************************************************************)
\* The tasks with an UPDATE in flight.
Updating ==
    {r \in Requests : pc[r] = "update"} \cup {c \in Callbacks : cb[c] = "update"}
        \cup {t \in {Timer} : timer = "free"}

\* Every variable stays in its type, so `leased_until + hours' is never
\* evaluated on NULL.  The transactions with a statement are those of the tasks
\* that are at their UPDATE, and only these hold row locks: whichever way a
\* request, a callback or the timer ends, its transaction ends with it.
TypeOK ==
    /\ RegistryTypeOK
    /\ ServiceTypeOK
    /\ BotTypeOK
    /\ timer \in {"sleep", "free"}
    /\ failures \in Nat
    /\ Updating = {t \in Tx : stmt[t].kind # "none"}
    /\ \A h \in Hosts : rowLock[h] \in Updating \cup {Null}

\* A host has an owner exactly when it has an end of lease, in the committed
\* row and in the version a transaction is writing: lease_hosts, the three
\* frees and extend_hosts_lease keep the two columns together whatever they
\* interleave with.
WellFormed(row) == row.user = Null <=> row.until = Null

LeaseConsistency == \A h \in Hosts : WellFormed(hosts[h]) /\ WellFormed(draft[h])

\* A user who sends one lease request at a time never holds more hosts than
\* their limit, although lease and lease_random check it in an earlier SELECT
\* and other requests, extensions and the timer commit in between.
LimitForSerialUsers ==
    \A u \in SerialUsers :
        Cardinality(get_leased_hosts(hosts, u)) <= get_lease_limit(u)

\* When a release request (free, free_all) commits, every host that changes
\* belonged to the user who asked: a host another user has taken since the
\* UPDATE started is left alone.
ReleaseOnlyOwn ==
    [][\A r \in Requests, h \in Hosts :
          (/\ stmt[r].kind \in {"free_hosts_for_user", "free_all"}
           /\ stmt'[r].kind = "none"
           /\ hosts'[h] # hosts[h]) => hosts[h].user = stmt[r].user]_vars

\* As long as such a user keeps a host its end of lease never moves earlier:
\* no later lease of their own overwrites it, and extensions only add hours.
SerialLeaseNeverShortened ==
    [][\A u \in SerialUsers, h \in Hosts :
          hosts[h].user = u /\ hosts'[h].user = u
             => hosts'[h].until >= hosts[h].until]_vars

\* As long as an UPDATE is in flight, some task can lock its next row or commit,
\* or the detector has a transaction to end: no order in which lease, the frees,
\* the extensions and the timer visit the rows, and no failure of a task that
\* holds some, leaves the others waiting for nobody.
SomebodyGoesOn ==
    Updating # {} =>
        \E t \in Updating :
            \/ stmt[t].todo = {}
            \/ \E h \in stmt[t].todo : rowLock[h] = Null
            \/ Deadlocked(t)

\* The operation of the book that each statement stands for.
Promise ==
    [none |-> "none", lease_hosts |-> "lease", free_hosts_for_user |-> "release",
     free_all |-> "release_all", free_hosts |-> "expire", extend_hosts_lease |-> "extend"]

\* The rows the UPDATE of t still has to visit or has written a version of.
Rows(t) ==
    stmt[t].todo \cup {h \in Hosts : rowLock[h] = t /\ Matches(stmt[t], hosts[h])}

\* What each task has in flight, in the terms of the book.  A press of a button
\* begins with the SELECT of extend_user_hosts, the other operations with the
\* UPDATE.
Operation(t) ==
    IF t \in Callbacks /\ cb[t] = "query"
    THEN [kind |-> "extend", user |-> Null, hosts |-> extending[t].ids,
          arg |-> extending[t].hours * Hour]
    ELSE [kind |-> Promise[stmt[t].kind], user |-> stmt[t].user, hosts |-> Rows(t),
          arg |-> stmt[t].arg]

Operations == [t \in Tx |-> Operation(t)]

\* The committed table changes by the whole operations of LeaseBook only.  A
\* request, callback or round that is cut off in the middle of its rows leaves
\* none of them changed, one that commits has changed all the rows it was about
\* and no other, and these are the rows its WHERE clause and its SELECT are
\* there to choose, whatever the other tasks commit between that SELECT, the
\* start of the UPDATE and each row lock.
Book == INSTANCE LeaseBook WITH book <- hosts, ops <- Operations, Tasks <- Tx,
                                Limit <- get_lease_limit,
                                Window <- EXPIRATION_NOTIFY_WINDOW

BookSpec == Book!Spec

\* Every request that has begun a transaction ends, with locks waited for,
\* deadlocks and failures along the way.
RequestsAnswered ==
    /\ \A r \in Requests :
          pc[r] \in {"pick", "update"} ~> pc[r] \in {"ok", "refused", "error"}
    /\ \A c \in Callbacks :
          cb[c] \in {"query", "update"} ~> cb[c] \in {"ok", "error"}

\* A lease that is over is eventually released or replaced by one that is not.
ExpiredReleased ==
    \A h \in Hosts :
        h \in get_leased_until_hosts(hosts, now)
            ~> h \notin get_leased_until_hosts(hosts, now)

-----------------------------------------------------------------------------
(***************************************************************************)
(* Statements about leases that the code does not keep.                    *)
(***************************************************************************)
\* A host somebody holds is not leased to anybody else ("Host is already
\* leased", "Lease a random available host"): ownership never passes directly
\* from one user to another.
LeasedHostsAreRefused ==
    [][\A h \in Hosts : hosts[h].user # Null /\ hosts'[h].user # Null
                           => hosts'[h].user = hosts[h].user]_vars

\* The timer frees a host only if its lease is over when it does so: a lease
\* extended (or taken) after the timer's SELECT stays.
TimerFreesOnlyExpired ==
    [][\A h \in Hosts :
          TimerCommit /\ hosts[h].user # Null /\ hosts'[h].user = Null
             => hosts[h].until < now]_vars

=============================================================================
