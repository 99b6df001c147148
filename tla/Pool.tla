-------------------------------- MODULE Pool --------------------------------
(***************************************************************************)
(* Everything that runs transactions over the one connection pool of       *)
(* src/db/mod.rs: the requests of module Handlers and the release timer.   *)
(*                                                                         *)
(* A transaction takes a connection when it begins, waits for one when     *)
(* there is none, and gives it back when it is committed or dropped.  A    *)
(* request holds one at a time.  The timer holds the connection of         *)
(* notify_soon_release while Notifier::notify begins another transaction.  *)
(* One row stands for all the rows a transaction can wait for.             *)
(***************************************************************************)
EXTENDS Handlers

CONSTANTS
    Connections,     \* the connections of the pool
    Requests,        \* requests in flight
    UsedRoutes,      \* what the requests ask for
    Timer,           \* the release timer
    Null,
    MaxNotices,      \* bound: users notified in a round of the timer
    NegativeLimits   \* a row of lease_limits_by_ad_group is negative

Parties == Requests \cup {Timer}

ASSUME PoolAssumption ==
    /\ UsedRoutes \subseteq Routes
    /\ Timer \notin Requests
    /\ Null \notin Parties
    /\ MaxNotices \in Nat
    /\ NegativeLimits \in BOOLEAN

\* PgPool: notify_soon_release needs two connections.
ASSUME TwoConnections == \E c, d \in Connections : c # d

VARIABLES
    holder,   \* who holds each connection
    row,      \* whose open transaction has changed the row
    pc,       \* where each party is in its call
    req,      \* the route of each request and the place in its script
    stage,    \* what the timer does
    left      \* notices the timer has to send before the stage ends

vars == <<holder, row, pc, req, stage, left>>

timerVars == <<stage, left>>

Free == {c \in Connections : holder[c] = Null}

Held(p) == {c \in Connections : holder[c] = p}

Become(p, where) == pc' = [pc EXCEPT ![p] = where]

\* A transaction of p that holds c is committed or dropped.
GiveBack(p, c) ==
    /\ holder' = [holder EXCEPT ![c] = Null]
    /\ row' = IF row = p THEN Null ELSE row

GiveBackAll(p) ==
    /\ holder' = [c \in Connections |-> IF holder[c] = p THEN Null ELSE holder[c]]
    /\ row' = IF row = p THEN Null ELSE row

-----------------------------------------------------------------------------
(***************************************************************************)
(* Transactions.                                                           *)
(***************************************************************************)
\* Registry::begin: PgPool hands out a free connection.
begin(p) ==
    /\ pc[p] = "begin"
    /\ \E c \in Free : holder' = [holder EXCEPT ![c] = p]
    /\ Become(p, "work")
    /\ UNCHANGED <<row, req, timerVars>>

\* The row is changed, as soon as no other open transaction has changed it.
Change(p) ==
    /\ pc[p] = "work"
    /\ row = Null
    /\ row' = p
    /\ Become(p, "changed")
    /\ UNCHANGED <<holder, req, timerVars>>

-----------------------------------------------------------------------------
(***************************************************************************)
(* Requests.                                                               *)
(***************************************************************************)
Ended == {"answered", "panicked", "gone"}

Busy(r) == pc[r] \notin Ended

Call(r) == Script(req[r].route)[req[r].at]

NoRequest == [route |-> Null, at |-> 1]

End(r, how) ==
    /\ Become(r, how)
    /\ req' = [req EXCEPT ![r] = NoRequest]

\* The request comes to a call of its script.
Reach(r, route, at) ==
    /\ req' = [req EXCEPT ![r] = [route |-> route, at |-> at]]
    /\ Become(r, IF Asks(Script(route)[at]) THEN "ask" ELSE "begin")

arrive(r, route) ==
    /\ ~Busy(r)
    /\ Reach(r, route, 1)
    /\ UNCHANGED <<holder, row, timerVars>>

Advance(r) ==
    LET route == req[r].route
    IN  IF req[r].at = Len(Script(route)) THEN End(r, "answered")
        ELSE Reach(r, route, req[r].at + 1)

\* The AD answers, one way or the other.
ask(r) ==
    /\ pc[r] = "ask"
    /\ \/ Advance(r)
       \/ End(r, "answered")
    /\ UNCHANGED <<holder, row, timerVars>>

change(r) == Busy(r) /\ Writes(Call(r)) /\ Change(r)

\* The call has done what it does.
Done(r) == Busy(r) /\ pc[r] = IF Writes(Call(r)) THEN "changed" ELSE "work"

\* Mutant: the first transaction of authenticate is open while the second one
\* begins.
finish_Holding(r) ==
    /\ Done(r)
    /\ Advance(r)
    /\ IF Call(r) = "get_user_by_dn" THEN UNCHANGED <<holder, row>> ELSE GiveBackAll(r)
    /\ UNCHANGED timerVars

finish(r) ==
    /\ Done(r)
    /\ Advance(r)
    /\ \E c \in Held(r) : GiveBack(r, c)
    /\ UNCHANGED timerVars

finish_early(r) ==
    /\ pc[r] = "work"
    /\ EndsEarly(Call(r))
    /\ End(r, "answered")
    /\ \E c \in Held(r) : GiveBack(r, c)
    /\ UNCHANGED timerVars

\* Mutant: a panic leaves the connection with the handler.
fail_Leaks(r) ==
    /\ pc[r] \in {"begin", "work", "changed"}
    /\ End(r, IF PanicsAt(req[r].route, req[r].at) THEN "panicked" ELSE "answered")
    /\ UNCHANGED <<holder, row, timerVars>>

\* No connection in time, or a query fails: an error for the browser, the
\* client or the tool, or a panic.  Either way the transaction is dropped.
fail(r) ==
    /\ pc[r] \in {"begin", "work", "changed"}
    /\ End(r, IF PanicsAt(req[r].route, req[r].at) THEN "panicked" ELSE "answered")
    /\ GiveBackAll(r)
    /\ UNCHANGED timerVars

\* get_lease_limit: try_into().unwrap() of a negative limit.
panic(r) ==
    /\ pc[r] = "work"
    /\ Call(r) \in {"lease", "lease_random"}
    /\ NegativeLimits
    /\ End(r, "panicked")
    /\ GiveBackAll(r)
    /\ UNCHANGED timerVars

\* The client goes away: the handler is dropped.
hang_up(r) ==
    /\ Busy(r)
    /\ End(r, "gone")
    /\ GiveBackAll(r)
    /\ UNCHANGED timerVars

-----------------------------------------------------------------------------
(***************************************************************************)
(* The release timer, one round after the other.                           *)
(***************************************************************************)
At(s, where) == stage = s /\ pc[Timer] = where

\* A transaction begins for a stage, with some notices to send.
Enter(s, n) == stage' = s /\ left' = n /\ Become(Timer, "begin")

\* release() has committed: notify_released_hosts, a transaction each.
release(n) ==
    /\ \/ At("release", "changed")
       \/ At("release", "work") /\ n = 0
    /\ IF n = 0 THEN Enter("look", 0) ELSE Enter("tell", n)
    /\ GiveBackAll(Timer)
    /\ UNCHANGED req

release_change == stage = "release" /\ Change(Timer)

Fails(s) == stage = s /\ pc[Timer] \in {"begin", "work", "changed"}

\* "Release fail".
release_fail ==
    /\ Fails("release")
    /\ Enter("look", 0)
    /\ GiveBackAll(Timer)
    /\ UNCHANGED req

\* Mutant: one notice too many.
NextNotice_OneMore == Enter("tell", left - 1)

NextNotice == IF left = 1 THEN Enter("look", 0) ELSE Enter("tell", left - 1)

\* Notifier::notify, sent or failed.
tell ==
    /\ At("tell", "work")
    /\ NextNotice
    /\ GiveBackAll(Timer)
    /\ UNCHANGED req

tell_fail ==
    /\ At("tell", "begin")
    /\ NextNotice
    /\ UNCHANGED <<holder, row, req>>

Sleep == stage' = "sleep" /\ left' = 0 /\ Become(Timer, "asleep")

\* notify_soon_release has read the hosts; its transaction stays open while
\* Notifier::notify begins one for each user.
look(n) ==
    /\ At("look", "work")
    /\ IF n = 0 THEN Sleep /\ GiveBackAll(Timer)
                ELSE Enter("warn", n) /\ UNCHANGED <<holder, row>>
    /\ UNCHANGED req

look_fail ==
    /\ Fails("look")
    /\ Sleep
    /\ GiveBackAll(Timer)
    /\ UNCHANGED req

\* Mutant: the transaction of a notice is kept for the next one.
warn_Holding ==
    /\ At("warn", "work")
    /\ IF left = 1 THEN Sleep /\ GiveBackAll(Timer)
       ELSE Enter("warn", left - 1) /\ UNCHANGED <<holder, row>>
    /\ UNCHANGED req

\* Notifier::notify, sent or failed: one of the timer's two connections is
\* given back, and both after the last notice.
warn ==
    /\ At("warn", "work")
    /\ IF left = 1 THEN Sleep /\ GiveBackAll(Timer)
       ELSE Enter("warn", left - 1) /\ \E c \in Held(Timer) : GiveBack(Timer, c)
    /\ UNCHANGED req

warn_fail ==
    /\ At("warn", "begin")
    /\ IF left = 1 THEN Sleep /\ GiveBackAll(Timer)
       ELSE Enter("warn", left - 1) /\ UNCHANGED <<holder, row>>
    /\ UNCHANGED req

wake ==
    /\ stage = "sleep"
    /\ Enter("release", 0)
    /\ UNCHANGED <<holder, row, req>>

-----------------------------------------------------------------------------
Init ==
    /\ holder = [c \in Connections |-> Null]
    /\ row = Null
    /\ pc = [p \in Parties |-> IF p = Timer THEN "begin" ELSE "gone"]
    /\ req = [r \in Requests |-> NoRequest]
    /\ stage = "release"
    /\ left = 0

Serve(r) ==
    begin(r) \/ ask(r) \/ change(r) \/ finish(r) \/ finish_early(r) \/ panic(r)

Tick ==
    \/ begin(Timer) \/ release_change \/ tell \/ warn \/ wake
    \/ \E n \in 0..MaxNotices : release(n) \/ look(n)

Next ==
    \/ \E r \in Requests : \/ \E route \in UsedRoutes : arrive(r, route)
                           \/ Serve(r) \/ fail(r) \/ hang_up(r)
    \/ Tick \/ release_fail \/ tell_fail \/ look_fail \/ warn_fail

Spec == Init /\ [][Next]_vars

\* tokio polls every handler that can go on.  PgPool hands out its connections
\* in the order in which they are asked for, and PostgreSQL its row locks: who
\* could go on again and again does so (SF).  No fairness for what fails:
\* nothing waits for the acquire timeout of the pool.
FairSpec ==
    /\ Spec
    /\ \A p \in Parties : SF_vars(begin(p))
    /\ \A r \in Requests : SF_vars(change(r)) /\ WF_vars(Serve(r))
    /\ SF_vars(release_change) /\ WF_vars(Tick)

-----------------------------------------------------------------------------
(***************************************************************************)
(* Properties.                                                             *)
(***************************************************************************)
Stages == {"release", "tell", "look", "warn", "sleep"}

TypeOK ==
    /\ holder \in [Connections -> Parties \cup {Null}]
    /\ row \in Parties \cup {Null}
    /\ pc \in [Parties -> {"begin", "work", "changed", "ask", "asleep"} \cup Ended]
    /\ req \in [Requests -> [route : UsedRoutes \cup {Null}, at : Nat \ {0}]]
    /\ stage \in Stages
    /\ left \in 0..MaxNotices

WaitsForConnection(p) == pc[p] = "begin" /\ Free = {}

WantsRow(p) == IF p = Timer THEN stage = "release" ELSE Writes(Call(p))

WaitsForRow(p) == pc[p] = "work" /\ WantsRow(p) /\ row \notin {Null, p}

Waits(p) == WaitsForConnection(p) \/ WaitsForRow(p)

Runs(p) == Held(p) # {} /\ ~Waits(p)

\* Whoever waits for a connection or a row, somebody with a connection can go
\* on: the requests and the timer, which holds one connection and waits for
\* another, never all wait for each other.
NobodyStuck == (\E p \in Parties : Waits(p)) => \E q \in Parties : Runs(q)

\* Every request ends, without the help of a timeout.
RequestEnds == \A r \in Requests : Busy(r) ~> ~Busy(r)

\* Every round of the timer ends, without the help of a timeout.
RoundEnds == stage # "sleep" ~> stage = "sleep"

=============================================================================
