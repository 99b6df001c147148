# Tachikoma: TLA+ models and proofs

Tachikoma leases hosts to the users of an Active Directory: a user takes a host
for some days and hours, a timer takes it back, and a Telegram bot warns of the
end and offers to extend it. This directory models the parts of the program that
change state over time, checks them with TLC and proves their safety with TLAPS.

Paths below are relative to the repository.

## 1. The system

| part | source | state | operations | talks to |
|---|---|---|---|---|
| Hosts table | `src/db/mod.rs`, `migrations/` | per host: `user_id`, `leased_until` | one UPDATE per transaction, SELECTs | PostgreSQL, READ COMMITTED |
| Connection pool | `src/db/mod.rs` | who holds which connection | `begin`, commit, drop | everything that runs transactions |
| Lease operations | `src/logic/hosts.rs` | none of their own | `lease`, `lease_random`, `free`, `free_all`, lists | hosts table |
| Front ends | `src/web/`, `src/mcp/mod.rs` | none | pages, JSON API, MCP tools: the same operations | all services |
| Release timer | `src/logic/release.rs` | `sent_hosts_notification`, in memory | every 10 s: free, tell, warn | hosts table, notifier |
| Notifier | `src/logic/notifications.rs`, `message_senders.rs` | none | read user and hosts again, send | hosts table, Telegram |
| Bot | `src/bot/handlers.rs` | none | link an account, extend | users and hosts tables |
| API tokens | `src/logic/api_tokens.rs`, `src/web/tokens.rs` | table `api_tokens` | create, revoke, find | PostgreSQL |
| Bearer authentication | `src/web/auth/bearer.rs` | none | token, user, AD groups, then the handler | tokens, users, AD |
| AD access | `src/ldap/mod.rs` | two shared connections | keep them up; search, check a password | LDAP server |
| Login, sessions | `src/web/auth/login.rs`, `middleware.rs` | sessions in memory | log in, create the user's row, guard the pages | AD, users table |
| Program | `src/bin/tachikoma.rs` | – | runs all of this as tasks of one process; the first task to end, or to panic, ends it | – |

What is hard: every writer of the hosts table reads in one statement and writes
in another, with other writers' commits in between; UPDATEs lock rows one by one
and can deadlock; the notifier reads rows again in a second transaction while the
timer keeps the first one open; what the timer has sent is remembered in memory
and per host id; sends and commits can fail after they took effect; two LDAP
connections are shared by all requests and one of them is bound anew by every
login; a session outlives the user's row and the user's place in the AD. What
should hold, part by part:

* hosts table: owner and end of lease go together; only whole operations commit;
* lease operations: the limit, no loss of one's own lease, releases of one's own
  hosts only, every request ends;
* pool: the timer and the requests never all wait for each other;
* timer: what is over is released; only what is over is;
* notifications: a due warning arrives, once;
* bot: a button extends leases of nobody the account has not been linked to;
* tokens: the limit, a revoked token is refused, a shown token works;
* AD access: an answer is what the AD held during the call, or an error; a lost
  connection comes back;
* login: one row per person; a session stands for the person whose password was
  given;
* lists: nobody is shown as holder of what he did not hold.

`PROJECT.json` lists the hazards line by line with the properties that cover
them.

## 2. Modules

```
HostRows ── Registry ──┬─ HostsService ─┐
   │                   ├─ BotHandlers ──┼─ LeaseSystem ── MCLease
   │                   └─ ReleaseTx ────┘      │  │
   │                         LeaseBook ────────┘  └──── LeaseProofs
   └─ ReleaseTimer ───────┬─ MCTimer  Access ── ApiTokens ─┬─ MCTokens
                          └─ TimerProofs                   └─ TokenProofs
AdServer ─┬─ Directory ── UsersInfo ─┬─ MCUsersInfo
          │                          └─ UsersInfoProofs
          └─ Sessions ── Login ─┬─ MCLogin         Linking ─┬─ MCLinking
                                └─ LoginProofs              └─ LinkingProofs
Handlers ── Pool ─┬─ MCPool              HostViews ─┬─ MCViews
                  └─ PoolProofs                     └─ ViewsProofs
```

**The lease core.**

* **HostRows**: a row (`user`, `until`), the unit of time and the SELECTs.
* **Registry**: transactions on the table. `hosts` is the committed table,
  `draft` the newest row versions, `rowLock` who locks a row, `stmt` the UPDATE a
  transaction has in flight. `StartStmt` evaluates the WHERE clause on the
  committed rows, `WriteRow` locks one candidate and applies the statement to its
  newest committed version, evaluating WHERE again (that is where
  `free_hosts_for_user` re-checks the owner and `free_hosts`, `lease_hosts` and
  `extend_hosts_lease` do not), `Commit` and `Rollback` end the transaction.
  PostgreSQL's part is marked external.
* **HostsService**: `hosts.rs`. A request is "new", perhaps "pick"
  (`lease_random` after its limit check), "update", and ends "ok", "refused" or
  "error". `lease` is two steps (checks and start of the UPDATE; the UPDATE row by
  row), `lease_random` three. `abort` is every `?` and every dropped future;
  `commit` may answer "error" although it took effect.
* **BotHandlers**: the extend callback; the SELECT and the UPDATE are separate.
* **ReleaseTx**: `ReleaseTimer::release` as a transaction.
* **LeaseSystem**: all writers on one table, plus the clock, failures and the
  deadlock detector; fairness; the properties. (The inductive invariant `IInv` is
  in LeaseProofs.)
* **LeaseBook**: the abstract specification. A task asks for an operation, which
  fixes the hosts it is about: those named in a lease, own hosts in a release, the
  leases that are over in the timer's round, a user's leases that are about to be
  over in an extension. Later the operation is carried out on all of them at one
  moment, or dropped without a trace; on the way only hosts that are no longer
  the releasing user's (or no longer leased, for an extension) drop out of it. A
  lease of a user who sends one lease request at a time stays within the limit and
  touches none of their hosts. LeaseSystem implements it: `Operation` says what
  each task is at in these terms.

**The timer and the bot.**

* **ReleaseTimer**: the loop of the timer with a notifier, one step per
  transaction, send and table change. Requests are single steps here and an
  extension two, its SELECT and its UPDATE (LeaseSystem has their insides); they,
  and half hours, may come between any two steps of the loop. `told`, `unseen` and
  `lost` are history variables: whose owner has been warned, which leases began
  with no scan since that found the host outside the window, and whether the
  memory was lost. Without a notifier only `release()` runs, and LeaseSystem
  covers that.
* **Linking**: `link_user`, the notices with buttons and the callback, whose
  `get_user_by_tg_handle` finds *one of* the users of an account, because
  `tg_handle` is not unique. A button carries hours only: the hosts it extends
  are whatever of that user's is in the window when the press is handled, not
  what the notice listed. `coded` and `extended` are history variables.

**Who may do what.**

* **AdServer**: what the AD holds of a person and what the methods of UsersInfo
  make of it (`get_user_info` does not find an entry without mail and fails for
  a missing one; an entry without groups cannot be parsed).
* **Directory**: the abstract specification of `src/ldap/mod.rs`: a question is
  answered by what the AD holds at some time between question and answer, or by
  an error.
* **UsersInfo**: the two keepers (`keeper`: connect, bind, publish, drive, clear,
  sleep), the handles they publish (`state`), and the calls: `ask`,
  `take_handle` (the clone under the lock), then the search or the
  `simple_bind` over that handle, which may be of a connection that is gone
  meanwhile. `bind_fail` ends `work()`, after which nothing runs any more
  (`running`). `D` is Directory under the mapping `Public`.
* **Sessions**: the abstract specification of logins. In each browser nobody or
  one person is logged in; a password check logs in once, in its browser, for its
  person; a page is served as the person who was logged in when the request
  looked, after the AD has vouched for that person. No ids and no rows.
* **Login**: `Backend::authenticate` call by call, the INSERT that waits for
  another transaction with the same `dn`, the session store, `get_user`,
  `auth_middleware`, logout, restarts, expiry, and the removal of users. The AD
  answers as Directory promises, not as UsersInfo computes it. `SessionsSpec` is
  Sessions under the mapping `Account` (whose row the id in the session is, if
  it still has one) and `Progress`.
* **Access**: the abstract specification of API tokens. A token is one user's
  until it is withdrawn, and never comes back; a request is served for the user
  its token belonged to while it was in flight, if the AD knew that user then or
  later.
* **ApiTokens**: tokens page and bearer authentication, one step per query.
  `life`, `late` and `seen` are history variables. `AccessSpec` is Access under
  the mapping `Issued`, `Call`: the table `api_tokens` is who owns a token.

**Everything over one pool.**

* **Handlers**: per route, tool and bot handler the calls it makes, in order;
  which calls write rows, which end the handler early, which handlers unwrap.
* **Pool**: requests run those scripts, a transaction per call, next to the
  timer's round (`stage`, `left`). A transaction waits in `begin` for a
  connection and in `Change` for a row.
* **HostViews**: the lists of hosts in one read (`get_hosts_filtered`) or two
  (`list_all_hosts`, `get_all_hosts`, the page `get_hosts`), beside commits of
  leases, releases, first logins and removals. `held` is a history variable.

Names are the source's. Definitions whose comment begins with "Mutant" are not
part of the models: each is a plausible bug that the property named in
`PROJECT.json` must catch.

### Abstractions

* Time runs in half hours: an hour is 2, the window of 30 minutes is 1.
* A lease's SELECTs and the start of its UPDATE are one step, and so are those
  of the timer's `release`. These UPDATEs name ids only, so their candidates do
  not depend on when they start, and the rows are locked and written in later
  steps: every race between check and write is there (the violation runs find
  them). The steps of `lease_random` and `extend_user_hosts` are split, because
  their second statement looks at the table again, and so are the notifier's.
* The timestamp of a lease is taken when its UPDATE starts, as in the code
  (`Utc::now()` is a bind parameter), so it may be old when a row is written.
* A front end's request is one of the four operations with any user, ids and
  duration; durations over 63 days or 23 hours are refused before.
* `SerialUsers` and `SerialCreators` are the users who never have two lease (or
  create) requests in flight. The program does not enforce it: it is the
  assumption under which the limits hold.
* In ReleaseTimer a SELECT and the clock it reads are one step, and a warning
  counts for the leases that are their reader's both when the rows are read and
  when it arrives. An extension can be pressed by linked users only.
* In LeaseSystem users, groups and limits do not change. A user's row is deleted
  by an administrator only; Login and HostViews have that step.
* Login: one session slot per browser. Passwords are right or wrong; the empty
  one is UsersInfo's subject. A failed call and a browser that goes away both end
  the request; which page says so is left out.
* UsersInfo: a connection is open or not and bound as somebody. `find_user_info`
  and `get_user_info` are one step each over the handle.
* Pool: one row stands for all the rows a transaction can wait for, which only
  makes waiting more frequent; requests to unguarded routes carry no session
  (with one they make the calls of `SessionGuard` first, like the guarded ones).
* HostViews and Linking: ids stand for mails and codes, and a writer is one
  commit.

## 3. Runs

All bounds are CONSTANTS of the cfg.

| run | what it shows | bounds |
|---|---|---|
| `lease_safety` | `SomebodyGoesOn`, `LimitForSerialUsers`, `ReleaseOnlyOwn`, `SerialLeaseNeverShortened`; `BookSpec`: LeaseSystem implements LeaseBook | two hosts and two users, so that a host can change hands and two rows can be locked in opposite orders; two requests, a callback and the timer for every pair of writers and for three-way races; no hours, which is over at once, and 1, so that a later lease can be shorter, and 24, which the front ends refuse; one failure, one tick |
| `lease_liveness` | `RequestsAnswered`, `ExpiredReleased`, with locks, deadlocks and a failure | one request, one callback and the timer |
| `lease_taken` (violated) | a leased host is leased to another user | as `lease_safety`, smaller |
| `lease_expired` (violated) | the timer frees a lease that was just extended | as `lease_safety`, smaller |
| `timer` | `SuppressedOnlyIfTold`, `NoSecondNotice`, `EventuallyTold` | two users and two hosts, both of which the timer warns of and releases and a button extends, so that a message lists two hosts and a round warns two users; the requests name one of them (`Wanted`), whose owner can change all the time; leases of no hours and of one; one trouble among failed queries, failed sends and crashes; two half hours, at any step: enough for a lease to be warned of, to be leased anew or extended out of the window and to come into it again while no scan comes round, and to be over |
| `timer_panic` (violated) | the `unwrap` in the notifier fails | as `timer`, smaller |
| `tokens` | `TokenLimitForSerialCreators`, `ServedOnlyIfEntitled`, `ShownTokenWorks`; `AccessSpec`: ApiTokens implements Access | three web requests, so that one can create, one revoke and one create again |
| `users_info` | `SearchesAsService`, `OkOnlyWithPassword`; `DirectorySpec`: UsersInfo implements Directory; `Restored`, `BrokenHandleGoes`, `CallsAnswered` | two calls (a login beside a search, two logins), three names for connections so that both keepers can have one while a call holds an old one; one outage, break or refused login; `Questions` leaves out `get_user_info`, which goes the way of `find_user_info`, and the wrong password, which goes the way of the right one of a missing person |
| `login` | `OneRowPerPerson`, `ServedOnlyProved`; `SessionsSpec`: Login implements Sessions | two requests, two people, two browsers, two ids |
| `pool` | `NobodyStuck`, `RequestEnds`, `RoundEnds` | two connections, the fewest the timer can work with, and two requests, so that there is always somebody who must wait; a route of each kind (a login, a page that unwraps, a write, a read of two calls); two notices; a negative limit |
| `views` | `ShownLeaseWasHeld`, `FilteredShowsLeases` | one list, which is made over and over: lists do not influence each other |
| `linking` | `ExtendsOnlyCoded` | two users and two accounts, linked in any way and order; two hosts, which come into the window and leave it at any moment |

Every run of a passing specification also checks its `TypeOK`. The violated runs
state what a message, a test or an assertion of the repository says;
`PROJECT.json` "findings" quotes each. Deadlock checking is off where each
request is sent once or the clock stops at its bound: a quiet system is a legal
end. In `users_info`, `login`, `pool`, `views` and `linking` it is on.

Symmetry is used where there are no liveness properties. Requests, hosts and (in
MCTokens, MCLogin, MCViews and MCLinking) users, people, browsers, tokens and
accounts are interchangeable; the users of MCLease have different limits and are
not.

### Fairness

* Weak fairness of the program's own steps: tokio polls every task that can go
  on, and sqlx and teloxide end every call.
* Strong fairness of the steps that lock a row, and in Pool of those that take a
  connection: PostgreSQL queues a waiting statement and the pool its waiters, so
  what becomes free again and again is granted at last. With weak fairness only,
  a transaction could be passed over for ever by the timer retrying.
* Weak fairness of the deadlock detector (`deadlock_timeout`).
* In ReleaseTimer, weak fairness of the loop. Nothing restarts a dead process,
  and `EventuallyTold` excuses it.
* In UsersInfo, weak fairness of the keepers and of the calls: a connection
  attempt and a bind end, one way or the other; a broken connection ends
  `drive`, and a call over it fails. That the AD becomes reachable again is not
  assumed: `Restored` speaks of the times when it is. All three liveness
  properties excuse the program that has ended because a bind was refused.

None for arrivals, failures, crashes, the clock, restarts, the acquire timeout
of the pool, or the end of an outage. In Pool in particular nothing waits for a
timeout: every transaction gets its connection because the others end.

### Known behaviour without a run

These follow from the code as directly as the findings do, and were seen while
modelling; the properties above are stated so as to hold beside them:

* two concurrent lease (or create) requests of one user exceed the limit: count
  and write are separate statements. With K of them in flight there are never
  more than K times the limit of hosts (`ConcurrentLimit`), or K - 1 tokens past
  `api_token_limit` (`ConcurrentCreations`);
* a refused bind of `keep_authorized_ldap_conn` returns from `work()`, and the
  program with it (`src/ldap/mod.rs:85`);
* an account linked to two users extends whichever the database answers, and a
  button pressed late extends leases its notice did not list;
* the memory of warnings is cleaned up only by a scan that finds the host outside
  the window (`src/logic/release.rs:152` says that "a new notification fires when
  the extended lease approaches expiry again"). A user who was warned of a host,
  releases it and leases it for 0 days and 0 hours, or whose extended lease is due
  again before any scan has succeeded, is not warned anew. `SuppressedOnlyIfTold`
  allows for just these leases (`unseen`) and `EventuallyTold` excuses them
  (`Masked`);
* `list_all_hosts` shows a leased host without its lease when the holder logged
  in for the first time between its two reads.

## 4. Proofs

Each `...Proofs` module proves its component for all finite sets of hosts, users,
people, requests, connections and accounts, all limits, durations and bounds that
satisfy the named assumptions of the component (`RegistryAssumption`,
`ReleaseTimerAssumption`, `UsersInfoAssumption` and so on). `PoolProofs` also
needs `TwoConnections`: with one connection the timer waits for itself.

| module | theorems besides `TypeCorrect` |
|---|---|
| `LeaseProofs` | `LeasesConsistent`, `Invariant` (`IInv`), `LimitKept`, `ReleasesOwnHosts`, `SerialLeasesNotShortened`, `SomebodyAlwaysGoesOn`, `DeadlocksHaveTwoRows`, `Implements` (LeaseBook is refined), `ConcurrentLimit`, `TimerFreesOnlyExpiredIfLeftAlone`, `LeasedHostsAreRefusedIfLeftAlone` |
| `TimerProofs` | `TimerInvariant`, `NobodyIsLeftOut` (`SuppressedOnlyIfTold`), `OneNotice` (`NoSecondNotice`), `NoPanicIfNobodyReleases` |
| `TokenProofs` | `TokenInvariant`, `SerialLimit`, `ServedAreEntitled`, `ShownWorks`, `Implements` (Access is refined), `ConcurrentCreations` |
| `UsersInfoProofs` | `LdapInvariant`, `SearchesBound`, `OkNeedsPassword`, `ImplementsDirectory` (Directory is refined) |
| `LoginProofs` | `LoginInvariant`, `OneRow`, `SessionsAreProved`, `ServedAreProved`, `Implements` (Sessions is refined) |
| `PoolProofs` | `PoolInvariant`, `NobodyStuckHolds` |
| `LinkingProofs` | `LinkingInvariant`, `ExtendsTheCoded` (`ExtendsOnlyCoded`) |
| `ViewsProofs` | `ViewsInvariant`, `ShownWereHeld`, `FilteredIsWhole` |

Hardly any of the properties is inductive. The inductive invariants, and why:

* `IInv` (LeaseSystem). `DraftInv`: an unlocked row has one version; a locked
  row's draft is its statement applied to the *committed* row, and is no longer
  to be visited. A commit then publishes exactly what the statement says of the
  table at that moment, which is what makes the transactions look like steps of
  the book. `StmtInv`: which statement each task can have in flight. From these two
  follows what `TypeOK` says besides the types, that a task without an UPDATE holds
  no lock. `SerialInv`:
  for a serial user the rows a lease request has selected or locked are none of
  the user's own and still fit under the limit together with them; other tasks'
  steps only shrink what the user owns.
* `TimerInv` (ReleaseTimer). `ToldInv` ties what users were told to `sent`, as
  long as nothing was lost; `SuppressedInv` is `SuppressedOnlyIfTold` without the
  window, so that it survives the clock: whatever `sent` holds of the owner of a
  host is about this lease, or the lease is unseen. `PendingInv` and `MessageInv`
  say the same of what the loop is about to send: a host that is still its
  reader's is still in the window, and was the reader's when the rows were read,
  or it is unseen. Nothing in it says how long a round takes or a lease lasts.
* `TokenInv` (ApiTokens). Plaintexts that are about to be inserted are nobody
  else's; a serial creator past the count has room; at each await of
  `authenticate_bearer` what is still true of the token and of the user.
* `LdapInv` (UsersInfo). `PublishedInv` and `ApartInv`: a handle is published by
  the keeper that made the connection, and the two keepers never have the same
  one, so that no login binds the connection of the searches. `BoundInv`: whoever
  searches, *or could*, goes over a connection bound as tachikoma, also after
  the handle has been taken back.
* `LoginInv` (Login). `InsertInv`: what open transactions have inserted is
  nobody's row yet, and each has another id and another person; `RowsInv`: ids
  are given once (`born`), so the id in a session never comes to stand for
  somebody else; `Proven`: what each request carries was proved in its browser.
* `PoolInv` (Pool). A request holds one connection at most, who works holds one,
  and only the timer in "warn" holds two. `SomebodyRuns` then argues: if all
  connections are held, either one is held by somebody who does not wait for a
  connection, or all by the timer, which is impossible with two; and whoever
  waits for the row waits for one who has changed it and can end.
* `LinkingInv`, `ViewsInv`: every link, press and selected host goes back to a code
  that was sent; who holds a host has held it since the request of any list.

Every proof has one lemma per action, and where several actions change the same
variables a lemma about that change (`StartStmtKeepsTable`, `Moves`,
`AnswerKeeps`, `ListMoves`, `PressMoves`, `TableChanges`).

**The refinements** map every step to a step of the abstract specification or a
stutter, and rest on the inductive invariants:

* LeaseSystem to LeaseBook: the start of an UPDATE (or the SELECT of an extension)
  is `Ask`, a commit is `CarryOut`, a rollback `Drop`. In between, an UPDATE that
  visits a row and finds that its WHERE clause no longer holds is `LetGo`. `DraftInv` says that a
  commit publishes its statement on all the rows that are left and on no other;
  `SerialInv` is the guard of a lease. A commit that publishes some of its rows
  only, a release that reaches another user's row, or a round that frees what its
  SELECT did not find has no step of the book to map to.
* Login to Sessions: `login` is `SignIn` although a removal of the row, a
  restart or another login may have come since the password was checked;
  `InsertInv` and `RowsInv` make the id stand for the person all the while, so
  that removing a row is `Drop` and adding one opens no account.
* ApiTokens to Access: each request starts without token and user (a conjunct
  that `TokenInv` needed for this), the commits of create and revoke are `Issue`
  and `Withdraw` also when their outcome is reported as an error.
* UsersInfo to Directory: what a call has asked, and under which account.

**Waiting** (`SomebodyAlwaysGoesOn`). An UPDATE waits for rows of transactions
that are in flight themselves (`DraftInv`, `HoldersFinite`). Suppose nobody could
go on and the detector had nobody to end. Then each of the tasks in flight waits
for one of them. Take a smallest set of tasks with that property, which exists
because the strict subset order on the subsets of a finite set is well-founded. In
it everybody is also waited for (who is not could be left out), and that is what
`Deadlocked` says of each of its members.

**The causes of the findings.** Three theorems state what lease_taken,
lease_expired and timer_panic refute, under a premise on the steps of the
behaviour, and so say that there are no other ways to it.

* `TimerFreesOnlyExpiredIfLeftAlone`: while nobody commits to a row the timer has
  selected and not yet locked (`LeftAlone`), it frees leases that are over. What
  comes once the row is locked, waits in other UPDATEs, failures and the clock
  do no harm. `TargetsOver` is the invariant: each row the timer has selected or
  locked is free or over.
* `LeasedHostsAreRefusedIfLeftAlone`: the same for the requests that lease, if each
  starts its UPDATE on free hosts (`StartsFree`), which `lease` does not look at and
  `lease_random` has looked at one step before. `LeasesFree` is the invariant.
* `NoPanicIfNobodyReleases`: while no user releases a host whose warning is still to
  be written, every row the notifier reads has its `leased_until` (`DueInv`).
  Another user's lease, an extension, a failed query or send and a crash do not
  matter.

Each premise says less than "nothing runs concurrently": with it as an action
constraint the instances of these runs keep 947, 19402 and 612 states, in which
leases are taken, extended, released and warned of, and without it TLC violates
the three properties. With `LeftAlone` for all requests and `StartsFree` dropped
`LeasedHostsAreRefused` fails, so the second premise is needed too.

**The two theorems about limits** say what the limits are worth when a user is not
serial. Both have the form `Spec /\ []AtMostK => []Bound`, for any `K`; a run with
K = 1 satisfies the premise, so does every run with K the number of its requests.
`FlightInv` counts: any of u's requests in flight claim together at most the limit
each (the rows they have selected or locked, and one for a request that has yet to
pick its host), and all of them together with what u holds at most K times the
limit; a request that enters has made its check against all that u holds.
`CreationInv` is the same with one token per request. In the runs all users are
serial, which is K = 1, and there the theorems say what `LimitForSerialUsers` and `TokenLimitForSerialCreators` say.

Theorems without a run of their own: the inductive invariants; `LeasesConsistent`,
that `leased_until` and `user_id` are set and cleared together (`BookSpec` is
checked and says more); `SessionsAreProved` (`SessionsSpec` is checked and says more); and `DeadlocksHaveTwoRows`, that what
PostgreSQL's detector ends has locked one row and waits for another, so that
`lease_random` and a lease or release of one host never fail that way
(`RequestsAnswered` is the property TLC checks of deadlocks).

Only model-checked: everything under fairness (`RequestsAnswered`,
`ExpiredReleased`, `EventuallyTold`, `Restored`, `BrokenHandleGoes`,
`CallsAnswered`, `RequestEnds`, `RoundEnds`), which is out of the prover's reach.

## 5. Not modelled

Configuration, telemetry, HTML and JSON, message texts, the host policy of MCP:
no behaviour over time, or formatting. `groups[0]` of the page of hosts panics
when the table `groups` is empty; groups are filled before the program is of use
and no operation removes one. The session cookie's signature and the task that
deletes expired sessions belong to libraries. `HostsReleased` notices are sent at
most once and nothing in the repository promises more, so the model has the
steps that lose them and no property. Of the program itself
(`src/bin/tachikoma.rs`) what its end does to the others is in ReleaseTimer
(`Crash`), Login (`Restart`) and UsersInfo (`running`); reading the settings and
opening the listeners is not modelled.

## 6. What could come next

1. Login's and ApiTokens' AD as INSTANCEs of Directory's calls, so that the
   composition with UsersInfo is a theorem and not a convention.
2. The notifier's reads inside Pool with the rows of LeaseSystem, so that row
   locks and connections are one wait-for graph.
3. Abstract specifications for Linking (a button belongs to an account) and for
   HostViews (a list is one snapshot per host).
