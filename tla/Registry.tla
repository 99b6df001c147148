------------------------------ MODULE Registry ------------------------------
(***************************************************************************)
(* The hosts table as src/db/mod.rs uses it: `Registry' hands out          *)
(* transactions (`RegistryTx'), every operation of the program runs at     *)
(* most one UPDATE of hosts inside one transaction, and a transaction that *)
(* is dropped before `commit' is rolled back.                              *)
(*                                                                         *)
(* The transactions run at PostgreSQL's default level, READ COMMITTED: a   *)
(* SELECT reads the committed rows, an UPDATE picks its candidate rows     *)
(* from the committed rows when it starts and then locks them one by one,  *)
(* evaluating its WHERE clause again on the newest committed version of    *)
(* each row it had to wait for.  A row lock is held until the transaction  *)
(* ends.  That part is not in the repository: the definitions that stand   *)
(* for PostgreSQL itself are marked "external".                            *)
(***************************************************************************)
EXTENDS HostRows

CONSTANTS
    Requests,   \* transactions of web, API and MCP requests
    Callbacks,  \* transactions of the Telegram extend callback
    Timer       \* the transaction of the release timer

Tx == Requests \cup Callbacks \cup {Timer}

ASSUME RegistryAssumption ==
    /\ IsFiniteSet(Hosts)
    /\ IsFiniteSet(Users)
    /\ Requests \cap Callbacks = {}
    /\ Timer \notin Requests \cup Callbacks
    /\ Null \notin Users \cup Tx
    /\ Null \notin Int

VARIABLES
    hosts,     \* the committed row of each host
    draft,     \* the newest row version, committed or not
    rowLock,   \* the transaction that holds the lock of the row, or Null
    stmt,      \* the UPDATE each transaction has started and not yet committed
    now        \* Utc::now(), in half hours

registryVars == <<hosts, draft, rowLock, stmt, now>>

NoStmt == [kind |-> "none", user |-> Null, arg |-> 0, todo |-> {}]

Kinds == {"lease_hosts", "free_hosts_for_user", "free_hosts", "free_all",
          "extend_hosts_lease"}

Stmt == [kind : Kinds \cup {"none"}, user : Users \cup {Null}, arg : Int,
         todo : SUBSET Hosts]

-----------------------------------------------------------------------------
(***************************************************************************)
(* Updates: the statement, its WHERE clause and its SET clause.  `todo' is *)
(* first the set of ids named by the statement; StartStmt cuts it down to  *)
(* the candidate rows.                                                     *)
(***************************************************************************)
lease_hosts(u, ids, until) ==
    [kind |-> "lease_hosts", user |-> u, arg |-> until, todo |-> ids \cap Hosts]

free_hosts_for_user(ids, u) ==
    [kind |-> "free_hosts_for_user", user |-> u, arg |-> 0,
     todo |-> ids \cap Hosts]

free_hosts(ids) ==
    [kind |-> "free_hosts", user |-> Null, arg |-> 0, todo |-> ids]

free_all(u) ==
    [kind |-> "free_all", user |-> u, arg |-> 0, todo |-> Hosts]

extend_hosts_lease(ids, hours) ==
    [kind |-> "extend_hosts_lease", user |-> Null, arg |-> hours * Hour,
     todo |-> ids]

\* Mutant: the frees of a user do not name the user in WHERE.
Matches_AnyUser(s, row) == s.kind = "extend_hosts_lease" => row.until # Null

Matches(s, row) ==
    /\ s.kind \in {"free_hosts_for_user", "free_all"} => row.user = s.user
    /\ s.kind = "extend_hosts_lease" => row.until # Null

Assigned(s, row) ==
    CASE s.kind = "lease_hosts"        -> [user |-> s.user, until |-> s.arg]
      [] s.kind = "extend_hosts_lease" -> [row EXCEPT !.until = @ + s.arg]
      [] OTHER                         -> FreeRow

\* What the statement makes of a row it has locked (external: PostgreSQL
\* evaluates WHERE again on the version it locked).
Applied(s, row) == IF Matches(s, row) THEN Assigned(s, row) ELSE row

-----------------------------------------------------------------------------
(***************************************************************************)
(* Transactions.                                                           *)
(***************************************************************************)
LockedBy(t) == {h \in Hosts : rowLock[h] = t}

\* The UPDATE is sent: its candidates are the committed rows that match.
StartStmt(t, s) ==
    /\ stmt' = [stmt EXCEPT ![t] =
                  [s EXCEPT !.todo = {h \in @ : Matches(s, hosts[h])}]]
    /\ UNCHANGED <<hosts, draft, rowLock, now>>

\* The UPDATE locks one of its candidates and writes a new version of it.
\* Rows are visited in whatever order the query plan yields.
WriteRow(t) ==
    \E h \in stmt[t].todo :
        /\ rowLock[h] = Null
        /\ rowLock' = [rowLock EXCEPT ![h] = t]
        /\ draft' = [draft EXCEPT ![h] = Applied(stmt[t], hosts[h])]
        /\ stmt' = [stmt EXCEPT ![t].todo = @ \ {h}]
        /\ UNCHANGED <<hosts, now>>

Unlocked(t) == [h \in Hosts |-> IF rowLock[h] = t THEN Null ELSE rowLock[h]]

\* Mutant: the UPDATE runs on the pool instead of the transaction, each row
\* written is committed at once and an error leaves it at that.
Commit_Partial(t) ==
    /\ stmt[t].kind # "none"
    /\ hosts' = [h \in Hosts |-> IF rowLock[h] = t THEN draft[h] ELSE hosts[h]]
    /\ rowLock' = Unlocked(t)
    /\ stmt' = [stmt EXCEPT ![t] = NoStmt]
    /\ UNCHANGED <<draft, now>>

\* The UPDATE has visited every candidate and the transaction commits.
Commit(t) ==
    /\ stmt[t].kind # "none"
    /\ stmt[t].todo = {}
    /\ hosts' = [h \in Hosts |-> IF rowLock[h] = t THEN draft[h] ELSE hosts[h]]
    /\ rowLock' = Unlocked(t)
    /\ stmt' = [stmt EXCEPT ![t] = NoStmt]
    /\ UNCHANGED <<draft, now>>

\* The transaction is dropped, or the server ends it.
Rollback(t) ==
    /\ draft' = [h \in Hosts |-> IF rowLock[h] = t THEN hosts[h] ELSE draft[h]]
    /\ rowLock' = Unlocked(t)
    /\ stmt' = [stmt EXCEPT ![t] = NoStmt]
    /\ UNCHANGED <<hosts, now>>

(***************************************************************************)
(* PostgreSQL's deadlock detector (external): it ends a transaction that   *)
(* is part of a cycle of waits.  A set of transactions each of which waits *)
(* for a member and is waited for by a member contains such a cycle.       *)
(***************************************************************************)
WaitsFor(t, v) == \E h \in stmt[t].todo : rowLock[h] = v

Deadlocked(t) ==
    \E D \in SUBSET Tx :
        /\ t \in D
        /\ \A v \in D : /\ \E w \in D : WaitsFor(v, w)
                        /\ \E w \in D : WaitsFor(w, v)

-----------------------------------------------------------------------------
RegistryTypeOK ==
    /\ hosts \in [Hosts -> Row]
    /\ draft \in [Hosts -> Row]
    /\ rowLock \in [Hosts -> Tx \cup {Null}]
    /\ stmt \in [Tx -> Stmt]
    /\ now \in Int

=============================================================================
