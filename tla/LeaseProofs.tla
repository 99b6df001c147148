---------------------------- MODULE LeaseProofs ----------------------------
(***************************************************************************)
(* Theorems about LeaseSystem, for every set of users, hosts and           *)
(* transactions and every configuration of limits.                         *)
(***************************************************************************)
EXTENDS LeaseSystem, FiniteSetTheorems, WellFoundedInduction, TLAPS

-----------------------------------------------------------------------------
(***************************************************************************)
(* The inductive invariant behind the safety properties.                   *)
(***************************************************************************)
\* A row nobody has locked has one version; a row transaction t has locked is
\* no longer a candidate of its statement, and its new version is what the
\* statement makes of the committed one.
DraftInv ==
    \A h \in Hosts :
        /\ rowLock[h] = Null => draft[h] = hosts[h]
        /\ \A t \in Tx : rowLock[h] = t =>
              /\ stmt[t].kind # "none"
              /\ h \notin stmt[t].todo
              /\ draft[h] = Applied(stmt[t], hosts[h])

\* Which statement each task can have in flight.
StmtInv ==
    /\ \A t \in Tx : stmt[t].kind = "none" => stmt[t] = NoStmt
    /\ \A r \in Requests :
          /\ stmt[r].kind \in {"none", "lease_hosts", "free_hosts_for_user", "free_all"}
          /\ stmt[r].kind # "none" <=> pc[r] = "update"
          /\ stmt[r].kind # "none" => stmt[r].user \in Users
          /\ pc[r] = "pick" <=> asking[r] # Null
    /\ \A c \in Callbacks :
          /\ stmt[c].kind \in {"none", "extend_hosts_lease"}
          /\ stmt[c].kind # "none" <=> cb[c] = "update"
          /\ stmt[c].kind # "none" => stmt[c].arg > 0
          /\ cb[c] = "query" => extending[c].hours > 0
    /\ stmt[Timer].kind \in {"none", "free_hosts"}
    /\ stmt[Timer].kind # "none" <=> timer = "free"

\* The rows the UPDATE of t has written or may still write.
Targets(t) == stmt[t].todo \cup LockedBy(t)

\* The detector only ever ends a statement of two rows or more, which has
\* locked one and waits for another: lease_random, and whatever names one host,
\* never fails because of a deadlock, whichever order the rows of the free_hosts
\* of the timer, of lease and of the extend callback are visited in.
DeadlockNeedsTwoRows ==
    \A t \in Tx : Deadlocked(t) => \E g \in LockedBy(t), h \in stmt[t].todo : g # h

\* What the checks of u's lease request are still worth while it is in flight:
\* there is room for the rows it has selected or locked, and none of them is
\* u's own.
RoomFor(u) ==
    LET leased == get_leased_hosts(hosts, u)
        limit == get_lease_limit(u)
    IN  /\ Cardinality(leased) <= limit
        /\ \A r, q \in Requests : LeasingFor(r, u) /\ LeasingFor(q, u) => r = q
        /\ \A r \in Requests :
              /\ pc[r] = "pick" /\ asking[r] = u => Cardinality(leased) + 1 <= limit
              /\ stmt[r].kind = "lease_hosts" /\ stmt[r].user = u =>
                    /\ Targets(r) \cap leased = {}
                    /\ Cardinality(leased \cup Targets(r)) <= limit

SerialInv == \A u \in SerialUsers : RoomFor(u)

\* Each variable in its type; what TypeOK says of locks follows from the rest.
Typed ==
    /\ RegistryTypeOK
    /\ ServiceTypeOK
    /\ BotTypeOK
    /\ timer \in {"sleep", "free"}
    /\ failures \in Nat

IInv ==
    /\ Typed
    /\ LeaseConsistency
    /\ DraftInv
    /\ StmtInv
    /\ SerialInv

-----------------------------------------------------------------------------
(***************************************************************************)
(* Rows and statements.                                                    *)
(***************************************************************************)
\* What a statement makes of a row is a row.
LEMMA AppliedType ==
    ASSUME NEW s \in Stmt, NEW row \in Row
    PROVE  Applied(s, row) \in Row
<1>1. CASE s.kind = "extend_hosts_lease" /\ row.until # Null
  <2>1. row.until + s.arg \in Int
    BY <1>1 DEF Stmt, Row
  <2>2. Applied(s, row) = [row EXCEPT !.until = @ + s.arg]
    BY <1>1 DEF Applied, Matches, Assigned
  <2>3. QED BY <2>1, <2>2 DEF Row
<1>2. CASE s.kind = "extend_hosts_lease" /\ row.until = Null
  BY <1>2 DEF Applied, Matches
<1>3. CASE s.kind = "lease_hosts"
  BY <1>3 DEF Applied, Matches, Assigned, Stmt, Row
<1>4. CASE s.kind \notin {"lease_hosts", "extend_hosts_lease"}
  <2>1. Assigned(s, row) = FreeRow
    BY <1>4 DEF Assigned
  <2>2. Applied(s, row) \in {FreeRow, row}
    BY <2>1 DEF Applied
  <2>3. QED BY <2>2 DEF FreeRow, Row
<1>5. QED BY <1>1, <1>2, <1>3, <1>4

\* A lease, a free and an extension keep owner and end of lease together.
LEMMA AppliedWellFormed ==
    ASSUME NEW s \in Stmt, NEW row \in Row, WellFormed(row),
           s.kind = "lease_hosts" => s.user \in Users
    PROVE  WellFormed(Applied(s, row))
<1>1. CASE s.kind = "extend_hosts_lease" /\ row.until # Null
  <2>1. row.until + s.arg \in Int
    BY <1>1 DEF Stmt, Row
  <2>2. Applied(s, row) = [row EXCEPT !.until = @ + s.arg]
    BY <1>1 DEF Applied, Matches, Assigned
  <2>3. /\ Applied(s, row).user = row.user
        /\ Applied(s, row).until = row.until + s.arg
    BY <2>2 DEF Row
  <2>4. QED BY <1>1, <2>1, <2>3, RegistryAssumption DEF WellFormed
<1>2. CASE s.kind = "extend_hosts_lease" /\ row.until = Null
  BY <1>2 DEF Applied, Matches
<1>3. CASE s.kind = "lease_hosts"
  <2>1. Applied(s, row) = [user |-> s.user, until |-> s.arg]
    BY <1>3 DEF Applied, Matches, Assigned
  <2>2. QED BY <1>3, <2>1, RegistryAssumption DEF WellFormed, Stmt
<1>4. CASE s.kind \notin {"lease_hosts", "extend_hosts_lease"}
  <2>1. Assigned(s, row) = FreeRow
    BY <1>4 DEF Assigned
  <2>2. Applied(s, row) \in {FreeRow, row}
    BY <2>1 DEF Applied
  <2>3. QED BY <2>2 DEF FreeRow, WellFormed
<1>5. QED BY <1>1, <1>2, <1>3, <1>4

-----------------------------------------------------------------------------
(***************************************************************************)
(* The steps of a transaction keep the table, its drafts and its locks in  *)
(* order, whatever task takes them.                                        *)
(***************************************************************************)
TableInv == RegistryTypeOK /\ LeaseConsistency /\ DraftInv

\* StartStmt: nothing is locked by a transaction that had no statement.
LEMMA StartStmtKeepsTable ==
    ASSUME TableInv, NEW t \in Tx, stmt[t] = NoStmt,
           NEW s \in Stmt, s.kind # "none", StartStmt(t, s)
    PROVE  TableInv'
<1>1. RegistryTypeOK'
  BY DEF TableInv, RegistryTypeOK, StartStmt, Stmt
<1>2. LeaseConsistency'
  BY DEF TableInv, LeaseConsistency, WellFormed, StartStmt
<1>3. DraftInv'
  <2>1. \A v \in Tx : v # t => stmt'[v] = stmt[v]
    BY DEF TableInv, RegistryTypeOK, StartStmt
  <2>2. \A h \in Hosts : rowLock[h] # t
    BY DEF TableInv, DraftInv, NoStmt
  <2>3. QED BY <2>1, <2>2 DEF TableInv, DraftInv, StartStmt
<1>4. QED BY <1>1, <1>2, <1>3 DEF TableInv

\* WriteRow: the row it locks had one version, and gets the statement's.
LEMMA WriteRowKeepsTable ==
    ASSUME TableInv, NEW t \in Tx, stmt[t].kind # "none",
           stmt[t].kind = "lease_hosts" => stmt[t].user \in Users,
           WriteRow(t)
    PROVE  TableInv'
<1>1. PICK h \in stmt[t].todo :
        /\ rowLock[h] = Null
        /\ rowLock' = [rowLock EXCEPT ![h] = t]
        /\ draft' = [draft EXCEPT ![h] = Applied(stmt[t], hosts[h])]
        /\ stmt' = [stmt EXCEPT ![t].todo = @ \ {h}]
        /\ UNCHANGED <<hosts, now>>
  BY DEF WriteRow
<1>2. h \in Hosts /\ stmt[t] \in Stmt /\ hosts[h] \in Row /\ WellFormed(hosts[h])
  BY DEF TableInv, RegistryTypeOK, LeaseConsistency, Stmt
<1>3. Applied(stmt[t], hosts[h]) \in Row /\ WellFormed(Applied(stmt[t], hosts[h]))
  BY <1>2, AppliedType, AppliedWellFormed
<1>4. stmt' \in [Tx -> Stmt]
  BY <1>1, <1>2 DEF TableInv, RegistryTypeOK, Stmt
<1>5. RegistryTypeOK'
  BY <1>1, <1>2, <1>3, <1>4 DEF TableInv, RegistryTypeOK
<1>6. LeaseConsistency'
  BY <1>1, <1>2, <1>3 DEF TableInv, LeaseConsistency, RegistryTypeOK
<1>7. DraftInv'
  <2>1. \A v \in Tx : v # t => stmt'[v] = stmt[v]
    BY <1>1 DEF TableInv, RegistryTypeOK
  <2>2. /\ stmt'[t].kind = stmt[t].kind
        /\ stmt'[t].todo = stmt[t].todo \ {h}
        /\ \A row \in Row : Applied(stmt'[t], row) = Applied(stmt[t], row)
    <3>1. stmt'[t] = [stmt[t] EXCEPT !.todo = @ \ {h}]
      BY <1>1 DEF TableInv, RegistryTypeOK
    <3>2. /\ stmt'[t].kind = stmt[t].kind
          /\ stmt'[t].user = stmt[t].user
          /\ stmt'[t].arg = stmt[t].arg
          /\ stmt'[t].todo = stmt[t].todo \ {h}
      BY <3>1, <1>2 DEF Stmt
    <3>3. QED BY <3>2 DEF Applied, Matches, Assigned
  <2>3. SUFFICES ASSUME NEW g \in Hosts
                 PROVE  /\ rowLock'[g] = Null => draft'[g] = hosts'[g]
                        /\ \A v \in Tx : rowLock'[g] = v =>
                              /\ stmt'[v].kind # "none"
                              /\ g \notin stmt'[v].todo
                              /\ draft'[g] = Applied(stmt'[v], hosts'[g])
    BY DEF DraftInv
  <2>4. CASE g = h
    <3>1. rowLock'[h] = t /\ t # Null
      BY <1>1, <1>2, RegistryAssumption DEF TableInv, RegistryTypeOK
    <3>2. draft'[h] = Applied(stmt[t], hosts[h])
      BY <1>1, <1>2 DEF TableInv, RegistryTypeOK
    <3>3. QED BY <2>4, <3>1, <3>2, <2>2, <1>1, <1>2
  <2>5. CASE g # h
    <3>1. rowLock'[g] = rowLock[g] /\ draft'[g] = draft[g] /\ hosts'[g] = hosts[g]
      BY <2>5, <1>1, <1>2 DEF TableInv, RegistryTypeOK
    <3>2. hosts[g] \in Row
      BY DEF TableInv, RegistryTypeOK
    <3>3. QED BY <3>1, <3>2, <2>1, <2>2 DEF TableInv, DraftInv
  <2>6. QED BY <2>4, <2>5
<1>8. QED BY <1>5, <1>6, <1>7 DEF TableInv

\* Commit: the rows it publishes are the ones it has locked.
LEMMA CommitKeepsTable ==
    ASSUME TableInv, NEW t \in Tx, Commit(t)
    PROVE  TableInv'
<1>1. RegistryTypeOK'
  <2>1. NoStmt \in Stmt
    BY DEF NoStmt, Stmt
  <2>2. QED BY <2>1 DEF TableInv, RegistryTypeOK, Commit, Unlocked
<1>2. LeaseConsistency'
  BY DEF TableInv, LeaseConsistency, Commit
<1>3. DraftInv'
  <2>1. \A v \in Tx : v # t => stmt'[v] = stmt[v]
    BY DEF TableInv, RegistryTypeOK, Commit
  <2>2. t # Null
    BY RegistryAssumption
  <2>3. \A h \in Hosts : rowLock'[h] = IF rowLock[h] = t THEN Null ELSE rowLock[h]
    BY DEF Commit, Unlocked
  <2>4. \A h \in Hosts : hosts'[h] = IF rowLock[h] = t THEN draft[h] ELSE hosts[h]
    BY DEF Commit
  <2>5. draft' = draft
    BY DEF Commit
  <2>6. QED BY <2>1, <2>2, <2>3, <2>4, <2>5, RegistryAssumption DEF TableInv, DraftInv
<1>4. QED BY <1>1, <1>2, <1>3 DEF TableInv

\* Rollback: the rows it gives up have their committed version again.
LEMMA RollbackKeepsTable ==
    ASSUME TableInv, NEW t \in Tx, Rollback(t)
    PROVE  TableInv'
<1>1. RegistryTypeOK'
  <2>1. NoStmt \in Stmt
    BY DEF NoStmt, Stmt
  <2>2. QED BY <2>1 DEF TableInv, RegistryTypeOK, Rollback, Unlocked
<1>2. LeaseConsistency'
  BY DEF TableInv, LeaseConsistency, Rollback
<1>3. DraftInv'
  <2>1. \A v \in Tx : v # t => stmt'[v] = stmt[v]
    BY DEF TableInv, RegistryTypeOK, Rollback
  <2>2. t # Null
    BY RegistryAssumption
  <2>3. \A h \in Hosts : rowLock'[h] = IF rowLock[h] = t THEN Null ELSE rowLock[h]
    BY DEF Rollback, Unlocked
  <2>4. \A h \in Hosts : draft'[h] = IF rowLock[h] = t THEN hosts[h] ELSE draft[h]
    BY DEF Rollback
  <2>5. hosts' = hosts
    BY DEF Rollback
  <2>6. QED BY <2>1, <2>2, <2>3, <2>4, <2>5, RegistryAssumption DEF TableInv, DraftInv
<1>4. QED BY <1>1, <1>2, <1>3 DEF TableInv

-----------------------------------------------------------------------------
(***************************************************************************)
(* The tasks: which statement each has in flight, step by step.            *)
(***************************************************************************)
TasksOK ==
    /\ ServiceTypeOK
    /\ BotTypeOK
    /\ timer \in {"sleep", "free"}
    /\ failures \in Nat
    /\ StmtInv

Core == TableInv /\ TasksOK

\* The three kinds of task share no transaction.
LEMMA TasksApart ==
    /\ \A r \in Requests : r \in Tx /\ r \notin Callbacks /\ r # Timer
    /\ \A c \in Callbacks : c \in Tx /\ c \notin Requests /\ c # Timer
    /\ Timer \in Tx
BY RegistryAssumption DEF Tx

\* The clock and every input are integers.
LEMMA DurationType ==
    ASSUME NEW days \in Days, NEW hours \in Hours
    PROVE  lease_duration(days, hours) \in Int
BY HostsServiceAssumption DEF lease_duration, Hour

\* A request that has no statement yet starts its UPDATE.
LEMMA UpdateKeepsCore ==
    ASSUME Core, NEW r \in Requests, pc[r] \in {"new", "pick"},
           NEW s \in Stmt, s.user \in Users,
           s.kind \in {"lease_hosts", "free_hosts_for_user", "free_all"},
           Update(r, s), asking' = [asking EXCEPT ![r] = Null],
           UNCHANGED <<botVars, timer, failures>>
    PROVE  Core'
<1>1. r \in Tx /\ r # Timer /\ r \notin Callbacks /\ stmt[r] = NoStmt
  BY TasksApart DEF Core, TasksOK, StmtInv
<1>2. TableInv'
  BY <1>1, StartStmtKeepsTable DEF Core, Update
<1>3. /\ \A v \in Tx : v # r => stmt'[v] = stmt[v]
      /\ stmt'[r].kind = s.kind /\ stmt'[r].user = s.user
  BY <1>1 DEF Update, StartStmt, Core, TableInv, RegistryTypeOK, Stmt
<1>4. /\ pc' = [pc EXCEPT ![r] = "update"]
      /\ pc \in [Requests -> {"new", "pick", "update", "ok", "refused", "error"}]
      /\ asking \in [Requests -> Users \cup {Null}]
  BY DEF Update, Core, TasksOK, ServiceTypeOK
<1>5. ServiceTypeOK' /\ BotTypeOK' /\ timer' \in {"sleep", "free"} /\ failures' \in Nat
  BY <1>4 DEF Core, TasksOK, ServiceTypeOK, BotTypeOK, botVars
<1>6. StmtInv'
  <2>1. \A t \in Tx : stmt'[t].kind = "none" => stmt'[t] = NoStmt
    BY <1>1, <1>3 DEF Core, TasksOK, StmtInv
  <2>2. ASSUME NEW q \in Requests
        PROVE  /\ stmt'[q].kind \in {"none", "lease_hosts", "free_hosts_for_user", "free_all"}
               /\ stmt'[q].kind # "none" <=> pc'[q] = "update"
               /\ stmt'[q].kind # "none" => stmt'[q].user \in Users
               /\ pc'[q] = "pick" <=> asking'[q] # Null
    <3>1. CASE q = r
      BY <3>1, <1>3, <1>4
    <3>2. CASE q # r
      BY <3>2, <1>3, <1>4, TasksApart DEF Core, TasksOK, StmtInv
    <3>3. QED BY <3>1, <3>2
  <2>3. ASSUME NEW c \in Callbacks
        PROVE  stmt'[c] = stmt[c] /\ cb'[c] = cb[c] /\ extending'[c] = extending[c]
    BY <1>1, <1>3, TasksApart DEF botVars
  <2>4. stmt'[Timer] = stmt[Timer] /\ timer' = timer
    BY <1>1, <1>3, TasksApart
  <2>5. QED BY <2>1, <2>2, <2>3, <2>4 DEF Core, TasksOK, StmtInv
<1>7. QED BY <1>2, <1>5, <1>6 DEF Core, TasksOK

\* A request ends without a statement, or goes on to its second SELECT.
LEMMA NoUpdateKeepsCore ==
    ASSUME Core, NEW r \in Requests, pc[r] \in {"new", "pick"},
           NEW p \in {"pick", "refused"}, NEW u \in Users \cup {Null},
           p = "pick" <=> u # Null,
           pc' = [pc EXCEPT ![r] = p], asking' = [asking EXCEPT ![r] = u],
           UNCHANGED <<registryVars, botVars, timer, failures>>
    PROVE  Core'
<1>1. TableInv'
  BY DEF Core, TableInv, registryVars, RegistryTypeOK, LeaseConsistency, DraftInv
<1>2. ServiceTypeOK' /\ BotTypeOK' /\ timer' \in {"sleep", "free"} /\ failures' \in Nat
  BY DEF Core, TasksOK, ServiceTypeOK, BotTypeOK, botVars
<1>3. stmt' = stmt /\ cb' = cb /\ extending' = extending /\ timer' = timer
  BY DEF registryVars, botVars
<1>4. ASSUME NEW q \in Requests
      PROVE  /\ stmt'[q].kind # "none" <=> pc'[q] = "update"
             /\ pc'[q] = "pick" <=> asking'[q] # Null
  <2>1. CASE q = r
    BY <1>3, <2>1 DEF Core, TasksOK, StmtInv, ServiceTypeOK
  <2>2. CASE q # r
    BY <1>3, <2>2 DEF Core, TasksOK, StmtInv, ServiceTypeOK
  <2>3. QED BY <2>1, <2>2
<1>5. StmtInv'
  BY <1>3, <1>4 DEF Core, TasksOK, StmtInv
<1>6. QED BY <1>1, <1>2, <1>5 DEF Core, TasksOK

\* A task writes one row: no task moves.
LEMMA RowKeepsCore ==
    ASSUME Core, NEW t \in Tx, WriteRow(t),
           UNCHANGED <<serviceVars, botVars, timer, failures>>
    PROVE  Core'
<1>1. stmt[t].kind # "none"
  BY DEF WriteRow, NoStmt, Core, TasksOK, StmtInv
<1>2. stmt[t].kind = "lease_hosts" => stmt[t].user \in Users
  BY <1>1 DEF Core, TasksOK, StmtInv, Tx
<1>3. TableInv'
  BY <1>1, <1>2, WriteRowKeepsTable DEF Core
<1>4. /\ \A v \in Tx : v # t => stmt'[v] = stmt[v]
      /\ stmt'[t].kind = stmt[t].kind
      /\ stmt'[t].user = stmt[t].user
      /\ stmt'[t].arg = stmt[t].arg
  BY DEF WriteRow, Core, TableInv, RegistryTypeOK, Stmt
<1>5. ServiceTypeOK' /\ BotTypeOK' /\ timer' \in {"sleep", "free"} /\ failures' \in Nat
  BY DEF Core, TasksOK, ServiceTypeOK, BotTypeOK, serviceVars, botVars
<1>6. StmtInv'
  BY <1>1, <1>4, TasksApart DEF Core, TasksOK, StmtInv, serviceVars, botVars
<1>7. QED BY <1>3, <1>5, <1>6 DEF Core, TasksOK

\* A request commits or is rolled back.
LEMMA EndKeepsCore ==
    ASSUME Core, NEW r \in Requests, Commit(r) \/ Rollback(r),
           NEW p \in {"ok", "error"}, pc' = [pc EXCEPT ![r] = p],
           asking' = [asking EXCEPT ![r] = Null],
           UNCHANGED <<botVars, timer>>, failures' \in Nat
    PROVE  Core'
<1>1. r \in Tx /\ r # Timer /\ r \notin Callbacks
  BY TasksApart
<1>2. TableInv'
  BY <1>1, CommitKeepsTable, RollbackKeepsTable DEF Core
<1>3. /\ \A v \in Tx : v # r => stmt'[v] = stmt[v]
      /\ stmt'[r] = NoStmt
  BY <1>1 DEF Commit, Rollback, Core, TableInv, RegistryTypeOK
<1>4. ServiceTypeOK' /\ BotTypeOK' /\ timer' \in {"sleep", "free"}
  BY DEF Core, TasksOK, ServiceTypeOK, BotTypeOK, botVars
<1>5. ASSUME NEW q \in Requests
      PROVE  /\ stmt'[q].kind \in {"none", "lease_hosts", "free_hosts_for_user", "free_all"}
             /\ stmt'[q].kind # "none" <=> pc'[q] = "update"
             /\ stmt'[q].kind # "none" => stmt'[q].user \in Users
             /\ pc'[q] = "pick" <=> asking'[q] # Null
  <2>1. CASE q = r
    BY <1>3, <2>1 DEF NoStmt, Core, TasksOK, ServiceTypeOK
  <2>2. CASE q # r
    BY <1>3, <2>2, TasksApart DEF Core, TasksOK, StmtInv, ServiceTypeOK
  <2>3. QED BY <2>1, <2>2
<1>6. StmtInv'
  BY <1>1, <1>3, <1>5, TasksApart DEF Core, TasksOK, StmtInv, botVars
<1>7. QED BY <1>2, <1>4, <1>6 DEF Core, TasksOK

\* Every step of a request.
LEMMA RequestKeepsCore ==
    ASSUME Core, NEW r \in Requests,
           \/ StartRequest(r) \/ PickHost(r) \/ RequestRow(r) \/ RequestCommit(r)
           \/ abort(r) /\ UNCHANGED <<botVars, timer>> /\ failures' \in Nat
    PROVE  Core'
<1> USE TasksApart
<1>1. /\ now \in Int
      /\ pc \in [Requests -> {"new", "pick", "update", "ok", "refused", "error"}]
      /\ asking \in [Requests -> Users \cup {Null}]
      /\ pc[r] # "pick" => asking = [asking EXCEPT ![r] = Null]
  BY DEF Core, TableInv, RegistryTypeOK, TasksOK, ServiceTypeOK, StmtInv
<1>2. ASSUME Refuse(r), pc[r] = "new", UNCHANGED <<botVars, timer, failures>>
      PROVE  Core'
  BY <1>1, <1>2, NoUpdateKeepsCore DEF Refuse
<1>3. CASE StartRequest(r)
  <2>1. UNCHANGED <<botVars, timer, failures>> /\ Arrive(r)
    BY <1>3 DEF StartRequest
  <2>2. ASSUME NEW u \in Users, NEW ids \in SUBSET HostIds, NEW days \in Days,
               NEW hours \in Hours, lease(r, u, ids, lease_duration(days, hours))
        PROVE  Core'
    <3>1. CASE Refuse(r)
      BY <3>1, <2>1, <2>2, <1>2 DEF lease
    <3>2. CASE /\ Update(r, lease_hosts(u, ids, now + lease_duration(days, hours)))
               /\ UNCHANGED asking
      <4>1. lease_hosts(u, ids, now + lease_duration(days, hours)) \in Stmt
        BY <1>1, DurationType DEF lease_hosts, Stmt, Kinds
      <4>2. pc[r] = "new"
        BY <2>2 DEF lease
      <4>3. QED BY <3>2, <4>1, <4>2, <1>1, <2>1, UpdateKeepsCore DEF lease_hosts
    <3>3. QED BY <3>1, <3>2, <2>2 DEF lease
  <2>3. ASSUME NEW u \in Users, lease_random(r, u)
        PROVE  Core'
    <3>1. CASE Refuse(r)
      BY <3>1, <2>1, <2>3, <1>2 DEF lease_random
    <3>2. CASE /\ pc' = [pc EXCEPT ![r] = "pick"]
               /\ asking' = [asking EXCEPT ![r] = u]
               /\ UNCHANGED registryVars
      <4>1. u # Null /\ pc[r] = "new"
        BY <2>3, RegistryAssumption DEF lease_random
      <4>2. QED BY <3>2, <4>1, <2>1, NoUpdateKeepsCore
    <3>3. QED BY <3>1, <3>2, <2>3 DEF lease_random
  <2>4. ASSUME NEW days \in Days, NEW hours \in Hours, bad_duration(r, days, hours)
        PROVE  Core'
    BY <2>4, <2>1, <1>2 DEF bad_duration
  <2>5. ASSUME NEW u \in Users, NEW ids \in SUBSET HostIds, free(r, u, ids)
        PROVE  Core'
    <3>1. free_hosts_for_user(ids, u) \in Stmt
      BY DEF free_hosts_for_user, Stmt, Kinds
    <3>2. QED BY <3>1, <2>5, <1>1, <2>1, UpdateKeepsCore DEF free, free_hosts_for_user
  <2>6. ASSUME NEW u \in Users, free_all_hosts(r, u)
        PROVE  Core'
    <3>1. free_all(u) \in Stmt
      BY DEF free_all, Stmt, Kinds
    <3>2. QED BY <3>1, <2>6, <1>1, <2>1, UpdateKeepsCore DEF free_all_hosts, free_all
  <2>7. QED BY <2>1, <2>2, <2>3, <2>4, <2>5, <2>6 DEF Arrive
<1>4. CASE PickHost(r)
  <2>1. PICK g \in Groups, days \in Days, hours \in Hours :
           lease_random_pick(r, g, lease_duration(days, hours))
    BY <1>4 DEF PickHost, Pick
  <2>2. UNCHANGED <<botVars, timer, failures>> /\ pc[r] = "pick" /\ asking[r] \in Users
    BY <1>4, <2>1, <1>1 DEF PickHost, lease_random_pick, Core, TasksOK, StmtInv
  <2>3. CASE pc' = [pc EXCEPT ![r] = "refused"] /\ UNCHANGED registryVars
    BY <2>1, <2>2, <2>3, NoUpdateKeepsCore DEF lease_random_pick
  <2>4. ASSUME NEW h \in Hosts,
               Update(r, lease_hosts(asking[r], {h}, now + lease_duration(days, hours)))
        PROVE  Core'
    <3>1. lease_hosts(asking[r], {h}, now + lease_duration(days, hours)) \in Stmt
      BY <1>1, <2>2, DurationType DEF lease_hosts, Stmt, Kinds
    <3>2. QED BY <3>1, <2>1, <2>2, <2>4, UpdateKeepsCore DEF lease_hosts, lease_random_pick
  <2>5. QED
    BY <2>1, <2>3, <2>4
    DEF lease_random_pick, get_first_available_group_host, get_available_hosts
<1>5. CASE RequestRow(r)
  BY <1>5, RowKeepsCore DEF RequestRow, write_row
<1>6. CASE RequestCommit(r)
  <2>1. PICK p \in {"ok", "error"} :
        /\ Commit(r) /\ pc[r] = "update" /\ pc' = [pc EXCEPT ![r] = p]
        /\ asking' = asking /\ UNCHANGED <<botVars, timer, failures>>
    BY <1>6 DEF RequestCommit, commit
  <2>2. failures' \in Nat
    BY <2>1 DEF Core, TasksOK
  <2>3. QED BY <2>1, <2>2, <1>1, EndKeepsCore
<1>7. CASE abort(r) /\ UNCHANGED <<botVars, timer>> /\ failures' \in Nat
  BY <1>7, EndKeepsCore DEF abort
<1>8. QED BY <1>3, <1>4, <1>5, <1>6, <1>7

\* Every step of a callback.
LEMMA CallbackKeepsCore ==
    ASSUME Core, NEW c \in Callbacks,
           \/ StartCallback(c) \/ CallbackUpdate(c) \/ CallbackRow(c) \/ CallbackCommit(c)
           \/ extend_fail(c) /\ UNCHANGED <<serviceVars, timer>> /\ failures' \in Nat
    PROVE  Core'
<1> USE TasksApart
<1> DEFINE Kept == ServiceTypeOK' /\ timer' \in {"sleep", "free"} /\ failures' \in Nat
<1>1. Kept
  BY DEF StartCallback, CallbackUpdate, CallbackRow, CallbackCommit, Core, TasksOK,
         ServiceTypeOK, serviceVars
<1>2. UNCHANGED <<serviceVars, timer>>
  BY DEF StartCallback, CallbackUpdate, CallbackRow, CallbackCommit
<1>3. CASE StartCallback(c)
  <2>1. registryVars' = registryVars
    BY <1>3 DEF StartCallback, Press, ignore_callback, extend_select
  <2>2. TableInv'
    BY <2>1 DEF Core, TableInv, registryVars, RegistryTypeOK, LeaseConsistency, DraftInv
  <2>3. BotTypeOK' /\ cb[c] = "new" /\ cb'[c] # "update"
        /\ (cb'[c] = "query" => extending'[c].hours > 0)
    BY <1>3, BotAssumption
    DEF StartCallback, Press, ignore_callback, extend_select, Core, TasksOK, BotTypeOK,
        get_expiring_hosts_for_user, get_leased_hosts
  <2>4. \A d \in Callbacks : d # c => cb'[d] = cb[d] /\ extending'[d] = extending[d]
    BY <1>3 DEF StartCallback, Press, ignore_callback, extend_select, Core, TasksOK, BotTypeOK
  <2>5. StmtInv'
    BY <2>1, <2>3, <2>4, <1>2 DEF Core, TasksOK, StmtInv, registryVars, serviceVars
  <2>6. QED BY <1>1, <2>2, <2>3, <2>5 DEF Core, TasksOK
<1>4. CASE CallbackUpdate(c)
  <2> DEFINE s == extend_hosts_lease(extending[c].ids, extending[c].hours)
  <2>1. /\ cb[c] = "query" /\ cb' = [cb EXCEPT ![c] = "update"]
        /\ extending' = [extending EXCEPT ![c] = NoExtension]
        /\ StartStmt(c, s)
    BY <1>4 DEF CallbackUpdate, extend_update
  <2>2. extending[c] \in [ids : SUBSET Hosts, hours : Int] /\ extending[c].hours > 0
    BY <2>1 DEF Core, TasksOK, BotTypeOK, StmtInv
  <2>3. s \in Stmt /\ s.kind = "extend_hosts_lease" /\ s.arg > 0
    BY <2>2 DEF extend_hosts_lease, Stmt, Kinds, Hour
  <2>4. stmt[c] = NoStmt
    BY <2>1 DEF Core, TasksOK, StmtInv
  <2>5. TableInv'
    BY <2>1, <2>3, <2>4, StartStmtKeepsTable DEF Core
  <2>6. /\ \A v \in Tx : v # c => stmt'[v] = stmt[v]
        /\ stmt'[c].kind = s.kind /\ stmt'[c].arg = s.arg
    BY <2>1, <2>3 DEF StartStmt, Core, TableInv, RegistryTypeOK, Stmt
  <2>7. BotTypeOK'
    BY <2>1 DEF Core, TasksOK, BotTypeOK, NoExtension
  <2>8. \A d \in Callbacks : d # c => cb'[d] = cb[d] /\ extending'[d] = extending[d]
    BY <2>1 DEF Core, TasksOK, BotTypeOK
  <2>9. cb'[c] = "update"
    BY <2>1 DEF Core, TasksOK, BotTypeOK
  <2>10. StmtInv'
    <3>1. \A t \in Tx : stmt'[t].kind = "none" => stmt'[t] = NoStmt
      BY <2>3, <2>6 DEF Core, TasksOK, StmtInv
    <3>2. ASSUME NEW d \in Callbacks
          PROVE  /\ stmt'[d].kind \in {"none", "extend_hosts_lease"}
                 /\ stmt'[d].kind # "none" <=> cb'[d] = "update"
                 /\ stmt'[d].kind # "none" => stmt'[d].arg > 0
                 /\ cb'[d] = "query" => extending'[d].hours > 0
      BY <2>3, <2>6, <2>8, <2>9 DEF Core, TasksOK, StmtInv
    <3>3. \A r \in Requests : stmt'[r] = stmt[r] /\ pc'[r] = pc[r] /\ asking'[r] = asking[r]
      BY <2>6, <1>2 DEF serviceVars
    <3>4. stmt'[Timer] = stmt[Timer] /\ timer' = timer
      BY <2>6, <1>2
    <3>5. QED BY <3>1, <3>2, <3>3, <3>4 DEF Core, TasksOK, StmtInv
  <2>11. QED BY <1>1, <2>5, <2>7, <2>10 DEF Core, TasksOK
<1>5. CASE CallbackRow(c)
  BY <1>5, RowKeepsCore DEF CallbackRow, extend_row
<1>6. CASE CallbackCommit(c) \/ extend_fail(c)
  <2>1. PICK p \in {"ok", "error"} : cb' = [cb EXCEPT ![c] = p]
    BY <1>6 DEF CallbackCommit, extend_commit, extend_fail
  <2>2. Commit(c) \/ Rollback(c)
    BY <1>6 DEF CallbackCommit, extend_commit, extend_fail
  <2>3. TableInv'
    BY <2>2, CommitKeepsTable, RollbackKeepsTable DEF Core
  <2>4. /\ \A v \in Tx : v # c => stmt'[v] = stmt[v]
        /\ stmt'[c] = NoStmt
    BY <2>2 DEF Commit, Rollback, Core, TableInv, RegistryTypeOK
  <2>5. extending' \in {extending, [extending EXCEPT ![c] = NoExtension]}
    BY <1>6 DEF CallbackCommit, extend_commit, extend_fail
  <2>6. BotTypeOK'
    BY <2>1, <2>5 DEF Core, TasksOK, BotTypeOK, NoExtension
  <2>7. /\ \A d \in Callbacks : d # c => cb'[d] = cb[d] /\ extending'[d] = extending[d]
        /\ cb'[c] = p
    BY <2>1, <2>5 DEF Core, TasksOK, BotTypeOK
  <2>8. StmtInv'
    <3>1. \A t \in Tx : stmt'[t].kind = "none" => stmt'[t] = NoStmt
      BY <2>4 DEF Core, TasksOK, StmtInv
    <3>2. ASSUME NEW d \in Callbacks
          PROVE  /\ stmt'[d].kind \in {"none", "extend_hosts_lease"}
                 /\ stmt'[d].kind # "none" <=> cb'[d] = "update"
                 /\ stmt'[d].kind # "none" => stmt'[d].arg > 0
                 /\ cb'[d] = "query" => extending'[d].hours > 0
      BY <2>4, <2>7 DEF NoStmt, Core, TasksOK, StmtInv
    <3>3. \A r \in Requests : stmt'[r] = stmt[r] /\ pc'[r] = pc[r] /\ asking'[r] = asking[r]
      BY <2>4, <1>2 DEF serviceVars
    <3>4. stmt'[Timer] = stmt[Timer] /\ timer' = timer
      BY <2>4, <1>2
    <3>5. QED BY <3>1, <3>2, <3>3, <3>4 DEF Core, TasksOK, StmtInv
  <2>9. QED BY <1>1, <2>3, <2>6, <2>8 DEF Core, TasksOK
<1>7. QED BY <1>3, <1>4, <1>5, <1>6

\* Every step of the release timer.
LEMMA TimerKeepsCore ==
    ASSUME Core,
           \/ TimerSelect \/ TimerRow \/ TimerCommit
           \/ release_fail /\ UNCHANGED <<serviceVars, botVars>> /\ failures' \in Nat
    PROVE  Core'
<1> USE TasksApart
<1>1. ServiceTypeOK' /\ BotTypeOK' /\ failures' \in Nat
  BY DEF TimerSelect, TimerRow, TimerCommit, Core, TasksOK, ServiceTypeOK, BotTypeOK,
         serviceVars, botVars
<1>2. UNCHANGED <<serviceVars, botVars>>
  BY DEF TimerSelect, TimerRow, TimerCommit
<1>3. CASE TimerSelect
  <2> DEFINE s == free_hosts(get_leased_until_hosts(hosts, now))
  <2>1. timer = "sleep" /\ timer' = "free" /\ StartStmt(Timer, s)
    BY <1>3 DEF TimerSelect, release_select
  <2>2. s \in Stmt /\ s.kind = "free_hosts"
    BY DEF free_hosts, get_leased_until_hosts, Stmt, Kinds
  <2>3. stmt[Timer] = NoStmt
    BY <2>1 DEF Core, TasksOK, StmtInv
  <2>4. TableInv'
    BY <2>1, <2>2, <2>3, StartStmtKeepsTable DEF Core
  <2>5. /\ \A v \in Tx : v # Timer => stmt'[v] = stmt[v]
        /\ stmt'[Timer].kind = s.kind
    BY <2>1, <2>2 DEF StartStmt, Core, TableInv, RegistryTypeOK, Stmt
  <2>6. StmtInv'
    BY <2>1, <2>2, <2>5, <1>2 DEF Core, TasksOK, StmtInv, serviceVars, botVars
  <2>7. QED BY <1>1, <2>1, <2>4, <2>6 DEF Core, TasksOK
<1>4. CASE TimerRow
  BY <1>4, RowKeepsCore DEF TimerRow, release_row
<1>5. CASE TimerCommit \/ release_fail
  <2>1. (Commit(Timer) \/ Rollback(Timer)) /\ timer' = "sleep"
    BY <1>5 DEF TimerCommit, release_commit, release_fail
  <2>2. TableInv'
    BY <2>1, CommitKeepsTable, RollbackKeepsTable DEF Core
  <2>3. /\ \A v \in Tx : v # Timer => stmt'[v] = stmt[v]
        /\ stmt'[Timer] = NoStmt
    BY <2>1 DEF Commit, Rollback, Core, TableInv, RegistryTypeOK
  <2>4. StmtInv'
    <3>1. \A t \in Tx : stmt'[t].kind = "none" => stmt'[t] = NoStmt
      BY <2>3 DEF Core, TasksOK, StmtInv
    <3>2. \A r \in Requests : stmt'[r] = stmt[r] /\ pc'[r] = pc[r] /\ asking'[r] = asking[r]
      BY <2>3, <1>2 DEF serviceVars
    <3>3. \A c \in Callbacks : stmt'[c] = stmt[c] /\ cb'[c] = cb[c] /\ extending'[c] = extending[c]
      BY <2>3, <1>2 DEF botVars
    <3>4. stmt'[Timer].kind = "none" /\ timer' = "sleep"
      BY <2>1, <2>3 DEF NoStmt
    <3>5. QED BY <3>1, <3>2, <3>3, <3>4 DEF Core, TasksOK, StmtInv
  <2>5. QED BY <1>1, <2>1, <2>2, <2>4 DEF Core, TasksOK
<1>6. QED BY <1>3, <1>4, <1>5

\* Core holds at the start.
LEMMA CoreInit == Init => Core
<1> SUFFICES ASSUME Init PROVE Core
  OBVIOUS
<1>1. hosts \in [Hosts -> Row] /\ \A h \in Hosts : WellFormed(hosts[h])
  <2>1. ASSUME NEW row \in [user : Users, until : InitialTimes] \cup {FreeRow}
        PROVE  row \in Row /\ WellFormed(row)
    <3>1. CASE row = FreeRow
      BY <3>1 DEF FreeRow, Row, WellFormed
    <3>2. CASE row \in [user : Users, until : InitialTimes]
      <4>1. row.user # Null /\ row.until # Null
        BY <3>2, LeaseSystemAssumption, RegistryAssumption
      <4>2. row \in Row
        BY <3>2, LeaseSystemAssumption DEF Row
      <4>3. QED BY <4>1, <4>2 DEF WellFormed
    <3>3. QED BY <3>1, <3>2
  <2>2. QED BY <2>1 DEF Init
<1>2. NoStmt \in Stmt
  BY DEF NoStmt, Stmt
<1>3. TableInv
  BY <1>1, <1>2, RegistryAssumption
  DEF Init, TableInv, RegistryTypeOK, LeaseConsistency, DraftInv
<1>4. TasksOK
  BY TasksApart
  DEF Init, TasksOK, ServiceInit, BotInit, ServiceTypeOK, BotTypeOK, NoExtension, StmtInv, NoStmt
<1>5. QED BY <1>3, <1>4 DEF Core

\* Core is kept by every step.
LEMMA CoreNext == Core /\ [Next]_vars => Core'
<1> SUFFICES ASSUME Core, [Next]_vars PROVE Core'
  OBVIOUS
<1>1. failures \in Nat
  BY DEF Core, TasksOK
<1>2. CASE \E r \in Requests : \/ StartRequest(r) \/ PickHost(r) \/ RequestRow(r)
                               \/ RequestCommit(r) \/ RequestFails(r)
  BY <1>1, <1>2, RequestKeepsCore DEF RequestFails
<1>3. CASE \E c \in Callbacks : \/ StartCallback(c) \/ CallbackUpdate(c)
                                \/ CallbackRow(c) \/ CallbackCommit(c)
                                \/ CallbackFails(c)
  BY <1>1, <1>3, CallbackKeepsCore DEF CallbackFails
<1>4. CASE TimerSelect \/ TimerRow \/ TimerCommit \/ TimerFails
  BY <1>1, <1>4, TimerKeepsCore DEF TimerFails
<1>5. CASE DeadlockVictim
  BY <1>1, <1>5, RequestKeepsCore, CallbackKeepsCore, TimerKeepsCore DEF DeadlockVictim
<1>6. CASE Tick
  BY <1>6
  DEF Tick, Core, TableInv, TasksOK, RegistryTypeOK, LeaseConsistency, DraftInv,
      ServiceTypeOK, BotTypeOK, StmtInv, serviceVars, botVars
<1>7. CASE UNCHANGED vars
  BY <1>7
  DEF vars, registryVars, serviceVars, botVars, Core, TableInv, TasksOK, RegistryTypeOK,
      LeaseConsistency, DraftInv, ServiceTypeOK, BotTypeOK, StmtInv
<1>8. QED BY <1>2, <1>3, <1>4, <1>5, <1>6, <1>7 DEF Next

\* Owner and end of lease stay together in every committed row and draft.
THEOREM LeasesConsistent == Spec => []LeaseConsistency
<1>1. Core => LeaseConsistency
  BY DEF Core, TableInv
<1>2. QED BY <1>1, CoreInit, CoreNext, PTL DEF Spec

-----------------------------------------------------------------------------
(***************************************************************************)
(* Waiting for rows.                                                       *)
(***************************************************************************)
\* Among finitely many transactions that all wait for each other there is a
\* deadlock: a smallest set of them in which each waits for another one has no
\* transaction that is not waited for, since it could do without it.
LEMMA WaitsMakeDeadlock ==
    ASSUME NEW B \in SUBSET Tx, IsFiniteSet(B), B # {},
           \A v \in B : \E w \in B : WaitsFor(v, w)
    PROVE  \E t \in B : Deadlocked(t)
<1> DEFINE Closed(D) == D # {} /\ \A v \in D : \E w \in D : WaitsFor(v, w)
           T == {D \in SUBSET B : Closed(D)}
<1>1. PICK D \in T : \A E \in T : <<E, D>> \notin StrictSubsetOrdering(B)
  <2>1. T \subseteq FiniteSubsetsOf(B)
    BY FS_Subset DEF FiniteSubsetsOf
  <2>2. B \in T
    OBVIOUS
  <2>3. IsWellFoundedOn(StrictSubsetOrdering(B), FiniteSubsetsOf(B))
    BY FS_StrictSubsetOrderingWellFounded
  <2>4. T # {}
    BY <2>2
  <2>5. QED BY <2>1, <2>3, <2>4, WFMin
<1>2. D \in SUBSET B /\ Closed(D)
  BY <1>1
<1>3. ASSUME NEW v \in D PROVE \E w \in D : WaitsFor(w, v)
  <2>1. SUFFICES ASSUME \A w \in D : ~WaitsFor(w, v) PROVE FALSE
    OBVIOUS
  <2>2. \A x \in D : \E w \in D \ {v} : WaitsFor(x, w)
    BY <1>2, <2>1
  <2>3. D \ {v} # {}
    BY <2>2
  <2>4. D \ {v} \in T
    BY <1>2, <2>2, <2>3
  <2>5. <<D \ {v}, D>> \in StrictSubsetOrdering(B)
    BY <1>2 DEF StrictSubsetOrdering
  <2>6. QED BY <1>1, <2>4, <2>5
<1>4. PICK t \in D : TRUE
  BY <1>2
<1>5. D \in SUBSET Tx
  BY <1>2
<1>6. Deadlocked(t)
  BY <1>2, <1>3, <1>4, <1>5 DEF Deadlocked
<1>7. QED BY <1>2, <1>6

\* The tasks with an UPDATE in flight are the transactions with a statement.
LEMMA UpdatingHaveStmt ==
    ASSUME Core
    PROVE  Updating = {t \in Tx : stmt[t].kind # "none"}
<1>1. ASSUME NEW t \in Tx PROVE t \in Updating <=> stmt[t].kind # "none"
  <2>1. CASE t \in Requests
    BY <2>1, TasksApart DEF Core, TasksOK, StmtInv, Updating
  <2>2. CASE t \in Callbacks
    BY <2>2, TasksApart DEF Core, TasksOK, StmtInv, Updating
  <2>3. CASE t = Timer
    BY <2>3, TasksApart DEF Core, TasksOK, StmtInv, Updating
  <2>4. QED BY <2>1, <2>2, <2>3 DEF Tx
<1>2. Updating \subseteq Tx
  BY TasksApart DEF Updating
<1>3. QED BY <1>1, <1>2

\* The type invariant is part of Core, the locks included: whoever has a row
\* locked has a statement, and so is at its UPDATE.
LEMMA CoreTypeOK == Core => TypeOK
<1> SUFFICES ASSUME Core PROVE TypeOK
  OBVIOUS
<1>1. Updating = {t \in Tx : stmt[t].kind # "none"}
  BY UpdatingHaveStmt
<1>2. \A h \in Hosts : rowLock[h] \in Updating \cup {Null}
  BY <1>1 DEF Core, TableInv, RegistryTypeOK, DraftInv
<1>3. QED BY <1>1, <1>2 DEF Core, TableInv, TasksOK, TypeOK

\* Every variable of the system keeps its type, and a transaction ends with the
\* task that has begun it: no interleaving of requests, callbacks, timer,
\* failures and deadlocks leaves a NULL where an end of lease is added to, or a
\* row locked by a task that has ended.
THEOREM TypeCorrect == Spec => []TypeOK
BY CoreTypeOK, CoreInit, CoreNext, PTL DEF Spec

\* The transactions that hold a row are finitely many, as rows are.
LEMMA HoldersFinite == IsFiniteSet({rowLock[h] : h \in Hosts})
<1> DEFINE R == {rowLock[h] : h \in Hosts}
           f == [h \in Hosts |-> rowLock[h]]
<1>1. f \in Surjection(Hosts, R)
  BY DEF Surjection
<1>2. QED BY <1>1, FS_Surjection, RegistryAssumption

\* Some task can go on, or the detector ends one, for any number of concurrent
\* requests, callbacks and hosts.
THEOREM SomebodyAlwaysGoesOn == Spec => []SomebodyGoesOn
<1>1. Core => SomebodyGoesOn
  <2> SUFFICES ASSUME Core, Updating # {},
                      \A t \in Updating : /\ stmt[t].todo # {}
                                          /\ \A h \in stmt[t].todo : rowLock[h] # Null
               PROVE  \E t \in Updating : Deadlocked(t)
    BY DEF SomebodyGoesOn
  <2> DEFINE B == {rowLock[h] : h \in Hosts} \cap Updating
  <2>1. Updating \in SUBSET Tx
    BY UpdatingHaveStmt
  <2>2. ASSUME NEW t \in Updating PROVE \E w \in B : WaitsFor(t, w)
    <3>1. PICK h \in stmt[t].todo : TRUE
      OBVIOUS
    <3>2. h \in Hosts /\ rowLock[h] \in Tx
      BY <2>1, <3>1 DEF Core, TableInv, RegistryTypeOK, Stmt
    <3>3. stmt[rowLock[h]].kind # "none"
      BY <3>2 DEF Core, TableInv, DraftInv
    <3>4. rowLock[h] \in B
      BY <3>2, <3>3, UpdatingHaveStmt
    <3>5. QED BY <3>1, <3>4 DEF WaitsFor
  <2>3. B # {}
    BY <2>2
  <2>4. IsFiniteSet(B)
    BY HoldersFinite, FS_Subset
  <2>5. B \in SUBSET Tx /\ B \subseteq Updating
    BY <2>1
  <2>6. \E t \in B : Deadlocked(t)
    BY <2>2, <2>3, <2>4, <2>5, WaitsMakeDeadlock
  <2>7. QED BY <2>5, <2>6
<1>2. QED BY <1>1, CoreInit, CoreNext, PTL DEF Spec

-----------------------------------------------------------------------------
(***************************************************************************)
(* The limit of a serial user.                                             *)
(***************************************************************************)
\* A set of hosts has at most the cardinality of a set that contains it.
LEMMA HostsCard ==
    ASSUME NEW S \in SUBSET Hosts
    PROVE  /\ IsFiniteSet(S)
           /\ Cardinality(S) \in Nat
           /\ \A T \in SUBSET S : IsFiniteSet(T) /\ Cardinality(T) <= Cardinality(S)
<1>1. IsFiniteSet(S)
  BY FS_Subset, RegistryAssumption
<1>2. Cardinality(S) \in Nat
  BY <1>1, FS_CardinalityType
<1>3. ASSUME NEW T \in SUBSET S PROVE IsFiniteSet(T) /\ Cardinality(T) <= Cardinality(S)
  BY <1>1, FS_Subset
<1>4. QED BY <1>1, <1>2, <1>3

\* A commit gives a user no hosts but those their own lease has locked.
LEMMA CommitOwned ==
    ASSUME Core, NEW t \in Tx, Commit(t), NEW u \in Users
    PROVE  /\ get_leased_hosts(hosts', u) \subseteq get_leased_hosts(hosts, u) \cup LockedBy(t)
           /\ ~(stmt[t].kind = "lease_hosts" /\ stmt[t].user = u) =>
                 get_leased_hosts(hosts', u) \subseteq get_leased_hosts(hosts, u)
<1>1. SUFFICES ASSUME NEW h \in Hosts, hosts'[h].user = u, hosts[h].user # u
               PROVE  /\ rowLock[h] = t
                      /\ stmt[t].kind = "lease_hosts" /\ stmt[t].user = u
  BY DEF get_leased_hosts, LockedBy
<1>2. rowLock[h] = t /\ hosts'[h] = draft[h]
  BY <1>1 DEF Commit
<1>3. hosts'[h] = Applied(stmt[t], hosts[h]) /\ stmt[t] \in Stmt /\ hosts[h] \in Row
  BY <1>2 DEF Core, TableInv, DraftInv, RegistryTypeOK
<1>4. Matches(stmt[t], hosts[h]) /\ hosts'[h] = Assigned(stmt[t], hosts[h])
  BY <1>1, <1>3 DEF Applied
<1>5. CASE stmt[t].kind = "lease_hosts"
  BY <1>1, <1>2, <1>4, <1>5 DEF Assigned
<1>6. CASE stmt[t].kind = "extend_hosts_lease"
  <2>1. hosts'[h] = [hosts[h] EXCEPT !.until = @ + stmt[t].arg]
    BY <1>4, <1>6 DEF Assigned
  <2>2. hosts'[h].user = hosts[h].user
    BY <2>1, <1>3 DEF Row
  <2>3. QED BY <2>2, <1>1
<1>7. CASE stmt[t].kind \notin {"lease_hosts", "extend_hosts_lease"}
  <2>1. hosts'[h] = FreeRow
    BY <1>4, <1>7 DEF Assigned
  <2>2. QED BY <2>1, <1>1, RegistryAssumption DEF FreeRow
<1>8. QED BY <1>5, <1>6, <1>7

\* The room of user u survives a step that gives u no host and no request
\* more rows to lease for u.
LEMMA ShrinkKeepsRoom ==
    ASSUME Core, NEW u \in SerialUsers, RoomFor(u),
           get_leased_hosts(hosts', u) \subseteq get_leased_hosts(hosts, u),
           \A r \in Requests :
              /\ pc'[r] = "pick" /\ asking'[r] = u => pc[r] = "pick" /\ asking[r] = u
              /\ stmt'[r].kind = "lease_hosts" /\ stmt'[r].user = u =>
                    /\ stmt[r].kind = "lease_hosts" /\ stmt[r].user = u
                    /\ Targets(r)' \subseteq Targets(r)
    PROVE  RoomFor(u)'
<1> DEFINE leased == get_leased_hosts(hosts, u)
           leasedNext == get_leased_hosts(hosts', u)
           limit == get_lease_limit(u)
<1>1. limit \in Nat
  BY HostsServiceAssumption
<1>2. /\ leased \in SUBSET Hosts /\ leasedNext \in SUBSET leased
      /\ Cardinality(leased) \in Nat /\ Cardinality(leasedNext) \in Nat
      /\ Cardinality(leasedNext) <= Cardinality(leased)
  <2>1. leased \in SUBSET Hosts /\ leasedNext \in SUBSET leased
    BY DEF get_leased_hosts
  <2>2. QED BY <2>1, HostsCard
<1>3. \A r \in Requests : Targets(r) \in SUBSET Hosts
  BY TasksApart DEF Targets, LockedBy, Core, TableInv, RegistryTypeOK, Stmt
<1>4. \A r \in Requests : LeasingFor(r, u)' => LeasingFor(r, u)
  BY DEF LeasingFor
<1>5. \A r, q \in Requests : LeasingFor(r, u)' /\ LeasingFor(q, u)' => r = q
  BY <1>4 DEF RoomFor
<1>6. Cardinality(leasedNext) <= limit
  BY <1>1, <1>2 DEF RoomFor
<1>7. ASSUME NEW r \in Requests, pc'[r] = "pick", asking'[r] = u
      PROVE  Cardinality(leasedNext) + 1 <= limit
  <2>1. Cardinality(leased) + 1 <= limit
    BY <1>7 DEF RoomFor
  <2>2. QED BY <2>1, <1>1, <1>2
<1>8. ASSUME NEW r \in Requests, stmt'[r].kind = "lease_hosts", stmt'[r].user = u
      PROVE  /\ Targets(r)' \cap leasedNext = {}
             /\ Cardinality(leasedNext \cup Targets(r)') <= limit
  <2>1. stmt[r].kind = "lease_hosts" /\ stmt[r].user = u /\ Targets(r)' \subseteq Targets(r)
    BY <1>8
  <2>2. Targets(r) \cap leased = {} /\ Cardinality(leased \cup Targets(r)) <= limit
    BY <2>1 DEF RoomFor
  <2>3. /\ leased \cup Targets(r) \in SUBSET Hosts
        /\ leasedNext \cup Targets(r)' \in SUBSET (leased \cup Targets(r))
    BY <2>1, <1>2, <1>3
  <2>4. /\ Cardinality(leasedNext \cup Targets(r)') <= Cardinality(leased \cup Targets(r))
        /\ Cardinality(leased \cup Targets(r)) \in Nat
        /\ Cardinality(leasedNext \cup Targets(r)') \in Nat
    BY <2>3, HostsCard
  <2>5. QED BY <2>1, <2>2, <2>4, <1>1, <1>2
<1>9. QED BY <1>5, <1>6, <1>7, <1>8 DEF RoomFor

\* It survives the step in which request r, and no other, starts to lease for
\* u, if the checks r has made leave room for what it will lease.
LEMMA EnterKeepsRoom ==
    ASSUME Core, NEW u \in SerialUsers, RoomFor(u), hosts' = hosts, rowLock' = rowLock,
           NEW r \in Requests,
           \A q \in Requests : q # r => /\ pc'[q] = pc[q] /\ asking'[q] = asking[q]
                                        /\ stmt'[q] = stmt[q]
                                        /\ ~LeasingFor(q, u),
           pc'[r] = "pick" /\ asking'[r] = u =>
              Cardinality(get_leased_hosts(hosts, u)) + 1 <= get_lease_limit(u),
           stmt'[r].kind = "lease_hosts" /\ stmt'[r].user = u =>
              /\ Targets(r)' \cap get_leased_hosts(hosts, u) = {}
              /\ Cardinality(get_leased_hosts(hosts, u) \cup Targets(r)') <= get_lease_limit(u)
    PROVE  RoomFor(u)'
<1>1. \A q \in Requests : q # r => ~LeasingFor(q, u)'
  BY DEF LeasingFor
<1>2. \A q, p \in Requests : LeasingFor(q, u)' /\ LeasingFor(p, u)' => q = p
  BY <1>1
<1>3. Cardinality(get_leased_hosts(hosts', u)) <= get_lease_limit(u)
  BY DEF RoomFor
<1>4. ASSUME NEW q \in Requests
      PROVE  /\ pc'[q] = "pick" /\ asking'[q] = u =>
                  Cardinality(get_leased_hosts(hosts', u)) + 1 <= get_lease_limit(u)
             /\ stmt'[q].kind = "lease_hosts" /\ stmt'[q].user = u =>
                  /\ Targets(q)' \cap get_leased_hosts(hosts', u) = {}
                  /\ Cardinality(get_leased_hosts(hosts', u) \cup Targets(q)')
                        <= get_lease_limit(u)
  <2>1. CASE q = r
    BY <2>1
  <2>2. CASE q # r
    BY <2>2, <1>1 DEF LeasingFor
  <2>3. QED BY <2>1, <2>2
<1>5. QED BY <1>2, <1>3, <1>4 DEF RoomFor

\* It survives a commit: a lease for u adds to u's hosts what it had room for,
\* and every other commit takes hosts from u or leaves them.
LEMMA CommitKeepsRoom ==
    ASSUME Core, NEW u \in SerialUsers, RoomFor(u), NEW t \in Tx, Commit(t),
           \A q \in Requests : pc'[q] = "pick" => /\ pc[q] = "pick"
                                                  /\ asking'[q] = asking[q]
    PROVE  RoomFor(u)'
<1>1. u \in Users /\ get_lease_limit(u) \in Nat
  BY HostsServiceAssumption
<1>2. /\ \A q \in Tx : q # t => stmt'[q] = stmt[q]
      /\ stmt'[t] = NoStmt
  BY DEF Commit, Core, TableInv, RegistryTypeOK
<1>3. \A q \in Requests : q # t => Targets(q)' \subseteq Targets(q)
  <2> SUFFICES ASSUME NEW q \in Requests, q # t, NEW h \in Targets(q)'
               PROVE  h \in Targets(q)
    OBVIOUS
  <2>1. stmt'[q] = stmt[q] /\ q # Null
    BY <1>2, TasksApart, RegistryAssumption
  <2>2. \A g \in Hosts : rowLock'[g] = q => rowLock[g] = q
    BY <2>1 DEF Commit, Unlocked
  <2>3. QED BY <2>1, <2>2 DEF Targets, LockedBy
<1>4. \A q \in Requests : stmt'[q].kind = "lease_hosts" =>
         q # t /\ stmt'[q] = stmt[q] /\ Targets(q)' \subseteq Targets(q)
  BY <1>2, <1>3, TasksApart DEF NoStmt
<1>5. CASE ~(stmt[t].kind = "lease_hosts" /\ stmt[t].user = u)
  <2>1. get_leased_hosts(hosts', u) \subseteq get_leased_hosts(hosts, u)
    BY <1>1, <1>5, CommitOwned
  <2>2. QED BY <2>1, <1>4, ShrinkKeepsRoom
<1>6. CASE stmt[t].kind = "lease_hosts" /\ stmt[t].user = u
  <2>1. t \in Requests
    BY <1>6, TasksApart DEF Core, TasksOK, StmtInv, Tx
  <2>2. /\ Cardinality(get_leased_hosts(hosts, u) \cup LockedBy(t)) <= get_lease_limit(u)
        /\ LeasingFor(t, u)
    <3>1. Targets(t) = LockedBy(t)
      BY DEF Targets, Commit
    <3>2. QED BY <1>6, <2>1, <3>1 DEF RoomFor, LeasingFor
  <2>3. Cardinality(get_leased_hosts(hosts', u)) <= get_lease_limit(u)
    <3>1. /\ get_leased_hosts(hosts, u) \cup LockedBy(t) \in SUBSET Hosts
          /\ get_leased_hosts(hosts', u) \in SUBSET (get_leased_hosts(hosts, u) \cup LockedBy(t))
      BY <1>1, CommitOwned DEF get_leased_hosts, LockedBy
    <3>2. /\ Cardinality(get_leased_hosts(hosts', u))
               <= Cardinality(get_leased_hosts(hosts, u) \cup LockedBy(t))
          /\ Cardinality(get_leased_hosts(hosts, u) \cup LockedBy(t)) \in Nat
          /\ Cardinality(get_leased_hosts(hosts', u)) \in Nat
      BY <3>1, HostsCard
    <3>3. QED BY <2>2, <3>2, <1>1
  <2>4. \A q \in Requests : ~LeasingFor(q, u)'
    <3>1. ASSUME NEW q \in Requests, q # t PROVE ~LeasingFor(q, u)'
      <4>1. ~LeasingFor(q, u)
        BY <2>1, <2>2, <3>1 DEF RoomFor
      <4>2. stmt'[q] = stmt[q]
        BY <1>2, <3>1, TasksApart
      <4>3. QED BY <4>1, <4>2 DEF LeasingFor
    <3>2. ~LeasingFor(t, u)'
      <4>1. pc[t] = "update"
        BY <1>6, <2>1 DEF Core, TasksOK, StmtInv
      <4>2. QED BY <4>1, <1>2, <2>1 DEF LeasingFor, NoStmt
    <3>3. QED BY <3>1, <3>2
  <2>5. QED BY <2>3, <2>4 DEF RoomFor, LeasingFor
<1>7. QED BY <1>5, <1>6

\* It survives the writing of a row: the row moves from the candidates of the
\* statement to the rows it has locked.
LEMMA RowKeepsRoom ==
    ASSUME Core, NEW u \in SerialUsers, RoomFor(u), NEW t \in Tx, WriteRow(t),
           pc' = pc, asking' = asking
    PROVE  RoomFor(u)'
<1>1. PICK h \in stmt[t].todo : /\ rowLock' = [rowLock EXCEPT ![h] = t]
                                /\ stmt' = [stmt EXCEPT ![t].todo = @ \ {h}]
                                /\ rowLock[h] = Null /\ hosts' = hosts
  BY DEF WriteRow
<1>2. /\ stmt \in [Tx -> Stmt] /\ rowLock \in [Hosts -> Tx \cup {Null}]
      /\ stmt[t] \in Stmt /\ h \in Hosts
  BY DEF Core, TableInv, RegistryTypeOK, Stmt
<1>3. ASSUME NEW q \in Requests
      PROVE  /\ stmt'[q].kind = stmt[q].kind /\ stmt'[q].user = stmt[q].user
             /\ Targets(q)' \subseteq Targets(q)
  <2>1. stmt'[q].kind = stmt[q].kind /\ stmt'[q].user = stmt[q].user
    BY <1>1, <1>2, TasksApart DEF Stmt
  <2>2. CASE q = t
    <3>1. stmt'[q].todo = stmt[q].todo \ {h}
      BY <1>1, <1>2, <2>2 DEF Stmt
    <3>2. LockedBy(q)' \subseteq LockedBy(q) \cup {h}
      BY <1>1, <1>2, <2>2 DEF LockedBy
    <3>3. QED BY <2>1, <2>2, <3>1, <3>2 DEF Targets
  <2>3. CASE q # t
    <3>1. stmt'[q] = stmt[q]
      BY <1>1, <1>2, <2>3, TasksApart
    <3>2. LockedBy(q)' \subseteq LockedBy(q)
      BY <1>1, <1>2, <2>3 DEF LockedBy
    <3>3. QED BY <2>1, <3>1, <3>2 DEF Targets
  <2>4. QED BY <2>2, <2>3
<1>4. get_leased_hosts(hosts', u) = get_leased_hosts(hosts, u)
  BY <1>1
<1>5. QED BY <1>3, <1>4, ShrinkKeepsRoom

\* It survives a rollback, which gives nobody anything.
LEMMA RollbackKeepsRoom ==
    ASSUME Core, NEW u \in SerialUsers, RoomFor(u), NEW t \in Tx, Rollback(t),
           \A q \in Requests : pc'[q] = "pick" => /\ pc[q] = "pick"
                                                  /\ asking'[q] = asking[q]
    PROVE  RoomFor(u)'
<1>1. /\ \A q \in Tx : q # t => stmt'[q] = stmt[q]
      /\ stmt'[t] = NoStmt /\ hosts' = hosts
  BY DEF Rollback, Core, TableInv, RegistryTypeOK
<1>2. ASSUME NEW q \in Requests, stmt'[q].kind = "lease_hosts"
      PROVE  stmt'[q] = stmt[q] /\ Targets(q)' \subseteq Targets(q)
  <2>1. q # t /\ q # Null
    BY <1>1, <1>2, TasksApart, RegistryAssumption DEF NoStmt
  <2>2. stmt'[q] = stmt[q]
    BY <1>1, <2>1, TasksApart
  <2>3. LockedBy(q)' \subseteq LockedBy(q)
    BY <2>1 DEF LockedBy, Rollback, Unlocked
  <2>4. QED BY <2>2, <2>3 DEF Targets
<1>3. get_leased_hosts(hosts', u) = get_leased_hosts(hosts, u)
  BY <1>1
<1>4. QED BY <1>2, <1>3, ShrinkKeepsRoom

\* The room of every serial user survives every step of a request.
LEMMA RequestKeepsRoom ==
    ASSUME Core, NEW u \in SerialUsers, RoomFor(u), NEW r \in Requests,
           \/ StartRequest(r) \/ PickHost(r) \/ RequestRow(r) \/ RequestCommit(r)
           \/ abort(r)
    PROVE  RoomFor(u)'
<1> USE TasksApart
<1>1. /\ pc \in [Requests -> {"new", "pick", "update", "ok", "refused", "error"}]
      /\ asking \in [Requests -> Users \cup {Null}]
      /\ stmt \in [Tx -> Stmt]
      /\ u \in Users /\ get_lease_limit(u) \in Nat
  BY HostsServiceAssumption DEF Core, TableInv, RegistryTypeOK, TasksOK, ServiceTypeOK
<1>2. pc[r] \in {"new", "pick"} => stmt[r] = NoStmt /\ LockedBy(r) = {}
  BY DEF Core, TableInv, DraftInv, TasksOK, StmtInv, LockedBy, NoStmt
\* A statement that is started changes neither hosts nor locks.
<1>3. ASSUME NEW s \in Stmt, Update(r, s), pc[r] \in {"new", "pick"},
             asking' = [asking EXCEPT ![r] = Null] \/ asking' = asking,
             s.kind = "lease_hosts" /\ s.user = u =>
                /\ \A q \in Requests : q # r => ~LeasingFor(q, u)
                /\ s.todo \cap get_leased_hosts(hosts, u) = {}
                /\ Cardinality(get_leased_hosts(hosts, u) \cup s.todo) <= get_lease_limit(u)
      PROVE  RoomFor(u)'
  <2>1. /\ hosts' = hosts /\ rowLock' = rowLock /\ pc'[r] = "update"
        /\ \A q \in Requests : q # r => pc'[q] = pc[q] /\ asking'[q] = asking[q]
                                        /\ stmt'[q] = stmt[q]
    BY <1>1, <1>3 DEF Update, StartStmt
  <2>2. stmt'[r].kind = s.kind /\ stmt'[r].user = s.user /\ stmt'[r].todo \subseteq s.todo
    BY <1>1, <1>3 DEF Update, StartStmt, Stmt
  <2>3. Targets(r)' \subseteq s.todo /\ s.todo \in SUBSET Hosts
    BY <2>1, <2>2, <1>2, <1>3 DEF Targets, LockedBy, Stmt
  <2>4. CASE s.kind = "lease_hosts" /\ s.user = u
    <3>1. /\ get_leased_hosts(hosts, u) \cup s.todo \in SUBSET Hosts
          /\ get_leased_hosts(hosts, u) \cup Targets(r)'
                \in SUBSET (get_leased_hosts(hosts, u) \cup s.todo)
      BY <2>3 DEF get_leased_hosts
    <3>2. Cardinality(get_leased_hosts(hosts, u) \cup Targets(r)') <= get_lease_limit(u)
      <4>1. /\ Cardinality(get_leased_hosts(hosts, u) \cup Targets(r)')
                 <= Cardinality(get_leased_hosts(hosts, u) \cup s.todo)
            /\ Cardinality(get_leased_hosts(hosts, u) \cup s.todo) \in Nat
            /\ Cardinality(get_leased_hosts(hosts, u) \cup Targets(r)') \in Nat
        BY <3>1, HostsCard
      <4>2. QED BY <4>1, <1>1, <1>3, <2>4
    <3>3. Targets(r)' \cap get_leased_hosts(hosts, u) = {}
      BY <1>3, <2>3, <2>4
    <3>4. QED BY <1>3, <2>1, <2>4, <3>2, <3>3, EnterKeepsRoom
  <2>5. CASE ~(s.kind = "lease_hosts" /\ s.user = u)
    <3>1. \A q \in Requests : q # r => Targets(q)' = Targets(q)
      BY <2>1 DEF Targets, LockedBy
    <3>2. get_leased_hosts(hosts', u) = get_leased_hosts(hosts, u)
      BY <2>1
    <3>3. ASSUME NEW q \in Requests
          PROVE  /\ pc'[q] = "pick" /\ asking'[q] = u => pc[q] = "pick" /\ asking[q] = u
                 /\ stmt'[q].kind = "lease_hosts" /\ stmt'[q].user = u =>
                       /\ stmt[q].kind = "lease_hosts" /\ stmt[q].user = u
                       /\ Targets(q)' \subseteq Targets(q)
      <4>1. CASE q = r
        BY <4>1, <2>1, <2>2, <2>5
      <4>2. CASE q # r
        BY <4>2, <2>1, <3>1
      <4>3. QED BY <4>1, <4>2
    <3>4. QED BY <3>2, <3>3, ShrinkKeepsRoom
  <2>6. QED BY <2>4, <2>5
\* A request that ends without a statement changes nothing of the table.
<1>4. ASSUME pc' = [pc EXCEPT ![r] = "refused"], registryVars' = registryVars,
             asking' = [asking EXCEPT ![r] = Null] \/ asking' = asking
      PROVE  RoomFor(u)'
  <2>1. /\ hosts' = hosts /\ stmt' = stmt /\ rowLock' = rowLock
        /\ \A q \in Requests : pc'[q] = "pick" => pc[q] = "pick" /\ asking'[q] = asking[q]
    BY <1>1, <1>4 DEF registryVars
  <2>2. \A q \in Requests : Targets(q)' = Targets(q)
    BY <2>1 DEF Targets, LockedBy
  <2>3. QED BY <2>1, <2>2, ShrinkKeepsRoom
<1>5. CASE StartRequest(r)
  <2>1. Arrive(r)
    BY <1>5 DEF StartRequest
  <2>2. ASSUME Refuse(r) PROVE RoomFor(u)'
    BY <2>2, <1>4 DEF Refuse
  <2>3. ASSUME NEW v \in Users, NEW ids \in SUBSET HostIds, NEW days \in Days,
               NEW hours \in Hours, lease(r, v, ids, lease_duration(days, hours))
        PROVE  RoomFor(u)'
    <3> DEFINE s == lease_hosts(v, ids, now + lease_duration(days, hours))
               leased == get_leased_hosts(hosts, u)
    <3>1. CASE Refuse(r)
      BY <3>1, <2>2
    <3>2. CASE /\ Update(r, s) /\ UNCHANGED asking
               /\ leased \cap ids = {} \/ v # u
               /\ ~(Cardinality(leased) + Cardinality(ids) > get_lease_limit(u)) \/ v # u
      <4>1. s \in Stmt /\ s.kind = "lease_hosts" /\ s.user = v /\ s.todo = ids \cap Hosts
        BY DurationType DEF lease_hosts, Stmt, Kinds, Core, TableInv, RegistryTypeOK
      <4>2. pc[r] = "new" /\ (v = u => \A q \in Requests : ~LeasingFor(q, u))
        BY <2>3 DEF lease, MayLease
      <4>3. ASSUME v = u
            PROVE  Cardinality(leased \cup s.todo) <= get_lease_limit(u)
        <5>1. /\ IsFiniteSet(leased) /\ IsFiniteSet(ids) /\ IsFiniteSet(s.todo)
              /\ IsFiniteSet(leased \cap s.todo)
          <6>1. leased \in SUBSET Hosts
            BY DEF get_leased_hosts
          <6>2. QED BY <6>1, <4>1, HostsServiceAssumption, RegistryAssumption, FS_Subset
        <5>2. Cardinality(s.todo) <= Cardinality(ids)
          BY <5>1, <4>1, FS_Subset
        <5>3. Cardinality(leased \cup s.todo)
                = Cardinality(leased) + Cardinality(s.todo) - Cardinality(leased \cap s.todo)
          BY <5>1, FS_Union
        <5>4. /\ Cardinality(leased) \in Nat /\ Cardinality(ids) \in Nat
              /\ Cardinality(s.todo) \in Nat /\ Cardinality(leased \cap s.todo) \in Nat
          BY <5>1, FS_CardinalityType
        <5>5. Cardinality(leased) + Cardinality(ids) <= get_lease_limit(u)
          BY <3>2, <4>3, <5>4, <1>1
        <5>6. QED BY <5>2, <5>3, <5>4, <5>5, <1>1
      <4>4. v = u => s.todo \cap leased = {}
        BY <3>2, <4>1
      <4>5. QED BY <1>3, <3>2, <4>1, <4>2, <4>3, <4>4
    <3>3. QED BY <3>1, <3>2, <2>3 DEF lease
  <2>4. ASSUME NEW v \in Users, lease_random(r, v)
        PROVE  RoomFor(u)'
    <3>1. CASE Refuse(r)
      BY <3>1, <2>2
    <3>2. CASE /\ Cardinality(get_leased_hosts(hosts, v)) < get_lease_limit(v)
               /\ pc' = [pc EXCEPT ![r] = "pick"]
               /\ asking' = [asking EXCEPT ![r] = v]
               /\ UNCHANGED registryVars
      <4>1. /\ hosts' = hosts /\ stmt' = stmt /\ rowLock' = rowLock
            /\ pc'[r] = "pick" /\ asking'[r] = v
            /\ \A q \in Requests : q # r => pc'[q] = pc[q] /\ asking'[q] = asking[q]
        BY <3>2, <1>1 DEF registryVars
      <4>2. stmt'[r].kind # "lease_hosts"
        BY <4>1, <1>2, <2>4 DEF lease_random, NoStmt
      <4>3. CASE v = u
        <5>1. \A q \in Requests : ~LeasingFor(q, u)
          BY <4>3, <2>4 DEF lease_random, MayLease
        <5>2. Cardinality(get_leased_hosts(hosts, u)) + 1 <= get_lease_limit(u)
          <6>1. get_leased_hosts(hosts, u) \in SUBSET Hosts
            BY DEF get_leased_hosts
          <6>2. Cardinality(get_leased_hosts(hosts, u)) \in Nat
            BY <6>1, HostsCard
          <6>3. QED BY <6>2, <3>2, <4>3, <1>1
        <5>3. QED BY <4>1, <4>2, <5>1, <5>2, EnterKeepsRoom
      <4>4. CASE v # u
        <5>1. \A q \in Requests : Targets(q)' = Targets(q)
          BY <4>1 DEF Targets, LockedBy
        <5>2. \A q \in Requests :
                 pc'[q] = "pick" /\ asking'[q] = u => pc[q] = "pick" /\ asking[q] = u
          BY <4>1, <4>4
        <5>3. QED BY <4>1, <5>1, <5>2, ShrinkKeepsRoom
      <4>5. QED BY <4>3, <4>4
    <3>3. QED BY <3>1, <3>2, <2>4 DEF lease_random
  <2>5. ASSUME NEW days \in Days, NEW hours \in Hours, bad_duration(r, days, hours)
        PROVE  RoomFor(u)'
    BY <2>5, <2>2 DEF bad_duration
  <2>6. ASSUME NEW v \in Users, NEW ids \in SUBSET HostIds, free(r, v, ids)
        PROVE  RoomFor(u)'
    <3>1. /\ free_hosts_for_user(ids, v) \in Stmt
          /\ free_hosts_for_user(ids, v).kind = "free_hosts_for_user"
      BY DEF free_hosts_for_user, Stmt, Kinds
    <3>2. QED BY <3>1, <2>6, <1>3 DEF free
  <2>7. ASSUME NEW v \in Users, free_all_hosts(r, v)
        PROVE  RoomFor(u)'
    <3>1. free_all(v) \in Stmt /\ free_all(v).kind = "free_all"
      BY DEF free_all, Stmt, Kinds
    <3>2. QED BY <3>1, <2>7, <1>3 DEF free_all_hosts
  <2>8. QED BY <2>1, <2>3, <2>4, <2>5, <2>6, <2>7 DEF Arrive
<1>6. CASE PickHost(r)
  <2>1. PICK g \in Groups, days \in Days, hours \in Hours :
           lease_random_pick(r, g, lease_duration(days, hours))
    BY <1>6 DEF PickHost, Pick
  <2>2. pc[r] = "pick" /\ asking[r] \in Users /\ asking' = [asking EXCEPT ![r] = Null]
    BY <2>1, <1>1 DEF lease_random_pick, Core, TasksOK, StmtInv
  <2>3. CASE pc' = [pc EXCEPT ![r] = "refused"] /\ UNCHANGED registryVars
    BY <2>2, <2>3, <1>4
  <2>4. ASSUME NEW h \in Hosts, hosts[h].user = Null,
               Update(r, lease_hosts(asking[r], {h}, now + lease_duration(days, hours)))
        PROVE  RoomFor(u)'
    <3> DEFINE s == lease_hosts(asking[r], {h}, now + lease_duration(days, hours))
               leased == get_leased_hosts(hosts, u)
    <3>1. s \in Stmt /\ s.kind = "lease_hosts" /\ s.user = asking[r] /\ s.todo = {h}
      BY <2>2, DurationType DEF lease_hosts, Stmt, Kinds, Core, TableInv, RegistryTypeOK
    <3>2. ASSUME s.user = u
          PROVE  /\ \A q \in Requests : q # r => ~LeasingFor(q, u)
                 /\ s.todo \cap leased = {}
                 /\ Cardinality(leased \cup s.todo) <= get_lease_limit(u)
      <4>1. LeasingFor(r, u)
        BY <2>2, <3>1, <3>2 DEF LeasingFor
      <4>2. Cardinality(leased) + 1 <= get_lease_limit(u)
        BY <2>2, <3>1, <3>2 DEF RoomFor
      <4>3. h \notin leased
        BY <2>4, <1>1, RegistryAssumption DEF get_leased_hosts
      <4>4. Cardinality(leased \cup {h}) = Cardinality(leased) + 1
        <5>1. leased \in SUBSET Hosts
          BY DEF get_leased_hosts
        <5>2. IsFiniteSet(leased)
          BY <5>1, HostsCard
        <5>3. QED BY <5>2, <4>3, FS_AddElement
      <4>5. QED BY <3>1, <4>1, <4>2, <4>3, <4>4 DEF RoomFor
    <3>3. QED BY <1>3, <2>2, <2>4, <3>1, <3>2
  <2>5. QED
    BY <2>1, <2>3, <2>4
    DEF lease_random_pick, get_first_available_group_host, get_available_hosts
<1>7. CASE RequestRow(r)
  BY <1>7, RowKeepsRoom DEF RequestRow, write_row, serviceVars
<1>8. CASE RequestCommit(r)
  <2>1. PICK p \in {"ok", "error"} :
        Commit(r) /\ pc' = [pc EXCEPT ![r] = p] /\ asking' = asking
    BY <1>8 DEF RequestCommit, commit
  <2>2. QED BY <2>1, <1>1, CommitKeepsRoom
<1>9. CASE abort(r)
  <2>1. /\ Rollback(r) /\ pc' = [pc EXCEPT ![r] = "error"]
        /\ asking' = [asking EXCEPT ![r] = Null]
    BY <1>9 DEF abort
  <2>2. \A q \in Requests : pc'[q] = "pick" => pc[q] = "pick" /\ asking'[q] = asking[q]
    BY <2>1, <1>1
  <2>3. QED BY <2>1, <2>2, RollbackKeepsRoom
<1>10. QED BY <1>5, <1>6, <1>7, <1>8, <1>9

-----------------------------------------------------------------------------
(***************************************************************************)
(* The inductive invariant and what follows from it.                       *)
(***************************************************************************)
\* IInv is Core and the room of the serial users.
LEMMA IInvParts == IInv <=> Core /\ SerialInv
BY DEF IInv, Core, TableInv, TasksOK, Typed

\* IInv holds at the start.
LEMMA IInvInit == Init => IInv
<1> SUFFICES ASSUME Init, NEW u \in SerialUsers PROVE RoomFor(u)
  BY CoreInit, IInvParts DEF SerialInv
<1>1. u \in Users
  BY HostsServiceAssumption
<1>2. Cardinality(get_leased_hosts(hosts, u)) <= get_lease_limit(u)
  BY <1>1 DEF Init
<1>3. \A r \in Requests : pc[r] = "new" /\ stmt[r].kind = "none"
  BY TasksApart DEF Init, ServiceInit, NoStmt
<1>4. QED BY <1>2, <1>3 DEF RoomFor, LeasingFor

\* A step that changes no request keeps the room, as does a commit.
LEMMA OthersKeepRoom ==
    ASSUME Core, NEW u \in SerialUsers, RoomFor(u), UNCHANGED serviceVars,
           \/ \E t \in Tx : WriteRow(t) \/ Commit(t) \/ Rollback(t)
           \/ \E t \in Tx \ Requests, s \in Stmt : StartStmt(t, s)
           \/ UNCHANGED <<hosts, rowLock, stmt>>
    PROVE  RoomFor(u)'
<1>1. pc' = pc /\ asking' = asking
  BY DEF serviceVars
<1>2. CASE \E t \in Tx : WriteRow(t) \/ Commit(t) \/ Rollback(t)
  BY <1>1, <1>2, RowKeepsRoom, CommitKeepsRoom, RollbackKeepsRoom
<1>3. CASE (\E t \in Tx \ Requests, s \in Stmt : StartStmt(t, s)) \/ UNCHANGED <<hosts, rowLock, stmt>>
  <2>1. /\ hosts' = hosts /\ rowLock' = rowLock
        /\ \A q \in Requests : stmt'[q] = stmt[q]
    BY <1>3, TasksApart DEF StartStmt, Core, TableInv, RegistryTypeOK
  <2>2. \A q \in Requests : Targets(q)' = Targets(q)
    BY <2>1 DEF Targets, LockedBy
  <2>3. QED BY <1>1, <2>1, <2>2, ShrinkKeepsRoom
<1>4. QED BY <1>2, <1>3

\* IInv is kept by every step.
LEMMA IInvNext == IInv /\ [Next]_vars => IInv'
<1> SUFFICES ASSUME IInv, [Next]_vars, NEW u \in SerialUsers PROVE RoomFor(u)'
  BY CoreNext DEF IInv, Core, TableInv, TasksOK, Typed, SerialInv
<1> USE TasksApart
<1>1. Core /\ RoomFor(u)
  BY IInvParts DEF SerialInv
<1>2. CASE \E r \in Requests : \/ StartRequest(r) \/ PickHost(r) \/ RequestRow(r)
                               \/ RequestCommit(r) \/ RequestFails(r)
  BY <1>1, <1>2, RequestKeepsRoom DEF RequestFails
<1>3. CASE \E c \in Callbacks : \/ StartCallback(c) \/ CallbackUpdate(c)
                                \/ CallbackRow(c) \/ CallbackCommit(c)
                                \/ CallbackFails(c)
  <2>1. PICK c \in Callbacks : \/ StartCallback(c) \/ CallbackUpdate(c)
                               \/ CallbackRow(c) \/ CallbackCommit(c)
                               \/ CallbackFails(c)
    BY <1>3
  <2>2. UNCHANGED serviceVars
    BY <2>1 DEF StartCallback, CallbackUpdate, CallbackRow, CallbackCommit, CallbackFails
  <2>3. CASE StartCallback(c)
    BY <1>1, <2>2, <2>3, OthersKeepRoom
    DEF StartCallback, Press, ignore_callback, extend_select, registryVars
  <2>4. CASE CallbackUpdate(c)
    <3>1. extend_hosts_lease(extending[c].ids, extending[c].hours) \in Stmt
      BY <1>1 DEF extend_hosts_lease, Stmt, Kinds, Hour, Core, TasksOK, BotTypeOK
    <3>2. QED BY <1>1, <2>2, <2>4, <3>1, OthersKeepRoom DEF CallbackUpdate, extend_update
  <2>5. CASE CallbackRow(c) \/ CallbackCommit(c) \/ CallbackFails(c)
    BY <1>1, <2>2, <2>5, OthersKeepRoom
    DEF CallbackRow, CallbackCommit, CallbackFails, extend_row, extend_commit, extend_fail
  <2>6. QED BY <2>1, <2>3, <2>4, <2>5
<1>4. CASE TimerSelect \/ TimerRow \/ TimerCommit \/ TimerFails
  <2>1. UNCHANGED serviceVars
    BY <1>4 DEF TimerSelect, TimerRow, TimerCommit, TimerFails
  <2>2. CASE TimerSelect
    <3>1. free_hosts(get_leased_until_hosts(hosts, now)) \in Stmt
      BY DEF free_hosts, get_leased_until_hosts, Stmt, Kinds
    <3>2. QED BY <1>1, <2>1, <2>2, <3>1, OthersKeepRoom DEF TimerSelect, release_select
  <2>3. CASE TimerRow \/ TimerCommit \/ TimerFails
    BY <1>1, <2>1, <2>3, OthersKeepRoom
    DEF TimerRow, TimerCommit, TimerFails, release_row, release_commit, release_fail
  <2>4. QED BY <1>4, <2>2, <2>3
<1>5. CASE DeadlockVictim
  <2>1. CASE \E r \in Requests : abort(r)
    BY <1>1, <2>1, RequestKeepsRoom
  <2>2. CASE \E t \in Tx : Rollback(t) /\ UNCHANGED serviceVars
    BY <1>1, <2>2, OthersKeepRoom
  <2>3. QED BY <1>5, <2>1, <2>2 DEF DeadlockVictim, extend_fail, release_fail
<1>6. CASE Tick
  BY <1>1, <1>6, OthersKeepRoom DEF Tick
<1>7. CASE UNCHANGED vars
  BY <1>1, <1>7, OthersKeepRoom DEF vars, registryVars
<1>8. QED BY <1>2, <1>3, <1>4, <1>5, <1>6, <1>7 DEF Next

\* The inductive invariant holds in every reachable state.
THEOREM Invariant == Spec => []IInv
BY IInvInit, IInvNext, PTL DEF Spec

\* Only a statement that has locked one row and waits for another is ended by
\* the detector, for any number of concurrent requests and callbacks.
THEOREM DeadlocksHaveTwoRows == Spec => []DeadlockNeedsTwoRows
<1>1. IInv => DeadlockNeedsTwoRows
  <2> SUFFICES ASSUME IInv, NEW t \in Tx, Deadlocked(t)
               PROVE  \E g \in LockedBy(t), h \in stmt[t].todo : g # h
    BY DEF DeadlockNeedsTwoRows
  <2>1. PICK v \in Tx, w \in Tx : WaitsFor(t, w) /\ WaitsFor(v, t)
    BY DEF Deadlocked
  <2>2. PICK h \in stmt[t].todo : rowLock[h] = w
    BY <2>1 DEF WaitsFor
  <2>3. PICK g \in stmt[v].todo : rowLock[g] = t
    BY <2>1 DEF WaitsFor
  <2>4. g \in Hosts
    BY <2>3 DEF IInv, Typed, RegistryTypeOK, Stmt
  <2>5. g \notin stmt[t].todo
    BY <2>3, <2>4 DEF IInv, DraftInv
  <2>6. QED BY <2>2, <2>3, <2>4, <2>5 DEF LockedBy
<1>2. QED BY <1>1, Invariant, PTL

\* A user who sends one lease request at a time stays within the limit, for any
\* number of hosts, users, requests, callbacks and failures.
THEOREM LimitKept == Spec => []LimitForSerialUsers
<1>1. IInv => LimitForSerialUsers
  BY DEF IInv, SerialInv, RoomFor, LimitForSerialUsers
<1>2. QED BY <1>1, Invariant, PTL

-----------------------------------------------------------------------------
(***************************************************************************)
(* The limit of a user who sends several lease requests at a time.         *)
(***************************************************************************)
\* The lease requests of u in flight, those of them that have not selected a
\* host yet, and the hosts they have selected or locked.
Flights(u) == {r \in Requests : LeasingFor(r, u)}

Picking(u) == {r \in Requests : pc[r] = "pick" /\ asking[r] = u}

Claims(F) == UNION {Targets(r) : r \in F}

Claimed(u) == get_leased_hosts(hosts, u) \cup Claims(Flights(u))

InFlightAtMost(K, u) == IsFiniteSet(Flights(u)) /\ Cardinality(Flights(u)) <= K

\* What a step can do to the claims of u: u gets no more of anything,
Fewer(u) ==
    /\ Claimed(u)' \subseteq Claimed(u)
    /\ Picking(u)' \subseteq Picking(u)
    /\ \A r \in Flights(u)' : r \in Flights(u) /\ Targets(r)' \subseteq Targets(r)

\* request r starts to lease for u, having found room for what it claims,
Enters(u, r) ==
    /\ r \notin Flights(u)
    /\ Flights(u)' = Flights(u) \cup {r}
    /\ hosts' = hosts
    /\ \A q \in Flights(u) : Targets(q)' = Targets(q)
    /\ Targets(r)' \subseteq Hosts
    /\ \E P \in SUBSET {r} :
          /\ Picking(u)' = Picking(u) \cup P
          /\ Cardinality(get_leased_hosts(hosts, u)) + Cardinality(Targets(r)')
                + Cardinality(P) <= get_lease_limit(u)

\* or it selects the host it has found room for.
Chooses(u, r) ==
    /\ r \in Picking(u)
    /\ Picking(u)' = Picking(u) \ {r}
    /\ Flights(u)' = Flights(u)
    /\ hosts' = hosts
    /\ \A q \in Flights(u) \ {r} : Targets(q)' = Targets(q)
    /\ \E h \in Hosts : Targets(r)' \subseteq {h}

\* A step that gives u no host and no request more rows to lease for u.
LEMMA ShrinkIsFewer ==
    ASSUME NEW u \in Users,
           get_leased_hosts(hosts', u) \subseteq get_leased_hosts(hosts, u),
           \A r \in Requests :
              /\ pc'[r] = "pick" /\ asking'[r] = u => pc[r] = "pick" /\ asking[r] = u
              /\ LeasingFor(r, u)' => LeasingFor(r, u) /\ Targets(r)' \subseteq Targets(r)
    PROVE  Fewer(u)
<1>1. Picking(u)' \subseteq Picking(u)
  BY DEF Picking
<1>2. \A r \in Flights(u)' : r \in Flights(u) /\ Targets(r)' \subseteq Targets(r)
  BY DEF Flights
<1>3. Claims(Flights(u))' \subseteq Claims(Flights(u))
  BY <1>2 DEF Claims
<1>4. QED BY <1>1, <1>2, <1>3 DEF Fewer, Claimed

\* A commit: what u gets is what u's own request has claimed, and that request
\* is over.
LEMMA CommitIsFewer ==
    ASSUME Core, NEW u \in Users, NEW t \in Tx, Commit(t),
           \A q \in Requests : pc'[q] = "pick" => /\ pc[q] = "pick"
                                                  /\ asking'[q] = asking[q]
    PROVE  Fewer(u)
<1>1. /\ \A q \in Tx : q # t => stmt'[q] = stmt[q]
      /\ stmt'[t] = NoStmt
  BY DEF Commit, Core, TableInv, RegistryTypeOK
<1>2. ASSUME NEW q \in Requests PROVE Targets(q)' \subseteq Targets(q)
  <2>1. q \in Tx /\ q # Null
    BY TasksApart, RegistryAssumption
  <2>2. \A g \in Hosts : rowLock'[g] = q => rowLock[g] = q
    BY <2>1 DEF Commit, Unlocked
  <2>3. stmt'[q].todo \subseteq stmt[q].todo
    BY <1>1, <2>1 DEF NoStmt
  <2>4. QED BY <2>2, <2>3 DEF Targets, LockedBy
<1>3. \A q \in Requests : LeasingFor(q, u)' => LeasingFor(q, u)
  BY <1>1, TasksApart DEF LeasingFor, NoStmt
<1>4. CASE ~(stmt[t].kind = "lease_hosts" /\ stmt[t].user = u)
  <2>1. get_leased_hosts(hosts', u) \subseteq get_leased_hosts(hosts, u)
    BY <1>4, CommitOwned
  <2>2. QED BY <1>2, <1>3, <2>1, ShrinkIsFewer
<1>5. CASE stmt[t].kind = "lease_hosts" /\ stmt[t].user = u
  <2>1. t \in Flights(u)
    BY <1>5, TasksApart DEF Core, TasksOK, StmtInv, Tx, Flights, LeasingFor
  <2>2. LockedBy(t) \subseteq Claims(Flights(u))
    BY <2>1 DEF Claims, Targets
  <2>3. get_leased_hosts(hosts', u) \subseteq Claimed(u)
    BY <2>2, CommitOwned DEF Claimed
  <2>4. \A q \in Flights(u)' : q \in Flights(u) /\ Targets(q)' \subseteq Targets(q)
    BY <1>2, <1>3 DEF Flights
  <2>5. Claims(Flights(u))' \subseteq Claims(Flights(u))
    BY <2>4 DEF Claims
  <2>6. Picking(u)' \subseteq Picking(u)
    BY DEF Picking
  <2>7. QED BY <2>3, <2>4, <2>5, <2>6 DEF Fewer, Claimed
<1>6. QED BY <1>4, <1>5

\* The writing of a row: it was claimed already.
LEMMA RowIsFewer ==
    ASSUME Core, NEW u \in Users, NEW t \in Tx, WriteRow(t), pc' = pc, asking' = asking
    PROVE  Fewer(u)
<1>1. PICK h \in stmt[t].todo : /\ rowLock' = [rowLock EXCEPT ![h] = t]
                                /\ stmt' = [stmt EXCEPT ![t].todo = @ \ {h}]
                                /\ hosts' = hosts
  BY DEF WriteRow
<1>2. /\ stmt \in [Tx -> Stmt] /\ rowLock \in [Hosts -> Tx \cup {Null}]
      /\ stmt[t] \in Stmt /\ h \in Hosts
  BY DEF Core, TableInv, RegistryTypeOK, Stmt
<1>3. ASSUME NEW q \in Requests
      PROVE  /\ stmt'[q].kind = stmt[q].kind /\ stmt'[q].user = stmt[q].user
             /\ Targets(q)' \subseteq Targets(q)
  <2>1. stmt'[q].kind = stmt[q].kind /\ stmt'[q].user = stmt[q].user
        /\ stmt'[q].todo \subseteq stmt[q].todo
    BY <1>1, <1>2, TasksApart DEF Stmt
  <2>2. \A g \in Hosts : rowLock'[g] = q => rowLock[g] = q \/ (g = h /\ q = t)
    BY <1>1, <1>2
  <2>3. q = t => h \in stmt[q].todo
    BY <1>1
  <2>4. QED BY <2>1, <2>2, <2>3 DEF Targets, LockedBy
<1>4. \A q \in Requests : LeasingFor(q, u)' => LeasingFor(q, u)
  BY <1>3 DEF LeasingFor
<1>5. get_leased_hosts(hosts', u) = get_leased_hosts(hosts, u)
  BY <1>1
<1>6. QED BY <1>3, <1>4, <1>5, ShrinkIsFewer

\* A rollback.
LEMMA RollbackIsFewer ==
    ASSUME Core, NEW u \in Users, NEW t \in Tx, Rollback(t),
           \A q \in Requests : pc'[q] = "pick" => /\ pc[q] = "pick"
                                                  /\ asking'[q] = asking[q]
    PROVE  Fewer(u)
<1>1. /\ \A q \in Tx : q # t => stmt'[q] = stmt[q]
      /\ stmt'[t] = NoStmt /\ hosts' = hosts
  BY DEF Rollback, Core, TableInv, RegistryTypeOK
<1>2. ASSUME NEW q \in Requests PROVE Targets(q)' \subseteq Targets(q)
  <2>1. q \in Tx /\ q # Null
    BY TasksApart, RegistryAssumption
  <2>2. \A g \in Hosts : rowLock'[g] = q => rowLock[g] = q
    BY <2>1 DEF Rollback, Unlocked
  <2>3. stmt'[q].todo \subseteq stmt[q].todo
    BY <1>1, <2>1 DEF NoStmt
  <2>4. QED BY <2>2, <2>3 DEF Targets, LockedBy
<1>3. \A q \in Requests : LeasingFor(q, u)' => LeasingFor(q, u)
  BY <1>1, TasksApart DEF LeasingFor, NoStmt
<1>4. get_leased_hosts(hosts', u) = get_leased_hosts(hosts, u)
  BY <1>1
<1>5. QED BY <1>2, <1>3, <1>4, ShrinkIsFewer

\* A step that changes no request.
LEMMA OthersAreFewer ==
    ASSUME Core, NEW u \in Users, UNCHANGED serviceVars,
           \/ \E t \in Tx : WriteRow(t) \/ Commit(t) \/ Rollback(t)
           \/ \E t \in Tx \ Requests, s \in Stmt : StartStmt(t, s)
           \/ UNCHANGED <<hosts, rowLock, stmt>>
    PROVE  Fewer(u)
<1>1. pc' = pc /\ asking' = asking
  BY DEF serviceVars
<1>2. CASE \E t \in Tx : WriteRow(t) \/ Commit(t) \/ Rollback(t)
  BY <1>1, <1>2, RowIsFewer, CommitIsFewer, RollbackIsFewer
<1>3. CASE (\E t \in Tx \ Requests, s \in Stmt : StartStmt(t, s)) \/ UNCHANGED <<hosts, rowLock, stmt>>
  <2>1. /\ hosts' = hosts /\ rowLock' = rowLock
        /\ \A q \in Requests : stmt'[q] = stmt[q]
    BY <1>3, TasksApart DEF StartStmt, Core, TableInv, RegistryTypeOK
  <2>2. \A q \in Requests : Targets(q)' = Targets(q) /\ (LeasingFor(q, u)' <=> LeasingFor(q, u))
    BY <1>1, <2>1 DEF Targets, LockedBy, LeasingFor
  <2>3. QED BY <1>1, <2>1, <2>2, ShrinkIsFewer
<1>4. QED BY <1>2, <1>3

\* Each step of a request does one of the three to u's claims: lease and
\* lease_random enter, the second SELECT of lease_random chooses.
LEMMA RequestClaims ==
    ASSUME Core, NEW u \in Users, NEW r \in Requests,
           \/ StartRequest(r) \/ PickHost(r) \/ RequestRow(r) \/ RequestCommit(r)
           \/ abort(r)
    PROVE  Fewer(u) \/ Enters(u, r) \/ Chooses(u, r)
<1> USE TasksApart
<1>1. /\ pc \in [Requests -> {"new", "pick", "update", "ok", "refused", "error"}]
      /\ asking \in [Requests -> Users \cup {Null}]
      /\ stmt \in [Tx -> Stmt]
      /\ u # Null
  BY RegistryAssumption DEF Core, TableInv, RegistryTypeOK, TasksOK, ServiceTypeOK
<1>2. pc[r] \in {"new", "pick"} => stmt[r] = NoStmt /\ LockedBy(r) = {}
  BY DEF Core, TableInv, DraftInv, TasksOK, StmtInv, LockedBy, NoStmt
<1>3. pc[r] = "new" => ~LeasingFor(r, u)
  BY <1>2 DEF LeasingFor, NoStmt
\* A statement that is started changes neither hosts nor locks.
<1>4. ASSUME NEW s \in Stmt, Update(r, s), pc[r] \in {"new", "pick"}
      PROVE  /\ hosts' = hosts /\ pc'[r] = "update"
             /\ stmt'[r].kind = s.kind /\ stmt'[r].user = s.user
             /\ Targets(r)' \subseteq s.todo
             /\ \A q \in Requests : q # r =>
                   /\ pc'[q] = pc[q] /\ stmt'[q] = stmt[q] /\ Targets(q)' = Targets(q)
  <2>1. /\ hosts' = hosts /\ rowLock' = rowLock /\ pc'[r] = "update"
        /\ \A q \in Requests : q # r => pc'[q] = pc[q] /\ stmt'[q] = stmt[q]
    BY <1>1, <1>4 DEF Update, StartStmt
  <2>2. stmt'[r].kind = s.kind /\ stmt'[r].user = s.user /\ stmt'[r].todo \subseteq s.todo
    BY <1>1, <1>4 DEF Update, StartStmt, Stmt
  <2>3. Targets(r)' \subseteq s.todo
    BY <2>1, <2>2, <1>2, <1>4 DEF Targets, LockedBy
  <2>4. \A q \in Requests : q # r => Targets(q)' = Targets(q)
    BY <2>1 DEF Targets, LockedBy
  <2>5. QED BY <2>1, <2>2, <2>3, <2>4
\* It makes nobody else claim anything.
<1>5. ASSUME NEW s \in Stmt, Update(r, s), pc[r] \in {"new", "pick"},
             \A q \in Requests : q # r => asking'[q] = asking[q],
             ~(s.kind = "lease_hosts" /\ s.user = u)
      PROVE  Fewer(u)
  <2>1. \A q \in Requests :
           /\ pc'[q] = "pick" /\ asking'[q] = u => pc[q] = "pick" /\ asking[q] = u
           /\ LeasingFor(q, u)' => LeasingFor(q, u) /\ Targets(q)' \subseteq Targets(q)
    BY <1>4, <1>5 DEF LeasingFor
  <2>2. QED BY <1>4, <1>5, <2>1, ShrinkIsFewer
\* A request that ends without a statement.
<1>6. ASSUME pc' = [pc EXCEPT ![r] = "refused"], registryVars' = registryVars,
             asking' = [asking EXCEPT ![r] = Null] \/ asking' = asking
      PROVE  Fewer(u)
  <2>1. hosts' = hosts /\ \A q \in Requests : Targets(q)' = Targets(q)
    BY <1>6 DEF registryVars, Targets, LockedBy
  <2>2. \A q \in Requests :
           /\ pc'[q] = "pick" /\ asking'[q] = u => pc[q] = "pick" /\ asking[q] = u
           /\ LeasingFor(q, u)' => LeasingFor(q, u)
    BY <1>1, <1>6 DEF LeasingFor, registryVars
  <2>3. QED BY <2>1, <2>2, ShrinkIsFewer
<1>7. ASSUME Refuse(r) PROVE Fewer(u)
  BY <1>6, <1>7 DEF Refuse
<1>8. ASSUME NEW v \in Users, NEW ids \in SUBSET HostIds, NEW days \in Days,
             NEW hours \in Hours, lease(r, v, ids, lease_duration(days, hours))
      PROVE  Fewer(u) \/ Enters(u, r)
  <2> DEFINE leased == get_leased_hosts(hosts, u)
  <2>1. PICK s : s = lease_hosts(v, ids, now + lease_duration(days, hours))
    OBVIOUS
  <2>2. s \in Stmt /\ s.kind = "lease_hosts" /\ s.user = v /\ s.todo = ids \cap Hosts
    BY <2>1, DurationType DEF lease_hosts, Stmt, Kinds, Core, TableInv, RegistryTypeOK
  <2>3. CASE Refuse(r)
    BY <1>7, <2>3
  <2>4. CASE Update(r, s) /\ UNCHANGED asking /\ v # u
    BY <1>5, <1>8, <2>2, <2>4 DEF lease
  <2>5. CASE /\ Update(r, s) /\ UNCHANGED asking /\ v = u
             /\ ~(Cardinality(leased) + Cardinality(ids) > get_lease_limit(u))
    <3>1. pc[r] = "new" /\ r \notin Flights(u)
      BY <1>3, <1>8 DEF lease, Flights
    <3>2. /\ hosts' = hosts /\ Targets(r)' \subseteq ids \cap Hosts
          /\ stmt'[r].kind = "lease_hosts" /\ stmt'[r].user = u /\ pc'[r] = "update"
          /\ \A q \in Requests : q # r =>
                pc'[q] = pc[q] /\ stmt'[q] = stmt[q] /\ Targets(q)' = Targets(q)
      BY <1>4, <2>2, <2>5, <3>1
    <3>3. Flights(u)' = Flights(u) \cup {r} /\ Picking(u)' = Picking(u)
      <4>1. \A q \in Requests : LeasingFor(q, u)' <=> q = r \/ LeasingFor(q, u)
        BY <2>5, <3>1, <3>2 DEF LeasingFor
      <4>2. \A q \in Requests : pc'[q] = "pick" <=> pc[q] = "pick"
        BY <3>1, <3>2
      <4>3. QED BY <2>5, <4>1, <4>2 DEF Flights, Picking
    <3>4. Cardinality(leased) + Cardinality(Targets(r)') + Cardinality({}) <= get_lease_limit(u)
      <4>1. IsFiniteSet(ids) /\ leased \in SUBSET Hosts
        BY HostsServiceAssumption, FS_Subset DEF get_leased_hosts
      <4>2. /\ Cardinality(Targets(r)') <= Cardinality(ids)
            /\ Cardinality(Targets(r)') \in Nat /\ Cardinality(ids) \in Nat
            /\ Cardinality(leased) \in Nat /\ Cardinality({}) = 0
        BY <3>2, <4>1, HostsCard, FS_Subset, FS_CardinalityType, FS_EmptySet
      <4>3. get_lease_limit(u) \in Nat
        BY HostsServiceAssumption
      <4>4. QED BY <2>5, <4>2, <4>3
    <3>5. \A q \in Flights(u) : Targets(q)' = Targets(q)
      BY <3>1, <3>2 DEF Flights
    <3>6. \E P \in SUBSET {r} :
            /\ Picking(u)' = Picking(u) \cup P
            /\ Cardinality(leased) + Cardinality(Targets(r)') + Cardinality(P)
                  <= get_lease_limit(u)
      BY <3>3, <3>4
    <3>7. Enters(u, r)
      BY <3>1, <3>2, <3>3, <3>5, <3>6 DEF Enters
    <3>8. QED BY <3>7
  <2>6. QED BY <1>8, <2>1, <2>3, <2>4, <2>5 DEF lease
<1>9. ASSUME NEW v \in Users, lease_random(r, v)
      PROVE  Fewer(u) \/ Enters(u, r)
  <2>1. CASE Refuse(r)
    BY <1>7, <2>1
  <2>2. CASE /\ Cardinality(get_leased_hosts(hosts, v)) < get_lease_limit(v)
             /\ pc' = [pc EXCEPT ![r] = "pick"]
             /\ asking' = [asking EXCEPT ![r] = v]
             /\ UNCHANGED registryVars
    <3>1. /\ hosts' = hosts /\ stmt' = stmt /\ pc'[r] = "pick" /\ asking'[r] = v
          /\ pc[r] = "new" /\ ~LeasingFor(r, u)
          /\ \A q \in Requests : q # r => pc'[q] = pc[q] /\ asking'[q] = asking[q]
          /\ \A q \in Requests : Targets(q)' = Targets(q)
      BY <1>1, <1>3, <1>9, <2>2 DEF registryVars, Targets, LockedBy, lease_random
    <3>2. CASE v # u
      <4>1. \A q \in Requests :
               /\ pc'[q] = "pick" /\ asking'[q] = u => pc[q] = "pick" /\ asking[q] = u
               /\ LeasingFor(q, u)' => LeasingFor(q, u)
        BY <3>1, <3>2 DEF LeasingFor
      <4>2. QED BY <3>1, <4>1, ShrinkIsFewer
    <3>3. CASE v = u
      <4>1. Flights(u)' = Flights(u) \cup {r} /\ Picking(u)' = Picking(u) \cup {r}
        BY <3>1, <3>3 DEF Flights, Picking, LeasingFor
      <4>2. Targets(r)' = {}
        BY <1>2, <3>1 DEF Targets, NoStmt
      <4>3. /\ Cardinality(get_leased_hosts(hosts, u)) + Cardinality(Targets(r)')
                  + Cardinality({r}) <= get_lease_limit(u)
        <5>1. get_leased_hosts(hosts, u) \in SUBSET Hosts /\ get_lease_limit(u) \in Nat
          BY HostsServiceAssumption DEF get_leased_hosts
        <5>2. /\ Cardinality(get_leased_hosts(hosts, u)) \in Nat
              /\ Cardinality(Targets(r)') = 0 /\ Cardinality({r}) = 1
          BY <4>2, <5>1, HostsCard, FS_EmptySet, FS_Singleton
        <5>3. QED BY <2>2, <3>3, <5>1, <5>2
      <4>4. Enters(u, r)
        BY <3>1, <4>1, <4>2, <4>3 DEF Enters, Flights
      <4>5. QED BY <4>4
    <3>4. QED BY <3>2, <3>3
  <2>3. QED BY <1>9, <2>1, <2>2 DEF lease_random
<1>10. CASE StartRequest(r)
  <2>1. ASSUME NEW v \in Users, NEW ids \in SUBSET HostIds, free(r, v, ids)
        PROVE  Fewer(u)
    <3>1. /\ free_hosts_for_user(ids, v) \in Stmt
          /\ free_hosts_for_user(ids, v).kind = "free_hosts_for_user"
      BY DEF free_hosts_for_user, Stmt, Kinds
    <3>2. QED BY <1>5, <2>1, <3>1 DEF free
  <2>2. ASSUME NEW v \in Users, free_all_hosts(r, v)
        PROVE  Fewer(u)
    <3>1. free_all(v) \in Stmt /\ free_all(v).kind = "free_all"
      BY DEF free_all, Stmt, Kinds
    <3>2. QED BY <1>5, <2>2, <3>1 DEF free_all_hosts
  <2>3. QED BY <1>7, <1>8, <1>9, <1>10, <2>1, <2>2 DEF StartRequest, Arrive, bad_duration
<1>11. CASE PickHost(r)
  <2>1. PICK g \in Groups, days \in Days, hours \in Hours :
           lease_random_pick(r, g, lease_duration(days, hours))
    BY <1>11 DEF PickHost, Pick
  <2>2. /\ pc[r] = "pick" /\ asking[r] \in Users /\ asking' = [asking EXCEPT ![r] = Null]
        /\ \A q \in Requests : q # r => asking'[q] = asking[q]
    BY <2>1, <1>1 DEF lease_random_pick, Core, TasksOK, StmtInv
  <2>3. CASE pc' = [pc EXCEPT ![r] = "refused"] /\ UNCHANGED registryVars
    BY <1>6, <2>2, <2>3
  <2>4. ASSUME NEW h \in Hosts,
               Update(r, lease_hosts(asking[r], {h}, now + lease_duration(days, hours)))
        PROVE  Fewer(u) \/ Chooses(u, r)
    <3>1. PICK s : s = lease_hosts(asking[r], {h}, now + lease_duration(days, hours))
      OBVIOUS
    <3>2. s \in Stmt /\ s.kind = "lease_hosts" /\ s.user = asking[r] /\ s.todo = {h}
      BY <2>2, <3>1, DurationType DEF lease_hosts, Stmt, Kinds, Core, TableInv, RegistryTypeOK
    <3>3. CASE asking[r] # u
      BY <1>5, <2>2, <2>4, <3>1, <3>2, <3>3
    <3>4. CASE asking[r] = u
      <4>1. /\ hosts' = hosts /\ Targets(r)' \subseteq {h}
            /\ stmt'[r].kind = "lease_hosts" /\ stmt'[r].user = u /\ pc'[r] = "update"
            /\ \A q \in Requests : q # r =>
                  pc'[q] = pc[q] /\ stmt'[q] = stmt[q] /\ Targets(q)' = Targets(q)
        BY <1>4, <2>2, <2>4, <3>1, <3>2, <3>4
      <4>2. r \in Picking(u) /\ Picking(u)' = Picking(u) \ {r}
        BY <2>2, <3>4, <4>1 DEF Picking
      <4>3. Flights(u)' = Flights(u)
        BY <2>2, <3>4, <4>1 DEF Flights, LeasingFor
      <4>4. Chooses(u, r)
        BY <4>1, <4>2, <4>3 DEF Chooses, Flights
      <4>5. QED BY <4>4
    <3>5. QED BY <3>3, <3>4
  <2>5. QED
    BY <2>1, <2>3, <2>4
    DEF lease_random_pick, get_first_available_group_host, get_available_hosts
<1>12. CASE RequestRow(r)
  BY <1>12, RowIsFewer DEF RequestRow, write_row, serviceVars
<1>13. CASE RequestCommit(r)
  <2>1. PICK p \in {"ok", "error"} :
        Commit(r) /\ pc' = [pc EXCEPT ![r] = p] /\ asking' = asking
    BY <1>13 DEF RequestCommit, commit
  <2>2. QED BY <2>1, <1>1, CommitIsFewer
<1>14. CASE abort(r)
  <2>1. /\ Rollback(r) /\ pc' = [pc EXCEPT ![r] = "error"]
        /\ asking' = [asking EXCEPT ![r] = Null]
    BY <1>14 DEF abort
  <2>2. \A q \in Requests : pc'[q] = "pick" => pc[q] = "pick" /\ asking'[q] = asking[q]
    BY <2>1, <1>1
  <2>3. QED BY <2>1, <2>2, RollbackIsFewer
<1>15. QED BY <1>10, <1>11, <1>12, <1>13, <1>14

\* Every step of the system does one of the three to u's claims.
LEMMA ClaimStep ==
    ASSUME Core, [Next]_vars, NEW u \in Users
    PROVE  Fewer(u) \/ \E r \in Requests : Enters(u, r) \/ Chooses(u, r)
<1> USE TasksApart
<1>1. CASE \E r \in Requests : \/ StartRequest(r) \/ PickHost(r) \/ RequestRow(r)
                               \/ RequestCommit(r) \/ RequestFails(r)
  BY <1>1, RequestClaims DEF RequestFails
<1>2. CASE \E c \in Callbacks : \/ StartCallback(c) \/ CallbackUpdate(c)
                                \/ CallbackRow(c) \/ CallbackCommit(c)
                                \/ CallbackFails(c)
  <2>1. PICK c \in Callbacks : \/ StartCallback(c) \/ CallbackUpdate(c)
                               \/ CallbackRow(c) \/ CallbackCommit(c)
                               \/ CallbackFails(c)
    BY <1>2
  <2>2. UNCHANGED serviceVars
    BY <2>1 DEF StartCallback, CallbackUpdate, CallbackRow, CallbackCommit, CallbackFails
  <2>3. CASE StartCallback(c)
    BY <2>2, <2>3, OthersAreFewer
    DEF StartCallback, Press, ignore_callback, extend_select, registryVars
  <2>4. CASE CallbackUpdate(c)
    <3>1. extend_hosts_lease(extending[c].ids, extending[c].hours) \in Stmt
      BY DEF extend_hosts_lease, Stmt, Kinds, Hour, Core, TasksOK, BotTypeOK
    <3>2. QED BY <2>2, <2>4, <3>1, OthersAreFewer DEF CallbackUpdate, extend_update
  <2>5. CASE CallbackRow(c) \/ CallbackCommit(c) \/ CallbackFails(c)
    BY <2>2, <2>5, OthersAreFewer
    DEF CallbackRow, CallbackCommit, CallbackFails, extend_row, extend_commit, extend_fail
  <2>6. QED BY <2>1, <2>3, <2>4, <2>5
<1>3. CASE TimerSelect \/ TimerRow \/ TimerCommit \/ TimerFails
  <2>1. UNCHANGED serviceVars
    BY <1>3 DEF TimerSelect, TimerRow, TimerCommit, TimerFails
  <2>2. CASE TimerSelect
    <3>1. free_hosts(get_leased_until_hosts(hosts, now)) \in Stmt
      BY DEF free_hosts, get_leased_until_hosts, Stmt, Kinds
    <3>2. QED BY <2>1, <2>2, <3>1, OthersAreFewer DEF TimerSelect, release_select
  <2>3. CASE TimerRow \/ TimerCommit \/ TimerFails
    BY <2>1, <2>3, OthersAreFewer
    DEF TimerRow, TimerCommit, TimerFails, release_row, release_commit, release_fail
  <2>4. QED BY <1>3, <2>2, <2>3
<1>4. CASE DeadlockVictim
  <2>1. CASE \E r \in Requests : abort(r)
    BY <2>1, RequestClaims
  <2>2. CASE \E t \in Tx : Rollback(t) /\ UNCHANGED serviceVars
    BY <2>2, OthersAreFewer
  <2>3. QED BY <1>4, <2>1, <2>2 DEF DeadlockVictim, extend_fail, release_fail
<1>5. CASE Tick
  BY <1>5, OthersAreFewer DEF Tick
<1>6. CASE UNCHANGED vars
  BY <1>6, OthersAreFewer DEF vars, registryVars
<1>7. QED BY <1>1, <1>2, <1>3, <1>4, <1>5, <1>6 DEF Next

\* What n requests may claim at get_lease_limit each.
LEMMA Times ==
    ASSUME NEW n \in Nat, NEW k \in Nat, NEW l \in Nat, n <= k
    PROVE  /\ n * l \in Nat
           /\ n * l <= k * l
           /\ (n + 1) * l = n * l + l
<1>1. PICK d \in Nat : k = n + d
  <2>1. k - n \in Nat /\ k = n + (k - n)
    OBVIOUS
  <2>2. QED BY <2>1
<1>2. k * l = n * l + d * l /\ d * l \in Nat /\ n * l \in Nat
  BY <1>1
<1>3. QED BY <1>2

\* The inductive invariant: any of u's lease requests in flight claim at most
\* the limit each, and so do all the requests that may be in flight together
\* with what u holds; a request that has yet to select its host claims one.
FlightInv(K, u) ==
    /\ \A F \in SUBSET Flights(u) :
          IsFiniteSet(F) =>
             Cardinality(Claims(F)) + Cardinality(F \cap Picking(u))
                <= Cardinality(F) * get_lease_limit(u)
    /\ Cardinality(Claimed(u)) + Cardinality(Picking(u)) <= K * get_lease_limit(u)

\* Everything that is counted is finite, since hosts are.
LEMMA ClaimsFinite ==
    ASSUME Core, NEW u \in Users
    PROVE  /\ \A q \in Requests : Targets(q) \in SUBSET Hosts
           /\ \A F \in SUBSET Requests : Claims(F) \in SUBSET Hosts
           /\ Flights(u) \subseteq Requests
           /\ Picking(u) \subseteq Flights(u)
           /\ get_leased_hosts(hosts, u) \in SUBSET Hosts
           /\ Claimed(u) \in SUBSET Hosts
<1>1. \A q \in Requests : Targets(q) \in SUBSET Hosts
  BY TasksApart DEF Targets, LockedBy, Core, TableInv, RegistryTypeOK, Stmt
<1>2. \A F \in SUBSET Requests : Claims(F) \in SUBSET Hosts
  BY <1>1 DEF Claims
<1>3. Flights(u) \subseteq Requests /\ Picking(u) \subseteq Flights(u)
  BY DEF Flights, Picking, LeasingFor
<1>4. get_leased_hosts(hosts, u) \in SUBSET Hosts
  BY DEF get_leased_hosts
<1>5. QED BY <1>1, <1>2, <1>3, <1>4 DEF Claimed

\* Requests that leave or shrink leave room.
LEMMA FewerKeepsFlight ==
    ASSUME NEW K \in Nat \ {0}, NEW u \in Users, Core, Core', FlightInv(K, u),
           InFlightAtMost(K, u), Fewer(u)
    PROVE  FlightInv(K, u)'
<1> USE DEF Fewer
<1>1. IsFiniteSet(Flights(u)) /\ Picking(u) \in SUBSET Flights(u) /\ get_lease_limit(u) \in Nat
  BY ClaimsFinite, HostsServiceAssumption DEF InFlightAtMost
<1>2. ASSUME NEW F \in SUBSET Flights(u)', IsFiniteSet(F)
      PROVE  Cardinality(Claims(F)') + Cardinality(F \cap Picking(u)')
                <= Cardinality(F) * get_lease_limit(u)
  <2>1. F \in SUBSET Flights(u) /\ F \in SUBSET Requests
    BY ClaimsFinite
  <2>2. Claims(F)' \subseteq Claims(F)
    BY <2>1 DEF Claims
  <2>3. /\ Cardinality(Claims(F)') <= Cardinality(Claims(F))
        /\ Cardinality(Claims(F)') \in Nat /\ Cardinality(Claims(F)) \in Nat
    <3>1. Claims(F) \in SUBSET Hosts /\ Claims(F)' \in SUBSET Claims(F)
      BY <2>1, <2>2, ClaimsFinite
    <3>2. Claims(F)' \in SUBSET Hosts
      BY <3>1
    <3>3. QED BY <3>1, <3>2, HostsCard
  <2>4. /\ Cardinality(F \cap Picking(u)') <= Cardinality(F \cap Picking(u))
        /\ Cardinality(F \cap Picking(u)') \in Nat /\ Cardinality(F \cap Picking(u)) \in Nat
    <3>1. F \cap Picking(u)' \in SUBSET (F \cap Picking(u)) /\ F \cap Picking(u) \in SUBSET F
      OBVIOUS
    <3>2. IsFiniteSet(F \cap Picking(u))
      BY <1>2, <3>1, FS_Subset
    <3>3. IsFiniteSet(F \cap Picking(u)') /\ Cardinality(F \cap Picking(u)') <= Cardinality(F \cap Picking(u))
      BY <3>1, <3>2, FS_Subset
    <3>4. QED BY <3>2, <3>3, FS_CardinalityType
  <2>5. Cardinality(Claims(F)) + Cardinality(F \cap Picking(u))
           <= Cardinality(F) * get_lease_limit(u)
    BY <1>2, <2>1 DEF FlightInv
  <2>6. Cardinality(F) * get_lease_limit(u) \in Nat
    BY <1>1, <1>2, FS_CardinalityType, Times
  <2>7. QED BY <2>3, <2>4, <2>5, <2>6
<1>3. Cardinality(Claimed(u)') + Cardinality(Picking(u)') <= K * get_lease_limit(u)
  <2>1. /\ Cardinality(Claimed(u)') <= Cardinality(Claimed(u))
        /\ Cardinality(Claimed(u)') \in Nat /\ Cardinality(Claimed(u)) \in Nat
    <3>1. Claimed(u) \in SUBSET Hosts /\ Claimed(u)' \in SUBSET Claimed(u)
      BY ClaimsFinite
    <3>2. Claimed(u)' \in SUBSET Hosts
      BY <3>1
    <3>3. QED BY <3>1, <3>2, HostsCard
  <2>2. /\ Cardinality(Picking(u)') <= Cardinality(Picking(u))
        /\ Cardinality(Picking(u)') \in Nat /\ Cardinality(Picking(u)) \in Nat
    <3>1. IsFiniteSet(Picking(u))
      BY <1>1, FS_Subset
    <3>2. IsFiniteSet(Picking(u)') /\ Cardinality(Picking(u)') <= Cardinality(Picking(u))
      BY <3>1, FS_Subset
    <3>3. QED BY <3>1, <3>2, FS_CardinalityType
  <2>3. Cardinality(Claimed(u)) + Cardinality(Picking(u)) <= K * get_lease_limit(u)
    BY DEF FlightInv
  <2>4. K * get_lease_limit(u) \in Nat
    BY <1>1, Times
  <2>5. QED BY <2>1, <2>2, <2>3, <2>4
<1>4. QED BY <1>2, <1>3 DEF FlightInv

\* The size of the claims of a set of requests, one more added.
LEMMA CardinalityOfUnion ==
    ASSUME NEW S \in SUBSET Hosts, NEW T \in SUBSET Hosts
    PROVE  /\ Cardinality(S) \in Nat /\ Cardinality(T) \in Nat
           /\ Cardinality(S \cup T) \in Nat
           /\ Cardinality(S \cup T) <= Cardinality(S) + Cardinality(T)
<1>1. IsFiniteSet(S) /\ IsFiniteSet(T)
  BY HostsCard
<1>2. Cardinality(S \cup T) = Cardinality(S) + Cardinality(T) - Cardinality(S \cap T)
  BY <1>1, FS_Union
<1>3. S \cup T \in SUBSET Hosts /\ S \cap T \in SUBSET Hosts
  OBVIOUS
<1>4. /\ Cardinality(S) \in Nat /\ Cardinality(T) \in Nat
      /\ Cardinality(S \cup T) \in Nat /\ Cardinality(S \cap T) \in Nat
  BY <1>3, HostsCard
<1>5. QED BY <1>2, <1>4

\* A request that enters brings at most the limit of claims.
LEMMA EnterKeepsFlight ==
    ASSUME NEW K \in Nat \ {0}, NEW u \in Users, Core, Core', FlightInv(K, u),
           InFlightAtMost(K, u), InFlightAtMost(K, u)',
           NEW r \in Requests, Enters(u, r)
    PROVE  FlightInv(K, u)'
<1> DEFINE leased == get_leased_hosts(hosts, u)
           limit == get_lease_limit(u)
<1>1. /\ IsFiniteSet(Flights(u)) /\ Picking(u) \in SUBSET Flights(u) /\ limit \in Nat
      /\ Flights(u) \in SUBSET Requests /\ leased \in SUBSET Hosts
  BY ClaimsFinite, HostsServiceAssumption DEF InFlightAtMost
<1>2. /\ r \notin Flights(u) /\ Flights(u)' = Flights(u) \cup {r} /\ hosts' = hosts
      /\ \A q \in Flights(u) : Targets(q)' = Targets(q)
      /\ Targets(r)' \in SUBSET Hosts
  BY DEF Enters
<1>3. PICK P \in SUBSET {r} :
         /\ Picking(u)' = Picking(u) \cup P
         /\ Cardinality(leased) + Cardinality(Targets(r)') + Cardinality(P) <= limit
  BY DEF Enters
<1>4. /\ IsFiniteSet(P) /\ Cardinality(P) \in Nat /\ Cardinality(leased) \in Nat
      /\ Cardinality(Targets(r)') \in Nat
  BY <1>1, <1>2, FS_Singleton, FS_Subset, FS_CardinalityType, HostsCard
\* Any flights that were there before have claimed what they had.
<1>5. ASSUME NEW G \in SUBSET Flights(u)
      PROVE  /\ IsFiniteSet(G) /\ Cardinality(G) \in Nat
             /\ Claims(G) \in SUBSET Hosts /\ Claims(G)' = Claims(G)
             /\ G \cap Picking(u)' = G \cap Picking(u)
             /\ Cardinality(Claims(G)) \in Nat /\ Cardinality(G \cap Picking(u)) \in Nat
             /\ Cardinality(Claims(G)) + Cardinality(G \cap Picking(u))
                   <= Cardinality(G) * limit
  <2>1. IsFiniteSet(G) /\ Cardinality(G) \in Nat
    BY <1>1, FS_Subset, FS_CardinalityType
  <2>2. Claims(G) \in SUBSET Hosts /\ Cardinality(Claims(G)) \in Nat
    BY <1>1, ClaimsFinite, HostsCard
  <2>3. Claims(G)' = Claims(G)
    BY <1>2 DEF Claims
  <2>4. G \cap Picking(u)' = G \cap Picking(u)
    BY <1>2, <1>3
  <2>5. Cardinality(G \cap Picking(u)) \in Nat
    BY <2>1, FS_Intersection, FS_CardinalityType
  <2>6. QED BY <2>1, <2>2, <2>3, <2>4, <2>5 DEF FlightInv
\* The entering request adds its rows and its choice.
<1>6. ASSUME NEW G \in SUBSET Flights(u)
      PROVE  /\ Cardinality(leased \cup Claims(G \cup {r})')
                   + Cardinality((G \cup {r}) \cap Picking(u)')
                      <= (Cardinality(G) + 1) * limit
             /\ Cardinality(Claims(G \cup {r})') + Cardinality((G \cup {r}) \cap Picking(u)')
                      <= (Cardinality(G) + 1) * limit
  <2>1. Claims(G \cup {r})' = Claims(G) \cup Targets(r)'
    <3>1. \A q \in G : Targets(q)' = Targets(q)
      BY <1>2
    <3>2. QED BY <3>1 DEF Claims
  <2>2. (G \cup {r}) \cap Picking(u)' = (G \cap Picking(u)) \cup P
    BY <1>1, <1>2, <1>3
  <2>3. /\ Cardinality((G \cap Picking(u)) \cup P) \in Nat
        /\ Cardinality((G \cap Picking(u)) \cup P)
              <= Cardinality(G \cap Picking(u)) + Cardinality(P)
    <3>1. (G \cap Picking(u)) \cap P = {}
      BY <1>2
    <3>2. IsFiniteSet(G \cap Picking(u))
      BY <1>5, FS_Intersection
    <3>3. /\ IsFiniteSet((G \cap Picking(u)) \cup P)
          /\ Cardinality((G \cap Picking(u)) \cup P)
                = Cardinality(G \cap Picking(u)) + Cardinality(P) - Cardinality({})
      BY <1>4, <3>1, <3>2, FS_Union
    <3>4. QED BY <1>4, <1>5, <3>3, FS_EmptySet, FS_CardinalityType
  <2>4. /\ Cardinality(Claims(G) \cup Targets(r)') \in Nat
        /\ Cardinality(Claims(G) \cup Targets(r)')
              <= Cardinality(Claims(G)) + Cardinality(Targets(r)')
        /\ Cardinality(leased \cup (Claims(G) \cup Targets(r)')) \in Nat
        /\ Cardinality(leased \cup (Claims(G) \cup Targets(r)'))
              <= Cardinality(leased) + Cardinality(Claims(G) \cup Targets(r)')
    <3>1. Claims(G) \cup Targets(r)' \in SUBSET Hosts
      BY <1>2, <1>5
    <3>2. QED BY <1>1, <1>2, <1>5, <3>1, CardinalityOfUnion
  <2>5. (Cardinality(G) + 1) * limit = Cardinality(G) * limit + limit
        /\ Cardinality(G) * limit \in Nat
    <3>1. Cardinality(G) \in Nat
      BY <1>5
    <3>2. Cardinality(G) <= Cardinality(G)
      BY <3>1
    <3>3. QED BY <1>1, <3>1, <3>2, Times
  <2>6. Cardinality(Claims(G)) + Cardinality(G \cap Picking(u)) <= Cardinality(G) * limit
    BY <1>5
  <2>7. Cardinality(Claims(G)) \in Nat /\ Cardinality(G \cap Picking(u)) \in Nat
    BY <1>5
  <2>8. Cardinality(leased \cup (Claims(G) \cup Targets(r)'))
           + Cardinality((G \cap Picking(u)) \cup P) <= Cardinality(G) * limit + limit
    BY <1>1, <1>3, <1>4, <2>3, <2>4, <2>5, <2>6, <2>7
  <2>9. Cardinality(Claims(G) \cup Targets(r)')
           + Cardinality((G \cap Picking(u)) \cup P) <= Cardinality(G) * limit + limit
    BY <1>1, <1>3, <1>4, <2>3, <2>4, <2>5, <2>6, <2>7
  <2>10. QED BY <2>1, <2>2, <2>5, <2>8, <2>9
<1>7. ASSUME NEW F \in SUBSET Flights(u)', IsFiniteSet(F)
      PROVE  Cardinality(Claims(F)') + Cardinality(F \cap Picking(u)')
                <= Cardinality(F) * limit
  <2>1. CASE r \notin F
    BY <1>2, <1>5, <2>1
  <2>2. CASE r \in F
    <3>1. PICK G \in SUBSET Flights(u) : G = F \ {r}
      BY <1>2
    <3>2. F = G \cup {r} /\ r \notin G
      BY <2>2, <3>1
    <3>3. Cardinality(F) = Cardinality(G) + 1
      BY <1>5, <3>2, FS_AddElement
    <3>4. QED BY <1>6, <3>2, <3>3
  <2>3. QED BY <2>1, <2>2
<1>8. Cardinality(Claimed(u)') + Cardinality(Picking(u)') <= K * limit
  <2>1. PICK G \in SUBSET Flights(u) : G = Flights(u)
    OBVIOUS
  <2>2. Claimed(u)' = leased \cup Claims(G \cup {r})'
    BY <1>2, <2>1 DEF Claimed, Claims
  <2>3. (G \cup {r}) \cap Picking(u)' = Picking(u)'
    BY <1>1, <1>2, <1>3, <2>1
  <2>4. Cardinality(Flights(u)') = Cardinality(G) + 1
    <3>1. Flights(u)' = G \cup {r} /\ r \notin G
      BY <1>2, <2>1
    <3>2. IsFiniteSet(G)
      BY <1>5
    <3>3. Cardinality(G \cup {r}) = Cardinality(G) + 1
      BY <3>1, <3>2, FS_AddElement
    <3>4. QED BY <3>1, <3>3
  <2>5. Cardinality(G) \in Nat /\ Cardinality(G) + 1 \in Nat /\ Cardinality(G) + 1 <= K
    <3>1. Cardinality(G) \in Nat
      BY <1>5
    <3>2. Cardinality(Flights(u)') <= K
      BY DEF InFlightAtMost
    <3>3. QED BY <2>4, <3>1, <3>2
  <2>6. (Cardinality(G) + 1) * limit <= K * limit
        /\ (Cardinality(G) + 1) * limit \in Nat /\ K * limit \in Nat
    <3>1. K <= K
      OBVIOUS
    <3>2. QED BY <1>1, <2>5, <3>1, Times
  <2>7. Cardinality(Claimed(u)') + Cardinality(Picking(u)') <= (Cardinality(G) + 1) * limit
    <3>1. Cardinality(leased \cup Claims(G \cup {r})')
             + Cardinality((G \cup {r}) \cap Picking(u)')
             <= (Cardinality(G) + 1) * limit
      BY <1>6
    <3>2. QED BY <2>2, <2>3, <3>1
  <2>8. Cardinality(Claimed(u)') \in Nat /\ Cardinality(Picking(u)') \in Nat
    <3>1. Claims(G \cup {r})' = Claims(G) \cup Targets(r)'
      <4>1. \A q \in G : Targets(q)' = Targets(q)
        BY <1>2
      <4>2. QED BY <4>1 DEF Claims
    <3>2. Claimed(u)' \in SUBSET Hosts
      BY <1>1, <1>2, <1>5, <2>2, <3>1
    <3>3. IsFiniteSet(Picking(u)')
      BY <1>1, <1>3, <1>4, FS_Subset, FS_Union
    <3>4. QED BY <3>2, <3>3, HostsCard, FS_CardinalityType
  <2>9. QED BY <2>6, <2>7, <2>8
<1>9. QED BY <1>7, <1>8 DEF FlightInv

\* The SELECT of lease_random turns the host it had room for into a row it
\* claims.
LEMMA ChooseKeepsFlight ==
    ASSUME NEW K \in Nat \ {0}, NEW u \in Users, Core, Core', FlightInv(K, u),
           InFlightAtMost(K, u), NEW r \in Requests, Chooses(u, r)
    PROVE  FlightInv(K, u)'
<1> DEFINE leased == get_leased_hosts(hosts, u)
           limit == get_lease_limit(u)
<1>1. /\ IsFiniteSet(Flights(u)) /\ Picking(u) \in SUBSET Flights(u) /\ limit \in Nat
      /\ Flights(u) \in SUBSET Requests /\ leased \in SUBSET Hosts
      /\ Claimed(u) \in SUBSET Hosts
  BY ClaimsFinite, HostsServiceAssumption DEF InFlightAtMost
<1>2. PICK h \in Hosts : Targets(r)' \subseteq {h}
  BY DEF Chooses
<1>3. /\ r \in Picking(u) /\ r \in Flights(u)
      /\ Picking(u)' = Picking(u) \ {r} /\ Flights(u)' = Flights(u) /\ hosts' = hosts
      /\ \A q \in Flights(u) \ {r} : Targets(q)' = Targets(q)
  BY <1>1 DEF Chooses
\* One host more at most, and one choice less.
<1>4. ASSUME NEW C \in SUBSET Hosts, NEW D \in SUBSET (C \cup {h}),
             NEW M \in SUBSET Flights(u), r \in M
      PROVE  /\ Cardinality(D) \in Nat /\ Cardinality(M \ {r}) \in Nat
             /\ Cardinality(D) + Cardinality(M \ {r}) <= Cardinality(C) + Cardinality(M)
  <2>1. IsFiniteSet(M) /\ Cardinality(M) \in Nat
    BY <1>1, FS_Subset, FS_CardinalityType
  <2>2. Cardinality(M \ {r}) = Cardinality(M) - 1 /\ IsFiniteSet(M \ {r})
    BY <1>4, <2>1, FS_RemoveElement
  <2>3. Cardinality(M \ {r}) \in Nat
    BY <2>2, FS_CardinalityType
  <2>4. /\ Cardinality(C \cup {h}) <= Cardinality(C) + 1
        /\ Cardinality(C) \in Nat /\ Cardinality(C \cup {h}) \in Nat
    <3>1. {h} \in SUBSET Hosts /\ Cardinality({h}) = 1
      BY FS_Singleton
    <3>2. QED BY <3>1, CardinalityOfUnion
  <2>5. Cardinality(D) <= Cardinality(C \cup {h}) /\ Cardinality(D) \in Nat
    <3>1. C \cup {h} \in SUBSET Hosts /\ D \in SUBSET Hosts
      OBVIOUS
    <3>2. QED BY <3>1, HostsCard
  <2>6. QED BY <2>1, <2>2, <2>3, <2>4, <2>5
<1>5. ASSUME NEW F \in SUBSET Flights(u)
      PROVE  Claims(F)' \subseteq Claims(F) \cup {h}
  <2>1. \A q \in F : Targets(q)' \subseteq Targets(q) \cup {h}
    BY <1>2, <1>3
  <2>2. QED BY <2>1 DEF Claims
<1>6. ASSUME NEW F \in SUBSET Flights(u), IsFiniteSet(F)
      PROVE  Cardinality(Claims(F)') + Cardinality(F \cap Picking(u)')
                <= Cardinality(F) * limit
  <2>1. /\ Cardinality(Claims(F)) + Cardinality(F \cap Picking(u)) <= Cardinality(F) * limit
        /\ Cardinality(F) * limit \in Nat
    <3>1. Cardinality(F) \in Nat
      BY <1>6, FS_CardinalityType
    <3>2. Cardinality(F) <= Cardinality(F)
      BY <3>1
    <3>3. QED BY <1>1, <1>6, <3>1, <3>2, Times DEF FlightInv
  <2>2. /\ Claims(F) \in SUBSET Hosts /\ Cardinality(Claims(F)) \in Nat
        /\ Cardinality(F \cap Picking(u)) \in Nat
    BY <1>1, <1>6, ClaimsFinite, HostsCard, FS_Intersection, FS_CardinalityType
  <2>3. CASE r \notin F
    <3>1. Claims(F)' = Claims(F)
      BY <1>3, <2>3 DEF Claims
    <3>2. F \cap Picking(u)' = F \cap Picking(u)
      BY <1>3, <2>3
    <3>3. QED BY <2>1, <3>1, <3>2
  <2>4. CASE r \in F
    <3>1. F \cap Picking(u)' = (F \cap Picking(u)) \ {r}
      BY <1>3
    <3>2. PICK M \in SUBSET Flights(u) : M = F \cap Picking(u)
      OBVIOUS
    <3>3. r \in M
      BY <1>3, <2>4, <3>2
    <3>4. Cardinality(Claims(F)') + Cardinality(M \ {r})
             <= Cardinality(Claims(F)) + Cardinality(M)
          /\ Cardinality(Claims(F)') \in Nat /\ Cardinality(M \ {r}) \in Nat
      BY <1>4, <1>5, <2>2, <3>3
    <3>5. /\ Cardinality(F \cap Picking(u)') = Cardinality(M \ {r})
          /\ Cardinality(F \cap Picking(u)) = Cardinality(M)
      BY <3>1, <3>2
    <3>6. QED BY <2>1, <2>2, <3>4, <3>5
  <2>5. QED BY <2>3, <2>4
<1>7. Cardinality(Claimed(u)') + Cardinality(Picking(u)') <= K * limit
  <2>1. Claimed(u)' \subseteq Claimed(u) \cup {h}
    <3>1. PICK F \in SUBSET Flights(u) : F = Flights(u)
      OBVIOUS
    <3>2. Claims(F)' \subseteq Claims(F) \cup {h}
      BY <1>5
    <3>3. Claims(Flights(u))' = Claims(F)'
      BY <1>3, <3>1 DEF Claims
    <3>4. QED BY <1>3, <3>1, <3>2, <3>3 DEF Claimed
  <2>2. Cardinality(Claimed(u)) + Cardinality(Picking(u)) <= K * limit
    BY DEF FlightInv
  <2>3. /\ Cardinality(Claimed(u)') \in Nat /\ Cardinality(Picking(u)') \in Nat
        /\ Cardinality(Claimed(u)') + Cardinality(Picking(u)')
              <= Cardinality(Claimed(u)) + Cardinality(Picking(u))
    BY <1>1, <1>3, <1>4, <2>1
  <2>4. Cardinality(Claimed(u)) \in Nat /\ Cardinality(Picking(u)) \in Nat /\ K * limit \in Nat
    BY <1>1, HostsCard, FS_Subset, FS_CardinalityType, Times
  <2>5. QED BY <2>2, <2>3, <2>4
<1>8. QED BY <1>3, <1>6, <1>7 DEF FlightInv

\* A user who sends lease requests at the same time can take more hosts than
\* the limit allows, since each of them checks it on its own SELECT before any
\* has committed (HostsService::lease, lease_random); but with at most K of
\* them in flight at a time never more than K times as many.
THEOREM ConcurrentLimit ==
    ASSUME NEW K \in Nat \ {0}, NEW u \in Users
    PROVE  Spec /\ []InFlightAtMost(K, u)
              => [](Cardinality(get_leased_hosts(hosts, u)) <= K * get_lease_limit(u))
<1>1. get_lease_limit(u) \in Nat
  BY HostsServiceAssumption
<1>2. Init => FlightInv(K, u)
  <2> SUFFICES ASSUME Init PROVE FlightInv(K, u)
    OBVIOUS
  <2>1. Flights(u) = {} /\ Picking(u) = {}
    BY TasksApart DEF Init, ServiceInit, NoStmt, Flights, Picking, LeasingFor
  <2>2. Claims({}) = {} /\ Claimed(u) = get_leased_hosts(hosts, u)
    BY <2>1 DEF Claims, Claimed
  <2>3. Cardinality(Claimed(u)) <= get_lease_limit(u) /\ Cardinality(Claimed(u)) \in Nat
    BY <2>2, CoreInit, ClaimsFinite, HostsCard DEF Init
  <2>4. Cardinality({}) = 0
    BY FS_EmptySet
  <2>5. get_lease_limit(u) <= K * get_lease_limit(u) /\ K * get_lease_limit(u) \in Nat
    <3>1. 1 * get_lease_limit(u) = get_lease_limit(u) /\ 1 <= K /\ K <= K
      BY <1>1
    <3>2. QED BY <1>1, <3>1, Times
  <2>6. Cardinality(Claimed(u)) + Cardinality(Picking(u)) <= K * get_lease_limit(u)
    BY <1>1, <2>1, <2>3, <2>4, <2>5
  <2>7. \A F \in SUBSET Flights(u) :
          Cardinality(Claims(F)) + Cardinality(F \cap Picking(u))
             <= Cardinality(F) * get_lease_limit(u)
    <3>1. \A F \in SUBSET Flights(u) : F = {}
      BY <2>1
    <3>2. {} \cap Picking(u) = {} /\ 0 + 0 <= 0 * get_lease_limit(u)
      BY <1>1
    <3>3. QED BY <2>2, <2>4, <3>1, <3>2
  <2>8. QED BY <2>6, <2>7 DEF FlightInv
<1>3. /\ Core /\ Core' /\ [Next]_vars /\ FlightInv(K, u)
      /\ InFlightAtMost(K, u) /\ InFlightAtMost(K, u)'
      => FlightInv(K, u)'
  BY ClaimStep, FewerKeepsFlight, EnterKeepsFlight, ChooseKeepsFlight
<1>4. Core /\ FlightInv(K, u) /\ InFlightAtMost(K, u)
         => Cardinality(get_leased_hosts(hosts, u)) <= K * get_lease_limit(u)
  <2> SUFFICES ASSUME Core, FlightInv(K, u), InFlightAtMost(K, u)
               PROVE  Cardinality(get_leased_hosts(hosts, u)) <= K * get_lease_limit(u)
    OBVIOUS
  <2>1. Cardinality(get_leased_hosts(hosts, u)) <= Cardinality(Claimed(u))
        /\ Cardinality(get_leased_hosts(hosts, u)) \in Nat
        /\ Cardinality(Claimed(u)) \in Nat
    BY ClaimsFinite, HostsCard DEF Claimed
  <2>2. Cardinality(Picking(u)) \in Nat
    BY ClaimsFinite, FS_Subset, FS_CardinalityType DEF InFlightAtMost
  <2>3. K * get_lease_limit(u) \in Nat
    BY <1>1, Times
  <2>4. Cardinality(Claimed(u)) + Cardinality(Picking(u)) <= K * get_lease_limit(u)
    BY DEF FlightInv
  <2>5. QED BY <2>1, <2>2, <2>3, <2>4
<1>5. QED BY <1>2, <1>3, <1>4, CoreInit, CoreNext, PTL DEF Spec

\* Only a commit changes the committed table, and only the statement of the
\* transaction that commits is ended by that step.
LEMMA OnlyCommitPublishes ==
    ASSUME Core, [Next]_vars, hosts' # hosts
    PROVE  \E t \in Tx : /\ Commit(t)
                         /\ \A v \in Tx : v # t => stmt'[v] = stmt[v]
                         /\ stmt[t] \in Stmt
<1> USE TasksApart
<1>1. \E t \in Tx : Commit(t)
  <2>1. ASSUME NEW r \in Requests,
               \/ StartRequest(r) \/ PickHost(r) \/ RequestRow(r)
               \/ RequestCommit(r) \/ abort(r)
        PROVE  Commit(r)
    <3>1. ~StartRequest(r)
      BY DEF StartRequest, Arrive, lease, lease_random, bad_duration, Refuse, Update, StartStmt,
             free, free_all_hosts, registryVars
    <3>2. ~PickHost(r)
      BY DEF PickHost, Pick, lease_random_pick, Update, StartStmt, registryVars
    <3>3. ~RequestRow(r) /\ ~abort(r)
      BY DEF RequestRow, write_row, WriteRow, abort, Rollback
    <3>4. QED BY <2>1, <3>1, <3>2, <3>3 DEF RequestCommit, commit
  <2>2. ASSUME NEW c \in Callbacks,
               \/ StartCallback(c) \/ CallbackUpdate(c) \/ CallbackRow(c)
               \/ CallbackCommit(c) \/ extend_fail(c)
        PROVE  Commit(c)
    <3>1. ~StartCallback(c)
      BY DEF StartCallback, Press, ignore_callback, extend_select, registryVars
    <3>2. ~CallbackUpdate(c) /\ ~CallbackRow(c) /\ ~extend_fail(c)
      BY DEF CallbackUpdate, extend_update, StartStmt, CallbackRow, extend_row, WriteRow,
             extend_fail, Rollback
    <3>3. QED BY <2>2, <3>1, <3>2 DEF CallbackCommit, extend_commit
  <2>3. ASSUME TimerSelect \/ TimerRow \/ TimerCommit \/ release_fail
        PROVE  Commit(Timer)
    <3>1. ~TimerSelect /\ ~TimerRow /\ ~release_fail
      BY DEF TimerSelect, release_select, StartStmt, TimerRow, release_row, WriteRow,
             release_fail, Rollback
    <3>2. QED BY <2>3, <3>1 DEF TimerCommit, release_commit
  <2>4. ~Tick /\ ~UNCHANGED vars
    BY DEF Tick, vars, registryVars
  <2>5. QED
    BY <2>1, <2>2, <2>3, <2>4
    DEF Next, RequestFails, CallbackFails, TimerFails, DeadlockVictim
<1>2. QED BY <1>1 DEF Commit, Core, TableInv, RegistryTypeOK

\* A row that a commit changes is one it had locked, and its new version is
\* what the statement makes of it.
LEMMA PublishedRow ==
    ASSUME Core, NEW t \in Tx, Commit(t), NEW h \in Hosts, hosts'[h] # hosts[h]
    PROVE  /\ rowLock[h] = t
           /\ hosts[h] \in Row /\ stmt[t] \in Stmt
           /\ Matches(stmt[t], hosts[h])
           /\ hosts'[h] = Assigned(stmt[t], hosts[h])
<1>1. rowLock[h] = t /\ hosts'[h] = draft[h]
  BY DEF Commit
<1>2. /\ hosts'[h] = Applied(stmt[t], hosts[h])
      /\ hosts[h] \in Row /\ stmt[t] \in Stmt
  BY <1>1 DEF Core, TableInv, DraftInv, RegistryTypeOK
<1>3. QED BY <1>1, <1>2 DEF Applied

\* A user's release request frees hosts of that user only: the WHERE clause is
\* evaluated again on the row the UPDATE has locked.
THEOREM ReleasesOwnHosts == Spec => ReleaseOnlyOwn
<1>1. ASSUME IInv, [Next]_vars, NEW r \in Requests, NEW h \in Hosts,
             stmt[r].kind \in {"free_hosts_for_user", "free_all"},
             stmt'[r].kind = "none", hosts'[h] # hosts[h]
      PROVE  hosts[h].user = stmt[r].user
  <2>1. Core /\ r \in Tx
    BY <1>1, IInvParts, TasksApart
  <2>2. PICK t \in Tx : Commit(t) /\ \A v \in Tx : v # t => stmt'[v] = stmt[v]
    BY <1>1, <2>1, OnlyCommitPublishes
  <2>3. t = r
    BY <1>1, <2>1, <2>2
  <2>4. Matches(stmt[r], hosts[h])
    BY <1>1, <2>1, <2>2, <2>3, PublishedRow
  <2>5. QED BY <1>1, <2>4 DEF Matches
<1>2. IInv /\ [Next]_vars =>
         [\A r \in Requests, h \in Hosts :
             (/\ stmt[r].kind \in {"free_hosts_for_user", "free_all"}
              /\ stmt'[r].kind = "none"
              /\ hosts'[h] # hosts[h]) => hosts[h].user = stmt[r].user]_vars
  BY <1>1
<1>3. QED BY <1>2, Invariant, PTL DEF Spec, ReleaseOnlyOwn

\* What a serial user holds is never cut short: their own lease does not touch
\* it, and an extension adds a positive number of hours.
THEOREM SerialLeasesNotShortened == Spec => SerialLeaseNeverShortened
<1>1. ASSUME IInv, [Next]_vars, NEW u \in SerialUsers, NEW h \in Hosts,
             hosts[h].user = u, hosts'[h].user = u
      PROVE  hosts'[h].until >= hosts[h].until
  <2>1. /\ Core /\ RoomFor(u) /\ u \in Users
        /\ hosts[h] \in Row /\ WellFormed(hosts[h])
    BY <1>1, IInvParts, HostsServiceAssumption
    DEF SerialInv, Core, TableInv, RegistryTypeOK, LeaseConsistency
  <2>2. hosts[h].until \in Int
    BY <1>1, <2>1, RegistryAssumption DEF WellFormed, Row
  <2>3. CASE hosts'[h] = hosts[h]
    BY <2>2, <2>3
  <2>4. CASE hosts'[h] # hosts[h]
    <3>1. PICK t \in Tx : Commit(t)
      BY <1>1, <2>1, <2>4, OnlyCommitPublishes
    <3>2. /\ rowLock[h] = t /\ stmt[t] \in Stmt
          /\ hosts'[h] = Assigned(stmt[t], hosts[h])
      BY <2>1, <2>4, <3>1, PublishedRow
    <3>3. stmt[t].kind # "none"
      BY <3>1 DEF Commit
    <3>4. stmt[t].kind # "lease_hosts"
      <4>1. SUFFICES ASSUME stmt[t].kind = "lease_hosts" PROVE FALSE
        OBVIOUS
      <4>2. stmt[t].user = u
        BY <1>1, <3>2, <4>1 DEF Assigned
      <4>3. t \in Requests
        BY <4>1, <2>1 DEF Core, TasksOK, StmtInv, Tx
      <4>4. Targets(t) \cap get_leased_hosts(hosts, u) = {}
        BY <2>1, <4>1, <4>2, <4>3 DEF RoomFor
      <4>5. h \in Targets(t) /\ h \in get_leased_hosts(hosts, u)
        BY <1>1, <3>2 DEF Targets, LockedBy, get_leased_hosts
      <4>6. QED BY <4>4, <4>5
    <3>5. stmt[t].kind = "extend_hosts_lease"
      <4>1. SUFFICES ASSUME stmt[t].kind # "extend_hosts_lease" PROVE FALSE
        OBVIOUS
      <4>2. hosts'[h] = FreeRow
        BY <3>2, <3>4, <4>1 DEF Assigned
      <4>3. QED BY <1>1, <2>1, <4>2, RegistryAssumption DEF FreeRow
    <3>6. stmt[t].arg > 0 /\ stmt[t].arg \in Int
      BY <2>1, <3>2, <3>5 DEF Core, TasksOK, StmtInv, Tx, Stmt
    <3>7. hosts'[h] = [hosts[h] EXCEPT !.until = @ + stmt[t].arg]
      BY <3>2, <3>5 DEF Assigned
    <3>8. hosts'[h].until = hosts[h].until + stmt[t].arg
      BY <2>1, <3>7 DEF Row
    <3>9. QED BY <2>2, <3>6, <3>8
  <2>5. QED BY <2>3, <2>4
<1>2. IInv /\ [Next]_vars =>
         [\A u \in SerialUsers, h \in Hosts :
             hosts[h].user = u /\ hosts'[h].user = u
                => hosts'[h].until >= hosts[h].until]_vars
  BY <1>1
<1>3. QED BY <1>2, Invariant, PTL DEF Spec, SerialLeaseNeverShortened

-----------------------------------------------------------------------------
(***************************************************************************)
(* What goes wrong between a SELECT and the locks of its UPDATE, and       *)
(* nowhere else.                                                           *)
(***************************************************************************)
\* Nobody commits to the rows that t has selected before t has locked them.
LeftAlone(t) == \A h \in stmt[t].todo : hosts'[h] = hosts[h]

\* A transaction that runs nothing starts an UPDATE, the timer's for the leases
\* that are over.
Starts(t) ==
    /\ stmt[t] = NoStmt
    /\ \E s : /\ StartStmt(t, s)
              /\ t = Timer => s = free_hosts(get_leased_until_hosts(hosts, now))

\* A step starts one UPDATE, which is the timer's only for leases that are over,
\* locks a row, ends a transaction, or is nothing to the table.
LEMMA TableSteps ==
    ASSUME Core, [Next]_vars
    PROVE  \/ UNCHANGED <<hosts, rowLock, stmt>>
           \/ \E t \in Tx : Starts(t)
           \/ \E t \in Tx : WriteRow(t) \/ Commit(t) \/ Rollback(t)
<1> USE TasksApart
<1>1. ASSUME NEW r \in Requests,
             \/ StartRequest(r) \/ PickHost(r) \/ RequestRow(r)
             \/ RequestCommit(r) \/ abort(r)
      PROVE  \/ UNCHANGED <<hosts, rowLock, stmt>>
             \/ Starts(r)
             \/ WriteRow(r) \/ Commit(r) \/ Rollback(r)
  <2>1. pc[r] \in {"new", "pick"} => stmt[r] = NoStmt
    BY DEF Core, TasksOK, StmtInv
  <2>2. CASE StartRequest(r)
    BY <2>1, <2>2
    DEF StartRequest, Arrive, lease, lease_random, bad_duration, Refuse, Update, free,
        free_all_hosts, registryVars, Starts
  <2>3. CASE PickHost(r)
    BY <2>1, <2>3 DEF PickHost, Pick, lease_random_pick, Update, registryVars, Starts
  <2>4. CASE RequestRow(r) \/ RequestCommit(r) \/ abort(r)
    BY <2>4 DEF RequestRow, write_row, RequestCommit, commit, abort
  <2>5. QED BY <1>1, <2>2, <2>3, <2>4
<1>2. ASSUME NEW c \in Callbacks,
             \/ StartCallback(c) \/ CallbackUpdate(c) \/ CallbackRow(c)
             \/ CallbackCommit(c) \/ extend_fail(c)
      PROVE  \/ UNCHANGED <<hosts, rowLock, stmt>>
             \/ Starts(c)
             \/ WriteRow(c) \/ Commit(c) \/ Rollback(c)
  <2>1. cb[c] \in {"new", "query"} => stmt[c] = NoStmt
    BY DEF Core, TasksOK, StmtInv
  <2>2. CASE StartCallback(c)
    BY <2>2 DEF StartCallback, Press, ignore_callback, extend_select, registryVars
  <2>3. CASE CallbackUpdate(c)
    BY <2>1, <2>3 DEF CallbackUpdate, extend_update, Starts
  <2>4. CASE CallbackRow(c) \/ CallbackCommit(c) \/ extend_fail(c)
    BY <2>4 DEF CallbackRow, extend_row, CallbackCommit, extend_commit, extend_fail
  <2>5. QED BY <1>2, <2>2, <2>3, <2>4
<1>3. ASSUME TimerSelect \/ TimerRow \/ TimerCommit \/ release_fail
      PROVE  \/ Starts(Timer)
             \/ WriteRow(Timer) \/ Commit(Timer) \/ Rollback(Timer)
  <2>1. timer = "sleep" => stmt[Timer] = NoStmt
    BY DEF Core, TasksOK, StmtInv
  <2>2. QED
    BY <1>3, <2>1
    DEF TimerSelect, release_select, TimerRow, release_row, TimerCommit, release_commit,
        release_fail, Starts
<1>4. CASE Tick \/ UNCHANGED vars
  BY <1>4 DEF Tick, vars, registryVars
<1>5. QED
  BY <1>1, <1>2, <1>3, <1>4 DEF Next, RequestFails, CallbackFails, TimerFails, DeadlockVictim

\* As long as t's UPDATE goes on and its candidates are left alone until it has
\* locked them, its rows stay the same.
LEMMA TargetsKept ==
    ASSUME Core, [Next]_vars, NEW t \in Tx, LeftAlone(t),
           stmt[t].kind # "none", stmt'[t].kind # "none"
    PROVE  /\ stmt'[t].kind = stmt[t].kind
           /\ Targets(t)' \subseteq Targets(t)
           /\ \A h \in Targets(t) : hosts'[h] = hosts[h]
<1> USE DEF Targets, LockedBy
<1>1. t # Null /\ stmt \in [Tx -> Stmt] /\ rowLock \in [Hosts -> Tx \cup {Null}]
  BY RegistryAssumption DEF Core, TableInv, RegistryTypeOK
<1>2. CASE UNCHANGED <<hosts, rowLock, stmt>>
  BY <1>2
<1>3. ASSUME NEW v \in Tx, Starts(v)
      PROVE  /\ stmt'[t].kind = stmt[t].kind
             /\ Targets(t)' \subseteq Targets(t)
             /\ \A h \in Targets(t) : hosts'[h] = hosts[h]
  <2>1. v # t
    BY <1>3 DEF NoStmt, Starts
  <2>2. stmt'[t] = stmt[t] /\ UNCHANGED <<hosts, rowLock>>
    BY <1>1, <1>3, <2>1 DEF StartStmt, Starts
  <2>3. QED BY <2>2
<1>4. ASSUME NEW v \in Tx, WriteRow(v)
      PROVE  /\ stmt'[t].kind = stmt[t].kind
             /\ Targets(t)' \subseteq Targets(t)
             /\ \A h \in Targets(t) : hosts'[h] = hosts[h]
  <2>1. PICK g \in stmt[v].todo :
          /\ rowLock' = [rowLock EXCEPT ![g] = v]
          /\ stmt' = [stmt EXCEPT ![v].todo = @ \ {g}]
          /\ hosts' = hosts
    BY <1>4 DEF WriteRow
  <2>2. stmt[t] \in Stmt /\ g \in Hosts
    BY <1>1, <2>1 DEF Stmt
  <2>3. CASE v = t
    <3>1. stmt'[t] = [stmt[t] EXCEPT !.todo = @ \ {g}]
      BY <1>1, <2>1, <2>3
    <3>2. stmt'[t].kind = stmt[t].kind /\ stmt'[t].todo = stmt[t].todo \ {g}
      BY <2>2, <3>1 DEF Stmt
    <3>3. \A h \in Hosts : rowLock'[h] = t => h = g \/ rowLock[h] = t
      BY <1>1, <2>1
    <3>4. QED BY <2>1, <2>3, <3>2, <3>3
  <2>4. CASE v # t
    <3>1. stmt'[t] = stmt[t] /\ \A h \in Hosts : rowLock'[h] = t => rowLock[h] = t
      BY <1>1, <2>1, <2>4
    <3>2. QED BY <2>1, <3>1
  <2>5. QED BY <2>3, <2>4
<1>5. ASSUME NEW v \in Tx, Commit(v) \/ Rollback(v)
      PROVE  /\ stmt'[t].kind = stmt[t].kind
             /\ Targets(t)' \subseteq Targets(t)
             /\ \A h \in Targets(t) : hosts'[h] = hosts[h]
  <2>1. v # t
    BY <1>1, <1>5 DEF Commit, Rollback, NoStmt
  <2>2. stmt'[t] = stmt[t]
    BY <1>1, <1>5, <2>1 DEF Commit, Rollback
  <2>3. \A h \in Hosts : rowLock'[h] = t => rowLock[h] = t
    BY <1>1, <1>5 DEF Commit, Rollback, Unlocked
  <2>4. \A h \in LockedBy(t) : hosts'[h] = hosts[h]
    BY <1>5, <2>1 DEF Commit, Rollback
  <2>5. QED BY <2>2, <2>3, <2>4 DEF LeftAlone
<1>6. QED BY <1>2, <1>3, <1>4, <1>5, TableSteps

\* Who starts an UPDATE has nothing locked.
LEMMA StartedUnlocked ==
    ASSUME Core, [Next]_vars, NEW t \in Tx, stmt[t].kind = "none", stmt'[t].kind # "none"
    PROVE  /\ Targets(t)' = stmt'[t].todo
           /\ UNCHANGED hosts
           /\ t = Timer => stmt'[t].todo \subseteq get_leased_until_hosts(hosts, now)
<1>1. stmt \in [Tx -> Stmt] /\ \A h \in Hosts : rowLock[h] # t
  BY DEF Core, TableInv, RegistryTypeOK, DraftInv
<1>2. stmt'[t] # stmt[t]
  OBVIOUS
<1>3. \A v \in Tx : ~(WriteRow(v) \/ Commit(v) \/ Rollback(v))
  <2>1. SUFFICES ASSUME NEW v \in Tx, WriteRow(v) \/ Commit(v) \/ Rollback(v) PROVE FALSE
    OBVIOUS
  <2>2. v = t
    BY <1>1, <1>2, <2>1 DEF WriteRow, Commit, Rollback
  <2>3. stmt[t] = NoStmt
    BY DEF Core, TasksOK, StmtInv
  <2>4. ~WriteRow(t)
    BY <2>3 DEF WriteRow, NoStmt
  <2>5. stmt'[t] # NoStmt
    BY DEF NoStmt
  <2>6. QED BY <1>1, <2>1, <2>2, <2>4, <2>5 DEF Commit, Rollback
<1>4. PICK v \in Tx : Starts(v)
  BY <1>2, <1>3, TableSteps
<1>5. PICK s : /\ StartStmt(v, s)
               /\ v = Timer => s = free_hosts(get_leased_until_hosts(hosts, now))
  BY <1>4 DEF Starts
<1>6. v = t
  BY <1>1, <1>2, <1>5 DEF StartStmt
<1>7. UNCHANGED <<hosts, rowLock>>
  BY <1>5 DEF StartStmt
<1>8. Targets(t)' = stmt'[t].todo
  BY <1>1, <1>7 DEF Targets, LockedBy
<1>9. t = Timer => stmt'[t].todo \subseteq get_leased_until_hosts(hosts, now)
  <2>1. SUFFICES ASSUME t = Timer
                 PROVE  stmt'[t].todo \subseteq get_leased_until_hosts(hosts, now)
    OBVIOUS
  <2>2. s.todo = get_leased_until_hosts(hosts, now)
    BY <1>5, <1>6, <2>1 DEF free_hosts
  <2>3. stmt'[t].todo = {h \in s.todo : Matches(s, hosts[h])}
    BY <1>1, <1>5, <1>6, <2>1 DEF StartStmt, free_hosts
  <2>4. QED BY <2>2, <2>3
<1>10. QED BY <1>7, <1>8, <1>9

\* The clock does not go back.
LEMMA ClockGoesOn == Core /\ [Next]_vars => now' \in Int /\ now <= now'
<1> SUFFICES ASSUME Core, [Next]_vars PROVE now' \in Int /\ now <= now'
  OBVIOUS
<1>1. now \in Int
  BY DEF Core, TableInv, RegistryTypeOK
<1>2. now' \in Int
  BY CoreNext DEF Core, TableInv, RegistryTypeOK
<1>3. CASE now' = now
  BY <1>1, <1>3
<1>4. CASE Tick
  BY <1>1, <1>4 DEF Tick
<1>5. ASSUME NEW r \in Requests,
             \/ StartRequest(r) \/ PickHost(r) \/ RequestRow(r)
             \/ RequestCommit(r) \/ abort(r)
      PROVE  now' = now
  <2>1. CASE StartRequest(r)
    BY <2>1
    DEF StartRequest, Arrive, lease, lease_random, bad_duration, Refuse, Update, free,
        free_all_hosts, StartStmt, registryVars
  <2>2. CASE PickHost(r)
    BY <2>2 DEF PickHost, Pick, lease_random_pick, Update, StartStmt, registryVars
  <2>3. CASE RequestRow(r)
    BY <2>3 DEF RequestRow, write_row, WriteRow
  <2>4. CASE RequestCommit(r) \/ abort(r)
    BY <2>4 DEF RequestCommit, commit, abort, Commit, Rollback
  <2>5. QED BY <1>5, <2>1, <2>2, <2>3, <2>4
<1>6. ASSUME NEW c \in Callbacks,
             \/ StartCallback(c) \/ CallbackUpdate(c) \/ CallbackRow(c)
             \/ CallbackCommit(c) \/ extend_fail(c)
      PROVE  now' = now
  <2>1. CASE StartCallback(c) \/ CallbackUpdate(c)
    BY <2>1
    DEF StartCallback, Press, ignore_callback, extend_select, CallbackUpdate, extend_update,
        StartStmt, registryVars
  <2>2. CASE CallbackRow(c) \/ CallbackCommit(c) \/ extend_fail(c)
    BY <2>2
    DEF CallbackRow, extend_row, CallbackCommit, extend_commit, extend_fail, WriteRow,
        Commit, Rollback
  <2>3. QED BY <1>6, <2>1, <2>2
<1>7. ASSUME TimerSelect \/ TimerRow \/ TimerCommit \/ release_fail \/ UNCHANGED vars
      PROVE  now' = now
  BY <1>7
  DEF TimerSelect, release_select, TimerRow, release_row, TimerCommit, release_commit,
      release_fail, StartStmt, WriteRow, Commit, Rollback, vars, registryVars
<1>8. QED
  BY <1>2, <1>3, <1>4, <1>5, <1>6, <1>7
  DEF Next, RequestFails, CallbackFails, TimerFails, DeadlockVictim

\* The leases the timer is about to end are over.
TargetsOver ==
    \A h \in Targets(Timer) : hosts[h].user # Null => hosts[h].until \in Int /\ hosts[h].until < now

\* ReleaseTimer::release frees a lease that is not over only if somebody has
\* committed to its row between the SELECT and the moment the UPDATE locks the
\* row: nothing that comes later, fails or waits can do that.
THEOREM TimerFreesOnlyExpiredIfLeftAlone ==
    Spec /\ [][LeftAlone(Timer)]_vars => TimerFreesOnlyExpired
<1>1. Init => TargetsOver
  BY RegistryAssumption, TasksApart DEF Init, TargetsOver, Targets, LockedBy, NoStmt
<1>2. Core /\ TargetsOver /\ [Next]_vars /\ [LeftAlone(Timer)]_vars => TargetsOver'
  <2> SUFFICES ASSUME Core, TargetsOver, [Next]_vars, [LeftAlone(Timer)]_vars
               PROVE  TargetsOver'
    OBVIOUS
  <2>1. LeftAlone(Timer)
    BY DEF LeftAlone, vars, registryVars
  <2>2. Core' /\ Timer \in Tx /\ now \in Int /\ now' \in Int /\ now <= now'
    BY CoreNext, ClockGoesOn, TasksApart DEF Core, TableInv, RegistryTypeOK
  <2>3. CASE stmt'[Timer].kind = "none"
    <3>1. Targets(Timer)' = {}
      <4>1. stmt'[Timer].todo = {}
        BY <2>2, <2>3 DEF Core, TasksOK, StmtInv, NoStmt
      <4>2. \A h \in Hosts : rowLock'[h] # Timer
        BY <2>2, <2>3 DEF Core, TableInv, DraftInv
      <4>3. QED BY <4>1, <4>2 DEF Targets, LockedBy
    <3>2. QED BY <3>1 DEF TargetsOver
  <2>4. CASE stmt'[Timer].kind # "none" /\ stmt[Timer].kind # "none"
    <3>1. /\ Targets(Timer)' \subseteq Targets(Timer)
          /\ \A h \in Targets(Timer) : hosts'[h] = hosts[h]
      BY <2>1, <2>2, <2>4, TargetsKept
    <3>2. ASSUME NEW h \in Targets(Timer), hosts[h].user # Null
          PROVE  hosts[h].until \in Int /\ hosts[h].until < now'
      BY <2>2, <3>2 DEF TargetsOver
    <3>3. QED BY <3>1, <3>2 DEF TargetsOver
  <2>5. CASE stmt'[Timer].kind # "none" /\ stmt[Timer].kind = "none"
    <3>1. /\ Targets(Timer)' \subseteq get_leased_until_hosts(hosts, now)
          /\ hosts' = hosts
      BY <2>2, <2>5, StartedUnlocked
    <3>2. ASSUME NEW h \in get_leased_until_hosts(hosts, now)
          PROVE  hosts[h].until \in Int /\ hosts[h].until < now'
      <4>1. hosts[h].until \in Int /\ hosts[h].until < now
        BY DEF get_leased_until_hosts, Core, TableInv, RegistryTypeOK, Row
      <4>2. QED BY <2>2, <4>1
    <3>3. QED BY <3>1, <3>2 DEF TargetsOver
  <2>6. QED BY <2>3, <2>4, <2>5
<1>3. Core /\ TargetsOver /\ [Next]_vars =>
         [\A h \in Hosts :
             TimerCommit /\ hosts[h].user # Null /\ hosts'[h].user = Null
                => hosts[h].until < now]_vars
  <2> SUFFICES ASSUME Core, TargetsOver, NEW h \in Hosts, TimerCommit,
                      hosts[h].user # Null, hosts'[h].user = Null
               PROVE  hosts[h].until < now
    OBVIOUS
  <2>1. rowLock[h] = Timer
    BY DEF TimerCommit, release_commit, Commit
  <2>2. QED BY <2>1 DEF TargetsOver, Targets, LockedBy
<1>4. QED BY <1>1, <1>2, <1>3, CoreInit, CoreNext, PTL DEF Spec, TimerFreesOnlyExpired

\* A lease request that starts its UPDATE names hosts that are free.
StartsFree ==
    \A r \in Requests : stmt[r].kind = "none" /\ stmt'[r].kind = "lease_hosts" =>
        \A h \in stmt'[r].todo : hosts[h].user = Null

\* The hosts a lease request has selected or locked are free.
LeasesFree ==
    \A r \in Requests : stmt[r].kind = "lease_hosts" =>
        \A h \in Targets(r) : hosts[h].user = Null

\* A host passes from one user to another without being released only because
\* HostsService::lease does not look whose hosts it is asked for, or because
\* somebody has committed to a row between the SELECT of lease or lease_random
\* and the moment the UPDATE locks the row.
THEOREM LeasedHostsAreRefusedIfLeftAlone ==
    Spec /\ [][StartsFree]_vars /\ [][\A r \in Requests : LeftAlone(r)]_vars
       => LeasedHostsAreRefused
<1>1. Init => LeasesFree
  BY TasksApart DEF Init, LeasesFree, NoStmt
<1>2. Core /\ LeasesFree /\ [Next]_vars /\ [StartsFree]_vars
        /\ [\A r \in Requests : LeftAlone(r)]_vars => LeasesFree'
  <2> SUFFICES ASSUME Core, LeasesFree, [Next]_vars, [StartsFree]_vars,
                      [\A r \in Requests : LeftAlone(r)]_vars,
                      NEW r \in Requests, stmt'[r].kind = "lease_hosts"
               PROVE  \A h \in Targets(r)' : hosts'[h].user = Null
    BY DEF LeasesFree
  <2>1. LeftAlone(r) /\ r \in Tx
    BY TasksApart DEF LeftAlone, vars, registryVars
  <2>2. CASE stmt[r].kind # "none"
    <3>1. /\ stmt[r].kind = "lease_hosts"
          /\ Targets(r)' \subseteq Targets(r)
          /\ \A h \in Targets(r) : hosts'[h] = hosts[h]
      BY <2>1, <2>2, TargetsKept
    <3>2. QED BY <3>1 DEF LeasesFree
  <2>3. CASE stmt[r].kind = "none"
    <3>1. Targets(r)' = stmt'[r].todo /\ hosts' = hosts
      BY <2>1, <2>3, StartedUnlocked
    <3>2. StartsFree
      BY <2>3 DEF vars, registryVars
    <3>3. QED BY <2>3, <3>1, <3>2 DEF StartsFree
  <2>4. QED BY <2>2, <2>3
<1>3. Core /\ LeasesFree /\ [Next]_vars =>
         [\A h \in Hosts : hosts[h].user # Null /\ hosts'[h].user # Null
                              => hosts'[h].user = hosts[h].user]_vars
  <2> SUFFICES ASSUME Core, LeasesFree, [Next]_vars, NEW h \in Hosts,
                      hosts[h].user # Null, hosts'[h].user # Null
               PROVE  hosts'[h].user = hosts[h].user
    OBVIOUS
  <2>1. CASE hosts'[h] = hosts[h]
    BY <2>1
  <2>2. CASE hosts'[h] # hosts[h]
    <3>1. PICK t \in Tx : Commit(t)
      BY <2>2, OnlyCommitPublishes
    <3>2. /\ rowLock[h] = t /\ hosts[h] \in Row
          /\ hosts'[h] = Assigned(stmt[t], hosts[h])
      BY <2>2, <3>1, PublishedRow
    <3>3. stmt[t].kind # "lease_hosts"
      <4>1. SUFFICES ASSUME stmt[t].kind = "lease_hosts" PROVE FALSE
        OBVIOUS
      <4>2. t \in Requests
        BY <4>1 DEF Core, TasksOK, StmtInv, Tx
      <4>3. h \in Targets(t)
        BY <3>2 DEF Targets, LockedBy
      <4>4. QED BY <4>1, <4>2, <4>3 DEF LeasesFree
    <3>4. CASE stmt[t].kind = "extend_hosts_lease"
      BY <3>2, <3>4 DEF Assigned, Row
    <3>5. CASE stmt[t].kind # "extend_hosts_lease"
      BY <3>2, <3>3, <3>5 DEF Assigned, FreeRow
    <3>6. QED BY <3>4, <3>5
  <2>3. QED BY <2>1, <2>2
<1>4. QED BY <1>1, <1>2, <1>3, CoreInit, CoreNext, PTL DEF Spec, LeasedHostsAreRefused

-----------------------------------------------------------------------------
(***************************************************************************)
(* The system implements the lease book.                                   *)
(***************************************************************************)
\* The book counts as the system does.
LEMMA BookCardinality == \A S : Book!Cardinality(S) = Cardinality(S)
BY DEF Book!Cardinality, Cardinality

\* A task that runs nothing has asked for nothing.
LEMMA OperationIdle ==
    ASSUME Core, NEW t \in Tx, stmt[t].kind = "none", t \in Callbacks => cb[t] # "query"
    PROVE  Operation(t) = Book!Nothing
<1>1. stmt[t] = NoStmt /\ \A h \in Hosts : rowLock[h] # t
  BY DEF Core, TableInv, TasksOK, StmtInv, DraftInv
<1>2. Rows(t) = {}
  BY <1>1 DEF Rows, NoStmt
<1>3. Promise["none"] = "none"
  BY DEF Promise
<1>4. QED BY <1>1, <1>2, <1>3 DEF Operation, NoStmt, Book!Nothing

\* A task at its UPDATE has asked for what its statement does to its rows.
LEMMA OperationRuns ==
    ASSUME Core, NEW t \in Tx, stmt[t].kind # "none"
    PROVE  Operation(t) = [kind |-> Promise[stmt[t].kind], user |-> stmt[t].user,
                           hosts |-> Rows(t), arg |-> stmt[t].arg]
<1>1. ~(t \in Callbacks /\ cb[t] = "query")
  BY DEF Core, TasksOK, StmtInv
<1>2. QED BY <1>1 DEF Operation

\* What a task has asked for changes only with its statement, its locked rows
\* or its place in the callback.
LEMMA OperationKept ==
    ASSUME Core, NEW t \in Tx,
           stmt'[t] = stmt[t],
           \A h \in Hosts : rowLock'[h] = t <=> rowLock[h] = t,
           \A h \in Hosts : rowLock[h] = t => hosts'[h] = hosts[h],
           t \in Callbacks => cb'[t] = cb[t] /\ extending'[t] = extending[t]
    PROVE  Operation(t)' = Operation(t)
<1>1. Rows(t)' = Rows(t)
  BY DEF Rows
<1>2. QED BY <1>1 DEF Operation

\* A step of one task on the table leaves what the others have asked for.
LEMMA OthersKept ==
    ASSUME Core, NEW t \in Tx,
           \/ UNCHANGED <<hosts, rowLock, stmt>>
           \/ \E s : StartStmt(t, s)
           \/ WriteRow(t) \/ Commit(t) \/ Rollback(t),
           \A c \in Callbacks : c # t => cb'[c] = cb[c] /\ extending'[c] = extending[c]
    PROVE  \A v \in Tx : v # t => Operation(v)' = Operation(v)
<1> SUFFICES ASSUME NEW v \in Tx, v # t PROVE Operation(v)' = Operation(v)
  OBVIOUS
<1>1. /\ t # Null /\ v # Null
      /\ stmt \in [Tx -> Stmt]
      /\ rowLock \in [Hosts -> Tx \cup {Null}]
  BY RegistryAssumption DEF Core, TableInv, RegistryTypeOK
<1>2. /\ stmt'[v] = stmt[v]
      /\ \A h \in Hosts : rowLock'[h] = v <=> rowLock[h] = v
      /\ \A h \in Hosts : rowLock[h] = v => hosts'[h] = hosts[h]
  <2>1. CASE UNCHANGED <<hosts, rowLock, stmt>>
    BY <2>1
  <2>2. CASE \E s : StartStmt(t, s)
    BY <1>1, <2>2 DEF StartStmt
  <2>3. CASE WriteRow(t)
    <3>1. PICK g \in stmt[t].todo :
            /\ rowLock[g] = Null
            /\ rowLock' = [rowLock EXCEPT ![g] = t]
            /\ stmt' = [stmt EXCEPT ![t].todo = @ \ {g}]
            /\ hosts' = hosts
      BY <2>3 DEF WriteRow
    <3>2. QED BY <1>1, <3>1
  <2>4. CASE Commit(t)
    BY <1>1, <2>4 DEF Commit, Unlocked
  <2>5. CASE Rollback(t)
    BY <1>1, <2>5 DEF Rollback, Unlocked
  <2>6. QED BY <2>1, <2>2, <2>3, <2>4, <2>5
<1>3. QED BY <1>2, OperationKept

\* If the others' operations stay, the book sees one task's change.
LEMMA OneOperation ==
    ASSUME NEW t \in Tx, \A v \in Tx : v # t => Operation(v)' = Operation(v)
    PROVE  /\ Operations' = [Operations EXCEPT ![t] = Operation(t)']
           /\ Operations[t] = Operation(t) /\ Operations'[t] = Operation(t)'
           /\ Operation(t)' = Operation(t) => Operations' = Operations
BY DEF Operations

\* The book leases what the system does.
LEMMA BookLeased ==
    ASSUME Core
    PROVE  /\ \A u : Book!Leased(u) = get_leased_hosts(hosts, u)
           /\ \A time \in Int : Book!OverBefore(time) = get_leased_until_hosts(hosts, time)
<1>1. \A u : Book!Leased(u) = get_leased_hosts(hosts, u)
  BY DEF Book!Leased, get_leased_hosts
<1>2. \A h \in Hosts : hosts[h] \in Row /\ WellFormed(hosts[h])
  BY DEF Core, TableInv, RegistryTypeOK, LeaseConsistency
<1>3. \A h \in Hosts : hosts[h] # Book!Free <=> hosts[h].user # Null /\ hosts[h].until # Null
  <2> TAKE h \in Hosts
  <2>1. hosts[h] = Book!Free <=> hosts[h].user = Null /\ hosts[h].until = Null
    BY <1>2 DEF Book!Free, Row
  <2>2. QED BY <1>2, <2>1 DEF WellFormed
<1>4. QED BY <1>1, <1>3 DEF Book!OverBefore, get_leased_until_hosts

\* A task that runs nothing starts an UPDATE: it asks for one operation, whose
\* hosts are the rows that match.
LEMMA StartAsks ==
    ASSUME Core, NEW t \in Tx, stmt[t].kind = "none", t \in Callbacks => cb[t] # "query",
           NEW s \in Stmt, StartStmt(t, s), s.kind # "none",
           UNCHANGED botVars, Core',
           \/ s.kind \in {"lease_hosts", "free_hosts_for_user"} /\ s.user \in Users
           \/ s.kind = "free_all" /\ s.user \in Users /\ s.todo = Hosts
           \/ s.kind = "free_hosts" /\ s.todo = get_leased_until_hosts(hosts, now),
           s.kind = "lease_hosts" => s.arg >= now
    PROVE  Book!Next
<1> DEFINE T == {h \in s.todo : Matches(s, hosts[h])}
<1>1. /\ stmt \in [Tx -> Stmt] /\ s.todo \subseteq Hosts /\ s.arg \in Int /\ now \in Int
      /\ \A h \in Hosts : rowLock[h] # t
  BY DEF Core, TableInv, RegistryTypeOK, DraftInv, Stmt
<1>2. /\ stmt'[t].kind = s.kind /\ stmt'[t].user = s.user
      /\ stmt'[t].arg = s.arg /\ stmt'[t].todo = T
      /\ UNCHANGED <<hosts, rowLock, now>>
  BY <1>1 DEF StartStmt, Stmt
<1>3. Rows(t)' = T
  BY <1>1, <1>2 DEF Rows
<1>4. \A v \in Tx : v # t => Operation(v)' = Operation(v)
  BY OthersKept DEF botVars
<1>5. Operation(t) = Book!Nothing
  BY OperationIdle
<1>6. Operation(t)' = [kind |-> Promise[s.kind], user |-> s.user, hosts |-> T, arg |-> s.arg]
  <2>1. ~(t \in Callbacks /\ cb'[t] = "query")
    BY DEF botVars
  <2>2. QED BY <1>2, <1>3, <2>1 DEF Operation
<1>7. Book!Asked(Operation(t)')
  <2>1. CASE s.kind = "lease_hosts"
    <3>1. Promise[s.kind] = "lease"
      BY <2>1 DEF Promise
    <3>2. QED BY <1>1, <1>6, <2>1, <3>1 DEF Book!Asked
  <2>2. CASE s.kind = "free_hosts_for_user"
    <3>1. Promise[s.kind] = "release"
      BY <2>2 DEF Promise
    <3>2. T \subseteq Book!Leased(s.user)
      BY <1>1, <2>2 DEF Matches, Book!Leased
    <3>3. QED BY <1>6, <2>2, <3>1, <3>2 DEF Book!Asked
  <2>3. CASE s.kind = "free_all"
    <3>1. Promise[s.kind] = "release_all"
      BY <2>3 DEF Promise
    <3>2. T = Book!Leased(s.user)
      BY <2>3 DEF Matches, Book!Leased
    <3>3. QED BY <1>6, <2>3, <3>1, <3>2 DEF Book!Asked
  <2>4. CASE s.kind = "free_hosts"
    <3>1. Promise[s.kind] = "expire"
      BY <2>4 DEF Promise
    <3>2. T = Book!OverBefore(now)
      BY <1>1, <2>4, BookLeased DEF Matches
    <3>3. QED BY <1>6, <3>1, <3>2 DEF Book!Asked
  <2>5. QED BY <2>1, <2>2, <2>3, <2>4
<1>8. Operation(t)' # Operation(t)
  <2>1. Promise[s.kind] # "none"
    BY DEF Promise
  <2>2. QED BY <1>5, <1>6, <2>1 DEF Book!Nothing
<1>9. Book!Ask(t, Operations'[t])
  BY <1>2, <1>4, <1>5, <1>7, OneOperation DEF Book!Ask
<1>10. QED BY <1>4, <1>8, <1>9, OneOperation DEF Book!Next

\* A row the UPDATE of t locks stays among its rows, unless it no longer
\* matches: then it is let go.
LEMMA RowLetsGo ==
    ASSUME Core, NEW t \in Tx, stmt[t].kind # "none", WriteRow(t), UNCHANGED botVars
    PROVE  Book!Next \/ UNCHANGED <<hosts, Operations, now>>
<1>1. PICK h \in stmt[t].todo :
        /\ rowLock[h] = Null
        /\ rowLock' = [rowLock EXCEPT ![h] = t]
        /\ stmt' = [stmt EXCEPT ![t].todo = @ \ {h}]
        /\ UNCHANGED <<hosts, now>>
  BY DEF WriteRow
<1>2. /\ t # Null
      /\ stmt \in [Tx -> Stmt] /\ stmt[t] \in Stmt
      /\ rowLock \in [Hosts -> Tx \cup {Null}]
      /\ h \in Hosts /\ hosts[h] \in Row /\ WellFormed(hosts[h])
  BY RegistryAssumption DEF Core, TableInv, RegistryTypeOK, LeaseConsistency, Stmt
<1>3. \A v \in Tx : v # t => Operation(v)' = Operation(v)
  BY OthersKept DEF botVars
<1>4. stmt'[t] = [stmt[t] EXCEPT !.todo = @ \ {h}]
  BY <1>1, <1>2
<1>5. /\ stmt'[t].kind = stmt[t].kind /\ stmt'[t].user = stmt[t].user
      /\ stmt'[t].arg = stmt[t].arg /\ stmt'[t].todo = stmt[t].todo \ {h}
  BY <1>2, <1>4 DEF Stmt
<1>6. \A row : Matches(stmt'[t], row) = Matches(stmt[t], row)
  BY <1>5 DEF Matches
<1>7. Operation(t) = [kind |-> Promise[stmt[t].kind], user |-> stmt[t].user,
                      hosts |-> Rows(t), arg |-> stmt[t].arg]
  BY OperationRuns
<1>8. Operation(t)' = [kind |-> Promise[stmt[t].kind], user |-> stmt[t].user,
                       hosts |-> Rows(t)', arg |-> stmt[t].arg]
  <2>1. ~(t \in Callbacks /\ cb'[t] = "query")
    BY DEF Core, TasksOK, StmtInv, botVars
  <2>2. QED BY <1>5, <2>1 DEF Operation
<1>9. CASE Matches(stmt[t], hosts[h])
  <2>1. Rows(t)' = Rows(t)
    BY <1>1, <1>2, <1>5, <1>6, <1>9 DEF Rows
  <2>2. Operations' = Operations
    BY <1>3, <1>7, <1>8, <2>1, OneOperation
  <2>3. QED BY <1>1, <2>2
<1>10. CASE ~Matches(stmt[t], hosts[h])
  <2>1. Rows(t)' = Rows(t) \ {h} /\ h \in Rows(t)
    BY <1>1, <1>2, <1>5, <1>6, <1>10 DEF Rows
  <2>2. Operation(t)' = [Operation(t) EXCEPT !.hosts = @ \ {h}]
    BY <1>7, <1>8, <2>1
  <2>3. Operation(t).hosts \ Operation(t)'.hosts = {h} /\ Operation(t)' # Operation(t)
    BY <1>7, <1>8, <2>1
  <2>4. \/ /\ Operation(t).kind \in {"release", "release_all"}
           /\ h \notin Book!Leased(Operation(t).user)
        \/ Operation(t).kind = "extend" /\ hosts[h] = Book!Free
    <3>1. \/ stmt[t].kind \in {"free_hosts_for_user", "free_all"} /\ hosts[h].user # stmt[t].user
          \/ stmt[t].kind = "extend_hosts_lease" /\ hosts[h].until = Null
      BY <1>10 DEF Matches
    <3>2. hosts[h].until = Null => hosts[h] = Book!Free
      BY <1>2 DEF WellFormed, Row, Book!Free
    <3>3. QED BY <1>7, <3>1, <3>2 DEF Promise, Book!Leased
  <2>5. Book!LetGo(t, {h})
    <3>1. Operations' = [Operations EXCEPT ![t].hosts = @ \ {h}]
      BY <1>3, <2>2, OneOperation
    <3>2. QED BY <1>1, <1>3, <2>4, <3>1, OneOperation DEF Book!LetGo
  <2>6. /\ Operations[t].hosts \ Operations'[t].hosts = {h}
        /\ Operations'[t] # Operations[t]
    BY <1>3, <2>3, OneOperation
  <2>7. QED BY <2>5, <2>6 DEF Book!Next
<1>11. QED BY <1>9, <1>10

\* A commit carries the operation out, on all its rows and on no other.
LEMMA CommitCarriesOut ==
    ASSUME IInv, NEW t \in Tx, Commit(t), Core',
           \A c \in Callbacks : c # t => cb'[c] = cb[c] /\ extending'[c] = extending[c],
           t \in Callbacks => cb'[t] # "query"
    PROVE  Book!Next
<1> DEFINE op == Operation(t)
<1>1. /\ Core /\ stmt[t] \in Stmt /\ stmt[t].kind # "none" /\ stmt[t].todo = {}
      /\ \A h \in Hosts : hosts[h] \in Row /\ WellFormed(hosts[h])
  BY IInvParts DEF Core, TableInv, RegistryTypeOK, LeaseConsistency, Commit
<1>2. op = [kind |-> Promise[stmt[t].kind], user |-> stmt[t].user,
            hosts |-> Rows(t), arg |-> stmt[t].arg]
  BY <1>1, OperationRuns
<1>3. /\ Rows(t) = {h \in Hosts : rowLock[h] = t /\ Matches(stmt[t], hosts[h])}
      /\ Rows(t) \subseteq Targets(t)
  BY <1>1 DEF Rows, Targets, LockedBy
<1>4. \A v \in Tx : v # t => Operation(v)' = Operation(v)
  BY <1>1, OthersKept
<1>5. stmt'[t] = NoStmt
  BY <1>1 DEF Commit, Core, TableInv, RegistryTypeOK
<1>6. Operation(t)' = Book!Nothing
  <2>1. \A h \in Hosts : rowLock'[h] # t
    BY RegistryAssumption DEF Commit, Unlocked
  <2>2. Rows(t)' = {}
    BY <1>5, <2>1 DEF Rows, NoStmt
  <2>3. Promise["none"] = "none"
    BY DEF Promise
  <2>4. QED BY <1>5, <2>2, <2>3 DEF Operation, NoStmt, Book!Nothing
<1>7. Operation(t)' # op
  <2>1. Promise[stmt[t].kind] # "none"
    BY <1>1 DEF Promise, Stmt, Kinds
  <2>2. QED BY <1>2, <1>6, <2>1 DEF Book!Nothing
<1>8. Book!Allowed(op)
  <2>1. ASSUME op.kind = "lease", op.user \in SerialUsers
        PROVE  /\ Book!Leased(op.user) \cap op.hosts = {}
               /\ Cardinality(Book!Leased(op.user) \cup op.hosts) <= get_lease_limit(op.user)
    <3>1. stmt[t].kind = "lease_hosts"
      BY <1>1, <1>2, <2>1 DEF Promise, Stmt, Kinds
    <3>2. t \in Requests
      BY <1>1, <3>1 DEF Core, TasksOK, StmtInv, Tx
    <3>3. op.user = stmt[t].user /\ op.hosts = Rows(t)
      BY <1>2
    <3>4. Rows(t) = Targets(t)
      BY <1>1, <3>1 DEF Rows, Targets, LockedBy, Matches
    <3>5. QED BY <1>1, <2>1, <3>1, <3>2, <3>3, <3>4, BookLeased DEF IInv, SerialInv, RoomFor
  <2>2. ASSUME op.kind \in {"release", "release_all"}
        PROVE  op.hosts \subseteq Book!Leased(op.user)
    <3>1. stmt[t].kind \in {"free_hosts_for_user", "free_all"}
      BY <1>1, <1>2, <2>2 DEF Promise, Stmt, Kinds
    <3>2. QED BY <1>2, <1>3, <3>1 DEF Matches, Book!Leased
  <2>3. ASSUME op.kind = "extend", NEW h \in op.hosts
        PROVE  hosts[h] # Book!Free
    <3>1. stmt[t].kind = "extend_hosts_lease"
      BY <1>1, <1>2, <2>3 DEF Promise, Stmt, Kinds
    <3>2. Matches(stmt[t], hosts[h])
      BY <1>2, <1>3, <2>3
    <3>3. hosts[h].until # Null
      BY <3>1, <3>2 DEF Matches
    <3>4. QED BY <3>3 DEF Book!Free
  <2>4. QED BY <2>1, <2>2, <2>3, BookCardinality DEF Book!Allowed
<1>9. hosts' = [h \in Hosts |-> IF h \in op.hosts THEN Book!Entry(op, h) ELSE hosts[h]]
  <2>1. ASSUME NEW h \in Hosts, h \in op.hosts PROVE hosts'[h] = Book!Entry(op, h)
    <3>1. rowLock[h] = t /\ Matches(stmt[t], hosts[h])
      BY <1>2, <1>3, <2>1
    <3>2. hosts'[h] = Assigned(stmt[t], hosts[h])
      BY <1>1, <3>1 DEF Commit, Core, TableInv, DraftInv, Applied
    <3>3. CASE stmt[t].kind = "lease_hosts"
      BY <1>2, <3>2, <3>3 DEF Promise, Assigned, Book!Entry
    <3>4. CASE stmt[t].kind = "extend_hosts_lease"
      BY <1>2, <3>2, <3>4 DEF Promise, Assigned, Book!Entry
    <3>5. CASE stmt[t].kind \notin {"lease_hosts", "extend_hosts_lease"}
      <4>1. op.kind \notin {"lease", "extend"}
        BY <1>1, <1>2, <3>5 DEF Promise, Stmt, Kinds
      <4>2. QED BY <3>2, <3>5, <4>1 DEF Assigned, Book!Entry, Book!Free, FreeRow
    <3>6. QED BY <3>3, <3>4, <3>5
  <2>2. ASSUME NEW h \in Hosts, h \notin op.hosts PROVE hosts'[h] = hosts[h]
    <3>1. rowLock[h] = t => ~Matches(stmt[t], hosts[h])
      BY <1>2, <1>3, <2>2
    <3>2. QED BY <1>1, <3>1 DEF Commit, Core, TableInv, DraftInv, Applied
  <2>3. hosts' = [h \in Hosts |-> hosts'[h]]
    BY DEF Commit
  <2>4. QED BY <2>1, <2>2, <2>3
<1>10. Book!CarryOut(t)
  <2>1. now' = now
    BY DEF Commit
  <2>2. QED BY <1>4, <1>6, <1>8, <1>9, <2>1, OneOperation DEF Book!CarryOut
<1>11. QED BY <1>4, <1>7, <1>10, OneOperation DEF Book!Next

\* A rollback drops what the task has asked for.
LEMMA RollbackDrops ==
    ASSUME Core, NEW t \in Tx, Rollback(t),
           \A c \in Callbacks : c # t => cb'[c] = cb[c] /\ extending'[c] = extending[c],
           t \in Callbacks => cb'[t] # "query"
    PROVE  Book!Next \/ UNCHANGED <<hosts, Operations, now>>
<1>1. \A v \in Tx : v # t => Operation(v)' = Operation(v)
  BY OthersKept
<1>2. stmt'[t] = NoStmt
  BY DEF Rollback, Core, TableInv, RegistryTypeOK
<1>3. Operation(t)' = Book!Nothing
  <2>1. \A h \in Hosts : rowLock'[h] # t
    BY RegistryAssumption DEF Rollback, Unlocked
  <2>2. Rows(t)' = {}
    BY <1>2, <2>1 DEF Rows, NoStmt
  <2>3. Promise["none"] = "none"
    BY DEF Promise
  <2>4. QED BY <1>2, <2>2, <2>3 DEF Operation, NoStmt, Book!Nothing
<1>4. hosts' = hosts /\ now' = now
  BY DEF Rollback
<1>5. CASE Operation(t)' = Operation(t)
  BY <1>1, <1>4, <1>5, OneOperation
<1>6. CASE Operation(t)' # Operation(t)
  <2>1. Book!Drop(t)
    BY <1>1, <1>3, <1>4, OneOperation DEF Book!Drop
  <2>2. QED BY <1>1, <1>6, <2>1, OneOperation DEF Book!Next
<1>7. QED BY <1>5, <1>6

\* A request's steps.
LEMMA RequestIsBookStep ==
    ASSUME IInv, Core', NEW r \in Requests,
           \/ StartRequest(r) \/ PickHost(r) \/ RequestRow(r)
           \/ RequestCommit(r) \/ abort(r),
           UNCHANGED botVars
    PROVE  Book!Next \/ UNCHANGED <<hosts, Operations, now>>
<1>1. /\ Core /\ r \in Tx /\ r # Timer /\ r \notin Callbacks
      /\ now \in Int
  BY TasksApart, IInvParts DEF Core, TableInv, RegistryTypeOK
<1>2. pc[r] \in {"new", "pick"} => stmt[r].kind = "none"
  BY <1>1 DEF Core, TasksOK, StmtInv
<1>3. pc[r] = "update" => stmt[r].kind # "none"
  BY <1>1 DEF Core, TasksOK, StmtInv
<1>4. CASE UNCHANGED registryVars
  <2>1. \A v \in Tx : Operation(v)' = Operation(v)
    BY <1>1, <1>4, OperationKept DEF botVars, registryVars
  <2>2. Operations' = Operations
    BY <1>1, <2>1, OneOperation
  <2>3. QED BY <1>4, <2>2 DEF registryVars
<1>5. ASSUME NEW u \in Users, NEW ids \in SUBSET HostIds, NEW days \in Days, NEW hours \in Hours,
             pc[r] \in {"new", "pick"},
             StartStmt(r, lease_hosts(u, ids, now + lease_duration(days, hours)))
      PROVE  Book!Next
  <2> DEFINE s == lease_hosts(u, ids, now + lease_duration(days, hours))
  <2>1. lease_duration(days, hours) \in Int /\ lease_duration(days, hours) >= 0
    BY HostsServiceAssumption DEF lease_duration, Hour
  <2>2. now + lease_duration(days, hours) \in Int /\ now + lease_duration(days, hours) >= now
    BY <1>1, <2>1
  <2>3. /\ s \in Stmt /\ s.kind = "lease_hosts" /\ s.user = u
        /\ s.arg = now + lease_duration(days, hours)
    BY <2>2 DEF lease_hosts, Stmt, Kinds
  <2>4. QED BY <1>1, <1>2, <1>5, <2>2, <2>3, StartAsks
<1>6. CASE StartRequest(r)
  <2>1. ASSUME NEW u \in Users, NEW ids \in SUBSET HostIds, free(r, u, ids)
        PROVE  Book!Next
    <3> DEFINE s == free_hosts_for_user(ids, u)
    <3>1. s \in Stmt /\ s.kind = "free_hosts_for_user" /\ s.user = u
      BY DEF free_hosts_for_user, Stmt, Kinds
    <3>2. StartStmt(r, s) /\ pc[r] = "new"
      BY <2>1 DEF free, Update
    <3>3. QED BY <1>1, <1>2, <3>1, <3>2, StartAsks
  <2>2. ASSUME NEW u \in Users, free_all_hosts(r, u)
        PROVE  Book!Next
    <3> DEFINE s == free_all(u)
    <3>1. s \in Stmt /\ s.kind = "free_all" /\ s.user = u /\ s.todo = Hosts
      BY DEF free_all, Stmt, Kinds
    <3>2. StartStmt(r, s) /\ pc[r] = "new"
      BY <2>2 DEF free_all_hosts, Update
    <3>3. QED BY <1>1, <1>2, <3>1, <3>2, StartAsks
  <2>3. ASSUME NEW u \in Users, NEW ids \in SUBSET HostIds, NEW days \in Days, NEW hours \in Hours,
               lease(r, u, ids, lease_duration(days, hours))
        PROVE  Book!Next \/ UNCHANGED registryVars
    BY <1>5, <2>3 DEF lease, Refuse, Update
  <2>4. ASSUME NEW u \in Users, lease_random(r, u)
        PROVE  UNCHANGED registryVars
    BY <2>4 DEF lease_random, Refuse
  <2>5. ASSUME NEW days \in Days, NEW hours \in Hours, bad_duration(r, days, hours)
        PROVE  UNCHANGED registryVars
    BY <2>5 DEF bad_duration, Refuse
  <2>6. QED BY <1>4, <1>6, <2>1, <2>2, <2>3, <2>4, <2>5 DEF StartRequest, Arrive
<1>7. CASE PickHost(r)
  <2>1. PICK g \in Groups, days \in Days, hours \in Hours :
          lease_random_pick(r, g, lease_duration(days, hours))
    BY <1>7 DEF PickHost, Pick
  <2>2. pc[r] = "pick"
    BY <2>1 DEF lease_random_pick
  <2>3. asking[r] \in Users
    BY <1>1, <2>2 DEF Core, TasksOK, StmtInv, ServiceTypeOK
  <2>4. CASE UNCHANGED registryVars
    BY <1>4, <2>4
  <2>5. ASSUME NEW h \in get_first_available_group_host(hosts, g),
               Update(r, lease_hosts(asking[r], {h}, now + lease_duration(days, hours)))
        PROVE  Book!Next
    <3>1. {h} \in SUBSET HostIds
      BY HostsServiceAssumption DEF get_first_available_group_host, get_available_hosts
    <3>2. QED BY <1>5, <2>2, <2>3, <2>5, <3>1 DEF Update
  <2>6. QED BY <2>1, <2>4, <2>5 DEF lease_random_pick
<1>8. CASE RequestRow(r)
  BY <1>1, <1>3, <1>8, RowLetsGo DEF RequestRow, write_row
<1>9. CASE RequestCommit(r)
  BY <1>1, <1>9, CommitCarriesOut DEF RequestCommit, commit, botVars
<1>10. CASE abort(r)
  BY <1>1, <1>10, RollbackDrops DEF abort, botVars
<1>11. QED BY <1>6, <1>7, <1>8, <1>9, <1>10

\* The steps of a press of a button, which asks for its extension with its
\* SELECT: the hosts released before the UPDATE starts are let go.
LEMMA CallbackIsBookStep ==
    ASSUME IInv, Core', NEW c \in Callbacks,
           \/ StartCallback(c) \/ CallbackUpdate(c) \/ CallbackRow(c)
           \/ CallbackCommit(c) \/ extend_fail(c)
    PROVE  Book!Next \/ UNCHANGED <<hosts, Operations, now>>
<1>1. /\ Core /\ c \in Tx /\ c # Timer /\ c \notin Requests
      /\ now \in Int
      /\ cb \in [Callbacks -> {"new", "ignored", "query", "update", "ok", "no_expiring", "error"}]
      /\ extending \in [Callbacks -> [ids : SUBSET Hosts, hours : Int]]
      /\ stmt \in [Tx -> Stmt]
      /\ \A h \in Hosts : hosts[h] \in Row /\ WellFormed(hosts[h])
  BY TasksApart, IInvParts
  DEF Core, TableInv, TasksOK, RegistryTypeOK, LeaseConsistency, BotTypeOK
<1>2. cb[c] \in {"new", "query"} => stmt[c] = NoStmt /\ \A h \in Hosts : rowLock[h] # c
  BY <1>1 DEF Core, TasksOK, StmtInv, TableInv, DraftInv, NoStmt
<1>3. \A d \in Callbacks : d # c => cb'[d] = cb[d] /\ extending'[d] = extending[d]
  BY <1>1 DEF StartCallback, Press, ignore_callback, extend_select, CallbackUpdate, extend_update,
              CallbackRow, extend_row, CallbackCommit, extend_commit, extend_fail, botVars
<1>4. CASE StartCallback(c)
  <2>1. /\ UNCHANGED registryVars /\ cb[c] = "new"
        /\ \/ cb'[c] # "query"
           \/ \E u \in Users, hours \in CallbackHours :
                 /\ hours > 0
                 /\ cb'[c] = "query"
                 /\ extending'[c] =
                      [ids |-> get_expiring_hosts_for_user(hosts, u, now + EXPIRATION_NOTIFY_WINDOW),
                       hours |-> hours]
    BY <1>1, <1>4 DEF StartCallback, Press, ignore_callback, extend_select
  <2>2. \A v \in Tx : v # c => Operation(v)' = Operation(v)
    BY <1>1, <1>3, <2>1, OthersKept DEF registryVars
  <2>3. Operation(c) = Book!Nothing
    BY <1>1, <1>2, <2>1, OperationIdle DEF NoStmt
  <2>4. stmt'[c] = NoStmt /\ UNCHANGED <<hosts, rowLock, now>>
    BY <1>2, <2>1 DEF registryVars
  <2>5. CASE cb'[c] # "query"
    <3>1. Rows(c)' = {}
      BY <1>2, <2>1, <2>4 DEF Rows, NoStmt
    <3>2. Promise["none"] = "none"
      BY DEF Promise
    <3>3. Operation(c)' = Operation(c)
      BY <2>3, <2>4, <2>5, <3>1, <3>2 DEF Operation, NoStmt, Book!Nothing
    <3>4. QED BY <1>1, <2>2, <2>4, <3>3, OneOperation
  <2>6. ASSUME NEW u \in Users, NEW hours \in CallbackHours, hours > 0, cb'[c] = "query",
               extending'[c] =
                 [ids |-> get_expiring_hosts_for_user(hosts, u, now + EXPIRATION_NOTIFY_WINDOW),
                  hours |-> hours]
        PROVE  Book!Next
    <3>1. Operation(c)' =
            [kind |-> "extend", user |-> Null,
             hosts |-> get_expiring_hosts_for_user(hosts, u, now + EXPIRATION_NOTIFY_WINDOW),
             arg |-> hours * Hour]
      BY <2>6 DEF Operation
    <3>2. hours * Hour \in Int /\ hours * Hour > 0
      BY <2>6, BotAssumption DEF Hour
    <3>3. now + EXPIRATION_NOTIFY_WINDOW \in Int
      BY <1>1 DEF EXPIRATION_NOTIFY_WINDOW
    <3>4. get_expiring_hosts_for_user(hosts, u, now + EXPIRATION_NOTIFY_WINDOW)
            = Book!Leased(u) \cap Book!OverBefore(now + EXPIRATION_NOTIFY_WINDOW)
      BY <1>1, <3>3, BookLeased DEF get_expiring_hosts_for_user
    <3>5. Book!Asked(Operation(c)')
      BY <3>1, <3>2, <3>4 DEF Book!Asked
    <3>6. Operation(c)' # Operation(c)
      BY <2>3, <3>1 DEF Book!Nothing
    <3>7. Book!Ask(c, Operations'[c])
      BY <1>1, <2>2, <2>3, <2>4, <3>5, OneOperation DEF Book!Ask
    <3>8. QED BY <1>1, <2>2, <3>6, <3>7, OneOperation DEF Book!Next
  <2>7. QED BY <2>1, <2>5, <2>6
<1>5. CASE CallbackUpdate(c)
  <2> DEFINE S == extending[c].ids
             T == {h \in S : hosts[h].until # Null}
  <2>1. /\ cb[c] = "query" /\ cb'[c] = "update"
        /\ StartStmt(c, extend_hosts_lease(S, extending[c].hours))
        /\ S \subseteq Hosts
    BY <1>1, <1>5 DEF CallbackUpdate, extend_update
  <2>2. \A v \in Tx : v # c => Operation(v)' = Operation(v)
    BY <1>1, <1>3, <2>1, OthersKept
  <2>3. Operation(c) = [kind |-> "extend", user |-> Null, hosts |-> S,
                        arg |-> extending[c].hours * Hour]
    BY <1>1, <2>1 DEF Operation
  <2>4. /\ stmt'[c].kind = "extend_hosts_lease" /\ stmt'[c].user = Null
        /\ stmt'[c].arg = extending[c].hours * Hour /\ stmt'[c].todo = T
        /\ UNCHANGED <<hosts, rowLock, now>>
    BY <1>1, <2>1 DEF StartStmt, extend_hosts_lease, Matches
  <2>5. Rows(c)' = T
    BY <1>2, <2>1, <2>4 DEF Rows
  <2>6. Operation(c)' = [Operation(c) EXCEPT !.hosts = @ \ (S \ T)]
    <3>1. Promise["extend_hosts_lease"] = "extend"
      BY DEF Promise
    <3>2. Operation(c)' = [kind |-> "extend", user |-> Null, hosts |-> T,
                           arg |-> extending[c].hours * Hour]
      BY <2>1, <2>4, <2>5, <3>1 DEF Operation
    <3>3. S \ (S \ T) = T
      OBVIOUS
    <3>4. \A A, B, n : [[kind |-> "extend", user |-> Null, hosts |-> A, arg |-> n]
                         EXCEPT !.hosts = B]
                         = [kind |-> "extend", user |-> Null, hosts |-> B, arg |-> n]
      OBVIOUS
    <3>5. Operation(c).hosts = S
      BY <2>3
    <3> HIDE DEF S, T
    <3>6. QED BY <2>3, <3>2, <3>3, <3>4, <3>5
  <2>7. \A h \in S \ T : hosts[h] = Book!Free
    BY <1>1, <2>1 DEF WellFormed, Row, Book!Free
  <2>8. Book!LetGo(c, S \ T)
    <3>1. Operations' = [Operations EXCEPT ![c].hosts = @ \ (S \ T)]
      BY <1>1, <2>2, <2>6, OneOperation
    <3>2. Operations[c].kind = "extend"
      BY <1>1, <2>2, <2>3, OneOperation
    <3>3. QED BY <2>4, <2>7, <3>1, <3>2 DEF Book!LetGo
  <2>9. CASE Operation(c)' = Operation(c)
    BY <1>1, <2>2, <2>4, <2>9, OneOperation
  <2>10. CASE Operation(c)' # Operation(c)
    <3>1. Operations[c].hosts \ Operations'[c].hosts = S \ T
      <4>1. Operation(c).hosts = S /\ Operation(c)'.hosts = S \ (S \ T)
        BY <2>3, <2>6
      <4>2. QED BY <1>1, <2>2, <4>1, OneOperation
    <3>2. Operations'[c] # Operations[c]
      BY <1>1, <2>2, <2>10, OneOperation
    <3>3. QED BY <1>1, <2>8, <3>1, <3>2 DEF Book!Next
  <2>11. QED BY <2>9, <2>10
<1>6. CASE CallbackRow(c)
  <2>1. cb[c] = "update" /\ WriteRow(c) /\ UNCHANGED botVars
    BY <1>6 DEF CallbackRow, extend_row
  <2>2. stmt[c].kind # "none"
    BY <1>1, <2>1 DEF Core, TasksOK, StmtInv
  <2>3. QED BY <1>1, <2>1, <2>2, RowLetsGo
<1>7. CASE CallbackCommit(c)
  <2>1. Commit(c) /\ cb'[c] # "query"
    BY <1>1, <1>7 DEF CallbackCommit, extend_commit
  <2>2. QED BY <1>1, <1>3, <2>1, CommitCarriesOut
<1>8. CASE extend_fail(c)
  <2>1. Rollback(c) /\ cb'[c] # "query"
    BY <1>1, <1>8 DEF extend_fail
  <2>2. QED BY <1>1, <1>3, <2>1, RollbackDrops
<1>9. QED BY <1>4, <1>5, <1>6, <1>7, <1>8

\* The timer's steps.
LEMMA TimerIsBookStep ==
    ASSUME IInv, Core', TimerSelect \/ TimerRow \/ TimerCommit \/ release_fail,
           UNCHANGED botVars
    PROVE  Book!Next \/ UNCHANGED <<hosts, Operations, now>>
<1>1. Core /\ Timer \in Tx /\ Timer \notin Callbacks
  BY TasksApart, IInvParts, RegistryAssumption
<1>2. CASE TimerSelect
  <2> DEFINE s == free_hosts(get_leased_until_hosts(hosts, now))
  <2>1. timer = "sleep" /\ StartStmt(Timer, s)
    BY <1>2 DEF TimerSelect, release_select
  <2>2. stmt[Timer].kind = "none"
    BY <1>1, <2>1 DEF Core, TasksOK, StmtInv
  <2>3. /\ s \in Stmt /\ s.kind = "free_hosts"
        /\ s.todo = get_leased_until_hosts(hosts, now)
    BY DEF free_hosts, Stmt, Kinds, get_leased_until_hosts
  <2>4. QED BY <1>1, <2>1, <2>2, <2>3, StartAsks
<1>3. CASE TimerRow
  <2>1. stmt[Timer].kind # "none" /\ WriteRow(Timer)
    BY <1>1, <1>3 DEF TimerRow, release_row, Core, TasksOK, StmtInv
  <2>2. QED BY <1>1, <2>1, RowLetsGo
<1>4. CASE TimerCommit
  BY <1>1, <1>4, CommitCarriesOut DEF TimerCommit, release_commit, botVars
<1>5. CASE release_fail
  BY <1>1, <1>5, RollbackDrops DEF release_fail, botVars
<1>6. QED BY <1>2, <1>3, <1>4, <1>5

\* Every step of the system is a step of the book or nothing to it.
LEMMA IsBookStep ==
    IInv /\ [Next]_vars => [Book!Next]_<<hosts, Operations, now>>
<1> SUFFICES ASSUME IInv, [Next]_vars
             PROVE  Book!Next \/ UNCHANGED <<hosts, Operations, now>>
  OBVIOUS
<1>1. Core /\ Core'
  BY IInvParts, CoreNext
<1>2. ASSUME NEW r \in Requests,
             \/ StartRequest(r) \/ PickHost(r) \/ RequestRow(r)
             \/ RequestCommit(r) \/ (abort(r) /\ UNCHANGED botVars)
      PROVE  Book!Next \/ UNCHANGED <<hosts, Operations, now>>
  <2>1. UNCHANGED botVars
    BY <1>2 DEF StartRequest, PickHost, RequestRow, RequestCommit
  <2>2. QED BY <1>1, <1>2, <2>1, RequestIsBookStep
<1>3. ASSUME NEW c \in Callbacks,
             \/ StartCallback(c) \/ CallbackUpdate(c) \/ CallbackRow(c)
             \/ CallbackCommit(c) \/ extend_fail(c)
      PROVE  Book!Next \/ UNCHANGED <<hosts, Operations, now>>
  BY <1>1, <1>3, CallbackIsBookStep
<1>4. ASSUME \/ TimerSelect \/ TimerRow \/ TimerCommit
             \/ (release_fail /\ UNCHANGED botVars)
      PROVE  Book!Next \/ UNCHANGED <<hosts, Operations, now>>
  <2>1. UNCHANGED botVars
    BY <1>4 DEF TimerSelect, TimerRow, TimerCommit
  <2>2. QED BY <1>1, <1>4, <2>1, TimerIsBookStep
<1>5. CASE Tick
  <2>1. \A v \in Tx : Operation(v)' = Operation(v)
    BY <1>1, <1>5, OperationKept DEF Tick, botVars
  <2>2. Operations' = Operations
    BY <2>1 DEF Operations
  <2>3. now \in Int
    BY <1>1 DEF Core, TableInv, RegistryTypeOK
  <2>4. QED BY <1>5, <2>2, <2>3 DEF Tick, Book!Pass, Book!Next
<1>6. CASE UNCHANGED vars
  <2>1. \A v \in Tx : Operation(v)' = Operation(v)
    BY <1>1, <1>6, OperationKept DEF vars, registryVars, botVars
  <2>2. QED BY <1>6, <2>1 DEF Operations, vars, registryVars
<1>7. CASE \E r \in Requests : \/ StartRequest(r) \/ PickHost(r) \/ RequestRow(r)
                               \/ RequestCommit(r) \/ RequestFails(r)
  BY <1>2, <1>7 DEF RequestFails
<1>8. CASE \E c \in Callbacks : \/ StartCallback(c) \/ CallbackUpdate(c)
                                \/ CallbackRow(c) \/ CallbackCommit(c)
                                \/ CallbackFails(c)
  BY <1>3, <1>8 DEF CallbackFails
<1>9. CASE TimerSelect \/ TimerRow \/ TimerCommit \/ TimerFails
  BY <1>4, <1>9 DEF TimerFails
<1>10. CASE DeadlockVictim
  BY <1>2, <1>3, <1>4, <1>10 DEF DeadlockVictim
<1>11. QED BY <1>5, <1>6, <1>7, <1>8, <1>9, <1>10 DEF Next

\* What is committed changes by whole leases, releases, expirations and
\* extensions, of the rows that each was for: no other task sees part of one,
\* no failure leaves part of one, a release ends leases of its user only, a
\* round of the timer exactly the leases that were over when it looked, and
\* none goes past what the book allows, however their row locks interleave.
THEOREM Implements == Spec => BookSpec
<1>1. Init => Book!Init
  <2> SUFFICES ASSUME Init PROVE Book!Init
    OBVIOUS
  <2>1. hosts \in [Hosts -> [user : Users, until : Int] \cup {FreeRow}]
    BY LeaseSystemAssumption DEF Init
  <2>2. \A u \in SerialUsers : Cardinality(Book!Leased(u)) <= get_lease_limit(u)
    BY HostsServiceAssumption DEF Init, Book!Leased, get_leased_hosts
  <2>3. Operations = [t \in Tx |-> Book!Nothing]
    <3>1. \A t \in Tx : stmt[t].kind = "none" /\ (t \in Callbacks => cb[t] # "query")
      BY DEF Init, BotInit, NoStmt
    <3>2. QED BY <3>1, CoreInit, OperationIdle DEF Operations
  <2>4. now \in Int
    BY DEF Init
  <2>5. QED BY <2>1, <2>2, <2>3, <2>4, BookCardinality DEF Book!Init, Book!Free, FreeRow
<1>2. QED BY <1>1, IsBookStep, Invariant, PTL DEF Spec, BookSpec, Book!Spec

=============================================================================
