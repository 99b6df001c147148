----------------------------- MODULE ViewsProofs -----------------------------
(***************************************************************************)
(* Theorems about HostViews, for any hosts, users and groups and any       *)
(* number of lists that are made at a time.                                *)
(***************************************************************************)
EXTENDS HostViews, TLAPS

-----------------------------------------------------------------------------
(***************************************************************************)
(* The inductive invariant.                                                *)
(***************************************************************************)
\* Who holds a host now has held it since any list's request came.
HeldInv == \A l \in Lists : Holdings(hosts) \subseteq held[l]

ViewsInv ==
    /\ TypeOK
    /\ DOMAIN list = Lists
    /\ HeldInv
    /\ ShownLeaseWasHeld
    /\ FilteredShowsLeases

-----------------------------------------------------------------------------
(***************************************************************************)
(* Steps of the lists.                                                     *)
(***************************************************************************)
\* A list goes on to q; if q is shown, its leases were held, and a filtered list
\* shows them all.
LEMMA ListMoves ==
    ASSUME ViewsInv, NEW l \in Lists, NEW q, ListType(q),
           list' = [list EXCEPT ![l] = q],
           UNCHANGED <<users, hosts>>,
           held' \in [Lists -> SUBSET (Hosts \X Users)],
           \A m \in Lists : m # l => held'[m] = held[m],
           Holdings(hosts) \subseteq held'[l],
           q.kind \in Kinds /\ q.state = "shown" =>
              \A h \in DOMAIN q.leases :
                 q.leases[h] # Null => <<h, q.leases[h]>> \in held'[l],
           q.kind = "get_hosts_filtered" /\ q.state = "shown" =>
              \A h \in DOMAIN q.rows : q.rows[h].user # Null => q.leases[h] # Null
    PROVE  ViewsInv'
<1>1. \A m \in Lists : list'[m] = IF m = l THEN q ELSE list[m]
  BY DEF ViewsInv
<1>2. DOMAIN list' = Lists
  BY DEF ViewsInv
<1>3. TypeOK'
  <2>1. \A m \in Lists : ListType(list'[m])
    BY <1>1 DEF ViewsInv, TypeOK
  <2>2. (\A m \in Lists : ListType(list[m]))'
    BY <2>1 DEF ListType, Row
  <2>3. QED BY <2>2 DEF ViewsInv, TypeOK, Row
<1>4. HeldInv'
  BY DEF ViewsInv, HeldInv, Holdings
<1>5. ShownLeaseWasHeld'
  BY <1>1 DEF ViewsInv, ShownLeaseWasHeld, Shown
<1>6. FilteredShowsLeases'
  BY <1>1 DEF ViewsInv, FilteredShowsLeases, Shown, ShowsLeases
<1>7. QED BY <1>2, <1>3, <1>4, <1>5, <1>6 DEF ViewsInv

\* A list is shown with rows and leases read of the committed table.
LEMMA ShowKeeps ==
    ASSUME ViewsInv, NEW l \in Lists, NEW kind \in Kinds, list[l].kind = kind,
           NEW rows, NEW leases, Show(l, rows, leases),
           UNCHANGED <<users, hosts, held>>,
           DOMAIN rows = DOMAIN leases, DOMAIN rows \subseteq Hosts,
           \A h \in DOMAIN rows : rows[h] = hosts[h] /\ leases[h] \in {hosts[h].user, Null},
           kind = "get_hosts_filtered" => \A h \in DOMAIN rows : leases[h] = hosts[h].user
    PROVE  ViewsInv'
<1>1. PICK q : q = [kind |-> kind, state |-> "shown", rows |-> rows, leases |-> leases]
  OBVIOUS
<1>2. q.kind = kind /\ q.state = "shown" /\ q.rows = rows /\ q.leases = leases
  BY <1>1
<1>3. list' = [list EXCEPT ![l] = q]
  BY <1>1 DEF Show
<1>4. \A h \in Hosts : hosts[h] \in Row /\ hosts[h].user \in Users \cup {Null}
  BY DEF ViewsInv, TypeOK, Row
<1>5. ListType(q)
  <2>1. \A h \in DOMAIN rows : rows[h] \in Row /\ leases[h] \in Users \cup {Null}
    BY <1>4
  <2>2. QED BY <1>2, <2>1 DEF ListType
<1>6. \A h \in DOMAIN leases : leases[h] # Null => <<h, leases[h]>> \in held'[l]
  <2>1. SUFFICES ASSUME NEW h \in DOMAIN leases, leases[h] # Null
                 PROVE  <<h, leases[h]>> \in held'[l]
    OBVIOUS
  <2>2. h \in Hosts /\ leases[h] = hosts[h].user /\ leases[h] \in Users
    BY <1>4, <2>1
  <2>3. <<h, leases[h]>> \in Holdings(hosts)
    BY <2>2 DEF Holdings
  <2>4. QED BY <2>3 DEF ViewsInv, HeldInv
<1>7. /\ held' \in [Lists -> SUBSET (Hosts \X Users)]
      /\ \A m \in Lists : held'[m] = held[m]
      /\ Holdings(hosts) \subseteq held'[l]
  BY DEF ViewsInv, TypeOK, HeldInv
<1>8. q.kind = "get_hosts_filtered" =>
        \A h \in DOMAIN q.rows : q.rows[h].user # Null => q.leases[h] # Null
  BY <1>2
<1>9. UNCHANGED <<users, hosts>>
  OBVIOUS
<1>10. QED BY <1>2, <1>3, <1>5, <1>6, <1>7, <1>8, <1>9, ListMoves

\* Whose lease HostInfo::from shows: that of the row, or none.
LEMMA LeaseIs ==
    ASSUME ViewsInv, NEW h \in Hosts, NEW known
    PROVE  /\ LeaseInfo(hosts[h], known) \in {hosts[h].user, Null}
           /\ known = users => LeaseInfo(hosts[h], known) = hosts[h].user
BY HostViewsAssumption DEF LeaseInfo, ViewsInv, TypeOK

\* A list is begun.
LEMMA StartKeeps ==
    ASSUME ViewsInv, NEW l \in Lists, NEW kind \in Kinds, NEW u \in Users, start(l, kind, u)
    PROVE  ViewsInv'
<1>1. PICK q : q = [kind |-> kind, state |-> "first", user |-> u]
  OBVIOUS
<1>2. q.state # "shown" /\ ListType(q)
  BY <1>1 DEF ListType
<1>3. list' = [list EXCEPT ![l] = q] /\ held' = [held EXCEPT ![l] = Holdings(hosts)]
      /\ UNCHANGED <<users, hosts>>
  BY <1>1 DEF start
<1>4. Holdings(hosts) \in SUBSET (Hosts \X Users)
  BY DEF Holdings
<1>5. /\ held' \in [Lists -> SUBSET (Hosts \X Users)]
      /\ \A m \in Lists : held'[m] = IF m = l THEN Holdings(hosts) ELSE held[m]
  BY <1>3, <1>4 DEF ViewsInv, TypeOK
<1>6. QED BY <1>2, <1>3, <1>5, ListMoves

\* The first of two reads.
LEMMA FirstReadKeeps ==
    ASSUME ViewsInv, NEW l \in Lists, get_all_users(l) \/ get_available_group_hosts(l)
    PROVE  ViewsInv'
<1>1. /\ held \in [Lists -> SUBSET (Hosts \X Users)] /\ Holdings(hosts) \subseteq held[l]
      /\ ListType(list[l]) /\ users \in SUBSET Users
  BY DEF ViewsInv, TypeOK, HeldInv
<1>2. PICK q : /\ ListType(q) /\ q.state # "shown"
               /\ list' = [list EXCEPT ![l] = q]
  <2>1. CASE get_all_users(l)
    <3>1. PICK q : q = [kind |-> list[l].kind, state |-> "second", known |-> users]
      OBVIOUS
    <3>2. list[l].kind \in Kinds
      BY <2>1 DEF get_all_users, At, Kinds
    <3>3. q.state = "second" /\ ListType(q)
      BY <1>1, <3>1, <3>2 DEF ListType
    <3>4. list' = [list EXCEPT ![l] = q]
      BY <2>1, <3>1 DEF get_all_users
    <3>5. QED BY <3>3, <3>4
  <2>2. CASE get_available_group_hosts(l)
    <3>1. list[l].kind = "get_hosts" /\ list[l].state = "first"
      BY <2>2 DEF get_available_group_hosts, At
    <3>2. list[l] \in [kind : Kinds, state : {"first", "second"}, user : Users]
      BY <1>1, <3>1 DEF ListType, NoList
    <3>3. PICK q : q = [list[l] EXCEPT !.state = "second"]
      OBVIOUS
    <3>4. q.state = "second" /\ ListType(q)
      BY <3>2, <3>3 DEF ListType
    <3>5. list' = [list EXCEPT ![l] = q]
      BY <2>2, <3>3 DEF get_available_group_hosts
    <3>6. QED BY <3>4, <3>5
  <2>3. QED BY <2>1, <2>2
<1>3. UNCHANGED <<users, hosts, held>>
  BY DEF get_all_users, get_available_group_hosts
<1>4. QED BY <1>1, <1>2, <1>3, ListMoves

\* The second read of list_all_hosts: a lease is shown only with its user known.
LEMMA AllHostsKeeps ==
    ASSUME ViewsInv, NEW l \in Lists, get_all_hosts(l)
    PROVE  ViewsInv'
<1>1. PICK leases : leases = [h \in Hosts |-> LeaseInfo(hosts[h], list[l].known)]
  OBVIOUS
<1>2. \A h \in Hosts : leases[h] \in {hosts[h].user, Null}
  BY <1>1, LeaseIs
<1>3. DOMAIN leases = Hosts /\ DOMAIN hosts = Hosts
  BY <1>1 DEF ViewsInv, TypeOK
<1>4. /\ Show(l, hosts, leases) /\ list[l].kind = "list_all_hosts"
      /\ UNCHANGED <<users, hosts, held>>
  BY <1>1 DEF get_all_hosts, At
<1>5. "list_all_hosts" \in Kinds /\ "list_all_hosts" # "get_hosts_filtered"
  BY DEF Kinds
<1>6. QED BY <1>2, <1>3, <1>4, <1>5, ShowKeeps

\* The second read of the page: the user's own hosts.
LEMMA LeasedHostsKeeps ==
    ASSUME ViewsInv, NEW l \in Lists, get_leased_hosts(l)
    PROVE  ViewsInv'
<1>1. PICK leases : leases = [h \in Hosts |-> IF LeasedTo(hosts[h], list[l].user)
                                              THEN list[l].user ELSE Null]
  OBVIOUS
<1>2. \A h \in Hosts : leases[h] \in {hosts[h].user, Null}
  BY <1>1 DEF LeasedTo
<1>3. DOMAIN leases = Hosts /\ DOMAIN hosts = Hosts
  BY <1>1 DEF ViewsInv, TypeOK
<1>4. /\ Show(l, hosts, leases) /\ list[l].kind = "get_hosts"
      /\ UNCHANGED <<users, hosts, held>>
  BY <1>1 DEF get_leased_hosts, At
<1>5. "get_hosts" \in Kinds /\ "get_hosts" # "get_hosts_filtered"
  BY DEF Kinds
<1>6. QED BY <1>2, <1>3, <1>4, <1>5, ShowKeeps

\* The one query of get_hosts_filtered.
LEMMA FilteredKeeps ==
    ASSUME ViewsInv, NEW l \in Lists, get_hosts_filtered(l)
    PROVE  ViewsInv'
<1>1. PICK mail \in Users \cup {Null}, group \in Groups \cup {Null} :
        LET found == {h \in Hosts : Matches(h, mail, group)}
        IN  Show(l, [h \in found |-> hosts[h]], [h \in found |-> LeaseInfo(hosts[h], users)])
  BY DEF get_hosts_filtered
<1>2. PICK found : found = {h \in Hosts : Matches(h, mail, group)}
  OBVIOUS
<1>3. PICK rows : rows = [h \in found |-> hosts[h]]
  OBVIOUS
<1>4. PICK leases : leases = [h \in found |-> LeaseInfo(hosts[h], users)]
  OBVIOUS
<1>5. Show(l, rows, leases) /\ UNCHANGED <<users, hosts, held>>
      /\ list[l].kind = "get_hosts_filtered"
  BY <1>1, <1>2, <1>3, <1>4 DEF get_hosts_filtered, At
<1>6. found \subseteq Hosts /\ DOMAIN rows = found /\ DOMAIN leases = found
  BY <1>2, <1>3, <1>4
<1>7. \A h \in found : rows[h] = hosts[h] /\ leases[h] = hosts[h].user
  BY <1>3, <1>4, <1>6, LeaseIs
<1>8. "get_hosts_filtered" \in Kinds
  BY DEF Kinds
<1>9. QED BY <1>5, <1>6, <1>7, <1>8, ShowKeeps

-----------------------------------------------------------------------------
(***************************************************************************)
(* Steps of the tables.                                                    *)
(***************************************************************************)
\* A commit that leaves no host with a user who is not there: what is shown was
\* held before.
LEMMA WriteKeeps ==
    ASSUME ViewsInv, NEW rows \in [Hosts -> Row], Write(rows), users' \subseteq Users,
           \A h \in Hosts : rows[h].user # Null => rows[h].user \in users' /\ rows[h].leased
    PROVE  ViewsInv'
<1>1. Holdings(rows) \subseteq Hosts \X Users
  BY DEF Holdings
<1>2. /\ hosts' = rows /\ list' = list
      /\ \A l \in Lists : held'[l] = held[l] \cup Holdings(rows)
      /\ held' \in [Lists -> SUBSET (Hosts \X Users)]
  BY <1>1 DEF Write, ViewsInv, TypeOK
<1>3. TypeOK'
  <2>1. (\A l \in Lists : ListType(list[l]))'
    BY <1>2 DEF ViewsInv, TypeOK, ListType, Row
  <2>2. QED BY <1>2, <2>1 DEF ViewsInv, TypeOK, Row
<1>4. HeldInv'
  BY <1>2 DEF HeldInv, Holdings
<1>5. ShownLeaseWasHeld'
  BY <1>2 DEF ViewsInv, ShownLeaseWasHeld, Shown
<1>6. FilteredShowsLeases'
  BY <1>2 DEF ViewsInv, FilteredShowsLeases, Shown, ShowsLeases
<1>7. QED BY <1>2, <1>3, <1>4, <1>5, <1>6 DEF ViewsInv

\* What TypeOK says of the table hosts.
LEMMA RowsAre ==
    ASSUME ViewsInv
    PROVE  /\ hosts \in [Hosts -> Row] /\ users \subseteq Users /\ Null \notin Users
           /\ \A h \in Hosts : hosts[h].user # Null => hosts[h].user \in users /\ hosts[h].leased
BY HostViewsAssumption DEF ViewsInv, TypeOK

\* A host is leased to a user who is there.
LEMMA LeaseKeeps ==
    ASSUME ViewsInv, NEW h \in Hosts, NEW u \in Users, lease(h, u)
    PROVE  ViewsInv'
<1>1. PICK row : row = [user |-> u, leased |-> TRUE]
  OBVIOUS
<1>2. row \in Row /\ row.user = u /\ row.leased
  BY <1>1 DEF Row
<1>3. PICK rows : rows = [hosts EXCEPT ![h] = row]
  OBVIOUS
<1>4. rows \in [Hosts -> Row] /\ \A g \in Hosts : rows[g] = IF g = h THEN row ELSE hosts[g]
  BY <1>2, <1>3, RowsAre
<1>5. Write(rows) /\ u \in users /\ users' = users
  BY <1>1, <1>3 DEF lease
<1>6. QED BY <1>2, <1>4, <1>5, RowsAre, WriteKeeps

\* A host is released.
LEMMA FreeKeeps ==
    ASSUME ViewsInv, NEW h \in Hosts, free(h)
    PROVE  ViewsInv'
<1>1. PICK row : row = [user |-> Null, leased |-> FALSE]
  OBVIOUS
<1>2. row \in Row /\ row.user = Null
  BY <1>1 DEF Row
<1>3. PICK rows : rows = [hosts EXCEPT ![h] = row]
  OBVIOUS
<1>4. rows \in [Hosts -> Row] /\ \A g \in Hosts : rows[g] = IF g = h THEN row ELSE hosts[g]
  BY <1>2, <1>3, RowsAre
<1>5. Write(rows) /\ users' = users
  BY <1>1, <1>3 DEF free
<1>6. QED BY <1>2, <1>4, <1>5, RowsAre, WriteKeeps

\* A user is deleted: ON DELETE SET NULL.
LEMMA RemoveKeeps ==
    ASSUME ViewsInv, NEW u \in Users, RemoveUser(u)
    PROVE  ViewsInv'
<1>1. PICK rows : rows = [h \in Hosts |-> IF hosts[h].user = u
                             THEN [hosts[h] EXCEPT !.user = Null] ELSE hosts[h]]
  OBVIOUS
<1>2. Write(rows) /\ users' = users \ {u}
  BY <1>1 DEF RemoveUser
<1>3. \A h \in Hosts :
        /\ rows[h] \in Row
        /\ rows[h].user # Null => rows[h] = hosts[h] /\ hosts[h].user # u
  <2>1. SUFFICES ASSUME NEW h \in Hosts
                 PROVE  /\ rows[h] \in Row
                        /\ rows[h].user # Null => rows[h] = hosts[h] /\ hosts[h].user # u
    OBVIOUS
  <2>2. hosts[h] \in [user : Users \cup {Null}, leased : BOOLEAN]
    BY RowsAre DEF Row
  <2>3. CASE hosts[h].user = u
    BY <1>1, <2>2, <2>3 DEF Row
  <2>4. CASE hosts[h].user # u
    BY <1>1, <2>2, <2>4 DEF Row
  <2>5. QED BY <2>3, <2>4
<1>4. rows \in [Hosts -> Row]
  BY <1>1, <1>3
<1>5. QED BY <1>2, <1>3, <1>4, RowsAre, WriteKeeps

\* A person logs in for the first time.
LEMMA AddKeeps ==
    ASSUME ViewsInv, NEW u \in Users, add_user(u)
    PROVE  ViewsInv'
<1>1. users' = users \cup {u} /\ UNCHANGED <<hosts, list, held>>
  BY DEF add_user
<1>2. TypeOK'
  <2>1. (\A l \in Lists : ListType(list[l]))'
    BY <1>1 DEF ViewsInv, TypeOK, ListType, Row
  <2>2. QED BY <1>1, <2>1 DEF ViewsInv, TypeOK, Row
<1>3. HeldInv'
  BY <1>1 DEF ViewsInv, HeldInv, Holdings
<1>4. ShownLeaseWasHeld'
  BY <1>1 DEF ViewsInv, ShownLeaseWasHeld, Shown
<1>5. FilteredShowsLeases'
  BY <1>1 DEF ViewsInv, FilteredShowsLeases, Shown, ShowsLeases
<1>6. QED BY <1>1, <1>2, <1>3, <1>4, <1>5 DEF ViewsInv

-----------------------------------------------------------------------------
(***************************************************************************)
(* The theorems.                                                           *)
(***************************************************************************)
\* No list, and every host free.
LEMMA InitInv ==
    ASSUME Init
    PROVE  ViewsInv
<1>1. \A h \in Hosts : hosts[h] \in Row /\ hosts[h].user = Null
  BY DEF Init, Row
<1>2. \A l \in Lists : list[l] = NoList /\ NoList.kind \notin Kinds /\ ListType(NoList)
  BY DEF Init, NoList, Kinds, ListType
<1>3. TypeOK /\ DOMAIN list = Lists
  BY <1>1, <1>2 DEF Init, TypeOK
<1>4. HeldInv
  BY <1>1, HostViewsAssumption DEF HeldInv, Holdings
<1>5. ShownLeaseWasHeld /\ FilteredShowsLeases
  BY <1>2 DEF ShownLeaseWasHeld, FilteredShowsLeases, Shown, Kinds
<1>6. QED BY <1>3, <1>4, <1>5 DEF ViewsInv

\* No read and no commit breaks the invariant.
LEMMA NextKeeps ==
    ASSUME ViewsInv, [Next]_vars
    PROVE  ViewsInv'
<1>1. CASE UNCHANGED vars
  <2>1. (\A l \in Lists : ListType(list[l]))'
    BY <1>1 DEF vars, ViewsInv, TypeOK, ListType, Row
  <2>2. TypeOK'
    BY <1>1, <2>1 DEF vars, ViewsInv, TypeOK, Row
  <2>3. HeldInv' /\ ShownLeaseWasHeld' /\ FilteredShowsLeases' /\ DOMAIN list' = Lists
    BY <1>1 DEF vars, ViewsInv, HeldInv, Holdings, ShownLeaseWasHeld,
                FilteredShowsLeases, Shown, ShowsLeases
  <2>4. QED BY <2>2, <2>3 DEF ViewsInv
<1>2. ASSUME NEW l \in Lists, Make(l) PROVE ViewsInv'
  BY <1>2, FirstReadKeeps, AllHostsKeeps, LeasedHostsKeeps, FilteredKeeps DEF Make
<1>3. QED BY <1>1, <1>2, StartKeeps, LeaseKeeps, FreeKeeps, AddKeeps, RemoveKeeps DEF Next

\* Whatever is leased, released and deleted between two reads, who holds a host
\* has held it since the request of every list: ViewsInv is inductive.
THEOREM ViewsInvariant == Spec => []ViewsInv
<1>1. QED BY InitInv, NextKeeps, PTL DEF Spec

\* The state of the lists keeps its types, and no host has a user who is not
\* there: HostViews!TypeOK.
THEOREM TypeCorrect == Spec => []TypeOK
<1>1. ViewsInv => TypeOK
  BY DEF ViewsInv
<1>2. QED BY <1>1, ViewsInvariant, PTL

\* list_all_hosts and the page of hosts, for all their two reads, show nobody
\* as holder who was not while the list was made: HostViews!ShownLeaseWasHeld.
THEOREM ShownWereHeld == Spec => []ShownLeaseWasHeld
<1>1. ViewsInv => ShownLeaseWasHeld
  BY DEF ViewsInv
<1>2. QED BY <1>1, ViewsInvariant, PTL

\* get_hosts_filtered, which is one query, leaves out no lease of its hosts:
\* HostViews!FilteredShowsLeases.
THEOREM FilteredIsWhole == Spec => []FilteredShowsLeases
<1>1. ViewsInv => FilteredShowsLeases
  BY DEF ViewsInv
<1>2. QED BY <1>1, ViewsInvariant, PTL

=============================================================================
