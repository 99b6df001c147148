----------------------------- MODULE HostViews -----------------------------
(***************************************************************************)
(* The lists of hosts that people see: list_all_hosts of the API and of    *)
(* MCP and get_all_hosts of the web, which read users and hosts in two     *)
(* transactions; the page get_hosts, which reads the free hosts and the    *)
(* user's own in two; and get_hosts_filtered, which is one query.  Each    *)
(* read sees a committed state; others write in between.                   *)
(***************************************************************************)
CONSTANTS
    Hosts,
    Users,      \* ids of table users; a mail address stands for its user
    Groups,
    group_id,   \* the group of each host
    Lists,      \* lists being made
    Null

ASSUME HostViewsAssumption ==
    /\ Null \notin Users \cup Groups
    /\ group_id \in [Hosts -> Groups]

VARIABLES
    users,   \* the rows of table users
    hosts,   \* user_id of each host, and whether leased_until is set
    list,    \* each list: what has been read and what is shown
    \* Not in the program:
    held     \* who has held which host since the list's request came

vars == <<users, hosts, list, held>>

NoList == [kind |-> "none"]

\* None of the hosts is shown as leased.
NoLease == [h \in Hosts |-> Null]

Kinds == {"list_all_hosts", "get_hosts", "get_hosts_filtered"}

Holdings(rows) == {pair \in Hosts \X Users : rows[pair[1]].user = pair[2]}

-----------------------------------------------------------------------------
(***************************************************************************)
(* Reads.                                                                  *)
(***************************************************************************)
start(l, kind, u) ==
    /\ list' = [list EXCEPT ![l] = [kind |-> kind, state |-> "first", user |-> u]]
    /\ held' = [held EXCEPT ![l] = Holdings(hosts)]
    /\ UNCHANGED <<users, hosts>>

At(l, kind, state) == list[l].kind = kind /\ list[l].state = state

\* HostInfo::from a row of hosts and, maybe, a user: a lease is shown when there
\* are both a user and leased_until.
LeaseInfo(row, known) == IF row.leased /\ row.user \in known THEN row.user ELSE Null

\* What a list has read of hosts, and the leases it shows.
Show(l, rows, leases) ==
    list' = [list EXCEPT ![l] = [kind |-> @.kind, state |-> "shown", rows |-> rows,
                                 leases |-> leases]]

get_all_users(l) ==
    /\ At(l, "list_all_hosts", "first")
    /\ list' = [list EXCEPT ![l] = [kind |-> @.kind, state |-> "second", known |-> users]]
    /\ UNCHANGED <<users, hosts, held>>

get_all_hosts(l) ==
    /\ At(l, "list_all_hosts", "second")
    /\ Show(l, hosts, [h \in Hosts |-> LeaseInfo(hosts[h], list[l].known)])
    /\ UNCHANGED <<users, hosts, held>>

\* The free hosts; the page shows them without a lease.
get_available_group_hosts(l) ==
    /\ At(l, "get_hosts", "first")
    /\ list' = [list EXCEPT ![l].state = "second"]
    /\ UNCHANGED <<users, hosts, held>>

\* Mutant: the query does not look whose hosts they are.
LeasedTo_Anybody(row, u) == row.user # Null

LeasedTo(row, u) == row.user = u

\* The user's own hosts.
get_leased_hosts(l) ==
    LET u == list[l].user
    IN  /\ At(l, "get_hosts", "second")
        /\ Show(l, hosts, [h \in Hosts |-> IF LeasedTo(hosts[h], u) THEN u ELSE Null])
        /\ UNCHANGED <<users, hosts, held>>

\* WHERE email = $1, GROUP $2.
Matches(h, mail, group) ==
    /\ mail # Null => hosts[h].user = mail
    /\ group # Null => group_id[h] = group

\* Mutant: the users are those of an earlier read.
get_hosts_filtered_TwoReads(l) ==
    /\ list[l].kind = "get_hosts_filtered"
    /\ \/ /\ At(l, "get_hosts_filtered", "first")
          /\ list' = [list EXCEPT ![l] = [kind |-> @.kind, state |-> "second",
                                          known |-> users]]
       \/ /\ At(l, "get_hosts_filtered", "second")
          /\ Show(l, hosts, [h \in Hosts |-> LeaseInfo(hosts[h], list[l].known)])
    /\ UNCHANGED <<users, hosts, held>>

\* hosts LEFT JOIN users: a list of some of the hosts, with the users of the same
\* moment.
get_hosts_filtered(l) ==
    /\ At(l, "get_hosts_filtered", "first")
    /\ \E mail \in Users \cup {Null}, group \in Groups \cup {Null} :
          LET found == {h \in Hosts : Matches(h, mail, group)}
          IN  Show(l, [h \in found |-> hosts[h]],
                      [h \in found |-> LeaseInfo(hosts[h], users)])
    /\ UNCHANGED <<users, hosts, held>>

-----------------------------------------------------------------------------
(***************************************************************************)
(* Writes, one commit each.                                                *)
(***************************************************************************)
Write(rows) ==
    /\ hosts' = rows
    /\ held' = [l \in Lists |-> held[l] \cup Holdings(rows)]
    /\ UNCHANGED list

\* lease_hosts does not look whose hosts they are.
lease(h, u) ==
    /\ u \in users
    /\ hosts[h].user # u
    /\ Write([hosts EXCEPT ![h] = [user |-> u, leased |-> TRUE]])
    /\ UNCHANGED users

free(h) ==
    /\ Write([hosts EXCEPT ![h] = [user |-> Null, leased |-> FALSE]])
    /\ UNCHANGED users

\* The first login of a person.
add_user(u) ==
    /\ users' = users \cup {u}
    /\ UNCHANGED <<hosts, list, held>>

\* Mutant: the hosts keep the id of the deleted user.
RemoveUser_NoAction(u) ==
    /\ users' = users \ {u}
    /\ UNCHANGED <<hosts, list, held>>

\* An administrator deletes a user: ON DELETE SET NULL.
RemoveUser(u) ==
    /\ users' = users \ {u}
    /\ Write([h \in Hosts |-> IF hosts[h].user = u THEN [hosts[h] EXCEPT !.user = Null]
                                                   ELSE hosts[h]])

-----------------------------------------------------------------------------
Init ==
    /\ users = {}
    /\ hosts = [h \in Hosts |-> [user |-> Null, leased |-> FALSE]]
    /\ list = [l \in Lists |-> NoList]
    /\ held = [l \in Lists |-> {}]

Make(l) ==
    \/ get_all_users(l) \/ get_all_hosts(l)
    \/ get_available_group_hosts(l) \/ get_leased_hosts(l)
    \/ get_hosts_filtered(l)

Next ==
    \/ \E l \in Lists : Make(l) \/ \E kind \in Kinds, u \in Users : start(l, kind, u)
    \/ \E h \in Hosts : free(h) \/ \E u \in Users : lease(h, u)
    \/ \E u \in Users : add_user(u) \/ RemoveUser(u)

Spec == Init /\ [][Next]_vars

-----------------------------------------------------------------------------
(***************************************************************************)
(* Properties.                                                             *)
(***************************************************************************)
Row == [user : Users \cup {Null}, leased : BOOLEAN]

ListType(q) ==
    \/ q = NoList
    \/ q \in [kind : Kinds, state : {"first", "second"}, user : Users]
    \/ q \in [kind : Kinds, state : {"second"}, known : SUBSET Users]
    \/ /\ q.state = "shown"
       /\ DOMAIN q.rows = DOMAIN q.leases
       /\ \A h \in DOMAIN q.rows : q.rows[h] \in Row /\ q.leases[h] \in Users \cup {Null}

TypeOK ==
    /\ users \subseteq Users
    /\ hosts \in [Hosts -> Row]
    /\ \A h \in Hosts : hosts[h].user # Null => hosts[h].user \in users /\ hosts[h].leased
    /\ \A l \in Lists : ListType(list[l])
    /\ held \in [Lists -> SUBSET (Hosts \X Users)]

Shown(l, kinds) == list[l].kind \in kinds /\ list[l].state = "shown"

\* Every list shows as somebody's only what was his at some time while the list
\* was made, whatever is leased, freed and deleted between the two reads.
ShownLeaseWasHeld ==
    \A l \in Lists : Shown(l, Kinds) =>
        \A h \in DOMAIN list[l].leases :
            list[l].leases[h] # Null => <<h, list[l].leases[h]>> \in held[l]

ShowsLeases(l) ==
    \A h \in DOMAIN list[l].rows : list[l].rows[h].user # Null => list[l].leases[h] # Null

\* get_hosts_filtered shows the lease of every leased host it lists.
FilteredShowsLeases ==
    \A l \in Lists : Shown(l, {"get_hosts_filtered"}) => ShowsLeases(l)

=============================================================================
