---------------------------- MODULE HostsService ----------------------------
(***************************************************************************)
(* src/logic/hosts.rs: the operations a user's request runs on the         *)
(* registry.  Each member of Requests is one request; it is sent once and  *)
(* ends "ok", "refused" (AlreadyLeased, LeaseLimit, ThereIsNoFreeHosts or  *)
(* a duration the front end rejects) or "error" (DatabaseError, or the     *)
(* client went away).  Web forms, the JSON API and the MCP tools all call  *)
(* these operations with the same inputs.                                  *)
(***************************************************************************)
EXTENDS Registry, FiniteSetsExt

CONSTANTS
    HostIds,      \* the ids a request may name: the hosts and unknown ids
    Groups,       \* the rows of table groups
    group_id,     \* the group of each host, or Null
    UserGroups,   \* the AD groups of each user
    GroupLimits,  \* lease_limits_by_ad_group, as a function on some AD groups
    lease_limit,  \* the configured limit, for users with no limited AD group
    Days,         \* the days a request may ask for
    Hours,        \* the hours a request may ask for
    SerialUsers   \* the users who have at most one lease request in flight

get_lease_limit(u) ==
    LET limits == {GroupLimits[g] : g \in UserGroups[u] \cap DOMAIN GroupLimits}
    IN  IF limits = {} THEN lease_limit ELSE Max(limits)

ASSUME HostsServiceAssumption ==
    /\ Hosts \subseteq HostIds
    /\ IsFiniteSet(HostIds)
    /\ Null \notin Groups
    /\ group_id \in [Hosts -> Groups \cup {Null}]
    /\ SerialUsers \subseteq Users
    /\ Days \subseteq Nat
    /\ Hours \subseteq Nat
    /\ \A u \in Users : get_lease_limit(u) \in Nat

VARIABLES
    pc,      \* where each request is
    asking   \* the user of a lease_random request that has passed the limit

serviceVars == <<pc, asking>>

\* The front ends refuse other durations before they call the service.
ValidDuration(days, hours) == days \in 0..63 /\ hours \in 0..23

lease_duration(days, hours) == (hours + days * 24) * Hour

get_first_available_group_host(table, g) ==
    {h \in get_available_hosts(table) : group_id[h] = g}

\* Request r is a lease request of user u that has read u's leases and has
\* not committed yet.
LeasingFor(r, u) ==
    \/ pc[r] = "pick" /\ asking[r] = u
    \/ stmt[r].kind = "lease_hosts" /\ stmt[r].user = u

\* The environment: which users send a lease request now.
MayLease(u) == u \in SerialUsers => \A r \in Requests : ~LeasingFor(r, u)

\* The request ends before it has written anything.
Refuse(r) ==
    /\ pc' = [pc EXCEPT ![r] = "refused"]
    /\ UNCHANGED <<registryVars, asking>>

\* The request starts its UPDATE.
Update(r, s) ==
    /\ pc' = [pc EXCEPT ![r] = "update"]
    /\ StartStmt(r, s)

-----------------------------------------------------------------------------
\* Mutant: the user's own hosts are not looked up among the requested ones.
lease_NoOwnCheck(r, u, ids, d) ==
    LET leased == get_leased_hosts(hosts, u)
        refused == Cardinality(leased) + Cardinality(ids) > get_lease_limit(u)
    IN  /\ pc[r] = "new"
        /\ MayLease(u)
        /\ \/ refused /\ Refuse(r)
           \/ ~refused /\ Update(r, lease_hosts(u, ids, now + d))
                       /\ UNCHANGED asking

\* HostsService::lease up to the UPDATE: the SELECT of the user's own hosts,
\* the two checks on it, and the start of the UPDATE.
lease(r, u, ids, d) ==
    LET leased == get_leased_hosts(hosts, u)
        refused == \/ leased \cap ids # {}
                   \/ Cardinality(leased) + Cardinality(ids) > get_lease_limit(u)
    IN  /\ pc[r] = "new"
        /\ MayLease(u)
        /\ \/ refused /\ Refuse(r)
           \/ ~refused /\ Update(r, lease_hosts(u, ids, now + d))
                       /\ UNCHANGED asking

\* Mutant: lease_random lets a user who is at the limit through.
lease_random_OffByOne(r, u) ==
    /\ pc[r] = "new"
    /\ MayLease(u)
    /\ \/ /\ Cardinality(get_leased_hosts(hosts, u)) > get_lease_limit(u)
          /\ Refuse(r)
       \/ /\ Cardinality(get_leased_hosts(hosts, u)) <= get_lease_limit(u)
          /\ pc' = [pc EXCEPT ![r] = "pick"]
          /\ asking' = [asking EXCEPT ![r] = u]
          /\ UNCHANGED registryVars

\* HostsService::lease_random up to its second SELECT.
lease_random(r, u) ==
    /\ pc[r] = "new"
    /\ MayLease(u)
    /\ \/ /\ Cardinality(get_leased_hosts(hosts, u)) >= get_lease_limit(u)
          /\ Refuse(r)
       \/ /\ Cardinality(get_leased_hosts(hosts, u)) < get_lease_limit(u)
          /\ pc' = [pc EXCEPT ![r] = "pick"]
          /\ asking' = [asking EXCEPT ![r] = u]
          /\ UNCHANGED registryVars

\* The rest of lease_random: the SELECT of a free host of the group (LIMIT 1
\* without ORDER BY: any of them) and the start of the UPDATE of that row.
lease_random_pick(r, g, d) ==
    /\ pc[r] = "pick"
    /\ asking' = [asking EXCEPT ![r] = Null]
    /\ \/ /\ get_first_available_group_host(hosts, g) = {}
          /\ pc' = [pc EXCEPT ![r] = "refused"]
          /\ UNCHANGED registryVars
       \/ \E h \in get_first_available_group_host(hosts, g) :
             Update(r, lease_hosts(asking[r], {h}, now + d))

\* A lease request whose days or hours the front end rejects.
bad_duration(r, days, hours) ==
    /\ pc[r] = "new"
    /\ ~ValidDuration(days, hours)
    /\ Refuse(r)

free(r, u, ids) ==
    /\ pc[r] = "new"
    /\ Update(r, free_hosts_for_user(ids, u))
    /\ UNCHANGED asking

free_all_hosts(r, u) ==
    /\ pc[r] = "new"
    /\ Update(r, free_all(u))
    /\ UNCHANGED asking

\* One row of the UPDATE of the request.
write_row(r) ==
    /\ pc[r] = "update"
    /\ WriteRow(r)
    /\ UNCHANGED serviceVars

\* The UPDATE is done: `tx.commit()', and the answer to the client, which is
\* an error if the server's own answer to the commit is lost.
commit(r) ==
    /\ pc[r] = "update"
    /\ Commit(r)
    /\ \E answer \in {"ok", "error"} : pc' = [pc EXCEPT ![r] = answer]
    /\ UNCHANGED asking

\* Mutant: a request that fails keeps its transaction open.
abort_Leak(r) ==
    /\ pc[r] \in {"new", "pick", "update"}
    /\ pc' = [pc EXCEPT ![r] = "error"]
    /\ asking' = [asking EXCEPT ![r] = Null]
    /\ UNCHANGED registryVars

\* `?' on a failed query, or the request's future is dropped: the
\* transaction goes out of scope uncommitted.
abort(r) ==
    /\ pc[r] \in {"new", "pick", "update"}
    /\ Rollback(r)
    /\ pc' = [pc EXCEPT ![r] = "error"]
    /\ asking' = [asking EXCEPT ![r] = Null]

-----------------------------------------------------------------------------
ServiceInit ==
    /\ pc = [r \in Requests |-> "new"]
    /\ asking = [r \in Requests |-> Null]

\* A request that is still new starts one of the operations.
Arrive(r) ==
    \/ \E u \in Users, ids \in SUBSET HostIds, days \in Days, hours \in Hours :
          /\ ValidDuration(days, hours)
          /\ lease(r, u, ids, lease_duration(days, hours))
    \/ \E u \in Users : lease_random(r, u)
    \/ \E days \in Days, hours \in Hours : bad_duration(r, days, hours)
    \/ \E u \in Users, ids \in SUBSET HostIds : free(r, u, ids)
    \/ \E u \in Users : free_all_hosts(r, u)

Pick(r) ==
    \E g \in Groups, days \in Days, hours \in Hours :
        /\ ValidDuration(days, hours)
        /\ lease_random_pick(r, g, lease_duration(days, hours))

ServiceTypeOK ==
    /\ pc \in [Requests -> {"new", "pick", "update", "ok", "refused", "error"}]
    /\ asking \in [Requests -> Users \cup {Null}]

=============================================================================
