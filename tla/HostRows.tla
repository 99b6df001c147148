------------------------------ MODULE HostRows ------------------------------
(***************************************************************************)
(* A row of table hosts, as far as leases go (columns user_id and          *)
(* leased_until), and the SELECTs of src/db/mod.rs on the table.           *)
(***************************************************************************)
EXTENDS Integers, FiniteSets

CONSTANTS
    Hosts,      \* the rows of table hosts
    Users,      \* the rows of table users
    Null        \* SQL NULL

Row == [user : Users \cup {Null}, until : Int \cup {Null}]
FreeRow == [user |-> Null, until |-> Null]

(***************************************************************************)
(* Time.  An hour is two units, so the notification window of half an hour *)
(* is one.                                                                 *)
(***************************************************************************)
Hour == 2
EXPIRATION_NOTIFY_WINDOW == 1

-----------------------------------------------------------------------------
(***************************************************************************)
(* Queries: each returns the ids a SELECT finds in a table of rows.        *)
(***************************************************************************)
get_leased_hosts(table, u) == {h \in Hosts : table[h].user = u}

get_available_hosts(table) == {h \in Hosts : table[h].user = Null}

get_leased_until_hosts(table, until) ==
    {h \in Hosts : /\ table[h].user # Null
                   /\ table[h].until # Null
                   /\ table[h].until < until}

get_expiring_hosts_for_user(table, u, expiring_before) ==
    get_leased_hosts(table, u) \cap get_leased_until_hosts(table, expiring_before)

=============================================================================
