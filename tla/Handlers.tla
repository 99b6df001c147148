------------------------------ MODULE Handlers ------------------------------
(***************************************************************************)
(* The front ends: which calls each route of src/web/mod.rs, each tool of  *)
(* src/mcp/mod.rs and each handler of the bot makes, in which order, and   *)
(* what becomes of their errors.  A call of a service or of the registry   *)
(* is one transaction; get_user_info, find_user_info and                   *)
(* check_authentication ask the AD and use no transaction.                 *)
(*                                                                         *)
(* A request to an unguarded route brings no session; with one it makes    *)
(* the calls of SessionGuard as well.                                      *)
(***************************************************************************)
EXTENDS Naturals, Sequences

\* The session layer, then auth_middleware.
SessionGuard == <<"get_user_by_id", "get_user_info">>

\* bearer_auth_middleware.
BearerGuard == <<"find_user_id_by_plaintext", "get_user_by_id", "get_user_info">>

\* Backend::authenticate.
Authenticate == <<"find_user_info", "check_authentication", "get_user_by_dn", "add_user">>

Open == [
    login          |-> Authenticate,
    get_hosts_json |-> <<"get_hosts_filtered">>]

Pages == [
    logout        |-> <<>>,
    get_hosts     |-> <<"get_all_groups", "get_available_group_hosts", "get_leased_hosts">>,
    get_all_hosts |-> <<"get_all_users", "get_all_hosts">>,
    lease_hosts   |-> <<"lease">>,
    lease_random  |-> <<"lease_random">>,
    release_hosts |-> <<"free">>,
    release_all   |-> <<"free_all">>,
    tokens_page   |-> <<"list_for_user">>,
    create_token  |-> <<"create">>,
    revoke_token  |-> <<"revoke">>]

Api == [
    list_groups          |-> <<"get_all_groups">>,
    list_available_hosts |-> <<"get_available_group_hosts">>,
    list_my_leased_hosts |-> <<"get_leased_hosts">>,
    list_all_hosts       |-> <<"get_all_users", "get_all_hosts">>,
    lease_hosts          |-> <<"lease">>,
    lease_random         |-> <<"lease_random">>,
    release_hosts        |-> <<"free">>,
    release_all          |-> <<"free_all">>]

Tools == [
    list_groups          |-> <<"get_all_groups">>,
    list_available_hosts |-> <<"get_available_group_hosts">>,
    list_my_leased_hosts |-> <<"get_leased_hosts">>,
    list_all_hosts       |-> <<"get_all_users", "get_all_hosts">>,
    lease_hosts          |-> <<"lease">>,
    lease_random_host    |-> <<"lease_random">>,
    release_hosts        |-> <<"free">>,
    release_all_hosts    |-> <<"free_all">>]

Bot == [
    main_state_handler     |-> <<"link_user">>,
    handle_extend_callback |-> <<"extend_user_hosts">>]

Fronts == [open |-> Open, page |-> Pages, api |-> Api, tool |-> Tools, bot |-> Bot]

Routes == UNION {[front : {f}, name : DOMAIN Fronts[f]] : f \in DOMAIN Fronts}

Guard(front) ==
    CASE front = "page"             -> SessionGuard
      [] front \in {"api", "tool"}  -> BearerGuard
      [] OTHER                      -> <<>>

Script(route) == Guard(route.front) \o Fronts[route.front][route.name]

Asks(call) == call \in {"get_user_info", "find_user_info", "check_authentication"}

\* Calls that change rows, which PostgreSQL locks until the transaction ends.
Writes(call) ==
    call \in {"lease", "lease_random", "free", "free_all", "add_user", "create",
              "revoke", "link_user", "extend_user_hosts"}

\* Calls that may end the handler early with another answer than an error: no
\* such user, token or host, a limit that is reached, somebody who is there.
EndsEarly(call) ==
    call \in {"get_user_by_id", "get_user_info", "find_user_id_by_plaintext",
              "find_user_info", "check_authentication", "get_user_by_dn", "lease",
              "lease_random", "create", "revoke", "link_user", "extend_user_hosts"}

\* The handlers that unwrap the result of their calls.
Unwraps(route) ==
    route.name \in
        CASE route.front = "page" -> {"get_hosts", "get_all_hosts", "release_hosts",
                                      "release_all"}
          [] route.front = "open" -> {"get_hosts_json"}
          [] OTHER                -> {}

\* An error of the call at this place of the script is unwrapped: not in the
\* guard, only in the handler itself.
PanicsAt(route, at) == Unwraps(route) /\ at > Len(Guard(route.front))

=============================================================================
