----------------------------- MODULE ApiTokens -----------------------------
(***************************************************************************)
(* src/logic/api_tokens.rs and the two sides that use it: the web page     *)
(* where users create and revoke tokens (src/web/tokens.rs) and the bearer *)
(* authentication in front of the API and of MCP (src/web/auth/bearer.rs). *)
(*                                                                         *)
(* A token stands for the random plaintext and for its hash, so a token is *)
(* drawn once.  Each operation runs in a transaction of its own with at    *)
(* most one INSERT or DELETE, which takes effect at the commit.            *)
(***************************************************************************)
EXTENDS Naturals, FiniteSets

CONSTANTS
    Users,            \* the rows of table users
    Tokens,           \* the plaintexts that can be drawn
    Null,
    WebRequests,      \* requests of logged-in users to the tokens page
    ApiRequests,      \* requests with an Authorization header
    api_token_limit,
    SerialCreators,   \* the users with at most one create request in flight
    MaxFailures       \* bound: queries that fail

ASSUME ApiTokensAssumption ==
    /\ IsFiniteSet(Tokens)
    /\ Null \notin Users \cup Tokens
    /\ SerialCreators \subseteq Users
    /\ api_token_limit \in Nat
    /\ MaxFailures \in Nat

VARIABLES
    api_tokens,   \* the user_id of each row of table api_tokens, or Null
    directory,    \* the users the AD server knows, with a mail address
    wpc,          \* where each web request is
    creating,     \* the user and the token of a create request
    apc,          \* where each API request is
    bearer,       \* the token in the request's header
    caller,       \* the user an API request has been found to come from
    failures,     \* queries failed so far
    \* Not in the program:
    life,         \* what the outside world knows of each token
    late,         \* API requests that arrived after their token was revoked
    seen          \* users in the directory at some time since the request came

vars == <<api_tokens, directory, wpc, creating, apc, bearer, caller, failures,
          life, late, seen>>

webVars == <<wpc, creating>>
apiVars == <<apc, bearer, caller, late, seen>>

list_api_tokens_for_user(u) == {t \in Tokens : api_tokens[t] = u}

NoCreation == [user |-> Null, token |-> Null]

Fail ==
    /\ failures < MaxFailures
    /\ failures' = failures + 1

-----------------------------------------------------------------------------
(***************************************************************************)
(* The tokens page.                                                        *)
(***************************************************************************)
CreatingFor(w, u) == wpc[w] = "insert" /\ creating[w].user = u

\* The environment: which users send a create request now.
MayCreate(u) == u \in SerialCreators => \A w \in WebRequests : ~CreatingFor(w, u)

\* Mutant: one token more than the limit.
create_OffByOne(w, u, t) ==
    /\ wpc[w] = "new"
    /\ MayCreate(u)
    /\ life[t] = "unused"
    /\ IF Cardinality(list_api_tokens_for_user(u)) > api_token_limit
       THEN /\ wpc' = [wpc EXCEPT ![w] = "refused"]
            /\ UNCHANGED <<creating, life>>
       ELSE /\ wpc' = [wpc EXCEPT ![w] = "insert"]
            /\ creating' = [creating EXCEPT ![w] = [user |-> u, token |-> t]]
            /\ life' = [life EXCEPT ![t] = "drawn"]
    /\ UNCHANGED <<api_tokens, directory, apiVars, failures>>

\* ApiTokensService::create up to the INSERT: the plaintext is drawn and the
\* user's tokens are counted.
create(w, u, t) ==
    /\ wpc[w] = "new"
    /\ MayCreate(u)
    /\ life[t] = "unused"
    /\ IF Cardinality(list_api_tokens_for_user(u)) >= api_token_limit
       THEN /\ wpc' = [wpc EXCEPT ![w] = "refused"]
            /\ UNCHANGED <<creating, life>>
       ELSE /\ wpc' = [wpc EXCEPT ![w] = "insert"]
            /\ creating' = [creating EXCEPT ![w] = [user |-> u, token |-> t]]
            /\ life' = [life EXCEPT ![t] = "drawn"]
    /\ UNCHANGED <<api_tokens, directory, apiVars, failures>>

Inserted(w) == [api_tokens EXCEPT ![creating[w].token] = creating[w].user]

\* The INSERT, the commit, and the page that shows the plaintext.
create_api_token(w) ==
    /\ wpc[w] = "insert"
    /\ api_tokens' = Inserted(w)
    /\ life' = [life EXCEPT ![creating[w].token] = "shown"]
    /\ wpc' = [wpc EXCEPT ![w] = "ok"]
    /\ creating' = [creating EXCEPT ![w] = NoCreation]
    /\ UNCHANGED <<directory, apiVars, failures>>

\* A query fails or the client goes away: nobody sees the plaintext, whether
\* the commit took effect or not.
create_fail(w) ==
    /\ wpc[w] = "insert"
    /\ Fail
    /\ api_tokens' \in {api_tokens, Inserted(w)}
    /\ wpc' = [wpc EXCEPT ![w] = "error"]
    /\ creating' = [creating EXCEPT ![w] = NoCreation]
    /\ UNCHANGED <<directory, apiVars, life>>

\* Mutants: the DELETE is not committed, or does not name the user.
Deleted_NoCommit(t, u) == api_tokens
Deleted_AnyUser(t, u) == [api_tokens EXCEPT ![t] = Null]

Deleted(t, u) == [api_tokens EXCEPT ![t] = IF @ = u THEN Null ELSE @]

\* ApiTokensService::revoke: "Token not found" unless the token is u's.
revoke(w, u, t) ==
    /\ wpc[w] = "new"
    /\ life[t] # "unused"
    /\ api_tokens' = Deleted(t, u)
    /\ IF api_tokens[t] = u
       THEN /\ wpc' = [wpc EXCEPT ![w] = "ok"]
            /\ life' = [life EXCEPT ![t] = "revoked"]
       ELSE /\ wpc' = [wpc EXCEPT ![w] = "refused"]
            /\ UNCHANGED life
    /\ UNCHANGED <<directory, creating, apiVars, failures>>

\* The page shows an error, whether the commit took effect or not.
revoke_fail(w, u, t) ==
    /\ wpc[w] = "new"
    /\ life[t] # "unused"
    /\ Fail
    /\ api_tokens' \in {api_tokens, Deleted(t, u)}
    /\ wpc' = [wpc EXCEPT ![w] = "error"]
    /\ life' = IF api_tokens[t] = u THEN [life EXCEPT ![t] = "asked"] ELSE life
    /\ UNCHANGED <<directory, creating, apiVars>>

-----------------------------------------------------------------------------
(***************************************************************************)
(* Bearer authentication: authenticate_bearer, one query per step.         *)
(***************************************************************************)
Answer(a, how) == apc' = [apc EXCEPT ![a] = how]

\* A request arrives with a header that names token t, or with none that the
\* code can use (Null).
arrive(a, t) ==
    /\ apc[a] = "new"
    /\ IF t = Null
       THEN Answer(a, "unauthorized") /\ UNCHANGED bearer
       ELSE Answer(a, "token") /\ bearer' = [bearer EXCEPT ![a] = t]
    /\ late' = IF t # Null /\ life[t] = "revoked" THEN late \cup {a} ELSE late
    /\ seen' = [seen EXCEPT ![a] = directory]
    /\ UNCHANGED <<api_tokens, directory, webVars, caller, failures, life>>

\* Mutant: the id of the token instead of the user's.
find_user_id_by_plaintext_Id(a) ==
    /\ apc[a] = "token"
    /\ LET u == api_tokens[bearer[a]]
       IN  IF u = Null
           THEN Answer(a, "unauthorized") /\ UNCHANGED caller
           ELSE Answer(a, "user info") /\ caller' = [caller EXCEPT ![a] = bearer[a]]
    /\ UNCHANGED <<api_tokens, directory, webVars, bearer, late, seen, failures,
                   life>>

\* find_user_id_by_plaintext, and get_user_by_id: table users only grows, so
\* the user of a token is in it.
find_user_id_by_plaintext(a) ==
    /\ apc[a] = "token"
    /\ LET u == api_tokens[bearer[a]]
       IN  IF u = Null
           THEN Answer(a, "unauthorized") /\ UNCHANGED caller
           ELSE Answer(a, "user info") /\ caller' = [caller EXCEPT ![a] = u]
    /\ UNCHANGED <<api_tokens, directory, webVars, bearer, late, seen, failures,
                   life>>

\* Mutant: a user the AD server does not know is let through.
get_user_info_Anybody(a) ==
    /\ apc[a] = "user info"
    /\ Answer(a, "served")
    /\ UNCHANGED <<api_tokens, directory, webVars, bearer, caller, late, seen,
                   failures, life>>

\* UsersInfo::get_user_info asks the AD server; the handler runs for a user it
\* knows.
get_user_info(a) ==
    /\ apc[a] = "user info"
    /\ Answer(a, IF caller[a] \in directory THEN "served" ELSE "unauthorized")
    /\ UNCHANGED <<api_tokens, directory, webVars, bearer, caller, late, seen,
                   failures, life>>

\* A query of the database or of the AD server fails: "Bearer auth failed".
auth_fail(a) ==
    /\ apc[a] \in {"token", "user info"}
    /\ Fail
    /\ Answer(a, "unauthorized")
    /\ UNCHANGED <<api_tokens, directory, webVars, bearer, caller, late, seen, life>>

\* Users join and leave the AD.
DirectoryChange(u) ==
    /\ directory' \in {directory \cup {u}, directory \ {u}}
    /\ seen' = [a \in ApiRequests |->
                  IF apc[a] \in {"token", "user info"} THEN seen[a] \cup directory'
                                                       ELSE seen[a]]
    /\ UNCHANGED <<api_tokens, webVars, apc, bearer, caller, late, failures, life>>

-----------------------------------------------------------------------------
Init ==
    /\ api_tokens = [t \in Tokens |-> Null]
    /\ directory = Users
    /\ wpc = [w \in WebRequests |-> "new"]
    /\ creating = [w \in WebRequests |-> NoCreation]
    /\ apc = [a \in ApiRequests |-> "new"]
    /\ bearer = [a \in ApiRequests |-> Null]
    /\ caller = [a \in ApiRequests |-> Null]
    /\ failures = 0
    /\ life = [t \in Tokens |-> "unused"]
    /\ late = {}
    /\ seen = [a \in ApiRequests |-> {}]

Next ==
    \/ \E w \in WebRequests :
          \/ create_api_token(w) \/ create_fail(w)
          \/ \E u \in Users, t \in Tokens :
                create(w, u, t) \/ revoke(w, u, t) \/ revoke_fail(w, u, t)
    \/ \E a \in ApiRequests :
          \/ \E t \in Tokens \cup {Null} : arrive(a, t)
          \/ find_user_id_by_plaintext(a) \/ get_user_info(a) \/ auth_fail(a)
    \/ \E u \in Users : DirectoryChange(u)

Spec == Init /\ [][Next]_vars

-----------------------------------------------------------------------------
(***************************************************************************)
(* Properties.                                                             *)
(***************************************************************************)
TypeOK ==
    /\ api_tokens \in [Tokens -> Users \cup {Null}]
    /\ directory \subseteq Users
    /\ wpc \in [WebRequests -> {"new", "insert", "ok", "refused", "error"}]
    /\ creating \in [WebRequests -> [user : Users \cup {Null}, token : Tokens \cup {Null}]]
    /\ apc \in [ApiRequests -> {"new", "token", "user info", "served", "unauthorized"}]
    /\ bearer \in [ApiRequests -> Tokens \cup {Null}]
    /\ caller \in [ApiRequests -> Users \cup {Null}]
    /\ failures \in Nat
    /\ life \in [Tokens -> {"unused", "drawn", "shown", "asked", "revoked"}]
    /\ late \subseteq ApiRequests
    /\ seen \in [ApiRequests -> SUBSET Users]

\* A user who sends one create request at a time never has more tokens than
\* the limit, with failed creations (whose row may be there, unseen), other
\* users' requests and revocations in between.
TokenLimitForSerialCreators ==
    \A u \in SerialCreators :
        Cardinality(list_api_tokens_for_user(u)) <= api_token_limit

\* A request is served only for a user the AD server knew at some time since
\* the request arrived, and never with a token whose revocation had been
\* confirmed before it arrived.  A revocation or a removal from the AD in the
\* middle of the request, or a failed query, leaves it one of the two.
ServedOnlyIfEntitled ==
    \A a \in ApiRequests :
        apc[a] = "served" => a \notin late /\ caller[a] \in seen[a]

\* A plaintext the page has shown works until its owner asks to revoke it: the
\* row is there, whoever else tries to revoke it.
ShownTokenWorks ==
    \A t \in Tokens : life[t] = "shown" => api_tokens[t] # Null

\* A token has a row, or its owner has asked for an end of it.
Issued == {t \in Tokens : api_tokens[t] # Null \/ life[t] \in {"asked", "revoked"}}

Stage(s) ==
    CASE s = "token"        -> "sent"
      [] s = "user info"    -> "known"
      [] s = "unauthorized" -> "refused"
      [] OTHER              -> s

Call(a) == [stage |-> Stage(apc[a]), token |-> bearer[a], user |-> caller[a]]

Promised == INSTANCE Access
    WITH owner <- api_tokens, issued <- Issued, people <- directory,
         call <- [a \in ApiRequests |-> Call(a)], Requests <- ApiRequests

\* Whatever fails or is revoked between the queries of authenticate_bearer, a
\* request is served as the user its token belonged to after it arrived, and a
\* token never passes to another user or comes back: ApiTokens implements
\* Access.
AccessSpec == Promised!Spec

=============================================================================
