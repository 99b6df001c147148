----------------------------- MODULE TokenProofs -----------------------------
(***************************************************************************)
(* Theorems about ApiTokens, for every number of users, tokens and         *)
(* requests, every limit, and any number of queries that fail.             *)
(***************************************************************************)
EXTENDS ApiTokens, FiniteSetTheorems, TLAPS

-----------------------------------------------------------------------------
(***************************************************************************)
(* The inductive invariant.                                                *)
(***************************************************************************)
\* What the outside world knows of a token, and its row.
RowsInv ==
    \A t \in Tokens :
        /\ life[t] \in {"unused", "revoked"} => api_tokens[t] = Null
        /\ life[t] = "shown" => api_tokens[t] # Null

\* A create request in flight has drawn a token of its own, which has no row.
PendingInv ==
    /\ \A w \in WebRequests :
          wpc[w] = "insert" =>
             /\ creating[w].user \in Users
             /\ creating[w].token \in Tokens
             /\ life[creating[w].token] = "drawn"
             /\ api_tokens[creating[w].token] = Null
    /\ \A v, w \in WebRequests :
          wpc[v] = "insert" /\ wpc[w] = "insert" /\ creating[v].token = creating[w].token
             => v = w

\* A user who sends one create request at a time has room for it.
LimitInv ==
    \A u \in SerialCreators :
        /\ Cardinality(list_api_tokens_for_user(u)) <= api_token_limit
        /\ \A w \in WebRequests :
              CreatingFor(w, u) => Cardinality(list_api_tokens_for_user(u)) < api_token_limit
        /\ \A v, w \in WebRequests : CreatingFor(v, u) /\ CreatingFor(w, u) => v = w

\* How far an API request can have come.
ApiInv ==
    \A a \in ApiRequests :
        /\ apc[a] = "new" => a \notin late /\ bearer[a] = Null /\ caller[a] = Null
        /\ apc[a] = "token" => bearer[a] \in Tokens
        /\ apc[a] = "token" /\ a \in late => life[bearer[a]] = "revoked"
        /\ apc[a] \in {"token", "user info"} => directory \subseteq seen[a]
        /\ apc[a] = "user info" => a \notin late
        /\ apc[a] = "served" => a \notin late /\ caller[a] \in seen[a]

TokenInv == TypeOK /\ RowsInv /\ PendingInv /\ LimitInv /\ ApiInv

-----------------------------------------------------------------------------
(***************************************************************************)
(* The tokens of a user.                                                   *)
(***************************************************************************)
LEMMA UserIsNotNull == \A u \in Users : u # Null
BY ApiTokensAssumption

\* The tokens of a user are finitely many.
LEMMA ListFinite ==
    ASSUME NEW u
    PROVE  /\ IsFiniteSet(list_api_tokens_for_user(u))
           /\ Cardinality(list_api_tokens_for_user(u)) \in Nat
<1>1. list_api_tokens_for_user(u) \subseteq Tokens
  BY DEF list_api_tokens_for_user
<1>2. QED BY <1>1, FS_Subset, FS_CardinalityType, ApiTokensAssumption

\* A new row counts for its user only.
LEMMA Adds ==
    ASSUME TypeOK, NEW t \in Tokens, NEW u \in Users, api_tokens[t] = Null,
           api_tokens' = [api_tokens EXCEPT ![t] = u], NEW v \in Users
    PROVE  Cardinality(list_api_tokens_for_user(v)') =
              Cardinality(list_api_tokens_for_user(v)) + (IF v = u THEN 1 ELSE 0)
<1>1. \A s \in Tokens : api_tokens'[s] = IF s = t THEN u ELSE api_tokens[s]
  BY DEF TypeOK
<1>2. CASE v = u
  <2>1. t \notin list_api_tokens_for_user(v)
    BY UserIsNotNull DEF list_api_tokens_for_user
  <2>2. list_api_tokens_for_user(v)' = list_api_tokens_for_user(v) \cup {t}
    BY <1>1, <1>2 DEF list_api_tokens_for_user
  <2>3. QED BY <1>2, <2>1, <2>2, ListFinite, FS_AddElement
<1>3. CASE v # u
  <2>1. list_api_tokens_for_user(v)' = list_api_tokens_for_user(v)
    BY <1>1, <1>3, UserIsNotNull DEF list_api_tokens_for_user
  <2>2. QED BY <1>3, <2>1, ListFinite
<1>4. QED BY <1>2, <1>3

\* A row less.
LEMMA Removes ==
    ASSUME TypeOK, \A s \in Tokens : api_tokens'[s] \in {api_tokens[s], Null},
           NEW v \in Users
    PROVE  /\ Cardinality(list_api_tokens_for_user(v)') \in Nat
           /\ Cardinality(list_api_tokens_for_user(v)') <= Cardinality(list_api_tokens_for_user(v))
<1>1. list_api_tokens_for_user(v)' \subseteq list_api_tokens_for_user(v)
  BY UserIsNotNull DEF list_api_tokens_for_user
<1>2. QED BY <1>1, ListFinite, FS_Subset, FS_CardinalityType

\* A step of the tokens page does not touch the API's requests.
LEMMA ApiUntouched ==
    ASSUME ApiInv, UNCHANGED <<directory, apiVars>>,
           \A t \in Tokens : life[t] = "revoked" => life'[t] = "revoked"
    PROVE  ApiInv'
BY DEF ApiInv, apiVars

\* ... nor the other way round.
LEMMA PageUntouched ==
    ASSUME RowsInv, PendingInv, LimitInv, UNCHANGED <<api_tokens, webVars, life>>
    PROVE  RowsInv' /\ PendingInv' /\ LimitInv'
<1>1. UNCHANGED <<api_tokens, wpc, creating, life>>
  BY DEF webVars
<1>2. RowsInv' /\ PendingInv'
  BY <1>1 DEF RowsInv, PendingInv
<1>3. \A u \in SerialCreators :
        list_api_tokens_for_user(u)' = list_api_tokens_for_user(u)
  BY <1>1 DEF list_api_tokens_for_user
<1>4. \A w \in WebRequests, u \in SerialCreators : CreatingFor(w, u)' <=> CreatingFor(w, u)
  BY <1>1 DEF CreatingFor
<1>5. LimitInv'
  BY <1>3, <1>4 DEF LimitInv
<1>6. QED BY <1>2, <1>5

\* A failure is counted.
LEMMA FailCounts ==
    ASSUME TypeOK, Fail
    PROVE  failures' \in Nat
<1>1. failures \in Nat
  BY DEF TypeOK
<1>2. QED BY <1>1 DEF Fail

-----------------------------------------------------------------------------
(***************************************************************************)
(* The tokens page.                                                        *)
(***************************************************************************)
LEMMA CreateKeeps ==
    ASSUME TokenInv, NEW w \in WebRequests, NEW u \in Users, NEW t \in Tokens,
           create(w, u, t)
    PROVE  TokenInv'
<1>1. /\ wpc[w] = "new" /\ MayCreate(u) /\ life[t] = "unused"
      /\ UNCHANGED <<api_tokens, directory, apiVars, failures>>
  BY DEF create
<1>2. api_tokens[t] = Null
  BY <1>1 DEF TokenInv, RowsInv
<1>3. CASE Cardinality(list_api_tokens_for_user(u)) >= api_token_limit
  <2>1. UNCHANGED <<creating, life>> /\ wpc' = [wpc EXCEPT ![w] = "refused"]
    BY <1>3 DEF create
  <2>2. TypeOK'
    BY <1>1, <2>1 DEF TokenInv, TypeOK, apiVars
  <2>3. \A v \in WebRequests : wpc'[v] = "insert" => wpc[v] = "insert"
    BY <2>1 DEF TokenInv, TypeOK
  <2>4. RowsInv' /\ PendingInv'
    BY <1>1, <2>1, <2>3 DEF TokenInv, RowsInv, PendingInv
  <2>5. LimitInv'
    BY <1>1, <2>1, <2>3 DEF TokenInv, LimitInv, CreatingFor, list_api_tokens_for_user
  <2>6. ApiInv'
    BY <1>1, <2>1, ApiUntouched DEF TokenInv
  <2>7. QED BY <2>2, <2>4, <2>5, <2>6 DEF TokenInv
<1>4. CASE ~(Cardinality(list_api_tokens_for_user(u)) >= api_token_limit)
  <2>1. /\ wpc' = [wpc EXCEPT ![w] = "insert"]
        /\ creating' = [creating EXCEPT ![w] = [user |-> u, token |-> t]]
        /\ life' = [life EXCEPT ![t] = "drawn"]
    BY <1>4 DEF create
  <2>2. TypeOK'
    BY <1>1, <2>1 DEF TokenInv, TypeOK, apiVars
  <2>3. \A v \in WebRequests :
          /\ wpc'[v] = IF v = w THEN "insert" ELSE wpc[v]
          /\ creating'[v] = IF v = w THEN [user |-> u, token |-> t] ELSE creating[v]
    BY <2>1 DEF TokenInv, TypeOK
  <2>4. \A s \in Tokens : life'[s] = IF s = t THEN "drawn" ELSE life[s]
    BY <2>1 DEF TokenInv, TypeOK
  <2>5. RowsInv'
    BY <1>1, <2>4 DEF TokenInv, RowsInv
  <2>6. \A v \in WebRequests : wpc[v] = "insert" => creating[v].token # t
    BY <1>1 DEF TokenInv, PendingInv
  <2>7. PendingInv'
    BY <1>1, <1>2, <2>3, <2>4, <2>6 DEF TokenInv, PendingInv
  <2>8. LimitInv'
    <3>1. \A v \in WebRequests, x \in Users :
            CreatingFor(v, x)' <=> IF v = w THEN x = u ELSE CreatingFor(v, x)
      BY <2>3 DEF CreatingFor
    <3>2. \A x \in Users : list_api_tokens_for_user(x)' = list_api_tokens_for_user(x)
      BY <1>1 DEF list_api_tokens_for_user
    <3>3. u \in SerialCreators => \A v \in WebRequests : ~CreatingFor(v, u)
      BY <1>1 DEF MayCreate
    <3>4. Cardinality(list_api_tokens_for_user(u)) < api_token_limit
      BY <1>4, ListFinite, ApiTokensAssumption
    <3>5. SerialCreators \subseteq Users
      BY ApiTokensAssumption
    <3>6. QED BY <3>1, <3>2, <3>3, <3>4, <3>5 DEF TokenInv, LimitInv
  <2>9. ApiInv'
    BY <1>1, <2>4, ApiUntouched DEF TokenInv
  <2>10. QED BY <2>2, <2>5, <2>7, <2>8, <2>9 DEF TokenInv
<1>5. QED BY <1>3, <1>4

\* What is left to show of the end of a creation, with a row or without.
LEMMA CreationEnds ==
    ASSUME TokenInv, NEW w \in WebRequests, wpc[w] = "insert",
           NEW how \in {"ok", "error"}, wpc' = [wpc EXCEPT ![w] = how],
           creating' = [creating EXCEPT ![w] = NoCreation],
           api_tokens' \in {api_tokens, Inserted(w)}, failures' \in Nat,
           \/ life' = life
           \/ /\ api_tokens' = Inserted(w)
              /\ life' = [life EXCEPT ![creating[w].token] = "shown"],
           UNCHANGED <<directory, apiVars>>
    PROVE  TokenInv'
<1>1. PICK u \in Users, t \in Tokens : u = creating[w].user /\ t = creating[w].token
  BY DEF TokenInv, PendingInv
<1>2. life[t] = "drawn" /\ api_tokens[t] = Null /\ u # Null
  BY <1>1, UserIsNotNull DEF TokenInv, PendingInv
<1>3. NoCreation \in [user : Users \cup {Null}, token : Tokens \cup {Null}]
  BY DEF NoCreation
<1>4. TypeOK'
  BY <1>1, <1>3 DEF TokenInv, TypeOK, Inserted, apiVars
<1>5. \A v \in WebRequests :
        /\ wpc'[v] = "insert" <=> v # w /\ wpc[v] = "insert"
        /\ v # w => creating'[v] = creating[v]
  BY DEF TokenInv, TypeOK
<1>6. \A s \in Tokens :
        /\ s # t => life'[s] = life[s] /\ api_tokens'[s] = api_tokens[s]
        /\ life'[t] = "shown" => api_tokens'[t] = u
        /\ life'[t] \in {"drawn", "shown"}
  BY <1>1, <1>2 DEF TokenInv, TypeOK, Inserted
<1>7. RowsInv'
  BY <1>2, <1>6 DEF TokenInv, RowsInv
<1>8. \A v \in WebRequests : wpc'[v] = "insert" => creating[v].token # t
  BY <1>1, <1>5 DEF TokenInv, PendingInv
<1>9. PendingInv'
  BY <1>5, <1>6, <1>8 DEF TokenInv, PendingInv
<1>10. LimitInv'
  <2>1. \A v \in WebRequests, x \in Users : CreatingFor(v, x)' <=> v # w /\ CreatingFor(v, x)
    BY <1>5 DEF CreatingFor
  <2>2. ASSUME NEW x \in Users
        PROVE  \/ list_api_tokens_for_user(x)' = list_api_tokens_for_user(x)
               \/ x = u /\ Cardinality(list_api_tokens_for_user(x)') =
                              Cardinality(list_api_tokens_for_user(x)) + 1
    <3>1. CASE api_tokens' = api_tokens
      BY <3>1 DEF list_api_tokens_for_user
    <3>2. CASE api_tokens' = [api_tokens EXCEPT ![t] = u]
      <4>1. CASE x = u
        BY <1>2, <3>2, <4>1, Adds DEF TokenInv
      <4>2. CASE x # u
        BY <1>2, <3>2, <4>2, UserIsNotNull DEF TokenInv, TypeOK, list_api_tokens_for_user
      <4>3. QED BY <4>1, <4>2
    <3>3. QED BY <1>1, <3>1, <3>2 DEF Inserted
  <2>3. SUFFICES ASSUME NEW x \in SerialCreators
                 PROVE  /\ Cardinality(list_api_tokens_for_user(x)') <= api_token_limit
                        /\ \A v \in WebRequests :
                              CreatingFor(v, x)' =>
                                 Cardinality(list_api_tokens_for_user(x)') < api_token_limit
                        /\ \A v, y \in WebRequests :
                              CreatingFor(v, x)' /\ CreatingFor(y, x)' => v = y
    BY DEF LimitInv
  <2>4. x \in Users /\ Cardinality(list_api_tokens_for_user(x)) \in Nat
        /\ api_token_limit \in Nat
    BY ListFinite, ApiTokensAssumption
  <2>5. /\ Cardinality(list_api_tokens_for_user(x)) <= api_token_limit
        /\ \A v \in WebRequests :
              CreatingFor(v, x) => Cardinality(list_api_tokens_for_user(x)) < api_token_limit
        /\ \A v, y \in WebRequests : CreatingFor(v, x) /\ CreatingFor(y, x) => v = y
    BY DEF TokenInv, LimitInv
  <2>6. CASE list_api_tokens_for_user(x)' = list_api_tokens_for_user(x)
    BY <2>1, <2>4, <2>5, <2>6
  <2>7. CASE x = u /\ Cardinality(list_api_tokens_for_user(x)') =
                        Cardinality(list_api_tokens_for_user(x)) + 1
    <3>1. CreatingFor(w, x)
      BY <1>1, <2>7 DEF CreatingFor
    <3>2. \A v \in WebRequests : ~CreatingFor(v, x)'
      BY <2>1, <2>4, <2>5, <3>1
    <3>3. QED BY <2>4, <2>5, <2>7, <3>1, <3>2
  <2>8. QED BY <2>2, <2>4, <2>6, <2>7
<1>11. ApiInv'
  BY <1>2, <1>6, ApiUntouched DEF TokenInv
<1>12. QED BY <1>4, <1>7, <1>9, <1>10, <1>11 DEF TokenInv

\* The INSERT of a create request is committed, or fails.
LEMMA CreateEndsKeeps ==
    ASSUME TokenInv, NEW w \in WebRequests, create_api_token(w) \/ create_fail(w)
    PROVE  TokenInv'
<1>1. CASE create_api_token(w)
  BY <1>1, CreationEnds DEF create_api_token, TokenInv, TypeOK
<1>2. CASE create_fail(w)
  BY <1>2, CreationEnds, FailCounts DEF create_fail, TokenInv
<1>3. QED BY <1>1, <1>2

\* What is left to show of a revocation.
LEMMA Revokes ==
    ASSUME TokenInv, NEW w \in WebRequests, NEW u \in Users, NEW t \in Tokens,
           wpc[w] = "new", life[t] # "unused",
           NEW how \in {"ok", "refused", "error"}, wpc' = [wpc EXCEPT ![w] = how],
           api_tokens' \in {api_tokens, Deleted(t, u)}, failures' \in Nat,
           \/ life' = life /\ (api_tokens[t] = u => api_tokens' = api_tokens)
           \/ api_tokens[t] = u /\ life' = [life EXCEPT ![t] = "asked"]
           \/ /\ api_tokens[t] = u /\ api_tokens' = Deleted(t, u)
              /\ life' = [life EXCEPT ![t] = "revoked"],
           UNCHANGED <<directory, creating, apiVars>>
    PROVE  TokenInv'
<1>1. TypeOK'
  BY DEF TokenInv, TypeOK, Deleted, apiVars
<1>2. \A v \in WebRequests : wpc'[v] = "insert" => wpc[v] = "insert"
  BY DEF TokenInv, TypeOK
<1>3. \A s \in Tokens :
        /\ \/ api_tokens'[s] = api_tokens[s]
           \/ s = t /\ api_tokens[t] = u /\ api_tokens'[t] = Null
        /\ s # t => life'[s] = life[s]
  BY DEF TokenInv, TypeOK, Deleted
<1>4. u # Null
  BY UserIsNotNull
<1>5. \/ life'[t] = life[t] /\ api_tokens'[t] = api_tokens[t]
      \/ api_tokens[t] = u /\ life'[t] = "asked"
      \/ api_tokens[t] = u /\ life'[t] = "revoked" /\ api_tokens'[t] = Null
  BY <1>3 DEF TokenInv, TypeOK, Deleted
<1>6. RowsInv'
  BY <1>3, <1>4, <1>5 DEF TokenInv, RowsInv
<1>7. PendingInv'
  <2>1. ASSUME NEW v \in WebRequests, wpc'[v] = "insert"
        PROVE  /\ creating[v].user \in Users
               /\ creating[v].token \in Tokens
               /\ life'[creating[v].token] = "drawn"
               /\ api_tokens'[creating[v].token] = Null
    <3>1. wpc[v] = "insert"
      BY <1>2, <2>1
    <3>2. creating[v].user \in Users /\ creating[v].token \in Tokens
          /\ life[creating[v].token] = "drawn" /\ api_tokens[creating[v].token] = Null
      BY <3>1 DEF TokenInv, PendingInv
    <3>3. CASE creating[v].token = t
      BY <1>4, <1>5, <3>2, <3>3
    <3>4. CASE creating[v].token # t
      BY <1>3, <3>2, <3>4
    <3>5. QED BY <3>2, <3>3, <3>4
  <2>2. QED BY <1>2, <2>1 DEF TokenInv, PendingInv
<1>8. LimitInv'
  <2>1. \A v \in WebRequests, x \in Users : CreatingFor(v, x)' => CreatingFor(v, x)
    BY <1>2 DEF CreatingFor
  <2>2. \A s \in Tokens : api_tokens'[s] \in {api_tokens[s], Null}
    BY <1>3
  <2>3. ASSUME NEW x \in SerialCreators
        PROVE  /\ Cardinality(list_api_tokens_for_user(x)') <= api_token_limit
               /\ \A v \in WebRequests :
                     CreatingFor(v, x)' =>
                        Cardinality(list_api_tokens_for_user(x)') < api_token_limit
               /\ \A v, y \in WebRequests :
                     CreatingFor(v, x)' /\ CreatingFor(y, x)' => v = y
    <3>1. x \in Users /\ api_token_limit \in Nat
          /\ Cardinality(list_api_tokens_for_user(x)) \in Nat
      BY ListFinite, ApiTokensAssumption
    <3>2. /\ Cardinality(list_api_tokens_for_user(x)') \in Nat
          /\ Cardinality(list_api_tokens_for_user(x)') <=
                Cardinality(list_api_tokens_for_user(x))
      BY <2>2, <3>1, Removes DEF TokenInv
    <3>3. /\ Cardinality(list_api_tokens_for_user(x)) <= api_token_limit
          /\ \A v \in WebRequests :
                CreatingFor(v, x) => Cardinality(list_api_tokens_for_user(x)) < api_token_limit
          /\ \A v, y \in WebRequests : CreatingFor(v, x) /\ CreatingFor(y, x) => v = y
      BY DEF TokenInv, LimitInv
    <3>4. QED BY <2>1, <3>1, <3>2, <3>3
  <2>4. QED BY <2>3 DEF LimitInv
<1>9. ApiInv'
  <2>1. life[t] = "revoked" => api_tokens[t] # u
    BY <1>4 DEF TokenInv, RowsInv
  <2>2. \A s \in Tokens : life[s] = "revoked" => life'[s] = "revoked"
    BY <1>3, <1>5, <2>1
  <2>3. QED BY <2>2, ApiUntouched DEF TokenInv
<1>10. QED BY <1>1, <1>6, <1>7, <1>8, <1>9 DEF TokenInv

\* The DELETE of a revocation.
LEMMA RevokeKeeps ==
    ASSUME TokenInv, NEW w \in WebRequests, NEW u \in Users, NEW t \in Tokens,
           revoke(w, u, t) \/ revoke_fail(w, u, t)
    PROVE  TokenInv'
<1>1. CASE revoke(w, u, t)
  <2>1. failures' \in Nat
    BY <1>1 DEF revoke, TokenInv, TypeOK
  <2>2. CASE api_tokens[t] = u
    BY <1>1, <2>1, <2>2, Revokes DEF revoke
  <2>3. CASE api_tokens[t] # u
    BY <1>1, <2>1, <2>3, Revokes DEF revoke
  <2>4. QED BY <2>2, <2>3
<1>2. CASE revoke_fail(w, u, t)
  <2>1. failures' \in Nat
    BY <1>2, FailCounts DEF revoke_fail, TokenInv
  <2>2. CASE api_tokens[t] = u
    BY <1>2, <2>1, <2>2, Revokes DEF revoke_fail
  <2>3. CASE api_tokens[t] # u
    BY <1>2, <2>1, <2>3, Revokes DEF revoke_fail
  <2>4. QED BY <2>2, <2>3
<1>3. QED BY <1>1, <1>2

-----------------------------------------------------------------------------
(***************************************************************************)
(* Bearer authentication.                                                  *)
(***************************************************************************)
LEMMA ArriveKeeps ==
    ASSUME TokenInv, NEW a \in ApiRequests, NEW t \in Tokens \cup {Null}, arrive(a, t)
    PROVE  TokenInv'
<1>1. TypeOK'
  BY DEF arrive, Answer, TokenInv, TypeOK, webVars
<1>2. RowsInv' /\ PendingInv' /\ LimitInv'
  BY PageUntouched DEF TokenInv, arrive
<1>3. ASSUME NEW b \in ApiRequests, b # a
      PROVE  /\ apc'[b] = apc[b] /\ bearer'[b] = bearer[b] /\ seen'[b] = seen[b]
             /\ (b \in late' <=> b \in late)
  BY <1>3 DEF arrive, Answer, TokenInv, TypeOK
<1>4. /\ t = Null => apc'[a] = "unauthorized"
      /\ t # Null => apc'[a] = "token" /\ bearer'[a] = t
      /\ seen'[a] = directory /\ a \notin late
      /\ a \in late' => life[t] = "revoked"
  BY DEF arrive, Answer, TokenInv, TypeOK, ApiInv
<1>5. UNCHANGED <<life, directory, caller>>
  BY DEF arrive
<1>6. ApiInv'
  BY <1>3, <1>4, <1>5 DEF TokenInv, ApiInv
<1>7. QED BY <1>1, <1>2, <1>6 DEF TokenInv

\* The steps of authenticate_bearer.
LEMMA BearerKeeps ==
    ASSUME TokenInv, NEW a \in ApiRequests,
           find_user_id_by_plaintext(a) \/ get_user_info(a) \/ auth_fail(a)
    PROVE  TokenInv'
<1>1. /\ UNCHANGED <<api_tokens, directory, webVars, life, bearer, late, seen>>
      /\ failures' \in Nat
  BY FailCounts DEF find_user_id_by_plaintext, get_user_info, auth_fail, TokenInv, TypeOK
<1>2. RowsInv' /\ PendingInv' /\ LimitInv'
  BY <1>1, PageUntouched DEF TokenInv
<1>3. \A b \in ApiRequests : b # a => apc'[b] = apc[b] /\ caller'[b] = caller[b]
  BY DEF find_user_id_by_plaintext, get_user_info, auth_fail, Answer, TokenInv, TypeOK
<1>4. CASE apc' = [apc EXCEPT ![a] = "unauthorized"] /\ UNCHANGED caller
  <2>1. TypeOK'
    BY <1>1, <1>4 DEF TokenInv, TypeOK, webVars
  <2>2. ApiInv'
    BY <1>1, <1>4 DEF TokenInv, TypeOK, ApiInv
  <2>3. QED BY <1>2, <2>1, <2>2 DEF TokenInv
<1>5. CASE /\ apc[a] = "token" /\ api_tokens[bearer[a]] # Null
           /\ apc' = [apc EXCEPT ![a] = "user info"]
           /\ caller' = [caller EXCEPT ![a] = api_tokens[bearer[a]]]
  <2>1. bearer[a] \in Tokens /\ api_tokens[bearer[a]] \in Users
    BY <1>5 DEF TokenInv, TypeOK, ApiInv
  <2>2. TypeOK'
    BY <1>1, <1>5, <2>1 DEF TokenInv, TypeOK, webVars
  <2>3. a \notin late
    BY <1>5, <2>1 DEF TokenInv, RowsInv, ApiInv
  <2>4. apc'[a] = "user info"
    BY <1>5 DEF TokenInv, TypeOK
  <2>5. ApiInv'
    BY <1>1, <1>3, <1>5, <2>3, <2>4 DEF TokenInv, ApiInv
  <2>6. QED BY <1>2, <2>2, <2>5 DEF TokenInv
<1>6. CASE /\ apc[a] = "user info" /\ caller[a] \in directory
           /\ apc' = [apc EXCEPT ![a] = "served"] /\ UNCHANGED caller
  <2>1. TypeOK'
    BY <1>1, <1>6 DEF TokenInv, TypeOK, webVars
  <2>2. a \notin late /\ caller[a] \in seen[a]
    BY <1>6 DEF TokenInv, ApiInv
  <2>3. apc'[a] = "served"
    BY <1>6 DEF TokenInv, TypeOK
  <2>4. ApiInv'
    BY <1>1, <1>3, <1>6, <2>2, <2>3 DEF TokenInv, ApiInv
  <2>5. QED BY <1>2, <2>1, <2>4 DEF TokenInv
<1>7. CASE find_user_id_by_plaintext(a)
  BY <1>4, <1>5, <1>7 DEF find_user_id_by_plaintext, Answer
<1>8. CASE get_user_info(a)
  BY <1>4, <1>6, <1>8 DEF get_user_info, Answer
<1>9. CASE auth_fail(a)
  BY <1>4, <1>9 DEF auth_fail, Answer
<1>10. QED BY <1>7, <1>8, <1>9

\* People enter and leave the AD.
LEMMA DirectoryKeeps ==
    ASSUME TokenInv, NEW u \in Users, DirectoryChange(u)
    PROVE  TokenInv'
<1>1. /\ UNCHANGED <<api_tokens, webVars, apc, bearer, caller, late, failures, life>>
      /\ directory' \subseteq Users
  BY DEF DirectoryChange, TokenInv, TypeOK
<1>2. RowsInv' /\ PendingInv' /\ LimitInv'
  BY <1>1, PageUntouched DEF TokenInv
<1>3. \A a \in ApiRequests :
        /\ seen'[a] \subseteq Users /\ seen[a] \subseteq seen'[a]
        /\ apc[a] \in {"token", "user info"} => directory' \subseteq seen'[a]
  BY <1>1 DEF DirectoryChange, TokenInv, TypeOK
<1>4. seen' \in [ApiRequests -> SUBSET Users]
  BY <1>1 DEF DirectoryChange, TokenInv, TypeOK
<1>5. TypeOK'
  BY <1>1, <1>4 DEF TokenInv, TypeOK, webVars
<1>6. ApiInv'
  BY <1>1, <1>3 DEF TokenInv, ApiInv
<1>7. QED BY <1>2, <1>5, <1>6 DEF TokenInv

-----------------------------------------------------------------------------
(***************************************************************************)
(* The theorems.                                                           *)
(***************************************************************************)
LEMMA InitInv ==
    ASSUME Init
    PROVE  TokenInv
<1>1. TypeOK
  BY DEF Init, TypeOK, NoCreation
<1>2. RowsInv /\ PendingInv /\ ApiInv
  BY DEF Init, RowsInv, PendingInv, ApiInv
<1>3. LimitInv
  <2>1. \A u \in Users : list_api_tokens_for_user(u) = {}
    BY UserIsNotNull DEF Init, list_api_tokens_for_user
  <2>2. \A w \in WebRequests, u \in Users : ~CreatingFor(w, u)
    BY DEF Init, CreatingFor
  <2>3. Cardinality({}) = 0 /\ api_token_limit \in Nat /\ SerialCreators \subseteq Users
    BY FS_EmptySet, ApiTokensAssumption
  <2>4. QED BY <2>1, <2>2, <2>3 DEF LimitInv
<1>4. QED BY <1>1, <1>2, <1>3 DEF TokenInv

\* No step breaks the invariant.
LEMMA NextKeeps ==
    ASSUME TokenInv, [Next]_vars
    PROVE  TokenInv'
<1>1. CASE UNCHANGED vars
  <2>1. TypeOK'
    BY <1>1 DEF vars, TokenInv, TypeOK
  <2>2. RowsInv' /\ PendingInv' /\ LimitInv'
    BY <1>1, PageUntouched DEF vars, webVars, TokenInv
  <2>3. ApiInv'
    BY <1>1, ApiUntouched DEF vars, apiVars, TokenInv
  <2>4. QED BY <2>1, <2>2, <2>3 DEF TokenInv
<1>2. ASSUME NEW w \in WebRequests, create_api_token(w) \/ create_fail(w) PROVE TokenInv'
  BY <1>2, CreateEndsKeeps
<1>3. ASSUME NEW w \in WebRequests, NEW u \in Users, NEW t \in Tokens,
             create(w, u, t) \/ revoke(w, u, t) \/ revoke_fail(w, u, t)
      PROVE  TokenInv'
  BY <1>3, CreateKeeps, RevokeKeeps
<1>4. QED BY <1>1, <1>2, <1>3, ArriveKeeps, BearerKeeps, DirectoryKeeps DEF Next

\* What a request may count on at each await of ApiTokensService and of
\* authenticate_bearer: TokenInv is inductive.
THEOREM TokenInvariant == Spec => []TokenInv
<1>1. QED BY InitInv, NextKeeps, PTL DEF Spec

\* The state of tokens and requests keeps its types: ApiTokens!TypeOK.
THEOREM TypeCorrect == Spec => []TypeOK
<1>1. TokenInv => TypeOK
  BY DEF TokenInv
<1>2. QED BY <1>1, TokenInvariant, PTL

\* The count in ApiTokensService::create keeps the limit for whoever sends one
\* create request at a time: ApiTokens!TokenLimitForSerialCreators.
THEOREM SerialLimit == Spec => []TokenLimitForSerialCreators
<1>1. TokenInv => TokenLimitForSerialCreators
  BY DEF TokenInv, LimitInv, TokenLimitForSerialCreators
<1>2. QED BY <1>1, TokenInvariant, PTL

\* authenticate_bearer serves no request that came after the revocation, and
\* nobody the AD has not known since: ApiTokens!ServedOnlyIfEntitled.
THEOREM ServedAreEntitled == Spec => []ServedOnlyIfEntitled
<1>1. TokenInv => ServedOnlyIfEntitled
  BY DEF TokenInv, ApiInv, ServedOnlyIfEntitled
<1>2. QED BY <1>1, TokenInvariant, PTL

\* A plaintext the tokens page has shown works until its owner revokes it:
\* ApiTokens!ShownTokenWorks.
THEOREM ShownWorks == Spec => []ShownTokenWorks
<1>1. TokenInv => ShownTokenWorks
  BY DEF TokenInv, RowsInv, ShownTokenWorks
<1>2. QED BY <1>1, TokenInvariant, PTL

-----------------------------------------------------------------------------
(***************************************************************************)
(* The limit of a user who sends several create requests at a time.        *)
(***************************************************************************)
\* The create requests of u that have counted u's tokens and not ended yet.
Creations(u) == {w \in WebRequests : CreatingFor(w, u)}

CreationsAtMost(K, u) == IsFiniteSet(Creations(u)) /\ Cardinality(Creations(u)) <= K

\* The inductive invariant: the tokens u has and those on their way.
CreationInv(K, u) ==
    Cardinality(list_api_tokens_for_user(u)) + Cardinality(Creations(u))
       <= api_token_limit + K - 1

\* What a creation that ends does to the number of tokens and of creations.
LEMMA OneMoreOrLess ==
    ASSUME NEW S, IsFiniteSet(S), NEW x
    PROVE  /\ Cardinality(S \cup {x}) \in {Cardinality(S), Cardinality(S) + 1}
           /\ x \in S => Cardinality(S \ {x}) = Cardinality(S) - 1
<1>1. Cardinality(S) \in Nat
  BY FS_CardinalityType
<1>2. CASE x \in S
  <2>1. S \cup {x} = S
    BY <1>2
  <2>2. Cardinality(S \ {x}) = Cardinality(S) - 1
    BY <1>2, FS_RemoveElement
  <2>3. QED BY <2>1, <2>2
<1>3. CASE x \notin S
  BY <1>3, FS_AddElement
<1>4. QED BY <1>2, <1>3

\* A step that starts no creation of u, and gives u a token only at the end of
\* one.
LEMMA CreationsKept ==
    ASSUME NEW K \in Nat \ {0}, NEW u \in Users, CreationsAtMost(K, u), CreationInv(K, u),
           \/ /\ list_api_tokens_for_user(u)' \subseteq list_api_tokens_for_user(u)
              /\ Creations(u)' \subseteq Creations(u)
           \/ \E w \in Creations(u), t \in Tokens :
                 /\ list_api_tokens_for_user(u)' = list_api_tokens_for_user(u) \cup {t}
                 /\ Creations(u)' = Creations(u) \ {w}
    PROVE  CreationInv(K, u)'
<1> DEFINE L == list_api_tokens_for_user(u)
           C == Creations(u)
<1>1. /\ IsFiniteSet(L) /\ Cardinality(L) \in Nat
      /\ IsFiniteSet(C) /\ Cardinality(C) \in Nat
      /\ Cardinality(L) + Cardinality(C) <= api_token_limit + K - 1
      /\ api_token_limit \in Nat
  BY ListFinite, FS_CardinalityType, ApiTokensAssumption DEF CreationsAtMost, CreationInv
<1>2. CASE L' \subseteq L /\ C' \subseteq C
  <2>1. /\ IsFiniteSet(L') /\ Cardinality(L') <= Cardinality(L)
        /\ IsFiniteSet(C') /\ Cardinality(C') <= Cardinality(C)
    BY <1>1, <1>2, FS_Subset
  <2>2. Cardinality(L') \in Nat /\ Cardinality(C') \in Nat
    BY <2>1, FS_CardinalityType
  <2>3. QED BY <1>1, <2>1, <2>2 DEF CreationInv
<1>3. CASE \E w \in C, t \in Tokens : L' = L \cup {t} /\ C' = C \ {w}
  <2>1. PICK w \in C, t \in Tokens : L' = L \cup {t} /\ C' = C \ {w}
    BY <1>3
  <2>2. Cardinality(C') = Cardinality(C) - 1
    <3>1. Cardinality(C \ {w}) = Cardinality(C) - 1
      BY <1>1, <2>1, OneMoreOrLess
    <3>2. QED BY <2>1, <3>1
  <2>3. Cardinality(L') \in {Cardinality(L), Cardinality(L) + 1}
    <3>1. Cardinality(L \cup {t}) \in {Cardinality(L), Cardinality(L) + 1}
      BY <1>1, OneMoreOrLess
    <3>2. QED BY <2>1, <3>1
  <2>4. QED BY <1>1, <2>2, <2>3 DEF CreationInv
<1>4. QED BY <1>2, <1>3

\* A creation that starts has found room for one token.
LEMMA CreationStarts ==
    ASSUME TokenInv, NEW K \in Nat \ {0}, NEW u \in Users, CreationsAtMost(K, u),
           CreationsAtMost(K, u)', CreationInv(K, u),
           NEW w \in WebRequests, NEW v \in Users, NEW t \in Tokens, create(w, v, t)
    PROVE  CreationInv(K, u)'
<1>1. list_api_tokens_for_user(u)' = list_api_tokens_for_user(u)
  BY DEF create, list_api_tokens_for_user
<1>2. CASE Cardinality(list_api_tokens_for_user(v)) >= api_token_limit \/ v # u
  <2>1. \A x \in WebRequests : CreatingFor(x, u)' => CreatingFor(x, u)
    <3>1. \A x \in WebRequests \ {w} : wpc'[x] = wpc[x] /\ creating'[x] = creating[x]
      BY DEF create, TokenInv, TypeOK
    <3>2. wpc'[w] = "insert" => v # u /\ creating'[w] = [user |-> v, token |-> t]
      BY <1>2 DEF create, TokenInv, TypeOK
    <3>3. QED BY <3>1, <3>2 DEF CreatingFor
  <2>2. Creations(u)' \subseteq Creations(u)
    BY <2>1 DEF Creations
  <2>3. QED BY <1>1, <2>2, CreationsKept
<1>3. CASE v = u /\ ~(Cardinality(list_api_tokens_for_user(u)) >= api_token_limit)
  <2>1. /\ Cardinality(list_api_tokens_for_user(u)) \in Nat /\ api_token_limit \in Nat
        /\ Cardinality(list_api_tokens_for_user(u)) <= api_token_limit - 1
    BY <1>3, ListFinite, ApiTokensAssumption
  <2>2. Cardinality(Creations(u)') <= K /\ Cardinality(Creations(u)') \in Nat
    BY FS_CardinalityType DEF CreationsAtMost
  <2>3. Cardinality(list_api_tokens_for_user(u)') + Cardinality(Creations(u)')
           <= api_token_limit + K - 1
    BY <1>1, <2>1, <2>2
  <2>4. QED BY <2>3 DEF CreationInv
<1>4. QED BY <1>2, <1>3

\* A creation that ends turns into a token or not.
LEMMA CreationsEnd ==
    ASSUME TokenInv, NEW K \in Nat \ {0}, NEW u \in Users, CreationsAtMost(K, u),
           CreationInv(K, u),
           NEW w \in WebRequests, create_api_token(w) \/ create_fail(w)
    PROVE  CreationInv(K, u)'
<1>1. PICK v \in Users, t \in Tokens : v = creating[w].user /\ t = creating[w].token
  BY DEF create_api_token, create_fail, TokenInv, PendingInv
<1>2. /\ wpc[w] = "insert" /\ api_tokens[t] = Null
      /\ api_tokens' \in {api_tokens, [api_tokens EXCEPT ![t] = v]}
  BY <1>1 DEF create_api_token, create_fail, Inserted, TokenInv, PendingInv
<1>3. \A x \in WebRequests : CreatingFor(x, u)' <=> x # w /\ CreatingFor(x, u)
  BY DEF create_api_token, create_fail, CreatingFor, TokenInv, TypeOK
<1>4. Creations(u)' = Creations(u) \ {w}
  BY <1>3 DEF Creations
<1>5. CASE api_tokens' = api_tokens \/ v # u
  <2>1. list_api_tokens_for_user(u)' \subseteq list_api_tokens_for_user(u)
    BY <1>2, <1>5, UserIsNotNull DEF list_api_tokens_for_user, TokenInv, TypeOK
  <2>2. QED BY <1>4, <2>1, CreationsKept
<1>6. CASE api_tokens' = [api_tokens EXCEPT ![t] = u] /\ v = u
  <2>1. list_api_tokens_for_user(u)' = list_api_tokens_for_user(u) \cup {t}
    BY <1>6 DEF list_api_tokens_for_user, TokenInv, TypeOK
  <2>2. w \in Creations(u)
    BY <1>1, <1>2, <1>6 DEF Creations, CreatingFor
  <2>3. QED BY <1>4, <2>1, <2>2, CreationsKept
<1>7. QED BY <1>2, <1>5, <1>6

\* ApiTokensService::create counts before it inserts, so a user who sends create
\* requests at the same time can get past the limit; with at most K of them in
\* flight at a time never by more than K - 1 tokens.
THEOREM ConcurrentCreations ==
    ASSUME NEW K \in Nat \ {0}, NEW u \in Users
    PROVE  Spec /\ []CreationsAtMost(K, u)
              => [](Cardinality(list_api_tokens_for_user(u)) <= api_token_limit + K - 1)
<1>1. Init => CreationInv(K, u)
  <2> SUFFICES ASSUME Init PROVE CreationInv(K, u)
    OBVIOUS
  <2>1. list_api_tokens_for_user(u) = {} /\ Creations(u) = {}
    BY UserIsNotNull DEF Init, list_api_tokens_for_user, Creations, CreatingFor
  <2>2. Cardinality({}) = 0 /\ api_token_limit \in Nat
    BY FS_EmptySet, ApiTokensAssumption
  <2>3. QED BY <2>1, <2>2 DEF CreationInv
<1>2. TokenInv /\ [Next]_vars /\ CreationInv(K, u)
         /\ CreationsAtMost(K, u) /\ CreationsAtMost(K, u)' => CreationInv(K, u)'
  <2> SUFFICES ASSUME TokenInv, [Next]_vars, CreationInv(K, u),
                      CreationsAtMost(K, u), CreationsAtMost(K, u)'
               PROVE  CreationInv(K, u)'
    OBVIOUS
  <2>1. ASSUME NEW w \in WebRequests, NEW v \in Users, NEW t \in Tokens,
               revoke(w, v, t) \/ revoke_fail(w, v, t)
        PROVE  CreationInv(K, u)'
    <3>1. list_api_tokens_for_user(u)' \subseteq list_api_tokens_for_user(u)
      BY <2>1, UserIsNotNull
      DEF revoke, revoke_fail, Deleted, list_api_tokens_for_user, TokenInv, TypeOK
    <3>2. \A x \in WebRequests : CreatingFor(x, u)' => CreatingFor(x, u)
      BY <2>1 DEF revoke, revoke_fail, CreatingFor, TokenInv, TypeOK
    <3>3. QED BY <3>1, <3>2, CreationsKept DEF Creations
  <2>2. CASE UNCHANGED <<api_tokens, webVars>>
    <3>1. /\ list_api_tokens_for_user(u)' = list_api_tokens_for_user(u)
          /\ Creations(u)' = Creations(u)
      BY <2>2 DEF webVars, list_api_tokens_for_user, Creations, CreatingFor
    <3>2. QED BY <3>1, CreationsKept
  <2>3. CASE UNCHANGED vars
    BY <2>2, <2>3 DEF vars, webVars
  <2>4. ASSUME NEW a \in ApiRequests,
               \/ \E t \in Tokens \cup {Null} : arrive(a, t)
               \/ find_user_id_by_plaintext(a) \/ get_user_info(a) \/ auth_fail(a)
        PROVE  CreationInv(K, u)'
    BY <2>2, <2>4 DEF arrive, find_user_id_by_plaintext, get_user_info, auth_fail
  <2>5. ASSUME NEW v \in Users, DirectoryChange(v) PROVE CreationInv(K, u)'
    BY <2>2, <2>5 DEF DirectoryChange
  <2>6. QED BY <2>1, <2>3, <2>4, <2>5, CreationStarts, CreationsEnd DEF Next
<1>3. TokenInv /\ CreationInv(K, u) /\ CreationsAtMost(K, u)
         => Cardinality(list_api_tokens_for_user(u)) <= api_token_limit + K - 1
  <2> SUFFICES ASSUME CreationInv(K, u), CreationsAtMost(K, u)
               PROVE  Cardinality(list_api_tokens_for_user(u)) <= api_token_limit + K - 1
    OBVIOUS
  <2>1. /\ Cardinality(list_api_tokens_for_user(u)) \in Nat
        /\ Cardinality(Creations(u)) \in Nat /\ api_token_limit \in Nat
    BY ListFinite, FS_CardinalityType, ApiTokensAssumption DEF CreationsAtMost
  <2>2. QED BY <2>1 DEF CreationInv
<1>4. QED BY <1>1, <1>2, <1>3, TokenInvariant, PTL DEF Spec

-----------------------------------------------------------------------------
(***************************************************************************)
(* ApiTokens implements Access.                                            *)
(***************************************************************************)
\* The abstract calls of a state, and how far each has come.
Calls == [a \in ApiRequests |-> Call(a)]

LEMMA Stages ==
    /\ Stage("new") = "new" /\ Stage("token") = "sent" /\ Stage("user info") = "known"
    /\ Stage("served") = "served" /\ Stage("unauthorized") = "refused"
BY DEF Stage

\* A step of the tokens page, or of the directory, moves no call.
LEMMA CallsStay ==
    ASSUME UNCHANGED <<apc, bearer, caller>>
    PROVE  Calls' = Calls
BY DEF Calls, Call

\* A step of authenticate_bearer moves one.
LEMMA CallMoves ==
    ASSUME NEW a \in ApiRequests,
           \A b \in ApiRequests \ {a} :
              apc'[b] = apc[b] /\ bearer'[b] = bearer[b] /\ caller'[b] = caller[b]
    PROVE  Calls' = [Calls EXCEPT ![a] = [stage |-> Stage(apc'[a]), token |-> bearer'[a],
                                          user |-> caller'[a]]]
<1>1. \A b \in ApiRequests :
        Call(b)' = IF b = a THEN [stage |-> Stage(apc'[a]), token |-> bearer'[a],
                                  user |-> caller'[a]]
                            ELSE Call(b)
  BY DEF Call, Stage
<1>2. QED BY <1>1 DEF Calls

\* The abstract variables while only requests move.
LEMMA IssuedStay ==
    ASSUME UNCHANGED <<api_tokens, life>>
    PROVE  Issued' = Issued
BY DEF Issued

\* The end of a create request issues its token or nothing.
LEMMA CreateIsIssue ==
    ASSUME TokenInv, NEW w \in WebRequests, create_api_token(w) \/ create_fail(w)
    PROVE  Promised!Next \/ UNCHANGED Promised!access
<1>1. PICK u \in Users, t \in Tokens : u = creating[w].user /\ t = creating[w].token
  BY DEF create_api_token, create_fail, TokenInv, PendingInv
<1>2. life[t] = "drawn" /\ api_tokens[t] = Null /\ u # Null
  BY <1>1, UserIsNotNull DEF create_api_token, create_fail, TokenInv, PendingInv
<1>3. /\ UNCHANGED <<directory, apc, bearer, caller>>
      /\ api_tokens' \in {api_tokens, [api_tokens EXCEPT ![t] = u]}
      /\ \/ life' = life
         \/ life' = [life EXCEPT ![t] = "shown"] /\ api_tokens' # api_tokens
  <2>1. [api_tokens EXCEPT ![t] = u] # api_tokens
    BY <1>2 DEF TokenInv, TypeOK
  <2>2. QED BY <1>1, <2>1 DEF create_api_token, create_fail, Inserted, apiVars
<1>4. Calls' = Calls
  BY <1>3, CallsStay
<1>5. CASE api_tokens' = api_tokens
  <2>1. Issued' = Issued
    BY <1>3, <1>5, IssuedStay
  <2>2. QED BY <1>3, <1>4, <1>5, <2>1 DEF Promised!access, Calls
<1>6. CASE api_tokens' = [api_tokens EXCEPT ![t] = u]
  <2>1. t \notin Issued
    BY <1>2 DEF Issued
  <2>2. Issued' = Issued \cup {t}
    <3>1. \A s \in Tokens : /\ api_tokens'[s] = IF s = t THEN u ELSE api_tokens[s]
                            /\ s # t => life'[s] = life[s]
      BY <1>3, <1>6 DEF TokenInv, TypeOK
    <3>2. \A s \in Tokens :
            s \in Issued' <=> api_tokens'[s] # Null \/ life'[s] \in {"asked", "revoked"}
      BY DEF Issued
    <3>3. \A s \in Tokens :
            s \in Issued <=> api_tokens[s] # Null \/ life[s] \in {"asked", "revoked"}
      BY DEF Issued
    <3>4. Issued \subseteq Tokens /\ Issued' \subseteq Tokens
      BY DEF Issued
    <3>5. QED BY <1>2, <3>1, <3>2, <3>3, <3>4
  <2>3. Promised!Issue(u, t)
    BY <1>3, <1>4, <1>6, <2>1, <2>2 DEF Promised!Issue, Calls
  <2>4. QED BY <2>3 DEF Promised!Next
<1>7. QED BY <1>3, <1>5, <1>6

\* A revocation withdraws its token or nothing.
LEMMA RevokeIsWithdraw ==
    ASSUME TokenInv, NEW w \in WebRequests, NEW u \in Users, NEW t \in Tokens,
           revoke(w, u, t) \/ revoke_fail(w, u, t)
    PROVE  Promised!Next \/ UNCHANGED Promised!access
<1>1. /\ UNCHANGED <<directory, apc, bearer, caller>>
      /\ api_tokens' \in {api_tokens, Deleted(t, u)}
      /\ \/ life' = life /\ api_tokens[t] # u
         \/ life' = [life EXCEPT ![t] = "asked"] /\ api_tokens[t] = u
         \/ /\ life' = [life EXCEPT ![t] = "revoked"] /\ api_tokens[t] = u
            /\ api_tokens' = Deleted(t, u)
  BY DEF revoke, revoke_fail, apiVars
<1>2. Calls' = Calls
  BY <1>1, CallsStay
<1>3. u # Null
  BY UserIsNotNull
<1>4. CASE api_tokens[t] # u
  <2>1. api_tokens' = api_tokens /\ life' = life
    BY <1>1, <1>4 DEF Deleted, TokenInv, TypeOK
  <2>2. QED BY <1>1, <1>2, <2>1, IssuedStay DEF Promised!access, Calls
<1>5. CASE api_tokens[t] = u
  <2>1. Issued' = Issued
    <3>1. \A s \in Tokens : s # t => life'[s] = life[s] /\ api_tokens'[s] = api_tokens[s]
      BY <1>1 DEF Deleted, TokenInv, TypeOK
    <3>2. life'[t] \in {"asked", "revoked"}
      BY <1>1, <1>5 DEF TokenInv, TypeOK
    <3>3. QED BY <1>3, <1>5, <3>1, <3>2 DEF Issued
  <2>2. CASE api_tokens' = api_tokens
    BY <1>1, <1>2, <2>1, <2>2 DEF Promised!access, Calls
  <2>3. CASE api_tokens' = Deleted(t, u)
    <3>1. api_tokens' = [api_tokens EXCEPT ![t] = Null]
      BY <1>5, <2>3 DEF Deleted, TokenInv, TypeOK
    <3>2. Promised!Withdraw(t)
      BY <1>1, <1>2, <1>3, <1>5, <2>1, <3>1 DEF Promised!Withdraw, Calls
    <3>3. QED BY <3>2 DEF Promised!Next
  <2>4. QED BY <1>1, <2>2, <2>3
<1>6. QED BY <1>4, <1>5

\* A step of an API request is one of the promised ones.
LEMMA RequestIsCall ==
    ASSUME TokenInv, NEW a \in ApiRequests,
           \/ \E t \in Tokens \cup {Null} : arrive(a, t)
           \/ find_user_id_by_plaintext(a) \/ get_user_info(a) \/ auth_fail(a)
    PROVE  Promised!Next
<1>1. UNCHANGED <<api_tokens, life, directory>>
  BY DEF arrive, find_user_id_by_plaintext, get_user_info, auth_fail
<1>2. TypeOK /\ Issued' = Issued
  BY <1>1, IssuedStay DEF TokenInv
<1>3. PICK c : c = [stage |-> Stage(apc[a]), token |-> bearer[a], user |-> caller[a]]
  OBVIOUS
<1>4. Calls[a] = c
  BY <1>3 DEF Calls, Call
<1> DEFINE After == [stage |-> Stage(apc'[a]), token |-> bearer'[a], user |-> caller'[a]]
<1> HIDE DEF After
<1>12. Calls' = [Calls EXCEPT ![a] = After]
  <2>1. \A b \in ApiRequests \ {a} :
          apc'[b] = apc[b] /\ bearer'[b] = bearer[b] /\ caller'[b] = caller[b]
    BY <1>2
    DEF arrive, find_user_id_by_plaintext, get_user_info, auth_fail, Answer, TypeOK
  <2>2. QED BY <2>1, CallMoves DEF After
<1>5. ASSUME NEW d, Calls' = [Calls EXCEPT ![a] = d]
      PROVE  Promised!Moves(a, d)
  BY <1>1, <1>2, <1>5 DEF Promised!Moves, Calls
\* A request that is refused.
<1>6. ASSUME apc[a] \in {"new", "token", "user info"},
             apc' = [apc EXCEPT ![a] = "unauthorized"], UNCHANGED <<bearer, caller>>
      PROVE  Promised!Next
  <2>1. After = [stage |-> "refused", token |-> bearer[a], user |-> caller[a]]
    BY <1>2, <1>6, Stages DEF After, TypeOK
  <2>2. Calls' = [Calls EXCEPT ![a] = [c EXCEPT !.stage = "refused"]]
    BY <1>3, <1>12, <2>1
  <2>3. c.stage \in {"new", "sent", "known"}
    BY <1>3, <1>6, Stages
  <2>4. Promised!Refuse(a)
    BY <1>4, <1>5, <2>2, <2>3 DEF Promised!Refuse, Calls
  <2>5. QED BY <2>4 DEF Promised!Next
<1>7. CASE \E t \in Tokens \cup {Null} : arrive(a, t)
  <2>1. PICK t \in Tokens \cup {Null} : arrive(a, t)
    BY <1>7
  <2>2. apc[a] = "new" /\ caller' = caller
    BY <2>1 DEF arrive
  <2>3. CASE t = Null
    BY <1>6, <2>1, <2>2, <2>3 DEF arrive, Answer
  <2>4. CASE t \in Tokens
    <3>1. apc' = [apc EXCEPT ![a] = "token"] /\ bearer' = [bearer EXCEPT ![a] = t]
      BY <2>1, <2>4, ApiTokensAssumption DEF arrive, Answer
    <3>2. bearer[a] = Null /\ caller[a] = Null
      BY <2>2 DEF TokenInv, ApiInv
    <3>3. c = Promised!Unsent
      BY <1>3, <2>2, <3>2, Stages DEF Promised!Unsent
    <3>4. Calls' = [Calls EXCEPT ![a] = [stage |-> "sent", token |-> t, user |-> Null]]
      <4>1. After = [stage |-> "sent", token |-> t, user |-> Null]
        BY <1>2, <2>2, <3>1, <3>2, Stages DEF After, TypeOK
      <4>2. QED BY <1>12, <4>1
    <3>5. Promised!Send(a, t)
      BY <1>4, <1>5, <3>3, <3>4 DEF Promised!Send, Calls
    <3>6. QED BY <2>4, <3>5 DEF Promised!Next
  <2>5. QED BY <2>3, <2>4
<1>8. CASE find_user_id_by_plaintext(a)
  <2>1. apc[a] = "token" /\ bearer' = bearer /\ bearer[a] \in Tokens
    BY <1>8 DEF find_user_id_by_plaintext, TokenInv, ApiInv
  <2>2. PICK u : u = api_tokens[bearer[a]]
    OBVIOUS
  <2>3. CASE u = Null
    BY <1>6, <1>8, <2>1, <2>2, <2>3 DEF find_user_id_by_plaintext, Answer
  <2>4. CASE u # Null
    <3>1. apc' = [apc EXCEPT ![a] = "user info"] /\ caller' = [caller EXCEPT ![a] = u]
      BY <1>8, <2>2, <2>4 DEF find_user_id_by_plaintext, Answer
    <3>2. Calls' = [Calls EXCEPT ![a] = [stage |-> "known", token |-> bearer[a], user |-> u]]
      <4>1. After = [stage |-> "known", token |-> bearer[a], user |-> u]
        BY <1>2, <2>1, <3>1, Stages DEF After, TypeOK
      <4>2. QED BY <1>12, <4>1
    <3>3. c.stage = "sent" /\ c.token = bearer[a]
      BY <1>3, <2>1, Stages
    <3>4. Promised!Recognise(a)
      BY <1>4, <1>5, <2>2, <2>4, <3>2, <3>3 DEF Promised!Recognise, Calls
    <3>5. QED BY <3>4 DEF Promised!Next
  <2>5. QED BY <2>3, <2>4
<1>9. CASE get_user_info(a)
  <2>1. apc[a] = "user info" /\ bearer' = bearer /\ caller' = caller
    BY <1>9 DEF get_user_info
  <2>2. CASE caller[a] \notin directory
    BY <1>6, <1>9, <2>1, <2>2 DEF get_user_info, Answer
  <2>3. CASE caller[a] \in directory
    <3>1. apc' = [apc EXCEPT ![a] = "served"]
      BY <1>9, <2>3 DEF get_user_info, Answer
    <3>2. Calls' = [Calls EXCEPT ![a] = [stage |-> "served", token |-> bearer[a],
                                         user |-> caller[a]]]
      <4>1. After = [stage |-> "served", token |-> bearer[a], user |-> caller[a]]
        BY <1>2, <2>1, <3>1, Stages DEF After, TypeOK
      <4>2. QED BY <1>12, <4>1
    <3>3. c.stage = "known" /\ c.user = caller[a]
          /\ [c EXCEPT !.stage = "served"] =
                [stage |-> "served", token |-> bearer[a], user |-> caller[a]]
      <4>1. c = [stage |-> "known", token |-> bearer[a], user |-> caller[a]]
        BY <1>3, <2>1, Stages
      <4>2. QED BY <4>1
    <3>4. Promised!Serve(a)
      BY <1>4, <1>5, <2>3, <3>2, <3>3 DEF Promised!Serve, Calls
    <3>5. QED BY <3>4 DEF Promised!Next
  <2>4. QED BY <2>2, <2>3
<1>10. CASE auth_fail(a)
  BY <1>6, <1>10 DEF auth_fail, Answer
<1>11. QED BY <1>7, <1>8, <1>9, <1>10

\* ApiTokensService and authenticate_bearer keep what Access promises of tokens
\* and requests: ApiTokens!AccessSpec.
THEOREM Implements == Spec => AccessSpec
<1>1. Init => Promised!Init
  <2> SUFFICES ASSUME Init PROVE Promised!Init
    OBVIOUS
  <2>1. Issued = {} /\ api_tokens = [t \in Tokens |-> Null] /\ directory = Users
    BY DEF Init, Issued
  <2>2. \A a \in ApiRequests : Call(a) = [stage |-> "new", token |-> Null, user |-> Null]
    BY Stages DEF Init, Call
  <2>3. QED BY <2>1, <2>2 DEF Promised!Init, Promised!Unsent
<1>2. TokenInv /\ [Next]_vars => [Promised!Next]_Promised!access
  <2> SUFFICES ASSUME TokenInv, [Next]_vars
               PROVE  Promised!Next \/ UNCHANGED Promised!access
    BY DEF Promised!access
  <2>1. CASE UNCHANGED vars
    BY <2>1, CallsStay, IssuedStay DEF vars, Promised!access, Calls
  <2>2. ASSUME NEW w \in WebRequests, NEW u \in Users, NEW t \in Tokens, create(w, u, t)
        PROVE  UNCHANGED Promised!access
    <3>1. UNCHANGED <<api_tokens, directory, apc, bearer, caller>>
      BY <2>2 DEF create, apiVars
    <3>2. \A s \in Tokens : life'[s] \in {"asked", "revoked"} <=> life[s] \in {"asked", "revoked"}
      BY <2>2 DEF create, TokenInv, TypeOK
    <3>3. Issued' = Issued
      BY <3>1, <3>2 DEF Issued
    <3>4. QED BY <3>1, <3>3, CallsStay DEF Promised!access, Calls
  <2>3. ASSUME NEW u \in Users, DirectoryChange(u)
        PROVE  Promised!Next
    <3>1. UNCHANGED <<api_tokens, life, apc, bearer, caller>> /\ directory' \in SUBSET Users
      BY <2>3 DEF DirectoryChange, TokenInv, TypeOK
    <3>2. Promised!Turnover
      BY <3>1, CallsStay, IssuedStay DEF Promised!Turnover, Calls
    <3>3. QED BY <3>2 DEF Promised!Next
  <2>4. QED
    BY <2>1, <2>2, <2>3, CreateIsIssue, RevokeIsWithdraw, RequestIsCall DEF Next
<1>3. QED BY <1>1, <1>2, TokenInvariant, PTL DEF Spec, AccessSpec, Promised!Spec

=============================================================================
