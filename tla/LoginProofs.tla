----------------------------- MODULE LoginProofs -----------------------------
(***************************************************************************)
(* Theorems about Login, for every number of people, browsers, requests    *)
(* and rows of users.                                                      *)
(***************************************************************************)
EXTENDS Login, TLAPS

-----------------------------------------------------------------------------
(***************************************************************************)
(* The inductive invariant.                                                *)
(***************************************************************************)
\* The rows of users are committed ones, and the sequence is past them.
RowsInv ==
    /\ \A u \in Ids : users[u] # Null => u \in born
    /\ \A u \in born : u < next_id

\* What the open transactions have inserted is nobody's row yet, and each of
\* them has another id and another person.
InsertInv ==
    /\ \A r \in Requests : inserted[r] # Null <=> At(r, "commit")
    /\ \A r \in Requests :
          At(r, "commit") =>
             /\ inserted[r] = req[r].person
             /\ req[r].user < next_id
             /\ req[r].user \notin born
             /\ \A u \in Ids : users[u] # inserted[r]
    /\ \A r, s \in Requests :
          At(r, "commit") /\ At(s, "commit") /\ r # s =>
             req[r].user # req[s].user /\ inserted[r] # inserted[s]

\* A session, or a request that is about to make one, stands for a user who is
\* committed, and for nobody else's password.
StandsFor(b, u) ==
    /\ u \in born
    /\ users[u] # Null => <<b, users[u]>> \in proved

\* What a request has found out already.
Proven(q) ==
    /\ q.pc \in {"look", "add", "commit", "info", "handle", "served"} =>
          <<q.browser, q.person>> \in proved
    /\ q.pc = "login" => StandsFor(q.browser, q.user)
    /\ q.pc \in {"handle", "served"} => q.known
    /\ q.pc = "info" /\ Known(q.person) => q.known

LoginInv ==
    /\ TypeOK
    /\ RowsInv
    /\ InsertInv
    /\ OneRowPerPerson
    /\ \A b \in Browsers : session[b] # Null => StandsFor(b, session[b])
    /\ \A r \in Requests : Proven(req[r])

-----------------------------------------------------------------------------
(***************************************************************************)
(* Requests.                                                               *)
(***************************************************************************)
LEMMA NullIsNobody == Null \notin People
BY LoginAssumption

\* The fields of a request, by the place where it is.
LEMMA Fields ==
    ASSUME NEW q \in RequestType
    PROVE  /\ q.pc \in {"find", "check", "look", "add"} =>
                 q \in [pc : {"find", "check", "look", "add"}, browser : Browsers,
                       person : People, password : {"right", "wrong"}]
           /\ q.pc = "commit" =>
                 q \in [pc : {"commit"}, browser : Browsers, person : People, user : Ids]
           /\ q.pc = "login" => q \in [pc : {"login"}, browser : Browsers, user : Ids]
           /\ q.pc = "load" =>
                 q \in [pc : {"load"}, browser : Browsers, page : {"hosts", "logout"}]
           /\ q.pc \in {"info", "handle", "served"} =>
                 q \in [pc : {"info", "handle", "served"}, browser : Browsers,
                       page : {"hosts", "logout"}, person : People, known : BOOLEAN]
BY DEF RequestType

\* A request goes on, or ends, and has nothing inserted; what is proved grows.
LEMMA Moves ==
    ASSUME LoginInv, NEW r \in Requests, NEW q \in RequestType, q.pc # "commit",
           req' = [req EXCEPT ![r] = q],
           inserted' \in [Requests -> People \cup {Null}],
           \A s \in Requests : inserted'[s] = IF s = r THEN Null ELSE inserted[s],
           UNCHANGED <<entries, users, born>>,
           proved \subseteq proved', proved' \subseteq Browsers \X People,
           next_id' \in 1..(MaxUsers + 1), next_id <= next_id',
           session' \in [Browsers -> Ids \cup {Null}],
           \A b \in Browsers :
              session'[b] = session[b] \/ session'[b] = Null \/ StandsFor(b, session'[b]),
           Proven(q)'
    PROVE  LoginInv'
<1>1. TypeOK' /\ born \subseteq 1..MaxUsers /\ MaxUsers \in Nat
  BY LoginAssumption DEF LoginInv, TypeOK, Ids
<1>2. RowsInv'
  BY <1>1 DEF LoginInv, RowsInv, TypeOK
<1>3. \A s \in Requests : req'[s] = IF s = r THEN q ELSE req[s]
  BY DEF LoginInv, TypeOK
<1>4. InsertInv'
  <2>1. \A s \in Requests : inserted'[s] # Null <=> At(s, "commit")'
    BY <1>3 DEF LoginInv, InsertInv, At
  <2>2. ASSUME NEW s \in Requests, At(s, "commit")'
        PROVE  s # r /\ At(s, "commit") /\ req'[s] = req[s] /\ inserted'[s] = inserted[s]
    BY <1>3, <2>2 DEF At
  <2>3. \A s \in Requests : At(s, "commit") => req[s].user \in Ids
    BY Fields DEF LoginInv, TypeOK, At
  <2>4. ASSUME NEW s \in Requests, At(s, "commit")'
        PROVE  /\ inserted'[s] = req'[s].person
               /\ req'[s].user < next_id'
               /\ req'[s].user \notin born'
               /\ \A u \in Ids : users'[u] # inserted'[s]
    <3>1. req[s].user < next_id /\ req[s].user \in 1..MaxUsers
      BY <2>2, <2>3, <2>4 DEF LoginInv, InsertInv, Ids
    <3>2. req[s].user < next_id'
      BY <1>1, <3>1 DEF LoginInv, TypeOK
    <3>3. QED BY <2>2, <2>4, <3>2 DEF LoginInv, InsertInv
  <2>5. \A s, t \in Requests :
          At(s, "commit")' /\ At(t, "commit")' /\ s # t =>
             req'[s].user # req'[t].user /\ inserted'[s] # inserted'[t]
    BY <2>2 DEF LoginInv, InsertInv
  <2>6. QED BY <2>1, <2>4, <2>5 DEF InsertInv
<1>5. OneRowPerPerson'
  BY DEF LoginInv, OneRowPerPerson
<1>6. \A b \in Browsers, u \in Ids : StandsFor(b, u) => StandsFor(b, u)'
  BY DEF StandsFor
<1>7. ASSUME NEW b \in Browsers, session'[b] # Null PROVE StandsFor(b, session[b])'
  <2>1. session'[b] \in Ids /\ StandsFor(b, session'[b])
    BY <1>7 DEF LoginInv
  <2>2. QED BY <2>1 DEF StandsFor
<1>8. \A x \in RequestType : Proven(x) => Proven(x)'
  BY DEF Proven, StandsFor, Known
<1>9. ASSUME NEW s \in Requests PROVE Proven(req[s])'
  <2>1. PICK x \in RequestType : x = req'[s]
    BY <1>1 DEF TypeOK
  <2>2. Proven(x)'
    BY <1>3, <1>8, <2>1 DEF LoginInv
  <2>3. QED BY <2>1, <2>2 DEF Proven, StandsFor, Known
<1>10. QED BY <1>1, <1>2, <1>4, <1>5, <1>7, <1>9 DEF LoginInv

\* The usual case: sessions, proofs and the sequence of ids stay.
LEMMA Steps ==
    ASSUME LoginInv, NEW r \in Requests, NEW q \in RequestType, q.pc # "commit",
           ~At(r, "commit"), req' = [req EXCEPT ![r] = q],
           UNCHANGED <<entries, users, next_id, session, inserted, proved, born>>,
           Proven(q)
    PROVE  LoginInv'
<1>1. inserted[r] = Null
  BY DEF LoginInv, InsertInv
<1>2. Proven(q)'
  BY DEF Proven, StandsFor, Known
<1>3. /\ inserted \in [Requests -> People \cup {Null}]
      /\ proved \subseteq Browsers \X People
      /\ next_id \in 1..(MaxUsers + 1)
      /\ session \in [Browsers -> Ids \cup {Null}]
  BY DEF LoginInv, TypeOK
<1>4. next_id <= next_id'
  BY <1>3, LoginAssumption
<1>5. QED BY <1>1, <1>2, <1>3, <1>4, Moves

\* A slot with no request in it proves nothing.
LEMMA IdleIsFine == Idle \in RequestType /\ Idle.pc = "idle" /\ Proven(Idle) /\ Proven(Idle)'
BY DEF Idle, RequestType, Proven

\* A request that ends leaves users and sessions alone.
LEMMA Ends ==
    ASSUME LoginInv, NEW r \in Requests, ~At(r, "commit"), End(r),
           UNCHANGED <<entries, users, next_id, session, inserted, proved, born>>
    PROVE  LoginInv'
BY IdleIsFine, Steps DEF End

-----------------------------------------------------------------------------
(***************************************************************************)
(* Logging in.                                                             *)
(***************************************************************************)
LEMMA ArriveKeeps ==
    ASSUME LoginInv, NEW r \in Requests, Arrive(r)
    PROVE  LoginInv'
<1>1. ASSUME NEW b \in Browsers, NEW p \in People, NEW password \in {"right", "wrong"},
             submit(r, b, p, password)
      PROVE  LoginInv'
  <2> DEFINE q == [pc |-> "find", browser |-> b, person |-> p, password |-> password]
  <2>1. q \in RequestType /\ q.pc = "find" /\ Proven(q)
    BY DEF RequestType, Proven
  <2>2. ~At(r, "commit") /\ req' = [req EXCEPT ![r] = q]
    BY <1>1 DEF submit, At, Busy
  <2> HIDE DEF q
  <2>3. QED BY <1>1, <2>1, <2>2, Steps DEF submit
<1>2. ASSUME NEW b \in Browsers, NEW page \in {"hosts", "logout"}, visit(r, b, page)
      PROVE  LoginInv'
  <2> DEFINE q == [pc |-> "load", browser |-> b, page |-> page]
  <2>1. q \in RequestType /\ q.pc = "load" /\ Proven(q)
    BY DEF RequestType, Proven
  <2>2. ~At(r, "commit") /\ req' = [req EXCEPT ![r] = q]
    BY <1>2 DEF visit, At, Busy
  <2> HIDE DEF q
  <2>3. QED BY <1>2, <2>1, <2>2, Steps DEF visit
<1>3. QED BY <1>1, <1>2 DEF Arrive

\* authenticate looks the person up in the AD.
LEMMA FindKeeps ==
    ASSUME LoginInv, NEW r \in Requests, find_user_info(r)
    PROVE  LoginInv'
<1> DEFINE q == [req[r] EXCEPT !.pc = "check"]
<1>1. req[r] \in RequestType /\ req[r].pc = "find" /\ ~At(r, "commit")
  BY DEF LoginInv, TypeOK, find_user_info, At
<1>2. q \in RequestType /\ q.pc = "check"
  BY <1>1, Fields DEF RequestType
<1>3. Proven(q)
  BY <1>2 DEF Proven
<1>4. CASE Goto(r, "check")
  <2>1. req' = [req EXCEPT ![r] = q]
    BY <1>4 DEF Goto, LoginInv, TypeOK
  <2> HIDE DEF q
  <2>2. QED BY <1>1, <1>2, <1>3, <2>1, Steps DEF find_user_info
<1>5. CASE End(r)
  BY <1>1, <1>5, Ends DEF find_user_info
<1>6. QED BY <1>4, <1>5 DEF find_user_info

\* authenticate asks the AD for the password.
LEMMA CheckKeeps ==
    ASSUME LoginInv, NEW r \in Requests, check_authentication(r)
    PROVE  LoginInv'
<1>1. req[r] \in RequestType /\ req[r].pc = "check" /\ ~At(r, "commit")
  BY DEF LoginInv, TypeOK, check_authentication, At
<1>2. req[r].browser \in Browsers /\ req[r].person \in People
  BY <1>1, Fields
<1>3. proved \subseteq proved' /\ proved' \subseteq Browsers \X People
  BY <1>2 DEF check_authentication, GavePassword, LoginInv, TypeOK
<1>4. \A s \in Requests : inserted[s] = IF s = r THEN Null ELSE inserted[s]
  BY <1>1 DEF LoginInv, InsertInv
<1>5. /\ inserted \in [Requests -> People \cup {Null}]
      /\ next_id \in 1..(MaxUsers + 1)
      /\ session \in [Browsers -> Ids \cup {Null}]
  BY DEF LoginInv, TypeOK
<1>6. next_id <= next_id
  BY <1>5, LoginAssumption
<1>7. CASE Right(r) /\ Goto(r, "look")
  <2>0. PICK q : q = [req[r] EXCEPT !.pc = "look"]
    OBVIOUS
  <2>1. q \in RequestType /\ q.pc = "look" /\ q.browser = req[r].browser
        /\ q.person = req[r].person
    BY <1>1, <2>0, Fields DEF RequestType
  <2>2. Proven(q)'
    BY <1>7, <2>1 DEF Proven, check_authentication, GavePassword
  <2>3. req' = [req EXCEPT ![r] = q]
    BY <1>7, <2>0 DEF Goto, LoginInv, TypeOK
  <2>4. QED BY <1>3, <1>4, <1>5, <1>6, <2>1, <2>2, <2>3, Moves DEF check_authentication
<1>8. CASE End(r)
  BY <1>3, <1>4, <1>5, <1>6, <1>8, IdleIsFine, Moves DEF check_authentication, End
<1>9. QED BY <1>7, <1>8 DEF check_authentication

\* authenticate looks for the row of the person.
LEMMA LookKeeps ==
    ASSUME LoginInv, NEW r \in Requests, get_user_by_dn(r)
    PROVE  LoginInv'
<1>1. /\ req[r] \in RequestType /\ req[r].pc = "look" /\ ~At(r, "commit")
      /\ Proven(req[r]) /\ req \in [Requests -> RequestType]
  BY DEF LoginInv, TypeOK, get_user_by_dn, At
<1>2. req[r].browser \in Browsers /\ req[r].person \in People
  BY <1>1, Fields
<1>3. CASE Goto(r, "add")
  <2> DEFINE q == [req[r] EXCEPT !.pc = "add"]
  <2>1. q \in RequestType /\ q.pc = "add" /\ q.browser = req[r].browser
        /\ q.person = req[r].person
    BY <1>1, Fields DEF RequestType
  <2>2. Proven(q)
    BY <1>1, <2>1 DEF Proven
  <2>3. req' = [req EXCEPT ![r] = q]
    BY <1>1, <1>3 DEF Goto
  <2> HIDE DEF q
  <2>4. QED BY <1>1, <2>1, <2>2, <2>3, Steps DEF get_user_by_dn
<1>4. ASSUME NEW u \in get_users_by_dn(req[r].person),
             req' = [req EXCEPT ![r] = [pc |-> "login", browser |-> req[r].browser,
                                        user |-> u]]
      PROVE  LoginInv'
  <2> DEFINE q == [pc |-> "login", browser |-> req[r].browser, user |-> u]
  <2>1. u \in Ids /\ users[u] = req[r].person /\ users[u] # Null
    BY <1>2, NullIsNobody DEF get_users_by_dn
  <2>2. q \in RequestType /\ q.pc = "login"
    BY <1>2, <2>1 DEF RequestType
  <2>3. StandsFor(req[r].browser, u)
    BY <1>1, <2>1 DEF Proven, StandsFor, LoginInv, RowsInv
  <2>4. Proven(q)
    BY <2>3 DEF Proven
  <2>5. req' = [req EXCEPT ![r] = q]
    BY <1>4
  <2> HIDE DEF q
  <2>6. QED BY <1>1, <2>2, <2>4, <2>5, Steps DEF get_user_by_dn
<1>5. QED BY <1>1, <1>3, <1>4 DEF get_user_by_dn

\* The INSERT.
LEMMA AddKeeps ==
    ASSUME LoginInv, NEW r \in Requests, add_user(r)
    PROVE  LoginInv'
<1>1. /\ req[r] \in RequestType /\ req[r].pc = "add" /\ ~At(r, "commit")
      /\ Proven(req[r]) /\ req \in [Requests -> RequestType]
  BY DEF LoginInv, TypeOK, add_user, At
<1>2. req[r].browser \in Browsers /\ req[r].person \in People
  BY <1>1, Fields
<1>3. /\ inserted \in [Requests -> People \cup {Null}]
      /\ next_id \in 1..(MaxUsers + 1) /\ next_id' \in 1..(MaxUsers + 1)
      /\ session \in [Browsers -> Ids \cup {Null}]
      /\ proved \subseteq Browsers \X People
      /\ next_id <= next_id' /\ MaxUsers \in Nat
      /\ born \subseteq Ids
  BY LoginAssumption DEF LoginInv, TypeOK, add_user
<1>4. CASE End(r) /\ UNCHANGED inserted
  <2>1. \A s \in Requests : inserted[s] = IF s = r THEN Null ELSE inserted[s]
    BY <1>1 DEF LoginInv, InsertInv
  <2>2. QED BY <1>3, <1>4, <2>1, IdleIsFine, Moves DEF add_user, End
<1>5. CASE /\ get_users_by_dn(req[r].person) = {} /\ next_id <= MaxUsers
           /\ Insert(r, next_id)
  <2>0. PICK p, q :
          /\ p = req[r].person
          /\ q = [pc |-> "commit", browser |-> req[r].browser, person |-> p,
                  user |-> next_id]
    OBVIOUS
  <2>1. next_id \in Ids /\ next_id' = next_id + 1
    BY <1>3, <1>5 DEF add_user, Ids
  <2>2. q \in RequestType
    BY <1>2, <2>0, <2>1 DEF RequestType
  <2>3. \A s \in Requests : /\ req'[s] = IF s = r THEN q ELSE req[s]
                            /\ inserted'[s] = IF s = r THEN p ELSE inserted[s]
    BY <1>1, <1>3, <1>5, <2>0 DEF Insert
  <2>4. TypeOK'
    BY <1>1, <1>2, <1>3, <1>5, <2>0, <2>2 DEF LoginInv, TypeOK, Insert, add_user
  <2>5. RowsInv'
    BY <1>3, <2>1 DEF LoginInv, RowsInv, add_user, Ids
  <2>6. InsertInv'
    <3>1. p # Null /\ \A u \in Ids : users[u] # p
      BY <1>2, <1>5, <2>0, NullIsNobody DEF get_users_by_dn
    <3>2. next_id \notin born
      BY <1>3 DEF LoginInv, RowsInv
    <3>3. \A s \in Requests : At(s, "commit") => req[s].user \in Ids
      BY Fields DEF LoginInv, TypeOK, At
    <3>4. ASSUME NEW s \in Requests, s # r, At(s, "commit")
          PROVE  req[s].user < next_id' /\ req[s].user # next_id /\ inserted[s] # p
      BY <1>3, <2>0, <2>1, <3>3, <3>4 DEF LoginInv, InsertInv, Ids, add_user
    <3>5. \A s \in Requests : At(s, "commit")' <=> s = r \/ At(s, "commit")
      BY <2>0, <2>3 DEF At
    <3>6. \A s \in Requests : inserted'[s] # Null <=> At(s, "commit")'
      BY <2>0, <2>3, <3>1, <3>5 DEF LoginInv, InsertInv, At
    <3>7. ASSUME NEW s \in Requests, At(s, "commit")'
          PROVE  /\ inserted'[s] = req'[s].person
                 /\ req'[s].user < next_id'
                 /\ req'[s].user \notin born'
                 /\ \A u \in Ids : users'[u] # inserted'[s]
      <4>1. CASE s = r
        BY <1>3, <2>0, <2>1, <2>3, <3>1, <3>2, <4>1 DEF add_user
      <4>2. CASE s # r
        BY <2>3, <3>4, <3>5, <3>7, <4>2 DEF LoginInv, InsertInv, add_user
      <4>3. QED BY <4>1, <4>2
    <3>8. \A s, t \in Requests :
            At(s, "commit")' /\ At(t, "commit")' /\ s # t =>
               req'[s].user # req'[t].user /\ inserted'[s] # inserted'[t]
      BY <2>0, <2>3, <3>4, <3>5 DEF LoginInv, InsertInv
    <3>9. QED BY <3>6, <3>7, <3>8 DEF InsertInv
  <2>7. OneRowPerPerson' /\ (\A b \in Browsers : session[b] # Null => StandsFor(b, session[b]))'
    BY DEF LoginInv, OneRowPerPerson, StandsFor, add_user
  <2>8. ASSUME NEW s \in Requests PROVE Proven(req[s])'
    <3>1. CASE s = r
      BY <1>1, <2>0, <2>3, <3>1 DEF Proven, add_user
    <3>2. CASE s # r
      <4>1. req'[s] = req[s] /\ Proven(req[s])
        BY <2>3, <3>2 DEF LoginInv
      <4>2. QED BY <4>1 DEF Proven, StandsFor, Known, add_user
    <3>3. QED BY <3>1, <3>2
  <2>9. QED BY <2>4, <2>5, <2>6, <2>7, <2>8 DEF LoginInv
<1>6. QED BY <1>4, <1>5 DEF add_user

\* The new row: of nobody who has one, under an id nobody has had.
LEMMA CommitKeeps ==
    ASSUME LoginInv, NEW r \in Requests, commit(r) \/ commit_fail(r)
    PROVE  LoginInv'
<1>1. /\ req[r] \in RequestType /\ req[r].pc = "commit" /\ At(r, "commit")
      /\ Proven(req[r]) /\ req \in [Requests -> RequestType] /\ Committed(r)
  BY DEF LoginInv, TypeOK, commit, commit_fail, At
<1>2. PICK b, p, u :
        /\ b = req[r].browser /\ b \in Browsers
        /\ p = req[r].person /\ p \in People
        /\ u = req[r].user /\ u \in Ids
  BY <1>1, Fields
<1>3. PICK q : /\ q = [pc |-> "login", browser |-> b, user |-> u] \/ q = Idle
               /\ req' = [req EXCEPT ![r] = q]
  <2>1. CASE commit(r)
    BY <1>1, <1>2, <2>1 DEF commit
  <2>2. CASE commit_fail(r)
    BY <2>2 DEF commit_fail, End
  <2>3. QED BY <2>1, <2>2
<1>4. /\ q \in RequestType /\ q.pc # "commit"
      /\ q.pc = "idle" \/ (q.pc = "login" /\ q.browser = b /\ q.user = u)
  BY <1>2, <1>3 DEF RequestType, Idle
<1>5. \A s \in Requests : /\ req'[s] = IF s = r THEN q ELSE req[s]
                          /\ inserted'[s] = IF s = r THEN Null ELSE inserted[s]
  BY <1>1, <1>3 DEF Committed, LoginInv, TypeOK
<1>6. inserted[r] = p /\ p # Null /\ u < next_id /\ u \notin born
  BY <1>1, <1>2, NullIsNobody DEF LoginInv, InsertInv
<1>7. \A v \in Ids : users[v] # p /\ users'[v] = IF v = u THEN p ELSE users[v]
  BY <1>1, <1>2, <1>6 DEF LoginInv, InsertInv, Committed, TypeOK
<1>8. born' = born \cup {u} /\ UNCHANGED <<entries, next_id, session, proved>>
  BY <1>1, <1>2 DEF commit, commit_fail, Committed
<1>9. TypeOK'
  BY <1>1, <1>2, <1>3, <1>4, <1>6, <1>8 DEF LoginInv, TypeOK, Committed
<1>10. RowsInv'
  BY <1>6, <1>7, <1>8 DEF LoginInv, RowsInv
<1>11. InsertInv'
  <2>1. \A s \in Requests : At(s, "commit")' <=> s # r /\ At(s, "commit")
    BY <1>4, <1>5 DEF At
  <2>2. \A s \in Requests : inserted'[s] # Null <=> At(s, "commit")'
    BY <1>5, <2>1 DEF LoginInv, InsertInv
  <2>3. ASSUME NEW s \in Requests, At(s, "commit")'
        PROVE  /\ inserted'[s] = req'[s].person
               /\ req'[s].user < next_id'
               /\ req'[s].user \notin born'
               /\ \A v \in Ids : users'[v] # inserted'[s]
    <3>1. s # r /\ At(s, "commit") /\ req'[s] = req[s] /\ inserted'[s] = inserted[s]
      BY <1>5, <2>1, <2>3
    <3>2. req[s].user # u /\ inserted[s] # p
      BY <1>1, <1>2, <1>6, <3>1 DEF LoginInv, InsertInv
    <3>3. QED BY <1>7, <1>8, <3>1, <3>2 DEF LoginInv, InsertInv
  <2>4. \A s, t \in Requests :
          At(s, "commit")' /\ At(t, "commit")' /\ s # t =>
             req'[s].user # req'[t].user /\ inserted'[s] # inserted'[t]
    BY <1>5, <2>1 DEF LoginInv, InsertInv
  <2>5. QED BY <2>2, <2>3, <2>4 DEF InsertInv
<1>12. OneRowPerPerson'
  BY <1>7 DEF LoginInv, OneRowPerPerson
<1>13. \A c \in Browsers, v \in Ids : StandsFor(c, v) => StandsFor(c, v)'
  BY <1>6, <1>7, <1>8 DEF StandsFor
<1>14. ASSUME NEW c \in Browsers, session'[c] # Null PROVE StandsFor(c, session[c])'
  <2>1. session'[c] \in Ids /\ StandsFor(c, session[c]) /\ session'[c] = session[c]
    BY <1>8, <1>14 DEF LoginInv, TypeOK
  <2>2. QED BY <1>6, <1>7, <1>8, <2>1 DEF StandsFor
<1>15. ASSUME NEW s \in Requests PROVE Proven(req[s])'
  <2>1. CASE s = r
    <3>1. <<b, p>> \in proved
      BY <1>1, <1>2 DEF Proven
    <3>2. u \in born' /\ users'[u] = p
      BY <1>2, <1>7, <1>8
    <3>3. QED BY <1>4, <1>5, <1>8, <2>1, <3>1, <3>2 DEF Proven, StandsFor
  <2>2. CASE s # r
    <3>1. req'[s] = req[s] /\ Proven(req[s]) /\ req[s] \in RequestType
      BY <1>5, <2>2 DEF LoginInv, TypeOK
    <3>2. req[s].pc = "login" => req[s].user \in Ids /\ req[s].browser \in Browsers
      BY <3>1, Fields
    <3>3. req[s].pc = "login" => StandsFor(req[s].browser, req[s].user)'
      BY <1>6, <1>7, <1>8, <3>1, <3>2 DEF Proven, StandsFor
    <3>4. QED BY <1>8, <3>1, <3>3 DEF Proven, StandsFor, Known
  <2>3. QED BY <2>1, <2>2
<1>16. QED BY <1>9, <1>10, <1>11, <1>12, <1>14, <1>15 DEF LoginInv

\* What Moves needs of the variables a step leaves as they are.
LEMMA Unmoved ==
    ASSUME LoginInv, NEW r \in Requests, ~At(r, "commit")
    PROVE  /\ \A s \in Requests : inserted[s] = IF s = r THEN Null ELSE inserted[s]
           /\ inserted \in [Requests -> People \cup {Null}]
           /\ next_id \in 1..(MaxUsers + 1) /\ next_id <= next_id
           /\ session \in [Browsers -> Ids \cup {Null}]
           /\ proved \subseteq Browsers \X People
<1>1. inserted[r] = Null
  BY DEF LoginInv, InsertInv
<1>2. next_id \in 1..(MaxUsers + 1)
  BY DEF LoginInv, TypeOK
<1>3. next_id <= next_id
  BY <1>2, LoginAssumption
<1>4. QED BY <1>1, <1>2, <1>3 DEF LoginInv, TypeOK

\* auth_session.login sets the session.
LEMMA LoginKeeps ==
    ASSUME LoginInv, NEW r \in Requests, login(r)
    PROVE  LoginInv'
<1>1. req[r] \in RequestType /\ req[r].pc = "login" /\ ~At(r, "commit") /\ Proven(req[r])
  BY DEF LoginInv, TypeOK, login, At
<1>2. PICK b \in Browsers, u \in Ids : b = req[r].browser /\ u = req[r].user
  BY <1>1, Fields
<1>3. StandsFor(b, u)
  BY <1>1, <1>2 DEF Proven
<1>4. \A c \in Browsers : session'[c] = IF c = b THEN u ELSE session[c]
  BY <1>2 DEF login, LoginInv, TypeOK
<1>5. session' \in [Browsers -> Ids \cup {Null}]
  BY <1>2 DEF login, LoginInv, TypeOK
<1>6. \A c \in Browsers :
        session'[c] = session[c] \/ session'[c] = Null \/ StandsFor(c, session'[c])
  BY <1>3, <1>4
<1>7. req' = [req EXCEPT ![r] = Idle]
  BY DEF login, End
<1>8. QED BY <1>1, <1>5, <1>6, <1>7, IdleIsFine, Unmoved, Moves DEF login

\* Logout clears the session.
LEMMA LogoutKeeps ==
    ASSUME LoginInv, NEW r \in Requests, logout(r)
    PROVE  LoginInv'
<1>1. req[r] \in RequestType /\ req[r].pc = "handle" /\ ~At(r, "commit")
  BY DEF LoginInv, TypeOK, logout, At
<1>2. session' \in [Browsers -> Ids \cup {Null}]
  BY DEF logout, LoginInv, TypeOK
<1>3. \A c \in Browsers : session'[c] = session[c] \/ session'[c] = Null
  BY DEF logout, LoginInv, TypeOK
<1>4. req' = [req EXCEPT ![r] = Idle]
  BY DEF logout, End
<1>5. QED BY <1>1, <1>2, <1>3, <1>4, IdleIsFine, Unmoved, Moves DEF logout

\* A query or a call of the AD fails.
LEMMA FailKeeps ==
    ASSUME LoginInv, NEW r \in Requests, fail(r)
    PROVE  LoginInv'
<1>1. /\ inserted' \in [Requests -> People \cup {Null}]
      /\ \A s \in Requests : inserted'[s] = IF s = r THEN Null ELSE inserted[s]
      /\ next_id \in 1..(MaxUsers + 1)
      /\ session \in [Browsers -> Ids \cup {Null}]
      /\ proved \subseteq Browsers \X People
  BY DEF fail, LoginInv, TypeOK
<1>2. next_id <= next_id
  BY <1>1, LoginAssumption
<1>3. QED BY <1>1, <1>2, IdleIsFine, Moves DEF fail, End

-----------------------------------------------------------------------------
(***************************************************************************)
(* The guard.                                                              *)
(***************************************************************************)
LEMMA GetUserKeeps ==
    ASSUME LoginInv, NEW r \in Requests, get_user(r)
    PROVE  LoginInv'
<1>1. req[r] \in RequestType /\ req[r].pc = "load" /\ ~At(r, "commit")
      /\ req \in [Requests -> RequestType]
  BY DEF LoginInv, TypeOK, get_user, At
<1>2. PICK b \in Browsers, page \in {"hosts", "logout"} :
        b = req[r].browser /\ page = req[r].page
  BY <1>1, Fields
<1>3. PICK p : p = IF session[b] = Null THEN Null ELSE users[session[b]]
  OBVIOUS
<1>4. CASE p = Null
  <2>1. End(r)
    BY <1>2, <1>3, <1>4 DEF get_user
  <2>2. QED BY <1>1, <2>1, Ends DEF get_user
<1>5. CASE p # Null
  <2>1. session[b] # Null /\ session[b] \in Ids /\ p = users[session[b]] /\ p \in People
    BY <1>3, <1>5 DEF LoginInv, TypeOK
  <2>2. PICK q : q = [pc |-> "info", browser |-> b, page |-> page, person |-> p,
                      known |-> Known(p)]
    OBVIOUS
  <2>3. Known(p) \in BOOLEAN
    BY DEF Known
  <2>4. q \in RequestType /\ q.pc = "info"
    BY <2>1, <2>2, <2>3 DEF RequestType
  <2>5. <<b, p>> \in proved
    <3>1. StandsFor(b, session[b])
      BY <2>1 DEF LoginInv
    <3>2. QED BY <1>5, <2>1, <3>1 DEF StandsFor
  <2>6. Proven(q)
    BY <2>2, <2>5 DEF Proven
  <2>7. req' = [req EXCEPT ![r] = q]
    BY <1>1, <1>2, <1>3, <1>5, <2>2 DEF get_user
  <2>8. QED BY <1>1, <2>4, <2>6, <2>7, Steps DEF get_user
<1>6. QED BY <1>4, <1>5

\* get_user asks the AD who the person of the session is.
LEMMA InfoKeeps ==
    ASSUME LoginInv, NEW r \in Requests, get_user_info(r)
    PROVE  LoginInv'
<1>1. /\ req[r] \in RequestType /\ req[r].pc = "info" /\ ~At(r, "commit")
      /\ Proven(req[r])
  BY DEF LoginInv, TypeOK, get_user_info, At
<1>2. CASE End(r)
  BY <1>1, <1>2, Ends DEF get_user_info
<1>3. CASE Info(entries[req[r].person]) = "some" /\ Goto(r, "handle")
  <2>1. PICK q : q = [req[r] EXCEPT !.pc = "handle"]
    OBVIOUS
  <2>2. q \in RequestType /\ q.pc = "handle" /\ q.browser = req[r].browser
        /\ q.person = req[r].person /\ q.known = req[r].known
    BY <1>1, <2>1, Fields DEF RequestType
  <2>3. Proven(q)
    BY <1>1, <1>3, <2>2 DEF Proven, Known
  <2>4. req' = [req EXCEPT ![r] = q]
    BY <1>3, <2>1 DEF Goto, LoginInv, TypeOK
  <2>5. QED BY <1>1, <2>2, <2>3, <2>4, Steps DEF get_user_info
<1>4. QED BY <1>2, <1>3 DEF get_user_info

\* auth_middleware hands the request on.
LEMMA ServeKeeps ==
    ASSUME LoginInv, NEW r \in Requests, serve(r)
    PROVE  LoginInv'
<1>1. /\ req[r] \in RequestType /\ req[r].pc = "handle" /\ ~At(r, "commit")
      /\ Proven(req[r])
  BY DEF LoginInv, TypeOK, serve, At
<1>2. PICK q : q = [req[r] EXCEPT !.pc = "served"]
  OBVIOUS
<1>3. q \in RequestType /\ q.pc = "served" /\ q.browser = req[r].browser
      /\ q.person = req[r].person /\ q.known = req[r].known
  BY <1>1, <1>2, Fields DEF RequestType
<1>4. Proven(q)
  BY <1>1, <1>3 DEF Proven
<1>5. req' = [req EXCEPT ![r] = q]
  BY <1>2 DEF serve, Goto, LoginInv, TypeOK
<1>6. QED BY <1>1, <1>3, <1>4, <1>5, Steps DEF serve

-----------------------------------------------------------------------------
(***************************************************************************)
(* What else happens.                                                      *)
(***************************************************************************)
LEMMA RestartKeeps ==
    ASSUME LoginInv, Restart
    PROVE  LoginInv'
<1>1. TypeOK'
  BY IdleIsFine DEF LoginInv, TypeOK, Restart
<1>2. RowsInv' /\ OneRowPerPerson'
  BY DEF LoginInv, RowsInv, OneRowPerPerson, Restart
<1>3. \A r \in Requests : req'[r] = Idle /\ inserted'[r] = Null
  BY DEF Restart
<1>4. InsertInv'
  BY <1>3, IdleIsFine DEF InsertInv, At
<1>5. \A b \in Browsers : session'[b] = Null
  BY DEF Restart
<1>6. \A r \in Requests : Proven(req[r])'
  BY <1>3, IdleIsFine DEF Proven
<1>7. QED BY <1>1, <1>2, <1>4, <1>5, <1>6 DEF LoginInv

\* Sessions end, rows are removed.
LEMMA LessKeeps ==
    ASSUME LoginInv, UNCHANGED <<entries, next_id, req, inserted, proved, born>>,
           session' \in [Browsers -> Ids \cup {Null}],
           \A b \in Browsers : session'[b] \in {session[b], Null},
           users' \in [Ids -> People \cup {Null}],
           \A u \in Ids : users'[u] \in {users[u], Null}
    PROVE  LoginInv'
<1>1. TypeOK'
  BY DEF LoginInv, TypeOK
<1>2. RowsInv' /\ OneRowPerPerson'
  BY DEF LoginInv, RowsInv, OneRowPerPerson
<1>3. InsertInv'
  BY DEF LoginInv, InsertInv, At
<1>4. ASSUME NEW b \in Browsers, session'[b] # Null PROVE StandsFor(b, session[b])'
  <2>1. session'[b] = session[b] /\ session[b] \in Ids /\ StandsFor(b, session[b])
    BY <1>4 DEF LoginInv, TypeOK
  <2>2. QED BY <2>1 DEF StandsFor
<1>5. ASSUME NEW r \in Requests PROVE Proven(req[r])'
  <2>1. req[r] \in RequestType /\ Proven(req[r])
    BY DEF LoginInv, TypeOK
  <2>2. req[r].pc = "login" => req[r].user \in Ids
    BY <2>1, Fields
  <2>3. QED BY <2>1, <2>2 DEF Proven, StandsFor, Known
<1>6. QED BY <1>1, <1>2, <1>3, <1>4, <1>5 DEF LoginInv

\* People enter and leave the AD.
LEMMA EditKeeps ==
    ASSUME LoginInv, NEW p \in People, Edit(p)
    PROVE  LoginInv'
<1>1. PICK e \in Edits :
        /\ entries' = [entries EXCEPT ![p] = e]
        /\ req' = IF Info(e) = "some" THEN [r \in Requests |-> Informed(req[r], p)]
                                      ELSE req
  BY DEF Edit
<1>2. ASSUME NEW r \in Requests
      PROVE  /\ req'[r] \in RequestType
             /\ req'[r] = req[r] \/ /\ req[r].pc \in {"info", "handle"}
                                    /\ req'[r] = [req[r] EXCEPT !.known = TRUE]
             /\ req[r].pc = "info" /\ req[r].person = p /\ Info(e) = "some"
                   => req'[r].known
  <2>1. req[r] \in RequestType
    BY DEF LoginInv, TypeOK
  <2>2. req'[r] = req[r] \/ req'[r] = Informed(req[r], p)
    BY <1>1
  <2>3. req[r].pc \in {"info", "handle"} => [req[r] EXCEPT !.known = TRUE] \in RequestType
    BY <2>1, Fields DEF RequestType
  <2>4. req[r].pc = "info" =>
           [req[r] EXCEPT !.known = TRUE].known
    BY <2>1, Fields
  <2>5. QED BY <1>1, <2>1, <2>2, <2>3, <2>4 DEF Informed
<1>3. TypeOK'
  <2>1. req' \in [Requests -> RequestType]
    <3>1. DOMAIN req' = Requests /\ req' = [r \in Requests |-> req'[r]]
      BY <1>1 DEF LoginInv, TypeOK
    <3>2. QED BY <1>2, <3>1
  <2>2. QED BY <1>1, <2>1, LoginAssumption DEF LoginInv, TypeOK, Edit
<1>4. RowsInv' /\ OneRowPerPerson'
  BY DEF LoginInv, RowsInv, OneRowPerPerson, Edit
<1>5. ASSUME NEW r \in Requests
      PROVE  At(r, "commit")' <=> At(r, "commit")
  <2>1. CASE req[r].pc \in {"info", "handle"}
    <3>1. req[r] \in RequestType
      BY DEF LoginInv, TypeOK
    <3>2. [req[r] EXCEPT !.known = TRUE].pc = req[r].pc
      BY <2>1, <3>1, Fields
    <3>3. req'[r].pc = req[r].pc
      BY <1>2, <3>2
    <3>4. QED BY <3>3 DEF At
  <2>2. CASE req[r].pc \notin {"info", "handle"}
    BY <1>2, <2>2 DEF At
  <2>3. QED BY <2>1, <2>2
<1>6. \A r \in Requests : At(r, "commit") => req'[r] = req[r]
  BY <1>2 DEF At
<1>7. InsertInv'
  BY <1>5, <1>6 DEF LoginInv, InsertInv, Edit
<1>8. (\A b \in Browsers : session[b] # Null => StandsFor(b, session[b]))'
  BY DEF LoginInv, StandsFor, Edit
<1>9. ASSUME NEW r \in Requests PROVE Proven(req[r])'
  <2>1. req[r] \in RequestType /\ Proven(req[r])
    BY DEF LoginInv, TypeOK
  <2>2. CASE req[r].pc \in {"info", "handle"}
    <3>1. req'[r].pc = req[r].pc /\ req'[r].browser = req[r].browser
          /\ req'[r].person = req[r].person /\ (req[r].known => req'[r].known)
      BY <1>2, <2>1, <2>2, Fields
    <3>2. req[r].person \in People
      BY <2>1, <2>2, Fields
    <3>3. req[r].person # p => entries'[req[r].person] = entries[req[r].person]
      BY <1>1, <3>2 DEF LoginInv, TypeOK
    <3>4. entries'[p] = e
      BY <1>1 DEF LoginInv, TypeOK
    <3>5. req[r].pc = "info" /\ Info(entries'[req[r].person]) = "some" => req'[r].known
      <4>1. CASE req[r].person = p
        BY <1>2, <3>4, <4>1
      <4>2. CASE req[r].person # p
        BY <2>1, <3>1, <3>3, <4>2 DEF Known, Proven
      <4>3. QED BY <4>1, <4>2
    <3>6. QED BY <2>1, <2>2, <3>1, <3>5 DEF Proven, Known, Edit
  <2>3. CASE req[r].pc \notin {"info", "handle"}
    <3>1. req'[r] = req[r]
      BY <1>2, <2>3
    <3>2. QED BY <2>1, <2>3, <3>1 DEF Proven, StandsFor, Edit
  <2>4. QED BY <2>2, <2>3
<1>10. QED BY <1>3, <1>4, <1>7, <1>8, <1>9 DEF LoginInv

-----------------------------------------------------------------------------
(***************************************************************************)
(* The theorems.                                                           *)
(***************************************************************************)
LEMMA InitInv ==
    ASSUME Init
    PROVE  LoginInv
<1>1. \A r \in Requests : req[r] = Idle /\ inserted[r] = Null /\ ~At(r, "commit")
  BY DEF Init, At, Idle
<1>2. TypeOK
  <2>1. 1 \in 1..(MaxUsers + 1)
    BY LoginAssumption
  <2>2. req \in [Requests -> RequestType] /\ inserted \in [Requests -> People \cup {Null}]
    BY IdleIsFine DEF Init
  <2>3. entries \in [People -> Entry] /\ users \in [Ids -> People \cup {Null}]
        /\ session \in [Browsers -> Ids \cup {Null}]
    BY DEF Init, Entry
  <2>4. QED BY <2>1, <2>2, <2>3 DEF Init, TypeOK
<1>3. RowsInv /\ OneRowPerPerson
  BY DEF Init, RowsInv, OneRowPerPerson
<1>4. InsertInv
  BY <1>1 DEF InsertInv
<1>5. \A r \in Requests : Proven(req[r])
  BY <1>1, IdleIsFine
<1>6. \A b \in Browsers : session[b] = Null
  BY DEF Init
<1>7. QED BY <1>2, <1>3, <1>4, <1>5, <1>6 DEF LoginInv

\* No step breaks the invariant.
LEMMA NextKeeps ==
    ASSUME LoginInv, [Next]_vars
    PROVE  LoginInv'
<1>1. CASE UNCHANGED vars
  <2>1. users \in [Ids -> People \cup {Null}] /\ session \in [Browsers -> Ids \cup {Null}]
    BY DEF LoginInv, TypeOK
  <2>2. QED BY <1>1, <2>1, LessKeeps DEF vars
<1>2. ASSUME NEW r \in Requests, Arrive(r) \/ Handle(r) \/ fail(r) \/ commit_fail(r)
      PROVE  LoginInv'
  BY <1>2, ArriveKeeps, FindKeeps, CheckKeeps, LookKeeps, AddKeeps, CommitKeeps,
     LoginKeeps, GetUserKeeps, InfoKeeps, ServeKeeps, LogoutKeeps, FailKeeps DEF Handle
<1>3. CASE Restart
  BY <1>3, RestartKeeps
<1>4. ASSUME NEW b \in Browsers, Expire(b) PROVE LoginInv'
  BY <1>4, LessKeeps DEF Expire, LoginInv, TypeOK
<1>5. ASSUME NEW u \in Ids, RemoveUser(u) PROVE LoginInv'
  BY <1>5, LessKeeps DEF RemoveUser, LoginInv, TypeOK
<1>6. QED BY <1>1, <1>2, <1>3, <1>4, <1>5, EditKeeps DEF Next

\* What a session or a request claims was proved by a password before: LoginInv
\* is inductive over every handler of the login pages.
THEOREM LoginInvariant == Spec => []LoginInv
<1>1. QED BY InitInv, NextKeeps, PTL DEF Spec

\* The state of logins and sessions keeps its types: Login!TypeOK.
THEOREM TypeCorrect == Spec => []TypeOK
<1>1. LoginInv => TypeOK
  BY DEF LoginInv
<1>2. QED BY <1>1, LoginInvariant, PTL

\* However many first logins of a person run at a time, Backend::authenticate
\* makes one row of users: Login!OneRowPerPerson.
THEOREM OneRow == Spec => []OneRowPerPerson
<1>1. LoginInv => OneRowPerPerson
  BY DEF LoginInv
<1>2. QED BY <1>1, LoginInvariant, PTL

\* The id a session keeps stands for the person whose password was given, over
\* every restart and removal: Login!SessionIsProved.
THEOREM SessionsAreProved == Spec => []SessionIsProved
<1>1. LoginInv => SessionIsProved
  BY DEF LoginInv, SessionIsProved, StandsFor
<1>2. QED BY <1>1, LoginInvariant, PTL

\* auth_middleware serves nobody else: Login!ServedOnlyProved.
THEOREM ServedAreProved == Spec => []ServedOnlyProved
<1>1. LoginInv => ServedOnlyProved
  BY DEF LoginInv, ServedOnlyProved, Proven
<1>2. QED BY <1>1, LoginInvariant, PTL

-----------------------------------------------------------------------------
(***************************************************************************)
(* Login implements Sessions.                                              *)
(***************************************************************************)
\* AdServer, seen through Sessions, is the AdServer of Login.
LEMMA SameServer ==
    /\ Promised!Entry = Entry
    /\ \A e : Promised!Info(e) = Info(e)
    /\ \A e, password : Promised!Authentic(e, password) = Authentic(e, password)
BY DEF Promised!Entry, Promised!Info, Promised!Parsed, Promised!Authentic,
       Entry, Info, Parsed, Authentic

\* How far a request has come, by its place.
LEMMA ProgressOf ==
    ASSUME NEW r \in Requests
    PROVE  /\ req[r].pc \in {"idle", "find", "check"} => Progress(r) = [at |-> "idle"]
           /\ req[r].pc \in {"look", "add", "commit"} =>
                 Progress(r) = SigningIn(req[r].browser, req[r].person)
           /\ req[r].pc = "login" /\ users[req[r].user] # Null =>
                 Progress(r) = SigningIn(req[r].browser, users[req[r].user])
           /\ req[r].pc = "login" /\ users[req[r].user] = Null =>
                 Progress(r) = [at |-> "idle"]
           /\ req[r].pc = "load" => Progress(r) = [at |-> "asking", browser |-> req[r].browser]
           /\ req[r].pc = "info" => Progress(r) = [at |-> "as", person |-> req[r].person]
           /\ req[r].pc = "handle" =>
                 Progress(r) = [at |-> "vouched", person |-> req[r].person]
           /\ req[r].pc = "served" =>
                 Progress(r) = [at |-> "served", person |-> req[r].person]
BY DEF Progress

\* A request that takes a step is the only one that gets anywhere; accounts are
\* about users and sessions.
LEMMA OneMoves ==
    ASSUME LoginInv, NEW r \in Requests, UNCHANGED users,
           \A s \in Requests : s # r => req'[s] = req[s]
    PROVE  /\ [s \in Requests |-> Progress(s)]' =
                 [[s \in Requests |-> Progress(s)] EXCEPT ![r] = Progress(r)']
           /\ UNCHANGED session =>
                 UNCHANGED [b \in Browsers |-> Account(b)]
<1>1. \A s \in Requests : s # r => Progress(s)' = Progress(s)
  BY DEF Progress
<1>2. \A b \in Browsers : UNCHANGED session => Account(b)' = Account(b)
  BY DEF Account
<1>3. QED BY <1>1, <1>2

\* Accounts and requests end, or nothing changes.
LEMMA Drops ==
    ASSUME UNCHANGED <<entries, proved>>,
           \A b \in Browsers : Account(b)' = Account(b) \/ Account(b)' = Null,
           \A r \in Requests :
              Progress(r)' = Progress(r) \/ Progress(r)' = [at |-> "idle"]
    PROVE  Promised!Next
<1>1. Promised!Drop
  BY DEF Promised!Drop, Promised!Idle
<1>2. QED BY <1>1 DEF Promised!Next

\* The same, when it is one request.
LEMMA DropsOne ==
    ASSUME LoginInv, NEW r \in Requests, UNCHANGED <<entries, users, session, proved>>,
           \A s \in Requests : s # r => req'[s] = req[s],
           Progress(r)' = Progress(r) \/ Progress(r)' = [at |-> "idle"]
    PROVE  Promised!Next
<1>1. \A s \in Requests : s # r => Progress(s)' = Progress(s)
  BY DEF Progress
<1>2. \A b \in Browsers : Account(b)' = Account(b)
  BY DEF Account
<1>3. QED BY <1>1, <1>2, Drops

\* What End and Goto do to req.
LEMMA EndGoto ==
    ASSUME LoginInv, NEW r \in Requests
    PROVE  /\ End(r) =>
                 /\ Progress(r)' = [at |-> "idle"]
                 /\ \A s \in Requests : s # r => req'[s] = req[s]
           /\ \A pc : Goto(r, pc) =>
                 /\ req'[r] = [req[r] EXCEPT !.pc = pc]
                 /\ \A s \in Requests : s # r => req'[s] = req[s]
<1>1. ASSUME End(r)
      PROVE  /\ Progress(r)' = [at |-> "idle"]
             /\ \A s \in Requests : s # r => req'[s] = req[s]
  <2>1. req'[r].pc = "idle" /\ \A s \in Requests : s # r => req'[s] = req[s]
    BY <1>1 DEF End, Idle, LoginInv, TypeOK
  <2>2. QED BY <2>1 DEF Progress
<1>2. QED BY <1>1 DEF Goto, LoginInv, TypeOK

\* authenticate, up to the password.
LEMMA SubmitImplements ==
    ASSUME LoginInv, NEW r \in Requests,
           \/ \E b \in Browsers, p \in People, password \in {"right", "wrong"} :
                 submit(r, b, p, password)
           \/ find_user_info(r)
    PROVE  Promised!Next
<1>1. CASE \E b \in Browsers, p \in People, password \in {"right", "wrong"} :
              submit(r, b, p, password)
  <2>1. PICK b \in Browsers, p \in People, password \in {"right", "wrong"} :
          submit(r, b, p, password)
    BY <1>1
  <2>2. req'[r].pc = "find" /\ \A s \in Requests : s # r => req'[s] = req[s]
    BY <2>1 DEF submit, LoginInv, TypeOK
  <2>3. Progress(r)' = [at |-> "idle"]
    BY <2>2 DEF Progress
  <2>4. QED BY <2>1, <2>2, <2>3, DropsOne DEF submit
<1>2. CASE find_user_info(r)
  <2>1. Progress(r)' = [at |-> "idle"] /\ \A s \in Requests : s # r => req'[s] = req[s]
    <3>1. CASE End(r)
      BY <3>1, EndGoto
    <3>2. CASE Goto(r, "check")
      <4>1. req'[r].pc = "check"
        BY <3>2, Fields DEF Goto, LoginInv, TypeOK, find_user_info, At
      <4>2. QED BY <3>2, <4>1, EndGoto DEF Progress
    <3>3. QED BY <1>2, <3>1, <3>2 DEF find_user_info
  <2>2. QED BY <1>2, <2>1, DropsOne DEF find_user_info
<1>3. QED BY <1>1, <1>2

\* The password: the request that gave it may go on, or fail all the same.
LEMMA CheckImplements ==
    ASSUME LoginInv, NEW r \in Requests, check_authentication(r)
    PROVE  Promised!Next
<1>1. req[r] \in RequestType /\ req[r].pc = "check" /\ req[r].password \in {"right", "wrong"}
  BY Fields DEF LoginInv, TypeOK, check_authentication, At
<1>2. PICK b \in Browsers, p \in People : b = req[r].browser /\ p = req[r].person
  BY <1>1, Fields
<1>3. Progress(r) = [at |-> "idle"]
  BY <1>1, ProgressOf
<1>4. /\ End(r) \/ (Right(r) /\ Goto(r, "look"))
      /\ UNCHANGED <<entries, users, session>>
      /\ \A s \in Requests : s # r => req'[s] = req[s]
  BY EndGoto DEF check_authentication
<1>5. /\ [s \in Requests |-> Progress(s)]' =
            [[s \in Requests |-> Progress(s)] EXCEPT ![r] = Progress(r)']
      /\ UNCHANGED [c \in Browsers |-> Account(c)]
  BY <1>4, OneMoves
<1>6. CASE Right(r)
  <2>1. proved' = proved \cup {<<b, p>>} /\ Promised!Authentic(entries[p], "right")
    BY <1>1, <1>2, <1>6, SameServer DEF check_authentication, GavePassword, Right, Authentic
  <2>2. CASE End(r)
    <3>1. Progress(r)' = [at |-> "idle"]
      BY <2>2, EndGoto
    <3>2. UNCHANGED [s \in Requests |-> Progress(s)]
      BY <1>3, <1>5, <3>1
    <3>3. Promised!Check(r, b, p)
      <4>1. [s \in Requests |-> Progress(s)][r].at = "idle"
        BY <1>3
      <4>2. UNCHANGED <<entries, [c \in Browsers |-> Account(c)]>>
        BY <1>4, <1>5
      <4>3. QED BY <2>1, <3>2, <4>1, <4>2 DEF Promised!Check
    <3>4. QED BY <3>3 DEF Promised!Next
  <2>3. CASE Goto(r, "look")
    <3>1. req'[r].pc = "look" /\ req'[r].browser = b /\ req'[r].person = p
      <4>1. PICK q : q = [req[r] EXCEPT !.pc = "look"]
        OBVIOUS
      <4>2. q.pc = "look" /\ q.browser = b /\ q.person = p
        BY <1>1, <1>2, <4>1, Fields
      <4>3. req'[r] = q
        BY <2>3, <4>1 DEF Goto, LoginInv, TypeOK
      <4>4. QED BY <4>2, <4>3
    <3>2. Progress(r)' = [at |-> "signing in", browser |-> b, person |-> p]
      BY <3>1 DEF Progress, SigningIn
    <3>3. Promised!Check(r, b, p)
      <4>1. [s \in Requests |-> Progress(s)][r].at = "idle"
        BY <1>3
      <4>2. UNCHANGED <<entries, [c \in Browsers |-> Account(c)]>>
        BY <1>4, <1>5
      <4>3. QED BY <1>5, <2>1, <3>2, <4>1, <4>2 DEF Promised!Check, Promised!Becomes
    <3>4. QED BY <3>3 DEF Promised!Next
  <2>4. QED BY <1>4, <2>2, <2>3
<1>7. CASE ~Right(r)
  <2>1. End(r) /\ proved' = proved
    BY <1>4, <1>7 DEF check_authentication, GavePassword
  <2>2. QED BY <1>4, <2>1, DropsOne, EndGoto
<1>8. QED BY <1>6, <1>7

\* The row of the person is found, or missing, or inserted.
LEMMA LookAddImplement ==
    ASSUME LoginInv, NEW r \in Requests, get_user_by_dn(r) \/ add_user(r)
    PROVE  Promised!Next
<1>1. req[r] \in RequestType /\ req[r].pc \in {"look", "add"} /\ req \in [Requests -> RequestType]
  BY DEF LoginInv, TypeOK, get_user_by_dn, add_user, At
<1>2. PICK b \in Browsers, p \in People : b = req[r].browser /\ p = req[r].person
  BY <1>1, Fields
<1>3. Progress(r) = SigningIn(b, p)
  BY <1>1, <1>2, ProgressOf
<1>4. UNCHANGED <<entries, users, session, proved>>
  BY DEF get_user_by_dn, add_user
<1>5. CASE get_user_by_dn(r)
  <2>1. CASE Goto(r, "add")
    <3>1. req'[r].pc = "add" /\ req'[r].browser = b /\ req'[r].person = p
      <4>1. PICK q : q = [req[r] EXCEPT !.pc = "add"]
        OBVIOUS
      <4>2. q.pc = "add" /\ q.browser = b /\ q.person = p
        BY <1>1, <1>2, <4>1, Fields
      <4>3. req'[r] = q
        BY <2>1, <4>1 DEF Goto, LoginInv, TypeOK
      <4>4. QED BY <4>2, <4>3
    <3>2. Progress(r)' = SigningIn(b, p)
      BY <3>1 DEF Progress, SigningIn
    <3>3. QED BY <1>3, <1>4, <2>1, <3>2, EndGoto, DropsOne
  <2>2. ASSUME NEW u \in get_users_by_dn(p),
               req' = [req EXCEPT ![r] = [pc |-> "login", browser |-> b, user |-> u]]
        PROVE  Promised!Next
    <3>1. users[u] = p /\ users[u] # Null
      BY <1>2, NullIsNobody DEF get_users_by_dn
    <3>2. req'[r] = [pc |-> "login", browser |-> b, user |-> u]
          /\ \A s \in Requests : s # r => req'[s] = req[s]
      BY <1>1, <2>2
    <3>3. users'[u] = p /\ users'[u] # Null
      BY <1>4, <3>1
    <3>4. req'[r].pc = "login" /\ req'[r].browser = b /\ req'[r].user = u
      BY <3>2
    <3>5. Progress(r)' = SigningIn(b, p)
      BY <3>3, <3>4 DEF Progress, SigningIn
    <3>6. QED BY <1>3, <1>4, <3>2, <3>5, DropsOne
  <2>3. QED BY <1>2, <1>5, <2>1, <2>2 DEF get_user_by_dn
<1>6. CASE add_user(r)
  <2>1. CASE End(r)
    BY <1>4, <2>1, EndGoto, DropsOne
  <2>2. CASE Insert(r, next_id)
    <3>1. /\ req'[r].pc = "commit" /\ req'[r].browser = b /\ req'[r].person = p
          /\ \A s \in Requests : s # r => req'[s] = req[s]
      BY <1>1, <1>2, <2>2 DEF Insert
    <3>2. Progress(r)' = SigningIn(b, p)
      BY <3>1 DEF Progress, SigningIn
    <3>3. QED BY <1>3, <1>4, <3>1, <3>2, DropsOne
  <2>3. QED BY <1>6, <2>1, <2>2 DEF add_user
<1>7. QED BY <1>5, <1>6

\* The commit: the id is new, so nobody's session and nobody's login meets it.
LEMMA CommitImplements ==
    ASSUME LoginInv, NEW r \in Requests, commit(r) \/ commit_fail(r)
    PROVE  Promised!Next
<1>1. /\ req[r] \in RequestType /\ req[r].pc = "commit" /\ At(r, "commit") /\ Committed(r)
      /\ UNCHANGED <<entries, session, proved>>
  BY DEF LoginInv, TypeOK, commit, commit_fail, At
<1>2. PICK b, p, u : /\ b = req[r].browser /\ b \in Browsers
                     /\ p = req[r].person /\ p \in People
                     /\ u = req[r].user /\ u \in Ids
  BY <1>1, Fields
<1>3. u \notin born /\ \A v \in Ids : v # u => users'[v] = users[v]
  BY <1>1, <1>2 DEF LoginInv, InsertInv, TypeOK, Committed
<1>4. users'[u] = p /\ p # Null
  BY <1>1, <1>2, NullIsNobody DEF LoginInv, InsertInv, TypeOK, Committed
<1>5. ASSUME NEW c \in Browsers PROVE Account(c)' = Account(c)
  <2>1. CASE session[c] = Null
    BY <1>1, <2>1 DEF Account
  <2>2. CASE session[c] # Null
    <3>1. session[c] \in Ids /\ session[c] # u
      BY <1>3, <2>2 DEF LoginInv, TypeOK, StandsFor
    <3>2. users'[session[c]] = users[session[c]]
      BY <1>3, <3>1
    <3>3. QED BY <1>1, <3>2 DEF Account
  <2>3. QED BY <2>1, <2>2
<1>6. ASSUME NEW s \in Requests, s # r PROVE Progress(s)' = Progress(s)
  <2>1. req'[s] = req[s] /\ req[s] \in RequestType /\ Proven(req[s])
    BY <1>6 DEF commit, commit_fail, End, LoginInv, TypeOK
  <2>2. req[s].pc = "login" => req[s].user \in Ids /\ req[s].user # u
    BY <1>3, <2>1, Fields DEF Proven, StandsFor
  <2>3. req[s].pc = "login" => users'[req[s].user] = users[req[s].user]
    BY <1>3, <2>2
  <2>4. QED BY <2>1, <2>3 DEF Progress
<1>7. Progress(r) = SigningIn(b, p)
  BY <1>1, <1>2, ProgressOf
<1>8. Progress(r)' = SigningIn(b, p) \/ Progress(r)' = [at |-> "idle"]
  <2>1. CASE commit(r)
    <3>1. req'[r].pc = "login" /\ req'[r].browser = b /\ req'[r].user = u
      BY <1>2, <2>1 DEF commit, LoginInv, TypeOK
    <3>2. QED BY <1>4, <3>1 DEF Progress, SigningIn
  <2>2. CASE commit_fail(r)
    BY <2>2, EndGoto DEF commit_fail
  <2>3. QED BY <2>1, <2>2
<1>9. QED BY <1>1, <1>5, <1>6, <1>7, <1>8, Drops

\* The session is set.  When the row has been removed meanwhile, the browser's
\* former account ends and nobody is logged in.
LEMMA LoginImplements ==
    ASSUME LoginInv, NEW r \in Requests, login(r)
    PROVE  Promised!Next
<1>1. /\ req[r] \in RequestType /\ req[r].pc = "login"
      /\ UNCHANGED <<entries, users, proved>> /\ End(r)
  BY DEF LoginInv, TypeOK, login, At
<1>2. PICK b \in Browsers, u \in Ids : b = req[r].browser /\ u = req[r].user
  BY <1>1, Fields
<1>3. /\ Progress(r)' = [at |-> "idle"]
      /\ \A s \in Requests : s # r => req'[s] = req[s]
  BY <1>1, EndGoto
<1>4. \A c \in Browsers : session'[c] = IF c = b THEN u ELSE session[c]
  BY <1>2 DEF login, LoginInv, TypeOK
<1>5. u # Null
  BY <1>2, LoginAssumption DEF Ids
<1>6. \A c \in Browsers : Account(c)' = IF c = b THEN users[u] ELSE Account(c)
  BY <1>1, <1>4, <1>5 DEF Account
<1>7. CASE users[u] = Null
  <2>1. \A s \in Requests : s # r => Progress(s)' = Progress(s)
    BY <1>1, <1>3 DEF Progress
  <2>2. QED BY <1>1, <1>3, <1>6, <1>7, <2>1, Drops
<1>8. CASE users[u] # Null
  <2>1. Progress(r) = [at |-> "signing in", browser |-> b, person |-> users[u]]
    BY <1>1, <1>2, <1>8, ProgressOf DEF SigningIn
  <2>2. [s \in Requests |-> Progress(s)]' =
           [[s \in Requests |-> Progress(s)] EXCEPT ![r] = [at |-> "idle"]]
    BY <1>1, <1>3, OneMoves
  <2>3. [c \in Browsers |-> Account(c)]' =
           [[c \in Browsers |-> Account(c)] EXCEPT ![b] = users[u]]
    BY <1>6
  <2>4. [s \in Requests |-> Progress(s)][r] =
           [at |-> "signing in", browser |-> b, person |-> users[u]]
    BY <2>1
  <2>5. UNCHANGED <<entries, proved>>
    BY <1>1
  <2>6. Promised!SignIn(r)
    <3>1. PICK p : p = users[u]
      OBVIOUS
    <3>2. PICK q : q = [at |-> "signing in", browser |-> b, person |-> p]
      OBVIOUS
    <3>3. q.at = "signing in" /\ q.browser = b /\ q.person = p
      BY <3>2
    <3>4. q = [s \in Requests |-> Progress(s)][r]
      BY <2>4, <3>1, <3>2
    <3>5. [c \in Browsers |-> Account(c)]' =
             [[c \in Browsers |-> Account(c)] EXCEPT ![q.browser] = q.person]
      BY <2>3, <3>1, <3>3
    <3>6. QED BY <2>2, <2>5, <3>3, <3>5, <3>4
          DEF Promised!SignIn, Promised!Becomes, Promised!Idle
  <2>7. QED BY <2>6 DEF Promised!Next
<1>9. QED BY <1>7, <1>8

\* get_user reads whose session it is.
LEMMA GetUserImplements ==
    ASSUME LoginInv, NEW r \in Requests,
           \/ \E b \in Browsers, page \in {"hosts", "logout"} : visit(r, b, page)
           \/ get_user(r)
    PROVE  Promised!Next
<1>1. UNCHANGED <<entries, users, session, proved>>
  BY DEF visit, get_user
<1>2. CASE \E b \in Browsers, page \in {"hosts", "logout"} : visit(r, b, page)
  <2>1. PICK b \in Browsers, page \in {"hosts", "logout"} : visit(r, b, page)
    BY <1>2
  <2>2. /\ req'[r].pc = "load" /\ req'[r].browser = b
        /\ \A s \in Requests : s # r => req'[s] = req[s]
    BY <2>1 DEF visit, LoginInv, TypeOK
  <2>3. Progress(r)' = [at |-> "asking", browser |-> b]
    BY <2>2 DEF Progress
  <2>4. /\ [s \in Requests |-> Progress(s)]' =
              [[s \in Requests |-> Progress(s)] EXCEPT ![r] = Progress(r)']
        /\ UNCHANGED [c \in Browsers |-> Account(c)]
    BY <1>1, <2>2, OneMoves
  <2>5. UNCHANGED <<entries, proved, [c \in Browsers |-> Account(c)]>>
    BY <1>1, <2>4
  <2>6. Promised!Visit(r, b)
    BY <2>3, <2>4, <2>5 DEF Promised!Visit, Promised!Becomes
  <2>7. QED BY <2>6 DEF Promised!Next
<1>3. CASE get_user(r)
  <2>1. req[r] \in RequestType /\ req[r].pc = "load" /\ req \in [Requests -> RequestType]
    BY <1>3 DEF LoginInv, TypeOK, get_user, At
  <2>2. PICK b \in Browsers : b = req[r].browser
    BY <2>1, Fields
  <2>3. CASE End(r)
    BY <1>1, <2>3, EndGoto, DropsOne
  <2>4. CASE ~End(r)
    <3>1. PICK p, page, known :
            /\ session[b] # Null /\ p = users[session[b]] /\ p # Null
            /\ req' = [req EXCEPT ![r] = [pc |-> "info", browser |-> b, page |-> page,
                                          person |-> p, known |-> known]]
      BY <1>3, <2>2, <2>4 DEF get_user
    <3>2. /\ req'[r].pc = "info" /\ req'[r].person = p
          /\ \A s \in Requests : s # r => req'[s] = req[s]
      BY <2>1, <3>1
    <3>3. Progress(r)' = [at |-> "as", person |-> p]
      BY <3>2 DEF Progress
    <3>4. /\ [s \in Requests |-> Progress(s)]' =
                [[s \in Requests |-> Progress(s)] EXCEPT ![r] = [at |-> "as", person |-> p]]
          /\ UNCHANGED [c \in Browsers |-> Account(c)]
      BY <1>1, <3>2, <3>3, OneMoves
    <3>5. UNCHANGED <<entries, proved, [c \in Browsers |-> Account(c)]>>
      BY <1>1, <3>4
    <3>6. PICK q : q = [s \in Requests |-> Progress(s)][r]
      OBVIOUS
    <3>7. q.at = "asking" /\ q.browser = b
      BY <2>1, <2>2, <3>6, ProgressOf
    <3>8. PICK a : a = [c \in Browsers |-> Account(c)][q.browser]
      OBVIOUS
    <3>9. a = p
      BY <3>1, <3>7, <3>8 DEF Account
    <3>10. Promised!Read(r)
      BY <3>1, <3>4, <3>5, <3>6, <3>7, <3>8, <3>9 DEF Promised!Read, Promised!Becomes
    <3>11. QED BY <3>10 DEF Promised!Next
  <2>5. QED BY <2>3, <2>4
<1>4. QED BY <1>2, <1>3

\* get_user asks the AD about that person; auth_middleware hands the page on.
LEMMA ServeImplements ==
    ASSUME LoginInv, NEW r \in Requests, get_user_info(r) \/ serve(r)
    PROVE  Promised!Next
<1>1. /\ req[r] \in RequestType /\ req[r].pc \in {"info", "handle"}
      /\ req \in [Requests -> RequestType]
      /\ UNCHANGED <<entries, users, session, proved>>
  BY DEF LoginInv, TypeOK, get_user_info, serve, At
<1>2. PICK p \in People : p = req[r].person
  BY <1>1, Fields
<1>3. CASE End(r)
  BY <1>1, <1>3, EndGoto, DropsOne
<1>4. ASSUME NEW pc, NEW at, Goto(r, pc),
             \/ pc = "handle" /\ at = "vouched"
             \/ pc = "served" /\ at = "served"
      PROVE  /\ [s \in Requests |-> Progress(s)]' =
                   [[s \in Requests |-> Progress(s)] EXCEPT ![r] = [at |-> at, person |-> p]]
             /\ UNCHANGED <<entries, proved, [c \in Browsers |-> Account(c)]>>
  <2>1. PICK q : q = [req[r] EXCEPT !.pc = pc]
    OBVIOUS
  <2>2. q.pc = pc /\ q.person = p
    BY <1>1, <1>2, <2>1, Fields
  <2>3. req'[r] = q /\ \A s \in Requests : s # r => req'[s] = req[s]
    BY <1>1, <1>4, <2>1 DEF Goto
  <2>4. req'[r].pc = pc /\ req'[r].person = p
    BY <2>2, <2>3
  <2>5. Progress(r)' = [at |-> at, person |-> p]
    BY <1>4, <2>4 DEF Progress
  <2>6. QED BY <1>1, <2>3, <2>5, OneMoves
<1>5. PICK q : q = [s \in Requests |-> Progress(s)][r]
  OBVIOUS
<1>6. CASE Info(entries[p]) = "some" /\ Goto(r, "handle") /\ req[r].pc = "info"
  <2>1. q = [at |-> "as", person |-> p]
    BY <1>2, <1>5, <1>6, ProgressOf
  <2>2. [q EXCEPT !.at = "vouched"] = [at |-> "vouched", person |-> p] /\ q.person = p
    BY <2>1
  <2>3. Promised!Info(entries[q.person]) = "some"
    BY <1>6, <2>2, SameServer
  <2>4. [s \in Requests |-> Progress(s)]' =
            [[s \in Requests |-> Progress(s)] EXCEPT ![r] = [q EXCEPT !.at = "vouched"]]
        /\ UNCHANGED <<entries, proved, [c \in Browsers |-> Account(c)]>>
    BY <1>4, <1>6, <2>2
  <2>5. Promised!Vouch(r)
    BY <1>5, <2>1, <2>3, <2>4 DEF Promised!Vouch, Promised!Becomes
  <2>6. QED BY <2>5 DEF Promised!Next
<1>7. CASE Goto(r, "served") /\ req[r].pc = "handle"
  <2>1. q = [at |-> "vouched", person |-> p]
    BY <1>2, <1>5, <1>7, ProgressOf
  <2>2. [q EXCEPT !.at = "served"] = [at |-> "served", person |-> p]
    BY <2>1
  <2>3. [s \in Requests |-> Progress(s)]' =
            [[s \in Requests |-> Progress(s)] EXCEPT ![r] = [q EXCEPT !.at = "served"]]
        /\ UNCHANGED <<entries, proved, [c \in Browsers |-> Account(c)]>>
    BY <1>4, <1>7, <2>2
  <2>4. Promised!Serve(r)
    BY <1>5, <2>1, <2>3 DEF Promised!Serve, Promised!Becomes
  <2>5. QED BY <2>4 DEF Promised!Next
<1>8. QED BY <1>2, <1>3, <1>6, <1>7 DEF get_user_info, serve, At

\* Sessions are cleared, rows removed and requests dropped: no account passes to
\* anybody else.
LEMMA EndingImplements ==
    ASSUME LoginInv,
           \/ \E r \in Requests : logout(r) \/ fail(r)
           \/ Restart
           \/ \E b \in Browsers : Expire(b)
           \/ \E u \in Ids : RemoveUser(u)
    PROVE  Promised!Next
<1>1. UNCHANGED <<entries, proved>>
  BY DEF logout, fail, Restart, Expire, RemoveUser
<1>2. \A u \in Ids : users'[u] = users[u] \/ users'[u] = Null
  BY DEF logout, fail, Restart, Expire, RemoveUser, LoginInv, TypeOK
<1>3. \A b \in Browsers : session'[b] = session[b] \/ session'[b] = Null
  BY DEF logout, fail, Restart, Expire, RemoveUser, LoginInv, TypeOK
<1>4. \A r \in Requests : req'[r] = req[r] \/ req'[r] = Idle
  BY DEF logout, fail, End, Restart, Expire, RemoveUser, LoginInv, TypeOK
<1>5. ASSUME NEW b \in Browsers PROVE Account(b)' = Account(b) \/ Account(b)' = Null
  <2>1. session[b] # Null => session[b] \in Ids
    BY DEF LoginInv, TypeOK
  <2>2. QED BY <1>2, <1>3, <2>1 DEF Account
<1>6. ASSUME NEW r \in Requests
      PROVE  Progress(r)' = Progress(r) \/ Progress(r)' = [at |-> "idle"]
  <2>1. req[r] \in RequestType
    BY DEF LoginInv, TypeOK
  <2>2. CASE req'[r] = req[r]
    <3>1. req[r].pc = "login" => req[r].user \in Ids
      BY <2>1, Fields
    <3>2. QED BY <1>2, <2>2, <3>1 DEF Progress
  <2>3. CASE req'[r] = Idle
    <3>1. req'[r].pc = "idle"
      BY <2>3, IdleIsFine
    <3>2. QED BY <3>1 DEF Progress
  <2>4. QED BY <1>4, <2>2, <2>3
<1>7. QED BY <1>1, <1>5, <1>6, Drops

\* The AD is edited: a request's history of it is not part of its progress.
LEMMA EditImplements ==
    ASSUME LoginInv, NEW p \in People, Edit(p)
    PROVE  Promised!Next
<1>1. PICK e \in Edits :
        /\ entries' = [entries EXCEPT ![p] = e]
        /\ req' = IF Info(e) = "some" THEN [r \in Requests |-> Informed(req[r], p)]
                                      ELSE req
  BY DEF Edit
<1>2. entries' \in [People -> Promised!Entry]
  BY <1>1, SameServer, LoginAssumption DEF LoginInv, TypeOK
<1>3. ASSUME NEW r \in Requests PROVE Progress(r)' = Progress(r)
  <2>1. req[r] \in RequestType /\ UNCHANGED users
    BY DEF LoginInv, TypeOK, Edit
  <2>2. CASE req'[r] = req[r]
    BY <2>1, <2>2 DEF Progress
  <2>3. CASE req'[r] # req[r]
    <3>1. req[r].pc \in {"info", "handle"} /\ req'[r] = [req[r] EXCEPT !.known = TRUE]
      BY <1>1, <2>3 DEF Informed
    <3>2. req'[r].pc = req[r].pc /\ req'[r].person = req[r].person
      BY <2>1, <3>1, Fields
    <3>3. QED BY <3>1, <3>2 DEF Progress
  <2>4. QED BY <2>2, <2>3
<1>4. \A b \in Browsers : Account(b)' = Account(b)
  BY DEF Edit, Account
<1>5. UNCHANGED <<proved, [b \in Browsers |-> Account(b)], [r \in Requests |-> Progress(r)]>>
  BY <1>3, <1>4 DEF Edit
<1>6. Promised!Edit
  BY <1>2, <1>5 DEF Promised!Edit
<1>7. QED BY <1>6 DEF Promised!Next

\* authenticate, login, auth_middleware and all that ends a session do what
\* Sessions promises: Login!SessionsSpec.
THEOREM Implements == Spec => SessionsSpec
<1>1. Init => Promised!Init
  <2> SUFFICES ASSUME Init PROVE Promised!Init
    OBVIOUS
  <2>1. \A b \in Browsers : Account(b) = Null
    BY DEF Init, Account
  <2>2. \A r \in Requests : Progress(r) = [at |-> "idle"]
    <3>1. \A r \in Requests : req[r].pc = "idle"
      BY DEF Init, Idle
    <3>2. QED BY <3>1, ProgressOf
  <2>3. entries \in [People -> Promised!Entry] /\ proved = {}
    BY SameServer DEF Init, Entry
  <2>4. QED BY <2>1, <2>2, <2>3 DEF Promised!Init, Promised!Idle
<1>2. LoginInv /\ [Next]_vars =>
         [Promised!Next]_<<entries, proved, [b \in Browsers |-> Account(b)],
                           [r \in Requests |-> Progress(r)]>>
  <2> SUFFICES ASSUME LoginInv, [Next]_vars
               PROVE  Promised!Next
    OBVIOUS
  <2>1. CASE UNCHANGED vars
    <3>1. \A b \in Browsers : Account(b)' = Account(b)
      BY <2>1 DEF vars, Account
    <3>2. \A r \in Requests : Progress(r)' = Progress(r)
      BY <2>1 DEF vars, Progress
    <3>3. QED BY <2>1, <3>1, <3>2, Drops DEF vars
  <2>2. ASSUME NEW r \in Requests, Arrive(r) \/ Handle(r) \/ fail(r) \/ commit_fail(r)
        PROVE  Promised!Next
    BY <2>2, SubmitImplements, CheckImplements, LookAddImplement, CommitImplements,
       LoginImplements, GetUserImplements, ServeImplements, EndingImplements
    DEF Arrive, Handle
  <2>3. QED BY <2>1, <2>2, EndingImplements, EditImplements DEF Next
<1>3. QED BY <1>1, <1>2, LoginInvariant, PTL DEF Spec, SessionsSpec, Promised!Spec

=============================================================================
