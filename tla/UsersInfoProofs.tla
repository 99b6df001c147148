--------------------------- MODULE UsersInfoProofs ---------------------------
(***************************************************************************)
(* Theorems about UsersInfo, for every number of people, calls and         *)
(* connections, every question, and any number of outages, broken          *)
(* connections and refused logins.                                         *)
(***************************************************************************)
EXTENDS UsersInfo, TLAPS

-----------------------------------------------------------------------------
(***************************************************************************)
(* The inductive invariant: which connection is whose.                     *)
(***************************************************************************)
KeeperOf(question) ==
    IF question.op = "check_authentication" THEN "ldap" ELSE "authorized_ldap"

\* Call r uses a handle of keeper k to connection c.
Serves(r, k, c) ==
    /\ req[r].state = "using"
    /\ KeeperOf(req[r].question) = k
    /\ req[r].handle = c

\* Connection c is, or was, the one of keeper k, and somebody has a handle.
Uses(k, c) == state[k] = c \/ keeper[k].conn = c \/ \E r \in Calls : Serves(r, k, c)

\* A handle is published while its keeper drives the connection.
PublishedInv ==
    \A k \in Keepers :
        /\ state[k] # Null => state[k] = keeper[k].conn /\ keeper[k].pc \in {"drive", "clear"}
        /\ keeper[k].pc \in {"bind", "publish"} => keeper[k].conn # Null
        /\ keeper[k].pc \in {"connect", "sleep"} => keeper[k].conn = Null

\* The two keepers never have the same connection.
ApartInv ==
    \A c \in Connections : ~(Uses("ldap", c) /\ Uses("authorized_ldap", c))

\* Who searches, or could, goes over a connection that is bound.
BoundInv ==
    \A c \in Connections :
        \/ keeper["authorized_ldap"].conn = c
             /\ keeper["authorized_ldap"].pc \in {"publish", "drive", "clear"}
        \/ state["authorized_ldap"] = c
        \/ \E r \in Calls : Serves(r, "authorized_ldap", c)
        => conn[c].bound = Service

\* An empty password never gets to the AD, and nobody is told "ok" who has not
\* given the right one.
PasswordInv ==
    \A r \in Calls :
        /\ req[r].state = "using" => ~BlankPassword(req[r].question)
        /\ req[r].state = "answered" /\ req[r].answer = "ok" =>
              req[r].question.password = "right"

LdapInv == TypeOK /\ PublishedInv /\ ApartInv /\ BoundInv /\ PasswordInv

-----------------------------------------------------------------------------
(***************************************************************************)
(* Steps of the keepers.                                                   *)
(***************************************************************************)
Pcs == {"connect", "bind", "publish", "drive", "clear", "sleep", "ended"}

KeeperType == [pc : Pcs, conn : Handles]

ConnType == [open : BOOLEAN, bound : People \cup {Service, Nobody}]

CallType ==
    [state : {"new"}]
      \cup [state : {"asked"}, question : D!Question]
      \cup [state : {"using"}, question : D!Question, handle : Connections]
      \cup [state : {"answered"}, question : D!Question, answer : D!Answer]

\* The type invariant, one variable at a time.
LEMMA Types ==
    ASSUME LdapInv
    PROVE  /\ entries \in [People -> D!Entry]
           /\ reachable \in BOOLEAN
           /\ running \in BOOLEAN
           /\ conn \in [Connections -> ConnType]
           /\ state \in [Keepers -> Handles]
           /\ keeper \in [Keepers -> KeeperType]
           /\ req \in [Calls -> CallType]
           /\ troubles \in 0..MaxTroubles
BY DEF LdapInv, TypeOK, ConnType, KeeperType, CallType, Pcs

\* A step of one keeper on the connection it has, or without one.
LEMMA KeeperStep ==
    ASSUME LdapInv, NEW k \in Keepers, NEW w \in KeeperType, NEW s \in Handles,
           keeper' = [keeper EXCEPT ![k] = w], state' = [state EXCEPT ![k] = s],
           UNCHANGED <<entries, reachable, conn, req>>, running' \in BOOLEAN,
           troubles' \in 0..MaxTroubles,
           w.conn \in {keeper[k].conn, Null},
           s # Null => s = w.conn /\ w.pc \in {"drive", "clear"},
           w.pc \in {"bind", "publish"} => w.conn # Null,
           w.pc \in {"connect", "sleep"} => w.conn = Null,
           w.pc \in {"publish", "drive", "clear"} /\ w.conn # Null =>
              keeper[k].pc \in {"publish", "drive", "clear"}
    PROVE  LdapInv'
<1>1. /\ state' \in [Keepers -> Handles] /\ keeper' \in [Keepers -> KeeperType]
      /\ \A j \in Keepers : /\ keeper'[j] = IF j = k THEN w ELSE keeper[j]
                            /\ state'[j] = IF j = k THEN s ELSE state[j]
  BY Types
<1>2. TypeOK'
  BY <1>1 DEF LdapInv, TypeOK, KeeperType, Pcs
<1>3. PublishedInv'
  BY <1>1 DEF LdapInv, PublishedInv
<1>4. \A c \in Connections : c # Null
  BY UsersInfoAssumption
<1>5. ApartInv'
  <2>1. \A j \in Keepers, c \in Connections : Uses(j, c)' => Uses(j, c)
    BY <1>1, <1>4 DEF Uses, Serves
  <2>2. QED BY <2>1 DEF LdapInv, ApartInv, Keepers
<1>6. BoundInv'
  <2>1. ASSUME NEW c \in Connections,
               \/ keeper'["authorized_ldap"].conn = c
                    /\ keeper'["authorized_ldap"].pc \in {"publish", "drive", "clear"}
               \/ state'["authorized_ldap"] = c
        PROVE  conn[c].bound = Service
    BY <1>1, <1>4, <2>1 DEF LdapInv, BoundInv, Keepers
  <2>2. \A r \in Calls, c \in Connections :
          Serves(r, "authorized_ldap", c)' => conn[c].bound = Service
    BY DEF LdapInv, BoundInv, Serves
  <2>3. QED BY <2>1, <2>2 DEF BoundInv
<1>7. PasswordInv'
  BY DEF LdapInv, PasswordInv
<1>8. QED BY <1>2, <1>3, <1>5, <1>6, <1>7 DEF LdapInv

\* The keeper goes on with the connection it has.
LEMMA KeeperGoes ==
    ASSUME LdapInv, NEW k \in Keepers, NEW pc \in Pcs, Goto(k, pc),
           UNCHANGED <<entries, reachable, conn, state, req>>, running' \in BOOLEAN,
           troubles' \in 0..MaxTroubles,
           state[k] # Null => pc \in {"drive", "clear"},
           pc \notin {"bind", "publish"},
           pc \in {"connect", "sleep"} => keeper[k].conn = Null,
           pc \in {"drive", "clear"} /\ keeper[k].conn # Null =>
              keeper[k].pc \in {"publish", "drive", "clear"}
    PROVE  LdapInv'
<1>1. PICK w : w = [keeper[k] EXCEPT !.pc = pc]
  OBVIOUS
<1>2. keeper[k] \in KeeperType /\ state \in [Keepers -> Handles] /\ state[k] \in Handles
  BY Types
<1>3. w \in KeeperType /\ w.pc = pc /\ w.conn = keeper[k].conn
  BY <1>1, <1>2 DEF KeeperType
<1>4. keeper' = [keeper EXCEPT ![k] = w]
  BY <1>1 DEF Goto, LdapInv, TypeOK
<1>5. state' = [state EXCEPT ![k] = state[k]]
  BY <1>2
<1>6. state[k] # Null => state[k] = w.conn
  BY <1>3 DEF LdapInv, PublishedInv
<1>7. QED BY <1>2, <1>3, <1>4, <1>5, <1>6, KeeperStep

\* The steps of the two keepers that bind nothing.
LEMMA KeeperKeeps ==
    ASSUME LdapInv, NEW k \in Keepers,
           \/ connect_fail(k) \/ publish(k) \/ drive_end(k) \/ clear(k) \/ wake(k)
    PROVE  LdapInv'
<1>1. /\ keeper[k] \in KeeperType /\ state[k] \in Handles /\ running \in BOOLEAN
      /\ keeper \in [Keepers -> KeeperType] /\ state \in [Keepers -> Handles]
      /\ troubles \in 0..MaxTroubles
  BY Types
<1>2. /\ state[k] # Null => state[k] = keeper[k].conn /\ keeper[k].pc \in {"drive", "clear"}
      /\ keeper[k].pc \in {"bind", "publish"} => keeper[k].conn # Null
      /\ keeper[k].pc \in {"connect", "sleep"} => keeper[k].conn = Null
  BY DEF LdapInv, PublishedInv
<1>3. CASE connect_fail(k)
  <2>1. troubles' \in 0..MaxTroubles
    BY <1>1, <1>3, UsersInfoAssumption DEF connect_fail, Trouble
  <2>2. QED BY <1>1, <1>2, <1>3, <2>1, KeeperGoes DEF connect_fail, At, Pcs
<1>4. CASE publish(k)
  <2>1. PICK w : w = [keeper[k] EXCEPT !.pc = "drive"]
    OBVIOUS
  <2>2. w \in KeeperType /\ w.pc = "drive" /\ w.conn = keeper[k].conn
        /\ keeper[k].conn \in Handles
    BY <1>1, <2>1 DEF KeeperType, Pcs
  <2>3. keeper' = [keeper EXCEPT ![k] = w]
    BY <1>1, <1>4, <2>1 DEF publish, Goto
  <2>4. QED BY <1>1, <1>4, <2>2, <2>3, KeeperStep DEF publish, At
<1>5. CASE drive_end(k)
  BY <1>1, <1>2, <1>5, KeeperGoes DEF drive_end, At, Pcs
<1>6. CASE clear(k)
  <2>1. PICK w : w = [pc |-> "sleep", conn |-> Null]
    OBVIOUS
  <2>2. w \in KeeperType /\ w.pc = "sleep" /\ w.conn = Null /\ Null \in Handles
    BY <2>1 DEF KeeperType, Pcs, Handles
  <2>3. QED BY <1>1, <1>6, <2>1, <2>2, KeeperStep DEF clear
<1>7. CASE wake(k)
  BY <1>1, <1>2, <1>7, KeeperGoes DEF wake, At, Pcs
<1>8. QED BY <1>3, <1>4, <1>5, <1>6, <1>7

\* A bind that fails ends the keeper and with it work().
LEMMA BindFailKeeps ==
    ASSUME LdapInv, bind_fail
    PROVE  LdapInv'
<1>1. "authorized_ldap" \in Keepers /\ troubles' \in 0..MaxTroubles
  BY UsersInfoAssumption, Types DEF bind_fail, Trouble, Keepers
<1>2. state["authorized_ldap"] = Null
  BY <1>1 DEF LdapInv, PublishedInv, bind_fail, At
<1>3. QED BY <1>1, <1>2, KeeperGoes DEF bind_fail, Pcs

\* A new connection, which nobody uses yet.
LEMMA ConnectKeeps ==
    ASSUME LdapInv, NEW k \in Keepers, connect(k)
    PROVE  LdapInv'
<1> DEFINE New(c) == [pc |-> IF k = "authorized_ldap" THEN "bind" ELSE "publish",
                       conn |-> c]
<1>0. PICK c \in Connections :
        /\ Fresh(c)
        /\ conn' = [conn EXCEPT ![c] = [open |-> TRUE, bound |-> Nobody]]
        /\ keeper' = [keeper EXCEPT ![k] = New(c)]
  BY DEF connect
<1>1. PICK w :
        /\ Fresh(c)
        /\ conn' = [conn EXCEPT ![c] = [open |-> TRUE, bound |-> Nobody]]
        /\ w = New(c)
        /\ keeper' = [keeper EXCEPT ![k] = w]
  BY <1>0
<1>2. UNCHANGED <<entries, reachable, state, running, req, troubles>>
  BY DEF connect
<1>3. w \in KeeperType
  BY <1>1 DEF KeeperType, Pcs, Handles
<1>4. /\ conn' \in [Connections -> ConnType] /\ keeper' \in [Keepers -> KeeperType]
      /\ \A d \in Connections : d # c => conn'[d] = conn[d]
      /\ \A j \in Keepers : keeper'[j] = IF j = k THEN w ELSE keeper[j]
  BY <1>1, <1>3, Types DEF ConnType
<1>5. TypeOK'
  BY <1>2, <1>4 DEF LdapInv, TypeOK, ConnType, KeeperType, Pcs
<1>6. \A j \in Keepers : ~Uses(j, c)
  BY <1>1 DEF Fresh, Uses, Serves
<1>7. c # Null
  BY UsersInfoAssumption
<1>8. state[k] = Null
  BY DEF connect, At, LdapInv, PublishedInv
<1>9. PublishedInv'
  BY <1>1, <1>2, <1>4, <1>7, <1>8 DEF LdapInv, PublishedInv
<1>10. ApartInv'
  <2>1. \A j \in Keepers, d \in Connections :
          Uses(j, d)' => Uses(j, d) \/ (j = k /\ d = c)
    BY <1>1, <1>2, <1>4 DEF Uses, Serves
  <2>2. QED BY <1>6, <2>1 DEF LdapInv, ApartInv, Keepers
<1>11. BoundInv'
  <2>1. ASSUME NEW d \in Connections,
               \/ keeper'["authorized_ldap"].conn = d
                    /\ keeper'["authorized_ldap"].pc \in {"publish", "drive", "clear"}
               \/ state'["authorized_ldap"] = d
               \/ \E r \in Calls : Serves(r, "authorized_ldap", d)'
        PROVE  conn'[d].bound = Service
    <3>1. \/ keeper["authorized_ldap"].conn = d
               /\ keeper["authorized_ldap"].pc \in {"publish", "drive", "clear"}
          \/ state["authorized_ldap"] = d
          \/ \E r \in Calls : Serves(r, "authorized_ldap", d)
      BY <1>1, <1>2, <1>4, <2>1 DEF Serves, Keepers
    <3>2. d # c
      BY <1>6, <3>1 DEF Uses, Keepers
    <3>3. QED BY <1>4, <3>1, <3>2 DEF LdapInv, BoundInv
  <2>2. QED BY <2>1 DEF BoundInv
<1>12. PasswordInv'
  BY <1>2 DEF LdapInv, PasswordInv
<1>13. QED BY <1>5, <1>9, <1>10, <1>11, <1>12 DEF LdapInv

\* The connection for searches is bound before it is published.
LEMMA BindKeeps ==
    ASSUME LdapInv, bind
    PROVE  LdapInv'
<1>1. PICK k, c, w :
        /\ k = "authorized_ldap" /\ c = keeper[k].conn
        /\ w = [keeper[k] EXCEPT !.pc = "publish"]
  OBVIOUS
<1>2. k \in Keepers /\ keeper[k].pc = "bind" /\ c # Null /\ c \in Connections
  BY <1>1, Types DEF bind, At, Keepers, LdapInv, PublishedInv, KeeperType, Handles
<1>3. w \in KeeperType /\ w.pc = "publish" /\ w.conn = c
  BY <1>1, <1>2, Types DEF KeeperType, Pcs
<1>4. /\ keeper' \in [Keepers -> KeeperType] /\ conn' \in [Connections -> ConnType]
      /\ \A j \in Keepers : keeper'[j] = IF j = k THEN w ELSE keeper[j]
      /\ \A d \in Connections : conn'[d].bound = IF d = c THEN Service ELSE conn[d].bound
  BY <1>1, <1>2, <1>3, Types DEF bind, Goto, ConnType
<1>5. UNCHANGED <<entries, reachable, state, running, req, troubles>>
  BY DEF bind
<1>6. TypeOK'
  BY <1>4, <1>5 DEF LdapInv, TypeOK, ConnType, KeeperType, Pcs
<1>7. PublishedInv'
  BY <1>2, <1>3, <1>4, <1>5 DEF LdapInv, PublishedInv
<1>8. ApartInv'
  <2>1. \A j \in Keepers, d \in Connections : Uses(j, d)' => Uses(j, d)
    BY <1>1, <1>3, <1>4, <1>5 DEF Uses, Serves
  <2>2. QED BY <2>1 DEF LdapInv, ApartInv, Keepers
<1>9. BoundInv'
  <2>1. ASSUME NEW d \in Connections, d # c,
               \/ keeper'["authorized_ldap"].conn = d
               \/ state'["authorized_ldap"] = d
               \/ \E r \in Calls : Serves(r, "authorized_ldap", d)'
        PROVE  conn'[d].bound = Service
    BY <1>1, <1>3, <1>4, <1>5, <2>1 DEF LdapInv, BoundInv, Serves, Keepers
  <2>2. conn'[c].bound = Service
    BY <1>2, <1>4
  <2>3. QED BY <2>1, <2>2 DEF BoundInv
<1>10. PasswordInv'
  BY <1>5 DEF LdapInv, PasswordInv
<1>11. QED BY <1>6, <1>7, <1>8, <1>9, <1>10 DEF LdapInv

-----------------------------------------------------------------------------
(***************************************************************************)
(* Steps of the calls.                                                     *)
(***************************************************************************)
LEMMA CallFields ==
    ASSUME NEW q \in CallType
    PROVE  /\ q.state = "asked" => q \in [state : {"asked"}, question : D!Question]
           /\ q.state = "using" =>
                 q \in [state : {"using"}, question : D!Question, handle : Connections]
           /\ q.state = "answered" =>
                 q \in [state : {"answered"}, question : D!Question, answer : D!Answer]
BY DEF CallType

\* The call takes the published handle, if any, or is answered.
LEMMA CallStep ==
    ASSUME LdapInv, NEW r \in Calls, NEW q \in CallType, req' = [req EXCEPT ![r] = q],
           UNCHANGED <<entries, reachable, conn, state, keeper, running>>,
           troubles' \in 0..MaxTroubles,
           q.state = "using" =>
              q.handle = state[KeeperOf(q.question)] /\ ~BlankPassword(q.question),
           q.state = "answered" /\ q.answer = "ok" => q.question.password = "right"
    PROVE  LdapInv'
<1>1. /\ req' \in [Calls -> CallType]
      /\ \A s \in Calls : req'[s] = IF s = r THEN q ELSE req[s]
  BY Types
<1>2. TypeOK'
  BY <1>1 DEF LdapInv, TypeOK, CallType
<1>3. PublishedInv'
  BY DEF LdapInv, PublishedInv
<1>4. ASSUME NEW s \in Calls, NEW k \in Keepers, NEW c \in Connections, Serves(s, k, c)'
      PROVE  Serves(s, k, c) \/ state[k] = c
  BY <1>1, <1>4 DEF Serves
<1>5. ApartInv'
  <2>1. \A k \in Keepers, c \in Connections : Uses(k, c)' => Uses(k, c)
    BY <1>4 DEF Uses
  <2>2. QED BY <2>1 DEF LdapInv, ApartInv, Keepers
<1>6. BoundInv'
  BY <1>4 DEF LdapInv, BoundInv, Keepers
<1>7. PasswordInv'
  BY <1>1 DEF LdapInv, PasswordInv
<1>8. QED BY <1>2, <1>3, <1>5, <1>6, <1>7 DEF LdapInv

\* A caller asks a question.
LEMMA AskKeeps ==
    ASSUME LdapInv, NEW r \in Calls, ask(r)
    PROVE  LdapInv'
<1>1. PICK question \in Questions :
        req' = [req EXCEPT ![r] = [state |-> "asked", question |-> question]]
  BY DEF ask
<1>2. PICK q : q = [state |-> "asked", question |-> question]
  OBVIOUS
<1>3. q \in CallType /\ q.state = "asked"
  BY <1>2, UsersInfoAssumption DEF CallType
<1>4. QED BY <1>1, <1>2, <1>3, CallStep, Types DEF ask

\* An answer, of the call alone.
LEMMA AnswerKeeps ==
    ASSUME LdapInv, NEW r \in Calls, req[r].state \in {"asked", "using"},
           NEW a \in D!Answer, a # "ok" \/ req[r].question.password = "right",
           Answer(r, a),
           UNCHANGED <<entries, reachable, conn, state, keeper, running>>,
           troubles' \in 0..MaxTroubles
    PROVE  LdapInv'
<1>1. PICK q : q = [state |-> "answered", answer |-> a, question |-> req[r].question]
  OBVIOUS
<1>2. req[r].question \in D!Question
  BY CallFields, Types
<1>3. q \in CallType /\ q.state = "answered" /\ q.answer = a /\ q.question = req[r].question
  BY <1>1, <1>2 DEF CallType
<1>4. req' = [req EXCEPT ![r] = q]
  BY <1>1 DEF Answer
<1>5. QED BY <1>3, <1>4, CallStep

\* The answers Directory knows.
LEMMA ErrorIsAnswer == "error" \in D!Answer /\ "none" \in D!Answer /\ "ok" \in D!Answer
BY DEF D!Answer

\* A call clones the connection that is published, or finds none.
LEMMA TakeKeeps ==
    ASSUME LdapInv, NEW r \in Calls, take_handle(r)
    PROVE  LdapInv'
<1>1. req[r].state = "asked" /\ req[r] \in CallType /\ troubles \in 0..MaxTroubles
  BY Types DEF take_handle
<1> DEFINE h == HandleOf(req[r].question)
<1>2. PICK question \in D!Question : question = req[r].question
  BY <1>1, CallFields
<1>3. CASE Answer(r, "error")
  BY <1>1, <1>3, AnswerKeeps, ErrorIsAnswer DEF take_handle
<1>4. CASE /\ ~BlankPassword(question) /\ h # Null
           /\ req' = [req EXCEPT ![r] = [state |-> "using", question |-> question,
                                         handle |-> h]]
  <2>1. PICK q : q = [state |-> "using", question |-> question, handle |-> h]
    OBVIOUS
  <2>2. h = state[KeeperOf(question)] /\ KeeperOf(question) \in Keepers
    BY <1>2 DEF HandleOf, KeeperOf, Keepers
  <2>3. h \in Connections
    BY <1>4, <2>2, Types DEF Handles
  <2>4. q \in CallType /\ q.state = "using" /\ q.question = question /\ q.handle = h
    BY <2>1, <2>3 DEF CallType
  <2>5. QED BY <1>1, <1>4, <2>1, <2>2, <2>4, CallStep DEF take_handle
<1>5. QED BY <1>2, <1>3, <1>4 DEF take_handle

\* A search goes over a connection that is bound, so the AD says what it knows.
LEMMA SearchIsTrue ==
    ASSUME LdapInv, NEW r \in Calls, search(r)
    PROVE  /\ req[r].question \in D!Question
           /\ req[r].question.op # "check_authentication"
           /\ SearchResult(r) = {D!Truth(req[r].question, entries[req[r].question.person])}
<1>1. req[r] \in CallType /\ req[r].state = "using"
  BY Types DEF search
<1>2. req[r].question \in D!Question /\ req[r].handle \in Connections
  BY <1>1, CallFields
<1>3. Serves(r, "authorized_ldap", req[r].handle)
  BY <1>1 DEF search, Serves, KeeperOf
<1>4. conn[req[r].handle].bound = Service
  BY <1>2, <1>3 DEF LdapInv, BoundInv
<1>5. QED BY <1>2, <1>4 DEF SearchResult, search

\* A search answers what the AD holds at that time.
LEMMA TruthOfSearch ==
    ASSUME NEW q \in D!Question, q.op # "check_authentication", NEW e
    PROVE  D!Truth(q, e) \in D!Answer \ {"ok"}
<1>1. q.op \in {"get_user_info", "find_user_info"}
  BY DEF D!Question
<1>2. QED BY <1>1 DEF D!Truth, D!Info, D!Find, D!Parsed, D!Answer

\* The AD answers a search.
LEMMA SearchKeeps ==
    ASSUME LdapInv, NEW r \in Calls, search(r)
    PROVE  LdapInv'
<1>1. PICK a : a = D!Truth(req[r].question, entries[req[r].question.person])
  OBVIOUS
<1>2. a \in D!Answer /\ a # "ok" /\ Answer(r, a)
  BY <1>1, SearchIsTrue, TruthOfSearch DEF search
<1>3. req[r].state = "using" /\ troubles \in 0..MaxTroubles
  BY Types DEF search
<1>4. QED BY <1>2, <1>3, AnswerKeeps DEF search

\* A call over a broken connection fails.
LEMMA RequestFailKeeps ==
    ASSUME LdapInv, NEW r \in Calls, request_fail(r)
    PROVE  LdapInv'
<1>1. troubles' \in 0..MaxTroubles
  BY Types, UsersInfoAssumption DEF request_fail, Trouble
<1>2. QED BY <1>1, AnswerKeeps, ErrorIsAnswer DEF request_fail

\* Connections break or are bound to somebody else; not the ones for searches.
LEMMA ConnectionsKeep ==
    ASSUME LdapInv, UNCHANGED <<state, keeper, running, req>>,
           entries' \in [People -> D!Entry], reachable' \in BOOLEAN,
           troubles' \in 0..MaxTroubles,
           conn' \in [Connections -> ConnType],
           \A c \in Connections :
              Uses("authorized_ldap", c) => conn'[c].bound = conn[c].bound
    PROVE  LdapInv'
<1>1. TypeOK'
  BY DEF LdapInv, TypeOK, ConnType
<1>2. PublishedInv' /\ PasswordInv'
  BY DEF LdapInv, PublishedInv, PasswordInv
<1>3. \A r \in Calls, k \in Keepers, c \in Connections : Serves(r, k, c)' <=> Serves(r, k, c)
  BY DEF Serves
<1>4. \A k \in Keepers, c \in Connections : Uses(k, c)' <=> Uses(k, c)
  BY <1>3 DEF Uses
<1>5. ApartInv'
  BY <1>4 DEF LdapInv, ApartInv, Keepers
<1>6. BoundInv'
  <2>1. ASSUME NEW c \in Connections,
               \/ keeper["authorized_ldap"].conn = c
                    /\ keeper["authorized_ldap"].pc \in {"publish", "drive", "clear"}
               \/ state["authorized_ldap"] = c
               \/ \E r \in Calls : Serves(r, "authorized_ldap", c)
        PROVE  conn'[c].bound = Service
    <3>1. Uses("authorized_ldap", c)
      BY <2>1 DEF Uses
    <3>2. QED BY <2>1, <3>1 DEF LdapInv, BoundInv
  <2>2. QED BY <1>3, <2>1 DEF BoundInv, Keepers
<1>7. QED BY <1>1, <1>2, <1>5, <1>6 DEF LdapInv

\* A bind is made in two halves: the connection, then the answer.
LEMMA SimpleBindKeeps ==
    ASSUME LdapInv, NEW r \in Calls, simple_bind(r)
    PROVE  LdapInv'
<1>1. req[r] \in CallType /\ req[r].state = "using" /\ troubles \in 0..MaxTroubles
      /\ conn \in [Connections -> ConnType]
  BY Types DEF simple_bind
<1>2. PICK question \in D!Question, h \in Connections :
        question = req[r].question /\ h = req[r].handle
  BY <1>1, CallFields
<1>3. question.op = "check_authentication" /\ question.person \in People
      /\ question.password \in {"right", "wrong", "empty"} /\ question.password # "empty"
  BY <1>1, <1>2 DEF simple_bind, D!Question, LdapInv, PasswordInv, BlankPassword
<1>4. Serves(r, "ldap", h)
  BY <1>1, <1>2, <1>3 DEF Serves, KeeperOf
<1>5. ~Uses("authorized_ldap", h)
  BY <1>4 DEF LdapInv, ApartInv, Uses
<1>6. PICK right \in BOOLEAN : right = D!Authentic(entries[question.person], question.password)
  BY DEF D!Authentic
<1>7. conn' = [conn EXCEPT ![h].bound = IF right THEN question.person ELSE Nobody]
  BY <1>2, <1>6 DEF simple_bind
<1>8. PICK a : a = IF right THEN "ok" ELSE "error"
  OBVIOUS
<1>9. Answer(r, a)
  BY <1>2, <1>3, <1>6, <1>8 DEF simple_bind
<1>10. PICK q : q = [state |-> "answered", answer |-> a, question |-> question]
  OBVIOUS
<1>11. q \in CallType /\ q.state = "answered" /\ q.answer = a /\ q.question = question
  BY <1>8, <1>10, ErrorIsAnswer DEF CallType
<1>12. a = "ok" => question.password = "right"
  BY <1>6, <1>8 DEF D!Authentic
<1>13. /\ conn' \in [Connections -> ConnType]
       /\ \A c \in Connections : c # h => conn'[c] = conn[c]
  BY <1>1, <1>3, <1>7 DEF ConnType
<1>14. UNCHANGED <<entries, reachable, state, keeper, running, troubles>>
  BY DEF simple_bind
<1>15. /\ req' \in [Calls -> CallType]
       /\ \A s \in Calls : req'[s] = IF s = r THEN q ELSE req[s]
  BY <1>2, <1>9, <1>10, <1>11, Types DEF Answer
<1>16. TypeOK'
  BY <1>13, <1>14, <1>15 DEF LdapInv, TypeOK, ConnType, CallType
<1>17. PublishedInv'
  BY <1>14 DEF LdapInv, PublishedInv
<1>18. PasswordInv'
  BY <1>11, <1>12, <1>15 DEF LdapInv, PasswordInv
<1>19. \A s \in Calls, k \in Keepers, c \in Connections : Serves(s, k, c)' => Serves(s, k, c)
  BY <1>11, <1>15 DEF Serves
<1>20. ApartInv'
  <2>1. \A k \in Keepers, c \in Connections : Uses(k, c)' => Uses(k, c)
    BY <1>14, <1>19 DEF Uses
  <2>2. QED BY <2>1 DEF LdapInv, ApartInv, Keepers
<1>21. BoundInv'
  <2>1. ASSUME NEW c \in Connections,
               \/ keeper["authorized_ldap"].conn = c
                    /\ keeper["authorized_ldap"].pc \in {"publish", "drive", "clear"}
               \/ state["authorized_ldap"] = c
               \/ \E s \in Calls : Serves(s, "authorized_ldap", c)
        PROVE  conn'[c].bound = Service
    <3>1. Uses("authorized_ldap", c)
      BY <2>1 DEF Uses
    <3>2. c # h
      BY <1>5, <3>1
    <3>3. QED BY <1>13, <2>1, <3>2 DEF LdapInv, BoundInv
  <2>2. QED BY <1>14, <1>19, <2>1 DEF BoundInv, Keepers
<1>22. QED BY <1>16, <1>17, <1>18, <1>20, <1>21 DEF LdapInv

-----------------------------------------------------------------------------
(***************************************************************************)
(* The theorems.                                                           *)
(***************************************************************************)
LEMMA InitInv ==
    ASSUME Init
    PROVE  LdapInv
<1>1. \A r \in Calls : req[r] = [state |-> "new"]
  BY DEF Init
<1>2. TypeOK
  <2>1. 0 \in 0..MaxTroubles
    BY UsersInfoAssumption
  <2>2. QED BY <2>1 DEF Init, TypeOK, Handles, D!Entry
<1>3. PublishedInv /\ PasswordInv
  BY <1>1 DEF Init, PublishedInv, PasswordInv
<1>4. \A c \in Connections, k \in Keepers : ~Uses(k, c) /\ \A r \in Calls : ~Serves(r, k, c)
  BY <1>1, UsersInfoAssumption DEF Init, Uses, Serves
<1>5. ApartInv /\ BoundInv
  BY <1>4 DEF ApartInv, BoundInv, Keepers, Uses
<1>6. QED BY <1>2, <1>3, <1>5 DEF LdapInv

\* No step breaks the invariant.
LEMMA NextKeeps ==
    ASSUME LdapInv, [Next]_vars
    PROVE  LdapInv'
<1>1. /\ entries \in [People -> D!Entry] /\ reachable \in BOOLEAN
      /\ conn \in [Connections -> ConnType] /\ troubles \in 0..MaxTroubles
  BY Types
<1>2. ASSUME Trouble PROVE troubles' \in 0..MaxTroubles
  BY <1>1, <1>2, UsersInfoAssumption DEF Trouble
<1>3. ASSUME NEW S \in SUBSET Connections, conn' = Broken(S)
      PROVE  /\ conn' \in [Connections -> ConnType]
             /\ \A c \in Connections : conn'[c].bound = conn[c].bound
  BY <1>1, <1>3 DEF Broken, ConnType
<1>4. CASE Keeping
  BY <1>4, BindKeeps, BindFailKeeps, ConnectKeeps, KeeperKeeps DEF Keeping
<1>5. ASSUME NEW r \in Calls, ask(r) \/ Serving(r) PROVE LdapInv'
  BY <1>5, AskKeeps, TakeKeeps, SearchKeeps, SimpleBindKeeps, RequestFailKeeps DEF Serving
<1>6. CASE Outage
  <2>1. Connections \in SUBSET Connections
    OBVIOUS
  <2>2. QED BY <1>1, <1>2, <1>3, <1>6, <2>1, ConnectionsKeep DEF Outage
<1>7. CASE Recovery
  BY <1>1, <1>7, ConnectionsKeep DEF Recovery
<1>8. ASSUME NEW c \in Connections, Break(c) PROVE LdapInv'
  <2>1. {c} \in SUBSET Connections
    OBVIOUS
  <2>2. QED BY <1>1, <1>2, <1>3, <1>8, <2>1, ConnectionsKeep DEF Break
<1>9. ASSUME NEW p \in People, Edit(p) PROVE LdapInv'
  <2>1. entries' \in [People -> D!Entry]
    BY <1>1, <1>9, UsersInfoAssumption DEF Edit
  <2>2. QED BY <1>1, <1>9, <2>1, ConnectionsKeep DEF Edit
<1>10. CASE UNCHANGED vars
  BY <1>1, <1>10, ConnectionsKeep DEF vars
<1>11. QED BY <1>4, <1>5, <1>6, <1>7, <1>8, <1>9, <1>10 DEF Next

\* The connection of the searches and that of the password checks stay apart:
\* LdapInv is inductive over the keepers and the calls.
THEOREM LdapInvariant == Spec => []LdapInv
<1>1. QED BY InitInv, NextKeeps, PTL DEF Spec

\* The state of the directory access keeps its types: UsersInfo!TypeOK.
THEOREM TypeCorrect == Spec => []TypeOK
<1>1. LdapInv => TypeOK
  BY DEF LdapInv
<1>2. QED BY <1>1, LdapInvariant, PTL

\* No login binds a connection that serves searches: UsersInfo!SearchesAsService.
THEOREM SearchesBound == Spec => []SearchesAsService
<1>1. LdapInv => SearchesAsService
  <2>1. SUFFICES ASSUME LdapInv, NEW r \in Calls, req[r].state = "using",
                        req[r].question.op # "check_authentication"
                 PROVE  conn[req[r].handle].bound = Service
    BY DEF SearchesAsService
  <2>2. req[r].handle \in Connections
    BY <2>1, CallFields, Types
  <2>3. Serves(r, "authorized_ldap", req[r].handle)
    BY <2>1 DEF Serves, KeeperOf
  <2>4. QED BY <2>1, <2>2, <2>3 DEF LdapInv, BoundInv
<1>2. QED BY <1>1, LdapInvariant, PTL

\* check_authentication says yes to the right password only:
\* UsersInfo!OkOnlyWithPassword.
THEOREM OkNeedsPassword == Spec => []OkOnlyWithPassword
<1>1. LdapInv => OkOnlyWithPassword
  BY DEF LdapInv, PasswordInv, OkOnlyWithPassword
<1>2. QED BY <1>1, LdapInvariant, PTL

-----------------------------------------------------------------------------
(***************************************************************************)
(* The methods of UsersInfo keep the promise of module Directory.          *)
(***************************************************************************)
LEMMA InitImplements ==
    ASSUME Init
    PROVE  D!Init
<1>1. \A r \in Calls : Public(req[r]) = D!NotCalled
  BY DEF Init, Public, D!NotCalled
<1>2. QED BY <1>1 DEF Init, D!Init

\* What does not touch the calls, as seen from outside, is a step of the AD or
\* none.
LEMMA SameImplements ==
    ASSUME UNCHANGED <<entries, req>>
    PROVE  UNCHANGED D!vars
BY DEF D!vars

\* A question of UsersInfo is one of Directory.
LEMMA AskImplements ==
    ASSUME LdapInv, NEW r \in Calls, ask(r)
    PROVE  D!Ask(r)
<1>1. PICK q \in Questions :
        req' = [req EXCEPT ![r] = [state |-> "asked", question |-> q]]
  BY DEF ask
<1>2. Public(req[r]).state = "new"
  BY DEF ask, Public
<1>3. q \in D!Question
  BY UsersInfoAssumption
<1>4. \A s \in Calls :
        Public(req'[s]) = IF s = r THEN [state |-> "asked", question |-> q]
                                   ELSE Public(req[s])
  BY <1>1, Types DEF Public
<1>5. [s \in Calls |-> Public(req[s])]' =
        [[s \in Calls |-> Public(req[s])] EXCEPT ![r] = [state |-> "asked", question |-> q]]
  BY <1>4
<1>6. UNCHANGED entries
  BY DEF ask
<1>7. QED BY <1>2, <1>3, <1>5, <1>6 DEF D!Ask

\* An answer of UsersInfo is one that Directory may give.
LEMMA ReplyImplements ==
    ASSUME LdapInv, NEW r \in Calls, req[r].state \in {"asked", "using"}, NEW a,
           a \in {D!Truth(req[r].question, entries[req[r].question.person]), "error"},
           Answer(r, a), UNCHANGED entries
    PROVE  D!Reply(r)
<1> DEFINE reply == [state |-> "answered", answer |-> a, question |-> req[r].question]
<1>1. Public(req[r]) = [state |-> "asked", question |-> req[r].question]
  BY DEF Public
<1>2. Public(reply) = reply
  BY DEF Public
<1>3. \A s \in Calls : req'[s] = IF s = r THEN reply ELSE req[s]
  BY Types DEF Answer
<1>4. \A s \in Calls : Public(req'[s]) = IF s = r THEN reply ELSE Public(req[s])
  BY <1>2, <1>3
<1>5. [s \in Calls |-> Public(req[s])]' = [[s \in Calls |-> Public(req[s])] EXCEPT ![r] = reply]
  BY <1>4
<1> DEFINE calls == [s \in Calls |-> Public(req[s])]
<1>6. calls[r].state = "asked" /\ calls[r].question = req[r].question
  BY <1>1
<1>7. calls' = [calls EXCEPT ![r] = [state |-> "answered", answer |-> a,
                                     question |-> calls[r].question]]
  BY <1>5, <1>6
<1>8. a \in {D!Truth(calls[r].question, entries[calls[r].question.person]), "error"}
  BY <1>6
<1> HIDE DEF calls
<1>9. QED BY <1>6, <1>7, <1>8 DEF D!Reply, calls

\* Every step of UsersInfo is a step of Directory, or none.
LEMMA StepImplements ==
    ASSUME LdapInv, [Next]_vars
    PROVE  [D!Next]_(D!vars)
<1>1. CASE Keeping \/ Outage \/ Recovery \/ (\E c \in Connections : Break(c))
  <2>1. UNCHANGED <<entries, req>>
    BY <1>1 DEF Keeping, bind, bind_fail, connect, connect_fail, publish, drive_end,
                clear, wake, Outage, Recovery, Break
  <2>2. QED BY <2>1, SameImplements
<1>2. CASE UNCHANGED vars
  <2>1. UNCHANGED <<entries, req>>
    BY <1>2 DEF vars
  <2>2. QED BY <2>1, SameImplements
<1>3. ASSUME NEW p \in People, Edit(p) PROVE D!Next
  <2>1. PICK e \in Edits : entries' = [entries EXCEPT ![p] = e]
    BY <1>3 DEF Edit
  <2>2. e \in D!Entry /\ UNCHANGED req
    BY <1>3, UsersInfoAssumption DEF Edit
  <2>3. D!Edit(p)
    BY <2>1, <2>2 DEF D!Edit
  <2>4. QED BY <2>3 DEF D!Next
<1>4. ASSUME NEW r \in Calls, ask(r) PROVE D!Next
  BY <1>4, AskImplements DEF D!Next
<1>5. ASSUME NEW r \in Calls, Serving(r) PROVE D!Next \/ UNCHANGED D!vars
  <2>1. req[r] \in CallType
    BY Types
  <2>2. CASE take_handle(r)
    <3>1. req[r].state = "asked" /\ UNCHANGED entries
      BY <2>2 DEF take_handle
    <3>2. CASE Answer(r, "error")
      BY <3>1, <3>2, ReplyImplements DEF D!Next
    <3>3. CASE req' = [req EXCEPT ![r] = [state |-> "using", question |-> req[r].question,
                                          handle |-> HandleOf(req[r].question)]]
      <4>1. \A s \in Calls : Public(req'[s]) = Public(req[s])
        BY <3>1, <3>3, Types DEF Public
      <4>2. [s \in Calls |-> Public(req[s])]' = [s \in Calls |-> Public(req[s])]
        BY <4>1
      <4>3. QED BY <3>1, <4>2 DEF D!vars
    <3>4. QED BY <2>2, <3>2, <3>3 DEF take_handle
  <2>3. CASE search(r)
    <3>1. req[r].state = "using" /\ UNCHANGED entries
      BY <2>3 DEF search
    <3>2. Answer(r, D!Truth(req[r].question, entries[req[r].question.person]))
      BY <2>3, SearchIsTrue DEF search
    <3>3. QED BY <3>1, <3>2, ReplyImplements DEF D!Next
  <2>4. CASE simple_bind(r)
    <3>1. req[r].state = "using" /\ UNCHANGED entries
          /\ req[r].question.op = "check_authentication"
      BY <2>4 DEF simple_bind
    <3>2. req[r].question.password # "empty"
      BY <3>1 DEF LdapInv, PasswordInv, BlankPassword
    <3>3. Answer(r, D!Truth(req[r].question, entries[req[r].question.person]))
      BY <2>4, <3>1, <3>2 DEF simple_bind, D!Truth
    <3>4. QED BY <3>1, <3>3, ReplyImplements DEF D!Next
  <2>5. CASE request_fail(r)
    BY <2>5, ReplyImplements DEF D!Next, request_fail
  <2>6. QED BY <1>5, <2>2, <2>3, <2>4, <2>5 DEF Serving
<1>6. QED BY <1>1, <1>2, <1>3, <1>4, <1>5 DEF Next

\* Every answer of UsersInfo is what the AD holds at some time during the call,
\* or an error: UsersInfo!DirectorySpec.
THEOREM ImplementsDirectory == Spec => DirectorySpec
<1>1. Init => D!Init
  BY InitImplements
<1>2. LdapInv /\ [Next]_vars => [D!Next]_(D!vars)
  BY StepImplements
<1>3. QED BY <1>1, <1>2, LdapInvariant, PTL DEF Spec, DirectorySpec, D!Spec

=============================================================================
