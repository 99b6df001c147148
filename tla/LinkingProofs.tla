---------------------------- MODULE LinkingProofs ----------------------------
(***************************************************************************)
(* Theorems about Linking, for any users, hosts and Telegram accounts,     *)
(* linked anew as often as they like, and any presses of buttons.          *)
(***************************************************************************)
EXTENDS Linking, TLAPS

-----------------------------------------------------------------------------
(***************************************************************************)
(* The inductive invariant: every link, press and extension goes back to a *)
(* code that was sent.                                                     *)
(***************************************************************************)
LinkInv == \A u \in Users : tg_handle[u] # Null => <<tg_handle[u], u>> \in coded

\* Every host of a SELECT's answer is of a user whose code t has sent.
Coded(t, rows) == \A h \in DOMAIN rows : <<t, rows[h]>> \in coded

CallbackInv ==
    \A t \in Accounts :
        /\ callback[t].pc = "found" => <<t, callback[t].user>> \in coded
        /\ callback[t].pc = "selected" => Coded(t, callback[t].rows)

LinkingInv == TypeOK /\ LinkInv /\ CallbackInv /\ ExtendsOnlyCoded

-----------------------------------------------------------------------------
(***************************************************************************)
(* Steps.                                                                  *)
(***************************************************************************)
\* The places of a press, and the fields it has there.
Waiting == {NoCallback} \cup [pc : {"pressed"}] \cup [pc : {"found"}, user : Users]
              \cup [pc : {"selected"}, rows : Rows]

\* A press at one of its places.
LEMMA Fields ==
    ASSUME NEW q \in Waiting
    PROVE  /\ q.pc \in {"none", "pressed", "found", "selected"}
           /\ q.pc = "found" => q.user \in Users
           /\ q.pc = "selected" => q.rows \in Rows
BY DEF Waiting, NoCallback

\* A press ends, whatever comes of it, or is made.
LEMMA NoPress ==
    /\ NoCallback \in Waiting /\ NoCallback.pc = "none"
    /\ [pc |-> "pressed"] \in Waiting
BY DEF Waiting, NoCallback

\* The rows of a SELECT: a host for each of its ids, and whose it is.
LEMMA RowsAre ==
    ASSUME NEW S \in SUBSET Hosts, NEW f \in [S -> Users]
    PROVE  f \in Rows /\ DOMAIN f = S
BY DEF Rows

\* A press that goes on to q leaves the other accounts and what was sent alone.
LEMMA PressMoves ==
    ASSUME LinkingInv, NEW t \in Accounts, NEW q \in Waiting,
           callback' = [callback EXCEPT ![t] = q],
           q.pc = "found" => <<t, q.user>> \in coded,
           q.pc = "selected" => Coded(t, q.rows),
           UNCHANGED <<tg_handle, buttons, coded>>,
           expiring' \in [Hosts -> Users \cup {Null}],
           extended' \in [by : Accounts, rows : Rows] \cup {NoExtension},
           ExtendsOnlyCoded'
    PROVE  LinkingInv'
<1>1. callback \in [Accounts -> Waiting]
  BY DEF LinkingInv, TypeOK, Waiting
<1>2. \A s \in Accounts : callback'[s] = IF s = t THEN q ELSE callback[s]
  BY <1>1
<1>3. callback' \in [Accounts -> Waiting]
  BY <1>1
<1>4. TypeOK'
  BY <1>3 DEF LinkingInv, TypeOK, Waiting
<1>5. LinkInv'
  BY DEF LinkingInv, LinkInv
<1>6. CallbackInv'
  BY <1>2 DEF LinkingInv, CallbackInv, Coded
<1>7. QED BY <1>4, <1>5, <1>6 DEF LinkingInv

\* A code is sent: the links grow with what was sent.
LEMMA LinkKeeps ==
    ASSUME LinkingInv, NEW t \in Accounts, NEW u \in Users, link_user(t, u)
    PROVE  LinkingInv'
<1>1. TypeOK'
  BY DEF LinkingInv, TypeOK, link_user
<1>2. \A v \in Users : tg_handle'[v] = IF v = u THEN t ELSE tg_handle[v]
  BY DEF LinkingInv, TypeOK, link_user
<1>3. coded' = coded \cup {<<t, u>>} /\ UNCHANGED <<callback, extended>>
  BY DEF link_user
<1>4. LinkInv'
  BY <1>2, <1>3 DEF LinkingInv, LinkInv
<1>5. CallbackInv'
  BY <1>3 DEF LinkingInv, CallbackInv, Coded
<1>6. ExtendsOnlyCoded'
  BY <1>3 DEF LinkingInv, ExtendsOnlyCoded
<1>7. QED BY <1>1, <1>4, <1>5, <1>6 DEF LinkingInv

\* Steps that leave links, codes and presses alone: a notice goes to the account
\* that is linked, leases come into the window and leave it.
LEMMA Elsewhere ==
    ASSUME LinkingInv, UNCHANGED <<tg_handle, callback, coded, extended>>,
           expiring' \in [Hosts -> Users \cup {Null}], buttons' \subseteq Accounts
    PROVE  LinkingInv'
<1>1. TypeOK'
  BY DEF LinkingInv, TypeOK
<1>2. LinkInv' /\ CallbackInv' /\ ExtendsOnlyCoded'
  BY DEF LinkingInv, LinkInv, CallbackInv, Coded, ExtendsOnlyCoded
<1>3. QED BY <1>1, <1>2 DEF LinkingInv

\* The buttons of a notice.
LEMMA NotifyKeeps ==
    ASSUME LinkingInv, NEW u \in Users, notify(u)
    PROVE  LinkingInv'
<1>1. buttons' \subseteq Accounts /\ UNCHANGED <<tg_handle, expiring, callback, coded, extended>>
  BY DEF LinkingInv, TypeOK, notify
<1>2. QED BY <1>1, Elsewhere DEF LinkingInv, TypeOK

\* A lease changes.
LEMMA ExpiringKeeps ==
    ASSUME LinkingInv, NEW h \in Hosts, Expiring(h)
    PROVE  LinkingInv'
<1>1. expiring' \in [Hosts -> Users \cup {Null}] /\ UNCHANGED <<tg_handle, buttons, callback, coded, extended>>
  BY DEF LinkingInv, TypeOK, Expiring
<1>2. QED BY <1>1, Elsewhere DEF LinkingInv, TypeOK

\* A button is pressed, or a press ends without an extension.
LEMMA EndKeeps ==
    ASSUME LinkingInv, NEW t \in Accounts, NEW q \in {NoCallback, [pc |-> "pressed"]},
           callback' = [callback EXCEPT ![t] = q],
           UNCHANGED <<tg_handle, expiring, buttons, coded, extended>>
    PROVE  LinkingInv'
<1>1. q \in Waiting /\ q.pc \notin {"found", "selected"}
  BY NoPress
<1>2. ExtendsOnlyCoded'
  BY DEF LinkingInv, ExtendsOnlyCoded
<1>3. QED BY <1>1, <1>2, PressMoves DEF LinkingInv, TypeOK

\* The user found for an account is one whose code it has sent.
LEMMA FindKeeps ==
    ASSUME LinkingInv, NEW t \in Accounts, get_user_by_tg_handle(t)
    PROVE  LinkingInv'
<1>1. UNCHANGED <<tg_handle, expiring, buttons, coded, extended>>
  BY DEF get_user_by_tg_handle
<1>2. CASE End(t)
  BY <1>1, <1>2, EndKeeps DEF End
<1>3. ASSUME NEW u \in LinkedTo(t),
             callback' = [callback EXCEPT ![t] = [pc |-> "found", user |-> u]]
      PROVE  LinkingInv'
  <2>1. u \in Users /\ tg_handle[u] = t /\ t # Null
    BY LinkingAssumption DEF LinkedTo
  <2>2. <<t, u>> \in coded
    BY <2>1 DEF LinkingInv, LinkInv
  <2>3. PICK q : q = [pc |-> "found", user |-> u]
    OBVIOUS
  <2>4. q \in Waiting /\ q.pc = "found" /\ q.user = u
    BY <2>1, <2>3 DEF Waiting
  <2>5. ExtendsOnlyCoded'
    BY <1>1 DEF LinkingInv, ExtendsOnlyCoded
  <2>6. QED BY <1>1, <1>3, <2>2, <2>3, <2>4, <2>5, PressMoves DEF LinkingInv, TypeOK
<1>4. QED BY <1>2, <1>3 DEF get_user_by_tg_handle

\* The hosts selected are that user's.
LEMMA SelectKeeps ==
    ASSUME LinkingInv, NEW t \in Accounts, get_expiring_hosts_for_user(t)
    PROVE  LinkingInv'
<1>1. UNCHANGED <<tg_handle, expiring, buttons, coded, extended>> /\ callback[t].pc = "found"
  BY DEF get_expiring_hosts_for_user
<1>2. PICK u : u = callback[t].user
  OBVIOUS
<1>3. u \in Users /\ <<t, u>> \in coded
  <2>1. callback[t] \in Waiting
    BY DEF LinkingInv, TypeOK, Waiting
  <2>2. QED BY <1>1, <1>2, <2>1, Fields DEF LinkingInv, CallbackInv
<1>4. PICK ids \in SUBSET Hosts : ids = {h \in Hosts : expiring[h] = u}
  OBVIOUS
<1>5. CASE End(t)
  BY <1>1, <1>5, EndKeeps DEF End
<1>6. CASE callback' = [callback EXCEPT ![t] =
               [pc |-> "selected", rows |-> [h \in ids |-> expiring[h]]]]
  <2>1. PICK f : f = [h \in ids |-> expiring[h]]
    OBVIOUS
  <2>2. f \in [ids -> Users] /\ \A h \in ids : f[h] = u
    BY <1>3, <1>4, <2>1
  <2>3. f \in Rows /\ DOMAIN f = ids
    BY <2>2, RowsAre
  <2>4. PICK q : q = [pc |-> "selected", rows |-> f]
    OBVIOUS
  <2>5. q \in Waiting /\ q.pc = "selected" /\ q.rows = f
    BY <2>3, <2>4 DEF Waiting
  <2>6. Coded(t, q.rows)
    BY <1>3, <2>2, <2>3, <2>5 DEF Coded
  <2>7. ExtendsOnlyCoded'
    BY <1>1 DEF LinkingInv, ExtendsOnlyCoded
  <2>8. callback' = [callback EXCEPT ![t] = q]
    BY <1>6, <2>1, <2>4
  <2>9. QED BY <1>1, <2>5, <2>6, <2>7, <2>8, PressMoves DEF LinkingInv, TypeOK
<1>7. QED BY <1>2, <1>4, <1>5, <1>6 DEF get_expiring_hosts_for_user

\* The selected leases are extended.
LEMMA ExtendKeeps ==
    ASSUME LinkingInv, NEW t \in Accounts, extend_hosts_lease(t)
    PROVE  LinkingInv'
<1>1. PICK f : f = callback[t].rows
  OBVIOUS
<1>2. /\ callback[t].pc = "selected" /\ callback' = [callback EXCEPT ![t] = NoCallback]
      /\ extended' = [by |-> t, rows |-> f] /\ UNCHANGED <<tg_handle, buttons, coded>>
  BY <1>1 DEF extend_hosts_lease, End
<1>3. expiring' \in [Hosts -> Users \cup {Null}]
  BY DEF extend_hosts_lease, LinkingInv, TypeOK
<1>4. f \in Rows /\ Coded(t, f)
  <2>1. callback[t] \in Waiting
    BY DEF LinkingInv, TypeOK, Waiting
  <2>2. QED BY <1>1, <1>2, <2>1, Fields DEF LinkingInv, CallbackInv
<1>5. extended'.by = t /\ extended'.rows = f
  BY <1>2
<1>6. ExtendsOnlyCoded'
  BY <1>2, <1>4, <1>5 DEF Coded, ExtendsOnlyCoded
<1>7. extended' \in [by : Accounts, rows : Rows]
  BY <1>2, <1>4
<1>8. QED BY <1>2, <1>3, <1>6, <1>7, NoPress, PressMoves

\* A query of extend_user_hosts fails.
LEMMA ExtendFailKeeps ==
    ASSUME LinkingInv, NEW t \in Accounts, extend_fail(t) \/ press(t)
    PROVE  LinkingInv'
BY EndKeeps DEF extend_fail, press, End

-----------------------------------------------------------------------------
(***************************************************************************)
(* The theorems.                                                           *)
(***************************************************************************)
\* Nobody is linked and nothing was sent.
LEMMA InitInv ==
    ASSUME Init
    PROVE  LinkingInv
<1>1. NoCallback.pc = "none" /\ DOMAIN NoExtension.rows = {}
  BY DEF NoCallback, NoExtension
<1>2. QED BY <1>1 DEF Init, LinkingInv, TypeOK, LinkInv, CallbackInv, ExtendsOnlyCoded

\* No step of the bot, of the notifier or of the leases breaks the invariant.
LEMMA NextKeeps ==
    ASSUME LinkingInv, [Next]_vars
    PROVE  LinkingInv'
<1>1. CASE UNCHANGED vars
  BY <1>1, Elsewhere DEF vars, LinkingInv, TypeOK
<1>2. QED BY <1>1, LinkKeeps, NotifyKeeps, ExpiringKeeps, FindKeeps, SelectKeeps, ExtendKeeps,
             ExtendFailKeeps DEF Next

\* Every link, press of a button and extension goes back to a code that the
\* account has sent to main_state_handler: LinkingInv is inductive.
THEOREM LinkingInvariant == Spec => []LinkingInv
<1>1. QED BY InitInv, NextKeeps, PTL DEF Spec

\* The state of links and buttons keeps its types: Linking!TypeOK.
THEOREM TypeCorrect == Spec => []TypeOK
<1>1. LinkingInv => TypeOK
  BY DEF LinkingInv
<1>2. QED BY <1>1, LinkingInvariant, PTL

\* handle_extend_callback selects nobody's leases but those of a user whose code
\* the account has sent: Linking!ExtendsOnlyCoded.
THEOREM ExtendsTheCoded == Spec => []ExtendsOnlyCoded
<1>1. LinkingInv => ExtendsOnlyCoded
  BY DEF LinkingInv
<1>2. QED BY <1>1, LinkingInvariant, PTL

=============================================================================
