----------------------------- MODULE TimerProofs -----------------------------
(***************************************************************************)
(* Theorems about ReleaseTimer, for every number of users and hosts, every *)
(* set of lease and extension times, and any number of failures, crashes   *)
(* and restarts.                                                           *)
(***************************************************************************)
EXTENDS ReleaseTimer, TLAPS

-----------------------------------------------------------------------------
(***************************************************************************)
(* The inductive invariant.                                                *)
(***************************************************************************)
\* Who has been warned is in the window, and, unless that was lost, `sent' of
\* the host's owner knows.
ToldInv ==
    /\ told \subseteq Soon
    /\ ~lost => \A u \in Users : told \cap get_leased_hosts(hosts, u) \subseteq sent[u]

\* What `sent' holds of the owner of a host is about this lease, or the lease is
\* new and no scan has found it outside the window.
SuppressedInv ==
    \A u \in Users : \A h \in sent[u] : hosts[h].user = u => h \in told \cup unseen

\* A host the loop is about to warn of is in the window still, if it is the same
\* lease: it is never extended out of the window without being unseen.
PendingInv ==
    tpc \in {"notify", "send"} =>
        \A u \in Users : \A h \in pending[u] : hosts[h].user = u => h \in Soon \cup unseen

\* A host of the message that is its reader's now is in the window and was the
\* reader's when the rows were read, or it is unseen.
MessageInv ==
    tpc = "send" =>
        /\ message.user \in Users
        /\ \A h \in message.hosts :
              hosts[h].user = message.user => h \in (message.owned \cap Soon) \cup unseen

TimerInv ==
    /\ TypeOK
    /\ SuppressedInv
    /\ NoSecondNotice
    /\ ToldInv
    /\ PendingInv
    /\ MessageInv

-----------------------------------------------------------------------------
(***************************************************************************)
(* Rows and the window.                                                    *)
(***************************************************************************)
\* A host whose lease ends within the window.
LEMMA SoonIs ==
    /\ Soon = {h \in Hosts : hosts[h].user # Null /\ hosts[h].until # Null
                             /\ hosts[h].until < now + 1}
    /\ Soon' = {h \in Hosts : hosts'[h].user # Null /\ hosts'[h].until # Null
                              /\ hosts'[h].until < now' + 1}
BY DEF Soon, get_leased_until_hosts, EXPIRATION_NOTIFY_WINDOW

\* A lease ends at an integer, or there is none.
LEMMA Rows ==
    ASSUME TypeOK, NEW h \in Hosts
    PROVE  /\ hosts[h] \in Row
           /\ hosts[h].user \in Users \cup {Null}
           /\ hosts[h].until # Null => hosts[h].until \in Int
BY DEF TypeOK, Row

\* A free row is a row.
LEMMA FreeRowIsRow == FreeRow \in Row /\ FreeRow.user = Null /\ FreeRow.until = Null
BY DEF FreeRow, Row

\* SQL NULL is no user.
LEMMA NullIsNoUser == Null \notin Users
BY ReleaseTimerAssumption

\* The map in which nobody has been told anything.
LEMMA NobodyIs == Nobody \in [Users -> SUBSET Hosts] /\ \A u \in Users : Nobody[u] = {}
BY DEF Nobody

\* No message is being sent.
LEMMA NoMessageIs ==
    NoMessage.user = Null /\ NoMessage.hosts = {} /\ NoMessage.owned = {}
BY DEF NoMessage

\* No button has selected anything.
LEMMA NoExtensionsIs ==
    /\ NoExtension \in [ids : SUBSET Hosts, hours : Nat]
    /\ NoExtensions \in [Users -> [ids : SUBSET Hosts, hours : Nat]]
BY DEF NoExtension, NoExtensions

\* The steps that change neither the table nor what was sent or told.
LEMMA LoopMoves ==
    ASSUME TimerInv, TypeOK', UNCHANGED <<hosts, now, sent, told, unseen, lost>>,
           tpc' # "send",
           tpc' = "notify" =>
              /\ tpc \in {"notify", "send"}
              /\ \A u \in Users : pending'[u] \subseteq pending[u]
    PROVE  TimerInv'
<1>1. Soon' = Soon
  BY DEF Soon, get_leased_until_hosts
<1>2. SuppressedInv' /\ ToldInv'
  BY <1>1 DEF TimerInv, SuppressedInv, ToldInv, get_leased_hosts
<1>3. NoSecondNotice'
  BY DEF NoSecondNotice
<1>4. MessageInv'
  BY DEF MessageInv
<1>5. PendingInv'
  BY <1>1 DEF TimerInv, PendingInv
<1>6. QED BY <1>2, <1>3, <1>4, <1>5 DEF TimerInv

\* The table changes: a host that somebody has after it is unseen, or they had
\* it before, it is still in the window if it was, and still told if it was.
LEMMA TableChanges ==
    ASSUME TimerInv, TypeOK', UNCHANGED <<now, lost>>,
           tpc' \in {"notify", "send"} =>
              UNCHANGED <<tpc, pending, message>>,
           told' \subseteq told,
           unseen \subseteq unseen',
           \A h \in told' : h \in Soon' /\ hosts'[h].user = hosts[h].user,
           \A h \in Hosts, u \in Users :
              hosts'[h].user = u =>
                 \/ h \in unseen'
                 \/ /\ hosts[h].user = u
                    /\ h \in Soon => h \in Soon'
                    /\ h \in told => h \in told',
           \A u \in Users : sent'[u] \subseteq sent[u] /\ told' \cap sent[u] \subseteq sent'[u]
    PROVE  TimerInv'
<1>1. /\ Soon \subseteq Hosts /\ Soon' \subseteq Hosts /\ told \subseteq Soon
      /\ \A u \in Users : sent[u] \subseteq Hosts /\ pending[u] \subseteq Hosts
      /\ message.hosts \subseteq Hosts /\ message.owned \subseteq Hosts
  BY SoonIs DEF TimerInv, TypeOK, ToldInv
<1>2. SuppressedInv'
  <2>1. SUFFICES ASSUME NEW u \in Users, NEW h \in sent'[u], hosts'[h].user = u,
                        h \notin unseen'
                 PROVE  h \in told'
    BY DEF SuppressedInv
  <2>2. h \in Hosts /\ h \in sent[u]
    BY <1>1
  <2>3. hosts[h].user = u /\ h \notin unseen /\ (h \in told => h \in told')
    BY <2>1, <2>2
  <2>4. QED BY <2>2, <2>3 DEF TimerInv, SuppressedInv
<1>3. ToldInv'
  BY <1>1 DEF TimerInv, ToldInv, get_leased_hosts
<1>4. PendingInv'
  <2>1. SUFFICES ASSUME tpc' \in {"notify", "send"}, NEW u \in Users, NEW h \in pending'[u],
                        hosts'[h].user = u, h \notin unseen'
                 PROVE  h \in Soon'
    BY DEF PendingInv
  <2>2. tpc \in {"notify", "send"} /\ h \in pending[u] /\ h \in Hosts
    BY <1>1, <2>1
  <2>3. hosts[h].user = u /\ h \notin unseen /\ (h \in Soon => h \in Soon')
    BY <2>1, <2>2
  <2>4. QED BY <2>2, <2>3 DEF TimerInv, PendingInv
<1>5. MessageInv'
  <2>1. SUFFICES ASSUME tpc' = "send"
                 PROVE  /\ message'.user \in Users
                        /\ \A h \in message'.hosts : hosts'[h].user = message'.user
                              => h \in (message'.owned \cap Soon') \cup unseen'
    BY DEF MessageInv
  <2>2. tpc = "send" /\ message' = message /\ message.user \in Users
    BY <2>1 DEF TimerInv, MessageInv
  <2>3. ASSUME NEW h \in message.hosts, hosts'[h].user = message.user, h \notin unseen'
        PROVE  h \in message.owned /\ h \in Soon'
    <3>1. h \in Hosts
      BY <1>1
    <3>2. hosts[h].user = message.user /\ h \notin unseen /\ (h \in Soon => h \in Soon')
      BY <2>2, <2>3, <3>1
    <3>3. QED BY <2>2, <3>2 DEF TimerInv, MessageInv
  <2>4. QED BY <2>2, <2>3
<1>6. NoSecondNotice'
  <2>1. SUFFICES ASSUME tpc' = "send", ~lost', NEW h \in Tells', h \in told' PROVE FALSE
    BY DEF NoSecondNotice
  <2>2. tpc = "send" /\ message' = message /\ ~lost
    BY <2>1
  <2>3. h \in message.owned /\ hosts[h].user = message.user /\ h \in Soon /\ h \in told
    BY <1>1, <2>1, <2>2 DEF Tells
  <2>4. h \in Tells
    BY <2>3 DEF Tells
  <2>5. QED BY <2>2, <2>3, <2>4 DEF TimerInv, NoSecondNotice
<1>7. QED BY <1>2, <1>3, <1>4, <1>5, <1>6 DEF TimerInv

\* Hosts are freed.
LEMMA Frees ==
    ASSUME TimerInv, NEW S \in SUBSET Hosts, hosts' = Freed(S), told' = told \ S,
           TypeOK', UNCHANGED <<now, lost>>, unseen \subseteq unseen',
           tpc' \in {"notify", "send"} => UNCHANGED <<tpc, pending, message>>,
           \A u \in Users : sent'[u] \subseteq sent[u] /\ told' \cap sent[u] \subseteq sent'[u]
    PROVE  TimerInv'
<1>1. \A h \in Hosts : hosts'[h] = IF h \in S THEN FreeRow ELSE hosts[h]
  BY DEF Freed
<1>2. \A h \in Hosts : h \in Soon' <=> h \in Soon /\ h \notin S
  BY <1>1, SoonIs, FreeRowIsRow
<1>3. told \subseteq Soon /\ Soon \subseteq Hosts
  BY SoonIs DEF TimerInv, ToldInv
<1>4. \A h \in told' : h \in Soon' /\ hosts'[h].user = hosts[h].user
  BY <1>1, <1>2, <1>3
<1>5. \A h \in Hosts, u \in Users :
         hosts'[h].user = u => /\ hosts[h].user = u
                               /\ h \in Soon => h \in Soon'
                               /\ h \in told => h \in told'
  BY <1>1, <1>2, FreeRowIsRow, NullIsNoUser
<1>6. QED BY <1>4, <1>5, TableChanges

-----------------------------------------------------------------------------
(***************************************************************************)
(* release().                                                              *)
(***************************************************************************)
LEMMA FreedType ==
    ASSUME TypeOK, NEW S
    PROVE  Freed(S) \in [Hosts -> Row]
BY FreeRowIsRow DEF TypeOK, Freed

\* Hosts grouped by user are a set of hosts for each.
LEMMA ByOwnerType ==
    ASSUME NEW S
    PROVE  ByOwner(S) \in [Users -> SUBSET Hosts]
BY DEF ByOwner, get_leased_hosts

\* The SELECT of ReleaseTimer::release.
LEMMA ReleaseKeeps ==
    ASSUME TimerInv, release \/ wake \/ scan_fail
    PROVE  TimerInv'
<1>1. CASE release
  <2>1. TypeOK'
    BY <1>1, ByOwnerType DEF release, othersVars, ghosts, TimerInv, TypeOK
  <2>2. QED BY <1>1, <2>1, LoopMoves DEF release, othersVars, ghosts
<1>2. CASE wake
  <2>1. TypeOK'
    BY <1>2 DEF wake, othersVars, ghosts, TimerInv, TypeOK
  <2>2. QED BY <1>2, <2>1, LoopMoves DEF wake, othersVars, ghosts
<1>3. CASE scan_fail
  <2>1. troubles' \in 0..MaxTroubles
    BY <1>3, ReleaseTimerAssumption DEF scan_fail, Trouble, TimerInv, TypeOK
  <2>2. TypeOK'
    BY <1>3, <2>1 DEF scan_fail, othersVars, ghosts, TimerInv, TypeOK
  <2>3. QED BY <1>3, <2>2, LoopMoves DEF scan_fail, othersVars, ghosts
<1>4. QED BY <1>1, <1>2, <1>3

\* What release frees are hosts.
LEMMA ExpiredAreHosts ==
    ASSUME TypeOK
    PROVE  /\ UNION {pending[u] : u \in Users} \in SUBSET Hosts
           /\ \A u \in Users : pending[u] \subseteq UNION {pending[v] : v \in Users}
BY DEF TypeOK

\* release frees the expired hosts and commits.
LEMMA CommitKeeps ==
    ASSUME TimerInv, release_commit
    PROVE  TimerInv'
<1>1. PICK S \in SUBSET Hosts :
        /\ S = UNION {pending[u] : u \in Users}
        /\ \A u \in Users : pending[u] \subseteq S
  BY ExpiredAreHosts DEF TimerInv
<1>2. hosts' = Freed(S) /\ told' = told \ S
  BY <1>1 DEF release_commit
<1>3. sent' \in [Users -> SUBSET Hosts] /\ \A u \in Users : sent'[u] = sent[u] \ pending[u]
  BY DEF release_commit, TimerInv, TypeOK
<1>4. TypeOK'
  <2>1. hosts' \in [Hosts -> Row] /\ TypeOK
    BY <1>2, FreedType DEF TimerInv
  <2>2. UNCHANGED <<now, linked, extending, pending, message, troubles, unseen, lost>>
        /\ tpc' = "tell"
    BY DEF release_commit, othersVars
  <2>3. QED BY <1>2, <1>3, <2>1, <2>2 DEF TypeOK
<1>5. \A u \in Users : sent'[u] \subseteq sent[u] /\ told' \cap sent[u] \subseteq sent'[u]
  BY <1>1, <1>2, <1>3
<1>6. QED BY <1>2, <1>4, <1>5, Frees DEF release_commit, othersVars

\* A query of release fails, or its commit ends unknown.
LEMMA ReleaseFailKeeps ==
    ASSUME TimerInv, release_fail
    PROVE  TimerInv'
<1>1. troubles' \in 0..MaxTroubles
  BY ReleaseTimerAssumption DEF release_fail, Trouble, TimerInv, TypeOK
<1>2. PICK S \in SUBSET Hosts : S = UNION {pending[u] : u \in Users}
  BY ExpiredAreHosts DEF TimerInv
<1>3. CASE tpc \in {"release", "free"} /\ UNCHANGED <<hosts, told>>
  <2>1. TypeOK'
    BY <1>1, <1>3, NobodyIs DEF release_fail, othersVars, TimerInv, TypeOK
  <2>2. QED BY <1>3, <2>1, LoopMoves DEF release_fail, othersVars
<1>4. CASE tpc = "free" /\ hosts' = Freed(S) /\ told' = told \ S
  <2>1. TypeOK'
    BY <1>1, <1>4, NobodyIs, FreedType DEF release_fail, othersVars, TimerInv, TypeOK
  <2>2. QED BY <1>4, <2>1, Frees DEF release_fail, othersVars
<1>5. QED BY <1>2, <1>3, <1>4 DEF release_fail

\* Going on to the next user keeps the types.
LEMMA DoneType ==
    ASSUME TypeOK, NEW u \in Users, NEW next \in {"scan", "sleep"}, Done(u, next)
    PROVE  /\ pending' \in [Users -> SUBSET Hosts]
           /\ \A v \in Users : pending'[v] \subseteq pending[v]
           /\ tpc' \in {tpc, next}
BY DEF Done, TypeOK

\* HostsReleased is sent.
LEMMA TellKeeps ==
    ASSUME TimerInv, NEW u \in Users, notify_released_hosts(u)
    PROVE  TimerInv'
<1>1. pending' \in [Users -> SUBSET Hosts] /\ tpc' \in {"tell", "scan"}
  BY DoneType DEF notify_released_hosts, TimerInv
<1>2. TypeOK'
  BY <1>1 DEF notify_released_hosts, othersVars, ghosts, TimerInv, TypeOK
<1>3. QED BY <1>1, <1>2, LoopMoves DEF notify_released_hosts, othersVars, ghosts

-----------------------------------------------------------------------------
(***************************************************************************)
(* notify_soon_release() and Notifier::notify.                             *)
(***************************************************************************)
LEMMA ScanKeeps ==
    ASSUME TimerInv, notify_soon_release
    PROVE  TimerInv'
<1>1. /\ UNCHANGED <<hosts, now, linked, extending, message, troubles, told, lost>>
      /\ tpc' \in {"sleep", "notify"} /\ pending' = ByOwner(Soon)
      /\ unseen' = unseen \cap Soon
  BY DEF notify_soon_release, othersVars
<1>2. sent' \in [Users -> SUBSET Hosts] /\ \A u \in Users : sent'[u] = sent[u] \cap Soon
  BY DEF notify_soon_release, TimerInv, TypeOK
<1>3. Soon' = Soon
  BY <1>1 DEF Soon, get_leased_until_hosts
<1>4. TypeOK'
  BY <1>1, <1>2, ByOwnerType DEF TimerInv, TypeOK
<1>5. SuppressedInv'
  BY <1>1, <1>2 DEF TimerInv, SuppressedInv
<1>6. ToldInv'
  BY <1>1, <1>2, <1>3 DEF TimerInv, ToldInv, get_leased_hosts
<1>7. NoSecondNotice' /\ MessageInv'
  BY <1>1 DEF NoSecondNotice, MessageInv
<1>8. \A u \in Users : pending'[u] \subseteq Soon
  BY <1>1 DEF ByOwner
<1>9. PendingInv'
  BY <1>3, <1>8 DEF PendingInv
<1>10. QED BY <1>4, <1>5, <1>6, <1>7, <1>9 DEF TimerInv

\* The process ends.
LEMMA Dies ==
    ASSUME TimerInv, NEW how \in {"down", "panicked"}, Die(how),
           UNCHANGED <<hosts, now, linked, told, unseen>>, troubles' \in 0..MaxTroubles
    PROVE  TimerInv'
<1>1. TypeOK'
  BY NoMessageIs, NobodyIs, NoExtensionsIs DEF Die, TimerInv, TypeOK
<1>2. \A u \in Users : sent'[u] = {}
  BY NobodyIs DEF Die
<1>3. Soon' = Soon /\ lost' = TRUE /\ tpc' \notin {"send", "notify"}
  BY DEF Die, Soon, get_leased_until_hosts
<1>4. SuppressedInv' /\ ToldInv'
  BY <1>2, <1>3 DEF TimerInv, SuppressedInv, ToldInv
<1>5. NoSecondNotice' /\ MessageInv' /\ PendingInv'
  BY <1>3 DEF NoSecondNotice, MessageInv, PendingInv
<1>6. QED BY <1>1, <1>4, <1>5 DEF TimerInv

\* notify_soon_release reads the rows of one user's message.
LEMMA NotifyKeeps ==
    ASSUME TimerInv, NEW u \in Users, notify(u)
    PROVE  TimerInv'
<1>1. PICK fresh, owned : fresh = pending[u] \ sent[u] /\ owned = fresh \cap get_leased_hosts(hosts, u)
  OBVIOUS
<1>2. /\ fresh \subseteq Hosts /\ fresh \subseteq pending[u] /\ fresh \cap sent[u] = {}
      /\ owned = {h \in fresh : hosts[h].user = u}
      /\ tpc = "notify" /\ UNCHANGED <<hosts, now, linked, troubles, told, unseen>>
  BY <1>1 DEF notify, get_leased_hosts, TimerInv, TypeOK
<1>3. CASE Done(u, "sleep") /\ UNCHANGED <<message, sent, extending, lost>>
  <2>1. /\ pending' \in [Users -> SUBSET Hosts] /\ tpc' \in {"notify", "sleep"}
        /\ \A v \in Users : pending'[v] \subseteq pending[v]
    BY <1>2, <1>3, DoneType DEF TimerInv
  <2>2. TypeOK'
    BY <1>2, <1>3, <2>1 DEF TimerInv, TypeOK
  <2>3. QED BY <1>2, <1>3, <2>1, <2>2, LoopMoves
<1>4. CASE Die("panicked")
  BY <1>2, <1>4, Dies DEF TimerInv, TypeOK
<1>5. CASE /\ message' = [user |-> u, hosts |-> fresh, owned |-> owned]
           /\ tpc' = "send" /\ UNCHANGED <<pending, sent, extending, lost>>
  <2>1. message'.user = u /\ message'.hosts = fresh /\ message'.owned = owned
    BY <1>5
  <2>2. TypeOK'
    BY <1>2, <1>5, <2>1 DEF TimerInv, TypeOK
  <2>3. Soon' = Soon
    BY <1>2 DEF Soon, get_leased_until_hosts
  <2>4. SuppressedInv' /\ ToldInv'
    BY <1>2, <1>5, <2>3 DEF TimerInv, SuppressedInv, ToldInv, get_leased_hosts
  <2>5. PendingInv'
    BY <1>2, <1>5, <2>3 DEF TimerInv, PendingInv
  <2>6. MessageInv'
    BY <1>2, <2>1, <2>3 DEF TimerInv, PendingInv, MessageInv
  <2>7. NoSecondNotice'
    <3>1. SUFFICES ASSUME ~lost', NEW h \in Tells', h \in told' PROVE FALSE
      BY DEF NoSecondNotice
    <3>2. h \in fresh /\ hosts[h].user = u /\ h \in told /\ ~lost
      BY <1>2, <1>5, <2>1, <3>1 DEF Tells
    <3>3. h \in sent[u]
      BY <1>2, <3>2 DEF TimerInv, ToldInv, get_leased_hosts
    <3>4. QED BY <1>2, <3>2, <3>3
  <2>8. QED BY <2>2, <2>4, <2>5, <2>6, <2>7 DEF TimerInv
<1>6. QED BY <1>1, <1>3, <1>4, <1>5 DEF notify

\* notify_soon_release fails for a user.
LEMMA NotifyFailKeeps ==
    ASSUME TimerInv, NEW u \in Users, notify_fail(u)
    PROVE  TimerInv'
<1>1. /\ pending' \in [Users -> SUBSET Hosts] /\ tpc' \in {"notify", "sleep"}
      /\ \A v \in Users : pending'[v] \subseteq pending[v]
  BY DoneType DEF notify_fail, TimerInv
<1>2. troubles' \in 0..MaxTroubles
  BY ReleaseTimerAssumption DEF notify_fail, Trouble, TimerInv, TypeOK
<1>3. TypeOK'
  BY <1>1, <1>2 DEF notify_fail, othersVars, ghosts, TimerInv, TypeOK
<1>4. tpc = "notify" /\ UNCHANGED <<hosts, now, sent, told, unseen, lost>>
  BY DEF notify_fail, othersVars, ghosts
<1>5. QED BY <1>1, <1>3, <1>4, LoopMoves

\* A message has gone out, or failed to: whom it told is recorded, or that was
\* lost.
LEMMA SendKeeps ==
    ASSUME TimerInv, send_message \/ send_fail
    PROVE  TimerInv'
<1>1. PICK u \in Users : u = message.user
  BY DEF send_message, send_fail, Sent, TimerInv, MessageInv
<1>2. /\ tpc = "send" /\ tpc' \in {"notify", "sleep"} /\ message' = NoMessage
      /\ UNCHANGED <<hosts, now, linked, extending, unseen>>
      /\ pending' \in [Users -> SUBSET Hosts]
      /\ \A v \in Users : pending'[v] \subseteq pending[v]
  BY <1>1 DEF send_message, send_fail, Sent, othersVars, TimerInv, TypeOK
<1>3. PICK D \in SUBSET Hosts : D = message.hosts
  BY DEF TimerInv, TypeOK
<1>4. Soon' = Soon /\ Soon \subseteq Hosts
  BY <1>2, SoonIs DEF Soon, get_leased_until_hosts
<1>5. Tells \subseteq Soon /\ Tells \subseteq D
      /\ (\A h \in Tells : hosts[h].user = u)
      /\ \A h \in D : hosts[h].user = u => h \in Tells \cup unseen
  BY <1>1, <1>2, <1>3 DEF Tells, TimerInv, TypeOK, MessageInv
<1>6. troubles' \in 0..MaxTroubles
  BY ReleaseTimerAssumption DEF send_message, send_fail, Trouble, TimerInv, TypeOK
<1>7. /\ sent' \in [Users -> SUBSET Hosts] /\ told' \subseteq Hosts /\ lost' \in BOOLEAN
      /\ \A v \in Users : v # u => sent'[v] = sent[v]
      /\ \/ sent'[u] = sent[u] \cup D /\ told' = told \cup Tells /\ lost' = lost
         \/ sent'[u] = sent[u] /\ told' = told /\ lost' = lost
         \/ sent'[u] = sent[u] /\ told' = told \cup Tells /\ lost'
  BY <1>1, <1>3, <1>4, <1>5 DEF send_message, send_fail, TimerInv, TypeOK
<1>8. TypeOK'
  BY <1>2, <1>6, <1>7, NoMessageIs DEF TimerInv, TypeOK
<1>9. SuppressedInv'
  BY <1>2, <1>5, <1>7 DEF TimerInv, SuppressedInv
<1>10. ToldInv'
  BY <1>2, <1>4, <1>5, <1>7 DEF TimerInv, ToldInv, get_leased_hosts
<1>11. MessageInv' /\ NoSecondNotice'
  BY <1>2 DEF MessageInv, NoSecondNotice
<1>12. PendingInv'
  BY <1>2, <1>4 DEF TimerInv, PendingInv
<1>13. QED BY <1>8, <1>9, <1>10, <1>11, <1>12 DEF TimerInv

-----------------------------------------------------------------------------
(***************************************************************************)
(* The rest of the process.                                                *)
(***************************************************************************)
LEMMA ChangedIs ==
    ASSUME TypeOK, NEW S, Changed(S), hosts' \in [Hosts -> Row],
           extending' \in [Users -> [ids : SUBSET Hosts, hours : Nat]], S \subseteq Hosts
    PROVE  /\ TypeOK' /\ told' = told \ S /\ unseen' = unseen \cup S
           /\ UNCHANGED <<now, lost, tpc, pending, message, sent>>
BY DEF Changed, loopVars, TypeOK

\* A lease that starts is unseen, be it in the window or not.
LEMMA LeaseKeeps ==
    ASSUME TimerInv, NEW u \in Users, NEW S \in SUBSET Hosts, NEW hours \in LeaseHours,
           lease(u, S, hours)
    PROVE  TimerInv'
<1>1. now \in Int /\ hours \in Nat /\ TypeOK
  BY ReleaseTimerAssumption DEF TimerInv, TypeOK
<1>2. PICK end \in Int : end = now + hours * Hour
  BY <1>1 DEF Hour
<1>3. \A h \in Hosts : hosts'[h] = IF h \in S THEN [user |-> u, until |-> end] ELSE hosts[h]
  BY <1>2 DEF lease
<1>4. [user |-> u, until |-> end] \in Row
  BY <1>2 DEF Row
<1>5. hosts' \in [Hosts -> Row] /\ extending' \in [Users -> [ids : SUBSET Hosts, hours : Nat]]
  <2>1. hosts' = [h \in Hosts |-> IF h \in S THEN [user |-> u, until |-> end] ELSE hosts[h]]
    BY <1>2 DEF lease
  <2>2. QED BY <1>1, <1>4, <2>1 DEF TypeOK, lease
<1>6. /\ TypeOK' /\ told' = told \ S /\ unseen' = unseen \cup S
      /\ UNCHANGED <<now, lost, tpc, pending, message, sent>>
  BY <1>1, <1>5, ChangedIs DEF lease
<1>7. \A h \in Hosts : h \notin S => (h \in Soon' <=> h \in Soon)
  BY <1>3, <1>6, SoonIs
<1>8. told \subseteq Soon /\ Soon \subseteq Hosts
  BY SoonIs DEF TimerInv, ToldInv
<1>9. \A h \in told' : h \in Soon' /\ hosts'[h].user = hosts[h].user
  BY <1>3, <1>6, <1>7, <1>8
<1>10. \A h \in Hosts, v \in Users :
          hosts'[h].user = v =>
             \/ h \in unseen'
             \/ /\ hosts[h].user = v
                /\ h \in Soon => h \in Soon'
                /\ h \in told => h \in told'
  BY <1>3, <1>6, <1>7
<1>11. QED BY <1>6, <1>9, <1>10, TableChanges

\* A user releases hosts.
LEMMA FreeKeeps ==
    ASSUME TimerInv, NEW u \in Users, NEW S \in SUBSET Hosts, free(u, S)
    PROVE  TimerInv'
<1>1. hosts' = Freed(S) /\ TypeOK
  BY DEF free, TimerInv
<1>2. hosts' \in [Hosts -> Row] /\ extending' \in [Users -> [ids : SUBSET Hosts, hours : Nat]]
  BY <1>1, FreedType DEF free, TypeOK
<1>3. /\ TypeOK' /\ told' = told \ S /\ unseen' = unseen \cup S
      /\ UNCHANGED <<now, lost, tpc, pending, message, sent>>
  BY <1>1, <1>2, ChangedIs DEF free
<1>4. QED BY <1>1, <1>3, Frees

\* A button selects leases to extend, or fails to extend them.
LEMMA SelectKeeps ==
    ASSUME TimerInv, NEW u \in Users,
           extend_fail(u) \/ \E hours \in ExtendHours : extend_select(u, hours)
    PROVE  TypeOK' /\ UNCHANGED <<hosts, now, tpc, pending, message, sent, told, unseen, lost>>
<1>1. UNCHANGED <<hosts, now, linked, tpc, pending, message, sent, troubles, told, unseen, lost>>
  BY DEF extend_fail, extend_select, loopVars, ghosts
<1>2. PICK chosen \in [ids : SUBSET Hosts, hours : Nat] :
         extending' = [extending EXCEPT ![u] = chosen]
  <2>1. CASE extend_fail(u)
    BY <2>1, NoExtensionsIs DEF extend_fail
  <2>2. ASSUME NEW hours \in ExtendHours, extend_select(u, hours)
        PROVE  \E chosen \in [ids : SUBSET Hosts, hours : Nat] :
                  extending' = [extending EXCEPT ![u] = chosen]
    <3>1. PICK S \in SUBSET Hosts : extending' = [extending EXCEPT ![u] = [ids |-> S, hours |-> hours]]
      BY <2>2 DEF extend_select, get_expiring_hosts_for_user, get_leased_hosts
    <3>2. [ids |-> S, hours |-> hours] \in [ids : SUBSET Hosts, hours : Nat]
      BY ReleaseTimerAssumption
    <3>3. QED BY <3>1, <3>2
  <2>3. QED BY <2>1, <2>2
<1>3. extending' \in [Users -> [ids : SUBSET Hosts, hours : Nat]]
  BY <1>2 DEF TimerInv, TypeOK
<1>4. QED BY <1>1, <1>3 DEF TimerInv, TypeOK

\* What the UPDATE of the selected ids does to the rows: whoever has them by now
\* keeps them, none comes into the window, and what leaves it is unseen.
LEMMA UpdateIs ==
    ASSUME TypeOK, NEW u \in Users, extend_update(u)
    PROVE  /\ \A h \in Hosts : hosts'[h] \in Row
           /\ \A h \in Hosts : hosts'[h].user = hosts[h].user
           /\ \A h \in Hosts : hosts'[h].until # Null <=> hosts[h].until # Null
           /\ Soon' \subseteq Soon
<1>1. PICK ids \in SUBSET Hosts, hours \in Nat : extending[u].ids = ids /\ extending[u].hours = hours
  BY DEF TypeOK
<1>2. PICK more \in Nat : more = hours * Hour
  BY DEF Hour
<1>3. hosts' = [h \in Hosts |-> IF h \in ids /\ hosts[h].until # Null
                                 THEN [hosts[h] EXCEPT !.until = @ + more] ELSE hosts[h]]
  BY <1>1, <1>2 DEF extend_update
<1>4. ASSUME NEW h \in Hosts
      PROVE  /\ hosts'[h] \in Row /\ hosts'[h].user = hosts[h].user
             /\ hosts'[h].until # Null <=> hosts[h].until # Null
             /\ hosts'[h].until # Null => /\ hosts'[h].until \in Int /\ hosts[h].until \in Int
                                          /\ hosts'[h].until >= hosts[h].until
  <2>1. CASE h \in ids /\ hosts[h].until # Null
    <3>1. PICK end \in Int : end = hosts[h].until + more /\ end >= hosts[h].until /\ hosts[h].until \in Int
      BY <2>1, Rows
    <3>2. hosts'[h] = [hosts[h] EXCEPT !.until = end]
      BY <1>3, <2>1, <3>1
    <3>3. hosts[h] \in Row /\ end # Null
      BY Rows, <3>1, ReleaseTimerAssumption
    <3>4. hosts'[h].user = hosts[h].user /\ hosts'[h].until = end /\ hosts'[h] \in Row
      BY <3>2, <3>3 DEF Row
    <3>5. QED BY <2>1, <3>1, <3>3, <3>4
  <2>2. CASE ~(h \in ids /\ hosts[h].until # Null)
    <3>1. hosts'[h] = hosts[h]
      BY <1>3, <2>2
    <3>2. QED BY <3>1, Rows
  <2>3. QED BY <2>1, <2>2
<1>5. now' = now /\ now \in Int
  BY ReleaseTimerAssumption DEF extend_update, Changed, TypeOK
<1>6. Soon' \subseteq Soon
  BY <1>4, <1>5, SoonIs
<1>7. QED BY <1>4, <1>6

\* A lease that is extended keeps its user, and stays in the window or is unseen.
LEMMA ExtendKeeps ==
    ASSUME TimerInv, NEW u \in Users, extend_update(u)
    PROVE  TimerInv'
<1>1. TypeOK /\ told \subseteq Soon /\ Soon \subseteq Hosts
  BY SoonIs DEF TimerInv, ToldInv
<1>2. hosts' \in [Hosts -> Row]
  BY <1>1, UpdateIs DEF extend_update
<1>3. extending' \in [Users -> [ids : SUBSET Hosts, hours : Nat]]
  BY <1>1, NoExtensionsIs DEF extend_update, TypeOK
<1>4. PICK Out : Out = Soon \ Soon' /\ Changed(Out)
  BY DEF extend_update
<1>5. /\ TypeOK' /\ told' = told \ Out /\ unseen' = unseen \cup Out
      /\ UNCHANGED <<now, lost, tpc, pending, message, sent>>
  BY <1>1, <1>2, <1>3, <1>4, ChangedIs
<1>6. \A h \in Hosts : hosts'[h].user = hosts[h].user
  BY <1>1, UpdateIs
<1>7. \A h \in told' : h \in Soon' /\ hosts'[h].user = hosts[h].user
  BY <1>1, <1>4, <1>5, <1>6
<1>8. \A h \in Hosts, v \in Users :
         hosts'[h].user = v =>
            \/ h \in unseen'
            \/ /\ hosts[h].user = v
               /\ h \in Soon => h \in Soon'
               /\ h \in told => h \in told'
  BY <1>4, <1>5, <1>6
<1>9. QED BY <1>5, <1>7, <1>8, TableChanges

\* Steps that leave the loop where it is, and the table.
LEMMA Elsewhere ==
    ASSUME TimerInv, TypeOK',
           UNCHANGED <<hosts, now, tpc, pending, message, sent, told, unseen, lost>>
    PROVE  TimerInv'
<1>1. Soon' = Soon
  BY DEF Soon, get_leased_until_hosts
<1>2. SuppressedInv' /\ ToldInv'
  BY <1>1 DEF TimerInv, SuppressedInv, ToldInv, get_leased_hosts
<1>3. Tells' = Tells
  BY <1>1 DEF Tells
<1>4. NoSecondNotice'
  BY <1>3 DEF TimerInv, NoSecondNotice
<1>5. MessageInv' /\ PendingInv'
  BY <1>1 DEF TimerInv, MessageInv, PendingInv
<1>6. QED BY <1>2, <1>4, <1>5 DEF TimerInv

\* A user links a Telegram account.
LEMMA LinkKeeps ==
    ASSUME TimerInv, NEW u \in Users, link_user(u)
    PROVE  TimerInv'
<1>1. TypeOK'
  BY DEF link_user, loopVars, ghosts, TimerInv, TypeOK
<1>2. QED BY <1>1, Elsewhere DEF link_user, loopVars, ghosts

\* The process stops, and forgets what was sent.
LEMMA CrashKeeps ==
    ASSUME TimerInv, Crash
    PROVE  TimerInv'
<1>1. troubles' \in 0..MaxTroubles
  BY ReleaseTimerAssumption DEF Crash, Trouble, TimerInv, TypeOK
<1>2. QED BY <1>1, Dies DEF Crash

\* The process starts again with nothing sent.
LEMMA RestartKeeps ==
    ASSUME TimerInv, Restart
    PROVE  TimerInv'
<1>1. /\ UNCHANGED <<hosts, now, sent, told, unseen, lost>> /\ tpc' = "release"
  BY DEF Restart, othersVars, ghosts
<1>2. TypeOK'
  BY DEF Restart, othersVars, ghosts, TimerInv, TypeOK
<1>3. QED BY <1>1, <1>2, LoopMoves

\* Leases come into the window, at any step of the loop: nobody has been told of
\* them.
LEMMA TickKeeps ==
    ASSUME TimerInv, Tick
    PROVE  TimerInv'
<1>1. /\ UNCHANGED <<hosts, linked, extending, tpc, pending, message, sent, troubles,
                     told, unseen, lost>>
      /\ now' = now + 1 /\ now < MaxNow
  BY DEF Tick, loopVars, ghosts
<1>2. now \in 0..MaxNow /\ MaxNow \in Nat /\ TypeOK
  BY ReleaseTimerAssumption DEF TimerInv, TypeOK
<1>3. TypeOK'
  BY <1>1, <1>2 DEF TypeOK
<1>4. \A h \in Soon : h \in Soon'
  <2>1. \A h \in Hosts : hosts[h].until # Null => hosts[h].until \in Int
    BY <1>2, Rows
  <2>2. \A h \in Hosts :
          hosts[h].until # Null /\ hosts[h].until < now + 1 => hosts[h].until < now' + 1
    BY <1>1, <1>2, <2>1
  <2>3. QED BY <1>1, <2>2, SoonIs
<1>5. SuppressedInv'
  BY <1>1 DEF TimerInv, SuppressedInv
<1>6. ToldInv'
  BY <1>1, <1>4 DEF TimerInv, ToldInv, get_leased_hosts
<1>7. PendingInv' /\ MessageInv'
  BY <1>1, <1>4 DEF TimerInv, PendingInv, MessageInv
<1>8. NoSecondNotice'
  <2>1. SUFFICES ASSUME tpc = "send", ~lost, NEW h \in Tells', h \in told PROVE FALSE
    BY <1>1 DEF NoSecondNotice
  <2>2. h \in message.owned /\ hosts[h].user = message.user /\ h \in Soon
    BY <1>1, <2>1 DEF Tells, TimerInv, ToldInv
  <2>3. QED BY <2>1, <2>2 DEF TimerInv, NoSecondNotice, Tells
<1>9. QED BY <1>3, <1>5, <1>6, <1>7, <1>8 DEF TimerInv

-----------------------------------------------------------------------------
(***************************************************************************)
(* The theorems.                                                           *)
(***************************************************************************)
LEMMA InitInv ==
    ASSUME Init
    PROVE  TimerInv
<1>1. hosts \in [Hosts -> Row]
  <2>1. [user : Users, until : FirstEnds] \subseteq Row
    BY ReleaseTimerAssumption DEF Row
  <2>2. QED BY <2>1, FreeRowIsRow DEF Init
<1>2. now \in 0..MaxNow /\ troubles \in 0..MaxTroubles
  BY ReleaseTimerAssumption DEF Init
<1>3. TypeOK
  BY <1>1, <1>2, NobodyIs, NoMessageIs, NoExtensionsIs DEF Init, TypeOK
<1>4. \A u \in Users : sent[u] = {}
  BY NobodyIs DEF Init
<1>5. SuppressedInv /\ NoSecondNotice
  BY <1>4 DEF Init, SuppressedInv, NoSecondNotice
<1>6. ToldInv /\ MessageInv /\ PendingInv
  BY DEF Init, ToldInv, MessageInv, PendingInv
<1>7. QED BY <1>3, <1>5, <1>6 DEF TimerInv

\* No step of the loop, of the users, or of the clock breaks the invariant.
LEMMA NextKeeps ==
    ASSUME TimerInv, [Next]_vars
    PROVE  TimerInv'
<1>1. CASE UNCHANGED vars
  <2>1. TypeOK'
    BY <1>1 DEF vars, othersVars, loopVars, ghosts, TimerInv, TypeOK
  <2>2. QED BY <1>1, <2>1, Elsewhere DEF vars, othersVars, loopVars, ghosts
<1>2. CASE Loop
  BY <1>2, ReleaseKeeps, CommitKeeps, ScanKeeps, SendKeeps, TellKeeps, NotifyKeeps DEF Loop
<1>3. CASE Failure
  BY <1>3, ReleaseFailKeeps, ReleaseKeeps, SendKeeps, NotifyFailKeeps DEF Failure
<1>4. CASE Others
  <2>1. \A S \in Wanted : S \in SUBSET Hosts
    BY ReleaseTimerAssumption
  <2>2. QED BY <1>4, <2>1, LeaseKeeps, FreeKeeps, ExtendKeeps, SelectKeeps, Elsewhere, LinkKeeps
            DEF Others
<1>5. QED BY <1>1, <1>2, <1>3, <1>4, CrashKeeps, RestartKeeps, TickKeeps DEF Next

\* What `sent' remembers and what users have been told go together, whoever
\* leases, for however short a time, releases or extends between two steps of
\* the loop, and however long its rounds fail: TimerInv is inductive.
THEOREM TimerInvariant == Spec => []TimerInv
<1>1. QED BY InitInv, NextKeeps, PTL DEF Spec

\* The state of the loop keeps its types: ReleaseTimer!TypeOK.
THEOREM TypeCorrect == Spec => []TypeOK
<1>1. TimerInv => TypeOK
  BY DEF TimerInv
<1>2. QED BY <1>1, TimerInvariant, PTL

\* notify_soon_release leaves out only who has been warned of this lease, or has
\* taken or extended it with no scan since that found the host outside the
\* window, however hosts change hands meanwhile: ReleaseTimer!SuppressedOnlyIfTold.
THEOREM NobodyIsLeftOut == Spec => []SuppressedOnlyIfTold
<1>1. TimerInv => SuppressedOnlyIfTold
  BY DEF TimerInv, SuppressedInv, SuppressedOnlyIfTold, get_leased_hosts
<1>2. QED BY <1>1, TimerInvariant, PTL

\* Nobody is warned twice of one end of a lease while the process lives and
\* Telegram tells the truth: ReleaseTimer!NoSecondNotice.
THEOREM OneNotice == Spec => []NoSecondNotice
<1>1. TimerInv => NoSecondNotice
  BY DEF TimerInv
<1>2. QED BY <1>1, TimerInvariant, PTL

-----------------------------------------------------------------------------
(***************************************************************************)
(* When Notifier::notify can panic.                                        *)
(***************************************************************************)
\* No user releases a host whose warning is still to be written.
NobodyReleases ==
    tpc \in {"notify", "send"} =>
        \A v \in Users, S \in SUBSET Hosts :
            free(v, S) => \A u \in Users : S \cap pending[u] = {}

\* The hosts whose warnings are still to be written have an end of lease.
DueInv ==
    /\ tpc # "panicked"
    /\ tpc \in {"notify", "send"} =>
           \A u \in Users : \A h \in pending[u] : hosts[h].until # Null

\* The steps of the loop that go round the users one by one.
LEMMA UserKeepsDue ==
    ASSUME TimerInv, DueInv, NEW u \in Users,
           notify_released_hosts(u) \/ notify(u) \/ notify_fail(u)
    PROVE  DueInv'
<1>1. CASE notify(u)
  <2>1. hosts' = hosts /\ tpc = "notify"
    BY <1>1 DEF notify
  <2>2. CASE Done(u, "sleep")
    <3>1. tpc' \in {"notify", "sleep"} /\ \A v \in Users : pending'[v] \subseteq pending[v]
      BY <2>1, <2>2, DoneType DEF TimerInv
    <3>2. QED BY <2>1, <3>1 DEF DueInv
  <2>3. CASE tpc' = "send" /\ pending' = pending
    BY <2>1, <2>3 DEF DueInv
  <2>4. \A h \in pending[u] \ sent[u] : hosts[h].until # Null
    BY <2>1 DEF DueInv
  <2>5. QED BY <1>1, <2>2, <2>3, <2>4 DEF notify
<1>2. CASE notify_fail(u)
  <2>1. hosts' = hosts /\ tpc = "notify" /\ Done(u, "sleep")
    BY <1>2 DEF notify_fail
  <2>2. tpc' \in {"notify", "sleep"} /\ \A v \in Users : pending'[v] \subseteq pending[v]
    BY <2>1, DoneType DEF TimerInv
  <2>3. QED BY <2>1, <2>2 DEF DueInv
<1>3. CASE notify_released_hosts(u)
  BY <1>3 DEF DueInv, notify_released_hosts, Done
<1>4. QED BY <1>1, <1>2, <1>3

\* The other steps of the loop and of the process that do not free hosts.
LEMMA LoopKeepsDue ==
    ASSUME TimerInv, DueInv,
           \/ release \/ notify_soon_release \/ wake \/ send_message
           \/ scan_fail \/ send_fail \/ Crash \/ Restart
    PROVE  DueInv'
<1>1. CASE notify_soon_release
  <2>1. hosts' = hosts /\ pending' = ByOwner(Soon) /\ tpc' \in {"sleep", "notify"}
    BY <1>1 DEF notify_soon_release
  <2>2. \A v \in Users : \A h \in pending'[v] : hosts'[h].until # Null
    BY <2>1, SoonIs DEF ByOwner
  <2>3. QED BY <2>1, <2>2 DEF DueInv
<1>2. CASE send_message \/ send_fail
  <2>1. /\ hosts' = hosts /\ tpc = "send" /\ tpc' \in {"notify", "sleep"}
        /\ \A v \in Users : pending'[v] \subseteq pending[v]
    BY <1>2 DEF send_message, send_fail, Sent, TimerInv, TypeOK
  <2>2. QED BY <2>1 DEF DueInv
<1>3. CASE release \/ wake \/ scan_fail \/ Crash \/ Restart
  BY <1>3 DEF DueInv, release, wake, scan_fail, Crash, Die, Restart
<1>4. QED BY <1>1, <1>2, <1>3

\* A lease that starts or goes on has an end.
LEMMA OthersKeepDue ==
    ASSUME TimerInv, DueInv, NobodyReleases, Others
    PROVE  DueInv'
<1>1. TypeOK
  BY DEF TimerInv
<1>2. ASSUME NEW u \in Users, NEW S \in SUBSET Hosts, NEW hours \in LeaseHours, lease(u, S, hours)
      PROVE  DueInv'
  <2>1. PICK end \in Int : end = now + hours * Hour
    BY ReleaseTimerAssumption DEF TypeOK, TimerInv, Hour
  <2>2. \A h \in Hosts : hosts'[h].until = end \/ hosts'[h] = hosts[h]
    BY <1>2, <2>1 DEF lease
  <2>3. end # Null
    BY <2>1, ReleaseTimerAssumption
  <2>4. tpc' = tpc /\ pending' = pending /\ \A v \in Users : pending[v] \subseteq Hosts
    BY <1>1, <1>2 DEF lease, Changed, loopVars, TypeOK
  <2>5. QED BY <2>2, <2>3, <2>4 DEF DueInv
<1>3. ASSUME NEW u \in Users, NEW S \in SUBSET Hosts, free(u, S)
      PROVE  DueInv'
  <2>1. /\ tpc' = tpc /\ pending' = pending /\ \A v \in Users : pending[v] \subseteq Hosts
        /\ \A h \in Hosts \ S : hosts'[h] = hosts[h]
    BY <1>1, <1>3 DEF free, Changed, loopVars, Freed, TypeOK
  <2>2. tpc \in {"notify", "send"} => \A v \in Users : S \cap pending[v] = {}
    BY <1>3 DEF NobodyReleases
  <2>3. QED BY <2>1, <2>2 DEF DueInv
<1>4. ASSUME NEW u \in Users, extend_update(u)
      PROVE  DueInv'
  <2>1. \A h \in Hosts : hosts[h].until # Null => hosts'[h].until # Null
    BY <1>1, <1>4, UpdateIs
  <2>2. tpc' = tpc /\ pending' = pending /\ \A v \in Users : pending[v] \subseteq Hosts
    BY <1>1, <1>4 DEF extend_update, Changed, loopVars, TypeOK
  <2>3. QED BY <2>1, <2>2 DEF DueInv
<1>5. ASSUME NEW u \in Users, link_user(u)
      PROVE  DueInv'
  BY <1>5 DEF link_user, loopVars, DueInv
<1>6. ASSUME NEW u \in Users,
             extend_fail(u) \/ \E hours \in ExtendHours : extend_select(u, hours)
      PROVE  DueInv'
  BY <1>6, SelectKeeps DEF DueInv
<1>7. \A S \in Wanted : S \in SUBSET Hosts
  BY ReleaseTimerAssumption
<1>8. QED BY <1>2, <1>3, <1>4, <1>5, <1>6, <1>7 DEF Others

\* The `unwrap' in Notifier::notify panics only because a user has released a
\* host between the SELECT of notify_soon_release and the read of its row:
\* leases, extensions, links, failures and crashes at that moment do no harm.
THEOREM NoPanicIfNobodyReleases == Spec /\ [][NobodyReleases]_vars => []NoPanic
<1>1. Init => DueInv
  BY DEF Init, DueInv
<1>2. TimerInv /\ DueInv /\ [Next]_vars /\ [NobodyReleases]_vars => DueInv'
  <2> SUFFICES ASSUME TimerInv, DueInv, [Next]_vars, [NobodyReleases]_vars
               PROVE  DueInv'
    OBVIOUS
  <2>1. CASE UNCHANGED vars
    BY <2>1 DEF DueInv, vars, loopVars
  <2>2. CASE Loop
    <3>1. CASE release_commit
      BY <3>1 DEF release_commit, DueInv
    <3>2. QED BY <2>2, <3>1, LoopKeepsDue, UserKeepsDue DEF Loop
  <2>3. CASE Failure
    <3>1. CASE release_fail
      BY <3>1 DEF release_fail, DueInv
    <3>2. QED BY <2>3, <3>1, LoopKeepsDue, UserKeepsDue DEF Failure
  <2>4. CASE Others
    BY <2>1, <2>4, OthersKeepDue
  <2>5. CASE Crash \/ Restart
    BY <2>5, LoopKeepsDue
  <2>6. CASE Tick
    BY <2>6 DEF Tick, loopVars, DueInv
  <2>7. QED BY <2>1, <2>2, <2>3, <2>4, <2>5, <2>6 DEF Next
<1>3. DueInv => NoPanic
  BY DEF DueInv, NoPanic
<1>4. QED BY <1>1, <1>2, <1>3, TimerInvariant, PTL DEF Spec

=============================================================================
