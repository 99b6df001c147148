----------------------------- MODULE PoolProofs -----------------------------
(***************************************************************************)
(* Theorems about Pool, for every pool of at least two connections, every  *)
(* set of requests and routes, and any number of notices in a round.       *)
(***************************************************************************)
EXTENDS Pool, TLAPS

-----------------------------------------------------------------------------
(***************************************************************************)
(* The inductive invariant: who holds how many connections, and where.     *)
(***************************************************************************)
AtMostOne(p) == \A c, d \in Connections : holder[c] = p /\ holder[d] = p => c = d

AtMostTwo(p) ==
    \A c, d, e \in Connections :
        holder[c] = p /\ holder[d] = p /\ holder[e] = p => c = d \/ d = e \/ c = e

HoldsNone(p) == \A c \in Connections : holder[c] # p

Working(p) == pc[p] \in {"work", "changed"}

\* A request holds a connection while it works on a transaction, and one only.
RequestsInv ==
    \A r \in Requests : AtMostOne(r) /\ (~Working(r) => HoldsNone(r))

\* Whoever works on a transaction has a connection, and so has, in particular,
\* whoever has changed the row.
WorkInv ==
    /\ \A p \in Parties : Working(p) => ~HoldsNone(p)
    /\ row # Null => pc[row] = "changed"

\* The timer holds a second connection in the notices of notify_soon_release
\* only, and then goes on with it.
TimerInv ==
    /\ pc[Timer] \in {"begin", "work", "changed", "asleep"}
    /\ stage = "sleep" <=> pc[Timer] = "asleep"
    /\ pc[Timer] = "changed" => stage = "release"
    /\ stage \in {"tell", "warn"} => left # 0
    /\ AtMostTwo(Timer)
    /\ stage # "warn" => AtMostOne(Timer)
    /\ pc[Timer] = "begin" => AtMostOne(Timer)
    /\ pc[Timer] = "begin" /\ stage # "warn" => HoldsNone(Timer)
    /\ pc[Timer] = "asleep" => HoldsNone(Timer)

PoolInv == TypeOK /\ RequestsInv /\ WorkInv /\ TimerInv

-----------------------------------------------------------------------------
(***************************************************************************)
(* Connections given back.                                                 *)
(***************************************************************************)
\* A transaction that is dropped: its party holds nothing and has changed
\* nothing, and nobody else is touched.
LEMMA GiveBackAllEffect ==
    ASSUME TypeOK, NEW p \in Parties, GiveBackAll(p)
    PROVE  /\ holder' \in [Connections -> Parties \cup {Null}]
           /\ HoldsNone(p)'
           /\ \A c \in Connections, q \in Parties :
                 q # p => (holder'[c] = q <=> holder[c] = q)
           /\ row' \in Parties \cup {Null}
           /\ row' # p
           /\ row' # Null => row' = row
<1>1. \A q \in Parties : q # Null
  BY PoolAssumption
<1>2. QED BY <1>1 DEF GiveBackAll, TypeOK, HoldsNone

\* One connection given back: of two, one is left, of one, none.
LEMMA GiveBackEffect ==
    ASSUME TypeOK, NEW p \in Parties, NEW e \in Connections, holder[e] = p,
           GiveBack(p, e)
    PROVE  /\ holder' \in [Connections -> Parties \cup {Null}]
           /\ AtMostOne(p) => HoldsNone(p)'
           /\ AtMostTwo(p) => AtMostOne(p)'
           /\ \A c \in Connections, q \in Parties :
                 q # p => (holder'[c] = q <=> holder[c] = q)
           /\ row' \in Parties \cup {Null}
           /\ row' # p
           /\ row' # Null => row' = row
<1>1. \A q \in Parties : q # Null
  BY PoolAssumption
<1>2. \A c \in Connections : holder'[c] = IF c = e THEN Null ELSE holder[c]
  BY DEF GiveBack, TypeOK
<1>3. QED BY <1>1, <1>2 DEF GiveBack, TypeOK, AtMostOne, AtMostTwo, HoldsNone

\* What a step of one party that gives its connections back leaves to show.
LEMMA RequestLetsGo ==
    ASSUME PoolInv, NEW r \in Requests, HoldsNone(r)',
           holder' \in [Connections -> Parties \cup {Null}],
           row' \in Parties \cup {Null}, row' # r, row' # Null => row' = row,
           \A c \in Connections, q \in Parties : q # r => (holder'[c] = q <=> holder[c] = q),
           NEW where, where \in {"begin", "ask"} \cup Ended, Become(r, where),
           req' \in [Requests -> [route : UsedRoutes \cup {Null}, at : Nat \ {0}]],
           UNCHANGED timerVars
    PROVE  PoolInv'
<1>1. r \in Parties /\ r # Timer /\ Timer \in Parties /\ \A q \in Parties : q # Null
  BY PoolAssumption DEF Parties
<1>2. \A q \in Parties : pc'[q] = IF q = r THEN where ELSE pc[q]
  BY DEF Become, PoolInv, TypeOK
<1>3. TypeOK'
  BY <1>1 DEF PoolInv, TypeOK, Become, Ended, timerVars
<1>4. RequestsInv'
  <2>1. ASSUME NEW q \in Requests PROVE (AtMostOne(q) /\ (~Working(q) => HoldsNone(q)))'
    <3>1. CASE q = r
      BY <3>1 DEF AtMostOne, HoldsNone
    <3>2. CASE q # r
      <4>1. q \in Parties /\ AtMostOne(q) /\ (~Working(q) => HoldsNone(q)) /\ pc'[q] = pc[q]
        BY <1>2, <3>2 DEF PoolInv, RequestsInv, Parties
      <4>2. QED BY <3>2, <4>1 DEF AtMostOne, HoldsNone, Working
    <3>3. QED BY <3>1, <3>2
  <2>2. QED BY <2>1 DEF RequestsInv
<1>5. WorkInv'
  <2>1. ASSUME NEW q \in Parties, Working(q)' PROVE ~HoldsNone(q)'
    <3>1. q # r /\ Working(q)
      BY <1>2, <2>1 DEF Working, Ended
    <3>2. QED BY <3>1 DEF PoolInv, WorkInv, HoldsNone
  <2>2. row' # Null => pc'[row'] = "changed"
    BY <1>2 DEF PoolInv, WorkInv
  <2>3. QED BY <2>1, <2>2 DEF WorkInv
<1>6. TimerInv'
  <2>1. \A c \in Connections : holder'[c] = Timer <=> holder[c] = Timer
    BY <1>1
  <2>2. pc'[Timer] = pc[Timer] /\ stage' = stage /\ left' = left
    BY <1>1, <1>2 DEF timerVars
  <2>3. QED BY <2>1, <2>2 DEF PoolInv, TimerInv, AtMostOne, AtMostTwo, HoldsNone
<1>7. QED BY <1>3, <1>4, <1>5, <1>6 DEF PoolInv

\* What a step of the timer leaves to show: that it keeps nothing but, within
\* the notices of notify_soon_release, one connection.
LEMMA TimerMoves ==
    ASSUME PoolInv, AtMostOne(Timer)', NEW s \in Stages, NEW where,
           where = IF s = "sleep" THEN "asleep" ELSE "begin", Become(Timer, where),
           s # "warn" => HoldsNone(Timer)',
           NEW n \in 0..MaxNotices, s \in {"tell", "warn"} => n # 0,
           stage' = s, left' = n,
           holder' \in [Connections -> Parties \cup {Null}],
           row' \in Parties \cup {Null}, row' # Timer, row' # Null => row' = row,
           \A c \in Connections, q \in Parties :
              q # Timer => (holder'[c] = q <=> holder[c] = q),
           UNCHANGED req
    PROVE  PoolInv'
<1>1. Timer \in Parties /\ \A q \in Parties : q # Null
  BY PoolAssumption DEF Parties
<1>2. \A q \in Parties : pc'[q] = IF q = Timer THEN where ELSE pc[q]
  BY DEF Become, PoolInv, TypeOK
<1>3. TypeOK'
  BY <1>1 DEF PoolInv, TypeOK, Become, Ended, Stages
<1>4. RequestsInv'
  <2>1. ASSUME NEW q \in Requests PROVE (AtMostOne(q) /\ (~Working(q) => HoldsNone(q)))'
    <3>1. q \in Parties /\ q # Timer /\ pc'[q] = pc[q]
      BY <1>2, PoolAssumption DEF Parties
    <3>2. AtMostOne(q) /\ (~Working(q) => HoldsNone(q))
      BY DEF PoolInv, RequestsInv
    <3>3. QED BY <3>1, <3>2 DEF AtMostOne, HoldsNone, Working
  <2>2. QED BY <2>1 DEF RequestsInv
<1>5. WorkInv'
  <2>1. ASSUME NEW q \in Parties, Working(q)' PROVE ~HoldsNone(q)'
    <3>1. q # Timer /\ Working(q)
      BY <1>2, <2>1 DEF Working
    <3>2. QED BY <3>1 DEF PoolInv, WorkInv, HoldsNone
  <2>2. row' # Null => pc'[row'] = "changed"
    BY <1>2 DEF PoolInv, WorkInv
  <2>3. QED BY <2>1, <2>2 DEF WorkInv
<1>6. TimerInv'
  <2>1. pc'[Timer] = where
    BY <1>1, <1>2
  <2>2. AtMostTwo(Timer)'
    BY DEF AtMostOne, AtMostTwo
  <2>3. QED BY <2>1, <2>2 DEF TimerInv, Stages
<1>7. QED BY <1>3, <1>4, <1>5, <1>6 DEF PoolInv

-----------------------------------------------------------------------------
(***************************************************************************)
(* The steps.                                                              *)
(***************************************************************************)
\* A party that has no connection takes a free one.
LEMMA BeginKeeps ==
    ASSUME PoolInv, NEW p \in Parties, begin(p)
    PROVE  PoolInv'
<1>1. PICK e \in Connections : holder[e] = Null /\ holder' = [holder EXCEPT ![e] = p]
  BY DEF begin, Free
<1>2. Timer \in Parties /\ \A q \in Parties : q # Null
  BY PoolAssumption DEF Parties
<1>3. \A c \in Connections, q \in Parties :
        holder'[c] = q <=> (IF c = e THEN q = p ELSE holder[c] = q)
  BY <1>1, <1>2 DEF PoolInv, TypeOK
<1>4. \A q \in Parties : pc'[q] = IF q = p THEN "work" ELSE pc[q]
  BY DEF begin, Become, PoolInv, TypeOK
<1>5. TypeOK'
  BY <1>1 DEF PoolInv, TypeOK, begin, Become, timerVars
<1>6. RequestsInv'
  <2>1. ASSUME NEW q \in Requests PROVE (AtMostOne(q) /\ (~Working(q) => HoldsNone(q)))'
    <3>1. q \in Parties
      BY DEF Parties
    <3>2. AtMostOne(q) /\ (~Working(q) => HoldsNone(q))
      BY DEF PoolInv, RequestsInv
    <3>3. CASE q = p
      <4>1. HoldsNone(q)
        BY <3>2, <3>3 DEF begin, Working
      <4>2. QED BY <1>3, <1>4, <3>1, <3>3, <4>1 DEF AtMostOne, HoldsNone, Working
    <3>4. CASE q # p
      BY <1>3, <1>4, <3>1, <3>2, <3>4 DEF AtMostOne, HoldsNone, Working
    <3>5. QED BY <3>3, <3>4
  <2>2. QED BY <2>1 DEF RequestsInv
<1>7. WorkInv'
  <2>1. ASSUME NEW q \in Parties, Working(q)' PROVE ~HoldsNone(q)'
    <3>1. CASE q = p
      BY <1>3, <3>1 DEF HoldsNone
    <3>2. CASE q # p
      <4>1. ~HoldsNone(q)
        BY <1>4, <2>1, <3>2 DEF PoolInv, WorkInv, Working
      <4>2. PICK c \in Connections : holder[c] = q
        BY <4>1 DEF HoldsNone
      <4>3. QED BY <1>1, <1>2, <1>3, <4>2 DEF HoldsNone
    <3>3. QED BY <3>1, <3>2
  <2>2. row' = row /\ (row # Null => row # p /\ row \in Parties)
    BY DEF begin, PoolInv, WorkInv, TypeOK
  <2>3. QED BY <1>4, <2>1, <2>2 DEF WorkInv, PoolInv
<1>8. TimerInv'
  <2>1. stage' = stage /\ left' = left
    BY DEF begin, timerVars
  <2>2. CASE p = Timer
    <3>1. pc[Timer] = "begin" /\ stage # "sleep" /\ pc'[Timer] = "work"
      BY <1>2, <1>4, <2>2 DEF begin, PoolInv, TimerInv
    <3>2. AtMostOne(Timer) /\ (stage # "warn" => HoldsNone(Timer))
      BY <3>1 DEF PoolInv, TimerInv
    <3>3. AtMostTwo(Timer)'
      BY <1>2, <1>3, <2>2, <3>2 DEF AtMostOne, AtMostTwo
    <3>4. stage # "warn" => AtMostOne(Timer)'
      BY <1>2, <1>3, <2>2, <3>2 DEF AtMostOne, HoldsNone
    <3>5. QED BY <2>1, <3>1, <3>3, <3>4 DEF PoolInv, TimerInv
  <2>3. CASE p # Timer
    <3>1. \A c \in Connections : holder'[c] = Timer <=> holder[c] = Timer
      BY <1>1, <1>2, <1>3, <2>3
    <3>2. pc'[Timer] = pc[Timer]
      BY <1>2, <1>4, <2>3
    <3>3. QED BY <2>1, <3>1, <3>2 DEF PoolInv, TimerInv, AtMostOne, AtMostTwo, HoldsNone
  <2>4. QED BY <2>2, <2>3
<1>9. QED BY <1>5, <1>6, <1>7, <1>8 DEF PoolInv

\* A party changes the row when nobody else has.
LEMMA ChangeKeeps ==
    ASSUME PoolInv, NEW p \in Parties, p = Timer => stage = "release", Change(p)
    PROVE  PoolInv'
<1>1. Timer \in Parties /\ \A q \in Parties : q # Null
  BY PoolAssumption DEF Parties
<1>2. \A q \in Parties : pc'[q] = IF q = p THEN "changed" ELSE pc[q]
  BY DEF Change, Become, PoolInv, TypeOK
<1>3. \A q \in Parties : Working(q)' <=> Working(q)
  BY <1>2 DEF Change, Working
<1>4. TypeOK'
  BY DEF PoolInv, TypeOK, Change, Become, timerVars
<1>5. RequestsInv'
  BY <1>3 DEF PoolInv, RequestsInv, AtMostOne, HoldsNone, Change, Parties
<1>6. WorkInv'
  <2>1. \A q \in Parties : HoldsNone(q)' <=> HoldsNone(q)
    BY DEF HoldsNone, Change
  <2>2. row' = p /\ pc'[p] = "changed"
    BY <1>2 DEF Change
  <2>3. QED BY <1>3, <2>1, <2>2 DEF PoolInv, WorkInv
<1>7. TimerInv'
  <2>1. pc'[Timer] = pc[Timer] \/ (p = Timer /\ pc[Timer] = "work" /\ pc'[Timer] = "changed")
    BY <1>1, <1>2 DEF Change
  <2>2. QED BY <2>1 DEF PoolInv, TimerInv, AtMostOne, AtMostTwo, HoldsNone, Change, timerVars
<1>8. QED BY <1>4, <1>5, <1>6, <1>7 DEF PoolInv

RequestPc == {"begin", "ask"} \cup Ended

ReqType == [Requests -> [route : UsedRoutes \cup {Null}, at : Nat \ {0}]]

\* A request comes to a call or ends.
LEMMA ReachMoves ==
    ASSUME PoolInv, NEW r \in Requests, NEW route \in UsedRoutes \cup {Null},
           NEW at \in Nat \ {0}, Reach(r, route, at)
    PROVE  req' \in ReqType /\ \E where \in RequestPc : Become(r, where)
BY DEF PoolInv, TypeOK, Reach, ReqType, RequestPc

\* A request that ends keeps the types and goes to one of the ends.
LEMMA EndMoves ==
    ASSUME PoolInv, NEW r \in Requests, NEW how \in Ended, End(r, how)
    PROVE  req' \in ReqType /\ \E where \in RequestPc : Become(r, where)
<1>1. NoRequest \in [route : UsedRoutes \cup {Null}, at : Nat \ {0}]
  BY DEF NoRequest
<1>2. req' \in ReqType
  BY <1>1 DEF PoolInv, TypeOK, End, ReqType
<1>3. how \in RequestPc /\ Become(r, how)
  BY DEF End, RequestPc
<1>4. QED BY <1>2, <1>3

\* A request that is through with one call goes on to its next, or ends.
LEMMA AdvanceMoves ==
    ASSUME PoolInv, NEW r \in Requests, Advance(r)
    PROVE  req' \in ReqType /\ \E where \in RequestPc : Become(r, where)
<1>1. req[r].route \in UsedRoutes \cup {Null} /\ req[r].at + 1 \in Nat \ {0}
  BY DEF PoolInv, TypeOK
<1>2. End(r, "answered") \/ Reach(r, req[r].route, req[r].at + 1)
  BY DEF Advance
<1>3. QED BY <1>1, <1>2, EndMoves, ReachMoves DEF Ended

\* A request that is not at work holds nothing and has not changed the row.
LEMMA IdleRequest ==
    ASSUME PoolInv, NEW r \in Requests, ~Working(r)
    PROVE  HoldsNone(r) /\ row # r
<1>1. r \in Parties /\ r # Null
  BY PoolAssumption DEF Parties
<1>2. QED BY <1>1 DEF PoolInv, RequestsInv, WorkInv, Working

\* What is left to show of a step in which a request drops its transaction.
LEMMA RequestDrops ==
    ASSUME PoolInv, NEW r \in Requests, GiveBackAll(r), UNCHANGED timerVars,
           req' \in ReqType, \E where \in RequestPc : Become(r, where)
    PROVE  PoolInv'
<1>1. r \in Parties
  BY DEF Parties
<1>2. TypeOK
  BY DEF PoolInv
<1>3. PICK where \in RequestPc : Become(r, where)
  OBVIOUS
<1>4. QED BY <1>1, <1>2, <1>3, GiveBackAllEffect, RequestLetsGo DEF ReqType, RequestPc

\* ... in which it gives its connection back.
LEMMA RequestGivesBack ==
    ASSUME PoolInv, NEW r \in Requests, \E c \in Held(r) : GiveBack(r, c),
           UNCHANGED timerVars,
           req' \in ReqType, \E where \in RequestPc : Become(r, where)
    PROVE  PoolInv'
<1>1. r \in Parties
  BY DEF Parties
<1>2. TypeOK /\ AtMostOne(r)
  BY DEF PoolInv, RequestsInv
<1>3. PICK where \in RequestPc : Become(r, where)
  OBVIOUS
<1>4. PICK c \in Connections : holder[c] = r /\ GiveBack(r, c)
  BY DEF Held
<1>5. QED BY <1>1, <1>2, <1>3, <1>4, GiveBackEffect, RequestLetsGo DEF ReqType, RequestPc

\* ... in which it has none.
LEMMA RequestMoves ==
    ASSUME PoolInv, NEW r \in Requests, ~Working(r), UNCHANGED <<holder, row, timerVars>>,
           req' \in ReqType, \E where \in RequestPc : Become(r, where)
    PROVE  PoolInv'
<1>1. HoldsNone(r) /\ row # r
  BY IdleRequest
<1>2. PICK where \in RequestPc : Become(r, where)
  OBVIOUS
<1>3. HoldsNone(r)'
  BY <1>1 DEF HoldsNone
<1>4. holder \in [Connections -> Parties \cup {Null}] /\ row \in Parties \cup {Null}
  BY DEF PoolInv, TypeOK
<1>5. QED BY <1>1, <1>2, <1>3, <1>4, RequestLetsGo DEF ReqType, RequestPc

\* Every step of a request.
LEMMA RequestKeeps ==
    ASSUME PoolInv, NEW r \in Requests,
           \/ \E route \in UsedRoutes : arrive(r, route)
           \/ Serve(r) \/ fail(r) \/ hang_up(r)
    PROVE  PoolInv'
<1>1. r \in Parties /\ r # Timer
  BY PoolAssumption DEF Parties
<1>2. ASSUME NEW route \in UsedRoutes, arrive(r, route) PROVE PoolInv'
  <2>1. ~Working(r)
    BY <1>2 DEF arrive, Busy, Ended, Working
  <2>2. req' \in ReqType /\ \E where \in RequestPc : Become(r, where)
    BY <1>2, ReachMoves DEF arrive
  <2>3. QED BY <1>2, <2>1, <2>2, RequestMoves DEF arrive
<1>3. CASE begin(r)
  BY <1>1, <1>3, BeginKeeps
<1>4. CASE ask(r)
  <2>1. ~Working(r)
    BY <1>4 DEF ask, Working
  <2>2. req' \in ReqType /\ \E where \in RequestPc : Become(r, where)
    BY <1>4, AdvanceMoves, EndMoves DEF ask, Ended
  <2>3. QED BY <1>4, <2>1, <2>2, RequestMoves DEF ask
<1>5. CASE change(r)
  BY <1>1, <1>5, ChangeKeeps DEF change
<1>6. CASE finish(r)
  BY <1>6, AdvanceMoves, RequestGivesBack DEF finish
<1>7. CASE finish_early(r)
  BY <1>7, EndMoves, RequestGivesBack DEF finish_early, Ended
<1>8. CASE panic(r)
  BY <1>8, EndMoves, RequestDrops DEF panic, Ended
<1>9. CASE fail(r)
  BY <1>9, EndMoves, RequestDrops DEF fail, Ended
<1>10. CASE hang_up(r)
  BY <1>10, EndMoves, RequestDrops DEF hang_up, Ended
<1>11. QED BY <1>2, <1>3, <1>4, <1>5, <1>6, <1>7, <1>8, <1>9, <1>10 DEF Serve

\* What is left to show of a step in which the timer gives everything back.
LEMMA TimerDrops ==
    ASSUME PoolInv, GiveBackAll(Timer), UNCHANGED req,
           NEW n \in 0..MaxNotices,
           \/ \E s \in {"release", "look"} : Enter(s, n)
           \/ n # 0 /\ Enter("tell", n)
           \/ Sleep
    PROVE  PoolInv'
<1>1. Timer \in Parties /\ TypeOK
  BY DEF Parties, PoolInv
<1>2. HoldsNone(Timer)' /\ AtMostOne(Timer)'
  BY <1>1, GiveBackAllEffect DEF HoldsNone, AtMostOne
<1>3. 0 \in 0..MaxNotices
  BY PoolAssumption
<1>4. ASSUME NEW s \in {"release", "look"}, Enter(s, n) PROVE PoolInv'
  BY <1>1, <1>2, <1>4, GiveBackAllEffect, TimerMoves DEF Enter, Stages
<1>5. CASE n # 0 /\ Enter("tell", n)
  BY <1>1, <1>2, <1>5, GiveBackAllEffect, TimerMoves DEF Enter, Stages
<1>6. CASE Sleep
  BY <1>1, <1>2, <1>3, <1>6, GiveBackAllEffect, TimerMoves DEF Sleep, Stages
<1>7. QED BY <1>4, <1>5, <1>6

\* ... in which it keeps what it has.
LEMMA TimerKeepsWhatItHas ==
    ASSUME PoolInv, AtMostOne(Timer), pc[Timer] # "changed",
           UNCHANGED <<holder, row, req>>,
           NEW s \in Stages \ {"sleep"}, NEW n \in 0..MaxNotices,
           s # "warn" => HoldsNone(Timer), s \in {"tell", "warn"} => n # 0,
           Enter(s, n)
    PROVE  PoolInv'
<1>1. Timer \in Parties /\ Timer # Null
  BY PoolAssumption DEF Parties
<1>2. row # Timer /\ row \in Parties \cup {Null}
  BY <1>1 DEF PoolInv, WorkInv, TypeOK
<1>3. AtMostOne(Timer)' /\ (s # "warn" => HoldsNone(Timer)')
  BY DEF AtMostOne, HoldsNone
<1>4. holder \in [Connections -> Parties \cup {Null}]
  BY DEF PoolInv, TypeOK
<1>5. QED BY <1>2, <1>3, <1>4, TimerMoves DEF Enter

\* Every step of the timer.
LEMMA TimerKeeps ==
    ASSUME PoolInv, Tick \/ release_fail \/ tell_fail \/ look_fail \/ warn_fail
    PROVE  PoolInv'
<1>1. Timer \in Parties /\ left \in 0..MaxNotices /\ TimerInv /\ TypeOK
  BY DEF Parties, PoolInv, TypeOK
<1>2. 0 \in 0..MaxNotices /\ (left # 0 => left - 1 \in 0..MaxNotices)
  BY <1>1, PoolAssumption
<1>3. ASSUME NEW n \in 0..MaxNotices, release(n) PROVE PoolInv'
  BY <1>2, <1>3, TimerDrops DEF release
<1>4. ASSUME NEW n \in 0..MaxNotices, look(n) PROVE PoolInv'
  <2>1. CASE n = 0
    BY <1>4, <2>1, TimerDrops DEF look
  <2>2. CASE n # 0
    <3>1. AtMostOne(Timer) /\ pc[Timer] # "changed"
      BY <1>1, <1>4 DEF look, At, TimerInv
    <3>2. QED BY <1>4, <2>2, <3>1, TimerKeepsWhatItHas DEF look, Stages
  <2>3. QED BY <2>1, <2>2
<1>5. CASE begin(Timer)
  BY <1>1, <1>5, BeginKeeps
<1>6. CASE release_change
  BY <1>1, <1>6, ChangeKeeps DEF release_change
<1>7. CASE release_fail
  BY <1>2, <1>7, TimerDrops DEF release_fail
<1>8. CASE tell
  BY <1>1, <1>2, <1>8, TimerDrops DEF tell, At, TimerInv, NextNotice
<1>9. CASE tell_fail
  <2>1. HoldsNone(Timer) /\ AtMostOne(Timer) /\ left # 0 /\ pc[Timer] # "changed"
    BY <1>1, <1>9 DEF tell_fail, At, TimerInv
  <2>2. QED BY <1>1, <1>2, <1>9, <2>1, TimerKeepsWhatItHas
            DEF tell_fail, NextNotice, Stages
<1>10. CASE look_fail
  BY <1>2, <1>10, TimerDrops DEF look_fail
<1>11. CASE warn
  <2>1. CASE left = 1
    BY <1>2, <1>11, <2>1, TimerDrops DEF warn
  <2>2. CASE left # 1
    <3>1. PICK c \in Connections : holder[c] = Timer /\ GiveBack(Timer, c)
      BY <1>11, <2>2 DEF warn, Held
    <3>2. AtMostOne(Timer)'
      BY <1>1, <3>1, GiveBackEffect DEF TimerInv
    <3>3. left # 0 /\ left - 1 # 0
      BY <1>1, <1>11, <2>2 DEF warn, At, TimerInv
    <3>4. Enter("warn", left - 1) /\ UNCHANGED req
      BY <1>11, <2>2 DEF warn
    <3>5. QED BY <1>1, <1>2, <3>1, <3>2, <3>3, <3>4, GiveBackEffect, TimerMoves
              DEF Enter, Stages
  <2>3. QED BY <2>1, <2>2
<1>12. CASE warn_fail
  <2>1. CASE left = 1
    BY <1>2, <1>12, <2>1, TimerDrops DEF warn_fail
  <2>2. CASE left # 1
    <3>1. AtMostOne(Timer) /\ left # 0 /\ left - 1 # 0 /\ pc[Timer] # "changed"
      BY <1>1, <1>12, <2>2 DEF warn_fail, At, TimerInv
    <3>2. QED BY <1>2, <1>12, <2>2, <3>1, TimerKeepsWhatItHas DEF warn_fail, Stages
  <2>3. QED BY <2>1, <2>2
<1>13. CASE wake
  <2>1. HoldsNone(Timer) /\ pc[Timer] # "changed"
    BY <1>1, <1>13 DEF wake, TimerInv
  <2>2. AtMostOne(Timer)
    BY <2>1 DEF HoldsNone, AtMostOne
  <2>3. QED BY <1>2, <1>13, <2>1, <2>2, TimerKeepsWhatItHas DEF wake, Stages
<1>14. QED BY <1>3, <1>4, <1>5, <1>6, <1>7, <1>8, <1>9, <1>10, <1>11, <1>12, <1>13 DEF Tick

-----------------------------------------------------------------------------
(***************************************************************************)
(* The theorems.                                                           *)
(***************************************************************************)
LEMMA InitInv ==
    ASSUME Init
    PROVE  PoolInv
<1>1. \A p \in Parties : p # Null
  BY PoolAssumption
<1>2. NoRequest \in [route : UsedRoutes \cup {Null}, at : Nat \ {0}]
  BY DEF NoRequest
<1>3. TypeOK
  BY <1>2, PoolAssumption DEF Init, TypeOK, Ended, Stages
<1>4. \A p \in Parties : HoldsNone(p) /\ AtMostOne(p) /\ AtMostTwo(p) /\ ~Working(p)
  BY <1>1 DEF Init, HoldsNone, AtMostOne, AtMostTwo, Working
<1>5. RequestsInv
  BY <1>4 DEF RequestsInv, Parties
<1>6. WorkInv
  BY <1>4 DEF WorkInv, Init
<1>7. Timer \in Parties
  BY DEF Parties
<1>8. TimerInv
  BY <1>4, <1>7 DEF TimerInv, Init
<1>9. QED BY <1>3, <1>5, <1>6, <1>8 DEF PoolInv

\* No step of a request or of the timer breaks the invariant.
LEMMA NextKeeps ==
    ASSUME PoolInv, [Next]_vars
    PROVE  PoolInv'
<1>1. CASE UNCHANGED vars
  <2>1. TypeOK'
    BY <1>1 DEF vars, PoolInv, TypeOK
  <2>2. RequestsInv' /\ WorkInv' /\ TimerInv'
    BY <1>1 DEF vars, PoolInv, RequestsInv, WorkInv, TimerInv, AtMostOne, AtMostTwo,
                HoldsNone, Working
  <2>3. QED BY <2>1, <2>2 DEF PoolInv
<1>2. CASE Next
  BY <1>2, RequestKeeps, TimerKeeps DEF Next
<1>3. QED BY <1>1, <1>2

\* Every transaction of the handlers and of the timer works on a connection of
\* its own, and only notify_soon_release holds two: PoolInv is inductive.
THEOREM PoolInvariant == Spec => []PoolInv
<1>1. QED BY InitInv, NextKeeps, PTL DEF Spec

\* The state of the pool keeps its types: Pool!TypeOK.
THEOREM TypeCorrect == Spec => []TypeOK
<1>1. PoolInv => TypeOK
  BY DEF PoolInv
<1>2. QED BY <1>1, PoolInvariant, PTL

\* Whoever works on a transaction and does not wait for a row can go on.
LEMMA WorkerRuns ==
    ASSUME PoolInv, NEW p \in Parties, Working(p), ~WaitsForRow(p)
    PROVE  Runs(p)
<1>1. PICK c \in Connections : holder[c] = p
  BY DEF PoolInv, WorkInv, HoldsNone
<1>2. pc[p] # "begin"
  BY DEF Working
<1>3. QED BY <1>1, <1>2 DEF Runs, Held, Waits, WaitsForConnection

\* With a connection nobody has, or a holder that waits for nothing, somebody
\* can go on.
LEMMA SomebodyRuns ==
    ASSUME PoolInv
    PROVE  NobodyStuck
<1>1. Timer \in Parties /\ Timer \notin Requests /\ Null \notin Parties
  BY PoolAssumption DEF Parties
<1>2. CASE row # Null
  <2>1. row \in Parties /\ pc[row] = "changed"
    BY <1>2 DEF PoolInv, TypeOK, WorkInv
  <2>2. Working(row) /\ ~WaitsForRow(row)
    BY <2>1 DEF Working, WaitsForRow
  <2>3. QED BY <2>1, <2>2, WorkerRuns DEF NobodyStuck
<1>3. CASE row = Null
  <2>1. \A p \in Parties : ~WaitsForRow(p)
    BY <1>3 DEF WaitsForRow
  <2>2. SUFFICES ASSUME NEW p \in Parties, Waits(p)
                 PROVE  \E q \in Parties : Runs(q)
    BY DEF NobodyStuck
  <2>3. \A c \in Connections : holder[c] # Null
    BY <2>1, <2>2 DEF Waits, WaitsForConnection, Free
  <2>4. PICK c, d \in Connections : c # d
    BY TwoConnections
  <2>5. holder[c] \in Parties /\ holder[d] \in Parties
    BY <2>3 DEF PoolInv, TypeOK
  <2>6. ASSUME NEW q \in Requests, NEW e \in Connections, holder[e] = q
        PROVE  Runs(q)
    <3>1. q \in Parties /\ Working(q)
      BY <2>6 DEF Parties, PoolInv, RequestsInv, HoldsNone
    <3>2. QED BY <2>1, <3>1, WorkerRuns
  <2>7. CASE holder[c] = Timer /\ holder[d] = Timer
    <3>1. ~AtMostOne(Timer)
      BY <2>4, <2>7 DEF AtMostOne
    <3>2. Working(Timer)
      BY <3>1 DEF PoolInv, TimerInv, Working
    <3>3. QED BY <1>1, <2>1, <3>2, WorkerRuns
  <2>8. QED BY <2>5, <2>6, <2>7 DEF Parties
<1>4. QED BY <1>2, <1>3

\* However many requests there are, and whatever they ask for, a pool of two
\* connections is enough for the timer and the requests never all to wait for
\* each other: Pool!NobodyStuck.
THEOREM NobodyStuckHolds == Spec => []NobodyStuck
<1>1. QED BY SomebodyRuns, PoolInvariant, PTL

=============================================================================
