----------------------------- MODULE LeaseBook -----------------------------
(***************************************************************************)
(* What the lease operations promise, with no transactions in sight.  The  *)
(* book says who holds which host and until when.  A task asks for one     *)
(* operation, which fixes the hosts it is about; later the operation is    *)
(* carried out on all of them at one moment, or dropped without a trace.   *)
(*   - A lease is for the hosts the user names; a user who sends one lease *)
(*     request at a time gets none they have already and not more than     *)
(*     their limit.                                                        *)
(*   - A release is of the user's own hosts, when it is asked for and when *)
(*     it is carried out: a host that is another's by then is let go.      *)
(*   - The timer ends exactly the leases that are over when it looks.      *)
(*   - A button extends all hosts of one user that are about to be over    *)
(*     when it is pressed, except those released meanwhile.                *)
(***************************************************************************)
EXTENDS Integers, FiniteSets

CONSTANTS
    Hosts, Users, SerialUsers, Limit(_), Null,
    Tasks,      \* who asks for operations, one at a time
    Window      \* how long before its end a lease is about to be over

VARIABLES
    book,       \* the owner and the end of each lease
    ops,        \* what each task has asked for
    now

Free == [user |-> Null, until |-> Null]
Nothing == [kind |-> "none", user |-> Null, hosts |-> {}, arg |-> 0]

Leased(u) == {h \in Hosts : book[h].user = u}
OverBefore(time) == {h \in Hosts : book[h] # Free /\ book[h].until < time}

-----------------------------------------------------------------------------
\* The operations a task can ask for.
Asked(op) ==
    \/ /\ op.kind = "lease"
       /\ op.user \in Users
       /\ op.hosts \subseteq Hosts
       /\ op.arg \in Int /\ op.arg >= now
    \/ /\ op.kind = "release"
       /\ op.user \in Users
       /\ op.hosts \subseteq Leased(op.user)
    \/ /\ op.kind = "release_all"
       /\ op.user \in Users
       /\ op.hosts = Leased(op.user)
    \/ /\ op.kind = "expire"
       /\ op.hosts = OverBefore(now)
    \/ /\ op.kind = "extend"
       /\ \E u \in Users : op.hosts = Leased(u) \cap OverBefore(now + Window)
       /\ op.arg \in Int /\ op.arg > 0

\* Whether an operation may be carried out as the book is now.
Allowed(op) ==
    /\ op.kind = "lease" /\ op.user \in SerialUsers =>
          /\ Leased(op.user) \cap op.hosts = {}
          /\ Cardinality(Leased(op.user) \cup op.hosts) <= Limit(op.user)
    /\ op.kind \in {"release", "release_all"} => op.hosts \subseteq Leased(op.user)
    /\ op.kind = "extend" => \A h \in op.hosts : book[h] # Free

\* What an operation makes of a host it is about.
Entry(op, h) ==
    CASE op.kind = "lease"  -> [user |-> op.user, until |-> op.arg]
      [] op.kind = "extend" -> [book[h] EXCEPT !.until = @ + op.arg]
      [] OTHER              -> Free

-----------------------------------------------------------------------------
Ask(t, op) ==
    /\ ops[t] = Nothing
    /\ Asked(op)
    /\ ops' = [ops EXCEPT ![t] = op]
    /\ UNCHANGED <<book, now>>

\* Hosts that are no longer the releasing user's, or no longer leased, drop
\* out of a release or an extension, and nothing else does.
LetGo(t, gone) ==
    /\ \/ /\ ops[t].kind \in {"release", "release_all"}
          /\ gone \cap Leased(ops[t].user) = {}
       \/ /\ ops[t].kind = "extend"
          /\ \A h \in gone : book[h] = Free
    /\ ops' = [ops EXCEPT ![t].hosts = @ \ gone]
    /\ UNCHANGED <<book, now>>

CarryOut(t) ==
    /\ Allowed(ops[t])
    /\ book' = [h \in Hosts |-> IF h \in ops[t].hosts THEN Entry(ops[t], h) ELSE book[h]]
    /\ ops' = [ops EXCEPT ![t] = Nothing]
    /\ UNCHANGED now

Drop(t) ==
    /\ ops' = [ops EXCEPT ![t] = Nothing]
    /\ UNCHANGED <<book, now>>

Pass ==
    /\ now' \in Int /\ now' > now
    /\ UNCHANGED <<book, ops>>

Init ==
    /\ book \in [Hosts -> [user : Users, until : Int] \cup {Free}]
    /\ \A u \in SerialUsers : Cardinality(Leased(u)) <= Limit(u)
    /\ ops = [t \in Tasks |-> Nothing]
    /\ now \in Int

Next ==
    \/ \E t \in {v \in Tasks : ops'[v] # ops[v]} :
          \/ Ask(t, ops'[t])
          \/ LetGo(t, ops[t].hosts \ ops'[t].hosts)
          \/ CarryOut(t)
          \/ Drop(t)
    \/ Pass

Spec == Init /\ [][Next]_<<book, ops, now>>

=============================================================================
