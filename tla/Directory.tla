----------------------------- MODULE Directory -----------------------------
(***************************************************************************)
(* What src/ldap/mod.rs promises to its callers: a question about a person *)
(* is answered by what the AD server holds at some time between question   *)
(* and answer, or not at all ("error").  In particular "none", which is    *)
(* taken for a person without an account, is never said of one who was     *)
(* there, with a mail, all along.                                          *)
(***************************************************************************)
EXTENDS AdServer

CONSTANT Calls   \* calls of the methods of UsersInfo

VARIABLES
    entries,   \* the AD's entry of each person
    call       \* the question and the answer of each call

vars == <<entries, call>>

NotCalled == [state |-> "new"]

Init ==
    /\ entries = [p \in People |-> "whole"]
    /\ call = [r \in Calls |-> NotCalled]

Ask(r) ==
    /\ call[r].state = "new"
    /\ \E q \in Question :
          call' = [call EXCEPT ![r] = [state |-> "asked", question |-> q]]
    /\ UNCHANGED entries

Reply(r) ==
    /\ call[r].state = "asked"
    /\ \E a \in {Truth(call[r].question, entries[call[r].question.person]), "error"} :
          call' = [call EXCEPT ![r] = [state |-> "answered", answer |-> a,
                                       question |-> call[r].question]]
    /\ UNCHANGED entries

\* People join and leave the AD, or are edited there.
Edit(p) ==
    /\ \E e \in Entry : entries' = [entries EXCEPT ![p] = e]
    /\ UNCHANGED call

Next == (\E r \in Calls : Ask(r) \/ Reply(r)) \/ (\E p \in People : Edit(p))

Spec == Init /\ [][Next]_vars

=============================================================================
