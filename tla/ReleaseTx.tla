----------------------------- MODULE ReleaseTx -----------------------------
(***************************************************************************)
(* ReleaseTimer::release of src/logic/release.rs as a transaction: what    *)
(* the timer does to the hosts table every ten seconds, beside the         *)
(* requests and the callbacks.  Its loop, the notices it sends and what it *)
(* remembers of them are in module ReleaseTimer.                           *)
(***************************************************************************)
EXTENDS Registry

VARIABLE timer   \* "sleep", or "free" while the UPDATE runs

\* The SELECT of the leases that are over and the start of the UPDATE of
\* these ids.  The UPDATE does not look at the rows again.
release_select ==
    LET expired == get_leased_until_hosts(hosts, now)
    IN  /\ timer = "sleep"
        /\ expired # {}
        /\ timer' = "free"
        /\ StartStmt(Timer, free_hosts(expired))

release_row ==
    /\ timer = "free"
    /\ WriteRow(Timer)
    /\ UNCHANGED timer

\* Mutant: `tx.commit()' is missing.
release_commit_Missing ==
    /\ timer = "free"
    /\ stmt[Timer].todo = {}
    /\ Rollback(Timer)
    /\ timer' = "sleep"

release_commit ==
    /\ timer = "free"
    /\ Commit(Timer)
    /\ timer' = "sleep"

\* "Release fail": logged, and the loop goes on.
release_fail ==
    /\ timer = "free"
    /\ Rollback(Timer)
    /\ timer' = "sleep"

=============================================================================
