------------------------------ MODULE TaskRuns ------------------------------
(***************************************************************************)
(* What the ledger promises about the runs of a task, whatever workers,    *)
(* leases, heartbeats, crashes and deferrals do: one run at a time is      *)
(* under way, it is tried again after a failure of the work until it has   *)
(* failed MaxAttempts times, and once it is settled it is only forgotten.  *)
(* What goes wrong around the work costs no attempt.                       *)
(***************************************************************************)
EXTENDS Integers

CONSTANTS MaxRuns, MaxAttempts

Runs == 1 .. MaxRuns

VARIABLES
    state,     \* of each run
    failures   \* failures of its work

taskVars == <<state, failures>>

Init ==
    /\ state = [r \in Runs |-> "none"]
    /\ failures = [r \in Runs |-> 0]

Become(r, s) == state' = [state EXCEPT ![r] = s]

\* A run begins when none is under way.
Create(r) ==
    /\ state[r] = "none"
    /\ \A s \in Runs : state[s] \notin {"pending", "running"}
    /\ Become(r, "pending")
    /\ UNCHANGED failures

\* A worker takes it.
Start(r) ==
    /\ state[r] = "pending"
    /\ Become(r, "running")
    /\ UNCHANGED failures

\* The work succeeds, or its subject is deleted, running or not.
Succeed(r) ==
    /\ state[r] \in {"pending", "running"}
    /\ Become(r, "succeeded")
    /\ UNCHANGED failures

\* The work fails: it is tried again, unless this was the last attempt.
Fail(r) ==
    /\ state[r] = "running"
    /\ failures' = [failures EXCEPT ![r] = @ + 1]
    /\ Become(r, IF failures[r] + 1 < MaxAttempts THEN "pending" ELSE "abandoned")

\* The work is put off.
Defer(r) ==
    /\ state[r] = "running"
    /\ Become(r, "pending")
    /\ UNCHANGED failures

\* A settled run is deleted.
Forget(r) ==
    /\ state[r] \in {"succeeded", "abandoned"}
    /\ Become(r, "gone")
    /\ failures' = [failures EXCEPT ![r] = 0]

Next ==
    \E r \in Runs :
        Create(r) \/ Start(r) \/ Succeed(r) \/ Fail(r) \/ Defer(r) \/ Forget(r)

Spec == Init /\ [][Next]_taskVars

=============================================================================
