---------------------------- MODULE TaskLedger ----------------------------
(***************************************************************************)
(* The execution ledger of Atomic (scheduler/ledger.rs over the statements *)
(* of storage/sqlite/task_runs.rs): the runs of one task for one subject,  *)
(* and the workers, threads or processes, that look for a run or create    *)
(* one, claim it under a lease, keep the lease alive from a heartbeat task *)
(* and settle the run.                                                     *)
(*                                                                         *)
(* Each storage call is one statement and one step; what a worker read     *)
(* before it may be out of date.  A lease is the time it expires at, and   *)
(* the code compares leases for equality to tell claims apart: a lease is  *)
(* a token here, 0 for NULL, and a new one is any that nobody holds or is  *)
(* about to write.  That it is in the past is the flag lapsed of its row,  *)
(* which may be raised at any moment, so that nothing depends on clocks;   *)
(* ready says that next_attempt_at is.                                     *)
(***************************************************************************)
EXTENDS Naturals

CONSTANTS
    Workers,      \* who claims runs
    MaxRuns,      \* bound on the rows created
    MaxAttempts,  \* max_attempts of a row
    Leases,       \* the tokens
    Limit         \* bounds on what else happens, by kind

Kinds == {"beat",   \* heartbeats sent
          "lapse",  \* leases that expire although their worker is alive
          "mishap"} \* dropped handles, environmental failures, deleted subjects

ASSUME LedgerAssumption ==
    /\ MaxRuns \in Nat
    /\ MaxAttempts \in Nat \ {0}
    /\ Leases \subseteq Nat \ {0}
    /\ Limit \in [Kinds -> Nat]

VARIABLES
    created,   \* rows inserted so far; they are numbered in that order
    rows,      \* the table
    work,      \* what each worker is doing, and its handle
    older,     \* those of Waiting whose "now" is from before the row became runnable
    beat,      \* the heartbeat task of each worker's handle
    loose,     \* heartbeat writes whose task was aborted and whose thread was not
    owner,     \* who claimed each running row last
    failures,  \* logic failures recorded on each row
    lost,      \* workers whose lease lapsed, or whose run was settled by a deletion
    spent      \* what is used up of Limit

ledger == <<created, rows, owner, failures>>
vars == <<created, rows, work, older, beat, loose, owner, failures, lost, spent>>

Runs == 1 .. MaxRuns
Terminal == {"succeeded", "abandoned"}
Blank == [state |-> "none", lease |-> 0, lapsed |-> FALSE, ready |-> FALSE, attempts |-> 0]
Stage(at, row, plan) ==
    [at |-> at, row |-> row, plan |-> plan, lease |-> 0, attempts |-> 0]
Idle == Stage("idle", 0, "none")
Quiet == [at |-> "quiet", prev |-> 0, next |-> 0]

Init ==
    /\ created = 0
    /\ rows = [r \in Runs |-> Blank]
    /\ work = [w \in Workers |-> Idle]
    /\ older = {}
    /\ beat = [w \in Workers |-> Quiet]
    /\ loose = {}
    /\ owner = [r \in Runs |-> {}]
    /\ failures = [r \in Runs |-> 0]
    /\ lost = {}
    /\ spent = [k \in Kinds |-> 0]

Spend(k) == spent[k] < Limit[k] /\ spent' = [spent EXCEPT ![k] = @ + 1]
Become(w, s) == work' = [work EXCEPT ![w] = s]
Store(r, row) == rows' = [rows EXCEPT ![r] = row]

Holding == {w \in Workers : work[w].at \in {"read", "run", "settle"}}
Active == {r \in Runs : rows[r].state \in {"pending", "running"}}

\* Mutation: an expired lease is not found.
RunnableIfPending(r) == rows[r].state = "pending" /\ rows[r].ready

\* is_runnable_now, and the predicate of list_runnable_task_runs.
Runnable(r) ==
    \/ rows[r].state = "pending" /\ rows[r].ready
    \/ rows[r].state = "running" /\ rows[r].lapsed

----------------------------------------------------------------------------
(* Leases *)

Held == {rows[r].lease : r \in Runs} \cup {work[w].lease : w \in Workers}
Written == {beat[w].prev : w \in Workers} \cup {beat[w].next : w \in Workers}
Aborted == {x.prev : x \in loose} \cup {x.next : x \in loose}
InUse == Held \cup Written \cup Aborted

\* now + LEASE_DURATION: a token not in use; which one makes no difference.
NewLease(l) ==
    /\ l \in Leases \ InUse
    /\ \A k \in Leases \ InUse : l =< k

\* Mutation: the statement looks at the state only.
FencedByState(r, l) == rows[r].state = "running"

\* WHERE state = 'running' AND lease_until = expected.
Fenced(r, l) == rows[r].state = "running" /\ rows[r].lease = l

----------------------------------------------------------------------------
(* Finding and claiming a run *)

\* claim_or_create finds the active row, or a sweep lists it, and it can be run.
Pick(w) ==
    /\ work[w].at = "idle"
    /\ \E r \in Runs :
         /\ Runnable(r)
         /\ Become(w, Stage("claim", r, rows[r].state))
    /\ UNCHANGED <<ledger, older, beat, loose, lost, spent>>

\* claim_or_create finds no active row.
FindNone(w) ==
    /\ work[w].at = "idle"
    /\ Active = {} /\ created < MaxRuns
    /\ Become(w, Stage("insert", 0, "none"))
    /\ UNCHANGED <<ledger, older, beat, loose, lost, spent>>

Waiting == {w \in Workers : work[w].at \in {"insert", "claim"}}

\* Mutation: without the partial unique index the insert always succeeds.
NoIndex == created < MaxRuns

\* idx_task_runs_active_unique admits a row while none is pending or running.
Admitted == Active = {} /\ created < MaxRuns

\* try_insert_task_run.
Insert(w) ==
    /\ work[w].at = "insert"
    /\ \/ /\ Admitted
          /\ created' = created + 1
          /\ Store(created + 1, [Blank EXCEPT !.state = "pending", !.ready = TRUE])
          /\ Become(w, Stage("claim", created + 1, "pending"))
          /\ older' = (older \cup Waiting) \ {w}
       \/ ~Admitted /\ Become(w, Idle) /\ older' = older \ {w} /\ UNCHANGED <<created, rows>>
    /\ UNCHANGED <<beat, loose, owner, failures, lost, spent>>

\* The predicates of claim_pending_task_run and reclaim_expired_task_run; the
\* state the worker saw decides between the two.
Claimable(w) == rows[work[w].row].state = work[w].plan /\ Runnable(work[w].row)

\* Mutation: a reclaim costs an attempt, too.
EveryClaimCharged(plan) == 1

\* A claim of a pending row costs an attempt, the reclaim of an expired lease
\* none: a crash is not a logic failure.
Charged(plan) == IF plan = "pending" THEN 1 ELSE 0

\* The UPDATE of try_claim wins.
Claim(w) ==
    /\ work[w].at = "claim"
    /\ Claimable(w)
    /\ \E l \in Leases :
         LET r == work[w].row IN
         /\ NewLease(l)
         /\ Store(r, [rows[r] EXCEPT !.state = "running", !.lease = l, !.lapsed = FALSE,
                                     !.attempts = @ + Charged(work[w].plan)])
         /\ Become(w, [work[w] EXCEPT !.at = "read", !.lease = l])
         /\ owner' = [owner EXCEPT ![r] = {w}]
    /\ older' = older \ {w}
    /\ UNCHANGED <<created, beat, loose, failures, lost, spent>>

\* It does not: the row moved on, or could not be run yet when the worker took
\* the time.
LoseRace(w) ==
    /\ work[w].at = "claim"
    /\ ~Claimable(w) \/ w \in older
    /\ Become(w, Idle)
    /\ older' = older \ {w}
    /\ UNCHANGED <<ledger, beat, loose, lost, spent>>

\* try_claim reads the row back, and RunHandle::spawn starts the heartbeat.
Read(w) ==
    /\ work[w].at = "read"
    /\ LET row == rows[work[w].row] IN
         \/ /\ row.state = "gone"
            /\ Become(w, Idle)
            /\ lost' = lost \ {w}
         \/ /\ row.state # "gone"
            /\ Become(w, [work[w] EXCEPT !.at = "run", !.attempts = row.attempts])
            /\ UNCHANGED lost
    /\ UNCHANGED <<ledger, older, beat, loose, spent>>

----------------------------------------------------------------------------
(* The heartbeat *)

\* It wakes up and sends heartbeat_task_run(current_lease, next).
BeatSent(w) ==
    /\ work[w].at = "run" /\ beat[w].at = "quiet"
    /\ Spend("beat")
    /\ \E l \in Leases :
         /\ NewLease(l)
         /\ beat' = [beat EXCEPT ![w] = [at |-> "sent", prev |-> work[w].lease, next |-> l]]
    /\ UNCHANGED <<ledger, work, older, loose, lost>>

\* The statement: it has no regard for whether the lease is in the past.
Extended(r, prev, next) ==
    IF Fenced(r, prev) THEN [rows[r] EXCEPT !.lease = next, !.lapsed = FALSE] ELSE rows[r]

BeatWritten(w) ==
    /\ beat[w].at = "sent"
    /\ LET r == work[w].row IN
         /\ Store(r, Extended(r, beat[w].prev, beat[w].next))
         /\ beat' = [beat EXCEPT ![w].at =
                        IF Fenced(r, beat[w].prev) THEN "won" ELSE "refused"]
    /\ UNCHANGED <<created, work, older, loose, owner, failures, lost, spent>>

\* A storage error: the task tries again at the next interval.
BeatFails(w) ==
    /\ beat[w].at = "sent"
    /\ beat' = [beat EXCEPT ![w] = Quiet]
    /\ UNCHANGED <<ledger, work, older, loose, lost, spent>>

\* The task goes on: it records the new lease, or exits.
BeatReturns(w) ==
    /\ \/ /\ beat[w].at = "won"
          /\ beat' = [beat EXCEPT ![w] = Quiet]
          /\ Become(w, [work[w] EXCEPT !.lease = beat[w].next])
       \/ /\ beat[w].at = "refused"
          /\ beat' = [beat EXCEPT ![w] = [Quiet EXCEPT !.at = "exited"]]
          /\ UNCHANGED work
    /\ UNCHANGED <<ledger, older, loose, lost, spent>>

\* stop_heartbeat aborts the task; a statement that it has sent is carried out
\* all the same, by the thread or the server that has it.
StopBeat(w) ==
    /\ beat' = [beat EXCEPT ![w] = Quiet]
    /\ loose' = IF beat[w].at = "sent"
                THEN loose \cup {[row |-> work[w].row, prev |-> beat[w].prev,
                                  next |-> beat[w].next]}
                ELSE loose

LooseWrite(x) ==
    /\ Store(x.row, Extended(x.row, x.prev, x.next))
    /\ loose' = loose \ {x}
    /\ UNCHANGED <<created, work, older, beat, owner, failures, lost, spent>>

----------------------------------------------------------------------------
(* Settling the run *)

\* fail() goes by the attempts it read when it claimed the row.
FailPlan(w) == IF work[w].attempts < MaxAttempts THEN "retry" ELSE "abandon"

\* The work ends: complete(), fail(), or fail() of an environmental failure,
\* which defers.  The heartbeat is aborted, the current lease read.
Finish(w) ==
    /\ work[w].at = "run"
    /\ \E plan \in {"complete", FailPlan(w), "defer"} :
         /\ Become(w, [work[w] EXCEPT !.at = "settle", !.plan = plan])
         /\ IF plan = "defer" THEN Spend("mishap") ELSE UNCHANGED spent
    /\ StopBeat(w)
    /\ UNCHANGED <<ledger, older, lost>>

\* defer_task_run gives the attempt back.
Deferred(row) ==
    [row EXCEPT !.state = "pending", !.ready = FALSE,
                !.attempts = IF @ > 0 THEN @ - 1 ELSE 0]

Settled(row, plan) ==
    LET free == [row EXCEPT !.lease = 0, !.lapsed = FALSE] IN
    CASE plan = "complete" -> [free EXCEPT !.state = "succeeded"]
      [] plan = "retry"    -> [free EXCEPT !.state = "pending", !.ready = FALSE]
      [] plan = "abandon"  -> [free EXCEPT !.state = "abandoned"]
      [] plan = "defer"    -> Deferred(free)

\* The terminal statement; when the lease is not the row's any more it changes
\* nothing, and the caller goes on.
Settle(w) ==
    /\ work[w].at = "settle"
    /\ LET r == work[w].row IN
         \/ /\ Fenced(r, work[w].lease)
            /\ Store(r, Settled(rows[r], work[w].plan))
            /\ failures' = [failures EXCEPT ![r] =
                               IF work[w].plan \in {"retry", "abandon"} THEN @ + 1 ELSE @]
            /\ owner' = [owner EXCEPT ![r] = {}]
         \/ ~Fenced(r, work[w].lease) /\ UNCHANGED <<rows, failures, owner>>
    /\ Become(w, Idle)
    /\ lost' = lost \ {w}
    /\ UNCHANGED <<created, older, beat, loose, spent>>

\* The handle is dropped, the process dies, or a statement fails: nothing is
\* settled, and the row stays as it is until its lease is over.
Drop(w) ==
    /\ w \in Holding
    /\ Spend("mishap")
    /\ Become(w, Idle)
    /\ StopBeat(w)
    /\ lost' = lost \ {w}
    /\ UNCHANGED <<ledger, older>>

----------------------------------------------------------------------------
(* Time, and the other statements *)

\* The workers that hold the last claim of a row.
Holders(r) == {w \in owner[r] : w \in Holding /\ work[w].row = r}

\* One keeps its lease alive: it works, and its heartbeat has not exited.
Alive(r) == \E w \in Holders(r) : beat[w].at # "exited"

\* lease_until passes.
Lapse(r) ==
    /\ rows[r].state = "running" /\ ~rows[r].lapsed
    /\ IF Alive(r) THEN Spend("lapse") ELSE UNCHANGED spent
    /\ Store(r, [rows[r] EXCEPT !.lapsed = TRUE])
    /\ older' = older \cup Waiting
    /\ lost' = lost \cup Holders(r)
    /\ UNCHANGED <<created, work, beat, loose, owner, failures>>

\* next_attempt_at passes, or rearm_task_runs moves a pending row's to now.
Arrive(r) ==
    /\ rows[r].state = "pending" /\ ~rows[r].ready
    /\ Store(r, [rows[r] EXCEPT !.ready = TRUE])
    /\ older' = older \cup Waiting
    /\ UNCHANGED <<created, work, beat, loose, owner, failures, lost, spent>>

\* settle_task_runs_moot: the subject is deleted, whoever holds a lease.
SettleMoot ==
    /\ Active # {}
    /\ Spend("mishap")
    /\ rows' = [r \in Runs |->
                  IF r \in Active
                  THEN [rows[r] EXCEPT !.state = "succeeded", !.lease = 0, !.lapsed = FALSE]
                  ELSE rows[r]]
    /\ lost' = lost \cup {w \in Holding : work[w].row \in Active}
    /\ owner' = [r \in Runs |-> {}]
    /\ UNCHANGED <<created, work, older, beat, loose, failures>>

\* gc_task_runs deletes terminal rows by rank and age.
Collect(r) ==
    /\ rows[r].state \in Terminal
    /\ Store(r, [Blank EXCEPT !.state = "gone"])
    /\ failures' = [failures EXCEPT ![r] = 0]
    /\ UNCHANGED <<created, work, older, beat, loose, owner, lost, spent>>

----------------------------------------------------------------------------
WorkerStep(w) ==
    \/ Pick(w) \/ FindNone(w) \/ Insert(w) \/ Claim(w) \/ LoseRace(w) \/ Read(w)
    \/ Finish(w) \/ Settle(w) \/ Drop(w)
BeatStep(w) == BeatSent(w) \/ BeatWritten(w) \/ BeatFails(w) \/ BeatReturns(w)
RowStep(r) == Lapse(r) \/ Arrive(r) \/ Collect(r)

Next ==
    \/ \E w \in Workers : WorkerStep(w) \/ BeatStep(w)
    \/ \E x \in loose : LooseWrite(x)
    \/ \E r \in Runs : RowStep(r)
    \/ SettleMoot

Spec == Init /\ [][Next]_vars

\* Ticks and sweeps come again and again, statements return, the work ends, and
\* time passes.  Nobody need create a run, and a lost write may stay lost.
Fairness ==
    /\ \A w \in Workers :
         /\ WF_vars(Pick(w)) /\ WF_vars(Insert(w)) /\ WF_vars(Claim(w) \/ LoseRace(w))
         /\ WF_vars(Read(w)) /\ WF_vars(Finish(w)) /\ WF_vars(Settle(w))
    /\ \A r \in Runs : WF_vars(Lapse(r)) /\ WF_vars(Arrive(r))

FairSpec == Spec /\ Fairness

----------------------------------------------------------------------------
(* Properties *)

RowType ==
    [state : {"none", "pending", "running", "gone"} \cup Terminal, lease : Leases \cup {0},
     lapsed : BOOLEAN, ready : BOOLEAN, attempts : Nat]

WorkType ==
    [at : {"idle", "insert", "claim", "read", "run", "settle"}, row : 0 .. MaxRuns,
     plan : {"none", "pending", "running", "complete", "retry", "abandon", "defer"},
     lease : Leases \cup {0}, attempts : Nat]

BeatType ==
    [at : {"quiet", "sent", "won", "refused", "exited"}, prev : Leases \cup {0},
     next : Leases \cup {0}]

TypeOK ==
    /\ created \in 0 .. MaxRuns
    /\ rows \in [Runs -> RowType]
    /\ work \in [Workers -> WorkType]
    /\ older \subseteq Workers
    /\ beat \in [Workers -> BeatType]
    /\ loose \subseteq [row : Runs, prev : Leases \cup {0}, next : Leases \cup {0}]
    /\ owner \in [Runs -> SUBSET Workers]
    /\ failures \in [Runs -> Nat]
    /\ lost \subseteq Workers
    /\ spent \in [Kinds -> Nat]

\* A task is not run twice at the same time: of two workers with a handle, one
\* let its lease expire or works for a subject that was deleted.
OneRunner ==
    \A v, w \in Holding : v # w => v \in lost \/ w \in lost

\* A run that is being worked on is settled only by the worker that claimed it
\* last, or by the deletion of its subject: never by one whose lease was taken
\* over, although it may still be working and does not know.
StaleNeverSettles ==
    [][\A r \in Runs :
         (rows[r].state = "running" /\ rows'[r].state # "running") =>
            \/ \E w \in owner[r] : /\ work[w].at = "settle" /\ work[w].row = r
                                   /\ work'[w].at = "idle"
            \/ SettleMoot]_vars

\* attempts counts the logic failures and the attempt that runs: crashes, lost
\* leases and deferrals cost nothing, and a run is abandoned after MaxAttempts
\* logic failures, no sooner and no later.
BudgetIsFailures ==
    \A r \in Runs :
        /\ rows[r].state = "pending" => rows[r].attempts = failures[r]
        /\ rows[r].state = "running" => rows[r].attempts = failures[r] + 1
        /\ rows[r].state \in {"pending", "running"} => failures[r] < MaxAttempts
        /\ rows[r].state = "abandoned" => failures[r] = MaxAttempts

\* The contract of TaskRuns.
Contract == INSTANCE TaskRuns WITH state <- [r \in Runs |-> rows[r].state]
ContractSpec == Contract!Spec

\* Every run is settled in the end, however many workers die with it, lose it or
\* try to settle it in vain.
RunsAreSettled ==
    \A r \in Runs : (r \in Active) ~> (r \notin Active)

=============================================================================
