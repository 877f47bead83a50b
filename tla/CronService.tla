---------------------------- MODULE CronService ----------------------------
(***************************************************************************)
(* The scheduler of deeptutor/services/cron/service.py.                    *)
(*                                                                         *)
(* Jobs live in memory and in a file that every change rewrites.  One task *)
(* ticks: it lists the due jobs, runs them one after the other, and sleeps *)
(* until the next one is due or a change of the jobs wakes it.  Only the   *)
(* running of a job suspends; everything between two suspensions is one    *)
(* action.                                                                 *)
(*                                                                         *)
(* Times are kept as what is left until they come, so that the clock needs *)
(* no bound.  The ids are handed out in order, which makes the order of    *)
(* the dictionary the order of the ids.  The next time of a cron job is    *)
(* that of an interval, or there is none.                                  *)
(***************************************************************************)
EXTENDS Naturals

CONSTANTS
    MaxJobs,     \* bound: jobs ever added
    MaxDelay,    \* bound: longest time to a first run, and the interval
    MaxSleep,    \* _MAX_SLEEP_SECONDS
    MaxCrashes,  \* bound: ends of the process
    MaxFaults    \* bound: failures of _save()

ASSUME CronAssumption ==
    /\ MaxJobs \in Nat
    /\ MaxDelay \in Nat \ {0}
    /\ MaxSleep \in Nat \ {0}
    /\ MaxCrashes \in Nat
    /\ MaxFaults \in Nat

Jobs == 1 .. MaxJobs
None == 0                 \* no job is running

\* at, cron: schedule.kind is "at", or "cron"; delete: delete_after_run
Kinds == {k \in [at : BOOLEAN, cron : BOOLEAN, delete : BOOLEAN] : ~ (k.at /\ k.cron)}

VARIABLES
    known,    \* jobs ever added
    kind,     \* the kind of each
    left,     \* time until each job's next_run_at_ms, 0 when it is due
    jobs,     \* _jobs
    file,     \* the jobs of the store file
    saved,    \* their next_run_at_ms, as time left
    mode,     \* "up", "off" (stopped, or start() failed)
    running,  \* the job whose on_job() is awaited
    todo,     \* the due jobs the tick has still to run
    sleep,    \* what is left of the timeout of the loop's wait
    wake,     \* _wake
    ran,      \* times each job was started, counted to 2
    removed,  \* jobs cancelled
    crashes,
    faults

store == <<file, saved>>
loop == <<running, todo, sleep>>
vars == <<known, kind, left, jobs, file, saved, mode, running, todo, sleep, wake,
          ran, removed, crashes, faults>>

Lower(n) == IF n = 0 THEN 0 ELSE n - 1
Least(S) == CHOOSE n \in S : \A m \in S : n =< m

Init ==
    /\ known = {}
    /\ kind = [j \in Jobs |-> [at |-> FALSE, cron |-> FALSE, delete |-> FALSE]]
    /\ left = [j \in Jobs |-> 0]
    /\ jobs = {}
    /\ file = {}
    /\ saved = [j \in Jobs |-> 0]
    /\ mode = "up"
    /\ running = None
    /\ todo = {}
    /\ sleep = MaxSleep
    /\ wake = FALSE
    /\ ran = [j \in Jobs |-> 0]
    /\ removed = {}
    /\ crashes = 0
    /\ faults = 0

----------------------------------------------------------------------------
(* Persistence *)

\* _save() of the jobs just changed: the file is replaced in one step, or
\* writing it fails and it stays as it was.
Save ==
    /\ file' = jobs'
    /\ saved' = left'
    /\ UNCHANGED faults

SaveFails ==
    /\ faults < MaxFaults
    /\ faults' = faults + 1
    /\ UNCHANGED store

----------------------------------------------------------------------------
(* Changes of the jobs, by tools and by the REST interface *)

\* Mutation: a change does not wake the loop.
StaysAsleep == wake

\* _wake.set()
Woken == TRUE

\* add_job(): a new job, first due in d.  When the file cannot be written the
\* caller sees an exception, the job stays in memory and the loop is not woken.
Add(j) ==
    /\ j \in Jobs \ known
    /\ \A i \in Jobs : i < j => i \in known
    /\ known' = known \cup {j}
    /\ \E k \in Kinds, d \in 1 .. MaxDelay :
          /\ kind' = [kind EXCEPT ![j] = k]
          /\ left' = [left EXCEPT ![j] = d]
    /\ jobs' = jobs \cup {j}
    /\ \/ Save /\ wake' = Woken
       \/ SaveFails /\ UNCHANGED wake
    /\ UNCHANGED <<mode, loop, ran, removed, crashes>>

\* cancel_job() of one job, remove_owner_jobs() of those of an owner.
Remove(S) ==
    /\ S # {}
    /\ S \subseteq jobs
    /\ jobs' = jobs \ S
    /\ removed' = removed \cup S
    /\ UNCHANGED left
    /\ \/ Save /\ wake' = Woken
       \/ SaveFails /\ UNCHANGED wake
    /\ UNCHANGED <<known, kind, mode, loop, ran, crashes>>

----------------------------------------------------------------------------
(* The loop *)

\* _seconds_until_next_due(), of the jobs as the step leaves them.
SleepTime == Least({left'[j] : j \in jobs'} \cup {MaxSleep})

\* Run the first of S, or go to sleep when S is empty.
Continue(S) ==
    IF S = {}
    THEN /\ running' = None
         /\ todo' = {}
         /\ sleep' = SleepTime
         /\ wake' = FALSE
         /\ UNCHANGED ran
    ELSE /\ running' = Least(S)
         /\ todo' = S \ {Least(S)}
         /\ ran' = [ran EXCEPT ![Least(S)] = IF @ = 2 THEN 2 ELSE @ + 1]
         /\ UNCHANGED <<sleep, wake>>

Due == {j \in jobs : left[j] = 0}

\* The wait ends and the next tick begins with a list of the jobs that are due.
Tick ==
    /\ mode = "up"
    /\ running = None
    /\ wake \/ sleep = 0
    /\ UNCHANGED <<known, kind, left, jobs, store, mode, removed, crashes, faults>>
    /\ Continue(Due)

\* Mutation: the job is written back as a repeating one.
PutBack(j) == IF kind[j].delete \/ kind[j].at THEN jobs \ {j} ELSE jobs \cup {j}

\* _jobs after job j has run.
After(j) == IF kind[j].delete \/ kind[j].at THEN jobs \ {j} ELSE jobs

\* Mutation: a failing tick ends the task.
Dead == "dead"

\* _loop() goes on after a failed tick.
TickFailed == "up"

\* The job that ran is removed or gets its next time, and the tick goes on.  When
\* the file cannot be written the tick is given up.
Reschedule ==
    /\ jobs' = After(running)
    /\ left' = IF kind[running].delete \/ kind[running].at
               THEN left
               ELSE [left EXCEPT ![running] = MaxDelay]
    /\ \/ Save /\ Continue(todo) /\ UNCHANGED mode
       \/ SaveFails /\ Continue({}) /\ mode' = TickFailed

\* compute_next_run() raises, because the cron expression names no later date or
\* cannot be evaluated any more: the tick is given up with the job still due, and
\* the next tick starts with it.
NoNextRun ==
    /\ kind[running].cron
    /\ ~ kind[running].delete
    /\ UNCHANGED <<jobs, left, store, faults>>
    /\ Continue({})
    /\ mode' = TickFailed

\* on_job() returns or raises, and _run_job() goes on with the job.
Finish ==
    /\ running # None
    /\ Reschedule \/ NoNextRun
    /\ UNCHANGED <<known, kind, removed, crashes>>

\* Time passes.
Advance ==
    /\ left' = [j \in Jobs |-> Lower(left[j])]
    /\ saved' = [j \in Jobs |-> Lower(saved[j])]
    /\ sleep' = Lower(sleep)
    /\ <<left', saved', sleep'>> # <<left, saved, sleep>>
    /\ UNCHANGED <<known, kind, jobs, file, mode, running, todo, wake, ran, removed,
                   crashes, faults>>

----------------------------------------------------------------------------
(* Start, stop and crash *)

\* stop(): the task is cancelled, with the job it may be running.
Stop ==
    /\ mode = "up"
    /\ mode' = "off"
    /\ running' = None
    /\ todo' = {}
    /\ UNCHANGED <<known, kind, left, jobs, store, sleep, wake, ran, removed, crashes,
                   faults>>

\* Mutation: expired one-shot jobs run once now, as the repeating ones do.
NeverExpired == {}

\* The one-shot jobs of the file whose time passed while the server was down.
Expired == {j \in file : kind[j].at /\ saved[j] = 0}

\* The process ends, at any moment, and start() of the next one reads the file.
\* If the change it makes cannot be saved, start() raises and the server goes
\* on without a scheduler.
Restart ==
    /\ crashes < MaxCrashes
    /\ crashes' = crashes + 1
    /\ jobs' = file \ Expired
    /\ left' = saved
    /\ running' = None
    /\ todo' = {}
    /\ sleep' = 0
    /\ wake' = FALSE
    /\ \/ Save /\ mode' = "up"
       \/ Expired # {} /\ SaveFails /\ mode' = "off"
    /\ UNCHANGED <<known, kind, ran, removed>>

----------------------------------------------------------------------------
Next ==
    \/ \E j \in Jobs : Add(j)
    \/ \E S \in SUBSET jobs : Remove(S)
    \/ Tick
    \/ Finish
    \/ Advance
    \/ Stop
    \/ Restart

Spec == Init /\ [][Next]_vars

\* Time passes, the loop is resumed when its wait is over, and a job's turn comes
\* to its end.
Fairness == WF_vars(Advance) /\ WF_vars(Tick) /\ WF_vars(Finish)

FairSpec == Spec /\ Fairness

----------------------------------------------------------------------------
(* Properties *)

TypeOK ==
    /\ known \subseteq Jobs
    /\ kind \in [Jobs -> Kinds]
    /\ left \in [Jobs -> 0 .. MaxDelay]
    /\ jobs \subseteq known
    /\ file \subseteq known
    /\ saved \in [Jobs -> 0 .. MaxDelay]
    /\ mode \in {"up", "off"}
    /\ running \in {None} \cup known
    /\ todo \subseteq known
    /\ sleep \in 0 .. MaxSleep
    /\ wake \in BOOLEAN
    /\ ran \in [Jobs -> 0 .. 2]
    /\ removed \subseteq known
    /\ crashes \in 0 .. MaxCrashes
    /\ faults \in 0 .. MaxFaults

\* A one-shot job is started at most once, although the file is written after
\* the run only: a process that ends in between, or cannot write, leaves the job
\* in the file, and the next start() drops it because its time has passed.
OneShotOnce == \A j \in Jobs : kind[j].at => ran[j] =< 1

\* A cancelled job comes back neither from the tick that is running it nor from
\* the file, unless a write of the file failed.
CancelledStaysGone == faults = 0 => removed \cap (jobs \cup file) = {}

\* The sleeping loop will be awake when the next job is due, also one added or
\* cancelled during a tick: no wake-up is lost, unless a write of the file failed
\* and add_job() was left before it set the event.
NoOversleep ==
    faults = 0 /\ mode = "up" /\ running = None /\ ~wake =>
        \A j \in jobs : sleep =< left[j]

\* A due job of a running scheduler gets its turn, whatever other jobs are due
\* and whichever writes fail: unless a job that was added before it runs again and
\* again without getting a next time, for its tick never reaches the jobs behind.
DueRuns ==
    \A j \in Jobs :
        \/ []<><<running \in 1 .. j - 1 /\ NoNextRun>>_vars
        \/ (mode = "up" /\ j \in jobs /\ left[j] = 0)
               ~> (running = j \/ j \notin jobs \/ left[j] > 0 \/ mode = "off")

=============================================================================
