------------------------- MODULE CronServiceProofs -------------------------
(***************************************************************************)
(* A one-shot job is started at most once, for any number of jobs, delays, *)
(* failing writes and restarts.                                            *)
(***************************************************************************)
EXTENDS CronService, WellFoundedInduction, TLAPS

\* The loop's task is alive while it runs a job.
RunningIsUp == running # None => mode = "up"

\* The job that runs is not due again in this tick.
TakenOnce == running \notin todo

\* Nothing was started before it was added.
UnknownNeverRan == \A j \in Jobs \ known : ran[j] = 0

\* The time of a one-shot job is the same in memory and in the file: no run gives
\* it another one.
SameTime == \A j \in file : kind[j].at => saved[j] = left[j]

\* The one-shot jobs a tick has still to run are due and were never started.
TodoIsFresh == \A j \in todo : kind[j].at => left[j] = 0 /\ ran[j] = 0

\* A one-shot job that was started is in memory only while it runs, or for a loop
\* that has stopped; wherever it still is, its time has passed.
StartedIsSpent ==
    \A j \in Jobs :
        kind[j].at /\ ran[j] # 0 =>
            /\ ran[j] = 1
            /\ j \in jobs => running = j \/ mode = "off"
            /\ j \in jobs \cup file => left[j] = 0

CronInv ==
    /\ TypeOK
    /\ RunningIsUp
    /\ TakenOnce
    /\ UnknownNeverRan
    /\ SameTime
    /\ TodoIsFresh
    /\ StartedIsSpent

----------------------------------------------------------------------------
\* A set of naturals has a least member, which Least names.
LEMMA LeastIsLeast ==
  ASSUME NEW S, S \subseteq Nat, S # {}
  PROVE  Least(S) \in S /\ \A m \in S : Least(S) =< m
  <1>1. PICK x \in S : \A y \in S : ~ (<<y, x>> \in OpToRel(<, Nat))
    BY WFMin, NatLessThanWellFounded
  <1>2. \A y \in S : x =< y
    <2> SUFFICES ASSUME NEW y \in S PROVE x =< y
      OBVIOUS
    <2>1. ~ (<<y, x>> \in {ss \in Nat \X Nat : ss[1] < ss[2]})
      BY <1>1 DEF OpToRel
    <2>2. ~ (y < x)
      BY <2>1
    <2> QED BY <2>2
  <1> QED BY <1>1, <1>2 DEF Least

\* What Continue leaves behind.
LEMMA ContinueFacts ==
  ASSUME NEW S, S \subseteq Jobs, Continue(S),
         sleep \in 0 .. MaxSleep, wake \in BOOLEAN, ran \in [Jobs -> 0 .. 2],
         jobs' \subseteq Jobs, left' \in [Jobs -> 0 .. MaxDelay]
  PROVE  /\ running' \in {None} \cup S
         /\ todo' \subseteq S
         /\ running' \notin todo'
         /\ sleep' \in 0 .. MaxSleep
         /\ wake' \in BOOLEAN
         /\ ran' \in [Jobs -> 0 .. 2]
         /\ \A j \in Jobs : j # running' => ran'[j] = ran[j]
         /\ running' # None /\ ran[running'] = 0 => ran'[running'] = 1
         /\ None \notin Jobs
  <1> USE CronAssumption
  <1>0. None \notin Jobs
    BY DEF None, Jobs
  <1>1. CASE S = {}
    <2>1. /\ running' = None /\ todo' = {} /\ sleep' = SleepTime /\ wake' = FALSE
          /\ ran' = ran
      BY <1>1 DEF Continue
    <2> DEFINE T == {left'[j] : j \in jobs'} \cup {MaxSleep}
    <2>2. T \subseteq Nat /\ T # {} /\ MaxSleep \in T
      OBVIOUS
    <2>3. Least(T) \in Nat /\ Least(T) =< MaxSleep
      BY <2>2, LeastIsLeast
    <2>4. sleep' \in 0 .. MaxSleep
      BY <2>1, <2>3 DEF SleepTime
    <2>5. running' \notin todo' /\ todo' \subseteq S /\ wake' \in BOOLEAN
      BY <2>1
    <2> HIDE DEF T
    <2> QED BY <1>0, <2>1, <2>4, <2>5
  <1>2. CASE S # {}
    <2>1. /\ running' = Least(S) /\ todo' = S \ {Least(S)} /\ sleep' = sleep /\ wake' = wake
          /\ ran' = [ran EXCEPT ![Least(S)] = IF ran[Least(S)] = 2 THEN 2 ELSE ran[Least(S)] + 1]
      BY <1>2 DEF Continue
    <2>7. S \subseteq Nat
      BY DEF Jobs
    <2>2. Least(S) \in S
      BY <1>2, <2>7, LeastIsLeast
    <2>3. Least(S) \in Jobs
      BY <2>2
    <2>4. ran' \in [Jobs -> 0 .. 2]
      BY <2>1, <2>3
    <2>5. \A j \in Jobs : j # running' => ran'[j] = ran[j]
      BY <2>1, <2>3
    <2>6. ran[running'] = 0 => ran'[running'] = 1
      BY <2>1, <2>3
    <2> QED BY <1>0, <2>1, <2>2, <2>4, <2>5, <2>6
  <1> QED BY <1>1, <1>2

\* A step that takes the jobs S on leaves them to one run each: the part of the
\* invariant that Tick and Finish share.
LEMMA ContinueFresh ==
  ASSUME NEW S, S \subseteq known, Continue(S), TypeOK,
         jobs' \subseteq Jobs, left' \in [Jobs -> 0 .. MaxDelay], kind' = kind, mode = "up",
         mode' = mode, known' = known, UnknownNeverRan,
         \A j \in S : kind[j].at => left'[j] = 0 /\ ran[j] = 0,
         \A j \in Jobs : kind[j].at /\ ran[j] # 0 =>
             /\ ran[j] = 1
             /\ j \notin jobs'
             /\ j \in file' => left'[j] = 0
  PROVE  /\ RunningIsUp' /\ TakenOnce' /\ UnknownNeverRan' /\ TodoIsFresh'
         /\ StartedIsSpent'
  <1>1. S \subseteq Jobs
    BY DEF TypeOK
  <1>2. sleep \in 0 .. MaxSleep /\ wake \in BOOLEAN /\ ran \in [Jobs -> 0 .. 2]
    BY DEF TypeOK
  <1>3. /\ running' \in {None} \cup S
        /\ todo' \subseteq S
        /\ running' \notin todo'
        /\ \A j \in Jobs : j # running' => ran'[j] = ran[j]
        /\ running' # None /\ ran[running'] = 0 => ran'[running'] = 1
        /\ None \notin Jobs
    BY <1>1, <1>2, ContinueFacts
  <1>4. RunningIsUp' /\ TakenOnce'
    BY <1>3 DEF RunningIsUp, TakenOnce
  <1>5. UnknownNeverRan'
    BY <1>3, <1>1 DEF UnknownNeverRan
  <1>6. TodoIsFresh'
    BY <1>3, <1>1 DEF TodoIsFresh
  <1>7. StartedIsSpent'
    <2> SUFFICES ASSUME NEW j \in Jobs, kind[j].at, ran'[j] # 0
                 PROVE  /\ ran'[j] = 1
                        /\ j \in jobs' => running' = j \/ mode' = "off"
                        /\ j \in jobs' \cup file' => left'[j] = 0
      BY DEF StartedIsSpent
    <2>1. CASE j = running'
      BY <2>1, <1>3
    <2>2. CASE j # running'
      BY <2>2, <1>3
    <2> QED BY <2>1, <2>2
  <1> QED BY <1>4, <1>5, <1>6, <1>7

----------------------------------------------------------------------------
\* An empty scheduler satisfies the invariant.
LEMMA InitCron == Init => CronInv
  <1> SUFFICES ASSUME Init PROVE CronInv
    OBVIOUS
  <1> USE CronAssumption DEF Init
  <1>1. TypeOK
    <2>1. kind \in [Jobs -> Kinds]
      BY DEF Kinds
    <2>2. left \in [Jobs -> 0 .. MaxDelay] /\ saved \in [Jobs -> 0 .. MaxDelay]
      OBVIOUS
    <2>3. ran \in [Jobs -> 0 .. 2]
      OBVIOUS
    <2>4. sleep \in 0 .. MaxSleep /\ crashes \in 0 .. MaxCrashes /\ faults \in 0 .. MaxFaults
      OBVIOUS
    <2>5. wake \in BOOLEAN /\ mode \in {"up", "off"}
      OBVIOUS
    <2>6. /\ known \subseteq Jobs /\ jobs \subseteq known /\ file \subseteq known
          /\ todo \subseteq known /\ removed \subseteq known /\ running \in {None} \cup known
      OBVIOUS
    <2> HIDE DEF Init
    <2> QED BY <2>1, <2>2, <2>3, <2>4, <2>5, <2>6 DEF TypeOK
  <1>2. RunningIsUp /\ TakenOnce /\ UnknownNeverRan /\ SameTime /\ TodoIsFresh
    BY DEF RunningIsUp, TakenOnce, UnknownNeverRan, SameTime, TodoIsFresh
  <1>3. StartedIsSpent
    BY DEF StartedIsSpent
  <1> QED BY <1>1, <1>2, <1>3 DEF CronInv

\* Lower stays within a bound.
LEMMA LowerType ==
  ASSUME NEW n \in Nat, NEW m \in 0 .. n
  PROVE  Lower(m) \in 0 .. n
  BY DEF Lower

\* add_job() preserves the invariant: the job is new, so neither the file nor the
\* tick knows it.
LEMMA AddCron ==
  ASSUME CronInv, NEW j \in Jobs, Add(j)
  PROVE  CronInv'
  <1> USE CronAssumption
  <1> USE DEF CronInv
  <1>1. /\ j \notin known /\ known' = known \cup {j} /\ jobs' = jobs \cup {j}
        /\ mode' = mode /\ running' = running /\ todo' = todo /\ sleep' = sleep
        /\ ran' = ran /\ removed' = removed /\ crashes' = crashes
    BY DEF Add, loop
  <1>2. PICK k \in Kinds, d \in 1 .. MaxDelay :
          /\ kind' = [kind EXCEPT ![j] = k]
          /\ left' = [left EXCEPT ![j] = d]
    BY DEF Add
  <1>3. /\ kind' \in [Jobs -> Kinds]
        /\ left' \in [Jobs -> 0 .. MaxDelay]
        /\ \A i \in Jobs : i # j => kind'[i] = kind[i] /\ left'[i] = left[i]
    BY <1>2 DEF TypeOK
  <1>4. \/ file' = jobs' /\ saved' = left' /\ faults' = faults /\ wake' = TRUE
        \/ /\ faults < MaxFaults /\ faults' = faults + 1
           /\ file' = file /\ saved' = saved /\ wake' = wake
    BY DEF Add, Save, SaveFails, store, Woken
  <1>5. file' \subseteq jobs' \cup file /\ saved' \in [Jobs -> 0 .. MaxDelay]
    BY <1>3, <1>4 DEF TypeOK
  <1>6. faults' \in 0 .. MaxFaults /\ wake' \in BOOLEAN
    <2>1. faults' \in 0 .. MaxFaults
      BY <1>4 DEF TypeOK
    <2>2. wake' \in BOOLEAN
      BY <1>4, Zenon DEF TypeOK
    <2> QED BY <2>1, <2>2
  <1>7. TypeOK'
    BY <1>1, <1>3, <1>5, <1>6 DEF TypeOK
  <1>8. RunningIsUp' /\ TakenOnce' /\ UnknownNeverRan'
    BY <1>1 DEF RunningIsUp, TakenOnce, UnknownNeverRan
  <1>9. SameTime'
    BY <1>1, <1>3, <1>4 DEF SameTime, TypeOK
  <1>10. TodoIsFresh'
    BY <1>1, <1>3 DEF TodoIsFresh, TypeOK
  <1>11. ran[j] = 0
    BY <1>1 DEF UnknownNeverRan
  <1>12. StartedIsSpent'
    <2> SUFFICES ASSUME NEW i \in Jobs, kind'[i].at, ran[i] # 0
                 PROVE  /\ ran[i] = 1
                        /\ i \in jobs' => running = i \/ mode = "off"
                        /\ i \in jobs' \cup file' => left'[i] = 0
      BY <1>1 DEF StartedIsSpent
    <2>1. i # j /\ kind[i].at /\ left'[i] = left[i]
      BY <1>3, <1>11
    <2>2. i \in jobs' => i \in jobs
      BY <2>1, <1>1
    <2>3. i \in file' => i \in jobs \cup file
      BY <2>2, <1>5
    <2> QED BY <2>1, <2>2, <2>3 DEF StartedIsSpent
  <1> QED BY <1>7, <1>8, <1>9, <1>10, <1>12

\* Cancelling jobs preserves the invariant, also while one of them runs.
LEMMA RemoveCron ==
  ASSUME CronInv, NEW S \in SUBSET jobs, Remove(S)
  PROVE  CronInv'
  <1> USE CronAssumption
  <1> USE DEF CronInv
  <1>1. /\ jobs' = jobs \ S /\ removed' = removed \cup S /\ left' = left
        /\ known' = known /\ kind' = kind /\ mode' = mode /\ running' = running
        /\ todo' = todo /\ sleep' = sleep /\ ran' = ran /\ crashes' = crashes
    BY DEF Remove, loop
  <1>2. \/ file' = jobs' /\ saved' = left' /\ faults' = faults /\ wake' = TRUE
        \/ /\ faults < MaxFaults /\ faults' = faults + 1
           /\ file' = file /\ saved' = saved /\ wake' = wake
    BY DEF Remove, Save, SaveFails, store, Woken
  <1>3. file' \subseteq jobs \cup file /\ saved' \in [Jobs -> 0 .. MaxDelay]
    BY <1>1, <1>2 DEF TypeOK
  <1>4. faults' \in 0 .. MaxFaults /\ wake' \in BOOLEAN
    <2>1. faults' \in 0 .. MaxFaults
      BY <1>2 DEF TypeOK
    <2>2. wake' \in BOOLEAN
      BY <1>2, Zenon DEF TypeOK
    <2> QED BY <2>1, <2>2
  <1>5. TypeOK'
    BY <1>1, <1>3, <1>4 DEF TypeOK
  <1>6. RunningIsUp' /\ TakenOnce' /\ UnknownNeverRan' /\ TodoIsFresh'
    BY <1>1 DEF RunningIsUp, TakenOnce, UnknownNeverRan, TodoIsFresh
  <1>7. SameTime'
    BY <1>1, <1>2 DEF SameTime
  <1>8. StartedIsSpent'
    BY <1>1, <1>3 DEF StartedIsSpent
  <1> QED BY <1>5, <1>6, <1>7, <1>8

\* A tick begins with jobs that were never started, if they are one-shots: such a
\* job leaves memory with its first run, or the loop does not go on.
LEMMA TickCron ==
  ASSUME CronInv, Tick
  PROVE  CronInv'
  <1> USE DEF CronInv
  <1>1. /\ mode = "up" /\ running = None
        /\ known' = known /\ kind' = kind /\ left' = left /\ jobs' = jobs
        /\ file' = file /\ saved' = saved /\ mode' = mode /\ removed' = removed
        /\ crashes' = crashes /\ faults' = faults
        /\ Continue(Due)
    BY DEF Tick, store
  <1>2. Due \subseteq known /\ Due \subseteq Jobs
    BY DEF Due, TypeOK
  <1>3. jobs' \subseteq Jobs /\ left' \in [Jobs -> 0 .. MaxDelay]
    BY <1>1 DEF TypeOK
  <1>4. \A j \in Jobs : kind[j].at /\ ran[j] # 0 =>
             /\ ran[j] = 1
             /\ j \notin jobs'
             /\ j \in file' => left'[j] = 0
    <2>1. None \notin Jobs
      BY DEF None, Jobs
    <2> QED BY <1>1, <2>1 DEF StartedIsSpent
  <1>5. \A j \in Due : kind[j].at => left'[j] = 0 /\ ran[j] = 0
    BY <1>1, <1>2, <1>4 DEF Due
  <1>6. /\ RunningIsUp' /\ TakenOnce' /\ UnknownNeverRan' /\ TodoIsFresh'
        /\ StartedIsSpent'
    BY <1>1, <1>2, <1>3, <1>4, <1>5, ContinueFresh
  <1>7. SameTime'
    BY <1>1 DEF SameTime
  <1>8. TypeOK'
    <2>1. sleep \in 0 .. MaxSleep /\ wake \in BOOLEAN /\ ran \in [Jobs -> 0 .. 2]
      BY DEF TypeOK
    <2>2. /\ running' \in {None} \cup Due /\ todo' \subseteq Due
          /\ sleep' \in 0 .. MaxSleep /\ wake' \in BOOLEAN /\ ran' \in [Jobs -> 0 .. 2]
      BY <1>1, <1>2, <1>3, <2>1, ContinueFacts
    <2>3. running' \in {None} \cup known /\ todo' \subseteq known
      BY <1>2, <2>2
    <2> QED BY <1>1, <2>2, <2>3 DEF TypeOK
  <1> QED BY <1>6, <1>7, <1>8

\* A job that ran leaves memory or stays in it, with a next time or, if it is a
\* cron job, as it was.
LEMMA FinishFacts ==
  ASSUME TypeOK, Finish
  PROVE  /\ running \in known
         /\ jobs' \subseteq jobs
         /\ kind[running].at => running \notin jobs'
         /\ left' \in [Jobs -> 0 .. MaxDelay]
         /\ \A j \in Jobs : kind[j].at => left'[j] = left[j]
         /\ mode' \in {mode, "up"}
         /\ Continue(todo) \/ Continue({})
         /\ \/ file' = jobs' /\ saved' = left' /\ faults' = faults
            \/ faults < MaxFaults /\ faults' = faults + 1 /\ UNCHANGED <<file, saved>>
            \/ UNCHANGED <<jobs, left, file, saved, faults>>
  <1> USE CronAssumption
  <1>1. running \in known /\ running \in Jobs
    BY DEF Finish, TypeOK
  <1>2. CASE Reschedule
    <2>1. /\ jobs' = After(running)
          /\ left' = IF kind[running].delete \/ kind[running].at
                     THEN left
                     ELSE [left EXCEPT ![running] = MaxDelay]
      BY <1>2 DEF Reschedule
    <2>2. /\ left' \in [Jobs -> 0 .. MaxDelay]
          /\ \A j \in Jobs : kind[j].at => left'[j] = left[j]
      BY <1>1, <2>1 DEF TypeOK
    <2>3. jobs' \subseteq jobs /\ (kind[running].at => running \notin jobs')
      BY <2>1 DEF After
    <2>4. /\ mode' \in {mode, "up"}
          /\ Continue(todo) \/ Continue({})
          /\ \/ file' = jobs' /\ saved' = left' /\ faults' = faults
             \/ faults < MaxFaults /\ faults' = faults + 1 /\ UNCHANGED <<file, saved>>
      BY <1>2 DEF Reschedule, TickFailed, Save, SaveFails, store
    <2> QED BY <1>1, <2>2, <2>3, <2>4
  <1>3. CASE NoNextRun
    <2>1. /\ UNCHANGED <<jobs, left, file, saved, faults>>
          /\ mode' = "up" /\ Continue({})
          /\ kind[running].cron
      BY <1>3 DEF NoNextRun, TickFailed, store
    <2>2. ~ kind[running].at
      BY <1>1, <2>1 DEF TypeOK, Kinds
    <2> QED BY <1>1, <2>1, <2>2 DEF TypeOK
  <1> QED BY <1>2, <1>3 DEF Finish

\* The end of a run takes a one-shot out of memory and leaves the times of all
\* one-shots as they are.
LEMMA FinishCron ==
  ASSUME CronInv, Finish
  PROVE  CronInv'
  <1> USE CronAssumption
  <1> USE DEF CronInv
  <1>1. /\ running # None
        /\ known' = known /\ kind' = kind /\ removed' = removed /\ crashes' = crashes
    BY DEF Finish
  <1>2. mode = "up" /\ mode' = mode
    BY <1>1, FinishFacts DEF RunningIsUp
  <1>3. PICK S \in {todo, {}} : Continue(S)
    BY FinishFacts
  <1>4. \/ file' = jobs' /\ saved' = left' /\ faults' = faults
        \/ faults < MaxFaults /\ faults' = faults + 1 /\ UNCHANGED <<file, saved>>
        \/ UNCHANGED <<jobs, left, file, saved, faults>>
    BY FinishFacts
  <1>5. running \in known /\ running \in Jobs
    BY <1>1 DEF TypeOK
  <1>6. left' \in [Jobs -> 0 .. MaxDelay]
    BY FinishFacts
  <1>7. \A j \in Jobs : kind[j].at => left'[j] = left[j]
    BY FinishFacts
  <1>8. jobs' \subseteq jobs /\ (kind[running].at => running \notin jobs')
    BY FinishFacts
  <1>9. jobs' \subseteq Jobs /\ file' \subseteq jobs \cup file
    BY <1>4, <1>8 DEF TypeOK
  <1>10. \A j \in Jobs : kind[j].at /\ ran[j] # 0 =>
             /\ ran[j] = 1
             /\ j \notin jobs'
             /\ j \in file' => left'[j] = 0
    BY <1>2, <1>7, <1>8, <1>9 DEF StartedIsSpent
  <1>11. S \subseteq known /\ S \subseteq todo /\ S \subseteq Jobs
    BY DEF TypeOK
  <1>12. \A j \in S : kind[j].at => left'[j] = 0 /\ ran[j] = 0
    BY <1>7, <1>11 DEF TodoIsFresh
  <1>13. /\ RunningIsUp' /\ TakenOnce' /\ UnknownNeverRan' /\ TodoIsFresh'
         /\ StartedIsSpent'
    BY <1>1, <1>2, <1>3, <1>6, <1>9, <1>10, <1>11, <1>12, ContinueFresh
  <1>14. SameTime'
    BY <1>1, <1>4, <1>7 DEF SameTime, TypeOK
  <1>15. TypeOK'
    <2>1. sleep \in 0 .. MaxSleep /\ wake \in BOOLEAN /\ ran \in [Jobs -> 0 .. 2]
      BY DEF TypeOK
    <2>2. /\ running' \in {None} \cup S /\ todo' \subseteq S
          /\ sleep' \in 0 .. MaxSleep /\ wake' \in BOOLEAN /\ ran' \in [Jobs -> 0 .. 2]
      BY <1>3, <1>6, <1>9, <1>11, <2>1, ContinueFacts
    <2>3. running' \in {None} \cup known /\ todo' \subseteq known
      BY <1>11, <2>2
    <2>4. saved' \in [Jobs -> 0 .. MaxDelay] /\ faults' \in 0 .. MaxFaults
      BY <1>4, <1>6 DEF TypeOK
    <2>5. jobs' \subseteq known /\ file' \subseteq known
      BY <1>8, <1>9 DEF TypeOK
    <2> QED BY <1>1, <1>2, <1>6, <2>2, <2>3, <2>4, <2>5 DEF TypeOK
  <1> QED BY <1>13, <1>14, <1>15

\* Time that passes makes jobs due and never undue.
LEMMA AdvanceCron ==
  ASSUME CronInv, Advance
  PROVE  CronInv'
  <1> USE CronAssumption
  <1> USE DEF CronInv
  <1>1. /\ left' = [j \in Jobs |-> Lower(left[j])]
        /\ saved' = [j \in Jobs |-> Lower(saved[j])]
        /\ sleep' = Lower(sleep)
        /\ known' = known /\ kind' = kind /\ jobs' = jobs /\ file' = file /\ mode' = mode
        /\ running' = running /\ todo' = todo /\ wake' = wake /\ ran' = ran
        /\ removed' = removed /\ crashes' = crashes /\ faults' = faults
    BY DEF Advance
  <1>2. Lower(0) = 0
    BY DEF Lower
  <1>3. TypeOK'
    <2>1. \A j \in Jobs : Lower(left[j]) \in 0 .. MaxDelay /\ Lower(saved[j]) \in 0 .. MaxDelay
      BY LowerType DEF TypeOK
    <2>2. sleep' \in 0 .. MaxSleep
      BY <1>1, LowerType DEF TypeOK
    <2>3. left' \in [Jobs -> 0 .. MaxDelay] /\ saved' \in [Jobs -> 0 .. MaxDelay]
      BY <1>1, <2>1
    <2> QED BY <1>1, <2>2, <2>3 DEF TypeOK
  <1>4. RunningIsUp' /\ TakenOnce' /\ UnknownNeverRan'
    BY <1>1 DEF RunningIsUp, TakenOnce, UnknownNeverRan
  <1>5. SameTime' /\ TodoIsFresh'
    BY <1>1, <1>2 DEF SameTime, TodoIsFresh, TypeOK
  <1>6. StartedIsSpent'
    BY <1>1, <1>2 DEF StartedIsSpent
  <1> QED BY <1>3, <1>4, <1>5, <1>6

\* stop() leaves no loop behind.
LEMMA StopCron ==
  ASSUME CronInv, Stop
  PROVE  CronInv'
  <1> USE DEF CronInv
  <1>1. /\ mode' = "off" /\ running' = None /\ todo' = {}
        /\ known' = known /\ kind' = kind /\ left' = left /\ jobs' = jobs /\ file' = file
        /\ saved' = saved /\ sleep' = sleep /\ wake' = wake /\ ran' = ran
        /\ removed' = removed /\ crashes' = crashes /\ faults' = faults
    BY DEF Stop, store
  <1>2. TypeOK'
    BY <1>1 DEF TypeOK
  <1>3. RunningIsUp' /\ TakenOnce' /\ UnknownNeverRan' /\ SameTime' /\ TodoIsFresh'
    BY <1>1 DEF RunningIsUp, TakenOnce, UnknownNeverRan, SameTime, TodoIsFresh
  <1>4. StartedIsSpent'
    BY <1>1 DEF StartedIsSpent
  <1> QED BY <1>2, <1>3, <1>4

\* A one-shot that was started may still be in the file, but its time has passed
\* there too, so that start() drops it.
LEMMA RestartCron ==
  ASSUME CronInv, Restart
  PROVE  CronInv'
  <1> USE CronAssumption
  <1> USE DEF CronInv
  <1>1. /\ crashes < MaxCrashes /\ crashes' = crashes + 1
        /\ jobs' = file \ Expired /\ left' = saved /\ running' = None /\ todo' = {}
        /\ sleep' = 0 /\ wake' = FALSE /\ known' = known /\ kind' = kind /\ ran' = ran
        /\ removed' = removed
    BY DEF Restart
  <1>2. mode' \in {"up", "off"} /\ saved' = saved /\ file' \subseteq file
    BY <1>1 DEF Restart, Save, SaveFails, store
  <1>3. faults' \in 0 .. MaxFaults
    BY DEF Restart, Save, SaveFails, TypeOK
  <1>4. TypeOK'
    <2>1. crashes' \in 0 .. MaxCrashes /\ sleep' \in 0 .. MaxSleep
      BY <1>1 DEF TypeOK
    <2>2. wake' \in BOOLEAN
      BY <1>1
    <2>3. running' \in {None} \cup known' /\ todo' \subseteq known' /\ jobs' \subseteq known'
      BY <1>1 DEF TypeOK
    <2> QED BY <1>1, <1>2, <1>3, <2>1, <2>2, <2>3 DEF TypeOK
  <1>5. RunningIsUp' /\ TakenOnce' /\ UnknownNeverRan' /\ TodoIsFresh'
    BY <1>1 DEF RunningIsUp, TakenOnce, UnknownNeverRan, TodoIsFresh
  <1>6. SameTime'
    BY <1>1, <1>2 DEF SameTime
  <1>7. StartedIsSpent'
    <2> SUFFICES ASSUME NEW j \in Jobs, kind[j].at, ran[j] # 0
                 PROVE  ran[j] = 1 /\ j \notin jobs' /\ (j \in jobs' \cup file' => left'[j] = 0)
      BY <1>1 DEF StartedIsSpent
    <2>1. j \in file => saved[j] = 0
      BY DEF StartedIsSpent, SameTime
    <2>2. ran[j] = 1
      BY DEF StartedIsSpent
    <2> QED BY <1>1, <1>2, <2>1, <2>2 DEF Expired
  <1> QED BY <1>4, <1>5, <1>6, <1>7

\* Every step preserves the invariant.
LEMMA NextCron == CronInv /\ [Next]_vars => CronInv'
  <1> SUFFICES ASSUME CronInv, [Next]_vars PROVE CronInv'
    OBVIOUS
  <1>1. ASSUME NEW j \in Jobs, Add(j) PROVE CronInv'
    BY <1>1, AddCron
  <1>2. ASSUME NEW S \in SUBSET jobs, Remove(S) PROVE CronInv'
    BY <1>2, RemoveCron
  <1>3. CASE Tick
    BY <1>3, TickCron
  <1>4. CASE Finish
    BY <1>4, FinishCron
  <1>5. CASE Advance
    BY <1>5, AdvanceCron
  <1>6. CASE Stop
    BY <1>6, StopCron
  <1>7. CASE Restart
    BY <1>7, RestartCron
  <1>8. CASE UNCHANGED vars
    BY <1>8 DEF vars, store, loop, CronInv, TypeOK, RunningIsUp, TakenOnce, UnknownNeverRan,
                SameTime, TodoIsFresh, StartedIsSpent
  <1> QED BY <1>1, <1>2, <1>3, <1>4, <1>5, <1>6, <1>7, <1>8 DEF Next

----------------------------------------------------------------------------
\* Every variable of the scheduler keeps its type.
THEOREM CronTypeOK == Spec => []TypeOK
  <1>1. CronInv => TypeOK
    BY DEF CronInv
  <1> QED BY InitCron, NextCron, <1>1, PTL DEF Spec

\* A one-shot job is started at most once, across restarts and failing writes.
THEOREM CronOneShotOnce == Spec => []OneShotOnce
  <1>1. CronInv => OneShotOnce
    BY DEF CronInv, StartedIsSpent, OneShotOnce, TypeOK
  <1> QED BY InitCron, NextCron, <1>1, PTL DEF Spec

----------------------------------------------------------------------------
\* As long as no write failed, the count of failures is still zero before a step.
LEMMA NoFaultBefore ==
  ASSUME CronInv, [Next]_vars, faults' = 0
  PROVE  faults = 0
  <1>1. faults \in Nat
    BY CronAssumption DEF CronInv, TypeOK
  <1>2. faults' = faults \/ faults' = faults + 1
    BY FinishFacts DEF CronInv, Next, Add, Remove, Tick, Advance, Stop, Restart, Save, SaveFails, vars
  <1> QED BY <1>1, <1>2

\* A step without a failing write keeps cancelled jobs out of memory and file:
\* nothing but add_job() of a new job brings one in, and the file follows memory.
LEMMA NextCancelled == CronInv /\ CancelledStaysGone /\ [Next]_vars => CancelledStaysGone'
  <1> SUFFICES ASSUME CronInv, CancelledStaysGone, [Next]_vars, faults' = 0
               PROVE  removed' \cap (jobs' \cup file') = {}
    BY DEF CancelledStaysGone
  <1>1. faults = 0 /\ faults' # faults + 1 /\ removed \cap (jobs \cup file) = {}
    BY NoFaultBefore DEF CancelledStaysGone
  <1>2. removed \subseteq known
    BY DEF CronInv, TypeOK
  <1>3. ASSUME NEW j \in Jobs, Add(j) PROVE removed' \cap (jobs' \cup file') = {}
    BY <1>1, <1>2, <1>3 DEF Add, Save, SaveFails
  <1>4. ASSUME NEW S \in SUBSET jobs, Remove(S) PROVE removed' \cap (jobs' \cup file') = {}
    BY <1>1, <1>4 DEF Remove, Save, SaveFails
  <1>5. CASE Tick
    BY <1>1, <1>5 DEF Tick, store
  <1>6. CASE Finish
    <2>1. removed' = removed
      BY <1>6 DEF Finish
    <2>2. jobs' \subseteq jobs /\ file' \subseteq jobs' \cup file
      BY <1>1, <1>6, FinishFacts DEF CronInv
    <2> QED BY <1>1, <2>1, <2>2
  <1>7. CASE Advance
    BY <1>1, <1>7 DEF Advance
  <1>8. CASE Stop
    BY <1>1, <1>8 DEF Stop, store
  <1>9. CASE Restart
    <2>1. jobs' \subseteq file /\ file' = jobs' /\ removed' = removed
      BY <1>1, <1>9 DEF Restart, Save, SaveFails
    <2> QED BY <1>1, <2>1
  <1>10. CASE UNCHANGED vars
    BY <1>1, <1>10 DEF vars
  <1> QED BY <1>3, <1>4, <1>5, <1>6, <1>7, <1>8, <1>9, <1>10 DEF Next

\* The loop that goes to sleep will be awake when the next job is due.
LEMMA SleepsLittle ==
  ASSUME NEW S, S \subseteq Jobs, Continue(S), running' = None,
         jobs' \subseteq Jobs, left' \in [Jobs -> 0 .. MaxDelay]
  PROVE  \A j \in jobs' : sleep' =< left'[j]
  <1> USE CronAssumption
  <1>1. S = {}
    <2> SUFFICES ASSUME S # {} PROVE FALSE
      OBVIOUS
    <2>1. running' = Least(S)
      BY DEF Continue
    <2>2. S \subseteq Nat
      BY DEF Jobs
    <2>3. Least(S) \in S
      BY <2>2, LeastIsLeast
    <2> QED BY <2>1, <2>3 DEF None, Jobs
  <1>2. sleep' = SleepTime
    BY <1>1 DEF Continue
  <1> DEFINE T == {left'[j] : j \in jobs'} \cup {MaxSleep}
  <1>3. T \subseteq Nat /\ T # {}
    OBVIOUS
  <1>4. \A m \in T : Least(T) =< m
    BY <1>3, LeastIsLeast
  <1>5. \A j \in jobs' : left'[j] \in T
    OBVIOUS
  <1>6. sleep' = Least(T)
    BY <1>2 DEF SleepTime
  <1> HIDE DEF T
  <1> QED BY <1>4, <1>5, <1>6

\* A step without a failing write leaves no sleeping loop that would miss a job:
\* a change of the jobs wakes it, and it computes its sleep after its tick.
LEMMA NextNoOversleep == CronInv /\ NoOversleep /\ [Next]_vars => NoOversleep'
  <1> SUFFICES ASSUME CronInv, NoOversleep, [Next]_vars,
                      faults' = 0, mode' = "up", running' = None, ~wake'
               PROVE  \A j \in jobs' : sleep' =< left'[j]
    BY DEF NoOversleep
  <1>1. faults = 0 /\ faults' # faults + 1
    BY NoFaultBefore
  <1>2. TypeOK /\ TypeOK'
    BY NextCron DEF CronInv
  <1>3. jobs' \subseteq Jobs /\ left' \in [Jobs -> 0 .. MaxDelay]
    BY <1>2 DEF TypeOK
  <1>4. ASSUME NEW j \in Jobs, Add(j) PROVE FALSE
    BY <1>1, <1>4 DEF Add, SaveFails, Woken
  <1>5. ASSUME NEW S \in SUBSET jobs, Remove(S) PROVE FALSE
    BY <1>1, <1>5 DEF Remove, SaveFails, Woken
  <1>6. CASE Tick
    <2>1. Due \subseteq Jobs /\ Continue(Due)
      BY <1>2, <1>6 DEF Tick, Due, TypeOK
    <2> QED BY <1>3, <2>1, SleepsLittle
  <1>7. CASE Finish
    <2>1. todo \subseteq Jobs /\ (Continue(todo) \/ Continue({}))
      BY <1>2, <1>7, FinishFacts DEF TypeOK
    <2> QED BY <1>3, <2>1, SleepsLittle
  <1>8. CASE Advance
    <2>1. \A j \in jobs : sleep =< left[j]
      BY <1>1, <1>8 DEF Advance, NoOversleep
    <2>2. /\ jobs' = jobs /\ sleep' = Lower(sleep)
          /\ \A j \in Jobs : left'[j] = Lower(left[j])
      BY <1>8 DEF Advance
    <2>3. sleep \in Nat /\ \A j \in Jobs : left[j] \in Nat
      BY <1>2, CronAssumption DEF TypeOK
    <2>4. \A m, n \in Nat : m =< n => Lower(m) =< Lower(n)
      BY DEF Lower
    <2> QED BY <1>3, <2>1, <2>2, <2>3, <2>4
  <1>9. CASE Stop
    BY <1>9 DEF Stop
  <1>10. CASE Restart
    <2>1. sleep' = 0
      BY <1>10 DEF Restart
    <2>2. \A j \in Jobs : left'[j] \in Nat
      BY <1>3, CronAssumption
    <2> QED BY <1>3, <2>1, <2>2
  <1>11. CASE UNCHANGED vars
    BY <1>1, <1>11 DEF vars, NoOversleep
  <1> QED BY <1>4, <1>5, <1>6, <1>7, <1>8, <1>9, <1>10, <1>11 DEF Next

\* A cancelled job comes back neither from a tick nor from the file, unless a
\* write of the file failed.
THEOREM CronCancelledStaysGone == Spec => []CancelledStaysGone
  <1>1. Init => CancelledStaysGone
    BY DEF Init, CancelledStaysGone
  <1> QED BY InitCron, NextCron, NextCancelled, <1>1, PTL DEF Spec

\* No wake-up of the loop is lost, unless a write of the file failed.
THEOREM CronNoOversleep == Spec => []NoOversleep
  <1>1. Init => NoOversleep
    BY DEF Init, NoOversleep
  <1> QED BY InitCron, NextCron, NextNoOversleep, <1>1, PTL DEF Spec

=============================================================================
