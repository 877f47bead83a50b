------------------------- MODULE TaskLedgerProofs -------------------------
(* What TaskLedger guarantees for any number of workers, rows, attempts and *)
(* leases, and whatever happens how often.                                  *)
EXTENDS TaskLedger, TLAPS

----------------------------------------------------------------------------
(* The inductive invariant *)

Sending == {w \in Workers : beat[w].at \in {"sent", "won"}}

\* One active row at a time; rows not created yet are blank.
TableInv ==
    /\ \A r, s \in Active : r = s
    /\ \A r \in Runs : r > created => rows[r].state = "none" /\ failures[r] = 0

\* A lease on its way to the table, or to the handle, is nobody else's.
TokenInv ==
    /\ \A v, w \in Workers : v \in Sending => beat[v].next # work[w].lease
    /\ \A v, w \in Sending : v # w => beat[v].next # beat[w].next
    /\ \A v \in Sending : beat[v].next # 0
    /\ \A v \in Workers, r \in Runs :
          beat[v].at = "sent" => beat[v].next # rows[r].lease
    /\ \A x \in loose :
          /\ x.next # 0
          /\ \A w \in Workers : x.next # work[w].lease
          /\ \A w \in Sending : x.next # beat[w].next
          /\ \A r \in Runs : x.next # rows[r].lease
    /\ \A x, y \in loose : x # y => x.next # y.next

\* A heartbeat runs beside the work and sends the lease of its handle.
BeatInv ==
    \A w \in Workers :
        /\ beat[w].at # "quiet" => work[w].at = "run"
        /\ beat[w].at = "sent" => beat[w].prev = work[w].lease

\* The lease l of worker w is the one in row r only if w claimed it last.
Owns(w, r, l) ==
    Fenced(r, l) =>
        /\ owner[r] = {w}
        /\ work[w].at \in {"run", "settle"} => work[w].attempts = rows[r].attempts

\* So it is for the lease of a handle, and for the one its heartbeat has written.
HandleInv ==
    \A w \in Workers :
        /\ work[w].at \in {"claim", "read", "run", "settle"} => work[w].row \in Runs
        /\ w \in Holding => Owns(w, work[w].row, work[w].lease)
        /\ beat[w].at = "won" => Owns(w, work[w].row, beat[w].next)
        /\ work[w].at = "settle" =>
              /\ work[w].plan \in {"complete", "retry", "abandon", "defer"}
              /\ work[w].plan = "retry" => work[w].attempts < MaxAttempts
              /\ work[w].plan = "abandon" => ~(work[w].attempts < MaxAttempts)

\* A worker that did not lose its run has it.
LiveInv ==
    \A w \in Holding :
        w \notin lost =>
            /\ rows[work[w].row].state = "running"
            /\ ~rows[work[w].row].lapsed
            /\ owner[work[w].row] = {w}

LedgerInv ==
    TypeOK /\ TableInv /\ TokenInv /\ BeatInv /\ HandleInv /\ LiveInv /\ BudgetIsFailures

USE DEF Runs, Terminal, Store, Become, ledger

\* Initially nothing is there.
LEMMA InitLedger == Init => LedgerInv
  <1> SUFFICES ASSUME Init PROVE LedgerInv
    OBVIOUS
  <1> USE LedgerAssumption DEF Init, Blank, Idle, Stage, Quiet
  <1>1. TypeOK
    BY DEF TypeOK, RowType, WorkType, BeatType
  <1>2. Holding = {} /\ Sending = {} /\ Active = {}
    BY DEF Holding, Sending, Active
  <1>3. TableInv /\ TokenInv /\ BeatInv /\ HandleInv /\ LiveInv
    BY <1>2 DEF TableInv, TokenInv, BeatInv, HandleInv, LiveInv
  <1>4. BudgetIsFailures
    BY DEF BudgetIsFailures
  <1> QED BY <1>1, <1>3, <1>4 DEF LedgerInv

\* The lease of a claim or a heartbeat is used nowhere.
LEMMA FreshLease ==
  ASSUME NEW l, NewLease(l)
  PROVE  /\ l \in Leases /\ l # 0
         /\ \A r \in Runs : rows[r].lease # l
         /\ \A w \in Workers : work[w].lease # l /\ beat[w].prev # l /\ beat[w].next # l
         /\ \A x \in loose : x.prev # l /\ x.next # l
  <1>1. l \in Leases /\ l \notin InUse /\ l # 0
    BY LedgerAssumption DEF NewLease
  <1> QED BY <1>1 DEF InUse, Held, Written, Aborted

----------------------------------------------------------------------------
(* Finding and claiming *)

\* A worker without a handle goes from one stage before the claim to another.
LEMMA Aside ==
  ASSUME LedgerInv, NEW w \in Workers, NEW s, Become(w, s),
         work[w].at \in {"idle", "insert", "claim"}, s.at \in {"idle", "insert", "claim"},
         s \in [at : {"idle", "insert", "claim"}, row : 0 .. MaxRuns,
                plan : {"none", "pending", "running"}, lease : {0}, attempts : {0}],
         s.at = "claim" => s.row \in Runs,
         older' \subseteq Workers,
         UNCHANGED <<ledger, beat, loose, lost, spent>>
  PROVE  LedgerInv'
  <1> USE DEF LedgerInv
  <1>1. TypeOK'
    <2>1. s \in WorkType
      BY DEF WorkType
    <2> QED BY <2>1 DEF TypeOK
  <1>2. work'[w] = s /\ \A v \in Workers : v # w => work'[v] = work[v]
    BY DEF TypeOK
  <1>3. Holding' = Holding /\ w \notin Holding
    BY <1>2 DEF Holding
  <1>4. TableInv' /\ BudgetIsFailures'
    BY DEF TableInv, Active, BudgetIsFailures
  <1>5. BeatInv'
    BY <1>2 DEF BeatInv
  <1>6. TokenInv'
    BY <1>2 DEF TokenInv, Sending
  <1>7. HandleInv'
    BY <1>2, <1>3 DEF HandleInv, BeatInv, Owns, Fenced
  <1>8. LiveInv'
    BY <1>2, <1>3 DEF LiveInv
  <1> QED BY <1>1, <1>4, <1>5, <1>6, <1>7, <1>8

\* The idle state is one of those stages.
LEMMA IdleAside ==
  /\ Idle.at = "idle"
  /\ Idle \in [at : {"idle", "insert", "claim"}, row : 0 .. MaxRuns,
               plan : {"none", "pending", "running"}, lease : {0}, attempts : {0}]
  BY LedgerAssumption DEF Idle, Stage

\* Finding a row, or none, or losing the race for it.
LEMMA FindStep ==
  ASSUME LedgerInv, NEW w \in Workers, Pick(w) \/ FindNone(w) \/ LoseRace(w)
  PROVE  LedgerInv'
  <1> USE DEF LedgerInv
  <1>0. UNCHANGED <<ledger, beat, loose, lost, spent>> /\ older' \subseteq Workers
    BY DEF Pick, FindNone, LoseRace, TypeOK
  <1>1. CASE Pick(w)
    <2>1. PICK r \in Runs :
            /\ Runnable(r)
            /\ Become(w, Stage("claim", r, rows[r].state))
      BY <1>1 DEF Pick
    <2> DEFINE s == Stage("claim", r, rows[r].state)
    <2>2. rows[r].state \in {"pending", "running"} /\ work[w].at = "idle"
      BY <1>1, <2>1 DEF Runnable, Pick
    <2>3. /\ s.at = "claim" /\ s.row \in Runs /\ Become(w, s)
          /\ s \in [at : {"idle", "insert", "claim"}, row : 0 .. MaxRuns,
                    plan : {"none", "pending", "running"}, lease : {0}, attempts : {0}]
      <3>1. r \in 0 .. MaxRuns
        BY LedgerAssumption
      <3> QED BY <2>1, <2>2, <3>1 DEF Stage
    <2> HIDE DEF s
    <2> QED BY <1>0, <2>2, <2>3, Aside
  <1>2. CASE FindNone(w)
    <2> DEFINE s == Stage("insert", 0, "none")
    <2>1. work[w].at = "idle" /\ Become(w, s)
      BY <1>2 DEF FindNone
    <2>2. /\ s.at = "insert"
          /\ s \in [at : {"idle", "insert", "claim"}, row : 0 .. MaxRuns,
                    plan : {"none", "pending", "running"}, lease : {0}, attempts : {0}]
      BY LedgerAssumption DEF Idle, Stage
    <2> HIDE DEF s
    <2> QED BY <1>0, <2>1, <2>2, Aside
  <1>3. CASE LoseRace(w)
    <2>1. work[w].at = "claim" /\ Become(w, Idle)
      BY <1>3 DEF LoseRace
    <2> QED BY <1>0, <2>1, IdleAside, Aside
  <1> QED BY <1>1, <1>2, <1>3

\* Inserting a row: there was no active one.
LEMMA InsertStep ==
  ASSUME LedgerInv, NEW w \in Workers, Insert(w)
  PROVE  LedgerInv'
  <1> USE DEF LedgerInv
  <1>1. CASE ~Admitted
    <2>1. /\ work[w].at = "insert" /\ Become(w, Idle)
          /\ UNCHANGED <<ledger, beat, loose, lost, spent>> /\ older' \subseteq Workers
      BY <1>1 DEF Insert, TypeOK
    <2> QED BY <2>1, IdleAside, Aside
  <1>2. CASE Admitted
    <2> DEFINE n == created + 1
    <2> DEFINE row == [Blank EXCEPT !.state = "pending", !.ready = TRUE]
    <2> DEFINE s == Stage("claim", n, "pending")
    <2>1. n \in Runs /\ created' = n /\ created \in 0 .. MaxRuns /\ n = created + 1
      BY <1>2, LedgerAssumption DEF Insert, Admitted, TypeOK
    <2>2. /\ rows'[n] = row /\ \A r \in Runs : r # n => rows'[r] = rows[r]
          /\ rows' = [rows EXCEPT ![n] = row]
      BY <1>2, <2>1 DEF Insert, TypeOK
    <2>3. /\ work'[w] = s /\ \A v \in Workers : v # w => work'[v] = work[v]
          /\ work' = [work EXCEPT ![w] = s]
      BY <1>2 DEF Insert, TypeOK
    <2>4. /\ UNCHANGED <<beat, loose, owner, failures, lost, spent>>
          /\ older' \subseteq Workers
      BY <1>2 DEF Insert, TypeOK, Waiting
    <2>5. row.state = "pending" /\ row.lease = 0 /\ ~row.lapsed /\ row.attempts = 0
      BY DEF Blank
    <2>6. s.at = "claim" /\ s.lease = 0 /\ s.row = n
      BY DEF Stage
    <2>7. Active = {} /\ work[w].at = "insert" /\ rows[n].state = "none" /\ failures[n] = 0
      BY <1>2, <2>1 DEF Insert, Admitted, TableInv
    <2>8. TypeOK'
      <3>1. row \in RowType
        BY DEF RowType, Blank
      <3>2. s \in WorkType
        <4>1. n \in 0 .. MaxRuns
          BY <2>1, LedgerAssumption
        <4> HIDE DEF n
        <4> QED BY <4>1 DEF WorkType, Stage
      <3> HIDE DEF n, row, s
      <3> QED BY <2>1, <2>2, <2>3, <2>4, <3>1, <3>2 DEF TypeOK
    <2> HIDE DEF n, row, s
    <2>9. TableInv'
      BY <2>1, <2>2, <2>4, <2>5, <2>7 DEF TableInv, Active
    <2>10. TokenInv'
      BY <2>1, <2>2, <2>3, <2>4, <2>5, <2>6 DEF TokenInv, Sending
    <2>11. BeatInv'
      BY <2>3, <2>4, <2>6, <2>7 DEF BeatInv
    <2>12. Holding' = Holding /\ w \notin Holding
      BY <2>3, <2>6, <2>7 DEF Holding
    <2>13. HandleInv'
      <3>1. \A r \in Runs : \A l : Fenced(r, l)' => Fenced(r, l) /\ rows'[r] = rows[r]
        BY <2>2, <2>5 DEF Fenced
      <3>2. beat[w].at = "quiet"
        BY <2>7 DEF BeatInv
      <3> SUFFICES ASSUME NEW v \in Workers, v # w
                   PROVE  /\ v \in Holding' => Owns(v, work[v].row, work[v].lease)'
                          /\ beat[v].at = "won" => Owns(v, work[v].row, beat[v].next)'
        BY <2>1, <2>3, <2>4, <2>6, <2>12, <3>2 DEF HandleInv
      <3>3. v \in Holding \/ beat[v].at = "won" => work[v].row \in Runs
        BY DEF Holding, BeatInv, HandleInv
      <3> QED BY <2>3, <2>4, <2>12, <3>1, <3>3 DEF HandleInv, Owns
    <2>14. LiveInv'
      BY <2>1, <2>2, <2>3, <2>4, <2>5, <2>6, <2>7, <2>12 DEF LiveInv
    <2>15. BudgetIsFailures'
      BY <2>1, <2>2, <2>4, <2>5, <2>7, LedgerAssumption DEF BudgetIsFailures
    <2> QED BY <2>8, <2>9, <2>10, <2>11, <2>13, <2>14, <2>15
  <1> QED BY <1>1, <1>2

\* A worker whose heartbeat is quiet lets go of its handle.
LEMMA GiveUp ==
  ASSUME LedgerInv, NEW w \in Workers, Become(w, Idle), beat[w].at = "quiet",
         lost' = lost \ {w}, UNCHANGED <<ledger, older, beat, loose, spent>>
  PROVE  LedgerInv'
  <1> USE DEF LedgerInv
  <1>1. Idle.at = "idle" /\ Idle.lease = 0 /\ Idle \in WorkType
    BY LedgerAssumption DEF Idle, Stage, WorkType
  <1>2. work'[w] = Idle /\ \A v \in Workers : v # w => work'[v] = work[v]
    BY DEF TypeOK
  <1>3. Holding' = Holding \ {w}
    BY <1>1, <1>2 DEF Holding
  <1>4. TypeOK'
    BY <1>1 DEF TypeOK
  <1>5. TableInv' /\ BudgetIsFailures'
    BY DEF TableInv, Active, BudgetIsFailures
  <1>6. TokenInv' /\ BeatInv'
    BY <1>1, <1>2 DEF TokenInv, BeatInv, Sending
  <1>7. HandleInv'
    <2> SUFFICES ASSUME NEW v \in Workers
                 PROVE  /\ work'[v].at \in {"claim", "read", "run", "settle"} => work'[v].row \in Runs
                        /\ v \in Holding' => Owns(v, work[v].row, work[v].lease)'
                        /\ beat[v].at = "won" => Owns(v, work[v].row, beat[v].next)'
                        /\ work'[v].at = "settle" =>
                              /\ work'[v].plan \in {"complete", "retry", "abandon", "defer"}
                              /\ work'[v].plan = "retry" => work'[v].attempts < MaxAttempts
                              /\ work'[v].plan = "abandon" => ~(work'[v].attempts < MaxAttempts)
      BY DEF HandleInv
    <2>1. CASE v = w
      BY <1>1, <1>2, <1>3, <2>1 DEF Holding
    <2>2. CASE v # w
      <3>1. work'[v] = work[v] /\ (v \in Holding' <=> v \in Holding)
        BY <1>2, <1>3, <2>2
      <3>2. \A r, l : Owns(v, r, l)' <=> Owns(v, r, l)
        BY <3>1 DEF Owns, Fenced
      <3> QED BY <3>1, <3>2 DEF HandleInv
    <2> QED BY <2>1, <2>2
  <1>8. LiveInv'
    <2> SUFFICES ASSUME NEW v \in Holding', v \notin lost'
                 PROVE  /\ rows[work'[v].row].state = "running"
                        /\ ~rows[work'[v].row].lapsed
                        /\ owner[work'[v].row] = {v}
      BY DEF LiveInv
    <2>1. v \in Holding /\ v # w /\ v \in Workers
      BY <1>3 DEF Holding
    <2> QED BY <1>2, <2>1 DEF LiveInv
  <1> QED BY <1>4, <1>5, <1>6, <1>7, <1>8

\* Claiming: the row was free or its lease over, so whoever had it has lost it.
LEMMA ClaimStep ==
  ASSUME LedgerInv, NEW w \in Workers, Claim(w)
  PROVE  LedgerInv'
  <1> USE DEF LedgerInv
  <1> DEFINE r == work[w].row
  <1> DEFINE p == work[w].plan
  <1>0. PICK l \in Leases :
          /\ NewLease(l)
          /\ Store(r, [rows[r] EXCEPT !.state = "running", !.lease = l, !.lapsed = FALSE,
                                      !.attempts = @ + Charged(p)])
          /\ Become(w, [work[w] EXCEPT !.at = "read", !.lease = l])
          /\ owner' = [owner EXCEPT ![r] = {w}]
    BY DEF Claim
  <1> DEFINE row == [rows[r] EXCEPT !.state = "running", !.lease = l, !.lapsed = FALSE,
                                    !.attempts = @ + Charged(p)]
  <1> DEFINE s == [work[w] EXCEPT !.at = "read", !.lease = l]
  <1>1. /\ work[w].at = "claim" /\ r \in Runs /\ rows[r].state = p /\ Runnable(r)
        /\ UNCHANGED <<created, beat, loose, failures, lost, spent>>
        /\ older' \subseteq Workers /\ work[w] \in WorkType /\ rows[r] \in RowType
    BY DEF Claim, Claimable, HandleInv, TypeOK
  <1>2. /\ rows' = [rows EXCEPT ![r] = row] /\ rows'[r] = row
        /\ \A q \in Runs : q # r => rows'[q] = rows[q]
    BY <1>0, <1>1 DEF TypeOK
  <1>3. /\ work' = [work EXCEPT ![w] = s] /\ work'[w] = s
        /\ \A v \in Workers : v # w => work'[v] = work[v]
    BY <1>0 DEF TypeOK
  <1>4. owner'[r] = {w} /\ \A q \in Runs : q # r => owner'[q] = owner[q]
    BY <1>0, <1>1 DEF TypeOK
  <1>5. Charged(p) \in Nat /\ (p = "pending" => Charged(p) = 1) /\ (p = "running" => Charged(p) = 0)
    BY DEF Charged
  <1>6. /\ row.state = "running" /\ row.lease = l /\ ~row.lapsed
        /\ row.attempts = rows[r].attempts + Charged(p) /\ row \in RowType
    <2>1. rows[r].attempts + Charged(p) \in Nat /\ l \in Leases \cup {0}
      BY <1>1, <1>5 DEF RowType
    <2> HIDE DEF p, r
    <2> QED BY <2>1, <1>1 DEF RowType
  <1>7. s.at = "read" /\ s.row = r /\ s.lease = l /\ s \in WorkType
    BY <1>1 DEF WorkType
  <1>8. /\ l # 0 /\ \A q \in Runs : rows[q].lease # l
        /\ \A v \in Workers : work[v].lease # l /\ beat[v].prev # l /\ beat[v].next # l
        /\ \A x \in loose : x.prev # l /\ x.next # l
    BY <1>0, FreshLease
  <1>9. p \in {"pending", "running"} /\ beat[w].at = "quiet"
    BY <1>1 DEF Runnable, BeatInv
  <1>10. owner' \in [Runs -> SUBSET Workers]
    BY <1>0, <1>1 DEF TypeOK
  <1> HIDE DEF row, s, r, p
  <1>11. TypeOK'
    BY <1>1, <1>2, <1>3, <1>6, <1>7, <1>10 DEF TypeOK
  <1>12. TableInv' /\ (\A q \in Active : q = r)
    BY <1>1, <1>2, <1>6, <1>9 DEF TableInv, Active, TypeOK
  <1>13. TokenInv'
    BY <1>1, <1>2, <1>3, <1>6, <1>7, <1>8, <1>9 DEF TokenInv, Sending
  <1>14. BeatInv'
    BY <1>1, <1>3, <1>7, <1>9 DEF BeatInv
  <1>15. Holding' = Holding \cup {w} /\ w \notin Holding
    BY <1>1, <1>3, <1>7 DEF Holding
  <1>16. HandleInv'
    <2>1. ASSUME NEW v \in Workers, v # w, v \in Holding
          PROVE  Owns(v, work[v].row, work[v].lease)'
      BY <2>1, <1>2, <1>3, <1>4, <1>6, <1>8 DEF HandleInv, Owns, Fenced, Holding
    <2>2. ASSUME NEW v \in Workers, beat[v].at = "won"
          PROVE  v # w /\ Owns(v, work[v].row, beat[v].next)'
      <3>1. v # w /\ work[v].row \in Runs /\ Owns(v, work[v].row, beat[v].next)
        BY <2>2, <1>9 DEF HandleInv, BeatInv
      <3>2. work'[v] = work[v] /\ beat' = beat /\ beat[v].next # l
        BY <3>1, <1>1, <1>3, <1>8
      <3> QED BY <3>1, <3>2, <1>2, <1>4, <1>6 DEF Owns, Fenced
    <2>3. Owns(w, work[w].row, work[w].lease)'
      BY <1>3, <1>4, <1>7 DEF Owns
    <2> QED BY <2>1, <2>2, <2>3, <1>1, <1>3, <1>7, <1>15 DEF HandleInv
  <1>17. LiveInv'
    <2>1. ASSUME NEW v \in Holding, v \notin lost PROVE work[v].row # r
      BY <2>1, <1>1, <1>9 DEF LiveInv, Runnable
    <2>2. \A v \in Holding : work[v].row \in Runs
      BY DEF HandleInv, Holding
    <2> QED BY <2>1, <2>2, <1>1, <1>2, <1>3, <1>4, <1>6, <1>7, <1>15 DEF LiveInv, Holding
  <1>18. BudgetIsFailures'
    BY <1>1, <1>2, <1>5, <1>6, <1>9 DEF BudgetIsFailures, TypeOK, RowType
  <1> QED BY <1>11, <1>12, <1>13, <1>14, <1>16, <1>17, <1>18

\* Reading the row back gives a handle the attempts of its own row, or an error.
LEMMA ReadStep ==
  ASSUME LedgerInv, NEW w \in Workers, Read(w)
  PROVE  LedgerInv'
  <1> USE DEF LedgerInv
  <1>1. /\ work[w].at = "read" /\ work[w].row \in Runs /\ beat[w].at = "quiet"
        /\ UNCHANGED <<ledger, older, beat, loose, spent>>
        /\ work[w] \in WorkType /\ rows[work[w].row] \in RowType
    BY DEF Read, HandleInv, BeatInv, TypeOK
  <1>2. TableInv' /\ BudgetIsFailures'
    BY <1>1 DEF TableInv, Active, BudgetIsFailures
  <1>3. CASE rows[work[w].row].state = "gone"
    <2>1. Become(w, Idle) /\ lost' = lost \ {w}
      BY <1>3 DEF Read
    <2> QED BY <1>1, <1>2, <2>1, GiveUp
  <1>4. CASE rows[work[w].row].state # "gone"
    <2> DEFINE s == [work[w] EXCEPT !.at = "run", !.attempts = rows[work[w].row].attempts]
    <2>1. Become(w, s) /\ lost' = lost
      BY <1>4 DEF Read
    <2>2. /\ s.at = "run" /\ s.row = work[w].row /\ s.lease = work[w].lease
          /\ s.attempts = rows[work[w].row].attempts /\ s \in WorkType
      BY <1>1 DEF WorkType, RowType
    <2>3. work'[w] = s /\ \A v \in Workers : v # w => work'[v] = work[v]
      BY <2>1 DEF TypeOK
    <2>4. TypeOK'
      <3> HIDE DEF s
      <3> QED BY <1>1, <2>1, <2>2 DEF TypeOK
    <2> HIDE DEF s
    <2>5. Holding' = Holding
      BY <1>1, <2>2, <2>3 DEF Holding
    <2>6. TokenInv' /\ BeatInv'
      BY <1>1, <2>2, <2>3 DEF TokenInv, BeatInv, Sending
    <2>7. HandleInv'
      BY <1>1, <2>2, <2>3, <2>5 DEF HandleInv, Owns, Fenced, Holding
    <2>8. LiveInv'
      BY <1>1, <2>1, <2>2, <2>3, <2>5 DEF LiveInv, Holding
    <2> QED BY <1>2, <2>4, <2>6, <2>7, <2>8
  <1> QED BY <1>3, <1>4

----------------------------------------------------------------------------
(* Heartbeats *)

\* Counting something that is bounded.
LEMMA Spending ==
  ASSUME NEW k \in Kinds, spent \in [Kinds -> Nat], Spend(k)
  PROVE  spent' \in [Kinds -> Nat]
  <1>1. spent[k] + 1 \in Nat
    OBVIOUS
  <1> QED BY <1>1 DEF Spend

\* The lease that a heartbeat sends is new.
LEMMA BeatSentStep ==
  ASSUME LedgerInv, NEW w \in Workers, BeatSent(w)
  PROVE  LedgerInv'
  <1> USE DEF LedgerInv
  <1>0. PICK l \in Leases :
          /\ NewLease(l)
          /\ beat' = [beat EXCEPT ![w] = [at |-> "sent", prev |-> work[w].lease, next |-> l]]
    BY DEF BeatSent
  <1> DEFINE b == [at |-> "sent", prev |-> work[w].lease, next |-> l]
  <1>1. /\ work[w].at = "run" /\ beat[w].at = "quiet"
        /\ UNCHANGED <<ledger, work, older, loose, lost>>
        /\ spent' \in [Kinds -> Nat] /\ work[w] \in WorkType
    <2>1. "beat" \in Kinds /\ Spend("beat") /\ spent \in [Kinds -> Nat]
      BY DEF BeatSent, Kinds, TypeOK
    <2>2. spent' \in [Kinds -> Nat]
      BY <2>1, Spending
    <2> QED BY <2>2 DEF BeatSent, TypeOK
  <1>2. /\ beat' = [beat EXCEPT ![w] = b] /\ beat'[w] = b
        /\ \A v \in Workers : v # w => beat'[v] = beat[v]
    BY <1>0 DEF TypeOK
  <1>3. b.at = "sent" /\ b.prev = work[w].lease /\ b.next = l /\ b \in BeatType
    BY <1>1 DEF BeatType, WorkType
  <1>4. /\ l # 0 /\ \A q \in Runs : rows[q].lease # l
        /\ \A v \in Workers : work[v].lease # l /\ beat[v].prev # l /\ beat[v].next # l
        /\ \A x \in loose : x.prev # l /\ x.next # l
    BY <1>0, FreshLease
  <1> HIDE DEF b
  <1>5. TypeOK'
    BY <1>1, <1>2, <1>3 DEF TypeOK
  <1>6. TableInv' /\ BudgetIsFailures' /\ LiveInv'
    BY <1>1 DEF TableInv, Active, BudgetIsFailures, LiveInv, Holding
  <1>7. TokenInv'
    <2>1. Sending' \subseteq Sending \cup {w}
      BY <1>2 DEF Sending
    <2> QED BY <2>1, <1>1, <1>2, <1>3, <1>4 DEF TokenInv, Sending
  <1>8. BeatInv'
    BY <1>1, <1>2, <1>3 DEF BeatInv
  <1>9. HandleInv'
    BY <1>1, <1>2, <1>3 DEF HandleInv, Owns, Fenced, Holding
  <1> QED BY <1>5, <1>6, <1>7, <1>8, <1>9

\* What a heartbeat's statement leaves in a row: the same but for the lease.
LEMMA ExtendedRow ==
  ASSUME TypeOK, NEW r \in Runs, NEW prev, NEW next \in Leases \cup {0}
  PROVE  /\ Extended(r, prev, next) \in RowType
         /\ Extended(r, prev, next).state = rows[r].state
         /\ Extended(r, prev, next).attempts = rows[r].attempts
         /\ ~rows[r].lapsed => ~Extended(r, prev, next).lapsed
         /\ Fenced(r, prev) => Extended(r, prev, next).lease = next
         /\ ~Fenced(r, prev) => Extended(r, prev, next) = rows[r]
  <1>1. rows[r] \in RowType
    BY DEF TypeOK
  <1>2. CASE Fenced(r, prev)
    BY <1>1, <1>2 DEF Extended, RowType
  <1>3. CASE ~Fenced(r, prev)
    BY <1>1, <1>3 DEF Extended
  <1> QED BY <1>2, <1>3

\* The statement of a heartbeat keeps what does not depend on leases.
LEMMA Extending ==
  ASSUME LedgerInv, NEW r \in Runs, NEW prev, NEW next \in Leases \cup {0},
         Store(r, Extended(r, prev, next)),
         UNCHANGED <<created, work, older, owner, failures, lost, spent>>
  PROVE  /\ rows' \in [Runs -> RowType]
         /\ \A q \in Runs : q # r => rows'[q] = rows[q]
         /\ rows'[r] = Extended(r, prev, next)
         /\ \A q \in Runs : /\ rows'[q].state = rows[q].state
                            /\ rows'[q].attempts = rows[q].attempts
                            /\ ~rows[q].lapsed => ~rows'[q].lapsed
         /\ TableInv' /\ BudgetIsFailures' /\ LiveInv'
  <1> USE DEF LedgerInv
  <1>1. /\ rows' \in [Runs -> RowType] /\ rows'[r] = Extended(r, prev, next)
        /\ \A q \in Runs : q # r => rows'[q] = rows[q]
    BY ExtendedRow DEF TypeOK
  <1>2. \A q \in Runs : /\ rows'[q].state = rows[q].state
                        /\ rows'[q].attempts = rows[q].attempts
                        /\ ~rows[q].lapsed => ~rows'[q].lapsed
    BY <1>1, ExtendedRow
  <1>3. TableInv' /\ BudgetIsFailures'
    BY <1>2 DEF TableInv, Active, BudgetIsFailures
  <1>4. LiveInv'
    BY <1>2 DEF LiveInv, HandleInv, Holding
  <1> QED BY <1>1, <1>2, <1>3, <1>4

\* The statement succeeds for the last claimer only, and its lease is then the row's.
LEMMA BeatWrittenStep ==
  ASSUME LedgerInv, NEW w \in Workers, BeatWritten(w)
  PROVE  LedgerInv'
  <1> USE DEF LedgerInv
  <1> DEFINE r == work[w].row
  <1> DEFINE n == beat[w].next
  <1> DEFINE won == Fenced(r, beat[w].prev)
  <1>1. /\ beat[w].at = "sent" /\ work[w].at = "run" /\ beat[w].prev = work[w].lease
        /\ r \in Runs /\ n \in Leases \cup {0} /\ w \in Holding
        /\ Store(r, Extended(r, beat[w].prev, n))
        /\ beat' = [beat EXCEPT ![w].at = IF won THEN "won" ELSE "refused"]
        /\ UNCHANGED <<created, work, older, loose, owner, failures, lost, spent>>
    BY DEF BeatWritten, BeatInv, HandleInv, TypeOK, BeatType, Holding
  <1>2. /\ beat' \in [Workers -> BeatType]
        /\ beat'[w].at = (IF won THEN "won" ELSE "refused") /\ beat'[w].next = n
        /\ \A v \in Workers : v # w => beat'[v] = beat[v]
    BY <1>1 DEF TypeOK, BeatType
  <1> HIDE DEF r, n, won
  <1>3. /\ rows' \in [Runs -> RowType]
        /\ \A q \in Runs : q # r => rows'[q] = rows[q]
        /\ rows'[r] = Extended(r, beat[w].prev, n)
        /\ \A q \in Runs : /\ rows'[q].state = rows[q].state
                           /\ rows'[q].attempts = rows[q].attempts
        /\ TableInv' /\ BudgetIsFailures' /\ LiveInv'
    BY <1>1, Extending
  <1>4. /\ won => rows'[r].lease = n
        /\ ~won => rows'[r] = rows[r]
    BY <1>1, <1>3, ExtendedRow DEF won
  <1>5. TypeOK'
    BY <1>1, <1>2, <1>3 DEF TypeOK
  <1>6. Sending' \subseteq Sending /\ w \in Sending
    BY <1>1, <1>2 DEF Sending
  <1>7. TokenInv'
    <2>1. \A v \in Workers : beat'[v].next = beat[v].next
      BY <1>2 DEF n
    <2>2. \A q \in Runs : rows'[q].lease \in {rows[q].lease, n}
      BY <1>3, <1>4
    <2>3. \A v \in Workers : beat'[v].at = "sent" => v # w /\ beat[v].at = "sent"
      BY <1>2
    <2>4. \A v \in Workers, q \in Runs : beat'[v].at = "sent" => beat'[v].next # rows'[q].lease
      BY <1>6, <2>1, <2>2, <2>3 DEF TokenInv, Sending, n
    <2>5. \A x \in loose, q \in Runs : x.next # rows'[q].lease
      BY <1>6, <2>2 DEF TokenInv, n
    <2> QED BY <1>1, <1>6, <2>1, <2>4, <2>5 DEF TokenInv
  <1>8. BeatInv'
    BY <1>1, <1>2 DEF BeatInv
  <1>9. HandleInv'
    <2>1. ASSUME NEW v \in Holding PROVE Owns(v, work[v].row, work[v].lease)'
      <3>1. work[v].row \in Runs /\ Owns(v, work[v].row, work[v].lease) /\ work[v].lease # n
        BY <1>6 DEF HandleInv, Holding, TokenInv, n
      <3> QED BY <3>1, <1>1, <1>3, <1>4 DEF Owns, Fenced
    <2>2. ASSUME NEW v \in Workers, beat'[v].at = "won"
          PROVE  Owns(v, work[v].row, beat[v].next)'
      <3>1. CASE v = w
        <4>1. won /\ Owns(w, r, work[w].lease)
          BY <1>1, <1>2, <2>2, <3>1 DEF HandleInv, r
        <4>2. owner[r] = {w} /\ work[w].attempts = rows[r].attempts
          BY <1>1, <4>1 DEF won, Owns
        <4> QED BY <1>1, <1>3, <3>1, <4>2 DEF Owns, r
      <3>2. CASE v # w
        <4>1. /\ beat[v].at = "won" /\ Owns(v, work[v].row, beat[v].next)
              /\ work[v].row \in Runs
          BY <1>2, <2>2, <3>2 DEF HandleInv, BeatInv
        <4>2. beat[v].next # n /\ beat'[v] = beat[v]
          BY <1>2, <1>6, <3>2, <4>1 DEF TokenInv, Sending, n
        <4> QED BY <4>1, <4>2, <1>1, <1>3, <1>4 DEF Owns, Fenced
      <3> QED BY <3>1, <3>2
    <2>3. Holding' = Holding
      BY <1>1 DEF Holding
    <2> QED BY <2>1, <2>2, <2>3, <1>1 DEF HandleInv
  <1> QED BY <1>3, <1>5, <1>7, <1>8, <1>9

\* The statement of an aborted heartbeat: nobody has the lease that it leaves.
LEMMA LooseWriteStep ==
  ASSUME LedgerInv, NEW x \in loose, LooseWrite(x)
  PROVE  LedgerInv'
  <1> USE DEF LedgerInv
  <1>1. /\ x.row \in Runs /\ x.next \in Leases \cup {0}
        /\ Store(x.row, Extended(x.row, x.prev, x.next)) /\ loose' = loose \ {x}
        /\ UNCHANGED <<created, work, older, beat, owner, failures, lost, spent>>
    BY DEF LooseWrite, TypeOK
  <1>2. /\ rows' \in [Runs -> RowType]
        /\ \A q \in Runs : q # x.row => rows'[q] = rows[q]
        /\ rows'[x.row] = Extended(x.row, x.prev, x.next)
        /\ \A q \in Runs : /\ rows'[q].state = rows[q].state
                           /\ rows'[q].attempts = rows[q].attempts
        /\ TableInv' /\ BudgetIsFailures' /\ LiveInv'
    BY <1>1, Extending
  <1>3. rows'[x.row].lease = x.next \/ rows'[x.row] = rows[x.row]
    BY <1>1, <1>2, ExtendedRow
  <1>4. TypeOK'
    BY <1>1, <1>2 DEF TypeOK
  <1>5. TokenInv'
    <2>1. \A q \in Runs : rows'[q].lease \in {rows[q].lease, x.next}
      BY <1>2, <1>3
    <2>2. \A y \in loose' : y \in loose /\ y.next # x.next
      BY <1>1 DEF TokenInv
    <2>3. \A v \in Workers, q \in Runs : beat[v].at = "sent" => beat[v].next # rows'[q].lease
      BY <2>1 DEF TokenInv, Sending
    <2>4. \A y \in loose', q \in Runs : y.next # rows'[q].lease
      BY <2>1, <2>2 DEF TokenInv
    <2> QED BY <1>1, <2>2, <2>3, <2>4 DEF TokenInv, Sending
  <1>6. BeatInv'
    BY <1>1 DEF BeatInv
  <1>7. HandleInv'
    <2>1. ASSUME NEW v \in Workers, NEW l, l # x.next, work[v].row \in Runs,
                 Owns(v, work[v].row, l)
          PROVE  Owns(v, work[v].row, l)'
      BY <2>1, <1>1, <1>2, <1>3 DEF Owns, Fenced
    <2>2. \A v \in Workers : work[v].lease # x.next /\ (v \in Sending => beat[v].next # x.next)
      BY DEF TokenInv
    <2>3. \A v \in Holding : work[v].row \in Runs
      BY DEF HandleInv, Holding
    <2>4. \A v \in Workers : beat[v].at = "won" => v \in Sending /\ work[v].row \in Runs
      BY DEF HandleInv, BeatInv, Sending
    <2>5. Holding' = Holding
      BY <1>1 DEF Holding
    <2> QED BY <2>1, <2>2, <2>3, <2>4, <2>5, <1>1 DEF HandleInv
  <1> QED BY <1>2, <1>4, <1>5, <1>6, <1>7

\* The heartbeat fails, records what it has written, or exits.
LEMMA BeatEndsStep ==
  ASSUME LedgerInv, NEW w \in Workers, BeatFails(w) \/ BeatReturns(w)
  PROVE  LedgerInv'
  <1> USE DEF LedgerInv
  <1>0. UNCHANGED <<ledger, older, loose, lost, spent>>
    BY DEF BeatFails, BeatReturns
  <1>1. TableInv' /\ BudgetIsFailures'
    BY <1>0 DEF TableInv, Active, BudgetIsFailures
  <1>2. CASE beat[w].at # "won"
    <2>1. PICK b \in BeatType : /\ beat' = [beat EXCEPT ![w] = b]
                                /\ b.at \in {"quiet", "exited"}
      BY <1>2 DEF BeatFails, BeatReturns, Quiet, BeatType
    <2>2. UNCHANGED work /\ work[w].at = "run"
      BY <1>2 DEF BeatFails, BeatReturns, BeatInv
    <2>3. /\ beat'[w] = b /\ \A v \in Workers : v # w => beat'[v] = beat[v]
          /\ Sending' \subseteq Sending
      BY <2>1 DEF TypeOK, Sending
    <2>4. TypeOK'
      BY <1>0, <2>1, <2>2 DEF TypeOK
    <2>5. TokenInv'
      BY <1>0, <2>1, <2>2, <2>3 DEF TokenInv, Sending
    <2>6. BeatInv'
      BY <1>0, <2>1, <2>2, <2>3 DEF BeatInv
    <2>7. HandleInv'
      <3>1. Holding' = Holding /\ \A v, r, l : Owns(v, r, l)' <=> Owns(v, r, l)
        BY <1>0, <2>2 DEF Holding, Owns, Fenced
      <3>2. \A v \in Workers : beat'[v].at = "won" => v # w /\ beat'[v] = beat[v]
        BY <2>1, <2>3
      <3> QED BY <1>0, <2>2, <3>1, <3>2 DEF HandleInv
    <2>8. LiveInv'
      BY <1>0, <2>2 DEF LiveInv, Holding
    <2> QED BY <1>1, <2>4, <2>5, <2>6, <2>7, <2>8
  <1>3. CASE beat[w].at = "won"
    <2> DEFINE s == [work[w] EXCEPT !.lease = beat[w].next]
    <2>1. /\ beat' = [beat EXCEPT ![w] = Quiet] /\ work' = [work EXCEPT ![w] = s]
          /\ work[w].at = "run" /\ work[w] \in WorkType /\ beat[w] \in BeatType
      BY <1>3 DEF BeatFails, BeatReturns, BeatInv, TypeOK
    <2>2. /\ s.at = "run" /\ s.row = work[w].row /\ s.lease = beat[w].next
          /\ s.attempts = work[w].attempts /\ s \in WorkType
      BY <2>1 DEF WorkType, BeatType
    <2>3. Quiet \in BeatType /\ Quiet.at = "quiet"
      BY DEF Quiet, BeatType
    <2> HIDE DEF s
    <2>4. /\ work'[w] = s /\ beat'[w] = Quiet
          /\ \A v \in Workers : v # w => work'[v] = work[v] /\ beat'[v] = beat[v]
      BY <2>1 DEF TypeOK
    <2>5. TypeOK'
      BY <1>0, <2>1, <2>2, <2>3 DEF TypeOK
    <2>6. Sending' = Sending \ {w} /\ w \in Sending /\ Holding' = Holding
      BY <1>3, <2>1, <2>2, <2>3, <2>4 DEF Sending, Holding
    <2>7. TokenInv'
      BY <1>0, <2>2, <2>3, <2>4, <2>6 DEF TokenInv, Sending
    <2>8. BeatInv'
      BY <2>3, <2>4 DEF BeatInv
    <2>9. HandleInv'
      <3>1. Owns(w, work[w].row, work[w].lease)'
        <4>1. Owns(w, work[w].row, beat[w].next)
          BY <1>3 DEF HandleInv
        <4> QED BY <4>1, <1>0, <2>1, <2>2, <2>4 DEF Owns, Fenced
      <3>2. ASSUME NEW v \in Workers, v # w
            PROVE  /\ v \in Holding' => Owns(v, work[v].row, work[v].lease)'
                   /\ beat'[v].at = "won" => Owns(v, work[v].row, beat[v].next)'
        BY <3>2, <1>0, <2>4, <2>6 DEF HandleInv, Owns, Fenced
      <3>3. beat'[w].at = "quiet" /\ work'[w].at = "run" /\ work'[w].row \in Runs
        BY <2>1, <2>2, <2>3, <2>4 DEF HandleInv
      <3> QED BY <3>1, <3>2, <3>3, <2>4 DEF HandleInv
    <2>10. LiveInv'
      <3>1. \A v \in Workers : work'[v].row = work[v].row
        BY <2>2, <2>4
      <3>2. Holding \subseteq Workers
        BY DEF Holding
      <3> QED BY <1>0, <3>1, <3>2, <2>6 DEF LiveInv
    <2> QED BY <1>1, <2>5, <2>7, <2>8, <2>9, <2>10
  <1> QED BY <1>2, <1>3

----------------------------------------------------------------------------
(* Settling *)

\* Aborting the heartbeat of a worker that works no more: a lease that it has
\* sent is still nobody else's.
LEMMA Stopping ==
  ASSUME LedgerInv, NEW w \in Workers, w \in Holding, StopBeat(w), NEW s \in WorkType,
         Become(w, s), s.lease \in {work[w].lease, 0}, UNCHANGED <<ledger, older>>,
         lost' \subseteq lost, spent' \in [Kinds -> Nat]
  PROVE  /\ TypeOK' /\ TableInv' /\ TokenInv' /\ BeatInv' /\ BudgetIsFailures'
         /\ work'[w] = s /\ beat'[w].at = "quiet"
         /\ \A v \in Workers : v # w => work'[v] = work[v] /\ beat'[v] = beat[v]
  <1> USE DEF LedgerInv
  <1> DEFINE x == [row |-> work[w].row, prev |-> beat[w].prev, next |-> beat[w].next]
  <1>1. Quiet \in BeatType /\ Quiet.at = "quiet"
    BY DEF Quiet, BeatType
  <1>2. /\ beat' = [beat EXCEPT ![w] = Quiet] /\ beat'[w] = Quiet /\ work'[w] = s
        /\ work' = [work EXCEPT ![w] = s]
        /\ \A v \in Workers : v # w => work'[v] = work[v] /\ beat'[v] = beat[v]
    BY DEF StopBeat, TypeOK
  <1>3. /\ x \in [row : Runs, prev : Leases \cup {0}, next : Leases \cup {0}]
        /\ x.next = beat[w].next
    <2>1. work[w].row \in Runs /\ beat[w] \in BeatType
      BY DEF HandleInv, Holding, TypeOK
    <2> QED BY <2>1 DEF BeatType
  <1>4. loose' = loose \/ (loose' = loose \cup {x} /\ beat[w].at = "sent")
    BY DEF StopBeat
  <1> HIDE DEF x
  <1>5. TypeOK'
    BY <1>1, <1>2, <1>3, <1>4 DEF TypeOK
  <1>6. TableInv' /\ BudgetIsFailures'
    BY DEF TableInv, Active, BudgetIsFailures
  <1>7. BeatInv'
    BY <1>1, <1>2 DEF BeatInv
  <1>8. Sending' = Sending \ {w}
    BY <1>1, <1>2 DEF Sending
  <1>9. TokenInv'
    <2>1. CASE loose' = loose
      <3>1. \A v \in Sending' : beat'[v] = beat[v] /\ v \in Sending /\ v # w
        BY <1>2, <1>8
      <3>2. \A v \in Sending : beat[v].next # s.lease
        BY DEF TokenInv, Sending
      <3>3. \A y \in loose : y.next # s.lease
        BY DEF TokenInv
      <3>4. \A v \in Workers : work'[v].lease \in {work[v].lease, s.lease}
        BY <1>2
      <3>5. \A v \in Workers, q \in Runs : beat'[v].at = "sent" => beat'[v].next # rows'[q].lease
        BY <1>1, <1>2 DEF TokenInv
      <3> QED BY <2>1, <3>1, <3>2, <3>3, <3>4, <3>5 DEF TokenInv, Sending
    <2>2. CASE loose' = loose \cup {x} /\ beat[w].at = "sent"
      <3>0. w \in Sending /\ x.next # 0
        BY <2>2, <1>3 DEF Sending, TokenInv
      <3>1. \A v \in Sending' : beat'[v] = beat[v] /\ v \in Sending /\ v # w
        BY <1>2, <1>8
      <3>2. \A v \in Sending : beat[v].next # s.lease
        BY DEF TokenInv, Sending
      <3>3. \A y \in loose' : y.next # s.lease /\ y.next # 0
        BY <2>2, <3>0, <3>2, <1>3 DEF TokenInv
      <3>4. \A v \in Workers : work'[v].lease \in {work[v].lease, s.lease}
        BY <1>2
      <3>5. \A v \in Workers, q \in Runs : beat'[v].at = "sent" => beat'[v].next # rows'[q].lease
        BY <1>1, <1>2 DEF TokenInv
      <3>6. \A v \in Workers : x.next # work[v].lease
        BY <3>0, <1>3 DEF TokenInv
      <3>7. \A v \in Sending' : x.next # beat'[v].next
        BY <3>0, <3>1, <1>3 DEF TokenInv
      <3>8. \A q \in Runs : x.next # rows[q].lease
        BY <2>2, <1>3 DEF TokenInv
      <3>9. \A y \in loose : y.next # x.next
        BY <3>0, <1>3 DEF TokenInv
      <3>10. \A y \in loose' :
               /\ \A v \in Workers : y.next # work'[v].lease
               /\ \A v \in Sending' : y.next # beat'[v].next
               /\ \A q \in Runs : y.next # rows'[q].lease
        BY <2>2, <3>1, <3>3, <3>4, <3>6, <3>7, <3>8 DEF TokenInv
      <3>11. \A y, z \in loose' : y # z => y.next # z.next
        BY <2>2, <3>9 DEF TokenInv
      <3>12. \A v, u \in Workers : v \in Sending' => beat'[v].next # work'[u].lease
        BY <3>1, <3>2, <3>4 DEF TokenInv
      <3>13. \A v, u \in Sending' : v # u => beat'[v].next # beat'[u].next
        BY <3>1 DEF TokenInv
      <3>14. \A v \in Sending' : beat'[v].next # 0
        BY <3>1 DEF TokenInv
      <3> QED BY <3>3, <3>5, <3>10, <3>11, <3>12, <3>13, <3>14 DEF TokenInv
    <2> QED BY <1>4, <2>1, <2>2
  <1> QED BY <1>1, <1>2, <1>5, <1>6, <1>7, <1>9

\* The work ends: what fail() decides by is what it read when it had the row.
LEMMA FinishStep ==
  ASSUME LedgerInv, NEW w \in Workers, Finish(w)
  PROVE  LedgerInv'
  <1> USE DEF LedgerInv
  <1>0. PICK plan \in {"complete", FailPlan(w), "defer"} :
          /\ Become(w, [work[w] EXCEPT !.at = "settle", !.plan = plan])
          /\ IF plan = "defer" THEN Spend("mishap") ELSE UNCHANGED spent
    BY DEF Finish
  <1> DEFINE s == [work[w] EXCEPT !.at = "settle", !.plan = plan]
  <1>1. /\ work[w].at = "run" /\ work[w] \in WorkType /\ w \in Holding
        /\ StopBeat(w) /\ UNCHANGED <<ledger, older, lost>>
    BY DEF Finish, TypeOK, Holding
  <1>2. /\ plan \in {"complete", "retry", "abandon", "defer"}
        /\ plan = "retry" => work[w].attempts < MaxAttempts
        /\ plan = "abandon" => ~(work[w].attempts < MaxAttempts)
    BY DEF FailPlan
  <1>3. /\ s.at = "settle" /\ s.plan = plan /\ s.row = work[w].row
        /\ s.lease = work[w].lease /\ s.attempts = work[w].attempts /\ s \in WorkType
    BY <1>1, <1>2 DEF WorkType
  <1>4. spent' \in [Kinds -> Nat]
    <2>1. "mishap" \in Kinds /\ spent \in [Kinds -> Nat]
      BY DEF Kinds, TypeOK
    <2> QED BY <1>0, <2>1, Spending
  <1> HIDE DEF s
  <1>5. Become(w, s)
    BY <1>0 DEF s
  <1>6. /\ TypeOK' /\ TableInv' /\ TokenInv' /\ BeatInv' /\ BudgetIsFailures'
        /\ work'[w] = s /\ beat'[w].at = "quiet"
        /\ \A v \in Workers : v # w => work'[v] = work[v] /\ beat'[v] = beat[v]
    BY <1>1, <1>3, <1>4, <1>5, Stopping
  <1>7. Holding' = Holding
    BY <1>1, <1>3, <1>6 DEF Holding
  <1>8. HandleInv'
    <2>1. Owns(w, work[w].row, work[w].lease)'
      <3>1. Owns(w, work[w].row, work[w].lease)
        BY <1>1 DEF HandleInv
      <3> QED BY <3>1, <1>1, <1>3, <1>6 DEF Owns, Fenced
    <2>2. ASSUME NEW v \in Workers, v # w
          PROVE  /\ v \in Holding' => Owns(v, work[v].row, work[v].lease)'
                 /\ beat'[v].at = "won" => Owns(v, work[v].row, beat[v].next)'
      BY <2>2, <1>1, <1>6, <1>7 DEF HandleInv, Owns, Fenced
    <2>3. work'[w].row \in Runs
      BY <1>1, <1>3, <1>6 DEF HandleInv
    <2> QED BY <2>1, <2>2, <2>3, <1>2, <1>3, <1>6 DEF HandleInv
  <1>9. LiveInv'
    <2>1. \A v \in Workers : work'[v].row = work[v].row
      BY <1>3, <1>6
    <2>2. Holding \subseteq Workers
      BY DEF Holding
    <2> QED BY <1>1, <1>7, <2>1, <2>2 DEF LiveInv
  <1> QED BY <1>6, <1>8, <1>9

\* A handle is dropped, with or without a heartbeat under way.
LEMMA DropStep ==
  ASSUME LedgerInv, NEW w \in Workers, Drop(w)
  PROVE  LedgerInv'
  <1> USE DEF LedgerInv
  <1>1. /\ w \in Holding /\ Become(w, Idle) /\ StopBeat(w) /\ lost' = lost \ {w}
        /\ UNCHANGED <<ledger, older>>
    BY DEF Drop
  <1>2. spent' \in [Kinds -> Nat]
    <2>1. "mishap" \in Kinds /\ spent \in [Kinds -> Nat] /\ Spend("mishap")
      BY DEF Drop, Kinds, TypeOK
    <2> QED BY <2>1, Spending
  <1>3. Idle \in WorkType /\ Idle.lease = 0 /\ Idle.at = "idle"
    BY LedgerAssumption DEF Idle, Stage, WorkType
  <1>4. /\ TypeOK' /\ TableInv' /\ TokenInv' /\ BeatInv' /\ BudgetIsFailures'
        /\ work'[w] = Idle /\ beat'[w].at = "quiet"
        /\ \A v \in Workers : v # w => work'[v] = work[v] /\ beat'[v] = beat[v]
    BY <1>1, <1>2, <1>3, Stopping
  <1>5. Holding' = Holding \ {w}
    BY <1>3, <1>4 DEF Holding
  <1>6. HandleInv'
    <2>1. ASSUME NEW v \in Workers, v # w
          PROVE  /\ work'[v] = work[v] /\ beat'[v] = beat[v] /\ (v \in Holding' <=> v \in Holding)
                 /\ \A r, l : Owns(v, r, l)' <=> Owns(v, r, l)
      BY <1>1, <1>4, <1>5, <2>1 DEF Owns, Fenced
    <2>2. w \notin Holding' /\ work'[w].at = "idle" /\ beat'[w].at = "quiet"
      BY <1>3, <1>4, <1>5
    <2> QED BY <2>1, <2>2 DEF HandleInv
  <1>7. LiveInv'
    <2> SUFFICES ASSUME NEW v \in Holding', v \notin lost'
                 PROVE  /\ rows[work'[v].row].state = "running"
                        /\ ~rows[work'[v].row].lapsed
                        /\ owner[work'[v].row] = {v}
      BY <1>1 DEF LiveInv
    <2>1. v # w /\ v \in Holding /\ v \in Workers /\ v \notin lost
      BY <1>1, <1>5 DEF Holding
    <2> QED BY <1>4, <2>1 DEF LiveInv
  <1> QED BY <1>4, <1>6, <1>7

\* What the terminal statement leaves in a row that it finds.
LEMMA SettledRow ==
  ASSUME NEW row \in RowType, row.state = "running",
         NEW plan \in {"complete", "retry", "abandon", "defer"}
  PROVE  LET t == Settled(row, plan) IN
         /\ t \in RowType /\ t.lease = 0 /\ t.state # "running"
         /\ plan = "complete" => t.state = "succeeded"
         /\ plan = "retry" => t.state = "pending" /\ t.attempts = row.attempts
         /\ plan = "abandon" => t.state = "abandoned"
         /\ plan = "defer" => /\ t.state = "pending"
                              /\ row.attempts > 0 => t.attempts = row.attempts - 1
  <1> DEFINE free == [row EXCEPT !.lease = 0, !.lapsed = FALSE]
  <1>1. /\ free \in RowType /\ free.lease = 0 /\ free.attempts = row.attempts
        /\ row.attempts \in Nat
    BY DEF RowType
  <1> HIDE DEF free
  <1>2. CASE plan = "complete"
    <2>1. Settled(row, plan) = [free EXCEPT !.state = "succeeded"]
      BY <1>2 DEF Settled, free
    <2> QED BY <1>1, <1>2, <2>1 DEF RowType
  <1>3. CASE plan = "retry"
    <2>1. Settled(row, plan) = [free EXCEPT !.state = "pending", !.ready = FALSE]
      BY <1>3 DEF Settled, free
    <2> QED BY <1>1, <1>3, <2>1 DEF RowType
  <1>4. CASE plan = "abandon"
    <2>1. Settled(row, plan) = [free EXCEPT !.state = "abandoned"]
      BY <1>4 DEF Settled, free
    <2> QED BY <1>1, <1>4, <2>1 DEF RowType
  <1>5. CASE plan = "defer"
    <2>1. Settled(row, plan) = Deferred(free)
      BY <1>5 DEF Settled, free
    <2>2. /\ Deferred(free).state = "pending" /\ Deferred(free).lease = 0
          /\ Deferred(free).attempts =
                (IF free.attempts > 0 THEN free.attempts - 1 ELSE 0)
          /\ (IF free.attempts > 0 THEN free.attempts - 1 ELSE 0) \in Nat
      BY <1>1 DEF Deferred, RowType
    <2>3. Deferred(free) \in RowType
      BY <1>1, <2>2 DEF Deferred, RowType
    <2> QED BY <1>1, <1>5, <2>1, <2>2, <2>3
  <1> QED BY <1>2, <1>3, <1>4, <1>5

\* The terminal statement settles the run of the last claimer, or nothing.
LEMMA SettleStep ==
  ASSUME LedgerInv, NEW w \in Workers, Settle(w)
  PROVE  LedgerInv'
  <1> USE DEF LedgerInv
  <1> DEFINE r == work[w].row
  <1> DEFINE p == work[w].plan
  <1>1. /\ work[w].at = "settle" /\ r \in Runs /\ w \in Holding /\ beat[w].at = "quiet"
        /\ Become(w, Idle) /\ lost' = lost \ {w}
        /\ UNCHANGED <<created, older, beat, loose, spent>>
    BY DEF Settle, HandleInv, Holding, BeatInv
  <1>2. CASE ~Fenced(r, work[w].lease)
    BY <1>1, <1>2, GiveUp DEF Settle
  <1>3. CASE Fenced(r, work[w].lease)
    <2> DEFINE t == Settled(rows[r], p)
    <2>1. /\ rows' = [rows EXCEPT ![r] = t] /\ owner' = [owner EXCEPT ![r] = {}]
          /\ failures' = [failures EXCEPT ![r] = IF p \in {"retry", "abandon"} THEN @ + 1
                                                                              ELSE @]
      BY <1>3 DEF Settle
    <2>2. /\ p \in {"complete", "retry", "abandon", "defer"} /\ rows[r] \in RowType
          /\ rows[r].state = "running" /\ owner[r] = {w}
          /\ work[w].attempts = rows[r].attempts
          /\ p = "retry" => work[w].attempts < MaxAttempts
          /\ p = "abandon" => ~(work[w].attempts < MaxAttempts)
      BY <1>1, <1>3 DEF HandleInv, Owns, Fenced, TypeOK
    <2>3. /\ t \in RowType /\ t.lease = 0 /\ t.state # "running"
          /\ p = "complete" => t.state = "succeeded"
          /\ p = "retry" => t.state = "pending" /\ t.attempts = rows[r].attempts
          /\ p = "abandon" => t.state = "abandoned"
          /\ p = "defer" => /\ t.state = "pending"
                            /\ rows[r].attempts > 0 => t.attempts = rows[r].attempts - 1
      <3> HIDE DEF p, r
      <3> QED BY <2>2, SettledRow
    <2> HIDE DEF t
    <2>4. /\ rows'[r] = t /\ \A q \in Runs : q # r => rows'[q] = rows[q]
          /\ owner'[r] = {} /\ \A q \in Runs : q # r => owner'[q] = owner[q]
          /\ failures'[r] = (IF p \in {"retry", "abandon"} THEN failures[r] + 1 ELSE failures[r])
          /\ \A q \in Runs : q # r => failures'[q] = failures[q]
      BY <1>1, <2>1 DEF TypeOK
    <2>5. /\ Idle \in WorkType /\ Idle.at = "idle" /\ Idle.lease = 0
          /\ work'[w] = Idle /\ \A v \in Workers : v # w => work'[v] = work[v]
      BY <1>1, LedgerAssumption DEF Idle, Stage, WorkType, TypeOK
    <2>6. failures[r] \in Nat /\ rows[r].attempts = failures[r] + 1 /\ failures[r] < MaxAttempts
      BY <1>1, <2>2 DEF BudgetIsFailures, TypeOK
    <2> HIDE DEF r, p
    <2>7. TypeOK'
      <3>1. failures' \in [Runs -> Nat]
        <4>1. failures[r] + 1 \in Nat
          BY <2>6
        <4> QED BY <4>1, <2>1, <2>6 DEF TypeOK
      <3> QED BY <3>1, <1>1, <2>1, <2>3, <2>5 DEF TypeOK
    <2>8. TableInv'
      <3>1. created' = created /\ r \in Active /\ Active' \subseteq Active
        BY <1>1, <2>2, <2>4 DEF Active
      <3>2. ~(r > created)
        BY <1>1, <2>2 DEF TableInv
      <3> QED BY <3>1, <3>2, <2>4 DEF TableInv
    <2>9. TokenInv' /\ BeatInv'
      <3>1. \A q \in Runs : rows'[q].lease \in {rows[q].lease, 0}
        BY <2>3, <2>4
      <3>2. \A v \in Workers : work'[v].lease \in {work[v].lease, 0}
        BY <2>5
      <3>3. BeatInv'
        BY <1>1, <2>5 DEF BeatInv
      <3>4. Sending' = Sending /\ \A v \in Workers : beat[v].at = "sent" => v \in Sending
        BY <1>1 DEF Sending
      <3>5. \A v, u \in Workers : v \in Sending => beat[v].next # work'[u].lease
        BY <3>2 DEF TokenInv
      <3>6. \A v \in Workers, q \in Runs : beat[v].at = "sent" => beat[v].next # rows'[q].lease
        BY <3>1, <3>4 DEF TokenInv
      <3>7. \A x \in loose : /\ \A v \in Workers : x.next # work'[v].lease
                             /\ \A q \in Runs : x.next # rows'[q].lease
        BY <3>1, <3>2 DEF TokenInv
      <3> QED BY <1>1, <3>3, <3>4, <3>5, <3>6, <3>7 DEF TokenInv
    <2>10. Holding' = Holding \ {w}
      BY <2>5 DEF Holding
    <2>11. HandleInv'
      <3>1. ASSUME NEW v \in Workers, v # w, NEW l, work[v].row \in Runs,
                   Owns(v, work[v].row, l)
            PROVE  Owns(v, work[v].row, l)'
        BY <3>1, <2>3, <2>4, <2>5 DEF Owns, Fenced
      <3>2. \A v \in Workers : beat[v].at = "won" => v # w /\ work[v].row \in Runs
        BY <1>1 DEF HandleInv, BeatInv
      <3>3. \A v \in Holding : work[v].row \in Runs
        BY DEF HandleInv, Holding
      <3>4. \A v \in Holding' : v # w /\ v \in Holding
        BY <2>10
      <3> QED BY <1>1, <2>5, <3>1, <3>2, <3>3, <3>4 DEF HandleInv
    <2>12. LiveInv'
      <3>1. ASSUME NEW v \in Holding, v # w, v \notin lost PROVE work[v].row # r
        BY <3>1, <2>2 DEF LiveInv
      <3>2. \A v \in Holding : v \in Workers /\ work[v].row \in Runs
        BY DEF HandleInv, Holding
      <3> QED BY <1>1, <2>4, <2>5, <2>10, <3>1, <3>2 DEF LiveInv
    <2>13. BudgetIsFailures'
      <3>1. /\ rows'[r].state = "pending" => rows'[r].attempts = failures'[r]
            /\ rows'[r].state = "pending" => failures'[r] < MaxAttempts
            /\ rows'[r].state = "abandoned" => failures'[r] = MaxAttempts
        BY <2>2, <2>3, <2>4, <2>6, LedgerAssumption DEF p
      <3> QED BY <3>1, <2>3, <2>4 DEF BudgetIsFailures
    <2> QED BY <2>7, <2>8, <2>9, <2>11, <2>12, <2>13
  <1> QED BY <1>2, <1>3

----------------------------------------------------------------------------
(* Time, deletion and collection *)

\* A lease that expires: whoever held it has lost it.
LEMMA LapseStep ==
  ASSUME LedgerInv, NEW r \in Runs, Lapse(r)
  PROVE  LedgerInv'
  <1> USE DEF LedgerInv
  <1>1. /\ rows[r].state = "running" /\ lost' = lost \cup Holders(r)
        /\ rows' = [rows EXCEPT ![r] = [rows[r] EXCEPT !.lapsed = TRUE]]
        /\ UNCHANGED <<created, work, beat, loose, owner, failures>>
    BY DEF Lapse
  <1>2. rows[r] \in RowType /\ owner[r] \subseteq Workers
    BY DEF TypeOK
  <1>3. /\ rows' \in [Runs -> RowType]
        /\ \A q \in Runs : q # r => rows'[q] = rows[q]
        /\ \A q \in Runs : /\ rows'[q].state = rows[q].state
                           /\ rows'[q].lease = rows[q].lease
                           /\ rows'[q].attempts = rows[q].attempts
    BY <1>1, <1>2 DEF TypeOK, RowType
  <1>4. TypeOK'
    <2>1. lost' \subseteq Workers
      BY <1>1, <1>2 DEF TypeOK, Holders
    <2>2. older' \subseteq Workers
      BY DEF Lapse, Waiting, TypeOK
    <2>3. spent' \in [Kinds -> Nat]
      <3>1. "lapse" \in Kinds /\ spent \in [Kinds -> Nat]
        BY DEF Kinds, TypeOK
      <3> QED BY <3>1, Spending DEF Lapse
    <2> QED BY <1>1, <1>3, <2>1, <2>2, <2>3 DEF TypeOK
  <1>5. TableInv' /\ BudgetIsFailures'
    BY <1>1, <1>3 DEF TableInv, Active, BudgetIsFailures
  <1>6. TokenInv' /\ BeatInv'
    BY <1>1, <1>3 DEF TokenInv, BeatInv, Sending
  <1>7. HandleInv'
    <2>1. \A q \in Runs : \A l : Fenced(q, l)' = Fenced(q, l)
      BY <1>3 DEF Fenced
    <2>2. \A v \in Workers : v \in Holding \/ beat[v].at = "won" => work[v].row \in Runs
      BY DEF HandleInv, Holding, BeatInv
    <2>3. Holding' = Holding
      BY <1>1 DEF Holding
    <2> QED BY <1>1, <1>3, <2>1, <2>2, <2>3 DEF HandleInv, Owns
  <1>8. LiveInv'
    <2>1. Holding' = Holding /\ \A v \in Holding : v \in Workers /\ work[v].row \in Runs
      BY <1>1 DEF Holding, HandleInv
    <2>2. ASSUME NEW v \in Holding, v \notin lost' PROVE work[v].row # r /\ v \notin lost
      BY <2>2, <1>1 DEF Holders, LiveInv
    <2> QED BY <1>1, <1>3, <2>1, <2>2 DEF LiveInv
  <1> QED BY <1>4, <1>5, <1>6, <1>7, <1>8

\* A row whose time has come.
LEMMA ArriveStep ==
  ASSUME LedgerInv, NEW r \in Runs, Arrive(r)
  PROVE  LedgerInv'
  <1> USE DEF LedgerInv
  <1>1. /\ rows[r].state = "pending"
        /\ rows' = [rows EXCEPT ![r] = [rows[r] EXCEPT !.ready = TRUE]]
        /\ UNCHANGED <<created, work, beat, loose, owner, failures, lost, spent>>
        /\ older' \subseteq Workers
    BY DEF Arrive, Waiting, TypeOK
  <1>2. rows[r] \in RowType
    BY DEF TypeOK
  <1>3. /\ rows' \in [Runs -> RowType]
        /\ \A q \in Runs : /\ rows'[q].state = rows[q].state
                           /\ rows'[q].lease = rows[q].lease
                           /\ rows'[q].lapsed = rows[q].lapsed
                           /\ rows'[q].attempts = rows[q].attempts
    BY <1>1, <1>2 DEF TypeOK, RowType
  <1>4. TypeOK'
    BY <1>1, <1>3 DEF TypeOK
  <1>5. TableInv' /\ BudgetIsFailures'
    BY <1>1, <1>3 DEF TableInv, Active, BudgetIsFailures
  <1>6. TokenInv' /\ BeatInv'
    BY <1>1, <1>3 DEF TokenInv, BeatInv, Sending
  <1>7. \A v \in Workers : v \in Holding \/ beat[v].at = "won" => work[v].row \in Runs
    BY DEF HandleInv, Holding, BeatInv
  <1>8. Holding' = Holding /\ Holding \subseteq Workers
    BY <1>1 DEF Holding
  <1>9. HandleInv'
    <2>1. \A q \in Runs : \A l : Fenced(q, l)' = Fenced(q, l)
      BY <1>3 DEF Fenced
    <2> QED BY <1>1, <1>3, <1>7, <1>8, <2>1 DEF HandleInv, Owns
  <1>10. LiveInv'
    BY <1>1, <1>3, <1>7, <1>8 DEF LiveInv
  <1> QED BY <1>4, <1>5, <1>6, <1>9, <1>10

\* The subject is deleted: every worker that has its run has lost it.
LEMMA SettleMootStep ==
  ASSUME LedgerInv, SettleMoot
  PROVE  LedgerInv'
  <1> USE DEF LedgerInv
  <1>1. /\ rows' = [q \in Runs |->
                      IF q \in Active
                      THEN [rows[q] EXCEPT !.state = "succeeded", !.lease = 0, !.lapsed = FALSE]
                      ELSE rows[q]]
        /\ lost' = lost \cup {v \in Holding : work[v].row \in Active}
        /\ owner' = [q \in Runs |-> {}]
        /\ UNCHANGED <<created, work, older, beat, loose, failures>>
    BY DEF SettleMoot
  <1>2. \A q \in Runs :
          /\ rows'[q] \in RowType /\ rows'[q].state \notin {"pending", "running"}
          /\ q \in Active => rows'[q].state = "succeeded" /\ rows'[q].lease = 0
          /\ q \notin Active => rows'[q] = rows[q]
    <2> TAKE q \in Runs
    <2>1. rows[q] \in RowType
      BY DEF TypeOK
    <2>2. CASE q \in Active
      BY <1>1, <2>1, <2>2 DEF RowType
    <2>3. CASE q \notin Active
      BY <1>1, <2>1, <2>3 DEF Active
    <2> QED BY <2>2, <2>3
  <1>3. TypeOK'
    <2>1. spent' \in [Kinds -> Nat]
      <3>1. "mishap" \in Kinds /\ spent \in [Kinds -> Nat] /\ Spend("mishap")
        BY DEF SettleMoot, Kinds, TypeOK
      <3> QED BY <3>1, Spending
    <2>2. rows' \in [Runs -> RowType]
      BY <1>1, <1>2
    <2>3. lost' \subseteq Workers /\ owner' \in [Runs -> SUBSET Workers]
      BY <1>1 DEF TypeOK, Holding
    <2> QED BY <1>1, <2>1, <2>2, <2>3 DEF TypeOK
  <1>4. TableInv'
    <2>1. Active' = {}
      BY <1>2 DEF Active
    <2>2. \A q \in Runs : q > created => q \notin Active
      BY DEF TableInv, Active
    <2> QED BY <1>1, <1>2, <2>1, <2>2 DEF TableInv
  <1>5. TokenInv' /\ BeatInv'
    <2>1. \A q \in Runs : rows'[q].lease \in {rows[q].lease, 0}
      BY <1>2
    <2>2. Sending' = Sending /\ \A v \in Workers : beat[v].at = "sent" => v \in Sending
      BY <1>1 DEF Sending
    <2>3. \A v \in Workers, q \in Runs : beat[v].at = "sent" => beat[v].next # rows'[q].lease
      BY <2>1, <2>2 DEF TokenInv
    <2>4. \A x \in loose, q \in Runs : x.next # rows'[q].lease
      BY <2>1 DEF TokenInv
    <2>5. BeatInv'
      BY <1>1 DEF BeatInv
    <2>6. UNCHANGED <<work, beat, loose>>
      BY <1>1
    <2> QED BY <2>2, <2>3, <2>4, <2>5, <2>6 DEF TokenInv
  <1>6. Holding' = Holding
    BY <1>1 DEF Holding
  <1>7. \A v \in Workers : v \in Holding \/ beat[v].at = "won" => work[v].row \in Runs
    BY DEF HandleInv, Holding, BeatInv
  <1>8. HandleInv'
    <2>1. \A q \in Runs : \A l : ~Fenced(q, l)'
      BY <1>2 DEF Fenced
    <2> QED BY <1>1, <1>6, <1>7, <2>1 DEF HandleInv, Owns
  <1>9. LiveInv'
    <2>1. ASSUME NEW v \in Holding, v \notin lost' PROVE FALSE
      <3>1. v \notin lost /\ work[v].row \notin Active /\ v \in Workers
        BY <2>1, <1>1 DEF Holding
      <3> QED BY <3>1, <1>7 DEF LiveInv, Active
    <2> QED BY <1>6, <2>1 DEF LiveInv
  <1>10. BudgetIsFailures'
    BY <1>1, <1>2 DEF BudgetIsFailures, Active
  <1> QED BY <1>3, <1>4, <1>5, <1>8, <1>9, <1>10

\* A terminal row is removed.
LEMMA CollectStep ==
  ASSUME LedgerInv, NEW r \in Runs, Collect(r)
  PROVE  LedgerInv'
  <1> USE DEF LedgerInv
  <1> DEFINE gone == [Blank EXCEPT !.state = "gone"]
  <1>1. /\ rows[r].state \in {"succeeded", "abandoned"} /\ rows' = [rows EXCEPT ![r] = gone]
        /\ failures' = [failures EXCEPT ![r] = 0]
        /\ UNCHANGED <<created, work, older, beat, loose, owner, lost, spent>>
    BY DEF Collect
  <1>2. gone \in RowType /\ gone.state = "gone" /\ gone.lease = 0
    BY DEF Blank, RowType
  <1> HIDE DEF gone
  <1>3. /\ rows'[r] = gone /\ \A q \in Runs : q # r => rows'[q] = rows[q]
        /\ failures' \in [Runs -> Nat]
        /\ \A q \in Runs : q # r => failures'[q] = failures[q]
    BY <1>1 DEF TypeOK
  <1>4. TypeOK'
    BY <1>1, <1>2, <1>3 DEF TypeOK
  <1>5. TableInv'
    <2>1. Active' \subseteq Active /\ ~(r > created)
      BY <1>1, <1>2, <1>3 DEF Active, TableInv
    <2> QED BY <1>1, <1>3, <2>1 DEF TableInv
  <1>6. TokenInv' /\ BeatInv'
    <2>1. \A q \in Runs : rows'[q].lease \in {rows[q].lease, 0}
      BY <1>2, <1>3
    <2>2. Sending' = Sending /\ \A v \in Workers : beat[v].at = "sent" => v \in Sending
      BY <1>1 DEF Sending
    <2> QED BY <1>1, <2>1, <2>2 DEF TokenInv, BeatInv
  <1>7. Holding' = Holding /\ Holding \subseteq Workers
    BY <1>1 DEF Holding
  <1>8. \A v \in Workers : v \in Holding \/ beat[v].at = "won" => work[v].row \in Runs
    BY DEF HandleInv, Holding, BeatInv
  <1>9. HandleInv'
    <2>1. \A q \in Runs : \A l : Fenced(q, l)' => Fenced(q, l) /\ rows'[q] = rows[q]
      BY <1>2, <1>3 DEF Fenced
    <2> QED BY <1>1, <1>7, <1>8, <2>1 DEF HandleInv, Owns
  <1>10. LiveInv'
    BY <1>1, <1>3, <1>7, <1>8 DEF LiveInv
  <1>11. BudgetIsFailures'
    BY <1>2, <1>3 DEF BudgetIsFailures
  <1> QED BY <1>4, <1>5, <1>6, <1>9, <1>10, <1>11

----------------------------------------------------------------------------
(* The theorems *)

\* Every step keeps the invariant.
LEMMA LedgerStep == LedgerInv /\ [Next]_vars => LedgerInv'
  <1> SUFFICES ASSUME LedgerInv, [Next]_vars PROVE LedgerInv'
    OBVIOUS
  <1>1. CASE UNCHANGED vars
    <2>1. Holding' = Holding /\ Active' = Active /\ Sending' = Sending
      BY <1>1 DEF vars, Holding, Active, Sending
    <2> USE <1>1, <2>1 DEF LedgerInv, vars
    <2>2. TypeOK' /\ TableInv' /\ BudgetIsFailures'
      BY DEF TypeOK, TableInv, BudgetIsFailures
    <2>3. TokenInv' /\ BeatInv'
      BY DEF TokenInv, BeatInv
    <2>4. \A w, r, l : Owns(w, r, l)' <=> Owns(w, r, l)
      BY DEF Owns, Fenced
    <2>5. HandleInv' /\ LiveInv'
      BY <2>4 DEF HandleInv, LiveInv
    <2> QED BY <2>2, <2>3, <2>5
  <1>2. ASSUME NEW w \in Workers, WorkerStep(w) PROVE LedgerInv'
    BY <1>2, FindStep, InsertStep, ClaimStep, ReadStep, FinishStep, SettleStep, DropStep
       DEF WorkerStep
  <1>3. ASSUME NEW w \in Workers, BeatStep(w) PROVE LedgerInv'
    BY <1>3, BeatSentStep, BeatWrittenStep, BeatEndsStep DEF BeatStep
  <1>4. ASSUME NEW x \in loose, LooseWrite(x) PROVE LedgerInv'
    BY <1>4, LooseWriteStep
  <1>5. ASSUME NEW r \in Runs, RowStep(r) PROVE LedgerInv'
    BY <1>5, LapseStep, ArriveStep, CollectStep DEF RowStep
  <1>6. CASE SettleMoot
    BY <1>6, SettleMootStep
  <1> QED BY <1>1, <1>2, <1>3, <1>4, <1>5, <1>6 DEF Next

\* The invariant holds in every behaviour of the ledger.
THEOREM LedgerInvariant == Spec => []LedgerInv
  <1> QED BY InitLedger, LedgerStep, PTL DEF Spec

\* Two workers that still have their leases never run the task at the same
\* time, whatever is inserted, claimed, extended and settled in between.
THEOREM LedgerOneRunner == Spec => []OneRunner
  <1>1. LedgerInv => OneRunner
    <2> SUFFICES ASSUME LedgerInv, NEW v \in Holding, NEW w \in Holding,
                        v \notin lost, w \notin lost
                 PROVE  v = w
      BY DEF OneRunner
    <2>1. work[v].row \in Runs /\ work[w].row \in Runs
      BY DEF LedgerInv, HandleInv, Holding
    <2>2. work[v].row \in Active /\ work[w].row \in Active
      BY <2>1 DEF LedgerInv, LiveInv, Active
    <2>3. work[v].row = work[w].row
      BY <2>2 DEF LedgerInv, TableInv
    <2> QED BY <2>3 DEF LedgerInv, LiveInv
  <1> QED BY <1>1, LedgerInvariant, PTL

\* The attempts of a run are its logic failures and the attempt that runs, and it
\* is abandoned after MaxAttempts of them: fail() decides by what it read when it
\* claimed the row, and that is still so when its statement succeeds.
THEOREM LedgerBudgetIsFailures == Spec => []BudgetIsFailures
  <1>1. LedgerInv => BudgetIsFailures
    BY DEF LedgerInv
  <1> QED BY <1>1, LedgerInvariant, PTL

\* Only the last claimer's complete() or fail(), and the deletion of the subject,
\* end a run that is being worked on.
THEOREM LedgerStaleNeverSettles == Spec => StaleNeverSettles
  <1> DEFINE Fair(r) ==
        (rows[r].state = "running" /\ rows'[r].state # "running") =>
            \/ \E w \in owner[r] : /\ work[w].at = "settle" /\ work[w].row = r
                                   /\ work'[w].at = "idle"
            \/ SettleMoot
  <1>1. LedgerInv /\ [Next]_vars => [\A r \in Runs : Fair(r)]_vars
    <2> SUFFICES ASSUME LedgerInv, Next, NEW r \in Runs,
                        rows[r].state = "running", rows'[r].state # "running", ~SettleMoot
                 PROVE  \E w \in owner[r] : /\ work[w].at = "settle" /\ work[w].row = r
                                            /\ work'[w].at = "idle"
      OBVIOUS
    <2> USE DEF LedgerInv
    <2>0. rows \in [Runs -> RowType] /\ rows'[r] # rows[r]
      BY DEF TypeOK
    <2>1. ASSUME NEW w \in Workers, Settle(w)
          PROVE  /\ w \in owner[r] /\ work[w].at = "settle" /\ work[w].row = r
                 /\ work'[w].at = "idle"
      <3>1. work[w].row = r /\ Fenced(r, work[w].lease)
        BY <2>0, <2>1 DEF Settle
      <3>2. work[w].at = "settle" /\ w \in Holding
        BY <2>1 DEF Settle, Holding
      <3>3. owner[r] = {w}
        BY <3>1, <3>2 DEF HandleInv, Owns
      <3>4. work'[w].at = "idle"
        BY <2>1 DEF Settle, TypeOK, Idle, Stage
      <3> QED BY <3>1, <3>2, <3>3, <3>4
    <2>2. ASSUME NEW w \in Workers, Insert(w) PROVE FALSE
      <3>1. rows' = rows \/ (Active = {} /\ rows[r].state = "running")
        BY <2>2 DEF Insert, Admitted
      <3> QED BY <3>1, <2>0 DEF Active
    <2>3. ASSUME NEW w \in Workers, Claim(w) PROVE FALSE
      <3>1. \E l : rows' = [rows EXCEPT ![work[w].row] =
                      [rows[work[w].row] EXCEPT !.state = "running", !.lease = l,
                          !.lapsed = FALSE, !.attempts = @ + Charged(work[w].plan)]]
        BY <2>3 DEF Claim
      <3> QED BY <3>1, <2>0 DEF RowType
    <2>4. ASSUME NEW w \in Workers, BeatWritten(w) PROVE FALSE
      <3>1. beat[w].next \in Leases \cup {0}
        BY DEF TypeOK, BeatType
      <3> QED BY <2>0, <2>4, <3>1, ExtendedRow DEF BeatWritten
    <2>5. ASSUME NEW x \in loose, LooseWrite(x) PROVE FALSE
      <3>1. x.next \in Leases \cup {0} /\ x.row \in Runs
        BY DEF TypeOK
      <3> QED BY <2>0, <2>5, <3>1, ExtendedRow DEF LooseWrite
    <2>6. ASSUME NEW q \in Runs, Lapse(q) PROVE FALSE
      BY <2>0, <2>6 DEF Lapse, RowType
    <2>7. ASSUME NEW q \in Runs, Arrive(q) \/ Collect(q) PROVE FALSE
      BY <2>0, <2>7 DEF Arrive, Collect
    <2>8. ASSUME NEW w \in Workers,
                 Pick(w) \/ FindNone(w) \/ LoseRace(w) \/ Read(w) \/ Finish(w) \/ Drop(w)
                 \/ BeatSent(w) \/ BeatFails(w) \/ BeatReturns(w)
          PROVE  FALSE
      BY <2>0, <2>8 DEF Pick, FindNone, LoseRace, Read, Finish, Drop, BeatSent, BeatFails,
                        BeatReturns
    <2> QED BY <2>1, <2>2, <2>3, <2>4, <2>5, <2>6, <2>7, <2>8
            DEF Next, WorkerStep, BeatStep, RowStep
  <1> QED BY <1>1, LedgerInvariant, PTL DEF Spec, StaleNeverSettles

----------------------------------------------------------------------------
(* The contract *)

States == [r \in Runs |-> rows[r].state]

\* A statement on one row changes the state of that row at most.
LEMMA StateOfOne ==
  ASSUME TypeOK, NEW r \in Runs, NEW row, Store(r, row)
  PROVE  /\ States' = [States EXCEPT ![r] = row.state]
         /\ row.state = rows[r].state => States' = States
  <1>1. rows \in [Runs -> RowType]
    BY DEF TypeOK
  <1>2. rows'[r] = row /\ \A s \in Runs : s # r => rows'[s] = rows[s]
    BY <1>1
  <1>3. /\ States \in [Runs -> {x.state : x \in RowType}]
        /\ States' = [s \in Runs |-> rows'[s].state]
        /\ \A s \in Runs : States[s] = rows[s].state
    BY <1>1 DEF States
  <1>4. States' = [s \in Runs |-> IF s = r THEN row.state ELSE States[s]]
    BY <1>2, <1>3
  <1>5. States' = [States EXCEPT ![r] = row.state]
    BY <1>3, <1>4
  <1>6. row.state = rows[r].state => States' = States
    BY <1>3, <1>5
  <1> QED BY <1>5, <1>6

\* A claim starts a pending run, or takes over one that is running.
LEMMA ClaimMaps ==
  ASSUME LedgerInv, NEW w \in Workers, Claim(w)
  PROVE  (\E r \in Runs : Contract!Start(r)) \/ UNCHANGED <<States, failures>>
  <1>0. PICK r \in Runs : r = work[w].row
    BY DEF LedgerInv, HandleInv, Claim
  <1>1. TypeOK /\ failures' = failures
    BY DEF LedgerInv, Claim
  <1>2. PICK l \in Leases :
          Store(r, [rows[r] EXCEPT !.state = "running", !.lease = l, !.lapsed = FALSE,
                                   !.attempts = @ + Charged(work[w].plan)])
    BY <1>0 DEF Claim
  <1>3. rows[r] \in RowType
    BY <1>1 DEF TypeOK
  <1>4. States' = [States EXCEPT ![r] = "running"]
    <2>1. [rows[r] EXCEPT !.state = "running", !.lease = l, !.lapsed = FALSE,
                          !.attempts = @ + Charged(work[w].plan)].state = "running"
      BY <1>3 DEF RowType
    <2> QED BY <1>1, <1>2, <2>1, StateOfOne
  <1>5. rows[r].state \in {"pending", "running"}
    BY <1>0 DEF Claim, Claimable, Runnable
  <1>6. CASE rows[r].state = "pending"
    <2>1. States[r] = "pending"
      BY <1>6 DEF States
    <2>2. Contract!Start(r)
      BY <1>1, <1>4, <2>1 DEF Contract!Start, Contract!Become, States
    <2> QED BY <2>2
  <1>7. CASE rows[r].state = "running"
    <2>1. [States EXCEPT ![r] = "running"] = States
      BY <1>7 DEF States
    <2> QED BY <1>1, <1>4, <2>1
  <1> QED BY <1>5, <1>6, <1>7

\* A run is inserted when none is under way.
LEMMA InsertMaps ==
  ASSUME LedgerInv, NEW w \in Workers, Insert(w)
  PROVE  (\E r \in Runs : Contract!Create(r)) \/ UNCHANGED <<States, failures>>
  <1>1. CASE ~Admitted
    <2>1. UNCHANGED <<rows, failures>>
      BY <1>1 DEF Insert
    <2> QED BY <2>1 DEF States
  <1>2. CASE Admitted
    <2>0. PICK r \in Runs : r = created + 1
      BY <1>2, LedgerAssumption DEF LedgerInv, TypeOK, Admitted
    <2>1. TypeOK /\ failures' = failures /\ Active = {}
      BY <1>2 DEF LedgerInv, Insert, Admitted
    <2>2. Store(r, [Blank EXCEPT !.state = "pending", !.ready = TRUE])
      BY <1>2, <2>0 DEF Insert
    <2>3. rows[r].state = "none"
      BY <2>0, <2>1 DEF LedgerInv, TableInv, TypeOK
    <2>4. [Blank EXCEPT !.state = "pending", !.ready = TRUE].state = "pending"
      BY DEF Blank
    <2>5. States' = [States EXCEPT ![r] = "pending"]
      BY <2>1, <2>2, <2>4, StateOfOne
    <2>6. \A s \in Runs : States[s] \notin {"pending", "running"}
      BY <2>1 DEF Active, States
    <2>7. States[r] = "none"
      BY <2>1, <2>3 DEF States
    <2>8. Contract!Create(r)
      BY <2>1, <2>5, <2>6, <2>7 DEF Contract!Create, Contract!Become, Contract!Runs, States
    <2> QED BY <2>8
  <1> QED BY <1>1, <1>2

\* A heartbeat leaves the state of its row alone.
LEMMA ExtensionMaps ==
  ASSUME TypeOK, NEW r \in Runs, NEW prev, NEW next, Store(r, Extended(r, prev, next))
  PROVE  States' = States
  <1>1. rows[r] \in RowType
    BY DEF TypeOK
  <1>2. Extended(r, prev, next).state = rows[r].state
    BY <1>1 DEF Extended, RowType
  <1> HIDE DEF Store
  <1> QED BY <1>2, StateOfOne

\* A settlement is that of the last claimer, whose attempts are one more than the
\* failures: it ends the run, puts it off, or fails it, for good at the limit.
LEMMA SettleMaps ==
  ASSUME LedgerInv, NEW w \in Workers, Settle(w)
  PROVE  \/ \E r \in Runs : Contract!Succeed(r) \/ Contract!Fail(r) \/ Contract!Defer(r)
         \/ UNCHANGED <<States, failures>>
  <1>0. PICK r \in Runs : r = work[w].row
    BY DEF LedgerInv, HandleInv, Settle
  <1> DEFINE plan == work[w].plan
  <1>1. CASE ~Fenced(r, work[w].lease)
    <2>1. UNCHANGED <<rows, failures>>
      BY <1>0, <1>1 DEF Settle
    <2> QED BY <2>1 DEF States
  <1>2. CASE Fenced(r, work[w].lease)
    <2>1. /\ TypeOK /\ work[w].at = "settle" /\ w \in Holding
          /\ plan \in {"complete", "retry", "abandon", "defer"}
      BY DEF LedgerInv, HandleInv, Settle, Holding
    <2>2. /\ Store(r, Settled(rows[r], plan))
          /\ failures' = [failures EXCEPT ![r] =
                             IF plan \in {"retry", "abandon"} THEN @ + 1 ELSE @]
      BY <1>0, <1>2 DEF Settle
    <2>3. rows[r] \in RowType /\ rows[r].state = "running" /\ failures[r] \in Nat
      BY <1>2, <2>1 DEF TypeOK, Fenced
    <2>4. /\ work[w].attempts = rows[r].attempts
          /\ rows[r].attempts = failures[r] + 1
          /\ failures[r] < MaxAttempts
      <3>1. Owns(w, r, work[w].lease)
        BY <1>0, <2>1 DEF LedgerInv, HandleInv
      <3> QED BY <1>0, <1>2, <2>1, <2>3, <3>1 DEF Owns, LedgerInv, BudgetIsFailures
    <2>5. /\ plan = "retry" => failures[r] + 1 < MaxAttempts
          /\ plan = "abandon" => ~(failures[r] + 1 < MaxAttempts)
      BY <2>1, <2>4 DEF LedgerInv, HandleInv
    <2>6. Settled(rows[r], plan).state =
             CASE plan = "complete" -> "succeeded"
               [] plan = "retry"    -> "pending"
               [] plan = "abandon"  -> "abandoned"
               [] plan = "defer"    -> "pending"
      BY <2>1, <2>3 DEF Settled, Deferred, RowType
    <2> HIDE DEF plan
    <2>7. States' = [States EXCEPT ![r] = Settled(rows[r], plan).state]
      BY <2>1, <2>2, StateOfOne
    <2>8. States[r] = "running" /\ failures \in [Runs -> Nat]
      BY <2>1, <2>3 DEF States, TypeOK
    <2>9. plan \notin {"retry", "abandon"} => failures' = failures
      BY <2>2, <2>8, <2>1
    <2>10. CASE plan = "complete"
      <3>1. Contract!Succeed(r)
        BY <2>6, <2>7, <2>8, <2>9, <2>10 DEF Contract!Succeed, Contract!Become, States
      <3> QED BY <3>1
    <2>11. CASE plan = "defer"
      <3>1. Contract!Defer(r)
        BY <2>6, <2>7, <2>8, <2>9, <2>11 DEF Contract!Defer, Contract!Become, States
      <3> QED BY <3>1
    <2>12. CASE plan \in {"retry", "abandon"}
      <3>1. failures' = [failures EXCEPT ![r] = @ + 1]
        BY <2>2, <2>12
      <3>2. States' = [States EXCEPT ![r] = IF failures[r] + 1 < MaxAttempts
                                           THEN "pending" ELSE "abandoned"]
        BY <2>5, <2>6, <2>7, <2>12
      <3>3. Contract!Fail(r)
        BY <2>8, <3>1, <3>2 DEF Contract!Fail, Contract!Become, States
      <3> QED BY <3>3
    <2> QED BY <2>1, <2>10, <2>11, <2>12 DEF plan
  <1> QED BY <1>1, <1>2

\* The deletion of the subject settles the one run that is active.
LEMMA MootMaps ==
  ASSUME LedgerInv, SettleMoot
  PROVE  \E r \in Runs : Contract!Succeed(r)
  <1>1. PICK r \in Active : TRUE
    BY DEF SettleMoot
  <1>2. /\ TypeOK /\ r \in Runs /\ Active = {r} /\ failures' = failures
        /\ rows[r].state \in {"pending", "running"}
    BY <1>1 DEF SettleMoot, LedgerInv, TableInv, Active
  <1>3. /\ rows' = [s \in Runs |->
                     IF s \in {r}
                     THEN [rows[s] EXCEPT !.state = "succeeded", !.lease = 0, !.lapsed = FALSE]
                     ELSE rows[s]]
        /\ rows[r] \in RowType
    BY <1>2 DEF SettleMoot, TypeOK
  <1>4. rows'[r].state = "succeeded" /\ \A s \in Runs : s # r => rows'[s] = rows[s]
    BY <1>2, <1>3 DEF RowType
  <1>5. States' = [States EXCEPT ![r] = "succeeded"] /\ States[r] \in {"pending", "running"}
    BY <1>2, <1>4 DEF States
  <1>6. Contract!Succeed(r)
    BY <1>2, <1>5 DEF Contract!Succeed, Contract!Become, States
  <1> QED BY <1>2, <1>6

\* Garbage collection forgets a settled run; time changes no state.
LEMMA RowMaps ==
  ASSUME LedgerInv, NEW r \in Runs, RowStep(r)
  PROVE  Contract!Forget(r) \/ UNCHANGED <<States, failures>>
  <1>0. TypeOK /\ rows[r] \in RowType
    BY DEF LedgerInv, TypeOK
  <1>1. CASE Lapse(r)
    <2>1. Store(r, [rows[r] EXCEPT !.lapsed = TRUE]) /\ failures' = failures
      BY <1>1 DEF Lapse
    <2>2. [rows[r] EXCEPT !.lapsed = TRUE].state = rows[r].state
      BY <1>0 DEF RowType
    <2> HIDE DEF Store
    <2> QED BY <1>0, <2>1, <2>2, StateOfOne
  <1>2. CASE Arrive(r)
    <2>1. Store(r, [rows[r] EXCEPT !.ready = TRUE]) /\ failures' = failures
      BY <1>2 DEF Arrive
    <2>2. [rows[r] EXCEPT !.ready = TRUE].state = rows[r].state
      BY <1>0 DEF RowType
    <2> HIDE DEF Store
    <2> QED BY <1>0, <2>1, <2>2, StateOfOne
  <1>3. CASE Collect(r)
    <2>1. /\ Store(r, [Blank EXCEPT !.state = "gone"])
          /\ failures' = [failures EXCEPT ![r] = 0]
          /\ rows[r].state \in {"succeeded", "abandoned"}
      BY <1>3 DEF Collect
    <2>2. [Blank EXCEPT !.state = "gone"].state = "gone"
      BY DEF Blank
    <2>3. States' = [States EXCEPT ![r] = "gone"]
      <3> HIDE DEF Store
      <3> QED BY <1>0, <2>1, <2>2, StateOfOne
    <2>4. States[r] \in {"succeeded", "abandoned"}
      BY <2>1 DEF States
    <2> QED BY <2>1, <2>3, <2>4 DEF Contract!Forget, Contract!Become, States
  <1> QED BY <1>1, <1>2, <1>3 DEF RowStep

\* Every step of the ledger is a step of the contract or changes nothing there.
LEMMA ContractStep ==
  ASSUME LedgerInv, [Next]_vars
  PROVE  [Contract!Next]_<<States, failures>>
  <1>0. TypeOK
    BY DEF LedgerInv
  <1>1. ASSUME NEW w \in Workers, WorkerStep(w) \/ BeatStep(w)
        PROVE  [Contract!Next]_<<States, failures>>
    <2>1. CASE Claim(w)
      BY <2>1, ClaimMaps DEF Contract!Next, Contract!Runs
    <2>2. CASE Insert(w)
      BY <2>2, InsertMaps DEF Contract!Next, Contract!Runs
    <2>3. CASE Settle(w)
      BY <2>3, SettleMaps DEF Contract!Next, Contract!Runs
    <2>4. CASE BeatWritten(w)
      <3>1. /\ work[w].row \in Runs /\ failures' = failures
            /\ Store(work[w].row, Extended(work[w].row, beat[w].prev, beat[w].next))
        BY <2>4 DEF LedgerInv, HandleInv, BeatInv, BeatWritten
      <3> HIDE DEF Store
      <3> QED BY <1>0, <3>1, ExtensionMaps
    <2>5. CASE ~(Claim(w) \/ Insert(w) \/ Settle(w) \/ BeatWritten(w))
      <3>1. UNCHANGED <<rows, failures>>
        BY <1>1, <2>5 DEF WorkerStep, BeatStep, Pick, FindNone, LoseRace, Read, Finish, Drop,
                          BeatSent, BeatFails, BeatReturns
      <3> QED BY <3>1 DEF States
    <2> QED BY <2>1, <2>2, <2>3, <2>4, <2>5
  <1>2. ASSUME NEW x \in loose, LooseWrite(x)
        PROVE  [Contract!Next]_<<States, failures>>
    <2>1. /\ x.row \in Runs /\ failures' = failures
          /\ Store(x.row, Extended(x.row, x.prev, x.next))
      BY <1>0, <1>2 DEF LooseWrite, TypeOK
    <2> HIDE DEF Store
    <2> QED BY <1>0, <2>1, ExtensionMaps
  <1>3. ASSUME NEW r \in Runs, RowStep(r)
        PROVE  [Contract!Next]_<<States, failures>>
    BY <1>3, RowMaps DEF Contract!Next, Contract!Runs
  <1>4. CASE SettleMoot
    BY <1>4, MootMaps DEF Contract!Next, Contract!Runs
  <1>5. CASE UNCHANGED vars
    BY <1>5 DEF vars, States
  <1> QED BY <1>1, <1>2, <1>3, <1>4, <1>5 DEF Next

\* For any number of workers, rows, attempts, leases and faults, the ledger
\* implements TaskRuns: one run is under way at a time, and it is abandoned after
\* exactly MaxAttempts failures of its work.
THEOREM LedgerImplementsTaskRuns == Spec => ContractSpec
  <1>1. Init => Contract!Init
    BY DEF Init, Contract!Init, Contract!Runs, Blank
  <1>2. LedgerInv /\ [Next]_vars => [Contract!Next]_(Contract!taskVars)
    BY ContractStep DEF Contract!taskVars, States
  <1> QED BY <1>1, <1>2, LedgerInvariant, PTL DEF Spec, ContractSpec, Contract!Spec

=============================================================================
