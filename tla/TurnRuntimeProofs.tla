------------------------- MODULE TurnRuntimeProofs -------------------------
(***************************************************************************)
(* The safety of the turn runtime, for any number of clients, turns,       *)
(* cancellations, failures, store errors and crashes.                      *)
(***************************************************************************)
EXTENDS TurnRuntime, TLAPS

\* Exactly the created turns have a row and have had a runner.
Numbered ==
    \A t \in Turns :
        /\ pc[t] = "none" <=> t > created
        /\ status[t] = "none" <=> t > created

\* create_turn's test, kept by everybody else: one running row at most.
OneRunningRow == \A t, u \in RowsRunning : t = u

\* A client about to write a status it decided on earlier names a turn that no
\* runner of this process owns, and that stays so.
DecidedOnUnowned ==
    \A c \in Clients :
        client[c].at \in {"fail", "lookup", "mark"} =>
            /\ client[c].turn \in Turns
            /\ client[c].turn =< created
            /\ client[c].turn \notin Live

\* A status write that goes on without its runner is of a turn that has left its
\* body.
DetachedIsLate ==
    \A op \in detached :
        /\ op.turn =< created
        /\ Writes[op.at] \notin Roles => op.turn \notin Active

TurnInv ==
    /\ TypeOK
    /\ Numbered
    /\ ActiveRowRunning
    /\ OneRunningRow
    /\ DecidedOnUnowned
    /\ DetachedIsLate

\* The sets of awaits, spelled out.
LEMMA Awaits ==
  /\ Streaming = {"context", "addUser", "stream", "addAnswer", "flush", "complete"}
  /\ Body = Streaming \cup {"title"}
  /\ Running = {"context", "addUser", "stream", "addAnswer", "flush", "complete",
                "title", "cFlush", "cSave", "cStatus", "fFlush", "fStatus"}
  /\ DOMAIN Writes = {"addUser", "addAnswer", "cSave", "complete", "cStatus", "fStatus"}
  BY DEF Streaming, Body, Running, CancelHandler, FailHandler, Writes

LEMMA TurnInit == Init => TurnInv
  <1> SUFFICES ASSUME Init PROVE TurnInv
    OBVIOUS
  <1> USE TurnAssumption DEF Init
  <1>1. TypeOK
    <2>1. pc \in [Turns -> {"none", "ended", "crashed"} \cup Running]
      OBVIOUS
    <2>2. client \in [Clients -> [at : {"idle", "fail", "create", "pickUser", "pickLast",
                                       "delete", "restart", "await", "lookup", "mark"},
                                 turn : 0 .. MaxTurns, victim : Nat, regen : BOOLEAN]]
      BY DEF Idle
    <2>3. created \in 0 .. MaxTurns /\ lastId \in Nat
      OBVIOUS
    <2>6. messages = {} /\ detached = {}
      OBVIOUS
    <2>7. regen \subseteq Turns /\ produced \subseteq Turns /\ cancelling \subseteq Turns
      OBVIOUS
    <2>4. /\ cancels \in 0 .. MaxCancels /\ fails \in 0 .. MaxFails
          /\ faults \in 0 .. MaxFaults /\ crashes \in 0 .. MaxCrashes
      OBVIOUS
    <2>5. status \in [Turns -> {"none", "running"} \cup Terminal]
      OBVIOUS
    <2> QED BY <2>1, <2>2, <2>3, <2>4, <2>5, <2>6, <2>7 DEF TypeOK
  <1>2. Numbered
    BY DEF Numbered, Turns
  <1>3. ActiveRowRunning /\ OneRunningRow
    BY DEF ActiveRowRunning, OneRunningRow, Active, RowsRunning, Streaming
  <1>4. DecidedOnUnowned /\ DetachedIsLate
    BY DEF DecidedOnUnowned, DetachedIsLate, Idle
  <1> QED BY <1>1, <1>2, <1>3, <1>4 DEF TurnInv

\* What a committed write changes.
LEMMA CommitEffect ==
  ASSUME TypeOK, NEW op \in WriteOps, Commit(op)
  PROVE  /\ messages' \subseteq [id : Nat, role : Roles, turn : Turns]
         /\ lastId' \in Nat
         /\ status' \in [Turns -> {"none", "running"} \cup Terminal]
         /\ \A t \in Turns : t # op.turn => status'[t] = status[t]
         /\ status'[op.turn] = IF Writes[op.at] \in Roles THEN status[op.turn]
                               ELSE Writes[op.at]
         /\ Writes[op.at] \in Roles \cup Terminal
  <1>1. op.at \in DOMAIN Writes /\ op.turn \in Turns
    BY DEF WriteOps
  <1>2. Writes[op.at] \in Roles \cup Terminal
    BY <1>1 DEF Writes, Roles, Terminal
  <1>3. CASE Writes[op.at] \in Roles
    BY <1>1, <1>3 DEF Commit, AddMessage, TypeOK, Roles, Terminal
  <1>4. CASE Writes[op.at] \notin Roles
    BY <1>1, <1>2, <1>4 DEF Commit, SetStatus, TypeOK
  <1> QED BY <1>2, <1>3, <1>4

----------------------------------------------------------------------------
(* Runners *)

\* A runner that moves on without touching its row: it does not come back to its
\* body, and what it leaves behind is late.
LEMMA RunnerMoves ==
  ASSUME TurnInv, NEW t \in Live, NEW next \in Running \cup {"ended"}, Goto(t, next),
         next \in Streaming => pc[t] \in Streaming,
         UNCHANGED <<created, status, client>>,
         \A op \in detached' : op \in detached \/ (op.turn = t /\ next \notin Streaming)
  PROVE  (Numbered /\ ActiveRowRunning /\ OneRunningRow /\ DecidedOnUnowned
            /\ DetachedIsLate)'
  <1> USE DEF Goto
  <1>0. t \in Turns /\ pc[t] \in Running /\ pc[t] # "none" /\ next # "none"
    BY Awaits DEF Live
  <1>1. /\ pc'[t] = next
        /\ \A u \in Turns : u # t => pc'[u] = pc[u]
    BY <1>0 DEF TurnInv, TypeOK
  <1>2. Live' \subseteq Live
    BY <1>0, <1>1 DEF Live
  <1>3. Active' \subseteq Active
    BY <1>0, <1>1 DEF Active
  <1>4. Numbered'
    BY <1>0, <1>1 DEF TurnInv, Numbered
  <1>5. ActiveRowRunning'
    BY <1>3 DEF TurnInv, ActiveRowRunning
  <1>6. OneRunningRow'
    BY DEF TurnInv, OneRunningRow, RowsRunning
  <1>7. DecidedOnUnowned'
    BY <1>2 DEF TurnInv, DecidedOnUnowned
  <1>8. DetachedIsLate'
    <2> SUFFICES ASSUME NEW op \in detached'
                 PROVE  /\ op.turn =< created
                        /\ Writes[op.at] \notin Roles => op.turn \notin Active'
      BY DEF DetachedIsLate
    <2>1. CASE op \in detached
      BY <2>1, <1>3 DEF TurnInv, DetachedIsLate
    <2>2. CASE op.turn = t /\ next \notin Streaming
      <3>1. t =< created
        BY <1>0 DEF TurnInv, Numbered, TypeOK, Turns
      <3>2. t \notin Active'
        BY <1>1, <2>2 DEF Active
      <3> QED BY <2>2, <3>1, <3>2
    <2> QED BY <2>1, <2>2
  <1> QED BY <1>4, <1>5, <1>6, <1>7, <1>8

\* Writing a terminal status over a turn that is not active keeps the invariant,
\* whoever writes it.
LEMMA Settling ==
  ASSUME TurnInv, NEW t \in Turns, t =< created, t \notin Active', Active' \subseteq Active,
         status'[t] \in Terminal, \A u \in Turns : u # t => status'[u] = status[u],
         UNCHANGED created
  PROVE  /\ \A u \in Turns : status'[u] = "none" <=> u > created'
         /\ ActiveRowRunning'
         /\ OneRunningRow'
  <1>1. status'[t] # "none" /\ status'[t] # "running"
    BY DEF Terminal
  <1>2. \A u \in Turns : status'[u] = "none" <=> u > created'
    <2> SUFFICES ASSUME NEW u \in Turns PROVE status'[u] = "none" <=> u > created
      OBVIOUS
    <2>1. CASE u = t
      BY <1>1, <2>1 DEF TurnInv, TypeOK, Turns
    <2>2. CASE u # t
      BY <2>2 DEF TurnInv, Numbered
    <2> QED BY <2>1, <2>2
  <1>3. ActiveRowRunning'
    BY DEF TurnInv, ActiveRowRunning, Active
  <1>4. OneRunningRow'
    BY <1>1 DEF TurnInv, OneRunningRow, RowsRunning
  <1> QED BY <1>2, <1>3, <1>4

\* A runner's move keeps the types of everything it does not write.
LEMMA MoveTypes ==
  ASSUME TypeOK, NEW t \in Turns, NEW next \in Running \cup {"ended"}, Goto(t, next),
         UNCHANGED <<created, client, regen, cancels, crashes>>,
         messages' \subseteq [id : Nat, role : Roles, turn : Turns], lastId' \in Nat,
         status' \in [Turns -> {"none", "running"} \cup Terminal],
         produced' \subseteq Turns, cancelling' \subseteq Turns, detached' \subseteq WriteOps,
         fails' \in 0 .. MaxFails, faults' \in 0 .. MaxFaults
  PROVE  TypeOK'
  <1>1. pc' \in [Turns -> {"none", "ended", "crashed"} \cup Running]
    BY DEF TypeOK, Goto
  <1> QED BY <1>1 DEF TypeOK

\* Where each move of a runner can take it.
LEMMA Targets ==
  ASSUME TypeOK, NEW t \in Turns
  PROVE  /\ SaveOrSettle(t) \in {"cSave", "cStatus"}
         /\ FailStatus = "fStatus"
         /\ pc[t] \in DOMAIN Writes => After(t) \in Running \cup {"ended"}
         /\ pc[t] \in DOMAIN Writes /\ After(t) \in Streaming => pc[t] \in Streaming
         /\ pc[t] \in DOMAIN Writes /\ Writes[pc[t]] \notin Roles => After(t) \notin Streaming
         /\ pc[t] \in CancelHandler \cup FailHandler => After(t) \in {"cStatus", "ended"}
         /\ Caught(t) \in {"cSave", "cStatus", "cFlush", "ended"}
  <1>1. SaveOrSettle(t) \in {"cSave", "cStatus"}
    BY DEF SaveOrSettle
  <1>2. FailStatus = "fStatus"
    BY DEF FailStatus
  <1>3. pc[t] \in DOMAIN Writes => After(t) \in {"stream", "flush", "ended", "title", "cStatus"}
    BY Awaits DEF After
  <1>4. pc[t] \in DOMAIN Writes /\ After(t) \in Streaming => pc[t] \in Streaming
    BY Awaits DEF After
  <1>5. pc[t] \in DOMAIN Writes /\ Writes[pc[t]] \notin Roles => After(t) \notin Streaming
    BY Awaits DEF After, Writes, Roles
  <1>6. pc[t] \in CancelHandler \cup FailHandler => After(t) \in {"cStatus", "ended"}
    BY DEF After, CancelHandler, FailHandler
  <1>7. Caught(t) \in {"cSave", "cStatus", "cFlush", "ended"}
    BY <1>1 DEF Caught
  <1> QED BY <1>1, <1>2, <1>3, <1>4, <1>5, <1>6, <1>7, Awaits

\* The moves of a runner that leave its row alone.
LEMMA QuietStep ==
  ASSUME TurnInv, NEW t \in Turns,
         ContextReady(t) \/ EndOfStream(t) \/ Flushed(t) \/ TitleDone(t)
           \/ Fail(t) \/ HandlerFault(t) \/ Interrupt(t)
  PROVE  TurnInv'
  <1> DEFINE next == pc'[t]
  <1>0. TypeOK
    BY DEF TurnInv
  <1>1. /\ UNCHANGED <<created, store, regen, produced, client, cancels, crashes>>
        /\ cancelling' \subseteq cancelling
        /\ fails' \in 0 .. MaxFails
        /\ faults' \in 0 .. MaxFaults
    <2> USE <1>0 DEF TypeOK, budget
    <2>1. CASE ContextReady(t) BY <2>1 DEF ContextReady
    <2>2. CASE EndOfStream(t) BY <2>2 DEF EndOfStream
    <2>3. CASE Flushed(t) BY <2>3 DEF Flushed
    <2>4. CASE TitleDone(t) BY <2>4 DEF TitleDone
    <2>5. CASE Fail(t) BY <2>5, TurnAssumption DEF Fail
    <2>6. CASE HandlerFault(t) BY <2>6, TurnAssumption DEF HandlerFault
    <2>7. CASE Interrupt(t) BY <2>7 DEF Interrupt
    <2> QED BY <2>1, <2>2, <2>3, <2>4, <2>5, <2>6, <2>7
  <1>2. /\ Goto(t, next)
        /\ next \in Running \cup {"ended"}
        /\ next \in Streaming => pc[t] \in Streaming
        /\ pc[t] \in Running
        /\ Interrupt(t) \/ UNCHANGED detached
        /\ Interrupt(t) => next \notin Streaming
    <2> USE <1>0, Awaits, Targets DEF Goto, TypeOK
    <2>1. CASE ContextReady(t) BY <2>1 DEF ContextReady, Interrupt
    <2>2. CASE EndOfStream(t) BY <2>2 DEF EndOfStream, Interrupt
    <2>3. CASE Flushed(t) BY <2>3 DEF Flushed, Interrupt
    <2>4. CASE TitleDone(t) BY <2>4 DEF TitleDone
    <2>5. CASE Fail(t) BY <2>5 DEF Fail
    <2>6. CASE HandlerFault(t) BY <2>6 DEF HandlerFault, CancelHandler, FailHandler
    <2>7. CASE Interrupt(t) BY <2>7 DEF Interrupt, Live
    <2> QED BY <2>1, <2>2, <2>3, <2>4, <2>5, <2>6, <2>7
  <1>3. /\ detached' \subseteq WriteOps
        /\ \A op \in detached' : op \in detached \/ (op.turn = t /\ next \notin Streaming)
    <2>1. CASE UNCHANGED detached
      BY <2>1, <1>0 DEF TypeOK
    <2>2. CASE Interrupt(t) /\ ~UNCHANGED detached
      <3>1. pc[t] \in DOMAIN Writes /\ detached' = detached \cup {[at |-> pc[t], turn |-> t]}
        BY <2>2 DEF Interrupt
      <3> QED BY <3>1, <2>2, <1>2, <1>0 DEF TypeOK, WriteOps
    <2> QED BY <2>1, <2>2, <1>2
  <1>4. t \in Live
    BY <1>2 DEF Live
  <1>5. TypeOK'
    <2> HIDE DEF next
    <2> QED BY <1>0, <1>1, <1>2, <1>3, MoveTypes DEF store, TypeOK
  <1>6. (Numbered /\ ActiveRowRunning /\ OneRunningRow /\ DecidedOnUnowned /\ DetachedIsLate)'
    <2> HIDE DEF next
    <2> QED BY <1>1, <1>2, <1>3, <1>4, RunnerMoves DEF store
  <1> QED BY <1>5, <1>6 DEF TurnInv

LEMMA PublishStep ==
  ASSUME TurnInv, NEW t \in Turns, Publish(t)
  PROVE  TurnInv'
  <1> USE DEF Publish, store
  <1>1. TypeOK'
    BY DEF TurnInv, TypeOK, budget
  <1>2. Numbered' /\ ActiveRowRunning' /\ OneRunningRow'
    BY DEF TurnInv, Numbered, ActiveRowRunning, OneRunningRow, Active, RowsRunning
  <1>3. DecidedOnUnowned' /\ DetachedIsLate'
    BY DEF TurnInv, DecidedOnUnowned, DetachedIsLate, Live, Active
  <1> QED BY <1>1, <1>2, <1>3 DEF TurnInv

\* A runner writes: a message leaves the rows alone; a status is terminal, and by
\* then the runner has left its body.
LEMMA StoreWriteStep ==
  ASSUME TurnInv, NEW t \in Turns, StoreWrite(t)
  PROVE  TurnInv'
  <1> DEFINE op == [at |-> pc[t], turn |-> t]
             next == After(t)
  <1>0. TypeOK /\ op \in WriteOps /\ Commit(op) /\ op.turn = t /\ op.at = pc[t]
    BY DEF TurnInv, StoreWrite, WriteOps
  <1>1. /\ UNCHANGED <<created, regen, produced, cancelling, detached, client,
                       cancels, fails, faults, crashes>>
        /\ Goto(t, next)
        /\ pc[t] \in DOMAIN Writes
    BY DEF StoreWrite, budget
  <1>2. /\ messages' \subseteq [id : Nat, role : Roles, turn : Turns]
        /\ lastId' \in Nat
        /\ status' \in [Turns -> {"none", "running"} \cup Terminal]
        /\ \A u \in Turns : t # u => status'[u] = status[u]
        /\ status'[t] = IF Writes[pc[t]] \in Roles THEN status[t] ELSE Writes[pc[t]]
        /\ Writes[pc[t]] \in Roles \cup Terminal
    <2> HIDE DEF op
    <2> QED BY <1>0, CommitEffect
  <1>3. /\ next \in Running \cup {"ended"}
        /\ next \in Streaming => pc[t] \in Streaming
        /\ Writes[pc[t]] \notin Roles => next \notin Streaming
    BY <1>0, <1>1, Targets
  <1>4. TypeOK'
    <2> HIDE DEF next, op
    <2> QED BY <1>0, <1>1, <1>2, <1>3, MoveTypes DEF TypeOK
  <1>5. t \in Live
    BY <1>1, Awaits DEF Live
  <1>6. CASE Writes[pc[t]] \in Roles
    <2>1. status' = status
      BY <1>0, <1>2, <1>6 DEF TypeOK
    <2> HIDE DEF next, op
    <2> QED BY <2>1, <1>1, <1>3, <1>4, <1>5, RunnerMoves DEF TurnInv
  <1>7. CASE Writes[pc[t]] \notin Roles
    <2>1. /\ pc'[t] = next
          /\ \A u \in Turns : u # t => pc'[u] = pc[u]
      BY <1>0, <1>1 DEF Goto, TypeOK
    <2>2. t \notin Active' /\ Active' \subseteq Active /\ Live' \subseteq Live
      BY <2>1, <1>3, <1>5, <1>7 DEF Active, Live
    <2>3. t =< created /\ pc[t] # "none" /\ next # "none"
      BY <1>0, <1>1, <1>3, Awaits DEF TurnInv, Numbered, TypeOK, Turns
    <2>4. status'[t] \in Terminal
      BY <1>2, <1>7
    <2>5. /\ \A u \in Turns : status'[u] = "none" <=> u > created'
          /\ ActiveRowRunning'
          /\ OneRunningRow'
      <3> HIDE DEF next, op
      <3> QED BY <1>1, <1>2, <2>2, <2>3, <2>4, Settling
    <2>6. \A u \in Turns : pc'[u] = "none" <=> u > created'
      BY <2>1, <2>3, <1>1 DEF TurnInv, Numbered
    <2>7. DecidedOnUnowned' /\ DetachedIsLate'
      BY <1>1, <2>2 DEF TurnInv, DecidedOnUnowned, DetachedIsLate
    <2> QED BY <1>4, <2>5, <2>6, <2>7 DEF TurnInv, Numbered
  <1> QED BY <1>6, <1>7

\* A write without a runner: the same, on a row that is not active.
LEMMA LandStep ==
  ASSUME TurnInv, NEW op \in WriteOps, Land(op)
  PROVE  TurnInv'
  <1> DEFINE t == op.turn
  <1>0. TypeOK /\ op \in detached /\ Commit(op) /\ t \in Turns
    BY DEF TurnInv, Land, WriteOps
  <1>1. /\ UNCHANGED <<created, pc, regen, produced, cancelling, client,
                       cancels, fails, faults, crashes>>
        /\ detached' \subseteq detached
    BY DEF Land, budget
  <1>2. /\ messages' \subseteq [id : Nat, role : Roles, turn : Turns]
        /\ lastId' \in Nat
        /\ status' \in [Turns -> {"none", "running"} \cup Terminal]
        /\ \A u \in Turns : u # t => status'[u] = status[u]
        /\ status'[t] = IF Writes[op.at] \in Roles THEN status[t] ELSE Writes[op.at]
        /\ Writes[op.at] \in Roles \cup Terminal
    BY <1>0, CommitEffect
  <1>3. TypeOK'
    BY <1>0, <1>1, <1>2 DEF TypeOK
  <1>4. Active' = Active /\ Live' = Live
    BY <1>1 DEF Active, Live
  <1>5. DecidedOnUnowned' /\ DetachedIsLate'
    BY <1>1, <1>4 DEF TurnInv, DecidedOnUnowned, DetachedIsLate
  <1>6. CASE Writes[op.at] \in Roles
    <2>1. status' = status
      BY <1>0, <1>2, <1>6 DEF TypeOK
    <2>2. Numbered' /\ ActiveRowRunning' /\ OneRunningRow'
      BY <2>1, <1>1, <1>4
      DEF TurnInv, Numbered, ActiveRowRunning, OneRunningRow, RowsRunning
    <2> QED BY <2>2, <1>3, <1>5 DEF TurnInv
  <1>7. CASE Writes[op.at] \notin Roles
    <2>1. t =< created /\ t \notin Active
      BY <1>0, <1>7 DEF TurnInv, DetachedIsLate
    <2>2. status'[t] \in Terminal
      BY <1>2, <1>7
    <2>3. /\ \A u \in Turns : status'[u] = "none" <=> u > created'
          /\ ActiveRowRunning'
          /\ OneRunningRow'
      <3> HIDE DEF t
      <3> QED BY <1>0, <1>1, <1>2, <1>4, <2>1, <2>2, Settling
    <2> QED BY <1>1, <1>3, <1>5, <2>3 DEF TurnInv, Numbered
  <1> QED BY <1>6, <1>7

----------------------------------------------------------------------------
(* Requests *)

Requests == [at : {"idle", "fail", "create", "pickUser", "pickLast",
                   "delete", "restart", "await", "lookup", "mark"},
             turn : 0 .. MaxTurns, victim : Nat, regen : BOOLEAN]

\* The decision a request goes on with, if any, is about an unowned turn.
Sound(r) ==
    r.at \in {"fail", "lookup", "mark"} =>
        r.turn \in Turns /\ r.turn =< created /\ r.turn \notin Live

\* What a request's change of stage leaves of it.
LEMMA Restaged ==
  ASSUME NEW r \in Requests, NEW t \in 0 .. MaxTurns,
         NEW a \in {"idle", "fail", "create", "pickUser", "pickLast", "delete", "restart",
                    "await", "lookup", "mark"}
  PROVE  /\ [r EXCEPT !.at = a, !.turn = t] \in Requests
         /\ [r EXCEPT !.at = a, !.turn = t].at = a
         /\ [r EXCEPT !.at = a, !.turn = t].turn = t
         /\ [r EXCEPT !.at = a] \in Requests
  <1>1. /\ [r EXCEPT !.at = a, !.turn = t] \in Requests
        /\ [r EXCEPT !.at = a] \in Requests
    BY DEF Requests
  <1>2. [r EXCEPT !.at = a, !.turn = t].at = a
    BY DEF Requests
  <1>3. [r EXCEPT !.at = a, !.turn = t].turn = t
    BY DEF Requests
  <1> QED BY <1>1, <1>2, <1>3

LEMMA IdleRequest == Idle \in Requests /\ Idle.at = "idle" /\ 0 \in 0 .. MaxTurns
  <1>1. 0 \in 0 .. MaxTurns
    BY TurnAssumption
  <1> QED BY <1>1 DEF Requests, Idle

\* A request's next stage, seen by the invariant, when turns and runners stay.
LEMMA ClientMoves ==
  ASSUME TurnInv, NEW c \in Clients, NEW r \in Requests, Step(c, r), Sound(r),
         UNCHANGED <<created, pc>>
  PROVE  /\ client' \in [Clients -> Requests]
         /\ DecidedOnUnowned'
  <1>0. client \in [Clients -> Requests]
    BY DEF TurnInv, TypeOK, Requests
  <1>1. /\ client' \in [Clients -> Requests]
        /\ client'[c] = r
        /\ \A d \in Clients : d # c => client'[d] = client[d]
    BY <1>0 DEF Step
  <1>2. Live' = Live
    BY DEF Live
  <1>3. DecidedOnUnowned'
    <2> SUFFICES ASSUME NEW d \in Clients, client'[d].at \in {"fail", "lookup", "mark"}
                 PROVE  /\ client'[d].turn \in Turns
                        /\ client'[d].turn =< created
                        /\ client'[d].turn \notin Live
      BY <1>2 DEF DecidedOnUnowned
    <2>1. CASE d = c
      BY <2>1, <1>1 DEF Sound
    <2>2. CASE d # c
      BY <2>2, <1>1 DEF TurnInv, DecidedOnUnowned
    <2> QED BY <2>1, <2>2
  <1> QED BY <1>1, <1>3

\* A request that only reads: it leaves rows and runners as they are.
LEMMA Reading ==
  ASSUME TurnInv, NEW c \in Clients, NEW r \in Requests, Step(c, r), Sound(r),
         UNCHANGED <<created, status, lastId, pc, regen, produced, detached, fails, faults,
                     crashes>>,
         messages' \subseteq messages, cancelling' \subseteq Turns,
         cancels' \in 0 .. MaxCancels
  PROVE  TurnInv'
  <1>1. client' \in [Clients -> Requests] /\ DecidedOnUnowned'
    BY ClientMoves
  <1>2. TypeOK'
    BY <1>1 DEF TurnInv, TypeOK, Requests
  <1>3. Numbered' /\ ActiveRowRunning' /\ OneRunningRow' /\ DetachedIsLate'
    BY DEF TurnInv, Numbered, ActiveRowRunning, OneRunningRow, RowsRunning, DetachedIsLate,
           Active
  <1> QED BY <1>1, <1>2, <1>3 DEF TurnInv

\* A request that writes a status it decided on earlier.
LEMMA DecidedWrite ==
  ASSUME TurnInv, NEW c \in Clients, NEW r \in Requests, Step(c, r),
         r.at \notin {"fail", "lookup", "mark"},
         client[c].at \in {"fail", "mark"}, NEW s \in Terminal,
         SetStatus(client[c].turn, s),
         UNCHANGED <<created, messages, lastId, runner, budget>>
  PROVE  TurnInv'
  <1> DEFINE t == client[c].turn
  <1>1. t \in Turns /\ t =< created /\ t \notin Live
    BY DEF TurnInv, DecidedOnUnowned
  <1>2. t \notin Active
    BY <1>1, Awaits DEF Live, Active
  <1>3. /\ status' \in [Turns -> {"none", "running"} \cup Terminal]
        /\ status'[t] = s
        /\ \A u \in Turns : u # t => status'[u] = status[u]
    BY <1>1 DEF TurnInv, TypeOK, SetStatus
  <1>4. client' \in [Clients -> Requests] /\ DecidedOnUnowned'
    BY ClientMoves DEF runner, Sound
  <1>5. TypeOK'
    BY <1>3, <1>4 DEF TurnInv, TypeOK, Requests, runner, budget
  <1>6. Active' = Active /\ created' = created
    BY DEF runner, Active
  <1>7. /\ \A u \in Turns : status'[u] = "none" <=> u > created'
        /\ ActiveRowRunning'
        /\ OneRunningRow'
    <2> HIDE DEF t
    <2> QED BY <1>1, <1>2, <1>3, <1>6, Settling
  <1>8. Numbered'
    BY <1>7 DEF TurnInv, Numbered, runner
  <1>9. DetachedIsLate'
    BY <1>6 DEF TurnInv, DetachedIsLate, runner
  <1> QED BY <1>4, <1>5, <1>7, <1>8, <1>9 DEF TurnInv

\* A turn is created only when no row is running, so no runner is active; the new
\* row and the new runner appear together.
LEMMA CreateTurnStep ==
  ASSUME TurnInv, NEW c \in Clients, CreateTurn(c)
  PROVE  TurnInv'
  <1> DEFINE t == created + 1
  <1>0. TypeOK /\ RowsRunning = {} /\ created < MaxTurns /\ created' = t
    BY DEF TurnInv, CreateTurn, SessionFree
  <1>1. t \in Turns /\ created \in Nat /\ t > created
    BY <1>0, TurnAssumption DEF TypeOK, Turns
  <1>2. /\ status' \in [Turns -> {"none", "running"} \cup Terminal]
        /\ status'[t] = "running"
        /\ \A u \in Turns : u # t => status'[u] = status[u]
    BY <1>0, <1>1 DEF CreateTurn, SetStatus, TypeOK
  <1>3. /\ pc' \in [Turns -> {"none", "ended", "crashed"} \cup Running]
        /\ pc'[t] = "context"
        /\ \A u \in Turns : u # t => pc'[u] = pc[u]
    BY <1>0, <1>1, Awaits DEF CreateTurn, Goto, TypeOK
  <1>4. /\ UNCHANGED <<messages, lastId, produced, cancelling, detached, cancels,
                       fails, faults, crashes>>
        /\ regen' \subseteq Turns
    BY <1>0, <1>1 DEF CreateTurn, budget, TypeOK
  <1>5. Idle \in Requests /\ Step(c, Idle) /\ Idle.at = "idle"
    BY TurnAssumption DEF Idle, Requests, CreateTurn
  <1>6. client' \in [Clients -> Requests] /\ client'[c].at = "idle"
        /\ \A d \in Clients : d # c => client'[d] = client[d]
    BY <1>0, <1>5 DEF TypeOK, Requests, Step
  <1>7. TypeOK'
    <2>1. created' \in 0 .. MaxTurns
      BY <1>0, <1>1, TurnAssumption
    <2> HIDE DEF t
    <2> QED BY <2>1, <1>0, <1>2, <1>3, <1>4, <1>6 DEF TypeOK, Requests
  <1>8. Numbered'
    <2> SUFFICES ASSUME NEW u \in Turns
                 PROVE  /\ pc'[u] = "none" <=> u > t
                        /\ status'[u] = "none" <=> u > t
      BY <1>0 DEF Numbered
    <2>1. CASE u = t
      BY <2>1, <1>1, <1>2, <1>3
    <2>2. CASE u # t
      <3>1. u > t <=> u > created
        BY <2>2, <1>1 DEF Turns
      <3>2. /\ pc[u] = "none" <=> u > created
            /\ status[u] = "none" <=> u > created
        BY DEF TurnInv, Numbered
      <3> QED BY <2>2, <3>1, <3>2, <1>2, <1>3
    <2> QED BY <2>1, <2>2
  <1>9. Active = {}
    BY <1>0 DEF TurnInv, ActiveRowRunning, RowsRunning, Active
  <1>10. Active' = {t} /\ RowsRunning' = {t} /\ Live' = Live \cup {t}
    <2>1. Active' = {t}
      BY <1>1, <1>3, <1>9, Awaits DEF Active
    <2>2. RowsRunning' = {t}
      BY <1>0, <1>1, <1>2 DEF RowsRunning
    <2>3. Live' = Live \cup {t}
      BY <1>1, <1>3, Awaits DEF Live
    <2> QED BY <2>1, <2>2, <2>3
  <1>11. ActiveRowRunning' /\ OneRunningRow'
    BY <1>2, <1>10 DEF ActiveRowRunning, OneRunningRow
  <1>12. DecidedOnUnowned'
    <2> SUFFICES ASSUME NEW d \in Clients, client'[d].at \in {"fail", "lookup", "mark"}
                 PROVE  /\ client'[d].turn \in Turns
                        /\ client'[d].turn =< t
                        /\ client'[d].turn \notin Live'
      BY <1>0 DEF DecidedOnUnowned
    <2>1. d # c
      BY <1>6
    <2>2. /\ client'[d].turn \in Turns
          /\ client'[d].turn =< created
          /\ client'[d].turn \notin Live
      BY <2>1, <1>6 DEF TurnInv, DecidedOnUnowned
    <2> QED BY <2>2, <1>1, <1>10 DEF Turns
  <1>13. DetachedIsLate'
    <2>1. \A op \in detached : op.turn =< created /\ op.turn \in Turns
      BY <1>0 DEF TurnInv, DetachedIsLate, TypeOK, WriteOps
    <2>2. \A op \in detached' : op.turn =< created' /\ op.turn \notin Active'
      BY <2>1, <1>0, <1>1, <1>4, <1>10 DEF Turns
    <2> QED BY <2>2 DEF DetachedIsLate
  <1> QED BY <1>7, <1>8, <1>11, <1>12, <1>13 DEF TurnInv

\* Recovery goes on with an orphan it has just seen, or with no decision at all.
LEMMA RecoverStep ==
  ASSUME TurnInv, NEW c \in Clients, NEW b \in BOOLEAN, NEW v \in Nat, Recover(c, b, v),
         UNCHANGED <<created, store, runner, budget>>
  PROVE  TurnInv'
  <1> USE DEF store, runner, budget
  <1>0. TypeOK
    BY DEF TurnInv
  <1>1. CASE \E t \in Turns :
               /\ Orphan(t)
               /\ Step(c, [at |-> "fail", turn |-> t, victim |-> v, regen |-> b])
    <2> PICK t \in Turns :
               /\ Orphan(t)
               /\ Step(c, [at |-> "fail", turn |-> t, victim |-> v, regen |-> b])
      BY <1>1
    <2> DEFINE r == [at |-> "fail", turn |-> t, victim |-> v, regen |-> b]
    <2>1. r \in Requests
      BY TurnAssumption DEF Requests, Turns
    <2>2. t =< created
      BY DEF TurnInv, Numbered, Orphan, TypeOK, Turns
    <2>3. Sound(r)
      BY <2>2 DEF Sound, Orphan
    <2>4. cancels \in 0 .. MaxCancels /\ cancelling \subseteq Turns
      BY <1>0 DEF TypeOK
    <2> HIDE DEF r
    <2>5. Step(c, r)
      BY DEF r
    <2> QED BY <2>1, <2>3, <2>4, <2>5, Reading
  <1>2. CASE Step(c, [at |-> "create", turn |-> 0, victim |-> v, regen |-> b])
    <2> DEFINE r == [at |-> "create", turn |-> 0, victim |-> v, regen |-> b]
    <2>1. r \in Requests /\ Sound(r)
      BY TurnAssumption DEF Requests, Sound
    <2>4. cancels \in 0 .. MaxCancels /\ cancelling \subseteq Turns
      BY <1>0 DEF TypeOK
    <2>5. Step(c, r)
      BY <1>2
    <2> HIDE DEF r
    <2> QED BY <2>1, <2>4, <2>5, Reading
  <1> QED BY <1>1, <1>2 DEF Recover

\* What a stage of a request goes on with is a request, and the readings of rows
\* that decide a write are sound.
LEMMA ReadingStep ==
  ASSUME TurnInv, NEW c \in Clients,
         \/ Reject(c) \/ Regenerate(c) \/ PickUser(c) \/ PickLast(c) \/ DeleteAnswer(c)
         \/ CancelReturns(c) \/ Lookup(c)
         \/ \E t \in Turns : CancelLive(c, t) \/ CancelStale(c, t) \/ CheckActive(c, t)
  PROVE  TurnInv'
  <1> USE DEF store, runner, budget
  <1>0. /\ TypeOK /\ client[c] \in Requests
        /\ cancels \in 0 .. MaxCancels /\ cancelling \subseteq Turns
    BY DEF TurnInv, TypeOK, Requests
  <1>1. Idle \in Requests /\ Sound(Idle) /\ [Idle EXCEPT !.at = "pickUser"] \in Requests
    <2>1. 0 \in 0 .. MaxTurns
      BY TurnAssumption
    <2> QED BY IdleRequest, Restaged DEF Sound
  <1>2. \A a \in {"pickLast", "restart", "mark"} : [client[c] EXCEPT !.at = a] \in Requests
    BY <1>0 DEF Requests
  <1>3. \A a \in {"pickLast", "restart"} : Sound([client[c] EXCEPT !.at = a])
    BY <1>0 DEF Requests, Sound
  <1>4. CASE Reject(c)
    <2> QED BY <1>0, <1>1, <1>4, Reading DEF Reject
  <1>5. CASE Regenerate(c)
    <2>1. Sound([Idle EXCEPT !.at = "pickUser"])
      BY DEF Idle, Sound
    <2> QED BY <2>1, <1>0, <1>1, <1>5, Reading DEF Regenerate
  <1>6. CASE PickUser(c)
    <2>1. PICK r \in Requests : Step(c, r) /\ Sound(r)
      BY <1>1, <1>2, <1>3, <1>6 DEF PickUser
    <2> QED BY <2>1, <1>0, <1>6, Reading DEF PickUser
  <1>7. CASE PickLast(c)
    <2>1. \A m \in TrailingAnswer :
             /\ [client[c] EXCEPT !.at = "delete", !.victim = m.id] \in Requests
             /\ Sound([client[c] EXCEPT !.at = "delete", !.victim = m.id])
      BY <1>0 DEF TrailingAnswer, TypeOK, Requests, Sound
    <2>2. PICK r \in Requests : Step(c, r) /\ Sound(r)
      BY <2>1, <1>2, <1>3, <1>7 DEF PickLast
    <2> QED BY <2>2, <1>0, <1>7, Reading DEF PickLast
  <1>8. CASE DeleteAnswer(c)
    <2>1. PICK r \in Requests : Step(c, r) /\ Sound(r)
      BY <1>2, <1>3, <1>8 DEF DeleteAnswer
    <2>2. messages' \subseteq messages
      BY <1>8 DEF DeleteAnswer
    <2> QED BY <2>1, <2>2, <1>0, <1>8, Reading DEF DeleteAnswer
  <1>9. CASE CancelReturns(c)
    BY <1>0, <1>1, <1>9, Reading DEF CancelReturns
  <1>10. CASE Lookup(c)
    <2>1. client[c].turn \in Turns /\ client[c].turn =< created /\ client[c].turn \notin Live
      BY <1>10 DEF Lookup, TurnInv, DecidedOnUnowned
    <2>2. Sound([client[c] EXCEPT !.at = "mark"])
      BY <2>1, <1>0 DEF Requests, Sound
    <2>3. PICK r \in Requests : Step(c, r) /\ Sound(r)
      BY <2>2, <1>1, <1>2, <1>10 DEF Lookup
    <2> QED BY <2>3, <1>0, <1>10, Reading DEF Lookup
  <1>11. ASSUME NEW t \in Turns, CancelLive(c, t) PROVE TurnInv'
    <2> DEFINE r == [Idle EXCEPT !.at = "await", !.turn = t]
    <2>0. t \in 0 .. MaxTurns
      BY TurnAssumption DEF Turns
    <2>1. r \in Requests /\ r.at = "await"
      <3>1. Idle \in Requests
        BY IdleRequest
      <3>2. r \in Requests
        BY <2>0, <3>1 DEF Requests
      <3>3. r.at = "await"
        BY <3>1 DEF Requests
      <3> QED BY <3>2, <3>3
    <2>2. cancels' \in 0 .. MaxCancels
      <3>1. cancels < MaxCancels /\ cancels' = cancels + 1
        BY <1>11 DEF CancelLive
      <3>2. cancels \in 0 .. MaxCancels
        BY <1>0
      <3> QED BY <3>1, <3>2, TurnAssumption
    <2>4. cancelling' \subseteq Turns
      BY <1>0, <1>11 DEF CancelLive
    <2>5. Sound(r)
      BY <2>1 DEF Sound
    <2>3. Step(c, r)
      BY <1>11 DEF CancelLive
    <2> HIDE DEF r
    <2> QED BY <2>1, <2>2, <2>3, <2>4, <2>5, <1>0, <1>11, Reading DEF CancelLive
  <1>12. ASSUME NEW t \in Turns, NEW a \in {"lookup", "mark"},
                status[t] # "none", t \notin Live, Step(c, [Idle EXCEPT !.at = a, !.turn = t]),
                UNCHANGED <<created, store, runner, budget>>
         PROVE  TurnInv'
    <2> DEFINE r == [Idle EXCEPT !.at = a, !.turn = t]
    <2>0. t \in 0 .. MaxTurns
      BY TurnAssumption DEF Turns
    <2>1. r \in Requests /\ r.turn = t
      <3>1. Idle \in Requests
        BY IdleRequest
      <3>2. r \in Requests
        BY <2>0, <3>1 DEF Requests
      <3>3. r.turn = t
        BY <3>1 DEF Requests
      <3> QED BY <3>2, <3>3
    <2>2. t =< created
      BY <1>0, <1>12 DEF TurnInv, Numbered, TypeOK, Turns
    <2>3. Sound(r)
      BY <2>1, <2>2, <1>12 DEF Sound
    <2>4. Step(c, r)
      BY <1>12
    <2> HIDE DEF r
    <2> QED BY <2>1, <2>3, <2>4, <1>0, <1>12, Reading
  <1>13. ASSUME NEW t \in Turns, CancelStale(c, t) \/ CheckActive(c, t) PROVE TurnInv'
    <2>1. CASE CancelStale(c, t)
      BY <2>1, <1>12 DEF CancelStale
    <2>2. CASE CheckActive(c, t)
      BY <2>2, <1>12 DEF CheckActive, Orphan
    <2> QED BY <1>13, <2>1, <2>2
  <1> QED BY <1>4, <1>5, <1>6, <1>7, <1>8, <1>9, <1>10, <1>11, <1>13

LEMMA WritingStep ==
  ASSUME TurnInv, NEW c \in Clients, FailOrphan(c) \/ Mark(c)
  PROVE  TurnInv'
  <1> USE DEF Terminal
  <1>1. CASE FailOrphan(c)
    <2> DEFINE r == [client[c] EXCEPT !.at = "create", !.turn = 0]
    <2>0. 0 \in 0 .. MaxTurns /\ client[c] \in Requests
      BY TurnAssumption DEF TurnInv, TypeOK, Requests
    <2>1. r \in Requests /\ r.at = "create"
      BY <2>0 DEF Requests
    <2>2. Step(c, r)
      BY <1>1 DEF FailOrphan
    <2> HIDE DEF r
    <2> QED BY <2>1, <2>2, <1>1, DecidedWrite DEF FailOrphan
  <1>2. CASE Mark(c)
    <2>1. Idle \in Requests /\ Idle.at = "idle"
      BY TurnAssumption DEF Requests, Idle
    <2> QED BY <2>1, <1>2, DecidedWrite DEF Mark
  <1> QED BY <1>1, <1>2

\* A new process starts without runners, requests and pending writes: nothing is
\* active, and every decision is forgotten.
LEMMA CrashStep ==
  ASSUME TurnInv, Crash
  PROVE  TurnInv'
  <1>0. TypeOK /\ UNCHANGED <<created, store, regen, produced, cancels, fails, faults>>
    BY DEF TurnInv, Crash
  <1>1. /\ pc' \in [Turns -> {"none", "ended", "crashed"} \cup Running]
        /\ \A t \in Turns : pc'[t] \notin Running /\ (pc'[t] = "none" <=> pc[t] = "none")
    BY <1>0, Awaits DEF Crash, Live, TypeOK
  <1>2. Idle \in Requests /\ client' = [c \in Clients |-> Idle]
    BY TurnAssumption DEF Idle, Requests, Crash
  <1>3. crashes' \in 0 .. MaxCrashes /\ cancelling' = {} /\ detached' = {}
    BY <1>0, TurnAssumption DEF Crash, TypeOK
  <1>4. TypeOK'
    BY <1>0, <1>1, <1>2, <1>3 DEF TypeOK, Requests, store
  <1>5. Numbered' /\ OneRunningRow'
    BY <1>0, <1>1 DEF TurnInv, Numbered, OneRunningRow, RowsRunning, store
  <1>6. ActiveRowRunning'
    BY <1>1, Awaits DEF ActiveRowRunning, Active
  <1>7. DecidedOnUnowned' /\ DetachedIsLate'
    BY <1>2, <1>3 DEF DecidedOnUnowned, DetachedIsLate, Idle
  <1> QED BY <1>4, <1>5, <1>6, <1>7 DEF TurnInv

----------------------------------------------------------------------------
(* The theorems *)

LEMMA TurnStep == TurnInv /\ [Next]_vars => TurnInv'
  <1> SUFFICES ASSUME TurnInv, [Next]_vars PROVE TurnInv'
    OBVIOUS
  <1>1. ASSUME NEW t \in Turns, RunnerStep(t) PROVE TurnInv'
    BY <1>1, QuietStep, PublishStep, StoreWriteStep DEF RunnerStep
  <1>2. ASSUME NEW c \in Clients, StartTurn(c) \/ Restart(c) PROVE TurnInv'
    <2>1. client[c].victim \in Nat
      BY DEF TurnInv, TypeOK
    <2> QED BY <1>2, <2>1, RecoverStep DEF StartTurn, Restart
  <1>3. ASSUME NEW c \in Clients, ClientStep(c) PROVE TurnInv'
    BY <1>2, <1>3, ReadingStep, WritingStep, CreateTurnStep DEF ClientStep
  <1>4. ASSUME NEW op \in WriteOps, Land(op) PROVE TurnInv'
    BY <1>4, LandStep
  <1>5. CASE Crash
    BY <1>5, CrashStep
  <1>6. CASE UNCHANGED vars
    <2>1. TypeOK'
      BY <1>6 DEF vars, TurnInv, TypeOK
    <2>2. Numbered' /\ ActiveRowRunning' /\ OneRunningRow'
      BY <1>6 DEF vars, TurnInv, Numbered, ActiveRowRunning, OneRunningRow, RowsRunning, Active
    <2>3. DecidedOnUnowned' /\ DetachedIsLate'
      BY <1>6 DEF vars, TurnInv, DecidedOnUnowned, DetachedIsLate, Live, Active
    <2> QED BY <2>1, <2>2, <2>3 DEF TurnInv
  <1> QED BY <1>1, <1>3, <1>4, <1>5, <1>6 DEF Next

\* The invariant the other theorems rest on.
THEOREM TurnInvariant == Spec => []TurnInv
  BY TurnInit, TurnStep, PTL DEF Spec

\* Every variable keeps its type: the turn, message and request tables are only
\* ever given values the code knows.
THEOREM TurnTypeOK == Spec => []TypeOK
  BY TurnInvariant, PTL DEF TurnInv

\* Whatever recoveries, cancellations and crashes interleave, the row of a turn
\* that is being worked on says running.
THEOREM TurnActiveRowRunning == Spec => []ActiveRowRunning
  BY TurnInvariant, PTL DEF TurnInv

\* create_turn's test of the rows suffices to keep two runners of the session
\* from working at the same time.
THEOREM TurnOneActiveTurn == Spec => []OneActiveTurn
  <1>1. TurnInv => OneActiveTurn
    BY DEF TurnInv, ActiveRowRunning, OneRunningRow, OneActiveTurn, RowsRunning, Active
  <1> QED BY <1>1, TurnInvariant, PTL

\* A write of a terminal status is a step of the contract.
LEMMA SettleMaps ==
  ASSUME TurnInv, NEW t \in Turns, t =< created, NEW s \in Terminal, SetStatus(t, s)
  PROVE  [Abstract!Next]_status
  <1>1. status[t] # "none"
    BY DEF TurnInv, TypeOK, Numbered, Turns
  <1>2. Abstract!Settle(t, s)
    BY <1>1 DEF Abstract!Settle, SetStatus
  <1> QED BY <1>2 DEF Abstract!Next, Abstract!Turns, Abstract!Terminal, Turns, Terminal

LEMMA CommitMaps ==
  ASSUME TurnInv, NEW op \in WriteOps, Commit(op), op.turn =< created
  PROVE  [Abstract!Next]_status
  <1>1. op.turn \in Turns /\ Writes[op.at] \in Roles \cup Terminal
    BY Awaits DEF WriteOps, Writes, Roles, Terminal
  <1>2. CASE Writes[op.at] \in Roles
    BY <1>2 DEF Commit
  <1>3. CASE Writes[op.at] \notin Roles
    BY <1>1, <1>3, SettleMaps DEF Commit
  <1> QED BY <1>2, <1>3

LEMMA StepMaps == TurnInv /\ [Next]_vars => [Abstract!Next]_status
  <1> SUFFICES ASSUME TurnInv, [Next]_vars PROVE [Abstract!Next]_status
    OBVIOUS
  <1> USE DEF store
  <1>1. ASSUME NEW t \in Turns, RunnerStep(t) PROVE [Abstract!Next]_status
    <2>1. CASE StoreWrite(t)
      <3> DEFINE op == [at |-> pc[t], turn |-> t]
      <3>1. op \in WriteOps /\ Commit(op) /\ op.turn = t
        BY <2>1 DEF StoreWrite, WriteOps
      <3>2. t =< created
        BY <2>1, Awaits DEF TurnInv, TypeOK, Numbered, StoreWrite, Turns
      <3> HIDE DEF op
      <3> QED BY <3>1, <3>2, CommitMaps
    <2>2. CASE ~StoreWrite(t)
      BY <1>1, <2>2
      DEF RunnerStep, ContextReady, Publish, EndOfStream, Flushed, TitleDone, Fail,
          HandlerFault, Interrupt
    <2> QED BY <2>1, <2>2
  <1>2. ASSUME NEW c \in Clients, FailOrphan(c) \/ Mark(c) PROVE [Abstract!Next]_status
    <2>1. client[c].turn \in Turns /\ client[c].turn =< created
      BY <1>2 DEF TurnInv, DecidedOnUnowned, FailOrphan, Mark
    <2>2. \E s \in Terminal : SetStatus(client[c].turn, s)
      BY <1>2 DEF FailOrphan, Mark, Terminal
    <2> QED BY <2>1, <2>2, SettleMaps
  <1>3. ASSUME NEW c \in Clients, CreateTurn(c) PROVE [Abstract!Next]_status
    <2> DEFINE t == created + 1
    <2>1. t \in Turns /\ t > created
      BY <1>3, TurnAssumption DEF TurnInv, TypeOK, CreateTurn, Turns
    <2>2. status[t] = "none" /\ \A u \in Turns : status[u] # "running"
      BY <1>3, <2>1 DEF TurnInv, Numbered, CreateTurn, SessionFree, RowsRunning
    <2>3. status' = [status EXCEPT ![t] = "running"]
      BY <1>3 DEF CreateTurn, SetStatus
    <2>4. Abstract!Begin(t)
      BY <2>2, <2>3 DEF Abstract!Begin, Abstract!Turns, Turns
    <2> QED BY <2>1, <2>4 DEF Abstract!Next, Abstract!Turns, Turns
  <1>4. ASSUME NEW c \in Clients, ClientStep(c) PROVE [Abstract!Next]_status
    BY <1>2, <1>3, <1>4
    DEF ClientStep, StartTurn, Reject, Regenerate, PickUser, PickLast, DeleteAnswer,
        Restart, CancelReturns, Lookup, CancelLive, CancelStale, CheckActive
  <1>5. ASSUME NEW op \in WriteOps, Land(op) PROVE [Abstract!Next]_status
    BY <1>5, CommitMaps DEF Land, TurnInv, DetachedIsLate
  <1>6. CASE Crash
    BY <1>6 DEF Crash
  <1>7. CASE UNCHANGED vars
    BY <1>7 DEF vars
  <1> QED BY <1>1, <1>4, <1>5, <1>6, <1>7 DEF Next

\* The runtime keeps the contract of SessionTurns: a turn gets the session to
\* itself, and never runs again once its row has left "running".
THEOREM TurnRefinesSession == Spec => AbstractSpec
  <1>1. Init => Abstract!Init
    BY DEF Init, Abstract!Init, Abstract!Turns, Turns
  <1> QED BY <1>1, TurnInvariant, StepMaps, PTL DEF Spec, AbstractSpec, Abstract!Spec

----------------------------------------------------------------------------
(* What one disturbance leaves behind *)

\* A cancellation of the turn is on its way, or its handler is at work.
Hit(t) == t \in cancelling \/ pc[t] \in CancelHandler

\* What is seen of cancellations and exceptions has been counted: two turns that
\* are hit, or a handler that is cancelled, are two disturbances.
Counted ==
    /\ \A t \in Turns : Hit(t) => cancels >= 1
    /\ \A t \in Turns : t \in cancelling /\ pc[t] \in CancelHandler => cancels >= 2
    /\ \A t, u \in Turns : t # u /\ Hit(t) /\ Hit(u) => cancels >= 2
    /\ \A t \in Turns : pc[t] \in FailHandler => fails >= 1

\* The row of a turn whose DONE is out, or whose runner is gone, is settled.
LeftSettled ==
    DisturbedOnce => \A t \in Turns : pc[t] \in {"title", "ended"} => status[t] # "running"

\* Recovery leaves no stale row: the one it is about to fail is the only one.
NoOrphanBehind ==
    DisturbedOnce =>
        \A c \in Clients :
            /\ client[c].at = "create" => \A t \in Turns : ~Orphan(t)
            /\ client[c].at = "fail" => \A t \in Turns : Orphan(t) => t = client[c].turn

\* The bounds on disturbances as numbers.
LEMMA BudgetNumbers ==
  ASSUME TypeOK PROVE cancels \in Nat /\ fails \in Nat /\ faults \in Nat
  BY TurnAssumption DEF TypeOK

\* Who only takes from what is under way leaves the count right.
LEMMA CountedStays ==
  ASSUME TypeOK, TypeOK', Counted, cancels' = cancels, fails' >= fails,
         \A t \in Turns : /\ t \in cancelling' => t \in cancelling
                          /\ pc'[t] \in CancelHandler => Hit(t)
                          /\ t \in cancelling' /\ pc'[t] \in CancelHandler =>
                                t \in cancelling /\ pc[t] \in CancelHandler
                          /\ pc'[t] \in FailHandler => pc[t] \in FailHandler \/ fails' >= 1
  PROVE  Counted'
  <1>1. fails \in Nat /\ fails' \in Nat
    BY BudgetNumbers, TurnAssumption DEF TypeOK
  <1>2. \A t \in Turns : Hit(t)' => Hit(t)
    BY DEF Hit
  <1>3. \A t \in Turns : pc'[t] \in FailHandler => fails' >= 1
    BY <1>1 DEF Counted
  <1> QED BY <1>2, <1>3 DEF Counted

\* The runner's moves between awaits, for the count.
LEMMA CountedRunner ==
  ASSUME TurnInv, TurnInv', Counted, NEW t \in Turns, RunnerStep(t)
  PROVE  Counted'
  <1>0. TypeOK /\ TypeOK' /\ fails \in Nat
    BY BudgetNumbers DEF TurnInv
  <1>1. /\ cancels' = cancels /\ cancelling' \subseteq cancelling
        /\ fails' = fails \/ (Fail(t) /\ fails' = fails + 1)
        /\ \A u \in Turns : u # t => pc'[u] = pc[u]
    BY <1>0 DEF RunnerStep, ContextReady, Publish, EndOfStream, Flushed, StoreWrite, TitleDone, Fail,
                HandlerFault, Interrupt, Goto, budget, TypeOK
  <1>2. /\ pc'[t] \in CancelHandler => Hit(t)
        /\ t \in cancelling' /\ pc'[t] \in CancelHandler => pc[t] \in CancelHandler
        /\ pc'[t] \in FailHandler => pc[t] \in FailHandler \/ Fail(t)
    <2> USE <1>0 DEF TypeOK, Goto, CancelHandler, FailHandler, Hit
    <2>1. CASE ContextReady(t) \/ Publish(t) \/ EndOfStream(t) \/ TitleDone(t)
      BY <2>1 DEF ContextReady, Publish, EndOfStream, TitleDone
    <2>2. CASE Flushed(t)
      BY <2>2 DEF Flushed, SaveOrSettle, FailStatus
    <2>3. CASE StoreWrite(t)
      BY <2>3, Awaits DEF StoreWrite, After
    <2>4. CASE Fail(t)
      BY <2>4 DEF Fail
    <2>5. CASE HandlerFault(t)
      BY <2>5 DEF HandlerFault, SaveOrSettle, After
    <2>6. CASE Interrupt(t)
      <3>1. t \in cancelling /\ t \notin cancelling' /\ pc'[t] \notin FailHandler
        BY <2>6, Targets DEF Interrupt
      <3> QED BY <3>1
    <2> QED BY <1>0, <2>1, <2>2, <2>3, <2>4, <2>5, <2>6 DEF RunnerStep
  <1>3. fails' >= fails /\ (Fail(t) => fails' >= 1)
    <2>1. Fail(t) => fails' = fails + 1
      BY DEF Fail
    <2> QED BY <1>0, <1>1, <2>1
  <1> QED BY <1>0, <1>1, <1>2, <1>3, CountedStays DEF Hit

LEMMA CountedClient ==
  ASSUME TurnInv, TurnInv', Counted, NEW c \in Clients, ClientStep(c)
  PROVE  Counted'
  <1>0. TypeOK /\ TypeOK' /\ cancels \in Nat /\ fails \in Nat
    BY BudgetNumbers DEF TurnInv
  <1>1. CASE CreateTurn(c)
    <2>1. UNCHANGED <<cancelling, cancels, fails>>
      BY <1>1 DEF CreateTurn, budget
    <2>2. \A t \in Turns : pc'[t] = pc[t] \/ pc'[t] = "context"
      BY <1>0, <1>1 DEF CreateTurn, Goto, TypeOK
    <2>3. \A t \in Turns : pc'[t] \in CancelHandler \cup FailHandler => pc'[t] = pc[t]
      BY <2>2 DEF CancelHandler, FailHandler
    <2> QED BY <1>0, <2>1, <2>3, CountedStays DEF Hit
  <1>2. ASSUME NEW t \in Turns, CancelLive(c, t) PROVE Counted'
    <2>1. cancels' = cancels + 1 /\ cancelling' = cancelling \cup {t} /\ UNCHANGED <<pc, fails>>
      BY <1>2 DEF CancelLive
    <2>2. cancels' >= 1 /\ (cancels >= 1 => cancels' >= 2) /\ (cancels >= 2 => cancels' >= 2)
      BY <1>0, <2>1
    <2>3. \A u \in Turns : Hit(u)' => Hit(u) \/ u = t
      BY <2>1 DEF Hit
    <2>4. \A u \in Turns : u \in cancelling' /\ pc'[u] \in CancelHandler => cancels' >= 2
      BY <2>1, <2>2 DEF Counted, Hit
    <2>5. \A u, v \in Turns : u # v /\ Hit(u)' /\ Hit(v)' => cancels' >= 2
      BY <2>2, <2>3 DEF Counted
    <2>6. \A u \in Turns : Hit(u)' => cancels' >= 1
      BY <2>2
    <2>7. \A u \in Turns : pc'[u] \in FailHandler => fails' >= 1
      BY <2>1 DEF Counted
    <2> QED BY <2>4, <2>5, <2>6, <2>7 DEF Counted
  <1>3. CASE UNCHANGED <<pc, cancelling, cancels, fails>>
    BY <1>3 DEF Counted, Hit
  <1>4. \/ CreateTurn(c) \/ \E t \in Turns : CancelLive(c, t)
        \/ UNCHANGED <<pc, cancelling, cancels, fails>>
    BY DEF ClientStep, StartTurn, FailOrphan, Reject, Regenerate, PickUser, PickLast, DeleteAnswer,
           Restart, CancelReturns, Lookup, Mark, CancelStale, CheckActive, runner, budget
  <1> QED BY <1>1, <1>2, <1>3, <1>4

LEMMA CountedNext == TurnInv /\ TurnInv' /\ Counted /\ [Next]_vars => Counted'
  <1> SUFFICES ASSUME TurnInv, TurnInv', Counted, [Next]_vars PROVE Counted'
    OBVIOUS
  <1>1. ASSUME NEW op \in WriteOps, Land(op) PROVE Counted'
    BY <1>1 DEF Land, budget, Counted, Hit
  <1>2. CASE Crash
    <2>1. /\ cancelling' = {} /\ UNCHANGED <<cancels, fails>>
          /\ \A t \in Turns : pc'[t] \notin CancelHandler \cup FailHandler
      BY <1>2, Awaits DEF Crash, Live, Running
    <2> QED BY <2>1 DEF Counted, Hit
  <1>3. CASE UNCHANGED vars
    BY <1>3 DEF vars, Counted, Hit
  <1> QED BY <1>1, <1>2, <1>3, CountedRunner, CountedClient DEF Next

LEMMA SmallerSum ==
  ASSUME NEW a \in Nat, NEW b \in Nat, NEW c \in Nat, NEW x \in Nat, NEW y \in Nat, NEW z \in Nat,
         a =< x, b =< y, c =< z, x + y + z =< 1
  PROVE  a + b + c =< 1
  OBVIOUS

\* Disturbances are not forgotten.
LEMMA BudgetGrows ==
  ASSUME TurnInv, TurnInv', [Next]_vars
  PROVE  /\ cancels \in Nat /\ fails \in Nat /\ faults \in Nat
         /\ cancels' \in Nat /\ fails' \in Nat /\ faults' \in Nat
         /\ cancels =< cancels' /\ fails =< fails' /\ faults =< faults'
  <1>1. /\ cancels \in Nat /\ fails \in Nat /\ faults \in Nat
        /\ cancels' \in Nat /\ fails' \in Nat /\ faults' \in Nat
    BY BudgetNumbers, TurnAssumption DEF TurnInv, TypeOK
  <1>2. cancels' \in {cancels, cancels + 1} /\ fails' \in {fails, fails + 1}
        /\ faults' \in {faults, faults + 1}
    BY DEF Next, RunnerStep, ContextReady, Publish, EndOfStream, Flushed, StoreWrite, TitleDone, Fail,
           HandlerFault, Interrupt, ClientStep, StartTurn, FailOrphan, CreateTurn, Reject, Regenerate,
           PickUser, PickLast, DeleteAnswer, Restart, CancelReturns, Lookup, Mark, CancelLive,
           CancelStale, CheckActive, Land, Crash, runner, budget, vars
  <1> QED BY <1>1, <1>2

LEMMA Monotone ==
  ASSUME TurnInv, TurnInv', [Next]_vars, DisturbedOnce' PROVE DisturbedOnce
  <1>1. cancels' + fails' + faults' =< 1
    BY DEF DisturbedOnce
  <1>2. cancels + fails + faults =< 1
    BY <1>1, BudgetGrows, SmallerSum
  <1> QED BY <1>2 DEF DisturbedOnce

\* One disturbance does not reach a handler twice.
LEMMA HandlerUndisturbed ==
  ASSUME TurnInv, Counted, DisturbedOnce, NEW t \in Turns
  PROVE  /\ t \in cancelling => pc[t] \notin CancelHandler \cup FailHandler
         /\ pc[t] \in CancelHandler \cup FailHandler => cancels + fails = 1 /\ faults = 0
  <1>1. cancels \in Nat /\ fails \in Nat /\ faults \in Nat /\ cancels + fails + faults =< 1
    BY BudgetNumbers DEF TurnInv, DisturbedOnce
  <1>2. /\ t \in cancelling => cancels >= 1
        /\ t \in cancelling /\ pc[t] \in CancelHandler => cancels >= 2
        /\ pc[t] \in CancelHandler => cancels >= 1
        /\ pc[t] \in FailHandler => fails >= 1
    BY DEF Counted, Hit
  <1> QED BY <1>1, <1>2

\* A runner that leaves after at most one disturbance has written its row.
LEMMA SettledRunner ==
  ASSUME TurnInv, TurnInv', Counted, LeftSettled, NEW t \in Turns, RunnerStep(t),
         DisturbedOnce, DisturbedOnce'
  PROVE  \A u \in Turns : pc'[u] \in {"title", "ended"} => status'[u] # "running"
  <1>0. TypeOK
    BY DEF TurnInv
  <1>1. CASE StoreWrite(t)
    <2> DEFINE op == [at |-> pc[t], turn |-> t]
    <2>1. op \in WriteOps /\ Commit(op) /\ op.turn = t /\ op.at = pc[t]
      BY <1>1 DEF StoreWrite, WriteOps
    <2>2. /\ \A u \in Turns : t # u => status'[u] = status[u]
          /\ status'[t] = IF Writes[pc[t]] \in Roles THEN status[t] ELSE Writes[pc[t]]
      <3> HIDE DEF op
      <3> QED BY <1>0, <2>1, CommitEffect
    <2>3. pc[t] \in DOMAIN Writes /\ pc'[t] = After(t) /\ \A u \in Turns : u # t => pc'[u] = pc[u]
      BY <1>0, <1>1 DEF StoreWrite, Goto, TypeOK
    <2>4. pc'[t] \in {"title", "ended"} => pc[t] \in {"complete", "cStatus", "fStatus"}
      BY <2>3, Awaits DEF After
    <2>5. pc[t] \in {"complete", "cStatus", "fStatus"} =>
             Writes[pc[t]] \notin Roles /\ Writes[pc[t]] # "running"
      BY DEF Writes, Roles
    <2>6. pc'[t] \in {"title", "ended"} => status'[t] # "running"
      BY <2>2, <2>4, <2>5
    <2>7. \A u \in Turns : u # t /\ pc'[u] \in {"title", "ended"} => status'[u] # "running"
      BY <2>2, <2>3 DEF LeftSettled
    <2> QED BY <2>6, <2>7
  <1>2. CASE ~StoreWrite(t)
    <2>1. status' = status /\ \A u \in Turns : u # t => pc'[u] = pc[u]
      BY <1>0, <1>2 DEF RunnerStep, ContextReady, Publish, EndOfStream, Flushed, TitleDone, Fail,
                        HandlerFault, Interrupt, Goto, store, TypeOK
    <2>2. CASE HandlerFault(t)
      <3>1. pc[t] \in CancelHandler \cup FailHandler /\ faults' = faults + 1
            /\ UNCHANGED <<cancels, fails>>
        BY <2>2 DEF HandlerFault
      <3>2. cancels + fails = 1 /\ faults = 0
        BY <3>1, HandlerUndisturbed
      <3>3. cancels \in Nat /\ fails \in Nat
        BY <1>0, BudgetNumbers
      <3>4. cancels' + fails' + faults' =< 1
        BY DEF DisturbedOnce
      <3> QED BY <3>1, <3>2, <3>3, <3>4
    <2>3. CASE Interrupt(t)
      <3>1. t \in cancelling /\ t \in Live /\ pc'[t] = Caught(t)
        BY <1>0, <2>3 DEF Interrupt, Goto, TypeOK
      <3>2. pc[t] \in Body
        BY <3>1, HandlerUndisturbed DEF Live, Running
      <3>3. pc'[t] \in {"cSave", "cStatus", "cFlush"}
        BY <1>0, <3>1, <3>2, Targets DEF Caught
      <3> QED BY <2>1, <3>3 DEF LeftSettled
    <2>4. CASE ContextReady(t) \/ Publish(t) \/ EndOfStream(t) \/ Flushed(t) \/ Fail(t)
      <3>1. pc'[t] \notin {"title", "ended"} \/ pc'[t] = pc[t]
        BY <1>0, <2>4, Targets DEF ContextReady, Publish, EndOfStream, Flushed, Fail, Goto, TypeOK
      <3> QED BY <2>1, <3>1 DEF LeftSettled
    <2>5. CASE TitleDone(t)
      <3>1. pc[t] = "title"
        BY <2>5 DEF TitleDone
      <3> QED BY <2>1, <3>1 DEF LeftSettled
    <2> QED BY <1>2, <2>2, <2>3, <2>4, <2>5 DEF RunnerStep
  <1> QED BY <1>1, <1>2

\* Nobody else brings a row back to running.
LEMMA SettledNext == TurnInv /\ TurnInv' /\ Counted /\ LeftSettled /\ [Next]_vars => LeftSettled'
  <1> SUFFICES ASSUME TurnInv, TurnInv', Counted, LeftSettled, [Next]_vars, DisturbedOnce'
               PROVE  \A u \in Turns : pc'[u] \in {"title", "ended"} => status'[u] # "running"
    BY DEF LeftSettled
  <1>0. TypeOK /\ DisturbedOnce
    BY Monotone DEF TurnInv
  <1>1. ASSUME NEW t \in Turns, RunnerStep(t)
        PROVE  \A u \in Turns : pc'[u] \in {"title", "ended"} => status'[u] # "running"
    BY <1>0, <1>1, SettledRunner
  <1>2. ASSUME \A u \in Turns : /\ pc'[u] \in {"title", "ended"} => pc'[u] = pc[u]
                                /\ status'[u] = "running" => status[u] = "running" \/ pc'[u] = "context"
        PROVE  \A u \in Turns : pc'[u] \in {"title", "ended"} => status'[u] # "running"
    <2> SUFFICES ASSUME NEW u \in Turns, pc'[u] \in {"title", "ended"} PROVE status'[u] # "running"
      OBVIOUS
    <2>1. pc'[u] # "context" /\ status[u] # "running"
      BY <1>0, <1>2 DEF LeftSettled
    <2> QED BY <1>2, <2>1
  <1>3. ASSUME NEW op \in WriteOps, Land(op)
        PROVE  \A u \in Turns : /\ pc'[u] \in {"title", "ended"} => pc'[u] = pc[u]
                                /\ status'[u] = "running" => status[u] = "running" \/ pc'[u] = "context"
    <2>1. Commit(op) /\ pc' = pc /\ op.turn \in Turns
      BY <1>3 DEF Land, WriteOps
    <2>2. "running" \notin Terminal
      BY DEF Terminal
    <2> QED BY <1>0, <2>1, <2>2, CommitEffect
  <1>4. ASSUME NEW c \in Clients, ClientStep(c)
        PROVE  \A u \in Turns : /\ pc'[u] \in {"title", "ended"} => pc'[u] = pc[u]
                                /\ status'[u] = "running" => status[u] = "running" \/ pc'[u] = "context"
    <2>1. CASE CreateTurn(c)
      BY <1>0, <2>1 DEF CreateTurn, Goto, SetStatus, TypeOK
    <2>2. CASE FailOrphan(c) \/ Mark(c)
      BY <1>0, <2>2 DEF FailOrphan, Mark, SetStatus, TypeOK, runner
    <2>3. CASE UNCHANGED <<status, pc>>
      BY <2>3
    <2>4. CreateTurn(c) \/ FailOrphan(c) \/ Mark(c) \/ UNCHANGED <<status, pc>>
      BY <1>4 DEF ClientStep, StartTurn, Reject, Regenerate, PickUser, PickLast, DeleteAnswer,
             Restart, CancelReturns, Lookup, CancelLive, CancelStale, CheckActive, runner, store
    <2> QED BY <2>1, <2>2, <2>3, <2>4
  <1>5. CASE Crash
    <2>1. status' = status /\ \A u \in Turns : pc'[u] \in {pc[u], "crashed"}
      BY <1>5 DEF Crash, store
    <2> QED BY <1>2, <2>1
  <1>6. CASE UNCHANGED vars
    <2>1. status' = status /\ pc' = pc
      BY <1>6 DEF vars
    <2> QED BY <1>2, <2>1
  <1> QED BY <1>1, <1>2, <1>3, <1>4, <1>5, <1>6 DEF Next

\* Stale rows are made by crashes, which end every request with them, and by
\* nothing else.
LEMMA NoOrphanNext ==
  TurnInv /\ TurnInv' /\ LeftSettled' /\ NoOrphanBehind /\ [Next]_vars => NoOrphanBehind'
  <1> SUFFICES ASSUME TurnInv, TurnInv', LeftSettled', NoOrphanBehind, [Next]_vars, DisturbedOnce',
                      NEW c \in Clients
               PROVE  /\ client'[c].at = "create" => \A t \in Turns : ~Orphan(t)'
                      /\ client'[c].at = "fail" => \A t \in Turns : Orphan(t)' => t = client'[c].turn
    BY DEF NoOrphanBehind
  <1>0. TypeOK /\ DisturbedOnce
    BY Monotone DEF TurnInv
  <1>1. ASSUME client'[c] = client[c], \A t \in Turns : Orphan(t)' => Orphan(t)
        PROVE  /\ client'[c].at = "create" => \A t \in Turns : ~Orphan(t)'
               /\ client'[c].at = "fail" => \A t \in Turns : Orphan(t)' => t = client'[c].turn
    BY <1>0, <1>1 DEF NoOrphanBehind
  <1>2. ASSUME NEW t \in Turns, RunnerStep(t)
        PROVE  client'[c] = client[c] /\ \A u \in Turns : Orphan(u)' => Orphan(u)
    <2>1. client' = client
      BY <1>2 DEF RunnerStep, ContextReady, Publish, EndOfStream, Flushed, StoreWrite, TitleDone, Fail,
           HandlerFault, Interrupt
    <2>2. pc[t] \in Running /\ \A u \in Turns : u # t => pc'[u] = pc[u]
      BY <1>0, <1>2, Awaits DEF RunnerStep, ContextReady, Publish, EndOfStream, Flushed, StoreWrite,
           TitleDone, Fail, HandlerFault, Interrupt, Goto, TypeOK, Live, CancelHandler, FailHandler
    <2>3. \A u \in Turns : u # t => status'[u] = status[u]
      <3>1. CASE StoreWrite(t)
        <4> DEFINE op == [at |-> pc[t], turn |-> t]
        <4>1. op \in WriteOps /\ Commit(op) /\ op.turn = t
          BY <3>1 DEF StoreWrite, WriteOps
        <4> HIDE DEF op
        <4> QED BY <1>0, <4>1, CommitEffect
      <3>2. CASE ~StoreWrite(t)
        BY <1>2, <3>2 DEF RunnerStep, ContextReady, Publish, EndOfStream, Flushed, TitleDone, Fail,
                        HandlerFault, Interrupt, store
      <3> QED BY <3>1, <3>2
    <2>4. pc'[t] \in Running \cup {"ended"}
      <3>1. pc'[t] \in {"none", "ended", "crashed"} \cup Running
        BY DEF TurnInv, TypeOK
      <3>2. pc'[t] # "none" /\ pc'[t] # "crashed"
        BY <1>0, <1>2, <2>2, Targets, Awaits
           DEF RunnerStep, ContextReady, Publish, EndOfStream, Flushed, StoreWrite, TitleDone, Fail,
               HandlerFault, Interrupt, Goto, TypeOK
      <3> QED BY <3>1, <3>2
    <2>5. ~Orphan(t)'
      BY <2>4 DEF LeftSettled, Orphan, Live
    <2>6. \A u \in Turns : u # t /\ Orphan(u)' => Orphan(u)
      BY <2>2, <2>3 DEF Orphan, Live
    <2> QED BY <2>1, <2>5, <2>6
  <1>3. ASSUME NEW op \in WriteOps, Land(op)
        PROVE  client'[c] = client[c] /\ \A u \in Turns : Orphan(u)' => Orphan(u)
    <2>1. Commit(op) /\ pc' = pc /\ client' = client /\ op.turn \in Turns
      BY <1>3 DEF Land, WriteOps
    <2>2. \A u \in Turns : status'[u] = "running" => status[u] = "running"
      BY <1>0, <2>1, CommitEffect DEF Terminal
    <2> QED BY <2>1, <2>2 DEF Orphan, Live
  <1>4. ASSUME NEW d \in Clients, ClientStep(d), d # c
        PROVE  client'[c] = client[c] /\ \A u \in Turns : Orphan(u)' => Orphan(u)
    <2>1. client'[c] = client[c]
      BY <1>0, <1>4 DEF ClientStep, StartTurn, FailOrphan, CreateTurn, Reject, Regenerate, PickUser,
           PickLast, DeleteAnswer, Restart, CancelReturns, Lookup, Mark, CancelLive, CancelStale,
           CheckActive, Recover, Step, TypeOK
    <2>2. \A u \in Turns : Orphan(u)' => Orphan(u)
      <3>1. CASE CreateTurn(d)
        <4>1. \A u \in Turns : (pc'[u] = pc[u] /\ status'[u] = status[u]) \/ pc'[u] = "context"
          BY <1>0, <3>1 DEF CreateTurn, Goto, SetStatus, TypeOK
        <4> QED BY <4>1, Awaits DEF Orphan, Live
      <3>2. CASE FailOrphan(d) \/ Mark(d)
        BY <1>0, <3>2 DEF FailOrphan, Mark, SetStatus, TypeOK, runner, Orphan, Live
      <3>3. CASE UNCHANGED <<status, pc>>
        BY <3>3 DEF Orphan, Live
      <3>4. CreateTurn(d) \/ FailOrphan(d) \/ Mark(d) \/ UNCHANGED <<status, pc>>
        BY <1>4 DEF ClientStep, StartTurn, Reject, Regenerate, PickUser, PickLast, DeleteAnswer,
               Restart, CancelReturns, Lookup, CancelLive, CancelStale, CheckActive, runner, store
      <3> QED BY <3>1, <3>2, <3>3, <3>4
    <2> QED BY <2>1, <2>2
  <1>5. ASSUME ClientStep(c)
        PROVE  /\ client'[c].at = "create" => \A t \in Turns : ~Orphan(t)'
               /\ client'[c].at = "fail" => \A t \in Turns : Orphan(t)' => t = client'[c].turn
    <2>1. CASE StartTurn(c) \/ Restart(c)
      <3>1. UNCHANGED <<status, pc>> /\ \E b \in BOOLEAN, v \in Nat : Recover(c, b, v)
        <4>1. client[c].victim \in Nat
          BY <1>0 DEF TypeOK
        <4> QED BY <2>1, <4>1 DEF StartTurn, Restart, store, runner
      <3>2. \A t \in Turns : Orphan(t)' <=> Orphan(t)
        BY <3>1 DEF Orphan, Live
      <3>3. PICK b \in BOOLEAN, v \in Nat : Recover(c, b, v)
        BY <3>1
      <3>4. CASE \A t \in Turns : ~Orphan(t)
        BY <3>2, <3>4
      <3>5. ASSUME NEW t \in Turns, Orphan(t),
                   Step(c, [at |-> "fail", turn |-> t, victim |-> v, regen |-> b])
            PROVE  /\ client'[c].at = "create" => \A u \in Turns : ~Orphan(u)'
                   /\ client'[c].at = "fail" => \A u \in Turns : Orphan(u)' => u = client'[c].turn
        <4>1. client'[c].at = "fail" /\ client'[c].turn = t
          BY <1>0, <3>5 DEF Step, TypeOK
        <4>2. \A u \in Turns : Orphan(u) => u = t
          BY <3>5 DEF TurnInv, OneRunningRow, RowsRunning, Orphan
        <4> QED BY <3>2, <4>1, <4>2
      <3> QED BY <3>3, <3>4, <3>5 DEF Recover
    <2>2. CASE FailOrphan(c)
      <3>1. /\ client[c].at = "fail" /\ status' = [status EXCEPT ![client[c].turn] = "failed"]
            /\ pc' = pc /\ client[c].turn \in Turns
        BY <2>2 DEF FailOrphan, SetStatus, runner, TurnInv, DecidedOnUnowned
      <3>2. client'[c].at = "create"
        BY <1>0, <2>2 DEF FailOrphan, Step, TypeOK
      <3>3. \A t \in Turns : Orphan(t) => t = client[c].turn
        BY <1>0, <3>1 DEF NoOrphanBehind
      <3>4. \A t \in Turns : ~Orphan(t)'
        BY <1>0, <3>1, <3>3 DEF Orphan, Live, TypeOK
      <3> QED BY <3>2, <3>4
    <2>3. CASE ~(StartTurn(c) \/ Restart(c) \/ FailOrphan(c))
      <3>1. \E r : Step(c, r) /\ r.at \notin {"create", "fail"}
        <4>0. client[c] \in Requests /\ Idle \in Requests /\ 0 \in 0 .. MaxTurns
          BY <1>0, IdleRequest, TurnAssumption DEF TypeOK, Requests
        <4>1. /\ Idle.at = "idle" /\ [Idle EXCEPT !.at = "pickUser"].at = "pickUser"
              /\ \A t : [Idle EXCEPT !.at = "await", !.turn = t].at = "await"
              /\ \A t : [Idle EXCEPT !.at = "lookup", !.turn = t].at = "lookup"
              /\ \A t : [Idle EXCEPT !.at = "mark", !.turn = t].at = "mark"
          BY DEF Idle
        <4>2. /\ [client[c] EXCEPT !.at = "pickLast"].at = "pickLast"
              /\ [client[c] EXCEPT !.at = "restart"].at = "restart"
              /\ [client[c] EXCEPT !.at = "mark"].at = "mark"
              /\ \A m \in TrailingAnswer :
                    [client[c] EXCEPT !.at = "delete", !.victim = m.id].at = "delete"
          BY <4>0 DEF Requests
        <4>3. CASE CreateTurn(c) \/ Reject(c) \/ CancelReturns(c) \/ Mark(c)
          BY <4>1, <4>3 DEF CreateTurn, Reject, CancelReturns, Mark
        <4>4. CASE Regenerate(c)
          BY <4>1, <4>4 DEF Regenerate
        <4>5. CASE PickUser(c)
          BY <4>1, <4>2, <4>5 DEF PickUser
        <4>6. CASE PickLast(c)
          BY <4>2, <4>6 DEF PickLast
        <4>7. CASE DeleteAnswer(c)
          BY <4>2, <4>7 DEF DeleteAnswer
        <4>8. CASE Lookup(c)
          BY <4>1, <4>2, <4>8 DEF Lookup
        <4>9. ASSUME NEW t \in Turns, CancelLive(c, t) \/ CancelStale(c, t) \/ CheckActive(c, t)
              PROVE  \E r : Step(c, r) /\ r.at \notin {"create", "fail"}
          BY <4>1, <4>9 DEF CancelLive, CancelStale, CheckActive
        <4> QED BY <1>5, <2>3, <4>3, <4>4, <4>5, <4>6, <4>7, <4>8, <4>9 DEF ClientStep
      <3>2. client'[c].at \notin {"create", "fail"}
        BY <1>0, <3>1 DEF Step, TypeOK
      <3> QED BY <3>2
    <2> QED BY <2>1, <2>2, <2>3
  <1>6. CASE Crash
    <2>1. client'[c] = Idle
      BY <1>6 DEF Crash
    <2> QED BY <2>1 DEF Idle
  <1>7. CASE UNCHANGED vars
    BY <1>1, <1>7 DEF vars, Orphan, Live
  <1> QED BY <1>1, <1>2, <1>3, <1>4, <1>5, <1>6, <1>7 DEF Next

LEMMA DisturbInit == Init => Counted /\ LeftSettled /\ NoOrphanBehind
  <1> SUFFICES ASSUME Init PROVE Counted /\ LeftSettled /\ NoOrphanBehind
    OBVIOUS
  <1>1. Counted
    BY DEF Init, Counted, Hit, CancelHandler, FailHandler
  <1>2. LeftSettled /\ NoOrphanBehind
    BY DEF Init, LeftSettled, NoOrphanBehind, Idle
  <1> QED BY <1>1, <1>2

LEMMA Disturbance == Spec => [](Counted /\ LeftSettled /\ NoOrphanBehind)
  <1>1. TurnInv /\ TurnInv' /\ Counted /\ LeftSettled /\ NoOrphanBehind /\ [Next]_vars
           => (Counted /\ LeftSettled /\ NoOrphanBehind)'
    BY CountedNext, SettledNext, NoOrphanNext
  <1> QED BY <1>1, DisturbInit, TurnInvariant, PTL DEF Spec

\* One cancellation or one exception, wherever it strikes and however often the
\* process restarts, leaves the row of an ended turn settled.
THEOREM TurnSettledIfDisturbedOnce == Spec => []SettledIfDisturbedOnce
  <1>1. LeftSettled => SettledIfDisturbedOnce
    BY DEF LeftSettled, SettledIfDisturbedOnce, EndedIsSettled
  <1> QED BY <1>1, Disturbance, PTL

\* After it, a new turn is refused only for the sake of a turn that is being
\* worked on: recovery has removed every stale row.
THEOREM TurnRefusedOnlyWhileLive == Spec => RefusedOnlyWhileLive
  <1>1. NoOrphanBehind =>
           [\A c \in Clients : Reject(c) /\ DisturbedOnce =>
               \E t \in Live : status[t] = "running"]_vars
    BY DEF NoOrphanBehind, Reject, SessionFree, RowsRunning, Orphan, Live
  <1> QED BY <1>1, Disturbance, PTL DEF RefusedOnlyWhileLive

----------------------------------------------------------------------------
(* The order of the conversation *)

\* Until somebody cancels, messages are written by the turn created last, and by
\* nothing that outlives its runner.
InOrder ==
    cancels = 0 =>
        /\ detached = {}
        /\ \A t \in Active : t = created
        /\ \A m \in messages : m.id =< lastId /\ m.turn =< created
        /\ \A m, n \in messages : m.id < n.id => m.turn =< n.turn

\* Who writes no message and starts no turn keeps the order.
LEMMA InOrderStays ==
  ASSUME InOrder, cancels' = cancels, created' = created, lastId' = lastId,
         detached' = detached, messages' \subseteq messages,
         \A t \in Turns : pc'[t] \in Streaming => pc[t] \in Streaming
  PROVE  InOrder'
  BY DEF InOrder, Active

LEMMA InOrderRunner ==
  ASSUME TurnInv, Counted, InOrder, NEW t \in Turns, RunnerStep(t)
  PROVE  InOrder'
  <1>0. TypeOK
    BY DEF TurnInv
  <1>1. CASE Interrupt(t)
    <2>1. cancels >= 1 /\ cancels' = cancels
      BY <1>1 DEF Interrupt, Counted, Hit, budget
    <2> QED BY <2>1 DEF InOrder
  <1>2. CASE StoreWrite(t)
    <2> DEFINE op == [at |-> pc[t], turn |-> t]
    <2>1. /\ Commit(op) /\ op.at = pc[t] /\ op.turn = t /\ pc[t] \in DOMAIN Writes
          /\ UNCHANGED <<created, detached, cancels>>
      BY <1>2 DEF StoreWrite, budget
    <2>2. \A u \in Turns : pc'[u] \in Streaming => pc[u] \in Streaming
      <3>1. pc'[t] = After(t) /\ \A u \in Turns : u # t => pc'[u] = pc[u]
        BY <1>0, <1>2 DEF StoreWrite, Goto, TypeOK
      <3>2. After(t) \in Streaming => pc[t] \in Streaming
        BY Awaits DEF After
      <3> QED BY <3>1, <3>2
    <2>3. CASE Writes[pc[t]] \notin Roles
      BY <2>1, <2>2, <2>3, InOrderStays DEF Commit
    <2>4. CASE Writes[pc[t]] \in Roles
      <3> SUFFICES ASSUME cancels = 0 PROVE InOrder'
        BY <2>1 DEF InOrder
      <3>1. pc[t] \in {"addUser", "addAnswer"}
        <4>1. pc[t] \notin CancelHandler
          BY <1>0, BudgetNumbers DEF Counted, Hit
        <4> QED BY <2>1, <2>4, <4>1, Awaits DEF Writes, Roles, CancelHandler
      <3>2. t = created
        BY <3>1, Awaits DEF InOrder, Active
      <3> DEFINE new == [id |-> lastId + 1, role |-> Writes[pc[t]], turn |-> t]
      <3>3. messages' = messages \cup {new} /\ lastId' = lastId + 1
        BY <2>1, <2>4 DEF Commit, AddMessage
      <3>4. lastId \in Nat /\ t \in Nat /\ new.id = lastId + 1 /\ new.turn = t
        BY <1>0 DEF TypeOK, Turns
      <3>5. \A m \in messages : m.id \in Nat /\ m.turn \in Nat /\ m.id =< lastId /\ m.turn =< t
        BY <1>0, <3>2 DEF TypeOK, InOrder, Turns
      <3> HIDE DEF new
      <3>6. \A m \in messages' : m.id =< lastId' /\ m.turn =< created'
        BY <2>1, <3>2, <3>3, <3>4, <3>5
      <3>7. \A m, n \in messages' : m.id < n.id => m.turn =< n.turn
        <4>1. \A m, n \in messages : m.id < n.id => m.turn =< n.turn
          BY DEF InOrder
        <4> QED BY <3>3, <3>4, <3>5, <4>1
      <3>8. detached' = {} /\ \A u \in Active' : u = created'
        BY <2>1, <2>2 DEF InOrder, Active
      <3> QED BY <3>6, <3>7, <3>8 DEF InOrder
    <2> QED BY <2>3, <2>4
  <1>3. CASE ~Interrupt(t) /\ ~StoreWrite(t)
    <2>1. UNCHANGED <<created, store, detached, cancels>>
      BY <1>3 DEF RunnerStep, ContextReady, Publish, EndOfStream, Flushed, TitleDone, Fail,
                  HandlerFault, budget
    <2>2. \A u \in Turns : u # t => pc'[u] = pc[u]
      BY <1>0, <1>3 DEF RunnerStep, ContextReady, Publish, EndOfStream, Flushed, TitleDone, Fail,
                  HandlerFault, Goto, TypeOK
    <2>3. pc'[t] \in Streaming => pc[t] \in Streaming
      BY <1>0, <1>3, Targets, Awaits
         DEF RunnerStep, ContextReady, Publish, EndOfStream, Flushed, TitleDone, Fail, HandlerFault,
             Goto, TypeOK, After, CancelHandler, FailHandler
    <2> QED BY <2>1, <2>2, <2>3, InOrderStays DEF store
  <1> QED BY <1>1, <1>2, <1>3

LEMMA InOrderClient ==
  ASSUME TurnInv, InOrder, NEW c \in Clients, ClientStep(c)
  PROVE  InOrder'
  <1>0. TypeOK
    BY DEF TurnInv
  <1>1. CASE CreateTurn(c)
    <2>1. /\ created' = created + 1 /\ pc' = [pc EXCEPT ![created + 1] = "context"]
          /\ UNCHANGED <<messages, lastId, detached, cancels>> /\ RowsRunning = {}
      BY <1>1 DEF CreateTurn, Goto, budget, SessionFree
    <2>2. Active = {}
      BY <2>1 DEF TurnInv, ActiveRowRunning, RowsRunning, Active
    <2>3. \A t \in Active' : t = created'
      BY <1>0, <2>1, <2>2 DEF Active, TypeOK
    <2>4. created \in Nat /\ \A m \in messages : m.turn \in Nat
      BY <1>0, TurnAssumption DEF TypeOK, Turns
    <2>5. \A m \in messages : m.turn =< created => m.turn =< created'
      BY <2>1, <2>4
    <2> QED BY <2>1, <2>3, <2>5 DEF InOrder
  <1>2. ASSUME NEW t \in Turns, CancelLive(c, t) PROVE InOrder'
    <2>1. cancels \in Nat /\ cancels' = cancels + 1
      BY <1>0, <1>2, BudgetNumbers DEF CancelLive
    <2> QED BY <2>1 DEF InOrder
  <1>3. CASE UNCHANGED <<created, lastId, pc, detached, cancels>> /\ messages' \subseteq messages
    BY <1>3, InOrderStays
  <1>4. \/ CreateTurn(c) \/ \E t \in Turns : CancelLive(c, t)
        \/ UNCHANGED <<created, lastId, pc, detached, cancels>> /\ messages' \subseteq messages
    BY DEF ClientStep, StartTurn, FailOrphan, Reject, Regenerate, PickUser, PickLast, DeleteAnswer,
           Restart, CancelReturns, Lookup, Mark, CancelStale, CheckActive, runner, store, budget
  <1> QED BY <1>1, <1>2, <1>3, <1>4

LEMMA InOrderNext == TurnInv /\ Counted /\ InOrder /\ [Next]_vars => InOrder'
  <1> SUFFICES ASSUME TurnInv, Counted, InOrder, [Next]_vars PROVE InOrder'
    OBVIOUS
  <1>1. ASSUME NEW op \in WriteOps, Land(op) PROVE InOrder'
    BY <1>1 DEF Land, InOrder, budget
  <1>2. CASE Crash
    <2>1. /\ detached' = {} /\ UNCHANGED <<created, messages, lastId, cancels>>
          /\ \A t \in Turns : pc'[t] \notin Streaming
      BY <1>2, Awaits DEF Crash, Live, store
    <2> QED BY <2>1 DEF InOrder, Active
  <1>3. CASE UNCHANGED vars
    BY <1>3, InOrderStays DEF vars, store, runner, budget
  <1> QED BY <1>1, <1>2, <1>3, InOrderRunner, InOrderClient DEF Next

\* However turns are started, regenerated, failed and restarted, a message is
\* stored after those of earlier turns as long as nobody cancels.
THEOREM TurnConversationOrder == Spec => []ConversationOrder
  <1>1. Init => InOrder
    BY DEF Init, InOrder, Active, Streaming
  <1>2. TurnInv /\ TurnInv' /\ Counted /\ InOrder /\ [Next]_vars => InOrder'
    BY InOrderNext
  <1>3. InOrder => ConversationOrder
    BY DEF InOrder, ConversationOrder
  <1> QED BY <1>1, <1>2, <1>3, TurnInvariant, Disturbance, PTL DEF Spec

----------------------------------------------------------------------------
(* A completed turn keeps its row *)

AtMostOne == cancels + faults =< 1

\* The row is running until the handler of the exception has written it.
FailingRuns == \A t \in Turns : pc[t] \in FailHandler => status[t] = "running"

\* Whose write of "completed" is still on its way is being cancelled or has been,
\* and no recovery has decided on its row.
LateComplete ==
    \A op \in detached : op.at = "complete" =>
        /\ pc[op.turn] \in CancelHandler \/ (pc[op.turn] = "ended" /\ status[op.turn] # "running")
        /\ \A c \in Clients : client[c].at \in {"fail", "mark"} => client[c].turn # op.turn

\* Whose write of "failed" is on its way has neither completed nor will.
LateFailed ==
    \A op \in detached : op.at = "fStatus" =>
        /\ pc[op.turn] = "ended" /\ status[op.turn] # "completed"
        /\ \A o \in detached : o.turn = op.turn => o.at # "complete"

NoLateCancel == \A op \in detached : op.at # "cStatus"

\* Nobody is about to write over a completed row.
Undecided ==
    \A c \in Clients :
        client[c].at \in {"fail", "mark"} => status[client[c].turn] # "completed"

KeptParts == FailingRuns /\ LateComplete /\ LateFailed /\ NoLateCancel /\ Undecided

Kept == AtMostOne => KeptParts

\* The only disturbance does not reach the handler of a cancellation.
LEMMA HandlerAlone ==
  ASSUME TurnInv, Counted, AtMostOne, NEW t \in Turns
  PROVE  /\ t \in cancelling => pc[t] \notin CancelHandler
         /\ pc[t] \in CancelHandler => cancels = 1 /\ faults = 0
  <1>1. cancels \in Nat /\ faults \in Nat /\ cancels + faults =< 1
    BY BudgetNumbers DEF TurnInv, AtMostOne
  <1>2. /\ t \in cancelling /\ pc[t] \in CancelHandler => cancels >= 2
        /\ pc[t] \in CancelHandler => cancels >= 1
    BY DEF Counted, Hit
  <1> QED BY <1>1, <1>2

\* A live runner is named by no request that is about to write.
LEMMA NotNamed ==
  ASSUME TurnInv, NEW t \in Live, NEW c \in Clients, client[c].at \in {"fail", "mark"}
  PROVE  client[c].turn # t
  BY DEF TurnInv, DecidedOnUnowned

\* A runner whose step writes no row and leaves no write behind.
LEMMA KeptQuiet ==
  ASSUME TurnInv, KeptParts, NEW t \in Live,
         UNCHANGED <<status, detached, client>>,
         \A u \in Turns : u # t => pc'[u] = pc[u],
         pc'[t] \in FailHandler => pc[t] \in FailHandler \cup Streaming,
         pc[t] \in CancelHandler => pc'[t] \in CancelHandler
  PROVE  KeptParts'
  <1>0. t \in Turns /\ pc[t] # "ended" /\ \A op \in detached : op.turn \in Turns
    BY Awaits DEF Live, Running, TurnInv, TypeOK, WriteOps, CancelHandler, FailHandler
  <1>1. FailingRuns'
    BY <1>0 DEF KeptParts, FailingRuns, TurnInv, ActiveRowRunning, Active
  <1>2. LateComplete'
    BY <1>0 DEF KeptParts, LateComplete
  <1>3. LateFailed'
    BY <1>0 DEF KeptParts, LateFailed
  <1>4. NoLateCancel' /\ Undecided'
    BY DEF KeptParts, NoLateCancel, Undecided
  <1> QED BY <1>1, <1>2, <1>3, <1>4 DEF KeptParts

LEMMA KeptStoreWrite ==
  ASSUME TurnInv, KeptParts, NEW t \in Turns, StoreWrite(t)
  PROVE  KeptParts'
  <1> DEFINE op == [at |-> pc[t], turn |-> t]
  <1>0. TypeOK
    BY DEF TurnInv
  <1>1. op \in WriteOps /\ Commit(op) /\ op.turn = t /\ op.at = pc[t]
    BY DEF StoreWrite, WriteOps
  <1>2. /\ \A u \in Turns : t # u => status'[u] = status[u]
        /\ status'[t] = IF Writes[pc[t]] \in Roles THEN status[t] ELSE Writes[pc[t]]
    <2> HIDE DEF op
    <2> QED BY <1>0, <1>1, CommitEffect
  <1>3. /\ pc[t] \in DOMAIN Writes /\ pc'[t] = After(t) /\ \A u \in Turns : u # t => pc'[u] = pc[u]
        /\ UNCHANGED <<detached, client>>
    BY <1>0 DEF StoreWrite, Goto, TypeOK
  <1>4. pc[t] \in {"addUser", "addAnswer", "cSave", "complete", "cStatus", "fStatus"} /\ t \in Live
    BY <1>3, Awaits DEF Live
  <1>5. \A o \in detached : o.turn \in Turns
    BY <1>0 DEF TypeOK, WriteOps
  <1>6. FailingRuns'
    <2>1. pc'[t] \notin FailHandler
      BY <1>3, <1>4 DEF After, FailHandler
    <2> QED BY <1>2, <1>3, <2>1 DEF KeptParts, FailingRuns
  <1>7. LateComplete'
    <2>1. pc[t] \in CancelHandler =>
            pc'[t] \in CancelHandler \/ (pc'[t] = "ended" /\ status'[t] # "running")
      BY <1>2, <1>3, <1>4 DEF CancelHandler, After, Writes, Roles
    <2>2. pc[t] # "ended"
      BY <1>4
    <2> QED BY <1>2, <1>3, <1>5, <2>1, <2>2 DEF KeptParts, LateComplete
  <1>8. LateFailed'
    <2>1. pc[t] # "ended"
      BY <1>4
    <2> QED BY <1>2, <1>3, <1>5, <2>1 DEF KeptParts, LateFailed
  <1>9. NoLateCancel'
    BY <1>3 DEF KeptParts, NoLateCancel
  <1>10. Undecided'
    <2> SUFFICES ASSUME NEW c \in Clients, client[c].at \in {"fail", "mark"}
                 PROVE  status'[client[c].turn] # "completed"
      BY <1>3 DEF Undecided
    <2>1. client[c].turn \in Turns /\ client[c].turn # t
      BY <1>4, NotNamed DEF TurnInv, DecidedOnUnowned
    <2> QED BY <1>2, <2>1 DEF KeptParts, Undecided
  <1> QED BY <1>6, <1>7, <1>8, <1>9, <1>10 DEF KeptParts

LEMMA KeptInterrupt ==
  ASSUME TurnInv, Counted, AtMostOne, KeptParts, NEW t \in Turns, Interrupt(t)
  PROVE  KeptParts'
  <1> DEFINE new == [at |-> pc[t], turn |-> t]
  <1>0. TypeOK
    BY DEF TurnInv
  <1>1. /\ t \in Live /\ pc[t] \notin CancelHandler /\ pc'[t] = Caught(t)
        /\ \A u \in Turns : u # t => pc'[u] = pc[u]
        /\ UNCHANGED <<status, client>>
    BY <1>0, HandlerAlone DEF Interrupt, Goto, TypeOK, store
  <1>2. detached' \subseteq detached \cup {new}
    BY DEF Interrupt
  <1>3. /\ pc'[t] \in CancelHandler \cup {"ended"}
        /\ pc[t] = "complete" => pc'[t] \in CancelHandler
        /\ pc[t] = "fStatus" => pc'[t] = "ended"
    BY <1>0, <1>1, Targets, Awaits DEF Caught, CancelHandler
  <1>4. pc[t] # "ended" /\ \A o \in detached : o.turn \in Turns
    BY <1>0, <1>1, Awaits DEF Live, TypeOK, WriteOps
  <1>5. \A o \in detached : o.at \in {"complete", "fStatus"} => o.turn # t
    BY <1>1, <1>4 DEF KeptParts, LateComplete, LateFailed
  <1>6. new.at = pc[t] /\ new.turn = t
    OBVIOUS
  <1> HIDE DEF new
  <1>7. FailingRuns'
    <2>1. pc'[t] \notin FailHandler
      BY <1>3 DEF CancelHandler, FailHandler
    <2> QED BY <1>1, <2>1 DEF KeptParts, FailingRuns
  <1>8. LateComplete'
    <2>1. ASSUME NEW o \in detached, o.at = "complete"
          PROVE  /\ pc'[o.turn] \in CancelHandler \/ (pc'[o.turn] = "ended" /\ status'[o.turn] # "running")
                 /\ \A c \in Clients : client'[c].at \in {"fail", "mark"} => client'[c].turn # o.turn
      BY <1>1, <1>4, <1>5, <2>1 DEF KeptParts, LateComplete
    <2>2. ASSUME new.at = "complete"
          PROVE  /\ pc'[new.turn] \in CancelHandler
                 /\ \A c \in Clients : client'[c].at \in {"fail", "mark"} => client'[c].turn # new.turn
      BY <1>1, <1>3, <1>6, <2>2, NotNamed
    <2> QED BY <1>2, <2>1, <2>2 DEF LateComplete
  <1>9. LateFailed'
    <2>1. ASSUME NEW o \in detached, o.at = "fStatus"
          PROVE  pc'[o.turn] = "ended" /\ status'[o.turn] # "completed"
      BY <1>1, <1>4, <1>5, <2>1 DEF KeptParts, LateFailed
    <2>2. ASSUME new.at = "fStatus"
          PROVE  pc'[new.turn] = "ended" /\ status'[new.turn] # "completed"
      BY <1>1, <1>3, <1>6, <2>2 DEF KeptParts, FailingRuns, FailHandler
    <2>3. ASSUME NEW o \in detached', o.at = "fStatus", NEW p \in detached', p.turn = o.turn
          PROVE  p.at # "complete"
      BY <1>2, <1>5, <1>6, <2>3 DEF KeptParts, LateFailed
    <2> QED BY <1>2, <2>1, <2>2, <2>3 DEF LateFailed
  <1>10. NoLateCancel'
    BY <1>1, <1>2, <1>6 DEF KeptParts, NoLateCancel, CancelHandler
  <1>11. Undecided'
    BY <1>1 DEF KeptParts, Undecided
  <1> QED BY <1>7, <1>8, <1>9, <1>10, <1>11 DEF KeptParts

LEMMA KeptRunner ==
  ASSUME TurnInv, TurnInv', Counted, AtMostOne, AtMostOne', KeptParts, NEW t \in Turns, RunnerStep(t)
  PROVE  KeptParts'
  <1>0. TypeOK
    BY DEF TurnInv
  <1>1. CASE HandlerFault(t)
    <2>1. faults' = faults + 1 /\ cancels' = cancels /\ cancels \in Nat /\ faults \in Nat
          /\ cancels' + faults' =< 1
      BY <1>0, <1>1, BudgetNumbers DEF HandlerFault, AtMostOne
    <2>2. pc[t] \in FailHandler
      BY <1>1, <2>1, HandlerAlone DEF HandlerFault
    <2>3. /\ t \in Live /\ UNCHANGED <<status, detached, client>>
          /\ \A u \in Turns : u # t => pc'[u] = pc[u]
      BY <1>0, <1>1, <2>2 DEF HandlerFault, Goto, TypeOK, Live, Running, store
    <2>4. pc[t] \notin CancelHandler
      BY <2>2 DEF CancelHandler, FailHandler
    <2> QED BY <2>2, <2>3, <2>4, KeptQuiet
  <1>2. CASE ContextReady(t) \/ Publish(t) \/ EndOfStream(t) \/ Flushed(t) \/ TitleDone(t) \/ Fail(t)
    <2>1. /\ t \in Live /\ UNCHANGED <<status, detached, client>>
          /\ \A u \in Turns : u # t => pc'[u] = pc[u]
      BY <1>0, <1>2, Awaits DEF ContextReady, Publish, EndOfStream, Flushed, TitleDone, Fail, Goto, TypeOK,
             Live, store
    <2>2. /\ pc'[t] \in FailHandler => pc[t] \in FailHandler \cup Streaming
          /\ pc[t] \in CancelHandler => pc'[t] \in CancelHandler
      BY <1>0, <1>2, Targets, Awaits DEF ContextReady, Publish, EndOfStream, Flushed, TitleDone, Fail, Goto,
             TypeOK, CancelHandler, FailHandler
    <2> QED BY <2>1, <2>2, KeptQuiet
  <1> QED BY <1>1, <1>2, KeptStoreWrite, KeptInterrupt DEF RunnerStep

LEMMA KeptLand ==
  ASSUME TurnInv, KeptParts, NEW op \in WriteOps, Land(op)
  PROVE  KeptParts'
  <1>0. TypeOK
    BY DEF TurnInv
  <1>1. /\ op \in detached /\ op.turn \in Turns /\ Commit(op)
        /\ detached' = detached \ {op} /\ UNCHANGED <<pc, client>>
    BY DEF Land, WriteOps
  <1>2. /\ \A u \in Turns : u # op.turn => status'[u] = status[u]
        /\ status'[op.turn] = IF Writes[op.at] \in Roles THEN status[op.turn] ELSE Writes[op.at]
    BY <1>0, <1>1, CommitEffect
  <1>3. \A o \in detached : o.turn \in Turns
    BY <1>0 DEF TypeOK, WriteOps
  <1>4. CASE Writes[op.at] \in Roles
    <2>1. status' = status
      BY <1>1, <1>4 DEF Commit
    <2> QED BY <1>1, <2>1 DEF KeptParts, FailingRuns, LateComplete, LateFailed, NoLateCancel, Undecided
  <1>5. CASE op.at = "complete"
    <2>1. /\ status'[op.turn] = "completed" /\ pc[op.turn] \notin FailHandler
          /\ \A o \in detached : o.at = "fStatus" => o.turn # op.turn
          /\ \A c \in Clients : client[c].at \in {"fail", "mark"} => client[c].turn # op.turn
      BY <1>1, <1>2, <1>5
         DEF KeptParts, LateComplete, LateFailed, Writes, Roles, CancelHandler, FailHandler
    <2>2. \A c \in Clients : client[c].at \in {"fail", "mark"} => client[c].turn \in Turns
      BY DEF TurnInv, DecidedOnUnowned
    <2>3. FailingRuns' /\ LateComplete'
      BY <1>1, <1>2, <1>3, <2>1 DEF KeptParts, FailingRuns, LateComplete
    <2>4. LateFailed' /\ NoLateCancel'
      BY <1>1, <1>2, <1>3, <2>1 DEF KeptParts, LateFailed, NoLateCancel
    <2>5. Undecided'
      <3> SUFFICES ASSUME NEW c \in Clients, client[c].at \in {"fail", "mark"}
                   PROVE  status'[client[c].turn] # "completed"
        BY <1>1 DEF Undecided
      <3>1. client[c].turn \in Turns /\ client[c].turn # op.turn
        BY <2>1, <2>2
      <3>2. status[client[c].turn] # "completed"
        BY DEF KeptParts, Undecided
      <3> QED BY <1>2, <3>1, <3>2
    <2> QED BY <2>3, <2>4, <2>5 DEF KeptParts
  <1>6. CASE op.at = "fStatus"
    <2>1. status'[op.turn] = "failed" /\ pc[op.turn] \notin FailHandler
      BY <1>1, <1>2, <1>6 DEF KeptParts, LateFailed, Writes, Roles, FailHandler
    <2>2. \A c \in Clients : client[c].at \in {"fail", "mark"} => client[c].turn \in Turns
      BY DEF TurnInv, DecidedOnUnowned
    <2>3. FailingRuns' /\ LateComplete'
      BY <1>1, <1>2, <1>3, <2>1 DEF KeptParts, FailingRuns, LateComplete
    <2>4. LateFailed' /\ NoLateCancel'
      BY <1>1, <1>2, <1>3, <2>1 DEF KeptParts, LateFailed, NoLateCancel
    <2>5. Undecided'
      BY <1>1, <1>2, <2>1, <2>2 DEF KeptParts, Undecided
    <2> QED BY <2>3, <2>4, <2>5 DEF KeptParts
  <1>7. Writes[op.at] \in Roles \/ op.at \in {"complete", "fStatus"}
    <2>1. op.at \in DOMAIN Writes /\ op.at # "cStatus"
      BY <1>1 DEF WriteOps, KeptParts, NoLateCancel
    <2> QED BY <2>1, Awaits DEF Writes, Roles
  <1> QED BY <1>4, <1>5, <1>6, <1>7

\* A request decides on a row that says running at that moment.
LEMMA DecidedOnRunning ==
  ASSUME TurnInv, NEW c \in Clients, ClientStep(c), client'[c].at \in {"fail", "mark"}
  PROVE  status[client'[c].turn] = "running" /\ UNCHANGED <<status, pc, detached>>
  <1>0. TypeOK /\ client[c] \in Requests /\ Idle \in Requests /\ 0 \in 0 .. MaxTurns
    BY IdleRequest, TurnAssumption DEF TurnInv, TypeOK, Requests
  <1>1. /\ Idle.at = "idle" /\ [Idle EXCEPT !.at = "pickUser"].at = "pickUser"
        /\ \A t : [Idle EXCEPT !.at = "await", !.turn = t].at = "await"
        /\ \A t : [Idle EXCEPT !.at = "lookup", !.turn = t].at = "lookup"
        /\ \A t : [Idle EXCEPT !.at = "mark", !.turn = t].turn = t
    BY DEF Idle
  <1>2. /\ [client[c] EXCEPT !.at = "pickLast"].at = "pickLast"
        /\ [client[c] EXCEPT !.at = "restart"].at = "restart"
        /\ [client[c] EXCEPT !.at = "create", !.turn = 0].at = "create"
        /\ [client[c] EXCEPT !.at = "mark"].turn = client[c].turn
        /\ \A m \in TrailingAnswer : [client[c] EXCEPT !.at = "delete", !.victim = m.id].at = "delete"
    BY <1>0 DEF Requests
  <1>3. \A r : Step(c, r) => client'[c] = r
    BY <1>0 DEF Step, TypeOK
  <1>4. CASE StartTurn(c) \/ Restart(c)
    <2>1. /\ UNCHANGED <<status, pc, detached>>
          /\ \E t \in Turns : \E v, b :
                Orphan(t) /\ Step(c, [at |-> "fail", turn |-> t, victim |-> v, regen |-> b])
      <3>1. \A v, b : [at |-> "create", turn |-> 0, victim |-> v, regen |-> b].at = "create"
        OBVIOUS
      <3> QED BY <1>3, <1>4, <3>1 DEF StartTurn, Restart, Recover, store, runner
    <2> QED BY <1>3, <2>1 DEF Orphan
  <1>5. CASE Lookup(c)
    <2>1. status[client[c].turn] = "running" /\ Step(c, [client[c] EXCEPT !.at = "mark"])
      <3>1. CASE Step(c, Idle)
        BY <1>1, <1>3, <3>1
      <3> QED BY <1>5, <3>1 DEF Lookup
    <2>2. client'[c].turn = client[c].turn
      BY <1>2, <1>3, <2>1
    <2> QED BY <1>5, <2>1, <2>2 DEF Lookup, store, runner
  <1>6. ASSUME NEW t \in Turns, CheckActive(c, t)
        PROVE  status[client'[c].turn] = "running" /\ UNCHANGED <<status, pc, detached>>
    <2>1. client'[c].turn = t
      <3>1. Step(c, [Idle EXCEPT !.at = "mark", !.turn = t])
        BY <1>6 DEF CheckActive
      <3>2. [Idle EXCEPT !.at = "mark", !.turn = t].turn = t
        BY <1>1
      <3> QED BY <1>3, <3>1, <3>2
    <2> QED BY <1>6, <2>1 DEF CheckActive, Orphan, store, runner
  <1>7. ~(CreateTurn(c) \/ Reject(c) \/ CancelReturns(c) \/ Mark(c) \/ Regenerate(c) \/ FailOrphan(c))
    BY <1>1, <1>2, <1>3 DEF CreateTurn, Reject, CancelReturns, Mark, Regenerate, FailOrphan
  <1>8. ~(PickUser(c) \/ PickLast(c) \/ DeleteAnswer(c))
    BY <1>1, <1>2, <1>3 DEF PickUser, PickLast, DeleteAnswer
  <1>9. \A t \in Turns : ~(CancelLive(c, t) \/ CancelStale(c, t))
    BY <1>1, <1>3 DEF CancelLive, CancelStale
  <1> QED BY <1>4, <1>5, <1>6, <1>7, <1>8, <1>9 DEF ClientStep

LEMMA KeptClient ==
  ASSUME TurnInv, TurnInv', KeptParts, NEW c \in Clients, ClientStep(c)
  PROVE  KeptParts'
  <1>0. TypeOK /\ \A o \in detached : o.turn \in Turns /\ o.turn =< created
    BY DEF TurnInv, TypeOK, WriteOps, DetachedIsLate
  <1>1. \A d \in Clients : client[d].at \in {"fail", "mark"} =>
          client[d].turn \in Turns /\ client[d].turn =< created /\ client[d].turn \notin Live
    BY DEF TurnInv, DecidedOnUnowned
  <1>2. detached' = detached /\ \A d \in Clients : d # c => client'[d] = client[d]
    BY <1>0 DEF ClientStep, StartTurn, FailOrphan, CreateTurn, Reject, Regenerate, PickUser,
         PickLast, DeleteAnswer, Restart, CancelReturns, Lookup, Mark, CancelLive, CancelStale,
         CheckActive, Recover, Step, TypeOK, runner
  <1>3. CASE client'[c].at \in {"fail", "mark"}
    <2>1. status[client'[c].turn] = "running" /\ UNCHANGED <<status, pc>>
      BY <1>3, DecidedOnRunning
    <2>2. client'[c].turn \in Turns /\ client'[c].turn \notin Live
      BY <1>3, <2>1 DEF TurnInv, DecidedOnUnowned, Live
    <2>3. pc[client'[c].turn] \notin CancelHandler
      BY <2>2 DEF Live, Running
    <2>4. LateComplete'
      BY <1>2, <2>1, <2>3 DEF KeptParts, LateComplete
    <2> QED BY <1>2, <2>1, <2>4 DEF KeptParts, FailingRuns, LateFailed, NoLateCancel, Undecided
  <1>4. CASE client'[c].at \notin {"fail", "mark"}
    <2>1. CASE UNCHANGED <<status, pc>>
      BY <1>2, <1>4, <2>1 DEF KeptParts, FailingRuns, LateComplete, LateFailed, NoLateCancel, Undecided
    <2>2. CASE CreateTurn(c)
      <3>1. created \in Nat /\ created + 1 \in Turns
            /\ status' = [status EXCEPT ![created + 1] = "running"]
            /\ pc' = [pc EXCEPT ![created + 1] = "context"]
        BY <1>0, <2>2, TurnAssumption DEF CreateTurn, SetStatus, Goto, Turns, TypeOK
      <3>2. \A u \in Turns : u =< created => status'[u] = status[u] /\ pc'[u] = pc[u]
        BY <1>0, <3>1 DEF TypeOK
      <3>3. FailingRuns'
        BY <1>0, <3>1 DEF KeptParts, FailingRuns, FailHandler, TypeOK
      <3>4. LateComplete' /\ LateFailed' /\ NoLateCancel' /\ Undecided'
        BY <1>0, <1>1, <1>2, <1>4, <3>2 DEF KeptParts, LateComplete, LateFailed, NoLateCancel, Undecided
      <3> QED BY <3>3, <3>4 DEF KeptParts
    <2>3. CASE FailOrphan(c) \/ Mark(c)
      <3>1. /\ client[c].at \in {"fail", "mark"} /\ pc' = pc
            /\ \A u \in Turns : status'[u] = status[u]
                                \/ (u = client[c].turn /\ status'[u] \in {"failed", "cancelled"})
        BY <1>0, <1>1, <2>3 DEF FailOrphan, Mark, SetStatus, runner, TypeOK
      <3>2. FailingRuns'
        <4>1. pc[client[c].turn] \notin FailHandler
          BY <1>1, <3>1 DEF Live, Running
        <4> QED BY <3>1, <4>1 DEF KeptParts, FailingRuns
      <3>3. LateComplete'
        BY <1>0, <1>2, <1>4, <3>1 DEF KeptParts, LateComplete
      <3>4. LateFailed' /\ NoLateCancel' /\ Undecided'
        BY <1>0, <1>1, <1>2, <1>4, <3>1 DEF KeptParts, LateFailed, NoLateCancel, Undecided
      <3> QED BY <3>2, <3>3, <3>4 DEF KeptParts
    <2>4. CreateTurn(c) \/ FailOrphan(c) \/ Mark(c) \/ UNCHANGED <<status, pc>>
      BY DEF ClientStep, StartTurn, Reject, Regenerate, PickUser, PickLast, DeleteAnswer,
             Restart, CancelReturns, Lookup, CancelLive, CancelStale, CheckActive, runner, store
    <2> QED BY <2>1, <2>2, <2>3, <2>4
  <1> QED BY <1>3, <1>4

LEMMA KeptNext == TurnInv /\ TurnInv' /\ Counted /\ Kept /\ [Next]_vars => Kept'
  <1> SUFFICES ASSUME TurnInv, TurnInv', Counted, Kept, [Next]_vars, AtMostOne'
               PROVE  KeptParts'
    BY DEF Kept
  <1>0. AtMostOne /\ KeptParts
    <2>1. cancels' + faults' =< 1
      BY DEF AtMostOne
    <2>2. cancels + faults =< 1
      BY <2>1, BudgetGrows
    <2> QED BY <2>2 DEF AtMostOne, Kept
  <1>1. CASE Crash
    <2>1. /\ detached' = {} /\ \A t \in Turns : pc'[t] \notin FailHandler
          /\ \A c \in Clients : client'[c].at = "idle"
      BY <1>1, Awaits DEF Crash, Live, Running, FailHandler, Idle
    <2> QED BY <2>1 DEF KeptParts, FailingRuns, LateComplete, LateFailed, NoLateCancel, Undecided
  <1>2. CASE UNCHANGED vars
    <2>1. UNCHANGED <<status, pc, detached, client>>
      BY <1>2 DEF vars
    <2> QED BY <1>0, <2>1
         DEF KeptParts, FailingRuns, LateComplete, LateFailed, NoLateCancel, Undecided
  <1> QED BY <1>0, <1>1, <1>2, KeptRunner, KeptLand, KeptClient DEF Next

\* What a step may do to a completed row.
LEMMA KeptStep ==
  ASSUME TurnInv, Kept, AtMostOne, [Next]_vars, NEW t \in Turns,
         status[t] = "completed", status'[t] # "completed"
  PROVE  pc[t] = "cStatus" /\ status'[t] = "cancelled"
  <1>0. TypeOK /\ KeptParts
    BY DEF TurnInv, Kept
  <1>1. ASSUME NEW u \in Turns, RunnerStep(u)
        PROVE  pc[t] = "cStatus" /\ status'[t] = "cancelled"
    <2>1. CASE StoreWrite(u)
      <3> DEFINE op == [at |-> pc[u], turn |-> u]
      <3>1. op \in WriteOps /\ Commit(op) /\ op.turn = u /\ op.at = pc[u] /\ pc[u] \in DOMAIN Writes
        BY <2>1 DEF StoreWrite, WriteOps
      <3>2. u = t /\ status'[t] = Writes[pc[t]] /\ Writes[pc[t]] \notin Roles
        <4> HIDE DEF op
        <4> QED BY <1>0, <3>1, CommitEffect
      <3>3. pc[t] # "fStatus"
        BY <1>0 DEF KeptParts, FailingRuns, FailHandler
      <3> QED BY <3>1, <3>2, <3>3, Awaits DEF Writes, Roles
    <2>2. CASE ~StoreWrite(u)
      BY <1>1, <2>2 DEF RunnerStep, ContextReady, Publish, EndOfStream, Flushed, TitleDone, Fail,
                        HandlerFault, Interrupt, store
    <2> QED BY <2>1, <2>2
  <1>2. ASSUME NEW op \in WriteOps, Land(op) PROVE FALSE
    <2>1. op \in detached /\ Commit(op) /\ op.at \in DOMAIN Writes
      BY <1>2 DEF Land, WriteOps
    <2>2. op.turn = t /\ status'[t] = Writes[op.at] /\ Writes[op.at] \notin Roles
      BY <1>0, <2>1, CommitEffect
    <2>3. op.at # "fStatus" /\ op.at # "cStatus"
      BY <1>0, <2>1, <2>2 DEF KeptParts, LateFailed, NoLateCancel
    <2> QED BY <2>1, <2>2, <2>3, Awaits DEF Writes, Roles
  <1>3. ASSUME NEW c \in Clients, ClientStep(c) PROVE FALSE
    <2>1. CASE CreateTurn(c)
      <3>1. status[created + 1] = "none" /\ status' = [status EXCEPT ![created + 1] = "running"]
        BY <1>0, <2>1, TurnAssumption DEF CreateTurn, SetStatus, TurnInv, Numbered, Turns, TypeOK
      <3> QED BY <1>0, <3>1 DEF TypeOK
    <2>2. CASE FailOrphan(c) \/ Mark(c)
      BY <1>0, <2>2 DEF FailOrphan, Mark, SetStatus, TypeOK, KeptParts, Undecided
    <2>3. CreateTurn(c) \/ FailOrphan(c) \/ Mark(c) \/ UNCHANGED status
      BY <1>3 DEF ClientStep, StartTurn, Reject, Regenerate, PickUser, PickLast, DeleteAnswer,
             Restart, CancelReturns, Lookup, CancelLive, CancelStale, CheckActive, store
    <2> QED BY <2>1, <2>2, <2>3
  <1>4. CASE Crash \/ UNCHANGED vars
    BY <1>4 DEF Crash, vars, store
  <1> QED BY <1>1, <1>2, <1>3, <1>4 DEF Next

\* With one cancellation or store error, however many turns, exceptions and
\* restarts, a row that says completed is changed by the turn's own late
\* cancellation only.
THEOREM TurnCompletedIsKept == Spec => CompletedIsKept
  <1>1. Init => Kept
    BY DEF Init, Kept, KeptParts, FailingRuns, LateComplete, LateFailed, NoLateCancel, Undecided,
           FailHandler, Idle
  <1>2. TurnInv /\ TurnInv' /\ Counted /\ Kept /\ [Next]_vars => Kept'
    BY KeptNext
  <1>3. TurnInv /\ Kept /\ [Next]_vars =>
           [\A t \in Turns :
               cancels + faults =< 1 /\ status[t] = "completed" /\ status'[t] # "completed"
                   => pc[t] = "cStatus" /\ status'[t] = "cancelled"]_vars
    BY KeptStep DEF AtMostOne
  <1> QED BY <1>1, <1>2, <1>3, TurnInvariant, Disturbance, PTL DEF Spec, CompletedIsKept

=============================================================================
