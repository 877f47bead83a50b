---------------------------- MODULE TurnRuntime ----------------------------
(***************************************************************************)
(* The turns of one chat session: deeptutor/services/session/              *)
(* turn_runtime.py over sqlite_store.py, driven by the requests of         *)
(* api/routers/unified_ws.py.                                              *)
(*                                                                         *)
(* Everything runs on one asyncio loop, so the code between two awaits is  *)
(* one action.  A store call runs in a worker thread while its caller      *)
(* holds the store's lock; the lock is released only when the caller       *)
(* resumes, and the caller then runs on to its next await.  So one store   *)
(* call and the code after it are one action of the caller.  The exception *)
(* is a caller that is cancelled while it waits: the lock is released at   *)
(* once, and the worker thread may still commit, at any later moment       *)
(* (`detached`).                                                           *)
(*                                                                         *)
(* Left out: the events a turn streams (module TurnStream), what the       *)
(* messages say, reads whose result decides nothing here, and the system   *)
(* message that opens a quiz follow-up.                                    *)
(***************************************************************************)
EXTENDS Integers

CONSTANTS
    Clients,      \* sequential requesters: one WebSocket connection each
    MaxTurns,     \* bound: turns created
    MaxCancels,   \* bound: calls of Task.cancel() on a turn's runner
    MaxFails,     \* bound: exceptions raised in a turn's body
    MaxFaults,    \* bound: store errors inside the runner's exception handlers
    MaxCrashes    \* bound: process restarts

ASSUME TurnAssumption ==
    /\ MaxTurns \in Nat
    /\ MaxCancels \in Nat
    /\ MaxFails \in Nat
    /\ MaxFaults \in Nat
    /\ MaxCrashes \in Nat

Turns == 1 .. MaxTurns
Terminal == {"completed", "failed", "cancelled"}
Roles == {"user", "assistant"}

VARIABLES
    created,     \* turns created so far; they are numbered in that order
    status,      \* the status column of the turns table, "none" without a row
    messages,    \* the session's rows of the messages table
    lastId,      \* the last message id given out
    pc,          \* the await each runner (_run_turn task) is suspended at
    regen,       \* turns started by regenerate_last_turn
    produced,    \* turns that have published something worth keeping
    cancelling,  \* turns with a Task.cancel() not delivered yet
    detached,    \* store writes whose caller is gone and whose thread is not
    client,      \* what each client's current request has still to do
    cancels, fails, faults, crashes

budget == <<cancels, fails, faults, crashes>>
store == <<status, messages, lastId>>
runner == <<pc, regen, produced, cancelling, detached>>
vars == <<created, status, messages, lastId, pc, regen, produced, cancelling,
          detached, client, cancels, fails, faults, crashes>>

\* The awaits of _run_turn's body, in order; of its CancelledError handler; of
\* its Exception handler.
Streaming == {"context", "addUser", "stream", "addAnswer", "flush", "complete"}
CancelHandler == {"cFlush", "cSave", "cStatus"}
FailHandler == {"fFlush", "fStatus"}
Body == Streaming \cup {"title"}
Running == Body \cup CancelHandler \cup FailHandler

\* self._executions: from start_turn until the runner's finally.
Live == {t \in Turns : pc[t] \in Running}

\* The turns whose DONE event has not been published.
Active == {t \in Turns : pc[t] \in Streaming}

Idle == [at |-> "idle", turn |-> 0, victim |-> 0, regen |-> FALSE]

Init ==
    /\ created = 0
    /\ status = [t \in Turns |-> "none"]
    /\ messages = {}
    /\ lastId = 0
    /\ pc = [t \in Turns |-> "none"]
    /\ regen = {}
    /\ produced = {}
    /\ cancelling = {}
    /\ detached = {}
    /\ client = [c \in Clients |-> Idle]
    /\ cancels = 0 /\ fails = 0 /\ faults = 0 /\ crashes = 0

----------------------------------------------------------------------------
(* The store *)

\* update_turn_status: an unconditional UPDATE of the row.
SetStatus(t, s) == status' = [status EXCEPT ![t] = s]

\* add_message: INSERT with the next id.
AddMessage(role, t) ==
    /\ messages' = messages \cup {[id |-> lastId + 1, role |-> role, turn |-> t]}
    /\ lastId' = lastId + 1

\* What each await of a runner that is a store write writes: a message of that
\* role, or that status.
Writes == [addUser |-> "user", addAnswer |-> "assistant", cSave |-> "assistant",
           complete |-> "completed", cStatus |-> "cancelled", fStatus |-> "failed"]

WriteOps == [at : DOMAIN Writes, turn : Turns]

Commit(op) ==
    IF Writes[op.at] \in Roles
    THEN AddMessage(Writes[op.at], op.turn) /\ UNCHANGED status
    ELSE SetStatus(op.turn, Writes[op.at]) /\ UNCHANGED <<messages, lastId>>

RowsRunning == {t \in Turns : status[t] = "running"}

----------------------------------------------------------------------------
(* The runner: _run_turn *)

Goto(t, next) == pc' = [pc EXCEPT ![t] = next]

\* The context is built; a regenerated turn keeps its user message.
ContextReady(t) ==
    /\ pc[t] = "context" /\ t \notin cancelling
    /\ Goto(t, IF t \in regen THEN "stream" ELSE "addUser")
    /\ UNCHANGED <<created, store, regen, produced, cancelling, detached, client,
                   budget>>

\* The orchestrator yields an event and it is published.
Publish(t) ==
    /\ pc[t] = "stream" /\ t \notin cancelling
    /\ produced' = produced \cup {t}
    /\ UNCHANGED <<created, store, pc, regen, cancelling, detached, client, budget>>

EndOfStream(t) ==
    /\ pc[t] = "stream" /\ t \notin cancelling
    /\ Goto(t, "addAnswer")
    /\ UNCHANGED <<created, store, regen, produced, cancelling, detached, client,
                   budget>>

\* What the Cancel handler does next once the events are flushed.
SaveOrSettle(t) == IF t \in produced THEN "cSave" ELSE "cStatus"

\* Mutation: the status update shares the flush's suppressed block.
SkipStatus == "ended"

\* What the Exception handler does once the events are flushed.
FailStatus == "fStatus"

\* The buffered events are in the store.
Flushed(t) ==
    /\ t \notin cancelling
    /\ \/ pc[t] = "flush" /\ Goto(t, "complete")
       \/ pc[t] = "cFlush" /\ Goto(t, SaveOrSettle(t))
       \/ pc[t] = "fFlush" /\ Goto(t, FailStatus)
    /\ UNCHANGED <<created, store, regen, produced, cancelling, detached, client,
                   budget>>

\* Where a runner goes after a store write; "ended" runs the finally.
After(t) ==
    CASE pc[t] = "addUser" -> "stream"
      [] pc[t] = "addAnswer" -> "flush"
      [] pc[t] = "complete" -> IF t \in regen THEN "ended" ELSE "title"
      [] pc[t] = "cSave" -> "cStatus"
      [] OTHER -> "ended"

\* A store write commits and its runner goes on.
StoreWrite(t) ==
    /\ pc[t] \in DOMAIN Writes /\ t \notin cancelling
    /\ Commit([at |-> pc[t], turn |-> t])
    /\ Goto(t, After(t))
    /\ UNCHANGED <<created, regen, produced, cancelling, detached, client, budget>>

\* The title is there, or not: an error or a timeout is swallowed.
TitleDone(t) ==
    /\ pc[t] = "title" /\ t \notin cancelling
    /\ Goto(t, "ended")
    /\ UNCHANGED <<created, store, regen, produced, cancelling, detached, client,
                   budget>>

\* An exception in the body, the awaited store call included (rolled back).  The
\* handler's flush does nothing when the body's flush has begun.
Fail(t) ==
    /\ pc[t] \in Streaming /\ t \notin cancelling
    /\ fails < MaxFails
    /\ fails' = fails + 1
    /\ Goto(t, IF pc[t] \in {"flush", "complete"} THEN "fStatus" ELSE "fFlush")
    /\ UNCHANGED <<created, store, regen, produced, cancelling, detached, client,
                   cancels, faults, crashes>>

\* A store error inside a handler: suppressed, or (the status of a failed turn)
\* raised through the finally.  Either way the write is not made.
HandlerFault(t) ==
    /\ pc[t] \in CancelHandler \cup FailHandler /\ t \notin cancelling
    /\ faults < MaxFaults
    /\ faults' = faults + 1
    /\ Goto(t, CASE pc[t] = "cFlush" -> SaveOrSettle(t)
                 [] pc[t] = "fFlush" -> "fStatus"
                 [] OTHER -> After(t))
    /\ UNCHANGED <<created, store, regen, produced, cancelling, detached, client,
                   cancels, fails, crashes>>

\* Mutations: no handler for CancelledError; a cancellation that is swallowed.
CaughtByNobody(t) == "ended"
CaughtAndSwallowed(t) == pc[t]

\* Where CancelledError takes a runner.  The body has a handler for it; inside a
\* handler nothing catches it, contextlib.suppress(Exception) included.
Caught(t) ==
    CASE pc[t] \in {"flush", "complete", "title"} -> SaveOrSettle(t)
      [] pc[t] \in Body -> "cFlush"
      [] OTHER -> "ended"

\* CancelledError is delivered.  A store write the runner was waiting for is
\* dropped (it had not got the lock) or goes on without it; the shielded one
\* always goes on.
Interrupt(t) ==
    /\ t \in cancelling /\ t \in Live
    /\ cancelling' = cancelling \ {t}
    /\ Goto(t, Caught(t))
    /\ \/ pc[t] # "cSave" /\ UNCHANGED detached
       \/ pc[t] \in DOMAIN Writes /\ detached' = detached \cup {[at |-> pc[t], turn |-> t]}
    /\ UNCHANGED <<created, store, regen, produced, client, budget>>

\* The worker thread of a detached write commits.
Land(op) ==
    /\ op \in detached
    /\ Commit(op)
    /\ detached' = detached \ {op}
    /\ UNCHANGED <<created, pc, regen, produced, cancelling, client, budget>>

----------------------------------------------------------------------------
(* Requests *)

Step(c, request) == client' = [client EXCEPT ![c] = request]

\* Mutations: a running row is an orphan whoever owns its turn; any turn without a
\* runner is one; nothing is.
OrphanIfRunning(t) == status[t] = "running"
OrphanIfNotLive(t) == status[t] # "none" /\ t \notin Live
NeverOrphan(t) == FALSE

\* A running row without a live execution in this process.
Orphan(t) == status[t] = "running" /\ t \notin Live

\* start_turn up to the recovery of stale rows: list_active_turns and, without an
\* await in between, the liveness check of the row it lists.
Recover(c, regenerated, victim) ==
    \/ \E t \in Turns :
          /\ Orphan(t)
          /\ Step(c, [at |-> "fail", turn |-> t, victim |-> victim, regen |-> regenerated])
    \/ /\ \A t \in Turns : ~Orphan(t)
       /\ Step(c, [at |-> "create", turn |-> 0, victim |-> victim, regen |-> regenerated])

StartTurn(c) ==
    /\ client[c].at = "idle"
    /\ created < MaxTurns
    /\ Recover(c, FALSE, 0)
    /\ UNCHANGED <<created, store, runner, budget>>

\* _fail_orphan_running_turn's write.
FailOrphan(c) ==
    /\ client[c].at = "fail"
    /\ SetStatus(client[c].turn, "failed")
    /\ Step(c, [client[c] EXCEPT !.at = "create", !.turn = 0])
    /\ UNCHANGED <<created, messages, lastId, runner, budget>>

\* Mutation: create_turn does not look for a running turn.
AlwaysFree == TRUE

SessionFree == RowsRunning = {}

\* create_turn finds the session free; the execution is registered and its task
\* created before anyone else can read the row.
CreateTurn(c) ==
    /\ client[c].at = "create"
    /\ SessionFree
    /\ created < MaxTurns
    /\ created' = created + 1
    /\ SetStatus(created + 1, "running")
    /\ Goto(created + 1, "context")
    /\ regen' = IF client[c].regen THEN regen \cup {created + 1} ELSE regen
    /\ Step(c, Idle)
    /\ UNCHANGED <<messages, lastId, produced, cancelling, detached, budget>>

\* create_turn raises: "Session already has an active turn".
Reject(c) ==
    /\ client[c].at = "create"
    /\ ~SessionFree
    /\ Step(c, Idle)
    /\ UNCHANGED <<created, store, runner, budget>>

\* regenerate_last_turn: get_active_turn (a running turn is refused), then the
\* last user message, then the last message, each in its own store call.
Regenerate(c) ==
    /\ client[c].at = "idle"
    /\ created < MaxTurns
    /\ RowsRunning = {}
    /\ Step(c, [Idle EXCEPT !.at = "pickUser"])
    /\ UNCHANGED <<created, store, runner, budget>>

PickUser(c) ==
    /\ client[c].at = "pickUser"
    /\ IF \E m \in messages : m.role = "user"
       THEN Step(c, [client[c] EXCEPT !.at = "pickLast"])
       ELSE Step(c, Idle)
    /\ UNCHANGED <<created, store, runner, budget>>

\* get_last_message: the row with the highest id, if it is an answer.
TrailingAnswer ==
    {m \in messages : m.role = "assistant" /\ \A n \in messages : n.id =< m.id}

\* When the last message is not an answer there is nothing to delete, and the
\* next store call is start_turn's.
PickLast(c) ==
    /\ client[c].at = "pickLast"
    /\ \/ \E m \in TrailingAnswer :
             Step(c, [client[c] EXCEPT !.at = "delete", !.victim = m.id])
       \/ TrailingAnswer = {} /\ Step(c, [client[c] EXCEPT !.at = "restart"])
    /\ UNCHANGED <<created, store, runner, budget>>

DeleteAnswer(c) ==
    /\ client[c].at = "delete"
    /\ messages' = {m \in messages : m.id # client[c].victim}
    /\ Step(c, [client[c] EXCEPT !.at = "restart"])
    /\ UNCHANGED <<created, status, lastId, runner, budget>>

Restart(c) ==
    /\ client[c].at = "restart"
    /\ Recover(c, TRUE, client[c].victim)
    /\ UNCHANGED <<created, store, runner, budget>>

\* cancel_turn of a live turn: request the cancellation and await the runner.
CancelLive(c, t) ==
    /\ client[c].at = "idle"
    /\ t \in Live
    /\ cancels < MaxCancels
    /\ cancels' = cancels + 1
    /\ cancelling' = cancelling \cup {t}
    /\ Step(c, [Idle EXCEPT !.at = "await", !.turn = t])
    /\ UNCHANGED <<created, store, pc, regen, produced, detached, fails, faults, crashes>>

CancelReturns(c) ==
    /\ client[c].at = "await"
    /\ client[c].turn \notin Live
    /\ Step(c, Idle)
    /\ UNCHANGED <<created, store, runner, budget>>

\* cancel_turn of a turn this process does not run: look at the row, then write.
CancelStale(c, t) ==
    /\ client[c].at = "idle"
    /\ status[t] # "none" /\ t \notin Live
    /\ Step(c, [Idle EXCEPT !.at = "lookup", !.turn = t])
    /\ UNCHANGED <<created, store, runner, budget>>

Lookup(c) ==
    /\ client[c].at = "lookup"
    /\ IF status[client[c].turn] = "running"
       THEN Step(c, [client[c] EXCEPT !.at = "mark"])
       ELSE Step(c, Idle)
    /\ UNCHANGED <<created, store, runner, budget>>

\* check_active_turn: get_active_turn and, without an await in between, the
\* liveness check; a stale row will be marked.
CheckActive(c, t) ==
    /\ client[c].at = "idle"
    /\ Orphan(t)
    /\ Step(c, [Idle EXCEPT !.at = "mark", !.turn = t])
    /\ UNCHANGED <<created, store, runner, budget>>

Mark(c) ==
    /\ client[c].at = "mark"
    /\ SetStatus(client[c].turn, "cancelled")
    /\ Step(c, Idle)
    /\ UNCHANGED <<created, messages, lastId, runner, budget>>

----------------------------------------------------------------------------
\* The process dies and another one serves the same database.
Crash ==
    /\ crashes < MaxCrashes
    /\ crashes' = crashes + 1
    /\ pc' = [t \in Turns |-> IF t \in Live THEN "crashed" ELSE pc[t]]
    /\ cancelling' = {}
    /\ detached' = {}
    /\ client' = [c \in Clients |-> Idle]
    /\ UNCHANGED <<created, store, regen, produced, cancels, fails, faults>>

RunnerStep(t) ==
    \/ ContextReady(t) \/ Publish(t) \/ EndOfStream(t) \/ Flushed(t) \/ StoreWrite(t)
    \/ TitleDone(t) \/ Fail(t) \/ HandlerFault(t) \/ Interrupt(t)

ClientStep(c) ==
    \/ StartTurn(c) \/ FailOrphan(c) \/ CreateTurn(c) \/ Reject(c)
    \/ Regenerate(c) \/ PickUser(c) \/ PickLast(c) \/ DeleteAnswer(c) \/ Restart(c)
    \/ CancelReturns(c) \/ Lookup(c) \/ Mark(c)
    \/ \E t \in Turns : CancelLive(c, t) \/ CancelStale(c, t) \/ CheckActive(c, t)

Next ==
    \/ \E t \in Turns : RunnerStep(t)
    \/ \E c \in Clients : ClientStep(c)
    \/ \E op \in WriteOps : Land(op)
    \/ Crash

Spec == Init /\ [][Next]_vars

\* The loop resumes a runner whose store call or cancellation is due, and a
\* client whose turn to cancel is over.  Nothing makes a model answer, a user
\* reply or a client ask.
Fairness ==
    /\ \A t \in Turns : WF_vars(ContextReady(t) \/ Flushed(t) \/ StoreWrite(t)
                                \/ TitleDone(t) \/ Interrupt(t))
    /\ \A c \in Clients : WF_vars(CancelReturns(c))

FairSpec == Spec /\ Fairness

----------------------------------------------------------------------------
(* Properties *)

TypeOK ==
    /\ created \in 0 .. MaxTurns
    /\ status \in [Turns -> {"none", "running"} \cup Terminal]
    /\ messages \subseteq [id : Nat, role : Roles, turn : Turns]
    /\ lastId \in Nat
    /\ pc \in [Turns -> {"none", "ended", "crashed"} \cup Running]
    /\ regen \subseteq Turns /\ produced \subseteq Turns /\ cancelling \subseteq Turns
    /\ detached \subseteq WriteOps
    /\ client \in [Clients -> [at : {"idle", "fail", "create", "pickUser", "pickLast",
                                     "delete", "restart", "await", "lookup", "mark"},
                               turn : 0 .. MaxTurns, victim : Nat, regen : BOOLEAN]]
    /\ cancels \in 0 .. MaxCancels /\ fails \in 0 .. MaxFails
    /\ faults \in 0 .. MaxFaults /\ crashes \in 0 .. MaxCrashes

\* Recovery never finalizes a turn that is still being worked on: until a turn's
\* DONE is published its row says running, whatever start_turn, cancel_turn and
\* check_active_turn decided on a row they read earlier.
ActiveRowRunning == \A t \in Active : status[t] = "running"

\* Two turns of a session are never worked on at the same time.
OneActiveTurn == \A t, u \in Active : t = u

\* A runner that leaves, other than by the process dying, has settled its row:
\* "a turn left "running" gets mislabelled as a restart orphan"
\* (turn_runtime.py:1770-1772).
EndedIsSettled == \A t \in Turns : pc[t] = "ended" => status[t] # "running"

\* What holds of that: one cancellation or one exception, at whatever await it
\* strikes, still leaves a settled row.
DisturbedOnce == cancels + fails + faults =< 1
SettledIfDisturbedOnce == DisturbedOnce => EndedIsSettled

\* Until somebody cancels, each turn's messages follow those of the turns before
\* it: the history never shows an answer below a later question.
ConversationOrder ==
    cancels = 0 => \A m, n \in messages : m.id < n.id => m.turn =< n.turn

\* start_turn is refused only while a live runner owns the session: no stale row
\* locks the user out, after restarts and whatever one cancellation or exception
\* leaves behind.
RefusedOnlyWhileLive ==
    [][\A c \in Clients : Reject(c) /\ DisturbedOnce =>
          \E t \in Live : status[t] = "running"]_vars

\* With one cancellation or store error, a completed turn is relabelled by nobody
\* but its own late cancellation: recovery and check_active_turn never hit it.
CompletedIsKept ==
    [][\A t \in Turns :
          cancels + faults =< 1 /\ status[t] = "completed" /\ status'[t] # "completed"
              => pc[t] = "cStatus" /\ status'[t] = "cancelled"]_vars

\* cancel_turn returns: its await ends, even on a turn whose stream hangs.
CancelEnds == \A c \in Clients : (client[c].at = "await") ~> (client[c].at = "idle")

\* The contract of SessionTurns.
Abstract == INSTANCE SessionTurns
AbstractSpec == Abstract!Spec

=============================================================================
