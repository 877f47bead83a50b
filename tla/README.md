# A verification project for the turn, job and task machinery of this repository

The repository is a monorepo of five programs and a notes vault. Its own core
logic is in two of them: **DeepTutor**, a Python tutoring server whose turns
stream over WebSockets, and **Atomic**, a Rust note store with a ledger of
background tasks. This project models DeepTutor's path from a client's request
to the last event of the turn it started, its book compiler, its partners
(tutors reached through messengers and the web), its job scheduler and the event
streams of its memory runs, and Atomic's task ledger. TLC checks every model on
small instances; TLAPS proves the central invariants for all sizes.

## 1. Inventory

### DeepTutor (`src/DeepTutor/deeptutor`)

| Component | State | Operations | Talks to |
|---|---|---|---|
| Stream bus, `core/stream_bus.py` | history, one queue per consumer, closed flag, input listeners | emit, close, subscribe (an async generator), wait_for_input, submit_input | a capability emits, the orchestrator consumes, a tool waits for input |
| Turn runtime, `services/session/turn_runtime.py` | executions by turn id (task, queues of live subscribers, event buffer, cursor), reply queues | start_turn, regenerate_last_turn, cancel_turn, submit_user_reply, subscribe_turn, the runner `_run_turn` | calls the store, consumes the orchestrator, is called by the WebSocket |
| Session store, `services/session/sqlite_store.py` | SQLite tables sessions, messages, turns, turn_events, behind one asyncio lock and worker threads | create_turn, update_turn_status, append_turn_event, get_turn_events, add, read and delete messages | the turn runtime |
| WebSocket, `api/routers/unified_ws.py` | one subscription task per turn | start, regenerate, cancel, reply, subscribe, resume, check_active_turn | the runtime |
| Orchestrator, `runtime/orchestrator.py` | one task per turn | handle: run a capability, relay its bus | bus, event bus |
| Book engine, `book/engine.py`, `compiler.py`, `storage.py`, `api/routers/book.py` | per book: manifest, spine and page files, a queue of pages with its marks, one worker | confirm proposal and spine, compile a page, regenerate, insert, delete and move blocks, deep dive, rebuild, delete | generators of blocks, REST |
| Partners, `services/partners/*`, `partners/bus/queue.py`, `api/routers/partners.py` | per running partner: inbox, outbox, session locks, live web turns; per session a file | start, stop, inbound messages, commands, turns, web turns, attach, stop a turn | messengers, web sockets, the agent loop |
| Cron scheduler, `services/cron/service.py` | jobs, persisted to a file | add, cancel, tick, run, start, stop | starts turns |
| Memory runs, `services/memory/consolidator/runs.py` | history of runs, active run by (layer, key), event buffers, undo checkpoints | start, cancel, undo, wait_for_events | REST streams |
| Event bus, `events/event_bus.py` | handlers, queue, worker | publish, subscribe, flush, stop | nobody subscribes |
| MCP manager, `services/mcp/` | connections to tool servers | connect, call, close | tools |
| Agents, tools, retrieval, model clients | none that outlives a call | prompting and parsing | the stream bus |

### Atomic (`src/atomic`)

| Component | State | Operations | Talks to |
|---|---|---|---|
| Task ledger and scheduler, `crates/atomic-core/src/scheduler/`, `storage/sqlite/task_runs.rs` | the table `task_runs`; per handle a lease and a heartbeat task | claim_or_create, claim_existing, heartbeat, complete, fail, defer, re-arm, settle as moot, collect | reports, wiki regeneration, feed polls; other processes on the same database |
| Cloud, `crates/atomic-cloud` | tables of tenants and dispatch hints | dispatcher and reaper passes | provisioning, billing |
| Core, servers, clients | notes, embeddings, settings | queries and edits | HTTP, desktop application |

### The other programs

`ai-crypto-bot` (a trading loop in one thread with a paper broker),
`ai_stock_trader` (scripts), `roblox-math-quest` (a game), `ObsidianVault`
(notes). None has a second actor or a protocol.

### What is hard

* DeepTutor runs on one asyncio loop: each `await` that suspends is a place where
  any other coroutine may run. Rows, pages and session files are read, then
  awaited upon, then written.
* The session store takes an asyncio lock and works in a thread. Cancelling the
  caller releases the lock and *does not stop the thread*. The heartbeat of a
  task lease in Atomic has the same trait: its task can be aborted, the statement
  it has sent cannot.
* A turn can be cancelled at every await, also inside its own handlers, and while
  it waits for a lock.
* A subscriber is fed from several places (stored events, the live buffer, its
  queue) between which events move while it reads.
* A book's worker, the requests of its readers and a rebuild work on copies of
  the same files; marks outside the files say what is queued.
* A restart leaves rows that say `running` with no runner behind them, a cron file
  that may still hold a job which has already run, and task runs whose lease is
  not over.
* Event buffers are addressed by sequence numbers that clients keep while the
  buffer is cut and renumbered.

### What makes each component correct

* Stream bus: every consumer sees the whole history once and in order, whenever
  it joins; it ends, and only when all was seen; a wait takes one answer.
* Turn runtime: one turn of a session works at a time; the row of a working turn
  says `running`, a turn that is over does not keep saying so; a completed turn
  stays completed; a cancellation returns; messages keep the order of the turns.
* Subscriptions: no event missed or repeated at the seams between the store, the
  buffer and the queue; one DONE, and no invented DONE for a live turn.
* Replies: an answer reaches the question it was given to, unless somebody submits
  one twice or before its question.
* Book engine: no page is locked out of the queue by a mark that nobody owns; a
  queue that is not empty has a worker; when the last page is done the book is
  ready; the worker does not bring back pages that were deleted.
* Partners: as long as a partner is not stopped, the turns of a session key follow
  each other and each reads what the one before it wrote; a web client misses and
  repeats nothing; every message is answered; a web turn ends, whatever is stopped
  or cancelled.
* Cron: a one-shot runs once, whatever crashes; a cancelled job stays cancelled;
  no wake-up is lost; a due job is not starved by others or by failing writes, as
  long as every job gets its next time.
* Memory runs: a stream repeats nothing and ends with the run; the stream of the
  request that started the run is sent its events without a gap.
* Task ledger: a task is not run twice at the same time by workers that have
  their leases; a worker that lost its lease settles nothing; the retry budget
  counts logic failures; every run is settled in the end.

The hazards behind these, each with its line in the code and the properties that
cover it, are listed in `PROJECT.json`.

## 2. Modules

```
 EventFeed (abstract)   SessionTurns (abstract)   TurnLines (abstract)   TaskRuns (abstract)
   ^          ^               ^                         ^                     ^
 StreamBus  TurnStream      TurnRuntime               PartnerTurns          TaskLedger

 TurnReplies   BookEngine   CronService   MemoryRunStream
```

Each module *M* has a module `MC`*M*, which gives its constants values, and a module
*M*`Proofs` with its theorems; the theorem of `TurnReplies` is in `StreamBusProofs`.
An arrow is a refinement, checked by TLC and proved.

**`EventFeed`** is the promise shared by the bus and by a turn's subscriptions:
a log that grows until it is closed, and readers whose position in it only moves
forward by one. It has three actions: `Produce`, `Start`, `Advance`.

**`StreamBus`** is `stream_bus.py`. One action per step between two suspensions:
`Emit`, `Close`, `SubmitInput` never suspend; a `subscribe()` generator is
`Subscribe` (register and snapshot), `Replay`, `EndReplay`, `Take`, `Abandon`;
`wait_for_input` is `WaitForInput`, `ReturnInput`, `TimeoutInput`. Event i is the
number i, so order, gaps and duplicates show in what a reader got.

**`SessionTurns`** is the promise of a session: a turn begins only when none
runs, and what was settled never runs again (it may be relabelled).

**`TurnRuntime`** composes the runtime, the store and the requests of one
session. Its state: the rows and messages of the store, the runner of each turn
(its steps are the awaits of `_run_turn`), the requests of the clients (each a
small machine whose steps are the awaits of the handler), and the *detached*
writes, those of threads whose caller was cancelled. `Crash` loses runners,
requests and detached writes and keeps the store.

**`TurnStream`** looks into one turn: the runner publishes, buffers, flushes and
settles; subscriptions read the store, join, read the backlog and the store
again, then follow the queue, and at the end look at the row and synthesize a
DONE when none came (after an ERROR, stage `told`, if they find a failed row before
they ever waited on the queue). Other parts of the process reach this turn only through the
row, which orphan recovery may mark failed: that is the action `Recover`.

**`TurnReplies`** is the reply queue of a turn that `ask_user` paused, with the
capability's task, which is a task of its own and outlives a cancelled runner. A
reply may come at any time while the turn lives, also for a question that was not
asked yet.

**`BookEngine`** is one book. Its files are the manifest (`book`), the spine and
the pages (`disk`); in memory there are the queue, its marks (`queued`) and what
each task does (`work`): the worker and one request per client. Whoever compiles
or edits a page works on a copy of the file it read and writes the copy back at
every step, so `work` carries that copy. The worker is `WorkerTakes`,
`Planned`, `BlockGenerated`, `CompileFails`, `WorkerLeaves` (its wait for the
queue times out), `WorkerDies`; a rebuild or a deletion cancels it
(`CancelDelivered` is its late `finally`). The step after the last page, which looks
whether the book is finished, may fail (`FinalizeFails`) and ends the request or the
worker (`Abort`); the next `Enqueue` makes a new one. `Crash` keeps the files.

**`PartnerTurns`** is one partner with one session that has a messenger's key and
a web key. Every message is a task that takes the lock of its key, reads the
session, streams its frames, appends the exchange and replies. `ready` is the
order of first steps, `lock` the line at each lock; stopping the partner cancels
the loops of the instance and leaves turns that run. `SendWeb`, `Attach`,
`StopWeb` are the requests of a socket, whose queue is `watch`. An HTTP request
(`SendHttp`) calls `send_message()` itself: it joins no live turn and nobody attaches
to it, it stands in the line of its key like any other turn, and a client that goes
away cancels it (`HangUp`).

**`TurnLines`** is what the partner promises about the order of its turns: messages
join the line of their key behind all who ever joined it, one of a line is served at
a time, nobody is served before one who waits ahead, and what was answered or
dropped stays so. Each key of each instance is a line.

**`CronService`** is the scheduler: the jobs in memory, the file every change
rewrites, and the loop (`Tick` begins a tick, `Finish` is the end of the awaited
`on_job()` with all that follows up to the next suspension: `Reschedule`, or
`NoNextRun`, where the exception of `compute_next_run()` ends the tick). Times are kept as
what is left until they come, so the clock is unbounded although the state space
is finite. `Save` and `SaveFails` are the two outcomes of `_save()`; what the
caller does after the failure differs per operation and is modelled there.
`Restart` is a crash at any moment followed by the `start()` of the next process.

**`MemoryRunStream`** is the event buffer of one memory run with its limit and
renumbering, and the two HTTP streams over it, which differ in how they move
their cursor (`NewCursor`) and in whether they may reconnect.

**`TaskLedger`** is the ledger for one task and subject. Each SQL statement is one
step; a worker acts on the row it read some steps before (`Pick`, then `Claim` or
`LoseRace`; `FindNone`, then `Insert`). A lease is a timestamp that the code
compares for equality to tell claims apart, so it is a token here, and its expiry
is a flag that `Lapse` raises at any moment: nothing rests on clocks that agree.
The heartbeat of a handle is a machine of its own (`BeatSent`, `BeatWritten`,
`BeatFails`, `BeatReturns`); a statement that was sent when the heartbeat is
aborted becomes a `LooseWrite`, which may commit at any later time or never.
`owner` and `failures` are ghosts: who claimed a row last, and how many logic
failures were recorded on it.

**`TaskRuns`** is what the ledger promises of its rows without workers, leases,
heartbeats and clocks: one run is under way at a time, a failure of the work sends it
back until it has failed `MaxAttempts` times, everything else that goes wrong costs no
attempt, and a settled run is only ever deleted.

Operators marked *Mutation* or *mutant* state how a bug would read; the project
uses them to confirm that each property can fail.

### How an await became an action

A step ends where the code really suspends. `await queue.put(x)` on an unbounded
queue and an `await` of a coroutine that does not suspend are not such places.
`store.x()` suspends twice as far as others can tell: before the write (lock and
thread) and after it (the result is delivered to the loop). The models have the
write and the resumption as separate steps where the difference is observable.
The locks of the book engine are never held over a suspension and are therefore
invisible. In Rust, where workers are threads and processes, the unit is the SQL
statement.

## 3. Runs

| Run | What it asks | Bounds |
|---|---|---|
| `stream_bus` | order, complete endings, one answer per wait, the `EventFeed` contract; every consumer of a closed bus ends (fair) | 2 consumers, 1 timed wait, 3 events, 2 closes, 2 inputs |
| `turn_life` | one disturbance leaves a settled row; messages in turn order; only a live turn refuses a new one; a completed row is relabelled only by its own late cancellation; `cancel_turn` returns (fair) | 2 turns, 2 clients, 1 cancellation, 1 failure, 1 restart |
| `turn_faults` | the row of a working turn says running; implements `SessionTurns`, so that one turn works at a time | 2 turns, 2 clients (symmetric), 2 cancellations, 1 failure, 1 store error, 1 restart, detached writes |
| `turn_stream` | gapless delivery, one DONE, no early synthesized DONE, completed turns are stored, `EventFeed`; every subscription of a turn that is over ends (fair) | 1 subscription, 3 events with SESSION and DONE, 2 cancellations, 1 failure, 1 store error, 1 restart |
| `turn_replies` | a question is given another one's reply only after an earlier one was submitted twice, or a reply that came before its question was taken | 4 questions, up to two submissions each, at any time |
| `book` | no leaked mark; a served queue; a finished book is ready; the worker revives nothing; a queued page gets its turn (fair) | 2 pages, 2 chapters, 1 block per page, the worker and 1 request, any number of restarts |
| `partner` | turns of a key of one instance follow each other; sockets see all; the `TurnLines` contract; messages are answered and web turns end (fair) | 2 messages, 1 messenger key, 1 web key, 1 socket, 2 instances, 2 stops at once, 1 frame |
| `cron` | one-shots start once; cancelled jobs stay gone; no wake-up lost; a due job gets its turn unless a job before it has no next time again and again (fair) | 2 jobs of any kind, delays and sleep up to 2, 2 restarts, 1 failing write |
| `memory_runs` | nothing repeated; until the overflow the inline stream is sent a gapless beginning of the run, and all there is whenever it waits; every stream ends (fair) | buffer of 4, up to 8 events, 1 undo, 1 reconnection, a stream and an inline stream |
| `ledger` | one runner; a stale worker settles nothing; the `TaskRuns` contract, with a budget of failures; every run is settled (fair) | 2 workers, 2 rows, 2 attempts, 7 leases, 1 heartbeat, 1 expiry under a live worker, 1 mishap (dropped handle, deferral or deletion) |
| `turn_two_cancels` | rows get settled also with two cancellations: **violated** | 1 turn, 2 cancellations |
| `memory_gap` | a stream leaves nothing out: **violated** | 3 events, no overflow, no reconnection |

Why the bounds are enough. Two consumers, clients or workers interact only
through the shared log, row, page or lock: one to be disturbed and one to disturb.
One subscription is enough in `TurnStream`: subscriptions share nothing but the
list of queues, which the runner walks completely, and the row, where `Recover`
stands for what another one may do to it. Two turns give every pair (a turn that
ends late, a turn that starts early). Three events give a first, a middle and a
last one, so that every seam of a subscription may lie before, between and after
events. Two pages give a page in the worker's hand and one in the queue; one
request interferes with the worker at every one of its steps. Two messages give
a turn that holds a lock and one that waits, or one on each key; two instances
give the turns that a stop leaves behind beside those of the next start. Two jobs
give a job that runs and one that is due, added or cancelled meanwhile; two
restarts give a crash that follows the recovery from another. The buffer of four
overflows in the middle of the run and again at its end. Two rows give the row
that is over, or gone, beside the active one; two attempts give a failure that
retries and one that abandons; seven leases are more than can be in use at once.
The numbers of cancellations, failures, expiries and restarts bound how often the
environment interferes, never what the code may do in answer. Heartbeats are
bounded to one in `ledger` only to keep the run short; a run with two expiries or
two mishaps has three times as many states and no other result, and the proof of
`LedgerInv` has no bound.

### Fairness

* `stream_bus`: the loop resumes a consumer whose item is there. Nothing makes a
  producer emit or close: the liveness property starts from a closed bus.
* `turn_life`, `turn_stream`: the loop resumes a coroutine whose await is done, a
  thread finishes its write, and a request's next step is taken. Nothing makes a
  client ask for anything, the model emit another event, or a failure or restart
  happen.
* `book`: the worker is resumed when a page is there and when the call of its
  model returns or fails. Nothing makes a request come or go on.
* `partner`: the loops of a running instance take what is in their queues, the
  agent loop of a turn comes to an end, a channel's `send` returns, and a
  cancelled task is resumed.
* `cron`: time passes, the loop is resumed when its wait is over, and the job's
  turn (`on_job()`) comes to an end. A job that never ends would stop the others:
  the code runs them one after the other.
* `memory_runs`: the loop resumes a reader that was woken or whose send is done.
  Nothing makes the run emit or end.
* `ledger`: ticks and sweeps recur (every 15 to 60 seconds), statements return,
  the work of a task ends, leases and backoffs pass. Nothing makes a tick create
  a run, and the statement of an aborted heartbeat may never be carried out. That
  every run is settled is said of behaviours with finitely many mishaps: a worker
  that dies each time settles nothing.

Weak fairness suffices throughout: a ready coroutine stays ready. The exception
one would expect, a worker of the ledger that is beaten to every claim, does not
arise, because a claim that is lost was won by somebody who then works.

`CHECK_DEADLOCK FALSE` is given where the system may come to rest: all requests
answered, all turns over, a bounded number of disturbances used up.

## 4. Findings

Shown by a run:

1. `turn_two_cancels`: a second `cancel_turn` inside the `CancelledError` handler
   leaves the row `running`: `contextlib.suppress(Exception)` lets
   `CancelledError` through (`turn_runtime.py:1786` against the comment at
   1770-1772).
2. `memory_gap`: the event stream of a memory run skips events that arrive while a
   batch is sent, the final `run_ended` included (`routers/memory.py:438` against
   414-415).

Disagreements noted while modelling, without a run of their own. In DeepTutor:

* `regenerate_last_turn` deletes the answer and may then be refused, because another
  client's turn began during its awaits (`turn_runtime.py:874`); the client restores
  the answer for other refusals only (`web/context/UnifiedChatContext.tsx:379-381`,
  1101-1102).
* `submit_user_reply` accepts a reply when no question waits, a second one or one
  that comes before any question, and the next question takes it
  (`turn_runtime.py:988` against 975-977, "`False` if no waiter is registered (...
  or the model never asked)").
* The overflow of a memory run's buffer renumbers the events clients resume from
  (`runs.py:309` against the comment at 307-308), and `since` is inclusive
  (`runs.py:244`) where the endpoint's docstring says exclusive
  (`routers/memory.py:411-414`); the web client adds one.
* The inline stream of a memory run leaves when it finds the run over after a batch
  (`routers/memory.py:505-506`): what was emitted while the batch was sent, the final
  `run_ended` included, is not sent. The other stream has a last round for this
  (439-451).
* `wait_for_input` may time out with the input already on its queue
  (`stream_bus.py:287` against its docstring at 271-272); the race is in `StreamBus`.
* When the next time of a cron job cannot be computed (`cron/service.py:140-146`
  raises, 385 is outside the `try` of 363-367), the tick ends before the job is
  rescheduled or saved: the job runs again in every tick, 50 ms apart, and the due jobs
  behind it are not reached until it is cancelled. `DueRuns` names this exception.
* A cron job that is cancelled while the tick runs another one still runs once
  more (`cron/service.py:352`); `delete_after_run=False` has no effect on an `at`
  job (382 against the comment at 246); what another program writes to the store
  is never read again (198 against 29-30).
* Book engine: the last writer of a page wins, so a compilation overwrites blocks
  the user inserted or deleted meanwhile; a page that a request compiles comes
  back when the book is rebuilt or deleted under it; confirming the spine of a
  finished book leaves it `COMPILING`; deleting or inserting a block does not
  finalize the book; `confirm_proposal` writes a manifest it read before a model
  call, over a deletion or a newer spine; the module docstring names a
  `resume_book()` that does not exist (`engine.py:17`).
* A web turn is no task of its partner's instance and survives `stop_partner`
  (`manager.py:542-549`). The instance that is started next has locks
  (`runtime.py:88`) and live turns of its own, so a second turn of the same key runs
  beside the first, does not see it, and may be stored before it, where
  `runtime.py:94` says "serialised per session". `TurnsFollow` is about one instance.
* Partners: two keys with one stem (`telegram:42` and the `telegram_42` under which the
  web lists the session) take two locks for one file (`runtime.py:94` "serialised per
  session", `sessions.py:78` "unreachable in practice",
  `web/components/partners/PartnerArchives.tsx:93-105`); a start while a stop finishes
  is struck from the registry by the stop (`manager.py:558`), and the next start makes
  an instance beside the one that runs (`routers/partners.py:53` "short-circuits when
  running"); a web turn stopped before its first step ends unreported and keeps its
  session busy (827-835); of two concurrent stops the second raises `KeyError`
  (542-558); replies in the outbox
  are lost at a stop although they are in the session file; a second web message
  is dropped while a turn is in flight (801-809); `/stop` from a messenger waits
  behind the turn it is to stop (`commands.py:98-99`); deleting or archiving a
  session from the web takes no turn lock (882-891).

In Atomic:

* `complete()` aborts the heartbeat "so the next interval tick won't race against
  the terminal UPDATE" and says that `Ok(false)` means reclaimed or already
  transitioned (`ledger.rs:396-401`). A heartbeat statement that was sent before
  runs on its blocking thread (`storage/mod.rs:317-325`) all the same. When it
  commits first, the row's lease is a value that nobody holds, `complete()`
  returns `Ok(false)` for a run that nobody took, and the finished work is done
  again after the lease is over. `TaskLedger` has this behaviour; `RunsAreSettled`
  shows that it heals.
* The in-memory lock of a process is called "purely an optimization"
  (`runner.rs:149-151`); a peer that finds the task due between `complete()` and
  `set_last_run()` (97-98) inserts and runs it again.
* A poll that races `delete_feed` can insert a row after the feed's rows were
  settled, which no sweep visits again (`lib.rs:4360-4367` calls the window as
  small as possible).

## 5. Proofs

For every value of the constants, under the assumptions named in the modules
(`BusAssumption`, `TurnAssumption`, `StreamAssumption`, `CronAssumption`,
`BookAssumption`, `PartnerAssumption`, `RunAssumption`, `LedgerAssumption`: bounds are
naturals, subsets are subsets, kinds of keys are disjoint, a lease token is not the
null one).

**`StreamBusProofs`**: `BusTypeOK`, `BusInOrder`, `BusEndedSawEverything`,
`BusOneAnswerPerWait`, `BusRefinesFeed`. `InOrder` is not inductive: that the next item on a queue
is the next event needs to be known of the whole queue. The strengthening is
`QueueHoldsTheRest`: what a consumer has, what its replay still brings and what
its queue holds are together exactly the history, followed by sentinels only, and
a closed bus left a sentinel for everybody who waits. `BusRefinesFeed` needs the
same fact: what a consumer takes next is the entry after its position, so the step
is an `Advance` of `EventFeed`.

The module also proves `PauseMatchingAnswer` about `TurnReplies`: a question gets a
reply that is not its own only after an earlier question was submitted twice, or
after a question took a reply that was there before it. `PauseInv` adds how many
questions have an answer (`CountInv`), and that each reply was submitted, one that is
there twice, taken or on the queue, twice (`SubmittedInv`). If question q takes the
reply of an earlier k, then either k had its own reply before, so k was submitted
twice, or k had another one's, which one of the exceptions explains; if it takes the
reply of a later one, that is the second exception itself.

**`TurnRuntimeProofs`**: `TurnTypeOK`, `TurnActiveRowRunning`, `TurnOneActiveTurn`,
`TurnRefinesSession`, `TurnSettledIfDisturbedOnce`, `TurnRefusedOnlyWhileLive`,
`TurnConversationOrder`, `TurnCompletedIsKept`. The invariant `TurnInv` is the
conjunction of

* `TypeOK`;
* `Numbered`: rows exist for exactly the turns created, ids are never reused;
* `ActiveRowRunning`: the row of a working turn says running;
* `OneRunningRow`: at most one row says running, which with the former gives one
  working turn;
* `DecidedOnUnowned`: a request that decided to write over a row did so for a
  turn without a working runner, and such a turn never gets one again;
* `DetachedIsLate`: a detached status write belongs to a runner that is past its
  working part.

The last two are what carries a stale read over the awaits between it and the
write: orphanhood is stable. The refinement theorem maps a step to `Begin`,
`Settle` or a stutter; it holds because a write of a terminal status never makes
a row run and `CreateTurn` checks the whole session in the step that inserts.

Five more invariants, each inductive relative to `TurnInv`, give the theorems about
disturbances and order. `Counted`: two turns that are hit by a cancellation, or a
handler that is cancelled, are two disturbances, and a handler at work has been paid
for. `LeftSettled`: after at most one disturbance a runner past its DONE has written
its row, because nothing can interrupt the handler. `NoOrphanBehind`: a request about
to create a turn has no stale row before it, and one about to fail a row fails the
only one; only a crash makes stale rows, and it ends every request. `InOrder`: until
somebody cancels nothing is detached and only the turn created last writes messages.
`Kept`: with one cancellation or store error, a write of "completed" that goes on
without its runner belongs to a turn whose cancellation handler still runs or has
written the row, so no recovery can have decided on that row (with a second one it
can, and the theorem does not hold).

**`TurnStreamProofs`**: `TurnTypeOK`, `TurnContiguous`, `TurnEndsWithDone`,
`TurnSynthesizedIsLate`, `TurnCompletedIsStored`, `TurnRefinesFeed`. `TurnInv` has
two halves. The runner's half (`RunnerInv`): DONE is published once, on leaving the
body (`DoneOnce`), within the bound on events (`Room`); one flush takes over every
event of the answer (`FlushOnce`); a turn that completes, or whose detached write
will say so, has stored what was taken over, and a detached append never runs beside
a runner that appends (`StoredFirst`); a row is settled after the body
(`SettledLate`). The half of each subscription (`SubscriptionOK`): its list starts
after the last event yielded (`ListOK`), its queue starts where the list ends, goes
up to the last event published and ends with the sentinel once the runner has left
(`QueueOK`), what it has yielded is `start+1, ..., last` and at most one synthesized
DONE after it (`YieldedOK`), and each stage says whether the turn is live, the DONE
was seen and the row is settled (`StageOK`). The seams between store, buffer and
queue are where an event could be lost or doubled; the invariant says that at every
seam the next source begins at the next event. That gives `EndsWithDone` too: a
queue that has ended leaves `last` at the end of the events, so a subscription that
synthesizes no DONE has passed the real one, and one that has sent the ERROR of a
failed row (`told`) has not and still owes it.

**`MemoryRunStreamProofs`**: `MemTypeOK`, `MemNoRepeat`, `MemInlineGapless`. `MemInv`
relates a reader's place, which is an index, to the numbers of the events it handed
over, which the buffer's overflow shifts (`PlaceOK`): the place may come to denote a
later event and never an earlier one. `OrderOK` adds that the batch under way follows
what was handed over, and `InlineOK` that before the overflow index and number agree.
`MemInlineGapless` says nothing of the events after the last batch of a stream whose
run ended meanwhile: those are lost (section 4).

**`BookEngineProofs`**: `BookTypes`, `BookNoLeakedMark`, `BookQueueIsServed`,
`BookFinishedIsReady`, `BookWorkerNeverRevives`. `BookInv` adds to the properties
that a task's copy of a page that is being compiled is open (`CopyIsOpen`) and
that a busy worker has a page with a file (`WorkerHasPage`); a worker that gives
a page back has forgotten its mark, also when it dies of the step after it (`Handed`).
`BookFinishedIsReady`
is the one that needs it: the compilation that finds all pages ready is the one
that wrote the last of them, because whoever compiles keeps its own page open
until it writes it. It exempts the books whose last step failed, or whose last change
does not look whether the book is finished (`loose`).

**`PartnerTurnsProofs`**: `PartnerTypes`, `PartnerTurnsFollow`,
`PartnerSocketsSeeAll`, `PartnerImplementsTurnLines`. `PartnerInv` is `TypeOK` with two groups. `LineInv` says
where a message can be: in one inbox, among the tasks that have not begun, in the
line at its lock, or over, each once (`Known`, `InboxInv`, `ReadyInv`, `LockInv`,
`BegunInv`); that the session file holds turns that ended (`LogInv`); and from
these `TurnsFollow`. `WatchInv` says that a socket was given exactly the frames
its turn has emitted, or all of them and the end (`Counted`, `References`,
`Ongoing`, `SocketsSeeAll`). That a task takes its first step in the order of
creation and a lock is handed on in the order of arrival is what the first group
turns into an order of turns. The refinement rests on the same group: whoever begins
has a larger number than all who began in its line (`BegunInv`, `ReadyInv`), a free
lock is a line in which nobody waits (`NobodyWaits`), and the holder of a lock is the
first of those who want it (`FirstInLine`), so a task that gets the lock, with or
without waiting, is a `Take` or a `Join` of `TurnLines`. `TurnsFollow` and the
contract are about each key of each instance, since a new instance has new locks. With
the two messages of the run at most one waits; that several who wait are served in
order rests on the theorem.

**`CronServiceProofs`**: `CronTypeOK`, `CronOneShotOnce`, `CronCancelledStaysGone`,
`CronNoOversleep`. A one-shot that ran is recorded only afterwards, so
`OneShotOnce` rests on its time: `CronInv` adds that memory and file agree on the
time of every one-shot (`SameTime`), that the one-shots a tick still has to run
are due and fresh (`TodoIsFresh`), and that a started one is in memory only while
it runs and has a time in the past wherever it still is (`StartedIsSpent`), which
is why `start()` drops it. Failing writes are covered: they leave the file with
the old jobs, whose times are the same. `CronCancelledStaysGone` and
`CronNoOversleep` add one induction each on top of `CronInv`; `LeastIsLeast` (a
set of naturals has a least member, by well-founded induction) is what makes the
computed sleep a lower bound of the times.

**`TaskLedgerProofs`**: `LedgerInvariant`, `LedgerOneRunner`,
`LedgerBudgetIsFailures`, `LedgerStaleNeverSettles`, `LedgerImplementsTaskRuns`. The
difficulty is that a
worker acts by a lease that may have left the table, or come back to it through
its own heartbeat. `LedgerInv` has

* `TableInv`: one row is active, which the partial unique index keeps so;
* `TokenInv`: a lease on its way, in a heartbeat under way or one that outlived its
  task, is not in the table, in a handle, or on another way;
* `BeatInv`: a heartbeat runs beside the work and sends the lease of its handle;
* `HandleInv`: the lease of a handle, or the one its heartbeat has just written, is
  in the row only if this worker claimed the row last, and then the attempts it
  read are the row's;
* `LiveInv`: a worker that was not deprived of its run has it;
* `TypeOK` and `BudgetIsFailures`.

`HandleInv` makes the fence of the statements worth something: a successful
`complete()` or `fail()` is the last claimer's, and `fail()` decides between retry
and abandonment by a number that is still right. It needs `TokenInv`, so that no
write puts a lease into the table that somebody else holds. The refinement needs all
of it: that `fail()` abandons exactly after `MaxAttempts` failures is `HandleInv` with
`BudgetIsFailures`, that an insertion finds nothing under way is `TableInv`; a claim of
an expired lease, a heartbeat, and a statement that comes too late change no state of
a run.

Proofs and runs use the same modules; TLC evaluates each assumption, and the
inductive invariants of `TurnStream` and `MemoryRunStream` were model-checked before
they were proved. Every safety property and every refinement that a passing run checks
is a theorem. Only model-checked: liveness (fairness and ENABLED are beyond the prover).

## 6. What is abstracted

* The content of events, messages and prompts; building a turn's context (memory,
  attachments, personas, references) is one await that may fail.
* The message tree (parents, branches, deletion of turns) and sessions other than
  one: the runtime keeps no state across sessions.
* A page and a block of a book are ready or open. Cancelling a task of the book
  engine is certain, as in asyncio since Python 3.12; the image
  (`Dockerfile:64`) runs 3.11, whose `wait_for` may swallow a cancellation that
  arrives with the item.
* A partner's history is read whole, where the code reads a window of the last
  messages; the agent loop is a number of frames and an end. A lock that becomes
  free while those in line are cancelled goes to the next in line; asyncio lets a
  newcomer pass them, so the order of `TurnLines` is that of the messages nobody
  cancelled.
* The calendar of cron expressions (an interval, or no next time at all), a corrupt cron file, and
  the executor behind `on_job()`.
* The ledger has one task and one subject: no statement but the collection, which
  takes any row that is over, relates two. Two leases are equal only if two claims
  take the time in the same nanosecond, which is left out. A crash before the claim
  is the same as never taking the next step. The Postgres backend has the same
  statements.
* SQLite itself: a statement or transaction is one step, and it survives a restart.
* Authentication, ping, and the REST endpoints that only read.

## 7. Not modelled

* **Memory documents and their undo checkpoints**, the registry of memory runs:
  nothing in the code orders two runs of one document, so a property would only
  restate that the last writer wins.
* **The message tree** of the session store: single statements under one lock,
  which tests reach; what interleaves with it is noted above.
* **Event bus**: it has no subscriber, so no behaviour depends on it.
* **MCP manager**: one lock orders every change; a call is a request with a retry.
* **Agents, tools, retrieval, clients**: prompting, parsing and calls of services,
  without state that outlives a call. This is most of the code by lines.
* **Atomic cloud**: each pass of the dispatcher and the reaper is a set of queries
  on the provisioning database and calls of services outside the repository.
* **Atomic core and servers**: queries and edits of a note store.
* **Crypto bot, stock trader, game, vault**: one thread, scripts, or no code.
