---------------------------- MODULE PartnerTurns ----------------------------
(***************************************************************************)
(* The turns of one partner in one session: services/partners/manager.py,  *)
(* runtime.py and sessions.py, partners/bus/queue.py and the web socket of *)
(* api/routers/partners.py.                                                *)
(*                                                                         *)
(* A partner instance owns a message bus, a runner that starts one task    *)
(* per inbound message, a router that sends the replies, and the live web  *)
(* turns.  A turn takes the lock of its session key, reads the session's   *)
(* file, answers, and appends the exchange to the file.  The keys of the   *)
(* messengers and of the web name the same file (telegram:42 and the       *)
(* telegram_42 the web lists) and have locks of their own; so have the     *)
(* instances of a partner that is stopped and started again.               *)
(*                                                                         *)
(* Everything runs on one event loop: a new task takes its first step in   *)
(* the order of creation, a lock is passed on in the order of arrival.  A  *)
(* command is answered under the lock without a turn and may clear the     *)
(* session (/new, /delete).  Progress messages, attachments, the sidecar   *)
(* index, channel reloads and the partner's settings change nothing that   *)
(* is modelled.  An HTTP request is a turn of a web key that is no live    *)
(* turn: nothing joins it, and it waits for the lock behind the others.    *)
(***************************************************************************)
EXTENDS Naturals, Sequences, FiniteSets

CONSTANTS
    ImKeys,       \* session keys of messengers
    WebKeys,      \* session keys of web clients, for the same session
    Sockets,      \* web sockets
    Stoppers,     \* requests that may be stopping the partner at the same time
    MaxMessages,  \* bound: messages ever received
    MaxInstances, \* bound: starts of the partner
    MaxFrames     \* bound: stream events of a turn

ASSUME PartnerAssumption ==
    /\ ImKeys \cap WebKeys = {}
    /\ MaxMessages \in Nat
    /\ MaxInstances \in Nat
    /\ MaxFrames \in Nat

Keys == ImKeys \cup WebKeys
Messages == 1 .. MaxMessages
Instances == 1 .. MaxInstances
NoTurn == [at |-> "none", key |-> "none", inst |-> 0, read |-> {}, frames |-> 0, end |-> "none"]
NoWatch == [turn |-> 0, on |-> FALSE, got |-> <<>>, end |-> "none"]

VARIABLES
    registered, \* the instance in PartnerManager._partners, 0 if there is none
    started,    \* instances created so far
    phase,      \* the tasks of each instance: "none", "up", "cancelled", "down"
    stopping,   \* the instance each stop_partner() call works on, or 0
    inbox,      \* MessageBus.inbound of each instance
    outbox,     \* MessageBus.outbound of each instance
    sent,       \* messages whose reply was sent to the channel
    count,      \* messages received so far
    turn,       \* the handling of each message: task, history read, LiveTurn
    cancelled,  \* messages whose task was cancelled
    ready,      \* tasks that have not taken their first step
    lock,       \* PartnerRunner._session_locks: the holder, then those who wait
    live,       \* PartnerInstance.live_turns
    log,        \* the exchanges in the session's file
    watch,      \* the turn each socket drains, and what its queue was given
    attach      \* the turn a socket is about to subscribe to, or 0

lifecycle == <<registered, started, phase, stopping>>
bus == <<inbox, outbox, sent>>
tasks == <<turn, cancelled, ready, lock>>
web == <<live, watch, attach>>
vars == <<lifecycle, bus, count, tasks, log, web>>

Init ==
    /\ registered = 0
    /\ started = 0
    /\ phase = [i \in Instances |-> "none"]
    /\ stopping = [s \in Stoppers |-> 0]
    /\ inbox = [i \in Instances |-> <<>>]
    /\ outbox = [i \in Instances |-> <<>>]
    /\ sent = {}
    /\ count = 0
    /\ turn = [m \in Messages |-> NoTurn]
    /\ cancelled = {}
    /\ ready = <<>>
    /\ lock = [i \in Instances |-> [k \in Keys |-> <<>>]]
    /\ live = [i \in Instances |-> [k \in WebKeys |-> 0]]
    /\ log = <<>>
    /\ watch = [w \in Sockets |-> NoWatch]
    /\ attach = [w \in Sockets |-> 0]

----------------------------------------------------------------------------
(* The life of an instance *)

Running(i) == phase[i] \in {"up", "cancelled"}
Serving == registered # 0 /\ Running(registered)

StartPartner ==
    /\ ~Serving
    /\ started < MaxInstances
    /\ started' = started + 1
    /\ registered' = started'
    /\ phase' = [phase EXCEPT ![started'] = "up"]
    /\ UNCHANGED <<stopping, bus, count, tasks, log, web>>

\* stop_partner() cancels the tasks of the instance and waits for them.
StopPartner(s) ==
    /\ stopping[s] = 0
    /\ registered # 0
    /\ stopping' = [stopping EXCEPT ![s] = registered]
    /\ phase' = [phase EXCEPT ![registered] = IF @ = "up" THEN "cancelled" ELSE @]
    /\ UNCHANGED <<registered, started, bus, count, tasks, log, web>>

\* The cancelled runner cancels the tasks it started; web turns go on.
Handled(i) ==
    {m \in Messages : turn[m].inst = i /\ turn[m].key \in ImKeys
                      /\ turn[m].at \in {"new", "lock", "run"}}
RunnerEnds(i) ==
    /\ phase[i] = "cancelled"
    /\ phase' = [phase EXCEPT ![i] = "down"]
    /\ cancelled' = cancelled \cup Handled(i)
    /\ UNCHANGED <<registered, started, stopping, bus, count, turn, ready, lock, log, web>>

\* It removes whatever instance is registered by now.
StopFinishes(s) ==
    /\ stopping[s] # 0
    /\ phase[stopping[s]] = "down"
    /\ registered' = 0
    /\ stopping' = [stopping EXCEPT ![s] = 0]
    /\ UNCHANGED <<started, phase, bus, count, tasks, log, web>>

----------------------------------------------------------------------------
(* Messages *)

New(at, k, i) == [NoTurn EXCEPT !.at = at, !.key = k, !.inst = i]

\* A channel of the instance publishes an inbound message.
Receive(i, k) ==
    /\ Running(i)
    /\ count < MaxMessages
    /\ count' = count + 1
    /\ turn' = [turn EXCEPT ![count'] = New("inbox", k, i)]
    /\ inbox' = [inbox EXCEPT ![i] = Append(@, count')]
    /\ UNCHANGED <<lifecycle, outbox, sent, cancelled, ready, lock, log, web>>

\* PartnerRunner.run()
Consume(i) ==
    /\ phase[i] = "up"
    /\ inbox[i] # <<>>
    /\ inbox' = [inbox EXCEPT ![i] = Tail(@)]
    /\ turn' = [turn EXCEPT ![Head(inbox[i])].at = "new"]
    /\ ready' = Append(ready, Head(inbox[i]))
    /\ UNCHANGED <<lifecycle, outbox, sent, count, cancelled, lock, log, web>>

\* _outbound_router()
Send(i) ==
    /\ phase[i] = "up"
    /\ outbox[i] # <<>>
    /\ outbox' = [outbox EXCEPT ![i] = Tail(@)]
    /\ sent' = sent \cup {Head(outbox[i])}
    /\ UNCHANGED <<lifecycle, inbox, count, tasks, log, web>>

----------------------------------------------------------------------------
(* LiveTurn *)

\* emit() and finish(): every subscriber's queue gets the frame.
Emitted(m, frame) ==
    watch' = [w \in Sockets |->
                IF watch[w].turn = m /\ watch[w].on
                THEN [watch[w] EXCEPT !.got = Append(@, frame)] ELSE watch[w]]
Finished(m, end) ==
    watch' = [w \in Sockets |->
                IF watch[w].turn = m /\ watch[w].on
                THEN [watch[w] EXCEPT !.on = FALSE, !.end = end] ELSE watch[w]]

\* subscribe(): the backlog first, then what comes.
Backlog(t) == [n \in 1 .. t.frames |-> n]
NotReplayed(t) == "none" \* mutant: the backlog without the terminal frames
Terminal(t) == t.end
Subscribed(w, m, t) ==
    watch' = [watch EXCEPT ![w] = [turn |-> m, on |-> t.end = "none",
                                   got |-> Backlog(t), end |-> Terminal(t)]]

InFlight(i, k) == live[i][k] # 0 /\ turn[live[i][k]].end = "none"

\* start_web_turn(): a turn in flight is joined, and the message dropped.
SendWeb(w, k) ==
    /\ Serving
    /\ attach[w] = 0
    /\ IF InFlight(registered, k)
       THEN /\ Subscribed(w, live[registered][k], turn[live[registered][k]])
            /\ UNCHANGED <<count, turn, ready, live>>
       ELSE /\ count < MaxMessages
            /\ count' = count + 1
            /\ turn' = [turn EXCEPT ![count'] = New("new", k, registered)]
            /\ ready' = Append(ready, count')
            /\ live' = [live EXCEPT ![registered][k] = count']
            /\ Subscribed(w, count', turn'[count'])
    /\ UNCHANGED <<lifecycle, bus, cancelled, lock, log, attach>>

\* An attach frame: the turn is looked up, two frames are sent, and only then
\* the socket subscribes, to a turn that may be over by now.
Attach(w, k) ==
    /\ registered # 0
    /\ InFlight(registered, k)
    /\ attach[w] = 0
    /\ attach' = [attach EXCEPT ![w] = live[registered][k]]
    /\ UNCHANGED <<lifecycle, bus, count, tasks, log, live, watch>>

Attached(w) ==
    /\ attach[w] # 0
    /\ Subscribed(w, attach[w], turn[attach[w]])
    /\ attach' = [attach EXCEPT ![w] = 0]
    /\ UNCHANGED <<lifecycle, bus, count, tasks, log, live>>

\* send_message() for an HTTP request: whatever is in flight, a turn of its own.
SendHttp(k) ==
    /\ Serving
    /\ count < MaxMessages
    /\ count' = count + 1
    /\ turn' = [turn EXCEPT ![count'] = New("new", k, registered)]
    /\ ready' = Append(ready, count')
    /\ UNCHANGED <<lifecycle, bus, cancelled, lock, log, web>>

\* The turn of an HTTP request that is not over.
Http(m) ==
    /\ turn[m].key \in WebKeys
    /\ turn[m].at \in {"new", "lock", "run"}
    /\ \A i \in Instances : live[i][turn[m].key] # m

\* The client of a streaming request goes away, and its turn is cancelled.
HangUp(m) ==
    /\ Http(m)
    /\ cancelled' = cancelled \cup {m}
    /\ UNCHANGED <<lifecycle, bus, count, turn, ready, lock, log, web>>

\* stop_web_turn()
StopWeb(k) ==
    /\ registered # 0
    /\ InFlight(registered, k)
    /\ turn[live[registered][k]].at # "over"
    /\ cancelled' = cancelled \cup {live[registered][k]}
    /\ UNCHANGED <<lifecycle, bus, count, turn, ready, lock, log, web>>

----------------------------------------------------------------------------
(* One turn: _drive_web_turn() or _handle_inbound(), around process_message() *)

Web(m) == turn[m].key \in WebKeys
Members(s) == {s[n] : n \in DOMAIN s}
Without(s, n) == [j \in 1 .. Len(s) - 1 |-> IF j < n THEN s[j] ELSE s[j + 1]]
Locked(t, q) == lock' = [lock EXCEPT ![t.inst][t.key] = q]

\* The task is over: a web turn finishes, a reply goes to the outbound bus.
Over(m, t, end) ==
    /\ turn' = [turn EXCEPT ![m] = [t EXCEPT !.at = "over", !.end = end]]
    /\ IF Web(m)
       THEN Finished(m, end) /\ UNCHANGED outbox
       ELSE /\ outbox' = IF end = "content"
                         THEN [outbox EXCEPT ![t.inst] = Append(@, m)] ELSE outbox
            /\ UNCHANGED watch

\* The lock is acquired: a turn reads the history, a command is answered at once.
\* A command that raises is told to a web client, and to the others in a reply.
Enter(m, t, q) ==
    \/ /\ turn' = [turn EXCEPT ![m] = [t EXCEPT !.at = "run", !.read = Members(log)]]
       /\ Locked(t, q)
       /\ UNCHANGED <<outbox, log, watch>>
    \/ /\ \E clears \in BOOLEAN : log' = IF clears THEN <<>> ELSE log
       /\ \E end \in IF Web(m) THEN {"content", "error"} ELSE {"content"} :
            Over(m, t, end)
       /\ Locked(t, Tail(q))

\* The first step of a task.  A web turn looks its instance up again.
Begin ==
    /\ ready # <<>>
    /\ ready' = Tail(ready)
    /\ LET m == Head(ready)
           t == IF Web(m) THEN [turn[m] EXCEPT !.inst = registered] ELSE turn[m]
           q == Append(lock[t.inst][t.key], m)
       IN IF m \in cancelled
          THEN /\ turn' = [turn EXCEPT ![m].at = "over"]
               /\ UNCHANGED <<outbox, lock, log, watch>>
          ELSE IF Web(m) /\ ~Serving
          THEN Over(m, turn[m], "error") /\ UNCHANGED <<lock, log>>
          ELSE IF Len(q) = 1
          THEN Enter(m, t, q)
          ELSE /\ turn' = [turn EXCEPT ![m] = [t EXCEPT !.at = "lock"]]
               /\ Locked(t, q)
               /\ UNCHANGED <<outbox, log, watch>>
    /\ UNCHANGED <<lifecycle, inbox, sent, count, cancelled, live, attach>>

Queue(m) == lock[turn[m].inst][turn[m].key]
LockIsFree(m) == m \in Members(Queue(m)) \* mutant: a lock nobody holds
HasLock(m) == Queue(m) # <<>> /\ Head(Queue(m)) = m
Resume(m) ==
    /\ turn[m].at = "lock"
    /\ m \notin cancelled
    /\ HasLock(m)
    /\ Enter(m, turn[m], Queue(m))
    /\ UNCHANGED <<lifecycle, inbox, sent, count, cancelled, ready, live, attach>>

Goes(m) == turn[m].at = "run" /\ m \notin cancelled

\* on_event of a live turn
Emit(m) ==
    /\ Goes(m) /\ Web(m) /\ ~Http(m)
    /\ turn[m].frames < MaxFrames
    /\ turn' = [turn EXCEPT ![m].frames = @ + 1]
    /\ Emitted(m, turn[m].frames + 1)
    /\ UNCHANGED <<lifecycle, bus, count, cancelled, ready, lock, log, live, attach>>

\* The backup model gets the turn, and reads the history again.
Retry(m) ==
    /\ Goes(m)
    /\ turn' = [turn EXCEPT ![m].read = Members(log)]
    /\ UNCHANGED <<lifecycle, bus, count, cancelled, ready, lock, log, web>>

\* The turn is over: the exchange is appended and the reply returned.  Without a
\* text there is no reply to send.
Reply(m) ==
    /\ Goes(m)
    /\ log' = Append(log, m)
    /\ \E end \in IF Web(m) THEN {"content"} ELSE {"content", "silent"} :
         Over(m, turn[m], end)
    /\ Locked(turn[m], Tail(Queue(m)))
    /\ UNCHANGED <<lifecycle, inbox, sent, count, cancelled, ready, live, attach>>

\* mutant: the exception ends the task
TurnDies(m) ==
    /\ Goes(m)
    /\ Over(m, turn[m], "error")
    /\ Locked(turn[m], Tail(Queue(m)))
    /\ UNCHANGED <<lifecycle, inbox, sent, count, cancelled, ready, log, live, attach>>

\* The file cannot be written, at the first or at the second message: an apology
\* is the reply.
AppendFails(m) ==
    /\ Goes(m)
    /\ log' \in {log, Append(log, m)}
    /\ Over(m, turn[m], IF Web(m) THEN "error" ELSE "content")
    /\ Locked(turn[m], Tail(Queue(m)))
    /\ UNCHANGED <<lifecycle, inbox, sent, count, cancelled, ready, live, attach>>

\* mutant: nobody is told of the cancellation
StopsSilently(m) ==
    /\ m \in cancelled
    /\ turn[m].at \in {"lock", "run"}
    /\ turn' = [turn EXCEPT ![m].at = "over"]
    /\ \E n \in DOMAIN Queue(m) : Queue(m)[n] = m /\ Locked(turn[m], Without(Queue(m), n))
    /\ UNCHANGED <<lifecycle, bus, count, cancelled, ready, log, web>>

\* CancelledError, in the agent loop or while waiting for the lock.
CancelDelivered(m) ==
    /\ m \in cancelled
    /\ turn[m].at \in {"lock", "run"}
    /\ Over(m, turn[m], "stopped")
    /\ \E n \in DOMAIN Queue(m) : Queue(m)[n] = m /\ Locked(turn[m], Without(Queue(m), n))
    /\ UNCHANGED <<lifecycle, inbox, sent, count, cancelled, ready, log, live, attach>>

\* delete_session() of the web API takes no lock.
DeleteSession ==
    /\ log # <<>>
    /\ log' = <<>>
    /\ UNCHANGED <<lifecycle, bus, count, tasks, web>>

----------------------------------------------------------------------------
TurnStep(m) ==
    \/ Resume(m)
    \/ Reply(m)
    \/ AppendFails(m)
    \/ CancelDelivered(m)

Next ==
    \/ StartPartner
    \/ \E s \in Stoppers : StopPartner(s) \/ StopFinishes(s)
    \/ \E i \in Instances :
         \/ RunnerEnds(i)
         \/ \E k \in ImKeys : Receive(i, k)
         \/ Consume(i)
         \/ Send(i)
    \/ \E k \in WebKeys :
         \/ \E w \in Sockets : SendWeb(w, k) \/ Attach(w, k)
         \/ SendHttp(k)
         \/ StopWeb(k)
    \/ \E w \in Sockets : Attached(w)
    \/ Begin
    \/ \E m \in Messages : TurnStep(m) \/ Emit(m) \/ Retry(m) \/ HangUp(m)
    \/ DeleteSession

Spec == Init /\ [][Next]_vars

\* The loop runs every task that can run, and the agent loop of a turn ends.
FairSpec ==
    /\ Spec
    /\ WF_vars(Begin)
    /\ \A i \in Instances : WF_vars(Consume(i)) /\ WF_vars(Send(i)) /\ WF_vars(RunnerEnds(i))
    /\ \A m \in Messages : WF_vars(TurnStep(m))

----------------------------------------------------------------------------
(* Properties *)

Stages == {"none", "inbox", "new", "lock", "run", "over"}
Ends == {"none", "content", "silent", "error", "stopped"}
Turn == [at : Stages, key : Keys \cup {"none"}, inst : 0 .. MaxInstances,
         read : SUBSET Messages, frames : Nat, end : Ends]
Watch == [turn : 0 .. MaxMessages, on : BOOLEAN, got : Seq(Nat), end : Ends]

\* The variables have their types.
TypeOK ==
    /\ registered \in 0 .. MaxInstances
    /\ started \in 0 .. MaxInstances
    /\ phase \in [Instances -> {"none", "up", "cancelled", "down"}]
    /\ stopping \in [Stoppers -> 0 .. MaxInstances]
    /\ inbox \in [Instances -> Seq(Messages)]
    /\ outbox \in [Instances -> Seq(Messages)]
    /\ sent \subseteq Messages
    /\ count \in 0 .. MaxMessages
    /\ turn \in [Messages -> Turn]
    /\ cancelled \subseteq Messages
    /\ ready \in Seq(Messages)
    /\ lock \in [Instances -> [Keys -> Seq(Messages)]]
    /\ live \in [Instances -> [WebKeys -> 0 .. MaxMessages]]
    /\ log \in Seq(Messages)
    /\ watch \in [Sockets -> Watch]
    /\ attach \in [Sockets -> 0 .. MaxMessages]

\* Two turns take the same lock, which they do only in the same instance.
SameLine(a, b) == turn[a].inst = turn[b].inst /\ turn[a].key = turn[b].key

\* Turns of one key of one instance follow each other: in the file they stand in
\* the order their messages came, and each was answered with every earlier one in
\* view, through waiting, cancelling, retries, commands, and deletions by others.
\* A web turn that outlives stop_partner() may overlap those of the same key that
\* the partner takes when it is started again.
TurnsFollow ==
    \A a, b \in DOMAIN log :
        a < b /\ SameLine(log[a], log[b]) =>
            log[a] < log[b] /\ log[a] \in turn[log[b]].read

\* A socket was given every frame of its turn once, in order, and the end when
\* there is one, whenever it joined.
SocketsSeeAll ==
    \A w \in Sockets :
        watch[w].turn # 0 =>
            /\ watch[w].got = [n \in 1 .. turn[watch[w].turn].frames |-> n]
            /\ watch[w].end = turn[watch[w].turn].end

\* The partner implements TurnLines: each key of each instance is a line, which a
\* message joins when its task begins.
Stage(m) ==
    CASE turn[m].at \in {"none", "inbox", "new"} -> "coming"
      [] turn[m].at = "lock" -> "waiting"
      [] turn[m].at = "run" -> "served"
      [] turn[m].at = "over" ->
            IF turn[m].end \in {"content", "silent"} THEN "answered" ELSE "dropped"
Line(m) == IF turn[m].at \in {"none", "inbox", "new"} THEN <<>> ELSE <<turn[m].inst, turn[m].key>>
Contract == INSTANCE TurnLines WITH
    Lines <- Instances \X Keys, NoLine <- <<>>,
    stage <- [m \in Messages |-> Stage(m)], line <- [m \in Messages |-> Line(m)]
ContractSpec == Contract!Spec

\* A message is answered, unless the partner is stopped or has nothing to say.
MessagesAreAnswered ==
    \A m \in Messages :
        turn[m].at = "inbox" ~>
            \/ m \in sent
            \/ turn[m].end = "silent"
            \/ \E i \in Instances : turn[m].inst = i /\ phase[i] # "up"

\* A web turn or an HTTP request that has begun comes to an end, also for those who
\* watch it, whatever becomes of the partner, of the socket and of the turn it waits
\* for.
WebTurnsEnd ==
    \A m \in Messages :
        Web(m) /\ turn[m].at \in {"lock", "run"} ~> turn[m].end # "none"

=============================================================================
