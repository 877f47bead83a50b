----------------------------- MODULE StreamBus -----------------------------
(***************************************************************************)
(* The per-turn fan-out event bus of deeptutor/core/stream_bus.py.         *)
(*                                                                         *)
(* A capability emits events, any number of consumers iterate over         *)
(* `subscribe()`, and a tool may pause on `wait_for_input()` until the     *)
(* transport calls `submit_input()`.  Everything runs on one asyncio loop: *)
(* the code between two awaits that really suspend is one action.  A `put` *)
(* on an unbounded queue never suspends, so `emit`, `close` and            *)
(* `submit_input` are single actions.                                      *)
(*                                                                         *)
(* The event the i-th successful `emit` appends to `_history` is the       *)
(* number i, so `_history` is 1..emitted and a consumer that is handed an  *)
(* event out of order, twice or not at all shows in what it received.      *)
(***************************************************************************)
EXTENDS Integers, Sequences, FiniteSets

CONSTANTS
    Subscribers,  \* calls of subscribe(), each one consumer
    Waiters,      \* calls of wait_for_input()
    Timed,        \* those of Waiters that pass a finite timeout
    MaxEvents,    \* bound: events emitted
    MaxCloses,    \* bound: calls of close()
    MaxInputs     \* bound: calls of submit_input()

ASSUME BusAssumption ==
    /\ MaxEvents \in Nat
    /\ MaxCloses \in Nat
    /\ MaxInputs \in Nat
    /\ Timed \subseteq Waiters

Nil == 0                       \* the None put by close()
Item == 0 .. MaxEvents         \* what a subscriber queue may hold

VARIABLES
    emitted,    \* Len(self._history)
    closes,     \* calls of close() so far
    phase,      \* where each subscriber's generator stands
    replayed,   \* replay_count: the length of _history at registration
    queue,      \* the subscriber's asyncio.Queue
    got,        \* every event the generator has yielded, in order
    waiter,     \* where each wait_for_input() call stands
    inputs,     \* its input_queue
    submitted   \* calls of submit_input() so far

busVars == <<emitted, closes, phase, replayed, queue, got>>
inputVars == <<waiter, inputs, submitted>>
vars == <<emitted, closes, phase, replayed, queue, got, waiter, inputs, submitted>>

Closed == closes > 0

\* A generator is in self._subscribers between its first step and its finally.
Registered == {s \in Subscribers : phase[s] \in {"replay", "live"}}

\* self._input_listeners: registered, and not cleared by a submit_input().
Listeners == {w \in Waiters : waiter[w] = "listening"}

Init ==
    /\ emitted = 0
    /\ closes = 0
    /\ phase = [s \in Subscribers |-> "new"]
    /\ replayed = [s \in Subscribers |-> 0]
    /\ queue = [s \in Subscribers |-> <<>>]
    /\ got = [s \in Subscribers |-> <<>>]
    /\ waiter = [w \in Waiters |-> "new"]
    /\ inputs = [w \in Waiters |-> <<>>]
    /\ submitted = 0

----------------------------------------------------------------------------
(* Producers *)

\* put the item on every subscriber's queue
PutAll(item) ==
    queue' = [s \in Subscribers |->
                 IF s \in Registered THEN Append(queue[s], item) ELSE queue[s]]

\* emit() on an open bus; on a closed one it returns without effect.
Emit ==
    /\ ~Closed
    /\ emitted < MaxEvents
    /\ emitted' = emitted + 1
    /\ PutAll(emitted + 1)
    /\ UNCHANGED <<closes, phase, replayed, got, inputVars>>

\* close(), which may be called again on a closed bus.
Close ==
    /\ closes < MaxCloses
    /\ closes' = closes + 1
    /\ PutAll(Nil)
    /\ UNCHANGED <<emitted, phase, replayed, got, inputVars>>

----------------------------------------------------------------------------
(* Consumers: one subscribe() generator each *)

\* First step: register the queue and snapshot the replay range.
Subscribe(s) ==
    /\ phase[s] = "new"
    /\ phase' = [phase EXCEPT ![s] = "replay"]
    /\ replayed' = [replayed EXCEPT ![s] = emitted]
    /\ UNCHANGED <<emitted, closes, queue, got, inputVars>>

\* Mutation: iterating the live list, which grows while it is replayed.
LiveReplayRange(s) == emitted

\* The length of self._history[:replay_count].
ReplayRange(s) == replayed[s]

\* Yield the next event of the replay range.
Replay(s) ==
    /\ phase[s] = "replay"
    /\ Len(got[s]) < ReplayRange(s)
    /\ got' = [got EXCEPT ![s] = Append(@, Len(@) + 1)]
    /\ UNCHANGED <<emitted, closes, phase, replayed, queue, inputVars>>

\* Mutations: leave on a closed bus whatever is queued; never leave early.
ExhaustedIfClosed(s) == Closed
NeverExhausted(s) == FALSE

\* Nothing can arrive any more on this consumer's queue.
Exhausted(s) == Closed /\ queue[s] = <<>>

\* The replay is over: return at once when the stream is exhausted.
EndReplay(s) ==
    /\ phase[s] = "replay"
    /\ Len(got[s]) >= ReplayRange(s)
    /\ phase' = [phase EXCEPT ![s] = IF Exhausted(s) THEN "ended" ELSE "live"]
    /\ UNCHANGED <<emitted, closes, replayed, queue, got, inputVars>>

\* q.get(): yield the event, or leave on the sentinel.
Take(s) ==
    /\ phase[s] = "live"
    /\ queue[s] # <<>>
    /\ queue' = [queue EXCEPT ![s] = Tail(@)]
    /\ \/ /\ Head(queue[s]) = Nil
          /\ phase' = [phase EXCEPT ![s] = "ended"]
          /\ UNCHANGED got
       \/ /\ Head(queue[s]) # Nil
          /\ got' = [got EXCEPT ![s] = Append(@, Head(queue[s]))]
          /\ UNCHANGED phase
    /\ UNCHANGED <<emitted, closes, replayed, inputVars>>

\* The consumer is cancelled or stops iterating: only the finally runs.
Abandon(s) ==
    /\ phase[s] \in {"replay", "live"}
    /\ phase' = [phase EXCEPT ![s] = "abandoned"]
    /\ UNCHANGED <<emitted, closes, replayed, queue, got, inputVars>>

----------------------------------------------------------------------------
(* wait_for_input / submit_input *)

\* The prompt event is emitted (dropped on a closed bus) and the listener is
\* registered before the coroutine first suspends.
WaitForInput(w) ==
    /\ waiter[w] = "new"
    /\ Closed \/ emitted < MaxEvents
    /\ waiter' = [waiter EXCEPT ![w] = "listening"]
    /\ IF Closed
       THEN UNCHANGED <<emitted, queue>>
       ELSE emitted' = emitted + 1 /\ PutAll(emitted + 1)
    /\ UNCHANGED <<closes, phase, replayed, got, inputs, submitted>>

\* Mutation: the listener list is not cleared.
StillListening == "listening"

\* What clear() makes of a listener that was just served.
Cleared == "served"

\* Every listener gets the content and the listener list is cleared; without
\* listeners the content is dropped.
SubmitInput ==
    /\ submitted < MaxInputs
    /\ submitted' = submitted + 1
    /\ inputs' = [w \in Waiters |-> IF w \in Listeners
                                    THEN Append(inputs[w], submitted + 1)
                                    ELSE inputs[w]]
    /\ waiter' = [w \in Waiters |-> IF w \in Listeners THEN Cleared ELSE waiter[w]]
    /\ UNCHANGED busVars

\* wait_for() returns the content the inner get() obtained.
ReturnInput(w) ==
    /\ waiter[w] = "served"
    /\ inputs' = [inputs EXCEPT ![w] = Tail(@)]
    /\ waiter' = [waiter EXCEPT ![w] = "answered"]
    /\ UNCHANGED <<busVars, submitted>>

\* wait_for()'s timer fires.  It cancels the inner get(), which may already
\* have been woken by a submit_input() of the same loop iteration and not have
\* run yet: then the get() dies with the content still on its queue.
TimeoutInput(w) ==
    /\ w \in Timed
    /\ waiter[w] \in {"listening", "served"}
    /\ waiter' = [waiter EXCEPT ![w] = "timedout"]
    /\ UNCHANGED <<busVars, inputs, submitted>>

----------------------------------------------------------------------------
Next ==
    \/ Emit
    \/ Close
    \/ SubmitInput
    \/ \E s \in Subscribers :
          Subscribe(s) \/ Replay(s) \/ EndReplay(s) \/ Take(s) \/ Abandon(s)
    \/ \E w \in Waiters :
          WaitForInput(w) \/ ReturnInput(w) \/ TimeoutInput(w)

Spec == Init /\ [][Next]_vars

\* The loop resumes a consumer whose next item is there, and a waiter whose
\* answer is there.  Nothing makes a producer emit or close.
Fairness ==
    /\ \A s \in Subscribers : WF_vars(Replay(s) \/ EndReplay(s) \/ Take(s))
    /\ \A w \in Waiters : WF_vars(ReturnInput(w) \/ TimeoutInput(w))

FairSpec == Spec /\ Fairness

----------------------------------------------------------------------------
(* Properties *)

TypeOK ==
    /\ emitted \in 0 .. MaxEvents
    /\ closes \in 0 .. MaxCloses
    /\ phase \in [Subscribers -> {"new", "replay", "live", "ended", "abandoned"}]
    /\ replayed \in [Subscribers -> 0 .. MaxEvents]
    /\ queue \in [Subscribers -> Seq(Item)]
    /\ got \in [Subscribers -> Seq(1 .. MaxEvents)]
    /\ waiter \in [Waiters -> {"new", "listening", "served", "answered", "timedout"}]
    /\ inputs \in [Waiters -> Seq(1 .. MaxInputs)]
    /\ submitted \in 0 .. MaxInputs

\* A consumer sees the history from its first event, in order, without a gap
\* and without a duplicate, whenever it joined: the replay and the queue never
\* overlap and never leave a hole (the comment at stream_bus.py:52-55).
InOrder ==
    \A s \in Subscribers :
        /\ Len(got[s]) =< emitted
        /\ \A i \in 1 .. Len(got[s]) : got[s][i] = i

\* A consumer whose iteration ends by itself has seen every event ever emitted,
\* and the bus was closed: it neither stops early nor drops the tail.
EndedSawEverything ==
    \A s \in Subscribers :
        phase[s] = "ended" => Closed /\ Len(got[s]) = emitted

\* How many events of the history the queue has to bring, after those the replay
\* brings.
Base(s) == IF phase[s] = "replay" THEN replayed[s] ELSE Len(got[s])
Due(s) == emitted - Base(s)

HoldsTheRest(s) ==
    /\ phase[s] = "replay" => Len(got[s]) =< replayed[s] /\ replayed[s] =< emitted
    /\ Len(queue[s]) >= Due(s)
    /\ \A i \in 1 .. Len(queue[s]) :
          queue[s][i] = IF i =< Due(s) THEN Base(s) + i ELSE Nil
    /\ Len(queue[s]) > Due(s) => Closed
    /\ (Closed /\ (phase[s] = "live" \/ Due(s) > 0)) => Len(queue[s]) > Due(s)

\* What makes the two properties above true, at every moment: the events still
\* due are queued in order, followed by sentinels only; and a consumer about to
\* wait on a closed bus has a sentinel to find.
QueueHoldsTheRest == \A s \in Registered : HoldsTheRest(s)

\* One wait_for_input() call is handed at most one content, however many
\* submit_input() calls arrive before it resumes.
OneAnswerPerWait ==
    \A w \in Waiters :
        /\ Len(inputs[w]) =< 1
        /\ waiter[w] = "served" => inputs[w] # <<>>

\* The contract of EventFeed.
Feed == INSTANCE EventFeed WITH
            Readers <- Subscribers,
            len <- emitted,
            open <- ~Closed,
            pos <- [s \in Subscribers |-> IF phase[s] = "new" THEN -1 ELSE Len(got[s])]
FeedSpec == Feed!Spec

\* Once the bus is closed every consumer that keeps iterating comes to its end,
\* also one that registered after the close.
ConsumersEnd ==
    \A s \in Subscribers :
        (Closed /\ phase[s] \in {"replay", "live"}) ~> (phase[s] \in {"ended", "abandoned"})

=============================================================================
