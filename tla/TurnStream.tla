---------------------------- MODULE TurnStream -----------------------------
(***************************************************************************)
(* The events of one turn: published live by its runner, buffered, stored  *)
(* when the stream is over, and followed by any number of subscriptions    *)
(* that join, leave and resume at any moment (_publish_live_event,         *)
(* _flush_buffered_events and subscribe_turn of                            *)
(* deeptutor/services/session/turn_runtime.py).                            *)
(*                                                                         *)
(* The events are numbered 1, 2, ... as they are published.  What is       *)
(* stored is a prefix of them, since one flush per turn appends them in    *)
(* order.  The sections under the manager's lock contain no await, so they *)
(* are never waited for and are part of the action they occur in.  A       *)
(* subscription is an async generator: it may stop for long at each yield, *)
(* while its consumer sends to a socket.                                   *)
(*                                                                         *)
(* The runner is that of TurnRuntime with its awaits before the flush      *)
(* taken together ("stream").  Task.cancel() and the delivery of the       *)
(* CancelledError are one action: the runner does nothing in between.      *)
(***************************************************************************)
EXTENDS Integers, Sequences

CONSTANTS
    Subscribers,  \* calls of subscribe_turn()
    MaxEvents,    \* bound: events the orchestrator yields
    MaxCancels,   \* bound: cancellations of the runner
    MaxFails,     \* bound: exceptions in the runner's body
    MaxFaults,    \* bound: store errors inside its exception handlers
    MaxCrashes    \* bound: process restarts

ASSUME StreamAssumption ==
    /\ MaxEvents \in Nat
    /\ MaxCancels \in Nat
    /\ MaxFails \in Nat
    /\ MaxFaults \in Nat
    /\ MaxCrashes \in Nat

Terminal == {"completed", "failed", "cancelled"}
Kinds == {"session", "event", "error", "done", "meta"}

End == 0      \* the None put on a queue by the runner's finally
Synth == 0    \* the seq of a synthesized DONE

VARIABLES
    runner,     \* the await the runner is suspended at
    kinds,      \* the type of each event published (execution.events)
    flushed,    \* execution.events_flushed
    toStore,    \* how many events the flush has taken over
    stored,     \* how many of them are in turn_events
    status,     \* the status of the turn's row
    late,       \* statuses a worker thread still writes for a gone caller
    lateEvent,  \* so does one append_turn_event
    stage,      \* where each subscription stands
    start,      \* its after_seq
    last,       \* its last_seq
    todo,       \* the list it is going through
    joined,     \* it found the execution and is in its subscribers
    queue,      \* its live queue
    got,        \* the seqs of the events it has yielded
    cancels, fails, faults, crashes

storage == <<flushed, toStore, stored, lateEvent>>
rows == <<status, late>>
reader == <<stage, start, last, todo, joined>>
budget == <<cancels, fails, faults, crashes>>
vars == <<runner, kinds, flushed, toStore, stored, status, late, lateEvent, stage, start,
          last, todo, joined, queue, got, cancels, fails, faults, crashes>>

Body == {"stream", "flush", "complete"}
CancelHandler == {"cFlush", "cSave", "cStatus"}
FailHandler == {"fFlush", "fStatus"}

\* The turn is in self._executions.
Live == runner \in Body \cup {"title"} \cup CancelHandler \cup FailHandler

\* execution.subscribers: from the join until the generator's finally.
Registered(s) == joined[s] /\ stage[s] \in {"live", "queue"}

\* start_turn has published SESSION, registered the execution and created its task.
Init ==
    /\ runner = "stream"
    /\ kinds = <<"session">>
    /\ flushed = FALSE
    /\ toStore = 0
    /\ stored = 0
    /\ status = "running"
    /\ late = {}
    /\ lateEvent = FALSE
    /\ stage = [s \in Subscribers |-> "new"]
    /\ start = [s \in Subscribers |-> 0]
    /\ last = [s \in Subscribers |-> 0]
    /\ todo = [s \in Subscribers |-> <<>>]
    /\ joined = [s \in Subscribers |-> FALSE]
    /\ queue = [s \in Subscribers |-> <<>>]
    /\ got = [s \in Subscribers |-> <<>>]
    /\ cancels = 0 /\ fails = 0 /\ faults = 0 /\ crashes = 0

\* The numbers lo+1, ..., hi.
Seqs(lo, hi) == [i \in 1 .. (IF hi > lo THEN hi - lo ELSE 0) |-> lo + i]

----------------------------------------------------------------------------
(* Publishing *)

\* Mutation: the runner leaves its subscribers waiting.
NoSentinel == <<>>

\* What the runner's finally puts on each subscriber's queue.
Sentinel == <<End>>

\* _publish_live_event for each of ks, one after the other, and then, when the
\* runner leaves, the sentinel of its finally.
Publish(ks, leaving) ==
    /\ kinds' = kinds \o ks
    /\ queue' = [s \in Subscribers |->
                    IF Registered(s)
                    THEN queue[s] \o Seqs(Len(kinds), Len(kinds) + Len(ks))
                                  \o (IF leaving THEN Sentinel ELSE <<>>)
                    ELSE queue[s]]

\* The orchestrator yields an event.
Stream ==
    /\ runner = "stream"
    /\ Len(kinds) =< MaxEvents
    /\ Publish(<<"event">>, FALSE)
    /\ UNCHANGED <<runner, storage, rows, reader, got, budget>>

\* Mutation: one event too few.
BeginFlushShort(n) ==
    /\ flushed' = TRUE
    /\ toStore' = n - 1
    /\ UNCHANGED <<stored, lateEvent>>

\* _flush_buffered_events up to its first append: it takes over n events.
BeginFlush(n) ==
    /\ flushed' = TRUE
    /\ toStore' = n
    /\ UNCHANGED <<stored, lateEvent>>

\* The stream is over and the answer is saved.
EndOfStream ==
    /\ runner = "stream"
    /\ runner' = "flush"
    /\ BeginFlush(Len(kinds))
    /\ UNCHANGED <<kinds, queue, rows, reader, got, budget>>

\* append_turn_event of the next event taken over.
AppendEvent ==
    /\ runner \in {"flush", "cFlush", "fFlush"}
    /\ stored < toStore
    /\ stored' = stored + 1
    /\ UNCHANGED <<runner, kinds, flushed, toStore, lateEvent, rows, reader, queue, got,
                   budget>>

\* Something was published before the cancellation: it is worth a message.
Produced == \E i \in 1 .. Len(kinds) : kinds[i] = "event"

SaveOrSettle == IF Produced THEN "cSave" ELSE "cStatus"

\* Every event taken over is stored.
EndFlush ==
    /\ stored = toStore
    /\ \/ runner = "flush" /\ runner' = "complete"
       \/ runner = "cFlush" /\ runner' = SaveOrSettle
       \/ runner = "fFlush" /\ runner' = "fStatus"
    /\ UNCHANGED <<kinds, queue, storage, rows, reader, got, budget>>

\* The row says completed, DONE is published; a regenerated turn has no title to
\* make and leaves.
Complete ==
    /\ runner = "complete"
    /\ status' = "completed"
    /\ \E regen \in BOOLEAN :
          /\ runner' = IF regen THEN "ended" ELSE "title"
          /\ Publish(<<"done">>, regen)
    /\ UNCHANGED <<late, storage, reader, got, budget>>

\* The title is published, or there is none; the runner leaves.
TitleDone ==
    /\ runner = "title"
    /\ runner' = "ended"
    /\ \E ks \in {<<>>, <<"meta">>} : Publish(ks, TRUE)
    /\ UNCHANGED <<storage, rows, reader, got, budget>>

\* The partial answer of a cancelled turn is saved.
Saved ==
    /\ runner = "cSave"
    /\ runner' = "cStatus"
    /\ UNCHANGED <<kinds, queue, storage, rows, reader, got, budget>>

\* The handler's status write; the runner leaves.
Settle ==
    /\ \/ runner = "cStatus" /\ status' = "cancelled"
       \/ runner = "fStatus" /\ status' = "failed"
    /\ runner' = "ended"
    /\ Publish(<<>>, TRUE)
    /\ UNCHANGED <<late, storage, reader, got, budget>>

\* An exception in the body: ERROR and DONE are published, and the events stored
\* unless the body's flush has begun.
Fail ==
    /\ runner \in Body
    /\ fails < MaxFails
    /\ fails' = fails + 1
    /\ Publish(<<"error", "done">>, FALSE)
    /\ IF flushed
       THEN runner' = "fStatus" /\ UNCHANGED storage
       ELSE runner' = "fFlush" /\ BeginFlush(Len(kinds'))
    /\ UNCHANGED <<rows, reader, got, cancels, faults, crashes>>

\* A store error inside a handler: the rest of that step is not done.
HandlerFault ==
    /\ runner \in CancelHandler \cup FailHandler
    /\ faults < MaxFaults
    /\ faults' = faults + 1
    /\ runner' = CASE runner = "cFlush" -> SaveOrSettle
                   [] runner = "fFlush" -> "fStatus"
                   [] runner = "cSave" -> "cStatus"
                   [] OTHER -> "ended"
    /\ Publish(<<>>, runner' = "ended")
    /\ UNCHANGED <<storage, rows, reader, got, cancels, fails, crashes>>

\* What the await the runner is torn from leaves to its worker thread.
LeaveBehind ==
    /\ \/ UNCHANGED late
       \/ runner = "complete" /\ late' = late \cup {"completed"}
       \/ runner = "cStatus" /\ late' = late \cup {"cancelled"}
       \/ runner = "fStatus" /\ late' = late \cup {"failed"}
    /\ UNCHANGED status

LeaveAppend ==
    lateEvent' \in IF runner \in {"flush", "cFlush", "fFlush"} /\ stored < toStore
                   THEN BOOLEAN
                   ELSE {lateEvent}

\* CancelledError in the body: ERROR and DONE are published unless DONE was, and
\* the events stored unless a flush has begun.
Cancel ==
    /\ runner \in Body \cup {"title"}
    /\ cancels < MaxCancels
    /\ cancels' = cancels + 1
    /\ Publish(IF runner = "title" THEN <<>> ELSE <<"error", "done">>, FALSE)
    /\ LeaveBehind
    /\ IF flushed
       THEN runner' = SaveOrSettle /\ LeaveAppend /\ UNCHANGED <<flushed, toStore, stored>>
       ELSE runner' = "cFlush" /\ BeginFlush(Len(kinds'))
    /\ UNCHANGED <<reader, got, fails, faults, crashes>>

\* CancelledError in a handler goes through: the runner leaves.
CancelAgain ==
    /\ runner \in CancelHandler \cup FailHandler
    /\ cancels < MaxCancels
    /\ cancels' = cancels + 1
    /\ runner' = "ended"
    /\ Publish(<<>>, TRUE)
    /\ LeaveBehind /\ LeaveAppend
    /\ UNCHANGED <<flushed, toStore, stored, reader, got, fails, faults, crashes>>

LandStatus ==
    /\ \E s \in late : status' = s /\ late' = late \ {s}
    /\ UNCHANGED <<runner, kinds, storage, reader, queue, got, budget>>

LandEvent ==
    /\ lateEvent
    /\ lateEvent' = FALSE
    /\ stored' = stored + 1
    /\ UNCHANGED <<runner, kinds, flushed, toStore, rows, reader, queue, got, budget>>

----------------------------------------------------------------------------
(* subscribe_turn *)

\* A real DONE has been yielded (done_yielded).
DoneYielded(s) ==
    \E i \in 1 .. Len(got[s]) : got[s][i] # Synth /\ kinds[got[s][i]] = "done"

Enter(s, where) == stage' = [stage EXCEPT ![s] = where]

YieldSeq(s, seq) == got' = [got EXCEPT ![s] = Append(@, seq)]

\* The stored events after after_seq, which is one the client has seen.
Open(s, after) ==
    /\ stage[s] = "new"
    /\ Enter(s, "backlog")
    /\ start' = [start EXCEPT ![s] = after]
    /\ last' = [last EXCEPT ![s] = after]
    /\ todo' = [todo EXCEPT ![s] = Seqs(after, stored)]
    /\ UNCHANGED <<runner, kinds, storage, rows, joined, queue, got, budget>>

\* The next item of the list: yielded unless it was before.
YieldNext(s) ==
    /\ stage[s] \in {"backlog", "live", "catchup"}
    /\ todo[s] # <<>>
    /\ todo' = [todo EXCEPT ![s] = Tail(@)]
    /\ IF Head(todo[s]) > last[s]
       THEN YieldSeq(s, Head(todo[s])) /\ last' = [last EXCEPT ![s] = Head(todo[s])]
       ELSE UNCHANGED <<got, last>>
    /\ UNCHANGED <<runner, kinds, storage, rows, stage, start, joined, queue, budget>>

\* Mutation: only what is published from now on.
NoLiveBacklog(s) == <<>>

\* The buffered events the subscription has not seen.
LiveBacklog(s) == Seqs(last[s], Len(kinds))

\* Registered and handed the buffer in one step; without an execution, the store
\* will be read again.
Join(s) ==
    /\ stage[s] = "backlog" /\ todo[s] = <<>>
    /\ joined' = [joined EXCEPT ![s] = Live]
    /\ IF Live
       THEN Enter(s, "live") /\ todo' = [todo EXCEPT ![s] = LiveBacklog(s)]
       ELSE Enter(s, "reread") /\ UNCHANGED todo
    /\ UNCHANGED <<runner, kinds, storage, rows, start, last, queue, got, budget>>

\* What was stored meanwhile.
Reread(s) ==
    /\ stage[s] = "reread"
    /\ Enter(s, "catchup")
    /\ todo' = [todo EXCEPT ![s] = Seqs(last[s], stored)]
    /\ UNCHANGED <<runner, kinds, storage, rows, start, last, joined, queue, got, budget>>

\* A turn that is over: yield a DONE unless one was, and before it, for a failed
\* turn whose row says why, an ERROR.  That has no seq of its own: it is the stage
\* "told" that stands for it.
Finish(s) ==
    \/ DoneYielded(s) /\ Enter(s, "ended") /\ UNCHANGED got
    \/ ~DoneYielded(s) /\ Enter(s, "ended") /\ YieldSeq(s, Synth)
    \/ ~DoneYielded(s) /\ status = "failed" /\ Enter(s, "told") /\ UNCHANGED got

\* get_turn: the row matters only without an execution; one that still says
\* running is an orphan.
GetTurn(s) ==
    /\ stage[s] \in {"live", "catchup"} /\ todo[s] = <<>>
    /\ \/ joined[s] /\ Enter(s, "queue") /\ UNCHANGED got
       \/ ~joined[s] /\ status = "running" /\ Enter(s, "orphan") /\ UNCHANGED got
       \/ ~joined[s] /\ status # "running" /\ Finish(s)
    /\ UNCHANGED <<runner, kinds, storage, rows, start, last, todo, joined, queue, budget>>

MarkOrphan(s) ==
    /\ stage[s] = "orphan"
    /\ status' = "failed"
    /\ Enter(s, "judge")
    /\ UNCHANGED <<runner, kinds, storage, late, start, last, todo, joined, queue, got,
                   budget>>

\* Another client's start_turn or cancel_turn finds the row without a runner.
Recover ==
    /\ status = "running"
    /\ ~Live
    /\ status' = "failed"
    /\ UNCHANGED <<runner, kinds, storage, late, reader, queue, got, budget>>

\* The row, read again: should it say running, wait on a queue nobody fills.
Judge(s) ==
    /\ stage[s] = "judge"
    /\ IF status = "running" THEN Enter(s, "queue") /\ UNCHANGED got ELSE Finish(s)
    /\ UNCHANGED <<runner, kinds, storage, rows, start, last, todo, joined, queue, budget>>

\* The DONE after a synthesized ERROR.
CloseTold(s) ==
    /\ stage[s] = "told"
    /\ Enter(s, "ended")
    /\ YieldSeq(s, Synth)
    /\ UNCHANGED <<runner, kinds, storage, rows, start, last, todo, joined, queue, budget>>

\* Mutation: whether DONE was yielded is not tracked.
AlwaysLook(s) == "final"

\* The finally once the queue has ended: look at the row unless DONE was yielded.
Drained(s) == IF DoneYielded(s) THEN "ended" ELSE "final"

\* queue.get()
Take(s) ==
    /\ stage[s] = "queue"
    /\ queue[s] # <<>>
    /\ queue' = [queue EXCEPT ![s] = Tail(@)]
    /\ LET seq == Head(queue[s]) IN
       IF seq = End
       THEN Enter(s, Drained(s)) /\ UNCHANGED <<got, last>>
       ELSE /\ UNCHANGED stage
            /\ IF seq > last[s]
               THEN YieldSeq(s, seq) /\ last' = [last EXCEPT ![s] = seq]
               ELSE UNCHANGED <<got, last>>
    /\ UNCHANGED <<runner, kinds, storage, rows, start, todo, joined, budget>>

\* Mutation: a DONE for any row.
AnyStatus == TRUE

\* The rows a DONE is synthesized for.
Settled == status \in Terminal

\* The finally's look at the row, for a drained ("final") and for a cancelled
\* ("closing") subscription.
Final(s) ==
    /\ stage[s] \in {"final", "closing"}
    /\ Enter(s, IF stage[s] = "final" THEN "ended" ELSE "gone")
    /\ IF Settled THEN YieldSeq(s, Synth) ELSE UNCHANGED got
    /\ UNCHANGED <<runner, kinds, storage, rows, start, last, todo, joined, queue, budget>>

\* The consumer's task is cancelled: unsubscribe, a socket closed, a subscription
\* replaced.  Waiting on its queue, the generator still runs its finally.
Abandon(s) ==
    /\ stage[s] \in {"backlog", "live", "reread", "catchup", "orphan", "judge", "told",
                     "queue", "final", "closing"}
    /\ Enter(s, IF stage[s] = "queue" /\ ~DoneYielded(s) THEN "closing" ELSE "gone")
    /\ UNCHANGED <<runner, kinds, storage, rows, start, last, todo, joined, queue, got,
                   budget>>

----------------------------------------------------------------------------
\* The process dies: what is not stored is lost, the row is not updated, and
\* every subscription of this process is gone.
Crash ==
    /\ crashes < MaxCrashes
    /\ crashes' = crashes + 1
    /\ runner' = IF Live THEN "crashed" ELSE runner
    /\ late' = {}
    /\ lateEvent' = FALSE
    /\ stage' = [s \in Subscribers |->
                    IF stage[s] \in {"new", "ended"} THEN stage[s] ELSE "gone"]
    /\ UNCHANGED <<kinds, flushed, toStore, stored, status, start, last, todo, joined,
                   queue, got, cancels, fails, faults>>

RunnerStep ==
    \/ Stream \/ EndOfStream \/ AppendEvent \/ EndFlush \/ Complete \/ TitleDone
    \/ Saved \/ Settle \/ Fail \/ HandlerFault \/ Cancel \/ CancelAgain

\* What a subscription does whose consumer keeps asking.
Progress(s) ==
    \/ YieldNext(s) \/ Join(s) \/ Reread(s) \/ GetTurn(s) \/ MarkOrphan(s) \/ Judge(s)
    \/ CloseTold(s) \/ Take(s) \/ Final(s)

Next ==
    \/ RunnerStep
    \/ LandStatus
    \/ LandEvent
    \/ \E s \in Subscribers :
          \/ \E after \in 0 .. Len(kinds) : Open(s, after)
          \/ Progress(s)
          \/ Abandon(s)
    \/ Recover
    \/ Crash

Spec == Init /\ [][Next]_vars

\* A consumer keeps asking until it is cancelled.
FairSpec == Spec /\ \A s \in Subscribers : WF_vars(Progress(s))

----------------------------------------------------------------------------
(* Properties *)

MaxSeq == MaxEvents + 3

TypeOK ==
    /\ runner \in Body \cup CancelHandler \cup FailHandler \cup {"title", "ended", "crashed"}
    /\ kinds \in Seq(Kinds) /\ Len(kinds) =< MaxSeq
    /\ flushed \in BOOLEAN /\ lateEvent \in BOOLEAN
    /\ toStore \in 0 .. Len(kinds) /\ stored \in 0 .. toStore
    /\ status \in {"running"} \cup Terminal
    /\ late \subseteq Terminal
    /\ stage \in [Subscribers -> {"new", "backlog", "live", "reread", "catchup", "orphan",
                                  "judge", "told", "queue", "final", "closing", "ended",
                                  "gone"}]
    /\ start \in [Subscribers -> 0 .. MaxSeq]
    /\ last \in [Subscribers -> 0 .. MaxSeq]
    /\ todo \in [Subscribers -> Seq(1 .. MaxSeq)]
    /\ joined \in [Subscribers -> BOOLEAN]
    /\ queue \in [Subscribers -> Seq(0 .. MaxSeq)]
    /\ got \in [Subscribers -> Seq(0 .. MaxSeq)]
    /\ cancels \in 0 .. MaxCancels /\ fails \in 0 .. MaxFails
    /\ faults \in 0 .. MaxFaults /\ crashes \in 0 .. MaxCrashes

\* A subscription yields the events after after_seq one by one, without a gap and
\* without a duplicate, whatever it takes them from; a synthesized DONE is last.
Contiguous ==
    \A s \in Subscribers :
        \A i \in 1 .. Len(got[s]) :
            IF got[s][i] = Synth THEN i = Len(got[s]) ELSE got[s][i] = start[s] + i

\* A subscription that ends by itself has told its client that the turn is over,
\* once; unless the client had been told before it subscribed.
EndsWithDone ==
    \A s \in Subscribers :
        LET dones == {i \in 1 .. Len(got[s]) :
                         got[s][i] = Synth \/ kinds[got[s][i]] = "done"}
        IN  /\ \A i, j \in dones : i = j
            /\ (stage[s] = "ended" /\ dones = {}) =>
                   \E i \in 1 .. start[s] : kinds[i] = "done"

\* "a synthetic DONE would falsely mark the turn completed while the backend is
\* still awaiting input" (turn_runtime.py:1085-1087): none is ever yielded before
\* the runner has left its body.
SynthesizedIsLate ==
    \A s \in Subscribers :
        (\E i \in 1 .. Len(got[s]) : got[s][i] = Synth) => runner \notin Body

\* A completed turn can be replayed from the store: every event its answer was
\* made of is there.
CompletedIsStored ==
    status = "completed" =>
        \A i \in 1 .. Len(kinds) : kinds[i] = "event" => i =< stored

\* Once the turn is over every subscription comes to its end, so that the client
\* stops showing it as streaming.
SubscriptionsEnd ==
    \A s \in Subscribers :
        (~Live /\ stage[s] # "new") ~> (stage[s] \in {"ended", "gone"})

\* The contract of EventFeed.
Feed == INSTANCE EventFeed WITH
            Readers <- Subscribers,
            len <- Len(kinds),
            open <- Live,
            pos <- [s \in Subscribers |-> IF stage[s] = "new" THEN -1 ELSE last[s]]
FeedSpec == Feed!Spec

=============================================================================
