-------------------------- MODULE MemoryRunStream --------------------------
(***************************************************************************)
(* The events of one memory consolidation run and the clients that follow  *)
(* it: deeptutor/services/memory/consolidator/runs.py with the two event   *)
(* streams of deeptutor/api/routers/memory.py.                             *)
(*                                                                         *)
(* The run appends events to a buffer of limited length; a reader asks for *)
(* the events from its cursor on, hands them over one by one, which        *)
(* suspends at each, and asks again.  The n-th event of the run is the     *)
(* number n; its RunEvent.seq is its place in the buffer, counted from 0.  *)
(***************************************************************************)
EXTENDS Integers, Sequences

CONSTANTS
    Streams,        \* readers of GET /runs/{id}/events
    Inline,         \* readers of the streaming POST /doc/{layer}/{key}/<mode>
    Cap,            \* _MAX_EVENTS_PER_RUN
    MaxEvents,      \* bound: events of the run before it ends
    MaxUndos,       \* bound: undos after it ended
    MaxReconnects   \* bound: reconnections of a client

ASSUME RunAssumption ==
    /\ Cap \in Nat \ {0}
    /\ MaxEvents \in Nat
    /\ MaxUndos \in Nat
    /\ MaxReconnects \in Nat
    /\ Streams \cap Inline = {}

Readers == Streams \cup Inline
MaxTotal == MaxEvents + 2 + MaxUndos

VARIABLES
    active,      \* Run.active
    total,       \* events ever emitted
    events,      \* run.events
    undos,       \* undo_applied events so far
    phase,       \* where each reader stands
    cursor,      \* its cursor
    batch,       \* the events it still has to hand over
    nextSeq,     \* one more than the largest seq it handed over
    got,         \* the events its client received
    reconnects

run == <<active, total, events, undos>>
readers == <<phase, cursor, batch, nextSeq, got, reconnects>>
vars == <<active, total, events, undos, phase, cursor, batch, nextSeq, got, reconnects>>

Larger(a, b) == IF a > b THEN a ELSE b

Init ==
    /\ active = TRUE
    /\ total = 0
    /\ events = <<>>
    /\ undos = 0
    /\ phase = [r \in Readers |-> "new"]
    /\ cursor = [r \in Readers |-> 0]
    /\ batch = [r \in Readers |-> <<>>]
    /\ nextSeq = [r \in Readers |-> 0]
    /\ got = [r \in Readers |-> <<>>]
    /\ reconnects = 0

----------------------------------------------------------------------------
(* The run *)

\* The buffer with one more event; the oldest is dropped over the limit, and the
\* others move one place, which is their seq, down.
Pushed(buffer, event) ==
    IF Len(buffer) < Cap THEN Append(buffer, event) ELSE Append(Tail(buffer), event)

\* Mutation: the waiters are not woken.
StillWaiting == "wait"

\* What setting its event makes of a waiting reader.
Woken == "woken"

WakeReaders == phase' = [r \in Readers |-> IF phase[r] = "wait" THEN Woken ELSE phase[r]]

\* _emit() of one event.
EmitOne ==
    /\ total' = total + 1
    /\ events' = Pushed(events, total + 1)
    /\ WakeReaders

\* The task begins with run_started; then the runner reports progress.
Emit ==
    /\ active
    /\ total < MaxEvents
    /\ EmitOne
    /\ UNCHANGED <<active, undos, cursor, batch, nextSeq, got, reconnects>>

\* The runner returns: run_ended.
End ==
    /\ active
    /\ total > 0
    /\ active' = FALSE
    /\ EmitOne
    /\ UNCHANGED <<undos, cursor, batch, nextSeq, got, reconnects>>

\* The runner is cancelled or raises (no client knows the id of a run that has
\* not started): an event that says so, then run_ended.
EndBadly ==
    /\ active
    /\ total > 0
    /\ active' = FALSE
    /\ total' = total + 2
    /\ events' = Pushed(Pushed(events, total + 1), total + 2)
    /\ WakeReaders
    /\ UNCHANGED <<undos, cursor, batch, nextSeq, got, reconnects>>

\* undo_last() of a run that is over, after the document was restored.
Undo ==
    /\ ~active
    /\ undos < MaxUndos
    /\ undos' = undos + 1
    /\ EmitOne
    /\ UNCHANGED <<active, cursor, batch, nextSeq, got, reconnects>>

----------------------------------------------------------------------------
(* The readers *)

Slice(from) == SubSeq(events, from + 1, Len(events))

\* One round of the producer's loop with its cursor at c, as far as the next
\* suspension: wait_for_events() returns what is buffered past the cursor, or
\* waits, or returns nothing once the run is over, and the loop is left.
Round(r, c) ==
    /\ cursor' = [cursor EXCEPT ![r] = c]
    /\ IF c < Len(events)
       THEN /\ phase' = [phase EXCEPT ![r] = "yield"]
            /\ batch' = [batch EXCEPT ![r] = Slice(c)]
            /\ nextSeq' = [nextSeq EXCEPT ![r] = c]
       ELSE /\ phase' = [phase EXCEPT ![r] = IF active THEN "wait" ELSE "ended"]
            /\ UNCHANGED <<batch, nextSeq>>

\* The first round.  The inline stream starts the run itself and looks before
\* the run's task has made a step.
Connect(r) ==
    /\ phase[r] = "new"
    /\ r \in Inline => total = 0
    /\ Round(r, 0)
    /\ UNCHANGED <<run, got, reconnects>>

\* A woken reader looks past its cursor again; if nothing is there it gets an
\* empty list, and its loop waits anew or ends.
Resume(r) ==
    /\ phase[r] = "woken"
    /\ Round(r, cursor[r])
    /\ UNCHANGED <<run, got, reconnects>>

\* Hand over one event.
Yield(r) ==
    /\ phase[r] = "yield"
    /\ batch[r] # <<>>
    /\ got' = [got EXCEPT ![r] = Append(@, Head(batch[r]))]
    /\ batch' = [batch EXCEPT ![r] = Tail(@)]
    /\ nextSeq' = [nextSeq EXCEPT ![r] = @ + 1]
    /\ UNCHANGED <<run, phase, cursor, reconnects>>

\* Mutations: the cursor moves past what is buffered, or stays.
PastBuffer(r) == Larger(cursor[r], Len(events))
SameCursor(r) == cursor[r]

\* Where the cursor goes after a batch: the inline stream follows the seq of the
\* events, the other one the end of the buffer.
NewCursor(r) == IF r \in Inline THEN nextSeq[r] ELSE Larger(cursor[r], Len(events))

\* The batch is handed over.  Once the run is over the loop is left with whatever
\* was emitted meanwhile: the drain of GET finds nothing, because its cursor is
\* already at the end of the buffer, and the inline stream, whose cursor may be
\* short of it, has no drain.
EndBatch(r) ==
    /\ phase[r] = "yield"
    /\ batch[r] = <<>>
    /\ IF active
       THEN Round(r, NewCursor(r))
       ELSE /\ phase' = [phase EXCEPT ![r] = "ended"]
            /\ cursor' = [cursor EXCEPT ![r] = NewCursor(r)]
            /\ UNCHANGED <<batch, nextSeq>>
    /\ UNCHANGED <<run, got, reconnects>>

\* The client goes away; the run goes on.
Disconnect(r) ==
    /\ phase[r] \in {"wait", "woken", "yield"}
    /\ phase' = [phase EXCEPT ![r] = "gone"]
    /\ batch' = [batch EXCEPT ![r] = <<>>]
    /\ UNCHANGED <<run, cursor, nextSeq, got, reconnects>>

\* A client of GET comes back; the web client asks for the seq after the last.
Reconnect(r) ==
    /\ r \in Streams
    /\ phase[r] = "gone"
    /\ reconnects < MaxReconnects
    /\ reconnects' = reconnects + 1
    /\ Round(r, nextSeq[r])
    /\ UNCHANGED <<run, got>>

----------------------------------------------------------------------------
Next ==
    \/ Emit
    \/ End
    \/ EndBadly
    \/ Undo
    \/ \E r \in Readers :
          Connect(r) \/ Resume(r) \/ Yield(r) \/ EndBatch(r) \/ Disconnect(r) \/ Reconnect(r)

Spec == Init /\ [][Next]_vars

\* The loop resumes a reader whose wait or whose send is over.  Nothing makes the
\* run go on or end.
Fairness == \A r \in Readers : WF_vars(Resume(r) \/ Yield(r) \/ EndBatch(r))

FairSpec == Spec /\ Fairness

----------------------------------------------------------------------------
(* Properties *)

TypeOK ==
    /\ active \in BOOLEAN
    /\ total \in 0 .. MaxTotal
    /\ events \in Seq(1 .. MaxTotal)
    /\ Len(events) =< Cap
    /\ undos \in 0 .. MaxUndos
    /\ phase \in [Readers -> {"new", "wait", "woken", "yield", "ended", "gone"}]
    /\ cursor \in [Readers -> 0 .. MaxTotal]
    /\ batch \in [Readers -> Seq(1 .. MaxTotal)]
    /\ nextSeq \in [Readers -> 0 .. MaxTotal]
    /\ got \in [Readers -> Seq(1 .. MaxTotal)]
    /\ reconnects \in 0 .. MaxReconnects

\* No client is handed an event twice or out of order, also when the buffer has
\* dropped events and renumbered the rest, and when the client reconnects the way
\* the web client does (useMemoryRun.ts:206: seq + 1).
NoRepeat ==
    \A r \in Readers : \A i, j \in 1 .. Len(got[r]) : i < j => got[r][i] < got[r][j]

IsPrefix(s) == \A i \in 1 .. Len(s) : s[i] = i

\* As long as the buffer has not overflowed, what the inline stream has handed over
\* and is handing over are the first events of the run without a gap, and all of
\* them when it waits.  Of a run that ends while a batch is handed over it sends
\* no more than that batch: a stream that ended may lack the last events.
InlineGapless ==
    total =< Cap =>
        \A r \in Inline :
            /\ IsPrefix(got[r])
            /\ \A i \in 1 .. Len(batch[r]) : batch[r][i] = Len(got[r]) + i
            /\ phase[r] = "wait" => Len(got[r]) = total

\* Every stream of a run that is over comes to its end.
StreamsEnd ==
    \A r \in Readers :
        (~active /\ phase[r] \in {"wait", "woken", "yield"}) ~> (phase[r] \in {"ended", "gone"})

\* A client can "re-attach [...] and replay everything it missed" (runs.py:4-7)
\* and the stream "replays the buffered tail, then blocks on new events until the
\* run reaches a terminal state" (memory.py:414-415): nothing is left out.
StreamGapless == \A r \in Streams : IsPrefix(got[r])

=============================================================================
