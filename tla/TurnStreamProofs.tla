-------------------------- MODULE TurnStreamProofs --------------------------
(***************************************************************************)
(* What TurnStream promises the clients that follow a turn, for any number *)
(* of subscriptions, events, cancellations, failures and crashes.          *)
(***************************************************************************)
EXTENDS TurnStream, SequenceTheorems, TLAPS

----------------------------------------------------------------------------
(* The runner's half of the invariant *)

IsDone(k) == kinds[k] = "done"

\* DONE is published once, when the runner leaves its body.
DoneOnce ==
    /\ \A i, j \in 1 .. Len(kinds) : IsDone(i) /\ IsDone(j) => i = j
    /\ runner \in Body => \A i \in 1 .. Len(kinds) : ~IsDone(i)
    /\ runner \notin Body \cup {"crashed"} => \E i \in 1 .. Len(kinds) : IsDone(i)

\* How many events there can be by then.
Room ==
    /\ runner \in Body => Len(kinds) =< MaxEvents + 1
    /\ runner = "title" => Len(kinds) =< MaxEvents + 2
    /\ Len(kinds) =< MaxSeq

\* One flush: it takes over every event of the answer.
FlushOnce ==
    /\ runner = "stream" => ~flushed
    /\ runner \notin {"stream", "crashed"} => flushed
    /\ ~flushed => toStore = 0
    /\ flushed => \A i \in 1 .. Len(kinds) : kinds[i] = "event" => i =< toStore

\* Who completes a turn has stored what it took over; a detached append is within
\* what was taken over, and no runner appends beside it.
StoredFirst ==
    /\ (runner \in {"complete", "title"} \/ status = "completed" \/ "completed" \in late)
          => flushed /\ stored = toStore
    /\ lateEvent => stored < toStore /\ runner \in {"cSave", "cStatus", "ended"}

\* A row is settled after the body.
SettledLate == (status # "running" \/ late # {}) => runner \notin Body

RunnerInv == DoneOnce /\ Room /\ FlushOnce /\ StoredFirst /\ SettledLate

----------------------------------------------------------------------------
(* The subscriptions' half *)

\* A DONE among the events the subscription was to yield so far.
SeenDone(s) == \E k \in start[s] + 1 .. last[s] : IsDone(k)

\* The events up to here are yielded or in the list.
NextUp(s) == last[s] + Len(todo[s])
Due(s) == Len(kinds) - NextUp(s)

ListOK(s) ==
    /\ start[s] =< last[s] /\ NextUp(s) =< Len(kinds)
    /\ \A i \in 1 .. Len(todo[s]) : todo[s][i] = last[s] + i

\* The events yielded, and the synthesized DONE of one that is over.
YieldedOK(s) ==
    /\ Len(got[s]) \in {last[s] - start[s], last[s] - start[s] + 1}
    /\ \A i \in 1 .. last[s] - start[s] : got[s][i] = start[s] + i
    /\ Len(got[s]) = last[s] - start[s] + 1 =>
          /\ got[s][Len(got[s])] = Synth
          /\ runner \notin Body /\ stage[s] \in {"ended", "gone"} /\ ~SeenDone(s)

\* The queue continues where the list ends, up to the last event published, and
\* holds the sentinel once the runner has left.
QueueOK(s) ==
    Registered(s) =>
        /\ Len(queue[s]) = Due(s) + (IF Live THEN 0 ELSE 1)
        /\ \A i \in 1 .. Len(queue[s]) :
              queue[s][i] = IF i =< Due(s) THEN NextUp(s) + i ELSE End

StageOK(s) ==
    /\ stage[s] = "new" => got[s] = <<>> /\ queue[s] = <<>> /\ todo[s] = <<>>
                           /\ start[s] = 0 /\ last[s] = 0 /\ ~joined[s]
    /\ stage[s] = "backlog" => queue[s] = <<>>
    /\ stage[s] = "live" => joined[s]
    /\ stage[s] = "queue" => joined[s] /\ todo[s] = <<>>
    /\ stage[s] \in {"reread", "catchup", "orphan", "judge", "told"} => ~joined[s] /\ ~Live
    /\ stage[s] = "final" => ~Live /\ last[s] = Len(kinds)
    /\ stage[s] \in {"live", "queue", "final"} => runner # "crashed"
    /\ stage[s] \in {"judge", "told"} => status # "running"
    /\ stage[s] \in {"told", "final", "closing"} => ~SeenDone(s)
    /\ stage[s] = "ended" => Len(got[s]) = last[s] - start[s] + 1
                             \/ \E k \in 1 .. last[s] : IsDone(k)

SubscriptionOK(s) == ListOK(s) /\ YieldedOK(s) /\ QueueOK(s) /\ StageOK(s)

TurnInv == TypeOK /\ RunnerInv /\ \A s \in Subscribers : SubscriptionOK(s)

----------------------------------------------------------------------------
(* Sequences *)

LEMMA AppendOne ==
  ASSUME NEW S, NEW q \in Seq(S), NEW e \in S
  PROVE  /\ Append(q, e) \in Seq(S)
         /\ Len(Append(q, e)) = Len(q) + 1
         /\ \A i \in 1 .. Len(q) + 1 :
               Append(q, e)[i] = IF i =< Len(q) THEN q[i] ELSE e
  BY AppendProperties

LEMMA DropOne ==
  ASSUME NEW S, NEW q \in Seq(S), q # <<>>
  PROVE  /\ Len(q) \in Nat \ {0}
         /\ Head(q) \in S /\ Head(q) = q[1]
         /\ Tail(q) \in Seq(S)
         /\ Len(Tail(q)) = Len(q) - 1
         /\ \A i \in 1 .. Len(q) - 1 : Tail(q)[i] = q[i + 1]
  BY HeadTailProperties, EmptySeq

\* The list of the numbers above lo, up to hi.
LEMMA SeqsFacts ==
  ASSUME NEW lo \in Nat, NEW hi \in Nat
  PROVE  /\ Len(Seqs(lo, hi)) = IF hi > lo THEN hi - lo ELSE 0
         /\ \A i \in 1 .. Len(Seqs(lo, hi)) : Seqs(lo, hi)[i] = lo + i
         /\ \A m \in Nat : hi =< m => Seqs(lo, hi) \in Seq(1 .. m)
         /\ \A m \in Nat : hi =< m => Seqs(lo, hi) \in Seq(0 .. m)
  <1> DEFINE n == IF hi > lo THEN hi - lo ELSE 0
             f == [i \in 1 .. n |-> lo + i]
  <1>1. n \in Nat /\ Seqs(lo, hi) = f
    BY DEF Seqs
  <1>2. \A i \in 1 .. n : f[i] = lo + i /\ lo + i \in Nat /\ 1 =< lo + i /\ lo + i =< hi
    OBVIOUS
  <1>3. ASSUME NEW m \in Nat, hi =< m PROVE f \in [1 .. n -> 1 .. m] /\ f \in [1 .. n -> 0 .. m]
    BY <1>2, <1>3
  <1>4. ASSUME NEW S, f \in [1 .. n -> S] PROVE f \in Seq(S) /\ Len(f) = n
    <2> HIDE DEF n, f
    <2>1. f \in Seq(S)
      BY <1>1, <1>4, SeqDef
    <2>2. Len(f) \in Nat /\ DOMAIN f = 1 .. Len(f) /\ DOMAIN f = 1 .. n
      BY <1>4, <2>1, LenProperties
    <2>3. \A a, b \in Nat : 1 .. a = 1 .. b => a = b
      <3> SUFFICES ASSUME NEW a \in Nat, NEW b \in Nat, 1 .. a = 1 .. b PROVE ~(a < b) /\ ~(b < a)
        OBVIOUS
      <3>1. a < b => b \in 1 .. b /\ b \notin 1 .. a
        OBVIOUS
      <3>2. b < a => a \in 1 .. a /\ a \notin 1 .. b
        OBVIOUS
      <3> QED BY <3>1, <3>2
    <2>4. Len(f) = n
      BY <1>1, <2>2, <2>3
    <2> QED BY <2>1, <2>4
  <1>5. Len(f) = n
    BY <1>3, <1>4
  <1>6. \A m \in Nat : hi =< m => f \in Seq(1 .. m) /\ f \in Seq(0 .. m)
    BY <1>3, <1>4
  <1> HIDE DEF n, f
  <1>7. \A i \in 1 .. Len(f) : f[i] = lo + i
    BY <1>2, <1>5
  <1> QED BY <1>1, <1>5, <1>6, <1>7 DEF n

\* What is published follows what was.
LEMMA KindsGrow ==
  ASSUME kinds \in Seq(Kinds), NEW ks \in Seq(Kinds), kinds' = kinds \o ks
  PROVE  /\ kinds' \in Seq(Kinds)
         /\ Len(kinds) \in Nat /\ Len(ks) \in Nat
         /\ Len(kinds') = Len(kinds) + Len(ks)
         /\ \A i \in 1 .. Len(kinds) : kinds'[i] = kinds[i]
         /\ \A i \in Len(kinds) + 1 .. Len(kinds') : kinds'[i] = ks[i - Len(kinds)]
  <1>1. Len(kinds) \in Nat /\ Len(ks) \in Nat
    BY LenProperties
  <1>2. /\ kinds' \in Seq(Kinds) /\ Len(kinds') = Len(kinds) + Len(ks)
        /\ \A i \in 1 .. Len(kinds) + Len(ks) :
              kinds'[i] = IF i =< Len(kinds) THEN kinds[i] ELSE ks[i - Len(kinds)]
    BY ConcatProperties
  <1>3. ASSUME NEW i \in 1 .. Len(kinds) PROVE kinds'[i] = kinds[i]
    <2>1. i \in 1 .. Len(kinds) + Len(ks) /\ i =< Len(kinds)
      BY <1>1
    <2> QED BY <1>2, <2>1
  <1>4. ASSUME NEW i \in Len(kinds) + 1 .. Len(kinds') PROVE kinds'[i] = ks[i - Len(kinds)]
    <2>1. i \in 1 .. Len(kinds) + Len(ks) /\ ~(i =< Len(kinds))
      BY <1>1, <1>2
    <2> QED BY <1>2, <2>1
  <1> QED BY <1>1, <1>2, <1>3, <1>4

----------------------------------------------------------------------------
(* The steps of the runner, for the runner *)

\* The runner's half and the subscriptions' half of TypeOK.
RunnerType ==
    /\ runner \in Body \cup CancelHandler \cup FailHandler \cup {"title", "ended", "crashed"}
    /\ kinds \in Seq(Kinds) /\ Len(kinds) =< MaxSeq
    /\ flushed \in BOOLEAN /\ lateEvent \in BOOLEAN
    /\ toStore \in 0 .. Len(kinds) /\ stored \in 0 .. toStore
    /\ status \in {"running"} \cup Terminal
    /\ late \subseteq Terminal
    /\ cancels \in 0 .. MaxCancels /\ fails \in 0 .. MaxFails
    /\ faults \in 0 .. MaxFaults /\ crashes \in 0 .. MaxCrashes

ReaderType ==
    /\ stage \in [Subscribers -> {"new", "backlog", "live", "reread", "catchup", "orphan",
                                  "judge", "told", "queue", "final", "closing", "ended",
                                  "gone"}]
    /\ start \in [Subscribers -> 0 .. MaxSeq]
    /\ last \in [Subscribers -> 0 .. MaxSeq]
    /\ todo \in [Subscribers -> Seq(1 .. MaxSeq)]
    /\ joined \in [Subscribers -> BOOLEAN]
    /\ queue \in [Subscribers -> Seq(0 .. MaxSeq)]
    /\ got \in [Subscribers -> Seq(0 .. MaxSeq)]

LEMMA TwoTypes == TypeOK <=> RunnerType /\ ReaderType
  BY DEF TypeOK, RunnerType, ReaderType

RunnerOK == RunnerType /\ RunnerInv

\* A DONE published as the first one.
LEMMA PublishDone ==
  ASSUME kinds \in Seq(Kinds), NEW ks \in {<<"done">>, <<"error", "done">>},
         kinds' = kinds \o ks, \A i \in 1 .. Len(kinds) : ~IsDone(i)
  PROVE  /\ kinds' \in Seq(Kinds) /\ Len(kinds) \in Nat
         /\ ks = <<"done">> => Len(kinds') = Len(kinds) + 1
         /\ ks = <<"error", "done">> => Len(kinds') = Len(kinds) + 2
         /\ Len(kinds') \in 1 .. Len(kinds')
         /\ \A i \in 1 .. Len(kinds') : IsDone(i)' <=> i = Len(kinds')
         /\ \A i \in 1 .. Len(kinds') : kinds'[i] = "event" => i =< Len(kinds) /\ kinds[i] = "event"
  <1>1. ks \in Seq(Kinds)
    BY DEF Kinds
  <1>2. /\ kinds' \in Seq(Kinds)
        /\ Len(kinds) \in Nat /\ Len(ks) \in Nat
        /\ Len(kinds') = Len(kinds) + Len(ks)
        /\ \A i \in 1 .. Len(kinds) : kinds'[i] = kinds[i]
        /\ \A i \in Len(kinds) + 1 .. Len(kinds') : kinds'[i] = ks[i - Len(kinds)]
    BY <1>1, KindsGrow
  <1>3. CASE ks = <<"done">>
    <2>1. Len(ks) = 1 /\ ks[1] = "done"
      BY <1>3
    <2>2. Len(kinds') = Len(kinds) + 1 /\ kinds'[Len(kinds) + 1] = "done"
      BY <1>2, <2>1
    <2>3. \A i \in 1 .. Len(kinds') : i \in 1 .. Len(kinds) \/ i = Len(kinds) + 1
      BY <1>2, <2>2
    <2> QED BY <1>2, <1>3, <2>2, <2>3 DEF IsDone
  <1>4. CASE ks = <<"error", "done">>
    <2>1. Len(ks) = 2 /\ ks[1] = "error" /\ ks[2] = "done"
      BY <1>4
    <2>2. /\ Len(kinds') = Len(kinds) + 2
          /\ kinds'[Len(kinds) + 1] = "error" /\ kinds'[Len(kinds) + 2] = "done"
      BY <1>2, <2>1
    <2>3. \A i \in 1 .. Len(kinds') :
             i \in 1 .. Len(kinds) \/ i = Len(kinds) + 1 \/ i = Len(kinds) + 2
      BY <1>2, <2>2
    <2> QED BY <1>2, <1>4, <2>2, <2>3 DEF IsDone
  <1> QED BY <1>3, <1>4

\* Anything else published.
LEMMA PublishOther ==
  ASSUME kinds \in Seq(Kinds), NEW ks \in {<<>>, <<"event">>, <<"meta">>}, kinds' = kinds \o ks
  PROVE  /\ kinds' \in Seq(Kinds) /\ Len(kinds) \in Nat
         /\ Len(kinds') = Len(kinds) + (IF ks = <<>> THEN 0 ELSE 1)
         /\ \A i \in 1 .. Len(kinds') : IsDone(i)' <=> i =< Len(kinds) /\ IsDone(i)
         /\ ks # <<"event">> =>
               \A i \in 1 .. Len(kinds') :
                  kinds'[i] = "event" => i =< Len(kinds) /\ kinds[i] = "event"
  <1>1. ks \in Seq(Kinds)
    <2>1. <<>> \in Seq(Kinds) /\ <<"event">> \in Seq(Kinds) /\ <<"meta">> \in Seq(Kinds)
      BY EmptySeq DEF Kinds
    <2> QED BY <2>1
  <1>2. /\ kinds' \in Seq(Kinds)
        /\ Len(kinds) \in Nat /\ Len(ks) \in Nat
        /\ Len(kinds') = Len(kinds) + Len(ks)
        /\ \A i \in 1 .. Len(kinds) : kinds'[i] = kinds[i]
        /\ \A i \in Len(kinds) + 1 .. Len(kinds') : kinds'[i] = ks[i - Len(kinds)]
    BY <1>1, KindsGrow
  <1>3. CASE ks = <<>>
    <2>1. Len(kinds') = Len(kinds)
      BY <1>2, <1>3
    <2> QED BY <1>2, <1>3, <2>1 DEF IsDone
  <1>4. CASE ks # <<>>
    <2>1. Len(ks) = 1 /\ ks[1] \in {"event", "meta"} /\ (ks # <<"event">> => ks[1] = "meta")
      BY <1>4
    <2>2. Len(kinds') = Len(kinds) + 1 /\ kinds'[Len(kinds) + 1] = ks[1]
      BY <1>2, <2>1
    <2>3. \A i \in 1 .. Len(kinds') :
             i \in 1 .. Len(kinds) \/ (i = Len(kinds) + 1 /\ ~(i =< Len(kinds)))
      BY <1>2, <2>2
    <2>4. \A i \in 1 .. Len(kinds') : IsDone(i)' <=> i =< Len(kinds) /\ IsDone(i)
      BY <1>2, <2>1, <2>2, <2>3 DEF IsDone
    <2>5. ks # <<"event">> =>
             \A i \in 1 .. Len(kinds') :
                kinds'[i] = "event" => i =< Len(kinds) /\ kinds[i] = "event"
      BY <1>2, <2>1, <2>2, <2>3
    <2> QED BY <1>2, <1>4, <2>2, <2>4, <2>5
  <1> QED BY <1>3, <1>4

\* DONE is published once: a step that publishes it leaves the body, any other
\* stays on its side.
LEMMA DoneKept ==
  ASSUME DoneOnce, kinds \in Seq(Kinds), NEW ks \in {<<>>, <<"event">>, <<"meta">>},
         kinds' = kinds \o ks,
         runner' \in Body => runner \in Body,
         runner' \notin Body \cup {"crashed"} => runner \notin Body \cup {"crashed"}
  PROVE  DoneOnce'
  <1>1. /\ Len(kinds) \in Nat /\ Len(kinds') \in Nat /\ Len(kinds') >= Len(kinds)
        /\ \A i \in 1 .. Len(kinds') : IsDone(i)' <=> i =< Len(kinds) /\ IsDone(i)
    BY PublishOther
  <1>2. \A i \in 1 .. Len(kinds') : IsDone(i)' => i \in 1 .. Len(kinds) /\ IsDone(i)
    BY <1>1
  <1>3. \A i \in 1 .. Len(kinds) : i \in 1 .. Len(kinds') /\ (IsDone(i) => IsDone(i)')
    BY <1>1
  <1> QED BY <1>2, <1>3 DEF DoneOnce

LEMMA DonePublished ==
  ASSUME DoneOnce, kinds \in Seq(Kinds), NEW ks \in {<<"done">>, <<"error", "done">>},
         kinds' = kinds \o ks, runner \in Body, runner' \notin Body
  PROVE  DoneOnce'
  <1>1. \A i \in 1 .. Len(kinds) : ~IsDone(i)
    BY DEF DoneOnce
  <1>2. /\ Len(kinds') \in 1 .. Len(kinds')
        /\ \A i \in 1 .. Len(kinds') : IsDone(i)' <=> i = Len(kinds')
    BY <1>1, PublishDone
  <1> QED BY <1>2 DEF DoneOnce

\* A step that leaves the events and what is stored alone and neither enters a
\* flush nor comes from the body.
LEMMA QuietStep ==
  ASSUME RunnerOK, UNCHANGED <<flushed, toStore, stored, kinds>>,
         runner' \in Body => runner' = runner,
         runner' \in Body \cup CancelHandler \cup FailHandler \cup {"title", "ended", "crashed"},
         runner' \notin Body \cup {"crashed"} => runner \notin Body \cup {"crashed"},
         runner' = "title" => runner = "title"
  PROVE  (DoneOnce /\ Room /\ FlushOnce)'
  <1>1. DoneOnce'
    BY DEF RunnerOK, RunnerInv, DoneOnce, IsDone
  <1>2. Room'
    BY DEF RunnerOK, RunnerInv, Room
  <1>3. FlushOnce'
    BY DEF RunnerOK, RunnerInv, RunnerType, FlushOnce, Body
  <1> QED BY <1>1, <1>2, <1>3

LEMMA RunnerInit == Init => RunnerOK
  <1> SUFFICES ASSUME Init PROVE RunnerOK
    OBVIOUS
  <1> USE StreamAssumption DEF Init
  <1>1. kinds \in Seq(Kinds) /\ Len(kinds) = 1 /\ kinds[1] = "session"
    BY DEF Kinds
  <1>2. MaxSeq \in Nat /\ MaxSeq >= 3
    BY DEF MaxSeq
  <1>3. RunnerType
    <2>1. cancels \in 0 .. MaxCancels /\ fails \in 0 .. MaxFails
          /\ faults \in 0 .. MaxFaults /\ crashes \in 0 .. MaxCrashes
      OBVIOUS
    <2>2. Len(kinds) =< MaxSeq /\ toStore \in 0 .. Len(kinds) /\ stored \in 0 .. toStore
      BY <1>1, <1>2
    <2>3. runner \in Body /\ late \subseteq Terminal
      BY DEF Body
    <2> QED BY <1>1, <2>1, <2>2, <2>3 DEF RunnerType
  <1>4. DoneOnce /\ Room
    BY <1>1, <1>2 DEF DoneOnce, Room, IsDone, Body
  <1>5. FlushOnce /\ StoredFirst /\ SettledLate
    BY <1>1 DEF FlushOnce, StoredFirst, SettledLate
  <1> QED BY <1>3, <1>4, <1>5 DEF RunnerOK, RunnerInv

LEMMA StreamOK ==
  ASSUME RunnerOK, Stream PROVE RunnerOK'
  <1>1. /\ runner = "stream" /\ runner' = "stream" /\ Len(kinds) =< MaxEvents
        /\ kinds' = kinds \o <<"event">>
        /\ UNCHANGED <<flushed, toStore, stored, lateEvent, status, late, cancels, fails, faults, crashes>>
    BY DEF Stream, Publish, storage, rows, budget
  <1>2. kinds \in Seq(Kinds)
    BY DEF RunnerOK, RunnerType
  <1>3. kinds' \in Seq(Kinds) /\ Len(kinds) \in Nat /\ Len(kinds') = Len(kinds) + 1
    BY <1>1, <1>2, PublishOther
  <1>4. RunnerType'
    BY <1>1, <1>3, StreamAssumption DEF RunnerOK, RunnerType, MaxSeq
  <1>5. DoneOnce'
    BY <1>1, <1>2, DoneKept DEF RunnerOK, RunnerInv
  <1>6. Room'
    BY <1>1, <1>3, StreamAssumption DEF Room, MaxSeq
  <1>7. FlushOnce' /\ StoredFirst' /\ SettledLate'
    BY <1>1 DEF RunnerOK, RunnerInv, FlushOnce, StoredFirst, SettledLate, Body
  <1> QED BY <1>4, <1>5, <1>6, <1>7 DEF RunnerOK, RunnerInv

LEMMA EndOfStreamOK ==
  ASSUME RunnerOK, EndOfStream PROVE RunnerOK'
  <1>1. /\ runner = "stream" /\ runner' = "flush" /\ flushed' = TRUE /\ toStore' = Len(kinds)
        /\ UNCHANGED <<kinds, stored, lateEvent, status, late, cancels, fails, faults, crashes>>
    BY DEF EndOfStream, BeginFlush, rows, budget
  <1>2. kinds \in Seq(Kinds) /\ Len(kinds) \in Nat /\ toStore = 0 /\ stored = 0 /\ ~flushed
    BY <1>1, LenProperties DEF RunnerOK, RunnerType, RunnerInv, FlushOnce
  <1>3. RunnerType'
    BY <1>1, <1>2 DEF RunnerOK, RunnerType, Body
  <1>4. DoneOnce' /\ Room'
    BY <1>1 DEF RunnerOK, RunnerInv, DoneOnce, Room, IsDone, Body
  <1>5. FlushOnce'
    BY <1>1, <1>2 DEF FlushOnce
  <1>6. StoredFirst' /\ SettledLate'
    BY <1>1, <1>2 DEF RunnerOK, RunnerInv, StoredFirst, SettledLate, Body
  <1> QED BY <1>3, <1>4, <1>5, <1>6 DEF RunnerOK, RunnerInv

LEMMA AppendEventOK ==
  ASSUME RunnerOK, AppendEvent PROVE RunnerOK'
  <1>1. /\ runner \in {"flush", "cFlush", "fFlush"} /\ stored < toStore /\ stored' = stored + 1
        /\ UNCHANGED <<runner, kinds, flushed, toStore, lateEvent, status, late,
                       cancels, fails, faults, crashes>>
    BY DEF AppendEvent, rows, budget
  <1>2. stored \in Nat /\ toStore \in Nat
    BY LenProperties DEF RunnerOK, RunnerType
  <1>3. RunnerType'
    BY <1>1, <1>2 DEF RunnerOK, RunnerType
  <1>4. DoneOnce' /\ Room' /\ FlushOnce'
    BY <1>1 DEF RunnerOK, RunnerInv, DoneOnce, Room, IsDone, FlushOnce
  <1>5. ~lateEvent /\ status # "completed" /\ "completed" \notin late
    BY <1>1, <1>2 DEF RunnerOK, RunnerInv, StoredFirst
  <1>6. StoredFirst' /\ SettledLate'
    BY <1>1, <1>5 DEF RunnerOK, RunnerInv, StoredFirst, SettledLate
  <1> QED BY <1>3, <1>4, <1>6 DEF RunnerOK, RunnerInv

LEMMA EndFlushOK ==
  ASSUME RunnerOK, EndFlush PROVE RunnerOK'
  <1>1. /\ stored = toStore
        /\ UNCHANGED <<kinds, flushed, toStore, stored, lateEvent, status, late,
                       cancels, fails, faults, crashes>>
        /\ \/ runner = "flush" /\ runner' = "complete"
           \/ runner = "cFlush" /\ runner' \in {"cSave", "cStatus"}
           \/ runner = "fFlush" /\ runner' = "fStatus"
    BY DEF EndFlush, storage, rows, budget, SaveOrSettle
  <1>2. RunnerType'
    BY <1>1 DEF RunnerOK, RunnerType, Body, CancelHandler, FailHandler
  <1>3. DoneOnce' /\ Room' /\ FlushOnce'
    BY <1>1 DEF RunnerOK, RunnerInv, DoneOnce, Room, IsDone, FlushOnce, Body
  <1>4. StoredFirst' /\ SettledLate'
    BY <1>1, <1>3 DEF RunnerOK, RunnerInv, StoredFirst, SettledLate, FlushOnce, Body
  <1> QED BY <1>2, <1>3, <1>4 DEF RunnerOK, RunnerInv

LEMMA CompleteOK ==
  ASSUME RunnerOK, Complete PROVE RunnerOK'
  <1>1. /\ runner = "complete" /\ runner' \in {"ended", "title"} /\ status' = "completed"
        /\ kinds' = kinds \o <<"done">>
        /\ UNCHANGED <<flushed, toStore, stored, lateEvent, late, cancels, fails, faults, crashes>>
    BY DEF Complete, Publish, storage, budget
  <1>2. /\ kinds \in Seq(Kinds) /\ runner \in Body /\ Len(kinds) =< MaxEvents + 1
        /\ \A i \in 1 .. Len(kinds) : ~IsDone(i)
    BY <1>1 DEF RunnerOK, RunnerType, RunnerInv, DoneOnce, Room, Body
  <1>3. /\ kinds' \in Seq(Kinds) /\ Len(kinds) \in Nat /\ Len(kinds') = Len(kinds) + 1
        /\ \A i \in 1 .. Len(kinds') : kinds'[i] = "event" => i =< Len(kinds) /\ kinds[i] = "event"
    BY <1>1, <1>2, PublishDone
  <1>4. RunnerType'
    BY <1>1, <1>2, <1>3, StreamAssumption DEF RunnerOK, RunnerType, MaxSeq, Terminal
  <1>5. DoneOnce'
    BY <1>1, <1>2, DonePublished DEF RunnerOK, RunnerInv, Body
  <1>6. Room'
    BY <1>1, <1>2, <1>3, StreamAssumption DEF Room, MaxSeq, Body
  <1>7. FlushOnce'
    BY <1>1, <1>3 DEF RunnerOK, RunnerInv, FlushOnce
  <1>8. StoredFirst' /\ SettledLate'
    BY <1>1 DEF RunnerOK, RunnerInv, StoredFirst, SettledLate, Body
  <1> QED BY <1>4, <1>5, <1>6, <1>7, <1>8 DEF RunnerOK, RunnerInv

LEMMA TitleDoneOK ==
  ASSUME RunnerOK, TitleDone PROVE RunnerOK'
  <1>1. PICK ks \in {<<>>, <<"meta">>} : Publish(ks, TRUE)
    BY DEF TitleDone
  <1>2. /\ runner = "title" /\ runner' = "ended" /\ kinds' = kinds \o ks
        /\ UNCHANGED <<flushed, toStore, stored, lateEvent, status, late, cancels, fails,
                       faults, crashes>>
    BY <1>1 DEF TitleDone, Publish, storage, rows, budget
  <1>3. kinds \in Seq(Kinds) /\ Len(kinds) =< MaxEvents + 2
    BY <1>2 DEF RunnerOK, RunnerType, RunnerInv, Room
  <1>4. /\ kinds' \in Seq(Kinds) /\ Len(kinds) \in Nat
        /\ Len(kinds') =< Len(kinds) + 1 /\ Len(kinds) =< Len(kinds')
        /\ \A i \in 1 .. Len(kinds') : kinds'[i] = "event" => i =< Len(kinds) /\ kinds[i] = "event"
    BY <1>2, <1>3, PublishOther
  <1>5. RunnerType'
    BY <1>2, <1>3, <1>4, StreamAssumption DEF RunnerOK, RunnerType, MaxSeq
  <1>6. DoneOnce'
    BY <1>2, <1>3, DoneKept DEF RunnerOK, RunnerInv, Body
  <1>7. Room'
    BY <1>2, <1>3, <1>4, StreamAssumption DEF Room, MaxSeq, Body
  <1>8. FlushOnce'
    BY <1>2, <1>4 DEF RunnerOK, RunnerInv, FlushOnce
  <1>9. StoredFirst' /\ SettledLate'
    BY <1>2 DEF RunnerOK, RunnerInv, StoredFirst, SettledLate, Body
  <1> QED BY <1>5, <1>6, <1>7, <1>8, <1>9 DEF RunnerOK, RunnerInv

LEMMA SavedOK ==
  ASSUME RunnerOK, Saved PROVE RunnerOK'
  <1>1. /\ runner = "cSave" /\ runner' = "cStatus"
        /\ UNCHANGED <<kinds, flushed, toStore, stored, lateEvent, status, late,
                       cancels, fails, faults, crashes>>
    BY DEF Saved, storage, rows, budget
  <1>2. RunnerType'
    BY <1>1 DEF RunnerOK, RunnerType, CancelHandler
  <1>3. DoneOnce' /\ Room' /\ FlushOnce'
    BY <1>1, QuietStep DEF Body, CancelHandler
  <1>4. StoredFirst' /\ SettledLate'
    BY <1>1 DEF RunnerOK, RunnerInv, StoredFirst, SettledLate, Body
  <1> QED BY <1>2, <1>3, <1>4 DEF RunnerOK, RunnerInv

\* A runner that leaves publishes nothing more.
LEMMA PublishNothing ==
  ASSUME kinds \in Seq(Kinds), NEW leaving, Publish(<<>>, leaving)
  PROVE  kinds' = kinds
  BY ConcatEmptySeq DEF Publish

LEMMA SettleOK ==
  ASSUME RunnerOK, Settle PROVE RunnerOK'
  <1>1. kinds' = kinds
    BY PublishNothing DEF Settle, RunnerOK, RunnerType
  <1>2. /\ runner \in {"cStatus", "fStatus"} /\ runner' = "ended"
        /\ status' \in {"cancelled", "failed"}
        /\ UNCHANGED <<flushed, toStore, stored, lateEvent, late, cancels, fails, faults, crashes>>
    BY DEF Settle, storage, budget
  <1>3. RunnerType'
    BY <1>1, <1>2 DEF RunnerOK, RunnerType, Terminal
  <1>4. DoneOnce' /\ Room' /\ FlushOnce'
    BY <1>1, <1>2, QuietStep DEF Body
  <1>5. StoredFirst' /\ SettledLate'
    BY <1>2 DEF RunnerOK, RunnerInv, StoredFirst, SettledLate, Body
  <1> QED BY <1>3, <1>4, <1>5 DEF RunnerOK, RunnerInv

LEMMA FailOK ==
  ASSUME RunnerOK, Fail PROVE RunnerOK'
  <1>1. /\ runner \in Body /\ fails < MaxFails /\ fails' = fails + 1
        /\ kinds' = kinds \o <<"error", "done">>
        /\ UNCHANGED <<lateEvent, stored, status, late, cancels, faults, crashes>>
        /\ flushed => runner' = "fStatus" /\ UNCHANGED <<flushed, toStore>>
        /\ ~flushed => runner' = "fFlush" /\ flushed' = TRUE /\ toStore' = Len(kinds')
    BY DEF Fail, Publish, BeginFlush, storage, rows
  <1>2. /\ kinds \in Seq(Kinds) /\ Len(kinds) =< MaxEvents + 1 /\ flushed \in BOOLEAN
        /\ \A i \in 1 .. Len(kinds) : ~IsDone(i)
        /\ ~flushed => toStore = 0 /\ stored = 0
    BY <1>1 DEF RunnerOK, RunnerType, RunnerInv, DoneOnce, Room, FlushOnce
  <1>3. /\ kinds' \in Seq(Kinds) /\ Len(kinds) \in Nat /\ Len(kinds') = Len(kinds) + 2
        /\ \A i \in 1 .. Len(kinds') : kinds'[i] = "event" => i =< Len(kinds) /\ kinds[i] = "event"
    BY <1>1, <1>2, PublishDone
  <1>4. runner' \in {"fStatus", "fFlush"} /\ runner' \notin Body /\ runner' \in FailHandler
    BY <1>1, <1>2 DEF Body, FailHandler
  <1>5. toStore' \in 0 .. Len(kinds') /\ stored' \in 0 .. toStore' /\ flushed' = TRUE
    BY <1>1, <1>2, <1>3 DEF RunnerOK, RunnerType
  <1>6. RunnerType'
    BY <1>1, <1>2, <1>3, <1>4, <1>5, StreamAssumption DEF RunnerOK, RunnerType, MaxSeq
  <1>7. DoneOnce'
    BY <1>1, <1>2, <1>4, DonePublished DEF RunnerOK, RunnerInv
  <1>8. Room'
    BY <1>2, <1>3, <1>4, StreamAssumption DEF Room, MaxSeq
  <1>9. FlushOnce'
    <2>1. \A i \in 1 .. Len(kinds') : kinds'[i] = "event" => i =< toStore'
      <3>1. CASE flushed
        BY <1>1, <1>3, <3>1 DEF RunnerOK, RunnerInv, FlushOnce
      <3>2. CASE ~flushed
        BY <1>1, <3>2
      <3> QED BY <3>1, <3>2
    <2> QED BY <1>4, <1>5, <2>1 DEF FlushOnce
  <1>10. ~lateEvent /\ StoredFirst' /\ SettledLate'
    BY <1>1, <1>2, <1>4, <1>5 DEF RunnerOK, RunnerInv, StoredFirst, SettledLate, Body
  <1> QED BY <1>6, <1>7, <1>8, <1>9, <1>10 DEF RunnerOK, RunnerInv

LEMMA HandlerFaultOK ==
  ASSUME RunnerOK, HandlerFault PROVE RunnerOK'
  <1>1. kinds' = kinds
    BY PublishNothing DEF HandlerFault, RunnerOK, RunnerType
  <1>2. /\ runner \in CancelHandler \cup FailHandler
        /\ runner' \in {"cSave", "cStatus", "fStatus", "ended"}
        /\ runner \in FailHandler => runner' \in {"fStatus", "ended"}
        /\ faults < MaxFaults /\ faults' = faults + 1
        /\ UNCHANGED <<flushed, toStore, stored, lateEvent, status, late, cancels, fails, crashes>>
    BY DEF HandlerFault, storage, rows, CancelHandler, FailHandler, SaveOrSettle
  <1>3. RunnerType'
    BY <1>1, <1>2, StreamAssumption DEF RunnerOK, RunnerType, CancelHandler, FailHandler
  <1>4. DoneOnce' /\ Room' /\ FlushOnce'
    BY <1>1, <1>2, QuietStep DEF Body, CancelHandler, FailHandler
  <1>5. lateEvent => runner' \in {"cSave", "cStatus", "ended"}
    BY <1>2 DEF HandlerFault, RunnerOK, RunnerInv, StoredFirst, CancelHandler, FailHandler
  <1>6. StoredFirst' /\ SettledLate'
    BY <1>2, <1>5 DEF RunnerOK, RunnerInv, StoredFirst, SettledLate, Body
  <1> QED BY <1>3, <1>4, <1>6 DEF RunnerOK, RunnerInv

LEMMA CancelOK ==
  ASSUME RunnerOK, Cancel PROVE RunnerOK'
  <1>1. /\ runner \in Body \cup {"title"} /\ cancels < MaxCancels /\ cancels' = cancels + 1
        /\ kinds' = kinds \o (IF runner = "title" THEN <<>> ELSE <<"error", "done">>)
        /\ UNCHANGED <<stored, status, fails, faults, crashes>>
        /\ late' \in {late, late \cup {"completed"}}
        /\ late' # late => runner = "complete"
        /\ flushed => runner' \in {"cSave", "cStatus"} /\ UNCHANGED <<flushed, toStore>>
        /\ ~flushed => runner' = "cFlush" /\ flushed' = TRUE /\ toStore' = Len(kinds')
                       /\ UNCHANGED lateEvent
    BY DEF Cancel, Publish, BeginFlush, LeaveBehind, SaveOrSettle, Body
  <1>2. /\ kinds \in Seq(Kinds) /\ flushed \in BOOLEAN /\ lateEvent \in BOOLEAN
        /\ ~lateEvent /\ (~flushed => toStore = 0 /\ stored = 0 /\ runner \in Body)
        /\ (runner = "title" => Len(kinds) =< MaxEvents + 2)
        /\ (runner # "title" => runner \in Body /\ Len(kinds) =< MaxEvents + 1
                                /\ \A i \in 1 .. Len(kinds) : ~IsDone(i))
    BY <1>1 DEF RunnerOK, RunnerType, RunnerInv, DoneOnce, Room, FlushOnce, StoredFirst, Body
  <1>3. lateEvent' \in BOOLEAN /\ (lateEvent' => flushed /\ stored < toStore)
    BY <1>1, <1>2 DEF Cancel, LeaveAppend
  <1>4. /\ kinds' \in Seq(Kinds) /\ Len(kinds) \in Nat /\ Len(kinds') \in Nat
        /\ Len(kinds') =< MaxEvents + 3 /\ Len(kinds) =< Len(kinds')
        /\ \A i \in 1 .. Len(kinds') : kinds'[i] = "event" => i =< Len(kinds) /\ kinds[i] = "event"
    <2>1. CASE runner = "title"
      <3>1. kinds' = kinds \o <<>>
        BY <1>1, <2>1
      <3>2. kinds' = kinds
        BY <1>2, <3>1, ConcatEmptySeq
      <3> QED BY <1>2, <2>1, <3>2, LenProperties, StreamAssumption
    <2>2. CASE runner # "title"
      <3>1. kinds' = kinds \o <<"error", "done">>
        BY <1>1, <2>2
      <3>2. /\ kinds' \in Seq(Kinds) /\ Len(kinds) \in Nat /\ Len(kinds') = Len(kinds) + 2
            /\ \A i \in 1 .. Len(kinds') :
                  kinds'[i] = "event" => i =< Len(kinds) /\ kinds[i] = "event"
        BY <1>2, <2>2, <3>1, PublishDone
      <3> QED BY <1>2, <2>2, <3>2, StreamAssumption
    <2> QED BY <2>1, <2>2
  <1>5. runner' \in {"cSave", "cStatus", "cFlush"} /\ runner' \notin Body /\ runner' \in CancelHandler
    BY <1>1, <1>2 DEF Body, CancelHandler
  <1>6. toStore' \in 0 .. Len(kinds') /\ stored' \in 0 .. toStore' /\ flushed' = TRUE
    BY <1>1, <1>2, <1>4 DEF RunnerOK, RunnerType
  <1>7. late' \subseteq Terminal
    BY <1>1 DEF RunnerOK, RunnerType, Terminal
  <1>8. RunnerType'
    BY <1>1, <1>3, <1>4, <1>5, <1>6, <1>7, StreamAssumption DEF RunnerOK, RunnerType, MaxSeq
  <1>9. DoneOnce'
    <2>1. CASE runner = "title"
      <3>1. kinds' = kinds \o <<>>
        BY <1>1, <2>1
      <3> QED BY <1>2, <1>5, <2>1, <3>1, DoneKept DEF RunnerOK, RunnerInv, Body
    <2>2. CASE runner # "title"
      <3>1. kinds' = kinds \o <<"error", "done">>
        BY <1>1, <2>2
      <3> QED BY <1>2, <1>5, <2>2, <3>1, DonePublished DEF RunnerOK, RunnerInv
    <2> QED BY <2>1, <2>2
  <1>10. Room'
    BY <1>4, <1>5 DEF Room, MaxSeq
  <1>11. FlushOnce'
    <2>1. \A i \in 1 .. Len(kinds') : kinds'[i] = "event" => i =< toStore'
      <3>1. CASE flushed
        BY <1>1, <1>4, <3>1 DEF RunnerOK, RunnerInv, FlushOnce
      <3>2. CASE ~flushed
        BY <1>1, <3>2
      <3> QED BY <3>1, <3>2
    <2> QED BY <1>5, <1>6, <2>1 DEF FlushOnce
  <1>12. "completed" \in late' => "completed" \in late \/ runner = "complete"
    BY <1>1
  <1>13. StoredFirst'
    <2>1. (status' = "completed" \/ "completed" \in late') => flushed /\ stored = toStore
      BY <1>1, <1>12 DEF RunnerOK, RunnerInv, StoredFirst
    <2>2. flushed => toStore' = toStore /\ runner' \in {"cSave", "cStatus"}
      BY <1>1
    <2> QED BY <1>1, <1>3, <1>5, <1>6, <2>1, <2>2 DEF StoredFirst
  <1>14. SettledLate'
    BY <1>5 DEF SettledLate
  <1> QED BY <1>8, <1>9, <1>10, <1>11, <1>13, <1>14 DEF RunnerOK, RunnerInv

LEMMA CancelAgainOK ==
  ASSUME RunnerOK, CancelAgain PROVE RunnerOK'
  <1>1. kinds' = kinds
    BY PublishNothing DEF CancelAgain, RunnerOK, RunnerType
  <1>2. /\ runner \in CancelHandler \cup FailHandler /\ runner' = "ended"
        /\ cancels < MaxCancels /\ cancels' = cancels + 1
        /\ late' \in {late, late \cup {"cancelled"}, late \cup {"failed"}}
        /\ UNCHANGED <<flushed, toStore, stored, status, fails, faults, crashes>>
        /\ lateEvent' \in BOOLEAN \cup {lateEvent} /\ (lateEvent' => lateEvent \/ stored < toStore)
    BY DEF CancelAgain, LeaveBehind, LeaveAppend, CancelHandler, FailHandler
  <1>3. late' \subseteq Terminal /\ ("completed" \in late' => "completed" \in late)
    BY <1>2 DEF RunnerOK, RunnerType, Terminal
  <1>4. RunnerType'
    BY <1>1, <1>2, <1>3, StreamAssumption DEF RunnerOK, RunnerType
  <1>5. DoneOnce' /\ Room' /\ FlushOnce'
    BY <1>1, <1>2, QuietStep DEF Body, CancelHandler, FailHandler
  <1>6. StoredFirst' /\ SettledLate'
    BY <1>2, <1>3 DEF RunnerOK, RunnerInv, StoredFirst, SettledLate, Body
  <1> QED BY <1>4, <1>5, <1>6 DEF RunnerOK, RunnerInv

\* What is left behind, and what others do to the row.
LEMMA LandEventOK ==
  ASSUME RunnerOK, LandEvent PROVE RunnerOK'
  <1>1. /\ lateEvent /\ lateEvent' = FALSE /\ stored' = stored + 1 /\ stored < toStore
        /\ UNCHANGED <<runner, kinds, flushed, toStore, status, late, cancels, fails, faults, crashes>>
    BY DEF LandEvent, rows, budget, RunnerOK, RunnerInv, StoredFirst
  <1>2. stored \in Nat /\ toStore \in Nat
    BY LenProperties DEF RunnerOK, RunnerType
  <1>3. RunnerType'
    <2>1. lateEvent' \in BOOLEAN
      BY <1>1
    <2>2. stored' \in 0 .. toStore'
      BY <1>1, <1>2
    <2> QED BY <1>1, <2>1, <2>2 DEF RunnerOK, RunnerType
  <1>4. DoneOnce' /\ Room' /\ FlushOnce'
    BY <1>1 DEF RunnerOK, RunnerInv, DoneOnce, Room, IsDone, FlushOnce
  <1>5. StoredFirst' /\ SettledLate'
    BY <1>1, <1>2 DEF RunnerOK, RunnerInv, StoredFirst, SettledLate
  <1> QED BY <1>3, <1>4, <1>5 DEF RunnerOK, RunnerInv

LEMMA RowOK ==
  ASSUME RunnerOK,
         UNCHANGED <<runner, kinds, flushed, toStore, stored, lateEvent, cancels, fails,
                     faults, crashes>>,
         \/ \E s \in late : status' = s /\ late' = late \ {s}
         \/ ~Live /\ status' = "failed" /\ late' = late
  PROVE  RunnerOK'
  <1>1. /\ status' \in Terminal /\ late' \subseteq late /\ late \subseteq Terminal
        /\ status' = "completed" => "completed" \in late
        /\ runner \notin Body
    BY DEF RunnerOK, RunnerType, RunnerInv, SettledLate, Live, Terminal
  <1>2. RunnerType'
    BY <1>1 DEF RunnerOK, RunnerType
  <1>3. DoneOnce' /\ Room' /\ FlushOnce'
    BY DEF RunnerOK, RunnerInv, DoneOnce, Room, IsDone, FlushOnce
  <1>4. StoredFirst' /\ SettledLate'
    BY <1>1 DEF RunnerOK, RunnerInv, StoredFirst, SettledLate
  <1> QED BY <1>2, <1>3, <1>4 DEF RunnerOK, RunnerInv

LEMMA CrashOK ==
  ASSUME RunnerOK, Crash PROVE RunnerOK'
  <1>1. /\ runner' \in {"ended", "crashed"} /\ (runner' = "ended" => runner = "ended")
        /\ crashes < MaxCrashes /\ crashes' = crashes + 1 /\ late' = {} /\ lateEvent' = FALSE
        /\ UNCHANGED <<kinds, flushed, toStore, stored, status, cancels, fails, faults>>
    BY DEF Crash, Live, RunnerOK, RunnerType
  <1>2. RunnerType'
    <2>1. lateEvent' \in BOOLEAN
      BY <1>1
    <2>2. crashes' \in 0 .. MaxCrashes
      BY <1>1, StreamAssumption DEF RunnerOK, RunnerType
    <2> QED BY <1>1, <2>1, <2>2 DEF RunnerOK, RunnerType
  <1>3. DoneOnce' /\ Room' /\ FlushOnce'
    BY <1>1, QuietStep DEF Body
  <1>4. StoredFirst' /\ SettledLate'
    BY <1>1 DEF RunnerOK, RunnerInv, StoredFirst, SettledLate, Body
  <1> QED BY <1>2, <1>3, <1>4 DEF RunnerOK, RunnerInv

----------------------------------------------------------------------------
(* The steps of the runner, for the subscriptions *)

\* The types of what the invariant says of one subscription.
LEMMA SubscriptionFacts ==
  ASSUME TurnInv, NEW s \in Subscribers
  PROVE  /\ SubscriptionOK(s)
         /\ kinds \in Seq(Kinds) /\ Len(kinds) \in Nat
         /\ Len(kinds) =< MaxSeq /\ MaxSeq \in Nat
         /\ start[s] \in Nat /\ last[s] \in Nat /\ joined[s] \in BOOLEAN
         /\ todo[s] \in Seq(1 .. MaxSeq) /\ Len(todo[s]) \in Nat
         /\ queue[s] \in Seq(0 .. MaxSeq) /\ Len(queue[s]) \in Nat
         /\ got[s] \in Seq(0 .. MaxSeq) /\ Len(got[s]) \in Nat
         /\ NextUp(s) \in Nat /\ Due(s) \in Nat
         /\ stage[s] \in {"new", "backlog", "live", "reread", "catchup", "orphan",
                          "judge", "told", "queue", "final", "closing", "ended", "gone"}
  <1>1. /\ kinds \in Seq(Kinds) /\ Len(kinds) =< MaxSeq /\ MaxSeq \in Nat
        /\ start[s] \in Nat /\ last[s] \in Nat /\ joined[s] \in BOOLEAN
        /\ todo[s] \in Seq(1 .. MaxSeq) /\ queue[s] \in Seq(0 .. MaxSeq)
        /\ got[s] \in Seq(0 .. MaxSeq)
        /\ stage[s] \in {"new", "backlog", "live", "reread", "catchup", "orphan",
                         "judge", "told", "queue", "final", "closing", "ended", "gone"}
    BY StreamAssumption DEF TurnInv, TypeOK, MaxSeq
  <1>2. /\ Len(kinds) \in Nat /\ Len(todo[s]) \in Nat
        /\ Len(queue[s]) \in Nat /\ Len(got[s]) \in Nat
    BY <1>1, LenProperties
  <1>3. SubscriptionOK(s)
    BY DEF TurnInv
  <1>4. NextUp(s) \in Nat /\ Due(s) \in Nat
    BY <1>1, <1>2, <1>3 DEF SubscriptionOK, ListOK, NextUp, Due
  <1> QED BY <1>1, <1>2, <1>3, <1>4

\* What is said of a subscription that does nothing, while nothing is published
\* and the runner neither leaves nor comes back.
LEMMA IdleSubscription ==
  ASSUME NEW s \in Subscribers, SubscriptionOK(s), kinds' = kinds, Live' <=> Live,
         runner' = "crashed" => runner = "crashed", runner' \in Body => runner \in Body,
         status' = "running" => status = "running",
         /\ stage'[s] = stage[s] /\ start'[s] = start[s] /\ last'[s] = last[s]
         /\ todo'[s] = todo[s] /\ joined'[s] = joined[s] /\ queue'[s] = queue[s]
         /\ got'[s] = got[s]
  PROVE  SubscriptionOK(s)'
  <1>1. NextUp(s)' = NextUp(s) /\ Due(s)' = Due(s)
    BY DEF NextUp, Due
  <1>2. SeenDone(s)' <=> SeenDone(s)
    BY DEF SeenDone, IsDone
  <1>3. Registered(s)' <=> Registered(s)
    BY DEF Registered
  <1>4. ListOK(s)'
    BY <1>1 DEF SubscriptionOK, ListOK
  <1>5. YieldedOK(s)'
    BY <1>2 DEF SubscriptionOK, YieldedOK
  <1>6. QueueOK(s)'
    BY <1>1, <1>3 DEF SubscriptionOK, QueueOK
  <1>7. StageOK(s)'
    BY <1>2 DEF SubscriptionOK, StageOK, IsDone
  <1> QED BY <1>4, <1>5, <1>6, <1>7 DEF SubscriptionOK

\* A step of the runner or of the row that publishes nothing.
LEMMA IdleSubscriptions ==
  ASSUME TurnInv, UNCHANGED <<kinds, reader, queue, got>>, Live' <=> Live,
         runner' = "crashed" => runner = "crashed", runner' \in Body => runner \in Body,
         status' = "running" => status = "running"
  PROVE  ReaderType' /\ \A s \in Subscribers : SubscriptionOK(s)'
  <1>1. ReaderType'
    BY TwoTypes DEF TurnInv, ReaderType, reader
  <1>2. ASSUME NEW s \in Subscribers PROVE SubscriptionOK(s)'
    BY IdleSubscription DEF TurnInv, reader
  <1> QED BY <1>1, <1>2

\* What a registered queue holds after ks was published.
GrownTo(r, m, q, lo, hi, e) ==
    /\ r \in Seq(0 .. m)
    /\ Len(r) = Len(q) + (hi - lo) + (IF e = Sentinel THEN 1 ELSE 0)
    /\ \A i \in 1 .. Len(r) :
          r[i] = IF i =< Len(q) THEN q[i]
                 ELSE IF i =< Len(q) + (hi - lo) THEN lo + (i - Len(q)) ELSE End

LEMMA QueueGrows ==
  ASSUME NEW m \in Nat, NEW q \in Seq(0 .. m), NEW lo \in Nat, NEW hi \in Nat,
         lo =< hi, hi =< m, NEW e \in {<<>>, Sentinel}
  PROVE  GrownTo(q \o Seqs(lo, hi) \o e, m, q, lo, hi, e)
  <1> DEFINE t == Seqs(lo, hi)
             a == q \o t
             n == hi - lo
             r == a \o e
  <1>1. Len(q) \in Nat /\ n \in Nat
    BY LenProperties
  <1>2. /\ t \in Seq(0 .. m) /\ Len(t) = n
        /\ \A i \in 1 .. Len(t) : t[i] = lo + i
    <2>2. /\ Len(t) = IF hi > lo THEN hi - lo ELSE 0
          /\ \A i \in 1 .. Len(t) : t[i] = lo + i
          /\ \A k \in Nat : hi =< k => t \in Seq(0 .. k)
      BY SeqsFacts
    <2> HIDE DEF t
    <2> QED BY <2>2
  <1>3. /\ e \in Seq(0 .. m) /\ Len(e) \in Nat
        /\ Len(e) = (IF e = Sentinel THEN 1 ELSE 0)
        /\ \A i \in 1 .. Len(e) : e[i] = End
    <2>1. CASE e = <<>>
      <3>1. Sentinel # <<>>
        BY DEF Sentinel
      <3>2. <<>> \in Seq(0 .. m) /\ Len(<<>>) = 0
        BY EmptySeq
      <3> QED BY <2>1, <3>1, <3>2
    <2>2. CASE e = Sentinel
      <3>1. Sentinel \in Seq(0 .. m) /\ Len(Sentinel) = 1 /\ Sentinel[1] = End
        BY DEF Sentinel, End
      <3> QED BY <2>2, <3>1
    <2> QED BY <2>1, <2>2
  <1> HIDE DEF t, n
  <1>4. /\ a \in Seq(0 .. m) /\ Len(a) = Len(q) + n
        /\ \A i \in 1 .. Len(q) + n : a[i] = IF i =< Len(q) THEN q[i] ELSE t[i - Len(q)]
    BY <1>2, ConcatProperties
  <1> HIDE DEF a
  <1>5. /\ r \in Seq(0 .. m) /\ Len(r) = Len(a) + Len(e)
        /\ \A i \in 1 .. Len(a) + Len(e) : r[i] = IF i =< Len(a) THEN a[i] ELSE e[i - Len(a)]
    <2>1. a \in Seq(0 .. m) /\ e \in Seq(0 .. m)
      BY <1>3, <1>4
    <2> QED BY <2>1, ConcatProperties
  <1> HIDE DEF r
  <1>6. Len(r) = Len(q) + n + (IF e = Sentinel THEN 1 ELSE 0)
    BY <1>3, <1>4, <1>5
  <1>7. ASSUME NEW i \in 1 .. Len(r)
        PROVE  r[i] = IF i =< Len(q) THEN q[i]
                      ELSE IF i =< Len(q) + n THEN lo + (i - Len(q)) ELSE End
    <2>0. Len(a) \in Nat /\ i \in 1 .. Len(a) + Len(e) /\ i \in Nat
      BY <1>1, <1>3, <1>4, <1>5
    <2>1. CASE i =< Len(q)
      <3>1. i \in 1 .. Len(q) + n /\ i =< Len(a)
        BY <1>1, <1>4, <2>0, <2>1
      <3> QED BY <1>4, <1>5, <2>0, <2>1, <3>1
    <2>2. CASE ~(i =< Len(q)) /\ i =< Len(q) + n
      <3>1. i \in 1 .. Len(q) + n /\ i =< Len(a) /\ i - Len(q) \in 1 .. Len(t)
        BY <1>1, <1>2, <1>4, <2>0, <2>2
      <3>2. r[i] = t[i - Len(q)]
        BY <1>4, <1>5, <2>0, <2>2, <3>1
      <3> QED BY <1>2, <2>2, <3>1, <3>2
    <2>3. CASE ~(i =< Len(q) + n)
      <3>1. ~(i =< Len(a)) /\ i - Len(a) \in 1 .. Len(e) /\ ~(i =< Len(q))
        BY <1>1, <1>3, <1>4, <2>0, <2>3
      <3> QED BY <1>3, <1>5, <2>0, <2>3, <3>1
    <2> QED BY <2>1, <2>2, <2>3
  <1>8. GrownTo(r, m, q, lo, hi, e)
    BY <1>5, <1>6, <1>7 DEF n, GrownTo
  <1> QED BY <1>8 DEF r, a, t

\* A step of the runner that publishes, and perhaps leaves.
LEMMA PublishedSubscriptions ==
  ASSUME TurnInv, NEW ks \in Seq(Kinds), NEW leaving \in BOOLEAN, Publish(ks, leaving),
         Live, Live' <=> ~leaving, runner' # "crashed", runner' \in Body => runner \in Body,
         status' = "running" => status = "running", Len(kinds') =< MaxSeq,
         UNCHANGED <<reader, got>>
  PROVE  ReaderType' /\ \A s \in Subscribers : SubscriptionOK(s)'
  <1>1. /\ kinds' \in Seq(Kinds) /\ Len(kinds) \in Nat /\ Len(ks) \in Nat
        /\ Len(kinds') = Len(kinds) + Len(ks)
        /\ \A i \in 1 .. Len(kinds) : kinds'[i] = kinds[i]
    <2>1. kinds \in Seq(Kinds) /\ kinds' = kinds \o ks
      BY DEF TurnInv, TypeOK, Publish
    <2> QED BY <2>1, KindsGrow
  <1>2. MaxSeq \in Nat /\ Len(kinds) + Len(ks) =< MaxSeq
    BY <1>1, StreamAssumption DEF MaxSeq
  <1>3. ASSUME NEW s \in Subscribers, Registered(s)
        PROVE  /\ queue'[s] \in Seq(0 .. MaxSeq)
               /\ Len(queue'[s]) = Len(queue[s]) + Len(ks) + (IF leaving THEN 1 ELSE 0)
               /\ \A i \in 1 .. Len(queue'[s]) :
                     queue'[s][i] = IF i =< Len(queue[s]) THEN queue[s][i]
                                    ELSE IF i =< Len(queue[s]) + Len(ks)
                                    THEN Len(kinds) + (i - Len(queue[s])) ELSE End
    <2>1. queue[s] \in Seq(0 .. MaxSeq)
      BY SubscriptionFacts
    <2> DEFINE e == IF leaving THEN Sentinel ELSE <<>>
    <2>2. queue'[s] = queue[s] \o Seqs(Len(kinds), Len(kinds')) \o e
      BY <1>1, <1>3 DEF Publish
    <2>3. e \in {<<>>, Sentinel} /\ (e = Sentinel <=> leaving)
      BY DEF Sentinel
    <2>4. /\ Len(kinds') \in Nat /\ Len(kinds) =< Len(kinds') /\ Len(kinds') =< MaxSeq
          /\ Len(kinds') - Len(kinds) = Len(ks)
      BY <1>1, <1>2
    <2> HIDE DEF e
    <2>5. /\ queue'[s] \in Seq(0 .. MaxSeq)
          /\ Len(queue'[s]) = Len(queue[s]) + (Len(kinds') - Len(kinds))
                                 + (IF e = Sentinel THEN 1 ELSE 0)
          /\ \A i \in 1 .. Len(queue'[s]) :
                queue'[s][i] = IF i =< Len(queue[s]) THEN queue[s][i]
                               ELSE IF i =< Len(queue[s]) + (Len(kinds') - Len(kinds))
                               THEN Len(kinds) + (i - Len(queue[s])) ELSE End
      <3>1. MaxSeq \in Nat /\ Len(kinds) \in Nat
        BY <1>1, <1>2
      <3>2. GrownTo(queue[s] \o Seqs(Len(kinds), Len(kinds')) \o e,
                    MaxSeq, queue[s], Len(kinds), Len(kinds'), e)
        BY <3>1, <2>1, <2>3, <2>4, QueueGrows
      <3> QED BY <2>2, <3>2 DEF GrownTo
    <2> QED BY <2>3, <2>4, <2>5
  <1>4. ASSUME NEW s \in Subscribers, ~Registered(s)
        PROVE  queue'[s] = queue[s] /\ queue[s] \in Seq(0 .. MaxSeq)
    BY <1>4, SubscriptionFacts DEF Publish
  <1>5. ReaderType'
    <2>1. queue' = [s \in Subscribers |-> queue'[s]]
      BY DEF Publish
    <2>2. queue' \in [Subscribers -> Seq(0 .. MaxSeq)]
      BY <1>3, <1>4, <2>1
    <2> QED BY <2>2, TwoTypes DEF TurnInv, ReaderType, reader
  <1>6. ASSUME NEW s \in Subscribers PROVE SubscriptionOK(s)'
    <2>1. /\ stage'[s] = stage[s] /\ start'[s] = start[s] /\ last'[s] = last[s]
          /\ todo'[s] = todo[s] /\ joined'[s] = joined[s] /\ got'[s] = got[s]
          /\ (Registered(s)' <=> Registered(s))
      BY DEF reader, Registered
    <2>2. /\ SubscriptionOK(s) /\ start[s] \in Nat /\ last[s] \in Nat
          /\ Len(todo[s]) \in Nat /\ Len(queue[s]) \in Nat
          /\ NextUp(s) \in Nat /\ Due(s) \in Nat
      BY SubscriptionFacts
    <2>3. NextUp(s)' = NextUp(s) /\ Due(s)' = Due(s) + Len(ks)
      <3>1. NextUp(s)' = NextUp(s)
        BY <2>1 DEF NextUp
      <3> QED BY <1>1, <2>2, <3>1 DEF Due
    <2>4. last[s] =< Len(kinds) /\ start[s] =< last[s]
      BY <1>1, <2>2 DEF SubscriptionOK, ListOK, NextUp
    <2>5. \A k \in 1 .. last[s] : IsDone(k)' <=> IsDone(k)
      BY <1>1, <2>2, <2>4 DEF IsDone
    <2>6. SeenDone(s)' <=> SeenDone(s)
      BY <2>1, <2>2, <2>5 DEF SeenDone
    <2>7. ListOK(s)'
      BY <1>1, <2>1, <2>2, <2>3 DEF SubscriptionOK, ListOK
    <2>8. YieldedOK(s)'
      BY <2>1, <2>2, <2>6 DEF SubscriptionOK, YieldedOK
    <2>9. QueueOK(s)'
      <3> SUFFICES ASSUME Registered(s)
                   PROVE  /\ Len(queue'[s]) = Due(s) + Len(ks) + (IF leaving THEN 1 ELSE 0)
                          /\ \A i \in 1 .. Len(queue'[s]) :
                                queue'[s][i] = IF i =< Due(s) + Len(ks)
                                               THEN NextUp(s) + i ELSE End
        BY <2>1, <2>3 DEF QueueOK
      <3>1. /\ Len(queue[s]) = Due(s)
            /\ \A i \in 1 .. Len(queue[s]) : queue[s][i] = NextUp(s) + i
        BY <2>2 DEF SubscriptionOK, QueueOK
      <3>2. Len(kinds) = NextUp(s) + Due(s)
        BY <1>1, <2>2 DEF Due
      <3>3. Len(queue'[s]) = Due(s) + Len(ks) + (IF leaving THEN 1 ELSE 0)
        BY <1>3, <3>1
      <3>4. ASSUME NEW i \in 1 .. Len(queue'[s])
            PROVE  queue'[s][i] = IF i =< Due(s) + Len(ks) THEN NextUp(s) + i ELSE End
        <4>0. i \in Nat /\ i >= 1 /\ Len(ks) \in Nat
          BY <1>1, <2>2, <3>3
        <4>1. queue'[s][i] = IF i =< Due(s) THEN queue[s][i]
                             ELSE IF i =< Due(s) + Len(ks) THEN Len(kinds) + (i - Due(s)) ELSE End
          BY <1>3, <3>1
        <4>2. CASE i =< Due(s)
          <5>1. queue[s][i] = NextUp(s) + i
            BY <2>2, <3>1, <4>0, <4>2
          <5>2. i =< Due(s) + Len(ks)
            BY <2>2, <4>0, <4>2
          <5> QED BY <4>1, <4>2, <5>1, <5>2
        <4>3. CASE ~(i =< Due(s)) /\ i =< Due(s) + Len(ks)
          <5>1. Len(kinds) + (i - Due(s)) = NextUp(s) + i
            BY <2>2, <3>2, <4>0
          <5> QED BY <4>1, <4>3, <5>1
        <4>4. CASE ~(i =< Due(s) + Len(ks))
          <5>1. ~(i =< Due(s))
            BY <2>2, <4>0, <4>4
          <5> QED BY <4>1, <4>4, <5>1
        <4> QED BY <4>2, <4>3, <4>4
      <3> QED BY <3>3, <3>4
    <2>10. StageOK(s)'
      <3>1. stage[s] \notin {"reread", "catchup", "orphan", "judge", "told", "final"}
        BY <2>2 DEF SubscriptionOK, StageOK
      <3>2. stage[s] \in {"new", "backlog"} => queue'[s] = queue[s]
        <4>1. stage[s] \in {"new", "backlog"} => ~Registered(s)
          BY DEF Registered
        <4> QED BY <1>4, <4>1
      <3>3. stage[s] = "ended" => Len(got[s]) = last[s] - start[s] + 1
                                  \/ \E k \in 1 .. last[s] : IsDone(k)'
        BY <2>2, <2>5 DEF SubscriptionOK, StageOK
      <3> QED BY <2>1, <2>2, <2>6, <3>1, <3>2, <3>3 DEF SubscriptionOK, StageOK
    <2> QED BY <2>7, <2>8, <2>9, <2>10 DEF SubscriptionOK
  <1> QED BY <1>5, <1>6

\* The parts of the invariant after a step.
LEMMA Assemble ==
  ASSUME RunnerOK', ReaderType', \A s \in Subscribers : SubscriptionOK(s)'
  PROVE  TurnInv'
  <1>1. TypeOK'
    BY DEF TypeOK, RunnerOK, RunnerType, ReaderType
  <1> QED BY <1>1 DEF TurnInv, RunnerOK

\* A step of the runner that publishes keeps the invariant.
LEMMA PublishingStep ==
  ASSUME TurnInv,
         Stream \/ Complete \/ TitleDone \/ Settle \/ Fail \/ HandlerFault \/ Cancel \/ CancelAgain
  PROVE  TurnInv'
  <1>1. RunnerOK
    BY TwoTypes DEF TurnInv, RunnerOK
  <1>2. RunnerOK'
    BY <1>1, StreamOK, CompleteOK, TitleDoneOK, SettleOK, FailOK, HandlerFaultOK, CancelOK,
       CancelAgainOK
  <1>3. Len(kinds') =< MaxSeq
    BY <1>2 DEF RunnerOK, RunnerType
  <1>4. \E ks \in {<<>>, <<"event">>, <<"done">>, <<"meta">>, <<"error", "done">>} :
           \E leaving \in BOOLEAN :
              Publish(ks, leaving) /\ (leaving <=> runner' = "ended")
    <2>1. CASE Stream
      <3>1. Publish(<<"event">>, FALSE) /\ runner' # "ended"
        BY <2>1 DEF Stream
      <3> QED BY <3>1
    <2>2. CASE Complete
      <3>1. PICK regen \in BOOLEAN : /\ runner' = IF regen THEN "ended" ELSE "title"
                                     /\ Publish(<<"done">>, regen)
        BY <2>2 DEF Complete
      <3> QED BY <3>1
    <2>3. CASE TitleDone
      <3>1. PICK ks \in {<<>>, <<"meta">>} : Publish(ks, TRUE)
        BY <2>3 DEF TitleDone
      <3>2. runner' = "ended"
        BY <2>3 DEF TitleDone
      <3> QED BY <3>1, <3>2
    <2>4. CASE Settle \/ CancelAgain
      <3>1. Publish(<<>>, TRUE) /\ runner' = "ended"
        BY <2>4 DEF Settle, CancelAgain
      <3> QED BY <3>1
    <2>5. CASE Fail
      <3>1. Publish(<<"error", "done">>, FALSE) /\ runner' # "ended"
        BY <2>5 DEF Fail
      <3> QED BY <3>1
    <2>6. CASE HandlerFault
      <3>1. Publish(<<>>, runner' = "ended") /\ (runner' = "ended") \in BOOLEAN
        BY <2>6 DEF HandlerFault
      <3> QED BY <3>1
    <2>7. CASE Cancel
      <3>1. Publish(IF runner = "title" THEN <<>> ELSE <<"error", "done">>, FALSE)
        BY <2>7 DEF Cancel
      <3>2. runner' # "ended"
        BY <2>7 DEF Cancel, SaveOrSettle
      <3> QED BY <3>1, <3>2
    <2> QED BY <2>1, <2>2, <2>3, <2>4, <2>5, <2>6, <2>7
  <1>5. \A ks \in {<<>>, <<"event">>, <<"done">>, <<"meta">>, <<"error", "done">>} : ks \in Seq(Kinds)
    <2>1. /\ <<>> \in Seq(Kinds) /\ <<"event">> \in Seq(Kinds) /\ <<"meta">> \in Seq(Kinds)
          /\ <<"done">> \in Seq(Kinds) /\ <<"error", "done">> \in Seq(Kinds)
      BY EmptySeq DEF Kinds
    <2> QED BY <2>1
  <1>6. Live /\ (Live' <=> runner' # "ended") /\ runner' # "crashed"
    <2>1. runner \in Body \cup {"title"} \cup CancelHandler \cup FailHandler
      BY DEF Stream, Complete, TitleDone, Settle, Fail, HandlerFault, Cancel, CancelAgain, Body,
             CancelHandler, FailHandler
    <2>2. runner' # "crashed"
      BY <2>1 DEF Stream, Complete, TitleDone, Settle, Fail, HandlerFault, Cancel, CancelAgain,
                  SaveOrSettle, CancelHandler, FailHandler
    <2>3. runner' \in Body \cup CancelHandler \cup FailHandler \cup {"title", "ended", "crashed"}
      BY <1>2 DEF RunnerOK, RunnerType
    <2>4. "ended" \notin Body \cup CancelHandler \cup FailHandler \cup {"title"}
      BY DEF Body, CancelHandler, FailHandler
    <2> QED BY <2>1, <2>2, <2>3, <2>4 DEF Live
  <1>7. runner' \in Body => runner \in Body
    BY DEF Stream, Complete, TitleDone, Settle, Fail, HandlerFault, Cancel, CancelAgain,
           SaveOrSettle, Body, CancelHandler, FailHandler
  <1>8. status' = "running" => status = "running"
    BY DEF Stream, Complete, TitleDone, Settle, Fail, HandlerFault, Cancel, CancelAgain, rows,
           LeaveBehind
  <1>9. UNCHANGED <<reader, got>>
    BY DEF Stream, Complete, TitleDone, Settle, Fail, HandlerFault, Cancel, CancelAgain
  <1>10. ReaderType' /\ \A s \in Subscribers : SubscriptionOK(s)'
    <2>1. PICK ks \in {<<>>, <<"event">>, <<"done">>, <<"meta">>, <<"error", "done">>} :
             \E leaving \in BOOLEAN : Publish(ks, leaving) /\ (leaving <=> runner' = "ended")
      BY <1>4
    <2>2. PICK leaving \in BOOLEAN : Publish(ks, leaving) /\ (leaving <=> runner' = "ended")
      BY <2>1
    <2>3. ks \in Seq(Kinds) /\ (Live' <=> ~leaving)
      BY <1>5, <1>6, <2>2
    <2> QED BY <1>3, <1>6, <1>7, <1>8, <1>9, <2>2, <2>3, PublishedSubscriptions
  <1> QED BY <1>2, <1>10, Assemble

\* A step that publishes nothing keeps it.
LEMMA IdleStep ==
  ASSUME TurnInv,
         EndOfStream \/ AppendEvent \/ EndFlush \/ Saved \/ LandStatus \/ LandEvent \/ Recover
  PROVE  TurnInv'
  <1>1. RunnerOK
    BY TwoTypes DEF TurnInv, RunnerOK
  <1>2. RunnerOK'
    <2>1. CASE LandStatus \/ Recover
      BY <1>1, <2>1, RowOK DEF LandStatus, Recover, storage, budget
    <2> QED BY <1>1, <2>1, EndOfStreamOK, AppendEventOK, EndFlushOK, SavedOK, LandEventOK
  <1>3. UNCHANGED <<kinds, reader, queue, got>>
    BY DEF EndOfStream, AppendEvent, EndFlush, Saved, LandStatus, LandEvent, Recover
  <1>4. /\ runner' = "crashed" => runner = "crashed"
        /\ runner' \in Body => runner \in Body
        /\ Live' <=> Live
    BY DEF EndOfStream, AppendEvent, EndFlush, Saved, LandStatus, LandEvent, Recover,
           SaveOrSettle, Live, Body, CancelHandler, FailHandler
  <1>5. status' = "running" => status = "running"
    <2>1. CASE LandStatus
      BY <2>1 DEF LandStatus, TurnInv, TypeOK, Terminal
    <2> QED BY <2>1 DEF EndOfStream, AppendEvent, EndFlush, Saved, LandEvent, Recover, rows
  <1>6. ReaderType' /\ \A s \in Subscribers : SubscriptionOK(s)'
    BY <1>3, <1>4, <1>5, IdleSubscriptions
  <1> QED BY <1>2, <1>6, Assemble

LEMMA CrashStep ==
  ASSUME TurnInv, Crash PROVE TurnInv'
  <1>1. RunnerOK /\ ReaderType
    BY TwoTypes DEF TurnInv, RunnerOK
  <1>2. RunnerOK'
    BY <1>1, CrashOK
  <1>3. /\ runner' \in {"ended", "crashed"} /\ ~Live' /\ runner' \notin Body
        /\ UNCHANGED <<kinds, status, start, last, todo, joined, queue, got>>
    BY <1>1 DEF Crash, Live, RunnerOK, RunnerType, Body, CancelHandler, FailHandler
  <1>4. ReaderType'
    BY <1>1, <1>3 DEF ReaderType, Crash
  <1>5. ASSUME NEW s \in Subscribers PROVE SubscriptionOK(s)'
    <2>1. /\ stage'[s] = IF stage[s] \in {"new", "ended"} THEN stage[s] ELSE "gone"
          /\ start'[s] = start[s] /\ last'[s] = last[s] /\ todo'[s] = todo[s]
          /\ joined'[s] = joined[s] /\ queue'[s] = queue[s] /\ got'[s] = got[s]
      BY <1>3 DEF Crash
    <2>2. /\ NextUp(s)' = NextUp(s) /\ (SeenDone(s)' <=> SeenDone(s))
          /\ \A k : IsDone(k)' <=> IsDone(k)
      BY <1>3 DEF NextUp, SeenDone, IsDone
    <2>3. SubscriptionOK(s)
      BY DEF TurnInv
    <2>4. ListOK(s)'
      BY <1>3, <2>1, <2>2, <2>3 DEF SubscriptionOK, ListOK
    <2>5. YieldedOK(s)'
      BY <1>3, <2>1, <2>2, <2>3 DEF SubscriptionOK, YieldedOK
    <2>6. QueueOK(s)'
      BY <2>1 DEF QueueOK, Registered
    <2>7. StageOK(s)'
      BY <2>1, <2>2, <2>3 DEF SubscriptionOK, StageOK
    <2> QED BY <2>4, <2>5, <2>6, <2>7 DEF SubscriptionOK
  <1> QED BY <1>2, <1>4, <1>5, Assemble

----------------------------------------------------------------------------
(* The steps of a subscription *)

\* A step of one subscription leaves what is said of the runner and of the others
\* alone.
LEMMA OneSubscription ==
  ASSUME TurnInv, UNCHANGED <<runner, kinds, storage, rows, budget>>, NEW x \in Subscribers,
         ReaderType', SubscriptionOK(x)',
         \A s \in Subscribers \ {x} :
            /\ stage'[s] = stage[s] /\ start'[s] = start[s] /\ last'[s] = last[s]
            /\ todo'[s] = todo[s] /\ joined'[s] = joined[s] /\ queue'[s] = queue[s]
            /\ got'[s] = got[s]
  PROVE  TurnInv'
  <1>1. RunnerOK'
    <2>1. RunnerType'
      BY TwoTypes DEF TurnInv, RunnerType, storage, rows, budget
    <2>2. RunnerInv'
      BY DEF TurnInv, RunnerInv, DoneOnce, Room, FlushOnce, StoredFirst, SettledLate, IsDone,
             storage, rows
    <2> QED BY <2>1, <2>2 DEF RunnerOK
  <1>2. ASSUME NEW s \in Subscribers \ {x} PROVE SubscriptionOK(s)'
    <2>1. SubscriptionOK(s) /\ (Live' <=> Live) /\ status' = status
      BY DEF TurnInv, Live, rows
    <2> QED BY <2>1, IdleSubscription
  <1>3. \A s \in Subscribers : SubscriptionOK(s)'
    BY <1>2
  <1> QED BY <1>1, <1>3, Assemble

\* Unless it is over a subscription has yielded what it was to yield, no more.
LEMMA NotOver ==
  ASSUME TurnInv, NEW s \in Subscribers, stage[s] \notin {"ended", "gone"}
  PROVE  /\ Len(got[s]) = last[s] - start[s]
         /\ \A i \in 1 .. Len(got[s]) : got[s][i] = start[s] + i
         /\ DoneYielded(s) <=> SeenDone(s)
  <1>1. /\ start[s] \in Nat /\ last[s] \in Nat /\ start[s] =< last[s] /\ Len(got[s]) \in Nat
        /\ YieldedOK(s)
    BY SubscriptionFacts DEF SubscriptionOK, ListOK
  <1>2. Len(got[s]) = last[s] - start[s]
    BY <1>1 DEF YieldedOK
  <1>3. \A i \in 1 .. Len(got[s]) : got[s][i] = start[s] + i
    BY <1>1, <1>2 DEF YieldedOK
  <1>4. DoneYielded(s) => SeenDone(s)
    <2> SUFFICES ASSUME NEW i \in 1 .. Len(got[s]), kinds[got[s][i]] = "done" PROVE SeenDone(s)
      BY DEF DoneYielded
    <2>1. start[s] + i \in start[s] + 1 .. last[s] /\ got[s][i] = start[s] + i
      BY <1>1, <1>2, <1>3
    <2> QED BY <2>1 DEF SeenDone, IsDone
  <1>5. SeenDone(s) => DoneYielded(s)
    <2> SUFFICES ASSUME NEW k \in start[s] + 1 .. last[s], kinds[k] = "done" PROVE DoneYielded(s)
      BY DEF SeenDone, IsDone
    <2> DEFINE i == k - start[s]
    <2>1. i \in 1 .. Len(got[s]) /\ start[s] + i = k /\ k # 0
      BY <1>1, <1>2
    <2>2. got[s][i] = k
      BY <1>3, <2>1
    <2> QED BY <2>1, <2>2 DEF DoneYielded, Synth
  <1> QED BY <1>2, <1>3, <1>4, <1>5

\* What is stored is some of what was published.
LEMMA StoredBound ==
  ASSUME TurnInv PROVE stored \in Nat /\ stored =< Len(kinds) /\ stored =< MaxSeq
  <1>1. /\ kinds \in Seq(Kinds) /\ Len(kinds) =< MaxSeq
        /\ toStore \in 0 .. Len(kinds) /\ stored \in 0 .. toStore
    BY DEF TurnInv, TypeOK
  <1>2. Len(kinds) \in Nat /\ MaxSeq \in Nat
    BY <1>1, LenProperties, StreamAssumption DEF MaxSeq
  <1> QED BY <1>1, <1>2

LEMMA OpenStep ==
  ASSUME TurnInv, NEW s \in Subscribers, NEW after \in 0 .. Len(kinds), Open(s, after)
  PROVE  TurnInv'
  <1>1. /\ stage[s] = "new"
        /\ stage' = [stage EXCEPT ![s] = "backlog"]
        /\ start' = [start EXCEPT ![s] = after] /\ last' = [last EXCEPT ![s] = after]
        /\ todo' = [todo EXCEPT ![s] = Seqs(after, stored)]
        /\ UNCHANGED <<runner, kinds, storage, rows, joined, queue, got, budget>>
    BY DEF Open, Enter
  <1>2. /\ ReaderType /\ after \in 0 .. MaxSeq /\ after =< Len(kinds) /\ after \in Nat
        /\ stored \in Nat /\ stored =< Len(kinds) /\ Len(kinds) =< MaxSeq /\ MaxSeq \in Nat
        /\ Len(kinds) \in Nat
    <2>1. Len(kinds) \in Nat /\ Len(kinds) =< MaxSeq /\ MaxSeq \in Nat
      BY SubscriptionFacts
    <2>2. after \in 0 .. MaxSeq /\ after =< Len(kinds) /\ after \in Nat
      BY <2>1
    <2> QED BY <2>1, <2>2, TwoTypes, StoredBound DEF TurnInv
  <1>3. /\ Seqs(after, stored) \in Seq(1 .. MaxSeq)
        /\ Len(Seqs(after, stored)) = IF stored > after THEN stored - after ELSE 0
        /\ \A i \in 1 .. Len(Seqs(after, stored)) : Seqs(after, stored)[i] = after + i
    <2>1. stored =< MaxSeq
      BY <1>2
    <2> QED BY <1>2, <2>1, SeqsFacts
  <1>4. ReaderType'
    BY <1>1, <1>2, <1>3 DEF ReaderType
  <1>5. /\ stage'[s] = "backlog" /\ start'[s] = after /\ last'[s] = after
        /\ todo'[s] = Seqs(after, stored) /\ joined'[s] = joined[s] /\ queue'[s] = <<>>
        /\ got'[s] = <<>> /\ Len(got'[s]) = 0 /\ ~joined[s]
    BY <1>1, <1>2, SubscriptionFacts, EmptySeq DEF ReaderType, SubscriptionOK, StageOK
  <1>6. ListOK(s)'
    BY <1>1, <1>2, <1>3, <1>5 DEF ListOK, NextUp
  <1>7. YieldedOK(s)'
    BY <1>2, <1>5 DEF YieldedOK
  <1>8. QueueOK(s)' /\ StageOK(s)'
    BY <1>5 DEF QueueOK, Registered, StageOK
  <1>9. SubscriptionOK(s)'
    BY <1>6, <1>7, <1>8 DEF SubscriptionOK
  <1> QED BY <1>1, <1>2, <1>4, <1>9, OneSubscription DEF ReaderType

LEMMA JoinStep ==
  ASSUME TurnInv, NEW s \in Subscribers, Join(s) PROVE TurnInv'
  <1>1. /\ stage[s] = "backlog" /\ todo[s] = <<>>
        /\ joined' = [joined EXCEPT ![s] = Live]
        /\ stage' = [stage EXCEPT ![s] = IF Live THEN "live" ELSE "reread"]
        /\ todo' = [todo EXCEPT ![s] = IF Live THEN Seqs(last[s], Len(kinds)) ELSE @]
        /\ UNCHANGED <<runner, kinds, storage, rows, start, last, queue, got, budget>>
    BY TwoTypes DEF Join, Enter, LiveBacklog, TurnInv, ReaderType
  <1>2. /\ ReaderType /\ last[s] \in Nat /\ start[s] \in Nat /\ start[s] =< last[s]
        /\ last[s] =< Len(kinds) /\ Len(kinds) =< MaxSeq /\ MaxSeq \in Nat /\ Len(kinds) \in Nat
        /\ queue[s] = <<>> /\ Len(queue[s]) = 0 /\ Len(todo[s]) = 0
        /\ Len(got[s]) = last[s] - start[s] /\ YieldedOK(s) /\ ListOK(s)
    <2>1. /\ SubscriptionOK(s) /\ last[s] \in Nat /\ start[s] \in Nat /\ Len(todo[s]) \in Nat
          /\ Len(kinds) =< MaxSeq /\ MaxSeq \in Nat /\ Len(kinds) \in Nat
      BY SubscriptionFacts
    <2>2. ReaderType
      BY TwoTypes DEF TurnInv
    <2>3. ListOK(s) /\ YieldedOK(s) /\ queue[s] = <<>>
      BY <1>1, <2>1 DEF SubscriptionOK, StageOK
    <2>4. Len(queue[s]) = 0 /\ Len(todo[s]) = 0
      BY <1>1, <2>3, EmptySeq
    <2>5. start[s] =< last[s] /\ last[s] + Len(todo[s]) =< Len(kinds)
      BY <2>3 DEF ListOK, NextUp
    <2>6. last[s] =< Len(kinds)
      BY <2>1, <2>4, <2>5
    <2>7. Len(got[s]) = last[s] - start[s]
      BY <1>1, NotOver
    <2> QED BY <2>1, <2>2, <2>3, <2>4, <2>5, <2>6, <2>7, Zenon
  <1>3. /\ Seqs(last[s], Len(kinds)) \in Seq(1 .. MaxSeq)
        /\ Len(Seqs(last[s], Len(kinds))) = Len(kinds) - last[s]
        /\ \A i \in 1 .. Len(Seqs(last[s], Len(kinds))) : Seqs(last[s], Len(kinds))[i] = last[s] + i
    <2>1. /\ \A m \in Nat : Len(kinds) =< m => Seqs(last[s], Len(kinds)) \in Seq(1 .. m)
          /\ Len(Seqs(last[s], Len(kinds))) = IF Len(kinds) > last[s] THEN Len(kinds) - last[s] ELSE 0
          /\ \A i \in 1 .. Len(Seqs(last[s], Len(kinds))) :
                Seqs(last[s], Len(kinds))[i] = last[s] + i
      BY <1>2, SeqsFacts
    <2> QED BY <1>2, <2>1
  <1>4. Live \in BOOLEAN
    BY DEF Live
  <1>5. ReaderType'
    <2>1. joined' \in [Subscribers -> BOOLEAN]
      BY <1>1, <1>2, <1>4 DEF ReaderType
    <2>2. todo' \in [Subscribers -> Seq(1 .. MaxSeq)]
      BY <1>1, <1>2, <1>3 DEF ReaderType
    <2> QED BY <1>1, <1>2, <2>1, <2>2 DEF ReaderType
  <1>6. /\ start'[s] = start[s] /\ last'[s] = last[s] /\ queue'[s] = queue[s] /\ got'[s] = got[s]
        /\ stage'[s] = IF Live THEN "live" ELSE "reread"
        /\ todo'[s] = IF Live THEN Seqs(last[s], Len(kinds)) ELSE todo[s]
        /\ (SeenDone(s)' <=> SeenDone(s)) /\ (Live' <=> Live)
    BY <1>1, <1>2 DEF ReaderType, SeenDone, IsDone, Live
  <1>6a. joined'[s] <=> Live
    BY <1>1, <1>2 DEF ReaderType
  <1>7. ListOK(s)'
    BY <1>1, <1>2, <1>3, <1>6 DEF ListOK, NextUp
  <1>8. YieldedOK(s)'
    BY <1>1, <1>2, <1>6 DEF YieldedOK
  <1>9. QueueOK(s)'
    <2> SUFFICES ASSUME Live PROVE Len(queue[s]) = Due(s)' /\ Len(queue[s]) = 0
      BY <1>6, <1>6a, <1>2 DEF QueueOK, Registered
    <2>1. NextUp(s)' = last[s] + (Len(kinds) - last[s])
      BY <1>3, <1>6 DEF NextUp
    <2>2. Due(s)' = 0
      BY <1>1, <1>2, <2>1 DEF Due
    <2> QED BY <1>2, <2>2
  <1>10. StageOK(s)'
    BY <1>1, <1>6, <1>6a DEF StageOK, Live, Body, CancelHandler, FailHandler
  <1>11. SubscriptionOK(s)'
    BY <1>7, <1>8, <1>9, <1>10 DEF SubscriptionOK
  <1> QED BY <1>1, <1>2, <1>5, <1>11, OneSubscription DEF ReaderType

LEMMA RereadStep ==
  ASSUME TurnInv, NEW s \in Subscribers, Reread(s) PROVE TurnInv'
  <1>1. /\ stage[s] = "reread"
        /\ stage' = [stage EXCEPT ![s] = "catchup"]
        /\ todo' = [todo EXCEPT ![s] = Seqs(last[s], stored)]
        /\ UNCHANGED <<runner, kinds, storage, rows, start, last, joined, queue, got, budget>>
    BY DEF Reread, Enter
  <1>2. /\ ReaderType /\ last[s] \in Nat /\ start[s] \in Nat /\ start[s] =< last[s]
        /\ stored \in Nat /\ stored =< Len(kinds) /\ Len(kinds) =< MaxSeq /\ MaxSeq \in Nat
        /\ last[s] =< Len(kinds) /\ Len(kinds) \in Nat /\ ~joined[s] /\ ~Live
        /\ Len(got[s]) = last[s] - start[s] /\ YieldedOK(s)
    <2>1. /\ SubscriptionOK(s) /\ last[s] \in Nat /\ start[s] \in Nat /\ Len(todo[s]) \in Nat
          /\ Len(kinds) \in Nat /\ Len(kinds) =< MaxSeq /\ MaxSeq \in Nat
      BY SubscriptionFacts
    <2>2. start[s] =< last[s] /\ last[s] =< Len(kinds)
      BY <2>1 DEF SubscriptionOK, ListOK, NextUp
    <2>3. ~joined[s] /\ ~Live /\ YieldedOK(s)
      BY <1>1, <2>1 DEF SubscriptionOK, StageOK
    <2>4. Len(got[s]) = last[s] - start[s]
      BY <1>1, NotOver
    <2> QED BY <2>1, <2>2, <2>3, <2>4, TwoTypes, StoredBound DEF TurnInv
  <1>3. /\ Seqs(last[s], stored) \in Seq(1 .. MaxSeq)
        /\ Len(Seqs(last[s], stored)) = IF stored > last[s] THEN stored - last[s] ELSE 0
        /\ \A i \in 1 .. Len(Seqs(last[s], stored)) : Seqs(last[s], stored)[i] = last[s] + i
    <2>1. stored =< MaxSeq
      BY <1>2
    <2> QED BY <1>2, <2>1, SeqsFacts
  <1>4. ReaderType'
    BY <1>1, <1>2, <1>3 DEF ReaderType
  <1>5. /\ stage'[s] = "catchup" /\ start'[s] = start[s] /\ last'[s] = last[s]
        /\ todo'[s] = Seqs(last[s], stored) /\ joined'[s] = joined[s] /\ queue'[s] = queue[s]
        /\ got'[s] = got[s] /\ (SeenDone(s)' <=> SeenDone(s)) /\ ~Live'
    BY <1>1, <1>2 DEF ReaderType, SeenDone, IsDone, Live
  <1>6. ListOK(s)'
    <2>1. start'[s] =< last'[s] /\ Len(kinds') = Len(kinds)
      BY <1>1, <1>2, <1>5
    <2>2. last[s] + Len(Seqs(last[s], stored)) =< Len(kinds)
      BY <1>2, <1>3
    <2>3. \A i \in 1 .. Len(todo'[s]) : todo'[s][i] = last'[s] + i
      BY <1>3, <1>5
    <2> QED BY <1>5, <2>1, <2>2, <2>3 DEF ListOK, NextUp
  <1>7. YieldedOK(s)'
    BY <1>1, <1>2, <1>5 DEF YieldedOK
  <1>8. QueueOK(s)' /\ StageOK(s)'
    BY <1>2, <1>5 DEF QueueOK, Registered, StageOK
  <1>9. SubscriptionOK(s)'
    BY <1>6, <1>7, <1>8 DEF SubscriptionOK
  <1> QED BY <1>1, <1>2, <1>4, <1>9, OneSubscription DEF ReaderType

\* What is said of the events yielded, when the next one is.
LEMMA YieldedNext ==
  ASSUME TurnInv, NEW s \in Subscribers, stage[s] \notin {"ended", "gone"},
         last[s] + 1 =< MaxSeq, got'[s] = Append(got[s], last[s] + 1),
         last'[s] = last[s] + 1, start'[s] = start[s]
  PROVE  got'[s] \in Seq(0 .. MaxSeq) /\ YieldedOK(s)'
  <1>1. /\ start[s] \in Nat /\ last[s] \in Nat /\ start[s] =< last[s] /\ MaxSeq \in Nat
        /\ got[s] \in Seq(0 .. MaxSeq) /\ Len(got[s]) \in Nat
    BY SubscriptionFacts DEF SubscriptionOK, ListOK
  <1>2. Len(got[s]) = last[s] - start[s] /\ \A i \in 1 .. Len(got[s]) : got[s][i] = start[s] + i
    BY NotOver
  <1>3. last[s] + 1 \in 0 .. MaxSeq
    BY <1>1
  <1>4. /\ got'[s] \in Seq(0 .. MaxSeq) /\ Len(got'[s]) = Len(got[s]) + 1
        /\ \A i \in 1 .. Len(got[s]) + 1 :
              got'[s][i] = IF i =< Len(got[s]) THEN got[s][i] ELSE last[s] + 1
    BY <1>1, <1>3, AppendOne
  <1>5. Len(got'[s]) = last'[s] - start'[s]
    BY <1>1, <1>2, <1>4
  <1>6. ASSUME NEW i \in 1 .. last'[s] - start'[s] PROVE got'[s][i] = start'[s] + i
    <2>1. i \in 1 .. Len(got[s]) + 1 /\ i \in Nat
      BY <1>1, <1>2
    <2>2. CASE i =< Len(got[s])
      <3>1. i \in 1 .. Len(got[s])
        BY <1>1, <2>1, <2>2
      <3>2. got'[s][i] = got[s][i] /\ got[s][i] = start[s] + i
        BY <1>2, <1>4, <2>1, <2>2, <3>1
      <3> QED BY <3>2
    <2>3. CASE ~(i =< Len(got[s]))
      <3>1. last[s] + 1 = start[s] + i
        BY <1>1, <1>2, <2>1, <2>3
      <3>2. got'[s][i] = last[s] + 1
        BY <1>4, <2>1, <2>3
      <3> QED BY <3>1, <3>2
    <2> QED BY <2>2, <2>3
  <1>7. last'[s] \in Nat /\ start'[s] \in Nat
    BY <1>1
  <1>8. Len(got'[s]) # last'[s] - start'[s] + 1
    BY <1>5, <1>7
  <1> QED BY <1>4, <1>5, <1>6, <1>8 DEF YieldedOK

LEMMA YieldNextStep ==
  ASSUME TurnInv, NEW s \in Subscribers, YieldNext(s) PROVE TurnInv'
  <1>1. /\ stage[s] \in {"backlog", "live", "catchup"} /\ todo[s] # <<>>
        /\ todo' = [todo EXCEPT ![s] = Tail(@)]
        /\ UNCHANGED <<runner, kinds, storage, rows, stage, start, joined, queue, budget>>
    BY DEF YieldNext
  <1>2. /\ ReaderType /\ SubscriptionOK(s) /\ last[s] \in Nat /\ start[s] \in Nat
        /\ Len(kinds) \in Nat /\ Len(kinds) =< MaxSeq /\ MaxSeq \in Nat
        /\ todo[s] \in Seq(1 .. MaxSeq)
    BY TwoTypes, SubscriptionFacts DEF TurnInv
  <1>3. /\ Len(todo[s]) \in Nat \ {0} /\ Head(todo[s]) = todo[s][1]
        /\ Tail(todo[s]) \in Seq(1 .. MaxSeq) /\ Len(Tail(todo[s])) = Len(todo[s]) - 1
        /\ \A i \in 1 .. Len(todo[s]) - 1 : Tail(todo[s])[i] = todo[s][i + 1]
    BY <1>1, <1>2, DropOne
  <1>4. /\ \A i \in 1 .. Len(todo[s]) : todo[s][i] = last[s] + i
        /\ last[s] + Len(todo[s]) =< Len(kinds) /\ start[s] =< last[s]
    BY <1>2 DEF SubscriptionOK, ListOK, NextUp
  <1>5. Head(todo[s]) = last[s] + 1
    <2>1. 1 \in 1 .. Len(todo[s])
      BY <1>3
    <2> QED BY <1>3, <1>4, <2>1
  <1>6. Head(todo[s]) > last[s] /\ last[s] + 1 =< MaxSeq /\ last[s] + 1 \in 0 .. MaxSeq
    BY <1>2, <1>3, <1>4, <1>5
  <1>7. /\ got' = [got EXCEPT ![s] = Append(@, last[s] + 1)]
        /\ last' = [last EXCEPT ![s] = last[s] + 1]
    BY <1>5, <1>6 DEF YieldNext, YieldSeq
  <1>8. /\ last'[s] = last[s] + 1 /\ got'[s] = Append(got[s], last[s] + 1)
        /\ todo'[s] = Tail(todo[s]) /\ start'[s] = start[s] /\ stage'[s] = stage[s]
        /\ joined'[s] = joined[s] /\ queue'[s] = queue[s]
    BY <1>1, <1>2, <1>7 DEF ReaderType
  <1>9. got'[s] \in Seq(0 .. MaxSeq) /\ YieldedOK(s)'
    BY <1>1, <1>6, <1>8, YieldedNext
  <1>10. ReaderType'
    <2>1. got' \in [Subscribers -> Seq(0 .. MaxSeq)]
      BY <1>2, <1>7, <1>9 DEF ReaderType
    <2>2. todo' \in [Subscribers -> Seq(1 .. MaxSeq)]
      BY <1>1, <1>2, <1>3 DEF ReaderType
    <2>3. last' \in [Subscribers -> 0 .. MaxSeq]
      BY <1>2, <1>6, <1>7 DEF ReaderType
    <2> QED BY <1>1, <1>2, <2>1, <2>2, <2>3 DEF ReaderType
  <1>11. NextUp(s)' = NextUp(s) /\ Due(s)' = Due(s)
    <2>0. last[s] \in Nat /\ Len(todo[s]) \in Nat
      BY <1>2, <1>3
    <2>1. last[s] + 1 + (Len(todo[s]) - 1) = last[s] + Len(todo[s])
      BY <2>0
    <2>2. NextUp(s)' = NextUp(s)
      BY <1>3, <1>8, <2>1 DEF NextUp
    <2> QED BY <1>1, <2>2 DEF Due
  <1>12. ListOK(s)'
    <2>1. start'[s] =< last'[s]
      BY <1>2, <1>4, <1>8
    <2>2. NextUp(s)' =< Len(kinds')
      BY <1>1, <1>2, <1>11 DEF SubscriptionOK, ListOK
    <2>3. ASSUME NEW i \in 1 .. Len(todo'[s]) PROVE todo'[s][i] = last'[s] + i
      <3>1. i \in Nat /\ i \in 1 .. Len(todo[s]) - 1 /\ i + 1 \in 1 .. Len(todo[s])
        BY <1>3, <1>8
      <3>2. todo'[s][i] = todo[s][i + 1] /\ todo[s][i + 1] = last[s] + (i + 1)
        BY <1>3, <1>4, <1>8, <3>1
      <3>3. last[s] \in Nat /\ i \in Nat
        BY <1>2, <3>1
      <3>4. last[s] + (i + 1) = last[s] + 1 + i
        BY <3>3
      <3> QED BY <1>8, <3>2, <3>4
    <2> QED BY <2>1, <2>2, <2>3 DEF ListOK
  <1>13. QueueOK(s)'
    <2>1. (Registered(s)' <=> Registered(s)) /\ (Live' <=> Live)
      BY <1>1, <1>8 DEF Registered, Live
    <2> QED BY <1>2, <1>8, <1>11, <2>1 DEF SubscriptionOK, QueueOK
  <1>14. StageOK(s)'
    BY <1>1, <1>2, <1>8 DEF SubscriptionOK, StageOK, Live
  <1>15. SubscriptionOK(s)'
    BY <1>9, <1>12, <1>13, <1>14 DEF SubscriptionOK
  <1> QED BY <1>1, <1>2, <1>7, <1>10, <1>15, OneSubscription DEF ReaderType

\* The same, when a DONE is synthesized.
LEMMA YieldedSynth ==
  ASSUME TurnInv, NEW s \in Subscribers, stage[s] \notin {"ended", "gone"},
         UNCHANGED <<runner, kinds>>, runner \notin Body, ~SeenDone(s),
         stage'[s] \in {"ended", "gone"},
         got'[s] = Append(got[s], Synth), last'[s] = last[s], start'[s] = start[s]
  PROVE  /\ got'[s] \in Seq(0 .. MaxSeq) /\ YieldedOK(s)'
         /\ Len(got'[s]) = last'[s] - start'[s] + 1
  <1>1. /\ start[s] \in Nat /\ last[s] \in Nat /\ start[s] =< last[s] /\ MaxSeq \in Nat
        /\ got[s] \in Seq(0 .. MaxSeq) /\ Len(got[s]) \in Nat
    BY SubscriptionFacts DEF SubscriptionOK, ListOK
  <1>2. Len(got[s]) = last[s] - start[s] /\ \A i \in 1 .. Len(got[s]) : got[s][i] = start[s] + i
    BY NotOver
  <1>3. Synth \in 0 .. MaxSeq
    BY <1>1 DEF Synth
  <1>4. /\ got'[s] \in Seq(0 .. MaxSeq) /\ Len(got'[s]) = Len(got[s]) + 1
        /\ \A i \in 1 .. Len(got[s]) + 1 :
              got'[s][i] = IF i =< Len(got[s]) THEN got[s][i] ELSE Synth
    BY <1>1, <1>3, AppendOne
  <1>5. Len(got'[s]) = last'[s] - start'[s] + 1
    BY <1>2, <1>4
  <1>6. ASSUME NEW i \in 1 .. last'[s] - start'[s] PROVE got'[s][i] = start'[s] + i
    <2>1. i \in 1 .. Len(got[s]) /\ i \in 1 .. Len(got[s]) + 1 /\ i =< Len(got[s])
      BY <1>1, <1>2
    <2> QED BY <1>2, <1>4, <2>1
  <1>7. got'[s][Len(got'[s])] = Synth
    <2>1. Len(got'[s]) \in 1 .. Len(got[s]) + 1 /\ ~(Len(got'[s]) =< Len(got[s]))
      BY <1>1, <1>4
    <2> QED BY <1>4, <2>1
  <1>8. ~SeenDone(s)'
    BY DEF SeenDone, IsDone
  <1> QED BY <1>4, <1>5, <1>6, <1>7, <1>8 DEF YieldedOK

\* A subscription that goes on, or ends, with the events it has.
LEMMA StageStep ==
  ASSUME TurnInv, NEW s \in Subscribers, stage[s] \notin {"new", "ended", "gone"},
         UNCHANGED <<runner, kinds, start, last, todo, joined, queue>>,
         status' = "running" => status = "running",
         NEW to \in {"queue", "orphan", "judge", "told", "closing", "ended", "gone"},
         stage' = [stage EXCEPT ![s] = to],
         to = "queue" => Registered(s) /\ todo[s] = <<>> /\ runner # "crashed",
         to \in {"orphan", "judge", "told"} => ~joined[s] /\ ~Live,
         to \in {"judge", "told"} => status' # "running",
         to \in {"told", "closing"} => ~SeenDone(s),
         \/ UNCHANGED got /\ (to = "ended" => \E k \in 1 .. last[s] : IsDone(k))
         \/ /\ got' = [got EXCEPT ![s] = Append(@, Synth)]
            /\ to \in {"ended", "gone"} /\ runner \notin Body /\ ~SeenDone(s)
  PROVE  ReaderType' /\ SubscriptionOK(s)'
  <1>1. /\ ReaderType /\ SubscriptionOK(s) /\ Len(got[s]) = last[s] - start[s]
        /\ start[s] \in Nat /\ last[s] \in Nat
    BY TwoTypes, SubscriptionFacts, NotOver DEF TurnInv
  <1>2. /\ start'[s] = start[s] /\ last'[s] = last[s] /\ todo'[s] = todo[s]
        /\ joined'[s] = joined[s] /\ queue'[s] = queue[s] /\ stage'[s] = to
        /\ NextUp(s)' = NextUp(s) /\ Due(s)' = Due(s) /\ (SeenDone(s)' <=> SeenDone(s))
        /\ (Live' <=> Live) /\ \A k : IsDone(k)' <=> IsDone(k)
    BY <1>1 DEF ReaderType, NextUp, Due, SeenDone, IsDone, Live
  <1>3. /\ got' \in [Subscribers -> Seq(0 .. MaxSeq)] /\ YieldedOK(s)'
        /\ got' = got \/ Len(got'[s]) = last'[s] - start'[s] + 1
    <2>1. CASE UNCHANGED got
      <3>1. got'[s] = got[s] /\ got' \in [Subscribers -> Seq(0 .. MaxSeq)]
        BY <1>1, <2>1 DEF ReaderType
      <3>2. Len(got[s]) # last[s] - start[s] + 1
        BY <1>1
      <3> QED BY <1>1, <1>2, <2>1, <3>1, <3>2 DEF SubscriptionOK, YieldedOK
    <2>2. CASE /\ got' = [got EXCEPT ![s] = Append(@, Synth)]
               /\ to \in {"ended", "gone"} /\ runner \notin Body /\ ~SeenDone(s)
      <3>1. got'[s] = Append(got[s], Synth)
        BY <1>1, <2>2 DEF ReaderType
      <3>2. /\ got'[s] \in Seq(0 .. MaxSeq) /\ YieldedOK(s)'
            /\ Len(got'[s]) = last'[s] - start'[s] + 1
        BY <1>2, <2>2, <3>1, YieldedSynth
      <3>3. got' \in [Subscribers -> Seq(0 .. MaxSeq)]
        BY <1>1, <2>2, <3>2 DEF ReaderType
      <3> QED BY <3>2, <3>3
    <2> QED BY <2>1, <2>2
  <1>4. ReaderType'
    BY <1>1, <1>3 DEF ReaderType
  <1>5. ListOK(s)'
    BY <1>1, <1>2 DEF SubscriptionOK, ListOK
  <1>6. QueueOK(s)'
    BY <1>1, <1>2 DEF SubscriptionOK, QueueOK, Registered
  <1>7. StageOK(s)'
    <2>1. to = "ended" => Len(got'[s]) = last'[s] - start'[s] + 1
                          \/ \E k \in 1 .. last'[s] : IsDone(k)'
      BY <1>1, <1>2, <1>3, EmptySeq
    <2> QED BY <1>2, <2>1 DEF StageOK, Registered
  <1> QED BY <1>3, <1>4, <1>5, <1>6, <1>7 DEF SubscriptionOK

\* Settled, the runner is out of its body; so it is once it is not live.
LEMMA OutOfBody ==
  ASSUME TurnInv, status # "running" \/ ~Live PROVE runner \notin Body
  BY DEF TurnInv, RunnerInv, SettledLate, Live

\* A subscription that sees the turn to be over.
LEMMA FinishStep ==
  ASSUME TurnInv, NEW s \in Subscribers, stage[s] \notin {"new", "ended", "gone"},
         UNCHANGED <<runner, kinds, storage, rows, start, last, todo, joined, queue, budget>>,
         status # "running", ~joined[s], ~Live, Finish(s)
  PROVE  TurnInv'
  <1>1. /\ start[s] \in Nat /\ last[s] \in Nat /\ (DoneYielded(s) <=> SeenDone(s))
        /\ runner \notin Body
    BY SubscriptionFacts, NotOver, OutOfBody
  <1>2. SeenDone(s) => \E k \in 1 .. last[s] : IsDone(k)
    <2>1. \A k \in start[s] + 1 .. last[s] : k \in 1 .. last[s]
      BY <1>1
    <2> QED BY <2>1 DEF SeenDone
  <1>3. \/ /\ stage' = [stage EXCEPT ![s] = "ended"]
           /\ \/ UNCHANGED got /\ DoneYielded(s)
              \/ got' = [got EXCEPT ![s] = Append(@, Synth)] /\ ~DoneYielded(s)
        \/ stage' = [stage EXCEPT ![s] = "told"] /\ UNCHANGED got /\ ~DoneYielded(s)
    BY DEF Finish, Enter, YieldSeq
  <1>4. ReaderType' /\ SubscriptionOK(s)'
    <2>1. CASE stage' = [stage EXCEPT ![s] = "ended"]
               /\ \/ UNCHANGED got /\ DoneYielded(s)
                  \/ got' = [got EXCEPT ![s] = Append(@, Synth)] /\ ~DoneYielded(s)
      BY <1>1, <1>2, <2>1, StageStep DEF rows
    <2>2. CASE stage' = [stage EXCEPT ![s] = "told"] /\ UNCHANGED got /\ ~DoneYielded(s)
      BY <1>1, <2>2, StageStep DEF rows
    <2> QED BY <1>3, <2>1, <2>2
  <1> QED BY <1>3, <1>4, OneSubscription DEF ReaderType

\* The DONE after a synthesized ERROR.
LEMMA CloseToldStep ==
  ASSUME TurnInv, NEW s \in Subscribers, CloseTold(s) PROVE TurnInv'
  <1>1. /\ stage[s] = "told" /\ stage' = [stage EXCEPT ![s] = "ended"]
        /\ got' = [got EXCEPT ![s] = Append(@, Synth)]
        /\ UNCHANGED <<runner, kinds, storage, rows, start, last, todo, joined, queue, budget>>
    BY DEF CloseTold, Enter, YieldSeq
  <1>2. ~SeenDone(s) /\ runner \notin Body
    BY <1>1, SubscriptionFacts, OutOfBody DEF SubscriptionOK, StageOK
  <1>3. ReaderType' /\ SubscriptionOK(s)'
    BY <1>1, <1>2, StageStep DEF rows
  <1> QED BY <1>1, <1>3, OneSubscription DEF ReaderType

LEMMA GetTurnStep ==
  ASSUME TurnInv, NEW s \in Subscribers, GetTurn(s) PROVE TurnInv'
  <1>1. /\ stage[s] \in {"live", "catchup"} /\ todo[s] = <<>>
        /\ UNCHANGED <<runner, kinds, storage, rows, start, last, todo, joined, queue, budget>>
        /\ \/ joined[s] /\ Enter(s, "queue") /\ UNCHANGED got
           \/ ~joined[s] /\ status = "running" /\ Enter(s, "orphan") /\ UNCHANGED got
           \/ ~joined[s] /\ status # "running" /\ Finish(s)
    BY DEF GetTurn
  <1>2. StageOK(s)
    BY SubscriptionFacts DEF SubscriptionOK
  <1>3. CASE joined[s] /\ Enter(s, "queue") /\ UNCHANGED got
    <2>1. Registered(s) /\ runner # "crashed"
      BY <1>1, <1>2, <1>3 DEF StageOK, Registered
    <2>2. ReaderType' /\ SubscriptionOK(s)'
      BY <1>1, <1>3, <2>1, StageStep DEF Enter, rows
    <2> QED BY <1>1, <1>3, <2>2, OneSubscription DEF ReaderType, Enter
  <1>4. CASE ~joined[s] /\ Enter(s, "orphan") /\ UNCHANGED got
    <2>1. ~Live
      BY <1>1, <1>2, <1>4 DEF StageOK
    <2>2. ReaderType' /\ SubscriptionOK(s)'
      BY <1>1, <1>4, <2>1, StageStep DEF Enter, rows
    <2> QED BY <1>1, <1>4, <2>2, OneSubscription DEF ReaderType, Enter
  <1>5. CASE ~joined[s] /\ status # "running" /\ Finish(s)
    <2>1. ~Live
      BY <1>1, <1>2, <1>5 DEF StageOK
    <2> QED BY <1>1, <1>5, <2>1, FinishStep
  <1> QED BY <1>1, <1>3, <1>4, <1>5

LEMMA JudgeStep ==
  ASSUME TurnInv, NEW s \in Subscribers, Judge(s) PROVE TurnInv'
  <1>1. stage[s] = "judge" /\ status # "running" /\ ~joined[s] /\ ~Live
    BY SubscriptionFacts DEF Judge, SubscriptionOK, StageOK
  <1> QED BY <1>1, FinishStep DEF Judge

LEMMA MarkOrphanStep ==
  ASSUME TurnInv, NEW s \in Subscribers, MarkOrphan(s) PROVE TurnInv'
  <1>1. /\ stage[s] = "orphan" /\ status' = "failed" /\ stage' = [stage EXCEPT ![s] = "judge"]
        /\ UNCHANGED <<runner, kinds, storage, late, start, last, todo, joined, queue, got, budget>>
    BY DEF MarkOrphan, Enter
  <1>2. ~joined[s] /\ ~Live
    BY <1>1, SubscriptionFacts DEF SubscriptionOK, StageOK
  <1>3. RunnerOK'
    <2>1. RunnerOK
      BY TwoTypes DEF TurnInv, RunnerOK
    <2> QED BY <1>1, <1>2, <2>1, RowOK DEF storage, budget
  <1>4. ReaderType' /\ SubscriptionOK(s)'
    BY <1>1, <1>2, StageStep
  <1>5. ASSUME NEW r \in Subscribers \ {s} PROVE SubscriptionOK(r)'
    <2>1. SubscriptionOK(r) /\ (Live' <=> Live) /\ stage'[r] = stage[r]
      BY <1>1, TwoTypes DEF TurnInv, Live, ReaderType
    <2> QED BY <1>1, <2>1, IdleSubscription
  <1> QED BY <1>3, <1>4, <1>5, Assemble

LEMMA FinalStep ==
  ASSUME TurnInv, NEW s \in Subscribers, Final(s) PROVE TurnInv'
  <1> DEFINE to == IF stage[s] = "final" THEN "ended" ELSE "gone"
  <1>1. /\ stage[s] \in {"final", "closing"} /\ stage' = [stage EXCEPT ![s] = to]
        /\ IF Settled THEN got' = [got EXCEPT ![s] = Append(@, Synth)] ELSE UNCHANGED got
        /\ UNCHANGED <<runner, kinds, storage, rows, start, last, todo, joined, queue, budget>>
    BY DEF Final, Enter, YieldSeq
  <1>2. /\ StageOK(s) /\ ~SeenDone(s) /\ last[s] \in Nat /\ Len(kinds) \in Nat
        /\ stage[s] = "final" => ~Live /\ last[s] = Len(kinds) /\ runner # "crashed"
    BY <1>1, SubscriptionFacts DEF SubscriptionOK, StageOK
  <1>3. Settled <=> status # "running"
    BY DEF Settled, TurnInv, TypeOK, Terminal
  <1>4. Settled => runner \notin Body
    BY <1>3, OutOfBody
  <1>5. stage[s] = "final" => \E k \in 1 .. last[s] : IsDone(k)
    <2> SUFFICES ASSUME stage[s] = "final" PROVE \E k \in 1 .. Len(kinds) : IsDone(k)
      BY <1>2
    <2>1. runner \notin Body \cup {"crashed"}
      BY <1>2, OutOfBody
    <2> QED BY <2>1 DEF TurnInv, RunnerInv, DoneOnce
  <1>6. to \in {"ended", "gone"} /\ (to = "ended" <=> stage[s] = "final")
    OBVIOUS
  <1> HIDE DEF to
  <1>7. ReaderType' /\ SubscriptionOK(s)'
    <2>1. CASE Settled
      BY <1>1, <1>2, <1>4, <1>6, <2>1, StageStep DEF rows
    <2>2. CASE ~Settled
      BY <1>1, <1>5, <1>6, <2>2, StageStep DEF rows
    <2> QED BY <2>1, <2>2
  <1> QED BY <1>1, <1>7, OneSubscription DEF ReaderType

LEMMA AbandonStep ==
  ASSUME TurnInv, NEW s \in Subscribers, Abandon(s) PROVE TurnInv'
  <1> DEFINE to == IF stage[s] = "queue" /\ ~DoneYielded(s) THEN "closing" ELSE "gone"
  <1>1. /\ stage[s] \notin {"new", "ended", "gone"} /\ stage' = [stage EXCEPT ![s] = to]
        /\ UNCHANGED <<runner, kinds, storage, rows, start, last, todo, joined, queue, got, budget>>
    BY DEF Abandon, Enter
  <1>2. to \in {"closing", "gone"} /\ (to = "closing" => ~SeenDone(s))
    BY <1>1, NotOver
  <1> HIDE DEF to
  <1>3. ReaderType' /\ SubscriptionOK(s)'
    BY <1>1, <1>2, StageStep DEF rows
  <1> QED BY <1>1, <1>3, OneSubscription DEF ReaderType

\* The sentinel comes after every event: the queue holds nothing else.
LEMMA TakeEndStep ==
  ASSUME TurnInv, NEW s \in Subscribers, Take(s), Head(queue[s]) = End PROVE TurnInv'
  <1>1. /\ stage[s] = "queue" /\ queue[s] # <<>>
        /\ queue' = [queue EXCEPT ![s] = Tail(@)]
        /\ stage' = [stage EXCEPT ![s] = Drained(s)]
        /\ UNCHANGED <<runner, kinds, storage, rows, start, last, todo, joined, got, budget>>
    BY DEF Take, Enter
  <1>2. /\ ReaderType /\ SubscriptionOK(s) /\ last[s] \in Nat /\ start[s] \in Nat
        /\ queue[s] \in Seq(0 .. MaxSeq) /\ NextUp(s) \in Nat /\ Due(s) \in Nat
        /\ Len(kinds) \in Nat /\ Len(todo[s]) \in Nat
    BY TwoTypes, SubscriptionFacts DEF TurnInv
  <1>3. /\ Len(queue[s]) \in Nat \ {0} /\ Head(queue[s]) = queue[s][1]
        /\ Tail(queue[s]) \in Seq(0 .. MaxSeq)
    BY <1>1, <1>2, DropOne
  <1>4. joined[s] /\ todo[s] = <<>> /\ runner # "crashed" /\ Registered(s) /\ NextUp(s) = last[s]
    BY <1>1, <1>2, EmptySeq DEF SubscriptionOK, StageOK, Registered, NextUp
  <1>5. /\ Len(queue[s]) = Due(s) + (IF Live THEN 0 ELSE 1)
        /\ queue[s][1] = IF 1 =< Due(s) THEN NextUp(s) + 1 ELSE End
    <2>1. 1 \in 1 .. Len(queue[s])
      BY <1>3
    <2> QED BY <1>2, <1>4, <2>1 DEF SubscriptionOK, QueueOK
  <1>6. ~(1 =< Due(s))
    BY <1>2, <1>3, <1>5 DEF End
  <1>7. Due(s) = 0 /\ ~Live /\ last[s] = Len(kinds)
    <2>1. Due(s) = 0
      BY <1>2, <1>6
    <2>2. ~Live
      BY <1>3, <1>5, <2>1
    <2>3. Len(kinds) - last[s] = 0
      BY <1>4, <2>1 DEF Due
    <2> QED BY <1>2, <2>1, <2>2, <2>3
  <1>8. /\ stage'[s] = Drained(s) /\ Drained(s) \in {"ended", "final"}
        /\ (Drained(s) = "ended" <=> SeenDone(s))
        /\ start'[s] = start[s] /\ last'[s] = last[s] /\ todo'[s] = todo[s]
        /\ joined'[s] = joined[s] /\ got'[s] = got[s]
        /\ NextUp(s)' = NextUp(s) /\ (SeenDone(s)' <=> SeenDone(s)) /\ ~Live'
        /\ \A k : IsDone(k)' <=> IsDone(k)
    BY <1>1, <1>2, <1>7, NotOver DEF Drained, ReaderType, NextUp, SeenDone, IsDone, Live
  <1>9. ReaderType'
    <2>1. queue' \in [Subscribers -> Seq(0 .. MaxSeq)]
      BY <1>1, <1>2, <1>3 DEF ReaderType
    <2> QED BY <1>1, <1>2, <1>8, <2>1 DEF ReaderType
  <1>10. ListOK(s)'
    BY <1>1, <1>2, <1>8 DEF SubscriptionOK, ListOK
  <1>11. YieldedOK(s)'
    <2>1. Len(got[s]) # last[s] - start[s] + 1
      <3>1. Len(got[s]) = last[s] - start[s]
        BY <1>1, NotOver
      <3>2. last[s] \in Nat /\ start[s] \in Nat
        BY <1>2
      <3> QED BY <3>1, <3>2
    <2> QED BY <1>1, <1>2, <1>8, <2>1 DEF SubscriptionOK, YieldedOK
  <1>12. QueueOK(s)'
    BY <1>8 DEF QueueOK, Registered
  <1>13. StageOK(s)'
    <2>1. SeenDone(s) => \E k \in 1 .. last[s] : IsDone(k)
      <3>1. \A k \in start[s] + 1 .. last[s] : k \in 1 .. last[s]
        BY <1>2
      <3> QED BY <3>1 DEF SeenDone
    <2>2. stage'[s] = "ended" => \E k \in 1 .. last'[s] : IsDone(k)'
      BY <1>8, <2>1
    <2>3. /\ stage'[s] \in {"ended", "final"} /\ (stage'[s] = "final" => ~SeenDone(s)')
          /\ ~Live' /\ last'[s] = Len(kinds') /\ runner' # "crashed"
      BY <1>1, <1>4, <1>7, <1>8
    <2> QED BY <2>2, <2>3 DEF StageOK
  <1>14. SubscriptionOK(s)'
    BY <1>10, <1>11, <1>12, <1>13 DEF SubscriptionOK
  <1> QED BY <1>1, <1>2, <1>9, <1>14, OneSubscription DEF ReaderType

\* What is taken from the queue is the next event.
LEMMA TakeEventStep ==
  ASSUME TurnInv, NEW s \in Subscribers, Take(s), Head(queue[s]) # End PROVE TurnInv'
  <1>1. /\ stage[s] = "queue" /\ queue[s] # <<>>
        /\ queue' = [queue EXCEPT ![s] = Tail(@)]
        /\ UNCHANGED <<runner, kinds, storage, rows, stage, start, todo, joined, budget>>
    BY DEF Take
  <1>2. /\ ReaderType /\ SubscriptionOK(s) /\ last[s] \in Nat /\ start[s] \in Nat
        /\ queue[s] \in Seq(0 .. MaxSeq) /\ NextUp(s) \in Nat /\ Due(s) \in Nat
        /\ Len(kinds) \in Nat /\ Len(kinds) =< MaxSeq /\ MaxSeq \in Nat
    BY TwoTypes, SubscriptionFacts DEF TurnInv
  <1>3. /\ Len(queue[s]) \in Nat \ {0} /\ Head(queue[s]) = queue[s][1]
        /\ Tail(queue[s]) \in Seq(0 .. MaxSeq) /\ Len(Tail(queue[s])) = Len(queue[s]) - 1
        /\ \A i \in 1 .. Len(queue[s]) - 1 : Tail(queue[s])[i] = queue[s][i + 1]
    BY <1>1, <1>2, DropOne
  <1>4. joined[s] /\ todo[s] = <<>> /\ Len(todo[s]) = 0 /\ Registered(s) /\ NextUp(s) = last[s]
    BY <1>1, <1>2, EmptySeq DEF SubscriptionOK, StageOK, Registered, NextUp
  <1>5. /\ Len(queue[s]) = Due(s) + (IF Live THEN 0 ELSE 1)
        /\ \A i \in 1 .. Len(queue[s]) :
              queue[s][i] = IF i =< Due(s) THEN last[s] + i ELSE End
    BY <1>2, <1>4 DEF SubscriptionOK, QueueOK
  <1>6. 1 =< Due(s) /\ Head(queue[s]) = last[s] + 1
    <2>1. 1 \in 1 .. Len(queue[s])
      BY <1>3
    <2> QED BY <1>3, <1>5, <2>1
  <1>7. /\ Head(queue[s]) > last[s] /\ last[s] + 1 =< Len(kinds) /\ last[s] + 1 =< MaxSeq
        /\ last[s] + 1 \in 0 .. MaxSeq
    <2>1. Len(kinds) - last[s] >= 1
      BY <1>4, <1>6 DEF Due
    <2> QED BY <1>2, <1>6, <2>1
  <1>8. /\ got' = [got EXCEPT ![s] = Append(@, last[s] + 1)]
        /\ last' = [last EXCEPT ![s] = last[s] + 1]
    BY <1>6, <1>7 DEF Take, YieldSeq
  <1>9. /\ last'[s] = last[s] + 1 /\ got'[s] = Append(got[s], last[s] + 1)
        /\ queue'[s] = Tail(queue[s]) /\ start'[s] = start[s] /\ stage'[s] = stage[s]
        /\ joined'[s] = joined[s] /\ todo'[s] = todo[s]
    BY <1>1, <1>2, <1>8 DEF ReaderType
  <1>10. got'[s] \in Seq(0 .. MaxSeq) /\ YieldedOK(s)'
    BY <1>1, <1>7, <1>9, YieldedNext
  <1>11. ReaderType'
    <2>1. got' \in [Subscribers -> Seq(0 .. MaxSeq)]
      BY <1>2, <1>8, <1>10 DEF ReaderType
    <2>2. queue' \in [Subscribers -> Seq(0 .. MaxSeq)]
      BY <1>1, <1>2, <1>3 DEF ReaderType
    <2>3. last' \in [Subscribers -> 0 .. MaxSeq]
      BY <1>2, <1>7, <1>8 DEF ReaderType
    <2> QED BY <1>1, <1>2, <2>1, <2>2, <2>3 DEF ReaderType
  <1>12. NextUp(s)' = last[s] + 1 /\ Due(s)' = Due(s) - 1
    <2>1. NextUp(s)' = last[s] + 1
      BY <1>2, <1>4, <1>9 DEF NextUp
    <2>2. Len(kinds) - (last[s] + 1) = Len(kinds) - last[s] - 1
      BY <1>2
    <2> QED BY <1>1, <1>4, <2>1, <2>2 DEF Due
  <1>13. ListOK(s)'
    <2>1. start[s] =< last[s]
      BY <1>2 DEF SubscriptionOK, ListOK
    <2>2. start'[s] =< last'[s]
      BY <1>2, <1>9, <2>1
    <2>3. NextUp(s)' =< Len(kinds')
      BY <1>1, <1>7, <1>12
    <2>4. \A i \in 1 .. Len(todo'[s]) : todo'[s][i] = last'[s] + i
      BY <1>4, <1>9
    <2> QED BY <2>2, <2>3, <2>4 DEF ListOK
  <1>14. QueueOK(s)'
    <2>1. Live' <=> Live
      BY <1>1 DEF Live
    <2>2. Len(queue'[s]) = Due(s)' + (IF Live' THEN 0 ELSE 1)
      BY <1>2, <1>3, <1>5, <1>9, <1>12, <2>1
    <2>3. ASSUME NEW i \in 1 .. Len(queue'[s])
          PROVE  queue'[s][i] = IF i =< Due(s)' THEN NextUp(s)' + i ELSE End
      <3>1. i \in Nat /\ i \in 1 .. Len(queue[s]) - 1 /\ i + 1 \in 1 .. Len(queue[s])
        BY <1>3, <1>9
      <3>2. queue'[s][i] = IF i + 1 =< Due(s) THEN last[s] + (i + 1) ELSE End
        BY <1>3, <1>5, <1>9, <3>1
      <3>3. last[s] \in Nat /\ Due(s) \in Nat /\ i \in Nat
        BY <1>2, <3>1
      <3>4. (i + 1 =< Due(s) <=> i =< Due(s) - 1) /\ last[s] + (i + 1) = last[s] + 1 + i
        BY <3>3
      <3> QED BY <1>12, <3>2, <3>4
    <2> QED BY <2>2, <2>3 DEF QueueOK
  <1>15. StageOK(s)'
    BY <1>1, <1>2, <1>9 DEF SubscriptionOK, StageOK
  <1>16. SubscriptionOK(s)'
    BY <1>10, <1>13, <1>14, <1>15 DEF SubscriptionOK
  <1> QED BY <1>1, <1>2, <1>8, <1>11, <1>16, OneSubscription DEF ReaderType

----------------------------------------------------------------------------
(* The theorems *)

LEMMA TurnInit == Init => TurnInv
  <1> SUFFICES ASSUME Init PROVE TurnInv
    OBVIOUS
  <1>1. RunnerOK
    BY RunnerInit
  <1>2. MaxSeq \in Nat /\ Len(kinds) = 1
    BY StreamAssumption DEF MaxSeq, Init
  <1>3. ReaderType
    <2>1. 0 \in 0 .. MaxSeq /\ <<>> \in Seq(0 .. MaxSeq) /\ <<>> \in Seq(1 .. MaxSeq)
      BY <1>2, EmptySeq
    <2> QED BY <2>1 DEF Init, ReaderType
  <1>4. ASSUME NEW s \in Subscribers PROVE SubscriptionOK(s)
    <2>1. /\ stage[s] = "new" /\ start[s] = 0 /\ last[s] = 0 /\ todo[s] = <<>>
          /\ ~joined[s] /\ queue[s] = <<>> /\ got[s] = <<>>
          /\ Len(todo[s]) = 0 /\ Len(got[s]) = 0
      BY DEF Init
    <2>2. ListOK(s) /\ YieldedOK(s)
      BY <1>2, <2>1 DEF ListOK, YieldedOK, NextUp
    <2>3. QueueOK(s) /\ StageOK(s)
      BY <2>1 DEF QueueOK, Registered, StageOK
    <2> QED BY <2>2, <2>3 DEF SubscriptionOK
  <1> QED BY <1>1, <1>3, <1>4, TwoTypes DEF TurnInv, RunnerOK

LEMMA TurnNext == TurnInv /\ [Next]_vars => TurnInv'
  <1> SUFFICES ASSUME TurnInv, [Next]_vars PROVE TurnInv'
    OBVIOUS
  <1>1. CASE RunnerStep \/ LandStatus \/ LandEvent \/ Recover
    BY <1>1, PublishingStep, IdleStep DEF RunnerStep
  <1>2. ASSUME NEW s \in Subscribers, NEW after \in 0 .. Len(kinds), Open(s, after) PROVE TurnInv'
    BY <1>2, OpenStep
  <1>3. ASSUME NEW s \in Subscribers, Progress(s) PROVE TurnInv'
    <2>1. CASE Take(s)
      BY <2>1, TakeEndStep, TakeEventStep
    <2> QED BY <1>3, <2>1, YieldNextStep, JoinStep, RereadStep, GetTurnStep, MarkOrphanStep,
               JudgeStep, CloseToldStep, FinalStep DEF Progress
  <1>4. ASSUME NEW s \in Subscribers, Abandon(s) PROVE TurnInv'
    BY <1>4, AbandonStep
  <1>5. CASE Crash
    BY <1>5, CrashStep
  <1>6. CASE UNCHANGED vars
    <2>1. UNCHANGED <<runner, kinds, reader, queue, got, storage, rows, budget>>
      BY <1>6 DEF vars, reader, storage, rows, budget
    <2>2. ReaderType' /\ RunnerOK'
      BY <2>1, TwoTypes
         DEF TurnInv, ReaderType, RunnerOK, RunnerType, RunnerInv, DoneOnce, Room, FlushOnce,
             StoredFirst, SettledLate, IsDone, reader, storage, rows, budget
    <2>3. (Live' <=> Live) /\ status' = status
      BY <2>1 DEF Live, rows
    <2>4. \A s \in Subscribers : SubscriptionOK(s)'
      BY <2>1, <2>3, IdleSubscriptions
    <2> QED BY <2>2, <2>4, Assemble
  <1> QED BY <1>1, <1>2, <1>3, <1>4, <1>5, <1>6 DEF Next

\* Whatever the runner, the worker threads, the other clients and the crashes do,
\* each subscription's list and queue continue where it stands.
THEOREM TurnInvariant == Spec => []TurnInv
  BY TurnInit, TurnNext, PTL DEF Spec

\* The variables keep their types, and no turn has more events than its bound.
THEOREM TurnTypeOK == Spec => []TypeOK
  <1>1. TurnInv => TypeOK
    BY DEF TurnInv
  <1> QED BY <1>1, TurnInvariant, PTL

\* A subscription yields the events after its after_seq without a gap and without
\* a duplicate, from whichever of the store, the buffer and the queue they come.
THEOREM TurnContiguous == Spec => []Contiguous
  <1>1. TurnInv => Contiguous
    <2> SUFFICES ASSUME TurnInv, NEW s \in Subscribers, NEW i \in 1 .. Len(got[s])
                 PROVE  IF got[s][i] = Synth THEN i = Len(got[s]) ELSE got[s][i] = start[s] + i
      BY DEF Contiguous
    <2>1. /\ start[s] \in Nat /\ last[s] \in Nat /\ start[s] =< last[s] /\ Len(got[s]) \in Nat
          /\ YieldedOK(s)
      BY SubscriptionFacts DEF SubscriptionOK, ListOK
    <2>2. CASE i \in 1 .. last[s] - start[s]
      <3>1. got[s][i] = start[s] + i
        BY <2>1, <2>2 DEF YieldedOK
      <3>2. start[s] + i # 0
        BY <2>1
      <3> QED BY <3>1, <3>2 DEF Synth
    <2>3. CASE i \notin 1 .. last[s] - start[s]
      <3>1. Len(got[s]) = last[s] - start[s] + 1 /\ i = Len(got[s])
        BY <2>1, <2>3 DEF YieldedOK
      <3> QED BY <2>1, <3>1 DEF YieldedOK
    <2> QED BY <2>2, <2>3
  <1> QED BY <1>1, TurnInvariant, PTL

\* A subscription that ends by itself has told its client once that the turn is
\* over, unless the client knew before it subscribed.
THEOREM TurnEndsWithDone == Spec => []EndsWithDone
  <1>1. TurnInv => EndsWithDone
    <2> SUFFICES ASSUME TurnInv, NEW s \in Subscribers
                 PROVE  LET dones == {i \in 1 .. Len(got[s]) :
                                         got[s][i] = Synth \/ kinds[got[s][i]] = "done"}
                        IN  /\ \A i, j \in dones : i = j
                            /\ (stage[s] = "ended" /\ dones = {}) =>
                                   \E i \in 1 .. start[s] : kinds[i] = "done"
      BY DEF EndsWithDone
    <2> DEFINE n == last[s] - start[s]
               IsEnd(i) == got[s][i] = Synth \/ kinds[got[s][i]] = "done"
    <2>1. /\ start[s] \in Nat /\ last[s] \in Nat /\ start[s] =< last[s] /\ Len(got[s]) \in Nat
          /\ Len(kinds) \in Nat /\ last[s] =< Len(kinds) /\ YieldedOK(s) /\ StageOK(s)
      <3>1. /\ start[s] \in Nat /\ last[s] \in Nat /\ Len(got[s]) \in Nat /\ Len(kinds) \in Nat
            /\ Len(todo[s]) \in Nat /\ SubscriptionOK(s)
        BY SubscriptionFacts
      <3> QED BY <3>1 DEF SubscriptionOK, ListOK, NextUp
    <2>2. ASSUME NEW i \in 1 .. n
          PROVE  /\ got[s][i] = start[s] + i /\ got[s][i] # Synth
                 /\ start[s] + i \in start[s] + 1 .. last[s] /\ start[s] + i \in 1 .. Len(kinds)
      <3>1. got[s][i] = start[s] + i
        BY <2>1 DEF YieldedOK
      <3> QED BY <2>1, <3>1 DEF Synth
    <2>3. \A i \in 1 .. Len(got[s]) : i \in 1 .. n \/ (i = n + 1 /\ Len(got[s]) = n + 1)
      BY <2>1 DEF YieldedOK
    <2>4. \A i \in 1 .. n : IsEnd(i) => SeenDone(s) /\ IsDone(start[s] + i)
      BY <2>2 DEF SeenDone, IsDone
    <2>5. ASSUME NEW i \in 1 .. Len(got[s]), NEW j \in 1 .. Len(got[s]), IsEnd(i), IsEnd(j)
          PROVE  i = j
      <3>1. CASE Len(got[s]) = n + 1
        <4>1. ~SeenDone(s)
          BY <2>1, <3>1 DEF YieldedOK
        <4> QED BY <2>3, <2>4, <2>5, <4>1
      <3>2. CASE Len(got[s]) # n + 1
        <4>1. /\ i \in 1 .. n /\ j \in 1 .. n
              /\ IsDone(start[s] + i) /\ IsDone(start[s] + j)
          BY <2>3, <2>4, <2>5, <3>2
        <4>2. start[s] + i = start[s] + j
          BY <2>2, <4>1 DEF TurnInv, RunnerInv, DoneOnce
        <4> QED BY <2>1, <4>1, <4>2
      <3> QED BY <3>1, <3>2
    <2>6. ASSUME stage[s] = "ended", \A i \in 1 .. Len(got[s]) : ~IsEnd(i)
          PROVE  \E k \in 1 .. start[s] : kinds[k] = "done"
      <3>1. Len(got[s]) # n + 1
        <4> SUFFICES ASSUME Len(got[s]) = n + 1 PROVE FALSE
          OBVIOUS
        <4>1. got[s][Len(got[s])] = Synth /\ Len(got[s]) \in 1 .. Len(got[s])
          BY <2>1 DEF YieldedOK
        <4> QED BY <2>6, <4>1
      <3>2. Len(got[s]) = n
        BY <2>1, <3>1 DEF YieldedOK
      <3>3. PICK k \in 1 .. last[s] : IsDone(k)
        BY <2>1, <2>6, <3>1 DEF StageOK
      <3>4. CASE k =< start[s]
        BY <2>1, <3>3, <3>4 DEF IsDone
      <3>5. CASE ~(k =< start[s])
        <4>1. k - start[s] \in 1 .. n /\ start[s] + (k - start[s]) = k
          BY <2>1, <3>5
        <4>2. got[s][k - start[s]] = k
          BY <2>2, <4>1
        <4> QED BY <2>6, <3>2, <3>3, <4>1, <4>2 DEF IsDone
      <3> QED BY <3>4, <3>5
    <2> QED BY <2>5, <2>6
  <1> QED BY <1>1, TurnInvariant, PTL

\* No DONE is synthesized while the runner is still answering.
THEOREM TurnSynthesizedIsLate == Spec => []SynthesizedIsLate
  <1>1. TurnInv => SynthesizedIsLate
    <2> SUFFICES ASSUME TurnInv, NEW s \in Subscribers, NEW i \in 1 .. Len(got[s]),
                        got[s][i] = Synth
                 PROVE  runner \notin Body
      BY DEF SynthesizedIsLate
    <2>1. /\ start[s] \in Nat /\ last[s] \in Nat /\ start[s] =< last[s] /\ Len(got[s]) \in Nat
          /\ YieldedOK(s)
      BY SubscriptionFacts DEF SubscriptionOK, ListOK
    <2>2. i \notin 1 .. last[s] - start[s]
      <3> SUFFICES ASSUME i \in 1 .. last[s] - start[s] PROVE FALSE
        OBVIOUS
      <3>1. got[s][i] = start[s] + i
        BY <2>1 DEF YieldedOK
      <3> QED BY <2>1, <3>1 DEF Synth
    <2>3. Len(got[s]) = last[s] - start[s] + 1
      BY <2>1, <2>2 DEF YieldedOK
    <2> QED BY <2>1, <2>3 DEF YieldedOK
  <1> QED BY <1>1, TurnInvariant, PTL

\* Every event of a completed answer can be replayed from the store.
THEOREM TurnCompletedIsStored == Spec => []CompletedIsStored
  <1>1. TurnInv => CompletedIsStored
    BY DEF TurnInv, RunnerInv, StoredFirst, FlushOnce, CompletedIsStored
  <1> QED BY <1>1, TurnInvariant, PTL

----------------------------------------------------------------------------
(* TurnStream implements EventFeed *)

\* How far a subscription is, as EventFeed sees it.
Position == [s \in Subscribers |-> IF stage[s] = "new" THEN -1 ELSE last[s]]

\* Whoever does not move along the events leaves every position.
LEMMA PositionStays ==
  ASSUME UNCHANGED last, \A s \in Subscribers : stage'[s] = "new" <=> stage[s] = "new"
  PROVE  Position' = Position
  BY DEF Position

\* A step of one subscription moves its position only.
LEMMA PositionMoves ==
  ASSUME NEW x \in Subscribers,
         \A s \in Subscribers \ {x} : stage'[s] = stage[s] /\ last'[s] = last[s]
  PROVE  Position' = [Position EXCEPT ![x] = Position'[x]]
  BY DEF Position

\* The feed's length is a number, its flag a Boolean.
LEMMA FeedTypes == TurnInv => Len(kinds) \in Nat /\ Live \in BOOLEAN
  BY LenProperties DEF TurnInv, TypeOK, Live

\* A turn begins as a log of one entry that nobody reads yet.
LEMMA FeedInit == Init => Feed!Init
  <1> SUFFICES ASSUME Init PROVE Feed!Init
    OBVIOUS
  <1>1. Len(kinds) = 1
    BY DEF Init
  <1>2. Live = TRUE
    BY DEF Init, Live, Body
  <1>3. [s \in Subscribers |-> IF stage[s] = "new" THEN -1 ELSE last[s]]
           = [s \in Subscribers |-> -1]
    BY DEF Init
  <1> QED BY <1>1, <1>2, <1>3 DEF Feed!Init

\* What is not done by a subscription grows the log, shuts it, or stutters.
LEMMA FeedProduce ==
  ASSUME TurnInv, TurnInv', RunnerStep \/ LandStatus \/ LandEvent \/ Recover \/ Crash
  PROVE  [Feed!Next]_Feed!feedVars
  <1>1. Len(kinds) \in Nat /\ Live' \in BOOLEAN
    BY FeedTypes DEF Live
  <1>2. Position' = Position
    <2>1. CASE Crash
      BY <2>1, PositionStays DEF Crash
    <2>2. CASE RunnerStep \/ LandStatus \/ LandEvent \/ Recover
      <3>1. UNCHANGED reader
        BY <2>2 DEF RunnerStep, Stream, EndOfStream, AppendEvent, EndFlush, Complete, TitleDone,
             Saved, Settle, Fail, HandlerFault, Cancel, CancelAgain, LandStatus, LandEvent, Recover
      <3> QED BY <3>1, PositionStays DEF reader
    <2> QED BY <2>1, <2>2
  <1>3. kinds' = kinds \/ \E ks \in Seq(Kinds) : kinds' = kinds \o ks
    <2>1. /\ <<>> \in Seq(Kinds) /\ <<"event">> \in Seq(Kinds) /\ <<"meta">> \in Seq(Kinds)
          /\ <<"done">> \in Seq(Kinds) /\ <<"error", "done">> \in Seq(Kinds)
      BY EmptySeq DEF Kinds
    <2>2. CASE TitleDone
      BY <2>1, <2>2 DEF TitleDone, Publish
    <2>3. CASE Cancel
      BY <2>1, <2>3 DEF Cancel, Publish
    <2>4. CASE Stream \/ Complete \/ Settle \/ Fail \/ HandlerFault \/ CancelAgain
      BY <2>1, <2>4 DEF Stream, Complete, Settle, Fail, HandlerFault, CancelAgain, Publish
    <2>5. CASE EndOfStream \/ AppendEvent \/ EndFlush \/ Saved \/ LandStatus \/ LandEvent
               \/ Recover \/ Crash
      BY <2>5 DEF EndOfStream, AppendEvent, EndFlush, Saved, LandStatus, LandEvent, Recover, Crash
    <2> QED BY <2>2, <2>3, <2>4, <2>5 DEF RunnerStep
  <1>4. Len(kinds') >= Len(kinds)
    <2>1. CASE kinds' = kinds
      BY <1>1, <2>1
    <2>2. ASSUME NEW ks \in Seq(Kinds), kinds' = kinds \o ks PROVE Len(kinds') >= Len(kinds)
      <3>1. kinds \in Seq(Kinds)
        BY DEF TurnInv, TypeOK
      <3>2. Len(ks) \in Nat /\ Len(kinds') = Len(kinds) + Len(ks)
        BY <2>2, <3>1, KindsGrow
      <3> QED BY <1>1, <3>2
    <2> QED BY <1>3, <2>1, <2>2
  <1>5. CASE Live
    <2>1. Feed!Produce
      BY <1>1, <1>2, <1>4, <1>5 DEF Feed!Produce, Position
    <2> QED BY <2>1 DEF Feed!Next
  <1>6. CASE ~Live
    <2>1. ~RunnerStep
      BY <1>6 DEF Live, RunnerStep, Stream, EndOfStream, AppendEvent, EndFlush, Complete, TitleDone,
           Saved, Settle, Fail, HandlerFault, Cancel, CancelAgain, Body, CancelHandler, FailHandler
    <2>2. kinds' = kinds /\ runner' = runner
      BY <1>6, <2>1 DEF LandStatus, LandEvent, Recover, Crash
    <2> QED BY <1>2, <2>2 DEF Feed!feedVars, Position, Live
  <1> QED BY <1>5, <1>6

\* A step of a subscription starts it, hands it the next event, or stutters.
LEMMA FeedConsume ==
  ASSUME TurnInv, NEW x \in Subscribers,
         (\E after \in 0 .. Len(kinds) : Open(x, after)) \/ Progress(x) \/ Abandon(x)
  PROVE  [Feed!Next]_Feed!feedVars
  <1>0. /\ ReaderType /\ Len(kinds) \in Nat /\ last[x] \in Nat /\ SubscriptionOK(x)
        /\ MaxSeq \in Nat /\ NextUp(x) \in Nat /\ Due(x) \in Nat
        /\ todo[x] \in Seq(1 .. MaxSeq) /\ queue[x] \in Seq(0 .. MaxSeq)
    BY TwoTypes, SubscriptionFacts DEF TurnInv
  <1>1. kinds' = kinds /\ (Live' <=> Live) /\ Live' = Live
    BY DEF Open, Progress, YieldNext, Join, Reread, GetTurn, MarkOrphan, Judge, CloseTold,
           Take, Final, Abandon, Live
  <1>2. ASSUME last' = last, stage[x] # "new", NEW to, to # "new",
               stage' = [stage EXCEPT ![x] = to]
        PROVE  [Feed!Next]_Feed!feedVars
    <2>1. \A s \in Subscribers : stage'[s] = "new" <=> stage[s] = "new"
      BY <1>0, <1>2 DEF ReaderType
    <2>2. Position' = Position
      BY <1>2, <2>1, PositionStays
    <2> QED BY <1>1, <2>2 DEF Feed!feedVars, Position
  <1>3. ASSUME stage[x] # "new", UNCHANGED stage, last[x] + 1 =< Len(kinds),
               last' = [last EXCEPT ![x] = last[x] + 1]
        PROVE  [Feed!Next]_Feed!feedVars
    <2>1. last'[x] = last[x] + 1
      BY <1>0, <1>3 DEF ReaderType
    <2>2. /\ Position[x] >= 0 /\ Position[x] < Len(kinds)
          /\ Position'[x] = Position[x] + 1
      BY <1>0, <1>3, <2>1 DEF Position
    <2>3. \A s \in Subscribers \ {x} : stage'[s] = stage[s] /\ last'[s] = last[s]
      BY <1>0, <1>3 DEF ReaderType
    <2>4. Position' = [Position EXCEPT ![x] = Position'[x]]
      BY <2>3, PositionMoves
    <2>5. Feed!Advance(x)
      BY <1>1, <2>2, <2>4 DEF Feed!Advance, Position
    <2> QED BY <2>5 DEF Feed!Next
  <1>4. ASSUME NEW after \in 0 .. Len(kinds), Open(x, after) PROVE [Feed!Next]_Feed!feedVars
    <2>1. /\ stage[x] = "new" /\ stage'[x] = "backlog" /\ last'[x] = after
          /\ \A s \in Subscribers \ {x} : stage'[s] = stage[s] /\ last'[s] = last[s]
      BY <1>0, <1>4 DEF Open, Enter, ReaderType
    <2>2. Position[x] = -1 /\ Position'[x] = after
      BY <2>1 DEF Position
    <2>3. Position' = [Position EXCEPT ![x] = Position'[x]]
      BY <2>1, PositionMoves
    <2>4. Feed!Start(x)
      BY <1>1, <2>2, <2>3 DEF Feed!Start, Position
    <2> QED BY <2>4 DEF Feed!Next
  <1>5. CASE YieldNext(x)
    <2>1. /\ Len(todo[x]) \in Nat \ {0} /\ Head(todo[x]) = todo[x][1]
      BY <1>0, <1>5, DropOne DEF YieldNext
    <2>2. /\ \A i \in 1 .. Len(todo[x]) : todo[x][i] = last[x] + i
          /\ last[x] + Len(todo[x]) =< Len(kinds)
      BY <1>0 DEF SubscriptionOK, ListOK, NextUp
    <2>3. Head(todo[x]) = last[x] + 1
      <3>1. 1 \in 1 .. Len(todo[x])
        BY <2>1
      <3> QED BY <2>1, <2>2, <3>1
    <2>4. Head(todo[x]) > last[x] /\ last[x] + 1 =< Len(kinds)
      BY <1>0, <2>1, <2>2, <2>3
    <2>5. last' = [last EXCEPT ![x] = last[x] + 1] /\ stage[x] # "new" /\ UNCHANGED stage
      BY <1>5, <2>3, <2>4 DEF YieldNext
    <2> QED BY <1>3, <2>4, <2>5
  <1>6. CASE Take(x)
    <2>1. /\ Len(queue[x]) \in Nat \ {0} /\ Head(queue[x]) = queue[x][1]
      BY <1>0, <1>6, DropOne DEF Take
    <2>2. stage[x] = "queue" /\ Registered(x) /\ NextUp(x) = last[x]
      BY <1>0, <1>6, EmptySeq DEF Take, SubscriptionOK, StageOK, Registered, NextUp
    <2>3. CASE Head(queue[x]) = End
      <3>1. last' = last /\ stage' = [stage EXCEPT ![x] = Drained(x)] /\ Drained(x) # "new"
        BY <1>6, <2>3 DEF Take, Enter, Drained
      <3> QED BY <1>2, <2>2, <3>1
    <2>4. CASE Head(queue[x]) # End
      <3>1. queue[x][1] = IF 1 =< Due(x) THEN NextUp(x) + 1 ELSE End
        <4>1. 1 \in 1 .. Len(queue[x])
          BY <2>1
        <4> QED BY <1>0, <2>2, <4>1 DEF SubscriptionOK, QueueOK
      <3>2. 1 =< Due(x) /\ Head(queue[x]) = last[x] + 1
        BY <2>1, <2>2, <2>4, <3>1
      <3>3. Len(kinds) - last[x] >= 1
        BY <2>2, <3>2 DEF Due
      <3>4. Head(queue[x]) > last[x] /\ last[x] + 1 =< Len(kinds)
        BY <1>0, <3>2, <3>3
      <3>5. last' = [last EXCEPT ![x] = last[x] + 1] /\ UNCHANGED stage
        BY <1>6, <2>4, <3>2, <3>4 DEF Take
      <3> QED BY <1>3, <2>2, <3>4, <3>5
    <2> QED BY <2>3, <2>4
  <1>7. CASE Join(x) \/ Reread(x) \/ GetTurn(x) \/ MarkOrphan(x) \/ Judge(x) \/ CloseTold(x) \/
             Final(x) \/ Abandon(x)
    <2>1. last' = last /\ stage[x] # "new"
      BY <1>7 DEF Join, Reread, GetTurn, MarkOrphan, Judge, CloseTold, Final, Abandon
    <2>2. \E to : to # "new" /\ stage' = [stage EXCEPT ![x] = to]
      <3>1. \E to \in {"live", "reread", "catchup", "queue", "orphan", "judge", "told", "ended",
                       "gone", "closing"} : Enter(x, to)
        BY <1>7 DEF Join, Reread, GetTurn, MarkOrphan, Judge, CloseTold, Final, Abandon,
                    Finish
      <3> QED BY <3>1 DEF Enter
    <2> QED BY <1>2, <2>1, <2>2
  <1> QED BY <1>4, <1>5, <1>6, <1>7 DEF Progress

\* A turn implements the feed: what is published is the log, the runner's leaving
\* shuts it, and a subscription advances through it one event at a time.
THEOREM TurnRefinesFeed == Spec => FeedSpec
  <1>1. TurnInv /\ TurnInv' /\ [Next]_vars => [Feed!Next]_Feed!feedVars
    <2> SUFFICES ASSUME TurnInv, TurnInv', [Next]_vars PROVE [Feed!Next]_Feed!feedVars
      OBVIOUS
    <2>1. CASE UNCHANGED vars
      BY <2>1 DEF vars, Feed!feedVars, Live
    <2>2. CASE Next
      BY <2>2, FeedProduce, FeedConsume DEF Next
    <2> QED BY <2>1, <2>2
  <1> QED BY <1>1, TurnInvariant, FeedInit, PTL DEF Spec, FeedSpec, Feed!Spec

=============================================================================
