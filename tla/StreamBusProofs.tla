-------------------------- MODULE StreamBusProofs --------------------------
(***************************************************************************)
(* What the two channels of a capability's task promise, for any value of  *)
(* the constants: its bus (StreamBus) to the consumers, for any number of  *)
(* consumers, waiters, events and calls of close(), and its reply queue    *)
(* (TurnReplies) to the questions it asks.                                 *)
(***************************************************************************)
EXTENDS StreamBus, TurnReplies, SequenceTheorems, TLAPS

\* A generator that has not started holds nothing; one that ended by itself has
\* yielded the whole history.
PhaseOK ==
    \A s \in Subscribers :
        /\ phase[s] = "new" => Len(got[s]) = 0 /\ Len(queue[s]) = 0
        /\ phase[s] = "ended" => Closed /\ Len(got[s]) = emitted

\* A wait that has not been served has nothing on its queue, and one that has
\* been served has one content.
WaitOK ==
    \A w \in Waiters :
        /\ waiter[w] \in {"new", "listening"} => Len(inputs[w]) = 0
        /\ waiter[w] = "served" => Len(inputs[w]) = 1
        /\ Len(inputs[w]) =< 1

BusInv == TypeOK /\ WaitOK /\ InOrder /\ PhaseOK /\ QueueHoldsTheRest

\* Appending adds one element at the end and moves none.
LEMMA AppendFacts ==
  ASSUME NEW S, NEW q \in Seq(S), NEW e \in S
  PROVE  /\ Append(q, e) \in Seq(S)
         /\ Len(Append(q, e)) = Len(q) + 1
         /\ \A i \in 1 .. Len(q) + 1 :
               Append(q, e)[i] = IF i =< Len(q) THEN q[i] ELSE e
  BY AppendProperties

\* What emit() and close() do to the queues: one item more at the end of every
\* registered one, nothing to the others.
LEMMA PutAllEffect ==
  ASSUME TypeOK, NEW item \in Item, PutAll(item)
  PROVE  /\ queue' \in [Subscribers -> Seq(Item)]
         /\ \A s \in Registered :
               /\ Len(queue'[s]) = Len(queue[s]) + 1
               /\ \A i \in 1 .. Len(queue[s]) + 1 :
                     queue'[s][i] = IF i =< Len(queue[s]) THEN queue[s][i] ELSE item
         /\ \A s \in Subscribers : s \notin Registered => queue'[s] = queue[s]
  <1>1. \A s \in Subscribers : queue[s] \in Seq(Item)
    BY DEF TypeOK
  <1>2. \A s \in Subscribers :
           queue'[s] = IF s \in Registered THEN Append(queue[s], item) ELSE queue[s]
    BY DEF PutAll
  <1>3. Registered \subseteq Subscribers
    BY DEF Registered
  <1>4. queue' = [s \in Subscribers |-> queue'[s]]
    BY DEF PutAll
  <1>5. \A s \in Subscribers : queue'[s] \in Seq(Item)
    BY <1>1, <1>2, AppendFacts
  <1> QED BY <1>1, <1>2, <1>3, <1>4, <1>5, AppendFacts

\* Initially nothing is emitted, queued or yielded.
LEMMA BusInit == Init => BusInv
  <1> SUFFICES ASSUME Init PROVE BusInv
    OBVIOUS
  <1>1. TypeOK
    BY BusAssumption, EmptySeq DEF Init, TypeOK, Item, Nil
  <1>2. WaitOK /\ InOrder /\ PhaseOK /\ QueueHoldsTheRest
    BY DEF Init, WaitOK, InOrder, PhaseOK, QueueHoldsTheRest, Registered
  <1> QED BY <1>1, <1>2 DEF BusInv

\* A step that appends the next event of the history to every registered queue.
LEMMA EmitStep ==
  ASSUME BusInv, ~Closed, emitted < MaxEvents, emitted' = emitted + 1,
         PutAll(emitted + 1), UNCHANGED <<closes, phase, replayed, got>>
  PROVE  /\ emitted' \in 0 .. MaxEvents
         /\ queue' \in [Subscribers -> Seq(Item)]
         /\ (InOrder /\ PhaseOK /\ QueueHoldsTheRest)'
  <1> USE BusAssumption DEF BusInv
  <1>0. emitted + 1 \in Item /\ emitted \in Nat
    BY DEF TypeOK, Item
  <1>1. emitted' \in 0 .. MaxEvents
    BY DEF TypeOK
  <1>2. /\ queue' \in [Subscribers -> Seq(Item)]
        /\ \A s \in Registered :
               /\ Len(queue'[s]) = Len(queue[s]) + 1
               /\ \A i \in 1 .. Len(queue[s]) + 1 :
                     queue'[s][i] = IF i =< Len(queue[s]) THEN queue[s][i] ELSE emitted + 1
    BY <1>0, PutAllEffect
  <1>2a. \A s \in Subscribers : s \notin Registered => queue'[s] = queue[s]
    BY <1>0, PutAllEffect
  <1>3. InOrder'
    BY <1>0 DEF InOrder, TypeOK
  <1>4. PhaseOK'
    <2>1. \A s \in Subscribers : phase[s] = "new" => s \notin Registered
      BY DEF Registered
    <2>2. \A s \in Subscribers : phase'[s] # "ended"
      BY DEF PhaseOK
    <2>3. \A s \in Subscribers : phase[s] = "new" => Len(got'[s]) = 0 /\ Len(queue'[s]) = 0
      <3> SUFFICES ASSUME NEW s \in Subscribers, phase[s] = "new"
                   PROVE  Len(got'[s]) = 0 /\ Len(queue'[s]) = 0
        OBVIOUS
      <3>1. queue'[s] = queue[s]
        <4>1. s \notin Registered
          BY <2>1
        <4> QED BY <1>2a, <4>1
      <3>2. got'[s] = got[s]
        OBVIOUS
      <3> QED BY <3>1, <3>2 DEF PhaseOK
    <2>4. phase' = phase
      OBVIOUS
    <2> QED BY <2>2, <2>3, <2>4 DEF PhaseOK
  <1>5. QueueHoldsTheRest'
    <2>0. Registered' = Registered
      BY DEF Registered
    <2> SUFFICES ASSUME NEW s \in Registered
                 PROVE  HoldsTheRest(s)'
      BY <2>0 DEF QueueHoldsTheRest
    <2>1. s \in Registered /\ s \in Subscribers
      BY DEF Registered
    <2>2. /\ Len(queue[s]) \in Nat /\ Len(got[s]) \in Nat /\ replayed[s] \in Nat
          /\ Len(got[s]) =< emitted
          /\ Base(s) \in Nat /\ Base(s) =< emitted /\ Base(s)' = Base(s)
      BY <2>1, LenProperties DEF TypeOK, Base, InOrder, QueueHoldsTheRest, HoldsTheRest
    <2>3. Due(s) \in Nat /\ Due(s)' = Due(s) + 1
      BY <1>0, <2>2 DEF Due
    <2>4. Len(queue[s]) = Due(s)
      BY <2>1, <2>2, <2>3 DEF QueueHoldsTheRest, HoldsTheRest
    <2>5. \A i \in 1 .. Len(queue[s]) : queue[s][i] = Base(s) + i
      BY <2>1, <2>2, <2>3, <2>4 DEF QueueHoldsTheRest, HoldsTheRest
    <2>6. \A i \in 1 .. Len(queue'[s]) :
             queue'[s][i] = IF i =< Due(s)' THEN Base(s)' + i ELSE Nil
      <3> SUFFICES ASSUME NEW i \in 1 .. Len(queue[s]) + 1
                   PROVE  i =< Due(s)' /\ queue'[s][i] = Base(s) + i
        BY <1>2, <2>2
      <3>1. queue'[s][i] = IF i =< Len(queue[s]) THEN queue[s][i] ELSE emitted + 1
        BY <1>2
      <3>2. CASE i =< Len(queue[s])
        BY <2>2, <2>3, <2>4, <2>5, <3>1, <3>2
      <3>3. CASE i = Len(queue[s]) + 1
        BY <1>0, <2>2, <2>3, <2>4, <3>1, <3>3 DEF Due
      <3> QED BY <2>2, <3>2, <3>3
    <2>7. phase'[s] = "replay" => Len(got'[s]) =< replayed'[s] /\ replayed'[s] =< emitted'
      BY <1>0, <2>1, <2>2 DEF QueueHoldsTheRest, HoldsTheRest
    <2>8. Len(queue'[s]) = Due(s)'
      BY <1>2, <2>1, <2>3, <2>4
    <2>9. ~Closed'
      BY DEF Closed
    <2>10. Len(queue'[s]) >= Due(s)' /\ ~(Len(queue'[s]) > Due(s)')
      BY <2>3, <2>8
    <2> QED BY <2>6, <2>7, <2>9, <2>10 DEF HoldsTheRest
  <1> QED BY <1>1, <1>2, <1>3, <1>4, <1>5

\* A step that appends the sentinel to every registered queue.
LEMMA CloseStep ==
  ASSUME BusInv, closes' = closes + 1, PutAll(Nil),
         UNCHANGED <<emitted, phase, replayed, got>>
  PROVE  /\ queue' \in [Subscribers -> Seq(Item)]
         /\ (InOrder /\ PhaseOK /\ QueueHoldsTheRest)'
  <1> USE BusAssumption DEF BusInv
  <1>0. Nil \in Item /\ emitted \in Nat /\ closes \in Nat /\ Closed'
    BY DEF TypeOK, Item, Nil, Closed
  <1>1. /\ queue' \in [Subscribers -> Seq(Item)]
        /\ \A s \in Registered :
               /\ Len(queue'[s]) = Len(queue[s]) + 1
               /\ \A i \in 1 .. Len(queue[s]) + 1 :
                     queue'[s][i] = IF i =< Len(queue[s]) THEN queue[s][i] ELSE Nil
    BY <1>0, PutAllEffect
  <1>2. \A s \in Subscribers : s \notin Registered => queue'[s] = queue[s]
    BY <1>0, PutAllEffect
  <1>3. InOrder'
    BY DEF InOrder
  <1>4. PhaseOK'
    <2> SUFFICES ASSUME NEW s \in Subscribers
                 PROVE  /\ phase[s] = "new" => Len(got[s]) = 0 /\ Len(queue'[s]) = 0
                        /\ phase[s] = "ended" => Closed' /\ Len(got[s]) = emitted
      BY DEF PhaseOK
    <2>1. phase[s] = "new" => queue'[s] = queue[s]
      BY <1>2 DEF Registered
    <2> QED BY <1>0, <2>1 DEF PhaseOK
  <1>5. QueueHoldsTheRest'
    <2>0. Registered' = Registered
      BY DEF Registered
    <2> SUFFICES ASSUME NEW s \in Registered
                 PROVE  HoldsTheRest(s)'
      BY <2>0 DEF QueueHoldsTheRest
    <2>1. s \in Subscribers
      BY DEF Registered
    <2>2. /\ Len(queue[s]) \in Nat /\ Len(got[s]) \in Nat
          /\ Base(s)' = Base(s) /\ Due(s)' = Due(s)
          /\ Base(s) \in Nat /\ Due(s) \in Int
      BY <2>1, LenProperties DEF TypeOK, Base, Due
    <2>3. /\ Len(queue[s]) >= Due(s)
          /\ phase[s] = "replay" => Len(got[s]) =< replayed[s] /\ replayed[s] =< emitted
      BY DEF QueueHoldsTheRest, HoldsTheRest
    <2>4. \A i \in 1 .. Len(queue[s]) :
             queue[s][i] = IF i =< Due(s) THEN Base(s) + i ELSE Nil
      BY DEF QueueHoldsTheRest, HoldsTheRest
    <2>5. Len(queue'[s]) >= Due(s) /\ Len(queue'[s]) > Due(s)
      BY <1>1, <2>2, <2>3
    <2>6. \A i \in 1 .. Len(queue'[s]) :
             queue'[s][i] = IF i =< Due(s) THEN Base(s) + i ELSE Nil
      <3> SUFFICES ASSUME NEW i \in 1 .. Len(queue[s]) + 1
                   PROVE  queue'[s][i] = IF i =< Due(s) THEN Base(s) + i ELSE Nil
        BY <1>1, <2>2
      <3>1. queue'[s][i] = IF i =< Len(queue[s]) THEN queue[s][i] ELSE Nil
        BY <1>1
      <3>2. CASE i =< Len(queue[s])
        BY <2>2, <2>4, <3>1, <3>2
      <3>3. CASE i = Len(queue[s]) + 1
        BY <2>2, <2>3, <3>1, <3>3
      <3> QED BY <2>2, <3>2, <3>3
    <2> QED BY <1>0, <2>2, <2>3, <2>5, <2>6 DEF HoldsTheRest
  <1> QED BY <1>1, <1>3, <1>4, <1>5

\* The part of the invariant that is about one consumer.
ConsumerOK(s) ==
    /\ Len(got[s]) =< emitted
    /\ \A i \in 1 .. Len(got[s]) : got[s][i] = i
    /\ phase[s] = "new" => Len(got[s]) = 0 /\ Len(queue[s]) = 0
    /\ phase[s] = "ended" => Closed /\ Len(got[s]) = emitted
    /\ phase[s] \in {"replay", "live"} => HoldsTheRest(s)

\* The invariant is the conjunction of these parts.
LEMMA PerConsumer ==
  (InOrder /\ PhaseOK /\ QueueHoldsTheRest) <=> \A s \in Subscribers : ConsumerOK(s)
  BY DEF InOrder, PhaseOK, QueueHoldsTheRest, ConsumerOK, Registered

\* A step of one consumer leaves what is said of the others alone.
LEMMA Frame ==
  ASSUME BusInv, UNCHANGED <<emitted, closes>>, NEW x \in Subscribers,
         \A s \in Subscribers \ {x} :
            /\ phase'[s] = phase[s] /\ replayed'[s] = replayed[s]
            /\ queue'[s] = queue[s] /\ got'[s] = got[s],
         ConsumerOK(x)'
  PROVE  (InOrder /\ PhaseOK /\ QueueHoldsTheRest)'
  <1>1. \A s \in Subscribers : ConsumerOK(s)
    BY PerConsumer DEF BusInv
  <1>2. ASSUME NEW s \in Subscribers \ {x} PROVE ConsumerOK(s)'
    <2>1. /\ phase'[s] = phase[s] /\ replayed'[s] = replayed[s] /\ queue'[s] = queue[s]
          /\ got'[s] = got[s] /\ emitted' = emitted /\ closes' = closes
      OBVIOUS
    <2>2. Base(s)' = Base(s) /\ Due(s)' = Due(s) /\ Closed' = Closed
      BY <2>1 DEF Base, Due, Closed
    <2>3. HoldsTheRest(s) => HoldsTheRest(s)'
      BY <2>1, <2>2 DEF HoldsTheRest
    <2>4. ConsumerOK(s)
      BY <1>1
    <2> QED BY <2>1, <2>2, <2>3, <2>4 DEF ConsumerOK
  <1>3. \A s \in Subscribers : ConsumerOK(s)'
    BY <1>2
  <1>4. InOrder'
    BY <1>3 DEF InOrder, ConsumerOK
  <1>5. PhaseOK'
    BY <1>3 DEF PhaseOK, ConsumerOK
  <1>6. QueueHoldsTheRest'
    <2> SUFFICES ASSUME NEW s \in Registered' PROVE HoldsTheRest(s)'
      BY DEF QueueHoldsTheRest
    <2>1. s \in Subscribers /\ phase'[s] \in {"replay", "live"}
      BY DEF Registered
    <2> QED BY <1>3, <2>1 DEF ConsumerOK
  <1> QED BY <1>4, <1>5, <1>6

\* What the invariant says of one consumer, in the form the steps use.
LEMMA ConsumerFacts ==
  ASSUME BusInv, NEW s \in Subscribers
  PROVE  /\ ConsumerOK(s)
         /\ emitted \in 0 .. MaxEvents /\ MaxEvents \in Nat
         /\ got[s] \in Seq(1 .. MaxEvents) /\ Len(got[s]) \in Nat
         /\ queue[s] \in Seq(Item) /\ Len(queue[s]) \in Nat
         /\ replayed[s] \in Nat
         /\ Base(s) \in Nat /\ Due(s) \in Int
  BY BusAssumption, PerConsumer, LenProperties DEF BusInv, TypeOK, Base, Due

\* Each step of a consumer keeps the invariant.
LEMMA SubscribeStep ==
  ASSUME BusInv, NEW s \in Subscribers, Subscribe(s) PROVE BusInv'
  <1> USE DEF Subscribe, inputVars
  <1>1. TypeOK' /\ WaitOK'
    BY BusAssumption DEF BusInv, TypeOK, WaitOK
  <1>2. ConsumerOK(s)'
    <2>1. Len(got[s]) = 0 /\ Len(queue[s]) = 0
      BY ConsumerFacts DEF ConsumerOK
    <2>2. phase'[s] = "replay" /\ replayed'[s] = emitted /\ emitted \in Nat
      BY DEF BusInv, TypeOK
    <2>3. Base(s)' = emitted /\ Due(s)' = 0
      BY <2>2 DEF Base, Due
    <2> QED BY <2>1, <2>2, <2>3 DEF ConsumerOK, HoldsTheRest
  <1>3. (InOrder /\ PhaseOK /\ QueueHoldsTheRest)'
    BY <1>2, Frame DEF BusInv, TypeOK
  <1> QED BY <1>1, <1>3 DEF BusInv

LEMMA ReplayStep ==
  ASSUME BusInv, NEW s \in Subscribers, Replay(s) PROVE BusInv'
  <1> USE DEF Replay, ReplayRange, inputVars
  <1>0. ConsumerOK(s) /\ HoldsTheRest(s)
    BY ConsumerFacts DEF ConsumerOK
  <1>1. Len(got[s]) + 1 \in 1 .. MaxEvents
    BY <1>0, ConsumerFacts DEF HoldsTheRest
  <1>2. /\ got'[s] = Append(got[s], Len(got[s]) + 1)
        /\ got'[s] \in Seq(1 .. MaxEvents)
        /\ Len(got'[s]) = Len(got[s]) + 1
    BY <1>1, ConsumerFacts, AppendFacts DEF BusInv, TypeOK
  <1>3. TypeOK' /\ WaitOK'
    BY <1>2 DEF BusInv, TypeOK, WaitOK
  <1>4. \A i \in 1 .. Len(got'[s]) : got'[s][i] = i
    <2> SUFFICES ASSUME NEW i \in 1 .. Len(got[s]) + 1
                 PROVE  Append(got[s], Len(got[s]) + 1)[i] = i
      BY <1>2
    <2>1. Append(got[s], Len(got[s]) + 1)[i]
             = IF i =< Len(got[s]) THEN got[s][i] ELSE Len(got[s]) + 1
      <3>1. got[s] \in Seq(1 .. MaxEvents)
        BY ConsumerFacts
      <3> QED BY <1>1, <3>1, AppendFacts
    <2>2. i =< Len(got[s]) => got[s][i] = i
      BY <1>0, ConsumerFacts DEF ConsumerOK
    <2> QED BY <2>1, <2>2, ConsumerFacts
  <1>5. Base(s)' = Base(s) /\ Due(s)' = Due(s)
    BY DEF Base, Due
  <1>6. HoldsTheRest(s)'
    BY <1>0, <1>2, <1>5, ConsumerFacts DEF HoldsTheRest, Closed
  <1>7. Len(got'[s]) =< emitted
    BY <1>0, <1>2, ConsumerFacts DEF HoldsTheRest
  <1>8. ConsumerOK(s)'
    BY <1>4, <1>6, <1>7 DEF ConsumerOK
  <1>9. (InOrder /\ PhaseOK /\ QueueHoldsTheRest)'
    BY <1>8, Frame DEF BusInv, TypeOK
  <1> QED BY <1>3, <1>9 DEF BusInv

LEMMA EndReplayStep ==
  ASSUME BusInv, NEW s \in Subscribers, EndReplay(s) PROVE BusInv'
  <1> USE DEF EndReplay, ReplayRange, inputVars
  <1>0. ConsumerOK(s) /\ HoldsTheRest(s)
    BY ConsumerFacts DEF ConsumerOK
  <1>1. TypeOK' /\ WaitOK'
    BY DEF BusInv, TypeOK, WaitOK
  <1>2. Len(got[s]) = replayed[s] /\ Base(s) = Len(got[s]) /\ Due(s) = emitted - Len(got[s])
    BY <1>0, ConsumerFacts DEF HoldsTheRest, Base, Due
  <1>3. CASE Exhausted(s)
    <2>1. phase'[s] = "ended" /\ Closed
      BY <1>3 DEF BusInv, TypeOK, Exhausted
    <2>2. Len(queue[s]) = 0
      BY <1>3 DEF Exhausted
    <2>3. Len(got[s]) = emitted
      BY <1>0, <1>2, <2>1, <2>2, ConsumerFacts DEF HoldsTheRest, ConsumerOK
    <2>4. ConsumerOK(s)'
      BY <1>0, <2>1, <2>3 DEF ConsumerOK, Closed
    <2> QED BY <1>1, <2>4, Frame DEF BusInv, TypeOK
  <1>4. CASE ~Exhausted(s)
    <2>1. phase'[s] = "live"
      BY <1>4 DEF BusInv, TypeOK
    <2>2. Base(s)' = Base(s) /\ Due(s)' = Due(s)
      BY <1>2, <2>1 DEF Base, Due
    <2>3. Closed => Len(queue[s]) > Due(s)
      <3>1. CASE Due(s) > 0
        BY <1>0, <3>1 DEF HoldsTheRest
      <3>2. CASE ~(Due(s) > 0)
        <4>1. Due(s) = 0
          BY <1>0, <1>2, <3>2, ConsumerFacts DEF ConsumerOK
        <4>2. Closed => Len(queue[s]) > 0
          BY <1>4, ConsumerFacts, EmptySeq DEF Exhausted
        <4> QED BY <4>1, <4>2
      <3> QED BY <3>1, <3>2
    <2>4. HoldsTheRest(s)'
      BY <1>0, <2>1, <2>2, <2>3 DEF HoldsTheRest, Closed
    <2>5. ConsumerOK(s)'
      BY <1>0, <2>1, <2>4 DEF ConsumerOK
    <2> QED BY <1>1, <2>5, Frame DEF BusInv, TypeOK
  <1> QED BY <1>3, <1>4

LEMMA TakeStep ==
  ASSUME BusInv, NEW s \in Subscribers, Take(s) PROVE BusInv'
  <1> USE DEF Take, inputVars
  <1>0. ConsumerOK(s) /\ HoldsTheRest(s)
    BY ConsumerFacts DEF ConsumerOK
  <1>0a. /\ emitted \in Nat /\ Len(got[s]) \in Nat /\ Len(queue[s]) \in Nat
         /\ Base(s) \in Nat /\ Due(s) \in Int
    BY ConsumerFacts
  <1>1. /\ queue[s] \in Seq(Item) /\ queue[s] # <<>>
        /\ queue'[s] = Tail(queue[s])
        /\ Len(queue[s]) \in Nat /\ Len(queue[s]) >= 1
    BY ConsumerFacts, EmptySeq DEF BusInv, TypeOK
  <1>2. /\ queue'[s] \in Seq(Item)
        /\ Len(queue'[s]) = Len(queue[s]) - 1
        /\ \A i \in 1 .. Len(queue'[s]) : queue'[s][i] = queue[s][i + 1]
        /\ Head(queue[s]) \in Item
    <2>1. /\ Head(queue[s]) \in Item
          /\ Tail(queue[s]) \in Seq(Item)
          /\ Len(Tail(queue[s])) = Len(queue[s]) - 1
          /\ \A i \in 1 .. Len(Tail(queue[s])) : Tail(queue[s])[i] = queue[s][i + 1]
      BY <1>1, HeadTailProperties
    <2>2. queue'[s] = Tail(queue[s])
      BY <1>1
    <2> QED BY <2>1, <2>2
  <1>3. Head(queue[s]) = queue[s][1]
    BY <1>1
  <1>4. Base(s) = Len(got[s]) /\ Due(s) = emitted - Len(got[s])
    BY DEF Base, Due
  <1>5. queue[s][1] = IF 1 =< Due(s) THEN Base(s) + 1 ELSE Nil
    BY <1>0, <1>1 DEF HoldsTheRest
  <1>6. Len(queue[s]) >= Due(s) /\ Due(s) >= 0
    BY <1>0, <1>4, ConsumerFacts DEF HoldsTheRest, ConsumerOK
  <1>7. CASE Head(queue[s]) = Nil
    <2>1. phase'[s] = "ended" /\ got' = got
      BY <1>7 DEF BusInv, TypeOK
    <2>2. Due(s) = 0
      BY <1>3, <1>4, <1>5, <1>6, <1>7, ConsumerFacts DEF Nil
    <2>3. Len(got[s]) = emitted /\ Closed
      BY <1>0, <1>1, <1>4, <2>2, ConsumerFacts DEF HoldsTheRest
    <2>4. ConsumerOK(s)'
      BY <1>0, <2>1, <2>3 DEF ConsumerOK, Closed
    <2>5. TypeOK' /\ WaitOK'
      BY <1>2, <1>7 DEF BusInv, TypeOK, WaitOK
    <2> QED BY <2>4, <2>5, Frame DEF BusInv, TypeOK
  <1>8. CASE Head(queue[s]) # Nil
    <2>1. phase' = phase /\ got'[s] = Append(got[s], Head(queue[s]))
      BY <1>8 DEF BusInv, TypeOK
    <2>2. Due(s) >= 1 /\ Head(queue[s]) = Len(got[s]) + 1
      BY <1>3, <1>4, <1>5, <1>6, <1>8, ConsumerFacts
    <2>3. Len(got[s]) + 1 =< emitted /\ Len(got[s]) + 1 \in 1 .. MaxEvents
      BY <1>4, <2>2, ConsumerFacts
    <2>4. /\ got'[s] \in Seq(1 .. MaxEvents)
          /\ Len(got'[s]) = Len(got[s]) + 1
      BY <2>1, <2>2, <2>3, ConsumerFacts, AppendFacts
    <2>5. \A i \in 1 .. Len(got'[s]) : got'[s][i] = i
      <3> SUFFICES ASSUME NEW i \in 1 .. Len(got[s]) + 1
                   PROVE  Append(got[s], Len(got[s]) + 1)[i] = i
        BY <2>1, <2>2, <2>4
      <3>1. Append(got[s], Len(got[s]) + 1)[i]
               = IF i =< Len(got[s]) THEN got[s][i] ELSE Len(got[s]) + 1
        <4>1. got[s] \in Seq(1 .. MaxEvents)
          BY ConsumerFacts
        <4> QED BY <2>3, <4>1, AppendFacts
      <3>2. i =< Len(got[s]) => got[s][i] = i
        BY <1>0, ConsumerFacts DEF ConsumerOK
      <3> QED BY <1>0a, <3>1, <3>2
    <2>6. phase'[s] = "live" /\ Base(s)' = Base(s) + 1 /\ Due(s)' = Due(s) - 1
      BY <1>0a, <1>4, <2>1, <2>4 DEF Base, Due
    <2>7. \A i \in 1 .. Len(queue'[s]) :
             queue'[s][i] = IF i =< Due(s) - 1 THEN Base(s) + 1 + i ELSE Nil
      <3> SUFFICES ASSUME NEW i \in 1 .. Len(queue'[s])
                   PROVE  queue'[s][i] = IF i =< Due(s) - 1 THEN Base(s) + 1 + i ELSE Nil
        OBVIOUS
      <3>1. i \in Nat /\ i + 1 \in 1 .. Len(queue[s]) /\ queue'[s][i] = queue[s][i + 1]
        BY <1>0a, <1>1, <1>2
      <3>2. queue[s][i + 1] = IF i + 1 =< Due(s) THEN Base(s) + (i + 1) ELSE Nil
        BY <1>0, <3>1 DEF HoldsTheRest
      <3>3. /\ i + 1 =< Due(s) <=> i =< Due(s) - 1
            /\ Base(s) + (i + 1) = Base(s) + 1 + i
        BY <1>0a, <3>1
      <3>4. queue[s][i + 1] = IF i =< Due(s) - 1 THEN Base(s) + 1 + i ELSE Nil
        BY <3>2, <3>3
      <3> QED BY <3>1, <3>4
    <2>8. /\ Len(queue'[s]) >= Due(s) - 1
          /\ Len(queue'[s]) > Due(s) - 1 => Closed
          /\ Closed => Len(queue'[s]) > Due(s) - 1
      BY <1>0, <1>1, <1>2, <1>6, ConsumerFacts DEF HoldsTheRest
    <2>9. HoldsTheRest(s)'
      BY <2>6, <2>7, <2>8 DEF HoldsTheRest, Closed
    <2>10. ConsumerOK(s)'
      BY <2>3, <2>4, <2>5, <2>6, <2>9 DEF ConsumerOK
    <2>11. TypeOK' /\ WaitOK'
      BY <1>2, <1>8, <2>4 DEF BusInv, TypeOK, WaitOK
    <2> QED BY <2>10, <2>11, Frame DEF BusInv, TypeOK
  <1> QED BY <1>7, <1>8

LEMMA AbandonStep ==
  ASSUME BusInv, NEW s \in Subscribers, Abandon(s) PROVE BusInv'
  <1> USE DEF Abandon, inputVars
  <1>1. TypeOK' /\ WaitOK'
    BY DEF BusInv, TypeOK, WaitOK
  <1>2. phase'[s] = "abandoned"
    BY DEF BusInv, TypeOK
  <1>3. ConsumerOK(s)'
    BY <1>2, ConsumerFacts DEF ConsumerOK
  <1> QED BY <1>1, <1>3, Frame DEF BusInv, TypeOK

\* The calls of wait_for_input() and submit_input() change no consumer, except
\* that the prompt is an event like any other.
LEMMA InputStep ==
  ASSUME BusInv,
         SubmitInput \/ \E w \in Waiters : ReturnInput(w) \/ TimeoutInput(w)
  PROVE  BusInv'
  <1> USE BusAssumption DEF BusInv, TypeOK, busVars
  <1>1. UNCHANGED busVars
    BY DEF SubmitInput, ReturnInput, TimeoutInput
  <1>2. (InOrder /\ PhaseOK /\ QueueHoldsTheRest)'
    BY <1>1 DEF InOrder, PhaseOK, QueueHoldsTheRest, HoldsTheRest, Base, Due, Registered, Closed
  <1>3. CASE SubmitInput
    <2>1. submitted + 1 \in 1 .. MaxInputs /\ submitted' \in 0 .. MaxInputs
      BY <1>3 DEF SubmitInput
    <2>2. \A w \in Waiters : inputs[w] \in Seq(1 .. MaxInputs)
      OBVIOUS
    <2>3. inputs' \in [Waiters -> Seq(1 .. MaxInputs)]
      BY <1>3, <2>1, <2>2, AppendFacts DEF SubmitInput
    <2>4. waiter' \in [Waiters -> {"new", "listening", "served", "answered", "timedout"}]
      BY <1>3 DEF SubmitInput, Cleared
    <2>5. WaitOK'
      <3> SUFFICES ASSUME NEW w \in Waiters
                   PROVE  /\ waiter'[w] \in {"new", "listening"} => Len(inputs'[w]) = 0
                          /\ waiter'[w] = "served" => Len(inputs'[w]) = 1
                          /\ Len(inputs'[w]) =< 1
        BY DEF WaitOK
      <3>1. CASE w \in Listeners
        <4>1. waiter[w] = "listening" /\ waiter'[w] = "served"
          BY <1>3, <3>1 DEF Listeners, SubmitInput, Cleared
        <4>2. Len(inputs[w]) = 0
          BY <4>1 DEF WaitOK
        <4>3. inputs'[w] = Append(inputs[w], submitted + 1)
          BY <1>3, <3>1 DEF SubmitInput
        <4>4. Len(inputs'[w]) = 1
          BY <2>1, <2>2, <4>2, <4>3, AppendFacts
        <4> QED BY <4>1, <4>4
      <3>2. CASE w \notin Listeners
        <4>1. waiter'[w] = waiter[w] /\ inputs'[w] = inputs[w]
          BY <1>3, <3>2 DEF SubmitInput
        <4> QED BY <4>1 DEF WaitOK
      <3> QED BY <3>1, <3>2
    <2> QED BY <1>1, <1>2, <2>1, <2>3, <2>4, <2>5
  <1>4. ASSUME NEW w \in Waiters, ReturnInput(w) PROVE BusInv'
    <2>1. inputs[w] \in Seq(1 .. MaxInputs) /\ waiter[w] = "served" /\ Len(inputs[w]) = 1
      BY <1>4 DEF ReturnInput, WaitOK
    <2>2. Tail(inputs[w]) \in Seq(1 .. MaxInputs) /\ Len(Tail(inputs[w])) = 0
      <3>1. inputs[w] # <<>>
        BY <2>1, Len(<<>>) = 0, 1 # 0, Zenon
      <3> QED BY <2>1, <3>1, HeadTailProperties
    <2>3. inputs' \in [Waiters -> Seq(1 .. MaxInputs)]
      BY <1>4, <2>2 DEF ReturnInput
    <2>4. WaitOK'
      BY <1>4, <2>2 DEF ReturnInput, WaitOK
    <2> QED BY <1>1, <1>2, <1>4, <2>3, <2>4 DEF ReturnInput
  <1>5. ASSUME NEW w \in Waiters, TimeoutInput(w) PROVE BusInv'
    BY <1>1, <1>2, <1>5 DEF TimeoutInput, WaitOK
  <1> QED BY <1>3, <1>4, <1>5

\* emit(), close() and the prompt of wait_for_input() keep the invariant.
LEMMA ProducerStep ==
  ASSUME BusInv, Emit \/ Close \/ \E w \in Waiters : WaitForInput(w)
  PROVE  BusInv'
  <1>1. CASE Emit
    BY <1>1, EmitStep DEF Emit, BusInv, TypeOK, WaitOK, inputVars
  <1>2. CASE Close
    <2>1. closes' \in 0 .. MaxCloses
      BY <1>2, BusAssumption DEF Close, BusInv, TypeOK
    <2> QED BY <1>2, <2>1, CloseStep DEF Close, BusInv, TypeOK, WaitOK, inputVars
  <1>3. ASSUME NEW w \in Waiters, WaitForInput(w) PROVE BusInv'
    <2>1. waiter' \in [Waiters -> {"new", "listening", "served", "answered", "timedout"}]
      BY <1>3 DEF WaitForInput, BusInv, TypeOK
    <2>1a. WaitOK'
      BY <1>3 DEF WaitForInput, BusInv, TypeOK, WaitOK
    <2>2. CASE Closed
      <3>1. UNCHANGED <<emitted, closes, phase, replayed, queue, got>>
        BY <1>3, <2>2 DEF WaitForInput
      <3>2. (InOrder /\ PhaseOK /\ QueueHoldsTheRest)'
        BY <3>1 DEF BusInv, InOrder, PhaseOK, QueueHoldsTheRest, HoldsTheRest, Base, Due,
                    Registered, Closed
      <3> QED BY <1>3, <2>1, <2>1a, <3>1, <3>2 DEF WaitForInput, BusInv, TypeOK
    <2>3. CASE ~Closed
      BY <1>3, <2>1, <2>1a, <2>3, EmitStep DEF WaitForInput, BusInv, TypeOK
    <2> QED BY <2>2, <2>3
  <1> QED BY <1>1, <1>2, <1>3

\* The invariant holds in every reachable state.
THEOREM BusInvariant == Spec => []BusInv
  <1>1. BusInv /\ [Next]_vars => BusInv'
    <2> SUFFICES ASSUME BusInv, [Next]_vars PROVE BusInv'
      OBVIOUS
    <2>1. CASE UNCHANGED vars
      BY <2>1 DEF vars, BusInv, TypeOK, WaitOK, InOrder, PhaseOK, QueueHoldsTheRest, HoldsTheRest,
                  Base, Due, Registered, Closed
    <2>2. CASE Next
      BY <2>2, ProducerStep, InputStep, SubscribeStep, ReplayStep, EndReplayStep,
         TakeStep, AbandonStep DEF Next
    <2> QED BY <2>1, <2>2
  <1> QED BY <1>1, BusInit, PTL DEF Spec

\* The variables stay in their types: for every number of consumers, events and
\* closes.
THEOREM BusTypeOK == Spec => []TypeOK
  BY BusInvariant, PTL DEF BusInv

\* Every consumer, whenever it joined, is handed the history in order, without a
\* gap or a duplicate.
THEOREM BusInOrder == Spec => []InOrder
  BY BusInvariant, PTL DEF BusInv

\* A consumer whose iteration ended by itself has seen all that was emitted.
THEOREM BusEndedSawEverything == Spec => []EndedSawEverything
  <1>1. BusInv => EndedSawEverything
    BY DEF BusInv, PhaseOK, EndedSawEverything
  <1> QED BY <1>1, BusInvariant, PTL

\* A wait_for_input() call is handed at most one content.
THEOREM BusOneAnswerPerWait == Spec => []OneAnswerPerWait
  <1>1. WaitOK => OneAnswerPerWait
    BY DEF WaitOK, OneAnswerPerWait
  <1> QED BY <1>1, BusInvariant, PTL DEF BusInv

----------------------------------------------------------------------------
(* StreamBus implements EventFeed *)

\* How far a consumer is, as EventFeed sees it.
Position == [s \in Subscribers |-> IF phase[s] = "new" THEN -1 ELSE Len(got[s])]

\* A step that hands no consumer anything and starts none leaves every position.
LEMMA PositionStays ==
  ASSUME UNCHANGED got, \A s \in Subscribers : phase'[s] = "new" <=> phase[s] = "new"
  PROVE  Position' = Position
  BY DEF Position

\* A step of one consumer moves its position only.
LEMMA PositionMoves ==
  ASSUME NEW x \in Subscribers,
         \A s \in Subscribers \ {x} : phase'[s] = phase[s] /\ got'[s] = got[s]
  PROVE  Position' = [Position EXCEPT ![x] = Position'[x]]
  BY DEF Position

\* An empty bus is an empty, open log that nobody reads yet.
LEMMA FeedInit == Init => Feed!Init
  BY DEF Init, Feed!Init, Closed

\* emit(), close() and the prompt of wait_for_input() produce, or stutter on a
\* closed bus.
LEMMA FeedProduce ==
  ASSUME BusInv, Emit \/ Close \/ \E w \in Waiters : WaitForInput(w)
  PROVE  [Feed!Next]_Feed!feedVars
  <1>1. emitted \in Nat /\ emitted' \in Nat /\ emitted' >= emitted /\ closes \in Nat
    BY DEF BusInv, TypeOK, Emit, Close, WaitForInput
  <1>2. Position' = Position
    BY PositionStays DEF Emit, Close, WaitForInput
  <1>3. CASE Closed
    <2>1. emitted' = emitted /\ Closed'
      BY <1>1, <1>3 DEF Emit, Close, WaitForInput, Closed
    <2> QED BY <1>2, <1>3, <2>1 DEF Feed!feedVars, Position
  <1>4. CASE ~Closed
    <2>1. Feed!Produce
      BY <1>1, <1>2, <1>4 DEF Feed!Produce, Position
    <2> QED BY <2>1 DEF Feed!Next
  <1> QED BY <1>3, <1>4

\* A step of a consumer starts it, hands it the next event, or stutters.
LEMMA FeedConsume ==
  ASSUME BusInv, NEW x \in Subscribers,
         Subscribe(x) \/ Replay(x) \/ EndReplay(x) \/ Take(x) \/ Abandon(x)
  PROVE  [Feed!Next]_Feed!feedVars
  <1> USE DEF Subscribe, Replay, ReplayRange, EndReplay, Take, Abandon
  <1>0. /\ phase \in [Subscribers -> {"new", "replay", "live", "ended", "abandoned"}]
        /\ got \in [Subscribers -> Seq(1 .. MaxEvents)]
        /\ queue \in [Subscribers -> Seq(Item)]
    BY DEF BusInv, TypeOK
  <1>1. UNCHANGED <<emitted, Closed>>
    BY DEF Closed
  <1>2. Position' = [Position EXCEPT ![x] = Position'[x]]
    BY <1>0, PositionMoves
  <1>3. Len(got[x]) \in Nat /\ emitted \in Nat /\ ConsumerOK(x)
    BY ConsumerFacts
  <1>4. CASE Subscribe(x)
    <2>1. Position[x] = -1 /\ Position'[x] \in 0 .. emitted
      BY <1>0, <1>3, <1>4 DEF Position, ConsumerOK
    <2>2. Feed!Start(x)
      BY <1>1, <1>2, <2>1 DEF Feed!Start, Position
    <2> QED BY <2>2 DEF Feed!Next
  <1>5. ASSUME phase[x] \in {"replay", "live"}, phase'[x] # "new", Len(got[x]) < emitted,
               Len(got'[x]) = Len(got[x]) + 1
        PROVE  [Feed!Next]_Feed!feedVars
    <2>1. /\ Position[x] >= 0 /\ Position[x] < emitted
          /\ Position'[x] = Position[x] + 1
      BY <1>3, <1>5 DEF Position
    <2>2. Feed!Advance(x)
      BY <1>1, <1>2, <2>1 DEF Feed!Advance, Position
    <2> QED BY <2>2 DEF Feed!Next
  <1>6. CASE Replay(x)
    <2>1. Len(got[x]) < emitted
      BY <1>3, <1>6, ConsumerFacts DEF ConsumerOK, HoldsTheRest
    <2>2. got'[x] = Append(got[x], Len(got[x]) + 1)
      BY <1>0, <1>6
    <2>3. Len(got'[x]) = Len(got[x]) + 1
      BY <1>0, <2>2
    <2> QED BY <1>5, <1>6, <2>1, <2>3
  <1>7. ASSUME Take(x), Head(queue[x]) # Nil, got' = [got EXCEPT ![x] = Append(@, Head(queue[x]))],
               UNCHANGED phase
        PROVE  [Feed!Next]_Feed!feedVars
    <2>1. Len(queue[x]) > 0 /\ Head(queue[x]) = queue[x][1]
      BY <1>0, <1>7, HeadTailProperties, EmptySeq
    <2>2. Len(got[x]) < emitted
      BY <1>3, <1>7, <2>1, ConsumerFacts DEF ConsumerOK, HoldsTheRest, Base, Due
    <2>3. Len(got'[x]) = Len(got[x]) + 1
      BY <1>0, <1>7
    <2> QED BY <1>5, <1>7, <2>2, <2>3
  <1>8. ASSUME UNCHANGED got, phase[x] \in {"replay", "live"}, phase'[x] # "new",
               \A s \in Subscribers \ {x} : phase'[s] = phase[s]
        PROVE  [Feed!Next]_Feed!feedVars
    <2>1. Position' = Position
      BY <1>8, PositionStays
    <2> QED BY <1>1, <2>1 DEF Feed!feedVars, Position
  <1>9. CASE EndReplay(x) \/ Abandon(x)
    <2>1. phase'[x] # "new" /\ \A s \in Subscribers \ {x} : phase'[s] = phase[s]
      BY <1>0, <1>9
    <2> QED BY <1>8, <1>9, <2>1
  <1>10. CASE Take(x)
    <2>1. CASE Head(queue[x]) = Nil
      <3>1. phase' = [phase EXCEPT ![x] = "ended"] /\ UNCHANGED got /\ phase[x] = "live"
        BY <1>10, <2>1
      <3>2. phase'[x] # "new" /\ \A s \in Subscribers \ {x} : phase'[s] = phase[s]
        BY <1>0, <3>1
      <3> QED BY <1>8, <3>1, <3>2
    <2>2. CASE Head(queue[x]) # Nil
      BY <1>7, <1>10, <2>2
    <2> QED BY <2>1, <2>2
  <1> QED BY <1>4, <1>6, <1>9, <1>10

\* The bus implements the feed: the history is the log, close() shuts it, and a
\* consumer advances through it one event at a time, whatever is replayed and
\* whatever comes by its queue.
THEOREM BusRefinesFeed == Spec => FeedSpec
  <1>1. BusInv /\ [Next]_vars => [Feed!Next]_Feed!feedVars
    <2> SUFFICES ASSUME BusInv, [Next]_vars PROVE [Feed!Next]_Feed!feedVars
      OBVIOUS
    <2>1. CASE UNCHANGED vars \/ SubmitInput \/ \E w \in Waiters : ReturnInput(w) \/ TimeoutInput(w)
      <3>1. UNCHANGED <<emitted, closes, phase, got>>
        BY <2>1 DEF vars, busVars, SubmitInput, ReturnInput, TimeoutInput
      <3> QED BY <3>1 DEF Feed!feedVars, Closed
    <2>2. CASE Next
      BY <2>1, <2>2, FeedProduce, FeedConsume DEF Next
    <2> QED BY <2>1, <2>2
  <1> QED BY <1>1, BusInvariant, FeedInit, PTL DEF Spec, FeedSpec, Feed!Spec

----------------------------------------------------------------------------
(* The reply queue of a paused turn *)

\* While a question waits for its answer all the earlier ones have theirs;
\* otherwise all have.
CountInv == Len(answers) = IF task = "asking" THEN asked - 1 ELSE asked

\* Every reply was submitted, one that is there twice twice.
SubmittedInv ==
    /\ \A i \in 1 .. Len(answers) : sent[answers[i]] >= 1
    /\ \A i \in 1 .. Len(replies) : sent[replies[i]] >= 1
    /\ \A i \in 1 .. Len(answers), j \in 1 .. Len(replies) :
          answers[i] = replies[j] => sent[answers[i]] > 1
    /\ \A i, j \in 1 .. Len(replies) :
          i < j /\ replies[i] = replies[j] => sent[replies[i]] > 1

PauseInv == PauseTypeOK /\ CountInv /\ SubmittedInv /\ MatchingAnswer

\* Steps that leave the questions, the queue and the answers alone.
LEMMA PauseAside ==
  ASSUME PauseInv, UNCHANGED <<asked, replies, answers, sent>>,
         runner' \in {"created", "running", "closing", "ended"},
         task' \in {"none", "working", "asking", "done"},
         task' = "asking" <=> task = "asking"
  PROVE  PauseInv'
  BY DEF PauseInv, PauseTypeOK, CountInv, SubmittedInv, MatchingAnswer

\* A question is asked.
LEMMA PauseAsk ==
  ASSUME PauseInv, Ask
  PROVE  PauseInv'
  <1> USE RepliesAssumption DEF PauseInv, Ask
  <1>1. PauseTypeOK' /\ CountInv'
    BY DEF PauseTypeOK, CountInv
  <1>2. SubmittedInv' /\ MatchingAnswer'
    BY DEF SubmittedInv, MatchingAnswer
  <1> QED BY <1>1, <1>2

\* The waiting question takes the first reply of the queue.  If it is for an
\* earlier question, that one has been answered by another submission for it, or
\* was itself deprived of its reply; if it is for a later one, it came early.
LEMMA PauseResume ==
  ASSUME PauseInv, Resume
  PROVE  PauseInv'
  <1> USE RepliesAssumption DEF PauseInv, Resume
  <1> DEFINE k == Head(replies)
             n == Len(answers)
             m == Len(replies)
  <1>0. /\ n \in Nat /\ m \in Nat \ {0} /\ n + 1 = asked /\ k = replies[1]
        /\ replies \in Seq(Questions) /\ answers \in Seq(Questions)
        /\ \A i \in 1 .. n : answers[i] \in Questions
        /\ \A i \in 1 .. m : replies[i] \in Questions
    BY DEF PauseTypeOK, CountInv
  <1>1. /\ replies' \in Seq(Questions) /\ Len(replies') = m - 1
        /\ \A i \in 1 .. m - 1 : replies'[i] = replies[i + 1]
        /\ k \in Questions
    BY <1>0, HeadTailProperties DEF Remaining
  <1>2. /\ answers' \in Seq(Questions) /\ Len(answers') = n + 1
        /\ \A i \in 1 .. n + 1 : answers'[i] = IF i =< n THEN answers[i] ELSE k
    BY <1>0, <1>1, AppendFacts
  <1> HIDE DEF k, n, m
  <1>3. sent[k] >= 1 /\ \A i \in 1 .. n : answers[i] = k => sent[k] > 1
    BY <1>0 DEF SubmittedInv, n, m
  <1>4. PauseTypeOK' /\ CountInv'
    BY <1>0, <1>1, <1>2 DEF PauseTypeOK, CountInv
  <1>6. SubmittedInv'
    <2>1. \A i \in 1 .. n + 1 : sent[answers'[i]] >= 1
      BY <1>0, <1>2, <1>3 DEF SubmittedInv, n
    <2>2. \A i \in 1 .. m - 1 : sent[replies'[i]] >= 1
      BY <1>0, <1>1 DEF SubmittedInv, m
    <2>3. \A i \in 1 .. n + 1, j \in 1 .. m - 1 :
             answers'[i] = replies'[j] => sent[answers'[i]] > 1
      <3> SUFFICES ASSUME NEW i \in 1 .. n + 1, NEW j \in 1 .. m - 1,
                          answers'[i] = replies'[j]
                   PROVE  sent[answers'[i]] > 1
        OBVIOUS
      <3>1. j + 1 \in 1 .. m /\ 1 \in 1 .. m /\ 1 < j + 1 /\ replies'[j] = replies[j + 1]
        BY <1>0, <1>1
      <3>2. CASE i =< n
        <4>1. i \in 1 .. n /\ answers'[i] = answers[i]
          BY <1>0, <1>2, <3>2
        <4> QED BY <3>1, <4>1 DEF SubmittedInv, n, m
      <3>3. CASE ~(i =< n)
        <4>1. answers'[i] = replies[1]
          BY <1>0, <1>2, <3>3
        <4> QED BY <3>1, <4>1 DEF SubmittedInv, m
      <3> QED BY <3>2, <3>3
    <2>4. \A i, j \in 1 .. m - 1 :
             i < j /\ replies'[i] = replies'[j] => sent[replies'[i]] > 1
      <3> SUFFICES ASSUME NEW i \in 1 .. m - 1, NEW j \in 1 .. m - 1,
                          i < j, replies'[i] = replies'[j]
                   PROVE  sent[replies'[i]] > 1
        OBVIOUS
      <3>1. /\ i + 1 \in 1 .. m /\ j + 1 \in 1 .. m /\ i + 1 < j + 1
            /\ replies'[i] = replies[i + 1] /\ replies'[j] = replies[j + 1]
        BY <1>0, <1>1
      <3> QED BY <3>1 DEF SubmittedInv, m
    <2> QED BY <1>1, <1>2, <2>1, <2>2, <2>3, <2>4 DEF SubmittedInv
  <1>7. MatchingAnswer'
    <2> SUFFICES ASSUME NEW q \in 1 .. n + 1, answers'[q] # q
                 PROVE  \/ \E p \in 1 .. q - 1 : sent[p] > 1
                        \/ \E p \in 1 .. q : answers'[p] > p
      BY <1>2 DEF MatchingAnswer
    <2>1. ASSUME NEW r \in 1 .. n, r =< q, answers[r] # r
          PROVE  \/ \E p \in 1 .. q - 1 : sent[p] > 1
                 \/ \E p \in 1 .. q : answers'[p] > p
      <3>1. CASE \E p \in 1 .. r - 1 : sent[p] > 1
        BY <1>0, <2>1, <3>1
      <3>2. CASE \E p \in 1 .. r : answers[p] > p
        <4>1. PICK p \in 1 .. r : answers[p] > p
          BY <3>2
        <4>2. p \in 1 .. q /\ answers'[p] = answers[p]
          BY <1>0, <1>2, <2>1
        <4> QED BY <4>1, <4>2
      <3> QED BY <2>1, <3>1, <3>2 DEF MatchingAnswer, n
    <2>2. CASE q =< n
      <3>1. q \in 1 .. n /\ q =< q /\ answers[q] # q
        BY <1>0, <1>2, <2>2
      <3> QED BY <2>1, <3>1
    <2>3. CASE ~(q =< n)
      <3>1. q = n + 1 /\ k # q /\ answers'[q] = k
        BY <1>0, <1>2, <2>3
      <3>2. CASE k > q
        BY <1>0, <3>1, <3>2
      <3>3. CASE k =< n
        <4>1. k \in 1 .. n /\ k \in 1 .. q - 1 /\ k =< q
          BY <1>0, <1>1, <3>1, <3>3 DEF Questions
        <4>2. CASE answers[k] = k
          BY <1>3, <4>1, <4>2
        <4> QED BY <2>1, <4>1, <4>2
      <3>4. k \in Int /\ n \in Int
        BY <1>0, <1>1 DEF Questions
      <3>5. k > q \/ k =< n
        BY <3>1, <3>4
      <3> QED BY <3>2, <3>3, <3>5
    <2> QED BY <1>0, <2>2, <2>3
  <1> QED BY <1>4, <1>6, <1>7

\* A reply is submitted, for a question that was asked or not.
LEMMA PauseSubmit ==
  ASSUME PauseInv, NEW q \in Questions, Submit(q)
  PROVE  PauseInv'
  <1> USE RepliesAssumption DEF PauseInv, Submit
  <1> DEFINE m == Len(replies)
  <1>0. /\ m \in Nat /\ replies \in Seq(Questions) /\ answers \in Seq(Questions)
        /\ \A i \in 1 .. Len(answers) : answers[i] \in Questions
        /\ \A i \in 1 .. m : replies[i] \in Questions
    BY DEF PauseTypeOK
  <1>1. /\ sent' \in [Questions -> 0 .. MaxRepeats]
        /\ sent'[q] = sent[q] + 1
        /\ \A p \in Questions : p # q => sent'[p] = sent[p]
        /\ \A p \in Questions : sent[p] \in Nat /\ sent'[p] \in Nat /\ sent'[p] >= sent[p]
    BY DEF PauseTypeOK
  <1>2. \/ replies' = replies
        \/ /\ replies' \in Seq(Questions) /\ Len(replies') = m + 1
           /\ \A i \in 1 .. m + 1 : replies'[i] = IF i =< m THEN replies[i] ELSE q
    BY <1>0, AppendFacts
  <1> HIDE DEF m
  <1>3. PauseTypeOK' /\ CountInv'
    BY <1>0, <1>1, <1>2 DEF PauseTypeOK, CountInv
  <1>5. SubmittedInv'
    <2>0. /\ \A i \in 1 .. Len(answers) :
                /\ sent[answers[i]] \in Nat /\ sent'[answers[i]] \in Nat
                /\ sent'[answers[i]] >= sent[answers[i]]
          /\ \A i \in 1 .. m :
                /\ sent[replies[i]] \in Nat /\ sent'[replies[i]] \in Nat
                /\ sent'[replies[i]] >= sent[replies[i]]
      BY <1>0, <1>1
    <2>1. \A i \in 1 .. Len(answers) : sent'[answers[i]] >= 1
      BY <2>0 DEF SubmittedInv
    <2>2. \A i \in 1 .. Len(answers), j \in 1 .. m :
             answers[i] = replies[j] => sent'[answers[i]] > 1
      BY <2>0 DEF SubmittedInv, m
    <2>3. \A i, j \in 1 .. m : i < j /\ replies[i] = replies[j] => sent'[replies[i]] > 1
      BY <2>0 DEF SubmittedInv, m
    <2>4. \A i \in 1 .. m : sent'[replies[i]] >= 1
      BY <2>0 DEF SubmittedInv, m
    <2>5. CASE replies' = replies
      BY <2>1, <2>2, <2>3, <2>4, <2>5 DEF SubmittedInv, m
    <2>6. CASE /\ replies' \in Seq(Questions) /\ Len(replies') = m + 1
               /\ \A i \in 1 .. m + 1 : replies'[i] = IF i =< m THEN replies[i] ELSE q
      <3>1. sent'[q] >= 1
        BY <1>1
      <3>2. \A i \in 1 .. Len(answers) : answers[i] = q => sent'[q] > 1
        BY <1>0, <1>1 DEF SubmittedInv
      <3>3. \A i \in 1 .. m : replies[i] = q => sent'[q] > 1
        BY <1>0, <1>1 DEF SubmittedInv, m
      <3>4. \A i \in 1 .. m + 1 : sent'[replies'[i]] >= 1
        BY <1>0, <2>4, <2>6, <3>1
      <3>5. \A i \in 1 .. Len(answers), j \in 1 .. m + 1 :
               answers[i] = replies'[j] => sent'[answers[i]] > 1
        BY <1>0, <2>2, <2>6, <3>2
      <3>6. \A i, j \in 1 .. m + 1 :
               i < j /\ replies'[i] = replies'[j] => sent'[replies'[i]] > 1
        BY <1>0, <2>3, <2>6, <3>3
      <3> QED BY <2>1, <2>6, <3>4, <3>5, <3>6 DEF SubmittedInv
    <2> QED BY <1>2, <2>5, <2>6
  <1>6. MatchingAnswer'
    <2> SUFFICES ASSUME NEW i \in 1 .. Len(answers), answers[i] # i
                 PROVE  \/ \E p \in 1 .. i - 1 : sent'[p] > 1
                        \/ \E p \in 1 .. i : answers[p] > p
      BY DEF MatchingAnswer
    <2>1. CASE \E p \in 1 .. i - 1 : sent[p] > 1
      <3>1. PICK p \in 1 .. i - 1 : sent[p] > 1
        BY <2>1
      <3>2. p \in Questions
        BY <1>0, <3>1 DEF PauseTypeOK, CountInv, Questions
      <3> QED BY <1>1, <3>1, <3>2
    <2> QED BY <2>1 DEF MatchingAnswer
  <1> QED BY <1>3, <1>5, <1>6

\* PauseInv holds in every state of the pause.
THEOREM PauseInvariant == PauseSpec => []PauseInv
  <1> USE RepliesAssumption
  <1>1. PauseInit => PauseInv
    BY DEF PauseInit, PauseInv, PauseTypeOK, CountInv, SubmittedInv, MatchingAnswer
  <1>2. PauseInv /\ [PauseNext]_pauseVars => PauseInv'
    <2> SUFFICES ASSUME PauseInv, [PauseNext]_pauseVars
                 PROVE  PauseInv'
      OBVIOUS
    <2>1. CASE Begin \/ Handle \/ StreamEnds \/ Interrupt \/ Leave \/ TaskEnds
      <3>1. UNCHANGED <<asked, replies, answers, sent>>
        BY <2>1 DEF Begin, Handle, StreamEnds, Interrupt, Leave, TaskEnds
      <3>2. /\ runner' \in {"created", "running", "closing", "ended"}
            /\ task' \in {"none", "working", "asking", "done"}
            /\ task' = "asking" <=> task = "asking"
        BY <2>1 DEF Begin, Handle, StreamEnds, Interrupt, Leave, TaskEnds, PauseInv, PauseTypeOK
      <3> QED BY <3>1, <3>2, PauseAside
    <2>2. CASE UNCHANGED pauseVars
      BY <2>2, PauseAside DEF pauseVars, PauseInv, PauseTypeOK
    <2> QED BY <2>1, <2>2, PauseAsk, PauseResume, PauseSubmit DEF PauseNext
  <1> QED BY <1>1, <1>2, PTL DEF PauseSpec

\* However many questions are asked and whenever and however often replies come,
\* a question gets a reply meant for another one only after an earlier question
\* was submitted twice, or after a reply that preceded its question was taken.
THEOREM PauseMatchingAnswer == PauseSpec => []MatchingAnswer
  <1>1. PauseInv => MatchingAnswer
    BY DEF PauseInv
  <1> QED BY <1>1, PauseInvariant, PTL

=============================================================================
