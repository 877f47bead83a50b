------------------------- MODULE PartnerTurnsProofs -------------------------
(***************************************************************************)
(* Proofs about PartnerTurns, for any number of keys, sockets, messages,   *)
(* stops and restarts.                                                     *)
(*                                                                         *)
(* Two invariants are independent of each other.  LineInv follows a        *)
(* message from the inbox to the file: the messages of one line are in     *)
(* order in the inbox, among the tasks that have not begun and in the      *)
(* queue of the lock, and none begins before an earlier one.  WatchInv     *)
(* relates what a socket was given to the turn it watches.                 *)
(***************************************************************************)
EXTENDS PartnerTurns, SequenceTheorems, TLAPS

Increasing(s) == \A p, q \in DOMAIN s : p < q => s[p] < s[q]

\* a came before b and will take the same lock.
Ahead(a, b) ==
    /\ a < b
    /\ turn[a].key = turn[b].key
    /\ turn[a].inst = turn[b].inst \/ turn[b].key \in WebKeys

Begun(m) == turn[m].at \in {"lock", "run", "over"}
Locks(m) == turn[m].at \in {"lock", "run"}

Known ==
    \A m \in Messages :
        /\ turn[m].at # "none" <=> m =< count
        /\ turn[m].at # "none" => turn[m].key \in Keys /\ turn[m].inst \in Instances
        /\ turn[m].at = "inbox" => turn[m].key \in ImKeys

InboxInv ==
    \A i \in Instances :
        /\ Increasing(inbox[i])
        /\ \A m \in Messages :
             m \in Members(inbox[i]) <=> turn[m].at = "inbox" /\ turn[m].inst = i

ReadyInv ==
    /\ \A m \in Messages : m \in Members(ready) <=> turn[m].at = "new"
    /\ \A p, q \in DOMAIN ready :
         p < q => ready[p] # ready[q] /\ ~Ahead(ready[q], ready[p])

LockInv ==
    /\ \A i \in Instances, k \in Keys :
         /\ Increasing(lock[i][k])
         /\ \A m \in Messages :
              m \in Members(lock[i][k]) <=> Locks(m) /\ turn[m].inst = i /\ turn[m].key = k
    /\ \A m \in Messages : turn[m].at = "run" => HasLock(m)

BegunInv ==
    \A a, b \in Messages :
        Ahead(a, b) => /\ turn[b].at = "new" => turn[a].at # "inbox"
                       /\ Begun(b) => Begun(a)

LogInv ==
    \A p \in DOMAIN log :
        /\ turn[log[p]].at = "over"
        /\ \A m \in Messages :
             SameLine(log[p], m) =>
                 /\ Locks(m) => log[p] < m
                 /\ turn[m].at = "run" => log[p] \in turn[m].read

LineInv ==
    /\ Known
    /\ InboxInv
    /\ ReadyInv
    /\ LockInv
    /\ BegunInv
    /\ LogInv
    /\ TurnsFollow

\* A turn that can be watched.
Watchable(m) == m # 0 => turn[m].at # "none" /\ turn[m].key \in WebKeys

Counted ==
    \A m \in Messages :
        /\ turn[m].at # "none" <=> m =< count
        /\ turn[m].at # "over" => turn[m].end = "none"

References ==
    /\ \A i \in Instances, k \in WebKeys : Watchable(live[i][k])
    /\ \A w \in Sockets : Watchable(attach[w]) /\ Watchable(watch[w].turn)

Ongoing ==
    \A w \in Sockets :
        watch[w].turn # 0 => (watch[w].on <=> turn[watch[w].turn].end = "none")

WatchInv == Counted /\ References /\ Ongoing /\ SocketsSeeAll

----------------------------------------------------------------------------
(* Sequences *)

\* Appending adds one element at the end and moves none.
LEMMA AppendFacts ==
  ASSUME NEW S, NEW q \in Seq(S), NEW e \in S
  PROVE  /\ Append(q, e) \in Seq(S)
         /\ Len(Append(q, e)) = Len(q) + 1
         /\ \A i \in 1 .. Len(q) : Append(q, e)[i] = q[i]
         /\ Append(q, e)[Len(q) + 1] = e
  BY AppendProperties

LEMMA TailFacts ==
  ASSUME NEW S, NEW q \in Seq(S), q # <<>>
  PROVE  /\ Head(q) \in S
         /\ Head(q) = q[1]
         /\ Len(q) \in Nat \ {0}
         /\ Tail(q) \in Seq(S)
         /\ Len(Tail(q)) = Len(q) - 1
         /\ \A i \in 1 .. Len(q) - 1 : Tail(q)[i] = q[i + 1]
  BY HeadTailProperties, EmptySeq

LEMMA WithoutFacts ==
  ASSUME NEW S, NEW q \in Seq(S), NEW n \in 1 .. Len(q)
  PROVE  /\ Without(q, n) \in Seq(S)
         /\ Len(Without(q, n)) = Len(q) - 1
         /\ \A i \in 1 .. Len(q) - 1 : Without(q, n)[i] = IF i < n THEN q[i] ELSE q[i + 1]
<1> DEFINE w == [j \in 1 .. Len(q) - 1 |-> IF j < n THEN q[j] ELSE q[j + 1]]
<1>1. \A j \in 1 .. Len(q) - 1 : (IF j < n THEN q[j] ELSE q[j + 1]) \in S
  OBVIOUS
<1>2. Len(q) - 1 \in Nat
  OBVIOUS
<1>3. w \in Seq(S)
  BY <1>1, <1>2
<1>4. Len(w) = Len(q) - 1
  BY <1>2, <1>3
<1> QED
  BY <1>3, <1>4 DEF Without

\* An increasing sequence without one of its elements.
LEMMA WithoutIncreasing ==
  ASSUME NEW q \in Seq(Nat), NEW n \in 1 .. Len(q), Increasing(q)
  PROVE  /\ Increasing(Without(q, n))
         /\ Members(Without(q, n)) = Members(q) \ {q[n]}
         /\ n # 1 => Without(q, n) # <<>> /\ Head(Without(q, n)) = Head(q)
<1> DEFINE w == Without(q, n)
<1>1. /\ w \in Seq(Nat)
      /\ Len(w) = Len(q) - 1
      /\ \A i \in 1 .. Len(q) - 1 : w[i] = IF i < n THEN q[i] ELSE q[i + 1]
  BY WithoutFacts
<1>2. DOMAIN w = 1 .. Len(q) - 1 /\ DOMAIN q = 1 .. Len(q) /\ Len(q) \in Nat
  BY <1>1
<1> HIDE DEF w
<1>3. Increasing(w)
  <2> SUFFICES ASSUME NEW a \in DOMAIN w, NEW b \in DOMAIN w, a < b PROVE w[a] < w[b]
    BY DEF Increasing
  <2> DEFINE fa == IF a < n THEN a ELSE a + 1
             fb == IF b < n THEN b ELSE b + 1
  <2>1. w[a] = q[fa] /\ w[b] = q[fb]
    BY <1>1, <1>2
  <2>2. fa \in DOMAIN q /\ fb \in DOMAIN q /\ fa < fb
    <3>1. a \in 1 .. Len(q) - 1 /\ b \in 1 .. Len(q) - 1 /\ Len(q) \in Nat
      BY <1>2
    <3>2. fa \in 1 .. Len(q) /\ fb \in 1 .. Len(q)
      BY <3>1
    <3>3. fa < fb
      BY <3>1
    <3> QED
      BY <1>2, <3>2, <3>3
  <2> QED
    BY <2>1, <2>2 DEF Increasing
<1>4. \A i \in DOMAIN w : w[i] \in Members(q) \ {q[n]}
  <2> SUFFICES ASSUME NEW i \in DOMAIN w PROVE w[i] \in Members(q) \ {q[n]}
    OBVIOUS
  <2> DEFINE fi == IF i < n THEN i ELSE i + 1
  <2>0. i \in 1 .. Len(q) - 1 /\ n \in 1 .. Len(q)
    BY <1>2
  <2>1. w[i] = q[fi] /\ fi \in DOMAIN q /\ fi # n
    <3>1. w[i] = IF i < n THEN q[i] ELSE q[i + 1]
      BY <1>1, <2>0
    <3>2. w[i] = q[fi]
      BY <3>1
    <3>3. fi \in 1 .. Len(q) /\ fi # n
      BY <1>2, <2>0
    <3> QED
      BY <1>2, <3>2, <3>3
  <2>2. q[fi] # q[n]
    <3>1. q[fi] \in Nat /\ q[n] \in Nat
      BY <1>2, <2>1
    <3>2. fi < n \/ n < fi
      BY <1>2, <2>1
    <3>3. q[fi] < q[n] \/ q[n] < q[fi]
      BY <1>2, <2>1, <3>2 DEF Increasing
    <3> QED
      BY <3>1, <3>3
  <2> QED
    BY <2>1, <2>2 DEF Members
<1>5. \A x \in Members(q) \ {q[n]} : x \in Members(w)
  <2> SUFFICES ASSUME NEW j \in DOMAIN q, j # n PROVE q[j] \in Members(w)
    BY DEF Members
  <2> DEFINE g == IF j < n THEN j ELSE j - 1
  <2>0. j \in 1 .. Len(q) /\ n \in 1 .. Len(q)
    BY <1>2
  <2>1. g \in DOMAIN w /\ w[g] = q[j]
    <3>1. CASE j < n
      <4>1. g = j /\ j \in 1 .. Len(q) - 1
        BY <1>2, <2>0, <3>1
      <4>2. w[j] = q[j]
        BY <1>1, <3>1, <4>1
      <4> QED
        BY <1>2, <4>1, <4>2
    <3>2. CASE ~(j < n)
      <4>1. PICK h \in 1 .. Len(q) - 1 : j = h + 1 /\ ~(h < n)
        <5>1. j - 1 \in 1 .. Len(q) - 1 /\ j = (j - 1) + 1 /\ ~(j - 1 < n)
          BY <1>2, <2>0, <3>2
        <5> QED
          BY <5>1
      <4>2. g = h
        BY <1>2, <2>0, <3>2, <4>1
      <4>3. w[h] = q[h + 1]
        BY <1>1, <4>1
      <4> QED
        BY <1>2, <4>1, <4>2, <4>3
    <3> QED
      BY <3>1, <3>2
  <2> QED
    BY <2>1 DEF Members
<1>6. n # 1 => w # <<>> /\ Head(w) = Head(q)
  BY <1>1, <1>2, EmptySeq
<1> QED
  BY <1>3, <1>4, <1>5, <1>6 DEF Members, w

LEMMA AppendIncreasing ==
  ASSUME NEW q \in Seq(Nat), NEW m \in Nat, Increasing(q), \A x \in Members(q) : x < m
  PROVE  /\ Increasing(Append(q, m))
         /\ Members(Append(q, m)) = Members(q) \cup {m}
         /\ q # <<>> => Head(Append(q, m)) = Head(q)
<1> DEFINE a == Append(q, m)
<1>1. /\ a \in Seq(Nat)
      /\ Len(a) = Len(q) + 1
      /\ \A i \in 1 .. Len(q) : a[i] = q[i]
      /\ a[Len(q) + 1] = m
  BY AppendFacts
<1>2. DOMAIN a = 1 .. Len(q) + 1 /\ DOMAIN q = 1 .. Len(q) /\ Len(q) \in Nat
  BY <1>1
<1> HIDE DEF a
<1>3. Increasing(a)
  <2> SUFFICES ASSUME NEW i \in DOMAIN a, NEW j \in DOMAIN a, i < j PROVE a[i] < a[j]
    BY DEF Increasing
  <2>1. i \in DOMAIN q /\ a[i] = q[i]
    BY <1>1, <1>2
  <2>2. CASE j = Len(q) + 1
    BY <1>1, <2>1, <2>2 DEF Members
  <2>3. CASE j # Len(q) + 1
    <3>1. j \in DOMAIN q
      BY <1>2, <2>3
    <3>2. a[j] = q[j] /\ q[i] < q[j]
      BY <1>1, <1>2, <2>1, <3>1 DEF Increasing
    <3> QED
      BY <2>1, <3>2
  <2> QED
    BY <2>2, <2>3
<1>4. Members(a) = Members(q) \cup {m}
  <2>1. \A i \in DOMAIN a : a[i] \in Members(q) \cup {m}
    <3> SUFFICES ASSUME NEW i \in DOMAIN a PROVE a[i] \in Members(q) \cup {m}
      OBVIOUS
    <3>1. CASE i \in DOMAIN q
      BY <1>1, <1>2, <3>1 DEF Members
    <3>2. CASE i \notin DOMAIN q
      <4>1. i = Len(q) + 1
        BY <1>2, <3>2
      <4> QED
        BY <1>1, <4>1
    <3> QED
      BY <3>1, <3>2
  <2>2. \A i \in DOMAIN q : q[i] \in Members(a)
    BY <1>1, <1>2 DEF Members
  <2>3. m \in Members(a)
    BY <1>1, <1>2 DEF Members
  <2> QED
    BY <2>1, <2>2, <2>3 DEF Members
<1>5. q # <<>> => Head(a) = Head(q)
  BY <1>1, <1>2, EmptySeq
<1> QED
  BY <1>3, <1>4, <1>5 DEF a

----------------------------------------------------------------------------
(* What a step does to a message and to its line *)

\* Nothing moves.
Quiet ==
    /\ \A m \in Messages : /\ turn'[m].at = turn[m].at
                           /\ turn'[m].key = turn[m].key
                           /\ turn'[m].inst = turn[m].inst
                           /\ turn'[m].read = turn[m].read
    /\ UNCHANGED <<inbox, ready, lock, log, count>>

\* Message m, and no other, is at another place.
Moves(m, at) ==
    /\ \A n \in Messages : n # m => turn'[n] = turn[n]
    /\ turn'[m].at = at
    /\ turn'[m].key = turn[m].key

\* m takes its first step: it is done at once, or stands in the queue of its lock.
Begins(m) ==
    /\ ready # <<>> /\ m = Head(ready) /\ ready' = Tail(ready)
    /\ turn'[m].inst \in Instances
    /\ turn[m].key \in ImKeys => turn'[m].inst = turn[m].inst
    /\ \/ /\ Moves(m, "over") /\ lock' = lock /\ log' \in {log, <<>>}
          /\ turn'[m].end \in {turn[m].end, "error"} \/ lock[turn'[m].inst][turn[m].key] = <<>>
       \/ \E at \in {"lock", "run"} :
            LET queue == lock[turn'[m].inst][turn[m].key]
            IN /\ Moves(m, at)
               /\ lock' = [lock EXCEPT ![turn'[m].inst][turn[m].key] = Append(queue, m)]
               /\ log' = log
               /\ at = "run" => queue = <<>> /\ turn'[m].read = Members(log)
    /\ UNCHANGED <<inbox, count>>

\* m, which has the lock, reads the history.
Reads(m) ==
    /\ Locks(m) /\ HasLock(m)
    /\ Moves(m, "run")
    /\ turn'[m].inst = turn[m].inst
    /\ turn'[m].read = Members(log)
    /\ UNCHANGED <<inbox, ready, lock, log, count>>

\* m leaves the queue of its lock; a turn may leave its exchange in the file.
Finishes(m) ==
    /\ Locks(m)
    /\ Moves(m, "over")
    /\ turn'[m].inst = turn[m].inst
    /\ turn'[m].end = "stopped" \/ HasLock(m)
    /\ \E n \in DOMAIN Queue(m) : Queue(m)[n] = m /\ Locked(turn[m], Without(Queue(m), n))
    /\ \/ log' \in {log, <<>>}
       \/ turn[m].at = "run" /\ log' = Append(log, m) /\ turn'[m].read = turn[m].read
    /\ UNCHANGED <<inbox, ready, count>>

----------------------------------------------------------------------------
(* Types *)

LEMMA TurnFields ==
  ASSUME NEW t \in Turn
  PROVE  /\ t.at \in Stages
         /\ t.key \in Keys \cup {"none"}
         /\ t.inst \in 0 .. MaxInstances
         /\ t.read \in SUBSET Messages
         /\ t.frames \in Nat
         /\ t.end \in Ends
  BY DEF Turn

LEMMA PlacedTurn ==
  ASSUME NEW t \in Turn, NEW at \in Stages, NEW end \in Ends
  PROVE  /\ [t EXCEPT !.at = at] \in Turn
         /\ [t EXCEPT !.at = at, !.end = end] \in Turn
         /\ [t EXCEPT !.at = at].at = at
         /\ [t EXCEPT !.at = at].key = t.key
         /\ [t EXCEPT !.at = at].inst = t.inst
         /\ [t EXCEPT !.at = at].read = t.read
         /\ [t EXCEPT !.at = at].frames = t.frames
         /\ [t EXCEPT !.at = at].end = t.end
         /\ [t EXCEPT !.at = at, !.end = end].at = at
         /\ [t EXCEPT !.at = at, !.end = end].key = t.key
         /\ [t EXCEPT !.at = at, !.end = end].inst = t.inst
         /\ [t EXCEPT !.at = at, !.end = end].read = t.read
         /\ [t EXCEPT !.at = at, !.end = end].frames = t.frames
         /\ [t EXCEPT !.at = at, !.end = end].end = end
  BY DEF Turn

LEMMA ChangedTurn ==
  ASSUME NEW t \in Turn, NEW inst \in 0 .. MaxInstances, NEW read \in SUBSET Messages
  PROVE  /\ [t EXCEPT !.inst = inst] \in Turn
         /\ [t EXCEPT !.inst = inst].key = t.key
         /\ [t EXCEPT !.inst = inst].inst = inst
         /\ [t EXCEPT !.inst = inst].frames = t.frames
         /\ [t EXCEPT !.inst = inst].end = t.end
         /\ [t EXCEPT !.read = read] \in Turn
         /\ [t EXCEPT !.read = read].at = t.at
         /\ [t EXCEPT !.read = read].key = t.key
         /\ [t EXCEPT !.read = read].inst = t.inst
         /\ [t EXCEPT !.read = read].read = read
         /\ [t EXCEPT !.read = read].frames = t.frames
         /\ [t EXCEPT !.read = read].end = t.end
         /\ [t EXCEPT !.frames = @ + 1] \in Turn
         /\ [t EXCEPT !.frames = @ + 1].at = t.at
         /\ [t EXCEPT !.frames = @ + 1].key = t.key
         /\ [t EXCEPT !.frames = @ + 1].inst = t.inst
         /\ [t EXCEPT !.frames = @ + 1].read = t.read
         /\ [t EXCEPT !.frames = @ + 1].frames = t.frames + 1
         /\ [t EXCEPT !.frames = @ + 1].end = t.end
  BY DEF Turn

LEMMA RunTurn ==
  ASSUME NEW t \in Turn, NEW read \in SUBSET Messages
  PROVE  /\ [t EXCEPT !.at = "run", !.read = read] \in Turn
         /\ [t EXCEPT !.at = "run", !.read = read].at = "run"
         /\ [t EXCEPT !.at = "run", !.read = read].key = t.key
         /\ [t EXCEPT !.at = "run", !.read = read].inst = t.inst
         /\ [t EXCEPT !.at = "run", !.read = read].read = read
         /\ [t EXCEPT !.at = "run", !.read = read].frames = t.frames
         /\ [t EXCEPT !.at = "run", !.read = read].end = t.end
  BY DEF Turn, Stages

LEMMA NewTurn ==
  ASSUME NEW at \in Stages, NEW k \in Keys, NEW i \in Instances
  PROVE  /\ New(at, k, i) \in Turn
         /\ New(at, k, i).at = at
         /\ New(at, k, i).key = k
         /\ New(at, k, i).inst = i
         /\ New(at, k, i).frames = 0
         /\ New(at, k, i).end = "none"
<1>1. NoTurn \in Turn /\ NoTurn.frames = 0 /\ NoTurn.end = "none"
  BY PartnerAssumption DEF NoTurn, Turn, Stages, Ends
<1>2. i \in 0 .. MaxInstances
  BY PartnerAssumption DEF Instances
<1>3. \A t \in Turn : /\ [t EXCEPT !.at = at, !.key = k, !.inst = i] \in Turn
                      /\ [t EXCEPT !.at = at, !.key = k, !.inst = i].at = at
                      /\ [t EXCEPT !.at = at, !.key = k, !.inst = i].key = k
                      /\ [t EXCEPT !.at = at, !.key = k, !.inst = i].inst = i
                      /\ [t EXCEPT !.at = at, !.key = k, !.inst = i].frames = t.frames
                      /\ [t EXCEPT !.at = at, !.key = k, !.inst = i].end = t.end
  BY <1>2 DEF Turn
<1> QED
  BY <1>1, <1>3 DEF New

LEMMA WatchFields ==
  ASSUME NEW v \in Watch
  PROVE  v.turn \in 0 .. MaxMessages /\ v.on \in BOOLEAN /\ v.got \in Seq(Nat) /\ v.end \in Ends
  BY DEF Watch

LEMMA MembersFacts ==
  ASSUME NEW S, NEW q \in Seq(S)
  PROVE  Members(q) \in SUBSET S
  BY DEF Members

\* The end of turn m is passed on to its sockets.
Told(m) ==
    /\ turn'[m].end # "none"
    /\ \A w \in Sockets :
         watch'[w] = IF Web(m) /\ watch[w].turn = m /\ watch[w].on
                     THEN [watch[w] EXCEPT !.on = FALSE, !.end = turn'[m].end]
                     ELSE watch[w]

LEMMA TypeOfLock ==
  ASSUME TypeOK, NEW i \in Instances, NEW k \in Keys, NEW q \in Seq(Messages),
         lock' = [lock EXCEPT ![i][k] = q]
  PROVE  /\ lock' \in [Instances -> [Keys -> Seq(Messages)]]
         /\ lock[i][k] \in Seq(Messages)
<1>1. lock \in [Instances -> [Keys -> Seq(Messages)]]
  BY DEF TypeOK
<1>2. lock[i] \in [Keys -> Seq(Messages)]
  BY <1>1
<1>3. [lock[i] EXCEPT ![k] = q] \in [Keys -> Seq(Messages)]
  BY <1>2
<1> QED
  BY <1>1, <1>2, <1>3

LEMMA OverEffect ==
  ASSUME TypeOK, NEW m \in Messages, NEW t \in Turn, NEW end \in Ends \ {"none"},
         t.key = turn[m].key, Over(m, t, end)
  PROVE  /\ turn' \in [Messages -> Turn]
         /\ outbox' \in [Instances -> Seq(Messages)]
         /\ watch' \in [Sockets -> Watch]
         /\ Moves(m, "over")
         /\ turn'[m].inst = t.inst
         /\ turn'[m].read = t.read
         /\ turn'[m].frames = t.frames
         /\ turn'[m].end = end
         /\ Told(m)
<1> DEFINE r == [t EXCEPT !.at = "over", !.end = end]
<1>1. /\ r \in Turn /\ r.at = "over" /\ r.key = t.key /\ r.inst = t.inst
      /\ r.read = t.read /\ r.frames = t.frames /\ r.end = end
  BY DEF Turn, Stages
<1>2. turn' = [turn EXCEPT ![m] = r] /\ turn \in [Messages -> Turn]
  BY DEF Over, TypeOK
<1> HIDE DEF r
<1>3. turn' \in [Messages -> Turn] /\ turn'[m] = r /\ \A n \in Messages : n # m => turn'[n] = turn[n]
  BY <1>1, <1>2
<1>4. outbox' \in [Instances -> Seq(Messages)]
  <2>1. outbox \in [Instances -> Seq(Messages)]
    BY DEF TypeOK
  <2>2. CASE outbox' = outbox
    BY <2>1, <2>2
  <2>3. CASE outbox' = [outbox EXCEPT ![t.inst] = Append(@, m)]
    <3>1. \A i \in Instances : Append(outbox[i], m) \in Seq(Messages)
      BY <2>1, AppendFacts
    <3> QED
      BY <2>1, <2>3, <3>1
  <2> QED
    BY <2>2, <2>3 DEF Over
<1>5. \A w \in Sockets : watch[w] \in Watch
  BY DEF TypeOK
<1>6. Told(m)
  <2>1. watch \in [Sockets -> Watch] /\ turn'[m].end = end /\ end # "none"
    BY <1>1, <1>3 DEF TypeOK
  <2>2. CASE Web(m)
    BY <2>1, <2>2 DEF Over, Told, Finished
  <2>3. CASE ~Web(m)
    BY <2>1, <2>3 DEF Over, Told
  <2> QED
    BY <2>2, <2>3
<1>7. \A v \in Watch : [v EXCEPT !.on = FALSE, !.end = end] \in Watch
  BY DEF Watch
<1>8. watch' \in [Sockets -> Watch]
  <2>1. watch \in [Sockets -> Watch]
    BY DEF TypeOK
  <2>2. CASE Web(m)
    BY <1>5, <1>7, <2>1, <2>2 DEF Over, Finished
  <2>3. CASE ~Web(m)
    BY <2>1, <2>3 DEF Over
  <2> QED
    BY <2>2, <2>3
<1>9. Moves(m, "over")
  BY <1>1, <1>3 DEF Moves
<1> QED
  BY <1>1, <1>3, <1>4, <1>6, <1>8, <1>9

LEMMA EnterEffect ==
  ASSUME TypeOK, NEW m \in Messages, NEW t \in Turn, NEW q \in Seq(Messages), q # <<>>,
         t.key = turn[m].key, t.key \in Keys, t.inst \in Instances, Enter(m, t, q)
  PROVE  /\ turn' \in [Messages -> Turn]
         /\ outbox' \in [Instances -> Seq(Messages)]
         /\ watch' \in [Sockets -> Watch]
         /\ lock' \in [Instances -> [Keys -> Seq(Messages)]]
         /\ log' \in Seq(Messages)
         /\ turn'[m].inst = t.inst
         /\ turn'[m].frames = t.frames
         /\ \/ /\ Moves(m, "run")
               /\ turn'[m].read = Members(log)
               /\ turn'[m].end = t.end
               /\ lock' = [lock EXCEPT ![t.inst][t.key] = q]
               /\ UNCHANGED <<log, watch>>
            \/ /\ Moves(m, "over")
               /\ lock' = [lock EXCEPT ![t.inst][t.key] = Tail(q)]
               /\ log' \in {log, <<>>}
               /\ Told(m)
<1>1. CASE /\ turn' = [turn EXCEPT ![m] = [t EXCEPT !.at = "run", !.read = Members(log)]]
           /\ Locked(t, q)
           /\ UNCHANGED <<outbox, log, watch>>
  <2> DEFINE r == [t EXCEPT !.at = "run", !.read = Members(log)]
  <2>1. /\ r \in Turn /\ r.at = "run" /\ r.key = t.key /\ r.inst = t.inst
        /\ r.read = Members(log) /\ r.frames = t.frames /\ r.end = t.end
    BY RunTurn, MembersFacts DEF TypeOK
  <2>2. turn' = [turn EXCEPT ![m] = r] /\ turn \in [Messages -> Turn]
    BY <1>1 DEF TypeOK
  <2> HIDE DEF r
  <2>3. turn' \in [Messages -> Turn] /\ turn'[m] = r /\ \A n \in Messages : n # m => turn'[n] = turn[n]
    BY <2>1, <2>2
  <2>4. lock' = [lock EXCEPT ![t.inst][t.key] = q] /\ lock' \in [Instances -> [Keys -> Seq(Messages)]]
    BY <1>1, TypeOfLock DEF Locked
  <2> QED
    BY <1>1, <2>1, <2>3, <2>4 DEF Moves, TypeOK
<1>2. ASSUME NEW end \in {"content", "error"},
             \E clears \in BOOLEAN : log' = IF clears THEN <<>> ELSE log,
             Over(m, t, end), Locked(t, Tail(q))
      PROVE  /\ turn' \in [Messages -> Turn]
             /\ outbox' \in [Instances -> Seq(Messages)]
             /\ watch' \in [Sockets -> Watch]
             /\ lock' \in [Instances -> [Keys -> Seq(Messages)]]
             /\ log' \in Seq(Messages)
             /\ turn'[m].inst = t.inst
             /\ turn'[m].frames = t.frames
             /\ Moves(m, "over")
             /\ lock' = [lock EXCEPT ![t.inst][t.key] = Tail(q)]
             /\ log' \in {log, <<>>}
             /\ Told(m)
  <2>1. log' \in {log, <<>>} /\ log' \in Seq(Messages)
    BY <1>2, EmptySeq DEF TypeOK
  <2>2. Tail(q) \in Seq(Messages)
    BY TailFacts
  <2>3. /\ lock' = [lock EXCEPT ![t.inst][t.key] = Tail(q)]
        /\ lock' \in [Instances -> [Keys -> Seq(Messages)]]
    BY <1>2, <2>2, TypeOfLock DEF Locked
  <2>4. end \in Ends \ {"none"}
    BY DEF Ends
  <2> QED
    BY <1>2, <2>1, <2>3, <2>4, OverEffect
<1> QED
  BY <1>1, <1>2 DEF Enter

\* A step of task m as its sockets see it.
Shown(m) ==
    /\ turn[m].at \notin {"none", "over"}
    /\ turn'[m].frames = turn[m].frames
    /\ \/ turn'[m].end = turn[m].end /\ watch' = watch
       \/ turn'[m].at = "over" /\ Told(m)
    /\ UNCHANGED <<live, attach, count>>

LEMMA MessageNumbers == Messages \subseteq Nat /\ \A S : S \subseteq Messages => S \in SUBSET Nat
  BY PartnerAssumption DEF Messages

LEMMA LockTyped ==
  ASSUME TypeOK, NEW i \in Instances, NEW k \in Keys
  PROVE  lock[i][k] \in Seq(Messages) /\ lock[i][k] \in Seq(Nat)
<1>1. lock[i][k] \in Seq(Messages)
  BY DEF TypeOK
<1> QED
  BY <1>1, MessageNumbers

\* A message on its way has a line.
LEMMA LineOf ==
  ASSUME TypeOK, Known, NEW m \in Messages, turn[m].at # "none"
  PROVE  /\ turn[m] \in Turn
         /\ turn[m].key \in Keys
         /\ turn[m].inst \in Instances
         /\ Queue(m) = lock[turn[m].inst][turn[m].key]
         /\ Queue(m) \in Seq(Messages)
         /\ Queue(m) \in Seq(Nat)
<1>1. turn[m] \in Turn /\ turn[m].key \in Keys /\ turn[m].inst \in Instances
  BY DEF TypeOK, Known
<1> QED
  BY <1>1, LockTyped DEF Queue

\* The head of the queue is given up like any other place in it.
LEMMA HeadOfQueue ==
  ASSUME TypeOK, Known, NEW m \in Messages, turn[m].at # "none", HasLock(m)
  PROVE  /\ 1 \in DOMAIN Queue(m)
         /\ Queue(m)[1] = m
         /\ Tail(Queue(m)) = Without(Queue(m), 1)
         /\ Tail(Queue(m)) \in Seq(Messages)
<1> DEFINE q == Queue(m)
<1>1. q \in Seq(Messages) /\ q # <<>> /\ Head(q) = m
  BY LineOf DEF HasLock
<1> HIDE DEF q
<1>2. /\ Head(q) = q[1] /\ Len(q) \in Nat \ {0}
      /\ Tail(q) \in Seq(Messages) /\ Len(Tail(q)) = Len(q) - 1
      /\ \A i \in 1 .. Len(q) - 1 : Tail(q)[i] = q[i + 1]
  BY <1>1, TailFacts
<1>3. 1 \in 1 .. Len(q)
  BY <1>2
<1>4. /\ Without(q, 1) \in Seq(Messages) /\ Len(Without(q, 1)) = Len(q) - 1
      /\ \A i \in 1 .. Len(q) - 1 : Without(q, 1)[i] = IF i < 1 THEN q[i] ELSE q[i + 1]
  BY <1>1, <1>3, WithoutFacts
<1>5. \A i \in 1 .. Len(q) - 1 : Tail(q)[i] = Without(q, 1)[i]
  BY <1>2, <1>4
<1>6. Tail(q) = Without(q, 1)
  BY <1>2, <1>4, <1>5, SeqEqual
<1>7. DOMAIN q = 1 .. Len(q)
  BY <1>1
<1> QED
  BY <1>1, <1>2, <1>3, <1>6, <1>7 DEF q

LEMMA EmptyLock ==
  ASSUME TypeOK, NEW i \in Instances, NEW k \in Keys, lock[i][k] = <<>>
  PROVE  [lock EXCEPT ![i][k] = <<>>] = lock
  BY DEF TypeOK

LEMMA ResumeEffect ==
  ASSUME TypeOK, Known, NEW m \in Messages, Resume(m)
  PROVE  TypeOK' /\ Shown(m) /\ (Reads(m) \/ Finishes(m))
<1>1. turn[m].at = "lock" /\ HasLock(m) /\ Enter(m, turn[m], Queue(m))
  BY DEF Resume
<1>2. /\ turn[m] \in Turn /\ turn[m].key \in Keys /\ turn[m].inst \in Instances
      /\ Queue(m) \in Seq(Messages) /\ Queue(m) = lock[turn[m].inst][turn[m].key]
  BY <1>1, LineOf
<1>3. Queue(m) # <<>>
  BY <1>1 DEF HasLock
<1>4. UNCHANGED <<lifecycle, inbox, sent, count, cancelled, ready, live, attach>>
  BY DEF Resume
<1>5. /\ turn' \in [Messages -> Turn]
      /\ outbox' \in [Instances -> Seq(Messages)]
      /\ watch' \in [Sockets -> Watch]
      /\ lock' \in [Instances -> [Keys -> Seq(Messages)]]
      /\ log' \in Seq(Messages)
      /\ turn'[m].inst = turn[m].inst
      /\ turn'[m].frames = turn[m].frames
      /\ \/ /\ Moves(m, "run")
            /\ turn'[m].read = Members(log)
            /\ turn'[m].end = turn[m].end
            /\ lock' = [lock EXCEPT ![turn[m].inst][turn[m].key] = Queue(m)]
            /\ UNCHANGED <<log, watch>>
         \/ /\ Moves(m, "over")
            /\ lock' = [lock EXCEPT ![turn[m].inst][turn[m].key] = Tail(Queue(m))]
            /\ log' \in {log, <<>>}
            /\ Told(m)
  BY <1>1, <1>2, <1>3, EnterEffect
<1>6. TypeOK'
  BY <1>4, <1>5 DEF TypeOK, lifecycle
<1>7. CASE /\ Moves(m, "run")
           /\ turn'[m].read = Members(log)
           /\ turn'[m].end = turn[m].end
           /\ lock' = [lock EXCEPT ![turn[m].inst][turn[m].key] = Queue(m)]
           /\ UNCHANGED <<log, watch>>
  <2>1. lock' = lock
    BY <1>2, <1>7 DEF TypeOK
  <2> QED
    BY <1>1, <1>4, <1>5, <1>6, <1>7, <2>1 DEF Shown, Reads, Locks
<1>8. CASE /\ Moves(m, "over")
           /\ lock' = [lock EXCEPT ![turn[m].inst][turn[m].key] = Tail(Queue(m))]
           /\ log' \in {log, <<>>}
           /\ Told(m)
  <2>1. \E n \in DOMAIN Queue(m) : Queue(m)[n] = m /\ Locked(turn[m], Without(Queue(m), n))
    BY <1>1, <1>8, HeadOfQueue DEF Locked
  <2>2. turn'[m].at = "over"
    BY <1>8 DEF Moves
  <2>3. Shown(m)
    BY <1>1, <1>4, <1>5, <1>8, <2>2 DEF Shown
  <2>4. Finishes(m)
    BY <1>1, <1>4, <1>5, <1>8, <2>1 DEF Finishes, Locks
  <2> QED
    BY <1>6, <2>3, <2>4
<1> QED
  BY <1>5, <1>7, <1>8

\* Reply, AppendFails and CancelDelivered.
LEMMA OverStep ==
  ASSUME TypeOK, Known, NEW m \in Messages, Locks(m), NEW end \in Ends \ {"none"},
         Over(m, turn[m], end), NEW n \in DOMAIN Queue(m), Queue(m)[n] = m,
         Locked(turn[m], Without(Queue(m), n)), end = "stopped" \/ HasLock(m),
         log' = log \/ (turn[m].at = "run" /\ log' = Append(log, m)),
         UNCHANGED <<lifecycle, inbox, sent, count, cancelled, ready, live, attach>>
  PROVE  TypeOK' /\ Shown(m) /\ Finishes(m)
<1>1. turn[m].at \notin {"none", "over"}
  BY DEF Locks
<1>2. /\ turn[m] \in Turn /\ turn[m].key \in Keys /\ turn[m].inst \in Instances
      /\ Queue(m) \in Seq(Messages)
  BY <1>1, LineOf
<1>3. /\ turn' \in [Messages -> Turn]
      /\ outbox' \in [Instances -> Seq(Messages)]
      /\ watch' \in [Sockets -> Watch]
      /\ Moves(m, "over")
      /\ turn'[m].inst = turn[m].inst
      /\ turn'[m].read = turn[m].read
      /\ turn'[m].frames = turn[m].frames
      /\ turn'[m].end = end
      /\ Told(m)
  BY <1>2, OverEffect
<1>4. lock' \in [Instances -> [Keys -> Seq(Messages)]]
  <2>1. n \in 1 .. Len(Queue(m))
    BY <1>2
  <2>2. Without(Queue(m), n) \in Seq(Messages)
    BY <1>2, <2>1, WithoutFacts
  <2> QED
    BY <1>2, <2>2, TypeOfLock DEF Locked
<1>5. log' \in Seq(Messages)
  <2>1. log \in Seq(Messages)
    BY DEF TypeOK
  <2>2. Append(log, m) \in Seq(Messages)
    BY <2>1, AppendFacts
  <2> QED
    BY <2>1, <2>2
<1>6. TypeOK'
  BY <1>3, <1>4, <1>5 DEF TypeOK, lifecycle
<1>7. Shown(m)
  BY <1>1, <1>3 DEF Shown, Moves
<1>8. Finishes(m)
  BY <1>3 DEF Finishes
<1> QED
  BY <1>6, <1>7, <1>8

LEMMA ReplyEffect ==
  ASSUME TypeOK, LineInv, NEW m \in Messages, Reply(m) \/ AppendFails(m)
  PROVE  TypeOK' /\ Shown(m) /\ Finishes(m)
<1>1. turn[m].at = "run" /\ Locks(m)
  BY DEF Reply, AppendFails, Goes, Locks
<1>2. Known /\ HasLock(m)
  BY <1>1 DEF LineInv, LockInv
<1>3. 1 \in DOMAIN Queue(m) /\ Queue(m)[1] = m /\ Tail(Queue(m)) = Without(Queue(m), 1)
  BY <1>1, <1>2, HeadOfQueue
<1>4. PICK end \in Ends \ {"none"} : Over(m, turn[m], end)
  BY DEF Reply, AppendFails, Ends
<1>5. Locked(turn[m], Without(Queue(m), 1))
  BY <1>3 DEF Reply, AppendFails
<1>6. log' = log \/ (turn[m].at = "run" /\ log' = Append(log, m))
  BY <1>1 DEF Reply, AppendFails
<1>7. UNCHANGED <<lifecycle, inbox, sent, count, cancelled, ready, live, attach>>
  BY DEF Reply, AppendFails
<1> QED
  BY <1>1, <1>2, <1>3, <1>4, <1>5, <1>6, <1>7, OverStep

LEMMA CancelEffect ==
  ASSUME TypeOK, Known, NEW m \in Messages, CancelDelivered(m)
  PROVE  TypeOK' /\ Shown(m) /\ Finishes(m)
<1>1. Locks(m) /\ Over(m, turn[m], "stopped") /\ "stopped" \in Ends \ {"none"}
  BY DEF CancelDelivered, Locks, Ends
<1>2. PICK n \in DOMAIN Queue(m) : Queue(m)[n] = m /\ Locked(turn[m], Without(Queue(m), n))
  BY DEF CancelDelivered
<1>3. log' = log \/ (turn[m].at = "run" /\ log' = Append(log, m))
  BY DEF CancelDelivered
<1>4. UNCHANGED <<lifecycle, inbox, sent, count, cancelled, ready, live, attach>>
  BY DEF CancelDelivered
<1> QED
  BY <1>1, <1>2, <1>3, <1>4, OverStep

LEMMA RetryEffect ==
  ASSUME TypeOK, LineInv, NEW m \in Messages, Retry(m)
  PROVE  TypeOK' /\ Shown(m) /\ Reads(m)
<1> DEFINE r == [turn[m] EXCEPT !.read = Members(log)]
<1>1. turn[m].at = "run" /\ Locks(m) /\ HasLock(m)
  BY DEF Retry, Goes, Locks, LineInv, LockInv
<1>2. turn[m] \in Turn /\ Members(log) \in SUBSET Messages
  BY MembersFacts DEF TypeOK
<1>3. /\ r \in Turn /\ r.at = turn[m].at /\ r.key = turn[m].key /\ r.inst = turn[m].inst
      /\ r.read = Members(log) /\ r.frames = turn[m].frames /\ r.end = turn[m].end
  BY <1>2 DEF Turn
<1>4. turn' = [turn EXCEPT ![m] = r] /\ turn \in [Messages -> Turn]
  BY DEF Retry, TypeOK
<1> HIDE DEF r
<1>5. turn' \in [Messages -> Turn] /\ turn'[m] = r /\ \A n \in Messages : n # m => turn'[n] = turn[n]
  BY <1>3, <1>4
<1>6. UNCHANGED <<lifecycle, bus, count, cancelled, ready, lock, log, web>>
  BY DEF Retry
<1>7. TypeOK'
  BY <1>5, <1>6 DEF TypeOK, lifecycle, bus, web
<1>8. Moves(m, "run")
  BY <1>1, <1>3, <1>5 DEF Moves
<1> QED
  BY <1>1, <1>3, <1>5, <1>6, <1>7, <1>8 DEF Shown, Reads, bus, web

LEMMA BeginEffect ==
  ASSUME TypeOK, LineInv, Begin
  PROVE  TypeOK' /\ \E m \in Messages : Shown(m) /\ Begins(m)
<1> DEFINE m == Head(ready)
           t == IF Web(m) THEN [turn[m] EXCEPT !.inst = registered] ELSE turn[m]
           q == Append(lock[t.inst][t.key], m)
<1>1. /\ ready # <<>> /\ ready' = Tail(ready)
      /\ m \in Messages /\ ready' \in Seq(Messages)
      /\ UNCHANGED <<lifecycle, inbox, sent, count, cancelled, live, attach>>
  BY TailFacts DEF Begin, TypeOK
<1>2. turn[m].at = "new"
  <2>1. ready \in Seq(Messages)
    BY DEF TypeOK
  <2>2. m = ready[1] /\ 1 \in DOMAIN ready
    BY <1>1, <2>1, TailFacts
  <2>3. m \in Members(ready)
    BY <2>2 DEF Members
  <2> QED
    BY <1>1, <2>3 DEF LineInv, ReadyInv
<1>3. /\ turn[m] \in Turn /\ turn[m].key \in Keys /\ turn[m].inst \in Instances
  BY <1>1, <1>2, LineOf DEF LineInv
<1>4. ASSUME Web(m) => Serving
      PROVE  /\ t \in Turn /\ t.key = turn[m].key /\ t.inst \in Instances
             /\ t.frames = turn[m].frames /\ t.end = turn[m].end
             /\ turn[m].key \in ImKeys => t.inst = turn[m].inst
  <2>1. CASE Web(m)
    <3>1. registered \in 0 .. MaxInstances /\ registered \in Instances
      BY <1>4, <2>1 DEF TypeOK, Serving, Instances
    <3>2. turn[m].key \notin ImKeys
      BY <2>1, PartnerAssumption DEF Web
    <3> DEFINE r == [turn[m] EXCEPT !.inst = registered]
    <3>3. /\ r \in Turn /\ r.key = turn[m].key /\ r.inst = registered
          /\ r.frames = turn[m].frames /\ r.end = turn[m].end
      BY <1>3, <3>1 DEF Turn
    <3>4. t = r
      BY <2>1
    <3> HIDE DEF r, t
    <3> QED
      BY <3>1, <3>2, <3>3, <3>4
  <2>2. CASE ~Web(m)
    BY <1>3, <2>2
  <2> QED
    BY <2>1, <2>2
<1>5. IF m \in cancelled
      THEN turn' = [turn EXCEPT ![m].at = "over"] /\ UNCHANGED <<outbox, lock, log, watch>>
      ELSE IF Web(m) /\ ~Serving
      THEN Over(m, turn[m], "error") /\ UNCHANGED <<lock, log>>
      ELSE IF Len(q) = 1
      THEN Enter(m, t, q)
      ELSE /\ turn' = [turn EXCEPT ![m] = [t EXCEPT !.at = "lock"]]
           /\ Locked(t, q)
           /\ UNCHANGED <<outbox, log, watch>>
  BY DEF Begin
<1> HIDE DEF m, t
<1>6. ASSUME turn' \in [Messages -> Turn], outbox' \in [Instances -> Seq(Messages)],
             watch' \in [Sockets -> Watch], log' \in Seq(Messages),
             lock' \in [Instances -> [Keys -> Seq(Messages)]]
      PROVE  TypeOK'
  BY <1>1, <1>6 DEF TypeOK, lifecycle
<1>7. CASE m \in cancelled
  <2> DEFINE r == [turn[m] EXCEPT !.at = "over"]
  <2>1. /\ r \in Turn /\ r.at = "over" /\ r.key = turn[m].key /\ r.inst = turn[m].inst
        /\ r.frames = turn[m].frames /\ r.end = turn[m].end
    BY <1>3 DEF Turn, Stages
  <2>2. turn' = [turn EXCEPT ![m] = r] /\ turn \in [Messages -> Turn]
    BY <1>5, <1>7 DEF TypeOK
  <2> HIDE DEF r
  <2>3. turn' \in [Messages -> Turn] /\ turn'[m] = r /\ \A n \in Messages : n # m => turn'[n] = turn[n]
    BY <1>1, <2>1, <2>2
  <2>4. UNCHANGED <<outbox, lock, log, watch>>
    BY <1>5, <1>7
  <2>5. TypeOK'
    BY <1>6, <2>3, <2>4 DEF TypeOK
  <2>6. Shown(m)
    BY <1>1, <1>2, <2>1, <2>3, <2>4 DEF Shown
  <2>7. Begins(m)
    BY <1>1, <1>3, <2>1, <2>3, <2>4 DEF Begins, Moves, m
  <2> QED
    BY <1>1, <2>5, <2>6, <2>7
<1>8. CASE m \notin cancelled /\ Web(m) /\ ~Serving
  <2>1. Over(m, turn[m], "error") /\ UNCHANGED <<lock, log>> /\ "error" \in Ends \ {"none"}
    BY <1>5, <1>8 DEF Ends
  <2>2. /\ turn' \in [Messages -> Turn]
        /\ outbox' \in [Instances -> Seq(Messages)]
        /\ watch' \in [Sockets -> Watch]
        /\ Moves(m, "over")
        /\ turn'[m].inst = turn[m].inst
        /\ turn'[m].frames = turn[m].frames
        /\ turn'[m].end = "error"
        /\ Told(m)
    BY <1>1, <1>3, <2>1, OverEffect
  <2>3. TypeOK'
    BY <1>6, <2>1, <2>2 DEF TypeOK
  <2>4. Shown(m)
    BY <1>1, <1>2, <2>2 DEF Shown, Moves
  <2>5. Begins(m)
    BY <1>1, <1>3, <2>1, <2>2 DEF Begins, m
  <2> QED
    BY <1>1, <2>3, <2>4, <2>5
<1>9. CASE m \notin cancelled /\ (Web(m) => Serving)
  <2>1. /\ t \in Turn /\ t.key = turn[m].key /\ t.inst \in Instances
        /\ t.frames = turn[m].frames /\ t.end = turn[m].end
        /\ turn[m].key \in ImKeys => t.inst = turn[m].inst
    BY <1>4, <1>9
  <2> DEFINE queue == lock[t.inst][t.key]
  <2>2. queue \in Seq(Messages)
    BY <1>3, <2>1, LockTyped
  <2> HIDE DEF queue
  <2>3. q = Append(queue, m)
    BY DEF queue
  <2>4. q \in Seq(Messages) /\ Len(q) = Len(queue) + 1 /\ q # <<>> /\ Len(queue) \in Nat
    BY <1>1, <2>2, <2>3, AppendFacts, EmptySeq
  <2>5. CASE Len(q) = 1
    <3>1. Enter(m, t, q)
      BY <1>5, <1>9, <2>5
    <3>2. queue = <<>> /\ Tail(q) = <<>>
      BY <2>2, <2>3, <2>4, <2>5, EmptySeq, TailFacts
    <3>3. /\ turn' \in [Messages -> Turn]
          /\ outbox' \in [Instances -> Seq(Messages)]
          /\ watch' \in [Sockets -> Watch]
          /\ lock' \in [Instances -> [Keys -> Seq(Messages)]]
          /\ log' \in Seq(Messages)
          /\ turn'[m].inst = t.inst
          /\ turn'[m].frames = t.frames
          /\ \/ /\ Moves(m, "run")
                /\ turn'[m].read = Members(log)
                /\ turn'[m].end = t.end
                /\ lock' = [lock EXCEPT ![t.inst][t.key] = q]
                /\ UNCHANGED <<log, watch>>
             \/ /\ Moves(m, "over")
                /\ lock' = [lock EXCEPT ![t.inst][t.key] = Tail(q)]
                /\ log' \in {log, <<>>}
                /\ Told(m)
      BY <1>1, <1>3, <2>1, <2>4, <3>1, EnterEffect
    <3>4. TypeOK'
      BY <1>6, <3>3
    <3>5. CASE /\ Moves(m, "run")
               /\ turn'[m].read = Members(log)
               /\ turn'[m].end = t.end
               /\ lock' = [lock EXCEPT ![t.inst][t.key] = q]
               /\ UNCHANGED <<log, watch>>
      <4>1. Shown(m)
        BY <1>1, <1>2, <2>1, <3>3, <3>5 DEF Shown
      <4>2. Begins(m)
        BY <1>1, <2>1, <2>3, <3>2, <3>3, <3>5 DEF Begins, m, queue
      <4> QED
        BY <1>1, <3>4, <4>1, <4>2
    <3>6. CASE /\ Moves(m, "over")
               /\ lock' = [lock EXCEPT ![t.inst][t.key] = Tail(q)]
               /\ log' \in {log, <<>>}
               /\ Told(m)
      <4>1. Shown(m)
        BY <1>1, <1>2, <2>1, <3>3, <3>6 DEF Shown, Moves
      <4>2. lock' = lock
        BY <1>3, <2>1, <3>2, <3>6, EmptyLock DEF queue
      <4>3. lock[turn'[m].inst][turn[m].key] = <<>>
        BY <2>1, <3>2, <3>3 DEF queue
      <4>4. Begins(m)
        BY <1>1, <2>1, <3>3, <3>6, <4>2, <4>3 DEF Begins, m
      <4> QED
        BY <1>1, <3>4, <4>1, <4>4
    <3> QED
      BY <3>3, <3>5, <3>6
  <2>6. CASE Len(q) # 1
    <3> DEFINE r == [t EXCEPT !.at = "lock"]
    <3>1. /\ r \in Turn /\ r.at = "lock" /\ r.key = turn[m].key /\ r.inst = t.inst
          /\ r.frames = turn[m].frames /\ r.end = turn[m].end
      BY <2>1 DEF Turn, Stages
    <3>2. turn' = [turn EXCEPT ![m] = r] /\ turn \in [Messages -> Turn]
      BY <1>5, <1>9, <2>6 DEF TypeOK
    <3> HIDE DEF r
    <3>3. /\ turn' \in [Messages -> Turn] /\ turn'[m] = r
          /\ \A n \in Messages : n # m => turn'[n] = turn[n]
      BY <1>1, <3>1, <3>2
    <3>4. lock' = [lock EXCEPT ![t.inst][t.key] = q] /\ UNCHANGED <<outbox, log, watch>>
      BY <1>5, <1>9, <2>6 DEF Locked
    <3>5. lock' \in [Instances -> [Keys -> Seq(Messages)]]
      BY <1>3, <2>1, <2>4, <3>4, TypeOfLock
    <3>6. TypeOK'
      BY <1>6, <3>3, <3>4, <3>5 DEF TypeOK
    <3>7. Shown(m)
      BY <1>1, <1>2, <3>1, <3>3, <3>4 DEF Shown
    <3>8. Begins(m)
      BY <1>1, <2>1, <2>3, <3>1, <3>3, <3>4 DEF Begins, Moves, m, queue
    <3> QED
      BY <1>1, <3>6, <3>7, <3>8
  <2> QED
    BY <2>5, <2>6
<1> QED
  BY <1>7, <1>8, <1>9

\* Steps that touch neither a message on its way nor a socket.
LEMMA StartEffect ==
  ASSUME TypeOK, StartPartner
  PROVE  TypeOK' /\ UNCHANGED <<turn, inbox, ready, lock, log, count, web>>
<1>1. started' \in 0 .. MaxInstances /\ registered' \in 0 .. MaxInstances
  BY PartnerAssumption DEF TypeOK, StartPartner
<1> QED
  BY <1>1 DEF TypeOK, StartPartner, bus, tasks, web

LEMMA StopEffect ==
  ASSUME TypeOK, NEW s \in Stoppers, StopPartner(s) \/ StopFinishes(s)
  PROVE  TypeOK' /\ UNCHANGED <<turn, inbox, ready, lock, log, count, web>>
<1>1. CASE StopPartner(s)
  BY <1>1 DEF TypeOK, StopPartner, bus, tasks, web
<1>2. CASE StopFinishes(s)
  <2>1. 0 \in 0 .. MaxInstances
    BY PartnerAssumption
  <2> QED
    BY <1>2, <2>1 DEF TypeOK, StopFinishes, bus, tasks, web
<1> QED
  BY <1>1, <1>2

LEMMA InstanceEffect ==
  ASSUME TypeOK, NEW i \in Instances, RunnerEnds(i) \/ Send(i)
  PROVE  TypeOK' /\ UNCHANGED <<turn, inbox, ready, lock, log, count, web>>
<1>1. CASE RunnerEnds(i)
  BY <1>1 DEF TypeOK, RunnerEnds, Handled, bus, web
<1>2. CASE Send(i)
  <2>1. outbox[i] \in Seq(Messages) /\ outbox[i] # <<>>
    BY <1>2 DEF TypeOK, Send
  <2>2. Tail(outbox[i]) \in Seq(Messages) /\ Head(outbox[i]) \in Messages
    BY <2>1, TailFacts
  <2> QED
    BY <1>2, <2>2 DEF TypeOK, Send, lifecycle, tasks, web
<1> QED
  BY <1>1, <1>2

LEMMA StopWebEffect ==
  ASSUME TypeOK, NEW k \in WebKeys, StopWeb(k)
  PROVE  TypeOK' /\ UNCHANGED <<turn, inbox, ready, lock, log, count, web>>
<1>1. registered \in Instances
  BY DEF TypeOK, StopWeb, Instances
<1>2. live[registered][k] \in Messages
  BY <1>1 DEF TypeOK, StopWeb, InFlight, Messages
<1> QED
  BY <1>2 DEF TypeOK, StopWeb, lifecycle, bus, web

LEMMA HangUpEffect ==
  ASSUME TypeOK, NEW m \in Messages, HangUp(m)
  PROVE  TypeOK' /\ UNCHANGED <<turn, inbox, ready, lock, log, count, web>>
  BY DEF TypeOK, HangUp, lifecycle, bus, web

LEMMA BacklogFacts ==
  ASSUME NEW t \in Turn
  PROVE  Backlog(t) \in Seq(Nat) /\ Backlog(t) = [n \in 1 .. t.frames |-> n]
<1>1. t.frames \in Nat
  BY TurnFields
<1> QED
  BY <1>1 DEF Backlog

LEMMA SubscribedEffect ==
  ASSUME TypeOK, NEW w \in Sockets, NEW m \in Messages, NEW t \in Turn, Subscribed(w, m, t)
  PROVE  /\ watch' \in [Sockets -> Watch]
         /\ \A v \in Sockets : v # w => watch'[v] = watch[v]
         /\ watch'[w].turn = m
         /\ watch'[w].on <=> t.end = "none"
         /\ watch'[w].got = [n \in 1 .. t.frames |-> n]
         /\ watch'[w].end = t.end
<1> DEFINE r == [turn |-> m, on |-> t.end = "none", got |-> Backlog(t), end |-> t.end]
<1>1. /\ r \in Watch /\ r.turn = m /\ r.on = (t.end = "none")
      /\ r.got = [n \in 1 .. t.frames |-> n] /\ r.end = t.end
  <2>1. t.end \in Ends /\ m \in 0 .. MaxMessages
    BY TurnFields, PartnerAssumption DEF Messages
  <2>2. (t.end = "none") \in BOOLEAN
    OBVIOUS
  <2> QED
    BY <2>1, <2>2, BacklogFacts DEF Watch
<1>2. watch' = [watch EXCEPT ![w] = r] /\ watch \in [Sockets -> Watch]
  BY DEF Subscribed, Terminal, TypeOK
<1> HIDE DEF r
<1> QED
  BY <1>1, <1>2

LEMMA ReceiveEffect ==
  ASSUME TypeOK, NEW i \in Instances, NEW k \in ImKeys, Receive(i, k)
  PROVE  /\ TypeOK'
         /\ count' = count + 1 /\ count' \in Messages
         /\ turn' = [turn EXCEPT ![count'] = New("inbox", k, i)]
         /\ inbox' = [inbox EXCEPT ![i] = Append(@, count')]
         /\ UNCHANGED <<ready, lock, log, web>>
<1>1. count' = count + 1 /\ count' \in Messages /\ count' \in 0 .. MaxMessages
  BY PartnerAssumption DEF Receive, TypeOK, Messages
<1>2. New("inbox", k, i) \in Turn
  BY NewTurn DEF Keys, Stages
<1>3. turn' = [turn EXCEPT ![count'] = New("inbox", k, i)]
  BY DEF Receive
<1>4. inbox' = [inbox EXCEPT ![i] = Append(@, count')]
  BY DEF Receive
<1>5. Append(inbox[i], count') \in Seq(Messages)
  BY <1>1, AppendFacts DEF TypeOK
<1>6. UNCHANGED <<lifecycle, outbox, sent, cancelled, ready, lock, log, web>>
  BY DEF Receive
<1>7. TypeOK'
  BY <1>1, <1>2, <1>3, <1>4, <1>5, <1>6 DEF TypeOK, lifecycle, web
<1> QED
  BY <1>1, <1>3, <1>4, <1>6, <1>7

LEMMA ConsumeEffect ==
  ASSUME TypeOK, NEW i \in Instances, Consume(i)
  PROVE  /\ TypeOK'
         /\ inbox[i] # <<>> /\ Head(inbox[i]) \in Messages
         /\ inbox' = [inbox EXCEPT ![i] = Tail(@)]
         /\ turn' = [turn EXCEPT ![Head(inbox[i])].at = "new"]
         /\ ready' = Append(ready, Head(inbox[i]))
         /\ UNCHANGED <<count, lock, log, web>>
<1> DEFINE m == Head(inbox[i])
<1>1. inbox[i] # <<>> /\ inbox[i] \in Seq(Messages)
  BY DEF Consume, TypeOK
<1>2. m \in Messages /\ Tail(inbox[i]) \in Seq(Messages)
  BY <1>1, TailFacts
<1>3. /\ inbox' = [inbox EXCEPT ![i] = Tail(@)]
      /\ turn' = [turn EXCEPT ![m].at = "new"]
      /\ ready' = Append(ready, m)
      /\ UNCHANGED <<lifecycle, outbox, sent, count, cancelled, lock, log, web>>
  BY DEF Consume
<1>4. Append(ready, m) \in Seq(Messages)
  BY <1>2, AppendFacts DEF TypeOK
<1>5. \A t \in Turn : [t EXCEPT !.at = "new"] \in Turn
  BY DEF Turn, Stages
<1> HIDE DEF m
<1>6. TypeOK'
  BY <1>2, <1>3, <1>4, <1>5 DEF TypeOK, lifecycle, web
<1> QED
  BY <1>1, <1>2, <1>3, <1>6 DEF m

LEMMA SendWebEffect ==
  ASSUME TypeOK, NEW w \in Sockets, NEW k \in WebKeys, SendWeb(w, k)
  PROVE  /\ TypeOK'
         /\ registered \in Instances
         /\ UNCHANGED <<inbox, lock, log, attach>>
         /\ \/ /\ InFlight(registered, k)
               /\ Subscribed(w, live[registered][k], turn[live[registered][k]])
               /\ UNCHANGED <<count, turn, ready, live>>
            \/ /\ count' = count + 1 /\ count' \in Messages
               /\ turn' = [turn EXCEPT ![count'] = New("new", k, registered)]
               /\ ready' = Append(ready, count')
               /\ live' = [live EXCEPT ![registered][k] = count']
               /\ Subscribed(w, count', turn'[count'])
<1>1. registered \in Instances
  BY DEF TypeOK, SendWeb, Serving, Instances
<1>2. UNCHANGED <<lifecycle, bus, cancelled, lock, log, attach>>
  BY DEF SendWeb
<1>3. CASE InFlight(registered, k)
  <2>1. /\ Subscribed(w, live[registered][k], turn[live[registered][k]])
        /\ UNCHANGED <<count, turn, ready, live>>
    BY <1>3 DEF SendWeb
  <2>2. live[registered][k] \in Messages
    BY <1>1, <1>3 DEF TypeOK, InFlight, Messages
  <2>3. turn[live[registered][k]] \in Turn
    BY <2>2 DEF TypeOK
  <2>4. watch' \in [Sockets -> Watch]
    BY <2>1, <2>2, <2>3, SubscribedEffect
  <2>5. TypeOK'
    BY <1>2, <2>1, <2>4 DEF TypeOK, lifecycle, bus
  <2> QED
    BY <1>1, <1>2, <1>3, <2>1, <2>5 DEF bus
<1>4. CASE ~InFlight(registered, k)
  <2>1. /\ count < MaxMessages
        /\ count' = count + 1
        /\ turn' = [turn EXCEPT ![count'] = New("new", k, registered)]
        /\ ready' = Append(ready, count')
        /\ live' = [live EXCEPT ![registered][k] = count']
        /\ Subscribed(w, count', turn'[count'])
    BY <1>4 DEF SendWeb
  <2>2. count' \in Messages /\ count' \in 0 .. MaxMessages
    BY <2>1, PartnerAssumption DEF TypeOK, Messages
  <2>3. New("new", k, registered) \in Turn
    BY <1>1, NewTurn DEF Keys, Stages
  <2>4. turn' \in [Messages -> Turn] /\ turn'[count'] \in Turn
    BY <2>1, <2>2, <2>3 DEF TypeOK
  <2>5. watch' \in [Sockets -> Watch]
    BY <2>1, <2>2, <2>4, SubscribedEffect
  <2>6. ready' \in Seq(Messages)
    BY <2>1, <2>2, AppendFacts DEF TypeOK
  <2>7. live' \in [Instances -> [WebKeys -> 0 .. MaxMessages]]
    <3>1. live \in [Instances -> [WebKeys -> 0 .. MaxMessages]]
      BY DEF TypeOK
    <3>2. [live[registered] EXCEPT ![k] = count'] \in [WebKeys -> 0 .. MaxMessages]
      BY <1>1, <2>2, <3>1
    <3> QED
      BY <1>1, <2>1, <3>1, <3>2
  <2>8. TypeOK'
    BY <1>2, <2>2, <2>4, <2>5, <2>6, <2>7 DEF TypeOK, lifecycle, bus
  <2> QED
    BY <1>1, <1>2, <2>1, <2>2, <2>8 DEF bus
<1> QED
  BY <1>3, <1>4

LEMMA SendHttpEffect ==
  ASSUME TypeOK, NEW k \in WebKeys, SendHttp(k)
  PROVE  /\ TypeOK'
         /\ registered \in Instances
         /\ UNCHANGED <<inbox, lock, log, web>>
         /\ count' = count + 1 /\ count' \in Messages
         /\ turn' = [turn EXCEPT ![count'] = New("new", k, registered)]
         /\ ready' = Append(ready, count')
<1>1. registered \in Instances
  BY DEF TypeOK, SendHttp, Serving, Instances
<1>2. /\ count' = count + 1
      /\ turn' = [turn EXCEPT ![count'] = New("new", k, registered)]
      /\ ready' = Append(ready, count')
      /\ UNCHANGED <<lifecycle, bus, cancelled, lock, log, web>>
  BY DEF SendHttp
<1>3. count' \in Messages /\ count' \in 0 .. MaxMessages
  BY <1>2, PartnerAssumption DEF SendHttp, TypeOK, Messages
<1>4. New("new", k, registered) \in Turn
  BY <1>1, NewTurn DEF Keys, Stages
<1>5. turn' \in [Messages -> Turn]
  BY <1>2, <1>3, <1>4 DEF TypeOK
<1>6. ready' \in Seq(Messages)
  BY <1>2, <1>3, AppendFacts DEF TypeOK
<1>7. TypeOK'
  BY <1>2, <1>3, <1>5, <1>6 DEF TypeOK, lifecycle, bus, web
<1> QED
  BY <1>1, <1>2, <1>3, <1>7 DEF bus

LEMMA AttachEffect ==
  ASSUME TypeOK, NEW w \in Sockets, NEW k \in WebKeys, Attach(w, k)
  PROVE  /\ TypeOK'
         /\ UNCHANGED <<turn, inbox, ready, lock, log, count, live, watch>>
         /\ registered \in Instances
         /\ attach' = [attach EXCEPT ![w] = live[registered][k]]
<1>1. registered \in Instances
  BY DEF TypeOK, Attach, Instances
<1>2. live[registered][k] \in 0 .. MaxMessages
  BY <1>1 DEF TypeOK
<1>3. TypeOK'
  BY <1>2 DEF TypeOK, Attach, lifecycle, bus, tasks
<1> QED
  BY <1>1, <1>3 DEF Attach, bus, tasks

LEMMA AttachedEffect ==
  ASSUME TypeOK, NEW w \in Sockets, Attached(w)
  PROVE  /\ TypeOK'
         /\ UNCHANGED <<turn, inbox, ready, lock, log, count, live>>
         /\ attach[w] \in Messages
         /\ Subscribed(w, attach[w], turn[attach[w]])
         /\ attach' = [attach EXCEPT ![w] = 0]
<1>1. attach[w] \in Messages /\ turn[attach[w]] \in Turn
  BY DEF TypeOK, Attached, Messages
<1>2. watch' \in [Sockets -> Watch]
  BY <1>1, SubscribedEffect DEF Attached
<1>3. 0 \in 0 .. MaxMessages
  BY PartnerAssumption
<1>4. TypeOK'
  BY <1>2, <1>3 DEF TypeOK, Attached, lifecycle, bus, tasks
<1> QED
  BY <1>1, <1>4 DEF Attached, bus, tasks

LEMMA EmitEffect ==
  ASSUME TypeOK, NEW m \in Messages, Emit(m)
  PROVE  /\ TypeOK'
         /\ Quiet
         /\ turn'[m].frames = turn[m].frames + 1
         /\ turn'[m].end = turn[m].end
         /\ \A n \in Messages : n # m => turn'[n] = turn[n]
         /\ UNCHANGED <<live, attach>>
<1>1. turn \in [Messages -> Turn] /\ turn[m] \in Turn
  BY DEF TypeOK
<1> DEFINE r == [turn[m] EXCEPT !.frames = @ + 1]
<1>2. /\ r \in Turn /\ r.at = turn[m].at /\ r.key = turn[m].key /\ r.inst = turn[m].inst
      /\ r.read = turn[m].read /\ r.frames = turn[m].frames + 1 /\ r.end = turn[m].end
  BY <1>1, ChangedTurn DEF Turn
<1>3. turn' = [turn EXCEPT ![m] = r]
  BY DEF Emit
<1> HIDE DEF r
<1>4. turn' \in [Messages -> Turn] /\ turn'[m] = r /\ \A n \in Messages : n # m => turn'[n] = turn[n]
  BY <1>1, <1>2, <1>3
<1>5. UNCHANGED <<lifecycle, bus, count, cancelled, ready, lock, log, live, attach>>
  BY DEF Emit
<1>6. watch' \in [Sockets -> Watch]
  <2>1. watch \in [Sockets -> Watch]
    BY DEF TypeOK
  <2>2. turn[m].frames + 1 \in Nat
    BY <1>1, TurnFields
  <2>3. \A v \in Watch : [v EXCEPT !.got = Append(@, turn[m].frames + 1)] \in Watch
    <3> SUFFICES ASSUME NEW v \in Watch
                 PROVE  [v EXCEPT !.got = Append(@, turn[m].frames + 1)] \in Watch
      OBVIOUS
    <3>1. Append(v.got, turn[m].frames + 1) \in Seq(Nat)
      BY <2>2, WatchFields, AppendFacts
    <3> QED
      BY <3>1 DEF Watch
  <2> QED
    BY <2>1, <2>3 DEF Emit, Emitted
<1>7. TypeOK'
  BY <1>4, <1>5, <1>6 DEF TypeOK, lifecycle, bus
<1> QED
  BY <1>2, <1>4, <1>5, <1>7 DEF Quiet, bus

----------------------------------------------------------------------------
(* What the sockets see *)

LEMMA WatchInit == Init => WatchInv
  BY PartnerAssumption
  DEF Init, WatchInv, Counted, References, Ongoing, Watchable, SocketsSeeAll, NoTurn, NoWatch, Messages

LEMMA WatchedTurn ==
  ASSUME TypeOK, WatchInv, NEW w \in Sockets, watch[w].turn # 0
  PROVE  /\ watch[w] \in Watch
         /\ watch[w].turn \in Messages
         /\ turn[watch[w].turn].at # "none"
         /\ turn[watch[w].turn].key \in WebKeys
         /\ watch[w].on <=> turn[watch[w].turn].end = "none"
         /\ watch[w].got = [n \in 1 .. turn[watch[w].turn].frames |-> n]
         /\ watch[w].end = turn[watch[w].turn].end
<1>1. watch[w] \in Watch
  BY DEF TypeOK
<1>2. watch[w].turn \in Messages
  BY <1>1, WatchFields DEF Messages
<1> QED
  BY <1>1, <1>2 DEF WatchInv, References, Ongoing, Watchable, SocketsSeeAll

LEMMA WatchShown ==
  ASSUME TypeOK, TypeOK', WatchInv, NEW m \in Messages, Shown(m),
         NEW at \in {"lock", "run", "over"}, Moves(m, at)
  PROVE  WatchInv'
<1>1. /\ \A n \in Messages : n # m => turn'[n] = turn[n]
      /\ turn'[m].at = at /\ turn'[m].key = turn[m].key
      /\ turn'[m].frames = turn[m].frames /\ turn[m].at \notin {"none", "over"}
      /\ UNCHANGED <<live, attach, count>>
  BY DEF Moves, Shown
<1>2. turn[m].end = "none"
  BY <1>1 DEF WatchInv, Counted
<1>3. \A n \in Messages :
         /\ turn'[n].at # "none" <=> n =< count'
         /\ turn'[n].at # "over" => turn'[n].end = "none"
  BY <1>1, <1>2 DEF WatchInv, Counted, Shown
<1>4. \A n \in Nat : (n = 0 \/ n \in Messages) /\ Watchable(n) => Watchable(n)'
  BY <1>1 DEF Watchable
<1>5. \A i \in Instances, k \in WebKeys : Watchable(live[i][k])'
  <2>1. \A i \in Instances, k \in WebKeys : live[i][k] = 0 \/ live[i][k] \in Messages
    BY PartnerAssumption DEF TypeOK, Messages
  <2> QED
    BY <1>1, <1>4, <2>1, MessageNumbers DEF WatchInv, References, Watchable
<1>6. \A w \in Sockets : Watchable(attach[w])'
  <2>1. \A w \in Sockets : attach[w] = 0 \/ attach[w] \in Messages
    BY PartnerAssumption DEF TypeOK, Messages
  <2> QED
    BY <1>1, <1>4, <2>1, MessageNumbers DEF WatchInv, References, Watchable
<1>7. ASSUME NEW w \in Sockets
      PROVE  /\ watch'[w].turn = watch[w].turn
             /\ watch'[w].got = watch[w].got
             /\ watch[w].turn # m => watch'[w] = watch[w]
             /\ watch[w].turn = m => watch'[w].end = turn'[m].end
             /\ watch[w].turn = m => (watch'[w].on <=> turn'[m].end = "none")
  <2>1. watch[w] \in Watch /\ m # 0
    BY MessageNumbers DEF TypeOK, Messages
  <2>2. CASE turn'[m].end = turn[m].end /\ watch' = watch
    BY <2>1, <2>2, WatchedTurn
  <2>3. CASE Told(m)
    <3>1. CASE watch[w].turn = m
      <4>1. /\ turn[m].key \in WebKeys /\ watch[w].on <=> turn[m].end = "none"
            /\ watch[w].end = turn[m].end
        BY <2>1, <3>1, WatchedTurn
      <4>2. watch'[w] = [watch[w] EXCEPT !.on = FALSE, !.end = turn'[m].end]
        BY <1>2, <2>3, <3>1, <4>1 DEF Told, Web
      <4> DEFINE e == turn'[m].end
                 r == [watch[w] EXCEPT !.on = FALSE, !.end = e]
      <4>3. ~r.on /\ r.end = e /\ r.turn = watch[w].turn /\ r.got = watch[w].got
        BY <2>1 DEF Watch
      <4>4. watch'[w] = r /\ e # "none"
        BY <2>3, <4>2 DEF Told
      <4> HIDE DEF r
      <4> QED
        BY <3>1, <4>3, <4>4
    <3>2. CASE watch[w].turn # m
      BY <2>3, <3>2 DEF Told
    <3> QED
      BY <3>1, <3>2
  <2> QED
    BY <2>2, <2>3 DEF Shown
<1>8. ASSUME NEW w \in Sockets
      PROVE  /\ Watchable(watch[w].turn)'
             /\ watch'[w].turn # 0 =>
                  /\ watch'[w].on <=> turn'[watch'[w].turn].end = "none"
                  /\ watch'[w].got = [n \in 1 .. turn'[watch'[w].turn].frames |-> n]
                  /\ watch'[w].end = turn'[watch'[w].turn].end
  <2> DEFINE n == watch[w].turn
  <2>0. watch'[w].turn = n /\ watch'[w].got = watch[w].got
    BY <1>7
  <2>1. CASE n = 0
    BY <2>0, <2>1 DEF Watchable
  <2>2. CASE n = m /\ m # 0
    <3>1. /\ turn[m].key \in WebKeys
          /\ watch[w].got = [j \in 1 .. turn[m].frames |-> j]
      BY <2>2, WatchedTurn
    <3>2. watch'[w].end = turn'[m].end /\ (watch'[w].on <=> turn'[m].end = "none")
      BY <1>7, <2>2
    <3> QED
      BY <1>1, <2>0, <2>2, <3>1, <3>2 DEF Watchable
  <2>3. CASE n # 0 /\ n # m
    <3>1. /\ n \in Messages /\ turn[n].at # "none" /\ turn[n].key \in WebKeys
          /\ watch[w].on <=> turn[n].end = "none"
          /\ watch[w].got = [j \in 1 .. turn[n].frames |-> j]
          /\ watch[w].end = turn[n].end
      BY <2>3, WatchedTurn
    <3>2. turn'[n] = turn[n] /\ watch'[w] = watch[w]
      BY <1>1, <1>7, <2>3, <3>1
    <3> QED
      BY <2>0, <2>3, <3>1, <3>2 DEF Watchable
  <2>4. m # 0
    BY DEF Messages
  <2> QED
    BY <2>1, <2>2, <2>3, <2>4
<1>9. SocketsSeeAll'
  BY <1>8 DEF SocketsSeeAll
<1>10. Ongoing'
  BY <1>8 DEF Ongoing
<1>11. References'
  BY <1>5, <1>6, <1>8 DEF References
<1>12. Counted'
  BY <1>3 DEF Counted
<1> QED
  BY <1>9, <1>10, <1>11, <1>12 DEF WatchInv

LEMMA WatchSubscribed ==
  ASSUME TypeOK, TypeOK', WatchInv, Counted', References',
         \A m \in Messages : turn[m].at # "none" => turn'[m] = turn[m],
         NEW w \in Sockets, NEW m \in Messages, turn'[m] \in Turn, Subscribed(w, m, turn'[m])
  PROVE  WatchInv'
<1>1. /\ \A v \in Sockets : v # w => watch'[v] = watch[v]
      /\ watch'[w].turn = m
      /\ watch'[w].on <=> turn'[m].end = "none"
      /\ watch'[w].got = [n \in 1 .. turn'[m].frames |-> n]
      /\ watch'[w].end = turn'[m].end
  BY SubscribedEffect
<1>2. ASSUME NEW v \in Sockets, v # w, watch[v].turn # 0
      PROVE  /\ watch'[v].on <=> turn'[watch'[v].turn].end = "none"
             /\ watch'[v].got = [n \in 1 .. turn'[watch'[v].turn].frames |-> n]
             /\ watch'[v].end = turn'[watch'[v].turn].end
  <2> DEFINE n == watch[v].turn
  <2>1. /\ n \in Messages /\ turn[n].at # "none"
        /\ watch[v].on <=> turn[n].end = "none"
        /\ watch[v].got = [j \in 1 .. turn[n].frames |-> j]
        /\ watch[v].end = turn[n].end
    BY <1>2, WatchedTurn
  <2>2. turn'[n] = turn[n] /\ watch'[v] = watch[v]
    BY <1>1, <1>2, <2>1
  <2> QED
    BY <2>1, <2>2
<1>3. ASSUME NEW v \in Sockets, watch'[v].turn # 0
      PROVE  /\ watch'[v].on <=> turn'[watch'[v].turn].end = "none"
             /\ watch'[v].got = [n \in 1 .. turn'[watch'[v].turn].frames |-> n]
             /\ watch'[v].end = turn'[watch'[v].turn].end
  <2>1. CASE v = w
    BY <1>1, <2>1
  <2>2. CASE v # w
    BY <1>1, <1>2, <1>3, <2>2
  <2> QED
    BY <2>1, <2>2
<1>4. SocketsSeeAll'
  BY <1>3 DEF SocketsSeeAll
<1>5. Ongoing'
  BY <1>3 DEF Ongoing
<1> QED
  BY <1>4, <1>5 DEF WatchInv

LEMMA WatchSend ==
  ASSUME TypeOK, WatchInv, NEW w \in Sockets, NEW k \in WebKeys, SendWeb(w, k)
  PROVE  WatchInv'
<1>1. TypeOK' /\ registered \in Instances /\ attach' = attach
  BY SendWebEffect
<1>2. CASE /\ InFlight(registered, k)
           /\ Subscribed(w, live[registered][k], turn[live[registered][k]])
           /\ UNCHANGED <<count, turn, ready, live>>
  <2> DEFINE m == live[registered][k]
  <2>1. m \in Messages
    BY <1>1, <1>2 DEF InFlight, TypeOK, Messages
  <2>2. turn'[m] \in Turn /\ Subscribed(w, m, turn'[m])
    BY <1>2, <2>1 DEF TypeOK
  <2>3. watch' \in [Sockets -> Watch] /\ watch'[w].turn = m
        /\ \A v \in Sockets : v # w => watch'[v] = watch[v]
    BY <1>2, <2>1, <2>2, SubscribedEffect
  <2>4. Counted'
    BY <1>2 DEF WatchInv, Counted
  <2>5. Watchable(m)
    BY <1>1 DEF WatchInv, References
  <2>6. References'
    BY <1>1, <1>2, <2>3, <2>5 DEF WatchInv, References, Watchable
  <2> QED
    BY <1>1, <1>2, <2>1, <2>2, <2>4, <2>6, WatchSubscribed
<1>3. CASE /\ count' = count + 1 /\ count' \in Messages
           /\ turn' = [turn EXCEPT ![count'] = New("new", k, registered)]
           /\ ready' = Append(ready, count')
           /\ live' = [live EXCEPT ![registered][k] = count']
           /\ Subscribed(w, count', turn'[count'])
  <2>0. PICK m \in Messages : m = count'
    BY <1>3
  <2> DEFINE t == New("new", k, registered)
  <2>1. t \in Turn /\ t.at = "new" /\ t.key = k /\ t.end = "none"
    BY <1>1, NewTurn DEF Keys, Stages
  <2> HIDE DEF t
  <2>2. turn'[m] = t /\ \A n \in Messages : n # m => turn'[n] = turn[n]
    BY <1>3, <2>0 DEF TypeOK, t
  <2>3. m = count + 1 /\ count \in Nat
    BY <1>3, <2>0 DEF TypeOK
  <2>4. turn[m].at = "none"
    BY <2>3, MessageNumbers DEF WatchInv, Counted
  <2>5. Counted'
    <3> SUFFICES ASSUME NEW n \in Messages
                 PROVE  /\ turn'[n].at # "none" <=> n =< count'
                        /\ turn'[n].at # "over" => turn'[n].end = "none"
      BY DEF Counted
    <3>1. CASE n = m
      BY <2>0, <2>1, <2>2, <3>1, MessageNumbers
    <3>2. CASE n # m
      <4>1. n =< m <=> n =< count
        BY <2>3, <3>2, MessageNumbers
      <4> QED
        BY <2>0, <2>2, <3>2, <4>1 DEF WatchInv, Counted
    <3> QED
      BY <3>1, <3>2
  <2>6. \A n \in Messages : turn[n].at # "none" => turn'[n] = turn[n]
    BY <2>2, <2>4
  <2>7. Subscribed(w, m, turn'[m]) /\ turn'[m] \in Turn
    BY <1>3, <2>0, <2>1, <2>2
  <2>8. watch'[w].turn = m /\ \A v \in Sockets : v # w => watch'[v] = watch[v]
    BY <2>7, SubscribedEffect
  <2>9. turn'[m].at # "none" /\ turn'[m].key \in WebKeys
    BY <2>1, <2>2
  <2>10. ASSUME NEW n \in Messages \cup {0}, Watchable(n)
         PROVE  n # 0 => turn'[n].at # "none" /\ turn'[n].key \in WebKeys
    BY <2>6, <2>10 DEF Watchable
  <2>11. \A v \in Sockets : attach[v] \in Messages \cup {0} /\ watch[v].turn \in Messages \cup {0}
    <3>1. \A v \in Sockets : attach[v] \in 0 .. MaxMessages /\ watch[v] \in Watch
      BY DEF TypeOK
    <3> QED
      BY <3>1, WatchFields, PartnerAssumption DEF Messages
  <2>12. \A v \in Sockets : Watchable(attach[v])'
    BY <1>1, <2>10, <2>11 DEF WatchInv, References, Watchable
  <2>13. \A i \in Instances, j \in WebKeys : Watchable(live[i][j])'
    <3> SUFFICES ASSUME NEW i \in Instances, NEW j \in WebKeys PROVE Watchable(live[i][j])'
      OBVIOUS
    <3>1. live[i][j] \in Messages \cup {0} /\ Watchable(live[i][j])
      BY PartnerAssumption DEF TypeOK, Messages, WatchInv, References
    <3>2. live'[i][j] = m \/ live'[i][j] = live[i][j]
      <4>1. live \in [Instances -> [WebKeys -> 0 .. MaxMessages]]
        BY DEF TypeOK
      <4> QED
        BY <1>1, <1>3, <2>0, <4>1
    <3> QED
      BY <2>9, <2>10, <3>1, <3>2 DEF Watchable
  <2>14. \A v \in Sockets : Watchable(watch[v].turn)'
    <3> SUFFICES ASSUME NEW v \in Sockets PROVE Watchable(watch[v].turn)'
      OBVIOUS
    <3>1. CASE v = w
      BY <2>8, <2>9, <3>1 DEF Watchable
    <3>2. CASE v # w
      BY <2>8, <2>10, <2>11, <3>2 DEF WatchInv, References, Watchable
    <3> QED
      BY <3>1, <3>2
  <2>15. References'
    BY <2>12, <2>13, <2>14 DEF References
  <2> QED
    BY <1>1, <2>5, <2>6, <2>7, <2>15, WatchSubscribed
<1> QED
  BY <1>2, <1>3, SendWebEffect

\* What a socket refers to stays what it is.
LEMMA WatchKept ==
  ASSUME TypeOK, TypeOK', WatchInv, Counted', UNCHANGED watch,
         \A m \in Messages :
            turn[m].at # "none" => /\ turn'[m].at # "none"
                                   /\ turn'[m].key = turn[m].key
                                   /\ turn'[m].frames = turn[m].frames
                                   /\ turn'[m].end = turn[m].end,
         \A i \in Instances, k \in WebKeys : live'[i][k] = live[i][k],
         \A w \in Sockets : Watchable(attach'[w])
  PROVE  WatchInv'
<1>1. ASSUME NEW n \in Messages \cup {0}, Watchable(n)
      PROVE  n # 0 => turn'[n].at # "none" /\ turn'[n].key \in WebKeys
  BY <1>1 DEF Watchable
<1>2. \A i \in Instances, k \in WebKeys : Watchable(live[i][k])'
  <2>1. \A i \in Instances, k \in WebKeys : live[i][k] \in Messages \cup {0}
    BY PartnerAssumption DEF TypeOK, Messages
  <2> QED
    BY <1>1, <2>1 DEF WatchInv, References, Watchable
<1>3. \A w \in Sockets : Watchable(attach[w])'
  <2>1. \A w \in Sockets : attach'[w] \in Messages \cup {0}
    BY PartnerAssumption DEF TypeOK, Messages
  <2> QED
    BY <1>1, <2>1 DEF Watchable
<1>4. \A w \in Sockets : watch[w].turn # 0 => watch[w].turn \in Messages
  BY WatchedTurn
<1>5. \A w \in Sockets : Watchable(watch[w].turn)'
  BY <1>1, <1>4 DEF WatchInv, References, Watchable
<1>6. ASSUME NEW w \in Sockets, watch[w].turn # 0
      PROVE  /\ watch[w].on <=> turn'[watch[w].turn].end = "none"
             /\ watch[w].got = [n \in 1 .. turn'[watch[w].turn].frames |-> n]
             /\ watch[w].end = turn'[watch[w].turn].end
  <2>1. PICK n \in Messages : n = watch[w].turn
    BY <1>4, <1>6
  <2>2. /\ turn[n].at # "none"
        /\ watch[w].on <=> turn[n].end = "none"
        /\ watch[w].got = [j \in 1 .. turn[n].frames |-> j]
        /\ watch[w].end = turn[n].end
    BY <1>6, <2>1, WatchedTurn
  <2>3. turn'[n].frames = turn[n].frames /\ turn'[n].end = turn[n].end
    BY <2>2
  <2> QED
    BY <2>1, <2>2, <2>3
<1>7. SocketsSeeAll'
  BY <1>6 DEF SocketsSeeAll
<1>8. Ongoing'
  BY <1>6 DEF Ongoing
<1> QED
  BY <1>2, <1>3, <1>5, <1>7, <1>8 DEF WatchInv, References

\* A message that no socket watches yet.
LEMMA WatchNew ==
  ASSUME TypeOK, TypeOK', WatchInv, NEW i \in Instances, NEW k \in Keys,
         NEW at \in {"inbox", "new"}, count' = count + 1, count' \in Messages,
         turn' = [turn EXCEPT ![count'] = New(at, k, i)], UNCHANGED web
  PROVE  WatchInv'
<1>1. /\ count' = count + 1 /\ count' \in Messages
      /\ turn' = [turn EXCEPT ![count'] = New(at, k, i)]
      /\ UNCHANGED web
  OBVIOUS
<1>2. PICK m \in Messages : m = count'
  BY <1>1
<1>3. New(at, k, i).at = at /\ New(at, k, i).end = "none"
  BY NewTurn DEF Stages
<1>4. /\ turn'[m].at \in {"inbox", "new"} /\ turn'[m].end = "none"
      /\ \A n \in Messages : n # m => turn'[n] = turn[n]
  BY <1>1, <1>2, <1>3 DEF TypeOK
<1>5. m = count + 1 /\ count \in Nat
  BY <1>1, <1>2 DEF TypeOK
<1>6. turn[m].at = "none"
  BY <1>5, MessageNumbers DEF WatchInv, Counted
<1>7. Counted'
  <2> SUFFICES ASSUME NEW n \in Messages
               PROVE  /\ turn'[n].at # "none" <=> n =< count'
                      /\ turn'[n].at # "over" => turn'[n].end = "none"
    BY DEF Counted
  <2>1. CASE n = m
    BY <1>2, <1>4, <2>1, MessageNumbers
  <2>2. CASE n # m
    <3>1. n =< m <=> n =< count
      BY <1>5, <2>2, MessageNumbers
    <3> QED
      BY <1>2, <1>4, <2>2, <3>1 DEF WatchInv, Counted
  <2> QED
    BY <2>1, <2>2
<1>8. \A n \in Messages : turn[n].at # "none" => turn'[n] = turn[n]
  BY <1>4, <1>6
<1>9. \A w \in Sockets : Watchable(attach'[w])
  BY <1>1 DEF WatchInv, References, web
<1> QED
  BY <1>1, <1>7, <1>8, <1>9, WatchKept DEF web

LEMMA WatchReceive ==
  ASSUME TypeOK, WatchInv, NEW i \in Instances, NEW k \in ImKeys, Receive(i, k)
  PROVE  WatchInv'
<1>1. k \in Keys
  BY DEF Keys
<1> QED
  BY <1>1, ReceiveEffect, WatchNew

LEMMA WatchHttp ==
  ASSUME TypeOK, WatchInv, NEW k \in WebKeys, SendHttp(k)
  PROVE  WatchInv'
<1>1. k \in Keys
  BY DEF Keys
<1> QED
  BY <1>1, SendHttpEffect, WatchNew

LEMMA WatchConsume ==
  ASSUME TypeOK, LineInv, WatchInv, NEW i \in Instances, Consume(i)
  PROVE  WatchInv'
<1> DEFINE m == Head(inbox[i])
           t == [turn[m] EXCEPT !.at = "new"]
<1>1. /\ TypeOK' /\ m \in Messages /\ inbox[i] # <<>>
      /\ turn' = [turn EXCEPT ![m] = t]
      /\ UNCHANGED <<count, web>>
  BY ConsumeEffect
<1>2. turn[m] \in Turn /\ turn \in [Messages -> Turn] /\ inbox[i] \in Seq(Messages)
  BY <1>1 DEF TypeOK
<1>3. t.at = "new" /\ t.key = turn[m].key /\ t.frames = turn[m].frames /\ t.end = turn[m].end
  BY <1>2 DEF Turn
<1>4. turn[m].at = "inbox"
  <2>1. m \in Members(inbox[i])
    BY <1>1, <1>2, TailFacts DEF Members
  <2> QED
    BY <1>1, <2>1 DEF LineInv, InboxInv
<1> HIDE DEF m, t
<1>5. turn'[m] = t /\ \A n \in Messages : n # m => turn'[n] = turn[n]
  BY <1>1, <1>2
<1>6. Counted'
  BY <1>1, <1>3, <1>4, <1>5 DEF WatchInv, Counted
<1>7. \A n \in Messages : turn[n].at # "none" => /\ turn'[n].at # "none"
                                                 /\ turn'[n].key = turn[n].key
                                                 /\ turn'[n].frames = turn[n].frames
                                                 /\ turn'[n].end = turn[n].end
  BY <1>3, <1>5
<1>8. \A w \in Sockets : Watchable(attach'[w])
  BY <1>1 DEF WatchInv, References, web
<1> QED
  BY <1>1, <1>6, <1>7, <1>8, WatchKept DEF web

LEMMA WatchAttach ==
  ASSUME TypeOK, WatchInv, NEW w \in Sockets, NEW k \in WebKeys, Attach(w, k)
  PROVE  WatchInv'
<1>1. /\ TypeOK' /\ UNCHANGED <<turn, count, live, watch>> /\ registered \in Instances
      /\ attach' = [attach EXCEPT ![w] = live[registered][k]]
  BY AttachEffect
<1>2. Counted'
  BY <1>1 DEF WatchInv, Counted
<1>3. \A v \in Sockets : attach'[v] = attach[v] \/ attach'[v] = live[registered][k]
  BY <1>1 DEF TypeOK
<1>4. \A v \in Sockets : Watchable(attach'[v])
  BY <1>1, <1>3 DEF WatchInv, References
<1> QED
  BY <1>1, <1>2, <1>4, WatchKept

LEMMA WatchAttached ==
  ASSUME TypeOK, WatchInv, NEW w \in Sockets, Attached(w)
  PROVE  WatchInv'
<1>1. /\ TypeOK' /\ UNCHANGED <<turn, count, live>> /\ attach[w] \in Messages
      /\ Subscribed(w, attach[w], turn[attach[w]])
      /\ attach' = [attach EXCEPT ![w] = 0]
  BY AttachedEffect
<1>2. Counted'
  BY <1>1 DEF WatchInv, Counted
<1>3. PICK m \in Messages : m = attach[w]
  BY <1>1
<1>4. turn'[m] \in Turn /\ Subscribed(w, m, turn'[m])
  BY <1>1, <1>3 DEF TypeOK
<1>5. watch'[w].turn = m /\ \A v \in Sockets : v # w => watch'[v] = watch[v]
  BY <1>4, SubscribedEffect
<1>6. \A v \in Sockets : attach'[v] = attach[v] \/ attach'[v] = 0
  BY <1>1 DEF TypeOK
<1>7. Watchable(m)
  BY <1>3 DEF WatchInv, References
<1>8. References'
  BY <1>1, <1>5, <1>6, <1>7 DEF WatchInv, References, Watchable
<1> QED
  BY <1>1, <1>2, <1>4, <1>8, WatchSubscribed

LEMMA WatchEmit ==
  ASSUME TypeOK, WatchInv, NEW m \in Messages, Emit(m)
  PROVE  WatchInv'
<1>1. /\ TypeOK' /\ Quiet
      /\ turn'[m].frames = turn[m].frames + 1 /\ turn'[m].end = turn[m].end
      /\ \A n \in Messages : n # m => turn'[n] = turn[n]
      /\ UNCHANGED <<live, attach>>
  BY EmitEffect
<1>2. turn[m].at = "run" /\ turn[m].end = "none" /\ turn[m].frames \in Nat
  BY TurnFields DEF Emit, Goes, WatchInv, Counted, TypeOK
<1>3. Emitted(m, turn[m].frames + 1)
  BY DEF Emit
<1>4. Counted'
  BY <1>1 DEF WatchInv, Counted, Quiet
<1>5. ASSUME NEW w \in Sockets
      PROVE  /\ watch'[w].turn = watch[w].turn
             /\ watch'[w].on = watch[w].on
             /\ watch'[w].end = watch[w].end
             /\ watch[w].turn # m => watch'[w].got = watch[w].got
             /\ watch[w].turn = m => watch'[w].got = [n \in 1 .. turn[m].frames + 1 |-> n]
  <2>1. watch[w] \in Watch /\ m # 0
    BY DEF TypeOK, Messages
  <2> DEFINE g == Append(watch[w].got, turn[m].frames + 1)
             r == [watch[w] EXCEPT !.got = g]
  <2>2. r.turn = watch[w].turn /\ r.on = watch[w].on /\ r.end = watch[w].end /\ r.got = g
    BY <2>1 DEF Watch
  <2>3. watch'[w] = IF watch[w].turn = m /\ watch[w].on THEN r ELSE watch[w]
    BY <1>3 DEF Emitted
  <2> HIDE DEF r
  <2>4. CASE watch[w].turn = m
    <3>1. watch[w].on /\ watch[w].got = [n \in 1 .. turn[m].frames |-> n]
      BY <1>2, <2>1, <2>4, WatchedTurn
    <3>2. g = [n \in 1 .. turn[m].frames + 1 |-> n]
      <4> DEFINE h == [n \in 1 .. turn[m].frames + 1 |-> n]
      <4>1. watch[w].got \in Seq(Nat) /\ Len(watch[w].got) = turn[m].frames
        BY <1>2, <2>1, <3>1, WatchFields
      <4>2. /\ g \in Seq(Nat) /\ Len(g) = turn[m].frames + 1
            /\ \A n \in 1 .. turn[m].frames : g[n] = watch[w].got[n]
            /\ g[turn[m].frames + 1] = turn[m].frames + 1
        BY <1>2, <4>1, AppendFacts
      <4>3. h \in Seq(Nat) /\ Len(h) = turn[m].frames + 1
        BY <1>2
      <4> HIDE DEF g
      <4>4. \A n \in 1 .. turn[m].frames + 1 : g[n] = h[n]
        <5> SUFFICES ASSUME NEW n \in 1 .. turn[m].frames + 1 PROVE g[n] = h[n]
          OBVIOUS
        <5>1. h[n] = n
          OBVIOUS
        <5>2. CASE n = turn[m].frames + 1
          BY <4>2, <5>1, <5>2
        <5>3. CASE n \in 1 .. turn[m].frames
          BY <3>1, <4>2, <5>1, <5>3
        <5> QED
          BY <1>2, <5>2, <5>3
      <4> HIDE DEF h
      <4>5. g = h
        BY <4>2, <4>3, <4>4, SeqEqual
      <4> QED
        BY <4>5 DEF h
    <3> QED
      BY <2>2, <2>3, <2>4, <3>1, <3>2
  <2>5. CASE watch[w].turn # m
    BY <2>3, <2>5
  <2> QED
    BY <2>4, <2>5
<1>6. ASSUME NEW w \in Sockets, watch[w].turn # 0
      PROVE  /\ watch'[w].on <=> turn'[watch'[w].turn].end = "none"
             /\ watch'[w].got = [n \in 1 .. turn'[watch'[w].turn].frames |-> n]
             /\ watch'[w].end = turn'[watch'[w].turn].end
  <2> DEFINE n == watch[w].turn
  <2>1. /\ n \in Messages
        /\ watch[w].on <=> turn[n].end = "none"
        /\ watch[w].got = [j \in 1 .. turn[n].frames |-> j]
        /\ watch[w].end = turn[n].end
    BY <1>6, WatchedTurn
  <2> HIDE DEF n
  <2>2. watch'[w].turn = n /\ watch'[w].on = watch[w].on /\ watch'[w].end = watch[w].end
    BY <1>5 DEF n
  <2>3. CASE n = m
    <3>1. watch'[w].got = [j \in 1 .. turn'[m].frames |-> j]
      BY <1>1, <1>5, <2>3 DEF n
    <3> QED
      BY <1>1, <2>1, <2>2, <2>3, <3>1
  <2>4. CASE n # m
    <3>1. turn'[n] = turn[n] /\ watch'[w].got = watch[w].got
      BY <1>1, <1>5, <2>1, <2>4 DEF n
    <3> QED
      BY <2>1, <2>2, <3>1
  <2> QED
    BY <2>3, <2>4
<1>7. SocketsSeeAll' /\ Ongoing'
  BY <1>5, <1>6 DEF SocketsSeeAll, Ongoing
<1>8. References'
  <2>1. ASSUME NEW n \in Messages \cup {0}, Watchable(n)
        PROVE  n # 0 => turn'[n].at # "none" /\ turn'[n].key \in WebKeys
    BY <1>1, <2>1 DEF Watchable, Quiet
  <2>2. \A w \in Sockets : watch[w].turn \in Messages \cup {0}
    BY WatchedTurn
  <2>3. \A w \in Sockets : attach[w] \in Messages \cup {0}
    BY DEF TypeOK, Messages
  <2>4. \A i \in Instances, k \in WebKeys : live[i][k] \in Messages \cup {0}
    BY DEF TypeOK, Messages
  <2>5. \A w \in Sockets : Watchable(watch[w].turn)'
    BY <1>5, <2>1, <2>2 DEF WatchInv, References, Watchable
  <2>6. \A w \in Sockets : Watchable(attach[w])'
    BY <1>1, <2>1, <2>3 DEF WatchInv, References, Watchable
  <2>7. \A i \in Instances, k \in WebKeys : Watchable(live[i][k])'
    BY <1>1, <2>1, <2>4 DEF WatchInv, References, Watchable
  <2> QED
    BY <2>5, <2>6, <2>7 DEF References
<1> QED
  BY <1>4, <1>7, <1>8 DEF WatchInv

----------------------------------------------------------------------------
(* The messages of a line *)

LEMMA LineInit == Init => LineInv
<1> SUFFICES ASSUME Init PROVE LineInv
  OBVIOUS
<1>1. \A m \in Messages : turn[m].at = "none" /\ ~(m =< 0)
  BY MessageNumbers DEF Init, NoTurn, Messages
<1>2. Known
  BY <1>1 DEF Init, Known
<1>3. InboxInv
  BY <1>1 DEF Init, InboxInv, Increasing, Members
<1>4. ReadyInv
  BY <1>1 DEF Init, ReadyInv, Members
<1>5. LockInv
  <2>1. \A i \in Instances, k \in Keys : lock[i][k] = <<>>
    BY DEF Init
  <2> QED
    BY <1>1, <2>1 DEF LockInv, Increasing, Members, Locks
<1>6. BegunInv
  BY <1>1 DEF BegunInv, Begun
<1>7. LogInv /\ TurnsFollow
  BY DEF Init, LogInv, TurnsFollow
<1> QED
  BY <1>2, <1>3, <1>4, <1>5, <1>6, <1>7 DEF LineInv

LEMMA TypedLines ==
  ASSUME TypeOK
  PROVE  /\ \A i \in Instances : inbox[i] \in Seq(Messages) /\ inbox[i] \in Seq(Nat)
         /\ ready \in Seq(Messages)
         /\ log \in Seq(Messages)
         /\ \A p \in DOMAIN ready : ready[p] \in Messages
         /\ \A p \in DOMAIN log : log[p] \in Messages
<1>1. \A i \in Instances : inbox[i] \in Seq(Messages)
  BY DEF TypeOK
<1>2. \A i \in Instances : inbox[i] \in Seq(Nat)
  BY <1>1, MessageNumbers
<1>3. ready \in Seq(Messages) /\ log \in Seq(Messages)
  BY DEF TypeOK
<1> QED
  BY <1>1, <1>2, <1>3

LEMMA LineQuiet ==
  ASSUME TypeOK, LineInv, Quiet
  PROVE  LineInv'
<1>1. /\ \A m \in Messages :
           /\ turn'[m].at = turn[m].at
           /\ turn'[m].key = turn[m].key
           /\ turn'[m].inst = turn[m].inst
           /\ turn'[m].read = turn[m].read
      /\ inbox' = inbox /\ ready' = ready /\ lock' = lock /\ log' = log /\ count' = count
  BY DEF Quiet
<1>2. Known'
  BY <1>1 DEF LineInv, Known
<1>3. InboxInv'
  BY <1>1 DEF LineInv, InboxInv
<1>4. ReadyInv'
  BY <1>1, TypedLines DEF LineInv, ReadyInv, Ahead
<1>5. LockInv'
  BY <1>1 DEF LineInv, LockInv, Locks, HasLock, Queue
<1>6. BegunInv'
  BY <1>1 DEF LineInv, BegunInv, Begun, Ahead
<1>7. LogInv'
  BY <1>1, TypedLines DEF LineInv, LogInv, SameLine, Locks
<1>8. TurnsFollow'
  BY <1>1, TypedLines DEF LineInv, TurnsFollow, SameLine
<1> QED
  BY <1>2, <1>3, <1>4, <1>5, <1>6, <1>7, <1>8 DEF LineInv

LEMMA LineDelete ==
  ASSUME TypeOK, LineInv, DeleteSession
  PROVE  TypeOK' /\ LineInv' /\ (WatchInv => WatchInv')
<1>1. log' = <<>> /\ UNCHANGED <<lifecycle, bus, count, tasks, web>>
  BY DEF DeleteSession
<1>2. TypeOK'
  BY <1>1, EmptySeq DEF TypeOK, lifecycle, bus, tasks, web
<1>3. Known' /\ InboxInv' /\ ReadyInv' /\ LockInv' /\ BegunInv'
  <2>1. UNCHANGED <<turn, inbox, ready, lock, count>>
    BY <1>1 DEF bus, tasks
  <2>2. \A a, b : (Ahead(a, b)' <=> Ahead(a, b)) /\ (Begun(a)' <=> Begun(a))
                 /\ (Locks(a)' <=> Locks(a)) /\ (HasLock(a)' <=> HasLock(a))
    BY <2>1 DEF Ahead, Begun, Locks, HasLock, Queue
  <2> QED
    BY <2>1, <2>2 DEF LineInv, Known, InboxInv, ReadyInv, LockInv, BegunInv
<1>4. LogInv' /\ TurnsFollow'
  BY <1>1 DEF LogInv, TurnsFollow
<1>5. WatchInv => WatchInv'
  BY <1>1 DEF WatchInv, Counted, References, Ongoing, SocketsSeeAll, Watchable, tasks, web
<1> QED
  BY <1>2, <1>3, <1>4, <1>5 DEF LineInv

\* The file is not touched, and nobody gets its lock.
LEMMA LogKept ==
  ASSUME TypeOK, LineInv, log' = log, NEW m \in Messages,
         \A n \in Messages : n # m => turn'[n] = turn[n],
         turn[m].at # "over", ~Locks(m)'
  PROVE  LogInv' /\ TurnsFollow'
<1>1. \A p \in DOMAIN log : log[p] \in Messages /\ turn[log[p]].at = "over"
  BY TypedLines DEF LineInv, LogInv
<1>2. \A p \in DOMAIN log : turn'[log[p]] = turn[log[p]]
  BY <1>1
<1>3. LogInv'
  BY <1>1, <1>2 DEF LineInv, LogInv, SameLine, Locks
<1>4. TurnsFollow'
  BY <1>1, <1>2 DEF LineInv, TurnsFollow, SameLine
<1> QED
  BY <1>3, <1>4

\* The locks are not touched, and nobody gets one.
LEMMA LockKept ==
  ASSUME TypeOK, LineInv, lock' = lock, NEW m \in Messages,
         \A n \in Messages : n # m => turn'[n] = turn[n],
         ~Locks(m), ~Locks(m)'
  PROVE  LockInv'
<1>1. turn'[m].at # "run" /\ turn[m].at # "run"
  BY DEF Locks
<1>2. ASSUME NEW i \in Instances, NEW k \in Keys
      PROVE  /\ Increasing(lock'[i][k])
             /\ \A n \in Messages :
                  n \in Members(lock'[i][k]) <=> Locks(n)' /\ turn'[n].inst = i /\ turn'[n].key = k
  BY DEF LineInv, LockInv, Locks
<1>3. \A n \in Messages : turn'[n].at = "run" => HasLock(n)'
  BY <1>1 DEF LineInv, LockInv, HasLock, Queue
<1> QED
  BY <1>2, <1>3 DEF LockInv

LEMMA LineReceive ==
  ASSUME TypeOK, LineInv, NEW i \in Instances, NEW k \in ImKeys, Receive(i, k)
  PROVE  LineInv'
<1>1. /\ TypeOK' /\ count' = count + 1 /\ count' \in Messages
      /\ turn' = [turn EXCEPT ![count'] = New("inbox", k, i)]
      /\ inbox' = [inbox EXCEPT ![i] = Append(@, count')]
      /\ UNCHANGED <<ready, lock, log>>
  BY ReceiveEffect
<1>2. PICK m \in Messages : m = count'
  BY <1>1
<1>3. /\ New("inbox", k, i).at = "inbox" /\ New("inbox", k, i).key = k
      /\ New("inbox", k, i).inst = i /\ k \in Keys
  BY NewTurn DEF Keys, Stages
<1>4. /\ turn'[m].at = "inbox" /\ turn'[m].key = k /\ turn'[m].inst = i
      /\ \A n \in Messages : n # m => turn'[n] = turn[n]
  BY <1>1, <1>2, <1>3 DEF TypeOK
<1>5. m = count + 1 /\ count \in Nat
  BY <1>1, <1>2 DEF TypeOK
<1>6. turn[m].at = "none" /\ \A n \in Messages : turn[n].at # "none" => n < m
  BY <1>5, MessageNumbers DEF LineInv, Known
<1>7. ~Locks(m) /\ ~Locks(m)'
  BY <1>4, <1>6 DEF Locks
<1>8. Known'
  <2> SUFFICES ASSUME NEW n \in Messages
               PROVE  /\ turn'[n].at # "none" <=> n =< count'
                      /\ turn'[n].at # "none" => turn'[n].key \in Keys /\ turn'[n].inst \in Instances
                      /\ turn'[n].at = "inbox" => turn'[n].key \in ImKeys
    BY DEF Known
  <2>1. CASE n = m
    BY <1>2, <1>3, <1>4, <2>1, MessageNumbers
  <2>2. CASE n # m
    <3>1. n =< m <=> n =< count
      BY <1>5, <2>2, MessageNumbers
    <3> QED
      BY <1>2, <1>4, <2>2, <3>1 DEF LineInv, Known
  <2> QED
    BY <2>1, <2>2
<1>9. InboxInv'
  <2> SUFFICES ASSUME NEW j \in Instances
               PROVE  /\ Increasing(inbox'[j])
                      /\ \A n \in Messages :
                           n \in Members(inbox'[j]) <=> turn'[n].at = "inbox" /\ turn'[n].inst = j
    BY DEF InboxInv
  <2>1. /\ Increasing(inbox[j])
        /\ \A n \in Messages :
             n \in Members(inbox[j]) <=> turn[n].at = "inbox" /\ turn[n].inst = j
    BY DEF LineInv, InboxInv
  <2>2. CASE j = i
    <3>1. inbox'[i] = Append(inbox[i], m)
      BY <1>1, <1>2 DEF TypeOK
    <3>2. inbox[i] \in Seq(Nat) /\ m \in Nat /\ Members(inbox[i]) \subseteq Messages
      BY TypedLines, MessageNumbers, MembersFacts
    <3>3. \A x \in Members(inbox[i]) : x < m
      BY <1>6, <2>1, <2>2, <3>2
    <3>4. Increasing(Append(inbox[i], m)) /\ Members(Append(inbox[i], m)) = Members(inbox[i]) \cup {m}
      BY <2>1, <2>2, <3>2, <3>3, AppendIncreasing
    <3> QED
      BY <1>4, <1>6, <2>1, <2>2, <3>1, <3>4
  <2>3. CASE j # i
    <3>1. inbox'[j] = inbox[j]
      BY <1>1, <2>3 DEF TypeOK
    <3> QED
      BY <1>4, <1>6, <2>1, <2>3, <3>1
  <2> QED
    BY <2>2, <2>3
<1>10. ReadyInv'
  <2>1. \A p \in DOMAIN ready : turn[ready[p]].at = "new" /\ ready[p] \in Messages
    BY TypedLines DEF LineInv, ReadyInv, Members
  <2>2. \A p \in DOMAIN ready : turn'[ready[p]] = turn[ready[p]]
    BY <1>4, <1>6, <2>1
  <2>3. \A n \in Messages : n \in Members(ready') <=> turn'[n].at = "new"
    BY <1>1, <1>4, <1>6 DEF LineInv, ReadyInv
  <2>4. \A p, q \in DOMAIN ready' :
           p < q => ready'[p] # ready'[q] /\ ~Ahead(ready[q], ready[p])'
    BY <1>1, <2>2 DEF LineInv, ReadyInv, Ahead
  <2> QED
    BY <2>3, <2>4 DEF ReadyInv
<1>11. LockInv'
  BY <1>1, <1>4, <1>7, LockKept
<1>12. BegunInv'
  <2> SUFFICES ASSUME NEW a \in Messages, NEW b \in Messages, Ahead(a, b)'
               PROVE  /\ turn'[b].at = "new" => turn'[a].at # "inbox"
                      /\ Begun(b)' => Begun(a)'
    BY DEF BegunInv
  <2>1. CASE b = m
    BY <1>4, <2>1 DEF Begun
  <2>2. CASE b # m /\ a = m
    <3>1. ~(b < m)
      BY <2>2, MessageNumbers DEF Ahead
    <3>2. turn'[b].at = "none"
      BY <1>4, <1>6, <2>2, <3>1
    <3> QED
      BY <3>2 DEF Begun
  <2>3. CASE b # m /\ a # m
    BY <1>4, <2>3 DEF LineInv, BegunInv, Begun, Ahead
  <2> QED
    BY <2>1, <2>2, <2>3
<1>13. LogInv' /\ TurnsFollow'
  BY <1>1, <1>4, <1>6, <1>7, LogKept
<1> QED
  BY <1>8, <1>9, <1>10, <1>11, <1>12, <1>13 DEF LineInv

\* A new task of a web client stands behind every earlier one.
LEMMA LineNew ==
  ASSUME TypeOK, TypeOK', LineInv, NEW k \in WebKeys, registered \in Instances,
         UNCHANGED <<inbox, lock, log>>, count' = count + 1, count' \in Messages,
         turn' = [turn EXCEPT ![count'] = New("new", k, registered)],
         ready' = Append(ready, count')
  PROVE  LineInv'
<1>1. /\ TypeOK' /\ registered \in Instances /\ UNCHANGED <<inbox, lock, log>>
  OBVIOUS
<1>2. /\ count' = count + 1 /\ count' \in Messages
      /\ turn' = [turn EXCEPT ![count'] = New("new", k, registered)]
      /\ ready' = Append(ready, count')
  OBVIOUS
<1>4. PICK m \in Messages : m = count'
  BY <1>2
<1>5. /\ New("new", k, registered).at = "new" /\ New("new", k, registered).key = k
      /\ New("new", k, registered).inst = registered /\ k \in Keys /\ k \notin ImKeys
  BY <1>1, NewTurn, PartnerAssumption DEF Keys, Stages
<1>6. /\ turn'[m].at = "new" /\ turn'[m].key = k /\ turn'[m].inst = registered
      /\ \A n \in Messages : n # m => turn'[n] = turn[n]
  BY <1>2, <1>4, <1>5 DEF TypeOK
<1>7. m = count + 1 /\ count \in Nat
  BY <1>2, <1>4 DEF TypeOK
<1>8. turn[m].at = "none" /\ \A n \in Messages : turn[n].at # "none" => n < m
  BY <1>7, MessageNumbers DEF LineInv, Known
<1>9. ~Locks(m) /\ ~Locks(m)'
  BY <1>6, <1>8 DEF Locks
<1>10. Known'
  <2> SUFFICES ASSUME NEW n \in Messages
               PROVE  /\ turn'[n].at # "none" <=> n =< count'
                      /\ turn'[n].at # "none" => turn'[n].key \in Keys /\ turn'[n].inst \in Instances
                      /\ turn'[n].at = "inbox" => turn'[n].key \in ImKeys
    BY DEF Known
  <2>1. CASE n = m
    BY <1>1, <1>4, <1>5, <1>6, <2>1, MessageNumbers
  <2>2. CASE n # m
    <3>1. n =< m <=> n =< count
      BY <1>7, <2>2, MessageNumbers
    <3> QED
      BY <1>4, <1>6, <2>2, <3>1 DEF LineInv, Known
  <2> QED
    BY <2>1, <2>2
<1>11. InboxInv'
  BY <1>1, <1>6, <1>8 DEF LineInv, InboxInv
<1>12. ReadyInv'
  <2>1. /\ ready \in Seq(Messages) /\ ready' = Append(ready, m)
        /\ Len(ready') = Len(ready) + 1 /\ ready'[Len(ready) + 1] = m
        /\ \A p \in 1 .. Len(ready) : ready'[p] = ready[p]
    BY <1>2, <1>4, TypedLines, AppendFacts
  <2>2. /\ DOMAIN ready = 1 .. Len(ready) /\ DOMAIN ready' = 1 .. Len(ready) + 1
        /\ Len(ready) \in Nat
    <3>1. ready' \in Seq(Messages)
      BY <1>1 DEF TypeOK
    <3> QED
      BY <2>1, <3>1
  <2>3. \A p \in DOMAIN ready : /\ ready[p] \in Messages /\ turn[ready[p]].at = "new"
                                /\ ready[p] < m
    BY <1>8, TypedLines DEF LineInv, ReadyInv, Members
  <2>4. \A p \in DOMAIN ready : turn'[ready[p]] = turn[ready[p]] /\ ready[p] # m
    BY <1>6, <2>3, MessageNumbers
  <2>5. \A n \in Messages : n \in Members(ready') <=> turn'[n].at = "new"
    <3>1. \A n \in Messages : n \in Members(ready') <=> n = m \/ n \in Members(ready)
      BY <2>1, <2>2 DEF Members
    <3> QED
      BY <1>6, <1>8, <3>1 DEF LineInv, ReadyInv
  <2>6. ASSUME NEW p \in DOMAIN ready', NEW q \in DOMAIN ready', p < q
        PROVE  ready'[p] # ready'[q] /\ ~Ahead(ready[q], ready[p])'
    <3>1. p \in DOMAIN ready /\ ready'[p] = ready[p]
      BY <2>1, <2>2, <2>6
    <3>2. CASE q = Len(ready) + 1
      BY <2>1, <2>3, <2>4, <3>1, <3>2, MessageNumbers DEF Ahead
    <3>3. CASE q # Len(ready) + 1
      <4>1. q \in DOMAIN ready /\ ready'[q] = ready[q]
        BY <2>1, <2>2, <3>3
      <4> QED
        BY <2>4, <2>6, <3>1, <4>1 DEF LineInv, ReadyInv, Ahead
    <3> QED
      BY <3>2, <3>3
  <2> QED
    BY <2>5, <2>6 DEF ReadyInv
<1>13. LockInv'
  BY <1>1, <1>6, <1>9, LockKept
<1>14. BegunInv'
  <2> SUFFICES ASSUME NEW a \in Messages, NEW b \in Messages, Ahead(a, b)'
               PROVE  /\ turn'[b].at = "new" => turn'[a].at # "inbox"
                      /\ Begun(b)' => Begun(a)'
    BY DEF BegunInv
  <2>1. CASE b = m
    BY <1>5, <1>6, <1>10, <2>1 DEF Begun, Ahead, Known
  <2>2. CASE b # m /\ a = m
    <3>1. ~(b < m)
      BY <2>2, MessageNumbers DEF Ahead
    <3>2. turn'[b].at = "none"
      BY <1>6, <1>8, <2>2, <3>1
    <3> QED
      BY <3>2 DEF Begun
  <2>3. CASE b # m /\ a # m
    BY <1>6, <2>3 DEF LineInv, BegunInv, Begun, Ahead
  <2> QED
    BY <2>1, <2>2, <2>3
<1>15. LogInv' /\ TurnsFollow'
  BY <1>1, <1>6, <1>8, <1>9, LogKept
<1> QED
  BY <1>10, <1>11, <1>12, <1>13, <1>14, <1>15 DEF LineInv

LEMMA LineSend ==
  ASSUME TypeOK, LineInv, NEW w \in Sockets, NEW k \in WebKeys, SendWeb(w, k)
  PROVE  LineInv'
<1>1. CASE UNCHANGED <<count, turn, ready, live>>
  BY <1>1, SendWebEffect, LineQuiet DEF Quiet
<1>2. CASE /\ count' = count + 1 /\ count' \in Messages
           /\ turn' = [turn EXCEPT ![count'] = New("new", k, registered)]
           /\ ready' = Append(ready, count')
  BY <1>2, SendWebEffect, LineNew
<1> QED
  BY <1>1, <1>2, SendWebEffect

LEMMA TailIncreasing ==
  ASSUME NEW q \in Seq(Nat), q # <<>>, Increasing(q)
  PROVE  /\ Increasing(Tail(q))
         /\ Members(Tail(q)) = Members(q) \ {Head(q)}
         /\ Head(q) \in Members(q)
         /\ \A x \in Members(q) : Head(q) =< x
<1>1. /\ Head(q) = q[1] /\ Len(q) \in Nat \ {0} /\ Tail(q) \in Seq(Nat)
      /\ Len(Tail(q)) = Len(q) - 1
      /\ \A i \in 1 .. Len(q) - 1 : Tail(q)[i] = q[i + 1]
  BY TailFacts
<1>2. 1 \in 1 .. Len(q) /\ DOMAIN q = 1 .. Len(q)
  BY <1>1
<1>3. /\ Without(q, 1) \in Seq(Nat) /\ Len(Without(q, 1)) = Len(q) - 1
      /\ \A i \in 1 .. Len(q) - 1 : Without(q, 1)[i] = IF i < 1 THEN q[i] ELSE q[i + 1]
  BY <1>2, WithoutFacts
<1>4. \A i \in 1 .. Len(q) - 1 : Tail(q)[i] = Without(q, 1)[i]
  BY <1>1, <1>3
<1>5. Tail(q) = Without(q, 1)
  BY <1>1, <1>3, <1>4, SeqEqual
<1>6. Increasing(Tail(q)) /\ Members(Tail(q)) = Members(q) \ {Head(q)}
  BY <1>1, <1>2, <1>5, WithoutIncreasing
<1>7. Head(q) \in Members(q)
  BY <1>1, <1>2 DEF Members
<1>8. \A i \in DOMAIN q : q[1] =< q[i]
  <2> SUFFICES ASSUME NEW i \in DOMAIN q PROVE q[1] =< q[i]
    OBVIOUS
  <2>1. q[1] \in Nat /\ q[i] \in Nat
    BY <1>2
  <2>2. i = 1 \/ q[1] < q[i]
    BY <1>2 DEF Increasing
  <2> QED
    BY <2>1, <2>2
<1> QED
  BY <1>1, <1>6, <1>7, <1>8 DEF Members

LEMMA LineConsume ==
  ASSUME TypeOK, LineInv, NEW i \in Instances, Consume(i)
  PROVE  LineInv'
<1>1. /\ TypeOK' /\ inbox[i] # <<>> /\ Head(inbox[i]) \in Messages
      /\ inbox' = [inbox EXCEPT ![i] = Tail(@)]
      /\ turn' = [turn EXCEPT ![Head(inbox[i])].at = "new"]
      /\ ready' = Append(ready, Head(inbox[i]))
      /\ UNCHANGED <<count, lock, log>>
  BY ConsumeEffect
<1>2. PICK m \in Messages : m = Head(inbox[i])
  BY <1>1
<1>3. /\ turn'[m].at = "new" /\ turn'[m].key = turn[m].key /\ turn'[m].inst = turn[m].inst
      /\ \A n \in Messages : n # m => turn'[n] = turn[n]
  <2>1. turn \in [Messages -> Turn] /\ turn[m] \in Turn
    BY DEF TypeOK
  <2>2. \A t \in Turn : /\ [t EXCEPT !.at = "new"].at = "new"
                        /\ [t EXCEPT !.at = "new"].key = t.key
                        /\ [t EXCEPT !.at = "new"].inst = t.inst
    BY DEF Turn
  <2> QED
    BY <1>1, <1>2, <2>1, <2>2
<1>4. /\ inbox[i] \in Seq(Nat) /\ Increasing(inbox[i])
      /\ \A n \in Messages : n \in Members(inbox[i]) <=> turn[n].at = "inbox" /\ turn[n].inst = i
  BY TypedLines DEF LineInv, InboxInv
<1>5. /\ Increasing(Tail(inbox[i]))
      /\ Members(Tail(inbox[i])) = Members(inbox[i]) \ {m}
      /\ m \in Members(inbox[i])
      /\ \A x \in Members(inbox[i]) : m =< x
  BY <1>1, <1>2, <1>4, TailIncreasing
<1>6. turn[m].at = "inbox" /\ turn[m].inst = i /\ turn[m].key \in ImKeys /\ turn[m].key \notin WebKeys
  BY <1>4, <1>5, PartnerAssumption DEF LineInv, Known
<1>7. ~Locks(m) /\ ~Locks(m)'
  BY <1>3, <1>6 DEF Locks
<1>8. Known'
  BY <1>1, <1>3, <1>6 DEF LineInv, Known
<1>9. InboxInv'
  <2> SUFFICES ASSUME NEW j \in Instances
               PROVE  /\ Increasing(inbox'[j])
                      /\ \A n \in Messages :
                           n \in Members(inbox'[j]) <=> turn'[n].at = "inbox" /\ turn'[n].inst = j
    BY DEF InboxInv
  <2>1. CASE j = i
    <3>1. inbox'[i] = Tail(inbox[i])
      BY <1>1 DEF TypeOK
    <3> QED
      BY <1>3, <1>4, <1>5, <1>6, <2>1, <3>1
  <2>2. CASE j # i
    <3>1. inbox'[j] = inbox[j]
      BY <1>1, <2>2 DEF TypeOK
    <3> QED
      BY <1>3, <1>6, <2>2, <3>1 DEF LineInv, InboxInv
  <2> QED
    BY <2>1, <2>2
<1>10. BegunInv'
  <2> SUFFICES ASSUME NEW a \in Messages, NEW b \in Messages, Ahead(a, b)'
               PROVE  /\ turn'[b].at = "new" => turn'[a].at # "inbox"
                      /\ Begun(b)' => Begun(a)'
    BY DEF BegunInv
  <2>1. Ahead(a, b)
    BY <1>3 DEF Ahead
  <2>2. CASE b = m
    <3>1. ~(m =< a) /\ a # m /\ turn[a].inst = i
      BY <1>6, <2>1, <2>2, MessageNumbers DEF Ahead
    <3>2. turn[a].at # "inbox"
      BY <1>4, <1>5, <3>1
    <3> QED
      BY <1>3, <2>2, <3>1, <3>2 DEF Begun
  <2>3. CASE b # m /\ a = m
    BY <1>3, <1>6, <2>1, <2>3 DEF LineInv, BegunInv, Begun
  <2>4. CASE b # m /\ a # m
    BY <1>3, <2>1, <2>4 DEF LineInv, BegunInv, Begun
  <2> QED
    BY <2>2, <2>3, <2>4
<1>11. ReadyInv'
  <2>1. /\ ready \in Seq(Messages) /\ ready' = Append(ready, m)
        /\ Len(ready') = Len(ready) + 1 /\ ready'[Len(ready) + 1] = m
        /\ \A p \in 1 .. Len(ready) : ready'[p] = ready[p]
    BY <1>1, <1>2, TypedLines, AppendFacts
  <2>2. /\ DOMAIN ready = 1 .. Len(ready) /\ DOMAIN ready' = 1 .. Len(ready) + 1
        /\ Len(ready) \in Nat
    <3>1. ready' \in Seq(Messages)
      BY <1>1 DEF TypeOK
    <3> QED
      BY <2>1, <3>1
  <2>3. \A p \in DOMAIN ready : /\ ready[p] \in Messages /\ turn[ready[p]].at = "new"
                                /\ ready[p] # m /\ turn'[ready[p]] = turn[ready[p]]
    BY <1>3, <1>6, TypedLines DEF LineInv, ReadyInv, Members
  <2>4. \A n \in Messages : n \in Members(ready') <=> turn'[n].at = "new"
    <3>1. \A n \in Messages : n \in Members(ready') <=> n = m \/ n \in Members(ready)
      BY <2>1, <2>2 DEF Members
    <3> QED
      BY <1>3, <1>6, <3>1 DEF LineInv, ReadyInv
  <2>5. \A p \in DOMAIN ready : ~Ahead(m, ready[p])'
    <3> SUFFICES ASSUME NEW p \in DOMAIN ready, Ahead(m, ready[p])' PROVE FALSE
      OBVIOUS
    <3>1. ready'[p] = ready[p]
      BY <2>1, <2>2
    <3>2. Ahead(m, ready[p])
      BY <1>3, <2>3, <3>1 DEF Ahead
    <3> QED
      BY <1>6, <2>3, <3>2 DEF LineInv, BegunInv
  <2>6. ASSUME NEW p \in DOMAIN ready', NEW q \in DOMAIN ready', p < q
        PROVE  ready'[p] # ready'[q] /\ ~Ahead(ready[q], ready[p])'
    <3>1. p \in DOMAIN ready /\ ready'[p] = ready[p]
      BY <2>1, <2>2, <2>6
    <3>2. CASE q = Len(ready) + 1
      BY <2>1, <2>3, <2>5, <3>1, <3>2 DEF Ahead
    <3>3. CASE q # Len(ready) + 1
      <4>1. q \in DOMAIN ready /\ ready'[q] = ready[q]
        BY <2>1, <2>2, <3>3
      <4> QED
        BY <2>3, <2>6, <3>1, <4>1 DEF LineInv, ReadyInv, Ahead
    <3> QED
      BY <3>2, <3>3
  <2> QED
    BY <2>4, <2>6 DEF ReadyInv
<1>12. LockInv'
  BY <1>1, <1>3, <1>7, LockKept
<1>13. LogInv' /\ TurnsFollow'
  BY <1>1, <1>3, <1>6, <1>7, LogKept
<1> QED
  BY <1>8, <1>9, <1>10, <1>11, <1>12, <1>13 DEF LineInv

\* The order of the tasks survives the first step of one of them.
LEMMA BeginOrder ==
  ASSUME TypeOK, LineInv, NEW m \in Messages, Begins(m)
  PROVE  /\ turn[m].at = "new"
         /\ ReadyInv'
         /\ \A x \in Messages :
              Begun(x) /\ turn[x].key = turn[m].key /\ turn[x].inst = turn'[m].inst => x < m
<1>1. /\ ready # <<>> /\ m = Head(ready) /\ ready' = Tail(ready)
      /\ turn[m].key \in ImKeys => turn'[m].inst = turn[m].inst
      /\ \A n \in Messages : n # m => turn'[n] = turn[n]
      /\ turn'[m].at \in {"lock", "run", "over"} /\ turn'[m].key = turn[m].key
  BY DEF Begins, Moves
<1>2. /\ m = ready[1] /\ ready \in Seq(Messages) /\ Len(ready) \in Nat \ {0}
      /\ ready' \in Seq(Messages) /\ Len(ready') = Len(ready) - 1
      /\ \A p \in 1 .. Len(ready) - 1 : ready'[p] = ready[p + 1]
  BY <1>1, TailFacts, TypedLines
<1>3. /\ DOMAIN ready = 1 .. Len(ready) /\ DOMAIN ready' = 1 .. Len(ready) - 1
      /\ 1 \in DOMAIN ready
  BY <1>2
<1>4. turn[m].at = "new"
  BY <1>2, <1>3 DEF LineInv, ReadyInv, Members
<1>5. ASSUME NEW p \in DOMAIN ready'
      PROVE  /\ p + 1 \in DOMAIN ready /\ ready'[p] = ready[p + 1]
             /\ ready[p + 1] # m /\ ready[p + 1] \in Messages
             /\ turn'[ready[p + 1]] = turn[ready[p + 1]]
  <2>1. p + 1 \in DOMAIN ready /\ 1 < p + 1 /\ ready'[p] = ready[p + 1]
    BY <1>2, <1>3
  <2>2. ready[p + 1] # m /\ ready[p + 1] \in Messages
    BY <1>2, <1>3, <2>1 DEF LineInv, ReadyInv
  <2> QED
    BY <1>1, <2>1, <2>2
<1>6. \A n \in Messages : n \in Members(ready') <=> turn'[n].at = "new"
  <2> SUFFICES ASSUME NEW n \in Messages
               PROVE  n \in Members(ready') <=> turn'[n].at = "new"
    OBVIOUS
  <2>1. ASSUME n \in Members(ready') PROVE turn'[n].at = "new"
    <3>1. PICK p \in DOMAIN ready' : n = ready'[p]
      BY <2>1 DEF Members
    <3>2. n = ready[p + 1] /\ p + 1 \in DOMAIN ready /\ turn'[n] = turn[n]
      BY <1>5, <3>1
    <3> QED
      BY <3>2 DEF LineInv, ReadyInv, Members
  <2>2. ASSUME turn'[n].at = "new" PROVE n \in Members(ready')
    <3>1. n # m /\ turn[n].at = "new"
      BY <1>1, <2>2
    <3>2. PICK q \in DOMAIN ready : n = ready[q]
      BY <3>1 DEF LineInv, ReadyInv, Members
    <3>3. q - 1 \in DOMAIN ready' /\ ready'[q - 1] = n
      BY <1>2, <1>3, <3>1, <3>2
    <3> QED
      BY <3>3 DEF Members
  <2> QED
    BY <2>1, <2>2
<1>7. ASSUME NEW p \in DOMAIN ready', NEW q \in DOMAIN ready', p < q
      PROVE  ready'[p] # ready'[q] /\ ~Ahead(ready[q], ready[p])'
  <2>1. p + 1 < q + 1
    BY <1>2, <1>3, <1>7
  <2>2. ready[p + 1] # ready[q + 1] /\ ~Ahead(ready[q + 1], ready[p + 1])
    BY <1>5, <2>1 DEF LineInv, ReadyInv
  <2> QED
    BY <1>5, <2>2 DEF Ahead
<1>8. ReadyInv'
  BY <1>6, <1>7 DEF ReadyInv
<1>9. ASSUME NEW x \in Messages, Begun(x), turn[x].key = turn[m].key, turn[x].inst = turn'[m].inst
      PROVE  x < m
  <2>1. x # m
    BY <1>4, <1>9 DEF Begun
  <2>2. ~(m < x)
    <3> SUFFICES ASSUME m < x PROVE FALSE
      OBVIOUS
    <3>1. turn[m].key \in ImKeys \/ turn[m].key \in WebKeys
      BY <1>4 DEF LineInv, Known, Keys
    <3>2. Ahead(m, x)
      BY <1>1, <1>9, <3>1 DEF Ahead
    <3>3. Begun(m)
      BY <1>9, <3>2 DEF LineInv, BegunInv
    <3> QED
      BY <1>4, <3>3 DEF Begun
  <2> QED
    BY <2>1, <2>2, MessageNumbers
<1> QED
  BY <1>4, <1>8, <1>9

LEMMA LineBegin ==
  ASSUME TypeOK, LineInv, NEW m \in Messages, Begins(m), TypeOK'
  PROVE  LineInv'
<1>1. /\ turn[m].at = "new" /\ ReadyInv'
      /\ \A x \in Messages :
           Begun(x) /\ turn[x].key = turn[m].key /\ turn[x].inst = turn'[m].inst => x < m
  BY BeginOrder
<1>2. /\ ready # <<>> /\ m = Head(ready)
      /\ turn[m].key \in ImKeys => turn'[m].inst = turn[m].inst
      /\ turn'[m].inst \in Instances
      /\ \A n \in Messages : n # m => turn'[n] = turn[n]
      /\ turn'[m].at \in {"lock", "run", "over"} /\ turn'[m].key = turn[m].key
      /\ inbox' = inbox /\ count' = count
  BY DEF Begins, Moves
<1>3. Known'
  BY <1>1, <1>2 DEF LineInv, Known
<1>4. InboxInv'
  BY <1>1, <1>2 DEF LineInv, InboxInv
<1>5. BegunInv'
  <2> SUFFICES ASSUME NEW a \in Messages, NEW b \in Messages, Ahead(a, b)'
               PROVE  /\ turn'[b].at = "new" => turn'[a].at # "inbox"
                      /\ Begun(b)' => Begun(a)'
    BY DEF BegunInv
  <2>1. CASE a = m
    BY <1>2, <2>1 DEF Begun
  <2>2. CASE a # m /\ b = m
    <3>1. turn[m].key \in ImKeys \/ turn[m].key \in WebKeys
      BY <1>1 DEF LineInv, Known, Keys
    <3>2. Ahead(a, m)
      BY <1>2, <2>2, <3>1 DEF Ahead
    <3>3. turn[a].at # "inbox"
      BY <1>1, <3>2 DEF LineInv, BegunInv
    <3>4. turn[a].at # "none"
      <4>1. a \in Nat /\ m \in Nat /\ count \in Nat
        BY MessageNumbers DEF TypeOK
      <4>2. a < m
        BY <3>2 DEF Ahead
      <4>3. m =< count
        BY <1>1 DEF LineInv, Known
      <4>4. a =< count
        BY <4>1, <4>2, <4>3
      <4> QED
        BY <4>4 DEF LineInv, Known
    <3>5. turn[a].at # "new"
      <4> SUFFICES ASSUME turn[a].at = "new" PROVE FALSE
        OBVIOUS
      <4>1. ready \in Seq(Messages) /\ ready[1] = m /\ DOMAIN ready = 1 .. Len(ready)
        BY <1>2, TailFacts, TypedLines
      <4>2. PICK p \in DOMAIN ready : a = ready[p]
        BY DEF LineInv, ReadyInv, Members
      <4>3. p # 1 /\ 1 \in DOMAIN ready /\ 1 < p
        BY <2>2, <4>1, <4>2
      <4>4. ~Ahead(ready[p], ready[1])
        BY <4>2, <4>3 DEF LineInv, ReadyInv
      <4> QED
        BY <3>2, <4>1, <4>2, <4>4
    <3>6. turn[a].at \in Stages
      BY TurnFields DEF TypeOK
    <3> QED
      BY <1>2, <2>2, <3>3, <3>4, <3>5, <3>6 DEF Begun, Stages
  <2>3. CASE a # m /\ b # m
    BY <1>2, <2>3 DEF LineInv, BegunInv, Begun, Ahead
  <2> QED
    BY <2>1, <2>2, <2>3
<1>6. CASE Moves(m, "over") /\ lock' = lock /\ log' \in {log, <<>>}
  <2>1. turn'[m].at = "over" /\ ~Locks(m) /\ ~Locks(m)'
    BY <1>1, <1>6 DEF Moves, Locks
  <2>2. LockInv'
    BY <1>2, <1>6, <2>1, LockKept
  <2>3. LogInv' /\ TurnsFollow'
    <3>1. CASE log' = log
      BY <1>1, <1>2, <2>1, <3>1, LogKept
    <3>2. CASE log' = <<>>
      BY <3>2 DEF LogInv, TurnsFollow
    <3> QED
      BY <1>6, <3>1, <3>2
  <2> QED
    BY <1>1, <1>3, <1>4, <1>5, <2>2, <2>3 DEF LineInv
<1>7. ASSUME NEW at \in {"lock", "run"}, Moves(m, at), log' = log,
             lock' = [lock EXCEPT ![turn'[m].inst][turn[m].key] =
                        Append(lock[turn'[m].inst][turn[m].key], m)],
             at = "run" => lock[turn'[m].inst][turn[m].key] = <<>> /\ turn'[m].read = Members(log)
      PROVE  LineInv'
  <2>1. PICK i \in Instances, k \in Keys : i = turn'[m].inst /\ k = turn[m].key
    BY <1>1, <1>2 DEF LineInv, Known
  <2>2. PICK q : q = lock[i][k]
    OBVIOUS
  <2>3. q \in Seq(Nat) /\ q \in Seq(Messages)
    BY <2>2, LockTyped
  <2>4. /\ lock'[i][k] = Append(q, m)
        /\ \A j \in Instances, l \in Keys : j # i \/ l # k => lock'[j][l] = lock[j][l]
    <3>1. lock \in [Instances -> [Keys -> Seq(Messages)]]
      BY DEF TypeOK
    <3>2. lock[i] \in [Keys -> Seq(Messages)]
      BY <3>1
    <3> QED
      BY <1>7, <2>1, <2>2, <3>1, <3>2
  <2>5. turn'[m].at = at /\ turn'[m].inst = i /\ turn'[m].key = k /\ Locks(m)' /\ ~Locks(m)
    BY <1>1, <1>2, <1>7, <2>1 DEF Moves, Locks
  <2>6. /\ Increasing(q)
        /\ \A n \in Messages :
             n \in Members(q) <=> Locks(n) /\ turn[n].inst = i /\ turn[n].key = k
    BY <2>2 DEF LineInv, LockInv
  <2>7. \A x \in Members(q) : x < m
    BY <1>1, <2>1, <2>3, <2>6, MembersFacts DEF Locks, Begun
  <2>8. /\ Increasing(Append(q, m))
        /\ Members(Append(q, m)) = Members(q) \cup {m}
        /\ q # <<>> => Head(Append(q, m)) = Head(q)
    BY <2>3, <2>6, <2>7, MessageNumbers, AppendIncreasing
  <2>9. ASSUME NEW j \in Instances, NEW l \in Keys
        PROVE  /\ Increasing(lock'[j][l])
               /\ \A n \in Messages :
                    n \in Members(lock'[j][l]) <=> Locks(n)' /\ turn'[n].inst = j /\ turn'[n].key = l
    <3>1. CASE j = i /\ l = k
      <4>1. Increasing(lock'[i][k]) /\ Members(lock'[i][k]) = Members(q) \cup {m}
        BY <2>4, <2>8
      <4>2. \A n \in Messages :
               n \in Members(q) \cup {m} <=> Locks(n)' /\ turn'[n].inst = i /\ turn'[n].key = k
        BY <1>2, <2>5, <2>6 DEF Locks
      <4> QED
        BY <3>1, <4>1, <4>2
    <3>2. CASE j # i \/ l # k
      BY <1>2, <2>4, <2>5, <3>2 DEF Locks, LineInv, LockInv
    <3> QED
      BY <3>1, <3>2
  <2>10. ASSUME NEW n \in Messages, turn'[n].at = "run" PROVE HasLock(n)'
    <3>1. CASE n = m
      <4>1. q = <<>>
        BY <1>7, <2>1, <2>2, <2>5, <2>10, <3>1
      <4>2. Append(q, m) # <<>> /\ Head(Append(q, m)) = m
        BY <4>1
      <4> QED
        BY <2>4, <2>5, <3>1, <4>2 DEF HasLock, Queue
    <3>2. CASE n # m
      <4>1. turn'[n] = turn[n] /\ HasLock(n) /\ Locks(n)
        BY <1>2, <2>10, <3>2 DEF LineInv, LockInv, Locks
      <4>2. turn[n].inst \in Instances /\ turn[n].key \in Keys
        BY <4>1 DEF LineInv, Known, Locks
      <4>3. CASE turn[n].inst = i /\ turn[n].key = k
        <5>1. q # <<>> /\ Head(q) = n
          BY <2>2, <4>1, <4>3 DEF HasLock, Queue
        <5>2. Append(q, m) # <<>>
          BY <2>3, AppendProperties, EmptySeq
        <5> QED
          BY <2>4, <2>8, <4>1, <4>3, <5>1, <5>2 DEF HasLock, Queue
      <4>4. CASE turn[n].inst # i \/ turn[n].key # k
        BY <2>4, <4>1, <4>2, <4>4 DEF HasLock, Queue
      <4> QED
        BY <4>3, <4>4
    <3> QED
      BY <3>1, <3>2
  <2>11. LockInv'
    BY <2>9, <2>10 DEF LockInv
  <2>12. \A p \in DOMAIN log : /\ log[p] \in Messages /\ turn[log[p]].at = "over" /\ log[p] # m
                               /\ turn'[log[p]] = turn[log[p]]
    BY <1>1, <1>2, TypedLines DEF LineInv, LogInv
  <2>13. LogInv'
    <3> SUFFICES ASSUME NEW p \in DOMAIN log
                 PROVE  /\ turn'[log[p]].at = "over"
                        /\ \A n \in Messages :
                             SameLine(log[p], n)' =>
                                 /\ Locks(n)' => log[p] < n
                                 /\ turn'[n].at = "run" => log[p] \in turn'[n].read
      BY <1>7 DEF LogInv, SameLine
    <3>1. ASSUME NEW n \in Messages, SameLine(log[p], n)'
          PROVE  /\ Locks(n)' => log[p] < n
                 /\ turn'[n].at = "run" => log[p] \in turn'[n].read
      <4>1. turn'[log[p]].inst = turn'[n].inst /\ turn'[log[p]].key = turn'[n].key
        BY <1>7, <3>1 DEF SameLine
      <4>2. CASE n = m
        <5>1. log[p] < m
          BY <1>1, <1>2, <2>12, <4>1, <4>2 DEF Begun
        <5>2. turn'[m].at = "run" => log[p] \in turn'[m].read
          BY <1>7, <2>5 DEF Members
        <5> QED
          BY <4>2, <5>1, <5>2
      <4>3. CASE n # m
        BY <1>2, <2>12, <4>1, <4>3 DEF LineInv, LogInv, SameLine, Locks
      <4> QED
        BY <4>2, <4>3
    <3> QED
      BY <1>7, <2>12, <3>1 DEF SameLine
  <2>14. TurnsFollow'
    <3>1. log' = log /\ \A p, o \in DOMAIN log : SameLine(log[p], log[o])' <=> SameLine(log[p], log[o])
      BY <1>7, <2>12 DEF SameLine
    <3> QED
      BY <2>12, <3>1 DEF LineInv, TurnsFollow
  <2> QED
    BY <1>1, <1>3, <1>4, <1>5, <2>11, <2>13, <2>14 DEF LineInv
<1> QED
  BY <1>6, <1>7 DEF Begins

LEMMA LineReads ==
  ASSUME TypeOK, LineInv, NEW m \in Messages, Reads(m)
  PROVE  LineInv'
<1>1. /\ Locks(m) /\ HasLock(m)
      /\ \A n \in Messages : n # m => turn'[n] = turn[n]
      /\ turn'[m].at = "run" /\ turn'[m].key = turn[m].key /\ turn'[m].inst = turn[m].inst
      /\ turn'[m].read = Members(log)
      /\ inbox' = inbox /\ ready' = ready /\ lock' = lock /\ log' = log /\ count' = count
  BY DEF Reads, Moves
<1>2. turn[m].at \in {"lock", "run"}
  BY <1>1 DEF Locks
<1>3. \A n \in Messages :
         /\ turn'[n].key = turn[n].key
         /\ turn'[n].inst = turn[n].inst
         /\ Locks(n)' <=> Locks(n)
         /\ Begun(n)' <=> Begun(n)
  BY <1>1, <1>2 DEF Locks, Begun
<1>4. Known' /\ InboxInv'
  BY <1>1, <1>2 DEF LineInv, Known, InboxInv
<1>5. ReadyInv'
  <2>1. \A p \in DOMAIN ready : ready[p] \in Messages
    BY TypedLines
  <2>2. \A n \in Messages : turn'[n].at = "new" <=> turn[n].at = "new"
    BY <1>1, <1>2
  <2> QED
    BY <1>1, <1>3, <2>1, <2>2 DEF LineInv, ReadyInv, Ahead
<1>6. LockInv'
  <2>1. \A n \in Messages : turn'[n].at = "run" => HasLock(n)'
    <3>1. \A n \in Messages : HasLock(n)' <=> HasLock(n)
      BY <1>1, <1>3 DEF HasLock, Queue
    <3> QED
      BY <1>1, <3>1 DEF LineInv, LockInv
  <2>2. ASSUME NEW i \in Instances, NEW k \in Keys
        PROVE  /\ Increasing(lock'[i][k])
               /\ \A n \in Messages :
                    n \in Members(lock'[i][k]) <=> Locks(n)' /\ turn'[n].inst = i /\ turn'[n].key = k
    BY <1>1, <1>3 DEF LineInv, LockInv
  <2> QED
    BY <2>1, <2>2 DEF LockInv
<1>7. BegunInv'
  <2> SUFFICES ASSUME NEW a \in Messages, NEW b \in Messages, Ahead(a, b)'
               PROVE  /\ turn'[b].at = "new" => turn'[a].at # "inbox"
                      /\ Begun(b)' => Begun(a)'
    BY DEF BegunInv
  <2>1. Ahead(a, b)
    BY <1>3 DEF Ahead
  <2> QED
    BY <1>1, <1>3, <2>1 DEF LineInv, BegunInv
<1>8. \A p \in DOMAIN log : /\ log[p] \in Messages /\ turn[log[p]].at = "over" /\ log[p] # m
                            /\ turn'[log[p]] = turn[log[p]]
  BY <1>1, <1>2, TypedLines DEF LineInv, LogInv
<1>9. LogInv'
  <2> SUFFICES ASSUME NEW p \in DOMAIN log, NEW n \in Messages, SameLine(log[p], n)
               PROVE  /\ Locks(n) => log[p] < n
                      /\ turn'[n].at = "run" => log[p] \in turn'[n].read
    BY <1>1, <1>3, <1>8 DEF LogInv, SameLine
  <2>1. CASE n = m
    BY <1>1, <2>1 DEF LineInv, LogInv, Members
  <2>2. CASE n # m
    BY <1>1, <2>2 DEF LineInv, LogInv
  <2> QED
    BY <2>1, <2>2
<1>10. TurnsFollow'
  BY <1>1, <1>8 DEF LineInv, TurnsFollow, SameLine
<1> QED
  BY <1>4, <1>5, <1>6, <1>7, <1>9, <1>10 DEF LineInv

LEMMA LineFinishes ==
  ASSUME TypeOK, LineInv, NEW m \in Messages, Finishes(m)
  PROVE  LineInv'
<1>1. /\ Locks(m)
      /\ \A n \in Messages : n # m => turn'[n] = turn[n]
      /\ turn'[m].at = "over" /\ turn'[m].key = turn[m].key /\ turn'[m].inst = turn[m].inst
      /\ inbox' = inbox /\ ready' = ready /\ count' = count
      /\ \/ log' \in {log, <<>>}
         \/ turn[m].at = "run" /\ log' = Append(log, m) /\ turn'[m].read = turn[m].read
  BY DEF Finishes, Moves
<1>2. turn[m].at \in {"lock", "run"}
  BY <1>1 DEF Locks
<1>3. \A n \in Messages :
         /\ turn'[n].key = turn[n].key
         /\ turn'[n].inst = turn[n].inst
         /\ Begun(n)' <=> Begun(n)
  BY <1>1, <1>2 DEF Begun
<1>4. Known' /\ InboxInv'
  BY <1>1, <1>2 DEF LineInv, Known, InboxInv
<1>5. ReadyInv'
  <2>1. \A p \in DOMAIN ready : ready[p] \in Messages
    BY TypedLines
  <2>2. \A n \in Messages : turn'[n].at = "new" <=> turn[n].at = "new"
    BY <1>1, <1>2
  <2> QED
    BY <1>1, <1>3, <2>1, <2>2 DEF LineInv, ReadyInv, Ahead
<1>6. BegunInv'
  <2> SUFFICES ASSUME NEW a \in Messages, NEW b \in Messages, Ahead(a, b)'
               PROVE  /\ turn'[b].at = "new" => turn'[a].at # "inbox"
                      /\ Begun(b)' => Begun(a)'
    BY DEF BegunInv
  <2>1. Ahead(a, b)
    BY <1>3 DEF Ahead
  <2> QED
    BY <1>1, <1>3, <2>1 DEF LineInv, BegunInv
<1>7. PICK i \in Instances, k \in Keys : i = turn[m].inst /\ k = turn[m].key
  BY <1>2 DEF LineInv, Known
<1>8. PICK q : q = lock[i][k]
  OBVIOUS
<1>9. /\ q \in Seq(Nat) /\ Increasing(q) /\ Queue(m) = q
      /\ \A n \in Messages :
           n \in Members(q) <=> Locks(n) /\ turn[n].inst = i /\ turn[n].key = k
  BY <1>7, <1>8, LockTyped DEF LineInv, LockInv, Queue
<1>10. PICK c \in DOMAIN q : q[c] = m /\ lock' = [lock EXCEPT ![i][k] = Without(q, c)]
  BY <1>7, <1>9 DEF Finishes, Locked
<1>11. /\ lock'[i][k] = Without(q, c)
       /\ \A j \in Instances, l \in Keys : j # i \/ l # k => lock'[j][l] = lock[j][l]
  <2>1. lock \in [Instances -> [Keys -> Seq(Messages)]]
    BY DEF TypeOK
  <2>2. lock[i] \in [Keys -> Seq(Messages)]
    BY <2>1
  <2> QED
    BY <1>10, <2>1, <2>2
<1>12. /\ Increasing(Without(q, c))
       /\ Members(Without(q, c)) = Members(q) \ {m}
       /\ c # 1 => Without(q, c) # <<>> /\ Head(Without(q, c)) = Head(q)
  <2>1. c \in 1 .. Len(q)
    BY <1>9
  <2> QED
    BY <1>9, <1>10, <2>1, WithoutIncreasing
<1>13. LockInv'
  <2>1. ASSUME NEW j \in Instances, NEW l \in Keys
        PROVE  /\ Increasing(lock'[j][l])
               /\ \A n \in Messages :
                    n \in Members(lock'[j][l]) <=> Locks(n)' /\ turn'[n].inst = j /\ turn'[n].key = l
    <3>1. CASE j = i /\ l = k
      <4>1. Increasing(lock'[i][k]) /\ Members(lock'[i][k]) = Members(q) \ {m}
        BY <1>11, <1>12
      <4>2. \A n \in Messages :
               n \in Members(q) \ {m} <=> Locks(n)' /\ turn'[n].inst = i /\ turn'[n].key = k
        BY <1>1, <1>9 DEF Locks
      <4> QED
        BY <3>1, <4>1, <4>2
    <3>2. CASE j # i \/ l # k
      BY <1>1, <1>7, <1>11, <3>2 DEF Locks, LineInv, LockInv
    <3> QED
      BY <3>1, <3>2
  <2>2. ASSUME NEW n \in Messages, turn'[n].at = "run" PROVE HasLock(n)'
    <3>1. n # m /\ turn'[n] = turn[n] /\ HasLock(n) /\ Locks(n)
      BY <1>1, <2>2 DEF LineInv, LockInv, Locks
    <3>2. turn[n].inst \in Instances /\ turn[n].key \in Keys
      BY <3>1 DEF LineInv, Known, Locks
    <3>3. CASE turn[n].inst = i /\ turn[n].key = k
      <4>1. q # <<>> /\ Head(q) = n
        BY <1>8, <3>1, <3>3 DEF HasLock, Queue
      <4>2. c # 1
        BY <1>9, <1>10, <3>1, <4>1, TailFacts
      <4> QED
        BY <1>11, <1>12, <3>1, <3>3, <4>1, <4>2 DEF HasLock, Queue
    <3>4. CASE turn[n].inst # i \/ turn[n].key # k
      BY <1>11, <3>1, <3>2, <3>4 DEF HasLock, Queue
    <3> QED
      BY <3>3, <3>4
  <2> QED
    BY <2>1, <2>2 DEF LockInv
<1>14. \A p \in DOMAIN log : /\ log[p] \in Messages /\ turn[log[p]].at = "over" /\ log[p] # m
                             /\ turn'[log[p]] = turn[log[p]]
  BY <1>1, <1>2, TypedLines DEF LineInv, LogInv
<1>15. CASE log' = log
  <2>1. turn[m].at # "over" /\ ~Locks(m)'
    BY <1>1, <1>2 DEF Locks
  <2>2. LogInv' /\ TurnsFollow'
    BY <1>1, <1>15, <2>1, LogKept
  <2> QED
    BY <1>4, <1>5, <1>6, <1>13, <2>2 DEF LineInv
<1>16. CASE log' = <<>>
  <2>1. LogInv' /\ TurnsFollow'
    BY <1>16 DEF LogInv, TurnsFollow
  <2> QED
    BY <1>4, <1>5, <1>6, <1>13, <2>1 DEF LineInv
<1>17. CASE turn[m].at = "run" /\ log' = Append(log, m) /\ turn'[m].read = turn[m].read
  <2>1. /\ log \in Seq(Messages) /\ Len(log) \in Nat
        /\ \A p \in 1 .. Len(log) : log'[p] = log[p]
        /\ log'[Len(log) + 1] = m
        /\ DOMAIN log = 1 .. Len(log) /\ DOMAIN log' = 1 .. Len(log) + 1
    BY <1>17, TypedLines, AppendFacts
  <2>2. ASSUME NEW p \in DOMAIN log
        PROVE  /\ log'[p] = log[p] /\ log[p] \in Messages /\ log[p] # m
               /\ turn[log[p]].at = "over" /\ turn'[log[p]] = turn[log[p]]
    BY <1>14, <2>1
  <2>3. \A p \in DOMAIN log : SameLine(log[p], m) => log[p] < m /\ log[p] \in turn[m].read
    BY <1>1, <1>17 DEF LineInv, LogInv
  <2>4. LogInv'
    <3> SUFFICES ASSUME NEW p \in DOMAIN log'
                 PROVE  /\ turn'[log'[p]].at = "over"
                        /\ \A n \in Messages :
                             SameLine(log[p], n)' =>
                                 /\ Locks(n)' => log'[p] < n
                                 /\ turn'[n].at = "run" => log'[p] \in turn'[n].read
      BY DEF LogInv
    <3>1. CASE p \in DOMAIN log
      <4>1. turn'[log'[p]].at = "over"
        BY <2>2, <3>1
      <4>2. ASSUME NEW n \in Messages, SameLine(log[p], n)'
            PROVE  /\ Locks(n)' => log'[p] < n
                   /\ turn'[n].at = "run" => log'[p] \in turn'[n].read
        <5>1. CASE n = m
          BY <1>1, <5>1 DEF Locks
        <5>2. CASE n # m
          BY <1>1, <2>2, <3>1, <4>2, <5>2 DEF LineInv, LogInv, SameLine, Locks
        <5> QED
          BY <5>1, <5>2
      <4> QED
        BY <4>1, <4>2
    <3>2. CASE p \notin DOMAIN log
      <4>1. log'[p] = m
        BY <2>1, <3>2
      <4>2. ASSUME NEW n \in Messages, SameLine(log[p], n)', Locks(n)'
            PROVE  m < n /\ turn'[n].at # "run"
        <5>1. n # m /\ turn'[n] = turn[n] /\ Locks(n)
          BY <1>1, <4>2 DEF Locks
        <5>2. turn[n].inst = i /\ turn[n].key = k
          BY <1>3, <1>7, <4>1, <4>2, <5>1 DEF SameLine
        <5>3. PICK d \in DOMAIN q : q[d] = n
          BY <1>9, <5>1, <5>2 DEF Members
        <5>4. q # <<>> /\ q[1] = m
          <6>1. HasLock(m)
            BY <1>17 DEF LineInv, LockInv
          <6> QED
            BY <1>9, <6>1, TailFacts DEF HasLock
        <5>5. 1 \in DOMAIN q /\ 1 < d
          BY <1>9, <5>1, <5>3, <5>4
        <5>6. m < n
          BY <1>9, <5>3, <5>4, <5>5 DEF Increasing
        <5>7. turn[n].at # "run"
          <6> SUFFICES ASSUME turn[n].at = "run" PROVE FALSE
            OBVIOUS
          <6>1. HasLock(n) /\ HasLock(m)
            BY <1>17 DEF LineInv, LockInv
          <6>2. Queue(n) = Queue(m)
            BY <1>7, <5>2 DEF Queue
          <6> QED
            BY <5>1, <6>1, <6>2 DEF HasLock
        <5> QED
          BY <5>1, <5>6, <5>7
      <4> QED
        BY <1>1, <4>1, <4>2 DEF Locks
    <3> QED
      BY <3>1, <3>2
  <2>5. TurnsFollow'
    <3> SUFFICES ASSUME NEW a \in DOMAIN log', NEW b \in DOMAIN log', a < b,
                        SameLine(log[a], log[b])'
                 PROVE  log'[a] < log'[b] /\ log'[a] \in turn'[log'[b]].read
      BY DEF TurnsFollow
    <3>1. a \in DOMAIN log
      BY <2>1
    <3>2. CASE b \in DOMAIN log
      BY <2>2, <3>1, <3>2 DEF LineInv, TurnsFollow, SameLine
    <3>3. CASE b \notin DOMAIN log
      <4>1. log'[b] = m
        BY <2>1, <3>3
      <4>2. SameLine(log[a], m)
        BY <1>1, <2>2, <3>1, <4>1 DEF SameLine
      <4> QED
        BY <1>17, <2>2, <2>3, <3>1, <4>1, <4>2
    <3> QED
      BY <3>2, <3>3
  <2> QED
    BY <1>4, <1>5, <1>6, <1>13, <2>4, <2>5 DEF LineInv
<1> QED
  BY <1>1, <1>15, <1>16, <1>17

----------------------------------------------------------------------------
(* The invariant *)

PartnerInv == TypeOK /\ LineInv /\ WatchInv

LEMMA TypeInit == Init => TypeOK
<1> SUFFICES ASSUME Init PROVE TypeOK
  OBVIOUS
<1>1. 0 \in 0 .. MaxInstances /\ 0 \in 0 .. MaxMessages
  BY PartnerAssumption
<1>2. NoTurn \in Turn
  BY <1>1 DEF NoTurn, Turn, Stages, Ends
<1>3. NoWatch \in Watch
  BY <1>1, EmptySeq DEF NoWatch, Watch, Ends
<1> QED
  BY <1>1, <1>2, <1>3, EmptySeq DEF Init, TypeOK

\* A step of a task keeps the invariant once it is known what it does.
LEMMA TaskKept ==
  ASSUME PartnerInv, TypeOK', NEW m \in Messages, Shown(m),
         Begins(m) \/ Reads(m) \/ Finishes(m)
  PROVE  PartnerInv'
<1>1. LineInv'
  BY LineBegin, LineReads, LineFinishes DEF PartnerInv
<1>2. \E at \in {"lock", "run", "over"} : Moves(m, at)
  BY DEF Begins, Reads, Finishes
<1>3. WatchInv'
  BY <1>2, WatchShown DEF PartnerInv
<1> QED
  BY <1>1, <1>3 DEF PartnerInv

LEMMA QuietKept ==
  ASSUME PartnerInv, TypeOK', UNCHANGED <<turn, inbox, ready, lock, log, count, web>>
  PROVE  PartnerInv'
<1>1. Quiet
  BY DEF Quiet
<1>2. LineInv'
  BY <1>1, LineQuiet DEF PartnerInv
<1>3. WatchInv'
  BY DEF PartnerInv, WatchInv, Counted, References, Ongoing, SocketsSeeAll, Watchable, web
<1> QED
  BY <1>2, <1>3 DEF PartnerInv

LEMMA NextInv == PartnerInv /\ [Next]_vars => PartnerInv'
<1> SUFFICES ASSUME PartnerInv, [Next]_vars PROVE PartnerInv'
  OBVIOUS
<1> USE DEF PartnerInv
<1>1. CASE UNCHANGED vars
  <2>1. TypeOK'
    BY <1>1 DEF vars, lifecycle, bus, tasks, web, TypeOK
  <2> QED
    BY <1>1, <2>1, QuietKept DEF vars, bus, tasks
<1>2. CASE StartPartner
  <2>1. TypeOK' /\ UNCHANGED <<turn, inbox, ready, lock, log, count, web>>
    BY <1>2, StartEffect
  <2> QED
    BY <2>1, QuietKept
<1>3. ASSUME NEW s \in Stoppers, StopPartner(s) \/ StopFinishes(s) PROVE PartnerInv'
  BY <1>3, StopEffect, QuietKept
<1>4. ASSUME NEW i \in Instances, RunnerEnds(i) \/ Send(i) PROVE PartnerInv'
  BY <1>4, InstanceEffect, QuietKept
<1>5. ASSUME NEW k \in WebKeys, StopWeb(k) PROVE PartnerInv'
  BY <1>5, StopWebEffect, QuietKept
<1>6. ASSUME NEW i \in Instances, NEW k \in ImKeys, Receive(i, k) PROVE PartnerInv'
  BY <1>6, ReceiveEffect, LineReceive, WatchReceive
<1>7. ASSUME NEW i \in Instances, Consume(i) PROVE PartnerInv'
  BY <1>7, ConsumeEffect, LineConsume, WatchConsume
<1>8. ASSUME NEW w \in Sockets, NEW k \in WebKeys, SendWeb(w, k) PROVE PartnerInv'
  BY <1>8, SendWebEffect, LineSend, WatchSend
<1>9. ASSUME NEW w \in Sockets, NEW k \in WebKeys, Attach(w, k) PROVE PartnerInv'
  <2>1. TypeOK' /\ UNCHANGED <<turn, inbox, ready, lock, log, count, live>> /\ WatchInv'
    BY <1>9, AttachEffect, WatchAttach
  <2> QED
    BY <2>1, LineQuiet DEF Quiet
<1>10. ASSUME NEW w \in Sockets, Attached(w) PROVE PartnerInv'
  <2>1. TypeOK' /\ UNCHANGED <<turn, inbox, ready, lock, log, count, live>> /\ WatchInv'
    BY <1>10, AttachedEffect, WatchAttached
  <2> QED
    BY <2>1, LineQuiet DEF Quiet
<1>11. CASE Begin
  <2>1. TypeOK'
    BY <1>11, BeginEffect
  <2>2. PICK m \in Messages : Shown(m) /\ Begins(m)
    BY <1>11, BeginEffect
  <2> QED
    BY <2>1, <2>2, TaskKept
<1>12. ASSUME NEW m \in Messages, TurnStep(m) \/ Retry(m) PROVE PartnerInv'
  <2>1. CASE Resume(m)
    BY <2>1, ResumeEffect, TaskKept DEF LineInv
  <2>2. CASE Reply(m) \/ AppendFails(m)
    BY <2>2, ReplyEffect, TaskKept
  <2>3. CASE CancelDelivered(m)
    BY <2>3, CancelEffect, TaskKept DEF LineInv
  <2>4. CASE Retry(m)
    BY <2>4, RetryEffect, TaskKept
  <2> QED
    BY <1>12, <2>1, <2>2, <2>3, <2>4 DEF TurnStep
<1>13. ASSUME NEW m \in Messages, Emit(m) PROVE PartnerInv'
  BY <1>13, EmitEffect, LineQuiet, WatchEmit
<1>14. CASE DeleteSession
  BY <1>14, LineDelete
<1>15. ASSUME NEW k \in WebKeys, SendHttp(k) PROVE PartnerInv'
  BY <1>15, SendHttpEffect, LineNew, WatchHttp
<1>16. ASSUME NEW m \in Messages, HangUp(m) PROVE PartnerInv'
  BY <1>16, HangUpEffect, QuietKept
<1> QED
  BY <1>1, <1>2, <1>3, <1>4, <1>5, <1>6, <1>7, <1>8, <1>9, <1>10, <1>11, <1>12, <1>13, <1>14,
     <1>15, <1>16 DEF Next

LEMMA PartnerInvariant == Spec => []PartnerInv
<1>1. Init => PartnerInv
  BY TypeInit, LineInit, WatchInit DEF PartnerInv
<1> QED
  BY <1>1, NextInv, PTL DEF Spec

\* The variables of the partner's turns have their types.
THEOREM PartnerTypes == Spec => []TypeOK
<1>1. PartnerInv => TypeOK
  BY DEF PartnerInv
<1> QED
  BY <1>1, PartnerInvariant, PTL

\* Whatever is received, cancelled, retried, cleared, stopped and started again:
\* in the session's file the turns of one key of one instance stand in the order
\* their messages came, and each was answered with the earlier ones in view.
THEOREM PartnerTurnsFollow == Spec => []TurnsFollow
<1>1. PartnerInv => TurnsFollow
  BY DEF PartnerInv, LineInv
<1> QED
  BY <1>1, PartnerInvariant, PTL

\* Whenever it joins, a socket was given each frame of its turn once, in order,
\* and the end when there is one.
THEOREM PartnerSocketsSeeAll == Spec => []SocketsSeeAll
<1>1. PartnerInv => SocketsSeeAll
  BY DEF PartnerInv, WatchInv
<1> QED
  BY <1>1, PartnerInvariant, PTL

----------------------------------------------------------------------------
(* The lines *)

Staged == [m \in Messages |-> Stage(m)]
Lined == [m \in Messages |-> Line(m)]

LEMMA StageOfPlace ==
  ASSUME NEW m \in Messages
  PROVE  /\ Staged[m] = Stage(m) /\ Lined[m] = Line(m)
         /\ turn[m].at \in {"none", "inbox", "new"} => Stage(m) = "coming" /\ Line(m) = <<>>
         /\ turn[m].at = "lock" => Stage(m) = "waiting"
         /\ turn[m].at = "run" => Stage(m) = "served"
         /\ turn[m].at = "over" =>
              Stage(m) = IF turn[m].end \in {"content", "silent"} THEN "answered" ELSE "dropped"
         /\ Begun(m) => Line(m) = <<turn[m].inst, turn[m].key>>
<1>1. Staged[m] = Stage(m) /\ Lined[m] = Line(m)
  BY DEF Staged, Lined
<1>2. turn[m].at \in {"none", "inbox", "new"} => Stage(m) = "coming" /\ Line(m) = <<>>
  BY DEF Stage, Line
<1>3. turn[m].at = "lock" => Stage(m) = "waiting"
  BY DEF Stage
<1>4. turn[m].at = "run" => Stage(m) = "served"
  BY DEF Stage
<1>5. turn[m].at = "over" =>
        Stage(m) = IF turn[m].end \in {"content", "silent"} THEN "answered" ELSE "dropped"
  BY DEF Stage
<1>6. Begun(m) => Line(m) = <<turn[m].inst, turn[m].key>>
  BY DEF Line, Begun
<1> QED
  BY <1>1, <1>2, <1>3, <1>4, <1>5, <1>6

LEMMA StageOfPlaceNext ==
  ASSUME NEW m \in Messages
  PROVE  /\ turn'[m].at = "lock" => Staged'[m] = "waiting"
         /\ turn'[m].at = "run" => Staged'[m] = "served"
         /\ turn'[m].at = "over" =>
              Staged'[m] = IF turn'[m].end \in {"content", "silent"} THEN "answered" ELSE "dropped"
         /\ turn'[m].at \in {"lock", "run", "over"} => Lined'[m] = <<turn'[m].inst, turn'[m].key>>
<1>1. Staged'[m] = Stage(m)' /\ Lined'[m] = Line(m)'
  BY DEF Staged, Lined
<1>2. turn'[m].at = "lock" => Stage(m)' = "waiting"
  BY DEF Stage
<1>3. turn'[m].at = "run" => Stage(m)' = "served"
  BY DEF Stage
<1>4. turn'[m].at = "over" =>
        Stage(m)' = IF turn'[m].end \in {"content", "silent"} THEN "answered" ELSE "dropped"
  BY DEF Stage
<1>5. turn'[m].at \in {"lock", "run", "over"} => Line(m)' = <<turn'[m].inst, turn'[m].key>>
  BY DEF Line
<1> QED
  BY <1>1, <1>2, <1>3, <1>4, <1>5

\* A step of one message changes its stage and its line, and nobody else's.
LEMMA OneMoves ==
  ASSUME NEW m \in Messages, \A n \in Messages : n # m => turn'[n] = turn[n]
  PROVE  /\ Staged' = [Staged EXCEPT ![m] = Staged'[m]]
         /\ Lined' = [Lined EXCEPT ![m] = Lined'[m]]
<1>1. ASSUME NEW n \in Messages, n # m
      PROVE  Stage(n)' = Stage(n) /\ Line(n)' = Line(n)
  BY <1>1 DEF Stage, Line
<1>2. \A n \in Messages : n # m => Staged'[n] = Staged[n] /\ Lined'[n] = Lined[n]
  BY <1>1 DEF Staged, Lined
<1>3. /\ Staged = [n \in Messages |-> Staged[n]] /\ Staged' = [n \in Messages |-> Staged'[n]]
      /\ Lined = [n \in Messages |-> Lined[n]] /\ Lined' = [n \in Messages |-> Lined'[n]]
  BY DEF Staged, Lined
<1> HIDE DEF Staged, Lined
<1> QED
  BY <1>2, <1>3

\* Nothing happens to a line before a message joins it.
LEMMA StillComing ==
  ASSUME NEW m \in Messages, \A n \in Messages : n # m => turn'[n] = turn[n],
         turn[m].at \in {"none", "inbox", "new"}, turn'[m].at \in {"none", "inbox", "new"}
  PROVE  UNCHANGED <<Staged, Lined>>
<1>1. /\ \A n \in Messages : n # m => Stage(n)' = Stage(n) /\ Line(n)' = Line(n)
      /\ Stage(m)' = Stage(m) /\ Line(m)' = Line(m)
  BY DEF Stage, Line
<1> QED
  BY <1>1 DEF Staged, Lined

\* Nobody stands in the line of a lock that is free.
LEMMA NobodyWaits ==
  ASSUME TypeOK, LineInv, NEW i \in Instances, NEW k \in Keys, lock[i][k] = <<>>,
         NEW n \in Messages, turn[n].inst = i, turn[n].key = k
  PROVE  ~Locks(n)
<1>1. Members(lock[i][k]) = {}
  BY DEF Members
<1>2. n \in Members(lock[i][k]) <=> Locks(n)
  BY DEF LineInv, LockInv
<1> QED
  BY <1>1, <1>2

\* Who has the lock came first of all who want it.
LEMMA FirstInLine ==
  ASSUME TypeOK, LineInv, NEW m \in Messages, Locks(m), HasLock(m),
         NEW n \in Messages, Locks(n), turn[n].inst = turn[m].inst, turn[n].key = turn[m].key
  PROVE  m =< n /\ (turn[n].at = "run" => n = m)
<1> DEFINE q == Queue(m)
<1>1. Queue(n) = q
  BY DEF Queue
<1>2. turn[m].at # "none" /\ Known
  BY DEF Locks, LineInv
<1>3. /\ turn[m].key \in Keys /\ turn[m].inst \in Instances
      /\ q = lock[turn[m].inst][turn[m].key] /\ q \in Seq(Nat)
  BY <1>2, LineOf
<1>4. Increasing(q) /\ n \in Members(q)
  BY <1>3 DEF LineInv, LockInv
<1>5. 1 \in DOMAIN q /\ q[1] = m
  BY <1>2, HeadOfQueue
<1>6. turn[n].at = "run" => Head(q) = n /\ Head(q) = m
  BY <1>1 DEF LineInv, LockInv, HasLock
<1> HIDE DEF q
<1>7. PICK p \in DOMAIN q : q[p] = n
  BY <1>4 DEF Members
<1>8. p \in Nat \ {0} /\ m \in Nat /\ n \in Nat
  <2>1. DOMAIN q = 1 .. Len(q) /\ Len(q) \in Nat
    BY <1>3
  <2>2. m \in Nat /\ n \in Nat
    BY MessageNumbers
  <2> QED
    BY <1>7, <2>1, <2>2
<1>9. CASE p = 1
  BY <1>5, <1>6, <1>7, <1>8, <1>9
<1>10. CASE p # 1
  <2>1. 1 < p
    BY <1>8, <1>10
  <2>2. m < n
    BY <1>4, <1>5, <1>7, <2>1 DEF Increasing
  <2> QED
    BY <1>6, <1>8, <2>2
<1> QED
  BY <1>9, <1>10

\* Who is in a line has begun, and has the key and the instance of the line.
LEMMA InLine ==
  ASSUME TypeOK, NEW n \in Messages, NEW i, NEW k, Lined[n] = <<i, k>>
  PROVE  Begun(n) /\ turn[n].inst = i /\ turn[n].key = k
<1>1. turn[n].at \in Stages
  BY TurnFields DEF TypeOK
<1>2. Lined[n] # <<>>
  OBVIOUS
<1>3. Begun(n)
  BY <1>1, <1>2, StageOfPlace DEF Begun, Stages
<1>4. <<turn[n].inst, turn[n].key>> = <<i, k>>
  BY <1>3, StageOfPlace
<1> QED
  BY <1>3, <1>4

\* A task that begins joins its line behind everyone, and is taken at once only
\* if nobody is in the way.
LEMMA BeginMaps ==
  ASSUME TypeOK, LineInv, WatchInv, NEW m \in Messages, Begins(m)
  PROVE  \E l \in Instances \X Keys, s \in {"waiting", "served", "answered", "dropped"} :
           Contract!Join(m, l, s)
<1> DEFINE i == turn'[m].inst
           k == turn[m].key
           l == <<i, k>>
           s == Staged'[m]
<1>1. /\ \A n \in Messages : n # m => turn'[n] = turn[n]
      /\ turn'[m].at \in {"lock", "run", "over"} /\ turn'[m].key = k /\ i \in Instances
  BY DEF Begins, Moves
<1>2. /\ turn[m].at = "new"
      /\ \A x \in Messages : Begun(x) /\ turn[x].key = k /\ turn[x].inst = i => x < m
  BY BeginOrder
<1>3. k \in Keys /\ turn[m].end = "none"
  BY <1>2 DEF LineInv, Known, WatchInv, Counted
<1>4. Staged' = [Staged EXCEPT ![m] = s] /\ Lined' = [Lined EXCEPT ![m] = l]
  <2>1. Lined'[m] = l
    BY <1>1, StageOfPlaceNext
  <2> QED
    BY <1>1, <2>1, OneMoves
<1>5. Staged[m] = "coming"
  BY <1>2, StageOfPlace
<1>6. \A n \in Messages : Lined[n] = l => n < m
  BY <1>2, InLine
<1>7. ASSUME lock[i][k] = <<>>
      PROVE  \A n \in Messages : Lined[n] = l => Staged[n] \notin {"waiting", "served"}
  <2> SUFFICES ASSUME NEW n \in Messages, Lined[n] = l
               PROVE  Staged[n] \notin {"waiting", "served"}
    OBVIOUS
  <2>1. Begun(n) /\ turn[n].inst = i /\ turn[n].key = k
    BY InLine
  <2>2. turn[n].at = "over"
    BY <1>1, <1>3, <1>7, <2>1, NobodyWaits DEF Begun, Locks
  <2> QED
    BY <2>2, StageOfPlace
<1>8. s \in {"waiting", "dropped"} \/ (s \in {"served", "answered"} /\ lock[i][k] = <<>>)
  <2>1. CASE turn'[m].at = "over"
    <3>1. turn'[m].end \in {"none", "error"} \/ lock[i][k] = <<>>
      BY <1>3, <2>1 DEF Begins, Moves
    <3>2. s = IF turn'[m].end \in {"content", "silent"} THEN "answered" ELSE "dropped"
      BY <2>1, StageOfPlaceNext
    <3> HIDE DEF s
    <3> QED
      BY <3>1, <3>2
  <2>2. CASE turn'[m].at = "lock"
    BY <2>2, StageOfPlaceNext
  <2>3. CASE turn'[m].at = "run"
    <3>1. lock[i][k] = <<>>
      BY <2>3 DEF Begins, Moves
    <3> QED
      BY <2>3, <3>1, StageOfPlaceNext
  <2> QED
    BY <1>1, <2>1, <2>2, <2>3
<1>9. l \in Instances \X Keys
  BY <1>1, <1>3
<1> HIDE DEF l, s
<1>10. Contract!Join(m, l, s)
  BY <1>4, <1>5, <1>6, <1>7, <1>8
     DEF Contract!Join, Contract!Become, Contract!Free, Contract!Messages, Messages, Staged, Lined
<1> QED
  BY <1>8, <1>9, <1>10

\* Who takes the lock waits no longer, and is the first of those who wait.
LEMMA TakeMaps ==
  ASSUME TypeOK, LineInv, NEW m \in Messages, turn[m].at = "lock", HasLock(m),
         \A n \in Messages : n # m => turn'[n] = turn[n],
         Lined'[m] = Lined[m], Staged'[m] \in {"served", "answered"}
  PROVE  Contract!Take(m, Staged'[m])
<1> DEFINE s == Staged'[m]
<1>1. Staged' = [Staged EXCEPT ![m] = s] /\ Lined' = Lined
  <2>1. Lined = [Lined EXCEPT ![m] = Lined[m]]
    BY DEF Lined
  <2> QED
    BY <2>1, OneMoves
<1>2. Staged[m] = "waiting" /\ Locks(m) /\ Begun(m) /\ Lined[m] = <<turn[m].inst, turn[m].key>>
  BY StageOfPlace DEF Locks, Begun
<1>3. ASSUME NEW n \in Messages, Lined[n] = Lined[m]
      PROVE  Staged[n] # "served" /\ (Staged[n] = "waiting" => m =< n)
  <2>1. Begun(n) /\ turn[n].inst = turn[m].inst /\ turn[n].key = turn[m].key
    BY <1>2, <1>3, InLine
  <2>2. CASE Locks(n)
    <3>1. m =< n /\ (turn[n].at = "run" => n = m)
      BY <1>2, <2>1, <2>2, FirstInLine
    <3>2. turn[n].at = "lock"
      BY <2>2, <3>1 DEF Locks
    <3> QED
      BY <3>1, <3>2, StageOfPlace
  <2>3. CASE ~Locks(n)
    <3>1. turn[n].at = "over"
      BY <2>1, <2>3 DEF Begun, Locks
    <3> QED
      BY <3>1, StageOfPlace
  <2> QED
    BY <2>2, <2>3
<1> HIDE DEF s
<1> QED
  BY <1>1, <1>2, <1>3
     DEF Contract!Take, Contract!Become, Contract!Messages, Messages, Staged, Lined, s

LEMMA ReadMaps ==
  ASSUME TypeOK, LineInv, NEW m \in Messages, Reads(m)
  PROVE  Contract!Take(m, "served") \/ UNCHANGED <<Staged, Lined>>
<1>1. /\ turn[m].at \in {"lock", "run"} /\ HasLock(m)
      /\ \A n \in Messages : n # m => turn'[n] = turn[n]
      /\ turn'[m].at = "run" /\ turn'[m].inst = turn[m].inst /\ turn'[m].key = turn[m].key
  BY DEF Reads, Locks, Moves
<1>2. Staged'[m] = "served" /\ Lined'[m] = Lined[m]
  BY <1>1, StageOfPlace, StageOfPlaceNext DEF Begun
<1>3. CASE turn[m].at = "lock"
  BY <1>1, <1>2, <1>3, TakeMaps
<1>4. CASE turn[m].at = "run"
  <2>1. Staged[m] = "served"
    BY <1>4, StageOfPlace
  <2>2. Staged = [Staged EXCEPT ![m] = Staged[m]] /\ Lined = [Lined EXCEPT ![m] = Lined[m]]
    BY DEF Staged, Lined
  <2> QED
    BY <1>1, <1>2, <2>1, <2>2, OneMoves
<1> QED
  BY <1>1, <1>3, <1>4

LEMMA EndMaps ==
  ASSUME TypeOK, LineInv, NEW m \in Messages, Finishes(m)
  PROVE  \/ Contract!Leave(m)
         \/ \E s \in {"answered", "dropped"} : Contract!Take(m, s) \/ Contract!Finish(m, s)
<1> DEFINE s == Staged'[m]
<1>1. /\ turn[m].at \in {"lock", "run"} /\ Begun(m)
      /\ \A n \in Messages : n # m => turn'[n] = turn[n]
      /\ turn'[m].at = "over" /\ turn'[m].inst = turn[m].inst /\ turn'[m].key = turn[m].key
      /\ turn'[m].end = "stopped" \/ HasLock(m)
  BY DEF Finishes, Locks, Moves, Begun
<1>2. s = IF turn'[m].end \in {"content", "silent"} THEN "answered" ELSE "dropped"
  BY <1>1, StageOfPlaceNext
<1>3. Lined'[m] = Lined[m]
  BY <1>1, StageOfPlace, StageOfPlaceNext
<1>4. Staged' = [Staged EXCEPT ![m] = s] /\ Lined' = Lined
  <2>1. Lined = [Lined EXCEPT ![m] = Lined[m]]
    BY DEF Lined
  <2> QED
    BY <1>1, <1>3, <2>1, OneMoves
<1>5. CASE turn[m].at = "run"
  <2>1. Staged[m] = "served"
    BY <1>5, StageOfPlace
  <2> HIDE DEF s
  <2>2. s \in {"answered", "dropped"}
    BY <1>2
  <2>3. Contract!Finish(m, s)
    BY <1>4, <2>1, <2>2 DEF Contract!Finish, Contract!Become, Staged, Lined
  <2> QED
    BY <2>2, <2>3
<1>6. CASE turn[m].at = "lock" /\ s = "answered"
  <2>1. HasLock(m)
    BY <1>1, <1>2, <1>6
  <2>2. Contract!Take(m, s)
    BY <1>1, <1>3, <1>6, <2>1, TakeMaps
  <2> QED
    BY <1>6, <2>2
<1>7. CASE turn[m].at = "lock" /\ s = "dropped"
  <2>1. Staged[m] = "waiting"
    BY <1>7, StageOfPlace
  <2> HIDE DEF s
  <2>2. Contract!Leave(m)
    BY <1>4, <1>7, <2>1 DEF Contract!Leave, Contract!Become, Staged, Lined
  <2> QED
    BY <2>2
<1> QED
  BY <1>1, <1>2, <1>5, <1>6, <1>7

\* A message on its way to its task is in no line yet.
LEMMA WayMaps ==
  ASSUME PartnerInv,
         \/ \E i \in Instances : Consume(i) \/ \E k \in ImKeys : Receive(i, k)
         \/ \E k \in WebKeys : SendHttp(k) \/ \E w \in Sockets : SendWeb(w, k)
  PROVE  UNCHANGED <<Staged, Lined>>
<1>0. /\ TypeOK /\ LineInv /\ turn \in [Messages -> Turn] /\ count \in Nat
      /\ \A m \in Messages : turn[m].at # "none" <=> m =< count
  BY PartnerAssumption DEF PartnerInv, LineInv, Known, TypeOK
<1>1. ASSUME NEW k, NEW i, NEW at \in {"inbox", "new"}, count' = count + 1, count' \in Messages,
             turn' = [turn EXCEPT ![count'] = New(at, k, i)]
      PROVE  UNCHANGED <<Staged, Lined>>
  <2>1. turn'[count'].at = at /\ \A n \in Messages : n # count' => turn'[n] = turn[n]
    BY <1>0, <1>1 DEF New, NoTurn
  <2>2. turn[count'].at = "none"
    <3>1. ~(count' =< count)
      BY <1>0, <1>1
    <3> QED
      BY <1>0, <1>1, <3>1
  <2> QED
    BY <1>1, <2>1, <2>2, StillComing
<1>2. ASSUME NEW i \in Instances, NEW k \in ImKeys, Receive(i, k)
      PROVE  UNCHANGED <<Staged, Lined>>
  BY <1>0, <1>1, <1>2, ReceiveEffect
<1>3. ASSUME NEW w \in Sockets, NEW k \in WebKeys, SendWeb(w, k)
      PROVE  UNCHANGED <<Staged, Lined>>
  <2>1. CASE UNCHANGED turn
    BY <2>1 DEF Staged, Lined, Stage, Line
  <2>2. CASE /\ count' = count + 1 /\ count' \in Messages
             /\ turn' = [turn EXCEPT ![count'] = New("new", k, registered)]
    BY <1>1, <2>2
  <2> QED
    BY <1>0, <1>3, <2>1, <2>2, SendWebEffect
<1>4. ASSUME NEW i \in Instances, Consume(i)
      PROVE  UNCHANGED <<Staged, Lined>>
  <2> DEFINE m == Head(inbox[i])
  <2>1. /\ inbox[i] # <<>> /\ m \in Messages
        /\ turn' = [turn EXCEPT ![m].at = "new"]
    BY <1>0, <1>4, ConsumeEffect
  <2>2. inbox[i] \in Seq(Messages)
    BY <1>0, <1>4 DEF TypeOK
  <2>3. 1 \in DOMAIN inbox[i] /\ inbox[i][1] = m
    BY <2>1, <2>2, TailFacts
  <2>4. turn[m].at = "inbox"
    BY <1>0, <1>4, <2>1, <2>3 DEF LineInv, InboxInv, Members
  <2> HIDE DEF m
  <2>5. turn'[m].at = "new" /\ \A n \in Messages : n # m => turn'[n] = turn[n]
    BY <1>0, <2>1 DEF Turn
  <2> QED
    BY <2>1, <2>4, <2>5, StillComing
<1>5. ASSUME NEW k \in WebKeys, SendHttp(k)
      PROVE  UNCHANGED <<Staged, Lined>>
  BY <1>0, <1>1, <1>5, SendHttpEffect
<1> QED
  BY <1>2, <1>3, <1>4, <1>5

\* Every step of the partner is a step of one message in its line, or none.
LEMMA ContractStep ==
  ASSUME PartnerInv, [Next]_vars
  PROVE  [Contract!Next]_<<Staged, Lined>>
<1>0. TypeOK /\ LineInv /\ WatchInv
  BY DEF PartnerInv
<1>1. ASSUME UNCHANGED turn PROVE UNCHANGED <<Staged, Lined>>
  BY <1>1 DEF Staged, Lined, Stage, Line
<1>2. CASE \/ UNCHANGED vars
           \/ StartPartner \/ DeleteSession
           \/ \E s \in Stoppers : StopPartner(s) \/ StopFinishes(s)
           \/ \E i \in Instances : RunnerEnds(i) \/ Send(i)
           \/ \E k \in WebKeys : StopWeb(k) \/ \E w \in Sockets : Attach(w, k)
           \/ \E w \in Sockets : Attached(w)
           \/ \E m \in Messages : HangUp(m)
  <2>1. UNCHANGED turn
    BY <1>2 DEF vars, tasks, StartPartner, DeleteSession, StopPartner, StopFinishes,
                RunnerEnds, Send, StopWeb, Attach, Attached, HangUp
  <2> QED
    BY <1>1, <2>1
<1>3. CASE \/ \E i \in Instances : Consume(i) \/ \E k \in ImKeys : Receive(i, k)
           \/ \E k \in WebKeys : SendHttp(k) \/ \E w \in Sockets : SendWeb(w, k)
  BY <1>3, WayMaps
<1>4. CASE Begin
  <2>1. PICK m \in Messages : Begins(m)
    BY <1>0, <1>4, BeginEffect
  <2>2. \E l \in Instances \X Keys, s \in {"waiting", "served", "answered", "dropped"} :
          Contract!Join(m, l, s)
    BY <1>0, <2>1, BeginMaps
  <2> QED
    BY <2>2 DEF Contract!Next, Contract!Messages, Messages
<1>5. ASSUME NEW m \in Messages, Reads(m) PROVE [Contract!Next]_<<Staged, Lined>>
  <2>1. Contract!Take(m, "served") \/ UNCHANGED <<Staged, Lined>>
    BY <1>0, <1>5, ReadMaps
  <2> QED
    BY <2>1 DEF Contract!Next, Contract!Messages, Messages
<1>6. ASSUME NEW m \in Messages, Finishes(m) PROVE [Contract!Next]_<<Staged, Lined>>
  <2>1. \/ Contract!Leave(m)
        \/ \E s \in {"answered", "dropped"} : Contract!Take(m, s) \/ Contract!Finish(m, s)
    BY <1>0, <1>6, EndMaps
  <2> QED
    BY <2>1 DEF Contract!Next, Contract!Messages, Messages
<1>7. ASSUME NEW m \in Messages, TurnStep(m) \/ Retry(m)
      PROVE  [Contract!Next]_<<Staged, Lined>>
  <2>1. Known
    BY <1>0 DEF LineInv
  <2>2. Reads(m) \/ Finishes(m)
    BY <1>0, <1>7, <2>1, ResumeEffect, ReplyEffect, CancelEffect, RetryEffect DEF TurnStep
  <2> QED
    BY <1>5, <1>6, <2>2
<1>8. ASSUME NEW m \in Messages, Emit(m) PROVE UNCHANGED <<Staged, Lined>>
  <2>1. /\ \A n \in Messages : n # m => turn'[n] = turn[n]
        /\ turn'[m].at = turn[m].at /\ turn'[m].key = turn[m].key
        /\ turn'[m].inst = turn[m].inst /\ turn'[m].end = turn[m].end
    BY <1>0, <1>8, EmitEffect DEF Quiet
  <2>2. ASSUME NEW n \in Messages PROVE Stage(n)' = Stage(n) /\ Line(n)' = Line(n)
    <3>1. CASE n = m
      BY <2>1, <3>1 DEF Stage, Line
    <3>2. CASE n # m
      BY <2>1, <3>2 DEF Stage, Line
    <3> QED
      BY <3>1, <3>2
  <2> QED
    BY <2>2 DEF Staged, Lined
<1> QED
  BY <1>2, <1>3, <1>4, <1>7, <1>8 DEF Next

\* The partner implements TurnLines: for any number of clients, sockets, messages,
\* stops and restarts, the messages of one key of one instance are served one at a
\* time in the order they came, whoever is cancelled, retried or fails, and what
\* has ended is not taken up again.
THEOREM PartnerImplementsTurnLines == Spec => ContractSpec
<1>1. Init => Contract!Init
  BY DEF Init, Contract!Init, Contract!Messages, Messages, NoTurn, Stage, Line
<1>2. PartnerInv /\ [Next]_vars => [Contract!Next]_(Contract!lineVars)
  BY ContractStep DEF Contract!lineVars, Staged, Lined
<1> QED
  BY <1>1, <1>2, PartnerInvariant, PTL DEF Spec, ContractSpec, Contract!Spec

=============================================================================
