----------------------- MODULE MemoryRunStreamProofs -----------------------
(***************************************************************************)
(* What MemoryRunStream promises the clients of a run, for any number of   *)
(* readers, any limit of the buffer and any number of events, undos and    *)
(* reconnections.                                                          *)
(***************************************************************************)
EXTENDS MemoryRunStream, SequenceTheorems, TLAPS

\* A buffer after t events holds the last of them, as many as fit.
IsBuffer(b, t) ==
    /\ b \in Seq(1 .. MaxTotal)
    /\ Len(b) =< Cap /\ Len(b) =< t
    /\ t =< Cap => Len(b) = t
    /\ \A i \in 1 .. Len(b) : b[i] = t - Len(b) + i

RunOK ==
    /\ IsBuffer(events, total)
    /\ active => undos = 0 /\ total =< MaxEvents
    /\ total =< MaxEvents + 2 + undos

\* The events the buffer has dropped.
Dropped == total - Len(events)

\* What a reader still hands over lies past what it handed over and at or below
\* its place in the buffer as it is now: dropping events only lowers that place.
PlaceOK(r) ==
    /\ nextSeq[r] + Len(batch[r]) =< Len(events)
    /\ cursor[r] =< Len(events)
    /\ phase[r] # "yield" => batch[r] = <<>>
    /\ phase[r] \in {"new", "wait", "woken"} => nextSeq[r] =< cursor[r]
    /\ phase[r] = "new" => nextSeq[r] = 0 /\ got[r] = <<>>
    /\ \A i \in 1 .. Len(got[r]) : got[r][i] =< Dropped + nextSeq[r]
    /\ \A i \in 1 .. Len(batch[r]) : batch[r][i] =< Dropped + nextSeq[r] + i

OrderOK(r) ==
    /\ \A i, j \in 1 .. Len(got[r]) : i < j => got[r][i] < got[r][j]
    /\ \A i, j \in 1 .. Len(batch[r]) : i < j => batch[r][i] < batch[r][j]
    /\ \A i \in 1 .. Len(got[r]) : \A j \in 1 .. Len(batch[r]) : got[r][i] < batch[r][j]

\* Before the buffer overflows the place of an event in it is its number.
InlineOK(r) ==
    r \in Inline /\ total =< Cap =>
        /\ Len(got[r]) = nextSeq[r]
        /\ \A i \in 1 .. Len(got[r]) : got[r][i] = i
        /\ \A i \in 1 .. Len(batch[r]) : batch[r][i] = nextSeq[r] + i
        /\ phase[r] \in {"wait", "woken"} => cursor[r] = nextSeq[r]
        /\ phase[r] = "wait" => cursor[r] = total

ReaderOK(r) == PlaceOK(r) /\ OrderOK(r) /\ InlineOK(r)

MemInv == TypeOK /\ RunOK /\ \A r \in Readers : ReaderOK(r)

----------------------------------------------------------------------------
(* Sequences *)

LEMMA AppendOne ==
  ASSUME NEW S, NEW q \in Seq(S), NEW e \in S
  PROVE  /\ Append(q, e) \in Seq(S)
         /\ Len(Append(q, e)) = Len(q) + 1
         /\ \A i \in 1 .. Len(q) + 1 :
               Append(q, e)[i] = IF i =< Len(q) THEN q[i] ELSE e
  BY AppendProperties

LEMMA DropOne ==
  ASSUME NEW S, NEW q \in Seq(S), q # <<>>
  PROVE  /\ Len(q) \in Nat \ {0}
         /\ Head(q) \in S /\ Head(q) = q[1]
         /\ Tail(q) \in Seq(S)
         /\ Len(Tail(q)) = Len(q) - 1
         /\ \A i \in 1 .. Len(q) - 1 : Tail(q)[i] = q[i + 1]
  BY HeadTailProperties, EmptySeq

----------------------------------------------------------------------------
(* The buffer *)

\* One event more: the buffer still holds the last ones, it does not shrink, and
\* what it has dropped does not grow less.
LEMMA PushedIsBuffer ==
  ASSUME NEW b, NEW t \in Nat, t + 1 =< MaxTotal, IsBuffer(b, t)
  PROVE  /\ IsBuffer(Pushed(b, t + 1), t + 1)
         /\ Len(Pushed(b, t + 1)) >= Len(b)
         /\ t + 1 - Len(Pushed(b, t + 1)) >= t - Len(b)
  <1> DEFINE p == Pushed(b, t + 1)
  <1>1. /\ b \in Seq(1 .. MaxTotal) /\ Len(b) \in Nat /\ t + 1 \in 1 .. MaxTotal
        /\ Cap \in Nat \ {0} /\ MaxTotal \in Nat
    BY RunAssumption, LenProperties DEF IsBuffer, MaxTotal
  <1>2. CASE Len(b) < Cap
    <2>1. p = Append(b, t + 1)
      BY <1>2 DEF Pushed
    <2>2. /\ p \in Seq(1 .. MaxTotal) /\ Len(p) = Len(b) + 1
          /\ \A i \in 1 .. Len(b) + 1 : p[i] = IF i =< Len(b) THEN b[i] ELSE t + 1
      <3> HIDE DEF p
      <3> QED BY <1>1, <2>1, AppendOne
    <2>3. \A i \in 1 .. Len(p) : p[i] = t + 1 - Len(p) + i
      <3> SUFFICES ASSUME NEW i \in 1 .. Len(b) + 1 PROVE p[i] = t + 1 - (Len(b) + 1) + i
        BY <2>2
      <3>1. CASE i =< Len(b)
        BY <1>1, <2>2, <3>1 DEF IsBuffer
      <3>2. CASE i = Len(b) + 1
        <4>1. p[i] = t + 1
          <5>1. ~(i =< Len(b))
            BY <1>1, <3>2
          <5> HIDE DEF p
          <5> QED BY <2>2, <5>1
        <4> QED BY <1>1, <3>2, <4>1
      <3> QED BY <1>1, <3>1, <3>2
    <2>4. Len(p) =< Cap /\ Len(p) =< t + 1 /\ (t + 1 =< Cap => Len(p) = t + 1)
      BY <1>1, <1>2, <2>2 DEF IsBuffer
    <2>5. IsBuffer(p, t + 1)
      BY <2>2, <2>3, <2>4 DEF IsBuffer
    <2> QED BY <1>1, <2>2, <2>5
  <1>3. CASE Len(b) >= Cap
    <2>1. p = Append(Tail(b), t + 1) /\ Len(b) = Cap
      BY <1>1, <1>3 DEF Pushed, IsBuffer
    <2>2. b # <<>>
      BY <1>1, <2>1, EmptySeq
    <2>3. /\ Tail(b) \in Seq(1 .. MaxTotal) /\ Len(Tail(b)) = Len(b) - 1
          /\ \A i \in 1 .. Len(b) - 1 : Tail(b)[i] = b[i + 1]
      BY <1>1, <2>2, DropOne
    <2>4. /\ p \in Seq(1 .. MaxTotal) /\ Len(p) = Len(b)
          /\ \A i \in 1 .. Len(b) : p[i] = IF i =< Len(b) - 1 THEN Tail(b)[i] ELSE t + 1
      <3> HIDE DEF p
      <3> QED BY <1>1, <2>1, <2>3, AppendOne
    <2>5. \A i \in 1 .. Len(p) : p[i] = t + 1 - Len(p) + i
      <3> SUFFICES ASSUME NEW i \in 1 .. Len(b) PROVE p[i] = t + 1 - Len(b) + i
        BY <2>4
      <3>1. CASE i =< Len(b) - 1
        <4>1. p[i] = b[i + 1] /\ i + 1 \in 1 .. Len(b)
          BY <1>1, <2>3, <2>4, <3>1
        <4>2. b[i + 1] = t - Len(b) + (i + 1)
          BY <4>1 DEF IsBuffer
        <4> QED BY <1>1, <4>1, <4>2
      <3>2. CASE i = Len(b)
        <4>1. p[i] = t + 1
          <5>1. ~(i =< Len(b) - 1)
            BY <1>1, <3>2
          <5> HIDE DEF p
          <5> QED BY <2>4, <5>1
        <4> QED BY <1>1, <3>2, <4>1
      <3> QED BY <1>1, <3>1, <3>2
    <2>6. Len(p) =< Cap /\ Len(p) =< t + 1 /\ (t + 1 =< Cap => Len(p) = t + 1)
      BY <1>1, <2>1, <2>4 DEF IsBuffer
    <2>7. IsBuffer(p, t + 1)
      BY <2>4, <2>5, <2>6 DEF IsBuffer
    <2> QED BY <1>1, <2>4, <2>7
  <1> QED BY <1>1, <1>2, <1>3

\* What a reader is handed of the buffer from a place on.
LEMMA SliceFacts ==
  ASSUME IsBuffer(events, total), total \in Nat, NEW c \in Nat, c =< Len(events)
  PROVE  /\ Slice(c) \in Seq(1 .. MaxTotal)
         /\ Len(Slice(c)) = Len(events) - c
         /\ \A i \in 1 .. Len(events) - c : Slice(c)[i] = Dropped + c + i
  <1>1. events \in Seq(1 .. MaxTotal) /\ Len(events) \in Nat
    BY LenProperties DEF IsBuffer
  <1>2. \A i \in (c + 1) .. Len(events) : events[i] \in 1 .. MaxTotal
    <2> SUFFICES ASSUME NEW i \in (c + 1) .. Len(events) PROVE events[i] \in 1 .. MaxTotal
      OBVIOUS
    <2>1. i \in 1 .. Len(events)
      BY <1>1
    <2> QED BY <1>1, <2>1, ElementOfSeq
  <1>3. /\ Slice(c) \in Seq(1 .. MaxTotal)
        /\ Len(Slice(c)) = IF c + 1 =< Len(events) THEN Len(events) - (c + 1) + 1 ELSE 0
        /\ \A i \in 1 .. Len(events) - (c + 1) + 1 : Slice(c)[i] = events[c + 1 + i - 1]
    BY <1>1, <1>2, SubSeqProperties DEF Slice
  <1>4. Len(Slice(c)) = Len(events) - c
    BY <1>1, <1>3
  <1>5. ASSUME NEW i \in 1 .. Len(events) - c PROVE Slice(c)[i] = Dropped + c + i
    <2>1. c + i \in 1 .. Len(events) /\ c + 1 + i - 1 = c + i
      BY <1>1
    <2>2. events[c + i] = total - Len(events) + (c + i)
      BY <2>1 DEF IsBuffer
    <2>3. Slice(c)[i] = events[c + i]
      BY <1>1, <1>3, <2>1
    <2> QED BY <1>1, <2>1, <2>2, <2>3 DEF Dropped
  <1> QED BY <1>3, <1>4, <1>5

----------------------------------------------------------------------------
(* One reader *)

\* The types of what the invariant says of one reader.
LEMMA ReaderFacts ==
  ASSUME MemInv, NEW r \in Readers
  PROVE  /\ ReaderOK(r)
         /\ IsBuffer(events, total) /\ total \in Nat /\ total =< MaxTotal
         /\ Cap \in Nat /\ MaxTotal \in Nat
         /\ Len(events) \in Nat /\ Dropped \in Nat
         /\ (total =< Cap => Dropped = 0)
         /\ cursor[r] \in Nat /\ nextSeq[r] \in Nat
         /\ got[r] \in Seq(1 .. MaxTotal) /\ Len(got[r]) \in Nat
         /\ batch[r] \in Seq(1 .. MaxTotal) /\ Len(batch[r]) \in Nat
         /\ \A i \in 1 .. Len(got[r]) : got[r][i] \in Nat
         /\ \A i \in 1 .. Len(batch[r]) : batch[r][i] \in Nat
  <1>1. /\ Cap \in Nat /\ MaxTotal \in Nat /\ total \in Nat /\ total =< MaxTotal
        /\ cursor[r] \in Nat /\ nextSeq[r] \in Nat
    BY RunAssumption DEF MemInv, TypeOK, MaxTotal
  <1>2. /\ got[r] \in Seq(1 .. MaxTotal) /\ batch[r] \in Seq(1 .. MaxTotal)
        /\ events \in Seq(1 .. MaxTotal)
    BY DEF MemInv, TypeOK
  <1>3. Len(got[r]) \in Nat /\ Len(batch[r]) \in Nat /\ Len(events) \in Nat
    BY <1>2, LenProperties
  <1>4. /\ \A i \in 1 .. Len(got[r]) : got[r][i] \in 1 .. MaxTotal
        /\ \A i \in 1 .. Len(batch[r]) : batch[r][i] \in 1 .. MaxTotal
    BY <1>2, ElementOfSeq
  <1>5. ReaderOK(r) /\ IsBuffer(events, total)
    BY DEF MemInv, RunOK
  <1>6. Dropped \in Nat /\ (total =< Cap => Dropped = 0)
    BY <1>1, <1>3, <1>5 DEF IsBuffer, Dropped
  <1>7. 1 .. MaxTotal \subseteq Nat
    OBVIOUS
  <1>8. /\ \A i \in 1 .. Len(got[r]) : got[r][i] \in Nat
        /\ \A i \in 1 .. Len(batch[r]) : batch[r][i] \in Nat
    BY <1>4, <1>7, Zenon
  <1> QED BY <1>1, <1>2, <1>3, <1>5, <1>6, <1>8, Zenon

\* A step of one reader leaves what is said of the others alone.
LEMMA OtherReaders ==
  ASSUME MemInv, UNCHANGED run, NEW x \in Readers,
         \A r \in Readers \ {x} :
            /\ phase'[r] = phase[r] /\ cursor'[r] = cursor[r] /\ batch'[r] = batch[r]
            /\ nextSeq'[r] = nextSeq[r] /\ got'[r] = got[r],
         ReaderOK(x)'
  PROVE  RunOK' /\ \A r \in Readers : ReaderOK(r)'
  <1>1. ASSUME NEW r \in Readers \ {x} PROVE ReaderOK(r)'
    <2>1. /\ phase'[r] = phase[r] /\ cursor'[r] = cursor[r] /\ batch'[r] = batch[r]
          /\ nextSeq'[r] = nextSeq[r] /\ got'[r] = got[r]
          /\ total' = total /\ events' = events /\ Dropped' = Dropped
      BY DEF run, Dropped
    <2>2. ReaderOK(r)
      BY DEF MemInv
    <2>3. PlaceOK(r)'
      BY <2>1, <2>2 DEF ReaderOK, PlaceOK
    <2>4. OrderOK(r)' /\ InlineOK(r)'
      BY <2>1, <2>2 DEF ReaderOK, OrderOK, InlineOK
    <2> QED BY <2>3, <2>4 DEF ReaderOK
  <1>2. RunOK'
    BY DEF MemInv, RunOK, run, IsBuffer
  <1> QED BY <1>1, <1>2

\* A step of the run that wakes the readers: the buffer and what it has dropped
\* only grow, so every reader's place holds.
LEMMA RunGrows ==
  ASSUME MemInv, IsBuffer(events', total'), total' \in Nat, total' > total,
         Len(events') >= Len(events), Dropped' >= Dropped,
         WakeReaders, UNCHANGED <<cursor, batch, nextSeq, got>>
  PROVE  /\ phase' \in [Readers -> {"new", "wait", "woken", "yield", "ended", "gone"}]
         /\ \A r \in Readers : ReaderOK(r)'
  <1>1. phase' \in [Readers -> {"new", "wait", "woken", "yield", "ended", "gone"}]
    BY DEF WakeReaders, Woken, MemInv, TypeOK
  <1> SUFFICES ASSUME NEW r \in Readers PROVE ReaderOK(r)'
    BY <1>1
  <1>2. phase'[r] = IF phase[r] = "wait" THEN "woken" ELSE phase[r]
    BY DEF WakeReaders, Woken
  <1>3. Len(events') \in Nat /\ Dropped' \in Int
    BY LenProperties DEF IsBuffer, Dropped
  <1>4. PlaceOK(r)'
    <2>1. /\ PlaceOK(r) /\ Len(events) \in Nat /\ Dropped \in Nat
          /\ cursor[r] \in Nat /\ nextSeq[r] \in Nat /\ Len(batch[r]) \in Nat
          /\ \A i \in 1 .. Len(got[r]) : got[r][i] \in Nat
          /\ \A i \in 1 .. Len(batch[r]) : batch[r][i] \in Nat
      BY ReaderFacts DEF ReaderOK
    <2>2. nextSeq[r] + Len(batch[r]) =< Len(events') /\ cursor[r] =< Len(events')
      BY <1>3, <2>1 DEF PlaceOK
    <2>3. ASSUME NEW i \in 1 .. Len(got[r]) PROVE got[r][i] =< Dropped' + nextSeq[r]
      <3>1. got[r][i] \in Nat /\ got[r][i] =< Dropped + nextSeq[r]
        BY <2>1 DEF PlaceOK
      <3> QED BY <1>3, <2>1, <3>1
    <2>4. ASSUME NEW i \in 1 .. Len(batch[r]) PROVE batch[r][i] =< Dropped' + nextSeq[r] + i
      <3>1. batch[r][i] \in Nat /\ batch[r][i] =< Dropped + nextSeq[r] + i /\ i \in Nat
        BY <2>1 DEF PlaceOK
      <3>2. nextSeq[r] + i \in Int /\ batch[r][i] =< Dropped + (nextSeq[r] + i)
        BY <2>1, <3>1
      <3>3. batch[r][i] =< Dropped' + (nextSeq[r] + i)
        <4>1. Dropped' >= Dropped /\ Dropped \in Int /\ batch[r][i] \in Int
          BY <2>1, <3>1
        <4>2. Dropped + (nextSeq[r] + i) =< Dropped' + (nextSeq[r] + i)
          BY <1>3, <3>2, <4>1
        <4> QED BY <1>3, <3>2, <4>1, <4>2
      <3>4. Dropped' + (nextSeq[r] + i) = Dropped' + nextSeq[r] + i
        BY <1>3, <2>1, <3>1
      <3> QED BY <3>3, <3>4
    <2> QED BY <1>2, <2>1, <2>2, <2>3, <2>4 DEF PlaceOK
  <1>5. OrderOK(r)'
    BY ReaderFacts DEF ReaderOK, OrderOK
  <1>6. InlineOK(r)'
    <2>1. total' =< Cap => total =< Cap
      BY ReaderFacts
    <2>2. phase'[r] # "wait"
      BY <1>2
    <2>3. phase'[r] = "woken" => phase[r] \in {"wait", "woken"}
      BY <1>2
    <2>4. InlineOK(r)
      BY ReaderFacts DEF ReaderOK
    <2> QED BY <2>1, <2>2, <2>3, <2>4 DEF InlineOK
  <1> QED BY <1>4, <1>5, <1>6 DEF ReaderOK

\* A reader's own variables after a round, whatever it found.
LEMMA RoundTypes ==
  ASSUME MemInv, NEW r \in Readers,
         NEW p \in {"new", "wait", "woken", "yield", "ended", "gone"},
         NEW c \in 0 .. MaxTotal, NEW b \in Seq(1 .. MaxTotal), NEW n \in 0 .. MaxTotal,
         phase' = [phase EXCEPT ![r] = p], cursor' = [cursor EXCEPT ![r] = c],
         batch' = [batch EXCEPT ![r] = b], nextSeq' = [nextSeq EXCEPT ![r] = n],
         UNCHANGED <<run, got>>, reconnects' \in 0 .. MaxReconnects
  PROVE  TypeOK'
  <1>1. /\ phase' \in [Readers -> {"new", "wait", "woken", "yield", "ended", "gone"}]
        /\ cursor' \in [Readers -> 0 .. MaxTotal]
        /\ batch' \in [Readers -> Seq(1 .. MaxTotal)]
        /\ nextSeq' \in [Readers -> 0 .. MaxTotal]
    <2> USE DEF MemInv, TypeOK
    <2>1. phase' \in [Readers -> {"new", "wait", "woken", "yield", "ended", "gone"}]
      OBVIOUS
    <2>2. cursor' \in [Readers -> 0 .. MaxTotal]
      OBVIOUS
    <2>3. batch' \in [Readers -> Seq(1 .. MaxTotal)]
      OBVIOUS
    <2>4. nextSeq' \in [Readers -> 0 .. MaxTotal]
      OBVIOUS
    <2> QED BY <2>1, <2>2, <2>3, <2>4
  <1> QED BY <1>1 DEF MemInv, TypeOK, run

\* A round of a reader's loop from a place at or past the one it is at.
LEMMA RoundKeeps ==
  ASSUME MemInv, NEW r \in Readers, NEW c \in Nat, c =< Len(events),
         nextSeq[r] =< c, batch[r] = <<>>,
         r \in Inline /\ total =< Cap => c = nextSeq[r],
         Round(r, c), UNCHANGED <<run, got>>, reconnects' \in 0 .. MaxReconnects
  PROVE  MemInv'
  <1>1. /\ ReaderOK(r) /\ IsBuffer(events, total) /\ total \in Nat
        /\ total =< MaxTotal /\ Cap \in Nat /\ MaxTotal \in Nat
        /\ Len(events) \in Nat /\ Dropped \in Nat
        /\ (total =< Cap => Dropped = 0)
        /\ nextSeq[r] \in Nat /\ Len(got[r]) \in Nat
        /\ \A i \in 1 .. Len(got[r]) : got[r][i] \in Nat
    BY ReaderFacts
  <1>2. cursor'[r] = c /\ Len(batch[r]) = 0 /\ c \in 0 .. MaxTotal
    BY <1>1 DEF Round, MemInv, TypeOK, IsBuffer
  <1>3. UNCHANGED <<total, events, active, got, Dropped>>
    BY DEF run, Dropped
  <1>4. TypeOK' /\ ReaderOK(r)'
    <2>1. CASE c < Len(events)
      <3>1. /\ phase'[r] = "yield" /\ batch'[r] = Slice(c) /\ nextSeq'[r] = c
            /\ Slice(c) \in Seq(1 .. MaxTotal)
            /\ Len(Slice(c)) = Len(events) - c
            /\ \A i \in 1 .. Len(events) - c : Slice(c)[i] = Dropped + c + i
        BY <1>1, <2>1, SliceFacts DEF Round, MemInv, TypeOK
      <3>2. TypeOK'
        <4>1. /\ phase' = [phase EXCEPT ![r] = "yield"] /\ cursor' = [cursor EXCEPT ![r] = c]
              /\ batch' = [batch EXCEPT ![r] = Slice(c)] /\ nextSeq' = [nextSeq EXCEPT ![r] = c]
          BY <2>1 DEF Round
        <4> QED BY <1>2, <3>1, <4>1, RoundTypes
      <3>3. \A i \in 1 .. Len(got[r]) : got[r][i] =< Dropped + c
        <4> SUFFICES ASSUME NEW i \in 1 .. Len(got[r]) PROVE got[r][i] =< Dropped + c
          OBVIOUS
        <4>1. got[r][i] =< Dropped + nextSeq[r] /\ got[r][i] \in Nat
          BY <1>1 DEF ReaderOK, PlaceOK
        <4>2. Dropped \in Nat /\ nextSeq[r] \in Nat
          BY <1>1
        <4> QED BY <4>1, <4>2
      <3>4. PlaceOK(r)'
        <4>1. \A i \in 1 .. Len(batch'[r]) : batch'[r][i] =< Dropped' + nextSeq'[r] + i
          <5> SUFFICES ASSUME NEW i \in 1 .. Len(Slice(c))
                       PROVE  Slice(c)[i] =< Dropped + c + i
            BY <1>3, <3>1
          <5> QED BY <1>1, <3>1
        <4>1a. \A i \in 1 .. Len(got'[r]) : got'[r][i] =< Dropped' + nextSeq'[r]
          BY <1>3, <3>1, <3>3
        <4>2. nextSeq'[r] + Len(batch'[r]) =< Len(events')
          BY <1>1, <1>3, <3>1
        <4> QED BY <1>2, <1>3, <3>1, <4>1, <4>1a, <4>2 DEF PlaceOK
      <3>5. OrderOK(r)'
        <4>1. ASSUME NEW i \in 1 .. Len(got[r]), NEW j \in 1 .. Len(Slice(c))
              PROVE  got[r][i] < Slice(c)[j]
          <5>1. got[r][i] \in Nat /\ got[r][i] =< Dropped + c
            BY <1>1, <3>3
          <5>2. j \in 1 .. Len(events) - c /\ j \in Nat /\ j >= 1
            BY <1>1, <3>1
          <5>3. Slice(c)[j] = Dropped + c + j
            BY <3>1, <5>2
          <5>4. Dropped \in Nat
            BY <1>1
          <5> QED BY <5>1, <5>2, <5>3, <5>4
        <4>2. ASSUME NEW i \in 1 .. Len(Slice(c)), NEW j \in 1 .. Len(Slice(c)), i < j
              PROVE  Slice(c)[i] < Slice(c)[j]
          <5>1. Slice(c)[i] = Dropped + c + i /\ Slice(c)[j] = Dropped + c + j
            BY <1>1, <3>1
          <5> QED BY <1>1, <4>2, <5>1
        <4> QED BY <1>1, <1>3, <3>1, <4>1, <4>2 DEF ReaderOK, OrderOK
      <3>6. InlineOK(r)'
        <4> SUFFICES ASSUME r \in Inline, total =< Cap
                     PROVE  /\ Len(got[r]) = c
                            /\ \A i \in 1 .. Len(got[r]) : got[r][i] = i
                            /\ \A i \in 1 .. Len(Slice(c)) : Slice(c)[i] = c + i
          BY <1>3, <3>1 DEF InlineOK
        <4>1. Dropped = 0 /\ c = nextSeq[r]
          BY <1>1
        <4>2. \A i \in 1 .. Len(Slice(c)) : Slice(c)[i] = c + i
          BY <1>1, <3>1, <4>1
        <4> QED BY <1>1, <4>1, <4>2 DEF ReaderOK, InlineOK
      <3> QED BY <3>2, <3>4, <3>5, <3>6 DEF ReaderOK
    <2>2. CASE ~(c < Len(events))
      <3>1. c = Len(events)
        BY <1>1, <2>2
      <3>2. /\ phase'[r] = IF active THEN "wait" ELSE "ended"
            /\ UNCHANGED <<batch, nextSeq>>
        BY <2>2 DEF Round, MemInv, TypeOK
      <3>3. TypeOK'
        BY <1>2, <2>2, <3>2 DEF Round, MemInv, TypeOK, run
      <3>4. PlaceOK(r)' /\ OrderOK(r)'
        BY <1>1, <1>2, <1>3, <3>1, <3>2 DEF ReaderOK, PlaceOK, OrderOK
      <3>5. InlineOK(r)'
        <4>1. total =< Cap => Len(events) = total
          BY <1>1 DEF IsBuffer
        <4> QED BY <1>1, <1>2, <1>3, <3>1, <3>2, <4>1 DEF ReaderOK, InlineOK
      <3> QED BY <3>3, <3>4, <3>5 DEF ReaderOK
    <2> QED BY <2>1, <2>2
  <1>5. \A s \in Readers \ {r} :
            /\ phase'[s] = phase[s] /\ cursor'[s] = cursor[s] /\ batch'[s] = batch[s]
            /\ nextSeq'[s] = nextSeq[s] /\ got'[s] = got[s]
    BY DEF Round, MemInv, TypeOK
  <1> QED BY <1>4, <1>5, OtherReaders DEF MemInv

----------------------------------------------------------------------------
(* The steps *)

\* Before the run's first event nobody holds anything.
LEMMA MemInit == Init => MemInv
  <1> SUFFICES ASSUME Init PROVE MemInv
    OBVIOUS
  <1> USE RunAssumption DEF Init
  <1>1. MaxTotal \in Nat /\ \A S : <<>> \in Seq(S) /\ Len(<<>>) = 0
    BY EmptySeq DEF MaxTotal
  <1>2. TypeOK
    BY <1>1 DEF TypeOK
  <1>3. RunOK
    BY <1>1 DEF RunOK, IsBuffer
  <1>4. \A r \in Readers : ReaderOK(r)
    BY <1>1 DEF ReaderOK, PlaceOK, OrderOK, InlineOK, Dropped
  <1> QED BY <1>2, <1>3, <1>4 DEF MemInv

\* One event more.
LEMMA EmitOneStep ==
  ASSUME MemInv, total + 1 =< MaxTotal, EmitOne, active' \in BOOLEAN, undos' \in 0 .. MaxUndos,
         UNCHANGED <<cursor, batch, nextSeq, got, reconnects>>,
         active' => undos' = 0 /\ total' =< MaxEvents,
         total' =< MaxEvents + 2 + undos'
  PROVE  MemInv'
  <1>1. IsBuffer(events, total) /\ total \in Nat /\ MaxTotal \in Nat /\ Len(events) \in Nat
    BY RunAssumption, LenProperties DEF MemInv, RunOK, IsBuffer, TypeOK, MaxTotal
  <1>2. total' = total + 1 /\ events' = Pushed(events, total + 1) /\ WakeReaders
    BY DEF EmitOne
  <1>3. /\ IsBuffer(events', total')
        /\ Len(events') >= Len(events) /\ total' - Len(events') >= total - Len(events)
    BY <1>1, <1>2, PushedIsBuffer
  <1>4. Dropped' >= Dropped
    BY <1>3 DEF Dropped
  <1>5. total' \in 0 .. MaxTotal /\ total' > total
    BY <1>1, <1>2
  <1>6. /\ phase' \in [Readers -> {"new", "wait", "woken", "yield", "ended", "gone"}]
        /\ \A r \in Readers : ReaderOK(r)'
    BY <1>2, <1>3, <1>4, <1>5, RunGrows
  <1>7. TypeOK'
    BY <1>3, <1>5, <1>6 DEF MemInv, TypeOK, IsBuffer
  <1>8. RunOK'
    BY <1>3 DEF RunOK
  <1> QED BY <1>6, <1>7, <1>8 DEF MemInv

LEMMA EmitStep ==
  ASSUME MemInv, Emit PROVE MemInv'
  <1>1. total + 1 =< MaxTotal /\ total + 1 =< MaxEvents /\ total' = total + 1 /\ undos = 0
    BY RunAssumption DEF MemInv, RunOK, TypeOK, Emit, EmitOne, MaxTotal
  <1> QED BY <1>1, EmitOneStep, RunAssumption DEF Emit, MemInv, TypeOK

LEMMA EndStep ==
  ASSUME MemInv, End PROVE MemInv'
  <1>1. total + 1 =< MaxTotal /\ total =< MaxEvents /\ total' = total + 1 /\ undos = 0
    BY RunAssumption DEF MemInv, RunOK, TypeOK, End, EmitOne, MaxTotal
  <1>2. total' =< MaxEvents + 2 + undos
    BY <1>1, RunAssumption DEF MemInv, TypeOK
  <1> QED BY <1>1, <1>2, EmitOneStep DEF End, MemInv, TypeOK

LEMMA UndoStep ==
  ASSUME MemInv, Undo PROVE MemInv'
  <1>1. /\ total + 1 =< MaxTotal /\ total' = total + 1
        /\ total' =< MaxEvents + 2 + undos' /\ undos' \in 0 .. MaxUndos
    BY RunAssumption DEF MemInv, RunOK, TypeOK, Undo, EmitOne, MaxTotal
  <1>2. active' = FALSE
    BY DEF Undo, MemInv, TypeOK
  <1> QED BY <1>1, <1>2, EmitOneStep DEF Undo

LEMMA EndBadlyStep ==
  ASSUME MemInv, EndBadly PROVE MemInv'
  <1> DEFINE b == Pushed(events, total + 1)
  <1>1. /\ IsBuffer(events, total) /\ total \in Nat /\ MaxTotal \in Nat /\ Len(events) \in Nat
        /\ total + 1 =< MaxTotal /\ total + 2 =< MaxTotal /\ total =< MaxEvents /\ undos = 0
        /\ MaxEvents \in Nat
    BY RunAssumption, LenProperties DEF MemInv, RunOK, IsBuffer, TypeOK, MaxTotal, EndBadly
  <1>2. /\ total' = total + 2 /\ events' = Pushed(b, total + 2)
        /\ WakeReaders /\ active' = FALSE /\ undos' = undos
    BY DEF EndBadly
  <1>3. /\ IsBuffer(b, total + 1)
        /\ Len(b) >= Len(events) /\ total + 1 - Len(b) >= total - Len(events)
    BY <1>1, PushedIsBuffer
  <1>4. total + 1 \in Nat /\ (total + 1) + 1 = total + 2
    BY <1>1
  <1>5. /\ IsBuffer(events', total')
        /\ Len(events') >= Len(b) /\ total' - Len(events') >= total + 1 - Len(b)
    <2> HIDE DEF b
    <2> QED BY <1>1, <1>2, <1>3, <1>4, PushedIsBuffer
  <1>6. Len(b) \in Nat /\ Len(events') \in Nat
    BY <1>3, <1>5, LenProperties DEF IsBuffer
  <1>7. Len(events') >= Len(events) /\ Dropped' >= Dropped
    <2> HIDE DEF b
    <2> QED BY <1>1, <1>2, <1>3, <1>5, <1>6 DEF Dropped
  <1>8. total' \in 0 .. MaxTotal /\ total' > total
    BY <1>1, <1>2
  <1>9. UNCHANGED <<cursor, batch, nextSeq, got, reconnects>>
    BY DEF EndBadly
  <1>10. /\ phase' \in [Readers -> {"new", "wait", "woken", "yield", "ended", "gone"}]
         /\ \A r \in Readers : ReaderOK(r)'
    BY <1>2, <1>5, <1>7, <1>8, <1>9, RunGrows
  <1>11. TypeOK'
    BY <1>2, <1>5, <1>8, <1>9, <1>10 DEF MemInv, TypeOK, IsBuffer
  <1>12. RunOK'
    BY <1>1, <1>2, <1>5 DEF RunOK
  <1> QED BY <1>10, <1>11, <1>12 DEF MemInv

LEMMA ConnectStep ==
  ASSUME MemInv, NEW r \in Readers, Connect(r) PROVE MemInv'
  <1>1. nextSeq[r] = 0 /\ batch[r] = <<>> /\ 0 =< Len(events)
    BY ReaderFacts DEF ReaderOK, PlaceOK, Connect
  <1> QED BY <1>1, RoundKeeps DEF Connect, MemInv, TypeOK

LEMMA ResumeStep ==
  ASSUME MemInv, NEW r \in Readers, Resume(r) PROVE MemInv'
  <1>1. /\ cursor[r] \in Nat /\ cursor[r] =< Len(events) /\ nextSeq[r] =< cursor[r]
        /\ batch[r] = <<>> /\ (r \in Inline /\ total =< Cap => cursor[r] = nextSeq[r])
    BY ReaderFacts DEF ReaderOK, PlaceOK, InlineOK, Resume
  <1> QED BY <1>1, RoundKeeps DEF Resume, MemInv, TypeOK

LEMMA ReconnectStep ==
  ASSUME MemInv, NEW r \in Readers, Reconnect(r) PROVE MemInv'
  <1>1. nextSeq[r] \in Nat /\ batch[r] = <<>> /\ Len(batch[r]) = 0 /\ nextSeq[r] =< Len(events)
    BY ReaderFacts, EmptySeq DEF ReaderOK, PlaceOK, Reconnect
  <1>2. reconnects' \in 0 .. MaxReconnects
    BY RunAssumption DEF Reconnect, MemInv, TypeOK
  <1>3. r \notin Inline
    BY RunAssumption DEF Reconnect
  <1> QED BY <1>1, <1>2, <1>3, RoundKeeps DEF Reconnect

\* Where a reader goes after a batch is at or past what it handed over.
LEMMA NewCursorFacts ==
  ASSUME MemInv, NEW r \in Readers, batch[r] = <<>>
  PROVE  /\ NewCursor(r) \in Nat /\ NewCursor(r) =< Len(events) /\ nextSeq[r] =< NewCursor(r)
         /\ r \in Inline => NewCursor(r) = nextSeq[r]
  <1>1. Len(batch[r]) = 0
    BY EmptySeq
  <1> QED BY <1>1, ReaderFacts DEF ReaderOK, PlaceOK, NewCursor, Larger

LEMMA EndBatchStep ==
  ASSUME MemInv, NEW r \in Readers, EndBatch(r) PROVE MemInv'
  <1>1. batch[r] = <<>> /\ phase[r] = "yield"
    BY DEF EndBatch
  <1>2. CASE active
    BY <1>1, <1>2, NewCursorFacts, RoundKeeps DEF EndBatch, MemInv, TypeOK
  <1>3. CASE ~active
    <2>1. /\ phase' = [phase EXCEPT ![r] = "ended"]
          /\ cursor' = [cursor EXCEPT ![r] = NewCursor(r)]
          /\ UNCHANGED <<batch, nextSeq, run, got, reconnects>>
      BY <1>3 DEF EndBatch
    <2>2. Dropped' = Dropped /\ total' = total /\ events' = events
      BY <2>1 DEF Dropped, run
    <2>3. /\ NewCursor(r) \in 0 .. MaxTotal /\ NewCursor(r) =< Len(events)
          /\ phase'[r] = "ended" /\ cursor'[r] = NewCursor(r)
      <3>1. NewCursor(r) \in Nat /\ NewCursor(r) =< Len(events)
        BY <1>1, NewCursorFacts
      <3>2. Len(events) \in Nat /\ Len(events) =< total /\ total \in Nat /\ total =< MaxTotal
            /\ MaxTotal \in Nat
        BY ReaderFacts DEF IsBuffer
      <3>3. NewCursor(r) \in 0 .. MaxTotal
        BY <3>1, <3>2
      <3>4. phase'[r] = "ended" /\ cursor'[r] = NewCursor(r)
        BY <2>1 DEF MemInv, TypeOK
      <3> QED BY <3>1, <3>3, <3>4
    <2>4. TypeOK'
      BY <2>1, <2>3 DEF MemInv, TypeOK, run
    <2>5. ReaderOK(r)
      BY DEF MemInv
    <2>6. PlaceOK(r)'
      BY <1>1, <2>1, <2>2, <2>3, <2>5 DEF ReaderOK, PlaceOK
    <2>7. OrderOK(r)'
      BY <2>1, <2>5 DEF ReaderOK, OrderOK
    <2>8. InlineOK(r)'
      BY <2>1, <2>2, <2>3, <2>5 DEF ReaderOK, InlineOK
    <2>9. ReaderOK(r)'
      BY <2>6, <2>7, <2>8 DEF ReaderOK
    <2> QED BY <2>1, <2>4, <2>9, OtherReaders DEF MemInv, TypeOK
  <1> QED BY <1>2, <1>3 DEF MemInv, TypeOK

LEMMA DisconnectStep ==
  ASSUME MemInv, NEW r \in Readers, Disconnect(r) PROVE MemInv'
  <1>1. /\ phase' = [phase EXCEPT ![r] = "gone"] /\ batch' = [batch EXCEPT ![r] = <<>>]
        /\ UNCHANGED <<run, cursor, nextSeq, got, reconnects>>
    BY DEF Disconnect
  <1>2. phase'[r] = "gone" /\ batch'[r] = <<>> /\ Len(batch'[r]) = 0
    BY <1>1, EmptySeq DEF MemInv, TypeOK
  <1>3. Dropped' = Dropped /\ total' = total /\ events' = events
    BY <1>1 DEF Dropped, run
  <1>4. TypeOK'
    <2>1. <<>> \in Seq(1 .. MaxTotal)
      BY EmptySeq
    <2> QED BY <1>1, <2>1 DEF MemInv, TypeOK, run
  <1>5. PlaceOK(r)'
    <2>1. PlaceOK(r) /\ nextSeq[r] \in Nat /\ Len(batch[r]) \in Nat /\ Len(events) \in Nat
      BY ReaderFacts DEF ReaderOK
    <2>2. nextSeq[r] + 0 =< Len(events)
      BY <2>1 DEF PlaceOK
    <2>3. /\ got'[r] = got[r] /\ nextSeq'[r] = nextSeq[r] /\ cursor'[r] = cursor[r]
          /\ \A i \in 1 .. Len(batch'[r]) : FALSE
      BY <1>1, <1>2
    <2> QED BY <1>2, <1>3, <2>1, <2>2, <2>3 DEF PlaceOK
  <1>6. OrderOK(r)' /\ InlineOK(r)'
    <2>1. OrderOK(r) /\ InlineOK(r)
      BY DEF MemInv, ReaderOK
    <2>2. got'[r] = got[r] /\ nextSeq'[r] = nextSeq[r] /\ \A i \in 1 .. Len(batch'[r]) : FALSE
      BY <1>1, <1>2
    <2>3. OrderOK(r)'
      BY <2>1, <2>2 DEF OrderOK
    <2>4. InlineOK(r)'
      BY <1>2, <1>3, <2>1, <2>2 DEF InlineOK
    <2> QED BY <2>3, <2>4
  <1> QED BY <1>1, <1>4, <1>5, <1>6, OtherReaders DEF MemInv, TypeOK, ReaderOK

\* One event handed over.
LEMMA YieldStep ==
  ASSUME MemInv, NEW r \in Readers, Yield(r) PROVE MemInv'
  <1> DEFINE e == Head(batch[r])
  <1>1. /\ ReaderOK(r) /\ total \in Nat /\ total =< MaxTotal /\ MaxTotal \in Nat
        /\ Len(events) \in Nat /\ Len(events) =< total /\ Dropped \in Nat /\ nextSeq[r] \in Nat
        /\ got[r] \in Seq(1 .. MaxTotal) /\ Len(got[r]) \in Nat
        /\ batch[r] \in Seq(1 .. MaxTotal)
        /\ \A i \in 1 .. Len(got[r]) : got[r][i] \in Nat
        /\ \A i \in 1 .. Len(batch[r]) : batch[r][i] \in Nat
    BY ReaderFacts DEF IsBuffer
  <1>2. /\ phase[r] = "yield" /\ batch[r] # <<>>
        /\ got' = [got EXCEPT ![r] = Append(@, e)] /\ batch' = [batch EXCEPT ![r] = Tail(@)]
        /\ nextSeq' = [nextSeq EXCEPT ![r] = @ + 1]
        /\ UNCHANGED <<run, phase, cursor, reconnects>>
    BY DEF Yield
  <1>3. /\ Len(batch[r]) \in Nat \ {0}
        /\ e \in 1 .. MaxTotal /\ e = batch[r][1] /\ e \in Nat
        /\ Tail(batch[r]) \in Seq(1 .. MaxTotal)
        /\ Len(Tail(batch[r])) = Len(batch[r]) - 1
        /\ \A i \in 1 .. Len(batch[r]) - 1 : Tail(batch[r])[i] = batch[r][i + 1]
    <2>1. /\ Len(batch[r]) \in Nat \ {0}
          /\ e \in 1 .. MaxTotal /\ e = batch[r][1]
          /\ Tail(batch[r]) \in Seq(1 .. MaxTotal)
          /\ Len(Tail(batch[r])) = Len(batch[r]) - 1
          /\ \A i \in 1 .. Len(batch[r]) - 1 : Tail(batch[r])[i] = batch[r][i + 1]
      <3>1. batch[r] \in Seq(1 .. MaxTotal) /\ batch[r] # <<>>
        BY <1>1, <1>2
      <3> QED BY <3>1, DropOne
    <2>2. e \in Nat
      <3> HIDE DEF e
      <3> QED BY <1>1, <2>1
    <2> QED BY <2>1, <2>2
  <1>4. /\ Append(got[r], e) \in Seq(1 .. MaxTotal)
        /\ Len(Append(got[r], e)) = Len(got[r]) + 1
        /\ \A i \in 1 .. Len(got[r]) + 1 :
              Append(got[r], e)[i] = IF i =< Len(got[r]) THEN got[r][i] ELSE e
    <2> HIDE DEF e
    <2> QED BY <1>1, <1>3, AppendOne
  <1>5. /\ got'[r] = Append(got[r], e) /\ batch'[r] = Tail(batch[r])
        /\ nextSeq'[r] = nextSeq[r] + 1 /\ cursor'[r] = cursor[r] /\ phase'[r] = "yield"
        /\ total' = total /\ events' = events /\ Dropped' = Dropped
    BY <1>2 DEF MemInv, TypeOK, run, Dropped
  <1> HIDE DEF e
  <1>6. nextSeq[r] + 1 \in 0 .. MaxTotal /\ nextSeq[r] + Len(batch[r]) =< Len(events)
    <2>1. nextSeq[r] + Len(batch[r]) =< Len(events)
      BY <1>1 DEF ReaderOK, PlaceOK
    <2>2. /\ total \in Nat /\ total =< MaxTotal /\ MaxTotal \in Nat /\ nextSeq[r] \in Nat
          /\ Len(events) \in Nat /\ Len(events) =< total /\ Len(batch[r]) \in Nat \ {0}
      BY <1>1, <1>3
    <2> QED BY <2>1, <2>2
  <1>7. TypeOK'
    BY <1>2, <1>3, <1>4, <1>6 DEF MemInv, TypeOK, run
  <1>8. e =< Dropped + nextSeq[r] + 1 /\ \A i \in 1 .. Len(got[r]) : got[r][i] < e
    BY <1>1, <1>3 DEF ReaderOK, PlaceOK, OrderOK
  <1>9. ASSUME NEW i \in 1 .. Len(got[r]) + 1
        PROVE  /\ Append(got[r], e)[i] \in Nat
               /\ Append(got[r], e)[i] =< Dropped + (nextSeq[r] + 1)
    <2>1. CASE i =< Len(got[r])
      <3>1. i \in 1 .. Len(got[r]) /\ Append(got[r], e)[i] = got[r][i]
        BY <1>1, <1>4, <2>1
      <3>2. got[r][i] \in Nat /\ got[r][i] =< Dropped + nextSeq[r]
        BY <1>1, <3>1 DEF ReaderOK, PlaceOK
      <3>3. Dropped \in Nat /\ nextSeq[r] \in Nat
        BY <1>1
      <3> QED BY <3>1, <3>2, <3>3
    <2>2. CASE ~(i =< Len(got[r]))
      <3>1. Append(got[r], e)[i] = e
        BY <1>4, <2>2
      <3>2. e \in Nat /\ Dropped \in Nat /\ nextSeq[r] \in Nat
        BY <1>1, <1>3
      <3> QED BY <1>8, <3>1, <3>2
    <2> QED BY <2>1, <2>2
  <1>10. ASSUME NEW i \in 1 .. Len(batch[r]) - 1
         PROVE  /\ i + 1 \in 1 .. Len(batch[r]) /\ Tail(batch[r])[i] = batch[r][i + 1]
                /\ Tail(batch[r])[i] \in Nat
                /\ Tail(batch[r])[i] =< Dropped + (nextSeq[r] + 1) + i
                /\ e < Tail(batch[r])[i]
    <2>1. i + 1 \in 1 .. Len(batch[r]) /\ i \in Nat /\ 1 \in 1 .. Len(batch[r]) /\ 1 < i + 1
      BY <1>3
    <2>2. Tail(batch[r])[i] = batch[r][i + 1]
      BY <1>3
    <2>3. batch[r][i + 1] =< Dropped + nextSeq[r] + (i + 1) /\ batch[r][1] < batch[r][i + 1]
      BY <1>1, <2>1 DEF ReaderOK, PlaceOK, OrderOK
    <2>4. batch[r][i + 1] \in Nat
      BY <1>1, <2>1
    <2>5. Dropped + nextSeq[r] + (i + 1) = Dropped + (nextSeq[r] + 1) + i
      <3>1. Dropped \in Nat /\ nextSeq[r] \in Nat /\ i \in Nat
        BY <1>1, <2>1
      <3> QED BY <3>1
    <2>6. e < Tail(batch[r])[i]
      BY <1>3, <2>2, <2>3
    <2>7. Tail(batch[r])[i] =< Dropped + (nextSeq[r] + 1) + i
      BY <2>2, <2>3, <2>5
    <2> QED BY <2>1, <2>2, <2>4, <2>6, <2>7
  <1>11. PlaceOK(r)'
    <2>1. nextSeq'[r] + Len(batch'[r]) =< Len(events')
      <3>1. nextSeq[r] \in Nat /\ Len(batch[r]) \in Nat /\ Len(batch'[r]) = Len(batch[r]) - 1
        BY <1>1, <1>3, <1>5
      <3>2. nextSeq'[r] = nextSeq[r] + 1 /\ Len(events') = Len(events) /\ Len(events) \in Nat
        BY <1>1, <1>5
      <3> QED BY <1>6, <3>1, <3>2
    <2>2. cursor'[r] =< Len(events')
      BY <1>1, <1>5 DEF ReaderOK, PlaceOK
    <2>3. \A i \in 1 .. Len(got'[r]) : got'[r][i] =< Dropped' + nextSeq'[r]
      BY <1>4, <1>5, <1>9
    <2>4. \A i \in 1 .. Len(batch'[r]) : batch'[r][i] =< Dropped' + nextSeq'[r] + i
      BY <1>3, <1>5, <1>10
    <2> QED BY <1>5, <2>1, <2>2, <2>3, <2>4 DEF PlaceOK
  <1>12. OrderOK(r)'
    <2>1. ASSUME NEW i \in 1 .. Len(got[r]) + 1, NEW j \in 1 .. Len(got[r]) + 1, i < j
          PROVE  Append(got[r], e)[i] < Append(got[r], e)[j]
      <3>1. i =< Len(got[r]) /\ Append(got[r], e)[i] = got[r][i] /\ i \in 1 .. Len(got[r])
        BY <1>1, <1>4, <2>1
      <3>2. CASE j =< Len(got[r])
        BY <1>1, <1>4, <2>1, <3>1, <3>2 DEF ReaderOK, OrderOK
      <3>3. CASE ~(j =< Len(got[r]))
        BY <1>4, <1>8, <3>1, <3>3
      <3> QED BY <3>2, <3>3
    <2>2. ASSUME NEW i \in 1 .. Len(batch[r]) - 1, NEW j \in 1 .. Len(batch[r]) - 1, i < j
          PROVE  Tail(batch[r])[i] < Tail(batch[r])[j]
      <3>1. i + 1 < j + 1
        BY <1>3, <2>2
      <3> QED BY <1>1, <1>10, <3>1 DEF ReaderOK, OrderOK
    <2>3. ASSUME NEW i \in 1 .. Len(got[r]) + 1, NEW j \in 1 .. Len(batch[r]) - 1
          PROVE  Append(got[r], e)[i] < Tail(batch[r])[j]
      <3>1. CASE i =< Len(got[r])
        <4>1. i \in 1 .. Len(got[r]) /\ Append(got[r], e)[i] = got[r][i]
          BY <1>1, <1>4, <3>1
        <4> QED BY <1>1, <1>10, <4>1 DEF ReaderOK, OrderOK
      <3>2. CASE ~(i =< Len(got[r]))
        BY <1>4, <1>10, <3>2
      <3> QED BY <3>1, <3>2
    <2> QED BY <1>3, <1>4, <1>5, <2>1, <2>2, <2>3 DEF OrderOK
  <1>13. InlineOK(r)'
    <2> SUFFICES ASSUME r \in Inline, total =< Cap
                 PROVE  /\ Len(got[r]) + 1 = nextSeq[r] + 1
                        /\ \A i \in 1 .. Len(got[r]) + 1 : Append(got[r], e)[i] = i
                        /\ \A i \in 1 .. Len(batch[r]) - 1 :
                              Tail(batch[r])[i] = nextSeq[r] + 1 + i
      BY <1>3, <1>4, <1>5 DEF InlineOK
    <2>1. /\ Len(got[r]) = nextSeq[r]
          /\ \A i \in 1 .. Len(got[r]) : got[r][i] = i
          /\ \A i \in 1 .. Len(batch[r]) : batch[r][i] = nextSeq[r] + i
      BY <1>1 DEF ReaderOK, InlineOK
    <2>2. e = Len(got[r]) + 1
      BY <1>1, <1>3, <2>1
    <2>3. \A i \in 1 .. Len(got[r]) + 1 : Append(got[r], e)[i] = i
      <3> SUFFICES ASSUME NEW i \in 1 .. Len(got[r]) + 1 PROVE Append(got[r], e)[i] = i
        OBVIOUS
      <3>1. CASE i =< Len(got[r])
        BY <1>1, <1>4, <2>1, <3>1
      <3>2. CASE ~(i =< Len(got[r]))
        <4>1. i = Len(got[r]) + 1
          <5>1. Len(got[r]) \in Nat
            BY <1>1
          <5> QED BY <3>2, <5>1
        <4>2. Append(got[r], e)[i] = e
          BY <1>4, <3>2
        <4> QED BY <2>2, <4>1, <4>2
      <3> QED BY <3>1, <3>2
    <2>4. ASSUME NEW i \in 1 .. Len(batch[r]) - 1 PROVE Tail(batch[r])[i] = nextSeq[r] + 1 + i
      <3>1. Tail(batch[r])[i] = nextSeq[r] + (i + 1)
        BY <1>10, <2>1
      <3>2. i \in Nat /\ nextSeq[r] \in Nat
        BY <1>1, <1>3
      <3>3. nextSeq[r] + (i + 1) = nextSeq[r] + 1 + i
        BY <3>2
      <3> QED BY <3>1, <3>3
    <2> QED BY <2>1, <2>3, <2>4
  <1> QED BY <1>2, <1>7, <1>11, <1>12, <1>13, OtherReaders DEF MemInv, TypeOK, ReaderOK

----------------------------------------------------------------------------
(* The theorems *)

\* The invariant holds in every reachable state.
THEOREM MemInvariant == Spec => []MemInv
  <1>1. MemInv /\ [Next]_vars => MemInv'
    <2> SUFFICES ASSUME MemInv, [Next]_vars PROVE MemInv'
      OBVIOUS
    <2>1. CASE UNCHANGED vars
      <3>1. TypeOK' /\ RunOK'
        BY <2>1 DEF vars, MemInv, TypeOK, RunOK, IsBuffer
      <3>2. ASSUME NEW r \in Readers PROVE ReaderOK(r)'
        BY <2>1 DEF vars, MemInv, ReaderOK, PlaceOK, OrderOK, InlineOK, Dropped
      <3> QED BY <3>1, <3>2 DEF MemInv
    <2>2. CASE Next
      BY <2>2, EmitStep, EndStep, EndBadlyStep, UndoStep, ConnectStep, ResumeStep, YieldStep,
         EndBatchStep, DisconnectStep, ReconnectStep DEF Next
    <2> QED BY <2>1, <2>2
  <1> QED BY <1>1, MemInit, PTL DEF Spec

\* The variables stay in their types, the buffer within its limit.
THEOREM MemTypeOK == Spec => []TypeOK
  BY MemInvariant, PTL DEF MemInv

\* No client is handed an event twice or out of order, for any limit of the
\* buffer and any number of reconnections of the web client.
THEOREM MemNoRepeat == Spec => []NoRepeat
  <1>1. MemInv => NoRepeat
    BY DEF MemInv, ReaderOK, OrderOK, NoRepeat
  <1> QED BY <1>1, MemInvariant, PTL

\* Until the buffer overflows the stream of the request that started the run has
\* no gap, and is behind by nothing when it waits.  Nothing is said of the events
\* that follow the last batch of a stream whose run ended meanwhile.
THEOREM MemInlineGapless == Spec => []InlineGapless
  <1>1. MemInv => InlineGapless
    BY DEF MemInv, ReaderOK, InlineOK, InlineGapless, IsPrefix, Readers
  <1> QED BY <1>1, MemInvariant, PTL

=============================================================================
