-------------------------- MODULE BookEngineProofs --------------------------
(***************************************************************************)
(* Proofs about BookEngine, for any number of requests, pages, chapters    *)
(* and blocks.                                                             *)
(*                                                                         *)
(* The invariant BookInv adds to the typing and to the three safety        *)
(* invariants what they need of the tasks: a copy that is being compiled   *)
(* is marked open, and the worker's page is on disk.  Every action but     *)
(* the compilation steps is an assignment; what a compilation step does to *)
(* the variables is stated once, as Compiled.                              *)
(***************************************************************************)
EXTENDS BookEngine, FiniteSetTheorems, TLAPS

BookStatus == {"none", "draft", "spine_ready", "compiling", "ready"}

CopyIsOpen ==
    \A t \in Tasks : work[t].at \in {"plan", "block"} => work[t].copy.status = "open"

WorkerHasPage == InHand \subseteq Stored(disk)

BookInv ==
    /\ TypeOK
    /\ CopyIsOpen
    /\ WorkerHasPage
    /\ NoLeakedMark
    /\ QueueIsServed
    /\ FinishedIsReady

\* The worker turns to w: it has given page p back, has died of it, or goes on.
Handed(w, p) ==
    \/ w.at = "get" /\ queued' = queued \ {p} /\ died' = died
    \/ w.at = "rest" /\ queued' = queued \ {p} /\ died' = TRUE
    \/ w.at \in {"plan", "block"} /\ queued' = queued /\ died' = died

\* What task t leaves after compiling page p from block i on, or from its plan on
\* if i is 0: a page and a task that has moved on; the worker has given the page back or still has it.
Compiled(t, p, i) ==
    /\ \E q \in Page : disk' = [disk EXCEPT ![p] = q]
    /\ \E w \in Idle \cup Busy :
         /\ work' = [work EXCEPT ![t] = w]
         /\ w.at \in {"plan", "block"} => w.page = p /\ w.copy.status = "open"
         /\ \/ w.at \in {"rest", "get"}
            \/ w.at = "block" /\ w.block >= i
            \/ w.at = "plan" /\ i = 0
         /\ t # "worker" => queued' = queued /\ died' = died
         /\ t = "worker" => Handed(w, p)
    /\ book' \in BookStatus
    /\ loose' \in BOOLEAN
    /\ FinishedIsReady'

----------------------------------------------------------------------------
(* Pages and their files *)

LEMMA WorkerIsTask == "worker" \in Tasks /\ \A c \in Clients : c \in Tasks /\ c # "worker"
  BY BookAssumption DEF Tasks

LEMMA PageFields ==
  ASSUME NEW page \in Page
  PROVE  /\ page # NoPage
         /\ page.status \in {"open", "ready"}
         /\ page.chapter \in Chapters
         /\ page.blocks \in Seq(BlockStates)
  BY DEF Page, NoPage

LEMMA StatusPage ==
  ASSUME NEW page \in Page
  PROVE  /\ Judged(page) \in Page
         /\ Opened(page) \in Page
         /\ Opened(page).status = "open"
         /\ Opened(page).blocks = page.blocks
  BY DEF Page, Judged, Opened

LEMMA BlockPage ==
  ASSUME NEW page \in Page, NEW i, NEW status \in BlockStates
  PROVE  /\ WithBlock(page, i, status) \in Page
         /\ WithBlock(page, i, status).status = page.status
<1> DEFINE b == [page.blocks EXCEPT ![i] = status]
           n == Len(page.blocks)
<1>1. n \in Nat /\ page.blocks \in [1 .. n -> BlockStates]
  BY PageFields
<1>2. b \in [1 .. n -> BlockStates]
  BY <1>1
<1>3. b \in Seq(BlockStates)
  BY <1>1, <1>2
<1> QED
  BY <1>3 DEF Page, WithBlock

LEMMA ResetPage ==
  ASSUME NEW page \in Page, NEW notes
  PROVE  Reset(page, notes) \in Page /\ Reset(page, notes).status = "open"
<1> DEFINE b == [i \in DOMAIN page.blocks |-> IF i \in notes THEN page.blocks[i] ELSE "open"]
<1>1. page.blocks \in Seq(BlockStates)
  BY PageFields
<1>2. b \in Seq(BlockStates)
  BY <1>1 DEF BlockStates
<1> QED
  BY <1>2 DEF Page, Reset

LEMMA FinalizedStatus ==
  ASSUME NEW files, NEW status \in BookStatus
  PROVE  Finalized(files, status) \in BookStatus
  BY DEF Finalized, BookStatus

\* Finalizing leaves no finished book behind.
LEMMA FinalizeFinishes ==
  ASSUME TypeOK, NEW files, disk' = files, Finalize(files)
  PROVE  FinishedIsReady' /\ book' \in BookStatus /\ loose' \in BOOLEAN
<1>1. book' = Finalized(disk', book) /\ loose' = FALSE
  BY DEF Finalize
<1>2. book' \in BookStatus
  BY <1>1, FinalizedStatus DEF TypeOK, BookStatus
<1>3. FinishedIsReady'
  BY <1>1 DEF FinishedIsReady, Finalized
<1> QED
  BY <1>1, <1>2, <1>3

\* A page that is open in the files keeps the book from being finished.
LEMMA OpenPageIsUnfinished ==
  ASSUME NEW p \in Pages, disk'[p].status = "open"
  PROVE  FinishedIsReady'
  BY DEF FinishedIsReady, Stored

----------------------------------------------------------------------------
(* The steps of a compilation *)

LEMMA RestIsIdle == Rest \in Idle /\ Rest \in Idle \cup Busy /\ Rest.at = "rest"
  BY DEF Rest, Idle

LEMMA ReleaseEffect ==
  ASSUME TypeOK, NEW t \in Tasks, NEW p \in Pages, Release(t, p)
  PROVE  \E w \in Idle :
           /\ work' = [work EXCEPT ![t] = w]
           /\ w.at \in {"rest", "get"}
           /\ t # "worker" => queued' = queued
           /\ t = "worker" => w.at = "get" /\ queued' = queued \ {p}
<1>1. CASE t = "worker"
  <2> DEFINE w == [at |-> "get", page |-> 0, copy |-> NoPage, block |-> 0]
  <2>1. w \in Idle
    BY DEF Idle
  <2>2. work' = [work EXCEPT ![t] = w] /\ queued' = queued \ {p}
    BY <1>1 DEF Release, At, Discarded
  <2> QED
    BY <1>1, <2>1, <2>2
<1>2. CASE t # "worker"
  <2>1. Rest \in Idle /\ Rest.at = "rest"
    BY DEF Idle, Rest
  <2>2. work' = [work EXCEPT ![t] = Rest] /\ queued' = queued
    BY <1>2 DEF Release
  <2> QED
    BY <1>2, <2>1, <2>2
<1> QED
  BY <1>1, <1>2

LEMMA GenerateEffect ==
  ASSUME TypeOK, NEW t \in Tasks, NEW p \in Pages, NEW page \in Page, NEW i \in Nat,
         NEW k \in 0 .. i, page.status = "open", Generate(t, p, page, i)
  PROVE  Compiled(t, p, k)
<1> DEFINE left == {j \in DOMAIN page.blocks : j >= i /\ page.blocks[j] = "open"}
<1>1. CASE left = {}
  <2>1. /\ disk' = [disk EXCEPT ![p] = Judged(page)]
        /\ \/ Release(t, p) /\ Finalize(disk') /\ UNCHANGED died
           \/ Abort(t, p) /\ FinalizeFails
    BY <1>1 DEF Generate
  <2>2. FinishedIsReady' /\ book' \in BookStatus /\ loose' \in BOOLEAN
    <3>1. CASE Finalize(disk')
      BY <3>1, FinalizeFinishes
    <3>2. CASE FinalizeFails
      BY <3>2 DEF FinalizeFails, FinishedIsReady, TypeOK, BookStatus
    <3> QED
      BY <2>1, <3>1, <3>2
  <2>3. Judged(page) \in Page
    BY StatusPage
  <2>4. PICK w \in Idle :
           /\ work' = [work EXCEPT ![t] = w]
           /\ w.at \in {"rest", "get"}
           /\ t # "worker" => queued' = queued /\ died' = died
           /\ t = "worker" => Handed(w, p)
    <3>1. CASE Release(t, p) /\ UNCHANGED died
      BY <3>1, ReleaseEffect DEF Handed
    <3>2. CASE Abort(t, p)
      BY <3>2, RestIsIdle DEF Abort, Discarded, Handed, TypeOK
    <3> QED
      BY <2>1, <3>1, <3>2
  <2> QED
    BY <2>1, <2>2, <2>3, <2>4 DEF Compiled
<1>2. CASE left # {}
  <2>1. /\ disk' = [disk EXCEPT ![p] = page]
        /\ queued' = queued /\ book' = book /\ loose' = loose /\ died' = died
    BY <1>2 DEF Generate
  <2>2. PICK j \in left : At(t, "block", p, page, j)
    BY <1>2 DEF Generate
  <2> DEFINE w == [at |-> "block", page |-> p, copy |-> page, block |-> j]
  <2>3. w \in Busy
    BY PageFields DEF Busy
  <2>4. work' = [work EXCEPT ![t] = w]
    BY <2>2 DEF At
  <2>5. FinishedIsReady'
    BY <2>1, OpenPageIsUnfinished DEF TypeOK
  <2>6. j >= k
    BY PageFields
  <2>7. book' \in BookStatus /\ loose' \in BOOLEAN
    BY <2>1 DEF TypeOK, BookStatus
  <2>8. /\ w \in Idle \cup Busy /\ w.at = "block" /\ w.page = p
        /\ w.copy.status = "open" /\ w.block >= k
    BY <2>3, <2>6
  <2> HIDE DEF w
  <2> QED
    BY <2>1, <2>4, <2>5, <2>7, <2>8 DEF Compiled, Handed
<1> QED
  BY <1>1, <1>2

LEMMA StartCompileEffect ==
  ASSUME TypeOK, NEW t \in Tasks, NEW p \in Pages, NEW page \in Page,
         StartCompile(t, p, page)
  PROVE  Compiled(t, p, 0)
<1>1. Opened(page) \in Page /\ Opened(page).status = "open"
  BY StatusPage
<1>2. CASE page.blocks # <<>> /\ Generate(t, p, Opened(page), 1)
  BY <1>1, <1>2, GenerateEffect
<1>3. CASE /\ disk' = [disk EXCEPT ![p] = Opened(page)]
           /\ At(t, "plan", p, Opened(page), 0)
           /\ UNCHANGED <<queued, book, loose, died>>
  <2> DEFINE w == [at |-> "plan", page |-> p, copy |-> Opened(page), block |-> 0]
  <2>1. w \in Busy
    BY <1>1 DEF Busy
  <2>2. work' = [work EXCEPT ![t] = w]
    BY <1>3 DEF At
  <2>3. FinishedIsReady'
    BY <1>1, <1>3, OpenPageIsUnfinished DEF TypeOK
  <2>4. book' \in BookStatus /\ loose' \in BOOLEAN
    BY <1>3 DEF TypeOK, BookStatus
  <2>5. /\ w \in Idle \cup Busy /\ w.at = "plan" /\ w.page = p
        /\ w.copy.status = "open"
    BY <1>1, <2>1
  <2> HIDE DEF w
  <2> QED
    BY <1>1, <1>3, <2>2, <2>3, <2>4, <2>5 DEF Compiled, Handed
<1> QED
  BY <1>2, <1>3 DEF StartCompile

----------------------------------------------------------------------------
(* What a compilation step keeps *)

Waiting == {queue[i] : i \in DOMAIN queue}

LEMMA CompiledTypes ==
  ASSUME TypeOK, NEW t \in Tasks, NEW p \in Pages, NEW i, Compiled(t, p, i),
         spine' \subseteq Chapters, chapters' \in 0 .. MaxChapters,
         pages' \in 0 .. MaxPages, queue' \in Seq(Pages), cancelled' \subseteq Pages
  PROVE  TypeOK'
<1>1. PICK q \in Page : disk' = [disk EXCEPT ![p] = q]
  BY DEF Compiled
<1>2. PICK w \in Idle \cup Busy :
        /\ work' = [work EXCEPT ![t] = w]
        /\ t # "worker" => queued' = queued /\ died' = died
        /\ t = "worker" => Handed(w, p)
  BY DEF Compiled
<1>3. disk' \in [Pages -> Page \cup {NoPage}]
  BY <1>1 DEF TypeOK
<1>4. work' \in [Tasks -> Idle \cup Busy]
  BY <1>2 DEF TypeOK
<1>5. queued' \subseteq Pages /\ died' \in BOOLEAN
  BY <1>2 DEF TypeOK, Handed
<1>6. book' \in BookStatus /\ loose' \in BOOLEAN
  BY DEF Compiled
<1> QED
  BY <1>3, <1>4, <1>5, <1>6 DEF TypeOK, BookStatus

\* Writing a page makes no page disappear.
LEMMA WrittenIsStored ==
  ASSUME TypeOK, NEW p \in Pages, NEW q \in Page, disk' = [disk EXCEPT ![p] = q]
  PROVE  Stored(disk') = Stored(disk) \cup {p}
  BY PageFields DEF Stored, TypeOK

LEMMA CompiledTasks ==
  ASSUME BookInv, NEW t \in Tasks, NEW p \in Pages, NEW i, Compiled(t, p, i)
  PROVE  CopyIsOpen' /\ WorkerHasPage'
<1>1. PICK q \in Page : disk' = [disk EXCEPT ![p] = q]
  BY DEF Compiled
<1>2. PICK w \in Idle \cup Busy :
        /\ work' = [work EXCEPT ![t] = w]
        /\ w.at \in {"plan", "block"} => w.page = p /\ w.copy.status = "open"
  BY DEF Compiled
<1>3. CopyIsOpen'
  BY <1>2 DEF BookInv, CopyIsOpen, TypeOK
<1>4. Stored(disk') = Stored(disk) \cup {p}
  BY <1>1, WrittenIsStored DEF BookInv
<1>5. CASE t = "worker"
  <2>1. work'["worker"] = w
    BY <1>2, <1>5, WorkerIsTask DEF BookInv, TypeOK
  <2>2. WorkerHasPage'
    BY <1>2, <1>4, <2>1 DEF WorkerHasPage, InHand
  <2> QED
    BY <1>3, <2>2
<1>6. CASE t # "worker"
  <2>1. work'["worker"] = work["worker"]
    BY <1>2, <1>6, WorkerIsTask DEF BookInv, TypeOK
  <2>2. WorkerHasPage'
    BY <1>4, <2>1 DEF BookInv, WorkerHasPage, InHand
  <2> QED
    BY <1>3, <2>2
<1> QED
  BY <1>5, <1>6

\* A request that compiles leaves the queue, the marks and the worker alone.
LEMMA RequestKeepsQueue ==
  ASSUME BookInv, NEW t \in Tasks, t # "worker", NEW w,
         work' = [work EXCEPT ![t] = w], UNCHANGED <<queue, queued, died>>
  PROVE  NoLeakedMark' /\ QueueIsServed'
<1>1. work'["worker"] = work["worker"]
  BY WorkerIsTask DEF BookInv, TypeOK
<1>2. NoLeakedMark'
  BY <1>1 DEF BookInv, NoLeakedMark, InHand
<1>3. QueueIsServed'
  BY <1>1 DEF BookInv, QueueIsServed
<1> QED
  BY <1>2, <1>3

LEMMA RequestCompiles ==
  ASSUME BookInv, NEW c \in Clients, NEW p \in Pages, NEW i, Compiled(c, p, i),
         spine' \subseteq Chapters, chapters' \in 0 .. MaxChapters,
         pages' \in 0 .. MaxPages, UNCHANGED <<queue, cancelled>>
  PROVE  BookInv'
<1>1. c \in Tasks /\ c # "worker"
  BY WorkerIsTask
<1>2. TypeOK'
  BY <1>1, CompiledTypes DEF BookInv, TypeOK
<1>3. CopyIsOpen' /\ WorkerHasPage'
  BY <1>1, CompiledTasks
<1>4. PICK w : work' = [work EXCEPT ![c] = w] /\ queued' = queued /\ died' = died
  BY <1>1 DEF Compiled
<1>5. NoLeakedMark' /\ QueueIsServed'
  BY <1>1, <1>4, RequestKeepsQueue
<1>6. FinishedIsReady'
  BY DEF Compiled
<1> QED
  BY <1>2, <1>3, <1>5, <1>6 DEF BookInv

\* The worker compiles a page it had in hand, or has just taken from the queue.
LEMMA WorkerCompiles ==
  ASSUME BookInv, NEW p \in Pages, NEW i, Compiled("worker", p, i),
         queue' \in Seq(Pages), queued \subseteq Waiting' \cup {p},
         UNCHANGED <<spine, chapters, pages, cancelled>>
  PROVE  BookInv'
<1>1. TypeOK'
  BY WorkerIsTask, CompiledTypes DEF BookInv, TypeOK
<1>2. CopyIsOpen' /\ WorkerHasPage'
  BY WorkerIsTask, CompiledTasks
<1>3. PICK w \in Idle \cup Busy :
        /\ work' = [work EXCEPT !["worker"] = w]
        /\ w.at \in {"plan", "block"} => w.page = p
        /\ Handed(w, p)
  BY DEF Compiled
<1>4. work'["worker"] = w
  BY <1>3, WorkerIsTask DEF BookInv, TypeOK
<1>5. NoLeakedMark'
  BY <1>3, <1>4 DEF NoLeakedMark, InHand, Waiting, Handed
<1>6. QueueIsServed'
  BY <1>3, <1>4 DEF QueueIsServed, Handed
<1>7. FinishedIsReady'
  BY DEF Compiled
<1> QED
  BY <1>1, <1>2, <1>5, <1>6, <1>7 DEF BookInv

----------------------------------------------------------------------------
(* The steps of the worker and of requests that compile *)

LEMMA TaskFields ==
  ASSUME TypeOK, NEW t \in Tasks, work[t].at \in {"plan", "block", "regenerate", "insert"}
  PROVE  work[t].page \in Pages /\ work[t].copy \in Page /\ work[t].block \in Nat
<1>1. work[t] \in Idle \cup Busy
  BY DEF TypeOK
<1>2. work[t] \notin Idle
  BY DEF Idle
<1> QED
  BY <1>1, <1>2 DEF Busy

LEMMA PlannedEffect ==
  ASSUME BookInv, NEW t \in Tasks, Planned(t)
  PROVE  Compiled(t, work[t].page, 1)
<1>1. work[t].page \in Pages /\ work[t].copy \in Page /\ work[t].copy.status = "open"
  BY TaskFields DEF BookInv, CopyIsOpen, Planned
<1>2. PICK n \in 0 .. MaxBlocks :
        Generate(t, work[t].page,
                 [work[t].copy EXCEPT !.blocks = [i \in 1 .. n |-> "open"]], 1)
  BY DEF Planned
<1> DEFINE b == [i \in 1 .. n |-> "open"]
           page == [work[t].copy EXCEPT !.blocks = b]
<1>3. b \in Seq(BlockStates)
  BY BookAssumption DEF BlockStates
<1>4. page \in Page /\ page.status = "open"
  BY <1>1, <1>3 DEF Page
<1>5. Generate(t, work[t].page, page, 1) /\ 1 \in 0 .. 1
  BY <1>2
<1> HIDE DEF page
<1> QED
  BY <1>1, <1>4, <1>5, GenerateEffect DEF BookInv

LEMMA BlockGeneratedEffect ==
  ASSUME BookInv, NEW t \in Tasks, BlockGenerated(t)
  PROVE  Compiled(t, work[t].page, work[t].block + 1)
<1>1. /\ work[t].page \in Pages /\ work[t].copy \in Page /\ work[t].block \in Nat
      /\ work[t].copy.status = "open"
  BY TaskFields DEF BookInv, CopyIsOpen, BlockGenerated
<1>2. PICK status \in {"ready", "open"} :
        Generate(t, work[t].page, WithBlock(work[t].copy, work[t].block, status),
                 work[t].block + 1)
  BY DEF BlockGenerated
<1>3. /\ WithBlock(work[t].copy, work[t].block, status) \in Page
      /\ WithBlock(work[t].copy, work[t].block, status).status = "open"
  BY <1>1, BlockPage DEF BlockStates
<1>4. work[t].block + 1 \in Nat /\ work[t].block + 1 \in 0 .. work[t].block + 1
  BY <1>1
<1> QED
  BY <1>1, <1>2, <1>3, <1>4, GenerateEffect DEF BookInv

\* The marks are in the queue or in the worker's hands.
LEMMA HandOrQueue ==
  ASSUME BookInv, work["worker"].at \in {"plan", "block"}
  PROVE  queued \subseteq Waiting \cup {work["worker"].page}
  BY DEF BookInv, NoLeakedMark, InHand, Waiting

LEMMA NextPlanned ==
  ASSUME BookInv, NEW t \in Tasks, Planned(t)
  PROVE  BookInv'
<1>1. work[t].page \in Pages
  BY TaskFields DEF BookInv, Planned
<1>2. UNCHANGED <<spine, chapters, pages, queue, cancelled>>
  BY DEF Planned
<1>3. Compiled(t, work[t].page, 1)
  BY PlannedEffect
<1>4. CASE t \in Clients
  BY <1>1, <1>2, <1>3, <1>4, RequestCompiles DEF BookInv, TypeOK
<1>5. CASE t = "worker"
  <2>1. queued \subseteq Waiting' \cup {work["worker"].page}
    BY <1>2, <1>5, HandOrQueue DEF Planned, Waiting
  <2> QED
    BY <1>1, <1>2, <1>3, <1>5, <2>1, WorkerCompiles DEF BookInv, TypeOK
<1> QED
  BY <1>4, <1>5 DEF Tasks

LEMMA NextBlockGenerated ==
  ASSUME BookInv, NEW t \in Tasks, BlockGenerated(t)
  PROVE  BookInv'
<1>1. work[t].page \in Pages
  BY TaskFields DEF BookInv, BlockGenerated
<1>2. UNCHANGED <<spine, chapters, pages, queue, cancelled>>
  BY DEF BlockGenerated
<1>3. Compiled(t, work[t].page, work[t].block + 1)
  BY BlockGeneratedEffect
<1>4. CASE t \in Clients
  BY <1>1, <1>2, <1>3, <1>4, RequestCompiles DEF BookInv, TypeOK
<1>5. CASE t = "worker"
  <2>1. queued \subseteq Waiting' \cup {work["worker"].page}
    BY <1>2, <1>5, HandOrQueue DEF BlockGenerated, Waiting
  <2> QED
    BY <1>1, <1>2, <1>3, <1>5, <2>1, WorkerCompiles DEF BookInv, TypeOK
<1> QED
  BY <1>4, <1>5 DEF Tasks

LEMMA NextCompileFails ==
  ASSUME BookInv, NEW t \in Tasks, CompileFails(t)
  PROVE  BookInv'
<1>1. /\ work[t].page \in Pages /\ Release(t, work[t].page)
      /\ UNCHANGED <<spine, chapters, disk, pages, queue, cancelled, died>>
  BY TaskFields DEF BookInv, CompileFails
<1>2. PICK w \in Idle :
        /\ work' = [work EXCEPT ![t] = w]
        /\ w.at \in {"rest", "get"}
        /\ t # "worker" => queued' = queued
        /\ t = "worker" => w.at = "get" /\ queued' = queued \ {work[t].page}
  BY <1>1, ReleaseEffect DEF BookInv
<1>3. FinishedIsReady' /\ book' \in BookStatus /\ loose' \in BOOLEAN
  <2>1. CASE t = "worker"
    BY <1>1, <2>1, FinalizeFinishes DEF BookInv, CompileFails
  <2>2. CASE t # "worker"
    BY <1>1, <2>2 DEF BookInv, TypeOK, CompileFails, FinishedIsReady, BookStatus
  <2> QED
    BY <2>1, <2>2
<1>4. TypeOK'
  <2>1. work' \in [Tasks -> Idle \cup Busy]
    BY <1>2 DEF BookInv, TypeOK
  <2> QED
    BY <1>1, <1>2, <1>3, <2>1 DEF BookInv, TypeOK, BookStatus
<1>5. CopyIsOpen'
  BY <1>2 DEF BookInv, TypeOK, CopyIsOpen
<1>6. WorkerHasPage' /\ NoLeakedMark' /\ QueueIsServed'
  <2>1. CASE t = "worker"
    <3>1. work'["worker"] = w /\ w.at = "get" /\ queued' = queued \ {work[t].page}
      BY <1>2, <2>1 DEF BookInv, TypeOK
    <3>2. queued \subseteq Waiting \cup {work[t].page}
      BY <2>1, HandOrQueue DEF CompileFails
    <3> QED
      BY <1>1, <3>1, <3>2
      DEF WorkerHasPage, NoLeakedMark, QueueIsServed, InHand, Waiting
  <2>2. CASE t # "worker"
    <3>1. NoLeakedMark' /\ QueueIsServed'
      BY <1>1, <1>2, <2>2, RequestKeepsQueue
    <3>2. work'["worker"] = work["worker"]
      BY <1>2, <2>2, WorkerIsTask DEF BookInv, TypeOK
    <3>3. WorkerHasPage'
      BY <1>1, <3>2 DEF BookInv, WorkerHasPage, InHand
    <3> QED
      BY <3>1, <3>3
  <2> QED
    BY <2>1, <2>2
<1> QED
  BY <1>3, <1>4, <1>5, <1>6 DEF BookInv

LEMMA QueueHead ==
  ASSUME TypeOK, queue # <<>>, queue' = Tail(queue)
  PROVE  /\ Head(queue) \in Pages
         /\ queue' \in Seq(Pages)
         /\ Waiting = Waiting' \cup {Head(queue)}
<1>1. queue \in Seq(Pages) /\ Len(queue) \in Nat /\ Len(queue) > 0
  BY DEF TypeOK
<1>2. Head(queue) = queue[1] /\ Head(queue) \in Pages
  BY <1>1
<1>3. /\ queue' \in Seq(Pages) /\ Len(queue') = Len(queue) - 1
      /\ \A i \in 1 .. Len(queue) - 1 : queue'[i] = queue[i + 1]
  BY <1>1
<1>4. \A i \in DOMAIN queue : queue[i] \in Waiting' \cup {Head(queue)}
  <2> SUFFICES ASSUME NEW i \in DOMAIN queue, i # 1
               PROVE  queue[i] \in Waiting'
    BY <1>2
  <2>1. i - 1 \in DOMAIN queue' /\ queue'[i - 1] = queue[i]
    BY <1>1, <1>3
  <2> QED
    BY <2>1 DEF Waiting
<1>5. \A i \in DOMAIN queue' : queue'[i] \in Waiting
  <2> SUFFICES ASSUME NEW i \in DOMAIN queue' PROVE queue'[i] \in Waiting
    OBVIOUS
  <2>1. i + 1 \in DOMAIN queue /\ queue'[i] = queue[i + 1]
    BY <1>1, <1>3
  <2> QED
    BY <2>1 DEF Waiting
<1>6. Head(queue) \in Waiting
  BY <1>1, <1>2 DEF Waiting
<1> QED
  BY <1>2, <1>3, <1>4, <1>5, <1>6 DEF Waiting

LEMMA NextWorkerTakes ==
  ASSUME BookInv, WorkerTakes
  PROVE  BookInv'
<1> DEFINE p == Head(queue)
<1>1. /\ work["worker"].at = "get" /\ queue # <<>> /\ queue' = Tail(queue)
      /\ UNCHANGED <<spine, chapters, pages, cancelled>>
  BY DEF WorkerTakes
<1>2. /\ p \in Pages /\ queue' \in Seq(Pages)
      /\ Waiting = Waiting' \cup {p}
  BY <1>1, QueueHead DEF BookInv
<1>3. queued \subseteq Waiting' \cup {p}
  BY <1>1, <1>2 DEF BookInv, NoLeakedMark, InHand, Waiting
<1>4. CASE disk[p] # NoPage /\ StartCompile("worker", p, disk[p])
  <2>1. disk[p] \in Page
    BY <1>2, <1>4 DEF BookInv, TypeOK
  <2>2. Compiled("worker", p, 0)
    BY <1>2, <1>4, <2>1, WorkerIsTask, StartCompileEffect DEF BookInv
  <2> QED
    BY <1>1, <1>2, <1>3, <2>2, WorkerCompiles
<1>5. CASE queued' = Discarded(p) /\ UNCHANGED <<disk, book, work, loose, died>>
  <2>1. TypeOK'
    BY <1>1, <1>2, <1>5 DEF BookInv, TypeOK, Discarded
  <2>2. CopyIsOpen' /\ WorkerHasPage' /\ FinishedIsReady'
    BY <1>5 DEF BookInv, CopyIsOpen, WorkerHasPage, FinishedIsReady, InHand
  <2>3. NoLeakedMark'
    BY <1>1, <1>3, <1>5 DEF NoLeakedMark, Discarded, Waiting, InHand
  <2>4. QueueIsServed'
    BY <1>1, <1>5 DEF QueueIsServed
  <2> QED
    BY <2>1, <2>2, <2>3, <2>4 DEF BookInv
<1>6. QED
  BY <1>4, <1>5 DEF WorkerTakes, Compilable

LEMMA NextOpenPage ==
  ASSUME BookInv, NEW c \in Clients, NEW p \in Pages, NEW force \in BOOLEAN, NEW notes,
         OpenPage(c, p, force, notes)
  PROVE  BookInv'
<1> DEFINE page == IF force THEN Reset(disk[p], notes) ELSE disk[p]
<1>1. /\ disk[p] # NoPage /\ (disk[p].status # "ready" \/ force)
      /\ UNCHANGED <<spine, chapters, pages, queue, cancelled>>
  BY DEF OpenPage, Compilable
<1>2. disk[p] \in Page
  BY <1>1 DEF BookInv, TypeOK
<1>3. page \in Page /\ page.status = "open"
  BY <1>1, <1>2, ResetPage, PageFields
<1> HIDE DEF page
<1>4. CASE StartCompile(c, p, page)
  <2>1. Compiled(c, p, 0)
    BY <1>3, <1>4, WorkerIsTask, StartCompileEffect DEF BookInv
  <2> QED
    BY <1>1, <2>1, RequestCompiles DEF BookInv, TypeOK
<1>5. CASE /\ disk' = [disk EXCEPT ![p] = page]
           /\ UNCHANGED <<queued, book, work, loose, died>>
  <2>1. TypeOK'
    BY <1>1, <1>3, <1>5 DEF BookInv, TypeOK
  <2>2. Stored(disk') = Stored(disk) \cup {p}
    BY <1>3, <1>5, WrittenIsStored DEF BookInv
  <2>3. CopyIsOpen' /\ WorkerHasPage' /\ NoLeakedMark' /\ QueueIsServed'
    BY <1>1, <1>5, <2>2
    DEF BookInv, CopyIsOpen, WorkerHasPage, NoLeakedMark, QueueIsServed, InHand
  <2>4. FinishedIsReady'
    BY <1>3, <1>5, OpenPageIsUnfinished DEF BookInv, TypeOK
  <2> QED
    BY <2>1, <2>3, <2>4 DEF BookInv
<1>6. QED
  BY <1>4, <1>5 DEF OpenPage, page

LEMMA NextDeepDive ==
  ASSUME BookInv, NEW c \in Clients, NEW p \in Pages, DeepDive(c, p)
  PROVE  BookInv'
<1> DEFINE sub == [chapter |-> chapters + 1, status |-> "open", blocks |-> <<>>]
<1>1. /\ chapters < MaxChapters /\ pages < MaxPages
      /\ chapters' = chapters + 1 /\ pages' = pages + 1
      /\ spine' = spine \cup {chapters + 1}
      /\ StartCompile(c, pages + 1, sub)
      /\ UNCHANGED <<queue, cancelled>>
  BY DEF DeepDive
<1>2. /\ chapters' \in 0 .. MaxChapters /\ pages' \in 0 .. MaxPages
      /\ pages + 1 \in Pages /\ chapters + 1 \in Chapters
  BY <1>1, BookAssumption DEF BookInv, TypeOK, Pages, Chapters
<1>3. sub \in Page
  BY <1>2 DEF Page
<1>4. Compiled(c, pages + 1, 0)
  BY <1>1, <1>2, <1>3, WorkerIsTask, StartCompileEffect DEF BookInv
<1>5. spine' \subseteq Chapters
  BY <1>1, <1>2 DEF BookInv, TypeOK
<1> QED
  BY <1>1, <1>2, <1>4, <1>5, RequestCompiles

----------------------------------------------------------------------------
(* The other steps of the worker *)

LEMMA NextWorkerLeaves ==
  ASSUME BookInv, WorkerLeaves
  PROVE  BookInv'
<1>1. /\ work["worker"].at = "get" /\ queue = <<>>
      /\ work' = [work EXCEPT !["worker"] = Rest]
      /\ UNCHANGED <<book, spine, chapters, disk, pages, queue, queued, cancelled, died, loose>>
  BY DEF WorkerLeaves, MayLeave
<1>2. Rest \in Idle /\ Rest.at = "rest"
  BY DEF Rest, Idle
<1>3. work'["worker"] = Rest
  BY <1>1, WorkerIsTask DEF BookInv, TypeOK
<1>4. TypeOK' /\ CopyIsOpen' /\ FinishedIsReady'
  BY <1>1, <1>2 DEF BookInv, TypeOK, CopyIsOpen, FinishedIsReady
<1>5. WorkerHasPage' /\ NoLeakedMark' /\ QueueIsServed'
  BY <1>1, <1>2, <1>3 DEF BookInv, WorkerHasPage, NoLeakedMark, QueueIsServed, InHand
<1> QED
  BY <1>4, <1>5 DEF BookInv

LEMMA NextWorkerDies ==
  ASSUME BookInv, WorkerDies
  PROVE  BookInv'
<1>1. PICK p :
        /\ \/ work["worker"].at \in {"plan", "block"} /\ p = work["worker"].page /\ UNCHANGED queue
           \/ work["worker"].at = "get" /\ queue # <<>> /\ queue' = Tail(queue) /\ p = Head(queue)
        /\ Abort("worker", p)
        /\ loose' = TRUE
        /\ UNCHANGED <<book, spine, chapters, disk, pages, cancelled>>
  BY DEF WorkerDies, FinalizeFails
<1>2. /\ queued' = queued \ {p} /\ died' = TRUE
      /\ work' = [work EXCEPT !["worker"] = Rest]
  BY <1>1, BookAssumption DEF Abort, Discarded, BookInv, TypeOK
<1>3. work'["worker"] = Rest
  BY <1>2, WorkerIsTask DEF BookInv, TypeOK
<1>4. queue' \in Seq(Pages) /\ queued \subseteq Waiting' \cup {p}
  <2>1. CASE work["worker"].at \in {"plan", "block"} /\ p = work["worker"].page /\ UNCHANGED queue
    BY <2>1, HandOrQueue DEF BookInv, TypeOK, Waiting
  <2>2. CASE work["worker"].at = "get" /\ queue # <<>> /\ queue' = Tail(queue) /\ p = Head(queue)
    <3>1. queue' \in Seq(Pages) /\ Waiting = Waiting' \cup {p}
      BY <2>2, QueueHead DEF BookInv
    <3> QED
      BY <2>2, <3>1 DEF BookInv, NoLeakedMark, InHand, Waiting
  <2> QED
    BY <1>1, <2>1, <2>2
<1>5. TypeOK' /\ CopyIsOpen'
  BY <1>1, <1>2, <1>4, RestIsIdle DEF BookInv, TypeOK, CopyIsOpen
<1>6. NoLeakedMark'
  BY <1>2, <1>4 DEF NoLeakedMark, Waiting
<1>7. WorkerHasPage' /\ QueueIsServed' /\ FinishedIsReady'
  BY <1>1, <1>2, <1>3, RestIsIdle DEF WorkerHasPage, QueueIsServed, FinishedIsReady, InHand
<1> QED
  BY <1>5, <1>6, <1>7 DEF BookInv

LEMMA NextCancelDelivered ==
  ASSUME BookInv, NEW p \in Pages, CancelDelivered(p)
  PROVE  BookInv'
  BY DEF BookInv, CancelDelivered, Discarded, TypeOK, CopyIsOpen, WorkerHasPage,
         NoLeakedMark, QueueIsServed, FinishedIsReady, InHand

----------------------------------------------------------------------------
(* Requests that only change their own state and the files *)

\* What such a request must do for the invariant to hold.
LEMMA EditKeepsInv ==
  ASSUME BookInv, NEW c \in Clients, NEW w \in Idle \cup Busy,
         work' = [work EXCEPT ![c] = w], w.at \notin {"plan", "block"},
         disk' = disk \/ \E p \in Pages : \E q \in Page : disk' = [disk EXCEPT ![p] = q],
         UNCHANGED <<pages, queue, queued, cancelled, died>>,
         book' \in BookStatus, spine' \subseteq Chapters,
         chapters' \in 0 .. MaxChapters, loose' \in BOOLEAN,
         FinishedIsReady'
  PROVE  BookInv'
<1>1. c \in Tasks /\ c # "worker"
  BY WorkerIsTask
<1>2. NoLeakedMark' /\ QueueIsServed'
  BY <1>1, RequestKeepsQueue
<1>3. work'["worker"] = work["worker"]
  BY <1>1, WorkerIsTask DEF BookInv, TypeOK
<1>4. disk' \in [Pages -> Page \cup {NoPage}] /\ Stored(disk) \subseteq Stored(disk')
  <2>1. CASE disk' = disk
    BY <2>1 DEF BookInv, TypeOK
  <2>2. CASE \E p \in Pages : \E q \in Page : disk' = [disk EXCEPT ![p] = q]
    BY <2>2, WrittenIsStored DEF BookInv, TypeOK
  <2> QED
    BY <2>1, <2>2
<1>5. WorkerHasPage'
  BY <1>3, <1>4 DEF BookInv, WorkerHasPage, InHand
<1>6. CopyIsOpen'
  BY <1>1 DEF BookInv, TypeOK, CopyIsOpen
<1>7. work' \in [Tasks -> Idle \cup Busy]
  BY <1>1 DEF BookInv, TypeOK
<1>8. TypeOK'
  BY <1>4, <1>7 DEF BookInv, TypeOK, BookStatus
<1> QED
  BY <1>2, <1>5, <1>6, <1>8 DEF BookInv

LEMMA NextSpine ==
  ASSUME BookInv, NEW c \in Clients,
         ProposalConfirmed(c) \/ SpineSaved(c) \/ SpineFailed(c)
  PROVE  BookInv'
<1>1. CASE ProposalConfirmed(c)
  <2> DEFINE w == [at |-> "spine", page |-> 0, copy |-> NoPage, block |-> 0]
  <2>1. w \in Idle \cup Busy /\ w.at = "spine"
    BY DEF Idle
  <2>2. /\ work' = [work EXCEPT ![c] = w]
        /\ UNCHANGED <<book, spine, chapters, disk, pages, queue, queued, cancelled,
                       died, loose>>
    BY <1>1 DEF ProposalConfirmed, At
  <2>3. FinishedIsReady'
    BY <2>2 DEF BookInv, FinishedIsReady
  <2> HIDE DEF w
  <2> QED
    BY <2>1, <2>2, <2>3, EditKeepsInv DEF BookInv, TypeOK, BookStatus
<1>2. CASE SpineSaved(c)
  <2>1. PICK n \in 1 .. MaxChapters - chapters :
          spine' = chapters + 1 .. chapters + n /\ chapters' = chapters + n
    BY <1>2 DEF SpineSaved
  <2>2. /\ book' = "spine_ready" /\ loose' = TRUE
        /\ work' = [work EXCEPT ![c] = Rest]
        /\ UNCHANGED <<disk, pages, queue, queued, cancelled, died>>
    BY <1>2 DEF SpineSaved
  <2>3. chapters \in Nat /\ MaxChapters \in Nat
    BY BookAssumption DEF BookInv, TypeOK
  <2>4. chapters' \in 0 .. MaxChapters /\ spine' \subseteq Chapters
    BY <2>1, <2>3 DEF Chapters
  <2>5. FinishedIsReady'
    BY <2>2 DEF FinishedIsReady
  <2> QED
    BY <2>2, <2>4, <2>5, RestIsIdle, EditKeepsInv DEF BookStatus
<1>3. CASE SpineFailed(c)
  <2>1. /\ work' = [work EXCEPT ![c] = Rest]
        /\ UNCHANGED <<book, spine, chapters, disk, pages, queue, queued, cancelled,
                       died, loose>>
    BY <1>3 DEF SpineFailed
  <2>2. FinishedIsReady'
    BY <2>1 DEF BookInv, FinishedIsReady
  <2> QED
    BY <2>1, <2>2, RestIsIdle, EditKeepsInv DEF BookInv, TypeOK, BookStatus
<1> QED
  BY <1>1, <1>2, <1>3

LEMMA NextRegenerate ==
  ASSUME BookInv, NEW c \in Clients, NEW p \in Pages, NEW i \in 1 .. MaxBlocks,
         NEW changed \in BOOLEAN, Regenerate(c, p, i, changed)
  PROVE  BookInv'
<1> DEFINE page == IF changed THEN WithBlock(disk[p], i, "open") ELSE disk[p]
           w == [at |-> "regenerate", page |-> p, copy |-> page, block |-> i]
<1>1. /\ disk[p] # NoPage /\ work[c] = Rest
      /\ disk' = [disk EXCEPT ![p] = page]
      /\ (work' = work \/ work' = [work EXCEPT ![c] = w])
      /\ loose' = (changed \/ loose)
      /\ UNCHANGED <<book, spine, chapters, pages, queue, queued, cancelled, died>>
  BY DEF Regenerate, Editable, At, Free
<1>2. disk[p] \in Page
  BY <1>1 DEF BookInv, TypeOK
<1>3. page \in Page
  BY <1>2, BlockPage DEF BlockStates
<1>4. w \in Idle \cup Busy /\ w.at = "regenerate"
  BY <1>3, BookAssumption DEF Busy
<1>5. FinishedIsReady'
  <2>1. CASE changed
    BY <1>1, <2>1 DEF FinishedIsReady
  <2>2. CASE ~changed
    <3>1. page = disk[p]
      BY <2>2
    <3>2. disk' = disk
      BY <1>1, <3>1 DEF BookInv, TypeOK
    <3> QED
      BY <1>1, <2>2, <3>2 DEF BookInv, FinishedIsReady
  <2> QED
    BY <2>1, <2>2
<1> HIDE DEF page, w
<1>6. loose' \in BOOLEAN
  BY <1>1 DEF BookInv, TypeOK
<1>7. PICK v \in Idle \cup Busy : v.at \notin {"plan", "block"} /\ work' = [work EXCEPT ![c] = v]
  <2>1. CASE work' = work
    <3>1. work' = [work EXCEPT ![c] = Rest]
      BY <1>1, <2>1 DEF BookInv, TypeOK
    <3> QED
      BY <3>1, RestIsIdle
  <2>2. CASE work' = [work EXCEPT ![c] = w]
    BY <1>4, <2>2
  <2> QED
    BY <1>1, <2>1, <2>2
<1> QED
  BY <1>1, <1>3, <1>5, <1>6, <1>7, EditKeepsInv DEF BookInv, TypeOK, BookStatus

LEMMA NextInsert ==
  ASSUME BookInv, NEW c \in Clients, NEW p \in Pages, NEW status \in BlockStates,
         NEW now \in BOOLEAN, Insert(c, p, status, now)
  PROVE  BookInv'
<1> DEFINE page == [disk[p] EXCEPT !.blocks = Append(disk[p].blocks, status)]
           w == [at |-> "insert", page |-> p, copy |-> page, block |-> Len(page.blocks)]
<1>1. /\ disk[p] # NoPage /\ work[c] = Rest
      /\ disk' = [disk EXCEPT ![p] = page]
      /\ (work' = work \/ work' = [work EXCEPT ![c] = w])
      /\ loose' = TRUE
      /\ UNCHANGED <<book, spine, chapters, pages, queue, queued, cancelled, died>>
  BY DEF Insert, Editable, At, Free
<1>2. disk[p] \in Page
  BY <1>1 DEF BookInv, TypeOK
<1>3. Append(disk[p].blocks, status) \in Seq(BlockStates)
  BY <1>2, PageFields
<1>4. page \in Page
  BY <1>2, <1>3 DEF Page
<1>5. Len(page.blocks) \in Nat
  BY <1>4, PageFields
<1>6. w \in Idle \cup Busy /\ w.at = "insert"
  BY <1>4, <1>5 DEF Busy
<1>7. FinishedIsReady'
  BY <1>1 DEF FinishedIsReady
<1> HIDE DEF page, w
<1>8. PICK v \in Idle \cup Busy : v.at \notin {"plan", "block"} /\ work' = [work EXCEPT ![c] = v]
  <2>1. CASE work' = work
    <3>1. work' = [work EXCEPT ![c] = Rest]
      BY <1>1, <2>1 DEF BookInv, TypeOK
    <3> QED
      BY <3>1, RestIsIdle
  <2>2. CASE work' = [work EXCEPT ![c] = w]
    BY <1>6, <2>2
  <2> QED
    BY <1>1, <2>1, <2>2
<1> QED
  BY <1>1, <1>4, <1>7, <1>8, EditKeepsInv DEF BookInv, TypeOK, BookStatus

LEMMA NextRegeneratedInserted ==
  ASSUME BookInv, NEW c \in Clients, Regenerated(c) \/ Inserted(c)
  PROVE  BookInv'
<1>1. work[c].at \in {"regenerate", "insert"}
  BY DEF Regenerated, Inserted
<1>2. work[c].page \in Pages /\ work[c].copy \in Page
  BY <1>1, TaskFields, WorkerIsTask DEF BookInv
<1>3. PICK status \in BlockStates :
        disk' = [disk EXCEPT ![work[c].page] =
                   Judged(WithBlock(work[c].copy, work[c].block, status))]
  BY DEF Regenerated, Inserted, BlockStates
<1>4. Judged(WithBlock(work[c].copy, work[c].block, status)) \in Page
  BY <1>2, BlockPage, StatusPage
<1>5. /\ work' = [work EXCEPT ![c] = Rest]
      /\ UNCHANGED <<spine, chapters, pages, queue, queued, cancelled, died>>
  BY DEF Regenerated, Inserted
<1>6. FinishedIsReady' /\ book' \in BookStatus /\ loose' \in BOOLEAN
  <2>1. CASE Regenerated(c)
    <3>1. CASE Finalize(disk')
      BY <3>1, FinalizeFinishes DEF BookInv
    <3>2. CASE FinalizeFails
      BY <3>2 DEF FinalizeFails, FinishedIsReady, BookInv, TypeOK, BookStatus
    <3> QED
      BY <2>1, <3>1, <3>2 DEF Regenerated
  <2>2. CASE Inserted(c)
    BY <2>2 DEF BookInv, TypeOK, BookStatus, Inserted, FinishedIsReady
  <2> QED
    BY <2>1, <2>2
<1> QED
  BY <1>2, <1>3, <1>4, <1>5, <1>6, RestIsIdle, EditKeepsInv DEF BookInv, TypeOK

----------------------------------------------------------------------------
(* Requests without a suspension, and crashes *)

LEMMA NextOpenOverview ==
  ASSUME BookInv, OpenOverview
  PROVE  BookInv'
<1>1. /\ Finalize(disk)
      /\ UNCHANGED <<spine, chapters, disk, pages, queue, queued, cancelled, work, died>>
  BY DEF OpenOverview
<1>2. FinishedIsReady' /\ book' \in BookStatus /\ loose' \in BOOLEAN
  BY <1>1, FinalizeFinishes DEF BookInv
<1>3. TypeOK'
  BY <1>1, <1>2 DEF BookInv, TypeOK, BookStatus
<1> QED
  BY <1>1, <1>2, <1>3
  DEF BookInv, CopyIsOpen, WorkerHasPage, NoLeakedMark, QueueIsServed, InHand

LEMMA NextDeleteBlock ==
  ASSUME BookInv, NEW p \in Pages, NEW i, DeleteBlock(p, i)
  PROVE  BookInv'
<1> DEFINE b == disk[p].blocks
           rest == SubSeq(b, 1, i - 1) \o SubSeq(b, i + 1, Len(b))
           q == Judged([disk[p] EXCEPT !.blocks = rest])
<1>1. /\ i \in DOMAIN b
      /\ disk' = [disk EXCEPT ![p] = q]
      /\ loose' = TRUE
      /\ UNCHANGED <<book, spine, chapters, pages, queue, queued, cancelled, work, died>>
  BY DEF DeleteBlock, WithoutBlock
<1>2. disk[p] \in Page
  BY <1>1 DEF BookInv, TypeOK, NoPage
<1>3. b \in Seq(BlockStates) /\ Len(b) \in Nat /\ i \in 1 .. Len(b)
  BY <1>1, <1>2, PageFields
<1>4. SubSeq(b, 1, i - 1) \in Seq(BlockStates) /\ SubSeq(b, i + 1, Len(b)) \in Seq(BlockStates)
  BY <1>3
<1>5. rest \in Seq(BlockStates)
  BY <1>4
<1> HIDE DEF rest
<1>6. [disk[p] EXCEPT !.blocks = rest] \in Page
  BY <1>2, <1>5 DEF Page
<1>7. q \in Page
  BY <1>6, StatusPage
<1> HIDE DEF q
<1>8. TypeOK'
  BY <1>1, <1>7 DEF BookInv, TypeOK
<1>9. Stored(disk') = Stored(disk) \cup {p}
  BY <1>1, <1>7, WrittenIsStored DEF BookInv
<1> QED
  BY <1>1, <1>8, <1>9
  DEF BookInv, CopyIsOpen, WorkerHasPage, NoLeakedMark, QueueIsServed, FinishedIsReady, InHand

LEMMA NextCrash ==
  ASSUME BookInv, Crash
  PROVE  BookInv'
<1>1. /\ queue' = <<>> /\ queued' = {} /\ cancelled' = {} /\ died' = FALSE /\ loose' = TRUE
      /\ work' = [t \in Tasks |-> Rest]
      /\ UNCHANGED <<book, spine, chapters, disk, pages>>
  BY DEF Crash, store
<1>2. \A t \in Tasks : work'[t] = Rest
  BY <1>1
<1>3. TypeOK' /\ CopyIsOpen'
  <2>1. queue' \in Seq(Pages) /\ queued' \subseteq Pages /\ cancelled' \subseteq Pages
    BY <1>1
  <2>2. work' \in [Tasks -> Idle \cup Busy]
    BY <1>1, RestIsIdle
  <2>3. TypeOK'
    BY <1>1, <2>1, <2>2 DEF BookInv, TypeOK
  <2> QED
    BY <1>2, <2>3, RestIsIdle DEF CopyIsOpen
<1>4. WorkerHasPage' /\ NoLeakedMark' /\ QueueIsServed' /\ FinishedIsReady'
  BY <1>1, <1>2, RestIsIdle, WorkerIsTask
  DEF WorkerHasPage, NoLeakedMark, QueueIsServed, FinishedIsReady, InHand
<1> QED
  BY <1>3, <1>4 DEF BookInv

LEMMA NextDeleteBook ==
  ASSUME BookInv, DeleteBook
  PROVE  BookInv'
<1>1. /\ book' = "none" /\ spine' = {} /\ disk' = [p \in Pages |-> NoPage]
      /\ queue' = <<>> /\ queued' = {} /\ cancelled' = {} /\ died' = FALSE
      /\ work' = [work EXCEPT !["worker"] = Rest]
      /\ UNCHANGED <<chapters, pages, loose>>
  BY DEF DeleteBook, CancelledWorker
<1>2. work'["worker"] = Rest
  BY <1>1, WorkerIsTask DEF BookInv, TypeOK
<1>3. TypeOK' /\ CopyIsOpen'
  <2>1. queue' \in Seq(Pages) /\ queued' \subseteq Pages /\ cancelled' \subseteq Pages
    BY <1>1
  <2>2. work' \in [Tasks -> Idle \cup Busy]
    BY <1>1, RestIsIdle DEF BookInv, TypeOK
  <2>3. disk' \in [Pages -> Page \cup {NoPage}]
    BY <1>1
  <2>4. TypeOK'
    BY <1>1, <2>1, <2>2, <2>3 DEF BookInv, TypeOK
  <2>5. CopyIsOpen'
    BY <1>1, RestIsIdle DEF BookInv, TypeOK, CopyIsOpen
  <2> QED
    BY <2>4, <2>5
<1>4. WorkerHasPage' /\ NoLeakedMark' /\ QueueIsServed' /\ FinishedIsReady'
  BY <1>1, <1>2, RestIsIdle
  DEF WorkerHasPage, NoLeakedMark, QueueIsServed, FinishedIsReady, InHand
<1> QED
  BY <1>3, <1>4 DEF BookInv

----------------------------------------------------------------------------
(* Confirming the spine *)

LEMMA ListingSeq ==
  ASSUME NEW S, IsFiniteSet(S), NEW f \in Listings(S)
  PROVE  f \in Seq(S) /\ {f[i] : i \in DOMAIN f} = S
<1>1. Cardinality(S) \in Nat
  BY FS_CardinalityType
<1>2. f \in [1 .. Cardinality(S) -> S] /\ S = {f[i] : i \in 1 .. Cardinality(S)}
  BY DEF Listings
<1> QED
  BY <1>1, <1>2

Members(s) == {s[i] : i \in DOMAIN s}

LEMMA JoinedMembers ==
  ASSUME NEW S, NEW a \in Seq(S), NEW b \in Seq(S)
  PROVE  /\ a \o b \in Seq(S)
         /\ Members(a \o b) = Members(a) \cup Members(b)
<1>1. Len(a) \in Nat /\ Len(b) \in Nat /\ DOMAIN a = 1 .. Len(a) /\ DOMAIN b = 1 .. Len(b)
  OBVIOUS
<1>2. /\ a \o b \in Seq(S) /\ DOMAIN (a \o b) = 1 .. Len(a) + Len(b)
      /\ \A i \in 1 .. Len(a) + Len(b) :
           (a \o b)[i] = IF i =< Len(a) THEN a[i] ELSE b[i - Len(a)]
  OBVIOUS
<1>3. ASSUME NEW i \in DOMAIN (a \o b)
      PROVE  (a \o b)[i] \in {a[j] : j \in DOMAIN a} \cup {b[j] : j \in DOMAIN b}
  <2>1. CASE i =< Len(a)
    BY <1>1, <1>2, <2>1
  <2>2. CASE i > Len(a)
    <3>1. i - Len(a) \in DOMAIN b /\ (a \o b)[i] = b[i - Len(a)]
      BY <1>1, <1>2, <2>2
    <3> QED
      BY <3>1
  <2> QED
    BY <1>1, <1>2, <2>1, <2>2
<1>4. ASSUME NEW j \in DOMAIN a
      PROVE  a[j] \in {(a \o b)[i] : i \in DOMAIN (a \o b)}
  <2>1. j \in DOMAIN (a \o b) /\ (a \o b)[j] = a[j]
    BY <1>1, <1>2
  <2> QED
    BY <2>1
<1>5. ASSUME NEW j \in DOMAIN b
      PROVE  b[j] \in {(a \o b)[i] : i \in DOMAIN (a \o b)}
  <2>1. Len(a) + j \in DOMAIN (a \o b) /\ (a \o b)[Len(a) + j] = b[j]
    BY <1>1, <1>2
  <2> QED
    BY <2>1
<1> QED
  BY <1>2, <1>3, <1>4, <1>5 DEF Members

LEMMA PagesFinite ==
  /\ \A S \in SUBSET Pages : IsFiniteSet(S)
  /\ \A S \in SUBSET Chapters : IsFiniteSet(S)
<1>1. IsFiniteSet(Pages) /\ IsFiniteSet(Chapters)
  BY FS_Interval, BookAssumption DEF Pages, Chapters
<1> QED
  BY <1>1, FS_Subset

\* What the queue, the marks and the worker are after new pages were enqueued.
Enqueued(line, waiting, worker) ==
    /\ queue' \in Seq(Pages)
    /\ {line[i] : i \in DOMAIN line} \subseteq Waiting'
    /\ queued' \subseteq Pages
    /\ queued' \subseteq waiting \cup Waiting'
    /\ died' \in BOOLEAN
    /\ \E w \in Idle \cup Busy :
         /\ work' = [work EXCEPT !["worker"] = w]
         /\ w = worker \/ (worker.at = "rest" /\ w.at = "get")
         /\ w.at # "rest" \/ (queue' = line /\ died' = died)

LEMMA EnqueueEffect ==
  ASSUME TypeOK, NEW shown, NEW files, NEW line \in Seq(Pages),
         NEW waiting \in SUBSET Pages, NEW worker \in Idle \cup Busy,
         Enqueue(shown, files, line, waiting, worker)
  PROVE  Enqueued(line, waiting, worker)
<1> DEFINE added == ToEnqueue(shown, files, waiting)
           w == IF worker.at = "rest" THEN [Rest EXCEPT !.at = "get"] ELSE worker
<1>1. added \subseteq Pages /\ IsFiniteSet(added)
  <2>1. added \subseteq Pages
    BY DEF ToEnqueue, Stored
  <2> QED
    BY <2>1, PagesFinite
<1>2. PICK f \in Listings(added) : queue' = line \o f
  BY DEF Enqueue
<1>3. /\ queued' = waiting \cup added
      /\ work' = [work EXCEPT !["worker"] = w]
      /\ died' = FALSE
  BY DEF Enqueue
<1> HIDE DEF added
<1>4. f \in Seq(added) /\ {f[i] : i \in DOMAIN f} = added
  BY <1>1, ListingSeq
<1>5. f \in Seq(Pages)
  BY <1>1, <1>4
<1>6. /\ queue' \in Seq(Pages)
      /\ Waiting' = {line[i] : i \in DOMAIN line} \cup added
  <2>1. /\ line \o f \in Seq(Pages)
        /\ Members(line \o f) = Members(line) \cup Members(f)
    BY <1>5, JoinedMembers
  <2>2. Waiting' = Members(line \o f)
    BY <1>2 DEF Waiting, Members
  <2>3. queue' \in Seq(Pages)
    BY <1>2, <2>1
  <2> QED
    BY <1>4, <2>1, <2>2, <2>3 DEF Members
<1>7. w \in Idle \cup Busy /\ w.at # "rest" /\ (w = worker \/ (worker.at = "rest" /\ w.at = "get"))
  BY DEF Rest, Idle
<1> HIDE DEF w
<1> QED
  BY <1>1, <1>3, <1>6, <1>7 DEF Enqueued

LEMMA ConfirmEffect ==
  ASSUME TypeOK, NEW S \in SUBSET Chapters, NEW auto \in BOOLEAN,
         NEW files \in [Pages -> Page \cup {NoPage}], NEW line \in Seq(Pages),
         NEW waiting \in SUBSET Pages, NEW worker \in Idle \cup Busy,
         Confirm(S, auto, files, line, waiting, worker)
  PROVE  /\ Enqueued(line, waiting, worker)
         /\ disk' \in [Pages -> Page \cup {NoPage}]
         /\ \A p \in Pages : disk'[p] = files[p] \/ (p > pages /\ disk'[p] \in Page)
         /\ pages' \in 0 .. MaxPages
         /\ book' \in BookStatus /\ loose' = TRUE
         /\ spine' = S
<1> DEFINE missing == {ch \in S : \A p \in Stored(files) : files[p].chapter # ch}
           n == Cardinality(missing)
           ids == pages + 1 .. pages + n
<1>1. missing \subseteq Chapters /\ n \in Nat
  BY PagesFinite, FS_CardinalityType
<1>2. /\ pages + n =< MaxPages /\ pages' = pages + n
      /\ spine' = S /\ loose' = TRUE
      /\ book' \in BookStatus
  BY DEF Confirm, BookStatus
<1>3. PICK f \in Listings(missing) :
        /\ disk' = [p \in Pages |->
                      IF p \in ids
                      THEN [chapter |-> f[p - pages], status |-> "open", blocks |-> <<>>]
                      ELSE files[p]]
        /\ IF auto
           THEN Enqueue({Max({p \in Stored(disk') : disk'[p].chapter = ch}) : ch \in S},
                        disk', line, waiting, worker)
           ELSE /\ queue' = line
                /\ queued' = waiting
                /\ work' = [work EXCEPT !["worker"] = worker]
                /\ UNCHANGED died
  BY DEF Confirm
<1>4. pages \in Nat /\ MaxPages \in Nat
  BY BookAssumption DEF TypeOK
<1>5. f \in [1 .. n -> missing]
  BY DEF Listings
<1> HIDE DEF missing, n
<1>6. \A p \in Pages : p \in ids => p > pages /\ f[p - pages] \in Chapters
  BY <1>1, <1>4, <1>5 DEF Pages
<1>7. \A p \in Pages : disk'[p] = files[p] \/ (p > pages /\ disk'[p] \in Page)
  <2> SUFFICES ASSUME NEW p \in Pages, p \in ids
               PROVE  p > pages /\ disk'[p] \in Page
    BY <1>3
  <2>1. disk'[p] = [chapter |-> f[p - pages], status |-> "open", blocks |-> <<>>]
    BY <1>3
  <2>2. <<>> \in Seq(BlockStates)
    OBVIOUS
  <2> QED
    BY <1>6, <2>1, <2>2 DEF Page
<1>8. disk' \in [Pages -> Page \cup {NoPage}]
  BY <1>3, <1>7
<1>9. pages' \in 0 .. MaxPages
  BY <1>1, <1>2, <1>4
<1>10. Enqueued(line, waiting, worker)
  <2>1. CASE auto
    BY <1>3, <2>1, EnqueueEffect
  <2>2. CASE ~auto
    <3>1. /\ queue' = line /\ queued' = waiting /\ died' = died
          /\ work' = [work EXCEPT !["worker"] = worker]
      BY <1>3, <2>2
    <3> QED
      BY <3>1 DEF Enqueued, Waiting, TypeOK
  <2> QED
    BY <2>1, <2>2
<1> QED
  BY <1>2, <1>7, <1>8, <1>9, <1>10

\* The chapters of an edited spine are old ones and the next ones.
LEMMA EditedSpine ==
  ASSUME BookInv, NEW S, NEW auto \in BOOLEAN, ConfirmSpine(S, auto)
  PROVE  S \in SUBSET Chapters /\ chapters' \in 0 .. MaxChapters
<1>1. PICK n \in 0 .. MaxChapters - chapters :
         chapters' = chapters + n /\ S \subseteq 1 .. chapters + n
  BY DEF ConfirmSpine
<1>2. chapters \in 0 .. MaxChapters /\ MaxChapters \in Nat
  BY BookAssumption DEF BookInv, TypeOK
<1>3. chapters + n \in 0 .. MaxChapters /\ 1 .. chapters + n \subseteq Chapters
  BY <1>2 DEF Chapters
<1> QED
  BY <1>1, <1>3

LEMMA NextConfirmSpine ==
  ASSUME BookInv, NEW S, NEW auto \in BOOLEAN, ConfirmSpine(S, auto)
  PROVE  BookInv'
<1>1. /\ Confirm(S, auto, disk, queue, queued, work["worker"])
      /\ cancelled' = cancelled
  BY DEF ConfirmSpine
<1>2. S \in SUBSET Chapters /\ chapters' \in 0 .. MaxChapters
  BY EditedSpine
<1>3. work["worker"] \in Idle \cup Busy
  BY WorkerIsTask DEF BookInv, TypeOK
<1>4. /\ Enqueued(queue, queued, work["worker"])
      /\ disk' \in [Pages -> Page \cup {NoPage}]
      /\ \A p \in Pages : disk'[p] = disk[p] \/ (p > pages /\ disk'[p] \in Page)
      /\ pages' \in 0 .. MaxPages
      /\ book' \in BookStatus /\ loose' = TRUE
      /\ spine' = S
  BY <1>1, <1>2, <1>3, ConfirmEffect DEF BookInv, TypeOK
<1>5. PICK w \in Idle \cup Busy :
        /\ work' = [work EXCEPT !["worker"] = w]
        /\ w = work["worker"] \/ (work["worker"].at = "rest" /\ w.at = "get")
        /\ w.at # "rest" \/ (queue' = queue /\ died' = died)
  BY <1>4 DEF Enqueued
<1>6. work'["worker"] = w
  BY <1>5, WorkerIsTask DEF BookInv, TypeOK
<1>7. TypeOK'
  <2>1. work' \in [Tasks -> Idle \cup Busy]
    BY <1>5 DEF BookInv, TypeOK
  <2> QED
    BY <1>1, <1>2, <1>4, <2>1 DEF BookInv, TypeOK, Enqueued, BookStatus
<1>8. CopyIsOpen'
  BY <1>5 DEF BookInv, TypeOK, CopyIsOpen
<1>9. InHand' = InHand
  BY <1>5, <1>6 DEF InHand
<1>10. Stored(disk) \subseteq Stored(disk')
  BY <1>4, PageFields DEF Stored
<1>11. NoLeakedMark'
  <2>1. queued \subseteq Waiting \cup InHand
    BY DEF BookInv, NoLeakedMark, Waiting
  <2>2. Waiting \subseteq Waiting' /\ queued' \subseteq queued \cup Waiting'
    BY <1>4 DEF Enqueued, Waiting
  <2> QED
    BY <1>9, <2>1, <2>2 DEF NoLeakedMark, Waiting
<1>12. QueueIsServed'
  BY <1>5, <1>6 DEF BookInv, QueueIsServed
<1> QED
  BY <1>4, <1>7, <1>8, <1>9, <1>10, <1>11, <1>12 DEF BookInv, WorkerHasPage, FinishedIsReady

LEMMA NextRebuild ==
  ASSUME BookInv, NEW auto \in BOOLEAN, Rebuild(auto)
  PROVE  BookInv'
<1> DEFINE files == [p \in Pages |-> NoPage]
<1>1. /\ cancelled' = cancelled \cup Interrupted
      /\ Confirm(spine, auto, files, <<>>, {}, Rest)
      /\ chapters' = chapters
  BY DEF Rebuild, CancelledWorker
<1>2. files \in [Pages -> Page \cup {NoPage}] /\ <<>> \in Seq(Pages)
  OBVIOUS
<1>3. /\ Enqueued(<<>>, {}, Rest)
      /\ disk' \in [Pages -> Page \cup {NoPage}]
      /\ pages' \in 0 .. MaxPages
      /\ book' \in BookStatus /\ loose' = TRUE
      /\ spine' = spine
  BY <1>1, <1>2, RestIsIdle, ConfirmEffect DEF BookInv, TypeOK
<1>4. PICK w \in Idle \cup Busy :
        /\ work' = [work EXCEPT !["worker"] = w]
        /\ w = Rest \/ w.at = "get"
        /\ w.at # "rest" \/ queue' = <<>>
  BY <1>3 DEF Enqueued
<1>5. work'["worker"] = w /\ w.at \in {"rest", "get"}
  BY <1>4, RestIsIdle, WorkerIsTask DEF BookInv, TypeOK
<1>6. TypeOK'
  <2>1. work' \in [Tasks -> Idle \cup Busy]
    BY <1>4 DEF BookInv, TypeOK
  <2>2. cancelled' \subseteq Pages
    BY <1>1, TaskFields, WorkerIsTask DEF BookInv, TypeOK, Interrupted
  <2> QED
    BY <1>1, <1>3, <2>1, <2>2 DEF BookInv, TypeOK, Enqueued, BookStatus
<1>7. CopyIsOpen'
  BY <1>4, <1>5 DEF BookInv, TypeOK, CopyIsOpen
<1>8. WorkerHasPage' /\ QueueIsServed' /\ FinishedIsReady'
  BY <1>3, <1>4, <1>5 DEF WorkerHasPage, QueueIsServed, FinishedIsReady, InHand
<1>9. NoLeakedMark'
  BY <1>3 DEF NoLeakedMark, Enqueued, Waiting
<1> QED
  BY <1>6, <1>7, <1>8, <1>9 DEF BookInv

----------------------------------------------------------------------------
(* The invariant *)

LEMMA InitBook == Init => BookInv
<1> SUFFICES ASSUME Init PROVE BookInv
  OBVIOUS
<1>1. \A t \in Tasks : work[t] = Rest
  BY DEF Init
<1>2. disk \in [Pages -> Page \cup {NoPage}] /\ queue \in Seq(Pages)
  BY DEF Init
<1>3. work \in [Tasks -> Idle \cup Busy]
  BY RestIsIdle DEF Init
<1>4. TypeOK
  <2>1. /\ book = "draft" /\ spine = {} /\ chapters = 0 /\ pages = 0
        /\ queued = {} /\ cancelled = {} /\ died = FALSE /\ loose = FALSE
    BY DEF Init
  <2>2. 0 \in 0 .. MaxChapters /\ 0 \in 0 .. MaxPages
    BY BookAssumption
  <2> QED
    BY <1>2, <1>3, <2>1, <2>2 DEF TypeOK
<1>5. Stored(disk) = {}
  BY DEF Init, Stored, NoPage
<1> QED
  BY <1>1, <1>4, <1>5, RestIsIdle, WorkerIsTask
  DEF Init, BookInv, CopyIsOpen, WorkerHasPage, NoLeakedMark, QueueIsServed,
      FinishedIsReady, InHand

LEMMA NextBook == BookInv /\ [Next]_vars => BookInv'
<1> SUFFICES ASSUME BookInv, [Next]_vars PROVE BookInv'
  OBVIOUS
<1>1. CASE WorkerStep
  BY <1>1, WorkerIsTask, NextWorkerTakes, NextPlanned, NextBlockGenerated DEF WorkerStep
<1>2. CASE WorkerLeaves
  BY <1>2, NextWorkerLeaves
<1>3. CASE CompileFails("worker")
  BY <1>3, WorkerIsTask, NextCompileFails
<1>4. CASE WorkerDies
  BY <1>4, NextWorkerDies
<1>5. CASE \E p \in Pages : CancelDelivered(p)
  BY <1>5, NextCancelDelivered
<1>6. CASE \E c \in Clients : Request(c)
  <2>1. PICK c \in Clients : Request(c)
    BY <1>6
  <2>2. c \in Tasks
    BY WorkerIsTask
  <2>3. CASE ProposalConfirmed(c) \/ SpineSaved(c) \/ SpineFailed(c)
    BY <2>3, NextSpine
  <2>4. CASE Planned(c) \/ BlockGenerated(c) \/ CompileFails(c)
    BY <2>2, <2>4, NextPlanned, NextBlockGenerated, NextCompileFails
  <2>5. CASE Regenerated(c) \/ Inserted(c)
    BY <2>5, NextRegeneratedInserted
  <2>6. CASE \E p \in Pages :
               \E force \in BOOLEAN, notes \in SUBSET (1 .. MaxBlocks) :
                 OpenPage(c, p, force, notes)
    BY <2>6, NextOpenPage
  <2>7. CASE \E p \in Pages : DeepDive(c, p)
    BY <2>7, NextDeepDive
  <2>8. CASE \E p \in Pages : \E i \in 1 .. MaxBlocks, changed \in BOOLEAN :
               Regenerate(c, p, i, changed)
    BY <2>8, NextRegenerate
  <2>9. CASE \E p \in Pages : \E status \in {"open", "ready"}, now \in BOOLEAN :
               Insert(c, p, status, now)
    BY <2>9, NextInsert DEF BlockStates
  <2> QED
    BY <2>1, <2>3, <2>4, <2>5, <2>6, <2>7, <2>8, <2>9 DEF Request
<1>7. CASE \E S \in SUBSET Chapters, auto \in BOOLEAN : ConfirmSpine(S, auto)
  BY <1>7, NextConfirmSpine
<1>8. CASE \E auto \in BOOLEAN : Rebuild(auto)
  BY <1>8, NextRebuild
<1>9. CASE DeleteBook
  BY <1>9, NextDeleteBook
<1>10. CASE OpenOverview
  BY <1>10, NextOpenOverview
<1>11. CASE \E p \in Pages, i \in 1 .. MaxBlocks : DeleteBlock(p, i)
  BY <1>11, NextDeleteBlock
<1>12. CASE Crash
  BY <1>12, NextCrash
<1>13. CASE UNCHANGED vars
  BY <1>13
  DEF vars, BookInv, TypeOK, CopyIsOpen, WorkerHasPage, NoLeakedMark, QueueIsServed,
      FinishedIsReady, InHand
<1> QED
  BY <1>1, <1>2, <1>3, <1>4, <1>5, <1>6, <1>7, <1>8, <1>9, <1>10, <1>11, <1>12, <1>13
  DEF Next

\* Through every interleaving of requests, the worker, cancellations and crashes
\* the types hold: a task has a copy of a page that existed, and the files are pages.
THEOREM BookTypes == Spec => []TypeOK
<1>1. BookInv => TypeOK
  BY DEF BookInv
<1> QED
  BY <1>1, InitBook, NextBook, PTL DEF Spec

\* No mark is left behind: what is marked as queued is in the queue or in the
\* worker's hands, for any number of pages and requests.
THEOREM BookNoLeakedMark == Spec => []NoLeakedMark
<1>1. BookInv => NoLeakedMark
  BY DEF BookInv
<1> QED
  BY <1>1, InitBook, NextBook, PTL DEF Spec

\* A queue that is not empty has a worker, unless a failing disk ended it.
THEOREM BookQueueIsServed == Spec => []QueueIsServed
<1>1. BookInv => QueueIsServed
  BY DEF BookInv
<1> QED
  BY <1>1, InitBook, NextBook, PTL DEF Spec

\* A book all of whose pages are ready is ready, whoever finished last.
THEOREM BookFinishedIsReady == Spec => []FinishedIsReady
<1>1. BookInv => FinishedIsReady
  BY DEF BookInv
<1> QED
  BY <1>1, InitBook, NextBook, PTL DEF Spec

----------------------------------------------------------------------------
(* Pages that come back *)

Revived(p) == disk[p] = NoPage /\ disk'[p] # NoPage
ByRequest(p) == \E c \in Clients : work[c].page = p /\ work'[c] # work[c]

LEMMA WritesOnePage ==
  ASSUME BookInv, NEW t \in Tasks, NEW q \in Pages, NEW i, Compiled(t, q, i),
         NEW p \in Pages, Revived(p)
  PROVE  p = q
  BY DEF Compiled, Revived, BookInv, TypeOK

LEMMA TasksRevive ==
  ASSUME BookInv, NEW t \in Tasks, Planned(t) \/ BlockGenerated(t),
         NEW p \in Pages, Revived(p)
  PROVE  ByRequest(p)
<1> DEFINE i == IF Planned(t) THEN 1 ELSE work[t].block + 1
<1>1. /\ work[t].at \in {"plan", "block"}
      /\ Planned(t) => work[t].at = "plan"
      /\ ~Planned(t) => work[t].at = "block"
  BY DEF Planned, BlockGenerated
<1>2. work[t].page \in Pages /\ work[t].block \in Nat
  BY <1>1, TaskFields DEF BookInv
<1>3. Compiled(t, work[t].page, i)
  BY PlannedEffect, BlockGeneratedEffect
<1>4. p = work[t].page
  BY <1>2, <1>3, WritesOnePage
<1>5. t # "worker"
  <2>1. t = "worker" => work[t].page \in Stored(disk)
    BY <1>1 DEF BookInv, WorkerHasPage, InHand
  <2> QED
    BY <1>4, <2>1 DEF Stored, Revived, NoPage
<1>6. t \in Clients
  BY <1>5 DEF Tasks
<1>7. PICK w \in Idle \cup Busy :
        /\ work' = [work EXCEPT ![t] = w]
        /\ \/ w.at \in {"rest", "get"}
           \/ w.at = "block" /\ w.block >= i
           \/ w.at = "plan" /\ i = 0
  BY <1>3 DEF Compiled
<1>8. w # work[t]
  <2>1. CASE Planned(t)
    BY <1>1, <1>7, <2>1
  <2>2. CASE ~Planned(t)
    BY <1>1, <1>2, <1>7, <2>2
  <2> QED
    BY <2>1, <2>2
<1>9. work'[t] # work[t]
  BY <1>7, <1>8 DEF BookInv, TypeOK
<1> QED
  BY <1>4, <1>6, <1>9 DEF ByRequest

LEMMA RequestRevives ==
  ASSUME BookInv, NEW c \in Clients, Request(c), NEW p \in Pages, p =< pages, Revived(p)
  PROVE  ByRequest(p)
<1>1. c \in Tasks
  BY WorkerIsTask
<1>2. CASE Planned(c) \/ BlockGenerated(c)
  BY <1>1, <1>2, TasksRevive
<1>3. CASE Regenerated(c) \/ Inserted(c)
  <2>1. /\ work[c].at \in {"regenerate", "insert"} /\ work' = [work EXCEPT ![c] = Rest]
        /\ \E q : disk' = [disk EXCEPT ![work[c].page] = q]
    BY <1>3 DEF Regenerated, Inserted
  <2>2. p = work[c].page
    BY <2>1 DEF BookInv, TypeOK, Revived
  <2>3. work'[c] # work[c]
    BY <1>1, <2>1, RestIsIdle DEF BookInv, TypeOK
  <2> QED
    BY <2>2, <2>3 DEF ByRequest
<1>4. CASE ProposalConfirmed(c) \/ SpineSaved(c) \/ SpineFailed(c) \/ CompileFails(c)
  BY <1>4 DEF ProposalConfirmed, SpineSaved, SpineFailed, CompileFails, Revived
<1>5. ASSUME NEW q \in Pages, NEW force \in BOOLEAN, NEW notes, OpenPage(c, q, force, notes)
      PROVE  FALSE
  <2>1. disk[q] # NoPage
    BY <1>5 DEF OpenPage, Compilable
  <2>2. disk[q] \in Page
    BY <2>1 DEF BookInv, TypeOK
  <2>3. PICK page \in Page :
          StartCompile(c, q, page) \/ disk' = [disk EXCEPT ![q] = page]
    BY <1>5, <2>2, ResetPage DEF OpenPage
  <2>4. Compiled(c, q, 0) \/ disk' = [disk EXCEPT ![q] = page]
    BY <1>1, <2>3, StartCompileEffect DEF BookInv
  <2>5. p = q
    BY <1>1, <2>4, WritesOnePage DEF Revived, BookInv, TypeOK
  <2> QED
    BY <2>1, <2>5 DEF Revived
<1>6. ASSUME NEW q \in Pages, DeepDive(c, q)
      PROVE  FALSE
  <2> DEFINE sub == [chapter |-> chapters + 1, status |-> "open", blocks |-> <<>>]
  <2>1. /\ pages + 1 \in Pages /\ chapters + 1 \in Chapters
        /\ StartCompile(c, pages + 1, sub)
    BY <1>6, BookAssumption DEF DeepDive, BookInv, TypeOK, Pages, Chapters
  <2>2. sub \in Page
    BY <2>1 DEF Page
  <2>3. Compiled(c, pages + 1, 0)
    BY <1>1, <2>1, <2>2, StartCompileEffect DEF BookInv
  <2>4. p = pages + 1
    BY <1>1, <2>1, <2>3, WritesOnePage
  <2> QED
    BY <2>4 DEF BookInv, TypeOK
<1>7. ASSUME NEW q \in Pages, NEW i, NEW changed \in BOOLEAN, Regenerate(c, q, i, changed)
      PROVE  FALSE
  BY <1>7 DEF Regenerate, Editable, Revived, BookInv, TypeOK
<1>8. ASSUME NEW q \in Pages, NEW status, NEW now, Insert(c, q, status, now)
      PROVE  FALSE
  BY <1>8 DEF Insert, Editable, Revived, BookInv, TypeOK
<1> QED
  BY <1>2, <1>3, <1>4, <1>5, <1>6, <1>7, <1>8 DEF Request

LEMMA ConfirmRevivesNone ==
  ASSUME BookInv, NEW p \in Pages, p =< pages, NEW S, NEW auto \in BOOLEAN,
         ConfirmSpine(S, auto) \/ Rebuild(auto)
  PROVE  ~Revived(p)
<1>1. CASE ConfirmSpine(S, auto)
  <2>1. S \in SUBSET Chapters /\ Confirm(S, auto, disk, queue, queued, work["worker"])
    BY <1>1, EditedSpine DEF ConfirmSpine
  <2>2. disk'[p] = disk[p] \/ p > pages
    BY <2>1, ConfirmEffect, WorkerIsTask DEF BookInv, TypeOK
  <2> QED
    BY <2>2 DEF Revived, BookInv, TypeOK, Pages
<1>2. CASE Rebuild(auto)
  <2> DEFINE files == [r \in Pages |-> NoPage]
  <2>1. /\ Confirm(spine, auto, files, <<>>, {}, Rest)
        /\ files \in [Pages -> Page \cup {NoPage}] /\ <<>> \in Seq(Pages)
    BY <1>2 DEF Rebuild, CancelledWorker
  <2>2. disk'[p] = files[p] \/ p > pages
    BY <2>1, RestIsIdle, ConfirmEffect DEF BookInv, TypeOK
  <2> QED
    BY <2>2 DEF Revived, BookInv, TypeOK, Pages
<1> QED
  BY <1>1, <1>2

LEMMA NextRevives ==
  ASSUME BookInv, Next, NEW p \in 1 .. pages, Revived(p)
  PROVE  ByRequest(p)
<1>1. p \in Pages /\ p =< pages
  BY BookAssumption DEF BookInv, TypeOK, Pages
<1>2. CASE WorkerTakes
  <2>1. CASE disk[Head(queue)] # NoPage /\ StartCompile("worker", Head(queue), disk[Head(queue)])
    <3>1. Head(queue) \in Pages
      BY <1>2, QueueHead DEF BookInv, WorkerTakes
    <3>2. disk[Head(queue)] \in Page
      BY <2>1, <3>1 DEF BookInv, TypeOK
    <3>3. p = Head(queue)
      BY <1>1, <2>1, <3>1, <3>2, WorkerIsTask, StartCompileEffect, WritesOnePage DEF BookInv
    <3> QED
      BY <2>1, <3>3 DEF Revived
  <2>2. CASE UNCHANGED disk
    BY <2>2 DEF Revived
  <2> QED
    BY <1>2, <2>1, <2>2 DEF WorkerTakes, Compilable
<1>3. CASE Planned("worker") \/ BlockGenerated("worker")
  BY <1>1, <1>3, WorkerIsTask, TasksRevive
<1>4. CASE WorkerLeaves \/ CompileFails("worker") \/ WorkerDies \/ OpenOverview \/ Crash
  BY <1>4 DEF WorkerLeaves, CompileFails, WorkerDies, OpenOverview, Crash, store, Revived
<1>5. CASE \E q \in Pages : CancelDelivered(q)
  BY <1>5 DEF CancelDelivered, Revived
<1>6. CASE \E c \in Clients : Request(c)
  BY <1>1, <1>6, RequestRevives
<1>7. CASE \/ \E S \in SUBSET Chapters, auto \in BOOLEAN : ConfirmSpine(S, auto)
           \/ \E auto \in BOOLEAN : Rebuild(auto)
  BY <1>1, <1>7, ConfirmRevivesNone
<1>8. CASE DeleteBook
  BY <1>1, <1>8 DEF DeleteBook, Revived
<1>9. CASE \E q \in Pages, i \in 1 .. MaxBlocks : DeleteBlock(q, i)
  <2>1. PICK q \in Pages, i \in 1 .. MaxBlocks : DeleteBlock(q, i)
    BY <1>9
  <2>2. disk[q] # NoPage
    BY <2>1 DEF DeleteBlock, NoPage
  <2>3. p = q
    BY <1>1, <2>1 DEF DeleteBlock, Revived, BookInv, TypeOK
  <2> QED
    BY <2>2, <2>3 DEF Revived
<1> QED
  BY <1>2, <1>3, <1>4, <1>5, <1>6, <1>7, <1>8, <1>9 DEF Next, WorkerStep

\* A deleted page is brought back by a request that was working on it, never by
\* the background worker, for any number of pages and requests.
THEOREM BookWorkerNeverRevives == Spec => WorkerNeverRevives
<1>1. BookInv /\ [Next]_vars =>
        [\A p \in 1 .. pages :
           disk[p] = NoPage /\ disk'[p] # NoPage =>
             \E c \in Clients : work[c].page = p /\ work'[c] # work[c]]_vars
  BY NextRevives DEF Revived, ByRequest
<1> QED
  BY <1>1, InitBook, NextBook, PTL DEF Spec, WorkerNeverRevives

=============================================================================
