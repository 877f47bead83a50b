----------------------------- MODULE BookEngine -----------------------------
(***************************************************************************)
(* The compilation of one book, deeptutor/book/engine.py and compiler.py.  *)
(*                                                                         *)
(* The manifest, the spine and the pages are files, each written whole.    *)
(* Pages are compiled by one worker, from a queue, and by the requests of  *)
(* users who open a page; other requests edit blocks, rebuild the book or  *)
(* delete it.  Whoever works on a page works on a copy it read, and saves  *)
(* the copy over the file after every call of the model.  Only these calls *)
(* and the worker's wait for the queue suspend: the locks of the engine    *)
(* are never held over a suspension, so they never make anybody wait.      *)
(*                                                                         *)
(* Cancelling a task is certain, as in asyncio since Python 3.12.  The     *)
(* spine is the set of its chapters; the overview page, which is built     *)
(* ready, counts only through OpenOverview.  A page or a block is ready or *)
(* open: nothing in the code distinguishes pending, planning, generating,  *)
(* partial and error but what is shown.  Moving a block, quiz attempts,    *)
(* chat sessions and fingerprints change nothing that is modelled.         *)
(***************************************************************************)
EXTENDS Naturals, Sequences, FiniteSets, FiniteSetsExt

CONSTANTS
    Clients,      \* requests that may be in progress at the same time
    MaxPages,     \* bound: pages ever created
    MaxChapters,  \* bound: chapters ever created
    MaxBlocks     \* bound: blocks of a page

ASSUME BookAssumption ==
    /\ MaxPages \in Nat
    /\ MaxChapters \in Nat
    /\ MaxBlocks \in Nat
    /\ "worker" \notin Clients

Pages == 1 .. MaxPages
Chapters == 1 .. MaxChapters
Tasks == Clients \cup {"worker"}
NoPage == [chapter |-> 0, status |-> "none", blocks |-> <<>>]
Rest == [at |-> "rest", page |-> 0, copy |-> NoPage, block |-> 0]

VARIABLES
    book,      \* the status in the manifest, "none" when there is no manifest
    spine,     \* the chapters of spine.json
    chapters,  \* chapters created so far
    disk,      \* the page files
    pages,     \* pages created so far
    queue,     \* _BookRuntime.queue
    queued,    \* _BookRuntime.queued
    cancelled, \* pages of cancelled workers that have not been resumed yet
    work,      \* what each task is doing; the worker rests when there is none
    died,      \* the worker ended by an exception and was not replaced
    loose      \* the last change of the book or a page came without finalizing

store == <<book, spine, chapters, disk, pages>>
runtime == <<queue, queued, cancelled>>
vars == <<book, spine, chapters, disk, pages, queue, queued, cancelled, work, died, loose>>

Init ==
    /\ book = "draft"
    /\ spine = {}
    /\ chapters = 0
    /\ disk = [p \in Pages |-> NoPage]
    /\ pages = 0
    /\ queue = <<>>
    /\ queued = {}
    /\ cancelled = {}
    /\ work = [t \in Tasks |-> Rest]
    /\ died = FALSE
    /\ loose = FALSE

----------------------------------------------------------------------------
(* Pages *)

Stored(files) == {p \in Pages : files[p].status # "none"}
Opened(page) == [page EXCEPT !.status = "open"]
WithBlock(page, i, status) == [page EXCEPT !.blocks[i] = status]
AllReady(page) == \A i \in DOMAIN page.blocks : page.blocks[i] = "ready"

\* _finalize_page_status()
Judged(page) ==
    [page EXCEPT !.status =
        IF page.blocks # <<>> /\ AllReady(page) THEN "ready" ELSE "open"]

\* _reset_page_for_force_compile() resets every block but the user's notes.
Reset(page, notes) ==
    [page EXCEPT !.status = "open",
                 !.blocks = [i \in DOMAIN @ |-> IF i \in notes THEN @[i] ELSE "open"]]

\* Mutant of Finalized: only a book that is compiling is finalized.
FinalizedWhenCompiling(files, status) ==
    IF status = "compiling" /\ \A p \in Stored(files) : files[p].status = "ready"
    THEN "ready" ELSE status

\* _maybe_finalize_book()
Finalized(files, status) ==
    IF /\ status # "none"
       /\ Stored(files) # {}
       /\ \A p \in Stored(files) : files[p].status = "ready"
    THEN "ready" ELSE status

Compilable(p) == book # "none" /\ spine # {} /\ disk[p] # NoPage

----------------------------------------------------------------------------
(* BookCompiler.compile_page(), run by the worker and by requests.  Each    *)
(* operator is what task t does from one suspension to the next.            *)

At(t, at, p, copy, i) ==
    work' = [work EXCEPT ![t] = [at |-> at, page |-> p, copy |-> copy, block |-> i]]

\* Mutant of Discarded: the mark is not taken back.
KeptMark(p) == queued

\* The worker's finally clause and its way back to the queue.
Discarded(p) == queued \ {p}
Release(t, p) ==
    IF t = "worker"
    THEN /\ At(t, "get", 0, NoPage, 0)
         /\ queued' = Discarded(p)
    ELSE /\ work' = [work EXCEPT ![t] = Rest]
         /\ UNCHANGED queued

Finalize(files) ==
    /\ book' = Finalized(files, book)
    /\ loose' = FALSE

\* The manifest cannot be read or written: the exception ends a request, and the
\* worker, whose call of _maybe_finalize_book() is outside its try statement.
FinalizeFails ==
    /\ loose' = TRUE
    /\ UNCHANGED book

\* Task t leaves page p with the exception; the worker is dead.
Abort(t, p) ==
    /\ work' = [work EXCEPT ![t] = Rest]
    /\ queued' = IF t = "worker" THEN Discarded(p) ELSE queued
    /\ died' = (died \/ t = "worker")

\* The blocks from i on, as far as the next call of the model or the end.
Generate(t, p, page, i) ==
    LET left == {j \in DOMAIN page.blocks : j >= i /\ page.blocks[j] = "open"}
        files == [disk EXCEPT ![p] = IF left = {} THEN Judged(page) ELSE page]
    IN /\ disk' = files
       /\ IF left = {}
          THEN \/ Release(t, p) /\ Finalize(files) /\ UNCHANGED died
               \/ Abort(t, p) /\ FinalizeFails
          ELSE /\ \E j \in left : (\A k \in left : j =< k) /\ At(t, "block", p, page, j)
               /\ UNCHANGED <<queued, book, loose, died>>

StartCompile(t, p, page) ==
    \/ /\ page.blocks = <<>>
       /\ disk' = [disk EXCEPT ![p] = Opened(page)]
       /\ At(t, "plan", p, Opened(page), 0)
       /\ UNCHANGED <<queued, book, loose, died>>
    \/ /\ page.blocks # <<>>
       /\ Generate(t, p, Opened(page), 1)

Planned(t) ==
    /\ work[t].at = "plan"
    /\ \E n \in 0 .. MaxBlocks :
         Generate(t, work[t].page,
                  [work[t].copy EXCEPT !.blocks = [i \in 1 .. n |-> "open"]], 1)
    /\ UNCHANGED <<spine, chapters, pages, queue, cancelled>>

BlockGenerated(t) ==
    /\ work[t].at = "block"
    /\ \E status \in {"ready", "open"} :
         Generate(t, work[t].page, WithBlock(work[t].copy, work[t].block, status),
                  work[t].block + 1)
    /\ UNCHANGED <<spine, chapters, pages, queue, cancelled>>

\* An exception: the worker logs it, finalizes and goes on; a request is over.
CompileFails(t) ==
    /\ work[t].at \in {"plan", "block"}
    /\ Release(t, work[t].page)
    /\ IF t = "worker" THEN Finalize(disk) ELSE UNCHANGED <<book, loose>>
    /\ UNCHANGED <<spine, chapters, disk, pages, queue, cancelled, died>>

----------------------------------------------------------------------------
(* The worker *)

\* The worker takes the next page; it passes over one that is gone or ready.
WorkerTakes ==
    /\ work["worker"].at = "get"
    /\ queue # <<>>
    /\ queue' = Tail(queue)
    /\ LET p == Head(queue)
       IN IF /\ Compilable(p)
             /\ disk[p].status # "ready"
             /\ disk[p].chapter \in spine
          THEN StartCompile("worker", p, disk[p])
          ELSE queued' = Discarded(p) /\ UNCHANGED <<disk, book, work, loose, died>>
    /\ UNCHANGED <<spine, chapters, pages, cancelled>>

\* Mutant of MayLeave: the queue is not looked at again after the timeout.
LeavesAnyway == TRUE

\* The wait timed out, and the worker leaves if the queue is still empty.
MayLeave == queue = <<>>
WorkerLeaves ==
    /\ work["worker"].at = "get"
    /\ MayLeave
    /\ work' = [work EXCEPT !["worker"] = Rest]
    /\ UNCHANGED <<book, spine, chapters, disk, pages, queue, queued, cancelled, died, loose>>

\* Loading or compiling a page failed, and logging that or finalizing the book
\* fails too: the task is over.
WorkerDies ==
    /\ \/ /\ work["worker"].at \in {"plan", "block"}
          /\ Abort("worker", work["worker"].page)
          /\ UNCHANGED queue
       \/ /\ work["worker"].at = "get"
          /\ queue # <<>>
          /\ queue' = Tail(queue)
          /\ Abort("worker", Head(queue))
    /\ FinalizeFails
    /\ UNCHANGED <<spine, chapters, disk, pages, cancelled>>

\* A cancelled worker is resumed, once: only its finally clause runs.
CancelDelivered(p) ==
    /\ p \in cancelled
    /\ cancelled' = cancelled \ {p}
    /\ queued' = Discarded(p)
    /\ UNCHANGED <<book, spine, chapters, disk, pages, queue, work, died, loose>>

----------------------------------------------------------------------------
(* Requests *)

Free(c) == work[c] = Rest

\* confirm_proposal() reads the manifest, asks the model for a spine, and saves
\* both, whatever became of the book meanwhile.
ProposalConfirmed(c) ==
    /\ Free(c)
    /\ book # "none"
    /\ At(c, "spine", 0, NoPage, 0)
    /\ UNCHANGED <<book, spine, chapters, disk, pages, queue, queued, cancelled, died, loose>>

SpineSaved(c) ==
    /\ work[c].at = "spine"
    /\ \E n \in 1 .. MaxChapters - chapters :
         /\ spine' = chapters + 1 .. chapters + n
         /\ chapters' = chapters + n
    /\ book' = "spine_ready"
    /\ loose' = TRUE
    /\ work' = [work EXCEPT ![c] = Rest]
    /\ UNCHANGED <<disk, pages, queue, queued, cancelled, died>>

SpineFailed(c) ==
    /\ work[c].at = "spine"
    /\ work' = [work EXCEPT ![c] = Rest]
    /\ UNCHANGED <<book, spine, chapters, disk, pages, queue, queued, cancelled, died, loose>>

\* The ways to list a set, each member once.
Listings(S) ==
    {f \in [1 .. Cardinality(S) -> S] : S = {f[i] : i \in 1 .. Cardinality(S)}}

\* _enqueue_pending_pages() and _ensure_worker()
ToEnqueue(shown, files, waiting) ==
    {p \in Stored(files) : p \in shown /\ files[p].status # "ready" /\ p \notin waiting}
Enqueue(shown, files, line, waiting, worker) ==
    LET added == ToEnqueue(shown, files, waiting)
    IN /\ \E f \in Listings(added) : queue' = line \o f
       /\ queued' = waiting \cup added
       /\ work' = [work EXCEPT !["worker"] =
                     IF worker.at = "rest" THEN [Rest EXCEPT !.at = "get"] ELSE worker]
       /\ died' = FALSE

\* confirm_spine(): a page for every chapter that has none, then the queue.
Confirm(S, auto, files, line, waiting, worker) ==
    LET missing == {ch \in S : \A p \in Stored(files) : files[p].chapter # ch}
        ids == pages + 1 .. pages + Cardinality(missing)
    IN /\ pages + Cardinality(missing) =< MaxPages
       /\ pages' = pages + Cardinality(missing)
       /\ \E f \in Listings(missing) :
            /\ disk' = [p \in Pages |->
                          IF p \in ids
                          THEN [chapter |-> f[p - pages], status |-> "open", blocks |-> <<>>]
                          ELSE files[p]]
            /\ IF auto
               THEN Enqueue({Max({p \in Stored(disk') : disk'[p].chapter = ch}) : ch \in S},
                            disk', line, waiting, worker)
               ELSE /\ queue' = line
                    /\ queued' = waiting
                    /\ work' = [work EXCEPT !["worker"] = worker]
                    /\ UNCHANGED died
       /\ spine' = S
       /\ book' = IF auto THEN "compiling" ELSE "spine_ready"
       /\ loose' = TRUE

\* The user may have edited the spine: chapters are left out, brought back or
\* added.  An edited spine need not be stored before.
ConfirmSpine(S, auto) ==
    /\ book # "none"
    /\ S # {}
    /\ \E n \in 0 .. MaxChapters - chapters :
         /\ chapters' = chapters + n
         /\ chapters + 1 .. chapters + n \subseteq S /\ S \subseteq 1 .. chapters + n
    /\ Confirm(S, auto, disk, queue, queued, work["worker"])
    /\ UNCHANGED cancelled

\* The page of a worker that is cancelled, until its finally clause has run.
Interrupted == IF work["worker"].at \in {"plan", "block"} THEN {work["worker"].page} ELSE {}
\* Mutant of CancelledWorker: the worker is not cancelled.
StillWorking == work["worker"]
CancelledWorker == Rest

\* rebuild_book() cancels the worker, empties the queue, deletes every page and
\* confirms the same spine again.
Rebuild(auto) ==
    /\ book # "none" /\ spine # {}
    /\ cancelled' = cancelled \cup Interrupted
    /\ Confirm(spine, auto, [p \in Pages |-> NoPage], <<>>, {}, CancelledWorker)
    /\ UNCHANGED chapters

DeleteBook ==
    /\ book' = "none"
    /\ spine' = {}
    /\ disk' = [p \in Pages |-> NoPage]
    /\ queue' = <<>>
    /\ queued' = {}
    /\ cancelled' = {}
    /\ work' = [work EXCEPT !["worker"] = CancelledWorker]
    /\ died' = FALSE
    /\ UNCHANGED <<chapters, pages, loose>>

\* compile_page() for a page a user opened.
OpenPage(c, p, force, notes) ==
    /\ Free(c)
    /\ Compilable(p)
    /\ disk[p].status # "ready" \/ force
    /\ LET page == IF force THEN Reset(disk[p], notes) ELSE disk[p]
       IN IF disk[p].chapter \in spine
          THEN StartCompile(c, p, page)
          ELSE disk' = [disk EXCEPT ![p] = page] /\ UNCHANGED <<queued, book, work, loose, died>>
    /\ UNCHANGED <<spine, chapters, pages, queue, cancelled>>

\* compile_page() of the overview page rebuilds it at once.
OpenOverview ==
    /\ book # "none" /\ spine # {} /\ Stored(disk) # {}
    /\ Finalize(disk)
    /\ UNCHANGED <<spine, chapters, disk, pages, queue, queued, cancelled, work, died>>

\* create_deep_dive_subpage()
DeepDive(c, p) ==
    LET sub == [chapter |-> chapters + 1, status |-> "open", blocks |-> <<>>]
    IN /\ Free(c)
       /\ Compilable(p)
       /\ chapters < MaxChapters /\ pages < MaxPages
       /\ chapters' = chapters + 1
       /\ pages' = pages + 1
       /\ spine' = spine \cup {chapters + 1}
       /\ StartCompile(c, pages + 1, sub)
       /\ UNCHANGED <<queue, cancelled>>

----------------------------------------------------------------------------
(* Requests that edit the blocks of a page *)

Editable(p) == spine # {} /\ disk[p] # NoPage /\ disk[p].chapter \in spine

\* regenerate_block(); change_block_type() marks the block pending in the file,
\* and has nothing to run when the book is gone.
Regenerate(c, p, i, changed) ==
    LET page == IF changed THEN WithBlock(disk[p], i, "open") ELSE disk[p]
    IN /\ Free(c)
       /\ Editable(p)
       /\ i \in DOMAIN disk[p].blocks
       /\ disk' = [disk EXCEPT ![p] = page]
       /\ IF book = "none" THEN UNCHANGED work ELSE At(c, "regenerate", p, page, i)
       /\ loose' = (changed \/ loose)
       /\ UNCHANGED <<book, spine, chapters, pages, queue, queued, cancelled, died>>

Regenerated(c) ==
    /\ work[c].at = "regenerate"
    /\ \E status \in {"ready", "open"} :
         disk' = [disk EXCEPT ![work[c].page] =
                    Judged(WithBlock(work[c].copy, work[c].block, status))]
    /\ Finalize(disk') \/ FinalizeFails
    /\ work' = [work EXCEPT ![c] = Rest]
    /\ UNCHANGED <<spine, chapters, pages, queue, queued, cancelled, died>>

\* insert_block(): a note is ready at once, another block is generated now or
\* left open.
Insert(c, p, status, now) ==
    LET page == [disk[p] EXCEPT !.blocks = Append(@, status)]
    IN /\ Free(c)
       /\ Editable(p)
       /\ Len(disk[p].blocks) < MaxBlocks
       /\ disk' = [disk EXCEPT ![p] = page]
       /\ IF now /\ status = "open"
          THEN At(c, "insert", p, page, Len(page.blocks)) ELSE UNCHANGED work
       /\ loose' = TRUE
       /\ UNCHANGED <<book, spine, chapters, pages, queue, queued, cancelled, died>>

Inserted(c) ==
    /\ work[c].at = "insert"
    /\ \E status \in {"ready", "open"} :
         disk' = [disk EXCEPT ![work[c].page] =
                    Judged(WithBlock(work[c].copy, work[c].block, status))]
    /\ loose' = TRUE
    /\ work' = [work EXCEPT ![c] = Rest]
    /\ UNCHANGED <<book, spine, chapters, pages, queue, queued, cancelled, died>>

WithoutBlock(page, i) ==
    [page EXCEPT !.blocks =
        SubSeq(page.blocks, 1, i - 1) \o SubSeq(page.blocks, i + 1, Len(page.blocks))]

DeleteBlock(p, i) ==
    /\ i \in DOMAIN disk[p].blocks
    /\ disk' = [disk EXCEPT ![p] = Judged(WithoutBlock(disk[p], i))]
    /\ loose' = TRUE
    /\ UNCHANGED <<book, spine, chapters, pages, queue, queued, cancelled, work, died>>

\* The process ends: the files stay.
Crash ==
    /\ queue' = <<>>
    /\ queued' = {}
    /\ cancelled' = {}
    /\ work' = [t \in Tasks |-> Rest]
    /\ died' = FALSE
    /\ loose' = TRUE
    /\ UNCHANGED store

----------------------------------------------------------------------------
WorkerStep ==
    \/ WorkerTakes
    \/ Planned("worker")
    \/ BlockGenerated("worker")

Request(c) ==
    \/ ProposalConfirmed(c)
    \/ SpineSaved(c)
    \/ SpineFailed(c)
    \/ Planned(c)
    \/ BlockGenerated(c)
    \/ CompileFails(c)
    \/ Regenerated(c)
    \/ Inserted(c)
    \/ \E p \in Pages :
         \/ \E force \in BOOLEAN, notes \in SUBSET (1 .. MaxBlocks) : OpenPage(c, p, force, notes)
         \/ DeepDive(c, p)
         \/ \E i \in 1 .. MaxBlocks, changed \in BOOLEAN : Regenerate(c, p, i, changed)
         \/ \E status \in {"open", "ready"}, now \in BOOLEAN : Insert(c, p, status, now)

Next ==
    \/ WorkerStep
    \/ WorkerLeaves
    \/ CompileFails("worker")
    \/ WorkerDies
    \/ \E p \in Pages : CancelDelivered(p)
    \/ \E c \in Clients : Request(c)
    \/ \E S \in SUBSET Chapters, auto \in BOOLEAN : ConfirmSpine(S, auto)
    \/ \E auto \in BOOLEAN : Rebuild(auto)
    \/ DeleteBook
    \/ OpenOverview
    \/ \E p \in Pages, i \in 1 .. MaxBlocks : DeleteBlock(p, i)
    \/ Crash

Spec == Init /\ [][Next]_vars

\* The worker is resumed when there is a page, and every call of the model ends.
FairSpec == Spec /\ WF_vars(WorkerStep)

----------------------------------------------------------------------------
(* Properties *)

BlockStates == {"open", "ready"}
Page == [chapter : Chapters, status : {"open", "ready"}, blocks : Seq(BlockStates)]
Idle == [at : {"rest", "get", "spine"}, page : {0}, copy : {NoPage}, block : {0}]
Busy == [at : {"plan", "block", "regenerate", "insert"},
         page : Pages, copy : Page, block : Nat]

\* The types: whoever works on a page has a copy of a page that existed.
TypeOK ==
    /\ book \in {"none", "draft", "spine_ready", "compiling", "ready"}
    /\ spine \subseteq Chapters
    /\ chapters \in 0 .. MaxChapters
    /\ disk \in [Pages -> Page \cup {NoPage}]
    /\ pages \in 0 .. MaxPages
    /\ queue \in Seq(Pages)
    /\ queued \subseteq Pages
    /\ cancelled \subseteq Pages
    /\ work \in [Tasks -> Idle \cup Busy]
    /\ died \in BOOLEAN
    /\ loose \in BOOLEAN

InHand == IF work["worker"].at \in {"plan", "block"} THEN {work["worker"].page} ELSE {}

\* A page marked as queued is in the queue or in the worker's hands: through
\* rebuilds, cancellations, exceptions and repeated confirmations no mark is left
\* behind, which would keep its page out of the queue for ever.
NoLeakedMark == queued \subseteq {queue[i] : i \in DOMAIN queue} \cup InHand

\* A page in the queue has a worker, although the worker leaves on a timeout and
\* is started by whoever enqueues: unless a failing disk ended it.
QueueIsServed == queue # <<>> => work["worker"].at # "rest" \/ died

\* A page that was deleted is brought back by a request that was working on it,
\* never by the background worker: rebuild and delete cancel it first.
WorkerNeverRevives ==
    [][\A p \in 1 .. pages :
         disk[p] = NoPage /\ disk'[p] # NoPage =>
            \E c \in Clients : work[c].page = p /\ work'[c] # work[c]]_vars

\* When all the pages of the book are ready, the book is ready: whoever finished
\* last, the worker or a request with an older copy, finalized it.  (A change that
\* does not finalize may leave it behind: loose.)
FinishedIsReady ==
    /\ ~loose
    /\ book # "none" /\ Stored(disk) # {}
    /\ \A p \in Stored(disk) : disk[p].status = "ready"
    => book = "ready"

\* A queued page gets its turn, or is taken out by a rebuild.
QueuedGetTheirTurn ==
    \A p \in Pages : (p \in queued) ~> (p \notin queued \/ died)

=============================================================================
