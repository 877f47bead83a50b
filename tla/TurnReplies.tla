---------------------------- MODULE TurnReplies ----------------------------
(***************************************************************************)
(* The pause of a turn on ask_user: submit_user_reply and the reply queue  *)
(* of deeptutor/services/session/turn_runtime.py, the task in which        *)
(* runtime/orchestrator.py runs the capability, and the capability's wait  *)
(* for the reply (agents/chat/agentic_pipeline.py).                        *)
(*                                                                         *)
(* The capability runs in a task of its own: the runner only follows its   *)
(* events.  Cancelling the runner does not cancel that task.               *)
(***************************************************************************)
EXTENDS Integers, Sequences

CONSTANTS
    MaxAsks,    \* bound: questions the capability asks
    MaxRepeats  \* bound: submissions for one question (two tabs, a retry)

ASSUME RepliesAssumption == MaxAsks \in Nat /\ MaxRepeats \in Nat

Questions == 1 .. MaxAsks

VARIABLES
    runner,   \* the turn's runner: created, running, closing, ended
    task,     \* the capability's task: none, working, asking, done
    asked,    \* questions asked so far, numbered in that order
    replies,  \* the reply queue: the question each reply was written for
    answers,  \* for each answered question, the one its reply was written for
    sent      \* submissions for each question

pauseVars == <<runner, task, asked, replies, answers, sent>>

PauseInit ==
    /\ runner = "created"
    /\ task = "none"
    /\ asked = 0
    /\ replies = <<>>
    /\ answers = <<>>
    /\ sent = [q \in Questions |-> 0]

----------------------------------------------------------------------------
(* The runner *)

\* The task's first step: the reply queue is registered.
Begin ==
    /\ runner = "created"
    /\ runner' = "running"
    /\ UNCHANGED <<task, asked, replies, answers, sent>>

\* The context is built; the orchestrator starts the capability.
Handle ==
    /\ runner = "running" /\ task = "none"
    /\ task' = "working"
    /\ UNCHANGED <<runner, asked, replies, answers, sent>>

\* The bus is closed and drained.
StreamEnds ==
    /\ runner = "running" /\ task = "done"
    /\ runner' = "closing"
    /\ UNCHANGED <<task, asked, replies, answers, sent>>

\* The runner is cancelled, or its body raises.
Interrupt ==
    /\ runner = "running"
    /\ runner' = "closing"
    /\ UNCHANGED <<task, asked, replies, answers, sent>>

\* The awaits of the end of the body or of a handler are over: the finally
\* unregisters the reply queue.
Leave ==
    /\ runner = "closing"
    /\ runner' = "ended"
    /\ UNCHANGED <<task, asked, replies, answers, sent>>

----------------------------------------------------------------------------
(* The capability's task *)

Ask ==
    /\ task = "working"
    /\ asked < MaxAsks
    /\ asked' = asked + 1
    /\ task' = "asking"
    /\ UNCHANGED <<runner, replies, answers, sent>>

\* Mutation: the reply is looked at, not taken.
StillQueued == replies

\* The queue once its first reply is taken.
Remaining == Tail(replies)

\* waiter() returns: the reply is substituted into the pending tool message.
Resume ==
    /\ task = "asking"
    /\ replies # <<>>
    /\ answers' = Append(answers, Head(replies))
    /\ replies' = Remaining
    /\ task' = "working"
    /\ UNCHANGED <<runner, asked, sent>>

\* The capability returns or raises: DONE is emitted and the bus closed.
TaskEnds ==
    /\ task = "working"
    /\ task' = "done"
    /\ UNCHANGED <<runner, asked, replies, answers, sent>>

----------------------------------------------------------------------------
\* The reply queue is registered.
Accepting == runner \in {"running", "closing"}

\* submit_user_reply: whatever comes while the queue is registered is queued and
\* accepted, a second reply to a question, a late one and one that comes before
\* its question alike; without a queue it is refused.
Submit(q) ==
    /\ sent[q] < MaxRepeats
    /\ sent' = [sent EXCEPT ![q] = @ + 1]
    /\ replies' = IF Accepting THEN Append(replies, q) ELSE replies
    /\ UNCHANGED <<runner, task, asked, answers>>

PauseNext ==
    \/ Begin \/ Handle \/ StreamEnds \/ Interrupt \/ Leave
    \/ Ask \/ Resume \/ TaskEnds
    \/ \E q \in Questions : Submit(q)

PauseSpec == PauseInit /\ [][PauseNext]_pauseVars

----------------------------------------------------------------------------
(* Properties *)

PauseTypeOK ==
    /\ runner \in {"created", "running", "closing", "ended"}
    /\ task \in {"none", "working", "asking", "done"}
    /\ asked \in 0 .. MaxAsks
    /\ replies \in Seq(Questions)
    /\ answers \in Seq(Questions)
    /\ sent \in [Questions -> 0 .. MaxRepeats]

\* A question gets the reply that was written for it, also in a task whose
\* runner is gone, with two exceptions: an earlier question was submitted twice,
\* or this question or an earlier one consumed a reply that was there before its
\* own question.  In particular a second or late reply never goes to its question
\* again or to one before it, and once queue and questions are in step they stay
\* in step.
MatchingAnswer ==
    \A q \in 1 .. Len(answers) :
        answers[q] # q =>
            \/ \E p \in 1 .. q - 1 : sent[p] > 1
            \/ \E p \in 1 .. q : answers[p] > p

=============================================================================
