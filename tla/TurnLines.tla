----------------------------- MODULE TurnLines -----------------------------
(***************************************************************************)
(* What a partner promises about the order of its turns, whatever starts,  *)
(* stops, cancellations and failing files do: the messages of one client   *)
(* stand in a line in the order they came, one of them is served at a      *)
(* time, nobody is served before one who waits ahead, and what is answered *)
(* or dropped stays so.                                                    *)
(***************************************************************************)
EXTENDS Integers

CONSTANTS MaxMessages, Lines, NoLine

Messages == 1 .. MaxMessages

VARIABLES
    stage,  \* of each message
    line    \* the line it joined

lineVars == <<stage, line>>

Init ==
    /\ stage = [m \in Messages |-> "coming"]
    /\ line = [m \in Messages |-> NoLine]

Become(m, s) == stage' = [stage EXCEPT ![m] = s]

Free(l) == \A n \in Messages : line[n] = l => stage[n] \notin {"waiting", "served"}

\* A message joins a line behind all who ever joined it.  It is taken at once
\* when nobody is in the way.
Join(m, l, s) ==
    /\ stage[m] = "coming"
    /\ \A n \in Messages : line[n] = l => n < m
    /\ s \in {"waiting", "dropped"} \/ (s \in {"served", "answered"} /\ Free(l))
    /\ Become(m, s)
    /\ line' = [line EXCEPT ![m] = l]

\* The first of those who wait is taken when the one before is done.
Take(m, s) ==
    /\ stage[m] = "waiting"
    /\ \A n \in Messages :
         line[n] = line[m] => /\ stage[n] # "served"
                              /\ stage[n] = "waiting" => m =< n
    /\ s \in {"served", "answered"}
    /\ Become(m, s)
    /\ UNCHANGED line

Finish(m, s) ==
    /\ stage[m] = "served"
    /\ s \in {"answered", "dropped"}
    /\ Become(m, s)
    /\ UNCHANGED line

\* It does not wait any longer.
Leave(m) ==
    /\ stage[m] = "waiting"
    /\ Become(m, "dropped")
    /\ UNCHANGED line

Next ==
    \E m \in Messages :
        \/ Leave(m)
        \/ \E s \in {"waiting", "served", "answered", "dropped"} :
             Take(m, s) \/ Finish(m, s) \/ \E l \in Lines : Join(m, l, s)

Spec == Init /\ [][Next]_lineVars

=============================================================================
