----------------------------- MODULE EventFeed -----------------------------
(***************************************************************************)
(* What every event stream of the server promises its readers: a log that  *)
(* grows until it is shut, and readers that each start somewhere in it and *)
(* move forward one entry at a time, never skipping, never going back.     *)
(* StreamBus (one turn's bus) and TurnStream (a turn's subscriptions) both *)
(* implement it.                                                           *)
(***************************************************************************)
EXTENDS Integers

CONSTANT Readers

VARIABLES
    len,   \* entries in the log
    open,  \* more may come
    pos    \* the last entry each reader was handed, -1 before it starts

feedVars == <<len, open, pos>>

Init ==
    /\ len \in Nat
    /\ open = TRUE
    /\ pos = [r \in Readers |-> -1]

\* The log grows, is shut, or both.
Produce ==
    /\ open
    /\ len' >= len
    /\ open' \in BOOLEAN
    /\ UNCHANGED pos

\* A reader starts at any entry there is.
Start(r) ==
    /\ pos[r] = -1
    /\ \E p \in 0 .. len : pos' = [pos EXCEPT ![r] = p]
    /\ UNCHANGED <<len, open>>

\* A reader is handed the next entry.
Advance(r) ==
    /\ pos[r] >= 0 /\ pos[r] < len
    /\ pos' = [pos EXCEPT ![r] = @ + 1]
    /\ UNCHANGED <<len, open>>

Next == Produce \/ \E r \in Readers : Start(r) \/ Advance(r)

Spec == Init /\ [][Next]_feedVars

=============================================================================
