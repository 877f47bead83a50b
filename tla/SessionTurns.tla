---------------------------- MODULE SessionTurns ----------------------------
(***************************************************************************)
(* What the turn runtime promises about the turns of one session, whatever *)
(* requests, cancellations, crashes and recoveries interleave: a turn      *)
(* starts only when no other one is running, and once it has left the      *)
(* running state it never comes back to it.                                *)
(***************************************************************************)
EXTENDS Integers

CONSTANT MaxTurns

Turns == 1 .. MaxTurns
Terminal == {"completed", "failed", "cancelled"}

VARIABLE status

Init == status = [t \in Turns |-> "none"]

\* A new turn gets the session to itself.
Begin(t) ==
    /\ status[t] = "none"
    /\ \A u \in Turns : status[u] # "running"
    /\ status' = [status EXCEPT ![t] = "running"]

\* A turn ends, or one that has ended is relabelled.
Settle(t, s) ==
    /\ status[t] # "none"
    /\ status' = [status EXCEPT ![t] = s]

Next ==
    \E t \in Turns :
        \/ Begin(t)
        \/ \E s \in Terminal : Settle(t, s)

Spec == Init /\ [][Next]_status

=============================================================================
