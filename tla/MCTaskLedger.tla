--------------------------- MODULE MCTaskLedger ---------------------------
(* TaskLedger with two workers, for TLC. *)
EXTENDS TaskLedger

CONSTANTS w1, w2

MCWorkers == {w1, w2}
MCLeases == 1 .. 7
MCLimit == [beat |-> 1, lapse |-> 1, mishap |-> 1]

=============================================================================
