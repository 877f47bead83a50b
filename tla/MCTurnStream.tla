---------------------------- MODULE MCTurnStream ----------------------------
(* Small instances of TurnStream for TLC.  Subscriptions share nothing but the *)
(* turn's row, which any client may recover: one of them is enough.            *)
EXTENDS TurnStream

CONSTANT s1

MCSubscribers == {s1}

=============================================================================
