--------------------------- MODULE MCTurnReplies ---------------------------
(* Small instances of TurnReplies for TLC. *)
EXTENDS TurnReplies

=============================================================================
