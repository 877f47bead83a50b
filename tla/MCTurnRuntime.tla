--------------------------- MODULE MCTurnRuntime ---------------------------
(* Small instances of TurnRuntime for TLC. *)
EXTENDS TurnRuntime, TLC

CONSTANTS c1, c2

MCClients == {c1, c2}

\* Clients are interchangeable.
Symmetry == Permutations(MCClients)

=============================================================================
