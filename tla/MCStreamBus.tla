---------------------------- MODULE MCStreamBus ----------------------------
(* Small instances of StreamBus for TLC. *)
EXTENDS StreamBus

CONSTANTS s1, s2, w1

MCSubscribers == {s1, s2}
MCWaiters == {w1}
MCTimed == {w1}

=============================================================================
