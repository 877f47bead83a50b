---------------------------- MODULE MCBookEngine ----------------------------
EXTENDS BookEngine, TLC

CONSTANTS c1

MCClients == {c1}

=============================================================================
