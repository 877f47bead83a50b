--------------------------- MODULE MCPartnerTurns ---------------------------
EXTENDS PartnerTurns, TLC

CONSTANTS im, web1, w1, s1, s2

MCImKeys == {im}
MCWebKeys == {web1}
MCSockets == {w1}
MCStoppers == {s1, s2}

=============================================================================
