------------------------- MODULE MCMemoryRunStream -------------------------
(* Small instances of MemoryRunStream for TLC. *)
EXTENDS MemoryRunStream

CONSTANTS s1, i1

MCStreams == {s1}
MCInline == {i1}

=============================================================================
