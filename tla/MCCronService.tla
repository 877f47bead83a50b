--------------------------- MODULE MCCronService ---------------------------
(* Small instances of CronService for TLC. *)
EXTENDS CronService

=============================================================================
