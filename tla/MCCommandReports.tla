--------------------------- MODULE MCCommandReports ---------------------------
(* CommandReports for TLC. *)
EXTENDS CommandReports
=============================================================================
