---------------------------- MODULE MCCommandLine ----------------------------
(* A small instance of CommandLine for TLC. *)
EXTENDS CommandLine, MCSailorLink
=============================================================================
