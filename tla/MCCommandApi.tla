---------------------------- MODULE MCCommandApi ----------------------------
(***************************************************************************)
(* A small instance of the command API: a command, a writeback, three      *)
(* acknowledgements and two failures.                                      *)
(***************************************************************************)
EXTENDS CommandApi
=============================================================================
