--------------------------- MODULE MCSkidService ---------------------------
(***************************************************************************)
(* A small instance of a skid: the poll loop and one handler of commands,  *)
(* one subscription, and as many sessions as can be referred to at once.   *)
(***************************************************************************)
EXTENDS SkidService

=============================================================================
