------------------------------ MODULE MCAlerts ------------------------------
(***************************************************************************)
(* A small instance of alert processor and alert API: two of the belt      *)
(* rules that fire on one tag, one of which is escalated, and any three    *)
(* calls and requests.                                                     *)
(***************************************************************************)
EXTENDS AlertApi

MCRules == SubSeq(RulesOf("BELT_RIP_MONITOR"), 2, 3)
Score(v) == [tag |-> "composite_score", float |-> {v}, bool |-> {}]
MCReadings == {Score(80), Score(95)}
=============================================================================
