-------------------------- MODULE MCBeltRipMonitor --------------------------
(***************************************************************************)
(* A small instance of the belt-rip monitor: one operator command at a     *)
(* time beside the poll, a quiet sample and one that calls for a stop, and *)
(* speeds below, within and above the limits.  The detector itself is      *)
(* checked on every sample by the assumptions below.                       *)
(***************************************************************************)
EXTENDS BeltRipMonitor

QuietAndRip ==
  {[magnetic |-> 0, acoustic |-> 0, load |-> TRUE, speed |-> FALSE],
   [magnetic |-> 3, acoustic |-> 1, load |-> TRUE, speed |-> FALSE]}

AskedSpeeds == -1 .. 2

\* detector.py, _recommend: more anomalies never make the recommendation milder.
ASSUME RecommendMonotone ==
  \A s, t \in Sample : AtLeast(t, s) => Severity(Recommend(t)) >= Severity(Recommend(s))

\* detector.py, _recommend: with the default threshold of 0.75 the score never
\* decides, a stop takes a magnetic and an acoustic anomaly together.
ASSUME StopTakesBoth ==
  \A s \in Sample : Recommend(s) = "STOP" <=> s.magnetic > 0 /\ s.acoustic > 0
=============================================================================
