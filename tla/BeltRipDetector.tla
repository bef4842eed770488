-------------------------- MODULE BeltRipDetector --------------------------
(***************************************************************************)
(* The local belt-rip detector (edge/belt_rip_monitor/detector.py): how    *)
(* anomalies on the channels become one recommendation.                    *)
(*                                                                         *)
(* A sample is abstracted to what the four checks make of it against the   *)
(* rolling baselines: how many of the eight magnetic and of the four       *)
(* acoustic channels are anomalous, whether the load cells are, and the    *)
(* speed.  An anomalous load or speed always scores 1.0, because both      *)
(* divide by the very ratio they have exceeded and cap the quotient at 1.  *)
(* Scores are in units of 1/200, the least in which 0.40/8, 0.30/4, 0.20   *)
(* and 0.10 are whole numbers.                                             *)
(***************************************************************************)
EXTENDS Naturals

CONSTANT Threshold   \* RIP_DETECTION_THRESHOLD, in units of 1/200

ASSUME ThresholdAssumption == Threshold \in 0 .. 200

Recommendation == {"NORMAL", "MONITOR", "SLOW_DOWN", "STOP"}

Sample == [magnetic: 0 .. 8, acoustic: 0 .. 4, load: BOOLEAN, speed: BOOLEAN]

Composite(s) ==
  10 * s.magnetic + 15 * s.acoustic + (IF s.load THEN 40 ELSE 0) + (IF s.speed THEN 20 ELSE 0)

Recommend(s) ==
  IF Composite(s) >= Threshold \/ (s.magnetic > 0 /\ s.acoustic > 0) THEN "STOP"
  ELSE IF Composite(s) >= 100 \/ s.speed THEN "SLOW_DOWN"
  ELSE IF Composite(s) >= 50 \/ s.magnetic > 0 \/ s.acoustic > 0 THEN "MONITOR"
  ELSE "NORMAL"

\* Until the baselines are ready only the load cells are judged.
Judged(s, ready) ==
  IF ready THEN s ELSE [magnetic |-> 0, acoustic |-> 0, load |-> s.load, speed |-> FALSE]

Detect(s, ready) == Recommend(Judged(s, ready))

Severity(r) ==
  CASE r = "NORMAL" -> 0 [] r = "MONITOR" -> 1 [] r = "SLOW_DOWN" -> 2 [] r = "STOP" -> 3

\* Sample t shows every anomaly that sample s shows.
AtLeast(t, s) ==
  /\ t.magnetic >= s.magnetic
  /\ t.acoustic >= s.acoustic
  /\ s.load => t.load
  /\ s.speed => t.speed
=============================================================================
