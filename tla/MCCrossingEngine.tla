-------------------------- MODULE MCCrossingEngine --------------------------
(***************************************************************************)
(* A small instance of the decision engine.  A light vehicle behaves as an *)
(* unclassified one except that it queues, which the two other classes do  *)
(* as well, so three classes are enough; every other part of a sample      *)
(* takes all its values.                                                   *)
(***************************************************************************)
EXTENDS CrossingEngine

ThreeClassSamples == {sd \in Sample : sd.class # "LIGHT_VEHICLE"}
=============================================================================
