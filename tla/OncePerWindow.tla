---------------------------- MODULE OncePerWindow ----------------------------
(***************************************************************************)
(* What a deduplication window promises: of the deliveries with one key,   *)
(* the first to claim a window may pass, and no other does until the       *)
(* window is over and a new one has been opened.                           *)
(***************************************************************************)
EXTENDS Naturals

CONSTANTS
  Deliveries,  \* deliveries of messages, the repeated ones included
  Keys,        \* deduplication keys
  KeyOf        \* the key of each delivery

VARIABLES
  open,     \* keys whose window is open
  window,   \* the number of each key's window, the one to come if none is open
  claimed,  \* the window that each delivery claimed, 0 for none
  passed    \* deliveries that passed

wvars == <<open, window, claimed, passed>>

Claim(d) ==
  /\ claimed[d] = 0
  /\ KeyOf[d] \notin open
  /\ open' = open \cup {KeyOf[d]}
  /\ claimed' = [claimed EXCEPT ![d] = window[KeyOf[d]]]
  /\ UNCHANGED <<window, passed>>

Pass(d) ==
  /\ claimed[d] # 0
  /\ passed' = passed \cup {d}
  /\ UNCHANGED <<open, window, claimed>>

Close(k) ==
  /\ k \in open
  /\ open' = open \ {k}
  /\ window' = [window EXCEPT ![k] = @ + 1]
  /\ UNCHANGED <<claimed, passed>>

WInit ==
  /\ open = {}
  /\ window = [k \in Keys |-> 1]
  /\ claimed = [d \in Deliveries |-> 0]
  /\ passed = {}

WNext ==
  \/ \E d \in Deliveries : Claim(d) \/ Pass(d)
  \/ \E k \in Keys : Close(k)

WSpec == WInit /\ [][WNext]_wvars

\* Of the deliveries with one key, one passes in each window.
AtMostOne ==
  \A d, e \in passed : KeyOf[d] = KeyOf[e] /\ claimed[d] = claimed[e] => d = e
=============================================================================
