------------------------------- MODULE Outbox -------------------------------
(***************************************************************************)
(* What the MQTT publisher promises of the messages it is given: each is   *)
(* accepted in turn and waits until it reaches the broker; one may be lost *)
(* only once Capacity younger ones have been accepted.                     *)
(***************************************************************************)
EXTENDS Naturals, FiniteSets

CONSTANTS
  N,         \* messages 1 .. N are published, in this order
  Capacity   \* BUFFER_SIZE

Messages == 1 .. N

VARIABLE status

Younger(m) == {k \in Messages : k > m /\ status[k] # "new"}

Accept(m) ==
  /\ status[m] = "new"
  /\ \A k \in Messages : k < m => status[k] # "new"
  /\ status' = [status EXCEPT ![m] = "waiting"]

Deliver(m) ==
  /\ status[m] = "waiting"
  /\ status' = [status EXCEPT ![m] = "delivered"]

Lose(m) ==
  /\ status[m] = "waiting"
  /\ Cardinality(Younger(m)) >= Capacity
  /\ status' = [status EXCEPT ![m] = "lost"]

Init == status = [m \in Messages |-> "new"]

Next == \E m \in Messages : Accept(m) \/ Deliver(m) \/ Lose(m)

Spec == Init /\ [][Next]_status
=============================================================================
