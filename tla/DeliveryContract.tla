-------------------------- MODULE DeliveryContract --------------------------
(***************************************************************************)
(* What the router promises about a delivery, without rows, goroutines or  *)
(* statements: a delivery that was accepted is attempted any number of     *)
(* times; it becomes "delivered" only after an attempt the target          *)
(* acknowledged and stays so for good; it may be given up as "dead"; only  *)
(* a manual retry takes it back from there.  Dispatcher implements this    *)
(* specification when manual retries do not overlap.                       *)
(***************************************************************************)
CONSTANT Deliveries

VARIABLES
  status,        \* status[d]: "absent" before the delivery is accepted
  acknowledged   \* deliveries the target answered with a 2xx that was recorded

contractVars == <<status, acknowledged>>

Open == {"pending", "retrying"}

CInit ==
  /\ status = [d \in Deliveries |-> "absent"]
  /\ acknowledged = {}

Accept(d) ==
  /\ status[d] = "absent"
  /\ status' = [status EXCEPT ![d] = "pending"]
  /\ UNCHANGED acknowledged

\* The acknowledgement may be recorded and yet not reach the status: the
\* process can end in between, and the delivery is then attempted again.
Acknowledge(d) ==
  /\ status[d] \in Open
  /\ acknowledged' = acknowledged \cup {d}
  /\ UNCHANGED status

Settle(d) ==
  /\ status[d] \in Open
  /\ d \in acknowledged
  /\ status' = [status EXCEPT ![d] = "delivered"]
  /\ UNCHANGED acknowledged

Postpone(d) ==
  /\ status[d] \in Open
  /\ status' = [status EXCEPT ![d] = "retrying"]
  /\ UNCHANGED acknowledged

GiveUp(d) ==
  /\ status[d] \in Open
  /\ status' = [status EXCEPT ![d] = "dead"]
  /\ UNCHANGED acknowledged

\* The manual retry.
Revive(d) ==
  /\ status[d] = "dead"
  /\ status' = [status EXCEPT ![d] = "retrying"]
  /\ UNCHANGED acknowledged

CStep(d) ==
  \/ Accept(d) \/ Acknowledge(d) \/ Settle(d)
  \/ Postpone(d) \/ GiveUp(d) \/ Revive(d)

CNext == \E d \in Deliveries : CStep(d)

CSpec == CInit /\ [][CNext]_contractVars
=============================================================================
