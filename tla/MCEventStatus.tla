---------------------------- MODULE MCEventStatus ----------------------------
(* Instances of EventStatus for TLC. *)
EXTENDS EventStatus, TLC

Plan(pre, open, start) == [preQueueAt |-> pre, saleOpensAt |-> open, startsAt |-> start]

\* The sale as it was announced, and the one an admin puts it off to.
Early    == Plan(0, 1, 2)
Late     == Plan(1, 2, 3)
TwoPlans == {Early, Late}
=============================================================================
