----------------------------- MODULE MCDelivery -----------------------------
(* Small instances of Delivery for TLC: fault budgets and slow points.      *)
EXTENDS Delivery

NoFaults      == [k \in FaultKinds |-> 0]
OneOutage     == [NoFaults EXCEPT !["outage"] = 1]
OneDbFault    == [NoFaults EXCEPT !["db"] = 1]
OneWipe       == [NoFaults EXCEPT !["wipe"] = 1]
Lossy         == [NoFaults EXCEPT !["wipe"] = 1, !["foreign"] = 1]

(* Every delivery is handled inside reclaimIdleThreshold. *)
NeverSlow     == {}
(* The handler outlasts the threshold, so everything after it does too. *)
SlowHandler   == {"handler", "succeeded", "confirm", "completed", "child", "retryable",
                  "retryAttempt", "spawn", "failAttempt", "failRun", "ack"}
SlowAnywhere  == Points \cup {"batch"}
=============================================================================
