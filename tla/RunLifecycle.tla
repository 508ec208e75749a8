---------------------------- MODULE RunLifecycle ----------------------------
(***************************************************************************)
(* What the delivery path promises about a run, without streams, threads or *)
(* crashes: the run state model of RFC-001 sections 5 and 7 as the status    *)
(* writes of events/marker_cmd.go and the retry creation of worker.go keep   *)
(* it.  A run moves Pending, Queued, Running and then ends Completed or       *)
(* Failed for good; it completes only after one of its attempts succeeded;   *)
(* a Failed run gets at most one retry child, one index further, never past  *)
(* MaxRetries.  Delivery implements this specification.                      *)
(***************************************************************************)
EXTENDS Naturals

CONSTANTS Jobs, NoJob, MaxRetries

VARIABLES run,   \* job -> status, parent and retry index of its run
          won    \* the jobs with a succeeded attempt

Unborn == [status |-> "None", parent |-> NoJob, retryIndex |-> 0]

Init == run = [j \in Jobs |-> Unborn] /\ won = {}

Move(j, from, to) == /\ run[j].status = from
                     /\ run' = [run EXCEPT ![j].status = to]

Submit(j) == /\ Move(j, "None", "Pending")
             /\ UNCHANGED won

Queue(j)  == Move(j, "Pending", "Queued") /\ UNCHANGED won

Begin(j)  == Move(j, "Queued", "Running") /\ UNCHANGED won

AttemptSucceeds(j) == /\ run[j].status = "Running"
                      /\ won' = won \cup {j}
                      /\ UNCHANGED run

Complete(j) == j \in won /\ Move(j, "Running", "Completed") /\ UNCHANGED won

Fail(j) == Move(j, "Running", "Failed") /\ UNCHANGED won

Retry(j, child) ==
    /\ run[j].status = "Failed" /\ run[j].retryIndex < MaxRetries
    /\ run[child] = Unborn
    /\ \A k \in Jobs : run[k].parent # j
    /\ run' = [run EXCEPT ![child] = [status |-> "Pending", parent |-> j,
                                      retryIndex |-> run[j].retryIndex + 1]]
    /\ UNCHANGED won

Next == \E j \in Jobs :
    \/ Submit(j) \/ Queue(j) \/ Begin(j) \/ AttemptSucceeds(j) \/ Complete(j) \/ Fail(j)
    \/ \E child \in Jobs : Retry(j, child)

Spec == Init /\ [][Next]_<<run, won>>
=============================================================================
