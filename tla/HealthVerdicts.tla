--------------------------- MODULE HealthVerdicts ---------------------------
(***************************************************************************)
(* The judgements monitoring makes from how long ago something was last     *)
(* observed: of a worker (worker/monitoring.go), of a component instance     *)
(* (models/component_instance.go), of a monitoring subsystem                *)
(* (worker/monitoring_health_transitions.go) and of the same subsystem in    *)
(* the component report (health/derived.go).  An age counts steps of the     *)
(* clock and stops beyond the last threshold it meets; Never is a zero time. *)
(***************************************************************************)
EXTENDS Integers

CONSTANTS
    FreshWindow,      \* workerHeartbeatFreshnessWindow, 30 s
    SilentAfter,      \* runSilentAfter, 60 s
    DegradedAfter,    \* models.HeartbeatDegradedAfter and activityDegradedAfter, 60 s
    SubsystemAfter,   \* subsystemDegradedAfter, 2 min
    OfflineAfter      \* models.HeartbeatOfflineAfter, models.DrainWindow, missedOccurrenceThreshold
                      \* and the 5 minutes of a healthy worker

ASSUME VerdictsAssumption ==
    /\ {FreshWindow, SilentAfter, DegradedAfter, SubsystemAfter, OfflineAfter} \subseteq Nat
    /\ FreshWindow < SilentAfter /\ SilentAfter = DegradedAfter
    /\ DegradedAfter < SubsystemAfter /\ SubsystemAfter <= OfflineAfter

Never == -1
Old == OfflineAfter + 1
Ages == 0 .. Old
Older(age, beyond) == IF age \in 0 .. beyond THEN age + 1 ELSE age

(* A component's row of the workers table with its newest heartbeat. *)
Instance == [seen : Ages \cup {Never}, stopped : Ages \cup {Never}, draining : Ages \cup {Never}]

workerStatusFor(age) ==
    IF age > OfflineAfter THEN "offline" ELSE IF age > DegradedAfter THEN "degraded" ELSE "online"

(* The stop is no older than the last heartbeat; stopTolerance, 2 s, is less *)
(* than a step of the clock.                                                *)
StoppedLater(inst) == inst.stopped # Never /\ inst.stopped < inst.seen       \* mutant: no tolerance
GracefullyStopped(inst) == inst.stopped # Never /\ (inst.seen = Never \/ inst.stopped <= inst.seen)

Draining(inst) == inst.draining # Never /\ ~GracefullyStopped(inst) /\ inst.draining < OfflineAfter

InstanceVerdict(inst) ==
    IF GracefullyStopped(inst)           THEN "OFFLINE"
    ELSE IF Draining(inst)               THEN "HEALTHY"
    ELSE IF inst.seen = Never            THEN "UNKNOWN"
    ELSE IF inst.seen > OfflineAfter     THEN "OFFLINE"
    ELSE IF inst.seen > DegradedAfter    THEN "DEGRADED"
    ELSE "HEALTHY"

(* checkComponentInstanceTransitions tracks draining as a state of its own.  *)
ComponentStatus(inst) == IF Draining(inst) THEN "DRAINING" ELSE InstanceVerdict(inst)

subsystemVerdict(age) ==
    IF age = Never THEN "unavailable" ELSE IF age > SubsystemAfter THEN "degraded" ELSE "available"

FedByActivity == {"event-ingestion", "projection"}
adjustVerdictForIdle(subsystem, verdict, busy) ==
    IF verdict = "degraded" /\ ~busy /\ subsystem \in FedByActivity THEN "available" ELSE verdict

activityVerdict(age, busy) ==
    IF age = Never THEN "UNKNOWN" ELSE IF age <= DegradedAfter \/ ~busy THEN "HEALTHY" ELSE "DEGRADED"
=============================================================================
