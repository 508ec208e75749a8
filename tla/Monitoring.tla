----------------------------- MODULE Monitoring -----------------------------
(***************************************************************************)
(* The monitoring sweep (worker/monitoring.go): fourteen stages, one after    *)
(* the other, that annotate what looks wrong, announce changes of status,    *)
(* resolve the annotations whose cause is gone, refresh the counts of the    *)
(* run projections and compare the policy file with the active policy;       *)
(* beside it the queue sampler (worker/queuehealth.go), alerting, which      *)
(* reacts to annotations, the components that heartbeat and shut down, and   *)
(* the requests that activate a policy.  What was announced last lives in    *)
(* memory and is gone after a restart; no statement is in a transaction.     *)
(*                                                                         *)
(* A behaviour is about one part of the world, its focus; the others stay    *)
(* as they are.  Time is the age of the newest observation of each kind.     *)
(***************************************************************************)
EXTENDS HealthVerdicts, Sequences, FiniteSets

CONSTANTS
    Checksums,      \* checksums of policy files
    Requests,       \* requests that activate the policy file
    Foci,           \* the parts of the world a behaviour may be about
    MaxChanges,     \* bound: changes of the world that are not mere repetition
    MaxTroubles     \* bound: crashes of the process and failed statements together

NoSum == "none"                                     \* no checksum reported, none loaded
Subsystems == FedByActivity \cup {"redis-queue-inspection"}

ASSUME MonitoringAssumption ==
    /\ MaxChanges \in Nat /\ MaxTroubles \in Nat
    /\ Checksums # {} /\ NoSum \notin Checksums
    /\ Foci \subseteq Subsystems \cup {"silence", "attempts", "schedule", "worker", "instance", "queue", "policy"}

RunTypes == {"RUN_STUCK", "RUN_LOST", "RUN_DUPLICATE_SUSPECTED"}
Types == RunTypes \cup {"SCHEDULE_MISSED"}
Lives == {"first", "second"}                       \* two lives of one worker id
Names == {"worker", "queue", "consumers"} \cup Lives \cup Subsystems
Unseen == "unseen"
PolicyFile == [sum : Checksums, readable : BOOLEAN, valid : BOOLEAN]

VARIABLES
    focus,
    run, quiet, beat, attempts,   \* a run: status, age of its newest progress event, age of its worker's heartbeat, active attempts
    enabled, late,                \* a schedule, and how long it is overdue
    proc, rows, pending,          \* the lives of a worker, their rows, writes of a shutdown still under way
    fresh, busy,                  \* ages of the subsystems' newest observations; work in flight
    stream,                       \* the task stream: whether it is backed up and has consumers
    file, policy, reload,         \* the policy file, LoadedPolicy, what each request loaded
    annotations,                  \* unresolved annotations, by type
    alerted, counted,             \* run annotations with an open alert; the counts of the run's projection
    stage, point, left, seen, failed, sample,
    last, drift,                  \* memory: the last verdicts, lastReportedDrift
    told, driftTold,              \* the events logged: the last verdict announced, the last checksum,
    driftEvents, pairs, lostSaid, \* drift announcements, missed less recovered, run.lost since the run's own progress
    changes, troubles

runState == <<run, quiet, beat, attempts>>
scheduleState == <<enabled, late>>
componentState == <<proc, rows, pending>>
subsystemState == <<fresh, busy>>
policyState == <<file, policy, reload>>
world == <<runState, scheduleState, componentState, subsystemState, stream, policyState>>
sweep == <<stage, point, left, seen, failed, sample>>
memory == <<last, drift>>
heard == <<told, driftTold, driftEvents, pairs, lostSaid>>
store == <<annotations, alerted, counted>>
vars == <<focus, world, sweep, memory, heard, store, changes, troubles>>

(* The stages of StartMonitoringSweep, in order: the seven checks, the       *)
(* sample of how many of them failed, the four resolvers, the counts and     *)
(* the policy file; and the parts of the world each looks at.                *)
Runs == {"silence", "attempts"}
Stages == << <<"detect", "RUN_STUCK", {"silence"}>>, <<"detect", "RUN_LOST", {"silence"}>>,
             <<"detect", "RUN_DUPLICATE_SUSPECTED", {"attempts"}>>, <<"detect", "SCHEDULE_MISSED", {"schedule"}>>,
             <<"observe", "worker", {"worker"}>>, <<"observe", "instances", {"instance"}>>,
             <<"observe", "subsystems", Subsystems>>,
             <<"sample", "", {"schedule", "queue"}>>,
             <<"resolve", "RUN_STUCK", {"silence"}>>, <<"resolve", "RUN_LOST", {"silence"}>>,
             <<"resolve", "RUN_DUPLICATE_SUSPECTED", {"attempts"}>>, <<"resolve", "SCHEDULE_MISSED", {"schedule"}>>,
             <<"count", "", {"attempts"}>>, <<"drift", "", {"policy"}>> >>
TotalChecks == 7

(* The next stage.  One about another part of the world would find nothing,   *)
(* and is passed over; so are the counts of a run whose silence is watched:   *)
(* they are followed where its attempts are.                                *)
Meets == {k \in DOMAIN Stages : focus \in Stages[k][3]}
Least(S) == CHOOSE k \in S : \A j \in S : k <= j

NoRow == [seen |-> Never, stopped |-> Never, draining |-> Never]
NothingSeen == [x \in Names |-> Unseen]

TypeOK ==
    /\ focus \in Foci
    /\ run \in {"Running", "Ended"} /\ quiet \in Ages /\ beat \in Ages \cup {Never} /\ attempts \in 0 .. 2
    /\ enabled \in BOOLEAN /\ late \in Ages
    /\ proc \in [Lives -> {"off", "up", "leaving", "gone"}] /\ rows \in [Lives -> Instance]
    /\ pending \subseteq Lives \X {"heartbeat", "draining"}
    /\ fresh \in [Subsystems -> Ages] /\ busy \in BOOLEAN
    /\ stream \in [backlog : BOOLEAN, consumers : BOOLEAN]
    /\ file \in PolicyFile /\ policy \in Checksums /\ reload \in [Requests -> Checksums \cup {NoSum}]
    /\ annotations \in [Types -> Nat] /\ alerted \subseteq RunTypes
    /\ counted \in [annotations : Nat, alerts : Nat]
    /\ stage \in DOMAIN Stages /\ left \in Nat /\ failed \in 0 .. TotalChecks
    /\ point \in {"begin", "lookup", "create", "each", "announce"}
    /\ sample \in {"none", "COMPLETE", "PARTIAL", "DEGRADED"}
    /\ DOMAIN seen = Names /\ DOMAIN last = Names /\ DOMAIN told = Names
    /\ drift \in Checksums \cup {NoSum} /\ driftTold \in Checksums \cup {NoSum}
    /\ driftEvents \in Nat /\ pairs \in Int /\ lostSaid \in 0 .. 2
    /\ changes \in 0 .. MaxChanges /\ troubles \in 0 .. MaxTroubles

Init ==
    /\ focus \in Foci
    /\ run = (IF focus \in Runs THEN "Running" ELSE "Ended") /\ quiet = 0
    /\ beat \in (IF focus = "silence" THEN {0, Never} ELSE {0})
    /\ attempts = (IF focus \in Runs THEN 1 ELSE 0)
    /\ enabled = (focus = "schedule") /\ late = 0
    /\ proc = [i \in Lives |-> "off"] /\ rows = [i \in Lives |-> NoRow] /\ pending = {}
    /\ fresh = [x \in Subsystems |-> 0] /\ busy = FALSE
    /\ stream = [backlog |-> FALSE, consumers |-> TRUE]
    /\ policy = (CHOOSE c \in Checksums : TRUE) /\ file = [sum |-> policy, readable |-> TRUE, valid |-> TRUE]
    /\ reload = [r \in Requests |-> NoSum]
    /\ annotations = [t \in Types |-> 0] /\ alerted = {} /\ counted = [annotations |-> 0, alerts |-> 0]
    /\ stage = Least(Meets) /\ point = "begin" /\ left = 0 /\ seen = NothingSeen /\ failed = 0 /\ sample = "none"
    /\ last = NothingSeen /\ drift = NoSum
    /\ told = NothingSeen /\ driftTold = NoSum /\ driftEvents = 0 /\ pairs = 0 /\ lostSaid = 0
    /\ changes = 0 /\ troubles = 0

-----------------------------------------------------------------------------
In(kind, p) == Stages[stage][1] = kind /\ point = p
Subject == Stages[stage][2]
Goto(p) == point' = p /\ UNCHANGED stage

Advance ==
    /\ stage' = IF \E k \in Meets : k > stage THEN Least({k \in Meets : k > stage}) ELSE Least(Meets)
    /\ point' = "begin"

(* A sweep counts its failed checks from none. *)
FailedSoFar == IF stage = Least(Meets) THEN 0 ELSE failed

Db(ok) == IF ok THEN UNCHANGED troubles ELSE troubles < MaxTroubles /\ troubles' = troubles + 1

-----------------------------------------------------------------------------
(* The checks that annotate: checkStuckTasks, checkLostTasks,                *)
(* checkDuplicateExecution, checkScheduleDrift.                             *)

Silent == run = "Running" /\ quiet > SilentAfter
LostNeedsHeartbeat(type) ==                                                  \* mutant
    CASE type = "RUN_STUCK"               -> Silent /\ beat # Never /\ beat < OfflineAfter
      [] type = "RUN_LOST"                -> Silent /\ beat # Never /\ beat > FreshWindow
      [] type = "RUN_DUPLICATE_SUSPECTED" -> attempts > 1
      [] OTHER                            -> enabled /\ late > OfflineAfter
Fires(type) ==
    CASE type = "RUN_STUCK"               -> Silent /\ beat # Never /\ beat < OfflineAfter
      [] type = "RUN_LOST"                -> Silent /\ (beat = Never \/ beat > FreshWindow)
      [] type = "RUN_DUPLICATE_SUSPECTED" -> attempts > 1
      [] OTHER                            -> enabled /\ late > OfflineAfter

(* A check whose query fails counts as failed; a run whose evidence cannot   *)
(* be read is passed over.                                                  *)
Detect ==
    /\ In("detect", "begin")
    /\ \E listed, read \in BOOLEAN :
         /\ Db(listed /\ read)
         /\ failed' = IF listed THEN FailedSoFar ELSE FailedSoFar + 1
         /\ IF listed /\ read /\ Fires(Subject) THEN Goto("lookup") ELSE Advance
    /\ UNCHANGED <<focus, world, left, seen, sample, memory, heard, store, changes>>

(* Any error of the look-up counts as "none yet"; one found ends the check.  *)
AnnouncesAgain == IF Subject = "SCHEDULE_MISSED" THEN Goto("announce") ELSE Advance   \* mutant
AfterFound == Advance
Lookup ==
    /\ In("detect", "lookup")
    /\ \E ok \in BOOLEAN :
         /\ Db(ok)
         /\ IF ok /\ annotations[Subject] > 0 THEN AfterFound ELSE Goto("create")
    /\ UNCHANGED <<focus, world, left, seen, failed, sample, memory, heard, store, changes>>

Create ==
    /\ In("detect", "create")
    /\ \E ok \in BOOLEAN :
         /\ Db(ok)
         /\ annotations' = IF ok THEN [annotations EXCEPT ![Subject] = @ + 1] ELSE annotations
         /\ IF ok /\ Subject \in {"RUN_LOST", "SCHEDULE_MISSED"} THEN Goto("announce") ELSE Advance
    /\ UNCHANGED <<focus, world, left, seen, failed, sample, memory, heard, alerted, counted, changes>>

(* run.lost is an event of the run like any other: its newest one from now.  *)
AnnounceDetected ==
    /\ In("detect", "announce")
    /\ \E ok \in BOOLEAN :
         /\ Db(ok)
         /\ IF ok /\ Subject = "RUN_LOST"
            THEN quiet' = 0 /\ lostSaid' = (IF lostSaid < 2 THEN lostSaid + 1 ELSE 2)
            ELSE UNCHANGED <<quiet, lostSaid>>
         /\ pairs' = IF ok /\ Subject = "SCHEDULE_MISSED" THEN pairs + 1 ELSE pairs
    /\ Advance
    /\ UNCHANGED <<focus, run, beat, attempts, scheduleState, componentState, subsystemState, stream, policyState,
                   left, seen, failed, sample, memory, told, driftTold, driftEvents, store, changes>>

-----------------------------------------------------------------------------
(* The checks that compare with memory: checkWorkerStatusTransitions,        *)
(* checkComponentInstanceTransitions, checkMonitoringHealthTransitions, and  *)
(* the queue sampler.                                                       *)

(* newestHeartbeatPerWorker: the life whose heartbeat is the newest. *)
Beating == {i \in Lives : rows[i].seen # Never}
Newest == CHOOSE i \in Beating : \A j \in Beating : rows[i].seen < rows[j].seen \/ (rows[i].seen = rows[j].seen /\ (i = "second" \/ j = i))

(* A failed read of the stopped or the draining rows finds none. *)
WorkerStatus(stoppedRead, drainingRead) ==
    LET r == rows[Newest] IN
    CASE stoppedRead /\ r.stopped # Never -> "stopped"
      [] drainingRead /\ r.draining # Never /\ r.draining < OfflineAfter /\ r.stopped = Never -> "draining"
      [] OTHER -> workerStatusFor(r.seen)

Verdict(x, wasBusy) == adjustVerdictForIdle(x, subsystemVerdict(fresh[x]), wasBusy)

(* What the check reads at once: the verdicts on the worker, or on every      *)
(* instance; for the subsystems, each of which is read in its turn, whether   *)
(* work is in flight.                                                       *)
ReadStatuses ==
    /\ In("observe", "begin")
    /\ \E listed, first, second \in BOOLEAN :
         /\ Cardinality({b \in {<<1, listed>>, <<2, first>>, <<3, second>>} : ~b[2]}) <= 1
         /\ listed \/ Subject # "subsystems"
         /\ Db(listed /\ first /\ second)
         /\ failed' = IF listed THEN FailedSoFar ELSE FailedSoFar + 1
         /\ seen' = IF ~listed THEN NothingSeen ELSE
                    [x \in Names |->
                       CASE Subject = "worker" /\ x = "worker" /\ Beating # {} -> WorkerStatus(first, second)
                         [] Subject = "instances" /\ x \in Lives /\ proc[x] # "off" -> ComponentStatus(rows[x])
                         [] Subject = "subsystems" /\ x = focus -> (IF busy \/ ~first THEN "busy" ELSE "idle")
                         [] OTHER -> Unseen]
         /\ IF listed THEN Goto("each") ELSE Advance
    /\ UNCHANGED <<focus, world, left, sample, memory, heard, store, changes>>

(* A verdict differs from the last one; a first sight is no change. *)
WorseOnly(old, new) == old # Unseen /\ old # new /\ new \notin {"online", "HEALTHY", "available", "healthy", "some"}   \* mutant
Changed(old, new) == old # Unseen /\ old # new

(* The announcement of x, whose last verdict in memory was old.  A first     *)
(* sight is none; what a reader goes by then is what he finds.               *)
Heard(x, old, new, ok) ==
    CASE Changed(old, new) /\ ok -> new
      [] told[x] = Unseen        -> new
      [] OTHER                   -> told[x]

CompareStatus ==
    /\ In("observe", "each")
    /\ \E x \in {y \in Names : seen[y] # Unseen}, read, ok \in BOOLEAN :
         LET new == IF x \in Subsystems THEN (IF read THEN Verdict(x, seen[x] = "busy") ELSE "unavailable") ELSE seen[x]
         IN  /\ read \/ (ok /\ x \in Subsystems)
             /\ ok \/ Changed(last[x], new)
             /\ Db(ok /\ read)
             /\ last' = [last EXCEPT ![x] = new]
             /\ told' = [told EXCEPT ![x] = Heard(x, last[x], new, ok)]
             /\ fresh' = IF Changed(last[x], new) /\ ok /\ focus = "event-ingestion"
                         THEN [fresh EXCEPT !["event-ingestion"] = 0] ELSE fresh
             /\ seen' = [seen EXCEPT ![x] = Unseen]
    /\ UNCHANGED <<focus, runState, scheduleState, componentState, busy, stream, policyState, stage, point, left, failed,
                   sample, drift, driftTold, driftEvents, pairs, lostSaid, store, changes>>

ObserveDone ==
    /\ In("observe", "each") /\ seen = NothingSeen
    /\ Advance
    /\ UNCHANGED <<focus, world, left, seen, failed, sample, memory, heard, store, changes, troubles>>

(* queueStatusFor and whether anyone consumes. *)
StreamStatus == [queue |-> IF stream.backlog THEN "degraded" ELSE "healthy",
                 consumers |-> IF stream.consumers THEN "some" ELSE "none"]

(* StartQueueHealth: a sample that cannot be taken or written is skipped. *)
SampleQueue ==
    /\ focus = "queue"
    /\ \E queueOk, consumersOk \in BOOLEAN :
         /\ queueOk \/ consumersOk
         /\ Db(queueOk /\ consumersOk)
         /\ last' = [last EXCEPT !["queue"] = StreamStatus["queue"], !["consumers"] = StreamStatus["consumers"]]
         /\ told' = [told EXCEPT !["queue"] = Heard("queue", last["queue"], StreamStatus["queue"], queueOk),
                                 !["consumers"] = Heard("consumers", last["consumers"], StreamStatus["consumers"], consumersOk)]
    /\ UNCHANGED <<focus, world, sweep, drift, driftTold, driftEvents, pairs, lostSaid, store, changes>>

-----------------------------------------------------------------------------
(* The sample of the sweep's own health *)
SampleStatus(n) ==
    IF n = 0 THEN "COMPLETE" ELSE IF n = TotalChecks THEN "UNKNOWN" ELSE IF n < TotalChecks \div 2 THEN "PARTIAL" ELSE "DEGRADED"

WriteSample ==
    /\ In("sample", "begin")
    /\ \E ok \in BOOLEAN : Db(ok) /\ sample' = IF ok THEN SampleStatus(FailedSoFar) ELSE sample
    /\ Advance
    /\ UNCHANGED <<focus, world, left, seen, failed, memory, heard, store, changes>>

-----------------------------------------------------------------------------
(* resolveClearedAnnotations, resolveDuplicateExecutionAnnotations,          *)
(* resolveScheduleDriftAnnotations                                          *)

ListUnresolved ==
    /\ In("resolve", "begin")
    /\ \E ok \in BOOLEAN :
         /\ Db(ok)
         /\ left' = IF ok THEN annotations[Subject] ELSE 0
    /\ Goto("each")
    /\ UNCHANGED <<focus, world, seen, failed, sample, memory, heard, store, changes>>

(* What the resolver concludes from what it read.  A count that cannot be    *)
(* read is 0, a schedule that cannot be read has the zero time as its next.  *)
NeedsNewEvents(type, read) ==                                                \* mutant: an ended run is not looked at
    CASE type \in {"RUN_STUCK", "RUN_LOST"} -> read /\ quiet < SilentAfter
      [] type = "RUN_DUPLICATE_SUSPECTED"   -> ~read \/ attempts <= 1
      [] OTHER                              -> read /\ late < OfflineAfter
Clear(type, read) ==
    CASE type \in {"RUN_STUCK", "RUN_LOST"} -> read /\ (run = "Ended" \/ quiet < SilentAfter)
      [] type = "RUN_DUPLICATE_SUSPECTED"   -> ~read \/ attempts <= 1
      [] OTHER                              -> read /\ late < OfflineAfter

Resolve ==
    /\ In("resolve", "each") /\ left > 0
    /\ \E read, saved \in BOOLEAN :
         /\ read \/ saved
         /\ Clear(Subject, read) \/ saved
         /\ Db(read /\ saved)
         /\ annotations' = IF Clear(Subject, read) /\ saved THEN [annotations EXCEPT ![Subject] = @ - 1] ELSE annotations
         /\ IF Clear(Subject, read) /\ Subject = "SCHEDULE_MISSED" THEN Goto("announce") ELSE UNCHANGED <<stage, point>>
    /\ left' = left - 1
    /\ UNCHANGED <<focus, world, seen, failed, sample, memory, heard, alerted, counted, changes>>

AnnounceRecovered ==
    /\ In("resolve", "announce")
    /\ \E ok \in BOOLEAN : Db(ok) /\ pairs' = IF ok THEN pairs - 1 ELSE pairs
    /\ Goto("each")
    /\ UNCHANGED <<focus, world, left, seen, failed, sample, memory, told, driftTold, driftEvents, lostSaid, store, changes>>

ResolveDone ==
    /\ In("resolve", "each") /\ left = 0
    /\ Advance
    /\ UNCHANGED <<focus, world, left, seen, failed, sample, memory, heard, store, changes, troubles>>

(* RefreshRunProjectionCounts: four statements, the first that fails ends it.*)
ActiveOf(open) == open["RUN_STUCK"] + open["RUN_LOST"] + open["RUN_DUPLICATE_SUSPECTED"]
RefreshCounts ==
    /\ In("count", "begin")
    /\ \E done \in 0 .. 4 :
         LET active == ActiveOf(annotations)
             alerts == Cardinality(alerted)
         IN  /\ Db(done = 4)
             /\ counted' = [annotations |-> IF done >= (IF active > 0 THEN 1 ELSE 2) THEN active ELSE counted.annotations,
                            alerts |-> IF done >= (IF alerts > 0 THEN 3 ELSE 4) THEN alerts ELSE counted.alerts]
    /\ Advance
    /\ UNCHANGED <<focus, world, left, seen, failed, sample, memory, heard, annotations, alerted, changes>>

-----------------------------------------------------------------------------
(* checkPolicyDrift *)
Drifted == file.readable /\ file.sum # policy

Reports == Drifted /\ file.sum # drift

CheckDrift ==
    /\ In("drift", "begin")
    /\ drift' = IF Drifted THEN file.sum ELSE NoSum
    /\ \E ok \in BOOLEAN :
         /\ ok \/ Reports
         /\ Db(ok)
         /\ driftTold' = IF Reports /\ ok THEN file.sum ELSE driftTold
         /\ driftEvents' = IF Reports /\ ok THEN driftEvents + 1 ELSE driftEvents
    /\ Advance
    /\ UNCHANGED <<focus, world, left, seen, failed, sample, last, told, pairs, lostSaid, store, changes>>

-----------------------------------------------------------------------------
(* The world: a run and its worker, and alerting, which logs its events      *)
(* under the run's id.                                                      *)
Changing(parts) == focus \in parts /\ changes < MaxChanges /\ changes' = changes + 1
besidesRun == <<scheduleState, componentState, subsystemState, stream, policyState>>

Progress ==
    /\ Changing({"silence"}) /\ run = "Running"
    /\ quiet' = 0 /\ lostSaid' = 0
    /\ UNCHANGED <<focus, run, beat, attempts, besidesRun, sweep, memory, told, driftTold, driftEvents, pairs, store, troubles>>

EndRun ==
    /\ run = "Running" /\ run' = "Ended" /\ quiet' = 0
    /\ UNCHANGED <<focus, beat, attempts, besidesRun, sweep, memory, heard, store, changes, troubles>>

AttemptsChange ==
    /\ Changing({"attempts"}) /\ \E n \in 0 .. 2 : n # attempts /\ attempts' = n
    /\ UNCHANGED <<focus, run, quiet, beat, besidesRun, sweep, memory, heard, store, troubles>>

RunHeartbeat ==
    /\ focus = "silence" /\ beat # 0 /\ beat' = 0
    /\ UNCHANGED <<focus, run, quiet, attempts, besidesRun, sweep, memory, heard, store, changes, troubles>>

OpenAlert(type) ==
    /\ annotations[type] > 0 /\ type \notin alerted
    /\ alerted' = alerted \cup {type} /\ quiet' = 0
    /\ UNCHANGED <<focus, run, beat, attempts, besidesRun, sweep, memory, heard, annotations, counted, changes, troubles>>

ResolveAlert(type) ==
    /\ annotations[type] = 0 /\ type \in alerted
    /\ alerted' = alerted \ {type} /\ quiet' = 0
    /\ UNCHANGED <<focus, run, beat, attempts, besidesRun, sweep, memory, heard, annotations, counted, changes, troubles>>

-----------------------------------------------------------------------------
(* A schedule fires, which moves its next run, or is enabled or disabled. *)
Fire ==
    /\ focus = "schedule" /\ enabled /\ late # 0 /\ late' = 0
    /\ UNCHANGED <<focus, runState, enabled, componentState, subsystemState, stream, policyState, sweep, memory, heard, store, changes, troubles>>

Toggle ==
    /\ Changing({"schedule"}) /\ enabled' = ~enabled
    /\ UNCHANGED <<focus, runState, late, componentState, subsystemState, stream, policyState, sweep, memory, heard, store, troubles>>

-----------------------------------------------------------------------------
(* A component registers, heartbeats, shuts down in order or dies.  At the    *)
(* signal a heartbeat may still be on its way, and a goroutine of its own     *)
(* records that it drains, before or after the stop is recorded.             *)
besidesComponent == <<runState, scheduleState, subsystemState, stream, policyState, sweep, memory, heard, store>>

CreateComponent(i) ==
    /\ focus \in {"worker", "instance"} /\ proc[i] = "off"
    /\ i = "second" => focus = "worker" /\ proc["first"] = "gone"
    /\ proc' = [proc EXCEPT ![i] = "up"]
    /\ UNCHANGED <<focus, rows, pending, besidesComponent, changes, troubles>>

Heartbeat(i) ==
    /\ proc[i] = "up" \/ <<i, "heartbeat">> \in pending
    /\ rows' = [rows EXCEPT ![i].seen = 0] /\ pending' = pending \ {<<i, "heartbeat">>}
    /\ UNCHANGED <<focus, proc, besidesComponent, changes, troubles>>

Shutdown(i) ==
    /\ proc[i] = "up" /\ i = "first"                \* bound: the second life is not shut down
    /\ proc' = [proc EXCEPT ![i] = "leaving"]
    /\ pending' = pending \cup {<<i, "heartbeat">>, <<i, "draining">>}
    /\ UNCHANGED <<focus, rows, besidesComponent, changes, troubles>>

MarkDraining(i) ==
    /\ <<i, "draining">> \in pending /\ pending' = pending \ {<<i, "draining">>}
    /\ \E ok \in BOOLEAN : Db(ok) /\ rows' = IF ok THEN [rows EXCEPT ![i].draining = 0] ELSE rows
    /\ UNCHANGED <<focus, proc, besidesComponent, changes>>

MarkStopped(i) ==
    /\ proc[i] = "leaving" /\ proc' = [proc EXCEPT ![i] = "gone"]
    /\ \E ok \in BOOLEAN : Db(ok) /\ rows' = IF ok THEN [rows EXCEPT ![i].stopped = 0] ELSE rows
    /\ UNCHANGED <<focus, pending, besidesComponent, changes>>

Die(i) ==
    /\ proc[i] \in {"up", "leaving"}
    /\ proc' = [proc EXCEPT ![i] = "gone"] /\ pending' = pending \ ({i} \X {"heartbeat", "draining"})
    /\ UNCHANGED <<focus, rows, besidesComponent, changes, troubles>>

-----------------------------------------------------------------------------
(* What feeds the subsystems, the task stream, and the policy. *)
Observed(x) ==
    /\ focus = x /\ fresh[x] # 0 /\ fresh' = [fresh EXCEPT ![x] = 0]
    /\ UNCHANGED <<focus, runState, scheduleState, componentState, busy, stream, policyState, sweep, memory, heard, store, changes, troubles>>

WorkArrivesOrEnds ==
    /\ Changing(Subsystems) /\ busy' = ~busy
    /\ UNCHANGED <<focus, runState, scheduleState, componentState, fresh, stream, policyState, sweep, memory, heard, store, troubles>>

StreamChanges ==
    /\ Changing({"queue"}) /\ \E s \in [backlog : BOOLEAN, consumers : BOOLEAN] : s # stream /\ stream' = s
    /\ UNCHANGED <<focus, runState, scheduleState, componentState, subsystemState, policyState, sweep, memory, heard, store, troubles>>

besidesPolicy == <<runState, scheduleState, componentState, subsystemState, stream, sweep, memory, heard, store>>

EditFile ==
    /\ Changing({"policy"}) /\ \E f \in PolicyFile : f # file /\ file' = f
    /\ UNCHANGED <<focus, policy, reload, besidesPolicy, troubles>>

(* ActivatePolicyAs: a file that cannot be read, or whose checksum or rules    *)
(* are wrong, is refused; otherwise the activation is recorded and the policy *)
(* stored.                                                                  *)
LoadPolicy(r) ==
    /\ Changing({"policy"}) /\ reload[r] = NoSum
    /\ reload' = [reload EXCEPT ![r] = IF file.readable /\ file.valid THEN file.sum ELSE NoSum]
    /\ UNCHANGED <<focus, file, policy, besidesPolicy, troubles>>

StorePolicy(r) ==
    /\ reload[r] # NoSum
    /\ policy' = reload[r] /\ reload' = [reload EXCEPT ![r] = NoSum]
    /\ UNCHANGED <<focus, file, besidesPolicy, changes, troubles>>

-----------------------------------------------------------------------------
(* A step of the clock: what the focus looks at is one step older. *)
Tick ==
    /\ quiet' = IF focus = "silence" THEN Older(quiet, SilentAfter) ELSE quiet
    /\ beat' = IF focus = "silence" THEN Older(beat, OfflineAfter) ELSE beat
    /\ late' = IF focus = "schedule" THEN Older(late, OfflineAfter) ELSE late
    /\ rows' = [i \in Lives |-> [seen |-> Older(rows[i].seen, OfflineAfter), stopped |-> Older(rows[i].stopped, OfflineAfter),
                                 draining |-> Older(rows[i].draining, OfflineAfter - 1)]]
    /\ pending' = pending \ (Lives \X {"heartbeat"})
    /\ fresh' = [x \in Subsystems |-> IF focus = x THEN Older(fresh[x], SubsystemAfter) ELSE fresh[x]]
    /\ UNCHANGED <<focus, run, attempts, enabled, proc, busy, stream, policyState, sweep, memory, heard, store, changes, troubles>>

(* The process ends and starts again: its memory is empty, the sweep begins   *)
(* anew and the policy is the one it activates from the file.                *)
Restart ==
    /\ troubles < MaxTroubles /\ troubles' = troubles + 1
    /\ file.readable /\ file.valid /\ policy' = file.sum /\ reload' = [r \in Requests |-> NoSum]
    /\ stage' = Least(Meets) /\ point' = "begin" /\ left' = 0 /\ seen' = NothingSeen /\ failed' = 0
    /\ last' = NothingSeen /\ drift' = NoSum
    /\ UNCHANGED <<focus, runState, scheduleState, componentState, subsystemState, stream, file, sample, heard, store, changes>>

-----------------------------------------------------------------------------
Sweep ==
    \/ Detect \/ Lookup \/ Create \/ AnnounceDetected
    \/ ReadStatuses \/ CompareStatus \/ ObserveDone \/ WriteSample
    \/ ListUnresolved \/ Resolve \/ AnnounceRecovered \/ ResolveDone
    \/ RefreshCounts \/ CheckDrift
Components == \E i \in Lives :
    CreateComponent(i) \/ Heartbeat(i) \/ Shutdown(i) \/ MarkDraining(i) \/ MarkStopped(i) \/ Die(i)
World ==
    \/ Progress \/ EndRun \/ AttemptsChange \/ RunHeartbeat \/ Fire \/ Toggle \/ Components
    \/ (\E x \in Subsystems : Observed(x)) \/ WorkArrivesOrEnds \/ StreamChanges \/ EditFile
    \/ (\E r \in Requests : LoadPolicy(r) \/ StorePolicy(r))
Alerting == \E type \in RunTypes : OpenAlert(type) \/ ResolveAlert(type)
Next == Sweep \/ SampleQueue \/ World \/ Alerting \/ Tick \/ Restart

Spec == Init /\ [][Next]_vars
FairSpec ==
    /\ Spec /\ WF_vars(Sweep) /\ WF_vars(SampleQueue) /\ WF_vars(Tick)
    /\ \A type \in RunTypes : WF_vars(ResolveAlert(type))

-----------------------------------------------------------------------------
(* A cause has one unresolved annotation of a type; only a look-up that      *)
(* failed adds another (lines 200-226 of monitoring.go and their likes).      *)
OneOpenEach == \A t \in Types : annotations[t] <= 1 + troubles

(* The worker's status and the verdict on the instance that sent its newest   *)
(* heartbeat say the same at every moment (component_instance.go:73: "a       *)
(* worker can never be healthy in one view and offline in another"), and a    *)
(* subsystem the sweep calls degraded is not healthy in the component report. *)
SameVerdict == [online |-> "HEALTHY", degraded |-> "DEGRADED", offline |-> "OFFLINE", stopped |-> "OFFLINE", draining |-> "DRAINING"]
ViewsAgree ==
    /\ Beating # {} => ComponentStatus(rows[Newest]) = SameVerdict[WorkerStatus(TRUE, TRUE)]
    /\ \A x \in FedByActivity : Verdict(x, busy) = "degraded" => activityVerdict(fresh[x], busy) = "DEGRADED"

(* schedule.missed and schedule.recovered come in turn and tell whether the   *)
(* schedule has an unresolved annotation, up to the announcements and saves   *)
(* that failed (lines 476-481, 497-502).                                    *)
MissedThenRecovered ==
    LET gap == pairs - annotations["SCHEDULE_MISSED"]
    IN  gap \in -(troubles + IF point = "announce" THEN 1 ELSE 0) .. (troubles + IF point = "announce" THEN 1 ELSE 0)

(* A file that stays edited is announced once: drift is announced no more     *)
(* often than the file or the active policy changed, or the process began     *)
(* anew (policy_drift.go:18-20).                                            *)
DriftSaidOnce == driftEvents <= changes + troubles

(* A run that makes no progress of its own and does not end is annotated      *)
(* again and again, whether its worker goes on heartbeating or is gone for    *)
(* good: the events that monitoring and alerting log under its id hide it for *)
(* a while, never for ever.                                                 *)
SilentIsReported ==
    (focus = "silence" /\ (<>[](beat # Never /\ beat < OfflineAfter) \/ <>[](beat = Never \/ beat > FreshWindow)))
        => []<>(run = "Ended" \/ ActiveOf(annotations) > 0)

(* Once a run has ended, whatever a check decided about it before, it comes to *)
(* have no unresolved annotation, no open alert and counts of zero.           *)
EndedIsCleared ==
    <>[](run = "Ended" /\ attempts <= 1 =>
           ActiveOf(annotations) = 0 /\ alerted = {} /\ counted = [annotations |-> 0, alerts |-> 0])

(* A schedule that stays overdue is annotated for good, and one that keeps    *)
(* its times has no annotation in the end.                                  *)
LateIsReported ==
    /\ <>[](enabled /\ late > OfflineAfter) => <>[](annotations["SCHEDULE_MISSED"] > 0)
    /\ <>[](late < OfflineAfter) => <>[](annotations["SCHEDULE_MISSED"] = 0)

(* Once the verdict on something stays the same, the events have said so:     *)
(* without a restart, which empties the memory, or a lost statement, no       *)
(* change of status goes unannounced (monitoring.go:60-67 and its likes).     *)
View(x) ==
    CASE focus = "worker" /\ x = "worker" /\ Beating # {}            -> WorkerStatus(TRUE, TRUE)
      [] focus = "instance" /\ x \in Lives /\ proc[x] # "off"         -> ComponentStatus(rows[x])
      [] focus = x /\ x \in Subsystems                                -> Verdict(x, busy)
      [] focus = "queue" /\ x \in {"queue", "consumers"}             -> StreamStatus[x]
      [] OTHER                                                      -> Unseen
Views == [x \in Names |-> View(x)]
ChangesAreTold == <>[][Views' = Views]_vars => <>[](troubles = 0 => told = Views)

(* A policy file that stays different from the active policy has been         *)
(* announced (policy_drift.go:25-40).                                       *)
DriftIsTold == <>[](Drifted /\ troubles = 0 => driftTold = file.sum)

(* The comment at monitoring.go:312: a run that stays lost produces one event.*)
LostSaidOnce == lostSaid <= 1

(* What the sweeps write once stays single: one open annotation for a cause,   *)
(* missed and recovered in turn, a drift announced once.                      *)
SaidOnce == TypeOK /\ OneOpenEach /\ MissedThenRecovered /\ DriftSaidOnce

(* What stays wrong is reported: a silent run and an overdue schedule          *)
(* (monitoring.go:153-321, 441-505).                                         *)
WrongIsReported == SilentIsReported /\ LateIsReported

(* What changed is announced in the end: a status and a policy file            *)
(* (monitoring.go:60-67, policy_drift.go:25-40).                             *)
ChangesArrive == ChangesAreTold /\ DriftIsTold
=============================================================================
