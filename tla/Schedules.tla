----------------------------- MODULE Schedules -----------------------------
(***************************************************************************)
(* A recurring schedule (worker/scheduler.go: fireRecurringSchedules,       *)
(* fireSchedule; worker/schedule_watch.go: the skipped occurrences), the     *)
(* runs it creates, and the ledger of its occurrences                       *)
(* (events/schedule_projection.go).  Several scheduler processes poll the   *)
(* same definition; the API may switch it on and off.                       *)
(*                                                                         *)
(* Time is in poll-sized units; an occurrence is named by the time it was    *)
(* expected, as occurrenceID does.                                          *)
(***************************************************************************)
EXTENDS Naturals

CONSTANTS
    Instances,     \* scheduler processes
    Interval,      \* IntervalSeconds
    FirstRun,      \* the definition's first next_run_at
    MaxNow,        \* bound: the clock
    MaxSkipped,    \* maxSkippedEvents
    MaxToggles,    \* bound: calls of ToggleSchedule
    MaxCrashes,    \* bound: scheduler crashes
    MaxFaults      \* bound: database errors of a claim or of a run's insert

ASSUME ScheduleAssumption ==
    /\ Interval \in Nat \ {0} /\ FirstRun \in Nat /\ MaxNow \in Nat
    /\ {MaxSkipped, MaxToggles, MaxCrashes, MaxFaults} \subseteq Nat

Occurrences == 0 .. MaxNow + Interval + FirstRun
Outcomes == {"none", "DUE", "CREATED", "SKIPPED"}
Points == {"idle", "claim", "due", "create", "created", "skip", "down"}

VARIABLES
    def,       \* the ScheduleDefinition row: next_run_at, enabled
    now,
    runs,      \* occurrence -> Task rows created for it
    ledger,    \* occurrence -> outcome in its ScheduleOccurrence row
    announced, \* occurrence -> schedule.occurrence_due events
    pc,
    expected,  \* each instance's def.NextRunAt, as read by its poll
    fired,     \* the time it goes by: of its poll, then the one fireSchedule reads
    skips,     \* occurrences it has still to announce as skipped
    api,       \* the row ToggleSchedule has read and not yet saved
    toggles, crashes, faults

vars == <<def, now, runs, ledger, announced, pc, expected, fired, skips, api, toggles, crashes, faults>>
counters == <<toggles, crashes, faults>>
locals == <<expected, fired, skips>>
Goto(i, point) == pc' = [pc EXCEPT ![i] = point]

-----------------------------------------------------------------------------
(* ReduceOccurrence: an outcome only leaves "none" and DUE. *)
Overwrite(cur, outcome) == outcome                         \* mutant: the last event wins
Reduced(cur, outcome) ==
    IF cur = "none" \/ (cur = "DUE" /\ outcome # "DUE") THEN outcome ELSE cur

Record(o, outcome) == ledger' = [ledger EXCEPT ![o] = Reduced(@, outcome)]

(* skippedCount: the occurrences that came due after the one that fires. *)
skippedInclusive(e, at) == (at - e) \div Interval + 1      \* mutant: counts the next one too
skippedBefore(e, at) == IF at > e THEN (at - e - 1) \div Interval ELSE 0   \* mutant: due now is not due
skippedCount(e, at) == IF at > e THEN (at - e) \div Interval ELSE 0

(* skippedOccurrences: at most MaxSkipped of them, oldest first. *)
skippedOccurrences(e, at) ==
    LET n == IF skippedCount(e, at) > MaxSkipped THEN MaxSkipped ELSE skippedCount(e, at)
    IN {e + k * Interval : k \in 1 .. n}

-----------------------------------------------------------------------------
(* fireRecurringSchedules: the poll finds the definition due. *)
Poll(i) ==
    /\ pc[i] = "idle"
    /\ def.next <= now /\ def.enabled
    /\ expected' = [expected EXCEPT ![i] = def.next]
    /\ fired' = [fired EXCEPT ![i] = now]
    /\ Goto(i, "claim")
    /\ UNCHANGED <<def, now, runs, ledger, announced, skips, api, counters>>

(* The conditional UPDATE: only the instance that still sees the next_run_at  *)
(* it read goes on.  fireSchedule read the clock some time after the poll.    *)
Unconditional(i) == TRUE                                   \* mutant: the claim is not conditional
Won(i) == def.next = expected[i]

Claim(i) ==
    /\ pc[i] = "claim" /\ Won(i)
    /\ \E at \in fired[i] .. now :
         /\ def' = [def EXCEPT !.next = at + Interval]
         /\ fired' = [fired EXCEPT ![i] = at]
    /\ Goto(i, "due")
    /\ UNCHANGED <<now, runs, ledger, announced, expected, skips, api, counters>>

(* No row matched: another instance has the occurrence. *)
ClaimLost(i) ==
    /\ pc[i] = "claim" /\ ~Won(i)
    /\ Goto(i, "idle")
    /\ UNCHANGED <<def, now, runs, ledger, announced, locals, api, counters>>

(* The UPDATE failed: the definition stays due for the next poll. *)
ClaimError(i) ==
    /\ pc[i] = "claim" /\ faults < MaxFaults
    /\ faults' = faults + 1
    /\ Goto(i, "idle")
    /\ UNCHANGED <<def, now, runs, ledger, announced, locals, api, toggles, crashes>>

AnnounceDue(i) ==
    /\ pc[i] = "due"
    /\ announced' = [announced EXCEPT ![expected[i]] = @ + 1]
    /\ Record(expected[i], "DUE")
    /\ Goto(i, "create")
    /\ UNCHANGED <<def, now, runs, locals, api, counters>>

(* CreateTask_Direct: the insert's error is ignored. *)
InsertFirst(i) == runs' = IF \E o \in Occurrences : runs[o] > 0 THEN runs   \* mutant: one run a schedule
                          ELSE [runs EXCEPT ![expected[i]] = @ + 1]
Insert(i) == runs' = [runs EXCEPT ![expected[i]] = @ + 1]

CreateRun(i) ==
    /\ pc[i] = "create"
    /\ \/ Insert(i) /\ UNCHANGED faults
       \/ faults < MaxFaults /\ faults' = faults + 1 /\ UNCHANGED runs
    /\ Goto(i, "created")
    /\ UNCHANGED <<def, now, ledger, announced, locals, api, toggles, crashes>>

(* schedule.occurrence_run_created, because the returned task has an id. *)
AnnounceCreated(i) ==
    /\ pc[i] = "created"
    /\ Record(expected[i], "CREATED")
    /\ skips' = [skips EXCEPT ![i] = skippedOccurrences(expected[i], fired[i])]
    /\ Goto(i, "skip")
    /\ UNCHANGED <<def, now, runs, announced, expected, fired, api, counters>>

AnnounceSkipped(i) ==
    /\ pc[i] = "skip" /\ skips[i] # {}
    /\ \E o \in skips[i] :
         /\ \A other \in skips[i] : o <= other
         /\ Record(o, "SKIPPED")
         /\ skips' = [skips EXCEPT ![i] = @ \ {o}]
    /\ UNCHANGED <<def, now, runs, announced, pc, expected, fired, api, counters>>

EndFire(i) ==
    /\ pc[i] = "skip" /\ skips[i] = {}
    /\ Goto(i, "idle")
    /\ UNCHANGED <<def, now, runs, ledger, announced, locals, api, counters>>

Crash(i) ==
    /\ pc[i] # "down" /\ crashes < MaxCrashes
    /\ crashes' = crashes + 1
    /\ Goto(i, "down")
    /\ skips' = [skips EXCEPT ![i] = {}]
    /\ UNCHANGED <<def, now, runs, ledger, announced, expected, fired, api, toggles, faults>>

Restart(i) ==
    /\ pc[i] = "down" /\ Goto(i, "idle")
    /\ UNCHANGED <<def, now, runs, ledger, announced, locals, api, counters>>

Scheduler(i) ==
    \/ Poll(i) \/ Claim(i) \/ ClaimLost(i) \/ ClaimError(i) \/ AnnounceDue(i) \/ CreateRun(i)
    \/ AnnounceCreated(i) \/ AnnounceSkipped(i) \/ EndFire(i)

-----------------------------------------------------------------------------
(* attempt.started of a run's first attempt reaches the ledger from a worker. *)
StartAttempt(o) ==
    /\ runs[o] > 0
    /\ Record(o, "CREATED")
    /\ UNCHANGED <<def, now, runs, announced, pc, locals, api, counters>>

(* ToggleSchedule reads the row and saves the WHOLE row back. *)
ReadDefinition ==
    /\ api = {} /\ toggles < MaxToggles
    /\ api' = {def} /\ toggles' = toggles + 1
    /\ UNCHANGED <<def, now, runs, ledger, announced, pc, locals, crashes, faults>>

ToggleSchedule ==
    /\ \E d \in api, on \in BOOLEAN : def' = [d EXCEPT !.enabled = on]
    /\ api' = {}
    /\ UNCHANGED <<now, runs, ledger, announced, pc, locals, counters>>

Tick ==
    /\ now < MaxNow /\ now' = now + 1
    /\ UNCHANGED <<def, runs, ledger, announced, pc, locals, api, counters>>

-----------------------------------------------------------------------------
Init ==
    /\ def = [next |-> FirstRun, enabled |-> TRUE] /\ now = 0
    /\ runs = [o \in Occurrences |-> 0] /\ announced = [o \in Occurrences |-> 0]
    /\ ledger = [o \in Occurrences |-> "none"]
    /\ pc = [i \in Instances |-> "idle"] /\ expected = [i \in Instances |-> 0]
    /\ fired = [i \in Instances |-> 0] /\ skips = [i \in Instances |-> {}]
    /\ api = {} /\ toggles = 0 /\ crashes = 0 /\ faults = 0

Next ==
    \/ \E i \in Instances : Scheduler(i) \/ Crash(i) \/ Restart(i)
    \/ \E o \in Occurrences : StartAttempt(o)
    \/ ReadDefinition \/ ToggleSchedule \/ Tick

Spec == Init /\ [][Next]_vars

(* Every scheduler loop keeps running, time passes, a crashed process restarts. *)
FairSpec == Spec /\ \A i \in Instances : WF_vars(Scheduler(i)) /\ WF_vars(Restart(i))

-----------------------------------------------------------------------------
TypeOK ==
    /\ def \in [next : Occurrences, enabled : BOOLEAN] /\ now \in 0 .. MaxNow
    /\ runs \in [Occurrences -> Nat] /\ announced \in [Occurrences -> Nat]
    /\ ledger \in [Occurrences -> Outcomes]
    /\ pc \in [Instances -> Points] /\ expected \in [Instances -> Occurrences]
    /\ fired \in [Instances -> 0 .. MaxNow] /\ skips \in [Instances -> SUBSET (0 .. MaxNow)]
    /\ api \subseteq [next : Occurrences, enabled : BOOLEAN]
    /\ toggles \in Nat /\ crashes \in Nat /\ faults \in Nat

(* fireSchedule: only the instance that won the claim announces the           *)
(* occurrence, so it is announced once, however many instances poll and crash. *)
AnnouncedOnce == \A o \in Occurrences : announced[o] <= 1

(* RFC-002 section 6, "claiming BEFORE creating the task": an occurrence never *)
(* has two runs.                                                             *)
OneRunPerOccurrence == \A o \in Occurrences : runs[o] <= 1

(* An occurrence the ledger calls skipped was not run under the same name.    *)
SkippedNeverRuns == \A o \in Occurrences : ledger[o] = "SKIPPED" => runs[o] = 0

(* Two occurrences in the ledger are at least an interval apart: a late fire  *)
(* neither skips nor fires the same moment under two names.                   *)
Recorded == {o \in Occurrences : ledger[o] # "none"}
OccurrencesSpaced == \A o, p \in Recorded : o < p => p - o >= Interval

(* fireSchedule's comment: an occurrence that was passed over leaves a trace.  *)
(* Between two fires no moment is missing from the ledger unless there were    *)
(* more than maxSkippedEvents.                                                *)
NoSilentGap ==
    (\A i \in Instances : pc[i] \in {"idle", "claim"}) =>
        \A o \in Recorded :
            \/ \A p \in Recorded : p <= o
            \/ \E p \in Recorded : o < p /\ p - o < 2 * Interval
            \/ \A k \in 0 .. MaxSkipped - 1 :
                  o >= k * Interval /\ ledger[o - k * Interval] = "SKIPPED"

(* ReduceOccurrence: an outcome moves from DUE to CREATED or SKIPPED and       *)
(* never again, in whatever order the scheduler's and the workers' events      *)
(* arrive.                                                                   *)
OutcomeIsFinal ==
    [][\A o \in Occurrences : ledger[o] \in {"CREATED", "SKIPPED"} => ledger'[o] = ledger[o]]_vars

(* RFC-002 section 14 asks whether a run was created for each occurrence: the  *)
(* ledger says CREATED only where a run exists.                               *)
CreatedHasRun == \A o \in Occurrences : ledger[o] = "CREATED" => runs[o] > 0

(* A due occurrence gets its run, unless its scheduler dies first.            *)
DueIsCreated ==
    \A o \in Occurrences : (ledger[o] = "DUE") ~> (runs[o] > 0)

(* The claim of fireSchedule (scheduler.go:200): an occurrence is announced    *)
(* once and run once, whoever fires it.                                       *)
OccurrenceOnce == AnnouncedOnce /\ OneRunPerOccurrence

(* skippedOccurrences (schedule_watch.go:44) names exactly what was missed:    *)
(* nothing that is run, nothing between two occurrences.                      *)
SkipsExact == SkippedNeverRuns /\ OccurrencesSpaced

(* The ledger tells of every occurrence, up to the cap on skip events, until    *)
(* ToggleSchedule takes a copy of next_run_at that it will save back, and of a  *)
(* run only where there is one (schedule_projection.go:115).                 *)
LedgerComplete == TypeOK /\ (toggles = 0 => NoSilentGap) /\ CreatedHasRun
=============================================================================
