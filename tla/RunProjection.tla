--------------------------- MODULE RunProjection ---------------------------
(***************************************************************************)
(* One run's row, its event log and the projection derived from it          *)
(* (events/event_logger.go, events/marker_cmd.go, events/projection.go).    *)
(*                                                                         *)
(* Every mark of a run is three separate writes of one goroutine: the Save   *)
(* of the row (or of the attempt), the insert of the event, stamped with    *)
(* the writer's own clock, and the locked transaction that reduces the event *)
(* into the projection.  The API, the scheduler and two consumers write     *)
(* about the same run; any write may fail, and every error is only printed. *)
(* cmd/rebuildprojections replays the log beside them.                      *)
(***************************************************************************)
EXTENDS RunReducer, FiniteSets

CONSTANTS
    Offset,        \* writer -> how far its host's clock is ahead
    Reclaimers,    \* the consumers that took the delivery over with XAUTOCLAIM
    Outcomes,      \* the events a handler's outcome may end in
    MaxFaults,     \* bound: failed statements
    MaySkipDeath,  \* the owner of a reclaimed delivery may still be running
    MayRebuild     \* cmd/rebuildprojections is run

Consumers == {"first", "second"}      \* two consumers the run is delivered to
Writers   == {"api", "scheduler"} \cup Consumers
Producer(w) == CASE w = "api" -> 1 [] w = "second" -> 2 [] w = "scheduler" -> 3 [] OTHER -> 4
OutcomeTypes == {"task.completed", "task.failed", "task.retry_scheduled"}

ASSUME ProjectionAssumption ==
    /\ Offset \in [Writers -> Nat] /\ Reclaimers \subseteq Consumers
    /\ Outcomes \subseteq OutcomeTypes /\ MaxFaults \in Nat
    /\ MaySkipDeath \in BOOLEAN /\ MayRebuild \in BOOLEAN

Steps  == {"idle", "block", "load", "claim", "start", "handler", "done", "dead"}
Stages == {"save", "record", "project"}
NoEvent == [type |-> "attempt.claimed", at |-> 0, producer |-> 0, seq |-> 0]

VARIABLES
    row,       \* Task.Status, "None" before the row exists
    attempts,  \* rows of models.Attempt for the run
    log,       \* EventEnvelope rows of the run
    stored,    \* its RunProjection row: the reduced part and the recounted one
    applied,   \* the events of log that stored is the result of
    step,      \* where each writer stands between two marks
    stage,     \* which of the three writes of a mark comes next
    ev,        \* the event of the mark in progress
    tick,      \* the clock, and the source of sequence numbers
    want,      \* what a rebuild computed, with the events it had read
    faults

vars == <<row, attempts, log, stored, applied, step, stage, ev, tick, want, faults>>
writerVars == <<step, stage, ev>>

-----------------------------------------------------------------------------
Failure(ok) == IF ok THEN UNCHANGED faults
                     ELSE faults < MaxFaults /\ faults' = faults + 1

(* The first write of a mark: the row or attempt changes (or the Save fails,  *)
(* unnoticed), then LogEvent is called whatever happened.                     *)
Mark(w, from, type, to) ==
    /\ step[w] = from /\ stage[w] = "save"
    /\ step' = [step EXCEPT ![w] = to]
    /\ stage' = [stage EXCEPT ![w] = "record"]
    /\ ev' = [ev EXCEPT ![w] = [NoEvent EXCEPT !.type = type]]
    /\ UNCHANGED <<log, stored, applied, tick, want>>

SetRow(status) == \E ok \in BOOLEAN : Failure(ok) /\ row' = IF ok THEN status ELSE row
Silent == UNCHANGED <<row, attempts, faults>>

(* CreateTask_Direct: the new row, with the outcome of the PII scan in it. *)
CreateTask ==
    /\ row = "None"
    /\ \E status \in {"Pending", "Blocked"}, type \in {"task.created", "task.rerun_created"} :
         /\ SetRow(status)
         /\ Mark("api", "idle", type, IF status = "Blocked" THEN "block" ELSE "done")
    /\ UNCHANGED attempts

LogBlocked == Mark("api", "block", "task.blocked", "done") /\ Silent

MarkRunQueued ==
    /\ row = "Pending"
    /\ SetRow("Queued") /\ Mark("scheduler", "idle", "task.queued", "done")
    /\ UNCHANGED attempts

(* The scheduler publishes only after MarkRunQueued returned. *)
Published == step["scheduler"] = "done" /\ stage["scheduler"] = "save"

(* A consumer gets the delivery; the reclaimer records the recovery first.   *)
(* The owner is dead by then, or only looks dead.                            *)
Receive(w) ==
    /\ w \in Consumers \ Reclaimers /\ step[w] = "idle" /\ stage[w] = "save"
    /\ Published
    /\ step' = [step EXCEPT ![w] = "load"]
    /\ UNCHANGED <<row, attempts, log, stored, applied, stage, ev, tick, want, faults>>

StartRecovery(w) ==
    /\ w \in Reclaimers
    /\ \E o \in Consumers \ {w} : step[o] = "dead" \/ (MaySkipDeath /\ step[o] # "idle")
    /\ Mark(w, "idle", "task.recovery_started", "load") /\ Silent

(* ProcessTask: a terminal run is left alone, and so is one whose unfinished  *)
(* attempt was not abandoned by a recovery.                                  *)
Unfinished(w) == w \notin Reclaimers /\ \E o \in Consumers \ {w} : step[o] \in {"start", "handler", "dead"}

LoadTask(w) ==
    /\ w \in Consumers /\ step[w] = "load" /\ stage[w] = "save"
    /\ step' = [step EXCEPT ![w] = IF row \in {"Completed", "Failed"} \/ Unfinished(w)
                                   THEN "done" ELSE "claim"]
    /\ UNCHANGED <<row, attempts, log, stored, applied, stage, ev, tick, want, faults>>

MarkAttemptClaimed(w) ==
    /\ w \in Consumers
    /\ \E ok \in BOOLEAN : Failure(ok) /\ attempts' = IF ok THEN attempts + 1 ELSE attempts
    /\ Mark(w, "claim", "attempt.claimed", "start")
    /\ UNCHANGED row

MarkRunRunning(w) ==
    /\ w \in Consumers
    /\ SetRow("Running") /\ Mark(w, "start", "task.started", "handler")
    /\ UNCHANGED attempts

MarkRunFinished(w) ==
    /\ w \in Consumers
    /\ \E type \in Outcomes :
         /\ SetRow(IF type = "task.completed" THEN "Completed" ELSE "Failed")
         /\ Mark(w, "handler", type, "done")
    /\ UNCHANGED attempts

Projected(ok) == ok /\ row # "None"

(* LogEventWith: stamp, look the task up, insert.  A failed insert, or a run  *)
(* whose row does not exist, is not projected.                               *)
LogEventWith(w) ==
    /\ stage[w] = "record" /\ tick + Offset[w] < MaxTime
    /\ LET e == [type |-> ev[w].type, at |-> tick + 1 + Offset[w],
                 producer |-> Producer(w), seq |-> tick + 1]
       IN \E ok \in BOOLEAN :
            /\ Failure(ok)
            /\ log' = IF ok THEN log \cup {e} ELSE log
            /\ stage' = [stage EXCEPT ![w] = IF Projected(ok) THEN "project" ELSE "save"]
            /\ ev' = [ev EXCEPT ![w] = IF Projected(ok) THEN e ELSE NoEvent]
    /\ tick' = tick + 1
    /\ UNCHANGED <<row, attempts, stored, applied, step, want>>

(* UpdateProjection: one transaction under a row lock; the counts are         *)
(* recomputed from their table, never incremented.                           *)
StaleCount(n) == stored.attempts                           \* mutant: the count is not recomputed
Recount(n) == n

UpdateProjection(w) ==
    /\ stage[w] = "project"
    /\ \E ok \in BOOLEAN :
         /\ Failure(ok)
         /\ IF ok
            THEN /\ stored' = [run |-> ReduceRun(stored.run, ev[w]), attempts |-> Recount(attempts)]
                 /\ applied' = applied \cup {ev[w]}
            ELSE UNCHANGED <<stored, applied>>
    /\ stage' = [stage EXCEPT ![w] = "save"]
    /\ ev' = [ev EXCEPT ![w] = NoEvent]
    /\ UNCHANGED <<row, attempts, log, step, tick, want>>

(* The process of a writer dies between two statements. *)
Crash(w) ==
    /\ w \in Consumers /\ step[w] \notin {"idle", "done", "dead"} /\ faults < MaxFaults
    /\ faults' = faults + 1
    /\ step' = [step EXCEPT ![w] = "dead"]
    /\ stage' = [stage EXCEPT ![w] = "save"]
    /\ ev' = [ev EXCEPT ![w] = NoEvent]
    /\ UNCHANGED <<row, attempts, log, stored, applied, tick, want>>

-----------------------------------------------------------------------------
(* computeRunProjection: the log folded in EventLess order through the same  *)
(* reducer; without a status the row's own is taken.                         *)
Newest(S) == CHOOSE e \in S : \A d \in S \ {e} : EventLess(d, e)
Step(S, e) == CHOOSE q \in {ReduceRun(p, e) : p \in S} : TRUE     \* S holds one projection
Fold(L) == LET f[S \in SUBSET L] == IF S = {} THEN NoProjection
                                    ELSE LET e == Newest(S) IN Step({f[S \ {e}]}, e)
           IN f[L]

computeRunProjection(L, status) ==
    LET p == Fold(L) IN IF p.status = NoStatus THEN [p EXCEPT !.status = status] ELSE p

(* RebuildRunProjections reads the log, computes, and saves later, outside    *)
(* any transaction.                                                          *)
RebuildRead ==
    /\ MayRebuild /\ row # "None" /\ want = {}
    /\ want' = {[run |-> computeRunProjection(log, row), attempts |-> attempts, read |-> log]}
    /\ UNCHANGED <<row, attempts, log, stored, applied, writerVars, tick, faults>>

OnlyMissing(x) == stored.run = NoProjection               \* mutant: wrong rows are left alone
Wrong(x) == stored # [run |-> x.run, attempts |-> x.attempts]

RebuildSave ==
    /\ \E x \in want : IF Wrong(x)
                       THEN /\ stored' = [run |-> x.run, attempts |-> x.attempts]
                            /\ applied' = x.read
                       ELSE UNCHANGED <<stored, applied>>
    /\ want' = {}
    /\ UNCHANGED <<row, attempts, log, writerVars, tick, faults>>

-----------------------------------------------------------------------------
Init ==
    /\ row = "None" /\ attempts = 0 /\ log = {} /\ applied = {}
    /\ stored = [run |-> NoProjection, attempts |-> 0]
    /\ step = [w \in Writers |-> "idle"] /\ stage = [w \in Writers |-> "save"]
    /\ ev = [w \in Writers |-> NoEvent]
    /\ tick = 0 /\ want = {} /\ faults = 0

Consume(w) ==
    \/ Receive(w) \/ StartRecovery(w) \/ LoadTask(w)
    \/ MarkAttemptClaimed(w) \/ MarkRunRunning(w) \/ MarkRunFinished(w) \/ Crash(w)

Next ==
    \/ CreateTask \/ LogBlocked \/ MarkRunQueued
    \/ \E w \in Consumers : Consume(w)
    \/ \E w \in Writers : LogEventWith(w) \/ UpdateProjection(w)
    \/ RebuildRead \/ RebuildSave

Spec == Init /\ [][Next]_vars

(* The rebuild command is run again and again. *)
FairSpec == Spec /\ WF_vars(RebuildRead) /\ WF_vars(RebuildSave)

-----------------------------------------------------------------------------
(* The statuses the log asserts, and when it first asserts one of S. *)
Asserted == {statusFor(e.type) : e \in log} \ {NoStatus}
TimesOf(S) == {e.at : e \in {d \in log : statusFor(d.type) \in S}}
FirstOf(S) == IF TimesOf(S) = {} THEN 0 ELSE CHOOSE x \in TimesOf(S) : \A y \in TimesOf(S) : x <= y
Terminals == {"Completed", "Failed", "Blocked"}

TypeOK ==
    /\ row \in Statuses \cup {"None"} /\ attempts \in Nat
    /\ log \subseteq [type : EventTypes, at : Times, producer : 1 .. 4, seq : Nat]
    /\ applied \subseteq log
    /\ stored \in [run : Projection, attempts : Nat]
    /\ step \in [Writers -> Steps] /\ stage \in [Writers -> Stages]
    /\ \A w \in Writers : stage[w] = "project" => ev[w] \in log
    /\ tick \in Nat /\ faults \in Nat

(* run_reducer.go: "a late task.started after task.completed cannot reopen    *)
(* the run", and neither can a recovery: the live writer never takes a        *)
(* terminal status back, whatever arrives late.                              *)
TerminalProjectionFinal ==
    [][isTerminal(stored.run.status) => stored'.run.status = stored.run.status]_vars

(* Timestamps and the contradiction flag do not depend on the order of        *)
(* arrival: queued_at, started_at and completed_at are the earliest of their  *)
(* events, last_event_at the latest, and a contradiction is noted exactly     *)
(* when the log holds two different terminal facts.                           *)
ReducedInAnyOrder ==
    applied = log =>
        /\ stored.run.queuedAt = FirstOf({"Queued"}) /\ stored.run.startedAt = FirstOf({"Running"})
        /\ stored.run.completedAt = FirstOf({"Completed", "Failed"})
        /\ \A e \in log : e.at <= stored.run.lastEventAt
        /\ (log # {} => \E e \in log : e.at = stored.run.lastEventAt)
        /\ (stored.run.notes # {}) <=> (Cardinality(Asserted \cap Terminals) > 1)
        /\ (isTerminal(stored.run.status) <=> Asserted \cap Terminals # {})

(* producer.go: "Projections do not depend on this ordering at all": once a   *)
(* log is projected, in whatever order its events arrived, the projection is   *)
(* the replay of that log in EventLess order.  A recovery, which overrides    *)
(* Running, and two different ends are the exceptions.                       *)
ReplayAgrees ==
    (/\ applied = log /\ Cardinality(Asserted \cap Terminals) <= 1
     /\ \A e \in log : e.type # "task.recovery_started") => stored.run = Fold(log)

(* "Recomputed, never incremented, so they cannot drift": after every         *)
(* projection the attempt count is a count the table really had, and once     *)
(* every attempt's own event is projected it is the table's.                  *)
CountCatchesUp ==
    (/\ applied = log /\ faults = 0 /\ \A w \in Writers : stage[w] = "save"
     /\ log # {}) => stored.attempts = attempts

(* models/run_projection.go calls the projected status "the current           *)
(* authoritative state fact": with every event projected and every write      *)
(* successful, a run two consumers worked on that ended Completed or Failed    *)
(* has ended in its projection.  (A retryable failure's event asserts nothing; *)
(* see the README.)                                                           *)
FinishedIsProjected ==
    (/\ applied = log /\ faults = 0 /\ \A w \in Writers : stage[w] = "save"
     /\ row \in {"Completed", "Failed"}) => isTerminal(stored.run.status)

(* "A projection is derived data: it can always be rebuilt by replaying":      *)
(* whatever writes were lost and however the rebuild raced with the live       *)
(* writers, repeating it ends with what the log and the tables imply.          *)
RebuildRepairs ==
    <>[](row # "None" => /\ stored.run = computeRunProjection(log, row)
                         /\ stored.attempts = attempts)

(* With everything written and projected, the row of the projection has the    *)
(* table's attempt count and the end of the run (projection.go:26-96).        *)
CaughtUp == TypeOK /\ CountCatchesUp /\ FinishedIsProjected
=============================================================================
