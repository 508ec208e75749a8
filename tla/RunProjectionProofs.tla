------------------------ MODULE RunProjectionProofs ------------------------
(***************************************************************************)
(* What the reducer guarantees for every projection and every pair of       *)
(* events, and what the live writers therefore keep, for every clock offset, *)
(* fault bound and set of reclaimers.                                       *)
(***************************************************************************)
EXTENDS RunProjection, FiniteSetTheorems, WellFoundedInduction, TLAPS

Event == [type : EventTypes, at : Times, producer : Nat, seq : Nat]

(* Two events whose order of arrival matters by design: a recovery, and two   *)
(* different terminal facts.                                                 *)
OrderFree(d, e) ==
    /\ d.type # "task.recovery_started" /\ e.type # "task.recovery_started"
    /\ ~Contradicts(statusFor(d.type), statusFor(e.type))

(* A recorded terminal status survives every further event (run_reducer.go). *)
LEMMA TerminalKept ==
    ASSUME NEW p \in Projection, NEW e \in Event, isTerminal(p.status)
    PROVE  ReduceRun(p, e).status = p.status
<1>1. p.status \in {"Completed", "Failed", "Blocked"}
  BY DEF isTerminal, statusRank, Projection, Statuses, NoStatus
<1>2. Recovered(p.status) = p.status
  BY DEF Recovered
<1>3. NextStatus(p.status, statusFor(e.type)) = p.status
  BY <1>1 DEF NextStatus, Contradicts, isTerminal, statusRank, statusFor, NoStatus
<1> QED BY <1>2, <1>3 DEF ReduceRun

LEMMA StatusForTyped ==
    ASSUME NEW type PROVE statusFor(type) \in Statuses \cup {NoStatus}
BY DEF statusFor, Statuses

LEMMA ReduceTyped ==
    ASSUME NEW p \in Projection, NEW e \in Event
    PROVE  ReduceRun(p, e) \in Projection
<1> DEFINE s == statusFor(e.type)
<1>0. e.at \in StampTimes /\ MaxTime \in Nat
  BY MaxTimeAssumption DEF Event, Times, StampTimes
<1>1. s \in Statuses \cup {NoStatus}
  BY StatusForTyped
<1>2. Recovered(p.status) \in Statuses \cup {NoStatus} /\ NextStatus(p.status, s) \in Statuses \cup {NoStatus}
  BY <1>1 DEF Recovered, NextStatus, Projection, Statuses
<1>3. /\ Stamped(p.queuedAt, e.at, s = "Queued") \in StampTimes
      /\ Stamped(p.startedAt, e.at, s = "Running") \in StampTimes
      /\ Stamped(p.completedAt, e.at, s \in {"Completed", "Failed"}) \in StampTimes
  BY <1>0 DEF Stamped, earliest, Projection
<1>4. latest(p.lastEventAt, e.at) \in StampTimes
  BY <1>0 DEF latest, Projection
<1>7. (p.wasReclaimed \/ e.type = "task.recovery_started") \in BOOLEAN
  OBVIOUS
<1>5. Contradicts(p.status, s) => <<s, p.status>> \in Statuses \X Statuses
  BY <1>1 DEF Contradicts, isTerminal, statusRank, Projection, NoStatus, Statuses
<1>6. Noted(p.notes, p.status, s) \in SUBSET (Statuses \X Statuses)
  BY <1>5 DEF Noted, Projection
<1> QED BY <1>2, <1>3, <1>4, <1>6, <1>7 DEF ReduceRun, Projection

(* run_reducer.go says that applying the same events in any order gives the   *)
(* same result.  It does, for every projection and every two events that are  *)
(* neither recoveries nor contradictory terminal facts.                       *)
THEOREM ReduceCommutes ==
    ASSUME NEW p \in Projection, NEW d \in Event, NEW e \in Event, OrderFree(d, e),
           \* nor does either contradict what is projected already
           ~Contradicts(p.status, statusFor(d.type)), ~Contradicts(p.status, statusFor(e.type))
    PROVE  ReduceRun(ReduceRun(p, d), e) = ReduceRun(ReduceRun(p, e), d)
<1> DEFINE sd == statusFor(d.type)
           se == statusFor(e.type)
           pd == ReduceRun(p, d)
           pe == ReduceRun(p, e)
<1>0. d.at \in Nat \ {0} /\ e.at \in Nat \ {0}
  BY MaxTimeAssumption DEF Event, Times
<1>1. sd \in Statuses \cup {NoStatus} /\ se \in Statuses \cup {NoStatus} /\ p.status \in Statuses \cup {NoStatus}
  BY StatusForTyped DEF Projection
<1>2. NextStatus(NextStatus(p.status, sd), se) = NextStatus(NextStatus(p.status, se), sd)
  BY <1>1 DEF OrderFree, NextStatus, Contradicts, isTerminal, statusRank, Statuses, NoStatus
<1>3. ~Contradicts(NextStatus(p.status, sd), se) /\ ~Contradicts(NextStatus(p.status, se), sd)
  BY <1>1 DEF OrderFree, NextStatus, Contradicts, isTerminal, statusRank, Statuses, NoStatus
<1>4. \A c \in Nat : earliest(earliest(c, d.at), e.at) = earliest(earliest(c, e.at), d.at)
  BY <1>0 DEF earliest
<1>5. \A c \in Nat : latest(latest(c, d.at), e.at) = latest(latest(c, e.at), d.at)
  BY <1>0 DEF latest
<1>6. pd.status = NextStatus(p.status, sd) /\ pe.status = NextStatus(p.status, se)
  BY DEF ReduceRun, OrderFree
<1>7. pd.notes = p.notes /\ pe.notes = p.notes
  BY DEF ReduceRun, Noted
<1>8. ReduceRun(pd, e).notes = p.notes /\ ReduceRun(pe, d).notes = p.notes
  BY <1>3, <1>6, <1>7 DEF ReduceRun, Noted
<1>9. ReduceRun(pd, e).status = ReduceRun(pe, d).status
  BY <1>2, <1>6 DEF ReduceRun, OrderFree
<1>10. {p.queuedAt, p.startedAt, p.completedAt, p.lastEventAt} \subseteq Nat
  BY MaxTimeAssumption DEF Projection, StampTimes
<1>12. ReduceRun(pd, e).queuedAt = ReduceRun(pe, d).queuedAt
  BY <1>4, <1>10 DEF ReduceRun, Stamped
<1>13. ReduceRun(pd, e).startedAt = ReduceRun(pe, d).startedAt
  BY <1>4, <1>10 DEF ReduceRun, Stamped
<1>14. ReduceRun(pd, e).completedAt = ReduceRun(pe, d).completedAt
  BY <1>4, <1>10 DEF ReduceRun, Stamped
<1>15. ReduceRun(pd, e).lastEventAt = ReduceRun(pe, d).lastEventAt
  BY <1>5, <1>10 DEF ReduceRun
<1>11. ReduceRun(pd, e).wasReclaimed = ReduceRun(pe, d).wasReclaimed
  BY DEF ReduceRun, OrderFree, Projection
<1> QED BY <1>8, <1>9, <1>11, <1>12, <1>13, <1>14, <1>15 DEF ReduceRun

-----------------------------------------------------------------------------
(* The live writers: stored stays a projection, nothing waits to be rebuilt,  *)
(* and an event about to be projected is an event.                           *)
LiveInv ==
    /\ stored.run \in Projection /\ want = {} /\ tick \in Nat
    /\ stage \in [Writers -> Stages]
    /\ ev \in [Writers -> [type : EventTypes, at : Nat, producer : Nat, seq : Nat]]
    /\ \A w \in Writers : stage[w] = "project" => ev[w] \in Event

(* run_reducer.go's central promise, for every interleaving of writers,       *)
(* clocks and lost writes: the live writer never reopens a finished run.       *)
THEOREM ProjectionNeverReopens ==
    ASSUME ~MayRebuild
    PROVE  Spec => TerminalProjectionFinal
<1>1. Init => LiveInv
  BY MaxTimeAssumption DEF Init, LiveInv, NoProjection, Projection, StampTimes, NoEvent, EventTypes, Stages, NoStatus
<1>2. LiveInv /\ [Next]_vars => LiveInv'
  <2> SUFFICES ASSUME LiveInv, [Next]_vars PROVE LiveInv'
    OBVIOUS
  <2>0. \A w \in Writers : \A from, to, type :
          (Mark(w, from, type, to) /\ type \in EventTypes) => LiveInv'
    BY DEF Mark, LiveInv, NoEvent, Stages
  <2>1. CASE CreateTask
    BY <2>0, <2>1 DEF CreateTask, Writers, EventTypes
  <2>2. CASE LogBlocked
    BY <2>0, <2>2 DEF LogBlocked, Writers, EventTypes
  <2>3. CASE MarkRunQueued
    BY <2>0, <2>3 DEF MarkRunQueued, Writers, EventTypes
  <2>4. ASSUME NEW w \in Consumers, Consume(w) PROVE LiveInv'
    <3>0. w \in Writers
      BY DEF Writers
    <3>1. CASE Receive(w)
      BY <3>1 DEF Receive, LiveInv
    <3>2. CASE StartRecovery(w)
      BY <2>0, <3>0, <3>2 DEF StartRecovery, EventTypes
    <3>3. CASE LoadTask(w)
      BY <3>3 DEF LoadTask, LiveInv
    <3>4. CASE MarkAttemptClaimed(w)
      BY <2>0, <3>0, <3>4 DEF MarkAttemptClaimed, EventTypes
    <3>5. CASE MarkRunRunning(w)
      BY <2>0, <3>0, <3>5 DEF MarkRunRunning, EventTypes
    <3>6. CASE MarkRunFinished(w)
      BY <2>0, <3>0, <3>6, ProjectionAssumption DEF MarkRunFinished, EventTypes, OutcomeTypes
    <3>7. CASE Crash(w)
      BY <3>0, <3>7 DEF Crash, LiveInv, NoEvent, EventTypes, Stages
    <3> QED BY <2>4, <3>1, <3>2, <3>3, <3>4, <3>5, <3>6, <3>7 DEF Consume
  <2>5. ASSUME NEW w \in Writers, LogEventWith(w) PROVE LiveInv'
    <3> DEFINE e == [type |-> ev[w].type, at |-> tick + 1 + Offset[w],
                     producer |-> Producer(w), seq |-> tick + 1]
    <3>1. Offset[w] \in Nat /\ tick \in Nat /\ MaxTime \in Nat /\ tick + Offset[w] < MaxTime
      BY <2>5, ProjectionAssumption, MaxTimeAssumption DEF LiveInv, LogEventWith
    <3>2. e.at \in Times
      BY <3>1 DEF Times
    <3>3. Producer(w) \in Nat
      BY DEF Producer
    <3>4. e \in Event
      BY <3>1, <3>2, <3>3 DEF LiveInv, Event
    <3>5. PICK ok \in BOOLEAN :
            /\ stage' = [stage EXCEPT ![w] = IF Projected(ok) THEN "project" ELSE "save"]
            /\ ev' = [ev EXCEPT ![w] = IF Projected(ok) THEN e ELSE NoEvent]
      BY <2>5 DEF LogEventWith
    <3>6. UNCHANGED <<stored, want>> /\ tick' = tick + 1
      BY <2>5 DEF LogEventWith
    <3>7. e \in [type : EventTypes, at : Nat, producer : Nat, seq : Nat]
      BY <3>4 DEF Event, Times
    <3>8. NoEvent \in [type : EventTypes, at : Nat, producer : Nat, seq : Nat]
      BY DEF NoEvent, EventTypes
    <3>9. ev' \in [Writers -> [type : EventTypes, at : Nat, producer : Nat, seq : Nat]]
      BY <3>5, <3>7, <3>8 DEF LiveInv
    <3>10. stage' \in [Writers -> Stages]
      BY <3>5 DEF LiveInv, Stages
    <3>11. \A v \in Writers : stage'[v] = "project" => ev'[v] \in Event
      BY <3>4, <3>5 DEF LiveInv
    <3> QED BY <3>1, <3>6, <3>9, <3>10, <3>11 DEF LiveInv
  <2>6. ASSUME NEW w \in Writers, UpdateProjection(w) PROVE LiveInv'
    <3>1. ev[w] \in Event
      BY <2>6 DEF UpdateProjection, LiveInv
    <3>2. ReduceRun(stored.run, ev[w]) \in Projection
      BY <3>1, ReduceTyped DEF LiveInv
    <3>3. stored'.run \in Projection
      BY <2>6, <3>2 DEF UpdateProjection, LiveInv
    <3>4. NoEvent \in [type : EventTypes, at : Nat, producer : Nat, seq : Nat]
      BY DEF NoEvent, EventTypes
    <3> QED BY <2>6, <3>3, <3>4 DEF UpdateProjection, LiveInv, Stages
  <2>7. CASE RebuildRead
    BY <2>7 DEF RebuildRead
  <2>8. CASE RebuildSave
    BY <2>8 DEF RebuildSave, LiveInv
  <2>9. CASE UNCHANGED vars
    BY <2>9 DEF vars, LiveInv
  <2> QED BY <2>1, <2>2, <2>3, <2>4, <2>5, <2>6, <2>7, <2>8, <2>9 DEF Next
<1>3. LiveInv /\ [Next]_vars
        => (isTerminal(stored.run.status) => stored'.run.status = stored.run.status)
  <2> SUFFICES ASSUME LiveInv, [Next]_vars, isTerminal(stored.run.status)
               PROVE  stored'.run.status = stored.run.status
    OBVIOUS
  <2>1. ASSUME NEW w \in Writers, UpdateProjection(w)
        PROVE  stored'.run.status = stored.run.status
    <3>1. ev[w] \in Event
      BY <2>1 DEF UpdateProjection, LiveInv
    <3>2. ReduceRun(stored.run, ev[w]).status = stored.run.status
      BY <3>1, TerminalKept DEF LiveInv
    <3> QED BY <2>1, <3>2 DEF UpdateProjection
  <2>2. CASE UNCHANGED stored
    BY <2>2
  <2>3. \/ UNCHANGED stored
        \/ \E w \in Writers : UpdateProjection(w)
        \/ RebuildSave
    BY DEF Next, vars, CreateTask, LogBlocked, MarkRunQueued, Consume, Receive, StartRecovery, LoadTask,
           MarkAttemptClaimed, MarkRunRunning, MarkRunFinished, Crash, Mark, LogEventWith, RebuildRead
  <2>4. ~RebuildSave
    BY DEF RebuildSave, LiveInv
  <2> QED BY <2>1, <2>2, <2>3, <2>4
<1> QED BY <1>1, <1>2, <1>3, PTL DEF Spec, TerminalProjectionFinal

-----------------------------------------------------------------------------
(* Types.  What is logged and not yet projected is an event of the log.        *)
LogEntry == [type : EventTypes, at : Times, producer : 1 .. 4, seq : Nat]
TypeInv == TypeOK /\ LiveInv

(* What the writers do to everything but their own position: a mark changes    *)
(* the row or the attempts, a record the log, a projection stored and applied. *)
LEMMA TypesInit == ASSUME Init PROVE TypeInv
<1>1. LiveInv
  BY MaxTimeAssumption DEF Init, LiveInv, NoProjection, Projection, StampTimes, NoEvent, EventTypes, Stages, NoStatus
<1>2. TypeOK
  BY MaxTimeAssumption DEF Init, TypeOK, NoProjection, Projection, StampTimes, Statuses, NoStatus, Steps, Stages
<1> QED BY <1>1, <1>2 DEF TypeInv

(* A mark is the first write of an event, which is then to be recorded. *)
Marked(w, type) ==
    /\ stage[w] = "save" /\ stage' = [stage EXCEPT ![w] = "record"]
    /\ type \in EventTypes /\ ev' = [ev EXCEPT ![w] = [NoEvent EXCEPT !.type = type]]
    /\ step' \in [Writers -> Steps] /\ step'[w] # "idle" /\ \A v \in Writers : v # w => step'[v] = step[v]
    /\ UNCHANGED <<log, stored, applied, tick, want>>
    /\ faults' \in Nat /\ faults <= faults'

(* The row, the attempts and the event of every mark. *)
Marks(w) ==
    \/ /\ row = "None" /\ w = "api" /\ row' \in {"None", "Pending", "Blocked"} /\ attempts' = attempts
       /\ \E type \in {"task.created", "task.rerun_created"} : Marked(w, type)
    \/ w = "api" /\ UNCHANGED <<row, attempts>> /\ step[w] # "idle" /\ Marked(w, "task.blocked")
    \/ w = "scheduler" /\ row = "Pending" /\ row' \in {"Pending", "Queued"} /\ attempts' = attempts /\ Marked(w, "task.queued")
    \/ /\ w \in Consumers /\ UNCHANGED <<row, attempts>> /\ Marked(w, "task.recovery_started")
       /\ \E o \in Consumers : o # w /\ step[o] # "idle"
    \/ /\ w \in Consumers /\ step[w] # "idle" /\ row' = row /\ attempts' \in {attempts, attempts + 1}
       /\ Marked(w, "attempt.claimed")
    \/ /\ w \in Consumers /\ step[w] # "idle" /\ row' \in {row, "Running"} /\ attempts' = attempts /\ Marked(w, "task.started")
    \/ /\ w \in Consumers /\ step[w] # "idle" /\ attempts' = attempts
       /\ \E type \in Outcomes : /\ row' \in {row, IF type = "task.completed" THEN "Completed" ELSE "Failed"}
                                 /\ Marked(w, type)

(* A consumer moves on without writing, or dies.                             *)
Moves(w) ==
    /\ w \in Consumers
    /\ step' \in [Writers -> Steps] /\ \A v \in Writers : v # w => step'[v] = step[v]
    /\ UNCHANGED <<row, attempts, log, stored, applied, tick, want>>
    /\ \/ UNCHANGED <<stage, ev, faults>> /\ step'[w] # "idle" /\ (step[w] # "idle" \/ Published)
       \/ /\ stage' = [stage EXCEPT ![w] = "save"] /\ ev' = [ev EXCEPT ![w] = NoEvent] /\ faults' = faults + 1
          /\ step[w] # "idle"

LEMMA MarkDoes ==
  ASSUME TypeInv, NEW w \in Writers, NEW from, NEW type \in EventTypes, NEW to \in Steps \ {"idle"},
         Mark(w, from, type, to), faults' \in Nat, faults <= faults'
  PROVE  Marked(w, type) /\ step[w] = from
BY DEF Mark, Marked, TypeInv, TypeOK

LEMMA FailureDoes ==
  ASSUME TypeInv, NEW ok, Failure(ok)
  PROVE  faults' \in Nat /\ faults <= faults' /\ (faults' = 0 => faults = 0 /\ ok)
BY DEF Failure, TypeInv, TypeOK

LEMMA SetRowDoes ==
  ASSUME TypeInv, NEW status, SetRow(status)
  PROVE  row' \in {row, status} /\ faults' \in Nat /\ faults <= faults'
<1>1. PICK ok \in BOOLEAN : Failure(ok) /\ row' = IF ok THEN status ELSE row
  BY DEF SetRow
<1> QED BY <1>1, FailureDoes

(* Every step is a mark, a move, a record or a projection: nothing rebuilds.   *)
LEMMA StepsAre ==
  ASSUME TypeInv, Next
  PROVE  \/ \E w \in Writers : Marks(w) \/ LogEventWith(w) \/ UpdateProjection(w)
         \/ \E w \in Consumers : Moves(w)
         \/ RebuildRead
<1>0. faults \in Nat
  BY DEF TypeInv, TypeOK
<1>1. CASE CreateTask
  <2>1. PICK status \in {"Pending", "Blocked"}, type \in {"task.created", "task.rerun_created"} :
           SetRow(status) /\ Mark("api", "idle", type, IF status = "Blocked" THEN "block" ELSE "done")
    BY <1>1 DEF CreateTask
  <2>2. Marked("api", type)
    BY <2>1, SetRowDoes, MarkDoes DEF Writers, EventTypes, Steps
  <2>3. row = "None" /\ attempts' = attempts /\ row' \in {"None", "Pending", "Blocked"}
    BY <1>1, <2>1, SetRowDoes DEF CreateTask
  <2>4. Marks("api")
    BY <2>2, <2>3 DEF Marks
  <2> QED BY <2>4 DEF Writers
<1>2. CASE LogBlocked
  <2>1. Marked("api", "task.blocked") /\ step["api"] = "block" /\ UNCHANGED <<row, attempts>>
    BY <1>0, <1>2, MarkDoes DEF LogBlocked, Silent, Writers, EventTypes, Steps
  <2>2. Marks("api")
    BY <2>1 DEF Marks
  <2> QED BY <2>2 DEF Writers
<1>3. CASE MarkRunQueued
  <2>1. Marked("scheduler", "task.queued") /\ row = "Pending" /\ row' \in {"Pending", "Queued"} /\ attempts' = attempts
    BY <1>3, SetRowDoes, MarkDoes DEF MarkRunQueued, Writers, EventTypes, Steps
  <2>2. Marks("scheduler")
    BY <2>1 DEF Marks
  <2> QED BY <2>2 DEF Writers
<1>4. ASSUME NEW w \in Consumers, Consume(w)
      PROVE  Marks(w) \/ Moves(w)
  <2>0. w \in Writers
    BY DEF Writers
  <2>1. CASE Receive(w)
    BY <2>0, <2>1 DEF Receive, Moves, TypeInv, TypeOK, Steps
  <2>2. CASE StartRecovery(w)
    <3>1. Marked(w, "task.recovery_started") /\ UNCHANGED <<row, attempts>>
      BY <1>0, <2>0, <2>2, MarkDoes DEF StartRecovery, Silent, EventTypes, Steps
    <3>2. \E o \in Consumers : o # w /\ step[o] # "idle"
      BY <2>2 DEF StartRecovery
    <3> QED BY <3>1, <3>2 DEF Marks
  <2>3. CASE LoadTask(w)
    BY <2>0, <2>3 DEF LoadTask, Moves, TypeInv, TypeOK, Steps
  <2>4. CASE MarkAttemptClaimed(w)
    <3>1. PICK ok \in BOOLEAN : Failure(ok) /\ attempts' = IF ok THEN attempts + 1 ELSE attempts
      BY <2>4 DEF MarkAttemptClaimed
    <3>2. Marked(w, "attempt.claimed") /\ step[w] = "claim" /\ row' = row
      BY <2>0, <2>4, <3>1, FailureDoes, MarkDoes DEF MarkAttemptClaimed, EventTypes, Steps
    <3> QED BY <3>1, <3>2 DEF Marks
  <2>5. CASE MarkRunRunning(w)
    <3>1. Marked(w, "task.started") /\ step[w] = "start" /\ row' \in {row, "Running"} /\ attempts' = attempts
      BY <2>0, <2>5, SetRowDoes, MarkDoes DEF MarkRunRunning, EventTypes, Steps
    <3> QED BY <3>1 DEF Marks
  <2>6. CASE MarkRunFinished(w)
    <3>1. PICK type \in Outcomes : /\ SetRow(IF type = "task.completed" THEN "Completed" ELSE "Failed")
                                   /\ Mark(w, "handler", type, "done")
      BY <2>6 DEF MarkRunFinished
    <3>2. type \in EventTypes
      BY ProjectionAssumption DEF OutcomeTypes, EventTypes
    <3>3. Marked(w, type) /\ step[w] = "handler" /\ row' \in {row, IF type = "task.completed" THEN "Completed" ELSE "Failed"}
      BY <2>0, <3>1, <3>2, SetRowDoes, MarkDoes DEF Steps
    <3> QED BY <2>6, <3>3 DEF Marks, MarkRunFinished
  <2>7. CASE Crash(w)
    BY <2>0, <2>7 DEF Crash, Moves, TypeInv, TypeOK, Steps
  <2> QED BY <1>4, <2>1, <2>2, <2>3, <2>4, <2>5, <2>6, <2>7 DEF Consume
<1>5. ~RebuildSave
  BY DEF RebuildSave, TypeInv, LiveInv
<1> QED BY <1>1, <1>2, <1>3, <1>4, <1>5 DEF Next, Writers

-----------------------------------------------------------------------------
(* What a record and a projection do. *)
LEMMA RecordDoes ==
  ASSUME TypeInv, NEW w \in Writers, LogEventWith(w)
  PROVE  /\ stage[w] = "record" /\ UNCHANGED <<row, attempts, stored, applied, step, want>> /\ tick' \in Nat
         /\ faults' \in Nat /\ faults <= faults'
         /\ \E e \in LogEntry :
              /\ e.type = ev[w].type
              /\ \/ /\ row # "None" /\ log' = log \cup {e}
                    /\ stage' = [stage EXCEPT ![w] = "project"] /\ ev' = [ev EXCEPT ![w] = e]
                 \/ /\ row = "None" \/ faults' # 0
                    /\ log' \in {log, log \cup {e}}
                    /\ stage' = [stage EXCEPT ![w] = "save"] /\ ev' = [ev EXCEPT ![w] = NoEvent]
<1>1. PICK e : e = [type |-> ev[w].type, at |-> tick + 1 + Offset[w], producer |-> Producer(w), seq |-> tick + 1]
  OBVIOUS
<1>2. PICK ok \in BOOLEAN :
         /\ Failure(ok)
         /\ log' = IF ok THEN log \cup {e} ELSE log
         /\ stage' = [stage EXCEPT ![w] = IF Projected(ok) THEN "project" ELSE "save"]
         /\ ev' = [ev EXCEPT ![w] = IF Projected(ok) THEN e ELSE NoEvent]
  BY <1>1 DEF LogEventWith
<1>3. Offset[w] \in Nat /\ tick \in Nat /\ MaxTime \in Nat /\ tick + Offset[w] < MaxTime
  BY ProjectionAssumption, MaxTimeAssumption DEF TypeInv, LiveInv, LogEventWith
<1>4. tick + 1 + Offset[w] \in Times /\ Producer(w) \in 1 .. 4 /\ tick + 1 \in Nat
  BY <1>3 DEF Times, Producer
<1>5. e \in LogEntry /\ e.type = ev[w].type
  BY <1>1, <1>4 DEF LogEntry, TypeInv, LiveInv
<1>6. faults' \in Nat /\ faults <= faults' /\ (faults' = 0 => ok)
  BY <1>2, FailureDoes
<1>7. stage[w] = "record" /\ UNCHANGED <<row, attempts, stored, applied, step, want>> /\ tick' \in Nat
  BY <1>3 DEF LogEventWith
<1>8. CASE Projected(ok)
  BY <1>2, <1>5, <1>6, <1>7, <1>8 DEF Projected
<1>9. CASE ~Projected(ok)
  <2>1. row = "None" \/ faults' # 0
    BY <1>6, <1>9 DEF Projected
  <2> QED BY <1>2, <1>5, <1>6, <1>7, <1>9, <2>1
<1> QED BY <1>8, <1>9

LEMMA ProjectDoes ==
  ASSUME TypeInv, NEW w \in Writers, UpdateProjection(w)
  PROVE  /\ stage[w] = "project" /\ ev[w] \in Event /\ ev[w] \in log /\ UNCHANGED <<row, attempts, log, step, tick, want>>
         /\ stage' = [stage EXCEPT ![w] = "save"] /\ ev' = [ev EXCEPT ![w] = NoEvent]
         /\ faults' \in Nat /\ faults <= faults'
         /\ \/ /\ stored' = [run |-> ReduceRun(stored.run, ev[w]), attempts |-> attempts]
               /\ applied' = applied \cup {ev[w]}
            \/ faults' # 0 /\ UNCHANGED <<stored, applied>>
<1>1. PICK ok \in BOOLEAN :
         /\ Failure(ok)
         /\ IF ok
            THEN /\ stored' = [run |-> ReduceRun(stored.run, ev[w]), attempts |-> Recount(attempts)]
                 /\ applied' = applied \cup {ev[w]}
            ELSE UNCHANGED <<stored, applied>>
  BY DEF UpdateProjection
<1>2. faults' \in Nat /\ faults <= faults' /\ (faults' = 0 => ok)
  BY <1>1, FailureDoes
<1>3. stage[w] = "project" /\ ev[w] \in Event /\ ev[w] \in log
  BY DEF UpdateProjection, TypeInv, LiveInv, TypeOK
<1> QED BY <1>1, <1>2, <1>3 DEF UpdateProjection, Recount

LEMMA NoEventTyped == NoEvent \in [type : EventTypes, at : Nat, producer : Nat, seq : Nat]
BY DEF NoEvent, EventTypes

LEMMA TypesStep == ASSUME ~MayRebuild, TypeInv, [Next]_vars PROVE TypeInv'
<1>0. /\ MaxTime \in Nat /\ row \in Statuses \cup {"None"} /\ attempts \in Nat /\ log \subseteq LogEntry /\ applied \subseteq log
      /\ stored \in [run : Projection, attempts : Nat]
      /\ step \in [Writers -> Steps] /\ stage \in [Writers -> Stages] /\ tick \in Nat /\ faults \in Nat /\ want = {}
      /\ ev \in [Writers -> [type : EventTypes, at : Nat, producer : Nat, seq : Nat]]
      /\ \A w \in Writers : stage[w] = "project" => ev[w] \in Event /\ ev[w] \in log
  BY MaxTimeAssumption DEF TypeInv, TypeOK, LiveInv, LogEntry
<1>1. ASSUME /\ row' \in Statuses \cup {"None"} /\ attempts' \in Nat /\ log' \subseteq LogEntry /\ applied' \subseteq log'
             /\ stored' \in [run : Projection, attempts : Nat]
             /\ step' \in [Writers -> Steps] /\ stage' \in [Writers -> Stages] /\ tick' \in Nat /\ faults' \in Nat /\ want' = {}
             /\ ev' \in [Writers -> [type : EventTypes, at : Nat, producer : Nat, seq : Nat]]
             /\ \A w \in Writers : stage'[w] = "project" => ev'[w] \in Event /\ ev'[w] \in log'
      PROVE  TypeInv'
  BY <1>1 DEF TypeInv, TypeOK, LiveInv, LogEntry
<1>2. ASSUME NEW w \in Writers, Marks(w) PROVE TypeInv'
  <2>1. PICK type \in EventTypes : Marked(w, type)
    BY <1>2 DEF Marks, Marked
  <2>2. row' \in Statuses \cup {"None"}
    BY <1>0, <1>2 DEF Marks, Statuses
  <2>3. attempts' \in Nat
    BY <1>0, <1>2 DEF Marks
  <2>4. [NoEvent EXCEPT !.type = type] \in [type : EventTypes, at : Nat, producer : Nat, seq : Nat]
    BY DEF NoEvent
  <2>5. /\ step' \in [Writers -> Steps] /\ stage' \in [Writers -> Stages] /\ tick' \in Nat /\ faults' \in Nat /\ want' = {}
        /\ ev' \in [Writers -> [type : EventTypes, at : Nat, producer : Nat, seq : Nat]]
        /\ UNCHANGED <<log, applied, stored>>
    BY <1>0, <2>1, <2>4 DEF Marked, Stages
  <2>6. \A v \in Writers : stage'[v] = "project" => ev'[v] \in Event /\ ev'[v] \in log'
    BY <1>0, <2>1 DEF Marked
  <2> QED BY <1>0, <1>1, <2>2, <2>3, <2>5, <2>6
<1>3. ASSUME NEW w \in Consumers, Moves(w) PROVE TypeInv'
  <2>1. /\ step' \in [Writers -> Steps] /\ stage' \in [Writers -> Stages] /\ tick' \in Nat /\ faults' \in Nat /\ want' = {}
        /\ ev' \in [Writers -> [type : EventTypes, at : Nat, producer : Nat, seq : Nat]]
        /\ UNCHANGED <<row, attempts, log, applied, stored>>
    BY <1>0, <1>3, NoEventTyped DEF Moves, Stages
  <2>2. \A v \in Writers : stage'[v] = "project" => ev'[v] \in Event /\ ev'[v] \in log'
    BY <1>0, <1>3 DEF Moves
  <2> QED BY <1>0, <1>1, <2>1, <2>2
<1>4. ASSUME NEW w \in Writers, LogEventWith(w) PROVE TypeInv'
  <2>1. /\ UNCHANGED <<row, attempts, stored, applied, step, want>> /\ tick' \in Nat /\ faults' \in Nat
    BY <1>4, RecordDoes
  <2>2. PICK e \in LogEntry :
            \/ /\ log' = log \cup {e}
               /\ stage' = [stage EXCEPT ![w] = "project"] /\ ev' = [ev EXCEPT ![w] = e]
            \/ /\ log' \in {log, log \cup {e}}
               /\ stage' = [stage EXCEPT ![w] = "save"] /\ ev' = [ev EXCEPT ![w] = NoEvent]
    BY <1>4, RecordDoes
  <2>3. e \in Event /\ e \in [type : EventTypes, at : Nat, producer : Nat, seq : Nat]
    BY <1>0 DEF LogEntry, Event, Times
  <2>4. log' \subseteq LogEntry /\ applied' \subseteq log' /\ log \subseteq log'
    BY <1>0, <2>1, <2>2
  <2>5. stage' \in [Writers -> Stages] /\ ev' \in [Writers -> [type : EventTypes, at : Nat, producer : Nat, seq : Nat]]
    BY <1>0, <2>2, <2>3, NoEventTyped DEF Stages
  <2>6. \A v \in Writers : stage'[v] = "project" => ev'[v] \in Event /\ ev'[v] \in log'
    BY <1>0, <2>2, <2>3, <2>4
  <2> QED BY <1>0, <1>1, <2>1, <2>4, <2>5, <2>6
<1>5. ASSUME NEW w \in Writers, UpdateProjection(w) PROVE TypeInv'
  <2>1. /\ UNCHANGED <<row, attempts, log, step, tick, want>> /\ faults' \in Nat /\ ev[w] \in Event /\ ev[w] \in log
        /\ stage' = [stage EXCEPT ![w] = "save"] /\ ev' = [ev EXCEPT ![w] = NoEvent]
        /\ \/ /\ stored' = [run |-> ReduceRun(stored.run, ev[w]), attempts |-> attempts]
              /\ applied' = applied \cup {ev[w]}
           \/ UNCHANGED <<stored, applied>>
    BY <1>5, ProjectDoes
  <2>2. ReduceRun(stored.run, ev[w]) \in Projection
    BY <1>0, <2>1, ReduceTyped
  <2>3. stored' \in [run : Projection, attempts : Nat] /\ applied' \subseteq log'
    BY <1>0, <2>1, <2>2
  <2>4. stage' \in [Writers -> Stages] /\ ev' \in [Writers -> [type : EventTypes, at : Nat, producer : Nat, seq : Nat]]
    BY <1>0, <2>1, NoEventTyped DEF Stages
  <2>5. \A v \in Writers : stage'[v] = "project" => ev'[v] \in Event /\ ev'[v] \in log'
    BY <1>0, <2>1
  <2> QED BY <1>0, <1>1, <2>1, <2>3, <2>4, <2>5
<1>6. CASE UNCHANGED vars
  BY <1>0, <1>1, <1>6 DEF vars
<1>7. ~RebuildRead
  BY DEF RebuildRead
<1> QED BY <1>2, <1>3, <1>4, <1>5, <1>6, <1>7, StepsAre

-----------------------------------------------------------------------------
(* What makes the projection catch up: a consumer or the scheduler acts only   *)
(* on a run whose row is there; while nothing has failed, an attempt that the  *)
(* projection has not counted, and an end it does not show, belong to a mark   *)
(* whose event is still on its way.                                          *)
Under(w) == stage[w] \in {"record", "project"}
Begun == \A w \in Writers \ {"api"} : step[w] # "idle" => row # "None"
CountOwed ==
    stored.attempts = attempts \/ \E w \in Writers : Under(w) /\ ev[w].type = "attempt.claimed" /\ row # "None"
EndOwed ==
    row \in {"Completed", "Failed"} =>
        isTerminal(stored.run.status) \/ \E w \in Writers : Under(w) /\ ev[w].type \in {"task.completed", "task.failed"}
CatchInv == TypeInv /\ Begun /\ (faults = 0 => CountOwed /\ EndOwed)

(* An event that ends the run leaves its projection ended. *)
LEMMA EndProjected ==
  ASSUME NEW p \in Projection, NEW e \in Event, e.type \in {"task.completed", "task.failed"}
  PROVE  isTerminal(ReduceRun(p, e).status)
BY DEF ReduceRun, statusFor, NextStatus, Contradicts, isTerminal, statusRank, Projection, Statuses, NoStatus

LEMMA CatchMarks ==
  ASSUME CatchInv, TypeInv', "task.retry_scheduled" \notin Outcomes, NEW w \in Writers, Marks(w)
  PROVE  CatchInv'
<1>0. /\ stage \in [Writers -> Stages] /\ DOMAIN ev = Writers /\ faults \in Nat /\ attempts \in Nat
  BY DEF CatchInv, TypeInv, TypeOK, LiveInv
<1>1. PICK type \in EventTypes : Marked(w, type)
  BY DEF Marks, Marked
<1>2. /\ stage[w] = "save" /\ stage'[w] = "record" /\ \A v \in Writers : v # w => stage'[v] = stage[v] /\ ev'[v] = ev[v]
      /\ stored' = stored /\ (faults' = 0 => faults = 0)
  BY <1>0, <1>1 DEF Marked
<1>3. \A v \in Writers : Under(v) => Under(v)' /\ ev'[v] = ev[v]
  BY <1>2 DEF Under
<1>4. row # "None" => row' # "None"
  BY ProjectionAssumption DEF Marks
<1>5. Begun'
  <2>1. \A v \in Writers \ {"api"} : v # w => (step'[v] # "idle" => row # "None")
    BY <1>1 DEF Marked, CatchInv, Begun
  <2>2. w # "api" => row # "None"
    BY DEF Marks, CatchInv, Begun, Consumers, Writers
  <2> QED BY <1>4, <2>1, <2>2 DEF Begun
<1>6. ASSUME faults' = 0 PROVE CountOwed'
  <2>1. CountOwed
    BY <1>2, <1>6 DEF CatchInv
  <2>2. CASE attempts' = attempts
    BY <1>2, <1>3, <1>4, <2>1, <2>2 DEF CountOwed
  <2>3. CASE attempts' # attempts
    <3>1. w \in Consumers /\ step[w] # "idle" /\ Marked(w, "attempt.claimed") /\ row' = row
      BY <2>3 DEF Marks
    <3>2. ev'[w].type = "attempt.claimed"
      BY <1>0, <3>1 DEF Marked, NoEvent
    <3>3. row # "None"
      BY <3>1 DEF CatchInv, Begun, Consumers, Writers
    <3> QED BY <1>2, <3>1, <3>2, <3>3 DEF CountOwed, Under
  <2> QED BY <2>2, <2>3
<1>7. ASSUME faults' = 0 PROVE EndOwed'
  <2>1. EndOwed
    BY <1>2, <1>7 DEF CatchInv
  <2>2. CASE row' \notin {"Completed", "Failed"}
    BY <2>2 DEF EndOwed
  <2>3. CASE row' = row
    BY <1>2, <1>3, <2>1, <2>3 DEF EndOwed
  <2>4. CASE row' \in {"Completed", "Failed"} /\ row' # row
    <3>1. PICK end \in Outcomes : Marked(w, end)
      BY <2>4 DEF Marks
    <3>2. end \in {"task.completed", "task.failed"}
      BY <3>1, ProjectionAssumption DEF OutcomeTypes
    <3>3. ev'[w].type = end
      BY <1>0, <3>1 DEF Marked, NoEvent
    <3> QED BY <1>2, <3>2, <3>3 DEF EndOwed, Under
  <2> QED BY <2>2, <2>3, <2>4
<1> QED BY <1>5, <1>6, <1>7 DEF CatchInv

LEMMA CatchMoves ==
  ASSUME CatchInv, TypeInv', NEW w \in Consumers, Moves(w)
  PROVE  CatchInv'
<1>1. step[w] # "idle" \/ Published
  BY DEF Moves
<1>2. row # "None"
  BY <1>1 DEF CatchInv, Begun, Published, Consumers, Writers
<1>3. Begun'
  BY <1>2 DEF Begun, Moves
<1>4. faults \in Nat
  BY DEF CatchInv, TypeInv, TypeOK
<1>5. faults' = 0 => faults = 0 /\ UNCHANGED <<row, attempts, stored, stage, ev>>
  BY <1>4 DEF Moves
<1> QED BY <1>3, <1>5 DEF CatchInv, CountOwed, EndOwed, Under

LEMMA CatchRecord ==
  ASSUME CatchInv, TypeInv', NEW w \in Writers, LogEventWith(w)
  PROVE  CatchInv'
<1>0. /\ stage \in [Writers -> Stages] /\ DOMAIN ev = Writers /\ faults \in Nat
  BY DEF CatchInv, TypeInv, TypeOK, LiveInv
<1>1. /\ stage[w] = "record" /\ UNCHANGED <<row, attempts, stored, step>> /\ (faults' = 0 => faults = 0)
  BY <1>0, RecordDoes DEF CatchInv
<1>2. (row # "None" /\ faults' = 0) =>
         \E e : e.type = ev[w].type /\ stage' = [stage EXCEPT ![w] = "project"] /\ ev' = [ev EXCEPT ![w] = e]
  BY RecordDoes DEF CatchInv
<1>3. (row # "None" /\ faults' = 0) => \A v \in Writers : Under(v) => Under(v)' /\ ev'[v].type = ev[v].type
  BY <1>0, <1>2 DEF Under
<1>4. Begun'
  BY <1>1 DEF CatchInv, Begun
<1> QED BY <1>1, <1>3, <1>4 DEF CatchInv, CountOwed, EndOwed

LEMMA CatchProject ==
  ASSUME CatchInv, TypeInv', NEW w \in Writers, UpdateProjection(w)
  PROVE  CatchInv'
<1>0. /\ stage \in [Writers -> Stages] /\ DOMAIN ev = Writers /\ faults \in Nat /\ stored.run \in Projection
  BY DEF CatchInv, TypeInv, TypeOK, LiveInv
<1>1. /\ ev[w] \in Event /\ UNCHANGED <<row, attempts, step>> /\ (faults' = 0 => faults = 0)
      /\ stage' = [stage EXCEPT ![w] = "save"] /\ ev' = [ev EXCEPT ![w] = NoEvent]
      /\ faults' = 0 => stored' = [run |-> ReduceRun(stored.run, ev[w]), attempts |-> attempts]
  BY <1>0, ProjectDoes DEF CatchInv
<1>2. Begun'
  BY <1>1 DEF CatchInv, Begun
<1>3. ASSUME faults' = 0 PROVE CountOwed'
  BY <1>1, <1>3 DEF CountOwed
<1>4. ASSUME faults' = 0 PROVE EndOwed'
  <2>1. EndOwed /\ stored'.run = ReduceRun(stored.run, ev[w])
    BY <1>1, <1>4 DEF CatchInv
  <2>2. CASE ev[w].type \in {"task.completed", "task.failed"}
    BY <1>0, <1>1, <2>1, <2>2, EndProjected DEF EndOwed
  <2>3. CASE isTerminal(stored.run.status)
    BY <1>0, <1>1, <2>1, <2>3, TerminalKept DEF EndOwed
  <2>4. CASE ev[w].type \notin {"task.completed", "task.failed"} /\ ~isTerminal(stored.run.status)
    BY <1>0, <1>1, <2>1, <2>4 DEF EndOwed, Under
  <2> QED BY <2>2, <2>3, <2>4
<1> QED BY <1>2, <1>3, <1>4 DEF CatchInv

(* "Recomputed, never incremented, so they cannot drift" (projection.go), and  *)
(* the projected status is "the current authoritative state fact": with every  *)
(* write made and every event projected, the projection has the table's count  *)
(* of attempts and the end of the run.  A retryable failure's event asserts    *)
(* nothing, so it is left out of the outcomes; so is the rebuild.             *)
THEOREM CaughtUpSound ==
  ASSUME ~MayRebuild, "task.retry_scheduled" \notin Outcomes
  PROVE  Spec => []CaughtUp
<1>1. Init => CatchInv
  <2> SUFFICES ASSUME Init PROVE CatchInv
    OBVIOUS
  <2>1. Begun /\ CountOwed /\ EndOwed
    BY DEF Init, Begun, CountOwed, EndOwed, Writers, Consumers
  <2> QED BY <2>1, TypesInit DEF CatchInv
<1>2. CatchInv /\ [Next]_vars => CatchInv'
  <2> SUFFICES ASSUME CatchInv, [Next]_vars PROVE CatchInv'
    OBVIOUS
  <2>1. TypeInv'
    BY TypesStep DEF CatchInv
  <2>2. CASE UNCHANGED vars
    BY <2>1, <2>2 DEF vars, CatchInv, Begun, CountOwed, EndOwed, Under
  <2>3. CASE Next
    BY <2>1, <2>3, StepsAre, CatchMarks, CatchMoves, CatchRecord, CatchProject DEF CatchInv, RebuildRead
  <2> QED BY <2>2, <2>3
<1>3. CatchInv => CaughtUp
  BY DEF CatchInv, TypeInv, CaughtUp, CountCatchesUp, FinishedIsProjected, CountOwed, EndOwed, Under
<1> QED BY <1>1, <1>2, <1>3, PTL DEF Spec

-----------------------------------------------------------------------------
(* What the projection says of the events it is the result of, at every       *)
(* moment: nothing in it tells in which order they came.                      *)
Says(e, S) == statusFor(e.type) \in S
FirstTime(t, S, A) ==
    \/ t = 0 /\ \A e \in A : ~Says(e, S)
    \/ (\E e \in A : Says(e, S) /\ e.at = t) /\ (\A e \in A : Says(e, S) => t <= e.at)
LastTime(t, A) ==
    /\ A = {} => t = 0
    /\ A # {} => \E e \in A : e.at = t
    /\ \A e \in A : e.at <= t
TimesShown(p, A) ==
    /\ FirstTime(p.queuedAt, {"Queued"}, A) /\ FirstTime(p.startedAt, {"Running"}, A)
    /\ FirstTime(p.completedAt, {"Completed", "Failed"}, A)
    /\ LastTime(p.lastEventAt, A)
EndShown(status, A) ==
    /\ isTerminal(status) => \E e \in A : statusFor(e.type) = status
    /\ \A e \in A : isTerminal(statusFor(e.type)) => isTerminal(status)
ClashNoted(status, notes, A) == notes # {} <=> \E e \in A : Contradicts(status, statusFor(e.type))
Summary(p, A) ==
    /\ TimesShown(p, A)
    /\ EndShown(p.status, A) /\ ClashNoted(p.status, p.notes, A)

(* A time that is already the first stays the first when one more event is     *)
(* stamped: zero is no time an event carries.                                 *)
LEMMA StampFirst ==
  ASSUME NEW A, A \subseteq LogEntry, NEW e \in LogEntry, NEW S, NEW t \in StampTimes, FirstTime(t, S, A)
  PROVE  FirstTime(Stamped(t, e.at, Says(e, S)), S, A \cup {e})
<1>1. \A d \in A \cup {e} : d.at \in Nat /\ d.at > 0
  BY MaxTimeAssumption DEF LogEntry, Times
<1>2. t \in Nat
  BY MaxTimeAssumption DEF StampTimes
<1>3. CASE ~Says(e, S)
  BY <1>3 DEF FirstTime, Stamped
<1>4. CASE Says(e, S) /\ t = 0
  <2>1. \A d \in A : ~Says(d, S)
    BY <1>1, <1>4 DEF FirstTime
  <2> QED BY <1>1, <1>4, <2>1 DEF FirstTime, Stamped, earliest
<1>5. CASE Says(e, S) /\ t # 0
  <2>1. (\E d \in A : Says(d, S) /\ d.at = t) /\ (\A d \in A : Says(d, S) => t <= d.at)
    BY <1>5 DEF FirstTime
  <2>2. CASE e.at < t
    <3>1. Stamped(t, e.at, Says(e, S)) = e.at
      BY <1>5, <2>2 DEF Stamped, earliest
    <3>2. \A d \in A \cup {e} : Says(d, S) => e.at <= d.at
      BY <1>1, <1>2, <2>1, <2>2
    <3> QED BY <1>5, <3>1, <3>2 DEF FirstTime
  <2>3. CASE ~(e.at < t)
    <3>1. Stamped(t, e.at, Says(e, S)) = t
      BY <1>5, <2>3 DEF Stamped, earliest
    <3>2. \A d \in A \cup {e} : Says(d, S) => t <= d.at
      BY <1>1, <1>2, <2>1, <2>3
    <3> QED BY <2>1, <3>1, <3>2 DEF FirstTime
  <2> QED BY <2>2, <2>3
<1> QED BY <1>3, <1>4, <1>5

LEMMA LatestLast ==
  ASSUME NEW A, A \subseteq LogEntry, NEW e \in LogEntry, NEW t \in StampTimes, LastTime(t, A)
  PROVE  LastTime(latest(t, e.at), A \cup {e})
<1>1. \A d \in A \cup {e} : d.at \in Nat /\ d.at > 0
  BY MaxTimeAssumption DEF LogEntry, Times
<1>2. t \in Nat
  BY MaxTimeAssumption DEF StampTimes
<1>3. CASE e.at > t
  BY <1>1, <1>2, <1>3 DEF LastTime, latest
<1>4. CASE ~(e.at > t)
  <2>1. A # {}
    BY <1>1, <1>4 DEF LastTime
  <2> QED BY <1>1, <1>2, <1>4, <2>1 DEF LastTime, latest
<1> QED BY <1>3, <1>4

(* The four times after one more event. *)
LEMMA StampsStep ==
  ASSUME NEW A, A \subseteq LogEntry, NEW e \in LogEntry, NEW p \in Projection, TimesShown(p, A)
  PROVE  TimesShown(ReduceRun(p, e), A \cup {e})
<1> DEFINE r == ReduceRun(p, e)
<1>0. {p.queuedAt, p.startedAt, p.completedAt, p.lastEventAt} \subseteq StampTimes
  BY DEF Projection
<1>1. FirstTime(r.queuedAt, {"Queued"}, A \cup {e})
  <2>1. r.queuedAt = Stamped(p.queuedAt, e.at, Says(e, {"Queued"}))
    BY DEF ReduceRun, Says
  <2> QED BY <1>0, <2>1, StampFirst DEF TimesShown
<1>2. FirstTime(r.startedAt, {"Running"}, A \cup {e})
  <2>1. r.startedAt = Stamped(p.startedAt, e.at, Says(e, {"Running"}))
    BY DEF ReduceRun, Says
  <2> QED BY <1>0, <2>1, StampFirst DEF TimesShown
<1>3. FirstTime(r.completedAt, {"Completed", "Failed"}, A \cup {e})
  <2>1. r.completedAt = Stamped(p.completedAt, e.at, Says(e, {"Completed", "Failed"}))
    BY DEF ReduceRun, Says
  <2> QED BY <1>0, <2>1, StampFirst DEF TimesShown
<1>4. LastTime(r.lastEventAt, A \cup {e})
  <2>1. r.lastEventAt = latest(p.lastEventAt, e.at)
    BY DEF ReduceRun
  <2> QED BY <1>0, <2>1, LatestLast DEF TimesShown
<1> QED BY <1>1, <1>2, <1>3, <1>4 DEF TimesShown

(* The status after one more event, and what contradicts it. *)
LEMMA StatusAfter ==
  ASSUME NEW p \in Projection, NEW e \in LogEntry
  PROVE  LET s == statusFor(e.type)
             q == ReduceRun(p, e).status
         IN /\ isTerminal(p.status) => q = p.status
            /\ ~isTerminal(p.status) => IF isTerminal(s) THEN q = s ELSE ~isTerminal(q)
<1>1. p.status \in Statuses \cup {NoStatus} /\ statusFor(e.type) \in Statuses \cup {NoStatus}
  BY StatusForTyped DEF Projection
<1>2. e.type = "task.recovery_started" => ~isTerminal(statusFor(e.type))
  BY DEF statusFor, isTerminal, statusRank, NoStatus
<1>3. CASE e.type = "task.recovery_started"
  BY <1>2, <1>3 DEF ReduceRun, Recovered, isTerminal, statusRank
<1>4. CASE e.type # "task.recovery_started"
  <2>1. ReduceRun(p, e).status = NextStatus(p.status, statusFor(e.type))
    BY <1>4 DEF ReduceRun
  <2> QED BY <1>1, <2>1 DEF NextStatus, Contradicts, isTerminal, statusRank, Statuses, NoStatus
<1> QED BY <1>3, <1>4

LEMMA SummaryStep ==
  ASSUME NEW A, A \subseteq LogEntry, NEW e \in LogEntry, NEW p \in Projection, Summary(p, A)
  PROVE  Summary(ReduceRun(p, e), A \cup {e})
<1> DEFINE s == statusFor(e.type)
           r == ReduceRun(p, e)
<1>1. TimesShown(r, A \cup {e})
  BY StampsStep DEF Summary
<1>5. EndShown(p.status, A) /\ ClashNoted(p.status, p.notes, A)
  BY DEF Summary
<1>6. r.notes = Noted(p.notes, p.status, s)
  BY DEF ReduceRun
<1>7. CASE isTerminal(p.status)
  <2>1. r.status = p.status
    BY <1>7, StatusAfter
  <2>2. EndShown(r.status, A \cup {e})
    BY <1>5, <1>7, <2>1 DEF EndShown
  <2>3. ClashNoted(r.status, r.notes, A \cup {e})
    BY <1>5, <1>6, <2>1 DEF ClashNoted, Noted
  <2> QED BY <1>1, <2>2, <2>3 DEF Summary
<1>8. CASE ~isTerminal(p.status)
  <2>1. r.notes = {} /\ \A d \in A : ~isTerminal(statusFor(d.type))
    BY <1>5, <1>6, <1>8 DEF EndShown, ClashNoted, Noted, Contradicts
  <2>2. IF isTerminal(s) THEN r.status = s ELSE ~isTerminal(r.status)
    BY <1>8, StatusAfter
  <2>3. EndShown(r.status, A \cup {e})
    BY <2>1, <2>2 DEF EndShown
  <2>4. \A d \in A \cup {e} : ~Contradicts(r.status, statusFor(d.type))
    BY <2>1, <2>2 DEF Contradicts
  <2>5. ClashNoted(r.status, r.notes, A \cup {e})
    BY <2>1, <2>4 DEF ClashNoted
  <2> QED BY <1>1, <2>3, <2>5 DEF Summary
<1> QED BY <1>7, <1>8

OrderInv == TypeInv /\ Summary(stored.run, applied)

LEMMA OrderStep ==
  ASSUME ~MayRebuild, OrderInv, [Next]_vars
  PROVE  OrderInv'
<1>1. TypeInv'
  BY TypesStep DEF OrderInv
<1>2. CASE UNCHANGED <<stored, applied>>
  BY <1>1, <1>2 DEF OrderInv
<1>3. ASSUME NEW w \in Writers, UpdateProjection(w) PROVE OrderInv'
  <2>1. /\ applied \subseteq LogEntry /\ ev[w] \in LogEntry /\ stored.run \in Projection
        /\ Summary(stored.run, applied)
    BY <1>3, ProjectDoes DEF OrderInv, TypeInv, TypeOK, LogEntry
  <2>2. Summary(ReduceRun(stored.run, ev[w]), applied \cup {ev[w]})
    BY <2>1, SummaryStep
  <2>3. \/ stored'.run = ReduceRun(stored.run, ev[w]) /\ applied' = applied \cup {ev[w]}
        \/ UNCHANGED <<stored, applied>>
    BY <1>3, ProjectDoes DEF OrderInv
  <2> QED BY <1>1, <1>2, <2>2, <2>3 DEF OrderInv
<1>4. CASE Next
  <2>1. ASSUME NEW w \in Writers, Marks(w) \/ LogEventWith(w) PROVE UNCHANGED <<stored, applied>>
    BY <2>1 DEF Marks, Marked, LogEventWith
  <2>2. ASSUME NEW w \in Consumers, Moves(w) PROVE UNCHANGED <<stored, applied>>
    BY <2>2 DEF Moves
  <2> QED BY <1>2, <1>3, <1>4, <2>1, <2>2, StepsAre DEF OrderInv, RebuildRead
<1> QED BY <1>2, <1>4 DEF vars

(* With its log projected, what the projection says of its events is what the *)
(* statement asks of the log: the least time is the only one FirstOf can take, *)
(* and two ends contradict each other when the log asserts more than one.      *)
LEMMA FirstIsFirst ==
  ASSUME NEW S, NEW t, log \subseteq LogEntry, FirstTime(t, S, log)
  PROVE  t = FirstOf(S)
<1>1. \A x \in TimesOf(S) : x \in Nat
  BY MaxTimeAssumption DEF TimesOf, LogEntry, Times
<1>2. CASE \A e \in log : ~Says(e, S)
  <2>1. TimesOf(S) = {} /\ t = 0
    BY <1>2 DEF TimesOf, FirstTime, Says
  <2> QED BY <2>1 DEF FirstOf
<1>3. CASE \E e \in log : Says(e, S)
  <2>1. t \in TimesOf(S) /\ \A y \in TimesOf(S) : t <= y
    BY <1>3 DEF TimesOf, FirstTime, Says
  <2>2. \A x \in TimesOf(S) : (\A y \in TimesOf(S) : x <= y) => x = t
    BY <1>1, <2>1
  <2> QED BY <2>1, <2>2 DEF FirstOf
<1> QED BY <1>2, <1>3

LEMMA EndsFinite == IsFiniteSet(Asserted \cap Terminals)
<1>1. IsFiniteSet({"Completed"})
  BY FS_Singleton
<1>2. IsFiniteSet({"Completed"} \cup {"Failed"})
  BY <1>1, FS_AddElement
<1>3. IsFiniteSet(({"Completed"} \cup {"Failed"}) \cup {"Blocked"})
  BY <1>2, FS_AddElement
<1>4. Terminals = ({"Completed"} \cup {"Failed"}) \cup {"Blocked"}
  BY DEF Terminals
<1> QED BY <1>3, <1>4, FS_Subset

LEMMA ClashesCounted ==
  ASSUME NEW p \in Projection, Summary(p, log)
  PROVE  /\ isTerminal(p.status) <=> Asserted \cap Terminals # {}
         /\ p.notes # {} <=> Cardinality(Asserted \cap Terminals) > 1
<1> DEFINE T == Asserted \cap Terminals
<1>1. EndShown(p.status, log) /\ ClashNoted(p.status, p.notes, log)
  BY DEF Summary
<1>2. \A s : s \in Terminals <=> isTerminal(s)
  BY DEF Terminals, isTerminal, statusRank
<1>3. \A s : s \in T <=> isTerminal(s) /\ \E e \in log : statusFor(e.type) = s
  <2>1. ~isTerminal(NoStatus)
    BY DEF isTerminal, statusRank, NoStatus
  <2> QED BY <1>2, <2>1 DEF Asserted
<1>4. isTerminal(p.status) <=> T # {}
  BY <1>1, <1>3 DEF EndShown
<1>5. isTerminal(p.status) => p.status \in T
  BY <1>1, <1>3 DEF EndShown
<1>6. p.notes # {} <=> isTerminal(p.status) /\ \E s \in T : s # p.status
  BY <1>1, <1>3 DEF ClashNoted, Contradicts
<1>7. IsFiniteSet(T)
  BY EndsFinite
<1>8. CASE p.notes # {}
  <2>1. PICK s \in T : s # p.status
    BY <1>6, <1>8
  <2>2. IsFiniteSet({s}) /\ Cardinality({s}) = 1
    BY FS_Singleton
  <2>3. Cardinality({s} \cup {p.status}) = 2
    <3>1. p.status \notin {s}
      BY <2>1
    <3>2. Cardinality({s} \cup {p.status}) = Cardinality({s}) + 1
      BY <2>2, <3>1, FS_AddElement
    <3> QED BY <2>2, <3>2
  <2>4. {s} \cup {p.status} \in SUBSET T
    BY <1>5, <1>6, <1>8, <2>1
  <2>5. Cardinality({s} \cup {p.status}) <= Cardinality(T)
    BY <1>7, <2>4, FS_Subset
  <2>6. Cardinality(T) \in Nat
    BY <1>7, FS_CardinalityType
  <2> HIDE DEF T
  <2>7. Cardinality(T) > 1
    BY <2>3, <2>5, <2>6
  <2> QED BY <1>4, <1>8, <2>7 DEF T
<1>9. CASE p.notes = {}
  <2>1. T = {} \/ T = {p.status}
    BY <1>4, <1>5, <1>6, <1>9
  <2>2. Cardinality(T) \in {0, 1}
    BY <2>1, FS_EmptySet, FS_Singleton
  <2> HIDE DEF T
  <2>3. ~(Cardinality(T) > 1)
    BY <2>2
  <2> QED BY <1>4, <1>9, <2>3 DEF T
<1> QED BY <1>8, <1>9

(* run_reducer.go's "applying the same set of events in any order gives the    *)
(* same result", for what does not depend on it: whatever the writers'         *)
(* interleaving, clocks, lost writes, recoveries and contradictory ends, a      *)
(* fully projected log has the earliest times, the latest one, and a noted      *)
(* contradiction exactly when it holds two different ends.  The rebuild, which  *)
(* replaces the projection, is left out.                                       *)
THEOREM ReducedInAnyOrderSound ==
  ASSUME ~MayRebuild
  PROVE  Spec => []ReducedInAnyOrder
<1>1. Init => OrderInv
  <2> SUFFICES ASSUME Init PROVE OrderInv
    OBVIOUS
  <2>1. Summary(stored.run, applied)
    BY DEF Init, NoProjection, Summary, TimesShown, FirstTime, LastTime, EndShown, ClashNoted, isTerminal, statusRank, NoStatus
  <2> QED BY <2>1, TypesInit DEF OrderInv
<1>2. OrderInv /\ [Next]_vars => OrderInv'
  BY OrderStep
<1>3. OrderInv => ReducedInAnyOrder
  <2> SUFFICES ASSUME OrderInv, applied = log PROVE ReducedInAnyOrder
    BY DEF ReducedInAnyOrder
  <2>1. log \subseteq LogEntry /\ stored.run \in Projection /\ Summary(stored.run, log)
    BY DEF OrderInv, TypeInv, TypeOK, LogEntry
  <2>2. /\ stored.run.queuedAt = FirstOf({"Queued"}) /\ stored.run.startedAt = FirstOf({"Running"})
        /\ stored.run.completedAt = FirstOf({"Completed", "Failed"})
    BY <2>1, FirstIsFirst DEF Summary, TimesShown
  <2>3. /\ \A e \in log : e.at <= stored.run.lastEventAt
        /\ log # {} => \E e \in log : e.at = stored.run.lastEventAt
    BY <2>1 DEF Summary, TimesShown, LastTime
  <2> QED BY <2>1, <2>2, <2>3, ClashesCounted DEF ReducedInAnyOrder
<1> QED BY <1>1, <1>2, <1>3, PTL DEF Spec

-----------------------------------------------------------------------------
(* The replay.  Of events that are free of recoveries and of two different     *)
(* ends, a projection says everything: its times, the highest status they      *)
(* assert, no recovery and no contradiction.                                  *)
Plain(A) == \A d, e \in A : OrderFree(d, e)
Highest(status, A) ==
    \/ status = NoStatus /\ \A e \in A : statusFor(e.type) = NoStatus
    \/ /\ status # NoStatus /\ \E e \in A : statusFor(e.type) = status
       /\ \A e \in A : statusRank(statusFor(e.type)) <= statusRank(status)
Describes(p, A) ==
    /\ TimesShown(p, A) /\ Highest(p.status, A)
    /\ p.wasReclaimed = FALSE /\ p.notes = {}

LEMMA NothingDescribed == NoProjection \in Projection /\ Describes(NoProjection, {})
<1>1. NoProjection \in Projection
  BY MaxTimeAssumption DEF NoProjection, Projection, StampTimes
<1> QED BY <1>1 DEF NoProjection, Describes, TimesShown, FirstTime, LastTime, Highest

(* The status moves to the higher of the two, and nothing contradicts it. *)
LEMMA HighestKept ==
  ASSUME NEW A, NEW e, NEW cur \in Statuses \cup {NoStatus}, Plain(A \cup {e}), Highest(cur, A)
  PROVE  /\ Highest(NextStatus(cur, statusFor(e.type)), A \cup {e})
         /\ ~Contradicts(cur, statusFor(e.type))
<1> DEFINE s == statusFor(e.type)
<1>1. s \in Statuses \cup {NoStatus}
  BY StatusForTyped
<1>2. ~isTerminal(NoStatus) /\ statusRank(NoStatus) = 0 /\ \A x \in Statuses : statusRank(x) \in {10, 20, 30, 40} /\ x # NoStatus
  BY DEF isTerminal, statusRank, NoStatus, Statuses
<1>3. ~Contradicts(cur, s)
  <2>1. CASE cur = NoStatus
    BY <1>2, <2>1 DEF Contradicts
  <2>2. CASE cur # NoStatus
    <3>1. PICK d \in A : statusFor(d.type) = cur
      BY <2>2 DEF Highest
    <3> QED BY <3>1 DEF Plain, OrderFree
  <2> QED BY <2>1, <2>2
<1>4. CASE cur = NoStatus
  <2>1. NextStatus(cur, s) = s /\ \A d \in A : statusFor(d.type) = NoStatus
    BY <1>4 DEF NextStatus, Highest
  <2> QED BY <1>1, <1>2, <1>3, <2>1 DEF Highest
<1>5. CASE cur # NoStatus
  <2>1. /\ NextStatus(cur, s) = IF statusRank(s) > statusRank(cur) THEN s ELSE cur
        /\ \A d \in A : statusRank(statusFor(d.type)) <= statusRank(cur)
        /\ \E d \in A : statusFor(d.type) = cur
    BY <1>3, <1>5 DEF NextStatus, Highest
  <2>2. \A d \in A : statusRank(statusFor(d.type)) \in Nat
    BY <1>2, StatusForTyped
  <2>3. statusRank(s) \in Nat /\ statusRank(cur) \in Nat
    BY <1>1, <1>2
  <2>4. CASE statusRank(s) > statusRank(cur)
    <3>1. s # NoStatus /\ NextStatus(cur, s) = s
      BY <1>2, <2>1, <2>3, <2>4
    <3>2. \A d \in A \cup {e} : statusRank(statusFor(d.type)) <= statusRank(s)
      BY <2>1, <2>2, <2>3, <2>4
    <3> QED BY <1>3, <3>1, <3>2 DEF Highest
  <2>5. CASE ~(statusRank(s) > statusRank(cur))
    <3>1. NextStatus(cur, s) = cur
      BY <2>1, <2>5
    <3>2. \A d \in A \cup {e} : statusRank(statusFor(d.type)) <= statusRank(cur)
      BY <2>1, <2>2, <2>3, <2>5
    <3> QED BY <1>3, <1>5, <2>1, <3>1, <3>2 DEF Highest
  <2> QED BY <2>4, <2>5
<1> QED BY <1>3, <1>4, <1>5

LEMMA DescribesStep ==
  ASSUME NEW A, A \subseteq LogEntry, NEW e \in LogEntry, NEW p \in Projection, Plain(A \cup {e}), Describes(p, A)
  PROVE  ReduceRun(p, e) \in Projection /\ Describes(ReduceRun(p, e), A \cup {e})
<1> DEFINE s == statusFor(e.type)
           r == ReduceRun(p, e)
<1>0. p.status \in Statuses \cup {NoStatus}
  BY DEF Projection
<1>1. TimesShown(r, A \cup {e})
  BY StampsStep DEF Describes
<1>5. e.type # "task.recovery_started"
  BY DEF Plain, OrderFree
<1>6. Highest(NextStatus(p.status, s), A \cup {e}) /\ ~Contradicts(p.status, s)
  BY <1>0, HighestKept DEF Describes
<1>7. r.status = NextStatus(p.status, s) /\ r.wasReclaimed = FALSE /\ r.notes = {}
  BY <1>5, <1>6 DEF ReduceRun, Noted, Describes
<1>8. e \in Event
  BY DEF LogEntry, Event
<1> QED BY <1>1, <1>6, <1>7, <1>8, ReduceTyped DEF Describes

(* Two projections that describe the same events are the same. *)
LEMMA FirstUnique ==
  ASSUME NEW A, A \subseteq LogEntry, NEW S, NEW t, NEW u, FirstTime(t, S, A), FirstTime(u, S, A)
  PROVE  t = u
<1>1. \A e \in A : e.at \in Nat
  BY MaxTimeAssumption DEF LogEntry, Times
<1>2. CASE \A e \in A : ~Says(e, S)
  BY <1>2 DEF FirstTime
<1>3. CASE \E e \in A : Says(e, S)
  BY <1>1, <1>3 DEF FirstTime
<1> QED BY <1>2, <1>3

LEMMA DescribedOnce ==
  ASSUME NEW A, A \subseteq LogEntry, Plain(A), NEW p \in Projection, NEW q \in Projection, Describes(p, A), Describes(q, A)
  PROVE  p = q
<1>1. p.queuedAt = q.queuedAt /\ p.startedAt = q.startedAt /\ p.completedAt = q.completedAt
  BY FirstUnique DEF Describes, TimesShown
<1>2. p.lastEventAt = q.lastEventAt
  <2>1. \A e \in A : e.at \in Nat
    BY MaxTimeAssumption DEF LogEntry, Times
  <2> QED BY <2>1 DEF Describes, TimesShown, LastTime
<1>3. p.status = q.status
  <2>1. Highest(p.status, A) /\ Highest(q.status, A)
    BY DEF Describes
  <2>2. CASE p.status = NoStatus \/ q.status = NoStatus
    BY <2>1, <2>2 DEF Highest
  <2>3. CASE p.status # NoStatus /\ q.status # NoStatus
    <3>1. PICK d \in A, e \in A : statusFor(d.type) = p.status /\ statusFor(e.type) = q.status
      BY <2>1, <2>3 DEF Highest
    <3>2. p.status \in Statuses /\ q.status \in Statuses
      BY <2>3 DEF Projection
    <3>3. ~Contradicts(p.status, q.status)
      BY <3>1 DEF Plain, OrderFree
    <3>4. statusRank(p.status) <= statusRank(q.status) /\ statusRank(q.status) <= statusRank(p.status)
      BY <2>1, <2>3, <3>1 DEF Highest
    <3> QED BY <3>2, <3>3, <3>4 DEF Contradicts, isTerminal, statusRank, Statuses
  <2> QED BY <2>2, <2>3
<1>4. p.wasReclaimed = q.wasReclaimed /\ p.notes = q.notes
  BY DEF Describes
<1> QED BY <1>1, <1>2, <1>3, <1>4 DEF Projection

LEMMA DescribedParts ==
  ASSUME NEW A, NEW B, B \subseteq A, Plain(A) PROVE Plain(B)
BY DEF Plain

(* The least member of a set of numbers, the greatest of a bounded one, and the *)
(* smallest of a set of finite sets.                                           *)
LEMMA LeastOf == ASSUME NEW S \in SUBSET Nat, S # {} PROVE \E m \in S : \A k \in S : m <= k
PROOF
<1> DEFINE R == OpToRel(<, Nat)
<1>1. IsWellFoundedOn(R, Nat)
  BY NatLessThanWellFounded
<1>2. \A x, y \in Nat : x < y => <<x, y>> \in R
  BY DEF OpToRel
<1> HIDE DEF R
<1>3. PICK m \in S : \A k \in S : ~(<<k, m>> \in R)
  BY <1>1, WFMin
<1>4. \A k \in S : m \in Nat /\ k \in Nat /\ ~(k < m)
  BY <1>2, <1>3
<1> QED BY <1>4

LEMMA GreatestOf ==
  ASSUME NEW N \in SUBSET Nat, N # {}, NEW b \in Nat, \A k \in N : k <= b
  PROVE  \E m \in N : \A k \in N : k <= m
<1>1. PICK M : M = {b - k : k \in N}
  OBVIOUS
<1>2. \A k \in N : k \in Nat /\ b - k \in Nat
  OBVIOUS
<1>3. M \in SUBSET Nat /\ M # {}
  BY <1>1, <1>2
<1>4. PICK m \in M : \A k \in M : m <= k
  BY <1>3, LeastOf
<1>5. PICK x \in N : m = b - x
  BY <1>1
<1>6. \A k \in N : b - x <= b - k
  BY <1>1, <1>4, <1>5
<1> QED BY <1>2, <1>6

LEMMA SmallestSet ==
  ASSUME NEW L, IsFiniteSet(L), NEW C \in SUBSET SUBSET L, C # {}
  PROVE  \E S \in C : \A T \in C : Cardinality(S) <= Cardinality(T)
<1>1. PICK N : N = {Cardinality(S) : S \in C}
  OBVIOUS
<1>2. \A S \in C : Cardinality(S) \in Nat
  BY FS_Subset, FS_CardinalityType
<1>3. N \in SUBSET Nat /\ N # {}
  BY <1>1, <1>2
<1>4. PICK m \in N : \A k \in N : m <= k
  BY <1>3, LeastOf
<1>5. PICK S \in C : Cardinality(S) = m
  BY <1>1
<1> QED BY <1>1, <1>4, <1>5

(* Sequence numbers tell the events of a log apart and stay behind a clock.    *)
Numbered(S, b) ==
    /\ \A e \in S : e.seq <= b
    /\ \A d, e \in S : d.seq = e.seq => d = e

(* producer.go: EventLess orders events with distinct sequence numbers         *)
(* totally, so one of them is the newest.                                     *)
LEMMA NewestThere ==
  ASSUME NEW S, S \subseteq LogEntry, S # {}, NEW b \in Nat, Numbered(S, b)
  PROVE  Newest(S) \in S
<1>1. \A e \in S : e.at \in Nat /\ e.at <= MaxTime /\ e.producer \in Nat /\ e.producer <= 4 /\ e.seq \in Nat /\ e.seq <= b
  BY MaxTimeAssumption DEF LogEntry, Times, Numbered
<1>2. PICK x \in S : \A e \in S : e.at <= x.at
  <2> DEFINE N == {e.at : e \in S}
  <2>1. N \in SUBSET Nat /\ N # {} /\ (\A k \in N : k <= MaxTime) /\ MaxTime \in Nat
    BY <1>1, MaxTimeAssumption
  <2>2. \E m \in N : \A k \in N : k <= m
    <3> HIDE DEF N
    <3> QED BY <2>1, GreatestOf
  <2> QED BY <2>2
<1>3. PICK y \in S : y.at = x.at /\ \A e \in S : e.at = x.at => e.producer <= y.producer
  <2> DEFINE N == {e.producer : e \in {d \in S : d.at = x.at}}
  <2>1. N \in SUBSET Nat /\ N # {} /\ (\A k \in N : k <= 4) /\ 4 \in Nat
    BY <1>1
  <2>2. \E m \in N : \A k \in N : k <= m
    <3> HIDE DEF N
    <3> QED BY <2>1, GreatestOf
  <2> QED BY <2>2
<1>4. PICK z \in S : /\ z.at = x.at /\ z.producer = y.producer
                     /\ \A e \in S : e.at = x.at /\ e.producer = y.producer => e.seq <= z.seq
  <2> DEFINE N == {e.seq : e \in {d \in S : d.at = x.at /\ d.producer = y.producer}}
  <2>1. N \in SUBSET Nat /\ N # {} /\ (\A k \in N : k <= b) /\ b \in Nat
    BY <1>1, <1>3
  <2>2. \E m \in N : \A k \in N : k <= m
    <3> HIDE DEF N
    <3> QED BY <2>1, GreatestOf
  <2> QED BY <2>2
<1>5. ASSUME NEW d \in S \ {z} PROVE EventLess(d, z)
  <2>1. d.seq # z.seq
    BY DEF Numbered
  <2>2. CASE d.at # x.at
    BY <1>1, <1>2, <1>4, <2>2 DEF EventLess
  <2>3. CASE d.at = x.at /\ d.producer # y.producer
    BY <1>1, <1>3, <1>4, <2>3 DEF EventLess
  <2>4. CASE d.at = x.at /\ d.producer = y.producer
    BY <1>1, <1>4, <2>1, <2>4 DEF EventLess
  <2> QED BY <2>2, <2>3, <2>4
<1>6. \E e \in S : \A d \in S \ {e} : EventLess(d, e)
  BY <1>5
<1> QED BY <1>6, Zenon DEF Newest

(* Every finite set of plain events is described by some projection. *)
LEMMA DescriptionThere ==
  ASSUME NEW L, L \subseteq LogEntry, IsFiniteSet(L), Plain(L)
  PROVE  \A S \in SUBSET L : \E p \in Projection : Describes(p, S)
<1> DEFINE C == {S \in SUBSET L : ~\E p \in Projection : Describes(p, S)}
<1> SUFFICES ASSUME C # {} PROVE FALSE
  OBVIOUS
<1>1. PICK S \in C : \A T \in C : Cardinality(S) <= Cardinality(T)
  <2>1. C \in SUBSET SUBSET L
    OBVIOUS
  <2> HIDE DEF C
  <2> QED BY <2>1, SmallestSet
<1>2. S # {}
  BY NothingDescribed
<1>3. PICK e \in S : TRUE
  BY <1>2
<1>4. IsFiniteSet(S) /\ Cardinality(S) \in Nat /\ Cardinality(S \ {e}) = Cardinality(S) - 1
  BY FS_Subset, FS_CardinalityType, FS_RemoveElement
<1>5. S \ {e} \in SUBSET L /\ S \ {e} \notin C
  BY <1>1, <1>4
<1>6. PICK p \in Projection : Describes(p, S \ {e})
  BY <1>5
<1>7. (S \ {e}) \cup {e} = S /\ S \ {e} \subseteq LogEntry /\ e \in LogEntry /\ Plain(S)
  BY DescribedParts
<1>8. ReduceRun(p, e) \in Projection /\ Describes(ReduceRun(p, e), S)
  BY <1>6, <1>7, DescribesStep
<1> QED BY <1>8

LEMMA StepReduces == ASSUME NEW p, NEW e PROVE Step({p}, e) = ReduceRun(p, e)
BY DEF Step

(* computeRunProjection (events/projection.go): the replay of a plain log       *)
(* describes it.  The recursive function exists since the descriptions satisfy   *)
(* its equation, and whatever satisfies it describes every part of the log, by   *)
(* the smallest part it would not.                                            *)
LEMMA ReplayDescribes ==
  ASSUME NEW L, L \subseteq LogEntry, IsFiniteSet(L), Plain(L), NEW b \in Nat, Numbered(L, b)
  PROVE  Fold(L) \in Projection /\ Describes(Fold(L), L)
<1> DEFINE Replays(f) == f = [S \in SUBSET L |-> IF S = {} THEN NoProjection
                                                 ELSE LET e == Newest(S) IN Step({f[S \ {e}]}, e)]
<1>1. \A S \in SUBSET L : S # {} => /\ Newest(S) \in S /\ S \ {Newest(S)} \in SUBSET L
                                    /\ Cardinality(S \ {Newest(S)}) < Cardinality(S)
  <2> SUFFICES ASSUME NEW S \in SUBSET L, S # {}
               PROVE  /\ Newest(S) \in S /\ S \ {Newest(S)} \in SUBSET L
                      /\ Cardinality(S \ {Newest(S)}) < Cardinality(S)
    OBVIOUS
  <2>1. Newest(S) \in S
    <3>1. S \subseteq LogEntry /\ Numbered(S, b)
      BY DEF Numbered
    <3> QED BY <3>1, NewestThere
  <2>2. IsFiniteSet(S) /\ Cardinality(S) \in Nat
    BY FS_Subset, FS_CardinalityType
  <2>3. Cardinality(S \ {Newest(S)}) = Cardinality(S) - 1
    BY <2>1, <2>2, FS_RemoveElement
  <2> QED BY <2>1, <2>2, <2>3
<1>2. ASSUME NEW S \in SUBSET L, S # {}, NEW p \in Projection, Describes(p, S \ {Newest(S)})
      PROVE  ReduceRun(p, Newest(S)) \in Projection /\ Describes(ReduceRun(p, Newest(S)), S)
  <2>1. PICK e : e = Newest(S) /\ e \in S
    BY <1>1, <1>2
  <2>2. (S \ {e}) \cup {e} = S /\ S \ {e} \subseteq LogEntry /\ e \in LogEntry /\ Plain(S)
    BY <2>1, DescribedParts
  <2> QED BY <1>2, <2>1, <2>2, DescribesStep
<1>3. \E f : Replays(f)
  <2>1. PICK g : g = [S \in SUBSET L |-> CHOOSE p \in Projection : Describes(p, S)]
    OBVIOUS
  <2>2. \A S \in SUBSET L : g[S] \in Projection /\ Describes(g[S], S)
    <3> SUFFICES ASSUME NEW S \in SUBSET L PROVE g[S] \in Projection /\ Describes(g[S], S)
      OBVIOUS
    <3>1. \E p \in Projection : Describes(p, S)
      BY DescriptionThere
    <3>2. g[S] = CHOOSE p \in Projection : Describes(p, S)
      BY <2>1
    <3> QED BY <3>1, <3>2
  <2>3. ASSUME NEW S \in SUBSET L
        PROVE  g[S] = IF S = {} THEN NoProjection ELSE LET e == Newest(S) IN Step({g[S \ {e}]}, e)
    <3>0. S \subseteq LogEntry /\ Plain(S)
      BY DescribedParts
    <3>1. CASE S = {}
      BY <2>2, <3>0, <3>1, NothingDescribed, DescribedOnce
    <3>2. CASE S # {}
      <4>1. PICK p : p = g[S \ {Newest(S)}]
        OBVIOUS
      <4>2. p \in Projection /\ Describes(p, S \ {Newest(S)})
        BY <1>1, <2>2, <3>2, <4>1
      <4>3. ReduceRun(p, Newest(S)) \in Projection /\ Describes(ReduceRun(p, Newest(S)), S)
        BY <1>2, <3>2, <4>2
      <4>4. g[S] = ReduceRun(p, Newest(S))
        BY <2>2, <3>0, <4>3, DescribedOnce
      <4>5. Step({p}, Newest(S)) = ReduceRun(p, Newest(S))
        BY StepReduces
      <4> QED BY <3>2, <4>1, <4>4, <4>5
    <3> QED BY <3>1, <3>2
  <2>4. Replays(g)
    BY <2>1, <2>3
  <2> QED BY <2>4
<1>4. PICK f : f = CHOOSE h : Replays(h)
  OBVIOUS
<1>5. Replays(f)
  <2> HIDE DEF Replays
  <2> QED BY <1>3, <1>4
<1>6. Fold(L) = f[L]
  BY <1>4 DEF Fold
<1> DEFINE C == {S \in SUBSET L : ~(f[S] \in Projection /\ Describes(f[S], S))}
<1>7. C = {}
  <2> SUFFICES ASSUME C # {} PROVE FALSE
    OBVIOUS
  <2>1. PICK S \in C : \A T \in C : Cardinality(S) <= Cardinality(T)
    <3>1. C \in SUBSET SUBSET L
      OBVIOUS
    <3> HIDE DEF C
    <3> QED BY <3>1, SmallestSet
  <2>2. f[S] = IF S = {} THEN NoProjection ELSE Step({f[S \ {Newest(S)}]}, Newest(S))
    BY <1>5
  <2>3. S # {}
    BY <2>2, NothingDescribed
  <2>4. PICK p : p = f[S \ {Newest(S)}]
    OBVIOUS
  <2>5. IsFiniteSet(S) /\ Cardinality(S) \in Nat /\ S \ {Newest(S)} \in SUBSET L
        /\ Cardinality(S \ {Newest(S)}) < Cardinality(S) /\ Cardinality(S \ {Newest(S)}) \in Nat
    BY <1>1, <2>3, FS_Subset, FS_CardinalityType
  <2>6. S \ {Newest(S)} \notin C
    <3> HIDE DEF C
    <3> QED BY <2>1, <2>5
  <2>7. p \in Projection /\ Describes(p, S \ {Newest(S)})
    BY <2>4, <2>5, <2>6
  <2>8. f[S] = ReduceRun(p, Newest(S))
    BY <2>2, <2>3, <2>4, StepReduces
  <2> QED BY <1>2, <2>3, <2>7, <2>8
<1> QED BY <1>6, <1>7

-----------------------------------------------------------------------------
(* A log is finite and its events are numbered by the clock (the producer's     *)
(* sequence, producer.go); while what is projected is plain, the projection     *)
(* describes it.                                                              *)
LogNumbered == IsFiniteSet(log) /\ Numbered(log, tick)
ReplayInv == OrderInv /\ LogNumbered /\ (Plain(applied) => Describes(stored.run, applied))

LEMMA NumberedStep ==
  ASSUME TypeInv, LogNumbered, NEW w \in Writers, LogEventWith(w)
  PROVE  LogNumbered'
<1>1. PICK e : e = [type |-> ev[w].type, at |-> tick + 1 + Offset[w], producer |-> Producer(w), seq |-> tick + 1]
  OBVIOUS
<1>2. log' \in {log, log \cup {e}} /\ tick' = tick + 1
  BY <1>1 DEF LogEventWith
<1>3. e.seq = tick + 1
  BY <1>1
<1>4. tick \in Nat /\ \A d \in log : d.seq \in Nat /\ d.seq <= tick
  BY DEF TypeInv, TypeOK, LogNumbered, Numbered
<1>5. IsFiniteSet(log')
  BY <1>2, FS_AddElement DEF LogNumbered
<1>6. \A d, c \in log \cup {e} : d.seq <= tick + 1 /\ (d.seq = c.seq => d = c)
  BY <1>3, <1>4 DEF LogNumbered, Numbered
<1> QED BY <1>2, <1>5, <1>6 DEF LogNumbered, Numbered

(* Two different ends of a projected log would contradict each other, and a     *)
(* log with at most one end and no recovery is plain.                          *)
LEMMA OneEndIsPlain ==
  ASSUME OrderInv, applied = log, Cardinality(Asserted \cap Terminals) <= 1,
         \A e \in log : e.type # "task.recovery_started"
  PROVE  Plain(log)
<1>1. log \subseteq LogEntry /\ stored.run \in Projection /\ Summary(stored.run, log)
  BY DEF OrderInv, TypeInv, TypeOK, LogEntry
<1>2. stored.run.notes = {}
  <2>1. stored.run.notes # {} <=> Cardinality(Asserted \cap Terminals) > 1
    BY <1>1, ClashesCounted
  <2>2. IsFiniteSet(Asserted \cap Terminals)
    BY EndsFinite
  <2>3. Cardinality(Asserted \cap Terminals) \in Nat
    BY <2>2, FS_CardinalityType
  <2> QED BY <2>1, <2>3
<1>3. \A e \in log : ~Contradicts(stored.run.status, statusFor(e.type))
  BY <1>1, <1>2 DEF Summary, ClashNoted
<1>4. \A e \in log : isTerminal(statusFor(e.type)) => statusFor(e.type) = stored.run.status
  BY <1>1, <1>3 DEF Summary, EndShown, Contradicts
<1>5. \A d, e \in log : ~Contradicts(statusFor(d.type), statusFor(e.type))
  BY <1>4 DEF Contradicts
<1> QED BY <1>5 DEF Plain, OrderFree

(* producer.go: "Projections do not depend on this ordering at all".  Whatever  *)
(* the interleaving of the writers, their clocks and the writes they lost, a     *)
(* log without a recovery and without two different ends that is projected in   *)
(* the order of arrival is projected as its replay in the order of event times.  *)
THEOREM ReplayAgreesSound ==
  ASSUME ~MayRebuild
  PROVE  Spec => []ReplayAgrees
<1>1. Init => ReplayInv
  <2> SUFFICES ASSUME Init PROVE ReplayInv
    OBVIOUS
  <2>1. Summary(stored.run, applied)
    BY DEF Init, NoProjection, Summary, TimesShown, FirstTime, LastTime, EndShown, ClashNoted, isTerminal, statusRank, NoStatus
  <2>2. LogNumbered
    BY FS_EmptySet DEF Init, LogNumbered, Numbered
  <2>3. Describes(stored.run, applied)
    BY NothingDescribed DEF Init
  <2> QED BY <2>1, <2>2, <2>3, TypesInit DEF ReplayInv, OrderInv
<1>2. ReplayInv /\ [Next]_vars => ReplayInv'
  <2> SUFFICES ASSUME ReplayInv, [Next]_vars PROVE ReplayInv'
    OBVIOUS
  <2>1. OrderInv'
    BY OrderStep DEF ReplayInv
  <2>2. CASE UNCHANGED <<stored, applied, log, tick>>
    BY <2>1, <2>2 DEF ReplayInv, LogNumbered
  <2>3. ASSUME NEW w \in Writers, LogEventWith(w) PROVE ReplayInv'
    <3>1. LogNumbered' /\ UNCHANGED <<stored, applied>>
      BY <2>3, NumberedStep DEF ReplayInv, OrderInv, LogEventWith
    <3> QED BY <2>1, <3>1 DEF ReplayInv
  <2>4. ASSUME NEW w \in Writers, UpdateProjection(w) PROVE ReplayInv'
    <3>1. /\ applied \subseteq LogEntry /\ ev[w] \in LogEntry /\ stored.run \in Projection
      BY <2>4, ProjectDoes DEF ReplayInv, OrderInv, TypeInv, TypeOK, LogEntry
    <3>2. UNCHANGED <<log, tick>>
      BY <2>4 DEF UpdateProjection
    <3>3. CASE UNCHANGED <<stored, applied>>
      BY <2>2, <3>2, <3>3
    <3>4. CASE stored'.run = ReduceRun(stored.run, ev[w]) /\ applied' = applied \cup {ev[w]}
      <4>1. ASSUME Plain(applied \cup {ev[w]}) PROVE Describes(ReduceRun(stored.run, ev[w]), applied \cup {ev[w]})
        <5>1. Plain(applied)
          BY <4>1, DescribedParts
        <5>2. Describes(stored.run, applied)
          BY <5>1 DEF ReplayInv
        <5> QED BY <3>1, <4>1, <5>2, DescribesStep
      <4>2. Plain(applied') => Describes(stored'.run, applied')
        BY <3>4, <4>1
      <4>3. LogNumbered'
        BY <3>2 DEF LogNumbered, ReplayInv
      <4> QED BY <2>1, <4>2, <4>3 DEF ReplayInv
    <3>5. \/ stored'.run = ReduceRun(stored.run, ev[w]) /\ applied' = applied \cup {ev[w]}
          \/ UNCHANGED <<stored, applied>>
      BY <2>4, ProjectDoes DEF ReplayInv, OrderInv
    <3> QED BY <3>3, <3>4, <3>5
  <2>5. CASE Next
    <3>1. ASSUME NEW w \in Writers, Marks(w) PROVE UNCHANGED <<stored, applied, log, tick>>
      BY <3>1 DEF Marks, Marked
    <3>2. ASSUME NEW w \in Consumers, Moves(w) PROVE UNCHANGED <<stored, applied, log, tick>>
      BY <3>2 DEF Moves
    <3> QED BY <2>2, <2>3, <2>4, <2>5, <3>1, <3>2, StepsAre DEF ReplayInv, OrderInv, RebuildRead
  <2> QED BY <2>2, <2>5 DEF vars
<1>3. ReplayInv => ReplayAgrees
  <2> SUFFICES ASSUME ReplayInv, applied = log, Cardinality(Asserted \cap Terminals) <= 1,
                      \A e \in log : e.type # "task.recovery_started"
               PROVE  stored.run = Fold(log)
    BY DEF ReplayAgrees
  <2>1. log \subseteq LogEntry /\ stored.run \in Projection /\ tick \in Nat /\ IsFiniteSet(log) /\ Numbered(log, tick)
    BY DEF ReplayInv, OrderInv, TypeInv, TypeOK, LogEntry, LogNumbered
  <2>2. Plain(log)
    BY OneEndIsPlain DEF ReplayInv
  <2>3. Describes(stored.run, log)
    BY <2>2 DEF ReplayInv
  <2>4. Fold(log) \in Projection /\ Describes(Fold(log), log)
    BY <2>1, <2>2, ReplayDescribes
  <2> QED BY <2>1, <2>2, <2>3, <2>4, DescribedOnce
<1> QED BY <1>1, <1>2, <1>3, PTL DEF Spec
=============================================================================
