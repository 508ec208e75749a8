----------------------------- MODULE RunReducer -----------------------------
(***************************************************************************)
(* The pure reducer behind the run projection (events/run_reducer.go) and   *)
(* the total order of the event log (events/producer.go).  An event is the  *)
(* part of an envelope they read; a time is a natural number and 0 is Go's  *)
(* zero time.                                                               *)
(***************************************************************************)
EXTENDS Naturals

CONSTANT MaxTime          \* bound: the latest time an event can carry
ASSUME MaxTimeAssumption == MaxTime \in Nat

Times      == 1 .. MaxTime
StampTimes == 0 .. MaxTime          \* 0: not set yet

(* Event types that say something about the run's projection; every other    *)
(* type behaves like "attempt.claimed".                                      *)
EventTypes == {"task.created", "task.rerun_created", "task.queued", "task.started",
               "task.completed", "task.failed", "task.blocked",
               "task.recovery_started", "task.retry_scheduled", "attempt.claimed"}

Statuses == {"Pending", "Queued", "Running", "Completed", "Failed", "Blocked"}
NoStatus == "none"     \* the empty string of the code

statusRank(s) == IF s = "Pending" THEN 10
                 ELSE IF s = "Queued" THEN 20
                 ELSE IF s = "Running" THEN 30
                 ELSE IF s \in {"Completed", "Failed", "Blocked"} THEN 40 ELSE 0

isTerminal(s) == statusRank(s) = 40

(* The status an event type asserts; most assert none. *)
statusFor(type) == IF type \in {"task.created", "task.rerun_created"} THEN "Pending"
                   ELSE IF type = "task.queued" THEN "Queued"
                   ELSE IF type = "task.started" THEN "Running"
                   ELSE IF type = "task.completed" THEN "Completed"
                   ELSE IF type = "task.failed" THEN "Failed"
                   ELSE IF type = "task.blocked" THEN "Blocked" ELSE NoStatus

earliest(current, at) == IF current = 0 \/ at < current THEN at ELSE current
latest(current, at)   == IF at > current THEN at ELSE current

(* The reduced part of models.RunProjection.  A contradiction note is the     *)
(* pair it words: the second terminal status and the one that was kept.      *)
Projection == [status : Statuses \cup {NoStatus},
               queuedAt : StampTimes, startedAt : StampTimes, completedAt : StampTimes,
               lastEventAt : StampTimes, wasReclaimed : BOOLEAN,
               notes : SUBSET (Statuses \X Statuses)]

NoProjection == [status |-> NoStatus, queuedAt |-> 0, startedAt |-> 0, completedAt |-> 0,
                 lastEventAt |-> 0, wasReclaimed |-> FALSE, notes |-> {}]

Contradicts(cur, s) == isTerminal(cur) /\ isTerminal(s) /\ cur # s

LastWins(cur, s) == s                                       \* mutant: the event's status overwrites
(* A status only moves forward; a second, different terminal one, or an event  *)
(* that asserts none, changes nothing.                                        *)
NextStatus(cur, s) ==
    IF cur = NoStatus \/ (~Contradicts(cur, s) /\ statusRank(s) > statusRank(cur)) THEN s ELSE cur

Reopened(cur) == "Queued"                                  \* mutant: a recovery reopens a finished run
Recovered(cur) == IF isTerminal(cur) THEN cur ELSE "Queued"

LatestSeen(current, at, asserted) == IF asserted THEN at ELSE current
                                                           \* mutant: a repeat moves the time
Stamped(current, at, asserted) == IF asserted THEN earliest(current, at) ELSE current

Unnoticed(notes, cur, s) == notes                          \* mutant: no contradiction is recorded
Noted(notes, cur, s) == IF Contradicts(cur, s) THEN notes \cup {<<s, cur>>} ELSE notes

ReduceRun(p, e) ==
    LET s == statusFor(e.type)
        recovery == e.type = "task.recovery_started"
    IN [status       |-> IF recovery THEN Recovered(p.status) ELSE NextStatus(p.status, s),
        queuedAt     |-> Stamped(p.queuedAt, e.at, s = "Queued"),
        startedAt    |-> Stamped(p.startedAt, e.at, s = "Running"),
        completedAt  |-> Stamped(p.completedAt, e.at, s \in {"Completed", "Failed"}),
        lastEventAt  |-> latest(p.lastEventAt, e.at),
        wasReclaimed |-> p.wasReclaimed \/ recovery,
        notes        |-> Noted(p.notes, p.status, s)]

(* The order of events for display and replay: time, producer, sequence.  A   *)
(* producer is one process, so the sequence settles every tie.                *)
ProducerFirst(a, b) == a.producer < b.producer \/ (a.producer = b.producer /\ a.seq < b.seq)
                                                           \* mutant: grouped by process
EventLess(a, b) ==
    \/ a.at < b.at
    \/ a.at = b.at /\ a.producer < b.producer
    \/ a.at = b.at /\ a.producer = b.producer /\ a.seq < b.seq
=============================================================================
