------------------------------ MODULE Delivery ------------------------------
(***************************************************************************)
(* The delivery path of the scheduler: runs (models.Task) and attempts      *)
(* (models.Attempt) in Postgres, one Redis stream with one consumer group,  *)
(* and the three loops of every process that move a run along:              *)
(*   - the scheduler  (worker/scheduler.go)  Pending -> Queued -> message,   *)
(*   - the worker     (worker/worker.go)     message -> attempt -> outcome,  *)
(*   - the reclaimer  (worker/reclaimer.go)  idle messages, recovery.        *)
(*                                                                         *)
(* One action is one database statement or one Redis command together with  *)
(* the control flow up to the next one.  A statement of the code that fails *)
(* is a step too: almost every error of the delivery path is ignored, and   *)
(* what happens then is the point of several properties.  gorm's Save        *)
(* writes the WHOLE row from the copy read earlier, so a thread carries that *)
(* copy (row, la) and every Save writes it back.                            *)
(*                                                                         *)
(* Event writes (events.LogEvent)  and artifact scans do not feed back into *)
(* delivery and are modelled elsewhere.                                     *)
(***************************************************************************)
EXTENDS Naturals, FiniteSets, TLC

CONSTANTS
    Procs,             \* operating system processes running main.go
    MaxJobs,           \* bound: run ids, retry children included
    MaxRoots,          \* bound: runs submitted through the API
    MaxAttempts,       \* bound: attempt ids
    MaxMsgs,           \* bound: stream message ids
    MaxStarts,         \* bound: process starts, so crashes too
    MaxRetries,        \* models.MaxRetries
    MaxConcurrency,    \* MAX_CONCURRENCY
    Budget,            \* how often each kind of fault may happen
    GroupAtStart,      \* the consumer group exists already (any start but the first)
    HeartbeatsMayLapse,\* a live process may fail to write heartbeats for the whole window
    MayDrain,          \* a shutdown signal may arrive
    AtomicPublish,     \* no crash falls between XADD and the published_at update
    SlowPoints         \* where a live consumer may sit past reclaimIdleThreshold

Roles  == {"worker", "reclaimer"}       \* "Consumer-a" and "Consumer_Backup": ids are fixed in main.go
Threads == Procs \X Roles

Jobs     == 1 .. MaxJobs
Attempts == 1 .. MaxAttempts
Msgs     == 1 .. MaxMsgs
NoJob    == 0       \* the job of a message ParseEnvelope rejects
NoMsg    == 0
FaultKinds == {"db", "outage", "wipe", "foreign"}

RunStatus     == {"None", "Pending", "Queued", "Running", "Completed", "Failed"}
TerminalRun   == {"Completed", "Failed"}
AttemptStatus == {"None", "Claimed", "Started", "Succeeded", "Failed", "Abandoned"}
StartedOnly   == {"Started"}                  \* mutant: a claimed attempt is overlooked
Unfinished    == {"Claimed", "Started"}
MsgState      == {"None", "available", "pending", "done", "missed", "wiped"}

TaskRow    == [status : RunStatus, published : BOOLEAN,
               parent : Jobs \cup {NoJob}, retryIndex : Nat]
AttemptRow == [id : Attempts, job : Jobs, role : Roles, status : AttemptStatus, claimedAt : Nat]

NoRow     == [status |-> "None", published |-> FALSE, parent |-> NoJob, retryIndex |-> 0]
NoAttempt == [id |-> 1, job |-> 1, role |-> "worker", status |-> "None", claimedAt |-> 0]

(* Program points of a consumer thread: the loop, prepareRecovery, ProcessTask, the ack. *)
LoopPoints     == {"setup", "idle", "next"}
RecoveryPoints == {"rtask", "rattempts", "revidence", "abandon"}
TaskPoints     == {"load", "check", "claim", "running", "started", "handler",
                   "succeeded", "confirm", "completed",
                   "child", "retryable", "retryAttempt", "spawn",
                   "failAttempt", "failRun"}
OffPoints      == {"dead", "stopped"}
Points == LoopPoints \cup RecoveryPoints \cup TaskPoints \cup OffPoints \cup {"ack"}

(* Between the claim of an attempt and the return of ProcessTask. *)
AttemptPoints == TaskPoints \ {"load", "check", "claim"}

SchedPoints == {"idle", "pick", "add", "mark", "dead", "stopped"}

ASSUME BoundsAssumption ==
    /\ {MaxJobs, MaxAttempts, MaxMsgs, MaxConcurrency} \subseteq Nat \ {0}
    /\ {MaxRoots, MaxStarts, MaxRetries} \subseteq Nat
ASSUME BudgetAssumption == Budget \in [FaultKinds -> Nat]
ASSUME EnvironmentAssumption ==
    /\ {GroupAtStart, HeartbeatsMayLapse, MayDrain, AtomicPublish} \subseteq BOOLEAN
    /\ SlowPoints \subseteq Points \cup {"batch"}

VARIABLES
    \* Postgres
    task,       \* models.Task rows
    att,        \* models.Attempt rows
    nextJob, nextAtt,
    \* Redis
    msg,        \* stream entries and the group's pending list
    nextMsg,
    group,      \* the consumer group exists
    redis,      \* "up" or "down"
    \* processes and the evidence they leave
    proc,       \* "down", "up", "draining" (ctx cancelled)
    starts,     \* process starts so far: the clock of models.Worker.StartedAt
    beat,       \* role -> its newest WorkerHeartbeat is inside the window
    \* consumer threads
    pc, cur,    \* program point, message in hand
    row, la,    \* the copies of the task and the attempt a thread writes back
    batch,      \* what XAUTOCLAIM returned and is not handled yet
    unf,        \* the unfinished attempts prepareRecovery read
    active,     \* workerCounters
    \* scheduler threads
    spc, todo, phase, pubjob,
    spent       \* faults so far

runVars   == <<task, nextJob>>
attVars   == <<att, nextAtt>>
redisVars == <<msg, nextMsg, group, redis>>
procVars  == <<proc, starts, beat>>
threadVars == <<pc, cur, row, la, batch, unf, active>>
schedVars == <<spc, todo, phase, pubjob>>
vars == <<task, nextJob, att, nextAtt, msg, nextMsg, group, redis, proc, starts, beat,
          pc, cur, row, la, batch, unf, active, spc, todo, phase, pubjob, spent>>

-----------------------------------------------------------------------------
(* Faults.                                                                  *)

Spend(kind) == /\ spent[kind] < Budget[kind]
               /\ spent' = [spent EXCEPT ![kind] = @ + 1]

(* A statement on a context that shutdown does not cancel. *)
Db(ok) == IF ok THEN UNCHANGED spent ELSE Spend("db")

(* A statement on the process's own context: after the signal it always fails. *)
DbCtx(p, ok) == IF proc[p] = "draining" THEN ~ok /\ UNCHANGED spent ELSE Db(ok)

RedisCtx(p) == redis = "up" /\ proc[p] = "up"

Job(t) == msg[cur[t]].job

(* gorm Save: the whole row, as an upsert; an error is ignored by every caller. *)
SaveTask(j, r, ok)  == task' = IF ok THEN [task EXCEPT ![j] = r] ELSE task
SaveAttempt(a, ok)  == att' = IF ok THEN [att EXCEPT ![a.id] = a] ELSE att

Goto(t, point) == pc' = [pc EXCEPT ![t] = point]

(* Leaving ProcessTask: the deferred counter release (clamped at 0). *)
Release(t) == active' = [active EXCEPT ![t] = IF @ > 0 THEN @ - 1 ELSE 0]
ReturnLeaking(t) == Goto(t, "ack") /\ UNCHANGED active   \* mutant: the slot is never released
Return(t)  == Goto(t, "ack") /\ Release(t)

-----------------------------------------------------------------------------
(* ProcessTask, one statement at a time.                                    *)

(* The runs a delivery is ignored for. *)
OnlyMissing(r) == r.status = "None"                        \* mutant: no terminal-state guard
NothingToDo(r) == r.status = "None" \/ r.status \in TerminalRun

(* SELECT the task; missing, unreadable or terminal means return. *)
LoadTask(t) ==
    /\ pc[t] = "load"
    /\ \E ok \in BOOLEAN :
         /\ Db(ok)
         /\ LET r == task[Job(t)] IN
            IF ok /\ ~NothingToDo(r)
            THEN /\ row' = [row EXCEPT ![t] = r]
                 /\ Goto(t, "check")
            ELSE Goto(t, "ack") /\ UNCHANGED row
    /\ UNCHANGED <<runVars, attVars, redisVars, procVars, cur, la, batch, unf, active, schedVars>>

(* An unfinished attempt is a duplicate delivery; an error reads as "none". *)
CheckDuplicate(t) ==
    /\ pc[t] = "check"
    /\ \E ok \in BOOLEAN :
         /\ Db(ok)
         /\ IF ok /\ \E a \in Attempts : att[a].job = Job(t) /\ att[a].status \in Unfinished
            THEN Goto(t, "ack")
            ELSE Goto(t, "claim")
    /\ UNCHANGED <<runVars, attVars, redisVars, procVars, cur, row, la, batch, unf, active, schedVars>>

MarkAttemptClaimed(t) ==
    /\ pc[t] = "claim"
    /\ nextAtt <= MaxAttempts
    /\ LET a == [id |-> nextAtt, job |-> Job(t), role |-> t[2], status |-> "Claimed",
                 claimedAt |-> starts]
       IN \E ok \in BOOLEAN :
            /\ Db(ok)
            /\ SaveAttempt(a, ok)
            /\ la' = [la EXCEPT ![t] = a]
    /\ nextAtt' = nextAtt + 1
    /\ active' = [active EXCEPT ![t] = @ + 1]
    /\ Goto(t, "running")
    /\ UNCHANGED <<runVars, redisVars, procVars, cur, row, batch, unf, schedVars>>

(* A Save of the task copy with a new status. *)
MarkRun(t, from, status) ==
    /\ pc[t] = from
    /\ row' = [row EXCEPT ![t].status = status]
    /\ \E ok \in BOOLEAN : Db(ok) /\ SaveTask(Job(t), [row[t] EXCEPT !.status = status], ok)
    /\ UNCHANGED <<nextJob, attVars, redisVars, procVars, cur, la, batch, unf, schedVars>>

(* A Save of the attempt copy with a new status. *)
MarkAttempt(t, from, status) ==
    /\ pc[t] = from
    /\ la' = [la EXCEPT ![t].status = status]
    /\ \E ok \in BOOLEAN : Db(ok) /\ SaveAttempt([la[t] EXCEPT !.status = status], ok)
    /\ UNCHANGED <<runVars, nextAtt, redisVars, procVars, cur, row, batch, unf, schedVars>>

MarkRunRunning(t) ==
    MarkRun(t, "running", "Running") /\ Goto(t, "started") /\ UNCHANGED active

MarkAttemptStarted(t) ==
    MarkAttempt(t, "started", "Started") /\ Goto(t, "handler") /\ UNCHANGED active

(* The handler decides the outcome; a panic is a non-retryable failure. *)
RunHandler(t) ==
    /\ pc[t] = "handler"
    /\ \E branch \in {"succeeded", "child", "failAttempt"} : Goto(t, branch)
    /\ UNCHANGED <<runVars, attVars, redisVars, procVars, cur, row, la, batch, unf, active,
                   schedVars, spent>>

MarkAttemptSucceeded(t) ==
    MarkAttempt(t, "succeeded", "Succeeded") /\ Goto(t, "confirm") /\ UNCHANGED active

Unchecked(t) == TRUE                                       \* mutant: the re-read is not compared
Confirmed(t) == att[la[t].id].status = "Succeeded"

(* Re-read the attempt: without a persisted success the run is not completed. *)
ConfirmSuccess(t) ==
    /\ pc[t] = "confirm"
    /\ \E ok \in BOOLEAN :
         /\ Db(ok)
         /\ IF ok /\ Confirmed(t)
            THEN Goto(t, "completed") /\ UNCHANGED active
            ELSE Return(t)
    /\ UNCHANGED <<runVars, attVars, redisVars, procVars, cur, row, la, batch, unf, schedVars>>

MarkRunCompleted(t) == MarkRun(t, "completed", "Completed") /\ Return(t)

(* An existing retry child ends the handling of a retryable failure at once. *)
CheckRetryChild(t) ==
    /\ pc[t] = "child"
    /\ \E ok \in BOOLEAN :
         /\ Db(ok)
         /\ IF ok /\ \E j \in Jobs : task[j].status # "None" /\ task[j].parent = Job(t)
            THEN Return(t)
            ELSE Goto(t, "retryable") /\ UNCHANGED active
    /\ UNCHANGED <<runVars, attVars, redisVars, procVars, cur, row, la, batch, unf, schedVars>>

MarkRunRetryableFailure(t) ==
    MarkRun(t, "retryable", "Failed") /\ Goto(t, "retryAttempt") /\ UNCHANGED active

MarkRetryAttemptFailed(t) ==
    /\ MarkAttempt(t, "retryAttempt", "Failed")
    /\ IF row[t].retryIndex >= MaxRetries
       THEN Return(t)                                      \* task.retries_exhausted
       ELSE Goto(t, "spawn") /\ UNCHANGED active

SameIndexRow(t) == [status |-> "Pending", published |-> FALSE, parent |-> Job(t),
                    retryIndex |-> row[t].retryIndex]       \* mutant: the chain never ends
RetryRow(t) == [status |-> "Pending", published |-> FALSE, parent |-> Job(t),
                retryIndex |-> row[t].retryIndex + 1]

CreateRetryChild(t) ==
    /\ pc[t] = "spawn"
    /\ nextJob <= MaxJobs
    /\ \E ok \in BOOLEAN :
         /\ Db(ok)
         /\ SaveTask(nextJob, RetryRow(t), ok)
    /\ nextJob' = nextJob + 1
    /\ Return(t)
    /\ UNCHANGED <<attVars, redisVars, procVars, cur, row, la, batch, unf, schedVars>>

MarkAttemptFailed(t) ==
    MarkAttempt(t, "failAttempt", "Failed") /\ Goto(t, "failRun") /\ UNCHANGED active

MarkRunFailed(t) == MarkRun(t, "failRun", "Failed") /\ Return(t)

ProcessTask(t) ==
    \/ LoadTask(t) \/ CheckDuplicate(t) \/ MarkAttemptClaimed(t)
    \/ MarkRunRunning(t) \/ MarkAttemptStarted(t) \/ RunHandler(t)
    \/ MarkAttemptSucceeded(t) \/ ConfirmSuccess(t) \/ MarkRunCompleted(t)
    \/ CheckRetryChild(t) \/ MarkRunRetryableFailure(t) \/ MarkRetryAttemptFailed(t)
    \/ CreateRetryChild(t) \/ MarkAttemptFailed(t) \/ MarkRunFailed(t)

-----------------------------------------------------------------------------
(* The consumer loops around ProcessTask.                                   *)

(* XGROUP CREATE at "$": what the stream holds already is never delivered.  *)
(* Called once at worker start and again by a read that answers NOGROUP.    *)
EnsureGroup(t) ==
    /\ RedisCtx(t[1])
    /\ pc[t] = "setup" \/ (pc[t] = "idle" /\ ~group)
    /\ group' = TRUE
    /\ Goto(t, "idle")
    /\ UNCHANGED <<runVars, attVars, msg, nextMsg, redis, procVars, cur, row, la, batch, unf,
                   active, schedVars, spent>>

(* Where a delivery goes first: a malformed one is only acknowledged. *)
Unparsed(m) == "load"                                      \* mutant: no envelope validation
FirstPoint(m) == IF msg[m].job = NoJob THEN "ack" ELSE "load"

(* XREADGROUP ">" COUNT 1, behind the capacity check of SetupWorker. *)
ReadStream(t) ==
    /\ t[2] = "worker" /\ pc[t] = "idle"
    /\ active[t] < MaxConcurrency
    /\ RedisCtx(t[1]) /\ group
    /\ \E m \in Msgs :
         /\ msg[m].state = "available"
         /\ \A k \in Msgs : msg[k].state = "available" => m <= k
         /\ msg' = [msg EXCEPT ![m].state = "pending"]
         /\ cur' = [cur EXCEPT ![t] = m]
         /\ Goto(t, FirstPoint(m))
    /\ UNCHANGED <<runVars, attVars, nextMsg, group, redis, procVars, row, la, batch, unf, active,
                   schedVars, spent>>

(* The delivery's local variables go out of scope. *)
DropLocals(t) ==
    /\ cur' = [cur EXCEPT ![t] = NoMsg]
    /\ row' = [row EXCEPT ![t] = NoRow]
    /\ la' = [la EXCEPT ![t] = NoAttempt]
    /\ unf' = [unf EXCEPT ![t] = {}]

(* XACK then XDEL on a context shutdown does not cancel.  A failed ack, or  *)
(* one that acknowledges nothing, deletes nothing and is not repeated here. *)
AckAndDelete(t) ==
    /\ pc[t] = "ack"
    /\ msg' = IF redis = "up" /\ msg[cur[t]].state = "pending"
              THEN [msg EXCEPT ![cur[t]].state = "done"] ELSE msg
    /\ Goto(t, IF t[2] = "worker" THEN "idle" ELSE "next")
    /\ DropLocals(t)
    /\ UNCHANGED <<runVars, attVars, nextMsg, group, redis, procVars, batch, active, schedVars, spent>>

(* A pending entry can be idle past reclaimIdleThreshold only if nobody is   *)
(* handling it, or its handler sits at a slow point.                         *)
MayBeIdle(m) ==
    /\ msg[m].state = "pending"
    /\ \A t \in Threads :
         /\ (cur[t] = m /\ pc[t] \notin LoopPoints \cup OffPoints) => pc[t] \in SlowPoints
         /\ (m \in batch[t] /\ pc[t] \notin OffPoints) => "batch" \in SlowPoints

(* XAUTOCLAIM from 0-0: all idle entries (COUNT 10 exceeds MaxMsgs). *)
XAutoClaim(t, claimed) ==
    /\ t[2] = "reclaimer" /\ pc[t] = "idle"
    /\ RedisCtx(t[1]) /\ group
    /\ claimed # {} /\ \A m \in claimed : MayBeIdle(m)
    /\ batch' = [batch EXCEPT ![t] = claimed]
    /\ Goto(t, "next")
    /\ UNCHANGED <<runVars, attVars, redisVars, procVars, cur, row, la, unf, active, schedVars, spent>>

(* The reclaimer prepares the recovery before it reprocesses. *)
NoRecovery(m) == IF msg[m].job = NoJob THEN "ack" ELSE "load"   \* mutant: as before recovery.go
ReclaimPoint(m) == IF msg[m].job = NoJob THEN "ack" ELSE "rtask"

(* The next message of the batch, in stream order; none left ends the pass. *)
NextReclaimed(t) ==
    /\ pc[t] = "next" /\ proc[t[1]] = "up"
    /\ IF batch[t] = {}
       THEN Goto(t, "idle") /\ UNCHANGED <<cur, batch>>
       ELSE \E m \in batch[t] :
              /\ \A k \in batch[t] : m <= k
              /\ cur' = [cur EXCEPT ![t] = m]
              /\ batch' = [batch EXCEPT ![t] = @ \ {m}]
              /\ Goto(t, ReclaimPoint(m))
    /\ UNCHANGED <<runVars, attVars, redisVars, procVars, row, la, unf, active, schedVars, spent>>

(* The three top-of-loop checks of ctx.Done(). *)
StopThread(t) ==
    /\ proc[t[1]] = "draining"
    /\ pc[t] \in LoopPoints
    /\ Goto(t, "stopped")
    /\ UNCHANGED <<runVars, attVars, redisVars, procVars, cur, row, la, batch, unf, active, schedVars,
                   spent>>

-----------------------------------------------------------------------------
(* prepareRecovery.                                                         *)

(* SELECT the task: ANY error reads as "missing" and goes on to ProcessTask. *)
RecoveryReadTask(t) ==
    /\ pc[t] = "rtask"
    /\ \E ok \in BOOLEAN :
         /\ DbCtx(t[1], ok)
         /\ IF ok /\ task[Job(t)].status # "None"
            THEN /\ row' = [row EXCEPT ![t] = task[Job(t)]]
                 /\ Goto(t, "rattempts")
            ELSE Goto(t, "load") /\ UNCHANGED row
    /\ UNCHANGED <<runVars, attVars, redisVars, procVars, cur, la, batch, unf, active, schedVars>>

RecoveryReadAttempts(t) ==
    /\ pc[t] = "rattempts"
    /\ \E ok \in BOOLEAN :
         /\ DbCtx(t[1], ok)
         /\ IF ok
            THEN /\ unf' = [unf EXCEPT ![t] = {a \in Attempts : att[a].job = Job(t)
                                                             /\ att[a].status \in Unfinished}]
                 /\ Goto(t, "revidence")
                 /\ UNCHANGED <<cur, row, la>>
            ELSE Goto(t, "next") /\ DropLocals(t)
    /\ UNCHANGED <<runVars, attVars, redisVars, procVars, batch, active, schedVars>>

(* AttemptOwnerGone: a newer instance of the worker id, or no fresh heartbeat. *)
SilentOnly(a) == ~beat[att[a].role]                        \* mutant: a restart is overlooked
AlwaysGone(a) == TRUE                                      \* mutant: nobody is asked
AttemptOwnerGone(a) == starts > att[a].claimedAt \/ ~beat[att[a].role]

(* PlanRecovery; evidence that cannot be read counts as a live owner. *)
PlanRecovery(t) ==
    /\ pc[t] = "revidence"
    /\ \E ok \in BOOLEAN :
         /\ DbCtx(t[1], ok)
         /\ \/ /\ row[t].status \in TerminalRun \/ unf[t] = {}
               /\ Goto(t, "load") /\ UNCHANGED <<cur, row, la, unf>>
            \/ /\ row[t].status \notin TerminalRun /\ unf[t] # {}
               /\ ok /\ \A a \in unf[t] : AttemptOwnerGone(a)
               /\ Goto(t, "abandon") /\ UNCHANGED <<cur, row, la, unf>>
            \/ /\ row[t].status \notin TerminalRun /\ unf[t] # {}
               /\ ~(ok /\ \A a \in unf[t] : AttemptOwnerGone(a))
               /\ Goto(t, "next") /\ DropLocals(t)
    /\ UNCHANGED <<runVars, attVars, redisVars, procVars, batch, active, schedVars>>

(* MarkAttemptAbandonedFor each attempt read; a failed Save is ignored. *)
AbandonAttempt(t) ==
    /\ pc[t] = "abandon"
    /\ IF unf[t] = {}
       THEN Goto(t, "load") /\ UNCHANGED <<att, unf, spent>>
       ELSE \E a \in unf[t], ok \in BOOLEAN :
              /\ DbCtx(t[1], ok)
              /\ att' = IF ok THEN [att EXCEPT ![a].status = "Abandoned"] ELSE att
              /\ unf' = [unf EXCEPT ![t] = @ \ {a}]
              /\ UNCHANGED pc
    /\ UNCHANGED <<runVars, nextAtt, redisVars, procVars, cur, row, la, batch, active, schedVars>>

PrepareRecovery(t) ==
    RecoveryReadTask(t) \/ RecoveryReadAttempts(t) \/ PlanRecovery(t) \/ AbandonAttempt(t)

-----------------------------------------------------------------------------
(* The scheduler: publishDueTasks.                                          *)

(* redisReachable, then the SELECT of due Pending runs (rows copied). *)
PublishDueTasks(p, due) ==
    /\ spc[p] = "idle" /\ RedisCtx(p)
    /\ todo' = [todo EXCEPT ![p] = {[job |-> j, row |-> task[j]] : j \in due}]
    /\ spc' = [spc EXCEPT ![p] = "pick"]
    /\ UNCHANGED <<runVars, attVars, redisVars, procVars, threadVars, phase, pubjob, spent>>

Due == {j \in Jobs : task[j].status = "Pending"}
NoneStranded == {}                                         \* mutant: no stranded sweep
Stranded == {j \in Jobs : task[j].status = "Queued" /\ ~task[j].published}

(* The next run of the list; a due one is first marked Queued (a whole-row Save). *)
MarkRunQueued(p) ==
    /\ spc[p] = "pick"
    /\ \E e \in todo[p] :
         /\ todo' = [todo EXCEPT ![p] = @ \ {e}]
         /\ pubjob' = [pubjob EXCEPT ![p] = e.job]
         /\ IF phase[p] = "due"
            THEN \E ok \in BOOLEAN : /\ DbCtx(p, ok)
                                     /\ SaveTask(e.job, [e.row EXCEPT !.status = "Queued"], ok)
            ELSE UNCHANGED <<task, spent>>
    /\ spc' = [spc EXCEPT ![p] = "add"]
    /\ UNCHANGED <<nextJob, attVars, redisVars, procVars, threadVars, phase>>

(* XADD.  Without a group the entry lands where "$" will skip it. *)
PublishTask(p) ==
    /\ spc[p] = "add"
    /\ IF RedisCtx(p)
       THEN /\ nextMsg <= MaxMsgs
            /\ msg' = [msg EXCEPT ![nextMsg] =
                         [job |-> pubjob[p], state |-> IF group THEN "available" ELSE "missed"]]
            /\ nextMsg' = nextMsg + 1
            /\ spc' = [spc EXCEPT ![p] = "mark"]
            /\ UNCHANGED pubjob
       ELSE /\ spc' = [spc EXCEPT ![p] = "pick"]            \* task.publish_failed
            /\ pubjob' = [pubjob EXCEPT ![p] = NoJob]
            /\ UNCHANGED <<msg, nextMsg>>
    /\ UNCHANGED <<runVars, attVars, group, redis, procVars, threadVars, todo, phase, spent>>

(* UPDATE published_at alone; its failure leaves the run stranded. *)
MarkPublished(p) ==
    /\ spc[p] = "mark"
    /\ \E ok \in BOOLEAN :
         /\ DbCtx(p, ok)
         /\ task' = IF ok THEN [task EXCEPT ![pubjob[p]].published = TRUE] ELSE task
    /\ spc' = [spc EXCEPT ![p] = "pick"]
    /\ pubjob' = [pubjob EXCEPT ![p] = NoJob]
    /\ UNCHANGED <<nextJob, attVars, redisVars, procVars, threadVars, todo, phase>>

(* findStranded: Queued, unpublished and old enough. *)
FindStranded(p, old) ==
    /\ spc[p] = "pick" /\ todo[p] = {} /\ phase[p] = "due"
    /\ todo' = [todo EXCEPT ![p] = IF proc[p] = "up"
                                   THEN {[job |-> j, row |-> task[j]] : j \in old} ELSE {}]
    /\ phase' = [phase EXCEPT ![p] = "stranded"]
    /\ UNCHANGED <<runVars, attVars, redisVars, procVars, threadVars, spc, pubjob, spent>>

EndPass(p) ==
    /\ spc[p] = "pick" /\ todo[p] = {} /\ phase[p] = "stranded"
    /\ spc' = [spc EXCEPT ![p] = "idle"]
    /\ phase' = [phase EXCEPT ![p] = "due"]
    /\ UNCHANGED <<runVars, attVars, redisVars, procVars, threadVars, todo, pubjob, spent>>

StopScheduler(p) ==
    /\ spc[p] = "idle" /\ proc[p] = "draining"
    /\ spc' = [spc EXCEPT ![p] = "stopped"]
    /\ UNCHANGED <<runVars, attVars, redisVars, procVars, threadVars, todo, phase, pubjob, spent>>

Scheduler(p) ==
    \/ \E due \in SUBSET Due : PublishDueTasks(p, due)
    \/ MarkRunQueued(p) \/ PublishTask(p) \/ MarkPublished(p)
    \/ \E old \in SUBSET Stranded : FindStranded(p, old)
    \/ EndPass(p) \/ StopScheduler(p)

-----------------------------------------------------------------------------
(* Submissions, processes, Redis, time.                                     *)

(* CreateTask_Direct, seen from delivery: a new Pending root run. *)
Submit ==
    /\ nextJob <= MaxJobs
    /\ Cardinality({j \in Jobs : task[j].status # "None" /\ task[j].parent = NoJob}) < MaxRoots
    /\ task' = [task EXCEPT ![nextJob] = [NoRow EXCEPT !.status = "Pending"]]
    /\ nextJob' = nextJob + 1
    /\ UNCHANGED <<attVars, redisVars, procVars, threadVars, schedVars, spent>>

(* main: the loops start, each registers a new instance and beats at once. *)
Start(p) ==
    /\ proc[p] = "down" /\ starts < MaxStarts
    /\ proc' = [proc EXCEPT ![p] = "up"]
    /\ starts' = starts + 1
    /\ beat' = [r \in Roles |-> TRUE]
    /\ pc' = [t \in Threads |-> IF t[1] # p THEN pc[t]
                                ELSE IF t[2] = "worker" THEN "setup" ELSE "idle"]
    /\ spc' = [spc EXCEPT ![p] = "idle"]
    /\ UNCHANGED <<runVars, attVars, redisVars, cur, row, la, batch, unf, active, todo, phase, pubjob,
                   spent>>

(* What p's threads held in memory is lost. *)
Lost(p, f, empty) == [t \in Threads |-> IF t[1] = p THEN empty ELSE f[t]]

(* The process is gone, at any point of any of its threads. *)
Down(p) ==
    /\ proc' = [proc EXCEPT ![p] = "down"]
    /\ pc' = Lost(p, pc, "dead")
    /\ cur' = Lost(p, cur, NoMsg)
    /\ row' = Lost(p, row, NoRow)
    /\ la' = Lost(p, la, NoAttempt)
    /\ batch' = Lost(p, batch, {})
    /\ unf' = Lost(p, unf, {})
    /\ active' = Lost(p, active, 0)
    /\ spc' = [spc EXCEPT ![p] = "dead"]
    /\ todo' = [todo EXCEPT ![p] = {}]
    /\ phase' = [phase EXCEPT ![p] = "due"]
    /\ pubjob' = [pubjob EXCEPT ![p] = NoJob]
    /\ UNCHANGED <<runVars, attVars, redisVars, starts, beat, spent>>

(* A crash; a supervisor restarts the process while MaxStarts allows. *)
Crash(p) ==
    /\ proc[p] = "up" /\ starts < MaxStarts
    /\ AtomicPublish => spc[p] # "mark"
    /\ Down(p)

(* SIGTERM cancels the process's context. *)
Shutdown(p) ==
    /\ MayDrain /\ proc[p] = "up" /\ starts < MaxStarts
    /\ proc' = [proc EXCEPT ![p] = "draining"]
    /\ UNCHANGED <<runVars, attVars, redisVars, starts, beat, threadVars, schedVars, spent>>

(* main returns: every loop stopped, or the 40 s of the phase are over. *)
Exit(p) == proc[p] = "draining" /\ Down(p)

(* The newest heartbeat of a role leaves the freshness window. *)
BeatLapses(r) ==
    /\ beat[r]
    /\ HeartbeatsMayLapse \/ \A p \in Procs : proc[p] # "up"
    /\ beat' = [beat EXCEPT ![r] = FALSE]
    /\ UNCHANGED <<runVars, attVars, redisVars, proc, starts, threadVars, schedVars, spent>>

StartHeartbeat(r) ==
    /\ ~beat[r] /\ \E p \in Procs : proc[p] = "up"
    /\ beat' = [beat EXCEPT ![r] = TRUE]
    /\ UNCHANGED <<runVars, attVars, redisVars, proc, starts, threadVars, schedVars, spent>>

RedisDown ==
    /\ redis = "up" /\ Spend("outage")
    /\ redis' = "down"
    /\ UNCHANGED <<runVars, attVars, msg, nextMsg, group, procVars, threadVars, schedVars>>

RedisUp ==
    /\ redis = "down" /\ redis' = "up"
    /\ UNCHANGED <<runVars, attVars, msg, nextMsg, group, procVars, threadVars, schedVars, spent>>

(* A Redis restart without persistence: stream and group are gone. *)
RedisWipe ==
    /\ redis = "up" /\ Spend("wipe")
    /\ msg' = [m \in Msgs |-> IF msg[m].state = "None" THEN msg[m] ELSE [msg[m] EXCEPT !.state = "wiped"]]
    /\ group' = FALSE
    /\ UNCHANGED <<runVars, attVars, nextMsg, redis, procVars, threadVars, schedVars>>

(* An entry without a usable job_id, written by something else. *)
ForeignAdd ==
    /\ redis = "up" /\ group /\ nextMsg <= MaxMsgs /\ Spend("foreign")
    /\ msg' = [msg EXCEPT ![nextMsg] = [job |-> NoJob, state |-> "available"]]
    /\ nextMsg' = nextMsg + 1
    /\ UNCHANGED <<runVars, attVars, group, redis, procVars, threadVars, schedVars>>

-----------------------------------------------------------------------------
Init ==
    /\ task = [j \in Jobs |-> NoRow] /\ nextJob = 1
    /\ att = [a \in Attempts |-> [NoAttempt EXCEPT !.id = a]] /\ nextAtt = 1
    /\ msg = [m \in Msgs |-> [job |-> NoJob, state |-> "None"]] /\ nextMsg = 1
    /\ group = GroupAtStart /\ redis = "up"
    /\ proc = [p \in Procs |-> "down"] /\ starts = 0
    /\ beat = [r \in Roles |-> FALSE]
    /\ pc = [t \in Threads |-> "dead"] /\ cur = [t \in Threads |-> NoMsg]
    /\ row = [t \in Threads |-> NoRow] /\ la = [t \in Threads |-> NoAttempt]
    /\ batch = [t \in Threads |-> {}] /\ unf = [t \in Threads |-> {}]
    /\ active = [t \in Threads |-> 0]
    /\ spc = [p \in Procs |-> "dead"] /\ todo = [p \in Procs |-> {}]
    /\ phase = [p \in Procs |-> "due"] /\ pubjob = [p \in Procs |-> NoJob]
    /\ spent = [k \in FaultKinds |-> 0]

Consumer(t) ==
    \/ EnsureGroup(t) \/ ReadStream(t) \/ AckAndDelete(t) \/ ProcessTask(t)
    \/ \E claimed \in SUBSET Msgs : XAutoClaim(t, claimed)
    \/ NextReclaimed(t) \/ StopThread(t) \/ PrepareRecovery(t)

Environment ==
    \/ Submit
    \/ \E p \in Procs : Start(p) \/ Crash(p) \/ Shutdown(p) \/ Exit(p)
    \/ \E r \in Roles : BeatLapses(r) \/ StartHeartbeat(r)
    \/ RedisDown \/ RedisUp \/ RedisWipe \/ ForeignAdd

Next ==
    \/ \E t \in Threads : Consumer(t)
    \/ \E p \in Procs : Scheduler(p)
    \/ Environment

Spec == Init /\ [][Next]_vars

(* Fairness: the loops run, a supervisor restarts, Redis comes back, an idle  *)
(* message is eventually old enough, a due run is eventually polled as due.   *)
(* RunHandler is a step of its thread: a handler is assumed to return.        *)
Fairness ==
    /\ \A t \in Threads :
         /\ WF_vars(EnsureGroup(t)) /\ WF_vars(ReadStream(t)) /\ WF_vars(AckAndDelete(t))
         /\ WF_vars(ProcessTask(t)) /\ WF_vars(NextReclaimed(t)) /\ WF_vars(PrepareRecovery(t))
         /\ SF_vars(XAutoClaim(t, {m \in Msgs : MayBeIdle(m)}))
    /\ \A p \in Procs :
         /\ SF_vars(PublishDueTasks(p, Due)) /\ SF_vars(FindStranded(p, Stranded))
         /\ WF_vars(MarkRunQueued(p)) /\ WF_vars(PublishTask(p)) /\ WF_vars(MarkPublished(p))
         /\ WF_vars(EndPass(p)) /\ WF_vars(Start(p)) /\ WF_vars(Exit(p))
    /\ WF_vars(RedisUp)

FairSpec == Spec /\ Fairness

-----------------------------------------------------------------------------
(* Properties.                                                              *)

RowsTyped == /\ task \in [Jobs -> TaskRow] /\ nextJob \in 1 .. MaxJobs + 1
             /\ att \in [Attempts -> AttemptRow] /\ nextAtt \in 1 .. MaxAttempts + 1
StreamTyped == /\ msg \in [Msgs -> [job : Jobs \cup {NoJob}, state : MsgState]]
               /\ nextMsg \in 1 .. MaxMsgs + 1 /\ group \in BOOLEAN /\ redis \in {"up", "down"}
ProcessesTyped == /\ proc \in [Procs -> {"down", "up", "draining"}] /\ starts \in Nat
                  /\ beat \in [Roles -> BOOLEAN] /\ spent \in [FaultKinds -> Nat]
ThreadsTyped == /\ pc \in [Threads -> Points] /\ cur \in [Threads -> Msgs \cup {NoMsg}]
                /\ row \in [Threads -> TaskRow] /\ la \in [Threads -> AttemptRow]
                /\ batch \in [Threads -> SUBSET Msgs] /\ unf \in [Threads -> SUBSET Attempts]
                /\ active \in [Threads -> Nat]
SchedulersTyped == /\ spc \in [Procs -> SchedPoints] /\ phase \in [Procs -> {"due", "stranded"}]
                   /\ todo \in [Procs -> SUBSET [job : Jobs, row : TaskRow]]
                   /\ pubjob \in [Procs -> Jobs \cup {NoJob}]
                   /\ \A p \in Procs : spc[p] \in {"add", "mark"} => pubjob[p] \in Jobs
HoldsDelivery == \A t \in Threads :
    /\ pc[t] \in RecoveryPoints \cup TaskPoints => cur[t] \in Msgs /\ Job(t) \in Jobs
    /\ pc[t] = "ack" => cur[t] \in Msgs

(* Every variable has its type, and a thread that works on a run holds a     *)
(* delivery that names one: a malformed entry is acknowledged, never run.     *)
TypeOK == /\ RowsTyped /\ StreamTyped /\ ProcessesTyped /\ ThreadsTyped /\ SchedulersTyped
          /\ HoldsDelivery

(* RFC-001 section 8 invariant 11 as worker.go states it: a run is Completed  *)
(* only with a Succeeded attempt of its own, whatever is retried, abandoned  *)
(* or fails to persist around it.                                           *)
CompletedHasSuccess ==
    \A j \in Jobs : task[j].status = "Completed" =>
        \E a \in Attempts : att[a].job = j /\ att[a].status = "Succeeded"

(* A run that is neither waiting for the scheduler nor finished can always   *)
(* be picked up again after a crash: a stream entry for it is still to be    *)
(* delivered or to be acknowledged, or the stranded sweep will find it.      *)
RunBacked ==
    \A j \in Jobs : task[j].status \in {"Queued", "Running"} =>
        \/ \E m \in Msgs : msg[m].job = j /\ msg[m].state \in {"available", "pending"}
        \/ task[j].status = "Queued" /\ ~task[j].published

(* RFC-001 section 8 invariant 12, the guard of ProcessTask: a terminal run   *)
(* is never written back to another status.                                  *)
TerminalIsFinal ==
    [][\A j \in Jobs : task[j].status \in TerminalRun => task'[j].status = task[j].status]_vars

(* The stored rows, read as runs of the abstract life cycle. *)
Lifecycle == INSTANCE RunLifecycle WITH
    run <- [j \in Jobs |-> [status |-> task[j].status, parent |-> task[j].parent,
                             retryIndex |-> task[j].retryIndex]],
    won <- {j \in Jobs : \E a \in Attempts : att[a].job = j /\ att[a].status = "Succeeded"}

(* Every step of the delivery path is a step of the run life cycle or leaves  *)
(* the runs alone: the refinement of RunLifecycle.                            *)
FollowsLifecycle == Lifecycle!Spec

(* recovery.go: abandoning before claiming means a run never has two         *)
(* unfinished attempts.                                                      *)
OneUnfinishedAttempt ==
    \A a, b \in Attempts :
        (/\ att[a].status \in {"Claimed", "Started"} /\ att[b].status \in {"Claimed", "Started"}
         /\ att[a].job = att[b].job) => a = b

(* attempt_ownership.go: an attempt is abandoned only when the process that   *)
(* claimed it can no longer be running it.                                   *)
AbandonOnlyDead ==
    [][\A a \in Attempts : (att[a].status \in Unfinished /\ att'[a].status = "Abandoned") =>
          \A t \in Threads : ~(pc[t] \in AttemptPoints /\ la[t].id = a)]_vars

(* RFC-004 section 9, the deferred release in ProcessTask: between deliveries *)
(* a consumer holds no capacity, so its loop can always claim again.         *)
CapacityReleased ==
    \A t \in Threads : active[t] = IF pc[t] \in AttemptPoints THEN 1 ELSE 0

(* RFC-003 section 8 as worker.go states it: a delivery is acknowledged only  *)
(* after a terminal state of its run has been recorded, as long as no         *)
(* statement of ProcessTask fails.                                           *)
AckAfterTerminal ==
    [][\A m \in Msgs : (msg[m].state = "pending" /\ msg'[m].state = "done" /\ msg[m].job # NoJob)
          => task[msg[m].job].status \in TerminalRun]_vars

(* The point of the delivery path: every submitted run, and every retry of    *)
(* it, ends Completed or Failed, across crashes, outages and redeliveries.    *)
RunsFinish ==
    \A j \in Jobs : (task[j].status \in {"Pending", "Queued", "Running"})
                      ~> (task[j].status \in TerminalRun)

(* Every delivery that was handed to a consumer is eventually acknowledged,   *)
(* also after a failed ack or a crash (the reclaimer gets to it).             *)
DeliveriesSettle ==
    \A m \in Msgs : (msg[m].state \in {"available", "pending"}) ~> (msg[m].state = "done")

(* At-least-once delivery (ackAndDelete, delivery.go:46): a delivery is        *)
(* acknowledged only once its run has ended, and in the end it is.            *)
AcksSound == AckAfterTerminal /\ DeliveriesSettle
=============================================================================
