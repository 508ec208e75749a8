--------------------------- MODULE DeliveryProofs ---------------------------
EXTENDS Delivery, Integers, TLAPS
(* Message ids are handed out in order, and a thread only ever holds ids    *)
(* that were handed out: what keeps a delivery's run fixed while it is held. *)
Fresh ==
    /\ \A m \in Msgs : m >= nextMsg => msg[m].state = "None"
    /\ \A t \in Threads : cur[t] < nextMsg /\ \A m \in batch[t] : m < nextMsg

TypeInv == TypeOK /\ Fresh

LEMMA TypeInit == Init => TypeInv
<1> SUFFICES ASSUME Init PROVE TypeInv OBVIOUS
<1> USE BoundsAssumption, EnvironmentAssumption DEF Init
<1>1. RowsTyped BY DEF RowsTyped, TaskRow, AttemptRow, NoRow, NoAttempt, Roles, RunStatus, AttemptStatus, Jobs, Attempts, NoJob
<1>2. StreamTyped BY DEF StreamTyped, MsgState, NoJob
<1>3. ProcessesTyped BY DEF ProcessesTyped
<1>4. ThreadsTyped BY DEF ThreadsTyped, TaskRow, AttemptRow, NoRow, NoAttempt, Roles, RunStatus, AttemptStatus, Jobs, Attempts, NoJob, Points, OffPoints
<1>5. SchedulersTyped BY DEF SchedulersTyped, SchedPoints, NoJob
<1>6. HoldsDelivery BY DEF HoldsDelivery, RecoveryPoints, TaskPoints
<1>7. Fresh BY DEF Fresh, NoMsg
<1> QED BY <1>1, <1>2, <1>3, <1>4, <1>5, <1>6, <1>7 DEF TypeInv, TypeOK

-----------------------------------------------------------------------------
(* Frames: what the actions of one kind leave alone. *)

(* A statement, failed or not, changes only the fault counter. *)
LEMMA SpentTyped == ASSUME ProcessesTyped,
                           \/ \E ok \in BOOLEAN : Db(ok)
                           \/ \E p \in Procs, ok \in BOOLEAN : DbCtx(p, ok)
                           \/ \E k \in FaultKinds : Spend(k)
                           \/ UNCHANGED spent
                    PROVE  spent' \in [FaultKinds -> Nat]
  BY DEF ProcessesTyped, Db, DbCtx, Spend, FaultKinds

ProcessTaskFrame(t) ==
    /\ pc[t] \in TaskPoints
    /\ \E x \in TaskPoints \cup {"ack"} : pc' = [pc EXCEPT ![t] = x]
    /\ UNCHANGED <<redisVars, procVars, schedVars, cur, batch, unf>>
    /\ UNCHANGED spent \/ \E ok \in BOOLEAN : Db(ok)

LEMMA ProcessTaskFrames == ASSUME NEW t \in Threads, ProcessTask(t) PROVE ProcessTaskFrame(t)
<1> USE DEF ProcessTaskFrame, Goto, TaskPoints
<1>1. CASE LoadTask(t) BY <1>1 DEF LoadTask
<1>2. CASE CheckDuplicate(t) BY <1>2 DEF CheckDuplicate
<1>3. CASE MarkAttemptClaimed(t) BY <1>3 DEF MarkAttemptClaimed
<1>4. CASE MarkRunRunning(t) BY <1>4 DEF MarkRunRunning, MarkRun
<1>5. CASE MarkAttemptStarted(t) BY <1>5 DEF MarkAttemptStarted, MarkAttempt
<1>6. CASE RunHandler(t) BY <1>6 DEF RunHandler
<1>7. CASE MarkAttemptSucceeded(t) BY <1>7 DEF MarkAttemptSucceeded, MarkAttempt
<1>8. CASE ConfirmSuccess(t) BY <1>8 DEF ConfirmSuccess, Return
<1>9. CASE MarkRunCompleted(t) BY <1>9 DEF MarkRunCompleted, MarkRun, Return
<1>10. CASE CheckRetryChild(t) BY <1>10 DEF CheckRetryChild, Return
<1>11. CASE MarkRunRetryableFailure(t) BY <1>11 DEF MarkRunRetryableFailure, MarkRun
<1>12. CASE MarkRetryAttemptFailed(t) BY <1>12 DEF MarkRetryAttemptFailed, MarkAttempt, Return
<1>13. CASE CreateRetryChild(t) BY <1>13 DEF CreateRetryChild, Return
<1>14. CASE MarkAttemptFailed(t) BY <1>14 DEF MarkAttemptFailed, MarkAttempt
<1>15. CASE MarkRunFailed(t) BY <1>15 DEF MarkRunFailed, MarkRun, Return
<1> QED BY <1>1, <1>2, <1>3, <1>4, <1>5, <1>6, <1>7, <1>8, <1>9, <1>10, <1>11, <1>12, <1>13,
           <1>14, <1>15 DEF ProcessTask

(* The rows ProcessTask writes are rows. *)
LEMMA ProcessTaskRows ==
    ASSUME TypeInv, NEW t \in Threads, ProcessTask(t)
    PROVE  /\ RowsTyped'
           /\ row' \in [Threads -> TaskRow] /\ la' \in [Threads -> AttemptRow]
           /\ active' \in [Threads -> Nat]
<1> DEFINE Goal == /\ RowsTyped'
                   /\ row' \in [Threads -> TaskRow] /\ la' \in [Threads -> AttemptRow]
                   /\ active' \in [Threads -> Nat]
<1>a. Job(t) \in Jobs
  BY ProcessTaskFrames DEF TypeInv, TypeOK, HoldsDelivery, ProcessTaskFrame
<1>b. \A s \in RunStatus : [row[t] EXCEPT !.status = s] \in TaskRow
  BY DEF TypeInv, TypeOK, ThreadsTyped, TaskRow
<1>c. \A s \in AttemptStatus : [la[t] EXCEPT !.status = s] \in AttemptRow
  BY DEF TypeInv, TypeOK, ThreadsTyped, AttemptRow
<1>d. active \in [Threads -> Nat] /\ (Release(t) => active' \in [Threads -> Nat])
  BY DEF TypeInv, TypeOK, ThreadsTyped, Release
<1>e. RowsTyped /\ row \in [Threads -> TaskRow] /\ la \in [Threads -> AttemptRow]
  BY DEF TypeInv, TypeOK, ThreadsTyped
<1> HIDE DEF Goal
<1>1. ASSUME NEW f, NEW s \in RunStatus, MarkRun(t, f, s), UNCHANGED active \/ Release(t) PROVE Goal
  BY <1>a, <1>b, <1>d, <1>e, <1>1 DEF Goal, MarkRun, SaveTask, RowsTyped, attVars
<1>2. ASSUME NEW f, NEW s \in AttemptStatus, MarkAttempt(t, f, s), UNCHANGED active \/ Release(t) PROVE Goal
  BY <1>c, <1>d, <1>e, <1>2 DEF Goal, MarkAttempt, SaveAttempt, RowsTyped, runVars, AttemptRow
<1>3. CASE LoadTask(t) BY <1>3, <1>a, <1>d, <1>e DEF LoadTask, Goal, RowsTyped, runVars, attVars
<1>4. CASE CheckDuplicate(t) BY <1>4, <1>d, <1>e DEF CheckDuplicate, Goal, RowsTyped, runVars, attVars
<1>5. CASE MarkAttemptClaimed(t)
  <2>1. [id |-> nextAtt, job |-> Job(t), role |-> t[2], status |-> "Claimed", claimedAt |-> starts]
          \in AttemptRow
    BY <1>5, <1>a DEF MarkAttemptClaimed, TypeInv, TypeOK, RowsTyped, ProcessesTyped, AttemptRow,
       AttemptStatus, Attempts, Threads
  <2>2. nextAtt' \in 1 .. MaxAttempts + 1
    BY <1>5, <1>e, BoundsAssumption DEF MarkAttemptClaimed, RowsTyped
  <2>3. active' \in [Threads -> Nat]
    BY <1>5, <1>d DEF MarkAttemptClaimed
  <2>4. att' \in [Attempts -> AttemptRow] /\ la' \in [Threads -> AttemptRow]
    BY <1>5, <1>e, <2>1 DEF MarkAttemptClaimed, SaveAttempt, RowsTyped
  <2> QED BY <1>5, <1>e, <2>2, <2>3, <2>4 DEF MarkAttemptClaimed, Goal, RowsTyped, runVars
<1>6. CASE RunHandler(t) BY <1>6, <1>d, <1>e DEF RunHandler, Goal, RowsTyped, runVars, attVars
<1>7. CASE ConfirmSuccess(t)
  BY <1>7, <1>d, <1>e DEF ConfirmSuccess, Return, Goal, RowsTyped, runVars, attVars
<1>8. CASE CheckRetryChild(t)
  BY <1>8, <1>d, <1>e DEF CheckRetryChild, Return, Goal, RowsTyped, runVars, attVars
<1>9. CASE CreateRetryChild(t)
  <2>1. RetryRow(t) \in TaskRow
    BY <1>a, <1>e DEF RetryRow, TaskRow, RunStatus
  <2> QED BY <1>9, <1>d, <1>e, <2>1, BoundsAssumption
      DEF CreateRetryChild, SaveTask, Return, Goal, RowsTyped, attVars, Jobs
<1> QED
  BY <1>1, <1>2, <1>3, <1>4, <1>5, <1>6, <1>7, <1>8, <1>9
  DEF ProcessTask, MarkRunRunning, MarkAttemptStarted, MarkAttemptSucceeded, MarkRunCompleted,
      MarkRunRetryableFailure, MarkRetryAttemptFailed, MarkAttemptFailed, MarkRunFailed, Return,
      RunStatus, AttemptStatus, Goal

LEMMA ProcessTaskTyped == ASSUME TypeInv, NEW t \in Threads, ProcessTask(t) PROVE TypeInv'
<1>1. ProcessTaskFrame(t) BY ProcessTaskFrames
<1> USE <1>1 DEF TypeInv, TypeOK, ProcessTaskFrame
<1>2. ThreadsTyped' BY ProcessTaskRows DEF ThreadsTyped, Points
<1>3. HoldsDelivery' BY DEF HoldsDelivery, ThreadsTyped, RecoveryPoints, Job, redisVars
<1>4. ProcessesTyped' BY SpentTyped DEF ProcessesTyped, procVars
<1>5. StreamTyped' /\ SchedulersTyped' /\ Fresh'
  BY DEF StreamTyped, SchedulersTyped, Fresh, redisVars, schedVars
<1> QED BY <1>2, <1>3, <1>4, <1>5, ProcessTaskRows

-----------------------------------------------------------------------------
(* The loops, the recovery, the scheduler and the environment keep the types. *)

LEMMA LoopTyped ==
    ASSUME TypeInv, NEW t \in Threads,
           \/ EnsureGroup(t) \/ ReadStream(t) \/ AckAndDelete(t) \/ NextReclaimed(t) \/ StopThread(t)
           \/ \E claimed \in SUBSET Msgs : XAutoClaim(t, claimed)
    PROVE  TypeInv'
<1> USE DEF TypeInv, TypeOK, Goto
<1>1. NoRow \in TaskRow /\ NoAttempt \in AttemptRow
  BY BoundsAssumption DEF NoRow, NoAttempt, TaskRow, AttemptRow, RunStatus, AttemptStatus, Roles,
     Jobs, Attempts, NoJob
<1>2. CASE EnsureGroup(t)
  <2> USE <1>2 DEF EnsureGroup
  <2>1. ThreadsTyped' BY DEF ThreadsTyped, Points, LoopPoints
  <2>2. HoldsDelivery' BY DEF HoldsDelivery, ThreadsTyped, RecoveryPoints, TaskPoints, Job
  <2> QED BY <2>1, <2>2 DEF RowsTyped, StreamTyped, ProcessesTyped, SchedulersTyped, Fresh,
             runVars, attVars, procVars, schedVars
<1>3. CASE ReadStream(t)
  <2> USE <1>3 DEF ReadStream
  <2>1. PICK m \in Msgs : /\ msg[m].state = "available"
                          /\ msg' = [msg EXCEPT ![m].state = "pending"]
                          /\ cur' = [cur EXCEPT ![t] = m]
                          /\ pc' = [pc EXCEPT ![t] = FirstPoint(m)]
    OBVIOUS
  <2>2. ThreadsTyped' BY <2>1 DEF ThreadsTyped, Points, TaskPoints, FirstPoint
  <2>3. StreamTyped' BY <2>1 DEF StreamTyped, MsgState
  <2>4. \A k \in Msgs : msg'[k].job = msg[k].job BY <2>1 DEF StreamTyped
  <2>5. HoldsDelivery'
    BY <2>1, <2>4 DEF HoldsDelivery, ThreadsTyped, StreamTyped, RecoveryPoints, TaskPoints, Job,
       FirstPoint
  <2>6. m < nextMsg
    <3>1. ~(m >= nextMsg) BY <2>1 DEF Fresh
    <3>2. m \in Int /\ nextMsg \in Int BY BoundsAssumption DEF StreamTyped, Msgs
    <3> HIDE <1>3 DEF ReadStream
    <3> QED BY <3>1, <3>2
  <2>7. Fresh' BY <2>1, <2>6 DEF Fresh, StreamTyped, ThreadsTyped
  <2> QED BY <2>2, <2>3, <2>5, <2>7 DEF RowsTyped, ProcessesTyped, SchedulersTyped,
             runVars, attVars, procVars, schedVars
<1>4. CASE AckAndDelete(t)
  <2> USE <1>4 DEF AckAndDelete, DropLocals
  <2>1. ThreadsTyped' BY <1>1 DEF ThreadsTyped, Points, LoopPoints
  <2>2. StreamTyped' BY DEF StreamTyped, MsgState
  <2>3. \A k \in Msgs : msg'[k].job = msg[k].job BY DEF StreamTyped
  <2>4. HoldsDelivery'
    BY <2>3 DEF HoldsDelivery, ThreadsTyped, StreamTyped, RecoveryPoints, TaskPoints, Job
  <2>5. \A k \in Msgs : k >= nextMsg => msg'[k].state = "None"
    BY DEF Fresh, StreamTyped, HoldsDelivery
  <2>6. Fresh' BY <2>5 DEF Fresh, ThreadsTyped, StreamTyped, NoMsg
  <2> QED BY <2>1, <2>2, <2>4, <2>6 DEF RowsTyped, ProcessesTyped, SchedulersTyped,
             runVars, attVars, procVars, schedVars
<1>5. CASE NextReclaimed(t)
  <2> USE <1>5 DEF NextReclaimed
  <2>1. ThreadsTyped' BY DEF ThreadsTyped, Points, LoopPoints, RecoveryPoints, ReclaimPoint
  <2>2. HoldsDelivery'
    BY DEF HoldsDelivery, ThreadsTyped, StreamTyped, RecoveryPoints, TaskPoints, Job, ReclaimPoint,
       redisVars
  <2>3. Fresh' BY DEF Fresh, ThreadsTyped, redisVars
  <2> QED BY <2>1, <2>2, <2>3 DEF RowsTyped, StreamTyped, ProcessesTyped, SchedulersTyped,
             runVars, attVars, redisVars, procVars, schedVars
<1>6. CASE StopThread(t)
  <2> USE <1>6 DEF StopThread
  <2>1. ThreadsTyped' BY DEF ThreadsTyped, Points, OffPoints
  <2>2. HoldsDelivery' BY DEF HoldsDelivery, ThreadsTyped, RecoveryPoints, TaskPoints, Job, redisVars
  <2> QED BY <2>1, <2>2 DEF RowsTyped, StreamTyped, ProcessesTyped, SchedulersTyped, Fresh,
             runVars, attVars, redisVars, procVars, schedVars
<1>7. CASE \E claimed \in SUBSET Msgs : XAutoClaim(t, claimed)
  <2> USE DEF XAutoClaim
  <2>1. PICK claimed \in SUBSET Msgs : XAutoClaim(t, claimed) BY <1>7
  <2>2. ThreadsTyped' BY <2>1 DEF ThreadsTyped, Points, LoopPoints
  <2>3. HoldsDelivery'
    BY <2>1 DEF HoldsDelivery, ThreadsTyped, RecoveryPoints, TaskPoints, Job, redisVars
  <2>4. \A m \in claimed : m < nextMsg
    BY <2>1, BoundsAssumption DEF Fresh, StreamTyped, MayBeIdle, Msgs
  <2>5. Fresh' BY <2>1, <2>4 DEF Fresh, ThreadsTyped, redisVars
  <2> QED BY <2>1, <2>2, <2>3, <2>5 DEF RowsTyped, StreamTyped, ProcessesTyped, SchedulersTyped,
             runVars, attVars, redisVars, procVars, schedVars
<1> QED BY <1>2, <1>3, <1>4, <1>5, <1>6, <1>7

LEMMA RecoveryTyped == ASSUME TypeInv, NEW t \in Threads, PrepareRecovery(t) PROVE TypeInv'
<1> USE DEF TypeInv, TypeOK, Goto, DropLocals
<1>1. NoRow \in TaskRow /\ NoAttempt \in AttemptRow
  BY BoundsAssumption DEF NoRow, NoAttempt, TaskRow, AttemptRow, RunStatus, AttemptStatus, Roles,
     Jobs, Attempts, NoJob
<1>2. t[1] \in Procs BY DEF Threads
<1>3. CASE RecoveryReadTask(t)
  <2> USE <1>3 DEF RecoveryReadTask
  <2>1. Job(t) \in Jobs BY DEF HoldsDelivery, RecoveryPoints
  <2>4. ThreadsTyped' BY <2>1 DEF ThreadsTyped, RowsTyped, Points, RecoveryPoints, TaskPoints
  <2>2. HoldsDelivery' BY DEF HoldsDelivery, ThreadsTyped, RecoveryPoints, TaskPoints, Job, redisVars
  <2>3. ProcessesTyped' BY SpentTyped, <1>2 DEF ProcessesTyped, procVars
  <2> QED BY <2>4, <2>2, <2>3 DEF RowsTyped, StreamTyped, SchedulersTyped, Fresh,
             runVars, attVars, redisVars, schedVars
<1>4. CASE RecoveryReadAttempts(t)
  <2> USE <1>4 DEF RecoveryReadAttempts
  <2>1. ThreadsTyped' BY <1>1 DEF ThreadsTyped, Points, RecoveryPoints, LoopPoints
  <2>2. HoldsDelivery' BY DEF HoldsDelivery, ThreadsTyped, RecoveryPoints, TaskPoints, Job, redisVars
  <2>3. ProcessesTyped' BY SpentTyped, <1>2 DEF ProcessesTyped, procVars
  <2>4. Fresh' BY DEF Fresh, ThreadsTyped, StreamTyped, NoMsg, redisVars
  <2> QED BY <2>1, <2>2, <2>3, <2>4 DEF RowsTyped, StreamTyped, SchedulersTyped,
             runVars, attVars, redisVars, schedVars
<1>5. CASE PlanRecovery(t)
  <2> USE <1>5 DEF PlanRecovery
  <2>1. ThreadsTyped' BY <1>1 DEF ThreadsTyped, Points, RecoveryPoints, LoopPoints, TaskPoints
  <2>2. HoldsDelivery' BY DEF HoldsDelivery, ThreadsTyped, RecoveryPoints, TaskPoints, Job, redisVars
  <2>3. ProcessesTyped' BY SpentTyped, <1>2 DEF ProcessesTyped, procVars
  <2>4. Fresh' BY DEF Fresh, ThreadsTyped, StreamTyped, NoMsg, redisVars
  <2> QED BY <2>1, <2>2, <2>3, <2>4 DEF RowsTyped, StreamTyped, SchedulersTyped,
             runVars, attVars, redisVars, schedVars
<1>6. CASE AbandonAttempt(t)
  <2> USE <1>6 DEF AbandonAttempt
  <2>1. ThreadsTyped' BY DEF ThreadsTyped, Points, TaskPoints
  <2>2. HoldsDelivery' BY DEF HoldsDelivery, ThreadsTyped, RecoveryPoints, TaskPoints, Job, redisVars
  <2>3. ProcessesTyped' BY SpentTyped, <1>2 DEF ProcessesTyped, procVars
  <2>4. RowsTyped' BY DEF RowsTyped, ThreadsTyped, AttemptRow, AttemptStatus, runVars
  <2> QED BY <2>1, <2>2, <2>3, <2>4 DEF StreamTyped, SchedulersTyped, Fresh, redisVars, schedVars
<1> QED BY <1>3, <1>4, <1>5, <1>6 DEF PrepareRecovery

(* An id a thread holds stays below the counter when the counter grows. *)
LEMMA IdsBelow ==
    ASSUME TypeInv, nextMsg' \in Nat, nextMsg' >= nextMsg
    PROVE  \A t \in Threads : cur[t] < nextMsg' /\ \A m \in batch[t] : m < nextMsg'
<1>1. \A t \in Threads : cur[t] \in Int /\ \A m \in batch[t] : m \in Int
  BY BoundsAssumption DEF TypeInv, TypeOK, ThreadsTyped, Msgs, NoMsg
<1>2. nextMsg \in Int BY DEF TypeInv, TypeOK, StreamTyped
<1> QED BY <1>1, <1>2 DEF TypeInv, Fresh

LEMMA SchedulerTyped == ASSUME TypeInv, NEW p \in Procs, Scheduler(p) PROVE TypeInv'
<1> USE DEF TypeInv, TypeOK
<1>1. \A S \in SUBSET Jobs : {[job |-> j, row |-> task[j]] : j \in S} \subseteq [job : Jobs, row : TaskRow]
  BY DEF RowsTyped
<1>2. Due \subseteq Jobs /\ Stranded \subseteq Jobs BY DEF Due, Stranded
<1>3. CASE \/ \E due \in SUBSET Due : PublishDueTasks(p, due)
           \/ \E old \in SUBSET Stranded : FindStranded(p, old)
           \/ EndPass(p) \/ StopScheduler(p)
  <2>1. SchedulersTyped'
    BY <1>1, <1>2, <1>3 DEF PublishDueTasks, FindStranded, EndPass, StopScheduler,
       SchedulersTyped, SchedPoints
  <2>2. UNCHANGED <<runVars, attVars, redisVars, procVars, threadVars, spent>>
    BY <1>3 DEF PublishDueTasks, FindStranded, EndPass, StopScheduler
  <2> QED BY <2>1, <2>2 DEF RowsTyped, StreamTyped, ProcessesTyped, ThreadsTyped, HoldsDelivery, Job,
             Fresh, runVars, attVars, redisVars, procVars, threadVars
<1>4. CASE MarkRunQueued(p)
  <2> USE <1>4 DEF MarkRunQueued
  <2>1. PICK e \in todo[p] :
          /\ todo' = [todo EXCEPT ![p] = @ \ {e}]
          /\ pubjob' = [pubjob EXCEPT ![p] = e.job]
          /\ \/ \E ok \in BOOLEAN : /\ DbCtx(p, ok)
                                    /\ SaveTask(e.job, [e.row EXCEPT !.status = "Queued"], ok)
             \/ UNCHANGED <<task, spent>>
    BY DEF SaveTask
  <2>2. e.job \in Jobs /\ [e.row EXCEPT !.status = "Queued"] \in TaskRow
    BY DEF SchedulersTyped, TaskRow, RunStatus
  <2>3. SchedulersTyped' BY <2>1, <2>2 DEF SchedulersTyped, SchedPoints
  <2>4. RowsTyped' BY <2>1, <2>2 DEF RowsTyped, SaveTask, attVars
  <2>5. ProcessesTyped' BY <2>1, SpentTyped DEF ProcessesTyped, procVars
  <2> QED BY <2>3, <2>4, <2>5 DEF StreamTyped, ThreadsTyped, HoldsDelivery, Job, Fresh, redisVars, threadVars
<1>5. CASE PublishTask(p)
  <2> USE <1>5 DEF PublishTask
  <2>1. SchedulersTyped' BY DEF SchedulersTyped, SchedPoints, NoJob
  <2>2. StreamTyped'
    <3>1. \A x \in MsgState : [job |-> pubjob[p], state |-> x] \in [job : Jobs \cup {NoJob}, state : MsgState]
      BY DEF SchedulersTyped
    <3>2. nextMsg' \in 1 .. MaxMsgs + 1 BY BoundsAssumption DEF StreamTyped
    <3> QED BY <3>1, <3>2 DEF StreamTyped, MsgState
  <2>3. \A t \in Threads : cur[t] # nextMsg BY DEF Fresh, StreamTyped
  <2>4. HoldsDelivery'
    BY <2>3 DEF HoldsDelivery, ThreadsTyped, StreamTyped, Job, threadVars
  <2>5. Fresh'
    <3>1. \A m \in Msgs : m >= nextMsg' => m >= nextMsg /\ msg'[m] = msg[m]
      <4>1. nextMsg \in Int /\ Msgs \subseteq Int BY BoundsAssumption DEF StreamTyped, Msgs
      <4>2. \/ UNCHANGED <<msg, nextMsg>>
            \/ nextMsg' = nextMsg + 1 /\ \A m \in Msgs : m # nextMsg => msg'[m] = msg[m]
        BY DEF StreamTyped
      <4> HIDE DEF PublishTask
      <4> QED BY <4>1, <4>2
    <3>2. nextMsg' \in Nat /\ nextMsg' >= nextMsg BY DEF StreamTyped
    <3> QED BY <3>1, <3>2, IdsBelow DEF Fresh, threadVars
  <2> QED BY <2>1, <2>2, <2>4, <2>5 DEF RowsTyped, ProcessesTyped, ThreadsTyped, runVars, attVars,
             procVars, threadVars
<1>6. CASE MarkPublished(p)
  <2> USE <1>6 DEF MarkPublished
  <2>1. SchedulersTyped' BY DEF SchedulersTyped, SchedPoints, NoJob
  <2>2. pubjob[p] \in Jobs BY DEF SchedulersTyped
  <2>4. RowsTyped' BY <2>2 DEF RowsTyped, TaskRow, attVars
  <2>3. ProcessesTyped' BY SpentTyped DEF ProcessesTyped, procVars
  <2> QED BY <2>1, <2>3, <2>4 DEF StreamTyped, ThreadsTyped, HoldsDelivery, Job, Fresh, redisVars, threadVars
<1> QED BY <1>3, <1>4, <1>5, <1>6 DEF Scheduler

LEMMA EnvironmentTyped == ASSUME TypeInv, Environment PROVE TypeInv'
<1> USE DEF TypeInv, TypeOK
<1>1. NoRow \in TaskRow /\ NoAttempt \in AttemptRow
  BY BoundsAssumption DEF NoRow, NoAttempt, TaskRow, AttemptRow, RunStatus, AttemptStatus, Roles,
     Jobs, Attempts, NoJob
<1>2. CASE Submit
  <2> USE <1>2 DEF Submit
  <2>1. [NoRow EXCEPT !.status = "Pending"] \in TaskRow BY <1>1 DEF TaskRow, RunStatus
  <2>2. RowsTyped' BY <2>1, BoundsAssumption DEF RowsTyped, Jobs, attVars
  <2> QED BY <2>2 DEF StreamTyped, ProcessesTyped, ThreadsTyped, SchedulersTyped, HoldsDelivery, Job,
             Fresh, redisVars, procVars, threadVars, schedVars
<1>3. ASSUME NEW p \in Procs, Start(p) PROVE TypeInv'
  <2> USE <1>3 DEF Start
  <2>1. ProcessesTyped' BY DEF ProcessesTyped
  <2>2. ThreadsTyped' BY DEF ThreadsTyped, Points, LoopPoints
  <2>3. SchedulersTyped' BY DEF SchedulersTyped, SchedPoints
  <2>4. HoldsDelivery' BY DEF HoldsDelivery, ThreadsTyped, RecoveryPoints, TaskPoints, Job, redisVars
  <2> QED BY <2>1, <2>2, <2>3, <2>4 DEF RowsTyped, StreamTyped, Fresh, runVars, attVars, redisVars
<1>4. ASSUME NEW p \in Procs, Down(p) PROVE TypeInv'
  <2> USE <1>4 DEF Down, Lost
  <2>1. ProcessesTyped' BY DEF ProcessesTyped
  <2>2. ThreadsTyped' BY <1>1 DEF ThreadsTyped, Points, OffPoints
  <2>3. SchedulersTyped' BY DEF SchedulersTyped, SchedPoints, NoJob
  <2>4. HoldsDelivery' BY DEF HoldsDelivery, ThreadsTyped, RecoveryPoints, TaskPoints, Job, redisVars
  <2>5. Fresh' BY DEF Fresh, ThreadsTyped, StreamTyped, NoMsg, redisVars
  <2> QED BY <2>1, <2>2, <2>3, <2>4, <2>5 DEF RowsTyped, StreamTyped, runVars, attVars, redisVars
<1>5. CASE \/ \E p \in Procs : Shutdown(p)
           \/ \E r \in Roles : BeatLapses(r) \/ StartHeartbeat(r)
  <2>1. UNCHANGED <<runVars, attVars, redisVars, threadVars, schedVars>> /\ ProcessesTyped'
    BY <1>5 DEF Shutdown, BeatLapses, StartHeartbeat, ProcessesTyped
  <2> QED BY <2>1 DEF RowsTyped, StreamTyped, ThreadsTyped, SchedulersTyped, HoldsDelivery, Job, Fresh,
             runVars, attVars, redisVars, threadVars, schedVars
<1>6. CASE RedisDown \/ RedisUp
  <2> USE <1>6 DEF RedisDown, RedisUp
  <2>1. ProcessesTyped' BY SpentTyped DEF ProcessesTyped, procVars, FaultKinds
  <2>2. UNCHANGED <<runVars, attVars, msg, nextMsg, group, threadVars, schedVars>> /\ StreamTyped'
    BY DEF StreamTyped
  <2> QED BY <2>1, <2>2 DEF RowsTyped, ThreadsTyped, SchedulersTyped, HoldsDelivery, Job, Fresh,
             runVars, attVars, threadVars, schedVars
<1>7. CASE RedisWipe
  <2> USE <1>7 DEF RedisWipe
  <2>1. ProcessesTyped' BY SpentTyped DEF ProcessesTyped, procVars, FaultKinds
  <2>2. StreamTyped' BY DEF StreamTyped, MsgState
  <2>3. HoldsDelivery' BY DEF HoldsDelivery, StreamTyped, ThreadsTyped, Job, threadVars
  <2>4. Fresh' BY DEF Fresh, StreamTyped, threadVars
  <2> QED BY <2>1, <2>2, <2>3, <2>4 DEF RowsTyped, ThreadsTyped, SchedulersTyped, runVars, attVars,
             threadVars, schedVars
<1>8. CASE ForeignAdd
  <2> USE <1>8 DEF ForeignAdd
  <2>1. ProcessesTyped' BY SpentTyped DEF ProcessesTyped, procVars, FaultKinds
  <2>2. StreamTyped' BY BoundsAssumption DEF StreamTyped, MsgState, Msgs, NoJob
  <2>3. \A t \in Threads : cur[t] # nextMsg BY DEF Fresh, StreamTyped
  <2>4. HoldsDelivery' BY <2>3 DEF HoldsDelivery, StreamTyped, ThreadsTyped, Job, threadVars
  <2>5. Fresh'
    <3>1. \A m \in Msgs : m >= nextMsg' => msg'[m].state = "None"
      BY BoundsAssumption DEF Fresh, StreamTyped, Msgs
    <3>2. nextMsg' \in Nat /\ nextMsg' >= nextMsg BY DEF StreamTyped
    <3> QED BY <3>1, <3>2, IdsBelow DEF Fresh, threadVars
  <2> QED BY <2>1, <2>2, <2>4, <2>5 DEF RowsTyped, ThreadsTyped, SchedulersTyped, runVars, attVars,
             threadVars, schedVars
<1> QED BY <1>2, <1>3, <1>4, <1>5, <1>6, <1>7, <1>8 DEF Environment, Crash, Exit

LEMMA TypeStep == TypeInv /\ [Next]_vars => TypeInv'
<1> SUFFICES ASSUME TypeInv, [Next]_vars PROVE TypeInv' OBVIOUS
<1>1. ASSUME NEW t \in Threads, Consumer(t) PROVE TypeInv'
  BY <1>1, LoopTyped, ProcessTaskTyped, RecoveryTyped DEF Consumer
<1>2. CASE UNCHANGED vars
  BY <1>2 DEF vars, TypeInv, TypeOK, RowsTyped, StreamTyped, ProcessesTyped, ThreadsTyped,
     SchedulersTyped, HoldsDelivery, Job, Fresh
<1> QED BY <1>1, <1>2, SchedulerTyped, EnvironmentTyped DEF Next

(* Every variable keeps its type in every behaviour, and a thread that works *)
(* on a run holds a delivery naming one (worker.go, ParseEnvelope's guard).   *)
THEOREM TypeCorrect == Spec => []TypeOK
<1>1. TypeInv => TypeOK BY DEF TypeInv
<1> QED BY TypeInit, TypeStep, <1>1, PTL DEF Spec

-----------------------------------------------------------------------------
(* A thread that is not off belongs to a process that is not down.          *)

LiveThreads == \A t \in Threads : pc[t] \notin OffPoints => proc[t[1]] # "down"

LEMMA ConsumerAlive ==
    ASSUME TypeInv, NEW t \in Threads, Consumer(t)
    PROVE  /\ UNCHANGED <<proc, beat>> /\ pc[t] \notin OffPoints
           /\ \A u \in Threads \ {t} : pc'[u] = pc[u]
<1>1. CASE ProcessTask(t)
  BY <1>1, ProcessTaskFrames DEF ProcessTaskFrame, procVars, TaskPoints, OffPoints, TypeInv, TypeOK,
     ThreadsTyped
<1>2. CASE PrepareRecovery(t)
  BY <1>2 DEF PrepareRecovery, RecoveryReadTask, RecoveryReadAttempts, PlanRecovery, AbandonAttempt, Goto,
     procVars, OffPoints, TypeInv, TypeOK, ThreadsTyped
<1>3. CASE \/ EnsureGroup(t) \/ ReadStream(t) \/ AckAndDelete(t) \/ NextReclaimed(t) \/ StopThread(t)
           \/ \E claimed \in SUBSET Msgs : XAutoClaim(t, claimed)
  BY <1>3 DEF EnsureGroup, ReadStream, AckAndDelete, NextReclaimed, StopThread, XAutoClaim, Goto,
     procVars, OffPoints, LoopPoints, TypeInv, TypeOK, ThreadsTyped
<1> QED BY <1>1, <1>2, <1>3 DEF Consumer

LEMMA SchedulerAlive == ASSUME NEW p \in Procs, Scheduler(p) PROVE UNCHANGED <<proc, beat, pc>>
  BY DEF Scheduler, PublishDueTasks, MarkRunQueued, PublishTask, MarkPublished, FindStranded, EndPass,
     StopScheduler, procVars, threadVars

LEMMA LiveStep == TypeInv /\ LiveThreads /\ [Next]_vars => LiveThreads'
<1> SUFFICES ASSUME TypeInv, LiveThreads, [Next]_vars PROVE LiveThreads' OBVIOUS
<1>1. ASSUME NEW t \in Threads, Consumer(t) PROVE LiveThreads'
  BY <1>1, ConsumerAlive DEF LiveThreads
<1>2. ASSUME NEW p \in Procs, Scheduler(p) PROVE LiveThreads'
  BY <1>2, SchedulerAlive DEF LiveThreads
<1>3. ASSUME NEW p \in Procs, Start(p) PROVE LiveThreads'
  BY <1>3 DEF Start, LiveThreads, TypeInv, TypeOK, ProcessesTyped, Threads
<1>4. ASSUME NEW p \in Procs, Down(p) PROVE LiveThreads'
  BY <1>4 DEF Down, Lost, LiveThreads, OffPoints, TypeInv, TypeOK, ProcessesTyped, Threads
<1>5. ASSUME NEW p \in Procs, Shutdown(p) PROVE LiveThreads'
  BY <1>5 DEF Shutdown, threadVars, LiveThreads, TypeInv, TypeOK, ProcessesTyped, Threads
<1>6. CASE UNCHANGED <<pc, proc>> BY <1>6 DEF LiveThreads
<1> QED BY <1>1, <1>2, <1>3, <1>4, <1>5, <1>6 DEF Next, vars, Environment, Crash, Exit, Submit, BeatLapses,
           StartHeartbeat, RedisDown, RedisUp, RedisWipe, ForeignAdd, procVars, threadVars

-----------------------------------------------------------------------------
(* Capacity.                                                                *)

Held(t) == active[t] = IF pc[t] \in AttemptPoints THEN 1 ELSE 0

LEMMA TaskCapacity ==
    ASSUME TypeInv, NEW t \in Threads, ProcessTask(t), Held(t)
    PROVE  Held(t)' /\ \A u \in Threads \ {t} : active'[u] = active[u]
<1> USE DEF TypeInv, TypeOK, ThreadsTyped, Held, Goto, Return, Release, AttemptPoints, TaskPoints
<1>1. CASE LoadTask(t) BY <1>1 DEF LoadTask
<1>2. CASE CheckDuplicate(t) BY <1>2 DEF CheckDuplicate
<1>3. CASE MarkAttemptClaimed(t) BY <1>3 DEF MarkAttemptClaimed
<1>4. CASE MarkRunRunning(t) BY <1>4 DEF MarkRunRunning, MarkRun
<1>5. CASE MarkAttemptStarted(t) BY <1>5 DEF MarkAttemptStarted, MarkAttempt
<1>6. CASE RunHandler(t) BY <1>6 DEF RunHandler
<1>7. CASE MarkAttemptSucceeded(t) BY <1>7 DEF MarkAttemptSucceeded, MarkAttempt
<1>8. CASE ConfirmSuccess(t) BY <1>8 DEF ConfirmSuccess
<1>9. CASE MarkRunCompleted(t) BY <1>9 DEF MarkRunCompleted, MarkRun
<1>10. CASE CheckRetryChild(t) BY <1>10 DEF CheckRetryChild
<1>11. CASE MarkRunRetryableFailure(t) BY <1>11 DEF MarkRunRetryableFailure, MarkRun
<1>12. CASE MarkRetryAttemptFailed(t) BY <1>12 DEF MarkRetryAttemptFailed, MarkAttempt
<1>13. CASE CreateRetryChild(t) BY <1>13 DEF CreateRetryChild
<1>14. CASE MarkAttemptFailed(t) BY <1>14 DEF MarkAttemptFailed, MarkAttempt
<1>15. CASE MarkRunFailed(t) BY <1>15 DEF MarkRunFailed, MarkRun
<1> QED BY <1>1, <1>2, <1>3, <1>4, <1>5, <1>6, <1>7, <1>8, <1>9, <1>10, <1>11, <1>12, <1>13,
           <1>14, <1>15 DEF ProcessTask

(* RFC-004 section 9, the deferred release of ProcessTask: on every way out,  *)
(* every early return included, the slot is given back exactly once.         *)
THEOREM CapacitySound == Spec => []CapacityReleased
<1>1. Init => CapacityReleased
  BY DEF Init, CapacityReleased, AttemptPoints, TaskPoints
<1>2. TypeInv /\ LiveThreads /\ CapacityReleased /\ [Next]_vars => CapacityReleased'
  <2> SUFFICES ASSUME TypeInv, LiveThreads, CapacityReleased, [Next]_vars, NEW u \in Threads PROVE Held(u)'
    BY DEF CapacityReleased, Held
  <2>0. Held(u) BY DEF CapacityReleased, Held
  <2>1. ASSUME NEW t \in Threads, ProcessTask(t) PROVE Held(u)'
    <3>1. CASE u = t BY <2>0, <2>1, <3>1, TaskCapacity
    <3>2. CASE u # t
      <4>1. active'[u] = active[u] /\ pc'[u] = pc[u]
        BY <2>1, <3>2, TaskCapacity, ProcessTaskFrames DEF CapacityReleased, Held, ProcessTaskFrame, TypeInv,
           TypeOK, ThreadsTyped
      <4> QED BY <2>0, <4>1 DEF Held
    <3> QED BY <3>1, <3>2
  <2>2. ASSUME NEW t \in Threads, Consumer(t), ~ProcessTask(t) PROVE Held(u)'
    <3>1. /\ UNCHANGED active
          /\ pc'[u] = pc[u] \/ (pc[u] \notin AttemptPoints /\ pc'[u] \notin AttemptPoints)
      BY <2>2 DEF Consumer, EnsureGroup, ReadStream, AckAndDelete, NextReclaimed, StopThread, XAutoClaim,
         PrepareRecovery, RecoveryReadTask, RecoveryReadAttempts, PlanRecovery, AbandonAttempt, Goto,
         FirstPoint, ReclaimPoint, LoopPoints, AttemptPoints, TaskPoints, TypeInv, TypeOK, ThreadsTyped
    <3> QED BY <2>0, <3>1 DEF Held
  <2>3. ASSUME NEW p \in Procs, Scheduler(p) PROVE Held(u)'
    BY <2>0, <2>3 DEF Scheduler, PublishDueTasks, MarkRunQueued, PublishTask, MarkPublished, FindStranded,
       EndPass, StopScheduler, threadVars, Held
  <2>4. ASSUME NEW p \in Procs, Start(p) PROVE Held(u)'
    <3>1. pc'[u] = pc[u] \/ pc'[u] \in {"setup", "idle"} BY <2>4 DEF Start
    <3>2. u[1] = p => pc[u] \notin AttemptPoints
      BY <2>4 DEF Start, LiveThreads, OffPoints, AttemptPoints, TaskPoints
    <3> QED BY <2>0, <2>4, <3>1, <3>2 DEF Start, Held, AttemptPoints, TaskPoints
  <2>5. ASSUME NEW p \in Procs, Down(p) PROVE Held(u)'
    BY <2>0, <2>5 DEF Down, Lost, Held, AttemptPoints, TaskPoints
  <2>6. CASE UNCHANGED <<pc, active>> BY <2>0, <2>6 DEF Held
  <2> QED BY <2>1, <2>2, <2>3, <2>4, <2>5, <2>6 DEF Next, vars, Environment, Submit, Crash, Shutdown, Exit,
             BeatLapses, StartHeartbeat, RedisDown, RedisUp, RedisWipe, ForeignAdd, threadVars
<1>3. Init => LiveThreads BY DEF Init, LiveThreads, OffPoints
<1> QED BY TypeInit, TypeStep, LiveStep, <1>1, <1>2, <1>3, PTL DEF Spec

-----------------------------------------------------------------------------
(***************************************************************************)
(* Who owns an attempt.  With one process (main.go gives every process the  *)
(* same worker ids, so the evidence of attempt_ownership.go cannot tell two  *)
(* apart) whose heartbeats do not lapse, the reclaimer abandons only what    *)
(* nobody runs, a recorded success is never overwritten, and a Completed run *)
(* keeps its Succeeded attempt - whatever statements fail, however slow the  *)
(* handlers are, and wherever the process crashes or drains.                *)
(*                                                                         *)
(* The inductive invariant says what each thread knows about the attempt    *)
(* row it is about to write.                                                *)
(***************************************************************************)
OneInstance == \A p, q \in Procs : p = q

Owns(t)  == pc[t] \in AttemptPoints
RowOf(t) == att[la[t].id]

AttemptsInOrder == \A a \in Attempts : a >= nextAtt => att[a].status = "None"

(* The owner's copy is its own, of this process start, and the stored row is  *)
(* Succeeded only where the owner itself has just written that.              *)
CopyCurrentFor(t) ==
    /\ la[t].id < nextAtt /\ la[t].job = Job(t) /\ la[t].claimedAt = starts
    /\ RowOf(t).status # "None" => RowOf(t).job = Job(t) /\ RowOf(t).claimedAt = starts
    /\ pc[t] \notin {"confirm", "completed"} => RowOf(t).status # "Succeeded"
    /\ pc[t] = "completed" => RowOf(t).status = "Succeeded"
CopyCurrent == \A t \in Threads : Owns(t) => CopyCurrentFor(t)

OwnersDistinct == \A t, u \in Threads : Owns(t) /\ Owns(u) /\ t # u => la[t].id # la[u].id

(* What prepareRecovery may still believe of an attempt it read as unfinished: *)
(* if it succeeded since, its owner is of this process start;                 *)
(* once it was judged abandonable, nobody owns it and it will not succeed.    *)
Readable(a)    == /\ att[a].status # "None"
                  /\ att[a].status = "Succeeded" => att[a].claimedAt = starts
Abandonable(a) == /\ att[a].status \notin {"None", "Succeeded"}
                  /\ \A u \in Threads : Owns(u) => la[u].id # a
EvidenceSound == \A t \in Threads : \A a \in unf[t] :
    /\ pc[t] = "revidence" => Readable(a)
    /\ pc[t] = "abandon" => Abandonable(a)

OwnerInv == AttemptsInOrder /\ CopyCurrent /\ OwnersDistinct /\ EvidenceSound

BeatsFresh == (\E p \in Procs : proc[p] = "up") => \A r \in Roles : beat[r]

Inv == TypeInv /\ OwnerInv /\ BeatsFresh /\ LiveThreads

-----------------------------------------------------------------------------
(* Steps that write no attempt row.                                         *)

QuietFor(u) ==
    /\ Owns(u)' => /\ Owns(u) /\ la'[u] = la[u] /\ Job(u)' = Job(u)
                   /\ pc[u] \in {"confirm", "completed"} => pc'[u] \in {"confirm", "completed"}
                   /\ pc'[u] = "completed" => RowOf(u).status = "Succeeded"
    /\ \A a \in unf'[u] : /\ pc'[u] = "revidence" => Readable(a)
                          /\ pc'[u] = "abandon" => Abandonable(a)

LEMMA QuietStep ==
    ASSUME OwnerInv, UNCHANGED <<att, nextAtt, starts>>, \A u \in Threads : QuietFor(u)
    PROVE  OwnerInv'
<1> USE DEF OwnerInv, QuietFor
<1>1. AttemptsInOrder' BY DEF AttemptsInOrder
<1>2. CopyCurrent' BY DEF CopyCurrent, CopyCurrentFor, RowOf
<1>3. OwnersDistinct' BY DEF OwnersDistinct
<1>4. EvidenceSound' BY DEF EvidenceSound, Readable, Abandonable
<1> QED BY <1>1, <1>2, <1>3, <1>4

LEMMA QuietOther ==
    ASSUME OwnerInv, NEW u \in Threads, pc'[u] = pc[u], la'[u] = la[u], unf'[u] = unf[u],
           Owns(u) => Job(u)' = Job(u)
    PROVE  QuietFor(u)
  BY DEF OwnerInv, QuietFor, Owns, CopyCurrent, CopyCurrentFor, EvidenceSound

(* A delivery names the same run for as long as it is held. *)
LEMMA JobKept ==
    ASSUME TypeInv, NEW u \in Threads, cur'[u] = cur[u],
           \A m \in Msgs : m < nextMsg => msg'[m].job = msg[m].job
    PROVE  Owns(u) => Job(u)' = Job(u)
  BY DEF TypeInv, TypeOK, HoldsDelivery, Fresh, Owns, AttemptPoints, Job

-----------------------------------------------------------------------------
(* The steps of ProcessTask.                                                *)

LEMMA ProcessTaskOthers ==
    ASSUME Inv, NEW t \in Threads, ProcessTask(t), NEW u \in Threads \ {t}, la'[u] = la[u]
    PROVE  QuietFor(u)
<1>1. ProcessTaskFrame(t) BY ProcessTaskFrames
<1>2. pc'[u] = pc[u] /\ unf'[u] = unf[u] /\ cur'[u] = cur[u]
  BY <1>1 DEF ProcessTaskFrame, Inv, TypeInv, TypeOK, ThreadsTyped
<1>3. UNCHANGED msg BY <1>1 DEF ProcessTaskFrame, redisVars
<1> QED BY <1>2, <1>3, QuietOther, JobKept DEF Inv

LEMMA QuietTaskStep ==
    ASSUME Inv, NEW t \in Threads,
           \/ LoadTask(t) \/ CheckDuplicate(t) \/ RunHandler(t) \/ ConfirmSuccess(t)
           \/ CheckRetryChild(t) \/ CreateRetryChild(t)
           \/ MarkRunRunning(t) \/ MarkRunCompleted(t) \/ MarkRunRetryableFailure(t) \/ MarkRunFailed(t)
    PROVE  OwnerInv' /\ UNCHANGED att
<1>1. ProcessTask(t) BY DEF ProcessTask
<1>2. ProcessTaskFrame(t) BY <1>1, ProcessTaskFrames
<1>3. UNCHANGED <<att, nextAtt, la, starts, unf, cur, msg>>
  BY <1>2 DEF ProcessTaskFrame, procVars, redisVars, attVars, LoadTask, CheckDuplicate, RunHandler,
     ConfirmSuccess, CheckRetryChild, CreateRetryChild, MarkRunRunning, MarkRunCompleted,
     MarkRunRetryableFailure, MarkRunFailed, MarkRun
<1>4. QuietFor(t)
  <2>1. Job(t)' = Job(t) BY <1>3 DEF Job
  <2>2. pc'[t] \in TaskPoints \cup {"ack"}
    BY <1>2 DEF ProcessTaskFrame, Inv, TypeInv, TypeOK, ThreadsTyped
  <2>3. pc'[t] \notin {"revidence", "abandon"} BY <2>2 DEF TaskPoints
  <2>4. Owns(t)' => /\ Owns(t) /\ (pc[t] \notin {"confirm", "completed"} \/ pc'[t] = "completed")
                    /\ pc'[t] = "completed" => RowOf(t).status = "Succeeded"
    BY DEF Inv, TypeInv, TypeOK, ThreadsTyped, Owns, AttemptPoints, TaskPoints, RowOf, Goto, Return,
       LoadTask, CheckDuplicate, RunHandler, ConfirmSuccess, Confirmed, CheckRetryChild,
       CreateRetryChild, MarkRunRunning, MarkRunCompleted, MarkRunRetryableFailure, MarkRunFailed,
       MarkRun
  <2>5. Owns(t)' => Owns(t)
    BY DEF Inv, TypeInv, TypeOK, ThreadsTyped, Owns, AttemptPoints, TaskPoints, Goto, Return,
       LoadTask, CheckDuplicate, RunHandler, ConfirmSuccess, CheckRetryChild,
       CreateRetryChild, MarkRunRunning, MarkRunCompleted, MarkRunRetryableFailure, MarkRunFailed,
       MarkRun
  <2> QED BY <1>3, <2>1, <2>3, <2>4, <2>5 DEF QuietFor
<1> QED BY <1>1, <1>3, <1>4, ProcessTaskOthers, QuietStep DEF Inv

(* The owner writes its own row, and nobody else is about to. *)
LEMMA OwnerWrites ==
    ASSUME Inv, NEW t \in Threads,
           \/ MarkAttemptStarted(t) \/ MarkAttemptSucceeded(t) \/ MarkRetryAttemptFailed(t)
           \/ MarkAttemptFailed(t)
    PROVE  /\ OwnerInv'
           /\ \A a \in Attempts : /\ att[a].status = "Succeeded" => att'[a] = att[a]
                                  /\ att'[a].status = "Abandoned" => att[a].status = "Abandoned"
<1> DEFINE id == la[t].id
<1>1. ProcessTask(t) BY DEF ProcessTask
<1>2. ProcessTaskFrame(t) BY <1>1, ProcessTaskFrames
<1>3. PICK s \in {"Started", "Succeeded", "Failed"} :
        /\ la' = [la EXCEPT ![t].status = s]
        /\ att' = att \/ att' = [att EXCEPT ![id] = [la[t] EXCEPT !.status = s]]
        /\ UNCHANGED nextAtt
        /\ Owns(t) /\ pc[t] \notin {"confirm", "completed"}
        /\ s = "Succeeded" => pc'[t] = "confirm"
        /\ pc'[t] # "completed"
        /\ pc'[t] \notin {"revidence", "abandon"}
        /\ pc'[t] = "confirm" => s = "Succeeded"
  <2> USE DEF MarkAttempt, SaveAttempt, Goto, Return, Owns, AttemptPoints, TaskPoints, Inv,
          TypeInv, TypeOK, ThreadsTyped
  <2>1. CASE MarkAttemptStarted(t) BY <2>1 DEF MarkAttemptStarted, AttemptRow
  <2>2. CASE MarkAttemptSucceeded(t) BY <2>2 DEF MarkAttemptSucceeded, AttemptRow
  <2>3. CASE MarkRetryAttemptFailed(t) BY <2>3 DEF MarkRetryAttemptFailed, AttemptRow
  <2>4. CASE MarkAttemptFailed(t) BY <2>4 DEF MarkAttemptFailed, AttemptRow
  <2> QED BY <2>1, <2>2, <2>3, <2>4
<1>4. /\ UNCHANGED <<starts, unf, cur, msg>> /\ \A u \in Threads \ {t} : pc'[u] = pc[u] /\ la'[u] = la[u]
      /\ \A u \in Threads : Job(u)' = Job(u)
  BY <1>2, <1>3 DEF ProcessTaskFrame, procVars, redisVars, Inv, TypeInv, TypeOK, ThreadsTyped, Job
<1>5. la'[t].id = id /\ la'[t].job = la[t].job /\ la'[t].claimedAt = la[t].claimedAt /\ la'[t].status = s
  BY <1>3 DEF Inv, TypeInv, TypeOK, ThreadsTyped, AttemptRow
<1>6. CopyCurrentFor(t) BY <1>3 DEF Inv, OwnerInv, CopyCurrent
<1>7. id \in Attempts /\ att[id].status # "Succeeded"
  BY <1>3, <1>6 DEF CopyCurrentFor, RowOf, Inv, TypeInv, TypeOK, ThreadsTyped, AttemptRow
<1>8. /\ \A a \in Attempts \ {id} : att'[a] = att[a]
      /\ att'[id] = att[id] \/ att'[id] = la'[t]
  BY <1>3, <1>7 DEF Inv, TypeInv, TypeOK, ThreadsTyped, RowsTyped
<1>9. \A u \in Threads \ {t} : Owns(u) => la[u].id # id /\ la[u].id \in Attempts
  BY <1>3 DEF Inv, OwnerInv, OwnersDistinct, TypeInv, TypeOK, ThreadsTyped, AttemptRow
<1>10. AttemptsInOrder'
  <2>1. id < nextAtt BY <1>6 DEF CopyCurrentFor
  <2>2. nextAtt \in Int /\ Attempts \subseteq Int
    BY BoundsAssumption DEF Inv, TypeInv, TypeOK, RowsTyped, Attempts
  <2> QED BY <1>3, <1>8, <2>1, <2>2, <1>7 DEF Inv, OwnerInv, AttemptsInOrder
<1>11. CopyCurrent'
  <2>1. ASSUME NEW u \in Threads \ {t}, Owns(u)' PROVE CopyCurrentFor(u)'
    <3>1. Owns(u) /\ RowOf(u)' = RowOf(u) BY <1>4, <1>8, <1>9, <2>1 DEF Owns, RowOf
    <3> QED BY <1>3, <1>4, <3>1 DEF CopyCurrentFor, Inv, OwnerInv, CopyCurrent
  <2>2. ASSUME Owns(t)' PROVE CopyCurrentFor(t)'
    <3>1. RowOf(t)' = RowOf(t) \/ RowOf(t)' = la'[t] BY <1>5, <1>8 DEF RowOf
    <3> QED BY <1>3, <1>4, <1>5, <1>6, <3>1 DEF CopyCurrentFor
  <2> QED BY <2>1, <2>2 DEF CopyCurrent
<1>12. OwnersDistinct'
  BY <1>3, <1>4, <1>5 DEF Inv, OwnerInv, OwnersDistinct, Owns
<1>13. EvidenceSound'
  <2>1. ASSUME NEW u \in Threads, NEW a \in unf[u], pc'[u] = "revidence" PROVE Readable(a)'
    <3>1. a \in Attempts /\ Readable(a)
      BY <1>3, <1>4, <2>1 DEF Inv, OwnerInv, EvidenceSound, TypeInv, TypeOK, ThreadsTyped
    <3>2. CASE att'[a] = att[a] BY <3>1, <3>2, <1>4 DEF Readable
    <3>3. CASE a = id /\ att'[a] = la'[t] BY <3>3, <1>4, <1>5, <1>6 DEF Readable, CopyCurrentFor
    <3> QED BY <1>8, <3>1, <3>2, <3>3
  <2>2. ASSUME NEW u \in Threads, NEW a \in unf[u], pc'[u] = "abandon" PROVE Abandonable(a)'
    <3>1. a \in Attempts /\ Abandonable(a)
      BY <1>3, <1>4, <2>2 DEF Inv, OwnerInv, EvidenceSound, TypeInv, TypeOK, ThreadsTyped
    <3>2. a # id BY <1>3, <3>1 DEF Abandonable
    <3> QED BY <1>3, <1>4, <1>5, <1>8, <3>1, <3>2 DEF Abandonable, Owns
  <2> QED BY <1>4, <2>1, <2>2 DEF EvidenceSound
<1>14. \A a \in Attempts : /\ att[a].status = "Succeeded" => att'[a] = att[a]
                           /\ att'[a].status = "Abandoned" => att[a].status = "Abandoned"
  BY <1>5, <1>7, <1>8
<1> QED BY <1>10, <1>11, <1>12, <1>13, <1>14 DEF OwnerInv

LEMMA ClaimStep ==
    ASSUME Inv, NEW t \in Threads, MarkAttemptClaimed(t)
    PROVE  /\ OwnerInv'
           /\ \A a \in Attempts : /\ att[a].status = "Succeeded" => att'[a] = att[a]
                                  /\ att'[a].status = "Abandoned" => att[a].status = "Abandoned"
<1> DEFINE new == [id |-> nextAtt, job |-> Job(t), role |-> t[2], status |-> "Claimed",
                   claimedAt |-> starts]
<1>1. ProcessTaskFrame(t) BY ProcessTaskFrames DEF ProcessTask
<1>2. /\ la' = [la EXCEPT ![t] = new] /\ nextAtt' = nextAtt + 1
      /\ nextAtt \in Attempts
      /\ att' = att \/ att' = [att EXCEPT ![nextAtt] = new]
      /\ pc' = [pc EXCEPT ![t] = "running"] /\ ~Owns(t)
      /\ nextAtt \in Int /\ Attempts \subseteq Int
  BY BoundsAssumption DEF MarkAttemptClaimed, SaveAttempt, Goto, Owns, AttemptPoints, Inv, TypeInv, TypeOK,
     RowsTyped, Attempts
<1>3. /\ UNCHANGED <<starts, unf, cur, msg>> /\ la'[t] = new /\ pc'[t] = "running"
      /\ \A u \in Threads \ {t} : pc'[u] = pc[u] /\ la'[u] = la[u]
      /\ \A u \in Threads : Job(u)' = Job(u)
  BY <1>1, <1>2 DEF ProcessTaskFrame, procVars, redisVars, Inv, TypeInv, TypeOK, ThreadsTyped, Job
<1>4. /\ \A a \in Attempts \ {nextAtt} : att'[a] = att[a]
      /\ att[nextAtt].status = "None"
      /\ att'[nextAtt] = att[nextAtt] \/ att'[nextAtt] = new
  BY <1>2 DEF Inv, OwnerInv, AttemptsInOrder, TypeInv, TypeOK, RowsTyped
<1>5. \A u \in Threads \ {t} : Owns(u) => la[u].id < nextAtt /\ la[u].id \in Attempts
  BY DEF Inv, OwnerInv, CopyCurrent, CopyCurrentFor, TypeInv, TypeOK, ThreadsTyped, AttemptRow
<1>6. AttemptsInOrder'
  BY <1>2, <1>4 DEF Inv, OwnerInv, AttemptsInOrder
<1>7. CopyCurrent'
  <2>1. ASSUME NEW u \in Threads \ {t}, Owns(u)' PROVE CopyCurrentFor(u)'
    <3>1. Owns(u) /\ la'[u] = la[u] /\ la[u].id \in Attempts \ {nextAtt} /\ la[u].id < nextAtt
      BY <1>2, <1>3, <1>5, <2>1 DEF Owns
    <3>2. la[u].id < nextAtt'
      <4>1. la[u].id \in Int /\ nextAtt \in Int /\ nextAtt' = nextAtt + 1 BY <1>2, <3>1
      <4> QED BY <3>1, <4>1
    <3>3. RowOf(u)' = RowOf(u) BY <1>4, <3>1 DEF RowOf
    <3> QED BY <1>3, <3>1, <3>2, <3>3 DEF CopyCurrentFor, Inv, OwnerInv, CopyCurrent
  <2>2. CopyCurrentFor(t)'
    <3>1. RowOf(t)' = new \/ RowOf(t)'.status = "None" BY <1>3, <1>4 DEF RowOf
    <3> QED BY <1>2, <1>3, <3>1 DEF CopyCurrentFor
  <2> QED BY <2>1, <2>2 DEF CopyCurrent
<1>8. OwnersDistinct' BY <1>2, <1>3, <1>5 DEF Inv, OwnerInv, OwnersDistinct, Owns
<1>9. EvidenceSound'
  <2>1. ASSUME NEW u \in Threads, NEW a \in unf[u], pc'[u] \in {"revidence", "abandon"}
        PROVE  /\ att'[a] = att[a] /\ a # nextAtt /\ pc'[u] = pc[u]
               /\ pc[u] = "revidence" => Readable(a)
               /\ pc[u] = "abandon" => Abandonable(a)
    <3>1. a \in Attempts /\ pc'[u] = pc[u]
      BY <1>3, <2>1 DEF Inv, TypeInv, TypeOK, ThreadsTyped
    <3>2. att[a].status # "None"
      BY <2>1, <3>1 DEF Inv, OwnerInv, EvidenceSound, Readable, Abandonable
    <3> QED BY <1>4, <2>1, <3>1, <3>2 DEF Inv, OwnerInv, EvidenceSound
  <2>2. \A u \in Threads : \A a \in unf[u] : pc'[u] = "revidence" => Readable(a)'
    BY <1>3, <2>1 DEF Readable
  <2>3. \A u \in Threads : \A a \in unf[u] : pc'[u] = "abandon" => Abandonable(a)'
    BY <1>3, <2>1 DEF Abandonable, Owns
  <2> QED BY <1>3, <2>2, <2>3 DEF EvidenceSound
<1>10. \A a \in Attempts : /\ att[a].status = "Succeeded" => att'[a] = att[a]
                           /\ att'[a].status = "Abandoned" => att[a].status = "Abandoned"
  BY <1>4
<1> QED BY <1>6, <1>7, <1>8, <1>9, <1>10 DEF OwnerInv

-----------------------------------------------------------------------------
(* Recovery.                                                                *)

LEMMA QuietRecoveryStep ==
    ASSUME Inv, NEW t \in Threads,
           RecoveryReadTask(t) \/ RecoveryReadAttempts(t) \/ PlanRecovery(t)
    PROVE  OwnerInv' /\ UNCHANGED att
<1>1. /\ UNCHANGED <<att, nextAtt, starts, msg>>
      /\ \A u \in Threads \ {t} : /\ pc'[u] = pc[u] /\ la'[u] = la[u] /\ unf'[u] = unf[u]
                                  /\ cur'[u] = cur[u]
  BY DEF RecoveryReadTask, RecoveryReadAttempts, PlanRecovery, Goto, DropLocals, attVars, procVars,
     redisVars, Inv, TypeInv, TypeOK, ThreadsTyped
<1>2. \A u \in Threads \ {t} : QuietFor(u) BY <1>1, QuietOther, JobKept DEF Inv
<1>3. pc'[t] \in {"load", "rattempts", "revidence", "abandon", "next"}
  BY DEF RecoveryReadTask, RecoveryReadAttempts, PlanRecovery, Goto, Inv, TypeInv, TypeOK, ThreadsTyped
<1>4. ASSUME NEW a \in unf'[t], pc'[t] = "revidence" PROVE Readable(a)
  <2>1. RecoveryReadAttempts(t)
    BY <1>4 DEF RecoveryReadTask, RecoveryReadAttempts, PlanRecovery, Goto, Inv, TypeInv, TypeOK, ThreadsTyped
  <2>2. unf'[t] = {b \in Attempts : att[b].job = Job(t) /\ att[b].status \in Unfinished}
    BY <1>4, <2>1 DEF RecoveryReadAttempts, Goto, DropLocals, Inv, TypeInv, TypeOK, ThreadsTyped
  <2> QED BY <1>4, <2>2 DEF Readable, Unfinished
<1>5. ASSUME NEW a \in unf'[t], pc'[t] = "abandon" PROVE Abandonable(a)
  <2>1. PlanRecovery(t)
    BY <1>5 DEF RecoveryReadTask, RecoveryReadAttempts, PlanRecovery, Goto, Inv, TypeInv, TypeOK, ThreadsTyped
  <2>2. /\ pc[t] = "revidence" /\ a \in unf[t] /\ AttemptOwnerGone(a) /\ DbCtx(t[1], TRUE)
    BY <1>5, <2>1 DEF PlanRecovery, Goto, DropLocals, Inv, TypeInv, TypeOK, ThreadsTyped
  <2>3. Readable(a) /\ a \in Attempts
    BY <2>2 DEF Inv, OwnerInv, EvidenceSound, TypeInv, TypeOK, ThreadsTyped
  <2>4. proc[t[1]] = "up" /\ t[1] \in Procs
    BY <2>2 DEF DbCtx, Inv, LiveThreads, OffPoints, TypeInv, TypeOK, ProcessesTyped, Threads
  <2>5. beat[att[a].role]
    BY <2>3, <2>4 DEF Inv, BeatsFresh, TypeInv, TypeOK, RowsTyped, AttemptRow
  <2>6. starts > att[a].claimedAt BY <2>2, <2>5 DEF AttemptOwnerGone
  <2>7. att[a].claimedAt # starts
    BY <2>3, <2>6 DEF Inv, TypeInv, TypeOK, RowsTyped, AttemptRow, ProcessesTyped
  <2>8. \A u \in Threads : Owns(u) => la[u].id # a
    BY <2>3, <2>7 DEF Inv, OwnerInv, CopyCurrent, CopyCurrentFor, RowOf, Readable
  <2> QED BY <2>3, <2>7, <2>8 DEF Abandonable, Readable
<1>6. QuietFor(t)
  BY <1>3, <1>4, <1>5 DEF QuietFor, Owns, AttemptPoints, TaskPoints
<1> QED BY <1>1, <1>2, <1>6, QuietStep DEF Inv

LEMMA AbandonStep ==
    ASSUME Inv, NEW t \in Threads, AbandonAttempt(t)
    PROVE  /\ OwnerInv'
           /\ \A a \in Attempts : /\ att[a].status = "Succeeded" => att'[a] = att[a]
                                  /\ att'[a] # att[a] => \A u \in Threads : Owns(u) => la[u].id # a
<1> USE DEF AbandonAttempt
<1>1. /\ UNCHANGED <<nextAtt, starts, msg, cur, la>> /\ pc[t] = "abandon"
      /\ \A u \in Threads \ {t} : pc'[u] = pc[u] /\ unf'[u] = unf[u]
      /\ unf'[t] \subseteq unf[t] /\ (pc'[t] = "load" \/ pc'[t] = "abandon")
      /\ \A u \in Threads : Job(u)' = Job(u)
  BY DEF Goto, procVars, redisVars, Inv, TypeInv, TypeOK, ThreadsTyped, Job
<1>2. CASE UNCHANGED att
  <2>1. \A u \in Threads \ {t} : QuietFor(u) BY <1>1, QuietOther, JobKept DEF Inv
  <2>2. ~Owns(t) /\ (Owns(t)' => FALSE \/ pc'[t] = "load" \/ pc'[t] = "abandon")
    BY <1>1 DEF Owns, AttemptPoints, TaskPoints
  <2>3. \A a \in unf'[t] : Abandonable(a) BY <1>1 DEF Inv, OwnerInv, EvidenceSound
  <2>4. QuietFor(t) BY <1>1, <2>3 DEF QuietFor, Owns, AttemptPoints, TaskPoints
  <2> QED BY <1>1, <1>2, <2>1, <2>4, QuietStep DEF Inv
<1>3. CASE att' # att
  <2>1. PICK b \in unf[t] : att' = [att EXCEPT ![b].status = "Abandoned"] BY <1>3
  <2> HIDE DEF AbandonAttempt
  <2>2. b \in Attempts /\ Abandonable(b)
    BY <1>1 DEF Inv, OwnerInv, EvidenceSound, TypeInv, TypeOK, ThreadsTyped
  <2>3. /\ \A a \in Attempts \ {b} : att'[a] = att[a]
        /\ att'[b].status = "Abandoned"
    BY <2>1, <2>2 DEF Inv, TypeInv, TypeOK, RowsTyped, AttemptRow
  <2>4. \A u \in Threads : /\ Owns(u)' => Owns(u)
                           /\ Owns(u) => la[u].id # b /\ la[u].id \in Attempts
                           /\ Owns(u) => pc'[u] = pc[u]
    BY <1>1, <2>2 DEF Abandonable, Owns, AttemptPoints, TaskPoints, Inv, TypeInv, TypeOK, ThreadsTyped,
       AttemptRow
  <2>5. AttemptsInOrder' BY <1>1, <2>2, <2>3 DEF Inv, OwnerInv, AttemptsInOrder, Abandonable
  <2>6. CopyCurrent'
    <3>1. SUFFICES ASSUME NEW u \in Threads, Owns(u)' PROVE CopyCurrentFor(u)' BY DEF CopyCurrent
    <3>2. Owns(u) /\ pc'[u] = pc[u] /\ RowOf(u)' = RowOf(u) BY <1>1, <2>3, <2>4, <3>1 DEF RowOf, Owns
    <3>3. CopyCurrentFor(u) BY <3>2 DEF Inv, OwnerInv, CopyCurrent
    <3> QED BY <1>1, <3>2, <3>3 DEF CopyCurrentFor
  <2>7. OwnersDistinct'
    <3>1. SUFFICES ASSUME NEW u \in Threads, NEW v \in Threads, Owns(u)', Owns(v)', u # v
                   PROVE  la'[u].id # la'[v].id
      BY DEF OwnersDistinct
    <3>2. Owns(u) /\ Owns(v) /\ la' = la BY <1>1, <2>4, <3>1 DEF Owns
    <3> QED BY <3>1, <3>2 DEF Inv, OwnerInv, OwnersDistinct
  <2>8. \A a \in Attempts : /\ Readable(a) => Readable(a)'
                            /\ Abandonable(a) => Abandonable(a)'
    <3>1. SUFFICES ASSUME NEW a \in Attempts
                   PROVE  (Readable(a) => Readable(a)') /\ (Abandonable(a) => Abandonable(a)')
      OBVIOUS
    <3>2. att'[a] = att[a] \/ att'[a].status = "Abandoned" BY <2>3
    <3>3. Readable(a) => Readable(a)' BY <1>1, <3>2 DEF Readable
    <3>4. ASSUME Abandonable(a), NEW u \in Threads, Owns(u)' PROVE la'[u].id # a
      BY <1>1, <2>4, <3>4 DEF Abandonable, Owns
    <3> QED BY <3>2, <3>3, <3>4 DEF Abandonable
  <2>9. EvidenceSound'
    <3>1. SUFFICES ASSUME NEW u \in Threads, NEW a \in unf'[u]
                   PROVE  /\ pc'[u] = "revidence" => Readable(a)'
                          /\ pc'[u] = "abandon" => Abandonable(a)'
      BY DEF EvidenceSound
    <3>2. a \in unf[u] /\ (pc'[u] = pc[u] \/ pc'[u] = "load") BY <1>1
    <3>3. a \in Attempts BY <3>2 DEF Inv, TypeInv, TypeOK, ThreadsTyped
    <3> QED BY <2>8, <3>2, <3>3 DEF EvidenceSound, Inv, OwnerInv
  <2> QED BY <2>2, <2>3, <2>5, <2>6, <2>7, <2>9 DEF OwnerInv, Abandonable
<1> QED BY <1>2, <1>3

-----------------------------------------------------------------------------
(* What every step does to the attempt rows.                                *)

(* A recorded success is never overwritten, and only an attempt nobody owns   *)
(* becomes Abandoned.                                                       *)
WritesSafely ==
    \A a \in Attempts :
        /\ att[a].status = "Succeeded" => att'[a] = att[a]
        /\ att'[a].status = "Abandoned" => \/ att[a].status = "Abandoned"
                                           \/ \A u \in Threads : Owns(u) => la[u].id # a

LEMMA ConsumerStep == ASSUME Inv, NEW t \in Threads, Consumer(t) PROVE OwnerInv' /\ WritesSafely
<1>1. CASE ProcessTask(t)
  BY <1>1, QuietTaskStep, OwnerWrites, ClaimStep DEF ProcessTask, WritesSafely
<1>2. CASE PrepareRecovery(t)
  BY <1>2, QuietRecoveryStep, AbandonStep DEF PrepareRecovery, WritesSafely
<1>3. CASE \/ EnsureGroup(t) \/ ReadStream(t) \/ AckAndDelete(t) \/ NextReclaimed(t) \/ StopThread(t)
           \/ \E claimed \in SUBSET Msgs : XAutoClaim(t, claimed)
  <2>1. /\ UNCHANGED <<att, nextAtt, starts>>
        /\ \A m \in Msgs : msg'[m].job = msg[m].job
        /\ \A u \in Threads \ {t} : /\ pc'[u] = pc[u] /\ la'[u] = la[u] /\ unf'[u] = unf[u]
                                    /\ cur'[u] = cur[u]
        /\ pc'[t] \in LoopPoints \cup OffPoints \cup {"load", "ack", "rtask"}
    BY <1>3 DEF EnsureGroup, ReadStream, AckAndDelete, NextReclaimed, StopThread, XAutoClaim, Goto,
       DropLocals, FirstPoint, ReclaimPoint, attVars, procVars, redisVars, LoopPoints, OffPoints,
       Inv, TypeInv, TypeOK, ThreadsTyped, StreamTyped
  <2>2. \A u \in Threads \ {t} : QuietFor(u) BY <2>1, QuietOther, JobKept DEF Inv
  <2>3. QuietFor(t)
    BY <2>1 DEF QuietFor, Owns, AttemptPoints, TaskPoints, LoopPoints, OffPoints
  <2> QED BY <2>1, <2>2, <2>3, QuietStep DEF Inv, WritesSafely
<1> QED BY <1>1, <1>2, <1>3 DEF Consumer

LEMMA SchedulerStep == ASSUME Inv, NEW p \in Procs, Scheduler(p) PROVE OwnerInv' /\ WritesSafely
<1>1. /\ UNCHANGED <<att, nextAtt, starts, pc, la, unf, cur>>
      /\ \A m \in Msgs : m < nextMsg => msg'[m].job = msg[m].job
  <2>1. CASE PublishTask(p)
    <3>1. nextMsg \in Int BY DEF Inv, TypeInv, TypeOK, StreamTyped
    <3>2. \A m \in Msgs : m # nextMsg => msg'[m].job = msg[m].job
      BY <2>1 DEF PublishTask, Inv, TypeInv, TypeOK, StreamTyped
    <3>3. UNCHANGED <<att, nextAtt, starts, pc, la, unf, cur>>
      BY <2>1 DEF PublishTask, attVars, procVars, threadVars
    <3> QED BY <3>1, <3>2, <3>3
  <2>2. CASE \/ \E due \in SUBSET Due : PublishDueTasks(p, due)
             \/ MarkRunQueued(p) \/ MarkPublished(p)
             \/ \E old \in SUBSET Stranded : FindStranded(p, old)
             \/ EndPass(p) \/ StopScheduler(p)
    BY <2>2 DEF PublishDueTasks, MarkRunQueued, MarkPublished, FindStranded, EndPass, StopScheduler,
       attVars, procVars, threadVars, redisVars
  <2> QED BY <2>1, <2>2 DEF Scheduler
<1>2. \A u \in Threads : QuietFor(u) BY <1>1, QuietOther, JobKept DEF Inv
<1> QED BY <1>1, <1>2, QuietStep DEF Inv, WritesSafely

LEMMA EnvironmentStep ==
    ASSUME OneInstance, Inv, Environment PROVE OwnerInv' /\ WritesSafely
<1>1. ASSUME NEW p \in Procs, Start(p) PROVE OwnerInv' /\ WritesSafely
  <2>1. \A t \in Threads : pc'[t] \in {"setup", "idle"}
    BY <1>1 DEF OneInstance, Start, Threads
  <2>2. \A t \in Threads : ~Owns(t)' /\ pc'[t] \notin {"revidence", "abandon"}
    BY <2>1 DEF Owns, AttemptPoints, TaskPoints
  <2>3. UNCHANGED <<att, nextAtt>> BY <1>1 DEF Start, attVars
  <2>4. AttemptsInOrder' BY <2>3 DEF Inv, OwnerInv, AttemptsInOrder
  <2>5. CopyCurrent' /\ OwnersDistinct' /\ EvidenceSound'
    BY <2>2 DEF CopyCurrent, OwnersDistinct, EvidenceSound
  <2> QED BY <2>3, <2>4, <2>5 DEF OwnerInv, WritesSafely
<1>2. ASSUME NEW p \in Procs, Down(p) PROVE OwnerInv' /\ WritesSafely
  <2>1. /\ UNCHANGED <<att, nextAtt, starts, msg>>
        /\ \A u \in Threads : /\ u[1] = p => pc'[u] = "dead"
                              /\ u[1] # p => /\ pc'[u] = pc[u] /\ la'[u] = la[u] /\ unf'[u] = unf[u]
                                             /\ cur'[u] = cur[u]
    BY <1>2 DEF Down, Lost, attVars, redisVars
  <2>2. \A u \in Threads : u[1] # p => QuietFor(u) BY <2>1, QuietOther, JobKept DEF Inv
  <2>3. \A u \in Threads : u[1] = p => QuietFor(u)
    BY <2>1 DEF QuietFor, Owns, AttemptPoints, TaskPoints
  <2> QED BY <2>1, <2>2, <2>3, QuietStep DEF Inv, WritesSafely
<1>3. CASE \/ Submit \/ \E p \in Procs : Shutdown(p)
           \/ \E r \in Roles : BeatLapses(r) \/ StartHeartbeat(r)
           \/ RedisDown \/ RedisUp \/ RedisWipe \/ ForeignAdd
  <2>1. UNCHANGED <<att, nextAtt, starts, pc, la, unf, cur>>
    BY <1>3 DEF Submit, Shutdown, BeatLapses, StartHeartbeat, RedisDown, RedisUp, RedisWipe,
       ForeignAdd, attVars, procVars, threadVars
  <2>2. \A m \in Msgs : m < nextMsg => msg'[m].job = msg[m].job
    <3>1. CASE ForeignAdd
      BY <3>1, BoundsAssumption DEF ForeignAdd, Inv, TypeInv, TypeOK, StreamTyped, Msgs
    <3>2. CASE RedisWipe BY <3>2 DEF RedisWipe, Inv, TypeInv, TypeOK, StreamTyped
    <3> QED BY <1>3, <3>1, <3>2 DEF Submit, Shutdown, BeatLapses, StartHeartbeat, RedisDown, RedisUp,
               redisVars
  <2>3. \A u \in Threads : QuietFor(u) BY <2>1, <2>2, QuietOther, JobKept DEF Inv
  <2> QED BY <2>1, <2>3, QuietStep DEF Inv, WritesSafely
<1> QED BY <1>1, <1>2, <1>3 DEF Environment, Crash, Exit

-----------------------------------------------------------------------------
(* Heartbeat evidence.                                                      *)

LEMMA BeatStep == ASSUME ~HeartbeatsMayLapse, Inv, Next PROVE BeatsFresh'
<1>1. ASSUME NEW t \in Threads, Consumer(t) PROVE BeatsFresh'
  BY <1>1, ConsumerAlive DEF BeatsFresh, Inv
<1>2. ASSUME NEW p \in Procs, Scheduler(p) PROVE BeatsFresh'
  BY <1>2, SchedulerAlive DEF BeatsFresh, Inv
<1>3. ASSUME NEW p \in Procs, Start(p) PROVE BeatsFresh'
  BY <1>3 DEF Start, BeatsFresh
<1>4. ASSUME NEW p \in Procs, Down(p) \/ Shutdown(p) PROVE BeatsFresh'
  BY <1>4 DEF Down, Shutdown, BeatsFresh, Inv, TypeInv, TypeOK, ProcessesTyped
<1>5. ASSUME NEW r \in Roles, BeatLapses(r) \/ StartHeartbeat(r) PROVE BeatsFresh'
  BY <1>5 DEF BeatLapses, StartHeartbeat, BeatsFresh, Inv, TypeInv, TypeOK, ProcessesTyped
<1>6. CASE UNCHANGED <<proc, beat>> BY <1>6 DEF BeatsFresh, Inv
<1> QED BY <1>1, <1>2, <1>3, <1>4, <1>5, <1>6 DEF Next, Environment, Crash, Exit, Submit, RedisDown, RedisUp,
           RedisWipe, ForeignAdd, procVars

-----------------------------------------------------------------------------
(* The invariant, and what follows from it.                                 *)

LEMMA InvInit == Init => Inv
<1> SUFFICES ASSUME Init PROVE Inv OBVIOUS
<1>1. \A t \in Threads : ~Owns(t) /\ pc[t] = "dead"
  BY DEF Init, Owns, AttemptPoints, TaskPoints
<1>2. AttemptsInOrder BY DEF Init, AttemptsInOrder, NoAttempt
<1>3. CopyCurrent /\ OwnersDistinct /\ EvidenceSound
  BY <1>1 DEF CopyCurrent, OwnersDistinct, EvidenceSound
<1>4. BeatsFresh /\ LiveThreads BY <1>1 DEF Init, BeatsFresh, LiveThreads, OffPoints
<1> QED BY <1>2, <1>3, <1>4, TypeInit DEF Inv, OwnerInv

LEMMA InvStep == ASSUME OneInstance, ~HeartbeatsMayLapse PROVE Inv /\ [Next]_vars => Inv'
<1> SUFFICES ASSUME Inv, [Next]_vars PROVE Inv' OBVIOUS
<1>1. CASE Next
  BY <1>1, TypeStep, ConsumerStep, SchedulerStep, EnvironmentStep, BeatStep, LiveStep DEF Next, Inv
<1>2. CASE UNCHANGED vars
  <2>1. \A u \in Threads : QuietFor(u) BY <1>2, QuietOther, JobKept DEF vars, Inv
  <2>2. BeatsFresh' /\ LiveThreads' BY <1>2 DEF vars, Inv, BeatsFresh, LiveThreads
  <2> QED BY <1>2, <2>1, <2>2, TypeStep, QuietStep DEF vars, Inv
<1> QED BY <1>1, <1>2

LEMMA InvWrites == ASSUME OneInstance, Inv, [Next]_vars PROVE WritesSafely
  BY ConsumerStep, SchedulerStep, EnvironmentStep DEF Next, vars, WritesSafely

(* attempt_ownership.go: with one process whose heartbeats do not lapse, an  *)
(* attempt is abandoned only when no thread is running it.                  *)
THEOREM AbandonSound == ASSUME OneInstance, ~HeartbeatsMayLapse PROVE Spec => AbandonOnlyDead
<1> DEFINE Sound == \A a \in Attempts :
             (att[a].status \in Unfinished /\ att'[a].status = "Abandoned") =>
                \A t \in Threads : ~(pc[t] \in AttemptPoints /\ la[t].id = a)
<1>1. Inv /\ [Next]_vars => [Sound]_vars
  BY InvWrites DEF WritesSafely, Owns, Unfinished
<1>2. AbandonOnlyDead <=> [][Sound]_vars BY PTL DEF AbandonOnlyDead
<1> QED BY InvInit, InvStep, <1>1, <1>2, PTL DEF Spec

(* The step that completes a run has its persisted success in hand. *)
LEMMA CompletesWithSuccess ==
    ASSUME Inv, [Next]_vars, NEW j \in Jobs, task[j].status # "Completed", task'[j].status = "Completed"
    PROVE  \E a \in Attempts : att[a].job = j /\ att[a].status = "Succeeded"
<1>1. PICK t \in Threads : MarkRunCompleted(t) /\ j = Job(t)
  <2>1. ASSUME NEW t \in Threads, ProcessTask(t) PROVE MarkRunCompleted(t) /\ j = Job(t)
    <3>1. Job(t) \in Jobs
      BY <2>1, ProcessTaskFrames DEF ProcessTaskFrame, Inv, TypeInv, TypeOK, HoldsDelivery
    <3>2. ASSUME NEW f, NEW s \in {"Running", "Failed", "Completed"}, MarkRun(t, f, s)
          PROVE  s = "Completed" /\ j = Job(t)
      BY <3>1, <3>2 DEF MarkRun, SaveTask, Inv, TypeInv, TypeOK, RowsTyped, ThreadsTyped, TaskRow
    <3>3. ~CreateRetryChild(t)
      <4>1. RetryRow(t).status = "Pending" BY DEF RetryRow
      <4>2. CreateRetryChild(t) => task' = task \/ task' = [task EXCEPT ![nextJob] = RetryRow(t)]
        BY DEF CreateRetryChild, SaveTask
      <4> QED BY <4>1, <4>2 DEF Inv, TypeInv, TypeOK, RowsTyped
    <3> QED BY <2>1, <3>2, <3>3 DEF ProcessTask, LoadTask, CheckDuplicate, MarkAttemptClaimed,
               MarkRunRunning, MarkAttemptStarted, RunHandler, MarkAttemptSucceeded, ConfirmSuccess,
               MarkRunCompleted, CheckRetryChild, MarkRunRetryableFailure, MarkRetryAttemptFailed,
               MarkAttemptFailed, MarkRunFailed, MarkAttempt, runVars
  <2>2. ASSUME NEW t \in Threads, Consumer(t) PROVE ProcessTask(t)
    BY <2>2 DEF Consumer, EnsureGroup, ReadStream, AckAndDelete, NextReclaimed, StopThread, XAutoClaim,
       PrepareRecovery, RecoveryReadTask, RecoveryReadAttempts, PlanRecovery, AbandonAttempt, runVars
  <2>3. ASSUME NEW p \in Procs, Scheduler(p) PROVE FALSE
    <3>1. CASE MarkRunQueued(p)
      <4>1. PICK e \in todo[p] :
              task' = task \/ task' = [task EXCEPT ![e.job] = [e.row EXCEPT !.status = "Queued"]]
        BY <3>1 DEF MarkRunQueued, SaveTask
      <4>2. [e.row EXCEPT !.status = "Queued"].status = "Queued"
        BY DEF Inv, TypeInv, TypeOK, SchedulersTyped, TaskRow
      <4> QED BY <4>1, <4>2 DEF Inv, TypeInv, TypeOK, RowsTyped
    <3>2. CASE MarkPublished(p)
      <4>1. task[j] \in TaskRow /\ (task'[j] = task[j] \/ task'[j] = [task[j] EXCEPT !.published = TRUE])
        BY <3>2 DEF MarkPublished, Inv, TypeInv, TypeOK, RowsTyped
      <4> QED BY <4>1 DEF TaskRow
    <3> QED BY <2>3, <3>1, <3>2 DEF Scheduler, PublishDueTasks, PublishTask, FindStranded, EndPass,
               StopScheduler, runVars
  <2>4. ~Environment
    BY DEF Environment, Submit, Start, Crash, Shutdown, Exit, Down, BeatLapses, StartHeartbeat,
       RedisDown, RedisUp, RedisWipe, ForeignAdd, NoRow, runVars, Inv, TypeInv, TypeOK, RowsTyped, Jobs
  <2> QED BY <2>1, <2>2, <2>3, <2>4 DEF Next, vars
<1>2. pc[t] = "completed" BY <1>1 DEF MarkRunCompleted, MarkRun
<1>3. CopyCurrentFor(t) /\ la[t].id \in Attempts
  BY <1>2 DEF Inv, OwnerInv, CopyCurrent, Owns, AttemptPoints, TaskPoints, TypeInv, TypeOK, ThreadsTyped,
     AttemptRow
<1> QED BY <1>1, <1>2, <1>3 DEF CopyCurrentFor, RowOf

(* RFC-001 section 8 invariant 11 (worker.go): with one process whose         *)
(* heartbeats do not lapse, a Completed run has a Succeeded attempt of its    *)
(* own, for every number of runs, attempts, crashes and failed statements.   *)
THEOREM CompletedSound ==
    ASSUME OneInstance, ~HeartbeatsMayLapse PROVE Spec => []CompletedHasSuccess
<1>1. Init => CompletedHasSuccess
  BY DEF Init, CompletedHasSuccess, NoRow
<1>2. Inv /\ CompletedHasSuccess /\ [Next]_vars => CompletedHasSuccess'
  <2> SUFFICES ASSUME Inv, CompletedHasSuccess, [Next]_vars, NEW j \in Jobs,
                      task'[j].status = "Completed"
               PROVE  \E a \in Attempts : att'[a].job = j /\ att'[a].status = "Succeeded"
    BY DEF CompletedHasSuccess
  <2>1. PICK a \in Attempts : att[a].job = j /\ att[a].status = "Succeeded"
    BY CompletesWithSuccess DEF CompletedHasSuccess
  <2> QED BY <2>1, InvWrites DEF WritesSafely
<1> QED BY InvInit, InvStep, <1>1, <1>2, PTL DEF Spec

-----------------------------------------------------------------------------
(***************************************************************************)
(* One delivery, one handler.  Where nothing but crashes, restarts, Redis     *)
(* outages and foreign entries happens to one process, and every delivery is  *)
(* handled inside the reclaim threshold, a run has one message, a message one *)
(* handler, and the handler's copies are the stored rows.  From that: a run   *)
(* never has two unfinished attempts, a terminal status is final, an          *)
(* unfinished run is always backed by a message or the stranded sweep, a      *)
(* delivery is acknowledged only after its run has ended, and the delivery    *)
(* path implements RunLifecycle.                                            *)
(***************************************************************************)
(* What the code does not survive is left out: the README's disagreements    *)
(* show what each of these would bring.                                     *)
Calm ==
    /\ \A p, q \in Procs : p = q
    /\ SlowPoints = {} /\ GroupAtStart /\ AtomicPublish /\ ~MayDrain
    /\ Budget["db"] = 0 /\ Budget["wipe"] = 0

Busy(t) == pc[t] \notin LoopPoints \cup OffPoints
Has(t, m) == (Busy(t) /\ cur[t] = m) \/ m \in batch[t]
Sent(j) == \E m \in Msgs : msg[m].job = j
Unsent(j) == task[j].status = "Queued" /\ ~task[j].published /\ ~Sent(j)
UnfinishedOf(j) == {a \in Attempts : att[a].job = j /\ att[a].status \in Unfinished}

Undisturbed == /\ group
               /\ \A p \in Procs : proc[p] # "draining"
               /\ \A t \in Threads : pc[t] # "stopped"

(* A message in somebody's hands is pending and in nobody else's. *)
HeldOnce ==
    /\ \A t \in Threads, m \in Msgs : Has(t, m) => msg[m].state = "pending"
    /\ \A t, u \in Threads, m \in Msgs : Has(t, m) /\ Has(u, m) => t = u
    /\ \A t \in Threads : /\ Busy(t) => cur[t] \notin batch[t]
                          /\ batch[t] # {} => pc[t] \notin {"idle", "setup"} \cup OffPoints /\ t[2] = "reclaimer"

OneMessage == \A m, k \in Msgs : msg[m].job = msg[k].job /\ msg[m].job # NoJob => m = k

JobsInOrder == \A j \in Jobs : /\ j >= nextJob => task[j] = NoRow
                               /\ task[j].status = "None" => task[j] = NoRow

(* A message stands for a run that was queued; it is done only with the run,  *)
(* and before its first delivery the run has no attempt.                    *)
Backed ==
    \A m \in Msgs : msg[m].job # NoJob =>
        /\ msg[m].state \in {"available", "pending", "done"}
        /\ task[msg[m].job].status \in {"Queued", "Running", "Completed", "Failed"}
        /\ msg[m].state = "done" => task[msg[m].job].status \in TerminalRun
        /\ msg[m].state = "available" =>
             \A a \in Attempts : att[a].status # "None" => att[a].job # msg[m].job

(* A run that started, or is marked published, has a message; one that has a   *)
(* message without being marked so is being marked.                         *)
Announced ==
    \A j \in Jobs :
        /\ task[j].status = "Running" \/ (task[j].status = "Queued" /\ task[j].published) => Sent(j)
        /\ task[j].status = "Pending" => ~task[j].published
        /\ (task[j].status = "Queued" /\ ~task[j].published /\ Sent(j)) =>
             \E p \in Procs : spc[p] = "mark" /\ pubjob[p] = j

AttemptsSent == \A a \in Attempts : att[a].status # "None" => Sent(att[a].job)

(* The scheduler's lists are what the rows still say. *)
ListsCurrent ==
    \A p \in Procs :
        /\ spc[p] \in {"idle", "dead"} => phase[p] = "due" /\ todo[p] = {}
        /\ \A e \in todo[p] : /\ phase[p] = "due" => e.row = task[e.job] /\ e.row.status = "Pending"
                              /\ phase[p] = "stranded" => Unsent(e.job)
                              /\ spc[p] \in {"add", "mark"} => e.job # pubjob[p]
        /\ \A e, f \in todo[p] : e.job = f.job => e = f
        /\ spc[p] = "add" => Unsent(pubjob[p])
        /\ spc[p] = "mark" => Sent(pubjob[p])

ChildrenOfFailed == \A j, k \in Jobs : task[k].parent = j => task[j].status = "Failed"

(* What a handler knows of its run at each point. *)
BeginPoints == {"check", "claim", "running"}
RunningPoints == {"started", "handler", "succeeded", "confirm", "completed", "child", "retryable",
                  "failAttempt", "failRun"}
FailedPoints == {"retryAttempt", "spawn"}
CopyPoints == BeginPoints \cup RunningPoints \cup FailedPoints \cup {"rattempts", "revidence"}

KnowsRun(t) ==
    /\ pc[t] \in CopyPoints => /\ row[t].status = task[Job(t)].status
                               /\ row[t].parent = task[Job(t)].parent
                               /\ row[t].retryIndex = task[Job(t)].retryIndex
    /\ pc[t] \in BeginPoints => task[Job(t)].status \in {"Queued", "Running"}
    /\ pc[t] \in RunningPoints => task[Job(t)].status = "Running"
    /\ pc[t] \in FailedPoints => task[Job(t)].status = "Failed"
    /\ pc[t] = "ack" /\ Job(t) # NoJob => task[Job(t)].status \in TerminalRun
    /\ pc[t] \in {"retryable", "retryAttempt", "spawn"} => \A k \in Jobs : task[k].parent # Job(t)
    /\ pc[t] = "spawn" => row[t].retryIndex < MaxRetries

KnowsAttempts(t) ==
    /\ pc[t] = "load" => task[Job(t)].status \in TerminalRun \/ UnfinishedOf(Job(t)) = {}
    /\ pc[t] \in {"check", "claim"} => UnfinishedOf(Job(t)) = {}
    /\ pc[t] \in AttemptPoints => /\ att[la[t].id] = la[t] /\ la[t].job = Job(t) /\ la[t].status # "None"
                                  /\ UnfinishedOf(Job(t)) \subseteq {la[t].id}
    /\ pc[t] \in AttemptPoints \ {"confirm", "completed", "spawn", "failRun"} => la[t].status \in Unfinished
    /\ pc[t] \in {"confirm", "completed"} => la[t].status = "Succeeded"
    /\ pc[t] \in {"revidence", "abandon"} => unf[t] = UnfinishedOf(Job(t))

Handled == \A t \in Threads : Busy(t) => KnowsRun(t) /\ KnowsAttempts(t)

AttemptsNew == \A a \in Attempts : a >= nextAtt => att[a].status = "None"

ThreadInv == Undisturbed /\ HeldOnce /\ OneMessage
StoreInv == JobsInOrder /\ Backed /\ Announced /\ AttemptsSent /\ ListsCurrent /\ ChildrenOfFailed
AttemptInv == AttemptsNew /\ OneUnfinishedAttempt
ExInv == TypeInv /\ ThreadInv /\ StoreInv /\ AttemptInv /\ Handled

-----------------------------------------------------------------------------
LEMMA ExInit == Calm /\ Init => ExInv
<1> SUFFICES ASSUME Calm, Init PROVE ExInv OBVIOUS
<1> USE DEF Calm, Init
<1>1. TypeInv BY TypeInit
<1>2. \A t \in Threads : ~Busy(t) BY DEF Busy, OffPoints
<1>3. ThreadInv
  BY <1>2 DEF ThreadInv, Undisturbed, HeldOnce, OneMessage, Has
<1>4. JobsInOrder /\ Backed /\ ListsCurrent BY DEF JobsInOrder, Backed, ListsCurrent
<1>5. Announced /\ AttemptsSent /\ ChildrenOfFailed
  BY BoundsAssumption DEF Announced, AttemptsSent, NoAttempt, ChildrenOfFailed, NoRow, NoJob, Jobs
<1>6. AttemptInv BY DEF AttemptInv, AttemptsNew, OneUnfinishedAttempt, NoAttempt
<1> QED BY <1>1, <1>2, <1>3, <1>4, <1>5, <1>6 DEF ExInv, StoreInv, Handled

(* No statement fails and nothing is wiped. *)
LEMMA NoFaults ==
    ASSUME Calm, TypeInv, Undisturbed
    PROVE  /\ \A ok \in BOOLEAN : Db(ok) => ok
           /\ \A p \in Procs, ok \in BOOLEAN : DbCtx(p, ok) => ok
           /\ ~RedisWipe
<1>1. ~Spend("db") /\ ~Spend("wipe")
  BY DEF Calm, Spend, TypeInv, TypeOK, ProcessesTyped, FaultKinds
<1> QED BY <1>1 DEF Db, DbCtx, Undisturbed, RedisWipe

(* What a busy thread holds. *)
LEMMA Holding ==
    ASSUME ExInv, NEW t \in Threads, Busy(t)
    PROVE  /\ cur[t] \in Msgs /\ msg[cur[t]].state = "pending" /\ msg[cur[t]].job = Job(t)
           /\ Job(t) # NoJob => Job(t) \in Jobs /\ Sent(Job(t))
           /\ Job(t) \in Jobs => /\ Sent(Job(t)) /\ Job(t) # NoJob
                                 /\ task[Job(t)].status \in {"Queued", "Running", "Completed", "Failed"}
           /\ pc[t] \in TaskPoints \cup RecoveryPoints => Job(t) \in Jobs
<1>1. pc[t] \in RecoveryPoints \cup TaskPoints \cup {"ack"}
  BY DEF ExInv, TypeInv, TypeOK, ThreadsTyped, Points, Busy
<1>2. cur[t] \in Msgs BY <1>1 DEF ExInv, TypeInv, TypeOK, HoldsDelivery
<1>3. msg[cur[t]].state = "pending" BY <1>2 DEF ExInv, ThreadInv, HeldOnce, Has
<1>4. msg[cur[t]].job \in Jobs \cup {NoJob} BY <1>2 DEF ExInv, TypeInv, TypeOK, StreamTyped
<1>5. NoJob \notin Jobs BY BoundsAssumption DEF NoJob, Jobs
<1> QED BY <1>1, <1>2, <1>3, <1>4, <1>5 DEF Job, Sent, ExInv, StoreInv, Backed, TypeInv, TypeOK, HoldsDelivery

(* Two busy threads work on different runs. *)
LEMMA Alone ==
    ASSUME ExInv, NEW t \in Threads, NEW u \in Threads, t # u, Busy(t), Busy(u), Job(t) # NoJob
    PROVE  Job(t) # Job(u)
<1>1. cur[t] # cur[u] BY Holding DEF ExInv, ThreadInv, HeldOnce, Has
<1> QED BY <1>1, Holding DEF ExInv, ThreadInv, OneMessage

(* A thread whose run and attempts are left alone goes on knowing them. *)
LEMMA KnowsKept ==
    ASSUME ExInv, NEW u \in Threads, Busy(u),
           pc'[u] = pc[u], row'[u] = row[u], la'[u] = la[u], unf'[u] = unf[u], Job(u)' = Job(u),
           Job(u) # NoJob =>
               /\ task'[Job(u)].status = task[Job(u)].status
               /\ task'[Job(u)].parent = task[Job(u)].parent
               /\ task'[Job(u)].retryIndex = task[Job(u)].retryIndex
               /\ \A k \in Jobs : task'[k].parent = task[k].parent \/ task'[k].parent # Job(u)
               /\ \A a \in Attempts : \/ att'[a] = att[a]
                                        \/ /\ att[a].job # Job(u) \/ att[a].status = "None"
                                           /\ att'[a].job # Job(u)
    PROVE  KnowsRun(u)' /\ KnowsAttempts(u)'
<1>0. KnowsRun(u) /\ KnowsAttempts(u) BY DEF ExInv, Handled
<1>1. CASE Job(u) = NoJob
  <2>1. pc[u] = "ack" BY <1>1, Holding DEF ExInv, TypeInv, TypeOK, ThreadsTyped, Points, Busy, NoJob
  <2> QED BY <1>1, <2>1 DEF KnowsRun, KnowsAttempts, CopyPoints, BeginPoints, RunningPoints, FailedPoints,
             AttemptPoints, TaskPoints
<1>2. CASE Job(u) # NoJob
  <2>1. KnowsRun(u)' BY <1>0, <1>2 DEF KnowsRun
  <2>2. UnfinishedOf(Job(u))' = UnfinishedOf(Job(u)) BY <1>2 DEF UnfinishedOf, Unfinished
  <2>3. la[u].id \in Attempts BY DEF ExInv, TypeInv, TypeOK, ThreadsTyped, AttemptRow
  <2>4. KnowsAttempts(u)' BY <1>0, <1>2, <2>2, <2>3 DEF KnowsAttempts
  <2> QED BY <2>1, <2>4
<1> QED BY <1>1, <1>2

-----------------------------------------------------------------------------
(* A step of a thread that handles a delivery.                              *)

(* The thread's own delivery, and nobody else's, goes on being handled. *)
LEMMA ThreadKept ==
    ASSUME ExInv, NEW t \in Threads, Busy(t), NEW x \in RecoveryPoints \cup TaskPoints \cup {"ack", "next"},
           pc' = [pc EXCEPT ![t] = x], UNCHANGED <<msg, group, proc, batch>>,
           cur' = cur \/ (x = "next" /\ cur' = [cur EXCEPT ![t] = NoMsg])
    PROVE  ThreadInv'
<1> USE DEF ExInv, ThreadInv, TypeInv, TypeOK, ThreadsTyped
<1>1. Undisturbed' BY DEF Undisturbed, RecoveryPoints, TaskPoints
<1>2. \A u \in Threads, m \in Msgs : Has(u, m)' => Has(u, m)
  BY DEF Has, Busy, LoopPoints
<1>3. \A u \in Threads : /\ Busy(u)' => Busy(u) /\ cur'[u] = cur[u]
                         /\ pc'[u] \in {"idle", "setup"} \cup OffPoints => pc'[u] = pc[u]
  BY DEF Busy, LoopPoints, RecoveryPoints, TaskPoints, OffPoints
<1>4. HeldOnce'
  <2>1. HeldOnce OBVIOUS
  <2>2. \A u \in Threads, m \in Msgs : Has(u, m)' => msg'[m].state = "pending"
    BY <1>2, <2>1 DEF HeldOnce
  <2>3. \A u, v \in Threads, m \in Msgs : Has(u, m)' /\ Has(v, m)' => u = v
    BY <1>2, <2>1 DEF HeldOnce
  <2>4. \A u \in Threads : /\ Busy(u)' => cur'[u] \notin batch'[u]
                           /\ batch'[u] # {} => pc'[u] \notin {"idle", "setup"} \cup OffPoints /\ u[2] = "reclaimer"
    BY <1>3, <2>1 DEF HeldOnce

  <2> QED BY <2>2, <2>3, <2>4 DEF HeldOnce
<1>5. OneMessage' BY DEF OneMessage
<1> QED BY <1>1, <1>4, <1>5

(* Writing attempts of the thread's own run disturbs no row and no list. *)
LEMMA StoreKept ==
    ASSUME ExInv, NEW t \in Threads, Busy(t), UNCHANGED <<task, nextJob, msg, schedVars>>,
           \A a \in Attempts : att'[a] = att[a] \/ att'[a].job = Job(t)
    PROVE  StoreInv'
<1> USE DEF ExInv, StoreInv, schedVars
<1>1. JobsInOrder' /\ Announced' /\ ListsCurrent' /\ ChildrenOfFailed'
  BY DEF JobsInOrder, Announced, ListsCurrent, ChildrenOfFailed, Sent, Unsent
<1>2. \A m \in Msgs : msg[m].job # NoJob /\ msg[m].state = "available" => msg[m].job # Job(t)
  BY Holding DEF ThreadInv, OneMessage
<1>3. Backed' BY <1>2 DEF Backed
<1>4. AttemptsSent'
  <2>1. Sent(Job(t)) BY Holding DEF Sent
  <2> QED BY <2>1 DEF AttemptsSent, Sent
<1> QED BY <1>1, <1>3, <1>4

(* Writing the thread's own run, which is under way, disturbs no other row. *)
LEMMA RunWrite ==
    ASSUME ExInv, NEW t \in Threads, Busy(t), Job(t) \in Jobs,
           task[Job(t)].status \in {"Queued", "Running"}, NEW s \in {"Running", "Completed", "Failed"},
           row[t].parent = task[Job(t)].parent, row[t].retryIndex = task[Job(t)].retryIndex,
           task' = [task EXCEPT ![Job(t)] = [row[t] EXCEPT !.status = s]],
           UNCHANGED <<nextJob, att, msg, schedVars>>
    PROVE  /\ StoreInv'
           /\ task'[Job(t)].status = s /\ task'[Job(t)].parent = task[Job(t)].parent
           /\ task'[Job(t)].retryIndex = task[Job(t)].retryIndex
           /\ \A j \in Jobs : j # Job(t) => task'[j] = task[j]
<1> USE DEF ExInv, StoreInv, schedVars
<1>1. /\ task'[Job(t)].status = s /\ task'[Job(t)].parent = task[Job(t)].parent
      /\ task'[Job(t)].retryIndex = task[Job(t)].retryIndex
      /\ \A j \in Jobs : j # Job(t) => task'[j] = task[j]
  BY DEF TypeInv, TypeOK, RowsTyped, ThreadsTyped, TaskRow
<1>2. Sent(Job(t)) /\ \A j \in Jobs : Sent(j)' = Sent(j) BY Holding DEF Sent
<1>3. JobsInOrder'
  <2>1. task[Job(t)] # NoRow BY DEF NoRow
  <2>2. JobsInOrder OBVIOUS
  <2> QED BY <1>1, <2>1, <2>2 DEF JobsInOrder
<1>4. Backed'
  <2>1. \A m \in Msgs : msg[m].job = Job(t) => msg[m].state = "pending"
    BY Holding DEF ThreadInv, OneMessage
  <2>2. \A m \in Msgs : msg[m].job # NoJob => msg[m].job \in Jobs
    BY DEF TypeInv, TypeOK, StreamTyped
  <2> QED BY <1>1, <2>1, <2>2 DEF Backed, TerminalRun
<1>5. Announced' /\ AttemptsSent' BY <1>1, <1>2 DEF Announced, AttemptsSent, Sent
<1>6. ListsCurrent'
  <2>1. \A j \in Jobs : Unsent(j) => j # Job(t) /\ Unsent(j)' BY <1>1, <1>2 DEF Unsent
  <2>2. \A p \in Procs : /\ \A e \in todo[p] : e.job \in Jobs
                         /\ spc[p] \in {"add", "mark"} => pubjob[p] \in Jobs
    BY DEF TypeInv, TypeOK, SchedulersTyped
  <2>3. \A p \in Procs : \A e \in todo[p] : phase[p] = "due" => e.job # Job(t)
    BY DEF ListsCurrent
  <2> QED BY <1>1, <1>2, <2>1, <2>2, <2>3 DEF ListsCurrent
<1>7. ChildrenOfFailed'
  <2>1. \A k \in Jobs : task'[k].parent = task[k].parent BY <1>1
  <2> QED BY <1>1, <2>1 DEF ChildrenOfFailed
<1> QED BY <1>1, <1>3, <1>4, <1>5, <1>6, <1>7

(* A thread that writes rows of its own run leaves the others' knowledge alone. *)
LEMMA OthersKnow ==
    ASSUME ExInv, NEW t \in Threads, Busy(t), Job(t) \in Jobs,
           \A u \in Threads \ {t} : /\ pc'[u] = pc[u] /\ cur'[u] = cur[u] /\ row'[u] = row[u]
                                    /\ la'[u] = la[u] /\ unf'[u] = unf[u],
           UNCHANGED msg,
           task'[Job(t)].parent = task[Job(t)].parent,
           \A k \in Jobs : \/ k = Job(t) \/ task'[k] = task[k]
                           \/ task[k].status = "None" /\ task'[k].parent = Job(t),
           \A a \in Attempts : \/ att'[a] = att[a]
                               \/ /\ att'[a].job = Job(t)
                                  /\ att[a].job = Job(t) \/ att[a].status = "None"
    PROVE  \A u \in Threads \ {t} : Busy(u)' => KnowsRun(u)' /\ KnowsAttempts(u)'
<1> SUFFICES ASSUME NEW u \in Threads \ {t}, Busy(u)' PROVE KnowsRun(u)' /\ KnowsAttempts(u)'
  OBVIOUS
<1>1. Busy(u) /\ Job(u)' = Job(u) BY DEF Busy, Job
<1>2. Job(t) # NoJob /\ Job(u) # Job(t) BY <1>1, Holding, Alone
<1>3. Job(u) # NoJob => Job(u) \in Jobs /\ task[Job(u)].status # "None" BY <1>1, Holding
<1> QED BY <1>1, <1>2, <1>3, KnowsKept

(* What is left to show of a step inside a handled delivery. *)
LEMMA HandlingStep ==
    ASSUME ExInv, TypeInv', NEW t \in Threads, Busy(t), Job(t) \in Jobs,
           NEW x \in RecoveryPoints \cup TaskPoints \cup {"ack", "next"}, pc' = [pc EXCEPT ![t] = x],
           cur' = cur \/ (x = "next" /\ cur' = [cur EXCEPT ![t] = NoMsg]),
           UNCHANGED <<msg, group, proc, batch>>,
           \A u \in Threads \ {t} : row'[u] = row[u] /\ la'[u] = la[u] /\ unf'[u] = unf[u],
           task'[Job(t)].parent = task[Job(t)].parent,
           \A k \in Jobs : \/ k = Job(t) \/ task'[k] = task[k]
                           \/ task[k].status = "None" /\ task'[k].parent = Job(t),
           \A a \in Attempts : \/ att'[a] = att[a]
                               \/ /\ att'[a].job = Job(t)
                                  /\ att[a].job = Job(t) \/ att[a].status = "None",
           StoreInv', AttemptInv',
           x # "next" => KnowsRun(t)' /\ KnowsAttempts(t)'
    PROVE  ExInv'
<1>1. ThreadInv' BY ThreadKept
<1>2. \A u \in Threads \ {t} : pc'[u] = pc[u] /\ cur'[u] = cur[u]
  BY DEF ExInv, TypeInv, TypeOK, ThreadsTyped
<1>3. \A u \in Threads \ {t} : Busy(u)' => KnowsRun(u)' /\ KnowsAttempts(u)'
  BY <1>2, OthersKnow
<1>4. x = "next" => ~Busy(t)' BY DEF Busy, LoopPoints, ExInv, TypeInv, TypeOK, ThreadsTyped
<1>5. Handled' BY <1>3, <1>4 DEF Handled
<1> QED BY <1>1, <1>5 DEF ExInv

(* The reads of ProcessTask: with its delivery its own, a handler meets no     *)
(* duplicate, its success is confirmed and it has no retry child yet.        *)
LEMMA TaskReads ==
    ASSUME Calm, ExInv, NEW t \in Threads,
           LoadTask(t) \/ CheckDuplicate(t) \/ RunHandler(t) \/ ConfirmSuccess(t) \/ CheckRetryChild(t)
    PROVE  ExInv'
<1>1. ProcessTask(t) BY DEF ProcessTask
<1>2. TypeInv' BY <1>1, ProcessTaskTyped DEF ExInv
<1>3. pc[t] \in TaskPoints /\ Busy(t) /\ Job(t) \in Jobs /\ Job(t) # NoJob
  <2>1. pc[t] \in TaskPoints BY <1>1, ProcessTaskFrames DEF ProcessTaskFrame
  <2>2. Busy(t) BY <2>1 DEF Busy, TaskPoints, LoopPoints, OffPoints
  <2> QED BY <2>1, <2>2, Holding
<1>4. PICK x \in TaskPoints \cup {"ack"} : pc' = [pc EXCEPT ![t] = x]
  BY <1>1, ProcessTaskFrames DEF ProcessTaskFrame
<1>5. UNCHANGED <<redisVars, procVars, schedVars, cur, batch, unf, runVars, attVars, la>>
  BY DEF LoadTask, CheckDuplicate, RunHandler, ConfirmSuccess, CheckRetryChild, Return
<1>6. \A u \in Threads \ {t} : row'[u] = row[u]
  BY DEF LoadTask, CheckDuplicate, RunHandler, ConfirmSuccess, CheckRetryChild, ExInv, TypeInv, TypeOK, ThreadsTyped
<1>7. StoreInv' BY <1>3, <1>5, StoreKept DEF runVars, attVars, redisVars
<1>8. AttemptInv' BY <1>5 DEF ExInv, AttemptInv, AttemptsNew, OneUnfinishedAttempt, attVars
<1>9. KnowsRun(t)' /\ KnowsAttempts(t)'
  <2>1. /\ Job(t)' = Job(t) /\ UnfinishedOf(Job(t))' = UnfinishedOf(Job(t)) /\ pc'[t] = x
        /\ UNCHANGED <<task, att, la, unf>>
    BY <1>4, <1>5 DEF Job, UnfinishedOf, redisVars, attVars, runVars, ExInv, TypeInv, TypeOK, ThreadsTyped
  <2>2. KnowsRun(t) /\ KnowsAttempts(t) BY <1>3 DEF ExInv, Handled
  <2>3. task[Job(t)].status \in {"Queued", "Running", "Completed", "Failed"} BY <1>3, Holding
  <2>4. \A ok \in BOOLEAN : Db(ok) => ok BY NoFaults DEF ExInv, ThreadInv
  <2> DEFINE Knows == KnowsRun(t)' /\ KnowsAttempts(t)'
  <2> HIDE DEF Knows
  <2> USE <2>1, <2>2, <2>3, <2>4
      DEF Goto, TaskPoints, AttemptPoints, CopyPoints, BeginPoints, RunningPoints, FailedPoints, TerminalRun
  <2>5. CASE LoadTask(t)
    <3>1. /\ pc[t] = "load" /\ x \in {"check", "ack"}
          /\ x = "check" => /\ row'[t] = task[Job(t)] /\ task[Job(t)].status \in {"Queued", "Running"}
          /\ x = "ack" => task[Job(t)].status \in TerminalRun
      BY <1>4, <2>5 DEF LoadTask, NothingToDo, ExInv, TypeInv, TypeOK, ThreadsTyped
    <3> QED BY <3>1 DEF KnowsRun, KnowsAttempts, Knows
  <2>6. CASE CheckDuplicate(t)
    <3>1. pc[t] = "check" /\ x = "claim" /\ row' = row
      BY <1>4, <2>6 DEF CheckDuplicate, KnowsAttempts, UnfinishedOf, ExInv, TypeInv, TypeOK, ThreadsTyped
    <3> QED BY <3>1 DEF KnowsRun, KnowsAttempts, Knows
  <2>7. CASE RunHandler(t)
    <3>1. pc[t] = "handler" /\ x \in {"succeeded", "child", "failAttempt"} /\ row' = row
      BY <1>4, <2>7 DEF RunHandler, ExInv, TypeInv, TypeOK, ThreadsTyped
    <3> QED BY <3>1 DEF KnowsRun, KnowsAttempts, Knows
  <2>8. CASE ConfirmSuccess(t)
    <3>1. pc[t] = "confirm" /\ row' = row BY <2>8 DEF ConfirmSuccess
    <3>2. Confirmed(t) BY <3>1 DEF KnowsAttempts, Confirmed
    <3>3. x = "completed"
      BY <1>4, <2>8, <3>2 DEF ConfirmSuccess, ExInv, TypeInv, TypeOK, ThreadsTyped
    <3> QED BY <3>1, <3>3 DEF KnowsRun, KnowsAttempts, Knows
  <2>9. CASE CheckRetryChild(t)
    <3>1. pc[t] = "child" /\ row' = row BY <2>9 DEF CheckRetryChild
    <3>2. \A k \in Jobs : task[k].parent # Job(t)
      BY <1>3, <3>1 DEF KnowsRun, ExInv, StoreInv, ChildrenOfFailed
    <3>3. x = "retryable"
      BY <1>4, <2>9, <3>2 DEF CheckRetryChild, ExInv, TypeInv, TypeOK, ThreadsTyped
    <3> QED BY <3>1, <3>2, <3>3 DEF KnowsRun, KnowsAttempts, Knows
  <2> QED BY <2>5, <2>6, <2>7, <2>8, <2>9 DEF Knows
<1> QED BY <1>2, <1>3, <1>4, <1>5, <1>6, <1>7, <1>8, <1>9, HandlingStep DEF runVars, attVars, redisVars, procVars

(* The frame of a statement of ProcessTask, as the steps below use it. *)
LEMMA Handling ==
    ASSUME ExInv, NEW t \in Threads, ProcessTask(t)
    PROVE  /\ TypeInv' /\ pc[t] \in TaskPoints /\ Busy(t) /\ Job(t) \in Jobs /\ Job(t) # NoJob
           /\ KnowsRun(t) /\ KnowsAttempts(t) /\ Job(t)' = Job(t)
           /\ \E x \in TaskPoints \cup {"ack"} : pc' = [pc EXCEPT ![t] = x] /\ pc'[t] = x
           /\ UNCHANGED <<msg, nextMsg, group, redis, proc, schedVars, cur, batch, unf>>
<1>1. ProcessTaskFrame(t) BY ProcessTaskFrames
<1>2. Busy(t) BY <1>1 DEF ProcessTaskFrame, Busy, TaskPoints, LoopPoints, OffPoints
<1>3. Job(t) \in Jobs /\ Job(t) # NoJob BY <1>1, <1>2, Holding DEF ProcessTaskFrame
<1>4. KnowsRun(t) /\ KnowsAttempts(t) BY <1>2 DEF ExInv, Handled
<1>5. TypeInv' BY ProcessTaskTyped DEF ExInv
<1> QED BY <1>1, <1>2, <1>3, <1>4, <1>5
    DEF ProcessTaskFrame, Job, redisVars, procVars, ExInv, TypeInv, TypeOK, ThreadsTyped

(* A Save of the run by its handler. *)
LEMMA RunSaved ==
    ASSUME Calm, ExInv, NEW t \in Threads, ProcessTask(t), NEW from, NEW to, NEW s \in {"Running", "Completed", "Failed"},
           MarkRun(t, from, s), pc' = [pc EXCEPT ![t] = to],
           \/ from = "running" /\ s = "Running" /\ to = "started"
           \/ from = "completed" /\ s = "Completed" /\ to = "ack"
           \/ from = "retryable" /\ s = "Failed" /\ to = "retryAttempt"
           \/ from = "failRun" /\ s = "Failed" /\ to = "ack"
    PROVE  /\ ExInv'
           /\ task[Job(t)].status \in {"Queued", "Running"} /\ (s # "Running" => task[Job(t)].status = "Running")
           /\ task'[Job(t)].status = s /\ task'[Job(t)].parent = task[Job(t)].parent
           /\ task'[Job(t)].retryIndex = task[Job(t)].retryIndex
           /\ \A j \in Jobs : j # Job(t) => task'[j] = task[j]
           /\ s = "Completed" => \E a \in Attempts : att[a].job = Job(t) /\ att[a].status = "Succeeded"
           /\ UNCHANGED att
<1> USE Handling
<1>1. \A ok \in BOOLEAN : Db(ok) => ok BY NoFaults DEF ExInv, ThreadInv
<1>2. /\ task' = [task EXCEPT ![Job(t)] = [row[t] EXCEPT !.status = s]]
      /\ row' = [row EXCEPT ![t].status = s] /\ UNCHANGED <<nextJob, att, nextAtt, la>> /\ pc[t] = from
  BY <1>1 DEF MarkRun, SaveTask, attVars
<1>3. /\ row[t].status = task[Job(t)].status /\ row[t].parent = task[Job(t)].parent
      /\ row[t].retryIndex = task[Job(t)].retryIndex
      /\ task[Job(t)].status \in {"Queued", "Running"} /\ (s # "Running" => task[Job(t)].status = "Running")
  BY <1>2 DEF KnowsRun, CopyPoints, BeginPoints, RunningPoints
<1>4. /\ StoreInv'
      /\ task'[Job(t)].status = s /\ task'[Job(t)].parent = task[Job(t)].parent
      /\ task'[Job(t)].retryIndex = task[Job(t)].retryIndex
      /\ \A j \in Jobs : j # Job(t) => task'[j] = task[j]
  BY <1>2, <1>3, RunWrite
<1>5. AttemptInv' BY <1>2 DEF ExInv, AttemptInv, AttemptsNew, OneUnfinishedAttempt
<1>6. /\ row'[t].status = s /\ row'[t].parent = row[t].parent /\ row'[t].retryIndex = row[t].retryIndex
      /\ \A u \in Threads \ {t} : row'[u] = row[u]
  BY <1>2 DEF ExInv, TypeInv, TypeOK, ThreadsTyped, TaskRow
<1>7. pc'[t] = to BY DEF ExInv, TypeInv, TypeOK, ThreadsTyped
<1>8. KnowsRun(t)'
  <2>1. \A k \in Jobs : task'[k].parent = task[k].parent BY <1>4
  <2> QED BY <1>2, <1>3, <1>4, <1>6, <1>7, <2>1
      DEF KnowsRun, CopyPoints, BeginPoints, RunningPoints, FailedPoints, TerminalRun
<1>9. KnowsAttempts(t)'
  <2>1. UnfinishedOf(Job(t))' = UnfinishedOf(Job(t)) BY <1>2 DEF UnfinishedOf
  <2> QED BY <1>2, <1>7, <2>1 DEF KnowsAttempts, AttemptPoints, TaskPoints
<1>10. ExInv'
  BY <1>2, <1>4, <1>5, <1>6, <1>8, <1>9, HandlingStep DEF TaskPoints
<1>11. s = "Completed" => \E a \in Attempts : att[a].job = Job(t) /\ att[a].status = "Succeeded"
  <2> SUFFICES ASSUME s = "Completed"
               PROVE  la[t].id \in Attempts /\ att[la[t].id].job = Job(t) /\ att[la[t].id].status = "Succeeded"
    OBVIOUS
  <2>1. pc[t] = "completed" BY <1>2
  <2>2. la[t].id \in Attempts BY DEF ExInv, TypeInv, TypeOK, ThreadsTyped, AttemptRow
  <2> QED BY <2>1, <2>2 DEF KnowsAttempts, AttemptPoints, TaskPoints
<1> QED BY <1>2, <1>3, <1>4, <1>10, <1>11

(* A Save of the attempt by its handler. *)
LEMMA AttemptSaved ==
    ASSUME Calm, ExInv, NEW t \in Threads, ProcessTask(t), NEW from, NEW to, NEW s \in AttemptStatus \ {"None"},
           MarkAttempt(t, from, s), pc' = [pc EXCEPT ![t] = to],
           \/ from = "started" /\ s = "Started" /\ to = "handler"
           \/ from = "succeeded" /\ s = "Succeeded" /\ to = "confirm"
           \/ from = "retryAttempt" /\ s = "Failed" /\ to = "ack"
           \/ from = "retryAttempt" /\ s = "Failed" /\ to = "spawn" /\ row[t].retryIndex < MaxRetries
           \/ from = "failAttempt" /\ s = "Failed" /\ to = "failRun"
    PROVE  /\ ExInv'
           /\ la[t].id \in Attempts /\ att[la[t].id].job = Job(t) /\ att[la[t].id].status \in Unfinished
           /\ s = "Succeeded" => task[Job(t)].status = "Running"
           /\ att'[la[t].id].job = Job(t) /\ att'[la[t].id].status = s
           /\ \A a \in Attempts : a # la[t].id => att'[a] = att[a]
           /\ UNCHANGED task
<1> USE Handling
<1>1. \A ok \in BOOLEAN : Db(ok) => ok BY NoFaults DEF ExInv, ThreadInv
<1>2. /\ att' = [att EXCEPT ![la[t].id] = [la[t] EXCEPT !.status = s]]
      /\ la' = [la EXCEPT ![t].status = s] /\ UNCHANGED <<task, nextJob, nextAtt, row>> /\ pc[t] = from
  <2>1. [la[t] EXCEPT !.status = s].id = la[t].id BY DEF ExInv, TypeInv, TypeOK, ThreadsTyped, AttemptRow
  <2> QED BY <1>1, <2>1 DEF MarkAttempt, SaveAttempt, runVars
<1>3. /\ att[la[t].id] = la[t] /\ la[t].job = Job(t) /\ la[t].status # "None"
      /\ UnfinishedOf(Job(t)) \subseteq {la[t].id} /\ la[t].id \in Attempts
  BY <1>2 DEF KnowsAttempts, AttemptPoints, TaskPoints, ExInv, TypeInv, TypeOK, ThreadsTyped, AttemptRow
<1>4. /\ att'[la[t].id] = [la[t] EXCEPT !.status = s] /\ att'[la[t].id].job = Job(t)
      /\ att'[la[t].id].status = s /\ \A a \in Attempts : a # la[t].id => att'[a] = att[a]
  BY <1>2, <1>3 DEF ExInv, TypeInv, TypeOK, RowsTyped, ThreadsTyped, AttemptRow
<1>5. StoreInv'
  <2>1. \A a \in Attempts : att'[a] = att[a] \/ att'[a].job = Job(t) BY <1>4
  <2> QED BY <1>2, <2>1, StoreKept
<1>6. UnfinishedOf(Job(t))' \subseteq {la[t].id}
  BY <1>3, <1>4 DEF UnfinishedOf
<1>7. AttemptInv'
  <2>1. AttemptsNew' BY <1>2, <1>3, <1>4 DEF ExInv, AttemptInv, AttemptsNew
  <2>2. OneUnfinishedAttempt'
    <3>1. \A a \in Attempts : att'[a].status \in Unfinished =>
             \/ att'[a].job = Job(t) /\ a = la[t].id
             \/ att'[a] = att[a] /\ att[a].job # Job(t)
      BY <1>4, <1>6 DEF UnfinishedOf
    <3> QED BY <1>4, <3>1 DEF ExInv, AttemptInv, OneUnfinishedAttempt, Unfinished
  <2> QED BY <2>1, <2>2 DEF AttemptInv
<1>8. /\ la'[t] = [la[t] EXCEPT !.status = s] /\ la'[t].id = la[t].id /\ la'[t].job = la[t].job
      /\ la'[t].status = s /\ \A u \in Threads \ {t} : la'[u] = la[u]
  BY <1>2 DEF ExInv, TypeInv, TypeOK, ThreadsTyped, AttemptRow
<1>9. pc'[t] = to BY DEF ExInv, TypeInv, TypeOK, ThreadsTyped
<1>10. KnowsRun(t)'
  BY <1>2, <1>9 DEF KnowsRun, CopyPoints, BeginPoints, RunningPoints, FailedPoints, TerminalRun
<1>11. KnowsAttempts(t)'
  BY <1>2, <1>3, <1>4, <1>6, <1>8, <1>9 DEF KnowsAttempts, AttemptPoints, TaskPoints, UnfinishedOf, Unfinished
<1>12. ExInv'
  <2>1. \A a \in Attempts : att'[a] = att[a] \/ (att'[a].job = Job(t) /\ att[a].job = Job(t))
    BY <1>3, <1>4
  <2>2. to \in RecoveryPoints \cup TaskPoints \cup {"ack", "next"} BY DEF TaskPoints
  <2> QED BY <1>2, <1>5, <1>7, <1>8, <1>10, <1>11, <2>1, <2>2, HandlingStep
<1>13. la[t].status \in Unfinished /\ (s = "Succeeded" => task[Job(t)].status = "Running")
  BY <1>2 DEF KnowsAttempts, KnowsRun, AttemptPoints, TaskPoints, RunningPoints
<1> QED BY <1>2, <1>3, <1>4, <1>12, <1>13

(* A claim creates the run's one unfinished attempt. *)
LEMMA AttemptClaimed ==
    ASSUME Calm, ExInv, NEW t \in Threads, MarkAttemptClaimed(t)
    PROVE  /\ ExInv' /\ UNCHANGED task
           /\ \A a \in Attempts : att'[a] = att[a] \/ (att[a].status = "None" /\ att'[a].status = "Claimed")
<1>0. ProcessTask(t) BY DEF ProcessTask
<1> USE <1>0, Handling
<1> DEFINE n == [id |-> nextAtt, job |-> Job(t), role |-> t[2], status |-> "Claimed", claimedAt |-> starts]
<1>1. \A ok \in BOOLEAN : Db(ok) => ok BY NoFaults DEF ExInv, ThreadInv
<1>2. /\ att' = [att EXCEPT ![nextAtt] = n] /\ la' = [la EXCEPT ![t] = n] /\ nextAtt' = nextAtt + 1
      /\ nextAtt \in Attempts /\ nextAtt \in Nat /\ UNCHANGED <<task, nextJob, row>> /\ pc[t] = "claim"
      /\ pc' = [pc EXCEPT ![t] = "running"]
  BY <1>1, BoundsAssumption DEF MarkAttemptClaimed, SaveAttempt, runVars, Goto, Attempts, ExInv, TypeInv, TypeOK, RowsTyped
<1>3. att[nextAtt].status = "None" /\ UnfinishedOf(Job(t)) = {}
  BY <1>2 DEF ExInv, AttemptInv, AttemptsNew, KnowsAttempts
<1>4. att'[nextAtt] = n /\ \A a \in Attempts : a # nextAtt => att'[a] = att[a]
  BY <1>2 DEF ExInv, TypeInv, TypeOK, RowsTyped
<1>5. /\ n.job = Job(t) /\ n.status = "Claimed" /\ n.id = nextAtt /\ la'[t] = n /\ pc'[t] = "running"
      /\ \A u \in Threads \ {t} : la'[u] = la[u]
  BY <1>2 DEF ExInv, TypeInv, TypeOK, ThreadsTyped
<1> HIDE DEF n
<1>6. StoreInv'
  <2>1. \A a \in Attempts : att'[a] = att[a] \/ att'[a].job = Job(t) BY <1>4, <1>5
  <2> QED BY <1>2, <2>1, StoreKept
<1>7. UnfinishedOf(Job(t))' \subseteq {nextAtt} BY <1>3, <1>4 DEF UnfinishedOf
<1>8. AttemptInv'
  <2>1. AttemptsNew'
    <3>1. \A a \in Attempts : a >= nextAtt + 1 => a # nextAtt /\ a >= nextAtt
      BY <1>2, BoundsAssumption DEF Attempts
    <3> QED BY <1>2, <1>4, <3>1 DEF ExInv, AttemptInv, AttemptsNew
  <2>2. OneUnfinishedAttempt'
    <3>1. \A a \in Attempts : att'[a].status \in Unfinished =>
             \/ att'[a].job = Job(t) /\ a = nextAtt
             \/ att'[a] = att[a] /\ att[a].job # Job(t)
      BY <1>4, <1>5, <1>7 DEF UnfinishedOf
    <3> QED BY <1>4, <3>1 DEF ExInv, AttemptInv, OneUnfinishedAttempt, Unfinished
  <2> QED BY <2>1, <2>2 DEF AttemptInv
<1>9. KnowsRun(t)'
  BY <1>2, <1>5 DEF KnowsRun, CopyPoints, BeginPoints, RunningPoints, FailedPoints
<1>10. KnowsAttempts(t)'
  BY <1>4, <1>5, <1>7 DEF KnowsAttempts, AttemptPoints, TaskPoints, Unfinished
<1>11. ExInv'
  <2>1. \A a \in Attempts : att'[a] = att[a] \/ (att'[a].job = Job(t) /\ att[a].status = "None")
    BY <1>3, <1>4, <1>5
  <2>2. /\ TypeInv' /\ Busy(t) /\ Job(t) \in Jobs /\ UNCHANGED <<msg, group, proc, cur, batch, unf>>
        /\ "running" \in RecoveryPoints \cup TaskPoints \cup {"ack", "next"}
    BY DEF TaskPoints
  <2> QED BY <1>2, <1>5, <1>6, <1>8, <1>9, <1>10, <2>1, <2>2, HandlingStep
<1> QED BY <1>2, <1>3, <1>4, <1>5, <1>11

(* A new Pending run, from the API or as the retry of a Failed one. *)
LEMMA NewRun ==
    ASSUME ExInv, nextJob <= MaxJobs, NEW r, r.status = "Pending", ~r.published,
           r.parent = NoJob \/ (r.parent \in Jobs /\ task[r.parent].status = "Failed"),
           task' = [task EXCEPT ![nextJob] = r], nextJob' = nextJob + 1,
           UNCHANGED <<att, msg, schedVars>>
    PROVE  /\ StoreInv' /\ nextJob \in Jobs /\ task[nextJob] = NoRow /\ task'[nextJob] = r
           /\ \A j \in Jobs : j # nextJob => task'[j] = task[j]
<1> USE DEF ExInv, StoreInv, schedVars
<1>1. nextJob \in Jobs /\ nextJob \in Nat
  BY BoundsAssumption DEF TypeInv, TypeOK, RowsTyped, Jobs
<1>2. task[nextJob] = NoRow /\ task[nextJob].status = "None"
  <2>1. nextJob >= nextJob BY <1>1
  <2>2. JobsInOrder OBVIOUS
  <2>3. task[nextJob] = NoRow BY <1>1, <2>1, <2>2 DEF JobsInOrder
  <2> QED BY <2>3 DEF NoRow
<1>3. task'[nextJob] = r /\ \A j \in Jobs : j # nextJob => task'[j] = task[j]
  BY <1>1 DEF TypeInv, TypeOK, RowsTyped
<1>4. JobsInOrder'
  <2>1. \A j \in Jobs : j >= nextJob + 1 => j # nextJob /\ j >= nextJob
    BY <1>1, BoundsAssumption DEF Jobs
  <2>2. JobsInOrder OBVIOUS
  <2> QED BY <1>3, <2>1, <2>2 DEF JobsInOrder
<1>5. \A m \in Msgs : msg[m].job # NoJob => msg[m].job \in Jobs /\ msg[m].job # nextJob
  BY <1>2 DEF Backed, TypeInv, TypeOK, StreamTyped
<1>6. Backed' BY <1>3, <1>5 DEF Backed
<1>7. \A j \in Jobs : Sent(j)' = Sent(j) BY DEF Sent
<1>8. Announced' /\ AttemptsSent' BY <1>3, <1>7 DEF Announced, AttemptsSent, Sent
<1>9. ListsCurrent'
  <2>1. \A j \in Jobs : Unsent(j) => j # nextJob /\ Unsent(j)' BY <1>2, <1>3, <1>7 DEF Unsent
  <2>2. \A p \in Procs : /\ \A e \in todo[p] : e.job \in Jobs
                         /\ spc[p] \in {"add", "mark"} => pubjob[p] \in Jobs
    BY DEF TypeInv, TypeOK, SchedulersTyped
  <2>3. \A p \in Procs : \A e \in todo[p] : phase[p] = "due" => e.job # nextJob
    BY <1>2 DEF ListsCurrent
  <2> QED BY <1>3, <1>7, <2>1, <2>2, <2>3 DEF ListsCurrent
<1>10. ChildrenOfFailed'
  <2>1. NoJob \notin Jobs BY BoundsAssumption DEF NoJob, Jobs
  <2> QED BY <1>2, <1>3, <2>1 DEF ChildrenOfFailed
<1> QED BY <1>1, <1>2, <1>3, <1>4, <1>6, <1>8, <1>9, <1>10

LEMMA RetryCreated ==
    ASSUME Calm, ExInv, NEW t \in Threads, CreateRetryChild(t)
    PROVE  /\ ExInv' /\ UNCHANGED att /\ nextJob \in Jobs /\ task[nextJob] = NoRow
           /\ \A j \in Jobs : j # nextJob => task'[j] = task[j]
           /\ task'[nextJob] = RetryRow(t) /\ row[t].retryIndex = task[Job(t)].retryIndex
           /\ task[Job(t)].status = "Failed" /\ row[t].retryIndex < MaxRetries
           /\ \A k \in Jobs : task[k].parent # Job(t)
<1>0. ProcessTask(t) BY DEF ProcessTask
<1>a. /\ TypeInv' /\ Busy(t) /\ Job(t) \in Jobs /\ Job(t)' = Job(t) /\ KnowsRun(t)
      /\ UNCHANGED <<msg, group, proc, schedVars, cur, batch, unf>>
  BY <1>0, Handling
<1>1. \A ok \in BOOLEAN : Db(ok) => ok BY NoFaults DEF ExInv, ThreadInv
<1>2. /\ task' = [task EXCEPT ![nextJob] = RetryRow(t)] /\ nextJob' = nextJob + 1 /\ nextJob <= MaxJobs
      /\ UNCHANGED <<att, nextAtt, row, la>> /\ pc[t] = "spawn" /\ pc' = [pc EXCEPT ![t] = "ack"]
      /\ pc'[t] = "ack"
  BY <1>1 DEF CreateRetryChild, SaveTask, Return, Goto, attVars, ExInv, TypeInv, TypeOK, ThreadsTyped
<1>3. /\ task[Job(t)].status = "Failed" /\ \A k \in Jobs : task[k].parent # Job(t)
      /\ row[t].retryIndex < MaxRetries /\ row[t].retryIndex = task[Job(t)].retryIndex
  BY <1>a, <1>2 DEF KnowsRun, FailedPoints, CopyPoints
<1>4. RetryRow(t).status = "Pending" /\ ~RetryRow(t).published /\ RetryRow(t).parent = Job(t)
  BY DEF RetryRow
<1>5. /\ StoreInv' /\ nextJob \in Jobs /\ task[nextJob] = NoRow /\ task'[nextJob] = RetryRow(t)
      /\ \A j \in Jobs : j # nextJob => task'[j] = task[j]
  BY <1>a, <1>2, <1>3, <1>4, NewRun
<1>6. task'[Job(t)] = task[Job(t)] /\ task[nextJob].status = "None"
  <2>1. task[nextJob].status = "None" BY <1>5 DEF NoRow
  <2> QED BY <1>a, <1>3, <1>5, <2>1
<1>7. AttemptInv' BY <1>2 DEF ExInv, AttemptInv, AttemptsNew, OneUnfinishedAttempt
<1>8. KnowsRun(t)' /\ KnowsAttempts(t)'
  BY <1>a, <1>2, <1>3, <1>6 DEF KnowsRun, KnowsAttempts, CopyPoints, BeginPoints, RunningPoints, FailedPoints,
     TerminalRun, AttemptPoints, TaskPoints
<1>9. ExInv'
  <2>1. \A k \in Jobs : task'[k] = task[k] \/ (task[k].status = "None" /\ task'[k].parent = Job(t))
    BY <1>4, <1>5, <1>6
  <2> QED BY <1>a, <1>2, <1>5, <1>6, <1>7, <1>8, <2>1, HandlingStep
<1> QED BY <1>2, <1>3, <1>5, <1>9

-----------------------------------------------------------------------------
(* prepareRecovery: with the delivery its own, what the reclaimer reads stays   *)
(* true until it has abandoned what it found.                               *)
LEMMA RecoveryStep ==
    ASSUME Calm, ExInv, NEW t \in Threads, PrepareRecovery(t)
    PROVE  /\ ExInv' /\ UNCHANGED task
           /\ \A a \in Attempts : \/ att'[a] = att[a]
                                  \/ /\ att[a].status \in Unfinished /\ att'[a].status = "Abandoned"
                                     /\ att'[a].job = att[a].job
<1>1. TypeInv' BY RecoveryTyped DEF ExInv
<1>2. pc[t] \in RecoveryPoints
  BY DEF PrepareRecovery, RecoveryReadTask, RecoveryReadAttempts, PlanRecovery, AbandonAttempt, RecoveryPoints
<1>3. Busy(t) BY <1>2 DEF Busy, RecoveryPoints, LoopPoints, OffPoints
<1>4. Job(t) \in Jobs /\ Job(t) # NoJob /\ task[Job(t)].status \in {"Queued", "Running", "Completed", "Failed"}
  BY <1>2, <1>3, Holding
<1>5. KnowsRun(t) /\ KnowsAttempts(t) BY <1>3 DEF ExInv, Handled
<1>6. \A ok \in BOOLEAN : DbCtx(t[1], ok) => ok BY NoFaults DEF ExInv, ThreadInv, Threads
<1>7. /\ UNCHANGED <<task, nextJob, nextAtt, msg, group, proc, schedVars, batch>>
      /\ \A u \in Threads \ {t} : row'[u] = row[u] /\ la'[u] = la[u] /\ unf'[u] = unf[u]
  BY DEF PrepareRecovery, RecoveryReadTask, RecoveryReadAttempts, PlanRecovery, AbandonAttempt, DropLocals,
     runVars, attVars, redisVars, procVars, ExInv, TypeInv, TypeOK, ThreadsTyped
<1> USE DEF Goto, RecoveryPoints, TaskPoints, AttemptPoints, CopyPoints, BeginPoints, RunningPoints, FailedPoints,
            TerminalRun
<1>8. CASE RecoveryReadTask(t) \/ RecoveryReadAttempts(t) \/ PlanRecovery(t)
  <2>1. UNCHANGED att
    BY <1>8 DEF RecoveryReadTask, RecoveryReadAttempts, PlanRecovery, attVars
  <2>2. AttemptInv' BY <1>7, <2>1 DEF ExInv, AttemptInv, AttemptsNew, OneUnfinishedAttempt
  <2>3. StoreInv' BY <1>3, <1>7, <2>1, StoreKept
  <2>4. CASE RecoveryReadTask(t)
    <3>1. /\ pc' = [pc EXCEPT ![t] = "rattempts"] /\ pc'[t] = "rattempts" /\ cur' = cur
          /\ row'[t] = task[Job(t)] /\ Job(t)' = Job(t)
      BY <1>4, <1>6, <1>7, <2>4 DEF RecoveryReadTask, Job, ExInv, TypeInv, TypeOK, ThreadsTyped
    <3>2. KnowsRun(t)' /\ KnowsAttempts(t)' BY <1>7, <3>1 DEF KnowsRun, KnowsAttempts
    <3>3. ExInv' BY <1>1, <1>3, <1>4, <1>7, <2>1, <2>2, <2>3, <3>1, <3>2, HandlingStep
    <3> QED BY <1>7, <2>1, <3>3
  <2>5. CASE RecoveryReadAttempts(t)
    <3>1. /\ pc[t] = "rattempts" /\ pc' = [pc EXCEPT ![t] = "revidence"] /\ pc'[t] = "revidence" /\ cur' = cur
          /\ row' = row /\ Job(t)' = Job(t) /\ unf'[t] = UnfinishedOf(Job(t))
      BY <1>6, <1>7, <2>5 DEF RecoveryReadAttempts, Job, UnfinishedOf, ExInv, TypeInv, TypeOK, ThreadsTyped
    <3>2. UnfinishedOf(Job(t))' = UnfinishedOf(Job(t)) BY <2>1, <3>1 DEF UnfinishedOf
    <3>3. KnowsRun(t)' /\ KnowsAttempts(t)' BY <1>5, <1>7, <3>1, <3>2 DEF KnowsRun, KnowsAttempts
    <3>4. ExInv' BY <1>1, <1>3, <1>4, <1>7, <2>1, <2>2, <2>3, <3>1, <3>3, HandlingStep
    <3> QED BY <1>7, <2>1, <3>4
  <2>6. CASE PlanRecovery(t)
    <3>1. PICK x \in {"load", "abandon", "next"} :
            /\ pc[t] = "revidence" /\ pc' = [pc EXCEPT ![t] = x] /\ pc'[t] = x
            /\ x # "next" => cur' = cur /\ row' = row /\ unf' = unf
            /\ x = "next" => cur' = [cur EXCEPT ![t] = NoMsg]
            /\ x = "load" => row[t].status \in TerminalRun \/ unf[t] = {}
      BY <2>6 DEF PlanRecovery, DropLocals, ExInv, TypeInv, TypeOK, ThreadsTyped
    <3>2. ASSUME x # "next" PROVE KnowsRun(t)' /\ KnowsAttempts(t)'
      <4>1. Job(t)' = Job(t) BY <1>7, <3>1, <3>2 DEF Job
      <4>2. UnfinishedOf(Job(t))' = UnfinishedOf(Job(t)) BY <2>1, <4>1 DEF UnfinishedOf
      <4> QED BY <1>5, <1>7, <3>1, <3>2, <4>1, <4>2 DEF KnowsRun, KnowsAttempts
    <3>3. ExInv' BY <1>1, <1>3, <1>4, <1>7, <2>1, <2>2, <2>3, <3>1, <3>2, HandlingStep
    <3> QED BY <1>7, <2>1, <3>3
  <2> QED BY <1>8, <2>4, <2>5, <2>6
<1>9. CASE AbandonAttempt(t)
  <2>0. /\ pc[t] = "abandon" /\ cur' = cur /\ row' = row /\ Job(t)' = Job(t)
        /\ unf[t] = UnfinishedOf(Job(t)) /\ unf[t] \subseteq Attempts
    BY <1>5, <1>7, <1>9 DEF AbandonAttempt, Job, KnowsAttempts, UnfinishedOf
  <2>1. CASE unf[t] = {}
    <3>1. pc' = [pc EXCEPT ![t] = "load"] /\ pc'[t] = "load" /\ UNCHANGED att
      BY <1>9, <2>1 DEF AbandonAttempt, ExInv, TypeInv, TypeOK, ThreadsTyped
    <3>2. UnfinishedOf(Job(t))' = {} BY <2>0, <2>1, <3>1 DEF UnfinishedOf
    <3>3. KnowsRun(t)' /\ KnowsAttempts(t)' BY <2>0, <3>1, <3>2 DEF KnowsRun, KnowsAttempts
    <3>4. AttemptInv' BY <1>7, <3>1 DEF ExInv, AttemptInv, AttemptsNew, OneUnfinishedAttempt
    <3>5. StoreInv' BY <1>3, <1>7, <3>1, StoreKept
    <3>6. ExInv' BY <1>1, <1>3, <1>4, <1>7, <2>0, <3>1, <3>3, <3>4, <3>5, HandlingStep
    <3> QED BY <1>7, <3>1, <3>6
  <2>2. CASE unf[t] # {}
    <3>1. PICK a \in unf[t] : /\ att' = [att EXCEPT ![a].status = "Abandoned"]
                              /\ unf' = [unf EXCEPT ![t] = @ \ {a}] /\ UNCHANGED pc
      BY <1>6, <1>9, <2>2 DEF AbandonAttempt
    <3>2. a \in Attempts /\ att[a].job = Job(t) /\ att[a].status \in Unfinished
      BY <2>0 DEF UnfinishedOf
    <3>3. /\ att'[a].status = "Abandoned" /\ att'[a].job = Job(t)
          /\ \A b \in Attempts : b # a => att'[b] = att[b]
      BY <3>1, <3>2 DEF ExInv, TypeInv, TypeOK, RowsTyped, AttemptRow
    <3>4. UnfinishedOf(Job(t))' = UnfinishedOf(Job(t)) \ {a} /\ unf'[t] = unf[t] \ {a}
      BY <2>0, <3>1, <3>3 DEF UnfinishedOf, Unfinished, ExInv, TypeInv, TypeOK, ThreadsTyped
    <3>5. pc' = [pc EXCEPT ![t] = "abandon"] BY <2>0, <3>1 DEF ExInv, TypeInv, TypeOK, ThreadsTyped
    <3>6. KnowsRun(t)' /\ KnowsAttempts(t)' BY <2>0, <3>1, <3>4 DEF KnowsRun, KnowsAttempts
    <3>7. AttemptInv'
      BY <1>7, <3>2, <3>3 DEF ExInv, AttemptInv, AttemptsNew, OneUnfinishedAttempt, Unfinished
    <3>8. StoreInv'
      <4>1. \A b \in Attempts : att'[b] = att[b] \/ att'[b].job = Job(t) BY <3>3
      <4> QED BY <1>3, <1>7, <4>1, StoreKept
    <3>9. ExInv'
      <4>1. \A b \in Attempts : att'[b] = att[b] \/ (att'[b].job = Job(t) /\ att[b].job = Job(t))
        BY <3>2, <3>3
      <4> QED BY <1>1, <1>3, <1>4, <1>7, <2>0, <3>5, <3>6, <3>7, <3>8, <4>1, HandlingStep
    <3> QED BY <1>7, <3>2, <3>3, <3>9
  <2> QED BY <2>1, <2>2
<1> QED BY <1>8, <1>9 DEF PrepareRecovery

-----------------------------------------------------------------------------
(* The consumer loops.                                                      *)

(* The stream moves one message on, or nothing, and no row changes. *)
LEMMA StreamStep ==
    ASSUME ExInv, UNCHANGED <<task, nextJob, att, nextAtt, nextMsg, schedVars>>,
           \A m \in Msgs : /\ msg'[m].job = msg[m].job
                           /\ \/ msg'[m].state = msg[m].state
                              \/ msg[m].state = "available" /\ msg'[m].state = "pending"
                              \/ /\ msg'[m].state = "done"
                                 /\ msg[m].job # NoJob => task[msg[m].job].status \in TerminalRun
    PROVE  StoreInv' /\ AttemptInv' /\ OneMessage'
<1>1. \A j \in Jobs : Sent(j)' = Sent(j) BY DEF Sent
<1>2. JobsInOrder' /\ Announced' /\ AttemptsSent' /\ ChildrenOfFailed'
  BY <1>1 DEF ExInv, StoreInv, JobsInOrder, Announced, AttemptsSent, Sent, ChildrenOfFailed, schedVars
<1>3. ListsCurrent'
  <2>1. \A p \in Procs : /\ \A e \in todo[p] : e.job \in Jobs
                         /\ spc[p] \in {"add", "mark"} => pubjob[p] \in Jobs
    BY DEF ExInv, TypeInv, TypeOK, SchedulersTyped
  <2>2. \A j \in Jobs : Unsent(j)' = Unsent(j) BY <1>1 DEF Unsent
  <2> QED BY <1>1, <2>1, <2>2 DEF ExInv, StoreInv, ListsCurrent, schedVars
<1>4. Backed' BY DEF ExInv, StoreInv, Backed
<1>5. AttemptInv' BY DEF ExInv, AttemptInv, AttemptsNew, OneUnfinishedAttempt
<1>6. OneMessage' BY DEF ExInv, ThreadInv, OneMessage
<1> QED BY <1>2, <1>3, <1>4, <1>5, <1>6 DEF StoreInv

(* The other threads' part of a loop step: they hold what they held. *)
LEMMA LoopOthers ==
    ASSUME ExInv, NEW t \in Threads, UNCHANGED <<task, att, row, la, unf>> \/ DropLocals(t),
           UNCHANGED <<task, att>>,
           \A u \in Threads \ {t} : pc'[u] = pc[u] /\ cur'[u] = cur[u],
           \A m \in Msgs : msg'[m].job = msg[m].job
    PROVE  \A u \in Threads \ {t} : Busy(u)' => KnowsRun(u)' /\ KnowsAttempts(u)'
<1> SUFFICES ASSUME NEW u \in Threads \ {t}, Busy(u)' PROVE KnowsRun(u)' /\ KnowsAttempts(u)'
  OBVIOUS
<1>1. Busy(u) BY DEF Busy
<1>2. Job(u)' = Job(u) BY <1>1, Holding DEF Job
<1>3. row'[u] = row[u] /\ la'[u] = la[u] /\ unf'[u] = unf[u]
  BY DEF DropLocals, ExInv, TypeInv, TypeOK, ThreadsTyped
<1> QED BY <1>1, <1>2, <1>3, KnowsKept

LEMMA LoopStep ==
    ASSUME Calm, ExInv, NEW t \in Threads,
           \/ EnsureGroup(t) \/ ReadStream(t) \/ AckAndDelete(t) \/ NextReclaimed(t) \/ StopThread(t)
           \/ \E claimed \in SUBSET Msgs : XAutoClaim(t, claimed)
    PROVE  ExInv' /\ UNCHANGED <<task, att>>
<1>1. TypeInv' BY LoopTyped DEF ExInv
<1>2. t[1] \in Procs BY DEF Threads
<1> USE DEF Goto
<1>3. CASE EnsureGroup(t)
  <2> USE <1>3 DEF EnsureGroup
  <2>1. UNCHANGED <<task, att, nextJob, nextAtt, msg, nextMsg, proc, schedVars, cur, row, la, batch, unf>>
    BY DEF runVars, attVars, procVars
  <2>2. pc'[t] = "idle" /\ \A u \in Threads \ {t} : pc'[u] = pc[u] /\ cur'[u] = cur[u]
    BY DEF ExInv, TypeInv, TypeOK, ThreadsTyped
  <2>3. StoreInv' /\ AttemptInv' /\ OneMessage' BY <2>1, StreamStep
  <2>4. ~Busy(t)' /\ ~Busy(t) /\ pc[t] = "setup" BY <2>2 DEF Busy, LoopPoints, ExInv, ThreadInv, Undisturbed
  <2>5. Undisturbed' BY <2>1, <2>2 DEF Undisturbed, ExInv, ThreadInv
  <2>6. HeldOnce'
    <3>1. \A u \in Threads, m \in Msgs : Has(u, m)' => Has(u, m) BY <2>1, <2>2, <2>4 DEF Has, Busy
    <3>2. batch[t] = {} BY <2>4 DEF ExInv, ThreadInv, HeldOnce
    <3>3. \A u \in Threads : Busy(u)' => Busy(u) BY <2>2, <2>4 DEF Busy
    <3>4. HeldOnce BY DEF ExInv, ThreadInv
    <3> QED BY <2>1, <2>2, <3>1, <3>2, <3>3, <3>4 DEF HeldOnce
  <2>7. \A u \in Threads \ {t} : Busy(u)' => KnowsRun(u)' /\ KnowsAttempts(u)' BY <2>1, <2>2, LoopOthers
  <2> QED BY <1>1, <2>1, <2>3, <2>4, <2>5, <2>6, <2>7 DEF ExInv, ThreadInv, Handled
<1>4. CASE ReadStream(t)
  <2> USE <1>4 DEF ReadStream
  <2>1. PICK m \in Msgs : /\ msg[m].state = "available"
                          /\ msg' = [msg EXCEPT ![m].state = "pending"]
                          /\ cur' = [cur EXCEPT ![t] = m]
                          /\ pc' = [pc EXCEPT ![t] = FirstPoint(m)]
    OBVIOUS
  <2>2. UNCHANGED <<task, att, nextJob, nextAtt, nextMsg, group, proc, schedVars, row, la, batch, unf>>
    BY DEF runVars, attVars, procVars
  <2>3. /\ pc[t] = "idle" /\ pc'[t] = FirstPoint(m) /\ cur'[t] = m
        /\ \A u \in Threads \ {t} : pc'[u] = pc[u] /\ cur'[u] = cur[u]
    BY <2>1 DEF ExInv, TypeInv, TypeOK, ThreadsTyped
  <2>4. /\ \A k \in Msgs : msg'[k].job = msg[k].job /\ (k # m => msg'[k].state = msg[k].state)
        /\ msg'[m].state = "pending"
    BY <2>1 DEF ExInv, TypeInv, TypeOK, StreamTyped
  <2> HIDE <1>4 DEF ReadStream
  <2>5. StoreInv' /\ AttemptInv' /\ OneMessage' BY <2>1, <2>2, <2>4, StreamStep
  <2>6. Undisturbed' BY <2>2, <2>3 DEF Undisturbed, ExInv, ThreadInv, FirstPoint
  <2>7. ~Busy(t) /\ Busy(t)' /\ batch[t] = {}
    BY <2>3 DEF Busy, LoopPoints, OffPoints, FirstPoint, ExInv, ThreadInv, HeldOnce
  <2>8. HeldOnce'
    <3>1. HeldOnce BY DEF ExInv, ThreadInv
    <3>2. \A u \in Threads : ~Has(u, m) BY <2>1, <3>1 DEF HeldOnce
    <3>3. \A u \in Threads, k \in Msgs : Has(u, k)' => (u = t /\ k = m) \/ (Has(u, k) /\ u # t)
      BY <2>2, <2>3, <2>7 DEF Has, Busy
    <3>4. \A u \in Threads, k \in Msgs : Has(u, k)' => msg'[k].state = "pending"
      BY <2>4, <3>1, <3>2, <3>3 DEF HeldOnce
    <3>5. \A u, v \in Threads, k \in Msgs : Has(u, k)' /\ Has(v, k)' => u = v
      BY <3>1, <3>2, <3>3 DEF HeldOnce
    <3>6. \A u \in Threads : /\ Busy(u)' => cur'[u] \notin batch'[u]
                             /\ batch'[u] # {} => pc'[u] \notin {"idle", "setup"} \cup OffPoints /\ u[2] = "reclaimer"
      BY <2>2, <2>3, <2>7, <3>1 DEF HeldOnce, Busy
    <3> QED BY <3>4, <3>5, <3>6 DEF HeldOnce
  <2>9. KnowsRun(t)' /\ KnowsAttempts(t)'
    <3>1. Job(t)' = msg[m].job BY <2>3, <2>4 DEF Job
    <3>2. msg[m].job # NoJob => UnfinishedOf(msg[m].job) = {}
      BY <2>1 DEF ExInv, StoreInv, Backed, UnfinishedOf, Unfinished
    <3>3. UnfinishedOf(Job(t))' = UnfinishedOf(msg[m].job) BY <2>2, <3>1 DEF UnfinishedOf
    <3> QED BY <2>3, <3>1, <3>2, <3>3 DEF KnowsRun, KnowsAttempts, FirstPoint, CopyPoints, BeginPoints, RunningPoints,
               FailedPoints, AttemptPoints, TaskPoints
  <2>10. \A u \in Threads \ {t} : Busy(u)' => KnowsRun(u)' /\ KnowsAttempts(u)'
    BY <2>2, <2>3, <2>4, LoopOthers
  <2> QED BY <1>1, <2>2, <2>5, <2>6, <2>8, <2>9, <2>10 DEF ExInv, ThreadInv, Handled
<1>5. CASE AckAndDelete(t)
  <2> USE <1>5 DEF AckAndDelete
  <2>1. UNCHANGED <<task, att, nextJob, nextAtt, nextMsg, group, proc, schedVars, batch>>
    BY DEF runVars, attVars, procVars
  <2>2. /\ pc[t] = "ack" /\ pc'[t] \in {"idle", "next"} /\ (t[2] = "reclaimer" => pc'[t] = "next")
        /\ \A u \in Threads \ {t} : pc'[u] = pc[u] /\ cur'[u] = cur[u]
    BY DEF ExInv, TypeInv, TypeOK, ThreadsTyped, DropLocals
  <2>3. Busy(t) /\ ~Busy(t)' BY <2>2 DEF Busy, LoopPoints, OffPoints
  <2>4. cur[t] \in Msgs /\ msg[cur[t]].state = "pending" /\ msg[cur[t]].job = Job(t) BY <2>3, Holding
  <2>5. Job(t) # NoJob => task[Job(t)].status \in TerminalRun
    BY <2>2, <2>3 DEF ExInv, Handled, KnowsRun
  <2>6. \A m \in Msgs : /\ msg'[m].job = msg[m].job
                        /\ m # cur[t] => msg'[m] = msg[m]
                        /\ msg'[m].state = msg[m].state \/ (m = cur[t] /\ msg'[m].state = "done")
    BY <2>4 DEF ExInv, TypeInv, TypeOK, StreamTyped
  <2>7. DropLocals(t) OBVIOUS
  <2> HIDE <1>5 DEF AckAndDelete
  <2>8. StoreInv' /\ AttemptInv' /\ OneMessage' BY <2>1, <2>4, <2>5, <2>6, StreamStep
  <2>9. Undisturbed' BY <2>1, <2>2 DEF Undisturbed, ExInv, ThreadInv
  <2>10. HeldOnce'
    <3>1. HeldOnce BY DEF ExInv, ThreadInv
    <3>2. cur[t] \notin batch[t] /\ \A u \in Threads \ {t} : ~Has(u, cur[t])
      BY <2>3, <2>4, <3>1 DEF HeldOnce, Has
    <3>3. \A u \in Threads, k \in Msgs : Has(u, k)' => Has(u, k) /\ k # cur[t]
      BY <2>1, <2>2, <2>3, <3>2 DEF Has, Busy
    <3>4. \A u \in Threads, k \in Msgs : Has(u, k)' => msg'[k].state = "pending"
      BY <2>6, <3>1, <3>3 DEF HeldOnce
    <3>5. \A u, v \in Threads, k \in Msgs : Has(u, k)' /\ Has(v, k)' => u = v
      BY <3>1, <3>3 DEF HeldOnce
    <3>6. batch[t] # {} => pc'[t] = "next" BY <2>2, <3>1 DEF HeldOnce
    <3>7. \A u \in Threads : /\ Busy(u)' => cur'[u] \notin batch'[u]
                             /\ batch'[u] # {} => pc'[u] \notin {"idle", "setup"} \cup OffPoints /\ u[2] = "reclaimer"
      BY <2>1, <2>2, <2>3, <3>1, <3>6 DEF HeldOnce, Busy, OffPoints, Threads, Roles
    <3> QED BY <3>4, <3>5, <3>7 DEF HeldOnce
  <2>11. \A u \in Threads \ {t} : Busy(u)' => KnowsRun(u)' /\ KnowsAttempts(u)'
    BY <2>1, <2>2, <2>6, <2>7, LoopOthers
  <2> QED BY <1>1, <2>1, <2>3, <2>8, <2>9, <2>10, <2>11 DEF ExInv, ThreadInv, Handled
<1>6. CASE \E claimed \in SUBSET Msgs : XAutoClaim(t, claimed)
  <2>1. PICK claimed \in SUBSET Msgs : XAutoClaim(t, claimed) BY <1>6
  <2>2. /\ UNCHANGED <<task, att, nextJob, nextAtt, msg, nextMsg, group, proc, schedVars, cur, row, la, unf>>
        /\ batch' = [batch EXCEPT ![t] = claimed] /\ t[2] = "reclaimer" /\ pc[t] = "idle"
    BY <2>1 DEF XAutoClaim, runVars, attVars, procVars, redisVars
  <2>3. pc'[t] = "next" /\ \A u \in Threads \ {t} : pc'[u] = pc[u] /\ cur'[u] = cur[u]
    BY <2>1 DEF XAutoClaim, ExInv, TypeInv, TypeOK, ThreadsTyped
  <2>4. ~Busy(t) /\ ~Busy(t)' BY <2>2, <2>3 DEF Busy, LoopPoints
  <2>5. StoreInv' /\ AttemptInv' /\ OneMessage' BY <2>2, StreamStep
  <2>6. Undisturbed' BY <2>2, <2>3 DEF Undisturbed, ExInv, ThreadInv
  <2>7. HeldOnce'
    <3>1. HeldOnce BY DEF ExInv, ThreadInv
    <3>2. \A u \in Threads : u # t => batch'[u] = batch[u]
      BY <2>2 DEF ExInv, TypeInv, TypeOK, ThreadsTyped
    <3>3. batch'[t] = claimed BY <2>2 DEF ExInv, TypeInv, TypeOK, ThreadsTyped
    <3>4. \A u \in Threads, m \in claimed : msg[m].state = "pending" /\ ~Has(u, m)
      <4> SUFFICES ASSUME NEW u \in Threads, NEW m \in claimed PROVE msg[m].state = "pending" /\ ~Has(u, m)
        OBVIOUS
      <4>1. MayBeIdle(m) BY <2>1 DEF XAutoClaim
      <4>2. msg[m].state = "pending" /\ ~(Busy(u) /\ cur[u] = m) BY <4>1 DEF MayBeIdle, Calm, Busy
      <4>3. m \notin batch[u] BY <3>1, <4>1 DEF MayBeIdle, Calm, HeldOnce
      <4> QED BY <4>2, <4>3 DEF Has
    <3>5. \A u \in Threads, m \in Msgs : Has(u, m)' => (u = t /\ m \in claimed) \/ (Has(u, m) /\ u # t)
      BY <2>2, <2>3, <2>4, <3>2, <3>3 DEF Has, Busy
    <3>6. \A u \in Threads, m \in Msgs : Has(u, m)' => msg'[m].state = "pending"
      BY <2>2, <3>1, <3>4, <3>5 DEF HeldOnce
    <3>7. \A u, v \in Threads, m \in Msgs : Has(u, m)' /\ Has(v, m)' => u = v
      BY <3>1, <3>4, <3>5 DEF HeldOnce
    <3>8. \A u \in Threads : /\ Busy(u)' => cur'[u] \notin batch'[u]
                             /\ batch'[u] # {} => pc'[u] \notin {"idle", "setup"} \cup OffPoints /\ u[2] = "reclaimer"
      BY <2>2, <2>3, <2>4, <3>1, <3>2 DEF HeldOnce, Busy, OffPoints
    <3> QED BY <3>6, <3>7, <3>8 DEF HeldOnce
  <2>8. \A u \in Threads \ {t} : Busy(u)' => KnowsRun(u)' /\ KnowsAttempts(u)'
    BY <2>2, <2>3, LoopOthers
  <2> QED BY <1>1, <2>2, <2>4, <2>5, <2>6, <2>7, <2>8 DEF ExInv, ThreadInv, Handled
<1>7. CASE NextReclaimed(t)
  <2> USE <1>7 DEF NextReclaimed
  <2>1. UNCHANGED <<task, att, nextJob, nextAtt, msg, nextMsg, group, proc, schedVars, row, la, unf>> /\ pc[t] = "next"
    BY DEF runVars, attVars, procVars, redisVars
  <2>2. StoreInv' /\ AttemptInv' /\ OneMessage' BY <2>1, StreamStep
  <2>3. HeldOnce /\ ~Busy(t) BY <2>1 DEF ExInv, ThreadInv, Busy, LoopPoints
  <2>4. CASE batch[t] = {}
    <3>1. /\ pc'[t] = "idle" /\ UNCHANGED <<cur, batch>>
          /\ \A u \in Threads \ {t} : pc'[u] = pc[u] /\ cur'[u] = cur[u]
      BY <2>4 DEF ExInv, TypeInv, TypeOK, ThreadsTyped
    <3>2. Undisturbed' BY <2>1, <3>1 DEF Undisturbed, ExInv, ThreadInv
    <3>3. ~Busy(t)' BY <3>1 DEF Busy, LoopPoints
    <3>4. \A u \in Threads, m \in Msgs : Has(u, m)' => Has(u, m) BY <3>1, <3>3 DEF Has, Busy
    <3>5. \A u \in Threads : Busy(u)' => Busy(u) BY <3>1, <3>3 DEF Busy
    <3>6. HeldOnce' BY <2>1, <2>3, <2>4, <3>1, <3>4, <3>5 DEF HeldOnce
    <3>7. \A u \in Threads \ {t} : Busy(u)' => KnowsRun(u)' /\ KnowsAttempts(u)' BY <2>1, <3>1, LoopOthers
    <3> QED BY <1>1, <2>1, <2>2, <3>2, <3>3, <3>6, <3>7 DEF ExInv, ThreadInv, Handled
  <2>5. CASE batch[t] # {}
    <3>1. PICK m \in batch[t] : /\ cur' = [cur EXCEPT ![t] = m] /\ batch' = [batch EXCEPT ![t] = @ \ {m}]
                                /\ pc' = [pc EXCEPT ![t] = ReclaimPoint(m)]
      BY <2>5
    <3>2. /\ pc'[t] = ReclaimPoint(m) /\ cur'[t] = m /\ batch'[t] = batch[t] \ {m} /\ m \in Msgs
          /\ \A u \in Threads \ {t} : pc'[u] = pc[u] /\ cur'[u] = cur[u] /\ batch'[u] = batch[u]
      BY <3>1 DEF ExInv, TypeInv, TypeOK, ThreadsTyped
    <3> HIDE <1>7 DEF NextReclaimed
    <3>3. Undisturbed' BY <2>1, <3>2 DEF Undisturbed, ExInv, ThreadInv, ReclaimPoint
    <3>4. Busy(t)' /\ pc'[t] \in {"ack", "rtask"} BY <3>2 DEF Busy, LoopPoints, OffPoints, ReclaimPoint
    <3>5. \A u \in Threads, k \in Msgs : Has(u, k)' => Has(u, k) BY <3>2 DEF Has, Busy
    <3>6. \A u \in Threads, k \in Msgs : Has(u, k)' => msg'[k].state = "pending"
      BY <2>1, <2>3, <3>5 DEF HeldOnce
    <3>7. \A u, v \in Threads, k \in Msgs : Has(u, k)' /\ Has(v, k)' => u = v
      BY <2>3, <3>5 DEF HeldOnce
    <3>8. \A u \in Threads : /\ Busy(u)' => cur'[u] \notin batch'[u]
                             /\ batch'[u] # {} => pc'[u] \notin {"idle", "setup"} \cup OffPoints /\ u[2] = "reclaimer"
      BY <2>3, <3>2, <3>4 DEF HeldOnce, Busy, OffPoints
    <3>9. HeldOnce' BY <3>6, <3>7, <3>8 DEF HeldOnce
    <3>10. KnowsRun(t)' /\ KnowsAttempts(t)'
      <4>1. Job(t)' = msg[m].job BY <2>1, <3>2 DEF Job
      <4> QED BY <3>2, <3>4, <4>1 DEF KnowsRun, KnowsAttempts, ReclaimPoint, CopyPoints, BeginPoints, RunningPoints,
                 FailedPoints, AttemptPoints, TaskPoints
    <3>11. \A u \in Threads \ {t} : Busy(u)' => KnowsRun(u)' /\ KnowsAttempts(u)' BY <2>1, <3>2, LoopOthers
    <3> QED BY <1>1, <2>1, <2>2, <3>3, <3>9, <3>10, <3>11 DEF ExInv, ThreadInv, Handled
  <2> QED BY <2>4, <2>5
<1>8. CASE StopThread(t) BY <1>2, <1>8 DEF StopThread, ExInv, ThreadInv, Undisturbed
<1> QED BY <1>3, <1>4, <1>5, <1>6, <1>7, <1>8

-----------------------------------------------------------------------------
(* The scheduler and the environment.                                       *)

(* The threads notice neither a new message nor what a run they do not handle  *)
(* goes through.                                                            *)
LEMMA ThreadsQuiet ==
    ASSUME ExInv, UNCHANGED <<threadVars, group, proc, att>>,
           \A m \in Msgs : m # nextMsg => msg'[m] = msg[m],
           \A k \in Jobs : /\ task'[k].parent = task[k].parent
                           /\ task[k].status \in {"Queued", "Running", "Completed", "Failed"} =>
                                /\ task'[k].status = task[k].status
                                /\ task'[k].retryIndex = task[k].retryIndex
    PROVE  Undisturbed' /\ HeldOnce' /\ Handled'
<1> USE DEF threadVars
<1>1. Undisturbed' BY DEF ExInv, ThreadInv, Undisturbed
<1>2. \A t \in Threads : cur[t] # nextMsg /\ nextMsg \notin batch[t]
  <2>1. nextMsg \in Int BY DEF ExInv, TypeInv, TypeOK, StreamTyped
  <2>2. ~(nextMsg < nextMsg) BY <2>1
  <2> QED BY <2>2 DEF ExInv, TypeInv, Fresh
<1>3. \A t \in Threads, m \in Msgs : Has(t, m)' = Has(t, m) BY DEF Has, Busy
<1>4. \A t \in Threads, m \in Msgs : Has(t, m) => m # nextMsg BY <1>2 DEF Has
<1>5. HeldOnce' BY <1>3, <1>4 DEF ExInv, ThreadInv, HeldOnce, Busy
<1>6. Handled'
  <2> SUFFICES ASSUME NEW u \in Threads, Busy(u)' PROVE KnowsRun(u)' /\ KnowsAttempts(u)'
    BY DEF Handled
  <2>1. Busy(u) BY DEF Busy
  <2>2. Job(u)' = Job(u) BY <1>2, <2>1, Holding DEF Job
  <2>3. Job(u) # NoJob => Job(u) \in Jobs /\ task[Job(u)].status \in {"Queued", "Running", "Completed", "Failed"}
    BY <2>1, Holding
  <2> QED BY <2>1, <2>2, <2>3, KnowsKept
<1> QED BY <1>1, <1>5, <1>6

LEMMA ExSchedulerStep ==
    ASSUME Calm, ExInv, NEW p \in Procs, Scheduler(p)
    PROVE  /\ ExInv' /\ UNCHANGED <<att, nextAtt>>
           /\ \A j \in Jobs : \/ task'[j] = task[j]
                              \/ /\ task[j].status = "Pending" /\ task'[j].status = "Queued"
                                 /\ task'[j].parent = task[j].parent /\ task'[j].retryIndex = task[j].retryIndex
                                 /\ \A k \in Jobs : k # j => task'[k] = task[k]
                              \/ /\ task'[j].status = task[j].status
                                 /\ task'[j].parent = task[j].parent /\ task'[j].retryIndex = task[j].retryIndex
<1>1. TypeInv' BY SchedulerTyped DEF ExInv
<1>2. UNCHANGED <<threadVars, att, nextAtt, nextJob, group, proc>>
  BY DEF Scheduler, PublishDueTasks, MarkRunQueued, PublishTask, MarkPublished, FindStranded, EndPass,
     StopScheduler, procVars, attVars, runVars, redisVars
<1>3. AttemptInv' BY <1>2 DEF ExInv, AttemptInv, AttemptsNew, OneUnfinishedAttempt
<1>4. \A q \in Procs : q = p BY DEF Calm
<1>5. /\ JobsInOrder /\ Backed /\ Announced /\ AttemptsSent /\ ListsCurrent /\ ChildrenOfFailed
      /\ \A e \in todo[p] : e.job \in Jobs /\ e.row \in TaskRow
      /\ spc[p] \in {"add", "mark"} => pubjob[p] \in Jobs
      /\ task \in [Jobs -> TaskRow] /\ todo \in [Procs -> SUBSET [job : Jobs, row : TaskRow]]
      /\ spc \in [Procs -> SchedPoints] /\ phase \in [Procs -> {"due", "stranded"}]
      /\ pubjob \in [Procs -> Jobs \cup {NoJob}]
  BY DEF ExInv, StoreInv, TypeInv, TypeOK, SchedulersTyped, RowsTyped
<1>6. \A j \in Jobs : Sent(j) => task[j].status \notin {"None", "Pending"} BY <1>5 DEF Backed, Sent, Jobs, NoJob
(* Steps that only move the list. *)
<1>7. ASSUME UNCHANGED <<task, nextJob, msg, nextMsg>>, ListsCurrent',
             \A j \in Jobs : ~(task[j].status = "Queued" /\ ~task[j].published /\ Sent(j))
      PROVE  ExInv' /\ UNCHANGED task
  <2>1. Undisturbed' /\ HeldOnce' /\ Handled' BY <1>2, <1>7, ThreadsQuiet
  <2>2. JobsInOrder' /\ Backed' /\ AttemptsSent' /\ ChildrenOfFailed' /\ OneMessage'
    BY <1>2, <1>5, <1>7 DEF JobsInOrder, Backed, AttemptsSent, ChildrenOfFailed, OneMessage, Sent, ExInv, ThreadInv
  <2>3. Announced' BY <1>5, <1>7 DEF Announced, Sent
  <2> QED BY <1>1, <1>3, <1>7, <2>1, <2>2, <2>3 DEF ExInv, ThreadInv, StoreInv
<1>8. spc[p] # "mark" => \A j \in Jobs : ~(task[j].status = "Queued" /\ ~task[j].published /\ Sent(j))
  BY <1>4, <1>5 DEF Announced
<1>9. \A j \in Jobs : task[j].status = "Queued" /\ ~task[j].published /\ spc[p] # "mark" => Unsent(j)
  BY <1>8 DEF Unsent
<1>10. ASSUME NEW due \in SUBSET Due, PublishDueTasks(p, due) PROVE ExInv' /\ UNCHANGED task
  <2> USE <1>10 DEF PublishDueTasks
  <2>1. UNCHANGED <<task, nextJob, msg, nextMsg, phase, pubjob>> /\ spc[p] = "idle" BY DEF runVars, redisVars
  <2>2. spc'[p] = "pick" /\ todo'[p] = {[job |-> j, row |-> task[j]] : j \in due} /\ phase[p] = "due"
    BY <1>5, <2>1 DEF ListsCurrent
  <2>3. \A e \in todo'[p] : e.job \in Jobs /\ e.row = task[e.job] /\ task[e.job].status = "Pending"
    BY <2>2 DEF Due
  <2>4. \A e, f \in todo'[p] : e.job = f.job => e = f BY <2>2
  <2>5. ListsCurrent' BY <1>4, <2>1, <2>2, <2>3, <2>4 DEF ListsCurrent
  <2> QED BY <1>7, <1>8, <2>1, <2>5
<1>11. ASSUME NEW old \in SUBSET Stranded, FindStranded(p, old) PROVE ExInv' /\ UNCHANGED task
  <2> USE <1>11 DEF FindStranded
  <2>1. UNCHANGED <<task, nextJob, msg, nextMsg, spc, pubjob>> /\ spc[p] = "pick" BY DEF runVars, redisVars
  <2>2. phase'[p] = "stranded" /\ todo'[p] \subseteq {[job |-> j, row |-> task[j]] : j \in old} BY <1>5
  <2>3. \A e \in todo'[p] : e.job \in Jobs /\ Unsent(e.job) /\ e.row = task[e.job]
    BY <1>9, <2>1, <2>2 DEF Stranded
  <2>4. \A e, f \in todo'[p] : e.job = f.job => e = f BY <2>2
  <2>5. \A e \in todo'[p] : Unsent(e.job)' BY <2>1, <2>3 DEF Unsent, Sent
  <2>6. ListsCurrent' BY <1>4, <2>1, <2>2, <2>4, <2>5 DEF ListsCurrent
  <2> QED BY <1>7, <1>8, <2>1, <2>6
<1>12. ASSUME EndPass(p) PROVE ExInv' /\ UNCHANGED task
  <2> USE <1>12 DEF EndPass
  <2>1. UNCHANGED <<task, nextJob, msg, nextMsg, todo, pubjob>> /\ spc[p] = "pick" /\ todo[p] = {} BY DEF runVars, redisVars
  <2>2. spc'[p] = "idle" /\ phase'[p] = "due" BY <1>5
  <2>3. ListsCurrent' BY <1>4, <2>1, <2>2 DEF ListsCurrent
  <2> QED BY <1>7, <1>8, <2>1, <2>3
<1>13. ASSUME MarkRunQueued(p), phase[p] = "stranded" PROVE ExInv' /\ UNCHANGED task
  <2> USE <1>13 DEF MarkRunQueued
  <2>1. PICK e \in todo[p] : /\ todo' = [todo EXCEPT ![p] = @ \ {e}]
                             /\ pubjob' = [pubjob EXCEPT ![p] = e.job]
    OBVIOUS
  <2>2. UNCHANGED <<task, nextJob, msg, nextMsg, phase>> /\ spc[p] = "pick" BY DEF redisVars
  <2>3. spc'[p] = "add" /\ todo'[p] = todo[p] \ {e} /\ pubjob'[p] = e.job BY <1>5, <2>1
  <2>4. \A f \in todo[p] : Unsent(f.job)' BY <1>5, <2>2 DEF ListsCurrent, Unsent, Sent
  <2>5. \A f \in todo'[p] : f.job # e.job BY <1>5, <2>3 DEF ListsCurrent
  <2>6. \A f, g \in todo'[p] : f.job = g.job => f = g BY <1>5, <2>3 DEF ListsCurrent
  <2>7. ListsCurrent' BY <1>4, <2>1, <2>2, <2>3, <2>4, <2>5, <2>6 DEF ListsCurrent
  <2> QED BY <1>7, <1>8, <2>2, <2>7
<1>14. ASSUME PublishTask(p), ~RedisCtx(p) PROVE ExInv' /\ UNCHANGED task
  <2> USE <1>14 DEF PublishTask
  <2>1. UNCHANGED <<task, nextJob, msg, nextMsg, todo, phase>> /\ spc[p] = "add" BY DEF runVars
  <2>2. spc'[p] = "pick" /\ pubjob'[p] = NoJob BY <1>5
  <2>3. ListsCurrent' BY <1>4, <1>5, <2>1, <2>2 DEF ListsCurrent, Unsent, Sent
  <2> QED BY <1>7, <1>8, <2>1, <2>3
(* The whole-row Save of a due run: the copy is still the row. *)
<1>15. ASSUME MarkRunQueued(p), phase[p] = "due"
       PROVE  /\ ExInv'
              /\ \E j \in Jobs : /\ task[j].status = "Pending" /\ task'[j].status = "Queued"
                                 /\ task'[j].parent = task[j].parent /\ task'[j].retryIndex = task[j].retryIndex
                                 /\ \A k \in Jobs : k # j => task'[k] = task[k]
  <2> USE <1>15 DEF MarkRunQueued
  <2>0. \A ok \in BOOLEAN : DbCtx(p, ok) => ok BY NoFaults DEF ExInv, ThreadInv
  <2>1. PICK e \in todo[p] : /\ todo' = [todo EXCEPT ![p] = @ \ {e}]
                             /\ pubjob' = [pubjob EXCEPT ![p] = e.job]
                             /\ task' = [task EXCEPT ![e.job] = [e.row EXCEPT !.status = "Queued"]]
    BY <2>0 DEF SaveTask
  <2>2. UNCHANGED <<nextJob, msg, nextMsg, phase>> /\ spc[p] = "pick" /\ spc' = [spc EXCEPT ![p] = "add"] BY DEF redisVars
  <2> HIDE <1>15 DEF MarkRunQueued
  <2>3. spc'[p] = "add" /\ todo'[p] = todo[p] \ {e} /\ pubjob'[p] = e.job BY <1>5, <2>1, <2>2
  <2>4. e.job \in Jobs /\ e.row = task[e.job] /\ task[e.job].status = "Pending"
    BY <1>5, <1>15 DEF ListsCurrent
  <2>5. /\ task'[e.job].status = "Queued" /\ task'[e.job].parent = task[e.job].parent
        /\ task'[e.job].retryIndex = task[e.job].retryIndex /\ task'[e.job].published = task[e.job].published
        /\ \A k \in Jobs : k # e.job => task'[k] = task[k]
    BY <1>5, <2>1, <2>4 DEF TaskRow
  <2>6. ~Sent(e.job) /\ ~task[e.job].published BY <1>5, <1>6, <2>4 DEF Announced
  <2>7. Undisturbed' /\ HeldOnce' /\ Handled' BY <1>2, <2>2, <2>4, <2>5, ThreadsQuiet
  <2>8. \A j \in Jobs : Sent(j)' = Sent(j) BY <2>2 DEF Sent
  <2>9. JobsInOrder'
    <3>1. task[e.job] # NoRow BY <2>4 DEF NoRow
    <3> QED BY <1>5, <2>2, <2>4, <2>5, <3>1 DEF JobsInOrder
  <2>10. \A m \in Msgs : msg[m].job # NoJob => msg[m].job \in Jobs /\ msg[m].job # e.job
    BY <1>5, <2>4, <2>6 DEF Sent, ExInv, TypeInv, TypeOK, StreamTyped
  <2>11. Backed' BY <1>2, <1>5, <2>2, <2>5, <2>10 DEF Backed
  <2>12. Announced'
    <3>1. \A j \in Jobs : ~(task'[j].status = "Queued" /\ ~task'[j].published /\ Sent(j)')
      BY <1>8, <2>2, <2>5, <2>6, <2>8
    <3> QED BY <1>5, <2>5, <2>6, <2>8, <3>1 DEF Announced
  <2>13. AttemptsSent' BY <1>2, <1>5, <2>2 DEF AttemptsSent, Sent
  <2>14. ListsCurrent'
    <3>1. \A f \in todo'[p] : f \in todo[p] /\ f.job # e.job /\ f.job \in Jobs BY <1>5, <2>3 DEF ListsCurrent
    <3>2. \A f \in todo'[p] : f.row = task'[f.job] /\ f.row.status = "Pending"
      BY <1>5, <1>15, <2>5, <3>1 DEF ListsCurrent
    <3>3. \A f, g \in todo'[p] : f.job = g.job => f = g BY <1>5, <3>1 DEF ListsCurrent
    <3>4. Unsent(e.job)' BY <2>4, <2>5, <2>6, <2>8 DEF Unsent
    <3> QED BY <1>4, <1>15, <2>2, <2>3, <3>1, <3>2, <3>3, <3>4 DEF ListsCurrent
  <2>15. ChildrenOfFailed'
    <3>1. \A k \in Jobs : task'[k].parent = task[k].parent BY <2>5
    <3> QED BY <1>5, <2>4, <2>5, <3>1 DEF ChildrenOfFailed
  <2>16. OneMessage' BY <2>2 DEF ExInv, ThreadInv, OneMessage
  <2> QED BY <1>1, <1>3, <2>4, <2>5, <2>7, <2>9, <2>11, <2>12, <2>13, <2>14, <2>15, <2>16
      DEF ExInv, ThreadInv, StoreInv
(* XADD: the first message of a run that has none. *)
<1>16. ASSUME PublishTask(p), RedisCtx(p) PROVE ExInv' /\ UNCHANGED task
  <2> USE <1>16 DEF PublishTask
  <2>1. /\ UNCHANGED <<task, nextJob, todo, phase, pubjob>> /\ spc[p] = "add" /\ spc' = [spc EXCEPT ![p] = "mark"]
        /\ msg' = [msg EXCEPT ![nextMsg] = [job |-> pubjob[p], state |-> "available"]]
        /\ nextMsg \in Msgs /\ nextMsg' = nextMsg + 1
    BY BoundsAssumption DEF runVars, ExInv, ThreadInv, Undisturbed, TypeInv, TypeOK, StreamTyped, Msgs
  <2> HIDE <1>16 DEF PublishTask
  <2>2. /\ msg'[nextMsg].job = pubjob[p] /\ msg'[nextMsg].state = "available"
        /\ \A m \in Msgs : m # nextMsg => msg'[m] = msg[m]
    BY <2>1 DEF ExInv, TypeInv, TypeOK, StreamTyped
  <2>3. pubjob[p] \in Jobs /\ Unsent(pubjob[p]) /\ pubjob[p] # NoJob
    BY <1>5, <2>1, BoundsAssumption DEF ListsCurrent, Jobs, NoJob
  <2>4. msg[nextMsg].state = "None"
    <3>1. nextMsg >= nextMsg BY DEF ExInv, TypeInv, TypeOK, StreamTyped
    <3> QED BY <2>1, <3>1 DEF ExInv, TypeInv, Fresh
  <2>5. msg[nextMsg].job = NoJob BY <1>5, <2>1, <2>4 DEF Backed
  <2>6. \A j \in Jobs : /\ Sent(j) => Sent(j)'
                        /\ Sent(j)' => Sent(j) \/ j = pubjob[p]
                        /\ Sent(pubjob[p])'
    <3>1. NoJob \notin Jobs BY BoundsAssumption DEF NoJob, Jobs
    <3> QED BY <2>1, <2>2, <2>5, <3>1 DEF Sent
  <2>7. Undisturbed' /\ HeldOnce' /\ Handled' BY <1>2, <2>1, <2>2, ThreadsQuiet
  <2>8. OneMessage' BY <2>2, <2>3 DEF ExInv, ThreadInv, OneMessage, Unsent, Sent
  <2>9. JobsInOrder' /\ ChildrenOfFailed' BY <1>5, <2>1 DEF JobsInOrder, ChildrenOfFailed
  <2>10. AttemptsSent'
    <3>1. \A a \in Attempts : att[a].job \in Jobs BY DEF ExInv, TypeInv, TypeOK, RowsTyped, AttemptRow
    <3> QED BY <1>2, <1>5, <2>6, <3>1 DEF AttemptsSent
  <2>11. Backed'
    <3>1. \A a \in Attempts : att[a].status # "None" => att[a].job # pubjob[p]
      BY <1>5, <2>3 DEF AttemptsSent, Unsent
    <3> QED BY <1>2, <1>5, <2>1, <2>2, <2>3, <3>1 DEF Backed, Unsent
  <2>12. spc'[p] = "mark" BY <1>5, <2>1
  <2>13. Announced' BY <1>5, <1>8, <2>1, <2>6, <2>12 DEF Announced
  <2>14. ListsCurrent'
    <3>1. \A j \in Jobs : j # pubjob[p] => Unsent(j)' = Unsent(j) BY <2>1, <2>6 DEF Unsent
    <3>2. \A e \in todo[p] : e.job \in Jobs /\ e.job # pubjob[p] BY <1>5, <2>1 DEF ListsCurrent
    <3> QED BY <1>4, <1>5, <2>1, <2>3, <2>6, <2>12, <3>1, <3>2 DEF ListsCurrent
  <2> QED BY <1>1, <1>3, <2>1, <2>7, <2>8, <2>9, <2>10, <2>11, <2>13, <2>14 DEF ExInv, ThreadInv, StoreInv
<1>17. ASSUME MarkPublished(p)
       PROVE  /\ ExInv'
              /\ \A j \in Jobs : /\ task'[j].status = task[j].status /\ task'[j].parent = task[j].parent
                                 /\ task'[j].retryIndex = task[j].retryIndex
  <2> USE <1>17 DEF MarkPublished
  <2>0. \A ok \in BOOLEAN : DbCtx(p, ok) => ok BY NoFaults DEF ExInv, ThreadInv
  <2>1. /\ task' = [task EXCEPT ![pubjob[p]].published = TRUE]
        /\ UNCHANGED <<nextJob, msg, nextMsg, todo, phase>> /\ spc[p] = "mark" /\ spc'[p] = "pick"
    BY <1>5, <2>0 DEF redisVars
  <2> HIDE <1>17 DEF MarkPublished
  <2>2. pubjob[p] \in Jobs /\ Sent(pubjob[p]) BY <1>5, <2>1 DEF ListsCurrent
  <2>3. /\ \A j \in Jobs : /\ task'[j].status = task[j].status /\ task'[j].parent = task[j].parent
                           /\ task'[j].retryIndex = task[j].retryIndex
                           /\ j # pubjob[p] => task'[j] = task[j]
        /\ task'[pubjob[p]].published
    BY <1>5, <2>1, <2>2 DEF TaskRow
  <2>4. Undisturbed' /\ HeldOnce' /\ Handled' BY <1>2, <2>1, <2>3, ThreadsQuiet
  <2>5. \A j \in Jobs : Sent(j)' = Sent(j) BY <2>1 DEF Sent
  <2>6. task[pubjob[p]].status \notin {"None", "Pending"} BY <1>6, <2>2
  <2>7. JobsInOrder'
    <3>1. task[pubjob[p]] # NoRow BY <2>6 DEF NoRow
    <3> QED BY <1>5, <2>1, <2>3, <2>6, <3>1 DEF JobsInOrder
  <2>8. Backed'
    <3>1. \A m \in Msgs : msg[m].job # NoJob => msg[m].job \in Jobs BY DEF ExInv, TypeInv, TypeOK, StreamTyped
    <3> QED BY <1>2, <1>5, <2>1, <2>3, <3>1 DEF Backed
  <2>9. Announced'
    <3>1. \A j \in Jobs : ~(task'[j].status = "Queued" /\ ~task'[j].published /\ Sent(j)')
      BY <1>4, <1>5, <2>3, <2>5 DEF Announced
    <3> QED BY <1>5, <2>2, <2>3, <2>5, <2>6, <3>1 DEF Announced
  <2>10. AttemptsSent' BY <1>2, <1>5, <2>1 DEF AttemptsSent, Sent
  <2>11. ListsCurrent'
    <3>1. \A e \in todo[p] : e.job \in Jobs /\ e.job # pubjob[p] BY <1>5, <2>1 DEF ListsCurrent
    <3>2. \A j \in Jobs : j # pubjob[p] => Unsent(j)' = Unsent(j) BY <2>3, <2>5 DEF Unsent
    <3> QED BY <1>4, <1>5, <2>1, <2>3, <3>1, <3>2 DEF ListsCurrent
  <2>12. ChildrenOfFailed' BY <1>5, <2>3 DEF ChildrenOfFailed
  <2>13. OneMessage' BY <2>1 DEF ExInv, ThreadInv, OneMessage
  <2> QED BY <1>1, <1>3, <2>3, <2>4, <2>7, <2>8, <2>9, <2>10, <2>11, <2>12, <2>13 DEF ExInv, ThreadInv, StoreInv
<1>18. ~StopScheduler(p) BY DEF StopScheduler, ExInv, ThreadInv, Undisturbed
<1>19. phase[p] \in {"due", "stranded"} BY <1>5
<1> QED BY <1>2, <1>10, <1>11, <1>12, <1>13, <1>14, <1>15, <1>16, <1>17, <1>18, <1>19 DEF Scheduler

(* A process that is down has no scheduler. *)
SchedulersDown == \A p \in Procs : proc[p] = "down" => spc[p] = "dead"

LEMMA DownStep == TypeInv /\ SchedulersDown /\ LiveThreads /\ [Next]_vars => SchedulersDown'
<1> SUFFICES ASSUME TypeInv, SchedulersDown, LiveThreads, [Next]_vars PROVE SchedulersDown' OBVIOUS
<1> USE DEF SchedulersDown
<1>1. ASSUME NEW t \in Threads, Consumer(t) PROVE UNCHANGED <<proc, spc>>
  BY <1>1, ProcessTaskFrames DEF Consumer, ProcessTaskFrame, EnsureGroup, ReadStream, AckAndDelete, NextReclaimed,
     StopThread, XAutoClaim, PrepareRecovery, RecoveryReadTask, RecoveryReadAttempts, PlanRecovery, AbandonAttempt,
     procVars, schedVars
<1>2. ASSUME NEW p \in Procs, Scheduler(p) PROVE SchedulersDown'
  <2>1. UNCHANGED proc BY <1>2, SchedulerAlive
  <2>2. spc[p] # "dead" /\ \A q \in Procs : q # p => spc'[q] = spc[q]
    BY <1>2 DEF Scheduler, PublishDueTasks, MarkRunQueued, PublishTask, MarkPublished, FindStranded, EndPass,
       StopScheduler, TypeInv, TypeOK, SchedulersTyped
  <2> QED BY <2>1, <2>2
<1>3. ASSUME NEW p \in Procs, Start(p) \/ Down(p) PROVE SchedulersDown'
  BY <1>3 DEF Start, Down, TypeInv, TypeOK, SchedulersTyped, ProcessesTyped
<1>4. ASSUME NEW p \in Procs, Shutdown(p) PROVE SchedulersDown'
  BY <1>4 DEF Shutdown, schedVars, TypeInv, TypeOK, ProcessesTyped
<1>5. CASE UNCHANGED <<spc, proc>> BY <1>5
<1> QED BY <1>1, <1>2, <1>3, <1>4, <1>5 DEF Next, vars, Environment, Crash, Exit, Submit, BeatLapses,
           StartHeartbeat, RedisDown, RedisUp, RedisWipe, ForeignAdd, procVars, schedVars

LEMMA ExEnvironmentStep ==
    ASSUME Calm, ExInv, LiveThreads, SchedulersDown, Environment
    PROVE  /\ ExInv' /\ UNCHANGED <<att, nextAtt>>
           /\ \/ UNCHANGED task
              \/ /\ nextJob \in Jobs /\ task[nextJob] = NoRow /\ task'[nextJob] = [NoRow EXCEPT !.status = "Pending"]
                 /\ \A j \in Jobs : j # nextJob => task'[j] = task[j]
<1>1. TypeInv' BY EnvironmentTyped DEF ExInv
<1>2. UNCHANGED <<att, nextAtt>>
  BY DEF Environment, Submit, Start, Crash, Exit, Down, Shutdown, BeatLapses, StartHeartbeat, RedisDown, RedisUp,
     RedisWipe, ForeignAdd, attVars
<1>3. AttemptInv' BY <1>2 DEF ExInv, AttemptInv, AttemptsNew, OneUnfinishedAttempt
<1>4. CASE Submit
  <2> USE <1>4 DEF Submit
  <2> DEFINE r == [NoRow EXCEPT !.status = "Pending"]
  <2>1. r.status = "Pending" /\ ~r.published /\ r.parent = NoJob BY DEF NoRow
  <2>2. task' = [task EXCEPT ![nextJob] = r] /\ UNCHANGED <<msg, nextMsg, group, proc, threadVars, schedVars>>
    BY DEF redisVars, procVars
  <2> HIDE DEF r
  <2>3. /\ StoreInv' /\ nextJob \in Jobs /\ task[nextJob] = NoRow /\ task'[nextJob] = r
        /\ \A j \in Jobs : j # nextJob => task'[j] = task[j]
    BY <1>2, <2>1, <2>2, NewRun
  <2>4. task[nextJob].parent = NoJob /\ task[nextJob].status = "None" BY <2>3 DEF NoRow
  <2>5. Undisturbed' /\ HeldOnce' /\ Handled' BY <1>2, <2>1, <2>2, <2>3, <2>4, ThreadsQuiet
  <2>6. OneMessage' BY <2>2 DEF ExInv, ThreadInv, OneMessage
  <2>7. ExInv' BY <1>1, <1>3, <2>3, <2>5, <2>6 DEF ExInv, ThreadInv
  <2> QED BY <1>2, <2>3, <2>7 DEF r
<1>5. ASSUME UNCHANGED <<task, nextJob, msg, nextMsg, group, proc, threadVars, schedVars>>
      PROVE  ExInv' /\ UNCHANGED task
  <2>1. Undisturbed' /\ HeldOnce' /\ Handled' BY <1>2, <1>5, ThreadsQuiet
  <2>2. StoreInv' /\ OneMessage' BY <1>2, <1>5, StreamStep
  <2> QED BY <1>1, <1>3, <1>5, <2>1, <2>2 DEF ExInv, ThreadInv
<1>6. CASE (\E s \in Roles : BeatLapses(s) \/ StartHeartbeat(s)) \/ RedisDown \/ RedisUp
  <2>1. UNCHANGED <<task, nextJob, msg, nextMsg, group, proc, threadVars, schedVars>>
    BY <1>6 DEF BeatLapses, StartHeartbeat, RedisDown, RedisUp, runVars, redisVars, procVars
  <2> QED BY <1>2, <1>5, <2>1
<1>7. ASSUME NEW p \in Procs, Start(p) PROVE ExInv' /\ UNCHANGED task
  <2> USE <1>7 DEF Start
  <2>1. UNCHANGED <<task, nextJob, msg, nextMsg, group, cur, row, la, batch, unf, todo, phase, pubjob>>
    BY DEF runVars, redisVars
  <2>2. \A q \in Procs : q = p BY DEF Calm
  <2>3. \A t \in Threads : t[1] = p BY <2>2 DEF Threads
  <2>4. \A t \in Threads : pc[t] \in OffPoints /\ pc'[t] \in {"setup", "idle"} BY <2>3 DEF LiveThreads
  <2>5. \A t \in Threads : batch[t] = {} /\ ~Busy(t)'
    BY <2>4 DEF ExInv, ThreadInv, HeldOnce, Busy, LoopPoints
  <2>6. \A t \in Threads, m \in Msgs : ~Has(t, m)' BY <2>1, <2>5 DEF Has
  <2>7. HeldOnce' BY <2>1, <2>5, <2>6 DEF HeldOnce
  <2>8. Undisturbed' BY <2>1, <2>4 DEF ExInv, TypeInv, TypeOK, ProcessesTyped, ThreadInv, Undisturbed
  <2>9. Handled' BY <2>5 DEF Handled
  <2>10. OneMessage' BY <2>1 DEF ExInv, ThreadInv, OneMessage
  <2>11. spc[p] = "dead" /\ spc'[p] = "idle"
    BY DEF SchedulersDown, ExInv, TypeInv, TypeOK, SchedulersTyped
  <2>12. JobsInOrder' /\ Backed' /\ AttemptsSent' /\ ChildrenOfFailed'
    BY <1>2, <2>1 DEF ExInv, StoreInv, JobsInOrder, Backed, AttemptsSent, ChildrenOfFailed, Sent
  <2>13. Announced' BY <2>1, <2>2, <2>11 DEF ExInv, StoreInv, Announced, Sent
  <2>14. ListsCurrent' BY <2>1, <2>2, <2>11 DEF ExInv, StoreInv, ListsCurrent
  <2> QED BY <1>1, <1>3, <2>1, <2>7, <2>8, <2>9, <2>10, <2>12, <2>13, <2>14 DEF ExInv, ThreadInv, StoreInv
<1>8. ASSUME NEW p \in Procs, Crash(p) PROVE ExInv' /\ UNCHANGED task
  <2> USE <1>8 DEF Crash, Down, Lost
  <2>1. UNCHANGED <<task, nextJob, msg, nextMsg, group>> BY DEF runVars, redisVars
  <2>2. \A q \in Procs : q = p BY DEF Calm
  <2>3. \A t \in Threads : t[1] = p BY <2>2 DEF Threads
  <2>4. \A t \in Threads : pc'[t] = "dead" /\ batch'[t] = {} BY <2>3
  <2>5. \A t \in Threads : ~Busy(t)' /\ \A m \in Msgs : ~Has(t, m)' BY <2>4 DEF Has, Busy, OffPoints
  <2>6. spc[p] # "mark" /\ spc'[p] = "dead" /\ todo'[p] = {} /\ phase'[p] = "due"
    BY DEF Calm, ExInv, TypeInv, TypeOK, SchedulersTyped
  <2>7. Undisturbed' BY <2>1, <2>4 DEF ExInv, TypeInv, TypeOK, ProcessesTyped, ThreadInv, Undisturbed
  <2> HIDE <1>8 DEF Crash, Down, Lost
  <2>8. HeldOnce' /\ Handled' BY <2>4, <2>5 DEF HeldOnce, Handled
  <2>9. OneMessage' BY <2>1 DEF ExInv, ThreadInv, OneMessage
  <2>10. JobsInOrder' /\ Backed' /\ AttemptsSent' /\ ChildrenOfFailed'
    BY <1>2, <2>1 DEF ExInv, StoreInv, JobsInOrder, Backed, AttemptsSent, ChildrenOfFailed, Sent
  <2>11. Announced' BY <2>1, <2>2, <2>6 DEF ExInv, StoreInv, Announced, Sent
  <2>12. ListsCurrent' BY <2>2, <2>6 DEF ListsCurrent
  <2> QED BY <1>1, <1>3, <2>1, <2>7, <2>8, <2>9, <2>10, <2>11, <2>12 DEF ExInv, ThreadInv, StoreInv
<1>9. CASE ForeignAdd
  <2> USE <1>9 DEF ForeignAdd
  <2>1. /\ UNCHANGED <<task, nextJob, group, proc, threadVars, schedVars>>
        /\ msg' = [msg EXCEPT ![nextMsg] = [job |-> NoJob, state |-> "available"]] /\ nextMsg \in Msgs
    BY BoundsAssumption DEF runVars, procVars, ExInv, TypeInv, TypeOK, StreamTyped, Msgs
  <2> HIDE <1>9 DEF ForeignAdd
  <2>2. msg'[nextMsg].job = NoJob /\ \A m \in Msgs : m # nextMsg => msg'[m] = msg[m]
    BY <2>1 DEF ExInv, TypeInv, TypeOK, StreamTyped
  <2>3. msg[nextMsg].job = NoJob
    <3>1. nextMsg >= nextMsg BY DEF ExInv, TypeInv, TypeOK, StreamTyped
    <3>2. msg[nextMsg].state = "None" BY <2>1, <3>1 DEF ExInv, TypeInv, Fresh
    <3> QED BY <2>1, <3>2 DEF ExInv, StoreInv, Backed
  <2>4. \A m \in Msgs : msg'[m].job = msg[m].job BY <2>2, <2>3
  <2>5. Undisturbed' /\ HeldOnce' /\ Handled' BY <1>2, <2>1, <2>2, ThreadsQuiet
  <2>6. OneMessage' BY <2>4 DEF ExInv, ThreadInv, OneMessage
  <2>7. \A j \in Jobs : Sent(j)' = Sent(j) /\ Unsent(j)' = Unsent(j) BY <2>1, <2>4 DEF Sent, Unsent
  <2>8. JobsInOrder' /\ AttemptsSent' /\ ChildrenOfFailed' /\ Announced'
    BY <1>2, <2>1, <2>4, <2>7 DEF ExInv, StoreInv, JobsInOrder, AttemptsSent, ChildrenOfFailed, Announced, Sent, schedVars
  <2>9. Backed' BY <1>2, <2>1, <2>2 DEF ExInv, StoreInv, Backed
  <2>10. ListsCurrent'
    <3>1. \A p \in Procs : /\ \A e \in todo[p] : e.job \in Jobs
                           /\ spc[p] \in {"add", "mark"} => pubjob[p] \in Jobs
      BY DEF ExInv, TypeInv, TypeOK, SchedulersTyped
    <3> QED BY <2>1, <2>7, <3>1 DEF ExInv, StoreInv, ListsCurrent, schedVars
  <2>11. ExInv' BY <1>1, <1>3, <2>5, <2>6, <2>8, <2>9, <2>10 DEF ExInv, ThreadInv, StoreInv
  <2> QED BY <1>2, <2>1, <2>11
<1>10. ~RedisWipe /\ \A p \in Procs : ~Shutdown(p) /\ ~Exit(p)
  BY NoFaults DEF ExInv, ThreadInv, Undisturbed, Shutdown, Exit, Calm
<1> QED BY <1>2, <1>4, <1>6, <1>7, <1>8, <1>9, <1>10 DEF Environment

-----------------------------------------------------------------------------
(* The steps of ProcessTask that write. *)
LEMMA TaskWrites ==
    ASSUME Calm, ExInv, NEW t \in Threads, ProcessTask(t)
    PROVE  \/ ExInv' /\ UNCHANGED <<task, att>>
           \/ MarkAttemptClaimed(t) \/ CreateRetryChild(t)
           \/ /\ MarkRunRunning(t) /\ MarkRun(t, "running", "Running") /\ pc' = [pc EXCEPT ![t] = "started"]
           \/ /\ MarkRunCompleted(t) /\ MarkRun(t, "completed", "Completed") /\ pc' = [pc EXCEPT ![t] = "ack"]
           \/ /\ MarkRunRetryableFailure(t) /\ MarkRun(t, "retryable", "Failed")
              /\ pc' = [pc EXCEPT ![t] = "retryAttempt"]
           \/ /\ MarkRunFailed(t) /\ MarkRun(t, "failRun", "Failed") /\ pc' = [pc EXCEPT ![t] = "ack"]
           \/ /\ MarkAttemptStarted(t) /\ MarkAttempt(t, "started", "Started") /\ pc' = [pc EXCEPT ![t] = "handler"]
           \/ /\ MarkAttemptSucceeded(t) /\ MarkAttempt(t, "succeeded", "Succeeded")
              /\ pc' = [pc EXCEPT ![t] = "confirm"]
           \/ /\ MarkRetryAttemptFailed(t) /\ MarkAttempt(t, "retryAttempt", "Failed")
              /\ \/ pc' = [pc EXCEPT ![t] = "ack"]
                 \/ pc' = [pc EXCEPT ![t] = "spawn"] /\ row[t].retryIndex < MaxRetries
           \/ /\ MarkAttemptFailed(t) /\ MarkAttempt(t, "failAttempt", "Failed")
              /\ pc' = [pc EXCEPT ![t] = "failRun"]
<1>1. CASE LoadTask(t) \/ CheckDuplicate(t) \/ RunHandler(t) \/ ConfirmSuccess(t) \/ CheckRetryChild(t)
  <2>1. ExInv' BY <1>1, TaskReads
  <2>2. UNCHANGED <<task, att>>
    BY <1>1 DEF LoadTask, CheckDuplicate, RunHandler, ConfirmSuccess, CheckRetryChild, runVars, attVars
  <2> QED BY <2>1, <2>2
<1>2. CASE MarkRunRunning(t) \/ MarkRunCompleted(t) \/ MarkRunRetryableFailure(t) \/ MarkRunFailed(t)
  BY <1>2 DEF MarkRunRunning, MarkRunCompleted, MarkRunRetryableFailure, MarkRunFailed, Return, Goto
<1>3. CASE MarkAttemptStarted(t) \/ MarkAttemptSucceeded(t) \/ MarkAttemptFailed(t)
  BY <1>3 DEF MarkAttemptStarted, MarkAttemptSucceeded, MarkAttemptFailed, Goto
<1>4. CASE MarkRetryAttemptFailed(t)
  <2>1. row[t].retryIndex \in Nat /\ MaxRetries \in Nat
    BY BoundsAssumption DEF ExInv, TypeInv, TypeOK, ThreadsTyped, TaskRow
  <2>2. ~(row[t].retryIndex >= MaxRetries) => row[t].retryIndex < MaxRetries BY <2>1
  <2> QED BY <1>4, <2>2 DEF MarkRetryAttemptFailed, Return, Goto
<1> QED BY <1>1, <1>2, <1>3, <1>4 DEF ProcessTask

(* What a step does to the stored runs and to the attempts that succeeded: one  *)
(* of the moves of the life cycle, or nothing.                              *)
SameRun(j) == /\ task'[j].status = task[j].status /\ task'[j].parent = task[j].parent
              /\ task'[j].retryIndex = task[j].retryIndex
Moves(j, from, to) == /\ task[j].status = from /\ task'[j].status = to
                      /\ task'[j].parent = task[j].parent /\ task'[j].retryIndex = task[j].retryIndex
                      /\ \A k \in Jobs : k # j => SameRun(k)
Succeeded(j) == \E a \in Attempts : att[a].job = j /\ att[a].status = "Succeeded"
SuccessesKept == \A j \in Jobs : Succeeded(j)' = Succeeded(j)

RunStep ==
    \/ (\A j \in Jobs : SameRun(j)) /\ SuccessesKept
    \/ \E j \in Jobs : /\ SuccessesKept
                       /\ \/ Moves(j, "None", "Pending") /\ task[j] = NoRow
                          \/ Moves(j, "Pending", "Queued") \/ Moves(j, "Queued", "Running")
                          \/ Moves(j, "Running", "Completed") /\ Succeeded(j)
                          \/ Moves(j, "Running", "Failed")
    \/ \E j \in Jobs : /\ \A k \in Jobs : SameRun(k)
                       /\ task[j].status = "Running" /\ Succeeded(j)'
                       /\ \A k \in Jobs : k # j => Succeeded(k)' = Succeeded(k)
    \/ \E j, child \in Jobs :
         /\ SuccessesKept
         /\ task[j].status = "Failed" /\ task[j].retryIndex < MaxRetries
         /\ task[child] = NoRow /\ \A k \in Jobs : task[k].parent # j
         /\ task'[child].status = "Pending" /\ task'[child].parent = j
         /\ task'[child].retryIndex = task[j].retryIndex + 1
         /\ \A k \in Jobs : k # child => SameRun(k)

LEMMA RunSteps ==
    ASSUME Calm, ExInv, NEW t \in Threads, ProcessTask(t) PROVE ExInv' /\ RunStep
<1>0. Job(t) \in Jobs BY Handling
<1>1. CASE UNCHANGED <<task, att>> /\ ExInv' BY <1>1 DEF RunStep, SameRun, SuccessesKept, Succeeded
<1>2. CASE MarkAttemptClaimed(t)
  <2>1. ExInv' /\ UNCHANGED task BY <1>2, AttemptClaimed
  <2>2. SuccessesKept
    <3> SUFFICES ASSUME NEW j \in Jobs PROVE Succeeded(j)' = Succeeded(j) BY DEF SuccessesKept
    <3>1. \A a \in Attempts : att'[a] = att[a] \/ (att[a].status = "None" /\ att'[a].status = "Claimed")
      BY <1>2, AttemptClaimed
    <3>2. \A a \in Attempts : (att'[a].job = j /\ att'[a].status = "Succeeded") = (att[a].job = j /\ att[a].status = "Succeeded")
      BY <3>1
    <3> QED BY <3>2 DEF Succeeded
  <2> QED BY <2>1, <2>2 DEF RunStep, SameRun
<1>3. CASE CreateRetryChild(t)
  <2>1. /\ ExInv' /\ UNCHANGED att /\ nextJob \in Jobs /\ task[nextJob] = NoRow
        /\ \A j \in Jobs : j # nextJob => task'[j] = task[j]
        /\ task'[nextJob] = RetryRow(t) /\ row[t].retryIndex = task[Job(t)].retryIndex
        /\ task[Job(t)].status = "Failed" /\ row[t].retryIndex < MaxRetries
        /\ \A k \in Jobs : task[k].parent # Job(t)
    BY <1>3, RetryCreated
  <2>2. SuccessesKept BY <2>1 DEF SuccessesKept, Succeeded
  <2>3. /\ task'[nextJob].status = "Pending" /\ task'[nextJob].parent = Job(t)
        /\ task'[nextJob].retryIndex = task[Job(t)].retryIndex + 1
    BY <2>1 DEF RetryRow
  <2>4. \A k \in Jobs : k # nextJob => SameRun(k) BY <2>1 DEF SameRun
  <2> QED BY <1>0, <2>1, <2>2, <2>3, <2>4 DEF RunStep
<1>4. ASSUME NEW from, NEW to, NEW s \in {"Running", "Completed", "Failed"},
             MarkRun(t, from, s), pc' = [pc EXCEPT ![t] = to],
             \/ from = "running" /\ s = "Running" /\ to = "started"
             \/ from = "completed" /\ s = "Completed" /\ to = "ack"
             \/ from = "retryable" /\ s = "Failed" /\ to = "retryAttempt"
             \/ from = "failRun" /\ s = "Failed" /\ to = "ack"
      PROVE  ExInv' /\ RunStep
  <2>1. /\ ExInv'
        /\ task[Job(t)].status \in {"Queued", "Running"} /\ (s # "Running" => task[Job(t)].status = "Running")
        /\ task'[Job(t)].status = s /\ task'[Job(t)].parent = task[Job(t)].parent
        /\ task'[Job(t)].retryIndex = task[Job(t)].retryIndex
        /\ \A j \in Jobs : j # Job(t) => task'[j] = task[j]
        /\ s = "Completed" => \E a \in Attempts : att[a].job = Job(t) /\ att[a].status = "Succeeded"
        /\ UNCHANGED att
    BY <1>4, RunSaved
  <2>2. SuccessesKept BY <2>1 DEF SuccessesKept, Succeeded
  <2>3. \A j \in Jobs : j # Job(t) => SameRun(j) BY <2>1 DEF SameRun
  <2>4. s = "Completed" => Succeeded(Job(t)) BY <2>1 DEF Succeeded
  <2>5. CASE s = task[Job(t)].status
    <3>1. SameRun(Job(t)) BY <2>1, <2>5 DEF SameRun
    <3>2. \A j \in Jobs : SameRun(j) BY <2>3, <3>1
    <3> QED BY <2>1, <2>2, <3>2 DEF RunStep
  <2>6. CASE s # task[Job(t)].status
    <3>1. Moves(Job(t), task[Job(t)].status, s) BY <2>1, <2>3 DEF Moves
    <3> QED BY <1>0, <2>1, <2>2, <2>4, <2>6, <3>1 DEF RunStep
  <2> QED BY <2>5, <2>6
<1>5. ASSUME NEW from, NEW to, NEW s \in AttemptStatus \ {"None"},
             MarkAttempt(t, from, s), pc' = [pc EXCEPT ![t] = to],
             \/ from = "started" /\ s = "Started" /\ to = "handler"
             \/ from = "succeeded" /\ s = "Succeeded" /\ to = "confirm"
             \/ from = "retryAttempt" /\ s = "Failed" /\ to = "ack"
             \/ from = "retryAttempt" /\ s = "Failed" /\ to = "spawn" /\ row[t].retryIndex < MaxRetries
             \/ from = "failAttempt" /\ s = "Failed" /\ to = "failRun"
      PROVE  ExInv' /\ RunStep
  <2>1. /\ ExInv'
        /\ la[t].id \in Attempts /\ att[la[t].id].job = Job(t) /\ att[la[t].id].status \in Unfinished
        /\ s = "Succeeded" => task[Job(t)].status = "Running"
        /\ att'[la[t].id].job = Job(t) /\ att'[la[t].id].status = s
        /\ \A a \in Attempts : a # la[t].id => att'[a] = att[a]
        /\ UNCHANGED task
    BY <1>5, AttemptSaved
  <2>2. \A j \in Jobs : SameRun(j) BY <2>1 DEF SameRun
  <2>3. PICK k \in Jobs : k = Job(t) BY <1>0
  <2>4. \A j \in Jobs : j # k \/ s # "Succeeded" => Succeeded(j)' = Succeeded(j)
    <3> SUFFICES ASSUME NEW j \in Jobs, j # k \/ s # "Succeeded" PROVE Succeeded(j)' = Succeeded(j)
      OBVIOUS
    <3>1. \A a \in Attempts : (att'[a].job = j /\ att'[a].status = "Succeeded") = (att[a].job = j /\ att[a].status = "Succeeded")
      BY <2>1, <2>3 DEF Unfinished
    <3> QED BY <3>1 DEF Succeeded
  <2>5. s = "Succeeded" => Succeeded(k)' /\ task[k].status = "Running" BY <2>1, <2>3 DEF Succeeded
  <2>6. CASE s = "Succeeded" BY <2>1, <2>2, <2>4, <2>5, <2>6 DEF RunStep
  <2>7. CASE s # "Succeeded" BY <2>1, <2>2, <2>4, <2>7 DEF RunStep, SuccessesKept
  <2> QED BY <2>6, <2>7
<1> QED BY <1>1, <1>2, <1>3, <1>4, <1>5, TaskWrites DEF AttemptStatus

(* One step from the invariant keeps it and is a step of the life cycle. *)
LEMMA ExStep ==
    ASSUME Calm, ExInv, LiveThreads, SchedulersDown, [Next]_vars
    PROVE  ExInv' /\ RunStep
<1>1. ASSUME ExInv', UNCHANGED <<task, att>> PROVE ExInv' /\ RunStep
  BY <1>1 DEF RunStep, SameRun, SuccessesKept, Succeeded
<1>2. ASSUME NEW t \in Threads, Consumer(t) PROVE ExInv' /\ RunStep
  <2>1. CASE ProcessTask(t) BY <2>1, RunSteps
  <2>2. CASE PrepareRecovery(t)
    <3>1. /\ ExInv' /\ UNCHANGED task
          /\ \A a \in Attempts : \/ att'[a] = att[a]
                                 \/ /\ att[a].status \in Unfinished /\ att'[a].status = "Abandoned"
                                    /\ att'[a].job = att[a].job
      BY <2>2, RecoveryStep
    <3>2. \A j \in Jobs : Succeeded(j)' = Succeeded(j)
      <4> SUFFICES ASSUME NEW j \in Jobs PROVE Succeeded(j)' = Succeeded(j) OBVIOUS
      <4>1. \A a \in Attempts : (att'[a].job = j /\ att'[a].status = "Succeeded") = (att[a].job = j /\ att[a].status = "Succeeded")
        BY <3>1 DEF Unfinished
      <4> QED BY <4>1 DEF Succeeded
    <3> QED BY <3>1, <3>2 DEF RunStep, SameRun, SuccessesKept
  <2>3. CASE ~ProcessTask(t) /\ ~PrepareRecovery(t)
    <3>1. ExInv' /\ UNCHANGED <<task, att>> BY <1>2, <2>3, LoopStep DEF Consumer
    <3> QED BY <1>1, <3>1
  <2> QED BY <2>1, <2>2, <2>3
<1>3. ASSUME NEW p \in Procs, Scheduler(p) PROVE ExInv' /\ RunStep
  <2>1. /\ ExInv' /\ UNCHANGED att
        /\ \A j \in Jobs : \/ SameRun(j)
                           \/ Moves(j, "Pending", "Queued")
    BY <1>3, ExSchedulerStep DEF SameRun, Moves
  <2>2. SuccessesKept BY <2>1 DEF SuccessesKept, Succeeded
  <2> QED BY <2>1, <2>2 DEF RunStep
<1>4. CASE Environment
  <2>1. /\ ExInv' /\ UNCHANGED att
        /\ \/ UNCHANGED task
           \/ /\ nextJob \in Jobs /\ task[nextJob] = NoRow /\ task'[nextJob] = [NoRow EXCEPT !.status = "Pending"]
              /\ \A j \in Jobs : j # nextJob => task'[j] = task[j]
    BY <1>4, ExEnvironmentStep
  <2>2. CASE UNCHANGED task BY <1>1, <2>1, <2>2
  <2>3. CASE task' # task
    <3>1. Moves(nextJob, "None", "Pending") BY <2>1, <2>3 DEF Moves, SameRun, NoRow
    <3>2. SuccessesKept BY <2>1 DEF SuccessesKept, Succeeded
    <3> QED BY <2>1, <2>3, <3>1, <3>2 DEF RunStep
  <2> QED BY <2>2, <2>3
<1>5. CASE UNCHANGED vars
  <2>1. ThreadInv' /\ AttemptInv' /\ TypeInv'
    BY <1>5, TypeStep DEF vars, ExInv, ThreadInv, Undisturbed, HeldOnce, OneMessage, Has, Busy, AttemptInv, AttemptsNew,
       OneUnfinishedAttempt
  <2>2. StoreInv' BY <1>5, StreamStep DEF vars, schedVars
  <2>3. Handled' BY <1>5, ThreadsQuiet DEF vars, threadVars
  <2> QED BY <1>1, <1>5, <2>1, <2>2, <2>3 DEF ExInv, vars
<1> QED BY <1>2, <1>3, <1>4, <1>5 DEF Next

-----------------------------------------------------------------------------
(* The theorems.                                                            *)

ExAll == ExInv /\ LiveThreads /\ SchedulersDown

LEMMA ExAllInit == Calm /\ Init => ExAll
  BY ExInit DEF ExAll, Init, LiveThreads, SchedulersDown, OffPoints

LEMMA ExAllStep == Calm /\ ExAll /\ [Next]_vars => ExAll' /\ RunStep
<1> SUFFICES ASSUME Calm, ExAll, [Next]_vars PROVE ExAll' /\ RunStep OBVIOUS
<1>1. ExInv' /\ RunStep BY ExStep DEF ExAll
<1>2. LiveThreads' /\ SchedulersDown' BY LiveStep, DownStep DEF ExAll, ExInv
<1> QED BY <1>1, <1>2 DEF ExAll

(* recovery.go abandons before it claims, and ProcessTask refuses a run with  *)
(* an unfinished attempt: with every delivery in one pair of hands, no run    *)
(* ever has two of them.                                                    *)
THEOREM OneUnfinishedSound == ASSUME Calm PROVE Spec => []OneUnfinishedAttempt
<1>1. Init => ExAll BY ExAllInit
<1>2. ExAll /\ [Next]_vars => ExAll' BY ExAllStep
<1>3. ExAll => OneUnfinishedAttempt BY DEF ExAll, ExInv, AttemptInv
<1> QED BY <1>1, <1>2, <1>3, PTL DEF Spec

(* publishDueTasks and the stranded sweep: a run that is Queued or Running     *)
(* always has a message still to be delivered or acknowledged, or is found by  *)
(* the sweep, whatever crashes and outages cut short.                       *)
THEOREM RunBackedSound == ASSUME Calm PROVE Spec => []RunBacked
<1>1. Init => ExAll BY ExAllInit
<1>2. ExAll /\ [Next]_vars => ExAll' BY ExAllStep
<1>3. ExAll => RunBacked
  <2> SUFFICES ASSUME ExAll, NEW j \in Jobs, task[j].status \in {"Queued", "Running"},
                      ~(task[j].status = "Queued" /\ ~task[j].published)
               PROVE  \E m \in Msgs : msg[m].job = j /\ msg[m].state \in {"available", "pending"}
    BY DEF RunBacked
  <2>1. Sent(j)
    BY DEF ExAll, ExInv, StoreInv, Announced
  <2>2. PICK m \in Msgs : msg[m].job = j BY <2>1 DEF Sent
  <2>3. msg[m].job # NoJob BY <2>2, BoundsAssumption DEF NoJob, Jobs
  <2>4. msg[m].state \in {"available", "pending", "done"} /\ msg[m].state # "done"
    BY <2>2, <2>3 DEF ExAll, ExInv, StoreInv, Backed, TerminalRun
  <2> QED BY <2>2, <2>4
<1> QED BY <1>1, <1>2, <1>3, PTL DEF Spec

(* The guard of ProcessTask: no whole-row Save, by a handler or by the         *)
(* scheduler, takes a run out of a terminal status.                         *)
THEOREM TerminalSound == ASSUME Calm PROVE Spec => TerminalIsFinal
<1>1. Init => ExAll BY ExAllInit
<1>2. ExAll /\ [Next]_vars => ExAll' BY ExAllStep
<1>3. ExAll /\ [Next]_vars =>
        [\A j \in Jobs : task[j].status \in TerminalRun => task'[j].status = task[j].status]_vars
  <2> SUFFICES ASSUME ExAll, [Next]_vars, NEW j \in Jobs, task[j].status \in TerminalRun
               PROVE  task'[j].status = task[j].status
    OBVIOUS
  <2>1. RunStep BY ExAllStep
  <2> QED BY <2>1 DEF RunStep, Moves, SameRun, TerminalRun, NoRow
<1> QED BY <1>1, <1>2, <1>3, PTL DEF Spec, TerminalIsFinal

(* ackAndDelete: a delivery is acknowledged only once its run has ended.       *)
THEOREM AckSound == ASSUME Calm PROVE Spec => AckAfterTerminal
<1>1. Init => ExAll BY ExAllInit
<1>2. ExAll /\ [Next]_vars => ExAll' BY ExAllStep
<1> DEFINE Acked == \A m \in Msgs :
             (msg[m].state = "pending" /\ msg'[m].state = "done" /\ msg[m].job # NoJob)
                => task[msg[m].job].status \in TerminalRun
<1>3. ExAll /\ [Next]_vars => [Acked]_vars
  <2> SUFFICES ASSUME ExAll, [Next]_vars, NEW m \in Msgs,
                      msg[m].state = "pending", msg'[m].state = "done", msg[m].job # NoJob
               PROVE  task[msg[m].job].status \in TerminalRun
    OBVIOUS
  <2>1. ASSUME UNCHANGED msg PROVE FALSE BY <2>1
  <2>2. ASSUME NEW t \in Threads, Consumer(t) PROVE task[msg[m].job].status \in TerminalRun
    <3>1. CASE AckAndDelete(t)
      <4>1. Busy(t) /\ pc[t] = "ack" BY <3>1 DEF AckAndDelete, Busy, LoopPoints, OffPoints
      <4>2. cur[t] = m
        BY <3>1 DEF AckAndDelete, ExAll, ExInv, TypeInv, TypeOK, StreamTyped
      <4> QED BY <4>1, <4>2 DEF ExAll, ExInv, Handled, KnowsRun, Job
    <3>2. CASE ReadStream(t) BY <3>2 DEF ReadStream, ExAll, ExInv, TypeInv, TypeOK, StreamTyped
    <3>3. CASE ~AckAndDelete(t) /\ ~ReadStream(t)
      <4>1. UNCHANGED msg
        BY <2>2, <3>3, ProcessTaskFrames DEF Consumer, ProcessTaskFrame, EnsureGroup, NextReclaimed, StopThread, XAutoClaim,
           PrepareRecovery, RecoveryReadTask, RecoveryReadAttempts, PlanRecovery, AbandonAttempt, redisVars
      <4> QED BY <2>1, <4>1
    <3> QED BY <3>1, <3>2, <3>3
  <2>3. ASSUME NEW p \in Procs, Scheduler(p) PROVE FALSE
    <3>1. CASE PublishTask(p)
      BY <2>1, <3>1 DEF PublishTask, ExAll, ExInv, TypeInv, TypeOK, StreamTyped
    <3>2. CASE ~PublishTask(p)
      BY <2>1, <2>3, <3>2 DEF Scheduler, PublishDueTasks, MarkRunQueued, MarkPublished, FindStranded, EndPass,
         StopScheduler, redisVars
    <3> QED BY <3>1, <3>2
  <2>4. CASE Environment
    <3>1. CASE ForeignAdd BY <3>1 DEF ForeignAdd, ExAll, ExInv, TypeInv, TypeOK, StreamTyped
    <3>2. ~RedisWipe BY NoFaults DEF ExAll, ExInv, ThreadInv
    <3>3. CASE ~ForeignAdd
      BY <2>1, <2>4, <3>2, <3>3 DEF Environment, Submit, Start, Crash, Exit, Down, Shutdown, BeatLapses,
         StartHeartbeat, RedisDown, RedisUp, redisVars
    <3> QED BY <3>1, <3>3
  <2> QED BY <2>1, <2>2, <2>3, <2>4 DEF Next, vars
<1> QED BY <1>1, <1>2, <1>3, PTL DEF Spec, AckAfterTerminal

(* The delivery path implements the run life cycle: through streams, copies,   *)
(* whole-row Saves, crashes and recoveries, the stored runs only ever make the  *)
(* moves of RunLifecycle.                                                   *)
Runs == [j \in Jobs |-> [status |-> task[j].status, parent |-> task[j].parent, retryIndex |-> task[j].retryIndex]]
Won == {j \in Jobs : \E a \in Attempts : att[a].job = j /\ att[a].status = "Succeeded"}

LEMMA LifecycleInit == Init => Lifecycle!Init
<1> SUFFICES ASSUME Init PROVE Lifecycle!Init OBVIOUS
<1>1. \A j \in Jobs : task[j].status = "None" /\ task[j].parent = NoJob /\ task[j].retryIndex = 0
  BY DEF Init, NoRow
<1>2. \A a \in Attempts : att[a].status = "None" BY DEF Init, NoAttempt
<1> QED BY <1>1, <1>2 DEF Lifecycle!Init, Lifecycle!Unborn

(* A change of the rows, as a change of the runs they stand for. *)
LEMMA RunsChange ==
    ASSUME NEW j \in Jobs, \A k \in Jobs : k # j => SameRun(k)
    PROVE  Runs' = [Runs EXCEPT ![j] = [status |-> task'[j].status, parent |-> task'[j].parent,
                                        retryIndex |-> task'[j].retryIndex]]
  BY DEF Runs, SameRun

LEMMA RunsMove ==
    ASSUME NEW j \in Jobs, NEW from, NEW to, Moves(j, from, to)
    PROVE  Runs[j].status = from /\ Runs' = [Runs EXCEPT ![j].status = to]
  BY DEF Runs, SameRun, Moves

LEMMA LifecycleStep == RunStep => [Lifecycle!Next]_<<Runs, Won>>
<1> SUFFICES ASSUME RunStep PROVE Lifecycle!Next \/ UNCHANGED <<Runs, Won>> OBVIOUS
<1>1. SuccessesKept => UNCHANGED Won BY DEF SuccessesKept, Succeeded, Won
<1>2. (\A j \in Jobs : SameRun(j)) => UNCHANGED Runs BY DEF SameRun, Runs
<1>3. CASE (\A j \in Jobs : SameRun(j)) /\ SuccessesKept BY <1>1, <1>2, <1>3
<1>4. ASSUME NEW j \in Jobs, SuccessesKept, Moves(j, "None", "Pending") PROVE Lifecycle!Next
  <2>1. Runs[j].status = "None" /\ Runs' = [Runs EXCEPT ![j].status = "Pending"] BY <1>4, RunsMove
  <2>2. UNCHANGED Won BY <1>1, <1>4
  <2>3. Lifecycle!Submit(j) BY <2>1, <2>2 DEF Lifecycle!Submit, Lifecycle!Move, Runs, Won
  <2> QED BY <2>3 DEF Lifecycle!Next
<1>5. ASSUME NEW j \in Jobs, SuccessesKept, Moves(j, "Pending", "Queued") PROVE Lifecycle!Next
  <2>1. Runs[j].status = "Pending" /\ Runs' = [Runs EXCEPT ![j].status = "Queued"] BY <1>5, RunsMove
  <2>2. UNCHANGED Won BY <1>1, <1>5
  <2>3. Lifecycle!Queue(j) BY <2>1, <2>2 DEF Lifecycle!Queue, Lifecycle!Move, Runs, Won
  <2> QED BY <2>3 DEF Lifecycle!Next
<1>6. ASSUME NEW j \in Jobs, SuccessesKept, Moves(j, "Queued", "Running") PROVE Lifecycle!Next
  <2>1. Runs[j].status = "Queued" /\ Runs' = [Runs EXCEPT ![j].status = "Running"] BY <1>6, RunsMove
  <2>2. UNCHANGED Won BY <1>1, <1>6
  <2>3. Lifecycle!Begin(j) BY <2>1, <2>2 DEF Lifecycle!Begin, Lifecycle!Move, Runs, Won
  <2> QED BY <2>3 DEF Lifecycle!Next
<1>7. ASSUME NEW j \in Jobs, SuccessesKept, Moves(j, "Running", "Completed"), Succeeded(j) PROVE Lifecycle!Next
  <2>1. j \in Won BY <1>7 DEF Won, Succeeded
  <2>2. Runs[j].status = "Running" /\ Runs' = [Runs EXCEPT ![j].status = "Completed"] BY <1>7, RunsMove
  <2>3. UNCHANGED Won BY <1>1, <1>7
  <2>4. Lifecycle!Complete(j) BY <2>1, <2>2, <2>3 DEF Lifecycle!Complete, Lifecycle!Move, Runs, Won
  <2> QED BY <2>4 DEF Lifecycle!Next
<1>8. ASSUME NEW j \in Jobs, SuccessesKept, Moves(j, "Running", "Failed") PROVE Lifecycle!Next
  <2>1. Runs[j].status = "Running" /\ Runs' = [Runs EXCEPT ![j].status = "Failed"] BY <1>8, RunsMove
  <2>2. UNCHANGED Won BY <1>1, <1>8
  <2>3. Lifecycle!Fail(j) BY <2>1, <2>2 DEF Lifecycle!Fail, Lifecycle!Move, Runs, Won
  <2> QED BY <2>3 DEF Lifecycle!Next
<1>9. ASSUME NEW j \in Jobs, \A k \in Jobs : SameRun(k), task[j].status = "Running", Succeeded(j)',
             \A k \in Jobs : k # j => Succeeded(k)' = Succeeded(k)
      PROVE  Lifecycle!Next
  <2>1. Won' = Won \cup {j} BY <1>9 DEF Won, Succeeded
  <2>2. Runs[j].status = "Running" BY <1>9 DEF Runs
  <2>3. Lifecycle!AttemptSucceeds(j) BY <1>2, <1>9, <2>1, <2>2 DEF Lifecycle!AttemptSucceeds, Runs, Won
  <2> QED BY <2>3 DEF Lifecycle!Next
<1>10. ASSUME NEW j \in Jobs, NEW child \in Jobs, SuccessesKept,
              task[j].status = "Failed", task[j].retryIndex < MaxRetries,
              task[child] = NoRow, \A k \in Jobs : task[k].parent # j,
              task'[child].status = "Pending", task'[child].parent = j,
              task'[child].retryIndex = task[j].retryIndex + 1,
              \A k \in Jobs : k # child => SameRun(k)
       PROVE  Lifecycle!Next
  <2>1. Runs' = [Runs EXCEPT ![child] = [status |-> "Pending", parent |-> j, retryIndex |-> Runs[j].retryIndex + 1]]
    BY <1>10, RunsChange DEF Runs
  <2>2. /\ Runs[j].status = "Failed" /\ Runs[j].retryIndex < MaxRetries
        /\ Runs[child] = Lifecycle!Unborn /\ \A k \in Jobs : Runs[k].parent # j
    BY <1>10 DEF Runs, Lifecycle!Unborn, NoRow
  <2>3. Lifecycle!Retry(j, child) BY <1>1, <1>10, <2>1, <2>2 DEF Lifecycle!Retry, Runs, Won
  <2> QED BY <2>3 DEF Lifecycle!Next
<1> QED BY <1>3, <1>4, <1>5, <1>6, <1>7, <1>8, <1>9, <1>10 DEF RunStep

THEOREM LifecycleSound == ASSUME Calm PROVE Spec => FollowsLifecycle
<1>1. Init => ExAll BY ExAllInit
<1>2. ExAll /\ [Next]_vars => ExAll' BY ExAllStep
<1>3. ExAll /\ [Next]_vars => [Lifecycle!Next]_<<Runs, Won>> BY ExAllStep, LifecycleStep
<1> QED BY <1>1, <1>2, <1>3, LifecycleInit, PTL DEF Spec, FollowsLifecycle, Lifecycle!Spec, Runs, Won
=============================================================================
