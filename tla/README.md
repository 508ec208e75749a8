# A TLA+ model of the scheduler

The repository is a job scheduler in Go with a TypeScript dashboard. An HTTP API
takes tasks and recurring schedules, Postgres holds them, a Redis stream delivers
runs to consumers, an append-only event log records what happened, projections
and a live feed show it, and a set of sweeps watches the whole. This directory
holds TLA+ models of its parts, TLC configurations that check them on small
instances, and TLAPS proofs of the properties that matter most for every instance.

`PROJECT.json` ties everything to the code: which lines a definition models
(`map`), which hazards of the code a property is for (`hazards`), what each run
checks (`runs`) and a small change of the model that each property detects
(`mutants`). In the modules a definition whose comment says *mutant* is such a
change; it is not part of any specification.

Contents: [the system](#the-system), [the plan](#the-plan),
[modules and code](#modules-and-code), [runs](#runs), [fairness](#fairness),
[proofs](#proofs), [disagreements](#disagreements), [known limits](#known-limits),
[abstractions](#abstractions), [not modelled](#not-modelled).

## The system

`main.go` starts one process with six background loops and the HTTP server. Any
number of processes may run side by side. They share Postgres and Redis and
nothing else, and since the worker ids are literals in `main.go` (`Consumer-a`,
`Consumer_Backup`, `Schedule_Buddy`) they share those too.

| component | state it keeps | operations | interacts with | correct when |
|---|---|---|---|---|
| scheduler `worker/scheduler.go` | none of its own | poll due runs, mark Queued, XADD, mark published, sweep stranded runs | Task rows, stream | every due run gets a message, at least once |
| worker `worker/worker.go` | capacity counter | XREADGROUP, `ProcessTask`, XACK + XDEL | stream, Task, Attempt rows | a delivery is acknowledged only when its run is done; a run ends once |
| reclaimer, recovery `worker/reclaimer.go`, `recovery.go` | the claimed batch | XAUTOCLAIM, `prepareRecovery`, then as the worker | the same rows, heartbeats, Worker rows | work of a dead consumer is finished, work of a living one is left alone |
| heartbeats, identity `worker/heartbeat.go`, `identity.go` | WorkerHeartbeat, Worker rows | beat every 10 s, register an instance | recovery and monitoring read them | a living worker never looks dead |
| recurring schedules `worker/scheduler.go` | ScheduleDefinition rows | claim an occurrence with a conditional UPDATE, announce, create its run, announce skipped ones | task intake, events | every occurrence is run once or reported skipped |
| schedule ledger `events/schedule_projection.go` | ScheduleOccurrence rows | reduce, rebuild | events | its outcome is what happened |
| schedule watch `worker/schedule_watch.go` | ScheduleSnapshot rows | compare definitions with snapshots, announce changes | events | every change is announced once, by one instance |
| task intake, rerun `taskservice` | Task rows with a unique idempotency key, PIIRecord rows | replay an idempotency key, scan, block, create, rerun | PII, scheduler | one run per key; nothing unscanned is run |
| PII `pii` | active policy, PolicyActivation and vault rows | detect, resolve overlaps, mask, decide | intake, artifacts, policy drift | a scan that cannot finish blocks |
| post-execution scan `worker/post_execution_scan.go` | artifact rows | scan an output, store, redact or withhold | worker | no unscanned output is stored |
| events and run projection `events` | EventEnvelope, RunProjection rows | insert, reduce under a row lock, recount, rebuild | every part writes, the API reads | the projection is what the log says, in any order of arrival |
| live feed `live`, `handlers/live_handler.go`, `dashboard/src/lib/live*.ts` | hub channels, limiter counts, coalescing windows, client cursor | publish, replay, stream, resync, reload | events in, browser out | no page silently misses a fact, none sees one it may not |
| alerting, notifications `alerting` | Alert, Notification rows | open, escalate, acknowledge, resolve, send, retry | events, sweeps | one open alert per cause; each is notified |
| monitoring sweeps, queue health, component instances `worker/monitoring*.go` | MonitoringHealth, MonitoringAnnotation, QueueHealth rows, last statuses in memory | sweep, annotate, announce transitions | rows of all others | each transition is reported once |
| health derivation `health` | none | component status from samples | dashboard | idle is not degraded, unobserved is not healthy |
| policy drift `worker/policy_drift.go` | the checksum last reported, in memory | compare the policy file with the active policy | PII, events | a changed file is reported once |
| retention `worker/retention.go` | none | delete by age | never started by `main.go` | |
| shutdown `shutdown` | none | timed phases: stop intake, drain, close | every loop | |
| query API, timelines, pagination `handlers`, `pagination` | none | read | every table | a walk by cursor sees every row once |
| authentication `auth` | key table | look up | scopes of the live feed | |
| database, cache, configuration | connections | connect, encode the delivery envelope | | |
| job states `jobstate` | a transition table | no caller | | |
| dashboard | React state | render | API, live feed | |
| command line tools `cmd` | none | rebuild projections, checksums | | |

What is hard here: nothing that spans two statements is transactional. A run
moves through several separate writes, gorm's `Save` writes whole rows from
copies read earlier, almost every database error is ignored or only printed, the
stream delivers at least once, ownership of an attempt is inferred from
heartbeats (a 30 s window) and from process start times, clocks of different
hosts stamp the events, and the live feed is allowed to drop what a slow client
does not read, as long as the client is told. Unit tests reach each function, and
hardly any of the orders in which two of them meet.

## The plan

Done, in this order: the delivery path with its abstract life cycle (the system's
purpose), the run projection, the recurring schedules with their ledger, the live
feed, alerts with their notifications; then the schedule watch, the monitoring
sweeps with the health verdicts and the policy drift, task intake with the PII
scan and the scan of a run's output; and the theorems below. To come:

1. The rebuild of the ledger beside its live writers, with the abstract
   specification "the row is the fold of the log" shared with `RunProjection`.
2. Pagination as a pure algorithm against the list it walks.

Related questions share a run, and related invariants are the named parts of one
conjunction, so that the whole is checked in twelve runs.

## Modules and code

| module | models | composed of |
|---|---|---|
| `Delivery` | scheduler, worker, reclaimer, recovery, Redis stream and group | `RunLifecycle` by `INSTANCE` |
| `RunLifecycle` | abstract: run states and retry lineage | |
| `RunReducer` | `ReduceRun`, `statusFor`, `EventLess` as operators | |
| `RunProjection` | marks of one run, its log, its projection, the rebuild | `RunReducer` |
| `Schedules` | firing, skipping, ledger, toggle | |
| `LiveFilters` | priorities, scopes, permissions, their SQL twins | |
| `LiveFeed` | from `LogEvent` to a page's reload | `LiveFilters` |
| `Alerts` | the alerts sweep, acknowledging, reloading rules, notifications | |
| `ScheduleWatch` | several schedulers compare definitions with snapshots and announce | |
| `HealthVerdicts` | the judgements made from ages, as operators | |
| `Monitoring` | the sweep's fourteen stages, the queue sampler, policy drift and what they watch | `HealthVerdicts` |
| `PIIText` | detectors, rules, overlaps, masks, splices and JSON paths, as operators | |
| `TaskIntake` | requests from the idempotency key to the insert, reruns, the scan of an output | `PIIText` |
| `MCDelivery`, `MCProjection`, `MCLive`, `MCIntake` | values of constants for TLC | |
| `DeliveryProofs`, `RunProjectionProofs`, `SchedulesProofs`, `LiveFeedProofs`, `AlertsProofs`, `ScheduleWatchProofs`, `MonitoringProofs`, `TaskIntakeProofs` | theorems | |

**Delivery.** One action is one database statement or one Redis command with the
control flow up to the next one, so that everything may happen in between. `task`,
`att` and `msg` are the rows and the stream entries; `pc`, `cur`, `row`, `la`,
`batch`, `unf` are what a goroutine holds: in particular `row` and `la` are the
copies of the task and the attempt that `Save` writes back whole. `beat` and
`starts` stand for what recovery reads about owners: whether a role's heartbeat
is younger than the window, and how often processes have started. `ProcessTask`
is the disjunction of its statements, `PrepareRecovery` of those of
`prepareRecovery`; `PublishDueTasks` to `EndPass` are one pass of the scheduler.
A statement that fails is a step as well (`Db`, `DbCtx`): the code goes on, and
where it goes on is the point. The environment submits runs, starts, kills and
signals processes, and takes Redis away.

**RunLifecycle** is what RFC-001 promises of a run: Pending, Queued, Running, then
Completed or Failed and never anything else, and a Failed run may have one retry
child with the next index. `FollowsLifecycle` is `Lifecycle!Spec` under the
mapping of task rows to runs.

**RunProjection.** Every mark of a run is three writes of one goroutine: `save`
the row or attempt, `record` the event with the writer's own clock, `project` it
in a locked transaction. API, scheduler and two consumers do this about the same
run; any write may fail unnoticed. `RebuildRead` and `RebuildSave` are
`cmd/rebuildprojections`. `RunReducer` is the reducer itself, recursion-free, so
that theorems can be about it.

**Schedules.** Each instance runs `Poll`, `Claim` (or `ClaimLost`, `ClaimError`),
`AnnounceDue`, `CreateRun`, `AnnounceCreated`, `AnnounceSkipped`, `EndFire`. The
claim is the conditional UPDATE on `next_run_at`; the occurrence is named by the
time it was expected, as `occurrenceID` does. `ReadDefinition` and
`ToggleSchedule` are the two halves of the API's read-modify-save.

**LiveFilters, LiveFeed.** An event's id is taken by `Insert`, readable after
`Commit`, projected and broadcast by `Publish`, which is where noise is dropped
and repeated facts are coalesced. A connection is a bounded channel in `hub`
and a `handler`: `Accept` (limiter, subscribe), `Replay` (query above the cursor)
or `ReplayFails` (the query fails: the handler prints it and streams on), `Stream`,
`Return`. `handler.unreplayed` is a history: what was projected above the cursor before
the connection subscribed, emptied when the replay has dealt with it; `client.first` says
whether the page was never LIVE before this connection. The page mounts, reads its data and the watermark
(`Mount`, `Handoff`), dials, reads frames (`Connected`, `ReadEvent`,
`ReadResync`, `SnapshotArrives`, `EndOfStream`), is cut by the network or its
watchdog (`Drop`), and reloads after a debounce (`Reload`) or a fallback poll
(`Poll`). One `Tick` is the debounce period of 300 ms, longer than the 250 ms
coalescing window. `Settings` are kinds of page: scopes subscribed to, prefixes
reacted to, what the API key grants, which events happen.

**Alerts.** A sweeper goes through the five passes of `StartAlertsSweep`, one
statement a step: `List` is a pass's query and its read of the rules, `OpenEach`,
`SaveSeverity`, `CreateAlert` and `CreateNotifications` open alerts,
`ReadSamples`, `ResolveEach` and `SaveResolved` resolve them, `CountAttempt`,
`Lookup`, `Send` and `SaveNotification` work on one notification. `todo` and
`cur` are the copies it read and saves back whole; `ReadForAcknowledge` and
`Acknowledge` are the two halves of the API's own read-modify-save, `ActivateRules`
swaps the rules. `sends` counts what the webhook received and is no part of
the code. A statement that fails (`Db`) leads where the code's error branch leads.

**ScheduleWatch.** A pass of `watchScheduleDefinitions` is `ReadDefs`,
`ReadSnapshots` (which also finds the seed marker and plans the changes,
`planScheduleChanges`), then for each change `Apply`, the insert or the conditional
update that decides who announces it, and `Announce`; `EndPass` writes the marker
after a first pass. A definition is its hash and its flag. `Edit` is SQL from
outside. `said`, `edited`, `late` and `first` remember what was announced and done
and are no part of the code.

**HealthVerdicts, Monitoring.** The sweep runs the fourteen entries of `Stages` in
order, each as its statements: `Detect`, `Lookup`, `Create`, `AnnounceDetected` for
the four kinds of annotation, `ReadStatuses` and `CompareStatus` for the three
kinds of status, `WriteSample`, `ListUnresolved`, `Resolve`, `AnnounceRecovered`,
`RefreshCounts`, `CheckDrift`. Beside it run the queue sampler, alerting (which
logs under the run's id), workers that beat, drain and stop in any order, and
requests that activate the policy file. Time is the age of the newest observation
of each kind; ages stop beyond the last threshold. A behaviour is about one part of
the world, its `focus`: the stages that would find nothing are passed over, and the
run checks every focus. `told`, `driftTold`, `driftEvents`, `pairs` and `lostSaid`
record events and are no part of the code.

**PIIText, TaskIntake.** A text is a sequence of cells with an identity, so that
what of it survives can be told; a detector finds the maximal runs of its
character classes; a rewritten stretch is made of `Star`. `Detect` is detectors,
rules, ignoring and `ResolveOverlaps`, `ApplyTransformations` splices from the back,
with Go's slice bounds and panics. A request is `Lookup` (of its key) or `Rerun`,
`ScanPayload`, then a record and a vault entry for each finding, the rewriting, the
same for the name, and the insert; the client may hang up, which makes the
statements that follow fail. `MCIntake` lists scenarios: all texts and rules with a
single request and its run, small texts with requests that race, retry and rerun.

## Runs

Twelve runs, all of which pass. Where a property is a conjunction its parts are in
brackets; the parts are definitions of the module with a comment of their own.

| run | properties | instance | what it shows |
|---|---|---|---|
| `delivery_crash` | RunBacked, OneUnfinishedAttempt, AcksSound (AckAfterTerminal, DeliveriesSettle), FollowsLifecycle, RunsFinish | one process, one run and its retry child, 3 attempts, 3 messages, 2 starts, one Redis outage, prompt handlers | a crash at any point and an outage lose no run, give it no second unfinished attempt and follow the life cycle; every run ends and every delivery is acknowledged, not before its run has ended |
| `delivery_faults` | CompletedHasSuccess, CapacityReleased, AbandonOnlyDead | one run, one failed statement, a drain, a crash between XADD and the `published_at` update, a handler slower than the reclaim threshold | a Completed run has its own Succeeded attempt, the capacity slot comes back, only a dead owner's attempt is abandoned |
| `delivery_lossy` | TypeOK, TerminalIsFinal | one run, no group at the start, a Redis wipe, a foreign stream entry, heartbeats that lapse | a malformed delivery is never processed; a terminal run stays so while handlers are prompt |
| `projection_recovery` | ReplayAgrees, ReducedInAnyOrder, CaughtUp (TypeOK, CountCatchesUp, FinishedIsProjected), TerminalProjectionFinal | a recovery beside an owner that may live on, whose clock is 4 ahead, both outcomes, one failed write | without a recovery or a contradiction the projection is what a replay computes; counts, times and contradictions do not depend on the order of arrival; a finished run is finished in its projection, which is not reopened |
| `projection_rebuild` | RebuildRepairs | the same with the rebuild command | repeating the command repairs whatever lost writes and races did |
| `schedules_fire` | OccurrenceOnce (AnnouncedOnce, OneRunPerOccurrence), SkipsExact (SkippedNeverRuns, OccurrencesSpaced) | two schedulers, interval 2, clock to 8, one crash, one fault, at most 2 skip events | an occurrence is announced and run at most once, none is both run and skipped |
| `schedules_toggle` | LedgerComplete (TypeOK, CreatedHasRun, NoSilentGap until a toggle begins), OutcomeIsFinal, DueIsCreated | two schedulers, clock to 6, one toggle | a due occurrence gets its run, until the toggle a late fire leaves no gap up to the cap on skip events, the ledger never takes an outcome back |
| `live_pages` | StreamExact (TypeOK, NoUnheardFact, SentOnce, OnlyAuthorised), LimiterExact, ScreenCurrent, StreamSettles | four kinds of page, 2 connections, limit 1 per key, 3 events, one drop, buffer 1, replay cap 2, margin 2; any replay query may fail | no subscribed connection repeats or reveals a fact or misses one, a failed replay excepted, which costs it what was over before it subscribed; a live page with nothing under way shows everything that concerns it, but, on its first stream, for what a failed replay cost it (`Lost`); cut, refused, told to resync or served a failed replay, the client ends up live with nothing left to do |
| `alerts_sweep` | AlertRowsSound (TypeOK, OneOpenPerCause, SendsBounded), AlertsFollowCauses (FiringIsOpen, ClearedIsResolved), NotificationsEnd | one sweeper, an annotation and a metric of which one is observed at a time, 3 changes, one acknowledgement or reload, one crash or failed statement, 2 attempts, one channel | a cause has one unresolved alert, keeps it while it fires, loses it when it is gone; every notification ends sent or given up, after a bounded number of sends |
| `watch_edits` | CreatedOnce, LateIsAnnounced, EventsAccurate (TypeOK, FlagIsTold, UpdatesBounded), SnapshotsConverge | two schedulers, one schedule, 2 hashes, 2 edits, one crash or failed statement | a creation is announced once and, after the seeding, never missed; enabled and disabled tell the stored flag; an edit is announced a bounded number of times; the snapshots come to equal the definitions |
| `monitoring_sweep` | SaidOnce (TypeOK, OneOpenEach, MissedThenRecovered, DriftSaidOnce), ViewsAgree, WrongIsReported (SilentIsReported, LateIsReported), EndedIsCleared, ChangesArrive (ChangesAreTold, DriftIsTold) | ten foci, 3 changes of the world, one restart or failed statement, two lives of a worker, two requests, two checksums | a cause has one open annotation, missed and recovered come in turn, the views of a worker agree, what stays wrong is reported, what ended is cleared, a change of status or of the policy file is announced |
| `intake` | KeyHonoured (OneTaskPerKey, RetryGetsOriginal), EvidenceSound (TypeOK, EvidenceComplete, and EvidenceTold: IndicesDistinct, StatusCoversBoth), TextRewritten (StoredIsSubstituted, EachStringRewritten), ArtifactSafe | 8 documents, 4 names, 19 policies one at a time; two requests with a key, with and without a rerun; a rerun; 2 failed statements, hang-ups or crashes; outputs cut at 3 cells | a key stands for one task, a task that may run has its evidence, the stored text is the original with the values replaced, an output that could not be scanned is not stored |

Why the bounds are enough to be interesting. *Delivery*: two starts give one
crash at every program point with a restarted instance after it, three attempts
and three messages allow the original, a recovered and a duplicate delivery, and
one retry reaches the lineage. *Projection*: the clock bound of 14 lets every
writer of the run finish, and an offset of 4 puts a whole attempt before or after
the other's. *Schedules*: the clock covers four intervals, so a late scheduler
skips more occurrences than the cap announces. *Live*: a buffer of one overflows
on the second event, a third event after the resync tells whether the cursor
was right (in the page of facts and in the unnarrowed one; the samples page and the one
that hears of nothing but the summary show what is dropped instead), and a limit of one with two connections meets the late release of a
connection that was cut. *Alerts*: three changes let a metric fire, clear and fire
again, so that an alert is resolved by samples that are no longer true; two
attempts give one retry. *Watch*: two edits take a definition there and back between
another scheduler's two reads. *Monitoring*: the ages step over every threshold,
and three changes let a cause come, go and come again. *Intake*: texts of up to
seven cells hold two findings that overlap, touch or are apart, and marks both
shorter and longer than what they replace. `delivery_crash` is checked with prompt handlers and the XADD and
its mark joined, because without these the properties do not hold; see
[known limits](#known-limits). TLC checks deadlock in the
delivery, live, alerts and watch runs; the projection, schedule, monitoring and
intake runs stop at a bound or when their requests are answered.

## Fairness

* `Delivery!Fairness`: weak fairness of every loop's next statement, of `Start`
  (a supervisor restarts the process), of `RedisUp`, and of the handler's return.
  Strong fairness of `XAutoClaim` with all idle messages, of `PublishDueTasks`
  with all due rows and `FindStranded` with all stranded rows: the loops come
  back every few seconds, and a message that stays pending does become older than
  the threshold, also when the poll sees it young again and again. The bound on
  starts makes crashes finite; with crashes for ever nothing would finish.
* `RunProjection!FairSpec`: the rebuild command is run again and again. The live
  writers get no fairness, they may stop anywhere.
* `Schedules!FairSpec`: a scheduler's next step and its restart. The clock
  gets none.
* `LiveFeed!FairSpec`: weak fairness of `Progress`, the union of the steps of
  server, page and clock: something that can happen does. A replay may fail each time. New events, drops and
  fallback polls are not forced. `Tick` waits in the guards for what is quicker
  than a period when `Calm` holds.

* `Alerts!FairSpec`: weak fairness of a sweeper's next step (the loop runs every
  20 s), of its restart, of the save of an acknowledgement (a request is answered)
  and of the end of the retry delay. Causes and API calls are not forced.
* `ScheduleWatch!FairSpec`: weak fairness of each scheduler's pass (it runs once per
  poll); the bound on troubles makes crashes finite.
* `Monitoring!FairSpec`: weak fairness of the sweep's and the queue sampler's next
  statement (both are ticker loops), of the clock, and of the alerts sweep resolving
  an alert. The world need not change.
* `TaskIntake` has none: its properties are invariants.

## Proofs

All theorems hold for every value of the constants that the named assumptions
admit (`BoundsAssumption`, `BudgetAssumption`, `EnvironmentAssumption`,
`ProjectionAssumption`, `ScheduleAssumption`, `LiveAssumption`, `AlertsAssumption`,
`WatchAssumption`, `VerdictsAssumption`, `MonitoringAssumption`, `IntakeAssumption`: bounds
are natural numbers, budgets are functions into them, an interval, a buffer and a
connection limit are positive, thresholds are in the order of the source's; a payload and
an output are documents of a caller's cells, and an output's cells are told apart by their
places), and the hypothesis in a theorem's row.

| theorem | says | inductive invariant |
|---|---|---|
| `DeliveryProofs!TypeCorrect` | `Spec => []TypeOK` | `TypeInv == TypeOK /\ Fresh`: ids not yet handed out are unused. Without `Fresh` a new stream entry could change the run named by one a thread holds. |
| `DeliveryProofs!CapacitySound` | `Spec => []CapacityReleased` | adds `LiveThreads` (threads of a process that is down are off) and, per thread, that the slot is held exactly at the points of `ProcessTask` that follow the claim |
| `DeliveryProofs!AbandonSound` | `Spec => AbandonOnlyDead` with one instance whose heartbeats do not lapse | `Inv`, below |
| `DeliveryProofs!CompletedSound` | `Spec => []CompletedHasSuccess`, same assumptions | `Inv` and the property |
| `DeliveryProofs!OneUnfinishedSound` | `Calm`: `Spec => []OneUnfinishedAttempt` | `ExInv`, below |
| `DeliveryProofs!RunBackedSound` | `Calm`: `Spec => []RunBacked` | `ExInv` |
| `DeliveryProofs!TerminalSound` | `Calm`: `Spec => TerminalIsFinal` | `ExInv` |
| `DeliveryProofs!AckSound` | `Calm`: `Spec => AckAfterTerminal` | `ExInv` |
| `DeliveryProofs!LifecycleSound` | `Calm`: `Spec => FollowsLifecycle`, the refinement of `RunLifecycle` | `ExInv`: initial states map to initial states, every step to a step or a stutter (`RunStep`) |
| `RunProjectionProofs!ReduceCommutes` | two events that are neither recoveries nor contradicting terminal facts reduce to the same projection in both orders | none, a fact about the reducer |
| `RunProjectionProofs!ProjectionNeverReopens` | `Spec => TerminalProjectionFinal` without a rebuild | `LiveInv`: types, and an event about to be projected is a recorded one |
| `RunProjectionProofs!ReducedInAnyOrderSound` | `Spec => []ReducedInAnyOrder` without a rebuild | `OrderInv`, below |
| `RunProjectionProofs!CaughtUpSound` | `Spec => []CaughtUp` without a rebuild, when `task.retry_scheduled` is no outcome | `CatchInv`, below |
| `RunProjectionProofs!ReplayAgreesSound` | `Spec => []ReplayAgrees` without a rebuild | `ReplayInv`, below |
| `SchedulesProofs!OccurrenceOnceSound` | `Spec => []OccurrenceOnce` when no toggle writes the row | `ClaimInv`, below |
| `SchedulesProofs!SkipsSound` | `Spec => []SkipsExact` when no toggle writes the row | `LedgerInv`, below |
| `SchedulesProofs!LedgerSound` | `Spec => []LedgerComplete` without crashes and failed statements, with any number of toggles | `GapInv` until the first toggle, `RunsBehind` for ever, below |
| `SchedulesProofs!OutcomeFinalSound` | `Spec => OutcomeIsFinal` | types only; the argument is `Reduced` itself, met in every order |
| `ScheduleWatchProofs!TypesKept` | `Spec => []TypeOK` | `TypeOK` |
| `ScheduleWatchProofs!CreatedOnceSound` | `Spec => []CreatedOnce` | `CreateInv`, below |
| `ScheduleWatchProofs!LateAnnouncedSound` | `Spec => []LateIsAnnounced` | `LateInv`, below |
| `ScheduleWatchProofs!FlagToldSound` | `Spec => []FlagIsTold`, a part of `EventsAccurate` | `FlagInv`, below |
| `ScheduleWatchProofs!EventsAccurateSound` | `Spec => []EventsAccurate` for a finite, non-empty set of schedulers | `FlagInv`, and `UpdateInv`, below |
| `LiveFeedProofs!LimiterHolds` | `Spec => []LimiterExact` | types (`TypeInv`) and the property |
| `LiveFeedProofs!StreamHolds` | `Spec => []StreamExact`, also when replay queries fail | `ConnInv`, below |
| `LiveFeedProofs!ScreenHolds` | `Calm`, `OneChain`: `Spec => []ScreenCurrent`, also when replay queries fail | `ConnInv /\ PageInv`, below |
| `AlertsProofs!AlertsSound` | `OneSweeper`: `Spec => []AlertRowsSound` | `AlertInv /\ NotesInv`, below |
| `MonitoringProofs!SaidOnceHolds` | `Spec => []SaidOnce` | `IInv`, below |
| `MonitoringProofs!ViewsHold` | `Spec => []ViewsAgree` | `IInv` |
| `TaskIntakeProofs!KeySound` | `Spec => []KeyHonoured` | `KeyInv`, below |
| `TaskIntakeProofs!EvidenceToldSound` | `Spec => []EvidenceTold`, a part of `EvidenceSound` | `RecordsInv /\ StatusInv`, below |
| `TaskIntakeProofs!EvidenceIsSound` | `Spec => []EvidenceSound` | `EvidenceInv`, with the two above and `ArtifactInv`, below |
| `TaskIntakeProofs!ArtifactSound` | `Spec => []ArtifactSafe` | `ArtifactInv`, below |
| `TaskIntakeProofs!ScanConceals` | a document that is scanned and rewritten shows no cell of a value to be redacted or to block, for every document and policy, if no findings overlap | none, a fact about `PIIText` |
| `TaskIntakeProofs!TextSound` | `OwnPaths(scenario.doc)`: `Spec => []TextRewritten` | `WrittenInv /\ EvidenceInv /\ StatusInv`, below |
| `TaskIntakeProofs!SplicesSubstitute` | splicing a text from the back replaces each finding where it stands, for every text and every findings in it that do not overlap | none, a fact about `PIIText` |

`Inv == TypeInv /\ OwnerInv /\ BeatsFresh /\ LiveThreads`. The argument: recovery
abandons an attempt when its owner's instance started before the latest start or
its heartbeat is old. `AttemptsInOrder` says attempts carry the start they were
claimed in, never a later one; `OwnersDistinct` that no two threads own one
attempt; `CopyCurrent` that an owner's copy `la` is what the row says, so that its
`Save` undoes nothing; `EvidenceSound` that what recovery has read about an
attempt is still true when it acts. `BeatsFresh` excludes the second kind of
evidence while a process is up. Then nothing takes a Succeeded attempt away, and
`ConfirmSuccess`, which reads the row again before the run is Completed, suffices
for `CompletedHasSuccess`. `OneInstance` is needed: a second process raises
`starts`, and a living owner then looks replaced.

`Calm` is what the code does not survive, left out: a second process, a handler
slower than the reclaim threshold, a missing group, a crash between XADD and its
mark, a drain, a failed statement, a wiped Redis. Each of them breaks one of the
five properties (see [disagreements](#disagreements) and [known limits](#known-limits)).
What remains may happen as often as it likes: crashes at every statement, restarts,
outages of Redis, foreign stream entries, heartbeats that lapse. `delivery_crash`
satisfies `Calm`. `ExInv` says that work is exclusive and copies are true. A run has
one message (`OneMessage`), a message one holder, a consumer or the reclaimer's batch
(`HeldOnce`); a message is done only with its run and before its first delivery the
run has no attempt (`Backed`); what is marked published, or has run, has a message
(`Announced`, `AttemptsSent`); the scheduler's list of due rows is what the rows still
say (`ListsCurrent`), which is why its whole-row `Save` undoes nothing; a parent is
Failed (`ChildrenOfFailed`). Per point of the handler, `KnowsRun` and `KnowsAttempts`
say what its copies `row`, `la` and `unf` have in common with the stored rows, and
that the run has no unfinished attempt but its own. None of these is inductive
alone: `OneUnfinishedAttempt` needs that nobody else handles the delivery, that needs
`HeldOnce`, and `HeldOnce` survives the stranded sweep only because `ListsCurrent`
keeps it from sending a second message.

`OrderInv` for the projection is the promise of `ReducedInAnyOrder` said of the events
applied so far and without naming an order (`Summary`): each time is zero or the
least of those that stamp it (`FirstTime`), the status is terminal when an applied
event is (`EndShown`), and a note is there exactly when an applied event contradicts
the status that was kept (`ClashNoted`). `SummaryStep` proves it of one
`ReduceRun`, for every projection and event, so that a recovery or a contradiction
needs no exception. `CatchInv` follows what is on its way: while nothing has failed, an
attempt the projection has not counted belongs to a mark whose event is still to be
recorded or projected (`CountOwed`), and so does an end it does not show (`EndOwed`).
It needs that a consumer works only on a run whose row is there (`Begun`), since
`LogEventWith` skips the projection of a run without one. A crash counts as a
failure, and both hold until the first.

`ReplayInv` compares the live projection, a history of single applications in any
order, with the replay, a fold over the log in event order. Neither is followed
through the other: `Describes(p, A)` says of a projection `p` and a set of events `A`
what `p` must be, each time the least or greatest of those that stamp it, the status
the highest ranked that any asserts, and two projections that describe the same set
are equal (`DescribedOnce`). `DescribesStep` shows it of one more event of a plain
set (no recovery, no contradiction), in any order. The replay is a function recursive
over the subsets of the log. That one exists is no matter of course to the prover:
it follows from the description of each subset, and that it describes every subset
from a least counterexample in the number of events, which stands in for the
induction the provers lack. It needs that the log is finite and that its events have
distinct sequence numbers (`LogNumbered`), so that `EventLess` orders them and a newest exists.

`ClaimInv` for the schedules: `ClaimedBehind` (an instance that fires holds an
occurrence before `next_run_at`), `FiresDistinct` (no two fire the same one),
`PastOnly` and `Fresh` (nothing is announced or created at or after
`next_run_at`, and nothing created for an occurrence whose fire has not
come to it). Each conditional claim then names an occurrence nobody has touched.

`LedgerInv` adds how the fires divide time. A claim moves `next_run_at` from the
occurrence it names past the moment it fires; the stretches of two fires are disjoint
and all of them behind `next_run_at` (`Stretches`), the ledger tells of nothing in
the last interval before it (`RecordedBehind`), and inside its own stretch a fire
finds only what it recorded itself (`OwnStretch`). The occurrences
`skippedOccurrences` names lie inside the stretch, a whole number of intervals from
the one that runs; the lemmas on `DivBounds` and `Named` give the provers the
arithmetic. `GapInv` follows the far end of each stretch: the moment `next_run_at` was
moved to is the next one, is being fired, or is recorded (`Covered`), so between two
neighbours of the ledger nothing is missing unless the cap on skip events was
reached. It needs that nobody crashes between claim and announcement, and that no
toggle puts a moment in between; `CreatedHasRun` needs neither of the ledger's
positions and holds through toggles (`RunsBehind`).

`CreateInv` for the schedule watch: a scheduler owes at most one announcement and
only right after its write (`AtMostOneOwed`), no two owe the creation of one schedule
(`OneOwner`), one that is owed has not been made and its snapshot is there
(`OwedIsNew`), and one that was made was made once, of a schedule with a snapshot
(`SaidIsStored`). Snapshots are never taken away, so the unique index admits one
insert. `LateInv` adds that what a pass has read exists (`ReadExists`), that a pass
which found no marker plans to seed no late schedule (`SeedsAreEarly`: it read the
definitions before the marker, and a schedule is late only if it was created with
the marker there), and that the creations neither announced nor owed are no more
than the troubles so far (`LossesCounted`).

`FlagInv` says that a planned change of the flag found the other value stored
(`FlagChange`), and that the stored flag and the announcements logged or owed move
together, at most one step apart per trouble (`Balanced`).

`UpdateInv` bounds `schedule.updated`. Number the hashes a definition has had 0 to
`edited[s]`; every copy a pass holds is one of these versions (`Accounted`). An update
takes the snapshot from one version to another, hence over at least one edit, so it is
enough to bound `x[k]`, how often the snapshot has crossed edit `k + 1`. Backwards over
it only a scheduler goes that read before the edit, once, for its next pass reads anew;
forwards only one that read after it. So `x[k]` and twice the schedulers still `Behind`
the edit stay within `2N - 1` while the snapshot is past it, and while it is not either
nobody has crossed it or they stay within `2N - 2` (`Room`). The crossings are counted
as a set of pairs, since a sum would need induction. With one scheduler the bound is
the "once" of the source's comment (`schedule_watch.go:109-111`); with more that does
not hold, and the bound says by how much.

`ConnInv` for the live feed is about one connection at a time. What was written to it
was due to it and is published, or was found by the replay (`Given`); the buffer holds
matching, published events once each (`Held`, `Single`) and, but for those the replay
had, none that was written (`Apart`, `Replayed`); and everything due that was published
above the cursor and is not `unreplayed` is written or buffered, as long as the channel
is open and no resync was announced (`Heard`). `Heard` is inductive because the handler
subscribes before it queries: what is published between the two is in the buffer even
when the query fails, and what is `unreplayed` the query finds when it does not.

`PageInv` follows a change from the log to the screen. `Window` are the ids of the
current tick: whatever is not projected is among them and a coalescing window still
open was opened by one of them (`WindowInv`, `SourceInv`), which is what the
hypothesis `Calm` is for. A client that never got through has a cursor below
whatever its data does not show (`NeverInv`, by `LowWatermark`); one that did holds, for
every change the page misses, an event of the same key that it has yet to read and
will accept (`ShownInv`, and `RecentInv` for the changes that will be coalesced), a
reload that is due, a stream it will give up (`Away`), or, on the first stream it gets, an event of
that key which a replay that failed did not bring (`Missed`). A page that was LIVE before is
`Away` until it reloads on reconnecting, which makes a failed replay harmless to it;
`FirstInv` says that what is unreplayed is projected and above the cursor, and that
nothing was read before the first replay. What it refuses as stale or seen
was handled, by a reload or by one that waits (`HandledInv`). `Modes` and `SeenInv` say
what the client's phase has in common with the page and the connection. The second
hypothesis, `OneChain`, was found by the proof: see [known limits](#known-limits).

`AlertInv` for the alerts is about `Live(c)`, the alerts of a cause that are
unresolved or that an acknowledgement under way can bring back: there are no more
than one and the failed statements so far (`LiveBounded`), and where one is about to
be created at most the failed statements (`RoomToCreate`). Counting the unresolved
alone is not inductive, since `Acknowledge` saves its copy over a resolution.
`HeldUnresolved` says that while alerts are opened the API holds no copy of a
resolved alert, which is what `PromptApi` is for: no request outlasts the time from
the start of a sweep's resolving passes into the next sweep. `Lists` and `Writes` say
what the sweep's own copies still have in common with the rows. `NotesInv` says who
pays for a send: a stored row's attempts and the troubles so far (`Settled`), and
for the notification in hand one attempt more until `Send` uses it (`InFlight`,
`Ahead`); a crash or a failed save takes the row in hand away and counts as the
trouble that pays. `OneSweeper` is what `main.go` gives a single process; with two,
both find no alert and both open one (see [known limits](#known-limits)).

`IInv` for the monitoring says where a sweep stands (`Stands`) and that what a resolver
has left to resolve is unresolved (`LeftIsOpen`), since nobody else resolves. On the way to
an insert no annotation was found or the look-up that failed was counted
(`OneMoreAtMost`); an announcement of a missed or recovered schedule that is under way
counts as made, so that the gap between events and annotations is what failed
(`GapIsTrouble`). For `DriftSaidOnce` an announcement is *owed* while the sweep would
report a drift, and while a request has loaded a policy and not stored it: every
change of the world, or a crash, raises what is owed by one and every announcement lowers it
(`DriftIsPaid`). `ViewsAgree` needs that a recorded stop is no older than the last heartbeat
of the life it ends, also for a heartbeat on its way when the process stopped
(`StopEndsBeats`).

`KeyInv` for the intake: a row is its request's own and was stored as that request
was answered (`Stored`); an answer names the request's own job or a row with the key
(`Replied`); rows with the key are one (`OneKey`). A retry that finds the key unused
could only be wrong if the task named by an earlier answer were stored later;
`FirstWins` says that it is not, since the request that would store it has ended.
The statement of `RetryGetsOriginal` had to be made precise for this: it is about
answers to requests with the key, not to reruns, which have none. `RecordsInv` says
that no record of a job is ahead of its request's counters, which the scan of the
name continues; `StatusInv` what the status of a request says at each of its points.
Neither looks into `PIIText`: these theorems hold whatever a scan finds.

`EvidenceInv` says, per request, what is on record at each of its points (`Recorded`: every
item it is past, as long as none was lost; all of the payload's once its scan is over and
nothing blocked) and what it still owes the vault (`Owing`: the records without an
entry, but for the one in hand (`Pending`), are no more than the troubles so far, for a
request that is neither blocked nor cut off). A lost statement is remembered in
`lost`, a hang-up in `hungUp` (the insert then fails), and both keep the row from
running; only the failed encryption leaves no trace but its trouble. It rests on
`ReqTyped`: payload, name and findings stay what the operators of `PIIText` return, which
is where their lemmas come in. `RewriteTyped` and `ApplyTyped` say that a rewriting
of a document is a document or a panic.

`ArtifactInv` says that an artifact is its output's cut, and that what the scan left of the
output is `Concealed`: it holds no cell of a value to hide. That is `ScanConceals`, and
its argument goes from the detectors to the splices. What `Detect` finds lies inside the
string it was found in (`DetectFinds`); what does not overlap survives
`ResolveOverlaps` and is applied to its own string (`ResolvedApart`, `LeafRewritten`). The
splices go from the back, so the invariant of the loop, `Hides`, is said of a place `m`
in the text: up to `m` the text is untouched as long as every splice so far began
behind it, and each cell behind `m` is a star, a cell a mask kept, or a cell that none of
the findings spliced so far covers (`BackTo`, `Left`). At the end a cell of a hidden
value could only be one at another place, and a caller's cells are told apart (`Told`). A
fold is not unfolded by the provers; `FoldThere` gives it as a function on the subsets of
the set folded over, and every lemma about a loop is an induction along that function.

`WrittenInv` says that what a request found are stretches of the text it scanned, for a JSON
document exactly what `Evaluate` returns of it; that the text it works on is that text
until it is rewritten, and the rewritten or the withheld one from then on; and that a row
holds its request's document. `TextRewritten` then is about operators only.
`ApplySubstitutes` proves one half: a text with some of its findings replaced where they stand is
a concatenation of pieces, one per place (`Filled`), and one more finding in front of those
is one more splice (`FilledMore`), because what is spliced ahead of a text leaves its end as it
was (`SpliceAppend`). What is spliced into a string are the findings of its path
(`LeafSubstituted`), in any order (`SubstitutedSame`). The other half is that a finding at no
other's place survives the resolution of the whole document's findings (`Survives`,
`AloneFound`), is spliced into its string and nothing else is (`SplicedAlone`), and is not
replaced by itself if it has a letter or a digit, whatever the mask (`ReplacementChanges`,
`SpliceChanges`). `OwnPaths` is the condition: no two strings of the payload share a path,
and no string beside others has the empty one. `jsonChildPath` escapes what would make two paths
one, except for an empty key at the top, which gives what is below it the path it would have
without that key: `{"": {"a": ...}, "a": ...}`. Reruns keep the condition, since a rewriting
keeps the paths (`RewriteKeeps`). Without it, `ScanConceals` still says that the values are hidden.

Only model-checked: liveness under fairness (`RunsFinish`, `DeliveriesSettle`,
`RebuildRepairs`, `DueIsCreated`, `StreamSettles`, `SnapshotsConverge`, the temporal
properties of `Alerts` and `Monitoring`). Every invariant a run checks is a theorem.

## Disagreements

Where a comment of the code and the model of the code disagree. Each is an
invariant or a property of a module that TLC refutes when it is put into the
named configuration in place of the others, with the constants given.

* **`TerminalIsFinal`** in `delivery_crash` with `SlowPoints <- SlowHandler`.
  `worker.go:95` says terminal run states must not silently transition back. A
  handler outlasts the 120 s reclaim threshold; the reclaimer loads the task after the
  owner finished the attempt and before it finished the run, passes both guards, and
  `MarkRunRunning` (`worker.go:130`) saves its copy over the terminal status.
* **`RunBacked`** in `delivery_crash` with `MayDrain = TRUE`, `MaxStarts = 3`.
  `recovery.go:16-18` says a message is left pending when the facts could not be
  read. `recovery.go:29` returns true on any error of its first SELECT, a cancelled
  context included; the dead worker's attempt then passes for a duplicate, the
  delivery is acknowledged, the run is Running for ever.
* **`AnnouncedOnce`** in `schedules_toggle`. `scheduler.go:214` says each occurrence
  is announced once. `ToggleSchedule` (`task_handler.go:516`) saves the whole row it
  read, `next_run_at` included; a claim in between is undone and the occurrence is
  announced and run again. The same save can put `next_run_at` between two moments of
  the ledger, which is then no longer without gaps: `LedgerComplete` asks for
  `NoSilentGap` until a toggle begins (with an interval of 1 and `MaxSkipped = 1` TLC
  finds the gap).
* **`EachChangeOnce`** in `watch_edits`. `schedule_watch.go:109-111` says two
  instances never announce the same change twice. One that read the definition
  before an edit and the snapshot after another announced it takes the snapshot
  back, and the edit is announced again. `UpdatesBounded` says how often.
* **`LostSaidOnce`** in `monitoring_sweep`. The comment at `monitoring.go:308-313`
  says a run that stays lost produces one event. The events logged under the run's
  id make it look alive, its annotation is resolved, and it is lost anew.
* **`ReplyHasTask`** in `intake` with `Scenarios <- RaceOnly`, `MaxTroubles = 0`.
  `create.go:23-27` says a retry gets the task that was created the first time. Of
  two requests that both found no task the second's insert fails on the unique
  index, the error is dropped (`create.go:222`), and the caller gets the id of a job
  without a row, with its `task.created` event.
* **`RecordedIsHidden`** in `intake` with `Scenarios <- Overlapping`,
  `MaxTroubles = 0`. `create.go:139` says no downstream system ever sees the raw
  value. `ResolveOverlaps` (`pii_overlap.go:29-50`) compares a finding with the
  first kept one it overlaps only, so that two kept findings may overlap; spliced at
  offsets that no longer hold, they leave part of a value or cut what follows it.

## Known limits

Where a property needs an assumption that the code does not give it, the passing
run states it through a constant, named below, whose change shows the behaviour; or
the property itself excludes the case (`Lost`, the failed statements that
`OneOpenPerCause` counts); or the model has no step for it, which the entry
says or [Abstractions](#abstractions) lists.

Delivery:
* `HeartbeatsMayLapse = TRUE` in `delivery_faults`: a process that could not write
  its heartbeat for 30 s looks dead while it works; `AbandonOnlyDead` and
  `CompletedHasSuccess` fail. A second element of `Procs` does the same through
  the shared worker ids and `starts`. A drain may take 40 s, longer than the window.
* `AtomicPublish = FALSE` in `delivery_crash`: a crash between XADD and
  `published_at` publishes twice. Of the two deliveries one may be acknowledged as
  a duplicate of the other's attempt and the run is no longer backed; two
  deliveries of a retryable failure may both create a child.
* `Budget <- OneDbFault` in `delivery_crash`: a failed SELECT of the task makes
  `ProcessTask` return, and its caller acknowledges; `AckAfterTerminal` fails.
* A crash between `MarkRunRetryableFailure` and the `Create` of the retry child
  (`worker.go:198`) leaves the parent Failed and no child; `FollowsLifecycle` and
  `RunsFinish` hold all the same. The duplicate check and the claim (`worker.go:101`) are
  two statements, between which a second delivery handled at the same time can pass;
  with the prompt handlers of `delivery_crash` none is.
* A group created after the first message starts at `$`: what was published
  before is never delivered. `delivery_lossy` therefore checks safety only.

Projection:
* `Outcomes = {"task.retry_scheduled"}` in `projection_recovery`:
  `MarkRunRetryableFailure` (`marker_cmd.go:101`) makes the row Failed and logs only
  `task.retry_scheduled`, which asserts no status. The projection stays Running,
  although `run_projection.go:14` calls it authoritative; `FinishedIsProjected` fails.
* With a recovery and a clock that is ahead, the live projection and a replay in
  the order of event times differ; `ReplayAgrees` excludes exactly that.
* `RebuildSave` writes over an event projected since its read; the next rebuild
  repairs it. A rebuild of an empty log takes its status from the row.

Schedules:
* With `MaxFaults = 1`, `CreatedHasRun` fails: the run's insert returns an error
  that `taskservice` does not report, and the ledger says CREATED.
* A crash between the claim and the creation loses the occurrence, as the order of
  the two intends.

Schedule watch:
* A crash or a failed insert of the event after the snapshot's write loses the
  announcement (`LateIsAnnounced` and `FlagIsTold` count it).

Monitoring:
* The event-ingestion subsystem is judged by the newest event, and announcing that it
  is degraded logs one (`monitoring_health_transitions.go:61-65`): it flaps.
* Alerting's events under the run's id reset the silence `RUN_STUCK` is judged by
  (`monitoring_queries.go:28-32`); `SilentIsReported` therefore says again and again,
  not for good. A heartbeat that moves to and fro around the thresholds can escape
  both the stuck and the lost check, which is why it is one or the other in the premise.
* The number of checks that failed starts anew with each sweep.
* A failed count of attempts reads as 0 and resolves a duplicate; an error of an
  annotation's look-up counts as none; `schedule.recovered` is logged also when the
  annotation's save failed; a SCHEDULE_MISSED of a schedule that was switched off is
  never resolved; an unreadable policy file makes the sweep forget what it announced.
* The memory of what was announced is lost at a restart: `ChangesArrive` excludes it.
* Two overlapping activations may leave an activation row that is not the active
  policy. The component report calls a subsystem degraded after 60 s, the sweep after
  2 minutes. `component.offline` is not corrected when a drain outlasts 5 minutes.

Intake:
* A detector whose pattern does not compile makes the scan SCAN_ERROR, and the task
  runs all the same. A panic in the scan of the name withholds the name and forgets
  that evidence was lost, without blocking. A failed encryption leaves a record
  without a vault entry.
* Action types in lower case pass validation and act as OBSERVE.
* The status a caller sends is not cleared before the insert.

Live feed:
* `Calm = FALSE`: when more than `watermarkSafetyMargin` events are under way at
  once, or a `LogEvent` takes longer than the debounce, a reload may precede the
  projection of an event the client already counts as seen; `ScreenCurrent` fails.
* `OneChain`: the key of the coalescing is the type and the subject (`priority.go:116`), the
  chain is not part of it, while a page may be about a chain. Two events of one type
  and subject on different chains within the window would leave the second chain's page
  unchanged; a run's chain never changes, but an event whose run could not be read
  is logged without one. `ScreenHolds` assumes that equal keys have equal chains.
* A page that subscribes to `platform.summary` and nothing else (`OverviewPage` of
  `MCLive`, the dashboard's Overview) gets neither a replay nor a summary on its
  first connection for what happened between its snapshot and its subscription,
  although `live_handler.go:210` and `summary.go:13-14` intend one.
* A replay query that fails is only printed (`live_handler.go:195-196`): the connection
  gets no resync and never hears what was logged before it subscribed. `ReplayFails` may
  happen at any subscription. `NoUnheardFact` excludes what is `unreplayed`, and
  `ScreenCurrent` what is `Lost`: a page that was LIVE before reloads on reconnecting, but on
  its first stream nothing tells it, and the gap stays until a later event or a poll.
  Taking either exclusion away makes `live_pages` fail.
* The replay does not apply the `?subject=` narrowing that the stream applies
  (`live_handler.go:131-140` against `157-205`).
* `priority.go:95` argues that suppressing the first of two facts is lossless; the
  code suppresses the second. Nothing is lost only because the debounce is
  longer than the window.

Alerts:
* `PromptApi = FALSE`: an acknowledgement read before a sweep and saved after it
  brings a resolved alert back beside the one opened since. Two elements of
  `Sweepers` (two processes) both find no alert and both open one; nothing in the
  table forbids it. `OneOpenPerCause` fails either way.
* The reverse: a sweep's save of a severity or of a resolution, from a copy read
  before an acknowledgement, takes the acknowledgement away. No property is about it.
* The look-up for an existing alert takes any error for "none" (`alerts.go:89`,
  `205`), so `OneOpenPerCause` allows one more alert for every failed statement.
* A failed SELECT of the alert uses up all attempts of its notification
  (`notify.go:217-220`, whose comment has only the missing alert in mind).
* A crash between an alert's insert and `createNotifications`, and a severity raised
  to WARNING after the alert was opened as INFO, leave it without a notification.
* A metric's alert is resolved by a sample only: when its rule is switched off or
  its subject is no longer measured it stays; `ClearedIsResolved` excludes both.

## Abstractions

* Delivery: the reads `prepareRecovery` makes about owners are one step
  (`PlanRecovery`). A handler's outcome is nondeterministic, for a retry child
  too (whose task type the code resets). Events and artifact scans are left to
  other modules. The answer of an XREADGROUP lost by a drain is not modelled.
* Projection: `attempt.heartbeat` is recorded and not projected; the rebuild reads
  log and attempt count in one step; correlation fields, rate limiting and the
  counts of annotations, alerts and PII findings are left out.
* Schedules: one definition, time in poll-sized units, a positive interval; event
  writes do not fail; the ledger's latenesses, its per-schedule summary and its
  rebuild are left out.
* Live feed: projecting and publishing are one step; the summary timer is tracked
  only for pages that listen; a refused connection (429) is dialled again; the
  `/live/alerts` prefix, server shutdown, the caps of the client's `seen` set and
  stale guard, a failed first snapshot and the self-monitoring counters are left
  out. In the run no page asks for the summary beside events, so that the summary frame
  after a replay is in the model and the proofs and not in the run. `RESUME_OVERLAP` is 0 in the run, the strictest value for `NoUnheardFact`.

* Alerts: the events that are logged, `notificationBatchLimit` and the severity
  CRITICAL (treated as WARNING is) are left out. A cause stands for one annotation,
  or for one rule, subject and metric; that a rule's scope and condition match is
  part of "firing". The samples of all metrics are read at once in a pass. The
  notifications of an alert are inserted in one step, any of which may be missing.
  A context cancelled by shutdown acts as a crash does.

* Schedule watch: one pass plans from one read; the hash is opaque; `Change` records of
  different schedules are applied in any order.
* Monitoring: one object of each kind; queue depth, backlog and throughput are one
  flag; read-only statements in a row are one step; the statement whose failure only
  shortens a pass is not failed separately; thresholds keep their order and not
  their ratios. A sweep's UNKNOWN sample cannot arise and is left out.
* Intake: a regular expression is `[classes]{least,}` with a least of one or more (a detector
  that matches the empty string is left out); a marker has three cells; the
  leaves of a JSON document are walked in order; confidence is constant; the Luhn
  test, Unicode normalisation, encryption, trace ids, chains and run times are left out.

## Not modelled

Planned: pagination and the rebuild of the ledger (see [the plan](#the-plan)).

Left out: retention (never started; deletes by age without a protocol), shutdown
phases (timeouts around what `Delivery` calls `Shutdown` and `Exit`), query API
and timelines (read-only formatting), authentication (a table loaded once; the
scopes it grants are a constant of `LiveFeed`), database, cache and configuration,
the job state table (no caller), dashboard rendering, checksum tools; within PII the
regular expressions themselves, the dry run and the validation of a policy's text;
within health the samples of Postgres and Redis the report is made from.
