------------------------------- MODULE Alerts -------------------------------
(***************************************************************************)
(* Alerts and their notifications (alerting/alerts.go, alerting/notify.go). *)
(* A sweep opens an alert for every cause that fires, adjusts severities,   *)
(* resolves the alerts whose cause is gone and sends what is pending, one   *)
(* database statement at a time; the API acknowledges alerts and reloads    *)
(* the rules meanwhile.  Every Save writes the whole row from a copy read    *)
(* earlier, and no statement is part of a transaction.                      *)
(*                                                                         *)
(* A cause is an annotation of the monitoring sweep, which is resolved for   *)
(* good, or a rule's metric for one subject, which comes and goes.          *)
(***************************************************************************)
EXTENDS Naturals, Sequences, FiniteSets

CONSTANTS
    Sweepers,        \* processes running StartAlertsSweep
    Annotations,     \* causes that are annotations
    Metrics,         \* causes that are a metric of a subject
    Channels,        \* NotificationAdapters, one per channel
    MaxAttempts,     \* maxNotificationAttempts
    MaxChanges,      \* bound: changes of the causes
    MaxAlerts,       \* bound: alert rows
    MaxActive,       \* bound: causes observed at a time
    MaxCalls,        \* bound: calls of Acknowledge and ActivateRules together
    MaxTroubles,     \* bound: crashes and failed statements together
    PromptApi        \* a request does not last from one sweep into the next

ASSUME AlertsAssumption ==
    /\ MaxAttempts \in Nat \ {0} /\ PromptApi \in BOOLEAN
    /\ {MaxChanges, MaxAlerts, MaxActive, MaxCalls, MaxTroubles} \subseteq Nat
    /\ Annotations \cap Metrics = {} /\ IsFiniteSet(Channels)

Causes == Annotations \cup Metrics
Severities == {"INFO", "WARNING"}
Rule == Severities \cup {"OFF"}                \* severity of the rule that applies; OFF: none enabled
AlertRow == [id : 1 .. MaxAlerts, cause : Causes, status : {"OPEN", "ACKNOWLEDGED", "RESOLVED"},
             severity : Severities, by : BOOLEAN]
NotificationRow == [id : Nat \ {0}, alert : 1 .. MaxAlerts, channel : Channels,
                    status : {"PENDING", "SENT", "FAILED"},
                    attempts : 0 .. MaxAttempts + MaxTroubles]

VARIABLES
    cond,       \* cause -> none (no annotation, no sample), firing or clear
    rule,       \* LoadedAlertRules, for each cause
    alerts,     \* Alert rows
    notes,      \* Notification rows
    waiting,    \* failed notifications tried less than notificationRetryDelay ago
    pass,       \* which of its five passes each sweeper is in
    pc,         \* where it is in the pass
    todo,       \* what the pass has still to go through, as it was read
    cur,        \* the row it is about to write
    rules,      \* the rules and
    seen,       \* the samples it goes by
    adapters,   \* NotificationAdapters of each process
    api,        \* alerts read by an Acknowledge and not yet saved
    sends,      \* notification -> calls of Send
    changes, calls, crashes, faults

environment == <<cond, rule, api, changes, calls>>
sweeping == <<pass, pc, todo, cur, rules, seen, adapters>>
vars == <<environment, sweeping, alerts, notes, waiting, sends, crashes, faults>>

Passes == <<"openAnnotations", "openMetrics", "resolveAnnotations", "resolveMetrics", "notify">>
Points == {"idle", "list", "sample", "each", "severity", "create", "request", "resolve",
           "lookup", "send", "save", "down"}

-----------------------------------------------------------------------------
Db(ok) == IF ok THEN UNCHANGED faults ELSE crashes + faults < MaxTroubles /\ faults' = faults + 1
Goto(w, point) == pc' = [pc EXCEPT ![w] = point]
Hold(w, row) == cur' = [cur EXCEPT ![w] = <<row>>]
Drop(w) == cur' = [cur EXCEPT ![w] = <<>>]
NoRule == [c \in Causes |-> "OFF"]
NoSample == [c \in Causes |-> "none"]
Row(w) == cur[w][1]
In(w, point, passes) == pc[w] = point /\ Passes[pass[w]] \in passes
Save(row) == alerts' = [alerts EXCEPT ![row.id] = row]

Rows(S) == {S[i] : i \in DOMAIN S}
Unresolved == {a \in Rows(alerts) : a.status # "RESOLVED"}

-----------------------------------------------------------------------------
(* StartAlertsSweep *)

StartSweep(w) ==
    /\ pc[w] = "idle" /\ (PromptApi => api = {})
    /\ pass' = [pass EXCEPT ![w] = 1] /\ Goto(w, "list")
    /\ UNCHANGED <<environment, todo, cur, rules, seen, adapters, alerts, notes, waiting, sends, crashes, faults>>

EndPass(w) ==
    /\ pc[w] = "each" /\ todo[w] = {}
    /\ IF pass[w] = Len(Passes) THEN Goto(w, "idle") /\ UNCHANGED pass
                                ELSE Goto(w, "list") /\ pass' = [pass EXCEPT ![w] = @ + 1]
    /\ seen' = [seen EXCEPT ![w] = NoSample] /\ rules' = [rules EXCEPT ![w] = NoRule]
    /\ UNCHANGED <<environment, todo, cur, adapters, alerts, notes, waiting, sends, crashes, faults>>

(* The notifications a pass takes up. *)
Untried(n) == n.attempts < MaxAttempts /\ n.id \notin waiting                           \* mutant: a cut attempt waits for ever
              /\ (n.status = "FAILED" \/ n.attempts = 0)
Sendable(n) == n.status = "PENDING" \/ (n.status = "FAILED" /\ n.attempts < MaxAttempts /\ n.id \notin waiting)

Resolvable == Unresolved

(* The query a pass starts with; a failed one ends the pass. *)
Listed(w) ==
    CASE Passes[pass[w]] = "openAnnotations"    -> {c \in Annotations : cond[c] = "firing" /\ rule[c] # "OFF"}
      [] Passes[pass[w]] = "openMetrics"        -> {c \in Metrics : cond[c] = "firing" /\ rule[c] # "OFF"}
      [] Passes[pass[w]] = "resolveAnnotations" -> {a \in Resolvable : a.cause \in Annotations}
      [] Passes[pass[w]] = "resolveMetrics"     -> {a \in Resolvable : a.cause \in Metrics}
      [] OTHER                                  -> {n \in Rows(notes) : Sendable(n)}

List(w) ==
    /\ pc[w] = "list"
    /\ \E ok \in BOOLEAN :
         /\ Db(ok)
         /\ todo' = [todo EXCEPT ![w] = IF ok THEN Listed(w) ELSE {}]
         /\ Goto(w, IF ok /\ Passes[pass[w]] = "resolveMetrics" /\ Listed(w) # {} THEN "sample" ELSE "each")
    /\ rules' = [rules EXCEPT ![w] = rule]
    /\ UNCHANGED <<environment, pass, cur, seen, adapters, alerts, notes, waiting, sends, crashes>>

-----------------------------------------------------------------------------
(* openAlertsFromAnnotations, openAlertsFromMetrics, updateSeverityIfChanged *)

EverOpened(c) == {a \in Rows(alerts) : a.cause = c}                      \* mutant: resolved ones count
NotAcknowledged(c) == {a \in Rows(alerts) : a.cause = c /\ a.status = "OPEN"}   \* mutant: acknowledged ones do not
Existing(c) == {a \in Unresolved : a.cause = c}
Oldest(S) == CHOOSE a \in S : \A b \in S : a.id <= b.id

(* Look for the cause's alert: one that exists may need its severity saved,  *)
(* and where none is found, or the look-up failed, one is created.          *)
OpenEach(w) ==
    /\ In(w, "each", {"openAnnotations", "openMetrics"})
    /\ \E c \in todo[w], ok \in BOOLEAN :
         /\ Db(ok)
         /\ todo' = [todo EXCEPT ![w] = @ \ {c}]
         /\ \/ /\ ok /\ Existing(c) # {}
               /\ IF Oldest(Existing(c)).severity = rules[w][c] THEN Goto(w, "each") /\ UNCHANGED cur
                  ELSE Goto(w, "severity") /\ Hold(w, [Oldest(Existing(c)) EXCEPT !.severity = rules[w][c]])
            \/ /\ ~ok \/ Existing(c) = {}
               /\ Goto(w, "create")
               /\ Hold(w, [id |-> Len(alerts) + 1, cause |-> c, status |-> "OPEN", severity |-> rules[w][c], by |-> FALSE])
    /\ UNCHANGED <<environment, pass, rules, seen, adapters, alerts, notes, waiting, sends, crashes>>

SaveSeverity(w) ==
    /\ pc[w] = "severity"
    /\ \E ok \in BOOLEAN : Db(ok) /\ IF ok THEN Save(Row(w)) ELSE UNCHANGED alerts
    /\ Goto(w, "each") /\ Drop(w)
    /\ UNCHANGED <<environment, pass, todo, rules, seen, adapters, notes, waiting, sends, crashes>>

ShouldNotify(severity) == severity = "WARNING"

CreateAlert(w) ==
    /\ pc[w] = "create" /\ Len(alerts) < MaxAlerts
    /\ \E ok \in BOOLEAN :
         LET row == [Row(w) EXCEPT !.id = Len(alerts) + 1]
         IN /\ Db(ok)
            /\ alerts' = IF ok THEN Append(alerts, row) ELSE alerts
            /\ IF ok /\ ShouldNotify(row.severity) THEN Goto(w, "request") /\ Hold(w, row)
                                                  ELSE Goto(w, "each") /\ Drop(w)
    /\ UNCHANGED <<environment, pass, todo, rules, seen, adapters, notes, waiting, sends, crashes>>

(* createNotifications: the rows are inserted one after the other; one step   *)
(* stands for all, of which a failure skips one.                             *)
CreateNotifications(w) ==
    /\ pc[w] = "request"
    /\ \E S \in SUBSET adapters[w] :
         /\ IF S = adapters[w] THEN UNCHANGED faults
            ELSE crashes + faults + Cardinality(adapters[w] \ S) <= MaxTroubles /\ faults' = faults + Cardinality(adapters[w] \ S)
         /\ \E order \in [1 .. Cardinality(S) -> S] :
              /\ \A i, j \in DOMAIN order : i # j => order[i] # order[j]
              /\ notes' = notes \o [i \in DOMAIN order |->
                             [id |-> Len(notes) + i, alert |-> Row(w).id, channel |-> order[i],
                              status |-> "PENDING", attempts |-> 0]]
         /\ sends' = sends \o [i \in 1 .. Cardinality(S) |-> 0]
    /\ Goto(w, "each") /\ Drop(w)
    /\ UNCHANGED <<environment, pass, todo, rules, seen, adapters, alerts, waiting, crashes>>

-----------------------------------------------------------------------------
(* resolveAlertsFromAnnotations, resolveAlertsFromMetrics *)

(* The metric's samples, read once for all its alerts. *)
ReadSamples(w) ==
    /\ pc[w] = "sample"
    /\ \E ok \in BOOLEAN :
         Db(ok) /\ seen' = [seen EXCEPT ![w] = IF ok THEN cond ELSE NoSample]
    /\ Goto(w, "each")
    /\ UNCHANGED <<environment, pass, todo, cur, rules, adapters, alerts, notes, waiting, sends, crashes>>

Cleared(w, a) == IF a.cause \in Annotations THEN cond[a.cause] = "clear"
                 ELSE rules[w][a.cause] # "OFF" /\ seen[w][a.cause] = "clear"

ResolveEach(w) ==
    /\ In(w, "each", {"resolveAnnotations", "resolveMetrics"})
    /\ \E a \in todo[w], ok \in BOOLEAN :
         /\ a.cause \in Metrics => ok
         /\ Db(ok)
         /\ todo' = [todo EXCEPT ![w] = @ \ {a}]
         /\ IF ok /\ Cleared(w, a) THEN Goto(w, "resolve") /\ Hold(w, [a EXCEPT !.status = "RESOLVED"])
                                   ELSE Goto(w, "each") /\ UNCHANGED cur
    /\ UNCHANGED <<environment, pass, rules, seen, adapters, alerts, notes, waiting, sends, crashes>>

SaveResolved(w) ==
    /\ pc[w] = "resolve"
    /\ \E ok \in BOOLEAN : Db(ok) /\ IF ok THEN Save(Row(w)) ELSE UNCHANGED alerts
    /\ Goto(w, "each") /\ Drop(w)
    /\ UNCHANGED <<environment, pass, todo, rules, seen, adapters, notes, waiting, sends, crashes>>

-----------------------------------------------------------------------------
(* sendPendingNotifications *)

(* last_attempt_at matters to a row that will be tried again after a failure. *)
Wait(n) == waiting' = IF n.status = "FAILED" /\ n.attempts < MaxAttempts THEN waiting \cup {n.id} ELSE waiting \ {n.id}

(* The attempt is counted before anything can fail. *)
CountAttempt(w) ==
    /\ In(w, "each", {"notify"})
    /\ \E n \in todo[w], ok \in BOOLEAN :
         LET row == [n EXCEPT !.attempts = @ + 1]
         IN /\ Db(ok) /\ Hold(w, row)
            /\ todo' = [todo EXCEPT ![w] = @ \ {n}]
            /\ IF ok THEN notes' = [notes EXCEPT ![n.id] = row] /\ Wait(row)
                     ELSE UNCHANGED <<notes, waiting>>
    /\ Goto(w, "lookup")
    /\ UNCHANGED <<environment, pass, rules, seen, adapters, alerts, sends, crashes>>

(* failNotificationTerminal uses the budget up. *)
Exhausted(n) == MaxAttempts

(* The alert and its adapter are looked up; any error counts as a missing alert. *)
Lookup(w) ==
    /\ pc[w] = "lookup"
    /\ \E ok \in BOOLEAN :
         /\ Db(ok)
         /\ IF ok /\ Row(w).channel \in adapters[w] THEN Goto(w, "send") /\ UNCHANGED cur
            ELSE Goto(w, "save") /\ Hold(w, [Row(w) EXCEPT !.status = "FAILED", !.attempts = Exhausted(Row(w))])
    /\ UNCHANGED <<environment, pass, todo, rules, seen, adapters, alerts, notes, waiting, sends, crashes>>

Send(w) ==
    /\ pc[w] = "send"
    /\ sends' = [sends EXCEPT ![Row(w).id] = @ + 1]
    /\ \E status \in {"SENT", "FAILED"} : Hold(w, [Row(w) EXCEPT !.status = status])
    /\ Goto(w, "save")
    /\ UNCHANGED <<environment, pass, todo, rules, seen, adapters, alerts, notes, waiting, crashes, faults>>

SaveNotification(w) ==
    /\ pc[w] = "save"
    /\ \E ok \in BOOLEAN :
         /\ Db(ok)
         /\ IF ok THEN notes' = [notes EXCEPT ![Row(w).id] = Row(w)] /\ Wait(Row(w))
                  ELSE UNCHANGED <<notes, waiting>>
    /\ Goto(w, "each") /\ Drop(w)
    /\ UNCHANGED <<environment, pass, todo, rules, seen, adapters, alerts, sends, crashes>>

Sweep(w) ==
    \/ StartSweep(w) \/ List(w) \/ EndPass(w)
    \/ OpenEach(w) \/ SaveSeverity(w) \/ CreateAlert(w) \/ CreateNotifications(w)
    \/ ReadSamples(w) \/ ResolveEach(w) \/ SaveResolved(w)
    \/ CountAttempt(w) \/ Lookup(w) \/ Send(w) \/ SaveNotification(w)

-----------------------------------------------------------------------------
Crash(w) ==
    /\ pc[w] # "down" /\ crashes + faults < MaxTroubles
    /\ crashes' = crashes + 1 /\ Goto(w, "down")
    /\ todo' = [todo EXCEPT ![w] = {}] /\ Drop(w)
    /\ seen' = [seen EXCEPT ![w] = NoSample] /\ rules' = [rules EXCEPT ![w] = NoRule]
    /\ UNCHANGED <<environment, pass, adapters, alerts, notes, waiting, sends, faults>>

(* main.go registers the adapters its environment names, which may have changed. *)
Restart(w) ==
    /\ pc[w] = "down" /\ Goto(w, "idle")
    /\ adapters' \in [Sweepers -> SUBSET Channels] /\ \A v \in Sweepers \ {w} : adapters'[v] = adapters[v]
    /\ UNCHANGED <<environment, pass, todo, cur, rules, seen, alerts, notes, waiting, sends, crashes, faults>>

(* notificationRetryDelay passes. *)
DelayEnds ==
    /\ waiting # {} /\ \E n \in waiting : waiting' = waiting \ {n}
    /\ UNCHANGED <<environment, sweeping, alerts, notes, sends, crashes, faults>>

(* The causes: an annotation is resolved for good, a metric comes and goes. *)
CauseChanges(c, state) ==
    /\ changes < MaxChanges /\ changes' = changes + 1
    /\ cond[c] # state /\ Cardinality({d \in Causes : cond[d] # "none"} \cup {c}) <= MaxActive
    /\ c \in Annotations => <<cond[c], state>> \in {<<"none", "firing">>, <<"firing", "clear">>}
    /\ cond' = [cond EXCEPT ![c] = state]
    /\ UNCHANGED <<rule, api, calls, sweeping, alerts, notes, waiting, sends, crashes, faults>>

(* ActivateRules: a rule's severity was edited, or it was switched on or off. *)
ActivateRules ==
    /\ calls < MaxCalls /\ calls' = calls + 1
    /\ \E c \in Causes, r \in Rule : r # rule[c] /\ rule' = [rule EXCEPT ![c] = r]
    /\ UNCHANGED <<cond, api, changes, sweeping, alerts, notes, waiting, sends, crashes, faults>>

(* Acknowledge: the row is read, and its copy saved if it was OPEN. *)
ReadForAcknowledge(a) ==
    /\ calls < MaxCalls /\ calls' = calls + 1
    /\ a.status = "OPEN" /\ api' = api \cup {a}
    /\ UNCHANGED <<cond, rule, changes, sweeping, alerts, notes, waiting, sends, crashes, faults>>

Acknowledge(a) ==
    /\ api' = api \ {a}
    /\ \E ok \in BOOLEAN : Db(ok) /\ IF ok THEN Save([a EXCEPT !.status = "ACKNOWLEDGED", !.by = TRUE]) ELSE UNCHANGED alerts
    /\ UNCHANGED <<cond, rule, changes, calls, sweeping, notes, waiting, sends, crashes>>

Init ==
    /\ cond = [c \in Causes |-> "none"] /\ \E s \in Severities : rule = [c \in Causes |-> s]
    /\ alerts = <<>> /\ notes = <<>> /\ waiting = {} /\ sends = <<>> /\ api = {}
    /\ pass = [w \in Sweepers |-> 1] /\ pc = [w \in Sweepers |-> "idle"]
    /\ todo = [w \in Sweepers |-> {}] /\ cur = [w \in Sweepers |-> <<>>]
    /\ rules = [w \in Sweepers |-> NoRule] /\ seen = [w \in Sweepers |-> NoSample]
    /\ adapters = [w \in Sweepers |-> Channels]
    /\ changes = 0 /\ calls = 0 /\ crashes = 0 /\ faults = 0

Next ==
    \/ \E w \in Sweepers : Sweep(w) \/ Crash(w) \/ Restart(w)
    \/ \E c \in Causes, state \in {"none", "firing", "clear"} : CauseChanges(c, state)
    \/ DelayEnds \/ ActivateRules
    \/ \E a \in Rows(alerts) : ReadForAcknowledge(a)
    \/ \E a \in api : Acknowledge(a)

Spec == Init /\ [][Next]_vars

(* The sweep runs every alertsInterval, a supervisor restarts it, a request is *)
(* answered and the retry delay passes.                                        *)
FairSpec ==
    /\ Spec
    /\ \A w \in Sweepers : WF_vars(Sweep(w)) /\ WF_vars(Restart(w))
    /\ WF_vars(\E a \in api : Acknowledge(a)) /\ WF_vars(DelayEnds)

-----------------------------------------------------------------------------
TypeOK ==
    /\ cond \in [Causes -> {"none", "firing", "clear"}] /\ rule \in [Causes -> Rule]
    /\ \A i \in DOMAIN alerts : alerts[i] \in AlertRow /\ alerts[i].id = i
    /\ \A i \in DOMAIN notes : notes[i] \in NotificationRow /\ notes[i].id = i /\ notes[i].alert \in DOMAIN alerts
    /\ waiting \subseteq DOMAIN notes /\ DOMAIN sends = DOMAIN notes
    /\ pass \in [Sweepers -> 1 .. Len(Passes)] /\ pc \in [Sweepers -> Points]
    /\ api \subseteq AlertRow

Open(c) == \E a \in Unresolved : a.cause = c

(* The dedup key of RFC-007 section 9: a cause has one unresolved alert, while *)
(* alerts are acknowledged, resolved and saved from old copies; a look-up that *)
(* fails (alerts.go:89, 205 take any error for "none") adds one at most.       *)
OneOpenPerCause == \A c \in Causes : Cardinality({a \in Unresolved : a.cause = c}) <= 1 + faults

(* A notification is sent at most maxNotificationAttempts times, and once more  *)
(* for every crash or lost write (notify.go:204: counted before it can fail).   *)
SendsBounded == \A n \in DOMAIN sends : sends[n] <= MaxAttempts + crashes + faults

(* A cause that goes on firing under an enabled rule gets an alert and keeps   *)
(* it, whatever a sweep resolved by old samples and the API saved over.         *)
FiringIsOpen ==
    \A c \in Causes : <>[](cond[c] = "firing" /\ rule[c] # "OFF") => <>[]Open(c)

(* A cause that is gone for good leaves no unresolved alert behind, also when   *)
(* an acknowledgement read earlier brings one back.                            *)
ClearedIsResolved ==
    \A c \in Causes : <>[](cond[c] = "clear" /\ (c \in Metrics => rule[c] # "OFF")) => <>[]~Open(c)

(* No notification is left half done: each ends SENT, or FAILED with its        *)
(* attempts used up, across crashes in the middle of one (notify.go:189-250).   *)
NotificationsEnd ==
    <>[](\A n \in Rows(notes) : n.status = "SENT" \/ (n.status = "FAILED" /\ n.attempts >= MaxAttempts))

(* The rows keep their form, a cause has its one unresolved alert and a         *)
(* notification is sent no more often than its budget and the crashes and lost  *)
(* writes account for.                                                       *)
AlertRowsSound == TypeOK /\ OneOpenPerCause /\ SendsBounded

(* The alerts follow the causes: what fires comes to be open, what is gone     *)
(* comes to be resolved (alerts.go:71-155, 178-325).                          *)
AlertsFollowCauses == FiringIsOpen /\ ClearedIsResolved
=============================================================================
