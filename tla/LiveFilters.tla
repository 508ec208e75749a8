---------------------------- MODULE LiveFilters ----------------------------
(***************************************************************************)
(* What the live feed decides from an event alone: its priority             *)
(* (live/priority.go), the resource it names (live/envelope.go), who may    *)
(* see it (live/live_scopes.go) and which subscription it belongs to        *)
(* (live/subscription.go); the last two both as the hub decides them in     *)
(* memory and as the replay query decides them on the stored rows.          *)
(*                                                                         *)
(* An event type is an atom, one per case the code tells apart; PrefixesOf    *)
(* gives those of the prefixes tested anywhere that the type starts with.   *)
(***************************************************************************)
EXTENDS Naturals

PrefixesOf(type) ==
    CASE type \in {"task.failed", "task.created"}     -> {"task."}
      [] type = "task.progress"                       -> {"task.", "task.progress"}
      [] type \in {"worker.online", "worker.offline"} -> {"worker."}
      [] type = "worker.heartbeat_age"                -> {"worker.", "worker.heartbeat_age"}
      [] type = "alert.opened"                        -> {"alert."}
      [] type = "pii.detected"                        -> {"pii."}
      [] type = "pii.policy_activated"                -> {"pii.", "pii.policy"}
      [] type = "platform.summary"                    -> {"platform."}

Types == {"task.failed", "task.created", "task.progress", "worker.online", "worker.offline",
          "worker.heartbeat_age", "alert.opened", "pii.detected", "pii.policy_activated"}

(* An event as LogEvent hands it to the hub, without its id. *)
Events == [type : Types, subject : STRING, chain : STRING, severity : STRING]

-----------------------------------------------------------------------------
(* live.IsNoise: recorded, never streamed. *)
IsNoise(e) == e.type = "task.progress"

PriorityOf(type) ==
    IF type \in {"task.failed", "worker.offline", "alert.opened"} THEN "critical"
    ELSE IF PrefixesOf(type) \cap {"task.progress", "worker.heartbeat_age"} # {} THEN "informational"
    ELSE "normal"

(* An opened alert counts as critical only at that severity, or unrated. *)
PriorityOfEvent(e) ==
    IF e.type = "alert.opened" /\ e.severity \notin {"", "CRITICAL"} THEN "normal"
    ELSE PriorityOf(e.type)

(* Describe, and the client's key for it: the resource an event is about. *)
Resource(e) == <<CHOOSE p \in PrefixesOf(e.type) \cap {"task.", "worker.", "alert.", "pii."} : TRUE,
                 IF "pii.policy" \in PrefixesOf(e.type) THEN e.type ELSE "",
                 e.subject>>

-----------------------------------------------------------------------------
(* eventScopeRules, in order: the first rule whose prefix fits decides. *)
ScopeRules == <<[prefix |-> "alert.", scope |-> "alerts.read"],
                [prefix |-> "pii.policy", scope |-> "pii.policy.read"],
                [prefix |-> "pii.", scope |-> "pii.findings.read"]>>

Fits(r, type) == ScopeRules[r].prefix \in PrefixesOf(type)
FirstFit(r, type) == Fits(r, type) /\ \A earlier \in 1 .. r - 1 : ~Fits(earlier, type)

(* canSee: RequiredScope of the type is one the caller has. *)
CanSee(granted, type) == \A r \in 1 .. 3 : FirstFit(r, type) => ScopeRules[r].scope \in granted

(* HiddenEventSQL: the WHERE NOT of the replay. *)
HiddenEventSQL(granted, type) ==
    \E r \in 1 .. 3 :
        /\ ScopeRules[r].scope \notin granted
        /\ Fits(r, type)
        /\ \A earlier \in 1 .. r - 1 : ~Fits(earlier, type)

-----------------------------------------------------------------------------
(* A subscription is a set of scopes, the ones ParseScope lets through: an id *)
(* where the kind needs one, and none elsewhere.                             *)
PlainKinds == {"platform.summary", "runs", "queues", "workers", "schedules", "alerts", "pii.summary",
               "monitoring.health", "components"}
IdKinds == {"run", "execution-chain", "queue", "worker"}
Scopes == [kind : PlainKinds, id : {""}] \cup [kind : IdKinds, id : STRING \ {""}]

Families(kind) ==
    CASE kind \in {"runs", "run"}       -> {"task."}
      [] kind \in {"workers", "worker"} -> {"worker."}
      [] kind = "alerts"                -> {"alert."}
      [] kind = "pii.summary"           -> {"pii."}
      [] OTHER                          -> {}

(* Scope.Matches *)
ScopeMatches(s, e) ==
    IF s.kind = "platform.summary" THEN e.type = "platform.summary"
    ELSE IF s.kind = "execution-chain" THEN e.chain # "" /\ e.chain = s.id
    ELSE Families(s.kind) \cap PrefixesOf(e.type) # {} /\ (s.id # "" => e.subject = s.id)

(* Subscription.Match: no scope at all takes everything. *)
Matches(scopes, e) == scopes = {} \/ \E s \in scopes : ScopeMatches(s, e)

(* Scope.SQL: the summary has no stored rows. *)
ScopeSQL(s, e) ==
    \/ s.kind = "execution-chain" /\ e.chain = s.id
    \/ Families(s.kind) \cap PrefixesOf(e.type) # {} /\ (s.id # "" => e.subject = s.id)

(* Subscription.ReplaySQL, and the query without it for an empty one. *)
ReplaySQL(scopes, e) == scopes = {} \/ \E s \in scopes : ScopeSQL(s, e)

(* replayWanted: there is a query unless the summary is all that is asked for. *)
ReplayWanted(scopes) == scopes = {} \/ \E s \in scopes : s.kind # "platform.summary"

WantsSummary(scopes) == \E s \in scopes : s.kind = "platform.summary"

(* Subscription.Permissions *)
Permission(kind) ==
    CASE kind = "alerts" -> {"alerts.read"} [] kind = "pii.summary" -> {"pii.findings.read"} [] OTHER -> {}
Permissions(scopes) == UNION {Permission(s.kind) : s \in scopes}
=============================================================================
