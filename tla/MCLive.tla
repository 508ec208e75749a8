------------------------------- MODULE MCLive -------------------------------
(* Settings for the runs of LiveFeed. *)
EXTENDS LiveFeed

Event(type, subject) == [type |-> type, subject |-> subject, chain |-> "", severity |-> ""]
Scope(kind, id) == [kind |-> kind, id |-> id]

(* The Workers page: facts that are coalesced and facts that never are. *)
WorkersPage == [scopes   |-> {Scope("workers", "")},
                prefixes |-> {"worker."},
                granted  |-> {},
                kinds    |-> {Event("worker.online", "w"), Event("worker.offline", "w")}]

(* A page about one worker; samples only. *)
SamplesPage == [scopes   |-> {Scope("worker", "w")},
                prefixes |-> {"worker."},
                granted  |-> {},
                kinds    |-> {Event("worker.heartbeat_age", "w")}]

(* An unnarrowed page whose key may see policies and not findings, and noise. *)
PolicyPage == [scopes   |-> {},
               prefixes |-> {"pii."},
               granted  |-> {"pii.policy.read"},
               kinds    |-> {Event("pii.policy_activated", "p"), Event("pii.detected", "r"),
                             Event("task.progress", "r")}]

(* The Overview page as it is: platform.summary and nothing else. *)
OverviewPage == [scopes   |-> {Scope("platform.summary", "")},
                 prefixes |-> {"platform."},
                 granted  |-> {},
                 kinds    |-> {Event("worker.online", "w")}]

SomePages == {WorkersPage, SamplesPage, PolicyPage, OverviewPage}
=============================================================================
