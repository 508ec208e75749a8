--------------------------- MODULE ScheduleWatch ---------------------------
(***************************************************************************)
(* watchScheduleDefinitions (worker/schedule_watch.go), which every         *)
(* scheduler runs once per poll.  Schedules are edited by SQL alone, so the  *)
(* scheduler compares each definition with the snapshot of what was last     *)
(* announced.  A pass reads the definitions, then the snapshots, plans the   *)
(* changes and applies them one statement at a time; the statement that      *)
(* succeeds entitles the pass to the announcement, which is another          *)
(* statement.  Nothing is in a transaction.                                 *)
(***************************************************************************)
EXTENDS Naturals, Integers, FiniteSets

CONSTANTS
    Instances,      \* scheduler processes
    Schedules,      \* schedule ids
    Hashes,         \* values of definitionHash
    MaxEdits,       \* bound: statements that change the definitions
    MaxTroubles     \* bound: crashes and failed statements together

ASSUME WatchAssumption == MaxEdits \in Nat /\ MaxTroubles \in Nat

(* A definition, or a snapshot of it, is the hash and the enabled flag. *)
Definition == [hash : Hashes, on : BOOLEAN]
None == [none |-> TRUE]
Kinds == {"seed", "created", "updated", "enabled", "disabled"}
Announced == Kinds \ {"seed"}
Change == [kind : Kinds, id : Schedules, def : Definition, old : Definition \cup {None}]

VARIABLES
    def,        \* schedule definitions
    snap,       \* schedule snapshots
    marker,     \* the snapshot row scheduleSeedMarker
    pc,         \* where each scheduler's pass is
    defs,       \* the definitions it read
    todo,       \* the changes it planned and has not applied
    unseeded,   \* it found no marker
    owed,       \* the change it wrote and has still to announce
    said,       \* events logged, by schedule and kind
    edited,     \* edits of what the hash covers, by schedule
    late,       \* schedules created once the marker was there
    first,      \* the flag a schedule's snapshot was created with
    edits, troubles

definitions == <<def, edited, late, edits>>
pass == <<pc, defs, todo, unseeded, owed>>
vars == <<definitions, snap, marker, pass, said, first, troubles>>

NoDefs == [s \in Schedules |-> None]

TypeOK ==
    /\ def \in [Schedules -> Definition \cup {None}] /\ snap \in [Schedules -> Definition \cup {None}]
    /\ marker \in BOOLEAN
    /\ pc \in [Instances -> {"idle", "snapshots", "each", "announce"}]
    /\ defs \in [Instances -> [Schedules -> Definition \cup {None}]]
    /\ todo \in [Instances -> SUBSET Change] /\ owed \in [Instances -> SUBSET Change]
    /\ unseeded \in [Instances -> BOOLEAN]
    /\ said \in [Schedules -> [Announced -> Nat]]
    /\ edited \in [Schedules -> Nat] /\ late \subseteq Schedules
    /\ first \in [Schedules -> BOOLEAN]
    /\ edits \in 0 .. MaxEdits /\ troubles \in 0 .. MaxTroubles

-----------------------------------------------------------------------------
Db(ok) == IF ok THEN UNCHANGED troubles ELSE troubles < MaxTroubles /\ troubles' = troubles + 1
Goto(i, point) == pc' = [pc EXCEPT ![i] = point]

(* Schedules that exist before the first pass have no snapshot. *)
Init ==
    /\ \E h \in Hashes : def \in [Schedules -> {None, [hash |-> h, on |-> TRUE]}]
    /\ snap = NoDefs /\ marker = FALSE
    /\ pc = [i \in Instances |-> "idle"]
    /\ defs = [i \in Instances |-> NoDefs]
    /\ todo = [i \in Instances |-> {}] /\ owed = [i \in Instances |-> {}]
    /\ unseeded = [i \in Instances |-> FALSE]
    /\ said = [s \in Schedules |-> [k \in Announced |-> 0]]
    /\ edited = [s \in Schedules |-> 0] /\ late = {}
    /\ first = [s \in Schedules |-> FALSE]
    /\ edits = 0 /\ troubles = 0

-----------------------------------------------------------------------------
(* The SQL that edits a definition: what the hash covers, the flag, or both  *)
(* in one statement.                                                        *)
Edit(s) ==
    /\ edits < MaxEdits /\ edits' = edits + 1
    /\ \E d \in Definition :
         /\ def[s] # d
         /\ def' = [def EXCEPT ![s] = d]
         /\ edited' = [edited EXCEPT ![s] = IF def[s] = None \/ def[s].hash = d.hash THEN @ ELSE @ + 1]
    /\ late' = IF def[s] = None /\ marker THEN late \cup {s} ELSE late
    /\ UNCHANGED <<snap, marker, pass, said, first, troubles>>

-----------------------------------------------------------------------------
(* A pass *)

(* planScheduleChanges.  A definition whose hash and flag both changed is    *)
(* two changes, the update first.                                           *)
Plan(read, stored, seeded) ==
    {c \in Change :
       /\ read[c.id] # None /\ c.def = read[c.id]
       /\ \/ ~seeded /\ c.kind = "seed" /\ c.old = None
          \/ seeded /\ stored[c.id] = None /\ c.kind = "created" /\ c.old = None
          \/ /\ seeded /\ stored[c.id] # None /\ c.old = stored[c.id]
             /\ \/ c.kind = "updated" /\ c.old.hash # c.def.hash
                \/ c.kind = (IF c.def.on THEN "enabled" ELSE "disabled") /\ c.old.on # c.def.on}

ReadDefs(i) ==
    /\ pc[i] = "idle"
    /\ \E ok \in BOOLEAN :
         /\ Db(ok)
         /\ IF ok THEN defs' = [defs EXCEPT ![i] = def] /\ Goto(i, "snapshots")
                  ELSE UNCHANGED <<defs, pc>>
    /\ UNCHANGED <<definitions, snap, marker, todo, unseeded, owed, said, first>>

(* _, seeded := snaps[scheduleSeedMarker] *)
AnyStored(stored) == \E s \in Schedules : stored[s] # None       \* mutant: judged by the snapshots
Seeded(stored) == marker

ReadSnapshots(i) ==
    /\ pc[i] = "snapshots"
    /\ \E ok \in BOOLEAN :
         /\ Db(ok)
         /\ IF ok
            THEN /\ todo' = [todo EXCEPT ![i] = Plan(defs[i], snap, Seeded(snap))]
                 /\ unseeded' = [unseeded EXCEPT ![i] = ~Seeded(snap)]
                 /\ Goto(i, "each")
            ELSE Goto(i, "idle") /\ UNCHANGED <<todo, unseeded>>
    /\ defs' = [defs EXCEPT ![i] = NoDefs]
    /\ UNCHANGED <<definitions, snap, marker, owed, said, first>>

(* What the statement of a change asks of the stored row: the unique index   *)
(* of an insert, the WHERE clause of an update.                             *)
InsertsAnyway(c) ==                                  \* mutant: no unique index
    \/ c.kind = "created"
    \/ c.kind = "seed" /\ snap[c.id] = None
    \/ snap[c.id] # None /\ c.kind = "updated" /\ snap[c.id].hash = c.old.hash
    \/ snap[c.id] # None /\ c.kind \in {"enabled", "disabled"} /\ snap[c.id].on = c.old.on
OnlyFlagCompared(c) ==                               \* mutant: the hash is set whatever it was
    IF c.kind \in {"seed", "created"} THEN snap[c.id] = None
    ELSE c.kind # "updated" => snap[c.id].on = c.old.on
ComparedWithNew(c) ==                                \* mutant: the row is looked up by the new hash
    IF c.kind \in {"seed", "created"} THEN snap[c.id] = None
    ELSE IF c.kind = "updated" THEN snap[c.id].hash = c.def.hash ELSE snap[c.id].on = c.old.on
Applies(c) ==
    IF c.kind \in {"seed", "created"} THEN snap[c.id] = None
    ELSE /\ snap[c.id] # None
         /\ IF c.kind = "updated" THEN snap[c.id].hash = c.old.hash ELSE snap[c.id].on = c.old.on

Stored(c) ==
    CASE c.kind \in {"seed", "created"} -> c.def
      [] c.kind = "updated"             -> [snap[c.id] EXCEPT !.hash = c.def.hash]
      [] OTHER                          -> [snap[c.id] EXCEPT !.on = c.def.on]

Earlier(c, d) == c.id = d.id /\ c.kind = "updated" /\ d.kind \in {"enabled", "disabled"}

Apply(i) ==
    /\ pc[i] = "each"
    /\ \E c \in todo[i], ok \in BOOLEAN :
         /\ \A e \in todo[i] : ~Earlier(e, c)
         /\ Db(ok)
         /\ todo' = [todo EXCEPT ![i] = @ \ {c}]
         /\ \/ /\ ok /\ Applies(c)
               /\ snap' = [snap EXCEPT ![c.id] = Stored(c)]
               /\ first' = IF snap[c.id] = None THEN [first EXCEPT ![c.id] = c.def.on] ELSE first
               /\ owed' = [owed EXCEPT ![i] = IF c.kind = "seed" THEN {} ELSE {c}]
               /\ Goto(i, IF c.kind = "seed" THEN "each" ELSE "announce")
            \/ /\ ~(ok /\ Applies(c))
               /\ UNCHANGED <<snap, first, owed, pc>>
    /\ UNCHANGED <<definitions, marker, defs, unseeded, said>>

(* LogEventWith; one that fails is lost. *)
Announce(i) ==
    /\ pc[i] = "announce"
    /\ \E c \in owed[i], ok \in BOOLEAN :
         /\ Db(ok)
         /\ said' = IF ok THEN [said EXCEPT ![c.id][c.kind] = @ + 1] ELSE said
    /\ owed' = [owed EXCEPT ![i] = {}] /\ Goto(i, "each")
    /\ UNCHANGED <<definitions, snap, marker, defs, todo, unseeded, first>>

EndPass(i) ==
    /\ pc[i] = "each" /\ todo[i] = {}
    /\ \E ok \in BOOLEAN :
         /\ unseeded[i] \/ ok
         /\ Db(ok)
         /\ marker' = (marker \/ (ok /\ unseeded[i]))
    /\ unseeded' = [unseeded EXCEPT ![i] = FALSE] /\ Goto(i, "idle")
    /\ UNCHANGED <<definitions, snap, defs, todo, owed, said, first>>

(* The process ends and is started again. *)
Crash(i) ==
    /\ pc[i] # "idle" /\ troubles < MaxTroubles /\ troubles' = troubles + 1
    /\ Goto(i, "idle")
    /\ defs' = [defs EXCEPT ![i] = NoDefs] /\ todo' = [todo EXCEPT ![i] = {}]
    /\ owed' = [owed EXCEPT ![i] = {}] /\ unseeded' = [unseeded EXCEPT ![i] = FALSE]
    /\ UNCHANGED <<definitions, snap, marker, said, first>>

Pass(i) == ReadDefs(i) \/ ReadSnapshots(i) \/ Apply(i) \/ Announce(i) \/ EndPass(i)
Next == (\E s \in Schedules : Edit(s)) \/ (\E i \in Instances : Pass(i) \/ Crash(i))

Spec == Init /\ [][Next]_vars
FairSpec == Spec /\ \A i \in Instances : WF_vars(Pass(i))

-----------------------------------------------------------------------------
Pending(s, k) == Cardinality({i \in Instances : \E c \in owed[i] : c.id = s /\ c.kind = k})

(* A schedule is announced as created at most once, whichever schedulers     *)
(* see it first (the unique index, lines 136-141).                          *)
CreatedOnce == \A s \in Schedules : said[s]["created"] + Pending(s, "created") <= 1

(* A schedule created once the marker is there is announced, never seeded in *)
(* silence by a scheduler whose pass began before (lines 161-163): the       *)
(* definitions are read before the marker is.  Only a crash or a failed      *)
(* statement right after the insert loses its announcement.                 *)
LateIsAnnounced ==
    Cardinality({s \in late : snap[s] # None /\ said[s]["created"] + Pending(s, "created") = 0}) <= troubles

(* The events of a schedule tell its stored flag: enabled and disabled are   *)
(* announced in turn, starting from the flag it was first stored with, up to *)
(* the announcements lost to a crash or a failed statement (lines 152-156). *)
Abs(n) == IF n < 0 THEN -n ELSE n
Flag(b) == IF b THEN 1 ELSE 0
FlagIsTold ==
    \A s \in Schedules :
      snap[s] # None =>
        Abs((Flag(snap[s].on) - Flag(first[s]))
            - (said[s]["enabled"] + Pending(s, "enabled") - said[s]["disabled"] - Pending(s, "disabled"))) <= troubles

(* How often schedule.updated can be announced: once for each edit, and      *)
(* twice more for each other scheduler, whose pass may have read the         *)
(* definition before that edit and the snapshot after it: it takes the       *)
(* snapshot back to the old definition, which is then announced anew.  With  *)
(* a single scheduler it is once per edit, as the comment at line 110 has it.*)
UpdatesBounded ==
    \A s \in Schedules : said[s]["updated"] + Pending(s, "updated") <= edited[s] * (2 * Cardinality(Instances) - 1)

(* No announcement is owed for ever to a change of the definition: once the  *)
(* edits are over every snapshot comes to be its definition and stays it.    *)
SnapshotsConverge == <>[](\A s \in Schedules : def[s] # None => snap[s] = def[s])

(* The comment at lines 109-111: a change is announced once, by one instance.*)
EachChangeOnce == \A s \in Schedules : said[s]["updated"] <= edited[s]

(* The events tell what is stored: the flag by its changes, and an update no   *)
(* more often than the other schedulers can account for.                      *)
EventsAccurate == TypeOK /\ FlagIsTold /\ UpdatesBounded
=============================================================================
