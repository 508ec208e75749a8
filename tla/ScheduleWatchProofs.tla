------------------------ MODULE ScheduleWatchProofs ------------------------
(***************************************************************************)
(* What the announcements of the schedule watch rest on, for any number of   *)
(* schedulers, schedules, edits, crashes and failed statements: the unique   *)
(* index of the snapshots makes a creation unique; reading the definitions   *)
(* before the marker keeps a late schedule from being seeded in silence; the *)
(* conditional write of the flag makes enabled and disabled tell it; and a   *)
(* pass takes a snapshot back only with what it has in hand, which bounds    *)
(* the updates.                                                             *)
(***************************************************************************)
EXTENDS ScheduleWatch, FiniteSetTheorems, TLAPS

Points == {"idle", "snapshots", "each", "announce"}

(* A definition is a record with two fields, so it is never None.            *)
LEMMA DefinitionIsSome == \A d \in Definition : d # None
<1> SUFFICES ASSUME NEW d \in Definition, d = None PROVE FALSE
  OBVIOUS
<1>1. DOMAIN d = {"hash", "on"}
  BY DEF Definition
<1>2. DOMAIN None = {"none"}
  BY DEF None
<1>3. "hash" \notin {"none"}
  OBVIOUS
<1> QED BY <1>1, <1>2, <1>3

(* A failed statement or a crash stays inside its bound.                     *)
LEMMA DbTyped == ASSUME troubles \in 0 .. MaxTroubles, NEW ok, Db(ok) PROVE troubles' \in 0 .. MaxTroubles /\ troubles' >= troubles
BY WatchAssumption DEF Db

(* What a change writes is a definition.                                     *)
LEMMA StoredTyped ==
    ASSUME TypeOK, NEW c \in Change, Applies(c) PROVE Stored(c) \in Definition
<1>1. snap[c.id] \in Definition \cup {None} /\ c.def \in Definition
  BY DEF TypeOK, Change
<1>2. CASE c.kind \in {"seed", "created"}
  BY <1>1, <1>2 DEF Stored
<1>3. CASE c.kind = "updated"
  <2>1. snap[c.id] \in Definition
    BY <1>1, <1>3 DEF Applies
  <2>2. Stored(c) = [snap[c.id] EXCEPT !.hash = c.def.hash]
    BY <1>3 DEF Stored
  <2> QED BY <1>1, <2>1, <2>2 DEF Definition
<1>4. CASE c.kind \notin {"seed", "created", "updated"}
  <2>1. snap[c.id] \in Definition
    BY <1>1, <1>4 DEF Applies
  <2>2. Stored(c) = [snap[c.id] EXCEPT !.on = c.def.on]
    BY <1>4 DEF Stored
  <2> QED BY <1>1, <2>1, <2>2 DEF Definition
<1> QED BY <1>2, <1>3, <1>4

(* Counting an announcement keeps the counts natural numbers.                *)
LEMMA SaidTyped ==
    ASSUME said \in [Schedules -> [Announced -> Nat]], NEW s, NEW k
    PROVE [said EXCEPT ![s][k] = @ + 1] \in [Schedules -> [Announced -> Nat]]
<1>1. CASE s \in Schedules
  <2>1. said[s] \in [Announced -> Nat]
    BY <1>1
  <2>2. [said[s] EXCEPT ![k] = @ + 1] = [l \in Announced |-> IF l = k THEN said[s][k] + 1 ELSE said[s][l]]
    BY <2>1
  <2>3. \A l \in Announced : (IF l = k THEN said[s][k] + 1 ELSE said[s][l]) \in Nat
    BY <2>1
  <2>4. [said[s] EXCEPT ![k] = @ + 1] \in [Announced -> Nat]
    BY <2>2, <2>3
  <2> QED BY <1>1, <2>4
<1>2. CASE s \notin Schedules
  BY <1>2
<1> QED BY <1>1, <1>2

(* The first state has the types.                                            *)
LEMMA TypeInit == Init => TypeOK
<1> SUFFICES ASSUME Init PROVE TypeOK
  OBVIOUS
<1>1. def \in [Schedules -> Definition \cup {None}]
  <2>1. PICK h \in Hashes : def \in [Schedules -> {None, [hash |-> h, on |-> TRUE]}]
    BY DEF Init
  <2>2. [hash |-> h, on |-> TRUE] \in Definition
    BY DEF Definition
  <2> QED BY <2>1, <2>2
<1>2. said \in [Schedules -> [Announced -> Nat]]
  BY DEF Init
<1>3. todo \in [Instances -> SUBSET Change] /\ owed \in [Instances -> SUBSET Change]
  BY DEF Init
<1>4. /\ snap \in [Schedules -> Definition \cup {None}]
      /\ defs \in [Instances -> [Schedules -> Definition \cup {None}]]
  BY DEF Init, NoDefs
<1>5. /\ edited \in [Schedules -> Nat] /\ late \subseteq Schedules
      /\ edits \in 0 .. MaxEdits /\ troubles \in 0 .. MaxTroubles
  BY WatchAssumption DEF Init
<1>6. /\ marker \in BOOLEAN /\ pc \in [Instances -> Points]
      /\ unseeded \in [Instances -> BOOLEAN] /\ first \in [Schedules -> BOOLEAN]
  BY DEF Init, Points
<1> QED BY <1>1, <1>2, <1>3, <1>4, <1>5, <1>6 DEF TypeOK, Points

(* Every statement of a pass, every edit and every crash keeps them.         *)
LEMMA TypeStep == ASSUME TypeOK, [Next]_vars PROVE TypeOK'
<1> USE DEF TypeOK
<1>1. ASSUME NEW s \in Schedules, Edit(s) PROVE TypeOK'
  <2>1. PICK d \in Definition :
          /\ def' = [def EXCEPT ![s] = d]
          /\ edited' = [edited EXCEPT ![s] = IF def[s] = None \/ def[s].hash = d.hash THEN @ ELSE @ + 1]
    BY <1>1 DEF Edit
  <2>2. edited' \in [Schedules -> Nat]
    BY <2>1
  <2>3. late' \subseteq Schedules /\ edits' \in 0 .. MaxEdits
    BY <1>1, WatchAssumption DEF Edit
  <2> QED BY <1>1, <2>1, <2>2, <2>3 DEF Edit, pass
<1>2. ASSUME NEW i \in Instances, ReadDefs(i) PROVE TypeOK'
  BY <1>2, DbTyped DEF ReadDefs, definitions, Goto
<1>3. ASSUME NEW i \in Instances, ReadSnapshots(i) PROVE TypeOK'
  <2>1. Plan(defs[i], snap, Seeded(snap)) \in SUBSET Change
    BY DEF Plan
  <2>2. troubles' \in 0 .. MaxTroubles
    BY <1>3, DbTyped DEF ReadSnapshots
  <2>3. todo' \in [Instances -> SUBSET Change] /\ unseeded' \in [Instances -> BOOLEAN] /\ pc' \in [Instances -> Points]
    BY <1>3, <2>1 DEF ReadSnapshots, Goto, Seeded, Points
  <2> QED BY <1>3, <2>2, <2>3 DEF ReadSnapshots, definitions, NoDefs, Points
<1>4. ASSUME NEW i \in Instances, Apply(i) PROVE TypeOK'
  <2>1. PICK c \in todo[i], ok \in BOOLEAN : Apply(i)!2!(c, ok)
    BY <1>4 DEF Apply
  <2>2. c \in Change
    BY <2>1
  <2>3. troubles' \in 0 .. MaxTroubles /\ todo' \in [Instances -> SUBSET Change]
    BY <2>1, DbTyped
  <2>4. CASE ok /\ Applies(c)
    <3>1. snap' = [snap EXCEPT ![c.id] = Stored(c)] /\ Stored(c) \in Definition
      BY <2>1, <2>2, <2>4, StoredTyped
    <3>2. snap' \in [Schedules -> Definition \cup {None}]
      BY <3>1
    <3>3. first' \in [Schedules -> BOOLEAN]
      BY <2>1, <2>2, <2>4 DEF Change, Definition
    <3>4. owed' \in [Instances -> SUBSET Change]
      <4>1. (IF c.kind = "seed" THEN {} ELSE {c}) \in SUBSET Change
        BY <2>2
      <4> QED BY <2>1, <2>4, <4>1
    <3>5. pc' \in [Instances -> Points]
      <4>1. (IF c.kind = "seed" THEN "each" ELSE "announce") \in Points
        BY DEF Points
      <4> QED BY <2>1, <2>4, <4>1 DEF Goto, Points
    <3> QED BY <1>4, <2>3, <3>2, <3>3, <3>4, <3>5 DEF Apply, definitions, Points
  <2>5. CASE ~(ok /\ Applies(c))
    BY <1>4, <2>1, <2>3, <2>5 DEF Apply, definitions
  <2> QED BY <2>4, <2>5
<1>5. ASSUME NEW i \in Instances, Announce(i) PROVE TypeOK'
  <2>1. PICK c \in owed[i], ok \in BOOLEAN : Announce(i)!2!(c, ok)
    BY <1>5 DEF Announce
  <2>2. said' \in [Schedules -> [Announced -> Nat]]
    BY <2>1, SaidTyped
  <2>3. troubles' \in 0 .. MaxTroubles
    BY <2>1, DbTyped
  <2> QED BY <1>5, <2>2, <2>3 DEF Announce, definitions, Goto
<1>6. ASSUME NEW i \in Instances, EndPass(i) PROVE TypeOK'
  BY <1>6, DbTyped DEF EndPass, definitions, Goto
<1>7. ASSUME NEW i \in Instances, Crash(i) PROVE TypeOK'
  BY <1>7, WatchAssumption DEF Crash, definitions, Goto, NoDefs
<1>8. CASE UNCHANGED vars
  BY <1>8 DEF vars, definitions, pass
<1> QED BY <1>1, <1>2, <1>3, <1>4, <1>5, <1>6, <1>7, <1>8 DEF Next, Pass

(* Every variable keeps its type: in particular a snapshot row is never      *)
(* stored without its flag or its hash, and every planned change names a     *)
(* schedule and a definition that was read.                                  *)
THEOREM TypesKept == Spec => []TypeOK
<1>1. TypeOK /\ [Next]_vars => TypeOK'
  BY TypeStep
<1> QED BY <1>1, TypeInit, PTL DEF Spec

-----------------------------------------------------------------------------
(* A creation is announced once.  Only the insert that succeeds on the unique *)
(* index entitles to the announcement, and a snapshot is never taken away.   *)
Owes(i, s) == \E c \in owed[i] : c.id = s /\ c.kind = "created"

AtMostOneOwed == \A i \in Instances : (\A c, d \in owed[i] : c = d) /\ (pc[i] # "announce" => owed[i] = {})
OneOwner == \A s \in Schedules : \A i, j \in Instances : Owes(i, s) /\ Owes(j, s) => i = j
OwedIsNew == \A s \in Schedules : \A i \in Instances : Owes(i, s) => said[s]["created"] = 0 /\ snap[s] # None
SaidIsStored == \A s \in Schedules : said[s]["created"] <= 1 /\ (said[s]["created"] > 0 => snap[s] # None)

CreateInv == TypeOK /\ AtMostOneOwed /\ OneOwner /\ OwedIsNew /\ SaidIsStored

(* Nobody owes anything at the start.                                        *)
LEMMA CreateInit == Init => CreateInv
<1> SUFFICES ASSUME Init PROVE CreateInv
  OBVIOUS
<1>1. \A i \in Instances : owed[i] = {}
  BY DEF Init
<1>2. \A s \in Schedules : said[s]["created"] = 0
  BY DEF Init, Announced, Kinds
<1> QED BY <1>1, <1>2, TypeInit DEF CreateInv, AtMostOneOwed, OneOwner, OwedIsNew, SaidIsStored, Owes

(* What one step may do to owed, said and snap without disturbing it.        *)
LEMMA CreateKept ==
    ASSUME CreateInv, TypeOK', UNCHANGED said,
           \A s \in Schedules : snap[s] # None => snap'[s] # None,
           \A i \in Instances : owed'[i] = {} \/ (owed'[i] = owed[i] /\ (pc'[i] = "announce" \/ pc'[i] = pc[i]))
    PROVE CreateInv'
<1>1. AtMostOneOwed'
  BY DEF CreateInv, AtMostOneOwed
<1>2. \A i \in Instances, s \in Schedules : Owes(i, s)' => Owes(i, s)
  BY DEF Owes
<1>3. OneOwner'
  BY <1>2 DEF CreateInv, OneOwner
<1>4. OwedIsNew' /\ SaidIsStored'
  BY <1>2 DEF CreateInv, OwedIsNew, SaidIsStored
<1> QED BY <1>1, <1>3, <1>4 DEF CreateInv

(* A step of Apply either writes nothing, or writes c and comes to owe it.   *)
LEMMA CreateApply == ASSUME CreateInv, TypeOK', NEW i \in Instances, Apply(i) PROVE CreateInv'
<1>1. PICK c \in todo[i], ok \in BOOLEAN : Apply(i)!2!(c, ok)
  BY DEF Apply
<1>2. c \in Change /\ c.id \in Schedules
  BY DEF CreateInv, TypeOK, Change
<1>3. said' = said /\ owed[i] = {}
  BY DEF Apply, CreateInv, AtMostOneOwed
<1>4. CASE ~(ok /\ Applies(c))
  BY <1>1, <1>3, <1>4, CreateKept
<1>5. CASE ok /\ Applies(c)
  <2>1. snap' = [snap EXCEPT ![c.id] = Stored(c)] /\ Stored(c) # None
    BY <1>1, <1>2, <1>5, StoredTyped, DefinitionIsSome DEF CreateInv
  <2>2. \A s \in Schedules : (snap[s] # None \/ s = c.id) => snap'[s] # None
    BY <1>2, <2>1 DEF CreateInv, TypeOK
  <2>3. CASE c.kind = "seed"
    BY <1>1, <1>3, <1>5, <2>2, <2>3, CreateKept DEF Goto, CreateInv, TypeOK
  <2>4. CASE c.kind # "seed"
    <3>1. owed' = [owed EXCEPT ![i] = {c}] /\ pc' = [pc EXCEPT ![i] = "announce"]
      BY <1>1, <1>5, <2>4 DEF Goto
    <3>2. AtMostOneOwed'
      BY <3>1 DEF AtMostOneOwed, CreateInv, TypeOK
    <3>3. \A j \in Instances, s \in Schedules : Owes(j, s)' => Owes(j, s) \/ (j = i /\ s = c.id /\ c.kind = "created")
      BY <3>1 DEF Owes, CreateInv, TypeOK
    <3>4. c.kind = "created" => snap[c.id] = None
      BY <1>5 DEF Applies
    <3>5. c.kind = "created" => said[c.id]["created"] = 0 /\ \A j \in Instances : ~Owes(j, c.id)
      <4>1. said[c.id]["created"] \in Nat
        BY <1>2 DEF CreateInv, TypeOK, Announced, Kinds
      <4> QED BY <1>2, <3>4, <4>1 DEF CreateInv, OwedIsNew, SaidIsStored
    <3>6. OneOwner'
      BY <3>3, <3>5 DEF OneOwner, CreateInv
    <3>7. OwedIsNew' /\ SaidIsStored'
      BY <1>3, <2>2, <3>3, <3>5 DEF OwedIsNew, SaidIsStored, CreateInv
    <3> QED BY <3>2, <3>6, <3>7 DEF CreateInv
  <2> QED BY <2>3, <2>4
<1> QED BY <1>4, <1>5

(* Announcing a creation raises its count from 0 to 1; nobody else owes it.   *)
LEMMA CreateAnnounce == ASSUME CreateInv, TypeOK', NEW i \in Instances, Announce(i) PROVE CreateInv'
<1>1. PICK c \in owed[i], ok \in BOOLEAN : said' = IF ok THEN [said EXCEPT ![c.id][c.kind] = @ + 1] ELSE said
  BY DEF Announce
<1>2. owed' = [owed EXCEPT ![i] = {}] /\ pc' = [pc EXCEPT ![i] = "each"] /\ snap' = snap
  BY DEF Announce, Goto
<1>3. c \in Change /\ c.id \in Schedules
  BY <1>1 DEF CreateInv, TypeOK, Change
<1>4. CASE said' = said
  BY <1>2, <1>4, CreateKept DEF CreateInv, TypeOK
<1>5. CASE said' = [said EXCEPT ![c.id][c.kind] = @ + 1]
  <2>1. \A s \in Schedules : said'[s]["created"] = said[s]["created"] + IF s = c.id /\ c.kind = "created" THEN 1 ELSE 0
    BY <1>3, <1>5 DEF CreateInv, TypeOK, Announced, Kinds
  <2>2. \A j \in Instances, s \in Schedules : Owes(j, s)' => Owes(j, s) /\ j # i
    BY <1>2 DEF Owes, CreateInv, TypeOK
  <2>3. c.kind = "created" => Owes(i, c.id)
    BY <1>1 DEF Owes
  <2>4. \A s \in Schedules : said[s]["created"] \in Nat
    BY DEF CreateInv, TypeOK, Announced, Kinds
  <2>5. AtMostOneOwed'
    BY <1>2 DEF AtMostOneOwed, CreateInv, TypeOK
  <2>6. OneOwner'
    BY <2>2 DEF OneOwner, CreateInv
  <2>7. OwedIsNew'
    BY <1>2, <1>3, <2>1, <2>2, <2>3, <2>4 DEF OwedIsNew, OneOwner, CreateInv
  <2>8. SaidIsStored'
    BY <1>2, <1>3, <2>1, <2>3, <2>4 DEF SaidIsStored, OwedIsNew, CreateInv
  <2> QED BY <2>5, <2>6, <2>7, <2>8 DEF CreateInv
<1> QED BY <1>1, <1>4, <1>5

(* Every step keeps it.                                                      *)
LEMMA CreateStep == ASSUME CreateInv, [Next]_vars PROVE CreateInv'
<1>0. TypeOK'
  BY TypeStep DEF CreateInv
<1>1. ASSUME NEW s \in Schedules, Edit(s) PROVE CreateInv'
  BY <1>0, <1>1, CreateKept DEF Edit, pass
<1>2. ASSUME NEW i \in Instances, ReadDefs(i) PROVE CreateInv'
  <2>1. owed' = owed /\ said' = said /\ snap' = snap /\ pc[i] = "idle"
    BY <1>2 DEF ReadDefs
  <2>2. \A j \in Instances : owed'[j] = {} \/ (owed'[j] = owed[j] /\ pc'[j] = pc[j])
    <3>1. owed[i] = {} /\ DOMAIN pc = Instances
      BY <2>1 DEF CreateInv, AtMostOneOwed, TypeOK
    <3>2. pc' = pc \/ \E point : pc' = [pc EXCEPT ![i] = point]
      BY <1>2 DEF ReadDefs, Goto
    <3> QED BY <2>1, <3>1, <3>2
  <2> QED BY <1>0, <2>1, <2>2, CreateKept
<1>3. ASSUME NEW i \in Instances, ReadSnapshots(i) PROVE CreateInv'
  <2>1. owed' = owed /\ said' = said /\ snap' = snap /\ pc[i] = "snapshots"
    BY <1>3 DEF ReadSnapshots
  <2>2. \A j \in Instances : owed'[j] = {} \/ (owed'[j] = owed[j] /\ pc'[j] = pc[j])
    <3>1. owed[i] = {} /\ DOMAIN pc = Instances
      BY <2>1 DEF CreateInv, AtMostOneOwed, TypeOK
    <3>2. pc' = pc \/ \E point : pc' = [pc EXCEPT ![i] = point]
      BY <1>3 DEF ReadSnapshots, Goto
    <3> QED BY <2>1, <3>1, <3>2
  <2> QED BY <1>0, <2>1, <2>2, CreateKept
<1>4. ASSUME NEW i \in Instances, Apply(i) PROVE CreateInv'
  BY <1>0, <1>4, CreateApply
<1>5. ASSUME NEW i \in Instances, Announce(i) PROVE CreateInv'
  BY <1>0, <1>5, CreateAnnounce
<1>6. ASSUME NEW i \in Instances, EndPass(i) PROVE CreateInv'
  <2>1. owed' = owed /\ said' = said /\ snap' = snap /\ pc[i] = "each"
    BY <1>6 DEF EndPass
  <2>2. \A j \in Instances : owed'[j] = {} \/ (owed'[j] = owed[j] /\ pc'[j] = pc[j])
    <3>1. owed[i] = {} /\ DOMAIN pc = Instances
      BY <2>1 DEF CreateInv, AtMostOneOwed, TypeOK
    <3>2. pc' = pc \/ \E point : pc' = [pc EXCEPT ![i] = point]
      BY <1>6 DEF EndPass, Goto
    <3> QED BY <2>1, <3>1, <3>2
  <2> QED BY <1>0, <2>1, <2>2, CreateKept
<1>7. ASSUME NEW i \in Instances, Crash(i) PROVE CreateInv'
  <2>1. owed' = [owed EXCEPT ![i] = {}] /\ said' = said /\ snap' = snap /\ pc' = [pc EXCEPT ![i] = "idle"]
    BY <1>7 DEF Crash, Goto
  <2>2. \A j \in Instances : owed'[j] = {} \/ (owed'[j] = owed[j] /\ pc'[j] = pc[j])
    BY <2>1 DEF CreateInv, TypeOK
  <2> QED BY <1>0, <2>1, <2>2, CreateKept
<1>8. CASE UNCHANGED vars
  BY <1>0, <1>8, CreateKept DEF vars, pass
<1> QED BY <1>1, <1>2, <1>3, <1>4, <1>5, <1>6, <1>7, <1>8 DEF Next, Pass

(* The announcements under way are counted by their only owner.              *)
LEMMA PendingCount ==
    ASSUME CreateInv, NEW s \in Schedules
    PROVE Pending(s, "created") = IF \E i \in Instances : Owes(i, s) THEN 1 ELSE 0
<1> DEFINE Owners == {i \in Instances : \E c \in owed[i] : c.id = s /\ c.kind = "created"}
<1>1. Pending(s, "created") = Cardinality(Owners)
  BY DEF Pending
<1>2. CASE \E i \in Instances : Owes(i, s)
  <2>1. PICK i \in Instances : Owes(i, s)
    BY <1>2
  <2>2. Owners = {i}
    BY <2>1 DEF Owes, OneOwner, CreateInv
  <2> QED BY <1>1, <1>2, <2>2, FS_Singleton
<1>3. CASE ~\E i \in Instances : Owes(i, s)
  <2>1. Owners = {}
    BY <1>3 DEF Owes
  <2> QED BY <1>1, <1>3, <2>1, FS_EmptySet
<1> QED BY <1>2, <1>3

(* However many schedulers compare the definitions, crash and lose statements, *)
(* a schedule is announced as created at most once (the unique index of the    *)
(* snapshots, schedule_watch.go:136-141).                                     *)
THEOREM CreatedOnceSound == Spec => []CreatedOnce
<1>1. CreateInv => CreatedOnce
  <2> SUFFICES ASSUME CreateInv, NEW s \in Schedules PROVE said[s]["created"] + Pending(s, "created") <= 1
    BY DEF CreatedOnce
  <2>1. said[s]["created"] \in Nat
    BY DEF CreateInv, TypeOK, Announced, Kinds
  <2> QED BY <2>1, PendingCount DEF CreateInv, OwedIsNew, SaidIsStored
<1>2. CreateInv /\ [Next]_vars => CreateInv'
  BY CreateStep
<1> QED BY <1>1, <1>2, CreateInit, PTL DEF Spec

-----------------------------------------------------------------------------
(* A late schedule is not seeded in silence.  A pass that found no marker read *)
(* its definitions before the marker was there, so that none of them is late. *)
Lost == {s \in late : snap[s] # None /\ said[s]["created"] = 0 /\ \A i \in Instances : ~Owes(i, s)}

ReadExists ==
    /\ \A i \in Instances, s \in Schedules : defs[i][s] # None => def[s] # None
    /\ \A i \in Instances : \A c \in todo[i] : def[c.id] # None
    /\ \A s \in Schedules : snap[s] # None => def[s] # None
SeedsAreEarly ==
    /\ late # {} => marker
    /\ \A s \in late : def[s] # None
    /\ \A i \in Instances : \A c \in todo[i] : c.kind = "seed" => c.id \notin late
LossesCounted == IsFiniteSet(late) /\ Cardinality(Lost) <= troubles

LateInv == CreateInv /\ ReadExists /\ SeedsAreEarly /\ LossesCounted

(* There is no late schedule at the start.                                   *)
LEMMA LateInit == Init => LateInv
<1> SUFFICES ASSUME Init PROVE LateInv
  OBVIOUS
<1>1. late = {} /\ Lost = {} /\ troubles = 0
  BY DEF Init, Lost
<1>2. LossesCounted
  BY <1>1, FS_EmptySet DEF LossesCounted
<1>3. ReadExists
  BY DEF Init, ReadExists, NoDefs
<1>4. SeedsAreEarly
  BY <1>1 DEF Init, SeedsAreEarly
<1> QED BY <1>2, <1>3, <1>4, CreateInit DEF LateInv

(* Losing nothing, or one announcement to one trouble, keeps the count.      *)
LEMMA NothingLost ==
    ASSUME LossesCounted, TypeOK, IsFiniteSet(late'), Lost' \subseteq Lost, troubles' \in Nat, troubles' >= troubles
    PROVE LossesCounted'
<1>1. IsFiniteSet(Lost)
  BY FS_Subset DEF Lost, LossesCounted
<1>2. Cardinality(Lost') <= Cardinality(Lost) /\ Cardinality(Lost) \in Nat /\ Cardinality(Lost') \in Nat
  BY <1>1, FS_Subset, FS_CardinalityType
<1>3. troubles \in Nat
  BY DEF TypeOK
<1> QED BY <1>2, <1>3 DEF LossesCounted

LEMMA OneLost ==
    ASSUME LossesCounted, TypeOK, late' = late, NEW x, Lost' \subseteq Lost \cup {x}, troubles' = troubles + 1
    PROVE LossesCounted'
<1>1. IsFiniteSet(Lost)
  BY FS_Subset DEF Lost, LossesCounted
<1>2. IsFiniteSet(Lost \cup {x}) /\ Cardinality(Lost \cup {x}) <= Cardinality(Lost) + 1 /\ Cardinality(Lost) \in Nat
  <2>1. Cardinality(Lost) \in Nat
    BY <1>1, FS_CardinalityType
  <2>2. /\ IsFiniteSet(Lost \cup {x})
        /\ Cardinality(Lost \cup {x}) = IF x \in Lost THEN Cardinality(Lost) ELSE Cardinality(Lost) + 1
    BY ONLY <1>1, FS_AddElement, Zenon
  <2> QED BY <2>1, <2>2
<1>3. Cardinality(Lost') <= Cardinality(Lost \cup {x}) /\ Cardinality(Lost') \in Nat /\ Cardinality(Lost \cup {x}) \in Nat
  BY <1>2, FS_Subset, FS_CardinalityType
<1>4. troubles \in Nat
  BY DEF TypeOK
<1> QED BY <1>2, <1>3, <1>4 DEF LossesCounted

(* An edit makes a schedule late before anybody has read it.                 *)
LEMMA LateEdit == ASSUME LateInv, CreateInv', NEW s \in Schedules, Edit(s) PROVE LateInv'
<1>1. PICK d \in Definition : def' = [def EXCEPT ![s] = d]
  BY DEF Edit
<1>2. UNCHANGED <<snap, marker, pc, defs, todo, unseeded, owed, said, first, troubles>>
  BY DEF Edit, pass
<1>3. late' = IF def[s] = None /\ marker THEN late \cup {s} ELSE late
  BY DEF Edit
<1>4. \A r \in Schedules : (def[r] # None \/ r = s) => def'[r] # None
  BY <1>1, DefinitionIsSome DEF LateInv, CreateInv, TypeOK
<1>5. \A i \in Instances : \A c \in todo[i] : c.id \in Schedules
  BY DEF LateInv, CreateInv, TypeOK, Change
<1>6. ReadExists'
  BY <1>2, <1>4, <1>5 DEF LateInv, ReadExists
<1>7. SeedsAreEarly'
  BY <1>2, <1>3, <1>4, <1>5 DEF LateInv, SeedsAreEarly, ReadExists, CreateInv, TypeOK
<1>8. IsFiniteSet(late')
  BY <1>3, FS_AddElement DEF LateInv, LossesCounted
<1>9. Lost' \subseteq Lost
  BY <1>2, <1>3 DEF Lost, Owes, LateInv, ReadExists
<1>10. troubles' \in Nat /\ troubles' >= troubles
  BY <1>2 DEF LateInv, CreateInv, TypeOK
<1> QED BY <1>6, <1>7, <1>8, <1>9, <1>10, NothingLost DEF LateInv, CreateInv

(* The definitions of a pass are read, then the marker with the snapshots.    *)
LEMMA LateRead == ASSUME LateInv, CreateInv', NEW i \in Instances, ReadDefs(i) \/ ReadSnapshots(i) PROVE LateInv'
<1>1. UNCHANGED <<def, late, snap, marker, said, owed>>
  BY DEF ReadDefs, ReadSnapshots, definitions
<1>2. \A j \in Instances, s \in Schedules : defs'[j][s] # None => def[s] # None
  <2>1. CASE ReadDefs(i)
    <3>1. defs' = [defs EXCEPT ![i] = def] \/ defs' = defs
      BY <2>1 DEF ReadDefs
    <3>2. DOMAIN defs = Instances /\ \A j \in Instances, s \in Schedules : defs[j][s] # None => def[s] # None
      BY DEF LateInv, ReadExists, CreateInv, TypeOK
    <3>3. \A j \in Instances : defs'[j] = def \/ defs'[j] = defs[j]
      BY <3>1, <3>2
    <3> QED BY <3>2, <3>3
  <2>2. CASE ReadSnapshots(i)
    <3>1. defs' = [defs EXCEPT ![i] = NoDefs]
      BY <2>2 DEF ReadSnapshots
    <3> QED BY <3>1 DEF LateInv, ReadExists, CreateInv, TypeOK, NoDefs
  <2> QED BY <2>1, <2>2
<1>3. \A j \in Instances : \A c \in todo'[j] : c \in todo[j] \/ (def[c.id] # None /\ (c.kind = "seed" => ~marker))
  <2>1. CASE ReadDefs(i)
    BY <2>1 DEF ReadDefs
  <2>2. CASE ReadSnapshots(i)
    <3>1. todo' = [todo EXCEPT ![i] = Plan(defs[i], snap, Seeded(snap))] \/ todo' = todo
      BY <2>2 DEF ReadSnapshots
    <3>2. \A c \in Plan(defs[i], snap, Seeded(snap)) :
            c.id \in Schedules /\ defs[i][c.id] # None /\ (c.kind = "seed" => ~marker)
      BY DEF Plan, Seeded, Change
    <3> QED BY <3>1, <3>2 DEF LateInv, ReadExists, CreateInv, TypeOK
  <2> QED BY <2>1, <2>2
<1>4. ReadExists' /\ SeedsAreEarly'
  BY <1>1, <1>2, <1>3 DEF LateInv, ReadExists, SeedsAreEarly
<1>5. Lost' \subseteq Lost
  BY <1>1 DEF Lost, Owes
<1>6. troubles' \in Nat /\ troubles' >= troubles
  BY DbTyped DEF ReadDefs, ReadSnapshots, LateInv, CreateInv, TypeOK
<1> QED BY <1>1, <1>4, <1>5, <1>6, NothingLost DEF LateInv, CreateInv, LossesCounted

(* What Apply stores is either not late, or stored already, or owed.         *)
LEMMA LateApply == ASSUME LateInv, CreateInv', NEW i \in Instances, Apply(i) PROVE LateInv'
<1>1. PICK c \in todo[i], ok \in BOOLEAN : Apply(i)!2!(c, ok)
  BY DEF Apply
<1>2. UNCHANGED <<def, late, marker, defs, said>> /\ owed[i] = {} /\ todo' = [todo EXCEPT ![i] = @ \ {c}]
  BY <1>1 DEF Apply, definitions, LateInv, CreateInv, AtMostOneOwed
<1>3. c.id \in Schedules /\ def[c.id] # None /\ (c.kind = "seed" => c.id \notin late)
  BY DEF LateInv, ReadExists, SeedsAreEarly, CreateInv, TypeOK, Change
<1>4. \A j \in Instances : \A b \in todo'[j] : b \in todo[j]
  BY <1>2 DEF LateInv, CreateInv, TypeOK
<1>5. \A s \in Schedules : snap'[s] # None => snap[s] # None \/ s = c.id
  <2>1. snap' = snap \/ snap' = [snap EXCEPT ![c.id] = Stored(c)]
    BY <1>1
  <2> QED BY <2>1 DEF LateInv, CreateInv, TypeOK
<1>6. ReadExists' /\ SeedsAreEarly'
  BY <1>2, <1>3, <1>4, <1>5 DEF LateInv, ReadExists, SeedsAreEarly
<1>7. \A j \in Instances, s \in Schedules : Owes(j, s) => Owes(j, s)'
  BY <1>1, <1>2 DEF Owes, LateInv, CreateInv, TypeOK
<1>8. (snap'[c.id] # None /\ snap[c.id] = None) => c.id \notin late \/ Owes(i, c.id)'
  <2> SUFFICES ASSUME snap'[c.id] # None, snap[c.id] = None, c.kind # "seed" PROVE Owes(i, c.id)'
    BY <1>3
  <2>1. ok /\ Applies(c)
    BY <1>1
  <2>2. c.kind = "created"
    BY <2>1 DEF Applies
  <2>3. owed' = [owed EXCEPT ![i] = {c}]
    BY <1>1, <2>1, <2>2
  <2> QED BY <2>2, <2>3 DEF Owes, LateInv, CreateInv, TypeOK
<1>9. Lost' \subseteq Lost
  BY <1>2, <1>5, <1>7, <1>8 DEF Lost, LateInv, CreateInv, TypeOK
<1>10. troubles' \in Nat /\ troubles' >= troubles
  BY <1>1, DbTyped DEF LateInv, CreateInv, TypeOK
<1> QED BY <1>2, <1>6, <1>9, <1>10, NothingLost DEF LateInv, CreateInv, LossesCounted

(* An announcement that cannot be logged is one loss for one trouble.        *)
LEMMA LateAnnounce == ASSUME LateInv, CreateInv', NEW i \in Instances, Announce(i) PROVE LateInv'
<1>1. PICK c \in owed[i], ok \in BOOLEAN : Announce(i)!2!(c, ok)
  BY DEF Announce
<1>2. UNCHANGED <<def, late, marker, defs, snap, todo>> /\ owed' = [owed EXCEPT ![i] = {}]
  BY DEF Announce, definitions
<1>3. ReadExists' /\ SeedsAreEarly'
  BY <1>2 DEF LateInv, ReadExists, SeedsAreEarly
<1>4. owed[i] = {c} /\ c.id \in Schedules /\ c.kind \in Kinds
  BY <1>1 DEF LateInv, CreateInv, AtMostOneOwed, TypeOK, Change
<1>5. \A j \in Instances, s \in Schedules : Owes(j, s) => Owes(j, s)' \/ (s = c.id /\ c.kind = "created")
  BY <1>2, <1>4 DEF Owes, LateInv, CreateInv, TypeOK
<1>6. CASE ok
  <2>1. said' = [said EXCEPT ![c.id][c.kind] = @ + 1]
    BY <1>1, <1>6
  <2>2. \A s \in Schedules : said'[s]["created"] = said[s]["created"] + IF s = c.id /\ c.kind = "created" THEN 1 ELSE 0
    BY <1>4, <2>1 DEF LateInv, CreateInv, TypeOK, Announced, Kinds
  <2>3. \A s \in Schedules : said[s]["created"] \in Nat
    BY DEF LateInv, CreateInv, TypeOK, Announced, Kinds
  <2>4. Lost' \subseteq Lost
    BY <1>2, <1>5, <2>2, <2>3 DEF Lost, LateInv, CreateInv, TypeOK
  <2>5. troubles' \in Nat /\ troubles' >= troubles
    BY <1>1, DbTyped DEF LateInv, CreateInv, TypeOK
  <2> QED BY <1>2, <1>3, <2>4, <2>5, NothingLost DEF LateInv, CreateInv, LossesCounted
<1>7. CASE ~ok
  <2>1. said' = said /\ troubles' = troubles + 1
    BY <1>1, <1>7 DEF Db
  <2>2. Lost' \subseteq Lost \cup {c.id}
    BY <1>2, <1>5, <2>1 DEF Lost, LateInv, CreateInv, TypeOK
  <2> QED BY <1>2, <1>3, <2>1, <2>2, OneLost DEF LateInv, CreateInv
<1> QED BY <1>6, <1>7

(* A crash loses the one announcement its process owed.                      *)
LEMMA LateCrash == ASSUME LateInv, CreateInv', NEW i \in Instances, Crash(i) PROVE LateInv'
<1>1. UNCHANGED <<def, late, marker, snap, said>> /\ troubles' = troubles + 1 /\ owed' = [owed EXCEPT ![i] = {}]
  BY DEF Crash, definitions
<1>2. defs' = [defs EXCEPT ![i] = NoDefs] /\ todo' = [todo EXCEPT ![i] = {}]
  BY DEF Crash
<1>3. ReadExists' /\ SeedsAreEarly'
  BY <1>1, <1>2 DEF LateInv, ReadExists, SeedsAreEarly, CreateInv, TypeOK, NoDefs
<1>4. PICK x : \A s \in Schedules : Owes(i, s) => s = x
  BY DEF Owes, LateInv, CreateInv, AtMostOneOwed
<1>5. \A j \in Instances, s \in Schedules : Owes(j, s) => Owes(j, s)' \/ s = x
  BY <1>1, <1>4 DEF Owes, LateInv, CreateInv, TypeOK
<1>6. Lost' \subseteq Lost \cup {x}
  BY <1>1, <1>5 DEF Lost, LateInv, CreateInv, TypeOK
<1> QED BY <1>1, <1>3, <1>6, OneLost DEF LateInv, CreateInv

(* The end of a pass sets the marker at most.                                *)
LEMMA LateEnd == ASSUME LateInv, CreateInv', NEW i \in Instances, EndPass(i) PROVE LateInv'
<1>1. UNCHANGED <<def, late, defs, snap, said, todo, owed>> /\ (marker => marker')
  BY DEF EndPass, definitions
<1>2. ReadExists' /\ SeedsAreEarly'
  BY <1>1 DEF LateInv, ReadExists, SeedsAreEarly
<1>3. Lost' \subseteq Lost
  BY <1>1 DEF Lost, Owes
<1>4. troubles' \in Nat /\ troubles' >= troubles
  BY DbTyped DEF EndPass, LateInv, CreateInv, TypeOK
<1> QED BY <1>1, <1>2, <1>3, <1>4, NothingLost DEF LateInv, CreateInv, LossesCounted

(* Every step keeps it.                                                      *)
LEMMA LateStep == ASSUME LateInv, [Next]_vars PROVE LateInv'
<1>0. CreateInv'
  BY CreateStep DEF LateInv
<1>1. CASE UNCHANGED vars
  <2>1. UNCHANGED <<def, late, marker, defs, snap, said, todo, owed, troubles>>
    BY <1>1 DEF vars, definitions, pass
  <2>2. Lost' = Lost
    BY <2>1 DEF Lost, Owes
  <2> QED BY <1>0, <2>1, <2>2 DEF LateInv, ReadExists, SeedsAreEarly, LossesCounted
<1> QED BY <1>0, <1>1, LateEdit, LateRead, LateApply, LateAnnounce, LateEnd, LateCrash DEF Next, Pass

(* A schedule created once the marker is there is announced as created unless  *)
(* a crash or a failed statement came right after the insert of its snapshot,  *)
(* one for each announcement lost: no scheduler whose pass began before the    *)
(* marker seeds it in silence (schedule_watch.go:112-128, 161-163).            *)
THEOREM LateAnnouncedSound == Spec => []LateIsAnnounced
<1>1. LateInv => LateIsAnnounced
  <2> SUFFICES ASSUME LateInv PROVE LateIsAnnounced
    OBVIOUS
  <2>1. \A s \in late : s \in Schedules /\ said[s]["created"] \in Nat
    BY DEF LateInv, CreateInv, TypeOK, Announced, Kinds
  <2>2. \A s \in late : said[s]["created"] + Pending(s, "created") = 0
                          <=> said[s]["created"] = 0 /\ \A i \in Instances : ~Owes(i, s)
    BY <2>1, PendingCount DEF LateInv
  <2>3. {s \in late : snap[s] # None /\ said[s]["created"] + Pending(s, "created") = 0} = Lost
    BY <2>2 DEF Lost
  <2> QED BY <2>3 DEF LateIsAnnounced, LateInv, LossesCounted
<1>2. LateInv /\ [Next]_vars => LateInv'
  BY LateStep
<1> QED BY <1>1, <1>2, LateInit, PTL DEF Spec

-----------------------------------------------------------------------------
(* The flag is told by its changes.  An applied change of the flag finds the   *)
(* other value stored and is owed at once, so that stored flag, announcements   *)
(* logged and announcements owed move together; only what ends a pass between   *)
(* the write and the event, or fails the event, parts them, once for a trouble. *)
Flags == {"enabled", "disabled"}
Owing(s, k) == {i \in Instances : \E c \in owed[i] : c.id = s /\ c.kind = k}
Told(s, k) == said[s][k] + Pending(s, k)

FlagChange(c) == c.kind \in Flags => c.old \in Definition /\ c.old.on # c.def.on /\ (c.def.on <=> c.kind = "enabled")
ChangesSound == \A i \in Instances : \A c \in todo[i] : FlagChange(c)
Balance(s) == (Flag(snap[s].on) - Flag(first[s])) - (Told(s, "enabled") - Told(s, "disabled"))
Balanced(s) ==
    /\ \A k \in Flags : IsFiniteSet(Owing(s, k))
    /\ snap[s] = None => \A k \in Flags : Told(s, k) = 0
    /\ snap[s] # None => Abs(Balance(s)) <= troubles
FlagInv == CreateInv /\ ChangesSound /\ \A s \in Schedules : Balanced(s)

LEMMA PendingIs == ASSUME NEW s, NEW k PROVE Pending(s, k) = Cardinality(Owing(s, k))
BY DEF Pending, Owing

LEMMA ToldTyped ==
    ASSUME CreateInv, NEW s \in Schedules, NEW k \in Flags, IsFiniteSet(Owing(s, k))
    PROVE Pending(s, k) \in Nat /\ said[s][k] \in Nat /\ Told(s, k) \in Nat
<1>1. Pending(s, k) \in Nat
  BY PendingIs, FS_CardinalityType
<1>2. said[s][k] \in Nat
  BY DEF CreateInv, TypeOK, Announced, Kinds, Flags
<1> QED BY <1>1, <1>2 DEF Told

(* What a pass comes to owe is one announcement more; what it no longer owes,  *)
(* one less.                                                                  *)
LEMMA OwesMore ==
    ASSUME CreateInv, NEW i \in Instances, NEW c, owed[i] = {}, owed'[i] = {c},
           \A j \in Instances : j # i => owed'[j] = owed[j],
           NEW s \in Schedules, NEW k, IsFiniteSet(Owing(s, k))
    PROVE  /\ IsFiniteSet(Owing(s, k)')
           /\ Pending(s, k)' = Pending(s, k) + IF c.id = s /\ c.kind = k THEN 1 ELSE 0
<1>0. i \notin Owing(s, k) /\ Pending(s, k)' = Cardinality(Owing(s, k)')
  BY DEF Owing, Pending
<1>2. Pending(s, k) \in Nat
  BY PendingIs, FS_CardinalityType
<1>3. CASE c.id = s /\ c.kind = k
  <2>1. Owing(s, k)' = Owing(s, k) \cup {i}
    BY <1>3 DEF Owing
  <2>2. IsFiniteSet(Owing(s, k) \cup {i}) /\ Cardinality(Owing(s, k) \cup {i}) = Cardinality(Owing(s, k)) + 1
    BY <1>0, FS_AddElement
  <2> QED BY <1>0, <1>3, <2>1, <2>2, PendingIs
<1>4. CASE ~(c.id = s /\ c.kind = k)
  <2>1. Owing(s, k)' = Owing(s, k)
    BY <1>0, <1>4 DEF Owing
  <2> QED BY <1>0, <1>2, <1>4, <2>1, PendingIs
<1> QED BY <1>3, <1>4

LEMMA OwesLess ==
    ASSUME CreateInv, NEW i \in Instances, owed'[i] = {}, \A j \in Instances : j # i => owed'[j] = owed[j],
           NEW s \in Schedules, NEW k, IsFiniteSet(Owing(s, k))
    PROVE  /\ IsFiniteSet(Owing(s, k)')
           /\ Pending(s, k)' = Pending(s, k) - IF i \in Owing(s, k) THEN 1 ELSE 0
<1>0. Pending(s, k)' = Cardinality(Owing(s, k)') /\ Pending(s, k) \in Nat
  BY PendingIs, FS_CardinalityType DEF Owing, Pending
<1>2. Owing(s, k)' = Owing(s, k) \ {i}
  BY DEF Owing
<1>3. /\ IsFiniteSet(Owing(s, k) \ {i})
      /\ Cardinality(Owing(s, k) \ {i}) = IF i \in Owing(s, k) THEN Cardinality(Owing(s, k)) - 1 ELSE Cardinality(Owing(s, k))
  BY FS_RemoveElement
<1> QED BY <1>0, <1>2, <1>3, PendingIs

(* One announcement lost is worth one trouble. *)
LEMMA OffByOne ==
    ASSUME NEW x \in Int, NEW y \in Int, NEW n \in Nat, Abs(x) <= n
    PROVE  /\ y \in {x - 1, x, x + 1} => Abs(y) <= n + 1
           /\ y = x => \A m \in Nat : m >= n => Abs(y) <= m
BY DEF Abs

(* A step that neither writes a snapshot nor changes what is told. *)
LEMMA FlagKept ==
    ASSUME FlagInv, CreateInv', ChangesSound', UNCHANGED <<snap, first>>, troubles' >= troubles,
           \A s \in Schedules, k \in Flags : IsFiniteSet(Owing(s, k)') /\ Told(s, k)' = Told(s, k)
    PROVE  FlagInv'
<1> SUFFICES ASSUME NEW s \in Schedules PROVE Balanced(s)'
  BY DEF FlagInv
<1>1. Balance(s)' = Balance(s)
  BY DEF Balance, Flags
<1>2. troubles \in Nat /\ troubles' \in Nat
  BY DEF FlagInv, CreateInv, TypeOK
<1>3. Told(s, "enabled") \in Nat /\ Told(s, "disabled") \in Nat
  BY ToldTyped DEF FlagInv, Balanced, Flags
<1>4. Balance(s) \in Int
  BY <1>3 DEF Balance, Flag
<1>5. snap[s] # None => Abs(Balance(s)) <= troubles'
  BY <1>2, <1>4, OffByOne DEF FlagInv, Balanced
<1> QED BY <1>1, <1>5 DEF FlagInv, Balanced

LEMMA FlagInit == Init => FlagInv
<1> SUFFICES ASSUME Init PROVE FlagInv
  OBVIOUS
<1>1. ChangesSound
  BY DEF Init, ChangesSound
<1>2. ASSUME NEW s \in Schedules PROVE Balanced(s)
  <2>1. \A k \in Flags : Owing(s, k) = {} /\ said[s][k] = 0
    BY DEF Init, Owing, Flags, Announced, Kinds
  <2>2. \A k \in Flags : IsFiniteSet(Owing(s, k)) /\ Told(s, k) = 0
    BY <2>1, PendingIs, FS_EmptySet DEF Told
  <2>3. snap[s] = None
    BY DEF Init, NoDefs
  <2> QED BY <2>2, <2>3 DEF Balanced
<1> QED BY <1>1, <1>2, CreateInit DEF FlagInv

(* A plan changes a flag only from its other value. *)
LEMMA PlanSound ==
    ASSUME NEW read, NEW stored, NEW seeded, NEW c \in Plan(read, stored, seeded)
    PROVE  FlagChange(c)
<1>1. c \in Change /\ (c.kind \in Flags => /\ c.old # None /\ c.old.on # c.def.on
                                          /\ c.kind = IF c.def.on THEN "enabled" ELSE "disabled")
  BY DEF Plan, Flags
<1> QED BY <1>1 DEF Change, FlagChange, Definition

LEMMA FlagEdit == ASSUME FlagInv, CreateInv', NEW s \in Schedules, Edit(s) PROVE FlagInv'
<1>1. UNCHANGED <<snap, first, troubles, owed, said, todo>>
  BY DEF Edit, pass
<1>2. ChangesSound' /\ \A r \in Schedules, k \in Flags : IsFiniteSet(Owing(r, k)') /\ Told(r, k)' = Told(r, k)
  BY <1>1 DEF FlagInv, ChangesSound, Balanced, Owing, Told, Pending
<1>3. troubles \in Nat
  BY DEF FlagInv, CreateInv, TypeOK
<1> QED BY <1>1, <1>2, <1>3, FlagKept

LEMMA FlagRead ==
    ASSUME FlagInv, CreateInv', NEW i \in Instances, ReadDefs(i) \/ ReadSnapshots(i) \/ EndPass(i)
    PROVE FlagInv'
<1>1. UNCHANGED <<snap, first, owed, said>>
  BY DEF ReadDefs, ReadSnapshots, EndPass
<1>2. todo' = todo \/ todo' = [todo EXCEPT ![i] = Plan(defs[i], snap, Seeded(snap))]
  BY DEF ReadDefs, ReadSnapshots, EndPass
<1>3. ChangesSound'
  <2>1. \A c \in Plan(defs[i], snap, Seeded(snap)) : FlagChange(c)
    BY PlanSound
  <2>2. DOMAIN todo = Instances /\ \A j \in Instances : \A c \in todo[j] : FlagChange(c)
    BY DEF FlagInv, ChangesSound, CreateInv, TypeOK
  <2>3. \A j \in Instances : todo'[j] = todo[j] \/ todo'[j] = Plan(defs[i], snap, Seeded(snap))
    BY <1>2, <2>2
  <2>4. \A j \in Instances : \A c \in todo'[j] : FlagChange(c)
    BY <2>1, <2>2, <2>3
  <2> QED BY <2>4 DEF ChangesSound, FlagChange
<1>4. troubles' >= troubles
  BY DbTyped DEF ReadDefs, ReadSnapshots, EndPass, FlagInv, CreateInv, TypeOK
<1>5. \A r \in Schedules, k \in Flags : IsFiniteSet(Owing(r, k)') /\ Told(r, k)' = Told(r, k)
  BY <1>1 DEF FlagInv, Balanced, Owing, Told, Pending
<1> QED BY <1>1, <1>3, <1>4, <1>5, FlagKept

(* A change that is written moves the flag and what is told by the same; the   *)
(* first snapshot sets where the count begins.                                *)
LEMMA FlagApply == ASSUME FlagInv, CreateInv', NEW i \in Instances, Apply(i) PROVE FlagInv'
<1>1. PICK c \in todo[i], ok \in BOOLEAN : Apply(i)!2!(c, ok)
  BY DEF Apply
<1>2. /\ said' = said /\ owed[i] = {} /\ todo' = [todo EXCEPT ![i] = @ \ {c}]
      /\ c \in Change /\ c.id \in Schedules /\ FlagChange(c)
  <2>1. said' = said /\ owed[i] = {}
    BY DEF Apply, FlagInv, CreateInv, AtMostOneOwed
  <2>2. c \in Change /\ c.id \in Schedules
    BY <1>1 DEF FlagInv, CreateInv, TypeOK, Change
  <2>3. FlagChange(c)
    BY <1>1 DEF FlagInv, ChangesSound
  <2> QED BY <1>1, <2>1, <2>2, <2>3
<1>3. ChangesSound'
  BY <1>2 DEF FlagInv, ChangesSound, CreateInv, TypeOK
<1>4. troubles' >= troubles /\ troubles \in Nat
  BY <1>1, DbTyped DEF FlagInv, CreateInv, TypeOK
<1>5. CASE ~(ok /\ Applies(c))
  <2>1. UNCHANGED <<snap, first, owed>>
    BY <1>1, <1>5
  <2>2. \A r \in Schedules, k \in Flags : IsFiniteSet(Owing(r, k)') /\ Told(r, k)' = Told(r, k)
    BY <1>2, <2>1 DEF FlagInv, Balanced, Owing, Told, Pending
  <2> QED BY <1>3, <1>4, <2>1, <2>2, FlagKept
<1>6. CASE ok /\ Applies(c)
  <2>1. /\ snap' = [snap EXCEPT ![c.id] = Stored(c)] /\ troubles' = troubles
        /\ first' = IF snap[c.id] = None THEN [first EXCEPT ![c.id] = c.def.on] ELSE first
        /\ owed' = [owed EXCEPT ![i] = IF c.kind = "seed" THEN {} ELSE {c}]
    BY <1>1, <1>6 DEF Db
  <2>2. \A r \in Schedules, k \in Flags :
          /\ IsFiniteSet(Owing(r, k)')
          /\ Told(r, k)' = Told(r, k) + IF c.id = r /\ c.kind = k THEN 1 ELSE 0
    <3> SUFFICES ASSUME NEW r \in Schedules, NEW k \in Flags
                 PROVE  /\ IsFiniteSet(Owing(r, k)')
                        /\ Told(r, k)' = Told(r, k) + IF c.id = r /\ c.kind = k THEN 1 ELSE 0
      OBVIOUS
    <3>1. IsFiniteSet(Owing(r, k)) /\ Pending(r, k) \in Nat /\ said[r][k] \in Nat
      BY ToldTyped DEF FlagInv, Balanced
    <3>2. CASE c.kind = "seed"
      <4>1. owed' = owed
        BY <1>2, <2>1, <3>2 DEF FlagInv, CreateInv, TypeOK
      <4>2. Owing(r, k)' = Owing(r, k) /\ Pending(r, k)' = Pending(r, k)
        BY <4>1 DEF Owing, Pending
      <4> QED BY <1>2, <3>1, <3>2, <4>2 DEF Told, Flags
    <3>3. CASE c.kind # "seed"
      <4>1. owed'[i] = {c} /\ \A j \in Instances : j # i => owed'[j] = owed[j]
        BY <2>1, <3>3 DEF FlagInv, CreateInv, TypeOK
      <4>2. IsFiniteSet(Owing(r, k)') /\ Pending(r, k)' = Pending(r, k) + IF c.id = r /\ c.kind = k THEN 1 ELSE 0
        BY <1>2, <3>1, <4>1, OwesMore DEF FlagInv
      <4> QED BY <1>2, <3>1, <4>2 DEF Told
    <3> QED BY <3>2, <3>3
  <2>3. ASSUME NEW r \in Schedules, r # c.id PROVE Balanced(r)'
    <3>1. snap'[r] = snap[r] /\ first'[r] = first[r]
      BY <1>2, <2>1, <2>3 DEF FlagInv, CreateInv, TypeOK
    <3>2. \A k \in Flags : Told(r, k)' = Told(r, k)
      BY <2>2, <2>3, ToldTyped DEF FlagInv, Balanced
    <3>3. Balance(r)' = Balance(r)
      BY <3>1, <3>2 DEF Balance, Flags
    <3> QED BY <2>1, <2>2, <3>1, <3>2, <3>3 DEF FlagInv, Balanced
  <2>4. snap'[c.id] = Stored(c) /\ Stored(c) # None
    BY <1>2, <1>6, <2>1, StoredTyped, DefinitionIsSome DEF FlagInv, CreateInv, TypeOK
  <2>5. \A k \in Flags : Told(c.id, k) \in Nat
    BY <1>2, ToldTyped DEF FlagInv, Balanced
  <2>6. Abs(Balance(c.id)') <= troubles
    <3>1. CASE c.kind \in {"seed", "created"}
      <4>1. snap[c.id] = None /\ Stored(c) = c.def
        BY <1>6, <3>1 DEF Applies, Stored
      <4>2. first'[c.id] = c.def.on
        BY <1>2, <2>1, <4>1 DEF FlagInv, CreateInv, TypeOK
      <4>3. \A k \in Flags : Told(c.id, k)' = 0
        BY <1>2, <2>2, <3>1, <4>1 DEF FlagInv, Balanced, Flags
      <4>4. Balance(c.id)' = (Flag(c.def.on) - Flag(c.def.on)) - (0 - 0)
        BY <2>4, <4>1, <4>2, <4>3 DEF Balance, Flags
      <4> QED BY <1>4, <4>4 DEF Flag, Abs
    <3>2. CASE c.kind \notin {"seed", "created"}
      <4>0. snap[c.id] # None /\ snap[c.id] \in Definition /\ c.def \in Definition
        BY <1>2, <1>6, <3>2 DEF Applies, FlagInv, CreateInv, TypeOK, Change
      <4>1. first'[c.id] = first[c.id] /\ Abs(Balance(c.id)) <= troubles
        BY <1>2, <2>1, <4>0 DEF FlagInv, Balanced
      <4>2. CASE c.kind = "updated"
        <5>1. Stored(c).on = snap[c.id].on
          BY <4>0, <4>2 DEF Stored, Definition
        <5>2. \A k \in Flags : Told(c.id, k)' = Told(c.id, k)
          BY <1>2, <2>2, <2>5, <4>2 DEF Flags
        <5>3. Balance(c.id)' = Balance(c.id)
          BY <2>4, <4>1, <5>1, <5>2 DEF Balance, Flags
        <5> QED BY <4>1, <5>3
      <4>3. CASE c.kind \in Flags
        <5>1. Stored(c).on = c.def.on /\ snap[c.id].on = c.old.on /\ c.old.on # c.def.on
              /\ (c.def.on <=> c.kind = "enabled") /\ c.old.on \in BOOLEAN /\ c.def.on \in BOOLEAN
          BY <1>2, <1>6, <4>0, <4>3 DEF Stored, Definition, Applies, Flags, FlagChange
        <5>2. /\ Told(c.id, "enabled")' = Told(c.id, "enabled") + IF c.kind = "enabled" THEN 1 ELSE 0
              /\ Told(c.id, "disabled")' = Told(c.id, "disabled") + IF c.kind = "disabled" THEN 1 ELSE 0
          BY <1>2, <2>2 DEF Flags
        <5>3. Flag(c.def.on) - Flag(c.old.on) = IF c.kind = "enabled" THEN 1 ELSE -1
          BY <5>1 DEF Flag
        <5>4. Told(c.id, "enabled") \in Nat /\ Told(c.id, "disabled") \in Nat
          BY <2>5 DEF Flags
        <5>5. Flag(c.def.on) \in Int /\ Flag(c.old.on) \in Int /\ Flag(first[c.id]) \in Int
          BY DEF Flag
        <5>6. Balance(c.id) = (Flag(c.old.on) - Flag(first[c.id])) - (Told(c.id, "enabled") - Told(c.id, "disabled"))
          BY <5>1 DEF Balance
        <5>7. Balance(c.id)' = (Flag(c.def.on) - Flag(first[c.id])) - (Told(c.id, "enabled")' - Told(c.id, "disabled")')
          BY <2>4, <4>1, <5>1 DEF Balance
        <5>8. Balance(c.id)' = Balance(c.id)
          BY <4>3, <5>2, <5>3, <5>4, <5>5, <5>6, <5>7 DEF Flags
        <5> QED BY <4>1, <5>8
      <4>4. c.kind \in Kinds
        BY <1>2 DEF Change
      <4> QED BY <3>2, <4>2, <4>3, <4>4 DEF Kinds, Flags
    <3> QED BY <3>1, <3>2
  <2>7. Balanced(c.id)'
    BY <1>2, <2>1, <2>2, <2>4, <2>6 DEF Balanced
  <2> QED BY <1>3, <2>3, <2>7 DEF FlagInv
<1> QED BY <1>5, <1>6

(* What one step takes from the announcements owed is logged, or is the one     *)
(* loss of one trouble.                                                        *)
LEMMA FlagLost ==
    ASSUME FlagInv, CreateInv', ChangesSound', UNCHANGED <<snap, first, said>>, NEW i \in Instances,
           owed' = [owed EXCEPT ![i] = {}], troubles' = troubles + 1
    PROVE  FlagInv'
<1> SUFFICES ASSUME NEW s \in Schedules PROVE Balanced(s)'
  BY DEF FlagInv
<1>1. \A k \in Flags : /\ IsFiniteSet(Owing(s, k)) /\ said[s][k] \in Nat /\ Pending(s, k) \in Nat /\ Told(s, k) \in Nat
  BY ToldTyped DEF FlagInv, Balanced
<1>2. \A k \in Flags : /\ IsFiniteSet(Owing(s, k)')
                       /\ Pending(s, k)' = Pending(s, k) - IF i \in Owing(s, k) THEN 1 ELSE 0
  <2>1. CreateInv /\ owed'[i] = {} /\ \A j \in Instances : j # i => owed'[j] = owed[j]
    BY DEF FlagInv, CreateInv, TypeOK
  <2> QED BY <1>1, <2>1, OwesLess
<1>3. ~(i \in Owing(s, "enabled") /\ i \in Owing(s, "disabled"))
  BY DEF FlagInv, CreateInv, AtMostOneOwed, Owing
<1>4. \A k \in Flags : Told(s, k)' = Told(s, k) - IF i \in Owing(s, k) THEN 1 ELSE 0
  BY <1>1, <1>2 DEF Told
<1>5. \A k \in Flags : Owing(s, k) # {} => Told(s, k) # 0
  BY <1>1, PendingIs, FS_EmptySet DEF Told
<1>6. snap[s] = None => \A k \in Flags : Told(s, k)' = 0
  BY <1>4, <1>5 DEF FlagInv, Balanced
<1>7. Flag(snap[s].on) - Flag(first[s]) \in Int
  BY DEF Flag
<1>8. Balance(s) \in Int /\ Balance(s)' \in {Balance(s) - 1, Balance(s), Balance(s) + 1}
  BY <1>1, <1>3, <1>4, <1>7 DEF Balance, Flags
<1>9. snap[s] # None => Abs(Balance(s)') <= troubles + 1
  <2>1. troubles \in Nat
    BY DEF FlagInv, CreateInv, TypeOK
  <2> QED BY <1>8, <2>1, OffByOne DEF FlagInv, Balanced
<1> QED BY <1>2, <1>6, <1>9 DEF Balanced

LEMMA FlagAnnounce == ASSUME FlagInv, CreateInv', NEW i \in Instances, Announce(i) PROVE FlagInv'
<1>1. PICK c \in owed[i], ok \in BOOLEAN : Announce(i)!2!(c, ok)
  BY DEF Announce
<1>2. UNCHANGED <<snap, first, todo>> /\ owed' = [owed EXCEPT ![i] = {}]
  BY DEF Announce
<1>3. c.id \in Schedules /\ c.kind \in Kinds /\ owed[i] = {c}
  BY <1>1 DEF FlagInv, CreateInv, AtMostOneOwed, TypeOK, Change
<1>4. ChangesSound'
  BY <1>2 DEF FlagInv, ChangesSound
<1>5. CASE ~ok
  <2>1. said' = said /\ troubles' = troubles + 1
    BY <1>1, <1>5 DEF Db
  <2> QED BY <1>2, <1>4, <2>1, FlagLost
<1>6. CASE ok
  <2>1. said' = [said EXCEPT ![c.id][c.kind] = @ + 1] /\ troubles' = troubles
    BY <1>1, <1>6 DEF Db
  <2>2. ASSUME NEW s \in Schedules, NEW k \in Flags
        PROVE  IsFiniteSet(Owing(s, k)') /\ Told(s, k)' = Told(s, k)
    <3>1. /\ IsFiniteSet(Owing(s, k)) /\ said[s][k] \in Nat /\ Pending(s, k) \in Nat
      BY ToldTyped DEF FlagInv, Balanced
    <3>2. /\ IsFiniteSet(Owing(s, k)')
          /\ Pending(s, k)' = Pending(s, k) - IF i \in Owing(s, k) THEN 1 ELSE 0
      <4>1. CreateInv /\ owed'[i] = {} /\ \A j \in Instances : j # i => owed'[j] = owed[j]
        BY <1>2 DEF FlagInv, CreateInv, TypeOK
      <4> QED BY <3>1, <4>1, OwesLess
    <3>3. i \in Owing(s, k) <=> c.id = s /\ c.kind = k
      BY <1>3 DEF Owing
    <3>4. said'[s][k] = said[s][k] + IF c.id = s /\ c.kind = k THEN 1 ELSE 0
      BY <1>3, <2>1, <3>1 DEF FlagInv, CreateInv, TypeOK, Announced, Kinds, Flags
    <3> QED BY <3>1, <3>2, <3>3, <3>4 DEF Told
  <2>3. troubles \in Nat
    BY DEF FlagInv, CreateInv, TypeOK
  <2> QED BY <1>2, <1>4, <2>1, <2>2, <2>3, FlagKept
<1> QED BY <1>5, <1>6

LEMMA FlagStep == ASSUME FlagInv, [Next]_vars PROVE FlagInv'
<1>0. CreateInv'
  BY CreateStep DEF FlagInv
<1>1. ASSUME NEW i \in Instances, Crash(i) PROVE FlagInv'
  <2>1. /\ UNCHANGED <<snap, first, said>> /\ troubles' = troubles + 1
        /\ owed' = [owed EXCEPT ![i] = {}] /\ todo' = [todo EXCEPT ![i] = {}]
    BY <1>1 DEF Crash
  <2>2. ChangesSound'
    BY <2>1 DEF FlagInv, ChangesSound, CreateInv, TypeOK
  <2> QED BY <1>0, <2>1, <2>2, FlagLost
<1>2. CASE UNCHANGED vars
  <2>1. UNCHANGED <<snap, first, said, owed, todo, troubles>>
    BY <1>2 DEF vars, pass
  <2>2. ChangesSound' /\ \A r \in Schedules, k \in Flags : IsFiniteSet(Owing(r, k)') /\ Told(r, k)' = Told(r, k)
    BY <2>1 DEF FlagInv, ChangesSound, Balanced, Owing, Told, Pending
  <2>3. troubles \in Nat
    BY DEF FlagInv, CreateInv, TypeOK
  <2> QED BY <1>0, <2>1, <2>2, <2>3, FlagKept
<1> QED BY <1>0, <1>1, <1>2, FlagEdit, FlagRead, FlagApply, FlagAnnounce DEF Next, Pass

(* enabled and disabled are announced in turn (schedule_watch.go:152-156): a   *)
(* flag is written only over its other value and by the scheduler that then     *)
(* announces it, so the events of a schedule tell the flag that is stored, but  *)
(* for one event per crash or failed statement.                               *)
THEOREM FlagToldSound == Spec => []FlagIsTold
<1>1. FlagInv => FlagIsTold
  <2> SUFFICES ASSUME FlagInv, NEW s \in Schedules, snap[s] # None
               PROVE  Abs((Flag(snap[s].on) - Flag(first[s]))
                          - (said[s]["enabled"] + Pending(s, "enabled") - said[s]["disabled"] - Pending(s, "disabled"))) <= troubles
    BY DEF FlagIsTold
  <2>1. /\ said[s]["enabled"] \in Nat /\ said[s]["disabled"] \in Nat
        /\ Pending(s, "enabled") \in Nat /\ Pending(s, "disabled") \in Nat
    BY ToldTyped DEF FlagInv, Balanced, Flags
  <2>2. Told(s, "enabled") - Told(s, "disabled")
          = said[s]["enabled"] + Pending(s, "enabled") - said[s]["disabled"] - Pending(s, "disabled")
    BY <2>1 DEF Told
  <2> QED BY <2>2 DEF FlagInv, Balanced, Balance
<1>2. FlagInv /\ [Next]_vars => FlagInv'
  BY FlagStep
<1> QED BY <1>1, <1>2, FlagInit, PTL DEF Spec

-----------------------------------------------------------------------------
(* How often an update can be announced.  The hashes a definition has had are  *)
(* its versions, 0 to edited[s].  An update takes the snapshot from one version *)
(* to another and so over at least one edit.  A scheduler takes it back over an *)
(* edit only with what it read before that edit, once at most; and whoever      *)
(* first takes it forward over an edit has read after it, and never takes it    *)
(* back.  With N schedulers that is N - 1 times back and N times forward.       *)
Team == IsFiniteSet(Instances) /\ Instances # {}
Size == Cardinality(Instances)

(* What a pass has in hand at each of its points. *)
ShapeOf(i) ==
    /\ pc[i] # "snapshots" => defs[i] = NoDefs
    /\ pc[i] \in {"idle", "snapshots"} => todo[i] = {}
    /\ \A c \in todo[i] : c.kind = "updated" => c.old \in Definition /\ c.old.hash # c.def.hash
    /\ \A c, d \in todo[i] : (c.kind = "updated" /\ d.kind = "updated" /\ c.id = d.id) => c = d
PassShape == \A i \in Instances : ShapeOf(i)

(* Who may still write an update of s from a version up to k; dv[i] is the     *)
(* version i has read.                                                        *)
MayWrite(i, s) == defs[i][s] # None \/ \E c \in todo[i] : c.id = s /\ c.kind = "updated"
Behind(s, dv, k) == {i \in Instances : dv[i] <= k /\ MayWrite(i, s)}

(* x[k] is how often the snapshot, at version sv, has been taken over edit k + 1. *)
Room(s, sv, dv, x, k) ==
    IF snap[s] # None /\ k < sv THEN x[k] + 2 * Cardinality(Behind(s, dv, k)) <= 2 * Size - 1
    ELSE x[k] = 0 \/ x[k] + 2 * Cardinality(Behind(s, dv, k)) <= 2 * Size - 2
Crossings(x, E) == {p \in (0 .. (E - 1)) \X (1 .. (2 * Size - 1)) : p[2] <= x[p[1]]}

InHand(i, s, h, v) ==
    /\ defs[i][s] # None => defs[i][s].hash = h[v]
    /\ \A c \in todo[i] : c.id = s => c.def.hash = h[v]
Accounted(s, h, sv, dv, x) ==
    /\ def[s] = None => edited[s] = 0
    /\ def[s] # None => def[s].hash = h[edited[s]]
    /\ sv <= edited[s] /\ (snap[s] # None => snap[s].hash = h[sv])
    /\ \A i \in Instances : dv[i] <= edited[s] /\ InHand(i, s, h, dv[i])
    /\ \A k \in Nat : k >= edited[s] => x[k] = 0
    /\ \A k \in Nat : k < edited[s] => Room(s, sv, dv, x, k)
    /\ Told(s, "updated") <= Cardinality(Crossings(x, edited[s]))
Ledgered(s) == \E h \in [Nat -> Hashes], sv \in Nat : \E dv \in [Instances -> Nat], x \in [Nat -> Nat] :
                  Accounted(s, h, sv, dv, x)

UpdateInv == LateInv /\ PassShape /\ \A s \in Schedules : Ledgered(s)

(* Counting pairs of an edit and a crossing of it. *)
LEMMA CrossingsCounted ==
    ASSUME Team, NEW x, NEW E \in Nat
    PROVE  /\ IsFiniteSet(Crossings(x, E)) /\ Cardinality(Crossings(x, E)) \in Nat
           /\ Cardinality(Crossings(x, E)) <= E * (2 * Size - 1)
<1>0. Size \in Nat /\ Size >= 1
  BY FS_CardinalityType, FS_EmptySet DEF Team, Size
<1> DEFINE A == 0 .. (E - 1)
           B == 1 .. (2 * Size - 1)
<1>1. IsFiniteSet(A) /\ Cardinality(A) = E
  BY FS_Interval
<1>2. IsFiniteSet(B) /\ Cardinality(B) = 2 * Size - 1
  <2>1. PICK n \in Nat : n = 2 * Size - 1 /\ n >= 1
    BY <1>0
  <2>2. IsFiniteSet(1 .. n) /\ Cardinality(1 .. n) = n
    BY <2>1, FS_Interval
  <2> QED BY <2>1, <2>2
<1>3. Crossings(x, E) \in SUBSET (A \X B)
  BY DEF Crossings
<1> HIDE DEF A, B
<1>4. IsFiniteSet(A \X B) /\ Cardinality(A \X B) = Cardinality(A) * Cardinality(B)
  BY ONLY <1>1, <1>2, FS_Product
<1>5. /\ IsFiniteSet(Crossings(x, E)) /\ Cardinality(Crossings(x, E)) \in Nat
      /\ Cardinality(Crossings(x, E)) <= Cardinality(A \X B)
  BY <1>3, <1>4, FS_Subset, FS_CardinalityType
<1> QED BY <1>1, <1>2, <1>4, <1>5

LEMMA CrossingsGrow ==
    ASSUME Team, NEW x \in [Nat -> Nat], NEW y \in [Nat -> Nat], NEW E \in Nat, NEW F \in Nat, E <= F,
           \A k \in Nat : y[k] >= x[k]
    PROVE  Cardinality(Crossings(x, E)) <= Cardinality(Crossings(y, F))
<1>0. Size \in Nat /\ Size >= 1
  BY FS_CardinalityType, FS_EmptySet DEF Team, Size
<1>1. Crossings(x, E) \subseteq Crossings(y, F)
  BY <1>0 DEF Crossings
<1> QED BY <1>1, CrossingsCounted, FS_Subset

LEMMA CrossingAdded ==
    ASSUME Team, NEW x \in [Nat -> Nat], NEW y \in [Nat -> Nat], NEW E \in Nat,
           \A k \in Nat : y[k] >= x[k], NEW k0 \in 0 .. (E - 1), y[k0] = x[k0] + 1, y[k0] <= 2 * Size - 1
    PROVE  Cardinality(Crossings(x, E)) + 1 <= Cardinality(Crossings(y, E))
<1>0. Size \in Nat /\ Size >= 1
  BY FS_CardinalityType, FS_EmptySet DEF Team, Size
<1> DEFINE p == <<k0, x[k0] + 1>>
<1>1. p \notin Crossings(x, E) /\ p \in Crossings(y, E)
  BY <1>0 DEF Crossings
<1>2. Crossings(x, E) \cup {p} \subseteq Crossings(y, E)
  BY <1>0, <1>1 DEF Crossings
<1>3. Cardinality(Crossings(x, E) \cup {p}) = Cardinality(Crossings(x, E)) + 1
  BY <1>1, CrossingsCounted, FS_AddElement
<1> HIDE DEF p
<1> QED BY <1>2, <1>3, CrossingsCounted, FS_Subset

LEMMA BehindCounted ==
    ASSUME Team, NEW S, S \subseteq Instances
    PROVE  IsFiniteSet(S) /\ Cardinality(S) \in Nat /\ Cardinality(S) <= Size
BY FS_Subset, FS_CardinalityType DEF Team, Size

(* With fewer left behind, and no crossing, there is no less room. *)
LEMMA RoomKept ==
    ASSUME Team, NEW s, NEW sv \in Nat, NEW dv \in [Instances -> Nat], NEW dw \in [Instances -> Nat],
           NEW x \in [Nat -> Nat], NEW k \in Nat, Room(s, sv, dv, x, k),
           snap'[s] = None <=> snap[s] = None, Behind(s, dw, k)' \subseteq Behind(s, dv, k)
    PROVE  Room(s, sv, dw, x, k)'
<1>1. Behind(s, dv, k) \subseteq Instances
  BY DEF Behind
<1>2. Cardinality(Behind(s, dw, k)') <= Cardinality(Behind(s, dv, k))
  BY <1>1, BehindCounted, FS_Subset
<1>3. Cardinality(Behind(s, dw, k)') \in Nat /\ Cardinality(Behind(s, dv, k)) \in Nat /\ Size \in Nat /\ x[k] \in Nat
  <2>1. Behind(s, dw, k)' \subseteq Instances
    BY <1>1
  <2> QED BY <1>1, <2>1, BehindCounted DEF Team, Size
<1>4. Cardinality(Behind(s, dw, k))' = Cardinality(Behind(s, dw, k)')
  OBVIOUS
<1> QED BY <1>2, <1>3, <1>4 DEF Room

(* A scheduler writes its version over the one that is stored: x[k] goes up by  *)
(* one for every edit between the two.                                        *)
Between(k, a, b) == (a <= k /\ k < b) \/ (b <= k /\ k < a)

LEMMA RoomMoved ==
    ASSUME Team, NEW s, NEW sv \in Nat, NEW dv \in [Instances -> Nat], NEW x \in [Nat -> Nat], NEW y \in [Nat -> Nat],
           NEW k \in Nat, NEW i \in Instances, Room(s, sv, dv, x, k), snap'[s] # None,
           Behind(s, dv, k)' \subseteq Behind(s, dv, k),
           (snap[s] # None /\ dv[i] <= k) => i \in Behind(s, dv, k) /\ i \notin Behind(s, dv, k)',
           y[k] = x[k] + IF snap[s] # None /\ Between(k, sv, dv[i]) THEN 1 ELSE 0
    PROVE  Room(s, dv[i], dv, y, k)'
<1> DEFINE B == Behind(s, dv, k)
           d == Cardinality(B)
           e == Cardinality(B')
<1>0. B \subseteq Instances /\ B' \subseteq Instances /\ Size \in Nat /\ dv[i] \in Nat /\ x[k] \in Nat /\ y[k] \in Nat
  BY FS_CardinalityType DEF Behind, Team, Size
<1>1. IsFiniteSet(B) /\ d \in Nat /\ e \in Nat /\ e <= d
  BY <1>0, BehindCounted, FS_Subset
<1>2. d' = e
  OBVIOUS
<1>3. k < dv[i] => d <= Size - 1
  <2> SUFFICES ASSUME k < dv[i] PROVE d <= Size - 1
    OBVIOUS
  <2>1. i \notin B
    BY <1>0 DEF Behind
  <2>2. B \in SUBSET (Instances \ {i})
    BY <1>0, <2>1
  <2>3. IsFiniteSet(Instances \ {i}) /\ Cardinality(Instances \ {i}) = Size - 1
    BY FS_RemoveElement DEF Team, Size
  <2> QED BY <2>2, <2>3, FS_Subset
<1>4. (snap[s] # None /\ dv[i] <= k) => e <= d - 1
  <2> SUFFICES ASSUME snap[s] # None, dv[i] <= k PROVE e <= d - 1
    OBVIOUS
  <2>1. B' \in SUBSET (B \ {i})
    OBVIOUS
  <2>2. IsFiniteSet(B \ {i}) /\ Cardinality(B \ {i}) = d - 1
    BY <1>1, FS_RemoveElement
  <2> QED BY <2>1, <2>2, FS_Subset
<1>5. Room(s, sv, dv, x, k) <=> IF snap[s] # None /\ k < sv THEN x[k] + 2 * d <= 2 * Size - 1
                                ELSE x[k] = 0 \/ x[k] + 2 * d <= 2 * Size - 2
  BY DEF Room
<1>6. Room(s, dv[i], dv, y, k)' <=> IF k < dv[i] THEN y[k] + 2 * e <= 2 * Size - 1
                                    ELSE y[k] = 0 \/ y[k] + 2 * e <= 2 * Size - 2
  BY <1>2 DEF Room
<1> HIDE DEF d, e
<1>7. CASE k < dv[i]
  <2>1. CASE snap[s] # None /\ k < sv
    BY <1>0, <1>1, <1>5, <1>6, <1>7, <2>1 DEF Between
  <2>2. CASE ~(snap[s] # None /\ k < sv)
    <3>1. y[k] <= x[k] + 1
      BY <1>0
    <3> QED BY <1>0, <1>1, <1>3, <1>5, <1>6, <1>7, <2>2, <3>1
  <2> QED BY <2>1, <2>2
<1>8. CASE ~(k < dv[i])
  <2>1. CASE snap[s] # None /\ k < sv
    <3>1. y[k] = x[k] + 1
      BY <1>0, <1>8, <2>1 DEF Between
    <3> QED BY <1>0, <1>1, <1>4, <1>5, <1>6, <1>8, <2>1, <3>1
  <2>2. CASE ~(snap[s] # None /\ k < sv)
    <3>1. y[k] = x[k]
      BY <1>0, <1>8, <2>2 DEF Between
    <3> QED BY <1>0, <1>1, <1>5, <1>6, <1>8, <2>2, <3>1
  <2> QED BY <2>1, <2>2
<1> QED BY <1>7, <1>8

LEMMA UpdatesTold ==
    ASSUME CreateInv, Team, NEW s \in Schedules
    PROVE  /\ IsFiniteSet(Owing(s, "updated"))
           /\ Pending(s, "updated") \in Nat /\ said[s]["updated"] \in Nat /\ Told(s, "updated") \in Nat
<1>1. Owing(s, "updated") \subseteq Instances
  BY DEF Owing
<1>2. IsFiniteSet(Owing(s, "updated")) /\ Pending(s, "updated") \in Nat
  BY <1>1, BehindCounted, PendingIs
<1>3. said[s]["updated"] \in Nat
  BY DEF CreateInv, TypeOK, Announced, Kinds
<1> QED BY <1>2, <1>3 DEF Told

LEMMA UpdatesToldNext ==
    ASSUME CreateInv', Team, NEW s \in Schedules
    PROVE  Told(s, "updated")' \in Nat
<1>1. Owing(s, "updated")' \subseteq Instances
  BY DEF Owing
<1>2. Cardinality(Owing(s, "updated")') \in Nat
  BY <1>1, BehindCounted
<1>3. Pending(s, "updated")' = Cardinality(Owing(s, "updated")')
  BY DEF Pending, Owing
<1>4. said'[s]["updated"] \in Nat
  BY DEF CreateInv, TypeOK, Announced, Kinds
<1> QED BY <1>2, <1>3, <1>4 DEF Told

(* A step that writes no hash: a pass may have read, planned, or given up. *)
LEMMA AccountKept ==
    ASSUME Team, CreateInv, CreateInv', NEW s \in Schedules,
           NEW h \in [Nat -> Hashes], NEW sv \in Nat, NEW dv \in [Instances -> Nat], NEW x \in [Nat -> Nat],
           Accounted(s, h, sv, dv, x), NEW dw \in [Instances -> Nat],
           edited'[s] = edited[s], def'[s] = def[s],
           snap'[s] = None <=> snap[s] = None, snap[s] # None => snap'[s].hash = snap[s].hash,
           \A i \in Instances : dw[i] <= edited[s] /\ InHand(i, s, h, dw[i])',
           \A k \in Nat : k < edited[s] => Behind(s, dw, k)' \subseteq Behind(s, dv, k),
           Told(s, "updated")' <= Told(s, "updated")
    PROVE  Ledgered(s)'
<1>1. \A k \in Nat : k < edited[s] => Room(s, sv, dw, x, k)'
  BY RoomKept DEF Accounted
<1>2. edited[s] \in Nat /\ Cardinality(Crossings(x, edited[s])) \in Nat
  BY CrossingsCounted DEF CreateInv, TypeOK
<1>3. Told(s, "updated") \in Nat /\ Told(s, "updated")' \in Nat
  BY UpdatesTold, UpdatesToldNext
<1>4. Told(s, "updated")' <= Cardinality(Crossings(x, edited[s]))
  BY <1>2, <1>3 DEF Accounted
<1>5. (Cardinality(Crossings(x, edited[s])))' = Cardinality(Crossings(x, edited[s]))
  BY DEF Crossings, Size
<1>6. Accounted(s, h, sv, dw, x)'
  BY <1>1, <1>4, <1>5 DEF Accounted
<1> QED BY <1>6 DEF Ledgered

(* Writing a version: the snapshot is made, or taken over at least one edit.   *)
LEMMA AccountMoved ==
    ASSUME Team, CreateInv, CreateInv', NEW s \in Schedules,
           NEW h \in [Nat -> Hashes], NEW sv \in Nat, NEW dv \in [Instances -> Nat], NEW x \in [Nat -> Nat],
           Accounted(s, h, sv, dv, x), NEW i \in Instances,
           edited'[s] = edited[s], def'[s] = def[s],
           snap'[s] # None, snap'[s].hash = h[dv[i]],
           \A j \in Instances : InHand(j, s, h, dv[j])' /\ (MayWrite(j, s)' => MayWrite(j, s)),
           snap[s] # None => snap[s].hash # h[dv[i]] /\ MayWrite(i, s) /\ ~MayWrite(i, s)',
           Told(s, "updated")' <= Told(s, "updated") + IF snap[s] # None THEN 1 ELSE 0
    PROVE  Ledgered(s)'
<1>a. PICK E : E = edited[s]
  OBVIOUS
<1>b. PICK over \in SUBSET Nat : \A k \in Nat : k \in over <=> snap[s] # None /\ Between(k, sv, dv[i])
  <2> DEFINE S == {k \in Nat : snap[s] # None /\ Between(k, sv, dv[i])}
  <2>1. S \in SUBSET Nat /\ \A k \in Nat : k \in S <=> snap[s] # None /\ Between(k, sv, dv[i])
    OBVIOUS
  <2> QED BY <2>1
<1> DEFINE y == [k \in Nat |-> x[k] + IF k \in over THEN 1 ELSE 0]
<1>0. E \in Nat /\ sv <= E /\ dv[i] \in Nat /\ dv[i] <= E
  BY <1>a DEF CreateInv, TypeOK, Accounted
<1>1. y \in [Nat -> Nat] /\ \A k \in Nat : y[k] >= x[k]
  OBVIOUS
<1>2. ASSUME NEW k \in Nat, k < E PROVE Room(s, dv[i], dv, y, k)'
  <2>1. Room(s, sv, dv, x, k)
    BY <1>a, <1>2 DEF Accounted
  <2>2. Behind(s, dv, k)' \subseteq Behind(s, dv, k)
    BY DEF Behind
  <2>3. (snap[s] # None /\ dv[i] <= k) => i \in Behind(s, dv, k) /\ i \notin Behind(s, dv, k)'
    BY DEF Behind
  <2>4. y[k] = x[k] + IF snap[s] # None /\ Between(k, sv, dv[i]) THEN 1 ELSE 0
    BY <1>b
  <2> HIDE DEF y
  <2> QED BY <1>1, <2>1, <2>2, <2>3, <2>4, RoomMoved
<1>3. \A k \in Nat : k >= E => y[k] = 0
  <2> SUFFICES ASSUME NEW k \in Nat, k >= E PROVE y[k] = 0
    OBVIOUS
  <2>1. k \notin over
    BY <1>0, <1>b DEF Between
  <2> QED BY <1>a, <2>1 DEF Accounted
<1>4. /\ Told(s, "updated") \in Nat /\ Told(s, "updated")' \in Nat
      /\ Cardinality(Crossings(x, E)) \in Nat /\ Cardinality(Crossings(y, E)) \in Nat
      /\ Told(s, "updated") <= Cardinality(Crossings(x, E))
  <2>1. Told(s, "updated") \in Nat /\ Told(s, "updated")' \in Nat
    BY UpdatesTold, UpdatesToldNext
  <2>2. Cardinality(Crossings(x, E)) \in Nat /\ Cardinality(Crossings(y, E)) \in Nat
    BY <1>0, CrossingsCounted
  <2> QED BY <1>a, <2>1, <2>2 DEF Accounted
<1>5. Told(s, "updated")' <= Cardinality(Crossings(y, E))
  <2>1. CASE snap[s] = None
    <3>1. Cardinality(Crossings(x, E)) <= Cardinality(Crossings(y, E))
      <4> HIDE DEF y
      <4>1. E <= E
        BY <1>0
      <4> QED BY ONLY Team, <1>0, <1>1, <4>1, CrossingsGrow
    <3> HIDE DEF y
    <3> QED BY <1>4, <2>1, <3>1
  <2>2. CASE snap[s] # None
    <3>1. sv # dv[i]
      BY <2>2 DEF Accounted
    <3>2. PICK k \in Nat : k < E /\ Between(k, sv, dv[i])
      <4>1. CASE sv < dv[i]
        BY <1>0, <4>1 DEF Between
      <4>2. CASE dv[i] < sv
        BY <1>0, <4>2 DEF Between
      <4> QED BY <1>0, <3>1, <4>1, <4>2
    <3>3. y[k] = x[k] + 1 /\ x[k] \in Nat
      BY <1>b, <2>2, <3>2
    <3> HIDE DEF y
    <3>4. y[k] <= 2 * Size - 1
      <4>1. Behind(s, dv, k)' \subseteq Instances
        BY DEF Behind
      <4>2. Cardinality(Behind(s, dv, k)') \in Nat /\ Size \in Nat
        BY <4>1, BehindCounted, FS_CardinalityType DEF Team, Size
      <4>3. \/ y[k] + 2 * Cardinality(Behind(s, dv, k)') <= 2 * Size - 1
            \/ y[k] = 0
            \/ y[k] + 2 * Cardinality(Behind(s, dv, k)') <= 2 * Size - 2
        <5>1. Room(s, dv[i], dv, y, k)'
          BY <1>2, <3>2
        <5> QED BY <5>1 DEF Room
      <4> QED BY <3>3, <4>2, <4>3
    <3>5. k \in 0 .. (E - 1)
      BY <1>0, <3>2
    <3>6. Cardinality(Crossings(x, E)) + 1 <= Cardinality(Crossings(y, E))
      BY <1>0, <1>1, <3>3, <3>4, <3>5, CrossingAdded
    <3> QED BY <1>4, <2>2, <3>6
  <2> QED BY <2>1, <2>2
<1> HIDE DEF y
<1>6. (Cardinality(Crossings(y, edited[s])))' = Cardinality(Crossings(y, E))
  BY <1>a DEF Crossings, Size
<1>7. Accounted(s, h, dv[i], dv, y)'
  BY <1>a, <1>0, <1>2, <1>3, <1>5, <1>6 DEF Accounted
<1> QED BY <1>0, <1>1, <1>7 DEF Ledgered

LEMMA ShapeStep == ASSUME TypeOK, PassShape, [Next]_vars PROVE PassShape'
<1>0. /\ DOMAIN pc = Instances /\ DOMAIN defs = Instances /\ DOMAIN todo = Instances
      /\ \A i \in Instances : todo[i] \subseteq Change
  BY DEF TypeOK
<1>1. ASSUME NEW i \in Instances, Pass(i) \/ Crash(i),
             \A j \in Instances : j # i => pc'[j] = pc[j] /\ defs'[j] = defs[j] /\ todo'[j] = todo[j],
             ShapeOf(i)'
      PROVE  PassShape'
  BY <1>1 DEF PassShape, ShapeOf
<1>2. ASSUME NEW i \in Instances, ReadDefs(i) PROVE PassShape'
  <2>1. pc[i] = "idle" /\ todo' = todo
    BY <1>2 DEF ReadDefs
  <2>2. \/ defs' = [defs EXCEPT ![i] = def] /\ pc' = [pc EXCEPT ![i] = "snapshots"]
        \/ UNCHANGED <<defs, pc>>
    BY <1>2 DEF ReadDefs, Goto
  <2>3. ShapeOf(i)'
    BY <1>0, <2>1, <2>2 DEF PassShape, ShapeOf
  <2> QED BY <1>0, <1>1, <1>2, <2>1, <2>2, <2>3 DEF Pass
<1>3. ASSUME NEW i \in Instances, ReadSnapshots(i) PROVE PassShape'
  <2>1. pc[i] = "snapshots" /\ defs' = [defs EXCEPT ![i] = NoDefs]
    BY <1>3 DEF ReadSnapshots
  <2>2. \/ todo' = [todo EXCEPT ![i] = Plan(defs[i], snap, Seeded(snap))] /\ pc' = [pc EXCEPT ![i] = "each"]
        \/ todo' = todo /\ pc' = [pc EXCEPT ![i] = "idle"]
    BY <1>3 DEF ReadSnapshots, Goto
  <2>3. \A c \in Plan(defs[i], snap, Seeded(snap)) : c.kind = "updated" =>
           c \in Change /\ c.def = defs[i][c.id] /\ c.old = snap[c.id] /\ c.old # None /\ c.old.hash # c.def.hash
    BY DEF Plan
  <2>4. \A c, d \in Plan(defs[i], snap, Seeded(snap)) :
           (c.kind = "updated" /\ d.kind = "updated" /\ c.id = d.id) => c = d
    BY <2>3 DEF Change
  <2>5. \A c \in Plan(defs[i], snap, Seeded(snap)) : c.kind = "updated" => c.old \in Definition
    BY <2>3 DEF Change
  <2>6. ShapeOf(i)'
    BY <1>0, <2>1, <2>2, <2>3, <2>4, <2>5 DEF PassShape, ShapeOf
  <2> QED BY <1>0, <1>1, <1>3, <2>1, <2>2, <2>6 DEF Pass
<1>4. ASSUME NEW i \in Instances, Apply(i) PROVE PassShape'
  <2>1. PICK c \in todo[i], ok \in BOOLEAN : Apply(i)!2!(c, ok)
    BY <1>4 DEF Apply
  <2>2. pc[i] = "each" /\ defs' = defs /\ todo' = [todo EXCEPT ![i] = @ \ {c}]
    BY <1>4, <2>1 DEF Apply
  <2>3. pc' = pc \/ pc' = [pc EXCEPT ![i] = "each"] \/ pc' = [pc EXCEPT ![i] = "announce"]
    BY <2>1 DEF Goto
  <2>4. ShapeOf(i)'
    BY <1>0, <2>2, <2>3 DEF PassShape, ShapeOf
  <2> QED BY <1>0, <1>1, <1>4, <2>2, <2>3, <2>4 DEF Pass
<1>5. ASSUME NEW i \in Instances, Announce(i) PROVE PassShape'
  <2>1. pc[i] = "announce" /\ defs' = defs /\ todo' = todo /\ pc' = [pc EXCEPT ![i] = "each"]
    BY <1>5 DEF Announce, Goto
  <2>2. ShapeOf(i)'
    BY <1>0, <2>1 DEF PassShape, ShapeOf
  <2> QED BY <1>0, <1>1, <1>5, <2>1, <2>2 DEF Pass
<1>6. ASSUME NEW i \in Instances, EndPass(i) PROVE PassShape'
  <2>1. pc[i] = "each" /\ todo[i] = {} /\ defs' = defs /\ todo' = todo /\ pc' = [pc EXCEPT ![i] = "idle"]
    BY <1>6 DEF EndPass, Goto
  <2>2. ShapeOf(i)'
    BY <1>0, <2>1 DEF PassShape, ShapeOf
  <2> QED BY <1>0, <1>1, <1>6, <2>1, <2>2 DEF Pass
<1>7. ASSUME NEW i \in Instances, Crash(i) PROVE PassShape'
  <2>1. /\ pc' = [pc EXCEPT ![i] = "idle"]
        /\ defs' = [defs EXCEPT ![i] = NoDefs] /\ todo' = [todo EXCEPT ![i] = {}]
    BY <1>7 DEF Crash, Goto
  <2>2. ShapeOf(i)'
    BY <1>0, <2>1 DEF PassShape, ShapeOf
  <2> QED BY <1>0, <1>1, <1>7, <2>1, <2>2
<1>8. CASE UNCHANGED <<pc, defs, todo>>
  BY <1>8 DEF PassShape, ShapeOf
<1>9. ASSUME NEW s \in Schedules, Edit(s) PROVE PassShape'
  BY <1>8, <1>9 DEF Edit, pass
<1> QED BY <1>2, <1>3, <1>4, <1>5, <1>6, <1>7, <1>8, <1>9 DEF Next, Pass, vars, pass

LEMMA UpdateInit == ASSUME Team, Init PROVE UpdateInv
<1>1. PassShape
  BY DEF Init, PassShape, ShapeOf, NoDefs
<1>2. ASSUME NEW s \in Schedules PROVE Ledgered(s)
  <2>1. PICK a \in Hashes : def \in [Schedules -> {None, [hash |-> a, on |-> TRUE]}]
    BY DEF Init
  <2> DEFINE h == [k \in Nat |-> a]
             x == [k \in Nat |-> 0]
             dv == [i \in Instances |-> 0]
  <2>2. h \in [Nat -> Hashes] /\ x \in [Nat -> Nat] /\ dv \in [Instances -> Nat]
    OBVIOUS
  <2>3. edited[s] = 0 /\ snap[s] = None /\ \A i \in Instances : defs[i][s] = None /\ todo[i] = {}
    BY DEF Init, NoDefs
  <2>4. Told(s, "updated") = 0
    <3>1. Owing(s, "updated") = {} /\ said[s]["updated"] = 0
      BY DEF Init, Owing, Announced, Kinds
    <3> QED BY <3>1, PendingIs, FS_EmptySet DEF Told
  <2>5. Cardinality(Crossings(x, edited[s])) \in Nat
    BY <2>3, CrossingsCounted
  <2>6. def[s] # None => def[s].hash = h[edited[s]]
    BY <2>1, <2>3
  <2>7. Accounted(s, h, 0, dv, x)
    BY <2>3, <2>4, <2>5, <2>6 DEF Accounted, InHand
  <2> HIDE DEF h, x, dv
  <2> QED BY <2>2, <2>7 DEF Ledgered
<1> QED BY <1>1, <1>2, LateInit DEF UpdateInv

(* A step that leaves the definition, the snapshot's hash and what others have  *)
(* in hand alone. *)
LEMMA LedgerKept ==
    ASSUME Team, CreateInv, CreateInv', NEW s \in Schedules, Ledgered(s),
           edited'[s] = edited[s], def'[s] = def[s],
           snap'[s] = None <=> snap[s] = None, snap[s] # None => snap'[s].hash = snap[s].hash,
           \A i \in Instances : defs'[i][s] = None \/ defs'[i][s] = defs[i][s],
           \A i \in Instances : \A c \in todo'[i] : c.id = s =>
              c \in todo[i] \/ (defs[i][s] # None /\ c.def = defs[i][s]),
           Told(s, "updated")' <= Told(s, "updated")
    PROVE  Ledgered(s)'
<1>1. PICK h \in [Nat -> Hashes], sv \in Nat : \E dv \in [Instances -> Nat], x \in [Nat -> Nat] : Accounted(s, h, sv, dv, x)
  BY DEF Ledgered
<1>2. PICK dv \in [Instances -> Nat], x \in [Nat -> Nat] : Accounted(s, h, sv, dv, x)
  BY <1>1
<1>3. \A i \in Instances : dv[i] <= edited[s] /\ InHand(i, s, h, dv[i])
  BY <1>2 DEF Accounted
<1>4. \A i \in Instances : InHand(i, s, h, dv[i])'
  BY <1>3 DEF InHand
<1>5. \A i \in Instances : MayWrite(i, s)' => MayWrite(i, s)
  BY DEF MayWrite
<1>6. \A k \in Nat : Behind(s, dv, k)' \subseteq Behind(s, dv, k)
  BY <1>5 DEF Behind
<1> QED BY <1>2, <1>3, <1>4, <1>6, AccountKept

(* An edit of what the hash covers adds a version that nobody has yet.         *)
LEMMA UpdateEdit ==
    ASSUME Team, UpdateInv, LateInv', NEW r \in Schedules, Edit(r), NEW s \in Schedules
    PROVE  Ledgered(s)'
<1>0. CreateInv /\ CreateInv' /\ ReadExists /\ Ledgered(s)
  BY DEF UpdateInv, LateInv
<1>1. UNCHANGED <<snap, defs, todo, owed, said>>
  BY DEF Edit, pass
<1>2. PICK d \in Definition :
         /\ def' = [def EXCEPT ![r] = d]
         /\ edited' = [edited EXCEPT ![r] = IF def[r] = None \/ def[r].hash = d.hash THEN @ ELSE @ + 1]
  BY DEF Edit
<1>3. Told(s, "updated")' = Told(s, "updated") /\ Told(s, "updated") \in Nat
  BY <1>0, <1>1, UpdatesTold DEF Told, Pending
<1>4. CASE s # r
  <2>1. def'[s] = def[s] /\ edited'[s] = edited[s]
    BY <1>0, <1>2, <1>4 DEF CreateInv, TypeOK
  <2> QED BY <1>0, <1>1, <1>3, <2>1, LedgerKept
<1>5. CASE s = r
  <2>0. PICK E, F : E = edited[s] /\ F = edited'[s]
    OBVIOUS
  <2>1. PICK h \in [Nat -> Hashes], sv \in Nat : \E dv \in [Instances -> Nat], x \in [Nat -> Nat] : Accounted(s, h, sv, dv, x)
    BY <1>0 DEF Ledgered
  <2>2. PICK dv \in [Instances -> Nat], x \in [Nat -> Nat] : Accounted(s, h, sv, dv, x)
    BY <2>1
  <2>3. /\ def'[s] = d /\ d # None /\ d.hash \in Hashes /\ E \in Nat
        /\ F = IF def[s] = None \/ def[s].hash = d.hash THEN E ELSE E + 1
    BY <1>0, <1>2, <1>5, <2>0, DefinitionIsSome DEF CreateInv, TypeOK, Definition
  <2> DEFINE g == [h EXCEPT ![F] = d.hash]
  <2>4. F \in Nat /\ g \in [Nat -> Hashes] /\ g[F] = d.hash
    BY <2>3
  <2>5. def[s] # None => \A v \in Nat : v <= E => g[v] = h[v]
    BY <2>0, <2>2, <2>3 DEF Accounted
  <2>6. def'[s] # None /\ def'[s].hash = g[edited'[s]]
    BY <2>0, <2>3, <2>4
  <2> HIDE DEF g
  <2>7. sv <= F /\ (snap'[s] # None => snap'[s].hash = g[sv])
    BY <1>0, <1>1, <2>0, <2>2, <2>3, <2>5 DEF Accounted, ReadExists
  <2>8. ASSUME NEW i \in Instances PROVE dv[i] <= F /\ InHand(i, s, g, dv[i])'
    <3>1. dv[i] \in Nat /\ dv[i] <= E /\ InHand(i, s, h, dv[i])
      BY <2>0, <2>2 DEF Accounted
    <3>2. CASE def[s] = None
      <4>1. defs[i][s] = None /\ \A c \in todo[i] : c.id # s
        BY <1>0, <3>2 DEF ReadExists
      <4> QED BY <1>1, <2>3, <3>1, <4>1 DEF InHand
    <3>3. CASE def[s] # None
      BY <1>1, <2>3, <2>5, <3>1, <3>3 DEF InHand
    <3> QED BY <3>2, <3>3
  <2>9. \A k \in Nat : k >= F => x[k] = 0
    BY <2>0, <2>2, <2>3 DEF Accounted
  <2>10. ASSUME NEW k \in Nat, k < F PROVE Room(s, sv, dv, x, k)'
    <3>1. Room(s, sv, dv, x, k)
      <4>1. CASE k < E
        BY <2>0, <2>2, <4>1 DEF Accounted
      <4>2. CASE ~(k < E)
        <5>1. x[k] = 0 /\ ~(k < sv)
          BY <2>0, <2>2, <2>3, <4>2 DEF Accounted
        <5> QED BY <5>1 DEF Room
      <4> QED BY <4>1, <4>2
    <3>2. Behind(s, dv, k)' = Behind(s, dv, k)
      BY <1>1 DEF Behind, MayWrite
    <3> QED BY <1>1, <3>1, <3>2, RoomKept
  <2>11. Told(s, "updated")' <= Cardinality(Crossings(x, F))
    <3>1. E <= F /\ Cardinality(Crossings(x, E)) \in Nat /\ Cardinality(Crossings(x, F)) \in Nat
      BY <2>3, CrossingsCounted
    <3>2. Cardinality(Crossings(x, E)) <= Cardinality(Crossings(x, F))
      <4>1. \A k \in Nat : x[k] >= x[k]
        OBVIOUS
      <4> QED BY ONLY Team, <2>2, <2>3, <2>4, <3>1, <4>1, CrossingsGrow
    <3>3. Told(s, "updated") <= Cardinality(Crossings(x, E))
      BY <2>0, <2>2 DEF Accounted
    <3> QED BY <1>3, <3>1, <3>2, <3>3
  <2>12. (Cardinality(Crossings(x, edited[s])))' = Cardinality(Crossings(x, F))
    BY <2>0 DEF Crossings, Size
  <2>13. Accounted(s, g, sv, dv, x)'
    BY <2>0, <2>6, <2>7, <2>8, <2>9, <2>10, <2>11, <2>12 DEF Accounted
  <2> QED BY <2>4, <2>13 DEF Ledgered
<1> QED BY <1>4, <1>5

(* A pass that begins reads the newest version.                               *)
LEMMA UpdateReadDefs ==
    ASSUME Team, UpdateInv, LateInv', NEW i \in Instances, ReadDefs(i), NEW s \in Schedules
    PROVE  Ledgered(s)'
<1>0. CreateInv /\ CreateInv' /\ Ledgered(s)
  BY DEF UpdateInv, LateInv
<1>1. UNCHANGED <<def, edited, snap, todo, owed, said>> /\ pc[i] = "idle"
  BY DEF ReadDefs, definitions
<1>2. Told(s, "updated")' = Told(s, "updated") /\ Told(s, "updated") \in Nat
  BY <1>0, <1>1, UpdatesTold DEF Told, Pending
<1>3. CASE defs' = defs
  BY <1>0, <1>1, <1>2, <1>3, LedgerKept
<1>4. CASE defs' = [defs EXCEPT ![i] = def]
  <2>1. PICK h \in [Nat -> Hashes], sv \in Nat : \E dv \in [Instances -> Nat], x \in [Nat -> Nat] : Accounted(s, h, sv, dv, x)
    BY <1>0 DEF Ledgered
  <2>2. PICK dv \in [Instances -> Nat], x \in [Nat -> Nat] : Accounted(s, h, sv, dv, x)
    BY <2>1
  <2>3. PICK E \in Nat : E = edited[s]
    BY <1>0 DEF CreateInv, TypeOK
  <2> DEFINE dw == [dv EXCEPT ![i] = E]
  <2>4. dw \in [Instances -> Nat] /\ dw[i] = E /\ \A j \in Instances : j # i => dw[j] = dv[j]
    OBVIOUS
  <2> HIDE DEF dw
  <2>5. defs'[i] = def /\ \A j \in Instances : j # i => defs'[j] = defs[j]
    BY <1>0, <1>4 DEF CreateInv, TypeOK
  <2>6. ASSUME NEW j \in Instances PROVE dw[j] <= E /\ InHand(j, s, h, dw[j])'
    <3>1. CASE j # i
      BY <1>1, <2>2, <2>3, <2>4, <2>5, <3>1 DEF Accounted, InHand
    <3>2. CASE j = i
      <4>1. todo[i] = {}
        BY <1>1 DEF UpdateInv, PassShape, ShapeOf
      <4> QED BY <1>1, <2>2, <2>3, <2>4, <2>5, <3>2, <4>1 DEF Accounted, InHand
    <3> QED BY <3>1, <3>2
  <2>7. \A k \in Nat : k < E => Behind(s, dw, k)' \subseteq Behind(s, dv, k)
    BY <1>1, <2>4, <2>5 DEF Behind, MayWrite
  <2> QED BY <1>0, <1>1, <1>2, <2>2, <2>3, <2>4, <2>6, <2>7, AccountKept
<1> QED BY <1>3, <1>4 DEF ReadDefs

(* Planning, announcing, ending and crashing.                                 *)
LEMMA UpdateRest ==
    ASSUME Team, UpdateInv, LateInv', NEW i \in Instances,
           ReadSnapshots(i) \/ Announce(i) \/ EndPass(i) \/ Crash(i), NEW s \in Schedules
    PROVE  Ledgered(s)'
<1>0. CreateInv /\ CreateInv' /\ Ledgered(s)
  BY DEF UpdateInv, LateInv
<1>1. UNCHANGED <<def, edited, snap>>
  BY DEF ReadSnapshots, Announce, EndPass, Crash, definitions
<1>2. DOMAIN defs = Instances /\ DOMAIN todo = Instances
  BY <1>0 DEF CreateInv, TypeOK
<1>3. \A j \in Instances : defs'[j] = NoDefs \/ defs'[j] = defs[j]
  BY <1>2 DEF ReadSnapshots, Announce, EndPass, Crash
<1>4. \A j \in Instances : todo'[j] = todo[j] \/ todo'[j] = {} \/ (j = i /\ todo'[j] = Plan(defs[i], snap, Seeded(snap)))
  BY <1>2 DEF ReadSnapshots, Announce, EndPass, Crash
<1>5. \A c \in Plan(defs[i], snap, Seeded(snap)) : defs[i][c.id] # None /\ c.def = defs[i][c.id]
  BY DEF Plan
<1>6. \A j \in Instances : \A c \in todo'[j] : c.id = s =>
              c \in todo[j] \/ (defs[j][s] # None /\ c.def = defs[j][s])
  BY <1>4, <1>5
<1>7. \A j \in Instances : defs'[j][s] = None \/ defs'[j][s] = defs[j][s]
  BY <1>3 DEF NoDefs
<1>8. Told(s, "updated")' <= Told(s, "updated")
  <2>1. /\ IsFiniteSet(Owing(s, "updated")) /\ Pending(s, "updated") \in Nat
        /\ said[s]["updated"] \in Nat /\ Told(s, "updated") \in Nat
    BY <1>0, UpdatesTold
  <2>2. CASE UNCHANGED <<owed, said>>
    BY <2>1, <2>2 DEF Told, Pending
  <2>3. CASE said' = said /\ owed' = [owed EXCEPT ![i] = {}]
    <3>1. Pending(s, "updated")' = Pending(s, "updated") - IF i \in Owing(s, "updated") THEN 1 ELSE 0
      <4>1. owed'[i] = {} /\ \A j \in Instances : j # i => owed'[j] = owed[j]
        BY <1>0, <2>3 DEF CreateInv, TypeOK
      <4> QED BY <1>0, <2>1, <4>1, OwesLess
    <3> QED BY <2>1, <2>3, <3>1 DEF Told
  <2>4. CASE Announce(i)
    <3>1. PICK c \in owed[i], ok \in BOOLEAN : said' = IF ok THEN [said EXCEPT ![c.id][c.kind] = @ + 1] ELSE said
      BY <2>4 DEF Announce
    <3>2. owed' = [owed EXCEPT ![i] = {}]
      BY <2>4 DEF Announce
    <3>3. CASE ~ok
      BY <2>3, <3>1, <3>2, <3>3
    <3>4. CASE ok
      <4>1. c.id \in Schedules /\ c.kind \in Kinds
        BY <1>0, <3>1 DEF CreateInv, TypeOK, Change
      <4>2. Pending(s, "updated")' = Pending(s, "updated") - IF i \in Owing(s, "updated") THEN 1 ELSE 0
        <5>1. owed'[i] = {} /\ \A j \in Instances : j # i => owed'[j] = owed[j]
          BY <1>0, <3>2 DEF CreateInv, TypeOK
        <5> QED BY <1>0, <2>1, <5>1, OwesLess
      <4>3. (c.id = s /\ c.kind = "updated") => i \in Owing(s, "updated")
        BY <3>1 DEF Owing
      <4>4. said' = [said EXCEPT ![c.id][c.kind] = @ + 1]
        BY <3>1, <3>4
      <4>5. said'[s]["updated"] = said[s]["updated"] + IF c.id = s /\ c.kind = "updated" THEN 1 ELSE 0
        BY <1>0, <2>1, <4>1, <4>4 DEF CreateInv, TypeOK, Announced, Kinds
      <4> QED BY <2>1, <4>2, <4>3, <4>5 DEF Told
    <3> QED BY <3>3, <3>4
  <2>5. (ReadSnapshots(i) \/ EndPass(i)) => UNCHANGED <<owed, said>>
    BY DEF ReadSnapshots, EndPass
  <2>6. Crash(i) => said' = said /\ owed' = [owed EXCEPT ![i] = {}]
    BY DEF Crash
  <2> QED BY <2>2, <2>3, <2>4, <2>5, <2>6
<1> QED BY <1>0, <1>1, <1>6, <1>7, <1>8, LedgerKept

(* A written update, or the first snapshot, moves the snapshot's version.      *)
LEMMA UpdateApply ==
    ASSUME Team, UpdateInv, LateInv', NEW i \in Instances, Apply(i), NEW s \in Schedules
    PROVE  Ledgered(s)'
<1>0. CreateInv /\ CreateInv' /\ Ledgered(s) /\ PassShape
  BY DEF UpdateInv, LateInv
<1>1. PICK c \in todo[i], ok \in BOOLEAN : Apply(i)!2!(c, ok)
  BY DEF Apply
<1>2. UNCHANGED <<def, edited, defs, said>> /\ pc[i] = "each" /\ owed[i] = {}
  BY <1>0 DEF Apply, definitions, CreateInv, AtMostOneOwed
<1>3. /\ c \in Change /\ c.id \in Schedules /\ DOMAIN todo = Instances
      /\ todo'[i] = todo[i] \ {c} /\ \A j \in Instances : j # i => todo'[j] = todo[j]
  BY <1>0, <1>1 DEF CreateInv, TypeOK, Change
<1>4. /\ IsFiniteSet(Owing(s, "updated")) /\ Pending(s, "updated") \in Nat
      /\ said[s]["updated"] \in Nat /\ Told(s, "updated") \in Nat
  BY <1>0, UpdatesTold
<1>5. CASE ~(ok /\ Applies(c))
  <2>1. UNCHANGED <<snap, owed>>
    BY <1>1, <1>5
  <2>2. Told(s, "updated")' = Told(s, "updated")
    BY <1>2, <2>1 DEF Told, Pending
  <2> QED BY <1>0, <1>2, <1>3, <1>4, <2>1, <2>2, LedgerKept
<1>6. CASE ok /\ Applies(c)
  <2>1. /\ snap' = [snap EXCEPT ![c.id] = Stored(c)]
        /\ owed' = [owed EXCEPT ![i] = IF c.kind = "seed" THEN {} ELSE {c}]
    BY <1>1, <1>6
  <2>2. snap'[c.id] = Stored(c) /\ Stored(c) \in Definition /\ \A r \in Schedules : r # c.id => snap'[r] = snap[r]
    BY <1>0, <1>3, <1>6, <2>1, StoredTyped DEF CreateInv, TypeOK
  <2>3. Told(s, "updated")' = Told(s, "updated") + IF c.id = s /\ c.kind = "updated" THEN 1 ELSE 0
    <3>1. CASE c.kind = "seed"
      <4>1. owed' = owed
        BY <1>0, <1>2, <2>1, <3>1 DEF CreateInv, TypeOK
      <4>2. Pending(s, "updated")' = Pending(s, "updated")
        BY <4>1 DEF Pending
      <4> QED BY <1>2, <1>4, <3>1, <4>2 DEF Told
    <3>2. CASE c.kind # "seed"
      <4>1. Pending(s, "updated")' = Pending(s, "updated") + IF c.id = s /\ c.kind = "updated" THEN 1 ELSE 0
        <5>1. owed'[i] = {c} /\ \A j \in Instances : j # i => owed'[j] = owed[j]
          BY <1>0, <2>1, <3>2 DEF CreateInv, TypeOK
        <5> QED BY <1>0, <1>2, <1>4, <5>1, OwesMore
      <4> QED BY <1>2, <1>4, <4>1 DEF Told
    <3> QED BY <3>1, <3>2
  <2>4. CASE s # c.id
    <3>1. snap'[s] = snap[s] /\ Told(s, "updated")' = Told(s, "updated")
      BY <1>4, <2>2, <2>3, <2>4
    <3> QED BY <1>0, <1>2, <1>3, <1>4, <3>1, LedgerKept
  <2>5. CASE s = c.id /\ c.kind \in {"enabled", "disabled"}
    <3>1. snap[s] # None /\ snap[s] \in Definition
      BY <1>0, <1>6, <2>5 DEF Applies, CreateInv, TypeOK
    <3>2. snap'[s] # None /\ snap'[s].hash = snap[s].hash
      BY <2>2, <2>5, <3>1, DefinitionIsSome DEF Stored, Definition
    <3>3. Told(s, "updated")' = Told(s, "updated")
      BY <1>4, <2>3, <2>5
    <3> QED BY <1>0, <1>2, <1>3, <1>4, <3>1, <3>2, <3>3, LedgerKept
  <2>6. CASE s = c.id /\ c.kind \in {"seed", "created", "updated"}
    <3>1. PICK h \in [Nat -> Hashes], sv \in Nat : \E dv \in [Instances -> Nat], x \in [Nat -> Nat] : Accounted(s, h, sv, dv, x)
      BY <1>0 DEF Ledgered
    <3>2. PICK dv \in [Instances -> Nat], x \in [Nat -> Nat] : Accounted(s, h, sv, dv, x)
      BY <3>1
    <3>3. c.def.hash = h[dv[i]] /\ \A j \in Instances : InHand(j, s, h, dv[j])
      BY <2>6, <3>2 DEF Accounted, InHand
    <3>4. snap'[s] # None /\ snap'[s].hash = c.def.hash
      <4>1. c.def \in Definition /\ snap[s] \in Definition \cup {None}
        BY <1>0, <1>3 DEF Change, CreateInv, TypeOK
      <4>2. c.kind = "updated" => snap[s] \in Definition
        BY <1>6, <2>6, <4>1 DEF Applies
      <4> QED BY <2>2, <2>6, <4>1, <4>2, DefinitionIsSome DEF Stored, Definition
    <3>5. \A j \in Instances : InHand(j, s, h, dv[j])' /\ (MayWrite(j, s)' => MayWrite(j, s))
      BY <1>2, <1>3, <3>3 DEF InHand, MayWrite
    <3>6. snap[s] # None => c.kind = "updated" /\ snap[s].hash = c.old.hash
      BY <1>6, <2>6 DEF Applies
    <3>7. snap[s] = None => c.kind # "updated"
      BY <1>6, <2>6 DEF Applies
    <3>8. snap[s] # None => snap[s].hash # h[dv[i]] /\ MayWrite(i, s) /\ ~MayWrite(i, s)'
      <4> SUFFICES ASSUME snap[s] # None PROVE snap[s].hash # h[dv[i]] /\ MayWrite(i, s) /\ ~MayWrite(i, s)'
        OBVIOUS
      <4>1. /\ c.old.hash # c.def.hash
            /\ \A d \in todo[i] : d.kind = "updated" /\ d.id = s => d = c
        BY <1>0, <2>6, <3>6 DEF PassShape, ShapeOf
      <4>2. defs[i][s] = None
        BY <1>0, <1>2 DEF PassShape, ShapeOf, NoDefs
      <4> QED BY <1>2, <1>3, <2>6, <3>3, <3>6, <4>1, <4>2 DEF MayWrite
    <3>9. Told(s, "updated")' <= Told(s, "updated") + IF snap[s] # None THEN 1 ELSE 0
      BY <1>4, <2>3, <2>6, <3>6, <3>7
    <3> QED BY <1>0, <1>2, <3>2, <3>3, <3>4, <3>5, <3>8, <3>9, AccountMoved
  <2>7. c.kind \in Kinds
    BY <1>3 DEF Change
  <2> QED BY <2>4, <2>5, <2>6, <2>7 DEF Kinds
<1> QED BY <1>5, <1>6

LEMMA UpdateStep == ASSUME Team, UpdateInv, [Next]_vars PROVE UpdateInv'
<1>1. LateInv' /\ PassShape'
  BY LateStep, ShapeStep DEF UpdateInv, LateInv, CreateInv
<1>2. ASSUME NEW s \in Schedules PROVE Ledgered(s)'
  <2>1. CASE UNCHANGED vars
    <3>1. UNCHANGED <<def, edited, snap, defs, todo, owed, said>>
      BY <2>1 DEF vars, definitions, pass
    <3>2. CreateInv /\ CreateInv' /\ Ledgered(s)
      BY <1>1 DEF UpdateInv, LateInv
    <3>3. Told(s, "updated")' = Told(s, "updated") /\ Told(s, "updated") \in Nat
      BY <3>1, <3>2, UpdatesTold DEF Told, Pending
    <3> QED BY <3>1, <3>2, <3>3, LedgerKept
  <2> QED BY <1>1, <2>1, UpdateEdit, UpdateReadDefs, UpdateRest, UpdateApply DEF Next, Pass
<1> QED BY <1>1, <1>2 DEF UpdateInv

(* What the events of the watch tell is accurate, for any number of schedulers  *)
(* and schedules: the flag by its changes, and schedule.updated at most once    *)
(* for each edit and twice more for each other scheduler, the bound that        *)
(* replaces the "once" of the comment at schedule_watch.go:109-111.            *)
THEOREM EventsAccurateSound ==
    ASSUME IsFiniteSet(Instances), Instances # {}
    PROVE  Spec => []EventsAccurate
<1>0. Team
  BY DEF Team
<1>1. UpdateInv => UpdatesBounded
  <2> SUFFICES ASSUME UpdateInv, NEW s \in Schedules
               PROVE  said[s]["updated"] + Pending(s, "updated") <= edited[s] * (2 * Cardinality(Instances) - 1)
    BY DEF UpdatesBounded
  <2>1. PICK h \in [Nat -> Hashes], sv \in Nat : \E dv \in [Instances -> Nat], x \in [Nat -> Nat] : Accounted(s, h, sv, dv, x)
    BY DEF UpdateInv, Ledgered
  <2>2. PICK x \in [Nat -> Nat] : Told(s, "updated") <= Cardinality(Crossings(x, edited[s]))
    BY <2>1 DEF Accounted
  <2>3. CreateInv /\ edited[s] \in Nat
    BY DEF UpdateInv, LateInv, CreateInv, TypeOK
  <2> DEFINE bound == edited[s] * (2 * Size - 1)
             crossed == Cardinality(Crossings(x, edited[s]))
  <2>4. crossed \in Nat /\ crossed <= bound
    BY <1>0, <2>3, CrossingsCounted
  <2>5. Size \in Nat
    BY FS_CardinalityType DEF Size
  <2>6. bound \in Int
    BY <2>3, <2>5
  <2>7. Told(s, "updated") \in Nat
    BY <1>0, <2>3, UpdatesTold
  <2>8. Told(s, "updated") <= crossed
    BY <2>2
  <2> HIDE DEF bound, crossed
  <2>9. Told(s, "updated") <= bound
    BY <2>4, <2>6, <2>7, <2>8
  <2> QED BY <2>9 DEF bound, Told, Size
<1>2. UpdateInv /\ [Next]_vars => UpdateInv'
  BY <1>0, UpdateStep
<1>3. Init => UpdateInv
  BY <1>0, UpdateInit
<1>4. UpdateInv => TypeOK
  BY DEF UpdateInv, LateInv, CreateInv
<1>5. Spec => []UpdatesBounded /\ []TypeOK
  BY <1>1, <1>2, <1>3, <1>4, PTL DEF Spec
<1> QED BY <1>5, FlagToldSound, PTL DEF EventsAccurate
=============================================================================
