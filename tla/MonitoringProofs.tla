--------------------------- MODULE MonitoringProofs ---------------------------
(***************************************************************************)
(* What the monitoring sweep writes once stays single, and two views of one  *)
(* component agree, for any thresholds in the order the code has them, any   *)
(* policy checksums and requests, and any number of changes, crashes and     *)
(* failed statements.                                                      *)
(***************************************************************************)
EXTENDS Monitoring, FiniteSetTheorems, WellFoundedInduction, TLAPS

-----------------------------------------------------------------------------
(* The parts of the inductive invariant. *)

(* The sweep stands at a stage its focus meets, at a point that stage has. *)
Stands ==
    /\ stage \in Meets
    /\ point \in CASE Stages[stage][1] = "detect"  -> {"begin", "lookup", "create", "announce"}
                   [] Stages[stage][1] = "observe" -> {"begin", "each"}
                   [] Stages[stage][1] = "resolve" -> {"begin", "each", "announce"}
                   [] OTHER                        -> {"begin"}
    /\ In("resolve", "announce") => Subject = "SCHEDULE_MISSED"

(* What a resolver has left to look at is unresolved: no one else resolves.  *)
LeftIsOpen == Stages[stage][1] = "resolve" /\ point # "begin" => left <= annotations[Subject]

(* No focus meets more than two checks that can fail, and only a silent run   *)
(* meets two.                                                              *)
FailedFew ==
    /\ failed \in 0 .. 2
    /\ focus # "silence" => failed <= 1
    /\ focus = "silence" /\ ((stage = 1 /\ point # "begin") \/ (stage = 2 /\ point = "begin")) => failed <= 1

(* One open annotation, and one more for each look-up that failed: on the way *)
(* to an insert none was found, or the look-up that failed has been counted.  *)
OneMoreAtMost ==
    /\ \A t \in Types : annotations[t] <= 1 + troubles
    /\ In("detect", "create") => annotations[Subject] <= troubles

(* The announcement under way counts as made: what remains of the gap between *)
(* the events and the annotation are announcements and saves that failed.     *)
UnderWay ==
    CASE In("detect", "announce") /\ Subject = "SCHEDULE_MISSED" -> 1
      [] In("resolve", "announce")                              -> -1
      [] OTHER                                                  -> 0
GapIsTrouble ==
    LET gap == pairs + UnderWay - annotations["SCHEDULE_MISSED"]
    IN  gap <= troubles /\ -gap <= troubles

(* An announcement of drift is owed while the sweep would report one, and      *)
(* while a request that loaded a policy has not stored it: each change of the  *)
(* world or crash pays for one.                                            *)
Loaded == {r \in Requests : reload[r] # NoSum}
Owed == Cardinality(Loaded) + IF Reports THEN 1 ELSE 0
DriftIsPaid == IsFiniteSet(Loaded) /\ driftEvents + Owed <= changes + troubles

(* A component that has not gone has not recorded a stop, and a heartbeat on   *)
(* its way at the shutdown lands within the clock's step of the stop.         *)
StopEndsBeats == \A i \in Lives :
    /\ proc[i] # "gone" => rows[i].stopped = Never
    /\ <<i, "heartbeat">> \in pending => rows[i].stopped \in {Never, 0}
    /\ rows[i].stopped # Never /\ rows[i].seen # Never => rows[i].stopped <= rows[i].seen

IInv == TypeOK /\ Stands /\ LeftIsOpen /\ FailedFew /\ OneMoreAtMost /\ GapIsTrouble /\ DriftIsPaid /\ StopEndsBeats

(* The tuples that UNCHANGED speaks of. *)
USE DEF world, runState, scheduleState, componentState, subsystemState, policyState, sweep, memory, heard, store,
        besidesRun, besidesComponent, besidesPolicy

-----------------------------------------------------------------------------
(* The table of stages. *)

LEMMA LeastOf == ASSUME NEW S \in SUBSET Nat, S # {} PROVE Least(S) \in S /\ \A k \in S : Least(S) <= k
PROOF
<1> DEFINE R == OpToRel(<, Nat)
<1>1. \A x, y \in Nat : x < y => <<x, y>> \in R
  BY DEF OpToRel
<1>2. IsWellFoundedOn(R, Nat)
  BY NatLessThanWellFounded
<1> HIDE DEF R
<1>3. PICK m \in S : \A k \in S : ~(<<k, m>> \in R)
  BY <1>2, WFMin
<1>4. \A k \in S : m \in Nat /\ k \in Nat /\ ~(k < m)
  BY <1>1, <1>3
<1>5. \E x \in S : \A k \in S : x <= k
  BY <1>4
<1> QED BY <1>5, Zenon DEF Least

(* What the rows of the table say. *)
LEMMA StageTable ==
    /\ DOMAIN Stages = 1 .. 14
    /\ \A k \in 1 .. 14 : Stages[k][1] = (CASE k <= 4 -> "detect" [] k \in 5 .. 7 -> "observe" [] k = 8 -> "sample"
                                          [] k \in 9 .. 12 -> "resolve" [] k = 13 -> "count" [] OTHER -> "drift")
    /\ \A k \in (1 .. 4) \cup (9 .. 12) : Stages[k][2] \in Types
    /\ \A k \in (1 .. 4) \cup (9 .. 12) : Stages[k][2] = "SCHEDULE_MISSED" <=> k \in {4, 12}
PROOF
BY DEF Stages, Types, RunTypes

(* The stages a focus meets. *)
LEMMA FocusStages ==
    /\ focus = "silence"    => Meets = {1, 2, 9, 10}
    /\ focus = "attempts"   => Meets = {3, 11, 13}
    /\ focus = "schedule"   => Meets = {4, 8, 12}
    /\ focus = "worker"     => Meets = {5}
    /\ focus = "instance"   => Meets = {6}
    /\ focus \in Subsystems => Meets = {7}
    /\ focus = "queue"      => Meets = {8}
    /\ focus = "policy"     => Meets = {14}
PROOF
<1>1. /\ DOMAIN Stages = 1 .. 14
      /\ Stages[1][3] = {"silence"} /\ Stages[2][3] = {"silence"} /\ Stages[3][3] = {"attempts"} /\ Stages[4][3] = {"schedule"}
      /\ Stages[5][3] = {"worker"} /\ Stages[6][3] = {"instance"} /\ Stages[7][3] = Subsystems
      /\ Stages[8][3] = {"schedule", "queue"} /\ Stages[9][3] = {"silence"} /\ Stages[10][3] = {"silence"}
      /\ Stages[11][3] = {"attempts"} /\ Stages[12][3] = {"schedule"} /\ Stages[13][3] = {"attempts"} /\ Stages[14][3] = {"policy"}
  BY DEF Stages
<1>2. \A f \in {"silence", "attempts", "schedule", "worker", "instance", "queue", "policy"} : f \notin Subsystems
  BY DEF Subsystems, FedByActivity
<1>3. 1 .. 14 = {1, 2, 3, 4, 5, 6, 7, 8, 9, 10, 11, 12, 13, 14}
  OBVIOUS
<1>4. Meets = {k \in {1, 2, 3, 4, 5, 6, 7, 8, 9, 10, 11, 12, 13, 14} : focus \in Stages[k][3]}
  BY <1>1, <1>3 DEF Meets
<1> HIDE DEF Meets
<1>5. focus = "silence" => Meets = {1, 2, 9, 10}
  BY <1>1, <1>2, <1>4
<1>6. focus = "attempts" => Meets = {3, 11, 13}
  BY <1>1, <1>2, <1>4
<1>7. focus = "schedule" => Meets = {4, 8, 12}
  BY <1>1, <1>2, <1>4
<1>8. focus = "worker" => Meets = {5}
  BY <1>1, <1>2, <1>4
<1>9. focus = "instance" => Meets = {6}
  BY <1>1, <1>2, <1>4
<1>10. focus \in Subsystems => Meets = {7}
  BY <1>1, <1>2, <1>4
<1>11. focus = "queue" => Meets = {8}
  BY <1>1, <1>2, <1>4
<1>12. focus = "policy" => Meets = {14}
  BY <1>1, <1>2, <1>4
<1> QED BY <1>5, <1>6, <1>7, <1>8, <1>9, <1>10, <1>11, <1>12

(* A sweep's next stage is one its focus meets; of the checks that can fail,    *)
(* only the second of a silent run comes after another.                       *)
Known == {"silence", "attempts", "schedule", "worker", "instance", "queue", "policy"} \cup Subsystems
LEMMA FirstStage ==
    ASSUME focus \in Known
    PROVE  /\ Meets \subseteq 1 .. 14 /\ Least(Meets) \in Meets
           /\ \A k \in Meets : k <= 7 => k = Least(Meets) \/ (focus = "silence" /\ k = 2)
           /\ focus = "silence" => Least(Meets) = 1
PROOF
<1>1. Meets \subseteq 1 .. 14 /\ Meets # {}
  BY FocusStages DEF Known
<1>2. Least(Meets) \in Meets /\ \A k \in Meets : Least(Meets) <= k
  <2>1. Meets \in SUBSET Nat
    BY <1>1
  <2> HIDE DEF Meets
  <2> QED BY <1>1, <2>1, LeastOf
<1> HIDE DEF Meets
<1>3. \A k \in Meets : k <= 7 => k = Least(Meets) \/ (focus = "silence" /\ k = 2)
  BY <1>1, <1>2, FocusStages DEF Known
<1>4. focus = "silence" => Least(Meets) = 1
  BY <1>2, FocusStages
<1> QED BY <1>1, <1>2, <1>3, <1>4

LEMMA NextStage ==
    ASSUME focus \in Known, stage \in Meets, Advance
    PROVE  /\ stage' \in Meets /\ point' = "begin"
           /\ focus = "silence" /\ stage' = 2 => stage = 1
PROOF
<1> DEFINE Later == {k \in Meets : k > stage}
<1>1. Later \in SUBSET Nat
  BY FirstStage
<1>2. stage' = (IF Later # {} THEN Least(Later) ELSE Least(Meets)) /\ point' = "begin"
  BY DEF Advance
<1>3. Later # {} => Least(Later) \in Later
  <2> HIDE DEF Later
  <2> QED BY <1>1, LeastOf
<1>4. Meets \subseteq 1 .. 14 /\ Least(Meets) \in Meets /\ (focus = "silence" => Least(Meets) = 1 /\ Meets = {1, 2, 9, 10})
  BY FirstStage, FocusStages
<1> HIDE DEF Meets
<1> QED BY <1>2, <1>3, <1>4

(* Where a sweep stands, in numbers. *)
LEMMA AtStage ==
    ASSUME TypeOK, Stands
    PROVE  /\ focus \in Known /\ stage \in 1 .. 14
           /\ \A p : In("detect", p) <=> stage \in 1 .. 4 /\ point = p
           /\ \A p : In("observe", p) <=> stage \in 5 .. 7 /\ point = p
           /\ \A p : In("sample", p) <=> stage = 8 /\ point = p
           /\ \A p : In("resolve", p) <=> stage \in 9 .. 12 /\ point = p
           /\ \A p : In("count", p) <=> stage = 13 /\ point = p
           /\ \A p : In("drift", p) <=> stage = 14 /\ point = p
           /\ stage \in (1 .. 4) \cup (9 .. 12) => Subject \in Types /\ (Subject = "SCHEDULE_MISSED" <=> stage \in {4, 12})
           /\ stage <= 7 => stage = Least(Meets) \/ (focus = "silence" /\ stage = 2)
PROOF
<1>1. focus \in Known /\ stage \in 1 .. 14 /\ stage \in Meets
  BY StageTable, MonitoringAssumption DEF TypeOK, Stands, Known
<1>2. stage <= 7 => stage = Least(Meets) \/ (focus = "silence" /\ stage = 2)
  BY <1>1, FirstStage
<1> QED BY <1>1, <1>2, StageTable DEF In, Subject

(* A sweep that advances stands at the beginning of a stage. *)
LEMMA AfterAdvance ==
    ASSUME TypeOK, Stands, Advance, focus' = focus
    PROVE  /\ stage' \in DOMAIN Stages /\ point' = "begin" /\ Stands' /\ LeftIsOpen'
           /\ focus = "silence" /\ stage' = 2 => stage = 1
PROOF
<1>1. focus \in Known /\ stage \in Meets
  BY AtStage DEF Stands
<1>2. /\ stage' \in Meets /\ point' = "begin"
      /\ focus = "silence" /\ stage' = 2 => stage = 1
  BY <1>1, NextStage
<1>3. Meets' = Meets
  BY DEF Meets
<1>4. stage' \in DOMAIN Stages
  BY <1>2 DEF Meets
<1>5. Stands'
  BY <1>2, <1>3, <1>4, StageTable DEF Stands, In
<1> QED BY <1>2, <1>4, <1>5 DEF LeftIsOpen

-----------------------------------------------------------------------------
(* The sweep keeps its place, and every variable its type. *)

Placed == TypeOK /\ Stands /\ LeftIsOpen /\ FailedFew

LEMMA DetectPlaced == ASSUME Placed, Detect PROVE Placed'
PROOF
<1>1. stage \in 1 .. 4 /\ point = "begin" /\ focus \in Known /\ (stage = Least(Meets) \/ (focus = "silence" /\ stage = 2))
  BY AtStage DEF Placed, Detect
<1>2. PICK listed, read \in BOOLEAN :
        /\ Db(listed /\ read)
        /\ failed' = IF listed THEN FailedSoFar ELSE FailedSoFar + 1
        /\ IF listed /\ read /\ Fires(Subject) THEN Goto("lookup") ELSE Advance
  BY DEF Detect
<1>3. UNCHANGED <<focus, world, left, seen, sample, memory, heard, store, changes>>
  BY DEF Detect
<1>4. troubles' \in 0 .. MaxTroubles
  BY <1>2, MonitoringAssumption DEF Db, Placed, TypeOK
<1>5. failed' \in 0 .. 2 /\ (focus # "silence" => failed' <= 1) /\ (focus = "silence" /\ stage = 1 => failed' <= 1)
  BY <1>1, <1>2, FirstStage DEF Placed, FailedFew, FailedSoFar
<1>6. /\ stage' \in DOMAIN Stages /\ point' \in {"begin", "lookup"} /\ Stands' /\ LeftIsOpen'
      /\ focus = "silence" /\ ((stage' = 1 /\ point' # "begin") \/ (stage' = 2 /\ point' = "begin")) => stage = 1
  <2>1. CASE Advance
    BY <2>1, <1>3, AfterAdvance DEF Placed
  <2>2. CASE Goto("lookup")
    <3>1. Meets' = Meets /\ stage' = stage /\ point' = "lookup"
      BY <2>2, <1>3 DEF Goto, Meets
    <3> QED BY <3>1, <1>1, StageTable DEF Stands, LeftIsOpen, In, Placed
  <2> QED BY <1>2, <2>1, <2>2
<1>7. TypeOK'
  BY <1>3, <1>4, <1>5, <1>6 DEF Placed, TypeOK, TotalChecks
<1>8. FailedFew'
  BY <1>3, <1>5, <1>6 DEF FailedFew
<1> QED BY <1>6, <1>7, <1>8 DEF Placed

LEMMA LookupPlaced == ASSUME Placed, Lookup PROVE Placed'
PROOF
<1>1. stage \in 1 .. 4 /\ point = "lookup"
  BY AtStage DEF Placed, Lookup
<1>2. UNCHANGED <<focus, world, left, seen, failed, sample, memory, heard, store, changes>> /\ troubles' \in 0 .. MaxTroubles
  BY MonitoringAssumption DEF Lookup, Db, Placed, TypeOK
<1>3. /\ stage' \in DOMAIN Stages /\ point' \in {"begin", "create"} /\ Stands' /\ LeftIsOpen'
      /\ focus = "silence" /\ ((stage' = 1 /\ point' # "begin") \/ (stage' = 2 /\ point' = "begin")) => stage = 1
  <2>1. CASE Advance
    BY <2>1, <1>2, AfterAdvance DEF Placed
  <2>2. CASE Goto("create")
    <3>1. Meets' = Meets /\ stage' = stage /\ point' = "create"
      BY <2>2, <1>2 DEF Goto, Meets
    <3> QED BY <3>1, <1>1, StageTable DEF Stands, LeftIsOpen, In, Placed
  <2> QED BY <2>1, <2>2 DEF Lookup, AfterFound
<1>4. TypeOK'
  BY <1>2, <1>3 DEF Placed, TypeOK
<1>5. FailedFew'
  BY <1>1, <1>2, <1>3 DEF FailedFew, Placed
<1> QED BY <1>3, <1>4, <1>5 DEF Placed

LEMMA CreatePlaced == ASSUME Placed, Create PROVE Placed'
PROOF
<1>1. stage \in 1 .. 4 /\ point = "create" /\ Subject \in Types
  BY AtStage DEF Placed, Create
<1>2. PICK ok \in BOOLEAN :
        /\ Db(ok)
        /\ annotations' = IF ok THEN [annotations EXCEPT ![Subject] = @ + 1] ELSE annotations
        /\ IF ok /\ Subject \in {"RUN_LOST", "SCHEDULE_MISSED"} THEN Goto("announce") ELSE Advance
  BY DEF Create
<1>3. UNCHANGED <<focus, world, left, seen, failed, sample, memory, heard, alerted, counted, changes>>
  BY DEF Create
<1>4. troubles' \in 0 .. MaxTroubles /\ annotations' \in [Types -> Nat]
  BY <1>1, <1>2, MonitoringAssumption DEF Db, Placed, TypeOK
<1>5. /\ stage' \in DOMAIN Stages /\ point' \in {"begin", "announce"} /\ Stands' /\ LeftIsOpen'
      /\ focus = "silence" /\ ((stage' = 1 /\ point' # "begin") \/ (stage' = 2 /\ point' = "begin")) => stage = 1
  <2>1. CASE Advance
    BY <2>1, <1>3, AfterAdvance DEF Placed
  <2>2. CASE Goto("announce")
    <3>1. Meets' = Meets /\ stage' = stage /\ point' = "announce"
      BY <2>2, <1>3 DEF Goto, Meets
    <3> QED BY <3>1, <1>1, StageTable DEF Stands, LeftIsOpen, In, Placed
  <2> QED BY <1>2, <2>1, <2>2
<1>6. TypeOK'
  BY <1>3, <1>4, <1>5 DEF Placed, TypeOK
<1>7. FailedFew'
  BY <1>1, <1>3, <1>5 DEF FailedFew, Placed
<1> QED BY <1>5, <1>6, <1>7 DEF Placed

LEMMA AnnounceDetectedPlaced == ASSUME Placed, AnnounceDetected PROVE Placed'
PROOF
<1>1. stage \in 1 .. 4 /\ point = "announce"
  BY AtStage DEF Placed, AnnounceDetected
<1>2. /\ UNCHANGED <<focus, run, beat, attempts, scheduleState, componentState, subsystemState, stream, policyState,
                    left, seen, failed, sample, memory, told, driftTold, driftEvents, store, changes>>
      /\ Advance
  BY DEF AnnounceDetected
<1>3. troubles' \in 0 .. MaxTroubles /\ quiet' \in Ages /\ lostSaid' \in 0 .. 2 /\ pairs' \in Int
  BY MonitoringAssumption, VerdictsAssumption DEF AnnounceDetected, Db, Placed, TypeOK, Ages, Old
<1>4. /\ stage' \in DOMAIN Stages /\ point' = "begin" /\ Stands' /\ LeftIsOpen'
      /\ focus = "silence" /\ stage' = 2 => stage = 1
  BY <1>2, AfterAdvance DEF Placed
<1>5. TypeOK'
  BY <1>2, <1>3, <1>4 DEF Placed, TypeOK
<1>6. FailedFew'
  BY <1>1, <1>2, <1>4 DEF FailedFew, Placed
<1> QED BY <1>4, <1>5, <1>6 DEF Placed

LEMMA ReadStatusesPlaced == ASSUME Placed, ReadStatuses PROVE Placed'
PROOF
<1>1. stage \in 5 .. 7 /\ point = "begin" /\ focus \in Known /\ stage = Least(Meets)
  BY AtStage DEF Placed, ReadStatuses
<1>2. PICK listed, first, second \in BOOLEAN :
        /\ Db(listed /\ first /\ second)
        /\ failed' = IF listed THEN FailedSoFar ELSE FailedSoFar + 1
        /\ IF listed THEN Goto("each") ELSE Advance
  BY DEF ReadStatuses
<1>3. UNCHANGED <<focus, world, left, sample, memory, heard, store, changes>> /\ DOMAIN seen' = Names
  <2>1. DOMAIN NothingSeen = Names
    BY DEF NothingSeen
  <2>2. DOMAIN seen' = Names
    BY <2>1 DEF ReadStatuses
  <2> QED BY <2>2 DEF ReadStatuses
<1>4. troubles' \in 0 .. MaxTroubles
  BY <1>2, MonitoringAssumption DEF Db, Placed, TypeOK
<1>5. failed' \in 0 .. 1
  BY <1>1, <1>2 DEF FailedSoFar
<1>6. stage' \in DOMAIN Stages /\ point' \in {"begin", "each"} /\ Stands' /\ LeftIsOpen'
  <2>1. CASE Advance
    BY <2>1, <1>3, AfterAdvance DEF Placed
  <2>2. CASE Goto("each")
    <3>1. Meets' = Meets /\ stage' = stage /\ point' = "each"
      BY <2>2, <1>3 DEF Goto, Meets
    <3> QED BY <3>1, <1>1, StageTable DEF Stands, LeftIsOpen, In, Placed
  <2> QED BY <1>2, <2>1, <2>2
<1>7. TypeOK'
  BY <1>3, <1>4, <1>5, <1>6 DEF Placed, TypeOK, TotalChecks
<1> QED BY <1>5, <1>6, <1>7 DEF FailedFew, Placed

(* A step that leaves the sweep, its focus and the annotations alone. *)
LEMMA SweepStays ==
    ASSUME Placed, TypeOK', UNCHANGED <<focus, stage, point, left, failed, annotations>>
    PROVE  Placed'
PROOF
<1>1. Meets' = Meets
  BY DEF Meets
<1> QED BY <1>1 DEF Placed, Stands, LeftIsOpen, FailedFew, In, Subject

LEMMA CompareStatusPlaced == ASSUME Placed, CompareStatus PROVE Placed'
PROOF
<1>1. UNCHANGED <<focus, runState, scheduleState, componentState, busy, stream, policyState, stage, point, left, failed,
                  sample, drift, driftTold, driftEvents, pairs, lostSaid, store, changes>>
  BY DEF CompareStatus
<1>2. troubles' \in 0 .. MaxTroubles
  BY MonitoringAssumption DEF CompareStatus, Db, Placed, TypeOK
<1>3. DOMAIN last' = Names /\ DOMAIN told' = Names /\ DOMAIN seen' = Names
  BY DEF CompareStatus, Placed, TypeOK
<1>4. fresh' \in [Subsystems -> Ages]
  <2>1. 0 \in Ages /\ fresh \in [Subsystems -> Ages]
    BY VerdictsAssumption DEF Ages, Old, Placed, TypeOK
  <2> QED BY <2>1 DEF CompareStatus
<1>5. TypeOK'
  BY <1>1, <1>2, <1>3, <1>4 DEF Placed, TypeOK
<1> QED BY <1>1, <1>5, SweepStays

LEMMA ObserveDonePlaced == ASSUME Placed, ObserveDone PROVE Placed'
PROOF
<1>1. stage \in 5 .. 7 /\ point = "each" /\ focus \in Known /\ stage = Least(Meets)
  BY AtStage DEF Placed, ObserveDone
<1>2. UNCHANGED <<focus, world, left, seen, failed, sample, memory, heard, store, changes, troubles>> /\ Advance
  BY DEF ObserveDone
<1>3. /\ stage' \in DOMAIN Stages /\ point' = "begin" /\ Stands' /\ LeftIsOpen'
      /\ focus = "silence" /\ stage' = 2 => stage = 1
  BY <1>2, AfterAdvance DEF Placed
<1>4. TypeOK'
  BY <1>2, <1>3 DEF Placed, TypeOK
<1> QED BY <1>1, <1>2, <1>3, <1>4 DEF FailedFew, Placed

LEMMA SampleQueuePlaced == ASSUME Placed, SampleQueue PROVE Placed'
PROOF
<1>1. UNCHANGED <<focus, world, sweep, drift, driftTold, driftEvents, pairs, lostSaid, store, changes>>
  BY DEF SampleQueue
<1>2. troubles' \in 0 .. MaxTroubles
  BY MonitoringAssumption DEF SampleQueue, Db, Placed, TypeOK
<1>3. DOMAIN last' = Names /\ DOMAIN told' = Names
  BY DEF SampleQueue, Placed, TypeOK
<1>4. TypeOK'
  BY <1>1, <1>2, <1>3 DEF Placed, TypeOK
<1> QED BY <1>1, <1>4, SweepStays

LEMMA WriteSamplePlaced == ASSUME Placed, WriteSample PROVE Placed'
PROOF
<1>1. stage = 8 /\ point = "begin"
  BY AtStage DEF Placed, WriteSample
<1>2. UNCHANGED <<focus, world, left, seen, failed, memory, heard, store, changes>> /\ Advance
  BY DEF WriteSample
<1>3. troubles' \in 0 .. MaxTroubles
  BY MonitoringAssumption DEF WriteSample, Db, Placed, TypeOK
<1>4. sample' \in {"none", "COMPLETE", "PARTIAL", "DEGRADED"}
  <2>1. FailedSoFar \in 0 .. 2
    BY DEF FailedSoFar, Placed, FailedFew
  <2>2. SampleStatus(FailedSoFar) \in {"COMPLETE", "PARTIAL", "DEGRADED"}
    BY <2>1 DEF SampleStatus, TotalChecks
  <2> QED BY <2>2 DEF WriteSample, Placed, TypeOK
<1>5. /\ stage' \in DOMAIN Stages /\ point' = "begin" /\ Stands' /\ LeftIsOpen'
      /\ focus = "silence" /\ stage' = 2 => stage = 1
  BY <1>2, AfterAdvance DEF Placed
<1>6. TypeOK'
  BY <1>2, <1>3, <1>4, <1>5 DEF Placed, TypeOK
<1> QED BY <1>1, <1>2, <1>5, <1>6 DEF FailedFew, Placed

LEMMA ListUnresolvedPlaced == ASSUME Placed, ListUnresolved PROVE Placed'
PROOF
<1>1. stage \in 9 .. 12 /\ point = "begin" /\ Subject \in Types
  BY AtStage DEF Placed, ListUnresolved
<1>2. UNCHANGED <<focus, world, seen, failed, sample, memory, heard, store, changes>> /\ stage' = stage /\ point' = "each"
  BY DEF ListUnresolved, Goto
<1>3. troubles' \in 0 .. MaxTroubles /\ left' \in Nat /\ left' <= annotations[Subject]
  BY <1>1, MonitoringAssumption DEF ListUnresolved, Db, Placed, TypeOK
<1>4. Meets' = Meets /\ Subject' = Subject
  BY <1>2 DEF Meets, Subject
<1>5. Stands' /\ LeftIsOpen'
  BY <1>1, <1>2, <1>3, <1>4, StageTable DEF Stands, LeftIsOpen, In, Placed
<1>6. TypeOK'
  BY <1>2, <1>3 DEF Placed, TypeOK
<1> QED BY <1>1, <1>2, <1>5, <1>6 DEF FailedFew, Placed

LEMMA ResolvePlaced == ASSUME Placed, Resolve PROVE Placed'
PROOF
<1>1. stage \in 9 .. 12 /\ point = "each" /\ left > 0 /\ Subject \in Types /\ left <= annotations[Subject]
  BY AtStage, StageTable DEF Placed, Resolve, LeftIsOpen
<1>2. PICK read, saved \in BOOLEAN :
        /\ Db(read /\ saved)
        /\ annotations' = IF Clear(Subject, read) /\ saved THEN [annotations EXCEPT ![Subject] = @ - 1] ELSE annotations
        /\ IF Clear(Subject, read) /\ Subject = "SCHEDULE_MISSED" THEN Goto("announce") ELSE UNCHANGED <<stage, point>>
  BY DEF Resolve
<1>3. UNCHANGED <<focus, world, seen, failed, sample, memory, heard, alerted, counted, changes>> /\ left' = left - 1
  BY DEF Resolve
<1>4. troubles' \in 0 .. MaxTroubles /\ left' \in Nat /\ annotations' \in [Types -> Nat] /\ left' <= annotations'[Subject]
  BY <1>1, <1>2, <1>3, MonitoringAssumption DEF Db, Placed, TypeOK
<1>5. stage' = stage /\ point' \in {"each", "announce"} /\ (point' = "announce" => Subject = "SCHEDULE_MISSED")
  BY <1>1, <1>2 DEF Goto
<1>6. Meets' = Meets /\ Subject' = Subject
  BY <1>3, <1>5 DEF Meets, Subject
<1>7. Stands' /\ LeftIsOpen'
  BY <1>1, <1>4, <1>5, <1>6, StageTable DEF Stands, LeftIsOpen, In, Placed
<1>8. TypeOK'
  BY <1>3, <1>4, <1>5 DEF Placed, TypeOK
<1> QED BY <1>1, <1>3, <1>5, <1>7, <1>8 DEF FailedFew, Placed

LEMMA AnnounceRecoveredPlaced == ASSUME Placed, AnnounceRecovered PROVE Placed'
PROOF
<1>1. stage \in 9 .. 12 /\ point = "announce"
  BY AtStage DEF Placed, AnnounceRecovered
<1>2. /\ UNCHANGED <<focus, world, left, seen, failed, sample, memory, told, driftTold, driftEvents, lostSaid, store, changes>>
      /\ stage' = stage /\ point' = "each"
  BY DEF AnnounceRecovered, Goto
<1>3. troubles' \in 0 .. MaxTroubles /\ pairs' \in Int
  BY MonitoringAssumption DEF AnnounceRecovered, Db, Placed, TypeOK
<1>4. Meets' = Meets /\ Subject' = Subject
  BY <1>2 DEF Meets, Subject
<1>5. Stands' /\ LeftIsOpen'
  BY <1>1, <1>2, <1>4, StageTable DEF Stands, LeftIsOpen, In, Placed
<1>6. TypeOK'
  BY <1>2, <1>3 DEF Placed, TypeOK
<1> QED BY <1>1, <1>2, <1>5, <1>6 DEF FailedFew, Placed

LEMMA ResolveDonePlaced == ASSUME Placed, ResolveDone PROVE Placed'
PROOF
<1>1. stage \in 9 .. 12 /\ point = "each"
  BY AtStage DEF Placed, ResolveDone
<1>2. UNCHANGED <<focus, world, left, seen, failed, sample, memory, heard, store, changes, troubles>> /\ Advance
  BY DEF ResolveDone
<1>3. /\ stage' \in DOMAIN Stages /\ point' = "begin" /\ Stands' /\ LeftIsOpen'
      /\ focus = "silence" /\ stage' = 2 => stage = 1
  BY <1>2, AfterAdvance DEF Placed
<1>4. TypeOK'
  BY <1>2, <1>3 DEF Placed, TypeOK
<1> QED BY <1>1, <1>2, <1>3, <1>4 DEF FailedFew, Placed

LEMMA RefreshCountsPlaced == ASSUME Placed, RefreshCounts PROVE Placed'
PROOF
<1>1. stage = 13 /\ point = "begin"
  BY AtStage DEF Placed, RefreshCounts
<1>2. UNCHANGED <<focus, world, left, seen, failed, sample, memory, heard, annotations, alerted, changes>> /\ Advance
  BY DEF RefreshCounts
<1>3. troubles' \in 0 .. MaxTroubles
  BY MonitoringAssumption DEF RefreshCounts, Db, Placed, TypeOK
<1>4. ActiveOf(annotations) \in Nat /\ Cardinality(alerted) \in Nat
  <2>1. annotations["RUN_STUCK"] \in Nat /\ annotations["RUN_LOST"] \in Nat /\ annotations["RUN_DUPLICATE_SUSPECTED"] \in Nat
    BY DEF Placed, TypeOK, Types, RunTypes
  <2>2. IsFiniteSet(RunTypes)
    <3>1. IsFiniteSet({} \cup {"RUN_STUCK"})
      BY FS_EmptySet, FS_AddElement
    <3>2. IsFiniteSet(({} \cup {"RUN_STUCK"}) \cup {"RUN_LOST"})
      BY <3>1, FS_AddElement
    <3>3. IsFiniteSet((({} \cup {"RUN_STUCK"}) \cup {"RUN_LOST"}) \cup {"RUN_DUPLICATE_SUSPECTED"})
      BY <3>2, FS_AddElement
    <3>4. RunTypes = (({} \cup {"RUN_STUCK"}) \cup {"RUN_LOST"}) \cup {"RUN_DUPLICATE_SUSPECTED"}
      BY DEF RunTypes
    <3> QED BY <3>3, <3>4
  <2>3. IsFiniteSet(alerted)
    BY <2>2, FS_Subset DEF Placed, TypeOK
  <2> QED BY <2>1, <2>3, FS_CardinalityType DEF ActiveOf
<1>5. counted' \in [annotations : Nat, alerts : Nat]
  BY <1>4 DEF RefreshCounts, Placed, TypeOK
<1>6. /\ stage' \in DOMAIN Stages /\ point' = "begin" /\ Stands' /\ LeftIsOpen'
      /\ focus = "silence" /\ stage' = 2 => stage = 1
  BY <1>2, AfterAdvance DEF Placed
<1>7. TypeOK'
  BY <1>2, <1>3, <1>5, <1>6 DEF Placed, TypeOK
<1> QED BY <1>1, <1>2, <1>6, <1>7 DEF FailedFew, Placed

LEMMA CheckDriftPlaced == ASSUME Placed, CheckDrift PROVE Placed'
PROOF
<1>1. stage = 14 /\ point = "begin"
  BY AtStage DEF Placed, CheckDrift
<1>2. UNCHANGED <<focus, world, left, seen, failed, sample, last, told, pairs, lostSaid, store, changes>> /\ Advance
  BY DEF CheckDrift
<1>3. /\ troubles' \in 0 .. MaxTroubles /\ drift' \in Checksums \cup {NoSum} /\ driftTold' \in Checksums \cup {NoSum}
      /\ driftEvents' \in Nat
  BY MonitoringAssumption DEF CheckDrift, Db, Placed, TypeOK, PolicyFile
<1>4. /\ stage' \in DOMAIN Stages /\ point' = "begin" /\ Stands' /\ LeftIsOpen'
      /\ focus = "silence" /\ stage' = 2 => stage = 1
  BY <1>2, AfterAdvance DEF Placed
<1>5. TypeOK'
  BY <1>2, <1>3, <1>4 DEF Placed, TypeOK
<1> QED BY <1>1, <1>2, <1>4, <1>5 DEF FailedFew, Placed

LEMMA AgesOlder ==
    ASSUME NEW a \in Ages \cup {Never}, NEW b \in {SilentAfter, SubsystemAfter, OfflineAfter, OfflineAfter - 1}
    PROVE  Older(a, b) \in Ages \cup {Never} /\ (a \in Ages => Older(a, b) \in Ages)
PROOF
BY VerdictsAssumption DEF Older, Ages, Old, Never

LEMMA WorldPlaced ==
    ASSUME Placed,
           \/ Progress \/ EndRun \/ AttemptsChange \/ RunHeartbeat \/ Fire \/ Toggle
           \/ (\E x \in Subsystems : Observed(x)) \/ WorkArrivesOrEnds \/ StreamChanges \/ EditFile
           \/ (\E r \in Requests : LoadPolicy(r) \/ StorePolicy(r))
           \/ Alerting
    PROVE  Placed'
PROOF
<1>2. 0 \in Ages
  BY VerdictsAssumption DEF Ages, Old
<1>3. \A parts : Changing(parts) => changes' \in 0 .. MaxChanges
  BY MonitoringAssumption DEF Changing, Placed, TypeOK
<1>4. CASE Progress
  BY <1>4, <1>2, <1>3, SweepStays DEF Progress, Placed, TypeOK
<1>5. CASE EndRun
  BY <1>5, <1>2, SweepStays DEF EndRun, Placed, TypeOK
<1>6. CASE AttemptsChange
  BY <1>6, <1>3, SweepStays DEF AttemptsChange, Placed, TypeOK
<1>7. CASE RunHeartbeat
  BY <1>7, <1>2, SweepStays DEF RunHeartbeat, Placed, TypeOK
<1>8. CASE Fire
  BY <1>8, <1>2, SweepStays DEF Fire, Placed, TypeOK
<1>9. CASE Toggle
  BY <1>9, <1>3, SweepStays DEF Toggle, Placed, TypeOK
<1>10. CASE \E x \in Subsystems : Observed(x)
  BY <1>10, <1>2, SweepStays DEF Observed, Placed, TypeOK
<1>11. CASE WorkArrivesOrEnds
  BY <1>11, <1>3, SweepStays DEF WorkArrivesOrEnds, Placed, TypeOK
<1>12. CASE StreamChanges
  BY <1>12, <1>3, SweepStays DEF StreamChanges, Placed, TypeOK
<1>13. CASE EditFile
  BY <1>13, <1>3, SweepStays DEF EditFile, Placed, TypeOK
<1>14. CASE \E r \in Requests : LoadPolicy(r)
  BY <1>14, <1>3, SweepStays DEF LoadPolicy, Placed, TypeOK, PolicyFile
<1>15. CASE \E r \in Requests : StorePolicy(r)
  BY <1>15, SweepStays DEF StorePolicy, Placed, TypeOK
<1>16. CASE Alerting
  BY <1>16, <1>2, SweepStays DEF Alerting, OpenAlert, ResolveAlert, Placed, TypeOK
<1> QED BY <1>4, <1>5, <1>6, <1>7, <1>8, <1>9, <1>10, <1>11, <1>12, <1>13, <1>14, <1>15, <1>16

LEMMA ComponentsPlaced == ASSUME Placed, Components PROVE Placed'
PROOF
<1>1. PICK i \in Lives : CreateComponent(i) \/ Heartbeat(i) \/ Shutdown(i) \/ MarkDraining(i) \/ MarkStopped(i) \/ Die(i)
  BY DEF Components
<1>2. UNCHANGED <<focus, besidesComponent, changes>>
  BY <1>1 DEF CreateComponent, Heartbeat, Shutdown, MarkDraining, MarkStopped, Die
<1>3. troubles' \in 0 .. MaxTroubles
  BY <1>1, MonitoringAssumption DEF CreateComponent, Heartbeat, Shutdown, MarkDraining, MarkStopped, Die, Db, Placed, TypeOK
<1>4. proc' \in [Lives -> {"off", "up", "leaving", "gone"}] /\ pending' \subseteq Lives \X {"heartbeat", "draining"}
  BY <1>1 DEF CreateComponent, Heartbeat, Shutdown, MarkDraining, MarkStopped, Die, Placed, TypeOK
<1>5. rows' \in [Lives -> Instance]
  <2>1. rows \in [Lives -> Instance] /\ 0 \in Ages
    BY VerdictsAssumption DEF Placed, TypeOK, Ages, Old
  <2>2. \A r \in Instance : [r EXCEPT !.seen = 0] \in Instance /\ [r EXCEPT !.stopped = 0] \in Instance /\ [r EXCEPT !.draining = 0] \in Instance
    BY <2>1 DEF Instance
  <2>3. \/ rows' = rows
        \/ rows' = [rows EXCEPT ![i] = [rows[i] EXCEPT !.seen = 0]]
        \/ rows' = [rows EXCEPT ![i] = [rows[i] EXCEPT !.stopped = 0]]
        \/ rows' = [rows EXCEPT ![i] = [rows[i] EXCEPT !.draining = 0]]
    BY <1>1 DEF CreateComponent, Heartbeat, Shutdown, MarkDraining, MarkStopped, Die
  <2> QED BY <2>1, <2>2, <2>3
<1>6. TypeOK'
  BY <1>2, <1>3, <1>4, <1>5 DEF Placed, TypeOK
<1> QED BY <1>2, <1>6, SweepStays

LEMMA TickPlaced == ASSUME Placed, Tick PROVE Placed'
PROOF
<1>1. UNCHANGED <<focus, run, attempts, enabled, proc, busy, stream, policyState, sweep, memory, heard, store, changes, troubles>>
  BY DEF Tick
<1>2. quiet' \in Ages /\ beat' \in Ages \cup {Never} /\ late' \in Ages
  BY AgesOlder DEF Tick, Placed, TypeOK
<1>3. fresh' \in [Subsystems -> Ages]
  BY AgesOlder DEF Tick, Placed, TypeOK
<1>4. rows' \in [Lives -> Instance]
  BY AgesOlder DEF Tick, Placed, TypeOK, Instance
<1>5. pending' \subseteq Lives \X {"heartbeat", "draining"}
  BY DEF Tick, Placed, TypeOK
<1>6. TypeOK'
  BY <1>1, <1>2, <1>3, <1>4, <1>5 DEF Placed, TypeOK
<1> QED BY <1>1, <1>6, SweepStays

(* A restart begins a sweep, and so does the first start. *)
LEMMA RestartPlaced == ASSUME Placed, Restart PROVE Placed'
PROOF
<1>1. /\ UNCHANGED <<focus, runState, scheduleState, componentState, subsystemState, stream, file, sample, heard, store, changes>>
      /\ stage' = Least(Meets) /\ point' = "begin" /\ left' = 0 /\ seen' = NothingSeen /\ failed' = 0 /\ last' = NothingSeen
      /\ drift' = NoSum /\ policy' = file.sum /\ reload' = [r \in Requests |-> NoSum]
  BY DEF Restart
<1>2. troubles' \in 0 .. MaxTroubles
  BY MonitoringAssumption DEF Restart, Placed, TypeOK
<1>3. focus \in Known /\ Meets' = Meets
  BY <1>1, AtStage DEF Placed, Meets
<1>4. stage' \in Meets /\ stage' \in DOMAIN Stages
  BY <1>1, <1>3, FirstStage DEF Meets
<1>5. Stands' /\ LeftIsOpen'
  BY <1>1, <1>3, <1>4, StageTable DEF Stands, LeftIsOpen, In
<1>6. TypeOK'
  BY <1>1, <1>2, <1>4 DEF Placed, TypeOK, NothingSeen, PolicyFile, TotalChecks
<1> QED BY <1>1, <1>5, <1>6 DEF FailedFew, Placed

LEMMA InitPlaced == ASSUME Init PROVE Placed
PROOF
<1>1. focus \in Known /\ 0 \in Ages
  BY MonitoringAssumption, VerdictsAssumption DEF Init, Known, Ages, Old
<1>2. stage \in Meets /\ stage \in DOMAIN Stages
  BY <1>1, FirstStage DEF Init, Meets
<1>3. Stands /\ LeftIsOpen /\ FailedFew
  BY <1>2, StageTable DEF Init, Stands, LeftIsOpen, FailedFew, In
<1>4. policy \in Checksums
  BY MonitoringAssumption DEF Init
<1>5. TypeOK
  <2>1. /\ run \in {"Running", "Ended"} /\ quiet \in Ages /\ beat \in Ages \cup {Never} /\ attempts \in 0 .. 2
        /\ late \in Ages /\ fresh \in [Subsystems -> Ages]
    BY <1>1 DEF Init
  <2>2. enabled \in BOOLEAN /\ busy \in BOOLEAN /\ stream \in [backlog : BOOLEAN, consumers : BOOLEAN]
    BY DEF Init
  <2>3. /\ proc \in [Lives -> {"off", "up", "leaving", "gone"}] /\ rows \in [Lives -> Instance]
        /\ pending \subseteq Lives \X {"heartbeat", "draining"}
    BY DEF Init, NoRow, Instance
  <2>4. file \in PolicyFile /\ reload \in [Requests -> Checksums \cup {NoSum}]
    BY <1>4 DEF Init, PolicyFile
  <2>5. /\ annotations \in [Types -> Nat] /\ alerted \subseteq RunTypes /\ counted \in [annotations : Nat, alerts : Nat]
        /\ DOMAIN seen = Names /\ DOMAIN last = Names /\ DOMAIN told = Names
    BY DEF Init, NothingSeen
  <2>6. /\ focus \in Foci /\ left \in Nat /\ failed \in 0 .. TotalChecks
        /\ point \in {"begin", "lookup", "create", "each", "announce"}
        /\ sample \in {"none", "COMPLETE", "PARTIAL", "DEGRADED"}
        /\ drift \in Checksums \cup {NoSum} /\ driftTold \in Checksums \cup {NoSum}
        /\ driftEvents \in Nat /\ pairs \in Int /\ lostSaid \in 0 .. 2
        /\ changes \in 0 .. MaxChanges /\ troubles \in 0 .. MaxTroubles
    BY MonitoringAssumption DEF Init, TotalChecks
  <2> QED BY <1>2, <1>4, <2>1, <2>2, <2>3, <2>4, <2>5, <2>6 DEF TypeOK
<1> QED BY <1>3, <1>5 DEF Placed

LEMMA NextPlaced == ASSUME Placed, [Next]_vars PROVE Placed'
PROOF
<1>1. CASE Sweep
  BY <1>1, DetectPlaced, LookupPlaced, CreatePlaced, AnnounceDetectedPlaced, ReadStatusesPlaced, CompareStatusPlaced,
     ObserveDonePlaced, WriteSamplePlaced, ListUnresolvedPlaced, ResolvePlaced, AnnounceRecoveredPlaced,
     ResolveDonePlaced, RefreshCountsPlaced, CheckDriftPlaced DEF Sweep
<1>2. CASE SampleQueue
  BY <1>2, SampleQueuePlaced
<1>3. CASE World \/ Alerting
  BY <1>3, WorldPlaced, ComponentsPlaced DEF World
<1>4. CASE Tick
  BY <1>4, TickPlaced
<1>5. CASE Restart
  BY <1>5, RestartPlaced
<1>6. CASE UNCHANGED vars
  <2>1. TypeOK'
    BY <1>6 DEF vars, Placed, TypeOK
  <2> QED BY <1>6, <2>1, SweepStays DEF vars
<1> QED BY <1>1, <1>2, <1>3, <1>4, <1>5, <1>6 DEF Next

-----------------------------------------------------------------------------
(* One open annotation for a cause, and events that come in pairs. *)

(* Troubles only grow, and outside the sweep's own steps neither its place nor *)
(* the annotations and their events change.                                 *)
LEMMA TroublesGrow ==
    ASSUME Placed, [Next]_vars
    PROVE  troubles \in Nat /\ troubles' \in Nat /\ troubles <= troubles'
PROOF
<1>1. troubles \in Nat /\ troubles' \in Nat
  BY NextPlaced, MonitoringAssumption DEF Placed, TypeOK
<1>2. ASSUME NEW ok \in BOOLEAN, Db(ok) PROVE troubles <= troubles'
  BY <1>1, <1>2 DEF Db
<1>3. CASE Detect
  BY <1>1, <1>2, <1>3 DEF Detect
<1>4. CASE Lookup
  BY <1>1, <1>2, <1>4 DEF Lookup
<1>5. CASE Create
  BY <1>1, <1>2, <1>5 DEF Create
<1>6. CASE AnnounceDetected
  BY <1>1, <1>2, <1>6 DEF AnnounceDetected
<1>7. CASE ReadStatuses
  BY <1>1, <1>2, <1>7 DEF ReadStatuses
<1>8. CASE CompareStatus
  BY <1>1, <1>2, <1>8 DEF CompareStatus
<1>9. CASE WriteSample
  BY <1>1, <1>2, <1>9 DEF WriteSample
<1>10. CASE ListUnresolved
  BY <1>1, <1>2, <1>10 DEF ListUnresolved
<1>11. CASE Resolve
  BY <1>1, <1>2, <1>11 DEF Resolve
<1>12. CASE AnnounceRecovered
  BY <1>1, <1>2, <1>12 DEF AnnounceRecovered
<1>13. CASE RefreshCounts
  BY <1>1, <1>2, <1>13 DEF RefreshCounts
<1>14. CASE CheckDrift
  BY <1>1, <1>2, <1>14 DEF CheckDrift
<1>15. CASE SampleQueue
  BY <1>1, <1>2, <1>15 DEF SampleQueue
<1>16. CASE ObserveDone \/ ResolveDone \/ Tick \/ Restart \/ Alerting \/ UNCHANGED vars
  BY <1>1, <1>16 DEF ObserveDone, ResolveDone, Tick, Restart, Alerting, OpenAlert, ResolveAlert, vars
<1>17. CASE Components
  BY <1>1, <1>2, <1>17 DEF Components, CreateComponent, Heartbeat, Shutdown, MarkDraining, MarkStopped, Die
<1>18. CASE World /\ ~Components
  BY <1>1, <1>18 DEF World, Progress, EndRun, AttemptsChange, RunHeartbeat, Fire, Toggle,
     Observed, WorkArrivesOrEnds, StreamChanges, EditFile, LoadPolicy, StorePolicy
<1> QED BY <1>1, <1>3, <1>4, <1>5, <1>6, <1>7, <1>8, <1>9, <1>10,
          <1>11, <1>12, <1>13, <1>14, <1>15, <1>16, <1>17, <1>18 DEF Next, Sweep

LEMMA Elsewhere ==
    ASSUME [Next]_vars, ~Sweep, ~Restart
    PROVE  UNCHANGED <<stage, point, annotations, pairs>>
PROOF
<1>1. CASE SampleQueue \/ Tick \/ Alerting \/ UNCHANGED vars
  BY <1>1 DEF SampleQueue, Tick, Alerting, OpenAlert, ResolveAlert, vars
<1>2. CASE World
  BY <1>2 DEF World, Progress, EndRun, AttemptsChange, RunHeartbeat, Fire, Toggle, Components, CreateComponent, Heartbeat,
     Shutdown, MarkDraining, MarkStopped, Die, Observed, WorkArrivesOrEnds, StreamChanges, EditFile, LoadPolicy, StorePolicy
<1> QED BY <1>1, <1>2 DEF Next

(* A step that writes no annotation and leads to no insert adds none. *)
LEMMA NoneAdded ==
    ASSUME Placed, OneMoreAtMost, troubles' \in Nat, troubles <= troubles', annotations' = annotations,
           point' # "create" \/ UNCHANGED <<stage, point>>
    PROVE  OneMoreAtMost'
PROOF
<1>1. troubles \in Nat /\ annotations \in [Types -> Nat]
  BY MonitoringAssumption DEF Placed, TypeOK
<1>2. In("detect", "create") => Subject \in Types
  BY AtStage DEF Placed
<1>3. ASSUME NEW t \in Types PROVE annotations'[t] <= 1 + troubles'
  BY <1>1, <1>3 DEF OneMoreAtMost
<1>4. ASSUME In("detect", "create")' PROVE annotations'[Subject'] <= troubles'
  BY <1>1, <1>2, <1>4 DEF OneMoreAtMost, In, Subject
<1> QED BY <1>3, <1>4 DEF OneMoreAtMost

LEMMA OneMoreKept == ASSUME Placed, OneMoreAtMost, [Next]_vars PROVE OneMoreAtMost'
PROOF
<1>1. troubles \in Nat /\ troubles' \in Nat /\ troubles <= troubles' /\ annotations \in [Types -> Nat]
  BY TroublesGrow DEF Placed, TypeOK
<1>2. CASE ~Sweep /\ ~Restart
  BY <1>1, <1>2, Elsewhere, NoneAdded
<1>3. CASE Restart
  BY <1>1, <1>3, NoneAdded DEF Restart
<1>4. CASE Detect \/ AnnounceDetected \/ ReadStatuses \/ CompareStatus \/ ObserveDone \/ WriteSample
  <2>1. annotations' = annotations
    BY <1>4 DEF Detect, AnnounceDetected, ReadStatuses, CompareStatus, ObserveDone, WriteSample
  <2>2. point' # "create" \/ UNCHANGED <<stage, point>>
    BY <1>4 DEF Detect, AnnounceDetected, ReadStatuses, CompareStatus, ObserveDone, WriteSample, Goto, Advance
  <2> QED BY <1>1, <2>1, <2>2, NoneAdded
<1>5. CASE ListUnresolved \/ AnnounceRecovered \/ ResolveDone \/ RefreshCounts \/ CheckDrift
  <2>1. annotations' = annotations
    BY <1>5 DEF ListUnresolved, AnnounceRecovered, ResolveDone, RefreshCounts, CheckDrift
  <2>2. point' # "create"
    BY <1>5 DEF ListUnresolved, AnnounceRecovered, ResolveDone, RefreshCounts, CheckDrift, Goto, Advance
  <2> QED BY <1>1, <2>1, <2>2, NoneAdded
<1>6. CASE Lookup
  <2>1. annotations' = annotations /\ Subject \in Types
    BY <1>6, AtStage DEF Lookup, Placed
  <2>2. PICK ok \in BOOLEAN : Db(ok) /\ IF ok /\ annotations[Subject] > 0 THEN Advance ELSE Goto("create")
    BY <1>6 DEF Lookup, AfterFound
  <2>3. CASE Advance
    BY <1>1, <2>1, <2>3, NoneAdded DEF Advance
  <2>4. CASE Goto("create") /\ ~(ok /\ annotations[Subject] > 0)
    <3>1. annotations[Subject] \in Nat /\ annotations[Subject] <= troubles'
      BY <1>1, <2>1, <2>2, <2>4 DEF Db, OneMoreAtMost
    <3>2. Subject' = Subject
      BY <2>4 DEF Goto, Subject
    <3>3. \A t \in Types : annotations'[t] <= 1 + troubles'
      BY <1>1, <2>1 DEF OneMoreAtMost
    <3> QED BY <2>1, <3>1, <3>2, <3>3 DEF OneMoreAtMost
  <2> QED BY <2>2, <2>3, <2>4
<1>7. CASE Create
  <2>1. In("detect", "create") /\ Subject \in Types
    BY <1>7, AtStage DEF Create, Placed
  <2>2. annotations' \in {[annotations EXCEPT ![Subject] = @ + 1], annotations} /\ point' # "create"
    BY <1>7 DEF Create, Goto, Advance
  <2>3. ASSUME NEW t \in Types PROVE annotations'[t] <= 1 + troubles'
    BY <1>1, <2>1, <2>2, <2>3 DEF OneMoreAtMost
  <2> QED BY <2>2, <2>3 DEF OneMoreAtMost, In
<1>8. CASE Resolve
  <2>1. In("resolve", "each") /\ Subject \in Types /\ stage \in 9 .. 12
    BY <1>8, AtStage DEF Resolve, Placed
  <2>2. annotations' \in {[annotations EXCEPT ![Subject] = @ - 1], annotations} /\ point' # "create"
    BY <1>8, <2>1 DEF Resolve, Goto, In
  <2>3. ASSUME NEW t \in Types PROVE annotations'[t] <= 1 + troubles'
    BY <1>1, <2>1, <2>2, <2>3 DEF OneMoreAtMost
  <2> QED BY <2>2, <2>3 DEF OneMoreAtMost, In
<1> QED BY <1>2, <1>3, <1>4, <1>5, <1>6, <1>7, <1>8 DEF Sweep

Missed == annotations["SCHEDULE_MISSED"]

LEMMA UnderWayIs ==
    ASSUME Placed
    PROVE  /\ UnderWay = (IF point = "announce" THEN IF stage = 4 THEN 1 ELSE IF stage \in 9 .. 12 THEN -1 ELSE 0 ELSE 0)
           /\ Missed \in Nat /\ pairs \in Int /\ troubles \in Nat
PROOF
BY AtStage, MonitoringAssumption DEF Placed, TypeOK, UnderWay, Missed, Types

(* A step that writes neither event nor annotation of a schedule. *)
LEMMA NoGap ==
    ASSUME Placed, Placed', GapIsTrouble, troubles <= troubles', pairs' = pairs, Missed' = Missed,
           (point # "announce" /\ point' # "announce") \/ UNCHANGED <<stage, point>>
    PROVE  GapIsTrouble'
PROOF
<1>1. UnderWay' = UnderWay
  BY DEF UnderWay, In, Subject
<1>2. Missed \in Nat /\ pairs \in Int /\ troubles \in Nat /\ troubles' \in Nat /\ UnderWay \in {-1, 0, 1}
  BY UnderWayIs, MonitoringAssumption DEF Placed, TypeOK
<1> QED BY <1>1, <1>2 DEF GapIsTrouble, Missed

LEMMA GapKept == ASSUME Placed, GapIsTrouble, [Next]_vars PROVE GapIsTrouble'
PROOF
<1>1. Placed' /\ troubles \in Nat /\ troubles' \in Nat /\ troubles <= troubles' /\ annotations \in [Types -> Nat] /\ pairs \in Int
  BY NextPlaced, TroublesGrow DEF Placed, TypeOK
<1>2. /\ UnderWay = (IF point = "announce" THEN IF stage = 4 THEN 1 ELSE IF stage \in 9 .. 12 THEN -1 ELSE 0 ELSE 0)
      /\ UnderWay' = (IF point' = "announce" THEN IF stage' = 4 THEN 1 ELSE IF stage' \in 9 .. 12 THEN -1 ELSE 0 ELSE 0)
      /\ Missed \in Nat /\ Missed' \in Nat
  <2>1. stage' \in 1 .. 14 /\ Missed' \in Nat
    BY <1>1, StageTable DEF Placed, TypeOK, Missed, Types
  <2>2. UnderWay' = (IF point' = "announce" THEN IF stage' = 4 THEN 1 ELSE IF stage' \in 9 .. 12 THEN -1 ELSE 0 ELSE 0)
    BY <2>1, StageTable DEF UnderWay, In, Subject
  <2> QED BY <2>1, <2>2, UnderWayIs
<1>3. pairs + UnderWay - Missed <= troubles /\ -(pairs + UnderWay - Missed) <= troubles
  BY DEF GapIsTrouble, Missed
<1>4. SUFFICES pairs' + UnderWay' - Missed' <= troubles' /\ -(pairs' + UnderWay' - Missed') <= troubles'
  BY DEF GapIsTrouble, Missed
<1>5. ASSUME pairs' = pairs, annotations' = annotations,
             (point # "announce" /\ point' # "announce") \/ UNCHANGED <<stage, point>>
      PROVE  GapIsTrouble'
  BY <1>1, <1>5, NoGap DEF Missed
<1>6. GapIsTrouble' => pairs' + UnderWay' - Missed' <= troubles' /\ -(pairs' + UnderWay' - Missed') <= troubles'
  BY DEF GapIsTrouble, Missed
<1>7. CASE ~Sweep /\ ~Restart
  BY <1>5, <1>6, <1>7, Elsewhere
<1>8. CASE Restart
  <2>1. pairs' = pairs /\ Missed' = Missed /\ troubles' = troubles + 1 /\ UnderWay' = 0
    BY <1>2, <1>8 DEF Restart, Missed
  <2> QED BY <1>1, <1>2, <1>3, <2>1
<1>9. CASE Detect \/ Lookup
  <2>1. pairs' = pairs /\ annotations' = annotations /\ point # "announce" /\ point' # "announce"
    BY <1>9 DEF Detect, Lookup, In, Goto, Advance, AfterFound
  <2> QED BY <1>5, <1>6, <2>1
<1>10. CASE ReadStatuses \/ CompareStatus \/ ObserveDone \/ WriteSample
  <2>1. pairs' = pairs /\ annotations' = annotations /\ point # "announce" /\ point' # "announce"
    BY <1>10 DEF ReadStatuses, CompareStatus, ObserveDone, WriteSample, In, Goto, Advance
  <2> QED BY <1>5, <1>6, <2>1
<1>11. CASE ListUnresolved \/ ResolveDone \/ RefreshCounts
  <2>1. pairs' = pairs /\ annotations' = annotations /\ point # "announce" /\ point' # "announce"
    BY <1>11 DEF ListUnresolved, ResolveDone, RefreshCounts, In, Goto, Advance
  <2> QED BY <1>5, <1>6, <2>1
<1>12. CASE CheckDrift
  <2>1. pairs' = pairs /\ annotations' = annotations /\ point # "announce" /\ point' # "announce"
    BY <1>12 DEF CheckDrift, In, Advance
  <2> QED BY <1>5, <1>6, <2>1
<1>13. CASE Create
  <2>1. stage \in 1 .. 4 /\ point = "create" /\ Subject \in Types /\ (Subject = "SCHEDULE_MISSED" <=> stage = 4)
    BY <1>13, AtStage DEF Create, Placed
  <2>2. PICK ok \in BOOLEAN :
          /\ annotations' = IF ok THEN [annotations EXCEPT ![Subject] = @ + 1] ELSE annotations
          /\ IF ok /\ Subject \in {"RUN_LOST", "SCHEDULE_MISSED"} THEN Goto("announce") ELSE Advance
    BY <1>13 DEF Create
  <2>3. pairs' = pairs
    BY <1>13 DEF Create
  <2>4. CASE ok /\ stage = 4
    <3>1. Missed' = Missed + 1 /\ stage' = 4 /\ point' = "announce"
      BY <1>1, <2>1, <2>2, <2>4 DEF Missed, Goto
    <3> QED BY <1>1, <1>2, <1>3, <2>1, <2>3, <3>1
  <2>5. CASE ~(ok /\ stage = 4)
    <3>1. Missed' = Missed
      BY <1>1, <2>1, <2>2, <2>5 DEF Missed
    <3>2. UnderWay' = 0
      BY <1>2, <2>1, <2>2, <2>5 DEF Goto, Advance
    <3> QED BY <1>1, <1>2, <1>3, <2>1, <2>3, <3>1, <3>2
  <2> QED BY <2>4, <2>5
<1>14. CASE AnnounceDetected
  <2>1. stage \in 1 .. 4 /\ point = "announce" /\ (Subject = "SCHEDULE_MISSED" <=> stage = 4)
    BY <1>14, AtStage DEF AnnounceDetected, Placed
  <2>2. PICK ok \in BOOLEAN : Db(ok) /\ pairs' = IF ok /\ Subject = "SCHEDULE_MISSED" THEN pairs + 1 ELSE pairs
    BY <1>14 DEF AnnounceDetected
  <2>3. Missed' = Missed /\ UnderWay' = 0
    BY <1>2, <1>14 DEF AnnounceDetected, Advance, Missed
  <2>4. ~ok => troubles' = troubles + 1
    BY <2>2 DEF Db
  <2> QED BY <1>1, <1>2, <1>3, <2>1, <2>2, <2>3, <2>4
<1>15. CASE Resolve
  <2>1. stage \in 9 .. 12 /\ point = "each" /\ Subject \in Types /\ (Subject = "SCHEDULE_MISSED" <=> stage = 12)
    BY <1>15, AtStage DEF Resolve, Placed
  <2>2. PICK read, saved \in BOOLEAN :
          /\ Db(read /\ saved)
          /\ annotations' = IF Clear(Subject, read) /\ saved THEN [annotations EXCEPT ![Subject] = @ - 1] ELSE annotations
          /\ IF Clear(Subject, read) /\ Subject = "SCHEDULE_MISSED" THEN Goto("announce") ELSE UNCHANGED <<stage, point>>
    BY <1>15 DEF Resolve
  <2>3. pairs' = pairs
    BY <1>15 DEF Resolve
  <2>4. CASE Clear(Subject, read) /\ stage = 12
    <3>1. UnderWay' = -1
      BY <1>2, <2>1, <2>2, <2>4 DEF Goto
    <3>2. saved => Missed' = Missed - 1
      BY <1>1, <2>1, <2>2, <2>4 DEF Missed
    <3>3. ~saved => Missed' = Missed /\ troubles' = troubles + 1
      BY <2>2 DEF Missed, Db
    <3>4. UnderWay = 0 /\ Missed \in Int /\ Missed' \in Int
      BY <1>2, <2>1
    <3>5. CASE saved
      BY <1>1, <1>3, <2>3, <3>1, <3>2, <3>4, <3>5
    <3>6. CASE ~saved
      BY <1>1, <1>3, <2>3, <3>1, <3>3, <3>4, <3>6
    <3> QED BY <3>5, <3>6
  <2>5. CASE ~(Clear(Subject, read) /\ stage = 12)
    <3>1. UnderWay' = 0
      BY <1>2, <2>1, <2>2, <2>5
    <3>2. Missed' = Missed
      BY <1>1, <2>1, <2>2, <2>5 DEF Missed
    <3> QED BY <1>1, <1>2, <1>3, <2>1, <2>3, <3>1, <3>2
  <2> QED BY <2>4, <2>5
<1>16. CASE AnnounceRecovered
  <2>1. stage \in 9 .. 12 /\ point = "announce" /\ point' = "each" /\ Missed' = Missed
    BY <1>16, AtStage DEF AnnounceRecovered, Placed, Goto, Missed
  <2>2. PICK ok \in BOOLEAN : Db(ok) /\ pairs' = IF ok THEN pairs - 1 ELSE pairs
    BY <1>16 DEF AnnounceRecovered
  <2>3. ~ok => troubles' = troubles + 1
    BY <2>2 DEF Db
  <2> QED BY <1>1, <1>2, <1>3, <2>1, <2>2, <2>3
<1> QED BY <1>7, <1>8, <1>9, <1>10, <1>11, <1>12, <1>13, <1>14, <1>15, <1>16 DEF Sweep

-----------------------------------------------------------------------------
(* A drift is paid for by the change or the restart that made it. *)

LEMMA ReportsAsBefore == ASSUME UNCHANGED <<file, policy, drift>> PROVE Reports' = Reports
PROOF
BY DEF Reports, Drifted

(* Any other step leaves the policy, its file and what was said of them.     *)
PolicyStep == CheckDrift \/ EditFile \/ (\E r \in Requests : LoadPolicy(r) \/ StorePolicy(r)) \/ Restart

LEMMA PolicyElsewhere ==
    ASSUME Placed, [Next]_vars, ~PolicyStep
    PROVE  UNCHANGED <<file, policy, reload, drift, driftEvents>> /\ changes <= changes'
PROOF
<1>1. changes \in Nat /\ changes' \in Nat
  BY NextPlaced, MonitoringAssumption DEF Placed, TypeOK
<1>2. CASE Detect \/ Lookup \/ Create \/ AnnounceDetected
  BY <1>1, <1>2 DEF Detect, Lookup, Create, AnnounceDetected
<1>3. CASE ReadStatuses \/ CompareStatus \/ ObserveDone \/ WriteSample \/ SampleQueue
  BY <1>1, <1>3 DEF ReadStatuses, CompareStatus, ObserveDone, WriteSample, SampleQueue
<1>4. CASE ListUnresolved \/ Resolve \/ AnnounceRecovered \/ ResolveDone \/ RefreshCounts
  BY <1>1, <1>4 DEF ListUnresolved, Resolve, AnnounceRecovered, ResolveDone, RefreshCounts
<1>5. CASE Tick \/ Alerting \/ UNCHANGED vars
  BY <1>1, <1>5 DEF Tick, Alerting, OpenAlert, ResolveAlert, vars
<1>6. CASE Components
  BY <1>1, <1>6 DEF Components, CreateComponent, Heartbeat, Shutdown, MarkDraining, MarkStopped, Die
<1>7. CASE Progress \/ EndRun \/ AttemptsChange \/ RunHeartbeat \/ Fire \/ Toggle
  BY <1>1, <1>7 DEF Progress, EndRun, AttemptsChange, RunHeartbeat, Fire, Toggle, Changing
<1>8. CASE (\E x \in Subsystems : Observed(x)) \/ WorkArrivesOrEnds \/ StreamChanges
  BY <1>1, <1>8 DEF Observed, WorkArrivesOrEnds, StreamChanges, Changing
<1> QED BY <1>2, <1>3, <1>4, <1>5, <1>6, <1>7, <1>8 DEF Next, Sweep, World, PolicyStep

LEMMA DriftKept == ASSUME Placed, DriftIsPaid, [Next]_vars PROVE DriftIsPaid'
PROOF
<1> DEFINE n == Cardinality(Loaded)
<1>1. /\ troubles \in Nat /\ troubles' \in Nat /\ troubles <= troubles'
      /\ changes \in Nat /\ changes' \in Nat /\ driftEvents \in Nat /\ driftEvents' \in Nat
      /\ IsFiniteSet(Loaded) /\ n \in Nat
  <2>1. IsFiniteSet(Loaded) /\ n \in Nat
    BY FS_CardinalityType DEF DriftIsPaid
  <2>2. changes \in Nat /\ changes' \in Nat /\ driftEvents \in Nat /\ driftEvents' \in Nat
    BY NextPlaced, MonitoringAssumption DEF Placed, TypeOK
  <2> QED BY <2>1, <2>2, TroublesGrow
<1>2. driftEvents + n + (IF Reports THEN 1 ELSE 0) <= changes + troubles
  BY <1>1 DEF DriftIsPaid, Owed
<1>3. ASSUME IsFiniteSet(Loaded'), driftEvents' + Cardinality(Loaded') + (IF Reports' THEN 1 ELSE 0) <= changes' + troubles'
      PROVE  DriftIsPaid'
  <2>1. Cardinality(Loaded') \in Nat
    BY <1>3, FS_CardinalityType
  <2> QED BY <1>1, <1>3, <2>1 DEF DriftIsPaid, Owed, Loaded
<1>4. reload' = reload => Loaded' = Loaded
  BY DEF Loaded
<1>5. CASE ~PolicyStep
  <2>1. UNCHANGED <<file, policy, reload, drift, driftEvents>> /\ changes <= changes'
    BY <1>5, PolicyElsewhere
  <2>2. Reports' = Reports /\ Loaded' = Loaded
    BY <1>4, <2>1, ReportsAsBefore
  <2> QED BY <1>1, <1>2, <1>3, <2>1, <2>2
<1>6. CASE CheckDrift
  <2>1. UNCHANGED <<file, policy, reload, changes>> /\ drift' = (IF Drifted THEN file.sum ELSE NoSum)
    BY <1>6 DEF CheckDrift
  <2>2. PICK ok \in BOOLEAN : (ok \/ Reports) /\ Db(ok) /\ driftEvents' = IF Reports /\ ok THEN driftEvents + 1 ELSE driftEvents
    BY <1>6 DEF CheckDrift
  <2>3. Reports' = FALSE /\ Loaded' = Loaded
    BY <1>4, <2>1 DEF Reports, Drifted
  <2>4. ~ok => troubles' = troubles + 1
    BY <2>2 DEF Db
  <2>5. CASE Reports /\ ok
    BY <1>1, <1>2, <1>3, <2>1, <2>2, <2>3, <2>5
  <2>6. CASE ~(Reports /\ ok)
    BY <1>1, <1>2, <1>3, <2>1, <2>2, <2>3, <2>6
  <2> QED BY <2>5, <2>6
<1>7. CASE EditFile
  <2>1. UNCHANGED <<reload, driftEvents>> /\ changes' = changes + 1 /\ Loaded' = Loaded
    BY <1>4, <1>7 DEF EditFile, Changing
  <2> QED BY <1>1, <1>2, <1>3, <2>1
<1>8. ASSUME NEW r \in Requests, LoadPolicy(r) PROVE DriftIsPaid'
  <2>1. UNCHANGED <<file, policy, drift, driftEvents>> /\ changes' = changes + 1 /\ Reports' = Reports
    BY <1>8, ReportsAsBefore DEF LoadPolicy, Changing
  <2>2. Loaded' \in {Loaded, Loaded \cup {r}}
    BY <1>8 DEF LoadPolicy, Loaded, Placed, TypeOK
  <2>3. IsFiniteSet(Loaded') /\ Cardinality(Loaded') \in Nat /\ Cardinality(Loaded') <= n + 1
    <3>1. /\ IsFiniteSet(Loaded \cup {r})
          /\ Cardinality(Loaded \cup {r}) = IF r \in Loaded THEN n ELSE n + 1
      BY <1>1, FS_AddElement
    <3> QED BY <1>1, <2>2, <3>1
  <2> QED BY <1>1, <1>2, <1>3, <2>1, <2>3
<1>9. ASSUME NEW r \in Requests, StorePolicy(r) PROVE DriftIsPaid'
  <2>1. UNCHANGED <<driftEvents, changes>> /\ r \in Loaded
    BY <1>9 DEF StorePolicy, Loaded
  <2>2. Loaded' = Loaded \ {r}
    BY <1>9 DEF StorePolicy, Loaded, Placed, TypeOK
  <2>3. IsFiniteSet(Loaded') /\ Cardinality(Loaded') = n - 1
    <3>1. /\ IsFiniteSet(Loaded \ {r})
          /\ Cardinality(Loaded \ {r}) = IF r \in Loaded THEN n - 1 ELSE n
      BY <1>1, FS_RemoveElement
    <3> QED BY <2>1, <2>2, <3>1
  <2> QED BY <1>1, <1>2, <1>3, <2>1, <2>3
<1>10. CASE Restart
  <2>1. UNCHANGED <<driftEvents, changes>> /\ troubles' = troubles + 1
    BY <1>10 DEF Restart
  <2>2. Loaded' = {} /\ Reports' = FALSE
    BY <1>10 DEF Restart, Loaded, Reports, Drifted
  <2>3. IsFiniteSet(Loaded') /\ Cardinality(Loaded') = 0
    BY <2>2, FS_EmptySet
  <2> QED BY <1>1, <1>2, <1>3, <2>1, <2>2, <2>3
<1> QED BY <1>5, <1>6, <1>7, <1>8, <1>9, <1>10 DEF PolicyStep

-----------------------------------------------------------------------------
(* A component's stop is no older than its last heartbeat. *)

LEMMA StopKept == ASSUME Placed, StopEndsBeats, [Next]_vars PROVE StopEndsBeats'
PROOF
<1>1. rows \in [Lives -> Instance] /\ proc \in [Lives -> {"off", "up", "leaving", "gone"}]
  BY DEF Placed, TypeOK
<1>2. CASE UNCHANGED <<proc, rows, pending>>
  BY <1>2 DEF StopEndsBeats
<1>3. ASSUME ~Components, ~Tick PROVE UNCHANGED <<proc, rows, pending>>
  <2>1. CASE Detect \/ Lookup \/ Create \/ AnnounceDetected
    BY <2>1 DEF Detect, Lookup, Create, AnnounceDetected
  <2>2. CASE ReadStatuses \/ CompareStatus \/ ObserveDone \/ WriteSample \/ SampleQueue
    BY <2>2 DEF ReadStatuses, CompareStatus, ObserveDone, WriteSample, SampleQueue
  <2>3. CASE ListUnresolved \/ Resolve \/ AnnounceRecovered \/ ResolveDone \/ RefreshCounts \/ CheckDrift
    BY <2>3 DEF ListUnresolved, Resolve, AnnounceRecovered, ResolveDone, RefreshCounts, CheckDrift
  <2>4. CASE Restart \/ Alerting \/ UNCHANGED vars
    BY <2>4 DEF Restart, Alerting, OpenAlert, ResolveAlert, vars
  <2>5. CASE World
    BY <1>3, <2>5 DEF World, Progress, EndRun, AttemptsChange, RunHeartbeat, Fire, Toggle, Observed, WorkArrivesOrEnds,
       StreamChanges, EditFile, LoadPolicy, StorePolicy
  <2> QED BY <1>3, <2>1, <2>2, <2>3, <2>4, <2>5 DEF Next, Sweep
<1>4. CASE Tick
  <2> SUFFICES ASSUME NEW i \in Lives
               PROVE  /\ proc'[i] # "gone" => rows'[i].stopped = Never
                      /\ <<i, "heartbeat">> \in pending' => rows'[i].stopped \in {Never, 0}
                      /\ rows'[i].stopped # Never /\ rows'[i].seen # Never => rows'[i].stopped <= rows'[i].seen
    BY DEF StopEndsBeats
  <2>1. /\ rows'[i].seen = Older(rows[i].seen, OfflineAfter) /\ rows'[i].stopped = Older(rows[i].stopped, OfflineAfter)
        /\ <<i, "heartbeat">> \notin pending' /\ proc' = proc
    BY <1>4 DEF Tick
  <2>2. rows[i].seen \in Ages \cup {Never} /\ rows[i].stopped \in Ages \cup {Never}
    BY <1>1 DEF Instance
  <2>3. \A a \in Ages \cup {Never} : Older(a, OfflineAfter) = IF a = Never THEN Never ELSE IF a <= OfflineAfter THEN a + 1 ELSE a
    BY VerdictsAssumption DEF Older, Ages, Old, Never
  <2>4. rows'[i].stopped = Never <=> rows[i].stopped = Never
    BY <2>1, <2>2, <2>3 DEF Ages, Never
  <2>5. rows'[i].seen = Never <=> rows[i].seen = Never
    BY <2>1, <2>2, <2>3 DEF Ages, Never
  <2>6. rows[i].stopped # Never /\ rows[i].seen # Never => rows'[i].stopped <= rows'[i].seen
    BY <2>1, <2>2, <2>3, VerdictsAssumption DEF StopEndsBeats, Ages, Old
  <2> QED BY <2>1, <2>4, <2>5, <2>6 DEF StopEndsBeats
<1>5. ASSUME NEW i \in Lives,
             CreateComponent(i) \/ Heartbeat(i) \/ Shutdown(i) \/ MarkDraining(i) \/ MarkStopped(i) \/ Die(i)
      PROVE  StopEndsBeats'
  <2> SUFFICES ASSUME NEW j \in Lives
               PROVE  /\ proc'[j] # "gone" => rows'[j].stopped = Never
                      /\ <<j, "heartbeat">> \in pending' => rows'[j].stopped \in {Never, 0}
                      /\ rows'[j].stopped # Never /\ rows'[j].seen # Never => rows'[j].stopped <= rows'[j].seen
    BY DEF StopEndsBeats
  <2>1. /\ proc[j] # "gone" => rows[j].stopped = Never
        /\ <<j, "heartbeat">> \in pending => rows[j].stopped \in {Never, 0}
        /\ rows[j].stopped # Never /\ rows[j].seen # Never => rows[j].stopped <= rows[j].seen
        /\ rows[j].seen \in Ages \cup {Never} /\ rows[j].stopped \in Ages \cup {Never}
    BY <1>1 DEF StopEndsBeats, Instance
  <2>2. CASE CreateComponent(i) \/ Die(i)
    BY <1>1, <2>1, <2>2 DEF CreateComponent, Die
  <2>3. CASE Heartbeat(i)
    <3>1. /\ proc' = proc /\ (<<j, "heartbeat">> \in pending' => <<j, "heartbeat">> \in pending)
          /\ rows'[j].stopped = rows[j].stopped /\ rows'[j].seen = (IF j = i THEN 0 ELSE rows[j].seen)
      BY <1>1, <2>3 DEF Heartbeat, Instance
    <3>2. j = i => rows[j].stopped \in {Never, 0}
      BY <2>1, <2>3 DEF Heartbeat
    <3> QED BY <2>1, <3>1, <3>2
  <2>4. CASE Shutdown(i)
    <3>1. rows' = rows /\ (j = i => rows[j].stopped = Never)
      BY <2>1, <2>4 DEF Shutdown
    <3>2. (proc'[j] # "gone" => proc[j] # "gone") /\ (j # i => (<<j, "heartbeat">> \in pending' <=> <<j, "heartbeat">> \in pending))
      BY <1>1, <2>4 DEF Shutdown
    <3> QED BY <2>1, <3>1, <3>2
  <2>5. CASE MarkDraining(i)
    <3>1. /\ proc' = proc /\ (<<j, "heartbeat">> \in pending' => <<j, "heartbeat">> \in pending)
          /\ rows'[j].stopped = rows[j].stopped /\ rows'[j].seen = rows[j].seen
      BY <1>1, <2>5 DEF MarkDraining, Instance
    <3> QED BY <2>1, <3>1
  <2>6. CASE MarkStopped(i)
    <3>1. /\ pending' = pending /\ (j = i => proc'[j] = "gone" /\ rows[j].stopped = Never) /\ (j # i => proc'[j] = proc[j])
          /\ rows'[j].stopped \in (IF j = i THEN {0, rows[j].stopped} ELSE {rows[j].stopped}) /\ rows'[j].seen = rows[j].seen
      BY <1>1, <2>1, <2>6 DEF MarkStopped, Instance
    <3> QED BY <2>1, <3>1, VerdictsAssumption DEF Ages, Old, Never
  <2> QED BY <1>5, <2>2, <2>3, <2>4, <2>5, <2>6
<1> QED BY <1>2, <1>3, <1>4, <1>5 DEF Components

-----------------------------------------------------------------------------
(* The worker with a heartbeat whose heartbeat is the newest. *)
LEMMA NewestBeats == ASSUME TypeOK, Beating # {} PROVE Newest \in Beating
PROOF
<1>1. \A i \in Beating : i \in {"first", "second"} /\ rows[i].seen \in Int
  BY VerdictsAssumption DEF Beating, Lives, TypeOK, Instance, Ages, Old, Never
<1>2. \E i \in Beating : \A j \in Beating : rows[i].seen < rows[j].seen \/ (rows[i].seen = rows[j].seen /\ (i = "second" \/ j = i))
  <2>1. CASE "first" \notin Beating \/ "second" \notin Beating
    BY <1>1, <2>1
  <2>2. CASE "first" \in Beating /\ "second" \in Beating
    <3>1. CASE rows["second"].seen <= rows["first"].seen
      BY <1>1, <2>2, <3>1
    <3>2. CASE rows["first"].seen < rows["second"].seen
      BY <1>1, <2>2, <3>2
    <3> QED BY <1>1, <2>2, <3>1, <3>2
  <2> QED BY <2>1, <2>2
<1> HIDE DEF Beating
<1> QED BY <1>2 DEF Newest

LEMMA ViewsFollow == ASSUME TypeOK, StopEndsBeats PROVE ViewsAgree
PROOF
<1>1. ASSUME Beating # {} PROVE ComponentStatus(rows[Newest]) = SameVerdict[WorkerStatus(TRUE, TRUE)]
  <2>1. PICK r \in Instance : r = rows[Newest] /\ r.seen # Never /\ (r.stopped # Never => r.stopped <= r.seen)
    BY <1>1, NewestBeats DEF Beating, TypeOK, StopEndsBeats
  <2>2. GracefullyStopped(r) <=> r.stopped # Never
    BY <2>1 DEF GracefullyStopped
  <2>3. WorkerStatus(TRUE, TRUE) =
          CASE r.stopped # Never -> "stopped"
            [] r.draining # Never /\ r.draining < OfflineAfter /\ r.stopped = Never -> "draining"
            [] OTHER -> workerStatusFor(r.seen)
    BY <2>1 DEF WorkerStatus
  <2>4. /\ SameVerdict["stopped"] = "OFFLINE" /\ SameVerdict["draining"] = "DRAINING" /\ SameVerdict["offline"] = "OFFLINE"
        /\ SameVerdict["degraded"] = "DEGRADED" /\ SameVerdict["online"] = "HEALTHY"
    BY DEF SameVerdict
  <2>5. CASE r.stopped # Never
    <3>1. WorkerStatus(TRUE, TRUE) = "stopped"
      BY <2>3, <2>5
    <3>2. ComponentStatus(r) = "OFFLINE"
      BY <2>2, <2>5 DEF ComponentStatus, Draining, InstanceVerdict
    <3> QED BY <2>1, <2>4, <3>1, <3>2
  <2>6. CASE r.stopped = Never /\ r.draining # Never /\ r.draining < OfflineAfter
    <3>1. WorkerStatus(TRUE, TRUE) = "draining"
      BY <2>3, <2>6
    <3>2. ComponentStatus(r) = "DRAINING"
      BY <2>2, <2>6 DEF ComponentStatus, Draining
    <3> QED BY <2>1, <2>4, <3>1, <3>2
  <2>7. CASE r.stopped = Never /\ ~(r.draining # Never /\ r.draining < OfflineAfter)
    <3>1. ~Draining(r) /\ ~GracefullyStopped(r)
      BY <2>2, <2>7 DEF Draining
    <3>2. WorkerStatus(TRUE, TRUE) = workerStatusFor(r.seen) /\ ComponentStatus(r) = InstanceVerdict(r)
      BY <2>3, <2>7, <3>1 DEF ComponentStatus
    <3>3. r.seen \in Int /\ OfflineAfter \in Nat /\ DegradedAfter \in Nat /\ DegradedAfter < OfflineAfter
      BY VerdictsAssumption DEF Instance, Ages, Old, Never
    <3>4. CASE r.seen > OfflineAfter
      <4>1. workerStatusFor(r.seen) = "offline"
        BY <3>4 DEF workerStatusFor
      <4>2. InstanceVerdict(r) = "OFFLINE"
        BY <2>1, <3>1, <3>4 DEF InstanceVerdict
      <4> QED BY <2>1, <2>4, <3>2, <4>1, <4>2
    <3>5. CASE ~(r.seen > OfflineAfter) /\ r.seen > DegradedAfter
      <4>1. workerStatusFor(r.seen) = "degraded"
        BY <3>5 DEF workerStatusFor
      <4>2. InstanceVerdict(r) = "DEGRADED"
        BY <2>1, <3>1, <3>5 DEF InstanceVerdict
      <4> QED BY <2>1, <2>4, <3>2, <4>1, <4>2
    <3>6. CASE ~(r.seen > OfflineAfter) /\ ~(r.seen > DegradedAfter)
      <4>1. workerStatusFor(r.seen) = "online"
        BY <3>6 DEF workerStatusFor
      <4>2. InstanceVerdict(r) = "HEALTHY"
        BY <2>1, <3>1, <3>6 DEF InstanceVerdict
      <4> QED BY <2>1, <2>4, <3>2, <4>1, <4>2
    <3> QED BY <3>4, <3>5, <3>6
  <2> QED BY <2>5, <2>6, <2>7
<1>2. ASSUME NEW x \in FedByActivity, Verdict(x, busy) = "degraded" PROVE activityVerdict(fresh[x], busy) = "DEGRADED"
  <2>1. fresh[x] \in Ages
    BY DEF TypeOK, Subsystems
  <2>2. fresh[x] > SubsystemAfter /\ busy
    BY <1>2, <2>1 DEF Verdict, adjustVerdictForIdle, subsystemVerdict
  <2> QED BY <2>1, <2>2, VerdictsAssumption DEF activityVerdict, Ages, Old, Never
<1> QED BY <1>1, <1>2 DEF ViewsAgree

-----------------------------------------------------------------------------
LEMMA InitInv == ASSUME Init PROVE IInv
PROOF
<1>1. Placed
  BY InitPlaced
<1>2. OneMoreAtMost /\ GapIsTrouble
  BY <1>1, UnderWayIs DEF Init, OneMoreAtMost, GapIsTrouble, In, Types
<1>3. DriftIsPaid
  <2>1. Loaded = {} /\ Reports = FALSE
    BY DEF Init, Loaded, Reports, Drifted
  <2> QED BY <2>1, FS_EmptySet DEF Init, DriftIsPaid, Owed
<1>4. StopEndsBeats
  BY DEF Init, StopEndsBeats, NoRow
<1> QED BY <1>1, <1>2, <1>3, <1>4 DEF IInv, Placed

LEMMA NextInv == ASSUME IInv, [Next]_vars PROVE IInv'
PROOF
<1>1. Placed
  BY DEF IInv, Placed
<1> QED BY <1>1, NextPlaced, OneMoreKept, GapKept, DriftKept, StopKept DEF IInv, Placed

(* What the sweep writes once stays single, for any thresholds, any policies    *)
(* and any number of changes and troubles: a cause has one open annotation    *)
(* for each look-up that failed and one besides, missed and recovered differ   *)
(* from the annotation by the statements that failed, and drift is announced   *)
(* no more often than the file or the policy changed or the process restarted *)
(* (monitoring.go:200-226, 476-502; policy_drift.go:21-41).                   *)
THEOREM SaidOnceHolds == Spec => []SaidOnce
PROOF
<1>1. IInv => SaidOnce
  <2>1. ASSUME Placed, GapIsTrouble PROVE MissedThenRecovered
    <3>1. /\ UnderWay \in (IF point = "announce" THEN {-1, 0, 1} ELSE {0})
          /\ annotations["SCHEDULE_MISSED"] \in Nat /\ pairs \in Int /\ troubles \in Nat
      BY <2>1, UnderWayIs DEF Missed
    <3> QED BY <2>1, <3>1 DEF GapIsTrouble, MissedThenRecovered
  <2>2. ASSUME Placed, DriftIsPaid PROVE DriftSaidOnce
    <3>1. Cardinality(Loaded) \in Nat /\ driftEvents \in Nat /\ changes \in Nat /\ troubles \in Nat
      BY <2>2, FS_CardinalityType, MonitoringAssumption DEF DriftIsPaid, Placed, TypeOK
    <3> QED BY <2>2, <3>1 DEF DriftIsPaid, Owed, DriftSaidOnce
  <2> QED BY <2>1, <2>2 DEF IInv, Placed, OneMoreAtMost, OneOpenEach, SaidOnce
<1> QED BY <1>1, InitInv, NextInv, PTL DEF Spec

(* At every moment the worker's status and the verdict on the instance that    *)
(* sent its newest heartbeat say the same, however the stop, the drain and     *)
(* a last heartbeat are ordered, and a subsystem the sweep calls degraded is   *)
(* degraded in the component report (component_instance.go:73).               *)
THEOREM ViewsHold == Spec => []ViewsAgree
PROOF
<1>1. IInv => ViewsAgree
  BY ViewsFollow DEF IInv
<1> QED BY <1>1, InitInv, NextInv, PTL DEF Spec
=============================================================================
