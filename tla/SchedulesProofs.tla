-------------------------- MODULE SchedulesProofs --------------------------
(***************************************************************************)
(* The claim of fireSchedule makes an occurrence unique and the skipped ones *)
(* exact, for any number of scheduler processes, interval, crash and clock,  *)
(* as long as nothing but the scheduler writes next_run_at (MaxToggles = 0:   *)
(* ToggleSchedule writes it back from a stale copy; the README lists it under *)
(* the disagreements).  The ledger tells of every occurrence while nothing    *)
(* was toggled, no instance died and no insert failed.                       *)
(***************************************************************************)
EXTENDS Schedules, TLAPS

(* The instances between a successful claim and the end of the fire. *)
Firing == {"due", "create", "created", "skip"}

SafeTypes ==
    /\ def \in [next : Nat, enabled : BOOLEAN] /\ now \in Nat
    /\ runs \in [Occurrences -> Nat] /\ announced \in [Occurrences -> Nat]
    /\ pc \in [Instances -> Points] /\ expected \in [Instances -> Nat]
    /\ fired \in [Instances -> Nat] /\ api = {} /\ toggles \in Nat

(* A poll read a time that has come; a claim moved next_run_at past it. *)
ClaimedBehind ==
    \A i \in Instances : /\ pc[i] = "claim" => expected[i] <= fired[i]
                         /\ pc[i] \in Firing => expected[i] < def.next

FiresDistinct ==
    \A i, j \in Instances : (pc[i] \in Firing /\ pc[j] \in Firing /\ i # j) => expected[i] # expected[j]

(* What was announced or run lies behind next_run_at too. *)
PastOnly == \A o \in Occurrences : (announced[o] > 0 \/ runs[o] > 0) => o < def.next

(* Before its own announcement and its own run, an occurrence has none. *)
Fresh ==
    \A i \in Instances : expected[i] \in Occurrences =>
        /\ pc[i] = "due" => announced[expected[i]] = 0
        /\ pc[i] \in {"due", "create"} => runs[expected[i]] = 0

ClaimInv == SafeTypes /\ ClaimedBehind /\ FiresDistinct /\ PastOnly /\ Fresh
            /\ AnnouncedOnce /\ OneRunPerOccurrence

(* A new definition satisfies the invariant.                                *)
LEMMA ClaimInit == Init => ClaimInv
BY ScheduleAssumption DEF Init, ClaimInv, SafeTypes, ClaimedBehind, FiresDistinct, PastOnly, Fresh,
   AnnouncedOnce, OneRunPerOccurrence, Points, Firing

(* Counting an occurrence keeps the counts natural numbers.                  *)
LEMMA BumpTyped == ASSUME NEW f \in [Occurrences -> Nat], NEW o PROVE [f EXCEPT ![o] = @ + 1] \in [Occurrences -> Nat]
<1> DEFINE g == [f EXCEPT ![o] = @ + 1]
<1>1. g = [p \in Occurrences |-> IF p = o THEN f[o] + 1 ELSE f[p]]
  OBVIOUS
<1>2. \A p \in Occurrences : (IF p = o THEN f[o] + 1 ELSE f[p]) \in Nat
  OBVIOUS
<1> QED BY <1>1, <1>2

(* Every step keeps it: Claim moves next_run_at past all that is firing.      *)
LEMMA ClaimStep == ASSUME ~ReadDefinition, ClaimInv, [Next]_vars PROVE ClaimInv'
<1> USE DEF ClaimInv
<1>1. ASSUME NEW i \in Instances, Poll(i) PROVE ClaimInv'
  BY <1>1 DEF Poll, Goto, counters, SafeTypes, ClaimedBehind, FiresDistinct, PastOnly, Fresh, AnnouncedOnce,
     OneRunPerOccurrence, Points, Firing
<1>2. ASSUME NEW i \in Instances, Claim(i) PROVE ClaimInv'
  <2>0. UNCHANGED <<now, runs, announced, expected, api, toggles>>
    BY <1>2 DEF Claim, counters
  <2> PICK at \in fired[i] .. now : /\ def' = [def EXCEPT !.next = at + Interval]
                                   /\ fired' = [fired EXCEPT ![i] = at]
    BY <1>2 DEF Claim
  <2>1. pc' = [pc EXCEPT ![i] = "due"]
    BY <1>2 DEF Claim, Goto
  <2>2. def.next = expected[i] /\ expected[i] <= at /\ at \in Nat
    BY <1>2 DEF Won, Claim, ClaimedBehind, SafeTypes
  <2>3. def'.next \in Nat /\ def'.next > def.next
    BY <2>2, ScheduleAssumption DEF SafeTypes
  <2>4. SafeTypes'
    BY <2>0, <2>1, <2>3 DEF SafeTypes, Points
  <2>5. ClaimedBehind'
    BY <2>0, <2>1, <2>2, <2>3 DEF ClaimedBehind, SafeTypes, Firing
  <2>6. FiresDistinct'
    BY <2>0, <2>1, <2>2 DEF FiresDistinct, ClaimedBehind, SafeTypes, Firing
  <2>7. PastOnly'
    <3> SUFFICES ASSUME NEW o \in Occurrences, announced[o] > 0 \/ runs[o] > 0 PROVE o < def'.next
      BY <2>0 DEF PastOnly
    <3>1. o < def.next /\ o \in Nat
      BY ScheduleAssumption DEF PastOnly, Occurrences
    <3> QED BY <2>3, <3>1 DEF SafeTypes
  <2>8. expected[i] \in Occurrences => announced[expected[i]] = 0 /\ runs[expected[i]] = 0
    BY <2>2 DEF PastOnly, SafeTypes
  <2>9. Fresh'
    BY <2>0, <2>1, <2>8 DEF Fresh, SafeTypes
  <2> QED BY <2>0, <2>4, <2>5, <2>6, <2>7, <2>9 DEF AnnouncedOnce, OneRunPerOccurrence
<1>3. ASSUME NEW i \in Instances, AnnounceDue(i) PROVE ClaimInv'
  <2>0. /\ pc[i] = "due" /\ pc' = [pc EXCEPT ![i] = "create"]
        /\ announced' = [announced EXCEPT ![expected[i]] = @ + 1]
        /\ UNCHANGED <<def, now, runs, expected, fired, api, toggles>>
    BY <1>3 DEF AnnounceDue, Goto, locals, counters
  <2>1. SafeTypes'
    <3>1. announced' \in [Occurrences -> Nat]
      BY <2>0, BumpTyped DEF SafeTypes
    <3> QED BY <2>0, <3>1 DEF SafeTypes, Points
  <2>2. ClaimedBehind' /\ FiresDistinct'
    BY <2>0 DEF ClaimedBehind, FiresDistinct, SafeTypes, Firing
  <2>3. PastOnly'
    BY <2>0 DEF PastOnly, ClaimedBehind, SafeTypes, Firing
  <2>4. Fresh'
    <3> SUFFICES ASSUME NEW j \in Instances, expected[j] \in Occurrences
                 PROVE  /\ pc'[j] = "due" => announced'[expected[j]] = 0
                        /\ pc'[j] \in {"due", "create"} => runs[expected[j]] = 0
      BY <2>0 DEF Fresh
    <3>1. CASE j = i
      BY <2>0, <3>1 DEF Fresh, SafeTypes
    <3>2. CASE j # i
      <4>1. pc'[j] = pc[j]
        BY <2>0, <3>2 DEF SafeTypes
      <4>2. pc[j] = "due" => expected[j] # expected[i]
        BY <2>0, <3>2 DEF FiresDistinct, Firing
      <4>3. pc[j] = "due" => announced'[expected[j]] = announced[expected[j]]
        BY <2>0, <4>2 DEF SafeTypes
      <4> QED BY <4>1, <4>3 DEF Fresh
    <3> QED BY <3>1, <3>2
  <2>5. AnnouncedOnce'
    BY <2>0 DEF AnnouncedOnce, Fresh, SafeTypes
  <2>6. OneRunPerOccurrence'
    BY <2>0 DEF OneRunPerOccurrence
  <2> QED BY <2>1, <2>2, <2>3, <2>4, <2>5, <2>6
<1>4. ASSUME NEW i \in Instances, CreateRun(i) PROVE ClaimInv'
  <2>0. /\ pc[i] = "create" /\ pc' = [pc EXCEPT ![i] = "created"]
        /\ UNCHANGED <<def, now, announced, expected, fired, api, toggles>>
    BY <1>4 DEF CreateRun, Goto, locals
  <2>1. CASE runs' = runs
    BY <2>0, <2>1 DEF SafeTypes, ClaimedBehind, FiresDistinct, PastOnly, Fresh, AnnouncedOnce,
       OneRunPerOccurrence, Points, Firing
  <2>2. CASE runs' = [runs EXCEPT ![expected[i]] = @ + 1]
    <3>1. SafeTypes'
      <4>1. runs' \in [Occurrences -> Nat]
        BY <2>2, BumpTyped DEF SafeTypes
      <4> QED BY <2>0, <4>1 DEF SafeTypes, Points
    <3>2. ClaimedBehind' /\ FiresDistinct'
      BY <2>0 DEF ClaimedBehind, FiresDistinct, SafeTypes, Firing
    <3>3. PastOnly'
      BY <2>0, <2>2 DEF PastOnly, ClaimedBehind, SafeTypes, Firing
    <3>4. Fresh'
      <4> SUFFICES ASSUME NEW j \in Instances, expected[j] \in Occurrences
                   PROVE  /\ pc'[j] = "due" => announced[expected[j]] = 0
                          /\ pc'[j] \in {"due", "create"} => runs'[expected[j]] = 0
        BY <2>0 DEF Fresh
      <4>1. CASE j = i
        BY <2>0, <4>1 DEF SafeTypes
      <4>2. CASE j # i
        <5>1. pc'[j] = pc[j]
          BY <2>0, <4>2 DEF SafeTypes
        <5>2. pc[j] \in {"due", "create"} => expected[j] # expected[i]
          BY <2>0, <4>2 DEF FiresDistinct, Firing
        <5>3. pc[j] \in {"due", "create"} => runs'[expected[j]] = runs[expected[j]]
          BY <2>2, <5>2 DEF SafeTypes
        <5> QED BY <5>1, <5>3 DEF Fresh
      <4> QED BY <4>1, <4>2
    <3>5. OneRunPerOccurrence'
      BY <2>0, <2>2 DEF OneRunPerOccurrence, Fresh, SafeTypes
    <3>6. AnnouncedOnce'
      BY <2>0 DEF AnnouncedOnce
    <3> QED BY <3>1, <3>2, <3>3, <3>4, <3>5, <3>6
  <2> QED BY <1>4, <2>1, <2>2 DEF CreateRun, Insert
<1>5. ASSUME NEW i \in Instances,
             \/ ClaimLost(i) \/ ClaimError(i) \/ AnnounceCreated(i) \/ AnnounceSkipped(i)
             \/ EndFire(i) \/ Crash(i) \/ Restart(i)
      PROVE  ClaimInv'
  <2>1. UNCHANGED <<def, now, runs, announced, expected, fired, api, toggles>>
    BY <1>5 DEF ClaimLost, ClaimError, AnnounceCreated, AnnounceSkipped, EndFire, Crash, Restart, locals, counters
  <2>2. \/ pc' = pc
        \/ pc' = [pc EXCEPT ![i] = "idle"]
        \/ pc' = [pc EXCEPT ![i] = "down"]
        \/ pc[i] = "created" /\ pc' = [pc EXCEPT ![i] = "skip"]
    BY <1>5 DEF ClaimLost, ClaimError, AnnounceCreated, AnnounceSkipped, EndFire, Crash, Restart, Goto
  <2> QED BY <2>1, <2>2 DEF SafeTypes, ClaimedBehind, FiresDistinct, PastOnly, Fresh, AnnouncedOnce,
             OneRunPerOccurrence, Points, Firing
<1>6. ASSUME NEW o \in Occurrences, StartAttempt(o) PROVE ClaimInv'
  BY <1>6 DEF StartAttempt, locals, counters, SafeTypes, ClaimedBehind, FiresDistinct, PastOnly, Fresh,
     AnnouncedOnce, OneRunPerOccurrence
<1>7. ~ToggleSchedule
  BY DEF ToggleSchedule, SafeTypes
<1>8. CASE Tick
  BY <1>8 DEF Tick, locals, counters, SafeTypes, ClaimedBehind, FiresDistinct, PastOnly, Fresh,
     AnnouncedOnce, OneRunPerOccurrence
<1>9. CASE UNCHANGED vars
  BY <1>9 DEF vars, SafeTypes, ClaimedBehind, FiresDistinct, PastOnly, Fresh, AnnouncedOnce,
     OneRunPerOccurrence
<1> QED BY <1>1, <1>2, <1>3, <1>4, <1>5, <1>6, <1>7, <1>8, <1>9 DEF Next, Scheduler

(* When the definition is never toggled its row is never read by the API.      *)
LEMMA NotToggled == ASSUME MaxToggles = 0, ClaimInv PROVE ~ReadDefinition
BY DEF ReadDefinition, ClaimInv, SafeTypes

(* RFC-002 section 6: however many instances fire, crash and restart, no       *)
(* occurrence is announced twice or has two runs.                             *)
THEOREM OccurrenceOnceSound == ASSUME MaxToggles = 0 PROVE Spec => []OccurrenceOnce
<1>1. ClaimInv => OccurrenceOnce
  BY DEF ClaimInv, OccurrenceOnce
<1>2. ClaimInv /\ [Next]_vars => ClaimInv'
  BY ClaimStep, NotToggled
<1> QED BY <1>1, <1>2, ClaimInit, PTL DEF Spec

-----------------------------------------------------------------------------
(* The ledger.  A fire owns the stretch of time from the occurrence it claimed *)
(* to the moment it read the clock; the stretches of two fires, and what is    *)
(* recorded outside of them, are an interval apart.                          *)

Named(i) == skippedOccurrences(expected[i], fired[i])

LedgerTypes ==
    /\ TypeOK
    /\ \A i \in Instances : /\ fired[i] <= now
                            /\ pc[i] # "skip" => skips[i] = {}
                            /\ pc[i] = "skip" => skips[i] \subseteq Named(i)

Stretches ==
    /\ \A i \in Instances : pc[i] \in Firing =>
         expected[i] <= fired[i] /\ fired[i] + Interval <= def.next
    /\ \A i, j \in Instances : (pc[i] \in Firing /\ pc[j] \in Firing /\ i # j) =>
         fired[i] + Interval <= expected[j] \/ fired[j] + Interval <= expected[i]

RecordedBehind == \A o \in Recorded : o + Interval <= def.next

Announcing == {"create", "created", "skip"}

(* Inside its stretch only the fire itself has recorded anything: the          *)
(* occurrence it claimed and the skips it has already announced.             *)
OwnStretch ==
    \A i \in Instances : pc[i] \in Firing =>
        /\ pc[i] \in Announcing => expected[i] \in Recorded
        /\ pc[i] = "create" => ledger[expected[i]] = "DUE"
        /\ pc[i] = "skip" => \A o \in Named(i) \ skips[i] : ledger[o] = "SKIPPED" /\ runs[o] = 0
        /\ \A o \in Recorded : \/ o + Interval <= expected[i] \/ fired[i] + Interval <= o
                               \/ o = expected[i] /\ pc[i] \in Announcing
                               \/ o \in Named(i) \ skips[i] /\ pc[i] = "skip"

RunsRecorded == \A o \in Occurrences : runs[o] > 0 => ledger[o] \in {"DUE", "CREATED"}

LedgerInv == LedgerTypes /\ Stretches /\ RecordedBehind /\ OwnStretch /\ RunsRecorded /\ OccurrencesSpaced

(* The moment a fire moved next_run_at to is not forgotten: it is the next one, *)
(* is being fired, or is recorded.                                          *)
Covered(x) == \/ def.next = x
              \/ \E i \in Instances : pc[i] = "due" /\ expected[i] = x
              \/ x \in Recorded

NoGap ==
    \A o \in Recorded :
        \/ \E x \in Occurrences : o < x /\ x < o + 2 * Interval /\ Covered(x)
        \/ \A k \in 0 .. MaxSkipped - 1 : o >= k * Interval /\ ledger[o - k * Interval] = "SKIPPED"
        \/ \E i \in Instances : pc[i] \in Firing /\ expected[i] <= o /\ o <= fired[i]

GapInv ==
    /\ \A i \in Instances : pc[i] # "down" /\ (pc[i] \in Firing => Covered(fired[i] + Interval))
    /\ \A i \in Instances : pc[i] = "created" => runs[expected[i]] > 0
    /\ NoGap /\ CreatedHasRun

(* What division and multiplication by the interval give the provers.        *)
LEMMA DivBounds == ASSUME NEW a \in Nat, NEW b \in Nat \ {0}
  PROVE (a \div b) \in Nat /\ (a \div b) * b <= a /\ a < (a \div b) * b + b
OBVIOUS

LEMMA TimesMono == ASSUME NEW a \in Nat, NEW b \in Nat, NEW c \in Nat, a <= b
  PROVE a * c <= b * c /\ a * c \in Nat
OBVIOUS

LEMMA TimesStep == ASSUME NEW a \in Nat, NEW c \in Nat
  PROVE (a + 1) * c = a * c + c
OBVIOUS

LEMMA TimesDiff == ASSUME NEW a \in Nat, NEW b \in Nat, NEW c \in Nat, b <= a
  PROVE (a - b) * c = a * c - b * c /\ (a - b) * c \in Nat
OBVIOUS

NamedUpTo(e, at) == IF skippedCount(e, at) > MaxSkipped THEN MaxSkipped ELSE skippedCount(e, at)

(* The names are whole intervals after the occurrence that fires, none of     *)
(* them later than the moment it fires; only the cap or the clock ends them. *)
LEMMA NamedCount ==
  ASSUME NEW e \in Nat, NEW at \in Nat, e <= at
  PROVE  LET n == NamedUpTo(e, at)
         IN  /\ n \in Nat
             /\ skippedOccurrences(e, at) = {e + k * Interval : k \in 1 .. n}
             /\ e + n * Interval <= at
             /\ n = MaxSkipped \/ at < e + n * Interval + Interval
<1> DEFINE c == skippedCount(e, at)
           n == NamedUpTo(e, at)
<1> USE ScheduleAssumption
<1>1. c \in Nat /\ e + c * Interval <= at /\ at < e + c * Interval + Interval
  <2>1. CASE at > e
    <3>1. c = (at - e) \div Interval
      BY <2>1 DEF skippedCount
    <3>2. at - e \in Nat
      BY <2>1
    <3>3. c \in Nat /\ c * Interval <= at - e /\ at - e < c * Interval + Interval
      BY <3>1, <3>2, DivBounds
    <3> QED BY <3>3, TimesMono
  <2>2. CASE at = e
    BY <2>2 DEF skippedCount
  <2> QED BY <2>1, <2>2
<1>2. n \in Nat /\ n <= c /\ (n = MaxSkipped \/ n = c)
  BY <1>1 DEF NamedUpTo
<1>3. n * Interval <= c * Interval /\ n * Interval \in Nat
  BY <1>1, <1>2, TimesMono
<1>4. c * Interval \in Nat
  BY <1>1, TimesMono
<1>5. skippedOccurrences(e, at) = {e + k * Interval : k \in 1 .. n}
  BY DEF skippedOccurrences, NamedUpTo
<1>6. e + n * Interval <= at
  BY <1>1, <1>3, <1>4
<1> HIDE DEF c, n
<1> QED BY <1>1, <1>2, <1>5, <1>6 DEF n

LEMMA NamedWithin ==
  ASSUME NEW e \in Nat, NEW at \in Nat, e <= at, NEW o \in skippedOccurrences(e, at)
  PROVE  o \in Nat /\ e + Interval <= o /\ o <= at
<1> DEFINE n == NamedUpTo(e, at)
<1>1. n \in Nat /\ skippedOccurrences(e, at) = {e + k * Interval : k \in 1 .. n} /\ e + n * Interval <= at
  BY NamedCount
<1> HIDE DEF n
<1>2. PICK k \in 1 .. n : o = e + k * Interval
  BY <1>1
<1>3. 1 * Interval <= k * Interval /\ k * Interval <= n * Interval /\ k * Interval \in Nat /\ n * Interval \in Nat
  BY <1>1, TimesMono, ScheduleAssumption
<1> QED BY <1>1, <1>2, <1>3, ScheduleAssumption

LEMMA NamedApart ==
  ASSUME NEW e \in Nat, NEW at \in Nat, e <= at,
         NEW o \in skippedOccurrences(e, at), NEW p \in skippedOccurrences(e, at), o < p
  PROVE  o + Interval <= p
<1> DEFINE n == NamedUpTo(e, at)
<1>1. n \in Nat /\ skippedOccurrences(e, at) = {e + k * Interval : k \in 1 .. n}
  BY NamedCount
<1> HIDE DEF n
<1>2. PICK k \in 1 .. n : o = e + k * Interval
  BY <1>1
<1>3. PICK l \in 1 .. n : p = e + l * Interval
  BY <1>1
<1>4. k * Interval \in Nat /\ l * Interval \in Nat
  BY <1>1, TimesMono, ScheduleAssumption
<1>5. k + 1 <= l
  <2>1. CASE l <= k
    <3>1. l * Interval <= k * Interval
      BY <1>1, <2>1, TimesMono, ScheduleAssumption
    <3> QED BY <1>2, <1>3, <1>4, <3>1
  <2> QED BY <1>1, <2>1
<1>6. (k + 1) * Interval <= l * Interval
  BY <1>1, <1>5, TimesMono, ScheduleAssumption
<1>7. (k + 1) * Interval = k * Interval + Interval
  BY <1>1, TimesStep, ScheduleAssumption
<1> QED BY <1>2, <1>3, <1>4, <1>6, <1>7, ScheduleAssumption

LEMMA NamedNext ==
  ASSUME NEW e \in Nat, NEW at \in Nat, e <= at, NEW o \in skippedOccurrences(e, at) \cup {e}
  PROVE  \/ o + Interval \in skippedOccurrences(e, at)
         \/ at < o + Interval
         \/ \A k \in 0 .. MaxSkipped - 1 : o >= k * Interval /\ o - k * Interval \in skippedOccurrences(e, at)
<1> DEFINE n == NamedUpTo(e, at)
<1> USE ScheduleAssumption
<1>1. /\ n \in Nat /\ skippedOccurrences(e, at) = {e + k * Interval : k \in 1 .. n}
      /\ n = MaxSkipped \/ at < e + n * Interval + Interval
  BY NamedCount
<1> HIDE DEF n
<1>2. PICK k \in 0 .. n : o = e + k * Interval
  <2>1. CASE o = e
    <3>1. 0 * Interval = 0
      OBVIOUS
    <3> QED BY <1>1, <2>1, <3>1
  <2>2. CASE o \in skippedOccurrences(e, at)
    <3>1. PICK k \in 1 .. n : o = e + k * Interval
      BY <1>1, <2>2
    <3> QED BY <1>1, <3>1
  <2> QED BY <2>1, <2>2
<1>3. k * Interval \in Nat
  BY <1>1, TimesMono
<1>4. CASE k < n
  <2>1. (k + 1) * Interval = k * Interval + Interval
    BY <1>1, TimesStep
  <2>2. o + Interval = e + (k + 1) * Interval
    BY <1>2, <1>3, <2>1
  <2>3. k + 1 \in 1 .. n
    BY <1>1, <1>4
  <2> QED BY <1>1, <2>2, <2>3
<1>5. CASE k = n /\ n = MaxSkipped
  <2> SUFFICES ASSUME NEW l \in 0 .. MaxSkipped - 1
               PROVE  o >= l * Interval /\ o - l * Interval \in skippedOccurrences(e, at)
    OBVIOUS
  <2>1. (k - l) * Interval = k * Interval - l * Interval /\ (k - l) * Interval \in Nat
    BY <1>5, <1>1, TimesDiff
  <2>2. l * Interval \in Nat
    BY TimesMono
  <2>3. o - l * Interval = e + (k - l) * Interval /\ o >= l * Interval
    BY <1>2, <1>3, <2>1, <2>2
  <2>4. k - l \in 1 .. n
    BY <1>5, <1>1
  <2> QED BY <1>1, <2>3, <2>4
<1>6. CASE k = n /\ n # MaxSkipped
  BY <1>1, <1>2, <1>3, <1>6
<1> QED BY <1>1, <1>4, <1>5, <1>6

(* A new definition: nothing fires and nothing is recorded.                  *)
LEMMA LedgerInit == Init => LedgerInv
<1> SUFFICES ASSUME Init PROVE LedgerInv
  OBVIOUS
<1>1. FirstRun \in Occurrences /\ 0 \in Occurrences /\ 0 \in 0 .. MaxNow
  BY ScheduleAssumption DEF Occurrences
<1>2. TypeOK
  BY <1>1, ScheduleAssumption DEF Init, TypeOK, Points, Outcomes
<1>3. Recorded = {}
  BY DEF Init, Recorded
<1>4. \A i \in Instances : pc[i] = "idle" /\ fired[i] = 0 /\ skips[i] = {} /\ now = 0
  BY DEF Init
<1>5. RunsRecorded
  BY DEF Init, RunsRecorded
<1> QED BY <1>2, <1>3, <1>4, <1>5 DEF LedgerInv, LedgerTypes, Stretches, RecordedBehind, OwnStretch,
       OccurrencesSpaced, Firing

(* ReduceOccurrence: what an event does to the ledger.                       *)
LEMMA RecordKeeps ==
  ASSUME ledger \in [Occurrences -> Outcomes], NEW o \in Occurrences, NEW outcome \in Outcomes \ {"none"},
         Record(o, outcome)
  PROVE  /\ ledger' \in [Occurrences -> Outcomes]
         /\ Recorded' = Recorded \cup {o}
         /\ \A p \in Occurrences : p # o \/ ledger[p] \in {"CREATED", "SKIPPED"} => ledger'[p] = ledger[p]
         /\ ledger[o] \in {"none", "DUE"} => ledger'[o] = outcome
<1>1. \A p \in Occurrences : ledger'[p] = IF p = o THEN Reduced(ledger[p], outcome) ELSE ledger[p]
  BY DEF Record
<1>2. Reduced(ledger[o], outcome) \in Outcomes \ {"none"}
  BY DEF Reduced, Outcomes
<1>3. ledger' \in [Occurrences -> Outcomes]
  BY <1>2 DEF Record
<1>4. Recorded' = Recorded \cup {o}
  BY <1>1, <1>2 DEF Recorded
<1>5. \A p \in Occurrences : p # o \/ ledger[p] \in {"CREATED", "SKIPPED"} => ledger'[p] = ledger[p]
  BY <1>1 DEF Reduced
<1>6. ledger[o] \in {"none", "DUE"} => ledger'[o] = outcome
  BY <1>1 DEF Reduced
<1> QED BY <1>3, <1>4, <1>5, <1>6

(* Steps that only change where an instance that does not fire stands.        *)
LEMMA LedgerQuiet ==
  ASSUME LedgerInv, LedgerTypes', UNCHANGED <<def, runs, ledger>>, NEW i \in Instances, pc'[i] \notin Firing,
         \A j \in Instances : j # i => pc'[j] = pc[j] /\ expected'[j] = expected[j] /\ fired'[j] = fired[j]
                                       /\ skips'[j] = skips[j]
  PROVE  LedgerInv'
<1> USE DEF LedgerInv
<1>1. Recorded' = Recorded
  BY DEF Recorded
<1>2. \A j \in Instances : pc'[j] \in Firing => j # i
  OBVIOUS
<1>3. \A j \in Instances : j # i => Named(j)' = Named(j)
  BY DEF Named
<1>4. Stretches'
  BY <1>2 DEF Stretches
<1>5. OwnStretch'
  <2> SUFFICES ASSUME NEW j \in Instances, pc'[j] \in Firing
               PROVE  /\ pc[j] \in Announcing => expected[j] \in Recorded
                      /\ pc[j] = "create" => ledger[expected[j]] = "DUE"
                      /\ pc[j] = "skip" => \A o \in Named(j) \ skips[j] : ledger[o] = "SKIPPED" /\ runs[o] = 0
                      /\ \A o \in Recorded : \/ o + Interval <= expected[j] \/ fired[j] + Interval <= o
                                             \/ o = expected[j] /\ pc[j] \in Announcing
                                             \/ o \in Named(j) \ skips[j] /\ pc[j] = "skip"
    BY <1>1, <1>2, <1>3 DEF OwnStretch
  <2> QED BY <1>2 DEF OwnStretch
<1> QED BY <1>1, <1>4, <1>5 DEF RecordedBehind, RunsRecorded, OccurrencesSpaced

(* The values the ledger's invariant speaks of, in the form its steps use.    *)
LEMMA LedgerValues ==
  ASSUME LedgerInv
  PROVE  /\ def.next \in Nat /\ now \in Nat /\ now <= MaxNow /\ Occurrences \subseteq Nat /\ Recorded \subseteq Occurrences
         /\ Interval \in Nat \ {0} /\ ledger \in [Occurrences -> Outcomes] /\ runs \in [Occurrences -> Nat]
         /\ pc \in [Instances -> Points] /\ skips \in [Instances -> SUBSET (0 .. MaxNow)]
         /\ expected \in [Instances -> Occurrences] /\ fired \in [Instances -> 0 .. MaxNow]
         /\ \A i \in Instances : expected[i] \in Nat /\ fired[i] \in Nat /\ fired[i] <= now
         /\ \A i \in Instances : pc[i] \in Firing =>
              /\ expected[i] <= fired[i]
              /\ \A o \in Named(i) : o \in 0 .. MaxNow /\ o \in Occurrences /\ expected[i] + Interval <= o
                                     /\ o <= fired[i]
<1>1. /\ ledger \in [Occurrences -> Outcomes] /\ expected \in [Instances -> Occurrences]
      /\ pc \in [Instances -> Points] /\ skips \in [Instances -> SUBSET (0 .. MaxNow)]
      /\ runs \in [Occurrences -> Nat] /\ now \in 0 .. MaxNow
      /\ fired \in [Instances -> 0 .. MaxNow] /\ def.next \in Occurrences
      /\ \A i \in Instances : fired[i] <= now
  BY DEF LedgerInv, LedgerTypes, TypeOK
<1>2. Occurrences \subseteq Nat /\ Recorded \subseteq Occurrences /\ 0 .. MaxNow \subseteq Occurrences
  BY ScheduleAssumption DEF Occurrences, Recorded
<1>3. \A i \in Instances : pc[i] \in Firing => expected[i] <= fired[i]
  BY DEF LedgerInv, Stretches
<1>4. ASSUME NEW i \in Instances PROVE expected[i] \in Nat /\ fired[i] \in 0 .. MaxNow /\ fired[i] \in Nat
  BY <1>1, <1>2
<1>5. ASSUME NEW i \in Instances, pc[i] \in Firing, NEW o \in Named(i)
      PROVE  o \in 0 .. MaxNow /\ o \in Occurrences /\ expected[i] + Interval <= o /\ o <= fired[i]
  <2>1. o \in Nat /\ expected[i] + Interval <= o /\ o <= fired[i]
    BY <1>3, <1>4, <1>5, NamedWithin DEF Named
  <2>2. o \in 0 .. MaxNow
    BY <1>4, <2>1, ScheduleAssumption
  <2> QED BY <1>2, <2>1, <2>2
<1>6. def.next \in Nat
  BY <1>1, <1>2
<1>7. now \in Nat /\ now <= MaxNow
  BY <1>1, ScheduleAssumption
<1> QED BY <1>1, <1>2, <1>3, <1>4, <1>5, <1>6, <1>7, ScheduleAssumption

(* Outside of the stretch of a fire nothing recorded comes within an interval  *)
(* of it, and no other fire does.                                            *)
LEMMA StretchApart ==
  ASSUME LedgerInv, NEW i \in Instances, pc[i] \in Firing, NEW o \in Nat, expected[i] <= o, o <= fired[i]
  PROVE  /\ o + Interval <= def.next
         /\ \A j \in Instances : pc[j] \in Firing /\ j # i =>
              o + Interval <= expected[j] \/ fired[j] + Interval <= o
         /\ \A j \in Instances : pc[j] \in Firing /\ j # i => o # expected[j] /\ o \notin Named(j)
         /\ \A p \in Recorded : p + Interval <= expected[i] => p + Interval <= o
         /\ \A p \in Recorded : fired[i] + Interval <= p => o + Interval <= p
<1>1. /\ def.next \in Nat /\ Interval \in Nat \ {0} /\ Recorded \subseteq Nat
      /\ \A j \in Instances : expected[j] \in Nat /\ fired[j] \in Nat
  BY LedgerValues
<1>2. /\ fired[i] + Interval <= def.next
      /\ \A j \in Instances : pc[j] \in Firing /\ j # i =>
           fired[i] + Interval <= expected[j] \/ fired[j] + Interval <= expected[i]
      /\ \A j \in Instances : pc[j] \in Firing => expected[j] <= fired[j]
  BY DEF LedgerInv, Stretches
<1>3. o + Interval <= def.next
  BY <1>1, <1>2
<1>4. ASSUME NEW j \in Instances, pc[j] \in Firing, j # i
      PROVE  o + Interval <= expected[j] \/ fired[j] + Interval <= o
  <2>1. CASE fired[i] + Interval <= expected[j]
    BY <1>1, <2>1
  <2>2. CASE fired[j] + Interval <= expected[i]
    BY <1>1, <2>2
  <2> QED BY <1>2, <1>4, <2>1, <2>2
<1>5. ASSUME NEW j \in Instances, pc[j] \in Firing, j # i PROVE o # expected[j] /\ o \notin Named(j)
  <2>1. expected[j] <= fired[j]
    BY <1>2, <1>5
  <2>2. o < expected[j] \/ fired[j] < o
    BY <1>1, <1>4, <1>5
  <2>3. o # expected[j]
    BY <1>1, <2>1, <2>2
  <2>4. o \in Named(j) => expected[j] <= o /\ o <= fired[j]
    BY <1>1, <2>1, NamedWithin DEF Named
  <2> QED BY <1>1, <2>2, <2>3, <2>4
<1>6. \A p \in Recorded : p + Interval <= expected[i] => p + Interval <= o
  BY <1>1
<1>7. \A p \in Recorded : fired[i] + Interval <= p => o + Interval <= p
  BY <1>1
<1> QED BY <1>3, <1>4, <1>5, <1>6, <1>7

(* Recording something of one's own stretch leaves the other fires and the     *)
(* spacing of the ledger alone.                                              *)
LEMMA LedgerRecords ==
  ASSUME LedgerInv, NEW i \in Instances, pc[i] \in Firing, NEW o \in Occurrences, NEW outcome \in Outcomes \ {"none"},
         Record(o, outcome), expected[i] <= o, o <= fired[i],
         \A p \in Recorded : p = o \/ p + Interval <= o \/ o + Interval <= p,
         UNCHANGED <<def, runs, expected, fired>>,
         \A j \in Instances : j # i => pc'[j] = pc[j] /\ skips'[j] = skips[j],
         pc'[i] \in Firing
  PROVE  /\ Stretches' /\ RecordedBehind' /\ OccurrencesSpaced'
         /\ \A j \in Instances : pc'[j] \in Firing /\ j # i =>
              /\ pc'[j] \in Announcing => expected'[j] \in Recorded'
              /\ pc'[j] = "create" => ledger'[expected'[j]] = "DUE"
              /\ pc'[j] = "skip" => \A p \in Named(j)' \ skips'[j] : ledger'[p] = "SKIPPED" /\ runs'[p] = 0
              /\ \A p \in Recorded' : \/ p + Interval <= expected'[j] \/ fired'[j] + Interval <= p
                                      \/ p = expected'[j] /\ pc'[j] \in Announcing
                                      \/ p \in Named(j)' \ skips'[j] /\ pc'[j] = "skip"
<1>1. /\ def.next \in Nat /\ Interval \in Nat \ {0} /\ Recorded \subseteq Nat /\ Occurrences \subseteq Nat
      /\ ledger \in [Occurrences -> Outcomes] /\ expected \in [Instances -> Occurrences]
      /\ fired \in [Instances -> 0 .. MaxNow]
  BY LedgerValues
<1>2. /\ Recorded' = Recorded \cup {o}
      /\ \A p \in Occurrences : p # o \/ ledger[p] \in {"CREATED", "SKIPPED"} => ledger'[p] = ledger[p]
  BY <1>1, RecordKeeps
<1>3. /\ o + Interval <= def.next
      /\ \A j \in Instances : pc[j] \in Firing /\ j # i =>
              o + Interval <= expected[j] \/ fired[j] + Interval <= o
      /\ \A j \in Instances : pc[j] \in Firing /\ j # i => o # expected[j] /\ o \notin Named(j)
  BY <1>1, StretchApart
<1>4. Stretches'
  BY DEF Stretches, LedgerInv
<1>5. RecordedBehind'
  BY <1>2, <1>3 DEF RecordedBehind, LedgerInv
<1>6. OccurrencesSpaced'
  <2> SUFFICES ASSUME NEW p \in Recorded', NEW q \in Recorded', p < q PROVE q - p >= Interval
    BY DEF OccurrencesSpaced
  <2>0. p \in Nat /\ q \in Nat /\ o \in Nat
    BY <1>1, <1>2
  <2>1. CASE p \in Recorded /\ q \in Recorded
    BY <2>1 DEF OccurrencesSpaced, LedgerInv
  <2>2. CASE p = o /\ q \in Recorded
    <3>1. q = o \/ q + Interval <= o \/ o + Interval <= q
      BY <2>2
    <3> QED BY <1>1, <2>0, <2>2, <3>1
  <2>3. CASE q = o /\ p \in Recorded
    <3>1. p = o \/ p + Interval <= o \/ o + Interval <= p
      BY <2>3
    <3> QED BY <1>1, <2>0, <2>3, <3>1
  <2>4. CASE p = o /\ q = o
    BY <2>0, <2>4
  <2> QED BY <1>2, <2>1, <2>2, <2>3, <2>4
<1>7. ASSUME NEW j \in Instances, pc'[j] \in Firing, j # i
      PROVE  /\ pc'[j] \in Announcing => expected'[j] \in Recorded'
             /\ pc'[j] = "create" => ledger'[expected'[j]] = "DUE"
             /\ pc'[j] = "skip" => \A p \in Named(j)' \ skips'[j] : ledger'[p] = "SKIPPED" /\ runs'[p] = 0
             /\ \A p \in Recorded' : \/ p + Interval <= expected'[j] \/ fired'[j] + Interval <= p
                                     \/ p = expected'[j] /\ pc'[j] \in Announcing
                                     \/ p \in Named(j)' \ skips'[j] /\ pc'[j] = "skip"
  <2>1. /\ pc'[j] = pc[j] /\ skips'[j] = skips[j] /\ Named(j)' = Named(j) /\ pc[j] \in Firing
        /\ expected' = expected /\ fired' = fired /\ runs' = runs
    BY <1>7 DEF Named
  <2>2. /\ pc[j] \in Announcing => expected[j] \in Recorded
        /\ pc[j] = "create" => ledger[expected[j]] = "DUE"
        /\ pc[j] = "skip" => \A p \in Named(j) \ skips[j] : ledger[p] = "SKIPPED" /\ runs[p] = 0
        /\ \A p \in Recorded : \/ p + Interval <= expected[j] \/ fired[j] + Interval <= p
                               \/ p = expected[j] /\ pc[j] \in Announcing
                               \/ p \in Named(j) \ skips[j] /\ pc[j] = "skip"
    BY <2>1 DEF OwnStretch, LedgerInv
  <2>3. o # expected[j] /\ (o + Interval <= expected[j] \/ fired[j] + Interval <= o)
    BY <1>3, <1>7, <2>1
  <2>4. pc[j] = "create" => ledger'[expected[j]] = "DUE"
    BY <1>1, <1>2, <2>2, <2>3
  <2>5. pc[j] = "skip" => \A p \in Named(j) \ skips[j] : ledger'[p] = "SKIPPED" /\ runs[p] = 0
    <3> SUFFICES ASSUME pc[j] = "skip", NEW p \in Named(j) \ skips[j] PROVE ledger'[p] = "SKIPPED" /\ runs[p] = 0
      OBVIOUS
    <3>1. p \in Occurrences
      BY <2>1, LedgerValues
    <3> QED BY <1>2, <2>2, <3>1
  <2> QED BY <1>2, <2>1, <2>2, <2>3, <2>4, <2>5
<1> QED BY <1>4, <1>5, <1>6, <1>7

(* A poll, a lost or failed claim, the end of a fire, a crash and a restart    *)
(* leave no fire of the instance behind.                                     *)
LEMMA LedgerOutside ==
  ASSUME LedgerInv, NEW i \in Instances,
         Poll(i) \/ ClaimLost(i) \/ ClaimError(i) \/ EndFire(i) \/ Crash(i) \/ Restart(i)
  PROVE  LedgerInv'
<1>1. /\ UNCHANGED <<def, now, runs, ledger, announced, api>>
      /\ toggles' = toggles
      /\ pc' \in {[pc EXCEPT ![i] = "idle"], [pc EXCEPT ![i] = "claim"], [pc EXCEPT ![i] = "down"]}
      /\ expected' \in {expected, [expected EXCEPT ![i] = def.next]}
      /\ fired' \in {fired, [fired EXCEPT ![i] = now]}
      /\ (skips' = skips /\ skips[i] = {}) \/ skips' = [skips EXCEPT ![i] = {}]
  BY DEF Poll, ClaimLost, ClaimError, EndFire, Crash, Restart, Goto, locals, counters, LedgerInv, LedgerTypes
<1>2. crashes' \in Nat /\ faults' \in Nat
  BY DEF Poll, ClaimLost, ClaimError, EndFire, Crash, Restart, Goto, locals, counters, LedgerInv, LedgerTypes, TypeOK
<1>3. /\ pc'[i] \in {"idle", "claim", "down"} /\ skips'[i] = {}
      /\ \A j \in Instances : j # i => pc'[j] = pc[j] /\ expected'[j] = expected[j] /\ fired'[j] = fired[j]
                                       /\ skips'[j] = skips[j]
  BY <1>1, LedgerValues
<1>4. TypeOK'
  <2>1. pc' \in [Instances -> Points]
    BY <1>1 DEF LedgerInv, LedgerTypes, TypeOK, Points
  <2>2. expected' \in [Instances -> Occurrences]
    BY <1>1 DEF LedgerInv, LedgerTypes, TypeOK
  <2>3. fired' \in [Instances -> 0 .. MaxNow]
    BY <1>1 DEF LedgerInv, LedgerTypes, TypeOK
  <2>4. skips' \in [Instances -> SUBSET (0 .. MaxNow)]
    BY <1>1 DEF LedgerInv, LedgerTypes, TypeOK
  <2> QED BY <1>1, <1>2, <2>1, <2>2, <2>3, <2>4 DEF LedgerInv, LedgerTypes, TypeOK
<1>5. LedgerTypes'
  <2> SUFFICES ASSUME NEW j \in Instances
               PROVE  /\ fired'[j] <= now'
                      /\ pc'[j] # "skip" => skips'[j] = {}
                      /\ pc'[j] = "skip" => skips'[j] \subseteq Named(j)'
    BY <1>4 DEF LedgerTypes
  <2>1. CASE j = i
    <3>1. fired'[i] \in {fired[i], now}
      BY <1>1, LedgerValues
    <3> QED BY <1>1, <1>3, <2>1, <3>1, LedgerValues
  <2>2. CASE j # i
    <3>1. Named(j)' = Named(j)
      BY <1>3, <2>2 DEF Named
    <3> QED BY <1>1, <1>3, <2>2, <3>1 DEF LedgerInv, LedgerTypes
  <2> QED BY <2>1, <2>2
<1>6. pc'[i] \notin Firing
  BY <1>3 DEF Firing
<1> QED BY <1>1, <1>3, <1>5, <1>6, LedgerQuiet

(* Claim: all that is recorded and all that fires lies before next_run_at.     *)
LEMMA LedgerClaim ==
  ASSUME ClaimInv, LedgerInv, NEW i \in Instances, Claim(i)
  PROVE  LedgerInv'
<1> PICK at \in fired[i] .. now : /\ def' = [def EXCEPT !.next = at + Interval]
                                 /\ fired' = [fired EXCEPT ![i] = at]
  BY DEF Claim
<1>1. /\ pc[i] = "claim" /\ def.next = expected[i] /\ pc' = [pc EXCEPT ![i] = "due"]
      /\ UNCHANGED <<now, runs, ledger, announced, expected, skips, api, toggles, crashes, faults>>
  BY DEF Claim, Won, Goto, counters
<1>2. /\ def.next \in Nat /\ now \in Nat /\ now <= MaxNow /\ Recorded \subseteq Nat /\ Interval \in Nat \ {0}
      /\ \A j \in Instances : expected[j] \in Nat /\ fired[j] \in Nat /\ fired[j] <= now
      /\ fired \in [Instances -> 0 .. MaxNow] /\ pc \in [Instances -> Points]
  BY LedgerValues
<1>3. at \in Nat /\ at <= now /\ expected[i] <= at
  BY <1>1, <1>2 DEF ClaimInv, ClaimedBehind
<1>4. def'.next = at + Interval /\ def.next <= at /\ at + Interval \in Occurrences
  <2>1. at + Interval \in Occurrences
    BY <1>2, <1>3, ScheduleAssumption DEF Occurrences
  <2>2. def'.next = at + Interval
    BY DEF LedgerInv, LedgerTypes, TypeOK
  <2> QED BY <1>1, <1>3, <2>1, <2>2
<1>5. /\ pc'[i] = "due" /\ fired'[i] = at
      /\ \A j \in Instances : j # i => pc'[j] = pc[j] /\ fired'[j] = fired[j]
  BY <1>1, <1>2
<1>6. \A j \in Instances : j # i => Named(j)' = Named(j)
  BY <1>1, <1>5 DEF Named
<1>7. Recorded' = Recorded
  BY <1>1 DEF Recorded
<1>8. TypeOK'
  <2>1. pc' \in [Instances -> Points]
    BY <1>1, <1>2 DEF Points
  <2>2. fired' \in [Instances -> 0 .. MaxNow]
    BY <1>2, <1>3, ScheduleAssumption
  <2>3. def' \in [next : Occurrences, enabled : BOOLEAN]
    BY <1>4 DEF LedgerInv, LedgerTypes, TypeOK
  <2> QED BY <1>1, <2>1, <2>2, <2>3 DEF LedgerInv, LedgerTypes, TypeOK
<1>9. LedgerTypes'
  <2> SUFFICES ASSUME NEW j \in Instances
               PROVE  /\ fired'[j] <= now'
                      /\ pc'[j] # "skip" => skips'[j] = {}
                      /\ pc'[j] = "skip" => skips'[j] \subseteq Named(j)'
    BY <1>8 DEF LedgerTypes
  <2>1. CASE j = i
    BY <1>1, <1>3, <1>5, <2>1 DEF LedgerInv, LedgerTypes
  <2>2. CASE j # i
    BY <1>1, <1>5, <1>6, <2>2 DEF LedgerInv, LedgerTypes
  <2> QED BY <2>1, <2>2
<1>10. Stretches'
  <2>1. \A j \in Instances : j # i /\ pc'[j] \in Firing =>
          expected[j] <= fired[j] /\ fired[j] + Interval <= def.next
    BY <1>5 DEF LedgerInv, Stretches
  <2>2. ASSUME NEW j \in Instances, pc'[j] \in Firing
        PROVE  expected'[j] <= fired'[j] /\ fired'[j] + Interval <= def'.next
    <3>1. CASE j = i
      BY <1>1, <1>2, <1>3, <1>4, <1>5, <3>1
    <3>2. CASE j # i
      BY <1>1, <1>2, <1>3, <1>4, <1>5, <2>1, <2>2, <3>2
    <3> QED BY <3>1, <3>2
  <2>3. ASSUME NEW j \in Instances, NEW k \in Instances, pc'[j] \in Firing, pc'[k] \in Firing, j # k
        PROVE  fired'[j] + Interval <= expected'[k] \/ fired'[k] + Interval <= expected'[j]
    <3>1. CASE j = i
      BY <1>1, <1>5, <2>1, <2>3, <3>1
    <3>2. CASE k = i
      BY <1>1, <1>5, <2>1, <2>3, <3>2
    <3>3. CASE j # i /\ k # i
      BY <1>1, <1>5, <2>3, <3>3 DEF LedgerInv, Stretches
    <3> QED BY <3>1, <3>2, <3>3
  <2> QED BY <2>2, <2>3 DEF Stretches
<1>11. RecordedBehind'
  BY <1>2, <1>3, <1>4, <1>7 DEF RecordedBehind, LedgerInv
<1>12. OwnStretch'
  <2> SUFFICES ASSUME NEW j \in Instances, pc'[j] \in Firing
               PROVE  /\ pc'[j] \in Announcing => expected'[j] \in Recorded'
                      /\ pc'[j] = "create" => ledger'[expected'[j]] = "DUE"
                      /\ pc'[j] = "skip" => \A o \in Named(j)' \ skips'[j] : ledger'[o] = "SKIPPED" /\ runs'[o] = 0
                      /\ \A o \in Recorded' : \/ o + Interval <= expected'[j] \/ fired'[j] + Interval <= o
                                              \/ o = expected'[j] /\ pc'[j] \in Announcing
                                              \/ o \in Named(j)' \ skips'[j] /\ pc'[j] = "skip"
    BY DEF OwnStretch
  <2>1. CASE j = i
    <3>1. \A o \in Recorded : o + Interval <= expected[i]
      BY <1>1 DEF LedgerInv, RecordedBehind
    <3> QED BY <1>1, <1>5, <1>7, <2>1, <3>1 DEF Announcing
  <2>2. CASE j # i
    <3>1. /\ pc'[j] = pc[j] /\ expected'[j] = expected[j] /\ fired'[j] = fired[j] /\ skips'[j] = skips[j]
          /\ Named(j)' = Named(j) /\ runs' = runs /\ ledger' = ledger /\ pc[j] \in Firing
      BY <1>1, <1>5, <1>6, <2>2
    <3> QED BY <1>7, <3>1 DEF LedgerInv, OwnStretch
  <2> QED BY <2>1, <2>2
<1>13. RunsRecorded' /\ OccurrencesSpaced'
  BY <1>1, <1>7 DEF LedgerInv, RunsRecorded, OccurrencesSpaced
<1> QED BY <1>9, <1>10, <1>11, <1>12, <1>13 DEF LedgerInv

(* AnnounceDue: the claimed occurrence is new to the ledger.                 *)
LEMMA LedgerDue ==
  ASSUME ClaimInv, LedgerInv, NEW i \in Instances, AnnounceDue(i)
  PROVE  LedgerInv'
<1> DEFINE o == expected[i]
<1>1. /\ pc[i] = "due" /\ pc' = [pc EXCEPT ![i] = "create"] /\ Record(o, "DUE")
      /\ UNCHANGED <<def, now, runs, expected, fired, skips, api, toggles, crashes, faults>>
      /\ announced' = [announced EXCEPT ![o] = @ + 1]
  BY DEF AnnounceDue, Goto, locals, counters
<1>2. /\ o \in Occurrences /\ o \in Nat /\ fired[i] \in Nat /\ o <= fired[i] /\ Recorded \subseteq Nat
      /\ Interval \in Nat \ {0} /\ pc[i] \in Firing /\ ledger \in [Occurrences -> Outcomes]
      /\ pc \in [Instances -> Points]
  BY <1>1, LedgerValues DEF Firing
<1>3. \A p \in Recorded : p + Interval <= o \/ fired[i] + Interval <= p
  BY <1>1, <1>2 DEF LedgerInv, OwnStretch, Announcing
<1>4. \A p \in Recorded : p + Interval <= o \/ o + Interval <= p
  BY <1>2, <1>3
<1>5. ledger[o] = "none"
  <2>1. o \notin Recorded
    BY <1>2, <1>4
  <2> QED BY <1>2, <2>1 DEF Recorded
<1>6. /\ pc'[i] = "create"
      /\ \A j \in Instances : j # i => pc'[j] = pc[j]
  BY <1>1, <1>2
<1>7. "DUE" \in Outcomes \ {"none"}
  BY DEF Outcomes
<1>8. /\ ledger' \in [Occurrences -> Outcomes] /\ Recorded' = Recorded \cup {o}
      /\ ledger'[o] = "DUE" /\ \A p \in Occurrences : p # o => ledger'[p] = ledger[p]
  BY <1>1, <1>2, <1>5, <1>7, RecordKeeps
<1>9. /\ Stretches' /\ RecordedBehind' /\ OccurrencesSpaced'
      /\ \A j \in Instances : pc'[j] \in Firing /\ j # i =>
           /\ pc'[j] \in Announcing => expected'[j] \in Recorded'
           /\ pc'[j] = "create" => ledger'[expected'[j]] = "DUE"
           /\ pc'[j] = "skip" => \A p \in Named(j)' \ skips'[j] : ledger'[p] = "SKIPPED" /\ runs'[p] = 0
           /\ \A p \in Recorded' : \/ p + Interval <= expected'[j] \/ fired'[j] + Interval <= p
                                   \/ p = expected'[j] /\ pc'[j] \in Announcing
                                   \/ p \in Named(j)' \ skips'[j] /\ pc'[j] = "skip"
  <2>1. pc'[i] \in Firing
    BY <1>6 DEF Firing
  <2> HIDE DEF o
  <2>2. expected[i] <= o
    BY <1>2 DEF o
  <2> QED BY <1>1, <1>2, <1>4, <1>6, <1>7, <2>1, <2>2, LedgerRecords
<1>10. OwnStretch'
  <2>1. \A p \in Recorded' : p + Interval <= o \/ fired[i] + Interval <= p \/ p = o
    BY <1>3, <1>8
  <2>2. /\ pc'[i] \in Announcing => expected'[i] \in Recorded'
        /\ pc'[i] = "create" => ledger'[expected'[i]] = "DUE"
        /\ pc'[i] # "skip"
        /\ \A p \in Recorded' : \/ p + Interval <= expected'[i] \/ fired'[i] + Interval <= p
                                \/ p = expected'[i] /\ pc'[i] \in Announcing
    BY <1>1, <1>6, <1>8, <2>1 DEF Announcing
  <2> QED BY <1>9, <2>2 DEF OwnStretch
<1>11. LedgerTypes'
  <2>1. announced' \in [Occurrences -> Nat]
    BY <1>1, BumpTyped DEF LedgerInv, LedgerTypes, TypeOK
  <2>2. pc' \in [Instances -> Points]
    BY <1>1, <1>2 DEF Points
  <2>3. TypeOK'
    BY <1>1, <1>8, <2>1, <2>2 DEF LedgerInv, LedgerTypes, TypeOK
  <2>4. \A j \in Instances : Named(j)' = Named(j)
    BY <1>1 DEF Named
  <2>5. \A j \in Instances : pc'[j] = "skip" <=> pc[j] = "skip"
    BY <1>1, <1>6
  <2> QED BY <1>1, <2>3, <2>4, <2>5 DEF LedgerInv, LedgerTypes
<1>12. RunsRecorded'
  BY <1>1, <1>8 DEF LedgerInv, RunsRecorded
<1> QED BY <1>9, <1>10, <1>11, <1>12 DEF LedgerInv

(* CreateRun: the run is of an occurrence that is recorded as due.           *)
LEMMA LedgerRun ==
  ASSUME ClaimInv, LedgerInv, NEW i \in Instances, CreateRun(i)
  PROVE  LedgerInv'
<1> DEFINE o == expected[i]
<1>1. /\ pc[i] = "create" /\ pc' = [pc EXCEPT ![i] = "created"]
      /\ runs' = [runs EXCEPT ![o] = @ + 1] \/ runs' = runs
      /\ UNCHANGED <<def, now, ledger, announced, expected, fired, skips, api, toggles, crashes>>
  BY DEF CreateRun, Insert, Goto, locals
<1>2. /\ o \in Occurrences /\ pc[i] \in Firing /\ pc \in [Instances -> Points] /\ runs \in [Occurrences -> Nat]
      /\ Recorded \subseteq Nat
  BY <1>1, LedgerValues DEF Firing
<1>3. ledger[o] = "DUE" /\ Recorded' = Recorded
  BY <1>1, <1>2 DEF LedgerInv, OwnStretch, Recorded
<1>4. \A p \in Occurrences : ledger[p] # "DUE" => runs'[p] = runs[p]
  BY <1>1, <1>2, <1>3
<1>5. /\ pc'[i] = "created"
      /\ \A j \in Instances : j # i => pc'[j] = pc[j]
      /\ \A j \in Instances : pc'[j] \in Firing <=> pc[j] \in Firing
      /\ \A j \in Instances : pc'[j] \in Announcing <=> pc[j] \in Announcing
      /\ \A j \in Instances : pc'[j] = "skip" <=> pc[j] = "skip"
  BY <1>1, <1>2 DEF Firing, Announcing
<1>6. \A j \in Instances : Named(j)' = Named(j)
  BY <1>1 DEF Named
<1>7. TypeOK'
  <2>1. runs' \in [Occurrences -> Nat]
    BY <1>1, <1>2, BumpTyped
  <2>2. pc' \in [Instances -> Points]
    BY <1>1, <1>2 DEF Points
  <2>3. faults' \in Nat
    BY DEF CreateRun, LedgerInv, LedgerTypes, TypeOK
  <2> QED BY <1>1, <2>1, <2>2, <2>3 DEF LedgerInv, LedgerTypes, TypeOK
<1>8. LedgerTypes'
  BY <1>1, <1>5, <1>6, <1>7 DEF LedgerInv, LedgerTypes
<1>9. Stretches' /\ RecordedBehind' /\ OccurrencesSpaced'
  BY <1>1, <1>3, <1>5 DEF LedgerInv, Stretches, RecordedBehind, OccurrencesSpaced
<1>10. OwnStretch'
  <2> SUFFICES ASSUME NEW j \in Instances, pc[j] \in Firing
               PROVE  /\ pc[j] \in Announcing => expected[j] \in Recorded
                      /\ pc'[j] = "create" => ledger[expected[j]] = "DUE"
                      /\ pc[j] = "skip" => \A p \in Named(j) \ skips[j] : ledger[p] = "SKIPPED" /\ runs'[p] = 0
                      /\ \A p \in Recorded : \/ p + Interval <= expected[j] \/ fired[j] + Interval <= p
                                             \/ p = expected[j] /\ pc[j] \in Announcing
                                             \/ p \in Named(j) \ skips[j] /\ pc[j] = "skip"
    BY <1>1, <1>3, <1>5, <1>6 DEF OwnStretch
  <2>1. pc'[j] = "create" => pc[j] = "create"
    BY <1>5
  <2>2. \A p \in Named(j) : p \in Occurrences
    BY LedgerValues
  <2>3. pc[j] = "skip" => \A p \in Named(j) \ skips[j] : ledger[p] = "SKIPPED" /\ runs'[p] = 0
    BY <1>4, <2>2 DEF LedgerInv, OwnStretch
  <2> QED BY <2>1, <2>3 DEF LedgerInv, OwnStretch
<1>11. RunsRecorded'
  BY <1>1, <1>3, <1>4 DEF LedgerInv, RunsRecorded
<1> QED BY <1>8, <1>9, <1>10, <1>11 DEF LedgerInv

(* AnnounceCreated: the occurrence leaves DUE, and the skips are still to come. *)
LEMMA LedgerCreated ==
  ASSUME ClaimInv, LedgerInv, NEW i \in Instances, AnnounceCreated(i)
  PROVE  LedgerInv'
<1> DEFINE o == expected[i]
<1>1. /\ pc[i] = "created" /\ pc' = [pc EXCEPT ![i] = "skip"] /\ Record(o, "CREATED")
      /\ skips' = [skips EXCEPT ![i] = Named(i)]
      /\ UNCHANGED <<def, now, runs, announced, expected, fired, api, toggles, crashes, faults>>
  BY DEF AnnounceCreated, Goto, counters, Named
<1>2. /\ o \in Occurrences /\ o \in Nat /\ fired[i] \in Nat /\ o <= fired[i] /\ Recorded \subseteq Nat
      /\ Interval \in Nat \ {0} /\ pc[i] \in Firing /\ ledger \in [Occurrences -> Outcomes]
      /\ pc \in [Instances -> Points] /\ skips \in [Instances -> SUBSET (0 .. MaxNow)]
      /\ \A p \in Named(i) : p \in 0 .. MaxNow
  BY <1>1, LedgerValues DEF Firing
<1>3. /\ o \in Recorded
      /\ \A p \in Recorded : p + Interval <= o \/ fired[i] + Interval <= p \/ p = o
  BY <1>1, <1>2 DEF LedgerInv, OwnStretch, Announcing
<1>4. \A p \in Recorded : p = o \/ p + Interval <= o \/ o + Interval <= p
  BY <1>2, <1>3
<1>5. /\ pc'[i] = "skip" /\ skips'[i] = Named(i)
      /\ \A j \in Instances : j # i => pc'[j] = pc[j] /\ skips'[j] = skips[j]
  BY <1>1, <1>2
<1>6. "CREATED" \in Outcomes \ {"none"}
  BY DEF Outcomes
<1>7. /\ ledger' \in [Occurrences -> Outcomes] /\ Recorded' = Recorded
      /\ \A p \in Occurrences : p # o \/ ledger[p] \in {"CREATED", "SKIPPED"} => ledger'[p] = ledger[p]
      /\ ledger[o] \in {"none", "DUE"} => ledger'[o] = "CREATED"
  <2>1. Recorded' = Recorded \cup {o}
    BY <1>1, <1>2, <1>6, RecordKeeps
  <2>2. Recorded' = Recorded
    BY <1>3, <2>1
  <2> HIDE DEF o
  <2> QED BY <1>1, <1>2, <1>6, <2>2, RecordKeeps
<1>8. \A j \in Instances : Named(j)' = Named(j)
  BY <1>1 DEF Named
<1>9. /\ Stretches' /\ RecordedBehind' /\ OccurrencesSpaced'
      /\ \A j \in Instances : pc'[j] \in Firing /\ j # i =>
           /\ pc'[j] \in Announcing => expected'[j] \in Recorded'
           /\ pc'[j] = "create" => ledger'[expected'[j]] = "DUE"
           /\ pc'[j] = "skip" => \A p \in Named(j)' \ skips'[j] : ledger'[p] = "SKIPPED" /\ runs'[p] = 0
           /\ \A p \in Recorded' : \/ p + Interval <= expected'[j] \/ fired'[j] + Interval <= p
                                   \/ p = expected'[j] /\ pc'[j] \in Announcing
                                   \/ p \in Named(j)' \ skips'[j] /\ pc'[j] = "skip"
  <2>1. pc'[i] \in Firing
    BY <1>5 DEF Firing
  <2> HIDE DEF o
  <2>2. expected[i] <= o
    BY <1>2 DEF o
  <2> QED BY <1>1, <1>2, <1>4, <1>5, <1>6, <2>1, <2>2, LedgerRecords
<1>10. OwnStretch'
  <2>1. /\ expected'[i] \in Recorded' /\ pc'[i] = "skip" /\ Named(i)' \ skips'[i] = {}
        /\ \A p \in Recorded' : \/ p + Interval <= expected'[i] \/ fired'[i] + Interval <= p
                                \/ p = expected'[i] /\ pc'[i] \in Announcing
    BY <1>1, <1>3, <1>5, <1>7, <1>8 DEF Announcing
  <2> QED BY <1>9, <2>1 DEF OwnStretch
<1>11. LedgerTypes'
  <2>1. skips' \in [Instances -> SUBSET (0 .. MaxNow)]
    <3>1. Named(i) \in SUBSET (0 .. MaxNow)
      BY <1>2
    <3> QED BY <1>1, <1>2, <3>1
  <2>2. pc' \in [Instances -> Points]
    BY <1>1, <1>2 DEF Points
  <2>3. TypeOK'
    BY <1>1, <1>7, <2>1, <2>2 DEF LedgerInv, LedgerTypes, TypeOK
  <2>4. ASSUME NEW j \in Instances
        PROVE  /\ pc'[j] # "skip" => skips'[j] = {}
               /\ pc'[j] = "skip" => skips'[j] \subseteq Named(j)'
    <3>1. CASE j = i
      BY <1>5, <1>8, <3>1
    <3>2. CASE j # i
      BY <1>5, <1>8, <3>2 DEF LedgerInv, LedgerTypes
    <3> QED BY <3>1, <3>2
  <2> QED BY <1>1, <2>3, <2>4 DEF LedgerInv, LedgerTypes
<1>12. RunsRecorded'
  BY <1>1, <1>7 DEF LedgerInv, RunsRecorded
<1> QED BY <1>9, <1>10, <1>11, <1>12 DEF LedgerInv

(* AnnounceSkipped: what is named as skipped is new to the ledger, and not run. *)
LEMMA LedgerSkipped ==
  ASSUME LedgerInv, NEW i \in Instances, AnnounceSkipped(i)
  PROVE  LedgerInv' /\ \E o \in skips[i] : Record(o, "SKIPPED") /\ Recorded' = Recorded \cup {o}
<1> PICK o \in skips[i] : Record(o, "SKIPPED") /\ skips' = [skips EXCEPT ![i] = @ \ {o}]
  BY DEF AnnounceSkipped
<1>1. /\ pc[i] = "skip" /\ UNCHANGED <<def, now, runs, announced, pc, expected, fired, api, toggles, crashes, faults>>
  BY DEF AnnounceSkipped, counters
<1>2. /\ o \in Named(i) /\ o \in Occurrences /\ o \in Nat /\ expected[i] + Interval <= o /\ o <= fired[i]
      /\ expected[i] \in Nat /\ fired[i] \in Nat /\ expected[i] <= fired[i] /\ Recorded \subseteq Nat
      /\ Interval \in Nat \ {0} /\ pc[i] \in Firing /\ ledger \in [Occurrences -> Outcomes]
      /\ runs \in [Occurrences -> Nat] /\ skips \in [Instances -> SUBSET (0 .. MaxNow)]
  <2>1. o \in Named(i) /\ pc[i] \in Firing
    BY <1>1 DEF LedgerInv, LedgerTypes, Firing
  <2> QED BY <2>1, LedgerValues
<1>3. /\ \A p \in Recorded : \/ p + Interval <= expected[i] \/ fired[i] + Interval <= p
                             \/ p = expected[i] \/ p \in Named(i) \ skips[i]
      /\ \A p \in Named(i) \ skips[i] : ledger[p] = "SKIPPED" /\ runs[p] = 0
      /\ expected[i] \in Recorded
  BY <1>1, <1>2 DEF LedgerInv, OwnStretch, Announcing
<1>4. \A p \in Named(i) \ skips[i] : p + Interval <= o \/ o + Interval <= p
  <2> SUFFICES ASSUME NEW p \in Named(i) \ skips[i] PROVE p + Interval <= o \/ o + Interval <= p
    OBVIOUS
  <2>1. p \in Nat
    BY <1>2, NamedWithin DEF Named
  <2>2. p < o \/ o < p
    BY <1>2, <2>1
  <2> QED BY <1>2, <2>2, NamedApart DEF Named
<1>5. \A p \in Recorded : p + Interval <= o \/ o + Interval <= p
  <2> SUFFICES ASSUME NEW p \in Recorded PROVE p + Interval <= o \/ o + Interval <= p
    OBVIOUS
  <2>1. CASE p + Interval <= expected[i] \/ fired[i] + Interval <= p \/ p = expected[i]
    BY <1>2, <2>1
  <2> QED BY <1>3, <1>4, <2>1
<1>6. ledger[o] = "none" /\ runs[o] = 0
  <2>1. o \notin Recorded
    BY <1>2, <1>5
  <2>2. ledger[o] = "none"
    BY <1>2, <2>1 DEF Recorded
  <2> QED BY <1>2, <2>2 DEF LedgerInv, RunsRecorded
<1>7. "SKIPPED" \in Outcomes \ {"none"}
  BY DEF Outcomes
<1>8. /\ ledger' \in [Occurrences -> Outcomes] /\ Recorded' = Recorded \cup {o}
      /\ ledger'[o] = "SKIPPED" /\ \A p \in Occurrences : p # o => ledger'[p] = ledger[p]
  BY <1>2, <1>6, <1>7, RecordKeeps
<1>9. /\ skips'[i] = skips[i] \ {o}
      /\ \A j \in Instances : j # i => skips'[j] = skips[j]
      /\ \A j \in Instances : Named(j)' = Named(j)
  BY <1>1, <1>2 DEF Named
<1>10. /\ Stretches' /\ RecordedBehind' /\ OccurrencesSpaced'
       /\ \A j \in Instances : pc'[j] \in Firing /\ j # i =>
            /\ pc'[j] \in Announcing => expected'[j] \in Recorded'
            /\ pc'[j] = "create" => ledger'[expected'[j]] = "DUE"
            /\ pc'[j] = "skip" => \A p \in Named(j)' \ skips'[j] : ledger'[p] = "SKIPPED" /\ runs'[p] = 0
            /\ \A p \in Recorded' : \/ p + Interval <= expected'[j] \/ fired'[j] + Interval <= p
                                    \/ p = expected'[j] /\ pc'[j] \in Announcing
                                    \/ p \in Named(j)' \ skips'[j] /\ pc'[j] = "skip"
  <2>1. pc'[i] \in Firing /\ expected[i] <= o
    BY <1>1, <1>2
  <2> QED BY <1>1, <1>2, <1>5, <1>7, <1>9, <2>1, LedgerRecords
<1>11. OwnStretch'
  <2>1. Named(i)' \ skips'[i] = (Named(i) \ skips[i]) \cup {o}
    BY <1>2, <1>9
  <2>2. \A p \in Named(i) : p \in Occurrences
    BY <1>2, LedgerValues
  <2>3. \A p \in Named(i)' \ skips'[i] : ledger'[p] = "SKIPPED" /\ runs'[p] = 0
    BY <1>1, <1>3, <1>6, <1>8, <2>1, <2>2
  <2>4. /\ expected'[i] \in Recorded' /\ pc'[i] = "skip"
        /\ \A p \in Recorded' : \/ p + Interval <= expected'[i] \/ fired'[i] + Interval <= p
                                \/ p = expected'[i] /\ pc'[i] \in Announcing
                                \/ p \in Named(i)' \ skips'[i] /\ pc'[i] = "skip"
    BY <1>1, <1>3, <1>8, <2>1 DEF Announcing
  <2> QED BY <1>10, <2>3, <2>4 DEF OwnStretch
<1>12. LedgerTypes'
  <2>1. skips' \in [Instances -> SUBSET (0 .. MaxNow)]
    BY <1>2
  <2>2. TypeOK'
    BY <1>1, <1>8, <2>1 DEF LedgerInv, LedgerTypes, TypeOK
  <2>3. ASSUME NEW j \in Instances
        PROVE  /\ pc'[j] # "skip" => skips'[j] = {}
               /\ pc'[j] = "skip" => skips'[j] \subseteq Named(j)'
    <3>1. CASE j = i
      BY <1>1, <1>9, <3>1 DEF LedgerInv, LedgerTypes
    <3>2. CASE j # i
      BY <1>1, <1>9, <3>2 DEF LedgerInv, LedgerTypes
    <3> QED BY <3>1, <3>2
  <2> QED BY <1>1, <2>2, <2>3 DEF LedgerInv, LedgerTypes
<1>13. RunsRecorded'
  BY <1>1, <1>6, <1>8 DEF LedgerInv, RunsRecorded
<1> QED BY <1>8, <1>10, <1>11, <1>12, <1>13 DEF LedgerInv

(* The first attempt of a run: the run is recorded already.                  *)
LEMMA LedgerStarted ==
  ASSUME ClaimInv, LedgerInv, NEW o \in Occurrences, StartAttempt(o)
  PROVE  LedgerInv' /\ Recorded' = Recorded
<1>1. /\ runs[o] > 0 /\ Record(o, "CREATED")
      /\ UNCHANGED <<def, now, runs, announced, pc, expected, fired, skips, api, toggles, crashes, faults>>
  BY DEF StartAttempt, locals, counters
<1>2. ledger[o] \in {"DUE", "CREATED"} /\ o \in Recorded
  BY <1>1 DEF LedgerInv, RunsRecorded, Recorded
<1>3. /\ ledger' \in [Occurrences -> Outcomes] /\ Recorded' = Recorded
      /\ \A p \in Occurrences : p # o \/ ledger[p] \in {"CREATED", "SKIPPED"} => ledger'[p] = ledger[p]
      /\ ledger[o] \in {"none", "DUE"} => ledger'[o] = "CREATED"
  <2>1. ledger \in [Occurrences -> Outcomes] /\ "CREATED" \in Outcomes \ {"none"}
    BY LedgerValues DEF Outcomes
  <2> QED BY <1>1, <1>2, <2>1, RecordKeeps
<1>4. \A j \in Instances : Named(j)' = Named(j)
  BY <1>1 DEF Named
<1>5. LedgerTypes'
  BY <1>1, <1>3, <1>4 DEF LedgerInv, LedgerTypes, TypeOK
<1>6. Stretches' /\ RecordedBehind' /\ OccurrencesSpaced'
  BY <1>1, <1>3 DEF LedgerInv, Stretches, RecordedBehind, OccurrencesSpaced
<1>7. OwnStretch'
  <2> SUFFICES ASSUME NEW j \in Instances, pc[j] \in Firing
               PROVE  /\ pc[j] \in Announcing => expected[j] \in Recorded
                      /\ pc[j] = "create" => ledger'[expected[j]] = "DUE"
                      /\ pc[j] = "skip" => \A p \in Named(j) \ skips[j] : ledger'[p] = "SKIPPED" /\ runs[p] = 0
                      /\ \A p \in Recorded : \/ p + Interval <= expected[j] \/ fired[j] + Interval <= p
                                             \/ p = expected[j] /\ pc[j] \in Announcing
                                             \/ p \in Named(j) \ skips[j] /\ pc[j] = "skip"
    BY <1>1, <1>3, <1>4 DEF OwnStretch
  <2>1. expected[j] \in Occurrences /\ \A p \in Named(j) : p \in Occurrences
    BY LedgerValues
  <2>2. pc[j] = "create" => expected[j] # o
    BY <1>1, <2>1 DEF ClaimInv, Fresh
  <2>3. pc[j] = "create" => ledger'[expected[j]] = "DUE"
    BY <1>3, <2>1, <2>2 DEF LedgerInv, OwnStretch
  <2>4. pc[j] = "skip" => \A p \in Named(j) \ skips[j] : ledger'[p] = "SKIPPED" /\ runs[p] = 0
    BY <1>3, <2>1 DEF LedgerInv, OwnStretch
  <2> QED BY <2>3, <2>4 DEF LedgerInv, OwnStretch
<1>8. RunsRecorded'
  BY <1>1, <1>2, <1>3 DEF LedgerInv, RunsRecorded
<1> QED BY <1>3, <1>5, <1>6, <1>7, <1>8 DEF LedgerInv

(* Every step keeps the invariant of the ledger.                             *)
LEMMA LedgerStep ==
  ASSUME ~ReadDefinition, ClaimInv, LedgerInv, [Next]_vars
  PROVE  LedgerInv'
<1>1. ASSUME NEW i \in Instances, Scheduler(i) \/ Crash(i) \/ Restart(i) PROVE LedgerInv'
  <2>1. CASE Poll(i) \/ ClaimLost(i) \/ ClaimError(i) \/ EndFire(i) \/ Crash(i) \/ Restart(i)
    BY <2>1, LedgerOutside
  <2>2. CASE Claim(i)
    BY <2>2, LedgerClaim
  <2>3. CASE AnnounceDue(i)
    BY <2>3, LedgerDue
  <2>4. CASE CreateRun(i)
    BY <2>4, LedgerRun
  <2>5. CASE AnnounceCreated(i)
    BY <2>5, LedgerCreated
  <2>6. CASE AnnounceSkipped(i)
    BY <2>6, LedgerSkipped
  <2> QED BY <1>1, <2>1, <2>2, <2>3, <2>4, <2>5, <2>6 DEF Scheduler
<1>2. ASSUME NEW o \in Occurrences, StartAttempt(o) PROVE LedgerInv'
  BY <1>2, LedgerStarted
<1>3. ~ToggleSchedule
  BY DEF ToggleSchedule, SafeTypes, ClaimInv
<1>4. CASE Tick \/ UNCHANGED vars
  <2>1. /\ UNCHANGED <<def, runs, ledger, announced, pc, expected, fired, skips, api, toggles, crashes, faults>>
        /\ (now' = now + 1 /\ now < MaxNow) \/ now' = now
    BY <1>4 DEF Tick, vars, locals, counters
  <2>2. Recorded' = Recorded /\ \A j \in Instances : Named(j)' = Named(j)
    BY <2>1 DEF Recorded, Named
  <2>3. now \in Nat /\ now <= MaxNow /\ \A j \in Instances : fired[j] \in Nat /\ fired[j] <= now
    BY LedgerValues
  <2>4. now' \in 0 .. MaxNow /\ \A j \in Instances : fired'[j] <= now'
    BY <2>1, <2>3, ScheduleAssumption
  <2>5. LedgerTypes'
    BY <2>1, <2>2, <2>4 DEF LedgerInv, LedgerTypes, TypeOK
  <2>6. Stretches' /\ RecordedBehind' /\ OwnStretch'
    BY <2>1, <2>2 DEF LedgerInv, Stretches, RecordedBehind, OwnStretch
  <2>7. RunsRecorded' /\ OccurrencesSpaced'
    BY <2>1, <2>2 DEF LedgerInv, RunsRecorded, OccurrencesSpaced
  <2> QED BY <2>5, <2>6, <2>7 DEF LedgerInv
<1> QED BY <1>1, <1>2, <1>3, <1>4 DEF Next

(* skippedOccurrences (schedule_watch.go:44): what is announced as skipped was *)
(* never run, and no two entries of the ledger tell of the same moment, however *)
(* late a fire is, whoever it races, and wherever it crashes.                 *)
THEOREM SkipsSound == ASSUME MaxToggles = 0 PROVE Spec => []SkipsExact
<1>1. ClaimInv /\ LedgerInv => SkipsExact
  <2> SUFFICES ASSUME LedgerInv PROVE SkippedNeverRuns /\ OccurrencesSpaced
    BY DEF SkipsExact
  <2>1. \A o \in Occurrences : ledger[o] = "SKIPPED" => ~(runs[o] > 0)
    BY DEF LedgerInv, RunsRecorded
  <2>2. \A o \in Occurrences : runs[o] \in Nat
    BY LedgerValues
  <2> QED BY <2>1, <2>2 DEF LedgerInv, SkippedNeverRuns
<1>2. (ClaimInv /\ LedgerInv) /\ [Next]_vars => (ClaimInv /\ LedgerInv)'
  BY ClaimStep, LedgerStep, NotToggled
<1>3. Init => ClaimInv /\ LedgerInv
  BY ClaimInit, LedgerInit
<1> QED BY <1>1, <1>2, <1>3, PTL DEF Spec

(* What one step does to the fires and to the ledger when no instance dies and *)
(* no insert fails: a fire begins with its claim and ends after its last skip,  *)
(* and only a fire adds to the ledger, within its own stretch.                *)
LEMMA GapMoves ==
  ASSUME ~ReadDefinition, MaxCrashes = 0, MaxFaults = 0, ClaimInv, LedgerInv, GapInv, [Next]_vars
  PROVE  /\ \A i \in Instances : pc[i] \in Firing =>
              EndFire(i) \/ (pc'[i] \in Firing /\ expected'[i] = expected[i] /\ fired'[i] = fired[i])
         /\ \A i \in Instances : pc'[i] \in Firing => pc[i] \in Firing \/ Claim(i)
         /\ \A i \in Instances : pc'[i] # "down"
         /\ \A i \in Instances : pc[i] = "due" => AnnounceDue(i) \/ (pc'[i] = "due" /\ expected'[i] = expected[i])
         /\ \A i \in Instances : pc'[i] = "created" => CreateRun(i) \/ (pc[i] = "created" /\ expected'[i] = expected[i])
         /\ (\E i \in Instances : Claim(i)) \/ def' = def
<1>1. \A j \in Instances : ~Crash(j) /\ pc[j] # "down"
  BY DEF Crash, LedgerInv, LedgerTypes, TypeOK, GapInv
<1>2. pc \in [Instances -> Points]
  BY LedgerValues
<1>3. ~ToggleSchedule
  BY DEF ToggleSchedule, SafeTypes, ClaimInv
<1>4. ASSUME NEW i \in Instances, Scheduler(i)
      PROVE  /\ \A j \in Instances : j # i => pc'[j] = pc[j] /\ expected'[j] = expected[j] /\ fired'[j] = fired[j]
             /\ pc'[i] # "down"
             /\ pc[i] \in Firing =>
                  EndFire(i) \/ (pc'[i] \in Firing /\ expected'[i] = expected[i] /\ fired'[i] = fired[i])
             /\ pc'[i] \in Firing => pc[i] \in Firing \/ Claim(i)
             /\ pc[i] = "due" => AnnounceDue(i)
             /\ pc'[i] # "created" \/ CreateRun(i)
             /\ Claim(i) \/ def' = def
  <2>1. CASE Poll(i)
    BY <1>2, <2>1, LedgerValues DEF Poll, Goto, Firing
  <2>2. CASE Claim(i)
    BY <1>2, <2>2, LedgerValues DEF Claim, Goto, Firing
  <2>3. CASE ClaimLost(i) \/ ClaimError(i)
    BY <1>2, <2>3, LedgerValues DEF ClaimLost, ClaimError, Goto, Firing, locals
  <2>4. CASE AnnounceDue(i)
    BY <1>2, <2>4 DEF AnnounceDue, Goto, Firing, locals
  <2>5. CASE CreateRun(i)
    BY <1>2, <2>5 DEF CreateRun, Goto, Firing, locals
  <2>6. CASE AnnounceCreated(i)
    BY <1>2, <2>6 DEF AnnounceCreated, Goto, Firing
  <2>7. CASE AnnounceSkipped(i)
    BY <1>1, <1>2, <2>7 DEF AnnounceSkipped, Firing
  <2>8. CASE EndFire(i)
    BY <1>2, <2>8 DEF EndFire, Goto, Firing, locals
  <2> QED BY <1>4, <2>1, <2>2, <2>3, <2>4, <2>5, <2>6, <2>7, <2>8 DEF Scheduler
<1>5. \A i \in Instances : ~Restart(i)
  BY <1>1 DEF Restart
<1>6. CASE (\E o \in Occurrences : StartAttempt(o)) \/ Tick \/ UNCHANGED vars
  <2>1. UNCHANGED <<pc, expected, fired, def>>
    BY <1>6 DEF StartAttempt, Tick, vars, locals
  <2> QED BY <1>1, <2>1
<1>7. CASE \E i \in Instances : Scheduler(i)
  BY <1>1, <1>4, <1>7
<1> QED BY <1>1, <1>3, <1>5, <1>6, <1>7 DEF Next

(* Only a fire adds to the ledger, within its own stretch, and CREATED is      *)
(* written where there is a run; only an insert adds a run.                   *)
LEMMA GapRecords ==
  ASSUME ~ReadDefinition, ClaimInv, LedgerInv, GapInv, [Next]_vars
  PROVE  \/ UNCHANGED <<ledger, runs>>
         \/ ledger' = ledger /\ \E i \in Instances : CreateRun(i)
         \/ /\ runs' = runs
            /\ \E o \in Occurrences, outcome \in Outcomes \ {"none"} :
                 /\ Record(o, outcome) /\ (outcome = "CREATED" => runs[o] > 0)
                 /\ \/ o \in Recorded
                    \/ \E i \in Instances : pc'[i] \in Firing /\ expected'[i] <= o /\ o <= fired'[i]
<1>1. /\ pc \in [Instances -> Points] /\ {"DUE", "CREATED", "SKIPPED"} \subseteq Outcomes \ {"none"}
      /\ \A i \in Instances : expected[i] \in Occurrences /\ expected[i] \in Nat
  BY LedgerValues DEF Outcomes
<1>2. ASSUME NEW i \in Instances, AnnounceDue(i)
      PROVE  /\ runs' = runs /\ Record(expected[i], "DUE")
             /\ pc'[i] \in Firing /\ expected'[i] <= expected[i] /\ expected[i] <= fired'[i]
  <2>1. pc[i] \in Firing /\ pc'[i] \in Firing /\ expected' = expected /\ fired' = fired
    BY <1>1, <1>2 DEF AnnounceDue, Goto, locals, Firing
  <2> QED BY <1>1, <1>2, <2>1, LedgerValues DEF AnnounceDue
<1>3. ASSUME NEW i \in Instances, AnnounceCreated(i)
      PROVE  runs' = runs /\ Record(expected[i], "CREATED") /\ runs[expected[i]] > 0 /\ expected[i] \in Recorded
  BY <1>3 DEF AnnounceCreated, GapInv, LedgerInv, OwnStretch, Firing, Announcing
<1>4. ASSUME NEW i \in Instances, AnnounceSkipped(i)
      PROVE  /\ runs' = runs
             /\ \E o \in Occurrences : /\ Record(o, "SKIPPED") /\ pc'[i] \in Firing
                                       /\ expected'[i] <= o /\ o <= fired'[i]
  <2>1. pc[i] = "skip" /\ runs' = runs /\ pc' = pc /\ expected' = expected /\ fired' = fired
    BY <1>4 DEF AnnounceSkipped
  <2>2. PICK o \in skips[i] : Record(o, "SKIPPED")
    BY <1>4 DEF AnnounceSkipped
  <2>3. pc[i] \in Firing /\ o \in Named(i)
    BY <2>1 DEF Firing, LedgerInv, LedgerTypes
  <2>4. o \in Occurrences /\ expected[i] + Interval <= o /\ o <= fired[i] /\ o \in Nat
    BY <2>3, LedgerValues
  <2>5. expected[i] <= o
    BY <1>1, <2>4, ScheduleAssumption
  <2> QED BY <2>1, <2>2, <2>3, <2>4, <2>5
<1>5. ASSUME NEW o \in Occurrences, StartAttempt(o)
      PROVE  runs' = runs /\ Record(o, "CREATED") /\ runs[o] > 0 /\ o \in Recorded
  BY <1>5 DEF StartAttempt, LedgerInv, RunsRecorded, Recorded
<1>6. ASSUME NEW i \in Instances,
             \/ Poll(i) \/ Claim(i) \/ ClaimLost(i) \/ ClaimError(i) \/ EndFire(i) \/ Crash(i) \/ Restart(i)
      PROVE  UNCHANGED <<ledger, runs>>
  BY <1>6 DEF Poll, Claim, ClaimLost, ClaimError, EndFire, Crash, Restart
<1>7. ReadDefinition \/ ToggleSchedule \/ Tick \/ UNCHANGED vars => UNCHANGED <<ledger, runs>>
  BY DEF ReadDefinition, ToggleSchedule, Tick, vars
<1>8. \A i \in Instances : CreateRun(i) => ledger' = ledger
  BY DEF CreateRun
<1> QED BY <1>1, <1>2, <1>3, <1>4, <1>5, <1>6, <1>7, <1>8 DEF Next, Scheduler

(* What the steps can do to the ledger, put together.                        *)
LEMMA GapLedger ==
  ASSUME ~ReadDefinition, MaxFaults = 0, ClaimInv, LedgerInv, GapInv, [Next]_vars
  PROVE  /\ Recorded \subseteq Recorded'
         /\ \A o \in Recorded' : o \in Recorded \/ \E i \in Instances :
              pc'[i] \in Firing /\ expected'[i] <= o /\ o <= fired'[i]
         /\ \A o \in Occurrences : ledger[o] = "SKIPPED" => ledger'[o] = "SKIPPED"
         /\ \A o \in Occurrences : ledger'[o] = "CREATED" => runs'[o] > 0
         /\ \A o \in Occurrences : runs[o] > 0 => runs'[o] > 0
         /\ \A i \in Instances : CreateRun(i) => runs'[expected'[i]] > 0
<1>1. ledger \in [Occurrences -> Outcomes] /\ runs \in [Occurrences -> Nat]
  BY LedgerValues
<1>2. ASSUME NEW i \in Instances, CreateRun(i)
      PROVE  /\ runs'[expected'[i]] > 0 /\ \A o \in Occurrences : runs[o] > 0 => runs'[o] > 0
  <2>1. runs' = [runs EXCEPT ![expected[i]] = @ + 1] /\ expected' = expected
    BY <1>2 DEF CreateRun, Insert, LedgerInv, LedgerTypes, TypeOK, locals
  <2>2. expected[i] \in Occurrences
    BY LedgerValues
  <2> QED BY <1>1, <2>1, <2>2
<1>3. ASSUME NEW o \in Occurrences, NEW outcome \in Outcomes \ {"none"}, Record(o, outcome),
             outcome = "CREATED" => runs[o] > 0
      PROVE  /\ Recorded' = Recorded \cup {o}
             /\ \A p \in Occurrences : ledger[p] = "SKIPPED" => ledger'[p] = "SKIPPED"
             /\ \A p \in Occurrences : ledger'[p] = "CREATED" => ledger[p] = "CREATED" \/ runs[p] > 0
  <2>1. /\ Recorded' = Recorded \cup {o}
        /\ \A p \in Occurrences : p # o \/ ledger[p] \in {"CREATED", "SKIPPED"} => ledger'[p] = ledger[p]
        /\ ledger[o] \in {"none", "DUE"} => ledger'[o] = outcome
    BY <1>1, <1>3, RecordKeeps
  <2>2. ledger[o] \in {"none", "DUE", "CREATED", "SKIPPED"}
    BY <1>1 DEF Outcomes
  <2> QED BY <1>3, <2>1, <2>2
<1>4. \A o \in Occurrences : ledger[o] = "CREATED" => runs[o] > 0
  BY DEF GapInv, CreatedHasRun
<1>5. CASE UNCHANGED <<ledger, runs>>
  BY <1>2, <1>4, <1>5 DEF Recorded
<1>6. CASE ledger' = ledger /\ \E i \in Instances : CreateRun(i)
  BY <1>2, <1>4, <1>6 DEF Recorded
<1>7. CASE /\ runs' = runs
           /\ \E o \in Occurrences, outcome \in Outcomes \ {"none"} :
                /\ Record(o, outcome) /\ (outcome = "CREATED" => runs[o] > 0)
                /\ \/ o \in Recorded
                   \/ \E i \in Instances : pc'[i] \in Firing /\ expected'[i] <= o /\ o <= fired'[i]
  <2> PICK o \in Occurrences, outcome \in Outcomes \ {"none"} :
         /\ Record(o, outcome) /\ (outcome = "CREATED" => runs[o] > 0)
         /\ \/ o \in Recorded
            \/ \E i \in Instances : pc'[i] \in Firing /\ expected'[i] <= o /\ o <= fired'[i]
    BY <1>7
  <2>1. /\ Recorded' = Recorded \cup {o}
        /\ \A p \in Occurrences : ledger[p] = "SKIPPED" => ledger'[p] = "SKIPPED"
        /\ \A p \in Occurrences : ledger'[p] = "CREATED" => ledger[p] = "CREATED" \/ runs[p] > 0
    BY <1>3
  <2> QED BY <1>2, <1>4, <1>7, <2>1
<1> QED BY <1>5, <1>6, <1>7, GapRecords

(* The moment a fire leaves behind never drops out of sight, if no instance    *)
(* dies holding it.                                                          *)
LEMMA CoveredStays ==
  ASSUME ~ReadDefinition, MaxCrashes = 0, MaxFaults = 0, ClaimInv, LedgerInv, GapInv, [Next]_vars, NEW x, Covered(x)
  PROVE  Covered(x)'
<1>1. CASE x \in Recorded
  BY <1>1, GapLedger DEF Covered
<1>2. CASE def.next = x
  <2>1. ASSUME NEW i \in Instances, Claim(i) PROVE pc'[i] = "due" /\ expected'[i] = x
    BY <1>2, <2>1, LedgerValues DEF Claim, Won, Goto
  <2>2. CASE def' = def
    BY <1>2, <2>2 DEF Covered
  <2> QED BY <2>1, <2>2, GapMoves DEF Covered
<1>3. ASSUME NEW i \in Instances, pc[i] = "due", expected[i] = x PROVE Covered(x)'
  <2>1. CASE AnnounceDue(i)
    <3>1. expected[i] \in Occurrences /\ ledger \in [Occurrences -> Outcomes] /\ "DUE" \in Outcomes \ {"none"}
      BY LedgerValues DEF Outcomes
    <3>2. Recorded' = Recorded \cup {expected[i]}
      BY <2>1, <3>1, RecordKeeps DEF AnnounceDue
    <3> QED BY <1>3, <3>2 DEF Covered
  <2>2. CASE pc'[i] = "due" /\ expected'[i] = expected[i]
    BY <1>3, <2>2 DEF Covered
  <2> QED BY <1>3, <2>1, <2>2, GapMoves
<1> QED BY <1>1, <1>2, <1>3 DEF Covered

(* A fire that ends has named what follows each occurrence of its stretch, or   *)
(* the stretch ends there, or the cap is reached.                            *)
LEMMA EndedStretch ==
  ASSUME LedgerInv, GapInv, NEW i \in Instances, EndFire(i), NEW o \in Recorded, expected[i] <= o, o <= fired[i]
  PROVE  \/ \E x \in Occurrences : o < x /\ x < o + 2 * Interval /\ Covered(x)
         \/ \A k \in 0 .. MaxSkipped - 1 : o >= k * Interval /\ ledger[o - k * Interval] = "SKIPPED"
<1>1. /\ pc[i] = "skip" /\ skips[i] = {} /\ pc[i] \in Firing
      /\ expected[i] \in Nat /\ fired[i] \in Nat /\ expected[i] <= fired[i] /\ fired[i] <= MaxNow /\ o \in Nat
      /\ Interval \in Nat \ {0} /\ \A p \in Named(i) : p \in Occurrences
  <2>1. pc[i] = "skip" /\ skips[i] = {} /\ pc[i] \in Firing
    BY DEF EndFire, Firing
  <2>2. fired[i] \in 0 .. MaxNow
    BY LedgerValues
  <2> QED BY <2>1, <2>2, LedgerValues, ScheduleAssumption
<1>2. \A p \in Named(i) : ledger[p] = "SKIPPED" /\ p \in Recorded
  <2>1. \A p \in Named(i) : ledger[p] = "SKIPPED"
    BY <1>1 DEF LedgerInv, OwnStretch
  <2> QED BY <1>1, <2>1 DEF Recorded
<1>3. o \in Named(i) \cup {expected[i]}
  <2>1. \/ o + Interval <= expected[i] \/ fired[i] + Interval <= o \/ o = expected[i] \/ o \in Named(i)
    BY <1>1 DEF LedgerInv, OwnStretch
  <2> QED BY <1>1, <2>1
<1>4. \/ o + Interval \in Named(i)
      \/ fired[i] < o + Interval
      \/ \A k \in 0 .. MaxSkipped - 1 : o >= k * Interval /\ o - k * Interval \in Named(i)
  BY <1>1, <1>3, NamedNext DEF Named
<1>5. CASE o + Interval \in Named(i)
  <2>1. o < o + Interval /\ o + Interval < o + 2 * Interval
    BY <1>1
  <2> QED BY <1>1, <1>2, <1>5, <2>1 DEF Covered
<1>6. CASE fired[i] < o + Interval
  <2>1. fired[i] + Interval \in Occurrences
    BY <1>1, ScheduleAssumption DEF Occurrences
  <2>2. o < fired[i] + Interval /\ fired[i] + Interval < o + 2 * Interval
    BY <1>1, <1>6
  <2>3. Covered(fired[i] + Interval)
    BY <1>1 DEF GapInv
  <2> QED BY <2>1, <2>2, <2>3
<1>7. CASE \A k \in 0 .. MaxSkipped - 1 : o >= k * Interval /\ o - k * Interval \in Named(i)
  BY <1>2, <1>7
<1> QED BY <1>4, <1>5, <1>6, <1>7

(* A new definition has recorded nothing.                                    *)
LEMMA GapInit == Init => GapInv
<1> SUFFICES ASSUME Init PROVE GapInv
  OBVIOUS
<1>1. Recorded = {} /\ \A i \in Instances : pc[i] = "idle"
  BY DEF Init, Recorded
<1>2. CreatedHasRun
  BY DEF Init, CreatedHasRun
<1> QED BY <1>1, <1>2 DEF GapInv, NoGap, Firing

(* Every step keeps it.                                                      *)
LEMMA GapStep ==
  ASSUME ~ReadDefinition, MaxCrashes = 0, MaxFaults = 0, ClaimInv, LedgerInv, GapInv, [Next]_vars
  PROVE  GapInv'
<1>1. \A i \in Instances : pc'[i] # "down"
  BY GapMoves
<1>2. ASSUME NEW i \in Instances, pc'[i] \in Firing PROVE Covered(fired[i] + Interval)'
  <2>1. CASE Claim(i)
    <3>1. def'.next = fired'[i] + Interval
      BY <2>1, LedgerValues DEF Claim, LedgerInv, LedgerTypes, TypeOK
    <3> QED BY <3>1 DEF Covered
  <2>2. CASE pc[i] \in Firing
    <3>1. Covered(fired[i] + Interval)
      BY <2>2 DEF GapInv
    <3>2. fired'[i] = fired[i]
      <4>1. EndFire(i) => fired' = fired
        BY DEF EndFire, locals
      <4> QED BY <2>2, <4>1, GapMoves
    <3>3. \A x : Covered(x) => Covered(x)'
      BY CoveredStays
    <3> QED BY <3>1, <3>2, <3>3 DEF Covered
  <2> QED BY <1>2, <2>1, <2>2, GapMoves
<1>3. ASSUME NEW i \in Instances, pc'[i] = "created" PROVE runs'[expected'[i]] > 0
  BY <1>3, GapMoves, GapLedger, LedgerValues DEF GapInv
<1>4. NoGap'
  <2> SUFFICES ASSUME NEW o \in Recorded'
               PROVE  \/ \E x \in Occurrences : o < x /\ x < o + 2 * Interval /\ Covered(x)'
                      \/ \A k \in 0 .. MaxSkipped - 1 : o >= k * Interval /\ ledger'[o - k * Interval] = "SKIPPED"
                      \/ \E i \in Instances : pc'[i] \in Firing /\ expected'[i] <= o /\ o <= fired'[i]
    BY DEF NoGap
  <2>1. CASE \E x \in Occurrences : o < x /\ x < o + 2 * Interval /\ Covered(x)
    BY <2>1, CoveredStays
  <2>2. CASE o \in Recorded /\ \A k \in 0 .. MaxSkipped - 1 : o >= k * Interval /\ ledger[o - k * Interval] = "SKIPPED"
    <3> SUFFICES ASSUME NEW k \in 0 .. MaxSkipped - 1
                 PROVE  o >= k * Interval /\ ledger'[o - k * Interval] = "SKIPPED"
      OBVIOUS
    <3>1. o >= k * Interval /\ ledger[o - k * Interval] = "SKIPPED"
      BY <2>2
    <3>2. k * Interval \in Nat /\ o \in Occurrences
      BY <2>2, TimesMono, LedgerValues, ScheduleAssumption
    <3>3. o - k * Interval \in Occurrences
      BY <3>1, <3>2, ScheduleAssumption DEF Occurrences
    <3> QED BY <3>1, <3>3, GapLedger
  <2>3. ASSUME o \in Recorded, NEW i \in Instances, pc[i] \in Firing, expected[i] <= o, o <= fired[i], EndFire(i)
        PROVE  \/ \E x \in Occurrences : o < x /\ x < o + 2 * Interval /\ Covered(x)
               \/ \A k \in 0 .. MaxSkipped - 1 : o >= k * Interval /\ ledger[o - k * Interval] = "SKIPPED"
    BY <2>3, EndedStretch
  <2>4. ASSUME NEW i \in Instances, pc[i] \in Firing, expected[i] <= o, o <= fired[i], ~EndFire(i)
        PROVE  pc'[i] \in Firing /\ expected'[i] <= o /\ o <= fired'[i]
    BY <2>4, GapMoves
  <2>5. CASE o \notin Recorded
    BY <2>5, GapLedger
  <2> QED BY <2>1, <2>2, <2>3, <2>4, <2>5 DEF GapInv, NoGap
<1>5. CreatedHasRun'
  BY GapLedger DEF CreatedHasRun
<1> QED BY <1>1, <1>2, <1>3, <1>4, <1>5 DEF GapInv

(* What holds whoever writes the definition's row: CREATED is written where     *)
(* the run exists, in fireSchedule after the insert, by a worker that runs it.  *)
RunsBehind ==
    TypeOK /\ CreatedHasRun /\ \A i \in Instances : pc[i] = "created" => runs[expected[i]] > 0

(* A new definition has no runs and no ledger.                               *)
LEMMA RunsBehindInit == Init => RunsBehind
<1> SUFFICES ASSUME Init PROVE RunsBehind
  OBVIOUS
<1>1. TypeOK
  BY LedgerInit DEF LedgerInv, LedgerTypes
<1> QED BY <1>1 DEF Init, RunsBehind, CreatedHasRun

(* Toggles, races and crashes keep it, as long as no insert fails.            *)
LEMMA RunsBehindStep == ASSUME MaxFaults = 0, RunsBehind, [Next]_vars PROVE RunsBehind'
<1>0. /\ ledger \in [Occurrences -> Outcomes] /\ runs \in [Occurrences -> Nat] /\ pc \in [Instances -> Points]
      /\ skips \in [Instances -> SUBSET (0 .. MaxNow)] /\ expected \in [Instances -> Occurrences]
      /\ fired \in [Instances -> 0 .. MaxNow] /\ announced \in [Occurrences -> Nat] /\ now \in 0 .. MaxNow
      /\ def \in [next : Occurrences, enabled : BOOLEAN] /\ api \subseteq [next : Occurrences, enabled : BOOLEAN]
      /\ toggles \in Nat /\ crashes \in Nat /\ faults \in Nat /\ ~(faults < MaxFaults)
  BY DEF RunsBehind, TypeOK
<1>1. \A o \in Occurrences : o \in Nat
  BY ScheduleAssumption DEF Occurrences
<1>2. ASSUME NEW o \in Occurrences, NEW outcome \in Outcomes, Record(o, outcome), outcome = "CREATED" => runs[o] > 0,
             runs' = runs
      PROVE  ledger' \in [Occurrences -> Outcomes] /\ CreatedHasRun'
  <2>1. \A p \in Occurrences : ledger'[p] = IF p = o THEN Reduced(ledger[p], outcome) ELSE ledger[p]
    BY <1>0, <1>2 DEF Record
  <2>2. ledger' \in [Occurrences -> Outcomes]
    BY <1>0, <1>2 DEF Record, Reduced
  <2>3. \A p \in Occurrences : ledger'[p] = "CREATED" => ledger[p] = "CREATED" \/ (p = o /\ outcome = "CREATED")
    BY <2>1 DEF Reduced
  <2> QED BY <1>2, <2>2, <2>3 DEF RunsBehind, CreatedHasRun
<1>3. ASSUME NEW i \in Instances,
             \/ Poll(i) \/ Claim(i) \/ ClaimLost(i) \/ ClaimError(i) \/ EndFire(i) \/ Crash(i) \/ Restart(i)
      PROVE  RunsBehind'
  <2>1. UNCHANGED <<ledger, runs, announced, now, api, toggles>> /\ crashes' \in Nat /\ faults' \in Nat
    BY <1>0, <1>3 DEF Poll, Claim, ClaimLost, ClaimError, EndFire, Crash, Restart, counters
  <2>2. pc' \in {[pc EXCEPT ![i] = "idle"], [pc EXCEPT ![i] = "claim"], [pc EXCEPT ![i] = "due"], [pc EXCEPT ![i] = "down"]}
    BY <1>3 DEF Poll, Claim, ClaimLost, ClaimError, EndFire, Crash, Restart, Goto
  <2>3. expected' \in {expected, [expected EXCEPT ![i] = def.next]} /\ skips' \in {skips, [skips EXCEPT ![i] = {}]}
    BY <1>3 DEF Poll, Claim, ClaimLost, ClaimError, EndFire, Crash, Restart, locals
  <2>4. def' \in [next : Occurrences, enabled : BOOLEAN] /\ fired' \in [Instances -> 0 .. MaxNow]
    <3>1. CASE Claim(i)
      <4> PICK at \in fired[i] .. now : /\ def' = [def EXCEPT !.next = at + Interval]
                                        /\ fired' = [fired EXCEPT ![i] = at]
        BY <3>1 DEF Claim
      <4>1. fired[i] \in 0 .. MaxNow
        BY <1>0
      <4>2. at \in 0 .. MaxNow
        <5>1. now \in 0 .. MaxNow
          BY <1>0
        <5> QED BY <4>1, <5>1, ScheduleAssumption
      <4>3. at + Interval \in Occurrences
        BY <4>2, ScheduleAssumption DEF Occurrences
      <4> QED BY <1>0, <4>2, <4>3
    <3>2. CASE ~Claim(i)
      BY <1>0, <1>3, <3>2 DEF Poll, ClaimLost, ClaimError, EndFire, Crash, Restart, locals
    <3> QED BY <3>1, <3>2
  <2>5. pc' \in [Instances -> Points] /\ expected' \in [Instances -> Occurrences]
        /\ skips' \in [Instances -> SUBSET (0 .. MaxNow)]
    BY <1>0, <2>2, <2>3 DEF Points
  <2>6. TypeOK'
    BY <1>0, <2>1, <2>4, <2>5 DEF TypeOK
  <2>7. \A j \in Instances : pc'[j] = "created" => pc[j] = "created" /\ expected'[j] = expected[j]
    BY <1>0, <2>2, <2>3
  <2> QED BY <2>1, <2>6, <2>7 DEF RunsBehind, CreatedHasRun
<1>4. ASSUME NEW i \in Instances, AnnounceDue(i) PROVE RunsBehind'
  <2>1. /\ Record(expected[i], "DUE") /\ pc' = [pc EXCEPT ![i] = "create"]
        /\ announced' = [announced EXCEPT ![expected[i]] = @ + 1]
        /\ UNCHANGED <<def, now, runs, expected, fired, skips, api, toggles, crashes, faults>>
    BY <1>4 DEF AnnounceDue, Goto, locals, counters
  <2>2. expected[i] \in Occurrences /\ "DUE" \in Outcomes
    BY <1>0 DEF Outcomes
  <2>3. ledger' \in [Occurrences -> Outcomes] /\ CreatedHasRun'
    BY <1>2, <2>1, <2>2
  <2>4. announced' \in [Occurrences -> Nat]
    BY <1>0, <2>1, BumpTyped
  <2>5. pc' \in [Instances -> Points]
    BY <1>0, <2>1 DEF Points
  <2>6. TypeOK'
    BY <1>0, <2>1, <2>3, <2>4, <2>5 DEF TypeOK
  <2>7. \A j \in Instances : pc'[j] = "created" => pc[j] = "created"
    BY <1>0, <2>1
  <2> QED BY <2>1, <2>3, <2>6, <2>7 DEF RunsBehind
<1>5. ASSUME NEW i \in Instances, CreateRun(i) PROVE RunsBehind'
  <2>1. /\ runs' = [runs EXCEPT ![expected[i]] = @ + 1] /\ pc' = [pc EXCEPT ![i] = "created"]
        /\ UNCHANGED <<def, now, ledger, announced, expected, fired, skips, api, toggles, crashes, faults>>
    BY <1>0, <1>5 DEF CreateRun, Insert, Goto, locals
  <2>2. runs' \in [Occurrences -> Nat]
    BY <1>0, <2>1, BumpTyped
  <2>3. pc' \in [Instances -> Points]
    BY <1>0, <2>1 DEF Points
  <2>4. TypeOK'
    BY <1>0, <2>1, <2>2, <2>3 DEF TypeOK
  <2>5. expected[i] \in Occurrences /\ runs'[expected[i]] > 0 /\ \A o \in Occurrences : runs[o] > 0 => runs'[o] > 0
    BY <1>0, <2>1
  <2>6. \A j \in Instances : pc'[j] = "created" => j = i \/ pc[j] = "created"
    BY <1>0, <2>1
  <2>7. \A j \in Instances : expected[j] \in Occurrences
    BY <1>0
  <2> QED BY <2>1, <2>4, <2>5, <2>6, <2>7 DEF RunsBehind, CreatedHasRun
<1>6. ASSUME NEW i \in Instances, AnnounceCreated(i) PROVE RunsBehind'
  <2>1. /\ pc[i] = "created" /\ Record(expected[i], "CREATED") /\ pc' = [pc EXCEPT ![i] = "skip"]
        /\ skips' = [skips EXCEPT ![i] = Named(i)]
        /\ UNCHANGED <<def, now, runs, announced, expected, fired, api, toggles, crashes, faults>>
    BY <1>6 DEF AnnounceCreated, Goto, counters, Named
  <2>2. expected[i] \in Occurrences /\ "CREATED" \in Outcomes /\ runs[expected[i]] > 0
    BY <1>0, <2>1 DEF Outcomes, RunsBehind
  <2>3. ledger' \in [Occurrences -> Outcomes] /\ CreatedHasRun'
    BY <1>2, <2>1, <2>2
  <2>4. Named(i) \in SUBSET (0 .. MaxNow)
    <3>1. expected[i] \in Nat /\ fired[i] \in Nat /\ fired[i] <= MaxNow
      <4>1. fired[i] \in 0 .. MaxNow
        BY <1>0
      <4> QED BY <1>1, <2>2, <4>1, ScheduleAssumption
    <3>2. CASE expected[i] <= fired[i]
      <4> SUFFICES ASSUME NEW o \in Named(i) PROVE o \in 0 .. MaxNow
        OBVIOUS
      <4>1. o \in Nat /\ o <= fired[i]
        BY <3>1, <3>2, NamedWithin DEF Named
      <4> QED BY <3>1, <4>1, ScheduleAssumption
    <3>3. CASE ~(expected[i] <= fired[i])
      <4>1. skippedCount(expected[i], fired[i]) = 0
        BY <3>1, <3>3 DEF skippedCount
      <4>2. Named(i) = {}
        BY <4>1, ScheduleAssumption DEF Named, skippedOccurrences
      <4> QED BY <4>2
    <3> QED BY <3>2, <3>3
  <2>5. skips' \in [Instances -> SUBSET (0 .. MaxNow)] /\ pc' \in [Instances -> Points]
    BY <1>0, <2>1, <2>4 DEF Points
  <2>6. TypeOK'
    BY <1>0, <2>1, <2>3, <2>5 DEF TypeOK
  <2>7. \A j \in Instances : pc'[j] = "created" => pc[j] = "created"
    BY <1>0, <2>1
  <2> QED BY <2>1, <2>3, <2>6, <2>7 DEF RunsBehind
<1>7. ASSUME NEW i \in Instances, AnnounceSkipped(i) PROVE RunsBehind'
  <2> PICK o \in skips[i] : Record(o, "SKIPPED") /\ skips' = [skips EXCEPT ![i] = @ \ {o}]
    BY <1>7 DEF AnnounceSkipped
  <2>1. UNCHANGED <<def, now, runs, announced, pc, expected, fired, api, toggles, crashes, faults>>
    BY <1>7 DEF AnnounceSkipped, counters
  <2>2. o \in 0 .. MaxNow
    BY <1>0
  <2>3. o \in Occurrences /\ "SKIPPED" \in Outcomes
    BY <2>2, ScheduleAssumption DEF Occurrences, Outcomes
  <2>4. ledger' \in [Occurrences -> Outcomes] /\ CreatedHasRun'
    BY <1>2, <2>1, <2>3
  <2>5. skips' \in [Instances -> SUBSET (0 .. MaxNow)]
    BY <1>0
  <2>6. TypeOK'
    BY <1>0, <2>1, <2>4, <2>5 DEF TypeOK
  <2> QED BY <2>1, <2>4, <2>6 DEF RunsBehind
<1>8. ASSUME NEW o \in Occurrences, StartAttempt(o) PROVE RunsBehind'
  <2>1. /\ Record(o, "CREATED") /\ runs[o] > 0
        /\ UNCHANGED <<def, now, runs, announced, pc, expected, fired, skips, api, toggles, crashes, faults>>
    BY <1>8 DEF StartAttempt, locals, counters
  <2>2. "CREATED" \in Outcomes
    BY DEF Outcomes
  <2>3. ledger' \in [Occurrences -> Outcomes] /\ CreatedHasRun'
    BY <1>2, <2>1, <2>2
  <2>4. TypeOK'
    BY <1>0, <2>1, <2>3 DEF TypeOK
  <2> QED BY <2>1, <2>3, <2>4 DEF RunsBehind
<1>9. CASE ReadDefinition \/ ToggleSchedule \/ Tick \/ UNCHANGED vars
  <2>1. UNCHANGED <<runs, ledger, announced, pc, expected, fired, skips, crashes, faults>>
    BY <1>9 DEF ReadDefinition, ToggleSchedule, Tick, vars, locals, counters
  <2>2. /\ def' \in [next : Occurrences, enabled : BOOLEAN] /\ api' \subseteq [next : Occurrences, enabled : BOOLEAN]
        /\ now' \in 0 .. MaxNow /\ toggles' \in Nat
    <3>1. CASE ReadDefinition
      BY <1>0, <3>1 DEF ReadDefinition
    <3>2. CASE ToggleSchedule
      <4> PICK d \in api, on \in BOOLEAN : def' = [d EXCEPT !.enabled = on]
        BY <3>2 DEF ToggleSchedule
      <4>1. d \in [next : Occurrences, enabled : BOOLEAN]
        BY <1>0
      <4>2. def' \in [next : Occurrences, enabled : BOOLEAN]
        BY <4>1
      <4> QED BY <1>0, <3>2, <4>2 DEF ToggleSchedule, counters
    <3>3. CASE Tick
      BY <1>0, <3>3, ScheduleAssumption DEF Tick, counters
    <3>4. CASE UNCHANGED vars
      BY <1>0, <3>4 DEF vars
    <3> QED BY <1>9, <3>1, <3>2, <3>3, <3>4
  <2>3. TypeOK'
    BY <1>0, <2>1, <2>2 DEF TypeOK
  <2> QED BY <2>1, <2>3 DEF RunsBehind, CreatedHasRun
<1> QED BY <1>3, <1>4, <1>5, <1>6, <1>7, <1>8, <1>9 DEF Next, Scheduler

(* RFC-002 section 14: while no instance dies and no insert fails, CREATED      *)
(* means that there is a run, whatever is toggled; and as long as nothing was   *)
(* toggled the ledger tells of every occurrence, up to the cap on skip events.  *)
(* (A crash between the claim and the announcement loses the occurrence.)     *)
THEOREM LedgerSound == ASSUME MaxCrashes = 0, MaxFaults = 0 PROVE Spec => []LedgerComplete
<1> DEFINE Untoggled == toggles = 0 => ClaimInv /\ LedgerInv /\ GapInv
<1>1. RunsBehind /\ Untoggled => LedgerComplete
  <2> SUFFICES ASSUME ClaimInv, LedgerInv, GapInv PROVE NoSilentGap
    BY DEF LedgerComplete, RunsBehind
  <2> SUFFICES ASSUME \A i \in Instances : pc[i] \in {"idle", "claim"}, NEW o \in Recorded
               PROVE  \/ \A p \in Recorded : p <= o
                      \/ \E p \in Recorded : o < p /\ p - o < 2 * Interval
                      \/ \A k \in 0 .. MaxSkipped - 1 :
                           o >= k * Interval /\ ledger[o - k * Interval] = "SKIPPED"
    BY DEF NoSilentGap
  <2>1. \A i \in Instances : pc[i] \notin Firing /\ pc[i] # "due"
    BY DEF Firing
  <2>2. /\ def.next \in Nat /\ Recorded \subseteq Nat /\ Interval \in Nat \ {0} /\ Occurrences \subseteq Nat
        /\ o \in Nat
    BY LedgerValues
  <2>3. CASE \E x \in Occurrences : o < x /\ x < o + 2 * Interval /\ Covered(x)
    <3> PICK x \in Occurrences : o < x /\ x < o + 2 * Interval /\ Covered(x)
      BY <2>3
    <3>1. CASE x \in Recorded
      <4>1. x - o < 2 * Interval
        BY <2>2
      <4> QED BY <3>1, <4>1
    <3>2. CASE def.next = x
      <4> SUFFICES ASSUME NEW p \in Recorded PROVE p <= o
        OBVIOUS
      <4>1. p + Interval <= x
        BY <3>2 DEF LedgerInv, RecordedBehind
      <4>2. o < p => p - o >= Interval
        BY DEF LedgerInv, OccurrencesSpaced
      <4> QED BY <2>2, <4>1, <4>2
    <3> QED BY <2>1, <3>1, <3>2 DEF Covered
  <2> QED BY <2>1, <2>3 DEF GapInv, NoGap
<1>2. RunsBehind /\ Untoggled /\ [Next]_vars => (RunsBehind /\ Untoggled)'
  <2> SUFFICES ASSUME RunsBehind, Untoggled, [Next]_vars PROVE Untoggled'
    BY RunsBehindStep
  <2>1. CASE ReadDefinition
    <3>1. toggles' # 0
      BY <2>1 DEF ReadDefinition, RunsBehind, TypeOK
    <3> QED BY <3>1
  <2>2. CASE toggles = 0 /\ ~ReadDefinition
    BY <2>2, ClaimStep, LedgerStep, GapStep
  <2>3. CASE toggles # 0 /\ ~ReadDefinition
    <3>1. toggles' = toggles
      BY <2>3 DEF Next, Scheduler, Poll, Claim, ClaimLost, ClaimError, AnnounceDue, CreateRun, AnnounceCreated,
         AnnounceSkipped, EndFire, Crash, Restart, StartAttempt, ToggleSchedule, Tick, vars, counters
    <3> QED BY <2>3, <3>1
  <2> QED BY <2>1, <2>2, <2>3
<1>3. Init => RunsBehind /\ Untoggled
  BY ClaimInit, LedgerInit, GapInit, RunsBehindInit
<1> QED BY <1>1, <1>2, <1>3, PTL DEF Spec

(* ReduceOccurrence: whatever is toggled, raced or lost, no event changes an    *)
(* outcome that is final, in whatever order the events arrive.                *)
THEOREM OutcomeFinalSound == Spec => OutcomeIsFinal
<1> DEFINE LedgerTyped == ledger \in [Occurrences -> Outcomes]
           Final == \A o \in Occurrences : ledger[o] \in {"CREATED", "SKIPPED"} => ledger'[o] = ledger[o]
<1>1. ASSUME LedgerTyped, NEW o, NEW outcome \in Outcomes, Record(o, outcome) PROVE Final /\ LedgerTyped'
  BY <1>1 DEF Record, Reduced
<1>2. LedgerTyped /\ [Next]_vars => LedgerTyped' /\ Final
  <2> SUFFICES ASSUME LedgerTyped, [Next]_vars PROVE LedgerTyped' /\ Final
    OBVIOUS
  <2>1. CASE \E o, outcome : outcome \in Outcomes /\ Record(o, outcome)
    BY <1>1, <2>1
  <2>2. {"DUE", "CREATED", "SKIPPED"} \subseteq Outcomes
    BY DEF Outcomes
  <2>3. CASE \E i \in Instances : AnnounceDue(i) \/ AnnounceCreated(i) \/ AnnounceSkipped(i)
    BY <2>1, <2>2, <2>3 DEF AnnounceDue, AnnounceCreated, AnnounceSkipped
  <2>4. CASE \E o \in Occurrences : StartAttempt(o)
    BY <2>1, <2>2, <2>4 DEF StartAttempt
  <2>5. ASSUME NEW i \in Instances,
               \/ Poll(i) \/ Claim(i) \/ ClaimLost(i) \/ ClaimError(i) \/ CreateRun(i) \/ EndFire(i) \/ Crash(i)
               \/ Restart(i)
        PROVE  UNCHANGED ledger
    BY <2>5 DEF Poll, Claim, ClaimLost, ClaimError, CreateRun, EndFire, Crash, Restart
  <2>6. ReadDefinition \/ ToggleSchedule \/ Tick \/ UNCHANGED vars => UNCHANGED ledger
    BY DEF ReadDefinition, ToggleSchedule, Tick, vars
  <2>7. UNCHANGED ledger => LedgerTyped' /\ Final
    OBVIOUS
  <2> QED BY <2>3, <2>4, <2>5, <2>6, <2>7 DEF Next, Scheduler
<1>3. Init => LedgerTyped
  BY DEF Init, Outcomes
<1>4. LedgerTyped /\ [Next]_vars => [Final]_vars
  BY <1>2
<1> QED BY <1>2, <1>3, <1>4, PTL DEF Spec, OutcomeIsFinal
=============================================================================
