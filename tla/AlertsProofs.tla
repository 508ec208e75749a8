---------------------------- MODULE AlertsProofs ----------------------------
(***************************************************************************)
(* One unresolved alert for a cause, and no more sends of a notification     *)
(* than its attempts, the crashes and the failed statements account for: for *)
(* any number of causes, channels, alerts, attempts and troubles, while one  *)
(* process sweeps and no request of the API outlasts the time between two     *)
(* sweeps (the README says what happens otherwise).                          *)
(***************************************************************************)
EXTENDS Alerts, SequenceTheorems, FiniteSetTheorems, WellFoundedInduction, TLAPS

(* One process runs StartAlertsSweep, and a request ends before its next sweep. *)
OneSweeper == PromptApi /\ \A v, w \in Sweepers : v = w

Troubles == crashes + faults

(* What else has a type: the rows are sequences, a trouble is counted.        *)
RowTypes ==
    /\ alerts \in Seq(AlertRow) /\ notes \in Seq(NotificationRow) /\ sends \in Seq(Nat)
    /\ rules \in [Sweepers -> [Causes -> Rule]] /\ adapters \in [Sweepers -> SUBSET Channels]
    /\ DOMAIN todo = Sweepers /\ DOMAIN cur = Sweepers
    /\ crashes \in Nat /\ faults \in Nat /\ Troubles <= MaxTroubles

(* A copy of an alert row knows whose alert it is, however old it is.         *)
CopyOf(a) == a \in AlertRow /\ a.id \in DOMAIN alerts /\ alerts[a.id].cause = a.cause

ApiCopies == \A a \in api : CopyOf(a)

(* What a pass goes through: causes under a rule, copies of alerts, and the     *)
(* notifications as they are stored.                                         *)
Lists(w) ==
    /\ pc[w] \in {"idle", "list", "down"} => todo[w] = {}
    /\ pass[w] <= 2 => \A c \in todo[w] : c \in Causes /\ rules[w][c] \in Severities
    /\ pass[w] \in 3 .. 4 => \A a \in todo[w] : CopyOf(a)
    /\ pass[w] = 5 => \A n \in todo[w] :
         /\ n.id \in DOMAIN notes /\ notes[n.id] = n
         /\ n.status = "PENDING" \/ (n.status = "FAILED" /\ n.attempts < MaxAttempts)

(* The row a sweeper is about to write. *)
Writes(w) ==
    /\ pc[w] \in {"severity", "create", "request"} => pass[w] <= 2
    /\ pc[w] \in {"sample", "resolve"} => pass[w] \in 3 .. 4
    /\ pc[w] \in {"lookup", "send", "save"} => pass[w] = 5
    /\ pc[w] \in {"severity", "resolve"} => CopyOf(Row(w))
    /\ pc[w] = "severity" => Row(w).status # "RESOLVED" /\ alerts[Row(w).id].status # "RESOLVED"
    /\ pc[w] = "resolve" => Row(w).status = "RESOLVED"
    /\ pc[w] = "create" => Row(w) \in [id : Nat, cause : Causes, status : {"OPEN"}, severity : Severities, by : BOOLEAN]
    /\ pc[w] = "request" => Row(w).id \in DOMAIN alerts

(* No request outlasts the sweep it began before, so while alerts are opened    *)
(* the API holds no copy of one that is resolved.                            *)
HeldUnresolved(w) ==
    pc[w] \notin {"idle", "down"} /\ pass[w] <= 2 => \A a \in api : alerts[a.id].status # "RESOLVED"

(* The alerts of a cause that are unresolved or that an acknowledgement can     *)
(* bring back.                                                               *)
Live(c) == {i \in DOMAIN alerts : /\ alerts[i].cause = c
                                  /\ alerts[i].status # "RESOLVED" \/ \E a \in api : a.id = i}

LiveBounded == \A c \in Causes : Cardinality(Live(c)) <= 1 + faults

(* Where an alert is about to be created, a failed look-up is the reason for    *)
(* any other of its cause.                                                   *)
RoomToCreate(w) == pc[w] = "create" => Cardinality(Live(Row(w).cause)) <= faults

Sweeping(w) == Lists(w) /\ Writes(w) /\ HeldUnresolved(w) /\ RoomToCreate(w)

AlertInv == TypeOK /\ RowTypes /\ ApiCopies /\ LiveBounded /\ \A w \in Sweepers : Sweeping(w)

-----------------------------------------------------------------------------
(* Notifications: every send is paid for by an attempt that is counted in the   *)
(* row, or by a crash or a failed statement.                                 *)

Holds(w, n) == pc[w] \in {"lookup", "send", "save"} /\ Row(w).id = n

Settled(n) ==
    /\ notes[n].status = "PENDING" => notes[n].attempts <= Troubles /\ sends[n] <= Troubles
    /\ notes[n].status = "FAILED" /\ notes[n].attempts < MaxAttempts => sends[n] <= notes[n].attempts + Troubles
    /\ sends[n] <= MaxAttempts + Troubles

(* A notification that is being sent: the count is one ahead of the sends       *)
(* until Send, and the row it will become pays for them all.                  *)
Ahead(w) == IF pc[w] = "save" THEN 0 ELSE 1

InFlight(w, n) ==
    /\ Row(w) \in NotificationRow /\ Row(w).alert \in DOMAIN alerts /\ Row(w).attempts > 0
    /\ sends[n] + Ahead(w) <= Row(w).attempts + Troubles /\ sends[n] + Ahead(w) <= MaxAttempts + Troubles
    /\ notes[n].status = "PENDING" => notes[n].attempts <= Troubles + 1 /\ sends[n] + Ahead(w) <= Troubles + 1
    /\ notes[n].status = "FAILED" => sends[n] + Ahead(w) <= notes[n].attempts + Troubles
    /\ notes[n].status \in {"PENDING", "FAILED"}
    /\ pc[w] = "save" => Row(w).status # "PENDING"

NotesInv ==
    /\ \A n \in DOMAIN notes : (\A w \in Sweepers : ~Holds(w, n)) => Settled(n)
    /\ \A w \in Sweepers : \A n : Holds(w, n) => n \in DOMAIN notes /\ InFlight(w, n)
    /\ \A w \in Sweepers : \A n \in todo[w] : pass[w] = 5 => ~Holds(w, n.id)

-----------------------------------------------------------------------------
(* The numbers of the passes.                                                *)
LEMMA PassNames ==
  /\ Len(Passes) = 5
  /\ \A p \in 1 .. 5 : /\ Passes[p] \in {"openAnnotations", "openMetrics"} <=> p <= 2
                       /\ Passes[p] \in {"resolveAnnotations", "resolveMetrics"} <=> p \in 3 .. 4
                       /\ Passes[p] = "resolveMetrics" <=> p = 4
                       /\ Passes[p] \in {"notify"} <=> p = 5
<1>1. Len(Passes) = 5
  BY DEF Passes
<1>2. /\ Passes[1] = "openAnnotations" /\ Passes[2] = "openMetrics" /\ Passes[3] = "resolveAnnotations"
      /\ Passes[4] = "resolveMetrics" /\ Passes[5] = "notify"
  BY DEF Passes
<1>3. \A p \in 1 .. 5 : p = 1 \/ p = 2 \/ p = 3 \/ p = 4 \/ p = 5
  OBVIOUS
<1> QED BY <1>1, <1>2, <1>3

(* What the rows and the sweepers' points are, in the form the steps use.      *)
LEMMA AlertValues ==
  ASSUME TypeOK, RowTypes
  PROVE  /\ alerts \in Seq(AlertRow) /\ Len(alerts) \in Nat /\ DOMAIN alerts = 1 .. Len(alerts)
         /\ \A i \in DOMAIN alerts : alerts[i] \in AlertRow /\ alerts[i].id = i
         /\ Len(alerts) <= MaxAlerts
         /\ \A w \in Sweepers : pass[w] \in 1 .. 5 /\ pc[w] \in Points
         /\ MaxAlerts \in Nat /\ MaxAttempts \in Nat \ {0} /\ MaxTroubles \in Nat
         /\ crashes \in Nat /\ faults \in Nat /\ Troubles \in Nat /\ Troubles <= MaxTroubles
<1>1. alerts \in Seq(AlertRow) /\ Len(alerts) \in Nat /\ DOMAIN alerts = 1 .. Len(alerts)
  BY LenProperties DEF RowTypes
<1>2. \A i \in DOMAIN alerts : alerts[i] \in AlertRow /\ alerts[i].id = i
  BY DEF TypeOK
<1>3. MaxAlerts \in Nat /\ MaxAttempts \in Nat \ {0} /\ MaxTroubles \in Nat
  BY AlertsAssumption
<1>4. Len(alerts) <= MaxAlerts
  <2>1. CASE Len(alerts) = 0
    BY <1>3, <2>1
  <2>2. CASE Len(alerts) # 0
    <3>1. Len(alerts) \in DOMAIN alerts
      BY <1>1, <2>2
    <3>2. alerts[Len(alerts)].id \in 1 .. MaxAlerts
      BY <1>2, <3>1 DEF AlertRow
    <3> QED BY <1>2, <1>3, <3>1, <3>2
  <2> QED BY <2>1, <2>2
<1>5. \A w \in Sweepers : pass[w] \in 1 .. 5 /\ pc[w] \in Points
  BY PassNames DEF TypeOK
<1>6. crashes \in Nat /\ faults \in Nat /\ Troubles \in Nat /\ Troubles <= MaxTroubles
  BY DEF RowTypes, Troubles
<1> QED BY <1>1, <1>2, <1>3, <1>4, <1>5, <1>6

(* A statement fails at most MaxTroubles times.                              *)
LEMMA DbCounts ==
  ASSUME RowTypes, NEW ok \in BOOLEAN, Db(ok), UNCHANGED crashes
  PROVE  /\ faults' \in Nat /\ crashes' \in Nat /\ Troubles' <= MaxTroubles
         /\ Troubles <= Troubles' /\ faults <= faults' /\ Troubles' \in Nat
         /\ ok => faults' = faults
         /\ ~ok => faults' = faults + 1 /\ Troubles' = Troubles + 1
<1> USE AlertsAssumption DEF RowTypes, Troubles
<1>1. CASE ok
  BY <1>1 DEF Db
<1>2. CASE ~ok
  BY <1>2 DEF Db
<1> QED BY <1>1, <1>2

(* The alerts of a cause are finitely many; fewer of them are no more.         *)
LEMMA LiveFinite ==
  ASSUME TypeOK, RowTypes, NEW c
  PROVE  /\ IsFiniteSet(Live(c)) /\ Cardinality(Live(c)) \in Nat
         /\ \A S \in SUBSET Live(c) : IsFiniteSet(S) /\ Cardinality(S) \in Nat /\ Cardinality(S) <= Cardinality(Live(c))
<1>1. DOMAIN alerts = 1 .. Len(alerts) /\ Len(alerts) \in Nat
  BY AlertValues
<1>2. IsFiniteSet(1 .. Len(alerts))
  BY <1>1, FS_Interval
<1>3. Live(c) \subseteq 1 .. Len(alerts)
  BY <1>1 DEF Live
<1>4. IsFiniteSet(Live(c)) /\ Cardinality(Live(c)) \in Nat
  BY <1>2, <1>3, FS_Subset, FS_CardinalityType
<1>5. \A S \in SUBSET Live(c) : IsFiniteSet(S) /\ Cardinality(S) \in Nat /\ Cardinality(S) <= Cardinality(Live(c))
  BY <1>4, FS_Subset, FS_CardinalityType
<1> QED BY <1>4, <1>5

(* A statement that writes a whole row from a copy: only that row changes, and  *)
(* it keeps its cause.                                                       *)
LEMMA SaveKeeps ==
  ASSUME TypeOK, RowTypes, NEW row, CopyOf(row), Save(row)
  PROVE  /\ alerts' \in Seq(AlertRow) /\ DOMAIN alerts' = DOMAIN alerts /\ Len(alerts') = Len(alerts)
         /\ \A i \in DOMAIN alerts : /\ alerts'[i] \in AlertRow /\ alerts'[i].id = i
                                     /\ alerts'[i].cause = alerts[i].cause
                                     /\ alerts'[i] = IF i = row.id THEN row ELSE alerts[i]
         /\ \A a : CopyOf(a) => CopyOf(a)'
<1>1. row \in AlertRow /\ row.id \in 1 .. Len(alerts) /\ alerts[row.id].cause = row.cause
  BY AlertValues DEF CopyOf
<1>2. /\ alerts' \in Seq(AlertRow) /\ Len(alerts') = Len(alerts)
      /\ \A i \in 1 .. Len(alerts) : alerts'[i] = IF i = row.id THEN row ELSE alerts[i]
  BY <1>1, AlertValues, ExceptSeq DEF Save
<1>3. DOMAIN alerts' = 1 .. Len(alerts')
  BY <1>2, LenProperties
<1>4. DOMAIN alerts' = DOMAIN alerts
  BY <1>2, <1>3, AlertValues
<1>5. \A i \in DOMAIN alerts : /\ alerts'[i] \in AlertRow /\ alerts'[i].id = i /\ alerts'[i].cause = alerts[i].cause
                               /\ alerts'[i] = IF i = row.id THEN row ELSE alerts[i]
  BY <1>1, <1>2, AlertValues
<1>6. \A a : CopyOf(a) => CopyOf(a)'
  BY <1>4, <1>5 DEF CopyOf
<1> QED BY <1>2, <1>4, <1>5, <1>6

(* A new alert: the others are as they were.                                 *)
LEMMA AppendKeeps ==
  ASSUME TypeOK, RowTypes, NEW row \in AlertRow, row.id = Len(alerts) + 1, alerts' = Append(alerts, row)
  PROVE  /\ alerts' \in Seq(AlertRow) /\ DOMAIN alerts' = DOMAIN alerts \cup {row.id} /\ row.id \notin DOMAIN alerts
         /\ alerts'[row.id] = row
         /\ \A i \in DOMAIN alerts : alerts'[i] = alerts[i]
         /\ \A i \in DOMAIN alerts' : alerts'[i] \in AlertRow /\ alerts'[i].id = i
         /\ \A a : CopyOf(a) => CopyOf(a)'
<1>1. /\ alerts' \in Seq(AlertRow) /\ Len(alerts') = Len(alerts) + 1
      /\ \A i \in 1 .. Len(alerts) : alerts'[i] = alerts[i]
      /\ alerts'[Len(alerts) + 1] = row
  BY AlertValues, AppendProperties
<1>2. DOMAIN alerts' = 1 .. Len(alerts')
  BY <1>1, LenProperties
<1>3. DOMAIN alerts' = DOMAIN alerts \cup {row.id} /\ row.id \notin DOMAIN alerts
  BY <1>1, <1>2, AlertValues
<1>4. \A i \in DOMAIN alerts : alerts'[i] = alerts[i]
  BY <1>1, AlertValues
<1>5. \A i \in DOMAIN alerts' : alerts'[i] \in AlertRow /\ alerts'[i].id = i
  BY <1>1, <1>3, <1>4, AlertValues
<1>6. \A a : CopyOf(a) => CopyOf(a)'
  BY <1>3, <1>4 DEF CopyOf
<1> QED BY <1>1, <1>3, <1>4, <1>5, <1>6

(* The row a sweeper takes up.                                               *)
LEMMA HoldRow ==
  ASSUME RowTypes, NEW w \in Sweepers, NEW row, Hold(w, row)
  PROVE  Row(w)' = row /\ DOMAIN cur' = Sweepers
BY DEF Hold, Row, RowTypes

(* A step of the one sweeper that writes no row: only what it keeps itself can   *)
(* be disturbed.                                                             *)
LEMMA LocalStep ==
  ASSUME OneSweeper, AlertInv, NEW w \in Sweepers,
         UNCHANGED <<alerts, notes, waiting, sends, api, cond, rule>>,
         pc' \in [Sweepers -> Points], pass' \in [Sweepers -> 1 .. 5],
         rules' \in [Sweepers -> [Causes -> Rule]], adapters' \in [Sweepers -> SUBSET Channels],
         DOMAIN todo' = Sweepers, DOMAIN cur' = Sweepers,
         crashes' \in Nat, faults' \in Nat, Troubles' <= MaxTroubles, faults <= faults',
         Sweeping(w)'
  PROVE  AlertInv'
<1>1. TypeOK'
  BY PassNames DEF AlertInv, TypeOK
<1>2. RowTypes'
  BY DEF AlertInv, RowTypes
<1>3. ApiCopies'
  BY DEF AlertInv, ApiCopies, CopyOf
<1>4. LiveBounded'
  <2> SUFFICES ASSUME NEW c \in Causes PROVE Cardinality(Live(c)') <= 1 + faults'
    BY DEF LiveBounded
  <2>1. Live(c)' = Live(c)
    BY DEF Live
  <2>2. Cardinality(Live(c)) <= 1 + faults /\ Cardinality(Live(c)) \in Nat
    BY LiveFinite DEF AlertInv, LiveBounded
  <2> QED BY <2>1, <2>2 DEF AlertInv, RowTypes
<1>5. \A v \in Sweepers : Sweeping(v)'
  BY DEF OneSweeper
<1> QED BY <1>1, <1>2, <1>3, <1>4, <1>5 DEF AlertInv

(* The types of a step of the sweeper.                                       *)
LEMMA Stepped ==
  ASSUME AlertInv, NEW w \in Sweepers, NEW point \in Points, Goto(w, point)
  PROVE  pc'[w] = point /\ pc' \in [Sweepers -> Points]
BY DEF AlertInv, TypeOK, Goto

(* StartAlertsSweep begins with no request under way.                        *)
LEMMA AlertStartSweep == ASSUME OneSweeper, AlertInv, NEW w \in Sweepers, StartSweep(w) PROVE AlertInv'
<1>1. /\ pc[w] = "idle" /\ api = {} /\ pass' = [pass EXCEPT ![w] = 1] /\ Goto(w, "list")
      /\ UNCHANGED <<environment, todo, cur, rules, seen, adapters, alerts, notes, waiting, sends, crashes, faults>>
  BY DEF StartSweep, OneSweeper
<1>2. pc'[w] = "list" /\ pc' \in [Sweepers -> Points]
  BY <1>1, Stepped DEF Points
<1>3. pass'[w] = 1 /\ pass' \in [Sweepers -> 1 .. 5]
  BY <1>1, PassNames DEF AlertInv, TypeOK
<1>4. todo[w] = {}
  BY <1>1 DEF AlertInv, Sweeping, Lists
<1>5. Sweeping(w)'
  BY <1>1, <1>2, <1>3, <1>4 DEF Sweeping, Lists, Writes, HeldUnresolved, RoomToCreate, environment
<1>6. UNCHANGED <<alerts, notes, waiting, sends, api, cond, rule, rules, adapters, todo, cur, crashes, faults>>
  BY <1>1 DEF environment
<1>7. Troubles' <= MaxTroubles
  BY <1>6 DEF AlertInv, RowTypes, Troubles
<1> QED BY <1>2, <1>3, <1>5, <1>6, <1>7, LocalStep DEF AlertInv, RowTypes

(* The end of a pass: nothing is left to go through.                         *)
LEMMA AlertEndPass == ASSUME OneSweeper, AlertInv, NEW w \in Sweepers, EndPass(w) PROVE AlertInv'
<1>1. /\ pc[w] = "each" /\ todo[w] = {}
      /\ \/ Goto(w, "idle") /\ pass' = pass
         \/ pass[w] # 5 /\ Goto(w, "list") /\ pass' = [pass EXCEPT ![w] = @ + 1]
      /\ rules' = [rules EXCEPT ![w] = NoRule]
      /\ UNCHANGED <<environment, todo, cur, adapters, alerts, notes, waiting, sends, crashes, faults>>
  BY PassNames DEF EndPass
<1>2. /\ (pc'[w] = "idle" /\ pass'[w] = pass[w]) \/ (pc'[w] = "list" /\ pass'[w] = pass[w] + 1)
      /\ pc' \in [Sweepers -> Points] /\ pass' \in [Sweepers -> 1 .. 5]
  <2>1. CASE Goto(w, "idle") /\ pass' = pass
    BY <2>1, Stepped, PassNames DEF Points, AlertInv, TypeOK
  <2>2. CASE pass[w] # 5 /\ Goto(w, "list") /\ pass' = [pass EXCEPT ![w] = @ + 1]
    <3>1. pass \in [Sweepers -> 1 .. 5]
      BY PassNames DEF AlertInv, TypeOK
    <3>2. pass[w] + 1 \in 1 .. 5
      BY <2>2, <3>1
    <3> QED BY <2>2, <3>1, <3>2, Stepped DEF Points
  <2> QED BY <1>1, <2>1, <2>2
<1>3. UNCHANGED <<alerts, notes, waiting, sends, api, cond, rule, adapters, todo, cur, crashes, faults>>
  BY <1>1 DEF environment
<1>4. HeldUnresolved(w) /\ pass[w] \in 1 .. 5
  BY AlertValues DEF AlertInv, Sweeping
<1>5. Sweeping(w)'
  BY <1>1, <1>2, <1>3, <1>4 DEF Sweeping, Lists, Writes, HeldUnresolved, RoomToCreate
<1>6. rules' \in [Sweepers -> [Causes -> Rule]]
  <2>1. NoRule \in [Causes -> Rule]
    BY DEF NoRule, Rule
  <2> QED BY <1>1, <2>1 DEF AlertInv, RowTypes
<1>7. Troubles' <= MaxTroubles
  BY <1>3 DEF AlertInv, RowTypes, Troubles
<1>8. /\ adapters' \in [Sweepers -> SUBSET Channels] /\ DOMAIN todo' = Sweepers /\ DOMAIN cur' = Sweepers
      /\ crashes' \in Nat /\ faults' \in Nat /\ faults <= faults'
  BY <1>3 DEF AlertInv, RowTypes
<1>9. pc' \in [Sweepers -> Points] /\ pass' \in [Sweepers -> 1 .. 5]
  BY <1>2
<1> QED BY <1>3, <1>5, <1>6, <1>7, <1>8, <1>9, LocalStep

(* The query a pass starts with.                                             *)
LEMMA ListedRight ==
  ASSUME AlertInv, NEW w \in Sweepers
  PROVE  /\ pass[w] <= 2 => \A c \in Listed(w) : c \in Causes /\ rule[c] \in Severities
         /\ pass[w] \in 3 .. 4 => \A a \in Listed(w) : CopyOf(a)
         /\ pass[w] = 5 => \A n \in Listed(w) :
              /\ n.id \in DOMAIN notes /\ notes[n.id] = n
              /\ n.status = "PENDING" \/ (n.status = "FAILED" /\ n.attempts < MaxAttempts)
<1>0. TypeOK /\ RowTypes
  BY DEF AlertInv
<1>1. pass[w] = 1 \/ pass[w] = 2 \/ pass[w] = 3 \/ pass[w] = 4 \/ pass[w] = 5
  BY <1>0, AlertValues
<1>2. /\ Passes[1] = "openAnnotations" /\ Passes[2] = "openMetrics" /\ Passes[3] = "resolveAnnotations"
      /\ Passes[4] = "resolveMetrics" /\ Passes[5] = "notify"
  BY DEF Passes
<1>3. \A a \in Resolvable : CopyOf(a)
  <2> SUFFICES ASSUME NEW a \in Resolvable PROVE CopyOf(a)
    OBVIOUS
  <2>1. PICK i \in DOMAIN alerts : a = alerts[i]
    BY DEF Resolvable, Unresolved, Rows
  <2> QED BY <1>0, <2>1, AlertValues DEF CopyOf
<1>4. \A c \in Causes : rule[c] # "OFF" => rule[c] \in Severities
  BY <1>0 DEF TypeOK, Rule
<1>5. CASE pass[w] = 1 \/ pass[w] = 2
  <2>1. Listed(w) \in {{c \in Annotations : cond[c] = "firing" /\ rule[c] # "OFF"},
                       {c \in Metrics : cond[c] = "firing" /\ rule[c] # "OFF"}}
    BY <1>2, <1>5 DEF Listed
  <2>2. \A c \in Listed(w) : c \in Causes /\ rule[c] # "OFF"
    BY <2>1 DEF Causes
  <2> QED BY <1>4, <1>5, <2>2
<1>6. CASE pass[w] = 3 \/ pass[w] = 4
  <2>1. Listed(w) \subseteq Resolvable
    BY <1>2, <1>6 DEF Listed
  <2> QED BY <1>3, <1>6, <2>1
<1>7. CASE pass[w] = 5
  <2>1. Listed(w) = {n \in Rows(notes) : Sendable(n)}
    BY <1>2, <1>7 DEF Listed
  <2> SUFFICES ASSUME NEW n \in Rows(notes), Sendable(n)
               PROVE  /\ n.id \in DOMAIN notes /\ notes[n.id] = n
                      /\ n.status = "PENDING" \/ (n.status = "FAILED" /\ n.attempts < MaxAttempts)
    BY <1>7, <2>1
  <2>2. PICK i \in DOMAIN notes : n = notes[i]
    BY DEF Rows
  <2>3. n.id = i
    BY <1>0, <2>2 DEF TypeOK
  <2> QED BY <2>2, <2>3 DEF Sendable
<1> QED BY <1>1, <1>5, <1>6, <1>7

(* The query of a pass, with the rules as they are then.                      *)
LEMMA AlertList == ASSUME OneSweeper, AlertInv, NEW w \in Sweepers, List(w) PROVE AlertInv'
<1> PICK ok \in BOOLEAN :
      /\ Db(ok) /\ todo' = [todo EXCEPT ![w] = IF ok THEN Listed(w) ELSE {}]
      /\ Goto(w, IF ok /\ Passes[pass[w]] = "resolveMetrics" /\ Listed(w) # {} THEN "sample" ELSE "each")
  BY DEF List
<1>0. TypeOK /\ RowTypes /\ Sweeping(w)
  BY DEF AlertInv
<1>1. /\ pc[w] = "list" /\ rules' = [rules EXCEPT ![w] = rule]
      /\ UNCHANGED <<environment, pass, cur, seen, adapters, alerts, notes, waiting, sends, crashes>>
  BY DEF List
<1>2. /\ pc'[w] \in {"sample", "each"} /\ (pc'[w] = "sample" => pass[w] = 4) /\ pc' \in [Sweepers -> Points]
  <2>1. pass[w] \in 1 .. 5
    BY <1>0, AlertValues
  <2>2. CASE ok /\ Passes[pass[w]] = "resolveMetrics" /\ Listed(w) # {}
    BY <2>1, <2>2, Stepped, PassNames DEF Points
  <2>3. CASE ~(ok /\ Passes[pass[w]] = "resolveMetrics" /\ Listed(w) # {})
    BY <2>3, Stepped DEF Points
  <2> QED BY <2>2, <2>3
<1>3. todo'[w] = (IF ok THEN Listed(w) ELSE {}) /\ DOMAIN todo' = Sweepers
  BY <1>0 DEF RowTypes
<1>4. rules'[w] = rule /\ rules' \in [Sweepers -> [Causes -> Rule]]
  BY <1>0, <1>1 DEF RowTypes, TypeOK
<1>5. faults' \in Nat /\ crashes' \in Nat /\ Troubles' <= MaxTroubles /\ faults <= faults'
  BY <1>0, <1>1, DbCounts
<1>6. UNCHANGED <<alerts, notes, waiting, sends, api, cond, rule, adapters, pass, cur>>
  BY <1>1 DEF environment
<1>7. Lists(w)'
  <2>1. \A a : CopyOf(a)' <=> CopyOf(a)
    BY <1>6 DEF CopyOf
  <2> QED BY <1>2, <1>3, <1>4, <1>6, <2>1, ListedRight DEF Lists
<1>8. Writes(w)' /\ RoomToCreate(w)'
  BY <1>2, <1>6 DEF Writes, RoomToCreate
<1>9. HeldUnresolved(w)'
  BY <1>0, <1>1, <1>2, <1>6 DEF Sweeping, HeldUnresolved
<1>10. pass' \in [Sweepers -> 1 .. 5]
  BY <1>0, <1>6, PassNames DEF TypeOK
<1> QED BY <1>0, <1>2, <1>3, <1>4, <1>5, <1>6, <1>7, <1>8, <1>9, <1>10, LocalStep DEF Sweeping, RowTypes

(* A set of natural numbers has a least one.                                 *)
LEMMA LeastOf == ASSUME NEW S \in SUBSET Nat, S # {} PROVE \E m \in S : \A k \in S : m <= k
<1> DEFINE R == OpToRel(<, Nat)
<1>1. IsWellFoundedOn(R, Nat)
  BY NatLessThanWellFounded
<1>2. \A k, m \in Nat : k < m => <<k, m>> \in R
  BY DEF OpToRel
<1> HIDE DEF R
<1>3. \E m \in S : \A k \in S : ~(<<k, m>> \in R)
  BY <1>1, WFMin
<1> PICK m \in S : \A k \in S : ~(<<k, m>> \in R)
  BY <1>3
<1> SUFFICES ASSUME NEW k \in S PROVE m <= k
  OBVIOUS
<1>4. k \in Nat /\ m \in Nat /\ ~(<<k, m>> \in R)
  OBVIOUS
<1>5. ~(k < m)
  BY <1>2, <1>4
<1> QED BY <1>4, <1>5

(* A cause that is looked up: its alert is the oldest that is unresolved, and   *)
(* while alerts are opened all that could come back are.                      *)
LEMMA LookUp ==
  ASSUME AlertInv, NEW w \in Sweepers, pc[w] = "each", pass[w] <= 2, NEW c \in Causes
  PROVE  /\ Existing(c) = {} => Live(c) = {}
         /\ Existing(c) # {} => /\ Oldest(Existing(c)) \in Existing(c)
                                /\ CopyOf(Oldest(Existing(c)))
                                /\ Oldest(Existing(c)).status # "RESOLVED"
                                /\ alerts[Oldest(Existing(c)).id] = Oldest(Existing(c))
<1>0. TypeOK /\ RowTypes /\ Sweeping(w) /\ HeldUnresolved(w)
  BY DEF AlertInv, Sweeping
<1>1. \A a \in Existing(c) : /\ a.id \in DOMAIN alerts /\ alerts[a.id] = a /\ a.status # "RESOLVED" /\ a.cause = c
                             /\ CopyOf(a)
  <2> SUFFICES ASSUME NEW a \in Existing(c)
               PROVE  /\ a.id \in DOMAIN alerts /\ alerts[a.id] = a /\ a.status # "RESOLVED" /\ a.cause = c
                      /\ CopyOf(a)
    OBVIOUS
  <2>1. PICK i \in DOMAIN alerts : a = alerts[i] /\ a.status # "RESOLVED" /\ a.cause = c
    BY DEF Existing, Unresolved, Rows
  <2> QED BY <1>0, <2>1, AlertValues DEF CopyOf
<1>2. ASSUME Existing(c) = {} PROVE Live(c) = {}
  <2> SUFFICES ASSUME NEW i \in Live(c) PROVE FALSE
    OBVIOUS
  <2>1. i \in DOMAIN alerts /\ alerts[i].cause = c
    BY DEF Live
  <2>2. alerts[i].status # "RESOLVED"
    BY <1>0 DEF Live, HeldUnresolved
  <2>3. alerts[i] \in Existing(c)
    BY <2>1, <2>2 DEF Existing, Unresolved, Rows
  <2> QED BY <1>2, <2>3
<1>3. ASSUME Existing(c) # {} PROVE Oldest(Existing(c)) \in Existing(c)
  <2> DEFINE ids == {a.id : a \in Existing(c)}
  <2>1. ids # {} /\ ids \subseteq Nat
    BY <1>0, <1>1, <1>3, AlertValues
  <2>2. PICK m \in ids : \A k \in ids : m <= k
    BY <2>1, LeastOf
  <2>3. PICK a \in Existing(c) : a.id = m
    BY <2>2
  <2>4. \A b \in Existing(c) : a.id <= b.id
    BY <2>2, <2>3
  <2> QED BY <2>3, <2>4 DEF Oldest
<1> QED BY <1>1, <1>2, <1>3

(* The look-up of a cause's alert.                                           *)
LEMMA AlertOpenEach == ASSUME OneSweeper, AlertInv, NEW w \in Sweepers, OpenEach(w) PROVE AlertInv'
<1> PICK c \in todo[w], ok \in BOOLEAN :
      /\ Db(ok) /\ todo' = [todo EXCEPT ![w] = @ \ {c}]
      /\ \/ /\ ok /\ Existing(c) # {}
            /\ IF Oldest(Existing(c)).severity = rules[w][c] THEN Goto(w, "each") /\ UNCHANGED cur
               ELSE Goto(w, "severity") /\ Hold(w, [Oldest(Existing(c)) EXCEPT !.severity = rules[w][c]])
         \/ /\ ~ok \/ Existing(c) = {}
            /\ Goto(w, "create")
            /\ Hold(w, [id |-> Len(alerts) + 1, cause |-> c, status |-> "OPEN", severity |-> rules[w][c], by |-> FALSE])
  BY DEF OpenEach
<1>0. TypeOK /\ RowTypes /\ Sweeping(w)
  BY DEF AlertInv
<1>1. /\ pc[w] = "each" /\ pass[w] <= 2 /\ pass[w] \in 1 .. 5
      /\ UNCHANGED <<environment, pass, rules, seen, adapters, alerts, notes, waiting, sends, crashes>>
  <2>1. pass[w] \in 1 .. 5
    BY <1>0, AlertValues
  <2>2. Passes[pass[w]] \in {"openAnnotations", "openMetrics"}
    BY DEF OpenEach, In
  <2> QED BY <2>1, <2>2, PassNames DEF OpenEach, In
<1>2. c \in Causes /\ rules[w][c] \in Severities
  BY <1>0, <1>1 DEF Sweeping, Lists
<1>3. faults' \in Nat /\ crashes' \in Nat /\ Troubles' <= MaxTroubles /\ faults <= faults' /\ (~ok => faults' = faults + 1)
  BY <1>0, <1>1, DbCounts
<1>4. UNCHANGED <<alerts, notes, waiting, sends, api, cond, rule, adapters, pass, rules, crashes>>
  BY <1>1 DEF environment
<1>5. todo'[w] = todo[w] \ {c} /\ DOMAIN todo' = Sweepers
  BY <1>0 DEF RowTypes
<1>6. HeldUnresolved(w)' /\ (pc'[w] \notin {"idle", "list", "down"} => Lists(w)')
  BY <1>0, <1>1, <1>4, <1>5 DEF Sweeping, HeldUnresolved, Lists
<1>7. \A a : CopyOf(a)' <=> CopyOf(a)
  BY <1>4 DEF CopyOf
<1>8. \A x : Live(x)' = Live(x)
  BY <1>4 DEF Live
<1>9. pass' \in [Sweepers -> 1 .. 5]
  BY <1>0, <1>4, PassNames DEF TypeOK
<1>10. ASSUME pc' \in [Sweepers -> Points], DOMAIN cur' = Sweepers, Sweeping(w)'
       PROVE  AlertInv'
  BY <1>0, <1>3, <1>4, <1>5, <1>9, <1>10, LocalStep DEF RowTypes
<1>11. CASE Goto(w, "each") /\ UNCHANGED cur
  <2>1. pc'[w] = "each" /\ pc' \in [Sweepers -> Points]
    BY <1>11, Stepped DEF Points
  <2>2. Sweeping(w)'
    BY <1>6, <2>1 DEF Sweeping, Writes, RoomToCreate
  <2> QED BY <1>0, <1>10, <1>11, <2>1, <2>2 DEF RowTypes
<1>12. CASE /\ ok /\ Existing(c) # {} /\ Goto(w, "severity")
            /\ Hold(w, [Oldest(Existing(c)) EXCEPT !.severity = rules[w][c]])
  <2> DEFINE old == Oldest(Existing(c))
             row == [old EXCEPT !.severity = rules[w][c]]
  <2>1. pc'[w] = "severity" /\ pc' \in [Sweepers -> Points]
    BY <1>12, Stepped DEF Points
  <2>2. CopyOf(old) /\ old.status # "RESOLVED" /\ alerts[old.id] = old
    BY <1>1, <1>2, <1>12, LookUp
  <2>3. Row(w)' = row /\ DOMAIN cur' = Sweepers
    BY <1>0, <1>12, HoldRow
  <2>4. CopyOf(row) /\ row.status # "RESOLVED" /\ alerts[row.id].status # "RESOLVED"
    <3> HIDE DEF old
    <3>1. row \in AlertRow /\ row.id = old.id /\ row.cause = old.cause /\ row.status = old.status
      BY <1>2, <2>2 DEF AlertRow, CopyOf
    <3> QED BY <2>2, <3>1 DEF CopyOf
  <2>5. Writes(w)' /\ RoomToCreate(w)'
    BY <1>1, <1>4, <1>7, <2>1, <2>3, <2>4 DEF Writes, RoomToCreate
  <2>6. Sweeping(w)'
    BY <1>6, <2>1, <2>5 DEF Sweeping
  <2> QED BY <1>10, <2>1, <2>3, <2>6
<1>13. CASE /\ ~ok \/ Existing(c) = {}
            /\ Goto(w, "create")
            /\ Hold(w, [id |-> Len(alerts) + 1, cause |-> c, status |-> "OPEN", severity |-> rules[w][c], by |-> FALSE])
  <2> DEFINE row == [id |-> Len(alerts) + 1, cause |-> c, status |-> "OPEN", severity |-> rules[w][c], by |-> FALSE]
  <2>1. pc'[w] = "create" /\ pc' \in [Sweepers -> Points]
    BY <1>13, Stepped DEF Points
  <2>2. Row(w)' = row /\ DOMAIN cur' = Sweepers
    BY <1>0, <1>13, HoldRow
  <2>3. row \in [id : Nat, cause : Causes, status : {"OPEN"}, severity : Severities, by : BOOLEAN] /\ row.cause = c
    BY <1>0, <1>2, AlertValues
  <2>4. Cardinality(Live(c)) <= faults'
    <3>1. CASE ok
      <4>1. Live(c) = {}
        BY <1>1, <1>2, <1>13, <3>1, LookUp
      <4>2. Cardinality(Live(c)) = 0
        BY <4>1, FS_EmptySet
      <4> QED BY <1>3, <4>2
    <3>2. CASE ~ok
      <4>1. Cardinality(Live(c)) <= 1 + faults
        BY <1>2 DEF AlertInv, LiveBounded
      <4>2. Cardinality(Live(c)) \in Nat /\ faults \in Nat
        BY <1>0, LiveFinite DEF RowTypes
      <4> QED BY <1>3, <3>2, <4>1, <4>2
    <3> QED BY <3>1, <3>2
  <2> HIDE DEF row
  <2>5. Writes(w)'
    BY <1>1, <1>4, <2>1, <2>2, <2>3 DEF Writes
  <2>6. RoomToCreate(w)'
    BY <1>8, <2>2, <2>3, <2>4 DEF RoomToCreate
  <2>7. Sweeping(w)'
    BY <1>6, <2>1, <2>5, <2>6 DEF Sweeping
  <2> QED BY <1>10, <2>1, <2>2, <2>7
<1> QED BY <1>11, <1>12, <1>13

(* What a sweeper goes on from after a write: the next of its list.           *)
LEMMA AlertReadSamples == ASSUME OneSweeper, AlertInv, NEW w \in Sweepers, ReadSamples(w) PROVE AlertInv'
<1> PICK ok \in BOOLEAN : Db(ok)
  BY DEF ReadSamples
<1>0. TypeOK /\ RowTypes /\ Sweeping(w)
  BY DEF AlertInv
<1>1. /\ pc[w] = "sample" /\ Goto(w, "each")
      /\ UNCHANGED <<environment, pass, todo, cur, rules, adapters, alerts, notes, waiting, sends, crashes>>
  BY DEF ReadSamples
<1>2. pc'[w] = "each" /\ pc' \in [Sweepers -> Points]
  BY <1>1, Stepped DEF Points
<1>3. faults' \in Nat /\ crashes' \in Nat /\ Troubles' <= MaxTroubles /\ faults <= faults'
  BY <1>0, <1>1, DbCounts
<1>4. UNCHANGED <<alerts, notes, waiting, sends, api, cond, rule, adapters, pass, rules, todo, cur, crashes>>
  BY <1>1 DEF environment
<1>5. Sweeping(w)'
  <2>1. \A a : CopyOf(a)' <=> CopyOf(a)
    BY <1>4 DEF CopyOf
  <2> QED BY <1>0, <1>1, <1>2, <1>4, <2>1 DEF Sweeping, Lists, Writes, HeldUnresolved, RoomToCreate
<1>6. pass' \in [Sweepers -> 1 .. 5]
  BY <1>0, <1>4, PassNames DEF TypeOK
<1> QED BY <1>0, <1>2, <1>3, <1>4, <1>5, <1>6, LocalStep DEF RowTypes

(* A copy whose cause is gone is going to be saved as resolved.               *)
LEMMA AlertResolveEach == ASSUME OneSweeper, AlertInv, NEW w \in Sweepers, ResolveEach(w) PROVE AlertInv'
<1> PICK a \in todo[w], ok \in BOOLEAN :
      /\ Db(ok) /\ todo' = [todo EXCEPT ![w] = @ \ {a}]
      /\ IF ok /\ Cleared(w, a) THEN Goto(w, "resolve") /\ Hold(w, [a EXCEPT !.status = "RESOLVED"])
                                ELSE Goto(w, "each") /\ UNCHANGED cur
  BY DEF ResolveEach
<1>0. TypeOK /\ RowTypes /\ Sweeping(w)
  BY DEF AlertInv
<1>1. /\ pc[w] = "each" /\ pass[w] \in 3 .. 4 /\ pass[w] \in 1 .. 5
      /\ UNCHANGED <<environment, pass, rules, seen, adapters, alerts, notes, waiting, sends, crashes>>
  <2>1. pass[w] \in 1 .. 5
    BY <1>0, AlertValues
  <2>2. Passes[pass[w]] \in {"resolveAnnotations", "resolveMetrics"}
    BY DEF ResolveEach, In
  <2> QED BY <2>1, <2>2, PassNames DEF ResolveEach, In
<1>2. CopyOf(a)
  BY <1>0, <1>1 DEF Sweeping, Lists
<1>3. faults' \in Nat /\ crashes' \in Nat /\ Troubles' <= MaxTroubles /\ faults <= faults'
  BY <1>0, <1>1, DbCounts
<1>4. UNCHANGED <<alerts, notes, waiting, sends, api, cond, rule, adapters, pass, rules, crashes>>
  BY <1>1 DEF environment
<1>5. todo'[w] = todo[w] \ {a} /\ DOMAIN todo' = Sweepers
  BY <1>0 DEF RowTypes
<1>6. \A x : CopyOf(x)' <=> CopyOf(x)
  BY <1>4 DEF CopyOf
<1>7. HeldUnresolved(w)' /\ (pc'[w] \notin {"idle", "list", "down"} => Lists(w)')
  BY <1>0, <1>1, <1>4, <1>5, <1>6 DEF Sweeping, HeldUnresolved, Lists
<1>8. pass' \in [Sweepers -> 1 .. 5]
  BY <1>0, <1>4, PassNames DEF TypeOK
<1>9. ASSUME pc' \in [Sweepers -> Points], DOMAIN cur' = Sweepers, Sweeping(w)'
      PROVE  AlertInv'
  BY <1>0, <1>3, <1>4, <1>5, <1>8, <1>9, LocalStep DEF RowTypes
<1>10. CASE Goto(w, "each") /\ UNCHANGED cur
  <2>1. pc'[w] = "each" /\ pc' \in [Sweepers -> Points]
    BY <1>10, Stepped DEF Points
  <2>2. Sweeping(w)'
    BY <1>7, <2>1 DEF Sweeping, Writes, RoomToCreate
  <2> QED BY <1>0, <1>9, <1>10, <2>1, <2>2 DEF RowTypes
<1>11. CASE Goto(w, "resolve") /\ Hold(w, [a EXCEPT !.status = "RESOLVED"])
  <2> DEFINE row == [a EXCEPT !.status = "RESOLVED"]
  <2>1. pc'[w] = "resolve" /\ pc' \in [Sweepers -> Points]
    BY <1>11, Stepped DEF Points
  <2>2. Row(w)' = row /\ DOMAIN cur' = Sweepers
    BY <1>0, <1>11, HoldRow
  <2>3. CopyOf(row) /\ row.status = "RESOLVED"
    <3>1. row \in AlertRow /\ row.id = a.id /\ row.cause = a.cause /\ row.status = "RESOLVED"
      BY <1>2 DEF AlertRow, CopyOf
    <3> QED BY <1>2, <3>1 DEF CopyOf
  <2> HIDE DEF row
  <2>4. Writes(w)' /\ RoomToCreate(w)'
    BY <1>1, <1>4, <1>6, <2>1, <2>2, <2>3 DEF Writes, RoomToCreate
  <2>5. Sweeping(w)'
    BY <1>7, <2>1, <2>4 DEF Sweeping
  <2> QED BY <1>9, <2>1, <2>2, <2>5
<1> QED BY <1>10, <1>11

(* Types after a step that writes an alert.                                  *)
LEMMA WriteTypes ==
  ASSUME AlertInv, UNCHANGED <<notes, waiting, sends, cond, rule, pass, rules, adapters>>,
         alerts' \in Seq(AlertRow), \A i \in DOMAIN alerts' : alerts'[i] \in AlertRow /\ alerts'[i].id = i,
         DOMAIN alerts \subseteq DOMAIN alerts', api' \subseteq api,
         pc' \in [Sweepers -> Points], DOMAIN todo' = Sweepers, DOMAIN cur' = Sweepers,
         crashes' \in Nat, faults' \in Nat, Troubles' <= MaxTroubles
  PROVE  TypeOK' /\ RowTypes'
<1>1. TypeOK'
  BY DEF AlertInv, TypeOK
<1>2. RowTypes'
  BY DEF AlertInv, RowTypes
<1> QED BY <1>1, <1>2

(* A saved copy of an alert that could come back, or of one that is resolved,   *)
(* adds none.                                                                *)
LEMMA SaveAddsNone ==
  ASSUME AlertInv, NEW row, CopyOf(row), Save(row), api' \subseteq api, faults' \in Nat, faults <= faults',
         row.status = "RESOLVED" \/ alerts[row.id].status # "RESOLVED" \/ \E a \in api : a.id = row.id
  PROVE  (\A c : Live(c)' \subseteq Live(c)) /\ LiveBounded'
<1>0. TypeOK /\ RowTypes
  BY DEF AlertInv
<1>1. \A c : Live(c)' \subseteq Live(c)
  <2>1. DOMAIN alerts' = DOMAIN alerts /\ \A i \in DOMAIN alerts :
          alerts'[i].cause = alerts[i].cause /\ alerts'[i] = IF i = row.id THEN row ELSE alerts[i]
    BY <1>0, SaveKeeps
  <2> QED BY <2>1 DEF Live
<1>2. LiveBounded'
  <2> SUFFICES ASSUME NEW c \in Causes PROVE Cardinality(Live(c)') <= 1 + faults'
    BY DEF LiveBounded
  <2>1. Cardinality(Live(c)') \in Nat /\ Cardinality(Live(c)') <= Cardinality(Live(c)) /\ Cardinality(Live(c)) \in Nat
    BY <1>0, <1>1, LiveFinite
  <2>2. Cardinality(Live(c)) <= 1 + faults
    BY DEF AlertInv, LiveBounded
  <2> QED BY <1>0, <2>1, <2>2 DEF RowTypes
<1> QED BY <1>1, <1>2

(* The severity of an alert is saved while nothing resolves it.               *)
LEMMA AlertSaveSeverity == ASSUME OneSweeper, AlertInv, NEW w \in Sweepers, SaveSeverity(w) PROVE AlertInv'
<1> PICK ok \in BOOLEAN : Db(ok) /\ IF ok THEN Save(Row(w)) ELSE UNCHANGED alerts
  BY DEF SaveSeverity
<1>0. TypeOK /\ RowTypes /\ Sweeping(w)
  BY DEF AlertInv
<1>1. /\ pc[w] = "severity" /\ Goto(w, "each") /\ cur' = [cur EXCEPT ![w] = <<>>]
      /\ UNCHANGED <<environment, pass, todo, rules, seen, adapters, notes, waiting, sends, crashes>>
  BY DEF SaveSeverity, Drop
<1>2. pc'[w] = "each" /\ pc' \in [Sweepers -> Points] /\ DOMAIN cur' = Sweepers
  BY <1>0, <1>1, Stepped DEF Points, RowTypes
<1>3. faults' \in Nat /\ crashes' \in Nat /\ Troubles' <= MaxTroubles /\ faults <= faults'
  BY <1>0, <1>1, DbCounts
<1>4. UNCHANGED <<notes, waiting, sends, api, cond, rule, adapters, pass, rules, todo, crashes>>
  BY <1>1 DEF environment
<1>5. /\ CopyOf(Row(w)) /\ Row(w).status # "RESOLVED" /\ alerts[Row(w).id].status # "RESOLVED" /\ pass[w] <= 2
      /\ pass[w] \in 1 .. 5 /\ \A a \in api : alerts[a.id].status # "RESOLVED" /\ a.id \in DOMAIN alerts
  <2>1. pass[w] \in 1 .. 5
    BY <1>0, AlertValues
  <2>2. \A a \in api : a.id \in DOMAIN alerts
    BY DEF AlertInv, ApiCopies, CopyOf
  <2> QED BY <1>0, <1>1, <2>1, <2>2 DEF Sweeping, Writes, HeldUnresolved
<1>6. Lists(w)' /\ Writes(w)' /\ RoomToCreate(w)'
  BY <1>0, <1>1, <1>2, <1>4, <1>5 DEF Sweeping, Lists, Writes, RoomToCreate
<1>7. CASE UNCHANGED alerts
  <2>1. Sweeping(w)'
    BY <1>4, <1>5, <1>6, <1>7 DEF Sweeping, HeldUnresolved
  <2>2. pass' \in [Sweepers -> 1 .. 5]
    BY <1>0, <1>4, PassNames DEF TypeOK
  <2> QED BY <1>0, <1>2, <1>3, <1>4, <1>7, <2>1, <2>2, LocalStep DEF RowTypes
<1>8. CASE Save(Row(w))
  <2>1. /\ alerts' \in Seq(AlertRow) /\ DOMAIN alerts' = DOMAIN alerts
        /\ \A i \in DOMAIN alerts' : alerts'[i] \in AlertRow /\ alerts'[i].id = i
        /\ \A i \in DOMAIN alerts : alerts'[i] = IF i = Row(w).id THEN Row(w) ELSE alerts[i]
        /\ \A a : CopyOf(a) => CopyOf(a)'
    BY <1>0, <1>5, <1>8, SaveKeeps
  <2>2. TypeOK' /\ RowTypes'
    BY <1>0, <1>2, <1>3, <1>4, <2>1, WriteTypes DEF RowTypes
  <2>3. LiveBounded'
    BY <1>3, <1>4, <1>5, <1>8, SaveAddsNone
  <2>4. HeldUnresolved(w)'
    BY <1>4, <1>5, <2>1 DEF HeldUnresolved
  <2>5. ApiCopies'
    BY <1>4, <2>1 DEF ApiCopies, AlertInv
  <2>6. \A v \in Sweepers : Sweeping(v)'
    BY <1>6, <2>4 DEF OneSweeper, Sweeping
  <2> QED BY <2>2, <2>3, <2>5, <2>6 DEF AlertInv
<1> QED BY <1>7, <1>8

(* A resolved alert is live as long as an acknowledgement holds a copy of it.   *)
LEMMA AlertSaveResolved == ASSUME OneSweeper, AlertInv, NEW w \in Sweepers, SaveResolved(w) PROVE AlertInv'
<1> PICK ok \in BOOLEAN : Db(ok) /\ IF ok THEN Save(Row(w)) ELSE UNCHANGED alerts
  BY DEF SaveResolved
<1>0. TypeOK /\ RowTypes /\ Sweeping(w)
  BY DEF AlertInv
<1>1. /\ pc[w] = "resolve" /\ Goto(w, "each") /\ cur' = [cur EXCEPT ![w] = <<>>]
      /\ UNCHANGED <<environment, pass, todo, rules, seen, adapters, notes, waiting, sends, crashes>>
  BY DEF SaveResolved, Drop
<1>2. pc'[w] = "each" /\ pc' \in [Sweepers -> Points] /\ DOMAIN cur' = Sweepers
  BY <1>0, <1>1, Stepped DEF Points, RowTypes
<1>3. faults' \in Nat /\ crashes' \in Nat /\ Troubles' <= MaxTroubles /\ faults <= faults'
  BY <1>0, <1>1, DbCounts
<1>4. UNCHANGED <<notes, waiting, sends, api, cond, rule, adapters, pass, rules, todo, crashes>>
  BY <1>1 DEF environment
<1>5. CopyOf(Row(w)) /\ pass[w] \in 3 .. 4 /\ \A a \in todo[w] : CopyOf(a)
  BY <1>0, <1>1 DEF Sweeping, Writes, Lists
<1>6. ASSUME \A a : CopyOf(a) => CopyOf(a)' PROVE Sweeping(w)'
  BY <1>2, <1>4, <1>5, <1>6 DEF Sweeping, Lists, Writes, RoomToCreate, HeldUnresolved
<1>7. CASE UNCHANGED alerts
  <2>1. Sweeping(w)'
    BY <1>6, <1>7 DEF CopyOf
  <2>2. pass' \in [Sweepers -> 1 .. 5]
    BY <1>0, <1>4, PassNames DEF TypeOK
  <2> QED BY <1>0, <1>2, <1>3, <1>4, <1>7, <2>1, <2>2, LocalStep DEF RowTypes
<1>8. CASE Save(Row(w)) /\ Row(w).status = "RESOLVED"
  <2>1. /\ alerts' \in Seq(AlertRow) /\ DOMAIN alerts' = DOMAIN alerts
        /\ \A i \in DOMAIN alerts' : alerts'[i] \in AlertRow /\ alerts'[i].id = i
        /\ \A a : CopyOf(a) => CopyOf(a)'
    BY <1>0, <1>5, <1>8, SaveKeeps
  <2>2. TypeOK' /\ RowTypes'
    BY <1>0, <1>2, <1>3, <1>4, <2>1, WriteTypes DEF RowTypes
  <2>3. LiveBounded'
    BY <1>3, <1>4, <1>5, <1>8, SaveAddsNone
  <2>5. ApiCopies'
    BY <1>4, <2>1 DEF ApiCopies, AlertInv
  <2>6. \A v \in Sweepers : Sweeping(v)'
    BY <1>6, <2>1 DEF OneSweeper
  <2> QED BY <2>2, <2>3, <2>5, <2>6 DEF AlertInv
<1>9. Row(w).status = "RESOLVED"
  BY <1>0, <1>1 DEF Sweeping, Writes
<1> QED BY <1>7, <1>8, <1>9

(* A new alert joins those of its cause that a failed look-up missed.          *)
LEMMA AlertCreate == ASSUME OneSweeper, AlertInv, NEW w \in Sweepers, CreateAlert(w) PROVE AlertInv'
<1> DEFINE row == [Row(w) EXCEPT !.id = Len(alerts) + 1]
<1> PICK ok \in BOOLEAN :
      /\ Db(ok) /\ alerts' = IF ok THEN Append(alerts, row) ELSE alerts
      /\ IF ok /\ ShouldNotify(row.severity) THEN Goto(w, "request") /\ Hold(w, row)
                                            ELSE Goto(w, "each") /\ Drop(w)
  BY DEF CreateAlert
<1>0. TypeOK /\ RowTypes /\ Sweeping(w)
  BY DEF AlertInv
<1>1. /\ pc[w] = "create" /\ Len(alerts) < MaxAlerts
      /\ UNCHANGED <<environment, pass, todo, rules, seen, adapters, notes, waiting, sends, crashes>>
  BY DEF CreateAlert
<1>2. /\ pc'[w] \in {"request", "each"} /\ pc' \in [Sweepers -> Points] /\ DOMAIN cur' = Sweepers
      /\ pc'[w] = "request" => Row(w)' = row /\ ok
  <2>1. CASE ok /\ ShouldNotify(row.severity)
    <3> HIDE DEF row
    <3> QED BY <1>0, <2>1, Stepped, HoldRow DEF Points
  <2>2. CASE ~(ok /\ ShouldNotify(row.severity))
    <3>1. pc'[w] = "each" /\ pc' \in [Sweepers -> Points]
      BY <2>2, Stepped DEF Points
    <3> QED BY <1>0, <2>2, <3>1 DEF Drop, RowTypes
  <2> QED BY <2>1, <2>2
<1>3. faults' \in Nat /\ crashes' \in Nat /\ Troubles' <= MaxTroubles /\ faults <= faults' /\ (ok => faults' = faults)
  BY <1>0, <1>1, DbCounts
<1>4. UNCHANGED <<notes, waiting, sends, api, cond, rule, adapters, pass, rules, todo, crashes>>
  BY <1>1 DEF environment
<1>5. /\ row \in AlertRow /\ row.id = Len(alerts) + 1 /\ row.cause = Row(w).cause /\ row.status = "OPEN"
      /\ row.cause \in Causes
  <2>1. /\ Row(w) \in [id : Nat, cause : Causes, status : {"OPEN"}, severity : Severities, by : BOOLEAN]
        /\ Len(alerts) + 1 \in 1 .. MaxAlerts
    BY <1>0, <1>1, AlertValues DEF Sweeping, Writes
  <2> QED BY <2>1 DEF AlertRow
<1> HIDE DEF row
<1>6. /\ pass[w] <= 2 /\ \A a \in api : alerts[a.id].status # "RESOLVED" /\ a.id \in DOMAIN alerts
      /\ Cardinality(Live(row.cause)) <= faults
  <2>1. \A a \in api : a.id \in DOMAIN alerts
    BY DEF AlertInv, ApiCopies, CopyOf
  <2> QED BY <1>0, <1>1, <1>5, <2>1 DEF Sweeping, Writes, HeldUnresolved, RoomToCreate
<1>7. ~ok => alerts' = alerts
  OBVIOUS
<1>8. ok => /\ alerts' \in Seq(AlertRow) /\ DOMAIN alerts' = DOMAIN alerts \cup {row.id} /\ row.id \notin DOMAIN alerts
            /\ alerts'[row.id] = row
            /\ \A i \in DOMAIN alerts : alerts'[i] = alerts[i]
            /\ \A i \in DOMAIN alerts' : alerts'[i] \in AlertRow /\ alerts'[i].id = i
            /\ \A a : CopyOf(a) => CopyOf(a)'
  BY <1>0, <1>5, AppendKeeps
<1>9. pass[w] \in 1 .. 5
  BY <1>0, AlertValues
<1>10. Sweeping(w)'
  <2>1. Lists(w)' /\ RoomToCreate(w)'
    BY <1>0, <1>1, <1>2, <1>4, <1>6, <1>9 DEF Sweeping, Lists, RoomToCreate
  <2>2. Writes(w)'
    BY <1>2, <1>4, <1>6, <1>8 DEF Writes
  <2>3. HeldUnresolved(w)'
    BY <1>4, <1>6, <1>7, <1>8 DEF HeldUnresolved
  <2> QED BY <2>1, <2>2, <2>3 DEF Sweeping
<1>11. CASE ~ok
  <2>1. pass' \in [Sweepers -> 1 .. 5]
    BY <1>0, <1>4, PassNames DEF TypeOK
  <2> QED BY <1>0, <1>2, <1>3, <1>4, <1>7, <1>10, <1>11, <2>1, LocalStep DEF RowTypes
<1>12. CASE ok
  <2>1. TypeOK' /\ RowTypes'
    BY <1>0, <1>2, <1>3, <1>4, <1>8, <1>12, WriteTypes DEF RowTypes
  <2>2. LiveBounded'
    <3> SUFFICES ASSUME NEW c \in Causes PROVE Cardinality(Live(c)') <= 1 + faults
      BY <1>3, <1>12 DEF LiveBounded
    <3>1. CASE c = row.cause
      <4>1. Live(c)' = Live(c) \cup {row.id}
        BY <1>4, <1>5, <1>8, <1>12, <3>1 DEF Live
      <4>2. IsFiniteSet(Live(c)) /\ Cardinality(Live(c)) \in Nat
        BY <1>0, LiveFinite
      <4>3. Cardinality(Live(c) \cup {row.id}) \in {Cardinality(Live(c)), Cardinality(Live(c)) + 1}
        BY <4>2, FS_AddElement
      <4>4. Cardinality(Live(c)) <= faults /\ faults \in Nat
        BY <1>0, <1>6, <3>1 DEF RowTypes
      <4> QED BY <4>1, <4>2, <4>3, <4>4
    <3>2. CASE c # row.cause
      <4>1. Live(c)' = Live(c)
        BY <1>4, <1>5, <1>8, <1>12, <3>2 DEF Live
      <4> QED BY <4>1 DEF AlertInv, LiveBounded
    <3> QED BY <3>1, <3>2
  <2>3. ApiCopies'
    BY <1>4, <1>8, <1>12 DEF ApiCopies, AlertInv
  <2>4. \A v \in Sweepers : Sweeping(v)'
    BY <1>10 DEF OneSweeper
  <2> QED BY <2>1, <2>2, <2>3, <2>4 DEF AlertInv
<1> QED BY <1>11, <1>12

(* A crash takes what the sweeper holds with it.                             *)
LEMMA AlertCrash == ASSUME OneSweeper, AlertInv, NEW w \in Sweepers, Crash(w) PROVE AlertInv'
<1>0. TypeOK /\ RowTypes
  BY DEF AlertInv
<1>1. /\ crashes + faults < MaxTroubles /\ crashes' = crashes + 1 /\ Goto(w, "down")
      /\ todo' = [todo EXCEPT ![w] = {}] /\ cur' = [cur EXCEPT ![w] = <<>>]
      /\ rules' = [rules EXCEPT ![w] = NoRule]
      /\ UNCHANGED <<environment, pass, adapters, alerts, notes, waiting, sends, faults>>
  BY DEF Crash, Drop
<1>2. pc'[w] = "down" /\ pc' \in [Sweepers -> Points]
  BY <1>1, Stepped DEF Points
<1>3. UNCHANGED <<alerts, notes, waiting, sends, api, cond, rule, adapters, pass, faults>>
  BY <1>1 DEF environment
<1>4. /\ todo'[w] = {} /\ DOMAIN todo' = Sweepers /\ DOMAIN cur' = Sweepers
      /\ rules' \in [Sweepers -> [Causes -> Rule]]
  BY <1>0, <1>1 DEF RowTypes, NoRule, Rule
<1>5. faults' \in Nat /\ crashes' \in Nat /\ Troubles' <= MaxTroubles /\ faults <= faults'
  BY <1>0, <1>1, <1>3, AlertsAssumption DEF RowTypes, Troubles
<1>6. Sweeping(w)'
  BY <1>2, <1>4 DEF Sweeping, Lists, Writes, HeldUnresolved, RoomToCreate
<1>7. pass' \in [Sweepers -> 1 .. 5]
  BY <1>0, <1>3, PassNames DEF TypeOK
<1> QED BY <1>0, <1>2, <1>3, <1>4, <1>5, <1>6, <1>7, LocalStep DEF RowTypes

(* A restart may register other adapters.                                    *)
LEMMA AlertRestart == ASSUME OneSweeper, AlertInv, NEW w \in Sweepers, Restart(w) PROVE AlertInv'
<1>0. TypeOK /\ RowTypes /\ Sweeping(w)
  BY DEF AlertInv
<1>1. /\ pc[w] = "down" /\ Goto(w, "idle") /\ adapters' \in [Sweepers -> SUBSET Channels]
      /\ UNCHANGED <<environment, pass, todo, cur, rules, seen, alerts, notes, waiting, sends, crashes, faults>>
  BY DEF Restart
<1>2. pc'[w] = "idle" /\ pc' \in [Sweepers -> Points]
  BY <1>1, Stepped DEF Points
<1>3. UNCHANGED <<alerts, notes, waiting, sends, api, cond, rule, pass, rules, todo, cur, crashes, faults>>
  BY <1>1 DEF environment
<1>4. Sweeping(w)'
  BY <1>0, <1>1, <1>2, <1>3 DEF Sweeping, Lists, Writes, HeldUnresolved, RoomToCreate
<1>5. pass' \in [Sweepers -> 1 .. 5]
  BY <1>0, <1>3, PassNames DEF TypeOK
<1>6. Troubles' <= MaxTroubles /\ crashes' \in Nat /\ faults' \in Nat /\ faults <= faults'
  BY <1>0, <1>3 DEF RowTypes, Troubles
<1>7. DOMAIN todo' = Sweepers /\ DOMAIN cur' = Sweepers /\ rules' \in [Sweepers -> [Causes -> Rule]]
  BY <1>0, <1>3 DEF RowTypes
<1> QED BY <1>1, <1>2, <1>3, <1>4, <1>5, <1>6, <1>7, LocalStep

(* A step of the world around the sweepers that writes no row.                 *)
LEMMA AroundStep ==
  ASSUME AlertInv, NotesInv, UNCHANGED <<alerts, notes, sends, api, sweeping, crashes, faults>>,
         cond' \in [Causes -> {"none", "firing", "clear"}], rule' \in [Causes -> Rule], waiting' \subseteq DOMAIN notes
  PROVE  AlertInv' /\ NotesInv'
<1>1. UNCHANGED <<pass, pc, todo, cur, rules, adapters>> /\ TypeOK /\ RowTypes
  BY DEF sweeping, AlertInv
<1>2. TypeOK'
  BY <1>1 DEF TypeOK
<1>3. RowTypes'
  BY <1>1 DEF RowTypes, Troubles
<1>4. ApiCopies' /\ (\A a : CopyOf(a)' <=> CopyOf(a)) /\ \A c : Live(c)' = Live(c)
  BY DEF AlertInv, ApiCopies, CopyOf, Live
<1>5. LiveBounded'
  BY <1>1, <1>4 DEF AlertInv, LiveBounded
<1>6. \A w \in Sweepers : Sweeping(w)'
  <2> SUFFICES ASSUME NEW w \in Sweepers PROVE Sweeping(w)'
    OBVIOUS
  <2>1. Sweeping(w)
    BY DEF AlertInv
  <2>2. Row(w)' = Row(w)
    BY <1>1 DEF Row
  <2>3. Lists(w)' /\ Writes(w)' /\ HeldUnresolved(w)' /\ RoomToCreate(w)'
    BY <1>1, <1>4, <2>1, <2>2 DEF Sweeping, Lists, Writes, HeldUnresolved, RoomToCreate
  <2> QED BY <2>3 DEF Sweeping
<1>7. NotesInv'
  <2>1. \A w, n : (Holds(w, n)' <=> Holds(w, n)) /\ (InFlight(w, n)' <=> InFlight(w, n)) /\ (Settled(n)' <=> Settled(n))
    BY <1>1 DEF Holds, InFlight, Settled, Ahead, Row, Troubles
  <2> QED BY <1>1, <2>1 DEF NotesInv
<1> QED BY <1>2, <1>3, <1>4, <1>5, <1>6, <1>7 DEF AlertInv

(* The retry delay, the causes and the rules.                                *)
LEMMA AlertDelayEnds == ASSUME AlertInv, NotesInv, DelayEnds PROVE AlertInv' /\ NotesInv'
<1>1. waiting' \subseteq DOMAIN notes /\ UNCHANGED <<environment, sweeping, alerts, notes, sends, crashes, faults>>
  BY DEF DelayEnds, AlertInv, TypeOK
<1> QED BY <1>1, AroundStep DEF AlertInv, TypeOK, environment

LEMMA AlertCauseChanges ==
  ASSUME AlertInv, NotesInv, NEW c \in Causes, NEW state \in {"none", "firing", "clear"}, CauseChanges(c, state)
  PROVE  AlertInv' /\ NotesInv'
<1>1. cond' \in [Causes -> {"none", "firing", "clear"}] /\ rule \in [Causes -> Rule] /\ waiting \subseteq DOMAIN notes
  BY DEF CauseChanges, AlertInv, TypeOK
<1> QED BY <1>1, AroundStep DEF CauseChanges

LEMMA AlertActivateRules == ASSUME AlertInv, NotesInv, ActivateRules PROVE AlertInv' /\ NotesInv'
<1>1. rule' \in [Causes -> Rule] /\ cond \in [Causes -> {"none", "firing", "clear"}] /\ waiting \subseteq DOMAIN notes
  BY DEF ActivateRules, AlertInv, TypeOK
<1> QED BY <1>1, AroundStep DEF ActivateRules

-----------------------------------------------------------------------------
(* The notifications as they are stored.                                     *)
LEMMA NoteValues ==
  ASSUME TypeOK, RowTypes
  PROVE  /\ Len(notes) \in Nat /\ DOMAIN notes = 1 .. Len(notes) /\ DOMAIN sends = 1 .. Len(notes)
         /\ Len(sends) = Len(notes)
         /\ \A n \in DOMAIN notes : /\ notes[n] \in NotificationRow /\ notes[n].id = n /\ notes[n].attempts \in Nat
                                    /\ notes[n].alert \in DOMAIN alerts /\ sends[n] \in Nat
                                    /\ notes[n].status \in {"PENDING", "SENT", "FAILED"}
<1>1. Len(notes) \in Nat /\ DOMAIN notes = 1 .. Len(notes) /\ DOMAIN sends = 1 .. Len(sends) /\ Len(sends) \in Nat
  BY LenProperties DEF RowTypes
<1>2. DOMAIN sends = DOMAIN notes
  BY DEF TypeOK
<1>3. Len(sends) = Len(notes)
  <2>1. Len(sends) > Len(notes) => Len(sends) \in DOMAIN sends /\ Len(sends) \notin DOMAIN notes
    BY <1>1
  <2>2. Len(notes) > Len(sends) => Len(notes) \in DOMAIN notes /\ Len(notes) \notin DOMAIN sends
    BY <1>1
  <2>3. ~(Len(sends) > Len(notes)) /\ ~(Len(notes) > Len(sends))
    BY <1>2, <2>1, <2>2
  <2>4. Len(sends) \in Nat /\ Len(notes) \in Nat
    BY <1>1
  <2> QED BY <2>3, <2>4
<1>4. \A n \in DOMAIN notes : sends[n] \in Nat
  BY <1>2, ElementOfSeq, <1>1 DEF RowTypes
<1>5. \A n \in DOMAIN notes : notes[n] \in NotificationRow /\ notes[n].id = n /\ notes[n].alert \in DOMAIN alerts
  BY DEF TypeOK
<1>6. \A row \in NotificationRow : row.attempts \in Nat /\ row.status \in {"PENDING", "SENT", "FAILED"}
  BY DEF NotificationRow
<1> QED BY <1>1, <1>2, <1>3, <1>4, <1>5, <1>6

(* More troubles pay for more.                                               *)
LEMMA StaysSettled ==
  ASSUME TypeOK, RowTypes, NEW n \in DOMAIN notes, Settled(n), notes'[n] = notes[n], sends'[n] = sends[n],
         Troubles' \in Nat, Troubles <= Troubles'
  PROVE  Settled(n)'
<1>1. notes[n].attempts \in Nat /\ sends[n] \in Nat
  BY NoteValues
<1>2. Troubles \in Nat /\ MaxAttempts \in Nat
  BY AlertValues
<1> QED BY <1>1, <1>2 DEF Settled

LEMMA StaysInFlight ==
  ASSUME AlertInv, NotesInv, NEW w \in Sweepers, NEW n \in DOMAIN notes, InFlight(w, n),
         UNCHANGED <<notes, sends, pc, cur>>, Troubles' \in Nat, Troubles <= Troubles', DOMAIN alerts \subseteq DOMAIN alerts'
  PROVE  InFlight(w, n)'
<1>1. notes[n].attempts \in Nat /\ sends[n] \in Nat
  BY NoteValues DEF AlertInv
<1>2. Troubles \in Nat /\ MaxAttempts \in Nat
  BY AlertValues DEF AlertInv
<1>3. Row(w)' = Row(w) /\ Ahead(w)' = Ahead(w) /\ Ahead(w) \in Nat
  BY DEF Row, Ahead
<1>4. Row(w) \in NotificationRow => Row(w).attempts \in Nat
  BY DEF NotificationRow
<1> QED BY <1>1, <1>2, <1>3, <1>4 DEF InFlight

(* A step of the sweeper while it has no notification in hand.                *)
LEMMA QuietStep ==
  ASSUME OneSweeper, AlertInv, NotesInv, NEW w \in Sweepers,
         pc[w] \notin {"lookup", "send", "save"}, pc'[w] \notin {"lookup", "send", "save"},
         UNCHANGED <<notes, sends>>, Troubles' \in Nat, Troubles <= Troubles'
  PROVE  NotesInv'
<1>1. \A v \in Sweepers : \A n : ~Holds(v, n) /\ ~Holds(v, n)'
  BY DEF OneSweeper, Holds
<1>2. \A n \in DOMAIN notes : Settled(n)'
  BY <1>1, StaysSettled DEF NotesInv, AlertInv
<1> QED BY <1>1, <1>2 DEF NotesInv

(* A request of the API leaves the sweepers and the notifications alone.       *)
LEMMA RequestQuiet ==
  ASSUME AlertInv, NotesInv, UNCHANGED <<notes, sends, sweeping>>, Troubles' \in Nat, Troubles <= Troubles',
         DOMAIN alerts \subseteq DOMAIN alerts'
  PROVE  NotesInv'
<1>1. UNCHANGED <<pass, pc, todo, cur>>
  BY DEF sweeping
<1>2. \A w, n : Holds(w, n)' <=> Holds(w, n)
  BY <1>1 DEF Holds, Row
<1>3. \A n \in DOMAIN notes : Settled(n) => Settled(n)'
  BY StaysSettled DEF AlertInv
<1>4. \A w \in Sweepers, n \in DOMAIN notes : InFlight(w, n) => InFlight(w, n)'
  BY <1>1, StaysInFlight
<1> QED BY <1>1, <1>2, <1>3, <1>4 DEF NotesInv

(* Acknowledge reads an alert that is open.                                   *)
LEMMA AlertReadForAcknowledge ==
  ASSUME AlertInv, NotesInv, NEW a \in Rows(alerts), ReadForAcknowledge(a) PROVE AlertInv' /\ NotesInv'
<1>0. TypeOK /\ RowTypes
  BY DEF AlertInv
<1>1. /\ a.status = "OPEN" /\ api' = api \cup {a}
      /\ UNCHANGED <<cond, rule, changes, sweeping, alerts, notes, waiting, sends, crashes, faults>>
  BY DEF ReadForAcknowledge
<1>2. UNCHANGED <<pass, pc, todo, cur, rules, adapters>>
  BY <1>1 DEF sweeping
<1>3. CopyOf(a) /\ alerts[a.id] = a
  <2>1. PICK i \in DOMAIN alerts : a = alerts[i]
    BY DEF Rows
  <2> QED BY <1>0, <2>1, AlertValues DEF CopyOf
<1>4. TypeOK'
  BY <1>0, <1>1, <1>2, <1>3 DEF TypeOK, CopyOf
<1>5. RowTypes'
  BY <1>0, <1>1, <1>2 DEF RowTypes, Troubles
<1>6. \A b : CopyOf(b)' <=> CopyOf(b)
  BY <1>1 DEF CopyOf
<1>7. ApiCopies'
  BY <1>1, <1>3, <1>6 DEF AlertInv, ApiCopies
<1>8. \A c : Live(c)' = Live(c)
  BY <1>1, <1>3 DEF Live
<1>9. LiveBounded'
  BY <1>1, <1>8 DEF AlertInv, LiveBounded
<1>10. \A w \in Sweepers : Sweeping(w)'
  <2> SUFFICES ASSUME NEW w \in Sweepers PROVE Sweeping(w)'
    OBVIOUS
  <2>1. Sweeping(w) /\ Row(w)' = Row(w)
    BY <1>2 DEF AlertInv, Row
  <2>2. HeldUnresolved(w)'
    BY <1>1, <1>2, <1>3, <2>1 DEF Sweeping, HeldUnresolved
  <2>3. Lists(w)' /\ Writes(w)' /\ RoomToCreate(w)'
    BY <1>1, <1>2, <1>6, <1>8, <2>1 DEF Sweeping, Lists, Writes, RoomToCreate
  <2> QED BY <2>2, <2>3 DEF Sweeping
<1>11. NotesInv'
  BY <1>0, <1>1, RequestQuiet, AlertValues DEF Troubles
<1> QED BY <1>4, <1>5, <1>7, <1>9, <1>10, <1>11 DEF AlertInv

(* Acknowledge saves the copy it read, whatever became of the alert since.      *)
LEMMA AlertAcknowledge ==
  ASSUME AlertInv, NotesInv, NEW a \in api, Acknowledge(a) PROVE AlertInv' /\ NotesInv'
<1> DEFINE row == [a EXCEPT !.status = "ACKNOWLEDGED", !.by = TRUE]
<1> PICK ok \in BOOLEAN : Db(ok) /\ IF ok THEN Save(row) ELSE UNCHANGED alerts
  BY DEF Acknowledge
<1>0. TypeOK /\ RowTypes
  BY DEF AlertInv
<1>1. /\ api' = api \ {a}
      /\ UNCHANGED <<cond, rule, changes, calls, sweeping, notes, waiting, sends, crashes>>
  BY DEF Acknowledge
<1>2. UNCHANGED <<pass, pc, todo, cur, rules, adapters>>
  BY <1>1 DEF sweeping
<1>3. CopyOf(row) /\ row.id = a.id /\ row.status = "ACKNOWLEDGED"
  <2>1. CopyOf(a)
    BY DEF AlertInv, ApiCopies
  <2>2. row \in AlertRow /\ row.id = a.id /\ row.cause = a.cause /\ row.status = "ACKNOWLEDGED"
    BY <2>1 DEF CopyOf, AlertRow
  <2> QED BY <2>1, <2>2 DEF CopyOf
<1> HIDE DEF row
<1>4. /\ faults' \in Nat /\ crashes' \in Nat /\ Troubles' <= MaxTroubles /\ faults <= faults'
      /\ Troubles <= Troubles' /\ Troubles' \in Nat
  BY <1>0, <1>1, DbCounts
<1>5. /\ alerts' \in Seq(AlertRow) /\ DOMAIN alerts' = DOMAIN alerts
      /\ \A i \in DOMAIN alerts' : alerts'[i] \in AlertRow /\ alerts'[i].id = i
      /\ \A i \in DOMAIN alerts : alerts'[i].status # "RESOLVED" \/ alerts'[i] = alerts[i]
      /\ \A b : CopyOf(b) => CopyOf(b)'
  <2>1. CASE Save(row)
    BY <1>0, <1>3, <2>1, SaveKeeps
  <2>2. CASE UNCHANGED alerts
    BY <1>0, <2>2, AlertValues DEF CopyOf
  <2> QED BY <2>1, <2>2
<1>6. (\A c : Live(c)' \subseteq Live(c)) /\ LiveBounded'
  <2>1. CASE Save(row)
    BY <1>1, <1>3, <1>4, <2>1, SaveAddsNone
  <2>2. CASE UNCHANGED alerts
    <3>1. \A c : Live(c)' \subseteq Live(c)
      BY <1>1, <2>2 DEF Live
    <3> SUFFICES ASSUME NEW c \in Causes PROVE Cardinality(Live(c)') <= 1 + faults'
      BY <3>1 DEF LiveBounded
    <3>2. Cardinality(Live(c)') \in Nat /\ Cardinality(Live(c)') <= Cardinality(Live(c)) /\ Cardinality(Live(c)) \in Nat
      BY <1>0, <3>1, LiveFinite
    <3>3. Cardinality(Live(c)) <= 1 + faults /\ faults \in Nat
      BY <1>0 DEF AlertInv, LiveBounded, RowTypes
    <3> QED BY <1>4, <3>2, <3>3
  <2> QED BY <2>1, <2>2
<1>7. pc' \in [Sweepers -> Points] /\ DOMAIN todo' = Sweepers /\ DOMAIN cur' = Sweepers /\ api' \subseteq api
  BY <1>0, <1>1, <1>2 DEF TypeOK, RowTypes
<1>8. TypeOK' /\ RowTypes'
  BY <1>1, <1>2, <1>4, <1>5, <1>7, WriteTypes
<1>9. ApiCopies'
  BY <1>1, <1>5 DEF AlertInv, ApiCopies
<1>10. \A w \in Sweepers : Sweeping(w)'
  <2> SUFFICES ASSUME NEW w \in Sweepers PROVE Sweeping(w)'
    OBVIOUS
  <2>1. Sweeping(w) /\ Row(w)' = Row(w)
    BY <1>2 DEF AlertInv, Row
  <2>2. HeldUnresolved(w)'
    <3>1. \A b \in api : b.id \in DOMAIN alerts
      BY DEF AlertInv, ApiCopies, CopyOf
    <3> QED BY <1>1, <1>2, <1>5, <2>1, <3>1 DEF Sweeping, HeldUnresolved
  <2>3. Lists(w)'
    BY <1>1, <1>2, <1>5, <2>1 DEF Sweeping, Lists
  <2>4. Writes(w)'
    <3>1. pc[w] \in {"severity", "resolve"} => Row(w).id \in DOMAIN alerts
      BY <2>1 DEF Sweeping, Writes, CopyOf
    <3> QED BY <1>2, <1>5, <2>1, <3>1 DEF Sweeping, Writes
  <2>5. RoomToCreate(w)'
    <3> SUFFICES ASSUME NEW c, c = Row(w).cause, pc[w] = "create" PROVE Cardinality(Live(c)') <= faults'
      BY <1>2, <2>1 DEF RoomToCreate
    <3>1. Cardinality(Live(c)') \in Nat /\ Cardinality(Live(c)') <= Cardinality(Live(c)) /\ Cardinality(Live(c)) \in Nat
      BY <1>0, <1>6, LiveFinite
    <3>2. Cardinality(Live(c)) <= faults /\ faults \in Nat
      BY <1>0, <2>1 DEF Sweeping, RoomToCreate, RowTypes
    <3> QED BY <1>4, <3>1, <3>2
  <2> QED BY <2>2, <2>3, <2>4, <2>5 DEF Sweeping
<1>11. NotesInv'
  BY <1>1, <1>4, <1>5, RequestQuiet
<1> QED BY <1>6, <1>8, <1>9, <1>10, <1>11 DEF AlertInv

-----------------------------------------------------------------------------
(* A step of the one sweeper that changes the notifications.                  *)
LEMMA NotifyStep ==
  ASSUME OneSweeper, AlertInv, NEW w \in Sweepers,
         UNCHANGED <<alerts, api, cond, rule, pass, rules, adapters>>,
         pc' \in [Sweepers -> Points], DOMAIN todo' = Sweepers, DOMAIN cur' = Sweepers,
         crashes' \in Nat, faults' \in Nat, Troubles' <= MaxTroubles, faults <= faults',
         notes' \in Seq(NotificationRow), sends' \in Seq(Nat), DOMAIN sends' = DOMAIN notes', waiting' \subseteq DOMAIN notes',
         \A i \in DOMAIN notes' : notes'[i] \in NotificationRow /\ notes'[i].id = i /\ notes'[i].alert \in DOMAIN alerts,
         Sweeping(w)'
  PROVE  AlertInv'
<1>1. TypeOK'
  BY DEF AlertInv, TypeOK
<1>2. RowTypes'
  BY DEF AlertInv, RowTypes
<1>3. ApiCopies'
  BY DEF AlertInv, ApiCopies, CopyOf
<1>4. LiveBounded'
  <2> SUFFICES ASSUME NEW c \in Causes PROVE Cardinality(Live(c)') <= 1 + faults'
    BY DEF LiveBounded
  <2>1. Live(c)' = Live(c)
    BY DEF Live
  <2>2. Cardinality(Live(c)) <= 1 + faults /\ Cardinality(Live(c)) \in Nat
    BY LiveFinite DEF AlertInv, LiveBounded
  <2> QED BY <2>1, <2>2 DEF AlertInv, RowTypes
<1>5. \A v \in Sweepers : Sweeping(v)'
  BY DEF OneSweeper
<1> QED BY <1>1, <1>2, <1>3, <1>4, <1>5 DEF AlertInv

(* The one sweeper has a notification in hand after the step.                 *)
LEMMA InHand ==
  ASSUME OneSweeper, NEW w \in Sweepers, NEW n \in DOMAIN notes', Holds(w, n)', InFlight(w, n)',
         \A m \in DOMAIN notes' : m # n => Settled(m)', \A m \in todo'[w] : m.id # n
  PROVE  NotesInv'
<1>1. \A v \in Sweepers : \A m : Holds(v, m)' => v = w /\ m = n
  BY DEF OneSweeper, Holds
<1> QED BY <1>1 DEF NotesInv, OneSweeper

(* Or none.                                                                  *)
LEMMA OutOfHand ==
  ASSUME OneSweeper, NEW w \in Sweepers, pc'[w] \notin {"lookup", "send", "save"}, \A m \in DOMAIN notes' : Settled(m)'
  PROVE  NotesInv'
<1>1. \A v \in Sweepers : \A m : ~Holds(v, m)'
  BY DEF OneSweeper, Holds
<1> QED BY <1>1 DEF NotesInv

(* What NotesInv says of the notification in hand and of the others.           *)
LEMMA HandOf ==
  ASSUME OneSweeper, AlertInv, NotesInv, NEW w \in Sweepers, pc[w] \in {"lookup", "send", "save"}
  PROVE  /\ pass[w] = 5 /\ Row(w).id \in DOMAIN notes /\ InFlight(w, Row(w).id)
         /\ \A m \in DOMAIN notes : m # Row(w).id => Settled(m)
         /\ \A m \in todo[w] : /\ m.id # Row(w).id /\ m.id \in DOMAIN notes /\ notes[m.id] = m
                               /\ m.status = "PENDING" \/ (m.status = "FAILED" /\ m.attempts < MaxAttempts)
<1>1. pass[w] = 5 /\ Lists(w)
  BY DEF AlertInv, Sweeping, Writes
<1>2. Holds(w, Row(w).id) /\ \A v \in Sweepers : \A m : Holds(v, m) => m = Row(w).id
  BY DEF Holds, OneSweeper
<1> QED BY <1>1, <1>2 DEF NotesInv, Lists

(* The numbers of the row in hand.                                           *)
LEMMA RowValues ==
  ASSUME NEW row \in NotificationRow
  PROVE  /\ row.id \in Nat \ {0} /\ row.attempts \in Nat /\ row.attempts <= MaxAttempts + MaxTroubles
         /\ row.status \in {"PENDING", "SENT", "FAILED"}
BY AlertsAssumption DEF NotificationRow

(* The look-up before a send; where it finds nothing, the attempts are used up.  *)
LEMMA AlertLookup ==
  ASSUME OneSweeper, AlertInv, NotesInv, NEW w \in Sweepers, Lookup(w) PROVE AlertInv' /\ NotesInv'
<1> PICK n : n = Row(w).id
  OBVIOUS
<1> DEFINE end == [Row(w) EXCEPT !.status = "FAILED", !.attempts = Exhausted(Row(w))]
<1> PICK ok \in BOOLEAN :
      /\ Db(ok)
      /\ \/ Goto(w, "send") /\ UNCHANGED cur
         \/ Goto(w, "save") /\ Hold(w, end)
  BY DEF Lookup
<1>0. TypeOK /\ RowTypes /\ Sweeping(w)
  BY DEF AlertInv
<1>1. /\ pc[w] = "lookup"
      /\ UNCHANGED <<environment, pass, todo, rules, seen, adapters, alerts, notes, waiting, sends, crashes>>
  BY DEF Lookup
<1>2. /\ faults' \in Nat /\ crashes' \in Nat /\ Troubles' <= MaxTroubles /\ faults <= faults'
      /\ Troubles <= Troubles' /\ Troubles' \in Nat /\ Troubles \in Nat
  BY <1>0, <1>1, DbCounts, AlertValues
<1>3. UNCHANGED <<alerts, notes, waiting, sends, api, cond, rule, adapters, pass, rules, todo, crashes>>
  BY <1>1 DEF environment
<1>4. /\ pass[w] = 5 /\ n \in DOMAIN notes /\ InFlight(w, n)
      /\ \A m \in DOMAIN notes : m # n => Settled(m)
      /\ \A m \in todo[w] : m.id # n
  BY <1>1, HandOf
<1>5. /\ pc'[w] \in {"send", "save"} /\ pc' \in [Sweepers -> Points] /\ DOMAIN cur' = Sweepers
      /\ pc'[w] = "send" => Row(w)' = Row(w)
      /\ pc'[w] = "save" => Row(w)' = end
  <2>1. CASE Goto(w, "send") /\ UNCHANGED cur
    BY <1>0, <2>1, Stepped DEF Points, RowTypes, Row
  <2>2. CASE Goto(w, "save") /\ Hold(w, end)
    <3> HIDE DEF end
    <3> QED BY <1>0, <2>2, Stepped, HoldRow DEF Points
  <2> QED BY <2>1, <2>2
<1>6. Row(w) \in NotificationRow /\ Row(w).alert \in DOMAIN alerts /\ Row(w).attempts > 0
  BY <1>4 DEF InFlight
<1>7. /\ end \in NotificationRow /\ end.id = n /\ end.alert = Row(w).alert /\ end.status = "FAILED"
      /\ end.attempts = MaxAttempts
  <2>1. MaxAttempts \in 0 .. MaxAttempts + MaxTroubles
    BY AlertsAssumption
  <2> QED BY <1>6, <2>1 DEF NotificationRow, Exhausted
<1> HIDE DEF end
<1>8. Sweeping(w)'
  <2>1. Lists(w)'
    BY <1>0, <1>1, <1>3, <1>4, <1>5 DEF Sweeping, Lists
  <2>2. Writes(w)' /\ RoomToCreate(w)' /\ HeldUnresolved(w)'
    BY <1>3, <1>4, <1>5 DEF Writes, RoomToCreate, HeldUnresolved
  <2> QED BY <2>1, <2>2 DEF Sweeping
<1>9. AlertInv'
  <2>1. pass' \in [Sweepers -> 1 .. 5]
    BY <1>0, <1>3, PassNames DEF TypeOK
  <2>2. DOMAIN todo' = Sweepers /\ rules' \in [Sweepers -> [Causes -> Rule]] /\ adapters' \in [Sweepers -> SUBSET Channels]
    BY <1>0, <1>3 DEF RowTypes
  <2> QED BY <1>2, <1>3, <1>5, <1>8, <2>1, <2>2, LocalStep
<1>10. NotesInv'
  <2>1. Holds(w, n)'
    BY <1>5, <1>7 DEF Holds
  <2>2. \A m \in DOMAIN notes' : m # n => Settled(m)'
    BY <1>0, <1>2, <1>3, <1>4, StaysSettled
  <2>3. notes[n].attempts \in Nat /\ sends[n] \in Nat /\ Row(w).attempts \in Nat /\ MaxAttempts \in Nat \ {0}
    BY <1>0, <1>4, <1>6, NoteValues, RowValues, AlertsAssumption
  <2>4. Ahead(w) = 1 /\ (pc'[w] = "send" => Ahead(w)' = 1) /\ (pc'[w] = "save" => Ahead(w)' = 0)
    BY <1>1 DEF Ahead
  <2>5. InFlight(w, n)'
    BY <1>1, <1>2, <1>3, <1>4, <1>5, <1>6, <1>7, <2>3, <2>4 DEF InFlight
  <2> QED BY <1>3, <1>4, <2>1, <2>2, <2>5, InHand
<1> QED BY <1>9, <1>10

(* The row of a notification is saved: the others are as they were.            *)
LEMMA SaveNoteKeeps ==
  ASSUME TypeOK, RowTypes, NEW row \in NotificationRow, row.id \in DOMAIN notes, row.alert \in DOMAIN alerts,
         notes' = [notes EXCEPT ![row.id] = row]
  PROVE  /\ notes' \in Seq(NotificationRow) /\ DOMAIN notes' = DOMAIN notes
         /\ \A i \in DOMAIN notes : notes'[i] = IF i = row.id THEN row ELSE notes[i]
         /\ \A i \in DOMAIN notes' : notes'[i] \in NotificationRow /\ notes'[i].id = i /\ notes'[i].alert \in DOMAIN alerts
<1>1. notes \in Seq(NotificationRow) /\ row.id \in 1 .. Len(notes) /\ DOMAIN notes = 1 .. Len(notes)
  BY NoteValues DEF RowTypes
<1>2. /\ notes' \in Seq(NotificationRow) /\ Len(notes') = Len(notes)
      /\ \A i \in 1 .. Len(notes) : notes'[i] = IF i = row.id THEN row ELSE notes[i]
  BY <1>1, ExceptSeq
<1>3. DOMAIN notes' = DOMAIN notes
  BY <1>1, <1>2, LenProperties
<1> QED BY <1>1, <1>2, <1>3, NoteValues

(* The attempt is counted, in the row or only in the copy that is in hand.      *)
LEMMA AlertCountAttempt ==
  ASSUME OneSweeper, AlertInv, NotesInv, NEW w \in Sweepers, CountAttempt(w) PROVE AlertInv' /\ NotesInv'
<1> PICK old \in todo[w], ok \in BOOLEAN :
      /\ Db(ok) /\ Hold(w, [old EXCEPT !.attempts = @ + 1]) /\ todo' = [todo EXCEPT ![w] = @ \ {old}]
      /\ IF ok THEN notes' = [notes EXCEPT ![old.id] = [old EXCEPT !.attempts = @ + 1]] /\ Wait([old EXCEPT !.attempts = @ + 1])
               ELSE UNCHANGED <<notes, waiting>>
  BY DEF CountAttempt
<1> PICK n : n = old.id
  OBVIOUS
<1> DEFINE row == [old EXCEPT !.attempts = @ + 1]
<1>0. TypeOK /\ RowTypes /\ Sweeping(w)
  BY DEF AlertInv
<1>1. /\ pc[w] = "each" /\ pass[w] = 5 /\ Goto(w, "lookup")
      /\ UNCHANGED <<environment, pass, rules, seen, adapters, alerts, sends, crashes>>
  <2>1. pass[w] \in 1 .. 5
    BY <1>0, AlertValues
  <2> QED BY <2>1, PassNames DEF CountAttempt, In
<1>2. /\ faults' \in Nat /\ crashes' \in Nat /\ Troubles' <= MaxTroubles /\ faults <= faults'
      /\ Troubles <= Troubles' /\ Troubles' \in Nat /\ Troubles \in Nat /\ (~ok => Troubles' = Troubles + 1)
  BY <1>0, <1>1, DbCounts, AlertValues
<1>3. UNCHANGED <<alerts, sends, api, cond, rule, adapters, pass, rules, crashes>>
  BY <1>1 DEF environment
<1>4. /\ n \in DOMAIN notes /\ notes[n] = old
      /\ old.status = "PENDING" \/ (old.status = "FAILED" /\ old.attempts < MaxAttempts)
      /\ \A m \in todo[w] : /\ m.id \in DOMAIN notes /\ notes[m.id] = m
                            /\ m.status = "PENDING" \/ (m.status = "FAILED" /\ m.attempts < MaxAttempts)
  BY <1>0, <1>1 DEF Sweeping, Lists
<1>5. /\ old \in NotificationRow /\ old.attempts \in Nat /\ sends[n] \in Nat /\ old.alert \in DOMAIN alerts
      /\ MaxAttempts \in Nat \ {0} /\ MaxTroubles \in Nat /\ Troubles <= MaxTroubles
  BY <1>0, <1>4, NoteValues, AlertValues
<1>6. \A m \in DOMAIN notes : Settled(m)
  <2>1. \A v \in Sweepers : \A m : ~Holds(v, m)
    BY <1>1 DEF OneSweeper, Holds
  <2> QED BY <2>1 DEF NotesInv
<1>7. /\ old.status = "PENDING" => old.attempts <= Troubles /\ sends[n] <= Troubles
      /\ old.status = "FAILED" => sends[n] <= old.attempts + Troubles
      /\ sends[n] + 1 <= MaxAttempts + Troubles
      /\ old.attempts + 1 \in 0 .. MaxAttempts + MaxTroubles
  BY <1>2, <1>4, <1>5, <1>6 DEF Settled
<1>8. /\ row \in NotificationRow /\ row.id = n /\ row.alert = old.alert /\ row.status = old.status
      /\ row.attempts = old.attempts + 1
  BY <1>5, <1>7 DEF NotificationRow
<1>9. pc'[w] = "lookup" /\ pc' \in [Sweepers -> Points]
  BY <1>1, Stepped DEF Points
<1>10. Row(w)' = row /\ DOMAIN cur' = Sweepers /\ todo'[w] = todo[w] \ {old} /\ DOMAIN todo' = Sweepers
  BY <1>0, HoldRow DEF RowTypes
<1>11. ok => notes' = [notes EXCEPT ![n] = row] /\ Wait(row)
  OBVIOUS
<1>12. ~ok => UNCHANGED <<notes, waiting>>
  OBVIOUS
<1> HIDE DEF row
<1>13. /\ notes' \in Seq(NotificationRow) /\ DOMAIN notes' = DOMAIN notes /\ waiting' \subseteq DOMAIN notes
       /\ \A i \in DOMAIN notes : i # n => notes'[i] = notes[i]
       /\ notes'[n] = IF ok THEN row ELSE old
       /\ \A i \in DOMAIN notes' : notes'[i] \in NotificationRow /\ notes'[i].id = i /\ notes'[i].alert \in DOMAIN alerts
  <2>1. CASE ok
    <3>1. waiting' \subseteq DOMAIN notes
      BY <1>0, <1>4, <1>8, <1>11, <2>1 DEF Wait, TypeOK
    <3>2. row.id \in DOMAIN notes /\ row.alert \in DOMAIN alerts /\ notes' = [notes EXCEPT ![row.id] = row]
      BY <1>4, <1>5, <1>8, <1>11, <2>1
    <3>3. /\ notes' \in Seq(NotificationRow) /\ DOMAIN notes' = DOMAIN notes
          /\ \A i \in DOMAIN notes : notes'[i] = IF i = row.id THEN row ELSE notes[i]
          /\ \A i \in DOMAIN notes' : notes'[i] \in NotificationRow /\ notes'[i].id = i /\ notes'[i].alert \in DOMAIN alerts
      BY <1>0, <1>8, <3>2, SaveNoteKeeps
    <3> QED BY <1>4, <1>8, <2>1, <3>1, <3>3
  <2>2. CASE ~ok
    BY <1>0, <1>4, <1>12, <2>2, NoteValues DEF TypeOK, RowTypes
  <2> QED BY <2>1, <2>2
<1>14. \A m \in todo'[w] : m.id # n /\ notes'[m.id] = m
  BY <1>4, <1>10, <1>13
<1>15. Sweeping(w)'
  <2>1. Lists(w)'
    BY <1>1, <1>3, <1>4, <1>9, <1>10, <1>13, <1>14 DEF Lists
  <2>2. Writes(w)' /\ RoomToCreate(w)' /\ HeldUnresolved(w)'
    BY <1>1, <1>3, <1>9 DEF Writes, RoomToCreate, HeldUnresolved
  <2> QED BY <2>1, <2>2 DEF Sweeping
<1>16. AlertInv'
  <2>1. sends' \in Seq(Nat) /\ DOMAIN sends' = DOMAIN notes'
    BY <1>0, <1>3, <1>13 DEF TypeOK, RowTypes
  <2> QED BY <1>2, <1>3, <1>9, <1>10, <1>13, <1>15, <2>1, NotifyStep
<1>17. NotesInv'
  <2>1. Holds(w, n)'
    BY <1>8, <1>9, <1>10 DEF Holds
  <2>2. \A m \in DOMAIN notes' : m # n => Settled(m)'
    BY <1>0, <1>2, <1>3, <1>6, <1>13, StaysSettled
  <2>3. Ahead(w)' = 1
    BY <1>9 DEF Ahead
  <2>4. /\ notes'[n].status = old.status
        /\ notes'[n].attempts + Troubles' >= old.attempts + 1 + Troubles
        /\ notes'[n].attempts <= old.attempts + 1
    <3>1. CASE ok
      <4>1. notes'[n] = row
        BY <1>13, <3>1
      <4> QED BY <1>2, <1>5, <1>8, <4>1
    <3>2. CASE ~ok
      <4>1. notes'[n] = old
        BY <1>13, <3>2
      <4> QED BY <1>2, <1>5, <3>2, <4>1
    <3> QED BY <3>1, <3>2
  <2>5. notes'[n].attempts \in Nat
    BY <1>5, <1>8, <1>13
  <2>6. InFlight(w, n)'
    BY <1>2, <1>3, <1>4, <1>5, <1>7, <1>8, <1>9, <1>10, <2>3, <2>4, <2>5 DEF InFlight
  <2> QED BY <1>4, <1>13, <1>14, <2>1, <2>2, <2>6, InHand
<1> QED BY <1>16, <1>17

(* The send itself: it uses the attempt up that was counted for it.            *)
LEMMA AlertSend ==
  ASSUME OneSweeper, AlertInv, NotesInv, NEW w \in Sweepers, Send(w) PROVE AlertInv' /\ NotesInv'
<1> PICK n : n = Row(w).id
  OBVIOUS
<1> PICK status \in {"SENT", "FAILED"} : Hold(w, [Row(w) EXCEPT !.status = status])
  BY DEF Send
<1> PICK row : row = [Row(w) EXCEPT !.status = status]
  OBVIOUS
<1>0. TypeOK /\ RowTypes /\ Sweeping(w)
  BY DEF AlertInv
<1>1. /\ pc[w] = "send" /\ Goto(w, "save") /\ sends' = [sends EXCEPT ![n] = @ + 1]
      /\ UNCHANGED <<environment, pass, todo, rules, seen, adapters, alerts, notes, waiting, crashes, faults>>
  BY DEF Send
<1>2. UNCHANGED <<alerts, notes, waiting, api, cond, rule, adapters, pass, rules, todo, crashes, faults>>
  BY <1>1 DEF environment
<1>3. /\ pass[w] = 5 /\ n \in DOMAIN notes /\ InFlight(w, n)
      /\ \A m \in DOMAIN notes : m # n => Settled(m)
      /\ \A m \in todo[w] : m.id # n
  BY <1>1, HandOf
<1>4. pc'[w] = "save" /\ pc' \in [Sweepers -> Points] /\ Row(w)' = row /\ DOMAIN cur' = Sweepers
  BY <1>0, <1>1, Stepped, HoldRow DEF Points
<1>5. /\ row \in NotificationRow /\ row.id = n /\ row.alert \in DOMAIN alerts /\ row.attempts = Row(w).attempts
      /\ row.status # "PENDING"
  <2>1. Row(w) \in NotificationRow /\ Row(w).alert \in DOMAIN alerts
    BY <1>3 DEF InFlight
  <2> QED BY <2>1 DEF NotificationRow
<1>6. /\ sends' \in Seq(Nat) /\ DOMAIN sends' = DOMAIN notes' /\ sends'[n] = sends[n] + 1 /\ sends[n] \in Nat
      /\ \A m \in DOMAIN notes : m # n => sends'[m] = sends[m]
  <2>0. Len(sends) = Len(notes) /\ DOMAIN notes = 1 .. Len(notes) /\ sends[n] \in Nat
    BY <1>0, <1>3, NoteValues
  <2>1. n \in 1 .. Len(sends) /\ DOMAIN notes = 1 .. Len(sends) /\ sends[n] \in Nat /\ sends \in Seq(Nat) /\ sends[n] + 1 \in Nat
    BY <1>0, <1>3, <2>0 DEF RowTypes
  <2>2. /\ sends' \in Seq(Nat) /\ Len(sends') = Len(sends)
        /\ \A m \in 1 .. Len(sends) : sends'[m] = IF m = n THEN sends[n] + 1 ELSE sends[m]
    BY <1>1, <2>1, ExceptSeq
  <2>3. DOMAIN sends' = 1 .. Len(sends)
    BY <2>2, LenProperties
  <2> QED BY <1>2, <2>1, <2>2, <2>3
<1>7. Troubles \in Nat /\ Troubles' = Troubles /\ Troubles <= MaxTroubles /\ crashes \in Nat /\ faults \in Nat
  BY <1>0, <1>2, AlertValues DEF Troubles
<1>8. Sweeping(w)'
  <2>1. Lists(w)'
    BY <1>0, <1>1, <1>2, <1>3, <1>4 DEF Sweeping, Lists
  <2>2. Writes(w)' /\ RoomToCreate(w)' /\ HeldUnresolved(w)'
    BY <1>2, <1>3, <1>4 DEF Writes, RoomToCreate, HeldUnresolved
  <2> QED BY <2>1, <2>2 DEF Sweeping
<1>9. AlertInv'
  <2>1. /\ notes' \in Seq(NotificationRow) /\ waiting' \subseteq DOMAIN notes' /\ DOMAIN todo' = Sweepers
        /\ \A i \in DOMAIN notes' : notes'[i] \in NotificationRow /\ notes'[i].id = i /\ notes'[i].alert \in DOMAIN alerts
    BY <1>0, <1>2 DEF TypeOK, RowTypes
  <2>2. Troubles' <= MaxTroubles /\ crashes' \in Nat /\ faults' \in Nat /\ faults <= faults'
    BY <1>2, <1>7
  <2> QED BY <1>2, <1>4, <1>6, <1>8, <2>1, <2>2, NotifyStep
<1>10. NotesInv'
  <2>1. Holds(w, n)'
    BY <1>4, <1>5 DEF Holds
  <2>2. \A m \in DOMAIN notes' : m # n => Settled(m)'
    BY <1>0, <1>2, <1>3, <1>6, <1>7, StaysSettled
  <2>3. Ahead(w) = 1 /\ Ahead(w)' = 0
    BY <1>1, <1>4 DEF Ahead
  <2>4. InFlight(w, n)'
    BY <1>2, <1>3, <1>4, <1>5, <1>6, <1>7, <2>3 DEF InFlight
  <2> QED BY <1>2, <1>3, <2>1, <2>2, <2>4, InHand
<1> QED BY <1>9, <1>10

(* The outcome is saved, or lost with a failed statement.                     *)
LEMMA AlertSaveNotification ==
  ASSUME OneSweeper, AlertInv, NotesInv, NEW w \in Sweepers, SaveNotification(w) PROVE AlertInv' /\ NotesInv'
<1> PICK row : row = Row(w)
  OBVIOUS
<1> PICK ok \in BOOLEAN :
      /\ Db(ok)
      /\ IF ok THEN notes' = [notes EXCEPT ![row.id] = row] /\ Wait(row) ELSE UNCHANGED <<notes, waiting>>
  BY DEF SaveNotification
<1>0. TypeOK /\ RowTypes /\ Sweeping(w)
  BY DEF AlertInv
<1>1. /\ pc[w] = "save" /\ Goto(w, "each") /\ cur' = [cur EXCEPT ![w] = <<>>]
      /\ UNCHANGED <<environment, pass, todo, rules, seen, adapters, alerts, sends, crashes>>
  BY DEF SaveNotification, Drop
<1>2. /\ faults' \in Nat /\ crashes' \in Nat /\ Troubles' <= MaxTroubles /\ faults <= faults'
      /\ Troubles <= Troubles' /\ Troubles' \in Nat /\ Troubles \in Nat /\ (~ok => Troubles' = Troubles + 1)
  BY <1>0, <1>1, DbCounts, AlertValues
<1>3. UNCHANGED <<alerts, sends, api, cond, rule, adapters, pass, rules, todo, crashes>>
  BY <1>1 DEF environment
<1>4. /\ pass[w] = 5 /\ row.id \in DOMAIN notes /\ InFlight(w, row.id)
      /\ \A m \in DOMAIN notes : m # row.id => Settled(m)
      /\ \A m \in todo[w] : /\ m.id # row.id /\ m.id \in DOMAIN notes /\ notes[m.id] = m
                            /\ m.status = "PENDING" \/ (m.status = "FAILED" /\ m.attempts < MaxAttempts)
  BY <1>1, HandOf
<1>5. /\ row \in NotificationRow /\ row.alert \in DOMAIN alerts /\ row.status # "PENDING" /\ row.attempts \in Nat
      /\ sends[row.id] <= row.attempts + Troubles /\ sends[row.id] <= MaxAttempts + Troubles
      /\ notes[row.id].status = "PENDING" => notes[row.id].attempts <= Troubles + 1 /\ sends[row.id] <= Troubles + 1
      /\ notes[row.id].status = "FAILED" => sends[row.id] <= notes[row.id].attempts + Troubles
      /\ sends[row.id] \in Nat /\ notes[row.id].attempts \in Nat /\ MaxAttempts \in Nat
  <2>1. Ahead(w) = 0
    BY <1>1 DEF Ahead
  <2>2. sends[row.id] \in Nat /\ notes[row.id].attempts \in Nat /\ MaxAttempts \in Nat
    BY <1>0, <1>4, NoteValues, AlertValues
  <2>3. row \in NotificationRow /\ row.attempts \in Nat
    BY <1>4, RowValues DEF InFlight
  <2> QED BY <1>1, <1>4, <2>1, <2>2, <2>3 DEF InFlight
<1>6. pc'[w] = "each" /\ pc' \in [Sweepers -> Points] /\ DOMAIN cur' = Sweepers /\ DOMAIN todo' = Sweepers
  BY <1>0, <1>1, <1>3, Stepped DEF Points, RowTypes
<1>7. /\ notes' \in Seq(NotificationRow) /\ DOMAIN notes' = DOMAIN notes /\ waiting' \subseteq DOMAIN notes
      /\ \A i \in DOMAIN notes : i # row.id => notes'[i] = notes[i]
      /\ notes'[row.id] = IF ok THEN row ELSE notes[row.id]
      /\ \A i \in DOMAIN notes' : notes'[i] \in NotificationRow /\ notes'[i].id = i /\ notes'[i].alert \in DOMAIN alerts
  <2>1. CASE ok
    <3>1. waiting' \subseteq DOMAIN notes
      BY <1>0, <1>4, <2>1 DEF Wait, TypeOK
    <3>2. /\ notes' \in Seq(NotificationRow) /\ DOMAIN notes' = DOMAIN notes
          /\ \A i \in DOMAIN notes : notes'[i] = IF i = row.id THEN row ELSE notes[i]
          /\ \A i \in DOMAIN notes' : notes'[i] \in NotificationRow /\ notes'[i].id = i /\ notes'[i].alert \in DOMAIN alerts
      BY <1>0, <1>4, <1>5, <2>1, SaveNoteKeeps
    <3> QED BY <1>4, <2>1, <3>1, <3>2
  <2>2. CASE ~ok
    BY <1>0, <2>2, NoteValues DEF TypeOK, RowTypes
  <2> QED BY <2>1, <2>2
<1>8. Sweeping(w)'
  <2>1. Lists(w)'
    BY <1>3, <1>4, <1>6, <1>7 DEF Lists
  <2>2. Writes(w)' /\ RoomToCreate(w)' /\ HeldUnresolved(w)'
    BY <1>3, <1>4, <1>6 DEF Writes, RoomToCreate, HeldUnresolved
  <2> QED BY <2>1, <2>2 DEF Sweeping
<1>9. AlertInv'
  <2>1. sends' \in Seq(Nat) /\ DOMAIN sends' = DOMAIN notes'
    BY <1>0, <1>3, <1>7 DEF TypeOK, RowTypes
  <2> QED BY <1>2, <1>3, <1>6, <1>7, <1>8, <2>1, NotifyStep
<1>10. NotesInv'
  <2>1. \A m \in DOMAIN notes : m # row.id => Settled(m)'
    BY <1>0, <1>2, <1>3, <1>4, <1>7, StaysSettled
  <2>2. Settled(row.id)'
    <3> PICK n : n = row.id
      OBVIOUS
    <3>0. sends'[n] = sends[n]
      BY <1>3
    <3>1. CASE ok
      <4>1. notes'[n] = row
        BY <1>7, <3>1
      <4> QED BY <1>2, <1>5, <3>0, <4>1 DEF Settled
    <3>2. CASE ~ok
      <4>1. notes'[n] = notes[n] /\ Troubles' = Troubles + 1
        BY <1>2, <1>7, <3>2
      <4> QED BY <1>2, <1>5, <3>0, <4>1 DEF Settled
    <3> QED BY <3>1, <3>2
  <2> QED BY <1>6, <1>7, <2>1, <2>2, OutOfHand
<1> QED BY <1>9, <1>10

(* A sequence of n rows after another.                                        *)
LEMMA RowsAfter ==
  ASSUME NEW T, NEW s \in Seq(T), NEW k \in Nat, NEW f \in [1 .. k -> T]
  PROVE  /\ s \o f \in Seq(T) /\ DOMAIN (s \o f) = 1 .. Len(s) + k /\ Len(s) \in Nat /\ DOMAIN s = 1 .. Len(s)
         /\ \A i \in DOMAIN s : (s \o f)[i] = s[i]
         /\ \A i \in DOMAIN (s \o f) : i \notin DOMAIN s => i - Len(s) \in 1 .. k /\ (s \o f)[i] = f[i - Len(s)]
<1>1. f \in Seq(T) /\ Len(f) = k
  OBVIOUS
<1>2. Len(s) \in Nat /\ DOMAIN s = 1 .. Len(s)
  BY LenProperties
<1>3. /\ s \o f \in Seq(T) /\ Len(s \o f) = Len(s) + k
      /\ \A i \in 1 .. Len(s) + k : (s \o f)[i] = IF i <= Len(s) THEN s[i] ELSE f[i - Len(s)]
  BY <1>1, <1>2, ConcatProperties
<1>4. DOMAIN (s \o f) = 1 .. Len(s) + k
  BY <1>3, LenProperties
<1> QED BY <1>2, <1>3, <1>4

(* The notifications of a new alert are inserted, as far as they can be.        *)
LEMMA AlertCreateNotifications ==
  ASSUME OneSweeper, AlertInv, NotesInv, NEW w \in Sweepers, CreateNotifications(w) PROVE AlertInv' /\ NotesInv'
<1>0. TypeOK /\ RowTypes /\ Sweeping(w)
  BY DEF AlertInv
<1> PICK S \in SUBSET adapters[w] :
      /\ IF S = adapters[w] THEN UNCHANGED faults
         ELSE crashes + faults + Cardinality(adapters[w] \ S) <= MaxTroubles /\ faults' = faults + Cardinality(adapters[w] \ S)
      /\ \E order \in [1 .. Cardinality(S) -> S] :
           notes' = notes \o [i \in DOMAIN order |->
                      [id |-> Len(notes) + i, alert |-> Row(w).id, channel |-> order[i], status |-> "PENDING", attempts |-> 0]]
      /\ sends' = sends \o [i \in 1 .. Cardinality(S) |-> 0]
  BY DEF CreateNotifications
<1> PICK order \in [1 .. Cardinality(S) -> S] :
      notes' = notes \o [i \in DOMAIN order |->
                 [id |-> Len(notes) + i, alert |-> Row(w).id, channel |-> order[i], status |-> "PENDING", attempts |-> 0]]
  OBVIOUS
<1> PICK k : k = Cardinality(S)
  OBVIOUS
<1> DEFINE row(i) == [id |-> Len(notes) + i, alert |-> Row(w).id, channel |-> order[i], status |-> "PENDING", attempts |-> 0]
<1>1. /\ pc[w] = "request" /\ Goto(w, "each") /\ cur' = [cur EXCEPT ![w] = <<>>]
      /\ UNCHANGED <<environment, pass, todo, rules, seen, adapters, alerts, waiting, crashes>>
  BY DEF CreateNotifications, Drop
<1>2. UNCHANGED <<alerts, waiting, api, cond, rule, adapters, pass, rules, todo, crashes>>
  BY <1>1 DEF environment
<1>3. S \subseteq Channels /\ adapters[w] \subseteq Channels
  BY <1>0 DEF RowTypes
<1>4. IsFiniteSet(S) /\ k \in Nat /\ Cardinality(adapters[w] \ S) \in Nat
  BY <1>3, AlertsAssumption, FS_Subset, FS_CardinalityType
<1>5. /\ faults' \in Nat /\ crashes' \in Nat /\ Troubles' <= MaxTroubles /\ faults <= faults'
      /\ Troubles <= Troubles' /\ Troubles' \in Nat /\ Troubles \in Nat /\ MaxTroubles \in Nat /\ MaxAttempts \in Nat
  <2>1. /\ crashes \in Nat /\ faults \in Nat /\ crashes + faults <= MaxTroubles
        /\ MaxTroubles \in Nat /\ MaxAttempts \in Nat /\ crashes' = crashes
    BY <1>0, <1>2, AlertValues DEF Troubles
  <2>2. CASE UNCHANGED faults
    BY <2>1, <2>2 DEF Troubles
  <2>3. CASE /\ crashes + faults + Cardinality(adapters[w] \ S) <= MaxTroubles
             /\ faults' = faults + Cardinality(adapters[w] \ S)
    <3> PICK d : d = Cardinality(adapters[w] \ S)
      OBVIOUS
    <3>1. d \in Nat /\ crashes + faults + d <= MaxTroubles /\ faults' = faults + d
      BY <1>4, <2>3
    <3> QED BY ONLY <2>1, <3>1 DEF Troubles
  <2> QED BY <2>2, <2>3
<1>6. pass[w] <= 2 /\ Row(w).id \in DOMAIN alerts
  BY <1>0, <1>1 DEF Sweeping, Writes
<1>7. \A i \in 1 .. k : row(i) \in NotificationRow /\ row(i).id = Len(notes) + i /\ row(i).alert \in DOMAIN alerts
                        /\ row(i).status = "PENDING" /\ row(i).attempts = 0
  <2> SUFFICES ASSUME NEW i \in 1 .. k
               PROVE  row(i) \in NotificationRow /\ row(i).id = Len(notes) + i /\ row(i).alert \in DOMAIN alerts
                      /\ row(i).status = "PENDING" /\ row(i).attempts = 0
    OBVIOUS
  <2>1. Len(notes) + i \in Nat \ {0} /\ 0 \in 0 .. MaxAttempts + MaxTroubles
    BY <1>0, <1>4, <1>5, NoteValues
  <2>3. order[i] \in Channels
    BY <1>3
  <2>2. Row(w).id \in 1 .. MaxAlerts
    BY <1>0, <1>6, AlertValues
  <2> QED BY <1>6, <2>1, <2>2, <2>3 DEF NotificationRow
<1>8. notes' = notes \o [i \in 1 .. k |-> row(i)] /\ sends' = sends \o [i \in 1 .. k |-> 0]
  OBVIOUS
<1> HIDE DEF row
<1> DEFINE added == [i \in 1 .. k |-> row(i)]
           zeros == [i \in 1 .. k |-> 0]
<1>9. added \in [1 .. k -> NotificationRow] /\ zeros \in [1 .. k -> Nat]
      /\ \A i \in 1 .. k : added[i] = row(i) /\ zeros[i] = 0
  BY <1>7
<1>10. notes' = notes \o added /\ sends' = sends \o zeros
  BY <1>8
<1> HIDE DEF added, zeros
<1>11. /\ notes' \in Seq(NotificationRow) /\ DOMAIN notes' = 1 .. Len(notes) + k /\ Len(notes) \in Nat
       /\ DOMAIN notes = 1 .. Len(notes) /\ \A i \in DOMAIN notes : notes'[i] = notes[i]
       /\ \A i \in DOMAIN notes' : i \notin DOMAIN notes => i - Len(notes) \in 1 .. k /\ notes'[i] = added[i - Len(notes)]
  <2>1. notes \in Seq(NotificationRow)
    BY <1>0 DEF RowTypes
  <2>2. /\ notes \o added \in Seq(NotificationRow) /\ DOMAIN (notes \o added) = 1 .. Len(notes) + k /\ Len(notes) \in Nat
        /\ DOMAIN notes = 1 .. Len(notes) /\ \A i \in DOMAIN notes : (notes \o added)[i] = notes[i]
        /\ \A i \in DOMAIN (notes \o added) : i \notin DOMAIN notes =>
              i - Len(notes) \in 1 .. k /\ (notes \o added)[i] = added[i - Len(notes)]
    <3>1. added \in [1 .. k -> NotificationRow] /\ k \in Nat
      BY <1>4, <1>9
    <3> QED BY ONLY <2>1, <3>1, RowsAfter
  <2> QED BY <1>10, <2>2
<1>12. /\ sends' \in Seq(Nat) /\ DOMAIN sends' = 1 .. Len(sends) + k /\ DOMAIN sends = 1 .. Len(sends)
       /\ \A i \in DOMAIN sends : sends'[i] = sends[i]
       /\ \A i \in DOMAIN sends' : i \notin DOMAIN sends => i - Len(sends) \in 1 .. k /\ sends'[i] = zeros[i - Len(sends)]
  <2>1. sends \in Seq(Nat)
    BY <1>0 DEF RowTypes
  <2>2. /\ sends \o zeros \in Seq(Nat) /\ DOMAIN (sends \o zeros) = 1 .. Len(sends) + k
        /\ DOMAIN sends = 1 .. Len(sends) /\ \A i \in DOMAIN sends : (sends \o zeros)[i] = sends[i]
        /\ \A i \in DOMAIN (sends \o zeros) : i \notin DOMAIN sends =>
              i - Len(sends) \in 1 .. k /\ (sends \o zeros)[i] = zeros[i - Len(sends)]
    <3>1. zeros \in [1 .. k -> Nat] /\ k \in Nat
      BY <1>4, <1>9
    <3> QED BY ONLY <2>1, <3>1, RowsAfter
  <2> QED BY <1>10, <2>2
<1>13. Len(sends) = Len(notes) /\ DOMAIN sends' = DOMAIN notes' /\ DOMAIN sends = DOMAIN notes
  BY <1>0, <1>11, <1>12, NoteValues
<1>14. \A i \in DOMAIN notes' : i \notin DOMAIN notes =>
         /\ notes'[i] \in NotificationRow /\ notes'[i].id = i /\ notes'[i].alert \in DOMAIN alerts
         /\ notes'[i].status = "PENDING" /\ notes'[i].attempts = 0 /\ sends'[i] = 0
  <2> SUFFICES ASSUME NEW i \in DOMAIN notes', i \notin DOMAIN notes
               PROVE  /\ notes'[i] \in NotificationRow /\ notes'[i].id = i /\ notes'[i].alert \in DOMAIN alerts
                      /\ notes'[i].status = "PENDING" /\ notes'[i].attempts = 0 /\ sends'[i] = 0
    OBVIOUS
  <2>1. i - Len(notes) \in 1 .. k /\ notes'[i] = row(i - Len(notes))
    BY <1>9, <1>11
  <2>3. i \in 1 .. Len(notes) + k /\ Len(notes) \in Nat
    BY <1>11
  <2>4. Len(notes) + (i - Len(notes)) = i
    BY <1>4, <2>3
  <2>2. sends'[i] = 0
    BY <1>9, <1>12, <1>13
  <2> QED BY <1>7, <2>1, <2>2, <2>4
<1>15. \A i \in DOMAIN notes' : notes'[i] \in NotificationRow /\ notes'[i].id = i /\ notes'[i].alert \in DOMAIN alerts
  <2> SUFFICES ASSUME NEW i \in DOMAIN notes', i \in DOMAIN notes
               PROVE  notes'[i] \in NotificationRow /\ notes'[i].id = i /\ notes'[i].alert \in DOMAIN alerts
    BY <1>14
  <2>1. notes[i] \in NotificationRow /\ notes[i].id = i /\ notes[i].alert \in DOMAIN alerts
    BY <1>0, NoteValues
  <2> QED BY <1>11, <2>1
<1>16. pc'[w] = "each" /\ pc' \in [Sweepers -> Points] /\ DOMAIN cur' = Sweepers /\ DOMAIN todo' = Sweepers
  BY <1>0, <1>1, <1>2, Stepped DEF Points, RowTypes
<1>17. Sweeping(w)'
  <2>1. pass[w] \in 1 .. 5
    BY <1>0, AlertValues
  <2>2. Lists(w)'
    BY <1>0, <1>2, <1>6, <1>16, <2>1 DEF Sweeping, Lists
  <2>3. Writes(w)' /\ RoomToCreate(w)'
    BY <1>16 DEF Writes, RoomToCreate
  <2>4. HeldUnresolved(w)'
    BY <1>0, <1>1, <1>2 DEF Sweeping, HeldUnresolved
  <2> QED BY <2>2, <2>3, <2>4 DEF Sweeping
<1>18. AlertInv'
  <2>1. waiting' \subseteq DOMAIN notes'
    <3>1. DOMAIN notes \subseteq DOMAIN notes'
      BY <1>4, <1>11
    <3> QED BY <1>0, <1>2, <3>1 DEF TypeOK
  <2> QED BY <1>2, <1>5, <1>11, <1>12, <1>13, <1>15, <1>16, <1>17, <2>1, NotifyStep
<1>19. NotesInv'
  <2>1. \A m \in DOMAIN notes : Settled(m)
    <3>1. \A v \in Sweepers : \A m : ~Holds(v, m)
      BY <1>1 DEF OneSweeper, Holds
    <3> QED BY <3>1 DEF NotesInv
  <2>2. \A m \in DOMAIN notes' : Settled(m)'
    <3> SUFFICES ASSUME NEW m \in DOMAIN notes' PROVE Settled(m)'
      OBVIOUS
    <3>1. CASE m \in DOMAIN notes
      <4>1. notes'[m] = notes[m] /\ sends'[m] = sends[m] /\ Settled(m)
        BY <1>11, <1>12, <1>13, <2>1, <3>1
      <4> QED BY <1>0, <1>5, <3>1, <4>1, StaysSettled
    <3>2. CASE m \notin DOMAIN notes
      <4>1. notes'[m].status = "PENDING" /\ notes'[m].attempts = 0 /\ sends'[m] = 0
        BY <1>14, <3>2
      <4>2. 0 <= Troubles' /\ 0 <= MaxAttempts + Troubles'
        BY <1>5
      <4> QED BY <4>1, <4>2 DEF Settled
    <3> QED BY <3>1, <3>2
  <2> QED BY <1>16, <2>2, OutOfHand
<1> QED BY <1>18, <1>19

-----------------------------------------------------------------------------
(* No alert, no request, no notification at the start.                        *)
LEMMA AlertInit == ASSUME Init PROVE AlertInv /\ NotesInv
<1>1. /\ alerts = <<>> /\ notes = <<>> /\ sends = <<>> /\ waiting = {} /\ api = {}
      /\ pass = [w \in Sweepers |-> 1] /\ pc = [w \in Sweepers |-> "idle"]
      /\ todo = [w \in Sweepers |-> {}] /\ cur = [w \in Sweepers |-> <<>>]
      /\ rules = [w \in Sweepers |-> NoRule] /\ adapters = [w \in Sweepers |-> Channels]
      /\ crashes = 0 /\ faults = 0 /\ cond = [c \in Causes |-> "none"] /\ rule \in [Causes -> Rule]
  BY DEF Init, Rule
<1>2. DOMAIN alerts = {} /\ DOMAIN notes = {} /\ DOMAIN sends = {}
  BY <1>1
<1>3. TypeOK
  BY <1>1, <1>2, PassNames DEF TypeOK, Points
<1>4. RowTypes
  BY <1>1, AlertsAssumption DEF RowTypes, NoRule, Rule, Troubles
<1>5. ApiCopies
  BY <1>1 DEF ApiCopies
<1>6. LiveBounded
  <2> SUFFICES ASSUME NEW c \in Causes PROVE Cardinality(Live(c)) <= 1 + faults
    BY DEF LiveBounded
  <2>1. Live(c) = {}
    BY <1>2 DEF Live
  <2> QED BY <1>1, <2>1, FS_EmptySet
<1>7. \A w \in Sweepers : Sweeping(w)
  BY <1>1 DEF Sweeping, Lists, Writes, HeldUnresolved, RoomToCreate
<1>8. NotesInv
  <2>1. \A w \in Sweepers : \A n : ~Holds(w, n)
    BY <1>1 DEF Holds
  <2> QED BY <1>1, <1>2, <2>1 DEF NotesInv
<1> QED BY <1>3, <1>4, <1>5, <1>6, <1>7, <1>8 DEF AlertInv

(* The steps that leave the notifications alone.                              *)
LEMMA NotesQuiet ==
  ASSUME OneSweeper, AlertInv, NotesInv, NEW w \in Sweepers,
         \/ StartSweep(w) \/ List(w) \/ EndPass(w) \/ OpenEach(w) \/ SaveSeverity(w) \/ CreateAlert(w)
         \/ ReadSamples(w) \/ ResolveEach(w) \/ SaveResolved(w) \/ Restart(w)
  PROVE  NotesInv'
<1>0. TypeOK /\ RowTypes
  BY DEF AlertInv
<1>1. UNCHANGED <<notes, sends, crashes>> /\ (UNCHANGED faults \/ \E ok \in BOOLEAN : Db(ok))
  BY DEF StartSweep, List, EndPass, OpenEach, SaveSeverity, CreateAlert, ReadSamples, ResolveEach, SaveResolved, Restart
<1>2. Troubles' \in Nat /\ Troubles <= Troubles'
  <2>1. CASE UNCHANGED faults
    BY <1>0, <1>1, <2>1, AlertValues DEF Troubles
  <2>2. CASE \E ok \in BOOLEAN : Db(ok)
    BY <1>0, <1>1, <2>2, DbCounts
  <2> QED BY <1>1, <2>1, <2>2
<1>3. pc[w] \notin {"lookup", "send", "save"}
  BY DEF StartSweep, List, EndPass, OpenEach, SaveSeverity, CreateAlert, ReadSamples, ResolveEach, SaveResolved, Restart, In
<1>4. \E point \in {"idle", "list", "sample", "each", "severity", "create", "request", "resolve"} : Goto(w, point)
  BY DEF StartSweep, List, EndPass, OpenEach, SaveSeverity, CreateAlert, ReadSamples, ResolveEach, SaveResolved, Restart
<1>5. pc'[w] \notin {"lookup", "send", "save"}
  BY <1>0, <1>4 DEF Goto, TypeOK
<1> QED BY <1>1, <1>2, <1>3, <1>5, QuietStep

(* A crash pays for what was in hand.                                        *)
LEMMA NotesCrash == ASSUME OneSweeper, AlertInv, NotesInv, NEW w \in Sweepers, Crash(w) PROVE NotesInv'
<1>0. TypeOK /\ RowTypes
  BY DEF AlertInv
<1>1. crashes' = crashes + 1 /\ Goto(w, "down") /\ UNCHANGED <<notes, sends, faults>>
  BY DEF Crash
<1>2. Troubles \in Nat /\ Troubles' = Troubles + 1 /\ MaxAttempts \in Nat
  BY <1>0, <1>1, AlertValues DEF Troubles
<1>3. pc'[w] = "down"
  BY <1>1, Stepped DEF Points
<1>4. ASSUME NEW m \in DOMAIN notes PROVE Settled(m)'
  <2>1. CASE pc[w] \in {"lookup", "send", "save"} /\ Row(w).id = m
    <3>1. InFlight(w, m)
      BY <2>1, HandOf
    <3>2. Ahead(w) \in {0, 1} /\ notes[m].attempts \in Nat /\ sends[m] \in Nat
      BY <1>0, NoteValues DEF Ahead
    <3>3. /\ sends[m] <= MaxAttempts + Troubles
          /\ notes[m].status = "PENDING" => notes[m].attempts <= Troubles + 1 /\ sends[m] <= Troubles + 1
          /\ notes[m].status = "FAILED" => sends[m] <= notes[m].attempts + Troubles
      BY <1>2, <3>1, <3>2 DEF InFlight
    <3> QED BY <1>1, <1>2, <3>2, <3>3 DEF Settled
  <2>2. CASE ~(pc[w] \in {"lookup", "send", "save"} /\ Row(w).id = m)
    <3>1. Settled(m)
      BY <2>2 DEF NotesInv, Holds, OneSweeper
    <3> QED BY <1>0, <1>1, <1>2, <3>1, StaysSettled
  <2> QED BY <2>1, <2>2
<1> QED BY <1>1, <1>3, <1>4, OutOfHand

(* Every step keeps the invariant.                                           *)
LEMMA AlertNext == ASSUME OneSweeper, AlertInv, NotesInv, [Next]_vars PROVE AlertInv' /\ NotesInv'
<1>1. ASSUME NEW w \in Sweepers, Sweep(w) PROVE AlertInv' /\ NotesInv'
  <2>1. CASE StartSweep(w)  BY <2>1, AlertStartSweep, NotesQuiet
  <2>2. CASE List(w)  BY <2>2, AlertList, NotesQuiet
  <2>3. CASE EndPass(w)  BY <2>3, AlertEndPass, NotesQuiet
  <2>4. CASE OpenEach(w)  BY <2>4, AlertOpenEach, NotesQuiet
  <2>5. CASE SaveSeverity(w)  BY <2>5, AlertSaveSeverity, NotesQuiet
  <2>6. CASE CreateAlert(w)  BY <2>6, AlertCreate, NotesQuiet
  <2>7. CASE CreateNotifications(w)  BY <2>7, AlertCreateNotifications
  <2>8. CASE ReadSamples(w)  BY <2>8, AlertReadSamples, NotesQuiet
  <2>9. CASE ResolveEach(w)  BY <2>9, AlertResolveEach, NotesQuiet
  <2>10. CASE SaveResolved(w)  BY <2>10, AlertSaveResolved, NotesQuiet
  <2>11. CASE CountAttempt(w)  BY <2>11, AlertCountAttempt
  <2>12. CASE Lookup(w)  BY <2>12, AlertLookup
  <2>13. CASE Send(w)  BY <2>13, AlertSend
  <2>14. CASE SaveNotification(w)  BY <2>14, AlertSaveNotification
  <2> QED BY <1>1, <2>1, <2>2, <2>3, <2>4, <2>5, <2>6, <2>7, <2>8, <2>9, <2>10, <2>11, <2>12, <2>13, <2>14 DEF Sweep
<1>2. ASSUME NEW w \in Sweepers, Crash(w) PROVE AlertInv' /\ NotesInv'
  BY <1>2, AlertCrash, NotesCrash
<1>3. ASSUME NEW w \in Sweepers, Restart(w) PROVE AlertInv' /\ NotesInv'
  BY <1>3, AlertRestart, NotesQuiet
<1>4. ASSUME NEW c \in Causes, NEW state \in {"none", "firing", "clear"}, CauseChanges(c, state) PROVE AlertInv' /\ NotesInv'
  BY <1>4, AlertCauseChanges
<1>5. CASE DelayEnds
  BY <1>5, AlertDelayEnds
<1>6. CASE ActivateRules
  BY <1>6, AlertActivateRules
<1>7. ASSUME NEW a \in Rows(alerts), ReadForAcknowledge(a) PROVE AlertInv' /\ NotesInv'
  BY <1>7, AlertReadForAcknowledge
<1>8. ASSUME NEW a \in api, Acknowledge(a) PROVE AlertInv' /\ NotesInv'
  BY <1>8, AlertAcknowledge
<1>9. CASE UNCHANGED vars
  <2>1. UNCHANGED <<alerts, notes, sends, api, sweeping, crashes, faults, cond, rule, waiting>>
    BY <1>9 DEF vars, environment, sweeping
  <2> QED BY <2>1, AroundStep DEF AlertInv, TypeOK
<1> QED BY <1>1, <1>2, <1>3, <1>4, <1>5, <1>6, <1>7, <1>8, <1>9 DEF Next

(* An unresolved alert is live, and there is one for each of their numbers.     *)
LEMMA OneOpen == ASSUME AlertInv PROVE OneOpenPerCause
<1>0. TypeOK /\ RowTypes
  BY DEF AlertInv
<1> SUFFICES ASSUME NEW c \in Causes PROVE Cardinality({a \in Unresolved : a.cause = c}) <= 1 + faults
  BY DEF OneOpenPerCause
<1> DEFINE open == {a \in Unresolved : a.cause = c}
           number == [a \in open |-> a.id]
<1>1. \A a \in open : a.id \in Live(c) /\ alerts[a.id] = a
  <2> SUFFICES ASSUME NEW a \in open PROVE a.id \in Live(c) /\ alerts[a.id] = a
    OBVIOUS
  <2>1. PICK i \in DOMAIN alerts : a = alerts[i] /\ a.status # "RESOLVED" /\ a.cause = c
    BY DEF Unresolved, Rows
  <2> QED BY <1>0, <2>1, AlertValues DEF Live
<1> HIDE DEF open
<1>2. number \in Injection(open, Live(c))
  <2>1. number \in [open -> Live(c)] /\ \A a, b \in open : number[a] = number[b] => a = b
    BY <1>1
  <2> QED BY <2>1 DEF Injection, IsInjective
<1>3. IsFiniteSet(Live(c)) /\ Cardinality(Live(c)) \in Nat /\ Cardinality(Live(c)) <= 1 + faults /\ faults \in Nat
  BY <1>0, LiveFinite DEF AlertInv, LiveBounded, RowTypes
<1>4. IsFiniteSet(open) /\ Cardinality(open) <= Cardinality(Live(c))
  BY <1>2, <1>3, FS_Injection
<1>5. Cardinality(open) \in Nat
  BY <1>4, FS_CardinalityType
<1>6. Cardinality(open) <= 1 + faults
  BY <1>3, <1>4, <1>5
<1> QED BY <1>6 DEF open

(* Settled or in hand, a notification was sent no more than that.              *)
LEMMA SendsPaid == ASSUME AlertInv, NotesInv PROVE SendsBounded
<1>0. TypeOK /\ RowTypes
  BY DEF AlertInv
<1> SUFFICES ASSUME NEW n \in DOMAIN notes PROVE sends[n] <= MaxAttempts + crashes + faults
  BY <1>0 DEF SendsBounded, TypeOK
<1>1. sends[n] \in Nat /\ MaxAttempts \in Nat /\ crashes \in Nat /\ faults \in Nat /\ Troubles = crashes + faults
  BY <1>0, NoteValues, AlertValues DEF Troubles
<1>2. CASE \A w \in Sweepers : ~Holds(w, n)
  BY <1>1, <1>2 DEF NotesInv, Settled
<1>3. ASSUME NEW w \in Sweepers, Holds(w, n) PROVE sends[n] <= MaxAttempts + Troubles
  <2>1. InFlight(w, n) /\ Ahead(w) \in {0, 1}
    BY <1>3 DEF NotesInv, Ahead
  <2> QED BY <1>1, <2>1 DEF InFlight
<1> QED BY <1>1, <1>2, <1>3

(* While one process sweeps and no request outlasts the time between two sweeps, *)
(* a cause has one unresolved alert and one more for each look-up that failed,  *)
(* whatever was acknowledged, resolved and saved from old copies in between; a   *)
(* notification is sent at most as often as its attempts, and once more for each *)
(* crash and lost write (alerts.go:71-250, notify.go:189-250).                 *)
THEOREM AlertsSound == ASSUME OneSweeper PROVE Spec => []AlertRowsSound
<1>1. Init => AlertInv /\ NotesInv
  BY AlertInit
<1>2. AlertInv /\ NotesInv /\ [Next]_vars => AlertInv' /\ NotesInv'
  BY AlertNext
<1>3. AlertInv /\ NotesInv => AlertRowsSound
  BY OneOpen, SendsPaid DEF AlertInv, AlertRowsSound
<1> QED BY <1>1, <1>2, <1>3, PTL DEF Spec
=============================================================================
