--------------------------- MODULE TaskIntakeProofs ---------------------------
(***************************************************************************)
(* Proofs about TaskIntake, for every set of requests and of scenarios and any *)
(* number of troubles: a key stands for one task and a retry gets it; a task    *)
(* that may run can be accounted for; a stored output holds nothing of a value *)
(* that was to be redacted; a stored text is the original with the values     *)
(* replaced.  The middle of the module is about the operators of PIIText: what *)
(* a fold, a detector, the resolution of overlaps, a mask and the splices of a *)
(* text return, for any policy and any document.                             *)
(***************************************************************************)
EXTENDS TaskIntake, FiniteSetTheorems, SequenceTheorems, WellFoundedInduction, TLAPS

Fields == {"at", "source", "doc", "name", "keyed", "policy", "raw", "rawName", "found", "named", "next", "counts", "lost",
           "blocked", "scan", "hungUp", "reply"}
RowFields == {"keyed", "doc", "name", "scan", "status"}

IsFcn(f) == f = [x \in DOMAIN f |-> f[x]]
Shaped(r) == IsFcn(r) /\ DOMAIN r = Fields
Shape ==
    /\ IsFcn(req) /\ DOMAIN req = Requests /\ \A c \in Requests : Shaped(req[c])
    /\ DOMAIN after = Requests /\ DOMAIN rows \subseteq Requests
    /\ \A j \in DOMAIN rows : IsFcn(rows[j]) /\ DOMAIN rows[j] = RowFields
    /\ scenario.keyed \in BOOLEAN /\ troubles \in Nat

(* What a step of one request leaves alone. *)
Others(c) == \A d \in Requests : d # c => req'[d] = req[d]

-----------------------------------------------------------------------------
(* Records of requests and rows, and what replacing one of them does.         *)
LEMMA IdleShaped ==
  /\ Shaped(Idle) /\ Idle.at = "idle" /\ Idle.source = "JOB_PAYLOAD" /\ Idle.keyed = FALSE
  /\ Idle.named = <<>> /\ DOMAIN Idle.counts = {} /\ Idle.counts = [t \in {} |-> 0] /\ Idle.scan = ""
BY DEF Idle, Fields, Shaped, IsFcn

LEMMA SetDoes ==
  ASSUME Shape, NEW c \in Requests, NEW r, Set(c, r)
  PROVE  IsFcn(req') /\ DOMAIN req' = Requests /\ req'[c] = r /\ Others(c)
BY DEF Shape, Set, Others, IsFcn

LEMMA RowShaped ==
  ASSUME NEW c
  PROVE  /\ IsFcn(Row(c)) /\ DOMAIN Row(c) = RowFields
         /\ Row(c).keyed = req[c].keyed /\ Row(c).scan = req[c].scan
BY DEF Row, RowFields, IsFcn

(* A statement that fails is counted, or its client had hung up before. *)
LEMMA DbDoes ==
  ASSUME Shape, NEW ok \in BOOLEAN, Db(ok)
  PROVE  troubles' \in Nat /\ troubles <= troubles' /\ (troubles' = 0 => ok)
BY DEF Db, Shape

LEMMA StatementDoes ==
  ASSUME Shape, NEW c, NEW ok \in BOOLEAN, Statement(c, ok)
  PROVE  troubles' \in Nat /\ troubles <= troubles'
BY DbDoes DEF Statement, Shape

-----------------------------------------------------------------------------
(* What every action does to its request.                                    *)
LEMMA LookupDoes ==
  ASSUME Shape, NEW c \in Requests, Lookup(c)
  PROVE  /\ Shape' /\ Others(c) /\ UNCHANGED <<scenario, tables>> /\ troubles <= troubles'
         /\ req[c].at = "idle" /\ c \notin Reruns
         /\ after' = [after EXCEPT ![c] = {d \in Requests : req[d].at = "done"}]
         /\ req'[c].source = "JOB_PAYLOAD" /\ req'[c].named = <<>> /\ req'[c].counts = [t \in {} |-> 0]
         /\ req'[c].keyed = scenario.keyed
         /\ \/ scenario.keyed /\ req'[c].at = "done" /\ req'[c].reply \in Requests /\ HasKey(req'[c].reply)
            \/ /\ req'[c].at = "scan"
               /\ (scenario.keyed /\ troubles' = 0) => \A j \in Requests : ~HasKey(j)
<1>1. PICK ok \in BOOLEAN :
         /\ Db(ok)
         /\ \/ /\ scenario.keyed /\ ok
               /\ \E j \in Requests : Existing(j) /\ Set(c, [Idle EXCEPT !.at = "done", !.reply = j, !.keyed = TRUE])
            \/ /\ ~(scenario.keyed /\ ok /\ \E j \in Requests : Existing(j))
               /\ Set(c, [Idle EXCEPT !.at = "scan", !.doc = scenario.doc, !.name = scenario.name, !.keyed = scenario.keyed])
  BY DEF Lookup
<1>2. troubles' \in Nat /\ troubles <= troubles' /\ (troubles' = 0 => ok)
  BY <1>1, DbDoes
<1>3. /\ UNCHANGED <<scenario, tables>> /\ req[c].at = "idle" /\ c \notin Reruns
      /\ after' = [after EXCEPT ![c] = {d \in Requests : req[d].at = "done"}]
  BY DEF Lookup
<1>4. ASSUME NEW r, Shaped(r), Set(c, r) PROVE Shape' /\ req'[c] = r /\ Others(c)
  BY <1>2, <1>3, <1>4, SetDoes DEF Shape, Shaped, Others, tables
<1>5. CASE \E j \in Requests : scenario.keyed /\ Existing(j) /\ Set(c, [Idle EXCEPT !.at = "done", !.reply = j, !.keyed = TRUE])
  <2>1. PICK j \in Requests : scenario.keyed /\ Existing(j) /\ Set(c, [Idle EXCEPT !.at = "done", !.reply = j, !.keyed = TRUE])
    BY <1>5
  <2> DEFINE r == [Idle EXCEPT !.at = "done", !.reply = j, !.keyed = TRUE]
  <2>2. Shaped(r) /\ r.at = "done" /\ r.reply = j /\ r.keyed = TRUE /\ r.source = "JOB_PAYLOAD" /\ r.named = <<>>
        /\ r.counts = [t \in {} |-> 0]
    BY IdleShaped DEF Shaped, IsFcn, Fields
  <2>3. Shape' /\ req'[c] = r /\ Others(c)
    BY <2>1, <2>2, <1>4
  <2> HIDE DEF r
  <2> QED BY <1>2, <1>3, <2>1, <2>2, <2>3 DEF Existing, Shape
<1>6. CASE /\ ~(scenario.keyed /\ ok /\ \E j \in Requests : Existing(j))
           /\ Set(c, [Idle EXCEPT !.at = "scan", !.doc = scenario.doc, !.name = scenario.name, !.keyed = scenario.keyed])
  <2> DEFINE r == [Idle EXCEPT !.at = "scan", !.doc = scenario.doc, !.name = scenario.name, !.keyed = scenario.keyed]
  <2>2. Shaped(r) /\ r.at = "scan" /\ r.keyed = scenario.keyed /\ r.source = "JOB_PAYLOAD" /\ r.named = <<>>
        /\ r.counts = [t \in {} |-> 0]
    BY IdleShaped DEF Shaped, IsFcn, Fields
  <2>3. Shape' /\ req'[c] = r /\ Others(c)
    BY <1>6, <2>2, <1>4
  <2> HIDE DEF r
  <2> QED BY <1>2, <1>3, <1>6, <2>2, <2>3 DEF Existing
<1> QED BY <1>1, <1>5, <1>6

(* A step of one request that changes nothing but the request itself, the      *)
(* records, the vault and the count of troubles.                             *)
Goes(c) == Shape' /\ Others(c) /\ UNCHANGED <<scenario, after, rows>> /\ troubles <= troubles'

LEMMA GoesSet ==
  ASSUME Shape, NEW c \in Requests, NEW r, Shaped(r), Set(c, r), UNCHANGED <<scenario, after, rows>>,
         troubles' \in Nat, troubles <= troubles'
  PROVE  Goes(c) /\ req'[c] = r
BY SetDoes DEF Shape, Shaped, Others, Goes

LEMMA RerunDoes ==
  ASSUME Shape, NEW c \in Requests, Rerun(c)
  PROVE  /\ Goes(c) /\ UNCHANGED <<records>> /\ req[c].at = "idle" /\ req'[c].at \in {"scan", "failed"} /\ c \in Reruns
         /\ req'[c].source = "JOB_PAYLOAD" /\ req'[c].named = <<>> /\ req'[c].counts = [t \in {} |-> 0]
         /\ req'[c].keyed = FALSE
<1>1. PICK j \in DOMAIN rows, ok \in BOOLEAN :
         /\ Db(ok)
         /\ Set(c, IF ok /\ rows[j].status = "Completed"
                   THEN [Idle EXCEPT !.at = "scan", !.doc = rows[j].doc, !.name = rows[j].name]
                   ELSE [Idle EXCEPT !.at = "failed"])
  BY DEF Rerun
<1> DEFINE r == IF ok /\ rows[j].status = "Completed"
                   THEN [Idle EXCEPT !.at = "scan", !.doc = rows[j].doc, !.name = rows[j].name]
                   ELSE [Idle EXCEPT !.at = "failed"]
<1>2. Shaped(r) /\ r.at \in {"scan", "failed"} /\ r.source = "JOB_PAYLOAD" /\ r.named = <<>>
      /\ r.counts = [t \in {} |-> 0] /\ r.keyed = FALSE
  BY IdleShaped DEF Shaped, IsFcn, Fields
<1>3. Goes(c) /\ req'[c] = r
  BY <1>1, <1>2, DbDoes, GoesSet DEF Rerun, tables
<1> HIDE DEF r
<1> QED BY <1>2, <1>3 DEF Rerun, tables

(* The fields of a request that a step leaves as they are. *)
Keeps(c, F) == \A f \in F : req'[c][f] = req[c][f]

LEMMA ScanPayloadDoes ==
  ASSUME Shape, NEW c \in Requests, ScanPayload(c)
  PROVE  /\ Goes(c) /\ UNCHANGED <<records>> /\ req[c].at = "scan" /\ req'[c].at = "record"
         /\ Keeps(c, {"keyed", "reply", "source", "named", "counts"})
         /\ req'[c].scan = StatusOf(req'[c].found, req'[c].policy)
<1>1. PICK policy, found, r :
         /\ r = [req[c] EXCEPT !.at = "record", !.policy = policy, !.raw = req[c].doc, !.found = found, !.next = 1,
                               !.scan = StatusOf(found, policy)]
         /\ Set(c, r)
  BY DEF ScanPayload
<1>2. Shaped(req[c])
  BY DEF Shape
<1>3. Shaped(r)
  BY <1>1, <1>2 DEF Shaped, IsFcn
<1>4. \A f \in {"keyed", "reply", "source", "named", "counts"} : r[f] = req[c][f]
  BY <1>1, <1>2 DEF Shaped, Fields
<1>5. r.at = "record" /\ r.found = found /\ r.policy = policy /\ r.scan = StatusOf(found, policy)
  BY <1>1, <1>2 DEF Shaped, Fields
<1>6. Goes(c) /\ req'[c] = r
  BY <1>1, <1>3, GoesSet DEF ScanPayload, tables, Shape
<1> QED BY <1>4, <1>5, <1>6 DEF ScanPayload, tables, Keeps

LEMMA RecordFindingDoes ==
  ASSUME Shape, NEW c \in Requests, RecordFinding(c)
  PROVE  /\ Goes(c) /\ req[c].at = "record" /\ req'[c].at \in {"record", "vault"}
         /\ Keeps(c, {"keyed", "reply", "source", "named", "found", "policy", "scan"})
         /\ \E e : /\ e.job = c /\ req'[c].counts = Counted(req[c].counts, e.type) /\ e.index = req'[c].counts[e.type]
                   /\ records' = records \/ records' = records \cup {e}
<1>0. PICK counts : counts = Counted(req[c].counts, Item(c).type)
  OBVIOUS
<1>1. PICK lost, blocked, at, next, r :
         /\ r = [req[c] EXCEPT !.counts = counts, !.lost = lost, !.blocked = blocked, !.at = at, !.next = next]
         /\ at \in {"record", "vault"} /\ Set(c, r)
         /\ troubles' \in Nat /\ troubles <= troubles'
         /\ records' = records \/ records' = records \cup {Evidence(c, counts)}
  <2>1. PICK ok \in BOOLEAN :
           /\ Statement(c, ok)
           /\ records' = IF ok THEN records \cup {Evidence(c, counts)} ELSE records
           /\ Set(c, [req[c] EXCEPT !.counts = counts, !.lost = @ \/ ~ok, !.blocked = @ \/ Item(c).rule.action = "BLOCK",
                                    !.at = IF Item(c).rule.action = "BLOCK" THEN "record" ELSE "vault",
                                    !.next = IF Item(c).rule.action = "BLOCK" THEN @ + 1 ELSE @])
    BY <1>0 DEF RecordFinding
  <2>2. (IF Item(c).rule.action = "BLOCK" THEN "record" ELSE "vault") \in {"record", "vault"}
    OBVIOUS
  <2>3. troubles' \in Nat /\ troubles <= troubles'
    BY <2>1, StatementDoes
  <2> QED BY <2>1, <2>2, <2>3
<1>2. Shaped(req[c])
  BY DEF Shape
<1>3. Shaped(r)
  BY <1>1, <1>2 DEF Shaped, IsFcn
<1>4. \A f \in {"keyed", "reply", "source", "named", "found", "policy", "scan"} : r[f] = req[c][f]
  BY <1>1, <1>2 DEF Shaped, Fields
<1>5. r.at \in {"record", "vault"} /\ r.counts = counts
  BY <1>1, <1>2 DEF Shaped, Fields
<1>6. Goes(c) /\ req'[c] = r
  BY <1>1, <1>3, GoesSet DEF RecordFinding
<1>7. /\ Evidence(c, counts).job = c /\ Evidence(c, counts).type = Item(c).type
      /\ Evidence(c, counts).index = counts[Evidence(c, counts).type]
  BY DEF Evidence
<1>8. /\ counts = Counted(req[c].counts, Evidence(c, counts).type)
      /\ records' = records \/ records' = records \cup {Evidence(c, counts)}
  BY <1>0, <1>1, <1>7
<1>9. req[c].at = "record"
  BY DEF RecordFinding
<1> QED BY <1>4, <1>5, <1>6, <1>7, <1>8, <1>9 DEF Keeps

LEMMA SaveToVaultDoes ==
  ASSUME Shape, NEW c \in Requests, SaveToVault(c)
  PROVE  /\ Goes(c) /\ UNCHANGED <<records>> /\ req[c].at = "vault" /\ req'[c].at = "record"
         /\ Keeps(c, {"keyed", "reply", "source", "named", "found", "policy", "scan", "counts"})
<1>1. PICK next, lost, r :
         r = [req[c] EXCEPT !.at = "record", !.next = next, !.lost = lost] /\ Set(c, r)
  BY DEF SaveToVault
<1>2. Shaped(req[c])
  BY DEF Shape
<1>3. Shaped(r)
  BY <1>1, <1>2 DEF Shaped, IsFcn
<1>4. r.at = "record" /\ \A f \in {"keyed", "reply", "source", "named", "found", "policy", "scan", "counts"} : r[f] = req[c][f]
  BY <1>1, <1>2 DEF Shaped, Fields
<1>5. troubles' \in Nat /\ troubles <= troubles'
  <2>1. PICK encrypted \in BOOLEAN, ok \in BOOLEAN : IF encrypted THEN Statement(c, ok) ELSE Db(FALSE)
    BY DEF SaveToVault
  <2> QED BY <2>1, StatementDoes, DbDoes
<1>6. Goes(c) /\ req'[c] = r
  BY <1>1, <1>3, <1>5, GoesSet DEF SaveToVault
<1> QED BY <1>4, <1>6 DEF SaveToVault, Keeps

LEMMA RewritePayloadDoes ==
  ASSUME Shape, NEW c \in Requests, RewritePayload(c)
  PROVE  /\ Goes(c) /\ UNCHANGED <<records>> /\ req[c].at = "record" /\ req[c].source = "JOB_PAYLOAD"
         /\ req'[c].at \in {"name", "failed"} /\ req'[c].scan \in {req[c].scan, "SCAN_ERROR"}
         /\ Keeps(c, {"keyed", "reply", "source", "named", "found", "policy", "counts"})
<1>1. PICK doc, blocked, scan, r :
         /\ \/ r = [req[c] EXCEPT !.at = "failed"]
            \/ /\ r = [req[c] EXCEPT !.at = "name", !.doc = doc, !.lost = FALSE, !.blocked = blocked, !.scan = scan]
               /\ scan \in {req[c].scan, "SCAN_ERROR"}
         /\ Set(c, r)
  BY DEF RewritePayload
<1>2. Shaped(req[c])
  BY DEF Shape
<1>3. Shaped(r)
  BY <1>1, <1>2 DEF Shaped, IsFcn
<1>4. \A f \in {"keyed", "reply", "source", "named", "found", "policy", "counts"} : r[f] = req[c][f]
  BY <1>1, <1>2 DEF Shaped, Fields
<1>5. r.at \in {"name", "failed"} /\ r.scan \in {req[c].scan, "SCAN_ERROR"}
  BY <1>1, <1>2 DEF Shaped, Fields
<1>6. Goes(c) /\ req'[c] = r
  BY <1>1, <1>3, GoesSet DEF RewritePayload, tables, Shape
<1> QED BY <1>4, <1>5, <1>6 DEF RewritePayload, tables, Keeps

LEMMA ScanNameDoes ==
  ASSUME Shape, NEW c \in Requests, ScanName(c)
  PROVE  /\ Goes(c) /\ UNCHANGED <<records>> /\ req[c].at = "name" /\ req'[c].at \in {"insert", "record"}
         /\ Keeps(c, {"keyed", "reply", "found", "policy", "scan", "counts"})
         /\ req'[c].at = "insert" => Keeps(c, {"named", "source"})
         /\ req'[c].at = "record" => req'[c].source = "JOB_METADATA"
<1>1. PICK name, named, r :
         /\ \/ r = [req[c] EXCEPT !.at = "insert"]
            \/ r = [req[c] EXCEPT !.at = "record", !.source = "JOB_METADATA", !.rawName = name, !.named = named, !.next = 1,
                                  !.counts = @]
         /\ Set(c, r)
  BY DEF ScanName, Continued
<1>2. Shaped(req[c])
  BY DEF Shape
<1>3. Shaped(r)
  BY <1>1, <1>2 DEF Shaped, IsFcn
<1>4. \A f \in {"keyed", "reply", "found", "policy", "scan", "counts"} : r[f] = req[c][f]
  BY <1>1, <1>2 DEF Shaped, Fields
<1>5. /\ r.at \in {"insert", "record"}
      /\ r.at = "record" => r.source = "JOB_METADATA"
      /\ r.at = "insert" => \A f \in {"named", "source"} : r[f] = req[c][f]
  BY <1>1, <1>2 DEF Shaped, Fields
<1>6. Goes(c) /\ req'[c] = r
  BY <1>1, <1>3, GoesSet DEF ScanName, tables, Shape
<1> QED BY <1>4, <1>5, <1>6 DEF ScanName, tables, Keeps

LEMMA RewriteNameDoes ==
  ASSUME Shape, NEW c \in Requests, RewriteName(c)
  PROVE  /\ Goes(c) /\ UNCHANGED <<records>> /\ req[c].at = "record" /\ req[c].source = "JOB_METADATA"
         /\ req'[c].at = "insert" /\ Keeps(c, {"keyed", "reply", "source", "found", "named", "policy", "counts"})
         /\ \E s \in {"SCAN_ERROR", StatusOf(req[c].named, req[c].policy)} : req'[c].scan = mergeScanStatus(req[c].scan, s)
<1>1. PICK name, blocked, status, r :
         /\ r = [req[c] EXCEPT !.at = "insert", !.name = name, !.blocked = blocked, !.scan = mergeScanStatus(@, status)]
         /\ status \in {"SCAN_ERROR", StatusOf(req[c].named, req[c].policy)}
         /\ Set(c, r)
  BY DEF RewriteName
<1>2. Shaped(req[c])
  BY DEF Shape
<1>3. Shaped(r)
  BY <1>1, <1>2 DEF Shaped, IsFcn
<1>4. \A f \in {"keyed", "reply", "source", "found", "named", "policy", "counts"} : r[f] = req[c][f]
  BY <1>1, <1>2 DEF Shaped, Fields
<1>5. r.at = "insert" /\ r.scan = mergeScanStatus(req[c].scan, status)
  BY <1>1, <1>2 DEF Shaped, Fields
<1>6. Goes(c) /\ req'[c] = r
  BY <1>1, <1>3, GoesSet DEF RewriteName, tables, Shape
<1> QED BY <1>1, <1>4, <1>5, <1>6 DEF RewriteName, tables, Keeps

LEMMA InsertDoes ==
  ASSUME Shape, NEW c \in Requests, Insert(c)
  PROVE  /\ Shape' /\ Others(c) /\ UNCHANGED <<scenario, after, records>> /\ troubles <= troubles'
         /\ req[c].at = "insert" /\ req'[c].at = "done" /\ req'[c].reply = c
         /\ Keeps(c, {"keyed", "source", "found", "named", "policy", "scan", "counts"})
         /\ rows' = rows \/ (KeyIsFree(c) /\ rows' = With(rows, c, Row(c)))
<1>1. PICK ok \in BOOLEAN :
         Statement(c, ok) /\ rows' = IF ok /\ KeyIsFree(c) THEN With(rows, c, Row(c)) ELSE rows
  BY DEF Insert
<1>2. troubles' \in Nat /\ troubles <= troubles'
  BY <1>1, StatementDoes
<1>3. PICK r : r = [req[c] EXCEPT !.at = "done", !.reply = c] /\ Set(c, r)
  BY DEF Insert
<1>4. Shaped(req[c])
  BY DEF Shape
<1>5. Shaped(r)
  BY <1>3, <1>4 DEF Shaped, IsFcn
<1>6. /\ r.at = "done" /\ r.reply = c
      /\ \A f \in {"keyed", "source", "found", "named", "policy", "scan", "counts"} : r[f] = req[c][f]
  BY <1>3, <1>4 DEF Shaped, Fields
<1>7. IsFcn(req') /\ DOMAIN req' = Requests /\ req'[c] = r /\ Others(c)
  BY <1>3, SetDoes
<1>8. rows' = rows \/ (KeyIsFree(c) /\ rows' = With(rows, c, Row(c)))
  BY <1>1
<1>9. DOMAIN rows' \subseteq Requests /\ \A j \in DOMAIN rows' : IsFcn(rows'[j]) /\ DOMAIN rows'[j] = RowFields
  <2>1. CASE rows' = rows
    BY <2>1 DEF Shape
  <2>2. CASE rows' = With(rows, c, Row(c))
    <3>1. DOMAIN rows' = {c} \cup DOMAIN rows /\ rows'[c] = Row(c) /\ \A j \in DOMAIN rows : j # c => rows'[j] = rows[j]
      BY <2>2 DEF With
    <3>2. ASSUME NEW j \in DOMAIN rows' PROVE IsFcn(rows'[j]) /\ DOMAIN rows'[j] = RowFields
      <4>1. CASE j = c
        BY <3>1, <4>1, RowShaped
      <4>2. CASE j # c
        BY <3>1, <4>2 DEF Shape
      <4> QED BY <4>1, <4>2
    <3> QED BY <3>1, <3>2 DEF Shape
  <2> QED BY <1>8, <2>1, <2>2
<1>10. UNCHANGED <<scenario, after, records>> /\ req[c].at = "insert"
  BY DEF Insert
<1>11. Shape'
  BY <1>2, <1>5, <1>7, <1>9, <1>10 DEF Shape, Others
<1> QED BY <1>2, <1>6, <1>7, <1>8, <1>10, <1>11 DEF Keeps

LEMMA HangUpDoes ==
  ASSUME Shape, NEW c \in Requests, HangUp(c)
  PROVE  Goes(c) /\ UNCHANGED <<records>> /\ Busy(c) /\ Keeps(c, Fields \ {"hungUp"})
<1>1. PICK r : r = [req[c] EXCEPT !.hungUp = TRUE] /\ Set(c, r)
  BY DEF HangUp
<1>2. Shaped(req[c])
  BY DEF Shape
<1>3. Shaped(r)
  BY <1>1, <1>2 DEF Shaped, IsFcn
<1>4. \A f \in Fields \ {"hungUp"} : r[f] = req[c][f]
  BY <1>1, <1>2 DEF Shaped
<1>5. troubles' \in Nat /\ troubles <= troubles'
  BY DEF HangUp, Shape
<1>6. Goes(c) /\ req'[c] = r
  BY <1>1, <1>3, <1>5, GoesSet DEF HangUp, tables
<1> QED BY <1>4, <1>6 DEF HangUp, tables, Keeps

LEMMA CrashDoes ==
  ASSUME Shape, Crash
  PROVE  /\ Shape' /\ UNCHANGED <<scenario, after, rows, records>> /\ troubles <= troubles'
         /\ \A c \in Requests : \/ req'[c] = req[c]
                                \/ Busy(c) /\ req'[c].at = "failed" /\ Keeps(c, Fields \ {"at"})
<1>1. /\ req' = [c \in Requests |-> IF Busy(c) THEN [req[c] EXCEPT !.at = "failed"] ELSE req[c]]
      /\ UNCHANGED <<scenario, after, rows, records>> /\ troubles' \in Nat /\ troubles <= troubles'
  BY DEF Crash, tables, Shape
<1>2. ASSUME NEW c \in Requests
      PROVE  /\ Shaped(req'[c])
             /\ req'[c] = req[c] \/ (Busy(c) /\ req'[c].at = "failed" /\ Keeps(c, Fields \ {"at"}))
  <2>1. Shaped(req[c])
    BY DEF Shape
  <2>2. CASE ~Busy(c)
    BY <1>1, <2>1, <2>2
  <2>3. CASE Busy(c)
    <3>1. req'[c] = [req[c] EXCEPT !.at = "failed"]
      BY <1>1, <2>3
    <3>2. PICK r : r = req'[c]
      OBVIOUS
    <3>3. Shaped(r)
      BY <2>1, <3>1, <3>2 DEF Shaped, IsFcn
    <3>4. r.at = "failed" /\ \A f \in Fields \ {"at"} : r[f] = req[c][f]
      BY <2>1, <3>1, <3>2 DEF Shaped, Fields
    <3> QED BY <2>3, <3>2, <3>3, <3>4 DEF Keeps
  <2> QED BY <2>2, <2>3
<1>3. IsFcn(req') /\ DOMAIN req' = Requests
  BY <1>1 DEF IsFcn
<1>4. Shape'
  BY <1>1, <1>2, <1>3 DEF Shape
<1> QED BY <1>1, <1>2, <1>4

LEMMA ExecuteDoes ==
  ASSUME Shape, NEW j, Execute(j)
  PROVE  /\ Shape' /\ UNCHANGED <<scenario, req, after, records, troubles>>
         /\ DOMAIN rows' = DOMAIN rows
         /\ \A k \in DOMAIN rows : rows'[k].keyed = rows[k].keyed /\ rows'[k].scan = rows[k].scan
<1>1. rows' = [rows EXCEPT ![j].status = "Completed"] /\ UNCHANGED <<scenario, req, after, records, troubles>>
  BY DEF Execute
<1>2. ASSUME NEW k \in DOMAIN rows
      PROVE  /\ IsFcn(rows'[k]) /\ DOMAIN rows'[k] = RowFields
             /\ rows'[k].keyed = rows[k].keyed /\ rows'[k].scan = rows[k].scan
  <2>1. IsFcn(rows[k]) /\ DOMAIN rows[k] = RowFields
    BY DEF Shape
  <2>2. CASE k # j
    BY <1>1, <2>1, <2>2
  <2>3. CASE k = j
    <3>1. PICK r : r = rows'[k]
      OBVIOUS
    <3>2. r = [rows[k] EXCEPT !.status = "Completed"]
      BY <1>1, <2>3, <3>1
    <3>3. IsFcn(r) /\ DOMAIN r = RowFields
      BY <2>1, <3>2 DEF IsFcn
    <3>4. r.keyed = rows[k].keyed /\ r.scan = rows[k].scan
      BY <2>1, <3>2 DEF RowFields
    <3> QED BY <3>1, <3>3, <3>4
  <2> QED BY <2>2, <2>3
<1>3. DOMAIN rows' = DOMAIN rows
  BY <1>1
<1> QED BY <1>1, <1>2, <1>3 DEF Shape

LEMMA OutputDoes ==
  ASSUME Shape, NEW j, ScanOutput(j) \/ RecordOutput(j) \/ StoreArtifact(j)
  PROVE  /\ Shape' /\ UNCHANGED <<scenario, req, after, rows>> /\ troubles <= troubles'
         /\ records' = records \/ \E e : e.source = "JOB_RESULT" /\ records' = records \cup {e}
<1>1. UNCHANGED <<scenario, req, after, rows>>
  BY DEF ScanOutput, RecordOutput, StoreArtifact
<1>2. troubles' \in Nat /\ troubles <= troubles'
  <2>1. (\E ok \in BOOLEAN : Db(ok)) \/ troubles' = troubles
    BY DEF ScanOutput, RecordOutput, StoreArtifact
  <2> QED BY <2>1, DbDoes DEF Shape
<1>3. records' = records \/ \E e : e.source = "JOB_RESULT" /\ records' = records \cup {e}
  <2>1. CASE RecordOutput(j)
    <3>1. PICK ok, f, index :
             records' = IF ok THEN records \cup {[job |-> j, source |-> "JOB_RESULT", type |-> f.type, index |-> index, finding |-> f]}
                        ELSE records
      BY <2>1 DEF RecordOutput
    <3>2. PICK e : e = [job |-> j, source |-> "JOB_RESULT", type |-> f.type, index |-> index, finding |-> f]
      OBVIOUS
    <3>3. e.source = "JOB_RESULT"
      BY <3>2
    <3> QED BY <3>1, <3>2, <3>3
  <2> QED BY <2>1 DEF ScanOutput, StoreArtifact
<1> QED BY <1>1, <1>2, <1>3 DEF Shape

-----------------------------------------------------------------------------
(* What keeps a key to one task.  A row is its request's own and was stored as *)
(* that request was answered; an answer names the request's own job or a       *)
(* stored one; and a request that began after an answer either got the task    *)
(* of that answer or found the key unused, and then that task never comes.    *)
Began == \A c \in Requests : (req[c].at = "idle" \/ c \in Reruns) => after[c] = {}
Answered == \A c \in Requests : after[c] \subseteq {d \in Requests : req[d].at = "done"}
Stored == \A j \in DOMAIN rows : req[j].at = "done" /\ req[j].reply = j /\ rows[j].keyed = req[j].keyed
Replied ==
    \A d \in Requests : req[d].at = "done" =>
        req[d].reply \in Requests /\ (req[d].reply = d \/ HasKey(req[d].reply))
OneKey == \A j, k \in Requests : (HasKey(j) /\ HasKey(k)) => j = k
FirstWins ==
    \A c \in Requests : \A d \in after[c] :
        (troubles = 0 /\ req[c].keyed /\ req[d].keyed /\ req[d].reply \in DOMAIN rows)
            => req[c].at = "done" /\ req[c].reply = req[d].reply
KeyInv == Shape /\ Began /\ Answered /\ Stored /\ Replied /\ OneKey /\ FirstWins

LEMMA ShapeInit == ASSUME Init PROVE Shape
<1>1. scenario.keyed \in BOOLEAN
  BY IntakeAssumption DEF Init
<1>2. IsFcn(req) /\ DOMAIN req = Requests /\ \A c \in Requests : req[c] = Idle
  BY DEF Init, IsFcn
<1>3. DOMAIN after = Requests /\ DOMAIN rows = {} /\ troubles \in Nat
  BY DEF Init
<1> QED BY <1>1, <1>2, <1>3, IdleShaped DEF Shape

LEMMA KeyInit == ASSUME Init PROVE KeyInv
<1>1. \A c \in Requests : req[c].at = "idle" /\ after[c] = {}
  BY IdleShaped DEF Init
<1>2. DOMAIN rows = {}
  BY DEF Init
<1> QED BY <1>1, <1>2, ShapeInit DEF KeyInv, Began, Answered, Stored, Replied, OneKey, FirstWins, HasKey

(* A step that begins and answers no request and stores no row. *)
Onward ==
    /\ Shape' /\ UNCHANGED <<scenario, after, rows>> /\ troubles <= troubles'
    /\ \A c \in Requests :
         /\ req'[c].keyed = req[c].keyed
         /\ (req'[c].at = "idle") = (req[c].at = "idle") /\ (req'[c].at = "done") = (req[c].at = "done")
         /\ req[c].at = "done" => req'[c].reply = req[c].reply

LEMMA KeyOnward == ASSUME KeyInv, Onward PROVE KeyInv'
<1>1. /\ Shape' /\ after' = after /\ rows' = rows /\ (troubles' = 0 => troubles = 0)
      /\ \A j : HasKey(j)' = HasKey(j)
  BY DEF Onward, KeyInv, Shape, HasKey
<1>2. Began' /\ Answered'
  BY <1>1 DEF KeyInv, Onward, Began, Answered
<1>3. Stored' /\ Replied' /\ OneKey'
  BY <1>1 DEF KeyInv, Onward, Stored, Replied, OneKey, Shape
<1>4. FirstWins'
  <2> SUFFICES ASSUME NEW c \in Requests, NEW d \in after[c], troubles = 0, req'[c].keyed, req'[d].keyed,
                      req'[d].reply \in DOMAIN rows
               PROVE  req'[c].at = "done" /\ req'[c].reply = req'[d].reply
    BY <1>1 DEF FirstWins
  <2>1. d \in Requests /\ req[d].at = "done"
    BY DEF KeyInv, Answered
  <2>2. req'[d].reply = req[d].reply /\ req[c].keyed /\ req[d].keyed
    BY <2>1 DEF Onward
  <2>3. req[c].at = "done" /\ req[c].reply = req[d].reply
    BY <2>1, <2>2 DEF KeyInv, FirstWins
  <2> QED BY <2>2, <2>3 DEF Onward
<1> QED BY <1>1, <1>2, <1>3, <1>4 DEF KeyInv

(* A look-up: the row it finds is the only one with the key; if it finds none  *)
(* then no answer so far names a stored row with the key.                    *)
LEMMA KeyLookup ==
  ASSUME KeyInv, NEW c \in Requests, Lookup(c)
  PROVE  KeyInv'
<1>1. /\ Shape' /\ rows' = rows /\ scenario' = scenario /\ troubles <= troubles' /\ Others(c)
      /\ req[c].at = "idle" /\ c \notin Reruns
      /\ after' = [after EXCEPT ![c] = {d \in Requests : req[d].at = "done"}]
      /\ req'[c].keyed = scenario.keyed
      /\ \/ scenario.keyed /\ req'[c].at = "done" /\ req'[c].reply \in Requests /\ HasKey(req'[c].reply)
         \/ /\ req'[c].at = "scan"
            /\ (scenario.keyed /\ troubles' = 0) => \A j \in Requests : ~HasKey(j)
  BY LookupDoes DEF KeyInv, tables
<1>2. /\ (troubles' = 0 => troubles = 0) /\ \A j : HasKey(j)' = HasKey(j)
      /\ \A d \in Requests : req[d].at = "done" => d # c /\ req'[d] = req[d]
      /\ after'[c] = {d \in Requests : req[d].at = "done"} /\ \A d \in Requests : d # c => after'[d] = after[d]
  BY <1>1 DEF KeyInv, Shape, HasKey, Others
<1>3. Began' /\ Answered'
  BY <1>1, <1>2 DEF KeyInv, Began, Answered, Others
<1>4. Stored' /\ Replied' /\ OneKey'
  BY <1>1, <1>2 DEF KeyInv, Stored, Replied, OneKey, Others, Shape
<1>5. FirstWins'
  <2> SUFFICES ASSUME NEW b \in Requests, NEW d \in after'[b], troubles' = 0, req'[b].keyed, req'[d].keyed,
                      req'[d].reply \in DOMAIN rows'
               PROVE  req'[b].at = "done" /\ req'[b].reply = req'[d].reply
    BY DEF FirstWins
  <2>1. d \in Requests /\ req[d].at = "done" /\ req'[d] = req[d]
    BY <1>2 DEF KeyInv, Answered
  <2>2. CASE b # c
    BY <1>1, <1>2, <2>1, <2>2 DEF KeyInv, FirstWins, Others
  <2>3. CASE b = c
    <3>1. req[d].reply \in Requests /\ HasKey(req[d].reply)
      BY <1>1, <2>1 DEF KeyInv, Replied, Stored, HasKey
    <3>2. req'[c].at = "done" /\ req'[c].reply \in Requests /\ HasKey(req'[c].reply)
      BY <1>1, <2>3, <3>1
    <3> QED BY <2>1, <2>3, <3>1, <3>2 DEF KeyInv, OneKey
  <2> QED BY <2>2, <2>3
<1> QED BY <1>1, <1>3, <1>4, <1>5 DEF KeyInv

(* A rerun has no key, and begins with no answer before it. *)
LEMMA KeyRerun ==
  ASSUME KeyInv, NEW c \in Requests, Rerun(c)
  PROVE  KeyInv'
<1>0. Goes(c) /\ req[c].at = "idle" /\ req'[c].at \in {"scan", "failed"} /\ c \in Reruns
  BY RerunDoes DEF KeyInv
<1>1. /\ Shape' /\ Others(c) /\ rows' = rows /\ after' = after /\ (troubles' = 0 => troubles = 0)
      /\ req[c].at = "idle" /\ req'[c].at \in {"scan", "failed"} /\ c \in Reruns /\ \A j : HasKey(j)' = HasKey(j)
  BY <1>0 DEF KeyInv, Goes, Shape, HasKey
<1>2. after[c] = {} /\ \A d \in Requests : req[d].at = "done" => d # c /\ req'[d] = req[d]
  BY <1>1 DEF KeyInv, Began, Others
<1>3. Began' /\ Answered'
  BY <1>1, <1>2 DEF KeyInv, Began, Answered, Others
<1>4. Stored' /\ Replied' /\ OneKey'
  BY <1>1, <1>2 DEF KeyInv, Stored, Replied, OneKey, Others, Shape
<1>5. FirstWins'
  <2> SUFFICES ASSUME NEW b \in Requests, NEW d \in after[b], troubles = 0, req'[b].keyed, req'[d].keyed,
                      req'[d].reply \in DOMAIN rows
               PROVE  req'[b].at = "done" /\ req'[b].reply = req'[d].reply
    BY <1>1 DEF FirstWins
  <2>1. d \in Requests /\ req[d].at = "done" /\ req'[d] = req[d] /\ b # c
    BY <1>2 DEF KeyInv, Answered
  <2> QED BY <1>1, <2>1 DEF KeyInv, FirstWins, Others
<1> QED BY <1>1, <1>3, <1>4, <1>5 DEF KeyInv

(* An insert: the unique index lets in no second row with the key, and the     *)
(* row is one that no earlier answer names.                                  *)
LEMMA KeyInsert ==
  ASSUME KeyInv, NEW c \in Requests, Insert(c)
  PROVE  KeyInv'
<1>1. /\ Shape' /\ Others(c) /\ after' = after /\ (troubles' = 0 => troubles = 0)
      /\ req[c].at = "insert" /\ req'[c].at = "done" /\ req'[c].reply = c /\ req'[c].keyed = req[c].keyed
      /\ rows' = rows \/ (KeyIsFree(c) /\ rows' = With(rows, c, Row(c)))
  BY InsertDoes DEF KeyInv, Shape, Keeps
<1>2. \A d \in Requests : req[d].at = "done" => d # c /\ req'[d] = req[d]
  BY <1>1 DEF Others
<1>3. c \notin DOMAIN rows
  BY <1>1 DEF KeyInv, Stored
<1>4. /\ DOMAIN rows \subseteq DOMAIN rows' /\ DOMAIN rows' \subseteq DOMAIN rows \cup {c}
      /\ \A j \in DOMAIN rows : rows'[j] = rows[j]
      /\ c \in DOMAIN rows' => rows'[c].keyed = req[c].keyed /\ KeyIsFree(c)
  BY <1>1, <1>3, RowShaped DEF With
<1>5. \A j : HasKey(j) => HasKey(j)'
  BY <1>4 DEF HasKey
<1>6. \A j : HasKey(j)' => HasKey(j) \/ (j = c /\ \A k \in Requests : ~HasKey(k))
  BY <1>4 DEF HasKey, KeyIsFree
<1>7. Began' /\ Answered'
  BY <1>1, <1>2 DEF KeyInv, Began, Answered, Others
<1>8. Stored'
  BY <1>1, <1>2, <1>4 DEF KeyInv, Stored, Shape
<1>9. Replied'
  BY <1>1, <1>2, <1>5 DEF KeyInv, Replied, Others
<1>10. OneKey'
  BY <1>5, <1>6 DEF KeyInv, OneKey
<1>11. FirstWins'
  <2> SUFFICES ASSUME NEW b \in Requests, NEW d \in after[b], troubles = 0, req'[b].keyed, req'[d].keyed,
                      req'[d].reply \in DOMAIN rows'
               PROVE  req'[b].at = "done" /\ req'[b].reply = req'[d].reply
    BY <1>1 DEF FirstWins
  <2>1. d \in Requests /\ req[d].at = "done" /\ req'[d] = req[d] /\ d # c
    BY <1>2 DEF KeyInv, Answered
  <2>2. req[d].reply \in DOMAIN rows
    BY <1>3, <1>4, <2>1 DEF KeyInv, Replied, HasKey
  <2>3. req[b].keyed
    BY <1>1 DEF Others
  <2>4. req[b].at = "done" /\ req[b].reply = req[d].reply
    BY <2>1, <2>2, <2>3 DEF KeyInv, FirstWins
  <2> QED BY <1>2, <2>1, <2>4
<1> QED BY <1>1, <1>7, <1>8, <1>9, <1>10, <1>11 DEF KeyInv

(* A run leaves the key of its row alone. *)
LEMMA KeyExecute ==
  ASSUME KeyInv, NEW j, Execute(j)
  PROVE  KeyInv'
<1>1. /\ Shape' /\ UNCHANGED <<scenario, req, after, records, troubles>> /\ DOMAIN rows' = DOMAIN rows
      /\ \A k \in DOMAIN rows : rows'[k].keyed = rows[k].keyed
  BY ExecuteDoes DEF KeyInv
<1>2. \A k : HasKey(k)' = HasKey(k)
  BY <1>1 DEF HasKey
<1> QED BY <1>1, <1>2 DEF KeyInv, Began, Answered, Stored, Replied, OneKey, FirstWins

LEMMA KeyStep == ASSUME KeyInv, [Next]_vars PROVE KeyInv'
<1> Shape
  BY DEF KeyInv
<1>1. ASSUME NEW c \in Requests, Goes(c), Keeps(c, {"keyed", "reply"}),
             req[c].at \notin {"idle", "done"}, req'[c].at \notin {"idle", "done"}
      PROVE  KeyInv'
  <2>1. Onward
    BY <1>1 DEF Goes, Keeps, Others, Onward
  <2> QED BY <2>1, KeyOnward
<1>2. ASSUME NEW c \in Requests,
             ScanPayload(c) \/ RecordFinding(c) \/ SaveToVault(c) \/ RewritePayload(c) \/ ScanName(c) \/ RewriteName(c)
      PROVE  KeyInv'
  <2>1. Goes(c) /\ Keeps(c, {"keyed", "reply"}) /\ req[c].at \notin {"idle", "done"} /\ req'[c].at \notin {"idle", "done"}
    BY <1>2, ScanPayloadDoes, RecordFindingDoes, SaveToVaultDoes, RewritePayloadDoes, ScanNameDoes, RewriteNameDoes DEF Keeps
  <2> QED BY <1>1, <2>1
<1>3. ASSUME NEW c \in Requests, HangUp(c) PROVE KeyInv'
  <2>1. Goes(c) /\ Keeps(c, {"keyed", "reply"}) /\ req[c].at \notin {"idle", "done"} /\ req'[c].at \notin {"idle", "done"}
    BY <1>3, HangUpDoes DEF Keeps, Fields, Busy
  <2> QED BY <1>1, <2>1
<1>4. CASE Crash
  <2>1. Onward
    BY <1>4, CrashDoes DEF Onward, Busy, Keeps, Fields
  <2> QED BY <2>1, KeyOnward
<1>5. ASSUME NEW j \in Requests, ScanOutput(j) \/ RecordOutput(j) \/ StoreArtifact(j) PROVE KeyInv'
  <2>1. Onward
    BY <1>5, OutputDoes DEF Onward
  <2> QED BY <2>1, KeyOnward
<1>6. CASE UNCHANGED vars
  <2>1. Onward
    BY <1>6 DEF vars, Onward, Shape
  <2> QED BY <2>1, KeyOnward
<1> QED BY <1>2, <1>3, <1>4, <1>5, <1>6, KeyLookup, KeyRerun, KeyInsert, KeyExecute DEF Next

(* Two rows with the key are one: there is at most one. *)
LEMMA OneKeyCounts == ASSUME OneKey PROVE OneTaskPerKey
<1> DEFINE S == {j \in Requests : HasKey(j)}
<1>1. CASE S = {}
  BY <1>1, FS_EmptySet DEF OneTaskPerKey
<1>2. CASE S # {}
  <2>1. PICK j \in S : TRUE
    BY <1>2
  <2>2. S = {j}
    BY <2>1 DEF OneKey
  <2> HIDE DEF S
  <2>3. Cardinality(S) = 1
    BY <2>2, FS_Singleton
  <2> QED BY <2>3 DEF OneTaskPerKey, S
<1> QED BY <1>1, <1>2

(* An idempotency key stands for one task (create.go:23-34): whatever the      *)
(* requests with one key do at the same time no second row is stored for it,   *)
(* and a retry sent after an answer gets the task of that answer.            *)
THEOREM KeySound == Spec => []KeyHonoured
<1>1. Init => KeyInv
  BY KeyInit
<1>2. KeyInv /\ [Next]_vars => KeyInv'
  BY KeyStep
<1>3. KeyInv => KeyHonoured
  BY OneKeyCounts DEF KeyInv, KeyHonoured, FirstWins, RetryGetsOriginal
<1> QED BY <1>1, <1>2, <1>3, PTL DEF Spec

-----------------------------------------------------------------------------
(* What keeps the records of a task's payload and name apart: the counts of a  *)
(* request only grow, and no record of its job is ahead of them.             *)
Ahead ==
    \A e \in records : e.source # "JOB_RESULT" =>
        /\ e.job \in Requests /\ req[e.job].at \notin {"idle", "scan"}
        /\ e.type \in DOMAIN req[e.job].counts /\ e.index \in Nat /\ e.index <= req[e.job].counts[e.type]
Counts == \A c \in Requests : \A t \in DOMAIN req[c].counts : req[c].counts[t] \in Nat
RecordsInv == Shape /\ Ahead /\ Counts /\ IndicesDistinct

(* A step that adds no record and resets the counts of no request that may     *)
(* have some.                                                               *)
KeepsCounts ==
    /\ Shape' /\ (records' = records \/ \E e : e.source = "JOB_RESULT" /\ records' = records \cup {e})
    /\ \A c \in Requests :
         /\ req'[c].counts = req[c].counts \/ (req[c].at = "idle" /\ req'[c].counts = [t \in {} |-> 0])
         /\ req[c].at \notin {"idle", "scan"} => req'[c].at \notin {"idle", "scan"}

LEMMA RecordsKept == ASSUME RecordsInv, KeepsCounts PROVE RecordsInv'
<1>1. \A e \in records' : e.source # "JOB_RESULT" => e \in records
  BY DEF KeepsCounts
<1>2. Ahead'
  BY <1>1 DEF KeepsCounts, RecordsInv, Ahead
<1>3. Counts'
  BY DEF KeepsCounts, RecordsInv, Counts
<1>4. IndicesDistinct'
  BY <1>1 DEF RecordsInv, IndicesDistinct
<1> QED BY <1>2, <1>3, <1>4 DEF KeepsCounts, RecordsInv

(* A new record has an index that none of its type and job has.               *)
LEMMA RecordsRecord ==
  ASSUME RecordsInv, NEW c \in Requests, RecordFinding(c)
  PROVE  RecordsInv'
<1>1. /\ Shape' /\ Others(c) /\ req[c].at = "record" /\ req'[c].at \in {"record", "vault"}
      /\ \E e : /\ e.job = c /\ req'[c].counts = Counted(req[c].counts, e.type) /\ e.index = req'[c].counts[e.type]
                /\ records' = records \/ records' = records \cup {e}
  BY RecordFindingDoes DEF RecordsInv, Goes
<1>2. PICK e : /\ e.job = c /\ req'[c].counts = Counted(req[c].counts, e.type) /\ e.index = req'[c].counts[e.type]
               /\ records' = records \/ records' = records \cup {e}
  BY <1>1
<1>3. PICK n : n = (IF e.type \in DOMAIN req[c].counts THEN req[c].counts[e.type] ELSE 0)
  OBVIOUS
<1>4. n \in Nat
  BY <1>3 DEF RecordsInv, Counts
<1>5. /\ DOMAIN req'[c].counts = {e.type} \cup DOMAIN req[c].counts /\ req'[c].counts[e.type] = n + 1
      /\ \A t \in DOMAIN req[c].counts : t # e.type => req'[c].counts[t] = req[c].counts[t]
  BY <1>2, <1>3 DEF Counted, With
<1>6. \A f \in records : (f.source # "JOB_RESULT" /\ f.job = c) =>
         /\ f.type \in DOMAIN req[c].counts /\ f.index \in Nat
         /\ f.type = e.type => f.index <= n
         /\ f.type # e.type => f.index <= req[c].counts[f.type]
  BY <1>3 DEF RecordsInv, Ahead
<1>7. Counts'
  BY <1>1, <1>4, <1>5 DEF RecordsInv, Counts, Others
<1>8. e.index = n + 1 /\ e.index \in Nat
  BY <1>2, <1>4, <1>5
<1>9. Ahead'
  <2> SUFFICES ASSUME NEW f \in records', f.source # "JOB_RESULT"
               PROVE  /\ f.job \in Requests /\ req'[f.job].at \notin {"idle", "scan"}
                      /\ f.type \in DOMAIN req'[f.job].counts /\ f.index \in Nat /\ f.index <= req'[f.job].counts[f.type]
    BY DEF Ahead
  <2>1. CASE f = e
    BY <1>1, <1>2, <1>4, <1>5, <1>8, <2>1
  <2>2. CASE f # e /\ f.job # c
    BY <1>1, <1>2, <2>2 DEF RecordsInv, Ahead, Others
  <2>3. CASE f # e /\ f.job = c
    <3>1. f \in records
      BY <1>2, <2>3
    <3>2. CASE f.type = e.type
      BY <1>1, <1>4, <1>5, <1>6, <2>3, <3>1, <3>2
    <3>3. CASE f.type # e.type
      BY <1>1, <1>5, <1>6, <2>3, <3>1, <3>3
    <3> QED BY <3>2, <3>3
  <2> QED BY <2>1, <2>2, <2>3
<1>10. IndicesDistinct'
  <2> SUFFICES ASSUME NEW f \in records', NEW g \in records', f.job = g.job, f.source # "JOB_RESULT", g.source # "JOB_RESULT",
                      f.type = g.type, f.index = g.index
               PROVE  f = g
    BY DEF IndicesDistinct
  <2>1. ASSUME NEW h \in records, h.source # "JOB_RESULT", h.job = c, h.type = e.type PROVE h.index # n + 1
    BY <1>4, <1>6, <2>1
  <2>2. CASE f \in records /\ g \in records
    BY <2>2 DEF RecordsInv, IndicesDistinct
  <2>3. CASE f \notin records \/ g \notin records
    BY <1>2, <1>8, <2>1, <2>3
  <2> QED BY <2>2, <2>3
<1> QED BY <1>1, <1>7, <1>9, <1>10 DEF RecordsInv

LEMMA RecordsStep == ASSUME RecordsInv, [Next]_vars PROVE RecordsInv'
<1> Shape
  BY DEF RecordsInv
<1>1. ASSUME NEW c \in Requests, Shape', Others(c), records' = records,
             req'[c].counts = req[c].counts \/ (req[c].at = "idle" /\ req'[c].counts = [t \in {} |-> 0]),
             req[c].at \in {"idle", "scan"} \/ req'[c].at \notin {"idle", "scan"}
      PROVE  RecordsInv'
  <2>1. KeepsCounts
    BY <1>1 DEF KeepsCounts, Others
  <2> QED BY <2>1, RecordsKept
<1>2. ASSUME NEW c \in Requests, Lookup(c) PROVE RecordsInv'
  BY <1>1, <1>2, LookupDoes DEF tables
<1>3. ASSUME NEW c \in Requests, Rerun(c) PROVE RecordsInv'
  BY <1>1, <1>3, RerunDoes DEF Goes
<1>4. ASSUME NEW c \in Requests, Goes(c), UNCHANGED <<records>>, Keeps(c, {"counts"}), req[c].at # "idle",
             req'[c].at \notin {"idle", "scan"}
      PROVE  RecordsInv'
  BY <1>1, <1>4 DEF Goes, Keeps
<1>5. ASSUME NEW c \in Requests,
             ScanPayload(c) \/ SaveToVault(c) \/ RewritePayload(c) \/ ScanName(c) \/ RewriteName(c)
      PROVE  RecordsInv'
  <2>1. Goes(c) /\ UNCHANGED <<records>> /\ Keeps(c, {"counts"}) /\ req[c].at # "idle" /\ req'[c].at \notin {"idle", "scan"}
    BY <1>5, ScanPayloadDoes, SaveToVaultDoes, RewritePayloadDoes, ScanNameDoes, RewriteNameDoes DEF Keeps
  <2> QED BY <1>4, <2>1
<1>6. ASSUME NEW c \in Requests, HangUp(c) PROVE RecordsInv'
  <2>1. Goes(c) /\ records' = records /\ req'[c].counts = req[c].counts /\ req'[c].at = req[c].at
    BY <1>6, HangUpDoes DEF Keeps, Fields
  <2> QED BY <1>1, <2>1 DEF Goes
<1>7. ASSUME NEW c \in Requests, Insert(c) PROVE RecordsInv'
  <2>1. Shape' /\ Others(c) /\ records' = records /\ req'[c].counts = req[c].counts /\ req'[c].at = "done"
    BY <1>7, InsertDoes DEF Keeps
  <2> QED BY <1>1, <2>1
<1>8. CASE Crash
  <2>1. KeepsCounts
    BY <1>8, CrashDoes DEF KeepsCounts, Keeps, Fields
  <2> QED BY <2>1, RecordsKept
<1>9. ASSUME NEW j \in Requests, Execute(j) PROVE RecordsInv'
  <2>1. KeepsCounts
    BY <1>9, ExecuteDoes DEF KeepsCounts
  <2> QED BY <2>1, RecordsKept
<1>10. ASSUME NEW j \in Requests, ScanOutput(j) \/ RecordOutput(j) \/ StoreArtifact(j) PROVE RecordsInv'
  <2>1. KeepsCounts
    BY <1>10, OutputDoes DEF KeepsCounts
  <2> QED BY <2>1, RecordsKept
<1>11. CASE UNCHANGED vars
  <2>1. KeepsCounts
    BY <1>11 DEF vars, KeepsCounts, Shape
  <2> QED BY <2>1, RecordsKept
<1> QED BY <1>2, <1>3, <1>5, <1>6, <1>7, <1>8, <1>9, <1>10, <1>11, RecordsRecord DEF Next

-----------------------------------------------------------------------------
(* What makes the status of a task cover both scans: past the scan of its      *)
(* payload a request's status tells what that one found, past the scan of its  *)
(* name what either found, and the row was stored with it.                   *)
Tells(c) ==
    /\ req[c].scan \in {"CLEAN", "DETECTED", "SCAN_ERROR"}
    /\ req[c].scan = "CLEAN" => req[c].found = <<>>
    /\ req[c].scan # "SCAN_ERROR" => ~Broken(req[c].policy)
    /\ (req[c].at = "insert" /\ req[c].scan = "CLEAN") => req[c].named = <<>>
StatusInv ==
    /\ Shape
    /\ \A c \in Requests : req[c].at \in {"record", "vault", "name", "insert"} => Tells(c)
    /\ \A c \in Requests : (req[c].at \notin {"idle", "done", "failed"} /\ req[c].source = "JOB_PAYLOAD") => req[c].named = <<>>
    /\ \A c \in Requests : req[c].at = "name" => req[c].source = "JOB_PAYLOAD"
    /\ \A j \in DOMAIN rows : req[j].at = "done"
    /\ StatusCoversBoth

(* A step that ends no request with a row leaves the rows' statuses true. *)
LEMMA RowsTold ==
  ASSUME StatusInv, Shape', DOMAIN rows' = DOMAIN rows, \A j \in DOMAIN rows : rows'[j].scan = rows[j].scan,
         \A c \in Requests : req[c].at = "done" => req'[c] = req[c]
  PROVE  StatusCoversBoth' /\ \A j \in DOMAIN rows' : req'[j].at = "done"
BY DEF StatusInv, StatusCoversBoth, Shape

LEMMA StatusOfTells ==
  ASSUME NEW found, NEW policy
  PROVE  /\ StatusOf(found, policy) \in {"CLEAN", "DETECTED", "SCAN_ERROR"}
         /\ StatusOf(found, policy) = "CLEAN" => found = <<>>
         /\ StatusOf(found, policy) # "SCAN_ERROR" => ~Broken(policy)
BY DEF StatusOf

LEMMA MergeTells ==
  ASSUME NEW a \in {"CLEAN", "DETECTED", "SCAN_ERROR"}, NEW b \in {"CLEAN", "DETECTED", "SCAN_ERROR"}
  PROVE  /\ mergeScanStatus(a, b) \in {a, b}
         /\ mergeScanStatus(a, b) = "CLEAN" => a = "CLEAN" /\ b = "CLEAN"
         /\ mergeScanStatus(a, b) # "SCAN_ERROR" => a # "SCAN_ERROR" /\ b # "SCAN_ERROR"
<1>1. Severity["CLEAN"] = 1 /\ Severity["DETECTED"] = 2 /\ Severity["SCAN_ERROR"] = 3
  BY DEF Severity, Statuses
<1> QED BY <1>1 DEF mergeScanStatus

(* A step of one request that leaves it with a true status, if with any. *)
LEMMA StatusMoves ==
  ASSUME StatusInv, NEW c \in Requests, Shape', Others(c), rows' = rows, req[c].at # "done",
         req'[c].at \in {"record", "vault", "name", "insert"} => Tells(c)',
         (req'[c].at \notin {"idle", "done", "failed"} /\ req'[c].source = "JOB_PAYLOAD") => req'[c].named = <<>>,
         req'[c].at = "name" => req'[c].source = "JOB_PAYLOAD"
  PROVE  StatusInv'
<1>1. \A d \in Requests : d # c => req'[d] = req[d]
  BY DEF Others
<1>2. \A d \in Requests : d # c => Tells(d)' = Tells(d)
  BY <1>1 DEF Tells
<1>3. StatusCoversBoth' /\ \A j \in DOMAIN rows' : req'[j].at = "done"
  BY <1>1, RowsTold
<1> QED BY <1>1, <1>2, <1>3 DEF StatusInv

(* The row of an insert takes the status of its request.                     *)
LEMMA StatusInsert ==
  ASSUME StatusInv, NEW c \in Requests, Insert(c)
  PROVE  StatusInv'
<1>1. /\ Shape' /\ Others(c) /\ req[c].at = "insert" /\ req'[c].at = "done"
      /\ rows' = rows \/ rows' = With(rows, c, Row(c))
      /\ Keeps(c, {"keyed", "source", "found", "named", "policy", "scan", "counts"})
  BY InsertDoes DEF StatusInv
<1>2. Tells(c)
  BY <1>1 DEF StatusInv
<1>3. \A j \in DOMAIN rows' : (j \in DOMAIN rows /\ rows'[j] = rows[j] /\ j # c) \/ (j = c /\ rows'[c].scan = req[c].scan)
  BY <1>1, RowShaped DEF With, StatusInv
<1>4. \A j \in DOMAIN rows' : req'[j].at = "done"
  BY <1>1, <1>3 DEF StatusInv, Others, Shape
<1>5. StatusCoversBoth'
  BY <1>1, <1>2, <1>3 DEF StatusInv, StatusCoversBoth, Tells, Keeps, Others, Shape
<1>6. \A d \in Requests : d # c => req'[d] = req[d] /\ Tells(d)' = Tells(d)
  BY <1>1 DEF Others, Tells
<1> QED BY <1>1, <1>4, <1>5, <1>6 DEF StatusInv

LEMMA StatusStep == ASSUME StatusInv, [Next]_vars PROVE StatusInv'
<1> Shape
  BY DEF StatusInv
<1>1. ASSUME NEW c \in Requests, Lookup(c) PROVE StatusInv'
  <2>1. /\ Shape' /\ Others(c) /\ rows' = rows /\ req[c].at = "idle" /\ req'[c].at \in {"done", "scan"} /\ req'[c].named = <<>>
    BY <1>1, LookupDoes DEF tables
  <2> QED BY <2>1, StatusMoves
<1>2. ASSUME NEW c \in Requests, Rerun(c) PROVE StatusInv'
  <2>1. /\ Shape' /\ Others(c) /\ rows' = rows /\ req[c].at = "idle" /\ req'[c].at \in {"failed", "scan"} /\ req'[c].named = <<>>
    BY <1>2, RerunDoes DEF Goes
  <2> QED BY <2>1, StatusMoves
<1>3. ASSUME NEW c \in Requests, ScanPayload(c) PROVE StatusInv'
  <2>1. /\ Goes(c) /\ req[c].at = "scan" /\ req'[c].at = "record" /\ req'[c].source = req[c].source /\ req'[c].named = req[c].named
        /\ req'[c].scan = StatusOf(req'[c].found, req'[c].policy)
    BY <1>3, ScanPayloadDoes DEF Keeps
  <2>2. Tells(c)'
    <3>1. PICK f, p : f = req'[c].found /\ p = req'[c].policy
      OBVIOUS
    <3> QED BY <2>1, <3>1, StatusOfTells DEF Tells
  <2> QED BY <2>1, <2>2, StatusMoves DEF Goes, StatusInv
<1>4. ASSUME NEW c \in Requests, RecordFinding(c) \/ SaveToVault(c) PROVE StatusInv'
  <2>1. /\ Goes(c) /\ req[c].at \in {"record", "vault"} /\ req'[c].at \in {"record", "vault"}
        /\ req'[c].source = req[c].source /\ req'[c].named = req[c].named
        /\ req'[c].found = req[c].found /\ req'[c].policy = req[c].policy /\ req'[c].scan = req[c].scan
    BY <1>4, RecordFindingDoes, SaveToVaultDoes DEF Keeps
  <2>2. Tells(c)'
    BY <2>1 DEF StatusInv, Tells
  <2> QED BY <2>1, <2>2, StatusMoves DEF Goes, StatusInv
<1>5. ASSUME NEW c \in Requests, RewritePayload(c) PROVE StatusInv'
  <2>1. /\ Goes(c) /\ req[c].at = "record" /\ req[c].source = "JOB_PAYLOAD" /\ req'[c].at \in {"name", "failed"}
        /\ req'[c].source = req[c].source /\ req'[c].named = req[c].named
        /\ req'[c].found = req[c].found /\ req'[c].policy = req[c].policy /\ req'[c].scan \in {req[c].scan, "SCAN_ERROR"}
    BY <1>5, RewritePayloadDoes DEF Keeps
  <2>2. Tells(c)'
    BY <2>1 DEF StatusInv, Tells
  <2> QED BY <2>1, <2>2, StatusMoves DEF Goes, StatusInv
<1>6. ASSUME NEW c \in Requests, ScanName(c) PROVE StatusInv'
  <2>1. /\ Goes(c) /\ req[c].at = "name" /\ req'[c].at \in {"insert", "record"}
        /\ req'[c].found = req[c].found /\ req'[c].policy = req[c].policy /\ req'[c].scan = req[c].scan
        /\ req'[c].at = "insert" => req'[c].named = req[c].named
        /\ req'[c].at = "insert" => req'[c].source = req[c].source
        /\ req'[c].at = "record" => req'[c].source = "JOB_METADATA"
    BY <1>6, ScanNameDoes DEF Keeps
  <2>2. Tells(c) /\ req[c].named = <<>>
    BY <2>1 DEF StatusInv
  <2>3. Tells(c)'
    BY <2>1, <2>2 DEF Tells
  <2> QED BY <2>1, <2>2, <2>3, StatusMoves DEF Goes
<1>7. ASSUME NEW c \in Requests, RewriteName(c) PROVE StatusInv'
  <2>1. /\ Goes(c) /\ req[c].at = "record" /\ req[c].source = "JOB_METADATA" /\ req'[c].at = "insert"
        /\ req'[c].found = req[c].found /\ req'[c].policy = req[c].policy /\ req'[c].named = req[c].named
        /\ req'[c].source = req[c].source
    BY <1>7, RewriteNameDoes DEF Keeps
  <2>2. PICK s \in {"SCAN_ERROR", StatusOf(req[c].named, req[c].policy)} : req'[c].scan = mergeScanStatus(req[c].scan, s)
    BY <1>7, RewriteNameDoes
  <2>3. Tells(c)
    BY <2>1 DEF StatusInv
  <2>4. s \in {"CLEAN", "DETECTED", "SCAN_ERROR"} /\ (s = "CLEAN" => req[c].named = <<>>)
    BY StatusOfTells
  <2>5. Tells(c)'
    BY <2>1, <2>2, <2>3, <2>4, MergeTells DEF Tells
  <2> QED BY <2>1, <2>5, StatusMoves DEF Goes
<1>8. ASSUME NEW c \in Requests, HangUp(c) PROVE StatusInv'
  <2>1. /\ Goes(c) /\ Busy(c) /\ \A f \in {"at", "source", "named", "found", "policy", "scan"} : req'[c][f] = req[c][f]
    BY <1>8, HangUpDoes DEF Keeps, Fields
  <2>2. req[c].at \in {"record", "vault", "name", "insert"} => Tells(c)'
    BY <2>1 DEF StatusInv, Tells
  <2> QED BY <2>1, <2>2, StatusMoves DEF Goes, Busy, StatusInv
<1>9. CASE Crash
  <2>1. /\ Shape' /\ rows' = rows
        /\ \A c \in Requests : req'[c] = req[c] \/ (Busy(c) /\ req'[c].at = "failed")
    BY <1>9, CrashDoes
  <2>2. StatusCoversBoth' /\ \A j \in DOMAIN rows' : req'[j].at = "done"
    BY <2>1, RowsTold DEF Busy
  <2>3. \A c \in Requests : req'[c] = req[c] => Tells(c)' = Tells(c)
    BY DEF Tells
  <2> QED BY <2>1, <2>2, <2>3 DEF StatusInv
<1>10. ASSUME Shape', req' = req, DOMAIN rows' = DOMAIN rows, \A j \in DOMAIN rows : rows'[j].scan = rows[j].scan
       PROVE  StatusInv'
  <2>1. StatusCoversBoth' /\ \A j \in DOMAIN rows' : req'[j].at = "done"
    BY <1>10, RowsTold
  <2>2. \A c \in Requests : Tells(c)' = Tells(c)
    BY <1>10 DEF Tells
  <2> QED BY <1>10, <2>1, <2>2 DEF StatusInv
<1>11. ASSUME NEW j \in Requests, Execute(j) PROVE StatusInv'
  BY <1>10, <1>11, ExecuteDoes
<1>12. ASSUME NEW j \in Requests, ScanOutput(j) \/ RecordOutput(j) \/ StoreArtifact(j) PROVE StatusInv'
  BY <1>10, <1>12, OutputDoes
<1>13. CASE UNCHANGED vars
  BY <1>10, <1>13 DEF vars, Shape
<1> QED BY <1>1, <1>2, <1>3, <1>4, <1>5, <1>6, <1>7, <1>8, <1>9, <1>11, <1>12, <1>13, StatusInsert DEF Next

LEMMA ToldInit == ASSUME Init PROVE RecordsInv /\ StatusInv
<1>1. Shape /\ \A c \in Requests : req[c] = Idle
  BY ShapeInit DEF Init
<1>2. DOMAIN rows = {} /\ records = {}
  BY DEF Init
<1>3. RecordsInv
  BY <1>1, <1>2, IdleShaped DEF RecordsInv, Ahead, Counts, IndicesDistinct
<1>4. StatusInv
  BY <1>1, <1>2, IdleShaped DEF StatusInv, StatusCoversBoth
<1> QED BY <1>3, <1>4

(* The records of a task's payload and name are told apart by type and index,  *)
(* and a task's status leaves out neither scan: CLEAN says that neither found   *)
(* anything, and a detector that failed shows (metadata_scan.go:29-30, 55-56). *)
THEOREM EvidenceToldSound == Spec => []EvidenceTold
<1>1. Init => RecordsInv /\ StatusInv
  BY ToldInit
<1>2. RecordsInv /\ StatusInv /\ [Next]_vars => RecordsInv' /\ StatusInv'
  BY RecordsStep, StatusStep
<1>3. RecordsInv /\ StatusInv => EvidenceTold
  BY DEF RecordsInv, StatusInv, EvidenceTold
<1> QED BY <1>1, <1>2, <1>3, PTL DEF Spec

-----------------------------------------------------------------------------
(* Folds.  A fold exists because every set can be peeled down to nothing, one  *)
(* picked element after another, and what holds of nothing and survives a step *)
(* holds of the whole.  Picks and steps are functions, not operators, so that  *)
(* the lemmas can be used of any.                                            *)
LEMMA LeastOf == ASSUME NEW S \in SUBSET Nat, S # {} PROVE \E m \in S : \A k \in S : m <= k
<1> DEFINE R == OpToRel(<, Nat)
<1>1. IsWellFoundedOn(R, Nat)
  BY NatLessThanWellFounded
<1>2. \A x, y \in Nat : x < y => <<x, y>> \in R
  BY DEF OpToRel
<1> HIDE DEF R
<1>3. PICK m \in S : \A k \in S : ~(<<k, m>> \in R)
  BY <1>1, WFMin
<1>4. \A k \in S : m \in Nat /\ k \in Nat /\ ~(k < m)
  BY <1>2, <1>3
<1> QED BY <1>4

LEMMA Upwards ==
  ASSUME NEW n \in Nat, NEW G, 0 \in G, \A i \in 1 .. n : i - 1 \in G => i \in G
  PROVE  \A i \in 0 .. n : i \in G
<1> DEFINE C == {i \in 0 .. n : i \notin G}
<1> SUFFICES ASSUME C # {} PROVE FALSE
  OBVIOUS
<1>1. C \in SUBSET Nat
  OBVIOUS
<1>2. PICK m \in C : \A k \in C : m <= k
  <2> HIDE DEF C
  <2> QED BY <1>1, LeastOf
<1>3. m \in 1 .. n /\ m - 1 \in 0 .. n /\ ~(m <= m - 1)
  BY <1>2
<1>4. m - 1 \in G
  BY <1>2, <1>3
<1> QED BY <1>2, <1>3, <1>4

(* A pick names a member of every non-empty subset. *)
Picks(p, I) == \A S \in SUBSET I : S # {} => p[S] \in S

LEMMA Peeled ==
  ASSUME NEW I, IsFiniteSet(I), NEW p, Picks(p, I), NEW G, {} \in G,
         \A S \in SUBSET I : S # {} /\ S \ {p[S]} \in G => S \in G
  PROVE  \A S \in SUBSET I : S \in G
<1> DEFINE N(k) == \A S \in SUBSET I : Cardinality(S) = k => S \in G
           K == {k \in 0 .. Cardinality(I) : N(k)}
<1>1. \A S \in SUBSET I : IsFiniteSet(S) /\ Cardinality(S) \in 0 .. Cardinality(I)
  BY FS_Subset, FS_CardinalityType
<1>2. Cardinality(I) \in Nat
  BY FS_CardinalityType
<1>3. 0 \in K
  BY <1>1, <1>2, FS_EmptySet
<1>4. ASSUME NEW k \in 1 .. Cardinality(I), k - 1 \in K PROVE k \in K
  <2> SUFFICES ASSUME NEW S \in SUBSET I, Cardinality(S) = k PROVE S \in G
    BY <1>2, <1>4
  <2>1. S # {} /\ p[S] \in S
    <3>1. Cardinality({}) = 0 /\ k # 0
      BY <1>2, FS_EmptySet
    <3> HIDE DEF K
    <3> QED BY <3>1 DEF Picks
  <2>2. Cardinality(S \ {p[S]}) = k - 1
    BY <1>1, <2>1, FS_RemoveElement
  <2>3. S \ {p[S]} \in G
    BY <1>4, <2>2
  <2> QED BY <2>1, <2>3
<1>5. \A k \in 0 .. Cardinality(I) : k \in K
  <2> HIDE DEF K
  <2> QED BY <1>2, <1>3, <1>4, Upwards
<1> QED BY <1>1, <1>5

Folds(h, I, p, b, g) == \A S \in SUBSET I : h[S] = IF S = {} THEN b ELSE g[<<p[S], h[S \ {p[S]}]>>]

LEMMA FoldThere ==
  ASSUME NEW I, IsFiniteSet(I), NEW p, Picks(p, I), NEW T, NEW b \in T, NEW g \in [I \X T -> T]
  PROVE  \E h \in [SUBSET I -> T] : Folds(h, I, p, b, g)
<1> DEFINE Upto(k) == {S \in SUBSET I : Cardinality(S) <= k}
           Is(h, k) == \A S \in Upto(k) : h[S] = IF S = {} THEN b ELSE g[<<p[S], h[S \ {p[S]}]>>]
           K == {k \in 0 .. Cardinality(I) : \E h \in [SUBSET I -> T] : Is(h, k)}
<1>1. \A S \in SUBSET I : IsFiniteSet(S) /\ Cardinality(S) \in 0 .. Cardinality(I)
  BY FS_Subset, FS_CardinalityType
<1>2. Cardinality(I) \in Nat
  BY FS_CardinalityType
<1>3. 0 \in K
  <2>1. PICK h : h = [S \in SUBSET I |-> b]
    OBVIOUS
  <2>2. \A S \in Upto(0) : S = {}
    BY <1>1, FS_EmptySet
  <2>3. h \in [SUBSET I -> T] /\ Is(h, 0)
    BY <2>1, <2>2
  <2>4. 0 \in 0 .. Cardinality(I)
    BY <1>2
  <2> HIDE DEF Is
  <2> QED BY <2>3, <2>4
<1>4. ASSUME NEW k \in 1 .. Cardinality(I), k - 1 \in K PROVE k \in K
  <2>1. PICK h \in [SUBSET I -> T] : Is(h, k - 1)
    BY <1>4
  <2>2. PICK f : f = [S \in SUBSET I |-> IF Cardinality(S) <= k - 1 \/ S = {} THEN h[S] ELSE g[<<p[S], h[S \ {p[S]}]>>]]
    OBVIOUS
  <2>3. \A S \in SUBSET I : S # {} => p[S] \in S /\ p[S] \in I /\ S \ {p[S]} \in SUBSET I
    BY DEF Picks
  <2>4. f \in [SUBSET I -> T]
    BY <2>1, <2>2, <2>3
  <2>5. ASSUME NEW S \in Upto(k) PROVE f[S] = IF S = {} THEN b ELSE g[<<p[S], f[S \ {p[S]}]>>]
    <3>1. CASE S = {}
      <4>1. S \in Upto(k - 1)
        BY <1>2, <3>1, FS_EmptySet
      <4> QED BY <2>1, <2>2, <3>1, <4>1
    <3>2. CASE S # {}
      <4>1. Cardinality(S \ {p[S]}) = Cardinality(S) - 1 /\ Cardinality(S) \in Nat
        BY <1>1, <2>3, <3>2, FS_RemoveElement, FS_CardinalityType
      <4>2. Cardinality(S \ {p[S]}) <= k - 1 /\ k \in Nat
        BY <1>2, <4>1
      <4>3. f[S \ {p[S]}] = h[S \ {p[S]}]
        BY <2>2, <2>3, <3>2, <4>2
      <4>4. CASE Cardinality(S) <= k - 1
        <5>1. f[S] = h[S] /\ S \in Upto(k - 1)
          BY <2>2, <4>4
        <5> QED BY <2>1, <3>2, <4>3, <5>1
      <4>5. CASE ~(Cardinality(S) <= k - 1)
        BY <2>2, <3>2, <4>3, <4>5
      <4> QED BY <4>4, <4>5
    <3> QED BY <3>1, <3>2
  <2>6. k \in 0 .. Cardinality(I)
    BY <1>2
  <2>7. Is(f, k)
    BY <2>5
  <2> HIDE DEF Is
  <2> QED BY <2>4, <2>6, <2>7
<1>5. Cardinality(I) \in K
  <2> HIDE DEF K
  <2> QED BY <1>2, <1>3, <1>4, Upwards
<1>6. PICK h \in [SUBSET I -> T] : Is(h, Cardinality(I))
  BY <1>5
<1>7. \A S \in SUBSET I : S \in Upto(Cardinality(I))
  BY <1>1
<1> QED BY <1>6, <1>7 DEF Folds

-----------------------------------------------------------------------------
(* A sequence of sequences laid end to end. *)
In(e, s) == \E k \in DOMAIN s : s[k] = e

LEMMA Joined ==
  ASSUME NEW T, NEW s \in Seq(T), NEW t \in Seq(T)
  PROVE  s \o t \in Seq(T) /\ \A e : In(e, s \o t) <=> In(e, s) \/ In(e, t)
<1>1. /\ s \o t \in Seq(T) /\ Len(s \o t) = Len(s) + Len(t) /\ Len(s) \in Nat /\ Len(t) \in Nat
      /\ DOMAIN s = 1 .. Len(s) /\ DOMAIN t = 1 .. Len(t) /\ DOMAIN (s \o t) = 1 .. Len(s) + Len(t)
      /\ \A i \in 1 .. Len(s) + Len(t) : (s \o t)[i] = IF i <= Len(s) THEN s[i] ELSE t[i - Len(s)]
  OBVIOUS
<1>2. ASSUME NEW e, In(e, s \o t) PROVE In(e, s) \/ In(e, t)
  <2>1. PICK k \in 1 .. Len(s) + Len(t) : (s \o t)[k] = e
    BY <1>1, <1>2 DEF In
  <2>2. CASE k <= Len(s)
    BY <1>1, <2>1, <2>2 DEF In
  <2>3. CASE ~(k <= Len(s))
    <3>1. k - Len(s) \in 1 .. Len(t) /\ t[k - Len(s)] = e
      BY <1>1, <2>1, <2>3
    <3> QED BY <1>1, <3>1 DEF In
  <2> QED BY <2>2, <2>3
<1>3. ASSUME NEW e, In(e, s) PROVE In(e, s \o t)
  <2>1. PICK k \in 1 .. Len(s) : s[k] = e
    BY <1>1, <1>3 DEF In
  <2>2. k \in 1 .. Len(s) + Len(t) /\ (s \o t)[k] = e
    BY <1>1, <2>1
  <2> QED BY <1>1, <2>2 DEF In
<1>4. ASSUME NEW e, In(e, t) PROVE In(e, s \o t)
  <2>1. PICK k \in 1 .. Len(t) : t[k] = e
    BY <1>1, <1>4 DEF In
  <2>2. k + Len(s) \in 1 .. Len(s) + Len(t) /\ (s \o t)[k + Len(s)] = t[k]
    <3>1. k + Len(s) \in 1 .. Len(s) + Len(t) /\ ~(k + Len(s) <= Len(s)) /\ (k + Len(s)) - Len(s) = k
      BY <1>1, <2>1
    <3> QED BY <1>1, <3>1
  <2> QED BY <1>1, <2>1, <2>2 DEF In
<1> QED BY <1>1, <1>2, <1>3, <1>4

LEMMA Flattened ==
  ASSUME NEW T, NEW ss \in Seq(Seq(T))
  PROVE  FlattenSeq(ss) \in Seq(T) /\ \A e : In(e, FlattenSeq(ss)) <=> \E i \in DOMAIN ss : In(e, ss[i])
<1>0. Len(ss) \in Nat /\ DOMAIN ss = 1 .. Len(ss) /\ \A i \in 1 .. Len(ss) : ss[i] \in Seq(T)
  OBVIOUS
<1>1. CASE Len(ss) = 0
  <2>1. FlattenSeq(ss) = ss
    BY <1>1 DEF FlattenSeq
  <2>2. ss = <<>> /\ DOMAIN ss = {}
    BY <1>0, <1>1
  <2> QED BY <2>1, <2>2 DEF In
<1>2. CASE Len(ss) # 0
  <2> DEFINE n == Len(ss)
             Is(f) == f = [i \in 1 .. n |-> IF i = 1 THEN ss[i] ELSE f[i - 1] \o ss[i]]
             Good(f, k) == \A i \in 1 .. k : f[i] = IF i = 1 THEN ss[i] ELSE f[i - 1] \o ss[i]
             G == {k \in 0 .. n : \E f \in [1 .. n -> Seq(T)] : Good(f, k)}
  <2>1. 0 \in G
    <3>1. [i \in 1 .. n |-> ss[i]] \in [1 .. n -> Seq(T)] /\ 0 \in 0 .. n
      BY <1>0
    <3>2. Good([i \in 1 .. n |-> ss[i]], 0)
      OBVIOUS
    <3> HIDE DEF Good
    <3> QED BY <3>1, <3>2
  <2>2. ASSUME NEW k \in 1 .. n, k - 1 \in G PROVE k \in G
    <3>1. PICK f \in [1 .. n -> Seq(T)] : Good(f, k - 1)
      BY <2>2
    <3>2. PICK v : v = IF k = 1 THEN ss[k] ELSE f[k - 1] \o ss[k]
      OBVIOUS
    <3>3. v \in Seq(T)
      <4>1. CASE k = 1
        BY <1>0, <3>2, <4>1
      <4>2. CASE k # 1
        <5>1. f[k - 1] \in Seq(T) /\ ss[k] \in Seq(T)
          <6>1. k - 1 \in 1 .. n /\ k \in 1 .. n
            BY <1>0, <4>2
          <6> HIDE DEF Good, G
          <6> QED BY <1>0, <3>1, <6>1
        <5> QED BY <3>2, <4>2, <5>1
      <4> QED BY <4>1, <4>2
    <3>4. PICK h : h = [f EXCEPT ![k] = v]
      OBVIOUS
    <3>5. h \in [1 .. n -> Seq(T)]
      BY <3>1, <3>3, <3>4
    <3>6. Good(h, k)
      <4> SUFFICES ASSUME NEW i \in 1 .. k PROVE h[i] = IF i = 1 THEN ss[i] ELSE h[i - 1] \o ss[i]
        OBVIOUS
      <4>1. i \in 1 .. n /\ n \in Nat /\ k \in Nat /\ i \in Nat /\ i - 1 # k /\ (i # 1 => i - 1 \in 1 .. n)
        BY <1>0
      <4>2. i # 1 => h[i - 1] = f[i - 1]
        BY <3>1, <3>4, <4>1
      <4>3. CASE i = k
        BY <3>1, <3>2, <3>4, <4>1, <4>2, <4>3
      <4>4. CASE i # k
        <5>1. i \in 1 .. k - 1
          BY <4>1, <4>4
        <5>2. f[i] = IF i = 1 THEN ss[i] ELSE f[i - 1] \o ss[i]
          BY <3>1, <5>1
        <5> QED BY <3>1, <3>4, <4>1, <4>2, <4>4, <5>2
      <4> QED BY <4>3, <4>4
    <3>7. k \in 0 .. n
      BY <1>0
    <3> HIDE DEF Good
    <3> QED BY <3>5, <3>6, <3>7
  <2>0. n \in Nat
    BY <1>0
  <2>3. n \in G
    <3> HIDE DEF G, n
    <3>1. \A i \in 1 .. n : i - 1 \in G => i \in G
      BY <2>2
    <3>2. \A i \in 0 .. n : i \in G
      BY ONLY <2>0, <2>1, <3>1, Upwards
    <3> QED BY <2>0, <3>2
  <2>4. \E f : Is(f)
    <3>1. PICK f \in [1 .. n -> Seq(T)] : Good(f, n)
      BY <2>3
    <3> QED BY <3>1
  <2>5. PICK f : f = CHOOSE h : Is(h)
    OBVIOUS
  <2>6. Is(f)
    <3> HIDE DEF Is
    <3> QED BY <2>4, <2>5
  <2>7. FlattenSeq(ss) = f[n]
    BY <1>2, <2>5 DEF FlattenSeq
  <2> DEFINE P == {i \in 0 .. n : i # 0 => f[i] \in Seq(T) /\ \A e : In(e, f[i]) <=> \E j \in 1 .. i : In(e, ss[j])}
  <2>8. 0 \in P
    BY <1>0
  <2>9. ASSUME NEW i \in 1 .. n, i - 1 \in P PROVE i \in P
    <3>1. f[i] = IF i = 1 THEN ss[i] ELSE f[i - 1] \o ss[i]
      BY <2>6
    <3>2. CASE i = 1
      <4>1. f[i] = ss[1] /\ 1 .. i = {1}
        BY <3>1, <3>2
      <4>2. f[i] \in Seq(T) /\ \A e : In(e, f[i]) <=> \E j \in 1 .. i : In(e, ss[j])
        BY <1>0, <3>2, <4>1
      <4> QED BY <1>0, <4>2
    <3>3. CASE i # 1
      <4>1. /\ i - 1 # 0 /\ f[i - 1] \in Seq(T) /\ ss[i] \in Seq(T) /\ i \in 0 .. n /\ 1 .. i = (1 .. i - 1) \cup {i}
            /\ \A e : In(e, f[i - 1]) <=> \E j \in 1 .. i - 1 : In(e, ss[j])
        BY <1>0, <2>9, <3>3
      <4>2. f[i] \in Seq(T) /\ \A e : In(e, f[i]) <=> In(e, f[i - 1]) \/ In(e, ss[i])
        BY <3>1, <3>3, <4>1, Joined
      <4>3. \A e : In(e, f[i]) <=> \E j \in 1 .. i : In(e, ss[j])
        <5> HIDE DEF P
        <5> QED BY ONLY <4>1, <4>2
      <4> QED BY <4>1, <4>2, <4>3
    <3> QED BY <3>2, <3>3
  <2>10. n \in P
    <3> HIDE DEF P, n
    <3>1. \A i \in 1 .. n : i - 1 \in P => i \in P
      BY <2>9
    <3>2. \A i \in 0 .. n : i \in P
      BY ONLY <2>0, <2>8, <3>1, Upwards
    <3> QED BY <2>0, <3>2
  <2> QED BY <1>0, <1>2, <2>7, <2>10
<1> QED BY <1>1, <1>2

-----------------------------------------------------------------------------
(* ResolveOverlaps meets one finding after another. *)
LEMMA LastOf ==
  ASSUME NEW n \in Nat, NEW S \in SUBSET (1 .. n), S # {}
  PROVE  Max(S) \in S /\ \A x \in S : x <= Max(S)
<1> DEFINE N == {n - x : x \in S}
<1>1. N \in SUBSET Nat /\ N # {}
  <2>1. \A x \in S : n - x \in Nat
    OBVIOUS
  <2> QED BY <2>1
<1>2. PICK m \in N : \A k \in N : m <= k
  <2> HIDE DEF N
  <2> QED BY <1>1, LeastOf
<1>3. PICK y \in S : m = n - y
  BY <1>2
<1>4. \A x \in S : n - y <= n - x
  BY <1>2, <1>3
<1>5. \A x \in S : x <= y
  BY <1>4
<1>6. \E x \in S : \A z \in S : x >= z
  BY <1>5
<1>7. Max(S) \in S /\ \A z \in S : Max(S) >= z
  <2> HIDE DEF N
  <2> QED BY <1>6 DEF Max
<1> QED BY <1>7

LEMMA MeetTyped == ASSUME NEW T, NEW kept \in Seq(T), NEW c \in T PROVE Meet(kept, c) \in Seq(T)
<1> DEFINE conflicts == {i \in DOMAIN kept : SamePlace(c, kept[i])}
<1>1. PICK first : first = CHOOSE i \in conflicts : \A j \in conflicts : i <= j
  OBVIOUS
<1>2. [kept EXCEPT ![first] = c] \in Seq(T)
  <2> HIDE DEF conflicts
  <2>1. PICK n \in Nat : kept \in [1 .. n -> T]
    OBVIOUS
  <2>2. [kept EXCEPT ![first] = c] \in [1 .. n -> T]
    BY <2>1
  <2> QED BY <2>1, <2>2
<1>3. Append(kept, c) \in Seq(T)
  OBVIOUS
<1>4. Meet(kept, c) \in {Append(kept, c), [kept EXCEPT ![first] = c], kept}
  <2>1. CASE conflicts = {}
    BY <1>1, <2>1 DEF Meet
  <2>2. CASE conflicts # {} /\ winsOver(c, kept[first])
    BY <1>1, <2>2 DEF Meet
  <2>3. CASE conflicts # {} /\ ~winsOver(c, kept[first])
    BY <1>1, <2>3 DEF Meet
  <2> QED BY <2>1, <2>2, <2>3
<1> QED BY <1>2, <1>3, <1>4

LEMMA ResolveLoop ==
  ASSUME NEW T, NEW s \in Seq(T)
  PROVE  \E k \in [0 .. Len(s) -> Seq(T)] :
            /\ k[0] = <<>> /\ ResolveOverlaps(s) = k[Len(s)]
            /\ \A i \in 1 .. Len(s) : k[i] = Meet(k[i - 1], s[i])
<1>1. PICK n \in Nat : n = Len(s) /\ DOMAIN s = 1 .. n /\ \A i \in 1 .. n : s[i] \in T
  OBVIOUS
<1> DEFINE I == 1 .. n
           p == [S \in SUBSET I |-> Max(S)]
           g == [x \in I \X Seq(T) |-> Meet(x[2], s[x[1]])]
           Is(f) == f = [S \in SUBSET I |-> IF S = {} THEN <<>> ELSE LET x == Max(S) IN Meet(f[S \ {x}], s[x])]
<1>2. IsFiniteSet(I)
  BY FS_Interval
<1>3. Picks(p, I)
  BY <1>1, LastOf DEF Picks
<1>4. g \in [I \X Seq(T) -> Seq(T)]
  <2>1. ASSUME NEW x \in I \X Seq(T) PROVE Meet(x[2], s[x[1]]) \in Seq(T)
    <3>1. x[2] \in Seq(T) /\ s[x[1]] \in T
      BY <1>1
    <3> QED BY <3>1, MeetTyped
  <2> QED BY <2>1
<1>5. <<>> \in Seq(T)
  OBVIOUS
<1>6. PICK h \in [SUBSET I -> Seq(T)] : \A S \in SUBSET I : h[S] = IF S = {} THEN <<>> ELSE g[<<p[S], h[S \ {p[S]}]>>]
  <2>1. PICK Q, b : Q = Seq(T) /\ b = <<>>
    OBVIOUS
  <2>2. b \in Q /\ g \in [I \X Q -> Q]
    BY <1>4, <1>5, <2>1
  <2> HIDE DEF I, p, g
  <2>3. \E h \in [SUBSET I -> Q] : Folds(h, I, p, b, g)
    BY ONLY <1>2, <1>3, <2>2, FoldThere
  <2> QED BY <2>1, <2>3 DEF Folds
<1>7. Is(h)
  <2>1. ASSUME NEW S \in SUBSET I, S # {} PROVE g[<<p[S], h[S \ {p[S]}]>>] = Meet(h[S \ {Max(S)}], s[Max(S)])
    <3>1. p[S] = Max(S) /\ Max(S) \in I /\ S \ {Max(S)} \in SUBSET I
      BY <1>1, <2>1, LastOf
    <3>2. h[S \ {Max(S)}] \in Seq(T)
      BY <1>6, <3>1
    <3> QED BY <3>1, <3>2
  <2>2. h = [S \in SUBSET I |-> h[S]]
    BY <1>6
  <2>3. \A S \in SUBSET I : h[S] = IF S = {} THEN <<>> ELSE LET x == Max(S) IN Meet(h[S \ {x}], s[x])
    BY <1>6, <2>1
  <2> HIDE DEF I, p, g
  <2> QED BY <2>2, <2>3
<1>8. PICK f : f = CHOOSE h2 : Is(h2)
  OBVIOUS
<1>9. Is(f)
  <2> HIDE DEF Is
  <2> QED BY <1>7, <1>8
<1>10. ResolveOverlaps(s) = f[I]
  BY <1>1, <1>8 DEF ResolveOverlaps, FoldLeft, MapThenFoldSet
<1>11. f[{}] = <<>>
  <2>1. {} \in SUBSET I
    OBVIOUS
  <2> HIDE DEF I
  <2> QED BY <1>9, <2>1
<1>12. ASSUME NEW i \in 1 .. n PROVE f[1 .. i] = Meet(f[1 .. i - 1], s[i])
  <2>0. n \in Nat
    BY <1>1
  <2>1. (1 .. i) \in SUBSET I /\ 1 .. i # {} /\ (1 .. i) \in SUBSET (1 .. n)
    <3>1. i \in 1 .. i /\ \A x \in 1 .. i : x \in 1 .. n
      BY <2>0
    <3>2. 1 .. i \subseteq 1 .. n
      BY <3>1
    <3> QED BY ONLY <3>1, <3>2
  <2>2. Max(1 .. i) \in 1 .. i /\ \A x \in 1 .. i : x <= Max(1 .. i)
    BY <1>1, <2>1, LastOf
  <2>3. Max(1 .. i) = i /\ (1 .. i) \ {i} = 1 .. i - 1
    BY <1>1, <2>2
  <2> HIDE DEF I
  <2> QED BY <1>9, <2>1, <2>3
<1>13. PICK k : k = [i \in 0 .. n |-> f[1 .. i]]
  OBVIOUS
<1>14. k[0] = <<>> /\ (\A i \in 1 .. n : k[i] = Meet(k[i - 1], s[i])) /\ ResolveOverlaps(s) = k[n]
  <2>1. 1 .. 0 = {}
    OBVIOUS
  <2>2. \A i \in 1 .. n : i \in 0 .. n /\ i - 1 \in 0 .. n
    BY <1>1
  <2>3. 0 \in 0 .. n /\ n \in 0 .. n
    BY <1>1
  <2> QED BY <1>10, <1>11, <1>12, <1>13, <2>1, <2>2, <2>3
<1> DEFINE G == {i \in 0 .. n : k[i] \in Seq(T)}
<1>15. \A i \in 0 .. n : i \in G
  <2>1. 0 \in G
    <3>1. k[0] = <<>> /\ 0 \in 0 .. n
      BY <1>1, <1>14
    <3> QED BY ONLY <3>1, <1>5
  <2>2. ASSUME NEW i \in 1 .. n, i - 1 \in G PROVE i \in G
    <3>1. k[i - 1] \in Seq(T) /\ s[i] \in T /\ i \in 0 .. n
      BY <1>1, <2>2
    <3>2. k[i] \in Seq(T)
      <4>1. Meet(k[i - 1], s[i]) \in Seq(T)
        BY ONLY <3>1, MeetTyped
      <4>2. k[i] = Meet(k[i - 1], s[i])
        BY <1>14
      <4> QED BY <4>1, <4>2
    <3> QED BY <3>1, <3>2
  <2> HIDE DEF G
  <2>3. \A i \in 1 .. n : i - 1 \in G => i \in G
    BY <2>2
  <2> QED BY ONLY <1>1, <2>1, <2>3, Upwards
<1>16. k \in [0 .. n -> Seq(T)]
  BY <1>13, <1>15
<1> QED BY <1>1, <1>14, <1>16

(* A sequence, of whatever it holds. *)
Listed(s) == s \in Seq({s[i] : i \in DOMAIN s})

LEMMA ListedIs == ASSUME NEW T, NEW s \in Seq(T) PROVE Listed(s) /\ \A i \in DOMAIN s : s[i] \in T
<1>1. PICK n \in Nat : n = Len(s) /\ DOMAIN s = 1 .. n /\ s \in [1 .. n -> T]
  OBVIOUS
<1>2. s \in [1 .. n -> {s[i] : i \in DOMAIN s}]
  BY <1>1
<1>3. \A i \in DOMAIN s : s[i] \in T
  BY <1>1
<1>4. PICK D : D = {s[i] : i \in DOMAIN s}
  OBVIOUS
<1>5. s \in Seq(D)
  <2>1. s \in [1 .. n -> D]
    BY <1>2, <1>4
  <2> QED BY ONLY n \in Nat, <2>1
<1> QED BY <1>3, <1>4, <1>5 DEF Listed

LEMMA Resolved ==
  ASSUME NEW s, Listed(s)
  PROVE  Listed(ResolveOverlaps(s)) /\ \A e : In(e, ResolveOverlaps(s)) => In(e, s)
<1>1. PICK T : T = {s[i] : i \in DOMAIN s}
  OBVIOUS
<1>2. s \in Seq(T) /\ Len(s) \in Nat
  BY <1>1 DEF Listed
<1>3. ResolveOverlaps(s) \in Seq(T)
  <2>1. PICK k \in [0 .. Len(s) -> Seq(T)] : ResolveOverlaps(s) = k[Len(s)]
    BY <1>2, ResolveLoop
  <2> QED BY <1>2, <2>1
<1>4. Listed(ResolveOverlaps(s)) /\ \A i \in DOMAIN ResolveOverlaps(s) : ResolveOverlaps(s)[i] \in T
  BY <1>3, ListedIs
<1> QED BY <1>1, <1>4 DEF In

(* What overlaps nothing but itself is kept, once. *)
Apart(s) == \A i, j \in DOMAIN s : SamePlace(s[i], s[j]) <=> s[i] = s[j]

LEMMA ResolvedApart ==
  ASSUME NEW s, Listed(s), Apart(s)
  PROVE  Disjoint(ResolveOverlaps(s)) /\ \A e : In(e, s) => In(e, ResolveOverlaps(s))
<1>1. PICK T : T = {s[i] : i \in DOMAIN s}
  OBVIOUS
<1>2. s \in Seq(T) /\ \A a, b \in T : SamePlace(a, b) <=> a = b
  BY <1>1 DEF Listed, Apart
<1>3. PICK n \in Nat : n = Len(s) /\ DOMAIN s = 1 .. n
  BY <1>2
<1>4. PICK k \in [0 .. n -> Seq(T)] : k[0] = <<>> /\ ResolveOverlaps(s) = k[n] /\ \A i \in 1 .. n : k[i] = Meet(k[i - 1], s[i])
  BY <1>2, <1>3, ResolveLoop
<1> DEFINE G == {i \in 0 .. n : Disjoint(k[i]) /\ \A j \in 1 .. i : In(s[j], k[i])}
<1>5. 0 \in G
  BY <1>3, <1>4 DEF Disjoint
<1>6. ASSUME NEW i \in 1 .. n, i - 1 \in G PROVE i \in G
  <2>1. PICK K : K = k[i - 1]
    OBVIOUS
  <2>2. K \in Seq(T) /\ Disjoint(K) /\ (\A j \in 1 .. i - 1 : In(s[j], K)) /\ k[i] = Meet(K, s[i]) /\ s[i] \in T
    BY <1>1, <1>3, <1>4, <1>6, <2>1
  <2>3. PICK m \in Nat : m = Len(K) /\ DOMAIN K = 1 .. m /\ \A x \in 1 .. m : K[x] \in T
    BY <2>2
  <2> DEFINE conflicts == {x \in DOMAIN K : SamePlace(s[i], K[x])}
  <2>4. conflicts = {x \in 1 .. m : K[x] = s[i]}
    BY <1>2, <2>2, <2>3
  <2>5. Disjoint(k[i]) /\ In(s[i], k[i]) /\ \A e : In(e, K) => In(e, k[i])
    <3>1. CASE conflicts = {}
      <4>1. k[i] = Append(K, s[i])
        BY <2>2, <3>1 DEF Meet
      <4>2. Len(k[i]) = m + 1 /\ DOMAIN k[i] = 1 .. m + 1 /\ k[i][m + 1] = s[i] /\ \A x \in 1 .. m : k[i][x] = K[x]
        BY <2>2, <2>3, <4>1
      <4>3. \A x \in 1 .. m : ~SamePlace(s[i], K[x]) /\ ~SamePlace(K[x], s[i])
        BY <1>2, <2>2, <2>3, <2>4, <3>1
      <4>4. Disjoint(k[i])
        <5> SUFFICES ASSUME NEW x \in 1 .. m + 1, NEW y \in 1 .. m + 1, x # y PROVE ~SamePlace(k[i][x], k[i][y])
          BY <4>2 DEF Disjoint
        <5> HIDE DEF G, conflicts
        <5>0. (x \in 1 .. m \/ x = m + 1) /\ (y \in 1 .. m \/ y = m + 1)
          BY <2>3
        <5>1. CASE x \in 1 .. m /\ y \in 1 .. m
          <6>1. ~SamePlace(K[x], K[y])
            BY <2>2, <2>3, <5>1 DEF Disjoint
          <6> QED BY <4>2, <5>1, <6>1
        <5>2. CASE x = m + 1 /\ y \in 1 .. m
          BY <4>2, <4>3, <5>2
        <5>3. CASE x \in 1 .. m /\ y = m + 1
          BY <4>2, <4>3, <5>3
        <5> QED BY <5>0, <5>1, <5>2, <5>3
      <4>5. In(s[i], k[i])
        <5>1. m + 1 \in 1 .. m + 1
          BY <2>3
        <5> QED BY <4>2, <5>1 DEF In
      <4>6. ASSUME NEW e, In(e, K) PROVE In(e, k[i])
        <5>1. PICK x \in 1 .. m : K[x] = e
          BY <2>3, <4>6 DEF In
        <5>2. x \in 1 .. m + 1 /\ k[i][x] = e
          BY <2>3, <4>2, <5>1
        <5> QED BY <4>2, <5>2 DEF In
      <4> QED BY <4>4, <4>5, <4>6
    <3>2. CASE conflicts # {}
      <4>1. PICK first : first = CHOOSE x \in conflicts : \A y \in conflicts : x <= y
        OBVIOUS
      <4>2. first \in conflicts
        <5>1. conflicts \in SUBSET Nat
          BY <2>3
        <5> HIDE DEF conflicts
        <5> QED BY <3>2, <4>1, <5>1, LeastOf
      <4>3. [K EXCEPT ![first] = s[i]] = K
        <5>1. K[first] = s[i] /\ first \in 1 .. m
          BY <2>4, <4>2
        <5> QED BY <2>2, <2>3, <5>1
      <4>4. Meet(K, s[i]) \in {K, [K EXCEPT ![first] = s[i]]}
        BY <3>2, <4>1 DEF Meet
      <4>5. k[i] = K /\ In(s[i], K)
        BY <2>2, <2>3, <2>4, <4>2, <4>3, <4>4 DEF In
      <4> QED BY <2>2, <4>5
    <3> QED BY <3>1, <3>2
  <2>6. \A j \in 1 .. i : j \in 1 .. i - 1 \/ j = i
    BY <1>3
  <2>7. i \in 0 .. n
    BY <1>3
  <2> QED BY <2>2, <2>5, <2>6, <2>7
<1>7. \A i \in 0 .. n : i \in G
  <2> HIDE DEF G
  <2>1. \A i \in 1 .. n : i - 1 \in G => i \in G
    BY <1>6
  <2> QED BY ONLY <1>3, <1>5, <2>1, Upwards
<1>8. n \in G
  BY <1>3, <1>7
<1> QED BY <1>3, <1>4, <1>8 DEF In

-----------------------------------------------------------------------------
(* What DropIgnored and Mine leave of a sequence. *)
Those(s, P) == FlattenSeq([i \in DOMAIN s |-> IF s[i] \in P THEN <<s[i]>> ELSE <<>>])

LEMMA Kept ==
  ASSUME NEW T, NEW s \in Seq(T), NEW P
  PROVE  Those(s, P) \in Seq(T) /\ \A e : In(e, Those(s, P)) <=> In(e, s) /\ e \in P
<1>0. PICK ss : ss = [i \in DOMAIN s |-> IF s[i] \in P THEN <<s[i]>> ELSE <<>>]
  OBVIOUS
<1>1. PICK n \in Nat : n = Len(s) /\ DOMAIN s = 1 .. n /\ \A i \in 1 .. n : s[i] \in T
  OBVIOUS
<1>2. \A i \in 1 .. n : ss[i] \in Seq(T)
  BY <1>0, <1>1
<1>3. ss \in Seq(Seq(T)) /\ DOMAIN ss = 1 .. n
  <2>1. ss \in [1 .. n -> Seq(T)]
    BY <1>0, <1>1, <1>2
  <2> QED BY <1>1, <2>1
<1>4. \A i \in 1 .. n : \A e : In(e, ss[i]) <=> e = s[i] /\ e \in P
  <2> SUFFICES ASSUME NEW i \in 1 .. n, NEW e PROVE In(e, ss[i]) <=> e = s[i] /\ e \in P
    OBVIOUS
  <2>1. CASE s[i] \in P
    <3>1. ss[i] = <<s[i]>>
      BY <1>0, <1>1, <2>1
    <3>2. In(e, <<s[i]>>) <=> e = s[i]
      BY DEF In
    <3> QED BY <2>1, <3>1, <3>2
  <2>2. CASE s[i] \notin P
    <3>1. ss[i] = <<>>
      BY <1>0, <1>1, <2>2
    <3>2. ~In(e, <<>>)
      BY DEF In
    <3> QED BY <2>2, <3>1, <3>2
  <2> QED BY <2>1, <2>2
<1>5. Those(s, P) \in Seq(T) /\ \A e : In(e, Those(s, P)) <=> \E i \in 1 .. n : In(e, ss[i])
  <2>1. Those(s, P) = FlattenSeq(ss)
    BY <1>0 DEF Those
  <2> QED BY <1>3, <2>1, Flattened
<1>6. \A e : In(e, s) <=> \E i \in 1 .. n : e = s[i]
  BY <1>1 DEF In
<1> QED BY ONLY <1>4, <1>5, <1>6

LEMMA DropIgnoredDoes ==
  ASSUME NEW s, Listed(s)
  PROVE  Listed(DropIgnored(s)) /\ \A e : In(e, DropIgnored(s)) <=> In(e, s) /\ e.rule.action # "IGNORE"
<1>1. PICK T : T = {s[i] : i \in DOMAIN s}
  OBVIOUS
<1>2. s \in Seq(T)
  BY <1>1 DEF Listed
<1>3. PICK P : P = {e \in T : e.rule.action # "IGNORE"}
  OBVIOUS
<1>5. DropIgnored(s) = Those(s, P)
  <2>1. \A i \in DOMAIN s : s[i] \in P <=> s[i].rule.action # "IGNORE"
    BY <1>1, <1>3
  <2>2. [i \in DOMAIN s |-> IF s[i] \in P THEN <<s[i]>> ELSE <<>>]
           = [i \in DOMAIN s |-> IF s[i].rule.action # "IGNORE" THEN <<s[i]>> ELSE <<>>]
    BY <2>1
  <2> QED BY <2>2 DEF DropIgnored, Such, Those
<1>6. Those(s, P) \in Seq(T) /\ \A e : In(e, Those(s, P)) <=> In(e, s) /\ e \in P
  BY <1>2, Kept
<1>7. \A e : In(e, s) => e \in T
  BY <1>1 DEF In
<1> QED BY <1>3, <1>5, <1>6, <1>7, ListedIs

IsMine(f, leaf) == f.path = PathOf(leaf.steps) /\ f.end <= Len(leaf.text) /\ Slice(leaf.text, f.start, f.end) = f.match

LEMMA MineDoes ==
  ASSUME NEW s, Listed(s), NEW leaf
  PROVE  Listed(Mine(leaf, s)) /\ \A e : In(e, Mine(leaf, s)) <=> In(e, s) /\ IsMine(e, leaf)
<1>1. PICK T : T = {s[i] : i \in DOMAIN s}
  OBVIOUS
<1>2. s \in Seq(T)
  BY <1>1 DEF Listed
<1>3. PICK P : P = {e \in T : IsMine(e, leaf)}
  OBVIOUS
<1>5. Mine(leaf, s) = Those(s, P)
  <2>1. \A i \in DOMAIN s : s[i] \in P <=> IsMine(s[i], leaf)
    BY <1>1, <1>3
  <2>2. [i \in DOMAIN s |-> IF s[i] \in P THEN <<s[i]>> ELSE <<>>]
           = [i \in DOMAIN s |-> IF IsMine(s[i], leaf) THEN <<s[i]>> ELSE <<>>]
    BY <2>1
  <2> QED BY <2>2 DEF Mine, Such, Those, IsMine
<1>6. Those(s, P) \in Seq(T) /\ \A e : In(e, Those(s, P)) <=> In(e, s) /\ e \in P
  BY <1>2, Kept
<1>7. \A e : In(e, s) => e \in T
  BY <1>1 DEF In
<1> QED BY <1>3, <1>5, <1>6, <1>7, ListedIs

-----------------------------------------------------------------------------
(* Detection.  Of a finite set of pairs with different starts there is one of   *)
(* each rank.                                                                *)
LEMMA Ranked ==
  ASSUME NEW S, IsFiniteSet(S), \A x \in S : x[1] \in Nat, \A x, y \in S : x[1] = y[1] => x = y,
         NEW r \in 1 .. Cardinality(S)
  PROVE  \E at \in S : Cardinality({o \in S : o[1] < at[1]}) = r - 1
<1>1. PICK c \in Nat : c = Cardinality(S)
  BY FS_CardinalityType
<1> DEFINE Below(x) == {o \in S : o[1] < x[1]}
           G == {i \in 0 .. c : i # 0 => \E at \in S : Cardinality(Below(at)) = i - 1}
<1>2. ASSUME NEW R \in SUBSET S, R # {} PROVE \E y \in R : \A x \in R : y[1] <= x[1]
  <2> DEFINE N == {x[1] : x \in R}
  <2>1. N \in SUBSET Nat /\ N # {}
    BY <1>2
  <2>2. PICK m \in N : \A k \in N : m <= k
    <3> HIDE DEF N
    <3> QED BY <2>1, LeastOf
  <2> QED BY <2>2
<1>3. 0 \in G
  OBVIOUS
<1>4. ASSUME NEW i \in 1 .. c, i - 1 \in G PROVE i \in G
  <2>1. CASE i = 1
    <3>1. S # {}
      BY <1>1, <2>1, FS_EmptySet
    <3>2. PICK y \in S : \A x \in S : y[1] <= x[1]
      BY <1>2, <3>1
    <3>3. Below(y) = {}
      BY <3>2
    <3>4. Cardinality(Below(y)) = 0
      BY <3>3, FS_EmptySet
    <3> HIDE DEF Below
    <3> QED BY <1>1, <2>1, <3>4
  <2>2. CASE i # 1
    <3>1. PICK at \in S : Cardinality(Below(at)) = i - 2
      BY <1>1, <1>4, <2>2
    <3>2. PICK L : L = Below(at) \cup {at}
      OBVIOUS
    <3>3. IsFiniteSet(Below(at)) /\ at \notin Below(at) /\ L \subseteq S /\ IsFiniteSet(L)
      BY <3>2, FS_Subset
    <3>4. Cardinality(L) = i - 1
      <4>1. Cardinality(L) = (i - 2) + 1
        BY <3>1, <3>2, <3>3, FS_AddElement
      <4> QED BY <1>1, <4>1
    <3>5. S \ L # {}
      <4>1. S # L
        BY <1>1, <3>4
      <4> QED BY <3>3, <4>1
    <3>6. PICK y \in S \ L : \A x \in S \ L : y[1] <= x[1]
      BY <1>2, <3>5
    <3>7. Below(y) = L
      <4>1. \A o \in S : o \notin L => ~(o[1] < y[1])
        BY <3>6
      <4>2. at[1] <= y[1] /\ at[1] # y[1]
        BY <3>2, <3>6
      <4>3. \A o \in L : o \in S /\ o[1] < y[1]
        BY <3>2, <3>3, <4>2
      <4> QED BY <4>1, <4>3
    <3>8. i \in 0 .. c
      BY <1>1
    <3> HIDE DEF Below
    <3> QED BY <3>4, <3>6, <3>7, <3>8
  <2> QED BY <2>1, <2>2
<1>5. \A i \in 0 .. c : i \in G
  <2> HIDE DEF G
  <2>1. \A i \in 1 .. c : i - 1 \in G => i \in G
    BY <1>4
  <2> QED BY ONLY <1>1, <1>3, <2>1, Upwards
<1>6. r \in 0 .. c /\ r # 0
  BY <1>1
<1>7. r \in G
  BY ONLY <1>5, <1>6
<1> QED BY <1>6, <1>7

Fits(f, text, path) ==
    /\ f.path = path /\ f.start \in Nat /\ f.end \in Nat /\ f.start < f.end /\ f.end <= Len(text)
    /\ f.match = Slice(text, f.start, f.end)

LEMMA RunsApart ==
  ASSUME NEW C, NEW text \in Seq(C), NEW d \in Detector
  PROVE  /\ IsFiniteSet(Runs(text, d))
         /\ \A at \in Runs(text, d) : at[1] \in Nat /\ at[2] \in Nat /\ at[1] < at[2] /\ at[2] <= Len(text)
         /\ \A a, b \in Runs(text, d) : a[1] = b[1] => a = b
<1>1. PICK n \in Nat : n = Len(text)
  OBVIOUS
<1>2. d.least \in Nat /\ d.least > 0
  BY DEF Detector
<1>3. IsFiniteSet(Runs(text, d))
  <2>1. IsFiniteSet(0 .. n)
    BY <1>1, FS_Interval
  <2>2. IsFiniteSet((0 .. n) \X (0 .. n))
    BY <2>1, FS_Product
  <2>3. Runs(text, d) \subseteq (0 .. n) \X (0 .. n)
    BY <1>1 DEF Runs
  <2> QED BY <2>2, <2>3, FS_Subset
<1>4. ASSUME NEW at \in Runs(text, d) PROVE at[1] \in Nat /\ at[2] \in Nat /\ at[1] < at[2] /\ at[2] <= Len(text)
  <2>1. at[1] \in 0 .. n /\ at[2] \in 0 .. n /\ at[2] - at[1] >= d.least
    BY <1>1 DEF Runs
  <2> QED BY <1>1, <1>2, <2>1
<1>5. ASSUME NEW a \in Runs(text, d), NEW b \in Runs(text, d), a[1] = b[1], a[2] < b[2] PROVE FALSE
  <2>1. /\ a[1] \in Nat /\ a[2] \in Nat /\ b[2] \in Nat /\ a[1] < a[2] /\ b[2] <= n
    BY <1>1, <1>4, <1>5
  <2>2. a[2] < n /\ a[2] + 1 \in b[1] + 1 .. b[2]
    BY <1>1, <1>5, <2>1
  <2>3. text[a[2] + 1][1] \notin d.classes
    BY <1>1, <2>2 DEF Runs
  <2>4. text[a[2] + 1][1] \in d.classes
    BY <2>2 DEF Runs
  <2> QED BY <2>3, <2>4
<1>6. ASSUME NEW a \in Runs(text, d), NEW b \in Runs(text, d), a[1] = b[1] PROVE a = b
  <2>1. a[2] = b[2]
    BY <1>4, <1>5, <1>6
  <2>2. a \in (0 .. n) \X (0 .. n) /\ b \in (0 .. n) \X (0 .. n)
    BY <1>1 DEF Runs
  <2> QED BY <1>6, <2>1, <2>2
<1> QED BY <1>3, <1>4, <1>6

LEMMA DetectFinds ==
  ASSUME NEW C, NEW text \in Seq(C), NEW path, NEW source, NEW policy, policy.detectors \in Seq(Detector)
  PROVE  /\ Listed(Detect(text, path, source, policy))
         /\ \A e : In(e, Detect(text, path, source, policy)) => Fits(e, text, path)
<1>1. PICK n \in Nat : n = Len(policy.detectors) /\ DOMAIN policy.detectors = 1 .. n /\ \A d \in 1 .. n : policy.detectors[d] \in Detector
  OBVIOUS
<1> DEFINE Ran(d) == IF policy.detectors[d].broken THEN {} ELSE Runs(text, policy.detectors[d])
           At(d, i) == CHOOSE at \in Ran(d) : Cardinality({other \in Ran(d) : other[1] < at[1]}) = i - 1
           Made(d, at) == Finding(text, policy.detectors[d], path, source, policy, at)
           part == [d \in 1 .. n |-> [i \in 1 .. Cardinality(Ran(d)) |-> Made(d, At(d, i))]]
           T == {Made(x[1], x[2]) : x \in {y \in (1 .. n) \X UNION {Ran(d) : d \in 1 .. n} : y[2] \in Ran(y[1])}}
<1>2. Detect(text, path, source, policy) = FlattenSeq(part)
  BY <1>1 DEF Detect
<1>3. ASSUME NEW d \in 1 .. n
      PROVE  /\ IsFiniteSet(Ran(d)) /\ \A x, y \in Ran(d) : x[1] = y[1] => x = y
             /\ \A at \in Ran(d) : at[1] \in Nat /\ at[2] \in Nat /\ at[1] < at[2] /\ at[2] <= Len(text)
  BY <1>1, RunsApart, FS_EmptySet
<1>4. ASSUME NEW d \in 1 .. n, NEW i \in 1 .. Cardinality(Ran(d)) PROVE At(d, i) \in Ran(d)
  <2> HIDE DEF Ran
  <2>1. \E at \in Ran(d) : Cardinality({other \in Ran(d) : other[1] < at[1]}) = i - 1
    BY <1>3, Ranked
  <2> QED BY <2>1
<1>5. ASSUME NEW d \in 1 .. n, NEW at \in Ran(d) PROVE Made(d, at) \in T
  <2>1. PICK x : x = <<d, at>>
    OBVIOUS
  <2>2. x \in (1 .. n) \X UNION {Ran(k) : k \in 1 .. n} /\ x[1] = d /\ x[2] = at
    BY <2>1
  <2> HIDE DEF Ran, Made
  <2> QED BY <2>2
<1>6. ASSUME NEW d \in 1 .. n PROVE part[d] \in Seq(T)
  <2>1. PICK c \in Nat : c = Cardinality(Ran(d))
    BY <1>3, FS_CardinalityType
  <2>2. \A i \in 1 .. c : Made(d, At(d, i)) \in T
    <3> HIDE DEF Ran, Made, At, T
    <3> QED BY <1>4, <1>5, <2>1
  <2>3. [i \in 1 .. c |-> Made(d, At(d, i))] \in Seq(T)
    <3> HIDE DEF Made, At, T
    <3> QED BY <2>2
  <2>4. part[d] = [i \in 1 .. c |-> Made(d, At(d, i))]
    <3> HIDE DEF Ran, Made, At
    <3> QED BY <2>1
  <2> QED BY <2>3, <2>4
<1>7. part \in Seq(Seq(T))
  <2>1. DOMAIN part = 1 .. n /\ part \in [1 .. n -> Seq(T)]
    <3>1. part = [d \in 1 .. n |-> part[d]]
      OBVIOUS
    <3> HIDE DEF part, T
    <3> QED BY <1>6, <3>1
  <2> HIDE DEF part, T
  <2>2. PICK Q : Q = Seq(T)
    OBVIOUS
  <2>3. part \in [1 .. n -> Q]
    BY <2>1, <2>2
  <2>4. part \in Seq(Q)
    BY <1>1, <2>3
  <2> QED BY <2>2, <2>4
<1>8. FlattenSeq(part) \in Seq(T)
  <2> HIDE DEF part, T
  <2> QED BY <1>7, Flattened
<1>9. ASSUME NEW e \in T PROVE Fits(e, text, path)
  <2>1. PICK d \in 1 .. n : \E at \in Ran(d) : e = Made(d, at)
    <3> HIDE DEF Ran, Made
    <3> QED BY <1>9
  <2>2. PICK at \in Ran(d) : e = Made(d, at)
    BY <2>1
  <2>3. at[1] \in Nat /\ at[2] \in Nat /\ at[1] < at[2] /\ at[2] <= Len(text)
    BY <1>3
  <2> HIDE DEF Ran
  <2> QED BY <2>2, <2>3 DEF Fits, Finding
<1>10. /\ Listed(Detect(text, path, source, policy))
       /\ \A i \in DOMAIN Detect(text, path, source, policy) : Detect(text, path, source, policy)[i] \in T
  <2> HIDE DEF part, T
  <2> QED BY <1>2, <1>8, ListedIs
<1> QED BY <1>9, <1>10 DEF In

(* A finding of a document is a stretch of one of its strings. *)
OfDocument(f, doc) == \E l \in DOMAIN doc.leaves : Fits(f, doc.leaves[l].text, PathOf(doc.leaves[l].steps))

LEMMA DocumentIs ==
  ASSUME NEW C, NEW doc \in Documents(C)
  PROVE  /\ doc.json \in BOOLEAN /\ Len(doc.leaves) \in Nat /\ DOMAIN doc.leaves = 1 .. Len(doc.leaves)
         /\ doc.json \/ Len(doc.leaves) <= 1
         /\ \A l \in DOMAIN doc.leaves :
              doc.leaves[l] \in [steps : Seq(Seq(Token)), text : Seq(C)] /\ doc.leaves[l].text \in Seq(C)
<1>1. PICK L : L = [steps : Seq(Seq(Token)), text : Seq(C)]
  OBVIOUS
<1>2. doc.json \in BOOLEAN /\ doc.leaves \in Seq(L) /\ (doc.json \/ Len(doc.leaves) <= 1)
  BY <1>1 DEF Documents
<1>3. \A l \in DOMAIN doc.leaves : doc.leaves[l] \in L
  BY <1>2
<1> QED BY <1>1, <1>2, <1>3

LEMMA DocumentFinds ==
  ASSUME NEW C, NEW doc \in Documents(C), NEW source, NEW policy, policy.detectors \in Seq(Detector)
  PROVE  /\ Listed(DetectDocument(doc, source, policy))
         /\ \A e : In(e, DetectDocument(doc, source, policy)) <=>
                     \E l \in DOMAIN doc.leaves : In(e, Detect(doc.leaves[l].text, PathOf(doc.leaves[l].steps), source, policy))
         /\ \A e : \A l \in DOMAIN doc.leaves :
              In(e, Detect(doc.leaves[l].text, PathOf(doc.leaves[l].steps), source, policy))
                => Fits(e, doc.leaves[l].text, PathOf(doc.leaves[l].steps))
<1>1. PICK n \in Nat : /\ n = Len(doc.leaves) /\ DOMAIN doc.leaves = 1 .. n
                       /\ \A l \in 1 .. n : doc.leaves[l].text \in Seq(C)
  BY DocumentIs
<1> DEFINE D(l) == Detect(doc.leaves[l].text, PathOf(doc.leaves[l].steps), source, policy)
           part == [l \in 1 .. n |-> D(l)]
           T == UNION {{D(l)[i] : i \in DOMAIN D(l)} : l \in 1 .. n}
<1>2. DetectDocument(doc, source, policy) = FlattenSeq(part)
  BY <1>1 DEF DetectDocument
<1>3. ASSUME NEW l \in 1 .. n
      PROVE  Listed(D(l)) /\ \A e : In(e, D(l)) => Fits(e, doc.leaves[l].text, PathOf(doc.leaves[l].steps))
  BY <1>1, DetectFinds
<1> HIDE DEF D
<1>4. ASSUME NEW l \in 1 .. n PROVE D(l) \in Seq(T)
  <2>1. D(l) \in Seq({D(l)[i] : i \in DOMAIN D(l)}) /\ {D(l)[i] : i \in DOMAIN D(l)} \subseteq T
    BY <1>3 DEF Listed
  <2>2. PICK S : S = {D(l)[i] : i \in DOMAIN D(l)}
    OBVIOUS
  <2>3. D(l) \in Seq(S) /\ S \subseteq T
    BY <2>1, <2>2
  <2>4. PICK m \in Nat : D(l) \in [1 .. m -> S]
    BY <2>3
  <2> HIDE DEF T
  <2>5. D(l) \in [1 .. m -> T]
    BY <2>3, <2>4
  <2> QED BY <2>4, <2>5
<1>5. FlattenSeq(part) \in Seq(T) /\ \A e : In(e, FlattenSeq(part)) <=> \E l \in DOMAIN part : In(e, part[l])
  <2> HIDE DEF T
  <2>1. part \in [1 .. n -> Seq(T)]
    BY <1>4
  <2>2. part \in Seq(Seq(T))
    <3>1. PICK Q : Q = Seq(T)
      OBVIOUS
    <3> HIDE DEF part
    <3>2. part \in [1 .. n -> Q]
      BY <2>1, <3>1
    <3>3. part \in Seq(Q)
      BY ONLY <3>2, n \in Nat
    <3> QED BY <3>1, <3>3
  <2> HIDE DEF part
  <2> QED BY <2>2, Flattened
<1>6. Listed(DetectDocument(doc, source, policy))
  BY <1>2, <1>5, ListedIs
<1> QED BY <1>1, <1>2, <1>3, <1>5, <1>6 DEF D

LEMMA EvaluateFinds ==
  ASSUME NEW C, NEW doc \in Documents(C), NEW source, NEW policy, policy.detectors \in Seq(Detector)
  PROVE  /\ Listed(Evaluate(doc, source, policy))
         /\ \A e : In(e, Evaluate(doc, source, policy)) => OfDocument(e, doc)
<1>6. Listed(DetectDocument(doc, source, policy))
  BY DocumentFinds
<1>7. ASSUME NEW e, In(e, DetectDocument(doc, source, policy)) PROVE OfDocument(e, doc)
  BY <1>7, DocumentFinds DEF OfDocument
<1>8. /\ Listed(ResolveOverlaps(DetectDocument(doc, source, policy)))
      /\ \A e : In(e, ResolveOverlaps(DetectDocument(doc, source, policy))) => OfDocument(e, doc)
  BY <1>6, <1>7, Resolved
<1>9. /\ Listed(Evaluate(doc, source, policy))
      /\ \A e : In(e, Evaluate(doc, source, policy)) => In(e, ResolveOverlaps(DetectDocument(doc, source, policy)))
  BY <1>8, DropIgnoredDoes DEF Evaluate
<1> QED BY <1>8, <1>9

-----------------------------------------------------------------------------
(* Masks and replacements are made of the value's cells and of stars. *)
MadeOf(out, value) == out \in Seq({Star} \cup {value[i] : i \in DOMAIN value})

LEMMA MaskDoes == ASSUME NEW C, NEW value \in Seq(C), NEW mask PROVE MadeOf(Mask(value, mask), value)
<1>1. PICK n \in Nat : n = Len(value) /\ DOMAIN value = 1 .. n /\ value = [i \in 1 .. n |-> value[i]]
  OBVIOUS
<1>2. PICK V : V = {Star} \cup {value[i] : i \in DOMAIN value}
  OBVIOUS
<1>3. \A places : Keep(value, places) \in Seq(V)
  <2> SUFFICES ASSUME NEW places PROVE Keep(value, places) \in Seq(V)
    OBVIOUS
  <2>1. \A i \in 1 .. n : (IF i \in places THEN value[i] ELSE Star) \in V
    BY <1>1, <1>2
  <2>2. Keep(value, places) \in [1 .. n -> V]
    BY <1>1, <2>1 DEF Keep
  <2> QED BY <1>1, <2>2
<1>4. maskAll(value) \in Seq(V)
  <2>1. maskAll(value) \in [1 .. n -> V]
    BY <1>1, <1>2 DEF maskAll
  <2> QED BY <1>1, <2>1
<1>5. value \in Seq(V)
  <2>1. value \in [1 .. n -> V]
    BY <1>1, <1>2
  <2> QED BY <1>1, <2>1
<1>6. Marker \in Seq(V)
  <2>1. Star \in V
    BY <1>2
  <2> QED BY <2>1 DEF Marker
<1>7. prefixsuffixReplacer(value, mask.visible) \in Seq(V)
  BY <1>3, <1>5 DEF prefixsuffixReplacer
<1>8. PrefixBeforeAt(value, mask.visible, mask.domain) \in Seq(V)
  BY <1>3 DEF PrefixBeforeAt
<1>9. ByStrategy(value, mask) \in Seq(V)
  <2>1. CASE mask.strategy = "KEEP_PREFIX"
    BY <1>3, <2>1 DEF ByStrategy
  <2>2. CASE mask.strategy = "KEEP_SUFFIX"
    BY <1>3, <2>2 DEF ByStrategy
  <2>3. CASE mask.strategy = "KEEP_PREFIX_SUFFIX"
    BY <1>7, <2>3 DEF ByStrategy
  <2>4. CASE mask.strategy = "PRESERVE_FORMAT"
    BY <1>3, <2>4 DEF ByStrategy
  <2>5. CASE mask.strategy = "EMAIL"
    BY <1>8, <2>5 DEF ByStrategy
  <2>6. CASE mask.strategy = "FIXED"
    BY <1>6, <2>6 DEF ByStrategy
  <2>7. CASE mask.strategy \notin {"KEEP_PREFIX", "KEEP_SUFFIX", "KEEP_PREFIX_SUFFIX", "PRESERVE_FORMAT", "EMAIL", "FIXED"}
    BY <1>4, <2>7 DEF ByStrategy
  <2> QED BY <2>1, <2>2, <2>3, <2>4, <2>5, <2>6, <2>7
<1>10. Mask(value, mask) \in Seq(V)
  BY <1>4, <1>9 DEF Mask
<1> QED BY <1>2, <1>10 DEF MadeOf

LEMMA ReplacementDoes ==
  ASSUME NEW C, NEW f, f.match \in Seq(C)
  PROVE  /\ MadeOf(Replacement(f), f.match)
         /\ f.rule.action # "MASK" => Replacement(f) = Marker
<1>1. MadeOf(Marker, f.match)
  <2>1. PICK V : V = {Star} \cup {f.match[i] : i \in DOMAIN f.match}
    OBVIOUS
  <2>2. Star \in V
    BY <2>1
  <2>3. Marker \in Seq(V)
    BY <2>2 DEF Marker
  <2> QED BY <2>1, <2>3 DEF MadeOf
<1>2. MadeOf(Mask(f.match, f.rule.mask), f.match)
  BY MaskDoes
<1> QED BY <1>1, <1>2 DEF Replacement

-----------------------------------------------------------------------------
(* One splice, and the order in which the splices of a text are made. *)
Spliceable(f, C) == f.start \in Nat /\ f.end \in Nat /\ f.start <= f.end /\ f.match \in Seq(C)

LEMMA Catenated ==
  ASSUME NEW C, NEW s \in Seq(C), NEW t \in Seq(C)
  PROVE  /\ s \o t \in Seq(C) /\ Len(s \o t) = Len(s) + Len(t) /\ Len(s) \in Nat /\ Len(t) \in Nat
         /\ \A i \in 1 .. Len(s) : (s \o t)[i] = s[i]
         /\ \A i \in 1 .. Len(t) : (s \o t)[Len(s) + i] = t[i]
<1>1. s \o t \in Seq(C) /\ Len(s \o t) = Len(s) + Len(t) /\ Len(s) \in Nat /\ Len(t) \in Nat
  OBVIOUS
<1>2. \A i \in 1 .. Len(s) + Len(t) : (s \o t)[i] = IF i <= Len(s) THEN s[i] ELSE t[i - Len(s)]
  OBVIOUS
<1>3. PICK m \in Nat, n \in Nat : m = Len(s) /\ n = Len(t)
  BY <1>1
<1>4. PICK u : u = s \o t
  OBVIOUS
<1>5. \A i \in 1 .. m + n : u[i] = IF i <= m THEN s[i] ELSE t[i - m]
  BY <1>2, <1>3, <1>4
<1>6. \A i \in 1 .. m : u[i] = s[i]
  BY <1>3, <1>5
<1>7. ASSUME NEW i \in 1 .. n PROVE u[m + i] = t[i]
  <2>1. m + i \in 1 .. m + n /\ ~(m + i <= m) /\ (m + i) - m = i
    BY <1>3
  <2> QED BY ONLY <1>5, <2>1
<1> QED BY <1>1, <1>3, <1>4, <1>6, <1>7

LEMMA SpliceIs ==
  ASSUME NEW C, Star \in C, NEW text \in Seq(C), NEW f, Spliceable(f, C), f.end <= Len(text), text # Panic
  PROVE  /\ Splice(text, f) \in Seq(C) /\ f.start <= Len(Splice(text, f))
         /\ \A i \in 1 .. f.start : Splice(text, f)[i] = text[i]
         /\ \A i \in DOMAIN Splice(text, f) :
              i > f.start => \/ In(Splice(text, f)[i], Replacement(f))
                             \/ \E k \in f.end + 1 .. Len(text) : Splice(text, f)[i] = text[k]
<1>1. PICK n \in Nat : n = Len(text) /\ f.end <= n /\ f.start \in Nat /\ f.end \in Nat /\ f.start <= f.end
  BY DEF Spliceable
<1>2. PICK a, r, b : a = Slice(text, 0, f.start) /\ r = Replacement(f) /\ b = Slice(text, f.end, Len(text))
  OBVIOUS
<1>3. r \in Seq(C)
  <2>1. PICK V : V = {Star} \cup {f.match[i] : i \in DOMAIN f.match}
    OBVIOUS
  <2>2. r \in Seq(V) /\ V \subseteq C
    <3>1. f.match \in Seq(C)
      BY DEF Spliceable
    <3>2. \A i \in DOMAIN f.match : f.match[i] \in C
      BY <3>1
    <3>3. MadeOf(r, f.match)
      BY <1>2, <3>1, ReplacementDoes
    <3> QED BY <2>1, <3>2, <3>3 DEF MadeOf
  <2>3. PICK m \in Nat : r \in [1 .. m -> V]
    BY <2>2
  <2>4. r \in [1 .. m -> C]
    BY <2>2, <2>3
  <2> QED BY <2>3, <2>4
<1>4. a \in Seq(C) /\ Len(a) = f.start /\ \A i \in 1 .. f.start : a[i] = text[i]
  BY <1>1, <1>2 DEF Slice
<1>5. b \in Seq(C) /\ Len(b) = n - f.end /\ \A i \in 1 .. n - f.end : b[i] = text[f.end + i]
  BY <1>1, <1>2, SMTT(30) DEF Slice
<1>6. PICK c : c = a \o r
  OBVIOUS
<1>7. /\ c \in Seq(C) /\ Len(c) = f.start + Len(r) /\ \A i \in 1 .. f.start : c[i] = text[i]
      /\ \A i \in 1 .. Len(c) : i > f.start => In(c[i], r)
  <2>1. c \in Seq(C) /\ Len(c) = f.start + Len(r) /\ \A i \in 1 .. f.start : c[i] = text[i]
    <3>1. c \in Seq(C) /\ Len(c) = Len(a) + Len(r) /\ \A i \in 1 .. Len(a) : c[i] = a[i]
      BY ONLY <1>3, <1>4, <1>6, Catenated
    <3> QED BY <1>4, <3>1
  <2>2. ASSUME NEW i \in 1 .. Len(c), i > f.start PROVE In(c[i], r)
    <3>1. Len(r) \in Nat /\ DOMAIN r = 1 .. Len(r) /\ i - f.start \in 1 .. Len(r) /\ c[i] = r[i - f.start]
      <4>1. \A k \in 1 .. Len(r) : c[Len(a) + k] = r[k]
        BY ONLY <1>3, <1>4, <1>6, Catenated, SMTT(30)
      <4>2. Len(r) \in Nat /\ DOMAIN r = 1 .. Len(r)
        BY <1>3
      <4>3. i - f.start \in 1 .. Len(r) /\ f.start + (i - f.start) = i
        BY <1>1, <2>1, <2>2, <4>2
      <4> QED BY <1>4, <4>1, <4>2, <4>3
    <3> QED BY <3>1 DEF In
  <2> QED BY <2>1, <2>2
<1>8. PICK d : d = c \o b
  OBVIOUS
<1>9. /\ d \in Seq(C) /\ f.start <= Len(d) /\ \A i \in 1 .. f.start : d[i] = text[i]
      /\ \A i \in 1 .. Len(d) : i > f.start => In(d[i], r) \/ \E k \in f.end + 1 .. n : d[i] = text[k]
  <2>0. b \in Seq(C) /\ c \in Seq(C)
    BY <1>5, <1>7
  <2>1. /\ d \in Seq(C) /\ Len(d) = Len(c) + (n - f.end) /\ Len(c) \in Nat /\ f.start <= Len(c) /\ n - f.end \in Nat
        /\ \A i \in 1 .. Len(c) : d[i] = c[i]
    <3>1. d \in Seq(C) /\ Len(d) = Len(c) + Len(b) /\ Len(c) \in Nat /\ \A i \in 1 .. Len(c) : d[i] = c[i]
      BY ONLY <2>0, <1>8, Catenated
    <3>2. PICK p \in Nat, q \in Nat : p = Len(r) /\ q = n - f.end
      BY <1>1, <1>3
    <3>3. f.start <= Len(c)
      <4>1. Len(c) = f.start + p /\ f.start \in Nat /\ p \in Nat
        BY <1>1, <1>7, <3>2
      <4> QED BY ONLY <4>1
    <3>4. Len(b) = n - f.end
      BY <1>5
    <3> QED BY ONLY <3>1, <3>2, <3>3, <3>4
  <2>2. f.start <= Len(d) /\ \A i \in 1 .. f.start : i \in 1 .. Len(c)
    BY <1>1, <2>1
  <2>3. ASSUME NEW i \in 1 .. Len(d), i > f.start PROVE In(d[i], r) \/ \E k \in f.end + 1 .. n : d[i] = text[k]
    <3>1. CASE i <= Len(c)
      BY <1>7, <2>1, <2>3, <3>1
    <3>2. CASE ~(i <= Len(c))
      <4>1. i - Len(c) \in 1 .. n - f.end /\ Len(c) + (i - Len(c)) = i
        BY <1>1, <2>1, <2>3, <3>2
      <4>2. \A k \in 1 .. Len(b) : d[Len(c) + k] = b[k]
        BY ONLY <2>0, <1>8, Catenated
      <4>3. d[i] = text[f.end + (i - Len(c))]
        BY <1>5, <4>1, <4>2
      <4>4. f.end + (i - Len(c)) \in f.end + 1 .. n
        BY <1>1, <2>1, <4>1
      <4> QED BY <4>3, <4>4
    <3> QED BY <3>1, <3>2
  <2> QED BY <1>7, <2>1, <2>2, <2>3
<1>10. Splice(text, f) = d
  BY <1>1, <1>2, <1>6, <1>8 DEF Splice
<1>11. DOMAIN d = 1 .. Len(d)
  BY <1>9
<1> QED BY <1>1, <1>2, <1>9, <1>10, <1>11

LEMMA SpliceTyped ==
  ASSUME NEW C, Star \in C, NEW text \in Seq(C) \cup {Panic}, NEW f, Spliceable(f, C)
  PROVE  Splice(text, f) \in Seq(C) \cup {Panic}
<1>1. CASE text = Panic \/ f.end > Len(text)
  BY <1>1 DEF Splice
<1>2. CASE text # Panic /\ ~(f.end > Len(text))
  <2>1. text \in Seq(C) /\ f.end <= Len(text)
    <3>1. text \in Seq(C)
      BY <1>2
    <3>2. Len(text) \in Nat /\ f.end \in Nat
      BY <3>1 DEF Spliceable
    <3> QED BY <1>2, <3>1, <3>2
  <2> QED BY <1>2, <2>1, SpliceIs
<1> QED BY <1>1, <1>2

LEMMA ForemostIs ==
  ASSUME NEW fs, Listed(fs), NEW S, S \subseteq DOMAIN fs, S # {}, \A i \in S : fs[i].start \in Nat
  PROVE  Foremost(fs, S) \in S /\ \A j \in S : fs[Foremost(fs, S)].start <= fs[j].start
<1>1. PICK n \in Nat : DOMAIN fs = 1 .. n
  BY DEF Listed
<1>2. PICK m \in {fs[i].start : i \in S} : \A k \in {fs[i].start : i \in S} : m <= k
  <2>1. {fs[i].start : i \in S} \in SUBSET Nat /\ {fs[i].start : i \in S} # {}
    OBVIOUS
  <2>2. PICK N : N = {fs[i].start : i \in S}
    OBVIOUS
  <2> QED BY <2>1, <2>2, LeastOf
<1>3. PICK R : R = {i \in S : fs[i].start = m}
  OBVIOUS
<1>4. R # {} /\ R \in SUBSET (1 .. n)
  BY <1>1, <1>2, <1>3
<1>5. PICK x \in R : \A y \in R : y <= x
  BY <1>4, LastOf
<1>6. m \in Nat /\ \A i \in S : m <= fs[i].start /\ fs[i].start \in Nat /\ i \in Nat
  BY <1>1, <1>2
<1>7. x \in S /\ fs[x].start = m /\ \A j \in S : fs[j].start = m => x >= j
  BY <1>3, <1>4, <1>5, <1>6
<1>8. \A j \in S : fs[x].start < fs[j].start \/ (fs[x].start = fs[j].start /\ x >= j)
  BY <1>6, <1>7
<1>9. Foremost(fs, S) \in S /\ \A j \in S : \/ fs[Foremost(fs, S)].start < fs[j].start
                                            \/ fs[Foremost(fs, S)].start = fs[j].start /\ Foremost(fs, S) >= j
  BY <1>7, <1>8 DEF Foremost
<1> QED BY <1>6, <1>9

-----------------------------------------------------------------------------
(* ApplyTransformations makes one splice after another, the foremost last. *)
Rewritten(fs) == {i \in DOMAIN fs : Transforms(fs[i])}
SplicedTo(h, text, fs, I) ==
    /\ h[{}] = text
    /\ \A S \in SUBSET I : S # {} => h[S] = Splice(h[S \ {Foremost(fs, S)}], fs[Foremost(fs, S)])

LEMMA SpliceLoop ==
  ASSUME NEW C, Star \in C, NEW text \in Seq(C), NEW fs, Listed(fs), \A i \in DOMAIN fs : Spliceable(fs[i], C)
  PROVE  \E h \in [SUBSET Rewritten(fs) -> Seq(C) \cup {Panic}] :
            SplicedTo(h, text, fs, Rewritten(fs)) /\ ApplyTransformations(text, fs) = h[Rewritten(fs)]
<1>1. PICK n \in Nat : DOMAIN fs = 1 .. n
  BY DEF Listed
<1> DEFINE I == Rewritten(fs)
           T == Seq(C) \cup {Panic}
           p == [S \in SUBSET I |-> Foremost(fs, S)]
           g == [x \in I \X T |-> Splice(x[2], fs[x[1]])]
           Is(f) == f = [S \in SUBSET I |-> IF S = {} THEN text ELSE LET x == Foremost(fs, S) IN Splice(f[S \ {x}], fs[x])]
<1>2. I \subseteq 1 .. n /\ I \subseteq DOMAIN fs
  BY <1>1 DEF Rewritten
<1>3. IsFiniteSet(I)
  <2>1. IsFiniteSet(1 .. n)
    BY FS_Interval
  <2> HIDE DEF I
  <2> QED BY <1>2, <2>1, FS_Subset
<1>4. ASSUME NEW S \in SUBSET I, S # {} PROVE Foremost(fs, S) \in S
  <2>1. \A i \in DOMAIN fs : fs[i].start \in Nat
    BY DEF Spliceable
  <2>2. S \subseteq DOMAIN fs /\ \A i \in S : fs[i].start \in Nat
    BY <1>2, <2>1
  <2> HIDE DEF I
  <2> QED BY <1>4, <2>2, ForemostIs
<1>5. Picks(p, I)
  BY <1>4 DEF Picks
<1>6. g \in [I \X T -> T]
  <2>1. ASSUME NEW x \in I \X T PROVE Splice(x[2], fs[x[1]]) \in T
    <3>1. x[2] \in T /\ x[1] \in DOMAIN fs
      BY <1>2
    <3>2. Spliceable(fs[x[1]], C)
      BY <3>1
    <3> QED BY <3>1, <3>2, SpliceTyped
  <2> HIDE DEF T, I
  <2> QED BY <2>1
<1>7. text \in T
  OBVIOUS
<1>8. PICK h \in [SUBSET I -> T] : Folds(h, I, p, text, g)
  <2> HIDE DEF I, p, g, T
  <2> QED BY ONLY <1>3, <1>5, <1>6, <1>7, FoldThere
<1>9. Is(h)
  <2>1. ASSUME NEW S \in SUBSET I, S # {}
        PROVE  h[S] = Splice(h[S \ {Foremost(fs, S)}], fs[Foremost(fs, S)])
    <3>1. p[S] = Foremost(fs, S) /\ Foremost(fs, S) \in I /\ S \ {Foremost(fs, S)} \in SUBSET I
      BY <1>4, <2>1
    <3>2. h[S \ {Foremost(fs, S)}] \in T
      BY <1>8, <3>1
    <3>3. h[S] = g[<<p[S], h[S \ {p[S]}]>>]
      BY <1>8, <2>1 DEF Folds
    <3> HIDE DEF I, T, p
    <3> QED BY <3>1, <3>2, <3>3
  <2>2. h = [S \in SUBSET I |-> h[S]]
    BY <1>8
  <2>3. h[{}] = text
    BY <1>8 DEF Folds
  <2> HIDE DEF I, T, p, g
  <2> QED BY <2>1, <2>2, <2>3
<1>10. PICK f : f = CHOOSE h2 : Is(h2)
  OBVIOUS
<1>11. Is(f)
  <2> HIDE DEF Is
  <2> QED BY <1>9, <1>10
<1>12. ApplyTransformations(text, fs) = f[I]
  BY <1>10 DEF ApplyTransformations, MapThenFoldSet, Rewritten
<1>13. SplicedTo(f, text, fs, I)
  <2>1. {} \in SUBSET I
    OBVIOUS
  <2> HIDE DEF I
  <2>2. f[{}] = text
    BY <1>11, <2>1
  <2>3. \A S \in SUBSET I : S # {} => f[S] = Splice(f[S \ {Foremost(fs, S)}], fs[Foremost(fs, S)])
    BY <1>11
  <2> QED BY <2>2, <2>3 DEF SplicedTo
<1> DEFINE G == {S \in SUBSET I : f[S] \in T}
<1>14. \A S \in SUBSET I : S \in G
  <2>1. {} \in G
    BY <1>7, <1>13 DEF SplicedTo
  <2>2. ASSUME NEW S \in SUBSET I, S # {}, S \ {p[S]} \in G PROVE S \in G
    <3>1. PICK x : x = Foremost(fs, S)
      OBVIOUS
    <3>2. p[S] = x /\ x \in I /\ x \in DOMAIN fs
      BY <1>2, <1>4, <2>2, <3>1
    <3>3. f[S \ {x}] \in T
      BY <2>2, <3>2
    <3>4. Spliceable(fs[x], C)
      BY <3>2
    <3>5. f[S] = Splice(f[S \ {x}], fs[x])
      BY <1>13, <2>2, <3>1 DEF SplicedTo
    <3>6. f[S] \in T
      BY <3>3, <3>4, <3>5, SpliceTyped
    <3> QED BY <3>6
  <2> HIDE DEF I, G, p
  <2>3. \A S \in SUBSET I : S # {} /\ S \ {p[S]} \in G => S \in G
    BY <2>2
  <2> QED BY ONLY <1>3, <1>5, <2>1, <2>3, Peeled
<1>15. f \in [SUBSET I -> T]
  <2>1. f = [S \in SUBSET I |-> f[S]]
    BY <1>11
  <2>2. \A S \in SUBSET I : f[S] \in T
    BY <1>14
  <2> HIDE DEF I, T
  <2> QED BY <2>1, <2>2
<1> QED BY <1>12, <1>13, <1>15

LEMMA ApplyTyped ==
  ASSUME NEW C, Star \in C, NEW text \in Seq(C), NEW fs, Listed(fs), \A i \in DOMAIN fs : Spliceable(fs[i], C)
  PROVE  ApplyTransformations(text, fs) \in Seq(C) \cup {Panic}
<1>1. Rewritten(fs) \in SUBSET Rewritten(fs)
  OBVIOUS
<1>2. PICK h \in [SUBSET Rewritten(fs) -> Seq(C) \cup {Panic}] :
         SplicedTo(h, text, fs, Rewritten(fs)) /\ ApplyTransformations(text, fs) = h[Rewritten(fs)]
  BY SpliceLoop, ZenonT(60)
<1>3. h[Rewritten(fs)] \in Seq(C) \cup {Panic}
  BY <1>1, <1>2
<1> QED BY <1>2, <1>3

(* A document that a rewriting leaves whole is a document. *)
LEMMA RewriteTyped ==
  ASSUME NEW C, Star \in C, NEW doc \in Documents(C), NEW fs, Listed(fs), \A i \in DOMAIN fs : Spliceable(fs[i], C),
         ~Panicked(RewriteDocument(doc, fs))
  PROVE  RewriteDocument(doc, fs) \in Documents(C)
<1>1. PICK n \in Nat :
        /\ n = Len(doc.leaves) /\ DOMAIN doc.leaves = 1 .. n
        /\ doc.json \in BOOLEAN /\ (doc.json \/ n <= 1)
        /\ \A l \in 1 .. n : doc.leaves[l] \in [steps : Seq(Seq(Token)), text : Seq(C)] /\ doc.leaves[l].text \in Seq(C)
  BY DocumentIs
<1>2. PICK R : R = [steps : Seq(Seq(Token)), text : Seq(C)]
  OBVIOUS
<1>3. PICK to : to = [l \in 1 .. n |->
            IF doc.json THEN RewriteLeaf(doc.leaves[l], fs)
            ELSE [doc.leaves[l] EXCEPT !.text = ApplyTransformations(@, fs)]]
  OBVIOUS
<1>4. doc \in [json : BOOLEAN, leaves : Seq(R)]
  BY <1>2 DEF Documents
<1>5. RewriteDocument(doc, fs) = [doc EXCEPT !.leaves = to]
  BY <1>1, <1>3 DEF RewriteDocument
<1>6. RewriteDocument(doc, fs).leaves = to /\ RewriteDocument(doc, fs).json = doc.json
  BY <1>4, <1>5
<1>7. ASSUME NEW l \in 1 .. n PROVE to[l] \in R
  <2>1. to[l].text # Panic
    BY <1>3, <1>6, <1>7 DEF Panicked
  <2>2. doc.leaves[l] \in [steps : Seq(Seq(Token)), text : Seq(C)] /\ doc.leaves[l].text \in Seq(C)
    BY <1>1
  <2>3. CASE doc.json
    <3>1. PICK mine : mine = ResolveOverlaps(Mine(doc.leaves[l], fs))
      OBVIOUS
    <3>2. Listed(mine) /\ \A e : In(e, mine) => In(e, fs)
      BY <3>1, MineDoes, Resolved
    <3>3. \A i \in DOMAIN mine : Spliceable(mine[i], C)
      BY <3>2 DEF In
    <3>4. to[l] = [doc.leaves[l] EXCEPT !.text = ApplyTransformations(doc.leaves[l].text, mine)]
      BY <1>3, <2>3, <3>1 DEF RewriteLeaf
    <3>5. ApplyTransformations(doc.leaves[l].text, mine) \in Seq(C) \cup {Panic}
      BY <2>2, <3>2, <3>3, ApplyTyped
    <3> QED BY <1>2, <2>1, <2>2, <3>4, <3>5
  <2>4. CASE ~doc.json
    <3>4. to[l] = [doc.leaves[l] EXCEPT !.text = ApplyTransformations(doc.leaves[l].text, fs)]
      BY <1>3, <2>4
    <3>5. ApplyTransformations(doc.leaves[l].text, fs) \in Seq(C) \cup {Panic}
      BY <2>2, ApplyTyped
    <3> QED BY <1>2, <2>1, <2>2, <3>4, <3>5
  <2> QED BY <2>3, <2>4
<1>8. to \in Seq(R) /\ Len(to) = n
  <2>1. to \in [1 .. n -> R]
    <3>1. to = [l \in 1 .. n |-> to[l]]
      BY <1>3
    <3> QED BY <1>7, <3>1
  <2> QED BY <2>1
<1> QED BY <1>1, <1>2, <1>4, <1>5, <1>8 DEF Documents

-----------------------------------------------------------------------------
(* What the splices hide.  The findings of a text, none of which overlaps      *)
(* another, are spliced from the back: those still to come lie before those    *)
(* already made, at places the text still holds as it was.                    *)
Placed(fs, text) ==
    /\ Listed(fs)
    /\ \A i \in DOMAIN fs :
         /\ fs[i].start \in Nat /\ fs[i].end \in Nat /\ fs[i].start < fs[i].end /\ fs[i].end <= Len(text)
         /\ fs[i].match = Slice(text, fs[i].start, fs[i].end)
    /\ \A i, j \in DOMAIN fs : i # j => ~overlaps(fs[i], fs[j])
Covers(f, k) == f.rule.action \in {"REDACT", "BLOCK"} /\ f.start < k /\ k <= f.end
Bare(k, fs, S) == \A x \in S : ~Covers(fs[x], k)
Left(e, text, m, fs, S) == e = Star \/ \E k \in m + 1 .. Len(text) : e = text[k] /\ Bare(k, fs, S)
BackTo(out, text, m, fs, S) ==
    /\ m <= Len(out) /\ \A i \in 1 .. m : out[i] = text[i]
    /\ \A i \in DOMAIN out : i > m => Left(out[i], text, m, fs, S)
Hides(out, text, fs, S) ==
    \A m \in 0 .. Len(text) : (\A x \in S : m <= fs[x].start) => BackTo(out, text, m, fs, S)

LEMMA SliceIs ==
  ASSUME NEW C, NEW text \in Seq(C), NEW a \in Nat, NEW b \in Nat, a <= b, b <= Len(text)
  PROVE  /\ Slice(text, a, b) \in Seq(C) /\ Len(Slice(text, a, b)) = b - a
         /\ \A i \in 1 .. b - a : Slice(text, a, b)[i] = text[a + i]
BY DEF Slice

(* What a replacement shows. *)
LEMMA ReplacementShows ==
  ASSUME NEW C, NEW text \in Seq(C), NEW f, f.start \in Nat, f.end \in Nat, f.start < f.end, f.end <= Len(text),
         f.match = Slice(text, f.start, f.end), NEW e, In(e, Replacement(f))
  PROVE  e = Star \/ (f.rule.action = "MASK" /\ \E k \in f.start + 1 .. f.end : e = text[k])
<1>1. /\ f.match \in Seq(C) /\ Len(f.match) = f.end - f.start
      /\ \A i \in 1 .. f.end - f.start : f.match[i] = text[f.start + i]
  <2>1. PICK a \in Nat, b \in Nat : a = f.start /\ b = f.end /\ a <= b /\ b <= Len(text) /\ f.match = Slice(text, a, b)
    OBVIOUS
  <2>2. /\ Slice(text, a, b) \in Seq(C) /\ Len(Slice(text, a, b)) = b - a
        /\ \A i \in 1 .. b - a : Slice(text, a, b)[i] = text[a + i]
    <3>1. a \in Nat /\ b \in Nat /\ a <= b /\ b <= Len(text) /\ text \in Seq(C)
      BY <2>1
    <3> QED BY ONLY <3>1 DEF Slice
  <2> QED BY <2>1, <2>2
<1>2. DOMAIN f.match = 1 .. f.end - f.start
  BY <1>1
<1>3. CASE f.rule.action # "MASK"
  <2>1. Replacement(f) = Marker
    BY <1>1, <1>3, ReplacementDoes
  <2> QED BY <2>1 DEF Marker, In
<1>4. CASE f.rule.action = "MASK"
  <2>1. PICK V : V = {Star} \cup {f.match[i] : i \in DOMAIN f.match}
    OBVIOUS
  <2>2. Replacement(f) \in Seq(V)
    <3>1. f.match \in Seq(C)
      BY <1>1
    <3>2. MadeOf(Replacement(f), f.match)
      BY ONLY <3>1, ReplacementDoes
    <3> QED BY <2>1, <3>2 DEF MadeOf
  <2>3. e \in V
    BY <2>2 DEF In
  <2>4. ASSUME NEW i \in 1 .. f.end - f.start, e = f.match[i] PROVE \E k \in f.start + 1 .. f.end : e = text[k]
    <3>1. f.start + i \in f.start + 1 .. f.end /\ e = text[f.start + i]
      BY <1>1, <2>4
    <3> QED BY <3>1
  <2> QED BY <1>2, <1>4, <2>1, <2>3, <2>4
<1> QED BY <1>3, <1>4

(* One splice more, of the foremost finding of S. *)
LEMMA HidesMore ==
  ASSUME NEW C, Star \in C, NEW text \in Seq(C), NEW fs, Placed(fs, text), NEW S, S \subseteq DOMAIN fs,
         NEW x \in S, \A y \in S : fs[x].start <= fs[y].start,
         NEW out \in Seq(C), out # Panic, Hides(out, text, fs, S \ {x})
  PROVE  Splice(out, fs[x]) \in Seq(C) /\ Hides(Splice(out, fs[x]), text, fs, S)
<1>1. PICK f : f = fs[x]
  OBVIOUS
<1>2. /\ f.start \in Nat /\ f.end \in Nat /\ f.start < f.end /\ f.end <= Len(text)
      /\ f.match = Slice(text, f.start, f.end)
  BY <1>1 DEF Placed
<1>3. PICK n \in Nat : n = Len(text)
  OBVIOUS
<1>4. ASSUME NEW y \in S \ {x} PROVE f.end <= fs[y].start /\ fs[y].start \in Nat
  <2>1. ~overlaps(fs[x], fs[y]) /\ fs[y].start \in Nat /\ fs[y].end \in Nat /\ fs[y].start < fs[y].end
    BY DEF Placed
  <2>2. f.start <= fs[y].start
    BY <1>1
  <2> QED BY <1>1, <1>2, <2>1, <2>2 DEF overlaps
<1>5. f.end \in 0 .. n /\ f.end <= Len(out) /\ (\A i \in 1 .. f.end : out[i] = text[i])
      /\ \A i \in DOMAIN out : i > f.end => Left(out[i], text, f.end, fs, S \ {x})
  <2>1. f.end \in 0 .. n
    BY <1>2, <1>3
  <2> QED BY <1>3, <1>4, <2>1 DEF Hides, BackTo
<1>6. Spliceable(f, C)
  <2>1. PICK a \in Nat, b \in Nat : a = f.start /\ b = f.end /\ a <= b /\ b <= Len(text) /\ f.match = Slice(text, a, b)
    BY <1>2
  <2>2. Slice(text, a, b) \in Seq(C)
    BY <2>1, SliceIs
  <2> QED BY <2>1, <2>2 DEF Spliceable
<1>7. PICK to : to = Splice(out, f)
  OBVIOUS
<1>8. /\ to \in Seq(C) /\ f.start <= Len(to)
      /\ \A i \in 1 .. f.start : to[i] = out[i]
      /\ \A i \in DOMAIN to : i > f.start => In(to[i], Replacement(f)) \/ \E k \in f.end + 1 .. Len(out) : to[i] = out[k]
  BY <1>5, <1>6, <1>7, SpliceIs, SMTT(30)
<1>9. \A i \in 1 .. f.start : to[i] = text[i]
  BY <1>2, <1>5, <1>8
<1>10. ASSUME NEW k \in 1 .. n, k > f.end, Bare(k, fs, S \ {x}) PROVE Bare(k, fs, S)
  <2>1. ~Covers(fs[x], k)
    BY <1>1, <1>2, <1>10 DEF Covers
  <2> QED BY <1>10, <2>1 DEF Bare
<1>11. ASSUME NEW k \in 1 .. n, k <= f.end, ~Covers(f, k) PROVE Bare(k, fs, S)
  <2>1. ASSUME NEW y \in S \ {x} PROVE ~Covers(fs[y], k)
    BY <1>2, <1>4, <1>11 DEF Covers
  <2> QED BY <1>1, <1>11, <2>1 DEF Bare
<1>12. ASSUME NEW i \in DOMAIN to, i > f.start PROVE Left(to[i], text, f.start, fs, S)
  <2>1. CASE In(to[i], Replacement(f))
    <3>1. to[i] = Star \/ (f.rule.action = "MASK" /\ \E k \in f.start + 1 .. f.end : to[i] = text[k])
      BY <1>2, <2>1, ReplacementShows
    <3>2. ASSUME NEW k \in f.start + 1 .. f.end, to[i] = text[k], f.rule.action = "MASK" PROVE Left(to[i], text, f.start, fs, S)
      <4>1. k \in 1 .. n /\ k <= f.end /\ ~Covers(f, k) /\ k \in f.start + 1 .. n
        BY <1>2, <1>3, <3>2 DEF Covers
      <4>2. Bare(k, fs, S)
        BY <1>11, <4>1
      <4> QED BY <1>3, <3>2, <4>1, <4>2 DEF Left
    <3> QED BY <3>1, <3>2 DEF Left
  <2>2. ASSUME NEW k \in f.end + 1 .. Len(out), to[i] = out[k] PROVE Left(to[i], text, f.start, fs, S)
    <3>1. k \in DOMAIN out /\ k > f.end
      BY <1>2
    <3>2. Left(to[i], text, f.end, fs, S \ {x})
      BY <1>5, <2>2, <3>1
    <3>3. ASSUME NEW l \in f.end + 1 .. n, to[i] = text[l], Bare(l, fs, S \ {x}) PROVE Left(to[i], text, f.start, fs, S)
      <4>1. l \in 1 .. n /\ l > f.end /\ l \in f.start + 1 .. n
        BY <1>2, <1>3
      <4>2. Bare(l, fs, S)
        BY <1>10, <3>3, <4>1
      <4> QED BY <1>3, <3>3, <4>1, <4>2 DEF Left
    <3> QED BY <1>3, <3>2, <3>3 DEF Left
  <2> QED BY <1>8, <1>12, <2>1, <2>2
<1>13. ASSUME NEW m \in 0 .. n, \A y \in S : m <= fs[y].start PROVE BackTo(to, text, m, fs, S)
  <2>1. m <= f.start /\ m \in Nat
    BY <1>1, <1>13
  <2>2. DOMAIN to = 1 .. Len(to) /\ Len(to) \in Nat
    BY <1>8
  <2>3. m <= Len(to) /\ \A i \in 1 .. m : to[i] = text[i]
    BY <1>2, <1>8, <1>9, <2>1, <2>2
  <2>4. ASSUME NEW i \in DOMAIN to, i > m PROVE Left(to[i], text, m, fs, S)
    <3>1. CASE i <= f.start
      <4>1. i \in 1 .. f.start /\ i \in 1 .. n /\ i <= f.end /\ ~Covers(f, i) /\ i \in m + 1 .. n
        BY <1>2, <1>3, <2>1, <2>2, <2>4, <3>1 DEF Covers
      <4>2. Bare(i, fs, S) /\ to[i] = text[i]
        BY <1>9, <1>11, <4>1
      <4> QED BY <1>3, <4>1, <4>2 DEF Left
    <3>2. CASE ~(i <= f.start)
      <4>1. i > f.start
        BY <1>2, <2>2, <3>2
      <4>2. Left(to[i], text, f.start, fs, S)
        BY <1>12, <4>1
      <4>3. \A k \in f.start + 1 .. n : k \in m + 1 .. n
        BY <1>2, <2>1
      <4> QED BY <1>3, <4>2, <4>3 DEF Left
    <3> QED BY <3>1, <3>2
  <2> QED BY <2>3, <2>4 DEF BackTo
<1> QED BY <1>1, <1>3, <1>7, <1>8, <1>13 DEF Hides

LEMMA ApplyHides ==
  ASSUME NEW C, Star \in C, Panic \notin Seq(C), NEW text \in Seq(C), NEW fs, Placed(fs, text)
  PROVE  /\ ApplyTransformations(text, fs) \in Seq(C)
         /\ \A i \in DOMAIN ApplyTransformations(text, fs) :
              Left(ApplyTransformations(text, fs)[i], text, 0, fs, Rewritten(fs))
<1>1. PICK I : I = Rewritten(fs)
  OBVIOUS
<1>2. PICK n \in Nat : DOMAIN fs = 1 .. n
  BY DEF Placed, Listed
<1>3. I \subseteq DOMAIN fs /\ IsFiniteSet(I)
  <2>1. IsFiniteSet(1 .. n)
    BY FS_Interval
  <2>2. I \subseteq 1 .. n
    BY <1>1, <1>2 DEF Rewritten
  <2> QED BY <1>2, <2>1, <2>2, FS_Subset
<1>4. Listed(fs) /\ \A i \in DOMAIN fs : Spliceable(fs[i], C) /\ fs[i].start \in Nat
  <2>1. ASSUME NEW i \in DOMAIN fs PROVE Spliceable(fs[i], C) /\ fs[i].start \in Nat
    <3>1. /\ fs[i].start \in Nat /\ fs[i].end \in Nat /\ fs[i].start < fs[i].end /\ fs[i].end <= Len(text)
          /\ fs[i].match = Slice(text, fs[i].start, fs[i].end)
      BY DEF Placed
    <3>2. fs[i].start <= fs[i].end
      BY <3>1
    <3>3. Slice(text, fs[i].start, fs[i].end) \in Seq(C)
      <4>1. PICK a \in Nat, b \in Nat : a = fs[i].start /\ b = fs[i].end /\ a <= b /\ b <= Len(text)
        BY <3>1, <3>2
      <4>2. Slice(text, a, b) \in Seq(C)
        BY ONLY <4>1, text \in Seq(C) DEF Slice
      <4> QED BY <4>1, <4>2
    <3> QED BY <3>1, <3>2, <3>3 DEF Spliceable
  <2> QED BY <2>1 DEF Placed
<1>5. PICK h : SplicedTo(h, text, fs, I) /\ ApplyTransformations(text, fs) = h[I]
  <2>1. Listed(fs) /\ \A i \in DOMAIN fs : Spliceable(fs[i], C)
    BY <1>4
  <2>2. \E h \in [SUBSET Rewritten(fs) -> Seq(C) \cup {Panic}] :
           SplicedTo(h, text, fs, Rewritten(fs)) /\ ApplyTransformations(text, fs) = h[Rewritten(fs)]
    BY ONLY <2>1, Star \in C, text \in Seq(C), SpliceLoop, ZenonT(60)
  <2> QED BY <1>1, <2>2
<1> DEFINE p == [S \in SUBSET I |-> Foremost(fs, S)]
           G == {S \in SUBSET I : h[S] \in Seq(C) /\ Hides(h[S], text, fs, S)}
<1>6. ASSUME NEW S \in SUBSET I, S # {}
      PROVE  p[S] = Foremost(fs, S) /\ Foremost(fs, S) \in S /\ \A j \in S : fs[Foremost(fs, S)].start <= fs[j].start
  <2>1. S \subseteq DOMAIN fs /\ \A i \in S : fs[i].start \in Nat
    BY <1>3, <1>4
  <2> QED BY <1>4, <1>6, <2>1, ForemostIs
<1>7. Picks(p, I)
  BY <1>6 DEF Picks
<1>8. {} \in G
  <2>1. h[{}] = text
    BY <1>5 DEF SplicedTo
  <2>2. Hides(text, text, fs, {})
    <3>1. PICK k \in Nat : k = Len(text) /\ DOMAIN text = 1 .. k
      OBVIOUS
    <3>2. ASSUME NEW m \in 0 .. k PROVE BackTo(text, text, m, fs, {})
      <4>1. m <= k
        BY <3>1
      <4>2. ASSUME NEW i \in 1 .. k, i > m PROVE Left(text[i], text, m, fs, {})
        <5>1. i \in m + 1 .. k /\ Bare(i, fs, {})
          BY <3>1, <4>2 DEF Bare
        <5> QED BY <3>1, <5>1 DEF Left
      <4> QED BY <3>1, <4>1, <4>2 DEF BackTo
    <3> QED BY <3>1, <3>2 DEF Hides
  <2> QED BY <2>1, <2>2
<1>9. ASSUME NEW S \in SUBSET I, S # {} /\ S \ {p[S]} \in G PROVE S \in G
  <2>1. PICK x : x = Foremost(fs, S)
    OBVIOUS
  <2>2. p[S] = x /\ x \in S /\ \A j \in S : fs[x].start <= fs[j].start
    BY <1>6, <1>9, <2>1
  <2>3. PICK out : out = h[S \ {x}]
    OBVIOUS
  <2>4. out \in Seq(C) /\ out # Panic /\ Hides(out, text, fs, S \ {x})
    BY <1>9, <2>2, <2>3
  <2>5. h[S] = Splice(out, fs[x])
    BY <1>5, <1>9, <2>1, <2>3 DEF SplicedTo
  <2>6. S \subseteq DOMAIN fs
    BY <1>3
  <2>7. Splice(out, fs[x]) \in Seq(C) /\ Hides(Splice(out, fs[x]), text, fs, S)
    <3> HIDE DEF p, G
    <3> QED BY <2>2, <2>4, <2>6, HidesMore
  <2> QED BY <2>5, <2>7
<1>10. \A S \in SUBSET I : S \in G
  <2> HIDE DEF p, G
  <2>1. \A S \in SUBSET I : S # {} /\ S \ {p[S]} \in G => S \in G
    BY <1>9
  <2>2. IsFiniteSet(I)
    BY <1>3
  <2> QED BY ONLY <2>2, <1>7, <1>8, <2>1, Peeled
<1>11. h[I] \in Seq(C) /\ Hides(h[I], text, fs, I)
  BY <1>10
<1>12. ASSUME NEW i \in DOMAIN h[I] PROVE Left(h[I][i], text, 0, fs, I)
  <2>1. Len(text) \in Nat /\ 0 \in 0 .. Len(text) /\ \A x \in I : 0 <= fs[x].start
    BY <1>3, <1>4
  <2>2. i > 0
    BY <1>11
  <2> QED BY <1>11, <2>1, <2>2 DEF Hides, BackTo
<1> QED BY <1>1, <1>5, <1>11, <1>12

-----------------------------------------------------------------------------
(* What a document that is rewritten shows of a value that was to be hidden. *)
Stretch(f) == f.start \in Nat /\ f.end \in Nat /\ f.start < f.end

LEMMA MinePlaced ==
  ASSUME NEW leaf, NEW found, Listed(found), Disjoint(found), \A e : In(e, found) => Stretch(e)
  PROVE  /\ Placed(ResolveOverlaps(Mine(leaf, found)), leaf.text)
         /\ \A e : (In(e, found) /\ IsMine(e, leaf)) <=> In(e, ResolveOverlaps(Mine(leaf, found)))
<1>1. PICK mine : mine = Mine(leaf, found)
  OBVIOUS
<1>2. Listed(mine) /\ \A e : In(e, mine) <=> In(e, found) /\ IsMine(e, leaf)
  BY <1>1, MineDoes
<1>3. ASSUME NEW e, NEW g, In(e, found), In(g, found), e # g PROVE ~SamePlace(e, g)
  <2>1. PICK i \in DOMAIN found : found[i] = e
    BY <1>3 DEF In
  <2>2. PICK j \in DOMAIN found : found[j] = g
    BY <1>3 DEF In
  <2> QED BY <1>3, <2>1, <2>2 DEF Disjoint
<1>4. Apart(mine)
  <2> SUFFICES ASSUME NEW i \in DOMAIN mine, NEW j \in DOMAIN mine
               PROVE  SamePlace(mine[i], mine[j]) <=> mine[i] = mine[j]
    BY DEF Apart
  <2>1. In(mine[i], mine) /\ In(mine[j], mine)
    BY DEF In
  <2>2. In(mine[i], found) /\ In(mine[j], found)
    BY <1>2, <2>1
  <2>3. Stretch(mine[i])
    BY <2>2
  <2>4. mine[i] = mine[j] => SamePlace(mine[i], mine[j])
    BY <2>3 DEF SamePlace, overlaps, Stretch
  <2> QED BY <1>3, <2>2, <2>4
<1>5. PICK fs : fs = ResolveOverlaps(mine)
  OBVIOUS
<1>6. Listed(fs) /\ Disjoint(fs) /\ \A e : In(e, fs) <=> In(e, mine)
  BY <1>2, <1>4, <1>5, Resolved, ResolvedApart
<1>7. ASSUME NEW i \in DOMAIN fs PROVE Stretch(fs[i]) /\ IsMine(fs[i], leaf)
  <2>1. In(fs[i], fs)
    BY DEF In
  <2> QED BY <1>2, <1>6, <2>1
<1>8. \A i, j \in DOMAIN fs : i # j => ~overlaps(fs[i], fs[j])
  BY <1>6, <1>7 DEF Disjoint, SamePlace, IsMine
<1>9. Placed(fs, leaf.text)
  BY <1>6, <1>7, <1>8 DEF Placed, Stretch, IsMine
<1> QED BY <1>1, <1>2, <1>5, <1>6, <1>9

LEMMA PanicIsNoText == Panic \notin Seq(Cell \cup {Star})
<1>1. <<"panic", 0>> # Star
  BY DEF Star
<1>2. <<"panic", 0>> \notin Cell
  BY DEF Cell
<1>3. PICK D : D = Cell \cup {Star}
  OBVIOUS
<1>4. PICK p : p = <<"panic", 0>>
  OBVIOUS
<1>5. p \notin D /\ Panic = <<p>>
  BY <1>1, <1>2, <1>3, <1>4 DEF Panic
<1>6. <<p>> \notin Seq(D)
  <2> SUFFICES ASSUME <<p>> \in Seq(D) PROVE FALSE
    OBVIOUS
  <2>1. <<p>>[1] \in D
    OBVIOUS
  <2> QED BY <1>5, <2>1
<1> QED BY <1>3, <1>5, <1>6

(* The splices a string of a document goes through. *)
LEMMA LeafRewritten ==
  ASSUME NEW C, NEW doc \in Documents(C), NEW found, Listed(found), Disjoint(found),
         \A e : In(e, found) => OfDocument(e, doc), NEW m \in DOMAIN doc.leaves
  PROVE  \E fs : /\ RewriteDocument(doc, found).leaves[m].text = ApplyTransformations(doc.leaves[m].text, fs)
                 /\ Placed(fs, doc.leaves[m].text)
                 /\ \A e : (In(e, found) /\ Fits(e, doc.leaves[m].text, PathOf(doc.leaves[m].steps))) => In(e, fs)
                 /\ \A e : In(e, fs) => In(e, found) /\ e.path = PathOf(doc.leaves[m].steps)
<1>1. PICK n \in Nat :
        /\ n = Len(doc.leaves) /\ DOMAIN doc.leaves = 1 .. n
        /\ doc.json \in BOOLEAN /\ (doc.json \/ n <= 1)
        /\ \A l \in 1 .. n : doc.leaves[l] \in [steps : Seq(Seq(Token)), text : Seq(C)] /\ doc.leaves[l].text \in Seq(C)
  BY DocumentIs
<1>2. PICK leaf : leaf = doc.leaves[m] /\ leaf \in [steps : Seq(Seq(Token)), text : Seq(C)]
  BY <1>1
<1>3. PICK to : to = [l \in 1 .. n |->
            IF doc.json THEN RewriteLeaf(doc.leaves[l], found)
            ELSE [doc.leaves[l] EXCEPT !.text = ApplyTransformations(@, found)]]
  OBVIOUS
<1>4. RewriteDocument(doc, found).leaves = to
  <2>1. PICK L : L = Seq([steps : Seq(Seq(Token)), text : Seq(C)])
    OBVIOUS
  <2>2. doc \in [json : BOOLEAN, leaves : L]
    BY <2>1 DEF Documents
  <2>3. RewriteDocument(doc, found) = [doc EXCEPT !.leaves = to]
    BY <1>1, <1>3 DEF RewriteDocument
  <2> QED BY <2>2, <2>3
<1>5. ASSUME NEW e, In(e, found) PROVE Stretch(e)
  BY <1>5 DEF OfDocument, Fits, Stretch
<1>6. CASE doc.json
  <2>1. to[m] = [leaf EXCEPT !.text = ApplyTransformations(leaf.text, ResolveOverlaps(Mine(leaf, found)))]
    BY <1>1, <1>2, <1>3, <1>6 DEF RewriteLeaf
  <2>2. to[m].text = ApplyTransformations(leaf.text, ResolveOverlaps(Mine(leaf, found)))
    BY <1>2, <2>1
  <2>3. PICK fs : fs = ResolveOverlaps(Mine(leaf, found))
    OBVIOUS
  <2>4. Placed(fs, leaf.text) /\ \A e : (In(e, found) /\ IsMine(e, leaf)) <=> In(e, fs)
    BY <1>5, <2>3, MinePlaced
  <2>5. ASSUME NEW e, Fits(e, leaf.text, PathOf(leaf.steps)) PROVE IsMine(e, leaf)
    BY <2>5 DEF Fits, IsMine
  <2>6. ASSUME NEW e, In(e, fs) PROVE In(e, found) /\ e.path = PathOf(leaf.steps)
    BY <2>4, <2>6 DEF IsMine
  <2> QED BY <1>2, <1>4, <2>2, <2>3, <2>4, <2>5, <2>6
<1>7. CASE ~doc.json
  <2>1. to[m] = [leaf EXCEPT !.text = ApplyTransformations(leaf.text, found)]
    BY <1>1, <1>2, <1>3, <1>7
  <2>2. to[m].text = ApplyTransformations(leaf.text, found)
    BY <1>2, <2>1
  <2>3. \A l \in DOMAIN doc.leaves : l = m
    BY <1>1, <1>7
  <2>4. ASSUME NEW i \in DOMAIN found PROVE Fits(found[i], leaf.text, PathOf(leaf.steps))
    <3>1. In(found[i], found)
      BY DEF In
    <3> QED BY <1>2, <2>3, <3>1 DEF OfDocument
  <2>5. \A i, j \in DOMAIN found : i # j => ~overlaps(found[i], found[j])
    BY <2>4 DEF Disjoint, SamePlace, Fits
  <2>6. Placed(found, leaf.text)
    BY <2>4, <2>5 DEF Placed, Fits
  <2>7. ASSUME NEW e, In(e, found) PROVE e.path = PathOf(leaf.steps)
    BY <2>4, <2>7 DEF In, Fits
  <2> QED BY <1>2, <1>4, <2>2, <2>6, <2>7
<1> QED BY <1>6, <1>7

(* A caller's cells are told apart, so that a cell of a hidden value that      *)
(* still shows is at its own place, and no splice leaves it there.           *)
LEMMA DocumentHides ==
  ASSUME NEW doc \in Documents(Cell), Told(doc), NEW found, Listed(found), Disjoint(found),
         \A e : In(e, found) => OfDocument(e, doc), NEW m \in DOMAIN doc.leaves
  PROVE  /\ RewriteDocument(doc, found).leaves[m].text \in Seq(Cell \cup {Star})
         /\ \A f : (In(f, found) /\ f.rule.action \in {"REDACT", "BLOCK"}) =>
                     \A k \in DOMAIN f.match : ~In(f.match[k], RewriteDocument(doc, found).leaves[m].text)
<1>1. PICK text : text = doc.leaves[m].text
  OBVIOUS
<1>2. text \in Seq(Cell) /\ \A l \in DOMAIN doc.leaves : doc.leaves[l].text \in Seq(Cell)
  BY <1>1, DocumentIs
<1>3. PICK D : D = Cell \cup {Star}
  OBVIOUS
<1>4. text \in Seq(D)
  <2>1. PICK n \in Nat : text \in [1 .. n -> Cell]
    BY <1>2
  <2>2. text \in [1 .. n -> D]
    BY <1>3, <2>1
  <2> QED BY <2>1, <2>2
<1>5. PICK fs : /\ RewriteDocument(doc, found).leaves[m].text = ApplyTransformations(text, fs)
                /\ Placed(fs, text)
                /\ \A e : (In(e, found) /\ Fits(e, text, PathOf(doc.leaves[m].steps))) => In(e, fs)
  BY <1>1, LeafRewritten
<1>6. PICK out : out = ApplyTransformations(text, fs)
  OBVIOUS
<1>7. out \in Seq(D) /\ \A i \in DOMAIN out : Left(out[i], text, 0, fs, Rewritten(fs))
  <2>1. Panic \notin Seq(D) /\ Star \in D
    BY <1>3, PanicIsNoText
  <2>2. Placed(fs, text)
    BY <1>5
  <2> QED BY ONLY <1>4, <1>6, <2>1, <2>2, ApplyHides
<1>8. ASSUME NEW f, In(f, found), f.rule.action \in {"REDACT", "BLOCK"}, NEW k \in DOMAIN f.match, In(f.match[k], out)
      PROVE  FALSE
  <2>1. PICK l \in DOMAIN doc.leaves : Fits(f, doc.leaves[l].text, PathOf(doc.leaves[l].steps))
    BY <1>8 DEF OfDocument
  <2>2. PICK t : t = doc.leaves[l].text /\ t \in Seq(Cell)
    BY <1>2
  <2>3. PICK a \in Nat, b \in Nat : a = f.start /\ b = f.end /\ a < b /\ b <= Len(t) /\ f.match = Slice(t, a, b)
    BY <2>1, <2>2 DEF Fits
  <2>4. k \in 1 .. b - a /\ f.match[k] = t[a + k]
    <3>1. a \in Nat /\ b \in Nat /\ a <= b /\ b <= Len(t) /\ t \in Seq(Cell)
      BY <2>2, <2>3
    <3>2. /\ Slice(t, a, b) \in Seq(Cell) /\ Len(Slice(t, a, b)) = b - a
          /\ \A i \in 1 .. b - a : Slice(t, a, b)[i] = t[a + i]
      BY ONLY <3>1 DEF Slice
    <3>3. DOMAIN Slice(t, a, b) = 1 .. b - a
      BY <3>2
    <3> QED BY <2>3, <3>2, <3>3
  <2>5. a + k \in 1 .. Len(t) /\ a + k \in DOMAIN t /\ t[a + k] \in Cell
    <3>1. PICK n \in Nat : n = Len(t)
      BY <2>2
    <3>2. a + k \in 1 .. n
      BY <2>3, <2>4, <3>1
    <3>3. t \in Seq(Cell) /\ DOMAIN t = 1 .. n
      BY <2>2, <3>1
    <3> QED BY ONLY <3>1, <3>2, <3>3
  <2>6. t[a + k] # Star
    BY <2>5 DEF Cell, Star
  <2>7. PICK i \in DOMAIN out : out[i] = t[a + k]
    BY <1>8, <2>4 DEF In
  <2>8. PICK k2 \in 1 .. Len(text) : t[a + k] = text[k2] /\ Bare(k2, fs, Rewritten(fs))
    BY <1>7, <2>6, <2>7 DEF Left
  <2>9. k2 \in DOMAIN text
    BY <1>2
  <2>10. l = m /\ a + k = k2
    BY <1>1, <2>2, <2>5, <2>8, <2>9 DEF Told
  <2>11. PICK x \in DOMAIN fs : fs[x] = f
    <3>1. In(f, fs)
      BY <1>1, <1>5, <1>8, <2>1, <2>10
    <3> QED BY <3>1 DEF In
  <2>12. x \in Rewritten(fs)
    BY <1>8, <2>11 DEF Rewritten, Transforms
  <2>13. Covers(f, k2)
    BY <1>8, <2>3, <2>4, <2>10 DEF Covers
  <2> QED BY <2>8, <2>11, <2>12, <2>13 DEF Bare
<1> QED BY <1>3, <1>5, <1>6, <1>7, <1>8

-----------------------------------------------------------------------------
(* What is kept of an output conceals every value that was to be hidden.      *)
Concealed(found, text) ==
    Disjoint(found) =>
        \A f : (In(f, found) /\ f.rule.action \in {"REDACT", "BLOCK"}) => \A k \in DOMAIN f.match : ~In(f.match[k], text)

LEMMA Widened == ASSUME NEW A, NEW B, A \subseteq B, NEW doc \in Documents(A) PROVE doc \in Documents(B)
<1>1. PICK a, b : a = Seq(A) /\ b = Seq(B)
  OBVIOUS
<1>2. PICK K : K = Seq(Seq(Token))
  OBVIOUS
<1>3. ASSUME NEW s \in a PROVE s \in b
  <2>1. PICK n \in Nat : s \in [1 .. n -> A]
    BY <1>1
  <2>2. s \in [1 .. n -> B]
    BY <2>1
  <2> QED BY <1>1, <2>1, <2>2
<1>4. PICK P, Q : P = [steps : K, text : a] /\ Q = [steps : K, text : b]
  OBVIOUS
<1>5. P \subseteq Q
  BY <1>3, <1>4
<1>6. doc \in [json : BOOLEAN, leaves : Seq(P)] /\ (doc.json \/ Len(doc.leaves) <= 1)
  BY <1>1, <1>2, <1>4 DEF Documents
<1>7. doc.leaves \in Seq(Q)
  <2>1. doc.leaves \in Seq(P)
    BY <1>6
  <2>2. PICK n \in Nat : doc.leaves \in [1 .. n -> P]
    BY <2>1
  <2>3. doc.leaves \in [1 .. n -> Q]
    BY <1>5, <2>2
  <2> QED BY <2>2, <2>3
<1>8. doc \in [json : BOOLEAN, leaves : Seq(Q)]
  BY <1>6, <1>7
<1> QED BY <1>1, <1>2, <1>4, <1>6, <1>8 DEF Documents

(* A finding of a document is one to splice. *)
LEMMA OfDocumentSpliceable ==
  ASSUME NEW C, NEW doc \in Documents(C), NEW f, OfDocument(f, doc)
  PROVE  Spliceable(f, C)
<1>1. PICK l \in DOMAIN doc.leaves : Fits(f, doc.leaves[l].text, PathOf(doc.leaves[l].steps))
  BY DEF OfDocument
<1>2. PICK t : t = doc.leaves[l].text /\ t \in Seq(C)
  BY DocumentIs
<1>3. PICK a \in Nat, b \in Nat : a = f.start /\ b = f.end /\ a < b /\ b <= Len(t) /\ f.match = Slice(t, a, b)
  BY <1>1, <1>2 DEF Fits
<1>4. a \in Nat /\ b \in Nat /\ a <= b /\ b <= Len(t) /\ t \in Seq(C)
  BY <1>2, <1>3
<1>5. Slice(t, a, b) \in Seq(C)
  BY ONLY <1>4 DEF Slice
<1> QED BY <1>3, <1>4, <1>5 DEF Spliceable

(* A document that was scanned and rewritten holds, in any of its strings, no  *)
(* cell of a value that a rule redacts or blocks, whatever the detectors and   *)
(* rules, unless two of its findings overlap (pii_fieldpath_caretaker.go:95-136 *)
(* and pii_transformation.go:11-18).                                        *)
THEOREM ScanConceals ==
  ASSUME NEW doc \in Documents(Cell), Told(doc), NEW policy, policy.detectors \in Seq(Detector), NEW source,
         NEW found, found = Evaluate(doc, source, policy), NEW out, out = RewriteDocument(doc, found), ~Panicked(out),
         NEW text, text = FlattenSeq([l \in DOMAIN out.leaves |-> out.leaves[l].text])
  PROVE  text \in Seq(Cell \cup {Star}) /\ Concealed(found, text)
<1>1. PICK D : D = Cell \cup {Star}
  OBVIOUS
<1>2. Listed(found) /\ \A e : In(e, found) => OfDocument(e, doc)
  BY EvaluateFinds
<1>3. Star \in D /\ doc \in Documents(D)
  BY <1>1, Widened
<1>4. ASSUME NEW i \in DOMAIN found PROVE Spliceable(found[i], D)
  <2>1. In(found[i], found)
    BY DEF In
  <2> QED BY <1>2, <1>3, <2>1, OfDocumentSpliceable
<1>5. out \in Documents(D)
  BY <1>2, <1>3, <1>4, RewriteTyped
<1>6. PICK n \in Nat : DOMAIN out.leaves = 1 .. n /\ \A l \in 1 .. n : out.leaves[l].text \in Seq(D)
  BY <1>5, DocumentIs
<1>7. PICK texts : texts = [l \in 1 .. n |-> out.leaves[l].text]
  OBVIOUS
<1>8. texts \in Seq(Seq(D))
  <2>1. PICK Q : Q = Seq(D)
    OBVIOUS
  <2>2. texts \in [1 .. n -> Q]
    BY <1>6, <1>7, <2>1
  <2>3. texts \in Seq(Q)
    BY <2>2
  <2> QED BY <2>1, <2>3
<1>9. text = FlattenSeq(texts)
  BY <1>6, <1>7
<1>10. text \in Seq(D) /\ \A e : In(e, text) <=> \E l \in DOMAIN texts : In(e, texts[l])
  BY <1>8, <1>9, Flattened
<1>11. DOMAIN doc.leaves = 1 .. n
  <2>1. DOMAIN out.leaves = DOMAIN doc.leaves
    <3>1. PICK L : L = Seq([steps : Seq(Seq(Token)), text : Seq(Cell)])
      OBVIOUS
    <3>2. doc \in [json : BOOLEAN, leaves : L]
      BY <3>1 DEF Documents
    <3> QED BY <3>2 DEF RewriteDocument
  <2> QED BY <1>6, <2>1
<1>12. ASSUME Disjoint(found), NEW f, In(f, found), f.rule.action \in {"REDACT", "BLOCK"}, NEW k \in DOMAIN f.match, In(f.match[k], text)
       PROVE  FALSE
  <2>1. PICK l \in 1 .. n : In(f.match[k], out.leaves[l].text)
    BY <1>7, <1>10, <1>12
  <2>2. l \in DOMAIN doc.leaves
    BY <1>11
  <2> QED BY <1>2, <1>12, <2>1, <2>2, DocumentHides
<1> QED BY <1>1, <1>10, <1>12 DEF Concealed

-----------------------------------------------------------------------------
(* An artifact is what the scan of its output left, cut. *)
OutFields == {"at", "body", "found", "sanitized", "scan", "next"}
OutputOf(o, body) ==
    /\ IsFcn(o) /\ DOMAIN o = OutFields /\ o.at \in {"scan", "record", "done"}
    /\ o.at = "scan" => o.body = body /\ o.found = <<>>
    /\ o.at # "scan" => o.scan \in Statuses \ {""}
    /\ o.sanitized \in Seq(Cell \cup {Star}) /\ Concealed(o.found, o.sanitized)
ArtifactInv ==
    /\ IsFcn(outputs) /\ scenario \in Scenarios
    /\ \A j \in DOMAIN outputs : j \in DOMAIN rows /\ rows[j].status # "Pending" /\ OutputOf(outputs[j], scenario.output)
    /\ \A j \in DOMAIN artifacts : /\ j \in DOMAIN outputs /\ outputs[j].at = "done"
                                   /\ artifacts[j].scan = outputs[j].scan /\ artifacts[j].body = BodyOf(outputs[j])

LEMMA CutShows ==
  ASSUME NEW C, NEW text \in Seq(C)
  PROVE  Len(Truncated(text)) <= MaxArtifact /\ \A e : In(e, Truncated(text)) => In(e, text)
<1>1. PICK n \in Nat : n = Len(text) /\ DOMAIN text = 1 .. n
  OBVIOUS
<1>2. PICK m \in 0 .. n : m = (IF n < MaxArtifact THEN n ELSE MaxArtifact) /\ m <= MaxArtifact
  BY IntakeAssumption
<1>3. Truncated(text) = SubSeq(text, 1, m)
  BY <1>1, <1>2 DEF Truncated
<1>4. SubSeq(text, 1, m) = [i \in 1 .. m |-> text[i]] /\ Len(SubSeq(text, 1, m)) = m
  BY <1>1, <1>2
<1>5. \A i \in 1 .. m : i \in DOMAIN text
  BY <1>1
<1> QED BY <1>2, <1>3, <1>4, <1>5 DEF In

LEMMA ArtifactIs == ASSUME ArtifactInv PROVE ArtifactSafe
<1> SUFFICES ASSUME NEW j \in DOMAIN artifacts
             PROVE  /\ artifacts[j].scan = "SCAN_ERROR" => artifacts[j].body = <<>>
                    /\ Disjoint(outputs[j].found) =>
                         \A i \in DOMAIN outputs[j].found :
                             outputs[j].found[i].rule.action \in {"REDACT", "BLOCK"} =>
                                 Cells(outputs[j].found[i].match) \cap Cells(artifacts[j].body) = {}
  BY DEF ArtifactSafe
<1>1. PICK o : o = outputs[j]
  OBVIOUS
<1>2. /\ artifacts[j].scan = o.scan /\ artifacts[j].body = BodyOf(o)
      /\ o.sanitized \in Seq(Cell \cup {Star}) /\ Concealed(o.found, o.sanitized)
  BY <1>1 DEF ArtifactInv, OutputOf
<1>3. o.scan = "SCAN_ERROR" => BodyOf(o) = <<>>
  BY DEF BodyOf
<1>4. \A e : In(e, BodyOf(o)) => In(e, o.sanitized)
  <2>1. \A e : In(e, Truncated(o.sanitized)) => In(e, o.sanitized)
    BY <1>2, CutShows
  <2>2. \A e : ~In(e, <<>>)
    BY DEF In
  <2> QED BY <2>1, <2>2 DEF BodyOf
<1>5. ASSUME Disjoint(o.found), NEW i \in DOMAIN o.found, o.found[i].rule.action \in {"REDACT", "BLOCK"}
      PROVE  Cells(o.found[i].match) \cap Cells(BodyOf(o)) = {}
  <2>1. In(o.found[i], o.found)
    BY DEF In
  <2>2. \A k \in DOMAIN o.found[i].match : ~In(o.found[i].match[k], BodyOf(o))
    BY <1>2, <1>4, <1>5, <2>1 DEF Concealed
  <2> QED BY <2>2 DEF Cells, In
<1> QED BY <1>1, <1>2, <1>3, <1>5

(* Whatever leaves the outputs, the artifacts and the rows that ran alone. *)
LEMMA ArtifactKept ==
  ASSUME ArtifactInv, UNCHANGED <<scenario, outputs, artifacts>>,
         \A j \in DOMAIN rows : j \in DOMAIN rows' /\ (rows[j].status # "Pending" => rows'[j] = rows[j])
  PROVE  ArtifactInv'
BY DEF ArtifactInv

LEMMA ArtifactExecute ==
  ASSUME ArtifactInv, StatusInv, NEW j, Execute(j)
  PROVE  ArtifactInv'
<1>1. PICK o : o = [at |-> "scan", body |-> scenario.output, found |-> <<>>, sanitized |-> <<>>, scan |-> "", next |-> 1]
  OBVIOUS
<1>2. /\ j \in DOMAIN rows /\ rows[j].status = "Pending" /\ rows' = [rows EXCEPT ![j].status = "Completed"]
      /\ outputs' = With(outputs, j, o) /\ UNCHANGED <<scenario, artifacts>>
  BY <1>1 DEF Execute
<1>3. j \notin DOMAIN outputs
  BY <1>2 DEF ArtifactInv
<1>4. OutputOf(o, scenario.output)
  <2>1. IsFcn(o) /\ DOMAIN o = OutFields
    BY <1>1 DEF IsFcn, OutFields
  <2>2. <<>> \in Seq(Cell \cup {Star})
    <3>1. PICK D : D = Cell \cup {Star}
      OBVIOUS
    <3>2. <<>> \in Seq(D)
      OBVIOUS
    <3> QED BY <3>1, <3>2
  <2>3. Concealed(<<>>, <<>>)
    BY DEF Concealed, In
  <2> QED BY <1>1, <2>1, <2>2, <2>3 DEF OutputOf
<1>5. DOMAIN outputs' = {j} \cup DOMAIN outputs /\ outputs'[j] = o /\ \A k \in DOMAIN outputs : outputs'[k] = outputs[k]
  BY <1>2, <1>3 DEF With
<1>6. IsFcn(outputs')
  BY <1>2 DEF With, IsFcn
<1>7. /\ DOMAIN rows' = DOMAIN rows /\ \A k \in DOMAIN rows : k # j => rows'[k] = rows[k]
      /\ rows'[j].status = "Completed"
  <2>1. IsFcn(rows[j]) /\ DOMAIN rows[j] = RowFields
    BY <1>2 DEF StatusInv, Shape
  <2>2. rows'[j] = [rows[j] EXCEPT !.status = "Completed"]
    BY <1>2
  <2> QED BY <1>2, <2>1, <2>2 DEF RowFields
<1>8. ASSUME NEW k \in DOMAIN outputs'
      PROVE  k \in DOMAIN rows' /\ rows'[k].status # "Pending" /\ OutputOf(outputs'[k], scenario'.output)
  <2>1. CASE k = j
    BY <1>2, <1>4, <1>5, <1>7, <2>1
  <2>2. CASE k # j
    BY <1>2, <1>5, <1>7, <2>2 DEF ArtifactInv
  <2> QED BY <2>1, <2>2
<1>9. ASSUME NEW k \in DOMAIN artifacts'
      PROVE  /\ k \in DOMAIN outputs' /\ outputs'[k].at = "done"
             /\ artifacts'[k].scan = outputs'[k].scan /\ artifacts'[k].body = BodyOf(outputs'[k])
  BY <1>2, <1>5 DEF ArtifactInv
<1> QED BY <1>2, <1>6, <1>8, <1>9 DEF ArtifactInv

(* A step of one output that is not done yet. *)
LEMMA ArtifactMoves ==
  ASSUME ArtifactInv, NEW j \in DOMAIN outputs, outputs[j].at # "done", NEW o, outputs' = [outputs EXCEPT ![j] = o],
         OutputOf(o, scenario.output), UNCHANGED <<scenario, rows>>,
         artifacts' = artifacts \/ (o.at = "done" /\ artifacts' = With(artifacts, j, [scan |-> o.scan, body |-> BodyOf(o)]))
  PROVE  ArtifactInv'
<1>1. DOMAIN outputs' = DOMAIN outputs /\ outputs'[j] = o /\ IsFcn(outputs') /\ \A k \in DOMAIN outputs : k # j => outputs'[k] = outputs[k]
  BY DEF ArtifactInv, IsFcn
<1>2. j \notin DOMAIN artifacts
  BY DEF ArtifactInv
<1>3. ASSUME NEW k \in DOMAIN outputs'
      PROVE  k \in DOMAIN rows' /\ rows'[k].status # "Pending" /\ OutputOf(outputs'[k], scenario'.output)
  BY <1>1 DEF ArtifactInv
<1>4. ASSUME NEW k \in DOMAIN artifacts'
      PROVE  /\ k \in DOMAIN outputs' /\ outputs'[k].at = "done"
             /\ artifacts'[k].scan = outputs'[k].scan /\ artifacts'[k].body = BodyOf(outputs'[k])
  <2>1. CASE k \in DOMAIN artifacts /\ k # j
    <3>1. artifacts'[k] = artifacts[k]
      BY <2>1 DEF With
    <3> QED BY <1>1, <2>1, <3>1 DEF ArtifactInv
  <2>2. CASE k = j
    <3>1. o.at = "done" /\ artifacts'[j] = [scan |-> o.scan, body |-> BodyOf(o)]
      BY <1>2, <2>2, <1>4 DEF With
    <3> QED BY <1>1, <2>2, <3>1
  <2> QED BY <1>2, <1>4, <2>1, <2>2 DEF With
<1> QED BY <1>1, <1>3, <1>4 DEF ArtifactInv

LEMMA ArtifactScan ==
  ASSUME ArtifactInv, NEW j, ScanOutput(j)
  PROVE  ArtifactInv'
<1>1. j \in DOMAIN outputs /\ outputs[j].at = "scan" /\ UNCHANGED <<scenario, rows, artifacts>>
  BY DEF ScanOutput
<1>2. PICK o : o = outputs[j] /\ OutputOf(o, scenario.output) /\ o.at = "scan"
  BY <1>1 DEF ArtifactInv
<1>3. PICK policy \in scenario.policies :
         LET body == outputs[j].body
             found == Evaluate(body, "JOB_RESULT", policy)
             out == RewriteDocument(body, found)
             status == IF AllApplied(body, found) THEN StatusOf(found, policy) ELSE "SCAN_ERROR"
         IN  outputs' = [outputs EXCEPT ![j] =
                 IF Panicked(out) THEN [@ EXCEPT !.at = "record", !.scan = "SCAN_ERROR"]
                 ELSE [@ EXCEPT !.at = "record", !.found = found, !.scan = status,
                                !.sanitized = IF status = "SCAN_ERROR" THEN <<>> ELSE FlattenSeq([l \in DOMAIN out.leaves |-> out.leaves[l].text])]]
  BY DEF ScanOutput
<1>4. PICK found : found = Evaluate(o.body, "JOB_RESULT", policy)
  OBVIOUS
<1>5. PICK out : out = RewriteDocument(o.body, found)
  OBVIOUS
<1>6. PICK status : status = IF AllApplied(o.body, found) THEN StatusOf(found, policy) ELSE "SCAN_ERROR"
  OBVIOUS
<1>7. PICK text : text = FlattenSeq([l \in DOMAIN out.leaves |-> out.leaves[l].text])
  OBVIOUS
<1>8. outputs' = [outputs EXCEPT ![j] =
             IF Panicked(out) THEN [o EXCEPT !.at = "record", !.scan = "SCAN_ERROR"]
             ELSE [o EXCEPT !.at = "record", !.found = found, !.scan = status,
                            !.sanitized = IF status = "SCAN_ERROR" THEN <<>> ELSE text]]
  BY <1>2, <1>3, <1>4, <1>5, <1>6, <1>7
<1>9. o.body \in Documents(Cell) /\ Told(o.body) /\ policy.detectors \in Seq(Detector)
  BY <1>2, IntakeAssumption DEF ArtifactInv, OutputOf
<1>10. status \in {"CLEAN", "DETECTED", "SCAN_ERROR"}
  BY <1>6 DEF StatusOf
<1>11. IsFcn(o) /\ DOMAIN o = OutFields /\ o.sanitized \in Seq(Cell \cup {Star}) /\ Concealed(o.found, o.sanitized)
  BY <1>2 DEF OutputOf
<1>12. CASE Panicked(out)
  <2>1. PICK r : r = [o EXCEPT !.at = "record", !.scan = "SCAN_ERROR"]
    OBVIOUS
  <2>2. /\ IsFcn(r) /\ DOMAIN r = OutFields /\ r.at = "record" /\ r.scan = "SCAN_ERROR"
        /\ r.sanitized = o.sanitized /\ r.found = o.found
    BY <1>11, <2>1 DEF IsFcn, OutFields
  <2>3. OutputOf(r, scenario.output)
    BY <1>11, <2>2 DEF OutputOf, Statuses
  <2> QED BY <1>1, <1>8, <1>12, <2>1, <2>3, ArtifactMoves
<1>13. CASE ~Panicked(out)
  <2>1. PICK kept : kept = IF status = "SCAN_ERROR" THEN <<>> ELSE text
    OBVIOUS
  <2>2. text \in Seq(Cell \cup {Star}) /\ Concealed(found, text)
    BY <1>4, <1>5, <1>7, <1>9, <1>13, ScanConceals
  <2>3. kept \in Seq(Cell \cup {Star}) /\ Concealed(found, kept)
    <3>1. PICK D : D = Cell \cup {Star}
      OBVIOUS
    <3>2. <<>> \in Seq(D)
      OBVIOUS
    <3>3. Concealed(found, <<>>)
      BY DEF Concealed, In
    <3> QED BY <2>1, <2>2, <3>1, <3>2, <3>3
  <2>4. PICK r : r = [o EXCEPT !.at = "record", !.found = found, !.scan = status, !.sanitized = kept]
    OBVIOUS
  <2>5. /\ IsFcn(r) /\ DOMAIN r = OutFields /\ r.at = "record" /\ r.scan = status /\ r.sanitized = kept /\ r.found = found
    BY <1>11, <2>4 DEF IsFcn, OutFields
  <2>6. OutputOf(r, scenario.output)
    BY <1>10, <2>3, <2>5 DEF OutputOf, Statuses
  <2>7. outputs' = [outputs EXCEPT ![j] = r]
    BY <1>8, <1>13, <2>1, <2>4
  <2> QED BY <1>1, <2>6, <2>7, ArtifactMoves
<1> QED BY <1>12, <1>13

LEMMA ArtifactRecord ==
  ASSUME ArtifactInv, NEW j, RecordOutput(j) \/ StoreArtifact(j)
  PROVE  ArtifactInv'
<1>1. j \in DOMAIN outputs /\ outputs[j].at = "record" /\ UNCHANGED <<scenario, rows>>
  BY DEF RecordOutput, StoreArtifact
<1>2. PICK o : o = outputs[j] /\ OutputOf(o, scenario.output) /\ o.at = "record"
  BY <1>1 DEF ArtifactInv
<1>3. IsFcn(o) /\ DOMAIN o = OutFields
  BY <1>2 DEF OutputOf
<1>4. CASE RecordOutput(j)
  <2>1. PICK r : r = [o EXCEPT !.next = @ + 1]
    OBVIOUS
  <2>2. outputs' = [outputs EXCEPT ![j] = r] /\ artifacts' = artifacts
    BY <1>2, <1>4, <2>1 DEF RecordOutput
  <2>3. IsFcn(r) /\ DOMAIN r = OutFields /\ \A f \in OutFields \ {"next"} : r[f] = o[f]
    BY <1>3, <2>1 DEF IsFcn
  <2>4. OutputOf(r, scenario.output)
    BY <1>2, <2>3 DEF OutputOf, OutFields
  <2> QED BY <1>1, <2>2, <2>4, ArtifactMoves
<1>5. CASE StoreArtifact(j)
  <2>1. PICK r : r = [o EXCEPT !.at = "done"]
    OBVIOUS
  <2>2. IsFcn(r) /\ DOMAIN r = OutFields /\ r.at = "done" /\ \A f \in OutFields \ {"at"} : r[f] = o[f]
    BY <1>3, <2>1 DEF IsFcn, OutFields
  <2>3. r.scan = o.scan /\ BodyOf(r) = BodyOf(o)
    BY <2>2 DEF BodyOf, OutFields
  <2>4. /\ outputs' = [outputs EXCEPT ![j] = r]
        /\ artifacts' = artifacts \/ artifacts' = With(artifacts, j, [scan |-> r.scan, body |-> BodyOf(r)])
    BY <1>2, <1>5, <2>1, <2>3 DEF StoreArtifact
  <2>5. OutputOf(r, scenario.output)
    BY <1>2, <2>2 DEF OutputOf, OutFields
  <2> QED BY <1>1, <2>2, <2>4, <2>5, ArtifactMoves
<1> QED BY <1>4, <1>5

LEMMA ArtifactStep == ASSUME ArtifactInv, StatusInv, [Next]_vars PROVE ArtifactInv'
<1> Shape
  BY DEF StatusInv
<1>1. ASSUME UNCHANGED <<scenario, outputs, artifacts, rows>> PROVE ArtifactInv'
  BY <1>1, ArtifactKept
<1>2. ASSUME NEW c \in Requests, Lookup(c) \/ Rerun(c) PROVE ArtifactInv'
  BY <1>1, <1>2 DEF Lookup, Rerun, tables
<1>3. ASSUME NEW c \in Requests, ScanPayload(c) \/ ScanName(c) \/ RewritePayload(c) \/ RewriteName(c) PROVE ArtifactInv'
  BY <1>1, <1>3 DEF ScanPayload, ScanName, RewritePayload, RewriteName, tables
<1>4. ASSUME NEW c \in Requests, RecordFinding(c) \/ SaveToVault(c) PROVE ArtifactInv'
  BY <1>1, <1>4 DEF RecordFinding, SaveToVault
<1>5. ASSUME NEW c \in Requests, HangUp(c) PROVE ArtifactInv'
  BY <1>1, <1>5 DEF HangUp, tables
<1>6. ASSUME NEW c \in Requests, Insert(c) PROVE ArtifactInv'
  <2>1. req[c].at = "insert" /\ (rows' = rows \/ rows' = With(rows, c, Row(c)))
    BY <1>6, InsertDoes
  <2>2. c \notin DOMAIN rows
    BY <2>1 DEF StatusInv
  <2>3. \A j \in DOMAIN rows : j \in DOMAIN rows' /\ rows'[j] = rows[j]
    BY <2>1, <2>2 DEF With
  <2>4. UNCHANGED <<scenario, outputs, artifacts>>
    BY <1>6 DEF Insert
  <2> QED BY <2>3, <2>4, ArtifactKept
<1>7. CASE UNCHANGED vars
  BY <1>1, <1>7 DEF vars
<1>8. CASE Crash
  BY <1>1, <1>8 DEF Crash, tables
<1> QED BY <1>2, <1>3, <1>4, <1>5, <1>6, <1>7, <1>8, ArtifactExecute, ArtifactScan, ArtifactRecord DEF Next

(* An output whose scan failed is not stored, and what is stored of one holds  *)
(* no cell of a value that was to be redacted or to block, in whatever string  *)
(* of the output it was found and wherever the artifact was cut               *)
(* (post_execution_scan.go:213-225).                                        *)
THEOREM ArtifactSound == Spec => []ArtifactSafe
<1>1. Init => ArtifactInv /\ StatusInv
  <2>1. Init => ArtifactInv
    BY DEF Init, ArtifactInv, IsFcn
  <2> QED BY <2>1, ToldInit
<1>2. ArtifactInv /\ StatusInv /\ [Next]_vars => ArtifactInv' /\ StatusInv'
  BY ArtifactStep, StatusStep
<1>3. ArtifactInv => ArtifactSafe
  BY ArtifactIs
<1> QED BY <1>1, <1>2, <1>3, PTL DEF Spec

-----------------------------------------------------------------------------
(* What makes the evidence of a task complete.  A request that has lost none   *)
(* has a record of every item it is past, one that is neither blocked nor cut  *)
(* off owes the vault no more entries than there were troubles, not counting  *)
(* the one it is about to save, and its row is as it was when it was stored.   *)
Shown == Cell \cup {Star}
Work(r) == IF r.source = "JOB_PAYLOAD" THEN r.found ELSE r.named
Items(r) ==
    /\ Listed(r.found) /\ \A i \in DOMAIN r.found : Spliceable(r.found[i], Shown)
    /\ Listed(r.named) /\ \A i \in DOMAIN r.named : Spliceable(r.named[i], Shown)
    /\ r.source = "JOB_PAYLOAD" => r.named = <<>>
    /\ r.next \in Nat /\ 1 <= r.next /\ r.next <= 1 + Len(r.found) + Len(r.named)
    /\ r.at = "record" => r.next <= 1 + Len(Work(r))
    /\ r.at = "vault" => r.next <= Len(Work(r))
ReqTyped(r) ==
    /\ r.at \in Points /\ r.source \in {"JOB_PAYLOAD", "JOB_METADATA"} /\ r.scan \in Statuses /\ r.reply \in Requests \cup {NoJob}
    /\ r.at \in {"idle", "scan", "name"} => r.source = "JOB_PAYLOAD"
    /\ r.at = "idle" => ~r.blocked /\ ~r.hungUp
    /\ r.doc \in Documents(Shown) /\ r.name \in Seq(Shown) /\ r.policy.detectors \in Seq(Detector)
    /\ Items(r)

OnRecord(c, source, f, recs) == \E e \in recs : e.job = c /\ e.source = source /\ e.finding = f
Passed(r, i) == i < r.next \/ (i = r.next /\ r.at = "vault")
Recorded(c, r, recs) ==
    /\ (r.at \in {"record", "vault"} /\ ~r.lost) =>
         \A i \in DOMAIN Work(r) : Passed(r, i) => OnRecord(c, r.source, Work(r)[i], recs)
    /\ ((r.source = "JOB_METADATA" \/ r.at \in {"name", "insert", "done"}) /\ ~r.blocked) =>
         \A i \in DOMAIN r.found : OnRecord(c, "JOB_PAYLOAD", r.found[i], recs)
    /\ (r.at \in {"insert", "done"} /\ ~r.blocked /\ r.name # NameWithheld) =>
         \A i \in DOMAIN r.named : OnRecord(c, "JOB_METADATA", r.named[i], recs)

EvidenceOf(c, r) ==
    LET f == Work(r)[r.next]
    IN  [job |-> c, source |-> r.source, type |-> f.type, index |-> r.counts[f.type], finding |-> f]
Pending(c, r) == IF r.at = "vault" THEN {EvidenceOf(c, r)} ELSE {}
Unvaulted(c, recs, vlt) == {e \in recs : e.job = c /\ e.source # "JOB_RESULT"} \ vlt
Owing(c, r, recs, vlt, t) ==
    (r.at # "failed" /\ ~r.blocked /\ ~r.hungUp) => Cardinality(Unvaulted(c, recs, vlt) \ Pending(c, r)) <= t

StoredAs(row, r) ==
    /\ row.status \in {"Pending", "Blocked", "Completed"} /\ row.scan \in Statuses \ {""}
    /\ row.doc \in Documents(Shown) /\ row.name \in Seq(Shown) /\ row.name = r.name
    /\ row.status # "Blocked" => ~r.blocked /\ ~r.hungUp

EvidenceInv ==
    /\ scenario \in Scenarios /\ troubles \in 0 .. MaxTroubles /\ IsFiniteSet(records) /\ IsFiniteSet(vault)
    /\ \A c \in Requests : /\ ReqTyped(req[c]) /\ Recorded(c, req[c], records)
                           /\ Owing(c, req[c], records, vault, troubles)
    /\ \A j \in DOMAIN rows : StoredAs(rows[j], req[j])

LEMMA ListedHas ==
  ASSUME NEW s, Listed(s)
  PROVE  Len(s) \in Nat /\ DOMAIN s = 1 .. Len(s) /\ (s = <<>> <=> Len(s) = 0)
<1>1. PICK T : s \in Seq(T)
  BY DEF Listed
<1> QED BY <1>1

LEMMA ShownHas ==
  /\ Star \in Shown /\ Panic \notin Seq(Shown) /\ <<>> \in Seq(Shown) /\ NameWithheld \in Seq(Shown)
  /\ NoDoc \in Documents(Shown) /\ Withheld \in Documents(Shown) /\ Listed(<<>>) /\ <<>> \in Seq(Detector)
  /\ \A doc \in Documents(Cell) : doc \in Documents(Shown)
  /\ \A name \in Seq(Cell) : name \in Seq(Shown)
  /\ \A name \in Seq(Shown) : NameDoc(name) \in Documents(Shown)
<1>1. PICK D : D = Shown
  OBVIOUS
<1>2. Star \in D /\ Cell \subseteq D
  BY <1>1 DEF Shown
<1>3. <<>> \in Seq(D) /\ NameWithheld \in Seq(D)
  BY <1>2 DEF NameWithheld
<1>4. PICK L : L = [steps : Seq(Seq(Token)), text : Seq(D)]
  OBVIOUS
<1>5. <<>> \in Seq(L) /\ Len(<<>>) = 0
  OBVIOUS
<1>6. NoDoc \in Documents(D) /\ Withheld \in Documents(D)
  <2>1. NoDoc \in [json : BOOLEAN, leaves : Seq(L)] /\ Withheld \in [json : BOOLEAN, leaves : Seq(L)]
    BY <1>5 DEF NoDoc, Withheld
  <2>2. Len(NoDoc.leaves) <= 1 /\ Withheld.json
    BY <1>5 DEF NoDoc, Withheld
  <2> QED BY <1>4, <2>1, <2>2 DEF Documents
<1>7. Panic \notin Seq(Shown)
  BY PanicIsNoText DEF Shown
<1>8. Listed(<<>>)
  <2>1. <<>> \in Seq({})
    OBVIOUS
  <2> QED BY <2>1, ListedIs
<1>9. <<>> \in Seq(Detector)
  OBVIOUS
<1>10. \A doc \in Documents(Cell) : doc \in Documents(D)
  BY <1>2, Widened
<1>11. ASSUME NEW name \in Seq(Cell) PROVE name \in Seq(D)
  <2>1. PICK n \in Nat : name \in [1 .. n -> Cell]
    BY <1>11
  <2>2. name \in [1 .. n -> D]
    BY <1>2, <2>1
  <2> QED BY <2>1, <2>2
<1>12. ASSUME NEW name \in Seq(D) PROVE NameDoc(name) \in Documents(D)
  <2>1. PICK K, N : K = Seq(Seq(Token)) /\ N = Seq(D)
    OBVIOUS
  <2>2. <<<<"task_name">>>> \in K
    <3>1. PICK U : U = Token
      OBVIOUS
    <3>2. "task_name" \in U
      BY <3>1 DEF Token
    <3>3. PICK T : T = Seq(U)
      OBVIOUS
    <3>4. <<"task_name">> \in T
      BY <3>2, <3>3
    <3>5. <<<<"task_name">>>> \in Seq(T)
      BY <3>4
    <3> QED BY <2>1, <3>1, <3>3, <3>5
  <2>3. PICK leaf : leaf = [steps |-> <<<<"task_name">>>>, text |-> name]
    OBVIOUS
  <2>4. leaf \in L
    BY <1>4, <2>1, <2>2, <2>3
  <2>5. <<leaf>> \in Seq(L) /\ Len(<<leaf>>) = 1
    BY <2>4
  <2>6. NameDoc(name) = [json |-> FALSE, leaves |-> <<leaf>>]
    BY <2>3 DEF NameDoc
  <2>7. NameDoc(name) \in [json : BOOLEAN, leaves : Seq(L)] /\ Len(NameDoc(name).leaves) <= 1
    BY <2>5, <2>6
  <2> QED BY <1>4, <2>7 DEF Documents
<1> QED BY <1>1, <1>2, <1>3, <1>6, <1>7, <1>8, <1>9, <1>10, <1>11, <1>12

LEMMA RecordedGrows ==
  ASSUME NEW c, NEW r, NEW recs, NEW more, recs \subseteq more, Recorded(c, r, recs)
  PROVE  Recorded(c, r, more)
<1>1. \A source, f : OnRecord(c, source, f, recs) => OnRecord(c, source, f, more)
  BY DEF OnRecord
<1> QED BY <1>1 DEF Recorded

LEMMA FewerOf ==
  ASSUME NEW S, NEW R, IsFiniteSet(S), R \subseteq S, NEW t \in Nat, Cardinality(S) <= t
  PROVE  Cardinality(R) <= t
<1>1. IsFiniteSet(R) /\ Cardinality(R) <= Cardinality(S) /\ Cardinality(S) \in Nat /\ Cardinality(R) \in Nat
  BY FS_Subset, FS_CardinalityType
<1> QED BY <1>1

(* What is owed does not grow with the records of others, entries or troubles. *)
LEMMA OwingGrows ==
  ASSUME NEW c, NEW r, NEW recs, NEW vlt, NEW recs2, NEW vlt2, NEW t \in Nat, NEW t2 \in Nat, t <= t2,
         IsFiniteSet(recs), vlt \subseteq vlt2,
         \A e \in recs2 : e \in recs \/ e.job # c \/ e.source = "JOB_RESULT",
         Owing(c, r, recs, vlt, t)
  PROVE  Owing(c, r, recs2, vlt2, t2)
<1> SUFFICES ASSUME r.at # "failed", ~r.blocked, ~r.hungUp
             PROVE  Cardinality(Unvaulted(c, recs2, vlt2) \ Pending(c, r)) <= t2
  BY DEF Owing
<1>1. PICK S, R : S = Unvaulted(c, recs, vlt) \ Pending(c, r) /\ R = Unvaulted(c, recs2, vlt2) \ Pending(c, r)
  OBVIOUS
<1>2. S \subseteq recs /\ R \subseteq S
  BY <1>1 DEF Unvaulted
<1>3. IsFiniteSet(S)
  BY <1>2, FS_Subset
<1>4. Cardinality(S) <= t
  BY <1>1 DEF Owing
<1>5. Cardinality(R) <= t
  BY ONLY <1>2, <1>3, <1>4, t \in Nat, FewerOf
<1>6. Cardinality(R) \in Nat
  BY <1>2, <1>3, FS_Subset, FS_CardinalityType
<1> QED BY <1>1, <1>5, <1>6

(* A step of a request that saves nothing leaves what it owes. *)
LEMMA OwingStays ==
  ASSUME NEW c, NEW r, NEW q, NEW recs, NEW vlt, NEW t \in Nat, NEW t2 \in Nat, t <= t2, IsFiniteSet(recs),
         Owing(c, q, recs, vlt, t), q.at # "vault" \/ r.at = "failed",
         (r.at # "failed" /\ ~r.blocked /\ ~r.hungUp) => (q.at # "failed" /\ ~q.blocked /\ ~q.hungUp)
  PROVE  Owing(c, r, recs, vlt, t2)
<1> SUFFICES ASSUME r.at # "failed", ~r.blocked, ~r.hungUp
             PROVE  Cardinality(Unvaulted(c, recs, vlt) \ Pending(c, r)) <= t2
  BY DEF Owing
<1>1. PICK S, R : S = Unvaulted(c, recs, vlt) \ Pending(c, q) /\ R = Unvaulted(c, recs, vlt) \ Pending(c, r)
  OBVIOUS
<1>2. S \subseteq recs /\ R \subseteq S
  BY <1>1 DEF Unvaulted, Pending
<1>3. IsFiniteSet(S)
  BY <1>2, FS_Subset
<1>4. Cardinality(S) <= t
  BY <1>1 DEF Owing
<1>5. Cardinality(R) <= t
  BY ONLY <1>2, <1>3, <1>4, t \in Nat, FewerOf
<1>6. Cardinality(R) \in Nat
  BY <1>2, <1>3, FS_Subset, FS_CardinalityType
<1> QED BY <1>1, <1>5, <1>6

LEMMA TroublesDo ==
  ASSUME troubles \in 0 .. MaxTroubles, NEW c, NEW ok \in BOOLEAN, Db(ok) \/ Statement(c, ok)
  PROVE  troubles' \in 0 .. MaxTroubles /\ troubles <= troubles' /\ (Db(FALSE) => troubles' = troubles + 1)
<1>1. MaxTroubles \in Nat
  BY IntakeAssumption
<1> QED BY <1>1 DEF Db, Statement

(* What a step has to show: for the requests it changes, and for the rows. *)
LEMMA EvidenceGoes ==
  ASSUME EvidenceInv, NEW S, scenario' = scenario, troubles' \in 0 .. MaxTroubles, troubles <= troubles',
         IsFiniteSet(records'), IsFiniteSet(vault'), records \subseteq records', vault \subseteq vault',
         \A d \in Requests \ S : /\ req'[d] = req[d]
                                 /\ \A e \in records' : e \in records \/ e.job # d \/ e.source = "JOB_RESULT",
         \A c \in Requests \cap S : /\ ReqTyped(req'[c]) /\ Recorded(c, req'[c], records')
                                    /\ Owing(c, req'[c], records', vault', troubles'),
         \A j \in DOMAIN rows' : StoredAs(rows'[j], req'[j])
  PROVE  EvidenceInv'
<1>1. troubles \in Nat /\ troubles' \in Nat
  BY DEF EvidenceInv
<1>2. ASSUME NEW d \in Requests \ S
      PROVE  ReqTyped(req'[d]) /\ Recorded(d, req'[d], records') /\ Owing(d, req'[d], records', vault', troubles')
  <2>1. req'[d] = req[d] /\ \A e \in records' : e \in records \/ e.job # d \/ e.source = "JOB_RESULT"
    OBVIOUS
  <2>2. ReqTyped(req[d]) /\ Recorded(d, req[d], records) /\ Owing(d, req[d], records, vault, troubles) /\ IsFiniteSet(records)
    BY DEF EvidenceInv
  <2>3. Recorded(d, req[d], records')
    BY <2>2, RecordedGrows
  <2>4. PICK recs2, vlt2, t2 : recs2 = records' /\ vlt2 = vault' /\ t2 = troubles'
    OBVIOUS
  <2>5. Owing(d, req[d], recs2, vlt2, t2)
    BY <1>1, <2>1, <2>2, <2>4, OwingGrows
  <2> QED BY <2>1, <2>2, <2>3, <2>4, <2>5
<1>3. \A d \in Requests : ReqTyped(req'[d]) /\ Recorded(d, req'[d], records') /\ Owing(d, req'[d], records', vault', troubles')
  BY <1>2
<1>4. scenario' \in Scenarios
  BY DEF EvidenceInv
<1> QED BY <1>3, <1>4 DEF EvidenceInv

(* A step of one request, which is not done, and leaves the rows. *)
LEMMA EvidenceMoves ==
  ASSUME EvidenceInv, StatusInv, NEW c \in Requests, NEW r, Set(c, r), UNCHANGED <<scenario, rows>>, req[c].at # "done",
         troubles' \in 0 .. MaxTroubles, troubles <= troubles', IsFiniteSet(records'), IsFiniteSet(vault'),
         records \subseteq records', vault \subseteq vault', \A e \in records' : e \in records \/ e.job = c,
         ReqTyped(r), Recorded(c, r, records'), Owing(c, r, records', vault', troubles')
  PROVE  EvidenceInv'
<1>1. req'[c] = r /\ Others(c)
  BY SetDoes DEF StatusInv
<1>2. \A d \in Requests \ {c} : /\ req'[d] = req[d]
                               /\ \A e \in records' : e \in records \/ e.job # d \/ e.source = "JOB_RESULT"
  BY <1>1 DEF Others
<1>3. ASSUME NEW j \in DOMAIN rows' PROVE StoredAs(rows'[j], req'[j])
  <2>1. j \in DOMAIN rows /\ rows'[j] = rows[j] /\ j \in Requests /\ req[j].at = "done"
    BY DEF StatusInv, Shape
  <2>2. req'[j] = req[j]
    BY <1>1, <2>1 DEF Others
  <2> QED BY <2>1, <2>2 DEF EvidenceInv
<1>4. \A d \in Requests \cap {c} : /\ ReqTyped(req'[d]) /\ Recorded(d, req'[d], records')
                                   /\ Owing(d, req'[d], records', vault', troubles')
  BY <1>1
<1> QED BY <1>2, <1>3, <1>4, EvidenceGoes

(* One that saves nothing. *)
LEMMA EvidenceQuiet ==
  ASSUME EvidenceInv, StatusInv, NEW c \in Requests, NEW r, Set(c, r), UNCHANGED <<scenario, rows, records, vault>>,
         req[c].at # "done", troubles' \in 0 .. MaxTroubles, troubles <= troubles',
         ReqTyped(r), Recorded(c, r, records), req[c].at # "vault" \/ r.at = "failed",
         (r.at # "failed" /\ ~r.blocked /\ ~r.hungUp) => (req[c].at # "failed" /\ ~req[c].blocked /\ ~req[c].hungUp)
  PROVE  EvidenceInv'
<1>1. troubles \in Nat /\ troubles' \in Nat /\ IsFiniteSet(records) /\ IsFiniteSet(vault)
  BY DEF EvidenceInv
<1>2. Owing(c, req[c], records, vault, troubles)
  BY DEF EvidenceInv
<1>3. PICK t2 : t2 = troubles'
  OBVIOUS
<1>4. Owing(c, r, records, vault, t2)
  BY <1>1, <1>2, <1>3, OwingStays
<1> QED BY <1>1, <1>3, <1>4, EvidenceMoves

Alike(r, q, F) == \A f \in F : r[f] = q[f]

LEMMA IdleHas ==
  /\ Idle.at = "idle" /\ Idle.source = "JOB_PAYLOAD" /\ Idle.doc = NoDoc /\ Idle.name = <<>> /\ Idle.policy.detectors = <<>>
  /\ Idle.found = <<>> /\ Idle.named = <<>> /\ Idle.next = 1 /\ ~Idle.lost /\ ~Idle.blocked /\ ~Idle.hungUp
  /\ Idle.scan = "" /\ Idle.reply = NoJob
BY DEF Idle, NoPolicy

(* A request that begins. *)
LEMMA FreshIs ==
  ASSUME NEW r, Alike(r, Idle, Fields \ {"at", "doc", "name", "keyed", "reply"}), r.at \in {"idle", "scan", "done", "failed"},
         r.doc \in Documents(Shown), r.name \in Seq(Shown), r.reply \in Requests \cup {NoJob}
  PROVE  ReqTyped(r) /\ ~r.blocked /\ ~r.hungUp /\ \A c, recs : Recorded(c, r, recs)
<1>1. /\ r.source = "JOB_PAYLOAD" /\ r.policy.detectors = <<>> /\ r.found = <<>> /\ r.named = <<>> /\ r.next = 1
      /\ ~r.blocked /\ ~r.hungUp /\ r.scan = ""
  BY IdleHas DEF Alike, Fields
<1>2. ReqTyped(r)
  <2>1. Len(<<>>) = 0 /\ DOMAIN <<>> = {}
    OBVIOUS
  <2>2. \A i \in DOMAIN <<>> : Spliceable(<<>>[i], Shown)
    BY <2>1
  <2>3. Work(r) = <<>>
    BY <1>1 DEF Work
  <2>4. Items(r)
    <3>1. Listed(r.found) /\ Listed(r.named)
      BY <1>1, ShownHas
    <3>2. \A i \in DOMAIN r.found : Spliceable(r.found[i], Shown)
      BY <1>1, <2>2
    <3>3. \A i \in DOMAIN r.named : Spliceable(r.named[i], Shown)
      BY <1>1, <2>2
    <3>4. r.next <= 1 + Len(r.found) + Len(r.named) /\ r.next \in Nat /\ 1 <= r.next /\ r.next <= 1 + Len(Work(r))
      <4>1. Len(r.found) = 0 /\ Len(r.named) = 0 /\ Len(Work(r)) = 0 /\ r.next = 1
        BY <1>1, <2>1, <2>3
      <4> QED BY ONLY <4>1
    <3> QED BY <1>1, <3>1, <3>2, <3>3, <3>4 DEF Items
  <2>5. r.at \in Points /\ r.scan \in Statuses
    BY <1>1 DEF Points, Statuses
  <2> QED BY <1>1, <2>4, <2>5, ShownHas DEF ReqTyped
<1>3. ASSUME NEW c, NEW recs PROVE Recorded(c, r, recs)
  <2>1. DOMAIN <<>> = {}
    OBVIOUS
  <2> QED BY <1>1, <2>1 DEF Recorded, Work
<1> QED BY <1>1, <1>2, <1>3

LEMMA EvidenceLookup ==
  ASSUME EvidenceInv, StatusInv, NEW c \in Requests, Lookup(c) \/ Rerun(c)
  PROVE  EvidenceInv'
<1>1. req[c].at = "idle" /\ UNCHANGED <<scenario, rows, records, vault>>
  BY DEF Lookup, Rerun, tables
<1>2. troubles' \in 0 .. MaxTroubles /\ troubles <= troubles'
  <2>1. PICK ok \in BOOLEAN : Db(ok)
    BY DEF Lookup, Rerun
  <2> QED BY <2>1, TroublesDo DEF EvidenceInv
<1>3. ~req[c].blocked /\ ~req[c].hungUp
  BY <1>1 DEF EvidenceInv, ReqTyped
<1>4. ASSUME NEW at \in {"scan", "done", "failed"}, NEW doc \in Documents(Shown), NEW name \in Seq(Shown), NEW keyed,
             NEW reply \in Requests \cup {NoJob}, NEW r, Shaped(r),
             r.at = at, r.doc = doc, r.name = name, r.reply = reply,
             Alike(r, Idle, Fields \ {"at", "doc", "name", "keyed", "reply"}), Set(c, r)
      PROVE  EvidenceInv'
  <2>1. ReqTyped(r) /\ ~r.blocked /\ ~r.hungUp /\ Recorded(c, r, records)
    BY <1>4, FreshIs
  <2> QED BY <1>1, <1>2, <1>3, <1>4, <2>1, EvidenceQuiet
<1>5. Shaped(Idle) /\ NoDoc \in Documents(Shown) /\ <<>> \in Seq(Shown) /\ Idle.doc = NoDoc /\ Idle.name = <<>>
      /\ Idle.reply = NoJob
  BY IdleShaped, IdleHas, ShownHas
<1>6. CASE Lookup(c)
  <2>1. \/ \E j \in Requests : Set(c, [Idle EXCEPT !.at = "done", !.reply = j, !.keyed = TRUE])
        \/ Set(c, [Idle EXCEPT !.at = "scan", !.doc = scenario.doc, !.name = scenario.name, !.keyed = scenario.keyed])
    BY <1>6 DEF Lookup
  <2>2. ASSUME NEW j \in Requests, Set(c, [Idle EXCEPT !.at = "done", !.reply = j, !.keyed = TRUE]) PROVE EvidenceInv'
    <3>1. PICK r : r = [Idle EXCEPT !.at = "done", !.reply = j, !.keyed = TRUE]
      OBVIOUS
    <3>2. Shaped(r) /\ r.at = "done" /\ r.reply = j /\ Alike(r, Idle, Fields \ {"at", "keyed", "reply"})
      BY <1>5, <3>1 DEF Shaped, IsFcn, Fields, Alike
    <3>3. r.doc = NoDoc /\ r.name = <<>> /\ Alike(r, Idle, Fields \ {"at", "doc", "name", "keyed", "reply"})
      BY <1>5, <3>2 DEF Alike, Fields
    <3> QED BY <1>4, <1>5, <2>2, <3>1, <3>2, <3>3
  <2>3. CASE Set(c, [Idle EXCEPT !.at = "scan", !.doc = scenario.doc, !.name = scenario.name, !.keyed = scenario.keyed])
    <3>1. PICK r : r = [Idle EXCEPT !.at = "scan", !.doc = scenario.doc, !.name = scenario.name, !.keyed = scenario.keyed]
      OBVIOUS
    <3>2. /\ Shaped(r) /\ r.at = "scan" /\ r.doc = scenario.doc /\ r.name = scenario.name
          /\ Alike(r, Idle, Fields \ {"at", "doc", "name", "keyed"})
      BY <1>5, <3>1 DEF Shaped, IsFcn, Fields, Alike
    <3>3. r.reply = NoJob /\ Alike(r, Idle, Fields \ {"at", "doc", "name", "keyed", "reply"})
      BY <1>5, <3>2 DEF Alike, Fields
    <3>4. scenario.doc \in Documents(Shown) /\ scenario.name \in Seq(Shown)
      BY IntakeAssumption, ShownHas DEF EvidenceInv
    <3> QED BY <1>4, <2>3, <3>1, <3>2, <3>3, <3>4
  <2> QED BY <2>1, <2>2, <2>3
<1>7. CASE Rerun(c)
  <2>1. PICK j \in DOMAIN rows :
           \/ Set(c, [Idle EXCEPT !.at = "scan", !.doc = rows[j].doc, !.name = rows[j].name])
           \/ Set(c, [Idle EXCEPT !.at = "failed"])
    BY <1>7 DEF Rerun
  <2>2. CASE Set(c, [Idle EXCEPT !.at = "failed"])
    <3>1. PICK r : r = [Idle EXCEPT !.at = "failed"]
      OBVIOUS
    <3>2. Shaped(r) /\ r.at = "failed" /\ Alike(r, Idle, Fields \ {"at"})
      BY <1>5, <3>1 DEF Shaped, IsFcn, Fields, Alike
    <3>3. r.doc = NoDoc /\ r.name = <<>> /\ r.reply = NoJob /\ Alike(r, Idle, Fields \ {"at", "doc", "name", "keyed", "reply"})
      BY <1>5, <3>2 DEF Alike, Fields
    <3> QED BY <1>4, <1>5, <2>2, <3>1, <3>2, <3>3
  <2>3. CASE Set(c, [Idle EXCEPT !.at = "scan", !.doc = rows[j].doc, !.name = rows[j].name])
    <3>1. PICK r : r = [Idle EXCEPT !.at = "scan", !.doc = rows[j].doc, !.name = rows[j].name]
      OBVIOUS
    <3>2. /\ Shaped(r) /\ r.at = "scan" /\ r.doc = rows[j].doc /\ r.name = rows[j].name
          /\ Alike(r, Idle, Fields \ {"at", "doc", "name"})
      BY <1>5, <3>1 DEF Shaped, IsFcn, Fields, Alike
    <3>3. r.reply = NoJob /\ Alike(r, Idle, Fields \ {"at", "doc", "name", "keyed", "reply"})
      BY <1>5, <3>2 DEF Alike, Fields
    <3>4. rows[j].doc \in Documents(Shown) /\ rows[j].name \in Seq(Shown)
      BY DEF EvidenceInv, StoredAs
    <3> QED BY <1>4, <2>3, <3>1, <3>2, <3>3, <3>4
  <2> QED BY <2>1, <2>2, <2>3
<1> QED BY <1>6, <1>7

LEMMA EvaluateIs ==
  ASSUME NEW doc \in Documents(Shown), NEW source, NEW policy, policy.detectors \in Seq(Detector),
         NEW found, found = Evaluate(doc, source, policy)
  PROVE  Listed(found) /\ \A i \in DOMAIN found : Spliceable(found[i], Shown)
<1>1. Listed(found) /\ \A e : In(e, found) => OfDocument(e, doc)
  BY EvaluateFinds
<1>2. \A i \in DOMAIN found : In(found[i], found)
  BY DEF In
<1>3. ASSUME NEW i \in DOMAIN found PROVE Spliceable(found[i], Shown)
  BY <1>1, <1>2, OfDocumentSpliceable
<1> QED BY <1>1, <1>3

LEMMA EvidenceScan ==
  ASSUME EvidenceInv, StatusInv, NEW c \in Requests, ScanPayload(c)
  PROVE  EvidenceInv'
<1>1. req[c].at = "scan" /\ UNCHANGED <<scenario, rows, records, vault, troubles>>
  BY DEF ScanPayload, tables
<1>2. PICK policy \in scenario.policies :
         Set(c, [req[c] EXCEPT !.at = "record", !.policy = policy, !.raw = req[c].doc,
                               !.found = Evaluate(req[c].doc, "JOB_PAYLOAD", policy), !.next = 1,
                               !.scan = StatusOf(Evaluate(req[c].doc, "JOB_PAYLOAD", policy), policy)])
  BY DEF ScanPayload
<1>3. PICK q, found, status : q = req[c] /\ found = Evaluate(q.doc, "JOB_PAYLOAD", policy) /\ status = StatusOf(found, policy)
  OBVIOUS
<1>4. PICK r : r = [q EXCEPT !.at = "record", !.policy = policy, !.raw = q.doc, !.found = found, !.next = 1, !.scan = status]
  OBVIOUS
<1>5. Set(c, r)
  BY <1>2, <1>3, <1>4
<1>6. Shaped(q) /\ ReqTyped(q) /\ q.source = "JOB_PAYLOAD"
  BY <1>1, <1>3 DEF EvidenceInv, ReqTyped, StatusInv, Shape
<1>7. /\ r.at = "record" /\ r.policy = policy /\ r.found = found /\ r.next = 1 /\ r.scan = status
      /\ Alike(r, q, Fields \ {"at", "policy", "raw", "found", "next", "scan"})
  BY <1>4, <1>6 DEF Shaped, Fields, Alike
<1>8. policy.detectors \in Seq(Detector)
  BY IntakeAssumption DEF EvidenceInv
<1>9. Listed(found) /\ \A i \in DOMAIN found : Spliceable(found[i], Shown)
  <2>1. q.doc \in Documents(Shown)
    BY <1>6 DEF ReqTyped
  <2> QED BY <1>3, <1>8, <2>1, EvaluateIs
<1>10. status \in Statuses
  BY <1>3 DEF StatusOf, Statuses
<1>11. /\ r.source = q.source /\ r.doc = q.doc /\ r.name = q.name /\ r.reply = q.reply /\ r.named = q.named
       /\ r.lost = q.lost /\ r.blocked = q.blocked /\ r.hungUp = q.hungUp
  BY <1>7 DEF Alike, Fields
<1>12. ReqTyped(r)
  <2>1. Items(q)
    BY <1>6 DEF ReqTyped
  <2>2. Len(found) \in Nat /\ Len(q.named) \in Nat
    BY <1>9, <2>1, ListedHas DEF Items
  <2>3. Work(r) = found
    BY <1>6, <1>7, <1>11 DEF Work
  <2>4. Items(r)
    <3>1. Listed(r.found) /\ \A i \in DOMAIN r.found : Spliceable(r.found[i], Shown)
      BY <1>7, <1>9
    <3>2. Listed(r.named) /\ (\A i \in DOMAIN r.named : Spliceable(r.named[i], Shown)) /\ (r.source = "JOB_PAYLOAD" => r.named = <<>>)
      BY <1>11, <2>1 DEF Items
    <3>3. r.next <= 1 + Len(r.found) + Len(r.named) /\ r.next \in Nat /\ 1 <= r.next /\ r.next <= 1 + Len(Work(r))
      <4>1. PICK m \in Nat, n \in Nat : m = Len(r.found) /\ n = Len(r.named) /\ m = Len(Work(r)) /\ r.next = 1
        BY <1>7, <1>11, <2>2, <2>3
      <4>2. 1 <= 1 + m + n /\ 1 \in Nat /\ 1 <= 1 /\ 1 <= 1 + m
        OBVIOUS
      <4> QED BY ONLY <4>1, <4>2
    <3> QED BY <1>7, <3>1, <3>2, <3>3 DEF Items
  <2> QED BY <1>6, <1>7, <1>8, <1>10, <1>11, <2>4 DEF ReqTyped, Points
<1>13. Recorded(c, r, records)
  <2>1. Work(r) = found /\ \A i \in DOMAIN found : i \in Nat /\ 1 <= i
    BY <1>6, <1>7, <1>9, <1>11, ListedHas DEF Work
  <2>2. \A i \in DOMAIN Work(r) : ~Passed(r, i)
    BY <1>7, <2>1 DEF Passed
  <2> QED BY <1>6, <1>7, <1>11, <2>2 DEF Recorded
<1> QED BY <1>1, <1>3, <1>5, <1>7, <1>11, <1>12, <1>13, EvidenceQuiet DEF EvidenceInv

LEMMA ItemsMove ==
  ASSUME NEW q, NEW r, Items(q), r.found = q.found, r.named = q.named, r.source = q.source,
         r.next = q.next \/ (r.next = q.next + 1 /\ q.next <= Len(Work(q))),
         r.at = "record" => r.next <= 1 + Len(Work(q)), r.at = "vault" => r.next <= Len(Work(q))
  PROVE  Items(r)
<1>1. Work(r) = Work(q)
  BY DEF Work
<1>2. PICK l \in Nat, m \in Nat, n \in Nat : l = Len(r.found) /\ m = Len(r.named) /\ n = Len(Work(q)) /\ n <= l + m
  <2>1. Len(q.found) \in Nat /\ Len(q.named) \in Nat
    BY ListedHas DEF Items
  <2> QED BY <2>1 DEF Work
<1>3. r.next \in Nat /\ 1 <= r.next /\ r.next <= 1 + Len(r.found) + Len(r.named)
  <2>1. PICK k \in Nat : k = q.next /\ 1 <= k /\ k <= 1 + l + m
    BY <1>2 DEF Items
  <2>2. PICK x \in Nat : x = r.next /\ (x = k \/ (x = k + 1 /\ k <= n))
    BY <1>2, <2>1
  <2>3. 1 <= x /\ x <= 1 + l + m
    <3>1. CASE x = k
      BY ONLY <2>1, <3>1
    <3>2. CASE x = k + 1 /\ k <= n
      <4>1. n <= l + m /\ l \in Nat /\ m \in Nat /\ n \in Nat /\ k \in Nat
        BY ONLY <1>2, <2>1
      <4> QED BY ONLY <3>2, <4>1
    <3> QED BY <2>2, <3>1, <3>2
  <2> QED BY <1>2, <2>2, <2>3
<1>4. Listed(r.found) /\ \A i \in DOMAIN r.found : Spliceable(r.found[i], Shown)
  BY DEF Items
<1>5. Listed(r.named) /\ (\A i \in DOMAIN r.named : Spliceable(r.named[i], Shown)) /\ (r.source = "JOB_PAYLOAD" => r.named = <<>>)
  BY DEF Items
<1> QED BY <1>1, <1>3, <1>4, <1>5 DEF Items

(* What a request works on has places from one. *)
LEMMA WorkPlaces ==
  ASSUME NEW q, Items(q)
  PROVE  Len(Work(q)) \in Nat /\ DOMAIN Work(q) = 1 .. Len(Work(q)) /\ q.next \in Nat /\ 1 <= q.next
<1>1. Listed(q.found) /\ Listed(q.named) /\ q.next \in Nat /\ 1 <= q.next
  BY DEF Items
<1>2. Listed(Work(q))
  BY <1>1 DEF Work
<1> QED BY <1>1, <1>2, ListedHas

LEMMA EvidenceRecord ==
  ASSUME EvidenceInv, StatusInv, NEW c \in Requests, RecordFinding(c)
  PROVE  EvidenceInv'
<1>1. req[c].at = "record" /\ req[c].next <= Len(Todo(c)) /\ UNCHANGED <<scenario, rows, vault>>
  BY DEF RecordFinding
<1>2. PICK q, f, counts, e :
         q = req[c] /\ f = Work(q)[q.next] /\ counts = Counted(q.counts, f.type) /\ e = Evidence(c, counts)
  OBVIOUS
<1>3. Todo(c) = Work(q) /\ Item(c) = f
  BY <1>2 DEF Todo, Item, Work
<1>4. e = [job |-> c, source |-> q.source, type |-> f.type, index |-> counts[f.type], finding |-> f]
  BY <1>2, <1>3 DEF Evidence
<1>5. PICK ok \in BOOLEAN :
         /\ Statement(c, ok)
         /\ records' = IF ok THEN records \cup {e} ELSE records
         /\ Set(c, [q EXCEPT !.counts = counts, !.lost = @ \/ ~ok, !.blocked = @ \/ f.rule.action = "BLOCK",
                             !.at = IF f.rule.action = "BLOCK" THEN "record" ELSE "vault",
                             !.next = IF f.rule.action = "BLOCK" THEN @ + 1 ELSE @])
  BY <1>2, <1>3 DEF RecordFinding
<1>6. PICK r : r = [q EXCEPT !.counts = counts, !.lost = @ \/ ~ok, !.blocked = @ \/ f.rule.action = "BLOCK",
                             !.at = IF f.rule.action = "BLOCK" THEN "record" ELSE "vault",
                             !.next = IF f.rule.action = "BLOCK" THEN @ + 1 ELSE @]
  OBVIOUS
<1>7. Shaped(q) /\ ReqTyped(q) /\ Items(q) /\ Recorded(c, q, records) /\ Owing(c, q, records, vault, troubles)
  BY <1>2 DEF EvidenceInv, StatusInv, Shape, ReqTyped
<1>8. /\ r.counts = counts /\ r.lost = (q.lost \/ ~ok) /\ r.blocked = (q.blocked \/ f.rule.action = "BLOCK")
      /\ r.at = (IF f.rule.action = "BLOCK" THEN "record" ELSE "vault")
      /\ r.next = (IF f.rule.action = "BLOCK" THEN q.next + 1 ELSE q.next)
      /\ Alike(r, q, Fields \ {"counts", "lost", "blocked", "at", "next"})
  BY <1>6, <1>7 DEF Shaped, Fields, Alike
<1>9. /\ r.source = q.source /\ r.doc = q.doc /\ r.name = q.name /\ r.reply = q.reply /\ r.found = q.found /\ r.named = q.named
      /\ r.policy = q.policy /\ r.scan = q.scan /\ r.hungUp = q.hungUp
  BY <1>8 DEF Alike, Fields
<1>10. /\ troubles' \in 0 .. MaxTroubles /\ troubles <= troubles' /\ troubles \in Nat /\ troubles' \in Nat
       /\ IsFiniteSet(records) /\ IsFiniteSet(vault)
  <2>1. troubles \in 0 .. MaxTroubles /\ IsFiniteSet(records) /\ IsFiniteSet(vault)
    BY DEF EvidenceInv
  <2>2. troubles' \in 0 .. MaxTroubles /\ troubles <= troubles'
    BY <1>5, <2>1, TroublesDo
  <2> QED BY <2>1, <2>2
<1>11. IsFiniteSet(records') /\ records \subseteq records' /\ \A x \in records' : x \in records \/ x = e
  BY <1>5, <1>10, FS_AddElement
<1>12. e.job = c /\ e.source = q.source /\ e.finding = f
  BY <1>4
<1>13. /\ Len(Work(q)) \in Nat /\ DOMAIN Work(q) = 1 .. Len(Work(q)) /\ q.next \in Nat /\ 1 <= q.next
       /\ q.next <= Len(Work(q)) /\ Work(r) = Work(q)
  BY <1>1, <1>2, <1>3, <1>7, <1>9, WorkPlaces DEF Work
<1>14. ReqTyped(r)
  <2>1. r.next = q.next \/ (r.next = q.next + 1 /\ q.next <= Len(Work(q)))
    BY <1>8, <1>13
  <2>2. (r.at = "record" => r.next <= 1 + Len(Work(q))) /\ (r.at = "vault" => r.next <= Len(Work(q)))
    BY <1>8, <1>13
  <2>3. Items(r)
    BY <1>7, <1>9, <2>1, <2>2, ItemsMove
  <2> QED BY <1>7, <1>8, <1>9, <2>3 DEF ReqTyped, Points
<1>15. \A i \in DOMAIN Work(q) : Passed(r, i) => Passed(q, i) \/ i = q.next
  BY <1>8, <1>13 DEF Passed
<1>16. Recorded(c, r, records')
  <2>1. Recorded(c, q, records')
    BY <1>7, <1>11, RecordedGrows
  <2>2. ASSUME ~r.lost, NEW i \in DOMAIN Work(q), Passed(r, i) PROVE OnRecord(c, q.source, Work(q)[i], records')
    <3>1. ~q.lost /\ records' = records \cup {e}
      BY <1>5, <1>8, <2>2
    <3>2. CASE Passed(q, i)
      BY <1>1, <1>2, <2>1, <3>1, <3>2 DEF Recorded
    <3>3. CASE i = q.next
      BY <1>2, <1>12, <3>1, <3>3 DEF OnRecord
    <3> QED BY <1>15, <2>2, <3>2, <3>3
  <2>3. r.at \in {"record", "vault"} /\ q.at = "record" /\ (~r.blocked => ~q.blocked)
    BY <1>1, <1>2, <1>8
  <2>4. ASSUME ~r.blocked, r.source = "JOB_METADATA", NEW i \in DOMAIN r.found
        PROVE  OnRecord(c, "JOB_PAYLOAD", r.found[i], records')
    BY <1>9, <2>1, <2>3, <2>4 DEF Recorded
  <2> QED BY <1>9, <1>13, <2>2, <2>3, <2>4 DEF Recorded
<1>17. Owing(c, r, records', vault', troubles')
  <2> SUFFICES ASSUME r.at # "failed", ~r.blocked, ~r.hungUp
               PROVE  Cardinality(Unvaulted(c, records', vault') \ Pending(c, r)) <= troubles'
    BY DEF Owing
  <2>1. f.rule.action # "BLOCK" /\ ~q.blocked /\ ~q.hungUp /\ q.at = "record" /\ r.at = "vault" /\ r.next = q.next
    BY <1>1, <1>2, <1>8, <1>9
  <2>2. Pending(c, r) = {e} /\ Pending(c, q) = {}
    BY <1>2, <1>4, <1>8, <1>9, <1>13, <2>1 DEF Pending, EvidenceOf
  <2>3. PICK S, R : S = Unvaulted(c, records, vault) /\ R = Unvaulted(c, records', vault') \ {e}
    OBVIOUS
  <2>4. R \subseteq S /\ S \subseteq records
    BY <1>1, <1>11, <2>3 DEF Unvaulted
  <2>5. Cardinality(S) <= troubles /\ IsFiniteSet(S)
    <3>1. Cardinality(Unvaulted(c, records, vault) \ {}) <= troubles
      BY <1>7, <2>1, <2>2 DEF Owing
    <3>2. Unvaulted(c, records, vault) \ {} = S
      BY <2>3
    <3>3. IsFiniteSet(S)
      BY <1>10, <2>4, FS_Subset
    <3> QED BY <3>1, <3>2, <3>3
  <2>6. Cardinality(R) <= troubles
    BY ONLY <2>4, <2>5, <1>10, FewerOf
  <2>7. Cardinality(R) \in Nat
    BY <2>4, <2>5, FS_Subset, FS_CardinalityType
  <2> QED BY <1>10, <2>2, <2>3, <2>6, <2>7
<1>18. \A x \in records' : x \in records \/ x.job = c
  BY <1>11, <1>12
<1>19. Set(c, r) /\ req[c].at # "done" /\ IsFiniteSet(vault') /\ vault \subseteq vault'
  BY <1>1, <1>5, <1>6, <1>10
<1> QED BY <1>1, <1>10, <1>11, <1>14, <1>16, <1>17, <1>18, <1>19, EvidenceMoves

LEMMA EvidenceSave ==
  ASSUME EvidenceInv, StatusInv, NEW c \in Requests, SaveToVault(c)
  PROVE  EvidenceInv'
<1>1. req[c].at = "vault" /\ UNCHANGED <<scenario, rows, records>>
  BY DEF SaveToVault
<1>2. PICK q, e : q = req[c] /\ e = EvidenceOf(c, q)
  OBVIOUS
<1>3. Evidence(c, req[c].counts) = e
  BY <1>2 DEF Evidence, EvidenceOf, Item, Todo, Work
<1>4. PICK encrypted \in BOOLEAN, ok \in BOOLEAN :
         /\ IF encrypted THEN Statement(c, ok) ELSE Db(FALSE)
         /\ vault' = IF encrypted /\ ok THEN vault \cup {e} ELSE vault
         /\ Set(c, [q EXCEPT !.at = "record", !.next = @ + 1, !.lost = @ \/ ~ok])
  BY <1>2, <1>3 DEF SaveToVault
<1>5. PICK r : r = [q EXCEPT !.at = "record", !.next = @ + 1, !.lost = @ \/ ~ok]
  OBVIOUS
<1>6. Shaped(q) /\ ReqTyped(q) /\ Items(q) /\ Recorded(c, q, records) /\ Owing(c, q, records, vault, troubles)
  BY <1>2 DEF EvidenceInv, StatusInv, Shape, ReqTyped
<1>7. r.at = "record" /\ r.next = q.next + 1 /\ r.lost = (q.lost \/ ~ok) /\ Alike(r, q, Fields \ {"at", "next", "lost"})
  BY <1>5, <1>6 DEF Shaped, Fields, Alike
<1>8. /\ r.source = q.source /\ r.doc = q.doc /\ r.name = q.name /\ r.reply = q.reply /\ r.found = q.found /\ r.named = q.named
      /\ r.policy = q.policy /\ r.scan = q.scan /\ r.hungUp = q.hungUp /\ r.blocked = q.blocked
  BY <1>7 DEF Alike, Fields
<1>9. troubles \in Nat /\ IsFiniteSet(records) /\ IsFiniteSet(vault) /\ troubles \in 0 .. MaxTroubles
  BY DEF EvidenceInv
<1>10. troubles' \in 0 .. MaxTroubles /\ troubles <= troubles' /\ troubles' \in Nat
  <2>1. Db(FALSE) \/ Statement(c, ok)
    BY <1>4
  <2>2. troubles' \in 0 .. MaxTroubles /\ troubles <= troubles'
    <3>1. CASE Statement(c, ok)
      BY <1>9, <3>1, TroublesDo
    <3>2. CASE Db(FALSE)
      BY <1>9, <3>2, TroublesDo
    <3> QED BY <2>1, <3>1, <3>2
  <2> QED BY <2>2
<1>11. IsFiniteSet(vault') /\ vault \subseteq vault'
  BY <1>4, <1>9, FS_AddElement
<1>12. /\ Len(Work(q)) \in Nat /\ DOMAIN Work(q) = 1 .. Len(Work(q)) /\ q.next \in Nat /\ 1 <= q.next
       /\ q.next <= Len(Work(q)) /\ Work(r) = Work(q)
  <2>1. q.next <= Len(Work(q))
    BY <1>1, <1>2, <1>6 DEF Items
  <2> QED BY <1>6, <1>8, <2>1, WorkPlaces DEF Work
<1>13. ReqTyped(r)
  <2>1. r.next = q.next + 1 /\ q.next <= Len(Work(q)) /\ r.next <= 1 + Len(Work(q))
    BY <1>7, <1>12
  <2>2. Items(r)
    BY <1>6, <1>7, <1>8, <2>1, ItemsMove
  <2> QED BY <1>6, <1>7, <1>8, <2>2 DEF ReqTyped, Points
<1>14. Recorded(c, r, records)
  <2>1. \A i \in DOMAIN Work(q) : Passed(r, i) => Passed(q, i)
    BY <1>1, <1>2, <1>7, <1>12 DEF Passed
  <2>2. (~r.lost => ~q.lost) /\ q.at = "vault"
    BY <1>1, <1>2, <1>7
  <2>3. ASSUME ~r.lost, NEW i \in DOMAIN Work(q), Passed(r, i) PROVE OnRecord(c, q.source, Work(q)[i], records)
    BY <1>6, <2>1, <2>2, <2>3 DEF Recorded
  <2>4. ASSUME ~r.blocked, r.source = "JOB_METADATA", NEW i \in DOMAIN r.found
        PROVE  OnRecord(c, "JOB_PAYLOAD", r.found[i], records)
    BY <1>6, <1>8, <2>4 DEF Recorded
  <2> QED BY <1>7, <1>8, <1>12, <2>3, <2>4 DEF Recorded
<1>15. Owing(c, r, records, vault', troubles')
  <2> SUFFICES ASSUME r.at # "failed", ~r.blocked, ~r.hungUp
               PROVE  Cardinality(Unvaulted(c, records, vault') \ Pending(c, r)) <= troubles'
    BY DEF Owing
  <2>1. ~q.blocked /\ ~q.hungUp /\ q.at = "vault"
    BY <1>1, <1>2, <1>8
  <2>2. Pending(c, r) = {} /\ Pending(c, q) = {e}
    BY <1>2, <1>7, <2>1 DEF Pending
  <2>3. PICK S : S = Unvaulted(c, records, vault)
    OBVIOUS
  <2>4. IsFiniteSet(S) /\ IsFiniteSet(S \ {e})
    <3>1. S \subseteq records /\ S \ {e} \subseteq S
      BY <2>3 DEF Unvaulted
    <3>2. IsFiniteSet(S)
      BY <1>9, <3>1, FS_Subset
    <3> QED BY <3>1, <3>2, FS_Subset
  <2>5. Cardinality(S \ {e}) <= troubles
    BY <1>6, <2>1, <2>2, <2>3 DEF Owing
  <2>6. CASE encrypted /\ ok
    <3>1. Unvaulted(c, records, vault') \ {} = S \ {e}
      BY <1>4, <2>3, <2>6 DEF Unvaulted
    <3>2. Cardinality(S \ {e}) \in Nat
      BY <2>4, FS_CardinalityType
    <3> QED BY <1>9, <1>10, <2>2, <2>5, <3>1, <3>2
  <2>7. CASE ~(encrypted /\ ok)
    <3>1. Db(FALSE)
      <4>1. CASE ~encrypted
        BY <1>4, <4>1
      <4>2. CASE encrypted /\ ~ok
        <5>1. Statement(c, FALSE)
          BY <1>4, <4>2
        <5> QED BY <1>2, <2>1, <5>1 DEF Statement
      <4> QED BY <2>7, <4>1, <4>2
    <3>2. troubles' = troubles + 1
      BY <1>9, <3>1, TroublesDo
    <3>3. Unvaulted(c, records, vault') \ {} = S
      BY <1>4, <2>3, <2>7 DEF Unvaulted
    <3>4. Cardinality(S) \in Nat /\ Cardinality(S \ {e}) \in Nat /\ Cardinality(S) <= Cardinality(S \ {e}) + 1
      <4>1. Cardinality(S) \in Nat /\ Cardinality(S \ {e}) \in Nat
        BY <2>4, FS_CardinalityType
      <4>2. Cardinality(S \ {e}) = IF e \in S THEN Cardinality(S) - 1 ELSE Cardinality(S)
        BY <2>4, FS_RemoveElement
      <4> QED BY <4>1, <4>2
    <3> QED BY <1>9, <1>10, <2>2, <2>5, <3>2, <3>3, <3>4
  <2> QED BY <2>6, <2>7
<1>16. records' = records /\ IsFiniteSet(records')
  BY <1>1, <1>9
<1>17. Set(c, r) /\ req[c].at # "done"
  BY <1>1, <1>4, <1>5
<1> QED BY <1>1, <1>10, <1>11, <1>13, <1>14, <1>15, <1>16, <1>17, EvidenceMoves

LEMMA EvidenceRewrite ==
  ASSUME EvidenceInv, StatusInv, NEW c \in Requests, RewritePayload(c)
  PROVE  EvidenceInv'
<1>1. /\ req[c].at = "record" /\ req[c].next > Len(Todo(c)) /\ req[c].source = "JOB_PAYLOAD"
      /\ UNCHANGED <<scenario, rows, records, vault, troubles>>
  BY DEF RewritePayload, tables
<1>2. PICK q, doc, safe, wrong :
         /\ q = req[c] /\ doc = RewriteDocument(q.doc, q.found) /\ safe = AllApplied(q.doc, q.found)
         /\ wrong = (q.lost \/ ~safe)
  OBVIOUS
<1>3. PICK r : r = IF Panicked(doc) THEN [q EXCEPT !.at = "failed"]
                   ELSE [q EXCEPT !.at = "name", !.doc = IF safe THEN doc ELSE Withheld, !.lost = FALSE,
                                  !.blocked = @ \/ wrong, !.scan = IF wrong THEN "SCAN_ERROR" ELSE @]
  OBVIOUS
<1>4. Set(c, r)
  BY <1>2, <1>3 DEF RewritePayload, EvidenceBlocks
<1>5. Shaped(q) /\ ReqTyped(q) /\ Items(q) /\ Recorded(c, q, records)
  BY <1>2 DEF EvidenceInv, StatusInv, Shape, ReqTyped
<1>6. q.at = "record" /\ q.source = "JOB_PAYLOAD" /\ Work(q) = q.found /\ q.next > Len(q.found)
  BY <1>1, <1>2 DEF Todo, Work
<1>7. troubles \in 0 .. MaxTroubles /\ troubles \in Nat
  BY DEF EvidenceInv
<1>8. CASE Panicked(doc)
  <2>1. r.at = "failed" /\ Alike(r, q, Fields \ {"at"})
    BY <1>3, <1>5, <1>8 DEF Shaped, Fields, Alike
  <2>2. /\ r.source = q.source /\ r.doc = q.doc /\ r.name = q.name /\ r.reply = q.reply /\ r.found = q.found /\ r.named = q.named
        /\ r.policy = q.policy /\ r.scan = q.scan /\ r.hungUp = q.hungUp /\ r.blocked = q.blocked /\ r.next = q.next
    BY <2>1 DEF Alike, Fields
  <2>3. Items(r)
    BY <1>5, <2>1, <2>2, ItemsMove
  <2>4. ReqTyped(r)
    BY <1>5, <2>1, <2>2, <2>3 DEF ReqTyped, Points
  <2>5. Recorded(c, r, records)
    BY <1>6, <2>1, <2>2 DEF Recorded
  <2> QED BY <1>1, <1>2, <1>4, <1>7, <2>1, <2>4, <2>5, EvidenceQuiet
<1>9. CASE ~Panicked(doc)
  <2>1. /\ r.at = "name" /\ r.doc = (IF safe THEN doc ELSE Withheld) /\ r.blocked = (q.blocked \/ wrong)
        /\ r.scan = (IF wrong THEN "SCAN_ERROR" ELSE q.scan)
        /\ Alike(r, q, Fields \ {"at", "doc", "lost", "blocked", "scan"})
    BY <1>3, <1>5, <1>9 DEF Shaped, Fields, Alike
  <2>2. /\ r.source = q.source /\ r.name = q.name /\ r.reply = q.reply /\ r.found = q.found /\ r.named = q.named
        /\ r.policy = q.policy /\ r.hungUp = q.hungUp /\ r.next = q.next
    BY <2>1 DEF Alike, Fields
  <2>3. Items(r)
    BY <1>5, <2>1, <2>2, ItemsMove
  <2>4. r.doc \in Documents(Shown)
    <3>1. Star \in Shown /\ q.doc \in Documents(Shown) /\ Listed(q.found) /\ \A i \in DOMAIN q.found : Spliceable(q.found[i], Shown)
      BY <1>5, ShownHas DEF ReqTyped, Items
    <3>2. doc \in Documents(Shown)
      BY <1>2, <1>9, <3>1, RewriteTyped
    <3> QED BY <2>1, <3>2, ShownHas
  <2>5. ReqTyped(r)
    BY <1>5, <1>6, <2>1, <2>2, <2>3, <2>4 DEF ReqTyped, Points, Statuses
  <2>6. Recorded(c, r, records)
    <3>1. ASSUME ~r.blocked, NEW i \in DOMAIN r.found PROVE OnRecord(c, "JOB_PAYLOAD", r.found[i], records)
      <4>1. ~q.lost /\ q.next \in Nat /\ Len(q.found) \in Nat /\ DOMAIN q.found = 1 .. Len(q.found)
        BY <1>2, <1>5, <1>6, <2>1, <3>1, WorkPlaces
      <4>2. i \in DOMAIN Work(q) /\ i < q.next /\ r.found[i] = Work(q)[i]
        BY <1>6, <2>2, <3>1, <4>1
      <4> QED BY <1>5, <1>6, <4>1, <4>2 DEF Recorded, Passed
    <3> QED BY <1>6, <2>1, <2>2, <3>1 DEF Recorded
  <2>7. ~r.blocked => ~q.blocked
    BY <2>1
  <2> QED BY <1>1, <1>2, <1>4, <1>6, <1>7, <2>1, <2>2, <2>5, <2>6, <2>7, EvidenceQuiet
<1> QED BY <1>8, <1>9

LEMMA EvidenceName ==
  ASSUME EvidenceInv, StatusInv, NEW c \in Requests, ScanName(c)
  PROVE  EvidenceInv'
<1>1. req[c].at = "name" /\ UNCHANGED <<scenario, rows, records, vault, troubles>>
  BY DEF ScanName, tables
<1>2. PICK q, named : q = req[c] /\ named = Evaluate(NameDoc(q.name), "JOB_METADATA", q.policy)
  OBVIOUS
<1>3. PICK r : r = IF q.name = <<>> THEN [q EXCEPT !.at = "insert"]
                   ELSE [q EXCEPT !.at = "record", !.source = "JOB_METADATA", !.rawName = q.name, !.named = named,
                                  !.next = 1, !.counts = Continued(@)]
  OBVIOUS
<1>4. Set(c, r)
  BY <1>2, <1>3 DEF ScanName
<1>5. Shaped(q) /\ ReqTyped(q) /\ Items(q) /\ Recorded(c, q, records) /\ q.at = "name" /\ q.source = "JOB_PAYLOAD"
  BY <1>1, <1>2 DEF EvidenceInv, StatusInv, Shape, ReqTyped
<1>6. troubles \in 0 .. MaxTroubles /\ troubles \in Nat
  BY DEF EvidenceInv
<1>7. CASE q.name = <<>>
  <2>1. r.at = "insert" /\ Alike(r, q, Fields \ {"at"})
    BY <1>3, <1>5, <1>7 DEF Shaped, Fields, Alike
  <2>2. /\ r.source = q.source /\ r.doc = q.doc /\ r.name = q.name /\ r.reply = q.reply /\ r.found = q.found /\ r.named = q.named
        /\ r.policy = q.policy /\ r.scan = q.scan /\ r.hungUp = q.hungUp /\ r.blocked = q.blocked /\ r.next = q.next
    BY <2>1 DEF Alike, Fields
  <2>3. Items(r)
    BY <1>5, <2>1, <2>2, ItemsMove
  <2>4. ReqTyped(r)
    BY <1>5, <2>1, <2>2, <2>3 DEF ReqTyped, Points
  <2>5. Recorded(c, r, records)
    <3>1. r.named = <<>> /\ DOMAIN r.named = {}
      BY <1>5, <2>2 DEF Items
    <3>2. r.at = "insert" /\ ~(r.at \in {"record", "vault"})
      BY <2>1
    <3> QED BY <1>5, <2>2, <3>1, <3>2 DEF Recorded
  <2> QED BY <1>1, <1>2, <1>4, <1>5, <1>6, <2>1, <2>2, <2>4, <2>5, EvidenceQuiet
<1>8. CASE q.name # <<>>
  <2>1. /\ r.at = "record" /\ r.source = "JOB_METADATA" /\ r.named = named /\ r.next = 1
        /\ Alike(r, q, Fields \ {"at", "source", "rawName", "named", "next", "counts"})
    BY <1>3, <1>5, <1>8 DEF Shaped, Fields, Alike
  <2>2. /\ r.doc = q.doc /\ r.name = q.name /\ r.reply = q.reply /\ r.found = q.found
        /\ r.policy = q.policy /\ r.scan = q.scan /\ r.hungUp = q.hungUp /\ r.blocked = q.blocked
    BY <2>1 DEF Alike, Fields
  <2>3. Listed(named) /\ \A i \in DOMAIN named : Spliceable(named[i], Shown)
    <3>1. NameDoc(q.name) \in Documents(Shown) /\ q.policy.detectors \in Seq(Detector)
      BY <1>5, ShownHas DEF ReqTyped
    <3> QED BY <1>2, <3>1, EvaluateIs
  <2>4. Items(r)
    <3>1. Listed(r.found) /\ \A i \in DOMAIN r.found : Spliceable(r.found[i], Shown)
      BY <1>5, <2>2 DEF Items
    <3>2. Listed(r.named) /\ \A i \in DOMAIN r.named : Spliceable(r.named[i], Shown)
      BY <2>1, <2>3
    <3>3. Work(r) = named
      BY <2>1 DEF Work
    <3>4. PICK m \in Nat, n \in Nat : m = Len(r.found) /\ n = Len(r.named) /\ n = Len(Work(r)) /\ r.next = 1
      BY <2>1, <3>1, <3>2, <3>3, ListedHas
    <3>5. 1 <= 1 + m + n /\ 1 \in Nat /\ 1 <= 1 /\ 1 <= 1 + n
      OBVIOUS
    <3>6. r.next \in Nat /\ 1 <= r.next /\ r.next <= 1 + Len(r.found) + Len(r.named) /\ r.next <= 1 + Len(Work(r))
      BY ONLY <3>4, <3>5
    <3> QED BY <2>1, <3>1, <3>2, <3>6 DEF Items
  <2>5. ReqTyped(r)
    BY <1>5, <2>1, <2>2, <2>4 DEF ReqTyped, Points
  <2>6. Recorded(c, r, records)
    <3>1. Work(r) = named /\ \A i \in DOMAIN named : i \in Nat /\ 1 <= i
      BY <2>1, <2>3, ListedHas DEF Work
    <3>2. \A i \in DOMAIN Work(r) : ~Passed(r, i)
      BY <2>1, <3>1 DEF Passed
    <3>3. ASSUME ~r.blocked, NEW i \in DOMAIN r.found PROVE OnRecord(c, "JOB_PAYLOAD", r.found[i], records)
      BY <1>5, <2>2, <3>3 DEF Recorded
    <3> QED BY <2>1, <3>2, <3>3 DEF Recorded
  <2> QED BY <1>1, <1>2, <1>4, <1>5, <1>6, <2>1, <2>2, <2>5, <2>6, EvidenceQuiet
<1> QED BY <1>7, <1>8

LEMMA EvidenceRewriteName ==
  ASSUME EvidenceInv, StatusInv, NEW c \in Requests, RewriteName(c)
  PROVE  EvidenceInv'
<1>1. /\ req[c].at = "record" /\ req[c].next > Len(Todo(c)) /\ req[c].source = "JOB_METADATA"
      /\ UNCHANGED <<scenario, rows, records, vault, troubles>>
  BY DEF RewriteName, tables
<1>2. PICK q, name, wrong, status :
         /\ q = req[c] /\ name = ApplyTransformations(q.name, q.named) /\ wrong = (q.lost /\ name # Panic)
         /\ status = IF wrong \/ name = Panic THEN "SCAN_ERROR" ELSE StatusOf(q.named, q.policy)
  OBVIOUS
<1>3. PICK r : r = [q EXCEPT !.at = "insert", !.name = IF name = Panic THEN NameWithheld ELSE name,
                             !.blocked = @ \/ wrong, !.scan = mergeScanStatus(@, status)]
  OBVIOUS
<1>4. Set(c, r)
  BY <1>2, <1>3 DEF RewriteName, EvidenceBlocks
<1>5. Shaped(q) /\ ReqTyped(q) /\ Items(q) /\ Recorded(c, q, records) /\ q.scan \in {"CLEAN", "DETECTED", "SCAN_ERROR"}
  BY <1>1, <1>2 DEF EvidenceInv, StatusInv, Shape, ReqTyped, Tells
<1>6. q.at = "record" /\ q.source = "JOB_METADATA" /\ Work(q) = q.named /\ q.next > Len(q.named)
  BY <1>1, <1>2 DEF Todo, Work
<1>7. troubles \in 0 .. MaxTroubles /\ troubles \in Nat
  BY DEF EvidenceInv
<1>8. /\ r.at = "insert" /\ r.name = (IF name = Panic THEN NameWithheld ELSE name) /\ r.blocked = (q.blocked \/ wrong)
      /\ r.scan = mergeScanStatus(q.scan, status) /\ Alike(r, q, Fields \ {"at", "name", "blocked", "scan"})
  BY <1>3, <1>5 DEF Shaped, Fields, Alike
<1>9. /\ r.source = q.source /\ r.doc = q.doc /\ r.reply = q.reply /\ r.found = q.found /\ r.named = q.named
      /\ r.policy = q.policy /\ r.hungUp = q.hungUp /\ r.next = q.next
  BY <1>8 DEF Alike, Fields
<1>10. Items(r)
  BY <1>5, <1>8, <1>9, ItemsMove
<1>11. r.name \in Seq(Shown)
  <2>1. Star \in Shown /\ q.name \in Seq(Shown) /\ Listed(q.named) /\ \A i \in DOMAIN q.named : Spliceable(q.named[i], Shown)
    BY <1>5, ShownHas DEF ReqTyped, Items
  <2>2. name \in Seq(Shown) \cup {Panic}
    BY <1>2, <2>1, ApplyTyped
  <2> QED BY <1>8, <2>2, ShownHas
<1>12. r.scan \in Statuses
  <2>1. status \in {"CLEAN", "DETECTED", "SCAN_ERROR"}
    BY <1>2, StatusOfTells
  <2>2. mergeScanStatus(q.scan, status) \in {q.scan, status}
    BY <1>5, <2>1, MergeTells
  <2> QED BY <1>5, <1>8, <2>1, <2>2 DEF Statuses
<1>13. ReqTyped(r)
  BY <1>5, <1>6, <1>8, <1>9, <1>10, <1>11, <1>12 DEF ReqTyped, Points
<1>14. Recorded(c, r, records)
  <2>1. ASSUME ~r.blocked, NEW i \in DOMAIN r.found PROVE OnRecord(c, "JOB_PAYLOAD", r.found[i], records)
    BY <1>5, <1>6, <1>8, <1>9, <2>1 DEF Recorded
  <2>2. ASSUME ~r.blocked, r.name # NameWithheld, NEW i \in DOMAIN r.named PROVE OnRecord(c, "JOB_METADATA", r.named[i], records)
    <3>1. ~q.lost /\ q.next \in Nat /\ Len(q.named) \in Nat /\ DOMAIN q.named = 1 .. Len(q.named)
      BY <1>2, <1>5, <1>6, <1>8, <2>2, WorkPlaces
    <3>2. i \in DOMAIN Work(q) /\ i < q.next /\ r.named[i] = Work(q)[i]
      BY <1>6, <1>9, <2>2, <3>1
    <3> QED BY <1>5, <1>6, <3>1, <3>2 DEF Recorded, Passed
  <2> QED BY <1>8, <2>1, <2>2 DEF Recorded
<1>15. ~r.blocked => ~q.blocked
  BY <1>8
<1> QED BY <1>1, <1>2, <1>4, <1>6, <1>7, <1>8, <1>9, <1>13, <1>14, <1>15, EvidenceQuiet

LEMMA EvidenceInsert ==
  ASSUME EvidenceInv, StatusInv, NEW c \in Requests, Insert(c)
  PROVE  EvidenceInv'
<1>1. req[c].at = "insert" /\ UNCHANGED <<scenario, records, vault>>
  BY DEF Insert
<1>2. PICK ok \in BOOLEAN :
         Statement(c, ok) /\ rows' = IF ok /\ KeyIsFree(c) THEN With(rows, c, Row(c)) ELSE rows
  BY DEF Insert
<1>3. PICK q, row : q = req[c] /\ row = Row(c)
  OBVIOUS
<1>4. PICK r : r = [q EXCEPT !.at = "done", !.reply = c]
  OBVIOUS
<1>5. Set(c, r)
  BY <1>3, <1>4 DEF Insert
<1>6. /\ Shaped(q) /\ ReqTyped(q) /\ Items(q) /\ Recorded(c, q, records) /\ Owing(c, q, records, vault, troubles)
      /\ q.at = "insert" /\ q.scan \in {"CLEAN", "DETECTED", "SCAN_ERROR"}
  BY <1>1, <1>3 DEF EvidenceInv, StatusInv, Shape, ReqTyped, Tells
<1>7. r.at = "done" /\ r.reply = c /\ Alike(r, q, Fields \ {"at", "reply"})
  BY <1>4, <1>6 DEF Shaped, Fields, Alike
<1>8. /\ r.source = q.source /\ r.doc = q.doc /\ r.name = q.name /\ r.found = q.found /\ r.named = q.named
      /\ r.policy = q.policy /\ r.scan = q.scan /\ r.hungUp = q.hungUp /\ r.blocked = q.blocked /\ r.next = q.next
  BY <1>7 DEF Alike, Fields
<1>9. troubles' \in 0 .. MaxTroubles /\ troubles <= troubles' /\ troubles \in Nat /\ troubles' \in Nat /\ IsFiniteSet(records) /\ IsFiniteSet(vault)
  <2>1. troubles \in 0 .. MaxTroubles /\ IsFiniteSet(records) /\ IsFiniteSet(vault)
    BY DEF EvidenceInv
  <2>2. troubles' \in 0 .. MaxTroubles /\ troubles <= troubles'
    BY <1>2, <2>1, TroublesDo
  <2> QED BY <2>1, <2>2
<1>10. ReqTyped(r)
  <2>1. Items(r)
    BY <1>6, <1>7, <1>8, ItemsMove
  <2> QED BY <1>6, <1>7, <1>8, <2>1 DEF ReqTyped, Points
<1>11. Recorded(c, r, records)
  BY <1>6, <1>7, <1>8 DEF Recorded
<1>12. PICK t2 : t2 = troubles'
  OBVIOUS
<1>13. Owing(c, r, records, vault, t2)
  BY <1>6, <1>7, <1>8, <1>9, <1>12, OwingStays
<1>14. req'[c] = r /\ Others(c)
  BY <1>5, SetDoes DEF StatusInv
<1>15. ASSUME NEW j \in DOMAIN rows' PROVE StoredAs(rows'[j], req'[j])
  <2>1. c \notin DOMAIN rows
    BY <1>1 DEF StatusInv
  <2>2. CASE j # c
    <3>1. j \in DOMAIN rows /\ rows'[j] = rows[j]
      BY <1>2, <2>2 DEF With
    <3>2. j \in Requests
      BY <3>1 DEF StatusInv, Shape
    <3>3. req'[j] = req[j]
      BY <1>14, <2>2, <3>2 DEF Others
    <3> QED BY <3>1, <3>3 DEF EvidenceInv
  <2>3. CASE j = c
    <3>1. ok /\ rows'[c] = row
      BY <1>2, <1>3, <2>1, <2>3 DEF With
    <3>2. ~q.hungUp
      BY <1>2, <1>3, <3>1 DEF Statement
    <3>3. /\ row.doc = q.doc /\ row.name = q.name /\ row.scan = q.scan
          /\ row.status = IF q.blocked THEN "Blocked" ELSE "Pending"
      BY <1>3 DEF Row
    <3>4. q.doc \in Documents(Shown) /\ q.name \in Seq(Shown)
      BY <1>6 DEF ReqTyped
    <3>5. StoredAs(row, r)
      BY <1>6, <1>8, <3>2, <3>3, <3>4 DEF StoredAs, Statuses
    <3> QED BY <1>14, <2>3, <3>1, <3>5
  <2> QED BY <2>2, <2>3
<1>16. \A d \in Requests \ {c} : /\ req'[d] = req[d]
                                /\ \A e \in records' : e \in records \/ e.job # d \/ e.source = "JOB_RESULT"
  BY <1>1, <1>14 DEF Others
<1>17. \A d \in Requests \cap {c} : /\ ReqTyped(req'[d]) /\ Recorded(d, req'[d], records')
                                    /\ Owing(d, req'[d], records', vault', troubles')
  BY <1>1, <1>10, <1>11, <1>12, <1>13, <1>14
<1> QED BY <1>1, <1>9, <1>15, <1>16, <1>17, EvidenceGoes

LEMMA EvidenceHangUp ==
  ASSUME EvidenceInv, StatusInv, NEW c \in Requests, HangUp(c)
  PROVE  EvidenceInv'
<1>1. /\ Busy(c) /\ troubles < MaxTroubles /\ troubles' = troubles + 1 /\ Set(c, [req[c] EXCEPT !.hungUp = TRUE])
      /\ UNCHANGED <<scenario, rows, records, vault>>
  BY DEF HangUp, tables
<1>2. PICK q, r : q = req[c] /\ r = [q EXCEPT !.hungUp = TRUE]
  OBVIOUS
<1>3. /\ Shaped(q) /\ ReqTyped(q) /\ Items(q) /\ Recorded(c, q, records) /\ q.at \notin {"idle", "done", "failed"}
  BY <1>1, <1>2 DEF EvidenceInv, StatusInv, Shape, ReqTyped, Busy
<1>4. r.hungUp /\ Alike(r, q, Fields \ {"hungUp"})
  BY <1>2, <1>3 DEF Shaped, Fields, Alike
<1>5. /\ r.at = q.at /\ r.source = q.source /\ r.doc = q.doc /\ r.name = q.name /\ r.reply = q.reply
      /\ r.found = q.found /\ r.named = q.named /\ r.policy = q.policy /\ r.scan = q.scan
      /\ r.blocked = q.blocked /\ r.next = q.next /\ r.lost = q.lost
  BY <1>4 DEF Alike, Fields
<1>6. ReqTyped(r)
  <2>1. (r.at = "record" => r.next <= 1 + Len(Work(q))) /\ (r.at = "vault" => r.next <= Len(Work(q)))
    BY <1>3, <1>5 DEF Items
  <2>2. Items(r)
    BY <1>3, <1>5, <2>1, ItemsMove
  <2> QED BY <1>3, <1>5, <2>2 DEF ReqTyped
<1>7. Recorded(c, r, records)
  <2>1. Work(r) = Work(q) /\ \A i : Passed(r, i) <=> Passed(q, i)
    BY <1>5 DEF Work, Passed
  <2> QED BY <1>3, <1>5, <2>1 DEF Recorded
<1>8. troubles \in Nat /\ MaxTroubles \in Nat
  BY IntakeAssumption DEF EvidenceInv
<1>9. troubles' \in 0 .. MaxTroubles /\ troubles <= troubles' /\ IsFiniteSet(records) /\ IsFiniteSet(vault)
  <2>1. troubles' \in 0 .. MaxTroubles /\ troubles <= troubles'
    BY <1>1, <1>8
  <2> QED BY <2>1 DEF EvidenceInv
<1>10. Owing(c, r, records', vault', troubles')
  BY <1>4 DEF Owing
<1>11. Set(c, r) /\ req[c].at # "done"
  BY <1>1, <1>2, <1>3
<1> QED BY <1>1, <1>6, <1>7, <1>9, <1>10, <1>11, EvidenceMoves

LEMMA EvidenceCrash ==
  ASSUME EvidenceInv, StatusInv, Crash
  PROVE  EvidenceInv'
<1>1. /\ UNCHANGED <<scenario, rows, records, vault>> /\ troubles < MaxTroubles /\ troubles' = troubles + 1
      /\ req' = [c \in Requests |-> IF Busy(c) THEN [req[c] EXCEPT !.at = "failed"] ELSE req[c]]
  BY DEF Crash, tables
<1>2. troubles \in Nat /\ MaxTroubles \in Nat
  BY IntakeAssumption DEF EvidenceInv
<1>3. troubles' \in 0 .. MaxTroubles /\ troubles <= troubles' /\ IsFiniteSet(records') /\ IsFiniteSet(vault')
  <2>1. troubles' \in 0 .. MaxTroubles /\ troubles <= troubles'
    BY <1>1, <1>2
  <2> QED BY <1>1, <2>1 DEF EvidenceInv
<1>4. PICK S : S = {c \in Requests : Busy(c)}
  OBVIOUS
<1>5. ASSUME NEW c \in Requests \cap S
      PROVE  ReqTyped(req'[c]) /\ Recorded(c, req'[c], records') /\ Owing(c, req'[c], records', vault', troubles')
  <2>1. PICK q, r : q = req[c] /\ r = [q EXCEPT !.at = "failed"]
    OBVIOUS
  <2>2. req'[c] = r /\ Shaped(q) /\ ReqTyped(q) /\ Items(q) /\ Recorded(c, q, records)
    BY <1>1, <1>4, <1>5, <2>1 DEF EvidenceInv, StatusInv, Shape, ReqTyped
  <2>3. r.at = "failed" /\ Alike(r, q, Fields \ {"at"})
    BY <2>1, <2>2 DEF Shaped, Fields, Alike
  <2>4. /\ r.source = q.source /\ r.doc = q.doc /\ r.name = q.name /\ r.reply = q.reply /\ r.found = q.found /\ r.named = q.named
        /\ r.policy = q.policy /\ r.scan = q.scan /\ r.hungUp = q.hungUp /\ r.blocked = q.blocked /\ r.next = q.next
    BY <2>3 DEF Alike, Fields
  <2>5. Items(r)
    BY <2>2, <2>3, <2>4, ItemsMove
  <2>6. ReqTyped(r)
    BY <2>2, <2>3, <2>4, <2>5 DEF ReqTyped, Points
  <2>7. Recorded(c, r, records)
    BY <2>2, <2>3, <2>4 DEF Recorded
  <2>8. Owing(c, r, records', vault', troubles')
    BY <2>3 DEF Owing
  <2> QED BY <1>1, <2>2, <2>6, <2>7, <2>8
<1>6. \A d \in Requests \ S : /\ req'[d] = req[d]
                             /\ \A e \in records' : e \in records \/ e.job # d \/ e.source = "JOB_RESULT"
  BY <1>1, <1>4
<1>7. ASSUME NEW j \in DOMAIN rows' PROVE StoredAs(rows'[j], req'[j])
  <2>1. j \in DOMAIN rows /\ rows'[j] = rows[j] /\ j \in Requests /\ req[j].at = "done"
    BY <1>1 DEF StatusInv, Shape
  <2>2. req'[j] = req[j]
    BY <1>1, <2>1 DEF Busy
  <2> QED BY <2>1, <2>2 DEF EvidenceInv
<1> QED BY <1>1, <1>3, <1>5, <1>6, <1>7, EvidenceGoes

(* What happens to a task that is stored, and to its output. *)
LEMMA EvidenceAfter ==
  ASSUME EvidenceInv, StatusInv, NEW j \in Requests, Execute(j) \/ ScanOutput(j) \/ RecordOutput(j) \/ StoreArtifact(j)
  PROVE  EvidenceInv'
<1>1. UNCHANGED <<scenario, req, vault>>
  BY DEF Execute, ScanOutput, RecordOutput, StoreArtifact
<1>2. troubles \in 0 .. MaxTroubles /\ troubles \in Nat /\ IsFiniteSet(records) /\ IsFiniteSet(vault)
  BY DEF EvidenceInv
<1>3. records' = records \/ \E e : e.source = "JOB_RESULT" /\ records' = records \cup {e}
  <2>1. Shape
    BY DEF StatusInv
  <2> QED BY <2>1, ExecuteDoes, OutputDoes
<1>4. IsFiniteSet(records') /\ records \subseteq records' /\ \A e \in records' : e \in records \/ e.source = "JOB_RESULT"
  BY <1>2, <1>3, FS_AddElement
<1>5. troubles' \in 0 .. MaxTroubles /\ troubles <= troubles'
  <2>1. troubles' = troubles \/ \E ok \in BOOLEAN : Db(ok)
    BY DEF Execute, ScanOutput, RecordOutput, StoreArtifact
  <2>2. CASE troubles' = troubles
    BY <1>2, <2>2
  <2>3. CASE \E ok \in BOOLEAN : Db(ok)
    BY <1>2, <2>3, TroublesDo
  <2> QED BY <2>1, <2>2, <2>3
<1>6. ASSUME NEW k \in DOMAIN rows' PROVE StoredAs(rows'[k], req'[k])
  <2>1. CASE rows' = rows
    BY <1>1, <1>6, <2>1 DEF EvidenceInv
  <2>2. CASE Execute(j)
    <3>1. j \in DOMAIN rows /\ rows[j].status = "Pending" /\ rows' = [rows EXCEPT ![j].status = "Completed"]
      BY <2>2 DEF Execute
    <3>2. k \in DOMAIN rows /\ StoredAs(rows[k], req[k]) /\ IsFcn(rows[k]) /\ DOMAIN rows[k] = RowFields
      BY <3>1 DEF EvidenceInv, StatusInv, Shape
    <3>3. CASE k # j
      BY <1>1, <3>1, <3>2, <3>3
    <3>4. CASE k = j
      <4>1. PICK row, old : old = rows[j] /\ row = [old EXCEPT !.status = "Completed"]
        OBVIOUS
      <4>2. rows'[k] = row
        BY <3>1, <3>4, <4>1
      <4>3. row.status = "Completed" /\ row.scan = old.scan /\ row.doc = old.doc /\ row.name = old.name
        BY <3>2, <3>4, <4>1 DEF RowFields
      <4>4. StoredAs(row, req[k])
        BY <3>1, <3>2, <3>4, <4>1, <4>3 DEF StoredAs
      <4> QED BY <1>1, <4>2, <4>4
    <3> QED BY <3>3, <3>4
  <2> QED BY <2>1, <2>2 DEF ScanOutput, RecordOutput, StoreArtifact
<1>7. \A d \in Requests \ {} : /\ req'[d] = req[d]
                              /\ \A e \in records' : e \in records \/ e.job # d \/ e.source = "JOB_RESULT"
  BY <1>1, <1>4
<1>8. \A d \in Requests \cap {} : /\ ReqTyped(req'[d]) /\ Recorded(d, req'[d], records')
                                  /\ Owing(d, req'[d], records', vault', troubles')
  OBVIOUS
<1> QED BY <1>1, <1>2, <1>4, <1>5, <1>6, <1>7, <1>8, EvidenceGoes

LEMMA EvidenceStep == ASSUME EvidenceInv, StatusInv, [Next]_vars PROVE EvidenceInv'
<1>1. ASSUME NEW c \in Requests,
             \/ Lookup(c) \/ Rerun(c) \/ ScanPayload(c) \/ RecordFinding(c) \/ SaveToVault(c)
             \/ RewritePayload(c) \/ ScanName(c) \/ RewriteName(c) \/ Insert(c) \/ HangUp(c)
      PROVE  EvidenceInv'
  BY <1>1, EvidenceLookup, EvidenceScan, EvidenceRecord, EvidenceSave, EvidenceRewrite, EvidenceName, EvidenceRewriteName,
     EvidenceInsert, EvidenceHangUp
<1>2. ASSUME NEW c \in Requests, Execute(c) \/ ScanOutput(c) \/ RecordOutput(c) \/ StoreArtifact(c) PROVE EvidenceInv'
  BY <1>2, EvidenceAfter
<1>3. CASE UNCHANGED vars
  <2>1. UNCHANGED <<scenario, req, rows, records, vault, troubles>>
    BY <1>3 DEF vars
  <2>2. \A c \in Requests : /\ ReqTyped(req'[c]) /\ Recorded(c, req'[c], records')
                            /\ Owing(c, req'[c], records', vault', troubles')
    BY <2>1 DEF EvidenceInv
  <2> QED BY <2>1, <2>2 DEF EvidenceInv
<1> QED BY <1>1, <1>2, <1>3, EvidenceCrash DEF Next

LEMMA EvidenceInit == ASSUME Init PROVE EvidenceInv
<1>1. Shape /\ troubles \in 0 .. MaxTroubles /\ records = {} /\ vault = {} /\ scenario \in Scenarios /\ DOMAIN rows = {}
  BY ShapeInit, IntakeAssumption DEF Init
<1>2. IsFiniteSet(records) /\ IsFiniteSet(vault)
  BY <1>1, FS_EmptySet
<1>3. ASSUME NEW c \in Requests
      PROVE  ReqTyped(req[c]) /\ Recorded(c, req[c], records) /\ Owing(c, req[c], records, vault, troubles)
  <2>1. PICK r : r = req[c] /\ r = Idle
    BY DEF Init
  <2>2. r.at = "idle" /\ r.doc \in Documents(Shown) /\ r.name \in Seq(Shown) /\ r.reply \in Requests \cup {NoJob}
    BY <2>1, IdleHas, ShownHas
  <2>3. Alike(r, Idle, Fields \ {"at", "doc", "name", "keyed", "reply"})
    BY <2>1 DEF Alike
  <2>4. ReqTyped(r) /\ Recorded(c, r, records)
    BY <2>2, <2>3, FreshIs
  <2>5. Unvaulted(c, records, vault) \ Pending(c, r) = {} /\ Cardinality({}) = 0 /\ 0 <= troubles
    BY <1>1, FS_EmptySet DEF Unvaulted
  <2>6. Owing(c, r, records, vault, troubles)
    BY <2>5 DEF Owing
  <2> QED BY <2>1, <2>4, <2>6
<1> QED BY <1>1, <1>2, <1>3 DEF EvidenceInv

LEMMA ComesTyped == ASSUME EvidenceInv, StatusInv, ArtifactInv PROVE TypeOK
<1>1. ASSUME NEW c \in Requests
      PROVE  /\ req[c].at \in Points /\ req[c].scan \in Statuses /\ req[c].reply \in Requests \cup {NoJob}
             /\ req[c].next \in 1 .. 1 + Len(req[c].found \o req[c].named)
             /\ ~Panicked(req[c].doc) /\ req[c].name # Panic
  <2>1. PICK q : q = req[c] /\ ReqTyped(q) /\ Items(q)
    BY DEF EvidenceInv, ReqTyped
  <2>2. PICK s, t : s = q.found /\ t = q.named /\ Listed(s) /\ Listed(t)
    BY <2>1 DEF Items
  <2>3. Len(s \o t) = Len(s) + Len(t) /\ Len(s) \in Nat /\ Len(t) \in Nat
    <3>1. PICK S, T : s \in Seq(S) /\ t \in Seq(T)
      BY <2>2 DEF Listed
    <3>2. PICK m \in Nat, n \in Nat : s \in [1 .. m -> S] /\ t \in [1 .. n -> T]
      BY <3>1
    <3>3. s \in [1 .. m -> S \cup T] /\ t \in [1 .. n -> S \cup T]
      BY <3>2
    <3>4. PICK U : U = S \cup T
      OBVIOUS
    <3>5. s \in Seq(U) /\ t \in Seq(U)
      BY <3>2, <3>3, <3>4
    <3> QED BY <3>5
  <2>4. q.next \in 1 .. 1 + Len(s \o t)
    <3>1. PICK x, m \in Nat, n \in Nat : m = Len(s) /\ n = Len(t) /\ x = Len(s \o t)
      BY <2>3
    <3>2. q.next \in Nat /\ 1 <= q.next /\ q.next <= 1 + m + n
      BY <2>1, <2>2, <3>1 DEF Items
    <3>3. x = m + n
      BY <2>3, <3>1
    <3> QED BY <3>1, <3>2, <3>3
  <2>5. ~Panicked(q.doc)
    <3>1. q.doc \in Documents(Shown)
      BY <2>1 DEF ReqTyped
    <3>2. \A l \in DOMAIN q.doc.leaves : q.doc.leaves[l].text \in Seq(Shown)
      BY <3>1, DocumentIs
    <3> QED BY <3>2, ShownHas DEF Panicked
  <2>6. q.name # Panic
    BY <2>1, ShownHas DEF ReqTyped
  <2> QED BY <2>1, <2>2, <2>4, <2>5, <2>6 DEF ReqTyped
<1>2. DOMAIN rows \subseteq Requests /\ DOMAIN artifacts \subseteq DOMAIN rows /\ DOMAIN outputs \subseteq DOMAIN rows
  BY DEF StatusInv, Shape, ArtifactInv
<1>3. \A j \in DOMAIN rows : rows[j].status \in {"Pending", "Blocked", "Completed"} /\ rows[j].scan \in Statuses \ {""}
  BY DEF EvidenceInv, StoredAs
<1>4. ASSUME NEW j \in DOMAIN artifacts
      PROVE  artifacts[j].scan \in Statuses \ {""} /\ Len(artifacts[j].body) <= MaxArtifact
  <2>1. PICK o : o = outputs[j] /\ OutputOf(o, scenario.output) /\ o.at = "done" /\ artifacts[j].scan = o.scan
                 /\ artifacts[j].body = BodyOf(o)
    BY DEF ArtifactInv
  <2>2. o.scan \in Statuses \ {""} /\ o.sanitized \in Seq(Cell \cup {Star})
    BY <2>1 DEF OutputOf
  <2>3. Len(Truncated(o.sanitized)) <= MaxArtifact
    BY <2>2, CutShows
  <2>4. Len(<<>>) <= MaxArtifact
    BY IntakeAssumption
  <2> QED BY <2>1, <2>2, <2>3, <2>4 DEF BodyOf
<1>5. scenario \in Scenarios /\ troubles \in 0 .. MaxTroubles
  BY DEF EvidenceInv
<1> QED BY <1>1, <1>2, <1>3, <1>4, <1>5 DEF TypeOK

LEMMA ComesComplete == ASSUME EvidenceInv, StatusInv PROVE EvidenceComplete
<1> SUFFICES ASSUME NEW j \in DOMAIN rows, rows[j].status # "Blocked"
             PROVE  /\ \A i \in DOMAIN req[j].found : OnRecord(j, "JOB_PAYLOAD", req[j].found[i], records)
                    /\ rows[j].name # NameWithheld =>
                         \A i \in DOMAIN req[j].named : OnRecord(j, "JOB_METADATA", req[j].named[i], records)
                    /\ Cardinality({e \in records : e.job = j /\ e.source # "JOB_RESULT"})
                         <= Cardinality({e \in vault : e.job = j}) + troubles
  BY DEF EvidenceComplete, OnRecord
<1>1. PICK r : r = req[j]
  OBVIOUS
<1>2. j \in Requests /\ r.at = "done" /\ StoredAs(rows[j], r)
  BY <1>1 DEF StatusInv, Shape, EvidenceInv
<1>3. ~r.blocked /\ ~r.hungUp /\ rows[j].name = r.name
  BY <1>2 DEF StoredAs
<1>4. Recorded(j, r, records) /\ Owing(j, r, records, vault, troubles) /\ IsFiniteSet(records) /\ IsFiniteSet(vault) /\ troubles \in Nat
  BY <1>1, <1>2 DEF EvidenceInv
<1>5. PICK R, V : R = {e \in records : e.job = j /\ e.source # "JOB_RESULT"} /\ V = {e \in vault : e.job = j}
  OBVIOUS
<1>6. Cardinality(R) <= Cardinality(V) + troubles
  <2>1. IsFiniteSet(R) /\ IsFiniteSet(V) /\ IsFiniteSet(R \ vault)
    <3>1. R \subseteq records /\ V \subseteq vault /\ R \ vault \subseteq records
      BY <1>5
    <3> QED BY <1>4, <3>1, FS_Subset
  <2>2. Cardinality(R \ vault) <= troubles
    <3>1. Pending(j, r) = {}
      BY <1>2 DEF Pending
    <3>2. Unvaulted(j, records, vault) \ {} = R \ vault
      BY <1>5 DEF Unvaulted
    <3> QED BY <1>2, <1>3, <1>4, <3>1, <3>2 DEF Owing
  <2>3. R \subseteq V \cup (R \ vault)
    BY <1>5
  <2>4. PICK a, b, d, k : a = Cardinality(V) /\ b = Cardinality(R \ vault) /\ d = Cardinality(V \cup (R \ vault))
                          /\ k = Cardinality(V \cap (R \ vault))
    OBVIOUS
  <2>5. IsFiniteSet(V \cup (R \ vault)) /\ d = a + b - k
    BY <2>1, <2>4, FS_Union
  <2>6. IsFiniteSet(V \cap (R \ vault))
    BY <2>1, FS_Subset
  <2>7. a \in Nat /\ b \in Nat /\ k \in Nat
    BY <2>1, <2>4, <2>6, FS_CardinalityType
  <2>8. Cardinality(R) <= d /\ Cardinality(R) \in Nat
    BY <2>1, <2>3, <2>4, <2>5, FS_Subset, FS_CardinalityType
  <2> QED BY <1>4, <2>2, <2>4, <2>5, <2>7, <2>8
<1> QED BY <1>1, <1>2, <1>3, <1>4, <1>5, <1>6 DEF Recorded

(* A task that may run can be accounted for, whatever failed, hung up or died:  *)
(* a record of every finding, a vault entry for each but for the troubles, the *)
(* records told apart and a status that covers both scans                     *)
(* (create.go:108-109, 176-180; metadata_scan.go:29-30, 55-56).               *)
THEOREM EvidenceIsSound == Spec => []EvidenceSound
<1> DEFINE Inv == EvidenceInv /\ ArtifactInv /\ StatusInv /\ RecordsInv
<1>1. Init => Inv
  <2>1. Init => ArtifactInv
    BY DEF Init, ArtifactInv, IsFcn
  <2> QED BY <2>1, EvidenceInit, ToldInit
<1>2. Inv /\ [Next]_vars => Inv'
  BY EvidenceStep, ArtifactStep, StatusStep, RecordsStep
<1>3. Inv => EvidenceSound
  <2>1. RecordsInv /\ StatusInv => EvidenceTold
    BY DEF RecordsInv, StatusInv, EvidenceTold
  <2> QED BY <2>1, ComesTyped, ComesComplete DEF EvidenceSound
<1> QED BY <1>1, <1>2, <1>3, PTL DEF Spec

-----------------------------------------------------------------------------
(* Filled in: the text as pieces, one for each of its places, of which a       *)
(* finding's first is its replacement and the others are empty.             *)
(* A flattened sequence, one piece after another. *)
LEMMA Unrolled ==
  ASSUME NEW T, NEW ss \in Seq(Seq(T)), NEW n \in Nat, n = Len(ss)
  PROVE  \E f \in [0 .. n -> Seq(T)] : f[0] = <<>> /\ (\A i \in 1 .. n : f[i] = f[i - 1] \o ss[i]) /\ FlattenSeq(ss) = f[n]
<1>0. DOMAIN ss = 1 .. n /\ \A i \in 1 .. n : ss[i] \in Seq(T)
  OBVIOUS
<1>1. CASE n = 0
  <2>1. FlattenSeq(ss) = ss
    BY <1>1 DEF FlattenSeq
  <2>2. PICK f : f = [i \in 0 .. n |-> <<>>]
    OBVIOUS
  <2>3. ss = <<>> /\ 1 .. n = {} /\ f[0] = <<>> /\ f[n] = <<>>
    <3>1. ss = <<>>
      <4>1. PICK Q : Q = Seq(T)
        OBVIOUS
      <4>2. ss \in Seq(Q) /\ Len(ss) = 0
        BY <1>1, <4>1
      <4> QED BY ONLY <4>2
    <3>2. 1 .. n = {} /\ 0 \in 0 .. n /\ n \in 0 .. n
      BY <1>1
    <3> QED BY <2>2, <3>1, <3>2
  <2>4. f \in [0 .. n -> Seq(T)]
    <3>1. <<>> \in Seq(T)
      OBVIOUS
    <3> QED BY <2>2, <3>1
  <2> QED BY <2>1, <2>3, <2>4
<1>2. CASE n # 0
  <2> DEFINE Is(f) == f = [i \in 1 .. n |-> IF i = 1 THEN ss[i] ELSE f[i - 1] \o ss[i]]
             Good(f, k) == f[0] = <<>> /\ \A i \in 1 .. k : f[i] = f[i - 1] \o ss[i]
             G == {k \in 0 .. n : \E f \in [0 .. n -> Seq(T)] : Good(f, k)}
  <2>1. 0 \in G
    <3>1. [i \in 0 .. n |-> <<>>] \in [0 .. n -> Seq(T)] /\ 0 \in 0 .. n
      OBVIOUS
    <3>2. Good([i \in 0 .. n |-> <<>>], 0)
      OBVIOUS
    <3> HIDE DEF Good
    <3> QED BY <3>1, <3>2
  <2>2. ASSUME NEW k \in 1 .. n, k - 1 \in G PROVE k \in G
    <3>1. PICK f \in [0 .. n -> Seq(T)] : Good(f, k - 1)
      BY <2>2
    <3>2. PICK v : v = f[k - 1] \o ss[k]
      OBVIOUS
    <3>3. v \in Seq(T)
      <4>1. f[k - 1] \in Seq(T) /\ ss[k] \in Seq(T)
        <5>1. k - 1 \in 0 .. n
          OBVIOUS
        <5> HIDE DEF Good, G
        <5> QED BY <1>0, <3>1, <5>1
      <4> QED BY <3>2, <4>1
    <3>4. PICK h : h = [f EXCEPT ![k] = v]
      OBVIOUS
    <3>5. h \in [0 .. n -> Seq(T)]
      BY <3>1, <3>3, <3>4
    <3>6. h[k] = v /\ \A i \in 0 .. n : i # k => h[i] = f[i]
      BY <3>1, <3>4
    <3>7. ASSUME NEW i \in 1 .. k PROVE h[i] = h[i - 1] \o ss[i]
      <4>1. i \in 0 .. n /\ i - 1 \in 0 .. n /\ i - 1 # k /\ (i # k => i \in 1 .. k - 1)
        OBVIOUS
      <4>2. h[i - 1] = f[i - 1]
        BY <3>6, <4>1
      <4>3. CASE i = k
        BY <3>2, <3>6, <4>2, <4>3
      <4>4. CASE i # k
        <5>1. f[i] = f[i - 1] \o ss[i]
          BY <3>1, <4>1, <4>4
        <5> QED BY <3>6, <4>1, <4>2, <4>4, <5>1
      <4> QED BY <4>3, <4>4
    <3>8. h[0] = <<>>
      <4>1. f[0] = <<>> /\ 0 \in 0 .. n /\ 0 # k
        BY <3>1
      <4> QED BY ONLY <3>6, <4>1
    <3>9. Good(h, k)
      BY <3>7, <3>8
    <3>10. k \in 0 .. n
      OBVIOUS
    <3> HIDE DEF Good
    <3> QED BY <3>5, <3>9, <3>10
  <2>3. n \in G
    <3> HIDE DEF G
    <3>1. \A i \in 1 .. n : i - 1 \in G => i \in G
      BY <2>2
    <3>2. \A i \in 0 .. n : i \in G
      BY ONLY n \in Nat, <2>1, <3>1, Upwards
    <3> QED BY <3>2
  <2>4. PICK f \in [0 .. n -> Seq(T)] : f[0] = <<>> /\ \A i \in 1 .. n : f[i] = f[i - 1] \o ss[i]
    BY <2>3
  <2>5. PICK h : h = [i \in 1 .. n |-> f[i]]
    OBVIOUS
  <2>6. Is(h)
    <3>1. ASSUME NEW i \in 1 .. n PROVE h[i] = IF i = 1 THEN ss[i] ELSE h[i - 1] \o ss[i]
      <4>1. f[i] = f[i - 1] \o ss[i] /\ h[i] = f[i]
        BY <2>4, <2>5
      <4>2. CASE i = 1
        <5>1. f[i - 1] = <<>> /\ ss[i] \in Seq(T)
          BY <1>0, <2>4, <4>2
        <5>2. <<>> \o ss[i] = ss[i]
          BY <5>1, ConcatEmptySeq
        <5> QED BY <4>1, <4>2, <5>1, <5>2
      <4>3. CASE i # 1
        <5>1. i - 1 \in 1 .. n /\ h[i - 1] = f[i - 1]
          BY <2>5, <4>3
        <5> QED BY <4>1, <4>3, <5>1
      <4> QED BY <4>2, <4>3
    <3>2. h = [i \in 1 .. n |-> h[i]]
      BY <2>5
    <3> QED BY <3>1, <3>2
  <2>7. PICK g : g = CHOOSE g2 : Is(g2)
    OBVIOUS
  <2>8. Is(g)
    <3> HIDE DEF Is
    <3> QED BY <2>6, <2>7
  <2>9. FlattenSeq(ss) = g[n]
    BY <1>2, <2>7 DEF FlattenSeq
  <2> DEFINE Q == {i \in 0 .. n : i # 0 => g[i] = f[i]}
  <2>10. 0 \in Q
    OBVIOUS
  <2>11. ASSUME NEW i \in 1 .. n, i - 1 \in Q PROVE i \in Q
    <3>1. g[i] = IF i = 1 THEN ss[i] ELSE g[i - 1] \o ss[i]
      BY <2>8
    <3>2. f[i] = f[i - 1] \o ss[i]
      BY <2>4
    <3>3. CASE i = 1
      <4>1. f[i - 1] = <<>> /\ ss[i] \in Seq(T)
        BY <1>0, <2>4, <3>3
      <4>2. <<>> \o ss[i] = ss[i]
        BY <4>1, ConcatEmptySeq
      <4>3. g[i] = f[i]
        BY <3>1, <3>2, <3>3, <4>1, <4>2
      <4> QED BY <4>3
    <3>4. CASE i # 1
      <4>1. g[i - 1] = f[i - 1]
        BY <2>11, <3>4
      <4>2. g[i] = f[i]
        BY <3>1, <3>2, <3>4, <4>1
      <4> QED BY <4>2
    <3> QED BY <3>3, <3>4
  <2>12. n \in Q
    <3> HIDE DEF Q
    <3>1. \A i \in 1 .. n : i - 1 \in Q => i \in Q
      BY <2>11
    <3>2. \A i \in 0 .. n : i \in Q
      BY ONLY n \in Nat, <2>10, <3>1, Upwards
    <3> QED BY <3>2
  <2>13. g[n] = f[n]
    BY <1>2, <2>12
  <2> QED BY <2>4, <2>9, <2>13
<1> QED BY <1>1, <1>2

(* What follows the stretch that is spliced stays behind it. *)
LEMMA SpliceAppend ==
  ASSUME NEW C, NEW out \in Seq(C), NEW p \in Seq(C), NEW f, f.start \in Nat, f.end \in Nat, f.start < f.end, f.end <= Len(out),
         Replacement(f) \in Seq(C), Panic \notin Seq(C)
  PROVE  Splice(out \o p, f) = Splice(out, f) \o p
<1>1. PICK a \in Nat, b \in Nat, m \in Nat, k \in Nat :
         a = f.start /\ b = f.end /\ a < b /\ b <= m /\ m = Len(out) /\ k = Len(p)
  OBVIOUS
<1>2. PICK r : r = Replacement(f) /\ r \in Seq(C)
  OBVIOUS
<1>3. PICK w : w = out \o p
  OBVIOUS
<1>4. w \in Seq(C) /\ Len(w) = m + k /\ (\A i \in 1 .. m : w[i] = out[i]) /\ \A i \in 1 .. k : w[m + i] = p[i]
  BY <1>1, <1>3, Catenated
<1>5. w # Panic /\ out # Panic
  BY <1>4
<1>6. SubSeq(w, 1, a) = SubSeq(out, 1, a)
  <2>1. CASE a = 0
    BY <2>1, SubSeqEmpty
  <2>2. CASE a # 0
    <3>1. 1 \in 1 .. Len(out) /\ a \in 1 .. Len(out)
      BY <1>1, <2>2
    <3> QED BY <1>3, <3>1, SubSeqOfConcat1
  <2> QED BY <2>1, <2>2
<1>7. PICK u : u = SubSeq(out, b + 1, m)
  OBVIOUS
<1>8. u \in Seq(C) /\ Len(u) = m - b /\ \A i \in 1 .. m - b : u[i] = out[b + i]
  <2>1. b \in Nat /\ m \in Nat /\ b <= m /\ out \in Seq(C) /\ m <= Len(out)
    BY <1>1
  <2>2. Slice(out, b, m) \in Seq(C) /\ Len(Slice(out, b, m)) = m - b /\ \A i \in 1 .. m - b : Slice(out, b, m)[i] = out[b + i]
    BY ONLY <2>1, SliceIs
  <2> QED BY <1>7, <2>2 DEF Slice
<1>9. SubSeq(w, b + 1, m + k) = u \o p
  <2>1. PICK v : v = SubSeq(w, b + 1, m + k)
    OBVIOUS
  <2>2. v \in Seq(C) /\ Len(v) = m + k - b /\ \A i \in 1 .. m + k - b : v[i] = w[b + i]
    <3>1. b \in Nat /\ m + k \in Nat /\ b <= m + k /\ w \in Seq(C) /\ m + k = Len(w)
      BY <1>1, <1>4
    <3>2. PICK z \in Nat : z = m + k
      BY <3>1
    <3>3. b \in Nat /\ z \in Nat /\ w \in Seq(C) /\ b <= z /\ z <= Len(w)
      BY <3>1, <3>2
    <3>4. Slice(w, b, z) \in Seq(C) /\ Len(Slice(w, b, z)) = z - b /\ \A i \in 1 .. z - b : Slice(w, b, z)[i] = w[b + i]
      BY ONLY <3>3, SliceIs, ZenonT(30)
    <3>5. v = Slice(w, b, z)
      BY <2>1, <3>2 DEF Slice
    <3> QED BY ONLY <3>2, <3>4, <3>5
  <2>3. PICK x : x = u \o p
    OBVIOUS
  <2>4. x \in Seq(C) /\ Len(x) = (m - b) + k /\ (\A i \in 1 .. m - b : x[i] = u[i]) /\ \A i \in 1 .. k : x[(m - b) + i] = p[i]
    <3>0. u \in Seq(C) /\ p \in Seq(C)
      BY <1>8
    <3>1. /\ x \in Seq(C) /\ Len(x) = Len(u) + Len(p) /\ (\A i \in 1 .. Len(u) : x[i] = u[i])
          /\ \A i \in 1 .. Len(p) : x[Len(u) + i] = p[i]
      BY ONLY <3>0, <2>3, Catenated
    <3> QED BY <1>1, <1>8, <3>1
  <2>5. ASSUME NEW i \in 1 .. m + k - b PROVE v[i] = x[i]
    <3>1. v[i] = w[b + i]
      BY <2>2
    <3>2. CASE i <= m - b
      <4>1. i \in 1 .. m - b /\ b + i \in 1 .. m
        <5>1. b \in Nat /\ m \in Nat /\ k \in Nat /\ b <= m /\ i \in 1 .. m + k - b
          BY <1>1
        <5> QED BY ONLY <5>1, <3>2
      <4> QED BY <1>4, <1>8, <2>4, <3>1, <4>1
    <3>3. CASE ~(i <= m - b)
      <4>1. PICK j \in 1 .. k : i = (m - b) + j /\ b + i = m + j
        <5>1. i - (m - b) \in 1 .. k /\ i = (m - b) + (i - (m - b)) /\ b + i = m + (i - (m - b))
          <6>1. b \in Nat /\ m \in Nat /\ k \in Nat /\ b <= m /\ i \in 1 .. m + k - b
            BY <1>1
          <6> QED BY ONLY <6>1, <3>3
        <5> QED BY <5>1
      <4>2. w[m + j] = p[j] /\ x[(m - b) + j] = p[j]
        BY <1>4, <2>4
      <4> QED BY <3>1, <4>1, <4>2
    <3> QED BY <3>2, <3>3
  <2>6. Len(v) = Len(x) /\ \A i \in 1 .. Len(v) : v[i] = x[i]
    BY <1>1, <2>2, <2>4, <2>5
  <2>7. v = x
    BY ONLY <2>2, <2>4, <2>6, SeqEqual
  <2> QED BY <2>1, <2>3, <2>7
<1>10. PICK l : l = SubSeq(out, 1, a)
  OBVIOUS
<1>11. l \in Seq(C)
  <2>1. a \in Nat /\ 0 \in Nat /\ 0 <= a /\ a <= Len(out) /\ out \in Seq(C)
    BY <1>1
  <2>2. Slice(out, 0, a) \in Seq(C)
    BY ONLY <2>1, SliceIs
  <2> QED BY <1>10, <2>2 DEF Slice
<1>12. Splice(w, f) = (l \o r) \o (u \o p)
  <2>1. ~(f.end > Len(w))
    BY <1>1, <1>4
  <2>2. Slice(w, 0, f.start) = l /\ Slice(w, f.end, Len(w)) = u \o p
    <3>1. Slice(w, 0, f.start) = l
      BY <1>1, <1>6, <1>10 DEF Slice
    <3>2. Len(w) = m + k /\ f.end = b
      BY <1>1, <1>4
    <3>3. Slice(w, f.end, Len(w)) = SubSeq(w, b + 1, m + k)
      BY ONLY <3>2 DEF Slice
    <3> QED BY <1>9, <3>1, <3>3
  <2> QED BY <1>2, <1>5, <2>1, <2>2 DEF Splice
<1>13. Splice(out, f) = (l \o r) \o u
  <2>1. ~(f.end > Len(out))
    BY <1>1
  <2>2. Slice(out, 0, f.start) = l /\ Slice(out, f.end, Len(out)) = u
    BY <1>1, <1>7, <1>10 DEF Slice
  <2> QED BY <1>2, <1>5, <2>1, <2>2 DEF Splice
<1>14. l \o r \in Seq(C)
  BY <1>2, <1>11, ConcatProperties
<1>15. ((l \o r) \o u) \o p = (l \o r) \o (u \o p)
  <2>1. PICK t : t = l \o r /\ t \in Seq(C) /\ u \in Seq(C) /\ p \in Seq(C)
    BY <1>8, <1>14
  <2>2. t \in Seq(C) /\ u \in Seq(C) /\ p \in Seq(C)
    BY <2>1
  <2>3. (t \o u) \o p = t \o (u \o p)
    BY ONLY <2>2, ConcatAssociative
  <2> QED BY <2>1, <2>3
<1> QED BY ONLY <1>3, <1>12, <1>13, <1>15

(* A text with the findings of S spliced in, each cell's piece at its place.  *)
Covering(i, fs, S) == {k \in S : i > fs[k].start /\ i <= fs[k].end}
Piece(i, text, fs, S) ==
    LET f == fs[CHOOSE k \in Covering(i, fs, S) : TRUE]
    IN  IF Covering(i, fs, S) = {} THEN <<text[i]>> ELSE IF i = f.start + 1 THEN Replacement(f) ELSE <<>>
Pieces(text, fs, S) == [i \in DOMAIN text |-> Piece(i, text, fs, S)]
Filled(text, fs, S) == FlattenSeq(Pieces(text, fs, S))

(* Up to a place before which nothing is covered it is the text. *)
Unrolls(f, pieces, n, C) == f \in [0 .. n -> Seq(C)] /\ f[0] = <<>> /\ \A i \in 1 .. n : f[i] = f[i - 1] \o pieces[i]
AsItWas(pieces, text, m) == \A i \in 1 .. m : pieces[i] = <<text[i]>>
(* Where no finding stands, the pieces are the text. *)
LEMMA Untouched ==
  ASSUME NEW C, NEW text \in Seq(C), NEW n \in Nat, NEW m \in 0 .. n, m <= Len(text), NEW pieces, NEW f,
         Unrolls(f, pieces, n, C), AsItWas(pieces, text, m)
  PROVE  f[m] = SubSeq(text, 1, m)
<1>0. m \in Nat /\ m <= n
  OBVIOUS
<1> DEFINE G == {i \in 0 .. m : f[i] = SubSeq(text, 1, i)}
<1>1. 0 \in G
  <2>1. SubSeq(text, 1, 0) = <<>>
    BY SubSeqEmpty
  <2> QED BY <1>0, <2>1 DEF Unrolls
<1>2. ASSUME NEW i \in 1 .. m, i - 1 \in G PROVE i \in G
  <2>1. f[i] = SubSeq(text, 1, i - 1) \o <<text[i]>>
    <3>0. i \in 1 .. n
      BY <1>0
    <3>1. f[i] = f[i - 1] \o pieces[i] /\ pieces[i] = <<text[i]>>
      BY <3>0 DEF Unrolls, AsItWas
    <3> QED BY <1>2, <3>1
  <2>2. 1 \in 1 .. Len(text) /\ i \in 1 .. Len(text)
    OBVIOUS
  <2>3. SubSeq(text, 1, i) = SubSeq(text, 1, i - 1) \o <<text[i]>>
    BY <2>2, SubSeqRecursiveSecond
  <2>4. i \in 0 .. m
    BY <1>0
  <2> QED BY <2>1, <2>3, <2>4
<1>3. \A i \in 0 .. m : i \in G
  <2> HIDE DEF G
  <2>1. \A i \in 1 .. m : i - 1 \in G => i \in G
    BY <1>2
  <2>2. m \in Nat
    OBVIOUS
  <2> QED BY ONLY <1>1, <2>1, <2>2, Upwards
<1> QED BY <1>0, <1>3

LEMMA PiecesTyped ==
  ASSUME NEW C, NEW text \in Seq(C), NEW fs, NEW S, \A k \in S : Replacement(fs[k]) \in Seq(C)
  PROVE  Pieces(text, fs, S) \in Seq(Seq(C)) /\ Len(Pieces(text, fs, S)) = Len(text)
<1>1. PICK n \in Nat : n = Len(text) /\ DOMAIN text = 1 .. n
  OBVIOUS
<1>2. ASSUME NEW i \in 1 .. n PROVE Piece(i, text, fs, S) \in Seq(C)
  <2>1. <<text[i]>> \in Seq(C) /\ <<>> \in Seq(C)
    BY <1>1
  <2>2. PICK k : k = CHOOSE k2 \in Covering(i, fs, S) : TRUE
    OBVIOUS
  <2>3. Covering(i, fs, S) # {} => k \in Covering(i, fs, S)
    BY <2>2
  <2>4. Covering(i, fs, S) # {} => Replacement(fs[k]) \in Seq(C)
    BY <2>3 DEF Covering
  <2> QED BY <2>1, <2>2, <2>4 DEF Piece
<1>3. PICK Q : Q = Seq(C)
  OBVIOUS
<1>4. Pieces(text, fs, S) \in [1 .. n -> Q]
  BY <1>1, <1>2, <1>3 DEF Pieces
<1>5. Pieces(text, fs, S) \in Seq(Q) /\ Len(Pieces(text, fs, S)) = n
  BY <1>4
<1> QED BY <1>1, <1>3, <1>5

(* One splice more, of the foremost finding of S. *)
Fillable(fs, S, text, C) ==
    \A k \in S : /\ fs[k].start \in Nat /\ fs[k].end \in Nat /\ fs[k].start < fs[k].end /\ fs[k].end <= Len(text)
                 /\ Replacement(fs[k]) \in Seq(C)
Before(f, fs, S) == \A k \in S : f.end <= fs[k].start

(* One finding more, in front of those filled in, is one splice more. *)
LEMMA FilledMore ==
  ASSUME NEW C, NEW text \in Seq(C), Panic \notin Seq(C), NEW fs, NEW S, NEW x \in S,
         Fillable(fs, S, text, C), Before(fs[x], fs, S \ {x})
  PROVE  /\ Filled(text, fs, S) \in Seq(C)
         /\ Filled(text, fs, S) = Splice(Filled(text, fs, S \ {x}), fs[x])
<1>1. PICK f : f = fs[x]
  OBVIOUS
<1>2. PICK n \in Nat, a \in Nat, b \in Nat, r \in Seq(C) :
         n = Len(text) /\ a = f.start /\ b = f.end /\ a < b /\ b <= n /\ r = Replacement(f)
  BY <1>1 DEF Fillable
<1>3. PICK R : R = S \ {x}
  OBVIOUS
<1>4. PICK p, q : p = Pieces(text, fs, R) /\ q = Pieces(text, fs, S)
  OBVIOUS
<1>5. p \in Seq(Seq(C)) /\ Len(p) = n /\ q \in Seq(Seq(C)) /\ Len(q) = n
  <2>0. \A k \in S : Replacement(fs[k]) \in Seq(C)
    BY DEF Fillable
  <2>1. \A k \in R : Replacement(fs[k]) \in Seq(C)
    BY <1>3, <2>0
  <2>2. p \in Seq(Seq(C)) /\ Len(p) = n
    BY <1>2, <1>4, <2>1, PiecesTyped
  <2>3. q \in Seq(Seq(C)) /\ Len(q) = n
    BY <1>2, <1>4, <2>0, PiecesTyped
  <2> QED BY <2>2, <2>3
<1>6. DOMAIN text = 1 .. n
  BY <1>2
<1>7. \A i \in 1 .. n : p[i] = Piece(i, text, fs, R) /\ q[i] = Piece(i, text, fs, S)
  BY <1>4, <1>6 DEF Pieces
<1>8. \A k \in R : b <= fs[k].start /\ fs[k].start \in Nat /\ k \in S /\ k # x
  BY <1>1, <1>2, <1>3 DEF Before, Fillable
<1>9. \A i \in 1 .. b : p[i] = <<text[i]>>
  <2> SUFFICES ASSUME NEW i \in 1 .. b PROVE p[i] = <<text[i]>>
    OBVIOUS
  <2>1. Covering(i, fs, R) = {}
    BY <1>8 DEF Covering
  <2>2. i \in 1 .. n
    BY <1>2
  <2> QED BY <1>7, <2>1, <2>2 DEF Piece
<1>10. \A i \in 1 .. a : q[i] = <<text[i]>>
  <2> SUFFICES ASSUME NEW i \in 1 .. a PROVE q[i] = <<text[i]>>
    OBVIOUS
  <2>1. Covering(i, fs, S) = {}
    <3>1. ~(i > fs[x].start)
      BY <1>1, <1>2
    <3>2. \A k \in R : ~(i > fs[k].start)
      BY <1>2, <1>8
    <3> QED BY <1>3, <3>1, <3>2 DEF Covering
  <2>2. i \in 1 .. n
    BY <1>2
  <2> QED BY <1>7, <2>1, <2>2 DEF Piece
<1>11. \A i \in a + 1 .. b : q[i] = IF i = a + 1 THEN r ELSE <<>>
  <2> SUFFICES ASSUME NEW i \in a + 1 .. b PROVE q[i] = IF i = a + 1 THEN r ELSE <<>>
    OBVIOUS
  <2>1. Covering(i, fs, S) = {x}
    <3>1. i > fs[x].start /\ i <= fs[x].end
      BY <1>1, <1>2
    <3>2. \A k \in R : ~(i > fs[k].start)
      BY <1>2, <1>8
    <3> QED BY <1>3, <3>1, <3>2 DEF Covering
  <2>2. (CHOOSE k \in {x} : TRUE) = x
    OBVIOUS
  <2>3. i \in 1 .. n
    BY <1>2
  <2> QED BY <1>1, <1>2, <1>7, <2>1, <2>2, <2>3 DEF Piece
<1>12. \A i \in b + 1 .. n : q[i] = p[i]
  <2> SUFFICES ASSUME NEW i \in b + 1 .. n PROVE q[i] = p[i]
    OBVIOUS
  <2>1. Covering(i, fs, S) = Covering(i, fs, R)
    <3>1. ~(i <= fs[x].end)
      BY <1>1, <1>2
    <3> QED BY <1>3, <3>1 DEF Covering
  <2>2. i \in 1 .. n
    BY <1>2
  <2>3. Piece(i, text, fs, S) = Piece(i, text, fs, R)
    BY ONLY <2>1 DEF Piece
  <2> QED BY ONLY <1>7, <2>2, <2>3
<1>13. PICK g \in [0 .. n -> Seq(C)] : g[0] = <<>> /\ (\A i \in 1 .. n : g[i] = g[i - 1] \o p[i]) /\ FlattenSeq(p) = g[n]
  <2>1. p \in Seq(Seq(C))
    BY <1>5
  <2>2. n = Len(p)
    BY <1>5
  <2>3. n \in Nat
    OBVIOUS
  <2> QED BY ONLY <2>1, <2>2, <2>3, Unrolled, ZenonT(60)
<1>14. PICK h \in [0 .. n -> Seq(C)] : h[0] = <<>> /\ (\A i \in 1 .. n : h[i] = h[i - 1] \o q[i]) /\ FlattenSeq(q) = h[n]
  <2>1. q \in Seq(Seq(C))
    BY <1>5
  <2>2. n = Len(q)
    BY <1>5
  <2>3. n \in Nat
    OBVIOUS
  <2> QED BY ONLY <2>1, <2>2, <2>3, Unrolled, ZenonT(60)
<1>15. g[b] = SubSeq(text, 1, b)
  <2>1. text \in Seq(C) /\ n \in Nat /\ b \in 0 .. n /\ b <= Len(text)
    BY <1>2
  <2>2. Unrolls(g, p, n, C) /\ AsItWas(p, text, b)
    BY <1>9, <1>13 DEF Unrolls, AsItWas
  <2> QED BY ONLY <2>1, <2>2, Untouched
<1>16. PICK l : l = SubSeq(text, 1, a)
  OBVIOUS
<1>17. h[a] = l
  <2>1. text \in Seq(C) /\ n \in Nat /\ a \in 0 .. n /\ a <= Len(text)
    BY <1>2
  <2>2. Unrolls(h, q, n, C) /\ AsItWas(q, text, a)
    BY <1>10, <1>14 DEF Unrolls, AsItWas
  <2>3. h[a] = SubSeq(text, 1, a)
    BY ONLY <2>1, <2>2, Untouched
  <2> QED BY <1>16, <2>3
<1>18. l \in Seq(C) /\ l \o r \in Seq(C)
  <2>1. a \in 0 .. n
    BY <1>2
  <2>2. l \in Seq(C)
    BY <1>14, <1>17, <2>1
  <2> QED BY <2>2, ConcatProperties
<1>19. h[b] = l \o r
  <2> DEFINE G == {i \in 0 .. b : i > a => h[i] = l \o r}
  <2>1. 0 \in G
    BY <1>2
  <2>2. ASSUME NEW i \in 1 .. b, i - 1 \in G PROVE i \in G
    <3>0. i \in 1 .. n /\ a \in Nat /\ i \in Nat
      BY <1>2
    <3>1. h[i] = h[i - 1] \o q[i]
      BY <1>14, <3>0
    <3>2. CASE i <= a
      BY <1>2, <3>2
    <3>3. CASE i = a + 1
      <4>0. i - 1 = a /\ i \in a + 1 .. b
        BY <3>0, <3>3
      <4>1. h[i - 1] = l /\ q[i] = r
        BY <1>11, <1>17, <3>3, <4>0
      <4>2. h[i] = l \o r
        BY <3>1, <4>1
      <4> QED BY <4>2
    <3>4. CASE i > a + 1
      <4>1. i - 1 > a /\ i \in a + 1 .. b /\ i # a + 1
        BY <1>2, <3>4
      <4>2. h[i - 1] = l \o r /\ q[i] = <<>>
        BY <1>11, <2>2, <4>1
      <4>3. (l \o r) \o <<>> = l \o r
        <5>1. PICK t : t = l \o r
          OBVIOUS
        <5>2. t \in Seq(C)
          BY <1>18, <5>1
        <5>3. t \o <<>> = t
          BY ONLY <5>2, ConcatEmptySeq
        <5> QED BY <5>1, <5>3
      <4>4. h[i] = l \o r
        BY <3>1, <4>2, <4>3
      <4> QED BY <4>4
    <3> HIDE DEF G
    <3> QED BY <3>0, <3>2, <3>3, <3>4
  <2>3. \A i \in 0 .. b : i \in G
    <3> HIDE DEF G
    <3>1. \A i \in 1 .. b : i - 1 \in G => i \in G
      BY <2>2
    <3>2. b \in Nat
      BY <1>2
    <3> QED BY ONLY <2>1, <3>1, <3>2, Upwards
  <2>4. b \in G
    <3> HIDE DEF G
    <3>1. b \in 0 .. b
      BY <1>2
    <3> QED BY <2>3, <3>1
  <2> QED BY <1>2, <2>4
<1>20. Splice(g[b], f) = h[b]
  <2>1. PICK out : out = g[b]
    OBVIOUS
  <2>2. out \in Seq(C) /\ Len(out) = b
    <3>1. b \in Nat /\ 0 \in Nat /\ 0 <= b /\ b <= Len(text) /\ text \in Seq(C)
      BY <1>2
    <3>2. Slice(text, 0, b) \in Seq(C) /\ Len(Slice(text, 0, b)) = b - 0
      BY ONLY <3>1 DEF Slice
    <3> QED BY <1>2, <1>15, <2>1, <3>2 DEF Slice
  <2>3. Slice(out, 0, a) = l
    <3>1. CASE a = 0
      <4>1. SubSeq(out, 1, 0) = <<>> /\ SubSeq(text, 1, 0) = <<>>
        BY SubSeqEmpty
      <4> QED BY <1>16, <3>1, <4>1 DEF Slice
    <3>2. CASE a # 0
      <4>1. /\ 1 \in 1 .. Len(text) /\ b \in 1 .. Len(text) /\ 1 \in 1 .. b - 1 + 1 /\ a \in 1 .. b - 1 + 1
        BY <1>2, <3>2
      <4>2. SubSeq(SubSeq(text, 1, b), 1, a) = SubSeq(text, 1 + 1 - 1, 1 + a - 1)
        BY <4>1, SubSeqOfSubSeq
      <4>3. 1 + 1 - 1 = 1 /\ 1 + a - 1 = a /\ 0 + 1 = 1
        BY <1>2
      <4>4. SubSeq(SubSeq(text, 1, b), 1, a) = SubSeq(text, 1, a)
        BY ONLY <4>2, <4>3
      <4> QED BY <1>15, <1>16, <2>1, <4>3, <4>4 DEF Slice
    <3> QED BY <3>1, <3>2
  <2>4. Slice(out, b, b) = <<>>
    BY <1>2, SubSeqEmpty DEF Slice
  <2>5. out # Panic /\ ~(f.end > Len(out)) /\ f.end = b /\ f.start = a
    BY <1>2, <2>2
  <2>6. Splice(out, f) = (l \o r) \o <<>>
    BY <1>2, <2>2, <2>3, <2>4, <2>5 DEF Splice
  <2>7. (l \o r) \o <<>> = l \o r
    <3>1. PICK t : t = l \o r
      OBVIOUS
    <3>2. t \in Seq(C)
      BY <1>18, <3>1
    <3>3. t \o <<>> = t
      BY ONLY <3>2, ConcatEmptySeq
    <3> QED BY <3>1, <3>3
  <2> QED BY <1>19, <2>1, <2>6, <2>7
<1>21. Len(g[b]) = b
  <2>1. b \in Nat /\ 0 \in Nat /\ 0 <= b /\ b <= Len(text) /\ text \in Seq(C)
    BY <1>2
  <2>2. Len(Slice(text, 0, b)) = b - 0
    BY ONLY <2>1 DEF Slice
  <2> QED BY <1>2, <1>15, <2>2 DEF Slice
<1>22. Splice(g[n], f) = h[n]
  <2> DEFINE G == {i \in 0 .. n : i >= b => Len(g[i]) >= b /\ Splice(g[i], f) = h[i]}
  <2>1. 0 \in G
    BY <1>2
  <2>2. ASSUME NEW i \in 1 .. n, i - 1 \in G PROVE i \in G
    <3>1. CASE i < b
      BY <1>2, <3>1
    <3>2. CASE i = b
      BY <1>2, <1>20, <1>21, <3>2
    <3>3. CASE i > b
      <4>1. i - 1 >= b /\ i \in b + 1 .. n /\ i - 1 \in 0 .. n
        BY <1>2, <3>3
      <4>2. PICK out, t : out = g[i - 1] /\ t = p[i]
        OBVIOUS
      <4>3. out \in Seq(C) /\ t \in Seq(C)
        BY <1>5, <1>13, <4>1, <4>2
      <4>4. Len(out) >= b /\ Splice(out, f) = h[i - 1]
        BY <2>2, <4>1, <4>2
      <4>5. g[i] = out \o t /\ h[i] = h[i - 1] \o t
        BY <1>12, <1>13, <1>14, <4>1, <4>2
      <4>6. /\ f.start \in Nat /\ f.end \in Nat /\ f.start < f.end /\ f.end <= Len(out) /\ Replacement(f) \in Seq(C)
            /\ Panic \notin Seq(C)
        BY <1>2, <4>3, <4>4
      <4>7. Splice(out \o t, f) = Splice(out, f) \o t
        BY ONLY <4>3, <4>6, SpliceAppend
      <4>8. Len(out \o t) >= b
        <5>1. Len(out \o t) = Len(out) + Len(t) /\ Len(out) \in Nat /\ Len(t) \in Nat
          BY <4>3, ConcatProperties
        <5> QED BY <1>2, <4>4, <5>1
      <4>9. Len(g[i]) >= b /\ Splice(g[i], f) = h[i]
        BY <4>4, <4>5, <4>7, <4>8
      <4> QED BY <4>9
    <3> QED BY <1>2, <3>1, <3>2, <3>3
  <2>3. \A i \in 0 .. n : i \in G
    <3> HIDE DEF G
    <3>1. \A i \in 1 .. n : i - 1 \in G => i \in G
      BY <2>2
    <3>2. n \in Nat
      OBVIOUS
    <3> QED BY ONLY <2>1, <3>1, <3>2, Upwards
  <2>4. n \in G
    <3> HIDE DEF G
    <3>1. n \in 0 .. n
      OBVIOUS
    <3> QED BY <2>3, <3>1
  <2> QED BY <1>2, <2>4
<1>23. Filled(text, fs, R) = g[n] /\ Filled(text, fs, S) = h[n]
  BY <1>4, <1>13, <1>14 DEF Filled
<1>24. h[n] \in Seq(C)
  BY <1>14
<1> QED BY <1>1, <1>3, <1>22, <1>23, <1>24

LEMMA PlacedReplaces ==
  ASSUME NEW C, Star \in C, NEW text \in Seq(C), NEW fs, Placed(fs, text), NEW k \in DOMAIN fs
  PROVE  Replacement(fs[k]) \in Seq(C)
<1>1. PICK f : f = fs[k]
  OBVIOUS
<1>2. PICK a \in Nat, b \in Nat : a = f.start /\ b = f.end /\ a < b /\ b <= Len(text) /\ f.match = Slice(text, a, b)
  BY <1>1 DEF Placed
<1>3. f.match \in Seq(C)
  <2>1. a \in Nat /\ b \in Nat /\ a <= b /\ b <= Len(text) /\ text \in Seq(C)
    BY <1>2
  <2>2. Slice(text, a, b) \in Seq(C)
    BY ONLY <2>1 DEF Slice
  <2> QED BY <1>2, <2>2
<1>4. PICK V : V = {Star} \cup {f.match[i] : i \in DOMAIN f.match}
  OBVIOUS
<1>5. Replacement(f) \in Seq(V) /\ V \subseteq C
  <2>1. \A i \in DOMAIN f.match : f.match[i] \in C
    BY <1>3
  <2>2. MadeOf(Replacement(f), f.match)
    BY ONLY <1>3, ReplacementDoes
  <2> QED BY <1>4, <2>1, <2>2 DEF MadeOf
<1>6. PICK m \in Nat : Replacement(f) \in [1 .. m -> V]
  BY <1>5
<1>7. Replacement(f) \in [1 .. m -> C]
  BY <1>5, <1>6
<1> QED BY <1>1, <1>7

LEMMA FilledNone ==
  ASSUME NEW C, NEW text \in Seq(C), NEW fs
  PROVE  Filled(text, fs, {}) = text
<1>1. PICK p : p = Pieces(text, fs, {})
  OBVIOUS
<1>2. p \in Seq(Seq(C)) /\ Len(p) = Len(text)
  BY <1>1, PiecesTyped
<1>3. PICK n \in Nat : n = Len(text) /\ DOMAIN text = 1 .. n
  OBVIOUS
<1>4. \E g \in [0 .. n -> Seq(C)] : g[0] = <<>> /\ (\A i \in 1 .. n : g[i] = g[i - 1] \o p[i]) /\ FlattenSeq(p) = g[n]
  <2>1. p \in Seq(Seq(C))
    BY <1>2
  <2>2. n = Len(p)
    BY <1>2, <1>3
  <2>3. n \in Nat
    OBVIOUS
  <2> QED BY ONLY <2>1, <2>2, <2>3, Unrolled, ZenonT(60)
<1>5. PICK g : Unrolls(g, p, n, C) /\ FlattenSeq(p) = g[n]
  BY <1>4 DEF Unrolls
<1>6. AsItWas(p, text, n)
  <2>1. \A i : Covering(i, fs, {}) = {}
    BY DEF Covering
  <2>2. \A i \in 1 .. n : Piece(i, text, fs, {}) = <<text[i]>>
    BY <2>1 DEF Piece
  <2> QED BY <1>1, <1>3, <2>2 DEF AsItWas, Pieces
<1>7. g[n] = SubSeq(text, 1, n)
  <2>1. text \in Seq(C) /\ n \in Nat /\ n \in 0 .. n /\ n <= Len(text)
    BY <1>3
  <2> QED BY ONLY <1>5, <1>6, <2>1, Untouched
<1>8. SubSeq(text, 1, Len(text)) = text
  BY SubSeqFull
<1> QED BY <1>1, <1>3, <1>5, <1>7, <1>8 DEF Filled

LEMMA SubstitutedIs ==
  ASSUME NEW text, NEW fs
  PROVE  Substituted(text, fs) = Filled(text, fs, Rewritten(fs))
<1>1. \A i : {k \in DOMAIN fs : Transforms(fs[k]) /\ i > fs[k].start /\ i <= fs[k].end} = Covering(i, fs, Rewritten(fs))
  BY DEF Covering, Rewritten
<1> DEFINE Cov(i) == {k \in DOMAIN fs : Transforms(fs[k]) /\ i > fs[k].start /\ i <= fs[k].end}
           At(i) == LET f == fs[CHOOSE k \in Cov(i) : TRUE]
                    IN  IF Cov(i) = {} THEN <<text[i]>> ELSE IF i = f.start + 1 THEN Replacement(f) ELSE <<>>
<1>2. Substituted(text, fs) = FlattenSeq([i \in DOMAIN text |-> At(i)])
  BY DEF Substituted
<1>3. ASSUME NEW i PROVE At(i) = Piece(i, text, fs, Rewritten(fs))
  <2>1. Cov(i) = Covering(i, fs, Rewritten(fs))
    BY <1>1
  <2> HIDE DEF Cov
  <2> QED BY <2>1 DEF Piece
<1>4. [i \in DOMAIN text |-> At(i)] = Pieces(text, fs, Rewritten(fs))
  <2> HIDE DEF At
  <2> QED BY <1>3 DEF Pieces
<1> HIDE DEF At
<1> QED BY <1>2, <1>4 DEF Filled

(* By induction along the splices, the foremost last. *)
LEMMA ApplySubstitutes ==
  ASSUME NEW C, Star \in C, Panic \notin Seq(C), NEW text \in Seq(C), NEW fs, Placed(fs, text)
  PROVE  ApplyTransformations(text, fs) = Substituted(text, fs)
<1>1. PICK I : I = Rewritten(fs)
  OBVIOUS
<1>2. PICK n \in Nat : DOMAIN fs = 1 .. n
  BY DEF Placed, Listed
<1>3. I \subseteq DOMAIN fs /\ IsFiniteSet(I)
  <2>1. IsFiniteSet(1 .. n)
    BY FS_Interval
  <2>2. I \subseteq 1 .. n
    BY <1>1, <1>2 DEF Rewritten
  <2> QED BY <1>2, <2>1, <2>2, FS_Subset
<1>4. ASSUME NEW k \in DOMAIN fs
      PROVE  /\ fs[k].start \in Nat /\ fs[k].end \in Nat /\ fs[k].start < fs[k].end /\ fs[k].end <= Len(text)
             /\ Replacement(fs[k]) \in Seq(C) /\ Spliceable(fs[k], C)
  <2>1. /\ fs[k].start \in Nat /\ fs[k].end \in Nat /\ fs[k].start < fs[k].end /\ fs[k].end <= Len(text)
        /\ fs[k].match = Slice(text, fs[k].start, fs[k].end)
    BY DEF Placed
  <2>2. Replacement(fs[k]) \in Seq(C)
    BY PlacedReplaces
  <2>3. fs[k].match \in Seq(C)
    <3>1. PICK a \in Nat, b \in Nat : a = fs[k].start /\ b = fs[k].end /\ a <= b /\ b <= Len(text)
      BY <2>1
    <3>2. Slice(text, a, b) \in Seq(C)
      BY ONLY <3>1, text \in Seq(C) DEF Slice
    <3> QED BY <2>1, <3>1, <3>2
  <2>4. fs[k].start <= fs[k].end
    BY <2>1
  <2> QED BY <2>1, <2>2, <2>3, <2>4 DEF Spliceable
<1>5. Listed(fs)
  BY DEF Placed
<1>6. PICK h : SplicedTo(h, text, fs, I) /\ ApplyTransformations(text, fs) = h[I]
  <2>1. Listed(fs) /\ \A i \in DOMAIN fs : Spliceable(fs[i], C)
    BY <1>4, <1>5
  <2>2. \E h \in [SUBSET Rewritten(fs) -> Seq(C) \cup {Panic}] :
           SplicedTo(h, text, fs, Rewritten(fs)) /\ ApplyTransformations(text, fs) = h[Rewritten(fs)]
    BY ONLY <2>1, Star \in C, text \in Seq(C), SpliceLoop, ZenonT(60)
  <2> QED BY <1>1, <2>2
<1> DEFINE p == [S \in SUBSET I |-> Foremost(fs, S)]
           G == {S \in SUBSET I : h[S] = Filled(text, fs, S)}
<1>7. ASSUME NEW S \in SUBSET I, S # {}
      PROVE  p[S] = Foremost(fs, S) /\ Foremost(fs, S) \in S /\ \A j \in S : fs[Foremost(fs, S)].start <= fs[j].start
  <2>1. S \subseteq DOMAIN fs /\ \A i \in S : fs[i].start \in Nat
    BY <1>3, <1>4
  <2> QED BY <1>5, <1>7, <2>1, ForemostIs
<1>8. Picks(p, I)
  BY <1>7 DEF Picks
<1>9. {} \in G
  <2>1. h[{}] = text
    BY <1>6 DEF SplicedTo
  <2> QED BY <2>1, FilledNone
<1>10. ASSUME NEW S \in SUBSET I, S # {} /\ S \ {p[S]} \in G PROVE S \in G
  <2>1. PICK x : x = Foremost(fs, S)
    OBVIOUS
  <2>2. p[S] = x /\ x \in S /\ \A j \in S : fs[x].start <= fs[j].start
    BY <1>7, <1>10, <2>1
  <2>3. h[S \ {x}] = Filled(text, fs, S \ {x})
    BY <1>10, <2>2
  <2>4. h[S] = Splice(h[S \ {x}], fs[x])
    BY <1>6, <1>10, <2>1 DEF SplicedTo
  <2>5. \A k \in S : /\ fs[k].start \in Nat /\ fs[k].end \in Nat /\ fs[k].start < fs[k].end /\ fs[k].end <= Len(text)
                     /\ Replacement(fs[k]) \in Seq(C)
    BY <1>3, <1>4
  <2>6. ASSUME NEW k \in S \ {x} PROVE fs[x].end <= fs[k].start
    <3>1. ~overlaps(fs[x], fs[k])
      BY <1>3, <2>2 DEF Placed
    <3>2. fs[x].start <= fs[k].start /\ fs[k].start < fs[k].end
      BY <2>2, <2>5
    <3>3. /\ fs[x].start \in Nat /\ fs[x].end \in Nat /\ fs[k].start \in Nat /\ fs[k].end \in Nat
      BY <2>2, <2>5
    <3> QED BY <3>1, <3>2, <3>3 DEF overlaps
  <2>7. Filled(text, fs, S) = Splice(Filled(text, fs, S \ {x}), fs[x])
    <3>1. x \in S
      BY <2>2
    <3>2. Fillable(fs, S, text, C)
      BY <2>5 DEF Fillable
    <3>3. Before(fs[x], fs, S \ {x})
      BY <2>6 DEF Before
    <3> HIDE DEF p, G
    <3> QED BY ONLY <3>1, <3>2, <3>3, text \in Seq(C), Panic \notin Seq(C), FilledMore
  <2> QED BY <2>3, <2>4, <2>7
<1>11. \A S \in SUBSET I : S \in G
  <2> HIDE DEF p, G
  <2>1. \A S \in SUBSET I : S # {} /\ S \ {p[S]} \in G => S \in G
    BY <1>10
  <2>2. IsFiniteSet(I)
    BY <1>3
  <2> QED BY ONLY <2>2, <1>8, <1>9, <2>1, Peeled
<1>12. h[I] = Filled(text, fs, I)
  BY <1>11
<1> QED BY <1>1, <1>6, <1>12, SubstitutedIs

(* What is substituted depends on the findings, not on how they are listed.   *)
LEMMA SubstitutedSame ==
  ASSUME NEW text, NEW fs, NEW gs, \A e : In(e, fs) <=> In(e, gs),
         \A k, l \in DOMAIN fs : fs[k] # fs[l] => ~overlaps(fs[k], fs[l]),
         \A k \in DOMAIN fs : Stretch(fs[k]), NEW n \in Nat, DOMAIN text = 1 .. n
  PROVE  Substituted(text, fs) = Substituted(text, gs)
<1>1. PICK X, Y : X = Rewritten(fs) /\ Y = Rewritten(gs)
  OBVIOUS
<1>2. ASSUME NEW k \in Y PROVE \E l \in X : fs[l] = gs[k]
  <2>1. k \in DOMAIN gs /\ Transforms(gs[k])
    BY <1>1 DEF Rewritten
  <2>2. In(gs[k], fs)
    BY <2>1 DEF In
  <2>3. PICK l \in DOMAIN fs : fs[l] = gs[k]
    BY <2>2 DEF In
  <2> QED BY <1>1, <2>1, <2>3 DEF Rewritten
<1>3. ASSUME NEW k \in X PROVE \E l \in Y : gs[l] = fs[k]
  <2>1. k \in DOMAIN fs /\ Transforms(fs[k])
    BY <1>1 DEF Rewritten
  <2>2. In(fs[k], gs)
    BY <2>1 DEF In
  <2>3. PICK l \in DOMAIN gs : gs[l] = fs[k]
    BY <2>2 DEF In
  <2> QED BY <1>1, <2>1, <2>3 DEF Rewritten
<1>4. ASSUME NEW i \in 1 .. n PROVE Piece(i, text, fs, X) = Piece(i, text, gs, Y)
  <2>1. PICK k, l : k = (CHOOSE k2 \in Covering(i, fs, X) : TRUE) /\ l = (CHOOSE l2 \in Covering(i, gs, Y) : TRUE)
    OBVIOUS
  <2>2. Covering(i, fs, X) = {} <=> Covering(i, gs, Y) = {}
    <3>1. ASSUME NEW j \in Covering(i, gs, Y) PROVE Covering(i, fs, X) # {}
      BY <1>2 DEF Covering
    <3>2. ASSUME NEW j \in Covering(i, fs, X) PROVE Covering(i, gs, Y) # {}
      BY <1>3 DEF Covering
    <3> QED BY <3>1, <3>2
  <2>3. CASE Covering(i, fs, X) = {}
    BY <2>2, <2>3 DEF Piece
  <2>4. CASE Covering(i, fs, X) # {}
    <3>1. k \in Covering(i, fs, X) /\ l \in Covering(i, gs, Y)
      BY <2>1, <2>2, <2>4
    <3>2. k \in X /\ i > fs[k].start /\ i <= fs[k].end /\ l \in Y /\ i > gs[l].start /\ i <= gs[l].end
      BY <3>1 DEF Covering
    <3>3. PICK m \in X : fs[m] = gs[l]
      BY <1>2, <3>2
    <3>4. k \in DOMAIN fs /\ m \in DOMAIN fs
      BY <1>1, <3>2 DEF Rewritten
    <3>5. overlaps(fs[k], fs[m])
      <4>1. Stretch(fs[k]) /\ Stretch(fs[m])
        BY <3>4
      <4> QED BY <3>2, <3>3, <4>1 DEF Stretch, overlaps
    <3>6. fs[k] = gs[l]
      BY <3>3, <3>4, <3>5
    <3>7. Piece(i, text, fs, X) = IF i = fs[k].start + 1 THEN Replacement(fs[k]) ELSE <<>>
      BY <2>1, <2>4 DEF Piece
    <3>8. Piece(i, text, gs, Y) = IF i = gs[l].start + 1 THEN Replacement(gs[l]) ELSE <<>>
      BY <2>1, <2>2, <2>4 DEF Piece
    <3> QED BY <3>6, <3>7, <3>8
  <2> QED BY <2>3, <2>4
<1>5. Pieces(text, fs, X) = Pieces(text, gs, Y)
  BY <1>4 DEF Pieces
<1> QED BY <1>1, <1>5, SubstitutedIs DEF Filled

-----------------------------------------------------------------------------
(* What a document's string becomes.  Where every string has a path of its    *)
(* own, the findings that were spliced are those of its path.               *)
OwnPaths(doc) ==
    \A k, l \in DOMAIN doc.leaves : k # l => PathOf(doc.leaves[k].steps) \notin {<<>>, PathOf(doc.leaves[l].steps)}
OnPath(s, path) == Such(s, LAMBDA f : f.path = path)

LEMMA OnPathDoes ==
  ASSUME NEW s, Listed(s), NEW path
  PROVE  \A e : In(e, OnPath(s, path)) <=> In(e, s) /\ e.path = path
<1>1. PICK T : T = {s[i] : i \in DOMAIN s}
  OBVIOUS
<1>2. s \in Seq(T)
  BY <1>1 DEF Listed
<1>3. PICK P : P = {e \in T : e.path = path}
  OBVIOUS
<1>4. OnPath(s, path) = Those(s, P)
  <2>1. \A i \in DOMAIN s : s[i] \in P <=> s[i].path = path
    BY <1>1, <1>3
  <2>2. [i \in DOMAIN s |-> IF s[i] \in P THEN <<s[i]>> ELSE <<>>]
           = [i \in DOMAIN s |-> IF s[i].path = path THEN <<s[i]>> ELSE <<>>]
    BY <2>1
  <2> QED BY <2>2 DEF OnPath, Such, Those
<1>5. \A e : In(e, Those(s, P)) <=> In(e, s) /\ e \in P
  BY <1>2, Kept
<1>6. \A e : In(e, s) => e \in T
  BY <1>1 DEF In
<1> QED BY <1>3, <1>4, <1>5, <1>6

LEMMA LeafSubstituted ==
  ASSUME NEW C, Star \in C, Panic \notin Seq(C), NEW doc \in Documents(C), OwnPaths(doc),
         NEW found, Listed(found), Disjoint(found), \A e : In(e, found) => OfDocument(e, doc), NEW m \in DOMAIN doc.leaves
  PROVE  RewriteDocument(doc, found).leaves[m].text
           = Substituted(doc.leaves[m].text, OnPath(found, PathOf(doc.leaves[m].steps)))
<1>1. PICK text, path : text = doc.leaves[m].text /\ path = PathOf(doc.leaves[m].steps)
  OBVIOUS
<1>2. text \in Seq(C)
  BY <1>1, DocumentIs
<1>3. PICK fs : /\ RewriteDocument(doc, found).leaves[m].text = ApplyTransformations(text, fs)
                /\ Placed(fs, text)
                /\ \A e : (In(e, found) /\ Fits(e, text, path)) => In(e, fs)
                /\ \A e : In(e, fs) => In(e, found) /\ e.path = path
  BY <1>1, LeafRewritten
<1>4. ApplyTransformations(text, fs) = Substituted(text, fs)
  BY <1>2, <1>3, ApplySubstitutes
<1>5. PICK gs : gs = OnPath(found, path)
  OBVIOUS
<1>6. \A e : In(e, gs) <=> In(e, found) /\ e.path = path
  BY <1>5, OnPathDoes
<1>7. ASSUME NEW e, In(e, found), e.path = path PROVE In(e, fs)
  <2>1. PICK l \in DOMAIN doc.leaves : Fits(e, doc.leaves[l].text, PathOf(doc.leaves[l].steps))
    BY <1>7 DEF OfDocument
  <2>2. PathOf(doc.leaves[l].steps) = PathOf(doc.leaves[m].steps)
    BY <1>1, <1>7, <2>1 DEF Fits
  <2>3. l = m
    BY <2>2 DEF OwnPaths
  <2> QED BY <1>1, <1>3, <1>7, <2>1, <2>3
<1>8. \A e : In(e, fs) <=> In(e, gs)
  BY <1>3, <1>6, <1>7
<1>9. /\ \A k, l \in DOMAIN fs : fs[k] # fs[l] => ~overlaps(fs[k], fs[l])
      /\ \A k \in DOMAIN fs : Stretch(fs[k])
  BY <1>3 DEF Placed, Stretch
<1>10. PICK n \in Nat : DOMAIN text = 1 .. n
  BY <1>2
<1>11. Substituted(text, fs) = Substituted(text, gs)
  BY <1>8, <1>9, <1>10, SubstitutedSame
<1> QED BY <1>1, <1>3, <1>4, <1>5, <1>11

(* A rewriting leaves the places of the strings. *)
LEMMA RewriteKeeps ==
  ASSUME NEW C, NEW doc \in Documents(C), NEW found
  PROVE  /\ DOMAIN RewriteDocument(doc, found).leaves = DOMAIN doc.leaves
         /\ \A l \in DOMAIN doc.leaves : RewriteDocument(doc, found).leaves[l].steps = doc.leaves[l].steps
<1>1. PICK R : R = [steps : Seq(Seq(Token)), text : Seq(C)]
  OBVIOUS
<1>2. PICK L : L = Seq(R)
  OBVIOUS
<1>3. doc \in [json : BOOLEAN, leaves : L] /\ \A l \in DOMAIN doc.leaves : doc.leaves[l] \in R
  BY <1>1, <1>2, DocumentIs DEF Documents
<1>4. PICK to : to = [l \in DOMAIN doc.leaves |->
            IF doc.json THEN RewriteLeaf(doc.leaves[l], found)
            ELSE [doc.leaves[l] EXCEPT !.text = ApplyTransformations(@, found)]]
  OBVIOUS
<1>5. RewriteDocument(doc, found).leaves = to
  BY <1>3, <1>4 DEF RewriteDocument
<1>6. ASSUME NEW l \in DOMAIN doc.leaves PROVE to[l].steps = doc.leaves[l].steps
  <2>1. doc.leaves[l] \in R
    BY <1>3
  <2>2. \A x : [doc.leaves[l] EXCEPT !.text = x].steps = doc.leaves[l].steps
    BY <1>1, <2>1
  <2>3. \E x : to[l] = [doc.leaves[l] EXCEPT !.text = x]
    BY <1>4 DEF RewriteLeaf
  <2> QED BY <2>2, <2>3
<1> QED BY <1>4, <1>5, <1>6

LEMMA OwnPathsKept ==
  ASSUME NEW C, NEW doc \in Documents(C), NEW found, OwnPaths(doc)
  PROVE  OwnPaths(RewriteDocument(doc, found))
BY RewriteKeeps DEF OwnPaths

LEMMA NoLeaves ==
  /\ OwnPaths(NoDoc) /\ OwnPaths(Withheld) /\ RewriteDocument(NoDoc, <<>>) = NoDoc
  /\ ApplyTransformations(<<>>, <<>>) = <<>>
<1>1. DOMAIN <<>> = {}
  OBVIOUS
<1>2. OwnPaths(NoDoc) /\ OwnPaths(Withheld)
  BY <1>1 DEF OwnPaths, NoDoc, Withheld
<1>3. RewriteDocument(NoDoc, <<>>) = NoDoc
  <2>1. PICK to : to = [l \in DOMAIN NoDoc.leaves |->
            IF NoDoc.json THEN RewriteLeaf(NoDoc.leaves[l], <<>>)
            ELSE [NoDoc.leaves[l] EXCEPT !.text = ApplyTransformations(@, <<>>)]]
    OBVIOUS
  <2>2. DOMAIN NoDoc.leaves = {}
    BY <1>1 DEF NoDoc
  <2>3. to = <<>>
    BY <2>1, <2>2
  <2>4. RewriteDocument(NoDoc, <<>>) = [NoDoc EXCEPT !.leaves = <<>>]
    BY <2>1, <2>3 DEF RewriteDocument
  <2> QED BY <2>4 DEF NoDoc
<1>4. ApplyTransformations(<<>>, <<>>) = <<>>
  <2>1. Star \in Shown /\ Panic \notin Seq(Shown) /\ <<>> \in Seq(Shown)
    BY ShownHas
  <2>2. PICK e : e = <<>>
    OBVIOUS
  <2>3. Placed(e, e) /\ Rewritten(e) = {} /\ e \in Seq(Shown)
    BY <1>1, <2>1, <2>2, ShownHas DEF Placed, Rewritten
  <2>4. ApplyTransformations(e, e) = Substituted(e, e)
    BY <2>1, <2>3, ApplySubstitutes
  <2>5. Substituted(e, e) = Filled(e, e, {})
    BY <2>3, SubstitutedIs
  <2>6. Filled(e, e, {}) = e
    BY <2>3, FilledNone
  <2> QED BY <2>2, <2>4, <2>5, <2>6
<1> QED BY <1>2, <1>3, <1>4

(* A name is a document of one string. *)
LEMMA NameSubstituted ==
  ASSUME NEW name \in Seq(Shown), NEW named, Listed(named), Disjoint(named),
         \A e : In(e, named) => OfDocument(e, NameDoc(name))
  PROVE  ApplyTransformations(name, named) = Substituted(name, named)
<1>1. PICK path : path = PathOf(<<<<"task_name">>>>)
  OBVIOUS
<1>2. ASSUME NEW i \in DOMAIN named PROVE Fits(named[i], name, path)
  <2>1. In(named[i], named)
    BY DEF In
  <2>2. PICK l \in DOMAIN NameDoc(name).leaves : Fits(named[i], NameDoc(name).leaves[l].text, PathOf(NameDoc(name).leaves[l].steps))
    BY <2>1 DEF OfDocument
  <2>3. l = 1
    BY <2>2 DEF NameDoc
  <2>4. NameDoc(name).leaves[1].text = name /\ NameDoc(name).leaves[1].steps = <<<<"task_name">>>>
    BY DEF NameDoc
  <2> QED BY <1>1, <2>2, <2>3, <2>4
<1>3. \A i, j \in DOMAIN named : i # j => ~overlaps(named[i], named[j])
  BY <1>2 DEF Disjoint, SamePlace, Fits
<1>4. Placed(named, name)
  BY <1>2, <1>3 DEF Placed, Fits
<1> QED BY <1>4, ShownHas, ApplySubstitutes

-----------------------------------------------------------------------------
(* A finding that is at no other's place comes through. *)
LEMMA Survives ==
  ASSUME NEW s, Listed(s), NEW f, In(f, s), SamePlace(f, f), \A e : (In(e, s) /\ e # f) => ~SamePlace(e, f) /\ ~SamePlace(f, e)
  PROVE  In(f, ResolveOverlaps(s))
<1>1. PICK T : T = {s[i] : i \in DOMAIN s}
  OBVIOUS
<1>2. s \in Seq(T) /\ \A e \in T : e # f => ~SamePlace(e, f) /\ ~SamePlace(f, e)
  BY <1>1 DEF Listed, In
<1>3. PICK n \in Nat : n = Len(s) /\ DOMAIN s = 1 .. n
  BY <1>2
<1>4. PICK k \in [0 .. n -> Seq(T)] : k[0] = <<>> /\ ResolveOverlaps(s) = k[n] /\ \A i \in 1 .. n : k[i] = Meet(k[i - 1], s[i])
  BY <1>2, <1>3, ResolveLoop
<1>5. PICK m \in 1 .. n : s[m] = f
  BY <1>3 DEF In
<1> DEFINE G == {i \in 0 .. n : m <= i => In(f, k[i])}
<1>6. 0 \in G
  BY <1>3
<1>7. ASSUME NEW i \in 1 .. n, i - 1 \in G PROVE i \in G
  <2>1. PICK K, c : K = k[i - 1] /\ c = s[i]
    OBVIOUS
  <2>2. K \in Seq(T) /\ k[i] = Meet(K, c) /\ c \in T
    BY <1>1, <1>3, <1>4, <2>1
  <2>3. PICK w \in Nat : w = Len(K) /\ DOMAIN K = 1 .. w /\ \A x \in 1 .. w : K[x] \in T
    BY <2>2
  <2>4. PICK conflicts : conflicts = {x \in DOMAIN K : SamePlace(c, K[x])}
    OBVIOUS
  <2>5. PICK first : first = CHOOSE x \in conflicts : \A y \in conflicts : x <= y
    OBVIOUS
  <2>6. Meet(K, c) = CASE conflicts = {}                                -> Append(K, c)
                       [] conflicts # {} /\ winsOver(c, K[first]) -> [K EXCEPT ![first] = c]
                       [] OTHER                                  -> K
    BY <2>4, <2>5 DEF Meet
  <2>7. conflicts # {} => first \in conflicts
    <3>1. conflicts \in SUBSET Nat
      BY <2>3, <2>4
    <3> QED BY <2>5, <3>1, LeastOf
  <2>8. \/ k[i] = Append(K, c) /\ conflicts = {}
        \/ first \in conflicts /\ k[i] \in {K, [K EXCEPT ![first] = c]}
    BY <2>2, <2>6, <2>7
  <2>9. m <= i => i = m \/ m <= i - 1
    BY <1>3
  <2>10. CASE k[i] = Append(K, c) /\ conflicts = {}
    <3>1. DOMAIN k[i] = 1 .. w + 1 /\ k[i][w + 1] = c /\ \A x \in 1 .. w : k[i][x] = K[x]
      BY <2>2, <2>3, <2>10
    <3>2. ASSUME In(f, K) PROVE In(f, k[i])
      <4>1. PICK x \in 1 .. w : K[x] = f
        BY <2>3, <3>2 DEF In
      <4>2. x \in 1 .. w + 1 /\ k[i][x] = f
        BY <3>1, <4>1
      <4> QED BY <3>1, <4>2 DEF In
    <3>3. ASSUME c = f PROVE In(f, k[i])
      <4>1. w + 1 \in 1 .. w + 1
        OBVIOUS
      <4> QED BY <3>1, <3>3, <4>1 DEF In
    <3> QED BY <1>3, <1>5, <1>7, <2>1, <2>9, <3>2, <3>3
  <2>11. CASE first \in conflicts /\ k[i] \in {K, [K EXCEPT ![first] = c]}
    <3>1. first \in 1 .. w /\ SamePlace(c, K[first]) /\ K[first] \in T
      BY <2>3, <2>4, <2>11
    <3>2. K[first] = f <=> c = f
      BY <1>2, <2>2, <3>1
    <3>3. ASSUME NEW x \in 1 .. w, K[x] = f PROVE In(f, k[i])
      <4>1. CASE k[i] = K
        BY <2>3, <3>3, <4>1 DEF In
      <4>2. CASE k[i] = [K EXCEPT ![first] = c]
        <5>1. DOMAIN k[i] = 1 .. w /\ k[i][x] = IF x = first THEN c ELSE K[x]
          BY <2>2, <2>3, <3>1, <4>2
        <5>2. k[i][x] = f
          BY <3>2, <3>3, <5>1
        <5> QED BY <5>1, <5>2 DEF In
      <4> QED BY <2>11, <4>1, <4>2
    <3>4. In(f, K) => In(f, k[i])
      BY <2>3, <3>3 DEF In
    <3>5. c = f => In(f, k[i])
      BY <3>1, <3>2, <3>3
    <3> QED BY <1>3, <1>5, <1>7, <2>1, <2>9, <3>4, <3>5
  <2> QED BY <2>8, <2>10, <2>11
<1>8. n \in G
  <2> HIDE DEF G
  <2>1. \A i \in 1 .. n : i - 1 \in G => i \in G
    BY <1>7
  <2>2. \A i \in 0 .. n : i \in G
    BY ONLY <1>3, <1>6, <2>1, Upwards
  <2> QED BY <1>3, <2>2
<1> QED BY <1>4, <1>5, <1>8

LEMMA OnlyOne ==
  ASSUME NEW s, Listed(s), Len(s) = 1
  PROVE  \A e : In(e, s) <=> e = s[1]
BY ListedHas DEF In

(* What a document's scan keeps of a string in which one value was found. *)
LEMMA AloneFound ==
  ASSUME NEW C, NEW doc \in Documents(C), OwnPaths(doc), NEW source, NEW policy, policy.detectors \in Seq(Detector),
         NEW m \in DOMAIN doc.leaves, NEW text, NEW path, text = doc.leaves[m].text, path = PathOf(doc.leaves[m].steps),
         NEW alone, alone = Detect(text, path, source, policy), Len(alone) = 1, NEW f, f = alone[1], Transforms(f)
  PROVE  /\ Listed(Evaluate(doc, source, policy)) /\ In(f, Evaluate(doc, source, policy)) /\ Fits(f, text, path)
         /\ \A e : (In(e, Evaluate(doc, source, policy)) /\ e.path = path) => e = f
<1>1. PICK all : all = DetectDocument(doc, source, policy)
  OBVIOUS
<1>2. Listed(alone) /\ text \in Seq(C)
  BY DocumentIs, DetectFinds
<1>3. \A e : In(e, alone) <=> e = f
  BY <1>2, OnlyOne
<1>4. Listed(all) /\ In(f, all) /\ Fits(f, text, path)
  BY <1>1, <1>3, DocumentFinds
<1>5. ASSUME NEW e, In(e, all), e # f PROVE e.path # path /\ ~SamePlace(e, f) /\ ~SamePlace(f, e)
  <2>1. PICK l \in DOMAIN doc.leaves : /\ In(e, Detect(doc.leaves[l].text, PathOf(doc.leaves[l].steps), source, policy))
                                       /\ Fits(e, doc.leaves[l].text, PathOf(doc.leaves[l].steps))
    BY <1>1, <1>5, DocumentFinds
  <2>2. l # m
    BY <1>3, <1>5, <2>1
  <2>3. e.path = PathOf(doc.leaves[l].steps) /\ f.path = path
    BY <1>4, <2>1 DEF Fits
  <2>4. e.path \notin {<<>>, path} /\ path # <<>>
    BY <2>2, <2>3 DEF OwnPaths
  <2> QED BY <2>3, <2>4 DEF SamePlace
<1>6. SamePlace(f, f)
  BY <1>4 DEF Fits, SamePlace, overlaps
<1>7. /\ In(f, ResolveOverlaps(all)) /\ Listed(ResolveOverlaps(all))
      /\ \A e : In(e, ResolveOverlaps(all)) => In(e, all)
  <2>1. \A e : (In(e, all) /\ e # f) => ~SamePlace(e, f) /\ ~SamePlace(f, e)
    BY <1>5
  <2> QED BY <1>4, <1>6, <2>1, Survives, Resolved
<1>8. f.rule.action # "IGNORE"
  BY DEF Transforms
<1>9. /\ Listed(Evaluate(doc, source, policy)) /\ In(f, Evaluate(doc, source, policy))
      /\ \A e : In(e, Evaluate(doc, source, policy)) => In(e, all)
  BY <1>1, <1>7, <1>8, DropIgnoredDoes DEF Evaluate
<1> QED BY <1>4, <1>5, <1>9

(* A text with one finding of it is spliced once. *)
LEMMA SplicedOnce ==
  ASSUME NEW C, Star \in C, NEW text \in Seq(C), NEW fs, Listed(fs), NEW f, Spliceable(f, C), Transforms(f),
         In(f, fs), \A e : In(e, fs) => e = f, \A i, j \in DOMAIN fs : i = j
  PROVE  ApplyTransformations(text, fs) = Splice(text, f)
<1>1. PICK x \in DOMAIN fs : fs[x] = f
  BY DEF In
<1>2. DOMAIN fs = {x} /\ \A i \in DOMAIN fs : fs[i] = f
  BY <1>1 DEF In
<1>3. Rewritten(fs) = {x}
  BY <1>2 DEF Rewritten
<1>4. \A i \in DOMAIN fs : Spliceable(fs[i], C)
  BY <1>2
<1>5. PICK h : SplicedTo(h, text, fs, {x}) /\ ApplyTransformations(text, fs) = h[{x}]
  <2>1. \E h \in [SUBSET Rewritten(fs) -> Seq(C) \cup {Panic}] :
           SplicedTo(h, text, fs, Rewritten(fs)) /\ ApplyTransformations(text, fs) = h[Rewritten(fs)]
    BY ONLY <1>4, Star \in C, text \in Seq(C), Listed(fs), SpliceLoop, ZenonT(60)
  <2> QED BY <1>3, <2>1
<1>6. Foremost(fs, {x}) = x
  <2>1. \A i \in {x} : fs[i].start \in Nat
    BY <1>1 DEF Spliceable
  <2>2. {x} \subseteq DOMAIN fs /\ {x} # {}
    BY <1>2
  <2>3. Foremost(fs, {x}) \in {x}
    BY <2>1, <2>2, ForemostIs
  <2> QED BY <2>3
<1>7. h[{}] = text /\ h[{x}] = Splice(h[{x} \ {Foremost(fs, {x})}], fs[Foremost(fs, {x})])
  <2>1. {x} \in SUBSET {x} /\ {x} # {}
    OBVIOUS
  <2> QED BY <1>5, <2>1 DEF SplicedTo
<1>8. {x} \ {x} = {}
  OBVIOUS
<1> QED BY <1>1, <1>5, <1>6, <1>7, <1>8

(* The string it was found in, then, is spliced once. *)
LEMMA SplicedAlone ==
  ASSUME NEW C, Star \in C, NEW doc \in Documents(C), doc.json, NEW found, Listed(found), NEW m \in DOMAIN doc.leaves,
         NEW f, In(f, found), Fits(f, doc.leaves[m].text, PathOf(doc.leaves[m].steps)), Transforms(f), Spliceable(f, C),
         \A e : (In(e, found) /\ e.path = PathOf(doc.leaves[m].steps)) => e = f
  PROVE  RewriteDocument(doc, found).leaves[m].text = Splice(doc.leaves[m].text, f)
<1>1. PICK leaf : leaf = doc.leaves[m]
  OBVIOUS
<1>2. PICK mine : mine = Mine(leaf, found)
  OBVIOUS
<1>3. Listed(mine) /\ \A e : In(e, mine) <=> e = f
  <2>1. Listed(mine) /\ \A e : In(e, mine) <=> In(e, found) /\ IsMine(e, leaf)
    BY <1>2, MineDoes
  <2>2. IsMine(f, leaf)
    BY <1>1 DEF IsMine, Fits
  <2>3. \A e : (In(e, found) /\ IsMine(e, leaf)) => e = f
    BY <1>1 DEF IsMine
  <2> QED BY <2>1, <2>2, <2>3
<1>4. SamePlace(f, f)
  BY DEF Fits, SamePlace, overlaps
<1>5. Apart(mine)
  BY <1>3, <1>4 DEF Apart, In
<1>6. PICK fs : fs = ResolveOverlaps(mine)
  OBVIOUS
<1>7. Listed(fs) /\ Disjoint(fs) /\ In(f, fs) /\ \A e : In(e, fs) => e = f
  BY <1>3, <1>5, <1>6, Resolved, ResolvedApart
<1>8. \A i, j \in DOMAIN fs : i = j
  BY <1>4, <1>7 DEF Disjoint, In
<1>9. leaf.text \in Seq(C) /\ leaf \in [steps : Seq(Seq(Token)), text : Seq(C)]
  BY <1>1, DocumentIs
<1>10. ApplyTransformations(leaf.text, fs) = Splice(leaf.text, f)
  BY <1>7, <1>8, <1>9, SplicedOnce
<1>11. RewriteDocument(doc, found).leaves[m].text = ApplyTransformations(leaf.text, fs)
  <2>1. PICK to : to = [l \in DOMAIN doc.leaves |->
            IF doc.json THEN RewriteLeaf(doc.leaves[l], found)
            ELSE [doc.leaves[l] EXCEPT !.text = ApplyTransformations(@, found)]]
    OBVIOUS
  <2>2. RewriteDocument(doc, found).leaves = to
    <3>1. PICK L : L = Seq([steps : Seq(Seq(Token)), text : Seq(C)])
      OBVIOUS
    <3>2. doc \in [json : BOOLEAN, leaves : L]
      BY <3>1 DEF Documents
    <3>3. RewriteDocument(doc, found) = [doc EXCEPT !.leaves = to]
      BY <2>1 DEF RewriteDocument
    <3> QED BY <3>2, <3>3
  <2>3. to[m] = [leaf EXCEPT !.text = ApplyTransformations(leaf.text, fs)]
    BY <1>1, <1>2, <1>6, <2>1 DEF RewriteLeaf
  <2> QED BY <1>9, <2>2, <2>3
<1> QED BY <1>1, <1>10, <1>11

-----------------------------------------------------------------------------
(* A value with a letter or a digit is not its own replacement. *)
HasAlphanumeric(value) == \E i \in DOMAIN value : IsAlphanumeric(value[i])

LEMMA ReplacementChanges ==
  ASSUME NEW f, HasAlphanumeric(f.match)
  PROVE  Replacement(f) # f.match
<1>1. PICK v, i : v = f.match /\ i \in DOMAIN v /\ IsAlphanumeric(v[i])
  BY DEF HasAlphanumeric
<1>2. ~IsAlphanumeric(Star)
  BY DEF IsAlphanumeric, Star
<1>3. maskAll(v) # v
  <2>1. maskAll(v)[i] = Star
    BY <1>1 DEF maskAll
  <2> QED BY <1>1, <1>2, <2>1
<1>4. Marker # v
  <2>1. \A k \in DOMAIN Marker : Marker[k] = Star
    BY DEF Marker
  <2> QED BY <1>1, <1>2, <2>1
<1>5. Mask(v, f.rule.mask) # v
  BY <1>1, <1>3 DEF Mask
<1> QED BY <1>1, <1>4, <1>5 DEF Replacement

(* A splice of a value that changes changes the text. *)
LEMMA SpliceChanges ==
  ASSUME NEW C, Star \in C, Panic \notin Seq(C), NEW text \in Seq(C), NEW f, NEW path, Fits(f, text, path), HasAlphanumeric(f.match)
  PROVE  Splice(text, f) # text
<1>1. PICK s \in Nat, e \in Nat, n \in Nat : s = f.start /\ e = f.end /\ n = Len(text) /\ s < e /\ e <= n /\ f.match = Slice(text, s, e)
  BY DEF Fits
<1>2. PICK v, r : v = f.match /\ r = Replacement(f) /\ v # r
  BY ReplacementChanges
<1>3. v \in Seq(C) /\ Len(v) = e - s /\ \A i \in 1 .. e - s : v[i] = text[s + i]
  <2>1. s <= e /\ e <= Len(text)
    BY <1>1
  <2>2. v = Slice(text, s, e)
    BY <1>1, <1>2
  <2> QED BY ONLY text \in Seq(C), s \in Nat, e \in Nat, <2>1, <2>2, SliceIs
<1>4. r \in Seq(C)
  <2>1. Placed(<<f>>, text)
    <3>1. Listed(<<f>>) /\ DOMAIN <<f>> = {1} /\ <<f>>[1] = f
      <4>1. <<f>> \in Seq({f}) /\ DOMAIN <<f>> = {1} /\ <<f>>[1] = f
        OBVIOUS
      <4>2. Listed(<<f>>)
        BY <4>1, ListedIs
      <4> QED BY <4>1, <4>2
    <3> QED BY <3>1 DEF Placed, Fits
  <2>2. Replacement(<<f>>[1]) \in Seq(C)
    BY <2>1, PlacedReplaces
  <2> QED BY <1>2, <2>2
<1>5. PICK a, b : a = Slice(text, 0, s) /\ b = Slice(text, e, n)
  OBVIOUS
<1>6. a \in Seq(C) /\ Len(a) = s /\ b \in Seq(C) /\ Len(b) = n - e
  <2>1. 0 \in Nat /\ 0 <= s /\ s <= Len(text) /\ e <= n /\ n <= Len(text) /\ s - 0 = s
    BY <1>1
  <2>2. a \in Seq(C) /\ Len(a) = s
    BY ONLY text \in Seq(C), s \in Nat, <1>5, <2>1, SliceIs
  <2>3. b \in Seq(C) /\ Len(b) = n - e
    BY ONLY text \in Seq(C), e \in Nat, n \in Nat, <1>5, <2>1, SliceIs
  <2> QED BY <2>2, <2>3
<1>7. Splice(text, f) = a \o r \o b
  <2>1. text # Panic /\ ~(f.end > Len(text))
    BY <1>1
  <2> QED BY <1>1, <1>2, <1>5, <2>1 DEF Splice
<1>8. PICK c, d : c = a \o r /\ d = c \o b
  OBVIOUS
<1>9. /\ c \in Seq(C) /\ Len(c) = s + Len(r) /\ Len(r) \in Nat
      /\ \A i \in 1 .. Len(r) : c[s + i] = r[i]
  BY <1>4, <1>6, <1>8, Catenated
<1>10. Len(d) = Len(c) + (n - e) /\ \A i \in 1 .. Len(c) : d[i] = c[i]
  <2>1. b \in Seq(C) /\ c \in Seq(C) /\ d = c \o b
    BY <1>6, <1>8, <1>9
  <2>2. Len(d) = Len(c) + Len(b) /\ \A i \in 1 .. Len(c) : d[i] = c[i]
    BY ONLY <2>1, Catenated
  <2> QED BY <1>6, <2>2
<1>11. ASSUME d = text PROVE FALSE
  <2>1. PICK k \in Nat : k = Len(r)
    BY <1>9
  <2>2. Len(d) = n /\ Len(c) = s + k
    BY <1>1, <1>9, <1>11, <2>1
  <2>3. k = e - s
    <3>1. n = (s + k) + (n - e)
      BY <1>10, <2>2
    <3> QED BY ONLY <3>1, s \in Nat, e \in Nat, n \in Nat, k \in Nat
  <2>4. ASSUME NEW i \in 1 .. k PROVE r[i] = v[i]
    <3>1. s + i \in 1 .. Len(c)
      BY <2>2
    <3>2. d[s + i] = r[i]
      BY <1>9, <1>10, <2>1, <3>1
    <3> QED BY <1>3, <1>11, <2>3, <3>2
  <2>5. r = v
    <3>1. r \in Seq(C) /\ v \in Seq(C) /\ Len(r) = k /\ Len(v) = k
      BY <1>3, <1>4, <2>1, <2>3
    <3> QED BY <2>4, <3>1, SeqEqual
  <2> QED BY <1>2, <2>5
<1> QED BY <1>7, <1>8, <1>11

-----------------------------------------------------------------------------
(* What makes the stored text the substituted one.  What a request found are   *)
(* stretches of the text it scanned, which it keeps; up to its rewriting the   *)
(* text it works on is that text, and from then on the rewritten or withheld.  *)
TextFields == {"source", "doc", "name", "policy", "raw", "rawName", "found", "named"}
Written(r) ==
    /\ r.raw \in Documents(Shown) /\ r.rawName \in Seq(Shown)
    /\ \A e : In(e, r.found) => OfDocument(e, r.raw)
    /\ r.raw.json => r.found = Evaluate(r.raw, "JOB_PAYLOAD", r.policy)
    /\ \A e : In(e, r.named) => OfDocument(e, NameDoc(r.rawName))
    /\ r.source = "JOB_PAYLOAD" => r.rawName = <<>>
    /\ (r.at \in {"record", "vault"} /\ r.source = "JOB_PAYLOAD") => r.doc = r.raw
    /\ (r.source = "JOB_METADATA" \/ r.at \in {"name", "insert", "done"}) => r.doc \in {Withheld, RewriteDocument(r.raw, r.found)}
    /\ (r.source = "JOB_METADATA" /\ r.at \in {"record", "vault"}) => r.name = r.rawName
    /\ r.at \in {"insert", "done"} => r.name \in {NameWithheld, ApplyTransformations(r.rawName, r.named)}
OwnText(r) == OwnPaths(scenario.doc) => OwnPaths(r.doc) /\ OwnPaths(r.raw)
WrittenInv ==
    /\ \A c \in Requests : Written(req[c]) /\ OwnText(req[c])
    /\ \A j \in DOMAIN rows : rows[j].doc = req[j].doc

(* A step of one request, which is not done, and leaves the rows. *)
LEMMA WrittenMoves ==
  ASSUME WrittenInv, StatusInv, NEW c \in Requests, NEW r, Set(c, r), UNCHANGED <<scenario, rows>>, req[c].at # "done",
         Written(r), OwnText(r)
  PROVE  WrittenInv'
<1>1. req'[c] = r /\ Others(c)
  BY SetDoes DEF StatusInv
<1>2. \A d \in Requests : Written(req'[d]) /\ OwnText(req'[d])
  BY <1>1 DEF Others, WrittenInv
<1>3. \A d \in Requests : Written(req'[d]) /\ OwnText(req[d])'
  BY <1>2 DEF OwnText
<1>4. ASSUME NEW j \in DOMAIN rows' PROVE rows'[j].doc = req'[j].doc
  <2>1. j \in DOMAIN rows /\ rows'[j] = rows[j] /\ j \in Requests /\ req[j].at = "done"
    BY DEF StatusInv, Shape
  <2>2. req'[j] = req[j]
    BY <1>1, <2>1 DEF Others
  <2> QED BY <2>1, <2>2 DEF WrittenInv
<1> QED BY <1>3, <1>4 DEF WrittenInv

(* A request whose text a step leaves alone. *)
LEMMA WrittenStays ==
  ASSUME NEW q, NEW r, Written(q), OwnText(q), Alike(r, q, TextFields),
         \/ r.at = "failed" \/ r.at = q.at
         \/ {q.at, r.at} \subseteq {"record", "vault"} \/ {q.at, r.at} \subseteq {"insert", "done"}
  PROVE  Written(r) /\ OwnText(r)
<1>1. /\ r.source = q.source /\ r.doc = q.doc /\ r.name = q.name /\ r.raw = q.raw /\ r.rawName = q.rawName
      /\ r.found = q.found /\ r.named = q.named /\ r.policy = q.policy
  BY DEF Alike, TextFields
<1>2. OwnText(r)
  BY <1>1 DEF OwnText
<1>3. /\ r.at \in {"record", "vault"} => q.at \in {"record", "vault"}
      /\ r.at \in {"name", "insert", "done"} => q.at \in {"name", "insert", "done"}
      /\ r.at \in {"insert", "done"} => q.at \in {"insert", "done"}
  OBVIOUS
<1> QED BY <1>1, <1>2, <1>3 DEF Written

(* A request that begins. *)
LEMMA WrittenFresh ==
  ASSUME NEW r, Alike(r, Idle, Fields \ {"at", "doc", "name", "keyed", "reply"}), r.at \in {"idle", "scan", "done", "failed"},
         r.at = "done" => r.doc = NoDoc /\ r.name = <<>>, OwnPaths(scenario.doc) => OwnPaths(r.doc)
  PROVE  Written(r) /\ OwnText(r)
<1>1. r.source = "JOB_PAYLOAD" /\ r.found = <<>> /\ r.named = <<>> /\ r.raw = NoDoc /\ r.rawName = <<>>
  BY DEF Alike, Fields, Idle
<1>2. \A e : ~In(e, <<>>)
  <2>1. DOMAIN <<>> = {}
    OBVIOUS
  <2> QED BY <2>1 DEF In
<1>3. OwnText(r)
  BY <1>1, NoLeaves DEF OwnText
<1>4. Written(r)
  <2>1. ~r.raw.json
    BY <1>1 DEF NoDoc
  <2> QED BY <1>1, <1>2, <2>1, NoLeaves, ShownHas DEF Written
<1> QED BY <1>3, <1>4

LEMMA WrittenLookup ==
  ASSUME WrittenInv, StatusInv, NEW c \in Requests, Lookup(c) \/ Rerun(c)
  PROVE  WrittenInv'
<1>1. req[c].at = "idle" /\ UNCHANGED <<scenario, rows>>
  BY DEF Lookup, Rerun, tables
<1>2. Shaped(Idle) /\ Idle.doc = NoDoc /\ Idle.name = <<>> /\ OwnPaths(NoDoc)
  BY IdleShaped, IdleHas, NoLeaves
<1>3. ASSUME NEW r, Set(c, r), Alike(r, Idle, Fields \ {"at", "doc", "name", "keyed", "reply"}), r.at \in {"scan", "done", "failed"},
             r.at = "done" => r.doc = NoDoc /\ r.name = <<>>, OwnPaths(scenario.doc) => OwnPaths(r.doc)
      PROVE  WrittenInv'
  <2>1. Written(r) /\ OwnText(r)
    BY <1>3, WrittenFresh
  <2> QED BY <1>1, <1>3, <2>1, WrittenMoves
<1>4. CASE Lookup(c)
  <2>1. \/ \E j \in Requests : Set(c, [Idle EXCEPT !.at = "done", !.reply = j, !.keyed = TRUE])
        \/ Set(c, [Idle EXCEPT !.at = "scan", !.doc = scenario.doc, !.name = scenario.name, !.keyed = scenario.keyed])
    BY <1>4 DEF Lookup
  <2>2. ASSUME NEW j \in Requests, Set(c, [Idle EXCEPT !.at = "done", !.reply = j, !.keyed = TRUE]) PROVE WrittenInv'
    <3>1. PICK r : r = [Idle EXCEPT !.at = "done", !.reply = j, !.keyed = TRUE]
      OBVIOUS
    <3>2. r.at = "done" /\ Alike(r, Idle, Fields \ {"at", "keyed", "reply"})
      BY <1>2, <3>1 DEF Shaped, IsFcn, Fields, Alike
    <3>3. r.doc = NoDoc /\ r.name = <<>> /\ Alike(r, Idle, Fields \ {"at", "doc", "name", "keyed", "reply"})
      BY <1>2, <3>2 DEF Alike, Fields
    <3> QED BY <1>2, <1>3, <2>2, <3>1, <3>2, <3>3
  <2>3. CASE Set(c, [Idle EXCEPT !.at = "scan", !.doc = scenario.doc, !.name = scenario.name, !.keyed = scenario.keyed])
    <3>1. PICK r : r = [Idle EXCEPT !.at = "scan", !.doc = scenario.doc, !.name = scenario.name, !.keyed = scenario.keyed]
      OBVIOUS
    <3>2. r.at = "scan" /\ r.doc = scenario.doc /\ Alike(r, Idle, Fields \ {"at", "doc", "name", "keyed"})
      BY <1>2, <3>1 DEF Shaped, IsFcn, Fields, Alike
    <3>3. Alike(r, Idle, Fields \ {"at", "doc", "name", "keyed", "reply"})
      BY <3>2 DEF Alike, Fields
    <3> QED BY <1>3, <2>3, <3>1, <3>2, <3>3
  <2> QED BY <2>1, <2>2, <2>3
<1>5. CASE Rerun(c)
  <2>1. PICK j \in DOMAIN rows :
           \/ Set(c, [Idle EXCEPT !.at = "scan", !.doc = rows[j].doc, !.name = rows[j].name])
           \/ Set(c, [Idle EXCEPT !.at = "failed"])
    BY <1>5 DEF Rerun
  <2>2. CASE Set(c, [Idle EXCEPT !.at = "failed"])
    <3>1. PICK r : r = [Idle EXCEPT !.at = "failed"]
      OBVIOUS
    <3>2. r.at = "failed" /\ Alike(r, Idle, Fields \ {"at"})
      BY <1>2, <3>1 DEF Shaped, IsFcn, Fields, Alike
    <3>3. r.doc = NoDoc /\ Alike(r, Idle, Fields \ {"at", "doc", "name", "keyed", "reply"})
      BY <1>2, <3>2 DEF Alike, Fields
    <3> QED BY <1>2, <1>3, <2>2, <3>1, <3>2, <3>3
  <2>3. CASE Set(c, [Idle EXCEPT !.at = "scan", !.doc = rows[j].doc, !.name = rows[j].name])
    <3>1. PICK r : r = [Idle EXCEPT !.at = "scan", !.doc = rows[j].doc, !.name = rows[j].name]
      OBVIOUS
    <3>2. r.at = "scan" /\ r.doc = rows[j].doc /\ Alike(r, Idle, Fields \ {"at", "doc", "name"})
      BY <1>2, <3>1 DEF Shaped, IsFcn, Fields, Alike
    <3>3. Alike(r, Idle, Fields \ {"at", "doc", "name", "keyed", "reply"})
      BY <3>2 DEF Alike, Fields
    <3>4. OwnPaths(scenario.doc) => OwnPaths(rows[j].doc)
      <4>1. j \in Requests /\ rows[j].doc = req[j].doc
        BY DEF StatusInv, Shape, WrittenInv
      <4> QED BY <4>1 DEF WrittenInv, OwnText
    <3> QED BY <1>3, <2>3, <3>1, <3>2, <3>3, <3>4
  <2> QED BY <2>1, <2>2, <2>3
<1> QED BY <1>4, <1>5

LEMMA WrittenScan ==
  ASSUME WrittenInv, EvidenceInv, StatusInv, NEW c \in Requests, ScanPayload(c)
  PROVE  WrittenInv'
<1>1. req[c].at = "scan" /\ UNCHANGED <<scenario, rows>>
  BY DEF ScanPayload, tables
<1>2. PICK policy \in scenario.policies :
         Set(c, [req[c] EXCEPT !.at = "record", !.policy = policy, !.raw = req[c].doc,
                               !.found = Evaluate(req[c].doc, "JOB_PAYLOAD", policy), !.next = 1,
                               !.scan = StatusOf(Evaluate(req[c].doc, "JOB_PAYLOAD", policy), policy)])
  BY DEF ScanPayload
<1>3. PICK q, found, status : q = req[c] /\ found = Evaluate(q.doc, "JOB_PAYLOAD", policy) /\ status = StatusOf(found, policy)
  OBVIOUS
<1>4. PICK r : r = [q EXCEPT !.at = "record", !.policy = policy, !.raw = q.doc, !.found = found, !.next = 1, !.scan = status]
  OBVIOUS
<1>5. Set(c, r)
  BY <1>2, <1>3, <1>4
<1>6. /\ Shaped(q) /\ ReqTyped(q) /\ Written(q) /\ OwnText(q) /\ q.source = "JOB_PAYLOAD"
      /\ q.doc \in Documents(Shown) /\ q.named = <<>>
  BY <1>1, <1>3 DEF EvidenceInv, ReqTyped, Items, StatusInv, Shape, WrittenInv
<1>7. /\ r.at = "record" /\ r.raw = q.doc /\ r.found = found /\ r.policy = policy
      /\ Alike(r, q, Fields \ {"at", "policy", "raw", "found", "next", "scan"})
  BY <1>4, <1>6 DEF Shaped, Fields, Alike
<1>8. r.source = q.source /\ r.doc = q.doc /\ r.named = q.named /\ r.rawName = q.rawName
  BY <1>7 DEF Alike, Fields
<1>9. policy.detectors \in Seq(Detector)
  BY IntakeAssumption DEF EvidenceInv
<1>10. \A e : In(e, found) => OfDocument(e, q.doc)
  BY <1>3, <1>6, <1>9, EvaluateFinds
<1>11. Written(r)
  BY <1>3, <1>6, <1>7, <1>8, <1>10 DEF Written
<1>12. OwnText(r)
  BY <1>6, <1>7, <1>8 DEF OwnText
<1> QED BY <1>1, <1>5, <1>11, <1>12, WrittenMoves

(* What saves evidence, and a client that hangs up, leave the text. *)
LEMMA WrittenSaves ==
  ASSUME WrittenInv, StatusInv, NEW c \in Requests, RecordFinding(c) \/ SaveToVault(c) \/ HangUp(c)
  PROVE  WrittenInv'
<1>1. UNCHANGED <<scenario, rows>>
  BY DEF RecordFinding, SaveToVault, HangUp, tables
<1>2. PICK q : q = req[c] /\ Shaped(q) /\ Written(q) /\ OwnText(q)
  BY DEF StatusInv, Shape, WrittenInv
<1>3. ASSUME NEW r, Set(c, r), Alike(r, q, TextFields), q.at # "done",
             r.at = q.at \/ {q.at, r.at} \subseteq {"record", "vault"}
      PROVE  WrittenInv'
  <2>1. Written(r) /\ OwnText(r)
    BY <1>2, <1>3, WrittenStays
  <2> QED BY <1>1, <1>2, <1>3, <2>1, WrittenMoves
<1>4. CASE RecordFinding(c)
  <2>1. PICK counts, blocks : counts = Counted(q.counts, Item(c).type) /\ blocks = (Item(c).rule.action = "BLOCK")
    OBVIOUS
  <2>2. PICK ok \in BOOLEAN :
           Set(c, [q EXCEPT !.counts = counts, !.lost = @ \/ ~ok, !.blocked = @ \/ blocks,
                            !.at = IF blocks THEN "record" ELSE "vault", !.next = IF blocks THEN @ + 1 ELSE @])
    BY <1>2, <1>4, <2>1 DEF RecordFinding
  <2>3. PICK r : r = [q EXCEPT !.counts = counts, !.lost = @ \/ ~ok, !.blocked = @ \/ blocks,
                               !.at = IF blocks THEN "record" ELSE "vault", !.next = IF blocks THEN @ + 1 ELSE @]
    OBVIOUS
  <2>4. r.at \in {"record", "vault"} /\ Alike(r, q, TextFields) /\ q.at = "record"
    BY <1>2, <1>4, <2>3 DEF Shaped, Fields, TextFields, Alike, RecordFinding
  <2> QED BY <1>3, <2>2, <2>3, <2>4
<1>5. CASE SaveToVault(c)
  <2>1. PICK next, lost, r : r = [q EXCEPT !.at = "record", !.next = next, !.lost = lost] /\ Set(c, r)
    BY <1>2, <1>5 DEF SaveToVault
  <2>2. r.at = "record" /\ Alike(r, q, TextFields) /\ q.at = "vault"
    BY <1>2, <1>5, <2>1 DEF Shaped, Fields, TextFields, Alike, SaveToVault
  <2> QED BY <1>3, <2>1, <2>2
<1>6. CASE HangUp(c)
  <2>1. PICK r : r = [q EXCEPT !.hungUp = TRUE] /\ Set(c, r)
    BY <1>2, <1>6 DEF HangUp
  <2>2. r.at = q.at /\ Alike(r, q, TextFields) /\ q.at # "done"
    BY <1>2, <1>6, <2>1 DEF Shaped, Fields, TextFields, Alike, HangUp, Busy
  <2> QED BY <1>3, <2>1, <2>2
<1> QED BY <1>4, <1>5, <1>6

LEMMA WrittenRewrite ==
  ASSUME WrittenInv, EvidenceInv, StatusInv, NEW c \in Requests, RewritePayload(c)
  PROVE  WrittenInv'
<1>1. req[c].at = "record" /\ req[c].source = "JOB_PAYLOAD" /\ UNCHANGED <<scenario, rows>>
  BY DEF RewritePayload, tables
<1>2. PICK q, doc, safe, wrong :
         /\ q = req[c] /\ doc = RewriteDocument(q.doc, q.found) /\ safe = AllApplied(q.doc, q.found)
         /\ wrong = (q.lost \/ ~safe)
  OBVIOUS
<1>3. PICK r : r = IF Panicked(doc) THEN [q EXCEPT !.at = "failed"]
                   ELSE [q EXCEPT !.at = "name", !.doc = IF safe THEN doc ELSE Withheld, !.lost = FALSE,
                                  !.blocked = @ \/ wrong, !.scan = IF wrong THEN "SCAN_ERROR" ELSE @]
  OBVIOUS
<1>4. Set(c, r)
  BY <1>2, <1>3 DEF RewritePayload, EvidenceBlocks
<1>5. Shaped(q) /\ Written(q) /\ OwnText(q) /\ q.at = "record" /\ q.source = "JOB_PAYLOAD"
  BY <1>1, <1>2 DEF StatusInv, Shape, WrittenInv
<1>6. CASE Panicked(doc)
  <2>1. r.at = "failed" /\ Alike(r, q, TextFields)
    BY <1>3, <1>5, <1>6 DEF Shaped, Fields, TextFields, Alike
  <2>2. Written(r) /\ OwnText(r)
    BY <1>5, <2>1, WrittenStays
  <2> QED BY <1>1, <1>4, <2>2, WrittenMoves
<1>7. CASE ~Panicked(doc)
  <2>1. /\ r.at = "name" /\ r.doc = (IF safe THEN doc ELSE Withheld)
        /\ Alike(r, q, Fields \ {"at", "doc", "lost", "blocked", "scan"})
    BY <1>3, <1>5, <1>7 DEF Shaped, Fields, Alike
  <2>2. /\ r.source = q.source /\ r.found = q.found /\ r.named = q.named /\ r.raw = q.raw /\ r.rawName = q.rawName
        /\ r.policy = q.policy
    BY <2>1 DEF Alike, Fields
  <2>3. q.doc = q.raw /\ q.raw \in Documents(Shown)
    BY <1>5 DEF Written
  <2>4. r.doc \in {Withheld, RewriteDocument(r.raw, r.found)}
    BY <1>2, <2>1, <2>2, <2>3
  <2>5. Written(r)
    BY <1>5, <2>1, <2>2, <2>4 DEF Written
  <2>6. OwnPaths(q.raw) => OwnPaths(r.doc)
    BY <2>2, <2>3, <2>4, OwnPathsKept, NoLeaves
  <2>7. OwnText(r)
    BY <1>5, <2>2, <2>6 DEF OwnText
  <2> QED BY <1>1, <1>4, <2>5, <2>7, WrittenMoves
<1> QED BY <1>6, <1>7

LEMMA WrittenName ==
  ASSUME WrittenInv, EvidenceInv, StatusInv, NEW c \in Requests, ScanName(c)
  PROVE  WrittenInv'
<1>1. req[c].at = "name" /\ UNCHANGED <<scenario, rows>>
  BY DEF ScanName, tables
<1>2. PICK q, named : q = req[c] /\ named = Evaluate(NameDoc(q.name), "JOB_METADATA", q.policy)
  OBVIOUS
<1>3. PICK r : r = IF q.name = <<>> THEN [q EXCEPT !.at = "insert"]
                   ELSE [q EXCEPT !.at = "record", !.source = "JOB_METADATA", !.rawName = q.name, !.named = named,
                                  !.next = 1, !.counts = Continued(@)]
  OBVIOUS
<1>4. Set(c, r)
  BY <1>2, <1>3 DEF ScanName
<1>5. /\ Shaped(q) /\ Written(q) /\ OwnText(q) /\ q.at = "name" /\ q.source = "JOB_PAYLOAD" /\ q.named = <<>>
      /\ q.name \in Seq(Shown) /\ q.policy.detectors \in Seq(Detector)
  BY <1>1, <1>2 DEF StatusInv, Shape, WrittenInv, EvidenceInv, ReqTyped, Items
<1>6. CASE q.name = <<>>
  <2>1. r.at = "insert" /\ Alike(r, q, Fields \ {"at"})
    BY <1>3, <1>5, <1>6 DEF Shaped, Fields, Alike
  <2>2. /\ r.source = q.source /\ r.doc = q.doc /\ r.name = <<>> /\ r.found = q.found /\ r.named = <<>>
        /\ r.raw = q.raw /\ r.rawName = q.rawName /\ r.policy = q.policy
    BY <1>5, <1>6, <2>1 DEF Alike, Fields
  <2>3. r.rawName = <<>>
    BY <1>5, <2>2 DEF Written
  <2>4. r.name = ApplyTransformations(r.rawName, r.named)
    BY <2>2, <2>3, NoLeaves
  <2>5. Written(r)
    BY <1>5, <2>1, <2>2, <2>4 DEF Written
  <2>6. OwnText(r)
    BY <1>5, <2>2 DEF OwnText
  <2> QED BY <1>1, <1>4, <2>5, <2>6, WrittenMoves
<1>7. CASE q.name # <<>>
  <2>1. /\ r.at = "record" /\ r.source = "JOB_METADATA" /\ r.named = named /\ r.rawName = q.name
        /\ Alike(r, q, Fields \ {"at", "source", "rawName", "named", "next", "counts"})
    BY <1>3, <1>5, <1>7 DEF Shaped, Fields, Alike
  <2>2. r.doc = q.doc /\ r.name = q.name /\ r.found = q.found /\ r.raw = q.raw /\ r.policy = q.policy
    BY <2>1 DEF Alike, Fields
  <2>3. \A e : In(e, named) => OfDocument(e, NameDoc(q.name))
    <3>1. NameDoc(q.name) \in Documents(Shown)
      BY <1>5, ShownHas
    <3> QED BY <1>2, <1>5, <3>1, EvaluateFinds
  <2>4. Written(r)
    BY <1>5, <2>1, <2>2, <2>3 DEF Written
  <2>5. OwnText(r)
    BY <1>5, <2>2 DEF OwnText
  <2> QED BY <1>1, <1>4, <2>4, <2>5, WrittenMoves
<1> QED BY <1>6, <1>7

LEMMA WrittenRewriteName ==
  ASSUME WrittenInv, StatusInv, NEW c \in Requests, RewriteName(c)
  PROVE  WrittenInv'
<1>1. req[c].at = "record" /\ req[c].source = "JOB_METADATA" /\ UNCHANGED <<scenario, rows>>
  BY DEF RewriteName, tables
<1>2. PICK q, name, wrong, status :
         /\ q = req[c] /\ name = ApplyTransformations(q.name, q.named) /\ wrong = (q.lost /\ name # Panic)
         /\ status = IF wrong \/ name = Panic THEN "SCAN_ERROR" ELSE StatusOf(q.named, q.policy)
  OBVIOUS
<1>3. PICK r : r = [q EXCEPT !.at = "insert", !.name = IF name = Panic THEN NameWithheld ELSE name,
                             !.blocked = @ \/ wrong, !.scan = mergeScanStatus(@, status)]
  OBVIOUS
<1>4. Set(c, r)
  BY <1>2, <1>3 DEF RewriteName, EvidenceBlocks
<1>5. Shaped(q) /\ Written(q) /\ OwnText(q) /\ q.at = "record" /\ q.source = "JOB_METADATA"
  BY <1>1, <1>2 DEF StatusInv, Shape, WrittenInv
<1>6. /\ r.at = "insert" /\ r.name = (IF name = Panic THEN NameWithheld ELSE name)
      /\ Alike(r, q, Fields \ {"at", "name", "blocked", "scan"})
  BY <1>3, <1>5 DEF Shaped, Fields, Alike
<1>7. /\ r.source = q.source /\ r.doc = q.doc /\ r.found = q.found /\ r.named = q.named /\ r.raw = q.raw
      /\ r.rawName = q.rawName /\ r.policy = q.policy
  BY <1>6 DEF Alike, Fields
<1>8. r.name \in {NameWithheld, ApplyTransformations(r.rawName, r.named)}
  BY <1>2, <1>5, <1>6, <1>7 DEF Written
<1>9. Written(r)
  BY <1>5, <1>6, <1>7, <1>8 DEF Written
<1>10. OwnText(r)
  BY <1>5, <1>7 DEF OwnText
<1> QED BY <1>1, <1>4, <1>9, <1>10, WrittenMoves

LEMMA WrittenInsert ==
  ASSUME WrittenInv, StatusInv, NEW c \in Requests, Insert(c)
  PROVE  WrittenInv'
<1>1. req[c].at = "insert" /\ UNCHANGED scenario
  BY DEF Insert
<1>2. PICK ok \in BOOLEAN : rows' = IF ok /\ KeyIsFree(c) THEN With(rows, c, Row(c)) ELSE rows
  BY DEF Insert
<1>3. PICK q, r : q = req[c] /\ r = [q EXCEPT !.at = "done", !.reply = c]
  OBVIOUS
<1>4. Set(c, r) /\ Shaped(q) /\ Written(q) /\ OwnText(q) /\ q.at = "insert"
  BY <1>1, <1>3 DEF Insert, StatusInv, Shape, WrittenInv
<1>5. r.at = "done" /\ Alike(r, q, TextFields)
  BY <1>3, <1>4 DEF Shaped, Fields, TextFields, Alike
<1>6. Written(r) /\ OwnText(r) /\ r.doc = q.doc
  BY <1>4, <1>5, WrittenStays DEF Alike, TextFields
<1>7. req'[c] = r /\ Others(c)
  BY <1>4, SetDoes DEF StatusInv
<1>8. \A d \in Requests : Written(req'[d]) /\ OwnText(req'[d])
  BY <1>6, <1>7 DEF Others, WrittenInv
<1>9. \A d \in Requests : Written(req'[d]) /\ OwnText(req[d])'
  BY <1>1, <1>8 DEF OwnText
<1>10. ASSUME NEW j \in DOMAIN rows' PROVE rows'[j].doc = req'[j].doc
  <2>1. c \notin DOMAIN rows
    BY <1>1 DEF StatusInv
  <2>2. CASE j # c
    <3>1. j \in DOMAIN rows /\ rows'[j] = rows[j]
      BY <1>2, <2>2 DEF With
    <3>2. j \in Requests
      BY <3>1 DEF StatusInv, Shape
    <3> QED BY <1>7, <2>2, <3>1, <3>2 DEF Others, WrittenInv
  <2>3. CASE j = c
    <3>1. rows'[c] = Row(c)
      BY <1>2, <2>1, <2>3 DEF With
    <3>2. Row(c).doc = q.doc
      BY <1>3 DEF Row
    <3> QED BY <1>6, <1>7, <2>3, <3>1, <3>2
  <2> QED BY <2>2, <2>3
<1> QED BY <1>9, <1>10 DEF WrittenInv

LEMMA WrittenCrash ==
  ASSUME WrittenInv, StatusInv, Crash
  PROVE  WrittenInv'
<1>1. UNCHANGED <<scenario, rows>> /\ req' = [c \in Requests |-> IF Busy(c) THEN [req[c] EXCEPT !.at = "failed"] ELSE req[c]]
  BY DEF Crash, tables
<1>2. ASSUME NEW c \in Requests PROVE Written(req'[c]) /\ OwnText(req'[c])
  <2>1. PICK q, r : q = req[c] /\ r = req'[c] /\ Shaped(q) /\ Written(q) /\ OwnText(q)
    BY DEF StatusInv, Shape, WrittenInv
  <2>2. CASE Busy(c)
    <3>1. r = [q EXCEPT !.at = "failed"]
      BY <1>1, <2>1, <2>2
    <3>2. r.at = "failed" /\ Alike(r, q, TextFields)
      BY <2>1, <3>1 DEF Shaped, Fields, TextFields, Alike
    <3>3. Written(r) /\ OwnText(r)
      BY <2>1, <3>2, WrittenStays
    <3> QED BY <2>1, <3>3
  <2>3. CASE ~Busy(c)
    BY <1>1, <2>1, <2>3
  <2> QED BY <2>2, <2>3
<1>3. \A c \in Requests : Written(req'[c]) /\ OwnText(req[c])'
  BY <1>1, <1>2 DEF OwnText
<1>4. ASSUME NEW j \in DOMAIN rows' PROVE rows'[j].doc = req'[j].doc
  <2>1. j \in DOMAIN rows /\ rows'[j] = rows[j] /\ j \in Requests /\ req[j].at = "done"
    BY <1>1 DEF StatusInv, Shape
  <2>2. req'[j] = req[j]
    BY <1>1, <2>1 DEF Busy
  <2> QED BY <2>1, <2>2 DEF WrittenInv
<1> QED BY <1>3, <1>4 DEF WrittenInv

LEMMA WrittenAfter ==
  ASSUME WrittenInv, StatusInv, NEW j \in Requests, Execute(j) \/ ScanOutput(j) \/ RecordOutput(j) \/ StoreArtifact(j)
  PROVE  WrittenInv'
<1>1. UNCHANGED <<scenario, req>>
  BY DEF Execute, ScanOutput, RecordOutput, StoreArtifact
<1>2. \A c \in Requests : Written(req'[c]) /\ OwnText(req[c])'
  BY <1>1 DEF OwnText, WrittenInv
<1>3. ASSUME NEW k \in DOMAIN rows' PROVE rows'[k].doc = req'[k].doc
  <2>1. CASE rows' = rows
    BY <1>1, <1>3, <2>1 DEF WrittenInv
  <2>2. CASE Execute(j)
    <3>1. rows' = [rows EXCEPT ![j].status = "Completed"]
      BY <2>2 DEF Execute
    <3>2. k \in DOMAIN rows /\ IsFcn(rows[k]) /\ DOMAIN rows[k] = RowFields
      BY <3>1 DEF StatusInv, Shape
    <3>3. rows'[k] = rows[k] \/ rows'[k] = [rows[k] EXCEPT !.status = "Completed"]
      BY <3>1, <3>2
    <3>4. PICK row, old : old = rows[k] /\ row = [old EXCEPT !.status = "Completed"]
      OBVIOUS
    <3>5. row.doc = old.doc
      BY <3>2, <3>4 DEF RowFields
    <3> QED BY <1>1, <3>2, <3>3, <3>4, <3>5 DEF WrittenInv
  <2> QED BY <2>1, <2>2 DEF ScanOutput, RecordOutput, StoreArtifact
<1> QED BY <1>2, <1>3 DEF WrittenInv

LEMMA WrittenStep == ASSUME WrittenInv, EvidenceInv, StatusInv, [Next]_vars PROVE WrittenInv'
<1>1. ASSUME NEW c \in Requests,
             \/ Lookup(c) \/ Rerun(c) \/ ScanPayload(c) \/ RecordFinding(c) \/ SaveToVault(c)
             \/ RewritePayload(c) \/ ScanName(c) \/ RewriteName(c) \/ Insert(c) \/ HangUp(c)
      PROVE  WrittenInv'
  BY <1>1, WrittenLookup, WrittenScan, WrittenSaves, WrittenRewrite, WrittenName, WrittenRewriteName, WrittenInsert
<1>2. ASSUME NEW c \in Requests, Execute(c) \/ ScanOutput(c) \/ RecordOutput(c) \/ StoreArtifact(c) PROVE WrittenInv'
  BY <1>2, WrittenAfter
<1>3. CASE UNCHANGED vars
  <2>1. UNCHANGED <<scenario, req, rows>>
    BY <1>3 DEF vars
  <2>2. \A c \in Requests : Written(req'[c]) /\ OwnText(req[c])'
    BY <2>1 DEF WrittenInv, OwnText
  <2> QED BY <2>1, <2>2 DEF WrittenInv
<1> QED BY <1>1, <1>2, <1>3, WrittenCrash DEF Next

LEMMA WrittenInit == ASSUME Init PROVE WrittenInv
<1>1. DOMAIN rows = {}
  BY DEF Init
<1>2. ASSUME NEW c \in Requests PROVE Written(req[c]) /\ OwnText(req[c])
  <2>1. PICK r : r = req[c] /\ r = Idle
    BY DEF Init
  <2>2. r.at = "idle" /\ r.doc = NoDoc /\ Alike(r, Idle, Fields \ {"at", "doc", "name", "keyed", "reply"})
    BY <2>1, IdleHas DEF Alike
  <2>3. Written(r) /\ OwnText(r)
    BY <2>2, NoLeaves, WrittenFresh
  <2> QED BY <2>1, <2>3
<1> QED BY <1>1, <1>2 DEF WrittenInv

LEMMA WrittenIs ==
  ASSUME WrittenInv, EvidenceInv, StatusInv, OwnPaths(scenario.doc), NEW j \in DOMAIN rows
  PROVE  /\ j \in Requests /\ rows[j].doc = req[j].doc /\ rows[j].name = req[j].name
         /\ Written(req[j]) /\ req[j].at = "done" /\ OwnPaths(req[j].raw) /\ ReqTyped(req[j])
         /\ req[j].raw \in Documents(Shown) /\ req[j].rawName \in Seq(Shown)
BY DEF StatusInv, Shape, EvidenceInv, StoredAs, WrittenInv, OwnText, Written

LEMMA WrittenSubstituted ==
  ASSUME WrittenInv, EvidenceInv, StatusInv, OwnPaths(scenario.doc)
  PROVE  StoredIsSubstituted
<1> SUFFICES ASSUME NEW j \in DOMAIN rows
             PROVE  /\ (rows[j].doc # Withheld /\ Disjoint(req[j].found)) =>
                          \A l \in DOMAIN rows[j].doc.leaves :
                              rows[j].doc.leaves[l].text
                                = Substituted(req[j].raw.leaves[l].text, OnPath(req[j].found, PathOf(req[j].raw.leaves[l].steps)))
                    /\ (rows[j].name # NameWithheld /\ Disjoint(req[j].named)) =>
                          rows[j].name = Substituted(req[j].rawName, req[j].named)
  BY DEF StoredIsSubstituted, OnPath
<1>1. PICK r : r = req[j]
  OBVIOUS
<1>2. /\ r.at = "done" /\ rows[j].doc = r.doc /\ rows[j].name = r.name /\ Written(r) /\ OwnPaths(r.raw)
      /\ Listed(r.found) /\ Listed(r.named) /\ r.raw \in Documents(Shown) /\ r.rawName \in Seq(Shown)
  BY <1>1, WrittenIs DEF ReqTyped, Items
<1>4. ASSUME r.doc # Withheld, Disjoint(r.found), NEW l \in DOMAIN r.doc.leaves
      PROVE  r.doc.leaves[l].text = Substituted(r.raw.leaves[l].text, OnPath(r.found, PathOf(r.raw.leaves[l].steps)))
  <2>1. r.doc = RewriteDocument(r.raw, r.found) /\ \A e : In(e, r.found) => OfDocument(e, r.raw)
    BY <1>2, <1>4 DEF Written
  <2>2. l \in DOMAIN r.raw.leaves
    BY <1>2, <1>4, <2>1, RewriteKeeps
  <2>3. Star \in Shown /\ Panic \notin Seq(Shown)
    BY ShownHas
  <2> QED BY <1>2, <1>4, <2>1, <2>2, <2>3, LeafSubstituted
<1>5. ASSUME r.name # NameWithheld, Disjoint(r.named) PROVE r.name = Substituted(r.rawName, r.named)
  <2>1. r.name = ApplyTransformations(r.rawName, r.named) /\ \A e : In(e, r.named) => OfDocument(e, NameDoc(r.rawName))
    BY <1>2, <1>5 DEF Written
  <2> QED BY <1>2, <1>5, <2>1, NameSubstituted
<1> QED BY <1>1, <1>2, <1>4, <1>5

LEMMA WrittenEach ==
  ASSUME WrittenInv, EvidenceInv, StatusInv, OwnPaths(scenario.doc)
  PROVE  EachStringRewritten
<1> DEFINE Alone(j, l) == Detect(req[j].raw.leaves[l].text, PathOf(req[j].raw.leaves[l].steps), "JOB_PAYLOAD", req[j].policy)
<1> SUFFICES ASSUME NEW j \in DOMAIN rows, rows[j].doc # Withheld, req[j].raw.json, NEW l \in DOMAIN rows[j].doc.leaves,
                    Len(Alone(j, l)) = 1, Transforms(Alone(j, l)[1])
             PROVE  /\ rows[j].doc.leaves[l].text = Splice(req[j].raw.leaves[l].text, Alone(j, l)[1])
                    /\ HasAlphanumeric(Alone(j, l)[1].match) => rows[j].doc.leaves[l].text # req[j].raw.leaves[l].text
  BY DEF EachStringRewritten, HasAlphanumeric
<1>0. PICK text, path, alone, f :
         /\ text = req[j].raw.leaves[l].text /\ path = PathOf(req[j].raw.leaves[l].steps)
         /\ alone = Detect(text, path, "JOB_PAYLOAD", req[j].policy) /\ alone = Alone(j, l) /\ f = alone[1]
         /\ Len(alone) = 1 /\ Transforms(f)
  OBVIOUS
<1> HIDE DEF Alone
<1>1. PICK r, doc, policy : r = req[j] /\ doc = r.raw /\ policy = r.policy
  OBVIOUS
<1>2. /\ r.at = "done" /\ rows[j].doc = r.doc /\ Written(r) /\ OwnPaths(doc) /\ doc \in Documents(Shown)
      /\ policy.detectors \in Seq(Detector) /\ doc.json
  BY <1>1, WrittenIs DEF ReqTyped
<1>3. PICK found : found = Evaluate(doc, "JOB_PAYLOAD", policy)
  OBVIOUS
<1>4. r.doc = RewriteDocument(doc, found)
  BY <1>1, <1>2, <1>3 DEF Written
<1>5. Star \in Shown /\ Panic \notin Seq(Shown)
  BY ShownHas
<1>6. l \in DOMAIN doc.leaves
  BY <1>2, <1>4, RewriteKeeps
<1>7. text = doc.leaves[l].text /\ path = PathOf(doc.leaves[l].steps) /\ alone = Detect(text, path, "JOB_PAYLOAD", policy) /\ text \in Seq(Shown)
  BY <1>0, <1>1, <1>2, <1>6, DocumentIs
<1>8. Listed(found) /\ In(f, found) /\ Fits(f, text, path) /\ \A e : (In(e, found) /\ e.path = path) => e = f
  <2>1. doc \in Documents(Shown) /\ OwnPaths(doc) /\ policy.detectors \in Seq(Detector) /\ l \in DOMAIN doc.leaves
    BY <1>2, <1>6
  <2>2. f = alone[1] /\ Len(alone) = 1 /\ Transforms(f)
    BY <1>0
  <2>3. /\ text = doc.leaves[l].text /\ path = PathOf(doc.leaves[l].steps) /\ alone = Detect(text, path, "JOB_PAYLOAD", policy)
    BY <1>7
  <2> QED BY ONLY <1>3, <2>1, <2>2, <2>3, AloneFound
<1>9. Spliceable(f, Shown)
  <2>1. f.start \in Nat /\ f.end \in Nat /\ f.start <= f.end /\ f.end <= Len(text) /\ f.match = Slice(text, f.start, f.end)
    <3>1. Fits(f, text, path)
      BY <1>8
    <3> QED BY ONLY <3>1 DEF Fits
  <2>2. Slice(text, f.start, f.end) \in Seq(Shown)
    BY <1>7, <2>1, SliceIs
  <2> QED BY <2>1, <2>2 DEF Spliceable
<1>10. r.doc.leaves[l].text = Splice(text, f)
  <2>1. Star \in Shown /\ doc \in Documents(Shown) /\ doc.json /\ Listed(found) /\ l \in DOMAIN doc.leaves /\ In(f, found)
    BY <1>2, <1>5, <1>6, <1>8
  <2>2. Transforms(f) /\ Fits(f, doc.leaves[l].text, PathOf(doc.leaves[l].steps))
    BY <1>0, <1>7, <1>8
  <2>3. \A e : (In(e, found) /\ e.path = PathOf(doc.leaves[l].steps)) => e = f
    BY <1>7, <1>8
  <2>4. RewriteDocument(doc, found).leaves[l].text = Splice(doc.leaves[l].text, f)
    BY ONLY <1>9, <2>1, <2>2, <2>3, SplicedAlone
  <2> QED BY <1>4, <1>7, <2>4
<1>11. HasAlphanumeric(f.match) => Splice(text, f) # text
  BY <1>5, <1>7, <1>8, SpliceChanges
<1> QED BY <1>0, <1>1, <1>2, <1>10, <1>11

(* Splicing from the back replaces each finding where it stands, for every     *)
(* text and every findings that do not overlap, whatever their order, rules    *)
(* and masks (pii_transformation.go:11-48).                                  *)
THEOREM SplicesSubstitute ==
  ASSUME NEW text \in Seq(Shown), NEW findings, Placed(findings, text)
  PROVE  ApplyTransformations(text, findings) = Substituted(text, findings)
BY ShownHas, ApplySubstitutes

(* What is stored of a payload whose strings have each a path of their own, and *)
(* of a name, is the original with every value to be hidden replaced where it  *)
(* stood, in every string, and nothing else changed, unless it was withheld or *)
(* two findings overlap (create.go:139-146, metadata_scan.go:61-71,           *)
(* pii_transformation.go:11-48, pii_fieldpath_walker.go:78-87).              *)
THEOREM TextSound == Spec => [](OwnPaths(scenario.doc) => TextRewritten)
<1> DEFINE Inv == WrittenInv /\ EvidenceInv /\ StatusInv
<1>1. Init => Inv
  BY WrittenInit, EvidenceInit, ToldInit
<1>2. Inv /\ [Next]_vars => Inv'
  BY WrittenStep, EvidenceStep, StatusStep
<1>3. Inv => (OwnPaths(scenario.doc) => TextRewritten)
  BY WrittenSubstituted, WrittenEach DEF TextRewritten
<1> QED BY <1>1, <1>2, <1>3, PTL DEF Spec

=============================================================================
