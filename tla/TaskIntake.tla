------------------------------ MODULE TaskIntake ------------------------------
(***************************************************************************)
(* Task creation (internal/taskservice, the handlers that call it), the       *)
(* rerun of a finished task, and the scan of what a run produced              *)
(* (worker/post_execution_scan.go).  A request looks its idempotency key up,   *)
(* scans the payload, saves a record and a vault entry of every finding,      *)
(* rewrites the payload, does the same with the task's name and inserts the   *)
(* row.  Every statement stands alone: it may fail, the client may hang up,    *)
(* which cancels the statements that follow, and the process may die.        *)
(***************************************************************************)
EXTENDS PIIText, FiniteSets

CONSTANTS
    Requests,         \* requests, each of which creates at most one job, named after it
    Reruns,           \* those of them that ask for a rerun
    Scenarios,        \* who asks for what, what a run of it puts out and which policies may be loaded when
                      \* a scan begins: [active, keyed, doc, name, output, policies]
    MaxArtifact,      \* MaxArtifactBytes
    MaxTroubles       \* bound: failed statements, hang-ups and crashes together

ASSUME IntakeAssumption ==
    /\ MaxTroubles \in Nat /\ MaxArtifact \in Nat
    /\ Reruns \subseteq Requests
    /\ \A s \in Scenarios :
         /\ s.keyed \in BOOLEAN /\ s.name \in Seq(Cell)
         /\ {s.doc, s.output} \subseteq Documents(Cell) /\ Told(s.output)
         /\ \A p \in s.policies : p.detectors \in Seq(Detector)

VARIABLES
    scenario,
    req,              \* the requests under way and their local variables
    after,            \* the requests that had been answered when this one began
    rows,             \* the tasks table, by job
    records, vault,   \* PIIRecord and PIIVault: [job, source, type, index, finding]
    outputs,          \* the scans of what the runs produced, by job
    artifacts,        \* ExecutionArtifact, by job
    troubles

vars == <<scenario, req, after, rows, records, vault, outputs, artifacts, troubles>>
tables == <<rows, records, vault, outputs, artifacts>>

NoJob == "none"
NoPolicy == [detectors |-> <<>>, rules |-> {}, default |-> "OBSERVE"]
Withheld == [json |-> TRUE, leaves |-> <<>>]       \* payloadWithheld
NameWithheld == <<Star>>
NoDoc == [json |-> FALSE, leaves |-> <<>>]
NameDoc(name) == [json |-> FALSE, leaves |-> <<[steps |-> <<<<"task_name">>>>, text |-> name]>>]

Idle == [at |-> "idle", source |-> "JOB_PAYLOAD", doc |-> NoDoc, name |-> <<>>, keyed |-> FALSE,
         policy |-> NoPolicy, raw |-> NoDoc, rawName |-> <<>>,
         found |-> <<>>, named |-> <<>>, next |-> 1, counts |-> [t \in {} |-> 0],
         lost |-> FALSE, blocked |-> FALSE, scan |-> "", hungUp |-> FALSE, reply |-> NoJob]
Points == {"idle", "scan", "record", "vault", "rewrite", "name", "insert", "done", "failed"}
Statuses == {"", "CLEAN", "DETECTED", "SCAN_ERROR"}

TypeOK ==
    /\ scenario \in Scenarios
    /\ \A c \in Requests :
         /\ req[c].at \in Points /\ req[c].scan \in Statuses /\ req[c].reply \in Requests \cup {NoJob}
         /\ req[c].next \in 1 .. 1 + Len(req[c].found \o req[c].named)
         /\ ~Panicked(req[c].doc) /\ req[c].name # Panic
    /\ DOMAIN rows \subseteq Requests /\ DOMAIN artifacts \subseteq DOMAIN rows /\ DOMAIN outputs \subseteq DOMAIN rows
    /\ \A j \in DOMAIN rows : rows[j].status \in {"Pending", "Blocked", "Completed"} /\ rows[j].scan \in Statuses \ {""}
    /\ \A j \in DOMAIN artifacts : artifacts[j].scan \in Statuses \ {""} /\ Len(artifacts[j].body) <= MaxArtifact
    /\ troubles \in 0 .. MaxTroubles

Init ==
    /\ scenario \in Scenarios
    /\ req = [c \in Requests |-> Idle] /\ after = [c \in Requests |-> {}]
    /\ rows = <<>> /\ records = {} /\ vault = {} /\ outputs = <<>> /\ artifacts = <<>>
    /\ troubles = 0

-----------------------------------------------------------------------------
(* A statement of a request whose client has hung up fails. *)
Db(ok) == IF ok THEN UNCHANGED troubles ELSE troubles < MaxTroubles /\ troubles' = troubles + 1
Statement(c, ok) == IF req[c].hungUp THEN ~ok /\ UNCHANGED troubles ELSE Db(ok)

(* A table, or a map, with one entry set (:> and @@ written out for the proofs). *)
With(f, x, v) == [y \in {x} \cup DOMAIN f |-> IF y = x THEN v ELSE f[y]]

Set(c, r) == req' = [req EXCEPT ![c] = r]
HasKey(j) == j \in DOMAIN rows /\ rows[j].keyed

(* CreateTask and the look-up of the key; any error counts as "not used yet". *)
BlockedIsRetried(j) == HasKey(j) /\ rows[j].status # "Blocked"                   \* mutant
Existing(j) == HasKey(j)

Lookup(c) ==
    /\ req[c].at = "idle" /\ c \in scenario.active \ Reruns
    /\ \E ok \in BOOLEAN :
         /\ scenario.keyed \/ ok
         /\ Db(ok)
         /\ \/ /\ scenario.keyed /\ ok
               /\ \E j \in Requests : Existing(j) /\ Set(c, [Idle EXCEPT !.at = "done", !.reply = j, !.keyed = TRUE])
            \/ /\ ~(scenario.keyed /\ ok /\ \E j \in Requests : Existing(j))
               /\ Set(c, [Idle EXCEPT !.at = "scan", !.doc = scenario.doc, !.name = scenario.name, !.keyed = scenario.keyed])
    /\ after' = [after EXCEPT ![c] = {d \in Requests : req[d].at = "done"}]
    /\ UNCHANGED <<scenario, tables>>

(* RerunTask: a finished run's stored payload and name, with no key. *)
Rerun(c) ==
    /\ req[c].at = "idle" /\ c \in scenario.active \cap Reruns
    /\ \E j \in DOMAIN rows, ok \in BOOLEAN :
         /\ Db(ok)
         /\ Set(c, IF ok /\ rows[j].status = "Completed"
                   THEN [Idle EXCEPT !.at = "scan", !.doc = rows[j].doc, !.name = rows[j].name]
                   ELSE [Idle EXCEPT !.at = "failed"])
    /\ UNCHANGED <<scenario, after, tables>>

-----------------------------------------------------------------------------
(* The scan of a payload or of a name. *)
Evaluate(doc, source, policy) == DropIgnored(ResolveOverlaps(DetectDocument(doc, source, policy)))
StatusOf(found, policy) == IF Broken(policy) THEN "SCAN_ERROR" ELSE IF found = <<>> THEN "CLEAN" ELSE "DETECTED"

Severity == [s \in Statuses |-> CASE s = "CLEAN" -> 1 [] s = "DETECTED" -> 2 [] s = "SCAN_ERROR" -> 3 [] OTHER -> 0]
mergeScanStatus(a, b) == IF Severity[b] > Severity[a] THEN b ELSE a

ScanPayload(c) ==
    /\ req[c].at = "scan"
    /\ \E policy \in scenario.policies :
         LET found == Evaluate(req[c].doc, "JOB_PAYLOAD", policy)
         IN  Set(c, [req[c] EXCEPT !.at = "record", !.policy = policy, !.raw = req[c].doc, !.found = found, !.next = 1,
                                   !.scan = StatusOf(found, policy)])
    /\ UNCHANGED <<scenario, after, tables, troubles>>

Counted(counts, type) == With(counts, type, (IF type \in DOMAIN counts THEN counts[type] ELSE 0) + 1)

Todo(c) == IF req[c].source = "JOB_PAYLOAD" THEN req[c].found ELSE req[c].named
Item(c) == Todo(c)[req[c].next]
Evidence(c, counts) ==
    [job |-> c, source |-> req[c].source, type |-> Item(c).type, index |-> counts[Item(c).type], finding |-> Item(c)]

(* RecordFinding.  A value that must not be processed is not kept either. *)
RecordFinding(c) ==
    /\ req[c].at = "record" /\ req[c].next <= Len(Todo(c))
    /\ \E ok \in BOOLEAN :
         LET counts == Counted(req[c].counts, Item(c).type)
             blocks == Item(c).rule.action = "BLOCK"
         IN  /\ Statement(c, ok)
             /\ records' = IF ok THEN records \cup {Evidence(c, counts)} ELSE records
             /\ Set(c, [req[c] EXCEPT !.counts = counts, !.lost = @ \/ ~ok, !.blocked = @ \/ blocks,
                                      !.at = IF blocks THEN "record" ELSE "vault",
                                      !.next = IF blocks THEN @ + 1 ELSE @])
    /\ UNCHANGED <<scenario, after, rows, vault, outputs, artifacts>>

(* Encrypt and the vault entry: a value that cannot be encrypted is skipped. *)
SaveToVault(c) ==
    /\ req[c].at = "vault"
    /\ \E encrypted, ok \in BOOLEAN :
         /\ encrypted \/ ok
         /\ IF encrypted THEN Statement(c, ok) ELSE Db(FALSE)
         /\ vault' = IF encrypted /\ ok THEN vault \cup {Evidence(c, req[c].counts)} ELSE vault
         /\ Set(c, [req[c] EXCEPT !.at = "record", !.next = @ + 1, !.lost = @ \/ ~ok])
    /\ UNCHANGED <<scenario, after, rows, records, outputs, artifacts>>

(* The rewriting of the payload; a panic here ends the request, with its      *)
(* records in place and no row.                                             *)
Forgives(lost) == FALSE                                                          \* mutant
EvidenceBlocks(lost) == lost

RewritePayload(c) ==
    /\ req[c].at = "record" /\ req[c].next > Len(Todo(c)) /\ req[c].source = "JOB_PAYLOAD"
    /\ LET doc == RewriteDocument(req[c].doc, req[c].found)
           safe == AllApplied(req[c].doc, req[c].found)
           wrong == EvidenceBlocks(req[c].lost) \/ ~safe
       IN  Set(c, IF Panicked(doc) THEN [req[c] EXCEPT !.at = "failed"]
                  ELSE [req[c] EXCEPT !.at = "name", !.doc = IF safe THEN doc ELSE Withheld, !.lost = FALSE,
                                      !.blocked = @ \/ wrong, !.scan = IF wrong THEN "SCAN_ERROR" ELSE @])
    /\ UNCHANGED <<scenario, after, tables, troubles>>

(* scanJobMetadata: the same for the task's name; the counters go on. *)
Continued(counts) == counts

ScanName(c) ==
    /\ req[c].at = "name"
    /\ LET named == Evaluate(NameDoc(req[c].name), "JOB_METADATA", req[c].policy)
       IN  Set(c, IF req[c].name = <<>> THEN [req[c] EXCEPT !.at = "insert"]
                  ELSE [req[c] EXCEPT !.at = "record", !.source = "JOB_METADATA", !.rawName = req[c].name, !.named = named,
                                      !.next = 1, !.counts = Continued(@)])
    /\ UNCHANGED <<scenario, after, tables, troubles>>

(* A panic withholds the name; what was lost of its evidence is then forgotten.*)
RewriteName(c) ==
    /\ req[c].at = "record" /\ req[c].next > Len(Todo(c)) /\ req[c].source = "JOB_METADATA"
    /\ LET r == req[c]
           name == ApplyTransformations(r.name, r.named)
           wrong == EvidenceBlocks(r.lost) /\ name # Panic
           status == IF wrong \/ name = Panic THEN "SCAN_ERROR" ELSE StatusOf(r.named, r.policy)
       IN  Set(c, [r EXCEPT !.at = "insert", !.name = IF name = Panic THEN NameWithheld ELSE name,
                            !.blocked = @ \/ wrong, !.scan = mergeScanStatus(@, status)])
    /\ UNCHANGED <<scenario, after, tables, troubles>>

(* The row, whose error is not looked at, and the answer. *)
KeyIsFree(c) == req[c].keyed => ~\E j \in Requests : HasKey(j)

Row(c) == [keyed |-> req[c].keyed, doc |-> req[c].doc, name |-> req[c].name, scan |-> req[c].scan,
           status |-> IF req[c].blocked THEN "Blocked" ELSE "Pending"]

Insert(c) ==
    /\ req[c].at = "insert"
    /\ \E ok \in BOOLEAN :
         /\ Statement(c, ok)
         /\ rows' = IF ok /\ KeyIsFree(c) THEN With(rows, c, Row(c)) ELSE rows
    /\ Set(c, [req[c] EXCEPT !.at = "done", !.reply = c])
    /\ UNCHANGED <<scenario, after, records, vault, outputs, artifacts>>

-----------------------------------------------------------------------------
(* The run of a task that is not blocked, and what it produces. *)
Execute(j) ==
    /\ j \in DOMAIN rows /\ rows[j].status = "Pending"
    /\ rows' = [rows EXCEPT ![j].status = "Completed"]
    /\ outputs' = With(outputs, j, [at |-> "scan", body |-> scenario.output, found |-> <<>>, sanitized |-> <<>>, scan |-> "", next |-> 1])
    /\ UNCHANGED <<scenario, req, after, records, vault, artifacts, troubles>>

(* scanSafely: a panic finds nothing and makes the scan an error. *)
ScanOutput(j) ==
    /\ j \in DOMAIN outputs /\ outputs[j].at = "scan"
    /\ \E policy \in scenario.policies :
         LET body == outputs[j].body
             found == Evaluate(body, "JOB_RESULT", policy)
             out == RewriteDocument(body, found)
             status == IF AllApplied(body, found) THEN StatusOf(found, policy) ELSE "SCAN_ERROR"
         IN  outputs' = [outputs EXCEPT ![j] =
                 IF Panicked(out) THEN [@ EXCEPT !.at = "record", !.scan = "SCAN_ERROR"]
                 ELSE [@ EXCEPT !.at = "record", !.found = found, !.scan = status,
                                !.sanitized = IF status = "SCAN_ERROR" THEN <<>> ELSE FlattenSeq([l \in DOMAIN out.leaves |-> out.leaves[l].text])]]
    /\ UNCHANGED <<scenario, req, after, rows, records, vault, artifacts, troubles>>

(* ScanAndPersistArtifact: a record that cannot be saved is passed over. *)
RecordOutput(j) ==
    /\ j \in DOMAIN outputs /\ outputs[j].at = "record" /\ outputs[j].next <= Len(outputs[j].found)
    /\ \E ok \in BOOLEAN :
         LET o == outputs[j]
             f == o.found[o.next]
             index == Cardinality({i \in 1 .. o.next : o.found[i].type = f.type})
         IN  /\ Db(ok)
             /\ records' = IF ok THEN records \cup {[job |-> j, source |-> "JOB_RESULT", type |-> f.type, index |-> index, finding |-> f]} ELSE records
    /\ outputs' = [outputs EXCEPT ![j].next = @ + 1]
    /\ UNCHANGED <<scenario, req, after, rows, vault, artifacts>>

Truncated(text) == SubSeq(text, 1, IF Len(text) < MaxArtifact THEN Len(text) ELSE MaxArtifact)
StoresAnyway(o) == Truncated(IF o.scan = "SCAN_ERROR" THEN FlattenSeq([l \in DOMAIN o.body.leaves |-> o.body.leaves[l].text]) ELSE o.sanitized)   \* mutant
BodyOf(o) == IF o.scan = "SCAN_ERROR" THEN <<>> ELSE Truncated(o.sanitized)

StoreArtifact(j) ==
    /\ j \in DOMAIN outputs /\ outputs[j].at = "record" /\ outputs[j].next > Len(outputs[j].found)
    /\ \E ok \in BOOLEAN :
         /\ Db(ok)
         /\ artifacts' = IF ok THEN With(artifacts, j, [scan |-> outputs[j].scan, body |-> BodyOf(outputs[j])]) ELSE artifacts
    /\ outputs' = [outputs EXCEPT ![j].at = "done"]
    /\ UNCHANGED <<scenario, req, after, rows, records, vault>>

-----------------------------------------------------------------------------
Busy(c) == req[c].at \notin {"idle", "done", "failed"}

HangUp(c) ==
    /\ Busy(c) /\ ~req[c].hungUp /\ troubles < MaxTroubles /\ troubles' = troubles + 1
    /\ Set(c, [req[c] EXCEPT !.hungUp = TRUE])
    /\ UNCHANGED <<scenario, after, tables>>

Crash ==
    /\ \E c \in Requests : Busy(c)
    /\ troubles < MaxTroubles /\ troubles' = troubles + 1
    /\ req' = [c \in Requests |-> IF Busy(c) THEN [req[c] EXCEPT !.at = "failed"] ELSE req[c]]
    /\ UNCHANGED <<scenario, after, tables>>

Next ==
    \/ \E c \in Requests :
         \/ Lookup(c) \/ Rerun(c) \/ ScanPayload(c) \/ RecordFinding(c) \/ SaveToVault(c) \/ RewritePayload(c)
         \/ ScanName(c) \/ RewriteName(c) \/ Insert(c) \/ HangUp(c)
         \/ Execute(c) \/ ScanOutput(c) \/ RecordOutput(c) \/ StoreArtifact(c)
    \/ Crash

Spec == Init /\ [][Next]_vars

-----------------------------------------------------------------------------
(* Whatever two requests with one key do at the same time, at most one task    *)
(* is stored for it (create.go:23-34, tasks.go:16).                         *)
OneTaskPerKey == Cardinality({j \in Requests : HasKey(j)}) <= 1

(* A retry sent after an answer to a request with the key gets the task of     *)
(* that answer, blocked or not, if the task was stored and the look-up could   *)
(* be made (create.go:23-27).                                               *)
RetryGetsOriginal ==
    \A c \in Requests : \A d \in after[c] :
        (troubles = 0 /\ req[c].keyed /\ req[d].keyed /\ req[c].at = "done" /\ req[d].reply \in DOMAIN rows)
            => req[c].reply = req[d].reply

(* A task that may run has a record of every finding of its payload and of its *)
(* name, and those that were rewritten can be recovered: a vault entry each,   *)
(* but for the encryptions that failed (create.go:108-109, 176-180).          *)
EvidenceComplete ==
    \A j \in DOMAIN rows : rows[j].status # "Blocked" =>
        /\ \A i \in DOMAIN req[j].found : \E e \in records : e.job = j /\ e.source = "JOB_PAYLOAD" /\ e.finding = req[j].found[i]
        /\ rows[j].name # NameWithheld =>
             \A i \in DOMAIN req[j].named : \E e \in records : e.job = j /\ e.source = "JOB_METADATA" /\ e.finding = req[j].named[i]
        /\ Cardinality({e \in records : e.job = j /\ e.source # "JOB_RESULT"})
             <= Cardinality({e \in vault : e.job = j}) + troubles

(* The records of a task's payload and name are told apart by type and index,  *)
(* which is how a vault entry finds its record (metadata_scan.go:55-56).      *)
IndicesDistinct ==
    \A e, f \in records : (e.job = f.job /\ "JOB_RESULT" \notin {e.source, f.source} /\ e.type = f.type /\ e.index = f.index) => e = f

(* The scan status of a task covers both scans: CLEAN means that neither found  *)
(* anything, and a detector that failed in either shows.                     *)
StatusCoversBoth ==
    \A j \in DOMAIN rows :
        /\ rows[j].scan = "CLEAN" => req[j].found = <<>> /\ req[j].named = <<>>
        /\ rows[j].scan # "SCAN_ERROR" => ~Broken(req[j].policy)

(* Where the findings that were kept do not overlap, splicing them from the    *)
(* back is the same as replacing each of them where it stands: nothing of what *)
(* they cover stays, nothing else is touched (pii_transformation.go).        *)
Substituted(text, findings) ==
    FlattenSeq([i \in DOMAIN text |->
        LET covering == {k \in DOMAIN findings : Transforms(findings[k]) /\ i > findings[k].start /\ i <= findings[k].end}
            f == findings[CHOOSE k \in covering : TRUE]
        IN  IF covering = {} THEN <<text[i]>> ELSE IF i = f.start + 1 THEN Replacement(f) ELSE <<>>])
StoredIsSubstituted ==
    \A j \in DOMAIN rows :
        /\ (rows[j].doc # Withheld /\ Disjoint(req[j].found)) =>
             \A l \in DOMAIN rows[j].doc.leaves :
                 rows[j].doc.leaves[l].text = Substituted(req[j].raw.leaves[l].text,
                     Such(req[j].found, LAMBDA f : f.path = PathOf(req[j].raw.leaves[l].steps)))
        /\ (rows[j].name # NameWithheld /\ Disjoint(req[j].named)) => rows[j].name = Substituted(req[j].rawName, req[j].named)

(* Every string of a JSON payload has its own findings: a string in which a    *)
(* detector finds one value to be rewritten, whatever it finds in the others,  *)
(* is stored with exactly that value replaced, and a value with a letter or a  *)
(* digit is not replaced by itself (pii_fieldpath_walker.go:78-87,           *)
(* pii_tools.go:157-205).                                                   *)
EachStringRewritten ==
    \A j \in DOMAIN rows : (rows[j].doc # Withheld /\ req[j].raw.json) =>
        \A l \in DOMAIN rows[j].doc.leaves :
            LET leaf == req[j].raw.leaves[l]
                alone == Detect(leaf.text, PathOf(leaf.steps), "JOB_PAYLOAD", req[j].policy)
                stored == rows[j].doc.leaves[l].text
            IN  (Len(alone) = 1 /\ Transforms(alone[1])) =>
                    /\ stored = Splice(leaf.text, alone[1])
                    /\ (\E i \in DOMAIN alone[1].match : IsAlphanumeric(alone[1].match[i])) => stored # leaf.text

(* An output whose scan failed is not stored; one that is stored holds nothing *)
(* of a value that was to be redacted, wherever it is cut (lines 213-225 of    *)
(* post_execution_scan.go).                                                 *)
ArtifactSafe ==
    \A j \in DOMAIN artifacts :
        /\ artifacts[j].scan = "SCAN_ERROR" => artifacts[j].body = <<>>
        /\ Disjoint(outputs[j].found) =>
             \A i \in DOMAIN outputs[j].found :
                 outputs[j].found[i].rule.action \in {"REDACT", "BLOCK"} =>
                     Cells(outputs[j].found[i].match) \cap Cells(artifacts[j].body) = {}

(* create.go:24-25: "return the task that was created the first time instead   *)
(* of creating a second one".                                               *)
ReplyHasTask ==
    \A c \in Requests : (scenario.keyed /\ troubles = 0 /\ req[c].at = "done") => req[c].reply \in DOMAIN rows

(* create.go:139: "payload is rewritten so no downstream system (Redis, worker *)
(* logs, monitoring) ever sees the raw value".                              *)
RecordedIsHidden ==
    \A j \in DOMAIN rows : \A i \in DOMAIN req[j].found : \A l \in DOMAIN rows[j].doc.leaves :
        req[j].found[i].rule.action = "REDACT" => Cells(req[j].found[i].match) \cap Cells(rows[j].doc.leaves[l].text) = {}

(* An idempotency key stands for one task (create.go:23-34): no second is      *)
(* stored, and a retry gets the first.                                       *)
KeyHonoured == OneTaskPerKey /\ RetryGetsOriginal

(* The records can be told apart and the status leaves out neither scan.      *)
EvidenceTold == IndicesDistinct /\ StatusCoversBoth

(* A task that may run can be accounted for: every finding is on record and    *)
(* can be told from the others, and the scan status covers both scans.       *)
EvidenceSound == TypeOK /\ EvidenceComplete /\ EvidenceTold

(* What is stored of a payload and a name is the original with every value to  *)
(* be hidden replaced, in every string, and nothing else changed.            *)
TextRewritten == StoredIsSubstituted /\ EachStringRewritten
=============================================================================
