------------------------------- MODULE PIIText -------------------------------
(***************************************************************************)
(* The scan of a text and its rewriting (internal/pii): detectors, rules,     *)
(* overlaps, masks and splices, as operators.                               *)
(*                                                                         *)
(* A text is a sequence of cells.  A cell a caller wrote is <<class, place>>, *)
(* so that two of them are never equal; what a rewriting puts in their place  *)
(* is Star.  Offsets are those of Go: text[start:end] holds the cells          *)
(* start + 1 .. end.  A detector's regular expression is [class...]{least,}:  *)
(* it finds the maximal runs of its classes of at least so many cells.       *)
(***************************************************************************)
EXTENDS Integers, Sequences, SequencesExt, FiniteSets

Cell == STRING \X (Nat \ {0})                  \* a caller's
Star == <<"*", 0>>
Marker == <<Star, Star, Star>>                  \* "[Type-Index]", "[Type-REDACTED]" and a fixed token
IsAlphanumeric(cell) == cell[1] \in {"p", "q"}
Slice(text, start, end) == SubSeq(text, start + 1, end)

(* Those that satisfy P, in their order (SelectSeq, written for the proofs).  *)
Such(findings, P(_)) == FlattenSeq([i \in DOMAIN findings |-> IF P(findings[i]) THEN <<findings[i]>> ELSE <<>>])

-----------------------------------------------------------------------------
(* Paths of a JSON document: sequences of tokens, a dot between the keys.     *)
(* A step of a leaf is a key, itself a sequence of tokens, or an index.       *)
Token == STRING \cup {"task_name"}               \* a literal is in STRING, which the provers do not know
Indices == {"[0]", "[1]"}
escaped(token) == IF token = "." THEN "\\." ELSE token

jsonChildPath(prefix, key) ==
    LET name == [i \in DOMAIN key |-> escaped(key[i])]
    IN  IF prefix = <<>> THEN name ELSE prefix \o <<".">> \o name

PathOf(steps) ==
    FoldLeft(LAMBDA path, step : IF step[1] \in Indices THEN path \o step ELSE jsonChildPath(path, step), <<>>, steps)

fieldPathMatches(pattern, path) ==
    /\ Len(pattern) = Len(path)
    /\ \A i \in DOMAIN path : pattern[i] = path[i] \/ (pattern[i] = "[*]" /\ path[i] \in Indices)

(* A document of cells in C: a plain text, or the strings of a JSON value, each *)
(* with its place, in the order they are walked.                             *)
Documents(C) == {doc \in [json : BOOLEAN, leaves : Seq([steps : Seq(Seq(Token)), text : Seq(C)])] :
                     doc.json \/ Len(doc.leaves) <= 1}

(* A caller's cells are told apart by their places. *)
Told(doc) ==
    \A k, l \in DOMAIN doc.leaves : \A i \in DOMAIN doc.leaves[k].text, j \in DOMAIN doc.leaves[l].text :
        doc.leaves[k].text[i] = doc.leaves[l].text[j] => k = l /\ i = j

-----------------------------------------------------------------------------
(* Rules.  A match names the values it allows in each dimension, none for     *)
(* any; the first rule by priority that matches decides.                     *)
Dimensions == {"source", "type", "detector"}

ruleMatches(rule, ctx) ==
    /\ \A d \in Dimensions : rule.match[d] = {} \/ ctx[d] \in rule.match[d]
    /\ rule.paths = {} \/ \E pattern \in rule.paths : fieldPathMatches(pattern, ctx.path)

ResolveRule(ctx, policy) ==
    LET matching == {rule \in policy.rules : ruleMatches(rule, ctx)}
        default == [priority |-> 0, action |-> policy.default, mask |-> [strategy |-> "", visible |-> 0, domain |-> ""]]
    IN  IF matching = {} THEN default
        ELSE CHOOSE rule \in matching : \A other \in matching : rule.priority >= other.priority

-----------------------------------------------------------------------------
(* Masks: which cells of the value stay as they are. *)
maskAll(value) == [i \in DOMAIN value |-> Star]
Keep(value, places) == [i \in DOMAIN value |-> IF i \in places THEN value[i] ELSE Star]
Ending(n, value) == {i \in DOMAIN value : i > Len(value) - n}
AtSign(value) == IF \E i \in DOMAIN value : value[i][1] = "@" THEN CHOOSE i \in DOMAIN value : value[i][1] = "@" /\ \A j \in 1 .. i - 1 : value[j][1] # "@"
                                                           ELSE Len(value) + 1

prefixsuffixReplacer(value, n) == IF 2 * n >= Len(value) THEN value ELSE Keep(value, 1 .. n \cup Ending(n, value))
PrefixBeforeAt(value, n, domain) ==
    Keep(value, {i \in DOMAIN value : i <= n /\ i < AtSign(value)}
                \cup {i \in DOMAIN value : i = AtSign(value) \/ (i > AtSign(value) /\ domain # "MASK")})

ByStrategy(value, mask) ==
    CASE mask.strategy = "KEEP_PREFIX"        -> Keep(value, 1 .. mask.visible)
      [] mask.strategy = "KEEP_SUFFIX"        -> Keep(value, Ending(mask.visible, value))
      [] mask.strategy = "KEEP_PREFIX_SUFFIX" -> prefixsuffixReplacer(value, mask.visible)
      [] mask.strategy = "PRESERVE_FORMAT"    -> Keep(value, {i \in DOMAIN value : ~IsAlphanumeric(value[i])})
      [] mask.strategy = "EMAIL"              -> PrefixBeforeAt(value, mask.visible, mask.domain)
      [] mask.strategy = "FIXED"              -> Marker
      [] OTHER                                -> maskAll(value)

Mask(value, mask) ==
    LET out == ByStrategy(value, mask)
    IN  IF out = value /\ \E i \in DOMAIN value : IsAlphanumeric(value[i]) THEN maskAll(value) ELSE out

-----------------------------------------------------------------------------
(* Detection: for each detector the maximal runs, in the order of the text.   *)
(* A detector whose expression does not compile is passed over.              *)
Detector == [id : Nat, type : STRING, classes : SUBSET STRING, least : Nat \ {0}, broken : BOOLEAN]

Runs(text, detector) ==
    {at \in (0 .. Len(text)) \X (0 .. Len(text)) :
        LET s == at[1]
            e == at[2]
        IN  /\ e - s >= detector.least
            /\ \A i \in s + 1 .. e : text[i][1] \in detector.classes
            /\ s > 0 => text[s][1] \notin detector.classes
            /\ e < Len(text) => text[e + 1][1] \notin detector.classes}

Finding(text, detector, path, source, policy, at) ==
    [type |-> detector.type, detector |-> detector.id, path |-> path, start |-> at[1], end |-> at[2],
     match |-> Slice(text, at[1], at[2]),
     rule |-> ResolveRule([source |-> source, type |-> detector.type, detector |-> detector.id, path |-> path], policy)]

Detect(text, path, source, policy) ==
    FlattenSeq([d \in DOMAIN policy.detectors |->
        LET detector == policy.detectors[d]
            found == IF detector.broken THEN {} ELSE Runs(text, detector)
            At(i) == CHOOSE at \in found : Cardinality({other \in found : other[1] < at[1]}) = i - 1
        IN  [i \in 1 .. Cardinality(found) |-> Finding(text, detector, path, source, policy, At(i))]])

Broken(policy) == \E d \in DOMAIN policy.detectors : policy.detectors[d].broken

DetectDocument(doc, source, policy) ==
    FlattenSeq([l \in DOMAIN doc.leaves |-> Detect(doc.leaves[l].text, PathOf(doc.leaves[l].steps), source, policy)])

-----------------------------------------------------------------------------
(* Overlaps: a candidate meets the first finding kept so far that it overlaps *)
(* and takes its place or is dropped.                                       *)
overlaps(a, b) == a.start < b.end /\ b.start < a.end
SamePlace(a, b) == (a.path = <<>> \/ b.path = <<>> \/ a.path = b.path) /\ overlaps(a, b)

winsOver(a, b) ==
    \/ a.rule.priority > b.rule.priority
    \/ /\ a.rule.priority = b.rule.priority
       /\ \/ Len(a.match) > Len(b.match)
          \/ Len(a.match) = Len(b.match) /\ a.detector < b.detector

Meet(kept, candidate) ==
    LET conflicts == {i \in DOMAIN kept : SamePlace(candidate, kept[i])}
        first == CHOOSE i \in conflicts : \A j \in conflicts : i <= j
    IN  CASE conflicts = {}                     -> Append(kept, candidate)
          [] conflicts # {} /\ winsOver(candidate, kept[first]) -> [kept EXCEPT ![first] = candidate]
          [] OTHER                              -> kept

ResolveOverlaps(evaluated) == FoldLeft(Meet, <<>>, evaluated)

DropIgnored(findings) == Such(findings, LAMBDA f : f.rule.action # "IGNORE")

Disjoint(findings) == \A i, j \in DOMAIN findings : i # j => ~SamePlace(findings[i], findings[j])

-----------------------------------------------------------------------------
(* Rewriting.  A splice beyond the end of the text panics. *)
Panic == <<<<"panic", 0>>>>
Transforms(f) == f.rule.action \in {"REDACT", "MASK", "BLOCK"}
Replacement(f) == IF f.rule.action = "MASK" THEN Mask(f.match, f.rule.mask) ELSE Marker

Splice(text, f) ==
    IF text = Panic \/ f.end > Len(text) THEN Panic
    ELSE Slice(text, 0, f.start) \o Replacement(f) \o Slice(text, f.end, Len(text))

FromTheFront(findings, S) ==                                                     \* mutant
    CHOOSE i \in S : \A j \in S : findings[i].start > findings[j].start \/ (findings[i].start = findings[j].start /\ i >= j)
(* From the back: what starts first is spliced last. *)
Foremost(findings, S) ==
    CHOOSE i \in S : \A j \in S : findings[i].start < findings[j].start \/ (findings[i].start = findings[j].start /\ i >= j)

ApplyTransformations(text, findings) ==
    MapThenFoldSet(LAMBDA f, out : Splice(out, f), text, LAMBDA i : findings[i], LAMBDA S : Foremost(findings, S),
                   {i \in DOMAIN findings : Transforms(findings[i])})

(* rewriteJSONString: the findings of this path whose text is found here.     *)
Mine(leaf, findings) ==
    Such(findings, LAMBDA f : /\ f.path = PathOf(leaf.steps)
                              /\ f.end <= Len(leaf.text) /\ Slice(leaf.text, f.start, f.end) = f.match)
RewriteLeaf(leaf, findings) ==
    [leaf EXCEPT !.text = ApplyTransformations(leaf.text, ResolveOverlaps(Mine(leaf, findings)))]

(* applyFindingsToJSON *)
RewriteDocument(doc, findings) ==
    [doc EXCEPT !.leaves = [l \in DOMAIN doc.leaves |->
        IF doc.json THEN RewriteLeaf(doc.leaves[l], findings)
        ELSE [doc.leaves[l] EXCEPT !.text = ApplyTransformations(@, findings)]]]
Panicked(doc) == \E l \in DOMAIN doc.leaves : doc.leaves[l].text = Panic

(* ApplyFindingsToJSONChecked fails when a finding belongs to no string. *)
AllApplied(doc, findings) ==
    doc.json => \A i \in DOMAIN findings : \E l \in DOMAIN doc.leaves : Mine(doc.leaves[l], <<findings[i]>>) # <<>>

Cells(text) == {text[i] : i \in DOMAIN text}
=============================================================================
