------------------------------ MODULE MCIntake ------------------------------
(***************************************************************************)
(* Scenarios for TaskIntake: every text and kind of rule with one request and *)
(* its run, and small texts with requests that race, retry and rerun.        *)
(***************************************************************************)
EXTENDS TaskIntake

(* Classes: p and q are alphanumeric.  The places of a text begin after n. *)
Text(classes, n) == [i \in DOMAIN classes |-> <<classes[i], n + i>>]
Plain(classes) == [json |-> FALSE, leaves |-> <<[steps |-> <<>>, text |-> Text(classes, 10)]>>]
NestedKey == <<<<"a">>, <<"b">>>>
DottedKey == <<<<"a", ".", "b">>>>
Element == <<<<"c">>, <<"[0]">>>>
Json(first, f, second, s) ==
    [json |-> TRUE, leaves |-> <<[steps |-> first, text |-> Text(f, 10)], [steps |-> second, text |-> Text(s, 20)]>>]

Numbers(classes, least, broken) == [id |-> 1, type |-> "T", classes |-> classes, least |-> least, broken |-> broken]
Words(broken) == [id |-> 2, type |-> "U", classes |-> {"p", "q", ".", "@"}, least |-> 4, broken |-> broken]
Detectors == <<Numbers({"p"}, 2, FALSE), Words(FALSE)>>

Everything == [source |-> {}, type |-> {}, detector |-> {}]
NoMask == [strategy |-> "", visible |-> 0, domain |-> ""]
Rule(priority, type, action) == [priority |-> priority, match |-> [Everything EXCEPT !.type = {type}], paths |-> {}, action |-> action, mask |-> NoMask]
Masking(priority, type, strategy, visible, domain) ==
    [Rule(priority, type, "MASK") EXCEPT !.mask = [strategy |-> strategy, visible |-> visible, domain |-> domain]]
Policy(rules) == [detectors |-> Detectors, rules |-> rules, default |-> "OBSERVE"]

Redacting == Policy({Rule(1, "T", "REDACT"), Rule(2, "U", "REDACT")})
NumbersFirst == Policy({Rule(2, "T", "REDACT"), Masking(1, "U", "EMAIL", 1, "MASK")})
Blocking == Policy({[Rule(3, "T", "BLOCK") EXCEPT !.match.source = {"JOB_METADATA"}], Rule(1, "T", "REDACT")})
Ignoring == Policy({[Rule(3, "T", "IGNORE") EXCEPT !.paths = {<<"c", "[*]">>}], Rule(2, "T", "REDACT")})
BadPattern == [Policy({Rule(1, "T", "REDACT")}) EXCEPT !.detectors = <<Numbers({"p"}, 2, FALSE), Words(TRUE)>>]
Masks == {Policy({Masking(2, "T", strategy, visible, "PRESERVE"), Masking(1, "U", strategy, visible, "PRESERVE")}) :
             strategy \in {"FULL", "KEEP_PREFIX", "KEEP_SUFFIX", "KEEP_PREFIX_SUFFIX", "PRESERVE_FORMAT", "EMAIL", "FIXED"}, visible \in {1, 3}}

Docs == {Plain(<<"p", "p">>), Plain(<<"q", "@", "q", ".", "q">>), Plain(<<"p", "p", ".", "p", "p", "q">>),
         Plain(<<"p", "p", ".", "p", "p", "p", "p">>), Plain(<<"p", "p", ".", "p", "p", "p">>),
         Json(NestedKey, <<"p", "p">>, DottedKey, <<"p", "p">>), Json(DottedKey, <<"p", "p">>, Element, <<"q", "p", "p">>),
         Json(Element, <<"p", "p">>, NestedKey, <<"p", "p", ".", "p", "p", "q">>)}
Name == Text(<<"p", "p">>, 30)
LongName == Text(<<"p", "p", ".", "p", "p", "p", "p">>, 30)
PlainName == Text(<<"q">>, 30)
Output == [json |-> FALSE, leaves |-> <<[steps |-> <<>>, text |-> Text(<<"-", "p", "p", "p">>, 40)]>>]

Alone == {[active |-> {"c1"}, keyed |-> FALSE, doc |-> d, name |-> n, output |-> Output, policies |-> {p}] :
             d \in Docs, n \in {<<>>, PlainName, Name, LongName}, p \in {Redacting, NumbersFirst, Blocking, Ignoring, BadPattern} \cup Masks}
Racing == {[active |-> {"c1", "c2"}, keyed |-> TRUE, doc |-> Plain(<<"p", "p">>), name |-> n, output |-> Output, policies |-> {Redacting, Blocking}] :
             n \in {<<>>, Name}}
RacingRerun == {[active |-> {"c1", "c2", "r"}, keyed |-> TRUE, doc |-> Plain(<<"p", "p">>), name |-> <<>>, output |-> Output, policies |-> {Redacting}]}
Rerunning == {[active |-> {"c1", "r"}, keyed |-> FALSE, doc |-> Plain(<<"p", "p">>), name |-> Name, output |-> Output,
               policies |-> {Ignoring, BadPattern}]}
MCScenarios == Alone \cup Racing \cup RacingRerun \cup Rerunning
=============================================================================
