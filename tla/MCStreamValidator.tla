-------------------------- MODULE MCStreamValidator --------------------------
(* Short sources over one line of each kind, records with a nested and a   *)
(* redacted field, and the options that matter.                            *)
EXTENDS SanitizedStream

CONSTANTS
  MaxLines,
  RowFailures     \* the row checks, but for the outliers, each value fails

Name(case) == Str(<<"Ann">>, case, case = "mixed")
ValueOfTable == [
  plain   |-> Object([age |-> Number(3), email |-> Str(<<"a@b">>, "lower", FALSE)]),
  old     |-> Object([age |-> Number(9), email |-> Str(<<"c@d">>, "mixed", TRUE), name |-> Name("mixed")]),
  noEmail |-> Object([age |-> Number(1), email |-> Null,
                      more |-> Array(<<Object([name |-> Name("upper"), email |-> Str(<<"e@f">>, "lower", FALSE)])>>)])]
MCJson == DOMAIN ValueOfTable
MCText == MCJson \cup {"garbage"}

Rule(field, strategy) == [field |-> field, strategy |-> strategy]
Strategy(kind) == [kind |-> kind]
Sanitizer(rules, redactDeep, lower, upper, normalizeDeep) ==
  [rules |-> rules, redactDeep |-> redactDeep, trim |-> lower, lower |-> lower, upper |-> upper,
   normalizeDeep |-> normalizeDeep]
PolicyOfSanitizerTable == [
  noop |-> Sanitizer(<< >>, FALSE, {}, {}, FALSE),
  hash |-> Sanitizer(<<Rule("email", Strategy("hash")), Rule("email", Strategy("drop"))>>, TRUE, {"name"}, {}, FALSE),
  drop |-> Sanitizer(<<Rule("email", Strategy("drop")), Rule("age", Strategy("mask"))>>, FALSE, {"name"}, {}, TRUE),
  mask |-> Sanitizer(<<Rule("more", Strategy("null")),
                       Rule("age", [kind |-> "maskWith", token |-> Str(<<"n/a">>, "lower", FALSE)])>>,
                     FALSE, {"email"}, {"email", "name"}, FALSE)]
MCSanitizers == DOMAIN PolicyOfSanitizerTable

Result(s, t) == Sanitize(PolicyOfSanitizerTable[s], ValueOfTable[t])
CleanTable == [s \in MCSanitizers |-> [t \in MCJson |-> Result(s, t).value]]
EventsTable == [s \in MCSanitizers |-> [t \in MCJson |-> Cardinality(Result(s, t).events)]]
ValuesTable == UNION {{CleanTable[s][t] : t \in MCJson} : s \in MCSanitizers} \cup {ValueOfTable[t] : t \in MCJson}

(* The contract asks for an age of at least 2 and at most 5 without        *)
(* outliers, for an email that looks like one and for a share of names:    *)
(* two constraints of the age compile to range checks of one name.         *)
Check(column, name, severity, rows, node) ==
  [column |-> column, name |-> name, severity |-> severity, rows |-> rows, node |-> node]
CheckListTable == <<
  Check("age", "min", "Error", TRUE, FALSE), Check("age", "max", "Error", TRUE, FALSE),
  Check("email", "regex", "Error", TRUE, FALSE), Check("name", "completeness", "Warning", FALSE, FALSE),
  Check("age", "outlier_detection", "Blocking", TRUE, TRUE),
  Check("age", "range_check", "Error", TRUE, TRUE), Check("age", "range_check", "Error", TRUE, TRUE)>>

HasAge(v) == v.fields.age.tag = "number"
TooLow(v) == HasAge(v) /\ v.fields.age.n < 2
TooHigh(v) == HasAge(v) /\ v.fields.age.n > 5
BadEmail(v) == /\ "email" \in DOMAIN v.fields /\ v.fields.email.tag = "string"
               /\ v.fields.email.word \notin {<<"a@b">>, <<"c@d">>}
FailingRowChecks(v) == {c \in {1, 6} : TooLow(v)} \cup {c \in {2, 7} : TooHigh(v)} \cup {c \in {3} : BadEmail(v)}
RowFailuresTable == [v \in ValuesTable |-> FailingRowChecks(v)]

(* The ages outside 1.5 interquartile ranges of their batch.               *)
Outliers(values) ==
  LET rows == {i \in DOMAIN values : HasAge(values[i])}
      age(i) == values[i].fields.age.n
      below(i) == Cardinality({j \in rows : age(j) < age(i)})
      upTo(i) == Cardinality({j \in rows : age(j) <= age(i)})
      atRank(k) == age(CHOOSE i \in rows : below(i) <= k /\ k < upTo(i))
      q1 == atRank(Cardinality(rows) \div 4)
      q3 == atRank((3 * Cardinality(rows)) \div 4)
  IN  {i \in rows : 2 * (q1 - age(i)) > 3 * (q3 - q1) \/ 2 * (age(i) - q3) > 3 * (q3 - q1)}

MCFails(c, values) == IF c = 5 THEN Outliers(values) ELSE {i \in DOMAIN values : c \in RowFailures[values[i]]}

L(bytes, tag, text) == [bytes |-> bytes, tag |-> tag, text |-> text]
MCLines == {L(1, "blank", NoText), L(4, "oversized", NoText), L(2, "badUtf8", NoText)}
           \cup {L(2, "text", t) : t \in MCText}
SourcesTable == UNION {[1..n -> MCLines] : n \in 0..MaxLines}

Skip == [mode |-> "skip", max |-> 0]
FailFast == [mode |-> "failFast", max |-> 0]
Collect(n) == [mode |-> "collect", max |-> n]
O(maxRecords, maxBytes, batchSize, malformedPolicy, oversizedPolicy, sanitizer, failOnWarning) ==
  [maxRecords |-> maxRecords, maxBytes |-> maxBytes, batchSize |-> batchSize, malformed |-> malformedPolicy,
   oversized |-> oversizedPolicy, sanitizer |-> sanitizer, failOnWarning |-> failOnWarning]

MCOptions ==
  {O(None, None, 2, p, q, "noop", FALSE) : p \in {Skip, FailFast, Collect(1)}, q \in {FailFast, Collect(2)}}
  \cup {O(r, b, n, Collect(1), Skip, "hash", TRUE) : r \in {None, 0, 2}, b \in {None, 4}, n \in 0..2}
  \cup {O(None, None, 2, Skip, Skip, s, FALSE) : s \in {"drop", "mask"}}
  \cup {O(None, None, 4, Skip, Skip, "noop", FALSE)}

(* The constants, by name: TLC evaluates a table once, not at each use.    *)
MCClean == CleanTable
MCEvents == EventsTable
MCValues == ValuesTable
MCRowFailures == RowFailuresTable
MCCheckList == CheckListTable
MCValueOf == ValueOfTable
MCPolicyOfSanitizer == PolicyOfSanitizerTable
MCSources == SourcesTable
=============================================================================
