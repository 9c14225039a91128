--------------------------- MODULE SanitizedStream ---------------------------
(***************************************************************************)
(* The stream validator with the sanitizer of its options: Clean and       *)
(* Events, any functions in StreamValidator, are here those of Sanitizer   *)
(* and a text stands for a JSON value.                                     *)
(***************************************************************************)
EXTENDS StreamValidator, Sanitizer

CONSTANTS
  ValueOf,    \* serde_json::from_str, on the texts it can parse
  PolicyOfSanitizer   \* the policies of each sanitizer

ASSUME SanitizerAssumption ==
  LET result(s, t) == Sanitize(PolicyOfSanitizer[s], ValueOf[t])
  IN  /\ Clean = [s \in Sanitizers |-> [t \in Json |-> result(s, t).value]]
      /\ Events = [s \in Sanitizers |-> [t \in Json |-> Cardinality(result(s, t).events)]]

-----------------------------------------------------------------------------
(* What a sanitized record should be, stated path by path.                 *)

LOCAL INSTANCE FiniteSetsExt
LOCAL INSTANCE SequencesExt

Children(v) == CASE v.tag = "object" -> {<<[key |-> k], v.fields[k]>> : k \in DOMAIN v.fields}
                 [] v.tag = "array"  -> {<<[index |-> i], v.items[i]>> : i \in DOMAIN v.items}
                 [] OTHER -> {}

(* The values inside v, as pairs of a path and the value there.            *)
RECURSIVE Inside(_)
Inside(v) == UNION {{<< <<c[1]>>, c[2] >>} \cup {<< <<c[1]>> \o p[1], p[2] >> : p \in Inside(c[2])} : c \in Children(v)}

PathsOf(v) == {p[1] : p \in Inside(v)}
ValueAt(v, path) == (CHOOSE p \in Inside(v) : p[1] = path)[2]

(* A policy speaks of the fields it lists, at the top level and, if it is  *)
(* recursive, at any depth (sanitize.rs:21-22, :32, :43).                  *)
IsKey(step) == DOMAIN step = {"key"}
Speaks(recursive, path, i, fields) ==
  /\ IsKey(path[i]) /\ path[i].key \in fields
  /\ i = 1 \/ recursive

(* But where just one policy is recursive it draws the other one along, as *)
(* one walk serves both (sanitize.rs:217, :225).                           *)
DrawsTheOther(s) == s.redactDeep # s.normalizeDeep
RedactsBelow(s) == s.redactDeep \/ DrawsTheOther(s)
NormalizesBelow(s) == s.normalizeDeep \/ DrawsTheOther(s)

RedactedFields(s) == {s.rules[i].field : i \in DOMAIN s.rules}
RedactedSteps(s, path) == {i \in DOMAIN path : Speaks(RedactsBelow(s), path, i, RedactedFields(s))}

StrategyOf(s, key) ==
  s.rules[CHOOSE i \in DOMAIN s.rules :
            s.rules[i].field = key /\ \A j \in 1..(i - 1) : s.rules[j].field # key].strategy

(* A string of a listed field: none but its spelling may differ, and that  *)
(* as the policy says.                                                     *)
Normalized(s, path, raw, v) ==
  LET listed(fields) == Speaks(NormalizesBelow(s), path, Len(path), fields)
  IN  /\ v.tag = "string" /\ v.word = raw.word
      /\ v.padded = (raw.padded /\ ~listed(s.trim))
      /\ v.case = CASE raw.case # "none" /\ listed(s.upper) -> "upper"
                    [] raw.case # "none" /\ listed(s.lower) /\ ~listed(s.upper) -> "lower"
                    [] OTHER -> raw.case

Replaces(strategy, raw, v) ==
  CASE strategy.kind = "mask"     -> v.tag = "string" /\ v.word = <<"[REDACTED]">>
    [] strategy.kind = "maskWith" -> v = strategy.token
    [] strategy.kind = "hash"     -> v.tag = "string" /\ v # raw
    [] strategy.kind = "null"     -> v = Null

(* What becomes of each value of a record: below a redacted field nothing  *)
(* is left, the field itself is gone or replaced, a string is spelled as   *)
(* its field asks, and everything else is as it was.                       *)
IsSanitized(s, raw, clean) ==
  /\ PathsOf(clean) \subseteq PathsOf(raw)
  /\ \A path \in PathsOf(raw) :
       LET steps == RedactedSteps(s, path)
           was == ValueAt(raw, path)
           is == ValueAt(clean, path)
           strategy == StrategyOf(s, Last(path).key)
       IN  CASE \E i \in steps : i < Len(path) -> path \notin PathsOf(clean)
             [] steps = {Len(path)} ->
                  IF strategy.kind = "drop" THEN path \notin PathsOf(clean)
                  ELSE path \in PathsOf(clean) /\ Replaces(strategy, was, is)
             [] OTHER ->
                  /\ path \in PathsOf(clean)
                  /\ CASE was.tag = "string" -> Normalized(s, path, was, is)
                       [] was.tag \in {"object", "array"} -> is.tag = was.tag
                       [] OTHER -> is = was

(* The sanitized forms of each text, and the texts that are altered.       *)
SanitizedForms == [s \in Sanitizers |-> [t \in Json |-> {v \in Values : IsSanitized(PolicyOfSanitizer[s], ValueOf[t], v)}]]
Altered == [s \in Sanitizers |-> {t \in Json : ValueOf[t] \notin SanitizedForms[s][t]}]

(* What waits for the engine is the record of that number, sanitized by    *)
(* the policy of the run, and no change so far went without an event       *)
(* (docs/STREAMGUARD.md:102, "No silent mutation"; sanitize.rs:139).       *)
EngineSeesSanitized ==
  pc # "failed" =>
    /\ \A i \in DOMAIN batch : batch[i].value \in SanitizedForms[opts.sanitizer][RecordLine(batch[i].record).text]
    /\ sanitized >= Cardinality({r \in 0..(Processed - 1) : Accepted(r) /\ RecordLine(r).text \in Altered[opts.sanitizer]})
=============================================================================
