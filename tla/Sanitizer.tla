------------------------------ MODULE Sanitizer ------------------------------
(***************************************************************************)
(* Sanitizer::sanitize (crates/statguardian-stream, src/sanitize.rs): the  *)
(* fields of a parsed record that are redacted or normalized before it is  *)
(* validated, and the events that tell of it.                              *)
(*                                                                         *)
(* A JSON value is a record with a tag. A string is a word, a tuple, with  *)
(* the case of its letters and whether white space surrounds it, all that  *)
(* trimming and folding look at; a digest is the word of what it is of.    *)
(***************************************************************************)
EXTENDS Integers, FiniteSets

LOCAL INSTANCE SequencesExt

Null == [tag |-> "null"]
Str(word, case, padded) == [tag |-> "string", word |-> word, case |-> case, padded |-> padded]
Number(n) == [tag |-> "number", n |-> n]
Object(fields) == [tag |-> "object", fields |-> fields]
Array(items) == [tag |-> "array", items |-> items]

(* Seeded fault: only a recursive normalization policy leads below.        *)
DescendsToNormalize(s) == s.normalizeDeep

(* Either policy's recursive flag takes both of them below the top level.  *)
Descends(s) == s.redactDeep \/ s.normalizeDeep

IsNoop(s) == s.rules = << >> /\ s.trim = {} /\ s.lower = {} /\ s.upper = {}

(* The rules for a key: the first one counts.                              *)
RulesFor(s, key) == SelectSeq(s.rules, LAMBDA r : r.field = key)

(* hash_value: equal values, equal digests; the digest is a string even of *)
(* a null.                                                                 *)
HashValue(v) == Str(<<"digest", v>>, "lower", FALSE)

Redacted(strategy, v) ==
  CASE strategy.kind = "mask"     -> Str(<<"[REDACTED]">>, "upper", FALSE)
    [] strategy.kind = "maskWith" -> strategy.token
    [] strategy.kind = "hash"     -> HashValue(v)
    [] strategy.kind = "null"     -> Null
    [] strategy.kind = "drop"     -> v

EventOf(strategy) ==
  CASE strategy.kind \in {"mask", "maskWith"} -> "masked"
    [] strategy.kind = "hash" -> "hashed"
    [] strategy.kind = "null" -> "nulled"
    [] strategy.kind = "drop" -> "dropped"

-----------------------------------------------------------------------------
(* normalize_value: trimmed, then lowercased, then uppercased, with an     *)
(* event for each that makes a difference.                                 *)

Folded(v, case) == IF v.case = "none" THEN v ELSE [v EXCEPT !.case = case]

NormalizeValue(s, key, v) ==
  IF v.tag # "string" THEN [value |-> v, kinds |-> {}]
  ELSE
    LET trimmed == IF key \in s.trim THEN [v EXCEPT !.padded = FALSE] ELSE v
        lowered == IF key \in s.lower THEN Folded(trimmed, "lower") ELSE trimmed
        raised  == IF key \in s.upper THEN Folded(lowered, "upper") ELSE lowered
    IN  [value |-> raised,
         kinds |-> {"trimmed" : x \in {trimmed} \ {v}} \cup {"lowercased" : x \in {lowered} \ {trimmed}}
                     \cup {"uppercased" : x \in {raised} \ {lowered}}]

(* Walk and its step for one entry of an object: the value and the events  *)
(* of its fields, by path.                                                 *)
RECURSIVE Walk(_, _, _)

WalkEntry(s, key, v, path) ==
  LET rules == RulesFor(s, key)
      normal == NormalizeValue(s, key, v)
      below == IF Descends(s) THEN Walk(s, normal.value, path) ELSE [value |-> normal.value, events |-> {}]
  IN  IF rules # << >>
      THEN [value |-> Redacted(rules[1].strategy, v),
            events |-> {[path |-> path, kind |-> EventOf(rules[1].strategy)]},
            dropped |-> rules[1].strategy.kind = "drop"]
      ELSE [value |-> below.value,
            events |-> {[path |-> path, kind |-> k] : k \in normal.kinds} \cup below.events,
            dropped |-> FALSE]

Walk(s, v, path) ==
  CASE v.tag = "object" ->
         LET entries == [k \in DOMAIN v.fields |-> WalkEntry(s, k, v.fields[k], Append(path, [key |-> k]))]
             kept == {k \in DOMAIN v.fields : ~entries[k].dropped}
         IN  [value |-> Object([k \in kept |-> entries[k].value]),
              events |-> UNION {entries[k].events : k \in DOMAIN entries}]
    [] v.tag = "array" /\ Descends(s) ->
         LET items == [i \in DOMAIN v.items |-> Walk(s, v.items[i], Append(path, [index |-> i]))]
         IN  [value |-> Array([i \in DOMAIN items |-> items[i].value]),
              events |-> UNION {items[i].events : i \in DOMAIN items}]
    [] OTHER -> [value |-> v, events |-> {}]

Sanitize(s, v) == IF IsNoop(s) THEN [value |-> v, events |-> {}] ELSE Walk(s, v, << >>)
=============================================================================
