----------------------------- MODULE AgentGuard -----------------------------
(***************************************************************************)
(* AgentGuard of crates/statguardian-stream (src/agent.rs): an NDJSON      *)
(* stream of agent events is parsed through the line source, event by      *)
(* event under any of its field aliases; the events are aggregated by the  *)
(* provenance of their metrics, and budgets and a loop heuristic over the  *)
(* most recent calls are evaluated on them.                                *)
(*                                                                         *)
(* A text is a parsed JSON value or not JSON; the values of an object's    *)
(* fields are abstracted to their type, a number and a string.             *)
(***************************************************************************)
EXTENDS LineSource, Enumeration

CONSTANTS
  None,             \* an absent option
  U64,              \* stands for 2^64: integers of the code are below it
  Policies          \* the AgentPolicy values considered

Metric == {"tokensIn", "tokensOut", "cost", "duration"}
Provenance == {"measured", "estimated", "unknown"}
AgentPolicy ==
  [maxToolCalls : Nat \cup {None}, maxTotalTokens : Nat \cup {None}, maxCost : Nat \cup {None},
   maxDuration : Nat \cup {None}, loopWindow : Nat, loopThreshold : Nat, enforce : BOOLEAN]

ASSUME NoneAssumption == None \notin Provenance
ASSUME U64Assumption == U64 \in Nat \ {0}
ASSUME PoliciesAssumption == Policies \subseteq AgentPolicy
ASSUME TextAssumption ==
  \A t \in Text : /\ {t.json, t.object} \subseteq BOOLEAN
                  /\ t.object => \A k \in DOMAIN t.fields : t.fields[k].n \in Int

(* A line that is handed out as text has been decoded.                     *)
ASSUME DecodedAssumption == \A s \in Sources : \A i \in DOMAIN s : s[i].tag = "text" => s[i].text \in Text

VARIABLES
  policy,           \* AgentGuard.policy
  events,           \* the events parsed so far
  report,           \* the AgentPolicyReport, None before
  stage             \* reading | parsing | done | failed (Err)

guardVars == <<sourceVars, policy, events, report, stage>>

GuardInit ==
  /\ SourceInit
  /\ policy \in Policies
  /\ events = << >>
  /\ report = None
  /\ stage = "reading"

-----------------------------------------------------------------------------
(* AgentEvent::from_json. *)

Absent == [type |-> "absent", n |-> 0, s |-> ""]

(* The first of the aliases that is there decides, whatever its type.      *)
Field(obj, keys) ==
  LET present == {i \in DOMAIN keys : keys[i] \in DOMAIN obj}
  IN  IF present = {} THEN Absent ELSE obj[keys[Nth(present, 1)]]

StringOf(v) == IF v.type = "string" THEN v.s ELSE None
IsU64(n) == n \in 0..(U64 - 1)       \* as_u64 gives a number
NumberOf(v) == IF v.type = "number" /\ IsU64(v.n) THEN v.n ELSE None

(* AgentEventKind::parse *)
KindOf(s) ==
  CASE s \in {"tool_call", "tool_use", "call"} -> "ToolCall"
    [] s \in {"tool_result", "tool_output", "result"} -> "ToolResult"
    [] s \in {"llm_call", "llm", "completion", "model_call"} -> "LlmCall"
    [] s = "retry" -> "Retry"
    [] s \in {"error", "failure"} -> "Error"
    [] s = "policy_violation" -> "PolicyViolation"
    [] OTHER -> "Other"

DefaultProvenance(obj) ==
  IF StringOf(Field(obj, <<"provenance">>)) = "estimated" THEN "estimated" ELSE "measured"

MetricKeys ==
  [tokensIn |-> <<"tokens_in", "input_tokens", "prompt_tokens">>,
   tokensOut |-> <<"tokens_out", "output_tokens", "completion_tokens">>,
   cost |-> <<"cost_usd", "cost">>,
   duration |-> <<"duration_ms", "latency_ms", "elapsed_ms">>]

(* parse_measured_u64, parse_measured_f64: a number, or an object with a   *)
(* value and perhaps a provenance of its own.                              *)
MetricOf(obj, m) ==
  LET v == Field(obj, MetricKeys[m])
  IN  IF v.type \notin {"number", "object"} \/ ~(m = "cost" \/ IsU64(v.n)) THEN None
      ELSE [value |-> v.n, provenance |-> IF v.type = "object" /\ v.s \in Provenance THEN v.s
                                          ELSE DefaultProvenance(obj)]

OrElse(option, default) == IF option = None THEN default ELSE option

FromJson(obj) ==
  [execution |-> OrElse(StringOf(Field(obj, <<"execution_id", "run_id", "trace_id", "session_id">>)), "unknown"),
   seq       |-> OrElse(NumberOf(Field(obj, <<"seq", "step", "index">>)), 0),
   kind      |-> KindOf(StringOf(Field(obj, <<"kind", "type", "event">>))),
   signature |-> StringOf(Field(obj, <<"call_signature", "args_hash", "signature">>)),
   retryOf   |-> NumberOf(Field(obj, <<"retry_of", "retry_index">>)),
   metrics   |-> [m \in Metric |-> MetricOf(obj, m)]]

-----------------------------------------------------------------------------
(* aggregate. *)

(* Integer totals have the width of the code's, costs do not wrap.         *)
Plus(m, a, b) == IF m = "cost" THEN a + b ELSE (a + b) % U64

Zero == [m \in Metric |-> 0]
NoTelemetry ==
  [events |-> 0, toolCalls |-> 0, retries |-> 0, errors |-> 0, unknown |-> 0,
   measured |-> Zero, estimated |-> Zero, executions |-> {}]

(* Seeded fault: a metric of unknown provenance counts as measured.        *)
AddsMeasuringUnknown(e, m, provenance) ==
  e.metrics[m] # None /\ (e.metrics[m].provenance = provenance
                          \/ (provenance = "measured" /\ e.metrics[m].provenance = "unknown"))

Adds(e, m, provenance) == e.metrics[m] # None /\ e.metrics[m].provenance = provenance

(* accumulate_metric_u64, accumulate_f64, accumulate_duration *)
Accumulate(total, e, provenance) ==
  [m \in Metric |-> IF Adds(e, m, provenance) THEN Plus(m, total[m], e.metrics[m].value) ELSE total[m]]

OneIf(condition) == IF condition THEN 1 ELSE 0

CountEvent(t, e) ==
  [events |-> t.events + 1,
   toolCalls |-> t.toolCalls + OneIf(e.kind = "ToolCall"),
   retries |-> t.retries + OneIf(e.kind = "Retry" \/ e.retryOf # None),
   errors |-> t.errors + OneIf(e.kind = "Error"),
   unknown |-> t.unknown + Cardinality({m \in Metric : Adds(e, m, "unknown")}),
   measured |-> Accumulate(t.measured, e, "measured"),
   estimated |-> Accumulate(t.estimated, e, "estimated"),
   executions |-> t.executions \cup {e.execution}]

Aggregate(es) ==
  LET total[n \in 0..Len(es)] == IF n = 0 THEN NoTelemetry ELSE CountEvent(total[n - 1], es[n])
  IN  total[Len(es)]

-----------------------------------------------------------------------------
(* detect_loops. *)

(* Seeded fault: a call leaves the window one call too late.               *)
SlideLate(recent, window) == IF Len(recent) > window + 1 THEN Tail(recent) ELSE recent

Slide(recent, window) == IF Len(recent) > window THEN Tail(recent) ELSE recent

(* One event: its signature joins the window, and is flagged or updated    *)
(* when the window holds it often enough.                                  *)
Observe(window, threshold, state, e) ==
  LET recent == Slide(Append(state.recent, [signature |-> e.signature, seq |-> e.seq]), window)
      same == At(recent, {i \in DOMAIN recent : recent[i].signature = e.signature})
      known == {l \in state.loops : l.signature = e.signature}
      first == IF known = {} THEN same[1].seq ELSE (CHOOSE l \in known : TRUE).firstSeq
      finding == [signature |-> e.signature, occurrences |-> Len(same),
                  firstSeq |-> first, lastSeq |-> same[Len(same)].seq]
  IN  [recent |-> recent,
       loops |-> IF Len(same) >= threshold THEN (state.loops \ known) \cup {finding} ELSE state.loops]

Signed(es) == At(es, {i \in DOMAIN es : es[i].signature # None})

DetectLoops(es, window, threshold) ==
  LET calls == Signed(es)
      state[n \in 0..Len(calls)] ==
        IF n = 0 THEN [recent |-> << >>, loops |-> {}]
        ELSE Observe(window, threshold, state[n - 1], calls[n])
  IN  IF window = 0 \/ threshold = 0 THEN {} ELSE state[Len(calls)].loops

-----------------------------------------------------------------------------
(* AgentGuard::evaluate. *)

BreachSeverity == IF policy.enforce THEN "Blocking" ELSE "Error"
MeasuredBreach(name) ==
  {[policy |-> name, severity |-> BreachSeverity, measured |-> TRUE, heuristic |-> FALSE, signature |-> None]}
PossibleBreach(name) ==
  {[policy |-> name, severity |-> "Warning", measured |-> FALSE, heuristic |-> FALSE, signature |-> None]}

(* A budget breached by what was measured, or only with the estimates.     *)
Budget(name, max, measured, both) ==
  CASE max # None /\ measured > max -> MeasuredBreach(name)
    [] max # None /\ ~(measured > max) /\ both > max -> PossibleBreach(name)
    [] OTHER -> {}

Tokens(total) == (total["tokensIn"] + total["tokensOut"]) % U64

(* Estimated durations count for nothing. *)
Violations(t, loops) ==
  Budget("max_tool_calls", policy.maxToolCalls, t.toolCalls, t.toolCalls)
  \cup Budget("max_total_tokens", policy.maxTotalTokens, Tokens(t.measured),
              (Tokens(t.measured) + Tokens(t.estimated)) % U64)
  \cup Budget("max_cost_usd", policy.maxCost, t.measured["cost"], t.measured["cost"] + t.estimated["cost"])
  \cup Budget("max_duration_ms", policy.maxDuration, t.measured["duration"], t.measured["duration"])
  \cup {[policy |-> "loop_detection", severity |-> "Warning", measured |-> FALSE, heuristic |-> TRUE,
         signature |-> l.signature] : l \in loops}

Enforcement(violations) ==
  CASE violations = {} -> "Continue"
    [] \E v \in violations : v.severity = "Blocking" -> "Stop"
    [] OTHER -> "Warn"

(* AgentPolicyReport *)
Report(es) ==
  LET t == Aggregate(es)
      loops == DetectLoops(es, policy.loopWindow, policy.loopThreshold)
      violations == Violations(t, loops)
  IN  [telemetry |-> t, loops |-> loops, violations |-> violations, enforcement |-> Enforcement(violations)]

-----------------------------------------------------------------------------
(* parse_ndjson, then evaluate. *)

ReadBlank ==
  /\ stage = "reading"
  /\ SkipBlank
  /\ UNCHANGED <<policy, events, report, stage>>

ReadLine ==
  /\ stage = "reading"
  /\ Emit
  /\ stage' = "parsing"
  /\ UNCHANGED <<policy, events, report>>

IsEvent(l) == l.utf8 /\ l.content.json /\ l.content.object

ParseEvent ==
  /\ stage = "parsing"
  /\ IsEvent(line)
  /\ events' = Append(events, FromJson(line.content.fields))
  /\ stage' = "reading"
  /\ UNCHANGED <<sourceVars, policy, report>>

(* Oversized, not UTF-8, not JSON or not an object: the whole parse fails. *)
ParseError ==
  /\ stage = "parsing"
  /\ ~IsEvent(line)
  /\ stage' = "failed"
  /\ UNCHANGED <<sourceVars, policy, events, report>>

Evaluate ==
  /\ stage = "reading"
  /\ AtEnd
  /\ report' = Report(events)
  /\ stage' = "done"
  /\ UNCHANGED <<sourceVars, policy, events>>

Returned == stage \in {"done", "failed"} /\ UNCHANGED guardVars

GuardNext == ReadBlank \/ ReadLine \/ ParseEvent \/ ParseError \/ Evaluate \/ Returned

GuardSpec == GuardInit /\ [][GuardNext]_guardVars

-----------------------------------------------------------------------------
(* Properties. *)

(* The events of a source.                                                 *)
NonBlank == {i \in DOMAIN lines : lines[i].tag # "blank"}
EventLines == At(lines, NonBlank)
FieldsAt(i) == EventLines[i].text.fields
EventAt(i) == FromJson(FieldsAt(i))

(* What a line says of a metric's provenance: what the metric's own object *)
(* says, or else the event; a value with no word about it was reported as  *)
(* real, that is measured (agent.rs:10-13).                                *)
SaidOfMetric(fields, m) ==
  LET v == Field(fields, MetricKeys[m]) IN IF v.type = "object" THEN v.s ELSE None
SaidOfEvent(fields) == StringOf(Field(fields, <<"provenance">>))
Stated(fields, m) ==
  IF SaidOfMetric(fields, m) \in Provenance THEN SaidOfMetric(fields, m)
  ELSE IF SaidOfEvent(fields) \in Provenance THEN SaidOfEvent(fields)
  ELSE "measured"

(* The code's exception to that: an event that calls itself unknown has    *)
(* its values counted as measured (agent.rs:139-143).                      *)
UnknownEvent(fields, m) ==
  SaidOfMetric(fields, m) \notin Provenance /\ SaidOfEvent(fields) = "unknown"
CountsAsMeasured(fields, m) == Stated(fields, m) = "measured" \/ UnknownEvent(fields, m)

(* The measured total of a metric, without width.                          *)
MeasuredAmount(i, m) ==
  IF EventAt(i).metrics[m] # None /\ CountsAsMeasured(FieldsAt(i), m) THEN EventAt(i).metrics[m].value ELSE 0
TrueTotal(m) ==
  LET sum[n \in 0..Len(EventLines)] == IF n = 0 THEN 0 ELSE sum[n - 1] + MeasuredAmount(n, m)
  IN  sum[Len(EventLines)]
TrueTokens == TrueTotal("tokensIn") + TrueTotal("tokensOut")
Broken(max, total) == max # None /\ total > max

MeasuredBudgetBroken ==
  \/ Broken(policy.maxToolCalls, Cardinality({i \in DOMAIN EventLines : EventAt(i).kind = "ToolCall"}))
  \/ Broken(policy.maxTotalTokens, TrueTokens)
  \/ Broken(policy.maxCost, TrueTotal("cost"))
  \/ Broken(policy.maxDuration, TrueTotal("duration"))

(* The recommendation to stop rests on the values of every line of the     *)
(* stream that the stream says were measured, and on the caller's enforce  *)
(* flag: it is given whenever such a total is over its budget and no total *)
(* overflows, and never for what is estimated, for a value that is itself  *)
(* called unknown or for the loop heuristic (agent.rs:10-19, 402-411).     *)
(* Only the values of an event that as a whole calls itself unknown are    *)
(* counted with the measured ones.                                         *)
StopRestsOnMeasuredData ==
  report # None =>
    /\ report.enforcement = "Stop" => policy.enforce /\ MeasuredBudgetBroken
    /\ (policy.enforce /\ MeasuredBudgetBroken
        /\ TrueTokens < U64 /\ TrueTotal("duration") < U64)
         => report.enforcement = "Stop"
    /\ Len(events) = Len(EventLines)

(* A signature is reported as a loop exactly when some loop_window         *)
(* consecutive calls of the stream, of whatever execution, hold it         *)
(* loop_repeat_threshold times; the count and the last call reported are   *)
(* those of the last such window (agent.rs:635-669).                       *)
Calls == Signed([i \in DOMAIN EventLines |-> EventAt(i)])
Repeats(calls, sig, last) ==
  {i \in DOMAIN calls : last - policy.loopWindow < i /\ i <= last /\ calls[i].signature = sig}
LoopEnds(calls, sig) ==
  {j \in DOMAIN calls : calls[j].signature = sig /\ Cardinality(Repeats(calls, sig, j)) >= policy.loopThreshold}
LoopsAreThoseOfSomeWindow ==
  LET calls == Calls IN
  report # None =>
    IF policy.loopWindow = 0 \/ policy.loopThreshold = 0 THEN report.loops = {}
    ELSE /\ {l.signature : l \in report.loops} = {calls[j].signature : j \in {k \in DOMAIN calls : LoopEnds(calls, calls[k].signature) # {}}}
         /\ \A l \in report.loops :
              \E j \in LoopEnds(calls, l.signature) :
                /\ \A k \in LoopEnds(calls, l.signature) : k <= j
                /\ l.occurrences = Cardinality(Repeats(calls, l.signature, j))
                /\ l.lastSeq = calls[j].seq
=============================================================================
