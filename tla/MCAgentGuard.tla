---------------------------- MODULE MCAgentGuard ----------------------------
(* Short streams over events that differ in signature, aliases, metrics    *)
(* and provenance, and lines that are no events.                           *)
EXTENDS AgentGuard

CONSTANT MaxLines

Num(n) == [type |-> "number", n |-> n, s |-> ""]
Str(s) == [type |-> "string", n |-> 0, s |-> s]
Obj(n, provenance) == [type |-> "object", n |-> n, s |-> provenance]
Null == [type |-> "null", n |-> 0, s |-> ""]
Event(fields) == [json |-> TRUE, object |-> TRUE, fields |-> fields]

(* U64 is 16 here: two events with 9 tokens overflow. *)
MCEvents == {
  Event([kind |-> Str("tool_call"), call_signature |-> Str("a"), seq |-> Num(1), tokens_in |-> Num(9)]),
  Event([type |-> Str("call"), args_hash |-> Str("b"), step |-> Num(2), prompt_tokens |-> Obj(3, "estimated"),
         cost |-> Num(-1), duration_ms |-> Num(-1)]),
  Event([event |-> Str("llm"), call_signature |-> Null, signature |-> Str("a"), provenance |-> Str("estimated"),
         output_tokens |-> Obj(4, "measured"), cost |-> Num(2)]),
  Event([kind |-> Str("retry"), signature |-> Str("a"), seq |-> Num(3), run_id |-> Str("r2"),
         cost_usd |-> Obj(2, "unknown"), latency_ms |-> Num(2)]),
  Event([kind |-> Str("result"), signature |-> Str("b"), index |-> Num(4), provenance |-> Str("unknown"),
         cost |-> Num(2), tokens_in |-> Obj(4, "estimated"), elapsed_ms |-> Obj(2, "measured")])}
MCNotEvents == {[json |-> FALSE, object |-> FALSE], [json |-> TRUE, object |-> FALSE]}
MCText == MCEvents \cup MCNotEvents

L(tag, text) == [bytes |-> 1, tag |-> tag, text |-> text]
MCGood == {L("text", t) : t \in MCEvents}
MCBad == {L("blank", NoText), L("oversized", NoText), L("badUtf8", NoText)} \cup {L("text", t) : t \in MCNotEvents}
MCSources ==
  UNION {[1..n -> MCGood] : n \in 0..MaxLines} \cup {<<g, b, h>> : g \in MCGood, h \in MCGood, b \in MCBad}

Policy(calls, tokens, cost, duration, window, threshold, enforce) ==
  [maxToolCalls |-> calls, maxTotalTokens |-> tokens, maxCost |-> cost, maxDuration |-> duration,
   loopWindow |-> window, loopThreshold |-> threshold, enforce |-> enforce]
MCPolicies ==
  {Policy(None, None, None, None, w, n, TRUE) : w \in {0, 2, 3}, n \in {0, 1, 2}}
  \cup {Policy(None, 10, 1, 3, 3, 2, enforce) : enforce \in BOOLEAN}
  \cup {Policy(1, None, None, None, 8, 3, TRUE), Policy(None, None, None, 1, 2, 2, TRUE)}
=============================================================================
