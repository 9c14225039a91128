----------------------------- MODULE LineSource -----------------------------
(***************************************************************************)
(* What NdjsonSource::next_line promises its caller, one source line at a  *)
(* time: every non-blank line of the source is handed out exactly once, in *)
(* order and numbered 0, 1, 2, ..., whatever the sizes of the chunks the   *)
(* reader happened to deliver; a blank line costs its bytes and no number. *)
(*                                                                         *)
(* NdjsonSource implements this module at the level of bytes and chunks;   *)
(* StreamValidator reads its records through it.                           *)
(***************************************************************************)
EXTENDS Integers, Sequences

CONSTANT Text           \* what a decoded line can hold
CONSTANT NoText         \* the empty String of a line that is not decoded
CONSTANT Sources        \* the sources considered: sequences of lines

(* A line of the source, classified once and for all by its own bytes. *)
LineTag == {"blank", "oversized", "badUtf8", "text"}
Line == [bytes : Nat \ {0}, tag : LineTag, text : Text \cup {NoText}]

ASSUME SourcesAssumption == Sources \subseteq Seq(Line)

VARIABLES
  lines,          \* the source
  pos,            \* how many of its lines have been consumed
  recordIndex,    \* NdjsonSource.record_index
  bytesConsumed,  \* NdjsonSource.bytes_consumed
  line            \* the RawLine the last call returned, or NoLine

sourceVars == <<lines, pos, recordIndex, bytesConsumed, line>>

NoLine == [record |-> -1, bytes |-> 0, exceeded |-> FALSE, utf8 |-> FALSE, content |-> NoText]

(* struct RawLine: content is filled only for a line that is decoded. *)
RawLine(l, record) ==
  [record   |-> record,
   bytes    |-> l.bytes,
   exceeded |-> l.tag = "oversized",
   utf8     |-> l.tag = "text",
   content  |-> l.text]

SourceInit ==
  /\ lines \in Sources
  /\ pos = 0
  /\ recordIndex = 0
  /\ bytesConsumed = 0
  /\ line = NoLine

AtEnd == pos = Len(lines)

Consume ==
  /\ ~AtEnd
  /\ pos' = pos + 1
  /\ bytesConsumed' = bytesConsumed + lines[pos + 1].bytes
  /\ UNCHANGED lines

(* A whitespace-only line: consumed, not numbered, and the call goes on. *)
SkipBlank ==
  /\ Consume
  /\ lines[pos + 1].tag = "blank"
  /\ UNCHANGED <<recordIndex, line>>

(* Any other line: it gets the next number and the call returns it. *)
Emit ==
  /\ Consume
  /\ lines[pos + 1].tag # "blank"
  /\ line' = RawLine(lines[pos + 1], recordIndex)
  /\ recordIndex' = recordIndex + 1

SourceNext == SkipBlank \/ Emit

SourceSpec == SourceInit /\ [][SourceNext]_sourceVars
=============================================================================
