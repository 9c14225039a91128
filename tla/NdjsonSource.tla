---------------------------- MODULE NdjsonSource ----------------------------
(***************************************************************************)
(* The bounded-memory NDJSON reader of crates/statguardian-stream          *)
(* (src/ndjson.rs), byte by byte. The BufRead underneath hands out the     *)
(* input in chunks of any size; next_line assembles one line from them,    *)
(* buffering at most `cap` bytes, and classifies it.                       *)
(*                                                                         *)
(* Bytes are abstracted to the six classes the code tells apart: newline,  *)
(* carriage return, other white space, any other ASCII byte, and the two   *)
(* halves of a two-byte UTF-8 character.                                   *)
(***************************************************************************)
EXTENDS Enumeration, Sequences

CONSTANTS
  Inputs,           \* the byte sequences considered
  RecordCaps,       \* the values of limits.max_record_bytes considered
  MaxChunk          \* the longest slice fill_buf returns

Byte == {"nl", "cr", "sp", "a", "lead", "cont"}

ASSUME InputsAssumption == Inputs \subseteq Seq(Byte)
ASSUME CapsAssumption == RecordCaps \subseteq Nat
ASSUME ChunkAssumption == MaxChunk \in Nat \ {0}

VARIABLES
  input,            \* the bytes of the source
  cap,              \* NdjsonSource.max_record_bytes
  read,             \* how many bytes the BufRead has been asked to consume
  out,              \* the line buffer
  total,            \* read_line_capped's byte count of the current line
  exceeded,         \* read_line_capped's flag
  recordIndex,      \* NdjsonSource.record_index
  bytesConsumed,    \* NdjsonSource.bytes_consumed
  line,             \* the RawLine the last call returned
  pc                \* idle | reading | decoding | done (None) | failed (Err)

vars == <<input, cap, read, out, total, exceeded, recordIndex, bytesConsumed, line, pc>>
source == <<input, cap>>
buffer == <<out, total, exceeded>>
counters == <<recordIndex, bytesConsumed, line>>

Least(m, n) == IF m <= n THEN m ELSE n

-----------------------------------------------------------------------------
(* Decoding of a complete line. *)

(* std::str::from_utf8: every lead byte is followed by its continuation    *)
(* byte and every continuation byte follows a lead byte.                   *)
ValidUtf8(b) ==
  /\ \A i \in DOMAIN b : b[i] = "lead" => i < Len(b) /\ b[i + 1] = "cont"
  /\ \A i \in DOMAIN b : b[i] = "cont" => i > 1 /\ b[i - 1] = "lead"

(* trimmed.trim().is_empty() *)
IsBlank(b) == \A i \in DOMAIN b : b[i] \in {"nl", "cr", "sp"}

(* s.trim_end_matches(['\n', '\r']) *)
Trimmed(b) ==
  LET kept == {i \in DOMAIN b : b[i] \notin {"nl", "cr"}}
  IN  IF kept = {} THEN << >> ELSE SubSeq(b, 1, CHOOSE i \in kept : \A j \in kept : j <= i)

NoText == << >>

-----------------------------------------------------------------------------
NoLine == [record |-> -1, bytes |-> 0, exceeded |-> FALSE, utf8 |-> FALSE, content |-> NoText]

(* Seeded fault: a cap of zero is taken as it is. *)
EffectiveCapRaw(n) == n

(* max_record_bytes.max(1) *)
EffectiveCap(n) == IF n = 0 THEN 1 ELSE n

Init ==
  /\ input \in Inputs
  /\ \E n \in RecordCaps : cap = EffectiveCap(n)
  /\ read = 0
  /\ out = << >>
  /\ total = 0
  /\ exceeded = FALSE
  /\ recordIndex = 0
  /\ bytesConsumed = 0
  /\ line = NoLine
  /\ pc = "idle"

(* Seeded fault: the flag of an oversized line leaks into the next one. *)
ClearBufferKeepingFlag ==
  /\ out' = << >>
  /\ total' = 0
  /\ UNCHANGED exceeded

(* Entering read_line_capped: out.clear(), total = 0, exceeded = false. *)
ClearBuffer ==
  /\ out' = << >>
  /\ total' = 0
  /\ exceeded' = FALSE

(* The caller asks for the next line. *)
NextLine ==
  /\ pc = "idle"
  /\ ClearBuffer
  /\ pc' = "reading"
  /\ UNCHANGED <<source, read, counters>>

(* How many bytes of a slice belong to the current line, its newline too. *)
Used(available) ==
  LET newlines == {i \in DOMAIN available : available[i] = "nl"}
  IN  IF newlines = {} THEN Len(available)
      ELSE CHOOSE i \in newlines : \A j \in newlines : i <= j

(* Seeded fault: each slice is capped, not the line. *)
CopiedPerSlice(used) == Least(used, cap)

(* How many of those are copied: never past the cap. *)
Copied(used) == Least(used, cap - Len(out))

(* One turn of read_line_capped's loop: fill_buf returned a slice of n     *)
(* bytes (ErrorKind::Interrupted retries, a stuttering step here). Past    *)
(* the cap bytes are consumed without being copied.                        *)
Fill(n) ==
  /\ pc = "reading"
  /\ read + n <= Len(input)
  /\ LET available == SubSeq(input, read + 1, read + n)
         used == Used(available)
     IN  /\ read' = read + used
         /\ total' = total + used
         /\ pc' = IF available[used] = "nl" THEN "decoding" ELSE "reading"
         /\ IF exceeded
            THEN UNCHANGED <<out, exceeded>>
            ELSE /\ out' = out \o SubSeq(available, 1, Copied(used))
                 /\ exceeded' = (Copied(used) < used)
  /\ UNCHANGED <<source, counters>>

(* Seeded fault: a last line without its newline is waited for. *)
EndOfInputNeedingNewline ==
  /\ pc = "reading"
  /\ read = Len(input)
  /\ total = 0
  /\ pc' = "done"
  /\ UNCHANGED <<source, read, buffer, counters>>

(* Seeded fault: a last line without its newline is dropped. *)
EndOfInputDroppingTail ==
  /\ pc = "reading"
  /\ read = Len(input)
  /\ pc' = "done"
  /\ UNCHANGED <<source, read, buffer, counters>>

(* fill_buf returned an empty slice: partial data is a valid final line. *)
EndOfInput ==
  /\ pc = "reading"
  /\ read = Len(input)
  /\ pc' = IF total = 0 THEN "done" ELSE "decoding"
  /\ UNCHANGED <<source, read, buffer, counters>>

(* fill_buf failed: `?` hands the error to the caller. *)
ReadError ==
  /\ pc = "reading"
  /\ pc' = "failed"
  /\ UNCHANGED <<source, read, buffer, counters>>

(* A numbered line goes back to the caller. *)
Return(isExceeded, utf8, content) ==
  /\ line' = [record |-> recordIndex, bytes |-> total, exceeded |-> isExceeded,
              utf8 |-> utf8, content |-> content]
  /\ recordIndex' = recordIndex + 1
  /\ pc' = "idle"
  /\ UNCHANGED buffer

(* A blank line: `continue`, so the next line is read into a clear buffer. *)
SkipBlank ==
  /\ ClearBuffer
  /\ pc' = "reading"
  /\ UNCHANGED <<recordIndex, line>>

(* next_line, once read_line_capped has returned. *)
Decode ==
  /\ pc = "decoding"
  /\ bytesConsumed' = bytesConsumed + total
  /\ \/ exceeded /\ Return(TRUE, FALSE, NoText)
     \/ ~exceeded /\ ~ValidUtf8(out) /\ Return(FALSE, FALSE, NoText)
     \/ ~exceeded /\ ValidUtf8(out) /\ IsBlank(out) /\ SkipBlank
     \/ ~exceeded /\ ValidUtf8(out) /\ ~IsBlank(out) /\ Return(FALSE, TRUE, Trimmed(out))
  /\ UNCHANGED <<source, read>>

(* The source is finished with: None, or an error the caller gave up on. *)
Finished == pc \in {"done", "failed"} /\ UNCHANGED vars

Reading == (\E n \in 1..MaxChunk : Fill(n)) \/ EndOfInput \/ Decode

Next == NextLine \/ Reading \/ ReadError \/ Finished

(* The reader's own steps and its caller's loop are fair; nothing is       *)
(* assumed of read errors.                                                 *)
Spec == Init /\ [][Next]_vars /\ WF_vars(NextLine \/ Reading)

-----------------------------------------------------------------------------
(* Properties. *)

(* The types of the state; the effective cap is positive (ndjson.rs:34)    *)
(* and the reader consumes no more bytes than there are.                   *)
TypeOK ==
  /\ input \in Seq(Byte)
  /\ cap \in Nat \ {0}
  /\ read \in 0..Len(input)
  /\ out \in Seq(Byte)
  /\ total \in Nat
  /\ exceeded \in BOOLEAN
  /\ recordIndex \in Nat
  /\ bytesConsumed \in Nat
  /\ line \in [record : Int, bytes : Nat, exceeded : BOOLEAN, utf8 : BOOLEAN, content : Seq(Byte)]
  /\ pc \in {"idle", "reading", "decoding", "done", "failed"}

(* The buffer never outgrows max_record_bytes, however long the line and   *)
(* however it is cut into chunks, and it holds exactly the beginning of    *)
(* the current line ("the rest of the line is consumed and discarded       *)
(* without being buffered", ndjson.rs:20-22).                              *)
BufferIsCappedPrefix ==
  pc \in {"reading", "decoding"} =>
    /\ Len(out) = Least(total, cap)
    /\ exceeded <=> total > cap
    /\ out = SubSeq(input, bytesConsumed + 1, bytesConsumed + Len(out))

(* Every byte taken from the reader belongs to the current line or to one  *)
(* that was returned or skipped, so bytes_consumed, on which the byte      *)
(* limit of the stream validator rests, is exact between calls.            *)
BytesAccounted ==
  /\ pc \in {"reading", "decoding"} => read = bytesConsumed + total
  /\ pc \in {"idle", "done"} => read = bytesConsumed

(* The lines of the input, by definition: cut after every newline.         *)
LineEnds(s) == {i \in DOMAIN s : s[i] = "nl" \/ i = Len(s)}

(* The class the documentation gives a line. A blank or whitespace-only    *)
(* line is skipped and not numbered (ndjson.rs:5 and :19-20), whatever its *)
(* length; any other line is oversized when the bytes before its newline   *)
(* exceed the cap (limits.rs:11), whatever they are.                       *)
BeforeNewline(b) == IF b[Len(b)] = "nl" THEN Len(b) - 1 ELSE Len(b)
DocumentedTag(b) ==
  IF IsBlank(b) THEN "blank"
  ELSE IF BeforeNewline(b) > cap THEN "oversized"
  ELSE IF ValidUtf8(b) THEN "text" ELSE "badUtf8"

(* The two kinds of line the code treats otherwise, because it counts the  *)
(* newline and stops looking at a line past the cap: both are returned as  *)
(* oversized and take a number. The difference is recorded in the README.  *)
NewlinePastCap(b) == ~IsBlank(b) /\ BeforeNewline(b) = cap /\ Len(b) > cap
BlankPastCap(b) == IsBlank(b) /\ Len(b) > cap

LineOf(b) ==
  LET tag == IF NewlinePastCap(b) \/ BlankPastCap(b) THEN "oversized" ELSE DocumentedTag(b)
  IN  [bytes |-> Len(b), tag |-> tag, text |-> IF tag = "text" THEN Trimmed(b) ELSE NoText]
LinesOf(s) ==
  LET ends == Ascending(LineEnds(s))
  IN  [k \in DOMAIN ends |-> LineOf(SubSeq(s, IF k = 1 THEN 1 ELSE ends[k - 1] + 1, ends[k]))]

(* The bytes the caller has been told of are whole lines, and they         *)
(* determine the position in the line-level specification.                 *)
LinesConsumed == UpTo(LineEnds(input), bytesConsumed)

Promise ==
  INSTANCE LineSource WITH
    lines <- LinesOf(input), pos <- LinesConsumed,
    Text <- Seq(Byte),
    Sources <- Seq([bytes : Nat \ {0}, tag : {"blank", "oversized", "badUtf8", "text"}, text : Seq(Byte)])

(* Whatever the chunks, the calls return the lines of the input that are   *)
(* not blank, each once, in order and rightly numbered, with the class the *)
(* documentation gives them, except for the two kinds of line named above: *)
(* NdjsonSource::next_line (ndjson.rs:53-107) implements the line source.  *)
ImplementsLineSource == Promise!SourceSpec

(* A run whose reads succeed ends with None and with the whole input       *)
(* accounted for; no line, however long, keeps the reader from it.         *)
ReachesEnd == <>(pc = "failed" \/ (pc = "done" /\ bytesConsumed = Len(input)))
=============================================================================
