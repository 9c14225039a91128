--------------------------- MODULE StreamValidator ---------------------------
(***************************************************************************)
(* StreamValidator::validate_reader (crates/statguardian-stream,           *)
(* src/validator.rs): reads records through a line source, rejects the     *)
(* malformed ones under a policy, gathers the others into micro-batches,   *)
(* has the engine validate each batch and maps the engine's row numbers    *)
(* back to record numbers; stops at the end of the source or at a limit.   *)
(*                                                                         *)
(* The engine is the one of statguardian-engine (BatchExecutor.tla), here  *)
(* what it reports of one batch: which checks fail, which of those are run *)
(* and which of those outlive the dedup by column and check name.          *)
(***************************************************************************)
EXTENDS LineSource, Enumeration

CONSTANTS
  None,           \* an absent option
  Json,           \* the texts serde_json can parse
  Sanitizers,     \* the sanitization policies considered
  Values,         \* the values a sanitized text can have
  Clean,          \* Sanitizer::sanitize under each policy, on parsed texts
  Events,         \* how many sanitization events cleaning a text records
  CheckList,      \* the contract's checks, those of a column in the engine's order
  Fails(_, _),    \* the rows of a batch, given by its values, that fail a row check
  OptionSpace     \* the StreamOptions considered

Severity == {"Blocking", "Error", "Warning", "Info"}
Checks == DOMAIN CheckList
RowChecks == {c \in Checks : CheckList[c].rows}
BatchChecks == {c \in Checks : ~CheckList[c].rows}
Policy == [mode : {"failFast", "skip", "collect"}, max : Nat]
Options == [maxRecords : Nat \cup {None}, maxBytes : Nat \cup {None}, batchSize : Nat,
            malformed : Policy, oversized : Policy, sanitizer : Sanitizers, failOnWarning : BOOLEAN]

ASSUME NoneAssumption == None \notin Nat \cup {"max_records", "max_bytes"}
ASSUME JsonAssumption == Json \subseteq Text
ASSUME CleanAssumption == Clean \in [Sanitizers -> [Json -> Values]] /\ Events \in [Sanitizers -> [Json -> Nat]]
ASSUME ChecksAssumption ==
  CheckList \in Seq([column : STRING, name : STRING, severity : Severity,
                     rows : BOOLEAN,     \* its violation names the failing rows
                     node : BOOLEAN])    \* it is a node of the DAG
ASSUME OptionsAssumption == OptionSpace \subseteq Options

VARIABLES
  opts,               \* StreamOptions, fixed for the run
  batch,              \* the records waiting for the engine, with their numbers
  findings,           \* RunState.findings
  malformed,          \* RunState.malformed
  malformedCount,     \* RunState.malformed_count
  oversizedCount,     \* RunState.oversized_count
  recordsValidated,   \* RunState.records_validated
  batches,            \* RunState.batches
  sanitized,          \* RunState.sanitization, as its number of events
  limitHit,           \* RunState.limit_hit, None unless truncated
  report,             \* what the report adds to these: its totals and verdict
  pc                  \* where validate_reader is

run == <<findings, malformed, malformedCount, oversizedCount,
         recordsValidated, batches, sanitized, limitHit>>
vars == <<sourceVars, opts, batch, run, report, pc>>

Kind == {"json", "utf8", "oversized"}
Finding == [record : Nat \cup {None}, batch : Nat, check : Checks]
Malformed == [record : Nat, kind : Kind]
Report == [recordsRead : Nat, bytesConsumed : Nat, passed : BOOLEAN, exitCode : {0, 1}]

-----------------------------------------------------------------------------
Init ==
  /\ SourceInit
  /\ opts \in OptionSpace
  /\ batch = << >>
  /\ findings = {}
  /\ malformed = {}
  /\ malformedCount = 0
  /\ oversizedCount = 0
  /\ recordsValidated = 0
  /\ batches = 0
  /\ sanitized = 0
  /\ limitHit = None
  /\ report = None
  /\ pc = "check"

-----------------------------------------------------------------------------
(* The head of the loop: the limits, then one call of next_line.           *)

RecordsAtLimit == opts.maxRecords # None /\ recordIndex >= opts.maxRecords
BytesAtLimit == opts.maxBytes # None /\ bytesConsumed >= opts.maxBytes

(* Seeded fault: the byte limit is looked at only when there is no record limit. *)
CheckLimitsFirstOnly ==
  /\ pc = "check"
  /\ pc' = IF RecordsAtLimit \/ (opts.maxRecords = None /\ BytesAtLimit) THEN "peek" ELSE "read"
  /\ UNCHANGED <<sourceVars, opts, batch, run, report>>

CheckLimits ==
  /\ pc = "check"
  /\ pc' = IF RecordsAtLimit \/ BytesAtLimit THEN "peek" ELSE "read"
  /\ UNCHANGED <<sourceVars, opts, batch, run, report>>

(* next_line passes over a blank line, in either call. *)
ReadBlank ==
  /\ pc \in {"read", "peek"}
  /\ SkipBlank
  /\ UNCHANGED <<opts, batch, run, report, pc>>

ReadRecord ==
  /\ pc = "read"
  /\ Emit
  /\ pc' = "dispatch"
  /\ UNCHANGED <<opts, batch, run, report>>

(* Seeded fault: a call made at a limit waits for one more record.         *)
ReadEndNotPeeking ==
  /\ pc = "read"
  /\ AtEnd
  /\ pc' = "lastFlush"
  /\ UNCHANGED <<sourceVars, opts, batch, run, report>>

(* Seeded fault: reaching the limit counts as truncation, more records or not. *)
ReadEndTruncating ==
  /\ pc \in {"read", "peek"}
  /\ AtEnd
  /\ limitHit' = IF pc = "peek" THEN "max_records" ELSE limitHit
  /\ pc' = "lastFlush"
  /\ UNCHANGED <<sourceVars, opts, batch, findings, malformed, malformedCount, oversizedCount,
                 recordsValidated, batches, sanitized, report>>

(* None: the loop ends, whether or not a limit was reached. *)
ReadEnd ==
  /\ pc \in {"read", "peek"}
  /\ AtEnd
  /\ pc' = "lastFlush"
  /\ UNCHANGED <<sourceVars, opts, batch, run, report>>

(* At a limit one more call tells whether the run is cut short: the record *)
(* it returns is dropped.                                                  *)
PeekRecord ==
  /\ pc = "peek"
  /\ Emit
  /\ limitHit' = IF RecordsAtLimit THEN "max_records" ELSE "max_bytes"
  /\ pc' = "lastFlush"
  /\ UNCHANGED <<opts, batch, findings, malformed, malformedCount, oversizedCount,
                 recordsValidated, batches, sanitized, report>>

(* An I/O error in either call ends the run without a report. *)
ReadError ==
  /\ pc \in {"read", "peek"}
  /\ pc' = "failed"
  /\ UNCHANGED <<sourceVars, opts, batch, run, report>>

-----------------------------------------------------------------------------
(* The record in hand: rejected, or sanitized and added to the batch.      *)

IsJson(l) == l.utf8 /\ l.content \in Json

(* Seeded fault: an oversized record is counted apart from the malformed.   *)
CountRejectionApart(kind, policy) ==
  IF kind = "oversized"
  THEN oversizedCount' = oversizedCount + 1 /\ UNCHANGED malformedCount
  ELSE malformedCount' = malformedCount + 1 /\ UNCHANGED oversizedCount

(* Seeded fault: a skipped record is not counted.                          *)
CountRejectionCollected(kind, policy) ==
  /\ malformedCount' = IF policy.mode = "collect" THEN malformedCount + 1 ELSE malformedCount
  /\ oversizedCount' = IF kind = "oversized" /\ policy.mode = "collect" THEN oversizedCount + 1 ELSE oversizedCount

CountRejection(kind, policy) ==
  /\ malformedCount' = malformedCount + 1
  /\ oversizedCount' = IF kind = "oversized" THEN oversizedCount + 1 ELSE oversizedCount

(* Seeded fault: the list takes one record more than max.                  *)
CollectsOneMore(policy) == policy.mode = "collect" /\ Cardinality(malformed) <= policy.max

(* A collected record takes a place of the list that both policies share.  *)
Collects(policy) == policy.mode = "collect" /\ Cardinality(malformed) < policy.max

(* RunState::reject, when the policy lets the run go on ...                *)
Reject(kind, policy) ==
  /\ policy.mode # "failFast"
  /\ CountRejection(kind, policy)
  /\ malformed' = IF Collects(policy)
                  THEN malformed \cup {[record |-> line.record, kind |-> kind]}
                  ELSE malformed
  /\ pc' = "check"
  /\ UNCHANGED <<findings, recordsValidated, batches, sanitized, limitHit>>

(* ... and when it does not: the counts are lost with the report.          *)
Abort(policy) ==
  /\ policy.mode = "failFast"
  /\ pc' = "failed"
  /\ UNCHANGED run

RejectRecord ==
  /\ pc = "dispatch"
  /\ \/ line.exceeded /\ (Reject("oversized", opts.oversized) \/ Abort(opts.oversized))
     \/ ~line.exceeded /\ ~line.utf8 /\ (Reject("utf8", opts.malformed) \/ Abort(opts.malformed))
     \/ line.utf8 /\ ~IsJson(line) /\ (Reject("json", opts.malformed) \/ Abort(opts.malformed))
  /\ UNCHANGED <<sourceVars, opts, batch, report>>

(* Seeded fault: a batch is flushed once it is larger than batch_size.     *)
FullLate(records) == Len(records) > opts.batchSize

(* Compared after the push, so that a batch_size of 0 acts as 1.           *)
Full(records) == Len(records) >= opts.batchSize

AcceptRecord ==
  /\ pc = "dispatch"
  /\ IsJson(line)
  /\ sanitized' = sanitized + Events[opts.sanitizer][line.content]
  /\ batch' = Append(batch, [record |-> line.record, value |-> Clean[opts.sanitizer][line.content]])
  /\ pc' = IF Full(batch') THEN "flush" ELSE "check"
  /\ UNCHANGED <<sourceVars, opts, findings, malformed, malformedCount, oversizedCount,
                 recordsValidated, batches, limitHit, report>>

-----------------------------------------------------------------------------
(* flush_batch. *)

(* Engine::execute on the rows of a batch: the failing rows of a row check *)
(* (which for an outlier check depend on the whole batch), none for a      *)
(* check of the batch as a whole; which of those fail is left open.        *)
Rows(c, values) == IF c \in RowChecks THEN Fails(c, values) \cap DOMAIN values ELSE {}
FailingSets(values) == {{c \in RowChecks : Rows(c, values) # {}} \cup failed : failed \in SUBSET BatchChecks}

(* An earlier check of the same column and name.                           *)
Namesake(e, c) ==
  e < c /\ CheckList[e].column = CheckList[c].column /\ CheckList[e].name = CheckList[c].name

(* A blocking node of the DAG, when it fails, is the last of its column.   *)
EndsColumn(d, c) ==
  /\ d < c /\ CheckList[d].node /\ CheckList[c].node
  /\ CheckList[d].column = CheckList[c].column /\ CheckList[d].severity = "Blocking"

Found(failing) == {c \in failing : \A d \in failing : ~EndsColumn(d, c)}

(* dedup_by: of the violations of one column and name the first stays.     *)
Reported(failing) == {c \in Found(failing) : \A e \in Found(failing) : ~Namesake(e, c)}

Violations(values, failing) == {[check |-> c, rows |-> Rows(c, values)] : c \in Reported(failing)}

ValuesIn(records) == [i \in DOMAIN records |-> records[i].value]

(* Seeded fault: rows are numbered from the start of the batch.            *)
FindingsOfByOffset(v, records) ==
  IF v.rows = {}
  THEN {[record |-> None, batch |-> batches, check |-> v.check]}
  ELSE {[record |-> batches * opts.batchSize + i - 1, batch |-> batches, check |-> v.check] : i \in v.rows}

(* Each row of a violation becomes a finding about the record it was.      *)
FindingsOf(v, records) ==
  IF v.rows = {}
  THEN {[record |-> None, batch |-> batches, check |-> v.check]}
  ELSE {[record |-> records[i].record, batch |-> batches, check |-> v.check] : i \in v.rows}

AfterFlush == IF pc = "flush" THEN "check" ELSE "finish"

FlushBatch ==
  /\ pc \in {"flush", "lastFlush"}
  /\ batch # << >>
  /\ \E failing \in FailingSets(ValuesIn(batch)) :
       findings' = findings \cup UNION {FindingsOf(v, batch) : v \in Violations(ValuesIn(batch), failing)}
  /\ recordsValidated' = recordsValidated + Len(batch)
  /\ batches' = batches + 1
  /\ batch' = << >>
  /\ pc' = AfterFlush
  /\ UNCHANGED <<sourceVars, opts, malformed, malformedCount, oversizedCount, sanitized, limitHit, report>>

FlushNothing ==
  /\ pc = "lastFlush"
  /\ batch = << >>
  /\ pc' = AfterFlush
  /\ UNCHANGED <<sourceVars, opts, batch, run, report>>

(* The batch, already taken, cannot be made a DataFrame: Err, no report.   *)
MaterializeError ==
  /\ pc \in {"flush", "lastFlush"}
  /\ batch # << >>
  /\ batch' = << >>
  /\ pc' = "failed"
  /\ UNCHANGED <<sourceVars, opts, run, report>>

-----------------------------------------------------------------------------
(* RunState::finish and StreamReport::exit_code. The two sorts order       *)
(* findings and malformed records by keys no two of them share, so the     *)
(* reported lists are functions of the sets kept here.                     *)

Passed == \A f \in findings : CheckList[f.check].severity # "Blocking"
ExitCode == IF ~Passed \/ (opts.failOnWarning /\ findings # {}) THEN 1 ELSE 0

Finish ==
  /\ pc = "finish"
  /\ report' = [recordsRead |-> recordIndex, bytesConsumed |-> bytesConsumed,
                passed |-> Passed, exitCode |-> ExitCode]
  /\ pc' = "done"
  /\ UNCHANGED <<sourceVars, opts, batch, run>>

(* validate_reader has returned. *)
Returned == pc \in {"done", "failed"} /\ UNCHANGED vars

Step ==
  \/ CheckLimits \/ ReadBlank \/ ReadRecord \/ ReadEnd \/ PeekRecord
  \/ RejectRecord \/ AcceptRecord \/ FlushBatch \/ FlushNothing \/ Finish

Next == Step \/ ReadError \/ MaterializeError \/ Returned

(* One thread runs the loop; nothing is assumed of errors.                 *)
Spec == Init /\ [][Next]_vars /\ WF_vars(Step)

-----------------------------------------------------------------------------
(* Properties. *)

(* The types of the state; oversized records are among the malformed ones  *)
(* (validator.rs:288-291).                                                 *)
TypeOK ==
  /\ lines \in Seq(Line) /\ pos \in 0..Len(lines)
  /\ recordIndex \in Nat /\ bytesConsumed \in Nat
  /\ line \in [record : Int, bytes : Nat, exceeded : BOOLEAN, utf8 : BOOLEAN, content : Text \cup {NoText}]
  /\ opts \in Options
  /\ batch \in Seq([record : Nat, value : Values])
  /\ findings \subseteq Finding
  /\ malformed \subseteq Malformed
  /\ malformedCount \in Nat /\ oversizedCount \in 0..malformedCount
  /\ recordsValidated \in Nat /\ batches \in Nat /\ sanitized \in Nat
  /\ limitHit \in {None, "max_records", "max_bytes"}
  /\ report \in Report \cup {None}
  /\ pc \in {"check", "read", "peek", "dispatch", "flush", "lastFlush", "finish", "done", "failed"}

(* The source's records by number, and what becomes of each: stated on the *)
(* source alone, without batches or limits.                                *)
Numbered == {i \in DOMAIN lines : lines[i].tag # "blank"}
RecordLine(r) == lines[Nth(Numbered, r + 1)]
Accepted(r) == RecordLine(r).tag = "text" /\ RecordLine(r).text \in Json
AcceptedRecords == {r \in 0..(Cardinality(Numbered) - 1) : Accepted(r)}
KindOf(r) == IF RecordLine(r).tag = "oversized" THEN "oversized"
             ELSE IF RecordLine(r).tag = "badUtf8" THEN "utf8" ELSE "json"
PolicyOf(r) == IF KindOf(r) = "oversized" THEN opts.oversized ELSE opts.malformed

(* How many records have been dealt with: neither the one in hand nor the  *)
(* one dropped at a limit.                                                 *)
Processed == IF pc = "dispatch" \/ limitHit # None THEN recordIndex - 1 ELSE recordIndex

(* No record is lost or counted twice: each one read has been validated,   *)
(* waits in the batch, was rejected, is in hand or was dropped at a limit. *)
EveryRecordAccounted ==
  pc # "failed" => Processed = recordsValidated + Len(batch) + malformedCount

(* Micro-batches are full: all of batch_size records but the last, and     *)
(* never more than that waits (docs/STREAMGUARD.md, "Bounded memory").     *)
BatchCapacity == IF opts.batchSize = 0 THEN 1 ELSE opts.batchSize
MicroBatchesFull ==
  /\ Len(batch) <= BatchCapacity
  /\ pc \notin {"finish", "done", "failed"} => recordsValidated = batches * BatchCapacity
  /\ pc # "flush" /\ pc # "lastFlush" => Len(batch) < BatchCapacity

(* The records of the b-th batch, by their place among the accepted ones,  *)
(* and those of a batch that fail a check.                                 *)
Rank(r) == UpTo(AcceptedRecords, r - 1)
RowsOf(b) ==
  LET left == recordsValidated - b * BatchCapacity IN 1..(IF left < BatchCapacity THEN left ELSE BatchCapacity)
RecordsOf(b) == [i \in RowsOf(b) |-> Nth(AcceptedRecords, b * BatchCapacity + i)]
ValuesOf(records) == [i \in DOMAIN records |-> Clean[opts.sanitizer][RecordLine(records[i]).text]]
FailingRecords(records, c) == {records[i] : i \in Fails(c, ValuesOf(records)) \cap DOMAIN records}

RecordsFound(b, c) == {f.record : f \in {g \in findings : g.batch = b /\ g.check = c}}

(* The findings show why a check is missing: its batch has one under the   *)
(* same column and name from an earlier check, or one under the name of a  *)
(* blocking check that ended the work on its column.                       *)
Displaced(b, records, c) ==
  \E f \in findings :
    /\ f.batch = b
    /\ \/ Namesake(f.check, c)
       \/ \E d \in Checks : /\ EndsColumn(d, c) /\ (f.check = d \/ Namesake(f.check, d))
                            /\ d \in RowChecks => FailingRecords(records, d) # {}

(* The row findings of a check name the very records of the batch that     *)
(* failed it, whatever lines were skipped before them and however the      *)
(* records fell into batches ("Stable findings", docs/STREAMGUARD.md:108). *)
(* They are all there or none is, and none only with a trace of the reason *)
(* in the findings of the same batch (batch.rs:37-43 and :57-58).          *)
FindingsNameTheirRecords ==
  pc # "failed" =>
    /\ \A f \in findings : f.batch < batches
    /\ \A b \in 0..(batches - 1) :
         LET records == RecordsOf(b)
         IN  \A c \in RowChecks :
               \/ RecordsFound(b, c) = FailingRecords(records, c)
               \/ RecordsFound(b, c) = {} /\ Displaced(b, records, c)

(* Malformed records are collected from the first one on, up to the        *)
(* policy's max in the shared list; one is missing only because its policy *)
(* skips it or the list was full when it came. Fail-fast lets none through.*)
CollectedBefore(r) == {m \in malformed : m.record < r}
PolicyHolds ==
  pc # "failed" =>
    /\ \A m \in malformed : ~Accepted(m.record) /\ m.kind = KindOf(m.record)
    /\ \A r \in 0..(Processed - 1) : ~Accepted(r) =>
         /\ PolicyOf(r).mode # "failFast"
         /\ (\E m \in malformed : m.record = r) <=>
              (PolicyOf(r).mode = "collect" /\ Cardinality(CollectedBefore(r)) < PolicyOf(r).max)

(* No record is dealt with beyond max_records, nor one whose predecessor   *)
(* already reached max_bytes.                                              *)
BytesUpTo[n \in 0..Len(lines)] == IF n = 0 THEN 0 ELSE BytesUpTo[n - 1] + lines[n].bytes
BytesThrough(r) == IF r = 0 THEN 0 ELSE BytesUpTo[Nth(Numbered, r)]
LimitsHold ==
  /\ opts.maxRecords # None => Processed <= opts.maxRecords
  /\ opts.maxBytes # None => \A r \in 0..(Processed - 1) : BytesThrough(r) < opts.maxBytes

(* A report says it is truncated exactly when records were left out: an    *)
(* unmarked one has read the source to its end.                            *)
TruncationIsHonest ==
  report # None =>
    /\ (limitHit # None) <=> (recordsValidated + malformedCount < Cardinality(Numbered))
    /\ limitHit = None => AtEnd

(* A run ends, with a report or an error, on every finite source.          *)
Terminates == <>(pc \in {"done", "failed"})
=============================================================================
