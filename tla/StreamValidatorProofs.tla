------------------------ MODULE StreamValidatorProofs ------------------------
(***************************************************************************)
(* For every source, contract, policy and limit: the validator's state is  *)
(* well typed, no record it reads is lost or counted twice, its batches    *)
(* are full and never larger than batch_size; its findings are about the   *)
(* records that failed, its malformed records those the policy asks for,   *)
(* its limits hold, and its report says whether records were left out.     *)
(***************************************************************************)
EXTENDS StreamValidator, EnumerationProofs

(* What the record in hand and the batch being flushed are known to be:    *)
(* the facts the other invariants need of a step to come.                  *)
InHand ==
  /\ pc = "dispatch" => recordIndex > 0 /\ line.record = recordIndex - 1
  /\ pc \in {"dispatch", "read", "check", "peek", "flush"} => limitHit = None
  /\ limitHit # None => recordIndex > 0
  /\ pc = "flush" => Len(batch) = BatchCapacity
  /\ pc \in {"finish", "done"} => batch = << >>

IInv == TypeOK /\ InHand /\ EveryRecordAccounted /\ MicroBatchesFull

USE DEF sourceVars, run, vars

(* A line of the source is read as a well-typed RawLine.                   *)
LEMMA EmitType ==
  ASSUME TypeOK, Emit
  PROVE  /\ lines' = lines /\ pos' \in 0..Len(lines)
         /\ recordIndex' = recordIndex + 1
         /\ bytesConsumed' \in Nat
         /\ line' \in [record : Int, bytes : Nat, exceeded : BOOLEAN, utf8 : BOOLEAN,
                       content : Text \cup {NoText}]
         /\ line'.record = recordIndex
<1>1. lines[pos + 1] \in Line
  BY DEF TypeOK, Emit, Consume, AtEnd
<1>2. QED
  BY <1>1 DEF TypeOK, Emit, Consume, AtEnd, RawLine, Line, LineTag

LEMMA SkipBlankType ==
  ASSUME TypeOK, SkipBlank
  PROVE  /\ lines' = lines /\ pos' \in 0..Len(lines)
         /\ bytesConsumed' \in Nat
         /\ recordIndex' = recordIndex /\ line' = line
<1>1. lines[pos + 1] \in Line
  BY DEF TypeOK, SkipBlank, Consume, AtEnd
<1>2. QED
  BY <1>1 DEF TypeOK, SkipBlank, Consume, AtEnd, Line

(* Accepting a record appends a numbered, parsed and cleaned one.          *)
LEMMA AcceptType ==
  ASSUME TypeOK, InHand, AcceptRecord
  PROVE  /\ batch' \in Seq([record : Nat, value : Values])
         /\ Len(batch') = Len(batch) + 1
         /\ sanitized' \in Nat
<1>1. line.content \in Json /\ line.record \in Nat /\ opts.sanitizer \in Sanitizers
  BY DEF TypeOK, InHand, AcceptRecord, IsJson, Options
<1>2. [record |-> line.record, value |-> Clean[opts.sanitizer][line.content]] \in [record : Nat, value : Values]
  BY <1>1, CleanAssumption
<1>3. batch \in Seq([record : Nat, value : Values])
  BY DEF TypeOK
<1>4. Events[opts.sanitizer][line.content] \in Nat
  BY <1>1, CleanAssumption
<1>5. QED
  BY <1>2, <1>3, <1>4 DEF AcceptRecord, TypeOK

(* The records that wait are numbered.                                     *)
LEMMA BatchRecordsNatural ==
  ASSUME TypeOK
  PROVE  \A i \in DOMAIN batch : batch[i].record \in Nat
<1> DEFINE Entry == [record : Nat, value : Values]
<1>1. batch \in Seq(Entry)
  BY DEF TypeOK
<1>2. \A e \in Entry : e.record \in Nat
  OBVIOUS
<1> HIDE DEF Entry
<1>3. \A i \in DOMAIN batch : batch[i] \in Entry
  BY <1>1
<1>4. QED
  BY <1>2, <1>3

(* The engine reports some of the checks that fail, with rows of the batch.*)
LEMMA EngineType ==
  ASSUME NEW values, NEW failing \in FailingSets(values), NEW v \in Violations(values, failing)
  PROVE  v.check \in failing /\ v.check \in Checks /\ v.rows = Rows(v.check, values) /\ v.rows \subseteq DOMAIN values
<1>1. PICK c \in Reported(failing) : v = [check |-> c, rows |-> Rows(c, values)]
  BY DEF Violations
<1>2. c \in failing
  BY DEF Reported, Found
<1>3. failing \subseteq Checks
  BY DEF FailingSets, RowChecks, BatchChecks
<1>4. Rows(c, values) \subseteq DOMAIN values
  BY DEF Rows
<1>5. QED
  BY <1>1, <1>2, <1>3, <1>4

(* What the engine reports of a batch becomes well-typed findings.         *)
LEMMA FindingsType ==
  ASSUME TypeOK, NEW failing \in FailingSets(ValuesIn(batch)), NEW v \in Violations(ValuesIn(batch), failing)
  PROVE  FindingsOf(v, batch) \subseteq Finding
<1>1. v.check \in Checks /\ v.rows \subseteq DOMAIN batch
  <2>1. DOMAIN ValuesIn(batch) = DOMAIN batch
    BY DEF ValuesIn
  <2>2. QED
    BY <2>1, EngineType
<1>2. \A i \in DOMAIN batch : batch[i].record \in Nat
  BY BatchRecordsNatural
<1>3. batches \in Nat
  BY DEF TypeOK
<1>4. CASE v.rows = {}
  BY <1>1, <1>3, <1>4 DEF FindingsOf, Finding
<1>5. CASE v.rows # {}
  BY <1>1, <1>2, <1>3, <1>5 DEF FindingsOf, Finding
<1>6. QED
  BY <1>4, <1>5

LEMMA InitIInv == Init => IInv
<1>1. ASSUME Init PROVE TypeOK
  BY <1>1, SourcesAssumption, OptionsAssumption DEF Init, SourceInit, NoLine, TypeOK
<1>2. ASSUME Init PROVE InHand /\ EveryRecordAccounted
  BY <1>2 DEF Init, SourceInit, InHand, EveryRecordAccounted, Processed
<1>3. ASSUME Init PROVE MicroBatchesFull
  <2>1. BatchCapacity \in Nat \ {0}
    BY <1>3, <1>1 DEF TypeOK, Options, BatchCapacity
  <2>2. QED
    BY <1>3, <2>1 DEF Init, MicroBatchesFull
<1>4. QED
  BY <1>1, <1>2, <1>3 DEF IInv

(* Every step preserves the types.                                         *)
LEMMA TypeStep ==
  ASSUME TypeOK, InHand, [Next]_vars
  PROVE  TypeOK'
<1>1. CASE CheckLimits
  BY <1>1 DEF CheckLimits, TypeOK
<1>2. CASE ReadBlank
  BY <1>2, SkipBlankType DEF ReadBlank, TypeOK
<1>3. CASE ReadRecord
  BY <1>3, EmitType DEF ReadRecord, TypeOK
<1>4. CASE ReadEnd
  BY <1>4 DEF ReadEnd, TypeOK
<1>5. CASE PeekRecord
  BY <1>5, EmitType DEF PeekRecord, TypeOK
<1>6. CASE RejectRecord
  <2>1. malformedCount' \in Nat /\ oversizedCount' \in 0..malformedCount'
    BY <1>6 DEF RejectRecord, Reject, Abort, CountRejection, TypeOK
  <2>2. malformed' \subseteq Malformed
    <3>1. line.record \in Nat
      BY <1>6 DEF RejectRecord, InHand, TypeOK
    <3>2. QED
      BY <1>6, <3>1 DEF RejectRecord, Reject, Abort, TypeOK, Malformed, Kind
  <2>3. pc' \in {"check", "failed"} /\ UNCHANGED <<findings, recordsValidated, batches, sanitized, limitHit>>
    BY <1>6 DEF RejectRecord, Reject, Abort
  <2>4. QED
    BY <1>6, <2>1, <2>2, <2>3 DEF RejectRecord, TypeOK
<1>7. CASE AcceptRecord
  BY <1>7, AcceptType DEF AcceptRecord, TypeOK
<1>8. CASE FlushBatch
  <2>1. findings' \subseteq Finding
    BY <1>8, FindingsType DEF FlushBatch, TypeOK
  <2>2. recordsValidated' \in Nat /\ batches' \in Nat
    BY <1>8 DEF FlushBatch, TypeOK
  <2>3. QED
    BY <1>8, <2>1, <2>2 DEF FlushBatch, AfterFlush, TypeOK
<1>9. CASE FlushNothing
  BY <1>9 DEF FlushNothing, AfterFlush, TypeOK
<1>10. CASE Finish
  BY <1>10 DEF Finish, ExitCode, Passed, Report, TypeOK
<1>11. CASE ReadError
  BY <1>11 DEF ReadError, TypeOK
<1>12. CASE MaterializeError
  BY <1>12 DEF MaterializeError, TypeOK
<1>13. CASE UNCHANGED vars
  BY <1>13 DEF TypeOK
<1>14. QED
  BY <1>1, <1>2, <1>3, <1>4, <1>5, <1>6, <1>7, <1>8, <1>9, <1>10, <1>11, <1>12, <1>13
     DEF Next, Step, Returned

(* What the record in hand, the batch and the limit are at each point.     *)
LEMMA InHandStep ==
  ASSUME IInv, [Next]_vars
  PROVE  InHand'
<1> USE DEF IInv
<1>1. BatchCapacity \in Nat \ {0} /\ BatchCapacity' = BatchCapacity
  <2>1. opts' = opts
    BY DEF Next, Step, CheckLimits, ReadBlank, ReadRecord, ReadEnd, PeekRecord, RejectRecord, AcceptRecord,
           FlushBatch, FlushNothing, Finish, ReadError, MaterializeError, Returned
  <2>2. QED
    BY <2>1 DEF TypeOK, Options, BatchCapacity
<1>2. CASE CheckLimits \/ ReadEnd \/ ReadError \/ MaterializeError \/ Finish \/ UNCHANGED vars
  BY <1>1, <1>2 DEF CheckLimits, ReadEnd, ReadError, MaterializeError, Finish, InHand
<1>3. CASE ReadBlank
  BY <1>1, <1>3, SkipBlankType DEF ReadBlank, InHand
<1>4. CASE ReadRecord
  BY <1>1, <1>4, EmitType DEF ReadRecord, InHand, TypeOK
<1>5. CASE PeekRecord
  BY <1>1, <1>5, EmitType DEF PeekRecord, InHand, TypeOK
<1>6. CASE RejectRecord
  BY <1>1, <1>6 DEF RejectRecord, Reject, Abort, InHand
<1>7. CASE AcceptRecord
  <2>1. Len(batch') = Len(batch) + 1 /\ Len(batch) \in Nat
    BY <1>7, AcceptType DEF TypeOK
  <2>2. pc' = "flush" => Len(batch') = BatchCapacity
    <3>1. Len(batch) < BatchCapacity
      BY <1>7 DEF MicroBatchesFull, AcceptRecord
    <3>2. opts.batchSize \in Nat
      BY DEF TypeOK, Options
    <3>3. QED
      BY <1>1, <1>7, <2>1, <3>1, <3>2 DEF AcceptRecord, Full, BatchCapacity
  <2>3. QED
    BY <1>1, <1>7, <2>2 DEF AcceptRecord, InHand
<1>8. CASE FlushBatch
  BY <1>1, <1>8 DEF FlushBatch, AfterFlush, InHand
<1>9. CASE FlushNothing
  BY <1>1, <1>9 DEF FlushNothing, AfterFlush, InHand
<1>10. QED
  BY <1>2, <1>3, <1>4, <1>5, <1>6, <1>7, <1>8, <1>9 DEF Next, Step, Returned

(* Each step moves a record from one account to another, or none.          *)
LEMMA AccountStep ==
  ASSUME IInv, [Next]_vars
  PROVE  EveryRecordAccounted'
<1> USE DEF IInv, EveryRecordAccounted, Processed
<1>1. CASE CheckLimits \/ ReadEnd \/ ReadError \/ MaterializeError \/ Finish \/ FlushNothing \/ UNCHANGED vars
  BY <1>1 DEF CheckLimits, ReadEnd, ReadError, MaterializeError, Finish, FlushNothing, AfterFlush
<1>2. CASE ReadBlank
  BY <1>2, SkipBlankType DEF ReadBlank
<1>3. CASE ReadRecord
  BY <1>3, EmitType DEF ReadRecord, InHand, TypeOK
<1>4. CASE PeekRecord
  BY <1>4, EmitType, NoneAssumption DEF PeekRecord, InHand, TypeOK
<1>5. CASE RejectRecord
  BY <1>5 DEF RejectRecord, Reject, Abort, CountRejection, InHand, TypeOK
<1>6. CASE AcceptRecord
  <2>1. Len(batch') = Len(batch) + 1 /\ Len(batch) \in Nat
    BY <1>6, AcceptType DEF TypeOK
  <2>2. pc' \in {"flush", "check"} /\ limitHit = None
    BY <1>6 DEF AcceptRecord, InHand
  <2>3. /\ pc = "dispatch" /\ UNCHANGED <<recordIndex, recordsValidated, malformedCount, limitHit>>
        /\ recordIndex \in Nat /\ recordsValidated \in Nat /\ malformedCount \in Nat
    BY <1>6 DEF AcceptRecord, TypeOK
  <2>4. recordIndex - 1 = recordsValidated + Len(batch) + malformedCount
    BY <2>3
  <2>5. Processed' = recordIndex
    BY <2>2, <2>3
  <2>6. QED
    BY <2>1, <2>3, <2>4, <2>5
<1>7. CASE FlushBatch
  <2>1. Len(batch) \in Nat /\ Len(batch') = 0
    BY <1>7 DEF FlushBatch, TypeOK
  <2>2. QED
    BY <1>7, <2>1 DEF FlushBatch, AfterFlush, TypeOK
<1>8. QED
  BY <1>1, <1>2, <1>3, <1>4, <1>5, <1>6, <1>7 DEF Next, Step, Returned

(* A batch is flushed when it is full, or at the end.                      *)
LEMMA BatchStep ==
  ASSUME IInv, [Next]_vars
  PROVE  MicroBatchesFull'
<1> USE DEF IInv
<1>1. BatchCapacity \in Nat \ {0} /\ BatchCapacity' = BatchCapacity
  <2>1. opts' = opts
    BY DEF Next, Step, CheckLimits, ReadBlank, ReadRecord, ReadEnd, PeekRecord, RejectRecord, AcceptRecord,
           FlushBatch, FlushNothing, Finish, ReadError, MaterializeError, Returned
  <2>2. QED
    BY <2>1 DEF TypeOK, Options, BatchCapacity
<1>2. CASE CheckLimits \/ ReadBlank \/ ReadRecord \/ ReadEnd \/ PeekRecord \/ RejectRecord \/ FlushNothing
           \/ Finish \/ ReadError \/ UNCHANGED vars
  <2>1. UNCHANGED <<batch, recordsValidated, batches>> /\ (pc' # pc => pc # "flush")
    BY <1>2 DEF CheckLimits, ReadBlank, ReadRecord, ReadEnd, PeekRecord, RejectRecord, Reject, Abort,
                FlushNothing, Finish, ReadError
  <2>2. pc \in {"finish", "done", "failed"} => pc' \in {"finish", "done", "failed"}
    BY <1>2 DEF CheckLimits, ReadBlank, ReadRecord, ReadEnd, PeekRecord, RejectRecord, Reject, Abort,
                FlushNothing, Finish, ReadError
  <2>3. pc = "lastFlush" /\ pc' # pc => batch = << >>
    BY <1>2 DEF CheckLimits, ReadBlank, ReadRecord, ReadEnd, PeekRecord, RejectRecord, FlushNothing,
                Finish, ReadError
  <2>4. QED
    BY <1>1, <2>1, <2>2, <2>3 DEF MicroBatchesFull, TypeOK
<1>3. CASE AcceptRecord
  <2>1. Len(batch') = Len(batch) + 1 /\ Len(batch) \in Nat /\ opts.batchSize \in Nat
    BY <1>3, AcceptType DEF TypeOK, Options
  <2>2. QED
    BY <1>1, <1>3, <2>1 DEF AcceptRecord, Full, BatchCapacity, MicroBatchesFull
<1>4. CASE FlushBatch
  <2>1. Len(batch') = 0 /\ batches \in Nat
    BY <1>4 DEF FlushBatch, TypeOK
  <2>2. pc = "flush" => recordsValidated' = batches' * BatchCapacity
    <3>1. pc = "flush" => recordsValidated' = batches * BatchCapacity + BatchCapacity
      BY <1>4 DEF FlushBatch, MicroBatchesFull, InHand
    <3>2. batches * BatchCapacity + BatchCapacity = (batches + 1) * BatchCapacity
      BY <1>1, <2>1
    <3>3. QED
      BY <1>4, <3>1, <3>2 DEF FlushBatch
  <2>3. QED
    BY <1>1, <1>4, <2>1, <2>2 DEF FlushBatch, AfterFlush, MicroBatchesFull
<1>5. CASE MaterializeError
  BY <1>1, <1>5 DEF MaterializeError, MicroBatchesFull
<1>6. QED
  BY <1>2, <1>3, <1>4, <1>5 DEF Next, Step, Returned

(* The three invariants together are inductive: the accounting and the     *)
(* batch sizes need to know what is in hand, and it needs the types.       *)
THEOREM Invariance == Spec => []IInv
<1>1. Init => IInv
  BY InitIInv
<1>2. IInv /\ [Next]_vars => IInv'
  BY TypeStep, InHandStep, AccountStep, BatchStep DEF IInv
<1>3. QED
  BY <1>1, <1>2, PTL DEF Spec

(* RunState and the source keep their types whatever the source, contract  *)
(* and options; oversized records never outnumber malformed ones.          *)
THEOREM TypeCorrect == Spec => []TypeOK
<1>1. IInv => TypeOK
  BY DEF IInv
<1>2. QED
  BY <1>1, Invariance, PTL

(* validate_reader neither loses a record nor counts one twice, for every  *)
(* source, policy and limit.                                               *)
THEOREM NoRecordLost == Spec => []EveryRecordAccounted
<1>1. IInv => EveryRecordAccounted
  BY DEF IInv
<1>2. QED
  BY <1>1, Invariance, PTL

(* At most batch_size records wait for the engine, and every batch but the *)
(* last one is full, for every batch_size.                                 *)
THEOREM BatchesBounded == Spec => []MicroBatchesFull
<1>1. IInv => MicroBatchesFull
  BY DEF IInv
<1>2. QED
  BY <1>1, Invariance, PTL

-----------------------------------------------------------------------------
(* Which records they were: the second half needs the first, and names the *)
(* record in hand, those in the batch and those collected.                 *)

(* The reader has numbered the lines it passed, and the one in hand is the *)
(* last of them.                                                           *)
Reading ==
  /\ recordIndex = UpTo(Numbered, pos)
  /\ pc = "dispatch" =>
       /\ RecordLine(recordIndex - 1).tag # "blank"
       /\ line = RawLine(RecordLine(recordIndex - 1), recordIndex - 1)

(* The accepted records are validated in their order; the batch holds      *)
(* those that come next, cleaned.                                          *)
Batching ==
  pc # "failed" =>
    /\ recordsValidated + Len(batch) = UpTo(AcceptedRecords, Processed - 1)
    /\ \A i \in DOMAIN batch :
         /\ batch[i].record \in AcceptedRecords /\ batch[i].record < Processed
         /\ Rank(batch[i].record) = recordsValidated + i - 1
         /\ batch[i].value = Clean[opts.sanitizer][RecordLine(batch[i].record).text]

(* The list of malformed records speaks of those dealt with.               *)
Collecting ==
  /\ IsFiniteSet(malformed)
  /\ pc # "failed" => \A m \in malformed : m.record < Processed

(* The limits hold for the first n records ...                             *)
Within(n) ==
  /\ opts.maxRecords # None => n <= opts.maxRecords
  /\ opts.maxBytes # None => \A r \in 0..(n - 1) : BytesThrough(r) < opts.maxBytes

(* ... and are asked about before each of them is read.                    *)
Limiting ==
  /\ bytesConsumed = BytesUpTo[pos]
  /\ Within(Processed)
  /\ pc = "dispatch" => Within(recordIndex)
  /\ pc = "read" => Within(recordIndex + 1)

(* The loop ends at the end of the source or at a limit, the run with the  *)
(* report.                                                                 *)
Ending ==
  /\ pc \in {"lastFlush", "finish", "done"} /\ limitHit = None => AtEnd
  /\ report # None => pc = "done"

RInv == Reading /\ Batching /\ FindingsNameTheirRecords /\ Collecting /\ PolicyHolds /\ Limiting /\ Ending

(* The source and the options stay as they are, and so does all that is    *)
(* said of the source's records.                                           *)
LEMMA SourceFixed ==
  ASSUME [Next]_vars
  PROVE  /\ lines' = lines /\ opts' = opts
         /\ Numbered' = Numbered /\ AcceptedRecords' = AcceptedRecords /\ BytesUpTo' = BytesUpTo
         /\ BatchCapacity' = BatchCapacity
         /\ \A r : RecordLine(r)' = RecordLine(r) /\ (Accepted(r)' <=> Accepted(r)) /\ KindOf(r)' = KindOf(r)
         /\ \A r : PolicyOf(r)' = PolicyOf(r) /\ Rank(r)' = Rank(r)
         /\ \A r : BytesThrough(r)' = BytesThrough(r) /\ (Within(r)' <=> Within(r))
<1>1. lines' = lines /\ opts' = opts
  BY DEF Next, Step, CheckLimits, ReadBlank, ReadRecord, ReadEnd, PeekRecord, RejectRecord, AcceptRecord,
         FlushBatch, FlushNothing, Finish, ReadError, MaterializeError, Returned, Emit, SkipBlank, Consume
<1>2. Numbered' = Numbered /\ BytesUpTo' = BytesUpTo /\ BatchCapacity' = BatchCapacity
  BY <1>1 DEF Numbered, BytesUpTo, BatchCapacity
<1>3. ASSUME NEW r
      PROVE  RecordLine(r)' = RecordLine(r) /\ (Accepted(r)' <=> Accepted(r)) /\ KindOf(r)' = KindOf(r)
  BY <1>1, <1>2 DEF RecordLine, Accepted, KindOf
<1>4. AcceptedRecords' = AcceptedRecords
  BY <1>2, <1>3 DEF AcceptedRecords
<1>5. ASSUME NEW r
      PROVE  PolicyOf(r)' = PolicyOf(r) /\ Rank(r)' = Rank(r)
  BY <1>1, <1>3, <1>4 DEF PolicyOf, Rank
<1>6. ASSUME NEW r
      PROVE  BytesThrough(r)' = BytesThrough(r)
  BY <1>2 DEF BytesThrough
<1>7. ASSUME NEW r
      PROVE  Within(r)' <=> Within(r)
  BY <1>1, <1>6 DEF Within
<1>8. QED
  BY <1>1, <1>2, <1>3, <1>4, <1>5, <1>6, <1>7

(* The records read so far are lines before the position.                  *)
LEMMA RecordsRead ==
  ASSUME TypeOK, Reading
  PROVE  /\ Numbered \in SUBSET Nat
         /\ Cardinality(Numbered) \in Nat /\ recordIndex <= Cardinality(Numbered)
         /\ AtEnd => recordIndex = Cardinality(Numbered)
         /\ \A r \in 0..(recordIndex - 1) : Nth(Numbered, r + 1) \in Numbered /\ Nth(Numbered, r + 1) <= pos
<1>1. Numbered \in SUBSET Nat /\ (\A i \in Numbered : i <= Len(lines)) /\ Len(lines) \in Nat
  BY DEF TypeOK, Numbered
<1>2. Cardinality(Numbered) \in Nat /\ UpTo(Numbered, Len(lines)) = Cardinality(Numbered)
  BY <1>1, UpToAll
<1>3. pos \in Int /\ pos <= Len(lines) /\ recordIndex \in Nat
  BY DEF TypeOK
<1>4. recordIndex <= Cardinality(Numbered)
  BY <1>1, <1>2, <1>3, UpToMonotonic DEF Reading
<1>5. AtEnd => recordIndex = Cardinality(Numbered)
  BY <1>2 DEF AtEnd, Reading
<1>6. ASSUME NEW r \in 0..(recordIndex - 1)
      PROVE  Nth(Numbered, r + 1) \in Numbered /\ Nth(Numbered, r + 1) <= pos
  <2>1. r + 1 \in 1..UpTo(Numbered, pos)
    BY <1>3 DEF Reading
  <2>2. QED
    BY <1>1, <1>3, <2>1, NthExists
<1>7. QED
  BY <1>1, <1>2, <1>4, <1>5, <1>6

(* The line a call returns is the next record.                             *)
LEMMA EmitIsNext ==
  ASSUME TypeOK, Reading, Emit
  PROVE  /\ RecordLine(recordIndex) = lines[pos + 1]
         /\ UpTo(Numbered, pos + 1) = recordIndex + 1
<1>1. Numbered \in SUBSET Nat /\ pos \in Int /\ pos + 1 \in Int /\ pos + 1 \in Numbered
  BY DEF TypeOK, Numbered, Emit, Consume, AtEnd
<1>2. UpTo(Numbered, pos + 1) = recordIndex + 1
  BY <1>1, UpToNext DEF Reading
<1>3. Nth(Numbered, recordIndex + 1) = pos + 1
  BY <1>1, <1>2, NthOfCount
<1>4. QED
  BY <1>2, <1>3 DEF RecordLine

LEMMA ReadingStep ==
  ASSUME IInv, Reading, [Next]_vars
  PROVE  Reading'
<1> USE DEF IInv
<1>1. lines' = lines /\ Numbered' = Numbered /\ \A r : RecordLine(r)' = RecordLine(r)
  BY SourceFixed
<1>2. ASSUME Emit
      PROVE  Reading'
  <2>1. recordIndex' = recordIndex + 1 /\ pos' = pos + 1 /\ line' = RawLine(lines[pos + 1], recordIndex)
        /\ lines[pos + 1].tag # "blank" /\ recordIndex \in Nat
    BY <1>2 DEF Emit, Consume, TypeOK
  <2>2. RecordLine(recordIndex) = lines[pos + 1] /\ UpTo(Numbered, pos + 1) = recordIndex + 1
    BY <1>2, EmitIsNext
  <2>3. recordIndex' - 1 = recordIndex
    BY <2>1
  <2>4. recordIndex' = UpTo(Numbered, pos')
    BY <2>1, <2>2
  <2>5. RecordLine(recordIndex' - 1).tag # "blank" /\ line' = RawLine(RecordLine(recordIndex' - 1), recordIndex' - 1)
    BY <2>1, <2>2, <2>3
  <2>6. QED
    BY <1>1, <2>4, <2>5 DEF Reading
<1>3. CASE ReadBlank
  <2>1. recordIndex' = recordIndex /\ pos' = pos + 1 /\ pc' # "dispatch" /\ pos \in Int /\ pos + 1 \notin Numbered
    BY <1>3 DEF ReadBlank, SkipBlank, Consume, Numbered, TypeOK
  <2>2. Numbered \in SUBSET Nat
    BY DEF TypeOK, Numbered
  <2>3. UpTo(Numbered, pos + 1) = UpTo(Numbered, pos)
    BY <2>1, <2>2, UpToNext
  <2>4. QED
    BY <1>1, <2>1, <2>3 DEF Reading
<1>4. CASE UNCHANGED sourceVars /\ (pc' = "dispatch" => pc = "dispatch")
  BY <1>1, <1>4 DEF Reading
<1>5. QED
  BY <1>2, <1>3, <1>4 DEF Next, Step, CheckLimits, ReadRecord, ReadEnd, PeekRecord, RejectRecord, Reject, Abort,
     AcceptRecord, FlushBatch, AfterFlush, FlushNothing, Finish, ReadError, MaterializeError, Returned

-----------------------------------------------------------------------------
(* Which steps deal with a record: taking it in hand does not.             *)
Quiet == CheckLimits \/ ReadBlank \/ ReadRecord \/ ReadEnd \/ PeekRecord \/ FlushNothing \/ Finish \/ UNCHANGED vars

LEMMA QuietStep ==
  ASSUME IInv, Quiet
  PROVE  /\ pc' # "failed" => pc # "failed"
         /\ Processed \in Int /\ Processed' = Processed
         /\ UNCHANGED <<batch, findings, malformed, malformedCount, recordsValidated, batches>>
<1> USE DEF IInv, Processed
<1>1. recordIndex \in Nat
  BY DEF TypeOK
<1>2. CASE ReadRecord
  BY <1>1, <1>2, EmitType DEF ReadRecord, InHand
<1>3. CASE PeekRecord
  BY <1>1, <1>3, EmitType, NoneAssumption DEF PeekRecord, InHand
<1>4. CASE ReadBlank
  BY <1>1, <1>4, SkipBlankType DEF ReadBlank
<1>5. CASE CheckLimits \/ ReadEnd \/ FlushNothing \/ Finish \/ UNCHANGED vars
  BY <1>1, <1>5 DEF CheckLimits, ReadEnd, FlushNothing, AfterFlush, Finish
<1>6. QED
  BY <1>2, <1>3, <1>4, <1>5 DEF Quiet

LEMMA DealStep ==
  ASSUME IInv, RejectRecord \/ AcceptRecord
  PROVE  /\ pc = "dispatch" /\ recordIndex \in Nat \ {0} /\ Processed = recordIndex - 1
         /\ Processed' = recordIndex
         /\ UNCHANGED <<findings, recordsValidated, batches, recordIndex, limitHit>>
<1>1. pc = "dispatch" /\ recordIndex \in Nat \ {0} /\ limitHit = None
  BY DEF IInv, TypeOK, InHand, RejectRecord, AcceptRecord
<1>2. /\ UNCHANGED <<findings, recordsValidated, batches, recordIndex, limitHit>>
      /\ pc' # "dispatch"
  BY DEF RejectRecord, Reject, Abort, AcceptRecord
<1>3. QED
  BY <1>1, <1>2 DEF Processed

(* The record in hand is a record of the source, and what the code asks    *)
(* about its line decides whether it is accepted, and as what it is not.   *)
LEMMA RecordInHand ==
  ASSUME IInv, Reading, pc = "dispatch", NEW r, r = recordIndex - 1
  PROVE  /\ r \in 0..(Cardinality(Numbered) - 1) /\ line.record = r
         /\ Accepted(r) <=> IsJson(line)
         /\ IsJson(line) => ~line.exceeded /\ line.utf8
         /\ ~IsJson(line) => /\ KindOf(r) = IF line.exceeded THEN "oversized"
                                            ELSE IF ~line.utf8 THEN "utf8" ELSE "json"
                             /\ line.exceeded => ~line.utf8
         /\ line.content = RecordLine(r).text
<1>1. recordIndex \in Nat \ {0} /\ r \in 0..(Cardinality(Numbered) - 1)
  BY RecordsRead DEF IInv, TypeOK, InHand
<1>2. r \in 0..(recordIndex - 1) /\ r + 1 = recordIndex
  BY <1>1
<1>3. RecordLine(r) \in Line
  <2>1. Nth(Numbered, r + 1) \in Numbered
    BY <1>2, RecordsRead DEF IInv
  <2>2. \A i \in Numbered : lines[i] \in Line
    BY DEF IInv, TypeOK, Numbered
  <2>3. QED
    BY <2>1, <2>2 DEF RecordLine
<1>4. RecordLine(r).tag \in {"oversized", "badUtf8", "text"} /\ line = RawLine(RecordLine(r), r)
  BY <1>2, <1>3 DEF Reading, Line, LineTag
<1>5. /\ line.record = r /\ line.content = RecordLine(r).text
      /\ line.exceeded <=> RecordLine(r).tag = "oversized"
      /\ line.utf8 <=> RecordLine(r).tag = "text"
  BY <1>4 DEF RawLine
<1>6. QED
  BY <1>1, <1>4, <1>5 DEF Accepted, KindOf, IsJson

(* Counting the accepted records up to the one in hand.                    *)
LEMMA OneMoreAccepted ==
  ASSUME IInv, Reading, pc = "dispatch"
  PROVE  /\ UpTo(AcceptedRecords, recordIndex - 2) \in Nat
         /\ UpTo(AcceptedRecords, recordIndex - 1) =
              IF IsJson(line) THEN UpTo(AcceptedRecords, recordIndex - 2) + 1
              ELSE UpTo(AcceptedRecords, recordIndex - 2)
<1>1. recordIndex \in Nat \ {0} /\ AcceptedRecords \in SUBSET Nat
  BY RecordsRead DEF IInv, TypeOK, InHand, AcceptedRecords
<1>2. recordIndex - 1 \in AcceptedRecords <=> IsJson(line)
  BY RecordInHand DEF AcceptedRecords
<1>3. recordIndex - 2 \in Int /\ (recordIndex - 2) + 1 = recordIndex - 1
  BY <1>1
<1>4. UpTo(AcceptedRecords, (recordIndex - 2) + 1) =
        IF (recordIndex - 2) + 1 \in AcceptedRecords THEN UpTo(AcceptedRecords, recordIndex - 2) + 1
        ELSE UpTo(AcceptedRecords, recordIndex - 2)
  BY <1>1, <1>3, UpToNext
<1>5. QED
  BY <1>1, <1>2, <1>3, <1>4, UpToType

(* The batch holds the next accepted records, in their order.              *)
LEMMA BatchingStep ==
  ASSUME IInv, Reading, Batching, [Next]_vars
  PROVE  Batching'
<1> SUFFICES ASSUME pc' # "failed"
             PROVE  Batching'
  BY DEF Batching
<1>1. /\ opts' = opts /\ AcceptedRecords' = AcceptedRecords
      /\ \A r : RecordLine(r)' = RecordLine(r) /\ Rank(r)' = Rank(r)
  BY SourceFixed
<1>2. CASE Quiet
  <2>1. pc # "failed" /\ Processed' = Processed /\ UNCHANGED <<batch, recordsValidated>>
    BY <1>2, QuietStep
  <2>2. QED
    BY <1>1, <2>1 DEF Batching
<1>3. CASE RejectRecord
  <2>1. pc = "dispatch" /\ recordIndex \in Nat /\ Processed = recordIndex - 1 /\ Processed' = recordIndex
        /\ UNCHANGED <<batch, recordsValidated>>
    BY <1>3, DealStep DEF RejectRecord
  <2>2. ~IsJson(line)
    BY <1>3, <2>1, RecordInHand DEF RejectRecord
  <2>3. Processed - 1 = recordIndex - 2
    BY <2>1
  <2>4. UpTo(AcceptedRecords, Processed' - 1) = UpTo(AcceptedRecords, Processed - 1)
    BY <2>1, <2>2, <2>3, OneMoreAccepted
  <2>5. \A i \in DOMAIN batch : batch[i].record < Processed => batch[i].record < Processed'
    BY <2>1, BatchRecordsNatural DEF IInv
  <2>6. QED
    BY <1>1, <2>1, <2>4, <2>5 DEF Batching
<1>4. CASE AcceptRecord
  <2> DEFINE r == recordIndex - 1
             entry == [record |-> line.record, value |-> Clean[opts.sanitizer][line.content]]
  <2>1. pc = "dispatch" /\ recordIndex \in Nat /\ Processed = r /\ Processed' = r + 1 /\ r \in Nat
        /\ UNCHANGED recordsValidated
    BY <1>4, DealStep
  <2>2. /\ IsJson(line) /\ Accepted(r) /\ r \in 0..(Cardinality(Numbered) - 1) /\ line.record = r
        /\ line.content = RecordLine(r).text
    BY <1>4, <2>1, RecordInHand DEF AcceptRecord
  <2>3. r \in AcceptedRecords /\ Rank(r) = UpTo(AcceptedRecords, r - 1)
    BY <2>2 DEF AcceptedRecords, Rank
  <2>4. recordsValidated + Len(batch) = UpTo(AcceptedRecords, r - 1)
    BY <2>1 DEF Batching
  <2>5. UpTo(AcceptedRecords, r) = UpTo(AcceptedRecords, r - 1) + 1
    <3>1. r - 1 = recordIndex - 2
      BY <2>1
    <3>2. QED
      BY <2>1, <2>2, <3>1, OneMoreAccepted
  <2>6. /\ batch' = Append(batch, entry) /\ Len(batch) \in Nat /\ Len(batch') = Len(batch) + 1
        /\ DOMAIN batch' = 1..(Len(batch) + 1) /\ DOMAIN batch = 1..Len(batch)
        /\ batch'[Len(batch) + 1] = entry /\ \A i \in DOMAIN batch : batch'[i] = batch[i]
    BY <1>4 DEF AcceptRecord, IInv, TypeOK
  <2>7. recordsValidated + Len(batch') = UpTo(AcceptedRecords, Processed' - 1)
    <3>1. Processed' - 1 = r /\ recordsValidated \in Nat
      BY <2>1 DEF IInv, TypeOK
    <3>2. UpTo(AcceptedRecords, Processed' - 1) = UpTo(AcceptedRecords, r)
      BY <3>1
    <3>3. Len(batch') = Len(batch) + 1 /\ Len(batch) \in Nat /\ recordsValidated \in Nat
      BY <2>6, <3>1
    <3>4. recordsValidated + Len(batch') = (recordsValidated + Len(batch)) + 1
      BY <3>3
    <3>5. QED
      BY <2>4, <2>5, <3>2, <3>4
  <2>8. ASSUME NEW i \in DOMAIN batch'
        PROVE  /\ batch'[i].record \in AcceptedRecords /\ batch'[i].record < Processed'
               /\ Rank(batch'[i].record) = recordsValidated + i - 1
               /\ batch'[i].value = Clean[opts.sanitizer][RecordLine(batch'[i].record).text]
    <3>1. CASE i \in DOMAIN batch
      <4>1. batch[i].record \in Nat
        BY <3>1, BatchRecordsNatural DEF IInv
      <4>2. batch'[i] = batch[i] /\ batch[i].record < Processed
        BY <2>1, <2>6, <3>1 DEF Batching
      <4>3. batch[i].record < Processed'
        BY <2>1, <4>1, <4>2
      <4>4. QED
        BY <2>1, <3>1, <4>2, <4>3 DEF Batching
    <3>2. CASE i = Len(batch) + 1
      <4>1. batch'[i].record = r /\ batch'[i].value = Clean[opts.sanitizer][RecordLine(r).text]
        <5>1. batch'[i] = entry
          BY <2>6, <3>2
        <5>2. entry.record = r /\ entry.value = Clean[opts.sanitizer][RecordLine(r).text]
          BY <2>2
        <5>3. QED
          BY <5>1, <5>2, Zenon
      <4>2. Rank(r) = recordsValidated + i - 1
        <5>1. recordsValidated \in Nat /\ Len(batch) \in Nat
          BY <2>6 DEF IInv, TypeOK
        <5>2. QED
          BY <2>3, <2>4, <3>2, <5>1
      <4>3. QED
        BY <2>1, <2>3, <4>1, <4>2
    <3>3. i \in DOMAIN batch \/ i = Len(batch) + 1
      <4>1. i \in 1..(Len(batch) + 1) /\ Len(batch) \in Nat
        BY <2>6
      <4>2. i \in 1..Len(batch) \/ i = Len(batch) + 1
        BY <4>1
      <4>3. QED
        BY <2>6, <4>2
    <3>4. QED
      BY <3>1, <3>2, <3>3
  <2> HIDE DEF r, entry
  <2>9. QED
    BY <1>1, <2>1, <2>7, <2>8 DEF Batching
<1>5. CASE FlushBatch
  <2>1. /\ batch' = << >> /\ recordsValidated' = recordsValidated + Len(batch)
        /\ pc \in {"flush", "lastFlush"} /\ pc' # "dispatch" /\ UNCHANGED <<recordIndex, limitHit>>
    BY <1>5 DEF FlushBatch, AfterFlush
  <2>2. Processed' = Processed
    BY <2>1 DEF Processed
  <2>3. Len(batch') = 0 /\ DOMAIN batch' = {} /\ Len(batch) \in Nat /\ recordsValidated \in Nat
    BY <2>1 DEF IInv, TypeOK
  <2>4. recordsValidated' + Len(batch') = recordsValidated + Len(batch)
    BY <2>1, <2>3
  <2>5. QED
    BY <1>1, <2>1, <2>2, <2>3, <2>4 DEF Batching
<1>6. CASE ReadError \/ MaterializeError
  BY <1>6 DEF ReadError, MaterializeError
<1>7. QED
  BY <1>2, <1>3, <1>4, <1>5, <1>6 DEF Next, Step, Returned, Quiet

-----------------------------------------------------------------------------
(* Findings. *)

LEMMA ChecksAreNumbers == Checks \in SUBSET Nat
BY ChecksAssumption DEF Checks

(* Of the violations of one column and name the first is reported.         *)
LEMMA FirstNamesakeReported ==
  ASSUME NEW failing \in SUBSET Checks, NEW x \in Found(failing)
  PROVE  \E e \in Reported(failing) : e = x \/ Namesake(e, x)
<1> DEFINE S == {y \in Found(failing) : y = x \/ Namesake(y, x)}
<1>1. S \in SUBSET Nat /\ S # {}
  BY ChecksAreNumbers DEF Found
<1>2. PICK e \in S : \A y \in S : e <= y
  BY <1>1, LeastExists
<1>3. ASSUME NEW g \in Found(failing), Namesake(g, e) PROVE FALSE
  <2>1. g \in Nat /\ e \in Nat /\ x \in Nat
    BY <1>1, ChecksAreNumbers DEF Found
  <2>2. g < e /\ Namesake(g, x)
    BY <1>2, <1>3, <2>1 DEF Namesake
  <2>3. QED
    BY <1>2, <2>1, <2>2
<1>4. e \in Reported(failing)
  BY <1>2, <1>3 DEF Reported
<1>5. QED
  BY <1>2, <1>4

(* A failing check that is not reported gives way to one that is.          *)
LEMMA DisplacedByReported ==
  ASSUME NEW failing \in SUBSET Checks, NEW c \in failing, c \notin Reported(failing)
  PROVE  \E e \in Reported(failing) :
           \/ Namesake(e, c)
           \/ \E d \in failing : EndsColumn(d, c) /\ (e = d \/ Namesake(e, d))
<1>1. CASE c \in Found(failing)
  <2>1. PICK e \in Reported(failing) : e = c \/ Namesake(e, c)
    BY <1>1, FirstNamesakeReported
  <2>2. QED
    BY <2>1
<1>2. CASE c \notin Found(failing)
  <2> DEFINE S == {d \in failing : EndsColumn(d, c)}
  <2>1. S \in SUBSET Nat /\ S # {}
    BY <1>2, ChecksAreNumbers DEF Found
  <2>2. PICK d \in S : \A y \in S : d <= y
    BY <2>1, LeastExists
  <2>3. ASSUME NEW g \in failing, EndsColumn(g, d) PROVE FALSE
    <3>1. g \in Nat /\ d \in Nat /\ c \in Nat
      BY <2>1, ChecksAreNumbers
    <3>2. g < d /\ EndsColumn(g, c)
      BY <2>2, <2>3, <3>1 DEF EndsColumn
    <3>3. QED
      BY <2>2, <3>1, <3>2
  <2>4. d \in Found(failing)
    BY <2>2, <2>3 DEF Found
  <2>5. PICK e \in Reported(failing) : e = d \/ Namesake(e, d)
    BY <2>4, FirstNamesakeReported
  <2>6. QED
    BY <2>2, <2>5
<1>3. QED
  BY <1>1, <1>2

(* The records waiting are those of the batch that is flushed next.        *)
LEMMA BatchIsNext ==
  ASSUME IInv, Batching, pc \in {"flush", "lastFlush"}
  PROVE  /\ batches \in Nat /\ BatchCapacity \in Nat \ {0} /\ recordsValidated = batches * BatchCapacity
         /\ DOMAIN batch = 1..Len(batch) /\ Len(batch) \in Nat /\ Len(batch) <= BatchCapacity
         /\ \A i \in DOMAIN batch :
              /\ Nth(AcceptedRecords, batches * BatchCapacity + i) = batch[i].record
              /\ batch[i].value = Clean[opts.sanitizer][RecordLine(batch[i].record).text]
<1>1. /\ batches \in Nat /\ BatchCapacity \in Nat \ {0} /\ recordsValidated = batches * BatchCapacity
      /\ DOMAIN batch = 1..Len(batch) /\ Len(batch) \in Nat /\ Len(batch) <= BatchCapacity
  BY DEF IInv, TypeOK, Options, BatchCapacity, MicroBatchesFull
<1>2. ASSUME NEW i \in DOMAIN batch
      PROVE  Nth(AcceptedRecords, batches * BatchCapacity + i) = batch[i].record
  <2> DEFINE r == batch[i].record
  <2>1. r \in AcceptedRecords /\ Rank(r) = recordsValidated + i - 1
    BY DEF Batching
  <2>2. AcceptedRecords \in SUBSET Nat /\ r \in Nat
    BY <2>1 DEF AcceptedRecords
  <2> HIDE DEF r
  <2>3. UpTo(AcceptedRecords, r) = Rank(r) + 1
    <3>1. r - 1 \in Int /\ (r - 1) + 1 = r
      BY <2>2
    <3>2. UpTo(AcceptedRecords, (r - 1) + 1) = UpTo(AcceptedRecords, r - 1) + 1
      BY <2>1, <2>2, <3>1, UpToNext
    <3>3. QED
      BY <3>1, <3>2 DEF Rank
  <2>4. Rank(r) + 1 = batches * BatchCapacity + i
    <3>1. recordsValidated \in Nat /\ i \in Nat
      BY <1>1
    <3>2. QED
      BY <1>1, <2>1, <3>1
  <2>5. Nth(AcceptedRecords, UpTo(AcceptedRecords, r)) = r
    BY <2>1, <2>2, NthOfCount
  <2>6. QED
    BY <2>3, <2>4, <2>5 DEF r
<1>3. \A i \in DOMAIN batch : batch[i].value = Clean[opts.sanitizer][RecordLine(batch[i].record).text]
  BY DEF Batching
<1>4. QED
  BY <1>1, <1>2, <1>3

(* What a flush leaves: the earlier batches as they were, and a new one,   *)
(* whose values are those the engine was given.                            *)
LEMMA RecordsAfterFlush ==
  ASSUME IInv, Batching, FlushBatch
  PROVE  /\ batches' = batches + 1 /\ batches \in Nat
         /\ \A b \in 0..(batches - 1) : RecordsOf(b)' = RecordsOf(b)
         /\ \A b : b = batches => RecordsOf(b)' = [i \in DOMAIN batch |-> batch[i].record]
         /\ ValuesOf([i \in DOMAIN batch |-> batch[i].record]) = ValuesIn(batch)
<1>1. pc \in {"flush", "lastFlush"} /\ batches' = batches + 1 /\ recordsValidated' = recordsValidated + Len(batch)
  BY DEF FlushBatch
<1>2. BatchCapacity' = BatchCapacity /\ AcceptedRecords' = AcceptedRecords
  BY SourceFixed DEF Next, Step
<1> DEFINE n == Len(batch)
           C == BatchCapacity
           A == AcceptedRecords
           v == recordsValidated
<1>3. /\ batches \in Nat /\ C \in Nat \ {0} /\ v = batches * C /\ DOMAIN batch = 1..n /\ n \in Nat /\ n <= C
      /\ \A i \in DOMAIN batch :
              /\ Nth(A, batches * C + i) = batch[i].record
              /\ batch[i].value = Clean[opts.sanitizer][RecordLine(batch[i].record).text]
  BY <1>1, BatchIsNext
<1>4. ASSUME NEW b \in Nat
      PROVE  /\ RecordsOf(b) = [i \in 1..(IF v - b * C < C THEN v - b * C ELSE C) |-> Nth(A, b * C + i)]
             /\ RecordsOf(b)' = [i \in 1..(IF (v + n) - b * C < C THEN (v + n) - b * C ELSE C) |-> Nth(A, b * C + i)]
  BY <1>1, <1>2 DEF RecordsOf, RowsOf
<1> HIDE DEF n, C, A, v
<1>5. ASSUME NEW b \in 0..(batches - 1)
      PROVE  RecordsOf(b)' = RecordsOf(b)
  <2>1. b \in Nat /\ b + 1 <= batches
    BY <1>3
  <2>2. \A x, y, z \in Nat : x <= y => x * z <= y * z
    OBVIOUS
  <2>3. b * C + C <= batches * C
    <3>1. (b + 1) * C <= batches * C
      BY <1>3, <2>1, <2>2
    <3>2. \A x, z \in Nat : (x + 1) * z = x * z + z
      OBVIOUS
    <3>3. QED
      BY <1>3, <2>1, <3>1, <3>2
  <2>4. \A p, q, c, m \in Nat : p + c <= q => ~(q - p < c) /\ ~((q + m) - p < c)
    OBVIOUS
  <2>5. b * C \in Nat /\ v \in Nat
    BY <1>3, <2>1
  <2>6. ~(v - b * C < C) /\ ~((v + n) - b * C < C)
    BY <1>3, <2>3, <2>4, <2>5
  <2>7. QED
    BY <1>4, <2>1, <2>6
<1>6. ASSUME NEW b, b = batches
      PROVE  RecordsOf(b)' = [i \in DOMAIN batch |-> batch[i].record]
  <2>1. (v + n) - b * C = n
    <3>1. \A x, m \in Nat : (x + m) - x = m
      OBVIOUS
    <3>2. v \in Nat
      BY <1>3
    <3>3. QED
      BY <1>3, <1>6, <3>1, <3>2
  <2>2. (IF n < C THEN n ELSE C) = n
    BY <1>3
  <2>3. RecordsOf(b)' = [i \in 1..n |-> Nth(A, b * C + i)]
    BY <1>3, <1>4, <1>6, <2>1, <2>2
  <2>4. QED
    BY <1>3, <1>6, <2>3
<1>7. ValuesOf([i \in DOMAIN batch |-> batch[i].record]) = ValuesIn(batch)
  BY <1>3 DEF ValuesOf, ValuesIn
<1>8. QED
  BY <1>1, <1>3, <1>5, <1>6, <1>7

(* What is found of a batch by one check.                                  *)
LEMMA RowFindings ==
  ASSUME IInv, NEW failing \in FailingSets(ValuesIn(batch)), NEW c \in RowChecks,
         NEW records, records = [i \in DOMAIN batch |-> batch[i].record],
         ValuesOf(records) = ValuesIn(batch),
         NEW found, found = UNION {FindingsOf(v, batch) : v \in Violations(ValuesIn(batch), failing)}
  PROVE  /\ FailingRecords(records, c) # {} => c \in failing
         /\ c \in failing => FailingRecords(records, c) # {}
         /\ c \in Reported(failing) => {f.record : f \in {g \in found : g.check = c}} = FailingRecords(records, c)
         /\ c \notin Reported(failing) => {f.record : f \in {g \in found : g.check = c}} = {}
<1> DEFINE values == ValuesIn(batch)
           row(i) == [record |-> batch[i].record, batch |-> batches, check |-> c]
           F == {f.record : f \in {g \in found : g.check = c}}
<1>1. DOMAIN values = DOMAIN batch /\ DOMAIN records = DOMAIN batch
  BY DEF ValuesIn
<1>2. FailingRecords(records, c) = {batch[i].record : i \in Rows(c, values)}
  <2>1. Rows(c, values) = Fails(c, values) \cap DOMAIN batch
    BY <1>1 DEF Rows
  <2>2. FailingRecords(records, c) = {records[i] : i \in Fails(c, values) \cap DOMAIN batch}
    BY <1>1 DEF FailingRecords
  <2> HIDE DEF values
  <2>3. QED
    BY <2>1, <2>2
<1>3. c \in failing <=> Rows(c, values) # {}
  BY DEF FailingSets, BatchChecks, RowChecks
<1>4. ASSUME NEW f \in found, f.check = c
      PROVE  c \in Reported(failing) /\ \E i \in Rows(c, values) : f = row(i)
  <2>1. PICK v \in Violations(values, failing) : f \in FindingsOf(v, batch)
    OBVIOUS
  <2>2. v.check = c
    BY <1>4, <2>1 DEF FindingsOf
  <2>3. v.rows = Rows(c, values) /\ c \in failing /\ c \in Reported(failing)
    BY <2>1, <2>2 DEF Violations, Reported, Found
  <2>4. v.rows # {}
    BY <1>3, <2>3
  <2>5. QED
    BY <2>1, <2>2, <2>3, <2>4 DEF FindingsOf
<1>5. ASSUME c \in Reported(failing), NEW i \in Rows(c, values)
      PROVE  row(i) \in found
  <2> DEFINE v == [check |-> c, rows |-> Rows(c, values)]
  <2>1. v \in Violations(values, failing)
    BY <1>5 DEF Violations
  <2>2. row(i) \in FindingsOf(v, batch)
    BY <1>5 DEF FindingsOf
  <2> HIDE DEF v, row
  <2>3. QED
    BY <2>1, <2>2
<1> HIDE DEF values
<1>6. ASSUME c \in Reported(failing) PROVE F = {batch[i].record : i \in Rows(c, values)}
  <2>1. ASSUME NEW x \in F PROVE x \in {batch[i].record : i \in Rows(c, values)}
    <3>1. PICK f \in found : f.check = c /\ x = f.record
      OBVIOUS
    <3>2. PICK i \in Rows(c, values) : f = row(i)
      BY <1>4, <3>1
    <3>3. QED
      BY <3>1, <3>2
  <2>2. ASSUME NEW i \in Rows(c, values) PROVE batch[i].record \in F
    <3>1. row(i) \in found
      BY <1>5, <1>6
    <3>2. row(i).check = c /\ row(i).record = batch[i].record
      OBVIOUS
    <3>3. QED
      BY <3>1, <3>2
  <2>3. QED
    BY <2>1, <2>2
<1>7. ASSUME c \notin Reported(failing) PROVE F = {}
  BY <1>4, <1>7
<1> HIDE DEF F
<1>8. FailingRecords(records, c) # {} <=> Rows(c, values) # {}
  BY <1>2
<1>9. QED
  BY <1>2, <1>3, <1>6, <1>7, <1>8 DEF F

(* Whatever is reported leaves a finding.                                  *)
LEMMA ReportedLeavesFinding ==
  ASSUME NEW failing \in FailingSets(ValuesIn(batch)), NEW e \in Reported(failing)
  PROVE  \E v \in Violations(ValuesIn(batch), failing) :
           \E f \in FindingsOf(v, batch) : f.check = e /\ f.batch = batches
<1> DEFINE v == [check |-> e, rows |-> Rows(e, ValuesIn(batch))]
<1>1. v \in Violations(ValuesIn(batch), failing) /\ v.check = e
  BY DEF Violations
<1> HIDE DEF v
<1>2. CASE v.rows = {}
  BY <1>1, <1>2 DEF FindingsOf
<1>3. CASE v.rows # {}
  <2>1. PICK i \in v.rows : TRUE
    BY <1>3
  <2>2. [record |-> batch[i].record, batch |-> batches, check |-> e] \in FindingsOf(v, batch)
    BY <1>1, <1>3, <2>1 DEF FindingsOf
  <2>3. QED
    BY <1>1, <2>2
<1>4. QED
  BY <1>2, <1>3

(* The findings of a batch, once it is flushed.                            *)
Attributed(b, c) ==
  \/ RecordsFound(b, c) = FailingRecords(RecordsOf(b), c)
  \/ RecordsFound(b, c) = {} /\ Displaced(b, RecordsOf(b), c)

LEMMA FlushAttributes ==
  ASSUME IInv, Batching, FindingsNameTheirRecords, FlushBatch
  PROVE  FindingsNameTheirRecords'
<1>1. PICK failing \in FailingSets(ValuesIn(batch)) :
        findings' = findings \cup UNION {FindingsOf(v, batch) : v \in Violations(ValuesIn(batch), failing)}
  BY DEF FlushBatch
<1> DEFINE found == UNION {FindingsOf(v, batch) : v \in Violations(ValuesIn(batch), failing)}
           records == [i \in DOMAIN batch |-> batch[i].record]
<1>2. /\ batches' = batches + 1 /\ batches \in Nat
      /\ \A b \in 0..(batches - 1) : RecordsOf(b)' = RecordsOf(b)
      /\ (\A b : b = batches => RecordsOf(b)' = records) /\ ValuesOf(records) = ValuesIn(batch)
  BY RecordsAfterFlush
<1>3. \A f \in found : f.batch = batches
  BY DEF FindingsOf
<1>4. pc # "failed" /\ (\A f \in findings : f.batch < batches)
      /\ \A b \in 0..(batches - 1) : \A c \in RowChecks : Attributed(b, c)
  BY DEF FindingsNameTheirRecords, FlushBatch, Attributed
<1>5. lines' = lines /\ opts' = opts /\ Numbered' = Numbered
  BY SourceFixed DEF Next, Step
<1>6. findings' = findings \cup found
  BY <1>1
<1>7. ASSUME NEW b, NEW c, NEW q, q = RecordsOf(b)'
      PROVE  FailingRecords(RecordsOf(b), c)' = FailingRecords(q, c)
  BY <1>5, <1>7 DEF FailingRecords, ValuesOf, RecordLine
<1>8. ASSUME NEW b, NEW c, NEW q, q = RecordsOf(b)',
             NEW f \in findings', f.batch = b,
             \/ Namesake(f.check, c)
             \/ \E d \in Checks : /\ EndsColumn(d, c) /\ (f.check = d \/ Namesake(f.check, d))
                                  /\ d \in RowChecks => FailingRecords(q, d) # {}
      PROVE  Displaced(b, RecordsOf(b), c)'
  <2>1. \A d : FailingRecords(RecordsOf(b), d)' = FailingRecords(q, d)
    BY <1>7, <1>8
  <2>2. QED
    BY <1>8, <2>1 DEF Displaced
<1>9. failing \in SUBSET Checks
  BY DEF FailingSets, RowChecks, BatchChecks
<1> HIDE DEF found, records
<1>10. ASSUME NEW b \in 0..(batches - 1), NEW c \in RowChecks
       PROVE  Attributed(b, c)'
  <2>1. RecordsOf(b)' = RecordsOf(b) /\ Attributed(b, c) /\ b \in Int /\ b < batches
    BY <1>2, <1>4
  <2>2. \A f : f \in findings' /\ f.batch = b <=> f \in findings /\ f.batch = b
    BY <1>2, <1>3, <1>6, <2>1
  <2>3. RecordsFound(b, c)' = RecordsFound(b, c)
    BY <2>2 DEF RecordsFound
  <2>4. CASE RecordsFound(b, c) = FailingRecords(RecordsOf(b), c)
    <3>1. FailingRecords(RecordsOf(b), c)' = FailingRecords(RecordsOf(b), c)
      BY <1>7, <2>1
    <3>2. QED
      BY <2>3, <2>4, <3>1 DEF Attributed
  <2>5. CASE RecordsFound(b, c) = {} /\ Displaced(b, RecordsOf(b), c)
    <3>1. PICK f \in findings :
            /\ f.batch = b
            /\ \/ Namesake(f.check, c)
               \/ \E d \in Checks : /\ EndsColumn(d, c) /\ (f.check = d \/ Namesake(f.check, d))
                                    /\ d \in RowChecks => FailingRecords(RecordsOf(b), d) # {}
      BY <2>5 DEF Displaced
    <3>2. Displaced(b, RecordsOf(b), c)'
      BY <1>6, <1>8, <2>1, <3>1
    <3>3. QED
      BY <2>3, <2>5, <3>2 DEF Attributed
  <2>6. QED
    BY <2>1, <2>4, <2>5 DEF Attributed
<1>11. ASSUME NEW b, b = batches, NEW c \in RowChecks
       PROVE  Attributed(b, c)'
  <2>1. RecordsOf(b)' = records
    BY <1>2, <1>11
  <2>2. \A f : f \in findings' /\ f.batch = b <=> f \in found
    BY <1>2, <1>3, <1>4, <1>6, <1>11
  <2>3. RecordsFound(b, c)' = {f.record : f \in {g \in found : g.check = c}}
    BY <2>2 DEF RecordsFound
  <2>4. FailingRecords(RecordsOf(b), c)' = FailingRecords(records, c)
    BY <1>7, <2>1
  <2>5. \A d \in RowChecks :
          /\ FailingRecords(records, d) # {} => d \in failing
          /\ d \in failing => FailingRecords(records, d) # {}
          /\ d \in Reported(failing) => {f.record : f \in {g \in found : g.check = d}} = FailingRecords(records, d)
          /\ d \notin Reported(failing) => {f.record : f \in {g \in found : g.check = d}} = {}
    BY <1>2, RowFindings DEF found, records
  <2>6. CASE c \in Reported(failing) \/ c \notin failing
    <3>1. RecordsFound(b, c)' = FailingRecords(records, c)
      BY <2>3, <2>5, <2>6
    <3>2. QED
      BY <2>4, <3>1 DEF Attributed
  <2>7. CASE c \in failing /\ c \notin Reported(failing)
    <3>1. PICK e \in Reported(failing) :
            \/ Namesake(e, c)
            \/ \E d \in failing : EndsColumn(d, c) /\ (e = d \/ Namesake(e, d))
      BY <1>9, <2>7, DisplacedByReported
    <3>2. PICK f \in found : f.check = e /\ f.batch = batches
      BY <3>1, ReportedLeavesFinding DEF found
    <3>3. f \in findings' /\ f.batch = b
      BY <1>6, <1>11, <3>2
    <3>4. \/ Namesake(f.check, c)
          \/ \E d \in Checks : /\ EndsColumn(d, c) /\ (f.check = d \/ Namesake(f.check, d))
                               /\ d \in RowChecks => FailingRecords(records, d) # {}
      BY <1>9, <2>5, <3>1, <3>2
    <3>5. Displaced(b, RecordsOf(b), c)'
      BY <1>8, <2>1, <3>3, <3>4
    <3>6. RecordsFound(b, c)' = {}
      BY <2>3, <2>5, <2>7
    <3>7. QED
      BY <3>5, <3>6 DEF Attributed
  <2>8. QED
    BY <2>6, <2>7
<1>12. ASSUME NEW b \in 0..(batches' - 1), NEW c \in RowChecks
       PROVE  Attributed(b, c)'
  <2>1. b = batches \/ b \in 0..(batches - 1)
    BY <1>2
  <2>2. QED
    BY <1>10, <1>11, <2>1
<1>13. \A f \in findings' : f.batch < batches'
  <2>1. \A f \in findings : f.batch \in Nat
    BY DEF IInv, TypeOK, Finding
  <2>2. QED
    BY <1>2, <1>3, <1>4, <1>6, <2>1
<1>14. QED
  BY <1>12, <1>13 DEF FindingsNameTheirRecords, Attributed

LEMMA FindingsStep ==
  ASSUME IInv, Reading, Batching, FindingsNameTheirRecords, [Next]_vars
  PROVE  FindingsNameTheirRecords'
<1>1. CASE FlushBatch
  BY <1>1, FlushAttributes
<1>2. CASE ReadError \/ MaterializeError
  BY <1>2 DEF ReadError, MaterializeError, FindingsNameTheirRecords
<1>3. CASE Quiet \/ RejectRecord \/ AcceptRecord
  <2>1. (pc' # "failed" => pc # "failed") /\ UNCHANGED <<findings, recordsValidated, batches>>
    <3>1. CASE Quiet
      BY <3>1, QuietStep
    <3>2. CASE RejectRecord \/ AcceptRecord
      BY <3>2, DealStep
    <3>3. QED
      BY <1>3, <3>1, <3>2
  <2>2. /\ lines' = lines /\ opts' = opts /\ Numbered' = Numbered /\ AcceptedRecords' = AcceptedRecords
        /\ BatchCapacity' = BatchCapacity
    BY SourceFixed
  <2>3. ASSUME NEW b PROVE RecordsOf(b)' = RecordsOf(b)
    BY <2>1, <2>2 DEF RecordsOf, RowsOf
  <2>4. ASSUME NEW b, NEW c
        PROVE  FailingRecords(RecordsOf(b), c)' = FailingRecords(RecordsOf(b), c)
    BY <2>2, <2>3 DEF FailingRecords, ValuesOf, RecordLine
  <2>5. ASSUME NEW b, NEW c PROVE Attributed(b, c)' <=> Attributed(b, c)
    <3>1. RecordsFound(b, c)' = RecordsFound(b, c)
      BY <2>1 DEF RecordsFound
    <3>2. Displaced(b, RecordsOf(b), c)' <=> Displaced(b, RecordsOf(b), c)
      BY <2>1, <2>4 DEF Displaced
    <3>3. QED
      BY <2>4, <3>1, <3>2 DEF Attributed
  <2>6. SUFFICES ASSUME pc' # "failed" PROVE FindingsNameTheirRecords'
    BY DEF FindingsNameTheirRecords
  <2>7. (\A f \in findings : f.batch < batches) /\ \A b \in 0..(batches - 1) : \A c \in RowChecks : Attributed(b, c)
    BY <2>1, <2>6 DEF FindingsNameTheirRecords, Attributed
  <2>8. QED
    BY <2>1, <2>5, <2>7 DEF FindingsNameTheirRecords, Attributed
<1>4. QED
  BY <1>1, <1>2, <1>3 DEF Next, Step, Returned, Quiet

-----------------------------------------------------------------------------
(* Malformed records. *)

(* A rejection that the run survives is of the record in hand, as what its *)
(* line is, under the policy for such records.                             *)
LEMMA Rejection ==
  ASSUME IInv, Reading, RejectRecord, pc' # "failed", NEW r, r = recordIndex - 1
  PROVE  /\ ~Accepted(r) /\ PolicyOf(r).mode # "failFast"
         /\ malformed' = IF Collects(PolicyOf(r))
                         THEN malformed \cup {[record |-> r, kind |-> KindOf(r)]} ELSE malformed
<1>1. pc = "dispatch"
  BY DEF RejectRecord
<1>2. ~IsJson(line)
  BY <1>1, RecordInHand DEF RejectRecord
<1>3. /\ ~Accepted(r) /\ line.record = r
      /\ KindOf(r) = IF line.exceeded THEN "oversized" ELSE IF ~line.utf8 THEN "utf8" ELSE "json"
  BY <1>1, <1>2, RecordInHand
<1>4. PolicyOf(r) = IF line.exceeded THEN opts.oversized ELSE opts.malformed
  BY <1>3 DEF PolicyOf
<1>5. ASSUME NEW kind, NEW policy, Reject(kind, policy) \/ Abort(policy)
      PROVE  /\ policy.mode # "failFast"
             /\ malformed' = IF Collects(policy) THEN malformed \cup {[record |-> line.record, kind |-> kind]}
                             ELSE malformed
  BY <1>5 DEF Reject, Abort
<1>6. CASE line.exceeded
  <2>1. Reject("oversized", opts.oversized) \/ Abort(opts.oversized)
    BY <1>1, <1>2, <1>6, RecordInHand DEF RejectRecord
  <2>2. QED
    BY <1>3, <1>4, <1>5, <1>6, <2>1
<1>7. CASE ~line.exceeded /\ ~line.utf8
  <2>1. Reject("utf8", opts.malformed) \/ Abort(opts.malformed)
    BY <1>7 DEF RejectRecord
  <2>2. QED
    BY <1>3, <1>4, <1>5, <1>7, <2>1
<1>8. CASE ~line.exceeded /\ line.utf8
  <2>1. Reject("json", opts.malformed) \/ Abort(opts.malformed)
    BY <1>8 DEF RejectRecord
  <2>2. QED
    BY <1>3, <1>4, <1>5, <1>8, <2>1
<1>9. QED
  BY <1>6, <1>7, <1>8

LEMMA MalformedNumbered ==
  ASSUME TypeOK
  PROVE  \A m \in malformed : m.record \in Nat
BY DEF TypeOK, Malformed

LEMMA CollectingStep ==
  ASSUME IInv, Reading, Collecting, [Next]_vars
  PROVE  Collecting'
<1>1. CASE Quiet \/ AcceptRecord \/ FlushBatch \/ ReadError \/ MaterializeError
  <2>1. malformed' = malformed
    BY <1>1, QuietStep DEF AcceptRecord, FlushBatch, ReadError, MaterializeError
  <2>2. pc' # "failed" => pc # "failed" /\ (Processed' = Processed \/ Processed' = Processed + 1) /\ Processed \in Int
    <3>1. CASE Quiet
      BY <3>1, QuietStep
    <3>2. CASE AcceptRecord
      BY <3>2, DealStep
    <3>3. CASE FlushBatch
      BY <3>3 DEF FlushBatch, AfterFlush, Processed, IInv, TypeOK
    <3>4. CASE ReadError \/ MaterializeError
      BY <3>4 DEF ReadError, MaterializeError
    <3>5. QED
      BY <1>1, <3>1, <3>2, <3>3, <3>4
  <2>3. ASSUME pc' # "failed", NEW m \in malformed
        PROVE  m.record < Processed'
    <3>1. m.record \in Nat /\ m.record < Processed
      BY <2>2, <2>3, MalformedNumbered DEF Collecting, IInv
    <3>2. QED
      BY <2>2, <2>3, <3>1
  <2>4. QED
    BY <2>1, <2>3 DEF Collecting
<1>2. CASE RejectRecord
  <2> DEFINE r == recordIndex - 1
  <2>1. pc = "dispatch" /\ r \in Nat /\ Processed = r /\ Processed' = r + 1
    BY <1>2, DealStep
  <2>2. CASE pc' = "failed"
    <3>1. malformed' = malformed
      BY <1>2, <2>2 DEF RejectRecord, Reject, Abort
    <3>2. QED
      BY <2>2, <3>1 DEF Collecting
  <2>3. CASE pc' # "failed"
    <3>1. malformed' = IF Collects(PolicyOf(r)) THEN malformed \cup {[record |-> r, kind |-> KindOf(r)]}
                       ELSE malformed
      BY <1>2, <2>3, Rejection
    <3> HIDE DEF r
    <3>2. IsFiniteSet(malformed')
      BY <3>1, FS_AddElement DEF Collecting
    <3>3. ASSUME NEW m \in malformed'
          PROVE  m.record < Processed'
      <4>1. CASE m \in malformed
        <5>1. m.record \in Nat /\ m.record < r
          BY <2>1, <4>1, MalformedNumbered DEF Collecting, IInv
        <5>2. QED
          BY <2>1, <5>1
      <4>2. CASE m = [record |-> r, kind |-> KindOf(r)]
        BY <2>1, <4>2
      <4>3. QED
        BY <3>1, <4>1, <4>2
    <3>4. QED
      BY <3>2, <3>3 DEF Collecting
  <2>4. QED
    BY <2>2, <2>3
<1>3. QED
  BY <1>1, <1>2 DEF Next, Step, Returned, Quiet

(* What the policy owes a record that has been rejected, given the list.   *)
Owed(r, list) ==
  /\ PolicyOf(r).mode # "failFast"
  /\ (\E m \in list : m.record = r) <=>
       (PolicyOf(r).mode = "collect" /\ Cardinality({m \in list : m.record < r}) < PolicyOf(r).max)

LEMMA PolicyStep ==
  ASSUME IInv, Reading, Collecting, PolicyHolds, [Next]_vars
  PROVE  PolicyHolds'
<1> SUFFICES ASSUME pc' # "failed"
             PROVE  PolicyHolds'
  BY DEF PolicyHolds
<1>1. \A r : (Accepted(r)' <=> Accepted(r)) /\ KindOf(r)' = KindOf(r) /\ PolicyOf(r)' = PolicyOf(r)
  BY SourceFixed
<1>2. ASSUME \A m \in malformed' : ~Accepted(m.record) /\ m.kind = KindOf(m.record),
             \A r \in 0..(Processed' - 1) : ~Accepted(r) => Owed(r, malformed')
      PROVE  PolicyHolds'
  BY <1>1, <1>2 DEF PolicyHolds, CollectedBefore, Owed
<1>3. pc # "failed" => /\ \A m \in malformed : ~Accepted(m.record) /\ m.kind = KindOf(m.record)
                       /\ \A r \in 0..(Processed - 1) : ~Accepted(r) => Owed(r, malformed)
  BY DEF PolicyHolds, CollectedBefore, Owed
<1>4. CASE Quiet \/ FlushBatch
  <2>1. pc # "failed" /\ malformed' = malformed /\ Processed' = Processed
    <3>1. CASE Quiet
      BY <3>1, QuietStep
    <3>2. CASE FlushBatch
      BY <3>2 DEF FlushBatch, AfterFlush, Processed
    <3>3. QED
      BY <1>4, <3>1, <3>2
  <2>2. QED
    BY <1>2, <1>3, <2>1
<1>5. CASE AcceptRecord
  <2>1. pc = "dispatch" /\ recordIndex \in Nat /\ Processed = recordIndex - 1 /\ Processed' = recordIndex
        /\ malformed' = malformed
    BY <1>5, DealStep DEF AcceptRecord
  <2>2. Accepted(recordIndex - 1)
    BY <1>5, <2>1, RecordInHand DEF AcceptRecord
  <2>3. \A r \in 0..(Processed' - 1) : r \in 0..(Processed - 1) \/ r = recordIndex - 1
    BY <2>1
  <2>4. QED
    BY <1>2, <1>3, <2>1, <2>2, <2>3
<1>6. CASE RejectRecord
  <2> DEFINE entry(r) == [record |-> r, kind |-> KindOf(r)]
  <2>1. PICK r \in Nat : r = recordIndex - 1 /\ pc = "dispatch" /\ Processed = r /\ Processed' = r + 1
    BY <1>6, DealStep
  <2>2. /\ ~Accepted(r) /\ PolicyOf(r).mode # "failFast"
        /\ malformed' = IF Collects(PolicyOf(r)) THEN malformed \cup {entry(r)} ELSE malformed
    BY <1>6, <2>1, Rejection
  <2>3. entry(r).record = r /\ entry(r).kind = KindOf(r)
    OBVIOUS
  <2>4. \A m \in malformed : m.record \in Nat /\ m.record < r
    BY <2>1, MalformedNumbered DEF Collecting, IInv
  <2> HIDE DEF entry
  <2>5. \A m \in malformed' : ~Accepted(m.record) /\ m.kind = KindOf(m.record)
    BY <1>3, <2>1, <2>2, <2>3
  <2>6. ASSUME NEW q \in 0..(r - 1), ~Accepted(q)
        PROVE  Owed(q, malformed')
    <3>1. Owed(q, malformed)
      BY <1>3, <2>1, <2>6
    <3>2. ~(r < q) /\ r # q
      BY <2>1
    <3>3. {m \in malformed' : m.record < q} = {m \in malformed : m.record < q}
      BY <2>2, <2>3, <3>2
    <3>4. (\E m \in malformed' : m.record = q) <=> (\E m \in malformed : m.record = q)
      BY <2>2, <2>3, <3>2
    <3>5. QED
      BY <3>1, <3>3, <3>4 DEF Owed
  <2>7. Owed(r, malformed')
    <3>1. ~(r < r) /\ \A m \in malformed : m.record # r /\ m.record < r
      BY <2>1, <2>4
    <3>2. {m \in malformed' : m.record < r} = malformed
      BY <2>2, <2>3, <3>1
    <3>3. (\E m \in malformed' : m.record = r) <=> Collects(PolicyOf(r))
      BY <2>2, <2>3, <3>1
    <3>4. QED
      BY <2>2, <3>2, <3>3 DEF Owed, Collects
  <2>8. \A q \in 0..(Processed' - 1) : q \in 0..(r - 1) \/ q = r
    BY <2>1
  <2>9. QED
    BY <1>2, <2>5, <2>6, <2>7, <2>8
<1>7. CASE ReadError \/ MaterializeError
  BY <1>7 DEF ReadError, MaterializeError
<1>8. QED
  BY <1>4, <1>5, <1>6, <1>7 DEF Next, Step, Returned, Quiet

-----------------------------------------------------------------------------
(* The limits. *)

(* The bytes of the first lines add up.                                    *)
LEMMA BytesUpToSum ==
  ASSUME lines \in Seq(Line)
  PROVE  /\ BytesUpTo \in [0..Len(lines) -> Nat]
         /\ BytesUpTo[0] = 0
         /\ \A n \in 1..Len(lines) : BytesUpTo[n] = BytesUpTo[n - 1] + lines[n].bytes
<1> DEFINE N == Len(lines)
           g == [p \in (1..N) \X Nat |-> p[2] + lines[p[1]].bytes]
           IsSum(f) == f = [n \in 0..N |-> IF n = 0 THEN 0 ELSE f[n - 1] + lines[n].bytes]
<1>1. N \in Nat /\ \A n \in 1..N : lines[n].bytes \in Nat
  <2>1. \A n \in 1..N : lines[n] \in Line
    OBVIOUS
  <2>2. \A l \in Line : l.bytes \in Nat
    BY DEF Line
  <2>3. QED
    BY <2>1, <2>2
<1> HIDE DEF N
<1>2. g \in [(1..N) \X Nat -> Nat]
  BY <1>1
<1>3. PICK f \in [0..N -> Nat] : f[0] = 0 /\ \A n \in 1..N : f[n] = g[<<n, f[n - 1]>>]
  <2> DEFINE V == Nat
  <2>1. 0 \in V /\ g \in [(1..N) \X V -> V]
    BY <1>2
  <2> HIDE DEF g, V
  <2>2. \E h \in [0..N -> V] : Recursion(h, N, 0, g)
    BY <1>1, <2>1, RecursionUpTo
  <2>3. QED
    BY <2>2 DEF V, Recursion
<1>4. \A n \in 1..N : f[n] = f[n - 1] + lines[n].bytes
  <2>1. ASSUME NEW n \in 1..N PROVE g[<<n, f[n - 1]>>] = f[n - 1] + lines[n].bytes
    <3>1. n - 1 \in 0..N
      BY <1>1
    <3>2. f[n - 1] \in Nat
      BY <3>1
    <3>3. QED
      BY <3>2
  <2>2. QED
    BY <1>3, <2>1
<1>5. IsSum(f)
  <2>1. \A n \in 0..N : f[n] = IF n = 0 THEN 0 ELSE f[n - 1] + lines[n].bytes
    BY <1>1, <1>3, <1>4
  <2>2. QED
    BY <2>1
<1>6. IsSum(BytesUpTo)
  <2>1. BytesUpTo = CHOOSE h : IsSum(h)
    BY DEF BytesUpTo, N
  <2> HIDE DEF IsSum
  <2>2. QED
    BY <1>5, <2>1
<1>7. \A n \in 0..N : BytesUpTo[n] = IF n = 0 THEN 0 ELSE BytesUpTo[n - 1] + lines[n].bytes
  BY <1>6
<1>8. BytesUpTo[0] = 0 /\ \A n \in 1..N : BytesUpTo[n] = BytesUpTo[n - 1] + lines[n].bytes
  BY <1>1, <1>7
<1>9. BytesUpTo \in [0..N -> Nat]
  <2> DEFINE S == {n \in 0..N : BytesUpTo[n] \in Nat}
  <2>1. 0 \in S
    BY <1>1, <1>8
  <2>2. ASSUME NEW i \in 0..(N - 1), i \in S PROVE i + 1 \in S
    <3>1. i + 1 \in 1..N /\ i + 1 \in 0..N /\ (i + 1) - 1 = i
      BY <1>1
    <3>2. BytesUpTo[i + 1] = BytesUpTo[i] + lines[i + 1].bytes
      BY <1>8, <3>1
    <3>3. QED
      BY <1>1, <2>2, <3>1, <3>2
  <2>3. 0..N \subseteq S
    <3> HIDE DEF S
    <3>1. QED
      BY <1>1, <2>1, <2>2, InductionUpTo
  <2>4. \A n \in 0..N : BytesUpTo[n] \in Nat
    BY <2>3
  <2>5. QED
    BY <1>6, <2>4
<1>10. QED
  BY <1>8, <1>9 DEF N

LEMMA BytesUpToMonotonic ==
  ASSUME lines \in Seq(Line), NEW n \in 0..Len(lines), NEW m \in 0..n
  PROVE  BytesUpTo[m] <= BytesUpTo[n]
<1> DEFINE S == {k \in 0..(n - m) : BytesUpTo[m] <= BytesUpTo[m + k]}
<1>1. Len(lines) \in Nat /\ n - m \in Nat
  OBVIOUS
<1>2. \A k \in 0..Len(lines) : BytesUpTo[k] \in Nat
  BY BytesUpToSum
<1>3. 0 \in S
  <2>1. m + 0 = m /\ m \in 0..Len(lines)
    BY <1>1
  <2>2. BytesUpTo[m] <= BytesUpTo[m + 0]
    BY <1>2, <2>1
  <2>3. QED
    BY <1>1, <2>2
<1>4. ASSUME NEW k \in 0..((n - m) - 1), k \in S PROVE k + 1 \in S
  <2>1. /\ m + (k + 1) \in 1..Len(lines) /\ (m + (k + 1)) - 1 = m + k /\ m + k \in 0..Len(lines)
        /\ m \in 0..Len(lines) /\ k + 1 \in 0..(n - m)
    BY <1>1
  <2>2. BytesUpTo[m + (k + 1)] = BytesUpTo[m + k] + lines[m + (k + 1)].bytes
    BY <2>1, BytesUpToSum
  <2>3. lines[m + (k + 1)].bytes \in Nat
    <3>1. lines[m + (k + 1)] \in Line
      BY <2>1
    <3>2. QED
      BY <3>1 DEF Line
  <2>4. BytesUpTo[m] \in Nat /\ BytesUpTo[m + k] \in Nat /\ BytesUpTo[m] <= BytesUpTo[m + k]
    BY <1>2, <1>4, <2>1
  <2>5. BytesUpTo[m] <= BytesUpTo[m + (k + 1)]
    BY <2>2, <2>3, <2>4
  <2>6. QED
    BY <2>1, <2>5
<1>5. 0..(n - m) \subseteq S
  <2> HIDE DEF S
  <2>1. QED
    BY <1>1, <1>3, <1>4, InductionUpTo
<1>6. n - m \in S /\ m + (n - m) = n
  BY <1>1, <1>5
<1>7. QED
  BY <1>6

LEMMA WithinLess ==
  ASSUME TypeOK, NEW n \in Int, Within(n), NEW m \in Int, m <= n
  PROVE  Within(m)
<1>1. opts.maxRecords # None => opts.maxRecords \in Nat
  BY DEF TypeOK, Options
<1>2. opts.maxRecords # None => m <= opts.maxRecords
  BY <1>1 DEF Within
<1>3. \A r \in 0..(m - 1) : r \in 0..(n - 1)
  OBVIOUS
<1>4. QED
  BY <1>2, <1>3 DEF Within

(* Below the limits there is room for one more record: the bytes through   *)
(* the last one are among those consumed.                                  *)
LEMMA RoomForOneMore ==
  ASSUME IInv, Reading, Limiting, pc = "check", ~RecordsAtLimit, ~BytesAtLimit
  PROVE  Within(recordIndex + 1)
<1>1. /\ recordIndex \in Nat /\ bytesConsumed \in Nat /\ pos \in 0..Len(lines) /\ lines \in Seq(Line)
      /\ opts.maxRecords \in Nat \cup {None} /\ opts.maxBytes \in Nat \cup {None}
  BY DEF IInv, TypeOK, Options
<1>2. Processed = recordIndex
  BY DEF IInv, InHand, Processed
<1>3. opts.maxRecords # None => recordIndex + 1 <= opts.maxRecords
  BY <1>1 DEF RecordsAtLimit
<1>4. BytesThrough(recordIndex) <= bytesConsumed /\ BytesThrough(recordIndex) \in Nat
  <2>1. CASE recordIndex = 0
    BY <1>1, <2>1 DEF BytesThrough
  <2>2. CASE recordIndex # 0
    <3> DEFINE n == Nth(Numbered, recordIndex)
    <3>1. recordIndex - 1 \in 0..(recordIndex - 1) /\ (recordIndex - 1) + 1 = recordIndex
      BY <1>1, <2>2
    <3>2. n \in Numbered /\ n <= pos
      BY <3>1, RecordsRead DEF IInv
    <3>3. n \in 0..pos /\ n \in 0..Len(lines)
      BY <1>1, <3>2 DEF Numbered
    <3>4. BytesUpTo[n] <= BytesUpTo[pos] /\ BytesUpTo[n] \in Nat
      BY <1>1, <3>3, BytesUpToSum, BytesUpToMonotonic
    <3>5. QED
      BY <2>2, <3>4 DEF Limiting, BytesThrough
  <2>3. QED
    BY <2>1, <2>2
<1>5. opts.maxBytes # None => BytesThrough(recordIndex) < opts.maxBytes
  BY <1>1, <1>4 DEF BytesAtLimit
<1>6. \A r \in 0..((recordIndex + 1) - 1) : r \in 0..(recordIndex - 1) \/ r = recordIndex
  BY <1>1
<1>7. QED
  BY <1>2, <1>3, <1>5, <1>6 DEF Limiting, Within

LEMMA LimitingStep ==
  ASSUME IInv, Reading, Limiting, [Next]_vars
  PROVE  Limiting'
<1>1. /\ lines' = lines /\ BytesUpTo' = BytesUpTo /\ \A n : Within(n)' <=> Within(n)
  BY SourceFixed
<1>2. recordIndex \in Nat /\ lines \in Seq(Line) /\ pos \in 0..Len(lines)
  BY DEF IInv, TypeOK
<1>3. bytesConsumed' = BytesUpTo[pos']
  <2>1. CASE Consume
    <3>1. pos' = pos + 1 /\ bytesConsumed' = bytesConsumed + lines[pos + 1].bytes /\ pos # Len(lines)
      BY <2>1 DEF Consume, AtEnd
    <3>2. pos + 1 \in 1..Len(lines) /\ (pos + 1) - 1 = pos
      BY <1>2, <3>1
    <3>3. BytesUpTo[pos + 1] = BytesUpTo[pos] + lines[pos + 1].bytes
      BY <1>2, <3>2, BytesUpToSum
    <3>4. QED
      BY <3>1, <3>3 DEF Limiting
  <2>2. CASE UNCHANGED sourceVars
    BY <2>2 DEF Limiting
  <2>3. QED
    BY <2>1, <2>2 DEF Next, Step, CheckLimits, ReadBlank, SkipBlank, ReadRecord, Emit, ReadEnd, PeekRecord,
       RejectRecord, AcceptRecord, FlushBatch, FlushNothing, Finish, ReadError, MaterializeError, Returned
<1>4. ASSUME NEW p \in Int, NEW i \in Int, Processed' = p, recordIndex' = i, Within(p),
             pc' = "dispatch" => Within(i), pc' = "read" => Within(i + 1)
      PROVE  Limiting'
  BY <1>1, <1>3, <1>4 DEF Limiting
<1>5. Processed \in Int /\ Within(Processed)
  BY <1>2 DEF Processed, Limiting
<1>6. CASE CheckLimits
  <2>1. /\ pc = "check" /\ pc' \in {"peek", "read"} /\ UNCHANGED recordIndex
        /\ pc' = "read" => ~RecordsAtLimit /\ ~BytesAtLimit
    BY <1>6 DEF CheckLimits
  <2>2. Processed' = Processed
    BY <1>6, QuietStep DEF Quiet
  <2>3. pc' = "read" => Within(recordIndex + 1)
    BY <2>1, RoomForOneMore
  <2>4. QED
    BY <1>2, <1>4, <1>5, <2>1, <2>2, <2>3
<1>7. CASE ReadRecord
  <2>1. pc = "read" /\ pc' = "dispatch" /\ recordIndex' = recordIndex + 1
    BY <1>7 DEF ReadRecord, Emit
  <2>2. Processed' = Processed
    BY <1>7, QuietStep DEF Quiet
  <2>3. Within(recordIndex + 1)
    BY <2>1 DEF Limiting
  <2>4. QED
    BY <1>2, <1>4, <1>5, <2>1, <2>2, <2>3
<1>8. CASE ReadBlank \/ ReadEnd \/ FlushNothing \/ Finish \/ UNCHANGED vars
  <2>1. Processed' = Processed
    BY <1>8, QuietStep DEF Quiet
  <2>2. UNCHANGED recordIndex /\ (pc' = pc \/ pc' \notin {"dispatch", "read"})
    BY <1>8 DEF ReadBlank, SkipBlank, ReadEnd, FlushNothing, AfterFlush, Finish
  <2>3. QED
    BY <1>2, <1>4, <1>5, <2>1, <2>2 DEF Limiting
<1>9. CASE PeekRecord
  <2>1. Processed' = Processed
    BY <1>9, QuietStep DEF Quiet
  <2>2. pc' = "lastFlush" /\ recordIndex' = recordIndex + 1
    BY <1>9 DEF PeekRecord, Emit
  <2>3. QED
    BY <1>2, <1>4, <1>5, <2>1, <2>2
<1>10. CASE RejectRecord \/ AcceptRecord
  <2>1. pc = "dispatch" /\ Processed' = recordIndex /\ UNCHANGED recordIndex
    BY <1>10, DealStep
  <2>2. pc' \notin {"dispatch", "read"}
    BY <1>10 DEF RejectRecord, Reject, Abort, AcceptRecord
  <2>3. Within(recordIndex)
    BY <2>1 DEF Limiting
  <2>4. QED
    BY <1>2, <1>4, <2>1, <2>2, <2>3
<1>11. CASE FlushBatch \/ ReadError \/ MaterializeError
  <2>1. UNCHANGED <<recordIndex, limitHit>> /\ pc # "dispatch" /\ pc' \notin {"dispatch", "read"}
    BY <1>11 DEF FlushBatch, AfterFlush, ReadError, MaterializeError
  <2>2. Processed' = Processed
    BY <2>1 DEF Processed
  <2>3. QED
    BY <1>2, <1>4, <1>5, <2>1, <2>2
<1>12. QED
  BY <1>6, <1>7, <1>8, <1>9, <1>10, <1>11 DEF Next, Step, Returned

LEMMA EndingStep ==
  ASSUME IInv, Ending, [Next]_vars
  PROVE  Ending'
<1>1. AtEnd' <=> (pos' = Len(lines))
  BY SourceFixed DEF AtEnd
<1>2. CASE PeekRecord
  <2>1. limitHit' # None
    BY <1>2, NoneAssumption DEF PeekRecord
  <2>2. QED
    BY <1>2, <2>1 DEF PeekRecord, Ending
<1>3. CASE ReadEnd
  BY <1>1, <1>3 DEF ReadEnd, AtEnd, Ending
<1>4. CASE FlushBatch \/ FlushNothing \/ Finish \/ ReadError \/ MaterializeError
  BY <1>1, <1>4 DEF FlushBatch, FlushNothing, AfterFlush, Finish, ReadError, MaterializeError, AtEnd, Ending
<1>5. CASE CheckLimits \/ ReadBlank \/ ReadRecord \/ RejectRecord \/ AcceptRecord
  BY <1>5 DEF CheckLimits, ReadBlank, ReadRecord, RejectRecord, Reject, Abort, AcceptRecord, Ending
<1>6. CASE UNCHANGED vars
  BY <1>1, <1>6 DEF AtEnd, Ending
<1>7. QED
  BY <1>2, <1>3, <1>4, <1>5, <1>6 DEF Next, Step, Returned

-----------------------------------------------------------------------------
LEMMA InitRInv ==
  ASSUME Init
  PROVE  RInv
<1>1. /\ recordIndex = 0 /\ pos = 0 /\ bytesConsumed = 0 /\ pc = "check" /\ limitHit = None /\ report = None
      /\ recordsValidated = 0 /\ batch = << >> /\ findings = {} /\ malformed = {}
  BY DEF Init, SourceInit
<1>2. TypeOK
  BY InitIInv DEF IInv
<1>3. Processed = 0
  BY <1>1 DEF Processed
<1>4. Numbered \in SUBSET Nat /\ (\A i \in Numbered : 0 < i) /\ AcceptedRecords \in SUBSET Nat
  BY <1>2 DEF Numbered, AcceptedRecords, TypeOK
<1>5. UpTo(Numbered, 0) = 0
  BY <1>4, UpToNone
<1>6. UpTo(AcceptedRecords, 0 - 1) = 0
  <2>1. \A r \in AcceptedRecords : 0 - 1 < r
    BY <1>4
  <2>2. QED
    BY <1>4, <2>1, UpToNone
<1>7. Reading
  BY <1>1, <1>5 DEF Reading
<1>8. Batching
  BY <1>1, <1>3, <1>6 DEF Batching
<1>9. FindingsNameTheirRecords
  <2>1. findings = {} /\ batches = 0
    BY <1>1 DEF Init
  <2>2. QED
    BY <2>1 DEF FindingsNameTheirRecords
<1>10. Collecting /\ PolicyHolds
  BY <1>1, <1>3, FS_EmptySet DEF Collecting, PolicyHolds
<1>11. Limiting
  <2>1. opts.maxRecords # None => 0 <= opts.maxRecords
    BY <1>2 DEF TypeOK, Options
  <2>2. BytesUpTo[0] = 0
    BY <1>2, BytesUpToSum DEF TypeOK
  <2>3. QED
    BY <1>1, <1>3, <2>1, <2>2 DEF Limiting, Within
<1>12. Ending
  BY <1>1 DEF Ending
<1>13. QED
  BY <1>7, <1>8, <1>9, <1>10, <1>11, <1>12 DEF RInv

(* Which records were validated, rejected and left out is inductive over   *)
(* the counts of the first half.                                           *)
THEOREM RecordsFollowed == Spec => []RInv
<1>1. Init => RInv
  BY InitRInv
<1>2. IInv /\ RInv /\ [Next]_vars => RInv'
  BY ReadingStep, BatchingStep, FindingsStep, CollectingStep, PolicyStep, LimitingStep, EndingStep DEF RInv
<1>3. QED
  BY <1>1, <1>2, Invariance, PTL DEF Spec

(* In each batch a row check has findings that name all the records of the *)
(* batch that fail it and no others, by their numbers in the source,       *)
(* whatever blank or malformed lines came before them; or it has none, and *)
(* then a check that displaced it left its trace among the findings of the *)
(* same batch (batch.rs:37-43, 57-58, validator.rs:199-223).               *)
THEOREM FindingsAttributed == Spec => []FindingsNameTheirRecords
<1>1. RInv => FindingsNameTheirRecords
  BY DEF RInv
<1>2. QED
  BY <1>1, RecordsFollowed, PTL

(* Each rejected record is collected or not as its policy says, with one   *)
(* list for both policies, and fail-fast lets none through.                *)
THEOREM PolicyFollowed == Spec => []PolicyHolds
<1>1. RInv => PolicyHolds
  BY DEF RInv
<1>2. QED
  BY <1>1, RecordsFollowed, PTL

(* No record is dealt with past max_records, nor one whose predecessor     *)
(* reached max_bytes, blank lines counted.                                 *)
THEOREM LimitsFollowed == Spec => []LimitsHold
<1>1. RInv => LimitsHold
  BY DEF RInv, Limiting, Within, LimitsHold
<1>2. QED
  BY <1>1, RecordsFollowed, PTL

(* A report is marked as truncated exactly when it leaves records out.     *)
THEOREM TruncationMarked == Spec => []TruncationIsHonest
<1>1. ASSUME IInv, RInv
      PROVE  TruncationIsHonest
  <2> SUFFICES ASSUME report # None
               PROVE  /\ (limitHit # None) <=> (recordsValidated + malformedCount < Cardinality(Numbered))
                      /\ limitHit = None => AtEnd
    BY DEF TruncationIsHonest
  <2>1. pc = "done" /\ batch = << >> /\ (limitHit = None => AtEnd)
    BY <1>1 DEF IInv, InHand, RInv, Ending
  <2>2. Processed = recordsValidated + Len(batch) + malformedCount
    BY <1>1, <2>1 DEF IInv, EveryRecordAccounted
  <2>3. /\ recordIndex \in Nat /\ recordsValidated \in Nat /\ malformedCount \in Nat
        /\ recordIndex <= Cardinality(Numbered) /\ Cardinality(Numbered) \in Nat
        /\ AtEnd => recordIndex = Cardinality(Numbered)
    BY <1>1, RecordsRead DEF IInv, TypeOK, RInv
  <2>4. Len(batch) = 0
    BY <2>1
  <2>5. Processed = recordsValidated + malformedCount
    BY <2>2, <2>3, <2>4
  <2>6. CASE limitHit = None
    BY <2>1, <2>3, <2>5, <2>6 DEF Processed
  <2>7. CASE limitHit # None
    BY <2>1, <2>3, <2>5, <2>7 DEF Processed
  <2>8. QED
    BY <2>6, <2>7
<1>2. QED
  BY <1>1, Invariance, RecordsFollowed, PTL
=============================================================================
