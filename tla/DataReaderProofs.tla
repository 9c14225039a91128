-------------------------- MODULE DataReaderProofs --------------------------
(***************************************************************************)
(* For every table, path, batch size and number of commits: the state is   *)
(* well typed, a Delta read and an Iceberg read give the snapshot asked    *)
(* for whatever is written meanwhile, and batches and frames are a         *)
(* partition of what was read or pushed.                                   *)
(***************************************************************************)
EXTENDS DataReader, EnumerationProofs, SequenceTheorems

(* Rows and frames of the row buffer.                                      *)
FrameRow == [number : Nat, columns : SUBSET UNION RowKinds, nulls : SUBSET UNION RowKinds]
InPlace(rows, n) == Len(rows) = n /\ \A i \in 1..n : rows[i].number = i
Window == IF windowSize = 0 THEN 1 ELSE windowSize

(* Every row pushed is in a frame or still in the buffer, in its place,    *)
(* and the buffer stays below the window, so that one more row fits.       *)
RowInv ==
  /\ windowSize \in Nat
  /\ buffer \in Seq(Row) /\ pushed \in Seq(Row) /\ frames \in Seq(Seq(FrameRow))
  /\ schema \subseteq UNION RowKinds
  /\ pushed # << >> => schema = pushed[1].columns
  /\ pushed = << >> => buffer = << >> /\ \A i \in DOMAIN frames : frames[i] = << >>
  /\ Len(buffer) < Window
  /\ InPlace(Concat(frames) \o buffer, Len(pushed))
  /\ \A i \in DOMAIN frames :
       /\ Len(frames[i]) <= Window
       /\ \A j \in DOMAIN frames[i] : frames[i][j].columns = pushed[1].columns

(* The steps of the two table readers. *)
DeltaSteps == {"scanList", "scan", "list", "replay", "load"}
IcebergSteps == {"hint", "metadata", "resolve", "manifests", "files", "data"}

(* A reader runs on its own paths, and reads no row before its last step.  *)
ControlInv ==
  /\ request \in Requests /\ frame \in Seq(Nat) /\ pc \in Steps
  /\ contents \in Seq(Nat)
  /\ pc \in DeltaSteps => Reader(path) = "delta" /\ request.kind \in {"latest", "version", "asOf"}
  /\ pc \in {"scanList", "scan"} => request.kind = "asOf"
  /\ pc \in IcebergSteps => Reader(path) = "iceberg"
  /\ pc \in (DeltaSteps \cup IcebergSteps) \ {"load", "data"} => frame = << >>

(* Of what is cached the beginning has been handed out. *)
BatchInv ==
  /\ batchSize \in Nat \ {0}
  /\ offset \in Nat
  /\ reports \in Seq(Seq(Nat))
  /\ \A i \in DOMAIN reports : reports[i] # << >> /\ Len(reports[i]) <= batchSize
  /\ IF pc \in {"slice", "ended"}
     THEN /\ cached = frame /\ offset <= Len(frame)
          /\ Concat(reports) = SubSeq(frame, 1, offset)
          /\ pc = "ended" => offset = Len(frame)
     ELSE cached = Nothing /\ offset = 0 /\ reports = << >>

(* A log that lost a commit has later ones. *)
DeltaTableInv ==
  /\ commits \in Seq(Commit) /\ vacuumed \subseteq Nat
  /\ firstJson \in Nat /\ (firstJson = 0 \/ firstJson <= LastVersion)

(* What holds of a log read from its first commit on, and of one read for  *)
(* the latest version or a version given.                                  *)
Traced == deltaSeen.whole \/ request.kind # "asOf"

(* A scan has gone through commits up to the time; what it finds is what   *)
(* the time means. A replay has built the snapshot before the next commit  *)
(* listed, or a part of it, and a load moves it into the frame.            *)
Scanned(k) ==
  /\ listed = k..deltaSeen.last
  /\ \A v \in 0..(k - 1) : ~Exceeds(v)
  /\ upTo = IF k = 0 THEN 0 ELSE k - 1
Replayed(k) ==
  /\ listed = k..DeltaTarget
  /\ active \subseteq DeltaSnapshot(k - 1)
  /\ deltaSeen.whole => active = DeltaSnapshot(k - 1)
DeltaReadInv ==
  /\ listed \subseteq Nat /\ active \subseteq Nat /\ upTo \in Nat \cup {Nothing}
  /\ deltaSeen \in [last : Int, whole : BOOLEAN]
  /\ -1 <= deltaSeen.last /\ deltaSeen.last <= LastVersion
  /\ pc = "scan" /\ firstJson = 0 =>
       \/ \E k \in 0..(deltaSeen.last + 1) : Scanned(k)
       \/ listed = {} /\ upTo = DeltaTarget
  /\ pc = "scan" \/ (pc = "list" /\ request.kind = "asOf") => upTo \in Nat
  /\ pc = "list" => IF request.kind = "asOf" THEN firstJson = 0 => upTo = DeltaTarget
                                             ELSE upTo = request.at
  /\ pc = "replay" /\ Traced =>
       \/ listed = {} /\ active = {}
       \/ DeltaTarget <= LastVersion /\ \E k \in 0..(DeltaTarget + 1) : Replayed(k)
  /\ pc = "load" =>
       /\ IsFiniteSet(Rows(frame)) /\ Len(frame) = Cardinality(Rows(frame))
       /\ Rows(frame) \cap active = {}
       /\ Traced => /\ DeltaTarget <= LastVersion
                    /\ Rows(frame) \cup active \subseteq DeltaSnapshot(DeltaTarget)
                    /\ deltaSeen.whole => Rows(frame) \cup active = DeltaSnapshot(DeltaTarget)
  /\ IsRead /\ Reader(path) = "delta" /\ Traced =>
       /\ DeltaTarget <= LastVersion
       /\ Rows(frame) \subseteq DeltaSnapshot(DeltaTarget)
       /\ deltaSeen.whole => HoldsOnce(frame, DeltaSnapshot(DeltaTarget))

(* A read as of a time takes no commit that exceeds it but the first one.  *)
(* A commit that vanished before the scan came to it is not in the listing *)
(* of the replay either, so what the scan found counts from firstJson on.  *)
Within(S) == \A v \in S : v = 0 \/ (v \in 1..deltaSeen.last /\ ~Exceeds(v))
Unscanned(j) == listed = j..deltaSeen.last /\ (j = upTo + 1 \/ (j <= firstJson /\ upTo = 0))
DeltaTimeInv ==
  request.kind = "asOf" =>
    /\ pc \in {"scan", "list"} => Within(firstJson..upTo)
    /\ pc = "scan" => listed = {} \/ \E j \in Nat : Unscanned(j)
    /\ pc = "replay" => Within(listed \cup active)
    /\ pc = "load" => Within(Rows(frame) \cup active)
    /\ IsRead /\ Reader(path) = "delta" => Within(Rows(frame))

(* A metadata version names the snapshots from some number to its current  *)
(* one, and all their files are there while the version is.                *)
Metadata == [snapshots : SUBSET Nat, current : Nat]
Contiguous(m) == m.current \in 1..Made /\ \E a \in 1..m.current : m.snapshots = a..m.current
Present(m) ==
  \A s \in m.snapshots : /\ snapshots[s] \subseteq onDisk.data \cap onDisk.manifests
                         /\ s \in onDisk.lists
IcebergTableInv ==
  /\ form \in Form
  /\ snapshots \in Seq(SUBSET Nat) /\ Made <= MaxCommits
  /\ \A s \in 1..Made : snapshots[s] \subseteq 1..s
  /\ metas \in Seq(Metadata) /\ (metas = << >> <=> snapshots = << >>)
  /\ metas # << >> => LastMeta.current = Made
  /\ \A v \in 1..Len(metas) : Contiguous(metas[v])
  /\ hint = Nothing \/ hint \in 1..Len(metas)
  /\ firstMeta \in Nat \ {0} /\ (IF metas = << >> THEN firstMeta = 1 ELSE firstMeta <= Len(metas))
  /\ onDisk \in [data : SUBSET Nat, manifests : SUBSET Nat, lists : SUBSET Nat]
  /\ onDisk.data \subseteq 1..(Made + 1) /\ onDisk.manifests \subseteq 1..(Made + 1)
  /\ Made + 1 \in onDisk.data => Made < MaxCommits /\ Made + 1 \in onDisk.manifests
  /\ \A v \in firstMeta..Len(metas) : Present(metas[v])

(* A manifest names its own file and files that were live before it. In a  *)
(* snapshot no file is live that one of its manifests names as deleted, so *)
(* no two of them name the same file.                                      *)
IcebergNamedInv ==
  /\ named \in Seq(SUBSET Nat)
  /\ Len(named) = IF Made + 1 \in onDisk.data THEN Made + 1 ELSE Made
  /\ onDisk.manifests \subseteq 1..Len(named)
  /\ \A m \in 1..Len(named) : m \in named[m] /\ named[m] \subseteq 1..m
  /\ Made + 1 \in onDisk.data => named[Made + 1] \subseteq Live \cup {Made + 1}
  /\ \A s \in 1..Made : \A m \in snapshots[s] :
       /\ named[m] \cap snapshots[s] = {m}
       /\ \A n \in snapshots[s] \ {m} : named[m] \cap named[n] = {}

(* Sequences without repetition; what the manifests of the snapshot come   *)
(* to, and what is left of it for the frame.                               *)
Once(t) == \A i, j \in DOMAIN t : t[i] = t[j] => i = j
Exactly(t, S) == Rows(t) = S /\ Once(t)
Listing == {m \in snapshots[snapshot] : form = "list" => kindOf[m] # "pathless"}
NamedBy(M) == {f \in UNION {named[m] : m \in M} : kindOf[f] # "uncounted"}
Delivered == {f \in NamedBy(Listing) : kindOf[f] # "orc"}

(* The reader has a metadata version that was there, a snapshot that it    *)
(* names and the request means, in files what the manifests read so far    *)
(* name, and then in frame and files all that is to be delivered.          *)
Chosen ==
  /\ snapshot \in meta.snapshots
  /\ request.kind = "version" => snapshot = request.at
  /\ request.kind = "asOf" => snapshot = Least(request.at, meta.current)
  /\ request.kind = "latest" => snapshot = meta.current
  /\ request.kind # "ref"
Undisturbed == form \in {"list", "inline"} /\ ~cleaned
Gathered ==
  /\ Once(manifests) /\ Rows(manifests) \subseteq Listing
  /\ Exactly(files, NamedBy(Listing \ Rows(manifests)))
IcebergReadInv ==
  /\ cleaned \in BOOLEAN
  /\ manifests \in Seq(Nat) /\ files \in Seq(Nat)
  /\ snapshot \in Nat \cup {Nothing}
  /\ pc = "metadata" => snapshot \in 0..Len(metas)
  /\ pc \in {"resolve", "manifests", "files", "data"} \/ (IsRead /\ Reader(path) = "iceberg") =>
       \E v \in 1..Len(metas) : meta = metas[v] /\ (~cleaned => v >= firstMeta)
  /\ pc \in {"manifests", "files", "data"} \/ (IsRead /\ Reader(path) = "iceberg") => Chosen
  /\ pc = "files" /\ Undisturbed => Gathered
  /\ pc = "data" => files # << >>
  /\ pc = "data" /\ Undisturbed => Exactly(frame \o files, Delivered)
  /\ IsRead /\ Reader(path) = "iceberg" /\ Undisturbed => Exactly(frame, Delivered)
IInv ==
  /\ RowInv /\ ControlInv /\ BatchInv
  /\ DeltaTableInv /\ DeltaReadInv /\ DeltaTimeInv
  /\ IcebergTableInv /\ IcebergNamedInv /\ IcebergReadInv

USE DEF vars, rowVars, deltaTable, deltaRead, icebergTable, icebergRead, batcher,
        OtherThanDelta, OtherThanIceberg, Tables, Mine

-----------------------------------------------------------------------------
(* The row buffer. *)

LEMMA FrameType ==
  ASSUME NEW rows \in Seq(Row), NEW columns \in SUBSET UNION RowKinds
  PROVE  /\ Frame(rows, columns) \in Seq(FrameRow)
         /\ Len(Frame(rows, columns)) = Len(rows)
         /\ \A j \in 1..Len(rows) : /\ Frame(rows, columns)[j].number = rows[j].number
                                    /\ Frame(rows, columns)[j].columns = columns
<1>1. ASSUME NEW j \in 1..Len(rows)
      PROVE  [number |-> rows[j].number, columns |-> columns, nulls |-> columns \ rows[j].columns] \in FrameRow
  <2>1. rows[j] \in Row
    OBVIOUS
  <2>2. rows[j].number \in Nat
    BY <2>1 DEF Row
  <2>3. QED
    BY <2>2 DEF FrameRow
<1>2. DOMAIN rows = 1..Len(rows) /\ Len(rows) \in Nat
  OBVIOUS
<1>3. Frame(rows, columns) \in [1..Len(rows) -> FrameRow]
  BY <1>1, <1>2 DEF Frame
<1>4. QED
  BY <1>2, <1>3 DEF Frame

(* The rows of the buffer become a frame, in their places.                 *)
LEMMA HandedOut ==
  ASSUME NEW rows \in Seq(Row), NEW columns \in SUBSET UNION RowKinds, NEW n \in Nat,
         NEW given \in Seq(Seq(FrameRow)),
         InPlace(Concat(given) \o rows, n)
  PROVE  InPlace(Concat(Append(given, Frame(rows, columns))) \o << >>, n)
<1> DEFINE F == Frame(rows, columns)
           C == Concat(given)
<1>1. F \in Seq(FrameRow) /\ Len(F) = Len(rows) /\ \A j \in 1..Len(rows) : F[j].number = rows[j].number
  BY FrameType
<1>2. C \in Seq(FrameRow) /\ Concat(Append(given, F)) = C \o F
  <2> HIDE DEF F
  <2>1. QED
    BY <1>1, ConcatAppend
<1>3. (C \o F) \o << >> = C \o F
  <2> HIDE DEF C, F
  <2>1. QED
    BY <1>1, <1>2
<1>4. Len(C) \in Nat /\ Len(rows) \in Nat /\ Len(C) + Len(rows) = n /\ Len(C \o F) = n
  <2> HIDE DEF C, F
  <2>1. rows \in Seq(Row) /\ Len(C) \in Nat /\ Len(rows) \in Nat
    BY <1>2
  <2>2. Len(C \o rows) = n
    BY DEF C, InPlace
  <2>3. Len(C \o rows) = Len(C) + Len(rows)
    <3> DEFINE T == Row \cup FrameRow
    <3>1. C \in Seq(T) /\ rows \in Seq(T)
      BY <1>2, <2>1
    <3> HIDE DEF T
    <3>2. QED
      BY <3>1, ConcatProperties
  <2>4. Len(C \o F) = Len(C) + Len(F)
    BY <1>1, <1>2
  <2>5. QED
    BY <1>1, <2>1, <2>2, <2>3, <2>4
<1>5. ASSUME NEW i \in 1..n PROVE (C \o F)[i].number = i
  <2>1. (C \o rows)[i].number = i
    BY DEF InPlace
  <2> HIDE DEF C, F
  <2>2. CASE i <= Len(C)
    <3>1. (C \o F)[i] = C[i] /\ (C \o rows)[i] = C[i]
      BY <1>1, <1>2, <1>4, <2>2
    <3>2. QED
      BY <2>1, <3>1
  <2>3. CASE ~(i <= Len(C))
    <3>1. (C \o F)[i] = F[i - Len(C)] /\ (C \o rows)[i] = rows[i - Len(C)] /\ i - Len(C) \in 1..Len(rows)
      BY <1>1, <1>2, <1>4, <2>3
    <3>2. QED
      BY <1>1, <2>1, <3>1
  <2>4. QED
    BY <2>2, <2>3
<1>6. QED
  BY <1>2, <1>3, <1>4, <1>5 DEF InPlace

(* A pushed row takes the next place; a full buffer, or a flush, hands out *)
(* the rows it has.                                                        *)
LEMMA RowInvStep ==
  ASSUME RowInv, RowStep \/ UNCHANGED rowVars
  PROVE  RowInv'
<1>1. CASE UNCHANGED rowVars
  <2>1. Window' = Window
    BY <1>1 DEF Window
  <2>2. QED
    BY <1>1, <2>1 DEF RowInv
<1> DEFINE C == Concat(frames)
<1>2. C \in Seq(FrameRow) /\ Window \in Nat \ {0} /\ Len(buffer) \in Nat /\ Len(pushed) \in Nat
  <2>1. Concat(frames) \in Seq(FrameRow)
    <3>1. frames \in Seq(Seq(FrameRow)) /\ << >> \in Seq(FrameRow)
      BY DEF RowInv
    <3>2. QED
      BY <3>1, ConcatAppend
  <2>2. QED
    BY <2>1 DEF RowInv, Window
<1>3. CASE Push
  <2>1. PICK columns \in RowKinds :
          LET row == [number |-> Len(pushed) + 1, columns |-> columns]
              rows == Append(buffer, row)
          IN /\ schema' = SchemaWith(columns)
             /\ pushed' = Append(pushed, row)
             /\ IF IsFull(rows)
                THEN frames' = Append(frames, Frame(rows, schema')) /\ buffer' = AfterFlush(rows)
                ELSE buffer' = rows /\ UNCHANGED frames
    BY <1>3 DEF Push
  <2> DEFINE n == Len(pushed)
             row == [number |-> n + 1, columns |-> columns]
             rows == Append(buffer, row)
  <2>2. windowSize' = windowSize /\ Window' = Window
    BY <1>3 DEF Push, Window
  <2>3. n \in Nat /\ row \in Row /\ row.number = n + 1 /\ row.columns = columns
    BY <1>2 DEF Row
  <2>4. rows \in Seq(Row) /\ Len(rows) = Len(buffer) + 1 /\ rows # << >>
    <3> HIDE DEF row
    <3>1. buffer \in Seq(Row)
      BY DEF RowInv
    <3>2. QED
      BY <2>3, <3>1
  <2>5. pushed' = Append(pushed, row) /\ pushed' \in Seq(Row) /\ Len(pushed') = n + 1 /\ pushed' # << >>
    <3>1. pushed' = Append(pushed, row)
      BY <2>1
    <3> HIDE DEF row
    <3>2. pushed \in Seq(Row)
      BY DEF RowInv
    <3>3. QED
      BY <2>3, <3>1, <3>2
  <2>6. schema' \in SUBSET UNION RowKinds /\ schema' = pushed'[1].columns
    <3>1. CASE pushed = << >>
      <4>1. pushed'[1] = row
        <5>1. pushed' = Append(<< >>, row)
          BY <2>5, <3>1
        <5> HIDE DEF row
        <5>2. QED
          BY <5>1
      <4>2. QED
        BY <2>1, <2>3, <3>1, <4>1 DEF SchemaWith
    <3>2. CASE pushed # << >>
      <4>1. pushed'[1] = pushed[1]
        <5> HIDE DEF row
        <5>1. pushed \in Seq(Row)
          BY DEF RowInv
        <5>2. QED
          BY <2>5, <3>2, <5>1
      <4>2. schema' = schema
        BY <2>1, <3>2 DEF SchemaWith
      <4>3. QED
        BY <3>2, <4>1, <4>2 DEF RowInv
    <3>3. QED
      BY <3>1, <3>2
  <2>7. InPlace(C \o rows, n + 1)
    <3>1. Len(C \o buffer) = n /\ \A i \in 1..n : (C \o buffer)[i].number = i
      BY DEF RowInv, InPlace
    <3>2. buffer \in Seq(Row)
      BY DEF RowInv
    <3> HIDE DEF C, row, n
    <3>3. Len(C) \in Nat /\ Len(C) + Len(buffer) = n /\ Len(C \o rows) = n + 1
      <4>1. Len(C \o buffer) = Len(C) + Len(buffer) /\ Len(C) \in Nat
        BY <1>2, <3>2
      <4>2. Len(C \o rows) = Len(C) + Len(rows)
        <5> HIDE DEF rows
        <5>1. QED
          BY <1>2, <2>4
      <4>3. QED
        BY <1>2, <2>4, <3>1, <4>1, <4>2
    <3>4. ASSUME NEW i \in 1..n PROVE (C \o rows)[i] = (C \o buffer)[i]
      <4>1. CASE i <= Len(C)
        <5>1. (C \o rows)[i] = C[i]
          <6> HIDE DEF rows
          <6>1. QED
            BY <1>2, <2>4, <3>3, <4>1
        <5>2. (C \o buffer)[i] = C[i]
          BY <1>2, <3>2, <3>3, <4>1
        <5>3. QED
          BY <5>1, <5>2
      <4>2. CASE ~(i <= Len(C))
        <5>1. i - Len(C) \in 1..Len(buffer)
          BY <1>2, <2>3, <3>3, <4>2
        <5>2. (C \o rows)[i] = rows[i - Len(C)]
          <6> HIDE DEF rows
          <6>1. QED
            BY <1>2, <2>3, <2>4, <3>3, <4>2
        <5>3. (C \o buffer)[i] = buffer[i - Len(C)]
          BY <1>2, <2>3, <3>2, <3>3, <4>2
        <5>4. rows[i - Len(C)] = buffer[i - Len(C)]
          BY <3>2, <5>1
        <5>5. QED
          BY <5>2, <5>3, <5>4
      <4>3. QED
        BY <4>1, <4>2
    <3>5. (C \o rows)[n + 1] = row
      <4>1. rows[Len(rows)] = row
        BY <2>3, <2>4, <3>2
      <4>2. n + 1 = Len(C) + Len(rows)
        BY <1>2, <2>4, <3>3
      <4>3. (C \o rows)[n + 1] = rows[Len(rows)]
        <5> HIDE DEF rows
        <5>1. Len(rows) \in 1..Len(rows)
          BY <1>2, <2>4
        <5>2. QED
          BY <1>2, <2>4, <3>3, <4>2, <5>1
      <4>4. QED
        BY <4>1, <4>3
    <3>6. ASSUME NEW i \in 1..(n + 1) PROVE (C \o rows)[i].number = i
      <4>1. CASE i = n + 1
        BY <2>3, <3>5, <4>1
      <4>2. CASE i # n + 1
        <5>1. i \in 1..n
          BY <2>3, <4>2
        <5>2. QED
          BY <3>1, <3>4, <5>1
      <4>3. QED
        BY <4>1, <4>2
    <3>7. QED
      BY <3>3, <3>6 DEF InPlace
  <2>8. ASSUME NEW i \in DOMAIN frames
        PROVE  /\ Len(frames[i]) <= Window
               /\ \A j \in DOMAIN frames[i] : frames[i][j].columns = pushed'[1].columns
    <3>1. CASE pushed = << >>
      BY <2>3, <3>1 DEF RowInv
    <3>2. CASE pushed # << >>
      <4>1. schema' = schema /\ schema = pushed[1].columns
        BY <2>1, <3>2 DEF SchemaWith, RowInv
      <4>2. pushed'[1].columns = pushed[1].columns
        BY <2>6, <4>1
      <4>3. QED
        BY <3>2, <4>2 DEF RowInv
    <3>3. QED
      BY <3>1, <3>2
  <2>9. CASE IsFull(rows)
    <3> DEFINE F == Frame(rows, schema')
    <3>1. frames' = Append(frames, F) /\ buffer' = << >>
      BY <2>1, <2>9 DEF AfterFlush
    <3>2. F \in Seq(FrameRow) /\ Len(F) = Len(rows) /\ \A j \in 1..Len(rows) : F[j].columns = schema'
      <4> HIDE DEF rows
      <4>1. QED
        BY <2>4, <2>6, FrameType
    <3>3. frames \in Seq(Seq(FrameRow))
      BY DEF RowInv
    <3>4. InPlace(Concat(frames') \o buffer', n + 1)
      <4> HIDE DEF rows
      <4>1. n + 1 \in Nat
        BY <2>3
      <4> HIDE DEF n
      <4>2. QED
        BY <2>4, <2>6, <2>7, <3>1, <3>3, <4>1, HandedOut
    <3>5. frames' \in Seq(Seq(FrameRow)) /\ Len(rows) <= Window
      <4>1. Len(buffer) < Window
        BY DEF RowInv
      <4> HIDE DEF F
      <4>2. QED
        BY <1>2, <2>4, <3>1, <3>2, <3>3, <4>1
    <3>6. ASSUME NEW i \in DOMAIN frames'
          PROVE  /\ Len(frames'[i]) <= Window'
                 /\ \A j \in DOMAIN frames'[i] : frames'[i][j].columns = pushed'[1].columns
      <4> HIDE DEF F, rows
      <4>1. frames'[i] = IF i \in DOMAIN frames THEN frames[i] ELSE F
        BY <3>1, <3>3
      <4>2. DOMAIN F = 1..Len(rows)
        BY <3>2
      <4>3. QED
        BY <2>2, <2>6, <2>8, <3>2, <3>5, <4>1, <4>2
    <3>7. << >> \in Seq(Row) /\ Len(<< >>) < Window'
      BY <1>2, <2>2
    <3> HIDE DEF rows, row
    <3>8. QED
      BY <2>2, <2>5, <2>6, <3>1, <3>4, <3>5, <3>6, <3>7 DEF RowInv
  <2>10. CASE ~IsFull(rows)
    <3>1. frames' = frames /\ buffer' = rows
      BY <2>1, <2>10
    <3>2. Len(rows) < Window
      BY <1>2, <2>4, <2>10 DEF IsFull, Window, RowInv
    <3> HIDE DEF rows, row
    <3>3. QED
      BY <2>2, <2>4, <2>5, <2>6, <2>7, <2>8, <3>1, <3>2 DEF RowInv
  <2>11. QED
    BY <2>9, <2>10
<1>4. CASE Flush
  <2> DEFINE F == Frame(buffer, schema)
  <2>1. frames' = Append(frames, F) /\ buffer' = << >> /\ UNCHANGED <<windowSize, schema, pushed>>
    BY <1>4 DEF Flush, AfterFlush
  <2>2. /\ buffer \in Seq(Row) /\ schema \in SUBSET UNION RowKinds /\ frames \in Seq(Seq(FrameRow))
        /\ Len(buffer) < Window
    BY DEF RowInv
  <2>3. F \in Seq(FrameRow) /\ Len(F) = Len(buffer) /\ \A j \in 1..Len(buffer) : F[j].columns = schema
    BY <2>2, FrameType
  <2>4. InPlace(Concat(frames') \o buffer', Len(pushed'))
    <3>1. InPlace(Concat(frames) \o buffer, Len(pushed))
      BY DEF RowInv
    <3>2. QED
      BY <1>2, <2>1, <2>2, <3>1, HandedOut
  <2>5. frames' \in Seq(Seq(FrameRow)) /\ Window' = Window /\ << >> \in Seq(Row) /\ Len(<< >>) < Window
    <3>1. Window' = Window
      BY <2>1 DEF Window
    <3> HIDE DEF F
    <3>2. QED
      BY <1>2, <2>1, <2>2, <2>3, <3>1
  <2>6. ASSUME NEW i \in DOMAIN frames'
        PROVE  /\ Len(frames'[i]) <= Window
               /\ \A j \in DOMAIN frames'[i] : frames'[i][j].columns = pushed[1].columns
               /\ pushed = << >> => frames'[i] = << >>
    <3>1. frames'[i] = IF i \in DOMAIN frames THEN frames[i] ELSE F
      <4> HIDE DEF F
      <4>1. QED
        BY <2>1, <2>2
    <3>2. CASE i \in DOMAIN frames
      BY <3>1, <3>2 DEF RowInv
    <3>3. CASE i \notin DOMAIN frames
      <4>1. frames'[i] = F /\ DOMAIN F = 1..Len(buffer)
        BY <2>3, <3>1, <3>3
      <4>2. pushed = << >> => Len(buffer) = 0
        BY DEF RowInv
      <4>3. pushed # << >> => schema = pushed[1].columns
        BY DEF RowInv
      <4> HIDE DEF F
      <4>4. pushed = << >> => F = << >>
        <5>1. Len(F) = 0 => F = << >>
          BY <2>3
        <5>2. QED
          BY <2>3, <4>2, <5>1
      <4>5. \A j \in DOMAIN F : F[j].columns = pushed[1].columns
        BY <2>3, <4>1, <4>3, <4>4
      <4>6. QED
        BY <1>2, <2>2, <2>3, <4>1, <4>4, <4>5
    <3>4. QED
      BY <3>2, <3>3
  <2>7. QED
    BY <2>1, <2>2, <2>4, <2>5, <2>6 DEF RowInv
<1>5. QED
  BY <1>1, <1>3, <1>4 DEF RowStep

-----------------------------------------------------------------------------
(* The state at the start. *)

LEMMA InitInvariant ==
  ASSUME Init
  PROVE  IInv
<1> USE DEF Init, ReadInit, DeltaInit, IcebergInit, RowBufferInit
<1>1. RowInv
  <2>1. windowSize \in Nat /\ Window \in Nat \ {0}
    BY WindowSizesAssumption DEF Window
  <2>2. << >> \in Seq(Row) /\ << >> \in Seq(Seq(FrameRow)) /\ Len(<< >>) = 0 /\ << >> \o << >> = << >>
    OBVIOUS
  <2>3. InPlace(Concat(frames) \o buffer, Len(pushed))
    BY <2>2, ConcatEmpty DEF InPlace
  <2>4. QED
    BY <2>1, <2>2, <2>3 DEF RowInv
<1>2. ControlInv
  <2>1. request \in Requests
    BY DEF Requests, Latest
  <2>2. QED
    BY <2>1, ContentsAssumption DEF ControlInv, Steps, DeltaSteps, IcebergSteps
<1>3. BatchInv
  <2>1. batchSize \in Nat \ {0}
    BY BatchAssumption
  <2>2. QED
    BY <2>1 DEF BatchInv
<1>4. DeltaTableInv
  BY DEF DeltaTableInv
<1>5. DeltaReadInv /\ DeltaTimeInv
  <2>1. LastVersion = -1 /\ deltaSeen.last = -1
    BY DEF LastVersion
  <2>2. QED
    BY <2>1 DEF DeltaReadInv, DeltaTimeInv, IsRead
<1>6. IcebergTableInv
  <2>1. Len(<< >>) = 0 /\ << >> \in Seq(SUBSET Nat) /\ << >> \in Seq(Metadata)
    OBVIOUS
  <2>2. Made = 0 /\ Made <= MaxCommits
    BY <2>1, CommitsAssumption DEF Made
  <2>3. form \in Form
    BY FormsAssumption
  <2>4. onDisk \in [data : SUBSET Nat, manifests : SUBSET Nat, lists : SUBSET Nat]
        /\ onDisk.data = {} /\ onDisk.manifests = {}
    OBVIOUS
  <2>5. /\ metas = << >> /\ snapshots = << >> /\ metas \in Seq(Metadata) /\ snapshots \in Seq(SUBSET Nat)
        /\ Len(metas) = 0 /\ firstMeta = 1 /\ hint = Nothing
    BY <2>1
  <2>6. /\ \A s \in 1..Made : snapshots[s] \subseteq 1..s
        /\ \A v \in 1..Len(metas) : Contiguous(metas[v])
        /\ \A v \in firstMeta..Len(metas) : Present(metas[v])
    BY <2>2, <2>5
  <2> HIDE DEF Init, ReadInit, DeltaInit, IcebergInit, RowBufferInit
  <2>7. /\ onDisk.data \subseteq 1..(Made + 1) /\ onDisk.manifests \subseteq 1..(Made + 1)
        /\ Made + 1 \notin onDisk.data /\ firstMeta \in Nat \ {0}
    BY <2>4, <2>5
  <2>8. QED
    BY <2>2, <2>3, <2>4, <2>5, <2>6, <2>7 DEF IcebergTableInv
<1>7. IcebergReadInv
  <2>1. manifests = << >> /\ files = << >> /\ snapshot = Nothing /\ pc = "idle" /\ cleaned = FALSE
    OBVIOUS
  <2>2. << >> \in Seq(Nat) /\ FALSE \in BOOLEAN
    OBVIOUS
  <2> HIDE DEF Init, ReadInit, DeltaInit, IcebergInit, RowBufferInit
  <2>3. QED
    BY <2>1, <2>2 DEF IcebergReadInv, IsRead
<1>8. IcebergNamedInv
  <2>1. /\ named = << >> /\ << >> \in Seq(SUBSET Nat) /\ Len(<< >>) = 0
        /\ onDisk.data = {} /\ onDisk.manifests = {}
    OBVIOUS
  <2>2. Made = 0
    BY DEF Made
  <2> HIDE DEF Init, ReadInit, DeltaInit, IcebergInit, RowBufferInit
  <2>3. 1..Made = {} /\ 1..Len(named) = {} /\ Made + 1 \notin onDisk.data
    BY <2>1, <2>2
  <2>4. QED
    BY <2>1, <2>2, <2>3 DEF IcebergNamedInv
<1>9. QED
  BY <1>1, <1>2, <1>3, <1>4, <1>5, <1>6, <1>7, <1>8 DEF IInv

-----------------------------------------------------------------------------
(* Who changes what. *)

(* The other programs, and the row buffer, do not disturb a call.          *)
Aside == DeltaTableChanges \/ IcebergTableChanges \/ FileChanges \/ PushRows \/ UNCHANGED vars

LEMMA AsideType ==
  ASSUME Aside
  PROVE  /\ UNCHANGED <<request, frame, pc, path, deltaRead, icebergRead, batcher>>
         /\ UNCHANGED deltaTable \/ DeltaTableStep
         /\ UNCHANGED <<icebergTable, cleaned>> \/ IcebergTableStep
         /\ UNCHANGED rowVars \/ RowStep
         /\ contents' = contents \/ contents' \in FileContents
BY DEF Aside, DeltaTableChanges, IcebergTableChanges, FileChanges, PushRows

(* A call begins with a request for a table, or is already done.           *)
Opening == BeginRead \/ FirstBatch
OpensDelta(r) ==
  DeltaBegin(r) /\ Reader(path) = "delta" /\ UNCHANGED <<icebergRead, cleaned>>
OpensIceberg(r) ==
  IcebergBegin(r) /\ Reader(path) = "iceberg" /\ UNCHANGED deltaRead
OpensFile ==
  /\ Reader(path) = "file" /\ request' = Latest /\ frame' = contents /\ pc' = "read"
  /\ UNCHANGED <<deltaRead, icebergRead, cleaned>>

LEMMA OpeningType ==
  ASSUME Opening
  PROVE  /\ UNCHANGED <<path, deltaTable, icebergTable, rowVars, contents, batcher>>
         /\ pc = "idle"
         /\ \/ \E r \in Requests : OpensDelta(r) \/ OpensIceberg(r)
            \/ OpensFile
            \/ Fail /\ UNCHANGED <<deltaRead, icebergRead, cleaned>>
<1>1. Latest \in Requests
  BY DEF Latest, Requests
<1>2. CASE BeginRead
  BY <1>2 DEF BeginRead, OpensDelta, OpensIceberg
<1>3. CASE FirstBatch
  BY <1>1, <1>3 DEF FirstBatch, MustRead, OpensDelta, OpensIceberg, OpensFile, Fail
<1>4. QED
  BY <1>2, <1>3 DEF Opening

(* What was read is cached and cut. *)
Cutting == Cache \/ NextBatch \/ Exhausted

LEMMA CuttingType ==
  ASSUME Cutting
  PROVE  /\ UNCHANGED <<request, frame, path, deltaTable, deltaRead, icebergTable, icebergRead, cleaned,
                        rowVars, contents>>
         /\ pc \in {"read", "slice"} /\ pc' \in {"slice", "ended"}
BY DEF Cutting, Cache, NextBatch, Exhausted

LEMMA StepCases ==
  ASSUME [Next]_vars
  PROVE  Aside \/ Opening \/ ReadDelta \/ ReadIceberg \/ Cutting
BY DEF Next, Aside, Opening, Cutting

(* A reader stays on its steps until it has read or failed.                *)
LEMMA ReadersType ==
  /\ ReadDelta => /\ UNCHANGED <<path, deltaTable, icebergTable, icebergRead, cleaned, rowVars, contents,
                                 batcher, request>>
                  /\ pc \in DeltaSteps /\ pc' \in DeltaSteps \cup {"read", "failed"}
  /\ ReadIceberg => /\ UNCHANGED <<path, deltaTable, deltaRead, icebergTable, rowVars, contents, batcher>>
                    /\ pc \in IcebergSteps /\ pc' \in IcebergSteps \cup {"read", "failed"}
<1>1. ReadDelta => UNCHANGED <<path, deltaTable, icebergTable, icebergRead, cleaned, rowVars, contents,
                               batcher>>
  BY DEF ReadDelta
<1>2. DeltaReadStep => /\ UNCHANGED request
                       /\ pc \in DeltaSteps /\ pc' \in DeltaSteps \cup {"read", "failed"}
  BY DEF DeltaReadStep, DeltaScanList, DeltaScanCommit, DeltaScanned, DeltaList, DeltaReplay,
         DeltaResolved, DeltaLoad, Load, Goto, Fail, DeltaSteps
<1>3. ReadIceberg => UNCHANGED <<path, deltaTable, deltaRead, icebergTable, rowVars, contents, batcher>>
  BY DEF ReadIceberg
<1>4. IcebergReadStep => pc \in IcebergSteps /\ pc' \in IcebergSteps \cup {"read", "failed"}
  BY DEF IcebergReadStep, IcebergHinted, IcebergMetadata, IcebergResolve, IcebergResolveRef, IcebergList,
         IcebergManifest, IcebergCollected, IcebergLoad, Load, Goto, Fail, IcebergSteps
<1>5. QED
  BY <1>1, <1>2, <1>3, <1>4 DEF ReadDelta, ReadIceberg

-----------------------------------------------------------------------------
(* Control and batches. *)

(* The metadata of a call was a version of the table's.                    *)
LEMMA MetaType ==
  ASSUME IInv,
         pc \in {"resolve", "manifests", "files", "data"} \/ (IsRead /\ Reader(path) = "iceberg")
  PROVE  /\ meta.current \in 1..Made
         /\ \E a \in 1..meta.current : meta.snapshots = a..meta.current
         /\ meta.snapshots \subseteq 1..Made
         /\ Made \in Nat /\ Made <= MaxCommits
         /\ ~cleaned => Present(meta)
<1>1. PICK v \in 1..Len(metas) : meta = metas[v] /\ (~cleaned => v >= firstMeta)
  BY DEF IInv, IcebergReadInv
<1>2. Contiguous(meta)
  BY <1>1 DEF IInv, IcebergTableInv
<1>3. Made \in Nat /\ Made <= MaxCommits
  BY DEF IInv, IcebergTableInv, Made
<1>4. PICK a \in 1..meta.current : meta.snapshots = a..meta.current
  BY <1>2 DEF Contiguous
<1>5. meta.current \in 1..Made
  BY <1>2 DEF Contiguous
<1>6. meta.snapshots \subseteq 1..Made
  BY <1>3, <1>4, <1>5
<1>7. ~cleaned => Present(meta)
  <2>1. Len(metas) \in Nat /\ firstMeta \in Nat
    BY DEF IInv, IcebergTableInv
  <2>2. ~cleaned => v \in firstMeta..Len(metas)
    BY <1>1, <2>1
  <2>3. QED
    BY <1>1, <2>2 DEF IInv, IcebergTableInv
<1>8. QED
  BY <1>3, <1>4, <1>5, <1>6, <1>7

LEMMA ControlStep ==
  ASSUME IInv, [Next]_vars
  PROVE  ControlInv'
<1> USE DEF ControlInv, Steps, DeltaSteps, IcebergSteps
<1>1. CASE Aside
  BY <1>1, AsideType, ContentsAssumption DEF IInv
<1>2. CASE Opening
  <2>1. /\ UNCHANGED <<path, contents>> /\ pc = "idle" /\ frame \in Seq(Nat) /\ contents \in Seq(Nat)
        /\ << >> \in Seq(Nat) /\ request \in Requests /\ Latest \in Requests
    BY <1>2, OpeningType DEF IInv, Latest, Requests
  <2>2. CASE \E r \in Requests : OpensDelta(r)
    BY <2>1, <2>2 DEF OpensDelta, DeltaBegin, Request
  <2>3. CASE \E r \in Requests : OpensIceberg(r)
    BY <2>1, <2>3 DEF OpensIceberg, IcebergBegin, Request
  <2>4. CASE OpensFile \/ Fail
    BY <2>1, <2>4 DEF OpensFile, Fail
  <2>5. QED
    BY <1>2, <2>2, <2>3, <2>4, OpeningType
<1>3. CASE ReadDelta
  <2>1. UNCHANGED <<path, contents, request>> /\ Reader(path) = "delta"
    BY <1>3, ReadersType DEF IInv
  <2>2. CASE DeltaLoad
    <3>1. PICK f \in active : Load(f, active = {f}) \/ Fail
      BY <2>2 DEF DeltaLoad
    <3>2. frame \in Seq(Nat) /\ f \in Nat /\ pc = "load"
      BY <2>2 DEF IInv, DeltaReadInv, DeltaLoad
    <3>3. Append(frame, f) \in Seq(Nat)
      BY <3>2
    <3>4. QED
      BY <2>1, <3>1, <3>2, <3>3 DEF IInv, Load, Fail
  <2>3. CASE ~DeltaLoad
    <3>1. UNCHANGED frame /\ pc # "load" /\ (pc' \in {"scanList", "scan"} => pc \in {"scanList", "scan"})
      BY <1>3, <2>3 DEF ReadDelta, DeltaReadStep, DeltaScanList, DeltaScanCommit, DeltaScanned, DeltaList,
           DeltaReplay, DeltaResolved, Goto, Fail
    <3>2. QED
      BY <1>3, <2>1, <3>1, ReadersType DEF IInv
  <2>4. QED
    BY <2>2, <2>3
<1>4. CASE ReadIceberg
  <2>1. UNCHANGED <<path, contents>> /\ Reader(path) = "iceberg"
    BY <1>4, ReadersType DEF IInv
  <2>2. CASE IcebergLoad
    <3>1. pc = "data" /\ (Load(Head(files), Len(files) = 1) \/ Fail)
      BY <2>2 DEF IcebergLoad
    <3>2. frame \in Seq(Nat) /\ Head(files) \in Nat
      BY <3>1 DEF IInv, IcebergReadInv
    <3>3. Append(frame, Head(files)) \in Seq(Nat)
      BY <3>2
    <3>4. QED
      BY <2>1, <3>1, <3>2, <3>3 DEF IInv, Load, Fail
  <2>3. CASE IcebergResolveRef
    <3>1. UNCHANGED frame /\ pc = "resolve" /\ pc' \in {"hint", "failed"}
      BY <2>3 DEF IcebergResolveRef, Fail
    <3>2. request' \in Requests
      <4>1. CASE request' = request
        BY <4>1 DEF IInv
      <4>2. CASE \E s \in meta.snapshots : request' = [kind |-> "version", at |-> s]
        <5>1. PICK s \in meta.snapshots : request' = [kind |-> "version", at |-> s]
          BY <4>2
        <5>2. s \in 0..MaxCommits
          BY <3>1, <5>1, MetaType, CommitsAssumption
        <5>3. QED
          BY <5>1, <5>2 DEF Requests
      <4>3. QED
        BY <2>3, <4>1, <4>2 DEF IcebergResolveRef, Fail
    <3>3. QED
      BY <2>1, <3>1, <3>2 DEF IInv
  <2>4. CASE ~IcebergLoad /\ ~IcebergResolveRef
    <3>1. UNCHANGED <<request, frame>> /\ pc # "data"
      BY <1>4, <2>4 DEF ReadIceberg, IcebergReadStep, IcebergHinted, IcebergMetadata, IcebergResolve,
           IcebergList, IcebergManifest, IcebergCollected, Goto, Fail
    <3>2. QED
      BY <1>4, <2>1, <3>1, ReadersType DEF IInv
  <2>5. QED
    BY <2>2, <2>3, <2>4
<1>5. CASE Cutting
  BY <1>5, CuttingType DEF IInv
<1>6. QED
  BY <1>1, <1>2, <1>3, <1>4, <1>5, StepCases

LEMMA SplitSequence ==
  ASSUME NEW T, NEW s \in Seq(T), NEW m \in 0..Len(s), NEW n \in m..Len(s)
  PROVE  /\ SubSeq(s, m + 1, n) \in Seq(T) /\ Len(SubSeq(s, m + 1, n)) = n - m
         /\ SubSeq(s, 1, m) \o SubSeq(s, m + 1, n) = SubSeq(s, 1, n)
<1> DEFINE a == SubSeq(s, 1, m)
           b == SubSeq(s, m + 1, n)
           c == SubSeq(s, 1, n)
<1>1. a \in Seq(T) /\ Len(a) = m /\ \A i \in 1..m : a[i] = s[i]
  OBVIOUS
<1>2. b \in Seq(T) /\ Len(b) = n - m /\ \A i \in 1..(n - m) : b[i] = s[m + i]
  <2>1. m + 1 \in 1..(Len(s) + 1) /\ n \in m..Len(s) /\ (n - (m + 1)) + 1 = n - m
    OBVIOUS
  <2>2. b \in Seq(T) /\ Len(b) = n - m
    BY <2>1
  <2>3. ASSUME NEW i \in 1..(n - m) PROVE b[i] = s[m + i]
    OBVIOUS
  <2>4. QED
    BY <2>2, <2>3
<1>3. c \in Seq(T) /\ Len(c) = n /\ \A i \in 1..n : c[i] = s[i]
  OBVIOUS
<1>4. m \in Nat /\ n \in Nat /\ m <= n /\ Len(s) \in Nat
  OBVIOUS
<1> HIDE DEF a, b, c
<1>5. a \o b \in Seq(T) /\ Len(a \o b) = n
  BY <1>1, <1>2, <1>4
<1>6. ASSUME NEW i \in 1..n PROVE (a \o b)[i] = c[i]
  <2>1. CASE i <= m
    BY <1>1, <1>2, <1>3, <1>4, <2>1
  <2>2. CASE ~(i <= m)
    <3>1. i - m \in 1..(n - m) /\ m + (i - m) = i
      BY <1>4, <2>2
    <3>2. (a \o b)[i] = b[i - m]
      <4>1. Len(a) = m /\ i \in 1..(Len(a) + Len(b)) /\ ~(i <= Len(a))
        BY <1>1, <1>2, <1>4, <2>2
      <4>2. (a \o b)[i] = IF i <= Len(a) THEN a[i] ELSE b[i - Len(a)]
        BY <1>1, <1>2, <4>1, ConcatProperties
      <4>3. QED
        BY <4>1, <4>2
    <3>3. b[i - m] = s[i]
      BY <1>2, <3>1
    <3>4. QED
      BY <1>3, <3>2, <3>3
  <2>3. QED
    BY <2>1, <2>2
<1>7. a \o b = c
  BY <1>3, <1>5, <1>6, SeqEqual
<1>8. QED
  BY <1>2, <1>7 DEF a, b, c

(* A slice goes from the offset to the next one. *)
LEMMA BatchStep ==
  ASSUME IInv, [Next]_vars
  PROVE  BatchInv'
<1>1. CASE Aside
  <2>1. UNCHANGED <<frame, pc, batchSize, offset, reports, cached>>
    BY <1>1, AsideType
  <2>2. QED
    BY <2>1 DEF IInv, BatchInv
<1>2. CASE Opening
  <2>1. /\ UNCHANGED <<batchSize, offset, reports, cached>> /\ pc = "idle"
        /\ pc' \notin {"slice", "ended"}
    BY <1>2, OpeningType DEF OpensDelta, OpensIceberg, OpensFile, DeltaBegin, IcebergBegin, Request, Fail
  <2>2. QED
    BY <2>1 DEF IInv, BatchInv
<1>3. CASE ReadDelta \/ ReadIceberg
  <2>1. /\ UNCHANGED <<batchSize, offset, reports, cached>>
        /\ pc \notin {"slice", "ended"} /\ pc' \notin {"slice", "ended"}
    BY <1>3, ReadersType DEF DeltaSteps, IcebergSteps
  <2>2. QED
    BY <2>1 DEF IInv, BatchInv
<1>4. frame \in Seq(Nat) /\ Len(frame) \in Nat
  <2>1. frame \in Seq(Nat)
    BY DEF IInv, ControlInv
  <2>2. QED
    BY <2>1
<1>5. CASE Cache
  <2>1. /\ pc' = "slice" /\ cached' = frame /\ UNCHANGED <<frame, batchSize, offset, reports>>
        /\ pc = "read"
    BY <1>5 DEF Cache
  <2>2. offset = 0 /\ reports = << >> /\ batchSize \in Nat \ {0}
    BY <2>1 DEF IInv, BatchInv
  <2>3. Concat(reports) = SubSeq(frame, 1, 0)
    <3>1. SubSeq(frame, 1, 0) = << >>
      BY <1>4
    <3>2. QED
      BY <2>2, <3>1, ConcatEmpty
  <2>4. << >> \in Seq(Seq(Nat))
    OBVIOUS
  <2>5. QED
    BY <1>4, <2>1, <2>2, <2>3, <2>4 DEF BatchInv
<1>6. CASE NextBatch
  <2> DEFINE slice == SubSeq(frame, offset + 1, SliceEnd)
  <2>1. /\ pc = "slice" /\ UNCHANGED <<frame, pc, batchSize, cached>>
        /\ offset < Len(cached) /\ offset' = SliceEnd
        /\ reports' = Append(reports, SubSeq(cached, offset + 1, SliceEnd))
    BY <1>6 DEF NextBatch
  <2>2. /\ cached = frame /\ offset \in Nat /\ batchSize \in Nat \ {0}
        /\ reports \in Seq(Seq(Nat))
        /\ Concat(reports) = SubSeq(frame, 1, offset)
    BY <2>1 DEF IInv, BatchInv
  <2>3. SliceEnd \in (offset + 1)..Len(frame) /\ SliceEnd <= offset + batchSize
    BY <1>4, <2>1, <2>2 DEF SliceEnd
  <2>4. offset \in 0..Len(frame) /\ SliceEnd \in offset..Len(frame)
    BY <1>4, <2>1, <2>2, <2>3
  <2>5. /\ slice \in Seq(Nat) /\ Len(slice) = SliceEnd - offset
        /\ SubSeq(frame, 1, offset) \o slice = SubSeq(frame, 1, SliceEnd)
    BY <1>4, <2>4, SplitSequence
  <2>6. slice # << >> /\ Len(slice) <= batchSize
    <3>1. Len(slice) # 0
      BY <2>2, <2>3, <2>5
    <3>2. Len(slice) <= batchSize
      BY <2>2, <2>3, <2>5
    <3> HIDE DEF slice
    <3>3. QED
      BY <3>1, <3>2
  <2>7. reports' = Append(reports, slice)
    BY <2>1, <2>2
  <2> HIDE DEF slice
  <2>8. Concat(reports') = Concat(reports) \o slice
    BY <2>2, <2>5, <2>7, ConcatAppend
  <2>9. reports' \in Seq(Seq(Nat))
    BY <2>2, <2>5, <2>7
  <2>10. ASSUME NEW i \in DOMAIN reports' PROVE reports'[i] # << >> /\ Len(reports'[i]) <= batchSize
    <3>1. reports'[i] = IF i \in DOMAIN reports THEN reports[i] ELSE slice
      BY <2>2, <2>7
    <3>2. QED
      BY <2>6, <3>1 DEF IInv, BatchInv
  <2>11. SliceEnd \in Nat /\ SliceEnd <= Len(frame)
    BY <1>4, <2>2, <2>3
  <2>12. Concat(reports') = SubSeq(frame, 1, SliceEnd)
    BY <2>2, <2>5, <2>8
  <2>13. QED
    BY <2>1, <2>2, <2>9, <2>10, <2>11, <2>12 DEF BatchInv
<1>7. CASE Exhausted
  <2>1. /\ pc = "slice" /\ pc' = "ended" /\ UNCHANGED <<frame, batchSize, offset, reports, cached>>
        /\ offset >= Len(cached)
    BY <1>7 DEF Exhausted
  <2>2. cached = frame /\ offset <= Len(frame) /\ offset \in Nat
    BY <2>1 DEF IInv, BatchInv
  <2>3. offset = Len(frame)
    BY <1>4, <2>1, <2>2
  <2>4. QED
    BY <2>1, <2>2, <2>3 DEF IInv, BatchInv
<1>8. QED
  BY <1>1, <1>2, <1>3, <1>5, <1>6, <1>7, StepCases DEF Cutting

-----------------------------------------------------------------------------
(* The snapshots of a Delta table. *)

LEMMA SnapshotMember ==
  ASSUME NEW v \in Int, NEW f
  PROVE  f \in DeltaSnapshot(v) <=>
           f \in 0..v /\ commits[f + 1].add /\ \A u \in f..v : f \notin Removes(u)
<1>1. f \in UNION {Adds(u) : u \in 0..v} <=> f \in 0..v /\ commits[f + 1].add
  <2>1. ASSUME NEW u \in 0..v, f \in Adds(u) PROVE f = u /\ commits[f + 1].add
    BY <2>1 DEF Adds
  <2>2. ASSUME f \in 0..v, commits[f + 1].add PROVE f \in Adds(f)
    BY <2>2 DEF Adds
  <2>3. QED
    BY <2>1, <2>2
<1>2. QED
  BY <1>1 DEF DeltaSnapshot

LEMMA SnapshotType ==
  ASSUME NEW v \in Int
  PROVE  /\ DeltaSnapshot(v) \in SUBSET (0..v)
         /\ IsFiniteSet(DeltaSnapshot(v))
<1>1. DeltaSnapshot(v) \in SUBSET (0..v)
  BY SnapshotMember
<1>2. IsFiniteSet(0..v)
  BY FS_Interval
<1>3. QED
  BY <1>1, <1>2, FS_Subset

(* Replaying one more commit gives the next snapshot.                      *)
LEMMA SnapshotStep ==
  ASSUME NEW v \in Nat
  PROVE  DeltaSnapshot(v) = (DeltaSnapshot(v - 1) \cup Adds(v)) \ Removes(v)
<1>1. ASSUME NEW f, f \in 0..(v - 1)
      PROVE  f \in DeltaSnapshot(v) <=> f \in DeltaSnapshot(v - 1) /\ f \notin Removes(v)
  <2>1. f..v = (f..(v - 1)) \cup {v} /\ f \in 0..v /\ v \in Int /\ v - 1 \in Int
    BY <1>1
  <2>2. f \in DeltaSnapshot(v) <=> commits[f + 1].add /\ \A u \in f..v : f \notin Removes(u)
    BY <2>1, SnapshotMember
  <2>3. f \in DeltaSnapshot(v - 1) <=> commits[f + 1].add /\ \A u \in f..(v - 1) : f \notin Removes(u)
    BY <1>1, <2>1, SnapshotMember
  <2>4. QED
    BY <2>1, <2>2, <2>3, Zenon
<1>2. v \in DeltaSnapshot(v) <=> v \in Adds(v) /\ v \notin Removes(v)
  <2>1. v..v = {v} /\ v \in 0..v /\ v \in Int
    OBVIOUS
  <2>2. v \in DeltaSnapshot(v) <=> commits[v + 1].add /\ \A u \in v..v : v \notin Removes(u)
    BY <2>1, SnapshotMember
  <2>3. v \in Adds(v) <=> commits[v + 1].add
    BY DEF Adds
  <2>4. QED
    BY <2>1, <2>2, <2>3, Zenon
<1>3. /\ DeltaSnapshot(v) \subseteq 0..v /\ DeltaSnapshot(v - 1) \subseteq 0..(v - 1)
      /\ Adds(v) \subseteq {v} /\ 0..v = (0..(v - 1)) \cup {v} /\ v \notin 0..(v - 1)
  <2>1. v \in Int /\ v - 1 \in Int
    OBVIOUS
  <2>2. DeltaSnapshot(v) \subseteq 0..v /\ DeltaSnapshot(v - 1) \subseteq 0..(v - 1)
    BY <2>1, SnapshotType
  <2>3. Adds(v) \subseteq {v}
    BY DEF Adds
  <2>4. 0..v = (0..(v - 1)) \cup {v} /\ v \notin 0..(v - 1)
    OBVIOUS
  <2>5. QED
    BY <2>2, <2>3, <2>4
<1>4. QED
  BY <1>1, <1>2, <1>3, Zenon

LEMMA NoSnapshot == DeltaSnapshot(-1) = {}
<1>1. 0..(-1) = {} /\ -1 \in Int
  OBVIOUS
<1>2. QED
  BY <1>1, SnapshotType

(* Commits come after those there are, so no snapshot ever changes; a log  *)
(* that has lost a commit does not get it back.                            *)
LEMMA TableMonotonic ==
  ASSUME DeltaTableInv, UNCHANGED deltaTable \/ DeltaTableStep
  PROVE  /\ LastVersion \in Int /\ LastVersion' \in Int /\ LastVersion <= LastVersion'
         /\ \A v \in Int : v <= LastVersion => DeltaSnapshot(v)' = DeltaSnapshot(v)
         /\ \A v \in 0..LastVersion : CommitTime(v)' = CommitTime(v)
         /\ firstJson \in Nat /\ firstJson' \in Nat /\ firstJson <= firstJson'
         /\ DeltaTableInv'
<1> USE DEF DeltaTableInv
<1>1. LastVersion \in Int
  BY DEF LastVersion
<1>2. CASE UNCHANGED deltaTable
  BY <1>1, <1>2 DEF LastVersion, DeltaSnapshot, Adds, Removes, CommitTime
<1>3. CASE DeltaCommit
  <2>1. PICK add \in BOOLEAN, remove \in SUBSET DeltaSnapshot(LastVersion), time \in CommitTimes :
          commits' = Append(commits, [add |-> add, remove |-> remove, time |-> time])
    BY <1>3 DEF DeltaCommit
  <2> DEFINE new == [add |-> add, remove |-> remove, time |-> time]
  <2>2. new \in Commit
    <3>1. remove \in SUBSET Nat
      BY <1>1, <2>1, SnapshotType
    <3>2. time \in Nat \cup {Nothing}
      BY <2>1, TimesAssumption
    <3>3. QED
      BY <2>1, <3>1, <3>2 DEF Commit
  <2> HIDE DEF new
  <2>3. commits' \in Seq(Commit) /\ Len(commits') = Len(commits) + 1
    BY <2>1, <2>2 DEF new
  <2>4. \A i \in 1..Len(commits) : commits'[i] = commits[i]
    BY <2>1, <2>2 DEF new
  <2>5. LastVersion' = LastVersion + 1
    BY <2>3 DEF LastVersion
  <2>6. ASSUME NEW v \in Int, v <= LastVersion
        PROVE  DeltaSnapshot(v)' = DeltaSnapshot(v)
    <3>1. ASSUME NEW u \in 0..v PROVE commits'[u + 1] = commits[u + 1]
      <4>1. u + 1 \in 1..Len(commits)
        BY <2>6 DEF LastVersion
      <4>2. QED
        BY <2>4, <4>1
    <3>2. ASSUME NEW u \in 0..v PROVE Adds(u)' = Adds(u) /\ Removes(u)' = Removes(u)
      BY <3>1 DEF Adds, Removes
    <3>3. UNION {Adds(u) : u \in 0..v}' = UNION {Adds(u) : u \in 0..v}
      BY <3>2
    <3>4. ASSUME NEW f \in UNION {Adds(u) : u \in 0..v}
          PROVE  (\A u \in f..v : f \notin Removes(u))' <=> \A u \in f..v : f \notin Removes(u)
      <4>1. f \in 0..v
        BY DEF Adds
      <4>2. \A u \in f..v : u \in 0..v
        BY <4>1
      <4>3. QED
        BY <3>2, <4>2
    <3>5. QED
      BY <3>3, <3>4 DEF DeltaSnapshot
  <2>7. UNCHANGED <<firstJson, vacuumed>>
    BY <1>3 DEF DeltaCommit
  <2>8. ASSUME NEW v \in 0..LastVersion PROVE CommitTime(v)' = CommitTime(v)
    <3>1. v + 1 \in 1..Len(commits)
      BY DEF LastVersion
    <3>2. QED
      BY <2>4, <3>1 DEF CommitTime
  <2>9. QED
    BY <1>1, <2>3, <2>5, <2>6, <2>7, <2>8
<1>4. CASE DeltaCleanLog \/ DeltaVacuum
  <2>1. UNCHANGED commits
    BY <1>4 DEF DeltaCleanLog, DeltaVacuum
  <2>2. /\ LastVersion' = LastVersion
        /\ \A v \in Int : DeltaSnapshot(v)' = DeltaSnapshot(v)
        /\ \A v \in 0..LastVersion : CommitTime(v)' = CommitTime(v)
    BY <2>1 DEF LastVersion, DeltaSnapshot, Adds, Removes, CommitTime
  <2>3. CASE DeltaCleanLog
    <3>1. PICK v \in (firstJson + 1)..LastVersion : firstJson' = v
      BY <2>3 DEF DeltaCleanLog
    <3>2. UNCHANGED vacuumed
      BY <2>3 DEF DeltaCleanLog
    <3>3. QED
      BY <1>1, <2>1, <2>2, <3>1, <3>2
  <2>4. CASE DeltaVacuum
    <3>1. UNCHANGED firstJson /\ vacuumed' \subseteq Nat
      BY <2>4 DEF DeltaVacuum
    <3>2. QED
      BY <1>1, <2>1, <2>2, <3>1
  <2>5. QED
    BY <1>4, <2>3, <2>4
<1>5. QED
  BY <1>2, <1>3, <1>4 DEF DeltaTableStep

LEMMA DeltaTableStays ==
  ASSUME IInv, [Next]_vars
  PROVE  (UNCHANGED deltaTable \/ DeltaTableStep) /\ DeltaTableInv'
<1>1. UNCHANGED deltaTable \/ DeltaTableStep
  BY AsideType, OpeningType, ReadersType, CuttingType, StepCases
<1>2. QED
  BY <1>1, TableMonotonic DEF IInv

-----------------------------------------------------------------------------
(* What a request means, and the steps to it. *)

LEMMA RequestType ==
  ASSUME ControlInv
  PROVE  /\ request.kind \in {"latest", "version", "asOf", "ref"}
         /\ request.kind \in {"version", "asOf"} => request.at \in Nat
         /\ request.kind = "latest" => request.at = Nothing
BY CommitsAssumption DEF ControlInv, Requests

LEMMA ExtremesOfInterval ==
  ASSUME NEW a \in Int, NEW b \in Int, a <= b
  PROVE  Lowest(a..b) = a /\ Highest(a..b) = b
<1>1. a \in a..b /\ b \in a..b /\ \A m \in a..b : a <= m /\ b >= m
  OBVIOUS
<1>2. ASSUME NEW n \in a..b, \A m \in a..b : n <= m PROVE n = a
  BY <1>1, <1>2
<1>3. ASSUME NEW n \in a..b, \A m \in a..b : n >= m PROVE n = b
  BY <1>1, <1>3
<1>4. QED
  BY <1>1, <1>2, <1>3 DEF Lowest, Highest

(* What is asked for by a version, or for the latest one.                  *)
LEMMA TargetOfVersion ==
  ASSUME deltaSeen.last \in Int, deltaSeen.last >= -1, request.at \in Nat \/ request.kind # "version"
  PROVE  /\ request.kind = "latest" => DeltaTarget = deltaSeen.last
         /\ request.kind = "version" => DeltaTarget = Least(request.at, deltaSeen.last)
<1>1. request.kind = "latest" => DeltaTarget = deltaSeen.last
  BY DEF DeltaTarget, DeltaPromised
<1>2. request.kind = "version" => DeltaTarget = Least(request.at, deltaSeen.last)
  BY DEF DeltaTarget, DeltaPromised, Least
<1>3. QED
  BY <1>1, <1>2

(* The version previous to the first commit that exceeds a time is the     *)
(* last one up to which none does.                                         *)
LEMMA TargetOfTime ==
  ASSUME request.kind = "asOf", deltaSeen.last \in Int,
         NEW k \in 0..(deltaSeen.last + 1),
         \A v \in 0..(k - 1) : ~Exceeds(v),
         k <= deltaSeen.last => Exceeds(k)
  PROVE  DeltaTarget = IF k = 0 THEN 0 ELSE k - 1
<1> DEFINE later == {v \in 0..deltaSeen.last : Exceeds(v)}
<1>1. DeltaPromised = IF later = {} THEN deltaSeen.last ELSE Lowest(later) - 1
  BY DEF DeltaPromised
<1>2. \A v \in later : v \in 0..deltaSeen.last /\ v >= k
  OBVIOUS
<1>3. DeltaPromised = k - 1
  <2>1. CASE k <= deltaSeen.last
    <3>1. k \in later
      BY <2>1
    <3> HIDE DEF later
    <3>2. ASSUME NEW n \in later, \A m \in later : n <= m PROVE n = k
      BY <1>2, <3>1, <3>2
    <3>3. \A m \in later : k <= m
      BY <1>2
    <3>4. Lowest(later) = k
      BY <3>1, <3>2, <3>3 DEF Lowest
    <3>5. QED
      BY <1>1, <3>1, <3>4
  <2>2. CASE ~(k <= deltaSeen.last)
    <3> HIDE DEF later
    <3>1. later = {} /\ k - 1 = deltaSeen.last
      BY <1>2, <2>2
    <3>2. QED
      BY <1>1, <3>1
  <2>3. QED
    BY <2>1, <2>2
<1>4. k - 1 \in 0..deltaSeen.last <=> k # 0
  OBVIOUS
<1> HIDE DEF later
<1>5. QED
  BY <1>3, <1>4 DEF DeltaTarget

LEMMA TargetType ==
  ASSUME deltaSeen.last \in Int, deltaSeen.last >= -1, request.at \in Nat \/ request.kind # "version"
  PROVE  /\ DeltaTarget \in Int
         /\ request.kind = "asOf" => DeltaTarget \in Nat /\ (DeltaTarget = 0 \/ DeltaTarget <= deltaSeen.last)
<1> DEFINE later == {v \in 0..deltaSeen.last : Exceeds(v)}
<1>1. CASE request.kind \in {"latest", "version"}
  BY <1>1, TargetOfVersion DEF Least
<1>2. CASE request.kind \notin {"latest", "version"}
  <2>1. DeltaPromised = IF later = {} THEN deltaSeen.last ELSE Lowest(later) - 1
    BY <1>2 DEF DeltaPromised
  <2>2. DeltaPromised \in Int
    <3>1. later \in SUBSET Nat
      OBVIOUS
    <3> HIDE DEF later
    <3>2. CASE later # {}
      <4>1. \E n \in later : \A m \in later : n <= m
        BY <3>1, <3>2, LeastExists
      <4>2. Lowest(later) \in later
        BY <4>1 DEF Lowest
      <4>3. Lowest(later) \in Nat
        BY <3>1, <4>2
      <4>4. DeltaPromised = Lowest(later) - 1
        BY <2>1, <3>2
      <4>5. QED
        BY <4>3, <4>4
    <3>3. CASE later = {}
      BY <2>1, <3>3
    <3>4. QED
      BY <3>2, <3>3
  <2> HIDE DEF later
  <2>3. QED
    BY <1>2, <2>2 DEF DeltaTarget
<1>3. QED
  BY <1>1, <1>2

(* What the request means depends on the commits seen, which stay.         *)
LEMMA TargetStays ==
  ASSUME UNCHANGED request, deltaSeen'.last = deltaSeen.last,
         \A v \in 0..deltaSeen.last : CommitTime(v)' = CommitTime(v)
  PROVE  /\ \A v \in 0..deltaSeen.last : Exceeds(v)' <=> Exceeds(v)
         /\ DeltaTarget' = DeltaTarget
<1>1. \A v \in 0..deltaSeen.last : Exceeds(v)' <=> Exceeds(v)
  BY DEF Exceeds
<1>2. {v \in 0..deltaSeen.last : Exceeds(v)}' = {v \in 0..deltaSeen.last : Exceeds(v)}
  BY <1>1
<1>3. DeltaPromised' = DeltaPromised
  BY <1>2 DEF DeltaPromised
<1>4. QED
  BY <1>1, <1>3 DEF DeltaTarget

LEMMA DeltaSeenType ==
  ASSUME IInv
  PROVE  /\ deltaSeen.last \in Int /\ deltaSeen.last >= -1 /\ deltaSeen.last <= LastVersion
         /\ LastVersion \in Int
         /\ request.at \in Nat \/ request.kind # "version"
         /\ DeltaTarget \in Int
<1>1. deltaSeen.last \in Int /\ deltaSeen.last >= -1 /\ deltaSeen.last <= LastVersion
  BY DEF IInv, DeltaReadInv
<1>2. request.at \in Nat \/ request.kind # "version"
  BY RequestType DEF IInv
<1>3. LastVersion \in Int
  BY DEF IInv, DeltaTableInv, LastVersion
<1>4. QED
  BY <1>1, <1>2, <1>3, TargetType

(* The rest of the reader's invariant, as long as the call stays where it  *)
(* is: what the others do changes none of it.                              *)
LEMMA DeltaAside ==
  ASSUME IInv, Aside
  PROVE  DeltaReadInv'
<1>1. /\ LastVersion \in Int /\ LastVersion' \in Int /\ LastVersion <= LastVersion'
      /\ \A v \in Int : v <= LastVersion => DeltaSnapshot(v)' = DeltaSnapshot(v)
      /\ firstJson \in Nat /\ firstJson' \in Nat /\ firstJson <= firstJson'
      /\ \A v \in 0..LastVersion : CommitTime(v)' = CommitTime(v)
  <2>1. UNCHANGED deltaTable \/ DeltaTableStep
    BY AsideType
  <2>2. QED
    BY <2>1, TableMonotonic DEF IInv
<1>2. UNCHANGED <<request, frame, pc, path, listed, upTo, active, deltaSeen>>
  BY AsideType
<1>3. DeltaTarget' = DeltaTarget /\ Traced' = Traced /\ IsRead' = IsRead /\ Reader(path)' = Reader(path)
  <2>1. \A v \in 0..deltaSeen.last : CommitTime(v)' = CommitTime(v)
    BY <1>1, DeltaSeenType
  <2>2. DeltaTarget' = DeltaTarget
    BY <1>2, <2>1, TargetStays
  <2>3. QED
    BY <1>2, <2>2 DEF Traced, IsRead
<1>4. DeltaReadInv /\ ControlInv
  BY DEF IInv
<1>5. /\ listed' \subseteq Nat /\ active' \subseteq Nat /\ upTo' \in Nat \cup {Nothing}
      /\ deltaSeen' \in [last : Int, whole : BOOLEAN]
      /\ pc' = "scan" \/ (pc' = "list" /\ request'.kind = "asOf") => upTo' \in Nat
  BY <1>2, <1>4 DEF DeltaReadInv
<1>6. -1 <= deltaSeen'.last /\ deltaSeen'.last <= LastVersion'
  BY <1>1, <1>2, DeltaSeenType
<1>7. firstJson' = 0 => firstJson = 0
  BY <1>1
<1>8. pc' = "scan" /\ firstJson' = 0 =>
        \/ \E k \in 0..(deltaSeen'.last + 1) : Scanned(k)'
        \/ listed' = {} /\ upTo' = DeltaTarget'
  <2>1. ASSUME NEW k \in 0..(deltaSeen.last + 1), Scanned(k) PROVE Scanned(k)'
    <3>1. \A v \in 0..(k - 1) : v \in 0..deltaSeen.last
      BY DeltaSeenType
    <3>2. \A v \in 0..(k - 1) : CommitTime(v)' = CommitTime(v)
      BY <1>1, <3>1, DeltaSeenType
    <3>3. QED
      BY <1>2, <2>1, <3>2 DEF Scanned, Exceeds
  <2>2. QED
    BY <1>2, <1>3, <1>4, <1>7, <2>1 DEF DeltaReadInv
<1>9. pc' = "list" => IF request'.kind = "asOf" THEN firstJson' = 0 => upTo' = DeltaTarget'
                                              ELSE upTo' = request'.at
  BY <1>2, <1>3, <1>4, <1>7 DEF DeltaReadInv
<1>10. DeltaTarget \in Int
  BY DeltaSeenType
<1>11. DeltaTarget <= LastVersion =>
         /\ DeltaTarget' <= LastVersion'
         /\ \A v \in Int : v <= DeltaTarget => DeltaSnapshot(v)' = DeltaSnapshot(v)
  <2>1. ASSUME DeltaTarget <= LastVersion, NEW v \in Int, v <= DeltaTarget PROVE v <= LastVersion
    BY <1>1, <1>10, <2>1
  <2>2. DeltaTarget <= LastVersion => DeltaTarget <= LastVersion'
    BY <1>1, <1>10
  <2>3. QED
    BY <1>1, <1>3, <2>1, <2>2
<1>12. pc' = "replay" /\ Traced' =>
         \/ listed' = {} /\ active' = {}
         \/ DeltaTarget' <= LastVersion' /\ \E k \in 0..(DeltaTarget' + 1) : Replayed(k)'
  <2>1. SUFFICES ASSUME pc = "replay", Traced, ~(listed = {} /\ active = {})
                 PROVE  DeltaTarget' <= LastVersion' /\ \E k \in 0..(DeltaTarget' + 1) : Replayed(k)'
    BY <1>2, <1>3
  <2>2. DeltaTarget <= LastVersion
    BY <1>4, <2>1 DEF DeltaReadInv
  <2>3. PICK k \in 0..(DeltaTarget + 1) : Replayed(k)
    BY <1>4, <2>1 DEF DeltaReadInv
  <2>4. k - 1 \in Int /\ k - 1 <= DeltaTarget
    BY <1>10
  <2>5. Replayed(k)'
    BY <1>2, <1>3, <1>11, <2>2, <2>3, <2>4 DEF Replayed
  <2>6. QED
    BY <1>3, <1>11, <2>2, <2>5
<1>13. pc' = "load" =>
         /\ IsFiniteSet(Rows(frame')) /\ Len(frame') = Cardinality(Rows(frame'))
         /\ Rows(frame') \cap active' = {}
         /\ Traced' => /\ DeltaTarget' <= LastVersion'
                       /\ Rows(frame') \cup active' \subseteq DeltaSnapshot(DeltaTarget)'
                       /\ deltaSeen'.whole => Rows(frame') \cup active' = DeltaSnapshot(DeltaTarget)'
  <2>1. DeltaTarget <= LastVersion => DeltaSnapshot(DeltaTarget)' = DeltaSnapshot(DeltaTarget)
    BY <1>3, <1>10, <1>11
  <2>2. UNCHANGED Rows(frame)
    BY <1>2 DEF Rows
  <2>3. QED
    BY <1>2, <1>3, <1>4, <1>11, <2>1, <2>2 DEF DeltaReadInv
<1>14. (IsRead /\ Reader(path) = "delta" /\ Traced)' =>
         /\ DeltaTarget' <= LastVersion'
         /\ Rows(frame') \subseteq DeltaSnapshot(DeltaTarget)'
         /\ deltaSeen'.whole => HoldsOnce(frame', DeltaSnapshot(DeltaTarget)')
  <2>1. DeltaTarget <= LastVersion => DeltaSnapshot(DeltaTarget)' = DeltaSnapshot(DeltaTarget)
    BY <1>3, <1>10, <1>11
  <2>2. UNCHANGED Rows(frame) /\ UNCHANGED Len(frame)
    BY <1>2 DEF Rows
  <2>3. SUFFICES ASSUME IsRead, Reader(path) = "delta", Traced
                 PROVE  /\ DeltaTarget' <= LastVersion'
                        /\ Rows(frame') \subseteq DeltaSnapshot(DeltaTarget)'
                        /\ deltaSeen'.whole => HoldsOnce(frame', DeltaSnapshot(DeltaTarget)')
    BY <1>3
  <2>4. /\ DeltaTarget <= LastVersion
        /\ Rows(frame) \subseteq DeltaSnapshot(DeltaTarget)
        /\ deltaSeen.whole => HoldsOnce(frame, DeltaSnapshot(DeltaTarget))
    BY <1>4, <2>3 DEF DeltaReadInv
  <2>5. QED
    BY <1>2, <1>11, <2>1, <2>2, <2>4 DEF HoldsOnce
<1>15. QED
  BY <1>5, <1>6, <1>8, <1>9, <1>12, <1>13, <1>14 DEF DeltaReadInv

(* What the steps of the reader have in common. *)
LEMMA DeltaReading ==
  ASSUME IInv, ReadDelta
  PROVE  /\ UNCHANGED <<request, path, LastVersion, firstJson, vacuumed, commits, Reader(path)>>
         /\ \A v \in Int : DeltaSnapshot(v)' = DeltaSnapshot(v)
         /\ Reader(path) = "delta" /\ request.kind \in {"latest", "version", "asOf"}
         /\ LastVersion \in Int /\ LastVersion >= -1 /\ firstJson \in Nat
         /\ firstJson = 0 \/ firstJson <= LastVersion
         /\ listed \in SUBSET Nat /\ active \in SUBSET Nat /\ upTo \in Nat \cup {Nothing}
         /\ deltaSeen \in [last : Int, whole : BOOLEAN] /\ deltaSeen.last \in Int
         /\ -1 <= deltaSeen.last /\ deltaSeen.last <= LastVersion
         /\ \A v : CommitTime(v)' = CommitTime(v)
         /\ Nothing \notin Int
<1>1. UNCHANGED <<request, path, firstJson, vacuumed, commits>> /\ pc \in DeltaSteps
  BY ReadersType
<1>2. LastVersion' = LastVersion /\ \A v \in Int : DeltaSnapshot(v)' = DeltaSnapshot(v)
  BY <1>1 DEF LastVersion, DeltaSnapshot, Adds, Removes
<1>3. LastVersion \in Int /\ LastVersion >= -1 /\ firstJson \in Nat /\ (firstJson = 0 \/ firstJson <= LastVersion)
  BY DEF IInv, DeltaTableInv, LastVersion
<1>4. listed \in SUBSET Nat /\ active \in SUBSET Nat /\ upTo \in Nat \cup {Nothing}
  BY DEF IInv, DeltaReadInv
<1>5. deltaSeen \in [last : Int, whole : BOOLEAN]
  BY DEF IInv, DeltaReadInv
<1>6. deltaSeen.last \in Int
  BY <1>5
<1>7. Reader(path) = "delta" /\ request.kind \in {"latest", "version", "asOf"}
  BY <1>1 DEF IInv, ControlInv
<1>8. UNCHANGED Reader(path)
  BY <1>1
<1>9. -1 <= deltaSeen.last /\ deltaSeen.last <= LastVersion
  BY DeltaSeenType
<1>10. \A v : CommitTime(v)' = CommitTime(v)
  BY <1>1 DEF CommitTime
<1>11. QED
  BY <1>1, <1>2, <1>3, <1>4, <1>5, <1>6, <1>7, <1>8, <1>9, <1>10, NothingAssumption

LEMMA ScanListStep ==
  ASSUME IInv, ReadDelta, DeltaScanList
  PROVE  DeltaReadInv'
<1>1. /\ pc = "scanList" /\ pc' = "scan" /\ listed' = firstJson..LastVersion /\ upTo' = 0
      /\ deltaSeen' = [deltaSeen EXCEPT !.last = LastVersion] /\ active' = active
  BY DEF DeltaScanList, JsonCommits, Goto
<1>2. deltaSeen' \in [last : Int, whole : BOOLEAN] /\ deltaSeen'.last = LastVersion
  BY <1>1, DeltaReading
<1>3. firstJson' = 0 => 0 \in 0..(deltaSeen'.last + 1) /\ Scanned(0)'
  BY <1>1, <1>2, DeltaReading DEF Scanned
<1>4. listed' \subseteq Nat /\ active' \subseteq Nat
  BY <1>1, DeltaReading
<1>5. -1 <= deltaSeen'.last /\ deltaSeen'.last <= LastVersion'
  BY <1>2, DeltaReading
<1>6. QED
  BY <1>1, <1>2, <1>3, <1>4, <1>5 DEF DeltaReadInv, IsRead

LEMMA ScanCommitStep ==
  ASSUME IInv, ReadDelta, DeltaScanCommit
  PROVE  DeltaReadInv'
<1> DEFINE v == Lowest(listed)
<1>1. /\ pc = "scan" /\ pc' = "scan" /\ listed # {} /\ UNCHANGED <<request, deltaSeen, active>>
      /\ \/ Counts(v) /\ upTo' = v /\ listed' = listed \ {v}
         \/ ~Counts(v) /\ upTo' = upTo /\ listed' = {}
  BY DEF DeltaScanCommit
<1>2. v \in listed
  <2>1. \E n \in listed : \A m \in listed : n <= m
    BY <1>1, DeltaReading, LeastExists
  <2>2. QED
    BY <2>1 DEF Lowest
<1>3. upTo' \in Nat /\ listed' \subseteq Nat /\ active' \subseteq Nat
  <2>1. upTo \in Nat
    BY <1>1 DEF IInv, DeltaReadInv
  <2>2. QED
    BY <1>1, <1>2, <2>1, DeltaReading
<1>4. deltaSeen' \in [last : Int, whole : BOOLEAN] /\ -1 <= deltaSeen'.last /\ deltaSeen'.last <= LastVersion'
  <2>1. -1 <= deltaSeen.last /\ deltaSeen.last <= LastVersion
    BY <1>1 DEF IInv, DeltaReadInv
  <2>2. QED
    BY <1>1, <2>1, DeltaReading
<1>5. ASSUME firstJson = 0
      PROVE  \/ \E k \in 0..(deltaSeen'.last + 1) : Scanned(k)'
             \/ listed' = {} /\ upTo' = DeltaTarget'
  <2>1. \/ \E k \in 0..(deltaSeen.last + 1) : Scanned(k)
        \/ listed = {} /\ upTo = DeltaTarget
    BY <1>1, <1>5 DEF IInv, DeltaReadInv
  <2>2. PICK k \in 0..(deltaSeen.last + 1) : Scanned(k)
    BY <1>1, <2>1
  <2>3. listed = k..deltaSeen.last /\ k \in Nat /\ k <= deltaSeen.last
    BY <1>1, <2>2, DeltaReading DEF Scanned
  <2> HIDE DEF v
  <2>4. v = k
    BY <2>3, DeltaReading, ExtremesOfInterval DEF v
  <2>5. Counts(v) <=> ~Exceeds(k)
    <3>1. CommitTime(k) \in Nat \cup {Nothing}
      <4>1. commits \in Seq(Commit) /\ k + 1 \in 1..Len(commits)
        BY <2>3, DeltaReading DEF IInv, DeltaTableInv, LastVersion
      <4>2. commits[k + 1] \in Commit
        BY <4>1
      <4>3. QED
        BY <4>2 DEF CommitTime, Commit
    <3>2. request.at \in Nat
      BY <1>1, RequestType DEF IInv, ControlInv
    <3>3. v >= firstJson
      BY <1>5, <2>3, <2>4
    <3>4. QED
      BY <2>4, <3>1, <3>2, <3>3, DeltaReading DEF Counts, Exceeds
  <2>6. CASE Counts(v)
    <3>1. k + 1 \in 0..(deltaSeen'.last + 1) /\ (k + 1) - 1 = k /\ k + 1 # 0
      BY <1>1, <2>3, DeltaReading
    <3>2. upTo' = k /\ listed' = (k + 1)..deltaSeen'.last
      <4>1. upTo' = k /\ listed' = listed \ {k} /\ deltaSeen' = deltaSeen
        BY <1>1, <2>4, <2>6
      <4>2. (k..deltaSeen.last) \ {k} = (k + 1)..deltaSeen.last
        BY <2>3, DeltaReading
      <4>3. QED
        BY <2>3, <4>1, <4>2
    <3>3. ASSUME NEW u \in 0..k PROVE ~Exceeds(u)
      <4>1. CASE u = k
        BY <2>5, <2>6, <4>1
      <4>2. CASE u # k
        <5>1. u \in 0..(k - 1)
          BY <2>3, <4>2
        <5>2. QED
          BY <2>2, <5>1 DEF Scanned
      <4>3. QED
        BY <4>1, <4>2
    <3>4. Scanned(k + 1)'
      BY <1>1, <3>1, <3>2, <3>3, DeltaReading DEF Scanned, Exceeds
    <3>5. QED
      BY <3>1, <3>4
  <2>7. CASE ~Counts(v)
    <3>1. request.kind = "asOf"
      BY <1>1 DEF IInv, ControlInv
    <3>2. DeltaTarget = IF k = 0 THEN 0 ELSE k - 1
      BY <2>2, <2>3, <2>5, <2>7, <3>1, DeltaReading, TargetOfTime DEF Scanned
    <3>3. upTo' = DeltaTarget
      BY <1>1, <2>2, <2>7, <3>2 DEF Scanned
    <3>4. QED
      BY <1>1, <2>7, <3>3, DeltaReading, TargetStays
  <2>8. QED
    BY <2>6, <2>7
<1>6. firstJson' = firstJson
  BY DeltaReading
<1> HIDE DEF v
<1>7. QED
  BY <1>1, <1>3, <1>4, <1>5, <1>6 DEF DeltaReadInv, IsRead

LEMMA ScannedStep ==
  ASSUME IInv, ReadDelta, DeltaScanned
  PROVE  DeltaReadInv'
<1>1. /\ pc = "scan" /\ pc' = "list" /\ listed = {}
      /\ UNCHANGED <<request, listed, upTo, active, deltaSeen>>
  BY DEF DeltaScanned, Goto
<1>2. request.kind = "asOf" /\ upTo \in Nat
  BY <1>1 DEF IInv, ControlInv, DeltaReadInv
<1>3. ASSUME firstJson = 0 PROVE upTo = DeltaTarget
  <2>1. \/ \E k \in 0..(deltaSeen.last + 1) : Scanned(k)
        \/ upTo = DeltaTarget
    BY <1>1, <1>3 DEF IInv, DeltaReadInv
  <2>2. ASSUME NEW k \in 0..(deltaSeen.last + 1), Scanned(k) PROVE upTo = DeltaTarget
    <3>1. k..deltaSeen.last = {}
      BY <1>1, <2>2 DEF Scanned
    <3>2. ~(k <= deltaSeen.last)
      <4>1. k <= deltaSeen.last => k \in k..deltaSeen.last
        BY DeltaReading
      <4>2. QED
        BY <3>1, <4>1
    <3>3. DeltaTarget = IF k = 0 THEN 0 ELSE k - 1
      BY <1>2, <2>2, <3>2, DeltaReading, TargetOfTime DEF Scanned
    <3>4. QED
      BY <2>2, <3>3 DEF Scanned
  <2>3. QED
    BY <2>1, <2>2
<1>4. DeltaTarget' = DeltaTarget /\ firstJson' = firstJson
  BY <1>1, DeltaReading, TargetStays
<1>5. -1 <= deltaSeen.last /\ deltaSeen.last <= LastVersion
  BY <1>1 DEF IInv, DeltaReadInv
<1>6. QED
  BY <1>1, <1>2, <1>3, <1>4, <1>5, DeltaReading DEF DeltaReadInv, IsRead

(* The listing is cut at the version asked for. *)
LEMMA ListStep ==
  ASSUME IInv, ReadDelta, DeltaList
  PROVE  DeltaReadInv'
<1>1. /\ pc = "list" /\ pc' = "replay" /\ active' = {} /\ UNCHANGED <<request, upTo>>
      /\ listed' = {v \in firstJson..LastVersion : upTo = Nothing \/ v <= upTo}
      /\ deltaSeen' = [last |-> IF request.kind = "asOf" THEN deltaSeen.last ELSE LastVersion,
                       whole |-> firstJson = 0]
  BY DEF DeltaList, JsonCommits, Goto
<1>2. IF request.kind = "asOf" THEN firstJson = 0 => upTo = DeltaTarget ELSE upTo = request.at
  BY <1>1 DEF IInv, DeltaReadInv
<1>3. /\ deltaSeen'.last = IF request.kind = "asOf" THEN deltaSeen.last ELSE LastVersion
      /\ deltaSeen'.whole <=> firstJson = 0
      /\ deltaSeen' \in [last : Int, whole : BOOLEAN]
  <2>1. (firstJson = 0) \in BOOLEAN
    OBVIOUS
  <2>2. QED
    BY <1>1, <2>1, DeltaReading
<1>4. /\ request.kind \in {"latest", "version", "asOf"}
      /\ request.kind \in {"version", "asOf"} => request.at \in Nat
      /\ request.kind = "latest" => request.at = Nothing
  BY DeltaReading, RequestType DEF IInv
<1>5. listed' \subseteq Nat /\ active' \subseteq Nat
  BY <1>1, DeltaReading
<1>6. ASSUME Traced'
      PROVE  \/ listed' = {}
             \/ DeltaTarget' <= LastVersion /\ DeltaTarget' \in Int /\ listed' = firstJson..DeltaTarget'
  <2>1. CASE request.kind = "latest"
    <3>1. DeltaTarget' = LastVersion
      BY <1>1, <1>3, <2>1 DEF DeltaTarget, DeltaPromised
    <3>2. listed' = firstJson..LastVersion
      BY <1>1, <1>2, <1>4, <2>1
    <3>3. QED
      BY <3>1, <3>2, DeltaReading
  <2>2. CASE request.kind = "version"
    <3>1. DeltaTarget' = Least(request.at, LastVersion)
      BY <1>1, <1>3, <1>4, <2>2, DeltaReading DEF DeltaTarget, DeltaPromised, Least
    <3>2. upTo = request.at /\ upTo \in Nat /\ upTo # Nothing
      BY <1>2, <1>4, <2>2, DeltaReading
    <3>3. listed' = {v \in firstJson..LastVersion : v <= upTo}
      BY <1>1, <3>2
    <3>4. DeltaTarget' <= LastVersion /\ DeltaTarget' \in Int
      BY <3>1, <3>2, DeltaReading DEF Least
    <3>5. ASSUME NEW v \in Int PROVE v <= DeltaTarget' <=> v <= LastVersion /\ v <= upTo
      BY <3>1, <3>2, DeltaReading DEF Least
    <3>6. ASSUME NEW v PROVE v \in listed' <=> v \in firstJson..DeltaTarget'
      <4>1. CASE v \in Int
        BY <3>3, <3>4, <3>5, <4>1, DeltaReading
      <4>2. CASE v \notin Int
        BY <3>3, <4>2
      <4>3. QED
        BY <4>1, <4>2
    <3>7. listed' = firstJson..DeltaTarget'
      BY <3>6
    <3>8. QED
      BY <3>4, <3>7
  <2>3. CASE request.kind = "asOf"
    <3>1. firstJson = 0 /\ DeltaTarget' = DeltaTarget
      <4>1. firstJson = 0 /\ deltaSeen'.last = deltaSeen.last
        BY <1>1, <1>3, <1>6, <2>3 DEF Traced
      <4>2. QED
        BY <1>1, <4>1, DeltaReading, TargetStays
    <3>2. upTo = DeltaTarget
      BY <1>2, <2>3, <3>1
    <3>3. DeltaTarget \in Nat /\ (DeltaTarget = 0 \/ DeltaTarget <= deltaSeen.last)
      BY <2>3, DeltaSeenType, TargetType
    <3>4. deltaSeen.last <= LastVersion
      BY <1>1, <2>3 DEF IInv, DeltaReadInv
    <3>5. upTo # Nothing
      BY <3>2, <3>3, DeltaReading
    <3>6. listed' = {v \in 0..LastVersion : v <= DeltaTarget}
      BY <1>1, <3>1, <3>2, <3>5
    <3>7. CASE LastVersion = -1
      BY <3>6, <3>7
    <3>8. CASE LastVersion # -1
      <4>1. DeltaTarget <= LastVersion
        BY <3>3, <3>4, <3>8, DeltaReading
      <4>2. ASSUME NEW v PROVE v \in listed' <=> v \in 0..DeltaTarget
        BY <3>3, <3>6, <4>1, DeltaReading
      <4>3. listed' = 0..DeltaTarget
        BY <4>2
      <4>4. QED
        BY <3>1, <3>3, <4>1, <4>3
    <3>9. QED
      BY <3>7, <3>8
  <2>4. QED
    BY <1>4, <2>1, <2>2, <2>3
<1>7. ASSUME Traced'
      PROVE  \/ listed' = {} /\ active' = {}
             \/ DeltaTarget' <= LastVersion' /\ \E k \in 0..(DeltaTarget' + 1) : Replayed(k)'
  <2>1. CASE listed' = {}
    BY <1>1, <2>1
  <2>2. CASE listed' # {}
    <3>1. DeltaTarget' <= LastVersion /\ DeltaTarget' \in Int /\ listed' = firstJson..DeltaTarget'
      BY <1>6, <1>7, <2>2
    <3>2. firstJson \in 0..(DeltaTarget' + 1)
      BY <2>2, <3>1, DeltaReading
    <3>3. deltaSeen'.whole => DeltaSnapshot(firstJson - 1)' = {}
      <4>1. -1 \in Int /\ 0 - 1 = -1
        OBVIOUS
      <4>2. DeltaSnapshot(-1)' = {}
        BY <4>1, NoSnapshot, DeltaReading
      <4>3. ASSUME firstJson = 0 PROVE DeltaSnapshot(firstJson - 1)' = {}
        <5>1. firstJson' - 1 = -1
          BY <4>1, <4>3, DeltaReading
        <5>2. QED
          BY <4>2, <5>1
      <4>4. QED
        BY <1>3, <4>3
    <3>4. Replayed(firstJson)'
      BY <1>1, <3>1, <3>3, DeltaReading DEF Replayed
    <3>5. QED
      BY <3>1, <3>2, <3>4, DeltaReading
  <2>3. QED
    BY <2>1, <2>2
<1>8. upTo' \in Nat \cup {Nothing}
  BY <1>1, DeltaReading
<1>9. -1 <= deltaSeen'.last /\ deltaSeen'.last <= LastVersion'
  BY <1>3, DeltaReading
<1>10. QED
  BY <1>1, <1>3, <1>5, <1>7, <1>8, <1>9 DEF DeltaReadInv, IsRead

LEMMA DeltaTargetSame ==
  ASSUME UNCHANGED <<request, deltaSeen, commits>>
  PROVE  DeltaTarget' = DeltaTarget /\ Traced' = Traced
<1>1. \A v \in 0..deltaSeen.last : CommitTime(v)' = CommitTime(v)
  BY DEF CommitTime
<1>2. QED
  BY <1>1, TargetStays DEF Traced

(* A commit is replayed on the snapshot before it. *)
LEMMA ReplayStep ==
  ASSUME IInv, ReadDelta, DeltaReplay
  PROVE  DeltaReadInv'
<1>1. PICK v \in listed : NextListed(v) /\
        \/ /\ v >= firstJson
           /\ active' = (active \cup Adds(v)) \ Removes(v)
           /\ listed' = listed \ {v}
           /\ UNCHANGED <<request, frame, pc>>
        \/ v < firstJson /\ Fail /\ UNCHANGED <<active, listed>>
  BY DEF DeltaReplay
<1>2. pc = "replay" /\ UNCHANGED <<upTo, deltaSeen>> /\ v \in Nat /\ v = Lowest(listed)
  BY <1>1, DeltaReading DEF DeltaReplay, NextListed
<1>3. /\ upTo' \in Nat \cup {Nothing} /\ deltaSeen' \in [last : Int, whole : BOOLEAN]
      /\ -1 <= deltaSeen'.last /\ deltaSeen'.last <= LastVersion'
  BY <1>2, DeltaReading
<1>4. CASE Fail /\ UNCHANGED <<active, listed>>
  BY <1>3, <1>4, DeltaReading DEF Fail, DeltaReadInv, IsRead
<1>5. CASE /\ active' = (active \cup Adds(v)) \ Removes(v)
           /\ listed' = listed \ {v}
           /\ UNCHANGED <<request, frame, pc>>
  <2>1. active' \subseteq Nat /\ listed' \subseteq Nat
    BY <1>2, <1>5, DeltaReading DEF Adds
  <2>2. DeltaTarget' = DeltaTarget /\ Traced' = Traced
    BY <1>2, <1>5, DeltaReading, DeltaTargetSame
  <2>3. ASSUME Traced
        PROVE  DeltaTarget' <= LastVersion' /\ \E k \in 0..(DeltaTarget' + 1) : Replayed(k)'
    <3>1. DeltaTarget <= LastVersion /\ \E k \in 0..(DeltaTarget + 1) : Replayed(k)
      BY <1>1, <1>2, <2>3 DEF IInv, DeltaReadInv
    <3>2. PICK k \in 0..(DeltaTarget + 1) : Replayed(k)
      BY <3>1
    <3>3. listed = k..DeltaTarget /\ k \in Nat /\ DeltaTarget \in Int
      BY <3>2, DeltaSeenType DEF Replayed
    <3>4. k <= DeltaTarget
      BY <1>1, <3>3
    <3>5. v = k
      BY <1>2, <3>3, <3>4, ExtremesOfInterval
    <3>6. k + 1 \in 0..(DeltaTarget + 1) /\ (k + 1) - 1 = k /\ k - 1 \in Int /\ k \in Int
      BY <3>3, <3>4
    <3>7. (k..DeltaTarget) \ {k} = (k + 1)..DeltaTarget
      BY <3>3, <3>4
    <3>8. DeltaSnapshot(k)' = (DeltaSnapshot(k - 1) \cup Adds(k)) \ Removes(k)
      <4>1. DeltaSnapshot(k) = (DeltaSnapshot(k - 1) \cup Adds(k)) \ Removes(k)
        BY <3>3, SnapshotStep
      <4>2. DeltaSnapshot(k)' = DeltaSnapshot(k)
        BY <3>6, DeltaReading
      <4>3. QED
        BY <4>1, <4>2
    <3>9. active' \subseteq DeltaSnapshot(k)' /\ (deltaSeen.whole => active' = DeltaSnapshot(k)')
      BY <1>5, <3>2, <3>5, <3>8 DEF Replayed
    <3>10. listed' = (k + 1)..DeltaTarget
      BY <1>5, <3>3, <3>5, <3>7
    <3>11. Replayed(k + 1)'
      BY <1>2, <2>2, <3>6, <3>9, <3>10 DEF Replayed
    <3>12. QED
      BY <2>2, <3>1, <3>6, <3>11, DeltaReading
  <2>4. QED
    BY <1>2, <1>3, <1>5, <2>1, <2>2, <2>3 DEF DeltaReadInv, IsRead
<1>6. QED
  BY <1>1, <1>4, <1>5

LEMMA ResolvedStep ==
  ASSUME IInv, ReadDelta, DeltaResolved
  PROVE  DeltaReadInv'
<1>1. /\ pc = "replay" /\ listed = {} /\ UNCHANGED <<listed, upTo, active, deltaSeen, request, frame>>
      /\ pc' = IF active = {} THEN "failed" ELSE "load"
  BY DEF DeltaResolved, Fail, Goto
<1>2. frame = << >>
  BY <1>1 DEF IInv, ControlInv, DeltaSteps
<1>3. IsFiniteSet(Rows(frame)) /\ Len(frame) = Cardinality(Rows(frame)) /\ Rows(frame) = {}
  <2>1. Rows(frame) = {} /\ Len(frame) = 0
    BY <1>2 DEF Rows
  <2>2. QED
    BY <2>1, FS_EmptySet
<1>4. DeltaTarget' = DeltaTarget /\ Traced' = Traced
  BY <1>1, DeltaReading, DeltaTargetSame
<1>5. ASSUME active # {}, Traced
      PROVE  /\ DeltaTarget <= LastVersion
             /\ active \subseteq DeltaSnapshot(DeltaTarget)
             /\ deltaSeen.whole => active = DeltaSnapshot(DeltaTarget)
  <2>1. DeltaTarget <= LastVersion /\ \E k \in 0..(DeltaTarget + 1) : Replayed(k)
    BY <1>1, <1>5 DEF IInv, DeltaReadInv
  <2>2. PICK k \in 0..(DeltaTarget + 1) : Replayed(k)
    BY <2>1
  <2>3. k - 1 = DeltaTarget
    <3>1. k <= DeltaTarget => k \in k..DeltaTarget
      BY DeltaSeenType
    <3>2. k..DeltaTarget = {}
      BY <1>1, <2>2 DEF Replayed
    <3>3. QED
      BY <3>1, <3>2, DeltaSeenType
  <2>4. QED
    BY <2>1, <2>2, <2>3 DEF Replayed
<1>6. DeltaSnapshot(DeltaTarget)' = DeltaSnapshot(DeltaTarget)
  BY <1>4, DeltaSeenType, DeltaReading
<1>7. Rows(frame)' = {} /\ IsFiniteSet(Rows(frame))' /\ Len(frame)' = Cardinality(Rows(frame))'
  BY <1>1, <1>3 DEF Rows
<1>8. /\ listed' \subseteq Nat /\ active' \subseteq Nat /\ upTo' \in Nat \cup {Nothing}
      /\ deltaSeen' \in [last : Int, whole : BOOLEAN]
      /\ -1 <= deltaSeen'.last /\ deltaSeen'.last <= LastVersion'
  BY <1>1, DeltaReading
<1>9. CASE active = {}
  BY <1>1, <1>8, <1>9 DEF DeltaReadInv, IsRead
<1>10. CASE active # {}
  BY <1>1, <1>4, <1>5, <1>6, <1>7, <1>8, <1>10, DeltaReading DEF DeltaReadInv, IsRead
<1>11. QED
  BY <1>9, <1>10

(* Each active file goes to the frame once. *)
LEMMA LoadStep ==
  ASSUME IInv, ReadDelta, DeltaLoad
  PROVE  DeltaReadInv'
<1>1. PICK f \in active :
        \/ f \notin vacuumed /\ Load(f, active = {f}) /\ active' = active \ {f}
        \/ f \in vacuumed /\ Fail /\ UNCHANGED active
  BY DEF DeltaLoad
<1>2. pc = "load" /\ UNCHANGED <<listed, upTo, deltaSeen>>
  BY DEF DeltaLoad
<1>3. UNCHANGED request
  BY DeltaReading
<1>4. /\ listed' \subseteq Nat /\ upTo' \in Nat \cup {Nothing}
      /\ deltaSeen' \in [last : Int, whole : BOOLEAN]
      /\ -1 <= deltaSeen'.last /\ deltaSeen'.last <= LastVersion'
  BY <1>2, DeltaReading
<1>5. CASE Fail /\ UNCHANGED active
  BY <1>4, <1>5, DeltaReading DEF Fail, DeltaReadInv, IsRead
<1>6. CASE Load(f, active = {f}) /\ active' = active \ {f}
  <2>1. frame' = Append(frame, f) /\ pc' = IF active = {f} THEN "read" ELSE "load"
    BY <1>2, <1>6 DEF Load
  <2>2. frame \in Seq(Nat) /\ f \in Nat /\ Len(frame) \in Nat
    <3>1. frame \in Seq(Nat)
      BY DEF IInv, ControlInv
    <3>2. QED
      BY <1>1, <3>1, DeltaReading
  <2>3. Rows(frame') = Rows(frame) \cup {f} /\ Len(frame') = Len(frame) + 1
    <3>1. /\ DOMAIN frame' = 1..(Len(frame) + 1) /\ Len(frame') = Len(frame) + 1
          /\ DOMAIN frame = 1..Len(frame) /\ frame'[Len(frame) + 1] = f
      BY <2>1, <2>2
    <3>2. \A i \in DOMAIN frame : frame'[i] = frame[i]
      BY <2>1, <2>2
    <3>3. DOMAIN frame' = DOMAIN frame \cup {Len(frame) + 1}
      BY <2>2, <3>1
    <3>4. QED
      BY <3>1, <3>2, <3>3 DEF Rows
  <2>4. /\ IsFiniteSet(Rows(frame)) /\ Len(frame) = Cardinality(Rows(frame))
        /\ Rows(frame) \cap active = {}
    BY <1>2 DEF IInv, DeltaReadInv
  <2>5. f \notin Rows(frame)
    BY <2>4
  <2>6. IsFiniteSet(Rows(frame')) /\ Len(frame') = Cardinality(Rows(frame'))
    <3>1. /\ IsFiniteSet(Rows(frame) \cup {f})
          /\ Cardinality(Rows(frame) \cup {f}) = Cardinality(Rows(frame)) + 1
      BY <2>4, <2>5, FS_AddElement
    <3>2. QED
      BY <2>3, <2>4, <3>1
  <2>7. Rows(frame') \cup active' = Rows(frame) \cup active /\ Rows(frame') \cap active' = {}
    BY <1>1, <1>6, <2>3, <2>4
  <2>8. DeltaTarget' = DeltaTarget /\ Traced' = Traced
    BY <1>2, <1>3, DeltaReading, DeltaTargetSame
  <2>9. DeltaSnapshot(DeltaTarget)' = DeltaSnapshot(DeltaTarget)
    BY <2>8, DeltaSeenType, DeltaReading
  <2>10. Traced => /\ DeltaTarget' <= LastVersion'
                   /\ Rows(frame') \cup active' \subseteq DeltaSnapshot(DeltaTarget)'
                   /\ deltaSeen'.whole => Rows(frame') \cup active' = DeltaSnapshot(DeltaTarget)'
    BY <1>2, <2>7, <2>8, <2>9, DeltaReading DEF IInv, DeltaReadInv
  <2>11. pc' = "read" => active' = {}
    BY <1>6, <2>1
  <2>12. active' \subseteq Nat
    BY <1>6, DeltaReading
  <2>13. pc' \in {"read", "load"}
    BY <2>1
  <2>14. (IsRead /\ Traced)' =>
           /\ DeltaTarget' <= LastVersion'
           /\ Rows(frame') \subseteq DeltaSnapshot(DeltaTarget)'
           /\ deltaSeen'.whole => HoldsOnce(frame', DeltaSnapshot(DeltaTarget)')
    <3>1. SUFFICES ASSUME pc' = "read", Traced
                   PROVE  /\ DeltaTarget' <= LastVersion'
                          /\ Rows(frame') \subseteq DeltaSnapshot(DeltaTarget)'
                          /\ deltaSeen'.whole => HoldsOnce(frame', DeltaSnapshot(DeltaTarget)')
      BY <2>8, <2>13 DEF IsRead
    <3>2. Rows(frame') = Rows(frame') \cup active'
      BY <2>11, <3>1
    <3>3. QED
      BY <2>6, <2>10, <3>1, <3>2 DEF HoldsOnce
  <2>15. QED
    BY <1>4, <2>6, <2>7, <2>8, <2>10, <2>12, <2>13, <2>14 DEF DeltaReadInv
<1>7. QED
  BY <1>1, <1>5, <1>6

(* The invariant of the Delta reader, whoever steps. *)
LEMMA DeltaStep ==
  ASSUME IInv, [Next]_vars
  PROVE  DeltaReadInv'
<1>1. CASE Aside
  BY <1>1, DeltaAside
<1>2. CASE ReadDelta
  BY <1>2, ScanListStep, ScanCommitStep, ScannedStep, ListStep, ReplayStep, ResolvedStep, LoadStep
     DEF ReadDelta, DeltaReadStep
<1>3. /\ listed \subseteq Nat /\ active \subseteq Nat /\ upTo \in Nat \cup {Nothing}
      /\ deltaSeen \in [last : Int, whole : BOOLEAN]
      /\ -1 <= deltaSeen.last /\ deltaSeen.last <= LastVersion
      /\ UNCHANGED deltaTable => LastVersion' = LastVersion
  BY DEF IInv, DeltaReadInv, LastVersion
<1>4. CASE Opening
  <2>6. LastVersion' = LastVersion
    BY <1>3, <1>4, OpeningType
  <2>1. CASE \E r \in Requests : OpensDelta(r)
    <3>1. PICK r \in Requests : OpensDelta(r)
      BY <2>1
    <3>2. /\ pc' = (IF r.kind = "asOf" THEN "scanList" ELSE "list") /\ request' = r
          /\ upTo' = r.at /\ UNCHANGED <<listed, active, deltaSeen>>
      BY <3>1 DEF OpensDelta, DeltaBegin, Request
    <3>3. r.at \in Nat \cup {Nothing}
      BY <3>1, CommitsAssumption DEF Requests
    <3>4. QED
      BY <1>3, <2>6, <3>2, <3>3 DEF DeltaReadInv, IsRead
  <2>2. CASE \E r \in Requests : OpensIceberg(r)
    <3>1. pc' = "hint" /\ UNCHANGED <<listed, active, upTo, deltaSeen>>
      BY <2>2 DEF OpensIceberg, IcebergBegin, Request
    <3>2. QED
      BY <1>3, <2>6, <3>1 DEF DeltaReadInv, IsRead
  <2>3. CASE OpensFile
    <3>1. /\ pc' = "read" /\ UNCHANGED <<listed, active, upTo, deltaSeen>> /\ Reader(path)' # "delta"
      BY <1>4, <2>3, OpeningType DEF OpensFile
    <3>2. QED
      BY <1>3, <2>6, <3>1 DEF DeltaReadInv, IsRead
  <2>4. CASE Fail /\ UNCHANGED deltaRead
    <3>1. pc' = "failed" /\ UNCHANGED <<listed, active, upTo, deltaSeen>>
      BY <2>4 DEF Fail
    <3>2. QED
      BY <1>3, <2>6, <3>1 DEF DeltaReadInv, IsRead
  <2>5. QED
    BY <1>4, <2>1, <2>2, <2>3, <2>4, OpeningType
<1>5. CASE ReadIceberg
  <2>1. /\ pc' \in IcebergSteps \cup {"read", "failed"} /\ UNCHANGED <<listed, active, upTo, deltaSeen>>
        /\ Reader(path)' = Reader(path) /\ Reader(path) = "iceberg" /\ LastVersion' = LastVersion
    BY <1>3, <1>5, ReadersType DEF IInv, ControlInv
  <2>2. QED
    BY <1>3, <2>1 DEF DeltaReadInv, IsRead, IcebergSteps
<1>6. CASE Cutting
  <2>1. /\ pc \in {"read", "slice"} /\ pc' \in {"slice", "ended"}
        /\ UNCHANGED <<request, frame, listed, active, upTo, deltaSeen, path, commits>>
    BY <1>6, CuttingType
  <2>2. /\ DeltaTarget' = DeltaTarget /\ Traced' = Traced /\ LastVersion' = LastVersion
        /\ Reader(path)' = Reader(path) /\ IsRead /\ IsRead'
    BY <2>1, DeltaTargetSame DEF LastVersion, IsRead
  <2>3. DeltaSnapshot(DeltaTarget)' = DeltaSnapshot(DeltaTarget) /\ Rows(frame)' = Rows(frame)
    <3>1. \A v \in Int : DeltaSnapshot(v)' = DeltaSnapshot(v)
      BY <2>1 DEF DeltaSnapshot, Adds, Removes
    <3>2. QED
      BY <2>1, <2>2, <3>1, DeltaSeenType DEF Rows
  <2>4. (Reader(path) = "delta" /\ Traced)' =>
           /\ DeltaTarget' <= LastVersion'
           /\ Rows(frame') \subseteq DeltaSnapshot(DeltaTarget)'
           /\ deltaSeen'.whole => HoldsOnce(frame', DeltaSnapshot(DeltaTarget)')
    <3>1. Reader(path) = "delta" /\ Traced =>
            /\ DeltaTarget <= LastVersion
            /\ Rows(frame) \subseteq DeltaSnapshot(DeltaTarget)
            /\ deltaSeen.whole => HoldsOnce(frame, DeltaSnapshot(DeltaTarget))
      BY <2>2 DEF IInv, DeltaReadInv
    <3>2. QED
      BY <2>1, <2>2, <2>3, <3>1 DEF HoldsOnce
  <2>5. QED
    BY <1>3, <2>1, <2>2, <2>4 DEF DeltaReadInv
<1>7. QED
  BY <1>1, <1>2, <1>4, <1>5, <1>6, StepCases

(* A read as of a time, whoever steps. *)
LEMMA RowsAppend ==
  ASSUME NEW rows \in Seq(Nat), NEW f \in Nat
  PROVE  Rows(Append(rows, f)) = Rows(rows) \cup {f}
<1> DEFINE longer == Append(rows, f)
<1>1. /\ DOMAIN longer = 1..(Len(rows) + 1) /\ DOMAIN rows = 1..Len(rows) /\ longer[Len(rows) + 1] = f
      /\ Len(rows) \in Nat
  OBVIOUS
<1>2. \A i \in DOMAIN rows : longer[i] = rows[i]
  OBVIOUS
<1>3. DOMAIN longer = DOMAIN rows \cup {Len(rows) + 1}
  BY <1>1
<1> HIDE DEF longer
<1>4. Rows(longer) = Rows(rows) \cup {f}
  BY <1>1, <1>2, <1>3 DEF Rows
<1>5. QED
  BY <1>4 DEF longer

LEMMA TimeScan ==
  ASSUME IInv, ReadDelta, DeltaScanCommit
  PROVE  DeltaTimeInv'
<1> DEFINE v == Lowest(listed)
<1>1. /\ pc = "scan" /\ pc' = "scan" /\ listed # {} /\ UNCHANGED <<request, deltaSeen>>
      /\ \/ Counts(v) /\ upTo' = v /\ listed' = listed \ {v}
         \/ ~Counts(v) /\ upTo' = upTo /\ listed' = {}
  BY DEF DeltaScanCommit
<1>2. request.kind = "asOf" /\ request.at \in Nat /\ upTo \in Nat /\ firstJson \in Nat /\ deltaSeen.last \in Int
  BY <1>1, DeltaReading, RequestType DEF IInv, ControlInv, DeltaReadInv
<1>3. Within(firstJson..upTo) /\ \E j \in Nat : Unscanned(j)
  BY <1>1, <1>2 DEF IInv, DeltaTimeInv
<1>4. PICK j \in Nat : Unscanned(j)
  BY <1>3
<1>5. listed = j..deltaSeen.last /\ (j = upTo + 1 \/ (j <= firstJson /\ upTo = 0))
  BY <1>4 DEF Unscanned
<1>6. j <= deltaSeen.last
  BY <1>1, <1>2, <1>5
<1>7. v = j
  BY <1>2, <1>5, <1>6, ExtremesOfInterval
<1> HIDE DEF v
<1>8. \A u : Exceeds(u)' <=> Exceeds(u)
  BY <1>1, DeltaReading DEF Exceeds
<1>9. CASE ~Counts(v)
  <2>1. firstJson' = firstJson /\ upTo' = upTo /\ listed' = {}
    BY <1>1, <1>9, DeltaReading
  <2>2. QED
    BY <1>1, <1>3, <1>8, <2>1 DEF DeltaTimeInv, Within, IsRead
<1>10. CASE Counts(v)
  <2>1. firstJson' = firstJson /\ upTo' = j /\ listed' = listed \ {j}
    BY <1>1, <1>7, <1>10, DeltaReading
  <2>2. listed' = (j + 1)..deltaSeen.last
    BY <1>2, <1>5, <2>1
  <2>3. firstJson <= j => ~Exceeds(j)
    <3>1. CommitTime(j) \in Nat \cup {Nothing}
      <4>1. commits \in Seq(Commit) /\ j + 1 \in 1..Len(commits)
        BY <1>2, <1>6, DeltaReading DEF IInv, DeltaTableInv, LastVersion
      <4>2. commits[j + 1] \in Commit
        BY <4>1
      <4>3. QED
        BY <4>2 DEF CommitTime, Commit
    <3>2. QED
      BY <1>2, <1>7, <1>10, <3>1, DeltaReading DEF Counts, Exceeds
  <2>4. ASSUME NEW u \in firstJson..j PROVE u = 0 \/ (u \in 1..deltaSeen.last /\ ~Exceeds(u))
    <3>1. CASE u = j
      BY <1>2, <1>6, <2>3, <3>1
    <3>2. CASE u # j
      <4>1. u \in firstJson..upTo
        BY <1>2, <1>5, <3>2
      <4>2. QED
        BY <1>3, <4>1 DEF Within
    <3>3. QED
      BY <3>1, <3>2
  <2>5. Within(firstJson..upTo)'
    BY <1>1, <1>8, <2>1, <2>4 DEF Within
  <2>6. j + 1 \in Nat /\ Unscanned(j + 1)'
    BY <1>1, <2>1, <2>2 DEF Unscanned
  <2>7. QED
    BY <1>1, <2>5, <2>6 DEF DeltaTimeInv, IsRead
<1>11. QED
  BY <1>9, <1>10

LEMMA TimeReading ==
  ASSUME IInv, ReadDelta, ~DeltaScanCommit, request.kind = "asOf"
  PROVE  DeltaTimeInv'
<1>1. /\ request' = request /\ firstJson' = firstJson /\ firstJson \in Nat /\ LastVersion \in Int
      /\ \A u : CommitTime(u)' = CommitTime(u)
      /\ deltaSeen.last \in Int
  BY DeltaReading
<1>2. \A u : Exceeds(u)' <=> Exceeds(u)
  BY <1>1 DEF Exceeds
<1>3. CASE DeltaScanList
  <2>1. /\ pc' = "scan" /\ upTo' = 0 /\ listed' = firstJson..LastVersion
        /\ deltaSeen' = [deltaSeen EXCEPT !.last = LastVersion]
    BY <1>3 DEF DeltaScanList, JsonCommits, Goto
  <2>2. deltaSeen'.last = LastVersion
    BY <2>1, DeltaReading
  <2>3. Within(firstJson..upTo)'
    BY <1>1, <2>1 DEF Within
  <2>4. Unscanned(firstJson)'
    BY <1>1, <2>1, <2>2 DEF Unscanned
  <2>5. QED
    BY <1>1, <2>1, <2>3, <2>4 DEF DeltaTimeInv, IsRead
<1>4. CASE DeltaScanned
  <2>1. pc = "scan" /\ pc' = "list" /\ UNCHANGED <<upTo, deltaSeen>>
    BY <1>4 DEF DeltaScanned, Goto
  <2>2. Within(firstJson..upTo)
    BY <2>1 DEF IInv, DeltaTimeInv
  <2>3. Within(firstJson..upTo)'
    BY <1>1, <1>2, <2>1, <2>2 DEF Within
  <2>4. QED
    BY <2>1, <2>3 DEF DeltaTimeInv, IsRead
<1>5. CASE DeltaList
  <2>1. /\ pc = "list" /\ pc' = "replay" /\ active' = {} /\ UNCHANGED upTo
        /\ listed' = {v \in firstJson..LastVersion : upTo = Nothing \/ v <= upTo}
        /\ deltaSeen'.last = deltaSeen.last
    BY <1>5 DEF DeltaList, JsonCommits, Goto
  <2>2. Within(firstJson..upTo) /\ upTo \in Nat
    BY <2>1 DEF IInv, DeltaTimeInv, DeltaReadInv
  <2>3. \A v \in listed' : v \in firstJson..upTo
    BY <1>1, <2>1, <2>2, NothingAssumption
  <2>4. Within(listed \cup active)'
    BY <1>2, <2>1, <2>2, <2>3 DEF Within
  <2>5. QED
    BY <2>1, <2>4 DEF DeltaTimeInv, IsRead
<1>6. CASE DeltaReplay
  <2>1. /\ pc = "replay" /\ deltaSeen' = deltaSeen
        /\ pc' = "failed" \/ (pc' = "replay" /\ (listed' \cup active') \subseteq (listed \cup active))
    <3>1. pc = "replay" /\ deltaSeen' = deltaSeen
      BY <1>6 DEF DeltaReplay
    <3>2. PICK v \in listed :
            \/ /\ active' = (active \cup Adds(v)) \ Removes(v) /\ listed' = listed \ {v} /\ pc' = pc
            \/ Fail
      BY <1>6 DEF DeltaReplay
    <3>3. Adds(v) \subseteq {v}
      BY DEF Adds
    <3>4. QED
      BY <3>1, <3>2, <3>3 DEF Fail
  <2>2. Within(listed \cup active)
    BY <2>1 DEF IInv, DeltaTimeInv
  <2>3. pc' = "replay" => Within(listed \cup active)'
    BY <1>2, <2>1, <2>2 DEF Within
  <2>4. QED
    BY <2>1, <2>3 DEF DeltaTimeInv, IsRead
<1>7. CASE DeltaResolved
  <2>1. pc = "replay" /\ pc' \in {"failed", "load"} /\ UNCHANGED <<active, deltaSeen, frame>>
    BY <1>7 DEF DeltaResolved, Fail, Goto
  <2>2. frame = << >>
    BY <2>1 DEF IInv, ControlInv, DeltaSteps
  <2>3. Rows(frame)' = {}
    BY <2>1, <2>2 DEF Rows
  <2>4. Within(listed \cup active)
    BY <2>1 DEF IInv, DeltaTimeInv
  <2>5. Within(Rows(frame) \cup active)'
    BY <1>2, <2>1, <2>3, <2>4 DEF Within
  <2>6. QED
    BY <2>1, <2>5 DEF DeltaTimeInv, IsRead
<1>8. CASE DeltaLoad
  <2>1. PICK f \in active : Fail \/ (Load(f, active = {f}) /\ active' = active \ {f})
    BY <1>8 DEF DeltaLoad
  <2>2. pc = "load" /\ deltaSeen' = deltaSeen /\ f \in Nat /\ frame \in Seq(Nat)
    BY <1>8, DeltaReading DEF DeltaLoad, IInv, ControlInv
  <2>3. Within(Rows(frame) \cup active)
    BY <2>2 DEF IInv, DeltaTimeInv
  <2>4. CASE Fail
    BY <2>4 DEF Fail, DeltaTimeInv, IsRead
  <2>5. CASE Load(f, active = {f}) /\ active' = active \ {f}
    <3>1. frame' = Append(frame, f) /\ pc' \in {"load", "read"}
      BY <2>2, <2>5 DEF Load
    <3>2. Rows(frame)' = Rows(frame) \cup {f}
      BY <2>2, <3>1, RowsAppend
    <3>3. Within(Rows(frame) \cup active)' /\ Within(Rows(frame))'
      BY <1>2, <2>1, <2>2, <2>3, <2>5, <3>2 DEF Within
    <3>4. QED
      BY <3>1, <3>3 DEF DeltaTimeInv
  <2>6. QED
    BY <2>1, <2>4, <2>5
<1>9. QED
  BY <1>3, <1>4, <1>5, <1>6, <1>7, <1>8 DEF ReadDelta, DeltaReadStep

LEMMA TimeStep ==
  ASSUME IInv, [Next]_vars
  PROVE  DeltaTimeInv'
<1>1. CASE Aside
  <2>1. /\ UNCHANGED <<request, frame, pc, path, listed, upTo, active, deltaSeen>>
        /\ Reader(path)' = Reader(path) /\ Rows(frame)' = Rows(frame)
    BY <1>1, AsideType DEF Rows
  <2>2. /\ firstJson \in Nat /\ firstJson' \in Nat /\ firstJson <= firstJson'
        /\ \A v \in 0..LastVersion : CommitTime(v)' = CommitTime(v)
    BY <1>1, AsideType, TableMonotonic DEF IInv
  <2>3. \A v \in 1..deltaSeen.last : Exceeds(v)' <=> Exceeds(v)
    <3>1. \A v \in 1..deltaSeen.last : v \in 0..LastVersion
      BY DeltaSeenType
    <3>2. QED
      BY <2>1, <2>2, <3>1 DEF Exceeds
  <2>4. ASSUME request.kind = "asOf", pc \in {"scan", "list"}
        PROVE  Within(firstJson..upTo)'
    <3>1. upTo \in Nat /\ Within(firstJson..upTo)
      BY <2>4 DEF IInv, DeltaReadInv, DeltaTimeInv
    <3>2. \A v \in firstJson'..upTo : v \in firstJson..upTo
      BY <2>2, <3>1
    <3>3. QED
      BY <2>1, <2>3, <3>1, <3>2 DEF Within
  <2>5. ASSUME NEW j \in Nat, Unscanned(j), pc = "scan" PROVE Unscanned(j)'
    BY <2>1, <2>2, <2>5 DEF Unscanned
  <2>6. Within(listed \cup active) => Within(listed \cup active)'
    BY <2>1, <2>3 DEF Within
  <2>7. Within(Rows(frame) \cup active) => Within(Rows(frame) \cup active)'
    BY <2>1, <2>3 DEF Within
  <2>8. Within(Rows(frame)) => Within(Rows(frame))'
    BY <2>1, <2>3 DEF Within
  <2>9. QED
    BY <2>1, <2>4, <2>5, <2>6, <2>7, <2>8 DEF IInv, DeltaTimeInv, IsRead
<1>2. CASE Opening
  <2>1. CASE \E r \in Requests : OpensDelta(r)
    BY <2>1 DEF OpensDelta, DeltaBegin, Request, DeltaTimeInv, IsRead
  <2>2. CASE \E r \in Requests : OpensIceberg(r)
    BY <2>2 DEF OpensIceberg, IcebergBegin, Request, DeltaTimeInv, IsRead
  <2>3. CASE OpensFile
    BY <2>3 DEF OpensFile, Latest, DeltaTimeInv
  <2>4. CASE Fail
    BY <2>4 DEF Fail, DeltaTimeInv, IsRead
  <2>5. QED
    BY <1>2, <2>1, <2>2, <2>3, <2>4, OpeningType
<1>3. CASE ReadDelta
  <2>1. CASE request.kind = "asOf"
    BY <1>3, <2>1, TimeScan, TimeReading
  <2>2. CASE request.kind # "asOf"
    BY <1>3, <2>2, DeltaReading DEF DeltaTimeInv
  <2>3. QED
    BY <2>1, <2>2
<1>4. CASE ReadIceberg
  <2>1. /\ pc' \in IcebergSteps \cup {"read", "failed"}
        /\ Reader(path)' = Reader(path) /\ Reader(path) = "iceberg"
    BY <1>4, ReadersType DEF IInv, ControlInv
  <2>2. QED
    BY <2>1 DEF DeltaTimeInv, IsRead, IcebergSteps
<1>5. CASE Cutting
  <2>1. /\ pc \in {"read", "slice"} /\ pc' \in {"slice", "ended"}
        /\ UNCHANGED <<request, frame, deltaSeen, path, commits>> /\ Reader(path)' = Reader(path)
    BY <1>5, CuttingType
  <2>2. \A v : Exceeds(v)' <=> Exceeds(v)
    BY <2>1 DEF Exceeds, CommitTime
  <2>3. Within(Rows(frame)) => Within(Rows(frame))'
    BY <2>1, <2>2 DEF Within, Rows
  <2>4. QED
    BY <2>1, <2>3 DEF IInv, DeltaTimeInv, IsRead
<1>6. QED
  BY <1>1, <1>2, <1>3, <1>4, <1>5, StepCases

-----------------------------------------------------------------------------
(* The Iceberg table. *)

LEMMA TableFacts ==
  ASSUME IcebergTableInv
  PROVE  /\ snapshots \in Seq(SUBSET Nat) /\ Made = Len(snapshots) /\ Made \in Nat /\ Made <= MaxCommits
         /\ metas \in Seq(Metadata) /\ Len(metas) \in Nat
         /\ metas = << >> => Made = 0
         /\ metas # << >> => /\ Len(metas) \in firstMeta..Len(metas) /\ Len(metas) \in 1..Len(metas)
                             /\ LastMeta = metas[Len(metas)]
                             /\ LastMeta.current = Made /\ Made \in LastMeta.snapshots
                             /\ LastMeta.snapshots \subseteq 1..Made
                             /\ LastMeta.snapshots \in SUBSET Nat
         /\ Live \subseteq 1..Made /\ Live \subseteq onDisk.data \cap onDisk.manifests
<1> USE DEF IcebergTableInv
<1>1. /\ snapshots \in Seq(SUBSET Nat) /\ Made = Len(snapshots) /\ Made \in Nat /\ Made <= MaxCommits
      /\ metas \in Seq(Metadata) /\ Len(metas) \in Nat
  BY DEF Made
<1>2. metas = << >> => Made = 0
  BY <1>1
<1>3. ASSUME metas # << >>
      PROVE  /\ Len(metas) \in firstMeta..Len(metas) /\ Len(metas) \in 1..Len(metas)
             /\ LastMeta = metas[Len(metas)]
             /\ LastMeta.current = Made /\ Made \in LastMeta.snapshots
             /\ LastMeta.snapshots \subseteq 1..Made
             /\ LastMeta.snapshots \in SUBSET Nat
             /\ Live \subseteq 1..Made /\ Live \subseteq onDisk.data \cap onDisk.manifests
  <2>1. Len(metas) # 0
    BY <1>1, <1>3
  <2>2. Len(metas) \in 1..Len(metas)
    BY <1>1, <2>1
  <2>3. firstMeta \in Nat /\ firstMeta <= Len(metas)
    BY <1>3
  <2>4. Len(metas) \in firstMeta..Len(metas)
    BY <1>1, <2>3
  <2>5. LastMeta = metas[Len(metas)] /\ LastMeta.current = Made
    BY <1>3 DEF LastMeta
  <2>6. Contiguous(LastMeta)
    BY <2>2, <2>5
  <2>7. PICK a \in 1..Made : LastMeta.snapshots = a..Made
    BY <2>5, <2>6 DEF Contiguous
  <2>8. Made \in 1..Made
    BY <2>5, <2>6 DEF Contiguous
  <2>9. Made \in LastMeta.snapshots /\ LastMeta.snapshots \subseteq 1..Made /\ LastMeta.snapshots \in SUBSET Nat
    BY <1>1, <2>7, <2>8
  <2>10. Present(LastMeta)
    BY <2>4, <2>5
  <2>11. Live = snapshots[Made]
    BY <1>3, <2>5 DEF Live
  <2>12. Live \subseteq 1..Made
    BY <2>8, <2>11
  <2>13. Live \subseteq onDisk.data \cap onDisk.manifests
    BY <2>9, <2>10, <2>11 DEF Present
  <2>14. QED
    BY <2>2, <2>4, <2>5, <2>9, <2>12, <2>13
<1>4. metas = << >> => Live = {}
  BY DEF Live
<1> HIDE DEF IcebergTableInv
<1>5. QED
  BY <1>1, <1>2, <1>3, <1>4

(* Metadata and snapshots come after those there are, and only a clean up  *)
(* removes files.                                                          *)
Extends(new, old) == Len(old) <= Len(new) /\ \A i \in 1..Len(old) : new[i] = old[i]

LEMMA AppendExtends ==
  ASSUME NEW T, NEW s \in Seq(T), NEW x \in T
  PROVE  /\ Append(s, x) \in Seq(T) /\ Len(Append(s, x)) = Len(s) + 1 /\ Len(s) \in Nat
         /\ Append(s, x)[Len(s) + 1] = x
         /\ Extends(Append(s, x), s)
         /\ Append(s, x) # << >>
<1> DEFINE t == Append(s, x)
<1>1. t \in Seq(T) /\ Len(t) = Len(s) + 1 /\ Len(s) \in Nat /\ t[Len(s) + 1] = x
  OBVIOUS
<1>2. \A i \in 1..Len(s) : t[i] = s[i]
  OBVIOUS
<1> HIDE DEF t
<1>3. t # << >>
  BY <1>1
<1>4. Extends(t, s)
  BY <1>1, <1>2 DEF Extends
<1>5. QED
  BY <1>1, <1>3, <1>4 DEF t

LEMMA CommitStep ==
  ASSUME IcebergTableInv, IcebergCommit
  PROVE  /\ IcebergTableInv'
         /\ Extends(metas', metas) /\ Extends(snapshots', snapshots) /\ firstMeta' = firstMeta
         /\ Made' = Made + 1 /\ snapshots'[Made + 1] = (Live \ named[Made + 1]) \cup {Made + 1}
         /\ onDisk'.data = onDisk.data /\ onDisk'.manifests = onDisk.manifests
         /\ Made' + 1 \notin onDisk'.data
<1> DEFINE s == Made + 1
           new == [snapshots |-> IF metas = << >> THEN {1} ELSE LastMeta.snapshots \cup {s}, current |-> s]
           live == (Live \ named[s]) \cup {s}
<1>1. snapshots' = Append(snapshots, live)
  BY DEF IcebergCommit
<1>2. /\ s \in onDisk.data
      /\ metas' = Append(metas, new)
      /\ onDisk' = [onDisk EXCEPT !.lists = @ \cup {s}]
      /\ UNCHANGED <<form, firstMeta, hint>>
  BY DEF IcebergCommit
<1>3. s \in Nat /\ s >= 1 /\ Made < MaxCommits /\ s \in onDisk.manifests /\ s <= MaxCommits
  BY <1>2, TableFacts, CommitsAssumption DEF IcebergTableInv
<1>4. live \subseteq 1..s /\ live \subseteq onDisk.data \cap onDisk.manifests /\ live \in SUBSET Nat
  <2>1. Live \subseteq 1..Made /\ Live \subseteq onDisk.data \cap onDisk.manifests
    BY TableFacts
  <2>2. live \subseteq 1..s
    <3>1. 1..Made \subseteq 1..s /\ s \in 1..s
      BY <1>3, TableFacts
    <3> HIDE DEF s
    <3>2. QED
      BY <2>1, <3>1
  <2>3. QED
    BY <1>2, <1>3, <2>1, <2>2
<1>5. \E a \in 1..s : new.snapshots = a..s
  <2>1. CASE metas = << >>
    <3>1. s = 1 /\ {1} = 1..1
      BY <2>1, TableFacts
    <3>2. QED
      BY <2>1, <3>1
  <2>2. CASE metas # << >>
    <3>1. Contiguous(LastMeta) /\ LastMeta.current = Made
      BY <2>2, TableFacts DEF IcebergTableInv
    <3>2. PICK a \in 1..Made : LastMeta.snapshots = a..Made
      BY <3>1 DEF Contiguous
    <3>3. a \in 1..s /\ (a..Made) \cup {s} = a..s
      BY TableFacts
    <3>4. QED
      BY <2>2, <3>2, <3>3
  <2>3. QED
    BY <2>1, <2>2
<1>6. new \in Metadata /\ new.current = s
  <2>1. new.snapshots \in SUBSET Nat
    <3>1. PICK a \in 1..s : new.snapshots = a..s
      BY <1>5
    <3> HIDE DEF new, s
    <3>2. QED
      BY <1>3, <3>1
  <2>2. QED
    BY <1>3, <2>1 DEF Metadata
<1>7. new.snapshots \subseteq (IF metas = << >> THEN {} ELSE LastMeta.snapshots) \cup {s}
  BY TableFacts
<1> HIDE DEF new, live
<1>8. /\ metas' \in Seq(Metadata) /\ Len(metas') = Len(metas) + 1 /\ metas'[Len(metas) + 1] = new
      /\ Extends(metas', metas) /\ metas' # << >>
  BY <1>2, <1>6, TableFacts, AppendExtends
<1>9. /\ snapshots' \in Seq(SUBSET Nat) /\ Len(snapshots') = s /\ snapshots'[s] = live
      /\ Extends(snapshots', snapshots) /\ snapshots' # << >>
  <2>1. snapshots' = Append(snapshots, live)
    BY <1>1 DEF live
  <2> HIDE DEF s
  <2>2. /\ snapshots' \in Seq(SUBSET Nat) /\ Len(snapshots') = Len(snapshots) + 1
        /\ snapshots'[Len(snapshots) + 1] = live
        /\ Extends(snapshots', snapshots) /\ snapshots' # << >>
    <3>1. snapshots \in Seq(SUBSET Nat)
      BY TableFacts
    <3>2. live \in SUBSET Nat
      BY <1>4
    <3>3. /\ Append(snapshots, live) \in Seq(SUBSET Nat)
          /\ Len(Append(snapshots, live)) = Len(snapshots) + 1
          /\ Append(snapshots, live)[Len(snapshots) + 1] = live
          /\ Extends(Append(snapshots, live), snapshots) /\ Append(snapshots, live) # << >>
      BY <3>1, <3>2, AppendExtends
    <3>4. QED
      BY <2>1, <3>3, Zenon
  <2>3. s = Len(snapshots) + 1
    BY TableFacts DEF s
  <2>4. QED
    BY <2>2, <2>3
<1>10. Made' = s
  BY <1>9 DEF Made
<1>11. LastMeta' = new
  BY <1>8 DEF LastMeta
<1>12. ASSUME NEW i \in 1..s PROVE snapshots'[i] \subseteq 1..i
  <2>1. CASE i = s
    BY <1>4, <1>9, <2>1
  <2>2. CASE i # s
    <3>1. i \in 1..Made
      BY <2>2, TableFacts
    <3>2. snapshots'[i] = snapshots[i]
      BY <1>9, <3>1, TableFacts DEF Extends
    <3>3. QED
      BY <3>1, <3>2 DEF IcebergTableInv
  <2>3. QED
    BY <2>1, <2>2
<1>13. ASSUME NEW v \in 1..Len(metas'), v # Len(metas) + 1
       PROVE  v \in 1..Len(metas) /\ metas'[v] = metas[v] /\ Contiguous(metas[v])
  <2>1. v \in 1..Len(metas)
    BY <1>8, <1>13, TableFacts
  <2>2. QED
    BY <1>8, <2>1, TableFacts DEF Extends, IcebergTableInv
<1>14. ASSUME NEW v \in 1..Len(metas')
       PROVE  /\ metas'[v].current \in 1..Made'
              /\ \E a \in 1..metas'[v].current : metas'[v].snapshots = a..metas'[v].current
  <2>1. CASE v = Len(metas) + 1
    <3>1. metas'[v] = new
      BY <1>8, <2>1
    <3>2. s \in 1..Made'
      BY <1>3, <1>10
    <3> HIDE DEF s
    <3>3. QED
      BY <1>5, <1>6, <3>1, <3>2
  <2>2. CASE v # Len(metas) + 1
    <3>1. metas'[v] = metas[v] /\ Contiguous(metas[v])
      BY <1>13, <2>2
    <3>2. metas[v].current \in 1..Made' /\ \E a \in 1..metas[v].current : metas[v].snapshots = a..metas[v].current
      <4>1. metas[v].current \in 1..Made
        BY <3>1 DEF Contiguous
      <4>2. metas[v].current \in 1..Made'
        BY <1>10, <4>1, TableFacts
      <4>3. QED
        BY <3>1, <4>2 DEF Contiguous
    <3>3. QED
      BY <3>1, <3>2
  <2>3. QED
    BY <2>1, <2>2
<1>15. /\ onDisk' \in [data : SUBSET Nat, manifests : SUBSET Nat, lists : SUBSET Nat]
       /\ onDisk'.data = onDisk.data /\ onDisk'.manifests = onDisk.manifests
       /\ onDisk'.lists = onDisk.lists \cup {s}
  <2>1. onDisk \in [data : SUBSET Nat, manifests : SUBSET Nat, lists : SUBSET Nat]
    BY DEF IcebergTableInv
  <2> HIDE DEF s
  <2>2. QED
    BY <1>2, <1>3, <2>1
<1>16. ASSUME NEW m, Present(m), m.snapshots \subseteq 1..Made, NEW i \in m.snapshots
       PROVE  snapshots'[i] \subseteq onDisk'.data \cap onDisk'.manifests /\ i \in onDisk'.lists
  <2>1. snapshots'[i] = snapshots[i]
    BY <1>9, <1>16, TableFacts DEF Extends
  <2>2. QED
    BY <1>15, <1>16, <2>1 DEF Present
<1>17. ASSUME NEW v \in firstMeta..Len(metas'), NEW i \in metas'[v].snapshots
       PROVE  snapshots'[i] \subseteq onDisk'.data \cap onDisk'.manifests /\ i \in onDisk'.lists
  <2>1. v \in 1..Len(metas')
    BY DEF IcebergTableInv
  <2>2. CASE v # Len(metas) + 1
    <3>1. v \in 1..Len(metas) /\ metas'[v] = metas[v] /\ Contiguous(metas[v])
      BY <1>13, <2>1, <2>2
    <3>2. v \in firstMeta..Len(metas)
      BY <2>1, <3>1
    <3>3. Present(metas[v])
      BY <3>2 DEF IcebergTableInv
    <3>4. metas[v].snapshots \subseteq 1..Made
      <4>1. metas[v].current \in 1..Made
        BY <3>1 DEF Contiguous
      <4>2. PICK a \in 1..metas[v].current : metas[v].snapshots = a..metas[v].current
        BY <3>1 DEF Contiguous
      <4>3. QED
        BY <4>1, <4>2, TableFacts
    <3>5. QED
      BY <1>16, <3>1, <3>3, <3>4
  <2>3. CASE v = Len(metas) + 1
    <3>1. metas'[v] = new
      BY <1>8, <2>3
    <3>2. CASE i = s
      BY <1>4, <1>9, <1>15, <3>2
    <3>3. CASE i # s
      <4>1. metas # << >> /\ i \in LastMeta.snapshots
        BY <1>7, <3>1, <3>3
      <4>2. Present(LastMeta) /\ LastMeta.snapshots \subseteq 1..Made
        BY <4>1, TableFacts DEF IcebergTableInv
      <4>3. QED
        BY <1>16, <4>1, <4>2
    <3>4. QED
      BY <3>2, <3>3
  <2>4. QED
    BY <2>2, <2>3
<1>18. /\ onDisk'.data \subseteq 1..(Made' + 1) /\ onDisk'.manifests \subseteq 1..(Made' + 1)
       /\ Made' + 1 \notin onDisk'.data
  <2>1. onDisk.data \subseteq 1..s /\ onDisk.manifests \subseteq 1..s
    BY DEF IcebergTableInv
  <2> HIDE DEF s
  <2>2. QED
    BY <1>3, <1>10, <1>15, <2>1
<1>19. hint' = Nothing \/ hint' \in 1..Len(metas')
  BY <1>2, <1>8, TableFacts DEF IcebergTableInv
<1>20. firstMeta' \in Nat \ {0} /\ firstMeta' <= Len(metas')
  <2>1. firstMeta \in Nat \ {0} /\ (metas # << >> => firstMeta <= Len(metas))
    BY DEF IcebergTableInv
  <2>2. metas = << >> => firstMeta = 1
    BY DEF IcebergTableInv
  <2>3. QED
    BY <1>2, <1>8, <2>1, <2>2, TableFacts
<1>21. form' \in Form
  BY <1>2 DEF IcebergTableInv
<1> HIDE DEF s
<1>22. IcebergTableInv'
  BY <1>2, <1>3, <1>6, <1>8, <1>9, <1>10, <1>11, <1>12, <1>14, <1>15, <1>17, <1>18, <1>19, <1>20, <1>21
     DEF IcebergTableInv, Contiguous, Present
<1>23. snapshots'[Made + 1] = (Live \ named[Made + 1]) \cup {Made + 1} /\ Made' = Made + 1
  BY <1>9, <1>10 DEF live, s
<1>24. QED
  BY <1>2, <1>8, <1>9, <1>15, <1>18, <1>22, <1>23

LEMMA WriteFilesStep ==
  ASSUME IcebergTableInv, IcebergWriteFiles
  PROVE  IcebergTableInv' /\ UNCHANGED <<metas, snapshots, firstMeta>>
<1>1. /\ Made < MaxCommits /\ UNCHANGED <<form, snapshots, metas, firstMeta, hint>>
      /\ onDisk' = [onDisk EXCEPT !.data = @ \cup {Made + 1}, !.manifests = @ \cup {Made + 1}]
  BY DEF IcebergWriteFiles
<1>2. Made' = Made /\ LastMeta' = LastMeta /\ Made + 1 \in Nat /\ Made + 1 \in 1..(Made + 1)
  BY <1>1, TableFacts DEF Made, LastMeta
<1>3. onDisk \in [data : SUBSET Nat, manifests : SUBSET Nat, lists : SUBSET Nat]
  BY DEF IcebergTableInv
<1>4. /\ onDisk' \in [data : SUBSET Nat, manifests : SUBSET Nat, lists : SUBSET Nat]
      /\ onDisk'.data = onDisk.data \cup {Made + 1}
      /\ onDisk'.manifests = onDisk.manifests \cup {Made + 1}
      /\ onDisk'.lists = onDisk.lists
  BY <1>1, <1>2, <1>3
<1>5. ASSUME NEW v \in firstMeta..Len(metas), NEW i \in metas[v].snapshots
      PROVE  snapshots[i] \subseteq onDisk'.data \cap onDisk'.manifests /\ i \in onDisk'.lists
  <2>1. Present(metas[v])
    BY DEF IcebergTableInv
  <2>2. QED
    BY <1>4, <2>1 DEF Present
<1>6. IcebergTableInv'
  BY <1>1, <1>2, <1>4, <1>5 DEF IcebergTableInv, Contiguous, Present
<1>7. QED
  BY <1>1, <1>6

LEMMA ExpireStep ==
  ASSUME IcebergTableInv, IcebergExpire
  PROVE  /\ IcebergTableInv'
         /\ Extends(metas', metas) /\ UNCHANGED <<snapshots, firstMeta>>
<1> DEFINE new == [snapshots |-> {LastMeta.current}, current |-> LastMeta.current]
<1>1. /\ metas # << >> /\ metas' = Append(metas, new)
      /\ UNCHANGED <<form, snapshots, firstMeta, hint, onDisk>>
  BY DEF IcebergExpire
<1>2. /\ new.snapshots = Made..Made /\ new.snapshots = {Made} /\ new.current = Made /\ new \in Metadata
      /\ Made \in 1..Made /\ Made \in LastMeta.snapshots
  BY <1>1, TableFacts DEF Metadata
<1> HIDE DEF new
<1>3. /\ metas' \in Seq(Metadata) /\ Len(metas') = Len(metas) + 1 /\ metas'[Len(metas) + 1] = new
      /\ Extends(metas', metas) /\ metas' # << >>
  BY <1>1, <1>2, TableFacts, AppendExtends
<1>4. Made' = Made /\ LastMeta' = new
  BY <1>1, <1>3 DEF Made, LastMeta
<1>5. ASSUME NEW v \in 1..Len(metas'), v # Len(metas) + 1
      PROVE  v \in 1..Len(metas) /\ metas'[v] = metas[v] /\ Contiguous(metas[v])
  <2>1. v \in 1..Len(metas)
    BY <1>3, <1>5, TableFacts
  <2>2. QED
    BY <1>3, <2>1, TableFacts DEF Extends, IcebergTableInv
<1>6. ASSUME NEW v \in 1..Len(metas')
      PROVE  /\ metas'[v].current \in 1..Made
             /\ \E a \in 1..metas'[v].current : metas'[v].snapshots = a..metas'[v].current
  BY <1>2, <1>3, <1>5 DEF Contiguous
<1>7. ASSUME NEW v \in firstMeta..Len(metas'), NEW i \in metas'[v].snapshots
      PROVE  snapshots[i] \subseteq onDisk.data \cap onDisk.manifests /\ i \in onDisk.lists
  <2>1. v \in 1..Len(metas')
    BY DEF IcebergTableInv
  <2>2. CASE v # Len(metas) + 1
    <3>1. v \in 1..Len(metas) /\ metas'[v] = metas[v]
      BY <1>5, <2>1, <2>2
    <3>2. v \in firstMeta..Len(metas)
      BY <2>1, <3>1
    <3>3. Present(metas[v])
      BY <3>2 DEF IcebergTableInv
    <3>4. QED
      BY <3>1, <3>3 DEF Present
  <2>3. CASE v = Len(metas) + 1
    <3>1. i = Made
      BY <1>2, <1>3, <2>3
    <3>2. Present(LastMeta)
      BY <1>1, TableFacts DEF IcebergTableInv
    <3>3. QED
      BY <1>2, <3>1, <3>2 DEF Present
  <2>4. QED
    BY <2>2, <2>3
<1>8. hint' = Nothing \/ hint' \in 1..Len(metas')
  BY <1>1, <1>3, TableFacts DEF IcebergTableInv
<1>9. firstMeta' \in Nat \ {0} /\ firstMeta' <= Len(metas')
  BY <1>1, <1>3, TableFacts DEF IcebergTableInv
<1>10. snapshots # << >>
  BY <1>1 DEF IcebergTableInv
<1>11. /\ form' \in Form /\ snapshots' \in Seq(SUBSET Nat) /\ Made' <= MaxCommits
       /\ \A s \in 1..Made' : snapshots'[s] \subseteq 1..s
       /\ onDisk' \in [data : SUBSET Nat, manifests : SUBSET Nat, lists : SUBSET Nat]
       /\ onDisk'.data \subseteq 1..(Made' + 1) /\ onDisk'.manifests \subseteq 1..(Made' + 1)
       /\ Made' + 1 \in onDisk'.data => Made' < MaxCommits /\ Made' + 1 \in onDisk'.manifests
  BY <1>1, <1>4 DEF IcebergTableInv
<1>12. (\A v \in 1..Len(metas) : Contiguous(metas[v]))'
  BY <1>4, <1>6 DEF Contiguous
<1>13. (\A v \in firstMeta..Len(metas) : Present(metas[v]))'
  BY <1>1, <1>7 DEF Present
<1>14. IcebergTableInv'
  BY <1>1, <1>2, <1>3, <1>4, <1>8, <1>9, <1>10, <1>11, <1>12, <1>13 DEF IcebergTableInv
<1>15. QED
  BY <1>1, <1>3, <1>14

LEMMA CleanStep ==
  ASSUME IcebergTableInv, IcebergClean
  PROVE  IcebergTableInv' /\ UNCHANGED <<metas, snapshots>>
<1> DEFINE kept == (UNION {snapshots[s] : s \in LastMeta.snapshots}) \cup {Made + 1}
<1>1. /\ metas # << >> /\ (hint = Nothing \/ hint = Len(metas))
      /\ onDisk' = [data |-> onDisk.data \cap kept, manifests |-> onDisk.manifests \cap kept,
                    lists |-> onDisk.lists \cap LastMeta.snapshots]
      /\ firstMeta' = Len(metas)
      /\ UNCHANGED <<form, snapshots, metas, hint>>
  BY DEF IcebergClean
<1>2. /\ \A s \in LastMeta.snapshots : snapshots[s] \subseteq kept
      /\ Made + 1 \in kept
  <2>1. ASSUME NEW s \in LastMeta.snapshots PROVE snapshots[s] \subseteq kept
    <3>1. snapshots[s] \in {snapshots[x] : x \in LastMeta.snapshots}
      OBVIOUS
    <3>2. \A C, D : C \in D => C \subseteq UNION D
      OBVIOUS
    <3>3. snapshots[s] \subseteq UNION {snapshots[x] : x \in LastMeta.snapshots}
      BY <3>1, <3>2, Zenon
    <3>4. QED
      BY <3>3
  <2>2. QED
    BY <2>1
<1> HIDE DEF kept
<1>3. Made' = Made /\ LastMeta' = LastMeta
  BY <1>1 DEF Made, LastMeta
<1>4. onDisk \in [data : SUBSET Nat, manifests : SUBSET Nat, lists : SUBSET Nat]
  BY DEF IcebergTableInv
<1>5. /\ onDisk' \in [data : SUBSET Nat, manifests : SUBSET Nat, lists : SUBSET Nat]
      /\ onDisk'.data = onDisk.data \cap kept /\ onDisk'.manifests = onDisk.manifests \cap kept
      /\ onDisk'.lists = onDisk.lists \cap LastMeta.snapshots
  BY <1>1, <1>4
<1>6. Present(LastMeta)
  BY <1>1, TableFacts DEF IcebergTableInv
<1>7. ASSUME NEW v \in firstMeta'..Len(metas), NEW i \in metas[v].snapshots
      PROVE  snapshots[i] \subseteq onDisk'.data \cap onDisk'.manifests /\ i \in onDisk'.lists
  <2>1. metas[v] = LastMeta
    <3>1. v = Len(metas)
      BY <1>1, TableFacts
    <3>2. QED
      BY <1>1, <3>1, TableFacts
  <2>2. QED
    BY <1>2, <1>5, <1>6, <2>1 DEF Present
<1>8. firstMeta' \in Nat \ {0} /\ firstMeta' <= Len(metas)
  BY <1>1, TableFacts
<1>9. Made + 1 \in onDisk'.data => Made < MaxCommits /\ Made + 1 \in onDisk'.manifests
  BY <1>2, <1>5 DEF IcebergTableInv
<1>10. onDisk'.data \subseteq 1..(Made + 1) /\ onDisk'.manifests \subseteq 1..(Made + 1)
  BY <1>5 DEF IcebergTableInv
<1>11. IcebergTableInv'
  BY <1>1, <1>3, <1>5, <1>7, <1>8, <1>9, <1>10 DEF IcebergTableInv, Contiguous, Present
<1>12. QED
  BY <1>1, <1>11

(* What a reader sees of a step of the table. *)
LEMMA TableStep ==
  ASSUME IInv, [Next]_vars
  PROVE  /\ IcebergTableInv'
         /\ Extends(metas', metas) /\ Extends(snapshots', snapshots) /\ form' = form
         /\ ~ReadIceberg /\ ~Opening /\ ~cleaned' => ~cleaned /\ firstMeta' = firstMeta
         /\ ReadIceberg \/ Opening => UNCHANGED icebergTable
<1>1. IcebergTableInv
  BY DEF IInv
<1>2. Extends(metas, metas) /\ Extends(snapshots, snapshots)
  BY <1>1, TableFacts DEF Extends
<1>3. CASE UNCHANGED icebergTable
  <2>1. IcebergTableInv'
    BY <1>1, <1>3 DEF IcebergTableInv, Contiguous, Present, Made, LastMeta
  <2>2. ASSUME ~ReadIceberg, ~Opening, ~cleaned' PROVE ~cleaned /\ firstMeta' = firstMeta
    <3>1. Aside \/ ReadDelta \/ Cutting
      BY <2>2, StepCases
    <3>2. UNCHANGED cleaned \/ IcebergTableStep
      BY <3>1, AsideType, ReadersType, CuttingType
    <3>3. IcebergTableStep => UNCHANGED cleaned
      BY <2>2 DEF IcebergTableStep
    <3>4. QED
      BY <1>3, <2>2, <3>2, <3>3
  <2>3. QED
    BY <1>2, <1>3, <2>1, <2>2
<1>4. CASE ~UNCHANGED icebergTable
  <2>1. IcebergTableStep /\ ~ReadIceberg /\ ~Opening
    BY <1>4, StepCases, AsideType, OpeningType, ReadersType, CuttingType
  <2>2. CASE IcebergClean /\ cleaned' = TRUE
    BY <1>1, <1>2, <2>1, <2>2, CleanStep DEF IcebergClean
  <2>3. CASE IcebergWriteFiles /\ UNCHANGED cleaned
    BY <1>1, <1>2, <2>1, <2>3, WriteFilesStep DEF IcebergWriteFiles
  <2>4. CASE IcebergCommit /\ UNCHANGED cleaned
    BY <1>1, <2>1, <2>4, CommitStep DEF IcebergCommit
  <2>5. CASE IcebergExpire /\ UNCHANGED cleaned
    BY <1>1, <1>2, <2>1, <2>5, ExpireStep DEF IcebergExpire
  <2>6. CASE IcebergHint /\ UNCHANGED cleaned
    <3>1. /\ metas # << >> /\ hint' = Len(metas) /\ UNCHANGED <<form, snapshots, metas, firstMeta, onDisk>>
      BY <2>6 DEF IcebergHint
    <3>2. hint' \in 1..Len(metas)
      BY <1>1, <3>1, TableFacts
    <3>3. IcebergTableInv'
      BY <1>1, <3>1, <3>2 DEF IcebergTableInv, Contiguous, Present, Made, LastMeta
    <3>4. QED
      BY <1>2, <2>1, <2>6, <3>1, <3>3
  <2>7. QED
    BY <2>1, <2>2, <2>3, <2>4, <2>5, <2>6 DEF IcebergTableStep
<1>5. QED
  BY <1>3, <1>4

(* What the manifests name, and that they do not change.                   *)
LEMMA NamedStep ==
  ASSUME IInv, [Next]_vars
  PROVE  IcebergNamedInv' /\ Extends(named', named) /\ kindOf' = kindOf
<1>1. /\ named \in Seq(SUBSET Nat) /\ Len(named) \in Nat
      /\ Len(named) = IF Made + 1 \in onDisk.data THEN Made + 1 ELSE Made
      /\ onDisk.manifests \subseteq 1..Len(named)
      /\ \A m \in 1..Len(named) : m \in named[m] /\ named[m] \subseteq 1..m
      /\ Made + 1 \in onDisk.data => named[Made + 1] \subseteq Live \cup {Made + 1}
      /\ \A s \in 1..Made : \A m \in snapshots[s] :
           /\ named[m] \cap snapshots[s] = {m}
           /\ \A n \in snapshots[s] \ {m} : named[m] \cap named[n] = {}
  BY DEF IInv, IcebergNamedInv
<1>2. IcebergTableInv /\ Extends(named, named) /\ Made \in Nat /\ Live \subseteq 1..Made
  BY <1>1, TableFacts DEF IInv, Extends
<1>3. ASSUME NEW s \in 1..Made, NEW m \in snapshots[s] PROVE m \in 1..Made /\ m \in 1..Len(named)
  BY <1>1, <1>2 DEF IcebergTableInv
<1>4. CASE UNCHANGED icebergTable
  <2>1. Made' = Made /\ Live' = Live
    BY <1>4 DEF Made, Live, LastMeta
  <2>2. QED
    BY <1>1, <1>2, <1>4, <2>1 DEF IcebergNamedInv
<1>5. CASE IcebergWriteFiles
  <2>1. /\ Made + 1 \notin onDisk.data /\ UNCHANGED <<kindOf, snapshots, metas>>
        /\ onDisk' = [onDisk EXCEPT !.data = @ \cup {Made + 1}, !.manifests = @ \cup {Made + 1}]
    BY <1>5 DEF IcebergWriteFiles
  <2>2. PICK removed \in SUBSET Live : named' = Append(named, removed \cup {Made + 1})
    BY <1>5 DEF IcebergWriteFiles
  <2>3. Made' = Made /\ Live' = Live
    BY <2>1 DEF Made, Live, LastMeta
  <2>4. onDisk'.data = onDisk.data \cup {Made + 1} /\ onDisk'.manifests = onDisk.manifests \cup {Made + 1}
    <3>1. onDisk \in [data : SUBSET Nat, manifests : SUBSET Nat, lists : SUBSET Nat]
      BY <1>2 DEF IcebergTableInv
    <3>2. QED
      BY <2>1, <3>1
  <2> DEFINE new == removed \cup {Made + 1}
  <2>5. /\ new \in SUBSET Nat /\ Made + 1 \in new /\ new \subseteq 1..(Made + 1)
        /\ new \subseteq Live \cup {Made + 1}
    BY <1>2
  <2> HIDE DEF new
  <2>6. /\ named' \in Seq(SUBSET Nat) /\ Len(named') = Made + 1 /\ named'[Made + 1] = new
        /\ Extends(named', named)
    <3>1. named' = Append(named, new) /\ Len(named) = Made
      BY <1>1, <2>1, <2>2 DEF new
    <3>2. named \in Seq(SUBSET Nat)
      BY <1>1
    <3>3. new \in SUBSET Nat
      BY <2>5
    <3>4. /\ Append(named, new) \in Seq(SUBSET Nat) /\ Len(Append(named, new)) = Len(named) + 1
          /\ Append(named, new)[Len(named) + 1] = new
          /\ Extends(Append(named, new), named)
      BY <3>2, <3>3, AppendExtends
    <3>5. QED
      BY <3>1, <3>4, Zenon
  <2>7. \A m \in 1..Made : named'[m] = named[m] /\ m \in 1..Len(named)
    BY <1>1, <2>1, <2>6 DEF Extends
  <2>8. ASSUME NEW m \in 1..Len(named') PROVE m \in named'[m] /\ named'[m] \subseteq 1..m
    <3>1. CASE m = Made + 1
      BY <2>5, <2>6, <3>1
    <3>2. CASE m # Made + 1
      <4>1. m \in 1..Made
        BY <1>2, <2>6, <3>2
      <4>2. QED
        BY <1>1, <2>7, <4>1
    <3>3. QED
      BY <3>1, <3>2
  <2>9. ASSUME NEW s \in 1..Made, NEW m \in snapshots[s]
        PROVE  /\ named'[m] \cap snapshots[s] = {m}
               /\ \A n \in snapshots[s] \ {m} : named'[m] \cap named'[n] = {}
    <3>1. named'[m] = named[m] /\ \A n \in snapshots[s] : named'[n] = named[n]
      BY <1>3, <2>7
    <3>2. QED
      BY <1>1, <3>1
  <2>10. onDisk'.manifests \subseteq 1..Len(named')
    BY <1>1, <1>2, <2>1, <2>4, <2>6
  <2>11. QED
    BY <2>1, <2>3, <2>4, <2>5, <2>6, <2>8, <2>9, <2>10 DEF IcebergNamedInv
<1>6. CASE IcebergCommit
  <2> DEFINE new == Made + 1
  <2>1. UNCHANGED <<kindOf, named>> /\ new \in onDisk.data
    BY <1>6 DEF IcebergCommit
  <2>2. /\ Made' = new /\ snapshots'[new] = (Live \ named[new]) \cup {new}
        /\ Extends(snapshots', snapshots)
        /\ onDisk'.data = onDisk.data /\ onDisk'.manifests = onDisk.manifests
        /\ Made' + 1 \notin onDisk'.data
    BY <1>2, <1>6, CommitStep
  <2>3. /\ Len(named) = new /\ named[new] \subseteq Live \cup {new} /\ new \in named[new]
        /\ new \in Nat /\ new \notin 1..Made /\ new \in 1..new
    BY <1>1, <1>2, <2>1
  <2>4. \A m \in Live : /\ m \in 1..Made /\ m \in 1..Len(named)
                        /\ named[m] \cap Live = {m} /\ named[m] \subseteq 1..m
                        /\ \A n \in Live \ {m} : named[m] \cap named[n] = {}
    <3>1. CASE metas = << >>
      BY <3>1 DEF Live
    <3>2. CASE metas # << >>
      <4>1. Live = snapshots[Made] /\ Made \in 1..Made
        BY <1>2, <3>2, TableFacts DEF Live
      <4>2. QED
        BY <1>1, <1>3, <4>1
    <3>3. QED
      BY <3>1, <3>2
  <2>5. \A m \in Live : new \notin named[m]
    <3>1. \A m \in Live : new \notin 1..m
      BY <1>2, <2>4
    <3>2. QED
      BY <2>4, <3>1
  <2> HIDE DEF new
  <2>6. ASSUME NEW m \in snapshots'[new]
        PROVE  /\ named[m] \cap snapshots'[new] = {m}
               /\ \A n \in snapshots'[new] \ {m} : named[m] \cap named[n] = {}
    <3>1. snapshots'[new] = (Live \ named[new]) \cup {new}
      BY <2>2
    <3>2. CASE m = new
      <4>1. named[m] \cap snapshots'[new] = {m}
        BY <2>3, <3>1, <3>2
      <4>2. ASSUME NEW n \in snapshots'[new] \ {m} PROVE named[m] \cap named[n] = {}
        <5>1. n \in Live /\ n \notin named[new]
          BY <3>1, <3>2, <4>2
        <5>2. named[n] \cap Live = {n} /\ new \notin named[n]
          BY <2>4, <2>5, <5>1
        <5>3. QED
          BY <2>3, <3>2, <5>1, <5>2
      <4>3. QED
        BY <4>1, <4>2
    <3>3. CASE m # new
      <4>1. m \in Live /\ m \notin named[new]
        BY <3>1, <3>3
      <4>2. named[m] \cap Live = {m} /\ new \notin named[m]
        BY <2>4, <2>5, <4>1
      <4>3. named[m] \cap snapshots'[new] = {m}
        BY <3>1, <4>1, <4>2
      <4>4. ASSUME NEW n \in snapshots'[new] \ {m} PROVE named[m] \cap named[n] = {}
        <5>1. CASE n = new
          BY <2>3, <4>1, <4>2, <5>1
        <5>2. CASE n # new
          <6>1. n \in Live \ {m}
            BY <3>1, <4>4, <5>2
          <6>2. QED
            BY <2>4, <4>1, <6>1
        <5>3. QED
          BY <5>1, <5>2
      <4>5. QED
        BY <4>3, <4>4
    <3>4. QED
      BY <3>2, <3>3
  <2>7. ASSUME NEW s \in 1..new
        PROVE  \A m \in snapshots'[s] :
                 /\ named[m] \cap snapshots'[s] = {m}
                 /\ \A n \in snapshots'[s] \ {m} : named[m] \cap named[n] = {}
    <3>1. CASE s = new
      BY <2>6, <3>1
    <3>2. CASE s # new
      <4>1. s \in 1..Made
        BY <1>2, <3>2 DEF new
      <4>2. snapshots'[s] = snapshots[s]
        BY <2>2, <4>1, TableFacts, <1>2 DEF Extends
      <4>3. QED
        BY <1>1, <4>1, <4>2
    <3>3. QED
      BY <3>1, <3>2
  <2>8. QED
    BY <1>1, <1>2, <2>1, <2>2, <2>3, <2>7 DEF IcebergNamedInv
<1>7. CASE IcebergExpire
  <2>1. metas # << >> /\ UNCHANGED <<kindOf, named, snapshots, onDisk>>
        /\ metas' = Append(metas, [snapshots |-> {LastMeta.current}, current |-> LastMeta.current])
    BY <1>7 DEF IcebergExpire
  <2>2. Made' = Made
    BY <2>1 DEF Made
  <2>3. Live' = Live
    <3>1. IcebergTableInv'
      BY <1>2, <1>7, ExpireStep
    <3>2. metas' # << >> /\ LastMeta'.current = Made
      BY <2>1, <2>2, <3>1 DEF IcebergTableInv
    <3>3. LastMeta.current = Made
      BY <1>2, <2>1, TableFacts
    <3>4. QED
      BY <2>1, <3>2, <3>3 DEF Live
  <2>4. QED
    BY <1>1, <1>2, <2>1, <2>2, <2>3 DEF IcebergNamedInv
<1>8. CASE IcebergHint
  <2>1. UNCHANGED <<kindOf, named, snapshots, metas, onDisk>>
    BY <1>8 DEF IcebergHint
  <2>2. Made' = Made /\ Live' = Live
    BY <2>1 DEF Made, Live, LastMeta
  <2>3. QED
    BY <1>1, <1>2, <2>1, <2>2 DEF IcebergNamedInv
<1>9. CASE IcebergClean
  <2> DEFINE kept == (UNION {snapshots[s] : s \in LastMeta.snapshots}) \cup {Made + 1}
  <2>1. /\ UNCHANGED <<kindOf, named, snapshots, metas>>
        /\ onDisk'.data = onDisk.data \cap kept /\ onDisk'.manifests = onDisk.manifests \cap kept
    BY <1>9 DEF IcebergClean
  <2>2. Made + 1 \in kept
    OBVIOUS
  <2> HIDE DEF kept
  <2>3. Made' = Made /\ Live' = Live
    BY <2>1 DEF Made, Live, LastMeta
  <2>4. onDisk'.manifests \subseteq 1..Len(named) /\ (Made + 1 \in onDisk'.data <=> Made + 1 \in onDisk.data)
    BY <1>1, <2>1, <2>2
  <2>5. QED
    BY <1>1, <1>2, <2>1, <2>3, <2>4 DEF IcebergNamedInv
<1>10. UNCHANGED icebergTable \/ IcebergTableStep
  BY StepCases, AsideType, OpeningType, ReadersType, CuttingType
<1>11. QED
  BY <1>4, <1>5, <1>6, <1>7, <1>8, <1>9, <1>10 DEF IcebergTableStep

-----------------------------------------------------------------------------
(* The Iceberg reader. *)

LEMMA InOrderType ==
  ASSUME NEW S \in SUBSET Nat, IsFiniteSet(S)
  PROVE  /\ InOrder(S) \in Seq(Nat)
         /\ Rows(InOrder(S)) = S
         /\ Len(InOrder(S)) = Cardinality(S)
         /\ Exactly(InOrder(S), S)
<1> DEFINE t == Ascending(S)
<1>1. /\ Cardinality(S) \in Nat /\ t \in [1..Cardinality(S) -> S]
      /\ \A x \in S : UpTo(S, x) \in 1..Cardinality(S) /\ t[UpTo(S, x)] = x
      /\ \A i, j \in 1..Cardinality(S) : i < j => t[i] < t[j]
  BY AscendingOrder
<1> HIDE DEF t
<1>2. t \in Seq(S) /\ Len(t) = Cardinality(S) /\ DOMAIN t = 1..Cardinality(S)
  BY <1>1
<1>3. Rows(t) = S
  BY <1>1, <1>2 DEF Rows
<1>4. t \in Seq(Nat)
  <2>1. t \in [1..Cardinality(S) -> Nat]
    BY <1>1
  <2>2. QED
    BY <1>1, <2>1
<1>5. ASSUME NEW i \in DOMAIN t, NEW j \in DOMAIN t, t[i] = t[j] PROVE i = j
  <2>1. i \in 1..Cardinality(S) /\ j \in 1..Cardinality(S) /\ t[i] \in Nat /\ t[j] \in Nat
    BY <1>1, <1>2
  <2>2. ~(i < j) /\ ~(j < i)
    BY <1>1, <1>5, <2>1
  <2>3. QED
    BY <1>1, <2>1, <2>2
<1>6. Exactly(t, S)
  BY <1>3, <1>5 DEF Exactly, Once
<1>7. QED
  BY <1>2, <1>3, <1>4, <1>6 DEF InOrder, t

(* The first of a sequence moves to the end of another.                    *)
LEMMA MoveHead ==
  ASSUME NEW T, NEW s \in Seq(T), NEW t \in Seq(T), t # << >>
  PROVE  /\ Head(t) \in T /\ Tail(t) \in Seq(T) /\ Append(s, Head(t)) \in Seq(T)
         /\ s \o <<Head(t)>> = Append(s, Head(t))
         /\ Append(s, Head(t)) \o Tail(t) = s \o t
         /\ Len(t) = 1 <=> Tail(t) = << >>
         /\ Head(t) \in Rows(s \o t)
<1>1. Len(t) \in Nat /\ Len(t) # 0 /\ Len(s) \in Nat
  OBVIOUS
<1>2. Head(t) \in T /\ Head(t) = t[1] /\ Tail(t) \in Seq(T) /\ Len(Tail(t)) = Len(t) - 1
  BY <1>1
<1>3. \A i \in 1..(Len(t) - 1) : Tail(t)[i] = t[i + 1]
  BY <1>1
<1> DEFINE h == Head(t)
           u == Tail(t)
           a == Append(s, h)
<1> HIDE DEF h, u
<1>4. a \in Seq(T) /\ Len(a) = Len(s) + 1 /\ a[Len(s) + 1] = h /\ \A i \in 1..Len(s) : a[i] = s[i]
  BY <1>2 DEF h
<1>5. s \o <<h>> = a
  BY <1>2 DEF h
<1> HIDE DEF a
<1>6. /\ a \o u \in Seq(T) /\ Len(a \o u) = Len(a) + Len(u)
      /\ \A i \in 1..(Len(a) + Len(u)) : (a \o u)[i] = IF i <= Len(a) THEN a[i] ELSE u[i - Len(a)]
  BY <1>2, <1>4, ConcatProperties DEF u
<1>7. /\ s \o t \in Seq(T) /\ Len(s \o t) = Len(s) + Len(t)
      /\ \A i \in 1..(Len(s) + Len(t)) : (s \o t)[i] = IF i <= Len(s) THEN s[i] ELSE t[i - Len(s)]
  BY ConcatProperties
<1>8. ASSUME NEW i \in 1..(Len(s) + Len(t)) PROVE (a \o u)[i] = (s \o t)[i]
  <2>1. i \in 1..(Len(a) + Len(u))
    BY <1>1, <1>2, <1>4 DEF u
  <2>2. CASE i <= Len(s)
    BY <1>1, <1>4, <1>6, <1>7, <2>1, <2>2
  <2>3. CASE i = Len(s) + 1
    <3>1. (a \o u)[i] = h
      BY <1>1, <1>4, <1>6, <2>1, <2>3
    <3>2. (s \o t)[i] = t[1]
      BY <1>1, <1>7, <2>3
    <3>3. QED
      BY <1>2, <3>1, <3>2 DEF h
  <2>4. CASE i > Len(s) + 1
    <3>1. (a \o u)[i] = u[i - Len(a)]
      BY <1>1, <1>4, <1>6, <2>1, <2>4
    <3>2. (s \o t)[i] = t[i - Len(s)]
      BY <1>1, <1>7, <2>4
    <3>3. i - Len(a) \in 1..(Len(t) - 1) /\ (i - Len(a)) + 1 = i - Len(s)
      BY <1>1, <1>4, <2>4
    <3>4. QED
      BY <1>3, <3>1, <3>2, <3>3 DEF u
  <2>5. i \in Int /\ Len(s) \in Int
    BY <1>1
  <2>6. i <= Len(s) \/ i = Len(s) + 1 \/ i > Len(s) + 1
    BY <2>5
  <2>7. QED
    BY <2>2, <2>3, <2>4, <2>6, Zenon
<1>9. Len(a \o u) = Len(s \o t)
  BY <1>1, <1>2, <1>4, <1>6, <1>7 DEF u
<1>10. a \o u = s \o t
  <2> DEFINE left == a \o u
             right == s \o t
  <2>1. left \in Seq(T) /\ right \in Seq(T) /\ Len(left) = Len(right)
    BY <1>6, <1>7, <1>9
  <2>2. Len(right) = Len(s) + Len(t)
    BY <1>7
  <2>3. \A i \in 1..Len(right) : left[i] = right[i]
    BY <1>8, <2>2, Zenon
  <2> HIDE DEF left, right
  <2>4. left = right
    BY <2>1, <2>3, SeqEqual
  <2>5. QED
    BY <2>4, Zenon DEF left, right
<1>11. Len(t) = 1 <=> u = << >>
  <2>1. Len(u) = Len(t) - 1 /\ u \in Seq(T)
    BY <1>2 DEF u
  <2>2. Len(u) = 0 <=> u = << >>
    BY <2>1, EmptySeq
  <2>3. QED
    BY <1>1, <2>1, <2>2
<1>14. Len(s) + 1 \in DOMAIN (s \o t) /\ (s \o t)[Len(s) + 1] = h
  BY <1>1, <1>2, <1>7 DEF h
<1>12. h \in Rows(s \o t)
  BY <1>14, Zenon DEF Rows
<1>13. QED
  BY <1>2, <1>4, <1>5, <1>10, <1>11, <1>12 DEF h, u, a

(* Sequences without repetition put end to end, without their first        *)
(* element, and thinned out; and how long they are.                        *)
LEMMA OnceJoined ==
  ASSUME NEW s \in Seq(Nat), NEW t \in Seq(Nat), NEW A, NEW B,
         Exactly(s, A), Exactly(t, B), A \cap B = {}
  PROVE  s \o t \in Seq(Nat) /\ Exactly(s \o t, A \cup B)
<1> DEFINE u == s \o t
<1>1. /\ u \in Seq(Nat) /\ Len(u) = Len(s) + Len(t) /\ Len(s) \in Nat /\ Len(t) \in Nat
      /\ \A p \in 1..Len(s) : u[p] = s[p]
      /\ \A k \in 1..Len(t) : u[Len(s) + k] = t[k]
  BY Joined
<1>2. DOMAIN s = 1..Len(s) /\ DOMAIN t = 1..Len(t)
  OBVIOUS
<1> HIDE DEF u
<1>3. DOMAIN u = 1..Len(u)
  BY <1>1
<1>4. /\ \A i \in 1..Len(s) : s[i] \in A
      /\ \A i \in 1..Len(t) : t[i] \in B
      /\ \A x \in A : \E i \in 1..Len(s) : s[i] = x
      /\ \A x \in B : \E i \in 1..Len(t) : t[i] = x
      /\ \A i, j \in 1..Len(s) : s[i] = s[j] => i = j
      /\ \A i, j \in 1..Len(t) : t[i] = t[j] => i = j
  BY <1>2 DEF Exactly, Once, Rows
<1>5. ASSUME NEW i \in 1..Len(u)
      PROVE  \/ i \in 1..Len(s) /\ u[i] = s[i] /\ u[i] \in A
             \/ i - Len(s) \in 1..Len(t) /\ u[i] = t[i - Len(s)] /\ u[i] \in B
  <2>1. CASE i <= Len(s)
    BY <1>1, <1>4, <2>1
  <2>2. CASE ~(i <= Len(s))
    <3>1. i - Len(s) \in 1..Len(t) /\ Len(s) + (i - Len(s)) = i
      BY <1>1, <2>2
    <3>2. QED
      BY <1>1, <1>4, <3>1
  <2>3. QED
    BY <2>1, <2>2
<1>6. ASSUME NEW i \in 1..Len(u), NEW j \in 1..Len(u), u[i] = u[j] PROVE i = j
  <2>1. CASE i \in 1..Len(s) /\ u[i] = s[i] /\ u[i] \in A
    <3>1. j \in 1..Len(s) /\ u[j] = s[j]
      BY <1>5, <1>6, <2>1
    <3>2. QED
      BY <1>4, <1>6, <2>1, <3>1
  <2>2. CASE i - Len(s) \in 1..Len(t) /\ u[i] = t[i - Len(s)] /\ u[i] \in B
    <3>1. j - Len(s) \in 1..Len(t) /\ u[j] = t[j - Len(s)]
      BY <1>5, <1>6, <2>2
    <3>2. i - Len(s) = j - Len(s)
      BY <1>4, <1>6, <2>2, <3>1
    <3>3. QED
      BY <1>1, <3>2
  <2>3. QED
    BY <1>5, <2>1, <2>2
<1>7. \A x \in A \cup B : \E i \in 1..Len(u) : u[i] = x
  <2>1. ASSUME NEW x \in A PROVE \E i \in 1..Len(u) : u[i] = x
    <3>1. PICK i \in 1..Len(s) : s[i] = x
      BY <1>4
    <3>2. i \in 1..Len(u) /\ u[i] = x
      BY <1>1, <3>1
    <3>3. QED
      BY <3>2
  <2>2. ASSUME NEW x \in B PROVE \E i \in 1..Len(u) : u[i] = x
    <3>1. PICK k \in 1..Len(t) : t[k] = x
      BY <1>4
    <3>2. Len(s) + k \in 1..Len(u) /\ u[Len(s) + k] = x
      BY <1>1, <3>1
    <3>3. QED
      BY <3>2
  <2>3. QED
    BY <2>1, <2>2
<1>8. Rows(u) = A \cup B
  <2>1. \A x : x \in Rows(u) <=> \E i \in 1..Len(u) : x = u[i]
    BY <1>3 DEF Rows
  <2>2. \A i \in 1..Len(u) : u[i] \in A \cup B
    BY <1>5
  <2>3. ASSUME NEW x PROVE x \in Rows(u) <=> x \in A \cup B
    <3>1. ASSUME x \in Rows(u) PROVE x \in A \cup B
      BY <2>1, <2>2, <3>1
    <3>2. ASSUME x \in A \cup B PROVE x \in Rows(u)
      BY <1>7, <2>1, <3>2
    <3>3. QED
      BY <3>1, <3>2
  <2>4. QED
    BY <2>3
<1>9. QED
  BY <1>1, <1>3, <1>6, <1>8 DEF Exactly, Once, u

LEMMA OnceTail ==
  ASSUME NEW t \in Seq(Nat), t # << >>, Once(t)
  PROVE  /\ Head(t) \in Rows(t) /\ Head(t) \in Nat
         /\ Tail(t) \in Seq(Nat) /\ Exactly(Tail(t), Rows(t) \ {Head(t)})
<1> DEFINE u == Tail(t)
<1>1. /\ Len(t) \in Nat \ {0} /\ Head(t) = t[1] /\ t[1] \in Nat /\ 1 \in DOMAIN t
      /\ DOMAIN t = 1..Len(t)
      /\ u \in Seq(Nat) /\ Len(u) = Len(t) - 1
      /\ \A i \in 1..(Len(t) - 1) : u[i] = t[i + 1]
  OBVIOUS
<1> HIDE DEF u
<1>2. DOMAIN u = 1..(Len(t) - 1)
  BY <1>1
<1>3. \A i, j \in 1..Len(t) : t[i] = t[j] => i = j
  BY <1>1 DEF Once
<1>4. ASSUME NEW i \in 1..(Len(t) - 1)
      PROVE  i + 1 \in 1..Len(t) /\ u[i] = t[i + 1] /\ u[i] # t[1]
  BY <1>1, <1>3
<1>5. ASSUME NEW i \in 1..(Len(t) - 1), NEW j \in 1..(Len(t) - 1), u[i] = u[j] PROVE i = j
  <2>1. i + 1 = j + 1
    BY <1>3, <1>4, <1>5
  <2>2. QED
    BY <1>1, <2>1
<1>6. ASSUME NEW i \in 1..Len(t), t[i] # t[1] PROVE \E j \in 1..(Len(t) - 1) : u[j] = t[i]
  <2>1. i # 1
    BY <1>6
  <2>2. i - 1 \in 1..(Len(t) - 1) /\ (i - 1) + 1 = i
    BY <1>1, <2>1
  <2>3. QED
    BY <1>4, <2>2
<1>7. Rows(u) = Rows(t) \ {t[1]}
  <2>1. \A x : x \in Rows(u) <=> \E i \in 1..(Len(t) - 1) : x = u[i]
    BY <1>2 DEF Rows
  <2>2. \A x : x \in Rows(t) <=> \E i \in 1..Len(t) : x = t[i]
    BY <1>1 DEF Rows
  <2>3. ASSUME NEW x PROVE x \in Rows(u) <=> x \in Rows(t) \ {t[1]}
    <3>1. ASSUME x \in Rows(u) PROVE x \in Rows(t) \ {t[1]}
      BY <1>4, <2>1, <2>2, <3>1
    <3>2. ASSUME x \in Rows(t), x # t[1] PROVE x \in Rows(u)
      BY <1>6, <2>1, <2>2, <3>2
    <3>3. QED
      BY <3>1, <3>2
  <2>4. QED
    BY <2>3
<1>8. Head(t) \in Rows(t)
  BY <1>1 DEF Rows
<1>9. QED
  BY <1>1, <1>2, <1>5, <1>7, <1>8 DEF Exactly, Once, u

LEMMA OncePicked ==
  ASSUME NEW s \in Seq(Nat), NEW I \in SUBSET (1..Len(s)), Once(s)
  PROVE  At(s, I) \in Seq(Nat) /\ Exactly(At(s, I), {s[i] : i \in I})
<1> DEFINE t == At(s, I)
           place == Ascending(I)
<1>1. t \in Seq(Nat) /\ Picks(place, s, I)
  BY AtPicks
<1> HIDE DEF place
<1>2. /\ place \in [1..Len(t) -> I]
      /\ \A k \in 1..Len(t) : t[k] = s[place[k]]
      /\ \A k, l \in 1..Len(t) : k < l => place[k] < place[l]
      /\ \A i \in I : \E k \in 1..Len(t) : place[k] = i
  BY <1>1 DEF Picks
<1> HIDE DEF t
<1>3. DOMAIN t = 1..Len(t) /\ Len(t) \in Nat /\ DOMAIN s = 1..Len(s) /\ Len(s) \in Nat
  BY <1>1
<1>4. ASSUME NEW k \in 1..Len(t), NEW l \in 1..Len(t), t[k] = t[l] PROVE k = l
  <2>1. place[k] \in 1..Len(s) /\ place[l] \in 1..Len(s) /\ s[place[k]] = s[place[l]]
    BY <1>2, <1>4
  <2>2. place[k] = place[l]
    BY <1>3, <2>1 DEF Once
  <2>3. place[k] \in Int /\ place[l] \in Int
    BY <1>3, <2>1
  <2>4. ~(k < l) /\ ~(l < k)
    BY <1>2, <2>2, <2>3
  <2>5. QED
    BY <1>3, <2>4
<1>5. Rows(t) = {s[i] : i \in I}
  <2>1. ASSUME NEW k \in 1..Len(t) PROVE t[k] \in {s[i] : i \in I}
    BY <1>2
  <2>2. ASSUME NEW i \in I PROVE \E k \in 1..Len(t) : t[k] = s[i]
    BY <1>2
  <2>3. QED
    BY <1>3, <2>1, <2>2 DEF Rows
<1>6. QED
  BY <1>1, <1>3, <1>4, <1>5 DEF Exactly, Once, t

LEMMA OnceCounted ==
  ASSUME NEW t \in Seq(Nat), NEW S, Exactly(t, S)
  PROVE  HoldsOnce(t, S)
<1>1. Len(t) \in Nat /\ DOMAIN t = 1..Len(t)
  OBVIOUS
<1>2. t \in [1..Len(t) -> S]
  BY <1>1 DEF Exactly, Rows
<1>3. \A i, j \in 1..Len(t) : t[i] = t[j] => i = j
  BY <1>1 DEF Exactly, Once
<1>4. \A x \in S : \E i \in 1..Len(t) : t[i] = x
  BY <1>1 DEF Exactly, Rows
<1>5. t \in Bijection(1..Len(t), S)
  BY <1>2, <1>3, <1>4 DEF Bijection, Injection, Surjection, IsInjective
<1>6. ExistsBijection(1..Len(t), S)
  BY <1>5 DEF ExistsBijection
<1>7. IsFiniteSet(1..Len(t)) /\ Cardinality(1..Len(t)) = Len(t)
  BY <1>1, FS_Interval
<1>8. Cardinality(S) = Len(t)
  BY <1>6, <1>7, FS_Bijection
<1>9. QED
  BY <1>8 DEF HoldsOnce, Exactly

LEMMA SnapshotFiles ==
  ASSUME IcebergTableInv
  PROVE  /\ \A s \in 1..Made : snapshots[s] \in SUBSET Nat /\ IsFiniteSet(snapshots[s])
         /\ onDisk.data \in SUBSET Nat /\ IsFiniteSet(onDisk.data)
         /\ onDisk.manifests \in SUBSET Nat /\ IsFiniteSet(onDisk.manifests)
<1>1. Made \in Nat
  BY TableFacts
<1>2. ASSUME NEW n \in Nat, NEW S, S \subseteq 1..n
      PROVE  S \in SUBSET Nat /\ IsFiniteSet(S)
  <2>1. IsFiniteSet(1..n)
    BY FS_Interval
  <2>2. IsFiniteSet(S)
    BY <1>2, <2>1, FS_Subset
  <2>3. QED
    BY <1>2, <2>2
<1>3. ASSUME NEW s \in 1..Made PROVE snapshots[s] \in SUBSET Nat /\ IsFiniteSet(snapshots[s])
  <2>1. s \in Nat /\ snapshots[s] \subseteq 1..s
    BY <1>1 DEF IcebergTableInv
  <2>2. QED
    BY <1>2, <2>1
<1>4. Made + 1 \in Nat /\ onDisk.data \subseteq 1..(Made + 1) /\ onDisk.manifests \subseteq 1..(Made + 1)
  BY <1>1 DEF IcebergTableInv
<1>5. QED
  BY <1>2, <1>3, <1>4

(* A reader past the metadata: what the others add is not what it has.     *)
HasMeta == pc \in {"resolve", "manifests", "files", "data"} \/ (IsRead /\ Reader(path) = "iceberg")
HasSnapshot == pc \in {"manifests", "files", "data"} \/ (IsRead /\ Reader(path) = "iceberg")

(* The manifests of the snapshot resolved, and what they name.             *)
LEMMA SnapshotListed ==
  ASSUME IInv, HasSnapshot
  PROVE  /\ snapshot \in 1..Made /\ Made \in Nat
         /\ Listing \subseteq snapshots[snapshot]
         /\ Listing \in SUBSET Nat /\ IsFiniteSet(Listing)
         /\ ~cleaned => Listing \subseteq onDisk.manifests
         /\ \A m \in Listing : m \in 1..Len(named) /\ named[m] \in SUBSET Nat
         /\ \A m \in Listing : \A n \in Listing \ {m} : named[m] \cap named[n] = {}
<1>1. Chosen /\ IcebergTableInv /\ IcebergNamedInv
  BY DEF IInv, IcebergReadInv, HasSnapshot
<1>2. snapshot \in 1..Made /\ Made \in Nat /\ (~cleaned => Present(meta)) /\ snapshot \in meta.snapshots
  BY <1>1, MetaType DEF HasSnapshot, Chosen
<1>3. /\ snapshots[snapshot] \in SUBSET Nat /\ IsFiniteSet(snapshots[snapshot])
      /\ snapshots[snapshot] \subseteq 1..Made
  <2>1. snapshots[snapshot] \subseteq 1..snapshot
    BY <1>1, <1>2 DEF IcebergTableInv
  <2>2. QED
    BY <1>1, <1>2, <2>1, SnapshotFiles
<1>4. Listing \subseteq snapshots[snapshot]
  BY DEF Listing
<1>5. IsFiniteSet(Listing)
  BY <1>3, <1>4, FS_Subset
<1>6. ~cleaned => snapshots[snapshot] \subseteq onDisk.manifests
  BY <1>2 DEF Present
<1>7. ASSUME NEW m \in snapshots[snapshot]
      PROVE  /\ m \in 1..Len(named) /\ named[m] \in SUBSET Nat
             /\ \A n \in snapshots[snapshot] \ {m} : named[m] \cap named[n] = {}
  <2>1. named \in Seq(SUBSET Nat) /\ Len(named) \in Nat /\ Made <= Len(named)
    BY <1>1, <1>2 DEF IcebergNamedInv
  <2>2. m \in 1..Len(named)
    BY <1>2, <1>3, <2>1
  <2>3. QED
    BY <1>1, <1>2, <2>1, <2>2 DEF IcebergNamedInv
<1>8. QED
  BY <1>2, <1>3, <1>4, <1>5, <1>6, <1>7

(* What it comes to is not changed by others.                              *)
LEMMA ListingStays ==
  ASSUME IInv, [Next]_vars, HasSnapshot, UNCHANGED snapshot
  PROVE  /\ Listing' = Listing /\ Delivered' = Delivered
         /\ UNCHANGED <<manifests, files>> /\ Gathered => Gathered'
<1>1. Extends(snapshots', snapshots) /\ form' = form /\ Extends(named', named) /\ kindOf' = kindOf
  BY TableStep, NamedStep
<1>2. snapshots'[snapshot] = snapshots[snapshot]
  BY <1>1, SnapshotListed DEF Extends, Made
<1>3. Listing' = Listing
  BY <1>1, <1>2 DEF Listing
<1>4. \A m \in Listing : named'[m] = named[m]
  BY <1>1, SnapshotListed DEF Extends
<1>5. ASSUME NEW M, M \subseteq Listing
      PROVE  {f \in UNION {named'[m] : m \in M} : kindOf'[f] # "uncounted"} = NamedBy(M)
  <2>1. {named'[m] : m \in M} = {named[m] : m \in M}
    BY <1>4, <1>5
  <2>2. QED
    BY <1>1, <2>1 DEF NamedBy
<1>6. Delivered' = Delivered
  <2>1. NamedBy(Listing)' = NamedBy(Listing)
    BY <1>3, <1>5 DEF NamedBy
  <2>2. QED
    BY <1>1, <2>1 DEF Delivered
<1>7. ASSUME UNCHANGED <<manifests, files>>, Gathered PROVE Gathered'
  <2> DEFINE M == Listing \ Rows(manifests)
  <2>1. M \subseteq Listing /\ M' = M
    BY <1>3, <1>7
  <2>2. NamedBy(M)' = NamedBy(M)
    <3>1. NamedBy(M)' = {f \in UNION {named'[m] : m \in M'} : kindOf'[f] # "uncounted"}
      BY DEF NamedBy
    <3> HIDE DEF M
    <3>2. QED
      BY <1>5, <2>1, <3>1
  <2>3. QED
    BY <1>3, <1>7, <2>2 DEF Gathered
<1>8. QED
  BY <1>3, <1>6, <1>7

LEMMA IcebergKept ==
  ASSUME IInv, [Next]_vars, ~ReadIceberg, ~Opening
  PROVE  IcebergReadInv'
<1>1. /\ UNCHANGED <<path, icebergRead>>
      /\ UNCHANGED pc \/ (pc \notin IcebergSteps /\ pc' \notin IcebergSteps)
      /\ (IsRead /\ Reader(path) = "iceberg")' => IsRead /\ Reader(path) = "iceberg"
      /\ pc \notin DeltaSteps => UNCHANGED <<request, frame>>
  <2>1. CASE Aside
    BY <2>1, AsideType DEF IsRead
  <2>2. CASE ReadDelta
    <3>1. Reader(path) = "delta" /\ UNCHANGED <<path, icebergRead>>
      BY <2>2, ReadersType DEF IInv, ControlInv
    <3>2. pc \in DeltaSteps /\ pc' \in DeltaSteps \cup {"read", "failed"} /\ Reader(path)' = Reader(path)
      BY <2>2, <3>1, ReadersType
    <3>3. QED
      BY <3>1, <3>2 DEF DeltaSteps, IcebergSteps
  <2>3. CASE Cutting
    <3>1. /\ UNCHANGED <<request, frame, path, icebergRead>> /\ Reader(path)' = Reader(path)
          /\ pc \in {"read", "slice"} /\ pc' \in {"slice", "ended"}
      BY <2>3, CuttingType
    <3>2. QED
      BY <3>1 DEF IcebergSteps, IsRead
  <2>4. QED
    BY <2>1, <2>2, <2>3, StepCases
<1>2. IcebergReadInv /\ Extends(metas', metas) /\ Extends(snapshots', snapshots) /\ form' = form
  BY TableStep DEF IInv
<1>3. ~cleaned' => ~cleaned /\ firstMeta' = firstMeta
  BY TableStep
<1>4. Len(metas) \in Nat /\ Len(metas') \in Nat /\ Made = Len(snapshots) /\ Made \in Nat
  <2>1. IcebergTableInv
    BY DEF IInv
  <2>2. metas' \in Seq(Metadata)
    BY TableStep DEF IcebergTableInv
  <2>3. QED
    BY <2>1, <2>2, TableFacts
<1>5. (HasMeta' => HasMeta) /\ (HasSnapshot' => HasSnapshot)
  BY <1>1 DEF HasMeta, HasSnapshot, IcebergSteps
<1>17. HasSnapshot' => HasSnapshot /\ UNCHANGED <<request, frame>>
  <2>1. HasSnapshot => pc \notin DeltaSteps
    BY DEF HasSnapshot, DeltaSteps, IsRead
  <2>2. QED
    BY <1>1, <1>5, <2>1
<1>18. cleaned' \in BOOLEAN
  <2>1. UNCHANGED cleaned \/ IcebergTableStep
    BY AsideType, ReadersType, CuttingType, StepCases
  <2>2. UNCHANGED cleaned \/ cleaned' = TRUE
    BY <2>1 DEF IcebergTableStep
  <2>3. CASE UNCHANGED cleaned
    BY <1>2, <2>3 DEF IcebergReadInv
  <2>4. CASE cleaned' = TRUE
    BY <2>4
  <2>5. QED
    BY <2>2, <2>3, <2>4
<1>6. HasMeta' => \E v \in 1..Len(metas') : meta' = metas'[v] /\ (~cleaned' => v >= firstMeta')
  <2>1. SUFFICES ASSUME HasMeta
                 PROVE  \E v \in 1..Len(metas') : meta' = metas'[v] /\ (~cleaned' => v >= firstMeta')
    BY <1>5
  <2>2. PICK v \in 1..Len(metas) : meta = metas[v] /\ (~cleaned => v >= firstMeta)
    BY <1>2, <2>1 DEF HasMeta, IcebergReadInv
  <2>3. v \in 1..Len(metas') /\ metas'[v] = metas[v]
    BY <1>2, <1>4 DEF Extends
  <2>4. QED
    BY <1>1, <1>3, <2>2, <2>3
<1>7. HasSnapshot' => Chosen'
  BY <1>1, <1>2, <1>17 DEF HasSnapshot, IcebergReadInv, Chosen
<1>8. HasSnapshot => Delivered' = Delivered /\ (Gathered => Gathered')
  BY <1>1, ListingStays
<1>9. Undisturbed' => Undisturbed
  BY <1>2, <1>3 DEF Undisturbed
<1>10. /\ manifests' \in Seq(Nat) /\ files' \in Seq(Nat) /\ snapshot' \in Nat \cup {Nothing}
  BY <1>1, <1>2 DEF IcebergReadInv
<1>11. pc' = "metadata" => snapshot' \in 0..Len(metas')
  BY <1>1, <1>2, <1>4 DEF IcebergReadInv, Extends, IcebergSteps
<1>12. pc' = "data" => files' # << >>
  BY <1>1, <1>2 DEF IcebergReadInv, IcebergSteps
<1>13. pc' = "files" /\ Undisturbed' => Gathered'
  <2>1. SUFFICES ASSUME pc' = "files", Undisturbed' PROVE Gathered'
    OBVIOUS
  <2>2. pc = "files" /\ Undisturbed /\ HasSnapshot
    BY <1>1, <1>9, <2>1 DEF IcebergSteps, HasSnapshot
  <2>3. QED
    BY <1>2, <1>8, <2>2 DEF IcebergReadInv
<1>14. pc' = "data" /\ Undisturbed' => Exactly(frame \o files, Delivered)'
  <2>1. SUFFICES ASSUME pc' = "data", Undisturbed' PROVE Exactly(frame \o files, Delivered)'
    OBVIOUS
  <2>2. pc = "data" /\ Undisturbed /\ HasSnapshot /\ frame' = frame
    BY <1>1, <1>9, <1>17, <2>1 DEF IcebergSteps, HasSnapshot
  <2>3. QED
    BY <1>1, <1>2, <1>8, <2>2 DEF IcebergReadInv
<1>15. (IsRead /\ Reader(path) = "iceberg" /\ Undisturbed)' => Exactly(frame, Delivered)'
  <2>1. SUFFICES ASSUME (IsRead /\ Reader(path) = "iceberg")', Undisturbed'
                 PROVE  Exactly(frame, Delivered)'
    OBVIOUS
  <2>2. IsRead /\ Reader(path) = "iceberg" /\ Undisturbed /\ HasSnapshot /\ frame' = frame
    BY <1>1, <1>9, <1>17, <2>1 DEF HasSnapshot
  <2>3. QED
    BY <1>1, <1>2, <1>8, <2>2 DEF IcebergReadInv
<1>16. QED
  BY <1>1, <1>6, <1>7, <1>10, <1>11, <1>12, <1>13, <1>14, <1>15, <1>18 DEF IcebergReadInv, HasMeta, HasSnapshot

-----------------------------------------------------------------------------
(* The steps of the Iceberg reader. *)

LEMMA IcebergReading ==
  ASSUME IInv, ReadIceberg
  PROVE  /\ UNCHANGED <<path, form, kindOf, named, snapshots, metas, firstMeta, hint, onDisk, cleaned>>
         /\ Reader(path) = "iceberg" /\ Reader(path)' = "iceberg" /\ pc \in IcebergSteps
         /\ pc # "data" => frame = << >>
         /\ frame \in Seq(Nat)
         /\ cleaned \in BOOLEAN /\ manifests \in Seq(Nat) /\ files \in Seq(Nat)
         /\ snapshot \in Nat \cup {Nothing}
         /\ Nothing \notin Int /\ Len(metas) \in Nat
         /\ Undisturbed' = Undisturbed
<1>1. UNCHANGED <<path, form, kindOf, named, snapshots, metas, firstMeta, hint, onDisk>> /\ pc \in IcebergSteps
  BY ReadersType
<1>2. cleaned' = cleaned
  BY DEF ReadIceberg, IcebergReadStep, IcebergHinted, IcebergMetadata, IcebergResolve, IcebergResolveRef,
         IcebergList, IcebergManifest, IcebergCollected, IcebergLoad
<1>3. Reader(path) = "iceberg" /\ (pc # "data" => frame = << >>) /\ frame \in Seq(Nat)
  BY <1>1 DEF IInv, ControlInv, IcebergSteps
<1>4. Reader(path)' = Reader(path)
  BY <1>1
<1>5. Len(metas) \in Nat
  BY TableFacts DEF IInv
<1>6. Undisturbed' = Undisturbed
  BY <1>1, <1>2 DEF Undisturbed
<1>7. QED
  BY <1>1, <1>2, <1>3, <1>4, <1>5, <1>6, NothingAssumption DEF IInv, IcebergReadInv

LEMMA DeliveredSame ==
  ASSUME IInv, ReadIceberg, UNCHANGED snapshot
  PROVE  /\ Listing' = Listing /\ Delivered' = Delivered
         /\ Gathered' <=> /\ Once(manifests') /\ Rows(manifests') \subseteq Listing
                          /\ Exactly(files', NamedBy(Listing \ Rows(manifests')))
<1>1. UNCHANGED <<form, kindOf, named, snapshots, snapshot>>
  BY IcebergReading
<1>2. Listing' = Listing
  BY <1>1 DEF Listing
<1>3. NamedBy(Listing)' = NamedBy(Listing)
  BY <1>1, <1>2 DEF NamedBy
<1>4. Delivered' = Delivered
  BY <1>1, <1>3 DEF Delivered
<1>5. NamedBy(Listing \ Rows(manifests))' = NamedBy(Listing \ Rows(manifests'))
  BY <1>1, <1>2 DEF NamedBy
<1>6. QED
  BY <1>2, <1>4, <1>5 DEF Gathered

(* Before the metadata is named, and after a failure, little is known.     *)
LEMMA IcebergUnread ==
  ASSUME cleaned' \in BOOLEAN, manifests' \in Seq(Nat), files' \in Seq(Nat),
         snapshot' \in Nat \cup {Nothing},
         pc' \notin IcebergSteps \ {"hint"},
         ~(IsRead /\ Reader(path) = "iceberg")'
  PROVE  IcebergReadInv'
<1>1. pc' \notin {"metadata", "resolve", "manifests", "files", "data"}
  BY DEF IcebergSteps
<1>2. QED
  BY <1>1 DEF IcebergReadInv

(* What the steps after the metadata is read must show.                    *)
LEMMA IcebergPastMeta ==
  ASSUME IInv, ReadIceberg, HasMeta, UNCHANGED meta,
         manifests' \in Seq(Nat), files' \in Seq(Nat), snapshot' \in Nat \cup {Nothing},
         pc' # "metadata",
         HasSnapshot' => Chosen',
         pc' = "files" /\ Undisturbed => Gathered',
         pc' = "data" => files' # << >>,
         pc' = "data" /\ Undisturbed => Exactly(frame \o files, Delivered)',
         pc' = "read" /\ Undisturbed => Exactly(frame, Delivered)'
  PROVE  IcebergReadInv'
<1>1. PICK v \in 1..Len(metas) : meta = metas[v] /\ (~cleaned => v >= firstMeta)
  BY DEF HasMeta, IInv, IcebergReadInv
<1>2. UNCHANGED <<snapshots, metas, firstMeta, cleaned>> /\ Undisturbed' = Undisturbed /\ cleaned \in BOOLEAN
  BY IcebergReading
<1>3. v \in 1..Len(metas') /\ meta' = metas'[v] /\ (~cleaned' => v >= firstMeta')
  BY <1>1, <1>2
<1>5. pc' \in IcebergSteps \cup {"read", "failed"}
  BY ReadersType
<1>6. IsRead' => pc' = "read"
  BY <1>5 DEF IsRead, IcebergSteps
<1>8. cleaned' \in BOOLEAN
  BY <1>2
<1>11. IsRead' /\ Reader(path)' = "iceberg" /\ Undisturbed' => Exactly(frame, Delivered)'
  BY <1>2, <1>6
<1>12. QED
  BY <1>2, <1>3, <1>8, <1>11 DEF IcebergReadInv, HasSnapshot

LEMMA HintedStep ==
  ASSUME IInv, ReadIceberg, IcebergHinted
  PROVE  IcebergReadInv'
<1>1. /\ pc' = "metadata" /\ snapshot' = MetaVersion /\ UNCHANGED <<manifests, files>>
  BY DEF IcebergHinted, Goto
<1>2. MetaVersion \in 0..Len(metas)
  <2>1. Len(metas) \in Nat /\ (hint = Nothing \/ hint \in 1..Len(metas))
    BY IcebergReading DEF IInv, IcebergTableInv
  <2>2. QED
    BY <2>1 DEF MetaVersion
<1>3. snapshot' \in 0..Len(metas') /\ snapshot' \in Nat
  BY <1>1, <1>2, IcebergReading
<1>4. manifests' \in Seq(Nat) /\ files' \in Seq(Nat) /\ cleaned' \in BOOLEAN
  BY <1>1, IcebergReading
<1>5. QED
  BY <1>1, <1>3, <1>4 DEF IcebergReadInv, IsRead

LEMMA MetadataStep ==
  ASSUME IInv, ReadIceberg, IcebergMetadata
  PROVE  IcebergReadInv'
<1>1. manifests' \in Seq(Nat) /\ files' \in Seq(Nat) /\ snapshot' \in Nat \cup {Nothing} /\ cleaned' \in BOOLEAN
  BY IcebergReading DEF IcebergMetadata
<1>2. CASE pc' = "failed"
  BY <1>1, <1>2, IcebergUnread DEF IcebergSteps, IsRead
<1>3. CASE pc' = "resolve" /\ ~(snapshot < firstMeta) /\ meta' = metas[snapshot]
  <2>1. snapshot \in 0..Len(metas) /\ Len(metas) \in Nat /\ firstMeta \in Nat \ {0}
    BY IcebergReading DEF IInv, IcebergReadInv, IcebergTableInv, IcebergMetadata
  <2>2. snapshot \in 1..Len(metas) /\ snapshot >= firstMeta
    BY <1>3, <2>1
  <2>3. snapshot \in 1..Len(metas') /\ meta' = metas'[snapshot] /\ snapshot >= firstMeta'
    BY <1>3, <2>2, IcebergReading
  <2>4. QED
    BY <1>1, <1>3, <2>3 DEF IcebergReadInv, IsRead
<1>4. QED
  BY <1>2, <1>3 DEF IcebergMetadata, Fail, Goto

LEMMA ResolveStep ==
  ASSUME IInv, ReadIceberg, IcebergResolve
  PROVE  IcebergReadInv'
<1>1. /\ manifests' \in Seq(Nat) /\ files' \in Seq(Nat) /\ cleaned' \in BOOLEAN
      /\ snapshot \in Nat \cup {Nothing} /\ UNCHANGED meta /\ pc = "resolve" /\ request.kind # "ref"
  BY IcebergReading DEF IcebergResolve
<1>2. CASE pc' = "failed" /\ UNCHANGED snapshot
  BY <1>1, <1>2, IcebergUnread DEF IcebergSteps, IsRead
<1>3. CASE snapshot' \in Wanted /\ pc' = "manifests" /\ UNCHANGED request
  <2>1. /\ meta.current \in 1..Made /\ Made \in Nat /\ meta.snapshots \subseteq 1..Made
        /\ \E a \in 1..meta.current : meta.snapshots = a..meta.current
    BY <1>1, MetaType
  <2>2. PICK a \in 1..meta.current : meta.snapshots = a..meta.current
    BY <2>1
  <2>3. request.kind \in {"latest", "version", "asOf"} /\ (request.kind = "asOf" => request.at \in Nat)
    BY <1>1, RequestType DEF IInv
  <2>4. ASSUME request.kind = "latest" PROVE Chosen'
    BY <1>1, <1>3, <2>4 DEF Wanted, Chosen
  <2>5. ASSUME request.kind = "version" PROVE Chosen'
    BY <1>1, <1>3, <2>5 DEF Wanted, Chosen
  <2>6. ASSUME request.kind = "asOf" PROVE Chosen'
    <3> DEFINE reached == {s \in meta.snapshots : SnapshotTime(s) <= request.at}
    <3>1. a \in Nat /\ meta.current \in Nat /\ request.at \in Nat
      BY <2>1, <2>3, <2>6
    <3>2. Least(request.at, meta.current) \in Int
      BY <3>1 DEF Least
    <3>3. ASSUME NEW s \in meta.snapshots
          PROVE  SnapshotTime(s) <= request.at <=> s \in a..Least(request.at, meta.current)
      BY <2>2, <3>1 DEF SnapshotTime, Least
    <3>4. ASSUME NEW s \in a..Least(request.at, meta.current) PROVE s \in meta.snapshots
      BY <2>2, <3>1 DEF Least
    <3>5. reached = a..Least(request.at, meta.current)
      BY <3>3, <3>4
    <3>6. Wanted = Newest(reached)
      BY <2>6 DEF Wanted
    <3>7. reached # {} /\ snapshot' = Highest(reached)
      <4> HIDE DEF reached
      <4>1. QED
        BY <1>3, <3>6 DEF Newest
    <3> DEFINE last == Least(request.at, meta.current)
    <3>8. a <= last /\ a \in Int
      <4> HIDE DEF last, reached
      <4>1. PICK s \in a..last : TRUE
        BY <3>5, <3>7 DEF last
      <4>2. QED
        BY <3>1, <3>2, <4>1 DEF last
    <3>9. snapshot' = last
      <4> HIDE DEF last, reached
      <4>1. Highest(a..last) = last
        BY <3>2, <3>8, ExtremesOfInterval DEF last
      <4>2. QED
        BY <3>5, <3>7, <4>1 DEF last
    <3>10. snapshot' \in meta.snapshots
      <4> HIDE DEF last, reached
      <4>1. last \in a..last
        BY <3>2, <3>8 DEF last
      <4>2. QED
        BY <3>4, <3>9, <4>1 DEF last
    <3>11. last' = last
      BY <1>1, <1>3 DEF Least
    <3>12. QED
      <4> HIDE DEF reached
      <4>1. Chosen' <=> snapshot' \in meta.snapshots /\ snapshot' = last
        BY <1>1, <1>3, <2>6, <3>11 DEF Chosen
      <4>2. QED
        BY <3>9, <3>10, <4>1
  <2>7. Chosen'
    BY <2>3, <2>4, <2>5, <2>6
  <2>8. snapshot' \in Nat
    BY <2>1, <2>7, <1>1 DEF Chosen
  <2>9. HasMeta
    BY <1>1 DEF HasMeta
  <2>10. pc' \notin {"metadata", "files", "data", "read"}
    BY <1>3
  <2>11. QED
    BY <1>1, <2>7, <2>8, <2>9, <2>10, IcebergPastMeta
<1>4. QED
  BY <1>2, <1>3 DEF IcebergResolve, Fail, Goto

LEMMA ResolveRefStep ==
  ASSUME IInv, ReadIceberg, IcebergResolveRef
  PROVE  IcebergReadInv'
<1>1. manifests' \in Seq(Nat) /\ files' \in Seq(Nat) /\ snapshot' \in Nat \cup {Nothing} /\ cleaned' \in BOOLEAN
  BY IcebergReading DEF IcebergResolveRef
<1>2. pc' \in {"hint", "failed"}
  BY DEF IcebergResolveRef, Fail
<1>3. QED
  BY <1>1, <1>2, IcebergUnread DEF IcebergSteps, IsRead

(* A manifest that is there, or its JSON sidecar, gives what it names.     *)
LEMMA FilesType ==
  ASSUME IInv, NEW m \in Nat
  PROVE  /\ FilesOf(m) \in Seq(Nat)
         /\ m \in onDisk.manifests /\ form # "avro" => Exactly(FilesOf(m), NamedBy({m}))
<1> DEFINE X == {f \in named[m] : kindOf[f] # "uncounted"}
           Y == {f \in onDisk.data : kindOf[f] # "orc"}
<1>1. Y \in SUBSET Nat /\ IsFiniteSet(Y)
  <2>1. onDisk.data \in SUBSET Nat /\ IsFiniteSet(onDisk.data) /\ Y \subseteq onDisk.data
    BY SnapshotFiles DEF IInv
  <2> HIDE DEF Y
  <2>2. QED
    BY <2>1, FS_Subset
<1>2. ASSUME m \in onDisk.manifests PROVE X \in SUBSET Nat /\ IsFiniteSet(X)
  <2>1. named[m] \subseteq 1..m
    BY <1>2 DEF IInv, IcebergNamedInv
  <2>2. X \subseteq 1..m
    BY <2>1
  <2> HIDE DEF X
  <2>3. IsFiniteSet(1..m)
    BY FS_Interval
  <2>4. IsFiniteSet(X)
    BY <2>2, <2>3, FS_Subset
  <2>5. QED
    BY <2>2, <2>4
<1>3. NamedBy({m}) = X
  BY DEF NamedBy
<1>4. FilesOf(m) = IF m \in onDisk.manifests /\ form # "avro" THEN InOrder(X) ELSE InOrder(Y)
  BY DEF FilesOf
<1> HIDE DEF X, Y
<1>5. InOrder(Y) \in Seq(Nat)
  BY <1>1, InOrderType
<1>6. m \in onDisk.manifests => InOrder(X) \in Seq(Nat) /\ Exactly(InOrder(X), X)
  BY <1>2, InOrderType
<1>7. QED
  BY <1>3, <1>4, <1>5, <1>6

LEMMA IcebergListStep ==
  ASSUME IInv, ReadIceberg, IcebergList
  PROVE  IcebergReadInv'
<1>1. /\ files' = << >> /\ UNCHANGED <<meta, snapshot>> /\ pc = "manifests"
      /\ snapshot \in Nat \cup {Nothing} /\ cleaned' \in BOOLEAN /\ manifests \in Seq(Nat)
  BY IcebergReading DEF IcebergList
<1>2. HasMeta /\ HasSnapshot
  BY <1>1 DEF HasMeta, HasSnapshot
<1>3. Chosen
  BY <1>2 DEF IInv, IcebergReadInv, HasSnapshot
<1>4. CASE pc' = "failed" /\ UNCHANGED manifests
  BY <1>1, <1>4, IcebergUnread DEF IcebergSteps, IsRead
<1>5. CASE /\ pc' = "files" /\ UNCHANGED request
           /\ manifests' = IF form \in {"list", "inline"} THEN ListedManifests ELSE InOrder(onDisk.manifests)
  <2>1. Chosen'
    BY <1>1, <1>3, <1>5 DEF Chosen
  <2>2. ListedManifests = InOrder(Listing)
    BY DEF ListedManifests, Listing
  <2>3. InOrder(Listing) \in Seq(Nat) /\ Exactly(InOrder(Listing), Listing)
    BY <1>2, SnapshotListed, InOrderType
  <2>4. InOrder(onDisk.manifests) \in Seq(Nat)
    BY SnapshotFiles, InOrderType DEF IInv
  <2>5. manifests' \in Seq(Nat) /\ (Undisturbed => manifests' = InOrder(Listing))
    BY <1>5, <2>2, <2>3, <2>4 DEF Undisturbed
  <2>6. Undisturbed => Gathered'
    <3>1. SUFFICES ASSUME Undisturbed PROVE Gathered'
      OBVIOUS
    <3>2. Once(manifests') /\ Rows(manifests') = Listing
      BY <2>3, <2>5, <3>1 DEF Exactly
    <3>3. NamedBy(Listing \ Listing) = {}
      BY DEF NamedBy
    <3>4. Exactly(<< >>, {})
      BY DEF Exactly, Once, Rows
    <3>5. Exactly(files', NamedBy(Listing \ Rows(manifests')))
      BY <1>1, <3>2, <3>3, <3>4
    <3>6. QED
      BY <1>1, <3>2, <3>5, DeliveredSame
  <2>7. files' \in Seq(Nat) /\ pc' \notin {"metadata", "data", "read"}
    BY <1>1, <1>5
  <2>8. QED
    BY <1>1, <1>2, <2>1, <2>5, <2>6, <2>7, IcebergPastMeta
<1>6. QED
  BY <1>4, <1>5 DEF IcebergList, Fail, Goto

LEMMA ManifestStep ==
  ASSUME IInv, ReadIceberg, IcebergManifest
  PROVE  IcebergReadInv'
<1>1. /\ pc = "files" /\ manifests # << >> /\ UNCHANGED <<request, frame, pc, meta, snapshot>>
      /\ files' = files \o FilesOf(Head(manifests)) /\ manifests' = Tail(manifests)
      /\ manifests \in Seq(Nat) /\ files \in Seq(Nat) /\ snapshot \in Nat \cup {Nothing}
  BY IcebergReading DEF IcebergManifest
<1>2. HasMeta /\ HasSnapshot
  BY <1>1 DEF HasMeta, HasSnapshot
<1>3. Chosen'
  BY <1>1, <1>2 DEF IInv, IcebergReadInv, HasSnapshot, Chosen
<1> DEFINE m == Head(manifests)
<1>4. m \in Nat /\ Tail(manifests) \in Seq(Nat)
  BY <1>1
<1>5. FilesOf(m) \in Seq(Nat)
  <2> HIDE DEF m
  <2>1. QED
    BY <1>4, FilesType
<1>6. files' \in Seq(Nat) /\ manifests' \in Seq(Nat)
  BY <1>1, <1>4, <1>5
<1>7. ASSUME Undisturbed PROVE Gathered'
  <2> DEFINE M == Listing \ Rows(manifests)
  <2>1. Once(manifests) /\ Rows(manifests) \subseteq Listing /\ Exactly(files, NamedBy(M))
    BY <1>1, <1>7 DEF IInv, IcebergReadInv, Gathered
  <2>2. m \in Rows(manifests) /\ Exactly(manifests', Rows(manifests) \ {m})
    BY <1>1, <2>1, OnceTail
  <2>3. m \in Listing /\ m \notin M /\ M \subseteq Listing
    BY <2>1, <2>2
  <2>4. m \in onDisk.manifests /\ form # "avro"
    BY <1>2, <1>7, <2>3, SnapshotListed DEF Undisturbed
  <2> HIDE DEF m, M
  <2>5. Exactly(FilesOf(m), NamedBy({m}))
    BY <1>4, <2>4, FilesType
  <2>6. NamedBy(M) \cap NamedBy({m}) = {}
    <3>1. \A n \in M : named[n] \cap named[m] = {}
      BY <1>2, <2>3, SnapshotListed
    <3>2. QED
      BY <3>1 DEF NamedBy
  <2>7. Exactly(files', NamedBy(M) \cup NamedBy({m}))
    <3>1. files' = files \o FilesOf(m)
      BY <1>1 DEF m
    <3>2. files \in Seq(Nat) /\ FilesOf(m) \in Seq(Nat)
      BY <1>1, <1>5
    <3>3. Exactly(files, NamedBy(M)) /\ Exactly(FilesOf(m), NamedBy({m}))
      BY <2>1, <2>5
    <3>4. Exactly(files \o FilesOf(m), NamedBy(M) \cup NamedBy({m}))
      BY <2>6, <3>2, <3>3, OnceJoined
    <3>5. QED
      BY <3>1, <3>4
  <2>8. NamedBy(M) \cup NamedBy({m}) = NamedBy(M \cup {m})
    BY DEF NamedBy
  <2>9. M \cup {m} = Listing \ Rows(manifests')
    <3>1. Rows(manifests') = Rows(manifests) \ {m}
      BY <2>2 DEF Exactly
    <3>2. QED
      BY <2>3, <3>1 DEF M
  <2>10. Exactly(files', NamedBy(Listing \ Rows(manifests')))
    BY <2>7, <2>8, <2>9
  <2>11. Once(manifests') /\ Rows(manifests') \subseteq Listing
    BY <2>1, <2>2 DEF Exactly
  <2>12. QED
    BY <1>1, <2>10, <2>11, DeliveredSame
<1>8. pc' \notin {"metadata", "data", "read"} /\ UNCHANGED meta /\ snapshot' \in Nat \cup {Nothing}
  BY <1>1
<1>9. QED
  BY <1>2, <1>3, <1>6, <1>7, <1>8, IcebergPastMeta

LEMMA CollectedStep ==
  ASSUME IInv, ReadIceberg, IcebergCollected
  PROVE  IcebergReadInv'
<1> DEFINE I == {i \in DOMAIN files : kindOf[files[i]] # "orc"}
<1>1. /\ pc = "files" /\ manifests = << >> /\ UNCHANGED <<meta, snapshot, manifests>>
      /\ files' = At(files, I)
      /\ manifests \in Seq(Nat) /\ files \in Seq(Nat) /\ snapshot \in Nat \cup {Nothing}
      /\ frame = << >> /\ cleaned' \in BOOLEAN
  BY IcebergReading DEF IcebergCollected
<1>2. HasMeta /\ HasSnapshot
  BY <1>1 DEF HasMeta, HasSnapshot
<1>3. I \in SUBSET (1..Len(files))
  BY <1>1
<1>4. files' \in Seq(Nat)
  <2> HIDE DEF I
  <2>1. QED
    BY <1>1, <1>3, AtPicks
<1>5. CASE pc' = "failed"
  BY <1>1, <1>4, <1>5, IcebergUnread DEF IcebergSteps, IsRead
<1>6. CASE pc' = "data" /\ UNCHANGED <<request, frame>> /\ files' # << >>
  <2>1. Chosen'
    BY <1>1, <1>2, <1>6 DEF IInv, IcebergReadInv, HasSnapshot, Chosen
  <2>2. ASSUME Undisturbed PROVE Exactly(frame \o files, Delivered)'
    <3>1. Exactly(files, NamedBy(Listing))
      <4>1. Exactly(files, NamedBy(Listing \ Rows(manifests)))
        BY <1>1, <2>2 DEF IInv, IcebergReadInv, Gathered
      <4>2. Listing \ Rows(manifests) = Listing
        BY <1>1 DEF Rows
      <4>3. QED
        BY <4>1, <4>2
    <3>2. Exactly(files', {files[i] : i \in I})
      <4> HIDE DEF I
      <4>1. QED
        BY <1>1, <1>3, <3>1, OncePicked DEF Exactly
    <3>3. {files[i] : i \in I} = Delivered
      <4>1. NamedBy(Listing) = {files[i] : i \in DOMAIN files}
        BY <3>1 DEF Exactly, Rows
      <4>2. QED
        BY <4>1 DEF Delivered
    <3>4. frame' \o files' = files'
      BY <1>1, <1>4, <1>6
    <3>5. QED
      BY <1>1, <3>2, <3>3, <3>4, DeliveredSame
  <2>3. pc' \notin {"metadata", "files", "read"} /\ UNCHANGED meta /\ files' # << >>
        /\ manifests' \in Seq(Nat) /\ snapshot' \in Nat \cup {Nothing}
    BY <1>1, <1>6
  <2>4. QED
    BY <1>2, <1>4, <2>1, <2>2, <2>3, IcebergPastMeta
<1>7. QED
  BY <1>5, <1>6 DEF IcebergCollected, Fail, Goto

LEMMA IcebergLoadStep ==
  ASSUME IInv, ReadIceberg, IcebergLoad
  PROVE  IcebergReadInv'
<1>1. /\ pc = "data" /\ UNCHANGED <<meta, snapshot, manifests>>
      /\ manifests \in Seq(Nat) /\ files \in Seq(Nat) /\ snapshot \in Nat \cup {Nothing}
      /\ frame \in Seq(Nat) /\ cleaned' \in BOOLEAN
  BY IcebergReading DEF IcebergLoad
<1>2. HasMeta /\ HasSnapshot
  BY <1>1 DEF HasMeta, HasSnapshot
<1>3. files # << >>
  BY <1>1 DEF IInv, IcebergReadInv
<1>4. CASE pc' = "failed" /\ UNCHANGED files
  BY <1>1, <1>4, IcebergUnread DEF IcebergSteps, IsRead
<1>5. CASE Load(Head(files), Len(files) = 1) /\ files' = Tail(files)
  <2>1. frame' = Append(frame, Head(files)) /\ pc' = (IF Len(files) = 1 THEN "read" ELSE "data")
        /\ UNCHANGED request /\ files' = Tail(files)
    BY <1>1, <1>5 DEF Load
  <2>2. /\ Tail(files) \in Seq(Nat) /\ Append(frame, Head(files)) \in Seq(Nat)
        /\ Append(frame, Head(files)) \o Tail(files) = frame \o files
        /\ Len(files) = 1 <=> Tail(files) = << >>
    BY <1>1, <1>3, MoveHead
  <2>3. files' \in Seq(Nat) /\ frame' \in Seq(Nat) /\ frame' \o files' = frame \o files
        /\ (Len(files) = 1 <=> files' = << >>)
    BY <2>1, <2>2
  <2>4. Chosen'
    BY <1>1, <1>2, <2>1 DEF IInv, IcebergReadInv, HasSnapshot, Chosen
  <2>5. Undisturbed => Exactly(frame \o files, Delivered)'
    <3>1. Undisturbed => Exactly(frame \o files, Delivered)
      BY <1>1 DEF IInv, IcebergReadInv
    <3>2. Delivered' = Delivered
      BY <1>1, DeliveredSame
    <3>3. QED
      BY <2>3, <3>1, <3>2
  <2>6. pc' = "data" => files' # << >>
    BY <2>1, <2>3
  <2>7. pc' = "read" => files' = << >>
    BY <2>1, <2>3
  <2>8. frame' \o << >> = frame'
    BY <2>3
  <2>9. pc' = "read" /\ Undisturbed => Exactly(frame, Delivered)'
    BY <2>5, <2>7, <2>8
  <2>10. pc' \notin {"metadata", "files"} /\ UNCHANGED meta
         /\ manifests' \in Seq(Nat) /\ snapshot' \in Nat \cup {Nothing}
    BY <1>1, <2>1
  <2>11. QED
    BY <1>2, <2>3, <2>4, <2>5, <2>6, <2>9, <2>10, IcebergPastMeta
<1>6. QED
  BY <1>4, <1>5 DEF IcebergLoad, Fail

(* A call begins: nothing is known of the table it is about.               *)
LEMMA IcebergOpening ==
  ASSUME IInv, Opening
  PROVE  IcebergReadInv'
<1>1. /\ UNCHANGED path
      /\ \/ \E r \in Requests : OpensDelta(r) \/ OpensIceberg(r)
         \/ OpensFile
         \/ Fail /\ UNCHANGED <<deltaRead, icebergRead, cleaned>>
  BY OpeningType
<1>2. Reader(path)' = Reader(path) /\ cleaned \in BOOLEAN
  BY <1>1 DEF IInv, IcebergReadInv
<1>3. UNCHANGED <<manifests, files, snapshot>>
  BY <1>1 DEF OpensDelta, OpensIceberg, OpensFile, IcebergBegin
<1>4. manifests' \in Seq(Nat) /\ files' \in Seq(Nat) /\ snapshot' \in Nat \cup {Nothing}
  BY <1>3 DEF IInv, IcebergReadInv
<1>5. cleaned' \in BOOLEAN
  <2>1. UNCHANGED cleaned \/ cleaned' = FALSE
    BY <1>1 DEF OpensDelta, OpensIceberg, OpensFile, IcebergBegin
  <2>2. CASE UNCHANGED cleaned
    BY <1>2, <2>2
  <2>3. CASE cleaned' = FALSE
    BY <2>3
  <2>4. QED
    BY <2>1, <2>2, <2>3
<1>6. pc' \notin IcebergSteps \ {"hint"}
  BY <1>1 DEF OpensDelta, OpensIceberg, OpensFile, IcebergBegin, DeltaBegin, Request, Fail, IcebergSteps
<1>7. ~(IsRead /\ Reader(path) = "iceberg")'
  BY <1>1, <1>2 DEF OpensDelta, OpensIceberg, OpensFile, IcebergBegin, DeltaBegin, Request, Fail, IsRead
<1>8. QED
  BY <1>4, <1>5, <1>6, <1>7, IcebergUnread

LEMMA IcebergStep ==
  ASSUME IInv, [Next]_vars
  PROVE  IcebergReadInv'
<1>1. CASE ReadIceberg
  BY <1>1, HintedStep, MetadataStep, ResolveStep, ResolveRefStep, IcebergListStep, ManifestStep,
     CollectedStep, IcebergLoadStep
     DEF ReadIceberg, IcebergReadStep
<1>2. QED
  BY <1>1, IcebergOpening, IcebergKept

-----------------------------------------------------------------------------
(* The theorems. *)

(* From the start every step keeps what the readers, the batches and the   *)
(* row buffer rely on, whichever of them runs and whoever writes.          *)
THEOREM ReaderInvariance == Spec => []IInv
<1>1. Init => IInv
  BY InitInvariant
<1>2. ASSUME IInv, [Next]_vars PROVE IInv'
  <2>1. UNCHANGED rowVars \/ RowStep
    BY <1>2, StepCases, AsideType, OpeningType, ReadersType, CuttingType
  <2>2. RowInv'
    BY <1>2, <2>1, RowInvStep DEF IInv
  <2>3. QED
    BY <1>2, <2>2, ControlStep, BatchStep, DeltaTableStays, DeltaStep, TimeStep, TableStep, NamedStep,
       IcebergStep DEF IInv
<1>3. QED
  BY <1>1, <1>2, PTL DEF Spec

(* TypeOK: the state has its types, the offset of the batcher is never     *)
(* past the cached frame, and no batch is empty or above the batch size.   *)
THEOREM TypeCorrect == Spec => []TypeOK
<1>1. ASSUME IInv PROVE TypeOK
  <2>1. request \in Requests /\ frame \in Seq(Nat) /\ pc \in Steps
    BY <1>1 DEF IInv, ControlInv
  <2>2. commits \in Seq(Commit) /\ firstJson \in Nat /\ vacuumed \subseteq Nat
    BY <1>1 DEF IInv, DeltaTableInv
  <2>3. /\ listed \subseteq Nat /\ active \subseteq Nat /\ upTo \in Nat \cup {Nothing}
        /\ deltaSeen \in [last : Int, whole : BOOLEAN]
    BY <1>1 DEF IInv, DeltaReadInv
  <2>4. snapshots \in Seq(SUBSET Nat) /\ hint \in Nat \cup {Nothing}
    <3>1. Len(metas) \in Nat /\ snapshots \in Seq(SUBSET Nat)
      BY <1>1, TableFacts DEF IInv
    <3>2. QED
      BY <1>1, <3>1 DEF IInv, IcebergTableInv
  <2>5. manifests \in Seq(Nat) /\ files \in Seq(Nat) /\ snapshot \in Nat \cup {Nothing}
    BY <1>1 DEF IInv, IcebergReadInv
  <2>6. buffer \in Seq(Row) /\ schema \subseteq UNION RowKinds
    BY <1>1 DEF IInv, RowInv
  <2>7. /\ cached # Nothing => offset <= Len(cached)
        /\ \A i \in DOMAIN reports : reports[i] # << >> /\ Len(reports[i]) <= batchSize
    BY <1>1 DEF IInv, BatchInv
  <2>8. QED
    BY <2>1, <2>2, <2>3, <2>4, <2>5, <2>6, <2>7 DEF TypeOK
<1>2. QED
  BY <1>1, ReaderInvariance, PTL

(* DeltaReadIsSnapshot: a Delta read that ends in rows gives the snapshot  *)
(* asked for, each row once, if the log it listed was whole, or that of    *)
(* the first or last version where there is none such; from any log, never *)
(* a row that the version asked for had removed or, but for the first      *)
(* commit's, one of a commit that exceeds the time asked for; whatever was *)
(* committed or vacuumed between its accesses.                             *)
THEOREM DeltaReadsOneSnapshot == Spec => []DeltaReadIsSnapshot
<1>1. IInv => DeltaReadIsSnapshot
  BY DEF IInv, DeltaReadInv, DeltaTimeInv, DeltaReadIsSnapshot, Traced, Within
<1>2. QED
  BY <1>1, ReaderInvariance, PTL

(* IcebergReadIsSnapshot: an Iceberg read from JSON manifests that ends in *)
(* rows gives the files of the snapshot asked for, each once, and those    *)
(* its manifests name as deleted, without the files whose entries lack a   *)
(* count or their manifest's path or name another format than Parquet, and *)
(* no others, whatever was written, committed, expired or hinted at        *)
(* between its accesses, unless files were removed meanwhile.              *)
THEOREM IcebergReadsOneSnapshot == Spec => []IcebergReadIsSnapshot
<1>1. ASSUME IInv PROVE IcebergReadIsSnapshot
  <2> DEFINE promised == {f \in snapshots[snapshot] : ~PassedOver(f)} \cup Deleted(snapshot)
  <2>1. SUFFICES ASSUME IsRead /\ Reader(path) = "iceberg", form \in {"list", "inline"}, ~cleaned
                 PROVE  HoldsOnce(frame, promised) /\ Chosen
    BY DEF IcebergReadIsSnapshot, Chosen
  <2>2. HasSnapshot
    BY <2>1 DEF HasSnapshot
  <2>3. Chosen
    BY <1>1, <2>2 DEF IInv, IcebergReadInv, HasSnapshot
  <2>4. frame \in Seq(Nat) /\ Exactly(frame, Delivered)
    BY <1>1, <2>1 DEF IInv, IcebergReadInv, Undisturbed, ControlInv
  <2>5. snapshot \in 1..Made /\ Listing \subseteq snapshots[snapshot]
        /\ \A m \in Listing : m \in 1..Len(named)
    BY <1>1, <2>2, SnapshotListed
  <2>6. \A m \in Listing : m \in named[m] /\ named[m] \cap snapshots[snapshot] = {m}
    BY <1>1, <2>5 DEF IInv, IcebergNamedInv
  <2>7. Delivered = promised
    <3>1. ASSUME NEW f \in Delivered PROVE f \in promised
      <4>1. PICK m \in Listing : f \in named[m] /\ kindOf[f] \notin {"uncounted", "orc"}
        BY DEF Delivered, NamedBy
      <4>2. CASE f = m
        BY <2>5, <4>1, <4>2 DEF Listing, PassedOver
      <4>3. CASE f # m
        <5>1. f \in Deleted(snapshot)
          BY <4>1, <4>3 DEF Listing, Deleted
        <5>2. QED
          BY <5>1
      <4>4. QED
        BY <4>2, <4>3
    <3>2. ASSUME NEW f \in snapshots[snapshot], ~PassedOver(f) PROVE f \in Delivered
      <4>1. f \in Listing /\ kindOf[f] \notin {"uncounted", "orc"}
        BY <3>2 DEF Listing, PassedOver
      <4>2. QED
        BY <2>6, <4>1 DEF Delivered, NamedBy
    <3>3. ASSUME NEW f \in Deleted(snapshot) PROVE f \in Delivered
      <4>1. PICK m \in Listing : f \in named[m] /\ kindOf[f] \notin {"uncounted", "orc"}
        BY DEF Deleted, Listing
      <4>2. QED
        BY <4>1 DEF Delivered, NamedBy
    <3>4. QED
      BY <3>1, <3>2, <3>3
  <2> HIDE DEF promised
  <2>8. HoldsOnce(frame, promised)
    BY <2>4, <2>7, OnceCounted
  <2>9. QED
    BY <2>3, <2>8
<1>2. QED
  BY <1>1, ReaderInvariance, PTL

(* BatchesPartitionTheSource: the batches of a stream are the rows of one  *)
(* read in their order, none lost and none twice, and all of them when the *)
(* stream ends; the frames of a row buffer and the rows still in it are    *)
(* the rows pushed, in frames of one schema and at most the window size.   *)
THEOREM BatchesArePartition == Spec => []BatchesPartitionTheSource
<1>1. ASSUME IInv PROVE BatchesPartitionTheSource
  <2>1. cached # Nothing => offset <= Len(cached) /\ Concat(reports) = SubSeq(cached, 1, offset)
    BY <1>1 DEF IInv, BatchInv
  <2>2. pc = "ended" => Concat(reports) = frame
    <3>1. SUFFICES ASSUME pc = "ended" PROVE Concat(reports) = frame
      OBVIOUS
    <3>2. frame \in Seq(Nat) /\ Concat(reports) = SubSeq(frame, 1, Len(frame))
      BY <1>1, <3>1 DEF IInv, BatchInv, ControlInv
    <3>3. SubSeq(frame, 1, Len(frame)) = frame
      BY <3>2
    <3>4. QED
      BY <3>2, <3>3
  <2> DEFINE rows == Concat(frames) \o buffer
  <2>3. [i \in DOMAIN rows |-> rows[i].number] = [i \in DOMAIN pushed |-> i]
    <3>1. frames \in Seq(Seq(FrameRow)) /\ buffer \in Seq(Row) /\ pushed \in Seq(Row)
          /\ InPlace(rows, Len(pushed))
      BY <1>1 DEF IInv, RowInv
    <3>2. Concat(frames) \in Seq(FrameRow)
      <4>1. << >> \in Seq(FrameRow)
        OBVIOUS
      <4>2. QED
        BY <3>1, <4>1, ConcatAppend
    <3>3. Concat(frames) \in Seq(FrameRow \cup Row) /\ buffer \in Seq(FrameRow \cup Row)
      BY <3>1, <3>2
    <3>4. rows \in Seq(FrameRow \cup Row)
      BY <3>3
    <3> HIDE DEF rows
    <3>5. DOMAIN rows = 1..Len(pushed) /\ DOMAIN pushed = 1..Len(pushed)
      BY <3>1, <3>4 DEF InPlace
    <3>6. \A i \in 1..Len(pushed) : rows[i].number = i
      BY <3>1 DEF InPlace
    <3>7. QED
      BY <3>5, <3>6
  <2>4. \A i \in DOMAIN frames :
          /\ Len(frames[i]) <= (IF windowSize = 0 THEN 1 ELSE windowSize)
          /\ \A j \in DOMAIN frames[i] : frames[i][j].columns = pushed[1].columns
    BY <1>1 DEF IInv, RowInv, Window
  <2>5. QED
    BY <2>1, <2>2, <2>3, <2>4 DEF BatchesPartitionTheSource
<1>2. QED
  BY <1>1, ReaderInvariance, PTL
=============================================================================
