------------------------------ MODULE RowBuffer ------------------------------
(***************************************************************************)
(* RowBuffer of crates/statguardian-io (src/lib.rs): rows pushed one by    *)
(* one come out as frames of window_size rows, or fewer on a flush. The    *)
(* first row ever pushed decides the columns of all frames.                *)
(*                                                                         *)
(* A row is its set of columns and its number stands for the values in it. *)
(***************************************************************************)
EXTENDS Integers, Sequences, FiniteSets

CONSTANTS
  RowKinds,         \* the column sets of rows considered
  WindowSizes,      \* the values of window_size considered
  MaxRows           \* how many rows are pushed (bound)

ASSUME RowKindsAssumption == \A k \in RowKinds : IsFiniteSet(k)
ASSUME WindowSizesAssumption == WindowSizes \subseteq Nat
ASSUME RowsAssumption == MaxRows \in Nat

VARIABLES
  windowSize,       \* RowBuffer.window_size
  buffer,           \* RowBuffer.buffer
  schema,           \* RowBuffer.schema, {} while None
  frames,           \* the frames handed out
  pushed            \* history: the rows pushed

rowVars == <<windowSize, buffer, schema, frames, pushed>>

Row == [number : Nat, columns : SUBSET UNION RowKinds]

RowBufferInit ==
  /\ windowSize \in WindowSizes
  /\ buffer = << >>
  /\ schema = {}
  /\ frames = << >>
  /\ pushed = << >>

(* Set by the first row and never again. *)
SchemaWith(columns) == IF pushed = << >> THEN columns ELSE schema

(* Every column of the schema, with a null where a row lacks it.           *)
Frame(rows, columns) ==
  [i \in DOMAIN rows |-> [number |-> rows[i].number, columns |-> columns,
                          nulls |-> columns \ rows[i].columns]]

AfterFlush(rows) == << >>

(* Compared after the push, so a window_size of 0 acts as 1.               *)
IsFull(rows) == Len(rows) >= windowSize

Push ==
  /\ Len(pushed) < MaxRows
  /\ \E columns \in RowKinds :
       LET row == [number |-> Len(pushed) + 1, columns |-> columns]
           rows == Append(buffer, row)
       IN /\ schema' = SchemaWith(columns)
          /\ pushed' = Append(pushed, row)
          /\ IF IsFull(rows)
             THEN frames' = Append(frames, Frame(rows, schema')) /\ buffer' = AfterFlush(rows)
             ELSE buffer' = rows /\ UNCHANGED frames
  /\ UNCHANGED windowSize

(* The owner's own flush, of an empty buffer too. *)
Flush ==
  /\ buffer # << >> \/ pushed = << >>
  /\ Len(frames) <= MaxRows
  /\ frames' = Append(frames, Frame(buffer, schema))
  /\ buffer' = AfterFlush(buffer)
  /\ UNCHANGED <<windowSize, schema, pushed>>

RowStep == Push \/ Flush
=============================================================================
