------------------------------ MODULE TableRead ------------------------------
(***************************************************************************)
(* One read of a table that lives in a directory, as the readers of        *)
(* crates/statguardian-io have it in common: a request, the file system    *)
(* operations that answer it one after the other while other programs      *)
(* write to the table, and the frame that comes out of it.                 *)
(*                                                                         *)
(* Every commit of a table adds at most one data file, of one row, and the *)
(* file has the number of that commit: a frame is a sequence of such       *)
(* numbers.                                                                *)
(***************************************************************************)
EXTENDS Integers, Sequences, FiniteSets

CONSTANTS
  Nothing,          \* an absent value
  MaxCommits        \* how often the table is committed to (bound)

ASSUME NothingAssumption == Nothing \notin Int
ASSUME CommitsAssumption == MaxCommits \in Nat \ {0}

VARIABLES
  request,          \* what is being read: its kind and argument
  frame,            \* the rows read so far
  pc                \* idle | ... the steps of a reader ... | read | failed (Err)

Requests ==
  [kind : {"latest"}, at : {Nothing}]
  \cup [kind : {"version", "asOf"}, at : 0..MaxCommits]
  \cup [kind : {"ref"}, at : {Nothing}]

Latest == [kind |-> "latest", at |-> Nothing]

ReadInit ==
  /\ request = Latest
  /\ frame = << >>
  /\ pc = "idle"

(* A call: any frame of an earlier one is gone. *)
Request(r, first) ==
  /\ request' = r
  /\ frame' = << >>
  /\ pc' = first

(* An Err of the call. *)
Fail == pc' = "failed" /\ UNCHANGED <<request, frame>>

Goto(step) == pc' = step /\ UNCHANGED <<request, frame>>

(* read_and_concat, load_data_files: one more file is read, the last or not. *)
Load(file, isLast) ==
  /\ frame' = Append(frame, file)
  /\ pc' = IF isLast THEN "read" ELSE pc
  /\ UNCHANGED request

(* The rows of a frame, when none is there twice. *)
Rows(rows) == {rows[i] : i \in DOMAIN rows}
HoldsOnce(rows, files) == Rows(rows) = files /\ Len(rows) = Cardinality(files)

Lowest(S) == CHOOSE n \in S : \A m \in S : n <= m
Highest(S) == CHOOSE n \in S : \A m \in S : n >= m
=============================================================================
