----------------------------- MODULE Enumeration -----------------------------
(***************************************************************************)
(* Counting through a set of numbers in their order: how many are up to a  *)
(* bound, and which is the k-th. The lines of an input, the records of a   *)
(* source and the files of a snapshot are numbered this way. From it, and  *)
(* from recursion over a sequence's length: parts of sequences, sequences  *)
(* put end to end, and a stable sort.                                      *)
(***************************************************************************)
EXTENDS Integers, FiniteSets, Sequences

UpTo(S, n) == Cardinality({x \in S : x <= n})

Nth(S, k) == CHOOSE x \in S : UpTo(S, x) = k

(* The numbers of S as a sequence.                                         *)
Ascending(S) == [k \in 1..Cardinality(S) |-> Nth(S, k)]

(* Sequences put end to end.                                               *)
Concat(seqs) ==
  LET first[n \in 0..Len(seqs)] == IF n = 0 THEN << >> ELSE first[n - 1] \o seqs[n]
  IN  first[Len(seqs)]

(* The elements of a sequence at the places in I, in their order.          *)
At(s, I) == Concat([i \in DOMAIN s |-> IF i \in I THEN <<s[i]>> ELSE << >>])

(* Elements go by their keys, and keep their order where keys are equal.   *)
GoesBefore(keys, i, j) == keys[i] < keys[j] \/ (keys[i] = keys[j] /\ i < j)

(* The place of the i-th element: one after those that go before it.       *)
Place(keys, i) == Cardinality({j \in DOMAIN keys : GoesBefore(keys, j, i)}) + 1

StableSort(s, keys) ==
  LET places == {<<Place(keys, i), i>> : i \in DOMAIN s}
  IN  [k \in DOMAIN s |-> s[(CHOOSE p \in places : p[1] = k)[2]]]
=============================================================================
