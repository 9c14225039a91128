------------------------- MODULE NdjsonSourceProofs -------------------------
(***************************************************************************)
(* For every input, cap and sequence of slices: the line reader's state is *)
(* well typed, its buffer is the beginning of the current line within the  *)
(* cap, and every byte it took is accounted for.                           *)
(***************************************************************************)
EXTENDS NdjsonSource, EnumerationProofs, SequenceTheorems

(* The type of a line and the account of the bytes carry the buffer.       *)
IInv == TypeOK /\ BufferIsCappedPrefix /\ BytesAccounted

USE DEF vars, source, buffer, counters

-----------------------------------------------------------------------------
(* Choices in decoding and reading. *)

(* What a slice holds of the current line is never nothing.                *)
LEMMA UsedType ==
  ASSUME NEW s \in Seq(Byte), Len(s) > 0
  PROVE  Used(s) \in 1..Len(s)
<1> DEFINE newlines == {i \in DOMAIN s : s[i] = "nl"}
<1>1. CASE newlines = {}
  BY <1>1 DEF Used
<1>2. CASE newlines # {}
  <2>1. newlines \in SUBSET Nat
    OBVIOUS
  <2>2. \E i \in newlines : \A j \in newlines : i <= j
    BY <1>2, <2>1, LeastExists
  <2>3. Used(s) \in newlines
    BY <1>2, <2>2 DEF Used
  <2>4. QED
    BY <2>3
<1>3. QED
  BY <1>1, <1>2

(* Trimming takes from the end of a line.                                  *)
LEMMA TrimmedType ==
  ASSUME NEW s \in Seq(Byte)
  PROVE  Trimmed(s) \in Seq(Byte)
<1> DEFINE kept == {i \in DOMAIN s : s[i] \notin {"nl", "cr"}}
           last == CHOOSE i \in kept : \A j \in kept : j <= i
<1>1. CASE kept = {}
  BY <1>1 DEF Trimmed
<1>2. CASE kept # {}
  <2>1. kept \in SUBSET (0..Len(s)) /\ Len(s) \in Nat
    OBVIOUS
  <2>2. \E i \in kept : \A j \in kept : j <= i
    BY <1>2, <2>1, GreatestExists
  <2>3. last \in kept
    BY <2>2
  <2>4. last \in 1..Len(s)
    BY <2>3
  <2> HIDE DEF last
  <2>5. SubSeq(s, 1, last) \in Seq(Byte)
    BY <2>4
  <2>6. Trimmed(s) = SubSeq(s, 1, last)
    BY <1>2 DEF Trimmed, last
  <2>7. QED
    BY <2>5, <2>6
<1>3. QED
  BY <1>1, <1>2

-----------------------------------------------------------------------------
(* The steps. *)

(* No byte has been taken at the start.                                    *)
LEMMA InitInvariant ==
  ASSUME Init
  PROVE  IInv
<1>1. input \in Seq(Byte) /\ cap \in Nat \ {0}
  BY InputsAssumption, CapsAssumption DEF Init, EffectiveCap
<1>2. << >> \in Seq(Byte) /\ Len(<< >>) = 0
  OBVIOUS
<1>3. NoLine \in [record : Int, bytes : Nat, exceeded : BOOLEAN, utf8 : BOOLEAN, content : Seq(Byte)]
  BY <1>2 DEF NoLine, NoText
<1>4. 0 \in 0..Len(input) /\ -1 \in Int
  BY <1>1
<1>5. line \in [record : Int, bytes : Nat, exceeded : BOOLEAN, utf8 : BOOLEAN, content : Seq(Byte)]
  BY <1>3 DEF Init
<1>6. TypeOK
  BY <1>1, <1>2, <1>4, <1>5 DEF Init, TypeOK
<1>7. QED
  BY <1>6 DEF Init, IInv, BufferIsCappedPrefix, BytesAccounted

(* A slice extends the buffer by what follows in the input, up to the cap. *)
LEMMA FillStep ==
  ASSUME IInv, NEW n \in 1..MaxChunk, Fill(n)
  PROVE  IInv'
<1> DEFINE available == SubSeq(input, read + 1, read + n)
           used == Used(available)
           copied == Copied(used)
<1>1. /\ input \in Seq(Byte) /\ cap \in Nat \ {0} /\ read \in 0..Len(input) /\ total \in Nat
      /\ bytesConsumed \in Nat /\ Len(input) \in Nat /\ exceeded \in BOOLEAN /\ out \in Seq(Byte)
      /\ n \in Nat \ {0} /\ pc = "reading" /\ read + n <= Len(input)
      /\ read = bytesConsumed + total
      /\ Len(out) = Least(total, cap) /\ (exceeded <=> total > cap)
      /\ out = SubSeq(input, bytesConsumed + 1, bytesConsumed + Len(out))
  BY ChunkAssumption DEF IInv, TypeOK, BufferIsCappedPrefix, BytesAccounted, Fill
<1>2. available \in Seq(Byte) /\ Len(available) = n
  <2>1. \A i \in (read + 1)..(read + n) : input[i] \in Byte
    BY <1>1
  <2>2. read + 1 \in Int /\ read + n \in Int /\ read + 1 <= read + n /\ (read + n) - (read + 1) + 1 = n
    BY <1>1
  <2>3. QED
    BY <2>1, <2>2, SubSeqProperties
<1>3. used \in 1..n
  <2>1. Len(available) > 0
    BY <1>1, <1>2
  <2>2. QED
    BY <1>2, <2>1, UsedType
<1>4. /\ read' = read + used /\ total' = total + used
      /\ pc' \in {"decoding", "reading"}
      /\ exceeded => UNCHANGED <<out, exceeded>>
      /\ ~exceeded => out' = out \o SubSeq(available, 1, copied)
      /\ ~exceeded => (exceeded' <=> copied < used) /\ exceeded' \in BOOLEAN
      /\ UNCHANGED <<input, cap, recordIndex, bytesConsumed, line>>
  <2>1. /\ read' = read + used /\ total' = total + used
        /\ pc' = IF available[used] = "nl" THEN "decoding" ELSE "reading"
        /\ IF exceeded THEN UNCHANGED <<out, exceeded>>
           ELSE /\ out' = out \o SubSeq(available, 1, copied) /\ exceeded' = (copied < used)
        /\ UNCHANGED <<source, counters>>
    BY Zenon DEF Fill
  <2>2. ~exceeded => (exceeded' <=> copied < used) /\ exceeded' \in BOOLEAN
    <3>1. ~exceeded => exceeded' = (copied < used)
      BY <2>1, Zenon
    <3>2. (copied < used) \in BOOLEAN
      OBVIOUS
    <3>3. QED
      BY <3>1, <3>2, Zenon
  <2>3. QED
    BY <2>1, <2>2, Zenon
<1> HIDE DEF used
<1>5. read' \in 0..Len(input) /\ read' = bytesConsumed + total' /\ total' \in Nat
  BY <1>1, <1>3, <1>4
<1>6. CASE exceeded
  <2>1. Len(out) = Least(total', cap) /\ total' > cap
    BY <1>1, <1>3, <1>4, <1>6 DEF Least
  <2>2. QED
    BY <1>1, <1>4, <1>5, <1>6, <2>1 DEF IInv, TypeOK, BufferIsCappedPrefix, BytesAccounted
<1>7. CASE ~exceeded
  <2>1. Len(out) = total /\ total <= cap
    BY <1>1, <1>7 DEF Least
  <2>2. copied \in 0..used /\ copied = Least(used, cap - total) /\ copied <= n
    BY <1>1, <1>3, <2>1 DEF Copied, Least
  <2> HIDE DEF copied
  <2>3. SubSeq(available, 1, copied) = SubSeq(input, read + 1, read + copied)
    <3>1. CASE copied = 0
      BY <1>1, <3>1, SubSeqEmpty
    <3>2. CASE copied # 0
      <4>1. /\ copied \in 1..((read + n) - (read + 1) + 1) /\ 1 \in 1..((read + n) - (read + 1) + 1)
            /\ read + 1 \in 1..Len(input) /\ read + n \in 1..Len(input)
        BY <1>1, <1>3, <2>2, <3>2
      <4>2. SubSeq(available, 1, copied) = SubSeq(input, (read + 1) + 1 - 1, (read + 1) + copied - 1)
        BY <1>1, <4>1, SubSeqOfSubSeq
      <4>3. (read + 1) + 1 - 1 = read + 1 /\ (read + 1) + copied - 1 = read + copied
        BY <1>1, <2>2
      <4>4. QED
        BY <4>2, <4>3
    <3>3. QED
      BY <3>1, <3>2
  <2>4. out' = SubSeq(input, bytesConsumed + 1, read) \o SubSeq(input, read + 1, read + copied)
    <3>1. bytesConsumed + Len(out) = read
      BY <1>1, <2>1
    <3>2. out = SubSeq(input, bytesConsumed + 1, read)
      BY <1>1, <3>1, Zenon
    <3>3. QED
      BY <1>4, <1>7, <2>3, <3>2, Zenon
  <2>5. /\ bytesConsumed + 1 \in 1..(Len(input) + 1) /\ read \in ((bytesConsumed + 1) - 1)..Len(input)
        /\ read + copied \in read..Len(input)
    BY <1>1, <1>3, <2>2
  <2>6. out' = SubSeq(input, bytesConsumed + 1, read + copied)
    BY <1>1, <2>4, <2>5, ConcatAdjacentSubSeq
  <2>7. out' \in Seq(Byte) /\ Len(out') = total + copied
    <3>1. bytesConsumed \in Nat /\ total \in Nat /\ read = bytesConsumed + total /\ copied \in Nat
      BY <1>1, <1>3, <2>2
    <3>2. \A i \in (bytesConsumed + 1)..(read + copied) : input[i] \in Byte
      BY <1>1, <2>5
    <3>3. /\ SubSeq(input, bytesConsumed + 1, read + copied) \in Seq(Byte)
          /\ Len(SubSeq(input, bytesConsumed + 1, read + copied)) =
               IF bytesConsumed + 1 <= read + copied THEN (read + copied) - (bytesConsumed + 1) + 1 ELSE 0
      <4> DEFINE first == bytesConsumed + 1
                 last == read + copied
      <4>1. first \in Int /\ last \in Int /\ \A i \in first..last : input[i] \in Byte
        BY <1>1, <2>2, <3>1, <3>2
      <4> HIDE DEF first, last
      <4>2. /\ SubSeq(input, first, last) \in Seq(Byte)
            /\ Len(SubSeq(input, first, last)) = IF first <= last THEN last - first + 1 ELSE 0
        BY <4>1, SubSeqProperties
      <4>3. QED
        BY <4>2 DEF first, last
    <3>4. /\ bytesConsumed + 1 <= read + copied => (read + copied) - (bytesConsumed + 1) + 1 = total + copied
          /\ ~(bytesConsumed + 1 <= read + copied) => total + copied = 0
      BY <3>1
    <3>5. Len(SubSeq(input, bytesConsumed + 1, read + copied)) = total + copied
      BY <3>3, <3>4
    <3>6. QED
      BY <2>6, <3>3, <3>5, Zenon
  <2>8. total + copied = Least(total', cap) /\ (copied < used <=> total' > cap)
    BY <1>1, <1>3, <1>4, <2>1, <2>2 DEF Least
  <2>9. out' = SubSeq(input, bytesConsumed + 1, bytesConsumed + Len(out'))
    <3>1. read + copied = bytesConsumed + (total + copied)
      BY <1>1, <2>2
    <3>2. QED
      BY <2>6, <2>7, <3>1
  <2>10. (exceeded' <=> total' > cap) /\ exceeded' \in BOOLEAN
    BY <1>4, <1>7, <2>8
  <2>11. TypeOK'
    BY <1>1, <1>4, <1>5, <2>7, <2>10 DEF IInv, TypeOK
  <2>12. BufferIsCappedPrefix'
    BY <1>4, <2>7, <2>8, <2>9, <2>10 DEF BufferIsCappedPrefix
  <2>13. BytesAccounted'
    BY <1>4, <1>5 DEF BytesAccounted
  <2>14. QED
    BY <2>11, <2>12, <2>13 DEF IInv
<1>8. QED
  BY <1>1, <1>6, <1>7

(* A line begins with an empty buffer.                                     *)
LEMMA ClearStep ==
  ASSUME ClearBuffer, NEW b \in Nat, bytesConsumed' = b, read' = b, NEW c \in Nat \ {0}, cap' = c
  PROVE  BufferIsCappedPrefix' /\ BytesAccounted'
<1>1. out' = << >> /\ total' = 0 /\ exceeded' = FALSE
  BY DEF ClearBuffer
<1>2. Len(out') = 0 /\ Least(total', cap') = 0 /\ ~(total' > cap')
  BY <1>1 DEF Least
<1>3. SubSeq(input', b + 1, b + 0) = << >>
  BY SubSeqEmpty
<1>4. BufferIsCappedPrefix'
  BY <1>1, <1>2, <1>3 DEF BufferIsCappedPrefix
<1>5. BytesAccounted'
  BY <1>1 DEF BytesAccounted
<1>6. QED
  BY <1>4, <1>5

(* The next line is asked for only between lines.                          *)
LEMMA NextLineStep ==
  ASSUME IInv, NextLine
  PROVE  IInv'
<1>1. /\ ClearBuffer /\ pc = "idle" /\ pc' = "reading"
      /\ UNCHANGED <<input, cap, read, recordIndex, bytesConsumed, line>>
  BY DEF NextLine
<1>2. read' = bytesConsumed' /\ bytesConsumed' \in Nat
  BY <1>1 DEF IInv, TypeOK, BytesAccounted
<1>3. BufferIsCappedPrefix' /\ BytesAccounted'
  BY <1>1, <1>2, ClearStep DEF IInv, TypeOK
<1>4. << >> \in Seq(Byte)
  OBVIOUS
<1>5. TypeOK'
  BY <1>1, <1>4 DEF IInv, TypeOK, ClearBuffer
<1>6. QED
  BY <1>3, <1>5 DEF IInv

(* The end of the input, or a failed read, leaves the buffer as it is; the *)
(* call ends with nothing in hand only when no byte was taken.             *)
LEMMA EndStep ==
  ASSUME IInv, EndOfInput \/ ReadError
  PROVE  IInv'
<1>1. /\ pc = "reading" /\ UNCHANGED <<input, cap, read, out, total, exceeded, recordIndex, bytesConsumed, line>>
      /\ pc' = "decoding" \/ pc' = "failed" \/ (pc' = "done" /\ total = 0)
  BY DEF EndOfInput, ReadError
<1>2. TypeOK'
  BY <1>1 DEF IInv, TypeOK
<1>3. BufferIsCappedPrefix'
  BY <1>1 DEF IInv, BufferIsCappedPrefix
<1>4. BytesAccounted'
  <2>1. read = bytesConsumed + total /\ bytesConsumed \in Nat
    BY <1>1 DEF IInv, TypeOK, BytesAccounted
  <2>2. total = 0 => read = bytesConsumed
    BY <2>1
  <2>3. QED
    BY <1>1, <2>1, <2>2 DEF BytesAccounted
<1>5. QED
  BY <1>2, <1>3, <1>4 DEF IInv

(* A line goes back to the caller, or is skipped, with all its bytes.      *)
LEMMA DecodeStep ==
  ASSUME IInv, Decode
  PROVE  IInv'
<1>1. /\ pc = "decoding" /\ bytesConsumed' = bytesConsumed + total
      /\ UNCHANGED <<input, cap, read>>
  BY DEF Decode
<1>2. /\ read = bytesConsumed + total /\ bytesConsumed \in Nat /\ total \in Nat
      /\ recordIndex \in Nat /\ out \in Seq(Byte) /\ << >> \in Seq(Byte)
  BY <1>1 DEF IInv, TypeOK, BytesAccounted
<1>3. bytesConsumed' \in Nat /\ read' = bytesConsumed'
  BY <1>1, <1>2
<1>4. ASSUME NEW e \in BOOLEAN, NEW u \in BOOLEAN, NEW text \in Seq(Byte), Return(e, u, text)
      PROVE  IInv'
  <2>1. /\ line' = [record |-> recordIndex, bytes |-> total, exceeded |-> e, utf8 |-> u, content |-> text]
        /\ recordIndex' = recordIndex + 1 /\ pc' = "idle" /\ UNCHANGED <<out, total, exceeded>>
    BY <1>4 DEF Return
  <2>2. line' \in [record : Int, bytes : Nat, exceeded : BOOLEAN, utf8 : BOOLEAN, content : Seq(Byte)]
    BY <1>2, <2>1
  <2>3. TypeOK'
    BY <1>1, <1>2, <1>3, <2>1, <2>2 DEF IInv, TypeOK
  <2>4. QED
    BY <1>3, <2>1, <2>3 DEF IInv, BufferIsCappedPrefix, BytesAccounted
<1>5. CASE SkipBlank
  <2>1. ClearBuffer /\ pc' = "reading" /\ UNCHANGED <<recordIndex, line>>
    BY <1>5 DEF SkipBlank
  <2>2. BufferIsCappedPrefix' /\ BytesAccounted'
    BY <1>1, <1>3, <2>1, ClearStep DEF IInv, TypeOK
  <2>3. TypeOK'
    BY <1>1, <1>2, <1>3, <2>1 DEF IInv, TypeOK, ClearBuffer
  <2>4. QED
    BY <2>2, <2>3 DEF IInv
<1>6. Trimmed(out) \in Seq(Byte) /\ NoText \in Seq(Byte)
  BY <1>2, TrimmedType DEF NoText
<1>7. \/ Return(TRUE, FALSE, NoText) \/ Return(FALSE, FALSE, NoText)
      \/ SkipBlank \/ Return(FALSE, TRUE, Trimmed(out))
  BY DEF Decode
<1>8. QED
  BY <1>4, <1>5, <1>6, <1>7

-----------------------------------------------------------------------------
(* The type of the reader's state and the account of its bytes, which the  *)
(* buffer's invariant needs to know where a line begins, are inductive.    *)
THEOREM Invariance == Spec => []IInv
<1>1. Init => IInv
  BY InitInvariant
<1>2. IInv /\ [Next]_vars => IInv'
  <2> SUFFICES ASSUME IInv, [Next]_vars
               PROVE  IInv'
    OBVIOUS
  <2>1. CASE NextLine
    BY <2>1, NextLineStep
  <2>2. CASE \E n \in 1..MaxChunk : Fill(n)
    BY <2>2, FillStep
  <2>3. CASE EndOfInput \/ ReadError
    BY <2>3, EndStep
  <2>4. CASE Decode
    BY <2>4, DecodeStep
  <2>5. CASE UNCHANGED vars
    BY <2>5 DEF IInv, TypeOK, BufferIsCappedPrefix, BytesAccounted
  <2>6. QED
    BY <2>1, <2>2, <2>3, <2>4, <2>5 DEF Next, Reading, Finished
<1>3. QED
  BY <1>1, <1>2, PTL DEF Spec

(* The line reader's state is well typed: its cap is positive and it takes *)
(* no more bytes than there are (ndjson.rs:34, 115-160).                   *)
THEOREM ReaderTyped == Spec => []TypeOK
<1>1. IInv => TypeOK
  BY DEF IInv
<1>2. QED
  BY <1>1, Invariance, PTL

(* Whatever the length of a line and the slices it comes in, the buffer is *)
(* the beginning of the line, no longer than the cap, and the flag says    *)
(* whether anything was left out (ndjson.rs:115-160).                      *)
THEOREM BufferCapped == Spec => []BufferIsCappedPrefix
<1>1. IInv => BufferIsCappedPrefix
  BY DEF IInv
<1>2. QED
  BY <1>1, Invariance, PTL

(* bytes_consumed counts exactly the bytes of the lines that were returned *)
(* or skipped (ndjson.rs:52-66).                                           *)
THEOREM BytesCounted == Spec => []BytesAccounted
<1>1. IInv => BytesAccounted
  BY DEF IInv
<1>2. QED
  BY <1>1, Invariance, PTL

-----------------------------------------------------------------------------
(* Whole lines: the bytes between two calls end where a line of the input  *)
(* does, and while a line is being read none has ended since.              *)
WholeLines ==
  /\ bytesConsumed = 0 \/ bytesConsumed \in LineEnds(input)
  /\ pc \in {"reading", "decoding"} => \A i \in (bytesConsumed + 1)..(read - 1) : input[i] # "nl"
  /\ pc = "reading" => read = bytesConsumed \/ input[read] # "nl"
  /\ pc = "decoding" => total > 0 /\ read \in LineEnds(input)

LEMMA LineEndsType ==
  ASSUME NEW s \in Seq(Byte)
  PROVE  LineEnds(s) \in SUBSET Nat /\ IsFiniteSet(LineEnds(s)) /\ \A e \in LineEnds(s) : e \in 1..Len(s)
<1>1. LineEnds(s) \in SUBSET (1..Len(s)) /\ Len(s) \in Nat
  BY DEF LineEnds
<1>2. IsFiniteSet(1..Len(s))
  BY <1>1, FS_Interval
<1>3. IsFiniteSet(LineEnds(s))
  BY <1>1, <1>2, FS_Subset
<1>4. QED
  BY <1>1, <1>3

(* A slice is used up to its first newline.                                *)
LEMMA UsedFirst ==
  ASSUME NEW s \in Seq(Byte), Len(s) > 0
  PROVE  \A k \in 1..(Used(s) - 1) : s[k] # "nl"
<1> DEFINE newlines == {i \in DOMAIN s : s[i] = "nl"}
<1>1. CASE newlines = {}
  <2>1. Used(s) = Len(s) /\ DOMAIN s = 1..Len(s) /\ Len(s) \in Nat
    BY <1>1 DEF Used
  <2>2. \A k \in 1..(Len(s) - 1) : k \in DOMAIN s
    BY <2>1
  <2>3. QED
    BY <1>1, <2>1, <2>2
<1>2. CASE newlines # {}
  <2>1. newlines \in SUBSET Nat
    OBVIOUS
  <2>2. \E i \in newlines : \A j \in newlines : i <= j
    BY <1>2, <2>1, LeastExists
  <2>3. Used(s) \in newlines /\ \A j \in newlines : Used(s) <= j
    BY <1>2, <2>2 DEF Used
  <2>4. ASSUME NEW k \in 1..(Used(s) - 1) PROVE k \in DOMAIN s /\ k \notin newlines
    <3>1. Used(s) \in 1..Len(s) /\ Len(s) \in Nat
      BY <2>3
    <3>2. k \in 1..Len(s) /\ ~(Used(s) <= k)
      BY <3>1
    <3>3. QED
      BY <2>3, <3>2
  <2>5. QED
    BY <2>4
<1>3. QED
  BY <1>1, <1>2

LEMMA FillWholeLines ==
  ASSUME IInv, WholeLines, NEW n \in 1..MaxChunk, Fill(n)
  PROVE  WholeLines'
<1> DEFINE available == SubSeq(input, read + 1, read + n)
           used == Used(available)
<1>1. /\ input \in Seq(Byte) /\ read \in 0..Len(input) /\ total \in Nat /\ bytesConsumed \in Nat
      /\ Len(input) \in Nat /\ n \in Nat \ {0} /\ pc = "reading" /\ read + n <= Len(input)
      /\ read = bytesConsumed + total
  BY ChunkAssumption DEF IInv, TypeOK, BytesAccounted, Fill
<1>2. available \in Seq(Byte) /\ Len(available) = n /\ \A k \in 1..n : available[k] = input[read + k]
  <2>1. \A i \in (read + 1)..(read + n) : input[i] \in Byte
    BY <1>1
  <2>2. read + 1 \in Int /\ read + n \in Int /\ read + 1 <= read + n /\ (read + n) - (read + 1) + 1 = n
    BY <1>1
  <2>3. available \in Seq(Byte) /\ Len(available) = n
    BY <2>1, <2>2, SubSeqProperties
  <2>4. ASSUME NEW k \in 1..n PROVE available[k] = input[read + k]
    <3>1. (read + 1) + k - 1 = read + k
      BY <1>1
    <3>2. k \in 1..((read + n) - (read + 1) + 1)
      BY <2>2
    <3>3. available[k] = input[(read + 1) + k - 1]
      BY <2>1, <2>2, <3>2, SubSeqProperties
    <3>4. QED
      BY <3>1, <3>3
  <2>5. QED
    BY <2>3, <2>4
<1>3. used \in 1..n /\ \A k \in 1..(used - 1) : available[k] # "nl"
  <2>1. Len(available) > 0
    BY <1>1, <1>2
  <2>2. QED
    BY <1>2, <2>1, UsedType, UsedFirst
<1>4. /\ read' = read + used /\ total' = total + used
      /\ pc' = IF available[used] = "nl" THEN "decoding" ELSE "reading"
      /\ UNCHANGED <<input, bytesConsumed>>
  BY Zenon DEF Fill
<1> HIDE DEF used, available
<1>5. available[used] = input[read + used] /\ read + used \in 1..Len(input) /\ read + used > bytesConsumed
  BY <1>1, <1>2, <1>3
<1>6. ASSUME NEW i \in (bytesConsumed + 1)..(read + used - 1)
      PROVE  input[i] # "nl"
  <2>1. CASE i \in (bytesConsumed + 1)..(read - 1)
    BY <1>1, <2>1 DEF WholeLines
  <2>2. CASE i = read
    BY <1>1, <2>2 DEF WholeLines
  <2>3. CASE i \in (read + 1)..(read + used - 1)
    <3>1. i - read \in 1..(used - 1) /\ i - read \in 1..n /\ read + (i - read) = i
      BY <1>1, <1>3, <2>3
    <3>2. QED
      BY <1>2, <1>3, <3>1
  <2>4. QED
    BY <1>1, <1>3, <2>1, <2>2, <2>3
<1>7. pc' = "decoding" => total' > 0 /\ read + used \in LineEnds(input)
  <2>1. total + used > 0
    BY <1>1, <1>3
  <2>2. input[read + used] = "nl" => read + used \in LineEnds(input)
    BY <1>1, <1>5 DEF LineEnds
  <2>3. QED
    BY <1>4, <1>5, <2>1, <2>2
<1>8. pc' = "reading" => input[read + used] # "nl"
  BY <1>4, <1>5
<1>9. pc' \in {"reading", "decoding"} /\ (bytesConsumed' = 0 \/ bytesConsumed' \in LineEnds(input'))
  BY <1>4, Zenon DEF WholeLines
<1>10. \A i \in (bytesConsumed' + 1)..(read' - 1) : input'[i] # "nl"
  <2>1. bytesConsumed' + 1 = bytesConsumed + 1 /\ read' - 1 = read + used - 1 /\ input' = input
    BY <1>1, <1>3, <1>4
  <2>2. QED
    BY <1>6, <2>1, Zenon
<1>11. QED
  BY <1>4, <1>7, <1>8, <1>9, <1>10 DEF WholeLines

LEMMA WholeLinesStep ==
  ASSUME IInv, WholeLines, [Next]_vars
  PROVE  WholeLines'
<1>1. read \in Nat /\ bytesConsumed \in Nat /\ total \in Nat /\ input \in Seq(Byte) /\ Len(input) \in Nat
  BY DEF IInv, TypeOK
<1>2. CASE NextLine
  <2>1. read = bytesConsumed /\ UNCHANGED <<input, read, bytesConsumed>> /\ pc' = "reading"
    BY <1>2 DEF NextLine, IInv, BytesAccounted
  <2>2. (bytesConsumed + 1)..(read - 1) = {}
    BY <1>1, <2>1
  <2>3. QED
    BY <2>1, <2>2 DEF WholeLines
<1>3. CASE \E n \in 1..MaxChunk : Fill(n)
  BY <1>3, FillWholeLines
<1>4. CASE EndOfInput \/ ReadError
  <2>1. /\ pc = "reading" /\ UNCHANGED <<input, read, total, bytesConsumed>>
        /\ pc' = "decoding" => total # 0 /\ read = Len(input)
        /\ pc' \in {"decoding", "done", "failed"}
    BY <1>4 DEF EndOfInput, ReadError
  <2>2. pc' = "decoding" => total > 0 /\ read \in LineEnds(input)
    <3>1. SUFFICES ASSUME pc' = "decoding" PROVE total > 0 /\ read \in LineEnds(input)
      OBVIOUS
    <3>2. total > 0 /\ read = Len(input) /\ read = bytesConsumed + total
      BY <1>1, <2>1, <3>1 DEF IInv, BytesAccounted
    <3>3. read \in 1..Len(input)
      BY <1>1, <3>2
    <3>4. read \in DOMAIN input
      BY <1>1, <3>3
    <3>5. read \in LineEnds(input)
      BY <3>2, <3>4 DEF LineEnds
    <3>6. QED
      BY <3>2, <3>5
  <2>3. QED
    BY <2>1, <2>2 DEF WholeLines
<1>5. CASE Decode
  <2>1. /\ pc = "decoding" /\ bytesConsumed' = bytesConsumed + total /\ UNCHANGED <<input, read>>
        /\ pc' \in {"idle", "reading"}
    BY <1>5 DEF Decode, Return, SkipBlank
  <2>2. read = bytesConsumed'
    BY <2>1 DEF IInv, BytesAccounted
  <2>3. read \in LineEnds(input)
    BY <2>1 DEF WholeLines
  <2>4. (bytesConsumed' + 1)..(read - 1) = {}
    <3>1. (read + 1)..(read - 1) = {}
      BY <1>1
    <3>2. QED
      BY <2>2, <3>1
  <2>5. QED
    BY <2>1, <2>2, <2>3, <2>4 DEF WholeLines
<1>6. CASE UNCHANGED vars
  BY <1>6 DEF WholeLines
<1>7. QED
  BY <1>2, <1>3, <1>4, <1>5, <1>6 DEF Next, Reading, Finished

-----------------------------------------------------------------------------
(* The line-level specification: the lines of the input, and the next one. *)

LEMMA LineOfType ==
  ASSUME NEW b \in Seq(Byte), Len(b) > 0
  PROVE  LineOf(b) \in [bytes : Nat \ {0}, tag : {"blank", "oversized", "badUtf8", "text"}, text : Seq(Byte)]
<1>1. Trimmed(b) \in Seq(Byte) /\ NoText \in Seq(Byte) /\ Len(b) \in Nat \ {0}
  BY TrimmedType DEF NoText
<1>2. QED
  BY <1>1 DEF LineOf, DocumentedTag

(* The documented class and its two exceptions, by the tests of the code.  *)
LEMMA TagByTests ==
  ASSUME NEW b \in Seq(Byte), Len(b) > 0, cap \in Nat
  PROVE  LineOf(b).tag = IF Len(b) > cap THEN "oversized"
                         ELSE IF ~ValidUtf8(b) THEN "badUtf8"
                         ELSE IF IsBlank(b) THEN "blank" ELSE "text"
<1>1. IsBlank(b) => ValidUtf8(b)
  BY DEF IsBlank, ValidUtf8
<1>2. Len(b) \in Nat /\ BeforeNewline(b) \in {Len(b), Len(b) - 1}
  BY DEF BeforeNewline
<1>3. CASE Len(b) > cap
  <2>1. IsBlank(b) \/ BeforeNewline(b) > cap \/ BeforeNewline(b) = cap
    BY <1>2, <1>3
  <2>2. QED
    BY <1>3, <2>1 DEF LineOf, DocumentedTag, NewlinePastCap, BlankPastCap
<1>4. CASE ~(Len(b) > cap)
  <2>1. ~(BeforeNewline(b) > cap) /\ ~NewlinePastCap(b) /\ ~BlankPastCap(b)
    BY <1>2, <1>4 DEF NewlinePastCap, BlankPastCap
  <2>2. QED
    BY <1>1, <1>4, <2>1 DEF LineOf, DocumentedTag
<1>5. QED
  BY <1>3, <1>4

(* The bytes of the line that ends at the k-th end.                        *)
BytesOf(s, k) ==
  LET ends == Ascending(LineEnds(s)) IN SubSeq(s, IF k = 1 THEN 1 ELSE ends[k - 1] + 1, ends[k])

LEMMA BytesOfType ==
  ASSUME NEW s \in Seq(Byte), NEW k \in 1..Cardinality(LineEnds(s))
  PROVE  BytesOf(s, k) \in Seq(Byte) /\ Len(BytesOf(s, k)) > 0
<1> DEFINE ends == Ascending(LineEnds(s))
           C == Cardinality(LineEnds(s))
           first == IF k = 1 THEN 1 ELSE ends[k - 1] + 1
<1>1. /\ C \in Nat /\ ends \in [1..C -> LineEnds(s)]
      /\ \A i, j \in 1..C : i < j => ends[i] < ends[j]
      /\ \A e \in LineEnds(s) : e \in 1..Len(s)
  BY LineEndsType, AscendingOrder
<1> HIDE DEF ends, C
<1>2. k \in 1..C /\ ends[k] \in 1..Len(s) /\ Len(s) \in Nat
  BY <1>1 DEF C
<1>3. first \in 1..ends[k]
  <2>1. CASE k = 1
    BY <1>2, <2>1
  <2>2. CASE k # 1
    <3>1. k - 1 \in 1..C /\ k - 1 < k
      BY <1>1, <1>2, <2>2
    <3>2. ends[k - 1] \in 1..Len(s) /\ ends[k - 1] < ends[k]
      BY <1>1, <1>2, <3>1
    <3>3. QED
      BY <1>2, <2>2, <3>2
  <2>3. QED
    BY <2>1, <2>2
<1> HIDE DEF first
<1>4. \A i \in first..ends[k] : s[i] \in Byte
  BY <1>2, <1>3
<1>5. SubSeq(s, first, ends[k]) \in Seq(Byte) /\ Len(SubSeq(s, first, ends[k])) = ends[k] - first + 1
  <2>1. first \in Int /\ ends[k] \in Int /\ first <= ends[k]
    BY <1>2, <1>3
  <2>2. QED
    BY <1>4, <2>1, SubSeqProperties
<1>6. ends[k] - first + 1 > 0
  BY <1>2, <1>3
<1>7. QED
  BY <1>5, <1>6 DEF BytesOf, ends, first

LEMMA LinesOfType ==
  ASSUME NEW s \in Seq(Byte)
  PROVE  /\ LinesOf(s) \in Seq([bytes : Nat \ {0}, tag : {"blank", "oversized", "badUtf8", "text"}, text : Seq(Byte)])
         /\ Len(LinesOf(s)) = Cardinality(LineEnds(s))
         /\ \A k \in 1..Cardinality(LineEnds(s)) : LinesOf(s)[k] = LineOf(BytesOf(s, k))
<1> DEFINE C == Cardinality(LineEnds(s))
           L == [bytes : Nat \ {0}, tag : {"blank", "oversized", "badUtf8", "text"}, text : Seq(Byte)]
<1>1. C \in Nat /\ DOMAIN Ascending(LineEnds(s)) = 1..C
  BY LineEndsType, AscendingOrder
<1>2. \A k \in 1..C : LineOf(BytesOf(s, k)) \in L
  BY BytesOfType, LineOfType
<1>3. LinesOf(s) = [k \in 1..C |-> LineOf(BytesOf(s, k))]
  BY <1>1 DEF LinesOf, BytesOf
<1> HIDE DEF L, C
<1>4. LinesOf(s) \in Seq(L) /\ Len(LinesOf(s)) = C
  BY <1>1, <1>2, <1>3
<1>5. \A k \in 1..C : LinesOf(s)[k] = LineOf(BytesOf(s, k))
  BY <1>3
<1>6. QED
  BY <1>4, <1>5 DEF L, C

(* The line in hand is the next one of the input.                          *)
LEMMA NextLineOfInput ==
  ASSUME IInv, WholeLines, pc = "decoding"
  PROVE  /\ LinesConsumed \in Nat /\ LinesConsumed + 1 \in 1..Cardinality(LineEnds(input))
         /\ UpTo(LineEnds(input), read) = LinesConsumed + 1
         /\ BytesOf(input, LinesConsumed + 1) = SubSeq(input, bytesConsumed + 1, read)
<1> DEFINE E == LineEnds(input)
           pos == LinesConsumed
<1>1. /\ read \in Nat /\ bytesConsumed \in Nat /\ total \in Nat /\ input \in Seq(Byte)
      /\ read = bytesConsumed + total /\ total > 0 /\ read \in E
      /\ E \in SUBSET Nat /\ IsFiniteSet(E) /\ \A e \in E : e \in 1..Len(input)
      /\ bytesConsumed = 0 \/ bytesConsumed \in E
  BY LineEndsType DEF IInv, TypeOK, BytesAccounted, WholeLines
<1>2. ASSUME NEW e \in E, bytesConsumed < e, e <= read - 1 PROVE FALSE
  <2>1. e \in 1..Len(input) /\ read \in 1..Len(input) /\ e \in (bytesConsumed + 1)..(read - 1) /\ e # Len(input)
    BY <1>1, <1>2
  <2>2. input[e] = "nl"
    BY <2>1 DEF LineEnds
  <2>3. QED
    BY <2>1, <2>2 DEF WholeLines
<1>3. UpTo(E, bytesConsumed) = pos
  BY DEF LinesConsumed
<1> HIDE DEF E, pos
<1>4. read - 1 \in Int /\ bytesConsumed \in Int /\ bytesConsumed <= read - 1 /\ (read - 1) + 1 = read
  BY <1>1
<1>5. pos = UpTo(E, read - 1) /\ pos \in Nat
  BY <1>1, <1>2, <1>3, <1>4, UpToMonotonic, UpToType
<1>6. UpTo(E, read) = pos + 1
  BY <1>1, <1>4, <1>5, UpToNext
<1>7. /\ Cardinality(E) \in Nat /\ pos + 1 \in 1..Cardinality(E)
      /\ Ascending(E)[pos + 1] = read
  BY <1>1, <1>6, AscendingOrder
<1>8. pos + 1 = 1 => bytesConsumed = 0
  <2>1. SUFFICES ASSUME bytesConsumed \in E PROVE UpTo(E, bytesConsumed) \in 1..Cardinality(E)
    BY <1>1, <1>3, <1>5
  <2>2. QED
    BY <1>1, <2>1, AscendingOrder
<1>9. pos + 1 # 1 => Ascending(E)[pos] = bytesConsumed
  <2>1. bytesConsumed = 0 => pos = 0
    <3>1. \A e \in E : 0 < e
      BY <1>1
    <3>2. UpTo(E, 0) = 0
      BY <1>1, <3>1, UpToNone
    <3>3. QED
      BY <1>3, <3>2
  <2>2. SUFFICES ASSUME bytesConsumed \in E PROVE Ascending(E)[pos] = bytesConsumed
    BY <1>1, <1>5, <2>1
  <2>3. QED
    BY <1>1, <1>3, <2>2, AscendingOrder
<1>10. (pos + 1) - 1 = pos
  BY <1>5
<1>11. BytesOf(input, pos + 1) = SubSeq(input, bytesConsumed + 1, read)
  <2>1. BytesOf(input, pos + 1) =
          SubSeq(input, IF pos + 1 = 1 THEN 1 ELSE Ascending(E)[(pos + 1) - 1] + 1, Ascending(E)[pos + 1])
    BY DEF BytesOf, E
  <2>2. (IF pos + 1 = 1 THEN 1 ELSE Ascending(E)[(pos + 1) - 1] + 1) = bytesConsumed + 1
    BY <1>8, <1>9, <1>10
  <2>3. QED
    BY <1>7, <2>1, <2>2
<1>12. QED
  BY <1>5, <1>6, <1>7, <1>11 DEF E, pos

(* Decoding emits the next line of the input, or skips it when it is blank.*)
LEMMA DecodeRefines ==
  ASSUME IInv, WholeLines, Decode
  PROVE  Promise!SourceNext
<1> DEFINE pos == LinesConsumed
           N == Cardinality(LineEnds(input))
           b == SubSeq(input, bytesConsumed + 1, read)
           l == LinesOf(input)[pos + 1]
<1>1. /\ pc = "decoding" /\ bytesConsumed' = bytesConsumed + total /\ UNCHANGED <<input, cap, read>>
      /\ \/ exceeded /\ Return(TRUE, FALSE, NoText)
         \/ ~exceeded /\ ~ValidUtf8(out) /\ Return(FALSE, FALSE, NoText)
         \/ ~exceeded /\ ValidUtf8(out) /\ IsBlank(out) /\ SkipBlank
         \/ ~exceeded /\ ValidUtf8(out) /\ ~IsBlank(out) /\ Return(FALSE, TRUE, Trimmed(out))
  BY DEF Decode
<1>2. /\ input \in Seq(Byte) /\ cap \in Nat \ {0} /\ total \in Nat /\ bytesConsumed \in Nat /\ read \in Nat
      /\ read = bytesConsumed + total /\ read <= Len(input)
      /\ Len(out) = Least(total, cap) /\ (exceeded <=> total > cap)
      /\ out = SubSeq(input, bytesConsumed + 1, bytesConsumed + Len(out))
  BY <1>1 DEF IInv, TypeOK, BytesAccounted, BufferIsCappedPrefix
<1>3. Len(b) = total
  <2>1. \A i \in (bytesConsumed + 1)..read : input[i] \in Byte
    BY <1>2
  <2>2. Len(b) = IF bytesConsumed + 1 <= read THEN read - (bytesConsumed + 1) + 1 ELSE 0
    BY <1>2, <2>1, SubSeqProperties
  <2>3. (bytesConsumed + 1 <= read => read - (bytesConsumed + 1) + 1 = total)
        /\ (~(bytesConsumed + 1 <= read) => total = 0)
    BY <1>2
  <2>4. QED
    BY <2>2, <2>3
<1>4. ~exceeded => out = b
  <2>1. ~exceeded => Len(out) = total
    BY <1>2 DEF Least
  <2>2. QED
    BY <1>2, <2>1
<1>5. /\ pos \in Nat /\ pos + 1 \in 1..N /\ UpTo(LineEnds(input), read) = pos + 1
      /\ BytesOf(input, pos + 1) = b
  BY <1>1, NextLineOfInput
<1>6. l = LineOf(b) /\ Len(LinesOf(input)) = N /\ N \in Nat
  BY <1>2, <1>5, LinesOfType, LineEndsType, AscendingOrder
<1>7. LinesConsumed' = pos + 1
  <2>1. LinesConsumed' = UpTo(LineEnds(input), read)
    BY <1>1, <1>2 DEF LinesConsumed
  <2>2. QED
    BY <1>5, <2>1
<1>8. LinesOf(input)' = LinesOf(input)
  BY <1>1 DEF LinesOf, LineOf, DocumentedTag, NewlinePastCap, BlankPastCap
<1>17. b \in Seq(Byte) /\ Len(b) > 0
  BY <1>2, <1>5, BytesOfType
<1> HIDE DEF pos, N, b
<1>9. /\ l.bytes = total
      /\ l.tag = IF exceeded THEN "oversized" ELSE IF ~ValidUtf8(b) THEN "badUtf8"
                 ELSE IF IsBlank(b) THEN "blank" ELSE "text"
      /\ l.text = IF l.tag = "text" THEN Trimmed(b) ELSE NoText
  <2>1. /\ l.bytes = Len(b)
        /\ l.text = IF l.tag = "text" THEN Trimmed(b) ELSE NoText
    BY <1>6 DEF LineOf
  <2>2. l.tag = IF Len(b) > cap THEN "oversized" ELSE IF ~ValidUtf8(b) THEN "badUtf8"
                ELSE IF IsBlank(b) THEN "blank" ELSE "text"
    BY <1>2, <1>6, <1>17, TagByTests
  <2>3. QED
    BY <1>2, <1>3, <2>1, <2>2
<1> HIDE DEF l
<1>10. Promise!Consume
  <2>1. pos # Len(LinesOf(input))
    BY <1>5, <1>6
  <2>2. bytesConsumed' = bytesConsumed + l.bytes
    BY <1>1, <1>9
  <2>3. QED
    BY <1>7, <1>8, <2>1, <2>2 DEF Promise!Consume, Promise!AtEnd, pos, l
<1>11. ASSUME NEW e \in BOOLEAN, NEW u \in BOOLEAN, NEW text, Return(e, u, text),
              l.tag # "blank", e <=> l.tag = "oversized", u <=> l.tag = "text", text = l.text
       PROVE  Promise!Emit
  <2>1. /\ line' = [record |-> recordIndex, bytes |-> total, exceeded |-> e, utf8 |-> u, content |-> text]
        /\ recordIndex' = recordIndex + 1
    BY <1>11 DEF Return
  <2>2. e = (l.tag = "oversized") /\ u = (l.tag = "text")
    BY <1>11
  <2>3. line' = Promise!RawLine(l, recordIndex)
    BY <1>9, <1>11, <2>1, <2>2 DEF Promise!RawLine
  <2>4. QED
    BY <1>10, <1>11, <2>1, <2>3 DEF Promise!Emit, pos, l
<1>12. CASE exceeded /\ Return(TRUE, FALSE, NoText)
  BY <1>9, <1>11, <1>12 DEF Promise!SourceNext
<1>13. CASE ~exceeded /\ ~ValidUtf8(out) /\ Return(FALSE, FALSE, NoText)
  BY <1>4, <1>9, <1>11, <1>13 DEF Promise!SourceNext
<1>14. CASE ~exceeded /\ ValidUtf8(out) /\ IsBlank(out) /\ SkipBlank
  <2>1. l.tag = "blank" /\ UNCHANGED <<recordIndex, line>>
    BY <1>4, <1>9, <1>14 DEF SkipBlank
  <2>2. QED
    BY <1>10, <2>1 DEF Promise!SourceNext, Promise!SkipBlank, pos, l
<1>15. CASE ~exceeded /\ ValidUtf8(out) /\ ~IsBlank(out) /\ Return(FALSE, TRUE, Trimmed(out))
  BY <1>4, <1>9, <1>11, <1>15 DEF Promise!SourceNext
<1>16. QED
  BY <1>1, <1>12, <1>13, <1>14, <1>15

(* All other steps leave what the line-level specification sees.           *)
LEMMA StepRefines ==
  ASSUME IInv, WholeLines, [Next]_vars
  PROVE  [Promise!SourceNext]_(Promise!sourceVars)
<1>1. CASE Decode
  BY <1>1, DecodeRefines
<1>2. CASE UNCHANGED <<input, cap, recordIndex, bytesConsumed, line>>
  <2>1. LinesOf(input)' = LinesOf(input) /\ LinesConsumed' = LinesConsumed
    BY <1>2 DEF LinesOf, LineOf, DocumentedTag, NewlinePastCap, BlankPastCap, LinesConsumed
  <2>2. QED
    BY <1>2, <2>1 DEF Promise!sourceVars
<1>3. QED
  BY <1>1, <1>2 DEF Next, Reading, NextLine, Fill, EndOfInput, ReadError, Finished

LEMMA InitRefines ==
  ASSUME Init
  PROVE  WholeLines /\ Promise!SourceInit
<1>1. bytesConsumed = 0 /\ read = 0 /\ recordIndex = 0 /\ line = NoLine /\ pc = "idle" /\ input \in Seq(Byte)
  BY InputsAssumption DEF Init
<1>2. LinesOf(input) \in Seq([bytes : Nat \ {0}, tag : {"blank", "oversized", "badUtf8", "text"}, text : Seq(Byte)])
  BY <1>1, LinesOfType
<1>3. LinesConsumed = 0
  <2>1. LineEnds(input) \in SUBSET Nat /\ \A e \in LineEnds(input) : 0 < e
    BY <1>1, LineEndsType
  <2>2. UpTo(LineEnds(input), 0) = 0
    BY <2>1, UpToNone
  <2>3. QED
    BY <1>1, <2>2 DEF LinesConsumed
<1>4. Promise!NoLine = NoLine
  BY DEF Promise!NoLine, NoLine
<1>5. QED
  BY <1>1, <1>2, <1>3, <1>4 DEF WholeLines, Promise!SourceInit

(* Whatever the slices the input comes in, next_line returns the lines of  *)
(* the input that are not blank, each once, in order, with its number and  *)
(* the class the documentation gives it, but for a whitespace-only line    *)
(* over the cap and a line only whose newline is past it (both come back   *)
(* as oversized): the reader implements the line source of the validator.  *)
THEOREM LinesAsPromised == Spec => ImplementsLineSource
<1>1. Init => WholeLines /\ Promise!SourceInit
  BY InitRefines
<1>2. IInv /\ WholeLines /\ [Next]_vars => WholeLines'
  BY WholeLinesStep
<1>3. IInv /\ WholeLines /\ [Next]_vars => [Promise!SourceNext]_(Promise!sourceVars)
  BY StepRefines
<1>4. QED
  BY <1>1, <1>2, <1>3, Invariance, PTL DEF Spec, ImplementsLineSource, Promise!SourceSpec
=============================================================================
