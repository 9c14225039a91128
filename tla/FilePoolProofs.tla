--------------------------- MODULE FilePoolProofs ---------------------------
(***************************************************************************)
(* For any number of files and threads: the state of the file pool is well *)
(* typed, and what a call hands out are the results of its files.          *)
(***************************************************************************)
EXTENDS FilePool, FiniteSetTheorems, TLAPS

(* Nothing is in a sequence twice.                                         *)
Injective(s) == \A i, j \in DOMAIN s : s[i] = s[j] => i = j

(* What Init fixes for the whole run.                                      *)
Parameters == count \in 0..MaxFiles /\ workers \in Workers

(* A file that was submitted is in one place: queued, under validation or  *)
(* done; the next one is submitted under a new number.                     *)
Submissions ==
  /\ Injective(queue)
  /\ Injective(completed)
  /\ Elements(queue) \cap running = {}
  /\ Elements(queue) \cap Elements(completed) = {}
  /\ running \cap Elements(completed) = {}
  /\ Elements(queue) \cup running \cup Elements(completed) = 1..Submitted

(* Futures are done exactly when their validation ended.                   *)
Outcomes == \A f \in Files : outcome[f] = "pending" <=> f \notin Elements(completed)

(* as_completed hands out the early ones first, then goes on from where    *)
(* the completions stood; nothing is handed out before or again.           *)
HandedOut ==
  /\ handed <= Len(completed)
  /\ early \subseteq {completed[p] : p \in 1..atStart}
  /\ early # {} => handed = atStart
  /\ \A i \in DOMAIN results :
       /\ results[i].file \notin early
       /\ \E p \in 1..handed : results[i].file = completed[p]
       /\ results[i] = ResultOf(results[i].file)
  /\ \A i, j \in DOMAIN results : results[i].file = results[j].file => i = j

(* Only those done at the start come out of order.                         *)
InOrder ==
  \A i, j \in DOMAIN results, p, q \in DOMAIN completed :
    i < j /\ results[i].file = completed[p] /\ results[j].file = completed[q] /\ q < p => p <= atStart

(* What the stages of the call have behind them.                           *)
Stages ==
  /\ pc = "called" => queue = << >> /\ running = {} /\ completed = << >>
  /\ pc \in {"called", "submit"} => results = << >>
  /\ pc \in {"collect", "handOver", "shutdown", "ended"} => Submitted = count
  /\ pc = "ended" => ThreadsDone
  /\ pc \in {"called", "submit", "collect", "handOver"} => ~left
  /\ pc \in {"shutdown", "ended"} => left \/ Len(results) = count

IInv == TypeOK /\ Parameters /\ Submissions /\ Outcomes /\ HandedOut /\ InOrder /\ Stages

USE DEF vars, call, pool, iterator

-----------------------------------------------------------------------------
(* Sequences and sets. *)

(* What appending does to the elements.                                    *)
LEMMA Appended ==
  ASSUME NEW S, NEW s \in Seq(S), NEW x \in S
  PROVE  /\ Append(s, x) \in Seq(S)
         /\ Len(Append(s, x)) = Len(s) + 1 /\ Len(s) \in Nat
         /\ DOMAIN Append(s, x) = DOMAIN s \cup {Len(s) + 1}
         /\ DOMAIN s = 1..Len(s)
         /\ \A i \in DOMAIN s : Append(s, x)[i] = s[i]
         /\ Append(s, x)[Len(s) + 1] = x
BY SMT

(* Nothing but the appended element is added.                              *)
LEMMA AppendedElements ==
  ASSUME NEW S, NEW s \in Seq(S), NEW x \in S
  PROVE  Elements(Append(s, x)) = Elements(s) \cup {x}
<1>1. /\ DOMAIN Append(s, x) = DOMAIN s \cup {Len(s) + 1}
      /\ \A i \in DOMAIN s : Append(s, x)[i] = s[i]
      /\ Append(s, x)[Len(s) + 1] = x
  BY Appended
<1>2. QED
  BY <1>1, Zenon DEF Elements

(* Appending what is not there yet repeats nothing.                        *)
LEMMA AppendedInjective ==
  ASSUME NEW S, NEW s \in Seq(S), NEW x \in S, Injective(s), x \notin Elements(s)
  PROVE  Injective(Append(s, x))
<1>1. /\ DOMAIN Append(s, x) = DOMAIN s \cup {Len(s) + 1}
      /\ \A i \in DOMAIN s : Append(s, x)[i] = s[i]
      /\ Append(s, x)[Len(s) + 1] = x
  BY Appended
<1>2. \A i \in DOMAIN s : s[i] # x
  BY DEF Elements
<1>3. QED
  BY <1>1, <1>2 DEF Injective

(* What taking the first element does to them.                             *)
LEMMA Taken ==
  ASSUME NEW S, NEW s \in Seq(S), s # << >>, Injective(s)
  PROVE  /\ Head(s) \in S /\ Tail(s) \in Seq(S)
         /\ Len(Tail(s)) = Len(s) - 1 /\ Len(s) \in Nat
         /\ Head(s) \in Elements(s)
         /\ Elements(Tail(s)) = Elements(s) \ {Head(s)}
         /\ Injective(Tail(s))
<1>1. /\ Head(s) \in S /\ Tail(s) \in Seq(S)
      /\ Len(Tail(s)) = Len(s) - 1 /\ Len(s) \in Nat /\ Len(s) > 0
      /\ DOMAIN s = 1..Len(s) /\ DOMAIN Tail(s) = 1..(Len(s) - 1)
      /\ Head(s) = s[1]
      /\ \A i \in DOMAIN Tail(s) : Tail(s)[i] = s[i + 1]
  OBVIOUS
<1>2. \A i \in DOMAIN Tail(s) : i + 1 \in DOMAIN s /\ i + 1 # 1
  BY <1>1
<1>3. \A j \in DOMAIN s \ {1} : j - 1 \in DOMAIN Tail(s) /\ Tail(s)[j - 1] = s[j]
  BY <1>1
<1>4. 1 \in DOMAIN s
  BY <1>1
<1>5. Elements(Tail(s)) \subseteq Elements(s) \ {Head(s)}
  BY <1>1, <1>2, <1>4 DEF Elements, Injective
<1>6. Elements(s) \ {Head(s)} \subseteq Elements(Tail(s))
  BY <1>1, <1>3 DEF Elements
<1>7. Injective(Tail(s))
  <2> SUFFICES ASSUME NEW i \in DOMAIN Tail(s), NEW j \in DOMAIN Tail(s), Tail(s)[i] = Tail(s)[j]
               PROVE  i = j
    BY DEF Injective
  <2>1. i + 1 = j + 1
    BY <1>1, <1>2 DEF Injective
  <2>2. QED
    BY <1>1, <2>1
<1>8. QED
  BY <1>1, <1>4, <1>5, <1>6, <1>7 DEF Elements

(* Only finitely many files are under validation, so they can be counted.  *)
LEMMA RunningFinite ==
  ASSUME IInv
  PROVE  IsFiniteSet(running) /\ Cardinality(running) \in Nat
<1>1. IsFiniteSet(Files)
  BY FS_Interval DEF IInv, Parameters, Files
<1>2. IsFiniteSet(running)
  BY <1>1, FS_Subset DEF IInv, TypeOK
<1>3. QED
  BY <1>2, FS_CardinalityType

(* The numbers that the steps compare and count with are natural.          *)
LEMMA Counts ==
  ASSUME IInv
  PROVE  /\ count \in Nat /\ workers \in Nat \ {0}
         /\ Len(queue) \in Nat /\ Len(completed) \in Nat /\ Len(results) \in Nat
         /\ Submitted \in Nat
BY RunningFinite, FilesAssumption, WorkersAssumption DEF IInv, Parameters, TypeOK, Submitted

-----------------------------------------------------------------------------
(* The threads of the pool. *)

(* A thread moves a file from the queue to those under validation.         *)
LEMMA TakeStep ==
  ASSUME IInv, Take
  PROVE  IInv'
<1> DEFINE f == Head(queue)
<1>1. /\ queue # << >> /\ Cardinality(running) < workers
      /\ running' = running \cup {f} /\ queue' = Tail(queue)
      /\ UNCHANGED <<call, outcome, completed, iterator, pc>>
  BY DEF Take, FreeThread
<1>2. queue \in Seq(Files) /\ Injective(queue)
  BY DEF IInv, TypeOK, Submissions
<1>3. /\ f \in Files /\ queue' \in Seq(Files)
      /\ Len(queue') = Len(queue) - 1
      /\ f \in Elements(queue)
      /\ Elements(queue') = Elements(queue) \ {f}
      /\ Injective(queue')
  BY <1>1, <1>2, Taken
<1> HIDE DEF f
<1>4. f \notin running
  BY <1>3 DEF IInv, Submissions
<1>5. Cardinality(running') = Cardinality(running) + 1
  BY <1>1, <1>4, RunningFinite, FS_AddElement
<1>6. Submitted' = Submitted
  BY <1>1, <1>3, <1>5, Counts, RunningFinite DEF Submitted
<1>7. TypeOK'
  <2>1. running' \subseteq Files /\ Cardinality(running') <= workers
    BY <1>1, <1>3, <1>5, RunningFinite, Counts DEF IInv, TypeOK
  <2>2. Files' = Files /\ FileResult' = FileResult
    BY <1>1 DEF Files, FileResult
  <2>3. QED
    BY <1>1, <1>3, <2>1, <2>2 DEF IInv, TypeOK
<1>8. Submissions'
  <2>1. Elements(completed') = Elements(completed)
    BY <1>1
  <2>2. QED
    BY <1>1, <1>3, <1>6, <2>1 DEF IInv, Submissions
<1>9. Parameters' /\ Outcomes' /\ HandedOut' /\ InOrder'
  BY <1>1 DEF IInv, Parameters, Outcomes, HandedOut, InOrder, Elements, Files, ResultOf
<1>10. Stages'
  BY <1>1, <1>6 DEF IInv, Stages, ThreadsDone
<1>11. QED
  BY <1>7, <1>8, <1>9, <1>10 DEF IInv

(* A file whose validation ends is the latest to be done.                  *)
LEMMA ValidatedStep ==
  ASSUME IInv, NEW f \in Files, Validated(f)
  PROVE  IInv'
<1>1. /\ f \in running /\ running' = running \ {f}
      /\ completed' = Append(completed, f)
      /\ UNCHANGED <<call, queue, iterator, pc>>
  BY DEF Validated
<1>2. PICK o \in Outcome : outcome' = [outcome EXCEPT ![f] = o]
  BY DEF Validated
<1>3. completed \in Seq(Files) /\ Injective(completed) /\ f \notin Elements(completed)
  BY <1>1 DEF IInv, TypeOK, Submissions
<1>4. /\ completed' \in Seq(Files)
      /\ Len(completed') = Len(completed) + 1 /\ Len(completed) \in Nat
      /\ DOMAIN completed = 1..Len(completed)
      /\ DOMAIN completed' = DOMAIN completed \cup {Len(completed) + 1}
      /\ \A i \in DOMAIN completed : completed'[i] = completed[i]
      /\ completed'[Len(completed) + 1] = f
  BY <1>1, <1>3, Appended
<1>5. Elements(completed') = Elements(completed) \cup {f}
  BY <1>1, <1>3, AppendedElements
<1>6. Injective(completed')
  BY <1>1, <1>3, AppendedInjective
<1>7. Cardinality(running') = Cardinality(running) - 1
  BY <1>1, RunningFinite, FS_RemoveElement
<1>8. Submitted' = Submitted
  BY <1>1, <1>4, <1>7, Counts, RunningFinite DEF Submitted
<1>9. Files' = Files /\ FileResult' = FileResult
  BY <1>1 DEF Files, FileResult
<1>10. outcome \in [Files -> Outcome \cup {"pending"}]
  BY DEF IInv, TypeOK
<1>11. TypeOK'
  <2>1. running' \subseteq Files /\ Cardinality(running') <= workers
    BY <1>1, <1>7, RunningFinite, Counts DEF IInv, TypeOK
  <2>2. outcome' \in [Files -> Outcome \cup {"pending"}]
    BY <1>2, <1>10
  <2>3. QED
    BY <1>1, <1>4, <1>9, <2>1, <2>2 DEF IInv, TypeOK
<1>12. Submissions'
  BY <1>1, <1>5, <1>6, <1>8 DEF IInv, Submissions
<1>13. Outcomes'
  <2> SUFFICES ASSUME NEW g \in Files
               PROVE  outcome'[g] = "pending" <=> g \notin Elements(completed')
    BY <1>9 DEF Outcomes
  <2>1. CASE g = f
    BY <1>2, <1>5, <1>10, <2>1 DEF Outcome
  <2>2. CASE g # f
    <3>1. outcome'[g] = outcome[g]
      BY <1>2, <1>10, <2>2
    <3>2. QED
      BY <1>5, <2>2, <3>1 DEF IInv, Outcomes
  <2>3. QED
    BY <2>1, <2>2
<1>14. handed <= Len(completed) /\ handed \in Nat /\ atStart \in Nat /\ atStart <= handed
  BY Counts DEF IInv, HandedOut, TypeOK
<1>15. HandedOut'
  <2>1. handed' <= Len(completed') /\ (early' # {} => handed' = atStart')
    BY <1>1, <1>4, <1>14 DEF IInv, HandedOut
  <2>2. \A p \in 1..handed : p \in DOMAIN completed /\ completed'[p] = completed[p]
    BY <1>4, <1>14
  <2>3. early' \subseteq {completed'[p] : p \in 1..atStart'}
    BY <1>1, <1>14, <2>2 DEF IInv, HandedOut
  <2>4. ASSUME NEW i \in DOMAIN results
        PROVE  /\ results[i].file \notin early
               /\ \E p \in 1..handed : results[i].file = completed'[p]
               /\ results[i] = ResultOf(results[i].file)'
    <3>1. PICK p \in 1..handed : results[i].file = completed[p]
      BY <2>4 DEF IInv, HandedOut
    <3>2. results[i].file \in Files /\ results[i].file # f
      BY <1>3, <2>2, <3>1 DEF Elements, IInv, TypeOK
    <3>3. outcome'[results[i].file] = outcome[results[i].file]
      BY <1>2, <1>10, <3>2
    <3>4. results[i] = ResultOf(results[i].file)'
      BY <1>1, <2>4, <3>3 DEF IInv, HandedOut, ResultOf
    <3>5. QED
      BY <2>2, <2>4, <3>1, <3>4 DEF IInv, HandedOut
  <2>5. QED
    BY <1>1, <2>1, <2>3, <2>4 DEF IInv, HandedOut
<1>16. InOrder'
  <2> SUFFICES ASSUME NEW i \in DOMAIN results, NEW j \in DOMAIN results,
                      NEW p \in DOMAIN completed', NEW q \in DOMAIN completed',
                      i < j, results[i].file = completed'[p], results[j].file = completed'[q], q < p
               PROVE  p <= atStart
    BY <1>1 DEF InOrder
  <2>1. PICK r \in 1..handed : results[i].file = completed[r]
    BY DEF IInv, HandedOut
  <2>2. r \in DOMAIN completed /\ completed'[r] = completed[r] /\ r \in DOMAIN completed'
    BY <1>4, <1>14, <2>1
  <2>3. r = p
    BY <1>6, <2>1, <2>2 DEF Injective
  <2>4. p \in DOMAIN completed /\ q \in DOMAIN completed
    BY <1>4, <2>2, <2>3
  <2>5. results[i].file = completed[p] /\ results[j].file = completed[q]
    BY <1>4, <2>4
  <2>6. QED
    BY <2>4, <2>5 DEF IInv, InOrder
<1>17. Parameters'
  BY <1>1 DEF IInv, Parameters
<1>18. Stages'
  BY <1>1, <1>8, <1>9 DEF IInv, Stages, ThreadsDone
<1>19. QED
  BY <1>11, <1>12, <1>13, <1>15, <1>16, <1>17, <1>18 DEF IInv

-----------------------------------------------------------------------------
(* The call. *)

(* What is submitted next is a file that was not submitted before.         *)
LEMMA SubmitStep ==
  ASSUME IInv, Submit
  PROVE  IInv'
<1> DEFINE f == Submitted + 1
<1>1. /\ pc = "submit" /\ Submitted < count
      /\ queue' = Append(queue, f)
      /\ UNCHANGED <<call, running, outcome, completed, iterator, pc>>
  BY DEF Submit
<1>2. f \in Files /\ f \notin 1..Submitted /\ 1..f = (1..Submitted) \cup {f}
  BY <1>1, Counts DEF Files
<1>3. Submitted' = f
  <2>1. Len(queue') = Len(queue) + 1
    BY <1>1, <1>2, Appended DEF IInv, TypeOK
  <2>2. QED
    BY <1>1, <2>1, Counts, RunningFinite DEF Submitted
<1> HIDE DEF f
<1>4. f \notin Elements(queue) /\ f \notin running /\ f \notin Elements(completed)
  BY <1>2 DEF IInv, Submissions
<1>5. /\ queue' \in Seq(Files) /\ Injective(queue')
      /\ Elements(queue') = Elements(queue) \cup {f}
  BY <1>1, <1>2, <1>4, Appended, AppendedElements, AppendedInjective DEF IInv, TypeOK, Submissions
<1>6. Files' = Files /\ FileResult' = FileResult /\ Elements(completed') = Elements(completed)
  BY <1>1 DEF Files, FileResult
<1>7. TypeOK'
  BY <1>1, <1>5, <1>6 DEF IInv, TypeOK
<1>8. Submissions'
  BY <1>1, <1>2, <1>3, <1>4, <1>5, <1>6 DEF IInv, Submissions
<1>9. Parameters' /\ Outcomes' /\ HandedOut' /\ InOrder'
  BY <1>1, <1>6 DEF IInv, Parameters, Outcomes, HandedOut, InOrder, ResultOf
<1>10. Stages'
  BY <1>1 DEF IInv, Stages
<1>11. QED
  BY <1>7, <1>8, <1>9, <1>10 DEF IInv

(* as_completed starts with all that are done, before the first result.    *)
LEMMA AsCompletedStep ==
  ASSUME IInv, AsCompleted
  PROVE  IInv'
<1>1. /\ pc = "submit" /\ Submitted = count
      /\ early' = Elements(completed) /\ handed' = Len(completed) /\ atStart' = Len(completed)
      /\ pc' = "collect"
      /\ UNCHANGED <<call, pool, results, left>>
  BY DEF AsCompleted
<1>2. results = << >>
  BY <1>1 DEF IInv, Stages
<1>3. completed \in Seq(Files) /\ DOMAIN completed = 1..Len(completed) /\ Len(completed) \in Nat
  BY Counts DEF IInv, TypeOK
<1>4. Len(completed) <= count
  BY <1>1, Counts, RunningFinite DEF Submitted
<1>5. Files' = Files /\ FileResult' = FileResult /\ Submitted' = Submitted
  BY <1>1 DEF Files, FileResult, Submitted
<1>6. TypeOK'
  <2>1. early' \subseteq Files'
    BY <1>1, <1>3, <1>5 DEF Elements
  <2>2. handed' \in 0..count' /\ atStart' \in 0..handed'
    BY <1>1, <1>3, <1>4, Counts
  <2>3. QED
    BY <1>1, <1>5, <2>1, <2>2 DEF IInv, TypeOK
<1>7. Parameters' /\ Submissions' /\ Outcomes'
  BY <1>1, <1>5 DEF IInv, Parameters, Submissions, Outcomes, Elements, Injective
<1>8. HandedOut'
  <2>1. early' = {completed'[p] : p \in 1..atStart'}
    BY <1>1, <1>3 DEF Elements
  <2>2. DOMAIN results' = {}
    BY <1>1, <1>2
  <2>3. handed' <= Len(completed')
    BY <1>1, <1>3
  <2>4. QED
    BY <1>1, <2>1, <2>2, <2>3 DEF HandedOut
<1>9. InOrder'
  BY <1>1, <1>2 DEF InOrder
<1>10. Stages'
  <2>1. ~left'
    BY <1>1 DEF IInv, Stages
  <2>2. QED
    BY <1>1, <1>5, <2>1 DEF Stages
<1>11. QED
  BY <1>6, <1>7, <1>8, <1>9, <1>10 DEF IInv

(* What is handed out is done and was not handed out before; an early one  *)
(* comes while only early ones have come, a later one after all before it. *)
LEMMA CollectStep ==
  ASSUME IInv, Collect
  PROVE  IInv'
<1>1. PICK f \in Files :
        /\ NextDone(f)
        /\ early' = early \ {f}
        /\ handed' = IF f \in early THEN handed ELSE handed + 1
        /\ results' = Append(results, ResultOf(f))
  BY DEF Collect
<1>2. pc = "collect" /\ pc' = "handOver" /\ UNCHANGED <<call, pool, atStart, left>>
  BY DEF Collect
<1>3. Files' = Files /\ FileResult' = FileResult /\ Submitted' = Submitted
  BY <1>2 DEF Files, FileResult, Submitted
<1>4. /\ DOMAIN completed = 1..Len(completed) /\ Len(completed) \in Nat
      /\ handed \in Nat /\ atStart \in Nat /\ atStart <= handed /\ handed <= Len(completed)
      /\ count \in Nat /\ Len(completed) <= count
  <2>1. Len(completed) <= count
    BY <1>2, Counts, RunningFinite DEF Submitted, IInv, Stages
  <2>2. QED
    BY <2>1, Counts DEF IInv, TypeOK, HandedOut
<1>5. PICK place \in DOMAIN completed :
        /\ completed[place] = f
        /\ \/ f \in early /\ place <= atStart /\ handed = atStart /\ handed' = handed
           \/ f \notin early /\ early = {} /\ place = handed + 1 /\ handed' = handed + 1
  <2>1. CASE f \in early
    <3>1. PICK p \in 1..atStart : f = completed[p]
      BY <2>1 DEF IInv, HandedOut
    <3>2. p \in DOMAIN completed /\ p <= atStart
      BY <1>4, <3>1
    <3>3. handed = atStart
      BY <2>1 DEF IInv, HandedOut
    <3>4. QED
      BY <1>1, <2>1, <3>1, <3>2, <3>3
  <2>2. CASE f \notin early
    <3>1. early = {} /\ handed < Len(completed) /\ f = completed[handed + 1]
      BY <1>1, <2>2 DEF NextDone
    <3>2. handed + 1 \in DOMAIN completed
      BY <1>4, <3>1
    <3>3. QED
      BY <1>1, <2>2, <3>1, <3>2
  <2>3. QED
    BY <2>1, <2>2
<1>6. handed' \in Nat /\ handed <= handed' /\ handed' <= Len(completed) /\ place \in 1..handed'
  BY <1>4, <1>5
<1>7. ResultOf(f) \in FileResult /\ ResultOf(f).file = f
  <2>1. outcome[f] \in Outcome
    BY <1>5 DEF IInv, TypeOK, Outcomes, Elements
  <2>2. QED
    BY <2>1 DEF ResultOf, FileResult, Outcome
<1>8. /\ results' \in Seq(FileResult)
      /\ DOMAIN results' = DOMAIN results \cup {Len(results) + 1}
      /\ DOMAIN results = 1..Len(results) /\ Len(results) \in Nat
      /\ \A i \in DOMAIN results : results'[i] = results[i]
      /\ results'[Len(results) + 1] = ResultOf(f)
  BY <1>1, <1>7, Appended DEF IInv, TypeOK
<1>9. \A i \in DOMAIN results :
        /\ results[i].file # f
        /\ \E p \in 1..handed : results[i].file = completed[p]
  <2> SUFFICES ASSUME NEW i \in DOMAIN results
               PROVE  /\ results[i].file # f
                      /\ \E p \in 1..handed : results[i].file = completed[p]
    OBVIOUS
  <2>1. PICK p \in 1..handed : results[i].file = completed[p]
    BY DEF IInv, HandedOut
  <2>2. results[i].file \notin early
    BY DEF IInv, HandedOut
  <2>3. p \in DOMAIN completed /\ (place = handed + 1 => p # place)
    BY <1>4, <2>1
  <2>4. results[i].file # f
    BY <1>5, <2>1, <2>2, <2>3 DEF IInv, Submissions, Injective
  <2>5. QED
    BY <2>1, <2>4
<1>10. TypeOK'
  <2>1. handed' \in 0..count /\ atStart \in 0..handed'
    BY <1>4, <1>6
  <2>2. QED
    BY <1>1, <1>2, <1>3, <1>8, <2>1 DEF IInv, TypeOK
<1>11. Parameters' /\ Submissions' /\ Outcomes'
  BY <1>2, <1>3 DEF IInv, Parameters, Submissions, Outcomes, Elements, Injective
<1>12. HandedOut'
  <2>1. handed' <= Len(completed') /\ early' \subseteq {completed'[p] : p \in 1..atStart'}
    BY <1>1, <1>2, <1>6 DEF IInv, HandedOut
  <2>2. early' # {} => handed' = atStart'
    BY <1>1, <1>2, <1>5
  <2>3. ASSUME NEW i \in DOMAIN results'
        PROVE  /\ results'[i].file \notin early'
               /\ \E p \in 1..handed' : results'[i].file = completed'[p]
               /\ results'[i] = ResultOf(results'[i].file)
    <3>1. CASE i \in DOMAIN results
      <4>1. results'[i] = results[i] /\ results[i].file \notin early /\ results[i] = ResultOf(results[i].file)
        BY <1>8, <3>1 DEF IInv, HandedOut
      <4>2. PICK p \in 1..handed : results[i].file = completed[p]
        BY <1>9, <3>1
      <4>3. p \in 1..handed'
        BY <1>4, <1>6, <4>2
      <4>4. QED
        BY <1>1, <1>2, <4>1, <4>2, <4>3
    <3>2. CASE i = Len(results) + 1
      BY <1>1, <1>2, <1>5, <1>6, <1>7, <1>8, <3>2
    <3>3. QED
      BY <1>8, <3>1, <3>2
  <2>4. \A i, j \in DOMAIN results' : results'[i].file = results'[j].file => i = j
    BY <1>7, <1>8, <1>9 DEF IInv, HandedOut
  <2>5. \A i \in DOMAIN results' : ResultOf(results'[i].file) = ResultOf(results[i].file)'
    BY <1>2 DEF ResultOf
  <2>6. QED
    BY <2>1, <2>2, <2>3, <2>4, <2>5 DEF HandedOut
<1>13. InOrder'
  <2> SUFFICES ASSUME NEW i \in DOMAIN results', NEW j \in DOMAIN results',
                      NEW p \in DOMAIN completed, NEW q \in DOMAIN completed,
                      i < j, results'[i].file = completed[p], results'[j].file = completed[q], q < p
               PROVE  p <= atStart
    BY <1>2 DEF InOrder
  <2>1. i \in DOMAIN results
    BY <1>8
  <2>2. CASE j \in DOMAIN results
    BY <1>8, <2>1, <2>2 DEF IInv, InOrder
  <2>3. CASE j = Len(results) + 1
    <3>1. q = place
      BY <1>5, <1>7, <1>8, <2>3 DEF IInv, Submissions, Injective
    <3>2. PICK r \in 1..handed : results[i].file = completed[r]
      BY <1>9, <2>1
    <3>3. r = p /\ p <= handed
      BY <1>4, <1>8, <2>1, <3>2 DEF IInv, Submissions, Injective
    <3>4. QED
      BY <1>4, <1>5, <3>1, <3>3
  <2>4. QED
    BY <1>8, <2>2, <2>3
<1>14. Stages'
  BY <1>2, <1>3 DEF IInv, Stages
<1>15. QED
  BY <1>10, <1>11, <1>12, <1>13, <1>14 DEF IInv

(* The other steps of the call change only where it stands.                *)
LEMMA ControlStep ==
  ASSUME IInv, NoFiles \/ Start \/ Callback \/ Resume \/ Leave \/ Exhausted \/ Shutdown
  PROVE  IInv'
<1>1. UNCHANGED <<call, pool, early, handed, results, atStart>>
  BY DEF NoFiles, Start, Callback, Resume, Leave, Exhausted, Shutdown
<1>2. Submitted' = Submitted /\ Files' = Files /\ FileResult' = FileResult
  BY <1>1 DEF Submitted, Files, FileResult
<1>3. TypeOK'
  <2>1. pc' \in {"called", "submit", "collect", "handOver", "shutdown", "ended"}
    BY DEF NoFiles, Start, Callback, Resume, Leave, Exhausted, Shutdown
  <2>2. left' \in BOOLEAN
    BY DEF IInv, TypeOK, NoFiles, Start, Callback, Resume, Leave, Exhausted, Shutdown
  <2>3. QED
    BY <1>1, <1>2, <2>1, <2>2 DEF IInv, TypeOK
<1>4. Parameters' /\ Submissions' /\ Outcomes' /\ HandedOut' /\ InOrder'
  BY <1>1, <1>2 DEF IInv, Parameters, Submissions, Outcomes, HandedOut, InOrder,
                    Injective, Elements, ResultOf
<1>5. Stages'
  <2>1. CASE NoFiles
    <3>1. queue = << >> /\ running = {} /\ completed = << >> /\ results = << >> /\ count = 0
      BY <2>1 DEF NoFiles, IInv, Stages
    <3>2. Submitted = 0
      BY <3>1, FS_EmptySet DEF Submitted
    <3>3. QED
      BY <1>1, <1>2, <2>1, <3>1, <3>2 DEF NoFiles, Stages, ThreadsDone
  <2>2. CASE Start
    BY <1>1, <2>2 DEF Start, IInv, Stages
  <2>3. CASE Callback \/ Resume \/ Leave \/ Exhausted
    BY <1>1, <1>2, <2>3 DEF Callback, Resume, Leave, Exhausted, IInv, Stages
  <2>4. CASE Shutdown
    BY <1>1, <1>2, <2>4 DEF Shutdown, IInv, Stages, ThreadsDone
  <2>5. QED
    BY <2>1, <2>2, <2>3, <2>4
<1>6. QED
  BY <1>3, <1>4, <1>5 DEF IInv

(* A step that changes nothing keeps the invariant.                        *)
LEMMA StutterStep ==
  ASSUME IInv, UNCHANGED vars
  PROVE  IInv'
<1>1. Submitted' = Submitted /\ Files' = Files /\ FileResult' = FileResult
  BY DEF Submitted, Files, FileResult
<1>2. TypeOK' /\ Stages'
  BY <1>1 DEF IInv, TypeOK, Stages, ThreadsDone
<1>3. Parameters' /\ Submissions' /\ Outcomes' /\ HandedOut' /\ InOrder'
  BY <1>1 DEF IInv, Parameters, Submissions, Outcomes, HandedOut, InOrder,
              Injective, Elements, ResultOf
<1>4. QED
  BY <1>2, <1>3 DEF IInv

-----------------------------------------------------------------------------
(* The theorems. *)

(* Nothing is submitted at the start.                                      *)
LEMMA InitInvariant ==
  ASSUME Init
  PROVE  IInv
<1>1. count \in Nat /\ workers \in Nat
  BY FilesAssumption, WorkersAssumption DEF Init
<1>2. Cardinality(running) = 0 /\ Submitted = 0 /\ Elements(queue) = {} /\ Elements(completed) = {}
  BY FS_EmptySet DEF Init, Submitted, Elements
<1>3. TypeOK
  <2>1. left \in BOOLEAN
    BY DEF Init
  <2>2. QED
    BY <1>1, <1>2, <2>1 DEF Init, TypeOK
<1>4. Parameters /\ Outcomes /\ HandedOut /\ InOrder /\ Stages
  BY <1>1, <1>2 DEF Init, Parameters, Outcomes, HandedOut, InOrder, Stages
<1>5. Submissions
  BY <1>2 DEF Init, Submissions, Injective
<1>6. QED
  BY <1>3, <1>4, <1>5 DEF IInv

(* The strengthening is inductive.                                         *)
THEOREM Invariance == Spec => []IInv
<1>1. Init => IInv
  BY InitInvariant
<1>2. IInv /\ [Next]_vars => IInv'
  <2> SUFFICES ASSUME IInv, [Next]_vars
               PROVE  IInv'
    OBVIOUS
  <2>1. CASE Take
    BY <2>1, TakeStep
  <2>2. ASSUME NEW f \in Files, Validated(f)
        PROVE  IInv'
    BY <2>2, ValidatedStep
  <2>3. CASE Submit
    BY <2>3, SubmitStep
  <2>4. CASE AsCompleted
    BY <2>4, AsCompletedStep
  <2>5. CASE Collect
    BY <2>5, CollectStep
  <2>6. CASE NoFiles \/ Start \/ Callback \/ Resume \/ Leave \/ Exhausted \/ Shutdown
    BY <2>6, ControlStep
  <2>7. CASE Ended \/ UNCHANGED vars
    BY <2>7, StutterStep DEF Ended
  <2>8. QED
    BY <2>1, <2>2, <2>3, <2>4, <2>5, <2>6, <2>7 DEF Next, Body
<1>3. QED
  BY <1>1, <1>2, PTL DEF Spec

(* However many files and threads, the state keeps its types and no more   *)
(* files are validated at once than max_workers (_parallel.py:80).         *)
THEOREM PoolTyped == Spec => []TypeOK
<1>1. IInv => TypeOK
  BY DEF IInv
<1>2. QED
  BY <1>1, Invariance, PTL

(* However many files and threads, and wherever the call is left, a file   *)
(* is handed out once with its own outcome, in completion order after      *)
(* those done at the start; a call that was not left hands out all, and    *)
(* the pool is idle after the call (_parallel.py:80-97, 126-136).          *)
THEOREM ResultsDelivered == Spec => []ResultsAreThoseOfTheFiles
<1>1. IInv => ResultsAreThoseOfTheFiles
  <2> SUFFICES ASSUME IInv
               PROVE  ResultsAreThoseOfTheFiles
    OBVIOUS
  <2>1. ASSUME NEW i \in DOMAIN results
        PROVE  \E p \in DOMAIN completed : results[i].file = completed[p] /\ PlaceOf(results[i].file) = p
    <3>1. PICK p \in 1..handed : results[i].file = completed[p]
      BY DEF HandedOut, IInv
    <3>2. p \in DOMAIN completed
      BY <3>1, Counts DEF HandedOut, IInv, TypeOK
    <3>3. PlaceOf(results[i].file) = p
      BY <3>1, <3>2 DEF PlaceOf, IInv, Submissions, Injective
    <3>4. QED
      BY <3>1, <3>2, <3>3
  <2>2. ASSUME NEW i \in DOMAIN results
        PROVE  LET f == results[i].file
               IN /\ outcome[f] # "pending"
                  /\ results[i].error <=> outcome[f] = "error"
                  /\ ~results[i].error => results[i].report = outcome[f]
    <3>1. results[i].file \in Files /\ results[i] = ResultOf(results[i].file)
      BY DEF IInv, TypeOK, HandedOut, FileResult
    <3>2. outcome[results[i].file] # "pending"
      BY <2>1, <3>1 DEF IInv, Outcomes, Elements
    <3> DEFINE f == results[i].file
               r == ResultOf(f)
    <3>3. r.error = (outcome[f] = "error") /\ r.report = IF outcome[f] = "error" THEN "none" ELSE outcome[f]
      BY DEF ResultOf
    <3>4. results[i].error = r.error /\ results[i].report = r.report
      BY <3>1
    <3> HIDE DEF f, r
    <3>5. outcome[f] # "pending" /\ (results[i].error <=> outcome[f] = "error")
      BY <3>2, <3>3, <3>4, Zenon DEF f
    <3>6. ~results[i].error => results[i].report = outcome[f]
      BY <3>3, <3>4, Zenon
    <3>7. QED
      BY <3>5, <3>6 DEF f
  <2>3. ASSUME NEW i \in DOMAIN results, NEW j \in DOMAIN results,
               i < j, PlaceOf(results[j].file) < PlaceOf(results[i].file)
        PROVE  PlaceOf(results[i].file) <= atStart
    BY <2>1, <2>3 DEF IInv, InOrder
  <2>4. ASSUME pc = "ended"
        PROVE  queue = << >> /\ running = {} /\ (left \/ Len(results) = count)
    BY <2>4 DEF IInv, Stages, ThreadsDone
  <2>5. QED
    BY <2>2, <2>3, <2>4 DEF ResultsAreThoseOfTheFiles, IInv, HandedOut
<1>2. QED
  BY <1>1, Invariance, PTL
=============================================================================
