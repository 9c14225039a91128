------------------------------ MODULE FilePool ------------------------------
(***************************************************************************)
(* Validation of many files at once (python/statguardian/_parallel.py):    *)
(* execute_files collects the results of a thread pool into a list,        *)
(* execute_files_stream yields them to a consumer that may stop early.     *)
(* ThreadPoolExecutor and as_completed are the standard library's: a queue *)
(* served in order by at most max_workers threads, and an iterator over    *)
(* futures that first hands out those already done, in any order.          *)
(***************************************************************************)
EXTENDS Integers, Sequences, FiniteSets

CONSTANTS
  MaxFiles,         \* the longest list of files
  Workers           \* the values of max_workers considered

ASSUME FilesAssumption == MaxFiles \in Nat
ASSUME WorkersAssumption == Workers \subseteq Nat \ {0}

VARIABLES
  mode,             \* execute_files or execute_files_stream
  count,            \* how many files _resolve_paths found
  workers,          \* the size of the pool
  queue,            \* submitted files no thread has taken
  running,          \* the files being validated
  outcome,          \* what became of each file's future
  completed,        \* the files in the order their futures were done
  early,            \* those done when as_completed was called and not yet handed out
  handed,           \* how many of `completed` as_completed has gone through
  results,          \* results, or what was yielded
  pc,               \* where the call stands
  atStart,          \* history: how many were done when as_completed was called
  left              \* history: the call was left before its last result

vars == <<mode, count, workers, queue, running, outcome, completed, early, handed, results, pc, atStart, left>>
call == <<mode, count, workers>>
pool == <<queue, running, outcome, completed>>
iterator == <<early, handed, results, atStart, left>>

Files == 1..count
Outcome == {"passed", "failed", "error"}

Elements(s) == {s[i] : i \in DOMAIN s}

Init ==
  /\ mode \in {"list", "stream"}
  /\ count \in 0..MaxFiles
  /\ workers \in Workers
  /\ queue = << >>
  /\ running = {}
  /\ outcome = [f \in Files |-> "pending"]
  /\ completed = << >>
  /\ early = {}
  /\ handed = 0
  /\ results = << >>
  /\ pc = "called"
  /\ atStart = 0
  /\ left = FALSE

-----------------------------------------------------------------------------
(* The threads of the pool. *)

(* Seeded fault: the pool has its default size whatever was asked for.     *)
FreeThreadDefault == Cardinality(running) < MaxFiles

(* Seeded fault: one thread of the pool is never used.                     *)
FreeThreadSpare == Cardinality(running) + 1 < workers

FreeThread == Cardinality(running) < workers

Take ==
  /\ queue # << >>
  /\ FreeThread
  /\ running' = running \cup {Head(queue)}
  /\ queue' = Tail(queue)
  /\ UNCHANGED <<call, outcome, completed, iterator, pc>>

(* _validate_one: execute_file returns a report or raises. *)
Validated(f) ==
  /\ f \in running
  /\ running' = running \ {f}
  /\ \E o \in Outcome : outcome' = [outcome EXCEPT ![f] = o]
  /\ completed' = Append(completed, f)
  /\ UNCHANGED <<call, queue, iterator, pc>>

-----------------------------------------------------------------------------
(* The caller's thread. *)

NoFiles ==
  /\ pc = "called"
  /\ count = 0
  /\ pc' = "ended"
  /\ UNCHANGED <<call, pool, iterator>>

(* A generator does nothing before the consumer's first next. *)
Start ==
  /\ pc = "called"
  /\ count > 0
  /\ pc' = "submit"
  /\ UNCHANGED <<call, pool, iterator>>

Submitted == Len(queue) + Cardinality(running) + Len(completed)

Submit ==
  /\ pc = "submit"
  /\ Submitted < count
  /\ queue' = Append(queue, Submitted + 1)
  /\ UNCHANGED <<call, running, outcome, completed, iterator, pc>>

AsCompleted ==
  /\ pc = "submit"
  /\ Submitted = count
  /\ early' = Elements(completed)
  /\ handed' = Len(completed)
  /\ atStart' = Len(completed)
  /\ pc' = "collect"
  /\ UNCHANGED <<call, pool, results, left>>

(* FileResult: the report of the future, or the text of its exception.     *)
ResultOf(f) ==
  [file |-> f, report |-> IF outcome[f] = "error" THEN "none" ELSE outcome[f], error |-> outcome[f] = "error"]

(* What as_completed hands out next. *)
NextDone(f) ==
  IF early # {} THEN f \in early ELSE handed < Len(completed) /\ f = completed[handed + 1]

Collect ==
  /\ pc = "collect"
  /\ Len(results) < count
  /\ \E f \in Files :
       /\ NextDone(f)
       /\ early' = early \ {f}
       /\ handed' = IF f \in early THEN handed ELSE handed + 1
       /\ results' = Append(results, ResultOf(f))
  /\ pc' = "handOver"
  /\ UNCHANGED <<call, pool, atStart, left>>

(* on_complete returns; the consumer asks for the next result. *)
Callback == mode = "list" /\ pc = "handOver" /\ pc' = "collect" /\ UNCHANGED <<call, pool, iterator>>
Resume == mode = "stream" /\ pc = "handOver" /\ pc' = "collect" /\ UNCHANGED <<call, pool, iterator>>

(* on_complete raises, the consumer breaks or closes the generator: either *)
(* leaves the with block, with futures still to come.                      *)
Leave ==
  /\ pc = "handOver"
  /\ pc' = "shutdown"
  /\ left' = TRUE
  /\ UNCHANGED <<call, pool, early, handed, results, atStart>>

Exhausted ==
  /\ pc = "collect"
  /\ Len(results) = count
  /\ pc' = "shutdown"
  /\ UNCHANGED <<call, pool, iterator>>

(* Seeded fault: the pool is left without waiting for its threads.         *)
ThreadsDoneNoWait == TRUE

(* Leaving the with block waits for all that was submitted. *)
ThreadsDone == queue = << >> /\ running = {}

Shutdown ==
  /\ pc = "shutdown"
  /\ ThreadsDone
  /\ pc' = "ended"
  /\ UNCHANGED <<call, pool, iterator>>

Ended == pc = "ended" /\ UNCHANGED vars

Body == NoFiles \/ Submit \/ AsCompleted \/ Collect \/ Exhausted \/ Callback \/ Shutdown
Next ==
  \/ Take \/ (\E f \in Files : Validated(f))
  \/ Body \/ Start \/ Resume \/ Leave \/ Ended

(* Threads and the call's own steps go on, a file's validation and a       *)
(* callback end; a consumer owes nothing: it may never ask for a result.   *)
Fairness ==
  /\ WF_vars(Take)
  /\ \A f \in 1..MaxFiles : WF_vars(Validated(f))
  /\ WF_vars(Body)
  /\ WF_vars(mode = "list" /\ Start)

Spec == Init /\ [][Next]_vars /\ Fairness

-----------------------------------------------------------------------------
(* Properties. *)

FileResult == [file : Files, report : {"passed", "failed", "none"}, error : BOOLEAN]

(* The types of the state; never more files under validation than threads  *)
(* (_parallel.py:80).                                                      *)
TypeOK ==
  /\ queue \in Seq(Files)
  /\ running \subseteq Files /\ Cardinality(running) <= workers
  /\ outcome \in [Files -> Outcome \cup {"pending"}]
  /\ completed \in Seq(Files)
  /\ early \subseteq Files /\ handed \in 0..count /\ atStart \in 0..handed
  /\ results \in Seq(FileResult) /\ left \in BOOLEAN
  /\ pc \in {"called", "submit", "collect", "handOver", "shutdown", "ended"}

(* Each file is handed out at most once, with the outcome it had: an error *)
(* of one file costs no other its result, and a call that was not left     *)
(* ends with all of them. They come in completion order (_parallel.py:59), *)
(* but for those that were done before as_completed was called, which come *)
(* in any order. After the call, left or not, no thread works on.          *)
PlaceOf(f) == CHOOSE i \in DOMAIN completed : completed[i] = f
ResultsAreThoseOfTheFiles ==
  /\ \A i, j \in DOMAIN results : results[i].file = results[j].file => i = j
  /\ \A i \in DOMAIN results :
       LET f == results[i].file
       IN /\ outcome[f] # "pending"
          /\ results[i].error <=> outcome[f] = "error"
          /\ ~results[i].error => results[i].report = outcome[f]
  /\ \A i, j \in DOMAIN results :
       i < j /\ PlaceOf(results[j].file) < PlaceOf(results[i].file) => PlaceOf(results[i].file) <= atStart
  /\ pc = "ended" => queue = << >> /\ running = {}
  /\ pc = "ended" /\ ~left => Len(results) = count

(* A call that is not left validates all its files, also for a consumer    *)
(* that does not ask for the next result. One that is left ends, with all  *)
(* its files validated or, as _parallel.py:110-118 would have it, with     *)
(* fewer, and execute_files ends whatever its callback does.               *)
CallsEnd ==
  /\ pc = "submit" ~> left \/ \A f \in Files : outcome[f] # "pending"
  /\ pc = "shutdown" ~> pc = "ended"
  /\ mode = "list" ~> pc = "ended"
=============================================================================
