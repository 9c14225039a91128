------------------------- MODULE LineageProofs -------------------------
(***************************************************************************)
(* The lineage store, for any processes, warehouses and lists of changes,  *)
(* and wherever a process fails: it is well typed, its versions are        *)
(* numbered without a gap, no change is without its version, each process  *)
(* gets numbers that increase, and a save that has its number to itself is *)
(* stored whole. The lineage graph, for any tables and edges: the chain of *)
(* an impact is what is reachable, and each edge is followed once.         *)
(***************************************************************************)
EXTENDS LineageStore, LineageGraph, EnumerationProofs

(* There is a latest version: the read of it returns a row or none.        *)
Bounded == \E b \in Nat : \A v \in DOMAIN versions : v[2] <= b

(* A process about to insert a version knows the one before it is there.   *)
PredecessorStored ==
  \A p \in Writers : pc[p] = "version" =>
    job[p].number = 1 \/ <<job[p].warehouse, job[p].number - 1>> \in DOMAIN versions

(* What a save that got past its first insert may count on.                *)
StoredVersionsStay ==
  /\ \A a \in attempts : a.returned => a.stored
  /\ \A a \in attempts : a.stored => Key(a) \in DOMAIN versions
  /\ \A p \in Writers : pc[p] = "changes" => job[p].stored

(* A process has one save under way, the last it began.                    *)
JobIsLatest ==
  /\ \A a \in attempts : a.n <= begun[a.writer]
  /\ \A p \in Writers : pc[p] # "idle" =>
       job[p].writer = p /\ job[p].n = begun[p] /\ ~job[p].returned

IInv ==
  /\ TypeOK
  /\ Bounded
  /\ PredecessorStored
  /\ StoredVersionsStay
  /\ JobIsLatest
  /\ NumbersAreDense
  /\ ChangesHaveVersions
  /\ WriterNumbersIncrease

USE DEF vars

-----------------------------------------------------------------------------
(* Lemmas. *)

(* A non-empty set of naturals with an upper bound has a greatest element: *)
(* the least of its upper bounds.                                          *)
LEMMA GreatestBelow ==
  ASSUME NEW S \in SUBSET Nat, S # {}, NEW b \in Nat, \A m \in S : m <= b
  PROVE  \E x \in S : \A m \in S : m <= x
<1> DEFINE T == {u \in Nat : \A m \in S : m <= u}
           R == OpToRel(<, Nat)
<1>1. \A x, y \in Nat : <<x, y>> \in R <=> x < y
  BY DEF OpToRel
<1>2. PICK x \in T : \A y \in T : ~(<<y, x>> \in R)
  <2>1. T # {} /\ T \subseteq Nat
    OBVIOUS
  <2>2. IsWellFoundedOn(R, Nat)
    BY NatLessThanWellFounded
  <2> HIDE DEF T, R
  <2>3. QED
    BY <2>1, <2>2, WFMin
<1>3. \A y \in T : ~(y < x)
  BY <1>1, <1>2
<1>4. x \in S
  <2>1. SUFFICES ASSUME x \notin S PROVE FALSE
    OBVIOUS
  <2>2. \A m \in S : m <= x - 1
    BY <2>1
  <2>3. x - 1 \in T
    <3>1. PICK m \in S : m <= x
      OBVIOUS
    <3>2. x - 1 \in Nat
      BY <2>1, <3>1
    <3>3. QED
      BY <2>2, <3>2
  <2>4. QED
    BY <2>3, <1>3
<1>5. QED
  BY <1>4

(* NextNumber is past every version of the warehouse, and follows one.     *)
LEMMA NextNumberFollows ==
  ASSUME TypeOK, Bounded, NEW w \in Warehouses
  PROVE  /\ NextNumber(w) \in Nat \ {0}
         /\ \A m \in NumbersOf(w) : m < NextNumber(w)
         /\ NextNumber(w) = 1 \/ <<w, NextNumber(w) - 1>> \in DOMAIN versions
<1> DEFINE S == NumbersOf(w) \cup {0}
           greatest == CHOOSE n \in S : \A m \in NumbersOf(w) : m <= n
<1>1. ASSUME NEW m \in NumbersOf(w) PROVE m \in Nat /\ <<w, m>> \in DOMAIN versions
  <2>1. PICK v \in DOMAIN versions : v[1] = w /\ v[2] = m
    BY DEF NumbersOf
  <2>2. v \in Warehouses \X (Nat \ {0})
    BY DEF TypeOK
  <2>3. v = <<v[1], v[2]>> /\ v[2] \in Nat
    BY <2>2
  <2>4. QED
    BY <2>1, <2>3
<1>2. NumbersOf(w) \subseteq Nat
  BY <1>1, Zenon
<1>3. PICK b \in Nat : \A m \in S : m <= b
  BY DEF Bounded, NumbersOf
<1>4. \E x \in S : \A m \in S : m <= x
  <2>1. S \in SUBSET Nat
    BY <1>2
  <2>2. S # {}
    OBVIOUS
  <2>3. QED
    BY <1>3, <2>1, <2>2, GreatestBelow
<1>5. greatest \in S /\ \A m \in NumbersOf(w) : m <= greatest
  BY <1>4
<1>6. NextNumber(w) = 1 + greatest
  BY DEF NextNumber
<1> HIDE DEF greatest
<1>7. greatest \in Nat
  BY <1>2, <1>5
<1>8. greatest = 0 \/ <<w, greatest>> \in DOMAIN versions
  BY <1>1, <1>5
<1>9. \A m \in NumbersOf(w) : m < 1 + greatest
  BY <1>2, <1>5, <1>7
<1>10. (1 + greatest) - 1 = greatest /\ 1 + greatest \in Nat \ {0}
  BY <1>7
<1>11. QED
  BY <1>6, <1>7, <1>8, <1>9, <1>10

(* The severity of a version is one of its changes', or none.              *)
LEMMA MaxSeverityType ==
  ASSUME NEW list \in ChangeLists
  PROVE  MaxSeverity(list) \in Severities
<1> DEFINE S == {list[i].severity : i \in DOMAIN list} \cup {"none"}
           Ranks == {SeverityRank[s] : s \in S}
<1>1. \A i \in DOMAIN list : list[i].severity \in Severities
  BY ListsAssumption, ChangesAssumption
<1>2. \A s \in Severities : SeverityRank[s] \in 0..3
  BY DEF Severities, SeverityRank
<1>3. S \subseteq Severities
  BY <1>1 DEF Severities
<1>4. \E x \in Ranks : \A m \in Ranks : m <= x
  <2>1. Ranks \in SUBSET Nat /\ \A m \in Ranks : m <= 3
    BY <1>2, <1>3
  <2>2. Ranks # {}
    OBVIOUS
  <2> HIDE DEF Ranks
  <2>3. QED
    BY <2>1, <2>2, GreatestBelow
<1>5. PICK s \in S : \A t \in S : SeverityRank[t] <= SeverityRank[s]
  BY <1>4
<1>6. \A i \in DOMAIN list : list[i].severity \in S
  OBVIOUS
<1>7. MaxSeverity(list) \in S
  <2> HIDE DEF Ranks
  <2>1. \E u \in S : \A i \in DOMAIN list : SeverityRank[list[i].severity] <= SeverityRank[u]
    BY <1>5, <1>6
  <2>2. QED
    BY <2>1 DEF MaxSeverity
<1>8. QED
  BY <1>3, <1>7

(* An attempt is a record with more fields than NoJob has.                 *)
LEMMA AttemptIsAJob ==
  ASSUME NEW a \in Attempts
  PROVE  a # NoJob
<1>1. "n" \in DOMAIN a /\ "n" \notin DOMAIN NoJob
  BY DEF Attempts, NoJob
<1>2. QED
  BY <1>1

(* Outside its idle state a process has an attempt in hand.                *)
LEMMA JobType ==
  ASSUME TypeOK, NEW p \in Writers, pc[p] # "idle"
  PROVE  job[p] \in Attempts /\ job[p] \in attempts
BY DEF TypeOK

-----------------------------------------------------------------------------
(* The invariant holds initially and every step preserves it. *)

LEMMA InitIInv == Init => IInv
<1> SUFFICES ASSUME Init PROVE IInv
  OBVIOUS
<1>1. DOMAIN versions = {} /\ DOMAIN changes = {} /\ attempts = {}
  BY DEF Init
<1>2. TypeOK
  BY <1>1, SavesAssumption DEF Init, TypeOK
<1>3. Bounded
  <2>1. 0 \in Nat /\ \A v \in DOMAIN versions : v[2] <= 0
    BY <1>1
  <2>2. QED
    BY <2>1 DEF Bounded
<1>4. PredecessorStored /\ JobIsLatest
  BY <1>1 DEF Init, PredecessorStored, JobIsLatest
<1>5. StoredVersionsStay
  BY <1>1 DEF Init, StoredVersionsStay
<1>6. NumbersAreDense /\ ChangesHaveVersions /\ WriterNumbersIncrease
  BY <1>1 DEF NumbersAreDense, ChangesHaveVersions, WriterNumbersIncrease
<1>7. QED
  BY <1>2, <1>3, <1>4, <1>5, <1>6 DEF IInv

LEMMA BeginSaveStep ==
  ASSUME IInv, NEW p \in Writers, BeginSave(p)
  PROVE  IInv'
<1>1. PICK w \in Warehouses, list \in ChangeLists :
        LET a == Attempt(p, begun[p] + 1, w, NextNumber(w), list)
        IN  /\ job' = [job EXCEPT ![p] = a]
            /\ attempts' = attempts \cup {a}
  BY DEF BeginSave
<1> DEFINE a == Attempt(p, begun[p] + 1, w, NextNumber(w), list)
<1>2. /\ NextNumber(w) \in Nat \ {0}
      /\ \A m \in NumbersOf(w) : m < NextNumber(w)
      /\ NextNumber(w) = 1 \/ <<w, NextNumber(w) - 1>> \in DOMAIN versions
  BY NextNumberFollows DEF IInv
<1>3. begun[p] \in 0..MaxSaves /\ begun[p] + 1 \in 0..MaxSaves /\ begun[p] + 1 \in Nat \ {0}
  BY SavesAssumption DEF BeginSave, IInv, TypeOK
<1>4. /\ a \in Attempts
      /\ a.writer = p /\ a.n = begun[p] + 1 /\ a.warehouse = w /\ a.number = NextNumber(w)
      /\ a.list = list /\ ~a.stored /\ ~a.returned
  BY <1>2, <1>3 DEF Attempt, Attempts
<1>5. a # NoJob
  BY <1>4, AttemptIsAJob
<1>6. Len(list) \in Nat
  BY ListsAssumption
<1> HIDE DEF a
<1>7. job' = [job EXCEPT ![p] = a] /\ attempts' = attempts \cup {a}
  BY <1>1 DEF a
<1>8. /\ UNCHANGED <<versions, changes>>
      /\ pc' = [pc EXCEPT ![p] = "version"]
      /\ saved' = [saved EXCEPT ![p] = 0]
      /\ begun' = [begun EXCEPT ![p] = @ + 1]
  BY DEF BeginSave
<1>9. TypeOK'
  <2>1. attempts' \subseteq Attempts /\ job' \in [Writers -> Attempts \cup {NoJob}]
    BY <1>4, <1>7 DEF IInv, TypeOK
  <2>2. /\ pc' \in [Writers -> {"idle", "version", "changes"}]
        /\ begun' \in [Writers -> 0..MaxSaves]
        /\ saved' \in [Writers -> Nat]
    BY <1>3, <1>8 DEF IInv, TypeOK
  <2>3. ASSUME NEW q \in Writers
        PROVE  /\ pc'[q] = "idle" <=> job'[q] = NoJob
               /\ pc'[q] # "idle" => job'[q] \in attempts' /\ saved'[q] <= Len(job'[q].list)
    <3>1. CASE q = p
      BY <1>4, <1>5, <1>6, <1>7, <1>8, <3>1 DEF IInv, TypeOK
    <3>2. CASE q # p
      BY <1>7, <1>8, <3>2 DEF IInv, TypeOK
    <3>3. QED
      BY <3>1, <3>2
  <2>4. QED
    BY <1>8, <2>1, <2>2, <2>3 DEF IInv, TypeOK
<1>10. Bounded' /\ NumbersAreDense' /\ ChangesHaveVersions'
  BY <1>8 DEF IInv, Bounded, NumbersAreDense, ChangesHaveVersions
<1>11. PredecessorStored'
  BY <1>2, <1>4, <1>7, <1>8 DEF IInv, TypeOK, PredecessorStored
<1>12. StoredVersionsStay'
  BY <1>4, <1>7, <1>8 DEF IInv, TypeOK, StoredVersionsStay, Key
<1>13. JobIsLatest'
  <2>1. ASSUME NEW b \in attempts' PROVE b.n <= begun'[b.writer]
    <3>1. CASE b = a
      BY <1>3, <1>4, <1>8, <3>1 DEF IInv, TypeOK
    <3>2. CASE b \in attempts
      BY <1>3, <1>8, <3>2 DEF IInv, TypeOK, JobIsLatest, Attempts
    <3>3. QED
      BY <1>7, <3>1, <3>2
  <2>2. QED
    BY <1>4, <1>7, <1>8, <2>1 DEF IInv, TypeOK, JobIsLatest
<1>14. WriterNumbersIncrease'
  <2>1. SUFFICES ASSUME NEW x \in attempts', NEW y \in attempts', x.returned, x.writer = y.writer,
                        x.warehouse = y.warehouse, x.n < y.n
                 PROVE  x.number < y.number
    BY DEF WriterNumbersIncrease
  <2>2. x \in attempts
    BY <1>4, <1>7, <2>1
  <2>3. CASE y = a
    <3>1. Key(x) \in DOMAIN versions /\ Key(x) = <<w, x.number>>
      BY <1>4, <2>1, <2>2, <2>3 DEF IInv, StoredVersionsStay, Key
    <3>2. x.number \in NumbersOf(w)
      BY <3>1 DEF NumbersOf
    <3>3. QED
      BY <1>2, <1>4, <2>3, <3>2
  <2>4. CASE y \in attempts
    BY <2>1, <2>2, <2>4 DEF IInv, WriterNumbersIncrease
  <2>5. QED
    BY <1>7, <2>3, <2>4
<1>15. QED
  BY <1>9, <1>10, <1>11, <1>12, <1>13, <1>14 DEF IInv

(* Storing the version in hand, which its warehouse has room for.          *)
LEMMA SaveVersionStep ==
  ASSUME IInv, NEW p \in Writers, SaveVersion(p)
  PROVE  IInv'
<1> DEFINE j == job[p]
           a == [j EXCEPT !.stored = TRUE]
<1>1. /\ j \in Attempts /\ j \in attempts
      /\ j.writer = p /\ j.n = begun[p] /\ ~j.returned
  BY JobType DEF IInv, SaveVersion, JobIsLatest
<1>2. /\ a \in Attempts
      /\ a.writer = p /\ a.n = j.n /\ a.warehouse = j.warehouse /\ a.number = j.number
      /\ a.list = j.list /\ a.stored /\ ~a.returned
  BY <1>1 DEF Attempts
<1>3. a # NoJob
  BY <1>2, AttemptIsAJob
<1>4. DOMAIN versions' = DOMAIN versions \cup {<<j.warehouse, j.number>>}
  BY DEF SaveVersion, Set, Key
<1>5. j.warehouse \in Warehouses /\ j.number \in Nat \ {0} /\ j.list \in ChangeLists
  BY <1>1 DEF Attempts
<1>6. ASSUME NEW v \in DOMAIN versions' PROVE versions'[v].severity \in Severities
  <2>1. Row(j).severity \in Severities
    BY <1>5, MaxSeverityType DEF Row
  <2>2. versions'[v] = Row(j) \/ (v \in DOMAIN versions /\ versions'[v] = versions[v])
    BY DEF SaveVersion, Set
  <2>3. QED
    BY <2>1, <2>2 DEF IInv, TypeOK
<1>7. Key(a) = <<j.warehouse, j.number>> /\ Key(j) = <<j.warehouse, j.number>>
  BY <1>2 DEF Key
<1>8. /\ job' = [job EXCEPT ![p] = a]
      /\ attempts' = (attempts \ {j}) \cup {a}
      /\ pc[p] = "version" /\ pc' = [pc EXCEPT ![p] = "changes"]
      /\ UNCHANGED <<changes, saved, begun>>
  BY DEF SaveVersion
<1> HIDE DEF a
<1>9. \A q \in Writers : q # p /\ pc[q] # "idle" => job[q] # j
  BY <1>1 DEF IInv, JobIsLatest
<1>10. TypeOK'
  <2>1. DOMAIN versions' \subseteq Warehouses \X (Nat \ {0})
    BY <1>4, <1>5 DEF IInv, TypeOK
  <2>2. attempts' \subseteq Attempts /\ job' \in [Writers -> Attempts \cup {NoJob}]
    BY <1>2, <1>8 DEF IInv, TypeOK
  <2>3. pc' \in [Writers -> {"idle", "version", "changes"}]
    BY <1>8 DEF IInv, TypeOK
  <2>4. ASSUME NEW q \in Writers
        PROVE  /\ pc'[q] = "idle" <=> job'[q] = NoJob
               /\ pc'[q] # "idle" => job'[q] \in attempts' /\ saved'[q] <= Len(job'[q].list)
    <3>1. CASE q = p
      BY <1>2, <1>3, <1>8, <3>1 DEF IInv, TypeOK
    <3>2. CASE q # p
      BY <1>8, <1>9, <3>2 DEF IInv, TypeOK
    <3>3. QED
      BY <3>1, <3>2
  <2>5. QED
    BY <1>6, <1>8, <2>1, <2>2, <2>3, <2>4 DEF IInv, TypeOK
<1>11. Bounded'
  <2>1. PICK b \in Nat : \A v \in DOMAIN versions : v[2] <= b
    BY DEF IInv, Bounded
  <2>2. b + j.number \in Nat /\ b <= b + j.number /\ j.number <= b + j.number
    BY <1>5
  <2>3. ASSUME NEW v \in DOMAIN versions PROVE v[2] <= b + j.number
    <3>1. v[2] \in Nat /\ v[2] <= b
      BY <2>1 DEF IInv, TypeOK
    <3>2. QED
      BY <1>5, <3>1
  <2>4. \A v \in DOMAIN versions' : v[2] <= b + j.number
    BY <1>4, <2>2, <2>3
  <2>5. QED
    BY <2>2, <2>4 DEF Bounded
<1>12. PredecessorStored'
  BY <1>4, <1>8 DEF IInv, TypeOK, PredecessorStored
<1>13. StoredVersionsStay'
  <2>1. \A x \in attempts' : x.returned => x.stored
    BY <1>2, <1>8 DEF IInv, StoredVersionsStay
  <2>2. \A x \in attempts' : x.stored => Key(x) \in DOMAIN versions'
    BY <1>4, <1>7, <1>8 DEF IInv, StoredVersionsStay
  <2>3. \A q \in Writers : pc'[q] = "changes" => job'[q].stored
    BY <1>2, <1>8 DEF IInv, TypeOK, StoredVersionsStay
  <2>4. QED
    BY <2>1, <2>2, <2>3 DEF StoredVersionsStay
<1>14. JobIsLatest'
  <2>1. \A x \in attempts' : x.n <= begun'[x.writer]
    BY <1>1, <1>2, <1>8 DEF IInv, JobIsLatest
  <2>2. \A q \in Writers : pc'[q] # "idle" =>
           job'[q].writer = q /\ job'[q].n = begun'[q] /\ ~job'[q].returned
    BY <1>1, <1>2, <1>8 DEF IInv, TypeOK, JobIsLatest
  <2>3. QED
    BY <2>1, <2>2 DEF JobIsLatest
<1>15. NumbersAreDense'
  <2>1. SUFFICES ASSUME NEW v \in DOMAIN versions', NEW k \in 1..v[2]
                 PROVE  <<v[1], k>> \in DOMAIN versions'
    BY DEF NumbersAreDense
  <2>2. CASE v \in DOMAIN versions
    BY <1>4, <2>2 DEF IInv, NumbersAreDense
  <2>3. CASE v = <<j.warehouse, j.number>>
    <3>1. v[1] = j.warehouse /\ v[2] = j.number
      BY <2>3
    <3>2. CASE k = j.number
      BY <1>4, <3>1, <3>2
    <3>3. CASE k # j.number
      <4>1. k \in 1..(j.number - 1) /\ j.number # 1
        BY <1>5, <3>1, <3>3
      <4>2. <<j.warehouse, j.number - 1>> \in DOMAIN versions
        BY <1>8, <4>1 DEF IInv, PredecessorStored
      <4>3. <<j.warehouse, k>> \in DOMAIN versions
        BY <4>1, <4>2 DEF IInv, NumbersAreDense
      <4>4. QED
        BY <1>4, <3>1, <4>3
    <3>4. QED
      BY <3>2, <3>3
  <2>4. QED
    BY <1>4, <2>2, <2>3
<1>16. ChangesHaveVersions'
  BY <1>4, <1>8 DEF IInv, ChangesHaveVersions
<1>17. WriterNumbersIncrease'
  BY <1>1, <1>2, <1>8 DEF IInv, WriterNumbersIncrease
<1>18. QED
  BY <1>10, <1>11, <1>12, <1>13, <1>14, <1>15, <1>16, <1>17 DEF IInv

LEMMA SaveChangeStep ==
  ASSUME IInv, NEW p \in Writers, SaveChange(p)
  PROVE  IInv'
<1>1. /\ job[p] \in Attempts /\ job[p] \in attempts /\ job[p].stored
  BY JobType DEF IInv, SaveChange, StoredVersionsStay
<1>2. Key(job[p]) \in DOMAIN versions
  BY <1>1 DEF IInv, StoredVersionsStay
<1>3. ChangesHaveVersions'
  <2>1. ASSUME NEW k \in DOMAIN changes'
        PROVE  changes'[k].version = Key(job[p]) \/ (k \in DOMAIN changes /\ changes'[k] = changes[k])
    BY DEF SaveChange, Set
  <2>2. QED
    BY <1>2, <2>1 DEF SaveChange, IInv, ChangesHaveVersions
<1>4. Len(job[p].list) \in Nat
  BY <1>1, ListsAssumption DEF Attempts
<1>5. TypeOK'
  <2>1. saved' \in [Writers -> Nat]
    BY DEF SaveChange, IInv, TypeOK
  <2>2. \A q \in Writers : pc[q] # "idle" => saved'[q] <= Len(job[q].list)
    BY <1>4 DEF SaveChange, IInv, TypeOK
  <2>3. QED
    BY <2>1, <2>2 DEF SaveChange, IInv, TypeOK
<1>6. QED
  BY <1>3, <1>5 DEF SaveChange, IInv, Bounded, PredecessorStored, StoredVersionsStay, JobIsLatest,
                    NumbersAreDense, WriterNumbersIncrease

(* Ending a save, with or without returning it, leaves the store alone.    *)
LEMMA ForgetStep ==
  ASSUME IInv, NEW p \in Writers, pc[p] # "idle", Forget(p),
         NEW a, a = [job[p] EXCEPT !.returned = TRUE],
         attempts' = attempts \/ attempts' = (attempts \ {job[p]}) \cup {a},
         attempts' # attempts => job[p].stored
  PROVE  IInv'
<1> DEFINE j == job[p]
<1>1. /\ j \in Attempts /\ j \in attempts
      /\ j.writer = p /\ j.n = begun[p]
  BY JobType DEF IInv, JobIsLatest
<1>2. /\ a \in Attempts
      /\ a.writer = p /\ a.n = j.n /\ a.warehouse = j.warehouse /\ a.number = j.number
      /\ a.stored = j.stored
  BY <1>1 DEF Attempts
<1>3. Key(a) = Key(j)
  BY <1>2 DEF Key
<1>4. /\ pc' = [pc EXCEPT ![p] = "idle"]
      /\ job' = [job EXCEPT ![p] = NoJob]
      /\ saved' = [saved EXCEPT ![p] = 0]
      /\ UNCHANGED <<versions, changes, begun>>
  BY DEF Forget
<1>5. \A q \in Writers : q # p /\ pc[q] # "idle" => job[q] # j
  BY <1>1 DEF IInv, JobIsLatest
<1>6. TypeOK'
  <2>1. attempts' \subseteq Attempts /\ job' \in [Writers -> Attempts \cup {NoJob}]
    BY <1>2, <1>4 DEF IInv, TypeOK
  <2>2. pc' \in [Writers -> {"idle", "version", "changes"}] /\ saved' \in [Writers -> Nat]
    BY <1>4 DEF IInv, TypeOK
  <2>3. ASSUME NEW q \in Writers
        PROVE  /\ pc'[q] = "idle" <=> job'[q] = NoJob
               /\ pc'[q] # "idle" => job'[q] \in attempts' /\ saved'[q] <= Len(job'[q].list)
    <3>1. CASE q = p
      BY <1>4, <3>1 DEF IInv, TypeOK
    <3>2. CASE q # p
      BY <1>4, <1>5, <3>2 DEF IInv, TypeOK
    <3>3. QED
      BY <3>1, <3>2
  <2>4. QED
    BY <1>4, <2>1, <2>2, <2>3 DEF IInv, TypeOK
<1>7. Bounded' /\ NumbersAreDense' /\ ChangesHaveVersions'
  BY <1>4 DEF IInv, Bounded, NumbersAreDense, ChangesHaveVersions
<1>8. PredecessorStored'
  BY <1>4 DEF IInv, TypeOK, PredecessorStored
<1>9. \A x \in attempts' : x \in attempts \/ (x = a /\ j.stored)
  OBVIOUS
<1>10. StoredVersionsStay'
  <2>1. \A x \in attempts' : x.returned => x.stored
    BY <1>2, <1>9 DEF IInv, StoredVersionsStay
  <2>2. \A x \in attempts' : x.stored => Key(x) \in DOMAIN versions'
    BY <1>1, <1>3, <1>4, <1>9 DEF IInv, StoredVersionsStay
  <2>3. \A q \in Writers : pc'[q] = "changes" => job'[q].stored
    BY <1>4 DEF IInv, TypeOK, StoredVersionsStay
  <2>4. QED
    BY <2>1, <2>2, <2>3 DEF StoredVersionsStay
<1>11. JobIsLatest'
  <2>1. \A x \in attempts' : x.n <= begun'[x.writer]
    BY <1>1, <1>2, <1>4, <1>9 DEF IInv, JobIsLatest
  <2>2. \A q \in Writers : pc'[q] # "idle" =>
           job'[q].writer = q /\ job'[q].n = begun'[q] /\ ~job'[q].returned
    BY <1>4 DEF IInv, TypeOK, JobIsLatest
  <2>3. QED
    BY <2>1, <2>2 DEF JobIsLatest
<1>12. WriterNumbersIncrease'
  <2>1. SUFFICES ASSUME NEW x \in attempts', NEW y \in attempts', x.returned, x.writer = y.writer,
                        x.warehouse = y.warehouse, x.n < y.n
                 PROVE  x.number < y.number
    BY DEF WriterNumbersIncrease
  <2>2. ASSUME NEW z \in attempts' PROVE z.n \in Nat /\ (z.writer = p => z.n <= j.n)
    BY <1>1, <1>2, <1>9 DEF IInv, TypeOK, JobIsLatest, Attempts
  <2>3. CASE x = a
    <3>1. y.writer = p /\ x.n = j.n
      BY <1>2, <2>1, <2>3
    <3>2. x.n \in Nat /\ y.n \in Nat /\ y.n <= j.n
      BY <2>2, <3>1
    <3>3. ~(x.n < y.n)
      BY <3>1, <3>2
    <3>4. QED
      BY <2>1, <3>3
  <2>4. CASE x \in attempts
    <3>1. CASE y \in attempts
      BY <2>1, <2>4, <3>1 DEF IInv, WriterNumbersIncrease
    <3>2. CASE y = a
      <4>1. x.returned /\ x.writer = j.writer /\ x.warehouse = j.warehouse /\ x.n < j.n
        BY <1>1, <1>2, <2>1, <3>2
      <4>2. x.number < j.number
        BY <1>1, <2>4, <4>1 DEF IInv, WriterNumbersIncrease
      <4>3. QED
        BY <1>2, <3>2, <4>2
    <3>3. QED
      BY <1>9, <3>1, <3>2
  <2>5. QED
    BY <1>9, <2>3, <2>4
<1>13. QED
  BY <1>6, <1>7, <1>8, <1>10, <1>11, <1>12 DEF IInv

LEMMA StepIInv == IInv /\ [Next]_vars => IInv'
<1> SUFFICES ASSUME IInv, [Next]_vars PROVE IInv'
  OBVIOUS
<1>1. ASSUME NEW p \in Writers, BeginSave(p) PROVE IInv'
  BY <1>1, BeginSaveStep
<1>2. ASSUME NEW p \in Writers, SaveVersion(p) PROVE IInv'
  BY <1>2, SaveVersionStep
<1>3. ASSUME NEW p \in Writers, SaveChange(p) PROVE IInv'
  BY <1>3, SaveChangeStep
<1>4. ASSUME NEW p \in Writers, Return(p) PROVE IInv'
  <2> DEFINE a == [job[p] EXCEPT !.returned = TRUE]
  <2>1. pc[p] = "changes" /\ Forget(p) /\ attempts' = (attempts \ {job[p]}) \cup {a}
    BY <1>4 DEF Return
  <2>2. job[p].stored
    BY <2>1 DEF IInv, StoredVersionsStay
  <2>3. a = [job[p] EXCEPT !.returned = TRUE]
    OBVIOUS
  <2> HIDE DEF a
  <2>4. QED
    BY <2>1, <2>2, <2>3, ForgetStep
<1>5. ASSUME NEW p \in Writers, Fail(p) PROVE IInv'
  BY <1>5, ForgetStep DEF Fail
<1>6. CASE UNCHANGED vars
  BY <1>6 DEF IInv, TypeOK, Bounded, PredecessorStored, StoredVersionsStay, JobIsLatest, NumbersAreDense,
              ChangesHaveVersions, WriterNumbersIncrease
<1>7. QED
  BY <1>1, <1>2, <1>3, <1>4, <1>5, <1>6 DEF Next, Finished

-----------------------------------------------------------------------------
(* The results. *)

(* Everything the processes rely on holds in every state of the store      *)
(* (storage.rs:108-283, _lineage.py:290-340).                              *)
THEOREM Invariance == Spec => []IInv
BY InitIInv, StepIInv, PTL DEF Spec

(* The store is well typed.                                                *)
THEOREM TypeCorrect == Spec => []TypeOK
<1>1. IInv => TypeOK
  BY DEF IInv
<1>2. QED
  BY Invariance, <1>1, PTL

(* Whatever number of processes race for a number or fail, the versions of *)
(* a warehouse are numbered from 1 without a gap (_lineage.py:293-296).    *)
THEOREM VersionsAreDense == Spec => []NumbersAreDense
<1>1. IInv => NumbersAreDense
  BY DEF IInv
<1>2. QED
  BY Invariance, <1>1, PTL

(* No failure leaves a change without its version (storage.rs:94).         *)
THEOREM NoChangeIsOrphaned == Spec => []ChangesHaveVersions
<1>1. IInv => ChangesHaveVersions
  BY DEF IInv
<1>2. QED
  BY Invariance, <1>1, PTL

(* The number a process gets is past every one its saves of the warehouse  *)
(* returned before (_lineage.py:293-296).                                  *)
THEOREM NumbersOfAWriterIncrease == Spec => []WriterNumbersIncrease
<1>1. IInv => WriterNumbersIncrease
  BY DEF IInv
<1>2. QED
  BY Invariance, <1>1, PTL

-----------------------------------------------------------------------------
(* A save with its number to itself is stored whole. *)

(* No later change of the first n has the table and the type of the i-th.  *)
LastOfItsKind(list, n, i) ==
  \A k \in (i + 1)..n : list[k].source # list[i].source \/ list[k].type # list[i].type

(* Some other save in `saves` stored its version under the number of a.    *)
SharesNumber(saves, a) == \E b \in saves : b.stored /\ Key(b) = Key(a) /\ <<b.writer, b.n>> # <<a.writer, a.n>>

(* The tables have version a, the last of each kind of its first n changes,  *)
(* and no other changes of it.                                             *)
HasRow(vs, a) == Key(a) \in DOMAIN vs /\ vs[Key(a)] = Row(a)
HasOnly(cs, a, n) ==
  \A k \in DOMAIN cs : cs[k].version = Key(a) =>
    \E i \in 1..n : LastOfItsKind(a.list, n, i) /\ cs[k].change = a.list[i] /\ k = ChangeKey(a, a.list[i])
HasAll(cs, a, n) ==
  \A i \in 1..n : LastOfItsKind(a.list, n, i) =>
    /\ ChangeKey(a, a.list[i]) \in DOMAIN cs
    /\ cs[ChangeKey(a, a.list[i])] = [version |-> Key(a), change |-> a.list[i]]
Holds(vs, cs, a, n) == HasRow(vs, a) /\ HasOnly(cs, a, n) /\ HasAll(cs, a, n)

(* A save is named by its process and its count.                           *)
Identified == \A a, b \in attempts : a.writer = b.writer /\ a.n = b.n => a = b

(* Changes belong to stored saves, and a save stores its version first.    *)
Owned ==
  /\ \A k \in DOMAIN changes : \E b \in attempts : b.stored /\ changes[k].version = Key(b)
  /\ \A p \in Writers : pc[p] = "version" => ~job[p].stored /\ saved[p] = 0

JobsWhole ==
  \A p \in Writers :
    pc[p] = "changes" /\ ~SharesNumber(attempts, job[p]) => Holds(versions, changes, job[p], saved[p])
ReturnedWhole ==
  \A a \in attempts :
    a.returned /\ ~SharesNumber(attempts, a) => Holds(versions, changes, a, Len(a.list))

Whole == Identified /\ Owned /\ JobsWhole /\ ReturnedWhole

(* What is stored stays stored, so a number contended once stays so.       *)
LEMMA StoredStays ==
  ASSUME IInv, [Next]_vars
  PROVE  \A b \in attempts : b.stored =>
           \E c \in attempts' : c.stored /\ c.writer = b.writer /\ c.n = b.n /\ Key(c) = Key(b)
<1>1. ASSUME NEW p \in Writers, NEW a, pc[p] # "idle", attempts' = (attempts \ {job[p]}) \cup {a},
             \/ a = [job[p] EXCEPT !.stored = TRUE]
             \/ a = [job[p] EXCEPT !.returned = TRUE]
      PROVE  \A b \in attempts : b.stored =>
               \E c \in attempts' : c.stored /\ c.writer = b.writer /\ c.n = b.n /\ Key(c) = Key(b)
  <2>1. job[p] \in Attempts
    BY <1>1, JobType DEF IInv
  <2>2. /\ a.writer = job[p].writer /\ a.n = job[p].n
        /\ a.warehouse = job[p].warehouse /\ a.number = job[p].number
        /\ job[p].stored => a.stored
    BY <1>1, <2>1 DEF Attempts
  <2>3. Key(a) = Key(job[p])
    BY <2>2 DEF Key
  <2>4. QED
    BY <1>1, <2>2, <2>3
<1>2. ASSUME NEW p \in Writers, SaveVersion(p)
      PROVE  \A b \in attempts : b.stored =>
               \E c \in attempts' : c.stored /\ c.writer = b.writer /\ c.n = b.n /\ Key(c) = Key(b)
  BY <1>1, <1>2 DEF SaveVersion
<1>3. ASSUME NEW p \in Writers, Return(p)
      PROVE  \A b \in attempts : b.stored =>
               \E c \in attempts' : c.stored /\ c.writer = b.writer /\ c.n = b.n /\ Key(c) = Key(b)
  BY <1>1, <1>3 DEF Return
<1>4. CASE \E p \in Writers : BeginSave(p) \/ SaveChange(p) \/ Fail(p)
  <2>1. attempts \subseteq attempts'
    BY <1>4 DEF BeginSave, SaveChange, Fail
  <2>2. QED
    BY <2>1
<1>5. CASE UNCHANGED vars
  BY <1>5
<1>6. QED
  BY <1>2, <1>3, <1>4, <1>5 DEF Next, Finished

(* Two saves that share a number do so from then on.                       *)
LEMMA SharedStays ==
  ASSUME IInv, [Next]_vars, NEW a, SharesNumber(attempts, a)
  PROVE  SharesNumber(attempts', a)
<1>1. PICK b \in attempts : b.stored /\ Key(b) = Key(a) /\ <<b.writer, b.n>> # <<a.writer, a.n>>
  BY DEF SharesNumber
<1>2. PICK c \in attempts' : c.stored /\ c.writer = b.writer /\ c.n = b.n /\ Key(c) = Key(b)
  BY <1>1, StoredStays
<1>3. QED
  BY <1>1, <1>2 DEF SharesNumber

(* Begun but not stored, a save changes nothing of the others.             *)
LEMMA BeginWhole ==
  ASSUME IInv, Whole, NEW p \in Writers, BeginSave(p)
  PROVE  Whole'
<1>1. PICK a :
        /\ job' = [job EXCEPT ![p] = a] /\ attempts' = attempts \cup {a}
        /\ a.writer = p /\ a.n = begun[p] + 1 /\ ~a.stored /\ ~a.returned
  BY DEF BeginSave, Attempt
<1>2. /\ UNCHANGED <<versions, changes>> /\ pc' = [pc EXCEPT ![p] = "version"]
      /\ saved' = [saved EXCEPT ![p] = 0]
  BY DEF BeginSave
<1>3. Identified'
  <2>1. \A b \in attempts : b.writer = p => b.n <= begun[p] /\ b.n \in Nat
    BY DEF IInv, JobIsLatest, TypeOK, Attempts
  <2>2. begun[p] \in Nat
    BY SavesAssumption DEF IInv, TypeOK
  <2>3. \A b \in attempts : b.writer = a.writer => b.n # a.n
    BY <1>1, <2>1, <2>2
  <2>4. QED
    BY <1>1, <2>3 DEF Whole, Identified
<1>4. Owned'
  <2>1. job \in [Writers -> Attempts \cup {NoJob}] /\ saved \in [Writers -> Nat] /\ pc \in [Writers -> {"idle", "version", "changes"}]
    BY DEF IInv, TypeOK
  <2>2. QED
    BY <1>1, <1>2, <2>1 DEF Whole, Owned
<1>5. \A x : SharesNumber(attempts, x) => SharesNumber(attempts', x)
  BY <1>1 DEF SharesNumber
<1>6. JobsWhole'
  <2> SUFFICES ASSUME NEW q \in Writers, pc'[q] = "changes", ~SharesNumber(attempts', job'[q])
               PROVE  Holds(versions', changes', job'[q], saved'[q])
    BY DEF JobsWhole
  <2>1. q # p /\ pc[q] = "changes" /\ job'[q] = job[q] /\ saved'[q] = saved[q]
    BY <1>1, <1>2 DEF IInv, TypeOK
  <2>2. QED
    BY <1>2, <1>5, <2>1 DEF Whole, JobsWhole
<1>7. ReturnedWhole'
  BY <1>1, <1>2, <1>5 DEF Whole, ReturnedWhole
<1>8. QED
  BY <1>3, <1>4, <1>6, <1>7 DEF Whole

(* A version whose number another save takes over is not one's own any     *)
(* more; under a number of one's own there was no change before.           *)
LEMMA SaveVersionWhole ==
  ASSUME IInv, Whole, NEW p \in Writers, SaveVersion(p)
  PROVE  Whole'
<1> DEFINE j == job[p]
           a == [j EXCEPT !.stored = TRUE]
<1>1. j \in Attempts /\ j \in attempts /\ j.writer = p /\ j.n = begun[p] /\ ~j.returned /\ ~j.stored
  BY JobType DEF IInv, SaveVersion, JobIsLatest, Whole, Owned
<1>2. /\ a.writer = j.writer /\ a.n = j.n /\ a.warehouse = j.warehouse /\ a.number = j.number
      /\ a.list = j.list /\ a.stored /\ ~a.returned
  BY <1>1 DEF Attempts
<1>3. Key(a) = Key(j) /\ Row(a) = Row(j)
  BY <1>2 DEF Key, Row
<1>4. /\ job' = [job EXCEPT ![p] = a] /\ attempts' = (attempts \ {j}) \cup {a}
      /\ pc[p] = "version" /\ pc' = [pc EXCEPT ![p] = "changes"]
      /\ UNCHANGED <<changes, saved, begun>>
  BY DEF SaveVersion
<1>5. versions' = Set(versions, Key(j), Row(j))
  BY DEF SaveVersion
<1> HIDE DEF a
<1>6. Key(a) \in DOMAIN versions' /\ versions'[Key(a)] = Row(a)
  BY <1>3, <1>5 DEF Set
<1>7. \A k \in DOMAIN versions : k # Key(a) => k \in DOMAIN versions' /\ versions'[k] = versions[k]
  BY <1>3, <1>5 DEF Set
<1>8. \A x : SharesNumber(attempts, x) => SharesNumber(attempts', x)
  BY SharedStays DEF Next
<1>9. \A x : Key(x) = Key(a) /\ ~SharesNumber(attempts', x) => x.writer = a.writer /\ x.n = a.n
  BY <1>2, <1>4 DEF SharesNumber
<1>10. Identified'
  BY <1>1, <1>2, <1>4 DEF Whole, Identified
<1>11. Owned'
  <2>1. \A k \in DOMAIN changes : \E b \in attempts' : b.stored /\ changes[k].version = Key(b)
    BY <1>1, <1>4 DEF Whole, Owned
  <2>2. QED
    BY <1>4, <2>1 DEF Whole, Owned, IInv, TypeOK
<1>12. ASSUME NEW x, NEW n, Holds(versions, changes, x, n), Key(x) # Key(a)
       PROVE  Holds(versions', changes', x, n)
  BY <1>4, <1>7, <1>12 DEF Holds, HasRow
<1>13. JobsWhole'
  <2> SUFFICES ASSUME NEW q \in Writers, pc'[q] = "changes", ~SharesNumber(attempts', job'[q])
               PROVE  Holds(versions', changes', job'[q], saved'[q])
    BY DEF JobsWhole
  <2>1. CASE q = p
    <3>1. job'[q] = a /\ saved'[q] = saved[p]
      BY <1>4, <2>1 DEF IInv, TypeOK
    <3>2. \A k \in DOMAIN changes : changes[k].version # Key(a)
      <4> SUFFICES ASSUME NEW k \in DOMAIN changes, changes[k].version = Key(a)
                   PROVE  FALSE
        OBVIOUS
      <4>1. PICK b \in attempts : b.stored /\ Key(b) = Key(a)
        BY DEF Whole, Owned
      <4>2. b # j /\ b \in attempts'
        BY <1>1, <1>4, <4>1
      <4>3. b.writer # j.writer \/ b.n # j.n
        BY <1>1, <4>2 DEF Whole, Identified
      <4>4. QED
        BY <1>2, <3>1, <4>1, <4>2, <4>3 DEF SharesNumber
    <3>3. saved[p] = 0
      BY <1>4 DEF Whole, Owned
    <3>4. HasOnly(changes, a, 0) /\ HasAll(changes, a, 0)
      BY <3>2 DEF HasOnly, HasAll
    <3>5. QED
      BY <1>4, <1>6, <3>1, <3>3, <3>4 DEF Holds, HasRow
  <2>2. CASE q # p
    <3>1. pc[q] = "changes" /\ job'[q] = job[q] /\ saved'[q] = saved[q]
      BY <1>4, <2>2 DEF IInv, TypeOK
    <3>2. job[q].writer = q
      BY <3>1 DEF IInv, JobIsLatest
    <3>3. Key(job[q]) # Key(a)
      BY <1>1, <1>2, <1>9, <2>2, <3>1, <3>2
    <3>4. Holds(versions, changes, job[q], saved[q])
      BY <1>8, <3>1 DEF Whole, JobsWhole
    <3>5. QED
      BY <1>12, <3>1, <3>3, <3>4
  <2>3. QED
    BY <2>1, <2>2
<1>14. ReturnedWhole'
  <2> SUFFICES ASSUME NEW x \in attempts', x.returned, ~SharesNumber(attempts', x)
               PROVE  Holds(versions', changes', x, Len(x.list))
    BY DEF ReturnedWhole
  <2>1. x \in attempts /\ x # j
    BY <1>1, <1>2, <1>4
  <2>2. Key(x) # Key(a)
    BY <1>1, <1>2, <1>9, <2>1 DEF Whole, Identified
  <2>3. QED
    BY <1>8, <1>12, <2>1, <2>2 DEF Whole, ReturnedWhole
<1>15. QED
  BY <1>10, <1>11, <1>13, <1>14 DEF Whole

(* One more change of a version: the last of each kind among one more.     *)
LEMMA OneMoreChange ==
  ASSUME NEW cs, NEW a, NEW n \in Nat, HasOnly(cs, a, n), HasAll(cs, a, n),
         NEW ds, ds = Set(cs, ChangeKey(a, a.list[n + 1]), [version |-> Key(a), change |-> a.list[n + 1]])
  PROVE  HasOnly(ds, a, n + 1) /\ HasAll(ds, a, n + 1)
<1> DEFINE c == a.list[n + 1]
           new == ChangeKey(a, c)
           row == [version |-> Key(a), change |-> c]
<1>1. /\ DOMAIN ds = DOMAIN cs \cup {new} /\ ds[new] = row
      /\ \A k \in DOMAIN cs : k # new => ds[k] = cs[k]
  BY DEF Set
<1>2. \A i \in 1..n : LastOfItsKind(a.list, n + 1, i) <=>
        LastOfItsKind(a.list, n, i) /\ (c.source # a.list[i].source \/ c.type # a.list[i].type)
  <2> SUFFICES ASSUME NEW i \in 1..n
               PROVE  LastOfItsKind(a.list, n + 1, i) <=>
                        LastOfItsKind(a.list, n, i) /\ (c.source # a.list[i].source \/ c.type # a.list[i].type)
    OBVIOUS
  <2>1. (i + 1)..(n + 1) = ((i + 1)..n) \cup {n + 1}
    OBVIOUS
  <2>2. QED
    BY <2>1 DEF LastOfItsKind
<1>3. \A i \in 1..n : ChangeKey(a, a.list[i]) # new <=> c.source # a.list[i].source \/ c.type # a.list[i].type
  BY DEF ChangeKey
<1>4. LastOfItsKind(a.list, n + 1, n + 1)
  BY DEF LastOfItsKind
<1>5. 1..(n + 1) = (1..n) \cup {n + 1}
  OBVIOUS
<1> HIDE DEF c, new
<1>6. HasOnly(ds, a, n + 1)
  <2> SUFFICES ASSUME NEW k \in DOMAIN ds, ds[k].version = Key(a)
               PROVE  \E i \in 1..(n + 1) : LastOfItsKind(a.list, n + 1, i) /\ ds[k].change = a.list[i]
                                              /\ k = ChangeKey(a, a.list[i])
    BY DEF HasOnly
  <2>1. CASE k = new
    <3>1. ds[k].change = a.list[n + 1] /\ k = ChangeKey(a, a.list[n + 1])
      BY <1>1, <2>1 DEF c, new
    <3>2. QED
      BY <1>4, <1>5, <3>1
  <2>2. CASE k # new
    <3>1. k \in DOMAIN cs /\ ds[k] = cs[k]
      BY <1>1, <2>2
    <3>2. PICK i \in 1..n : LastOfItsKind(a.list, n, i) /\ cs[k].change = a.list[i] /\ k = ChangeKey(a, a.list[i])
      BY <3>1 DEF HasOnly
    <3>3. LastOfItsKind(a.list, n + 1, i)
      BY <1>2, <1>3, <2>2, <3>2
    <3>4. QED
      BY <1>5, <3>1, <3>2, <3>3
  <2>3. QED
    BY <2>1, <2>2
<1>7. HasAll(ds, a, n + 1)
  <2> SUFFICES ASSUME NEW i \in 1..(n + 1), LastOfItsKind(a.list, n + 1, i)
               PROVE  /\ ChangeKey(a, a.list[i]) \in DOMAIN ds
                      /\ ds[ChangeKey(a, a.list[i])] = [version |-> Key(a), change |-> a.list[i]]
    BY DEF HasAll
  <2>1. CASE i = n + 1
    BY <1>1, <2>1 DEF c, new
  <2>2. CASE i \in 1..n
    <3>1. LastOfItsKind(a.list, n, i) /\ ChangeKey(a, a.list[i]) # new
      BY <1>2, <1>3, <2>2
    <3>2. QED
      BY <1>1, <2>2, <3>1 DEF HasAll
  <2>3. QED
    BY <1>5, <2>1, <2>2
<1>8. QED
  BY <1>6, <1>7

(* A change of another version is no change of this one.                   *)
LEMMA OtherChange ==
  ASSUME NEW cs, NEW a, NEW n, HasOnly(cs, a, n), HasAll(cs, a, n),
         NEW b, NEW c, Key(b) # Key(a),
         NEW ds, ds = Set(cs, ChangeKey(b, c), [version |-> Key(b), change |-> c])
  PROVE  HasOnly(ds, a, n) /\ HasAll(ds, a, n)
<1> DEFINE new == ChangeKey(b, c)
<1>1. /\ DOMAIN ds = DOMAIN cs \cup {new} /\ ds[new].version = Key(b)
      /\ \A k \in DOMAIN cs : k # new => ds[k] = cs[k]
  BY DEF Set
<1>2. \A d : ChangeKey(a, d) # new
  BY DEF ChangeKey
<1> HIDE DEF new
<1>3. \A k \in DOMAIN ds : ds[k].version = Key(a) => k \in DOMAIN cs /\ ds[k] = cs[k]
  BY <1>1
<1>4. HasOnly(ds, a, n)
  BY <1>3 DEF HasOnly
<1>5. HasAll(ds, a, n)
  BY <1>1, <1>2 DEF HasAll
<1>6. QED
  BY <1>4, <1>5

(* The next change of a list is stored as a change of its save.            *)
LEMMA SaveChangeWhole ==
  ASSUME IInv, Whole, NEW p \in Writers, SaveChange(p)
  PROVE  Whole'
<1> DEFINE j == job[p]
           n == saved[p]
           c == j.list[n + 1]
<1>1. /\ pc[p] = "changes" /\ saved' = [saved EXCEPT ![p] = n + 1]
      /\ changes' = Set(changes, ChangeKey(j, c), [version |-> Key(j), change |-> c])
      /\ UNCHANGED <<versions, pc, job, begun, attempts>>
  BY DEF SaveChange
<1>2. j \in attempts /\ j.stored /\ j.writer = p /\ j.n = begun[p] /\ ~j.returned
  BY <1>1, JobType DEF IInv, StoredVersionsStay, JobIsLatest
<1>3. n \in Nat /\ saved \in [Writers -> Nat]
  BY DEF IInv, TypeOK
<1>4. \A x : Key(x) = Key(j) /\ ~SharesNumber(attempts, x) => x.writer = j.writer /\ x.n = j.n
  BY <1>2 DEF SharesNumber
<1>5. Identified'
  BY <1>1 DEF Whole, Identified
<1>6. Owned'
  <2>1. \A k \in DOMAIN changes' : changes'[k].version = Key(j) \/ (k \in DOMAIN changes /\ changes'[k] = changes[k])
    BY <1>1 DEF Set
  <2>2. \A k \in DOMAIN changes' : \E b \in attempts : b.stored /\ changes'[k].version = Key(b)
    BY <1>2, <2>1 DEF Whole, Owned
  <2>3. \A q \in Writers : pc[q] = "version" => saved'[q] = saved[q]
    BY <1>1, <1>3
  <2>4. QED
    BY <1>1, <2>2, <2>3 DEF Whole, Owned
<1>7. ASSUME NEW x, NEW m, Holds(versions, changes, x, m), Key(x) # Key(j)
      PROVE  Holds(versions', changes', x, m)
  BY <1>1, <1>7, OtherChange DEF Holds
<1>8. JobsWhole'
  <2> SUFFICES ASSUME NEW q \in Writers, pc[q] = "changes", ~SharesNumber(attempts, job[q])
               PROVE  Holds(versions', changes', job[q], saved'[q])
    BY <1>1 DEF JobsWhole
  <2>1. Holds(versions, changes, job[q], saved[q])
    BY DEF Whole, JobsWhole
  <2>2. CASE q = p
    <3>1. HasOnly(changes', j, n + 1) /\ HasAll(changes', j, n + 1)
      BY <1>1, <1>3, <2>1, <2>2, OneMoreChange DEF Holds
    <3>2. saved'[q] = n + 1
      BY <1>1, <1>3, <2>2
    <3>3. QED
      BY <1>1, <2>1, <2>2, <3>1, <3>2 DEF Holds
  <2>3. CASE q # p
    <3>1. job[q].writer = q /\ saved'[q] = saved[q]
      BY <1>1, <1>3, <2>3 DEF IInv, JobIsLatest
    <3>2. Key(job[q]) # Key(j)
      BY <1>2, <1>4, <2>3, <3>1
    <3>3. QED
      BY <1>7, <2>1, <3>1, <3>2
  <2>4. QED
    BY <2>2, <2>3
<1>9. ReturnedWhole'
  <2> SUFFICES ASSUME NEW x \in attempts, x.returned, ~SharesNumber(attempts, x)
               PROVE  Holds(versions', changes', x, Len(x.list))
    BY <1>1 DEF ReturnedWhole
  <2>1. Key(x) # Key(j)
    BY <1>2, <1>4 DEF Whole, Identified
  <2>2. QED
    BY <1>7, <2>1 DEF Whole, ReturnedWhole
<1>10. QED
  BY <1>5, <1>6, <1>8, <1>9 DEF Whole

(* What returns has all its changes in the store.                          *)
LEMMA ReturnWhole ==
  ASSUME IInv, Whole, NEW p \in Writers, Return(p)
  PROVE  Whole'
<1> DEFINE j == job[p]
           a == [j EXCEPT !.returned = TRUE]
<1>1. /\ pc[p] = "changes" /\ saved[p] = Len(j.list)
      /\ attempts' = (attempts \ {j}) \cup {a}
      /\ pc' = [pc EXCEPT ![p] = "idle"] /\ job' = [job EXCEPT ![p] = NoJob]
      /\ saved' = [saved EXCEPT ![p] = 0] /\ UNCHANGED <<versions, changes>>
  BY DEF Return, Forget
<1>2. j \in Attempts /\ j \in attempts /\ j.stored /\ j.writer = p
  BY <1>1, JobType DEF IInv, StoredVersionsStay, JobIsLatest
<1>3. /\ a.writer = j.writer /\ a.n = j.n /\ a.warehouse = j.warehouse /\ a.number = j.number
      /\ a.list = j.list /\ a.stored
  BY <1>2 DEF Attempts
<1>4. Key(a) = Key(j) /\ Row(a) = Row(j)
  BY <1>3 DEF Key, Row
<1> HIDE DEF a
<1>5. \A x : SharesNumber(attempts, x) => SharesNumber(attempts', x)
  BY SharedStays DEF Next
<1>6. SharesNumber(attempts, j) => SharesNumber(attempts', a)
  BY <1>3, <1>4, <1>5 DEF SharesNumber
<1>7. Identified'
  BY <1>1, <1>2, <1>3 DEF Whole, Identified
<1>8. job \in [Writers -> Attempts \cup {NoJob}] /\ saved \in [Writers -> Nat]
      /\ pc \in [Writers -> {"idle", "version", "changes"}]
  BY DEF IInv, TypeOK
<1>9. Owned'
  <2>1. \A k \in DOMAIN changes : \E b \in attempts' : b.stored /\ changes[k].version = Key(b)
    BY <1>1, <1>3, <1>4 DEF Whole, Owned
  <2>2. \A q \in Writers : pc'[q] = "version" =>
          pc[q] = "version" /\ job'[q] = job[q] /\ saved'[q] = saved[q]
    BY <1>1, <1>8
  <2>3. QED
    BY <1>1, <2>1, <2>2 DEF Whole, Owned
<1>10. JobsWhole'
  <2> SUFFICES ASSUME NEW q \in Writers, pc'[q] = "changes", ~SharesNumber(attempts', job'[q])
               PROVE  Holds(versions', changes', job'[q], saved'[q])
    BY DEF JobsWhole
  <2>1. pc[q] = "changes" /\ job'[q] = job[q] /\ saved'[q] = saved[q]
    BY <1>1, <1>8
  <2>2. QED
    BY <1>1, <1>5, <2>1 DEF Whole, JobsWhole
<1>11. ReturnedWhole'
  <2> SUFFICES ASSUME NEW x \in attempts', x.returned, ~SharesNumber(attempts', x)
               PROVE  Holds(versions', changes', x, Len(x.list))
    BY DEF ReturnedWhole
  <2>1. CASE x = a
    <3>1. Holds(versions, changes, j, Len(j.list))
      BY <1>1, <1>6, <2>1 DEF Whole, JobsWhole
    <3>2. \A d : ChangeKey(a, d) = ChangeKey(j, d)
      BY <1>4 DEF ChangeKey
    <3>3. QED
      BY <1>1, <1>3, <1>4, <2>1, <3>1, <3>2 DEF Holds, HasRow, HasOnly, HasAll
  <2>2. CASE x \in attempts
    BY <1>1, <1>5, <2>2 DEF Whole, ReturnedWhole
  <2>3. QED
    BY <1>1, <2>1, <2>2
<1>12. QED
  BY <1>7, <1>9, <1>10, <1>11 DEF Whole

(* A save that fails has returned nothing.                                 *)
LEMMA FailWhole ==
  ASSUME IInv, Whole, NEW p \in Writers, Fail(p)
  PROVE  Whole'
<1>1. /\ pc' = [pc EXCEPT ![p] = "idle"] /\ job' = [job EXCEPT ![p] = NoJob]
      /\ saved' = [saved EXCEPT ![p] = 0] /\ UNCHANGED <<versions, changes, attempts>>
  BY DEF Fail, Forget
<1>2. \A q \in Writers : pc'[q] # "idle" => pc'[q] = pc[q] /\ job'[q] = job[q] /\ saved'[q] = saved[q]
  BY <1>1 DEF IInv, TypeOK
<1>3. Identified' /\ ReturnedWhole'
  BY <1>1 DEF Whole, Identified, ReturnedWhole
<1>4. Owned' /\ JobsWhole'
  BY <1>1, <1>2 DEF Whole, Owned, JobsWhole
<1>5. QED
  BY <1>3, <1>4 DEF Whole

(* Whatever is saved, failed or retried, by however many processes: a save *)
(* that returned, and whose number no other save stored under, is in the   *)
(* store with its graph, its severity and the last change of each source   *)
(* table and type of its list, and no others. Earlier changes of the same  *)
(* table and type are displaced (storage.rs:95, 108-283,                   *)
(* _lineage.py:290-340).                                                   *)
THEOREM UncontendedSavesAreWhole == Spec => []UncontendedSaveIsWhole
<1>1. Init => Whole
  BY DEF Init, Whole, Identified, Owned, JobsWhole, ReturnedWhole
<1>2. IInv /\ Whole /\ [Next]_vars => Whole'
  <2> SUFFICES ASSUME IInv, Whole, [Next]_vars
               PROVE  Whole'
    OBVIOUS
  <2>1. ASSUME NEW p \in Writers, BeginSave(p) \/ SaveVersion(p) \/ SaveChange(p) \/ Return(p) \/ Fail(p)
        PROVE  Whole'
    BY <2>1, BeginWhole, SaveVersionWhole, SaveChangeWhole, ReturnWhole, FailWhole
  <2>2. CASE UNCHANGED vars
    BY <2>2 DEF Whole, Identified, Owned, JobsWhole, ReturnedWhole
  <2>3. QED
    BY <2>1, <2>2 DEF Next, Finished
<1>3. IInv /\ Whole => UncontendedSaveIsWhole
  <2> SUFFICES ASSUME IInv, Whole, NEW a \in attempts, a.returned, ~Contended(a)
               PROVE  /\ Key(a) \in DOMAIN versions
                      /\ versions[Key(a)] = Row(a)
                      /\ ChangesOf(Key(a)) = LastOfEach(a.list)
    BY DEF UncontendedSaveIsWhole
  <2>1. Holds(versions, changes, a, Len(a.list))
    BY DEF Whole, ReturnedWhole, SharesNumber, Contended
  <2>2. DOMAIN a.list = 1..Len(a.list)
    BY ListsAssumption DEF IInv, TypeOK, Attempts
  <2>3. LastOfEach(a.list) = {a.list[i] : i \in {k \in 1..Len(a.list) : LastOfItsKind(a.list, Len(a.list), k)}}
    BY <2>2 DEF LastOfEach, LastOfItsKind
  <2>4. ChangesOf(Key(a)) \subseteq LastOfEach(a.list)
    BY <2>1, <2>3 DEF Holds, HasOnly, ChangesOf
  <2>5. LastOfEach(a.list) \subseteq ChangesOf(Key(a))
    <3> SUFFICES ASSUME NEW i \in 1..Len(a.list), LastOfItsKind(a.list, Len(a.list), i)
                 PROVE  a.list[i] \in ChangesOf(Key(a))
      BY <2>3
    <3> DEFINE k == ChangeKey(a, a.list[i])
    <3>1. k \in DOMAIN changes /\ changes[k] = [version |-> Key(a), change |-> a.list[i]]
      BY <2>1 DEF Holds, HasAll
    <3>2. changes[k].version = Key(a) /\ changes[k].change = a.list[i]
      BY <3>1
    <3> HIDE DEF k
    <3>3. QED
      BY <3>1, <3>2 DEF ChangesOf
  <2>6. QED
    BY <2>1, <2>4, <2>5 DEF Holds, HasRow
<1>4. QED
  BY <1>1, <1>2, <1>3, Invariance, PTL DEF Spec

-----------------------------------------------------------------------------
(* The lineage graph and its impact chains. *)

(* One table feeds another.                                                *)
Feeds(a, b) == \E i \in DOMAIN edges : edges[i].source = a /\ edges[i].target = b

(* What waits is fed by a table already listed, and every table fed by one *)
(* listed is listed or waits.                                              *)
Frontier ==
  /\ call.affected = << >> => call.queue = <<call.target>>
  /\ call.affected # << >> => /\ call.affected[1] = call.target
                              /\ \A q \in ToSet(call.queue) : \E j \in DOMAIN call.affected : Feeds(call.affected[j], q)
  /\ \A i \in DOMAIN edges :
       edges[i].source \in Visited => edges[i].target \in Visited \cup ToSet(call.queue)

(* Tables are listed once, and after one that feeds them.                  *)
Listed ==
  /\ IsInjective(call.affected)
  /\ \A i \in 2..Len(call.affected) : \E j \in 1..(i - 1) : Feeds(call.affected[j], call.affected[i])

(* Nothing is listed or waits but what every closed set with the target    *)
(* has.                                                                    *)
OnlyReachable == Visited \cup ToSet(call.queue) \subseteq Affected(call.target)

Calls == [target : Ids, end : {"back", "front"}, affected : Seq(Ids), queue : Seq(Ids), pops : Nat]
GraphInv ==
  /\ edges \in Seq(Edges)
  /\ call # None => call \in Calls /\ Frontier /\ Listed /\ OnlyReachable /\ EachEdgeFollowedOnce

USE DEF graphVars, graph

-----------------------------------------------------------------------------
(* Parts of sequences. *)

(* The graph's operators on sequences and sets are the ones the lemmas are *)
(* about.                                                                  *)
LEMMA SameAt == \A s, I : At(s, I) = At(s, I)
BY DEF At, Concat, At, Concat

LEMMA SameCardinality == \A S : Cardinality(S) = Cardinality(S)
BY DEF Cardinality, Cardinality

LEMMA InToSet ==
  ASSUME NEW T, NEW s \in Seq(T), NEW x
  PROVE  x \in ToSet(s) <=> \E i \in 1..Len(s) : s[i] = x
<1>1. DOMAIN s = 1..Len(s)
  OBVIOUS
<1>2. QED
  BY <1>1 DEF ToSet

(* The elements at some places of a sequence, and how many they are.       *)
LEMMA PartElements ==
  ASSUME NEW T, NEW s \in Seq(T), NEW I \in SUBSET (DOMAIN s)
  PROVE  /\ Cardinality(I) \in Nat
         /\ At(s, I) \in Seq(T) /\ Len(At(s, I)) = Cardinality(I)
         /\ ToSet(At(s, I)) = {s[i] : i \in I}
<1> DEFINE a == At(s, I)
<1>1. I \in SUBSET (1..Len(s)) /\ At(s, I) = a
  BY SameAt
<1>2. Cardinality(I) \in Nat /\ a \in Seq(T) /\ Len(a) = Cardinality(I)
  BY <1>1, AtPicks
<1>3. /\ \A k \in 1..Len(a) : \E i \in I : a[k] = s[i]
      /\ \A i \in I : \E k \in 1..Len(a) : a[k] = s[i]
  BY <1>1, AtElements
<1> HIDE DEF a
<1>4. ToSet(a) = {a[k] : k \in 1..Len(a)}
  BY <1>2 DEF ToSet
<1> DEFINE S == ToSet(a)
<1>5. \A x : x \in S <=> \E k \in 1..Len(a) : a[k] = x
  BY <1>4
<1> HIDE DEF S
<1>6. S = {s[i] : i \in I}
  BY <1>3, <1>5
<1>7. QED
  BY <1>1, <1>2, <1>6 DEF S

(* A sequence is its first elements and its last, or its first and the     *)
(* others.                                                                 *)
LEMMA FrontAndLast ==
  ASSUME NEW T, NEW q \in Seq(T), q # << >>
  PROVE  /\ Last(q) \in T /\ Front(q) \in Seq(T) /\ Len(Front(q)) = Len(q) - 1
         /\ ToSet(q) = ToSet(Front(q)) \cup {Last(q)}
<1> DEFINE n == Len(q)
           f == Front(q)
<1>1. n \in Nat \ {0} /\ \A i \in 1..n : q[i] \in T
  OBVIOUS
<1>2. Last(q) = q[n] /\ Last(q) \in T
  BY <1>1 DEF Last
<1>3. f \in Seq(T) /\ Len(f) = n - 1 /\ \A i \in 1..(n - 1) : f[i] = q[i]
  <2>1. f = SubSeq(q, 1, n - 1)
    BY DEF Front
  <2> HIDE DEF f
  <2>2. \A i \in 1..(n - 1) : i \in 1..n
    BY <1>1
  <2>3. f = [i \in 1..(n - 1) |-> q[i]]
    BY <1>1, <2>1
  <2>4. QED
    BY <1>1, <2>2, <2>3
<1> HIDE DEF f
<1>4. \A x : x \in ToSet(q) <=> \E i \in 1..n : q[i] = x
  BY InToSet
<1>5. \A x : x \in ToSet(f) <=> \E i \in 1..(n - 1) : f[i] = x
  BY <1>3, InToSet
<1>6. (\A i \in 1..n : i = n \/ i \in 1..(n - 1)) /\ (\A i \in 1..(n - 1) : i \in 1..n) /\ n \in 1..n
  BY <1>1
<1> HIDE DEF n
<1>7. \A x \in ToSet(q) : x \in ToSet(f) \/ x = Last(q)
  BY <1>2, <1>3, <1>4, <1>5, <1>6, Zenon
<1>8. Last(q) \in ToSet(q) /\ \A x \in ToSet(f) : x \in ToSet(q)
  BY <1>2, <1>3, <1>4, <1>5, <1>6, Zenon
<1>9. QED
  BY <1>2, <1>3, <1>7, <1>8 DEF n, f

LEMMA HeadAndTail ==
  ASSUME NEW T, NEW q \in Seq(T), q # << >>
  PROVE  /\ Head(q) \in T /\ Tail(q) \in Seq(T) /\ Len(Tail(q)) = Len(q) - 1
         /\ ToSet(q) = ToSet(Tail(q)) \cup {Head(q)}
<1> DEFINE n == Len(q)
           t == Tail(q)
           h == Head(q)
<1>1. n \in Nat \ {0} /\ h = q[1] /\ h \in T
  OBVIOUS
<1>2. t \in Seq(T) /\ Len(t) = n - 1 /\ \A i \in 1..(n - 1) : t[i] = q[i + 1]
  BY <1>1
<1> HIDE DEF t, h
<1>3. \A x : x \in ToSet(q) <=> \E i \in 1..n : q[i] = x
  BY InToSet
<1>4. \A x : x \in ToSet(t) <=> \E i \in 1..(n - 1) : t[i] = x
  BY <1>2, InToSet
<1>5. ASSUME NEW i \in 1..n, i # 1 PROVE i - 1 \in 1..(n - 1) /\ t[i - 1] = q[i]
  <2>1. i - 1 \in 1..(n - 1) /\ (i - 1) + 1 = i
    BY <1>1, <1>5
  <2>2. QED
    BY <1>2, <2>1
<1>6. 1 \in 1..n /\ \A i \in 1..(n - 1) : i + 1 \in 1..n
  BY <1>1
<1> HIDE DEF n
<1>7. ASSUME NEW x \in ToSet(q) PROVE x \in ToSet(t) \/ x = h
  BY <1>1, <1>3, <1>4, <1>5, Zenon
<1>8. h \in ToSet(q) /\ \A x \in ToSet(t) : x \in ToSet(q)
  BY <1>1, <1>2, <1>3, <1>4, <1>6, Zenon
<1>9. QED
  BY <1>1, <1>2, <1>7, <1>8 DEF n, t, h

LEMMA ConcatSets ==
  ASSUME NEW T, NEW s \in Seq(T), NEW t \in Seq(T)
  PROVE  /\ s \o t \in Seq(T) /\ Len(s \o t) = Len(s) + Len(t)
         /\ ToSet(s \o t) = ToSet(s) \cup ToSet(t)
<1> DEFINE a == Len(s)
           b == Len(t)
           q == s \o t
<1>1. a \in Nat /\ b \in Nat /\ q \in Seq(T) /\ Len(q) = a + b
  OBVIOUS
<1>2. (\A i \in 1..a : q[i] = s[i]) /\ (\A i \in 1..b : q[a + i] = t[i])
  OBVIOUS
<1> HIDE DEF q
<1>3. \A x : x \in ToSet(s) <=> \E i \in 1..a : s[i] = x
  BY InToSet
<1>4. \A x : x \in ToSet(t) <=> \E i \in 1..b : t[i] = x
  BY InToSet
<1>5. \A x : x \in ToSet(q) <=> \E i \in 1..(a + b) : q[i] = x
  BY <1>1, InToSet
<1> HIDE DEF a, b
<1>6. ASSUME NEW i \in 1..(a + b) PROVE i \in 1..a \/ \E j \in 1..b : i = a + j
  <2>1. i \in 1..a \/ (i - a \in 1..b /\ i = a + (i - a))
    BY <1>1
  <2>2. QED
    BY <2>1
<1>7. (\A i \in 1..a : i \in 1..(a + b)) /\ (\A j \in 1..b : a + j \in 1..(a + b))
  BY <1>1
<1>8. ASSUME NEW x \in ToSet(q) PROVE x \in ToSet(s) \/ x \in ToSet(t)
  <2>1. PICK i \in 1..(a + b) : q[i] = x
    BY <1>5
  <2>2. CASE i \in 1..a
    BY <1>2, <1>3, <2>1, <2>2
  <2>3. CASE \E j \in 1..b : i = a + j
    <3>1. PICK j \in 1..b : i = a + j
      BY <2>3
    <3>2. t[j] = x
      BY <1>2, <2>1, <3>1, Zenon
    <3>3. QED
      BY <1>4, <3>2
  <2>4. QED
    BY <1>6, <2>2, <2>3
<1>9. (\A x \in ToSet(s) : x \in ToSet(q)) /\ (\A x \in ToSet(t) : x \in ToSet(q))
  BY <1>2, <1>3, <1>4, <1>5, <1>7, Zenon
<1>10. QED
  BY <1>1, <1>8, <1>9 DEF a, b, q

(* The edges out of a table.                                               *)
OutOf(id) == {i \in DOMAIN edges : edges[i].source = id}

(* What the tables fed by one are.                                         *)
LEMMA DownstreamIs ==
  ASSUME edges \in Seq(Edges), NEW id
  PROVE  /\ Cardinality(OutOf(id)) \in Nat
         /\ GetDownstream(id) \in Seq(Ids) /\ Len(GetDownstream(id)) = Cardinality(OutOf(id))
         /\ ToSet(GetDownstream(id)) = {edges[i].target : i \in OutOf(id)}
<1> DEFINE out == At(edges, OutOf(id))
           n == Cardinality(OutOf(id))
<1>1. /\ n \in Nat /\ out \in Seq(Edges) /\ Len(out) = n
      /\ ToSet(out) = {edges[i] : i \in OutOf(id)}
  <2>1. OutOf(id) \in SUBSET (DOMAIN edges)
    BY DEF OutOf
  <2>2. QED
    BY <2>1, PartElements
<1>2. GetDownstream(id) = [k \in DOMAIN out |-> out[k].target]
  BY DEF GetDownstream, OutOf
<1> HIDE DEF out, n
<1>3. DOMAIN out = 1..n
  <2>1. out \in Seq(Edges) /\ Len(out) = n
    BY <1>1
  <2>2. QED
    BY <2>1
<1>4. ASSUME NEW k \in 1..n PROVE out[k].target \in Ids /\ out[k] \in ToSet(out)
  <2>1. out[k] \in ToSet(out)
    BY <1>3 DEF ToSet
  <2>2. PICK i \in OutOf(id) : out[k] = edges[i]
    BY <1>1, <2>1
  <2>3. edges[i] \in Edges
    BY <2>2 DEF OutOf
  <2>4. QED
    BY <2>1, <2>2, <2>3 DEF Edges
<1>5. GetDownstream(id) \in Seq(Ids) /\ Len(GetDownstream(id)) = n /\ DOMAIN GetDownstream(id) = 1..n
  BY <1>1, <1>2, <1>3, <1>4
<1>6. ASSUME NEW k \in 1..n PROVE \E i \in OutOf(id) : GetDownstream(id)[k] = edges[i].target
  BY <1>1, <1>2, <1>3, <1>4
<1>7. ASSUME NEW i \in OutOf(id) PROVE \E k \in 1..n : GetDownstream(id)[k] = edges[i].target
  <2>1. PICK k \in 1..n : out[k] = edges[i]
    BY <1>1, <1>3 DEF ToSet
  <2>2. QED
    BY <1>2, <1>3, <2>1
<1>8. ToSet(GetDownstream(id)) = {edges[i].target : i \in OutOf(id)}
  <2>1. \A x : x \in ToSet(GetDownstream(id)) <=> \E k \in 1..n : GetDownstream(id)[k] = x
    BY <1>5, InToSet
  <2>2. QED
    BY <1>6, <1>7, <2>1
<1>9. QED
  BY <1>1, <1>5, <1>8 DEF n

(* What the tables that feed one are.                                      *)
LEMMA UpstreamIs ==
  ASSUME edges \in Seq(Edges), NEW b, NEW a, Feeds(a, b)
  PROVE  a \in ToSet(GetUpstream(b))
<1> DEFINE I == {i \in DOMAIN edges : edges[i].target = b}
           into == At(edges, I)
<1>1. into \in Seq(Edges) /\ ToSet(into) = {edges[i] : i \in I}
  <2>1. I \in SUBSET (DOMAIN edges)
    OBVIOUS
  <2> HIDE DEF I
  <2>2. QED
    BY <2>1, PartElements
<1>2. GetUpstream(b) = [k \in DOMAIN into |-> into[k].source]
  BY DEF GetUpstream
<1>3. PICK i \in I : edges[i].source = a
  BY DEF Feeds
<1> HIDE DEF I, into
<1>4. PICK k \in DOMAIN into : into[k] = edges[i]
  BY <1>1, <1>3 DEF ToSet
<1>5. QED
  BY <1>2, <1>3, <1>4 DEF ToSet

(* What is queued after a table.                                           *)
LEMMA UnvisitedIs ==
  ASSUME edges \in Seq(Edges), NEW id, NEW visited
  PROVE  /\ Unvisited(id, visited) \in Seq(Ids)
         /\ Cardinality(OutOf(id)) \in Nat /\ Len(Unvisited(id, visited)) <= Cardinality(OutOf(id))
         /\ ToSet(Unvisited(id, visited)) = {edges[i].target : i \in OutOf(id)} \ visited
<1> DEFINE down == GetDownstream(id)
           I == {k \in DOMAIN down : down[k] \notin visited}
<1>1. /\ Cardinality(OutOf(id)) \in Nat
      /\ down \in Seq(Ids) /\ Len(down) = Cardinality(OutOf(id))
      /\ ToSet(down) = {edges[i].target : i \in OutOf(id)}
  BY DownstreamIs
<1>2. Unvisited(id, visited) = At(down, I)
  BY DEF Unvisited
<1>3. I \in SUBSET (DOMAIN down) /\ {down[k] : k \in I} = ToSet(down) \ visited
  BY DEF ToSet
<1>4. Cardinality(I) <= Len(down)
  <2>1. DOMAIN down = 1..Len(down) /\ Len(down) \in Nat
    BY <1>1
  <2> DEFINE m == Len(down)
  <2>2. IsFiniteSet(1..m) /\ Cardinality(1..m) = m
    <3> HIDE DEF m
    <3>1. m \in Nat
      BY <2>1 DEF m
    <3>2. QED
      BY <3>1, FS_Interval
  <2>3. I \in SUBSET (1..m)
    BY <1>3, <2>1
  <2> HIDE DEF m, I
  <2>4. Cardinality(I) <= m
    BY <2>2, <2>3, FS_Subset
  <2>5. QED
    BY <2>4 DEF m
<1> HIDE DEF down, I
<1>5. /\ At(down, I) \in Seq(Ids) /\ Len(At(down, I)) = Cardinality(I)
      /\ ToSet(At(down, I)) = {down[k] : k \in I}
  BY <1>1, <1>3, PartElements
<1>6. QED
  BY <1>1, <1>2, <1>3, <1>4, <1>5

(* What is taken from the work list, and what is left.                     *)
LEMMA PopIs ==
  ASSUME call \in Calls, call.queue # << >>
  PROVE  /\ Popped \in Ids /\ Rest \in Seq(Ids) /\ Len(Rest) = Len(call.queue) - 1
         /\ ToSet(call.queue) = ToSet(Rest) \cup {Popped}
<1>1. call.queue \in Seq(Ids) /\ call.end \in {"back", "front"}
  BY DEF Calls
<1>2. CASE call.end = "back"
  <2>1. Popped = Last(call.queue) /\ Rest = Front(call.queue)
    BY <1>2 DEF Popped, Rest
  <2>2. QED
    BY <1>1, <2>1, FrontAndLast
<1>3. CASE call.end = "front"
  <2>1. Popped = Head(call.queue) /\ Rest = Tail(call.queue)
    BY <1>1, <1>3 DEF Popped, Rest
  <2>2. QED
    BY <1>1, <2>1, HeadAndTail
<1>4. QED
  BY <1>1, <1>2, <1>3

-----------------------------------------------------------------------------
(* Reachability. *)

(* A closed set with the target has what a reachable table feeds.          *)
LEMMA AffectedClosed ==
  ASSUME edges \in Seq(Edges), NEW id, NEW i \in DOMAIN edges, edges[i].source \in Affected(id)
  PROVE  edges[i].target \in Affected(id)
<1>1. edges[i].target \in Ids
  <2>1. edges[i] \in Edges
    OBVIOUS
  <2>2. QED
    BY <2>1 DEF Edges
<1>2. ASSUME NEW ids \in SUBSET Ids, id \in ids, Closed(ids)
      PROVE  edges[i].target \in ids
  <2>1. edges[i].source \in ids
    BY <1>2 DEF Affected
  <2>2. QED
    BY <1>2, <2>1 DEF Closed
<1>3. QED
  BY <1>1, <1>2 DEF Affected

(* One more table listed has its own edges out, and the others theirs.     *)
LEMMA EdgesOutNext ==
  ASSUME edges \in Seq(Edges), NEW ids, NEW id, id \notin ids
  PROVE  /\ EdgesOut(ids) \in Nat
         /\ EdgesOut(ids \cup {id}) = EdgesOut(ids) + Cardinality(OutOf(id))
<1> DEFINE A == {i \in DOMAIN edges : edges[i].source \in ids}
           B == OutOf(id)
<1>1. IsFiniteSet(DOMAIN edges)
  <2>1. DOMAIN edges = 1..Len(edges) /\ Len(edges) \in Nat
    OBVIOUS
  <2>2. IsFiniteSet(1..Len(edges))
    BY <2>1, FS_Interval
  <2>3. QED
    BY <2>1, <2>2
<1>2. A \in SUBSET (DOMAIN edges) /\ B \in SUBSET (DOMAIN edges) /\ A \cap B = {}
  BY DEF OutOf
<1>3. A \cup B = {i \in DOMAIN edges : edges[i].source \in ids \cup {id}}
  BY DEF OutOf
<1>4. EdgesOut(ids) = Cardinality(A) /\ EdgesOut(ids \cup {id}) = Cardinality(A \cup B)
  BY <1>3, SameCardinality DEF EdgesOut
<1> HIDE DEF A, B
<1>5. IsFiniteSet(A) /\ IsFiniteSet(B)
  BY <1>1, <1>2, FS_Subset
<1>6. Cardinality(A) \in Nat /\ Cardinality(B) \in Nat /\ Cardinality({}) = 0
  BY <1>5, FS_CardinalityType, FS_EmptySet
<1>7. Cardinality(A \cup B) = Cardinality(A) + Cardinality(B) - Cardinality(A \cap B)
  BY <1>5, FS_Union
<1>8. Cardinality(A \cap B) = 0
  BY <1>2, <1>6, Zenon
<1>9. QED
  BY <1>4, <1>6, <1>7, <1>8 DEF B

-----------------------------------------------------------------------------
(* The steps. *)

LEMMA CallInv ==
  ASSUME GraphInv, NEW target \in Ids, NEW end \in {"back", "front"}, Call(target, end)
  PROVE  GraphInv'
<1>1. /\ edges' = edges /\ edges \in Seq(Edges)
      /\ call' = [target |-> target, end |-> end, affected |-> << >>, queue |-> <<target>>, pops |-> 0]
  BY DEF GraphInv, Call
<1>2. call' \in Calls /\ call'.affected = << >> /\ call'.queue = <<target>> /\ call'.target = target
      /\ call'.pops = 0
  BY <1>1 DEF Calls
<1>3. Visited' = {} /\ ToSet(call'.queue) = {target}
  BY <1>2 DEF Visited, ToSet
<1>4. Frontier'
  BY <1>1, <1>2, <1>3 DEF Frontier
<1>5. Listed'
  BY <1>2 DEF Listed, IsInjective
<1>6. OnlyReachable'
  BY <1>1, <1>2, <1>3 DEF OnlyReachable, Affected
<1>7. EachEdgeFollowedOnce'
  <2>1. EdgesOut({}) = 0
    <3>1. {i \in DOMAIN edges : edges[i].source \in {}} = {}
      OBVIOUS
    <3>2. QED
      BY <3>1, FS_EmptySet, SameCardinality, Zenon DEF EdgesOut
  <2>2. EdgesOut(Visited)' = 0
    BY <1>1, <1>3, <2>1 DEF EdgesOut
  <2>3. QED
    BY <1>2, <2>2 DEF EachEdgeFollowedOnce
<1>8. QED
  BY <1>1, <1>2, <1>4, <1>5, <1>6, <1>7 DEF GraphInv

(* A turn of the loop leaves a call with its target.                       *)
Turned(c, a, q) == [c EXCEPT !.affected = a, !.queue = q, !.pops = @ + 1]

LEMMA TurnIs ==
  ASSUME NEW c \in Calls, NEW a \in Seq(Ids), NEW q \in Seq(Ids)
  PROVE  /\ Turned(c, a, q) \in Calls
         /\ Turned(c, a, q).affected = a /\ Turned(c, a, q).queue = q
         /\ Turned(c, a, q).pops = c.pops + 1 /\ Turned(c, a, q).target = c.target
<1> DEFINE p == c.pops + 1
           d == [c EXCEPT !.affected = a, !.queue = q, !.pops = p]
<1>1. Turned(c, a, q) = d
  BY DEF Turned
<1>2. p \in Nat
  BY DEF Calls
<1> HIDE DEF p
<1>3. d \in Calls
  BY <1>2 DEF Calls
<1>4. d.affected = a /\ d.queue = q /\ d.pops = p /\ d.target = c.target
  BY <1>2 DEF Calls
<1> HIDE DEF d
<1>5. QED
  BY <1>1, <1>3, <1>4 DEF p

LEMMA SkipKnownInv ==
  ASSUME GraphInv, SkipKnown
  PROVE  GraphInv'
<1>1. /\ edges' = edges /\ edges \in Seq(Edges) /\ call \in Calls /\ call.queue # << >>
      /\ call' = [call EXCEPT !.queue = Rest, !.pops = @ + 1]
      /\ Frontier /\ Listed /\ OnlyReachable /\ Popped \in Visited
      /\ call.pops + Len(call.queue) <= 1 + EdgesOut(Visited)
  BY DEF GraphInv, SkipKnown, Known, EachEdgeFollowedOnce
<1>2. /\ Rest \in Seq(Ids) /\ Len(Rest) = Len(call.queue) - 1
      /\ ToSet(call.queue) = ToSet(Rest) \cup {Popped}
  BY <1>1, PopIs
<1>3. /\ call' \in Calls /\ call'.affected = call.affected /\ call'.target = call.target
      /\ call'.queue = Rest /\ call'.pops = call.pops + 1
  <2>1. call' = Turned(call, call.affected, Rest)
    BY <1>1 DEF Calls, Turned
  <2>2. call \in Calls /\ Rest \in Seq(Ids) /\ call.affected \in Seq(Ids)
    BY <1>1, <1>2 DEF Calls
  <2>3. QED
    BY <2>1, <2>2, TurnIs
<1>4. Visited' = Visited /\ call.affected # << >>
  BY <1>1, <1>3 DEF Visited, ToSet
<1>5. Frontier'
  <2>1. /\ call.affected[1] = call.target
        /\ \A q \in ToSet(call.queue) : \E j \in DOMAIN call.affected : Feeds(call.affected[j], q)
    BY <1>1, <1>4 DEF Frontier
  <2>2. ASSUME NEW q \in ToSet(Rest)
        PROVE  \E j \in DOMAIN call.affected : Feeds(call.affected[j], q)'
    BY <1>1, <1>2, <1>3, <2>1 DEF Feeds
  <2>3. \A i \in DOMAIN edges : edges[i].source \in Visited => edges[i].target \in Visited \cup ToSet(Rest)
    BY <1>1, <1>2 DEF Frontier
  <2>4. QED
    BY <1>1, <1>3, <1>4, <2>1, <2>2, <2>3 DEF Frontier
<1>6. Listed'
  BY <1>1, <1>3 DEF Listed, Feeds
<1>7. OnlyReachable'
  <2>1. Affected(call.target)' = Affected(call.target)
    BY <1>1, <1>3 DEF Affected, Closed
  <2>2. QED
    BY <1>1, <1>2, <1>3, <1>4, <2>1 DEF OnlyReachable
<1>8. EachEdgeFollowedOnce'
  <2>1. EdgesOut(Visited)' = EdgesOut(Visited)
    BY <1>1, <1>4 DEF EdgesOut
  <2>2. call.pops \in Nat /\ Len(call.queue) \in Nat
    BY <1>1 DEF Calls
  <2>3. EdgesOut(Visited) \in Nat
    <3>1. IsFiniteSet(DOMAIN edges)
      <4>1. DOMAIN edges = 1..Len(edges) /\ Len(edges) \in Int
        BY <1>1
      <4>2. IsFiniteSet(1..Len(edges))
        BY <4>1, FS_Interval
      <4>3. QED
        BY <4>1, <4>2
    <3>2. QED
      BY <3>1, FS_Subset, FS_CardinalityType, SameCardinality DEF EdgesOut
  <2>4. QED
    BY <1>1, <1>2, <1>3, <2>1, <2>2, <2>3 DEF EachEdgeFollowedOnce
<1>9. QED
  BY <1>1, <1>3, <1>5, <1>6, <1>7, <1>8 DEF GraphInv

LEMMA VisitInv ==
  ASSUME GraphInv, Visit
  PROVE  GraphInv'
<1> DEFINE id == Popped
           new == Unvisited(Popped, Visited \cup {Popped})
           n == Len(call.affected)
<1>1. /\ edges' = edges /\ edges \in Seq(Edges) /\ call \in Calls /\ call.queue # << >>
      /\ call' = [call EXCEPT !.affected = Append(@, id), !.queue = Rest \o new, !.pops = @ + 1]
      /\ Frontier /\ Listed /\ OnlyReachable /\ id \notin Visited
      /\ call.pops + Len(call.queue) <= 1 + EdgesOut(Visited)
  BY DEF GraphInv, Visit, Known, EachEdgeFollowedOnce
<1>2. /\ id \in Ids /\ Rest \in Seq(Ids) /\ Len(Rest) = Len(call.queue) - 1
      /\ ToSet(call.queue) = ToSet(Rest) \cup {id}
  BY <1>1, PopIs
<1>3. /\ new \in Seq(Ids)
      /\ Cardinality(OutOf(id)) \in Nat /\ Len(new) <= Cardinality(OutOf(id))
      /\ ToSet(new) = {edges[i].target : i \in OutOf(id)} \ (Visited \cup {id})
  BY <1>1, UnvisitedIs
<1>4. /\ call.affected \in Seq(Ids) /\ call.queue \in Seq(Ids) /\ call.pops \in Nat /\ call.target \in Ids
      /\ n \in Nat
  BY <1>1 DEF Calls
<1> HIDE DEF id, new, n
<1>5. /\ call' \in Calls /\ call'.affected = Append(call.affected, id) /\ call'.target = call.target
      /\ call'.queue = Rest \o new /\ call'.pops = call.pops + 1
  <2>1. call' = Turned(call, Append(call.affected, id), Rest \o new)
    BY <1>1 DEF Turned
  <2> DEFINE listed == Append(call.affected, id)
             queued == Rest \o new
  <2>2. call \in Calls /\ queued \in Seq(Ids) /\ listed \in Seq(Ids)
    BY <1>1, <1>2, <1>3, <1>4
  <2> HIDE DEF listed, queued
  <2>3. Turned(call, listed, queued) = call'
    BY <2>1 DEF listed, queued
  <2>4. /\ Turned(call, listed, queued) \in Calls
        /\ Turned(call, listed, queued).affected = listed /\ Turned(call, listed, queued).queue = queued
        /\ Turned(call, listed, queued).pops = call.pops + 1
        /\ Turned(call, listed, queued).target = call.target
    BY <2>2, TurnIs
  <2>5. QED
    BY <2>3, <2>4, Zenon DEF listed, queued
<1>6. /\ call'.affected \in Seq(Ids) /\ Len(call'.affected) = n + 1
      /\ call'.affected[n + 1] = id /\ \A i \in 1..n : call'.affected[i] = call.affected[i]
      /\ DOMAIN call.affected = 1..n /\ DOMAIN call'.affected = 1..(n + 1)
  BY <1>2, <1>4, <1>5 DEF n
<1>7. Visited' = Visited \cup {id}
  <2>1. \A x : x \in ToSet(call.affected) <=> \E i \in 1..n : call.affected[i] = x
    BY <1>4, InToSet DEF n
  <2>2. \A x : x \in ToSet(call'.affected) <=> \E i \in 1..(n + 1) : call'.affected[i] = x
    BY <1>6, InToSet
  <2>3. ASSUME NEW i \in 1..(n + 1) PROVE i = n + 1 \/ i \in 1..n
    BY <1>4
  <2>4. (n + 1) \in 1..(n + 1) /\ \A i \in 1..n : i \in 1..(n + 1)
    BY <1>4
  <2>5. ToSet(call'.affected) = ToSet(call.affected) \cup {id}
    BY <1>6, <2>1, <2>2, <2>3, <2>4
  <2>6. QED
    BY <2>5 DEF Visited
<1>8. Len(call'.queue) = Len(Rest) + Len(new) /\ ToSet(call'.queue) = ToSet(Rest) \cup ToSet(new)
  <2>1. /\ Len(Rest \o new) = Len(Rest) + Len(new)
        /\ ToSet(Rest \o new) = ToSet(Rest) \cup ToSet(new)
    BY <1>2, <1>3, ConcatSets
  <2>2. QED
    BY <1>5, <2>1, Zenon
<1>9. Visited' \cup ToSet(call'.queue) = Visited \cup ToSet(call.queue) \cup {edges[i].target : i \in OutOf(id)}
  BY <1>2, <1>3, <1>7, <1>8
<1>10. /\ call'.affected[1] = call.target
       /\ n = 0 => Rest = << >>
       /\ n # 0 => call.affected # << >>
  <2>1. CASE call.affected = << >>
    <3>1. call.queue = <<call.target>> /\ n = 0
      BY <1>1, <2>1 DEF Frontier, n
    <3>2. ToSet(call.queue) = {call.target} /\ Len(call.queue) = 1
      BY <3>1 DEF ToSet
    <3>3. id = call.target /\ Rest = << >>
      <4>1. id = call.target /\ Len(Rest) = 0
        BY <1>2, <3>2
      <4>2. QED
        BY <1>2, <4>1
    <3>4. QED
      BY <1>6, <3>1, <3>3
  <2>2. CASE call.affected # << >>
    <3>1. n # 0 /\ 1 \in 1..n
      BY <1>4, <2>2 DEF n
    <3>2. QED
      BY <1>1, <1>6, <2>2, <3>1 DEF Frontier
  <2>3. QED
    BY <2>1, <2>2
<1>11. n # 0 => \A q \in ToSet(call.queue) : \E j \in 1..n : Feeds(call.affected[j], q)
  BY <1>1, <1>6, <1>10 DEF Frontier
<1>12. \A a, b : Feeds(a, b)' <=> Feeds(a, b)
  BY <1>1 DEF Feeds
<1>13. Frontier'
  <2>1. ASSUME NEW q \in ToSet(call'.queue)
        PROVE  \E j \in 1..(n + 1) : Feeds(call'.affected[j], q)
    <3>1. CASE q \in ToSet(Rest)
      <4>1. n # 0
        BY <1>10, <3>1 DEF ToSet
      <4>2. PICK j \in 1..n : Feeds(call.affected[j], q)
        BY <1>2, <1>11, <3>1, <4>1
      <4>3. j \in 1..(n + 1)
        BY <1>4
      <4>4. QED
        BY <1>6, <4>2, <4>3
    <3>2. CASE q \in ToSet(new)
      <4>1. PICK i \in OutOf(id) : q = edges[i].target
        BY <1>3, <3>2
      <4>2. Feeds(id, q)
        BY <4>1 DEF OutOf, Feeds
      <4>3. n + 1 \in 1..(n + 1)
        BY <1>4
      <4>4. QED
        BY <1>6, <4>2, <4>3
    <3>3. QED
      BY <1>8, <3>1, <3>2
  <2>2. ASSUME NEW i \in DOMAIN edges, edges[i].source \in Visited'
        PROVE  edges[i].target \in Visited' \cup ToSet(call'.queue)
    <3>1. CASE edges[i].source \in Visited
      BY <1>1, <1>9, <3>1 DEF Frontier
    <3>2. CASE edges[i].source = id
      <4>1. i \in OutOf(id)
        BY <3>2 DEF OutOf
      <4>2. QED
        BY <1>9, <4>1
    <3>3. QED
      BY <1>7, <2>2, <3>1, <3>2
  <2>3. call'.affected # << >>
    BY <1>4, <1>6
  <2>4. QED
    BY <1>1, <1>5, <1>6, <1>10, <1>12, <2>1, <2>2, <2>3 DEF Frontier
<1>14. Listed'
  <2>1. ASSUME NEW i \in 1..(n + 1) PROVE i = n + 1 \/ i \in 1..n
    BY <1>4
  <2>2. ASSUME NEW i \in 1..n PROVE call.affected[i] \in Visited
    BY <1>6 DEF Visited, ToSet
  <2>3. ASSUME NEW i \in 1..(n + 1), NEW j \in 1..(n + 1), call'.affected[i] = call'.affected[j]
        PROVE  i = j
    <3>1. CASE i \in 1..n /\ j \in 1..n
      BY <1>1, <1>6, <2>3, <3>1 DEF Listed, IsInjective
    <3>2. CASE i \in 1..n /\ j = n + 1
      BY <1>1, <1>6, <2>2, <2>3, <3>2
    <3>3. CASE i = n + 1 /\ j \in 1..n
      BY <1>1, <1>6, <2>2, <2>3, <3>3
    <3>4. QED
      BY <2>1, <3>1, <3>2, <3>3
  <2>4. IsInjective(call'.affected)
    BY <1>6, <2>3 DEF IsInjective
  <2>5. ASSUME NEW i \in 2..(n + 1)
        PROVE  \E j \in 1..(i - 1) : Feeds(call'.affected[j], call'.affected[i])
    <3>1. CASE i \in 1..n
      <4>1. i \in 2..n
        BY <1>4, <3>1
      <4>2. PICK j \in 1..(i - 1) : Feeds(call.affected[j], call.affected[i])
        BY <1>1, <4>1 DEF Listed, n
      <4>3. j \in 1..n
        BY <1>4, <4>1
      <4>4. QED
        BY <1>6, <3>1, <4>2, <4>3
    <3>2. CASE i = n + 1
      <4>1. n # 0 /\ i - 1 = n
        BY <1>4, <3>2
      <4>2. PICK j \in 1..n : Feeds(call.affected[j], id)
        BY <1>2, <1>11, <4>1
      <4>3. QED
        BY <1>6, <3>2, <4>1, <4>2
    <3>3. i \in 1..(n + 1)
      BY <1>4
    <3>4. QED
      BY <2>1, <3>1, <3>2, <3>3
  <2>6. QED
    BY <1>6, <1>12, <2>4, <2>5 DEF Listed
<1>15. OnlyReachable'
  <2>1. Affected(call.target)' = Affected(call.target)
    BY <1>1, <1>5 DEF Affected, Closed
  <2>2. Visited \cup ToSet(call.queue) \subseteq Affected(call.target)
    BY <1>1 DEF OnlyReachable
  <2>3. ASSUME NEW i \in OutOf(id) PROVE edges[i].target \in Affected(call.target)
    <3>1. i \in DOMAIN edges /\ edges[i].source \in Affected(call.target)
      BY <1>2, <2>2 DEF OutOf
    <3>2. QED
      BY <1>1, <3>1, AffectedClosed
  <2>4. Visited' \cup ToSet(call'.queue) \subseteq Affected(call.target)
    BY <1>9, <2>2, <2>3
  <2>5. QED
    BY <1>5, <2>1, <2>4 DEF OnlyReachable
<1>16. EachEdgeFollowedOnce'
  <2>1. /\ EdgesOut(Visited) \in Nat
        /\ EdgesOut(Visited \cup {id}) = EdgesOut(Visited) + Cardinality(OutOf(id))
    BY <1>1, EdgesOutNext
  <2>2. EdgesOut(Visited)' = EdgesOut(Visited \cup {id})
    BY <1>1, <1>7 DEF EdgesOut
  <2>3. Len(call.queue) \in Nat /\ Len(new) \in Nat /\ Cardinality(OutOf(id)) \in Nat /\ call.pops \in Nat
    BY <1>3, <1>4
  <2>4. call'.pops = call.pops + 1 /\ Len(call'.queue) = Len(call.queue) - 1 + Len(new)
    BY <1>2, <1>5, <1>8
  <2>5. call.pops + Len(call.queue) <= 1 + EdgesOut(Visited) /\ Len(new) <= Cardinality(OutOf(id))
    BY <1>1, <1>3
  <2>6. call'.pops + Len(call'.queue) <= 1 + EdgesOut(Visited)'
    BY <2>1, <2>2, <2>3, <2>4, <2>5
  <2>7. QED
    BY <2>6 DEF EachEdgeFollowedOnce
<1>17. QED
  BY <1>1, <1>5, <1>13, <1>14, <1>15, <1>16 DEF GraphInv

-----------------------------------------------------------------------------
(* The theorems. *)

(* The invariant of the traversal holds of every reachable state.          *)
THEOREM ImpactInvariance == GraphSpec => []GraphInv
<1>1. GraphInit => GraphInv
  BY DEF GraphInit, GraphInv
<1>2. GraphInv /\ [GraphNext]_graphVars => GraphInv'
  <2> SUFFICES ASSUME GraphInv, [GraphNext]_graphVars PROVE GraphInv'
    OBVIOUS
  <2>1. ASSUME NEW t \in Tables, AddNode(t) PROVE GraphInv'
    BY <2>1 DEF AddNode, GraphInv
  <2>2. ASSUME NEW e \in Edges, AddEdge(e) PROVE GraphInv'
    BY <2>2 DEF AddEdge, GraphInv
  <2>3. ASSUME NEW id \in Ids, NEW end \in {"back", "front"}, Call(id, end) PROVE GraphInv'
    BY <2>3, CallInv
  <2>4. CASE SkipKnown
    BY <2>4, SkipKnownInv
  <2>5. CASE Visit
    BY <2>5, VisitInv
  <2>6. CASE ReturnImpact
    BY <2>6 DEF ReturnImpact, GraphInv
  <2>7. CASE UNCHANGED graphVars
    <3>1. edges' = edges /\ call' = call
      BY <2>7
    <3>2. Frontier' <=> Frontier
      BY <3>1 DEF Frontier, Visited, Feeds
    <3>3. Listed' <=> Listed
      BY <3>1 DEF Listed, Feeds
    <3>4. OnlyReachable' <=> OnlyReachable
      BY <3>1 DEF OnlyReachable, Visited, Affected, Closed
    <3>5. EachEdgeFollowedOnce' <=> EachEdgeFollowedOnce
      BY <3>1 DEF EachEdgeFollowedOnce, EdgesOut, Visited
    <3>6. QED
      BY <3>1, <3>2, <3>3, <3>4, <3>5 DEF GraphInv
  <2>8. QED
    BY <2>1, <2>2, <2>3, <2>4, <2>5, <2>6, <2>7 DEF GraphNext
<1>3. QED
  BY <1>1, <1>2, PTL DEF GraphSpec

(* For any graph the work of a call is bounded by its edges, however many  *)
(* paths lead over them (model.rs:222-235).                                *)
THEOREM EdgesFollowedOnce == GraphSpec => []EachEdgeFollowedOnce
<1>1. GraphInv => EachEdgeFollowedOnce
  BY DEF GraphInv, EachEdgeFollowedOnce
<1>2. QED
  BY <1>1, ImpactInvariance, PTL

(* For any graph, cyclic or with parallel edges, the chain returned is     *)
(* what is reachable from the broken table: each table once, the broken    *)
(* one first and every other after one that feeds it (model.rs:216-238).   *)
THEOREM ImpactsAreReachability == GraphSpec => ImpactIsReachability
<1>1. ASSUME GraphInv, ReturnImpact PROVE IsImpactOf(call)
  <2>1. /\ edges \in Seq(Edges) /\ call \in Calls /\ call.queue = << >>
        /\ Frontier /\ Listed /\ OnlyReachable
    BY <1>1 DEF GraphInv, ReturnImpact
  <2>2. call.affected \in Seq(Ids) /\ ToSet(call.queue) = {}
    BY <2>1 DEF Calls, ToSet
  <2>3. call.affected # << >> /\ call.affected[1] = call.target
    BY <2>1 DEF Frontier
  <2>4. Visited \in SUBSET Ids /\ call.target \in Visited
    <3>1. \A x : x \in ToSet(call.affected) <=> \E i \in 1..Len(call.affected) : call.affected[i] = x
      BY <2>2, InToSet
    <3>2. 1 \in 1..Len(call.affected) /\ \A i \in 1..Len(call.affected) : call.affected[i] \in Ids
      BY <2>2, <2>3
    <3>3. QED
      BY <2>3, <3>1, <3>2 DEF Visited
  <2>5. Closed(Visited)
    BY <2>1, <2>2 DEF Frontier, Closed
  <2>6. ToSet(call.affected) = Affected(call.target)
    <3>1. Affected(call.target) \subseteq Visited
      BY <2>4, <2>5 DEF Affected
    <3>2. QED
      BY <2>1, <3>1 DEF OnlyReachable, Visited
  <2>7. ASSUME NEW i \in 2..Len(call.affected)
        PROVE  \E j \in 1..(i - 1) : call.affected[j] \in ToSet(GetUpstream(call.affected[i]))
    <3>1. PICK j \in 1..(i - 1) : Feeds(call.affected[j], call.affected[i])
      BY <2>1 DEF Listed
    <3>2. QED
      BY <2>1, <3>1, UpstreamIs
  <2>8. QED
    BY <2>1, <2>3, <2>6, <2>7 DEF IsImpactOf, Listed
<1>2. QED
  BY <1>1, ImpactInvariance, PTL DEF ImpactIsReachability
=============================================================================
