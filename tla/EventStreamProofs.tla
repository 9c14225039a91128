--------------------------- MODULE EventStreamProofs ---------------------------
(***************************************************************************)
(* Two parts that fold a stream of events. The window executors: for any   *)
(* window type, resolution of time and sequence of events and cutoffs, a   *)
(* tumbling executor has one window open under an id, and every event is   *)
(* in exactly one window, open or closed, that contains its time; a        *)
(* sliding one has a window for the last event and few others open. The    *)
(* agent guard: for any stream of events and any policy, what its          *)
(* recommendation rests on, and which loops it reports.                    *)
(***************************************************************************)
EXTENDS StreamingWindows, AgentGuard, EnumerationProofs

-----------------------------------------------------------------------------
(* The window executors. *)

(* Windows follow from their number, open or closed.                       *)
Numbered ==
  Tumbling => \A w \in open \cup Closed :
    /\ w.start = FromSecs(w.id * AsSecs(type.size))
    /\ w.end = w.start + type.size

(* Every event is in some window and in no two, and a window that has one  *)
(* is not both open and closed: an event added to the open one would then  *)
(* leave the closed one behind.                                            *)
Held ==
  Tumbling =>
    /\ \A i \in DOMAIN arrived : \E w \in open \cup Closed : i \in w.events
    /\ \A w \in open \cup Closed : w.events \subseteq DOMAIN arrived
    /\ \A v, w \in open \cup Closed : v # w => v.events \cap w.events = {}
    /\ \A v \in open, w \in Closed : v.events \cap w.events = {}

(* An event's time is in its window, and what is closed has ended.         *)
Timely ==
  Tumbling =>
    /\ \A w \in open \cup Closed, i \in DOMAIN arrived :
         i \in w.events => w.start <= arrived[i].ts /\ arrived[i].ts <= w.end
    /\ \A c \in closed : c.window.end < c.cutoff

IInv == TypeOK /\ Numbered /\ Held /\ Timely

USE DEF vars, history

-----------------------------------------------------------------------------
(* Arithmetic. *)

(* Division rounds down by less than the divisor.                         *)
LEMMA DivBounds ==
  ASSUME NEW n \in Nat, NEW m \in Nat \ {0}
  PROVE  n \div m \in Nat /\ (n \div m) * m <= n /\ n < (n \div m) * m + m
BY SMT

(* Products of naturals are naturals.                                     *)
LEMMA ProductNat ==
  ASSUME NEW a \in Nat, NEW b \in Nat
  PROVE  a * b \in Nat
BY SMT

(* Products grow with their first factor.                                 *)
LEMMA ProductMonotone ==
  ASSUME NEW a \in Nat, NEW b \in Nat, NEW c \in Nat, a <= b
  PROVE  a * c <= b * c
BY SMT

(* The numbering multiplies sums out.                                     *)
LEMMA Distributes ==
  ASSUME NEW a \in Nat, NEW b \in Nat, NEW c \in Nat
  PROVE  (a + b) * c = a * c + b * c
BY SMT

(* as_secs and from_secs stay within the naturals.                        *)
LEMMA SecondsNat ==
  ASSUME NEW d \in Nat
  PROVE  AsSecs(d) \in Nat /\ FromSecs(d) \in Nat
BY DivBounds, ProductNat, TicksAssumption DEF AsSecs, FromSecs

(* The window numbered by whole seconds contains the time, though time and *)
(* size have fractions: the size the numbering leaves out only widens it.  *)
LEMMA NumberedWindowContains ==
  ASSUME NEW ts \in Nat, NEW size \in Nat, AsSecs(size) > 0,
         NEW start, start = FromSecs((AsSecs(ts) \div AsSecs(size)) * AsSecs(size))
  PROVE  start \in Nat /\ start <= ts /\ ts <= start + size
<1> DEFINE T == TicksPerSecond
           t == AsSecs(ts)
           s == AsSecs(size)
           n == t \div s
<1>1. T \in Nat \ {0} /\ t \in Nat /\ s \in Nat \ {0}
  BY SecondsNat, TicksAssumption
<1>2. n \in Nat /\ n * s <= t /\ t < n * s + s
  BY <1>1, DivBounds
<1>3. t * T <= ts /\ ts < t * T + T
  BY <1>1, DivBounds DEF AsSecs
<1>4. s * T <= size
  BY <1>1, DivBounds DEF AsSecs
<1>5. n * s \in Nat /\ start = (n * s) * T
  BY <1>1, <1>2, ProductNat DEF FromSecs
<1> HIDE DEF T, t, s, n
<1>6. start \in Nat /\ start <= t * T
  BY <1>1, <1>2, <1>5, ProductNat, ProductMonotone
<1>7. (t + 1) * T <= (n * s + s) * T
  <2>1. t + 1 <= n * s + s /\ t + 1 \in Nat /\ n * s + s \in Nat
    BY <1>1, <1>2, <1>5
  <2>2. QED
    BY <1>1, <2>1, ProductMonotone
<1>8. (t + 1) * T = t * T + T /\ (n * s + s) * T = start + s * T
  BY <1>1, <1>5, Distributes
<1>9. t * T \in Nat /\ s * T \in Nat
  BY <1>1, ProductNat
<1>10. QED
  BY <1>1, <1>3, <1>4, <1>6, <1>7, <1>8, <1>9

-----------------------------------------------------------------------------
(* What an event does to the windows. *)

(* An executor is tumbling or sliding, with the durations of its kind.    *)
LEMMA TypesOfType ==
  ASSUME TypeOK
  PROVE  /\ type.size \in Nat
         /\ Sliding => type.slide \in Nat
         /\ Tumbling \/ Sliding
         /\ ~(Tumbling /\ Sliding)
BY TypesAssumption DEF TypeOK, WindowType, Duration, Tumbling, Sliding

(* Finding by id gives the open window of the id, or an empty new one.     *)
LEMMA Found ==
  ASSUME TypeOK, NEW id \in Nat, NEW start \in Nat
  PROVE  /\ FindOrOpen(id, start) \in Window
         /\ FindOrOpen(id, start).id = id
         /\ \/ FindOrOpen(id, start) \in open /\ WithId(id) = {FindOrOpen(id, start)}
            \/ FindOrOpen(id, start) = Starting(id, start) /\ WithId(id) = {}
<1>1. CASE WithId(id) = {}
  <2>1. FindOrOpen(id, start) = Starting(id, start)
    BY <1>1 DEF FindOrOpen
  <2>2. Starting(id, start) \in Window /\ Starting(id, start).id = id
    BY TypesOfType DEF Starting, Window
  <2>3. QED
    BY <1>1, <2>1, <2>2
<1>2. CASE WithId(id) # {}
  <2>1. FindOrOpen(id, start) \in WithId(id)
    BY <1>2 DEF FindOrOpen
  <2>2. WithId(id) = {FindOrOpen(id, start)}
    BY <2>1 DEF WithId, TypeOK
  <2>3. QED
    BY <2>1, <2>2 DEF WithId, TypeOK
<1>3. QED
  BY <1>1, <1>2

(* The window a tumbling event is added to, and that it is added.          *)
LEMMA Added ==
  ASSUME TypeOK, Numbered, Tumbling, AsSecs(type.size) > 0, NEW ts \in Time
  PROVE  LET number == AsSecs(ts) \div AsSecs(type.size)
             w == FindOrOpen(number, FromSecs(number * AsSecs(type.size)))
         IN  /\ number \in Nat
             /\ w \in Window /\ w.id = number
             /\ w.start = FromSecs(number * AsSecs(type.size)) /\ w.end = w.start + type.size
             /\ w.start <= ts /\ ts <= w.end
             /\ AddEvent(w, ts) = [w EXCEPT !.events = @ \cup {Len(arrived) + 1}]
             /\ \/ w \in open /\ WithId(number) = {w}
                \/ w.events = {} /\ WithId(number) = {}
<1> DEFINE number == AsSecs(ts) \div AsSecs(type.size)
           start == FromSecs(number * AsSecs(type.size))
           w == FindOrOpen(number, start)
<1>1. ts \in Nat /\ type.size \in Nat
  BY TypesOfType, BoundsAssumption DEF Time
<1>2. number \in Nat
  BY <1>1, SecondsNat, DivBounds
<1>3. start \in Nat /\ start <= ts /\ ts <= start + type.size
  BY <1>1, NumberedWindowContains
<1> HIDE DEF number, start
<1>4. /\ w \in Window /\ w.id = number
      /\ \/ w \in open /\ WithId(number) = {w}
         \/ w = Starting(number, start) /\ WithId(number) = {}
  BY <1>2, <1>3, Found
<1>5. w.start = start /\ w.end = start + type.size
  BY <1>4 DEF Numbered, Starting, start
<1>6. w = Starting(number, start) => w.events = {}
  BY DEF Starting
<1>7. AddEvent(w, ts) = [w EXCEPT !.events = @ \cup {Len(arrived) + 1}]
  BY <1>3, <1>5 DEF AddEvent
<1>8. QED
  BY <1>2, <1>3, <1>4, <1>5, <1>6, <1>7 DEF number, start

-----------------------------------------------------------------------------
(* The types. *)

(* A new executor has no windows.                                         *)
LEMMA InitTypes ==
  ASSUME Init
  PROVE  TypeOK
BY DEF Init, TypeOK, Window

(* The history of arrivals grows by the one event.                        *)
LEMMA ArrivalType ==
  ASSUME TypeOK, NEW ts \in Time, Arrive(ts)
  PROVE  /\ arrived' \in Seq([ts : Time, watermark : Nat])
         /\ Len(arrived') = Len(arrived) + 1
         /\ \A i \in DOMAIN arrived : arrived'[i] = arrived[i]
         /\ arrived'[Len(arrived) + 1].ts = ts
         /\ DOMAIN arrived' = DOMAIN arrived \cup {Len(arrived) + 1}
         /\ Len(arrived) + 1 \notin DOMAIN arrived
BY DEF TypeOK, Arrive

(* A tumbling event leaves the window of its id in the place of itself.    *)
LEMMA TumblingTypes ==
  ASSUME TypeOK, Numbered, NEW ts \in Time, TumblingEvent(ts)
  PROVE  TypeOK'
<1> DEFINE number == AsSecs(ts) \div AsSecs(type.size)
           w == FindOrOpen(number, FromSecs(number * AsSecs(type.size)))
           added == AddEvent(w, ts)
<1>1. w \in Window /\ w.id = number /\ added = [w EXCEPT !.events = @ \cup {Len(arrived) + 1}]
  BY Added DEF TumblingEvent
<1>2. open' = (open \ WithId(number)) \cup {added} /\ result' = {added}
  BY DEF TumblingEvent
<1>3. UNCHANGED <<type, closed, pc, watermark>>
  BY DEF TumblingEvent
<1> HIDE DEF w, added, number
<1>4. added \in Window /\ added.id = number
  <2>1. Len(arrived) + 1 \in Nat
    BY DEF TypeOK
  <2>2. QED
    BY <1>1, <2>1 DEF Window
<1>5. open' \subseteq Window /\ \A u, v \in open' : u.id = v.id => u = v
  BY <1>2, <1>4 DEF WithId, TypeOK
<1>6. arrived' \in Seq([ts : Time, watermark : Nat])
  BY ArrivalType DEF TumblingEvent
<1>7. QED
  BY <1>2, <1>3, <1>4, <1>5, <1>6 DEF TypeOK

(* The windows found for a sliding event have different ids, and those of  *)
(* an id that is open are the open ones.                                   *)
LEMMA SlidingTypes ==
  ASSUME TypeOK, NEW ts \in Time, SlidingEvent(ts)
  PROVE  TypeOK'
<1> DEFINE found == {FindOrOpen(k, SlideStart(k)) : k \in SlidesOf(ts)}
<1>1. \A k \in SlidesOf(ts) : k \in Nat /\ SlideStart(k) \in Nat
  <2> SUFFICES ASSUME NEW k \in SlidesOf(ts)
               PROVE  k \in Nat /\ SlideStart(k) \in Nat
    OBVIOUS
  <2>1. k \in Nat
    BY BoundsAssumption DEF SlidesOf, Time
  <2>2. AsSecs(type.slide) \in Nat
    BY TypesOfType, SecondsNat DEF SlidingEvent
  <2>3. k * AsSecs(type.slide) \in Nat
    BY <2>1, <2>2, ProductNat
  <2>4. QED
    BY <2>1, <2>3, SecondsNat DEF SlideStart
<1>2. \A w \in found : w \in Window /\ (w \in open \/ \A v \in open : v.id # w.id)
  BY <1>1, Found DEF WithId
<1>3. \A v, w \in found : v.id = w.id => v = w
  BY <1>1, Found
<1>4. open' \subseteq open \cup found /\ result' = found
  BY DEF SlidingEvent
<1>5. UNCHANGED <<type, closed, pc, watermark>>
  BY DEF SlidingEvent
<1>6. arrived' \in Seq([ts : Time, watermark : Nat])
  BY ArrivalType DEF SlidingEvent
<1> HIDE DEF found
<1>7. open' \subseteq Window /\ \A v, w \in open' : v.id = w.id => v = w
  BY <1>2, <1>3, <1>4 DEF TypeOK
<1>8. QED
  BY <1>2, <1>4, <1>5, <1>6, <1>7 DEF TypeOK

(* Closing moves windows from the open to the closed ones.                *)
LEMMA CloseTypes ==
  ASSUME TypeOK, NEW cutoff \in 1..(MaxTime + 1), CloseBefore(cutoff)
  PROVE  TypeOK'
<1>1. cutoff \in Nat
  BY BoundsAssumption
<1>2. open' \subseteq open /\ UNCHANGED <<type, result, pc, arrived>>
  BY DEF CloseBefore
<1>3. closed' \subseteq [window : Window, cutoff : Nat]
  BY <1>1 DEF CloseBefore, TypeOK
<1>4. watermark' \in Nat
  BY <1>1 DEF CloseBefore, TypeOK
<1>5. QED
  BY <1>2, <1>3, <1>4 DEF TypeOK

(* Every step keeps the types.                                            *)
LEMMA TypeStep ==
  ASSUME TypeOK, Numbered, [Next]_vars
  PROVE  TypeOK'
<1>1. ASSUME NEW ts \in Time, TumblingEvent(ts)
      PROVE  TypeOK'
  BY <1>1, TumblingTypes
<1>2. ASSUME NEW ts \in Time, SlidingEvent(ts)
      PROVE  TypeOK'
  BY <1>2, SlidingTypes
<1>3. ASSUME NEW ts \in Time, SlidingLoop(ts)
      PROVE  TypeOK'
  BY <1>3 DEF SlidingLoop, TypeOK
<1>4. CASE TumblingPanic
  BY <1>4 DEF TumblingPanic, TypeOK
<1>5. CASE EventBeforeEpoch
  BY <1>5 DEF EventBeforeEpoch, TypeOK
<1>6. ASSUME NEW cutoff \in 1..(MaxTime + 1), CloseBefore(cutoff)
      PROVE  TypeOK'
  BY <1>6, CloseTypes
<1>7. CASE UNCHANGED vars
  BY <1>7 DEF TypeOK
<1>8. QED
  BY <1>1, <1>2, <1>3, <1>4, <1>5, <1>6, <1>7 DEF Next

-----------------------------------------------------------------------------
(* The windows of a tumbling executor. *)

(* What a tumbling event does, in the terms of the invariants.             *)
LEMMA TumblingEffect ==
  ASSUME IInv, NEW ts \in Time, TumblingEvent(ts)
  PROVE  \E w, added \in Window :
           /\ open' = (open \ {w}) \cup {added}
           /\ added = [w EXCEPT !.events = @ \cup {Len(arrived) + 1}]
           /\ w.start = FromSecs(w.id * AsSecs(type.size)) /\ w.end = w.start + type.size
           /\ w.start <= ts /\ ts <= w.end
           /\ w \in open \/ w.events = {}
<1> DEFINE number == AsSecs(ts) \div AsSecs(type.size)
           w == FindOrOpen(number, FromSecs(number * AsSecs(type.size)))
           added == AddEvent(w, ts)
<1>1. /\ w \in Window /\ w.id = number
      /\ w.start = FromSecs(number * AsSecs(type.size)) /\ w.end = w.start + type.size
      /\ w.start <= ts /\ ts <= w.end
      /\ added = [w EXCEPT !.events = @ \cup {Len(arrived) + 1}]
      /\ \/ w \in open /\ WithId(number) = {w}
         \/ w.events = {} /\ WithId(number) = {}
  BY Added DEF TumblingEvent, IInv
<1>2. open' = (open \ WithId(number)) \cup {added}
  BY DEF TumblingEvent
<1> HIDE DEF w, added, number
<1>3. added \in Window
  <2>1. Len(arrived) + 1 \in Nat
    BY DEF IInv, TypeOK
  <2>2. QED
    BY <1>1, <2>1 DEF Window
<1>4. open' = (open \ {w}) \cup {added}
  BY <1>1, <1>2 DEF WithId
<1>5. QED
  BY <1>1, <1>3, <1>4

(* What closing does: no window is lost, and only those that ended go.    *)
LEMMA CloseEffect ==
  ASSUME TypeOK, NEW cutoff \in 1..(MaxTime + 1), CloseBefore(cutoff)
  PROVE  /\ open' \subseteq open /\ Closed' = Closed \cup (open \ open')
         /\ UNCHANGED <<type, arrived>>
         /\ \A c \in closed' \ closed : c.window.end < c.cutoff
<1> DEFINE expired == {w \in open : Expired(w, cutoff)}
<1>1. open' = open \ expired /\ UNCHANGED <<type, arrived>>
  BY DEF CloseBefore
<1>2. closed' = closed \cup {[window |-> w, cutoff |-> cutoff] : w \in expired}
  BY DEF CloseBefore
<1>3. Closed' = Closed \cup expired
  <2>1. Closed' = {c.window : c \in closed'}
    BY DEF Closed
  <2> DEFINE new == {[window |-> w, cutoff |-> cutoff] : w \in expired}
  <2>2. \A w \in expired : [window |-> w, cutoff |-> cutoff] \in new /\ [window |-> w, cutoff |-> cutoff].window = w
    OBVIOUS
  <2>3. \A c \in new : c.window \in expired
    OBVIOUS
  <2>4. closed' = closed \cup new
    BY <1>2
  <2> HIDE DEF expired, new
  <2>5. ASSUME NEW w \in expired
        PROVE  w \in Closed'
    BY <2>1, <2>2, <2>4
  <2>6. Closed \subseteq Closed'
    BY <2>1, <2>4 DEF Closed
  <2>7. Closed' \subseteq Closed \cup expired
    BY <2>1, <2>3, <2>4 DEF Closed
  <2>8. QED
    BY <2>5, <2>6, <2>7
<1>4. \A c \in closed' \ closed : c.window.end < c.cutoff
  BY <1>2 DEF Expired
<1>5. QED
  BY <1>1, <1>3, <1>4

(* The steps left: of a sliding executor, or ones that change no window of *)
(* a tumbling one and add no event.                                        *)
LEMMA OtherSteps ==
  ASSUME IInv, [Next]_vars,
         ~ \E ts \in Time : TumblingEvent(ts),
         ~ \E cutoff \in 1..(MaxTime + 1) : CloseBefore(cutoff)
  PROVE  /\ type' = type
         /\ Tumbling => UNCHANGED <<open, closed, arrived, watermark>>
<1>1. ASSUME NEW ts \in Time, SlidingEvent(ts)
      PROVE  ~Tumbling /\ type' = type
  BY <1>1, TypesOfType DEF SlidingEvent, IInv
<1>2. ASSUME NEW ts \in Time, SlidingLoop(ts)
      PROVE  UNCHANGED <<type, open, closed, arrived, watermark>>
  BY <1>2 DEF SlidingLoop
<1>3. CASE TumblingPanic
  BY <1>3 DEF TumblingPanic
<1>4. CASE EventBeforeEpoch
  BY <1>4 DEF EventBeforeEpoch
<1>5. CASE UNCHANGED vars
  BY <1>5
<1>6. QED
  BY <1>1, <1>2, <1>3, <1>4, <1>5 DEF Next

(* The windows keep the times their number gives them.                     *)
LEMMA NumberedStep ==
  ASSUME IInv, [Next]_vars
  PROVE  Numbered'
<1>1. ASSUME NEW ts \in Time, TumblingEvent(ts)
      PROVE  Numbered'
  <2>1. PICK w, added \in Window :
          /\ open' = (open \ {w}) \cup {added}
          /\ added = [w EXCEPT !.events = @ \cup {Len(arrived) + 1}]
          /\ w.start = FromSecs(w.id * AsSecs(type.size)) /\ w.end = w.start + type.size
    BY <1>1, TumblingEffect
  <2>2. added.id = w.id /\ added.start = w.start /\ added.end = w.end
    BY <2>1 DEF Window
  <2>3. Closed' = Closed /\ type' = type /\ Tumbling
    BY <1>1 DEF TumblingEvent, Closed
  <2>4. QED
    BY <2>1, <2>2, <2>3 DEF IInv, Numbered, Tumbling
<1>2. ASSUME NEW cutoff \in 1..(MaxTime + 1), CloseBefore(cutoff)
      PROVE  Numbered'
  BY <1>2, CloseEffect DEF IInv, Numbered, Tumbling
<1>3. CASE /\ ~ \E ts \in Time : TumblingEvent(ts)
           /\ ~ \E cutoff \in 1..(MaxTime + 1) : CloseBefore(cutoff)
  BY <1>3, OtherSteps DEF IInv, Numbered, Tumbling, Closed
<1>4. QED
  BY <1>1, <1>2, <1>3

(* The new event is in no window yet: adding it to an open window, the     *)
(* only one that has that window's earlier events, keeps it in one.        *)
LEMMA HeldStep ==
  ASSUME IInv, [Next]_vars
  PROVE  Held'
<1>1. ASSUME NEW ts \in Time, TumblingEvent(ts)
      PROVE  Held'
  <2> DEFINE e == Len(arrived) + 1
  <2>1. PICK w, added \in Window :
          /\ open' = (open \ {w}) \cup {added}
          /\ added = [w EXCEPT !.events = @ \cup {e}]
          /\ w \in open \/ w.events = {}
    BY <1>1, TumblingEffect
  <2>2. added.events = w.events \cup {e}
    BY <2>1 DEF Window
  <2>3. Closed' = Closed /\ type' = type /\ Tumbling /\ Arrive(ts)
    BY <1>1 DEF TumblingEvent, Closed
  <2>4. DOMAIN arrived' = DOMAIN arrived \cup {e} /\ e \notin DOMAIN arrived
    BY <2>3, ArrivalType DEF IInv
  <2> HIDE DEF e
  <2>5. /\ \A i \in DOMAIN arrived : \E u \in open \cup Closed : i \in u.events
        /\ \A u \in open \cup Closed : u.events \subseteq DOMAIN arrived
        /\ \A u, v \in open \cup Closed : u # v => u.events \cap v.events = {}
        /\ \A u \in open, v \in Closed : u.events \cap v.events = {}
    BY <2>3 DEF IInv, Held
  <2>6. w.events \subseteq DOMAIN arrived
    BY <2>1, <2>5
  <2>7. \A u \in (open \ {w}) \cup Closed : added.events \cap u.events = {}
    <3> SUFFICES ASSUME NEW u \in (open \ {w}) \cup Closed
                 PROVE  added.events \cap u.events = {}
      OBVIOUS
    <3>1. e \notin u.events
      BY <2>4, <2>5
    <3>2. w.events \cap u.events = {}
      BY <2>1, <2>5
    <3>3. QED
      BY <2>2, <3>1, <3>2
  <2>8. \A i \in DOMAIN arrived' : \E u \in open' \cup Closed : i \in u.events
    BY <2>1, <2>2, <2>4, <2>5
  <2>9. \A u \in open' \cup Closed : u.events \subseteq DOMAIN arrived'
    BY <2>1, <2>2, <2>4, <2>5, <2>6
  <2>10. \A u, v \in open' \cup Closed : u # v => u.events \cap v.events = {}
    BY <2>1, <2>5, <2>7
  <2>11. \A u \in open', v \in Closed : u.events \cap v.events = {}
    BY <2>1, <2>5, <2>7
  <2>12. QED
    BY <2>3, <2>8, <2>9, <2>10, <2>11 DEF Held
<1>2. ASSUME NEW cutoff \in 1..(MaxTime + 1), CloseBefore(cutoff)
      PROVE  Held'
  BY <1>2, CloseEffect DEF IInv, Held, Tumbling
<1>3. CASE /\ ~ \E ts \in Time : TumblingEvent(ts)
           /\ ~ \E cutoff \in 1..(MaxTime + 1) : CloseBefore(cutoff)
  BY <1>3, OtherSteps DEF IInv, Held, Tumbling, Closed
<1>4. QED
  BY <1>1, <1>2, <1>3

(* An event goes to the window whose numbered span has its time, and only  *)
(* a window that ended before the cutoff is closed.                        *)
LEMMA TimelyStep ==
  ASSUME IInv, [Next]_vars
  PROVE  Timely'
<1>1. ASSUME NEW ts \in Time, TumblingEvent(ts)
      PROVE  Timely'
  <2> DEFINE e == Len(arrived) + 1
  <2>1. PICK w, added \in Window :
          /\ open' = (open \ {w}) \cup {added}
          /\ added = [w EXCEPT !.events = @ \cup {e}]
          /\ w.start <= ts /\ ts <= w.end
          /\ w \in open \/ w.events = {}
    BY <1>1, TumblingEffect
  <2>2. added.events = w.events \cup {e} /\ added.start = w.start /\ added.end = w.end
    BY <2>1 DEF Window
  <2>3. Closed' = Closed /\ closed' = closed /\ type' = type /\ Tumbling /\ Arrive(ts)
    BY <1>1 DEF TumblingEvent, Closed
  <2>4. /\ DOMAIN arrived' = DOMAIN arrived \cup {e} /\ e \notin DOMAIN arrived
        /\ \A i \in DOMAIN arrived : arrived'[i] = arrived[i]
        /\ arrived'[e].ts = ts
    BY <2>3, ArrivalType DEF IInv
  <2> HIDE DEF e
  <2>5. /\ \A u \in open \cup Closed, i \in DOMAIN arrived :
             i \in u.events => u.start <= arrived[i].ts /\ arrived[i].ts <= u.end
        /\ \A u \in open \cup Closed : u.events \subseteq DOMAIN arrived
        /\ \A c \in closed : c.window.end < c.cutoff
    BY <2>3 DEF IInv, Timely, Held
  <2>6. ASSUME NEW u \in open' \cup Closed, NEW i \in DOMAIN arrived', i \in u.events
        PROVE  u.start <= arrived'[i].ts /\ arrived'[i].ts <= u.end
    <3>1. CASE u = added /\ i = e
      BY <2>1, <2>2, <2>4, <3>1
    <3>2. CASE u = added /\ i # e
      <4>1. i \in w.events /\ w \in open /\ i \in DOMAIN arrived
        BY <2>1, <2>2, <2>4, <2>6, <3>2
      <4>2. QED
        BY <2>2, <2>4, <2>5, <3>2, <4>1
    <3>3. CASE u # added
      <4>1. u \in open \cup Closed /\ i \in DOMAIN arrived
        BY <2>1, <2>5, <2>6, <3>3
      <4>2. QED
        BY <2>4, <2>5, <2>6, <4>1
    <3>4. QED
      BY <3>1, <3>2, <3>3
  <2>7. QED
    BY <2>3, <2>5, <2>6 DEF Timely
<1>2. ASSUME NEW cutoff \in 1..(MaxTime + 1), CloseBefore(cutoff)
      PROVE  Timely'
  BY <1>2, CloseEffect DEF IInv, Timely, Tumbling
<1>3. CASE /\ ~ \E ts \in Time : TumblingEvent(ts)
           /\ ~ \E cutoff \in 1..(MaxTime + 1) : CloseBefore(cutoff)
  BY <1>3, OtherSteps DEF IInv, Timely, Tumbling, Closed
<1>4. QED
  BY <1>1, <1>2, <1>3

-----------------------------------------------------------------------------
(* The theorems. *)

(* The strengthening is inductive.                                         *)
THEOREM Invariance == Spec => []IInv
<1>1. Init => IInv
  <2> SUFFICES ASSUME Init
               PROVE  IInv
    OBVIOUS
  <2>1. open = {} /\ Closed = {} /\ closed = {} /\ DOMAIN arrived = {}
    BY DEF Init, Closed
  <2>2. Numbered /\ Held /\ Timely
    BY <2>1 DEF Numbered, Held, Timely
  <2>3. QED
    BY <2>2, InitTypes DEF IInv
<1>2. IInv /\ [Next]_vars => IInv'
  <2> SUFFICES ASSUME IInv, [Next]_vars
               PROVE  IInv'
    OBVIOUS
  <2>1. TypeOK'
    BY TypeStep DEF IInv
  <2>2. Numbered' /\ Held' /\ Timely'
    BY NumberedStep, HeldStep, TimelyStep
  <2>3. QED
    BY <2>1, <2>2 DEF IInv
<1>3. QED
  BY <1>1, <1>2, PTL DEF Spec

(* Whatever the window types and the calls, the state keeps its types and  *)
(* a window id is open once: both executors look a window up by its id     *)
(* before they push a new one (streaming.rs:97-103, 157-178).              *)
THEOREM WindowsTyped == Spec => []TypeOK
<1>1. IInv => TypeOK
  BY DEF IInv
<1>2. QED
  BY <1>1, Invariance, PTL

(* A tumbling executor of any size and resolution keeps every event in     *)
(* exactly one window, open or closed, that contains its time, also when   *)
(* late events open a closed window again; what it closes has ended before *)
(* the cutoff (streaming.rs:84-125).                                       *)
THEOREM EventsPlaced == Spec => []EveryEventInOneWindow
<1>1. IInv => EveryEventInOneWindow
  <2> SUFFICES ASSUME IInv, Tumbling
               PROVE  EveryEventInOneWindow
    BY DEF EveryEventInOneWindow
  <2>1. ASSUME NEW i \in DOMAIN arrived
        PROVE  Cardinality({w \in open \cup Closed : i \in w.events}) = 1
    <3>1. PICK w \in open \cup Closed : i \in w.events
      BY <2>1 DEF IInv, Held
    <3>2. {u \in open \cup Closed : i \in u.events} = {w}
      BY <3>1 DEF IInv, Held
    <3>3. QED
      BY <3>2, FS_Singleton
  <2>2. QED
    BY <2>1 DEF IInv, Timely, EveryEventInOneWindow
<1>2. QED
  BY <1>1, Invariance, PTL

-----------------------------------------------------------------------------
(* Late events. *)

(* What is closed ended before the watermark; a window opened under the id *)
(* of a closed one has only later events; so only late events come twice.  *)
Passed == Tumbling => \A w \in Closed : w.end < watermark
Reopened ==
  Tumbling => \A v \in Closed, w \in open : v.id = w.id => \A i \in v.events, j \in w.events : i < j

Lateness == Passed /\ Reopened /\ OnlyLateEventsReopen

(* A tumbling event meets a closed window of its id only if it is late.    *)
LEMMA TumblingLateness ==
  ASSUME IInv, Lateness, NEW ts \in Time, TumblingEvent(ts)
  PROVE  Lateness'
<1> DEFINE e == Len(arrived) + 1
<1>1. PICK w, added \in Window :
        /\ open' = (open \ {w}) \cup {added}
        /\ added = [w EXCEPT !.events = @ \cup {e}]
        /\ w.start = FromSecs(w.id * AsSecs(type.size)) /\ w.end = w.start + type.size
        /\ w.start <= ts /\ ts <= w.end
        /\ w \in open \/ w.events = {}
  BY TumblingEffect
<1>2. added.events = w.events \cup {e} /\ added.id = w.id
  BY <1>1 DEF Window
<1>3. Closed' = Closed /\ type' = type /\ watermark' = watermark /\ Tumbling /\ Tumbling' /\ Arrive(ts)
  BY DEF TumblingEvent, Closed, Tumbling
<1>4. /\ \A i \in DOMAIN arrived : arrived'[i] = arrived[i] /\ i \in Nat /\ i < e
      /\ arrived'[e].ts = ts /\ arrived'[e].watermark = watermark
      /\ e \in Nat
  <2>1. arrived'[e].watermark = watermark
    BY <1>3 DEF Arrive, IInv, TypeOK
  <2>2. \A i \in DOMAIN arrived : i \in Nat /\ i < e
    BY DEF IInv, TypeOK
  <2>3. e \in Nat
    BY DEF IInv, TypeOK
  <2>4. QED
    BY <1>3, <2>1, <2>2, <2>3, ArrivalType DEF IInv
<1> HIDE DEF e
<1>5. \A u \in open \cup Closed : u.events \subseteq DOMAIN arrived
  BY <1>3 DEF IInv, Held
<1>6. ASSUME NEW v \in Closed, v.id = added.id
      PROVE  /\ \A i \in v.events : i < e
             /\ ts < watermark
             /\ v # w => \A i \in v.events, j \in w.events : i < j
             /\ v = w => v.events = {}
  <2>1. v.end = w.end
    BY <1>1, <1>2, <1>3, <1>6 DEF IInv, Numbered
  <2>2. v.end < watermark /\ v \in Window /\ watermark \in Nat
    BY <1>3 DEF Lateness, Passed, IInv, TypeOK, Closed
  <2>3. ts < watermark
    BY <1>1, <2>1, <2>2, BoundsAssumption DEF Time, Window
  <2>4. \A i \in v.events : i < e
    BY <1>4, <1>5
  <2>5. v # w => \A i \in v.events, j \in w.events : i < j
    BY <1>1, <1>2, <1>3, <1>6 DEF Lateness, Reopened
  <2>6. v = w => v.events = {}
    BY <1>1, <1>3 DEF IInv, Held
  <2>7. QED
    BY <2>3, <2>4, <2>5, <2>6
<1>7. Passed'
  BY <1>3 DEF Lateness, Passed
<1>8. Reopened'
  <2> SUFFICES ASSUME NEW v \in Closed, NEW u \in open', v.id = u.id,
                      NEW i \in v.events, NEW j \in u.events
               PROVE  i < j
    BY <1>3 DEF Reopened
  <2>1. CASE u = added
    BY <1>2, <1>6, <2>1
  <2>2. CASE u # added
    BY <1>1, <1>3, <2>2 DEF Lateness, Reopened
  <2>3. QED
    BY <2>1, <2>2
<1>9. OnlyLateEventsReopen'
  <2> SUFFICES ASSUME NEW v \in Closed, NEW u \in open' \cup Closed, v.id = u.id, v # u,
                      NEW i \in v.events, NEW j \in u.events, i < j
               PROVE  Late(j)'
    BY <1>3 DEF OnlyLateEventsReopen
  <2>1. CASE j = e
    <3>1. u = added
      BY <1>1, <1>4, <1>5, <2>1
    <3>2. QED
      BY <1>4, <1>6, <2>1, <3>1 DEF Late
  <2>2. CASE j # e
    <3>1. PICK t \in open \cup Closed : v.id = t.id /\ v # t /\ j \in t.events
      <4>1. CASE u = added
        BY <1>1, <1>2, <1>6, <2>2, <4>1
      <4>2. CASE u # added
        BY <1>1, <4>2
      <4>3. QED
        BY <4>1, <4>2
    <3>2. Late(j)
      BY <1>3, <3>1 DEF Lateness, OnlyLateEventsReopen
    <3>3. QED
      BY <1>4, <1>5, <3>1, <3>2 DEF Late
  <2>3. QED
    BY <2>1, <2>2
<1>10. QED
  BY <1>7, <1>8, <1>9 DEF Lateness

(* Of an id only one window is open, so what is closed follows the windows *)
(* of its id that were closed before.                                      *)
LEMMA CloseLateness ==
  ASSUME IInv, Lateness, NEW cutoff \in 1..(MaxTime + 1), CloseBefore(cutoff)
  PROVE  Lateness'
<1>1. /\ open' \subseteq open /\ Closed' = Closed \cup (open \ open')
      /\ UNCHANGED <<type, arrived>>
  BY CloseEffect DEF IInv
<1>2. cutoff \in Nat /\ watermark \in Nat /\ watermark' \in Nat
      /\ cutoff <= watermark' /\ watermark <= watermark'
  BY BoundsAssumption DEF IInv, TypeOK, CloseBefore
<1>3. \A w \in open \ open' : w.end < cutoff
  BY DEF CloseBefore, Expired
<1>4. \A w \in open \cup Closed : w \in Window
  BY DEF IInv, TypeOK, Closed
<1>5. \A v, w \in open : v.id = w.id => v = w
  BY DEF IInv, TypeOK
<1>6. Passed'
  <2> SUFFICES ASSUME Tumbling, NEW w \in Closed \cup (open \ open')
               PROVE  w.end < watermark'
    BY <1>1 DEF Passed, Tumbling
  <2>1. w.end \in Nat
    BY <1>4 DEF Window
  <2>2. w.end < watermark \/ w.end < cutoff
    BY <1>3 DEF Lateness, Passed
  <2>3. QED
    BY <1>2, <2>1, <2>2
<1>7. Reopened'
  BY <1>1, <1>5 DEF Lateness, Reopened, Tumbling
<1>8. OnlyLateEventsReopen'
  <2> SUFFICES ASSUME Tumbling, NEW v \in Closed', NEW w \in open' \cup Closed', v.id = w.id, v # w,
                      NEW i \in v.events, NEW j \in w.events, i < j
               PROVE  Late(j)
    BY <1>1 DEF OnlyLateEventsReopen, Tumbling, Late
  <2>1. CASE v \in Closed
    BY <1>1, <2>1 DEF Lateness, OnlyLateEventsReopen
  <2>2. CASE v \notin Closed
    <3>1. v \in open /\ w \in Closed
      BY <1>1, <1>5, <2>2
    <3>2. j < i
      BY <3>1 DEF Lateness, Reopened
    <3>3. i \in Nat /\ j \in Nat
      BY <1>4, <3>1 DEF Window
    <3>4. QED
      BY <3>2, <3>3
  <2>3. QED
    BY <2>1, <2>2
<1>9. QED
  BY <1>6, <1>7, <1>8 DEF Lateness

(* A tumbling executor of any size hands a window to its owner twice only  *)
(* through events whose time the watermark had passed (streaming.rs:107    *)
(* looks only at the windows still open).                                  *)
THEOREM LateEventsReopen == Spec => []OnlyLateEventsReopen
<1>1. Init => Lateness
  BY DEF Init, Lateness, Passed, Reopened, OnlyLateEventsReopen, Closed
<1>2. IInv /\ Lateness /\ [Next]_vars => Lateness'
  <2> SUFFICES ASSUME IInv, Lateness, [Next]_vars
               PROVE  Lateness'
    OBVIOUS
  <2>1. ASSUME NEW ts \in Time, TumblingEvent(ts)
        PROVE  Lateness'
    BY <2>1, TumblingLateness
  <2>2. ASSUME NEW cutoff \in 1..(MaxTime + 1), CloseBefore(cutoff)
        PROVE  Lateness'
    BY <2>2, CloseLateness
  <2>3. CASE /\ ~ \E ts \in Time : TumblingEvent(ts)
             /\ ~ \E cutoff \in 1..(MaxTime + 1) : CloseBefore(cutoff)
    <3>1. type' = type /\ (Tumbling => UNCHANGED <<open, closed, arrived, watermark>>)
      BY <2>3, OtherSteps
    <3>2. QED
      BY <3>1 DEF Lateness, Passed, Reopened, OnlyLateEventsReopen, Tumbling, Late, Closed
  <2>4. QED
    BY <2>1, <2>2, <2>3
<1>3. Lateness => OnlyLateEventsReopen
  BY DEF Lateness
<1>4. QED
  BY <1>1, <1>2, <1>3, Invariance, PTL DEF Spec

-----------------------------------------------------------------------------
(* Sliding windows of whole seconds without gaps. *)

Regular ==
  Sliding /\ WholeSeconds(type.size) /\ WholeSeconds(type.slide) /\ type.slide <= type.size

(* The latest event's time. *)
Last == arrived[Len(arrived)].ts
Ordered == \A i \in DOMAIN arrived : i > 1 => arrived[i - 1].ts <= arrived[i].ts

(* Windows follow from their number; those open have not ended before the  *)
(* last event, and began before it if the events came in order; one holds  *)
(* it unless a cutoff took that one.                                       *)
SlidesInv ==
  Regular =>
    /\ pc = "ready"
    /\ \A w \in open : w.start = SlideStart(w.id) /\ w.end = SlideEnd(w.id)
    /\ arrived = << >> => open = {}
    /\ arrived # << >> => \A w \in open : Last <= w.end /\ (Ordered => w.start <= Last)
    /\ InOrder /\ arrived # << >> => \E w \in open : w.start <= Last /\ Last <= w.end

(* Products group as they like.                                            *)
LEMMA Associates ==
  ASSUME NEW a \in Nat, NEW b \in Nat, NEW c \in Nat
  PROVE  (a * b) * c = a * (b * c)
BY SMT

(* Slide k begins at k slides and lasts a size.                            *)
LEMMA SlideTimes ==
  ASSUME TypeOK, Regular, NEW k \in Nat
  PROVE  /\ type.slide \in Nat \ {0} /\ type.size \in Nat \ {0} /\ type.slide <= type.size
         /\ k * type.slide \in Nat
         /\ SlideStart(k) = k * type.slide
         /\ SlideEnd(k) = k * type.slide + type.size
<1>1. type.size \in Nat /\ type.slide \in Nat
  BY TypesOfType DEF Regular
<1>2. type.slide = AsSecs(type.slide) * TicksPerSecond /\ type.slide > 0 /\ type.size > 0
  BY DEF Regular, WholeSeconds, FromSecs
<1>3. AsSecs(type.slide) \in Nat /\ TicksPerSecond \in Nat
  BY <1>1, SecondsNat, TicksAssumption
<1>4. (k * AsSecs(type.slide)) * TicksPerSecond = k * (AsSecs(type.slide) * TicksPerSecond)
  BY <1>3, Associates
<1>5. SlideStart(k) = k * type.slide
  BY <1>2, <1>4 DEF SlideStart, FromSecs
<1>6. k * type.slide \in Nat
  BY <1>1, ProductNat
<1>7. QED
  BY <1>1, <1>2, <1>5, <1>6 DEF SlideEnd, Regular

(* The walk ends at a slide that contains the time.                        *)
LEMMA WalkEnds ==
  ASSUME TypeOK, Regular, NEW ts \in Time
  PROVE  /\ \E k \in 0..(ts + 1) : Stops(k, ts)
         /\ SlidesOf(ts) # {}
<1> DEFINE d == type.slide
           S == {k \in Nat : Stops(k, ts)}
<1>1. ts \in Nat /\ ts + 1 \in Nat
  BY BoundsAssumption DEF Time
<1>2. d \in Nat \ {0} /\ type.size \in Nat \ {0} /\ d <= type.size
  BY <1>1, SlideTimes
<1>3. Stops(ts + 1, ts)
  <2>1. SlideEnd(ts + 1) = (ts + 1) * d + type.size
    BY <1>1, SlideTimes
  <2>2. 1 * (ts + 1) <= d * (ts + 1)
    <3>1. 1 <= d
      BY <1>2
    <3>2. QED
      BY <1>1, <1>2, <3>1, ProductMonotone
  <2>3. d * (ts + 1) = (ts + 1) * d /\ 1 * (ts + 1) = ts + 1 /\ (ts + 1) * d \in Nat
    BY <1>1, <1>2, ProductNat, SMT
  <2> HIDE DEF d
  <2>4. QED
    BY <1>1, <1>2, <2>1, <2>2, <2>3 DEF Stops
<1>4. PICK k \in S : \A j \in S : k <= j
  <2>1. S \in SUBSET Nat /\ S # {}
    BY <1>1, <1>3
  <2> HIDE DEF S
  <2>2. QED
    BY <2>1, LeastExists
<1>5. k \in 0..(ts + 1) /\ Stops(k, ts)
  <2>1. k \in Nat /\ Stops(k, ts)
    OBVIOUS
  <2>2. k <= ts + 1
    BY <1>1, <1>3, <1>4
  <2>3. QED
    BY <1>1, <2>1, <2>2
<1>6. Walked(k, ts)
  <2> SUFFICES ASSUME NEW j \in 0..(k - 1), Stops(j, ts)
               PROVE  FALSE
    BY DEF Walked
  <2>1. j \in Nat /\ j < k
    BY <1>5
  <2>2. QED
    BY <1>4, <1>5, <2>1
<1>7. SlideStart(k) <= ts
  <2>1. SlideStart(k) = k * d /\ k * d \in Nat
    BY <1>5, SlideTimes
  <2>2. CASE k = 0
    BY <1>1, <1>2, <2>1, <2>2
  <2>3. CASE k > 0
    <3>1. k - 1 \in Nat /\ k - 1 \in 0..(k - 1) /\ (k - 1) + 1 = k
      BY <1>5, <2>3
    <3>2. ~Stops(k - 1, ts)
      BY <1>6, <3>1 DEF Walked
    <3>3. SlideEnd(k - 1) = (k - 1) * d + type.size /\ (k - 1) * d \in Nat
      BY <3>1, SlideTimes
    <3>4. ((k - 1) + 1) * d = (k - 1) * d + 1 * d /\ 1 * d = d
      BY <1>2, <3>1, Distributes
    <3> HIDE DEF d
    <3>5. (k - 1) * d + type.size <= ts
      BY <1>1, <1>2, <3>2, <3>3 DEF Stops
    <3>6. QED
      BY <1>1, <1>2, <2>1, <3>1, <3>3, <3>4, <3>5
  <2>4. QED
    BY <1>5, <2>2, <2>3
<1>8. ts <= SlideEnd(k)
  <2>1. SlideEnd(k) = k * d + type.size /\ k * d \in Nat
    BY <1>5, SlideTimes
  <2>2. QED
    BY <1>1, <1>2, <1>5, <2>1 DEF Stops
<1>9. k \in SlidesOf(ts)
  BY <1>5, <1>6, <1>7, <1>8 DEF SlidesOf
<1>10. QED
  BY <1>5, <1>9

LEMMA LastNat ==
  ASSUME TypeOK, arrived # << >>
  PROVE  Last \in Nat
<1>1. arrived \in Seq([ts : Time, watermark : Nat]) /\ Len(arrived) \in 1..Len(arrived)
  BY DEF TypeOK
<1> DEFINE Arrival == [ts : Time, watermark : Nat]
<1>2. arrived[Len(arrived)] \in Arrival
  <2>1. arrived \in Seq(Arrival) /\ Len(arrived) \in 1..Len(arrived)
    BY <1>1
  <2> HIDE DEF Arrival
  <2>2. QED
    BY <2>1
<1>3. Last \in Time
  BY <1>2 DEF Last
<1>4. QED
  BY <1>3, BoundsAssumption DEF Time

(* Where the windows found for a sliding event lie.                        *)
LEMMA SlidesFound ==
  ASSUME TypeOK, SlidesInv, Regular, NEW ts \in Time, NEW k \in SlidesOf(ts)
  PROVE  LET w == FindOrOpen(k, SlideStart(k))
         IN  /\ w.start = SlideStart(w.id) /\ w.end = SlideEnd(w.id)
             /\ w.start <= ts /\ ts <= w.end
<1> DEFINE w == FindOrOpen(k, SlideStart(k))
<1>1. k \in Nat
  BY BoundsAssumption DEF SlidesOf, Time
<1>2. SlideStart(k) \in Nat
  BY <1>1, SlideTimes
<1>3. w.id = k /\ (w \in open \/ w = Starting(k, SlideStart(k)))
  BY <1>1, <1>2, Found
<1>4. w.start = SlideStart(k) /\ w.end = SlideEnd(k)
  <2>1. CASE w \in open
    BY <1>3, <2>1 DEF SlidesInv
  <2>2. CASE w = Starting(k, SlideStart(k))
    BY <2>2 DEF Starting, SlideEnd
  <2>3. QED
    BY <1>3, <2>1, <2>2
<1>5. SlideStart(k) <= ts /\ ts <= SlideEnd(k)
  BY DEF SlidesOf
<1>6. QED
  BY <1>3, <1>4, <1>5

(* An event finds its windows, and what ended before it goes.              *)
LEMMA SlidingSlides ==
  ASSUME TypeOK, SlidesInv, NEW ts \in Time, SlidingEvent(ts)
  PROVE  SlidesInv'
<1> DEFINE found == {FindOrOpen(k, SlideStart(k)) : k \in SlidesOf(ts)}
           n == Len(arrived)
<1>1. /\ UNCHANGED <<type, pc, watermark>> /\ open' = {w \in open \cup found : ~Expired(w, ts)}
      /\ arrived' = Append(arrived, [ts |-> ts, watermark |-> watermark])
  BY DEF SlidingEvent, Arrive
<1>2. SUFFICES ASSUME Regular PROVE SlidesInv'
  BY <1>1 DEF SlidesInv, Regular, Sliding, WholeSeconds
<1>3. /\ pc = "ready"
      /\ \A w \in open : w.start = SlideStart(w.id) /\ w.end = SlideEnd(w.id)
      /\ arrived = << >> => open = {}
      /\ arrived # << >> => \A w \in open : Last <= w.end /\ (Ordered => w.start <= Last)
  BY <1>2 DEF SlidesInv
<1>4. arrived \in Seq([ts : Time, watermark : Nat]) /\ n \in Nat /\ Time \subseteq Nat /\ ts \in Nat
  BY BoundsAssumption DEF TypeOK, Time
<1>5. \A w \in found : w.start = SlideStart(w.id) /\ w.end = SlideEnd(w.id) /\ w.start <= ts /\ ts <= w.end
  BY <1>2, SlidesFound
<1>6. found \subseteq Window /\ open \subseteq Window
  <2>1. ASSUME NEW k \in SlidesOf(ts) PROVE FindOrOpen(k, SlideStart(k)) \in Window
    <3>1. k \in Nat
      BY <1>4 DEF SlidesOf
    <3>2. SlideStart(k) \in Nat
      BY <1>2, <3>1, SlideTimes
    <3>3. QED
      BY <3>1, <3>2, Found
  <2>2. QED
    BY <2>1 DEF TypeOK
<1>7. found # {}
  BY <1>2, WalkEnds
<1> HIDE DEF found
<1>8. /\ Len(arrived') = n + 1 /\ arrived'[n + 1].ts = ts
      /\ \A i \in 1..n : arrived'[i] = arrived[i]
      /\ DOMAIN arrived' = 1..(n + 1) /\ DOMAIN arrived = 1..n
      /\ arrived = << >> <=> n = 0
  BY <1>1, <1>4
<1>9. Last' = ts
  BY <1>8 DEF Last
<1>10. n > 0 /\ Ordered' => Ordered /\ Last <= ts
  <2> SUFFICES ASSUME n > 0, Ordered' PROVE Ordered /\ Last <= ts
    OBVIOUS
  <2>1. \A i \in 1..(n + 1) : i > 1 => arrived'[i - 1].ts <= arrived'[i].ts
    BY <1>8 DEF Ordered
  <2>2. ASSUME NEW i \in 1..n, i > 1 PROVE arrived[i - 1].ts <= arrived[i].ts
    <3>1. i \in 1..(n + 1) /\ i - 1 \in 1..n
      BY <1>4, <2>2
    <3>2. QED
      BY <1>8, <2>1, <2>2, <3>1
  <2>3. arrived[n].ts <= ts
    <3>1. n + 1 \in 1..(n + 1) /\ n + 1 > 1 /\ (n + 1) - 1 = n /\ n \in 1..n
      BY <1>4
    <3>2. arrived'[n].ts <= arrived'[n + 1].ts
      BY <2>1, <3>1
    <3>3. QED
      BY <1>8, <3>1, <3>2
  <2>4. QED
    BY <1>8, <2>2, <2>3 DEF Ordered, Last
<1>11. ASSUME NEW w \in open'
       PROVE  ts <= w.end /\ (Ordered' => w.start <= ts)
  <2>1. w \in open \cup found /\ ~Expired(w, ts) /\ w.start \in Nat /\ w.end \in Nat
    BY <1>1, <1>6 DEF Window
  <2>2. ts <= w.end
    BY <1>4, <2>1 DEF Expired
  <2>3. CASE w \in found
    BY <1>5, <2>2, <2>3
  <2>4. CASE w \in open
    <3>1. n > 0 /\ (Ordered => w.start <= Last)
      BY <1>3, <1>4, <1>8, <2>4
    <3>2. Last \in Nat
      BY <1>8, <3>1, LastNat
    <3>3. QED
      BY <1>4, <1>10, <2>1, <2>2, <3>1, <3>2
  <2>5. QED
    BY <2>1, <2>3, <2>4
<1>12. \E w \in open' : w.start <= ts /\ ts <= w.end
  <2>1. PICK w \in found : TRUE
    BY <1>7
  <2>2. w.start <= ts /\ ts <= w.end /\ w.end \in Nat
    BY <1>5, <1>6 DEF Window
  <2>3. w \in open'
    BY <1>1, <1>4, <2>2 DEF Expired
  <2>4. QED
    BY <2>2, <2>3
<1>13. \A w \in open' : w.start = SlideStart(w.id)' /\ w.end = SlideEnd(w.id)'
  BY <1>1, <1>3, <1>5 DEF SlideStart, SlideEnd
<1>14. arrived' # << >> /\ pc' = "ready"
  BY <1>1, <1>3, <1>8
<1>15. QED
  BY <1>9, <1>11, <1>12, <1>13, <1>14 DEF SlidesInv

(* A cutoff up to the last event leaves the window that holds it.          *)
LEMMA CloseSlides ==
  ASSUME TypeOK, SlidesInv, NEW cutoff \in 1..(MaxTime + 1), CloseBefore(cutoff)
  PROVE  SlidesInv'
<1>1. /\ UNCHANGED <<type, pc, arrived>> /\ open' = {w \in open : ~Expired(w, cutoff)}
      /\ watermark' = IF cutoff > watermark THEN cutoff ELSE watermark
      /\ cutoff \in Nat /\ watermark \in Nat
  BY BoundsAssumption DEF CloseBefore, TypeOK
<1>2. SUFFICES ASSUME Regular PROVE SlidesInv'
  BY <1>1 DEF SlidesInv, Regular, Sliding, WholeSeconds
<1>3. /\ Last' = Last /\ Ordered' = Ordered
      /\ \A k : SlideStart(k)' = SlideStart(k) /\ SlideEnd(k)' = SlideEnd(k)
  BY <1>1 DEF Last, Ordered, SlideStart, SlideEnd
<1>4. InOrder' /\ arrived # << >> => \E w \in open' : w.start <= Last /\ Last <= w.end
  <2> SUFFICES ASSUME InOrder', arrived # << >>
               PROVE  \E w \in open' : w.start <= Last /\ Last <= w.end
    OBVIOUS
  <2>1. Last \in Nat
    BY LastNat
  <2>2. watermark' <= Last
    BY <1>1 DEF InOrder, Last
  <2>3. watermark <= Last /\ cutoff <= Last
    BY <1>1, <2>1, <2>2
  <2>4. InOrder
    BY <1>1, <2>3 DEF InOrder, Late, Last
  <2>5. PICK w \in open : w.start <= Last /\ Last <= w.end
    BY <1>2, <2>4 DEF SlidesInv
  <2>6. w.end \in Nat
    BY DEF TypeOK, Window
  <2>7. w \in open'
    BY <1>1, <2>1, <2>3, <2>5, <2>6 DEF Expired
  <2>8. QED
    BY <2>5, <2>7
<1>5. QED
  BY <1>1, <1>2, <1>3, <1>4 DEF SlidesInv

(* The walk ends, so nothing else changes a regular executor.              *)
LEMMA SlidesStep ==
  ASSUME TypeOK, SlidesInv, [Next]_vars
  PROVE  SlidesInv'
<1>1. ASSUME NEW ts \in Time, TumblingEvent(ts)
      PROVE  SlidesInv'
  BY <1>1, TypesOfType DEF TumblingEvent, SlidesInv, Regular, Sliding
<1>2. ASSUME NEW ts \in Time, SlidingEvent(ts)
      PROVE  SlidesInv'
  BY <1>2, SlidingSlides
<1>3. ASSUME NEW ts \in Time, SlidingLoop(ts)
      PROVE  SlidesInv'
  <2>1. ~Regular
    BY <1>3, WalkEnds DEF SlidingLoop
  <2>2. ~Regular'
    BY <1>3, <2>1 DEF SlidingLoop, Regular, Sliding, WholeSeconds
  <2>3. QED
    BY <2>2 DEF SlidesInv
<1>4. CASE TumblingPanic
  BY <1>4, TypesOfType DEF TumblingPanic, SlidesInv, Regular, Sliding
<1>5. CASE EventBeforeEpoch \/ UNCHANGED vars
  <2>1. UNCHANGED <<type, open, pc, arrived, watermark>>
    BY <1>5 DEF EventBeforeEpoch
  <2>2. QED
    BY <2>1 DEF SlidesInv, Regular, Sliding, WholeSeconds, SlideStart, SlideEnd, Last, Ordered, InOrder, Late
<1>6. ASSUME NEW cutoff \in 1..(MaxTime + 1), CloseBefore(cutoff)
      PROVE  SlidesInv'
  BY <1>6, CloseSlides
<1>7. QED
  BY <1>1, <1>2, <1>3, <1>4, <1>5, <1>6 DEF Next

(* Slides that contain one time are close together: between the first and  *)
(* the last lie no more than fit into a window.                            *)
LEMMA SlidesBetween ==
  ASSUME NEW d \in Nat \ {0}, NEW size \in Nat, NEW ts \in Nat, NEW k \in Nat,
         k * d <= ts, ts <= k * d + size
  PROVE  k \in ((ts \div d) - (size \div d))..(ts \div d)
<1> DEFINE n == ts \div d
           q == size \div d
<1>1. n \in Nat /\ n * d <= ts /\ ts < n * d + d
  BY DivBounds
<1>2. q \in Nat /\ q * d <= size /\ size < q * d + d
  BY DivBounds
<1> HIDE DEF n, q
<1>3. k * d \in Nat /\ n * d \in Nat /\ q * d \in Nat
  BY <1>1, <1>2, ProductNat
<1>4. k <= n
  <2> SUFFICES ASSUME n + 1 <= k PROVE FALSE
    BY <1>1
  <2>1. (n + 1) * d <= k * d
    BY <1>1, ProductMonotone
  <2>2. (n + 1) * d = n * d + 1 * d /\ 1 * d = d
    BY <1>1, Distributes
  <2>3. QED
    BY <1>1, <1>3, <2>1, <2>2
<1>5. n <= k + q
  <2> SUFFICES ASSUME k + q + 1 <= n PROVE FALSE
    BY <1>1, <1>2
  <2>1. ((k + q) + 1) * d <= n * d
    BY <1>1, <1>2, ProductMonotone
  <2>2. ((k + q) + 1) * d = (k + q) * d + 1 * d /\ (k + q) * d = k * d + q * d /\ 1 * d = d
    BY <1>1, <1>2, Distributes
  <2>3. QED
    BY <1>1, <1>2, <1>3, <2>1, <2>2
<1>6. QED
  BY <1>1, <1>2, <1>4, <1>5 DEF n, q

(* On a stream in order that the cutoffs do not overtake, a sliding        *)
(* executor of whole seconds without gaps, of any size and slide, has a    *)
(* window for the last event and at most one more open than slides fit     *)
(* into a window: what it evicts no later event needs, and what it keeps   *)
(* is bounded (streaming.rs:182-189).                                      *)
THEOREM OpenSlidesBounded == Spec => []OpenWindowsBounded
<1>1. Init => SlidesInv
  BY DEF Init, SlidesInv
<1>2. IInv /\ SlidesInv /\ [Next]_vars => SlidesInv'
  BY SlidesStep DEF IInv
<1>3. IInv /\ SlidesInv => OpenWindowsBounded
  <2> SUFFICES ASSUME TypeOK, SlidesInv, Regular, InOrder, arrived # << >>
               PROVE  Cardinality(open) <= (type.size \div type.slide) + 1
    BY DEF IInv, SlidesInv, Regular, OpenWindowsBounded, Last
  <2> DEFINE d == type.slide
             n == Last \div d
             q == type.size \div d
             id == [w \in open |-> w.id]
  <2>1. d \in Nat \ {0} /\ type.size \in Nat /\ Last \in Nat
    BY SlideTimes, LastNat
  <2>2. n \in Nat /\ q \in Nat
    BY <2>1, DivBounds
  <2>3. ASSUME NEW w \in open PROVE w.id \in (n - q)..n
    <3>1. w.id \in Nat
      BY DEF TypeOK, Window
    <3>2. w.start = w.id * d /\ w.end = w.id * d + type.size
      BY <3>1, SlideTimes DEF SlidesInv
    <3>3. w.start <= Last /\ Last <= w.end
      BY DEF SlidesInv, InOrder, Ordered
    <3> HIDE DEF d
    <3>4. w.id * d <= Last /\ Last <= w.id * d + type.size
      BY <3>2, <3>3
    <3>5. QED
      BY <2>1, <3>1, <3>4, SlidesBetween
  <2>4. id \in Injection(open, (n - q)..n)
    <3>1. id \in [open -> (n - q)..n]
      BY <2>3
    <3>2. IsInjective(id)
      BY DEF IsInjective, TypeOK
    <3>3. QED
      BY <3>1, <3>2 DEF Injection
  <2>5. IsFiniteSet((n - q)..n) /\ Cardinality((n - q)..n) = q + 1
    <3> HIDE DEF n, q
    <3>1. n - q \in Int /\ n \in Int /\ n - q <= n /\ n - (n - q) + 1 = q + 1
      BY <2>2
    <3>2. QED
      BY <3>1, FS_Interval
  <2>6. Cardinality(open) <= Cardinality((n - q)..n)
    <3> HIDE DEF n, q, id
    <3>1. QED
      BY <2>4, <2>5, FS_Injection
  <2>7. QED
    BY <2>5, <2>6
<1>4. QED
  BY <1>1, <1>2, <1>3, Invariance, PTL DEF Spec
-----------------------------------------------------------------------------
(* The agent guard: what is read of an event. *)

Readable(obj) == \A k \in DOMAIN obj : obj[k].n \in Int

LEMMA FieldIsRead ==
  ASSUME NEW obj, Readable(obj), NEW n \in Nat, NEW keys, DOMAIN keys = 1..n
  PROVE  Field(obj, keys).n \in Int
<1> DEFINE present == {i \in DOMAIN keys : keys[i] \in DOMAIN obj}
<1>1. CASE present = {}
  BY <1>1 DEF Field, Absent
<1>2. CASE present # {}
  <2>1. PICK x \in present : TRUE
    BY <1>2
  <2> DEFINE first == Nth(present, 1)
             y == x - 1
  <2>2. present \in SUBSET Nat /\ x \in present /\ y \in Int /\ y < x /\ x <= n /\ y <= n /\ n \in Int
    OBVIOUS
  <2>3. first \in present
    <3> HIDE DEF present, y
    <3>1. UpTo(present, y) \in Nat /\ UpTo(present, n) \in Nat
      BY <2>2, UpToType
    <3>2. \A z \in present : y < z /\ z <= n => UpTo(present, y) < UpTo(present, n)
      BY <2>2, UpToMonotonic
    <3>3. 1 \in 1..UpTo(present, n)
      BY <2>2, <3>1, <3>2
    <3>4. QED
      BY <2>2, <3>3, NthExists
  <2>4. keys[first] \in DOMAIN obj
    BY <2>3
  <2>5. Field(obj, keys) = obj[keys[first]]
    BY <1>2 DEF Field
  <2>6. QED
    BY <2>4, <2>5 DEF Readable
<1>3. QED
  BY <1>1, <1>2

(* A metric that is there is a number, and but for costs one of 64 bits.   *)
MetricsRead(e) ==
  \A m \in Metric : e.metrics[m] # None =>
    e.metrics[m].value \in Int /\ (m # "cost" => e.metrics[m].value \in Nat)

LEMMA EventIsRead ==
  ASSUME NEW obj, Readable(obj)
  PROVE  MetricsRead(FromJson(obj))
<1>1. ASSUME NEW m \in Metric, MetricOf(obj, m) # None
      PROVE  MetricOf(obj, m).value \in Int /\ (m # "cost" => MetricOf(obj, m).value \in Nat)
  <2> DEFINE v == Field(obj, MetricKeys[m])
  <2>1. \E n \in Nat : DOMAIN MetricKeys[m] = 1..n
    <3>1. ASSUME NEW a, NEW b, NEW c PROVE DOMAIN <<a, b>> = 1..2 /\ DOMAIN <<a, b, c>> = 1..3
      OBVIOUS
    <3>2. m \in {"tokensIn", "tokensOut", "cost", "duration"}
      BY DEF Metric
    <3>3. DOMAIN MetricKeys[m] = 1..2 \/ DOMAIN MetricKeys[m] = 1..3
      BY <3>1, <3>2 DEF MetricKeys
    <3>4. QED
      BY <3>3
  <2>2. v.n \in Int
    BY <2>1, FieldIsRead
  <2>3. ~(v.type \notin {"number", "object"} \/ ~(m = "cost" \/ IsU64(v.n)))
    BY <1>1 DEF MetricOf
  <2>4. MetricOf(obj, m).value = v.n
    BY <2>3 DEF MetricOf
  <2> HIDE DEF v
  <2>5. QED
    BY <2>2, <2>3, <2>4, U64Assumption DEF IsU64
<1>2. \A m \in Metric : FromJson(obj).metrics[m] = MetricOf(obj, m)
  BY DEF FromJson
<1>3. QED
  BY <1>1, <1>2 DEF MetricsRead

-----------------------------------------------------------------------------
(* Totals. *)

Amounts == [Metric -> Int]
Telemetries(X) ==
  [events : Nat, toolCalls : Nat, retries : Nat, errors : Nat, unknown : Nat,
   measured : Amounts, estimated : Amounts, executions : SUBSET X]

LEMMA AccumulateType ==
  ASSUME NEW total \in Amounts, NEW e, MetricsRead(e), NEW provenance
  PROVE  Accumulate(total, e, provenance) \in Amounts
<1>1. ASSUME NEW m \in Metric
      PROVE  (IF Adds(e, m, provenance) THEN Plus(m, total[m], e.metrics[m].value) ELSE total[m]) \in Int
  <2>1. total[m] \in Int
    BY DEF Amounts
  <2>2. CASE Adds(e, m, provenance)
    <3>1. e.metrics[m].value \in Int
      BY <2>2 DEF Adds, MetricsRead
    <3>2. \A a, b \in Int : Plus(m, a, b) \in Int
      BY U64Assumption DEF Plus
    <3>3. QED
      BY <2>1, <2>2, <3>1, <3>2
  <2>3. QED
    BY <2>1, <2>2
<1>2. QED
  BY <1>1 DEF Accumulate, Amounts

LEMMA CountEventType ==
  ASSUME NEW X, NEW t \in Telemetries(X), NEW e, MetricsRead(e), e.execution \in X
  PROVE  CountEvent(t, e) \in Telemetries(X)
<1>1. /\ t.events \in Nat /\ t.toolCalls \in Nat /\ t.retries \in Nat /\ t.errors \in Nat /\ t.unknown \in Nat
      /\ t.measured \in Amounts /\ t.estimated \in Amounts /\ t.executions \in SUBSET X
  BY DEF Telemetries
<1>2. \A c \in BOOLEAN : OneIf(c) \in Nat
  BY DEF OneIf
<1>3. OneIf(e.kind = "ToolCall") \in Nat /\ OneIf(e.kind = "Retry" \/ e.retryOf # None) \in Nat
      /\ OneIf(e.kind = "Error") \in Nat
  BY DEF OneIf
<1>4. Cardinality({m \in Metric : Adds(e, m, "unknown")}) \in Nat
  <2> DEFINE U == {m \in Metric : Adds(e, m, "unknown")}
  <2>1. IsFiniteSet(Metric)
    <3>1. \A x : IsFiniteSet({x})
      BY FS_Singleton
    <3>2. \A x, S : IsFiniteSet(S) => IsFiniteSet(S \cup {x})
      BY FS_AddElement
    <3>3. \A a, b, c, d : IsFiniteSet((({a} \cup {b}) \cup {c}) \cup {d})
      BY <3>1, <3>2, Zenon
    <3>4. Metric = ((({"tokensIn"} \cup {"tokensOut"}) \cup {"cost"}) \cup {"duration"})
      BY DEF Metric
    <3>5. QED
      BY <3>3, <3>4, Zenon
  <2>2. IsFiniteSet(Metric) /\ U \in SUBSET Metric
    BY <2>1
  <2> HIDE DEF U
  <2>3. QED
    BY <2>2, FS_Subset, FS_CardinalityType DEF U
<1>5. Accumulate(t.measured, e, "measured") \in Amounts /\ Accumulate(t.estimated, e, "estimated") \in Amounts
  BY <1>1, AccumulateType
<1>6. t.executions \cup {e.execution} \in SUBSET X
  BY <1>1
<1>7. QED
  BY <1>1, <1>3, <1>4, <1>5, <1>6 DEF CountEvent, Telemetries

(* What each event makes of the totals.                                    *)
Aggregates(f, es) == f[0] = NoTelemetry /\ \A i \in 1..Len(es) : f[i] = CountEvent(f[i - 1], es[i])

LEMMA AggregateSteps ==
  ASSUME NEW T, NEW es \in Seq(T), \A i \in 1..Len(es) : MetricsRead(es[i])
  PROVE  \E X : \E f \in [0..Len(es) -> Telemetries(X)] : Aggregates(f, es) /\ Aggregate(es) = f[Len(es)]
<1> DEFINE n == Len(es)
           X == {es[i].execution : i \in 1..n}
           V == Telemetries(X)
           g == [p \in (1..n) \X V |-> CountEvent(p[2], es[p[1]])]
           Is(f) == f = [i \in 0..n |-> IF i = 0 THEN NoTelemetry ELSE CountEvent(f[i - 1], es[i])]
<1>1. n \in Nat
  OBVIOUS
<1>2. NoTelemetry \in V
  BY DEF NoTelemetry, Zero, Telemetries, Amounts
<1>3. g \in [(1..n) \X V -> V]
  <2>1. ASSUME NEW i \in 1..n, NEW t \in V PROVE CountEvent(t, es[i]) \in V
    <3>1. MetricsRead(es[i]) /\ es[i].execution \in X
      OBVIOUS
    <3> HIDE DEF X
    <3>2. QED
      BY <3>1, CountEventType
  <2>2. QED
    BY <2>1
<1> HIDE DEF X
<1>4. PICK f \in [0..n -> V] : Recursion(f, n, NoTelemetry, g)
  <2> HIDE DEF n, V, g
  <2>1. QED
    BY <1>1, <1>2, <1>3, RecursionUpTo
<1>5. ASSUME NEW i \in 1..n PROVE f[i] = CountEvent(f[i - 1], es[i])
  <2>1. f[i] = g[<<i, f[i - 1]>>]
    BY <1>4 DEF Recursion
  <2>2. i - 1 \in 0..n
    BY <1>1
  <2>3. f[i - 1] \in V
    BY <2>2
  <2>4. <<i, f[i - 1]>> \in (1..n) \X V
    <3> HIDE DEF V
    <3>1. QED
      BY <2>3
  <2>5. QED
    BY <2>1, <2>4
<1>6. f[0] = NoTelemetry
  BY <1>4 DEF Recursion
<1>7. Is(f)
  <2>1. ASSUME NEW i \in 0..n PROVE f[i] = IF i = 0 THEN NoTelemetry ELSE CountEvent(f[i - 1], es[i])
    BY <1>5, <1>6
  <2>2. QED
    BY <2>1
<1>8. ASSUME NEW h, Is(h) PROVE h = f
  <2> DEFINE S == {i \in 0..n : h[i] = f[i]}
  <2>1. 0 \in S
    BY <1>6, <1>8
  <2>2. ASSUME NEW i \in 0..(n - 1), i \in S PROVE i + 1 \in S
    <3>1. i + 1 \in 1..n /\ (i + 1) - 1 = i /\ i + 1 # 0 /\ i + 1 \in 0..n
      BY <1>1
    <3>2. h[i + 1] = CountEvent(h[i], es[i + 1])
      BY <1>8, <3>1
    <3>3. f[i + 1] = CountEvent(f[i], es[i + 1])
      BY <1>5, <3>1
    <3>4. QED
      BY <2>2, <3>1, <3>2, <3>3
  <2>3. 0..n \subseteq S
    <3> HIDE DEF S, n
    <3>1. QED
      BY <1>1, <2>1, <2>2, InductionUpTo
  <2>4. \A i \in 0..n : h[i] = f[i]
    BY <2>3
  <2>5. h = [i \in 0..n |-> h[i]] /\ f = [i \in 0..n |-> f[i]]
    BY <1>8
  <2>6. QED
    BY <2>4, <2>5, Zenon
<1>9. (CHOOSE h : Is(h)) = f
  <2> HIDE DEF Is
  <2>1. QED
    BY <1>7, <1>8
<1>10. Aggregate(es) = f[n]
  BY <1>9 DEF Aggregate
<1>11. Aggregates(f, es)
  BY <1>5, <1>6 DEF Aggregates
<1>12. QED
  BY <1>10, <1>11

(* The provenance read for a metric is measured where its line says so or  *)
(* says nothing of it, and where the event calls itself unknown.           *)
LEMMA MeasuredIsRead ==
  ASSUME NEW obj, NEW m \in Metric, FromJson(obj).metrics[m] # None
  PROVE  FromJson(obj).metrics[m].provenance = "measured" <=> CountsAsMeasured(obj, m)
<1> DEFINE v == Field(obj, MetricKeys[m])
           own == v.type = "object" /\ v.s \in Provenance
<1>1. FromJson(obj).metrics[m] = MetricOf(obj, m) /\ MetricOf(obj, m) # None
  BY DEF FromJson
<1>2. FromJson(obj).metrics[m].provenance = IF own THEN v.s ELSE DefaultProvenance(obj)
  BY <1>1 DEF MetricOf
<1>3. /\ SaidOfMetric(obj, m) \in Provenance <=> own
      /\ own => SaidOfMetric(obj, m) = v.s
  BY NoneAssumption DEF SaidOfMetric
<1>4. DefaultProvenance(obj) = IF SaidOfEvent(obj) = "estimated" THEN "estimated" ELSE "measured"
  BY DEF DefaultProvenance, SaidOfEvent
<1> HIDE DEF own, v
<1>5. CASE own
  BY <1>2, <1>3, <1>5 DEF CountsAsMeasured, Stated, UnknownEvent
<1>6. CASE ~own
  <2>1. Stated(obj, m) = IF SaidOfEvent(obj) \in Provenance THEN SaidOfEvent(obj) ELSE "measured"
    BY <1>3, <1>6 DEF Stated
  <2>2. CountsAsMeasured(obj, m) <=> Stated(obj, m) = "measured" \/ SaidOfEvent(obj) = "unknown"
    BY <1>3, <1>6 DEF CountsAsMeasured, UnknownEvent
  <2>3. CountsAsMeasured(obj, m) <=> SaidOfEvent(obj) # "estimated"
    BY <2>1, <2>2 DEF Provenance
  <2>4. QED
    BY <1>2, <1>4, <1>6, <2>3
<1>7. QED
  BY <1>5, <1>6

(* What an event adds to the total of what has this provenance.            *)
Amount(e, m, provenance) ==
  IF e.metrics[m] # None /\ e.metrics[m].provenance = provenance THEN e.metrics[m].value ELSE 0

LEMMA AmountIsRead ==
  ASSUME NEW i, NEW m \in Metric
  PROVE  MeasuredAmount(i, m) = Amount(EventAt(i), m, "measured")
BY MeasuredIsRead DEF MeasuredAmount, Amount, EventAt

(* What each event line adds to a total without width.                     *)
Sums(f, n, m) ==
  f[0] = 0 /\ \A i \in 1..n : f[i] = f[i - 1] + MeasuredAmount(i, m)

LEMMA TotalSteps ==
  ASSUME NEW n \in Nat, Len(EventLines) = n, NEW m \in Metric,
         \A i \in 1..n : MeasuredAmount(i, m) \in Int
  PROVE  \E f \in [0..n -> Int] : Sums(f, n, m) /\ TrueTotal(m) = f[n]
<1> DEFINE amount(i) == MeasuredAmount(i, m)
           g == [p \in (1..n) \X Int |-> p[2] + amount(p[1])]
           Is(f) == f = [i \in 0..n |-> IF i = 0 THEN 0 ELSE f[i - 1] + amount(i)]
<1>1. \A i \in 1..n : amount(i) \in Int
  OBVIOUS
<1> HIDE DEF amount
<1>2. g \in [(1..n) \X Int -> Int] /\ \A i \in 1..n : \A a \in Int : g[<<i, a>>] = a + amount(i)
  BY <1>1
<1>3. PICK f \in [0..n -> Int] : Recursion(f, n, 0, g)
  <2> DEFINE V == Int
  <2>1. 0 \in V /\ g \in [(1..n) \X V -> V] /\ n \in Nat
    BY <1>2
  <2> HIDE DEF g
  <2>2. \A W, base, h : base \in W /\ h \in [(1..n) \X W -> W] => \E f \in [0..n -> W] : Recursion(f, n, base, h)
    BY <2>1, RecursionUpTo
  <2>3. QED
    BY <2>1, <2>2, Zenon
<1> HIDE DEF g
<1>4. f[0] = 0 /\ \A i \in 1..n : f[i] = f[i - 1] + amount(i)
  <2>1. ASSUME NEW i \in 1..n PROVE f[i] = f[i - 1] + amount(i)
    <3>1. f[i] = g[<<i, f[i - 1]>>] /\ i - 1 \in 0..n
      BY <1>3 DEF Recursion
    <3>2. f[i - 1] \in Int
      BY <3>1
    <3>3. QED
      BY <1>2, <3>1, <3>2
  <2>2. QED
    BY <1>3, <2>1 DEF Recursion
<1>5. Is(f)
  <2>1. ASSUME NEW i \in 0..n PROVE f[i] = IF i = 0 THEN 0 ELSE f[i - 1] + amount(i)
    BY <1>4
  <2>2. QED
    BY <2>1
<1>6. ASSUME NEW h, Is(h) PROVE h = f
  <2> DEFINE S == {i \in 0..n : h[i] = f[i]}
  <2>1. 0 \in S
    BY <1>4, <1>6
  <2>2. ASSUME NEW i \in 0..(n - 1), i \in S PROVE i + 1 \in S
    <3>1. i + 1 \in 1..n /\ (i + 1) - 1 = i /\ i + 1 # 0 /\ i + 1 \in 0..n
      OBVIOUS
    <3>2. h[i + 1] = h[i] + amount(i + 1)
      BY <1>6, <3>1
    <3>3. f[i + 1] = f[i] + amount(i + 1)
      BY <1>4, <3>1
    <3>4. QED
      BY <2>2, <3>1, <3>2, <3>3
  <2>3. 0..n \subseteq S
    <3> HIDE DEF S
    <3>1. QED
      BY <2>1, <2>2, InductionUpTo
  <2>4. \A i \in 0..n : h[i] = f[i]
    BY <2>3
  <2>5. h = [i \in 0..n |-> h[i]] /\ f = [i \in 0..n |-> f[i]]
    BY <1>6
  <2>6. QED
    BY <2>4, <2>5, Zenon
<1>7. (CHOOSE h : Is(h)) = f
  <2> HIDE DEF Is
  <2>1. QED
    BY <1>5, <1>6
<1>8. TrueTotal(m) = f[n]
  BY <1>7 DEF TrueTotal, amount
<1>9. Sums(f, n, m)
  BY <1>4 DEF Sums, amount
<1>10. QED
  BY <1>8, <1>9
-----------------------------------------------------------------------------
(* Which lines have become events. *)

EventTexts == {t \in Text : t.json /\ t.object}
EventsOf == {FromJson(t.fields) : t \in EventTexts}

(* The non-blank ones among the first n lines, and they were events.       *)
Parsed(n) ==
  /\ Len(events) = UpTo(NonBlank, n)
  /\ \A k \in 1..Len(events) :
       /\ lines[Nth(NonBlank, k)].text \in EventTexts
       /\ events[k] = FromJson(lines[Nth(NonBlank, k)].text.fields)

GuardInv ==
  /\ lines \in Sources /\ policy \in Policies /\ pos \in 0..Len(lines)
  /\ events \in Seq(EventsOf)
  /\ stage \in {"reading", "parsing", "done", "failed"}
  /\ stage \in {"reading", "done"} => Parsed(pos)
  /\ stage = "parsing" => /\ pos \in NonBlank /\ Parsed(pos - 1)
                          /\ line.content = lines[pos].text /\ (line.utf8 <=> lines[pos].tag = "text")
  /\ stage = "done" => AtEnd /\ report = Report(events)
  /\ stage # "done" => report = None

LEMMA LinesType ==
  ASSUME GuardInv
  PROVE  /\ lines \in Seq(Line) /\ Len(lines) \in Nat /\ DOMAIN lines = 1..Len(lines)
         /\ NonBlank \in SUBSET (1..Len(lines)) /\ NonBlank \in SUBSET Nat
         /\ pos \in Nat /\ pos <= Len(lines)
<1>1. lines \in Seq(Line)
  BY SourcesAssumption DEF GuardInv
<1>2. Len(lines) \in Nat /\ DOMAIN lines = 1..Len(lines)
  BY <1>1
<1>3. QED
  BY <1>1, <1>2 DEF GuardInv, NonBlank

LEMMA GuardStart ==
  ASSUME GuardInit
  PROVE  GuardInv
<1>1. lines \in Seq(Line) /\ pos = 0 /\ events = << >>
  BY SourcesAssumption DEF GuardInit, SourceInit
<1>2. NonBlank \in SUBSET Nat /\ \A x \in NonBlank : 0 < x
  BY <1>1 DEF NonBlank
<1>3. UpTo(NonBlank, 0) = 0
  BY <1>2, UpToNone
<1>4. Len(<< >>) = 0 /\ << >> \in Seq(EventsOf) /\ 0 \in 0..Len(lines)
  BY <1>1
<1>5. Parsed(0)
  BY <1>1, <1>3, <1>4 DEF Parsed
<1>6. QED
  BY <1>1, <1>4, <1>5 DEF GuardInit, SourceInit, GuardInv

(* A line that holds an event adds it; a blank one leaves all as it was.   *)
LEMMA ParsedNext ==
  ASSUME GuardInv, pos < Len(lines)
  PROVE  /\ pos + 1 \notin NonBlank => (Parsed(pos) => Parsed(pos + 1))
         /\ pos - 1 \in Int
<1>1. NonBlank \in SUBSET Nat /\ pos \in Int
  BY LinesType
<1>2. pos + 1 \notin NonBlank => UpTo(NonBlank, pos + 1) = UpTo(NonBlank, pos)
  BY <1>1, UpToNext
<1>3. QED
  BY <1>1, <1>2 DEF Parsed

LEMMA ReadStep ==
  ASSUME GuardInv, ReadBlank \/ ReadLine
  PROVE  GuardInv'
<1>1. /\ lines \in Seq(Line) /\ Len(lines) \in Nat /\ DOMAIN lines = 1..Len(lines)
      /\ pos \in Nat /\ pos <= Len(lines)
  BY LinesType
<1>2. /\ stage = "reading" /\ pos' = pos + 1 /\ pos # Len(lines) /\ Parsed(pos)
      /\ UNCHANGED <<lines, policy, events, report>>
  BY DEF ReadBlank, ReadLine, SkipBlank, Emit, Consume, AtEnd, GuardInv
<1>3. pos' \in 1..Len(lines) /\ pos' \in 0..Len(lines') /\ pos' - 1 = pos
  <2>1. \A n, p \in Nat : p <= n /\ p # n => p + 1 \in 1..n /\ p + 1 \in 0..n /\ (p + 1) - 1 = p
    OBVIOUS
  <2>2. lines' = lines
    BY <1>2
  <2>3. QED
    BY <1>1, <1>2, <2>1, <2>2, Zenon
<1>4. NonBlank' = NonBlank /\ \A n : Parsed(n)' <=> Parsed(n)
  BY <1>2 DEF NonBlank, Parsed
<1>5. CASE ReadBlank
  <2>1. stage' = "reading" /\ pos' \notin NonBlank
    BY <1>2, <1>5 DEF ReadBlank, SkipBlank, NonBlank
  <2>2. Parsed(pos')
    <3>1. pos < Len(lines)
      <4>1. \A n, p \in Nat : p <= n /\ p # n => p < n
        OBVIOUS
      <4>2. QED
        BY <1>1, <1>2, <4>1, Zenon
    <3>2. pos + 1 \notin NonBlank => (Parsed(pos) => Parsed(pos + 1))
      BY <3>1, ParsedNext
    <3>3. QED
      BY <1>2, <2>1, <3>2
  <2>3. QED
    BY <1>2, <1>3, <1>4, <2>1, <2>2 DEF GuardInv
<1>6. CASE ReadLine
  <2>1. stage' = "parsing" /\ line' = RawLine(lines[pos'], recordIndex) /\ lines[pos'].tag # "blank"
    BY <1>2, <1>6 DEF ReadLine, Emit
  <2>2. pos' \in NonBlank
    BY <1>1, <1>3, <2>1 DEF NonBlank
  <2>3. line'.content = lines[pos'].text /\ (line'.utf8 <=> lines[pos'].tag = "text")
    BY <2>1 DEF RawLine
  <2>4. Parsed(pos' - 1)
    BY <1>2, <1>3
  <2>5. (pos \in NonBlank)' /\ Parsed(pos - 1)'
    BY <1>3, <1>4, <2>2, <2>4
  <2>6. QED
    BY <1>2, <1>3, <2>1, <2>3, <2>5 DEF GuardInv
<1>7. QED
  BY <1>5, <1>6

LEMMA ParseStep ==
  ASSUME GuardInv, ParseEvent
  PROVE  GuardInv'
<1> DEFINE text == lines[pos].text
           e == FromJson(text.fields)
           k == Len(events)
<1>1. /\ stage = "parsing" /\ IsEvent(line) /\ stage' = "reading" /\ events' = Append(events, e)
      /\ UNCHANGED <<lines, policy, report, pos>>
      /\ pos \in NonBlank /\ Parsed(pos - 1) /\ lines[pos].tag = "text" /\ text.json /\ text.object
  BY DEF ParseEvent, GuardInv, IsEvent, sourceVars
<1>2. NonBlank \in SUBSET Nat /\ pos \in Nat /\ pos - 1 \in Int /\ (pos - 1) + 1 = pos /\ pos \in DOMAIN lines
  BY <1>1, LinesType
<1>3. text \in EventTexts
  <2>1. text \in Text
    BY <1>1, <1>2, DecodedAssumption DEF GuardInv
  <2>2. QED
    BY <1>1, <2>1 DEF EventTexts
<1>4. e \in EventsOf /\ events \in Seq(EventsOf)
  BY <1>3 DEF EventsOf, GuardInv
<1>5. UpTo(NonBlank, pos) = k + 1
  BY <1>1, <1>2, UpToNext DEF Parsed
<1>6. Nth(NonBlank, k + 1) = pos
  BY <1>1, <1>2, <1>5, NthOfCount
<1>7. Parsed(pos)'
  <2>1. NonBlank' = NonBlank /\ lines' = lines /\ pos' = pos
    BY <1>1 DEF NonBlank
  <2> HIDE DEF e
  <2>2. /\ k \in Nat /\ Len(events') = k + 1 /\ events'[k + 1] = e
        /\ \A i \in 1..k : events'[i] = events[i]
    BY <1>1, <1>4
  <2>3. ASSUME NEW i \in 1..Len(events')
        PROVE  /\ lines[Nth(NonBlank, i)].text \in EventTexts
               /\ events'[i] = FromJson(lines[Nth(NonBlank, i)].text.fields)
    <3>1. CASE i = k + 1
      BY <1>3, <1>6, <2>2, <3>1 DEF e
    <3>2. CASE i \in 1..k
      BY <1>1, <2>2, <3>2 DEF Parsed
    <3>3. QED
      BY <2>2, <3>1, <3>2
  <2> HIDE DEF k
  <2>4. Len(events') = UpTo(NonBlank, pos)
    BY <1>5, <2>2
  <2>5. QED
    BY <2>1, <2>3, <2>4 DEF Parsed
<1>8. events' \in Seq(EventsOf)
  <2> HIDE DEF e
  <2>1. QED
    BY <1>1, <1>4
<1>9. QED
  BY <1>1, <1>7, <1>8 DEF GuardInv

LEMMA GuardStep ==
  ASSUME GuardInv, [GuardNext]_guardVars
  PROVE  GuardInv'
<1>1. CASE Evaluate
  <2>1. /\ stage = "reading" /\ stage' = "done" /\ report' = Report(events) /\ AtEnd
        /\ UNCHANGED <<lines, pos, policy, events>>
    BY <1>1 DEF Evaluate, sourceVars
  <2>2. Parsed(pos)' /\ AtEnd' /\ Report(events)' = Report(events)
    <3>1. Parsed(pos)' /\ AtEnd'
      BY <2>1 DEF GuardInv, Parsed, NonBlank, AtEnd
    <3>2. QED
      BY <2>1, <3>1 DEF Report, Violations, Budget, MeasuredBreach, BreachSeverity
  <2>3. QED
    BY <2>1, <2>2 DEF GuardInv
<1>2. CASE ParseError
  BY <1>2 DEF ParseError, GuardInv, sourceVars
<1>3. CASE UNCHANGED guardVars
  <2>1. UNCHANGED <<lines, pos, line, policy, events, report, stage>>
    BY <1>3 DEF guardVars, sourceVars
  <2>2. NonBlank' = NonBlank /\ (\A n : Parsed(n)' <=> Parsed(n)) /\ AtEnd' = AtEnd /\ Report(events)' = Report(events)
    <3>1. NonBlank' = NonBlank /\ (\A n : Parsed(n)' <=> Parsed(n)) /\ AtEnd' = AtEnd
      BY <2>1 DEF NonBlank, Parsed, AtEnd
    <3>2. QED
      BY <2>1, <3>1 DEF Report, Violations, Budget, MeasuredBreach, BreachSeverity
  <2>3. QED
    BY <2>1, <2>2 DEF GuardInv
<1>4. QED
  BY <1>1, <1>2, <1>3, ReadStep, ParseStep DEF GuardNext, Returned

(* At the end of the stream the events are those of its non-blank lines,   *)
(* one for each, in their order.                                           *)
LEMMA EventsOfStream ==
  ASSUME GuardInv, stage = "done"
  PROVE  /\ Len(events) \in Nat /\ DOMAIN EventLines = 1..Len(events) /\ Len(EventLines) = Len(events)
         /\ events \in Seq(EventsOf)
         /\ \A k \in 1..Len(events) : EventAt(k) = events[k] /\ MetricsRead(events[k])
<1>1. /\ lines \in Seq(Line) /\ Len(lines) \in Nat /\ NonBlank \in SUBSET Nat
      /\ NonBlank \in SUBSET (1..Len(lines)) /\ \A x \in NonBlank : x <= Len(lines)
  BY LinesType
<1>2. Parsed(Len(lines)) /\ events \in Seq(EventsOf)
  BY DEF GuardInv, AtEnd
<1>3. UpTo(NonBlank, Len(lines)) = Cardinality(NonBlank)
  BY <1>1, UpToAll
<1>4. /\ EventLines \in Seq(Line) /\ Len(EventLines) = Cardinality(NonBlank)
      /\ Picks(Ascending(NonBlank), lines, NonBlank)
  BY <1>1, AtPicks DEF EventLines
<1>5. Len(events) = Len(EventLines) /\ DOMAIN EventLines = 1..Len(events) /\ Len(events) \in Nat
  BY <1>2, <1>3, <1>4 DEF Parsed
<1>6. ASSUME NEW k \in 1..Len(events)
      PROVE  EventAt(k) = events[k] /\ MetricsRead(events[k])
  <2>1. EventLines[k] = lines[Ascending(NonBlank)[k]]
    BY <1>5 , <1>4 DEF Picks, EventLines
  <2>2. Ascending(NonBlank)[k] = Nth(NonBlank, k)
    BY <1>4, <1>5 DEF Ascending
  <2>3. EventLines[k].text \in EventTexts /\ events[k] = FromJson(FieldsAt(k))
    BY <1>2, <2>1, <2>2 DEF Parsed, FieldsAt
  <2>4. Readable(FieldsAt(k))
    BY <2>3, TextAssumption DEF EventTexts, Readable, FieldsAt
  <2>5. QED
    BY <2>3, <2>4, EventIsRead DEF EventAt
<1>7. QED
  BY <1>2, <1>5, <1>6
-----------------------------------------------------------------------------
(* What the totals say. *)

LEMMA Wraps ==
  ASSUME NEW x \in Nat
  PROVE  x % U64 \in Nat /\ x % U64 <= x /\ (x < U64 => x % U64 = x)
BY U64Assumption

LEMMA AmountType ==
  ASSUME NEW e, MetricsRead(e), NEW m \in Metric, NEW provenance
  PROVE  /\ Amount(e, m, provenance) \in Int
         /\ m # "cost" => Amount(e, m, provenance) \in Nat
BY DEF Amount, MetricsRead

(* A total is the true one as long as that fits into the width, and never  *)
(* above it; costs have no width.                                          *)
Below(a, true, m) ==
  /\ a \in Int /\ true \in Int
  /\ m = "cost" => a = true
  /\ m # "cost" => 0 <= a /\ a <= true /\ (true < U64 => a = true)

LEMMA TotalsBelow ==
  ASSUME NEW n \in Nat, NEW es, Len(es) = n, \A i \in 1..n : MetricsRead(es[i]),
         NEW X, NEW f \in [0..n -> Telemetries(X)], Aggregates(f, es),
         NEW m \in Metric, NEW s \in [0..n -> Int], s[0] = 0,
         \A i \in 1..n : s[i] = s[i - 1] + Amount(es[i], m, "measured")
  PROVE  Below(f[n].measured[m], s[n], m)
<1> DEFINE S == {i \in 0..n : Below(f[i].measured[m], s[i], m)}
<1>1. 0 \in S
  <2>1. f[0].measured[m] = 0 /\ 0 \in 0..n
    BY DEF Aggregates, NoTelemetry, Zero
  <2>2. QED
    BY <2>1 DEF Below
<1>2. ASSUME NEW i \in 0..(n - 1), i \in S PROVE i + 1 \in S
  <2> DEFINE j == i + 1
             a == f[i].measured[m]
             b == f[j].measured[m]
             x == Amount(es[j], m, "measured")
  <2>1. j \in 1..n /\ j - 1 = i /\ j \in 0..n /\ i \in 0..n
    OBVIOUS
  <2>2. s[j] = s[i] + x /\ s[i] \in Int /\ s[j] \in Int /\ Below(a, s[i], m)
    <3>1. s[j] = s[j - 1] + x
      BY <2>1
    <3>2. QED
      BY <1>2, <2>1, <3>1
  <2>3. x \in Int /\ (m # "cost" => x \in Nat)
    BY <2>1, AmountType
  <2>4. b = IF Adds(es[j], m, "measured") THEN Plus(m, a, x) ELSE a
    <3>1. f[j] = CountEvent(f[i], es[j])
      <4>1. f[j] = CountEvent(f[j - 1], es[j])
        BY <2>1 DEF Aggregates
      <4>2. QED
        BY <2>1, <4>1
    <3>2. f[j].measured = Accumulate(f[i].measured, es[j], "measured")
      BY <3>1 DEF CountEvent
    <3>3. Adds(es[j], m, "measured") => x = es[j].metrics[m].value
      BY DEF Adds, Amount
    <3>4. QED
      BY <3>2, <3>3 DEF Accumulate
  <2>5. ~Adds(es[j], m, "measured") => x = 0
    BY DEF Adds, Amount
  <2> HIDE DEF j, a, b, x
  <2>6. Below(b, s[j], m)
    <3>1. CASE m = "cost"
      <4>1. a \in Int /\ a = s[i]
        BY <2>2, <3>1 DEF Below
      <4>2. Plus(m, a, x) = a + x
        BY <3>1 DEF Plus
      <4>3. b = s[j] /\ b \in Int
        BY <2>2, <2>3, <2>4, <2>5, <4>1, <4>2
      <4>4. QED
        BY <3>1, <4>3, <2>2 DEF Below
    <3>2. CASE m # "cost"
      <4>1. a \in Nat /\ x \in Nat /\ a <= s[i] /\ (s[i] < U64 => a = s[i]) /\ s[i] \in Int
        BY <2>2, <2>3, <3>2 DEF Below
      <4>2. Plus(m, a, x) = (a + x) % U64 /\ a + x \in Nat
        BY <3>2, <4>1 DEF Plus
      <4>3. /\ (a + x) % U64 \in Nat /\ (a + x) % U64 <= a + x
            /\ (a + x < U64 => (a + x) % U64 = a + x)
        BY <4>2, Wraps
      <4>4. b \in Nat /\ b <= a + x /\ (a + x < U64 => b = a + x)
        BY <2>4, <2>5, <4>1, <4>2, <4>3
      <4> DEFINE q == s[i]
                 w == s[j]
      <4>5. /\ q \in Int /\ w \in Int /\ w = q + x /\ a <= q /\ (q < U64 => a = q)
            /\ a \in Nat /\ x \in Nat /\ b \in Nat /\ b <= a + x /\ (a + x < U64 => b = a + x) /\ U64 \in Nat
        BY <2>2, <4>1, <4>4, U64Assumption
      <4> HIDE DEF q, w
      <4>6. b <= w /\ (w < U64 => b = w)
        BY ONLY <4>5
      <4>7. QED
        BY <2>2, <3>2, <4>4, <4>6 DEF Below, w
    <3>3. QED
      BY <3>1, <3>2
  <2>7. QED
    BY <2>1, <2>6 DEF j, b
<1>3. 0..n \subseteq S
  <2> HIDE DEF S
  <2>1. QED
    BY <1>1, <1>2, InductionUpTo
<1>4. QED
  BY <1>3

LEMMA CallsCounted ==
  ASSUME NEW n \in Nat, NEW es, Len(es) = n,
         NEW X, NEW f \in [0..n -> Telemetries(X)], Aggregates(f, es)
  PROVE  f[n].toolCalls = Cardinality({i \in 1..n : es[i].kind = "ToolCall"})
<1> DEFINE K == {i \in 1..n : es[i].kind = "ToolCall"}
           S == {i \in 0..n : f[i].toolCalls = UpTo(K, i)}
<1>1. K \in SUBSET Nat /\ (\A x \in K : 0 < x) /\ \A x \in K : x <= n
  OBVIOUS
<1>2. 0 \in S
  <2>1. f[0].toolCalls = 0 /\ 0 \in 0..n
    BY DEF Aggregates, NoTelemetry
  <2> HIDE DEF K
  <2>2. UpTo(K, 0) = 0
    BY <1>1, UpToNone
  <2>3. QED
    BY <2>1, <2>2
<1>3. ASSUME NEW i \in 0..(n - 1), i \in S PROVE i + 1 \in S
  <2>1. i + 1 \in 1..n /\ (i + 1) - 1 = i /\ i + 1 \in 0..n /\ i \in 0..n /\ i \in Int
    OBVIOUS
  <2>2. f[i + 1] = CountEvent(f[i], es[i + 1])
    <3>1. f[i + 1] = CountEvent(f[(i + 1) - 1], es[i + 1])
      BY <2>1 DEF Aggregates
    <3>2. QED
      BY <2>1, <3>1
  <2>3. f[i + 1].toolCalls = f[i].toolCalls + OneIf(es[i + 1].kind = "ToolCall")
    BY <2>2 DEF CountEvent
  <2>4. i + 1 \in K <=> es[i + 1].kind = "ToolCall"
    BY <2>1
  <2>5. UpTo(K, i + 1) = IF i + 1 \in K THEN UpTo(K, i) + 1 ELSE UpTo(K, i)
    <3> HIDE DEF K
    <3>1. QED
      BY <1>1, <2>1, UpToNext
  <2>6. UpTo(K, i) \in Nat /\ f[i].toolCalls = UpTo(K, i)
    <3>1. f[i].toolCalls = UpTo(K, i)
      BY <1>3
    <3> HIDE DEF K
    <3>2. QED
      BY <1>1, <2>1, <3>1, UpToType
  <2> HIDE DEF K
  <2>7. f[i + 1].toolCalls = UpTo(K, i + 1)
    BY <2>3, <2>4, <2>5, <2>6 DEF OneIf
  <2>8. QED
    BY <2>1, <2>7
<1>4. 0..n \subseteq S
  <2> HIDE DEF S
  <2>1. QED
    BY <1>2, <1>3, InductionUpTo
<1>5. f[n].toolCalls = UpTo(K, n)
  BY <1>4
<1>6. UpTo(K, n) = Cardinality(K)
  <2> HIDE DEF K
  <2>1. QED
    BY <1>1, UpToAll
<1>7. QED
  BY <1>5, <1>6

(* The totals of the report against those of the stream.                   *)
LEMMA TelemetryIsTrue ==
  ASSUME GuardInv, stage = "done"
  PROVE  /\ Aggregate(events).toolCalls = Cardinality({i \in DOMAIN EventLines : EventAt(i).kind = "ToolCall"})
         /\ \A m \in Metric : Below(Aggregate(events).measured[m], TrueTotal(m), m)
         /\ Aggregate(events).toolCalls \in Nat
<1> DEFINE n == Len(events)
           t == Aggregate(events)
<1>1. /\ n \in Nat /\ DOMAIN EventLines = 1..n /\ Len(EventLines) = n /\ events \in Seq(EventsOf)
      /\ \A k \in 1..n : EventAt(k) = events[k] /\ MetricsRead(events[k])
  BY EventsOfStream
<1>2. PICK X : \E f \in [0..n -> Telemetries(X)] : Aggregates(f, events) /\ t = f[n]
  <2>1. \E X : \E f \in [0..Len(events) -> Telemetries(X)] :
          Aggregates(f, events) /\ Aggregate(events) = f[Len(events)]
    BY <1>1, AggregateSteps
  <2>2. QED
    BY <2>1
<1>3. PICK f \in [0..n -> Telemetries(X)] : Aggregates(f, events) /\ t = f[n]
  BY <1>2
<1> HIDE DEF n, t
<1>4. Len(events) = n
  BY DEF n
<1>5. t.toolCalls = Cardinality({i \in DOMAIN EventLines : EventAt(i).kind = "ToolCall"})
  <2>1. f[n].toolCalls = Cardinality({i \in 1..n : events[i].kind = "ToolCall"})
    BY <1>1, <1>3, <1>4, CallsCounted
  <2>2. {i \in 1..n : events[i].kind = "ToolCall"} = {i \in DOMAIN EventLines : EventAt(i).kind = "ToolCall"}
    BY <1>1
  <2>3. QED
    BY <1>3, <2>1, <2>2
<1>6. ASSUME NEW m \in Metric
      PROVE  Below(t.measured[m], TrueTotal(m), m)
  <2>0. \A i \in 1..n : MeasuredAmount(i, m) = Amount(events[i], m, "measured")
    BY <1>1, AmountIsRead
  <2>1. \A i \in 1..n : MeasuredAmount(i, m) \in Int
    BY <1>1, <2>0, AmountType
  <2>2. PICK s \in [0..n -> Int] : Sums(s, n, m) /\ TrueTotal(m) = s[n]
    BY <1>1, <2>1, TotalSteps
  <2>3. s[0] = 0 /\ \A i \in 1..n : s[i] = s[i - 1] + Amount(events[i], m, "measured")
    BY <2>0, <2>2 DEF Sums
  <2>4. \A i \in 1..n : MetricsRead(events[i])
    BY <1>1
  <2>5. Below(f[n].measured[m], s[n], m)
    BY <1>1, <1>3, <1>4, <2>2, <2>3, <2>4, TotalsBelow
  <2>6. QED
    BY <1>3, <2>2, <2>5
<1>7. t.toolCalls \in Nat
  BY <1>1, <1>3 DEF Telemetries
<1>8. QED
  BY <1>5, <1>6, <1>7 DEF t
-----------------------------------------------------------------------------
(* The recommendation. *)

(* Only a measured total over its budget is worth stopping for, and only   *)
(* when the policy says so.                                                *)
LEMMA BlockingBudget ==
  ASSUME NEW name, NEW max, NEW measured, NEW both
  PROVE  (\E v \in Budget(name, max, measured, both) : v.severity = "Blocking")
           <=> policy.enforce /\ Broken(max, measured)
<1>1. CASE Broken(max, measured)
  <2>1. Budget(name, max, measured, both) = MeasuredBreach(name)
    BY <1>1 DEF Broken, Budget
  <2>2. (\E v \in MeasuredBreach(name) : v.severity = "Blocking") <=> BreachSeverity = "Blocking"
    BY DEF MeasuredBreach
  <2>3. QED
    BY <1>1, <2>1, <2>2 DEF BreachSeverity
<1>2. CASE ~Broken(max, measured)
  <2>1. Budget(name, max, measured, both) \in {PossibleBreach(name), {}}
    BY <1>2 DEF Broken, Budget
  <2>2. \A v \in PossibleBreach(name) : v.severity = "Warning"
    BY DEF PossibleBreach
  <2>3. QED
    BY <1>2, <2>1, <2>2
<1>3. QED
  BY <1>1, <1>2

LEMMA StopsFor ==
  ASSUME NEW t, NEW loops
  PROVE  Enforcement(Violations(t, loops)) = "Stop" <=>
           /\ policy.enforce
           /\ \/ Broken(policy.maxToolCalls, t.toolCalls)
              \/ Broken(policy.maxTotalTokens, Tokens(t.measured))
              \/ Broken(policy.maxCost, t.measured["cost"])
              \/ Broken(policy.maxDuration, t.measured["duration"])
<1> DEFINE Blocks(V) == \E v \in V : v.severity = "Blocking"
           A == Budget("max_tool_calls", policy.maxToolCalls, t.toolCalls, t.toolCalls)
           B == Budget("max_total_tokens", policy.maxTotalTokens, Tokens(t.measured),
                       (Tokens(t.measured) + Tokens(t.estimated)) % U64)
           C == Budget("max_cost_usd", policy.maxCost, t.measured["cost"],
                       t.measured["cost"] + t.estimated["cost"])
           D == Budget("max_duration_ms", policy.maxDuration, t.measured["duration"], t.measured["duration"])
           L == {[policy |-> "loop_detection", severity |-> "Warning", measured |-> FALSE, heuristic |-> TRUE,
                  signature |-> l.signature] : l \in loops}
<1>1. Violations(t, loops) = A \cup B \cup C \cup D \cup L
  BY DEF Violations
<1>2. /\ Blocks(A) <=> policy.enforce /\ Broken(policy.maxToolCalls, t.toolCalls)
      /\ Blocks(B) <=> policy.enforce /\ Broken(policy.maxTotalTokens, Tokens(t.measured))
      /\ Blocks(C) <=> policy.enforce /\ Broken(policy.maxCost, t.measured["cost"])
      /\ Blocks(D) <=> policy.enforce /\ Broken(policy.maxDuration, t.measured["duration"])
  BY BlockingBudget
<1>3. ~Blocks(L)
  BY DEF L
<1>4. \A V : Enforcement(V) = "Stop" <=> Blocks(V)
  BY DEF Enforcement
<1> HIDE DEF A, B, C, D, L
<1>5. Blocks(A \cup B \cup C \cup D \cup L) <=> Blocks(A) \/ Blocks(B) \/ Blocks(C) \/ Blocks(D) \/ Blocks(L)
  OBVIOUS
<1> HIDE DEF Blocks
<1>6. QED
  BY <1>1, <1>2, <1>3, <1>4, <1>5

LEMMA StopIsRight ==
  ASSUME GuardInv
  PROVE  StopRestsOnMeasuredData
<1> SUFFICES ASSUME report # None
             PROVE  /\ report.enforcement = "Stop" => policy.enforce /\ MeasuredBudgetBroken
                    /\ (policy.enforce /\ MeasuredBudgetBroken
                        /\ TrueTokens < U64 /\ TrueTotal("duration") < U64)
                         => report.enforcement = "Stop"
                    /\ Len(events) = Len(EventLines)
  BY DEF StopRestsOnMeasuredData
<1> DEFINE t == Aggregate(events)
           calls == Cardinality({i \in DOMAIN EventLines : EventAt(i).kind = "ToolCall"})
           true(m) == TrueTotal(m)
<1>1. stage = "done" /\ report = Report(events)
  BY DEF GuardInv
<1>2. Len(events) = Len(EventLines)
  BY <1>1, EventsOfStream
<1>3. /\ t.toolCalls = calls /\ t.toolCalls \in Nat
      /\ \A m \in Metric : Below(t.measured[m], true(m), m)
  BY <1>1, TelemetryIsTrue
<1>4. report.enforcement = "Stop" <=>
        /\ policy.enforce
        /\ \/ Broken(policy.maxToolCalls, t.toolCalls)
           \/ Broken(policy.maxTotalTokens, Tokens(t.measured))
           \/ Broken(policy.maxCost, t.measured["cost"])
           \/ Broken(policy.maxDuration, t.measured["duration"])
  <2>1. report.enforcement = Enforcement(Violations(t, DetectLoops(events, policy.loopWindow, policy.loopThreshold)))
    BY <1>1 DEF Report
  <2> HIDE DEF t
  <2>2. QED
    BY <2>1, StopsFor
<1>5. MeasuredBudgetBroken <=> \/ Broken(policy.maxToolCalls, calls)
                               \/ Broken(policy.maxTotalTokens, TrueTokens)
                               \/ Broken(policy.maxCost, true("cost"))
                               \/ Broken(policy.maxDuration, true("duration"))
  BY DEF MeasuredBudgetBroken
<1>6. TrueTokens = true("tokensIn") + true("tokensOut")
  BY DEF TrueTokens
<1> HIDE DEF t, calls, true
<1>7. t.measured["cost"] = true("cost")
  BY <1>3 DEF Below, Metric
<1>8. /\ t.measured["duration"] \in Int /\ true("duration") \in Int
      /\ t.measured["duration"] <= true("duration")
      /\ true("duration") < U64 => t.measured["duration"] = true("duration")
  BY <1>3 DEF Below, Metric
<1>9. /\ Tokens(t.measured) \in Int /\ TrueTokens \in Int
      /\ Tokens(t.measured) <= TrueTokens
      /\ TrueTokens < U64 => Tokens(t.measured) = TrueTokens
  <2> DEFINE a == t.measured["tokensIn"]
             b == t.measured["tokensOut"]
             x == true("tokensIn")
             y == true("tokensOut")
  <2>1. /\ a \in Nat /\ a <= x /\ (x < U64 => a = x) /\ x \in Int
        /\ b \in Nat /\ b <= y /\ (y < U64 => b = y) /\ y \in Int
    BY <1>3 DEF Below, Metric
  <2>2. Tokens(t.measured) = (a + b) % U64
    BY DEF Tokens
  <2> HIDE DEF a, b
  <2>3. (a + b) % U64 \in Nat /\ (a + b) % U64 <= a + b /\ (a + b < U64 => (a + b) % U64 = a + b)
    BY <2>1, Wraps
  <2> HIDE DEF x, y
  <2>4. x + y \in Int /\ (a + b) % U64 <= x + y /\ (x + y < U64 => (a + b) % U64 = x + y)
    BY <2>1, <2>3, U64Assumption
  <2>5. QED
    BY <1>6, <2>2, <2>3, <2>4 DEF x, y
<1>10. policy.maxTotalTokens \in Int \cup {None} /\ policy.maxDuration \in Int \cup {None}
  <2>1. policy \in AgentPolicy
    BY PoliciesAssumption DEF GuardInv
  <2>2. QED
    BY <2>1 DEF AgentPolicy
<1>11. \A max \in Int \cup {None} : \A a, true_a \in Int : a <= true_a => (Broken(max, a) => Broken(max, true_a))
  BY DEF Broken
<1>12. report.enforcement = "Stop" => policy.enforce /\ MeasuredBudgetBroken
  BY <1>3, <1>4, <1>5, <1>7, <1>8, <1>9, <1>10, <1>11
<1>13. (policy.enforce /\ MeasuredBudgetBroken
        /\ TrueTokens < U64 /\ TrueTotal("duration") < U64)
         => report.enforcement = "Stop"
  BY <1>3, <1>4, <1>5, <1>7, <1>8, <1>9 DEF true
<1>14. QED
  BY <1>2, <1>12, <1>13
-----------------------------------------------------------------------------
(* The loop heuristic. *)

Entry(e) == [signature |-> e.signature, seq |-> e.seq]
Detections(A, B) ==
  [recent : Seq([signature : A, seq : B]),
   loops : SUBSET [signature : A, occurrences : Nat, firstSeq : B, lastSeq : B]]

(* A window of the calls before the newest, and the newest.                *)
Recent(window, recent, e) == Slide(Append(recent, Entry(e)), window)
Holding(recent, sig) == {i \in DOMAIN recent : recent[i].signature = sig}

(* Of the calls that a window holds, those with the newest call's          *)
(* signature: at least that one, and it is the last of them.               *)
LEMMA HeldCalls ==
  ASSUME NEW E, NEW recent \in Seq(E), Len(recent) > 0,
         NEW sig, recent[Len(recent)].signature = sig
  PROVE  /\ Cardinality(Holding(recent, sig)) \in Nat \ {0}
         /\ At(recent, Holding(recent, sig)) \in Seq(E)
         /\ Len(At(recent, Holding(recent, sig))) = Cardinality(Holding(recent, sig))
         /\ At(recent, Holding(recent, sig))[Cardinality(Holding(recent, sig))] = recent[Len(recent)]
<1> DEFINE I == Holding(recent, sig)
           n == Len(recent)
           c == Cardinality(I)
           same == At(recent, I)
<1>1. n \in Nat /\ n \in I /\ I \in SUBSET (1..n) /\ I \in SUBSET Nat /\ \A x \in I : x <= n
  BY DEF Holding
<1> HIDE DEF I
<1>2. /\ c \in Nat /\ same \in Seq(E) /\ Len(same) = c /\ Picks(Ascending(I), recent, I)
  BY <1>1, AtPicks
<1>3. IsFiniteSet(I) /\ UpTo(I, n) = c
  BY <1>1, UpToAll
<1>4. c \in 1..c /\ Ascending(I)[c] = n
  <2>1. UpTo(I, n) \in 1..Cardinality(I) /\ Ascending(I)[UpTo(I, n)] = n
    BY <1>1, <1>3, AscendingOrder
  <2>2. QED
    BY <1>3, <2>1
<1>5. same[c] = recent[n]
  BY <1>2, <1>4 DEF Picks
<1>6. QED
  BY <1>2, <1>4, <1>5 DEF I

LEMMA RecentType ==
  ASSUME NEW E, NEW recent \in Seq(E), NEW e, Entry(e) \in E, NEW window \in Nat
  PROVE  /\ Len(recent) \in Nat /\ Recent(window, recent, e) \in Seq(E)
         /\ Len(recent) + 1 <= window =>
              /\ Len(Recent(window, recent, e)) = Len(recent) + 1
              /\ \A k \in 1..Len(recent) : Recent(window, recent, e)[k] = recent[k]
              /\ Recent(window, recent, e)[Len(recent) + 1] = Entry(e)
         /\ Len(recent) + 1 > window =>
              /\ Len(Recent(window, recent, e)) = Len(recent)
              /\ \A k \in 1..(Len(recent) - 1) : Recent(window, recent, e)[k] = recent[k + 1]
              /\ Len(recent) > 0 => Recent(window, recent, e)[Len(recent)] = Entry(e)
<1> DEFINE x == Entry(e)
           longer == Append(recent, x)
           n == Len(recent)
<1>1. x \in E
  OBVIOUS
<1> HIDE DEF x
<1>2. /\ n \in Nat /\ longer \in Seq(E) /\ Len(longer) = n + 1
      /\ \A k \in 1..n : longer[k] = recent[k]
      /\ longer[n + 1] = x
  BY <1>1
<1> HIDE DEF longer
<1>3. n + 1 > window => Recent(window, recent, e) = Tail(longer)
  BY <1>2 DEF Recent, Slide, longer, x
<1>4. n + 1 <= window => Recent(window, recent, e) = longer
  BY <1>2 DEF Recent, Slide, longer, x
<1>5. /\ Tail(longer) \in Seq(E) /\ Len(Tail(longer)) = n
      /\ \A k \in 1..n : Tail(longer)[k] = longer[k + 1]
  BY <1>2
<1>6. \A k \in 1..(n - 1) : Tail(longer)[k] = recent[k + 1]
  <2>1. \A k \in 1..(n - 1) : k \in 1..n /\ k + 1 \in 1..n
    BY <1>2
  <2>2. QED
    BY <1>2, <1>5, <2>1
<1>7. n > 0 => Tail(longer)[n] = x
  <2>1. n > 0 => n \in 1..n
    BY <1>2
  <2>2. QED
    BY <1>2, <1>5, <2>1
<1> HIDE DEF n
<1>8. CASE n + 1 > window
  <2> DEFINE new == Recent(window, recent, e)
  <2>1. new = Tail(longer)
    BY <1>3, <1>8
  <2> HIDE DEF new
  <2>2. /\ new \in Seq(E) /\ Len(new) = n
        /\ \A k \in 1..(n - 1) : new[k] = recent[k + 1]
        /\ n > 0 => new[n] = x
    BY <1>5, <1>6, <1>7, <2>1, Zenon
  <2>3. ~(n + 1 <= window)
    BY <1>2, <1>8
  <2>4. QED
    BY <1>2, <2>2, <2>3, Zenon DEF x, n, new
<1>9. CASE ~(n + 1 > window)
  BY <1>2, <1>4, <1>9 DEF x, n
<1>10. QED
  BY <1>8, <1>9

(* What one call makes of the window and of the findings.                  *)
Findings(A, B) == [signature : A, occurrences : Nat, firstSeq : B, lastSeq : B]
Observed(window, threshold, state, e, next, F) ==
  LET new == Recent(window, state.recent, e)
      c == Cardinality(Holding(new, e.signature))
  IN  \E finding \in F :
        /\ finding.signature = e.signature /\ finding.occurrences = c /\ finding.lastSeq = e.seq
        /\ next.recent = new
        /\ next.loops = IF c >= threshold
                        THEN (state.loops \ {l \in state.loops : l.signature = e.signature}) \cup {finding}
                        ELSE state.loops

LEMMA ObserveStep ==
  ASSUME NEW A, NEW B, NEW state \in Detections(A, B), NEW e, e.signature \in A, e.seq \in B,
         NEW window \in Nat \ {0}, NEW threshold
  PROVE  /\ Observe(window, threshold, state, e) \in Detections(A, B)
         /\ Observed(window, threshold, state, e, Observe(window, threshold, state, e), Findings(A, B))
<1> DEFINE E == [signature : A, seq : B]
           F == Findings(A, B)
           new == Recent(window, state.recent, e)
           I == Holding(new, e.signature)
           same == At(new, I)
           c == Cardinality(I)
           known == {l \in state.loops : l.signature = e.signature}
           first == IF known = {} THEN same[1].seq ELSE (CHOOSE l \in known : TRUE).firstSeq
           finding == [signature |-> e.signature, occurrences |-> Len(same),
                       firstSeq |-> first, lastSeq |-> same[Len(same)].seq]
           loops == IF Len(same) >= threshold THEN (state.loops \ known) \cup {finding} ELSE state.loops
<1>1. Observe(window, threshold, state, e) = [recent |-> new, loops |-> loops]
  BY DEF Observe, Recent, Entry, Holding
<1>2. state.recent \in Seq(E) /\ state.loops \in SUBSET F /\ Entry(e) \in E
  BY DEF Detections, Findings, Entry
<1> HIDE DEF E
<1>3. new \in Seq(E) /\ Len(new) \in Nat /\ Len(new) > 0 /\ new[Len(new)] = Entry(e)
  <2> DEFINE n == Len(state.recent)
             recent == state.recent
  <2> HIDE DEF recent
  <2>1. recent \in Seq(E)
    BY <1>2 DEF recent
  <2>2. /\ Len(recent) \in Nat /\ Recent(window, recent, e) \in Seq(E)
        /\ Len(recent) + 1 <= window =>
             /\ Len(Recent(window, recent, e)) = Len(recent) + 1
             /\ Recent(window, recent, e)[Len(recent) + 1] = Entry(e)
        /\ Len(recent) + 1 > window =>
             /\ Len(Recent(window, recent, e)) = Len(recent)
             /\ Len(recent) > 0 => Recent(window, recent, e)[Len(recent)] = Entry(e)
    BY <1>2, <2>1, RecentType
  <2>3. new = Recent(window, recent, e)
    BY DEF recent
  <2> HIDE DEF new
  <2>4. CASE Len(recent) + 1 <= window
    BY <2>2, <2>3, <2>4
  <2>5. CASE Len(recent) + 1 > window
    <3>1. Len(recent) > 0
      BY <2>2, <2>5
    <3>2. QED
      BY <2>2, <2>3, <2>5, <3>1
  <2>6. QED
    BY <2>2, <2>4, <2>5
<1>4. new[Len(new)].signature = e.signature /\ new[Len(new)].seq = e.seq
  BY <1>3 DEF Entry
<1> HIDE DEF new
<1>5. c \in Nat \ {0} /\ same \in Seq(E) /\ Len(same) = c /\ same[c] = new[Len(new)]
  BY <1>3, <1>4, HeldCalls
<1> HIDE DEF I, same
<1>6. first \in B
  <2>1. same[1] \in E
    <3> HIDE DEF c
    <3>1. 1 \in 1..Len(same)
      BY <1>5
    <3>2. QED
      BY <1>5, <3>1
  <2>2. same[1].seq \in B
    BY <2>1 DEF E
  <2>3. known # {} => (CHOOSE l \in known : TRUE) \in known
    OBVIOUS
  <2>4. \A l \in known : l.firstSeq \in B
    BY <1>2 DEF Findings
  <2>5. QED
    BY <2>2, <2>3, <2>4
<1> HIDE DEF first, c
<1>7. finding.signature = e.signature /\ finding.occurrences = c /\ finding.lastSeq = e.seq
  BY <1>4, <1>5
<1>8. finding \in F
  BY <1>5, <1>6, <1>7 DEF Findings
<1> HIDE DEF finding, known, F
<1>9. loops \in SUBSET F
  BY <1>2, <1>8
<1>10. [recent |-> new, loops |-> loops] \in Detections(A, B)
  BY <1>3, <1>9 DEF Detections, E, F, Findings
<1>11. loops = IF c >= threshold THEN (state.loops \ known) \cup {finding} ELSE state.loops
  BY <1>5
<1> HIDE DEF loops
<1>12. Observed(window, threshold, state, e, [recent |-> new, loops |-> loops], F)
  BY <1>7, <1>8, <1>11 DEF Observed, new, I, c, known
<1>13. QED
  BY <1>1, <1>10, <1>12 DEF F

(* The calls of a stream leave one window and one set of findings after    *)
(* the other.                                                              *)
NoCalls == [recent |-> << >>, loops |-> {}]
Detects(f, calls, window, threshold) ==
  f[0] = NoCalls /\ \A i \in 1..Len(calls) : f[i] = Observe(window, threshold, f[i - 1], calls[i])

LEMMA DetectSteps ==
  ASSUME NEW T, NEW es, Signed(es) \in Seq(T), NEW window \in Nat \ {0}, NEW threshold \in Nat \ {0}
  PROVE  \E A, B : \E f \in [0..Len(Signed(es)) -> Detections(A, B)] :
           /\ Detects(f, Signed(es), window, threshold)
           /\ \A i \in 1..Len(Signed(es)) : Signed(es)[i].signature \in A /\ Signed(es)[i].seq \in B
           /\ DetectLoops(es, window, threshold) = f[Len(Signed(es))].loops
<1> DEFINE calls == Signed(es)
           n == Len(calls)
           A == {calls[i].signature : i \in 1..n}
           B == {calls[i].seq : i \in 1..n}
           V == Detections(A, B)
           g == [p \in (1..n) \X V |-> Observe(window, threshold, p[2], calls[p[1]])]
           Is(f) == f = [i \in 0..n |-> IF i = 0 THEN [recent |-> << >>, loops |-> {}]
                                        ELSE Observe(window, threshold, f[i - 1], calls[i])]
<1>1. n \in Nat
  OBVIOUS
<1>2. NoCalls \in V
  BY DEF NoCalls, Detections
<1>3. \A i \in 1..n : calls[i].signature \in A /\ calls[i].seq \in B
  OBVIOUS
<1> HIDE DEF A, B, n, calls
<1>4. g \in [(1..n) \X V -> V]
  <2>1. ASSUME NEW i \in 1..n, NEW t \in V PROVE Observe(window, threshold, t, calls[i]) \in V
    BY <1>3, ObserveStep
  <2> HIDE DEF V
  <2>2. QED
    BY <2>1
<1>5. PICK f \in [0..n -> V] : Recursion(f, n, NoCalls, g)
  <2> HIDE DEF V, g
  <2>1. QED
    BY <1>1, <1>2, <1>4, RecursionUpTo
<1> HIDE DEF V
<1>6. ASSUME NEW i \in 1..n PROVE f[i] = Observe(window, threshold, f[i - 1], calls[i])
  <2>1. f[i] = g[<<i, f[i - 1]>>]
    BY <1>5 DEF Recursion
  <2>2. i - 1 \in 0..n
    BY <1>1
  <2>3. f[i - 1] \in V
    BY <2>2
  <2>4. <<i, f[i - 1]>> \in (1..n) \X V
    BY <2>3
  <2>5. QED
    BY <2>1, <2>4
<1> HIDE DEF g
<1>7. f[0] = NoCalls
  BY <1>5 DEF Recursion
<1>8. Is(f)
  <2>1. ASSUME NEW i \in 0..n
        PROVE  f[i] = IF i = 0 THEN [recent |-> << >>, loops |-> {}]
                      ELSE Observe(window, threshold, f[i - 1], calls[i])
    BY <1>6, <1>7 DEF NoCalls
  <2>2. QED
    BY <2>1
<1>9. ASSUME NEW h, Is(h) PROVE h = f
  <2> DEFINE S == {i \in 0..n : h[i] = f[i]}
  <2>1. 0 \in S
    BY <1>1, <1>7, <1>9 DEF NoCalls
  <2>2. ASSUME NEW i \in 0..(n - 1), i \in S PROVE i + 1 \in S
    <3>1. i + 1 \in 1..n /\ (i + 1) - 1 = i /\ i + 1 # 0 /\ i + 1 \in 0..n
      BY <1>1
    <3>2. h[i + 1] = Observe(window, threshold, h[i], calls[i + 1])
      BY <1>9, <3>1
    <3>3. f[i + 1] = Observe(window, threshold, f[i], calls[i + 1])
      BY <1>6, <3>1
    <3>4. QED
      BY <2>2, <3>1, <3>2, <3>3
  <2>3. 0..n \subseteq S
    <3> HIDE DEF S
    <3>1. QED
      BY <1>1, <2>1, <2>2, InductionUpTo
  <2>4. \A i \in 0..n : h[i] = f[i]
    BY <2>3
  <2>5. h = [i \in 0..n |-> h[i]] /\ f = [i \in 0..n |-> f[i]]
    BY <1>9
  <2>6. QED
    BY <2>4, <2>5, Zenon
<1>10. (CHOOSE h : Is(h)) = f
  <2> HIDE DEF Is
  <2>1. QED
    BY <1>8, <1>9
<1>11. DetectLoops(es, window, threshold) = f[n].loops
  BY <1>10 DEF DetectLoops, calls, n
<1>12. Detects(f, calls, window, threshold)
  BY <1>6, <1>7 DEF Detects, n
<1>13. QED
  BY <1>3, <1>11, <1>12 DEF V, n, calls

(* The window after the first n of the calls.                              *)
IsWindow(recent, calls, n, window) ==
  /\ Len(recent) = IF n <= window THEN n ELSE window
  /\ \A k \in 1..Len(recent) : recent[k] = Entry(calls[n - Len(recent) + k])

(* What it holds of a signature are the calls the code counts.             *)
LEMMA HeldAreRepeats ==
  ASSUME NEW E, NEW recent \in Seq(E), NEW T, NEW calls \in Seq(T), NEW n \in 0..Len(calls),
         policy.loopWindow \in Nat, IsWindow(recent, calls, n, policy.loopWindow), NEW sig
  PROVE  Cardinality(Holding(recent, sig)) = Cardinality(Repeats(calls, sig, n))
<1> DEFINE w == policy.loopWindow
           m == Len(recent)
           d == n - m
           I == Holding(recent, sig)
           J == Repeats(calls, sig, n)
           f == [k \in I |-> d + k]
<1>1. /\ m \in Nat /\ w \in Nat /\ n \in Nat /\ n <= Len(calls) /\ Len(calls) \in Nat
      /\ DOMAIN recent = 1..m /\ DOMAIN calls = 1..Len(calls)
      /\ m = IF n <= w THEN n ELSE w
  BY DEF IsWindow
<1>2. \A k \in 1..m : recent[k].signature = calls[d + k].signature
  <2>1. \A k \in 1..m : recent[k] = Entry(calls[d + k])
    BY DEF IsWindow
  <2>2. \A e : Entry(e).signature = e.signature
    BY DEF Entry
  <2> HIDE DEF m, d
  <2>3. QED
    BY <2>1, <2>2
<1>3. d \in Nat /\ d + m = n /\ \A x \in Int : (n - w < x /\ x <= n /\ 1 <= x) <=> (d + 1 <= x /\ x <= n)
  BY <1>1
<1> HIDE DEF m, w, d
<1>4. \A k \in I : k \in 1..m /\ d + k \in J
  <2>1. ASSUME NEW k \in I PROVE k \in 1..m /\ d + k \in J
    <3>1. k \in 1..m /\ recent[k].signature = sig
      BY <1>1 DEF Holding
    <3>2. d + k \in Int /\ d + 1 <= d + k /\ d + k <= n
      BY <1>1, <1>3, <3>1
    <3>3. n - w < d + k /\ d + k <= n /\ d + k \in 1..Len(calls)
      BY <1>1, <1>3, <3>2
    <3>4. QED
      BY <1>1, <1>2, <3>1, <3>3 DEF Repeats, w
  <2>2. QED
    BY <2>1
<1>5. \A x \in J : \E k \in I : d + k = x
  <2>1. ASSUME NEW x \in J PROVE x - d \in I /\ d + (x - d) = x
    <3>1. x \in 1..Len(calls) /\ n - w < x /\ x <= n /\ calls[x].signature = sig
      BY <1>1 DEF Repeats, w
    <3>2. d + 1 <= x /\ x <= n
      BY <1>1, <1>3, <3>1
    <3>3. x - d \in 1..m /\ d + (x - d) = x
      BY <1>1, <1>3, <3>1, <3>2
    <3>4. recent[x - d].signature = sig
      BY <1>2, <3>1, <3>3
    <3>5. QED
      BY <1>1, <3>3, <3>4 DEF Holding
  <2>2. QED
    BY <2>1
<1>6. I \in SUBSET (1..m) /\ IsFiniteSet(I)
  <2>1. I \in SUBSET (1..m)
    BY <1>4
  <2> HIDE DEF I
  <2>2. IsFiniteSet(1..m)
    BY <1>1, FS_Interval
  <2>3. QED
    BY <2>1, <2>2, FS_Subset
<1> HIDE DEF I, J
<1>7. f \in [I -> J] /\ (\A k \in I : f[k] = d + k)
  BY <1>4
<1>8. ExistsBijection(I, J)
  <2>1. \A a, b \in I : f[a] = f[b] => a = b
    <3>1. ASSUME NEW a \in I, NEW b \in I, f[a] = f[b] PROVE a = b
      <4>1. a \in Int /\ b \in Int /\ d + a = d + b /\ d \in Int
        BY <1>3, <1>6, <1>7, <3>1
      <4>2. QED
        BY <4>1
    <3>2. QED
      BY <3>1
  <2>2. \A x \in J : \E k \in I : f[k] = x
    BY <1>5, <1>7
  <2> HIDE DEF f
  <2>3. f \in Bijection(I, J)
    BY <1>7, <2>1, <2>2 DEF Bijection, Injection, Surjection, IsInjective
  <2>4. QED
    BY <2>3 DEF ExistsBijection
<1>9. QED
  BY <1>6, <1>8, FS_Bijection DEF I, J

LEMMA WindowSlides ==
  ASSUME NEW E, NEW recent \in Seq(E), NEW T, NEW calls \in Seq(T), NEW n \in Nat, n + 1 <= Len(calls),
         Entry(calls[n + 1]) \in E, NEW w \in Nat \ {0}, IsWindow(recent, calls, n, w)
  PROVE  IsWindow(Recent(w, recent, calls[n + 1]), calls, n + 1, w)
<1> DEFINE e == calls[n + 1]
           new == Recent(w, recent, e)
           m == Len(recent)
<1>1. /\ m \in Nat
      /\ m + 1 <= w => /\ Len(new) = m + 1
                       /\ \A k \in 1..m : new[k] = recent[k]
                       /\ new[m + 1] = Entry(e)
      /\ m + 1 > w => /\ Len(new) = m
                      /\ \A k \in 1..(m - 1) : new[k] = recent[k + 1]
                      /\ m > 0 => new[m] = Entry(e)
  BY RecentType
<1>2. m = (IF n <= w THEN n ELSE w) /\ \A k \in 1..m : recent[k] = Entry(calls[n - m + k])
  BY DEF IsWindow
<1> DEFINE At1(k) == Entry(calls[k])
<1>3. Entry(e) = At1(n + 1) /\ \A k \in 1..m : recent[k] = At1(n - m + k)
  BY <1>2
<1> HIDE DEF e, new, m, At1
<1>4. CASE n + 1 <= w
  <2>1. m = n /\ m + 1 <= w
    BY <1>2, <1>4
  <2>2. Len(new) = n + 1 /\ (\A k \in 1..n : new[k] = recent[k]) /\ new[n + 1] = At1(n + 1)
    BY <1>1, <1>3, <2>1
  <2>3. \A k \in 1..n : n - n + k = k /\ (n + 1) - (n + 1) + k = k
    OBVIOUS
  <2>4. \A k \in 1..n : new[k] = At1(k)
    <3>1. \A k \in 1..n : recent[k] = At1(n - n + k)
      BY <1>3, <2>1
    <3>2. QED
      BY <2>2, <2>3, <3>1
  <2>5. ASSUME NEW k \in 1..Len(new) PROVE new[k] = At1((n + 1) - Len(new) + k)
    <3>1. k \in 1..n \/ k = n + 1
      BY <2>2
    <3>2. (n + 1) - (n + 1) + k = k
      BY <2>2
    <3>3. QED
      BY <2>2, <2>4, <3>1, <3>2
  <2>6. Len(new) = IF n + 1 <= w THEN n + 1 ELSE w
    BY <1>4, <2>2
  <2>7. QED
    BY <2>5, <2>6 DEF IsWindow, new, e, At1
<1>5. CASE n + 1 > w
  <2>1. m = w /\ m + 1 > w /\ m > 0
    BY <1>2, <1>5
  <2>2. Len(new) = w /\ (\A k \in 1..(w - 1) : new[k] = recent[k + 1]) /\ new[w] = At1(n + 1)
    BY <1>1, <1>3, <2>1
  <2>3. ASSUME NEW k \in 1..w PROVE new[k] = At1((n + 1) - w + k)
    <3>1. CASE k = w
      <4>1. (n + 1) - w + w = n + 1
        OBVIOUS
      <4>2. QED
        BY <2>2, <3>1, <4>1
    <3>2. CASE k # w
      <4>1. k \in 1..(w - 1) /\ k + 1 \in 1..w /\ n - w + (k + 1) = (n + 1) - w + k
        BY <3>2
      <4>2. new[k] = recent[k + 1] /\ recent[k + 1] = At1(n - w + (k + 1))
        BY <1>3, <2>1, <2>2, <4>1
      <4>3. QED
        BY <4>1, <4>2
    <3>3. QED
      BY <3>1, <3>2
  <2>4. Len(new) = IF n + 1 <= w THEN n + 1 ELSE w
    BY <1>5, <2>2
  <2>5. \A k \in 1..Len(new) : new[k] = At1((n + 1) - Len(new) + k)
    BY <2>2, <2>3
  <2>6. QED
    BY <2>4, <2>5 DEF IsWindow, new, e, At1
<1>6. n + 1 <= w \/ n + 1 > w
  OBVIOUS
<1>7. QED
  BY <1>4, <1>5, <1>6

(* The findings after the first n of the calls: one for every signature    *)
(* that some window up to there held often enough, as the last of those    *)
(* windows held it.                                                        *)
Often(calls, j) == Cardinality(Repeats(calls, calls[j].signature, j)) >= policy.loopThreshold
LastEnd(calls, l, n, j) ==
  /\ calls[j].signature = l.signature /\ Often(calls, j)
  /\ \A k \in 1..n : calls[k].signature = l.signature /\ Often(calls, k) => k <= j
  /\ l.occurrences = Cardinality(Repeats(calls, l.signature, j)) /\ l.lastSeq = calls[j].seq
FoundUpTo(calls, loops, n) ==
  /\ \A j \in 1..n : Often(calls, j) => \E l \in loops : l.signature = calls[j].signature
  /\ \A l \in loops : \E j \in 1..n : LastEnd(calls, l, n, j)

LEMMA FindingsStep ==
  ASSUME NEW calls, NEW n \in Nat, NEW w, NEW A, NEW B, NEW state \in Detections(A, B), NEW next,
         FoundUpTo(calls, state.loops, n),
         Observed(w, policy.loopThreshold, state, calls[n + 1], next, Findings(A, B)),
         Cardinality(Holding(next.recent, calls[n + 1].signature))
           = Cardinality(Repeats(calls, calls[n + 1].signature, n + 1))
  PROVE  FoundUpTo(calls, next.loops, n + 1)
<1> DEFINE e == calls[n + 1]
           known == {l \in state.loops : l.signature = e.signature}
<1>1. PICK finding \in Findings(A, B) :
        /\ finding.signature = e.signature
        /\ finding.occurrences = Cardinality(Repeats(calls, e.signature, n + 1)) /\ finding.lastSeq = e.seq
        /\ next.loops = IF Often(calls, n + 1) THEN (state.loops \ known) \cup {finding} ELSE state.loops
  BY DEF Observed, Often
<1>2. \A j \in 1..(n + 1) : j \in 1..n \/ j = n + 1
  OBVIOUS
<1>3. n + 1 \in 1..(n + 1) /\ (\A j \in 1..n : j \in 1..(n + 1) /\ j <= n + 1) /\ n + 1 <= n + 1
  OBVIOUS
<1>4. /\ \A j \in 1..n : Often(calls, j) => \E l \in state.loops : l.signature = calls[j].signature
      /\ \A l \in state.loops : \E j \in 1..n : LastEnd(calls, l, n, j)
  BY DEF FoundUpTo
<1>5. CASE Often(calls, n + 1)
  <2>1. next.loops = (state.loops \ known) \cup {finding}
    BY <1>1, <1>5
  <2>2. ASSUME NEW j \in 1..(n + 1), Often(calls, j)
        PROVE  \E l \in next.loops : l.signature = calls[j].signature
    BY <1>1, <1>2, <1>4, <2>1, <2>2
  <2>3. ASSUME NEW l \in next.loops
        PROVE  \E j \in 1..(n + 1) : LastEnd(calls, l, n + 1, j)
    <3>1. CASE l = finding
      <4>1. LastEnd(calls, l, n + 1, n + 1)
        BY <1>1, <1>2, <1>3, <1>5, <3>1 DEF LastEnd
      <4>2. QED
        BY <1>3, <4>1
    <3>2. CASE l # finding
      <4>1. l \in state.loops /\ l.signature # e.signature
        BY <2>1, <3>2
      <4>2. PICK j \in 1..n : LastEnd(calls, l, n, j)
        BY <1>4, <4>1
      <4>3. LastEnd(calls, l, n + 1, j)
        BY <1>2, <4>1, <4>2 DEF LastEnd
      <4>4. QED
        BY <1>3, <4>3
    <3>3. QED
      BY <3>1, <3>2
  <2>4. QED
    BY <2>2, <2>3 DEF FoundUpTo
<1>6. CASE ~Often(calls, n + 1)
  <2>1. next.loops = state.loops
    BY <1>1, <1>6
  <2>2. ASSUME NEW l \in next.loops
        PROVE  \E j \in 1..(n + 1) : LastEnd(calls, l, n + 1, j)
    <3>1. PICK j \in 1..n : LastEnd(calls, l, n, j)
      BY <1>4, <2>1
    <3>2. LastEnd(calls, l, n + 1, j)
      BY <1>2, <1>6, <3>1 DEF LastEnd
    <3>3. QED
      BY <1>3, <3>2
  <2>3. QED
    BY <1>2, <1>4, <1>6, <2>1, <2>2 DEF FoundUpTo
<1>7. QED
  BY <1>5, <1>6

LEMMA DetectedAll ==
  ASSUME NEW T, NEW es, Signed(es) \in Seq(T),
         policy.loopWindow \in Nat \ {0}, policy.loopThreshold \in Nat \ {0}
  PROVE  FoundUpTo(Signed(es), DetectLoops(es, policy.loopWindow, policy.loopThreshold), Len(Signed(es)))
<1> DEFINE calls == Signed(es)
           n == Len(calls)
           w == policy.loopWindow
           h == policy.loopThreshold
<1>1. n \in Nat /\ calls \in Seq(T)
  OBVIOUS
<1>2. PICK A, B : \E f \in [0..n -> Detections(A, B)] :
        /\ Detects(f, calls, w, h)
        /\ \A i \in 1..n : calls[i].signature \in A /\ calls[i].seq \in B
        /\ DetectLoops(es, w, h) = f[n].loops
  BY DetectSteps
<1>3. PICK f \in [0..n -> Detections(A, B)] :
        /\ Detects(f, calls, w, h)
        /\ \A i \in 1..n : calls[i].signature \in A /\ calls[i].seq \in B
        /\ DetectLoops(es, w, h) = f[n].loops
  BY <1>2
<1> DEFINE E == [signature : A, seq : B]
           S == {i \in 0..n : IsWindow(f[i].recent, calls, i, w) /\ FoundUpTo(calls, f[i].loops, i)}
<1>4. \A i \in 0..n : f[i].recent \in Seq(E)
  BY DEF Detections
<1>5. \A i \in 1..n : Entry(calls[i]) \in E
  BY <1>3 DEF Entry
<1> HIDE DEF calls, E
<1>6. 0 \in S
  <2>1. f[0].recent = << >> /\ f[0].loops = {} /\ 0 \in 0..n
    BY <1>1, <1>3 DEF Detects, NoCalls
  <2>2. IsWindow(<< >>, calls, 0, w)
    BY DEF IsWindow
  <2>3. FoundUpTo(calls, {}, 0)
    BY DEF FoundUpTo
  <2>4. QED
    BY <2>1, <2>2, <2>3
<1>7. ASSUME NEW i \in 0..(n - 1), i \in S PROVE i + 1 \in S
  <2>1. /\ i \in Nat /\ i + 1 \in 1..n /\ i + 1 <= n /\ (i + 1) - 1 = i /\ i \in 0..n /\ i + 1 \in 0..n
    BY <1>1
  <2>2. IsWindow(f[i].recent, calls, i, w) /\ FoundUpTo(calls, f[i].loops, i)
    BY <1>7
  <2> DEFINE state == f[i]
             next == f[i + 1]
             e == calls[i + 1]
  <2>3. state \in Detections(A, B) /\ next = Observe(w, h, state, e)
    <3>1. next = Observe(w, h, f[(i + 1) - 1], e)
      BY <1>3, <2>1 DEF Detects
    <3>2. QED
      BY <2>1, <3>1
  <2>4. e.signature \in A /\ e.seq \in B /\ Entry(e) \in E
    BY <1>3, <1>5, <2>1
  <2> HIDE DEF state, next, e
  <2>5. next \in Detections(A, B) /\ Observed(w, h, state, e, next, Findings(A, B))
    BY <2>3, <2>4, ObserveStep
  <2>6. next.recent = Recent(w, state.recent, e) /\ state.recent \in Seq(E)
    BY <1>4, <2>1, <2>5 DEF Observed, state
  <2>7. IsWindow(next.recent, calls, i + 1, w)
    <3> HIDE DEF w
    <3>1. w \in Nat \ {0}
      BY DEF w
    <3>2. IsWindow(Recent(w, state.recent, calls[i + 1]), calls, i + 1, w)
      BY <1>1, <2>1, <2>2, <2>4, <2>6, <3>1, WindowSlides DEF state, e
    <3>3. QED
      BY <2>6, <3>2 DEF e
  <2>8. next.recent \in Seq(E)
    BY <1>4, <2>1 DEF next
  <2>9. Cardinality(Holding(next.recent, e.signature)) = Cardinality(Repeats(calls, e.signature, i + 1))
    BY <1>1, <2>1, <2>7, <2>8, HeldAreRepeats
  <2>10. FoundUpTo(calls, next.loops, i + 1)
    BY <2>1, <2>2, <2>3, <2>5, <2>9, FindingsStep DEF state, e
  <2>11. QED
    BY <2>1, <2>7, <2>10 DEF next
<1>8. 0..n \subseteq S
  <2> HIDE DEF S
  <2>1. QED
    BY <1>1, <1>6, <1>7, InductionUpTo
<1>9. FoundUpTo(calls, f[n].loops, n)
  BY <1>1, <1>8
<1>10. QED
  BY <1>3, <1>9 DEF calls

LEMMA LoopsAreRight ==
  ASSUME GuardInv
  PROVE  LoopsAreThoseOfSomeWindow
<1> DEFINE calls == Signed(events)
           w == policy.loopWindow
           h == policy.loopThreshold
           loops == DetectLoops(events, w, h)
<1> SUFFICES ASSUME report # None
             PROVE  LoopsAreThoseOfSomeWindow
  BY DEF LoopsAreThoseOfSomeWindow
<1>1. stage = "done" /\ report = Report(events)
  BY DEF GuardInv
<1>2. report.loops = loops
  BY <1>1 DEF Report
<1>3. /\ events \in Seq(EventsOf) /\ DOMAIN EventLines = 1..Len(events)
      /\ \A k \in 1..Len(events) : EventAt(k) = events[k]
  BY <1>1, EventsOfStream
<1>4. Calls = calls
  <2>1. events = [i \in 1..Len(events) |-> events[i]]
    BY <1>3
  <2>2. [i \in DOMAIN EventLines |-> EventAt(i)] = [i \in 1..Len(events) |-> events[i]]
    BY <1>3
  <2>3. QED
    BY <2>1, <2>2 DEF Calls
<1>5. calls \in Seq(EventsOf)
  <2>1. {i \in DOMAIN events : events[i].signature # None} \in SUBSET (1..Len(events))
    BY <1>3
  <2>2. QED
    BY <1>3, <2>1, AtPicks DEF Signed
<1>6. w \in Nat /\ h \in Nat
  <2>1. policy \in AgentPolicy
    BY PoliciesAssumption DEF GuardInv
  <2>2. QED
    BY <2>1 DEF AgentPolicy
<1>7. CASE w = 0 \/ h = 0
  <2>1. loops = {}
    BY <1>7 DEF DetectLoops
  <2>2. QED
    BY <1>2, <1>7, <2>1 DEF LoopsAreThoseOfSomeWindow
<1>8. CASE ~(w = 0 \/ h = 0)
  <2>1. FoundUpTo(calls, loops, Len(calls))
    BY <1>5, <1>6, <1>8, DetectedAll
  <2>2. DOMAIN calls = 1..Len(calls)
    BY <1>5
  <2> HIDE DEF calls, loops
  <2>3. \A sig : LoopEnds(calls, sig) = {j \in 1..Len(calls) : calls[j].signature = sig /\ Often(calls, j)}
    BY <2>2 DEF LoopEnds, Often
  <2>4. {l.signature : l \in loops}
          = {calls[j].signature : j \in {k \in DOMAIN calls : LoopEnds(calls, calls[k].signature) # {}}}
    <3>1. ASSUME NEW l \in loops
          PROVE  \E j \in DOMAIN calls : LoopEnds(calls, calls[j].signature) # {} /\ calls[j].signature = l.signature
      <4>1. PICK j \in 1..Len(calls) : LastEnd(calls, l, Len(calls), j)
        BY <2>1 DEF FoundUpTo
      <4>2. j \in LoopEnds(calls, calls[j].signature) /\ calls[j].signature = l.signature
        BY <2>3, <4>1 DEF LastEnd
      <4>3. QED
        BY <2>2, <4>2
    <3>2. ASSUME NEW k \in DOMAIN calls, LoopEnds(calls, calls[k].signature) # {}
          PROVE  \E l \in loops : l.signature = calls[k].signature
      <4>1. PICK j \in 1..Len(calls) : calls[j].signature = calls[k].signature /\ Often(calls, j)
        BY <2>3, <3>2
      <4>2. QED
        BY <2>1, <4>1 DEF FoundUpTo
    <3> DEFINE K == {k \in DOMAIN calls : LoopEnds(calls, calls[k].signature) # {}}
               X == {l.signature : l \in loops}
               Y == {calls[j].signature : j \in K}
    <3>3. ASSUME NEW x \in X PROVE x \in Y
      BY <3>1
    <3>4. ASSUME NEW x \in Y PROVE x \in X
      BY <3>2
    <3> HIDE DEF X, Y
    <3>5. X = Y
      BY <3>3, <3>4
    <3>6. QED
      BY <3>5 DEF X, Y
  <2>5. ASSUME NEW l \in loops
        PROVE  \E j \in LoopEnds(calls, l.signature) :
                 /\ \A k \in LoopEnds(calls, l.signature) : k <= j
                 /\ l.occurrences = Cardinality(Repeats(calls, l.signature, j))
                 /\ l.lastSeq = calls[j].seq
    <3>1. PICK j \in 1..Len(calls) : LastEnd(calls, l, Len(calls), j)
      BY <2>1 DEF FoundUpTo
    <3>2. j \in LoopEnds(calls, l.signature) /\ \A k \in LoopEnds(calls, l.signature) : k <= j
      BY <2>3, <3>1 DEF LastEnd
    <3>3. QED
      BY <3>1, <3>2 DEF LastEnd
  <2>6. QED
    BY <1>2, <1>4, <1>8, <2>4, <2>5 DEF LoopsAreThoseOfSomeWindow
<1>9. QED
  BY <1>7, <1>8

-----------------------------------------------------------------------------
(* The theorems about the guard. *)

(* The reader of agent events keeps one event for every non-blank line it  *)
(* has passed, in their order, and reports on all of them or not at all:   *)
(* parse_ndjson and evaluate (agent.rs:264-291, 360-411).                  *)
THEOREM GuardInvariance == GuardSpec => []GuardInv
<1>1. GuardInit => GuardInv
  BY GuardStart
<1>2. GuardInv /\ [GuardNext]_guardVars => GuardInv'
  BY GuardStep
<1>3. QED
  BY <1>1, <1>2, PTL DEF GuardSpec

(* An agent is told to stop for what the lines of the stream say was       *)
(* measured, with the values of an event that calls itself unknown, and    *)
(* for nothing else; it is told whenever that breaks a budget and fits its *)
(* width (agent.rs:10-19, 139-143).                                        *)
THEOREM StopsRight == GuardSpec => []StopRestsOnMeasuredData
<1>1. GuardInv => StopRestsOnMeasuredData
  BY StopIsRight
<1>2. QED
  BY <1>1, GuardInvariance, PTL

(* The loops reported are those of some window of consecutive calls, with  *)
(* the count and the last call of the last such window.                    *)
THEOREM LoopsRight == GuardSpec => []LoopsAreThoseOfSomeWindow
<1>1. GuardInv => LoopsAreThoseOfSomeWindow
  BY LoopsAreRight
<1>2. QED
  BY <1>1, GuardInvariance, PTL
=============================================================================
