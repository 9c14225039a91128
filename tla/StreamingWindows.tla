-------------------------- MODULE StreamingWindows --------------------------
(***************************************************************************)
(* The window executors of crates/statguardian-core (src/streaming.rs): an *)
(* owner asks for the window(s) of each event of an unbounded stream and,  *)
(* as its watermark advances, has the windows that ended before a cutoff   *)
(* closed. TumblingWindowExecutor hands out a reference to one window, to  *)
(* which the owner adds the event; SlidingWindowExecutor hands out copies  *)
(* of windows and evicts the expired ones itself.                          *)
(*                                                                         *)
(* Times and durations are in ticks of a fraction of a second: the code    *)
(* numbers windows with as_secs(), which drops the fraction.               *)
(***************************************************************************)
EXTENDS Integers, Sequences, FiniteSets

CONSTANTS
  TicksPerSecond,
  WindowTypes,      \* the WindowType values considered
  MaxTime,          \* the latest timestamp an event carries (bound)
  MaxEvents         \* how many events arrive (bound)

Duration == Nat
WindowType == [kind : {"tumbling"}, size : Duration] \cup [kind : {"sliding"}, size : Duration, slide : Duration]

ASSUME TicksAssumption == TicksPerSecond \in Nat \ {0}
ASSUME TypesAssumption == WindowTypes \subseteq WindowType
ASSUME BoundsAssumption == MaxTime \in Nat /\ MaxEvents \in Nat

VARIABLES
  type,             \* the executor's WindowType
  open,             \* current_windows: one window per id
  closed,           \* the windows handed to the owner as closed, with the cutoff of the call
  result,           \* what the last get_window(s)_for_event returned
  pc,               \* ready | panicked | looping
  arrived,          \* history: each event's timestamp and the watermark it met
  watermark         \* history: the latest cutoff so far

vars == <<type, open, closed, result, pc, arrived, watermark>>
history == <<arrived, watermark>>

AsSecs(d) == d \div TicksPerSecond
FromSecs(n) == n * TicksPerSecond
Time == 0..MaxTime
Window == [id : Nat, start : Nat, end : Nat, events : SUBSET Nat]

Init ==
  /\ type \in WindowTypes
  /\ open = {}
  /\ closed = {}
  /\ result = {}
  /\ pc = "ready"
  /\ arrived = << >>
  /\ watermark = 0

Tumbling == type.kind = "tumbling"
Sliding == type.kind = "sliding"
Arrives == pc = "ready" /\ Len(arrived) < MaxEvents
Arrive(ts) == arrived' = Append(arrived, [ts |-> ts, watermark |-> watermark])

(* Seeded fault: a window that already has events is not found again.      *)
WithIdStillEmpty(id) == {w \in open : w.id = id /\ w.events = {}}

WithId(id) == {w \in open : w.id = id}

-----------------------------------------------------------------------------
(* TumblingWindowExecutor. *)

Starting(id, start) == [id |-> id, start |-> start, end |-> start + type.size, events |-> {}]

(* Seeded fault: the window is made anew for every event.                  *)
FindOrOpenAnew(id, start) == Starting(id, start)

(* The window of that id, or a new one. *)
FindOrOpen(id, start) ==
  IF WithId(id) # {} THEN CHOOSE w \in WithId(id) : TRUE ELSE Starting(id, start)

(* add_event: an event outside the window is an Err and is not kept.       *)
AddEvent(w, ts) ==
  IF w.start <= ts /\ ts <= w.end THEN [w EXCEPT !.events = @ \cup {Len(arrived) + 1}] ELSE w

(* get_window_for_event, then add_event on the window it lends.            *)
TumblingEvent(ts) ==
  LET number == AsSecs(ts) \div AsSecs(type.size)
      added == AddEvent(FindOrOpen(number, FromSecs(number * AsSecs(type.size))), ts)
  IN /\ Tumbling /\ Arrives
     /\ AsSecs(type.size) > 0
     /\ open' = (open \ WithId(number)) \cup {added}
     /\ result' = {added}
     /\ Arrive(ts)
     /\ UNCHANGED <<type, closed, pc, watermark>>

(* A window shorter than a second divides by zero. *)
TumblingPanic ==
  /\ Tumbling /\ Arrives
  /\ AsSecs(type.size) = 0
  /\ pc' = "panicked"
  /\ UNCHANGED <<type, open, closed, result, history>>

-----------------------------------------------------------------------------
(* SlidingWindowExecutor. *)

SlideStart(k) == FromSecs(k * AsSecs(type.slide))
SlideEnd(k) == SlideStart(k) + type.size

(* The walk over the slides stops at the first one that ends after ts ...  *)
Stops(k, ts) == SlideEnd(k) > ts
Walked(k, ts) == \A j \in 0..(k - 1) : ~Stops(j, ts)

(* ... and collects, on its way, those that contain ts.                    *)
SlidesOf(ts) == {k \in 0..(ts + 1) : Walked(k, ts) /\ SlideStart(k) <= ts /\ ts <= SlideEnd(k)}

(* Seeded fault: a window expires once it starts before the cutoff.        *)
ExpiredByStart(w, cutoff) == w.start < cutoff

(* Seeded fault: nothing expires.                                          *)
ExpiredNever(w, cutoff) == w.end < 0

Expired(w, cutoff) == w.end < cutoff

(* get_windows_for_event: what it evicts at its end is dropped. *)
SlidingEvent(ts) ==
  LET found == {FindOrOpen(k, SlideStart(k)) : k \in SlidesOf(ts)}
  IN /\ Sliding /\ Arrives
     /\ \E k \in 0..(ts + 1) : Stops(k, ts)
     /\ open' = {w \in open \cup found : ~Expired(w, ts)}
     /\ result' = found
     /\ Arrive(ts)
     /\ UNCHANGED <<type, closed, pc, watermark>>

(* A slide shorter than a second never moves: past the first window the    *)
(* walk goes on for ever.                                                  *)
SlidingLoop(ts) ==
  /\ Sliding /\ Arrives
  /\ \A k \in 0..(ts + 1) : ~Stops(k, ts)
  /\ pc' = "looping"
  /\ UNCHANGED <<type, open, closed, result, history>>

-----------------------------------------------------------------------------
(* Both. *)

(* A timestamp before the epoch is an Err. *)
EventBeforeEpoch ==
  /\ Arrives
  /\ result' = {}
  /\ UNCHANGED <<type, open, closed, pc, history>>

(* close_windows_before, evict_expired. *)
CloseBefore(cutoff) ==
  LET expired == {w \in open : Expired(w, cutoff)}
  IN /\ pc = "ready"
     /\ open' = open \ expired
     /\ closed' = closed \cup {[window |-> w, cutoff |-> cutoff] : w \in expired}
     /\ watermark' = IF cutoff > watermark THEN cutoff ELSE watermark
     /\ UNCHANGED <<type, result, pc, arrived>>

Next ==
  \/ \E ts \in Time : TumblingEvent(ts) \/ SlidingEvent(ts) \/ SlidingLoop(ts)
  \/ TumblingPanic
  \/ EventBeforeEpoch
  \/ \E cutoff \in 1..(MaxTime + 1) : CloseBefore(cutoff)

Spec == Init /\ [][Next]_vars

-----------------------------------------------------------------------------
(* Properties. *)

(* The types of the state; a window is open under its id only once         *)
(* (streaming.rs:97).                                                      *)
TypeOK ==
  /\ type \in WindowTypes
  /\ open \subseteq Window
  /\ \A v, w \in open : v.id = w.id => v = w
  /\ closed \subseteq [window : Window, cutoff : Nat]
  /\ result \subseteq Window
  /\ pc \in {"ready", "panicked", "looping"}
  /\ arrived \in Seq([ts : Time, watermark : Nat])
  /\ watermark \in Nat

Closed == {c.window : c \in closed}

(* An event counted in a tumbling window stays in exactly one, open or     *)
(* closed, that contains its time, whatever is closed and re-opened in     *)
(* between; a window is closed only when it ended before the cutoff        *)
(* (streaming.rs:84-125).                                                  *)
EveryEventInOneWindow ==
  Tumbling =>
    /\ \A i \in DOMAIN arrived :
         /\ Cardinality({w \in open \cup Closed : i \in w.events}) = 1
         /\ \A w \in open \cup Closed :
              i \in w.events => w.start <= arrived[i].ts /\ arrived[i].ts <= w.end
    /\ \A c \in closed : c.window.end < c.cutoff

(* The owner sees a tumbling window twice only because of late events: one *)
(* that adds to a window id closed before came with a time the watermark   *)
(* had passed (streaming.rs:107 looks only at the windows still open).     *)
Late(i) == arrived[i].ts < arrived[i].watermark
OnlyLateEventsReopen ==
  Tumbling =>
    \A v \in Closed, w \in open \cup Closed :
      v.id = w.id /\ v # w => \A i \in v.events, j \in w.events : i < j => Late(j)

(* On a stream in order that the owner's cutoffs do not overtake, a        *)
(* sliding executor of whole seconds without gaps has a window for the     *)
(* last event and never more open than slides fit into a window, plus one  *)
(* ("Bound memory usage", streaming.rs:182-189).                           *)
WholeSeconds(d) == d = FromSecs(AsSecs(d)) /\ d > 0
InOrder ==
  /\ \A i \in DOMAIN arrived : ~Late(i) /\ (i > 1 => arrived[i - 1].ts <= arrived[i].ts)
  /\ arrived # << >> => watermark <= arrived[Len(arrived)].ts
OpenWindowsBounded ==
  Sliding /\ WholeSeconds(type.size) /\ WholeSeconds(type.slide) /\ type.slide <= type.size =>
    /\ pc = "ready"
    /\ InOrder /\ arrived # << >> =>
         /\ \E w \in open : w.start <= arrived[Len(arrived)].ts /\ arrived[Len(arrived)].ts <= w.end
         /\ Cardinality(open) <= (type.size \div type.slide) + 1
=============================================================================
