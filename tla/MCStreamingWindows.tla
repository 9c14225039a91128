------------------------- MODULE MCStreamingWindows -------------------------
(* Two ticks to the second, so that sizes of half seconds occur. *)
EXTENDS StreamingWindows

Tumble(size) == [kind |-> "tumbling", size |-> size]
Slide(size, slide) == [kind |-> "sliding", size |-> size, slide |-> slide]

(* Below a second, one second, with a fraction, two seconds; sliding:      *)
(* adjacent, overlapping, with fractions of either, with gaps, and a slide *)
(* below a second.                                                         *)
MCWindowTypes ==
  {Tumble(1), Tumble(2), Tumble(3), Tumble(4)}
  \cup {Slide(2, 2), Slide(4, 2), Slide(3, 2), Slide(4, 3), Slide(2, 4), Slide(2, 1)}
=============================================================================
