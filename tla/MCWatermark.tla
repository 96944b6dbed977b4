---------------------------- MODULE MCWatermark ----------------------------
(* Watermark for TLC: two submissions; with a lateness of two, the first    *)
(* one's events can be early, out of order but in time (3 after 4) or late  *)
(* (1 after 4), and its marker comes in before, between or after them.      *)
EXTENDS Watermark
CONSTANTS s1, s2
MCSubs == {s1, s2}
Ev(s, t, e) == [sub |-> s, ts |-> t, end |-> e]
MCFeed == {Ev(s1, 1, FALSE), Ev(s1, 3, FALSE), Ev(s1, 4, FALSE), Ev(s1, 3, TRUE),
           Ev(s2, 1, FALSE)}
=============================================================================
