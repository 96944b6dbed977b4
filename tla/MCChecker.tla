----------------------------- MODULE MCChecker -----------------------------
(* Checker for TLC: two submissions for one replay slot, one-element        *)
(* channels, events ahead of, behind and equal to the marker in event time. *)
EXTENDS Checker
CONSTANTS s1, s2
Ev(s, t, e) == [sub |-> s, ts |-> t, end |-> e]
MCFeed == {Ev(s1, 1, FALSE), Ev(s1, 4, FALSE), Ev(s1, 3, TRUE), Ev(s2, 1, TRUE)}
=============================================================================
