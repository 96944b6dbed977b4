---------------------------- MODULE MCScoreboard ----------------------------
(* Scoreboard for TLC: batches of one fast and of two slower answers, one  *)
(* of them an error; one submission may pass or fail, one is undecided.    *)
EXTENDS Scoreboard

CONSTANTS s1, s2

MCBatches == {[ok |-> 1, hist |-> <<1>>], [ok |-> 1, hist |-> <<0, 2>>]}
MCDecisions ==
    {[sub |-> s1, verdict |-> "correct"], [sub |-> s1, verdict |-> "incorrect"],
     [sub |-> s2, verdict |-> "unverified"]}
=============================================================================
