-------------------------- MODULE MCLeaderboardHub --------------------------
(* LeaderboardHub for TLC.                                                 *)
EXTENDS LeaderboardHub
=============================================================================
