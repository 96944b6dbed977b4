------------------------- MODULE MCSandboxLifecycle -------------------------
(* SandboxLifecycle for TLC: two submissions and one worker, so that one of *)
(* them can wait in Redis, with the dispatcher and in jobs while the other  *)
(* is processed; errors before and after the container exists.              *)
EXTENDS SandboxLifecycle
CONSTANTS s1, s2, w1
MCSubs == {s1, s2}
MCWorkers == {w1}
MCErrors == {"unbound", "other"}
=============================================================================
