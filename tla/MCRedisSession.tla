--------------------------- MODULE MCRedisSession ---------------------------
(* Instances of RedisSession for TLC. *)
EXTENDS RedisSession, TLC

\* Requests, sessions and state keys are interchangeable.  Used by the runs
\* without liveness properties only.
Symmetry == Permutations(Procs) \cup Permutations(Sessions) \cup Permutations(Keys)
=============================================================================
