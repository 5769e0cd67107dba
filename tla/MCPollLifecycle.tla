-------------------------- MODULE MCPollLifecycle --------------------------
(* PollLifecycle with two threads.                                           *)
EXTENDS PollLifecycle, TLC

CONSTANTS p1, p2, a1, a2, a3, a4

MCCallers == {p1, p2}
MCAddrs == {a1, a2, a3, a4}
MCFds == 0..2

Interchangeable == Permutations(MCCallers) \cup Permutations(MCAddrs)
==============================================================================
