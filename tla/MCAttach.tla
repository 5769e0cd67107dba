------------------------------ MODULE MCAttach ------------------------------
(* Attach with patterns and programs on both sides of the limits.            *)
EXTENDS Attach

CONSTANTS t1, t2, s1, s2

\* The empty pattern, the longest that fits the instruction limit, one that does
\* not.
MCPatterns == {<<>>, <<0, 0>>, <<0, 0, 0>>}

\* Programs of no instruction, of a few, and of one more than the limit.
MCPrograms == {<<>>, Return(0), [k \in 1..(MAX_BPF_INSNS + 1) |-> exit]}

MCSymmetry == Permutations(Threads) \cup Permutations(Sockets)
==============================================================================
