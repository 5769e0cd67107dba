----------------------------- MODULE MCFilterVM -----------------------------
(* FilterVM on all packets, patterns, classes and texts up to a few bytes.   *)
EXTENDS FilterVM

\* Patterns past both limits: one byte more than MAX_BPF_PATTERN_LEN, and one
\* whose instruction count is more than MAX_BPF_INSTRUCTION_LEN.
MCPackets == BoundedSeq({0, 1}, 4)
MCLiterals == BoundedSeq({0, 1}, 5)
MCAlternations == BoundedSeq(BoundedSeq({0, 1}, 2), 2)

\* The ends of the byte values, and in between the bytes on both sides of an end
\* of \d and of the ranges that MCTexts spells: tab, newline, - / 0 9 : \ a b n o,
\* and the two bytes of a codepoint.
MCByte == {0, 1, 9, 10, 45, 47, 48, 57, 58, 92, 97, 98, 110, 111, 169, 195, 255}

\* Single ranges, reversed ranges, and every pair of ranges.
MCClasses == BoundedSeq([lo : {0, 1, 45, 255}, hi : {0, 1, 45, 255}], 2)

\* Every text of up to five of - \ a n (so a-n-a, \--a, a--), every one of up to
\* three of the bytes that a rule of the parser names, and \w\w\w, too long.
MCTexts ==
    BoundedSeq({45, 92, 97, 110}, 5)
      \cup BoundedSeq({45, 92, 97, 100, 119, 68, 195, 169}, 3)
      \cup {<<92, 119, 92, 119, 92, 119>>}
==============================================================================
