----------------------------- MODULE RecordLen -----------------------------
(***************************************************************************)
(* The length arithmetic of the ring-buffer reader (loader/ringbuf.rs).    *)
(* usize arithmetic is bounded by UsizeMax: saturating operations clip at  *)
(* it, checked operations fail above it.                                   *)
(***************************************************************************)
EXTENDS Integers

CONSTANT UsizeMax      \* usize::MAX

\* usize::MAX is 2^w - 1 for some width w >= 3, so its low three bits are set.
ASSUME UsizeMaxAssumption == UsizeMax \in Nat /\ UsizeMax % 8 = 7

BPF_RINGBUF_HDR_SZ == 8

saturating_add(a, b) == IF a + b <= UsizeMax THEN a + b ELSE UsizeMax

\* x & !7
AlignDown8(x) == x - (x % 8)

round_record_lenUnrounded(data_len) == saturating_add(data_len, BPF_RINGBUF_HDR_SZ)

round_record_len(data_len) ==
    LET total == saturating_add(data_len, BPF_RINGBUF_HDR_SZ)
    IN  AlignDown8(saturating_add(total, 7))

\* The data pages taken as mapped once.
record_within_mappingOnce(data_offset, data_len, ring_size) ==
    data_offset + data_len <= ring_size

\* checked_add and checked_mul return None, and the match falls to false,
\* when the exact result does not fit usize.
record_within_mapping(data_offset, data_len, ring_size) ==
    /\ data_offset + data_len <= UsizeMax
    /\ 2 * ring_size <= UsizeMax
    /\ data_offset + data_len <= 2 * ring_size
=============================================================================
