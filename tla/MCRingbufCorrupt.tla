-------------------------- MODULE MCRingbufCorrupt --------------------------
(* RingbufCorrupt on a ring of four words.  A corrupt length is one a record *)
(* can have, or one that leaves the mapping from the later offsets but fits  *)
(* it from the first.                                                        *)
EXTENDS RingbufCorrupt

MCRawLens == RecordLens \cup {0, 48}
=============================================================================
