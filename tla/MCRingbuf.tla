------------------------------ MODULE MCRingbuf ------------------------------
(* Ringbuf on a ring of four words.  Record sizes are one, two and three     *)
(* words, so records wrap at the end of the ring and fill it.                *)
EXTENDS Ringbuf

\* Payload bytes taken for a header read as a length a record can have or as
\* one that no ring of this size can hold.
MCRawLens == RecordLens \cup {0, 100}
==============================================================================
