---------------------------- MODULE RecordStream ----------------------------
(***************************************************************************)
(* What poll_ringbuf promises the program that calls it, with no ring, no  *)
(* positions, no headers and no threads: records are reserved in an order, *)
(* finished in any order, and handled strictly in the order of reservation.*)
(* A record is acknowledged only when it is discarded or has been handed   *)
(* to the callback, and it is handed over again only after a crash.        *)
(***************************************************************************)
EXTENDS Integers, Sequences, FiniteSets

CONSTANTS Lens,        \* data lengths of records
          Crashes      \* bound: crashes of the reader

VARIABLES records,     \* every reservation, [len, st], in order
          acked,       \* how many records are acknowledged
          called,      \* numbers of the records handed to the callback, in order
          crashed      \* how often the reader crashed

streamVars == <<records, acked, called, crashed>>

Init == records = <<>> /\ acked = 0 /\ called = <<>> /\ crashed = 0

Reserve(len) ==
    /\ records' = Append(records, [len |-> len, st |-> "busy"])
    /\ UNCHANGED <<acked, called, crashed>>

Finish(i, st) ==
    /\ records[i].st = "busy"
    /\ records' = [records EXCEPT ![i].st = st]
    /\ UNCHANGED <<acked, called, crashed>>

\* The first record not acknowledged.
First == acked + 1
FirstIs(st) == First <= Len(records) /\ records[First].st = st

\* The calls with that record so far; each one but the first needs a crash.
Repeats == {k \in 1..Len(called) : called[k] = First}

Call ==
    /\ FirstIs("committed")
    /\ Cardinality(Repeats) <= crashed
    /\ called' = Append(called, First)
    /\ UNCHANGED <<records, acked, crashed>>

Ack ==
    /\ FirstIs("discarded") \/ (FirstIs("committed") /\ Repeats # {})
    /\ acked' = First
    /\ UNCHANGED <<records, called, crashed>>

Crash ==
    /\ crashed < Crashes
    /\ crashed' = crashed + 1
    /\ UNCHANGED <<records, acked, called>>

Next ==
    \/ \E len \in Lens : Reserve(len)
    \/ \E i \in 1..Len(records), st \in {"committed", "discarded"} : Finish(i, st)
    \/ Call \/ Ack \/ Crash

Spec == Init /\ [][Next]_streamVars
=============================================================================
