-------------------------- MODULE RingbufCorrupt ---------------------------
(***************************************************************************)
(* The reader of Ringbuf over a ring whose headers can be corrupted: the   *)
(* case the comment at ringbuf.rs:197-203 and record_within_mapping are    *)
(* written for.  Nothing is promised about the records that are read then, *)
(* only about the memory that is touched and the positions stored.         *)
(***************************************************************************)
EXTENDS Ringbuf

Pending(i) == log[i].pos >= consumer_pos
Intact ==
    /\ AtRecord(consumer_pos)
    /\ \A i \in 1..Len(log) : Pending(i) => header[Offset(log[i].pos)] = HeaderOf(i)

\* The length and flags in the header of a pending record turn into anything,
\* as long as the ring is intact: one header at a time.
Corrupt(i, h) ==
    /\ Intact /\ Pending(i)
    /\ header' = [header EXCEPT ![Offset(log[i].pos)] = h]
    /\ UNCHANGED <<producer_pos, payload, log, consumer_pos, pc, localVars,
                   delivered, crashes>>

CorruptNext == Next \/ \E i \in 1..Len(log), h \in RingbufHeader : Corrupt(i, h)

CorruptSpec == Init /\ [][CorruptNext]_vars

-----------------------------------------------------------------------------
Passes(p) == pc[p] = "advance" /\ pc'[p] = "scan"

\* "stop consuming (do NOT advance past it)" (ringbuf.rs:202), for a record
\* whose data is passed on: no step moves past one that leaves the mapping.
DataOutOfBoundsNeverPassed ==
    [][\A p \in Pollers : Passes(p) /\ ~raw[p].discard
            => InMapping(cpos[p], raw[p].len)]_vars

-----------------------------------------------------------------------------
(* The inductive invariant behind these properties, for any pollers.       *)

CheckedOf(p) ==
    /\ pc[p] = "callback" => ~raw[p].discard
    /\ pc[p] \in Handling => raw[p].discard \/ InMapping(cpos[p], raw[p].len)

\* From the bounds check to the move past the record, nobody touches the locals
\* that were checked.
Checked == \A p \in Pollers : CheckedOf(p)
=============================================================================
