------------------------------ MODULE Ringbuf ------------------------------
(***************************************************************************)
(* The BPF ring buffer as loader/ringbuf.rs reads it.                      *)
(*                                                                         *)
(* The kernel side (reserve, commit, discard, wake-up) is not in this      *)
(* repository: it is modelled from what consume_ring_records and           *)
(* EpollFd::wait rely on.  The reader side is poll_ringbuf from its        *)
(* epoll_wait on; every load or store of memory shared with the kernel is  *)
(* a step of its own, so kernel steps interleave between any two of them.  *)
(*                                                                         *)
(* Positions are byte counts that only grow; a position is an offset of    *)
(* the ring modulo its size.  The ring is a function from the 8-aligned    *)
(* offsets to the word there, a header word or a payload word.  Payload    *)
(* bytes are abstracted to the number of the record that wrote them.       *)
(***************************************************************************)
EXTENDS RecordLen, Sequences, FiniteSets

CONSTANTS
    Pollers,       \* threads that call poll_ringbuf on the map
    RingSize,      \* max_entries of the map: bytes of ring data
    RecordLens,    \* data lengths that BPF programs reserve
    RawLens,       \* lengths a header can read as: RecordLens and payload
                   \* bytes taken for a header
    NoHeader,      \* mark of a word that holds payload bytes
    MaxRecords,    \* bound: reservations in a behaviour
    MaxCrashes     \* bound: polls that end by a panic or a kill

\* create_ringbuf accepts powers of two only and the kernel rounds to pages,
\* so the size is a multiple of 8 and `pos & mask' is pos % RingSize.
ASSUME RingAssumption ==
    /\ RingSize \in Nat \ {0}
    /\ RingSize % 8 = 0
    /\ 2 * RingSize <= UsizeMax
    /\ MaxRecords \in Nat
    /\ MaxCrashes \in Nat

\* The length field has 30 bits, so a length never comes near usize::MAX.
ASSUME LensAssumption ==
    /\ RecordLens \subseteq RawLens
    /\ 0 \in RawLens
    /\ \A len \in RawLens : len \in Nat /\ len + 15 <= UsizeMax

\* The 32-bit length word of a record header: BUSY bit, DISCARD bit, length.
RingbufHeader == [len : RawLens, busy : BOOLEAN, discard : BOOLEAN]

ASSUME NoHeaderAssumption == NoHeader \notin RingbufHeader

VARIABLES
    producer_pos,  \* shared: end of the last reservation, stored by the kernel
    consumer_pos,  \* shared: end of the last record consumed, stored by pollers
    header,        \* shared: the ring words read as record headers
    payload,       \* shared: the ring words read as payload
    log,           \* history: every reservation, in order
    pc,            \* where each poller is
    cpos,          \* each poller's local consumer_pos
    ppos,          \* each poller's local producer_pos
    raw,           \* each poller's local raw_len, of the record at cpos
    consumed_any,  \* each poller's local consumed_any
    delivered,     \* history: the records passed to a callback, in order
    crashes        \* history: polls ended by a panic or a kill

kernelVars == <<producer_pos, header, payload, log>>
localVars  == <<cpos, ppos, raw, consumed_any>>
vars == <<kernelVars, consumer_pos, pc, localVars, delivered, crashes>>

PC == {"idle", "wait", "blocked", "load", "snapshot", "scan", "busy",
       "reject", "callback", "advance"}

Offsets == {o \in 0..(RingSize - 1) : o % 8 = 0}
Offset(pos) == pos % RingSize

\* The bytes the kernel gives a record: header and data, rounded up to 8.
RecordSize(len) == AlignDown8(len + BPF_RINGBUF_HDR_SZ + 7)

\* Distance of the word at offset o from position pos, going round the ring.
Distance(pos, o) == (o - pos) % RingSize

\* The ring holds a reservation or a record that the kernel has not seen
\* consumed; this is what makes the map's fd readable.
Readable == producer_pos # consumer_pos

Init ==
    /\ producer_pos = 0
    /\ consumer_pos = 0
    /\ header  = [o \in Offsets |-> [len |-> 0, busy |-> FALSE, discard |-> FALSE]]
    /\ payload = [o \in Offsets |-> 0]
    /\ log = <<>>
    /\ pc   = [p \in Pollers |-> "idle"]
    /\ cpos = [p \in Pollers |-> 0]
    /\ ppos = [p \in Pollers |-> 0]
    /\ raw  = [p \in Pollers |-> [len |-> 0, busy |-> FALSE, discard |-> FALSE]]
    /\ consumed_any = [p \in Pollers |-> FALSE]
    /\ delivered = <<>>
    /\ crashes = 0

-----------------------------------------------------------------------------
(* The kernel: BPF programs on any CPU reserve records and finish them.    *)

\* A BPF program reserves a record: the kernel writes a busy header and moves
\* producer_pos, unless the records not yet consumed leave no room.  From here
\* on the program may write the payload.
Reserve(len) ==
    LET size == RecordSize(len)
    IN  /\ Len(log) < MaxRecords
        /\ producer_pos + size - consumer_pos \in 0..(RingSize - 1)
        /\ log' = Append(log, [pos |-> producer_pos, len |-> len, st |-> "busy"])
        /\ header' = [o \in Offsets |->
              IF Distance(producer_pos, o) = 0
                THEN [len |-> len, busy |-> TRUE, discard |-> FALSE]
                ELSE IF Distance(producer_pos, o) < size THEN NoHeader
                                                         ELSE header[o]]
        /\ payload' = [o \in Offsets |->
              IF Distance(producer_pos, o) < size THEN Len(log) + 1 ELSE payload[o]]
        /\ producer_pos' = producer_pos + size
        /\ UNCHANGED <<consumer_pos, pc, localVars, delivered, crashes>>

\* Finishing record i clears its busy bit, and wakes the sleeping pollers when
\* the consumer position stands at this very record.
Finish(i, st) ==
    /\ log[i].st = "busy"
    /\ log' = [log EXCEPT ![i].st = st]
    /\ header' = [header EXCEPT ![Offset(log[i].pos)] =
           [len |-> log[i].len, busy |-> FALSE, discard |-> st = "discarded"]]
    /\ pc' = [p \in Pollers |->
           IF pc[p] = "blocked" /\ Offset(consumer_pos) = Offset(log[i].pos)
             THEN "wait" ELSE pc[p]]
    /\ UNCHANGED <<producer_pos, consumer_pos, payload, localVars, delivered, crashes>>

Commit(i)  == Finish(i, "committed")
Discard(i) == Finish(i, "discarded")

-----------------------------------------------------------------------------
(* EpollFd::wait.                                                          *)

Goto(p, from, to) == pc[p] = from /\ pc' = [pc EXCEPT ![p] = to]

\* poll_ringbuf is called; its set-up succeeds (PollLifecycle has the rest).
Poll(p) ==
    /\ Goto(p, "idle", "wait")
    /\ UNCHANGED <<kernelVars, consumer_pos, localVars, delivered, crashes>>

\* epoll_wait on a level-triggered fd returns at once when the map is readable.
WaitReady(p) ==
    /\ Readable
    /\ Goto(p, "wait", "load")
    /\ UNCHANGED <<kernelVars, consumer_pos, localVars, delivered, crashes>>

\* Edge-triggered: blocks until the next wake-up, whatever the ring holds.
WaitBlockForEdge(p) ==
    /\ Goto(p, "wait", "blocked")
    /\ UNCHANGED <<kernelVars, consumer_pos, localVars, delivered, crashes>>

WaitBlock(p) ==
    /\ ~Readable
    /\ Goto(p, "wait", "blocked")
    /\ UNCHANGED <<kernelVars, consumer_pos, localVars, delivered, crashes>>

\* A signal: epoll_wait fails with EINTR and the loop calls it again.
WaitInterrupted(p) ==
    /\ Goto(p, "blocked", "wait")
    /\ UNCHANGED <<kernelVars, consumer_pos, localVars, delivered, crashes>>

-----------------------------------------------------------------------------
(* consume_ring_records.                                                   *)

LoadConsumerPosZero(p) ==
    /\ Goto(p, "load", "snapshot")
    /\ cpos' = [cpos EXCEPT ![p] = 0]
    /\ UNCHANGED <<kernelVars, consumer_pos, ppos, raw, consumed_any, delivered, crashes>>

LoadConsumerPos(p) ==
    /\ Goto(p, "load", "snapshot")
    /\ cpos' = [cpos EXCEPT ![p] = consumer_pos]
    /\ UNCHANGED <<kernelVars, consumer_pos, ppos, raw, consumed_any, delivered, crashes>>

\* The head of the outer loop.
LoadProducerPos(p) ==
    /\ Goto(p, "snapshot", "scan")
    /\ ppos' = [ppos EXCEPT ![p] = producer_pos]
    /\ consumed_any' = [consumed_any EXCEPT ![p] = FALSE]
    /\ UNCHANGED <<kernelVars, consumer_pos, cpos, raw, delivered, crashes>>

\* The inner loop is over: look again if it consumed anything, else return.
EndOfScan(p) ==
    /\ ~(cpos[p] < ppos[p])
    /\ Goto(p, "scan", IF consumed_any[p] THEN "snapshot" ELSE "idle")
    /\ UNCHANGED <<kernelVars, consumer_pos, localVars, delivered, crashes>>

\* What the header word at cpos can read as.  A payload word taken for a
\* header can read as anything.
HeaderReads(o) == IF header[o] = NoHeader THEN RingbufHeader ELSE {header[o]}

InMappingFromStart(pos, len) ==
    record_within_mapping(BPF_RINGBUF_HDR_SZ, len, RingSize)

\* The record's data, [data_offset, data_offset + data_len), against the mirror.
InMapping(pos, len) ==
    record_within_mapping(Offset(pos) + BPF_RINGBUF_HDR_SZ, len, RingSize)

\* One load of the header at cpos, and the branch it selects.
ReadHeader(p, h, to) ==
    /\ cpos[p] < ppos[p]
    /\ h \in HeaderReads(Offset(cpos[p]))
    /\ Goto(p, "scan", to)
    /\ raw' = [raw EXCEPT ![p] = h]
    /\ UNCHANGED <<kernelVars, consumer_pos, cpos, ppos, consumed_any, crashes>>

SeeBusyIgnored(p, h) ==
    /\ h.busy
    /\ ReadHeader(p, h, "advance")
    /\ UNCHANGED delivered

SeeBusy(p, h) ==
    /\ h.busy
    /\ ReadHeader(p, h, "busy")
    /\ UNCHANGED delivered

SkipDiscardedLikeBusy(p, h) ==
    /\ ~h.busy /\ h.discard
    /\ ReadHeader(p, h, "busy")
    /\ UNCHANGED delivered

SkipDiscarded(p, h) ==
    /\ ~h.busy /\ h.discard
    /\ ReadHeader(p, h, "advance")
    /\ UNCHANGED delivered

RejectOutOfBoundsAdvances(p, h) ==
    /\ ~h.busy /\ ~h.discard /\ ~InMapping(cpos[p], h.len)
    /\ ReadHeader(p, h, "advance")
    /\ UNCHANGED delivered

RejectOutOfBounds(p, h) ==
    /\ ~h.busy /\ ~h.discard /\ ~InMapping(cpos[p], h.len)
    /\ ReadHeader(p, h, "reject")
    /\ UNCHANGED delivered

\* consumer_pos is stored before the callback is called.
DeliverAfterStore(p, h) ==
    /\ ~h.busy /\ ~h.discard /\ InMapping(cpos[p], h.len)
    /\ cpos[p] < ppos[p]
    /\ h \in HeaderReads(Offset(cpos[p]))
    /\ Goto(p, "scan", "callback")
    /\ raw' = [raw EXCEPT ![p] = h]
    /\ consumer_pos' = cpos[p] + round_record_len(h.len)
    /\ delivered' = Append(delivered, [pos |-> cpos[p], len |-> h.len])
    /\ UNCHANGED <<kernelVars, cpos, ppos, consumed_any, crashes>>

\* The callback is entered with a slice of the ring itself, not a copy.
Deliver(p, h) ==
    /\ ~h.busy /\ ~h.discard /\ InMapping(cpos[p], h.len)
    /\ ReadHeader(p, h, "callback")
    /\ delivered' = Append(delivered, [pos |-> cpos[p], len |-> h.len])

CallbackReturn(p) ==
    /\ Goto(p, "callback", "advance")
    /\ UNCHANGED <<kernelVars, consumer_pos, localVars, delivered, crashes>>

AdvanceUnstored(p) ==
    /\ Goto(p, "advance", "scan")
    /\ cpos' = [cpos EXCEPT ![p] = @ + round_record_len(raw[p].len)]
    /\ consumed_any' = [consumed_any EXCEPT ![p] = TRUE]
    /\ UNCHANGED <<kernelVars, consumer_pos, ppos, raw, delivered, crashes>>

\* The offset in the ring is stored instead of the position.
AdvanceToOffset(p) ==
    LET next == cpos[p] + round_record_len(raw[p].len)
    IN  /\ Goto(p, "advance", "scan")
        /\ cpos' = [cpos EXCEPT ![p] = next]
        /\ consumer_pos' = Offset(next)
        /\ consumed_any' = [consumed_any EXCEPT ![p] = TRUE]
        /\ UNCHANGED <<kernelVars, ppos, raw, delivered, crashes>>

Advance(p) ==
    LET next == cpos[p] + round_record_len(raw[p].len)
    IN  /\ Goto(p, "advance", "scan")
        /\ cpos' = [cpos EXCEPT ![p] = next]
        /\ consumer_pos' = next
        /\ consumed_any' = [consumed_any EXCEPT ![p] = TRUE]
        /\ UNCHANGED <<kernelVars, ppos, raw, delivered, crashes>>

\* A busy or out-of-bounds record ends the poll; the position is stored first.
StoreAndReturn(p) ==
    /\ \/ Goto(p, "busy", "idle")
       \/ Goto(p, "reject", "idle")
    /\ consumer_pos' = cpos[p]
    /\ UNCHANGED <<kernelVars, localVars, delivered, crashes>>

\* The callback panics, or the process is killed: the poll ends with nothing
\* stored, and only the shared memory survives.
Crash(p) ==
    /\ pc[p] # "idle"
    /\ crashes < MaxCrashes
    /\ pc' = [pc EXCEPT ![p] = "idle"]
    /\ crashes' = crashes + 1
    /\ UNCHANGED <<kernelVars, consumer_pos, localVars, delivered>>

-----------------------------------------------------------------------------
ConsumeHeader(p) == \E h \in RingbufHeader :
    SeeBusy(p, h) \/ SkipDiscarded(p, h) \/ RejectOutOfBounds(p, h) \/ Deliver(p, h)

\* The steps a running poll takes by itself.
PollStep(p) ==
    \/ WaitReady(p) \/ WaitBlock(p)
    \/ LoadConsumerPos(p) \/ LoadProducerPos(p) \/ EndOfScan(p)
    \/ ConsumeHeader(p)
    \/ CallbackReturn(p) \/ Advance(p) \/ StoreAndReturn(p)

Kernel ==
    \/ \E len \in RecordLens : Reserve(len)
    \/ \E i \in 1..Len(log) : Commit(i) \/ Discard(i)

Poller(p) == Poll(p) \/ PollStep(p) \/ WaitInterrupted(p) \/ Crash(p)

Next == Kernel \/ \E p \in Pollers : Poller(p)

Spec == Init /\ [][Next]_vars

\* The scheduler runs a runnable thread, callers poll in a loop, callbacks
\* return, and a BPF program finishes what it reserved (the kernel verifier
\* refuses one that may not).  Nothing obliges a program to reserve.
Fairness ==
    /\ \A p \in Pollers : WF_vars(Poll(p)) /\ WF_vars(PollStep(p))
    /\ \A i \in 1..MaxRecords : WF_vars(i <= Len(log) /\ (Commit(i) \/ Discard(i)))

FairSpec == Spec /\ Fairness

-----------------------------------------------------------------------------
(* Properties.                                                             *)

Record == [pos : Nat, len : RawLens, st : {"busy", "committed", "discarded"}]

\* Types of the shared memory and of consume_ring_records' locals; positions
\* are multiples of 8, so a header load is aligned and inside the ring.
TypeOK ==
    /\ producer_pos \in Nat /\ producer_pos % 8 = 0
    /\ consumer_pos \in Nat /\ consumer_pos % 8 = 0
    /\ header  \in [Offsets -> RingbufHeader \cup {NoHeader}]
    /\ payload \in [Offsets -> Nat]
    /\ log \in Seq(Record)
    /\ pc   \in [Pollers -> PC]
    /\ cpos \in [Pollers -> {n \in Nat : n % 8 = 0}]
    /\ ppos \in [Pollers -> Nat]
    /\ raw  \in [Pollers -> RingbufHeader]
    /\ consumed_any \in [Pollers -> BOOLEAN]
    /\ delivered \in Seq([pos : Nat, len : RawLens])
    /\ crashes \in Nat

\* While a callback runs (ringbuf.rs:217), its slice is the data of one
\* committed record, and the kernel does not write into it: consumer_pos moves
\* past a record only after the callback has returned.
RecordIntegrity ==
    \A p \in Pollers : pc[p] = "callback" =>
        \E i \in 1..Len(log) :
            /\ log[i].pos = cpos[p]
            /\ log[i].len = raw[p].len
            /\ log[i].st = "committed"
            /\ \A o \in Offsets :
                  Distance(cpos[p], o) < RecordSize(log[i].len) => payload[o] = i

\* The shared consumer position never passes a record that is still busy, nor
\* a committed one that no callback was called with, whatever polls crash.
NoRecordLost ==
    \A i \in 1..Len(log) : log[i].pos < consumer_pos =>
        \/ log[i].st = "discarded"
        \/ /\ log[i].st = "committed"
           /\ \E k \in 1..Len(delivered) :
                 delivered[k] = [pos |-> log[i].pos, len |-> log[i].len]

\* Callbacks see records in the order of their reservation, whatever the order
\* in which the BPF programs finished them.
InOrder ==
    \A j, k \in 1..Len(delivered) : j <= k => delivered[j].pos <= delivered[k].pos

\* A record is passed to a callback again only because a poll crashed between
\* the call and the store of consumer_pos: one repetition per crash at most.
RepeatsNeedCrashes ==
    \A j, k \in 1..Len(delivered) :
        j < k /\ delivered[j].pos = delivered[k].pos => k - j <= crashes

\* A poller asleep in epoll_wait is not asleep on a finished record: if the
\* ring is readable, its first record is busy and finishing it will wake it.
NoMissedWakeup ==
    \A p \in Pollers : pc[p] = "blocked" /\ Readable =>
        \E i \in 1..Len(log) : log[i].pos = consumer_pos /\ log[i].st = "busy"

\* "A valid record never extends past the 2*ring_size mirror" (ringbuf.rs:200):
\* the bounds check never rejects a record the kernel wrote.
ValidRecordNeverRejected == \A p \in Pollers : pc[p] # "reject"

\* The slice passed to a callback lies in the doubly mapped data pages
\* (ringbuf.rs:419-423, the contract of data_slice), whatever the header said
\* and however stale the position is at which it was read.
SliceInMapping ==
    \A p \in Pollers : pc[p] = "callback" =>
        Offset(cpos[p]) + BPF_RINGBUF_HDR_SZ + raw[p].len <= 2 * RingSize

\* No step takes consumer_pos back, which would hand consumed records to the
\* next poll and free bytes to the kernel that it already reused.
ConsumerPosNeverRetreats == [][consumer_pos' >= consumer_pos]_vars

\* "Blocks until the kernel ring buffer contains events" (ringbuf.rs:103): a
\* poll leaves epoll_wait when some record is finished and not consumed.
WakesForEvents ==
    [][\A p \in Pollers : pc[p] = "wait" /\ pc'[p] = "load" =>
          \E i \in 1..Len(log) : log[i].pos >= consumer_pos /\ log[i].st # "busy"]_vars

\* Every record a BPF program commits is consumed in the end: no lost wake-up,
\* no poll stuck behind discarded records, no crash that strands one.
EventuallyConsumed ==
    \A i \in 1..MaxRecords :
        (i <= Len(log) /\ log[i].st = "committed")
            ~> (i <= Len(log) /\ log[i].pos < consumer_pos)

-----------------------------------------------------------------------------
(* The inductive invariant behind these properties, for one poller.        *)

AtMostOnePoller == \A p, q \in Pollers : p = q

End(i) == log[i].pos + RecordSize(log[i].len)
AtRecord(pos) == pos = producer_pos \/ \E i \in 1..Len(log) : log[i].pos = pos
HeaderOf(i) == [len |-> log[i].len, busy |-> log[i].st = "busy",
                discard |-> log[i].st = "discarded"]

\* Records follow each other without a gap and without an overlap.
LogTiles ==
    /\ \A i \in 1..Len(log) :
          log[i].pos % 8 = 0 /\ End(i) <= producer_pos /\ AtRecord(End(i))
    /\ \A i, j \in 1..Len(log) : i < j => End(i) <= log[j].pos

\* The positions enclose less than the ring, and consumer_pos is at a record.
Window ==
    /\ consumer_pos <= producer_pos
    /\ producer_pos < consumer_pos + RingSize
    /\ AtRecord(consumer_pos)

\* The ring still holds the header and the payload of what is not consumed.
RingHoldsPending ==
    \A i \in 1..Len(log) : log[i].pos >= consumer_pos =>
        /\ header[Offset(log[i].pos)] = HeaderOf(i)
        /\ \A o \in Offsets :
              Distance(log[i].pos, o) < RecordSize(log[i].len) => payload[o] = i

WasDelivered(i) == \E k \in 1..Len(delivered) :
    delivered[k] = [pos |-> log[i].pos, len |-> log[i].len]

\* Poller p has read the finished header of record i and not yet moved past it.
InFlight(p, i) ==
    /\ log[i].pos = cpos[p]
    /\ raw[p] = HeaderOf(i)
    /\ ~raw[p].busy
    /\ raw[p].discard \/ WasDelivered(i)
    /\ pc[p] = "callback" => ~raw[p].discard

Scanning == {"scan", "busy", "callback", "advance"}
Handling == {"callback", "advance"}

LocalsOf(p) ==
    /\ pc[p] \in Scanning \cup {"snapshot"} => cpos[p] = consumer_pos
    /\ pc[p] \in Scanning => ppos[p] <= producer_pos
    /\ pc[p] \in Handling => \E i \in 1..Len(log) : InFlight(p, i)

\* The locals of a poll agree with the shared memory they were loaded from.
LocalsAgree == \A p \in Pollers : LocalsOf(p)

\* Calls with the record at consumer_pos are paid for by crashes, but for the
\* call that is being handled.
RepeatBudget == \A j \in 1..Len(delivered) :
    /\ delivered[j].pos <= consumer_pos
    /\ delivered[j].pos = consumer_pos =>
          \/ Len(delivered) - j < crashes
          \/ Len(delivered) - j = crashes /\ \E p \in Pollers : pc[p] \in Handling

\* With types: what every step of the kernel and of a single poller preserves,
\* and what implies the safety properties above.
IndInv ==
    /\ LogTiles /\ Window /\ RingHoldsPending /\ LocalsAgree /\ RepeatBudget
    /\ NoRecordLost /\ InOrder /\ RepeatsNeedCrashes
    /\ NoMissedWakeup /\ ValidRecordNeverRejected

-----------------------------------------------------------------------------
(* Ringbuf implements RecordStream: a record is known by its number, and   *)
(* acknowledged once consumer_pos is past it.                              *)
RecordAt(pos) == CHOOSE i \in 1..Len(log) : log[i].pos = pos

Stream == INSTANCE RecordStream WITH
    Lens    <- RecordLens,
    Crashes <- MaxCrashes,
    records <- [i \in 1..Len(log) |-> [len |-> log[i].len, st |-> log[i].st]],
    acked   <- Cardinality({i \in 1..Len(log) : log[i].pos < consumer_pos}),
    called  <- [k \in 1..Len(delivered) |-> RecordAt(delivered[k].pos)],
    crashed <- crashes

\* Every behaviour of the ring and of one poller is one of RecordStream: in
\* order, at least once, acknowledged after the callback.
ImplementsRecordStream == Stream!Spec
=============================================================================
