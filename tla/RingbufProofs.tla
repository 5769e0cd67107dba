--------------------------- MODULE RingbufProofs ---------------------------
(***************************************************************************)
(* Proofs about Ringbuf, for every ring size, every set of record lengths  *)
(* and every number of records.  TypeCorrect holds for any set of pollers, *)
(* the other theorems when at most one thread polls the map.               *)
(***************************************************************************)
EXTENDS Ringbuf, SequenceTheorems, TLAPS

-----------------------------------------------------------------------------
(* Arithmetic of the ring.                                                 *)

\* Division with remainder, as `pos & mask' uses it.
LEMMA DivMod ==
    ASSUME NEW a \in Int, NEW n \in Nat \ {0}
    PROVE  /\ a \div n \in Int
           /\ a % n \in 0..(n - 1)
           /\ a = n * (a \div n) + (a % n)
  OBVIOUS

\* The remainder is the only one of its kind.
LEMMA ModUnique ==
    ASSUME NEW n \in Nat \ {0}, NEW a \in Int, NEW q \in Int, NEW r \in 0..(n - 1),
           a = n * q + r
    PROVE  a % n = r
  OBVIOUS

\* The reader's round_record_len is the size the kernel gave the record, and
\* it is a positive multiple of 8.
LEMMA SizeFacts ==
    ASSUME NEW len \in RawLens
    PROVE  /\ RecordSize(len) \in Nat
           /\ RecordSize(len) % 8 = 0
           /\ RecordSize(len) >= len + 8
           /\ round_record_len(len) = RecordSize(len)
  BY SMTT(40), LensAssumption, UsizeMaxAssumption
  DEF RecordSize, round_record_len, saturating_add, AlignDown8, BPF_RINGBUF_HDR_SZ

\* Positions stay multiples of 8 when they move by a record.
LEMMA AlignedSum ==
    ASSUME NEW a \in Nat, NEW b \in Nat, a % 8 = 0, b % 8 = 0
    PROVE  a + b \in Nat /\ (a + b) % 8 = 0
  OBVIOUS

\* An aligned position has an aligned offset: header loads are aligned.
LEMMA OffsetAligned ==
    ASSUME NEW pos \in Nat, pos % 8 = 0
    PROVE  Offset(pos) \in Offsets
  <1> DEFINE r == pos % RingSize
             q == pos \div RingSize
             k == RingSize \div 8
             m == pos \div 8
  <1>1. RingSize \in Nat \ {0} /\ RingSize % 8 = 0
    BY RingAssumption
  <1>2. q \in Int /\ r \in 0..(RingSize - 1) /\ pos = RingSize * q + r
    BY <1>1, DivMod
  <1>3. k \in Int /\ RingSize = 8 * k
    BY <1>1
  <1>4. m \in Int /\ pos = 8 * m
    OBVIOUS
  <1> HIDE DEF q, r, k, m
  <1>5. r = 8 * (m - k * q)
    BY <1>2, <1>3, <1>4
  <1>6. (m - k * q) \in Int
    BY <1>2, <1>3, <1>4
  <1>7. r % 8 = 0
    BY <1>5, <1>6
  <1> QED
    BY <1>2, <1>7 DEF Offset, Offsets, r

\* Distances are taken round the ring; the word at distance 0 is the header.
LEMMA DistanceFacts ==
    ASSUME NEW pos \in Nat, NEW o \in Offsets
    PROVE  /\ Distance(pos, o) \in 0..(RingSize - 1)
           /\ Distance(pos, o) = 0 <=> o = Offset(pos)
  <1>1. RingSize \in Nat \ {0} /\ o \in 0..(RingSize - 1)
    BY RingAssumption DEF Offsets
  <1>2. Distance(pos, o) \in 0..(RingSize - 1)
    BY <1>1, DivMod DEF Distance
  <1>3. ASSUME Distance(pos, o) = 0 PROVE o = Offset(pos)
    <2> DEFINE q == -((o - pos) \div RingSize)
    <2>1. q \in Int /\ pos = RingSize * q + o
      BY <1>1, <1>3, DivMod DEF Distance
    <2> HIDE DEF q
    <2>2. pos % RingSize = o
      BY <1>1, <2>1, ModUnique
    <2> QED
      BY <2>2 DEF Offset
  <1>4. ASSUME o = Offset(pos) PROVE Distance(pos, o) = 0
    <2> DEFINE q == -(pos \div RingSize)
    <2>1. q \in Int /\ o - pos = RingSize * q + 0 /\ o - pos \in Int
      BY <1>1, <1>4, DivMod DEF Offset
    <2> HIDE DEF q
    <2>2. 0 \in 0..(RingSize - 1)
      BY <1>1
    <2>3. (o - pos) % RingSize = 0
      BY ZenonT(40), <1>1, <2>1, <2>2, ModUnique
    <2> QED
      BY <2>3 DEF Distance
  <1> QED
    BY <1>2, <1>3, <1>4

\* A reservation of size bytes at next does not touch a word d bytes into a
\* record at pos, if the word is before next and less than a ring away from
\* the end of the reservation.
LEMMA NoOverwrite ==
    ASSUME NEW pos \in Nat, NEW next \in Nat, NEW size \in Nat, NEW o \in Offsets,
           pos + Distance(pos, o) < next,
           next + size <= pos + RingSize
    PROVE  Distance(next, o) >= size
  <1> DEFINE q == (o - pos) \div RingSize
             d == Distance(pos, o)
             r == RingSize + d - (next - pos)
  <1>1. RingSize \in Nat \ {0} /\ o \in Int
    BY RingAssumption DEF Offsets
  <1>2. q \in Int /\ d \in 0..(RingSize - 1) /\ o - pos = RingSize * q + d
    <2>1. o - pos \in Int
      BY <1>1
    <2> QED
      BY ZenonT(40), <1>1, <2>1, DivMod DEF Distance
  <1> HIDE DEF q, d
  <1>3. pos + d < next
    BY DEF d
  <1>4. r \in 0..(RingSize - 1) /\ r >= size
    BY <1>1, <1>2, <1>3
  <1>5. o - next = RingSize * (q - 1) + r /\ q - 1 \in Int /\ o - next \in Int
    BY <1>1, <1>2
  <1> HIDE DEF r
  <1>6. (o - next) % RingSize = r
    BY ZenonT(40), <1>1, <1>4, <1>5, ModUnique
  <1> QED
    BY <1>4, <1>6 DEF Distance

-----------------------------------------------------------------------------
(* Type correctness.                                                       *)

\* A record written to the log has the type of the log.
LEMMA ReserveType ==
    ASSUME TypeOK, NEW len \in RecordLens, Reserve(len)
    PROVE  TypeOK'
  <1>1. len \in RawLens
    BY LensAssumption
  <1>2. RecordSize(len) \in Nat /\ RecordSize(len) % 8 = 0
    BY <1>1, SizeFacts
  <1>3. producer_pos' \in Nat /\ producer_pos' % 8 = 0
    <2>1. producer_pos' = producer_pos + RecordSize(len)
      BY DEF Reserve
    <2>2. producer_pos \in Nat /\ producer_pos % 8 = 0
      BY DEF TypeOK
    <2> QED
      BY ZenonT(40), <1>2, <2>1, <2>2, AlignedSum
  <1>4. log' \in Seq(Record)
    <2>1. [pos |-> producer_pos, len |-> len, st |-> "busy"] \in Record
      BY <1>1 DEF TypeOK, Record
    <2> QED
      BY <2>1, AppendProperties DEF TypeOK, Reserve
  <1>5. header' \in [Offsets -> RingbufHeader \cup {NoHeader}]
    <2>1. [len |-> len, busy |-> TRUE, discard |-> FALSE] \in RingbufHeader
      BY <1>1 DEF RingbufHeader
    <2>2. \A o \in Offsets : header[o] \in RingbufHeader \cup {NoHeader}
      BY DEF TypeOK
    <2> QED
      BY <2>1, <2>2 DEF Reserve
  <1>6. payload' \in [Offsets -> Nat]
    BY LenProperties DEF TypeOK, Reserve
  <1> QED
    BY ZenonT(40), <1>3, <1>4, <1>5, <1>6 DEF TypeOK, Reserve, localVars

\* Finishing a record keeps the types.
LEMMA FinishType ==
    ASSUME TypeOK, NEW i \in 1..Len(log), NEW st \in {"committed", "discarded"},
           Finish(i, st)
    PROVE  TypeOK'
  <1>1. log[i] \in Record
    BY ElementOfSeq DEF TypeOK
  <1>2. log' \in Seq(Record)
    <2>1. [log[i] EXCEPT !.st = st] \in Record
      BY <1>1 DEF Record
    <2> QED
      BY <2>1, ExceptSeq DEF TypeOK, Finish
  <1>3. header' \in [Offsets -> RingbufHeader \cup {NoHeader}]
    <2>1. [len |-> log[i].len, busy |-> FALSE, discard |-> st = "discarded"]
             \in RingbufHeader
      BY <1>1 DEF Record, RingbufHeader
    <2> QED
      BY ZenonT(40), <2>1 DEF TypeOK, Finish
  <1>4. pc' \in [Pollers -> PC]
    BY DEF TypeOK, Finish, PC
  <1> QED
    BY SMTT(40), <1>2, <1>3, <1>4 DEF TypeOK, Finish, localVars

\* A header load, whatever the word holds, keeps the types.
LEMMA ReadHeaderType ==
    ASSUME TypeOK, NEW p \in Pollers, NEW h \in RingbufHeader,
           SeeBusy(p, h) \/ SkipDiscarded(p, h) \/ RejectOutOfBounds(p, h) \/ Deliver(p, h)
    PROVE  TypeOK'
  <1>1. ASSUME NEW to \in PC, ReadHeader(p, h, to), delivered' = delivered
        PROVE  TypeOK'
    BY <1>1 DEF TypeOK, ReadHeader, Goto, kernelVars
  <1>2. CASE SeeBusy(p, h)
    BY <1>1, <1>2 DEF SeeBusy, PC
  <1>3. CASE SkipDiscarded(p, h)
    BY <1>1, <1>3 DEF SkipDiscarded, PC
  <1>4. CASE RejectOutOfBounds(p, h)
    BY <1>1, <1>4 DEF RejectOutOfBounds, PC
  <1>5. CASE Deliver(p, h)
    <2>1. [pos |-> cpos[p], len |-> h.len] \in [pos : Nat, len : RawLens]
      BY DEF TypeOK, RingbufHeader
    <2>2. delivered' \in Seq([pos : Nat, len : RawLens])
      BY <1>5, <2>1, AppendProperties DEF TypeOK, Deliver
    <2> QED
      BY SMTT(40), <1>5, <2>2 DEF Deliver, TypeOK, ReadHeader, Goto, kernelVars, PC
  <1> QED
    BY <1>2, <1>3, <1>4, <1>5

\* The move past a record keeps positions multiples of 8.
LEMMA AdvanceType ==
    ASSUME TypeOK, NEW p \in Pollers, Advance(p)
    PROVE  TypeOK'
  <1> DEFINE next == cpos[p] + round_record_len(raw[p].len)
  <1>1. raw[p].len \in RawLens /\ cpos[p] \in Nat /\ cpos[p] % 8 = 0
    BY DEF TypeOK, RingbufHeader
  <1>2. next \in Nat /\ next % 8 = 0
    <2>1. round_record_len(raw[p].len) \in Nat /\ round_record_len(raw[p].len) % 8 = 0
      BY ZenonT(40), <1>1, SizeFacts
    <2> QED
      BY ZenonT(40), <1>1, <2>1, AlignedSum
  <1> HIDE DEF next
  <1>3. /\ cpos' = [cpos EXCEPT ![p] = next]
        /\ consumer_pos' = next
    BY DEF Advance, next
  <1>4. cpos' \in [Pollers -> {n \in Nat : n % 8 = 0}]
    <2>1. next \in {n \in Nat : n % 8 = 0}
      BY <1>2
    <2>2. cpos \in [Pollers -> {n \in Nat : n % 8 = 0}]
      BY ZenonT(40) DEF TypeOK
    <2> QED
      BY ZenonT(40), <1>3, <2>1, <2>2
  <1>5. pc' \in [Pollers -> PC] /\ consumed_any' \in [Pollers -> BOOLEAN]
    <2>1. "scan" \in PC
      BY DEF PC
    <2> QED
      BY ZenonT(40), <2>1 DEF TypeOK, Advance, Goto
  <1>6. /\ producer_pos' = producer_pos /\ header' = header /\ payload' = payload
        /\ log' = log /\ ppos' = ppos /\ raw' = raw
        /\ delivered' = delivered /\ crashes' = crashes
    BY ZenonT(40) DEF Advance, kernelVars
  <1> QED
    BY ZenonT(40), <1>2, <1>3, <1>4, <1>5, <1>6 DEF TypeOK

\* Every step of the kernel and of every poller keeps the types.
LEMMA TypeStep == TypeOK /\ [Next]_vars => TypeOK'
  <1> SUFFICES ASSUME TypeOK, [Next]_vars PROVE TypeOK'
    OBVIOUS
  <1> USE DEF Goto, PC
  <1>1. CASE UNCHANGED vars
    BY <1>1 DEF TypeOK, vars, kernelVars, localVars
  <1>2. CASE Kernel
    BY <1>2, ReserveType, FinishType DEF Kernel, Commit, Discard
  <1>3. ASSUME NEW p \in Pollers, Poller(p) PROVE TypeOK'
    <2>1. CASE Poll(p)
      BY <2>1 DEF TypeOK, Poll, kernelVars, localVars
    <2>2. CASE WaitReady(p)
      BY <2>2 DEF TypeOK, WaitReady, kernelVars, localVars
    <2>3. CASE WaitBlock(p)
      BY <2>3 DEF TypeOK, WaitBlock, kernelVars, localVars
    <2>4. CASE WaitInterrupted(p)
      BY <2>4 DEF TypeOK, WaitInterrupted, kernelVars, localVars
    <2>5. CASE LoadConsumerPos(p)
      BY SMTT(40), <2>5 DEF TypeOK, LoadConsumerPos, kernelVars
    <2>6. CASE LoadProducerPos(p)
      BY SMTT(40), <2>6 DEF TypeOK, LoadProducerPos, kernelVars
    <2>7. CASE EndOfScan(p)
      BY <2>7 DEF TypeOK, EndOfScan, kernelVars, localVars
    <2>8. CASE ConsumeHeader(p)
      BY <2>8, ReadHeaderType DEF ConsumeHeader
    <2>9. CASE CallbackReturn(p)
      BY <2>9 DEF TypeOK, CallbackReturn, kernelVars, localVars
    <2>10. CASE Advance(p)
      BY <2>10, AdvanceType
    <2>11. CASE StoreAndReturn(p)
      BY ZenonT(40), <2>11 DEF TypeOK, StoreAndReturn, kernelVars, localVars
    <2>12. CASE Crash(p)
      BY SMTT(40), <2>12 DEF TypeOK, Crash, kernelVars, localVars
    <2> QED
      BY <1>3, <2>1, <2>2, <2>3, <2>4, <2>5, <2>6, <2>7, <2>8, <2>9, <2>10,
         <2>11, <2>12 DEF Poller, PollStep
  <1> QED
    BY <1>1, <1>2, <1>3 DEF Next

\* Positions stay multiples of 8 and the locals of consume_ring_records keep
\* their types, for any number of pollers.
THEOREM TypeCorrect == Spec => []TypeOK
  <1>1. Init => TypeOK
    BY LensAssumption, RingAssumption, EmptySeq
    DEF Init, TypeOK, RingbufHeader, PC
  <1> QED
    BY <1>1, TypeStep, PTL DEF Spec

-----------------------------------------------------------------------------
(* The inductive invariant.                                                *)

\* What the type of the log says of one record.
LEMMA LogFacts ==
    ASSUME TypeOK
    PROVE  /\ Len(log) \in Nat
           /\ \A i \in 1..Len(log) :
                 /\ log[i] \in Record
                 /\ log[i].pos \in Nat /\ log[i].len \in RawLens /\ log[i].len \in Nat
                 /\ log[i].st \in {"busy", "committed", "discarded"}
                 /\ RecordSize(log[i].len) \in Nat
                 /\ RecordSize(log[i].len) >= log[i].len + 8
                 /\ End(i) \in Nat /\ End(i) = log[i].pos + RecordSize(log[i].len)
                 /\ End(i) > log[i].pos
  <1>1. log \in Seq(Record) /\ Len(log) \in Nat
    BY LenProperties DEF TypeOK
  <1>2. ASSUME NEW i \in 1..Len(log)
        PROVE  /\ log[i] \in Record
               /\ log[i].pos \in Nat /\ log[i].len \in RawLens /\ log[i].len \in Nat
               /\ log[i].st \in {"busy", "committed", "discarded"}
               /\ RecordSize(log[i].len) \in Nat
               /\ RecordSize(log[i].len) >= log[i].len + 8
               /\ End(i) \in Nat /\ End(i) = log[i].pos + RecordSize(log[i].len)
               /\ End(i) > log[i].pos
    <2>1. log[i] \in Record
      BY <1>1, ElementOfSeq
    <2>2. /\ log[i].pos \in Nat /\ log[i].len \in RawLens
          /\ log[i].st \in {"busy", "committed", "discarded"}
      BY <2>1 DEF Record
    <2>3. RecordSize(log[i].len) \in Nat /\ RecordSize(log[i].len) >= log[i].len + 8
      BY <2>2, SizeFacts
    <2>4. log[i].len \in Nat
      BY <2>2, LensAssumption
    <2>5. /\ End(i) \in Nat /\ End(i) = log[i].pos + RecordSize(log[i].len)
          /\ End(i) > log[i].pos
      BY SMTT(40), <2>2, <2>3, <2>4 DEF End
    <2> QED
      BY <2>1, <2>2, <2>3, <2>4, <2>5
  <1> QED
    BY <1>1, <1>2

\* The same of the history of callback calls.
LEMMA DeliveredFacts ==
    ASSUME TypeOK
    PROVE  /\ Len(delivered) \in Nat
           /\ \A k \in 1..Len(delivered) : delivered[k].pos \in Nat
  <1>1. delivered \in Seq([pos : Nat, len : RawLens]) /\ Len(delivered) \in Nat
    BY LenProperties DEF TypeOK
  <1>2. \A k \in 1..Len(delivered) : delivered[k] \in [pos : Nat, len : RawLens]
    BY ZenonT(40), <1>1, ElementOfSeq
  <1> QED
    BY <1>1, <1>2

\* Two records at one position are the same record.
LEMMA PosUnique ==
    ASSUME TypeOK, LogTiles,
           NEW i \in 1..Len(log), NEW j \in 1..Len(log), log[i].pos = log[j].pos
    PROVE  i = j
  <1>1. /\ log[i].pos \in Nat /\ End(i) \in Nat /\ End(i) > log[i].pos
        /\ log[j].pos \in Nat /\ End(j) \in Nat /\ End(j) > log[j].pos
    BY SMTT(40), LogFacts
  <1>2. ~(i < j)
    BY <1>1 DEF LogTiles
  <1>3. ~(j < i)
    BY <1>1 DEF LogTiles
  <1> QED
    BY <1>2, <1>3, LogFacts

\* What a header load at cpos finds: the finished or busy record there.  It
\* never finds payload bytes, and the record always fits the mapping.
LEMMA HeaderFound ==
    ASSUME TypeOK, IndInv, NEW p \in Pollers, NEW h \in RingbufHeader, NEW to,
           ReadHeader(p, h, to)
    PROVE  \E i \in 1..Len(log) :
              /\ log[i].pos = cpos[p]
              /\ h = HeaderOf(i)
              /\ InMapping(cpos[p], h.len)
  <1>1. pc[p] = "scan" /\ cpos[p] < ppos[p] /\ h \in HeaderReads(Offset(cpos[p]))
    BY DEF ReadHeader, Goto
  <1>2. cpos[p] = consumer_pos /\ ppos[p] <= producer_pos
    BY <1>1 DEF IndInv, LocalsAgree, LocalsOf, Scanning
  <1>3. consumer_pos \in Nat /\ producer_pos \in Nat /\ ppos[p] \in Nat
    BY DEF TypeOK
  <1>4. PICK i \in 1..Len(log) : log[i].pos = consumer_pos
    BY <1>1, <1>2, <1>3 DEF IndInv, Window, AtRecord
  <1>5. header[Offset(consumer_pos)] = HeaderOf(i)
    BY <1>3, <1>4 DEF IndInv, RingHoldsPending
  <1>6. HeaderOf(i) \in RingbufHeader
    BY LogFacts DEF HeaderOf, RingbufHeader
  <1>7. h = HeaderOf(i)
    BY <1>1, <1>2, <1>5, <1>6, NoHeaderAssumption DEF HeaderReads
  <1>8. h.len = log[i].len
    BY <1>7 DEF HeaderOf
  <1>9. Offset(consumer_pos) \in 0..(RingSize - 1)
    <2>1. RingSize \in Nat \ {0} /\ consumer_pos \in Int
      BY <1>3, RingAssumption
    <2> QED
      BY ZenonT(40), <2>1, DivMod DEF Offset
  <1>10. log[i].len + 8 < RingSize /\ log[i].len \in Nat
    <2>1. End(i) <= producer_pos /\ producer_pos < consumer_pos + RingSize
      BY DEF IndInv, Window, LogTiles
    <2>2. /\ End(i) = consumer_pos + RecordSize(log[i].len)
          /\ log[i].len \in Nat /\ RecordSize(log[i].len) \in Nat
          /\ RecordSize(log[i].len) >= log[i].len + 8
      BY <1>4, LogFacts
    <2> QED
      BY SMTT(40), <1>3, <2>1, <2>2, RingAssumption
  <1>11. InMapping(cpos[p], h.len)
    BY SMTT(40), <1>2, <1>8, <1>9, <1>10, RingAssumption, UsizeMaxAssumption
    DEF InMapping, record_within_mapping, BPF_RINGBUF_HDR_SZ
  <1> QED
    BY <1>2, <1>4, <1>7, <1>11

\* The conjuncts about shared memory and history survive a step that changes
\* neither.
LEMMA Frame ==
    ASSUME IndInv, UNCHANGED <<kernelVars, consumer_pos, delivered>>
    PROVE  LogTiles' /\ Window' /\ RingHoldsPending' /\ NoRecordLost' /\ InOrder'
  <1> USE DEF IndInv, kernelVars
  <1>1. LogTiles' /\ Window'
    BY SMTT(40) DEF LogTiles, Window, AtRecord, End
  <1>2. RingHoldsPending'
    BY SMTT(40) DEF RingHoldsPending, HeaderOf
  <1>3. NoRecordLost' /\ InOrder'
    BY DEF NoRecordLost, InOrder
  <1> QED
    BY <1>1, <1>2, <1>3

\* The locals of a poller that does not move stay in agreement when neither
\* the log, the calls nor the positions change.
LEMMA LocalFrame ==
    ASSUME NEW q \in Pollers, LocalsOf(q),
           UNCHANGED <<kernelVars, consumer_pos, delivered>>,
           UNCHANGED <<pc[q], cpos[q], ppos[q], raw[q]>>
    PROVE  LocalsOf(q)'
  BY SMTT(40) DEF LocalsOf, InFlight, HeaderOf, WasDelivered, kernelVars

\* The steps that touch no shared memory and call no callback.
LEMMA LocalStep ==
    ASSUME TypeOK, IndInv, NEW p \in Pollers,
           \/ Poll(p) \/ WaitReady(p) \/ WaitBlock(p) \/ WaitInterrupted(p)
           \/ LoadConsumerPos(p) \/ LoadProducerPos(p) \/ EndOfScan(p)
           \/ CallbackReturn(p) \/ Crash(p)
    PROVE  IndInv'
  <1> USE DEF Goto, kernelVars, localVars
  <1>1. UNCHANGED <<kernelVars, consumer_pos, delivered>>
    BY SMTT(40) DEF Poll, WaitReady, WaitBlock, WaitInterrupted, LoadConsumerPos,
           LoadProducerPos, EndOfScan, CallbackReturn, Crash
  <1>2. LogTiles' /\ Window' /\ RingHoldsPending' /\ NoRecordLost' /\ InOrder'
    BY <1>1, Frame
  <1>3. crashes' \in Nat /\ crashes \in Nat /\ crashes' >= crashes
    BY SMTT(40) DEF TypeOK, Poll, WaitReady, WaitBlock, WaitInterrupted, LoadConsumerPos,
           LoadProducerPos, EndOfScan, CallbackReturn, Crash
  <1>4. RepeatsNeedCrashes'
    BY SMTT(40), <1>1, <1>3, DeliveredFacts DEF IndInv, RepeatsNeedCrashes
  <1>5. pc \in [Pollers -> PC] /\ pc' = [pc EXCEPT ![p] = pc'[p]]
    BY SMTT(40) DEF TypeOK, Poll, WaitReady, WaitBlock, WaitInterrupted, LoadConsumerPos,
           LoadProducerPos, EndOfScan, CallbackReturn, Crash
  <1>6. LocalsAgree'
    <2>1. ASSUME NEW q \in Pollers, q # p PROVE LocalsOf(q)'
      <3>1. UNCHANGED <<pc[q], cpos[q], ppos[q], raw[q]>>
        BY SMTT(40), <2>1 DEF TypeOK, Poll, WaitReady, WaitBlock, WaitInterrupted,
              LoadConsumerPos, LoadProducerPos, EndOfScan, CallbackReturn, Crash
      <3> QED
        BY <3>1, <1>1, LocalFrame DEF IndInv, LocalsAgree
    <2>2. LocalsOf(p)'
      <3>1. CASE CallbackReturn(p)
        <4>1. PICK i \in 1..Len(log) : InFlight(p, i)
          BY SMTT(40), <3>1 DEF CallbackReturn, IndInv, LocalsAgree, LocalsOf, Handling
        <4>2. /\ pc[p] = "callback" /\ pc'[p] = "advance"
              /\ UNCHANGED <<cpos[p], ppos[p], raw[p]>>
          BY <3>1 DEF CallbackReturn, TypeOK
        <4>3. InFlight(p, i)'
          BY ZenonT(40), <4>1, <4>2, <1>1 DEF InFlight, HeaderOf, WasDelivered
        <4> QED
          BY SMTT(40), <4>2, <4>3, <1>1
          DEF IndInv, LocalsAgree, LocalsOf, Handling, Scanning
      <3>2. CASE LoadConsumerPos(p)
        BY <3>2 DEF LoadConsumerPos, LocalsOf, Handling, Scanning, TypeOK
      <3>3. CASE LoadProducerPos(p)
        BY SMTT(40), <3>3 DEF LoadProducerPos, LocalsOf, Handling, Scanning, TypeOK,
                    IndInv, LocalsAgree
      <3>4. CASE EndOfScan(p)
        BY <3>4 DEF EndOfScan, LocalsOf, Handling, Scanning, TypeOK,
                    IndInv, LocalsAgree
      <3>5. CASE \/ Poll(p) \/ WaitReady(p) \/ WaitBlock(p) \/ WaitInterrupted(p)
                 \/ Crash(p)
        BY SMTT(40), <3>5 DEF Poll, WaitReady, WaitBlock, WaitInterrupted, Crash, LocalsOf,
                    Handling, Scanning, TypeOK
      <3> QED
        BY <3>1, <3>2, <3>3, <3>4, <3>5
    <2> QED
      BY <2>1, <2>2 DEF LocalsAgree
  <1>7. RepeatBudget'
    <2>1. CASE Crash(p)
      <3>1. crashes' = crashes + 1
        BY <2>1 DEF Crash
      <3>2. Len(delivered) \in Nat /\ crashes \in Nat
        BY SMTT(40), <1>3, DeliveredFacts
      <3>3. ASSUME NEW j \in 1..Len(delivered)
            PROVE  /\ delivered[j].pos <= consumer_pos
                   /\ delivered[j].pos = consumer_pos => Len(delivered) - j < crashes'
        <4>1. /\ delivered[j].pos <= consumer_pos
              /\ delivered[j].pos = consumer_pos =>
                    Len(delivered) - j < crashes \/ Len(delivered) - j = crashes
          BY DEF IndInv, RepeatBudget
        <4> QED
          BY <3>1, <3>2, <4>1
      <3> QED
        BY SMTT(40), <3>3, <1>1 DEF RepeatBudget
    <2>2. CASE ~Crash(p)
      <3>1. crashes' = crashes
        BY SMTT(40), <2>2 DEF Poll, WaitReady, WaitBlock, WaitInterrupted, LoadConsumerPos,
                    LoadProducerPos, EndOfScan, CallbackReturn
      <3>2. pc[p] \in Handling => pc'[p] \in Handling
        BY SMTT(40), <2>2 DEF Poll, WaitReady, WaitBlock, WaitInterrupted, LoadConsumerPos,
                    LoadProducerPos, EndOfScan, CallbackReturn, Handling, TypeOK
      <3>3. \A q \in Pollers : pc[q] \in Handling => pc'[q] \in Handling
        BY SMTT(40), <3>2, <1>5
      <3> QED
        BY SMTT(40), <3>1, <3>3, <1>1 DEF IndInv, RepeatBudget
    <2> QED
      BY <2>1, <2>2
  <1>8. NoMissedWakeup'
    <2>1. pc'[p] = "blocked" => ~Readable
      BY SMTT(40), <1>5 DEF Poll, WaitReady, WaitBlock, WaitInterrupted, LoadConsumerPos,
                  LoadProducerPos, EndOfScan, CallbackReturn, Crash, TypeOK
    <2> QED
      BY SMTT(40), <2>1, <1>1, <1>5 DEF IndInv, NoMissedWakeup, Readable
  <1>9. ValidRecordNeverRejected'
    <2>1. pc'[p] # "reject"
      BY SMTT(40) DEF Poll, WaitReady, WaitBlock, WaitInterrupted, LoadConsumerPos,
             LoadProducerPos, EndOfScan, CallbackReturn, Crash, TypeOK
    <2> QED
      BY <2>1, <1>5 DEF IndInv, ValidRecordNeverRejected
  <1> QED
    BY <1>2, <1>4, <1>6, <1>7, <1>8, <1>9 DEF IndInv

\* Loading the header at cpos, and calling the callback if it is committed.
LEMMA HeaderStep ==
    ASSUME TypeOK, IndInv, AtMostOnePoller, NEW p \in Pollers, NEW h \in RingbufHeader,
           SeeBusy(p, h) \/ SkipDiscarded(p, h) \/ RejectOutOfBounds(p, h) \/ Deliver(p, h)
    PROVE  IndInv'
  <1>1. PICK to \in {"busy", "advance", "reject", "callback"} : ReadHeader(p, h, to)
    BY DEF SeeBusy, SkipDiscarded, RejectOutOfBounds, Deliver
  <1>2. PICK i \in 1..Len(log) :
           log[i].pos = cpos[p] /\ h = HeaderOf(i) /\ InMapping(cpos[p], h.len)
    BY <1>1, HeaderFound
  <1>3. /\ pc[p] = "scan" /\ pc' = [pc EXCEPT ![p] = to]
        /\ raw' = [raw EXCEPT ![p] = h]
        /\ UNCHANGED <<kernelVars, consumer_pos, cpos, ppos, consumed_any, crashes>>
    BY SMTT(40), <1>1 DEF ReadHeader, Goto
  <1>4. cpos[p] = consumer_pos /\ ppos[p] <= producer_pos
    BY SMTT(40), <1>3 DEF IndInv, LocalsAgree, LocalsOf, Scanning
  <1>5. Pollers = {p}
    BY DEF AtMostOnePoller
  <1>6. pc'[p] = to /\ raw'[p] = h
    BY <1>3 DEF TypeOK
  <1>7. CASE ~Deliver(p, h)
    <2>1. /\ delivered' = delivered
          /\ to = "busy" \/ (to = "advance" /\ ~h.busy /\ h.discard)
      BY ZenonT(40), <1>1, <1>2, <1>3, <1>6, <1>7
      DEF SeeBusy, SkipDiscarded, RejectOutOfBounds, ReadHeader, Goto, TypeOK
    <2>2. LogTiles' /\ Window' /\ RingHoldsPending' /\ NoRecordLost' /\ InOrder'
      BY <1>3, <2>1, Frame
    <2>3. LocalsOf(p)'
      BY ZenonT(40), <1>2, <1>3, <1>4, <1>6, <2>1
      DEF LocalsOf, InFlight, HeaderOf, Handling, Scanning, kernelVars
    <2>4. RepeatBudget' /\ RepeatsNeedCrashes'
      <3>1. ~\E q \in Pollers : pc[q] \in Handling
        BY <1>3, <1>5 DEF Handling
      <3> QED
        BY ZenonT(40), <1>3, <2>1, <3>1 DEF IndInv, RepeatBudget, RepeatsNeedCrashes
    <2>5. NoMissedWakeup' /\ ValidRecordNeverRejected'
      BY SMTT(40), <1>5, <1>6, <2>1 DEF NoMissedWakeup, ValidRecordNeverRejected
    <2> QED
      BY <1>5, <2>2, <2>3, <2>4, <2>5 DEF IndInv, LocalsAgree
  <1>8. CASE Deliver(p, h)
    <2> DEFINE new == [pos |-> cpos[p], len |-> h.len]
               n == Len(delivered)
    <2>1. /\ ~h.busy /\ ~h.discard /\ to = "callback"
          /\ delivered' = Append(delivered, new)
      BY SMTT(40), <1>3, <1>6, <1>8 DEF Deliver, ReadHeader, Goto, TypeOK
    <2>2. /\ n \in Nat /\ Len(delivered') = n + 1
          /\ \A k \in 1..n : delivered'[k] = delivered[k]
          /\ delivered'[n + 1] = new
      <3>1. new \in [pos : Nat, len : RawLens]
        BY DEF TypeOK, RingbufHeader
      <3> QED
        BY SMTT(40), <2>1, <3>1, AppendProperties, LenProperties DEF TypeOK
    <2>3. /\ new.pos = consumer_pos /\ consumer_pos \in Nat /\ crashes \in Nat
          /\ new = [pos |-> log[i].pos, len |-> log[i].len]
      <3>1. consumer_pos \in Nat /\ crashes \in Nat
        BY Zenon DEF TypeOK
      <3>2. h.len = log[i].len
        <4>1. h = HeaderOf(i)
          BY <1>2, Zenon
        <4> QED
          BY <4>1, Zenon DEF HeaderOf
      <3>3. cpos[p] = consumer_pos /\ cpos[p] = log[i].pos
        BY <1>2, <1>4, Zenon
      <3> QED
        BY <3>1, <3>2, <3>3, Zenon
    <2> HIDE DEF new, n
    <2>4. /\ \A k \in 1..n : delivered[k].pos \in Nat /\ delivered[k].pos <= consumer_pos
          /\ \A k \in 1..n : delivered[k].pos = consumer_pos => n - k < crashes
      BY SMTT(40), <1>3, <1>5, DeliveredFacts DEF n, IndInv, RepeatBudget, Handling
    <2>5. LogTiles' /\ Window' /\ RingHoldsPending'
      BY ZenonT(40), <1>3 DEF IndInv, kernelVars, LogTiles, Window, AtRecord, End,
                  RingHoldsPending, HeaderOf
    <2>6. NoRecordLost'
      <3> SUFFICES ASSUME NEW m \in 1..Len(log), log[m].pos < consumer_pos,
                          log[m].st # "discarded"
                   PROVE  /\ log[m].st = "committed"
                          /\ \E k \in 1..Len(delivered') :
                                delivered'[k] = [pos |-> log[m].pos, len |-> log[m].len]
        BY ZenonT(40), <1>3 DEF NoRecordLost, kernelVars
      <3>0. NoRecordLost
        BY SMTT(40) DEF IndInv
      <3>1. log[m].st = "committed"
        BY ZenonT(40), <3>0 DEF NoRecordLost
      <3>2. PICK k \in 1..n : delivered[k] = [pos |-> log[m].pos, len |-> log[m].len]
        BY ZenonT(40), <3>0 DEF NoRecordLost, n
      <3>3. delivered'[k] = delivered[k]
        BY ZenonT(40), <2>2
      <3>4. 1..n \subseteq 1..Len(delivered')
        BY SMTT(40), <2>2
      <3> QED
        BY ZenonT(40), <3>1, <3>2, <3>3, <3>4
    <2>7. InOrder'
      <3> SUFFICES ASSUME NEW j \in 1..(n + 1), NEW k \in 1..(n + 1), j <= k
                   PROVE  delivered'[j].pos <= delivered'[k].pos
        BY <2>2 DEF InOrder
      <3>1. CASE k = n + 1
        BY SMTT(40), <2>2, <2>3, <2>4, <3>1
      <3>2. CASE k # n + 1
        <4>1. j \in 1..n /\ k \in 1..n
          BY <2>2, <3>2
        <4> QED
          BY SMTT(40), <2>2, <4>1 DEF IndInv, InOrder, n
      <3> QED
        BY <3>1, <3>2
    <2>8. RepeatsNeedCrashes'
      <3> SUFFICES ASSUME NEW j \in 1..(n + 1), NEW k \in 1..(n + 1), j < k,
                          delivered'[j].pos = delivered'[k].pos
                   PROVE  k - j <= crashes
        BY SMTT(40), <1>3, <2>2 DEF RepeatsNeedCrashes
      <3>1. j \in 1..n
        BY SMTT(40), <2>2
      <3>2. CASE k = n + 1
        <4>1. delivered[j].pos = consumer_pos
          BY ZenonT(40), <2>2, <2>3, <3>1, <3>2
        <4>2. n - j < crashes
          BY ZenonT(40), <2>4, <3>1, <4>1
        <4>3. n \in Nat /\ crashes \in Nat
          BY ZenonT(40), <2>2, <2>3
        <4> QED
          BY SMTT(40), <3>1, <3>2, <4>2, <4>3
      <3>3. CASE k # n + 1
        <4>1. k \in 1..n
          BY SMTT(40), <2>2, <3>3
        <4> QED
          BY SMTT(40), <2>2, <3>1, <4>1 DEF IndInv, RepeatsNeedCrashes, n
      <3> QED
        BY <3>2, <3>3
    <2>9. RepeatBudget'
      <3>1. \E q \in Pollers : pc'[q] \in Handling
        BY <1>6, <2>1 DEF Handling
      <3> QED
        BY SMTT(40), <1>3, <2>2, <2>3, <2>4, <3>1 DEF RepeatBudget
    <2>10. LocalsOf(p)'
      <3>1. WasDelivered(i)'
        BY SMTT(40), <1>3, <2>2, <2>3 DEF WasDelivered, kernelVars
      <3>2. InFlight(p, i)'
        BY SMTT(40), <1>2, <1>3, <1>6, <2>1, <3>1 DEF InFlight, HeaderOf, kernelVars
      <3> QED
        BY SMTT(40), <1>3, <1>4, <1>6, <2>1, <3>2 DEF LocalsOf, Handling, Scanning, kernelVars
    <2>11. NoMissedWakeup' /\ ValidRecordNeverRejected'
      BY SMTT(40), <1>5, <1>6, <2>1 DEF NoMissedWakeup, ValidRecordNeverRejected
    <2> QED
      BY <1>5, <2>5, <2>6, <2>7, <2>8, <2>9, <2>10, <2>11 DEF IndInv, LocalsAgree
  <1> QED
    BY <1>7, <1>8

\* Returning on a busy record stores the position that is already there.
LEMMA StoreStep ==
    ASSUME TypeOK, IndInv, AtMostOnePoller, NEW p \in Pollers, StoreAndReturn(p)
    PROVE  IndInv' /\ consumer_pos' = consumer_pos
  <1>1. pc[p] = "busy" /\ pc' = [pc EXCEPT ![p] = "idle"]
    BY DEF StoreAndReturn, Goto, IndInv, ValidRecordNeverRejected
  <1>2. /\ consumer_pos' = consumer_pos
        /\ UNCHANGED <<kernelVars, localVars, delivered, crashes>>
    BY <1>1 DEF StoreAndReturn, IndInv, LocalsAgree, LocalsOf, Scanning
  <1>3. Pollers = {p}
    BY DEF AtMostOnePoller
  <1>4. pc'[p] = "idle"
    BY <1>1 DEF TypeOK
  <1>5. LogTiles' /\ Window' /\ RingHoldsPending' /\ NoRecordLost' /\ InOrder'
    BY <1>2, Frame
  <1>6. RepeatBudget' /\ RepeatsNeedCrashes'
    <2>1. ~\E q \in Pollers : pc[q] \in Handling
      BY <1>1, <1>3 DEF Handling
    <2> QED
      BY SMTT(40), <1>2, <2>1 DEF IndInv, RepeatBudget, RepeatsNeedCrashes
  <1>7. LocalsAgree' /\ NoMissedWakeup' /\ ValidRecordNeverRejected'
    BY SMTT(40), <1>3, <1>4 DEF LocalsAgree, LocalsOf, Scanning, Handling, NoMissedWakeup,
                      ValidRecordNeverRejected
  <1> QED
    BY <1>2, <1>5, <1>6, <1>7 DEF IndInv

\* Moving past a finished record.
LEMMA AdvanceStep ==
    ASSUME TypeOK, IndInv, AtMostOnePoller, NEW p \in Pollers, Advance(p)
    PROVE  IndInv' /\ consumer_pos' > consumer_pos
  <1>1. /\ pc[p] = "advance" /\ pc' = [pc EXCEPT ![p] = "scan"]
        /\ UNCHANGED <<kernelVars, ppos, raw, delivered, crashes>>
    BY SMTT(40) DEF Advance, Goto
  <1>2. PICK i \in 1..Len(log) : InFlight(p, i)
    BY SMTT(40), <1>1 DEF IndInv, LocalsAgree, LocalsOf, Handling
  <1>3. cpos[p] = consumer_pos /\ ppos[p] <= producer_pos /\ log[i].pos = consumer_pos
    BY SMTT(40), <1>1, <1>2 DEF IndInv, LocalsAgree, LocalsOf, Scanning, InFlight
  <1>4. /\ consumer_pos \in Nat /\ producer_pos \in Nat
        /\ End(i) \in Nat /\ End(i) > consumer_pos
        /\ End(i) = consumer_pos + RecordSize(log[i].len)
        /\ log[i].len \in RawLens
    BY ZenonT(40), <1>3, LogFacts DEF TypeOK
  <1>5. consumer_pos' = End(i) /\ cpos' = [cpos EXCEPT ![p] = End(i)]
    <2>1. raw[p].len = log[i].len
      BY SMTT(40), <1>2 DEF InFlight, HeaderOf
    <2>2. round_record_len(raw[p].len) = RecordSize(log[i].len)
      BY SMTT(40), <1>4, <2>1, SizeFacts
    <2> QED
      BY SMTT(40), <1>3, <1>4, <2>2 DEF Advance
  <1>6. Pollers = {p}
    BY DEF AtMostOnePoller
  <1>7. pc'[p] = "scan" /\ cpos'[p] = End(i) /\ ppos'[p] = ppos[p]
    BY <1>1, <1>5 DEF TypeOK
  <1>8. LogTiles'
    BY ZenonT(40), <1>1 DEF IndInv, LogTiles, AtRecord, End, kernelVars
  <1>9. Window'
    <2>1. End(i) <= producer_pos /\ AtRecord(End(i))
      BY SMTT(40) DEF IndInv, LogTiles
    <2>2. producer_pos < consumer_pos + RingSize
      BY DEF IndInv, Window
    <2> QED
      BY SMTT(40), <1>1, <1>4, <1>5, <2>1, <2>2, RingAssumption DEF Window, AtRecord, kernelVars
  <1>10. RingHoldsPending'
    <2> SUFFICES ASSUME NEW j \in 1..Len(log), log[j].pos >= End(i)
                 PROVE  /\ header[Offset(log[j].pos)] = HeaderOf(j)
                        /\ \A o \in Offsets :
                              Distance(log[j].pos, o) < RecordSize(log[j].len)
                                => payload[o] = j
      BY ZenonT(40), <1>1, <1>5 DEF RingHoldsPending, HeaderOf, kernelVars
    <2>0. log[j].pos \in Nat
      BY SMTT(40), LogFacts
    <2>1. log[j].pos >= consumer_pos
      BY SMTT(40), <1>4, <2>0
    <2> QED
      BY SMTT(40), <2>1 DEF IndInv, RingHoldsPending
  <1>11. NoRecordLost'
    <2> SUFFICES ASSUME NEW j \in 1..Len(log), log[j].pos < End(i)
                 PROVE  \/ log[j].st = "discarded"
                        \/ log[j].st = "committed" /\ WasDelivered(j)
      BY SMTT(40), <1>1, <1>5 DEF NoRecordLost, WasDelivered, kernelVars
    <2>1. CASE j = i
      <3>1. /\ raw[p].busy = (log[i].st = "busy")
            /\ raw[p].discard = (log[i].st = "discarded")
            /\ ~raw[p].busy
            /\ raw[p].discard \/ WasDelivered(i)
        BY SMTT(40), <1>2 DEF InFlight, HeaderOf
      <3>2. log[i].st \in {"busy", "committed", "discarded"}
        BY SMTT(40), LogFacts
      <3> QED
        BY ZenonT(40), <2>1, <3>1, <3>2
    <2>2. CASE j # i
      <3>1. log[j].pos \in Nat /\ End(j) \in Nat /\ End(j) > log[j].pos
        BY SMTT(40), LogFacts
      <3>2. ~(i < j)
        BY SMTT(40), <1>4, <3>1 DEF IndInv, LogTiles
      <3>3. j < i
        BY SMTT(40), <2>2, <3>2, LogFacts
      <3>4. log[j].pos < consumer_pos
        BY SMTT(40), <1>3, <1>4, <3>1, <3>3 DEF IndInv, LogTiles
      <3> QED
        BY SMTT(40), <3>4 DEF IndInv, NoRecordLost, WasDelivered
    <2> QED
      BY ZenonT(40), <2>1, <2>2
  <1>12. InOrder' /\ RepeatsNeedCrashes'
    BY SMTT(40), <1>1 DEF IndInv, InOrder, RepeatsNeedCrashes
  <1>13. RepeatBudget'
    <2>1. \A k \in 1..Len(delivered) : delivered[k].pos < End(i)
      BY SMTT(40), <1>4, DeliveredFacts DEF IndInv, RepeatBudget
    <2> QED
      BY SMTT(40), <1>1, <1>4, <1>5, <2>1, DeliveredFacts DEF RepeatBudget
  <1>14. LocalsAgree'
    BY SMTT(40), <1>1, <1>3, <1>5, <1>6, <1>7
         DEF LocalsAgree, LocalsOf, Handling, Scanning, kernelVars
  <1>15. NoMissedWakeup' /\ ValidRecordNeverRejected'
    BY <1>6, <1>7 DEF NoMissedWakeup, ValidRecordNeverRejected
  <1> QED
    BY <1>4, <1>5, <1>8, <1>9, <1>10, <1>11, <1>12, <1>13, <1>14, <1>15 DEF IndInv

\* The kernel reserves a record: what is not consumed is not overwritten.
LEMMA ReserveStep ==
    ASSUME TypeOK, IndInv, NEW len \in RecordLens, Reserve(len)
    PROVE  IndInv'
  <1> DEFINE n == Len(log)
             size == RecordSize(len)
             new == [pos |-> producer_pos, len |-> len, st |-> "busy"]
  <1>1. /\ producer_pos + size - consumer_pos \in 0..(RingSize - 1)
        /\ log' = Append(log, new)
        /\ producer_pos' = producer_pos + size
        /\ UNCHANGED <<consumer_pos, pc, localVars, delivered, crashes>>
    BY SMTT(40) DEF Reserve
  <1>2. /\ len \in RawLens /\ size \in Nat /\ size >= 8
        /\ producer_pos \in Nat /\ producer_pos % 8 = 0 /\ consumer_pos \in Nat
    <2>1. len \in RawLens /\ len \in Nat
      BY LensAssumption
    <2>2. size \in Nat /\ size >= 8
      BY <2>1, SizeFacts
    <2>3. producer_pos \in Nat /\ producer_pos % 8 = 0 /\ consumer_pos \in Nat
      BY DEF TypeOK
    <2> QED
      BY <2>1, <2>2, <2>3
  <1>3. /\ n \in Nat /\ Len(log') = n + 1
        /\ \A i \in 1..n : log'[i] = log[i]
        /\ log'[n + 1] = new
    <2>1. new \in Record
      BY <1>2 DEF Record
    <2> QED
      BY SMTT(40), <1>1, <2>1, AppendProperties, LenProperties DEF TypeOK
  <1>4. /\ new.pos = producer_pos /\ new.len = len /\ new.st = "busy"
        /\ log'[n + 1].pos + RecordSize(log'[n + 1].len) = producer_pos'
    BY SMTT(40), <1>1, <1>3
  <1> HIDE DEF n, new, size
  <1>5. \A i \in 1..n :
           /\ log[i].pos \in Nat /\ End(i) \in Nat /\ End(i) > log[i].pos
           /\ End(i) = log[i].pos + RecordSize(log[i].len)
           /\ RecordSize(log[i].len) \in Nat
           /\ log[i].pos % 8 = 0 /\ End(i) <= producer_pos
           /\ AtRecord(End(i)) /\ End(i)' = End(i)
    BY SMTT(40), <1>3, LogFacts DEF IndInv, LogTiles, End, n
  <1>6. ASSUME NEW pos, AtRecord(pos) PROVE AtRecord(pos)'
    <2>1. CASE pos = producer_pos
      <3>1. n + 1 \in 1..Len(log') /\ log'[n + 1].pos = pos
        BY <1>3, <1>4, <2>1
      <3> QED
        BY <3>1 DEF AtRecord
    <2>2. CASE pos # producer_pos
      <3>1. PICK i \in 1..n : log[i].pos = pos
        BY <1>6, <2>2 DEF AtRecord, n
      <3>2. i \in 1..Len(log') /\ log'[i].pos = pos
        BY <1>3, <3>1
      <3> QED
        BY <3>2 DEF AtRecord
    <2> QED
      BY <2>1, <2>2
  <1>7. LogTiles'
    <2>1. ASSUME NEW i \in 1..(n + 1)
          PROVE  /\ log'[i].pos % 8 = 0
                 /\ End(i)' <= producer_pos' /\ AtRecord(End(i))'
      <3>1. CASE i = n + 1
        <4>1. End(i)' = producer_pos'
          BY SMTT(40), <1>4, <3>1 DEF End
        <4>2. producer_pos' \in Nat
          BY <1>1, <1>2
        <4> QED
          BY SMTT(40), <1>2, <1>3, <1>4, <3>1, <4>1, <4>2 DEF AtRecord
      <3>2. CASE i # n + 1
        <4>1. i \in 1..n
          BY <1>3, <3>2
        <4>2. /\ log'[i].pos % 8 = 0 /\ End(i)' = End(i)
              /\ End(i) <= producer_pos /\ End(i) \in Nat /\ AtRecord(End(i))
          BY ZenonT(40), <1>3, <1>5, <4>1
        <4>3. AtRecord(End(i))'
          <5> DEFINE e == End(i)
          <5>1. AtRecord(e)
            BY <4>2
          <5>2. End(i)' = e
            BY <4>2
          <5> QED
            BY ZenonT(40), <1>6, <5>1, <5>2 DEF AtRecord
        <4>4. End(i)' <= producer_pos'
          BY SMTT(40), <1>1, <1>2, <4>2
        <4> QED
          BY <4>2, <4>3, <4>4
      <3> QED
        BY <3>1, <3>2
    <2>2. ASSUME NEW i \in 1..(n + 1), NEW j \in 1..(n + 1), i < j
          PROVE  End(i)' <= log'[j].pos
      <3>1. i \in 1..n
        BY <1>3, <2>2
      <3>2. CASE j = n + 1
        BY SMTT(40), <1>3, <1>4, <1>5, <3>1, <3>2
      <3>3. CASE j # n + 1
        <4>1. j \in 1..n
          BY <1>3, <3>3
        <4>2. End(i) <= log[j].pos
          BY SMTT(40), <2>2, <3>1, <4>1 DEF IndInv, LogTiles, n
        <4> QED
          BY SMTT(40), <1>3, <1>5, <3>1, <4>1, <4>2
      <3> QED
        BY <3>2, <3>3
    <2> QED
      BY SMTT(40), <1>3, <2>1, <2>2 DEF LogTiles
  <1>8. Window'
    <2>1. consumer_pos <= producer_pos /\ AtRecord(consumer_pos)
      BY DEF IndInv, Window
    <2>2. AtRecord(consumer_pos)'
      BY ZenonT(40), <1>1, <1>6, <2>1 DEF AtRecord
    <2> QED
      BY <1>1, <1>2, <2>1, <2>2, RingAssumption DEF Window
  <1>9. RingHoldsPending'
    <2> SUFFICES ASSUME NEW i \in 1..(n + 1), log'[i].pos >= consumer_pos
                 PROVE  /\ header'[Offset(log'[i].pos)] = HeaderOf(i)'
                        /\ \A o \in Offsets :
                              Distance(log'[i].pos, o) < RecordSize(log'[i].len)
                                => payload'[o] = i
      BY SMTT(40), <1>1, <1>3 DEF RingHoldsPending
    <2>1. /\ header' = [o \in Offsets |->
                IF Distance(producer_pos, o) = 0
                  THEN [len |-> len, busy |-> TRUE, discard |-> FALSE]
                  ELSE IF Distance(producer_pos, o) < size THEN NoHeader
                                                           ELSE header[o]]
          /\ payload' = [o \in Offsets |->
                IF Distance(producer_pos, o) < size THEN n + 1 ELSE payload[o]]
      BY SMTT(40) DEF Reserve, size, n
    <2>2. CASE i = n + 1
      <3>1. Offset(producer_pos) \in Offsets
        BY SMTT(40), <1>2, OffsetAligned
      <3>2. Distance(producer_pos, Offset(producer_pos)) = 0
        BY <1>2, <3>1, DistanceFacts
      <3>3. HeaderOf(i)' = [len |-> len, busy |-> TRUE, discard |-> FALSE]
        BY ZenonT(40), <1>3, <1>4, <2>2 DEF HeaderOf
      <3> QED
        BY SMTT(40), <1>3, <1>4, <2>1, <2>2, <3>1, <3>2, <3>3 DEF size
    <2>3. CASE i # n + 1
      <3>1. i \in 1..n /\ log'[i] = log[i] /\ HeaderOf(i)' = HeaderOf(i)
        <4>1. i \in 1..n
          BY <1>3, <2>3
        <4>2. log'[i] = log[i]
          BY <1>3, <4>1
        <4> QED
          BY ZenonT(40), <4>1, <4>2 DEF HeaderOf
      <3>2. /\ log[i].pos \in Nat /\ log[i].pos % 8 = 0 /\ log[i].pos >= consumer_pos
            /\ End(i) = log[i].pos + RecordSize(log[i].len)
            /\ RecordSize(log[i].len) \in Nat
            /\ End(i) <= producer_pos /\ End(i) > log[i].pos
        BY SMTT(40), <1>5, <3>1
      <3>3. producer_pos + size <= log[i].pos + RingSize
        <4>1. RingSize \in Nat /\ producer_pos + size - consumer_pos <= RingSize - 1
          BY SMTT(40), <1>1, <1>2, RingAssumption
        <4>2. /\ producer_pos \in Nat /\ size \in Nat /\ consumer_pos \in Nat
              /\ log[i].pos \in Nat /\ log[i].pos >= consumer_pos
          BY SMTT(40), <1>2, <3>2
        <4> QED
          BY SMTT(40), <4>1, <4>2
      <3>4. ASSUME NEW o \in Offsets,
                   Distance(log[i].pos, o) < RecordSize(log[i].len)
            PROVE  Distance(producer_pos, o) >= size /\ Distance(producer_pos, o) \in Nat
        <4>1. Distance(log[i].pos, o) \in 0..(RingSize - 1)
          BY SMTT(40), <3>2, DistanceFacts
        <4>2. log[i].pos + Distance(log[i].pos, o) < producer_pos
          <5>1. /\ log[i].pos \in Nat /\ RecordSize(log[i].len) \in Nat
                /\ producer_pos \in Nat
                /\ log[i].pos + RecordSize(log[i].len) <= producer_pos
            BY ZenonT(40), <1>2, <3>2
          <5>2. Distance(log[i].pos, o) \in Int
            BY SMTT(40), <4>1, RingAssumption
          <5> QED
            BY SMTT(40), <3>4, <5>1, <5>2
        <4>3. Distance(producer_pos, o) >= size
          BY ZenonT(40), <1>2, <3>2, <3>3, <4>2, NoOverwrite
        <4> QED
          BY SMTT(40), <1>2, <4>3, DistanceFacts
      <3>5. header'[Offset(log[i].pos)] = header[Offset(log[i].pos)]
        <4>1. Offset(log[i].pos) \in Offsets
          BY SMTT(40), <3>2, OffsetAligned
        <4>2. Distance(log[i].pos, Offset(log[i].pos)) = 0
          BY SMTT(40), <3>2, <4>1, DistanceFacts
        <4>3. Distance(log[i].pos, Offset(log[i].pos)) < RecordSize(log[i].len)
          BY SMTT(40), <3>2, <4>2
        <4>4. /\ Distance(producer_pos, Offset(log[i].pos)) >= size
              /\ Distance(producer_pos, Offset(log[i].pos)) \in Nat
          BY SMTT(40), <3>4, <4>1, <4>3
        <4> QED
          BY SMTT(40), <1>2, <2>1, <4>1, <4>4
      <3>6. ASSUME NEW o \in Offsets,
                   Distance(log[i].pos, o) < RecordSize(log[i].len)
            PROVE  payload'[o] = payload[o]
        BY SMTT(40), <1>2, <2>1, <3>4, <3>6
      <3>7. /\ header[Offset(log[i].pos)] = HeaderOf(i)
            /\ \A o \in Offsets :
                  Distance(log[i].pos, o) < RecordSize(log[i].len) => payload[o] = i
        BY SMTT(40), <3>1, <3>2 DEF IndInv, RingHoldsPending, n
      <3> QED
        BY SMTT(40), <3>1, <3>5, <3>6, <3>7
    <2> QED
      BY SMTT(40), <2>2, <2>3
  <1>10. LocalsAgree'
    <2> SUFFICES ASSUME NEW p \in Pollers PROVE LocalsOf(p)'
      BY DEF LocalsAgree
    <2>1. LocalsOf(p)
      BY DEF IndInv, LocalsAgree
    <2>2. ASSUME NEW i \in 1..n, InFlight(p, i) PROVE InFlight(p, i)'
      <3>1. /\ pc' = pc /\ cpos' = cpos /\ raw' = raw /\ delivered' = delivered
            /\ log'[i] = log[i]
        BY SMTT(40), <1>1, <1>3 DEF localVars
      <3> QED
        BY ZenonT(40), <2>2, <3>1 DEF InFlight, HeaderOf, WasDelivered
    <2>3. ASSUME pc[p] \in Handling PROVE \E i \in 1..(n + 1) : InFlight(p, i)'
      <3>1. PICK i \in 1..n : InFlight(p, i)
        BY ZenonT(40), <2>1, <2>3 DEF LocalsOf, n
      <3>2. InFlight(p, i)'
        BY ZenonT(40), <2>2, <3>1
      <3>3. i \in 1..(n + 1)
        BY SMTT(40), <1>3, <3>1
      <3> QED
        BY ZenonT(40), <3>2, <3>3
    <2>4. ppos[p] <= producer_pos => ppos[p] <= producer_pos'
      <3>1. ppos[p] \in Nat
        BY DEF TypeOK
      <3>2. producer_pos' = producer_pos + size /\ producer_pos \in Nat /\ size \in Nat
        BY ZenonT(40), <1>1, <1>2
      <3> QED
        BY SMTT(40), <3>1, <3>2
    <2>5. /\ pc' = pc /\ cpos' = cpos /\ ppos' = ppos /\ consumer_pos' = consumer_pos
          /\ Len(log') = n + 1
      BY SMTT(40), <1>1, <1>3 DEF localVars
    <2> QED
      BY ZenonT(40), <2>1, <2>3, <2>4, <2>5 DEF LocalsOf
  <1>11. NoRecordLost'
    <2> SUFFICES ASSUME NEW i \in 1..(n + 1), log'[i].pos < consumer_pos
                 PROVE  \/ log'[i].st = "discarded"
                        \/ /\ log'[i].st = "committed"
                           /\ \E k \in 1..Len(delivered) : delivered[k] =
                                 [pos |-> log'[i].pos, len |-> log'[i].len]
      BY SMTT(40), <1>1, <1>3 DEF NoRecordLost
    <2>1. i # n + 1
      BY SMTT(40), <1>2, <1>3, <1>4 DEF IndInv, Window
    <2>2. i \in 1..n /\ log'[i] = log[i]
      BY <1>3, <2>1
    <2> QED
      BY SMTT(40), <2>2 DEF IndInv, NoRecordLost, n
  <1>12. InOrder' /\ RepeatsNeedCrashes' /\ RepeatBudget' /\ ValidRecordNeverRejected'
    BY SMTT(40), <1>1
         DEF IndInv, InOrder, RepeatsNeedCrashes, RepeatBudget, ValidRecordNeverRejected
  <1>13. NoMissedWakeup'
    <2> SUFFICES ASSUME NEW p \in Pollers, pc[p] = "blocked"
                 PROVE  \E i \in 1..(n + 1) :
                           log'[i].pos = consumer_pos /\ log'[i].st = "busy"
      BY SMTT(40), <1>1, <1>3 DEF NoMissedWakeup
    <2>1. CASE Readable
      <3>1. PICK i \in 1..n : log[i].pos = consumer_pos /\ log[i].st = "busy"
        BY <2>1 DEF IndInv, NoMissedWakeup, n
      <3> QED
        BY <1>3, <3>1
    <2>2. CASE ~Readable
      BY SMTT(40), <1>3, <1>4, <2>2 DEF Readable
    <2> QED
      BY <2>1, <2>2
  <1> QED
    BY <1>7, <1>8, <1>9, <1>10, <1>11, <1>12, <1>13 DEF IndInv

\* Two positions less than a ring apart have different offsets.
LEMMA OffsetsDiffer ==
    ASSUME NEW a \in Nat, NEW b \in Nat, a % 8 = 0, b % 8 = 0, a < b, b < a + RingSize
    PROVE  Offset(a) # Offset(b)
  <1>1. Offset(a) \in Offsets /\ Distance(a, Offset(a)) = 0
    BY OffsetAligned, DistanceFacts
  <1>2. b + 1 <= a + RingSize /\ a + Distance(a, Offset(a)) < b
    BY <1>1, RingAssumption
  <1>3. Distance(b, Offset(a)) >= 1
    BY ZenonT(40), <1>1, <1>2, NoOverwrite
  <1> QED
    BY <1>1, <1>3, DistanceFacts

\* The kernel finishes a record: no other header changes, and no poller goes
\* on sleeping on it.
LEMMA FinishStep ==
    ASSUME TypeOK, IndInv, NEW i \in 1..Len(log),
           NEW st \in {"committed", "discarded"}, Finish(i, st)
    PROVE  IndInv'
  <1> DEFINE fin == [len |-> log[i].len, busy |-> FALSE, discard |-> st = "discarded"]
  <1>1. /\ log[i].st = "busy"
        /\ log' = [log EXCEPT ![i].st = st]
        /\ header' = [header EXCEPT ![Offset(log[i].pos)] = fin]
        /\ pc' = [p \in Pollers |->
               IF pc[p] = "blocked" /\ Offset(consumer_pos) = Offset(log[i].pos)
                 THEN "wait" ELSE pc[p]]
        /\ UNCHANGED <<producer_pos, consumer_pos, payload, localVars, delivered, crashes>>
    BY DEF Finish
  <1> HIDE DEF fin
  <1>2. /\ Len(log') = Len(log)
        /\ log'[i] = [log[i] EXCEPT !.st = st]
        /\ \A j \in 1..Len(log) : j # i => log'[j] = log[j]
    <2>1. [log[i] EXCEPT !.st = st] \in Record
      BY SMTT(40), LogFacts DEF Record
    <2>2. log' = [log EXCEPT ![i] = [log[i] EXCEPT !.st = st]]
      BY <1>1
    <2>3. log \in Seq(Record)
      BY DEF TypeOK
    <2> QED
      BY <2>1, <2>2, <2>3, ExceptSeq
  <1>3. \A j \in 1..Len(log) : log'[j].pos = log[j].pos /\ log'[j].len = log[j].len
    <2>1. log[i] \in Record
      BY SMTT(40), LogFacts
    <2>2. log'[i].pos = log[i].pos /\ log'[i].len = log[i].len /\ log'[i].st = st
      BY <1>2, <2>1 DEF Record
    <2> QED
      BY ZenonT(40), <1>2, <2>2
  <1>4. log'[i].st = st
    BY <1>2, LogFacts DEF Record
  <1>5. \A j \in 1..Len(log) :
           /\ log[j].pos \in Nat /\ log[j].pos % 8 = 0
           /\ End(j) \in Nat /\ End(j) > log[j].pos /\ End(j) <= producer_pos
    BY SMTT(40), LogFacts DEF IndInv, LogTiles
  <1>6. /\ consumer_pos \in Nat /\ producer_pos \in Nat
        /\ consumer_pos <= producer_pos /\ producer_pos < consumer_pos + RingSize
        /\ RingSize \in Nat
    BY SMTT(40), RingAssumption DEF TypeOK, IndInv, Window
  <1>7. log[i].pos >= consumer_pos
    <2>1. log[i].pos < consumer_pos => log[i].st # "busy"
      BY ZenonT(40) DEF IndInv, NoRecordLost
    <2> QED
      BY SMTT(40), <1>1, <1>5, <1>6, <2>1
  <1>8. LogTiles' /\ Window'
    <2>1. \A j \in 1..Len(log) : End(j)' = End(j)
      BY <1>3 DEF End
    <2>2. ASSUME NEW pos, AtRecord(pos) PROVE AtRecord(pos)'
      BY <1>1, <1>2, <1>3, <2>2 DEF AtRecord
    <2>3. ASSUME NEW j \in 1..Len(log)
          PROVE  /\ log'[j].pos % 8 = 0
                 /\ End(j)' <= producer_pos' /\ AtRecord(End(j))'
      <3>1. AtRecord(End(j)) /\ End(j)' = End(j)
        BY SMTT(40), <2>1 DEF IndInv, LogTiles
      <3>2. AtRecord(End(j))'
        BY ZenonT(40), <2>2, <3>1 DEF AtRecord
      <3> QED
        BY <1>1, <1>3, <1>5, <3>1, <3>2
    <2>4. \A j, k \in 1..Len(log) : j < k => End(j)' <= log'[k].pos
      BY SMTT(40), <1>3, <2>1 DEF IndInv, LogTiles
    <2>5. LogTiles'
      BY <1>2, <2>3, <2>4 DEF LogTiles
    <2>6. Window'
      BY <1>1, <2>2 DEF IndInv, Window, AtRecord
    <2> QED
      BY <2>5, <2>6
  <1>9. RingHoldsPending'
    <2> SUFFICES ASSUME NEW j \in 1..Len(log), log[j].pos >= consumer_pos
                 PROVE  /\ header'[Offset(log[j].pos)] = HeaderOf(j)'
                        /\ \A o \in Offsets :
                              Distance(log[j].pos, o) < RecordSize(log[j].len)
                                => payload[o] = j
      BY <1>1, <1>2, <1>3 DEF RingHoldsPending
    <2>1. /\ header[Offset(log[j].pos)] = HeaderOf(j)
          /\ \A o \in Offsets :
                Distance(log[j].pos, o) < RecordSize(log[j].len) => payload[o] = j
      BY SMTT(40) DEF IndInv, RingHoldsPending
    <2>2. Offset(log[i].pos) \in Offsets
      BY SMTT(40), <1>5, OffsetAligned
    <2>3. CASE j = i
      <3>1. header'[Offset(log[i].pos)] = fin
        BY <1>1, <2>2 DEF TypeOK
      <3>2. HeaderOf(i)' = fin
        BY ZenonT(40), <1>3, <1>4 DEF HeaderOf, fin
      <3> QED
        BY SMTT(40), <2>1, <2>3, <3>1, <3>2
    <2>4. CASE j # i
      <3>1. log[j].pos # log[i].pos
        BY <2>4, PosUnique DEF IndInv
      <3>2. Offset(log[j].pos) # Offset(log[i].pos)
        <4>1. /\ log[j].pos < log[i].pos + RingSize
              /\ log[i].pos < log[j].pos + RingSize
          <5>1. /\ log[i].pos \in Nat /\ log[i].pos < producer_pos
                /\ log[j].pos \in Nat /\ log[j].pos < producer_pos
            BY SMTT(40), <1>5, <1>6
          <5> QED
            BY SMTT(40), <1>6, <1>7, <5>1
        <4>2. CASE log[j].pos < log[i].pos
          BY SMTT(40), <1>5, <4>1, <4>2, OffsetsDiffer
        <4>3. CASE log[i].pos < log[j].pos
          BY SMTT(40), <1>5, <4>1, <4>3, OffsetsDiffer
        <4> QED
          BY SMTT(40), <1>5, <3>1, <4>2, <4>3
      <3>3. header'[Offset(log[j].pos)] = header[Offset(log[j].pos)]
        <4>1. Offset(log[j].pos) \in Offsets
          BY SMTT(40), <1>5, OffsetAligned
        <4> QED
          BY <1>1, <3>2, <4>1 DEF TypeOK
      <3>4. HeaderOf(j)' = HeaderOf(j)
        BY <1>2, <2>4 DEF HeaderOf
      <3> QED
        BY SMTT(40), <2>1, <3>3, <3>4
    <2> QED
      BY SMTT(40), <2>3, <2>4
  <1>10. \A p \in Pollers : pc'[p] = pc[p] \/ (pc[p] = "blocked" /\ pc'[p] = "wait")
    BY <1>1
  <1>11. LocalsAgree'
    <2> SUFFICES ASSUME NEW p \in Pollers PROVE LocalsOf(p)'
      BY DEF LocalsAgree
    <2>1. LocalsOf(p)
      BY DEF IndInv, LocalsAgree
    <2>2. CASE pc'[p] # pc[p]
      <3>1. pc'[p] = "wait"
        BY <1>10, <2>2
      <3> QED
        BY <3>1 DEF LocalsOf, Handling, Scanning
    <2>3. CASE pc'[p] = pc[p]
      <3>1. ASSUME NEW j \in 1..Len(log), InFlight(p, j) PROVE InFlight(p, j)'
        <4>1. j # i
          <5>1. raw[p].busy = (log[j].st = "busy") /\ ~raw[p].busy
            BY SMTT(40), <3>1 DEF InFlight, HeaderOf
          <5> QED
            BY ZenonT(40), <1>1, <5>1
        <4> QED
          BY <1>1, <1>2, <2>3, <3>1, <4>1
          DEF InFlight, HeaderOf, WasDelivered, localVars
      <3> QED
        BY <1>1, <1>2, <2>1, <2>3, <3>1 DEF LocalsOf, localVars
    <2> QED
      BY <2>2, <2>3
  <1>12. NoRecordLost'
    <2> SUFFICES ASSUME NEW j \in 1..Len(log), log[j].pos < consumer_pos
                 PROVE  \/ log'[j].st = "discarded"
                        \/ /\ log'[j].st = "committed"
                           /\ \E k \in 1..Len(delivered) : delivered[k] =
                                 [pos |-> log'[j].pos, len |-> log'[j].len]
      BY <1>1, <1>2, <1>3 DEF NoRecordLost
    <2>1. j # i
      BY SMTT(40), <1>5, <1>6, <1>7
    <2> QED
      BY <1>2, <2>1 DEF IndInv, NoRecordLost
  <1>13. InOrder' /\ RepeatsNeedCrashes' /\ ValidRecordNeverRejected'
    BY <1>1, <1>10 DEF IndInv, InOrder, RepeatsNeedCrashes, ValidRecordNeverRejected
  <1>14. RepeatBudget'
    <2>1. \A p \in Pollers : pc[p] \in Handling => pc'[p] \in Handling
      <3>1. ASSUME NEW p \in Pollers, pc[p] \in Handling PROVE pc'[p] = pc[p]
        <4>1. pc[p] # "blocked"
          BY <3>1 DEF Handling
        <4> QED
          BY <1>10, <4>1
      <3> QED
        BY <3>1
    <2> QED
      BY <1>1, <2>1 DEF IndInv, RepeatBudget
  <1>15. NoMissedWakeup'
    <2> SUFFICES ASSUME NEW p \in Pollers, pc'[p] = "blocked", Readable
                 PROVE  \E j \in 1..Len(log) :
                           log'[j].pos = consumer_pos /\ log'[j].st = "busy"
      BY <1>1, <1>2 DEF NoMissedWakeup, Readable
    <2>1. pc[p] = "blocked" /\ Offset(consumer_pos) # Offset(log[i].pos)
      BY <1>1
    <2>2. PICK j \in 1..Len(log) : log[j].pos = consumer_pos /\ log[j].st = "busy"
      BY SMTT(40), <2>1 DEF IndInv, NoMissedWakeup
    <2>3. j # i
      BY SMTT(40), <2>1, <2>2
    <2> QED
      BY <1>2, <2>2, <2>3
  <1> QED
    BY <1>8, <1>9, <1>11, <1>12, <1>13, <1>14, <1>15 DEF IndInv

\* Every step preserves the invariant, and none takes consumer_pos back.
LEMMA IndStep ==
    ASSUME AtMostOnePoller, TypeOK, IndInv, [Next]_vars
    PROVE  IndInv' /\ consumer_pos' >= consumer_pos
  <1>1. consumer_pos \in Nat /\ consumer_pos' \in Nat
    BY SMTT(40), TypeStep DEF TypeOK
  <1>2. CASE UNCHANGED vars
    <2>1. UNCHANGED <<kernelVars, consumer_pos, delivered, pc, cpos, ppos, raw, crashes>>
      BY <1>2 DEF vars, localVars
    <2>2. LogTiles' /\ Window' /\ RingHoldsPending' /\ NoRecordLost' /\ InOrder'
      BY <2>1, Frame
    <2>3. LocalsAgree'
      BY SMTT(40), <2>1, LocalFrame DEF IndInv, LocalsAgree
    <2>4. /\ RepeatBudget' /\ RepeatsNeedCrashes'
          /\ NoMissedWakeup' /\ ValidRecordNeverRejected'
      BY ZenonT(40), <2>1 DEF IndInv, RepeatBudget, RepeatsNeedCrashes, NoMissedWakeup,
                  ValidRecordNeverRejected, Readable, kernelVars
    <2> QED
      BY SMTT(40), <1>1, <2>1, <2>2, <2>3, <2>4 DEF IndInv
  <1>3. CASE Kernel
    <2>1. IndInv'
      BY <1>3, ReserveStep, FinishStep DEF Kernel, Commit, Discard
    <2>2. consumer_pos' = consumer_pos
      BY ZenonT(40), <1>3 DEF Kernel, Commit, Discard, Reserve, Finish
    <2> QED
      BY <1>1, <2>1, <2>2
  <1>4. ASSUME NEW p \in Pollers, Poller(p) PROVE IndInv' /\ consumer_pos' >= consumer_pos
    <2>1. CASE \/ Poll(p) \/ WaitReady(p) \/ WaitBlock(p) \/ WaitInterrupted(p)
               \/ LoadConsumerPos(p) \/ LoadProducerPos(p) \/ EndOfScan(p)
               \/ CallbackReturn(p) \/ Crash(p)
      <3>1. consumer_pos' = consumer_pos
        BY SMTT(40), <2>1 DEF Poll, WaitReady, WaitBlock, WaitInterrupted, LoadConsumerPos,
                    LoadProducerPos, EndOfScan, CallbackReturn, Crash
      <3> QED
        BY <1>1, <2>1, <3>1, LocalStep
    <2>2. CASE ConsumeHeader(p)
      <3>1. consumer_pos' = consumer_pos
        BY ZenonT(40), <2>2 DEF ConsumeHeader, SeeBusy, SkipDiscarded, RejectOutOfBounds,
                    Deliver, ReadHeader
      <3> QED
        BY <1>1, <2>2, <3>1, HeaderStep DEF ConsumeHeader
    <2>3. CASE Advance(p)
      BY <1>1, <2>3, AdvanceStep
    <2>4. CASE StoreAndReturn(p)
      BY <1>1, <2>4, StoreStep
    <2> QED
      BY SMTT(40), <1>4, <2>1, <2>2, <2>3, <2>4 DEF Poller, PollStep
  <1> QED
    BY <1>2, <1>3, <1>4 DEF Next

\* The invariant holds of an empty ring.
LEMMA IndInit == Init => IndInv
  <1> SUFFICES ASSUME Init PROVE IndInv
    OBVIOUS
  <1>1. Len(log) = 0 /\ Len(delivered) = 0 /\ \A p \in Pollers : pc[p] = "idle"
    BY SMTT(40) DEF Init
  <1>2. LogTiles /\ Window /\ RingHoldsPending
    BY SMTT(40), <1>1, RingAssumption DEF Init, LogTiles, Window, RingHoldsPending, AtRecord
  <1>3. LocalsAgree /\ RepeatBudget
    BY SMTT(40), <1>1 DEF LocalsAgree, LocalsOf, Scanning, Handling, RepeatBudget
  <1>4. /\ NoRecordLost /\ InOrder /\ RepeatsNeedCrashes
        /\ NoMissedWakeup /\ ValidRecordNeverRejected
    BY SMTT(40), <1>1 DEF NoRecordLost, InOrder, RepeatsNeedCrashes, NoMissedWakeup,
                ValidRecordNeverRejected
  <1> QED
    BY <1>2, <1>3, <1>4 DEF IndInv

\* The ring words under a running callback are those of its record.
LEMMA IndIntegrity ==
    ASSUME TypeOK, IndInv
    PROVE  RecordIntegrity
  <1> SUFFICES ASSUME NEW p \in Pollers, pc[p] = "callback"
               PROVE  \E i \in 1..Len(log) :
                         /\ log[i].pos = cpos[p]
                         /\ log[i].len = raw[p].len
                         /\ log[i].st = "committed"
                         /\ \A o \in Offsets :
                               Distance(cpos[p], o) < RecordSize(log[i].len)
                                 => payload[o] = i
    BY SMTT(40) DEF RecordIntegrity
  <1>1. PICK i \in 1..Len(log) : InFlight(p, i)
    BY SMTT(40) DEF IndInv, LocalsAgree, LocalsOf, Handling
  <1>2. log[i].pos = cpos[p] /\ cpos[p] = consumer_pos /\ consumer_pos \in Nat
    BY SMTT(40), <1>1 DEF InFlight, IndInv, LocalsAgree, LocalsOf, Scanning, TypeOK
  <1>3. /\ raw[p].len = log[i].len
        /\ log[i].st # "busy" /\ log[i].st # "discarded"
    <2>1. /\ raw[p].len = log[i].len
          /\ raw[p].busy = (log[i].st = "busy") /\ ~raw[p].busy
          /\ raw[p].discard = (log[i].st = "discarded") /\ ~raw[p].discard
      BY SMTT(40), <1>1 DEF InFlight, HeaderOf
    <2> QED
      BY ZenonT(40), <2>1
  <1>4. log[i].st = "committed"
    BY SMTT(40), <1>3, LogFacts
  <1>5. \A o \in Offsets : Distance(log[i].pos, o) < RecordSize(log[i].len)
                             => payload[o] = i
    BY SMTT(40), <1>2 DEF IndInv, RingHoldsPending
  <1> QED
    BY SMTT(40), <1>2, <1>3, <1>4, <1>5

\* The inductive invariant holds throughout, with one poller.
THEOREM Invariance ==
    ASSUME AtMostOnePoller
    PROVE  Spec => [](TypeOK /\ IndInv)
  <1>1. Init => TypeOK /\ IndInv
    BY SMTT(40), IndInit, LensAssumption, RingAssumption, EmptySeq
    DEF Init, TypeOK, RingbufHeader, PC
  <1>2. TypeOK /\ IndInv /\ [Next]_vars => (TypeOK /\ IndInv)'
    BY TypeStep, IndStep
  <1> QED
    BY <1>1, <1>2, PTL DEF Spec

-----------------------------------------------------------------------------
(* The safety properties of Ringbuf, for every value of its constants that *)
(* has at most one poller.                                                 *)

\* The slice a callback sees is one committed record that stays unchanged.
THEOREM RecordsStayIntact ==
    ASSUME AtMostOnePoller
    PROVE  Spec => []RecordIntegrity
  <1>1. TypeOK /\ IndInv => RecordIntegrity
    BY IndIntegrity
  <1> QED
    BY <1>1, Invariance, PTL

\* consumer_pos passes no busy record and no committed one that was not handed
\* to a callback, with any number of crashes.
THEOREM NothingIsLost ==
    ASSUME AtMostOnePoller
    PROVE  Spec => []NoRecordLost
  <1>1. TypeOK /\ IndInv => NoRecordLost
    BY DEF IndInv
  <1> QED
    BY <1>1, Invariance, PTL

\* Callbacks see the records in order, and a record again only after a crash.
THEOREM DeliveryOrder ==
    ASSUME AtMostOnePoller
    PROVE  Spec => [](InOrder /\ RepeatsNeedCrashes)
  <1>1. TypeOK /\ IndInv => InOrder /\ RepeatsNeedCrashes
    BY DEF IndInv
  <1> QED
    BY <1>1, Invariance, PTL

\* A sleeping poller is woken by whatever it must not sleep through.
THEOREM NoWakeupIsMissed ==
    ASSUME AtMostOnePoller
    PROVE  Spec => []NoMissedWakeup
  <1>1. TypeOK /\ IndInv => NoMissedWakeup
    BY DEF IndInv
  <1> QED
    BY <1>1, Invariance, PTL

\* The bounds check of consume_ring_records rejects no record of the kernel.
THEOREM NoFalseRejection ==
    ASSUME AtMostOnePoller
    PROVE  Spec => []ValidRecordNeverRejected
  <1>1. TypeOK /\ IndInv => ValidRecordNeverRejected
    BY DEF IndInv
  <1> QED
    BY <1>1, Invariance, PTL

\* The shared consumer position only grows.
THEOREM ConsumerPosGrows ==
    ASSUME AtMostOnePoller
    PROVE  Spec => ConsumerPosNeverRetreats
  <1>1. TypeOK /\ IndInv /\ [Next]_vars => [consumer_pos' >= consumer_pos]_vars
    BY IndStep
  <1> QED
    BY <1>1, Invariance, PTL DEF Spec, ConsumerPosNeverRetreats
=============================================================================
