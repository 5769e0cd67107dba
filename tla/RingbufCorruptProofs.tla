------------------------ MODULE RingbufCorruptProofs ------------------------
(***************************************************************************)
(* The reader's memory safety for every ring, any number of pollers and    *)
(* any corruption of headers.  No property of the records is needed: the   *)
(* check and the slice it guards use the same locals.                      *)
(***************************************************************************)
EXTENDS RingbufCorrupt, RingbufProofs

\* A corrupted header is still a header.
LEMMA CorruptType == TypeOK /\ [CorruptNext]_vars => TypeOK'
  <1> SUFFICES ASSUME TypeOK, [CorruptNext]_vars PROVE TypeOK'
    OBVIOUS
  <1>1. CASE [Next]_vars
    BY <1>1, TypeStep
  <1>2. ASSUME NEW i \in 1..Len(log), NEW h \in RingbufHeader, Corrupt(i, h)
        PROVE  TypeOK'
    BY <1>2 DEF Corrupt, TypeOK, localVars
  <1> QED
    BY <1>1, <1>2 DEF CorruptNext

\* A step that leaves the locals of q alone, and its place or a harmless one,
\* leaves q's check valid.
LEMMA CheckedFrame ==
    ASSUME NEW q \in Pollers, CheckedOf(q), cpos'[q] = cpos[q], raw'[q] = raw[q],
           pc'[q] = pc[q] \/ pc'[q] \notin Handling
                \/ (pc[q] = "callback" /\ pc'[q] = "advance")
    PROVE  CheckedOf(q)'
  BY DEF CheckedOf, Handling, InMapping, record_within_mapping, Offset

\* The load of a header: each branch that goes on has its check behind it.
LEMMA CheckedHeader ==
    ASSUME TypeOK, NEW p \in Pollers, ConsumeHeader(p)
    PROVE  /\ CheckedOf(p)'
           /\ \A q \in Pollers \ {p} :
                 pc'[q] = pc[q] /\ cpos'[q] = cpos[q] /\ raw'[q] = raw[q]
  <1>1. PICK h \in RingbufHeader :
           SeeBusy(p, h) \/ SkipDiscarded(p, h) \/ RejectOutOfBounds(p, h) \/ Deliver(p, h)
    BY DEF ConsumeHeader
  <1>2. \E to \in PC : ReadHeader(p, h, to)
    BY <1>1 DEF SeeBusy, SkipDiscarded, RejectOutOfBounds, Deliver, PC
  <1>3. cpos' = cpos /\ raw'[p] = h
        /\ \A q \in Pollers \ {p} : pc'[q] = pc[q] /\ raw'[q] = raw[q]
    BY <1>2 DEF ReadHeader, Goto, TypeOK
  <1>4. CASE SeeBusy(p, h) \/ RejectOutOfBounds(p, h)
    <2>1. pc'[p] \notin Handling
      BY <1>4 DEF SeeBusy, RejectOutOfBounds, ReadHeader, Goto, TypeOK, Handling
    <2> QED
      BY <1>3, <2>1 DEF CheckedOf, Handling
  <1>5. CASE SkipDiscarded(p, h)
    <2>1. pc'[p] = "advance" /\ h.discard
      BY <1>5 DEF SkipDiscarded, ReadHeader, Goto, TypeOK
    <2> QED
      BY <1>3, <2>1 DEF CheckedOf
  <1>6. CASE Deliver(p, h)
    <2>1. ~h.discard /\ InMapping(cpos[p], h.len)
      BY <1>6 DEF Deliver
    <2>2. InMapping(cpos[p], h.len)'
      BY <1>3, <2>1 DEF InMapping, record_within_mapping, Offset
    <2> QED
      BY <1>3, <2>1, <2>2 DEF CheckedOf
  <1> QED
    BY <1>1, <1>4, <1>5, <1>6, <1>3

\* Kernel steps and corruptions touch no local; a poller touches its own.
LEMMA CheckedStep == TypeOK /\ Checked /\ [CorruptNext]_vars => Checked'
  <1> SUFFICES ASSUME TypeOK, Checked, [CorruptNext]_vars, NEW q \in Pollers
               PROVE  CheckedOf(q)'
    BY DEF Checked
  <1>0. CheckedOf(q)
    BY DEF Checked
  <1>1. CASE UNCHANGED vars
    BY <1>0, <1>1, CheckedFrame DEF vars, localVars
  <1>2. CASE Kernel
    <2>1. cpos' = cpos /\ raw' = raw
      BY <1>2 DEF Kernel, Reserve, Commit, Discard, Finish, localVars
    <2>2. pc'[q] = pc[q] \/ pc'[q] \notin Handling
      BY <1>2 DEF Kernel, Reserve, Commit, Discard, Finish, Handling
    <2> QED
      BY <1>0, <2>1, <2>2, CheckedFrame
  <1>3. CASE \E i \in 1..Len(log), h \in RingbufHeader : Corrupt(i, h)
    BY <1>0, <1>3, CheckedFrame DEF Corrupt, localVars
  <1>4. ASSUME NEW p \in Pollers, Poller(p) PROVE CheckedOf(q)'
    <2>1. CASE ConsumeHeader(p)
      BY <1>0, <2>1, CheckedHeader, CheckedFrame
    <2>2. CASE Poll(p) \/ WaitReady(p) \/ WaitBlock(p) \/ WaitInterrupted(p)
               \/ EndOfScan(p) \/ CallbackReturn(p) \/ StoreAndReturn(p) \/ Crash(p)
      <3>1. cpos' = cpos /\ raw' = raw
        BY <2>2 DEF Poll, WaitReady, WaitBlock, WaitInterrupted, EndOfScan,
                    CallbackReturn, StoreAndReturn, Crash, localVars
      <3>2. pc'[q] = pc[q] \/ pc'[q] \notin Handling
                \/ (pc[q] = "callback" /\ pc'[q] = "advance")
        BY <2>2 DEF Poll, WaitReady, WaitBlock, WaitInterrupted, EndOfScan,
                    CallbackReturn, StoreAndReturn, Crash, Goto, Handling, TypeOK
      <3> QED
        BY <1>0, <3>1, <3>2, CheckedFrame
    <2>3. CASE LoadConsumerPos(p) \/ LoadProducerPos(p) \/ Advance(p)
      <3>1. raw' = raw /\ (q # p => cpos'[q] = cpos[q] /\ pc'[q] = pc[q])
        BY <2>3 DEF LoadConsumerPos, LoadProducerPos, Advance, Goto, TypeOK
      <3>2. pc'[p] \notin Handling
        BY <2>3 DEF LoadConsumerPos, LoadProducerPos, Advance, Goto, Handling, TypeOK
      <3>3. CASE q = p
        BY <3>2, <3>3 DEF CheckedOf, Handling
      <3> QED
        BY <1>0, <3>1, <3>3, CheckedFrame
    <2> QED
      BY <1>4, <2>1, <2>2, <2>3 DEF Poller, PollStep
  <1> QED
    BY <1>1, <1>2, <1>3, <1>4 DEF CorruptNext, Next

LEMMA CheckedInit == Init => TypeOK /\ Checked
  <1>1. Init => TypeOK
    BY LensAssumption, RingAssumption, EmptySeq
    DEF Init, TypeOK, RingbufHeader, PC
  <1>2. Init => Checked
    BY DEF Init, Checked, CheckedOf, Handling
  <1> QED
    BY <1>1, <1>2

\* The slice that consume_ring_records builds lies in the doubly mapped pages,
\* whatever headers say and however many threads poll.
THEOREM SlicesStayInMapping == CorruptSpec => []SliceInMapping
  <1>1. TypeOK /\ Checked => SliceInMapping
    <2> SUFFICES ASSUME Checked, NEW p \in Pollers, pc[p] = "callback"
                 PROVE  Offset(cpos[p]) + BPF_RINGBUF_HDR_SZ + raw[p].len <= 2 * RingSize
      BY DEF SliceInMapping
    <2>1. InMapping(cpos[p], raw[p].len)
      BY DEF Checked, CheckedOf, Handling
    <2> QED
      BY <2>1 DEF InMapping, record_within_mapping
  <1> QED
    BY <1>1, CheckedInit, CorruptType, CheckedStep, PTL DEF CorruptSpec

\* No step moves past a data record that leaves the mapping.
THEOREM NoDataPassedOutOfBounds == CorruptSpec => DataOutOfBoundsNeverPassed
  <1>1. TypeOK /\ Checked /\ [CorruptNext]_vars =>
          [\A p \in Pollers : Passes(p) /\ ~raw[p].discard
              => InMapping(cpos[p], raw[p].len)]_vars
    BY DEF Checked, CheckedOf, Passes, Handling
  <1> QED
    BY <1>1, CheckedInit, CorruptType, CheckedStep, PTL
    DEF CorruptSpec, DataOutOfBoundsNeverPassed
=============================================================================
