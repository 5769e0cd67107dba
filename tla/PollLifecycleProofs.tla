------------------------ MODULE PollLifecycleProofs ------------------------
(***************************************************************************)
(* The resources of poll_ringbuf for any number of threads, descriptors    *)
(* and addresses: a poll keeps what it acquired until it releases it, it   *)
(* releases nothing else, and, where no length overflows, all of it.       *)
(***************************************************************************)
EXTENDS PollLifecycle, TLAPS

\* Where a poll knows the size of its ring and of a page, and where it owns its
\* two mappings and its epoll descriptor.
Sized == PC \ {"idle", "info"}
Paged == Sized \ {"page_size", "sysconf"}
HasEpoll == {"epoll_add", "wait", "consume", "close_epoll"}
HasBoth == HasEpoll \cup {"epoll_create", "unmap_consumer"}
HasConsumer == HasBoth \cup {"map_producer", "undo"}
HasProducer == HasBoth \cup {"unmap_producer"}

\* Table f has this entry at x.
At(f, x, entry) == x \in DOMAIN f /\ f[x] = entry

\* What the poll of p relies on at its place.
Holds(p) ==
    LET l == loc[p] IN
    /\ pc[p] # "idle" => l.map_fd \in DOMAIN fds /\ fds[l.map_fd].owner = App
    /\ pc[p] \in Sized => fds[l.map_fd].size = l.ring_size
    /\ pc[p] \in Paged => l.page_size = PageSize
    /\ pc[p] \in HasConsumer => At(mappings, l.consumer_mapping, [len |-> PageSize, owner |-> p])
    /\ pc[p] \in HasProducer =>
          At(mappings, l.producer_mapping, [len |-> PageSize + 2 * l.ring_size, owner |-> p])
    /\ pc[p] \in HasBoth => l.consumer_mapping # l.producer_mapping
    /\ pc[p] \in HasEpoll => l.epoll_fd \in DOMAIN fds /\ fds[l.epoll_fd].owner = p
    /\ pc[p] \in {"wait", "consume"} => l.map_fd \in fds[l.epoll_fd].watches

\* The inductive invariant.
IndInv == TypeOK /\ \A p \in Callers : Holds(p)

-----------------------------------------------------------------------------
(* What the kernel's operations leave alone.                               *)

LEMMA AppApart == \A p \in Callers : p # App
  BY PollAssumption

LEMMA OpenKeeps ==
    ASSUME NEW fd \in FreeFds, NEW d, Open(fd, d)
    PROVE  /\ DOMAIN fds' = DOMAIN fds \cup {fd} /\ fds'[fd] = d
           /\ \A g \in DOMAIN fds : fds'[g] = fds[g]
  BY DEF Open, FreeFds, With

LEMMA CloseKeeps ==
    ASSUME NEW fd, close_or_warn(fd)
    PROVE  /\ DOMAIN fds' = DOMAIN fds \ {fd}
           /\ \A g \in DOMAIN fds \ {fd} : fds'[g] = fds[g]
  BY DEF close_or_warn, Restrict

LEMMA MapKeeps ==
    ASSUME NEW a, NEW len, NEW p, Map(a, len, p)
    PROVE  /\ a \notin DOMAIN mappings
           /\ DOMAIN mappings' = DOMAIN mappings \cup {a}
           /\ mappings'[a] = [len |-> len, owner |-> p]
           /\ \A b \in DOMAIN mappings : mappings'[b] = mappings[b]
  BY DEF Map, FreeAddrs, With

LEMMA UnmapKeeps ==
    ASSUME NEW a \in DOMAIN mappings, NEW len \in Nat, mappings[a].len = len, munmap_or_warn(a, len)
    PROVE  /\ DOMAIN mappings' \subseteq DOMAIN mappings /\ DOMAIN mappings \ {a} \subseteq DOMAIN mappings'
           /\ \A b \in DOMAIN mappings' : mappings'[b] = mappings[b]
           /\ warned \subseteq warned' /\ warned' \subseteq warned \cup {a}
           /\ a \in DOMAIN mappings' => a \in warned'
  <1>1. CASE UNCHANGED mappings /\ warned' = warned \cup {a}
    BY <1>1
  <1>2. CASE mappings' = Without(a, len) /\ UNCHANGED warned
    <2>1. ~(mappings[a].len > len)
      OBVIOUS
    <2>2. mappings' = [b \in DOMAIN mappings \ {a} |-> mappings[b]]
      BY <1>2, <2>1 DEF Without, Restrict
    <2> QED
      BY <1>2, <2>2
  <1> QED
    BY <1>1, <1>2 DEF munmap_or_warn

-----------------------------------------------------------------------------
\* A step keeps what q relies on in the two tables.
Keeps(q) ==
    /\ \A fd \in DOMAIN fds :
          fds[fd].owner = q \/ (fds[fd].owner = App /\ fd = loc[q].map_fd) =>
              fd \in DOMAIN fds' /\ fds'[fd] = fds[fd]
    /\ \A a \in DOMAIN mappings : mappings[a].owner = q =>
              a \in DOMAIN mappings' /\ mappings'[a] = mappings[a]

\* No step of p changes another poll or what it relies on.
Spares(p) == \A q \in Callers \ {p} : pc'[q] = pc[q] /\ loc'[q] = loc[q] /\ Keeps(q)

LEMMA HoldsFrame ==
    ASSUME NEW q \in Callers, Holds(q), pc'[q] = pc[q], loc'[q] = loc[q], Keeps(q)
    PROVE  Holds(q)'
  <1>1. pc[q] # "idle" => loc[q].map_fd \in DOMAIN fds' /\ fds'[loc[q].map_fd] = fds[loc[q].map_fd]
    BY DEF Holds, Keeps
  <1>2. pc[q] \in HasEpoll => loc[q].epoll_fd \in DOMAIN fds' /\ fds'[loc[q].epoll_fd] = fds[loc[q].epoll_fd]
    BY DEF Holds, Keeps
  <1>3. /\ pc[q] \in HasConsumer => At(mappings', loc[q].consumer_mapping, [len |-> PageSize, owner |-> q])
        /\ pc[q] \in HasProducer =>
              At(mappings', loc[q].producer_mapping, [len |-> PageSize + 2 * loc[q].ring_size, owner |-> q])
    BY DEF Holds, Keeps, At
  <1>4. "idle" \notin Sized /\ {"wait", "consume"} \subseteq HasEpoll
    BY DEF Sized, HasEpoll
  <1> QED
    BY <1>1, <1>2, <1>3, <1>4 DEF Holds, At

LEMMA InitOK == Init => IndInv
  <1> SUFFICES ASSUME Init PROVE IndInv
    OBVIOUS
  <1>1. DOMAIN <<>> = {}
    OBVIOUS
  <1>2. TypeOK
    BY <1>1 DEF Init, TypeOK, PC, Locals, NoLocals, Range
  <1>3. \A p \in Callers : pc[p] = "idle"
    BY DEF Init
  <1>4. "idle" \notin Sized \cup Paged \cup HasConsumer \cup HasProducer \cup HasBoth \cup HasEpoll
    BY DEF Sized, Paged, HasConsumer, HasProducer, HasBoth, HasEpoll
  <1> QED
    BY <1>2, <1>3, <1>4 DEF IndInv, Holds

\* At idle a poll relies on nothing.
LEMMA HoldsIdle == ASSUME NEW p, pc'[p] = "idle" PROVE Holds(p)'
  BY DEF Holds, Sized, Paged, HasConsumer, HasProducer, HasBoth, HasEpoll

LEMMA ReturnStep ==
    ASSUME TypeOK, NEW p \in Callers, Return(p)
    PROVE  /\ pc'[p] = "idle" /\ pc[p] \in PC /\ loc'[p] = NoLocals
           /\ \A q \in Callers \ {p} : pc'[q] = pc[q] /\ loc'[q] = loc[q]
           /\ pc' \in [Callers -> PC] /\ loc' \in [Callers -> Locals]
  BY DEF Return, Goto, TypeOK, PC, Locals, NoLocals

\* Steps that change neither table.
LEMMA QuietKeeps == ASSUME NEW q, UNCHANGED <<fds, mappings>> PROVE Keeps(q)
  BY DEF Keeps
LEMMA FailStep ==
    ASSUME IndInv, NEW p \in Callers, Fail(p) PROVE TypeOK' /\ Holds(p)' /\ Spares(p)
  BY ReturnStep, HoldsIdle, QuietKeeps DEF Fail, IndInv, TypeOK, Spares

\* The steps before anything is acquired, and those of the wait.
LEMMA PollStep ==
    ASSUME IndInv, NEW p \in Callers, Poll(p) PROVE TypeOK' /\ Holds(p)' /\ Spares(p)
  <1>1. PICK fd \in DOMAIN fds : fds[fd].owner = App /\ SetLocal(p, "map_fd", fd)
    BY DEF Poll
  <1>2. pc' = [pc EXCEPT ![p] = "info"] /\ UNCHANGED <<fds, mappings, warned, CACHE>>
    BY DEF Poll, Goto
  <1>3. loc' \in [Callers -> Locals] /\ loc'[p].map_fd = fd /\ \A q \in Callers \ {p} : loc'[q] = loc[q]
    BY <1>1 DEF IndInv, TypeOK, SetLocal, Locals
  <1>4. pc' \in [Callers -> PC] /\ pc'[p] = "info" /\ \A q \in Callers \ {p} : pc'[q] = pc[q]
    BY <1>2 DEF IndInv, TypeOK, PC
  <1>5. TypeOK'
    BY <1>2, <1>3, <1>4 DEF IndInv, TypeOK
  <1>6. Holds(p)'
    BY <1>1, <1>2, <1>3, <1>4 DEF Holds, Sized, Paged, HasConsumer, HasProducer, HasBoth, HasEpoll
  <1> QED
    BY <1>2, <1>3, <1>4, <1>5, <1>6, QuietKeeps DEF Spares

LEMMA InfoStep ==
    ASSUME IndInv, NEW p \in Callers, map_info(p) PROVE TypeOK' /\ Holds(p)' /\ Spares(p)
  <1>1. CASE Fail(p)
    BY <1>1, FailStep
  <1>2. CASE ~Fail(p)
    <2>1. /\ SetLocal(p, "ring_size", fds[loc[p].map_fd].size) /\ pc[p] = "info"
          /\ pc' = [pc EXCEPT ![p] = "page_size"] /\ UNCHANGED <<fds, mappings, warned, CACHE>>
      BY <1>2 DEF map_info, Goto
    <2>2. loc[p].map_fd \in DOMAIN fds /\ fds[loc[p].map_fd].owner = App
      BY <2>1 DEF IndInv, Holds
    <2>3. fds[loc[p].map_fd].size \in Sizes \cup {0}
      BY <2>2 DEF IndInv, TypeOK, Range, Descriptor
    <2>4. /\ loc' \in [Callers -> Locals] /\ loc'[p].map_fd = loc[p].map_fd
          /\ loc'[p].ring_size = fds[loc[p].map_fd].size
          /\ \A q \in Callers \ {p} : loc'[q] = loc[q]
      BY <2>1, <2>3 DEF IndInv, TypeOK, SetLocal, Locals
    <2>5. pc' \in [Callers -> PC] /\ pc'[p] = "page_size" /\ \A q \in Callers \ {p} : pc'[q] = pc[q]
      BY <2>1 DEF IndInv, TypeOK, PC
    <2>6. TypeOK'
      BY <2>1, <2>4, <2>5 DEF IndInv, TypeOK
    <2>7. Holds(p)'
      BY <2>1, <2>2, <2>4, <2>5 DEF Holds, Sized, Paged, HasConsumer, HasProducer, HasBoth, HasEpoll
    <2> QED
      BY <2>1, <2>4, <2>5, <2>6, <2>7, QuietKeeps DEF Spares
  <1> QED
    BY <1>1, <1>2

LEMMA PageSizeStep ==
    ASSUME IndInv, NEW p \in Callers, page_size(p) \/ sysconf(p)
    PROVE  TypeOK' /\ Holds(p)' /\ Spares(p)
  <1>1. CASE Fail(p)
    BY <1>1, FailStep
  <1>2. CASE ~Fail(p)
    <2>1. /\ UNCHANGED <<fds, mappings, warned>> /\ CACHE' \in {0, PageSize}
          /\ pc[p] \in {"page_size", "sysconf"}
      BY <1>2 DEF page_size, sysconf, IndInv, TypeOK
    <2>2. /\ loc[p].map_fd \in DOMAIN fds /\ fds[loc[p].map_fd].owner = App
          /\ fds[loc[p].map_fd].size = loc[p].ring_size
      BY <2>1 DEF IndInv, Holds, Sized, PC
    <2>3. CASE Return(p)
      BY <2>1, <2>3, ReturnStep, HoldsIdle, QuietKeeps DEF IndInv, TypeOK, Spares
    <2>4. CASE SetLocal(p, "page_size", PageSize) /\ Goto(p, "map_consumer")
      <3>1. /\ loc' \in [Callers -> Locals] /\ loc'[p].map_fd = loc[p].map_fd
            /\ loc'[p].ring_size = loc[p].ring_size /\ loc'[p].page_size = PageSize
            /\ \A q \in Callers \ {p} : loc'[q] = loc[q]
        BY <2>4 DEF IndInv, TypeOK, SetLocal, Locals
      <3>2. pc' \in [Callers -> PC] /\ pc'[p] = "map_consumer" /\ \A q \in Callers \ {p} : pc'[q] = pc[q]
        BY <2>4 DEF IndInv, TypeOK, PC, Goto
      <3>3. TypeOK'
        BY <2>1, <3>1, <3>2 DEF IndInv, TypeOK
      <3>4. Holds(p)'
        BY <2>1, <2>2, <3>1, <3>2 DEF Holds, Sized, Paged, HasConsumer, HasProducer, HasBoth, HasEpoll
      <3> QED
        BY <2>1, <3>1, <3>2, <3>3, <3>4, QuietKeeps DEF Spares
    <2>5. CASE Goto(p, "sysconf") /\ UNCHANGED loc
      <3>1. pc' \in [Callers -> PC] /\ pc'[p] = "sysconf" /\ \A q \in Callers \ {p} : pc'[q] = pc[q]
        BY <2>5 DEF IndInv, TypeOK, PC, Goto
      <3>2. TypeOK'
        BY <2>1, <2>5, <3>1 DEF IndInv, TypeOK
      <3>3. Holds(p)'
        BY <2>1, <2>2, <2>5, <3>1 DEF Holds, Sized, Paged, HasConsumer, HasProducer, HasBoth, HasEpoll
      <3> QED
        BY <2>1, <2>5, <3>1, <3>2, <3>3, QuietKeeps DEF Spares
    <2> QED
      BY <1>2, <2>3, <2>4, <2>5 DEF page_size, sysconf, HavePageSize, IndInv, TypeOK
  <1> QED
    BY <1>1, <1>2

LEMMA WaitStep ==
    ASSUME IndInv, NEW p \in Callers, Wait(p) \/ Consume(p) PROVE TypeOK' /\ Holds(p)' /\ Spares(p)
  <1>1. /\ UNCHANGED <<fds, mappings, warned, CACHE, loc>>
        /\ pc[p] \in {"wait", "consume"} /\ pc'[p] \in {"consume", "close_epoll"}
        /\ pc' \in [Callers -> PC] /\ \A q \in Callers \ {p} : pc'[q] = pc[q]
    BY DEF Wait, Consume, Goto, IndInv, TypeOK, PC
  <1>2. TypeOK'
    BY <1>1 DEF IndInv, TypeOK
  <1>3. Holds(p)'
    BY <1>1 DEF IndInv, Holds, PC, Sized, Paged, HasConsumer, HasProducer, HasBoth, HasEpoll
  <1> QED
    BY <1>1, <1>2, <1>3, QuietKeeps DEF Spares

\* The type of the mappings, as a property of each of them.
MappingsOK == DOMAIN mappings \subseteq Addrs /\ \A a \in DOMAIN mappings : mappings[a] \in Mapping
FdsOK == DOMAIN fds \subseteq Fds /\ \A fd \in DOMAIN fds : fds[fd] \in Descriptor
LEMMA TypeSplit ==
    TypeOK <=> /\ FdsOK /\ MappingsOK /\ warned \subseteq Addrs /\ CACHE \in {0, PageSize}
               /\ pc \in [Callers -> PC] /\ loc \in [Callers -> Locals]
  BY DEF TypeOK, FdsOK, MappingsOK, Range

LEMMA TypeJoin ==
    ASSUME FdsOK', MappingsOK', warned' \subseteq Addrs, CACHE' \in {0, PageSize},
           pc' \in [Callers -> PC], loc' \in [Callers -> Locals]
    PROVE  TypeOK'
  BY DEF TypeOK, FdsOK, MappingsOK, Range

LEMMA Lengths ==
    ASSUME IndInv, NEW p \in Callers, pc[p] \in Paged
    PROVE  /\ loc[p].page_size = PageSize /\ PageSize \in Nat /\ loc[p].ring_size \in Nat
           /\ mapping_len(p) = PageSize + 2 * loc[p].ring_size /\ mapping_len(p) \in Nat
  <1>0. loc[p].ring_size \in Sizes \cup {0}
    BY DEF IndInv, TypeOK, Locals
  <1>1. PageSize \in Nat /\ Sizes \subseteq Nat
    BY PollAssumption
  <1>2. loc[p].ring_size \in Nat
    <2>1. loc[p].ring_size \in Sizes => loc[p].ring_size \in Nat
      BY <1>1, Zenon
    <2>2. loc[p].ring_size = 0 => loc[p].ring_size \in Nat
      OBVIOUS
    <2> QED
      BY <1>0, <2>1, <2>2, Zenon
  <1>3. loc[p].page_size = PageSize
    BY DEF IndInv, Holds
  <1> QED
    BY <1>1, <1>2, <1>3 DEF mapping_len

LEMMA MapStep ==
    ASSUME IndInv, NEW p \in Callers, NEW len \in Nat, NEW a, Map(a, len, p), UNCHANGED fds
    PROVE  /\ a \in Addrs /\ MappingsOK' /\ \A q \in Callers : Keeps(q)
           /\ At(mappings', a, [len |-> len, owner |-> p])
           /\ \A b \in DOMAIN mappings : b # a /\ At(mappings', b, mappings[b])
  <1>1. a \in Addrs
    BY DEF Map, FreeAddrs
  <1>2. /\ a \notin DOMAIN mappings /\ DOMAIN mappings' = DOMAIN mappings \cup {a}
        /\ mappings'[a] = [len |-> len, owner |-> p]
        /\ \A b \in DOMAIN mappings : mappings'[b] = mappings[b]
    BY MapKeeps
  <1>3. MappingsOK'
    BY <1>1, <1>2, TypeSplit DEF IndInv, MappingsOK, Mapping
  <1> QED
    BY <1>1, <1>2, <1>3 DEF Keeps, At

\* RingbufConsumer::new.
LEMMA MapConsumerStep ==
    ASSUME IndInv, NEW p \in Callers, MapConsumer(p) PROVE TypeOK' /\ Holds(p)' /\ Spares(p)
  <1>1. CASE Fail(p)
    BY <1>1, FailStep
  <1>2. CASE ~Fail(p)
    <2>0. pc[p] = "map_consumer" /\ pc[p] \in Paged /\ UNCHANGED <<fds, warned, CACHE>>
      BY <1>2 DEF MapConsumer, Paged, Sized, PC
    <2>1. PICK a \in FreeAddrs :
             /\ Map(a, PageSize, p)
             /\ IF mapping_len(p) > UsizeMax
                  THEN Return(p)
                  ELSE SetLocal(p, "consumer_mapping", a) /\ Goto(p, "map_producer")
      BY <1>2, <2>0, Lengths DEF MapConsumer
    <2>2. /\ a \in Addrs /\ MappingsOK' /\ \A q \in Callers : Keeps(q)
          /\ At(mappings', a, [len |-> PageSize, owner |-> p])
      BY <2>0, <2>1, MapStep, Lengths
    <2>3. CASE Return(p)
      <3>1. TypeOK'
        BY <2>0, <2>2, <2>3, ReturnStep, TypeSplit, TypeJoin DEF IndInv, FdsOK
      <3> QED
        BY <2>2, <2>3, <3>1, ReturnStep, HoldsIdle DEF IndInv, Spares
    <2>4. CASE SetLocal(p, "consumer_mapping", a) /\ Goto(p, "map_producer")
      <3>1. /\ loc' \in [Callers -> Locals] /\ loc'[p].map_fd = loc[p].map_fd
            /\ loc'[p].ring_size = loc[p].ring_size /\ loc'[p].page_size = loc[p].page_size
            /\ loc'[p].consumer_mapping = a
            /\ \A q \in Callers \ {p} : loc'[q] = loc[q]
        BY <2>2, <2>4 DEF IndInv, TypeOK, SetLocal, Locals
      <3>2. pc' \in [Callers -> PC] /\ pc'[p] = "map_producer" /\ \A q \in Callers \ {p} : pc'[q] = pc[q]
        BY <2>4 DEF IndInv, TypeOK, PC, Goto
      <3>3. TypeOK'
        BY <2>0, <2>2, <3>1, <3>2, TypeSplit, TypeJoin DEF IndInv, FdsOK
      <3>4. Holds(p)'
        BY <2>0, <2>2, <3>1, <3>2
           DEF IndInv, Holds, PC, Sized, Paged, HasConsumer, HasProducer, HasBoth, HasEpoll
      <3> QED
        BY <2>2, <3>1, <3>2, <3>3, <3>4 DEF Spares
    <2> QED
      BY <2>1, <2>3, <2>4
  <1> QED
    BY <1>1, <1>2

LEMMA MapProducerStep ==
    ASSUME IndInv, NEW p \in Callers, MapProducer(p) PROVE TypeOK' /\ Holds(p)' /\ Spares(p)
  <1>1. pc[p] = "map_producer" /\ pc[p] \in Paged /\ UNCHANGED <<fds, warned, CACHE>>
    BY DEF MapProducer, Paged, Sized, PC
  <1>2. CASE Goto(p, "undo") /\ UNCHANGED <<mappings, loc>>
    <2>1. pc' \in [Callers -> PC] /\ pc'[p] = "undo" /\ \A q \in Callers \ {p} : pc'[q] = pc[q]
      BY <1>2 DEF IndInv, TypeOK, PC, Goto
    <2>2. TypeOK'
      BY <1>1, <1>2, <2>1 DEF IndInv, TypeOK
    <2>3. Holds(p)'
      BY <1>1, <1>2, <2>1
         DEF IndInv, Holds, PC, Sized, Paged, HasConsumer, HasProducer, HasBoth, HasEpoll
    <2> QED
      BY <1>1, <1>2, <2>1, <2>2, <2>3, QuietKeeps DEF Spares
  <1>3. CASE ~(Goto(p, "undo") /\ UNCHANGED <<mappings, loc>>)
    <2>1. PICK a \in FreeAddrs : Map(a, mapping_len(p), p) /\ SetLocal(p, "producer_mapping", a)
      BY <1>3 DEF MapProducer
    <2>2. Goto(p, "epoll_create")
      BY <1>3 DEF MapProducer
    <2>3. /\ a \in Addrs /\ MappingsOK' /\ \A q \in Callers : Keeps(q)
          /\ At(mappings', a, [len |-> PageSize + 2 * loc[p].ring_size, owner |-> p])
          /\ \A b \in DOMAIN mappings : b # a /\ At(mappings', b, mappings[b])
      BY <1>1, <2>1, MapStep, Lengths
    <2>4. /\ loc' \in [Callers -> Locals] /\ loc'[p].map_fd = loc[p].map_fd
          /\ loc'[p].ring_size = loc[p].ring_size /\ loc'[p].page_size = loc[p].page_size
          /\ loc'[p].consumer_mapping = loc[p].consumer_mapping /\ loc'[p].producer_mapping = a
          /\ \A q \in Callers \ {p} : loc'[q] = loc[q]
      BY <2>1, <2>3 DEF IndInv, TypeOK, SetLocal, Locals
    <2>5. pc' \in [Callers -> PC] /\ pc'[p] = "epoll_create" /\ \A q \in Callers \ {p} : pc'[q] = pc[q]
      BY <2>2 DEF IndInv, TypeOK, PC, Goto
    <2>6. TypeOK'
      BY <1>1, <2>3, <2>4, <2>5, TypeSplit, TypeJoin DEF IndInv, FdsOK
    <2>7. At(mappings, loc[p].consumer_mapping, [len |-> PageSize, owner |-> p])
      BY <1>1 DEF IndInv, Holds, HasConsumer
    <2>8. loc[p].consumer_mapping # a
          /\ At(mappings', loc[p].consumer_mapping, [len |-> PageSize, owner |-> p])
      BY <2>3, <2>7 DEF At
    <2>9. Holds(p)'
      BY <1>1, <2>3, <2>4, <2>5, <2>8
         DEF IndInv, Holds, PC, Sized, Paged, HasConsumer, HasProducer, HasBoth, HasEpoll
    <2> QED
      BY <2>3, <2>4, <2>5, <2>6, <2>9 DEF Spares
  <1> QED
    BY <1>2, <1>3

LEMMA UnmapStep ==
    ASSUME IndInv, NEW p \in Callers, NEW len \in Nat, NEW a,
           At(mappings, a, [len |-> len, owner |-> p]), munmap_or_warn(a, len), UNCHANGED fds
    PROVE  /\ MappingsOK' /\ warned' \subseteq Addrs
           /\ \A q \in Callers \ {p} : Keeps(q)
           /\ \A b \in DOMAIN mappings \ {a} : At(mappings', b, mappings[b])
  <1>1. a \in DOMAIN mappings /\ mappings[a].len = len /\ mappings[a].owner = p
    BY DEF At
  <1>2. /\ DOMAIN mappings' \subseteq DOMAIN mappings /\ DOMAIN mappings \ {a} \subseteq DOMAIN mappings'
        /\ \A b \in DOMAIN mappings' : mappings'[b] = mappings[b]
        /\ warned' \subseteq warned \cup {a}
    BY <1>1, UnmapKeeps
  <1>3. MappingsOK' /\ warned' \subseteq Addrs
    BY <1>1, <1>2, TypeSplit DEF IndInv, MappingsOK
  <1> QED
    BY <1>1, <1>2, <1>3 DEF Keeps, At

LEMMA UndoStep ==
    ASSUME IndInv, NEW p \in Callers, Undo(p) PROVE TypeOK' /\ Holds(p)' /\ Spares(p)
  <1>1. /\ pc[p] = "undo" /\ pc[p] \in Paged /\ pc[p] \in HasConsumer /\ Return(p)
        /\ UNCHANGED <<fds, CACHE>>
    BY DEF Undo, Paged, Sized, PC, HasConsumer
  <1>2. /\ At(mappings, loc[p].consumer_mapping, [len |-> PageSize, owner |-> p])
        /\ munmap_or_warn(loc[p].consumer_mapping, PageSize) /\ PageSize \in Nat
    BY <1>1, Lengths DEF IndInv, Holds, Undo
  <1>3. MappingsOK' /\ warned' \subseteq Addrs /\ \A q \in Callers \ {p} : Keeps(q)
    BY <1>1, <1>2, UnmapStep
  <1>4. TypeOK'
    BY <1>1, <1>3, ReturnStep, TypeSplit, TypeJoin DEF IndInv, FdsOK
  <1> QED
    BY <1>1, <1>3, <1>4, ReturnStep, HoldsIdle DEF IndInv, Spares

\* Drop of RingbufConsumer.
LEMMA UnmapConsumerStep ==
    ASSUME IndInv, NEW p \in Callers, UnmapConsumer(p) PROVE TypeOK' /\ Holds(p)' /\ Spares(p)
  <1>1. /\ pc[p] = "unmap_consumer" /\ pc[p] \in Paged \cap HasConsumer \cap HasProducer \cap HasBoth
        /\ pc[p] \in Sized /\ UNCHANGED <<fds, CACHE, loc>>
    BY DEF UnmapConsumer, Paged, Sized, PC, HasConsumer, HasProducer, HasBoth
  <1>2. /\ At(mappings, loc[p].consumer_mapping, [len |-> PageSize, owner |-> p])
        /\ munmap_or_warn(loc[p].consumer_mapping, PageSize) /\ PageSize \in Nat
    BY <1>1, Lengths DEF IndInv, Holds, UnmapConsumer
  <1>3. /\ MappingsOK' /\ warned' \subseteq Addrs /\ \A q \in Callers \ {p} : Keeps(q)
        /\ \A b \in DOMAIN mappings \ {loc[p].consumer_mapping} : At(mappings', b, mappings[b])
    BY <1>1, <1>2, UnmapStep
  <1>4. At(mappings', loc[p].producer_mapping, [len |-> PageSize + 2 * loc[p].ring_size, owner |-> p])
    BY <1>1, <1>3 DEF IndInv, Holds, At
  <1>5. /\ pc' \in [Callers -> PC] /\ pc'[p] = "unmap_producer"
        /\ \A q \in Callers \ {p} : pc'[q] = pc[q]
    BY DEF UnmapConsumer, IndInv, TypeOK, PC, Goto
  <1>6. TypeOK'
    BY <1>1, <1>3, <1>5, TypeSplit, TypeJoin DEF IndInv, FdsOK
  <1>7. Holds(p)'
    BY <1>1, <1>4, <1>5 DEF IndInv, Holds, PC, Sized, Paged, HasConsumer, HasProducer, HasBoth, HasEpoll
  <1> QED
    BY <1>1, <1>3, <1>5, <1>6, <1>7 DEF Spares

LEMMA UnmapProducerStep ==
    ASSUME IndInv, NEW p \in Callers, UnmapProducer(p) PROVE TypeOK' /\ Holds(p)' /\ Spares(p)
  <1>1. /\ pc[p] = "unmap_producer" /\ pc[p] \in Paged /\ pc[p] \in HasProducer /\ Return(p)
        /\ UNCHANGED <<fds, CACHE>>
    BY DEF UnmapProducer, Paged, Sized, PC, HasProducer
  <1>2. /\ At(mappings, loc[p].producer_mapping, [len |-> mapping_len(p), owner |-> p])
        /\ munmap_or_warn(loc[p].producer_mapping, mapping_len(p)) /\ mapping_len(p) \in Nat
    BY <1>1, Lengths DEF IndInv, Holds, UnmapProducer
  <1>3. MappingsOK' /\ warned' \subseteq Addrs /\ \A q \in Callers \ {p} : Keeps(q)
    BY <1>1, <1>2, UnmapStep
  <1>4. TypeOK'
    BY <1>1, <1>3, ReturnStep, TypeSplit, TypeJoin DEF IndInv, FdsOK
  <1> QED
    BY <1>1, <1>3, <1>4, ReturnStep, HoldsIdle DEF IndInv, Spares

\* A new descriptor disturbs no poll.
LEMMA NewFdStep ==
    ASSUME IndInv, NEW fd \in FreeFds, NEW d \in Descriptor, Open(fd, d), UNCHANGED mappings
    PROVE  /\ FdsOK' /\ \A q \in Callers : Keeps(q)
           /\ fd \in Fds /\ At(fds', fd, d)
           /\ \A g \in DOMAIN fds : g # fd /\ At(fds', g, fds[g])
  <1>1. fd \in Fds /\ fd \notin DOMAIN fds
    BY DEF FreeFds
  <1>2. /\ DOMAIN fds' = DOMAIN fds \cup {fd} /\ fds'[fd] = d
        /\ \A g \in DOMAIN fds : fds'[g] = fds[g]
    BY OpenKeeps
  <1>3. FdsOK'
    BY <1>1, <1>2, TypeSplit DEF IndInv, FdsOK
  <1> QED
    BY <1>1, <1>2, <1>3 DEF Keeps, At

LEMMA EpollCreateStep ==
    ASSUME IndInv, NEW p \in Callers, EpollCreate(p) PROVE TypeOK' /\ Holds(p)' /\ Spares(p)
  <1>1. /\ pc[p] = "epoll_create" /\ UNCHANGED <<mappings, warned, CACHE>>
        /\ pc[p] \in Paged \cap HasConsumer \cap HasProducer \cap HasBoth \cap Sized
    BY DEF EpollCreate, Paged, Sized, PC, HasConsumer, HasProducer, HasBoth
  <1>2. CASE Goto(p, "unmap_consumer") /\ UNCHANGED <<fds, loc>>
    <2>1. pc' \in [Callers -> PC] /\ pc'[p] = "unmap_consumer" /\ \A q \in Callers \ {p} : pc'[q] = pc[q]
      BY <1>2 DEF IndInv, TypeOK, PC, Goto
    <2>2. TypeOK'
      BY <1>1, <1>2, <2>1 DEF IndInv, TypeOK
    <2>3. Holds(p)'
      BY <1>1, <1>2, <2>1
         DEF IndInv, Holds, At, PC, Sized, Paged, HasConsumer, HasProducer, HasBoth, HasEpoll
    <2> QED
      BY <1>1, <1>2, <2>1, <2>2, <2>3, QuietKeeps DEF Spares
  <1>3. CASE ~(Goto(p, "unmap_consumer") /\ UNCHANGED <<fds, loc>>)
    <2> DEFINE d == [kind |-> "epoll", owner |-> p, size |-> 0, watches |-> {}]
    <2>1. PICK fd \in FreeFds : Open(fd, d) /\ SetLocal(p, "epoll_fd", fd)
      BY <1>3 DEF EpollCreate
    <2>2. Goto(p, "epoll_add")
      BY <1>3 DEF EpollCreate
    <2>3. d \in Descriptor
      BY DEF Descriptor
    <2>4. /\ FdsOK' /\ \A q \in Callers : Keeps(q)
          /\ fd \in Fds /\ At(fds', fd, d)
          /\ \A g \in DOMAIN fds : g # fd /\ At(fds', g, fds[g])
      BY <1>1, <2>1, <2>3, NewFdStep
    <2>5. /\ loc' \in [Callers -> Locals] /\ loc'[p].map_fd = loc[p].map_fd
          /\ loc'[p].ring_size = loc[p].ring_size /\ loc'[p].page_size = loc[p].page_size
          /\ loc'[p].consumer_mapping = loc[p].consumer_mapping
          /\ loc'[p].producer_mapping = loc[p].producer_mapping
          /\ loc'[p].epoll_fd = fd
          /\ \A q \in Callers \ {p} : loc'[q] = loc[q]
      BY <2>1, <2>4 DEF IndInv, TypeOK, SetLocal, Locals
    <2>6. pc' \in [Callers -> PC] /\ pc'[p] = "epoll_add" /\ \A q \in Callers \ {p} : pc'[q] = pc[q]
      BY <2>2 DEF IndInv, TypeOK, PC, Goto
    <2>7. TypeOK'
      BY <1>1, <2>4, <2>5, <2>6, TypeSplit, TypeJoin DEF IndInv, MappingsOK
    <2>8. loc[p].map_fd \in DOMAIN fds /\ At(fds', loc[p].map_fd, fds[loc[p].map_fd])
      BY <1>1, <2>4 DEF IndInv, Holds
    <2>9. fd \in DOMAIN fds' /\ fds'[fd].owner = p
      <3>1. At(fds', fd, d)
        BY <2>4
      <3>2. fd \in DOMAIN fds' /\ fds'[fd] = d
        BY <3>1 DEF At
      <3>3. d.owner = p
        OBVIOUS
      <3> QED
        BY <3>2, <3>3
    <2>10. Holds(p)'
      BY <1>1, <2>5, <2>6, <2>8, <2>9
         DEF IndInv, Holds, At, PC, Sized, Paged, HasConsumer, HasProducer, HasBoth, HasEpoll
    <2> QED
      BY <2>4, <2>5, <2>6, <2>7, <2>10 DEF Spares
  <1> QED
    BY <1>2, <1>3

LEMMA EpollAddStep ==
    ASSUME IndInv, NEW p \in Callers, EpollAdd(p) PROVE TypeOK' /\ Holds(p)' /\ Spares(p)
  <1>1. /\ pc[p] = "epoll_add" /\ UNCHANGED <<mappings, warned, CACHE, loc>>
        /\ pc[p] \in Paged \cap HasConsumer \cap HasProducer \cap HasBoth \cap Sized \cap HasEpoll
    BY DEF EpollAdd, Paged, Sized, PC, HasConsumer, HasProducer, HasBoth, HasEpoll
  <1>2. pc' \in [Callers -> PC] /\ pc'[p] \in {"close_epoll", "wait"} /\ \A q \in Callers \ {p} : pc'[q] = pc[q]
    BY DEF EpollAdd, IndInv, TypeOK, PC, Goto
  <1>3. CASE UNCHANGED fds /\ pc'[p] = "close_epoll"
    <2>1. TypeOK'
      BY <1>1, <1>2, <1>3 DEF IndInv, TypeOK
    <2>2. Holds(p)'
      BY <1>1, <1>3
         DEF IndInv, Holds, At, PC, Sized, Paged, HasConsumer, HasProducer, HasBoth, HasEpoll
    <2> QED
      BY <1>1, <1>2, <1>3, <2>1, <2>2, QuietKeeps DEF Spares
  <1>4. CASE Watch(p) /\ pc'[p] = "wait"
    <2> DEFINE e == loc[p].epoll_fd
    <2> DEFINE m == loc[p].map_fd
    <2>1. /\ e \in DOMAIN fds /\ m \in DOMAIN fds /\ fds[e].owner = p /\ fds[m].owner = App
          /\ fds[m].size = loc[p].ring_size /\ e # m
      <3>1. pc[p] # "idle" /\ Holds(p)
        BY <1>1 DEF IndInv
      <3> QED
        BY <1>1, <3>1, AppApart DEF Holds
    <2>2. FdsOK
      BY TypeSplit DEF IndInv
    <2>3. /\ DOMAIN fds' = DOMAIN fds /\ \A g \in DOMAIN fds \ {e} : fds'[g] = fds[g]
          /\ fds'[e] = [fds[e] EXCEPT !.watches = @ \cup {m}]
      BY <1>4, <2>1 DEF Watch
    <2>4. fds'[e] \in Descriptor /\ fds'[e].owner = p /\ m \in fds'[e].watches
      BY <2>1, <2>2, <2>3 DEF FdsOK, Descriptor
    <2>5. FdsOK'
      BY <2>2, <2>3, <2>4 DEF FdsOK
    <2>6. TypeOK'
      BY <1>1, <1>2, <2>5, TypeSplit, TypeJoin DEF IndInv, MappingsOK
    <2>7. Holds(p)'
      BY <1>1, <1>4, <2>1, <2>3, <2>4
         DEF IndInv, Holds, At, PC, Sized, Paged, HasConsumer, HasProducer, HasBoth, HasEpoll
    <2>8. \A q \in Callers \ {p} : Keeps(q)
      BY <1>1, <2>1, <2>3, AppApart DEF Keeps
    <2> QED
      BY <1>1, <1>2, <2>6, <2>7, <2>8 DEF Spares
  <1> QED
    BY <1>3, <1>4 DEF EpollAdd, Goto, IndInv, TypeOK

LEMMA CloseEpollStep ==
    ASSUME IndInv, NEW p \in Callers, CloseEpoll(p) PROVE TypeOK' /\ Holds(p)' /\ Spares(p)
  <1> DEFINE e == loc[p].epoll_fd
  <1>1. /\ pc[p] = "close_epoll" /\ UNCHANGED <<mappings, warned, CACHE, loc>>
        /\ pc[p] \in Paged \cap HasConsumer \cap HasProducer \cap HasBoth \cap Sized \cap HasEpoll
    BY DEF CloseEpoll, Paged, Sized, PC, HasConsumer, HasProducer, HasBoth, HasEpoll
  <1>2. /\ e \in DOMAIN fds /\ fds[e].owner = p /\ loc[p].map_fd \in DOMAIN fds \ {e}
    <2>1. pc[p] # "idle" /\ Holds(p)
      BY <1>1 DEF IndInv
    <2> QED
      BY <1>1, <2>1, AppApart DEF Holds
  <1>3. DOMAIN fds' = DOMAIN fds \ {e} /\ \A g \in DOMAIN fds \ {e} : fds'[g] = fds[g]
    BY CloseKeeps DEF CloseEpoll
  <1>4. FdsOK'
    BY <1>3, TypeSplit DEF IndInv, FdsOK
  <1>5. pc' \in [Callers -> PC] /\ pc'[p] = "unmap_consumer" /\ \A q \in Callers \ {p} : pc'[q] = pc[q]
    BY DEF CloseEpoll, IndInv, TypeOK, PC, Goto
  <1>6. TypeOK'
    BY <1>1, <1>4, <1>5, TypeSplit, TypeJoin DEF IndInv, MappingsOK
  <1>7. Holds(p)'
    BY <1>1, <1>2, <1>3, <1>5
       DEF IndInv, Holds, At, PC, Sized, Paged, HasConsumer, HasProducer, HasBoth, HasEpoll
  <1>8. \A q \in Callers \ {p} : Keeps(q)
    BY <1>1, <1>2, <1>3, AppApart DEF Keeps
  <1> QED
    BY <1>1, <1>5, <1>6, <1>7, <1>8 DEF Spares

LEMMA PollerStep ==
    ASSUME IndInv, NEW p \in Callers, Poller(p) PROVE TypeOK' /\ Holds(p)' /\ Spares(p)
  BY PollStep, InfoStep, PageSizeStep, MapConsumerStep, MapProducerStep, UndoStep, EpollCreateStep,
     EpollAddStep, WaitStep, CloseEpollStep, UnmapConsumerStep, UnmapProducerStep DEF Poller

\* The application opens descriptors, and closes what no poll uses.
AppStep == (\E size \in Sizes : create_ringbuf(size)) \/ AppOpen \/ \E fd \in Fds : AppClose(fd)
LEMMA AppKeeps ==
    ASSUME IndInv, AppStep
    PROVE  TypeOK' /\ UNCHANGED <<pc, loc, mappings, warned>> /\ \A q \in Callers : Keeps(q)
  <1>1. UNCHANGED <<mappings, warned, CACHE, pc, loc>>
    BY DEF AppStep, create_ringbuf, AppOpen, AppClose
  <1>2. ASSUME NEW fd \in FreeFds, NEW size \in Sizes \cup {0}, NEW kind \in {"ringbuf", "other"},
               Open(fd, [kind |-> kind, owner |-> App, size |-> size, watches |-> {}])
        PROVE  FdsOK' /\ \A q \in Callers : Keeps(q)
    <2>1. [kind |-> kind, owner |-> App, size |-> size, watches |-> {}] \in Descriptor
      BY DEF Descriptor
    <2> QED
      BY <1>1, <1>2, <2>1, NewFdStep
  <1>3. ASSUME NEW fd \in Fds, AppClose(fd)
        PROVE  FdsOK' /\ \A q \in Callers : Keeps(q)
    <2>1. DOMAIN fds' = DOMAIN fds \ {fd} /\ \A g \in DOMAIN fds \ {fd} : fds'[g] = fds[g]
      BY <1>3, CloseKeeps DEF AppClose, close_or_warn
    <2>2. FdsOK'
      BY <2>1, TypeSplit DEF IndInv, FdsOK
    <2>3. fds[fd].owner = App /\ \A q \in Callers : loc[q].map_fd # fd
      BY <1>3 DEF AppClose
    <2> QED
      BY <1>1, <2>1, <2>2, <2>3, AppApart DEF Keeps
  <1>4. FdsOK' /\ \A q \in Callers : Keeps(q)
    BY <1>2, <1>3 DEF AppStep, create_ringbuf, AppOpen
  <1>5. TypeOK'
    BY <1>1, <1>4, TypeSplit, TypeJoin DEF IndInv, MappingsOK
  <1> QED
    BY <1>1, <1>4, <1>5

LEMMA Step == IndInv /\ [Next]_vars => IndInv'
  <1> SUFFICES ASSUME IndInv, [Next]_vars PROVE IndInv'
    OBVIOUS
  <1>1. CASE UNCHANGED vars
    BY <1>1 DEF vars, IndInv, TypeOK, Holds, At
  <1>2. ASSUME NEW p \in Callers, Poller(p) PROVE IndInv'
    <2>1. TypeOK' /\ Holds(p)' /\ Spares(p)
      BY <1>2, PollerStep
    <2>2. \A q \in Callers \ {p} : Holds(q)'
      BY <2>1, HoldsFrame DEF IndInv, Spares
    <2> QED
      BY <2>1, <2>2 DEF IndInv
  <1>3. CASE AppStep
    BY <1>3, AppKeeps, HoldsFrame DEF IndInv
  <1> QED
    BY <1>1, <1>2, <1>3 DEF Next, AppStep

\* The invariant of poll_ringbuf's resources holds in every reachable state.
THEOREM Invariance == Spec => []IndInv
  BY InitOK, Step, PTL DEF Spec

-----------------------------------------------------------------------------
\* Descriptors, mappings and locals keep their types; no local holds MAP_FAILED.
THEOREM TypeCorrect == Spec => []TypeOK
  BY Invariance, PTL DEF IndInv

\* While poll_ringbuf waits and reads, its epoll descriptor watches its map and
\* both mappings are there in full, whatever other threads acquire and release.
THEOREM ReadersKeepTheirRing == Spec => []ReaderHasItsRing
  <1>1. IndInv => ReaderHasItsRing
    <2> SUFFICES ASSUME IndInv, NEW p \in Callers, pc[p] \in {"wait", "consume"}
                 PROVE  LET l == loc[p] IN
                        /\ l.map_fd \in DOMAIN fds /\ fds[l.map_fd].size = l.ring_size
                        /\ l.epoll_fd \in DOMAIN fds
                        /\ fds[l.epoll_fd].owner = p /\ l.map_fd \in fds[l.epoll_fd].watches
                        /\ {l.consumer_mapping, l.producer_mapping} \subseteq DOMAIN mappings
                        /\ mappings[l.consumer_mapping] = [len |-> PageSize, owner |-> p]
                        /\ mappings[l.producer_mapping] = [len |-> PageSize + 2 * l.ring_size, owner |-> p]
      BY DEF ReaderHasItsRing
    <2>1. pc[p] # "idle" /\ pc[p] \in Sized \cap HasConsumer \cap HasProducer \cap HasEpoll
      BY DEF Sized, PC, HasConsumer, HasProducer, HasBoth, HasEpoll
    <2> QED
      BY <2>1 DEF IndInv, Holds, At
  <1> QED
    BY <1>1, Invariance, PTL

\* Every step of a poll changes its place, and closes at most its own descriptor.
LEMMA Moves == ASSUME IndInv, NEW p \in Callers, Poller(p) PROVE pc'[p] # pc[p]
  <1>1. pc \in [Callers -> PC]
    BY DEF IndInv, TypeOK
  <1>2. CASE Poll(p) \/ map_info(p) \/ page_size(p) \/ sysconf(p)
    BY <1>1, <1>2 DEF Poll, map_info, page_size, sysconf, HavePageSize, Fail, Return, Goto
  <1>3. CASE MapConsumer(p) \/ MapProducer(p) \/ Undo(p) \/ UnmapConsumer(p) \/ UnmapProducer(p)
    BY <1>1, <1>3 DEF MapConsumer, MapProducer, Undo, UnmapConsumer, UnmapProducer, Fail, Return, Goto
  <1>4. CASE EpollCreate(p) \/ EpollAdd(p) \/ Wait(p) \/ Consume(p) \/ CloseEpoll(p)
    BY <1>1, <1>4 DEF EpollCreate, EpollAdd, Wait, Consume, CloseEpoll, Goto
  <1> QED
    BY <1>2, <1>3, <1>4 DEF Poller

LEMMA ClosesOwn ==
    ASSUME IndInv, NEW p \in Callers, Poller(p), NEW fd \in DOMAIN fds \ DOMAIN fds'
    PROVE  fds[fd].owner = p
  <1>1. fds' # fds
    OBVIOUS
  <1>2. ~EpollCreate(p)
    BY <1>1, OpenKeeps DEF EpollCreate
  <1>3. ~EpollAdd(p)
    BY <1>1 DEF EpollAdd, Watch
  <1>4. CloseEpoll(p)
    BY <1>1, <1>2, <1>3 DEF Poller, Poll, map_info, page_size, sysconf, MapConsumer, MapProducer, Undo,
                            Wait, Consume, UnmapConsumer, UnmapProducer, Fail
  <1>5. fd = loc[p].epoll_fd
    BY <1>4, CloseKeeps DEF CloseEpoll
  <1> QED
    BY <1>4, <1>5 DEF CloseEpoll, IndInv, Holds, HasEpoll

\* No poll closes a descriptor or unmaps pages of another poll or of the application.
THEOREM ReleasesOnlyItsOwn == Spec => OnlyOwnReleased
  <1>1. ASSUME IndInv, NEW p \in Callers, Poller(p) PROVE ReleasesOwn
    <2>1. pc'[p] # pc[p]
      BY <1>1, Moves
    <2>2. \A fd \in DOMAIN fds \ DOMAIN fds' : fds[fd].owner = p /\ p # App
      BY <1>1, ClosesOwn, AppApart
    <2>3. \A a \in DOMAIN mappings : mappings[a].owner \in Callers
      BY <1>1, TypeSplit DEF IndInv, MappingsOK, Mapping
    <2>4. \A q \in Callers \ {p} : Keeps(q)
      BY <1>1, PollerStep DEF Spares
    <2>5. \A a \in DOMAIN mappings :
             a \notin DOMAIN mappings' \/ mappings'[a] # mappings[a] => mappings[a].owner = p
      BY <2>3, <2>4 DEF Keeps
    <2> QED
      BY <2>1, <2>2, <2>5 DEF ReleasesOwn
  <1>2. ASSUME IndInv, AppStep PROVE ReleasesOwn
    <2>1. UNCHANGED <<pc, mappings>>
      BY <1>2, AppKeeps
    <2>2. \A fd \in DOMAIN fds \ DOMAIN fds' : fds[fd].owner = App
      BY <1>2, OpenKeeps, CloseKeeps DEF AppStep, create_ringbuf, AppOpen, AppClose, close_or_warn
    <2> QED
      BY <2>1, <2>2 DEF ReleasesOwn
  <1>3. IndInv /\ [Next]_vars => [ReleasesOwn]_vars
    BY <1>1, <1>2 DEF Next, AppStep
  <1> QED
    BY <1>3, Invariance, PTL DEF Spec, OnlyOwnReleased

-----------------------------------------------------------------------------
(* Nothing is left behind, where no length overflows.                      *)

\* A ring whose size fits a usize has mappings whose length does.
NoOverflow == \A size \in Sizes \cup {0} : size > UsizeMax \/ PageSize + 2 * size <= UsizeMax

\* Everything that belongs to p is at hand to p, or its munmap was reported.
Accounts(p) ==
    LET l == loc[p] IN
    /\ \A a \in DOMAIN mappings \ warned : mappings[a].owner = p =>
          \/ pc[p] \in HasConsumer /\ a = l.consumer_mapping
          \/ pc[p] \in HasProducer /\ a = l.producer_mapping
    /\ \A fd \in DOMAIN fds : fds[fd].owner = p => pc[p] \in HasEpoll /\ fd = l.epoll_fd
    /\ pc[p] \in Paged => ~(l.ring_size > UsizeMax)

\* A step acquires nothing in the name of q.
Gives(q) ==
    /\ \A a \in DOMAIN mappings' : mappings'[a].owner = q => a \in DOMAIN mappings /\ mappings[a].owner = q
    /\ \A fd \in DOMAIN fds' : fds'[fd].owner = q => fd \in DOMAIN fds /\ fds[fd].owner = q
    /\ warned \subseteq warned'

LEMMA AccountsFrame ==
    ASSUME NEW q \in Callers, Accounts(q), pc'[q] = pc[q], loc'[q] = loc[q], Gives(q)
    PROVE  Accounts(q)'
  BY DEF Accounts, Gives

\* A step that gives p nothing and moves it between places with the same duties.
LEMMA AccountsMove ==
    ASSUME NEW p \in Callers, Accounts(p), Gives(p),
           pc[p] \in HasConsumer => pc'[p] \in HasConsumer /\ loc'[p].consumer_mapping = loc[p].consumer_mapping,
           pc[p] \in HasProducer => pc'[p] \in HasProducer /\ loc'[p].producer_mapping = loc[p].producer_mapping,
           pc[p] \in HasEpoll => pc'[p] \in HasEpoll /\ loc'[p].epoll_fd = loc[p].epoll_fd,
           pc'[p] \in Paged => ~(loc'[p].ring_size > UsizeMax)
    PROVE  Accounts(p)'
  BY DEF Accounts, Gives

LEMMA QuietGives == ASSUME NEW q, UNCHANGED <<fds, mappings, warned>> PROVE Gives(q)
  BY DEF Gives

LEMMA MapGives ==
    ASSUME NEW a, NEW len, NEW p, Map(a, len, p), UNCHANGED <<fds, warned>>, NEW q, q # p
    PROVE  Gives(q)
  <1>1. /\ DOMAIN mappings' = DOMAIN mappings \cup {a}
        /\ mappings'[a] = [len |-> len, owner |-> p]
        /\ \A b \in DOMAIN mappings : mappings'[b] = mappings[b]
    BY MapKeeps
  <1>2. mappings'[a].owner = p
    BY <1>1
  <1> QED
    BY <1>1, <1>2 DEF Gives

LEMMA UnmapGives ==
    ASSUME NEW p, NEW a, NEW len \in Nat, At(mappings, a, [len |-> len, owner |-> p]),
           munmap_or_warn(a, len), UNCHANGED fds, NEW q
    PROVE  Gives(q) /\ (a \in DOMAIN mappings' => a \in warned')
  <1>1. a \in DOMAIN mappings /\ mappings[a].len = len
    BY DEF At
  <1>2. /\ DOMAIN mappings' \subseteq DOMAIN mappings /\ \A b \in DOMAIN mappings' : mappings'[b] = mappings[b]
        /\ warned \subseteq warned' /\ (a \in DOMAIN mappings' => a \in warned')
    BY <1>1, UnmapKeeps
  <1> QED
    BY <1>2 DEF Gives

LEMMA OpenGives ==
    ASSUME NEW fd \in FreeFds, NEW d, Open(fd, d), UNCHANGED <<mappings, warned>>, NEW q, d.owner # q
    PROVE  Gives(q)
  BY OpenKeeps DEF Gives

LEMMA CloseGives ==
    ASSUME NEW fd, close_or_warn(fd), UNCHANGED <<mappings, warned>>, NEW q
    PROVE  Gives(q)
  BY CloseKeeps DEF Gives

\* What a step must do for the accounts: keep p's, and give no other poll anything.
Settles(p) == Accounts(p)' /\ \A q \in Callers \ {p} : Gives(q)

\* The steps before anything is acquired.
LEMMA EarlySettles ==
    ASSUME IndInv, NEW p \in Callers, Accounts(p),
           Poll(p) \/ map_info(p) \/ page_size(p) \/ sysconf(p) \/ (MapConsumer(p) /\ Fail(p))
    PROVE  Settles(p)
  <1>1. /\ pc[p] \in {"idle", "info", "page_size", "sysconf", "map_consumer"}
        /\ UNCHANGED <<fds, mappings, warned>>
    BY DEF Poll, map_info, page_size, sysconf, MapConsumer, Fail
  <1>2. Gives(p) /\ \A q \in Callers \ {p} : Gives(q)
    BY <1>1, QuietGives
  <1>3. pc[p] \notin HasConsumer \cup HasProducer \cup HasEpoll
    BY <1>1 DEF HasConsumer, HasProducer, HasBoth, HasEpoll
  <1>4. pc \in [Callers -> PC] /\ loc \in [Callers -> Locals]
    BY DEF IndInv, TypeOK
  <1>5. pc'[p] \in Paged => ~(loc'[p].ring_size > UsizeMax)
    <2>1. CASE pc'[p] \in {"idle", "info", "page_size", "sysconf"}
      BY <2>1 DEF Paged, Sized
    <2>2. CASE pc'[p] \notin {"idle", "info", "page_size", "sysconf"}
      <3>1. PICK value : SetLocal(p, "page_size", value) /\ ~(loc[p].ring_size > UsizeMax)
        BY <1>4, <2>2 DEF Poll, map_info, page_size, sysconf, HavePageSize, MapConsumer, Fail, Return, Goto
      <3>2. loc'[p].ring_size = loc[p].ring_size
        BY <1>4, <3>1 DEF SetLocal, Locals
      <3> QED
        BY <3>1, <3>2
    <2> QED
      BY <2>1, <2>2
  <1> QED
    BY <1>2, <1>3, <1>5, AccountsMove DEF Settles

\* Where the first mapping is made, the length of the second does not overflow.
LEMMA MapConsumerSettles ==
    ASSUME NoOverflow, IndInv, NEW p \in Callers, Accounts(p), MapConsumer(p), ~Fail(p)
    PROVE  Settles(p)
  <1>1. pc[p] = "map_consumer" /\ pc[p] \in Paged /\ UNCHANGED <<fds, warned>>
    BY DEF MapConsumer, Paged, Sized, PC
  <1>2. ~(mapping_len(p) > UsizeMax)
    <2>1. loc[p].ring_size \in Sizes \cup {0}
      BY DEF IndInv, TypeOK, Locals
    <2>2. PageSize + 2 * loc[p].ring_size <= UsizeMax
      BY <1>1, <2>1 DEF NoOverflow, Accounts
    <2>3. UsizeMax \in Nat
      BY PollAssumption
    <2> QED
      BY <1>1, <2>2, <2>3, Lengths
  <1>3. PICK a \in FreeAddrs :
           Map(a, loc[p].page_size, p) /\ SetLocal(p, "consumer_mapping", a) /\ Goto(p, "map_producer")
    BY <1>2 DEF MapConsumer
  <1>4. \A q \in Callers \ {p} : Gives(q)
    BY <1>1, <1>3, MapGives
  <1>5. /\ loc'[p].consumer_mapping = a /\ loc'[p].ring_size = loc[p].ring_size
        /\ pc'[p] = "map_producer" /\ pc'[p] \in HasConsumer
    BY <1>3 DEF IndInv, TypeOK, Locals, SetLocal, Goto, HasConsumer
  <1>6. /\ DOMAIN mappings' = DOMAIN mappings \cup {a}
        /\ \A b \in DOMAIN mappings : mappings'[b] = mappings[b]
    BY <1>3, MapKeeps
  <1>7. pc[p] \notin HasConsumer \cup HasProducer \cup HasEpoll
    BY <1>1 DEF HasConsumer, HasProducer, HasBoth, HasEpoll
  <1>8. Accounts(p)'
    BY <1>1, <1>5, <1>6, <1>7 DEF Accounts
  <1> QED
    BY <1>4, <1>8 DEF Settles

LEMMA MapProducerSettles ==
    ASSUME IndInv, NEW p \in Callers, Accounts(p), MapProducer(p) PROVE Settles(p)
  <1>1. /\ pc[p] = "map_producer" /\ pc[p] \in Paged /\ UNCHANGED <<fds, warned>>
        /\ pc[p] \notin HasProducer \cup HasEpoll
    BY DEF MapProducer, Paged, Sized, PC, HasProducer, HasBoth, HasEpoll
  <1>2. CASE Goto(p, "undo") /\ UNCHANGED <<mappings, loc>>
    <2>1. pc'[p] = "undo" /\ pc'[p] \in HasConsumer
      BY <1>2 DEF IndInv, TypeOK, Goto, HasConsumer
    <2>2. Gives(p) /\ \A q \in Callers \ {p} : Gives(q)
      BY <1>1, <1>2, QuietGives
    <2>3. ~(loc'[p].ring_size > UsizeMax)
      BY <1>1, <1>2 DEF Accounts
    <2> QED
      BY <1>1, <1>2, <2>1, <2>2, <2>3, AccountsMove DEF Settles
  <1>3. CASE ~(Goto(p, "undo") /\ UNCHANGED <<mappings, loc>>)
    <2>1. PICK a \in FreeAddrs :
             Map(a, mapping_len(p), p) /\ SetLocal(p, "producer_mapping", a) /\ Goto(p, "epoll_create")
      BY <1>3 DEF MapProducer
    <2>2. \A q \in Callers \ {p} : Gives(q)
      BY <1>1, <2>1, MapGives
    <2>3. /\ loc'[p].producer_mapping = a /\ loc'[p].ring_size = loc[p].ring_size
          /\ loc'[p].consumer_mapping = loc[p].consumer_mapping
          /\ pc'[p] = "epoll_create" /\ pc'[p] \in HasConsumer \cap HasProducer
      BY <2>1 DEF IndInv, TypeOK, Locals, SetLocal, Goto, HasConsumer, HasProducer, HasBoth
    <2>4. /\ DOMAIN mappings' = DOMAIN mappings \cup {a}
          /\ \A b \in DOMAIN mappings : mappings'[b] = mappings[b]
      BY <2>1, MapKeeps
    <2>5. Accounts(p)'
      BY <1>1, <2>3, <2>4 DEF Accounts
    <2> QED
      BY <2>2, <2>5 DEF Settles
  <1> QED
    BY <1>2, <1>3

LEMMA UndoSettles ==
    ASSUME IndInv, NEW p \in Callers, Accounts(p), Undo(p) PROVE Settles(p)
  <1>1. /\ pc[p] = "undo" /\ pc[p] \in Paged \cap HasConsumer /\ Return(p) /\ UNCHANGED fds
        /\ pc[p] \notin HasProducer \cup HasEpoll
    BY DEF Undo, Paged, Sized, PC, HasConsumer, HasProducer, HasBoth, HasEpoll
  <1>2. /\ At(mappings, loc[p].consumer_mapping, [len |-> PageSize, owner |-> p])
        /\ munmap_or_warn(loc[p].consumer_mapping, PageSize) /\ PageSize \in Nat
    BY <1>1, Lengths DEF IndInv, Holds, Undo
  <1>3. /\ \A q : Gives(q)
        /\ loc[p].consumer_mapping \in DOMAIN mappings' => loc[p].consumer_mapping \in warned'
    BY <1>1, <1>2, UnmapGives
  <1>4. pc'[p] = "idle" /\ pc'[p] \notin Paged
    BY <1>1, ReturnStep DEF IndInv, Paged, Sized
  <1>5. Accounts(p)'
    BY <1>1, <1>3, <1>4 DEF Accounts, Gives
  <1> QED
    BY <1>3, <1>5 DEF Settles

LEMMA UnmapConsumerSettles ==
    ASSUME IndInv, NEW p \in Callers, Accounts(p), UnmapConsumer(p) PROVE Settles(p)
  <1>1. /\ pc[p] = "unmap_consumer" /\ pc[p] \in Paged \cap HasConsumer \cap HasProducer
        /\ UNCHANGED <<fds, loc>> /\ pc[p] \notin HasEpoll
    BY DEF UnmapConsumer, Paged, Sized, PC, HasConsumer, HasProducer, HasBoth, HasEpoll
  <1>2. /\ At(mappings, loc[p].consumer_mapping, [len |-> PageSize, owner |-> p])
        /\ munmap_or_warn(loc[p].consumer_mapping, PageSize) /\ PageSize \in Nat
    BY <1>1, Lengths DEF IndInv, Holds, UnmapConsumer
  <1>3. /\ \A q : Gives(q)
        /\ loc[p].consumer_mapping \in DOMAIN mappings' => loc[p].consumer_mapping \in warned'
    BY <1>1, <1>2, UnmapGives
  <1>4. pc'[p] = "unmap_producer" /\ pc'[p] \in HasProducer
    BY DEF UnmapConsumer, IndInv, TypeOK, Goto, HasProducer
  <1>5. Accounts(p)'
    BY <1>1, <1>3, <1>4 DEF Accounts, Gives
  <1> QED
    BY <1>3, <1>5 DEF Settles

LEMMA UnmapProducerSettles ==
    ASSUME IndInv, NEW p \in Callers, Accounts(p), UnmapProducer(p) PROVE Settles(p)
  <1>1. /\ pc[p] = "unmap_producer" /\ pc[p] \in Paged \cap HasProducer /\ Return(p) /\ UNCHANGED fds
        /\ pc[p] \notin HasConsumer \cup HasEpoll
    BY DEF UnmapProducer, Paged, Sized, PC, HasConsumer, HasProducer, HasBoth, HasEpoll
  <1>2. /\ At(mappings, loc[p].producer_mapping, [len |-> mapping_len(p), owner |-> p])
        /\ munmap_or_warn(loc[p].producer_mapping, mapping_len(p)) /\ mapping_len(p) \in Nat
    BY <1>1, Lengths DEF IndInv, Holds, UnmapProducer
  <1>3. /\ \A q : Gives(q)
        /\ loc[p].producer_mapping \in DOMAIN mappings' => loc[p].producer_mapping \in warned'
    BY <1>1, <1>2, UnmapGives
  <1>4. pc'[p] = "idle" /\ pc'[p] \notin Paged
    BY <1>1, ReturnStep DEF IndInv, Paged, Sized
  <1>5. Accounts(p)'
    BY <1>1, <1>3, <1>4 DEF Accounts, Gives
  <1> QED
    BY <1>3, <1>5 DEF Settles

LEMMA EpollCreateSettles ==
    ASSUME IndInv, NEW p \in Callers, Accounts(p), EpollCreate(p) PROVE Settles(p)
  <1>1. /\ pc[p] = "epoll_create" /\ pc[p] \in Paged \cap HasConsumer \cap HasProducer
        /\ pc[p] \notin HasEpoll /\ UNCHANGED <<mappings, warned>>
    BY DEF EpollCreate, Paged, Sized, PC, HasConsumer, HasProducer, HasBoth, HasEpoll
  <1>2. ~(loc[p].ring_size > UsizeMax)
    BY <1>1 DEF Accounts
  <1>3. CASE Goto(p, "unmap_consumer") /\ UNCHANGED <<fds, loc>>
    <2>1. pc'[p] = "unmap_consumer" /\ pc'[p] \in HasConsumer \cap HasProducer
      BY <1>3 DEF IndInv, TypeOK, Goto, HasConsumer, HasProducer, HasBoth
    <2>2. Gives(p) /\ \A q \in Callers \ {p} : Gives(q)
      BY <1>1, <1>3, QuietGives
    <2> QED
      BY <1>1, <1>2, <1>3, <2>1, <2>2, AccountsMove DEF Settles
  <1>4. CASE ~(Goto(p, "unmap_consumer") /\ UNCHANGED <<fds, loc>>)
    <2> DEFINE d == [kind |-> "epoll", owner |-> p, size |-> 0, watches |-> {}]
    <2>1. PICK fd \in FreeFds : Open(fd, d) /\ SetLocal(p, "epoll_fd", fd) /\ Goto(p, "epoll_add")
      BY <1>4 DEF EpollCreate
    <2>2. \A q \in Callers \ {p} : Gives(q)
      BY <1>1, <2>1, OpenGives
    <2>3. /\ loc'[p].epoll_fd = fd /\ loc'[p].ring_size = loc[p].ring_size
          /\ loc'[p].consumer_mapping = loc[p].consumer_mapping
          /\ loc'[p].producer_mapping = loc[p].producer_mapping
          /\ pc'[p] = "epoll_add" /\ pc'[p] \in HasConsumer \cap HasProducer \cap HasEpoll
      BY <2>1 DEF IndInv, TypeOK, Locals, SetLocal, Goto, HasConsumer, HasProducer, HasBoth, HasEpoll
    <2>4. DOMAIN fds' = DOMAIN fds \cup {fd} /\ \A g \in DOMAIN fds : fds'[g] = fds[g]
      BY <2>1, OpenKeeps
    <2>5. Accounts(p)'
      BY <1>1, <1>2, <2>3, <2>4 DEF Accounts
    <2> QED
      BY <2>2, <2>5 DEF Settles
  <1> QED
    BY <1>3, <1>4

LEMMA WaitSettles ==
    ASSUME IndInv, NEW p \in Callers, Accounts(p), EpollAdd(p) \/ Wait(p) \/ Consume(p)
    PROVE  Settles(p)
  <1>1. /\ pc[p] \in {"epoll_add", "wait", "consume"} /\ pc'[p] \in {"wait", "consume", "close_epoll"}
        /\ UNCHANGED <<mappings, warned, loc>> /\ (UNCHANGED fds \/ Watch(p))
    BY DEF EpollAdd, Wait, Consume, Goto, IndInv, TypeOK
  <1>2. /\ pc[p] \in Paged \cap HasConsumer \cap HasProducer \cap HasEpoll
        /\ pc'[p] \in HasConsumer \cap HasProducer \cap HasEpoll
    BY <1>1 DEF Paged, Sized, PC, HasConsumer, HasProducer, HasBoth, HasEpoll
  <1>3. FdsOK /\ loc[p].epoll_fd \in DOMAIN fds
    BY <1>2, TypeSplit DEF IndInv, Holds
  <1>4. DOMAIN fds' = DOMAIN fds /\ \A fd \in DOMAIN fds : fds'[fd].owner = fds[fd].owner
    BY <1>1, <1>3 DEF Watch, FdsOK, Descriptor
  <1>5. Gives(p) /\ \A q \in Callers \ {p} : Gives(q)
    BY <1>1, <1>4 DEF Gives
  <1>6. ~(loc'[p].ring_size > UsizeMax)
    BY <1>1, <1>2 DEF Accounts
  <1> QED
    BY <1>1, <1>2, <1>5, <1>6, AccountsMove DEF Settles

LEMMA CloseEpollSettles ==
    ASSUME IndInv, NEW p \in Callers, Accounts(p), CloseEpoll(p) PROVE Settles(p)
  <1>1. /\ pc[p] = "close_epoll" /\ pc[p] \in Paged /\ UNCHANGED <<mappings, warned, loc>>
        /\ close_or_warn(loc[p].epoll_fd)
    BY DEF CloseEpoll, Paged, Sized, PC
  <1>2. pc'[p] = "unmap_consumer" /\ pc'[p] \in HasConsumer \cap HasProducer
    BY DEF CloseEpoll, IndInv, TypeOK, Goto, HasConsumer, HasProducer, HasBoth
  <1>3. DOMAIN fds' = DOMAIN fds \ {loc[p].epoll_fd} /\ \A g \in DOMAIN fds' : fds'[g] = fds[g]
    BY <1>1, CloseKeeps
  <1>4. \A q \in Callers \ {p} : Gives(q)
    BY <1>1, CloseGives
  <1>5. Accounts(p)'
    BY <1>1, <1>2, <1>3 DEF Accounts
  <1> QED
    BY <1>4, <1>5 DEF Settles

LEMMA PollerSettles ==
    ASSUME NoOverflow, IndInv, NEW p \in Callers, Accounts(p), Poller(p) PROVE Settles(p)
  BY EarlySettles, MapConsumerSettles, MapProducerSettles, UndoSettles, EpollCreateSettles, WaitSettles,
     CloseEpollSettles, UnmapConsumerSettles, UnmapProducerSettles DEF Poller

LEMMA AppGives == ASSUME IndInv, AppStep, NEW q \in Callers PROVE Gives(q)
  <1>1. UNCHANGED <<mappings, warned>> /\ q # App
    BY AppKeeps, AppApart
  <1>2. ASSUME NEW fd \in Fds, AppClose(fd) PROVE Gives(q)
    BY <1>1, <1>2, CloseGives DEF AppClose, close_or_warn
  <1>3. ASSUME NEW fd \in FreeFds, NEW kind, NEW size,
               Open(fd, [kind |-> kind, owner |-> App, size |-> size, watches |-> {}])
        PROVE  Gives(q)
    BY <1>1, <1>3, OpenGives
  <1> QED
    BY <1>2, <1>3 DEF AppStep, create_ringbuf, AppOpen

Accounted == \A p \in Callers : Accounts(p)

\* Where no length overflows, poll_ringbuf leaks no descriptor and silently leaks
\* no mapping: what it acquired is at hand to it until it is released or reported.
THEOREM NothingLeaks == NoOverflow => (Spec => []ReleasedOrReported)
  <1> SUFFICES ASSUME NoOverflow PROVE Spec => []ReleasedOrReported
    OBVIOUS
  <1>1. Init => Accounted
    <2> SUFFICES ASSUME Init, NEW p \in Callers PROVE Accounts(p)
      BY DEF Accounted
    <2>1. pc[p] = "idle" /\ DOMAIN fds = {} /\ DOMAIN mappings = {}
      BY DEF Init
    <2> QED
      BY <2>1 DEF Accounts, Paged, Sized
  <1>2. IndInv /\ Accounted /\ [Next]_vars => Accounted'
    <2> SUFFICES ASSUME IndInv, Accounted, [Next]_vars PROVE Accounted'
      OBVIOUS
    <2>1. CASE UNCHANGED vars
      BY <2>1 DEF vars, Accounted, Accounts
    <2>2. ASSUME NEW p \in Callers, Poller(p) PROVE Accounted'
      <3>1. Accounts(p)' /\ \A q \in Callers \ {p} : Gives(q)
        BY <2>2, PollerSettles DEF Accounted, Settles
      <3>2. \A q \in Callers \ {p} : pc'[q] = pc[q] /\ loc'[q] = loc[q]
        BY <2>2, PollerStep DEF Spares
      <3>3. \A q \in Callers \ {p} : Accounts(q)'
        BY <3>1, <3>2, AccountsFrame DEF Accounted
      <3> QED
        BY <3>1, <3>3 DEF Accounted
    <2>3. CASE AppStep
      BY <2>3, AppKeeps, AppGives, AccountsFrame DEF Accounted
    <2> QED
      BY <2>1, <2>2, <2>3 DEF Next, AppStep
  <1>3. IndInv /\ Accounted => ReleasedOrReported
    <2> SUFFICES ASSUME IndInv, Accounted PROVE ReleasedOrReported
      OBVIOUS
    <2>1. /\ \A a \in DOMAIN mappings : mappings[a].owner \in Callers
          /\ \A fd \in DOMAIN fds : fds[fd].owner \in Callers \cup {App}
      BY TypeSplit DEF IndInv, MappingsOK, FdsOK, Mapping, Descriptor
    <2> QED
      BY <2>1 DEF Accounted, Accounts, ReleasedOrReported
  <1> QED
    BY <1>1, <1>2, <1>3, Invariance, PTL DEF Spec
=============================================================================
