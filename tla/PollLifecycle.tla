--------------------------- MODULE PollLifecycle ---------------------------
(***************************************************************************)
(* loader/ringbuf.rs: the kernel resources of poll_ringbuf, from its call  *)
(* to its return, in a process whose threads poll, create and close rings. *)
(* Descriptors and addresses are what the kernel hands out, so a number    *)
(* that is released is soon somebody else's.  Every system call may fail.  *)
(* What a poll does between waking and returning is in Ringbuf; its only   *)
(* trace here is that it ends, by returning or by a panic that unwinds.    *)
(***************************************************************************)
EXTENDS Naturals, FiniteSets, FiniteSetsExt, Functions

CONSTANTS
    Callers,      \* threads that call poll_ringbuf
    App,          \* the rest of the process, owner of the maps
    Fds,          \* descriptor numbers
    Addrs,        \* where mappings may start
    NoAddr, NoFd,
    Sizes,        \* sizes of rings (u32)
    PageSize,     \* what sysconf returns
    UsizeMax      \* usize::MAX

ASSUME PollAssumption ==
    /\ App \notin Callers
    /\ Fds \subseteq Nat /\ Sizes \subseteq Nat /\ PageSize \in Nat \ {0} /\ UsizeMax \in Nat

VARIABLES
    fds,          \* the open descriptors
    mappings,     \* the mappings of the process
    warned,       \* the mappings whose failed munmap was reported
    CACHE,        \* page_size's OnceLock, 0 when not set
    pc,
    loc           \* the locals of poll_ringbuf and of what it owns

vars == <<fds, mappings, warned, CACHE, pc, loc>>

PC == {"idle", "info", "page_size", "sysconf", "map_consumer", "map_producer", "undo",
       "epoll_create", "epoll_add", "wait", "consume",
       "close_epoll", "unmap_consumer", "unmap_producer"}

Descriptor == [kind : {"ringbuf", "other", "epoll"}, owner : Callers \cup {App},
               size : Sizes \cup {0}, watches : SUBSET Fds]
Mapping == [len : Nat, owner : Callers]
Locals == [map_fd : Fds \cup {NoFd}, ring_size : Sizes \cup {0}, page_size : {0, PageSize},
           consumer_mapping : Addrs \cup {NoAddr}, producer_mapping : Addrs \cup {NoAddr},
           epoll_fd : Fds \cup {NoFd}]
NoLocals == [map_fd |-> NoFd, ring_size |-> 0, page_size |-> 0,
             consumer_mapping |-> NoAddr, producer_mapping |-> NoAddr, epoll_fd |-> NoFd]

Init ==
    /\ fds = <<>> /\ mappings = <<>> /\ warned = {}
    /\ CACHE = 0
    /\ pc = [p \in Callers |-> "idle"]
    /\ loc = [p \in Callers |-> NoLocals]

mapping_len(p) == loc[p].page_size + 2 * loc[p].ring_size

-----------------------------------------------------------------------------
(* The kernel, external to the repository.                                 *)

FreeFds == Fds \ DOMAIN fds
FreeAddrs == Addrs \ DOMAIN mappings

\* Table f with entry x added.
With(f, x, entry) == [y \in DOMAIN f \cup {x} |-> IF y = x THEN entry ELSE f[y]]

\* The lowest free number is handed out.
Open(fd, descriptor) ==
    /\ FreeFds # {} /\ fd = Min(FreeFds)
    /\ fds' = With(fds, fd, descriptor)

Map(a, len, p) ==
    /\ a \in FreeAddrs
    /\ mappings' = With(mappings, a, [len |-> len, owner |-> p])

\* What is left of the mappings when len bytes at address a are unmapped.
Without(a, len) ==
    IF a \in DOMAIN mappings /\ mappings[a].len > len
      THEN [mappings EXCEPT ![a].len = @ - len]
      ELSE Restrict(mappings, DOMAIN mappings \ {a})

-----------------------------------------------------------------------------
Goto(p, label) == pc' = [pc EXCEPT ![p] = label]
SetLocal(p, field, value) == loc' = [loc EXCEPT ![p][field] = value]

Return(p) == Goto(p, "idle") /\ loc' = [loc EXCEPT ![p] = NoLocals]

\* `?' on a failed call before anything is owned.
Fail(p) == Return(p) /\ UNCHANGED <<fds, mappings, warned, CACHE>>

munmap_or_warn(a, len) ==
    \/ mappings' = Without(a, len) /\ UNCHANGED warned
    \/ UNCHANGED mappings /\ warned' = warned \cup {a}

\* The descriptor is released whether or not close reports an error.
close_or_warn(fd) == fds' = Restrict(fds, DOMAIN fds \ {fd})

Poll(p) ==
    /\ pc[p] = "idle"
    /\ \E fd \in DOMAIN fds : fds[fd].owner = App /\ SetLocal(p, "map_fd", fd)
    /\ Goto(p, "info")
    /\ UNCHANGED <<fds, mappings, warned, CACHE>>

\* map_info, and the test of the type it reports.
map_info(p) ==
    /\ pc[p] = "info"
    /\ \/ Fail(p)
       \/ /\ fds[loc[p].map_fd].kind = "ringbuf"
          /\ SetLocal(p, "ring_size", fds[loc[p].map_fd].size)
          /\ Goto(p, "page_size")
          /\ UNCHANGED <<fds, mappings, warned, CACHE>>

\* page_size returned value; max_entries must fit a usize.
HavePageSize(p, value) ==
    IF loc[p].ring_size > UsizeMax
      THEN Return(p)
      ELSE SetLocal(p, "page_size", value) /\ Goto(p, "map_consumer")

page_size(p) ==
    /\ pc[p] = "page_size"
    /\ IF CACHE # 0 THEN HavePageSize(p, CACHE) ELSE Goto(p, "sysconf") /\ UNCHANGED loc
    /\ UNCHANGED <<fds, mappings, warned, CACHE>>

\* OnceLock::set keeps a value that another thread has set since.
sysconf(p) ==
    /\ pc[p] = "sysconf"
    /\ \/ Fail(p)
       \/ /\ CACHE' = IF CACHE = 0 THEN PageSize ELSE CACHE
          /\ HavePageSize(p, PageSize)
          /\ UNCHANGED <<fds, mappings, warned>>

\* The result of mmap not compared with MAP_FAILED.
MapConsumerUnchecked(p) ==
    /\ pc[p] = "map_consumer"
    /\ \E a \in FreeAddrs \cup {"MAP_FAILED"} :
          /\ IF a = "MAP_FAILED" THEN UNCHANGED mappings ELSE Map(a, loc[p].page_size, p)
          /\ SetLocal(p, "consumer_mapping", a)
    /\ Goto(p, "map_producer")
    /\ UNCHANGED <<fds, warned, CACHE>>

\* RingbufConsumer::new up to the overflow check, which returns with `?': the
\* first mapping is still a raw pointer then, that nothing drops.
MapConsumer(p) ==
    /\ pc[p] = "map_consumer"
    /\ \/ Fail(p)
       \/ /\ \E a \in FreeAddrs :
                /\ Map(a, loc[p].page_size, p)
                /\ IF mapping_len(p) > UsizeMax
                     THEN Return(p)
                     ELSE SetLocal(p, "consumer_mapping", a) /\ Goto(p, "map_producer")
          /\ UNCHANGED <<fds, warned, CACHE>>

MapProducer(p) ==
    /\ pc[p] = "map_producer"
    /\ \/ Goto(p, "undo") /\ UNCHANGED <<mappings, loc>>
       \/ /\ \E a \in FreeAddrs :
                Map(a, mapping_len(p), p) /\ SetLocal(p, "producer_mapping", a)
          /\ Goto(p, "epoll_create")
    /\ UNCHANGED <<fds, warned, CACHE>>

\* The first mapping undone when the second fails.
UndoForgotten(p) == pc[p] = "undo" /\ Fail(p)

Undo(p) ==
    /\ pc[p] = "undo"
    /\ munmap_or_warn(loc[p].consumer_mapping, loc[p].page_size)
    /\ Return(p)
    /\ UNCHANGED <<fds, CACHE>>

\* From here on an error drops the RingbufConsumer, and the EpollFd if there is
\* one, in reverse order of their creation.
EpollCreate(p) ==
    /\ pc[p] = "epoll_create"
    /\ \/ Goto(p, "unmap_consumer") /\ UNCHANGED <<fds, loc>>
       \/ /\ \E fd \in FreeFds :
                /\ Open(fd, [kind |-> "epoll", owner |-> p, size |-> 0, watches |-> {}])
                /\ SetLocal(p, "epoll_fd", fd)
          /\ Goto(p, "epoll_add")
    /\ UNCHANGED <<mappings, warned, CACHE>>

Watch(p) == fds' = [fds EXCEPT ![loc[p].epoll_fd].watches = @ \cup {loc[p].map_fd}]

\* The failure overlooked, and the failure closing what Drop closes again.
EpollAddUnchecked(p) ==
    /\ pc[p] = "epoll_add"
    /\ UNCHANGED fds \/ Watch(p)
    /\ Goto(p, "wait")
    /\ UNCHANGED <<mappings, warned, CACHE, loc>>

EpollAddCloses(p) ==
    /\ pc[p] = "epoll_add"
    /\ \/ close_or_warn(loc[p].epoll_fd) /\ Goto(p, "close_epoll")
       \/ Watch(p) /\ Goto(p, "wait")
    /\ UNCHANGED <<mappings, warned, CACHE, loc>>

EpollAdd(p) ==
    /\ pc[p] = "epoll_add"
    /\ \/ UNCHANGED fds /\ Goto(p, "close_epoll")
       \/ Watch(p) /\ Goto(p, "wait")
    /\ UNCHANGED <<mappings, warned, CACHE, loc>>

\* epoll_wait fails, or the map is readable; EINTR stays.
Wait(p) ==
    /\ pc[p] = "wait"
    /\ \/ Goto(p, "close_epoll")
       \/ Goto(p, "consume")
    /\ UNCHANGED <<fds, mappings, warned, CACHE, loc>>

\* consume_ring_records returns, or its callback panics.
Consume(p) ==
    /\ pc[p] = "consume"
    /\ Goto(p, "close_epoll")
    /\ UNCHANGED <<fds, mappings, warned, CACHE, loc>>

CloseEpoll(p) ==
    /\ pc[p] = "close_epoll"
    /\ close_or_warn(loc[p].epoll_fd)
    /\ Goto(p, "unmap_consumer")
    /\ UNCHANGED <<mappings, warned, CACHE, loc>>

UnmapConsumer(p) ==
    /\ pc[p] = "unmap_consumer"
    /\ munmap_or_warn(loc[p].consumer_mapping, loc[p].page_size)
    /\ Goto(p, "unmap_producer")
    /\ UNCHANGED <<fds, CACHE, loc>>

UnmapProducer(p) ==
    /\ pc[p] = "unmap_producer"
    /\ munmap_or_warn(loc[p].producer_mapping, mapping_len(p))
    /\ Return(p)
    /\ UNCHANGED <<fds, CACHE>>

-----------------------------------------------------------------------------
\* u32::is_power_of_two: no odd divisor but 1.
is_power_of_two(n) == n # 0 /\ \A d \in 2..n : n % d = 0 => d % 2 = 0

create_ringbuf(size_bytes) ==
    /\ is_power_of_two(size_bytes)
    /\ \E fd \in FreeFds :
          Open(fd, [kind |-> "ringbuf", owner |-> App, size |-> size_bytes, watches |-> {}])
    /\ UNCHANGED <<mappings, warned, CACHE, pc, loc>>

\* The application opens something else, and closes what no poll uses.
AppOpen ==
    /\ \E fd \in FreeFds :
          Open(fd, [kind |-> "other", owner |-> App, size |-> 0, watches |-> {}])
    /\ UNCHANGED <<mappings, warned, CACHE, pc, loc>>

AppClose(fd) ==
    /\ fd \in DOMAIN fds /\ fds[fd].owner = App
    /\ \A p \in Callers : loc[p].map_fd # fd
    /\ fds' = Restrict(fds, DOMAIN fds \ {fd})
    /\ UNCHANGED <<mappings, warned, CACHE, pc, loc>>

Poller(p) ==
    \/ Poll(p) \/ map_info(p) \/ page_size(p) \/ sysconf(p)
    \/ MapConsumer(p) \/ MapProducer(p) \/ Undo(p)
    \/ EpollCreate(p) \/ EpollAdd(p) \/ Wait(p) \/ Consume(p)
    \/ CloseEpoll(p) \/ UnmapConsumer(p) \/ UnmapProducer(p)

Next ==
    \/ \E p \in Callers : Poller(p)
    \/ \E size \in Sizes : create_ringbuf(size)
    \/ AppOpen
    \/ \E fd \in Fds : AppClose(fd)

Spec == Init /\ [][Next]_vars

-----------------------------------------------------------------------------
(* Properties.                                                             *)

\* Descriptors, mappings and locals keep their types; in particular no local
\* holds MAP_FAILED.
TypeOK ==
    /\ DOMAIN fds \subseteq Fds /\ Range(fds) \subseteq Descriptor
    /\ DOMAIN mappings \subseteq Addrs /\ Range(mappings) \subseteq Mapping
    /\ warned \subseteq Addrs
    /\ CACHE \in {0, PageSize}
    /\ pc \in [Callers -> PC]
    /\ loc \in [Callers -> Locals]

\* Whatever poll_ringbuf has acquired is still held by the poll that acquired it,
\* and with it somebody who will release it, or its failed munmap has been
\* reported: no error path leaks a descriptor or silently leaks a mapping.
ReleasedOrReported ==
    /\ \A a \in DOMAIN mappings \ warned :
          a \in {loc[mappings[a].owner].consumer_mapping, loc[mappings[a].owner].producer_mapping}
    /\ \A fd \in DOMAIN fds :
          fds[fd].owner # App => loc[fds[fd].owner].epoll_fd = fd

\* While a poll waits and reads records, its descriptor watches its map and both
\* mappings are there in full, whatever the other threads acquire and release.
ReaderHasItsRing ==
    \A p \in Callers : pc[p] \in {"wait", "consume"} =>
        LET l == loc[p] IN
        /\ l.map_fd \in DOMAIN fds /\ fds[l.map_fd].size = l.ring_size
        /\ l.epoll_fd \in DOMAIN fds
        /\ fds[l.epoll_fd].owner = p /\ l.map_fd \in fds[l.epoll_fd].watches
        /\ {l.consumer_mapping, l.producer_mapping} \subseteq DOMAIN mappings
        /\ mappings[l.consumer_mapping] = [len |-> PageSize, owner |-> p]
        /\ mappings[l.producer_mapping] = [len |-> PageSize + 2 * l.ring_size, owner |-> p]

\* A descriptor that is closed, or a mapping that changes, belongs to a poll that
\* moves, or to the application while no poll moves.
ReleasesOwn ==
    /\ \A fd \in DOMAIN fds \ DOMAIN fds' :
          IF fds[fd].owner = App THEN UNCHANGED pc
            ELSE pc'[fds[fd].owner] # pc[fds[fd].owner]
    /\ \A a \in DOMAIN mappings :
          a \notin DOMAIN mappings' \/ mappings'[a] # mappings[a]
            => pc'[mappings[a].owner] # pc[mappings[a].owner]

\* A poll closes and unmaps only what it has acquired itself: a number that was
\* released and handed out again belongs to its new owner.
OnlyOwnReleased == [][ReleasesOwn]_vars
=============================================================================
