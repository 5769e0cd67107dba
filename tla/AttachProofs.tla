---------------------------- MODULE AttachProofs ----------------------------
(***************************************************************************)
(* What a call of loader/prog.rs or of attach_kernel_page_discard holds    *)
(* while other threads use the same descriptor table, for any number of    *)
(* threads, sockets and descriptors and for every pattern and program.     *)
(***************************************************************************)
EXTENDS Attach, WellFoundedInduction, TLAPS

\* A descriptor is closed, a socket, or a program within the limit.
IsSocket(f) == \E s \in Sockets : open[f] = Socket(s)
FdOK(f) ==
    \/ open[f] = Closed
    \/ IsSocket(f)
    \/ open[f] = Prog(open[f].insns) /\ Len(open[f].insns) \in 1..MAX_BPF_INSNS

\* What thread t relies on: its socket from the start, its program once loaded,
\* and that the program is the one of its pattern.
Attaching == "attach_kernel_page_discard"
Record(t) ==
    call[t] = InCall(call[t].pc, call[t].fn, call[t].pattern, call[t].insns, call[t].prog_fd,
                     call[t].target_socket)
HoldsSocket(t) == call[t].target_socket \in Fds /\ IsSocket(call[t].target_socket)
Holds(t) ==
    \/ \E ret \in {"none", "Ok", "Compile", "Io"} : call[t] = Idle(ret)
    \/ /\ Record(t) /\ call[t].pc = "compile" /\ call[t].fn = Attaching
       /\ call[t].pattern \in Patterns
       /\ HoldsSocket(t)
    \/ /\ Record(t) /\ call[t].pc = "load"
       /\ call[t].fn # "load_filter" => HoldsSocket(t)
       /\ call[t].fn = Attaching => call[t].insns = compile_literal_search(call[t].pattern).prog
    \/ /\ Record(t) /\ call[t].pc = "attach"
       /\ HoldsSocket(t)
       /\ call[t].prog_fd \in Fds /\ open[call[t].prog_fd] = Prog(call[t].insns)
       /\ call[t].fn = Attaching => call[t].insns = compile_literal_search(call[t].pattern).prog

\* The inductive invariant: tables are total, every socket has one descriptor,
\* what load_filter returned is a program, and each call has what it relies on.
Tables ==
    /\ open = [f \in Fds |-> open[f]]
    /\ filter = [s \in Sockets |-> filter[s]]
    /\ call = [t \in Threads |-> call[t]]
IndInv ==
    /\ Tables
    /\ \A f \in Fds : FdOK(f)
    /\ \A f, g \in Fds : IsSocket(f) /\ open[f] = open[g] => f = g
    /\ owned \subseteq Fds /\ \A f \in owned : open[f].kind = "prog"
    /\ \A t \in Threads : Holds(t)

-----------------------------------------------------------------------------
\* The kernel's lowest free descriptor is a free one.
LEMMA MinIsFree == FreeFds # {} => Min(FreeFds) \in Fds /\ open[Min(FreeFds)] = Closed
  <1> SUFFICES ASSUME FreeFds # {}
               PROVE  Min(FreeFds) \in FreeFds
    BY DEF FreeFds
  <1>1. FreeFds \subseteq Nat
    BY AttachAssumption DEF FreeFds
  <1>2. \E x \in FreeFds : \A y \in FreeFds : ~(<<y, x>> \in OpToRel(<, Nat))
    BY <1>1, NatLessThanWellFounded, WFMin, Zenon
  <1>3. ASSUME NEW x \in Nat, NEW y \in Nat, y < x
        PROVE  <<y, x>> \in OpToRel(<, Nat)
    BY <1>3, Zenon DEF OpToRel
  <1>4. PICK x \in FreeFds : \A y \in FreeFds : ~(y < x)
    BY <1>1, <1>2, <1>3, Zenon
  <1>5. \A y \in FreeFds : x <= y
    BY <1>1, <1>4
  <1> QED
    BY <1>5 DEF Min

\* Three kinds of descriptor do not overlap.
LEMMA Kinds ==
    ASSUME NEW s, NEW x
    PROVE  /\ Closed.kind = "closed" /\ Socket(s).kind = "socket" /\ Prog(x).kind = "prog"
           /\ Socket(s).id = s /\ Prog(x).insns = x
  BY DEF Closed, Socket, Prog

\* The places of a call and the fields of its locals.
LEMMA Fields ==
    ASSUME NEW a, NEW b, NEW c, NEW d, NEW e, NEW g, NEW ret
    PROVE  LET r == InCall(a, b, c, d, e, g)
           IN  /\ r.pc = a /\ r.fn = b /\ r.pattern = c /\ r.insns = d
               /\ r.prog_fd = e /\ r.target_socket = g
               /\ Idle(ret).pc = "idle" /\ Idle(ret).ret = ret
  BY DEF InCall, Idle

LEMMA InitOK == Init => IndInv
  BY Kinds DEF Init, IndInv, Tables, FdOK, IsSocket, Holds

\* A thread that does not move keeps what it holds if no descriptor in use changes.
LEMMA HoldsFrame ==
    ASSUME NEW t \in Threads, Holds(t), call'[t] = call[t],
           \A f \in Fds : open'[f] = open[f] \/ open[f] = Closed \/ ~InUse(f)
    PROVE  Holds(t)'
  <1>1. CASE call[t].pc = "idle"
    BY <1>1 DEF Holds, Idle
  <1>2. CASE call[t].pc # "idle"
    <2>1. InUse(call[t].prog_fd) /\ InUse(call[t].target_socket)
      BY <1>2 DEF InUse
    <2>2. HoldsSocket(t) => HoldsSocket(t)'
      BY <2>1, Kinds DEF HoldsSocket, IsSocket
    <2>3. Record(t) => Record(t)'
      BY DEF Record
    <2>4. call[t].prog_fd \in Fds /\ open[call[t].prog_fd] = Prog(call[t].insns)
            => open'[call[t].prog_fd] = Prog(call[t].insns)
      BY <2>1, Kinds
    <2> QED
      BY <2>2, <2>3, <2>4 DEF Holds
  <1> QED
    BY <1>1, <1>2

\* A step of t that changes no descriptor only has to keep what t holds.
LEMMA CallStep ==
    ASSUME IndInv, NEW t \in Threads, Tables', open' = open, owned' = owned,
           \A u \in Threads \ {t} : call'[u] = call[u],
           Holds(t)'
    PROVE  IndInv'
  <1>1. \A u \in Threads : Holds(u)'
    BY HoldsFrame DEF IndInv
  <1> QED
    BY <1>1 DEF IndInv, FdOK, IsSocket

\* Returning holds nothing.
LEMMA FinishStep ==
    ASSUME IndInv, NEW t \in Threads, NEW ret \in {"Ok", "Compile", "Io"}, Finish(t, ret),
           open' = open, owned' = owned, filter' = [s \in Sockets |-> filter'[s]]
    PROVE  IndInv'
  <1>1. /\ call'[t] = Idle(ret)
        /\ \A u \in Threads \ {t} : call'[u] = call[u]
        /\ call' = [u \in Threads |-> call'[u]]
    BY DEF Finish, IndInv, Tables
  <1>2. Holds(t)'
    BY <1>1 DEF Holds
  <1>3. Tables'
    BY <1>1 DEF IndInv, Tables
  <1> QED
    BY <1>1, <1>2, <1>3, CallStep

LEMMA BeginStep == ASSUME IndInv, NEW t \in Threads, Begin(t) PROVE IndInv'
  <1>1. PICK r : call' = [call EXCEPT ![t] = r]
    BY DEF Begin
  <1>2. /\ call'[t] = r
        /\ \A u \in Threads \ {t} : call'[u] = call[u]
        /\ call' = [u \in Threads |-> call'[u]]
    BY <1>1 DEF IndInv, Tables
  <1>3. Tables'
    BY <1>2 DEF Begin, IndInv, Tables
  <1>4. \A f \in Fds : IsOpen(f, "socket") => IsSocket(f)
    BY Kinds DEF IndInv, FdOK, IsOpen
  <1>5. \A f \in owned : f \in Fds /\ open[f] = Prog(open[f].insns)
    BY Kinds DEF IndInv, FdOK, IsSocket
  <1>6. open' = open /\ owned' = owned
    BY DEF Begin
  <1>7. ASSUME NEW pattern \in Patterns, NEW f \in Fds, IsOpen(f, "socket"),
               call' = [call EXCEPT ![t] = InCall("compile", Attaching, pattern, <<>>, -1, f)]
        PROVE  Holds(t)'
    <2>1. call'[t] = InCall("compile", Attaching, pattern, <<>>, -1, f)
      BY <1>7 DEF IndInv, Tables
    <2> QED
      BY <1>4, <1>6, <1>7, <2>1, Fields DEF Holds, Record, HoldsSocket, IsSocket
  <1>8. ASSUME NEW insns \in Programs,
               call' = [call EXCEPT ![t] = InCall("load", "load_filter", <<>>, insns, -1, -1)]
        PROVE  Holds(t)'
    <2>1. call'[t] = InCall("load", "load_filter", <<>>, insns, -1, -1)
      BY <1>8 DEF IndInv, Tables
    <2> QED
      BY <2>1, Fields DEF Holds, Record, Attaching
  <1>9. ASSUME NEW p \in owned, NEW f \in Fds, IsOpen(f, "socket"),
               call' = [call EXCEPT ![t] =
                          InCall("attach", "attach_to_socket", <<>>, open[p].insns, p, f)]
        PROVE  Holds(t)'
    <2>1. call'[t] = InCall("attach", "attach_to_socket", <<>>, open[p].insns, p, f)
      BY <1>9 DEF IndInv, Tables
    <2> QED
      BY <1>4, <1>5, <1>6, <1>9, <2>1, Fields DEF Holds, Record, HoldsSocket, IsSocket, Attaching
  <1>10. Holds(t)'
    BY <1>7, <1>8, <1>9 DEF Begin, Attaching
  <1> QED
    BY <1>2, <1>3, <1>6, <1>10, CallStep

LEMMA CompileStep == ASSUME IndInv, NEW t \in Threads, Compile(t) PROVE IndInv'
  <1> DEFINE result == compile_literal_search(call[t].pattern)
  <1>1. open' = open /\ filter' = filter /\ owned' = owned /\ call[t].pc = "compile"
    BY DEF Compile
  <1>2. CASE ~result.ok
    BY <1>1, <1>2, FinishStep DEF Compile, IndInv, Tables
  <1>3. CASE result.ok
    <2>1. Record(t) /\ call[t].fn = Attaching /\ HoldsSocket(t)
      BY <1>1, Fields DEF IndInv, Holds
    <2>2. call' = [call EXCEPT ![t].pc = "load", ![t].insns = result.prog]
      BY <1>3 DEF Compile
    <2>3. /\ \A u \in Threads \ {t} : call'[u] = call[u]
          /\ call' = [u \in Threads |-> call'[u]]
          /\ call'[t] = [call[t] EXCEPT !.pc = "load", !.insns = result.prog]
      BY <2>2 DEF IndInv, Tables
    <2>4. call'[t] = InCall("load", Attaching, call[t].pattern, result.prog, call[t].prog_fd,
                            call[t].target_socket)
      BY <2>1, <2>3 DEF Record, InCall
    <2>5. Holds(t)'
      <3>1. /\ call'[t].pc = "load" /\ call'[t].pattern = call[t].pattern
            /\ call'[t].insns = result.prog /\ call'[t].target_socket = call[t].target_socket
            /\ Record(t)'
        BY <2>4, Fields DEF Record
      <3>2. HoldsSocket(t)'
        BY <1>1, <2>1, <3>1 DEF HoldsSocket, IsSocket
      <3>3. call'[t].insns = compile_literal_search(call'[t].pattern).prog
        BY <3>1
      <3> QED
        BY <3>1, <3>2, <3>3 DEF Holds
    <2>6. Tables'
      BY <1>1, <2>3 DEF IndInv, Tables
    <2> QED
      BY <1>1, <2>3, <2>5, <2>6, CallStep
  <1> QED
    BY <1>2, <1>3

\* One descriptor changes, which was free or is used by no call: the others keep
\* what they are open for, and threads that do not move what they hold.
LEMMA FdStep ==
    ASSUME IndInv, NEW f \in Fds, NEW v, open' = [open EXCEPT ![f] = v],
           open[f] = Closed \/ ~InUse(f)
    PROVE  /\ open' = [g \in Fds |-> open'[g]] /\ open'[f] = v
           /\ \A g \in Fds \ {f} : open'[g] = open[g] /\ FdOK(g)' /\ (IsSocket(g)' <=> IsSocket(g))
           /\ \A t \in Threads : call'[t] = call[t] => Holds(t)'
  <1>1. open' = [g \in Fds |-> open'[g]] /\ open'[f] = v /\ \A g \in Fds \ {f} : open'[g] = open[g]
    BY DEF IndInv, Tables
  <1>2. \A g \in Fds \ {f} : FdOK(g)' /\ (IsSocket(g)' <=> IsSocket(g))
    BY <1>1 DEF IndInv, FdOK, IsSocket
  <1>3. \A t \in Threads : call'[t] = call[t] => Holds(t)'
    BY <1>1, HoldsFrame DEF IndInv
  <1> QED
    BY <1>1, <1>2, <1>3

LEMMA OpenStep == ASSUME IndInv, NEW s \in Sockets, OpenSocket(s) PROVE IndInv'
  <1>1. PICK f \in Fds : f = Min(FreeFds) /\ open[f] = Closed
    BY MinIsFree DEF OpenSocket
  <1>2. open' = [open EXCEPT ![f] = Socket(s)] /\ filter' = filter /\ call' = call /\ owned' = owned
        /\ \A g \in Fds : open[g] # Socket(s)
    BY <1>1 DEF OpenSocket
  <1>3. /\ open' = [g \in Fds |-> open'[g]] /\ open'[f] = Socket(s)
        /\ \A g \in Fds \ {f} : open'[g] = open[g] /\ FdOK(g)' /\ (IsSocket(g)' <=> IsSocket(g))
        /\ \A t \in Threads : Holds(t)'
    BY <1>1, <1>2, FdStep
  <1>4. Tables'
    BY <1>2, <1>3 DEF IndInv, Tables
  <1>5. \A g \in Fds : FdOK(g)'
    BY <1>3 DEF FdOK, IsSocket
  <1>6. \A g, h \in Fds : IsSocket(g)' /\ open'[g] = open'[h] => g = h
    BY <1>1, <1>2, <1>3 DEF IndInv
  <1>7. owned' \subseteq Fds /\ \A g \in owned' : open'[g].kind = "prog"
    BY <1>1, <1>2, <1>3, Kinds DEF IndInv
  <1> QED
    BY <1>3, <1>4, <1>5, <1>6, <1>7 DEF IndInv

LEMMA CloseStep == ASSUME IndInv, NEW f \in Fds, CloseSocket(f) \/ CloseProgram(f) PROVE IndInv'
  <1>1. open' = [open EXCEPT ![f] = Closed] /\ ~InUse(f) /\ call' = call
    BY DEF CloseSocket, CloseProgram
  <1>2. /\ open' = [g \in Fds |-> open'[g]] /\ open'[f] = Closed
        /\ \A g \in Fds \ {f} : open'[g] = open[g] /\ FdOK(g)' /\ (IsSocket(g)' <=> IsSocket(g))
        /\ \A t \in Threads : Holds(t)'
    BY <1>1, FdStep
  <1>3. Tables'
    BY <1>1, <1>2 DEF IndInv, Tables, CloseSocket, CloseProgram
  <1>4. \A g \in Fds : FdOK(g)'
    BY <1>2 DEF FdOK
  <1>5. ~IsSocket(f)'
    BY <1>2, Kinds DEF IsSocket
  <1>6. \A g, h \in Fds : IsSocket(g)' /\ open'[g] = open'[h] => g = h
    BY <1>2, <1>5 DEF IndInv, IsSocket
  <1>7. f \notin owned'
    BY Kinds DEF IndInv, CloseSocket, CloseProgram, IsOpen
  <1>8. owned' \subseteq Fds /\ \A g \in owned' : open'[g].kind = "prog"
    BY <1>2, <1>7 DEF IndInv, CloseSocket, CloseProgram
  <1> QED
    BY <1>2, <1>3, <1>4, <1>6, <1>8 DEF IndInv

LEMMA LoadStep == ASSUME IndInv, NEW t \in Threads, Load(t) PROVE IndInv'
  <1> DEFINE insns == call[t].insns
  <1>1. PICK f \in Fds : f = Min(FreeFds) /\ open[f] = Closed
    BY MinIsFree DEF Load
  <1>2. /\ open' = [open EXCEPT ![f] = Prog(insns)] /\ filter' = filter
        /\ call[t].pc = "load" /\ Len(insns) \in 1..MAX_BPF_INSNS
        /\ Loaded(t, f)
    BY <1>1 DEF Load, Loadable
  <1>3. /\ open' = [g \in Fds |-> open'[g]] /\ open'[f] = Prog(insns)
        /\ \A g \in Fds \ {f} : open'[g] = open[g] /\ FdOK(g)' /\ (IsSocket(g)' <=> IsSocket(g))
        /\ \A u \in Threads : call'[u] = call[u] => Holds(u)'
    BY <1>1, <1>2, FdStep
  <1>4. \A u \in Threads \ {t} : call'[u] = call[u]
    BY <1>2 DEF Loaded, Finish, IndInv, Tables
  <1>5. Tables'
    BY <1>2, <1>3 DEF IndInv, Tables, Loaded, Finish
  <1>6. \A g \in Fds : FdOK(g)'
    BY <1>2, <1>3, Kinds DEF FdOK
  <1>7. ~IsSocket(f)'
    BY <1>3, Kinds DEF IsSocket
  <1>8. \A g, h \in Fds : IsSocket(g)' /\ open'[g] = open'[h] => g = h
    <2>1. ASSUME NEW g \in Fds, NEW h \in Fds, IsSocket(g)', open'[g] = open'[h] PROVE g = h
      <3>1. g # f /\ h # f
        BY <1>7, <2>1 DEF IsSocket
      <3> QED
        BY <1>3, <2>1, <3>1 DEF IndInv
    <2> QED
      BY <2>1
  <1>9. owned' \subseteq Fds /\ \A g \in owned' : open'[g].kind = "prog"
    BY <1>1, <1>2, <1>3, Kinds DEF IndInv, Loaded
  <1>10. Holds(t)'
    <2>1. CASE call[t].fn = "load_filter"
      BY <1>2, <2>1 DEF Loaded, Finish, Holds, IndInv, Tables
    <2>2. CASE call[t].fn # "load_filter"
      <3>1. /\ Record(t) /\ HoldsSocket(t)
            /\ call[t].fn = Attaching => insns = compile_literal_search(call[t].pattern).prog
        BY <1>2, <2>2, Fields DEF IndInv, Holds
      <3>2. call'[t] = [call[t] EXCEPT !.pc = "attach", !.prog_fd = f]
        BY <1>2, <2>2 DEF Loaded, IndInv, Tables
      <3>3. call'[t] = InCall("attach", call[t].fn, call[t].pattern, insns, f, call[t].target_socket)
        BY <3>1, <3>2 DEF Record, InCall
      <3>4. /\ call'[t].pc = "attach" /\ call'[t].fn = call[t].fn
            /\ call'[t].pattern = call[t].pattern /\ call'[t].insns = insns
            /\ call'[t].prog_fd = f /\ call'[t].target_socket = call[t].target_socket
            /\ Record(t)'
        BY <3>3, Fields DEF Record
      <3>5. call[t].target_socket # f
        BY <1>1, <3>1, Kinds DEF HoldsSocket, IsSocket
      <3>6. HoldsSocket(t)'
        BY <1>3, <3>1, <3>4, <3>5 DEF HoldsSocket, IsSocket
      <3>7. call'[t].fn = Attaching => call'[t].insns = compile_literal_search(call'[t].pattern).prog
        BY <3>1, <3>4
      <3> QED
        BY <1>1, <1>3, <3>4, <3>6, <3>7 DEF Holds
    <2> QED
      BY <2>1, <2>2
  <1> QED
    BY <1>3, <1>4, <1>5, <1>6, <1>8, <1>9, <1>10 DEF IndInv

\* The steps that end a call.
Ends(t) == LoadRefused(t) \/ LoadFails(t) \/ AttachFails(t) \/ Attach(t)
LEMMA EndStep == ASSUME IndInv, NEW t \in Threads, Ends(t) PROVE IndInv'
  <1>1. filter' = [s \in Sockets |-> filter'[s]] /\ open' = open /\ owned' = owned
    BY DEF Ends, LoadRefused, LoadFails, AttachFails, Attach, IndInv, Tables
  <1>2. Finish(t, "Ok") \/ Finish(t, "Io")
    BY DEF Ends, LoadRefused, LoadFails, AttachFails, Attach
  <1> QED
    BY <1>1, <1>2, FinishStep

LEMMA Step == IndInv /\ [Next]_attachVars => IndInv'
  <1> SUFFICES ASSUME IndInv, [Next]_attachVars PROVE IndInv'
    OBVIOUS
  <1>1. CASE UNCHANGED attachVars
    BY <1>1 DEF attachVars, IndInv, Tables, FdOK, IsSocket, Holds, Record, HoldsSocket
  <1>2. CASE Next
    <2>1. ASSUME NEW s \in Sockets, OpenSocket(s) PROVE IndInv'
      BY <2>1, OpenStep
    <2>2. ASSUME NEW f \in Fds, CloseSocket(f) \/ CloseProgram(f) PROVE IndInv'
      BY <2>2, CloseStep
    <2>3. ASSUME NEW t \in Threads, Begin(t) \/ Compile(t) \/ Load(t) \/ Ends(t) PROVE IndInv'
      BY <2>3, BeginStep, CompileStep, LoadStep, EndStep
    <2> QED
      BY <1>2, <2>1, <2>2, <2>3 DEF Next, Ends
  <1> QED
    BY <1>1, <1>2

\* The invariant holds in every reachable state of loader/prog.rs.
THEOREM Invariance == Spec => []IndInv
  BY InitOK, Step, PTL DEF Spec

-----------------------------------------------------------------------------
\* Descriptors and calls are well typed: in particular no call of
\* attach_to_socket uses the -1 of a failed load.
THEOREM TypeCorrect == Spec => []TypeOK
  <1>1. IndInv => TypeOK
    <2> SUFFICES ASSUME IndInv PROVE TypeOK
      OBVIOUS
    <2>1. \A f \in Fds : \/ open[f] \in {Closed} \cup {Socket(s) : s \in Sockets}
                         \/ open[f].kind = "prog" /\ Len(open[f].insns) \in 1..MAX_BPF_INSNS
      BY Kinds DEF IndInv, FdOK, IsSocket
    <2>2. DOMAIN filter = Sockets
      BY DEF IndInv, Tables
    <2>3. ASSUME NEW t \in Threads
          PROVE  \/ call[t].pc = "idle" /\ call[t].ret \in {"none", "Ok", "Compile", "Io"}
                 \/ call[t].pc = "compile" /\ call[t].pattern \in Patterns
                 \/ call[t].pc = "load"
                 \/ call[t].pc = "attach" /\ call[t].prog_fd \in Fds /\ call[t].target_socket \in Fds
      BY Fields DEF IndInv, Holds, HoldsSocket
    <2> QED
      BY <2>1, <2>2, <2>3 DEF TypeOK, IndInv
  <1> QED
    BY <1>1, Invariance, PTL

\* Between load_filter and attach_to_socket a call's descriptors stay its own,
\* whatever other threads open, load and close.
THEOREM DescriptorsStayLive == Spec => []FilterFdLive
  <1>1. IndInv => FilterFdLive
    <2> SUFFICES ASSUME IndInv, NEW t \in Threads, call[t].pc = "attach"
                 PROVE  /\ open[call[t].prog_fd] = Prog(call[t].insns)
                        /\ open[call[t].target_socket].kind = "socket"
      BY DEF FilterFdLive
    <2>1. HoldsSocket(t) /\ open[call[t].prog_fd] = Prog(call[t].insns)
      BY Fields DEF IndInv, Holds
    <2> QED
      BY <2>1, Kinds DEF HoldsSocket, IsSocket
  <1> QED
    BY <1>1, Invariance, PTL

\* A step that ends an attach is AttachFails or Attach of that thread.
LEMMA AttachEnds ==
    ASSUME IndInv, Next, NEW t \in Threads, call[t].pc = "attach", call'[t].pc = "idle"
    PROVE  AttachFails(t) \/ Attach(t)
  <1>1. call'[t] # call[t]
    OBVIOUS
  <1>2. ASSUME NEW u \in Threads, u # t,
               Begin(u) \/ Compile(u) \/ Load(u) \/ Ends(u)
        PROVE  FALSE
    BY <1>1, <1>2 DEF Begin, Compile, Load, Loaded, Finish, Ends, LoadRefused, LoadFails,
                      AttachFails, Attach, IndInv, Tables
  <1>3. ~(Begin(t) \/ Compile(t) \/ Load(t) \/ LoadRefused(t) \/ LoadFails(t))
    BY DEF Begin, Compile, Load, Loadable, LoadRefused, LoadFails
  <1> QED
    BY <1>1, <1>2, <1>3 DEF Next, Ends, OpenSocket, CloseSocket, CloseProgram

\* A call reports Ok exactly when its own program is on its own socket, a failed
\* one changes no socket, and no open socket loses its filter.
THEOREM AttachIsAsReported == Spec => AttachedAsReported
  <1> DEFINE Reported(t) ==
        filter' = IF call'[t].ret = "Ok"
                    THEN [filter EXCEPT ![open[call[t].target_socket].id] = Wanted(t)] ELSE filter
  <1> DEFINE EndsAttach(t) == call[t].pc = "attach" /\ call'[t].pc = "idle"
  <1>1. ASSUME IndInv, Next, NEW t \in Threads, EndsAttach(t) PROVE Reported(t)
    <2>1. AttachFails(t) \/ Attach(t)
      BY <1>1, AttachEnds
    <2>2. CASE AttachFails(t)
      <3>1. call'[t].ret = "Io"
        BY <1>1, <2>2, Fields DEF AttachFails, Finish, IndInv, Tables
      <3> QED
        BY <2>2, <3>1 DEF AttachFails
    <2>3. CASE Attach(t)
      <3>1. call'[t].ret = "Ok"
        BY <1>1, <2>3, Fields DEF Attach, Finish, IndInv, Tables
      <3>2. open[call[t].prog_fd].insns = call[t].insns
        BY <1>1, Fields, Kinds DEF IndInv, Holds
      <3>3. call[t].insns = Wanted(t)
        BY <1>1, Fields DEF IndInv, Holds, Wanted, Attaching
      <3> QED
        BY <2>3, <3>1, <3>2, <3>3 DEF Attach
    <2> QED
      BY <2>1, <2>2, <2>3
  <1>2. ASSUME IndInv, Next, NEW s \in Sockets, filter'[s] # filter[s]
        PROVE  (\E t \in Threads : EndsAttach(t)) \/ \A f \in Fds : open'[f] # Socket(s)
    <2>1. ASSUME NEW t \in Threads, Attach(t) PROVE EndsAttach(t)
      BY <1>2, <2>1, Fields DEF Attach, Finish, IndInv, Tables
    <2>2. ASSUME NEW f \in Fds, CloseSocket(f) PROVE \A g \in Fds : open'[g] # Socket(s)
      <3>1. filter' = [filter EXCEPT ![open[f].id] = NoFilter] /\ IsOpen(f, "socket")
        BY <2>2 DEF CloseSocket
      <3>2. IsSocket(f)
        BY <1>2, <3>1, Kinds DEF IndInv, FdOK, IsOpen
      <3>3. open[f] = Socket(s)
        BY <1>2, <3>1, <3>2, Kinds DEF IndInv, Tables, IsSocket
      <3>4. open'[f] = Closed /\ \A g \in Fds \ {f} : open'[g] = open[g] /\ open[g] # Socket(s)
        BY <1>2, <2>2, <3>2, <3>3 DEF CloseSocket, IndInv, Tables
      <3> QED
        BY <3>4, Kinds
    <2>3. (\E t \in Threads : Attach(t)) \/ (\E f \in Fds : CloseSocket(f))
      BY <1>2 DEF Next, OpenSocket, CloseProgram, Begin, Compile, Load, LoadRefused, LoadFails,
                  AttachFails
    <2> QED
      BY <2>1, <2>2, <2>3
  <1>3. IndInv /\ [Next]_attachVars => [StepReported]_attachVars
    BY <1>1, <1>2 DEF StepReported
  <1> QED
    BY <1>3, Invariance, PTL DEF Spec, AttachedAsReported
=============================================================================
