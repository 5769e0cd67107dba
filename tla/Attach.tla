------------------------------- MODULE Attach -------------------------------
(***************************************************************************)
(* loader/prog.rs and attach_kernel_page_discard of lib.rs: a pattern is   *)
(* compiled, the program is loaded into the kernel, which hands out a      *)
(* descriptor for it, and the program is attached to a socket.  Threads    *)
(* call these functions concurrently on the descriptor table that they     *)
(* share with the rest of the application.  The kernel may refuse any of   *)
(* its calls; it gives out the lowest free descriptor.                     *)
(***************************************************************************)
EXTENDS Codegen

CONSTANTS
    Threads,           \* threads that call the crate
    Sockets,           \* sockets that the application opens
    Fds,               \* the descriptors the process may have (RLIMIT_NOFILE)
    Patterns,          \* patterns of attach_kernel_page_discard
    Programs,          \* programs that the application gives to load_filter
    MAX_BPF_INSNS      \* 4096 in prog.rs

\* prog.rs:10 and verify.rs:28 state the same limit.
ASSUME AttachAssumption ==
    /\ Fds \subseteq Nat /\ IsFiniteSet(Fds)
    /\ MAX_BPF_INSNS = MAX_BPF_INSTRUCTION_LEN

VARIABLES
    open,      \* what each descriptor is open for
    filter,    \* the program attached to each socket, NoFilter if none
    call,      \* the call each thread is in, and how its last one returned
    owned      \* the program descriptors that load_filter has returned

attachVars == <<open, filter, call, owned>>

NoFilter == <<>>
Closed == [kind |-> "closed"]
Socket(s) == [kind |-> "socket", id |-> s]
Prog(insns) == [kind |-> "prog", insns |-> insns]

FreeFds == {f \in Fds : open[f] = Closed}
IsOpen(f, kind) == f \in Fds /\ open[f].kind = kind
InUse(f) == \E t \in Threads : call[t].pc # "idle" /\ f \in {call[t].prog_fd, call[t].target_socket}

Idle(ret) == [pc |-> "idle", ret |-> ret]
InCall(pc, fn, pattern, insns, prog_fd, target_socket) ==
    [pc |-> pc, fn |-> fn, pattern |-> pattern, insns |-> insns, prog_fd |-> prog_fd,
     target_socket |-> target_socket]

Init ==
    /\ open = [f \in Fds |-> Closed]
    /\ filter = [s \in Sockets |-> NoFilter]
    /\ call = [t \in Threads |-> Idle("none")]
    /\ owned = {}

-----------------------------------------------------------------------------
(* The application.                                                        *)

OpenSocket(s) ==
    /\ FreeFds # {} /\ \A f \in Fds : open[f] # Socket(s)
    /\ open' = [open EXCEPT ![Min(FreeFds)] = Socket(s)]
    /\ UNCHANGED <<filter, call, owned>>

\* "Both file descriptors are valid (caller contract)" (prog.rs:114): it closes
\* no descriptor that a call still works on.
CloseSocket(f) ==
    /\ IsOpen(f, "socket") /\ ~InUse(f)
    /\ filter' = [filter EXCEPT ![open[f].id] = NoFilter]
    /\ open' = [open EXCEPT ![f] = Closed]
    /\ UNCHANGED <<call, owned>>

\* A socket keeps the program it is attached to.
CloseProgram(f) ==
    /\ f \in owned /\ ~InUse(f)
    /\ open' = [open EXCEPT ![f] = Closed]
    /\ owned' = owned \ {f}
    /\ UNCHANGED <<filter, call>>

Begin(t) ==
    /\ call[t].pc = "idle"
    /\ \/ \E pattern \in Patterns, f \in Fds :
             /\ IsOpen(f, "socket")
             /\ call' = [call EXCEPT ![t] =
                           InCall("compile", "attach_kernel_page_discard", pattern, <<>>, -1, f)]
       \/ \E insns \in Programs :
             call' = [call EXCEPT ![t] = InCall("load", "load_filter", <<>>, insns, -1, -1)]
       \/ \E p \in owned, f \in Fds :
             /\ IsOpen(f, "socket")
             /\ call' = [call EXCEPT ![t] =
                           InCall("attach", "attach_to_socket", <<>>, open[p].insns, p, f)]
    /\ UNCHANGED <<open, filter, owned>>

-----------------------------------------------------------------------------
(* The crate.                                                              *)

Finish(t, ret) == call' = [call EXCEPT ![t] = Idle(ret)]

\* attach_kernel_page_discard, up to load_filter.
Compile(t) ==
    /\ call[t].pc = "compile"
    /\ LET result == compile_literal_search(call[t].pattern)
       IN  IF result.ok
             THEN call' = [call EXCEPT ![t].pc = "load", ![t].insns = result.prog]
             ELSE Finish(t, "Compile")
    /\ UNCHANGED <<open, filter, owned>>

LoadRefused(t) ==
    /\ call[t].pc = "load"
    /\ call[t].insns = <<>> \/ Len(call[t].insns) > MAX_BPF_INSNS
    /\ Finish(t, "Io")
    /\ UNCHANGED <<open, filter, owned>>

\* The caller of load_filter gets the descriptor; attach_kernel_page_discard
\* goes on with it.
Loaded(t, fd) ==
    IF call[t].fn = "load_filter"
      THEN Finish(t, "Ok") /\ owned' = owned \cup {fd}
      ELSE call' = [call EXCEPT ![t].pc = "attach", ![t].prog_fd = fd] /\ UNCHANGED owned

Loadable(t) == call[t].pc = "load" /\ Len(call[t].insns) \in 1..MAX_BPF_INSNS

\* BPF_PROG_LOAD: the verifier, a missing privilege or a full table refuse it.
\* First the variant without the test of fd < 0.
LoadFailsUnchecked(t) ==
    /\ Loadable(t)
    /\ Loaded(t, -1)
    /\ UNCHANGED <<open, filter>>
LoadFails(t) ==
    /\ Loadable(t)
    /\ Finish(t, "Io")
    /\ UNCHANGED <<open, filter, owned>>

\* First the variant in which the descriptor is closed on return.
LoadDropsFd(t) ==
    /\ Loadable(t) /\ FreeFds # {}
    /\ Loaded(t, Min(FreeFds))
    /\ UNCHANGED <<open, filter>>
Load(t) ==
    /\ Loadable(t) /\ FreeFds # {}
    /\ open' = [open EXCEPT ![Min(FreeFds)] = Prog(call[t].insns)]
    /\ Loaded(t, Min(FreeFds))
    /\ UNCHANGED filter

\* setsockopt(SO_ATTACH_BPF) refused.  Nothing closes prog_fd.  First the variant
\* that ignores res.
AttachFailsUnchecked(t) ==
    /\ call[t].pc = "attach"
    /\ Finish(t, "Ok")
    /\ UNCHANGED <<open, filter, owned>>
AttachFails(t) ==
    /\ call[t].pc = "attach"
    /\ Finish(t, "Io")
    /\ UNCHANGED <<open, filter, owned>>

\* setsockopt replaces the filter that the socket has.
Attach(t) ==
    /\ call[t].pc = "attach"
    /\ IsOpen(call[t].prog_fd, "prog") /\ IsOpen(call[t].target_socket, "socket")
    /\ filter' = [filter EXCEPT ![open[call[t].target_socket].id] = open[call[t].prog_fd].insns]
    /\ Finish(t, "Ok")
    /\ UNCHANGED <<open, owned>>

Next ==
    \/ \E s \in Sockets : OpenSocket(s)
    \/ \E f \in Fds : CloseSocket(f) \/ CloseProgram(f)
    \/ \E t \in Threads :
          \/ Begin(t) \/ Compile(t) \/ LoadRefused(t) \/ LoadFails(t) \/ Load(t)
          \/ AttachFails(t) \/ Attach(t)

Spec == Init /\ [][Next]_attachVars

-----------------------------------------------------------------------------
(* Properties.                                                             *)

\* Descriptors are open for a socket or for a program within the limit, those
\* that load_filter returned are programs, and no call works on a descriptor
\* that is not one (the -1 of a failed load is never used).
TypeOK ==
    /\ \A f \in Fds :
          \/ open[f] \in {Closed} \cup {Socket(s) : s \in Sockets}
          \/ open[f].kind = "prog" /\ Len(open[f].insns) \in 1..MAX_BPF_INSNS
    /\ DOMAIN filter = Sockets
    /\ owned \subseteq Fds /\ \A f \in owned : open[f].kind = "prog"
    /\ \A t \in Threads :
          \/ call[t].pc = "idle" /\ call[t].ret \in {"none", "Ok", "Compile", "Io"}
          \/ call[t].pc = "compile" /\ call[t].pattern \in Patterns
          \/ call[t].pc = "load"
          \/ call[t].pc = "attach" /\ call[t].prog_fd \in Fds /\ call[t].target_socket \in Fds

\* A thread between load and attach holds a descriptor that is open for the very
\* program it loaded, and its socket is open, whatever the other threads load,
\* attach and close meanwhile.
FilterFdLive ==
    \A t \in Threads :
        call[t].pc = "attach" =>
            /\ open[call[t].prog_fd] = Prog(call[t].insns)
            /\ open[call[t].target_socket].kind = "socket"


\* The program that thread t is asked to attach.
Wanted(t) ==
    IF call[t].fn = "attach_kernel_page_discard"
      THEN compile_literal_search(call[t].pattern).prog ELSE call[t].insns

\* A step that ends an attach changes the sockets as the call reports, and only
\* such a step or a close takes a filter from a socket.
StepReported ==
    /\ \A t \in Threads :
          call[t].pc = "attach" /\ call'[t].pc = "idle" =>
              filter' = IF call'[t].ret = "Ok"
                          THEN [filter EXCEPT ![open[call[t].target_socket].id] = Wanted(t)]
                          ELSE filter
    /\ \A s \in Sockets :
          filter'[s] # filter[s] =>
              \/ \E t \in Threads : call[t].pc = "attach" /\ call'[t].pc = "idle"
              \/ \A f \in Fds : open'[f] # Socket(s)

\* An attach is all or nothing, and reported so: a call that returns Ok from
\* setsockopt has put the program of its own pattern on its own socket, a failed
\* one has changed no socket, and an open socket never loses its filter.
AttachedAsReported == [][StepReported]_attachVars

\* "returning an active FDA" (lib.rs:58): every program descriptor has an owner,
\* the call that loaded it or the caller it was returned to.
ProgramFdsOwned ==
    \A f \in Fds :
        open[f].kind = "prog" =>
            f \in owned \/ \E t \in Threads : call[t].pc = "attach" /\ call[t].prog_fd = f
=============================================================================
