---------------------------- MODULE KernelDetect ----------------------------
(***************************************************************************)
(* loader/core_detect.rs: what the kernel supports, by its version.  Each  *)
(* question reads /proc/sys/kernel/osrelease again; a release that cannot  *)
(* be read or parsed counts as version 0.0.0 and is reported on stderr,    *)
(* once per process (std::sync::Once).  A text is a sequence of ASCII      *)
(* codes.                                                                  *)
(***************************************************************************)
EXTENDS Integers, SequencesExt

CONSTANTS
    Threads,           \* threads that ask
    Osreleases,        \* contents of the file
    U32_MAX            \* u32::MAX

ASSUME U32Assumption == U32_MAX \in Nat

VARIABLES
    osrelease,     \* the file, the same as long as the kernel runs
    call,          \* what each thread asks, and the answers it has
    WARNED,        \* the Once: "incomplete", "running", "complete" or "poisoned"
    stderr         \* the reasons printed so far

detectVars == <<osrelease, call, WARNED, stderr>>

-----------------------------------------------------------------------------
(* The version.                                                            *)

IsDigit(c) == c \in 48..57
Whitespace == (9..13) \cup {32}

trimNot(text) == text
trim(text) ==
    LET kept == {i \in DOMAIN text : text[i] \notin Whitespace}
    IN  IF kept = {} THEN <<>> ELSE SubSeq(text, Min(kept), Max(kept))

\* split at every character that is not a digit, which starts a new piece.
split(text) ==
    LET pieces[i \in 0..Len(text)] ==
            IF i = 0 THEN << <<>> >>
            ELSE LET before == pieces[i - 1]
                 IN  IF IsDigit(text[i])
                       THEN [before EXCEPT ![Len(before)] = Append(@, text[i])]
                       ELSE Append(before, <<>>)
    IN  pieces[Len(text)]

\* str::parse::<u32> fails on no digit and on overflow.
Value(digits) == FoldLeft(LAMBDA v, c : 10 * v + c - 48, 0, digits)
parsesAny(piece) == piece # <<>>
parses(piece) == piece # <<>> /\ Value(piece) <= U32_MAX

None == <<>>
parse_kernel_release(text) ==
    LET parts == split(text)
        part(k) == IF k <= Len(parts) THEN Value(parts[k]) ELSE 0
    IN  IF \A k \in 1..3 : k <= Len(parts) => parses(parts[k])
          THEN <<part(1), part(2), part(3)>> ELSE None

\* `>=' of tuples: the first component that differs decides.
AtLeastMajor(v, w) == v[1] >= w[1]
AtLeast(v, w) ==
    v = w \/ \E k \in 1..3 : v[k] > w[k] /\ \A j \in 1..(k - 1) : v[j] = w[j]

\* The versions that a public function asks for, one after the other, and what it
\* makes of each.
Questions(fn) ==
    CASE fn = "has_ringbuf" -> <<"ringbuf">>
      [] fn = "has_fentry"  -> <<"fentry">>
      [] fn = "diagnostics" -> <<"kernel", "fentry", "ringbuf">>

Answer(question, version) ==
    CASE question = "kernel"  -> version
      [] question = "fentry"  -> AtLeast(version, <<5, 5, 0>>)
      [] question = "ringbuf" -> AtLeast(version, <<5, 8, 0>>)

-----------------------------------------------------------------------------
Idle(asked, answers) == [pc |-> "idle", asked |-> asked, answers |-> answers]

Init ==
    /\ osrelease \in Osreleases
    /\ call = [t \in Threads |-> Idle(<<>>, <<>>)]
    /\ WARNED = "incomplete"
    /\ stderr = <<>>

\* Behind a panic a new thread asks.
Ask(t) ==
    /\ call[t].pc \in {"idle", "panicked"}
    /\ \E fn \in {"has_ringbuf", "has_fentry", "diagnostics"} :
          call' = [call EXCEPT ![t] = [pc |-> "read", asked |-> Questions(fn), answers |-> <<>>]]
    /\ UNCHANGED <<osrelease, WARNED, stderr>>

\* kernel_version returns: the answer is added, the next question or the caller
\* comes next.
Answered(t, version) ==
    LET answers == Append(call[t].answers,
                          Answer(call[t].asked[Len(call[t].answers) + 1], version))
        pc == IF Len(answers) < Len(call[t].asked) THEN "read" ELSE "idle"
    IN  call' = [call EXCEPT ![t] = [pc |-> pc, asked |-> @.asked, answers |-> answers]]

Warn(t, reason) ==
    call' = [call EXCEPT ![t] = [pc |-> "warn", asked |-> @.asked, answers |-> @.answers,
                                 reason |-> reason]]

\* kernel_version: the read may fail (no /proc, no descriptor left), once or always.
Read(t) ==
    /\ call[t].pc = "read"
    /\ \/ Warn(t, "unreadable")
       \/ LET version == parse_kernel_release(trim(osrelease))
          IN  IF version = None THEN Warn(t, "unparseable") ELSE Answered(t, version)
    /\ UNCHANGED <<osrelease, WARNED, stderr>>

\* WARNED.call_once: the first caller runs the closure, the others wait for it to
\* end and go on; after a panic in it they panic too.  First three variants: a
\* flag in its place, set before the message is printed or only after it, and a
\* read that is tried again after a panic.
CallOnceUnawaited(t) ==
    /\ call[t].pc = "warn"
    /\ IF WARNED = "incomplete"
         THEN WARNED' = "running" /\ call' = [call EXCEPT ![t].pc = "print"]
         ELSE UNCHANGED WARNED /\ Answered(t, <<0, 0, 0>>)
    /\ UNCHANGED <<osrelease, stderr>>
CallOnceLate(t) ==
    /\ call[t].pc = "warn"
    /\ IF WARNED \in {"incomplete", "running"}
         THEN WARNED' = "running" /\ call' = [call EXCEPT ![t].pc = "print"]
         ELSE UNCHANGED WARNED /\ Answered(t, <<0, 0, 0>>)
    /\ UNCHANGED <<osrelease, stderr>>
CallOnceRetries(t) ==
    /\ call[t].pc = "warn" /\ WARNED # "running"
    /\ CASE WARNED = "incomplete" -> WARNED' = "running" /\ call' = [call EXCEPT ![t].pc = "print"]
         [] WARNED = "complete"   -> UNCHANGED WARNED /\ Answered(t, <<0, 0, 0>>)
         [] WARNED = "poisoned"   -> UNCHANGED WARNED /\ call' = [call EXCEPT ![t].pc = "read"]
    /\ UNCHANGED <<osrelease, stderr>>
CallOnce(t) ==
    /\ call[t].pc = "warn"
    /\ \/ /\ WARNED = "incomplete"
          /\ WARNED' = "running"
          /\ call' = [call EXCEPT ![t].pc = "print"]
       \/ /\ WARNED = "complete"
          /\ Answered(t, <<0, 0, 0>>)
          /\ UNCHANGED WARNED
       \/ /\ WARNED = "poisoned"
          /\ call' = [call EXCEPT ![t].pc = "panicked"]
          /\ UNCHANGED WARNED
    /\ UNCHANGED <<osrelease, stderr>>

\* eprintln! in the closure; kernel_version then returns (0, 0, 0).
PrintWarning(t) ==
    /\ call[t].pc = "print"
    /\ stderr' = Append(stderr, call[t].reason)
    /\ WARNED' = "complete"
    /\ Answered(t, <<0, 0, 0>>)
    /\ UNCHANGED osrelease

\* eprintln! panics when stderr cannot be written, and the Once is poisoned.
PrintPanics(t) ==
    /\ call[t].pc = "print"
    /\ WARNED' = "poisoned"
    /\ call' = [call EXCEPT ![t].pc = "panicked"]
    /\ UNCHANGED <<osrelease, stderr>>

Step(t) == Read(t) \/ CallOnce(t) \/ PrintWarning(t) \/ PrintPanics(t)
Next == \E t \in Threads : Ask(t) \/ Step(t)

\* A thread that has asked keeps running; nobody has to ask.
Spec == Init /\ [][Next]_detectVars /\ \A t \in Threads : WF_detectVars(Step(t))

-----------------------------------------------------------------------------
(* Reference: what a release says, read number by number.                  *)

\* The number that starts at position i ends at End(text, i), i - 1 if none does.
End(text, i) == Max({j \in (i - 1)..Len(text) : \A k \in i..j : IsDigit(text[k])})
NumberAt(text, i) == Value(SubSeq(text, i, End(text, i)))
HasNumber(text, i) == i <= Len(text) /\ IsDigit(text[i])
Fits(text, i) == HasNumber(text, i) /\ NumberAt(text, i) <= U32_MAX

\* The first line of the file.
Release ==
    SubSeq(osrelease, 1, Min({i \in DOMAIN osrelease : osrelease[i] = 10} \cup {Len(osrelease) + 1}) - 1)
SecondAt == End(Release, 1) + 2
ThirdAt == End(Release, SecondAt) + 2

\* The kernel is 5.minor or later.
Supports(minor) ==
    /\ HasNumber(Release, 1)
    /\ \/ NumberAt(Release, 1) > 5
       \/ NumberAt(Release, 1) = 5 /\ HasNumber(Release, SecondAt)
            /\ NumberAt(Release, SecondAt) >= minor

\* One, two or three numbers; only behind the third anything may follow.
WellFormed ==
    /\ Fits(Release, 1)
    /\ SecondAt <= Len(Release) + 1 =>
          /\ Fits(Release, SecondAt)
          /\ ThirdAt <= Len(Release) + 1 => Fits(Release, ThirdAt)

\* A call has this answer to a question about a feature.
Said(question, answer) ==
    \E t \in Threads : \E k \in DOMAIN call[t].answers :
        call[t].asked[k] = question /\ call[t].answers[k] = answer

-----------------------------------------------------------------------------
(* Properties.                                                             *)

\* Every version answered is three numbers of a u32: an overflowing component
\* never gets through parse_kernel_release.
TypeOK ==
    /\ WARNED \in {"incomplete", "running", "complete", "poisoned"}
    /\ \A k \in DOMAIN stderr : stderr[k] \in {"unparseable", "unreadable"}
    /\ \A t \in Threads :
          /\ call[t].pc \in {"idle", "read", "warn", "print", "panicked"}
          /\ Len(call[t].answers) <= Len(call[t].asked)
          /\ \A k \in DOMAIN call[t].answers :
                IF call[t].asked[k] = "kernel"
                  THEN call[t].answers[k] \in Seq(0..U32_MAX) /\ Len(call[t].answers[k]) = 3
                  ELSE call[t].answers[k] \in BOOLEAN

\* A feature is only called supported on a kernel whose release says so, whatever
\* fails: "a fail-closed default" (core_detect.rs:75).
FailsClosed ==
    /\ Said("fentry", TRUE) => Supports(5)
    /\ Said("ringbuf", TRUE) => Supports(8)

\* A feature of a capable kernel is never called unsupported silently: when a
\* thread has such an answer the reason is already on stderr, also if another
\* thread is the one that prints it.  So the lines of one diagnostics(), which
\* come from three reads, agree as long as nothing was printed.
NeverSilent ==
    stderr = <<>> =>
        /\ Said("fentry", FALSE) => ~Supports(5)
        /\ Said("ringbuf", FALSE) => ~Supports(8)

\* "The warning fires once so repeated has_*() calls do not spam"
\* (core_detect.rs:49), with threads that find out at the same time.
WarnsOnce == Len(stderr) <= 1

\* A release of one, two or three numbers is never reported as unparseable,
\* newline of the file and text behind the third number included.
WarnsForCause == Contains(stderr, "unparseable") => ~WellFormed

\* Every question ends, with an answer or a panic: no thread waits for ever on
\* the Once, also when the thread inside it panics.
CallsReturn ==
    \A t \in Threads : call[t].pc = "read" ~> call[t].pc \in {"idle", "panicked"}

\* "Vendor suffixes and separators after the digits are ignored"
\* (core_detect.rs:108) and "Absent minor/patch legitimately default to 0"
\* (core_detect.rs:63): a release with a suffix behind its second number parses.
SuffixIgnored ==
    Contains(stderr, "unparseable") =>
        ~(/\ Fits(Release, 1) /\ Fits(Release, SecondAt)
          /\ ThirdAt <= Len(Release) + 1 /\ Release[ThirdAt - 1] = 45)
=============================================================================
