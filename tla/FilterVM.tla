------------------------------ MODULE FilterVM ------------------------------
(***************************************************************************)
(* A compiled program running on a packet.  The machine is the kernel's,   *)
(* external to this repository: it is given by the instruction set's       *)
(* encoding and by the register conventions that the comments of           *)
(* codegen.rs state.  Everything the program does comes from Codegen.      *)
(***************************************************************************)
EXTENDS ClassParser

CONSTANTS
    Byte,              \* the bytes that a class is asked about
    Packets,           \* packets: sequences of bytes
    Literals,          \* patterns of compile_literal_search
    Alternations,      \* inputs of compile_alternation
    Classes,           \* inputs of compile_char_class: sequences of ranges
    Texts              \* inputs of compile_character_class

VARIABLES
    job,       \* what is compiled: [kind, arg]
    data,      \* the packet
    result,    \* the outcome of the compilation
    pc,        \* index of the next instruction
    reg,       \* the registers that hold a value
    status     \* "running", "exited", or "rejected" at compile time

vmVars == <<job, data, result, pc, reg, status>>

\* Addresses of the context and of the packet, disjoint and not 0.
CtxAddr == 8
DataAddr == 32
DataEnd == DataAddr + Len(data)

Jobs ==
    [kind : {"literal"}, arg : Literals] \cup [kind : {"alternation"}, arg : Alternations]
        \cup [kind : {"class"}, arg : Classes] \cup [kind : {"text"}, arg : Texts]

Compile(j) ==
    CASE j.kind = "literal"     -> compile_literal_search(j.arg)
      [] j.kind = "alternation" -> compile_alternation(j.arg)
      [] j.kind = "class"       -> compile_char_class(j.arg)
      [] j.kind = "text"        -> compile_character_class(j.arg)

\* The registers a program is entered with: R1 the context for a whole filter,
\* R3 and R5 for an alternation, which may be entered at any position of the
\* packet, and R7, the byte, for a class.  The others are empty.
EntryRegs(kind) ==
    CASE kind = "literal" -> {(R1 :> CtxAddr)}
      [] kind = "alternation" ->
           {(R3 :> DataEnd) @@ (R5 :> at) : at \in DataAddr..DataEnd}
      [] kind \in {"class", "text"} -> {(R7 :> b) : b \in Byte}

Init ==
    /\ job \in Jobs
    /\ data \in IF job.kind \in {"class", "text"} THEN {<<>>} ELSE Packets
    /\ result = Compile(job)
    /\ pc = 0
    /\ reg \in EntryRegs(job.kind)
    /\ status = IF result.ok THEN "running" ELSE "rejected"

-----------------------------------------------------------------------------
prog == result.prog
Insn == prog[pc + 1]
Src == reg[src_reg(Insn)]
Dst == reg[dst_reg(Insn)]

Code(class, op, source) == Insn.code = class + op + source

\* The registers an instruction reads.
Reads ==
    (IF Insn.code % 8 = BPF_LDX \/ (Insn.code \div 8) % 2 = 1 THEN {src_reg(Insn)} ELSE {})
    \cup (IF Insn.code % 8 = BPF_LDX \/ Code(BPF_JMP, BPF_JA, BPF_K)
            \/ \E source \in {BPF_K, BPF_X} : Code(BPF_ALU64, BPF_MOV, source)
          THEN {} ELSE {dst_reg(Insn)})

Running == status = "running" /\ pc \in 0..(Len(prog) - 1) /\ Reads \subseteq DOMAIN reg

\* A register gets a value, the next instruction follows.
Set(value) ==
    /\ reg' = (dst_reg(Insn) :> value) @@ reg
    /\ pc' = pc + 1
    /\ UNCHANGED <<job, data, result, status>>

Branch(taken) ==
    /\ pc' = IF taken THEN pc + 1 + Insn.off ELSE pc + 1
    /\ UNCHANGED <<job, data, result, reg, status>>

Alu ==
    /\ Running
    /\ \/ Code(BPF_ALU64, BPF_MOV, BPF_K) /\ Set(Insn.imm)
       \/ Code(BPF_ALU64, BPF_MOV, BPF_X) /\ Set(Src)
       \/ Code(BPF_ALU64, BPF_ADD, BPF_K) /\ Set(Dst + Insn.imm)
       \/ Code(BPF_ALU64, BPF_ADD, BPF_X) /\ Set(Dst + Src)

\* A 32-bit load reads a field of the context, an 8-bit load a packet byte.
LoadContext ==
    /\ Running /\ Code(BPF_LDX, BPF_MEM, BPF_W)
    /\ \/ Src + Insn.off = CtxAddr     /\ Set(DataAddr)
       \/ Src + Insn.off = CtxAddr + 4 /\ Set(DataEnd)

LoadByte ==
    /\ Running /\ Code(BPF_LDX, BPF_MEM, BPF_B)
    /\ Src + Insn.off \in DataAddr..(DataEnd - 1)
    /\ Set(data[Src + Insn.off - DataAddr + 1])

Jump ==
    /\ Running
    /\ \/ Code(BPF_JMP, BPF_JA, BPF_K)  /\ Branch(TRUE)
       \/ Code(BPF_JMP, BPF_JGT, BPF_X) /\ Branch(Dst > Src)
       \/ Code(BPF_JMP, BPF_JNE, BPF_K) /\ Branch(Dst # Insn.imm)
       \/ Code(BPF_JMP, BPF_JLT, BPF_K) /\ Branch(Dst < Insn.imm)
       \/ Code(BPF_JMP, BPF_JLE, BPF_K) /\ Branch(Dst <= Insn.imm)

Exit ==
    /\ Running /\ Code(BPF_JMP, BPF_EXIT, BPF_K)
    /\ status' = "exited"
    /\ UNCHANGED <<job, data, result, pc, reg>>

Next == Alu \/ LoadContext \/ LoadByte \/ Jump \/ Exit

\* The machine runs a loaded program on a packet to its end.
Spec == Init /\ [][Next]_vmVars /\ WF_vmVars(Next)

-----------------------------------------------------------------------------
(* Reference definitions: what a pattern means.                            *)

BytesAt(at, n) == SubSeq(data, at + 1, at + n)
OccursAt(pattern, at) == at + Len(pattern) <= Len(data) /\ BytesAt(at, Len(pattern)) = pattern

LiteralMatches(pattern) == \E at \in 0..Len(data) : OccursAt(pattern, at)
AlternationMatches(alternatives, at) ==
    \E k \in DOMAIN alternatives : OccursAt(alternatives[k], at)
ClassMatches(ranges, byte) ==
    \E k \in DOMAIN ranges : ranges[k].lo <= byte /\ byte <= ranges[k].hi

Exited(kind) == status = "exited" /\ job.kind = kind
Verdict(matches) == reg[R0] = IF matches THEN 1 ELSE 0

-----------------------------------------------------------------------------
(* Properties.                                                             *)

\* The machine's state keeps its types: every instruction that the compile
\* functions emit fits the fields of BpfInsn (u8, u8, i16), whatever is executed
\* the program counter is an index, and the registers hold numbers.
TypeOK ==
    /\ job \in Jobs /\ data \in Packets \cup {<<>>}
    /\ result.ok => \A k \in DOMAIN prog :
          prog[k].code \in 0..255 /\ prog[k].regs \in 0..255
            /\ prog[k].off \in -(I16_MAX + 1)..I16_MAX
    /\ pc \in Nat
    /\ DOMAIN reg \subseteq 0..10 /\ \A r \in DOMAIN reg : reg[r] \in Int
    /\ status \in {"running", "exited", "rejected"}

\* A running program is always at one of its instructions, reads no register
\* before it has a value, and each load it is about to do reads the context or a
\* byte of the packet: the bounds check in
\* front of the unrolled comparison covers every load behind it.
MemorySafe ==
    status = "running" =>
        /\ pc \in 0..(Len(prog) - 1)
        /\ Reads \subseteq DOMAIN reg
        /\ Code(BPF_LDX, BPF_MEM, BPF_W) => Src + Insn.off \in {CtxAddr, CtxAddr + 4}
        /\ Code(BPF_LDX, BPF_MEM, BPF_B) => Src + Insn.off \in DataAddr..(DataEnd - 1)

\* A literal program returns 1 exactly for packets that contain the pattern,
\* the first and the last position included.
LiteralVerdict == Exited("literal") => Verdict(LiteralMatches(job.arg))

\* An alternation returns 1 exactly when some alternative starts at R5 and ends
\* within the packet, also when an earlier one is too long to fit.
AlternationVerdict ==
    Exited("alternation") => Verdict(AlternationMatches(job.arg, reg[R5] - DataAddr))

\* A class returns 1 exactly for the bytes of its ranges, in any order of the
\* ranges, overlapping or not.
ClassVerdict == Exited("class") => Verdict(ClassMatches(job.arg, reg[R7]))

\* A class given as text is compiled exactly when the text is well formed and its
\* program fits the limit: no escape, dash or range is let through or refused by
\* where in the text it stands.
TextAccepted ==
    job.kind = "text" =>
        /\ result.ok => WellFormed(job.arg)
        /\ ~result.ok => ~WellFormed(job.arg) \/ result.err = "PatternTooLong"

\* Its program returns 1 exactly for the bytes that the text denotes, through the
\* tokens, the ranges and the jumps: a dash is an operator only between two bytes
\* that no other range has used.
TextVerdict == Exited("text") => Verdict(TextMatches(job.arg, reg[R7]))

IsJump(i) == i.code % 8 = BPF_JMP /\ i # exit

\* Every jump of a compiled program, taken or not, lands on one of its
\* instructions: no patched offset is off by one and none wraps as an i16.
JumpsLandInside ==
    result.ok => \A k \in DOMAIN prog :
        IsJump(prog[k]) => k + prog[k].off \in 0..(Len(prog) - 1)

\* "Must equal compile_alternation's emitted length exactly" (verify.rs:205 and
\* verify.rs:193): the counts given to compile_with_limit are the lengths emitted.
LengthAsEstimated ==
    result.ok => Len(prog) =
        CASE job.kind = "literal"     -> literal_search_instruction_count(Len(job.arg))
          [] job.kind = "alternation" -> estimate_alternation_instructions(job.arg)
          [] job.kind = "class"       -> estimate_character_class_instructions(job.arg)
          [] job.kind = "text"        ->
               estimate_character_class_instructions(parse_character_class(job.arg).items)

\* The listing of a program (format_program) describes what the machine does: no
\* instruction is listed raw, a step that is not to the next line goes to the line
\* that the listed distance names, and only the listed register changes.
RunsAsListed ==
    [][LET listed == format_program(prog)[pc + 1]
           line == listed.line
       IN  /\ line.op # "raw"
           /\ pc' \notin {pc, pc + 1} =>
                 line.op \in {"goto", "if"} /\ pc' = listed.index + line.goto
           /\ reg' # reg => /\ line.op \in {"load8", "load32", "=", "+="}
                            /\ reg' = (line.dst :> reg'[line.dst]) @@ reg]_vmVars

\* Every program halts on every packet: the search loop ends.
Terminates == <>(status # "running")
=============================================================================
