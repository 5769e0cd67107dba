-------------------------------- MODULE Bpf --------------------------------
(***************************************************************************)
(* The instruction format of assembler.rs and the jump patching of         *)
(* compiler/emit.rs.  Instructions are numbers, as in the source: a code,  *)
(* two registers packed in a byte, a signed offset and an immediate.       *)
(* The operations listed are the ones that compiler/codegen.rs uses, and   *)
(* those a listing knows.                                                  *)
(***************************************************************************)
EXTENDS Integers

CONSTANT I16_MAX       \* i16::MAX, the largest jump or memory offset

ASSUME OffsetAssumption == I16_MAX \in Nat

\* Instruction classes, sizes, operations, source and mode bits.
BPF_LDX == 1
BPF_JMP == 5
BPF_ALU64 == 7
BPF_B == 16
BPF_W == 0
BPF_MEM == 96
BPF_ADD == 0
BPF_MOV == 176
BPF_JA == 0
BPF_JEQ == 16
BPF_JGT == 32
BPF_JNE == 80
BPF_EXIT == 144
BPF_JLT == 160
BPF_JLE == 176
BPF_K == 0
BPF_X == 8

R0 == 0
R1 == 1
R2 == 2
R3 == 3
R4 == 4
R5 == 5
R6 == 6
R7 == 7

\* `x as u16' in its place.
as_i16Unsigned(x) == x % (2 * (I16_MAX + 1))

\* `x as i16': the low bits of x, read as a signed number.
as_i16(x) == ((x + I16_MAX + 1) % (2 * (I16_MAX + 1))) - (I16_MAX + 1)

\* BpfInsn::new.  Shifts and masks of a byte; the bits of two parts of a code
\* never overlap, so `|' is addition.
BpfInsn(code, dst, src, off, imm) ==
    [code |-> code, regs |-> ((src * 16) % 256) + (dst % 16), off |-> off, imm |-> imm]

dst_reg(i) == i.regs % 16
src_reg(i) == i.regs \div 16

alu64_imm(op, dst, imm)    == BpfInsn(BPF_ALU64 + op + BPF_K, dst, 0, 0, imm)
alu64_reg(op, dst, src)    == BpfInsn(BPF_ALU64 + op + BPF_X, dst, src, 0, 0)
ldx_mem(size, dst, src, off) == BpfInsn(BPF_LDX + BPF_MEM + size, dst, src, off, 0)
jmp_imm(op, dst, imm, off) == BpfInsn(BPF_JMP + op + BPF_K, dst, 0, off, imm)
jmp_reg(op, dst, src, off) == BpfInsn(BPF_JMP + op + BPF_X, dst, src, off, 0)
exit == BpfInsn(BPF_JMP + BPF_EXIT, 0, 0, 0, 0)

\* The target itself in place of its offset.
jump_offsetAbsolute(from, to) == as_i16(to)

\* Offsets count from the instruction after the jump.
jump_offset(from, to) == as_i16(to - from - 1)

\* The instruction that a patch leaves at index from.
patch_match_jump(from, match_idx) == BpfInsn(BPF_JMP + BPF_JA, R0, 0, jump_offset(from, match_idx), 0)
patch_reg_jump(from, to, dst, src, op) == BpfInsn(BPF_JMP + op + BPF_X, dst, src, jump_offset(from, to), 0)
patch_imm_jump(from, to, dst, imm, op) == BpfInsn(BPF_JMP + op + BPF_K, dst, 0, jump_offset(from, to), imm)

-----------------------------------------------------------------------------
\* The distance that a listing names, counted from the jump itself.
goto_distanceRaw(i) == i.off
goto_distance(i) == as_i16(i.off + 1)

\* The Display of an instruction, as the parts of the line it prints.
Display(i) ==
    LET code == i.code
        Move(op, source) == [op |-> op, dst |-> dst_reg(i), from |-> source]
        If(rel, right) == [op |-> "if", left |-> dst_reg(i), rel |-> rel, right |-> right,
                           goto |-> goto_distance(i)]
        reg == [reg |-> src_reg(i)]
        imm == [imm |-> i.imm]
        memory == [reg |-> src_reg(i), off |-> i.off]
    IN  CASE code = BPF_JMP + BPF_EXIT          -> [op |-> "exit"]
          [] code = BPF_LDX + BPF_MEM + BPF_B   -> Move("load8", memory)
          [] code = BPF_LDX + BPF_MEM + BPF_W   -> Move("load32", memory)
          [] code = BPF_ALU64 + BPF_MOV + BPF_K -> Move("=", imm)
          [] code = BPF_ALU64 + BPF_MOV + BPF_X -> Move("=", reg)
          [] code = BPF_ALU64 + BPF_ADD + BPF_K -> Move("+=", imm)
          [] code = BPF_ALU64 + BPF_ADD + BPF_X -> Move("+=", reg)
          [] code = BPF_JMP + BPF_JA            -> [op |-> "goto", goto |-> goto_distance(i)]
          [] code = BPF_JMP + BPF_JEQ + BPF_K   -> If("==", imm)
          [] code = BPF_JMP + BPF_JNE + BPF_K   -> If("!=", imm)
          [] code = BPF_JMP + BPF_JGT + BPF_X   -> If(">", reg)
          [] code = BPF_JMP + BPF_JLT + BPF_K   -> If("<", imm)
          [] code = BPF_JMP + BPF_JLE + BPF_K   -> If("<=", imm)
          [] OTHER                              -> [op |-> "raw", insn |-> i]

\* Each instruction with its index in front.
format_program(program) ==
    [k \in DOMAIN program |-> [index |-> k - 1, line |-> Display(program[k])]]
=============================================================================
