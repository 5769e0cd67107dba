------------------------------ MODULE Codegen ------------------------------
(***************************************************************************)
(* compiler/codegen.rs and the limits of compiler/verify.rs: the programs  *)
(* compiled for a literal search, an alternation and a character class.    *)
(* A compilation is Ok(prog) or an Err.  Instruction indices are those of  *)
(* the code, from 0; instruction idx of a program is prog[idx + 1].  The   *)
(* code pushes placeholders and patches them when it knows the targets;    *)
(* here a target is named by the index at which its block starts.          *)
(***************************************************************************)
EXTENDS Bpf, SequencesExt

CONSTANTS MAX_BPF_PATTERN_LEN, MAX_BPF_INSTRUCTION_LEN

\* 1024 and 4096 in the source: offsets inside a program fit an i16.
ASSUME LimitAssumption ==
    /\ MAX_BPF_PATTERN_LEN \in Nat /\ MAX_BPF_INSTRUCTION_LEN \in Nat
    /\ MAX_BPF_INSTRUCTION_LEN <= I16_MAX

Ok(prog) == [ok |-> TRUE, prog |-> prog]
PatternTooLong(len, max) == [ok |-> FALSE, err |-> "PatternTooLong", len |-> len, max |-> max]
InvalidPattern(reason) == [ok |-> FALSE, err |-> "InvalidPattern", reason |-> reason]

compile_with_limit(count, then) ==
    IF count > MAX_BPF_INSTRUCTION_LEN
      THEN PatternTooLong(count, MAX_BPF_INSTRUCTION_LEN) ELSE then

Return(r0) == <<alu64_imm(BPF_MOV, R0, r0), exit>>

-----------------------------------------------------------------------------
literal_search_instruction_count(pattern_len) ==
    IF pattern_len = 0 THEN 4 ELSE 14 + pattern_len * 2

p_lenShort(pattern) == Len(pattern) - 1
p_lenLong(pattern) == Len(pattern) + 1
p_len(pattern) == Len(pattern)

\* The loop starts behind the prologue; the jump back to it is at index from.
loop_start_idx == 3
jump_back_offsetFar(from) == as_i16(loop_start_idx - from - 2)
jump_back_offset(from) == as_i16(loop_start_idx - from - 1)

LiteralSearch(pattern) ==
    LET n == Len(pattern)
        prologue == << ldx_mem(BPF_W, R2, R1, 0), ldx_mem(BPF_W, R3, R1, 4),
                       alu64_imm(BPF_MOV, R4, 0) >>
        head == << alu64_reg(BPF_MOV, R5, R2), alu64_reg(BPF_ADD, R5, R4),
                   alu64_reg(BPF_MOV, R6, R5), alu64_imm(BPF_ADD, R6, p_len(pattern)) >>
        bounds_check_idx == loop_start_idx + Len(head)
        compare_idx == bounds_check_idx + 1
        next_iter_idx == compare_idx + 2 * n + 2
        loop_fail_idx == next_iter_idx + 2
        bounds_check == << jmp_reg(BPF_JGT, R6, R3, as_i16(loop_fail_idx - bounds_check_idx - 1)) >>
        \* Byte i (from 0) takes two instructions, a load and a jump.
        compare == [k \in 1..(2 * n) |->
            LET i == (k - 1) \div 2
                idx == compare_idx + k - 1
            IN  IF k % 2 = 1
                  THEN ldx_mem(BPF_B, R7, R5, as_i16(i))
                  ELSE jmp_imm(BPF_JNE, R7, pattern[i + 1], as_i16(next_iter_idx - idx - 1))]
        next_iter == << alu64_imm(BPF_ADD, R4, 1),
                        jmp_imm(BPF_JA, R0, 0, jump_back_offset(next_iter_idx + 1)) >>
    IN  prologue \o head \o bounds_check \o compare \o Return(1) \o next_iter \o Return(0)

compile_literal_search(pattern) ==
    compile_with_limit(literal_search_instruction_count(Len(pattern)),
        IF Len(pattern) > MAX_BPF_PATTERN_LEN
          THEN PatternTooLong(Len(pattern), MAX_BPF_PATTERN_LEN)
          ELSE Ok(IF pattern = <<>>
                    THEN << ldx_mem(BPF_W, R2, R1, 0), ldx_mem(BPF_W, R3, R1, 4) >> \o Return(1)
                    ELSE LiteralSearch(pattern)))

-----------------------------------------------------------------------------
\* alternative_start_indices, with fail_idx as the entry after the last.
AlternativeStarts(alternatives) ==
    LET start[k \in 1..(Len(alternatives) + 1)] ==
            IF k = 1 THEN 0 ELSE start[k - 1] + 4 + 2 * Len(alternatives[k - 1])
    IN  start

\* Where a mismatch in alternative a goes on.
next_alt_idxFails(start, a, n) == start[n + 1]
next_alt_idx(start, a, n) == start[a + 1]

\* The estimate that the comment in the function says was the earlier one.
estimate_alternation_instructionsLow(alternatives) ==
    IF alternatives = <<>> \/ \E k \in DOMAIN alternatives : alternatives[k] = <<>>
      THEN 2
      ELSE 2 + FoldLeft(LAMBDA sum, alt : sum + 2 + Len(alt) * 2, 0, alternatives)

estimate_alternation_instructions(alternatives) ==
    IF alternatives = <<>> \/ \E k \in DOMAIN alternatives : alternatives[k] = <<>>
      THEN 2
      ELSE 4 + FoldLeft(LAMBDA sum, alt : sum + 4 + Len(alt) * 2, 0, alternatives)

Alternation(alternatives) ==
    LET start == AlternativeStarts(alternatives)
        fail_idx == start[Len(alternatives) + 1]
        success_idx == fail_idx + 2
        Block(a) ==
            LET alt == alternatives[a]
                next == next_alt_idx(start, a, Len(alternatives))
                bound_check_idx == start[a]
                match_idx == bound_check_idx + 3 + 2 * Len(alt)
            IN  << alu64_reg(BPF_MOV, R6, R5), alu64_imm(BPF_ADD, R6, Len(alt)),
                   patch_reg_jump(bound_check_idx + 2, next, R6, R3, BPF_JGT) >>
                \o [k \in 1..(2 * Len(alt)) |->
                      LET offset == (k - 1) \div 2
                          idx == bound_check_idx + 3 + k - 1
                      IN  IF k % 2 = 1
                            THEN ldx_mem(BPF_B, R7, R5, as_i16(offset))
                            ELSE patch_imm_jump(idx, next, R7, alt[offset + 1], BPF_JNE)]
                \o << patch_match_jump(match_idx, success_idx) >>
    IN  FlattenSeq([a \in DOMAIN alternatives |-> Block(a)]) \o Return(0) \o Return(1)

compile_alternation(alternatives) ==
    IF alternatives = <<>> THEN Ok(Return(0))
    ELSE IF \E k \in DOMAIN alternatives : alternatives[k] = <<>> THEN Ok(Return(1))
    ELSE compile_with_limit(estimate_alternation_instructions(alternatives),
                            Ok(Alternation(alternatives)))

-----------------------------------------------------------------------------
estimate_character_class_instructions(ranges) == IF ranges = <<>> THEN 2 ELSE 4 + Len(ranges) * 2

\* The block that returns 1 starts behind the checks and the failing block.
match_target(ranges) == 2 * Len(ranges) + 2

\* How far a byte below lo jumps: over the check of hi.
SkipUpperCheckTwo == 2
SkipUpperCheck == 1

CharClass(ranges) ==
    LET check == [k \in 1..(2 * Len(ranges)) |->
            LET r == ranges[(k + 1) \div 2]
            IN  IF k % 2 = 1
                  THEN jmp_imm(BPF_JLT, R7, r.lo, SkipUpperCheck)
                  ELSE jmp_imm(BPF_JLE, R7, r.hi, as_i16(match_target(ranges)) - as_i16(k - 1) - 1)]
    IN  check \o Return(0) \o Return(1)

compile_char_class(ranges) ==
    IF ranges = <<>> THEN InvalidPattern("no range")
    ELSE IF \E k \in DOMAIN ranges : ranges[k].lo > ranges[k].hi
           THEN InvalidPattern("reversed")
           ELSE compile_with_limit(4 + Len(ranges) * 2, Ok(CharClass(ranges)))
=============================================================================
