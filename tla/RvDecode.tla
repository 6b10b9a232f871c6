------------------------------ MODULE RvDecode ------------------------------
\* Decoding of the riscv64 guest (isa_fetch_decode and its tables): which
\* helper an instruction word selects, with which operands, and how the trace
\* cache is told that it ends a block.  Many words select a specialised helper
\* (c_mv, p_inc, p_ret, c_beqz ...): Meaning says what each helper does as an
\* instruction of RV64, to be compared with what the manuals say of the word.
EXTENDS Bits, Sequences, FiniteSets

CONSTANTS
  Regs,     \* register numbers tried in 32-bit instructions
  Rs2s      \* values tried in their rs2 field

VARIABLE in  \* [share, c, w]: build, compressed or not, the instruction

SEXT(x, n) == Signed(n, x)
BITS(h, hi, lo) == Field(h, hi, lo)
creg2reg(r) == r + 8
Inv == [h |-> "inv", src1 |-> 0, src2 |-> 0, dest |-> 0]
D(h, src1, src2, dest) == [h |-> h, src1 |-> src1, src2 |-> src2, dest |-> dest]

-----------------------------------------------------------------------------
\* rvc/decode.h; h is the halfword, pc is 0.

ror_imm(imm, len, r) == IF r = 0 THEN imm ELSE (imm \div 2^r) * 2^r + (imm % 2^r) * 2^len

imm6(h) == BITS(h, 12, 12) * 32 + BITS(h, 6, 2)
decode_CI(h, k, imm, creg) ==
  LET r == IF creg THEN creg2reg(BITS(h, 9, 7)) ELSE BITS(h, 11, 7) IN D(k, r, imm, r)
CI_simm(h, k) == decode_CI(h, k, SEXT(imm6(h), 6), FALSE)
CI_uimm(h, k) == decode_CI(h, k, imm6(h), FALSE)
CB_shift(h, k) == decode_CI(h, k, imm6(h), TRUE)
CB_andi(h, k) == decode_CI(h, k, SEXT(imm6(h), 6), TRUE)

CI_simm_lui(h, share) ==
  LET d == CI_simm(h, "lui") IN IF share /\ d.src2 = 0 THEN Inv ELSE [d EXCEPT !.src1 = d.src2 * 4096]
C_LI(h, k) == [CI_simm(h, k) EXCEPT !.src1 = 0]
C_ADDI16SP(h, share) ==
  LET simm == SEXT(BITS(h, 12, 12), 1) * 512 + BITS(h, 4, 3) * 128 + BITS(h, 5, 5) * 64 + BITS(h, 2, 2) * 32 + BITS(h, 6, 6) * 16
  IN  IF simm = 0 THEN (IF share THEN Inv ELSE [Inv EXCEPT !.h = "assert"]) ELSE D("c_addi", 2, simm, 2)
C_LxSP(h, k, rotate, fp, share) ==
  LET rd == BITS(h, 11, 7) IN IF share /\ rd = 0 /\ ~ fp THEN Inv ELSE D(k, 2, ror_imm(imm6(h), 6, rotate), rd)
C_SxSP(h, k, rotate) == D(k, 2, ror_imm(BITS(h, 12, 7), 6, rotate), BITS(h, 6, 2))
C_ADDI4SPN(h) ==
  D("addi", 2, ror_imm(BITS(h, 12, 7), 6, 4) + BITS(h, 5, 5) * 8 + BITS(h, 6, 6) * 4, creg2reg(BITS(h, 4, 2)))
decode_C_ldst_common(h, k, rotate) ==
  D(k, creg2reg(BITS(h, 9, 7)), ror_imm(BITS(h, 12, 10) * 4 + BITS(h, 6, 5), 5, rotate) * 2, creg2reg(BITS(h, 4, 2)))
CS(h, k) == LET r == creg2reg(BITS(h, 9, 7)) IN D(k, r, creg2reg(BITS(h, 4, 2)), r)
CB(h, k) ==
  D(k, creg2reg(BITS(h, 9, 7)), 0,
    SEXT(BITS(h, 12, 12), 1) * 256 + BITS(h, 6, 5) * 64 + BITS(h, 2, 2) * 32 + BITS(h, 11, 10) * 8 + BITS(h, 4, 3) * 2)
CJ(h) ==
  D("c_j", SEXT(BITS(h, 12, 12), 1) * 2048 + BITS(h, 8, 8) * 1024 + BITS(h, 10, 9) * 256 + BITS(h, 6, 6) * 128
           + BITS(h, 7, 7) * 64 + BITS(h, 2, 2) * 32 + BITS(h, 11, 11) * 16 + BITS(h, 5, 3) * 2, 0, 0)
C_JR(h, k, share) == IF share /\ BITS(h, 11, 7) = 0 THEN Inv ELSE D(k, BITS(h, 11, 7), 0, 0)

\* c_addi_dispatch, c_addiw_dispatch, c_li_dispatch
c_addi_dispatch(d) == CASE d.src2 = 1 -> [d EXCEPT !.h = "p_inc"] [] d.src2 = -1 -> [d EXCEPT !.h = "p_dec"]
                        [] OTHER -> [d EXCEPT !.h = "c_addi"]
c_addiw_dispatch(d, share) == IF share /\ d.dest = 0 THEN Inv ELSE [d EXCEPT !.h = "c_addiw"]

rvc_Q0(h) ==
  LET f3 == BITS(h, 15, 13)
  IN  CASE f3 = 0 -> IF BITS(h, 12, 5) = 0 THEN Inv ELSE C_ADDI4SPN(h)
        [] f3 = 1 -> decode_C_ldst_common(h, "fld", 2) [] f3 = 2 -> decode_C_ldst_common(h, "lw", 1)
        [] f3 = 3 -> decode_C_ldst_common(h, "ld", 2)  [] f3 = 4 -> Inv
        [] f3 = 5 -> decode_C_ldst_common(h, "fsd", 2) [] f3 = 6 -> decode_C_ldst_common(h, "sw", 1)
        [] f3 = 7 -> decode_C_ldst_common(h, "sd", 2)

rvc_Q1_compute(h) ==
  LET k == BITS(h, 6, 5)
  IN  CASE BITS(h, 11, 10) = 0 -> CB_shift(h, "c_srli") [] BITS(h, 11, 10) = 1 -> CB_shift(h, "c_srai")
        [] BITS(h, 11, 10) = 2 -> CB_andi(h, "c_andi")
        [] BITS(h, 11, 10) = 3 /\ BITS(h, 12, 12) = 0 -> CS(h, <<"c_sub", "c_xor", "c_or", "c_and">>[k + 1])
        [] BITS(h, 11, 10) = 3 /\ BITS(h, 12, 12) = 1 -> IF k >= 2 THEN Inv ELSE CS(h, <<"c_subw", "c_addw">>[k + 1])

rvc_Q1(h, share) ==
  LET f3 == BITS(h, 15, 13)
  IN  CASE f3 = 0 -> c_addi_dispatch(CI_simm(h, "c_addi"))
        [] f3 = 1 -> c_addiw_dispatch(CI_simm(h, "c_addiw"), share)
        [] f3 = 2 -> C_LI(h, IF imm6(h) = 0 THEN "p_li_0" ELSE IF imm6(h) = 1 THEN "p_li_1" ELSE "c_li")
        [] f3 = 3 -> IF BITS(h, 11, 7) = 2 THEN C_ADDI16SP(h, share) ELSE CI_simm_lui(h, share)
        [] f3 = 4 -> rvc_Q1_compute(h)
        [] f3 = 5 -> CJ(h) [] f3 = 6 -> CB(h, "c_beqz") [] f3 = 7 -> CB(h, "c_bnez")

\* rvc_Q2_jr_mov, rvc_Q2_jalr_add
rvc_Q2_misc(h, share) ==
  LET r1 == BITS(h, 11, 7)
      r2 == BITS(h, 6, 2)
  IN  IF BITS(h, 12, 12) = 0
      THEN IF r2 # 0 THEN D("c_mv", r2, 0, r1) ELSE C_JR(h, IF r1 = 1 THEN "p_ret" ELSE "c_jr", share)
      ELSE CASE r2 # 0 -> D("c_add", r1, r2, r1) [] r2 = 0 /\ r1 = 0 -> Inv
             [] r2 = 0 /\ r1 = 1 -> D("jalr", r1, 0, 1) [] r2 = 0 /\ r1 > 1 -> D("c_jalr", r1, 0, 1)

rvc_Q2(h, share) ==
  LET f3 == BITS(h, 15, 13)
  IN  CASE f3 = 0 -> CI_uimm(h, "c_slli") [] f3 = 1 -> C_LxSP(h, "fld", 3, TRUE, share)
        [] f3 = 2 -> C_LxSP(h, "lw", 2, FALSE, share) [] f3 = 3 -> C_LxSP(h, "ld", 3, FALSE, share)
        [] f3 = 4 -> rvc_Q2_misc(h, share) [] f3 = 5 -> C_SxSP(h, "fsd", 3)
        [] f3 = 6 -> C_SxSP(h, "sw", 2) [] f3 = 7 -> C_SxSP(h, "sd", 3)

rvc(h, share) == CASE h % 4 = 0 -> rvc_Q0(h) [] h % 4 = 1 -> rvc_Q1(h, share) [] h % 4 = 2 -> rvc_Q2(h, share)

-----------------------------------------------------------------------------
\* rvi/decode.h, rvm/decode.h and table_main; i is [f7, rs2, rs1, f3, rd, opc].
\* A table is a sequence of rows <<f7, f3, helper>>, the first match counts.
All(n) == 0 .. 2^n - 1
First(rows, i) ==
  LET m == {k \in DOMAIN rows : i.f7 \in rows[k][1] /\ i.f3 \in rows[k][2] /\ i.rs2 \in rows[k][3]}
  IN  IF m = {} THEN "inv" ELSE rows[CHOOSE k \in m : \A j \in m : k <= j][4]
Row(f7, f3, k) == <<f7, {f3}, All(5), k>>
Row5(f7, rs2, f3, k) == <<f7, {f3}, {rs2}, k>>

simm(i) == SEXT(i.f7 * 32 + i.rs2, 12)
\* Two words of 6 bits: the patterns 000000?.
Sh(f6) == {2 * f6, 2 * f6 + 1}

load_store_names(names, i) == IF i.f3 < Len(names) THEN names[i.f3 + 1] ELSE "inv"
load(i) == load_store_names(<<"lb", "lh", "lw", "ld", "lbu", "lhu", "lwu">>, i)
store(i) == load_store_names(<<"sb", "sh", "sw", "sd">>, i)

addi_dispatch(i) ==
  CASE i.rs1 = 0 -> (IF simm(i) = 0 THEN "p_li_0" ELSE IF simm(i) = 1 THEN "p_li_1" ELSE "c_li")
    [] i.rs1 # 0 -> (IF simm(i) = 0 THEN "c_mv" ELSE "addi")

op_imm(i) ==
  LET two == IF i.rd # i.rs1 THEN <<>>
             ELSE <<Row(All(7), 0, "c_addi_dispatch"), Row(All(7), 7, "c_andi"), Row(Sh(0), 1, "c_slli"),
                    Row(Sh(16), 5, "c_srai"), Row(Sh(0), 5, "c_srli")>>
  IN  First(two \o
       <<Row(All(7), 0, "addi_dispatch"), Row(All(7), 2, "slti"), Row(All(7), 3, "sltui"), Row(All(7), 4, "xori"),
         Row(All(7), 6, "ori"), Row(All(7), 7, "andi"), Row(Sh(0), 1, "slli"), Row(Sh(0), 5, "srli"), Row(Sh(16), 5, "srai"),
         Row(Sh(10), 1, "bseti"), Row5({20}, 7, 5, "orc_b"), Row(Sh(18), 1, "bclri"), Row(Sh(18), 5, "bexti"),
         Row5({48}, 0, 1, "clz"), Row5({48}, 1, 1, "ctz"), Row5({48}, 2, 1, "cpop"), Row5({48}, 4, 1, "sext_b"),
         Row5({48}, 5, 1, "sext_h"), Row(Sh(24), 5, "rori"), Row(Sh(26), 1, "binvi"), Row5({53}, 24, 5, "rev8"),
         Row5({52}, 7, 5, "revb")>>, i)

op_imm32(i) ==
  LET two == IF i.rd # i.rs1 \/ i.rd = 0 THEN <<>> ELSE <<Row(All(7), 0, "c_addiw_dispatch")>>
  IN  First(two \o
       <<Row5({0}, 0, 0, "p_sext_w"), Row(All(7), 0, "addiw"), Row({0}, 1, "slliw"), Row({0}, 5, "srliw"),
         Row({32}, 5, "sraiw"), Row(Sh(2), 1, "slliuw"), Row5({48}, 0, 1, "clzw"), Row5({48}, 1, 1, "ctzw"),
         Row5({48}, 2, 1, "cpopw"), Row({48}, 5, "roriw")>>, i)

op(i) ==
  LET two == IF i.rd # i.rs1 THEN <<>>
             ELSE <<Row({0}, 0, "c_add"), Row({32}, 0, "c_sub"), Row({0}, 4, "c_xor"), Row({0}, 6, "c_or"), Row({0}, 7, "c_and")>>
  IN  First(two \o
       <<Row({0}, 0, "add"), Row({0}, 1, "sll"), Row({0}, 2, "slt"), Row({0}, 3, "sltu"), Row({0}, 4, "xor"), Row({0}, 5, "srl"),
         Row({0}, 6, "or"), Row({0}, 7, "and"), Row({32}, 0, "sub"), Row({32}, 5, "sra"),
         Row({5}, 1, "clmul"), Row({5}, 2, "clmulr"), Row({5}, 3, "clmulh"), Row({5}, 4, "min"), Row({5}, 5, "minu"),
         Row({5}, 6, "max"), Row({5}, 7, "maxu"), Row({16}, 2, "sh1add"), Row({16}, 4, "sh2add"), Row({16}, 6, "sh3add"),
         Row({20}, 1, "bset"), Row({32}, 4, "xnor"), Row({32}, 6, "orn"), Row({32}, 7, "andn"), Row({36}, 1, "bclr"),
         Row({36}, 5, "bext"), Row({48}, 1, "rol"), Row({48}, 5, "ror"), Row({52}, 1, "binv"), Row({4}, 4, "pack"),
         Row({4}, 7, "packh"), Row({20}, 2, "xpermn"), Row({20}, 4, "xpermb")>>, i)

op32(i) ==
  LET two == IF i.rd # i.rs1 THEN <<>> ELSE <<Row({0}, 0, "c_addw"), Row({32}, 0, "c_subw")>>
  IN  First(two \o
       <<Row({0}, 0, "addw"), Row({32}, 0, "subw"), Row({0}, 1, "sllw"), Row({0}, 5, "srlw"), Row({32}, 5, "sraw"),
         Row({4}, 0, "adduw"), Row({16}, 2, "sh1adduw"), Row({16}, 4, "sh2adduw"), Row({16}, 6, "sh3adduw"),
         Row({48}, 1, "rolw"), Row({48}, 5, "rorw"), Row({4}, 4, "packw")>>, i)

rvm(i) == <<"mul", "mulh", "mulhsu", "mulhu", "div", "divu", "rem", "remu">>[i.f3 + 1]
rvm32(i) == CASE i.f3 = 0 -> "mulw" [] i.f3 \in 1 .. 3 -> "inv" [] i.f3 > 3 -> <<"divw", "divuw", "remw", "remuw">>[i.f3 - 3]

branch_swapped(i) ==
  IF i.rs1 = 0 /\ i.rs2 # 0 /\ i.f3 \in {4, 5} THEN (IF i.f3 = 4 THEN "p_blez" ELSE "p_bgtz")
  ELSE <<"beq", "bne", "inv", "inv", "blt", "bge", "bltu", "bgeu">>[i.f3 + 1]
branch(i) ==
  CASE i.rs2 = 0 /\ i.f3 \in {0, 1, 4, 5} -> (CASE i.f3 = 0 -> "c_beqz" [] i.f3 = 1 -> "c_bnez" [] i.f3 = 4 -> "p_bltz" [] i.f3 = 5 -> "p_bgez")
    [] i.rs2 # 0 /\ i.rs1 = 0 /\ i.f3 \in {4, 5} -> (IF i.f3 = 4 THEN "p_bgtz" ELSE "p_blez")
    [] OTHER -> <<"beq", "bne", "inv", "inv", "blt", "bge", "bltu", "bgeu">>[i.f3 + 1]

\* The operands of the formats.
R(i, k) == D(k, i.rs1, i.rs2, i.rd)
I(i, k) == D(k, i.rs1, simm(i), i.rd)
S(i, k) == D(k, i.rs1, SEXT(i.f7, 7) * 32 + i.rd, i.rs2)
B(i, k) == D(k, i.rs1, i.rs2, SEXT(i.f7 \div 64, 1) * 4096 + (i.rd % 2) * 2048 + (i.f7 % 64) * 32 + (i.rd \div 2) * 2)
U(i, k) == D(k, SEXT(i.f7, 7) * 8192 * 4096 + (i.rs2 * 256 + i.rs1 * 8 + i.f3) * 4096, 0, i.rd)
J(i, k) == D(k, SEXT(i.f7 \div 64, 1) * 1048576 + (i.rs1 * 8 + i.f3) * 4096 + (i.rs2 % 2) * 2048
                + ((i.f7 % 64) * 16 + i.rs2 \div 2) * 2, 0, i.rd)

\* Rows of the tables that dispatch once more.
Again(d, share) ==
  CASE d.h = "c_addi_dispatch" -> c_addi_dispatch(d) [] d.h = "c_addiw_dispatch" -> c_addiw_dispatch(d, share) [] OTHER -> d

main(i, share) ==
  CASE i.opc = 0 -> I(i, load(i)) [] i.opc = 8 -> S(i, store(i))
    [] i.opc = 3 -> I(i, IF i.f3 = 0 THEN "fence" ELSE IF i.f3 = 1 THEN "fence_i" ELSE "inv")
    [] i.opc = 4 -> LET k == op_imm(i) IN Again(I(i, IF k = "addi_dispatch" THEN addi_dispatch(i) ELSE k), share)
    [] i.opc = 6 -> Again(I(i, op_imm32(i)), share)
    [] i.opc = 12 -> R(i, IF i.f7 = 1 THEN rvm(i) ELSE op(i)) [] i.opc = 14 -> R(i, IF i.f7 = 1 THEN rvm32(i) ELSE op32(i))
    [] i.opc = 5 -> U(i, "auipc") [] i.opc = 13 -> U(i, "lui") [] i.opc = 24 -> B(i, branch(i))
    [] i.opc = 25 -> IF i.f3 # 0 THEN Inv
                     ELSE I(i, IF i.rd = 0 /\ simm(i) = 0 THEN (IF i.rs1 = 1 THEN "p_ret" ELSE "c_jr") ELSE "jalr")
    [] i.opc = 27 -> J(i, IF i.rd = 0 THEN "c_j" ELSE IF i.rd = 1 THEN "p_jal" ELSE "jal")
    [] i.opc = 28 -> D(IF i.f3 = 4 THEN "inv" ELSE "system", i.rs1, i.f7 * 32 + i.rs2, i.rd)

isa_fetch_decode(x) == IF x.c THEN rvc(x.w, x.share) ELSE main(x.w, x.share)

\* INSTR_TYPE_x and jnpc of the decoded instruction (the switch of isa_fetch_decode).
Type(d, x) ==
  CASE d.h \in {"c_j", "p_jal", "jal"} -> <<"J", d.src1>>
    [] d.h \in {"beq", "bne", "blt", "bge", "bltu", "bgeu", "c_beqz", "c_bnez", "p_bltz", "p_bgez", "p_blez", "p_bgtz"} -> <<"B", d.dest>>
    [] d.h \in {"p_ret", "c_jr", "c_jalr", "jalr"} -> <<"I", 0>>
    [] d.h = "system" /\ ~ x.c /\ x.w.f3 = 0 /\ d.src2 \in {0, 2, 258, 770} -> <<"I", 0>>
    [] OTHER -> <<"N", 0>>

-----------------------------------------------------------------------------
\* What a helper does (rvc/exec.h, pseudo.h, rvi/*.h): [op, rd, rs1, rs2, imm].
\* A result for x0 goes to zero_null, so that nothing else happens.
M(o, rd, rs1, rs2, imm) == [op |-> o, rd |-> rd, rs1 |-> rs1, rs2 |-> rs2, imm |-> imm]
Nop == M("nop", 0, 0, 0, 0)
Plain(k) == CASE k = "c_add" -> "add" [] k = "c_sub" -> "sub" [] k = "c_xor" -> "xor" [] k = "c_or" -> "or" [] k = "c_and" -> "and"
              [] k = "c_addw" -> "addw" [] k = "c_subw" -> "subw" [] k = "c_addi" -> "addi" [] k = "c_addiw" -> "addiw"
              [] k = "c_slli" -> "slli" [] k = "c_srli" -> "srli" [] k = "c_srai" -> "srai" [] k = "c_andi" -> "andi"
ImmOps == {"addi", "slti", "sltui", "xori", "ori", "andi", "slli", "srli", "srai", "addiw", "slliw", "srliw", "sraiw",
           "bseti", "bclri", "bexti", "binvi", "rori", "roriw", "slliuw"}
UnaryOps == {"orc_b", "clz", "ctz", "cpop", "sext_b", "sext_h", "rev8", "revb", "clzw", "ctzw", "cpopw"}
Loads == {"lb", "lh", "lw", "ld", "lbu", "lhu", "lwu", "fld"}
Stores == {"sb", "sh", "sw", "sd", "fsd"}
\* The amount that a shift uses: c_shift_mask, & 63, & 31.
Amount(o, imm) == IF o \in {"slli", "srli", "srai", "bseti", "bclri", "bexti", "binvi", "rori"} THEN imm % 64
                  ELSE IF o \in {"slliw", "srliw", "sraiw", "roriw", "slliuw"} THEN imm % 32 ELSE imm

\* jalr clears bit 0 of the target, p_ret, c_jr and c_jalr only with CONFIG_SHARE.
Effect(d, share) ==
  LET k == d.h
      jr == IF share THEN "jalr" ELSE "jalr_odd" IN
  CASE k \in {"inv", "assert", "fence", "fence_i", "system"} -> [Nop EXCEPT !.op = k]
    [] k \in Loads -> M(k, d.dest, d.src1, 0, d.src2) [] k \in Stores -> M(k, 0, d.src1, d.dest, d.src2)
    [] k \in {"c_add", "c_sub", "c_xor", "c_or", "c_and", "c_addw", "c_subw"} -> M(Plain(k), d.dest, d.dest, d.src2, 0)
    [] k \in {"c_addi", "c_addiw", "c_slli", "c_srli", "c_srai", "c_andi"} -> M(Plain(k), d.dest, d.dest, 0, Amount(Plain(k), d.src2))
    [] k = "c_mv" -> M("addi", d.dest, d.src1, 0, 0) [] k = "c_li" -> M("addi", d.dest, 0, 0, d.src2)
    [] k = "p_li_0" -> M("addi", d.dest, 0, 0, 0) [] k = "p_li_1" -> M("addi", d.dest, 0, 0, 1)
    [] k = "p_inc" -> M("addi", d.dest, d.dest, 0, 1) [] k = "p_dec" -> M("addi", d.dest, d.dest, 0, -1)
    [] k = "p_sext_w" -> M("addiw", d.dest, d.src1, 0, 0)
    [] k \in {"lui", "auipc"} -> M(k, d.dest, 0, 0, d.src1)
    [] k = "c_j" -> M("jal", 0, 0, 0, d.src1) [] k = "p_jal" -> M("jal", 1, 0, 0, d.src1) [] k = "jal" -> M("jal", d.dest, 0, 0, d.src1)
    [] k = "p_ret" -> M(jr, 0, 1, 0, 0) [] k = "c_jr" -> M(jr, 0, d.src1, 0, 0)
    [] k = "c_jalr" -> M(jr, 1, d.src1, 0, 0) [] k = "jalr" -> M("jalr", d.dest, d.src1, 0, d.src2)
    [] k \in {"c_beqz", "c_bnez"} -> M(IF k = "c_beqz" THEN "beq" ELSE "bne", 0, d.src1, 0, d.dest)
    [] k \in {"p_bltz", "p_bgez"} -> M(IF k = "p_bltz" THEN "blt" ELSE "bge", 0, d.src1, 0, d.dest)
    [] k \in {"p_bgtz", "p_blez"} -> M(IF k = "p_bgtz" THEN "blt" ELSE "bge", 0, 0, d.src2, d.dest)
    [] k \in {"beq", "bne", "blt", "bge", "bltu", "bgeu"} -> M(k, 0, d.src1, d.src2, d.dest)
    [] k \in ImmOps -> M(k, d.dest, d.src1, 0, Amount(k, d.src2)) [] k \in UnaryOps -> M(k, d.dest, d.src1, 0, 0)
    [] OTHER -> M(k, d.dest, d.src1, d.src2, 0)

Branches == {"beq", "bne", "blt", "bge", "bltu", "bgeu"}
Others == Loads \cup Stores \cup Branches \cup {"jal", "jalr", "jalr_odd", "inv", "assert", "fence", "fence_i", "system"}
Settled(m) == IF m.op \notin Others /\ m.rd = 0 THEN Nop ELSE m
Meaning(x) == Settled(Effect(isa_fetch_decode(x), x.share))

-----------------------------------------------------------------------------
\* The manuals: names by opcode, funct7 and funct3; immediates by the position
\* that each bit of the encoding has in them; expansions of compressed words.
Place(x, to) == LET v[k \in 0 .. Len(to)] == IF k = 0 THEN 0 ELSE v[k - 1] + Bit(x, Len(to) - k) * 2^to[k] IN v[Len(to)]
SPlace(x, to) == Signed(to[1] + 1, Place(x, to))

No == ""
RNames ==
  {<<12, 0, <<"add", "sll", "slt", "sltu", "xor", "srl", "or", "and">>>>, <<12, 32, <<"sub", No, No, No, "xnor", "sra", "orn", "andn">>>>,
   <<12, 1, <<"mul", "mulh", "mulhsu", "mulhu", "div", "divu", "rem", "remu">>>>,
   <<12, 5, <<No, "clmul", "clmulr", "clmulh", "min", "minu", "max", "maxu">>>>, <<12, 4, <<No, No, No, No, "pack", No, No, "packh">>>>,
   <<12, 16, <<No, No, "sh1add", No, "sh2add", No, "sh3add", No>>>>, <<12, 20, <<No, "bset", "xpermn", No, "xpermb", No, No, No>>>>,
   <<12, 36, <<No, "bclr", No, No, No, "bext", No, No>>>>, <<12, 48, <<No, "rol", No, No, No, "ror", No, No>>>>,
   <<12, 52, <<No, "binv", No, No, No, No, No, No>>>>,
   <<14, 0, <<"addw", "sllw", No, No, No, "srlw", No, No>>>>, <<14, 32, <<"subw", No, No, No, No, "sraw", No, No>>>>,
   <<14, 1, <<"mulw", No, No, No, "divw", "divuw", "remw", "remuw">>>>, <<14, 4, <<"adduw", No, No, No, "packw", No, No, No>>>>,
   <<14, 16, <<No, No, "sh1adduw", No, "sh2adduw", No, "sh3adduw", No>>>>, <<14, 48, <<No, "rolw", No, No, No, "rorw", No, No>>>>}
\* Shifts and bit instructions with a 6-bit amount, by funct6; with the rs2
\* field as part of the opcode, by funct7.
ShiftNames == {<<0, 1, "slli">>, <<0, 5, "srli">>, <<16, 5, "srai">>, <<10, 1, "bseti">>, <<18, 1, "bclri">>, <<18, 5, "bexti">>,
               <<24, 5, "rori">>, <<26, 1, "binvi">>}
UnaryNames == {<<48, 0, 1, "clz">>, <<48, 1, 1, "ctz">>, <<48, 2, 1, "cpop">>, <<48, 4, 1, "sext_b">>, <<48, 5, 1, "sext_h">>,
               <<20, 7, 5, "orc_b">>, <<53, 24, 5, "rev8">>, <<52, 7, 5, "revb">>}
WordShiftNames == {<<0, 1, "slliw">>, <<0, 5, "srliw">>, <<32, 5, "sraiw">>, <<48, 5, "roriw">>}
WordUnaryNames == {<<48, 0, 1, "clzw">>, <<48, 1, 1, "ctzw">>, <<48, 2, 1, "cpopw">>}
NameIn(rows, key) == LET m == {r \in rows : SubSeq(r, 1, Len(key)) = key} IN IF m = {} THEN "inv" ELSE (CHOOSE r \in m : TRUE)[Len(key) + 1]

IsaImm(i) ==
  LET imm12 == SPlace(i.f7 * 32 + i.rs2, <<11, 10, 9, 8, 7, 6, 5, 4, 3, 2, 1, 0>>)
      alu == <<"addi", No, "slti", "sltui", "xori", No, "ori", "andi">>[i.f3 + 1]
      shift == NameIn(ShiftNames, <<i.f7 \div 2, i.f3>>)
      unary == NameIn(UnaryNames, <<i.f7, i.rs2, i.f3>>)
  IN  IF alu # No THEN M(alu, i.rd, i.rs1, 0, imm12)
      ELSE IF unary # "inv" THEN M(unary, i.rd, i.rs1, 0, 0) ELSE M(shift, i.rd, i.rs1, 0, (i.f7 % 2) * 32 + i.rs2)
IsaImm32(i) ==
  LET unary == NameIn(WordUnaryNames, <<i.f7, i.rs2, i.f3>>) IN
  CASE i.f3 = 0 -> M("addiw", i.rd, i.rs1, 0, SPlace(i.f7 * 32 + i.rs2, <<11, 10, 9, 8, 7, 6, 5, 4, 3, 2, 1, 0>>))
    [] i.f3 # 0 /\ unary # "inv" -> M(unary, i.rd, i.rs1, 0, 0)
    [] i.f3 # 0 /\ unary = "inv" /\ i.f7 \div 2 = 2 /\ i.f3 = 1 -> M("slliuw", i.rd, i.rs1, 0, (i.f7 % 2) * 32 + i.rs2)
    [] OTHER -> M(NameIn(WordShiftNames, <<i.f7, i.f3>>), i.rd, i.rs1, 0, i.rs2)

Isa32(i) ==
  LET imm12 == SPlace(i.f7 * 32 + i.rs2, <<11, 10, 9, 8, 7, 6, 5, 4, 3, 2, 1, 0>>)
      names == {r \in RNames : r[1] = i.opc /\ r[2] = i.f7}
      name == IF names = {} THEN No ELSE (CHOOSE r \in names : TRUE)[3][i.f3 + 1]
      b == <<"beq", "bne", "inv", "inv", "blt", "bge", "bltu", "bgeu">>[i.f3 + 1]
  IN  CASE i.opc = 0 -> M(<<"lb", "lh", "lw", "ld", "lbu", "lhu", "lwu", "inv">>[i.f3 + 1], i.rd, i.rs1, 0, imm12)
        [] i.opc = 8 -> M(IF i.f3 > 3 THEN "inv" ELSE <<"sb", "sh", "sw", "sd">>[i.f3 + 1], 0, i.rs1, i.rs2,
                          SPlace(i.f7 * 32 + i.rd, <<11, 10, 9, 8, 7, 6, 5, 4, 3, 2, 1, 0>>))
        [] i.opc = 4 -> IsaImm(i) [] i.opc = 6 -> IsaImm32(i)
        [] i.opc \in {12, 14} -> M(IF name = No THEN "inv" ELSE name, i.rd, i.rs1, i.rs2, 0)
        [] i.opc \in {5, 13} -> M(IF i.opc = 5 THEN "auipc" ELSE "lui", i.rd, 0, 0,
                                  Signed(20, i.f7 * 8192 + i.rs2 * 256 + i.rs1 * 8 + i.f3) * 4096)
        [] i.opc = 24 -> M(b, 0, i.rs1, i.rs2, SPlace(i.f7 * 32 + i.rd, <<12, 10, 9, 8, 7, 6, 5, 4, 3, 2, 1, 11>>))
        [] i.opc = 25 -> M(IF i.f3 = 0 THEN "jalr" ELSE "inv", i.rd, i.rs1, 0, imm12)
        [] i.opc = 27 -> M("jal", i.rd, 0, 0, SPlace(i.f7 * 8192 + i.rs2 * 256 + i.rs1 * 8 + i.f3,
                                                    <<20, 10, 9, 8, 7, 6, 5, 4, 3, 2, 1, 11, 19, 18, 17, 16, 15, 14, 13, 12>>))
        [] i.opc = 3 -> M(IF i.f3 = 0 THEN "fence" ELSE IF i.f3 = 1 THEN "fence_i" ELSE "inv", 0, 0, 0, 0)
        [] i.opc = 28 -> M(IF i.f3 = 4 THEN "inv" ELSE "system", 0, 0, 0, 0)

Reserved == M("inv", 0, 0, 0, 0)
Isa16(h) ==
  LET f3 == Field(h, 15, 13)
      rd == Field(h, 11, 7)
      rs2 == Field(h, 6, 2)
      rdp == 8 + Field(h, 4, 2)
      rs1p == 8 + Field(h, 9, 7)
      i6 == SPlace(Bit(h, 12) * 32 + rs2, <<5, 4, 3, 2, 1, 0>>)
      mid == Field(h, 12, 10) * 4 + Field(h, 6, 5)
      word == Place(mid, <<5, 4, 3, 2, 6>>)
      double == Place(mid, <<5, 4, 3, 7, 6>>)
      low == Bit(h, 12) * 32 + rs2
      b == SPlace(Field(h, 12, 10) * 32 + rs2, <<8, 4, 3, 7, 6, 2, 1, 5>>)
      spn == Place(Field(h, 12, 5), <<5, 4, 9, 8, 7, 6, 2, 3>>)
      sp16 == SPlace(low, <<9, 4, 6, 8, 7, 5>>)
  IN  CASE h % 4 = 0 /\ f3 = 0 -> IF spn = 0 THEN Reserved ELSE M("addi", rdp, 2, 0, spn)
        [] h % 4 = 0 /\ f3 \in {1, 2, 3} -> M(<<"fld", "lw", "ld">>[f3], rdp, rs1p, 0, IF f3 = 2 THEN word ELSE double)
        [] h % 4 = 0 /\ f3 = 4 -> Reserved
        [] h % 4 = 0 /\ f3 \in {5, 6, 7} -> M(<<"fsd", "sw", "sd">>[f3 - 4], 0, rs1p, rdp, IF f3 = 6 THEN word ELSE double)
        [] h % 4 = 1 /\ f3 = 0 -> M("addi", rd, rd, 0, i6)
        [] h % 4 = 1 /\ f3 = 1 -> IF rd = 0 THEN Reserved ELSE M("addiw", rd, rd, 0, i6)
        [] h % 4 = 1 /\ f3 = 2 -> M("addi", rd, 0, 0, i6)
        [] h % 4 = 1 /\ f3 = 3 -> IF i6 = 0 THEN Reserved ELSE IF rd = 2 THEN M("addi", 2, 2, 0, sp16) ELSE M("lui", rd, 0, 0, i6 * 4096)
        [] h % 4 = 1 /\ f3 = 4 -> LET k == Field(h, 11, 10) IN
             IF k < 3 THEN M(<<"srli", "srai", "andi">>[k + 1], rs1p, rs1p, 0, IF k = 2 THEN i6 ELSE low)
             ELSE LET o == <<"sub", "xor", "or", "and", "subw", "addw", "inv", "inv">>[Bit(h, 12) * 4 + Field(h, 6, 5) + 1]
                  IN  IF o = "inv" THEN Reserved ELSE M(o, rs1p, rs1p, rdp, 0)
        [] h % 4 = 1 /\ f3 = 5 -> M("jal", 0, 0, 0, SPlace(Field(h, 12, 2), <<11, 4, 9, 8, 10, 6, 7, 3, 2, 1, 5>>))
        [] h % 4 = 1 /\ f3 > 5 -> M(IF f3 = 6 THEN "beq" ELSE "bne", 0, rs1p, 0, b)
        [] h % 4 = 2 /\ f3 = 0 -> M("slli", rd, rd, 0, low)
        [] h % 4 = 2 /\ f3 \in {1, 2, 3} ->
             IF rd = 0 /\ f3 # 1 THEN Reserved
             ELSE M(<<"fld", "lw", "ld">>[f3], rd, 2, 0, Place(low, IF f3 = 2 THEN <<5, 4, 3, 2, 7, 6>> ELSE <<5, 4, 3, 8, 7, 6>>))
        [] h % 4 = 2 /\ f3 = 4 ->
            (CASE rs2 # 0 /\ Bit(h, 12) = 0 -> M("addi", rd, rs2, 0, 0) [] rs2 # 0 /\ Bit(h, 12) = 1 -> M("add", rd, rd, rs2, 0)
               [] rs2 = 0 -> IF rd = 0 THEN Reserved ELSE M("jalr", Bit(h, 12), rd, 0, 0))
        [] h % 4 = 2 /\ f3 > 4 -> M(<<"fsd", "sw", "sd">>[f3 - 4], 0, 2, rs2,
                                    Place(Field(h, 12, 7), IF f3 = 6 THEN <<5, 4, 3, 2, 7, 6>> ELSE <<5, 4, 3, 8, 7, 6>>))

\* What the manuals say of a word; every invalid one alike.
Isa(x) == LET m == IF x.c THEN Isa16(x.w) ELSE Isa32(x.w) IN IF m.op = "inv" THEN Reserved ELSE Settled(m)

\* Without CONFIG_SHARE the specialised indirect jumps keep bit 0 of the target.
AsJalr(m) == IF m.op = "jalr_odd" THEN [m EXCEPT !.op = "jalr"] ELSE m

\* Halfwords of the regular formats, words of every table with a few operands.
Compressed == [share : BOOLEAN, c : {TRUE}, w : {h \in 0 .. 65535 : h % 4 # 3}]
Funct7s == {0, 1, 2, 4, 5, 16, 20, 21, 32, 33, 36, 48, 49, 52, 53, 63, 64, 127}
Opcodes == {0, 3, 4, 5, 6, 8, 12, 13, 14, 24, 25, 27, 28}
Bare(share, opc, f3) ==
  [share |-> share, c |-> FALSE, w |-> [f7 |-> 0, rs2 |-> 0, rs1 |-> 0, f3 |-> f3, rd |-> 0, opc |-> opc]]
Start == [share |-> FALSE, c |-> TRUE, w |-> 1]
AtStart == in.c /\ in = Start

Init == in = Start
ChooseCompressed == AtStart /\ in' \in Compressed
ChooseOpcode == AtStart /\ \E share \in BOOLEAN, opc \in Opcodes, f3 \in 0 .. 7 : in' = Bare(share, opc, f3)
ChooseFields ==
  /\ ~ in.c /\ in = Bare(in.share, in.w.opc, in.w.f3)
  /\ \E f7 \in Funct7s, rs2 \in Rs2s, rs1, rd \in Regs :
       in' = [in EXCEPT !.w = [@ EXCEPT !.f7 = f7, !.rs2 = rs2, !.rs1 = rs1, !.rd = rd]]
Restart == ~ AtStart /\ in' = Start
Next == ChooseCompressed \/ ChooseOpcode \/ ChooseFields \/ Restart
Spec == Init /\ [][Next]_in

\* Whatever helper the tables select for a 32-bit word (p_li_1, c_mv, c_addi,
\* p_sext_w, p_bgtz, p_ret ... instead of the general one), with the operands
\* the decoder gives it, it does what the manual says of that word, and a word
\* that the manual does not define is invalid (rvi/decode.h, rvm/decode.h).
\* slliuw drops bit 5 of its amount: it is right below 32.
DecodesAsIsa ==
  in.c \/ LET m == Isa(in) IN AsJalr(Meaning(in)) = IF m.op = "slliuw" THEN [m EXCEPT !.imm = m.imm % 32] ELSE m

\* Every compressed halfword does what its expansion does; a reserved one is
\* invalid in the CONFIG_SHARE build (rvc/decode.h); c.ebreak, halfword 36866,
\* is decoded as invalid.
ExpandsAsIsa == in.c => (Isa(in) = Reserved /\ in.w # 36866 /\ ~ in.share) \/ AsJalr(Meaning(in)) = Isa(in)

\* The switch of isa_fetch_decode knows every helper that changes the flow of
\* control, and the target of each direct one: the trace cache ends a block
\* there and links the target (decode.c).
EndsBlocks ==
  LET m == Meaning(in)
      t == Type(isa_fetch_decode(in), in)
  IN  /\ (t[1] = "J") = (m.op = "jal")
      /\ (t[1] = "B") = (m.op \in Branches)
      /\ m.op \in {"jalr", "jalr_odd"} => t[1] = "I"
      /\ t[1] \in {"J", "B"} => t[2] = m.imm
      /\ t[1] = "I" => m.op \in {"jalr", "jalr_odd", "system"}
=============================================================================
