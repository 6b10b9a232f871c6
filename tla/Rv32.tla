-------------------------------- MODULE Rv32 --------------------------------
\* The riscv32 guest's instructions (isa/riscv32/instr). The decoder sends an
\* instruction to a shorter helper where it can: rd = rs1 to the c_ ones, which
\* read their destination, x0 to the ones that need not read it, common
\* constants to helpers of their own. ISAStep is what the manual says of the
\* plain instruction.
\*
\* A word has W = 4 * BYTE bits, so that BYTE stands for 8; an instruction is
\* the record of its fields, with the immediate of its format in one number
\* (for the shifts, funct7 and the amount as they lie in the instruction).
EXTENDS Bits, Sequences, TLC

CONSTANTS
  BYTE,      \* bits of a byte
  Values,    \* values tried in the registers
  Offsets,   \* offsets tried in jumps, branches, loads and stores
  Memory     \* the word at address 0, repeated

W == 4 * BYTE
Word == 0 .. 2^W - 1
X(x) == x % 2^W
Reg == 0 .. 2

VARIABLES
  cpu,    \* gpr, zero_null (where writes to x0 go), pc, satp's mode
  instr   \* the instruction to execute

-----------------------------------------------------------------------------
\* decode.c: the helper an instruction is dispatched to.

LOAD == 0
OP_IMM == 4
AUIPC == 5
STORE == 8
OP == 12
LUI == 13
BRANCH == 24
JALR == 25
JAL == 27

\* With satp's mode set the _mmu twins, which differ only in how the address is
\* translated.
load(i) == <<"lb", "lh", "lw", "inv", "lbu", "lhu", "inv", "inv">>[i.f3 + 1]
store(i) == <<"sb", "sh", "sw", "inv", "inv", "inv", "inv", "inv">>[i.f3 + 1]

c_addi_dispatch(i) == IF i.imm = 1 THEN "p_inc" ELSE IF i.imm = X(-1) THEN "p_dec" ELSE "c_addi"

addi_dispatch(i) ==
  IF i.rs1 = 0 THEN IF i.imm = 0 THEN "p_li_0" ELSE IF i.imm = 1 THEN "p_li_1" ELSE "c_li"
  ELSE IF i.imm = 0 THEN "c_mv" ELSE "addi"

op_imm_c(i) ==
  IF i.f7 = 32 /\ i.f3 = 5 THEN "c_srai"
  ELSE <<c_addi_dispatch(i), "c_slli", "slti", "sltui", "xori", "c_srli", "ori", "c_andi">>[i.f3 + 1]

op_imm(i) ==
  IF i.rd = i.rs1 THEN op_imm_c(i)
  ELSE IF i.f7 = 32 /\ i.f3 = 5 THEN "srai"
  ELSE <<addi_dispatch(i), "slli", "slti", "sltui", "xori", "srli", "ori", "andi">>[i.f3 + 1]

op(i) ==
  IF i.f7 = 32
  THEN IF i.f3 = 0 THEN IF i.rd = i.rs1 THEN "c_sub" ELSE "sub" ELSE IF i.f3 = 5 THEN "sra" ELSE "inv"
  ELSE IF i.f7 % 2 = 0 /\ i.rd = i.rs1 /\ i.f3 \in {0, 4, 6, 7}
  THEN <<"c_add", "", "", "", "c_xor", "", "c_or", "c_and">>[i.f3 + 1]
  ELSE (IF i.f7 % 2 = 0 THEN <<"add", "sll", "slt", "sltu", "xor", "srl", "or", "and">>
        ELSE <<"mul", "mulh", "mulhsu", "mulhu", "div", "divu", "rem", "remu">>)[i.f3 + 1]

branch_swapped(i) ==
  IF i.rs2 = 0 /\ i.f3 \in {0, 1, 4, 5}
  THEN <<"c_beqz", "c_bnez", "", "", "p_bltz", "p_bgez">>[i.f3 + 1]
  ELSE IF i.rs1 = 0 /\ i.f3 \in {4, 5} THEN <<"p_bltz", "p_bgez">>[i.f3 - 3]
  ELSE <<"beq", "bne", "inv", "inv", "blt", "bge", "bltu", "bgeu">>[i.f3 + 1]
branch(i) ==
  IF i.rs2 = 0 /\ i.f3 \in {0, 1, 4, 5}
  THEN <<"c_beqz", "c_bnez", "", "", "p_bltz", "p_bgez">>[i.f3 + 1]
  ELSE IF i.rs1 = 0 /\ i.f3 \in {4, 5} THEN <<"p_bgtz", "p_blez">>[i.f3 - 3]
  ELSE <<"beq", "bne", "inv", "inv", "blt", "bge", "bltu", "bgeu">>[i.f3 + 1]

jal_dispatch(i) == CASE i.rd = 0 -> "c_j" [] i.rd = 1 -> "c_jal" [] OTHER -> "jal"
jalr_dispatch(i) ==
  IF i.rd = 0 /\ i.imm = 0 THEN IF i.rs1 = 1 THEN "p_ret" ELSE "c_jr" ELSE "jalr"

main(i) ==
  CASE i.op = LOAD -> load(i) [] i.op = STORE -> store(i) [] i.op = OP_IMM -> op_imm(i)
    [] i.op = OP -> op(i) [] i.op = BRANCH -> branch(i) [] i.op = JALR -> jalr_dispatch(i)
    [] i.op = JAL -> jal_dispatch(i) [] i.op = LUI -> "lui" [] i.op = AUIPC -> "auipc"
    [] OTHER -> "inv"

-----------------------------------------------------------------------------
\* The helpers. A destination of x0 is zero_null; src1, src2 and dest are the
\* registers of the format, imm the immediate (auipc, jal and the branches: the
\* address), link the address of the next instruction.

decode_op_r(c, r, load_val) == IF ~load_val /\ r = 0 THEN c.zero_null ELSE c.gpr[r]
Write(c, r, v) == IF r = 0 THEN [c EXCEPT !.zero_null = v] ELSE [c EXCEPT !.gpr[r] = v]

And(x, y) == BAnd(W, x, y)
S(x) == Signed(W, x)
c_shl(a, b) == X(a * 2^(b % W))
c_shr(a, b) == a \div 2^(b % W)
c_sar(a, b) == X(S(a) \div 2^(b % W))
c_mulu_hi(a, b) == (a * b) \div 2^W

compute(id, a, b) ==
  CASE id \in {"add", "addi"} -> X(a + b) [] id = "sub" -> X(a - b)
    [] id \in {"sll", "slli"} -> c_shl(a, b) [] id \in {"srl", "srli"} -> c_shr(a, b)
    [] id \in {"sra", "srai"} -> c_sar(a, b)
    [] id \in {"slt", "slti"} -> Truth(S(a) < S(b)) [] id \in {"sltu", "sltui"} -> Truth(a < b)
    [] id \in {"xor", "xori"} -> BXor(W, a, b) [] id \in {"or", "ori"} -> BOr(W, a, b)
    [] id \in {"and", "andi"} -> And(a, b)

mulhsu(a, b) == X(c_mulu_hi(a, b) - And(b, c_sar(a, W - 1)))

\* The divisions of the host: Divides says where they are defined.
muldiv(id, a, b) ==
  CASE id = "mul" -> X(a * b) [] id = "mulh" -> X((S(a) * S(b)) \div 2^W)
    [] id = "mulhu" -> c_mulu_hi(a, b) [] id = "mulhsu" -> mulhsu(a, b)
    [] id = "div" -> X(CDiv(S(a), S(b))) [] id = "divu" -> a \div b
    [] id = "rem" -> X(CRem(S(a), S(b))) [] id = "remu" -> a % b
Divides(id, a, b) ==
  id \in {"div", "divu", "rem", "remu"} => b # 0 /\ (id \in {"div", "rem"} => ~(S(a) = - 2^(W - 1) /\ S(b) = -1))

\* The c_ helpers that read the destination d, with b the second operand.
compress(id, d, b) ==
  CASE id \in {"c_addi", "c_add"} -> X(d + b) [] id = "c_sub" -> X(d - b)
    [] id = "c_slli" -> c_shl(d, b) [] id = "c_srli" -> c_shr(d, b) [] id = "c_srai" -> c_sar(d, b)
    [] id \in {"c_andi", "c_and"} -> And(d, b) [] id = "c_or" -> BOr(W, d, b) [] id = "c_xor" -> BXor(W, d, b)
    [] id = "p_inc" -> X(d + 1) [] id = "p_dec" -> X(d - 1)

\* p_blez and p_bgtz compare rs2, the others rs1, with x0.
pseudo(id, a, b) ==
  CASE id = "p_blez" -> 0 >= S(b) [] id = "p_bgtz" -> 0 < S(b)
    [] id = "p_bltz" -> S(a) < 0 [] id = "p_bgez" -> S(a) >= 0
    [] id = "c_beqz" -> a = 0 [] id = "c_bnez" -> a # 0
control(id, a, b) ==
  CASE id = "beq" -> a = b [] id = "bne" -> a # b [] id = "blt" -> S(a) < S(b)
    [] id = "bge" -> S(a) >= S(b) [] id = "bltu" -> a < b [] id = "bgeu" -> a >= b

\* vaddr_read of len bytes at an address, little-endian.
Bytes(addr, len) ==
  Compose(len * BYTE, LAMBDA n : Bit(Memory, (X(addr + (n \div BYTE)) % 4) * BYTE + (n % BYTE)))
ldst(id, addr) ==
  CASE id = "lw" -> Bytes(addr, 4) [] id = "lhu" -> Bytes(addr, 2) [] id = "lbu" -> Bytes(addr, 1)
    [] id = "lh" -> X(Signed(2 * BYTE, Bytes(addr, 2))) [] id = "lb" -> X(Signed(BYTE, Bytes(addr, 1)))
Width(id) == CASE id = "sw" -> 4 [] id = "sh" -> 2 [] id = "sb" -> 1

\* Executing i on c: the registers, the next pc and the bytes stored, <<>> if none.
Exec(c, i) ==
  LET id == main(i)
      src1 == decode_op_r(c, i.rs1, TRUE)
      src2 == decode_op_r(c, i.rs2, TRUE)
      dest == decode_op_r(c, i.rd, FALSE)
      snpc == X(c.pc + 4)
      Go(d, pc) == [cpu |-> [d EXCEPT !.pc = X(pc)], store |-> <<>>]
      Take(cond) == Go(c, IF cond THEN c.pc + i.imm ELSE snpc)
  IN  CASE id \in {"lb", "lh", "lw", "lbu", "lhu"} -> Go(Write(c, i.rd, ldst(id, X(src1 + i.imm))), snpc)
        [] id \in {"sb", "sh", "sw"} ->
             [Go(c, snpc) EXCEPT !.store = <<X(src1 + i.imm), src2 % 2^(Width(id) * BYTE), Width(id)>>]
        [] id \in {"addi", "slti", "sltui", "xori", "ori", "andi", "slli", "srli", "srai"} ->
             Go(Write(c, i.rd, compute(id, src1, i.imm)), snpc)
        [] id \in {"add", "sub", "sll", "slt", "sltu", "xor", "srl", "sra", "or", "and"} ->
             Go(Write(c, i.rd, compute(id, src1, src2)), snpc)
        [] id \in {"mul", "mulh", "mulhsu", "mulhu", "div", "divu", "rem", "remu"} ->
             Go(Write(c, i.rd, muldiv(id, src1, src2)), snpc)
        [] id \in {"c_add", "c_sub", "c_xor", "c_or", "c_and"} -> Go(Write(c, i.rd, compress(id, dest, src2)), snpc)
        [] id \in {"c_addi", "p_inc", "p_dec", "c_slli", "c_srli", "c_srai", "c_andi"} ->
             Go(Write(c, i.rd, compress(id, dest, i.imm)), snpc)
        [] id = "p_li_0" -> Go(Write(c, i.rd, 0), snpc) [] id = "p_li_1" -> Go(Write(c, i.rd, 1), snpc)
        [] id \in {"c_li", "lui"} -> Go(Write(c, i.rd, i.imm), snpc)
        [] id = "auipc" -> Go(Write(c, i.rd, X(c.pc + i.imm)), snpc)
        [] id = "c_mv" -> Go(Write(c, i.rd, src1), snpc)
        [] id \in {"p_blez", "p_bgtz", "p_bltz", "p_bgez", "c_beqz", "c_bnez"} -> Take(pseudo(id, src1, src2))
        [] id \in {"beq", "bne", "blt", "bge", "bltu", "bgeu"} -> Take(control(id, src1, src2))
        [] id = "c_j" -> Go(c, c.pc + i.imm)
        [] id = "c_jal" -> Go(Write(c, 1, snpc), c.pc + i.imm)
        [] id = "jal" -> Go(Write(c, i.rd, snpc), c.pc + i.imm)
        [] id = "p_ret" -> Go(c, c.gpr[1])
        [] id = "c_jr" -> Go(c, src1)
        [] id = "jalr" -> Go(Write(c, i.rd, snpc), src1 + i.imm)

-----------------------------------------------------------------------------
\* The base instruction set, from the manual: mnemonic first, no special cases.
Relation(f3, a, b) ==
  CASE f3 = 0 -> a = b [] f3 = 1 -> a # b [] f3 = 4 -> S(a) < S(b)
    [] f3 = 5 -> ~(S(a) < S(b)) [] f3 = 6 -> a < b [] f3 = 7 -> ~(a < b)
Result(f3, alt, a, b) ==
  CASE f3 = 0 -> IF alt THEN X(a - b) ELSE X(a + b)
    [] f3 = 1 -> X(a * 2^(b % W)) [] f3 = 2 -> Truth(S(a) < S(b)) [] f3 = 3 -> Truth(a < b)
    [] f3 = 4 -> Compose(W, LAMBDA n : Truth(Bit(a, n) # Bit(b, n)))
    [] f3 = 5 -> IF alt THEN X(S(a) \div 2^(b % W)) ELSE a \div 2^(b % W)
    [] f3 = 6 -> Compose(W, LAMBDA n : Truth(Bit(a, n) = 1 \/ Bit(b, n) = 1))
    [] f3 = 7 -> Compose(W, LAMBDA n : Truth(Bit(a, n) = 1 /\ Bit(b, n) = 1))
Product(f3, a, b) ==
  CASE f3 = 0 -> X(a * b) [] f3 = 1 -> X((S(a) * S(b)) \div 2^W)
    [] f3 = 2 -> X((S(a) * b) \div 2^W) [] f3 = 3 -> (a * b) \div 2^W
    [] f3 = 4 -> X(CDiv(S(a), S(b))) [] f3 = 5 -> a \div b
    [] f3 = 6 -> X(CRem(S(a), S(b))) [] f3 = 7 -> a % b
ISAStep(c, i) ==
  LET a == c.gpr[i.rs1]
      b == c.gpr[i.rs2]
      Set(v, pc) == [gpr |-> [r \in Reg |-> IF r = i.rd /\ r # 0 THEN v ELSE c.gpr[r]], pc |-> X(pc), store |-> <<>>]
      Same(pc) == [gpr |-> c.gpr, pc |-> X(pc), store |-> <<>>]
      len == 2^(i.f3 % 4)
      at == X(a + i.imm)
  IN  CASE i.op = OP_IMM -> Set(Result(i.f3, i.f3 = 5 /\ i.f7 = 32, a, i.imm), c.pc + 4)
        [] i.op = OP -> Set(IF i.f7 = 1 THEN Product(i.f3, a, b) ELSE Result(i.f3, i.f7 = 32, a, b), c.pc + 4)
        [] i.op = LUI -> Set(i.imm, c.pc + 4)
        [] i.op = AUIPC -> Set(X(c.pc + i.imm), c.pc + 4)
        [] i.op = BRANCH -> Same(IF Relation(i.f3, a, b) THEN c.pc + i.imm ELSE c.pc + 4)
        [] i.op = JAL -> Set(X(c.pc + 4), c.pc + i.imm)
        [] i.op = JALR -> Set(X(c.pc + 4), a + i.imm)
        [] i.op = LOAD ->
             Set(IF i.f3 >= 4 THEN Bytes(at, len) ELSE X(Signed(len * BYTE, Bytes(at, len))), c.pc + 4)
        [] i.op = STORE -> [Same(c.pc + 4) EXCEPT !.store = <<at, b % 2^(len * BYTE), len>>]

-----------------------------------------------------------------------------
\* The valid instructions; those without a field have it zero.
Instrs ==
  [op : {OP}, f3 : 0 .. 7, f7 : {0, 1}, rd : Reg, rs1 : Reg, rs2 : Reg, imm : {0}]
  \cup [op : {OP}, f3 : {0, 5}, f7 : {32}, rd : Reg, rs1 : Reg, rs2 : Reg, imm : {0}]
  \cup [op : {OP_IMM}, f3 : {0, 2, 3, 4, 6, 7}, f7 : {0, 32}, rd : Reg, rs1 : Reg, rs2 : {0}, imm : Word]
  \cup [op : {OP_IMM}, f3 : {1, 5}, f7 : {0}, rd : Reg, rs1 : Reg, rs2 : {0}, imm : 0 .. W - 1]
  \cup [op : {OP_IMM}, f3 : {5}, f7 : {32}, rd : Reg, rs1 : Reg, rs2 : {0}, imm : {32 * W + n : n \in 0 .. W - 1}]
  \cup [op : {BRANCH}, f3 : {0, 1, 4, 5, 6, 7}, f7 : {0}, rd : {0}, rs1 : Reg, rs2 : Reg, imm : Offsets]
  \cup [op : {LUI, AUIPC, JAL}, f3 : {0}, f7 : {0}, rd : Reg, rs1 : {0}, rs2 : {0}, imm : Offsets]
  \cup [op : {JALR}, f3 : {0}, f7 : {0}, rd : Reg, rs1 : Reg, rs2 : {0}, imm : Offsets]
  \cup [op : {LOAD}, f3 : {0, 1, 2, 4, 5}, f7 : {0}, rd : Reg, rs1 : Reg, rs2 : {0}, imm : Offsets]
  \cup [op : {STORE}, f3 : {0, 1, 2}, f7 : {0}, rd : {0}, rs1 : Reg, rs2 : Reg, imm : Offsets]

restart == [gpr |-> [r \in Reg |-> 0], zero_null |-> 0, pc |-> 4]
None == [op |-> 31]

Init == cpu = restart /\ instr = None
\* Any contents of the registers; zero_null is what the last write to x0 left.
Registers ==
  /\ instr = None /\ cpu = restart
  /\ \E a, b \in Values, z \in {0, 2^W - 2} : cpu' = [cpu EXCEPT !.gpr = (0 :> 0 @@ 1 :> a @@ 2 :> b), !.zero_null = z]
  /\ UNCHANGED instr
Fetch ==
  /\ instr = None
  /\ \E i \in Instrs :
       /\ i.op = OP /\ i.f7 = 1 => Divides(main(i), cpu.gpr[i.rs1], cpu.gpr[i.rs2])
       /\ instr' = i
  /\ UNCHANGED cpu
Again == instr # None /\ instr' = None /\ cpu' = restart
Next == Registers \/ Fetch \/ Again
Spec == Init /\ [][Next]_<<cpu, instr>>

\* Whatever helper the dispatchers of decode.c choose, the instruction leaves
\* the registers, the next pc and the store that the manual gives the base
\* instruction; x0 stays 0 though writes to it land in zero_null, which the c_
\* helpers read back. (jalr keeps bit 0 of the target; a division by zero or
\* that overflows stops the host and is left out.)
ExecutesAsManual ==
  instr # None =>
    LET e == Exec(cpu, instr)
    IN  [gpr |-> e.cpu.gpr, pc |-> e.cpu.pc, store |-> e.store] = ISAStep(cpu, instr)
=============================================================================
