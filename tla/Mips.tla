-------------------------------- MODULE Mips --------------------------------
\* The mips32 guest's instructions (isa/mips32/instr): the decoder's tables and
\* operands, and the helpers as the RTL operations they are written in.
\* ISAStep is what the MIPS32 manual says, a branch's delay slot being the nop
\* that the code takes it for.
\*
\* A word has W = 4 * BYTE bits, an immediate half of them; an instruction is
\* the record of its fields. Memory is 2^W bytes, little-endian.
EXTENDS Bits, Sequences, TLC

CONSTANTS
  BYTE,       \* bits of a byte
  Values,     \* values tried in the registers
  Memories    \* contents of memory tried, as numbers

W == 4 * BYTE
HALF == 2 * BYTE
Word == 0 .. 2^W - 1
X(x) == x % 2^W
S(x) == Signed(W, x)
Reg == 0 .. 2
LINK == 2      \* register 31

VARIABLES
  cpu,    \* gpr, zero_null (writes to $0), hi, lo, pc, mem
  instr   \* the instruction to execute

-----------------------------------------------------------------------------
\* decode.c. Opcodes and functions are in octal in the code.

\* <<format, helper>>
special(i) ==
  CASE i.func = 0 -> <<"shift", "slli">> [] i.func = 2 -> <<"shift", "srli">> [] i.func = 3 -> <<"shift", "srai">>
    [] i.func = 4 -> <<"R", "sll">> [] i.func = 6 -> <<"R", "srl">> [] i.func = 7 -> <<"R", "sra">>
    [] i.func = 8 -> <<"R", IF i.rs = LINK THEN "ret" ELSE "jr">> [] i.func = 9 -> <<"jalr", "jalr">>
    [] i.func = 10 -> <<"cmov", "movz">> [] i.func = 11 -> <<"cmov", "movn">>
    [] i.func = 16 -> <<"R", "mfhi">> [] i.func = 17 -> <<"R", "mthi">>
    [] i.func = 18 -> <<"R", "mflo">> [] i.func = 19 -> <<"R", "mtlo">>
    [] i.func = 24 -> <<"R", "mult">> [] i.func = 25 -> <<"R", "multu">>
    [] i.func = 26 -> <<"R", "div">> [] i.func = 27 -> <<"R", "divu">>
    [] i.func = 33 -> <<"R", "add">> [] i.func = 35 -> <<"R", "sub">>
    [] i.func = 36 -> <<"R", "and">> [] i.func = 37 -> <<"R", "or">>
    [] i.func = 38 -> <<"R", "xor">> [] i.func = 39 -> <<"R", "nor">>
    [] i.func = 42 -> <<"R", "slt">> [] i.func = 43 -> <<"R", "sltu">>
    [] OTHER -> <<"", "inv">>
special2(i) == CASE i.func = 2 -> <<"R", "mul">> [] i.func = 32 -> <<"R", "clz">> [] OTHER -> <<"", "inv">>
regimm(i) == CASE i.rt = 0 -> <<"B", "bltz">> [] i.rt = 1 -> <<"B", "bgez">> [] OTHER -> <<"", "inv">>
main(i) ==
  CASE i.opcode = 0 -> special(i) [] i.opcode = 1 -> regimm(i) [] i.opcode = 28 -> special2(i)
    [] i.opcode = 2 -> <<"J", "j">> [] i.opcode = 3 -> <<"jal", "jal">>
    [] i.opcode \in 4 .. 7 -> <<"B", <<"beq", "bne", "blez", "bgtz">>[i.opcode - 3]>>
    [] i.opcode \in 9 .. 11 -> <<"I", <<"addi", "slti", "sltui">>[i.opcode - 8]>>
    [] i.opcode \in 12 .. 14 -> <<"IU", <<"andi", "ori", "xori">>[i.opcode - 11]>>
    [] i.opcode = 15 -> <<"lui", "lui">>
    [] i.opcode \in 32 .. 37 -> <<IF i.opcode = 34 THEN "st" ELSE "ld", <<"lb", "lh", "lwl", "lw", "lbu", "lhu">>[i.opcode - 31]>>
    [] i.opcode = 38 -> <<"st", "lwr">>
    [] i.opcode \in 40 .. 43 -> <<"st", <<"sb", "sh", "swl", "sw">>[i.opcode - 39]>>
    [] i.opcode = 46 -> <<"st", "swr">>
    [] OTHER -> <<"", "inv">>

\* The operands of a format: the registers read (src1, src2) and written or read
\* (dest), whether a $0 destination is the register itself (keep), the immediate.
Operands(i, pc) ==
  LET form == main(i)[1]
      Ops(s1, s2, d, k, n) == [src1 |-> s1, src2 |-> s2, dest |-> d, keep |-> k, imm |-> X(n)]
      simm == Signed(HALF, i.imm)
      target == (pc \div 2^(W - 1)) * 2^(W - 1) + (i.imm % 2^(W - 3)) * 4   \* the top bits of pc kept
  IN  CASE form = "IU" -> Ops(i.rs, 0, i.rt, FALSE, i.imm)
        [] form \in {"ld", "I"} -> Ops(i.rs, 0, i.rt, FALSE, simm)
        [] form = "st" -> Ops(i.rs, 0, i.rt, TRUE, simm)
        [] form = "lui" -> Ops(0, 0, i.rt, FALSE, i.imm * 2^HALF)
        [] form \in {"J", "jal"} -> Ops(0, 0, 0, FALSE, target)
        [] form \in {"R", "jalr"} -> Ops(i.rs, i.rt, i.rd, FALSE, 0)
        [] form = "B" -> Ops(i.rs, i.rt, 0, FALSE, pc + simm * 4 + 4)
        [] form = "shift" -> Ops(0, i.rt, i.rd, FALSE, i.sa)
        [] form = "cmov" -> Ops(i.rs, i.rt, i.rd, TRUE, 0)
-----------------------------------------------------------------------------
And(x, y) == BAnd(W, x, y)
Or(x, y) == BOr(W, x, y)
shl(a, b) == X(a * 2^(b % W))
shr(a, b) == a \div 2^(b % W)
sar(a, b) == X(S(a) \div 2^(b % W))

compute(id, a, b) ==
  CASE id \in {"add", "addi"} -> X(a + b) [] id = "sub" -> X(a - b)
    [] id \in {"slt", "slti"} -> Truth(S(a) < S(b)) [] id \in {"sltu", "sltui"} -> Truth(a < b)
    [] id \in {"and", "andi"} -> And(a, b) [] id \in {"or", "ori"} -> Or(a, b)
    [] id \in {"xor", "xori"} -> BXor(W, a, b) [] id = "nor" -> BNot(W, Or(a, b))
    [] id \in {"sll", "slli"} -> shl(b, a) [] id \in {"srl", "srli"} -> shr(b, a)
    [] id \in {"sra", "srai"} -> sar(b, a)
    [] id = "mul" -> X(a * b)
    [] id = "clz" -> 0      \* the loop counts upwards: right only when bit 31 is set, see Defined

\* dest <- (cond ? src1 : src2), with a mask.
mux(cond, src1, src2) ==
  LET mask == X(Truth(cond = 0) - 1) IN Or(And(src2, BNot(W, mask)), And(src1, mask))

\* <<lo, hi>>
muldiv(id, a, b) ==
  CASE id = "mult" -> <<X(a * b), X((S(a) * S(b)) \div 2^W)>>
    [] id = "multu" -> <<X(a * b), (a * b) \div 2^W>>
    [] id = "div" -> <<X(CDiv(S(a), S(b))), X(CRem(S(a), S(b)))>>
    [] id = "divu" -> <<a \div b, a % b>>

control(id, a, b) ==
  CASE id = "beq" -> a = b [] id = "bne" -> a # b [] id = "blez" -> S(a) <= S(b)
    [] id = "bgtz" -> S(a) > S(b) [] id = "bltz" -> S(a) < 0 [] id = "bgez" -> S(a) >= 0

-----------------------------------------------------------------------------
\* ldst.h
lm(m, addr, len) == Compose(len * BYTE, LAMBDA n : Bit(m[X(addr + (n \div BYTE))], n % BYTE))
lms(m, addr, len) == X(Signed(len * BYTE, lm(m, addr, len)))
sm(m, addr, data, len) ==
  [a \in Word |-> LET k == X(a - addr) IN IF k < len THEN (data \div 2^(k * BYTE)) % 2^BYTE ELSE m[a]]

Aligned(addr) == addr - (addr % 4)
Shift(addr) == (addr % 4) * BYTE             \* mem.shamt2 of swl and lwr
CoShift(addr) == 3 * BYTE - Shift(addr)      \* that of swr and lwl

\* Two shifts each way: one of a byte, one of the rest, so that none is of a whole word.
Above(x, n) == shl(shl(shr(shr(x, BYTE), n), n), BYTE)   \* x without its low n bits and a byte
Below(x, n) == shr(shr(shl(shl(x, BYTE), n), n), BYTE)   \* x without its high n bits and a byte

swl(m, addr, r) == sm(m, Aligned(addr), Or(Above(lm(m, Aligned(addr), 4), Shift(addr)), shr(r, CoShift(addr))), 4)
swr(m, addr, r) == sm(m, Aligned(addr), Or(Below(lm(m, Aligned(addr), 4), CoShift(addr)), shl(r, Shift(addr))), 4)
lwl(m, addr, r) == Or(shl(lm(m, Aligned(addr), 4), CoShift(addr)), Below(r, Shift(addr)))
lwr(m, addr, r) == Or(shr(lm(m, Aligned(addr), 4), Shift(addr)), Above(r, CoShift(addr)))

-----------------------------------------------------------------------------
\* Executing i on c.
Exec(c, i) ==
  LET id == main(i)[2]
      o == Operands(i, c.pc)
      src1 == c.gpr[o.src1]
      src2 == c.gpr[o.src2]
      dest == IF o.dest = 0 /\ ~o.keep THEN c.zero_null ELSE c.gpr[o.dest]
      addr == X(src1 + o.imm)
      next == [c EXCEPT !.pc = X(@ + 4)]
      Set(v) == IF o.dest = 0 /\ ~o.keep THEN [next EXCEPT !.zero_null = v] ELSE [next EXCEPT !.gpr[o.dest] = v]
      Store(m) == [next EXCEPT !.mem = m]
      Go(d, pc) == [d EXCEPT !.pc = pc]
  IN  CASE id \in {"addi", "slti", "sltui", "andi", "ori", "xori"} -> Set(compute(id, src1, o.imm))
        [] id \in {"slli", "srli", "srai"} -> Set(compute(id, o.imm, src2))
        [] id = "lui" -> Set(o.imm)
        [] id = "movz" -> Set(mux(src2, dest, src1)) [] id = "movn" -> Set(mux(src2, src1, dest))
        [] id = "mfhi" -> Set(c.hi) [] id = "mflo" -> Set(c.lo)
        [] id = "mthi" -> [next EXCEPT !.hi = src1] [] id = "mtlo" -> [next EXCEPT !.lo = src1]
        [] id \in {"mult", "multu", "div", "divu"} ->
             LET r == muldiv(id, src1, src2) IN [next EXCEPT !.lo = r[1], !.hi = r[2]]
        [] id = "lb" -> Set(lms(c.mem, addr, 1)) [] id = "lh" -> Set(lms(c.mem, addr, 2))
        [] id = "lw" -> Set(lms(c.mem, addr, 4)) [] id = "lbu" -> Set(lm(c.mem, addr, 1))
        [] id = "lhu" -> Set(lm(c.mem, addr, 2)) [] id = "lwl" -> Set(lwl(c.mem, addr, dest))
        [] id = "lwr" -> Set(lwr(c.mem, addr, dest))
        [] id = "sb" -> Store(sm(c.mem, addr, dest, 1)) [] id = "sh" -> Store(sm(c.mem, addr, dest, 2))
        [] id = "sw" -> Store(sm(c.mem, addr, dest, 4)) [] id = "swl" -> Store(swl(c.mem, addr, dest))
        [] id = "swr" -> Store(swr(c.mem, addr, dest))
        [] id = "j" -> Go(c, o.imm)
        [] id = "jal" -> Go([c EXCEPT !.gpr[LINK] = X(c.pc + 8)], o.imm)
        [] id = "ret" -> Go(c, c.gpr[LINK])
        [] id = "jr" -> Go(c, src1)
        [] id = "jalr" -> LET d == Set(X(c.pc + 8)) IN Go(d, d.gpr[o.src1])
        [] id \in {"beq", "bne", "blez", "bgtz", "bltz", "bgez"} ->
             IF control(id, src1, src2) THEN Go(c, o.imm) ELSE next
        [] OTHER -> Set(compute(id, src1, src2))

\* Where the host's or the guest's arithmetic is undefined, or the helper wrong:
\* a division by zero or that overflows, clz without bit 31, jalr with rd = rs
\* (the manual: unpredictable), and $0 as the destination of the formats that
\* read their destination, which is then really written.
Defined(c, i) ==
  LET id == main(i)[2]
      o == Operands(i, c.pc)
      a == c.gpr[o.src1]
      b == c.gpr[o.src2]
  IN  /\ id \in {"div", "divu"} => b # 0 /\ ~(id = "div" /\ S(a) = - 2^(W - 1) /\ S(b) = -1)
      /\ id = "clz" => Bit(a, W - 1) = 1
      /\ id = "jalr" => o.src1 # o.dest
      /\ id \in {"lwl", "lwr", "movz", "movn"} => o.dest # 0

-----------------------------------------------------------------------------
\* The manual.
Logic(a, b, f(_, _)) == Compose(W, LAMBDA n : Truth(f(Bit(a, n) = 1, Bit(b, n) = 1)))
Arith(op, a, b) ==
  CASE op = 0 -> X(a + b) [] op = 2 -> X(a - b)
    [] op = 4 -> Logic(a, b, LAMBDA p, q : p /\ q) [] op = 5 -> Logic(a, b, LAMBDA p, q : p \/ q)
    [] op = 6 -> Logic(a, b, LAMBDA p, q : p # q) [] op = 7 -> Logic(a, b, LAMBDA p, q : ~p /\ ~q)
    [] op = 10 -> Truth(S(a) < S(b)) [] op = 11 -> Truth(a < b)
ShiftBy(kind, x, n) ==
  CASE kind = 0 -> X(x * 2^n) [] kind = 2 -> x \div 2^n [] kind = 3 -> X(S(x) \div 2^n)
\* The bytes of memory from a to b, b the lowest, as the low or high bytes of a register.
ISALoadStore(c, op, addr, rt) ==
  LET Byte(a) == c.mem[X(a)]
      Old(k) == (c.gpr[rt] \div 2^(k * BYTE)) % 2^BYTE
      Join(b(_)) == b(0) + b(1) * 2^BYTE + b(2) * 2^(2 * BYTE) + b(3) * 2^(3 * BYTE)
      k == addr % 4
      half == Byte(addr) + Byte(addr + 1) * 2^BYTE
      Put(n) == [a \in Word |-> IF X(a - addr) < n THEN Old(X(a - addr)) ELSE c.mem[a]]
  IN  CASE op = 32 -> X(Signed(BYTE, Byte(addr))) [] op = 36 -> Byte(addr)
        [] op = 33 -> X(Signed(HALF, half)) [] op = 37 -> half
        [] op = 35 -> Join(LAMBDA n : Byte(addr + n))
        [] op = 34 -> Join(LAMBDA n : IF n >= 3 - k THEN Byte(addr - 3 + n) ELSE Old(n))
        [] op = 38 -> Join(LAMBDA n : IF n <= 3 - k THEN Byte(addr + n) ELSE Old(n))
        [] op = 40 -> Put(1) [] op = 41 -> Put(2) [] op = 43 -> Put(4)
        [] op = 42 -> [a \in Word |-> IF a \in (addr - k) .. addr THEN Old(3 - (addr - a)) ELSE c.mem[a]]
        [] op = 46 -> [a \in Word |-> IF a \in addr .. (addr - k + 3) THEN Old(a - addr) ELSE c.mem[a]]
ISAStep(c, i) ==
  LET a == c.gpr[i.rs]
      b == c.gpr[i.rt]
      simm == X(Signed(HALF, i.imm))
      next == [c EXCEPT !.pc = X(@ + 4)]
      Set(r, v) == IF r = 0 THEN next ELSE [next EXCEPT !.gpr[r] = v]
      Branch(cond) == IF cond THEN [c EXCEPT !.pc = X(@ + 4 + simm * 4)] ELSE next
      region == (c.pc \div 2^(W - 1)) * 2^(W - 1) + X((i.imm % 2^(W - 3)) * 4)
      op == i.opcode
      f == i.func
  IN  CASE op = 0 /\ f \in {0, 2, 3} -> Set(i.rd, ShiftBy(f, b, i.sa))
        [] op = 0 /\ f \in {4, 6, 7} -> Set(i.rd, ShiftBy(f - 4, b, a % W))
        [] op = 0 /\ f \in {33, 35, 36, 37, 38, 39, 42, 43} ->
             Set(i.rd, Arith(IF f < 36 THEN f - 33 ELSE f - 32, a, b))
        [] op = 0 /\ f = 8 -> [c EXCEPT !.pc = a]
        [] op = 0 /\ f = 9 -> [Set(i.rd, X(c.pc + 8)) EXCEPT !.pc = a]
        [] op = 0 /\ f = 10 -> IF b = 0 THEN Set(i.rd, a) ELSE next
        [] op = 0 /\ f = 11 -> IF b # 0 THEN Set(i.rd, a) ELSE next
        [] op = 0 /\ f = 16 -> Set(i.rd, c.hi) [] op = 0 /\ f = 18 -> Set(i.rd, c.lo)
        [] op = 0 /\ f = 17 -> [next EXCEPT !.hi = a] [] op = 0 /\ f = 19 -> [next EXCEPT !.lo = a]
        [] op = 0 /\ f = 24 -> [next EXCEPT !.lo = X(S(a) * S(b)), !.hi = X((S(a) * S(b)) \div 2^W)]
        [] op = 0 /\ f = 25 -> [next EXCEPT !.lo = X(a * b), !.hi = (a * b) \div 2^W]
        [] op = 0 /\ f = 26 -> [next EXCEPT !.lo = X(CDiv(S(a), S(b))), !.hi = X(CRem(S(a), S(b)))]
        [] op = 0 /\ f = 27 -> [next EXCEPT !.lo = a \div b, !.hi = a % b]
        [] op = 28 /\ f = 2 -> Set(i.rd, X(S(a) * S(b)))
        [] op = 28 /\ f = 32 -> Set(i.rd, CHOOSE n \in 0 .. W : a \div 2^(W - n) = 0 /\ (n = W \/ Bit(a, W - 1 - n) = 1))
        [] op = 1 -> Branch(IF i.rt = 0 THEN S(a) < 0 ELSE S(a) >= 0)
        [] op = 2 -> [c EXCEPT !.pc = region]
        [] op = 3 -> [c EXCEPT !.gpr[LINK] = X(c.pc + 8), !.pc = region]
        [] op = 4 -> Branch(a = b) [] op = 5 -> Branch(a # b)
        [] op = 6 -> Branch(S(a) <= 0) [] op = 7 -> Branch(S(a) > 0)
        [] op = 9 -> Set(i.rt, X(a + simm)) [] op = 15 -> Set(i.rt, i.imm * 2^HALF)
        [] op \in {10, 11} -> Set(i.rt, Arith(op, a, simm))
        [] op \in {12, 13, 14} -> Set(i.rt, Arith(op - 8, a, i.imm))
        [] op \in 32 .. 38 -> Set(i.rt, ISALoadStore(c, op, X(a + simm), i.rt))
        [] op \in 40 .. 46 -> [next EXCEPT !.mem = ISALoadStore(c, op, X(a + simm), i.rt)]

-----------------------------------------------------------------------------
Funcs == {0, 2, 3, 4, 6, 7, 8, 9, 10, 11, 16, 17, 18, 19, 24, 25, 26, 27, 33, 35, 36, 37, 38, 39, 42, 43}
Zero == [opcode |-> 0, func |-> 0, rs |-> 0, rt |-> 0, rd |-> 0, sa |-> 0, imm |-> 0]
Instrs ==
  [opcode : {0}, func : Funcs, rs : Reg, rt : Reg, rd : Reg, sa : {0}, imm : {0}]
  \cup [opcode : {0}, func : {0, 2, 3}, rs : {0}, rt : Reg, rd : Reg, sa : 1 .. W - 1, imm : {0}]
  \cup [opcode : {28}, func : {2, 32}, rs : Reg, rt : Reg, rd : Reg, sa : {0}, imm : {0}]
  \cup [opcode : {1}, func : {0}, rs : Reg, rt : {0, 1}, rd : {0}, sa : {0}, imm : 0 .. 2^HALF - 1]
  \cup [opcode : {6, 7}, func : {0}, rs : Reg, rt : {0}, rd : {0}, sa : {0}, imm : 0 .. 2^HALF - 1]
  \cup [opcode : {2, 3, 4, 5} \cup 9 .. 15 \cup 32 .. 38 \cup 40 .. 43 \cup {46}, func : {0}, rs : Reg, rt : Reg,
        rd : {0}, sa : {0}, imm : 0 .. 2^HALF - 1]

None == [Zero EXCEPT !.opcode = 63]
restart == [gpr |-> [r \in Reg |-> 0], zero_null |-> 0, hi |-> 0, lo |-> 0, pc |-> 8, mem |-> [a \in Word |-> 0]]

Init == cpu = restart /\ instr = None
Contents ==
  /\ instr = None /\ cpu = restart
  /\ \E a, b \in Values, m \in Memories :
       cpu' = [cpu EXCEPT !.gpr = (0 :> 0 @@ 1 :> a @@ 2 :> b), !.zero_null = 1, !.hi = 2, !.lo = 3,
                          !.mem = [x \in Word |-> (m \div 2^(x * BYTE)) % 2^BYTE]]
  /\ UNCHANGED instr
Fetch == instr = None /\ instr' \in {i \in Instrs : Defined(cpu, i)} /\ UNCHANGED cpu
Again == instr # None /\ instr' = None /\ cpu' = restart
Next == Contents \/ Fetch \/ Again
Spec == Init /\ [][Next]_<<cpu, instr>>

\* Every instruction of the decoder's tables leaves the registers, hi, lo, the
\* memory and the next pc of the manual, the RTL sequences of the unaligned
\* accesses and of the conditional moves included; $0 stays 0.
ExecutesAsManual ==
  instr # None => [Exec(cpu, instr) EXCEPT !.zero_null = 0] = [ISAStep(cpu, instr) EXCEPT !.zero_null = 0]

\* The pair the compiler emits for an unaligned word, lwr at a and lwl at a + 3
\* in either order, loads the word at a whatever the register held; swr and swl
\* store it and change no other byte (ldst.h builds them from aligned accesses).
UnalignedPairs ==
  instr = None => \A a \in 0 .. 2^W - 4 : \A r \in Values :
    LET m == cpu.mem
        w == lm(m, a, 4)
    IN  /\ lwl(m, a + 3, lwr(m, a, r)) = w
        /\ lwr(m, a, lwl(m, a + 3, r)) = w
        /\ swl(swr(m, a, r), a + 3, r) = sm(m, a, r, 4)
        /\ swr(swl(m, a + 3, r), a, r) = sm(m, a, r, 4)
=============================================================================
