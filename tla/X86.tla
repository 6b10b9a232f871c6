--------------------------------- MODULE X86 --------------------------------
\* Arithmetic of the x86 guest: what the helpers of arith.h and logic.h compute
\* into registers and into CF, ZF, SF and OF, and the two ways a condition code
\* is evaluated, from the flags (cc.h) and from the operands of the last
\* instruction (lazycc.h, CONFIG_x86_CC_LAZY), against the definitions of the
\* processor manual.  BYTE stands for 8 bits and a word has 4 * BYTE bits.
\* Decoding (instr/decode.c) is on real bytes: the opcode tables, the operand
\* helpers and the addressing forms of ModR/M and SIB, against the opcode map.
EXTENDS Bits, Sequences, FiniteSets

CONSTANTS BYTE,
  Words,         \* the 4-byte operands that are tried
  ModRMs, SIBs   \* bytes that are tried after the opcode

VARIABLE in   \* an operand width, two operands and the carry flag; or an operand-size
              \* prefix, an escape byte, an opcode, ModR/M and SIB bytes, and what they decode to

W == 4 * BYTE
U(x) == x % 2^W
S(x) == Signed(W, x)
Bytes(w) == w * BYTE
Mask(w, x) == x % 2^Bytes(w)
Count(c) == c % W   \* the count of a shift: 5 bits of it in the source

\* ---- include/rtl/pseudo.h, local-include/rtl.h
rtl_msb(x, w) == Bit(x, Bytes(w) - 1)
rtl_sext(x, w) == U(Signed(Bytes(w), x))
rtl_shl(x, c) == U(x * 2^Count(c))
rtl_shr(x, c) == x \div 2^Count(c)
rtl_sar(x, c) == U(S(x) \div 2^Count(c))
is_sub_overflow(res, src1, src2, w) == rtl_msb(BAnd(W, BXor(W, src1, src2), BXor(W, src1, res)), w)
is_sub_carry(src1, src2) == Truth(src1 < src2)
is_add_overflow(res, src1, src2, w) == is_sub_overflow(src1, res, src2, w)
is_add_carry(res, src1) == is_sub_carry(res, src1)
update_ZF(res, w) == Truth(Mask(w, res) = 0)
update_SF(res, w) == rtl_msb(res, w)

\* ---- arith.h and logic.h: the result and the flags of an instruction whose
\* operands, cut to w bytes, are d and s.
Flags(val, w, cf, of) == [val |-> Mask(w, val), CF |-> cf, ZF |-> update_ZF(val, w), SF |-> update_SF(val, w), OF |-> of]

add(w, d, s) ==
  LET s0 == Mask(w, U(d + s)) IN Flags(s0, w, is_add_carry(s0, d), is_add_overflow(s0, d, s, w))
sub(w, d, s) ==
  LET s0 == U(d - s) IN Flags(s0, w, is_sub_carry(d, s), is_sub_overflow(s0, d, s, w))
inc(w, d, cf) == LET v == U(d + 1) IN Flags(v, w, cf, Truth(v = 2^(Bytes(w) - 1)))
dec(w, d, cf) == Flags(U(d - 1), w, cf, Truth(d = 2^(Bytes(w) - 1)))
neg(w, d) == Flags(U(0 - d), w, Truth(d # 0), Truth(d = 2^(Bytes(w) - 1)))
\* The carry out of adding the carry flag to the source counts as well.
adc(w, d, s, cf) ==
  LET s0 == U(s + cf)
      s1 == Mask(w, U(d + s0))
  IN  Flags(s1, w, Truth(is_add_carry(s1, s0) + is_add_carry(s0, s) > 0), is_add_overflow(U(d + s0), d, s, w))
sbb(w, d, s, cf) ==
  LET s0 == U(s + cf)
      s1 == U(d - s0)
  IN  Flags(s1, w, Truth(is_add_carry(s0, s) + is_sub_carry(d, s0) > 0), is_sub_overflow(s1, d, s, w))
logic(w, v) == Flags(v, w, 0, 0)   \* and, or, test, xor

shl(w, d, s) ==
  LET s1 == rtl_shl(d, U(s - 1))
      v == rtl_shl(d, s)
  IN  Flags(v, w, rtl_msb(s1, w), rtl_msb(BXor(W, s1, v), w))
shr(w, d, s) ==
  LET s1 == rtl_shr(d, U(s - 1))
      v == rtl_shr(d, s)
  IN  Flags(v, w, s1 % 2, rtl_msb(BXor(W, s1, v), w))
sar(w, d, s) ==
  LET x == rtl_sext(d, w)
      s1 == rtl_sar(x, U(s - 1))
      v == rtl_sar(x, s)
  IN  Flags(v, w, s1 % 2, rtl_msb(BXor(W, s1, v), w))
rol(w, d, s) == Mask(w, BOr(W, rtl_shl(d, s), rtl_shr(d, U(Bytes(w) - s))))
ror(w, d, s) == Mask(w, BOr(W, rtl_shr(d, s), rtl_shl(d, U(Bytes(w) - s))))
shld(d, s1, s2) == BOr(W, rtl_shl(d, s2), rtl_shr(s1, U(W - 1 - s2)) \div 2)
\* A count of zero is an assert(0) of the interpreter.
Dead == -1
shrd(d, s1, s2) == IF Count(s2) = 0 THEN Dead ELSE BOr(W, rtl_shr(d, s2), U(rtl_shl(s1, U(W - 1 - s2)) * 2))

\* The registers of mul and div: the operand is memory ("m"), or eax or edx itself.
\* edx is written first; an operand in edx is copied before.
mul4(r, o) ==
  LET hi == (r[o] * r.eax) \div 2^W
      r1 == [r EXCEPT !.edx = hi]
      pdest == IF o = "edx" THEN r.edx ELSE r1[o]
      r2 == [r1 EXCEPT !.eax = U(pdest * r1.eax)]
  IN  [r |-> r2, CF |-> Truth(r2.edx # 0)]
imul4(r, o) ==
  LET hi == U((S(r[o]) * S(r.eax)) \div 2^W)
      r1 == [r EXCEPT !.edx = hi]
      pdest == IF o = "edx" THEN r.edx ELSE r1[o]
      r2 == [r1 EXCEPT !.eax = U(pdest * r1.eax)]
  IN  [r |-> r2, CF |-> Truth(U(r2.edx + rtl_msb(r2.eax, 4)) # 0)]
\* Widths 1 and 2: the low half of the product of two extended operands.
mul12(w, d, a) == LET s1 == U(d * a) IN [val |-> Mask(2 * w, s1), CF |-> Truth(s1 \div 2^Bytes(w) # 0)]
imul12(w, d, a) ==
  LET s1 == U(rtl_sext(d, w) * rtl_sext(a, w)) IN [val |-> Mask(2 * w, s1), CF |-> Truth(rtl_sext(s1, w) # s1)]
\* imul2 writes the low half and sets the flags from the high one; imul3 leaves
\* the flags f as they are unless it is built for DiffTest.
imul2(w, d, s) ==
  LET x == rtl_sext(d, w)
      y == rtl_sext(s, w)
      v == U(x * y)
      hi == U((S(x) * S(y)) \div 2^W)
      c == IF w = 4 THEN Truth(U(hi + rtl_msb(v, 4)) # 0) ELSE Truth(rtl_sext(v, w) # v)
  IN  Flags(v, w, c, c)
imul3(w, d, s, f, difftest) == LET r == imul2(w, d, s) IN IF difftest THEN r ELSE [f EXCEPT !.val = r.val]

\* The low half is divided while eax keeps a copy in s0, edx while it is still whole.
div4(r, o) ==
  LET s0 == r.eax
      n == r.edx * 2^W + s0
      r1 == [r EXCEPT !.eax = U(n \div r[o])]
      pdest == IF o = "eax" THEN s0 ELSE r1[o]
  IN  [r1 EXCEPT !.edx = U(n % pdest)]
idiv4(r, o) ==
  LET s0 == r.eax
      n == Signed(2 * W, r.edx * 2^W + s0)
      r1 == [r EXCEPT !.eax = U(CDiv(n, S(r[o])))]
      pdest == IF o = "eax" THEN s0 ELSE r1[o]
  IN  [r1 EXCEPT !.edx = U(CRem(n, S(pdest)))]
div12(w, n, d) == [q |-> Mask(w, n \div d), r |-> Mask(w, n % d)]

\* ---- cc.h: condition codes come in pairs, an odd one negates.
Conditions == {"O", "B", "E", "BE", "S", "L", "LE"}
rtl_setcc(f, cc, invert) ==
  LET x == CASE cc = "O" -> f.OF
             [] cc = "B" -> f.CF
             [] cc = "E" -> f.ZF
             [] cc = "BE" -> Truth(f.CF + f.ZF > 0)
             [] cc = "S" -> f.SF
             [] cc = "L" -> Truth(f.SF # f.OF)
             [] cc = "LE" -> Truth(f.SF # f.OF \/ f.ZF = 1)
  IN  IF invert THEN 1 - x ELSE x

\* ---- lazycc.h: what an instruction leaves behind for a later condition.  l is
\* the record before it, whose operands stay where the instruction gives none.
NoRecord == [op |-> "add", w |-> 0, dest |-> 0, src1 |-> 0, src2 |-> 0]
set_lazycc(l, op, w, dest) == [l EXCEPT !.op = op, !.w = w, !.dest = dest]
Lazy(l, op, w, d, s, cf) ==
  CASE op = "add" -> set_lazycc([l EXCEPT !.src1 = s], op, w, U(d + s))
    [] op = "sub" -> set_lazycc([l EXCEPT !.src1 = s], op, w, d)
    [] op = "inc" -> set_lazycc(l, op, w, U(d + 1))
    [] op = "dec" -> set_lazycc(l, op, w, U(d - 1))
    [] op = "neg" -> set_lazycc(l, op, w, U(0 - d))
    [] op = "adc" -> set_lazycc([l EXCEPT !.src1 = U(s + cf), !.src2 = s], op, w, U(d + U(s + cf)))
    [] op = "sbb" -> set_lazycc([l EXCEPT !.src1 = d, !.src2 = s], op, w, U(d - U(s + cf)))
    [] op = "logic" -> set_lazycc(l, op, w, BAnd(W, d, s))
    [] op \in {"not", "rol", "shift", "mul"} -> l   \* none of these calls set_lazycc

MASKDEST_none(l) == l.dest
MASKDEST(l) == IF l.w = 4 THEN l.dest ELSE Mask(l.w, l.dest)

\* The relation of cc2relop and cc2relop_logic on two words, for the even or
\* the odd condition of a pair.
Relop(cc, odd, x, y) ==
  CASE cc = "B" -> IF odd THEN x >= y ELSE x < y
    [] cc = "BE" -> IF odd THEN x > y ELSE x <= y
    [] cc = "E" -> IF odd THEN x # y ELSE x = y
    [] cc \in {"L", "S"} -> IF odd THEN S(x) >= S(y) ELSE S(x) < S(y)
    [] cc = "LE" -> IF odd THEN S(x) > S(y) ELSE S(x) <= S(y)

\* The overflow of each operation, recovered from what it left behind.
LazyOverflow(l) ==
  LET Lowest == 2^(Bytes(l.w) - 1)
  IN  CASE l.op = "add" -> is_add_overflow(l.dest, l.src1, U(l.dest - l.src1), l.w)
        [] l.op = "sub" -> is_sub_overflow(U(l.dest - l.src1), l.dest, l.src1, l.w)
        [] l.op = "neg" -> Truth(l.dest = U(0 - Lowest))
        [] l.op = "inc" -> Truth(l.dest = Lowest)
        [] l.op = "dec" -> Truth(U(l.dest + 1) = Lowest)
        [] l.op = "adc" -> is_add_overflow(l.dest, U(l.dest - l.src1), l.src2, l.w)
        [] l.op = "sbb" -> is_sub_overflow(l.dest, l.src1, l.src2, l.w)
        [] l.op = "logic" -> 0
LazyCarry(l) ==
  CASE l.op = "add" -> is_add_carry(MASKDEST(l), l.src1)
    [] l.op = "neg" -> Truth(l.dest # 0)
    [] l.op = "adc" -> Truth(is_add_carry(l.src1, l.src2) + is_add_carry(MASKDEST(l), l.src1) > 0)
    [] l.op = "sbb" -> Truth(is_add_carry(U(l.src1 - l.dest), l.src2) + is_sub_carry(l.src1, l.dest) > 0)

Panics(l, cc) == l.op \in {"inc", "dec"} /\ cc \in {"B", "BE"}
\* negcc_reverse, and NEGCCRELOP with what is xored into it.
negcc(odd, x) == IF odd THEN 1 - x ELSE x
lazy_setcc_internal(l, cc, odd) ==
  LET shifted == IF l.w = 4 THEN l.dest ELSE rtl_shl(l.dest, W - Bytes(l.w))
      p == IF l.op = "sub" THEN U(l.dest - l.src1) ELSE l.dest
      less == Truth(LazyOverflow(l) # rtl_msb(l.dest, l.w))
  IN  CASE l.op # "sub" /\ cc = "E" -> Truth(Relop(cc, odd, IF l.op = "logic" THEN l.dest ELSE shifted, 0))
        [] cc = "S" -> Truth(Relop(cc, odd, IF l.w = 4 THEN p ELSE rtl_shl(p, W - Bytes(l.w)), 0))
        [] cc = "O" -> negcc(odd, LazyOverflow(l))
        [] l.op = "sub" /\ cc \in {"B", "BE", "E", "L", "LE"} -> Truth(Relop(cc, odd, l.dest, l.src1))
        [] l.op = "logic" /\ cc \in {"L", "LE"} -> Truth(Relop(cc, odd, shifted, 0))
        [] l.op = "logic" /\ cc \in {"B", "BE"} -> Truth(Relop(cc, odd, l.dest, 0))
        [] l.op = "add" /\ cc \in {"B", "L"} -> Truth(Relop(cc, odd, MASKDEST(l), l.src1))
        [] l.op = "neg" /\ cc = "BE" -> negcc(odd, 1)
        [] l.op \in {"neg", "adc", "sbb"} /\ cc = "B" -> negcc(odd, LazyCarry(l))
        [] l.op \in {"add", "adc", "sbb"} /\ cc = "BE" ->
             negcc(odd, Truth(LazyCarry(l) = 1 \/ (IF l.op = "sbb" THEN l.dest ELSE MASKDEST(l)) = 0))
        [] l.op \notin {"sub", "logic", "add"} /\ cc = "L" -> negcc(odd, less)
        [] l.op \notin {"sub", "logic"} /\ cc = "LE" ->
             negcc(odd, Truth(less = 1 \/ (IF l.op \in {"neg", "dec"} THEN l.dest ELSE MASKDEST(l)) = 0))

\* ---- the manual: the flags of a result are those of the exact one.
Manual(w, exact, signed, cf) ==
  [val |-> exact % 2^Bytes(w), CF |-> cf, ZF |-> Truth(exact % 2^Bytes(w) = 0),
   SF |-> Truth(Signed(Bytes(w), exact) < 0), OF |-> Truth(signed # Signed(Bytes(w), exact))]
Ops == {"add", "sub", "inc", "dec", "neg", "adc", "sbb", "logic"}
Exact(op, w, d, s, cf) ==
  LET n == Bytes(w)
      x == Signed(n, d)
      y == Signed(n, s)
      out(u) == Truth(u \notin 0 .. 2^n - 1)
  IN  CASE op = "add" -> Manual(w, d + s, x + y, out(d + s))
        [] op = "sub" -> Manual(w, d - s, x - y, out(d - s))
        [] op = "inc" -> Manual(w, d + 1, x + 1, cf)
        [] op = "dec" -> Manual(w, d - 1, x - 1, cf)
        [] op = "neg" -> Manual(w, 0 - d, 0 - x, out(0 - d))
        [] op = "adc" -> Manual(w, d + s + cf, x + y + cf, out(d + s + cf))
        [] op = "sbb" -> Manual(w, d - s - cf, x - y - cf, out(d - s - cf))
        [] op = "logic" -> Manual(w, BAnd(n, d, s), Signed(n, BAnd(n, d, s)), 0)
Eager(op, w, d, s, cf) ==
  CASE op = "add" -> add(w, d, s)
    [] op = "sub" -> sub(w, d, s)
    [] op = "inc" -> inc(w, d, cf)
    [] op = "dec" -> dec(w, d, cf)
    [] op = "neg" -> neg(w, d)
    [] op = "adc" -> adc(w, d, s, cf)
    [] op = "sbb" -> sbb(w, d, s, cf)
    [] op = "logic" -> logic(w, BAnd(W, d, s))

-----------------------------------------------------------------------------
R_ESP == 4
R_EBP == 5
None == 8   \* base_reg or index_reg -1
mod(m) == Field(m, 7, 6)
reg(m) == Field(m, 5, 3)
R_M(m) == Field(m, 2, 0)

\* ---- load_addr: base, index and scale of a memory operand, the size of the
\* displacement and the bytes fetched after ModR/M.
load_addr(m, sib) ==
  LET has == R_M(m) = R_ESP
      base == IF has THEN Field(sib, 2, 0) ELSE R_M(m)
      none == mod(m) = 0 /\ base = R_EBP
      disp == IF mod(m) = 0 THEN (IF none THEN 4 ELSE 0) ELSE IF mod(m) = 1 THEN 1 ELSE 4
  IN  [base |-> IF none THEN None ELSE base, disp |-> disp, size |-> Truth(has) + disp,
       index |-> IF has /\ Field(sib, 5, 3) # R_ESP THEN Field(sib, 5, 3) ELSE None,
       scale |-> IF has THEN Field(sib, 7, 6) ELSE 0]

\* ---- the operands: a register of some width, memory, an immediate or an address.
Reg(r, w) == [is |-> "reg", r |-> r, w |-> w]
Mem(m, sib) == [is |-> "mem", at |-> load_addr(m, sib)]
Imm(n) == [is |-> "imm", n |-> n]
Nothing == [is |-> "none"]
operand_rm(m, sib, w) == IF mod(m) = 3 THEN Reg(R_M(m), w) ELSE Mem(m, sib)
RmSize(m, sib) == 1 + (IF mod(m) = 3 THEN 0 ELSE load_addr(m, sib).size)

\* The operands a decode helper fills and the bytes it fetches, at width w.
Filled(dest, src1, src2, size) == [dest |-> dest, src1 |-> src1, src2 |-> src2, size |-> size]
Abs == [is |-> "abs"]
OtherOperands(form, w, op, m, sib) ==
  LET E == operand_rm(m, sib, w)
      G == Reg(reg(m), w)
      a == Reg(0, w)
      rm == RmSize(m, sib)
  IN  CASE form = "Ib_G2E" -> Filled(E, G, Imm(1), rm + 1)
        [] form = "cl_G2E" -> Filled(E, G, Reg(1, 4), rm)
        [] form = "O2a" -> Filled(a, Abs, Nothing, 4)
        [] form = "a2O" -> Filled(Abs, a, Nothing, 4)
        [] form = "a2r" -> Filled(Reg(op % 8, w), a, Nothing, 0)
        [] form = "J" -> Filled(Imm(w), Imm(4), Nothing, w)
        [] form = "dx2a" -> Filled(a, Reg(2, 2), Nothing, 0)
        [] form = "a2dx" -> Filled(Reg(2, 2), a, Nothing, 0)
Operands(form, w, op, m, sib) ==
  LET E(v) == operand_rm(m, sib, v)
      G(v) == Reg(reg(m), v)
      r == Reg(op % 8, w)
      rm == RmSize(m, sib)
  IN  CASE form = "" -> Filled(Nothing, Nothing, Nothing, 0)
        [] form = "G2E" -> Filled(E(w), G(w), Nothing, rm)
        [] form = "E2G" -> Filled(G(w), E(w), Nothing, rm)
        [] form = "Eb2G" -> Filled(G(w), E(1), Nothing, rm)
        [] form = "Ew2G" -> Filled(G(w), E(2), Nothing, rm)
        [] form = "I2a" -> Filled(Reg(0, w), Imm(w), Nothing, w)
        [] form = "I_E2G" -> Filled(G(w), E(w), Imm(w), rm + w)
        [] form = "SI_E2G" -> Filled(G(w), E(w), Imm(1), rm + 1)
        [] form = "I2E" -> Filled(E(w), Imm(w), Nothing, rm + w)
        [] form = "SI2E" -> Filled(E(w), Imm(1), Nothing, rm + 1)
        [] form = "I2r" -> Filled(r, Imm(w), Nothing, w)
        [] form \in {"I", "SI"} -> Filled(Imm(w), Nothing, Nothing, w)
        [] form = "r" -> Filled(r, Nothing, Nothing, 0)
        [] form = "E" -> Filled(E(w), Nothing, Nothing, rm)
        [] form = "1_E" -> Filled(E(w), Imm(0), Nothing, rm)
        [] form = "cl2E" -> Filled(E(w), Reg(1, 4), Nothing, rm)
        [] form = "Ib2E" -> Filled(E(w), Imm(1), Nothing, rm + 1)
        [] OTHER -> OtherOperands(form, w, op, m, sib)

\* ---- the tables: rows of first and last opcode, helper, name and width (0: by
\* the operand-size prefix).  Opcodes are decimal; 144 is listed before the row of
\* xchg that would match it.  The vector instructions and the repeated string
\* instructions are left out.
gp1 == <<"add", "or", "adc", "sbb", "and", "sub", "xor", "cmp">>
gp2 == <<"rol", "ror", "inv", "inv", "shl", "shr", "inv", "sar">>
gp3 == <<"test", "inv", "not", "neg", "mul", "imul1", "div", "idiv">>
gp4 == <<"inc", "dec", "inv", "inv", "inv", "inv", "inv", "inv">>
gp5 == <<"inc", "dec", "call_E", "inv", "jmp_E", "inv", "push", "inv">>
gp6 == <<"inv", "inv", "inv", "ltr", "inv", "inv", "inv", "inv">>
gp7 == <<"inv", "inv", "lgdt", "lidt", "inv", "inv", "inv", "inv">>

Alu(base, name, forms) ==
  {<<base + k, base + k, <<"G2E", "G2E", "E2G", "E2G", "I2a", "I2a">>[k + 1], name, IF k % 2 = 0 THEN 1 ELSE 0>> : k \in forms}
main ==
  Alu(0, "add", {0, 1, 2, 3, 5}) \cup Alu(8, "or", 0 .. 5) \cup Alu(16, "adc", {0, 1, 3}) \cup Alu(24, "sbb", {0, 1, 3})
  \cup Alu(32, "and", 0 .. 5) \cup Alu(40, "sub", {0, 1, 2, 3, 5}) \cup Alu(48, "xor", {0, 1, 2, 3, 5}) \cup Alu(56, "cmp", 0 .. 5)
  \cup {<<64, 71, "r", "inc", 0>>, <<72, 79, "r", "dec", 0>>, <<80, 87, "r", "push", 0>>, <<88, 95, "r", "pop", 0>>,
        <<96, 96, "", "pusha", 0>>, <<97, 97, "", "popa", 0>>,
        <<104, 104, "I", "push", 0>>, <<105, 105, "I_E2G", "imul3", 0>>, <<106, 106, "SI", "push", 1>>, <<107, 107, "SI_E2G", "imul3", 0>>,
        <<112, 127, "J", "jcc", 1>>,
        <<128, 128, "I2E", "gp1", 1>>, <<129, 129, "I2E", "gp1", 0>>, <<131, 131, "SI2E", "gp1", 0>>,
        <<132, 132, "G2E", "test", 1>>, <<133, 133, "G2E", "test", 0>>, <<134, 134, "G2E", "xchg", 1>>,
        <<136, 136, "G2E", "mov", 1>>, <<137, 137, "G2E", "mov", 0>>, <<138, 138, "E2G", "mov", 1>>, <<139, 139, "E2G", "mov", 0>>,
        <<141, 141, "E2G", "lea", 4>>, <<142, 142, "E2G", "mov_rm2sreg", 2>>,
        <<144, 144, "", "nop", 0>>, <<145, 151, "a2r", "xchg", 0>>, <<152, 152, "", "cwtl", 0>>, <<153, 153, "", "cltd", 0>>, <<156, 156, "", "pushf", 0>>,
        <<160, 160, "O2a", "mov", 1>>, <<161, 161, "O2a", "mov", 0>>, <<162, 162, "a2O", "mov", 1>>, <<163, 163, "a2O", "mov", 0>>,
        <<164, 164, "", "movs", 1>>, <<165, 165, "", "movs", 0>>, <<168, 168, "I2a", "test", 1>>, <<169, 169, "I2a", "test", 0>>,
        <<176, 183, "I2r", "mov", 1>>, <<184, 191, "I2r", "mov", 0>>, <<192, 192, "Ib2E", "gp2", 1>>, <<193, 193, "Ib2E", "gp2", 0>>,
        <<194, 194, "I", "ret_imm", 2>>, <<195, 195, "", "ret", 0>>, <<198, 198, "I2E", "mov", 1>>, <<199, 199, "I2E", "mov", 0>>,
        <<201, 201, "", "leave", 0>>, <<205, 205, "I", "_int", 1>>, <<207, 207, "", "iret", 0>>,
        <<208, 208, "1_E", "gp2", 1>>, <<209, 209, "1_E", "gp2", 0>>, <<210, 210, "cl2E", "gp2", 1>>, <<211, 211, "cl2E", "gp2", 0>>,
        <<214, 214, "", "nemu_trap", 0>>, <<227, 227, "J", "jecxz", 1>>, <<232, 232, "J", "call", 4>>, <<233, 233, "J", "jmp", 4>>, <<235, 235, "J", "jmp", 1>>,
        <<237, 237, "dx2a", "in", 0>>, <<238, 238, "a2dx", "out", 1>>, <<239, 239, "a2dx", "out", 0>>,
        <<246, 246, "E", "gp3", 1>>, <<247, 247, "E", "gp3", 0>>, <<248, 248, "", "clc", 0>>, <<249, 249, "", "stc", 0>>, <<252, 252, "", "cld", 0>>,
        <<254, 254, "E", "gp4", 1>>, <<255, 255, "E", "gp5", 0>>}
_2byte_esc ==
  {<<0, 0, "E", "gp6", 2>>, <<1, 1, "E", "gp7", 4>>, <<32, 32, "G2E", "mov_cr2r", 4>>, <<34, 34, "E2G", "mov_r2cr", 4>>, <<49, 49, "", "rdtsc", 0>>,
   <<64, 79, "E2G", "cmovcc", 0>>, <<128, 143, "J", "jcc", 4>>, <<144, 159, "E", "setcc", 1>>, <<162, 162, "", "cpuid", 0>>, <<163, 163, "G2E", "bt", 0>>,
   <<164, 164, "Ib_G2E", "shld", 0>>, <<165, 165, "cl_G2E", "shld", 0>>, <<172, 172, "Ib_G2E", "shrd", 0>>, <<175, 175, "E2G", "imul2", 0>>,
   <<177, 177, "G2E", "cmpxchg", 0>>, <<182, 182, "Eb2G", "movzb", 0>>, <<183, 183, "Ew2G", "movzw", 4>>, <<189, 189, "E2G", "bsr", 0>>,
   <<190, 190, "Eb2G", "movsb", 0>>, <<191, 191, "Ew2G", "movsw", 4>>, <<193, 193, "G2E", "xadd", 0>>}

Rows(esc) == IF esc THEN _2byte_esc ELSE main
RowsOf(esc, op) == {r \in Rows(esc) : op \in r[1] .. r[2]}

\* ---- isa_fetch_decode, from the operand-size prefix on.
table_main(op16, esc, op, m, sib) ==
  IF RowsOf(esc, op) = {} THEN [name |-> "inv", w |-> 0, o |-> Operands("", 0, op, m, sib), len |-> 0]
  ELSE LET row == CHOOSE r \in RowsOf(esc, op) : TRUE
           w == IF row[5] = 0 THEN (IF op16 THEN 2 ELSE 4) ELSE row[5]
           o == Operands(row[3], w, op, m, sib)
           g == reg(m) + 1
           name == CASE row[4] = "gp1" -> gp1[g] [] row[4] = "gp2" -> gp2[g] [] row[4] = "gp3" -> gp3[g]
                     [] row[4] = "gp4" -> gp4[g] [] row[4] = "gp5" -> gp5[g] [] row[4] = "gp6" -> gp6[g]
                     [] row[4] = "gp7" -> gp7[g] [] OTHER -> row[4]
           test_I == row[4] = "gp3" /\ name = "test"
       IN  [name |-> name, w |-> w,
            o |-> IF test_I THEN [o EXCEPT !.src1 = Imm(w), !.size = @ + w] ELSE o,
            len |-> Truth(op16) + Truth(esc) + 1 + o.size + (IF test_I THEN w ELSE 0)]

-----------------------------------------------------------------------------
Values(w) == IF w = 4 THEN Words ELSE 0 .. 2^Bytes(w) - 1
Init == in = [step |-> "start"]
ChooseDest(w) == /\ in.step = "start"
                 /\ \E d \in Values(w) : in' = [step |-> "dest", w |-> w, d |-> d]
Compute == /\ in.step = "dest"
           /\ \E s \in Values(in.w), cf \in {0, 1} : in' = [step |-> "run", w |-> in.w, d |-> in.d, s |-> s, cf |-> cf]
ChooseOpcode == /\ in.step = "start"
                /\ \E op16, esc \in BOOLEAN, op \in 0 .. 255 : in' = [step |-> "opcode", op16 |-> op16, esc |-> esc, op |-> op]
DecodeIt == /\ in.step = "opcode"
            /\ \E m \in ModRMs, sib \in SIBs :
                 in' = [step |-> "decoded", op16 |-> in.op16, esc |-> in.esc, op |-> in.op, m |-> m, sib |-> sib,
                        out |-> table_main(in.op16, in.esc, in.op, m, sib)]
Next == (\E w \in {1, 2, 4} : ChooseDest(w)) \/ Compute \/ ChooseOpcode \/ DecodeIt
Spec == Init /\ [][Next]_in

\* The eight kinds of arithmetic of arith.h and logic.h give the result and the
\* flags of the manual at every width, the carry of adc and sbb through an
\* operand of all ones included.
FlagsAsManual ==
  in.step = "run" => \A op \in Ops : Eager(op, in.w, in.d, in.s, in.cf) = Exact(op, in.w, in.d, in.s, in.cf)

\* Shifts and rotations: the result for every count; for counts of one up to
\* the width, the last bit shifted out in CF, and OF for a count of one; a
\* double shift gives the bits of the two operands side by side.  (A count of
\* zero is not as the manual says: there the flags stay and shrd does nothing,
\* here the shifts write the flags, their early return being commented out, and
\* shrd ends the emulator.)
ShiftsAsManual ==
  in.step = "run" =>
    LET n == Bytes(in.w)
        c == in.s % W
        d == in.d
        x == Signed(n, d)
        up == shl(in.w, d, c)
        dn == shr(in.w, d, c)
        ar == sar(in.w, d, c)
    IN  /\ up.val = (d * 2^c) % 2^n /\ dn.val = d \div 2^c /\ ar.val = (x \div 2^c) % 2^n
        /\ c \in 1 .. n =>
             /\ up.CF = Bit(d, n - c) /\ dn.CF = Bit(d, c - 1) /\ ar.CF = (x \div 2^(c - 1)) % 2
             /\ \A r \in {up, dn, ar} : r.ZF = Truth(r.val = 0) /\ r.SF = Bit(r.val, n - 1)
        /\ c = 1 => /\ up.OF = Truth(Bit(up.val, n - 1) # up.CF)
                    /\ dn.OF = Bit(d, n - 1)
                    /\ ar.OF = 0
        /\ c \in 0 .. n => /\ rol(in.w, d, c) = ((d * 2^c) % 2^n) + (d \div 2^(n - c))
                           /\ ror(in.w, d, c) = (d \div 2^c) + ((d * 2^(n - c)) % 2^n)
        /\ in.w = 4 => /\ shld(d, BNot(W, d), c) = (((d * 2^W + BNot(W, d)) * 2^c) \div 2^W) % 2^W
                       /\ shrd(d, BNot(W, d), c) = IF c = 0 THEN Dead ELSE ((BNot(W, d) * 2^W + d) \div 2^c) % 2^W

\* One-operand multiplication and division write the double-width product, or
\* the quotient and the remainder, whichever register the operand is: edx and
\* eax are overwritten on the way.  CF says that the high half is not an extension
\* (of imul3 only the product is right, it sets no flags outside DiffTest).
\* (A division that would overflow raises no exception here, and the signed
\* one-byte and two-byte divisions do not extend their operands: both are left out.)
ProductsAsManual ==
  in.step = "run" =>
    LET w == in.w
        n == Bytes(w)
        m == 2^n
        x == Signed(n, in.d)
        y == Signed(n, in.s)
    IN  IF w # 4
        THEN /\ mul12(w, in.d, in.s) = [val |-> in.d * in.s, CF |-> Truth(in.d * in.s >= m)]
             /\ imul12(w, in.d, in.s) = [val |-> (x * y) % (m * m), CF |-> Truth(Signed(n, x * y) # x * y)]
             /\ imul2(w, in.d, in.s) = Manual(w, x * y, x * y, Truth(Signed(n, x * y) # x * y))
             /\ in.s # 0 => \A h \in {0, in.s - 1} :
                  LET v == h * m + in.d IN div12(w, v, in.s) = [q |-> v \div in.s, r |-> v % in.s]
        ELSE /\ imul2(w, in.d, in.s) = Manual(w, x * y, x * y, Truth(Signed(n, x * y) # x * y))
             /\ \A difftest \in BOOLEAN : imul3(w, in.d, in.s, add(w, in.d, in.s), difftest).val = (x * y) % m
             /\ \A o \in {"m", "eax", "edx"} :
                  LET r == [eax |-> in.d, edx |-> in.s, m |-> (in.d + in.s) % m]
                      p == mul4(r, o)
                      i == imul4(r, o)
                      sx == S(r[o]) * x
                      num == r.edx * m + r.eax
                      snum == Signed(2 * n, num)
                  IN  /\ p.r.edx * m + p.r.eax = r[o] * r.eax /\ p.CF = Truth(p.r.edx # 0)
                      /\ i.r.edx * m + i.r.eax = sx % (m * m) /\ i.CF = Truth(Signed(n, sx) # sx)
                      /\ r[o] # 0 /\ num \div r[o] < m =>
                           div4(r, o) = [r EXCEPT !.eax = num \div r[o], !.edx = num % r[o]]
                      /\ r[o] # 0 /\ CDiv(snum, S(r[o])) \in - (m \div 2) .. (m \div 2) - 1 =>
                           idiv4(r, o) = [r EXCEPT !.eax = U(CDiv(snum, S(r[o]))), !.edx = U(CRem(snum, S(r[o])))]

\* A condition or its negation, evaluated lazily from the operands kept by the
\* last arithmetic instruction, is the one the flags of the manual give, at every
\* width: whatever record the instructions before left (an instruction that
\* keeps fewer operands leaves theirs), and also after an instruction that
\* changes no flag (not) or only CF and OF (a rotation, for E and S).  Not so in
\* lazycc.h: L after an addition compares the sum with an operand, L and LE after
\* a subtraction of one or two bytes compare operands that are not sign-extended,
\* B and BE after inc and dec panic; and after a shift or a multiplication, which
\* leave no record, a condition is still that of the instruction before.
LazyAsManual ==
  in.step = "run" =>
    \A op \in Ops, cc \in Conditions, odd \in BOOLEAN, l0 \in {NoRecord, [NoRecord EXCEPT !.src1 = in.s, !.src2 = in.d]} :
      \A l \in {Lazy(l0, op, in.w, in.d, in.s, in.cf)}, cond \in {rtl_setcc(Exact(op, in.w, in.d, in.s, in.cf), cc, odd)} :
        \/ op = "add" /\ cc = "L"
        \/ op = "sub" /\ cc \in {"L", "LE"} /\ in.w # 4
        \/ Panics(l, cc)
        \/ \A then \in {l, Lazy(l, "not", in.w, in.d, in.s, in.cf)} \cup (IF cc \in {"E", "S"} THEN {Lazy(l, "rol", in.w, in.d, in.s, in.cf)} ELSE {}) :
             lazy_setcc_internal(then, cc, odd) = cond

Decoded == in.out
Ready == in.step = "decoded" /\ Decoded.name # "inv"

\* ---- the opcode map of the manual, for the opcodes NEMU implements.
V == IF in.op16 THEN 2 ELSE 4
HasModRM ==
  IF in.esc THEN in.op \in {0, 1, 32, 34, 163, 164, 165, 172, 175, 177, 182, 183, 189, 190, 191, 193} \cup 64 .. 79 \cup 144 .. 159
  ELSE (in.op < 64 /\ in.op % 8 < 4) \/ in.op \in {105, 107} \cup 128 .. 142 \cup {192, 193, 198, 199, 246, 247, 254, 255} \cup 208 .. 211
Immediate ==
  IF in.esc THEN (CASE in.op \in {164, 172} -> 1 [] in.op \in 128 .. 143 -> 4 [] OTHER -> 0)
  ELSE CASE in.op < 64 /\ in.op % 8 = 4 -> 1
         [] in.op < 64 /\ in.op % 8 = 5 -> V
         [] in.op \in {106, 107, 128, 131, 168, 192, 193, 198, 205, 227, 235} \cup 112 .. 127 \cup 176 .. 183 -> 1
         [] in.op \in {104, 105, 129, 169, 199} \cup 184 .. 191 -> V
         [] in.op \in 160 .. 163 \cup {232, 233} -> 4
         [] in.op = 194 -> 2
         [] in.op = 246 /\ reg(in.m) = 0 -> 1
         [] in.op = 247 /\ reg(in.m) = 0 -> V
         [] OTHER -> 0
\* The bytes of ModR/M, SIB and displacement: a register takes one byte; SIB
\* follows R/M 4; four bytes of displacement follow mod 2, R/M 5 under mod 0,
\* and a SIB with base 5 under mod 0.
ModRMSize ==
  CASE mod(in.m) = 3 -> 1
    [] mod(in.m) = 1 -> IF R_M(in.m) = 4 THEN 3 ELSE 2
    [] mod(in.m) = 2 -> IF R_M(in.m) = 4 THEN 6 ELSE 5
    [] mod(in.m) = 0 -> IF R_M(in.m) = 4 THEN (IF in.sib % 8 = 5 THEN 6 ELSE 2) ELSE IF R_M(in.m) = 5 THEN 5 ELSE 1

\* An instruction is as long as the manual says: snpc points behind it.
LengthAsManual ==
  Ready => Decoded.len = Truth(in.op16) + Truth(in.esc) + 1 + (IF HasModRM THEN ModRMSize ELSE 0) + Immediate

\* The first 64 opcodes are regular: bits 5..3 are the operation, bit 1 the
\* direction and bit 0 the width, the last two columns the accumulator and an
\* immediate; the eight operations of group 1 are the same in the same order.
AluRegular ==
  Ready /\ ~in.esc =>
    LET w == IF in.op % 2 = 0 THEN 1 ELSE V
        E == IF mod(in.m) = 3 THEN Reg(R_M(in.m), w) ELSE Mem(in.m, in.sib)
        G == Reg(reg(in.m), w)
    IN  /\ in.op < 64 =>
             /\ Decoded.name = gp1[(in.op \div 8) + 1]
             /\ Decoded.w = w
             /\ <<Decoded.o.dest, Decoded.o.src1>>
                  = CASE in.op % 8 < 2 -> <<E, G>> [] in.op % 8 < 4 -> <<G, E>> [] OTHER -> <<Reg(0, w), Imm(w)>>
        /\ in.op \in 128 .. 131 => Decoded.name = gp1[reg(in.m) + 1] /\ Decoded.o.dest = E
        \* mov, and the operations with a width bit
        /\ in.op \in {132, 133, 136, 137, 138, 139, 160, 161, 162, 163, 164, 165, 168, 169, 192, 193, 198, 199}
                       \cup 208 .. 211 \cup {246, 247, 254, 255} => Decoded.w = w
        /\ in.op \in 136 .. 139 => <<Decoded.o.dest, Decoded.o.src1>> = IF in.op < 138 THEN <<E, G>> ELSE <<G, E>>
        /\ in.op \in 160 .. 163 => (Decoded.o.dest.is = "abs") = (in.op >= 162)

\* The address of a memory operand: the base register unless there is none
\* under mod 0 with base 5, an index unless it is 4.
AddressAsManual ==
  Ready /\ HasModRM /\ mod(in.m) # 3 =>
    LET at == load_addr(in.m, in.sib)
        nobase == mod(in.m) = 0 /\ (R_M(in.m) = 5 \/ (R_M(in.m) = 4 /\ in.sib % 8 = 5))
    IN  /\ (at.base = None) = nobase
        /\ ~nobase => at.base = IF R_M(in.m) = 4 THEN in.sib % 8 ELSE R_M(in.m)
        /\ (at.index # None) = (R_M(in.m) = 4 /\ Field(in.sib, 5, 3) # 4)
        /\ at.index # None => at.index = Field(in.sib, 5, 3) /\ at.scale = in.sib \div 64
        /\ at.disp = IF nobase \/ mod(in.m) = 2 THEN 4 ELSE mod(in.m)

\* x86 instructions are decoded to the length, the operation, the operands and the
\* address that the opcode map gives (instr/decode.c), and compute the results,
\* the flags and the conditions of the manual (arith.h, logic.h, cc.h, lazycc.h).
X86AsManual ==
  /\ FlagsAsManual /\ ShiftsAsManual /\ ProductsAsManual /\ LazyAsManual
  /\ LengthAsManual /\ AluRegular /\ AddressAsManual
=============================================================================
