-------------------------------- MODULE Rvv --------------------------------
\* The vector instructions of the riscv64 guest (instr/rvv): their decoding,
\* vsetvl and the loops over elements, against the definitions of the manual.
\* A vector register is a natural number of VLEN bits.  BYTE stands for 8 bits,
\* an element has BYTE * 2^vsew bits, XLEN = BYTE * 2^MAXSEW stands for 64 and
\* immediates have IMM bits (5 in the source).
EXTENDS Bits, Sequences, FiniteSets

CONSTANTS BYTE, MAXSEW, VLEN, IMM,
  Seeds,   \* contents of the register file that are tried
  Lens     \* values of vl that are tried

VARIABLE in   \* an instruction, vtype, vl, vstart, the register file before and after it

XLEN == BYTE * 2^MAXSEW
X(x) == x % 2^XLEN
S(x) == Signed(XLEN, x)
Sext(w, x) == X(Signed(w, x))
Ones == 2^XLEN - 1
Lowest == 2^(XLEN - 1)
Width(vsew) == BYTE * 2^vsew

\* ---- vreg_impl.c
get_vlmax(vsew, vlmul) == (VLEN * 2^vlmul) \div Width(vsew)
get_mask(vr, reg, idx) == Bit(vr[reg], idx)
set_mask(vr, reg, idx, m) == [vr EXCEPT ![reg] = @ + (Truth(m # 0) - Bit(@, idx)) * 2^idx]

\* The register and the place in it of element idx of a group.
get_reg(reg, idx, vsew) == reg + (idx \div (VLEN \div Width(vsew)))
get_idx(idx, vsew) == idx % (VLEN \div Width(vsew))
get_vreg(vr, reg, idx, vsew, signed) ==
  LET w == Width(vsew)
      lo == w * get_idx(idx, vsew)
      v == Field(vr[get_reg(reg, idx, vsew)], lo + w - 1, lo)
  IN  IF signed THEN Sext(w, v) ELSE v
set_vreg(vr, reg, idx, src, vsew) ==
  LET w == Width(vsew)
      lo == w * get_idx(idx, vsew)
  IN  [vr EXCEPT ![get_reg(reg, idx, vsew)] = @ + ((src % 2^w) - Field(@, lo + w - 1, lo)) * 2^lo]

\* Mode 1 asks for the longest vector, mode 2 keeps vl; only mode 0 looks
\* whether the element width exists, and answers -1 when it does not.
check_vsetvl(vsew, lmul, vl_req, old_vl, mode) ==
  LET VLMAX == get_vlmax(vsew, lmul)
  IN  CASE mode = 1 -> VLMAX
        [] mode = 2 -> old_vl
        [] OTHER -> IF vsew > MAXSEW THEN Ones ELSE IF vl_req <= VLMAX THEN vl_req ELSE IF vl_req < 2 * VLMAX THEN (vl_req \div 2) + 1 ELSE VLMAX
\* vl is stored whatever it is; -1 also makes vtype illegal.
set_vtype_vl(vsew, lmul, vl_req, old_vl, mode) ==
  LET vl == check_vsetvl(vsew, lmul, vl_req, old_vl, mode) IN [vl |-> vl, vill |-> vl = Ones]
get_mode(rs1, rd) == IF rs1 = 0 THEN (IF rd # 0 THEN 1 ELSE 2) ELSE 0

\* ---- decode.h: what the major opcode of funct3 makes of funct6.
vopivv ==
  <<"vadd", "", "vsub", "vrsub", "vminu", "vmin", "vmaxu", "vmax", "", "vand", "vor", "vxor", "vrgather", "", "vrgatherei16", "vslidedown",
    "vadc", "vmadc", "vsbc", "vmsbc", "", "", "", "vmerge", "vmseq", "vmsne", "vmsltu", "vmslt", "vmsleu", "vmsle", "vmsgtu", "vmsgt",
    "vsaddu", "vsadd", "vssubu", "vssub", "vaadd", "vsll", "vasub", "vsmul", "vsrl", "vsra", "vssrl", "vssra", "vnsrl", "vnsra", "vnclipu", "vnclip",
    "vwredsumu", "vwredsum", "", "", "", "", "", "", "vdotu", "vdot", "", "", "vwsmaccu", "vwsmacc", "vwsmaccsu", "vwsmaccus">>
vopivx == [vopivv EXCEPT ![15] = "vslideup"]
vopivi == [vopivx EXCEPT ![40] = "vmvnr"]
\* The same table serves both operand forms.
vopm ==
  <<"vredsum", "vredand", "vredor", "vredxor", "vredminu", "vredmin", "vredmaxu", "vredmax", "", "", "", "", "", "", "vslide1up", "vslide1down",
    "vrwxunary0", "", "vxunary0", "", "vmunary0", "", "", "vcompress", "vmandnot", "vmand", "vmor", "vmxor", "vmornot", "vmnand", "vmnor", "vmxnor",
    "vdivu", "vdiv", "vremu", "vrem", "vmulhu", "vmul", "vmulhsu", "vmulh", "", "vmadd", "", "vnmsub", "", "vmacc", "", "vnmsac",
    "vwaddu", "vwadd", "vwsubu", "vwsub", "vwaddu_w", "vwadd_w", "vwsubu_w", "vwsub_w", "vwmulu", "", "vwmulsu", "vwmul", "vwmaccu", "vwmacc", "vwmaccus", "vwmaccsu">>
\* The rest of the instruction decides (rs2 = 0 is vmv.s.x whatever vs1 is).
vrwxunary0_dispatch(i) ==
  IF i.rs2 = 0 THEN "vmvsx" ELSE CASE i.rs1 = 0 -> "vmvxs" [] i.rs1 = 16 -> "vcpop" [] i.rs1 = 17 -> "vfirst" [] OTHER -> ""
vxunary0_dispatch(i) ==
  IF i.rs1 \in 2 .. 7 THEN <<"vzextvf8", "vsextvf8", "vzextvf4", "vsextvf4", "vzextvf2", "vsextvf2">>[i.rs1 - 1] ELSE ""
vmunary0_dispatch(i) ==
  CASE i.rs1 = 1 -> "vmsbf" [] i.rs1 = 2 -> "vmsof" [] i.rs1 = 3 -> "vmsif" [] i.rs1 = 16 -> "viota" [] i.rs1 = 17 -> "vid" [] OTHER -> ""
\* vxunary0_dispatch makes its operand an immediate (no extension uses it).
SrcMode(i) ==
  CASE i.funct3 = 3 \/ (i.funct3 = 2 /\ i.funct6 = 18) -> "vi" [] i.funct3 \in {0, 2} -> "vv" [] i.funct3 \in {4, 6} -> "vx"
OP_V(i) ==
  LET name == (CASE i.funct3 = 0 -> vopivv [] i.funct3 = 3 -> vopivi [] i.funct3 = 4 -> vopivx [] OTHER -> vopm)[i.funct6 + 1]
  IN  CASE name = "vrwxunary0" -> vrwxunary0_dispatch(i)
        [] name = "vxunary0" -> vxunary0_dispatch(i)
        [] name = "vmunary0" -> vmunary0_dispatch(i)
        [] OTHER -> name

\* ---- vcompute.h: <<instruction, operation, signed, widening, narrow, mask>>.
ARTHI(name, op, sgn) == <<name, op, sgn, 0, 0, FALSE>>
ARTHI_WIDE(name, op, sgn) == <<name, op, sgn, 1, 0, FALSE>>
ARTHI_MASK(name, op, sgn) == <<name, op, sgn, 0, 0, TRUE>>
ARTHI_NARROW(name, op, sgn, narrow) == <<name, op, sgn, 0, narrow, FALSE>>
Integer ==
  {ARTHI("vadd", "ADD", TRUE), ARTHI("vsub", "SUB", TRUE), ARTHI("vrsub", "RSUB", TRUE), ARTHI("vminu", "MINU", FALSE),
   ARTHI("vmin", "MIN", TRUE), ARTHI("vmaxu", "MAXU", FALSE), ARTHI("vmax", "MAX", TRUE), ARTHI("vand", "AND", TRUE),
   ARTHI("vor", "OR", TRUE), ARTHI("vxor", "XOR", TRUE), ARTHI("vrgather", "RGATHER", FALSE), ARTHI("vrgatherei16", "RGATHEREI16", FALSE),
   ARTHI("vslideup", "SLIDEUP", FALSE), ARTHI("vslidedown", "SLIDEDOWN", FALSE), ARTHI("vslide1up", "SLIDE1UP", FALSE),
   ARTHI("vslide1down", "SLIDE1DOWN", FALSE), ARTHI("vadc", "ADC", TRUE), ARTHI("vsbc", "SBC", TRUE), ARTHI("vmerge", "MERGE", TRUE)}
Compares ==
  {ARTHI_MASK("vmadc", "MADC", TRUE), ARTHI_MASK("vmsbc", "MSBC", TRUE), ARTHI_MASK("vmseq", "MSEQ", TRUE), ARTHI_MASK("vmsne", "MSNE", TRUE),
   ARTHI_MASK("vmsltu", "MSLTU", FALSE), ARTHI_MASK("vmslt", "MSLT", TRUE), ARTHI_MASK("vmsleu", "MSLEU", FALSE), ARTHI_MASK("vmsle", "MSLE", TRUE),
   ARTHI_MASK("vmsgtu", "MSGTU", FALSE), ARTHI_MASK("vmsgt", "MSGT", TRUE)}
Shifts ==
  {ARTHI("vsll", "SLL", FALSE), ARTHI("vsrl", "SRL", FALSE), ARTHI("vsra", "SRA", FALSE), ARTHI_NARROW("vnsrl", "SRL", FALSE, 1), ARTHI_NARROW("vnsra", "SRA", FALSE, 1)}
Extensions ==
  {ARTHI_NARROW("vzextvf8", "VEXT", FALSE, -3), ARTHI_NARROW("vsextvf8", "VEXT", TRUE, -3), ARTHI_NARROW("vzextvf4", "VEXT", FALSE, -2),
   ARTHI_NARROW("vsextvf4", "VEXT", TRUE, -2), ARTHI_NARROW("vzextvf2", "VEXT", FALSE, -1), ARTHI_NARROW("vsextvf2", "VEXT", TRUE, -1)}
Multiplies ==
  {ARTHI("vdivu", "DIVU", FALSE), ARTHI("vdiv", "DIV", TRUE), ARTHI("vremu", "REMU", FALSE), ARTHI("vrem", "REM", TRUE),
   ARTHI("vmulhu", "MULHU", FALSE), ARTHI("vmul", "MUL", TRUE), ARTHI("vmulhsu", "MULHSU", FALSE), ARTHI("vmulh", "MULH", TRUE),
   ARTHI("vmadd", "MADD", TRUE), ARTHI("vnmsub", "NMSUB", TRUE), ARTHI("vmacc", "MACC", TRUE), ARTHI("vnmsac", "NMSAC", TRUE)}
Widenings ==
  {ARTHI_WIDE("vwaddu", "ADD", FALSE), ARTHI_WIDE("vwadd", "ADD", TRUE), ARTHI_WIDE("vwsubu", "SUB", FALSE), ARTHI_WIDE("vwsub", "SUB", TRUE),
   <<"vwaddu_w", "ADD", FALSE, 1, 1, FALSE>>, <<"vwadd_w", "ADD", TRUE, 1, 1, FALSE>>, <<"vwsubu_w", "SUB", FALSE, 1, 1, FALSE>>, <<"vwsub_w", "SUB", TRUE, 1, 1, FALSE>>,
   ARTHI_WIDE("vwmulu", "MUL", FALSE), ARTHI_WIDE("vwmulsu", "MULSU", FALSE), ARTHI_WIDE("vwmul", "MUL", TRUE), ARTHI_WIDE("vwmaccu", "MACC", FALSE),
   ARTHI_WIDE("vwmacc", "MACC", TRUE), ARTHI_WIDE("vwmaccsu", "MACCSU", FALSE), ARTHI_WIDE("vwmaccus", "MACCUS", FALSE)}
Arithmetic == Integer \cup Compares \cup Shifts \cup Extensions \cup Multiplies \cup Widenings
\* Raised as illegal, which longjmp_raise_intr answers with assert(0).
Unimplemented ==
  {"vsaddu", "vsadd", "vssubu", "vssub", "vaadd", "vasub", "vsmul", "vssrl", "vssra", "vnclipu", "vnclip", "vdotu", "vdot",
   "vwsmaccu", "vwsmacc", "vwsmaccsu", "vwsmaccus"}
REDInstr ==
  {<<"vredsum", "ADD", TRUE, 0>>, <<"vredand", "AND", FALSE, 0>>, <<"vredor", "OR", FALSE, 0>>, <<"vredxor", "XOR", FALSE, 0>>, <<"vredminu", "MINU", FALSE, 0>>,
   <<"vredmin", "MIN", TRUE, 0>>, <<"vredmaxu", "MAXU", FALSE, 0>>, <<"vredmax", "MAX", TRUE, 0>>, <<"vwredsumu", "ADD", FALSE, 1>>, <<"vwredsum", "ADD", TRUE, 1>>}
Row(table, name) == CHOOSE r \in table : r[1] = name
Names(table) == {r[1] : r \in table}

\* ---- vcompute_impl.c.  The operations on a = s0 and b = s1; w is the width
\* of the decoded element (s->v_width * 8), d the destination's element.
c_minmax(a, b, less) == IF less THEN a ELSE b
c_shl(a, n) == X(a * 2^n)
c_sar(a, n) == X(S(a) \div 2^n)
Simple(op, a, b) ==
  CASE op = "ADD" -> X(a + b) [] op = "SUB" -> X(a - b) [] op = "RSUB" -> X(b - a)
    [] op = "AND" -> BAnd(XLEN, a, b) [] op = "OR" -> BOr(XLEN, a, b) [] op = "XOR" -> BXor(XLEN, a, b)
    [] op = "MIN" -> c_minmax(a, b, S(a) < S(b)) [] op = "MAX" -> c_minmax(a, b, S(a) > S(b))
    [] op = "MINU" -> c_minmax(a, b, a < b) [] op = "MAXU" -> c_minmax(a, b, a > b)
Relop(op, a, b) ==
  Truth(CASE op = "MSEQ" -> a = b [] op = "MSNE" -> a # b [] op = "MSLTU" -> a < b [] op = "MSLT" -> S(a) < S(b)
          [] op = "MSLEU" -> a <= b [] op = "MSLE" -> S(a) <= S(b) [] op = "MSGTU" -> a > b [] op = "MSGT" -> S(a) > S(b))
Carry(op, a, b, m) ==
  LET t == S(IF op = "MADC" THEN X(a + b + m) ELSE X(a - b - m))
  IN  Truth((S(a) >= 0 /\ S(b) >= 0) = (t < 0))
Shift(op, a, b, w, narrow) ==
  LET n == b % (IF narrow # 0 /\ op # "SLL" THEN 2 * w ELSE w)
      sa == IF narrow # 0 THEN Sext(2 * w, a) ELSE Sext(w, a)
  IN  CASE op = "SLL" -> c_shl(a, n) [] op = "SRL" -> a \div 2^n [] op = "SRA" -> c_sar(sa, n)
MulHigh(op, a, b, w) ==
  CASE op = "MULHU" -> X((a * b) \div 2^w)
    [] op = "MULHSU" -> X(((a * b) \div 2^w) - (IF S(Sext(w, a)) < 0 THEN b ELSE 0))
    [] op = "MULH" -> X((S(Sext(w, a)) * S(Sext(w, b))) \div 2^w)
MulAdd(op, a, b, d, sew) ==
  CASE op = "MUL" -> X(a * b) [] op = "MULSU" -> X(Sext(sew, a) * b)
    [] op = "MACC" -> X(a * b + d) [] op = "MACCSU" -> X(X(a * Sext(sew, b)) + d) [] op = "MACCUS" -> X(X(Sext(sew, a) * b) + d)
    [] op = "NMSAC" -> X(d - X(a * b)) [] op = "MADD" -> X(X(b * d) + a) [] op = "NMSUB" -> X(a - X(d * b))
\* The most negative dividend by -1 is divided by the host in REM, whose test
\* never holds: it is not in the inputs that the properties cover.
Divide(op, a, b, w) ==
  LET sa == Sext(w, a)
      sb == Sext(w, b)
  IN  CASE op = "DIVU" -> IF b = 0 THEN Ones ELSE a \div b
        [] op = "REMU" -> IF b = 0 THEN a ELSE a % b
        [] op = "DIV" -> IF sb = 0 THEN Ones ELSE IF sa = Lowest /\ sb = Ones THEN sa ELSE X(CDiv(S(sa), S(sb)))
        [] op = "REM" -> IF sb = 0 THEN sa ELSE X(CRem(S(sa), S(sb)))
\* An instruction in flight: i the encoding, c the vector CSRs and the scalar
\* operand, vr the registers.
vs1(i) == i.rs1
Operand2(row, i, c, vr, idx) ==
  CASE SrcMode(i) = "vv" -> IF row[2] = "RGATHEREI16" THEN get_vreg(vr, vs1(i), idx, 1, FALSE) ELSE get_vreg(vr, vs1(i), idx, c.vsew, row[3])
    [] SrcMode(i) = "vx" -> IF row[3] THEN Sext(Width(c.vsew), c.x) ELSE c.x
    [] SrcMode(i) = "vi" -> IF row[3] THEN Sext(IMM, i.rs1 % 2^IMM) ELSE i.rs1 % 2^IMM
Permute(op, i, c, vr, idx, b) ==
  LET vlmax == get_vlmax(c.vsew, c.vlmul)
      E(k) == get_vreg(vr, i.rs2, k, c.vsew, FALSE)
  IN  CASE op = "SLIDEUP" -> IF idx >= b THEN E(idx - b) ELSE get_vreg(vr, i.rd, idx, c.vsew, FALSE)
        [] op = "SLIDEDOWN" -> IF X(idx + b) < vlmax THEN E(X(idx + b)) ELSE 0
        [] op = "SLIDE1UP" -> IF idx > 0 THEN E(idx - 1) ELSE b
        [] op = "SLIDE1DOWN" -> IF idx < c.vl - 1 THEN E(idx + 1) ELSE b
        [] op \in {"RGATHER", "RGATHEREI16"} -> IF b < vlmax THEN E(b) ELSE 0
Unmasked == {"MERGE", "ADC", "MADC", "SBC", "MSBC"}
Result(row, i, c, vr, idx) ==
  LET op == row[2]
      mask == IF i.vm = 1 /\ op = "MERGE" THEN 1 ELSE get_mask(vr, 0, idx)
      a == get_vreg(vr, i.rs2, idx, c.vsew + row[5], row[3])
      b == Operand2(row, i, c, vr, idx)
      d == get_vreg(vr, i.rd, idx, c.vsew + row[4], row[3])
      w == BYTE * c.v_width
  IN  CASE op \in {"ADD", "SUB", "RSUB", "AND", "OR", "XOR", "MIN", "MAX", "MINU", "MAXU"} -> Simple(op, a, b)
        [] op = "VEXT" -> a
        [] op = "ADC" -> X(a + b + mask) [] op = "SBC" -> X(a - b - mask)
        [] op = "MERGE" -> IF mask # 0 THEN b ELSE a
        [] op \in {"MADC", "MSBC"} -> Carry(op, a, b, mask)
        [] op \in {"SLL", "SRL", "SRA"} -> Shift(op, a, b, w, row[5])
        [] op \in {"MULHU", "MULHSU", "MULH"} -> MulHigh(op, a, b, w)
        [] op \in {"DIVU", "DIV", "REMU", "REM"} -> Divide(op, a, b, w)
        [] op \in {"MUL", "MULSU", "MACC", "MACCSU", "MACCUS", "NMSAC", "MADD", "NMSUB"} -> MulAdd(op, a, b, d, Width(c.vsew))
        [] op \in {"SLIDEUP", "SLIDEDOWN", "SLIDE1UP", "SLIDE1DOWN", "RGATHER", "RGATHEREI16"} -> Permute(op, i, c, vr, idx, b)
        [] OTHER -> Relop(op, a, b)
\* The elements in turn, each on what the ones before it left.
Loop(step(_, _), from, to, vr0) ==
  LET st[k \in from .. (IF to < from THEN from ELSE to)] ==
        IF k = from THEN vr0 ELSE LET before == st[k - 1] IN step(before, k - 1)
  IN  IF to <= from THEN vr0 ELSE st[to]
arthimetic_instr(row, i, c, vr0) ==
  LET Step(vr, idx) ==
        IF i.vm = 0 /\ row[2] \notin Unmasked /\ get_mask(vr, 0, idx) = 0 THEN vr
        ELSE IF row[6] THEN set_mask(vr, i.rd, idx, Result(row, i, c, vr, idx))
        ELSE set_vreg(vr, i.rd, idx, Result(row, i, c, vr, idx), c.vsew + row[4])
  IN  Loop(Step, c.vstart, c.vl, vr0)
mask_instr(op, i, c, vr0) ==
  LET Step(vr, idx) ==
        LET a == get_mask(vr, i.rs2, idx)
            b == get_mask(vr, vs1(i), idx)
        IN  set_mask(vr, i.rd, idx,
              CASE op = "vmand" -> a * b [] op = "vmnand" -> 1 - a * b [] op = "vmandnot" -> a * (1 - b)
                [] op = "vmxor" -> Truth(a # b) [] op = "vmor" -> Truth(a + b > 0) [] op = "vmnor" -> Truth(a + b = 0)
                [] op = "vmornot" -> Truth(a + (1 - b) > 0) [] op = "vmxnor" -> Truth(a = b))
  IN  Loop(Step, c.vstart, c.vl, vr0)
reduction_instr(row, i, c, vr) ==
  LET Step(acc, idx) ==
        IF i.vm = 0 /\ get_mask(vr, 0, idx) = 0 THEN acc
        ELSE Simple(row[2], get_vreg(vr, i.rs2, idx, c.vsew, row[3]), acc)
  IN  set_vreg(vr, i.rd, 0, Loop(Step, c.vstart, c.vl, get_vreg(vr, vs1(i), 0, c.vsew + row[4], row[3])), c.vsew + row[4])

\* The other helpers of vcompute.h.  An active element is one the mask selects.
Active(i, vr, idx) == i.vm = 1 \/ get_mask(vr, 0, idx) = 1
\* vmsbf, vmsof, vmsif: acc is the registers and first_one.
SetFirst(name, i, c, vr0) ==
  LET Step(acc, idx) ==
        LET hit == get_mask(acc[1], i.rs2, idx) = 1
            first == acc[2] \/ hit
        IN  IF ~ Active(i, acc[1], idx) THEN acc
            ELSE <<set_mask(acc[1], i.rd, idx,
                     Truth(CASE name = "vmsbf" -> ~ first [] name = "vmsof" -> hit /\ ~ acc[2] [] name = "vmsif" -> ~ acc[2])), first>>
  IN  Loop(Step, 0, c.vl, <<vr0, FALSE>>)[1]
viota(i, c, vr0) ==
  LET Step(acc, idx) ==
        IF ~ Active(i, acc[1], idx) THEN acc
        ELSE <<set_vreg(acc[1], i.rd, idx, acc[2], c.vsew), acc[2] + get_mask(acc[1], i.rs2, idx)>>
  IN  Loop(Step, 0, c.vl, <<vr0, 0>>)[1]
vid(i, c, vr0) ==
  LET Step(vr, idx) == IF Active(i, vr, idx) THEN set_vreg(vr, i.rd, idx, idx, c.vsew) ELSE vr IN Loop(Step, 0, c.vl, vr0)
vcompress(i, c, vr0) ==
  LET Step(acc, idx) ==
        IF get_mask(acc[1], vs1(i), idx) = 0 THEN acc
        ELSE <<set_vreg(acc[1], i.rd, acc[2], get_vreg(acc[1], i.rs2, idx, c.vsew, TRUE), c.vsew), acc[2] + 1>>
  IN  Loop(Step, 0, c.vl, <<vr0, 0>>)[1]
vcpop(i, c, vr) ==
  LET Step(n, idx) == IF Active(i, vr, idx) THEN n + get_mask(vr, i.rs2, idx) ELSE n IN Loop(Step, 0, c.vl, 0)
\* vfirst does not look at the mask.
vfirst(i, c, vr) ==
  LET Step(pos, idx) == IF pos < 0 /\ get_mask(vr, i.rs2, idx) = 1 THEN idx ELSE pos IN Loop(Step, 0, c.vl, -1)
vmvnr(i, vr0) ==
  LET Step(vr, k) == set_vreg(vr, i.rd, k, get_vreg(vr, i.rs2, k, MAXSEW, TRUE), MAXSEW)
  IN  Loop(Step, 0, (VLEN \div XLEN) * ((i.rs1 % 2^IMM) + 1), vr0)
vmvsx(i, c, vr) == set_vreg(vr, i.rd, 0, Sext(Width(c.vsew), c.x), c.vsew)
vmvxs(i, c, vr) == get_vreg(vr, i.rs2, 0, c.vsew, TRUE)
-----------------------------------------------------------------------------
\* The reference: the vector manual.  a and b are the unsigned values of the
\* elements of vs2 and of the second operand, sa and sb their signed values, d
\* the destination's, m the mask bit, w the selected element width.
Manual(name, w, a, sa, b, sb, d, m) ==
  CASE name = "vadd" -> a + b [] name = "vsub" -> a - b [] name = "vrsub" -> b - a
    [] name = "vand" -> BAnd(w, a, b) [] name = "vor" -> BOr(w, a, b) [] name = "vxor" -> BXor(w, a, b)
    [] name = "vminu" -> IF a < b THEN a ELSE b [] name = "vmaxu" -> IF a < b THEN b ELSE a
    [] name = "vmin" -> IF sa < sb THEN a ELSE b [] name = "vmax" -> IF sa < sb THEN b ELSE a
    [] name = "vadc" -> a + b + m [] name = "vsbc" -> a - b - m [] name = "vmerge" -> IF m = 1 THEN b ELSE a
    [] name = "vmseq" -> Truth(a = b) [] name = "vmsne" -> Truth(a # b) [] name = "vmsltu" -> Truth(a < b) [] name = "vmslt" -> Truth(sa < sb)
    [] name = "vmsleu" -> Truth(a <= b) [] name = "vmsle" -> Truth(sa <= sb) [] name = "vmsgtu" -> Truth(a > b) [] name = "vmsgt" -> Truth(sa > sb)
    [] name = "vsll" -> a * 2^(b % w) [] name = "vsrl" -> a \div 2^(b % w) [] name = "vsra" -> sa \div 2^(b % w)
    [] name = "vnsrl" -> a \div 2^(b % (2 * w)) [] name = "vnsra" -> sa \div 2^(b % (2 * w))
    [] name \in {"vzextvf2", "vzextvf4", "vzextvf8"} -> a [] name \in {"vsextvf2", "vsextvf4", "vsextvf8"} -> sa
    [] name = "vmul" -> a * b [] name = "vmulhu" -> (a * b) \div 2^w [] name = "vmulh" -> (sa * sb) \div 2^w [] name = "vmulhsu" -> (sa * b) \div 2^w
    [] name = "vdivu" -> IF b = 0 THEN -1 ELSE a \div b [] name = "vremu" -> IF b = 0 THEN a ELSE a % b
    [] name = "vdiv" -> IF b = 0 THEN -1 ELSE CDiv(sa, sb) [] name = "vrem" -> IF b = 0 THEN a ELSE CRem(sa, sb)
    [] name = "vmacc" -> d + a * b [] name = "vnmsac" -> d - a * b [] name = "vmadd" -> d * b + a [] name = "vnmsub" -> a - d * b
    [] name \in {"vwaddu", "vwaddu_w"} -> a + b [] name \in {"vwadd", "vwadd_w"} -> sa + sb
    [] name \in {"vwsubu", "vwsubu_w"} -> a - b [] name \in {"vwsub", "vwsub_w"} -> sa - sb
    [] name = "vwmulu" -> a * b [] name = "vwmul" -> sa * sb [] name = "vwmulsu" -> sa * b
    [] name = "vwmaccu" -> d + a * b [] name = "vwmacc" -> d + sa * sb [] name = "vwmaccsu" -> d + a * sb [] name = "vwmaccus" -> d + sa * b
\* Operations that move elements: E(k) is element k of vs2, off the offset, x
\* the scalar, idx(j) the index that vs1 holds for element j.
Moved(name, E(_), j, off, ind, d, vl, vlmax) ==
  CASE name = "vslideup" -> IF j >= off THEN E(j - off) ELSE d
    [] name = "vslidedown" -> IF j + off < vlmax THEN E(j + off) ELSE 0
    [] name = "vslide1up" -> IF j = 0 THEN off ELSE E(j - 1)
    [] name = "vslide1down" -> IF j = vl - 1 THEN off ELSE E(j + 1)
    [] name \in {"vrgather", "vrgatherei16"} -> IF ind < vlmax THEN E(ind) ELSE 0
Moves == {"vslideup", "vslidedown", "vslide1up", "vslide1down", "vrgather", "vrgatherei16"}

\* The fields of an input.
ins == in.i
cs == in.c
regs == in.vr
mnemonic == in.name
sew == Width(cs.vsew)
El(reg, k, vsew) == get_vreg(regs, reg, k, vsew, FALSE)
Uimm == ins.rs1 % 2^IMM
\* Unsigned immediates belong to shifts and slides only.
Second(k) ==
  CASE SrcMode(ins) = "vv" -> El(vs1(ins), k, cs.vsew) [] SrcMode(ins) = "vx" -> cs.x % 2^sew
    [] SrcMode(ins) = "vi" -> IF mnemonic \in {"vsll", "vsrl", "vsra", "vnsrl", "vnsra"} THEN Uimm ELSE Signed(IMM, Uimm) % 2^sew
Offset == IF SrcMode(ins) = "vi" THEN Uimm ELSE cs.x
IndexFor(k) == CASE mnemonic = "vrgatherei16" -> El(vs1(ins), k, 1) [] SrcMode(ins) = "vv" -> El(vs1(ins), k, cs.vsew) [] OTHER -> Offset
RefElement(row, k) ==
  LET eew2 == cs.vsew + row[5]
      a == El(ins.rs2, k, eew2)
      b == Second(k)
      m == IF ins.vm = 1 THEN 1 ELSE Bit(regs[0], k)
  IN  IF mnemonic \in Moves
      THEN Moved(mnemonic, LAMBDA n : El(ins.rs2, n, cs.vsew), k, Offset, IndexFor(k), El(ins.rd, k, cs.vsew), cs.vl, get_vlmax(cs.vsew, cs.vlmul))
      ELSE Manual(mnemonic, sew, a, Signed(Width(eew2), a), b, Signed(sew, b), El(ins.rd, k, cs.vsew + row[4]), m)

\* Instructions of the manual that the code covers.  Left out: carries (vmadc
\* and vmsbc compare signs of 64 bits), an immediate of vmsleu and vmsgtu that
\* the manual sign-extends, a scalar wider than the element in unsigned
\* operations, an offset that wraps, REM's overflow.
Forms(n) ==
  CASE n \in Unimplemented -> {}
    [] n \in {"vsub", "vminu", "vmin", "vmaxu", "vmax", "vmsltu", "vmslt", "vsbc"} -> {0, 4}
    [] n \in {"vrsub", "vmsgtu", "vmsgt", "vslideup", "vslidedown"} -> {3, 4}
    [] n \in {"vrgatherei16", "vwredsumu", "vwredsum"} -> {0}
    [] n \in {"vslide1up", "vslide1down", "vwmaccus", "vmvsx"} -> {6}
    [] n = "vmvnr" -> {3}
    [] n \in Names(REDInstr) \cup Names(Extensions) \cup {"vcompress", "vmand", "vmnand", "vmandnot", "vmxor", "vmor", "vmnor", "vmornot", "vmxnor"} -> {2}
    [] n \in Names(Multiplies) \cup Names(Widenings) -> {2, 6}
    [] n \in Names(Integer) \cup Names(Compares) \cup Names(Shifts) -> {0, 3, 4}
    [] OTHER -> {2}
Unsigned == {"vminu", "vmaxu", "vmsltu", "vmsleu", "vmsgtu", "vdivu", "vremu", "vmulhu", "vmulhsu", "vwaddu", "vwsubu", "vwaddu_w", "vwsubu_w", "vwmulu", "vwmulsu", "vwmaccu", "vwmaccus"}
Covered(row) ==
  /\ mnemonic \notin {"vmadc", "vmsbc"}
  /\ mnemonic \in {"vadc", "vsbc"} => ins.vm = 0
  /\ mnemonic \in Unsigned /\ SrcMode(ins) = "vx" => cs.x < 2^sew
  /\ mnemonic \in {"vmsleu", "vmsgtu"} /\ SrcMode(ins) = "vi" => Uimm < 2^(IMM - 1)
  /\ mnemonic = "vslidedown" => Offset + cs.vl <= 2^XLEN
  /\ mnemonic = "vrem" => \A k \in 0 .. cs.vl - 1 : ~ (El(ins.rs2, k, cs.vsew) = Lowest /\ Second(k) = Ones)

\* The row of vcompute.h that an instruction is an instance of.
RowOf(name) ==
  IF name \in Names(Arithmetic) THEN Row(Arithmetic, name) ELSE IF name \in Names(REDInstr) THEN Row(REDInstr, name) ELSE <<>>
IsArithmetic(row) == Len(row) = 6
IsReduction(row) == Len(row) = 4
\* get_vreg and set_vreg assert that the elements of the operands have a width
\* (only such instructions are tried) and that the first register of a group is
\* a multiple of 2^vlmul.  Asserts: some call that an instruction makes fails,
\* or it refuses to resume at vstart (longjmp_raise_intr ends in assert(0)).
Unaligned(reg, vlmul) == reg % 2^vlmul # 0
Log2(n) == CHOOSE k \in 0 .. n : 2^k <= n /\ n < 2^(k + 1)
Asserts(name, row, i, c, vr) ==
  LET Off(reg) == Unaligned(reg, c.vlmul)
      Visits(from) == \E k \in from .. c.vl - 1 : Active(i, vr, k)
  IN  CASE IsArithmetic(row) ->
             /\ Visits(c.vstart) \/ (row[2] \in Unmasked /\ c.vstart < c.vl)
             /\ Off(i.rs2) \/ (SrcMode(i) = "vv" /\ Off(vs1(i))) \/ (~ row[6] /\ Off(i.rd))
        [] IsReduction(row) -> Off(vs1(i)) \/ (Visits(c.vstart) /\ Off(i.rs2))
        [] name = "viota" -> c.vstart # 0 \/ (Visits(0) /\ Off(i.rd))
        [] name = "vid" -> Visits(0) /\ Off(i.rd)
        [] name = "vcompress" -> c.vstart # 0 \/ ((\E k \in 0 .. c.vl - 1 : get_mask(vr, vs1(i), k) = 1) /\ (Off(i.rs2) \/ Off(i.rd)))
        [] name = "vmvnr" -> \E reg \in {i.rs2, i.rd} : Unaligned(reg, Log2((i.rs1 % 2^IMM) + 1))
        [] name = "vmvsx" -> Off(i.rd)
        [] name = "vmvxs" -> Off(i.rs2)
        [] name \in {"vmsbf", "vmsof", "vmsif", "vcpop", "vfirst"} -> c.vstart # 0
        [] OTHER -> FALSE
Dead == <<>>
HasWidth(row, vsew) ==
  /\ IsArithmetic(row) \/ IsReduction(row) => vsew + row[4] <= MAXSEW
  /\ IsArithmetic(row) => vsew + row[5] \in 0 .. MAXSEW
Exec(name, row, i, c, vr) ==
  CASE Asserts(name, row, i, c, vr) -> Dead
    [] IsArithmetic(row) -> arthimetic_instr(row, i, c, vr)
    [] IsReduction(row) -> reduction_instr(row, i, c, vr)
    [] name \in {"vmsbf", "vmsof", "vmsif"} -> SetFirst(name, i, c, vr)
    [] name = "viota" -> viota(i, c, vr) [] name = "vid" -> vid(i, c, vr)
    [] name = "vcompress" -> vcompress(i, c, vr) [] name = "vmvnr" -> vmvnr(i, vr)
    [] name = "vmvsx" -> vmvsx(i, c, vr)
    [] name \in {"vmand", "vmnand", "vmandnot", "vmxor", "vmor", "vmnor", "vmornot", "vmxnor"} -> mask_instr(name, i, c, vr)
    [] OTHER -> vr
After(reg, k, vsew) == get_vreg(in.out, reg, k, vsew, FALSE)
BitActive(k) == ins.vm = 1 \/ Bit(regs[0], k) = 1

\* The register groups of an instruction in the manual: <<register, log2 of the
\* number of registers>>.  A scalar operand (of a reduction or a scalar move) is
\* any register; a narrower or wider operand has a smaller or larger group.
Groups(row) ==
  CASE IsArithmetic(row) ->
         {<<ins.rs2, cs.vlmul + row[5]>>} \cup (IF row[6] THEN {} ELSE {<<ins.rd, cs.vlmul + row[4]>>})
           \cup (IF SrcMode(ins) = "vv" THEN {<<vs1(ins), cs.vlmul + (IF mnemonic = "vrgatherei16" THEN 1 - cs.vsew ELSE 0)>>} ELSE {})
    [] IsReduction(row) -> {<<ins.rs2, cs.vlmul>>}
    [] mnemonic \in {"viota", "vid"} -> {<<ins.rd, cs.vlmul>>}
    [] mnemonic = "vcompress" -> {<<ins.rs2, cs.vlmul>>, <<ins.rd, cs.vlmul>>}
    [] mnemonic = "vmvnr" -> {<<ins.rs2, Log2(Uimm + 1)>>, <<ins.rd, Log2(Uimm + 1)>>}
    [] OTHER -> {}
Reserved(row) == \E g \in Groups(row) : g[2] > 0 /\ Unaligned(g[1], g[2])
\* The operands for which the asserts ask more than the manual.
Stricter(row) ==
  \/ mnemonic = "vmvxs" /\ Unaligned(ins.rs2, cs.vlmul)
  \/ mnemonic = "vmvsx" /\ Unaligned(ins.rd, cs.vlmul)
  \/ (IsReduction(row) \/ mnemonic = "vrgatherei16") /\ Unaligned(vs1(ins), cs.vlmul)
  \/ row \in Extensions /\ Unaligned(ins.rs2, cs.vlmul)

\* The emulator dies only on a group that the manual reserves or a vstart that
\* it refuses, and otherwise on the operands that get_vreg and set_vreg
\* take for groups though they are scalars or smaller groups: the source of
\* vmv.x.s, the destination of vmv.s.x, the scalar of a reduction, the index of
\* vrgatherei16 and the source of an extension (legal instructions all).
AssertsAsReserved ==
  in.stage = "run" /\ in.out = Dead => Reserved(in.row) \/ cs.vstart # 0 \/ Stricter(in.row)

\* Element by element the arithmetic loops (arthimetic_instr on the rows of
\* vcompute.h, reached through the opcode tables) leave what the manual defines
\* for elements from vstart up to vl that the mask selects; elements before
\* vstart, after vl or masked off, and all other registers, keep their bits
\* (or an assert ended the run, AssertsAsReserved).
ElementsAsManual ==
  in.stage = "run" /\ in.out # Dead /\ IsArithmetic(in.row) =>
    LET row == in.row
        dsew == cs.vsew + row[4]
        touched == (ins.rd .. ins.rd + (IF row[6] THEN 0 ELSE get_reg(0, get_vlmax(cs.vsew, cs.vlmul) - 1, dsew)))
        Written(k) == k \in cs.vstart .. cs.vl - 1 /\ (row[2] \in Unmasked \/ BitActive(k))
    IN  Covered(row) =>
          /\ \A r \in DOMAIN regs \ touched : in.out[r] = regs[r]
          /\ \A k \in 0 .. get_vlmax(cs.vsew, cs.vlmul) - 1 :
               IF row[6] THEN Bit(in.out[ins.rd], k) = (IF Written(k) THEN RefElement(row, k) ELSE Bit(regs[ins.rd], k))
               ELSE After(ins.rd, k, dsew) = (IF Written(k) THEN RefElement(row, k) % 2^Width(dsew) ELSE El(ins.rd, k, dsew))

\* What the manual says of a reduction.
Reduced(row) ==
  LET act == {k \in 0 .. cs.vl - 1 : BitActive(k)}
      eew == Width(cs.vsew + row[4])
      V(k) == Signed(sew, El(ins.rs2, k, cs.vsew))
      U(k) == El(ins.rs2, k, cs.vsew)
      first == El(vs1(ins), 0, cs.vsew + row[4])
      us == {first} \cup {U(k) : k \in act}
      ss == {Signed(eew, first)} \cup {V(k) : k \in act}
      sum[k \in 0 .. cs.vl] == IF k = 0 THEN first ELSE sum[k - 1] + (IF k - 1 \notin act THEN 0 ELSE IF row[3] THEN V(k - 1) ELSE U(k - 1))
  IN  CASE row[2] = "ADD" -> sum[cs.vl] % 2^eew
        [] row[2] = "MINU" -> CHOOSE x \in us : \A y \in us : x <= y
        [] row[2] = "MAXU" -> CHOOSE x \in us : \A y \in us : x >= y
        [] row[2] = "MIN" -> (CHOOSE x \in ss : \A y \in ss : x <= y) % 2^eew
        [] row[2] = "MAX" -> (CHOOSE x \in ss : \A y \in ss : x >= y) % 2^eew
        [] row[2] = "AND" -> Compose(eew, LAMBDA b : Truth(\A x \in us : Bit(x, b) = 1))
        [] row[2] = "OR" -> Compose(eew, LAMBDA b : Truth(\E x \in us : Bit(x, b) = 1))
        [] row[2] = "XOR" -> Compose(eew, LAMBDA b : LET p[k \in 0 .. cs.vl] == IF k = 0 THEN Bit(first, b) ELSE (p[k - 1] + (IF k - 1 \in act THEN Bit(U(k - 1), b) ELSE 0)) % 2 IN p[cs.vl])

\* A reduction leaves in element 0 the sum, extreme or bitwise combination of
\* vs1[0] and the active elements, and changes nothing else (vl = 0, where the
\* manual writes nothing, is left out).
ReducesAsManual ==
  in.stage = "run" /\ in.out # Dead /\ IsReduction(in.row) /\ cs.vl > 0 /\ cs.vstart = 0 =>
    in.out = set_vreg(regs, ins.rd, 0, Reduced(in.row), cs.vsew + in.row[4])

\* The mask instructions: logic bit by bit, set before, at or up to the first
\* active one, count, find, number and gather the elements under a mask, all as
\* the manual defines them from the set of ones (vmsbf to vcompress; vfirst,
\* which does not look at the mask, only without one).
MasksAsManual ==
  in.stage = "run" /\ in.out # Dead /\ cs.vstart = 0 =>
    LET ones == {k \in 0 .. cs.vl - 1 : BitActive(k) /\ Bit(regs[ins.rs2], k) = 1}
        act == {k \in 0 .. cs.vl - 1 : BitActive(k)}
        Before(k) == Cardinality({n \in ones : n < k})
        MaskBits(f(_)) == \A k \in 0 .. VLEN - 1 : Bit(in.out[ins.rd], k) = (IF k \in act THEN Truth(f(k)) ELSE Bit(regs[ins.rd], k))
        A(k) == Bit(regs[ins.rs2], k) = 1
        B(k) == Bit(regs[vs1(ins)], k) = 1
        Logic(f(_)) == \A k \in 0 .. VLEN - 1 : Bit(in.out[ins.rd], k) = (IF k < cs.vl THEN Truth(f(k)) ELSE Bit(regs[ins.rd], k))
        picked == {k \in 0 .. cs.vl - 1 : B(k)}
        keeps == \A r \in DOMAIN regs \ (ins.rd .. ins.rd + 2^cs.vlmul - 1) : in.out[r] = regs[r]
    IN  CASE mnemonic = "vmsbf" -> MaskBits(LAMBDA k : Before(k) = 0 /\ k \notin ones) /\ keeps
          [] mnemonic = "vmsif" -> MaskBits(LAMBDA k : Before(k) = 0) /\ keeps
          [] mnemonic = "vmsof" -> MaskBits(LAMBDA k : Before(k) = 0 /\ k \in ones) /\ keeps
          [] mnemonic = "viota" -> keeps /\ \A k \in 0 .. get_vlmax(cs.vsew, cs.vlmul) - 1 : After(ins.rd, k, cs.vsew) = (IF k \in act THEN Before(k) % 2^sew ELSE El(ins.rd, k, cs.vsew))
          [] mnemonic = "vid" -> keeps /\ \A k \in 0 .. get_vlmax(cs.vsew, cs.vlmul) - 1 : After(ins.rd, k, cs.vsew) = (IF k \in act THEN k % 2^sew ELSE El(ins.rd, k, cs.vsew))
          [] mnemonic = "vcompress" ->
               keeps /\ \A k \in 0 .. get_vlmax(cs.vsew, cs.vlmul) - 1 :
                 IF k < Cardinality(picked) THEN \E n \in picked : Cardinality({p \in picked : p < n}) = k /\ After(ins.rd, k, cs.vsew) = El(ins.rs2, n, cs.vsew)
                 ELSE After(ins.rd, k, cs.vsew) = El(ins.rd, k, cs.vsew)
          [] mnemonic = "vcpop" -> vcpop(ins, cs, regs) = Cardinality(ones)
          [] mnemonic = "vfirst" /\ ins.vm = 1 -> LET p == vfirst(ins, cs, regs) IN IF ones = {} THEN p = -1 ELSE p \in ones /\ Before(p) = 0
          [] mnemonic = "vmand" -> Logic(LAMBDA k : A(k) /\ B(k)) [] mnemonic = "vmnand" -> Logic(LAMBDA k : ~ (A(k) /\ B(k)))
          [] mnemonic = "vmandnot" -> Logic(LAMBDA k : A(k) /\ ~ B(k)) [] mnemonic = "vmxor" -> Logic(LAMBDA k : A(k) # B(k))
          [] mnemonic = "vmor" -> Logic(LAMBDA k : A(k) \/ B(k)) [] mnemonic = "vmnor" -> Logic(LAMBDA k : ~ (A(k) \/ B(k)))
          [] mnemonic = "vmornot" -> Logic(LAMBDA k : A(k) \/ ~ B(k)) [] mnemonic = "vmxnor" -> Logic(LAMBDA k : A(k) = B(k))
          [] mnemonic = "vmvnr" -> \A r \in DOMAIN regs : in.out[r] = (IF r \in ins.rd .. ins.rd + Uimm THEN regs[r - ins.rd + ins.rs2] ELSE regs[r])
          [] mnemonic = "vmvxs" -> vmvxs(ins, cs, regs) = Signed(sew, El(ins.rs2, 0, cs.vsew)) % 2^XLEN
          [] mnemonic = "vmvsx" -> After(ins.rd, 0, cs.vsew) = cs.x % 2^sew
          [] OTHER -> TRUE

\* vsetvl: the vector length is at most VLMAX, the request when that fits and at
\* least half of it otherwise, so a loop that takes vl elements at a time is
\* done after the fewest passes; it is not monotone (VLMAX gives VLMAX, one more
\* gives about half).  vtype becomes illegal for a reserved element width, when
\* a length is asked for, and for no other (the manual then has vl = 0, the code
\* stores -1; check_vsetvl, set_vtype_vl).
VlAsManual ==
  in.stage = "op" =>
    LET VLMAX == get_vlmax(cs.vsew, cs.vlmul)
        Vl(req) == check_vsetvl(cs.vsew, cs.vlmul, req, 0, get_mode(1, 1))
        Passes(n) == LET left[k \in 0 .. n] == IF k = 0 THEN n ELSE LET l == left[k - 1] IN l - Vl(l) IN CHOOSE k \in 0 .. n : left[k] = 0 /\ (k = 0 \/ left[k - 1] > 0)
    IN  /\ \A req \in 0 .. 3 * VLMAX :
             /\ Vl(req) <= VLMAX /\ Vl(req) <= req /\ (req <= VLMAX => Vl(req) = req)
             /\ 2 * Vl(req) >= req \/ Vl(req) = VLMAX
        /\ \A n \in 0 .. 2 * VLMAX : Passes(n) = (n + VLMAX - 1) \div VLMAX
        /\ check_vsetvl(cs.vsew, cs.vlmul, 0, 0, get_mode(0, 1)) = VLMAX
        /\ \A req \in 0 .. 3 * VLMAX, vsew \in 0 .. MAXSEW + 1 :
             set_vtype_vl(vsew, cs.vlmul, req, 0, get_mode(1, 1)).vill <=> vsew > MAXSEW

Register(seed, r) ==
  CASE seed = 0 -> 2^VLEN - 1 [] seed = 1 -> (IF r \in {0, 4} THEN 43690 ELSE 21845) % 2^VLEN
    [] OTHER -> ((seed * 7919 + 211) * (r + 3) * 31) % 2^VLEN
Rs1s(f3, f6) ==
  IF f3 = 3 THEN 0 .. 2^IMM - 1
  ELSE IF f3 # 2 THEN {2}
  ELSE CASE vopm[f6 + 1] = "vrwxunary0" -> {0, 16, 17} [] vopm[f6 + 1] = "vxunary0" -> 2 .. 7
         [] vopm[f6 + 1] = "vmunary0" -> {1, 2, 3, 16, 17} [] OTHER -> {2}
Init == in = [stage |-> "start", odd |-> FALSE, name |-> "", row |-> <<>>, out |-> <<>>, i |-> [funct3 |-> 0, funct6 |-> 0, rs1 |-> 2, rs2 |-> 4, rd |-> 8, vm |-> 1],
              c |-> [vsew |-> 0, vlmul |-> 0, vl |-> 0, vstart |-> 0, v_width |-> 1, x |-> 0], vr |-> [r \in 0 .. 12 |-> 0]]
ChooseInstruction ==
  /\ in.stage = "start"
  /\ \E f3 \in {0, 2, 3, 4, 6}, f6 \in 0 .. 63, vsew \in 0 .. MAXSEW, vlmul \in 0 .. 1, odd \in {"", "rs1", "rs2", "rd"} : \E rs1 \in Rs1s(f3, f6) :
       LET j == [in.i EXCEPT !.funct3 = f3, !.funct6 = f6, !.rs1 = IF odd = "rs1" THEN rs1 + 1 ELSE rs1,
                             !.rs2 = IF f3 = 6 /\ f6 = 16 THEN 0 ELSE IF odd = "rs2" THEN 5 ELSE 4, !.rd = IF odd = "rd" THEN 9 ELSE 8]
       IN  \E name \in {OP_V(j)} :
             /\ odd # "" => (vlmul = 1 \/ name = "vmvnr") /\ (odd = "rs1" => SrcMode(j) = "vv" /\ Rs1s(f3, f6) = {2})
             /\ name # "" /\ f3 \in Forms(name) /\ HasWidth(RowOf(name), vsew)
             /\ in' = [in EXCEPT !.stage = "op", !.odd = odd # "", !.name = name, !.row = RowOf(name), !.i = j, !.c.vsew = vsew, !.c.v_width = 2^vsew, !.c.vlmul = vlmul]
Execute ==
  /\ in.stage = "op"
  /\ \E vl \in Lens, vstart \in 0 .. 1, vm \in 0 .. 1, seed \in Seeds, x \in {1, 3, 2^XLEN - 2} :
       /\ vl <= get_vlmax(cs.vsew, cs.vlmul)
       /\ SrcMode(ins) # "vx" => x = 1
       /\ in.odd => seed = 2
       /\ LET i == [ins EXCEPT !.vm = vm]
              c == [cs EXCEPT !.vl = vl, !.vstart = vstart, !.x = x]
              vr == [r \in 0 .. 12 |-> Register(seed, r)]
          IN  in' = [in EXCEPT !.stage = "run", !.i = i, !.c = c, !.vr = vr, !.out = Exec(in.name, in.row, i, c, vr)]
Next == ChooseInstruction \/ Execute \/ (in.stage = "run" /\ UNCHANGED in)
Spec == Init /\ [][Next]_in
=============================================================================
