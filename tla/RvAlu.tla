-------------------------------- MODULE RvAlu --------------------------------
\* The arithmetic of the riscv64 guest: the C expressions of the interpreter
\* (engine/interpreter/c_op.h, rtl-basic.h, include/rtl/pseudo.h) as the
\* helpers of RV64I, M and B use them (instr/rvi/compute.h, rvm/exec.h,
\* rvb/exec.h, rvb/rvintrin.h), against the definitions of the RISC-V manuals.
\* XLEN stands for 64, H for 32, H \div 2 for 16 and BYTE for 8.
\* Scalar cryptography (instr/rvk) is on real tables and real bytes: the AES
\* rounds and key schedule and the SM4 round functions, a 64-bit register being
\* the sequence of its 8 bytes, least significant first.
EXTENDS Bits, Sequences

CONSTANTS
  XLEN,     \* bits of a register, a power of two
  BYTE,     \* bits of a byte, a power of two
  Sources2  \* values tried for the second operand

VARIABLES
  in,     \* <<a, b>>: the operands
  bytes   \* for cryptography: a byte, the 16 bytes of two registers, a round number

H == XLEN \div 2
X(x) == x % 2^XLEN                     \* uint64_t
S(x) == Signed(XLEN, x)                \* int64_t
c_sext32to64(x) == X(Signed(H, x))     \* (int64_t)(int32_t)
U32(x) == x % 2^H
And(x, y) == BAnd(XLEN, x, y)
Or(x, y) == BOr(XLEN, x, y)
Xor(x, y) == BXor(XLEN, x, y)
Not(x) == BNot(XLEN, x)

c_shl(a, b) == X(a * 2^(b % XLEN))
c_shr(a, b) == a \div 2^(b % XLEN)
c_sar(a, b) == X(S(a) \div 2^(b % XLEN))

\* rtl_sext, rtl_zext of the low w bits.
rtl_sext(x, w) == c_sar(c_shl(x, XLEN - w), XLEN - w)
rtl_zext(x, w) == c_shr(c_shl(x, XLEN - w), XLEN - w)

\* The second source of an immediate form is the immediate itself.
Base(op, a, b) ==
  CASE op = "add" -> X(a + b)  [] op = "sub" -> X(a - b)  [] op = "and" -> And(a, b)
    [] op = "or" -> Or(a, b)   [] op = "xor" -> Xor(a, b) [] op = "sll" -> c_shl(a, b)
    [] op = "srl" -> c_shr(a, b) [] op = "sra" -> c_sar(a, b)
    [] op = "slt" -> Truth(S(a) < S(b)) [] op = "sltu" -> Truth(a < b)
    [] op = "addw" -> c_sext32to64(a + b) [] op = "subw" -> c_sext32to64(a - b)
    [] op = "sllw" -> c_sext32to64(U32(a) * 2^(b % H))
    [] op = "srlw" -> c_sext32to64(U32(a) \div 2^(b % H))
    [] op = "sraw" -> c_sext32to64(Signed(H, a) \div 2^(b % H))

c_mulu_hi(a, b) == X((a * b) \div 2^XLEN)
c_divs_q(a, b) == X(CDiv(S(a), S(b)))
c_divs_r(a, b) == X(CRem(S(a), S(b)))
Ones == 2^XLEN - 1
Lowest == 2^(XLEN - 1)

mulhsu(a, b) == X(c_mulu_hi(a, b) - And(b, c_sar(a, XLEN - 1)))

\* divw and remw compare the sign-extended dividend with 0x80000000, which it
\* never is, so that the quotient is computed on 64 bits and cut.
divw(a, b) ==
  LET s0 == rtl_sext(a, H)
      s1 == rtl_sext(b, H)
  IN  rtl_sext(IF s1 = 0 THEN Ones ELSE IF s0 = 2^(H - 1) /\ s1 = Ones THEN s0 ELSE c_divs_q(s0, s1), H)
remw(a, b) ==
  LET s0 == rtl_sext(a, H)
      s1 == rtl_sext(b, H)
  IN  rtl_sext(IF s1 = 0 THEN s0 ELSE IF s0 = 2^(H - 1) /\ s1 = Ones THEN 0 ELSE c_divs_r(s0, s1), H)
divuw(a, b) == rtl_sext(IF rtl_zext(b, H) = 0 THEN Ones ELSE rtl_zext(a, H) \div rtl_zext(b, H), H)
remuw(a, b) == rtl_sext(IF rtl_zext(b, H) = 0 THEN rtl_zext(a, H) ELSE rtl_zext(a, H) % rtl_zext(b, H), H)

Rvm(op, a, b) ==
  CASE op = "mul" -> X(a * b) [] op = "mulh" -> X((S(a) * S(b)) \div 2^XLEN)
    [] op = "mulhu" -> c_mulu_hi(a, b) [] op = "mulhsu" -> mulhsu(a, b)
    [] op = "div" -> IF b = 0 THEN Ones ELSE IF a = Lowest /\ b = Ones THEN a ELSE c_divs_q(a, b)
    [] op = "divu" -> IF b = 0 THEN Ones ELSE a \div b
    [] op = "rem" -> IF b = 0 THEN a ELSE IF a = Lowest /\ b = Ones THEN 0 ELSE c_divs_r(a, b)
    [] op = "remu" -> IF b = 0 THEN a ELSE a % b
    [] op = "mulw" -> c_sext32to64(a * b) [] op = "divw" -> divw(a, b) [] op = "remw" -> remw(a, b)
    [] op = "divuw" -> divuw(a, b) [] op = "remuw" -> remuw(a, b)

-----------------------------------------------------------------------------
\* rvintrin.h

\* The word with the low k bits of every 2k taken from x, and the high ones.
EvenPart(x, k) == Compose(XLEN, LAMBDA i : IF (i \div k) % 2 = 0 THEN Bit(x, i) ELSE 0)
OddPart(x, k) == Compose(XLEN, LAMBDA i : IF (i \div k) % 2 = 1 THEN Bit(x, i) ELSE 0)
Swapped(x, k) == Or(X(EvenPart(x, k) * 2^k), OddPart(x, k) \div 2^k)

\* The shift amounts 1, 2, 4 ... of the steps, smallest first.
_rv64_grev(x, sh) ==
  LET y[k \in 0 .. XLEN] == IF k = 0 THEN x
        ELSE LET p == y[k \div 2] IN IF Bit(sh \div k, 0) = 1 THEN Swapped(p, k) ELSE p
  IN  y[H]
_rv64_gorc(x, sh) ==
  LET y[k \in 0 .. XLEN] == IF k = 0 THEN x
        ELSE LET p == y[k \div 2] IN IF Bit(sh \div k, 0) = 1 THEN Or(p, Swapped(p, k)) ELSE p
  IN  y[H]

XorAll(n, term(_)) == LET v[i \in 0 .. n] == IF i = 0 THEN 0 ELSE Xor(v[i - 1], term(i - 1)) IN v[n]
_rv64_clmul(a, b) == XorAll(XLEN, LAMBDA i : IF Bit(b, i) = 1 THEN X(a * 2^i) ELSE 0)
_rv64_clmulh(a, b) == XorAll(XLEN, LAMBDA i : IF i > 0 /\ Bit(b, i) = 1 THEN a \div 2^(XLEN - i) ELSE 0)
_rv64_clmulr(a, b) == XorAll(XLEN, LAMBDA i : IF Bit(b, i) = 1 THEN a \div 2^(XLEN - 1 - i) ELSE 0)

_rv64_rol(a, b) == Or(c_shl(a, b), c_shr(a, X(- b)))
_rv64_ror(a, b) == Or(c_shr(a, b), c_shl(a, X(- b)))
_rv32_rol(a, b) == c_sext32to64(BOr(H, U32(U32(a) * 2^(b % H)), U32(a) \div 2^(X(- b) % H)))
_rv32_ror(a, b) == c_sext32to64(BOr(H, U32(a) \div 2^(b % H), U32(U32(a) * 2^(X(- b) % H))))

\* Lanes of sz bits of rs1 picked by the lanes of rs2.
xperm(a, b, sz) ==
  Compose(XLEN, LAMBDA i :
    LET pos == Field(b, (i \div sz) * sz + sz - 1, (i \div sz) * sz) * sz
    IN  IF pos < XLEN THEN Bit(a, pos + (i % sz)) ELSE 0)

\* __builtin_ctz, clz, popcount: the position of the lowest set bit of x, n if there is none.
Lowest1(n, x) == IF x % 2^n = 0 THEN n ELSE CHOOSE i \in 0 .. n - 1 : Bit(x, i) = 1 /\ x % 2^i = 0
Highest1(n, x) == IF x % 2^n = 0 THEN n ELSE CHOOSE i \in 0 .. n - 1 : (x % 2^n) \div 2^(n - 1 - i) = 1
Ones1(n, x) == LET v[i \in 0 .. n] == IF i = 0 THEN 0 ELSE v[i - 1] + Bit(x, i - 1) IN v[n]

bclr(a, b) == And(a, Not(2^(b % XLEN)))
slliuw(a, b) == c_shl(U32(a), b % H)     \* the code masks the amount with 0x1f

Rvb(op, a, b) ==
  CASE op = "clz" -> Highest1(XLEN, a) [] op = "ctz" -> Lowest1(XLEN, a) [] op = "cpop" -> Ones1(XLEN, a)
    [] op = "clzw" -> Highest1(H, a) [] op = "ctzw" -> Lowest1(H, a) [] op = "cpopw" -> Ones1(H, a)
    [] op = "sext_b" -> rtl_sext(a, BYTE) [] op = "sext_h" -> rtl_sext(a, H \div 2)
    [] op = "min" -> IF S(a) < S(b) THEN a ELSE b [] op = "minu" -> IF a < b THEN a ELSE b
    [] op = "max" -> IF S(a) > S(b) THEN a ELSE b [] op = "maxu" -> IF a > b THEN a ELSE b
    [] op = "bset" -> Or(a, 2^(b % XLEN)) [] op = "bclr" -> bclr(a, b)
    [] op = "binv" -> Xor(a, 2^(b % XLEN)) [] op = "bext" -> c_sar(a, b) % 2
    [] op = "rol" -> _rv64_rol(a, b) [] op = "ror" -> _rv64_ror(a, b)
    [] op = "rolw" -> _rv32_rol(a, b) [] op = "rorw" -> _rv32_ror(a, b)
    [] op = "pack" -> Or(U32(a), X(b * 2^H)) [] op = "packh" -> (a % 2^BYTE) + (b % 2^BYTE) * 2^BYTE
    [] op = "packw" -> c_sext32to64((a % 2^(H \div 2)) + b * 2^(H \div 2))
    [] op = "clmul" -> _rv64_clmul(a, b) [] op = "clmulh" -> _rv64_clmulh(a, b) [] op = "clmulr" -> _rv64_clmulr(a, b)
    [] op = "xpermb" -> xperm(a, b, BYTE) [] op = "xpermn" -> xperm(a, b, BYTE \div 2)
    [] op = "andn" -> And(a, Not(b)) [] op = "orn" -> Or(a, Not(b)) [] op = "xnor" -> Xor(a, Not(b))
    [] op = "rev8" -> _rv64_grev(a, XLEN - BYTE) [] op = "revb" -> _rv64_grev(a, BYTE - 1)
    [] op = "orc_b" -> _rv64_gorc(a, BYTE - 1)
    [] op = "adduw" -> X(b + U32(a)) [] op = "slliuw" -> slliuw(a, b)
    [] op = "sh1add" -> X(2 * a + b) [] op = "sh3add" -> X(8 * a + b) [] op = "sh2adduw" -> X(4 * U32(a) + b)

-----------------------------------------------------------------------------
\* The definitions of the manuals, on integers and on bits.
Int32(x) == X(Signed(H, x))

BaseRef(op, a, b) ==
  CASE op \in {"add", "addw"} -> a + b [] op \in {"sub", "subw"} -> a - b
    [] op = "and" -> Compose(XLEN, LAMBDA i : Bit(a, i) * Bit(b, i))
    [] op = "or" -> Compose(XLEN, LAMBDA i : IF Bit(a, i) + Bit(b, i) > 0 THEN 1 ELSE 0)
    [] op = "xor" -> Compose(XLEN, LAMBDA i : (Bit(a, i) + Bit(b, i)) % 2)
    [] op = "sll" -> Compose(XLEN, LAMBDA i : IF i < b % XLEN THEN 0 ELSE Bit(a, i - (b % XLEN)))
    [] op = "srl" -> Compose(XLEN, LAMBDA i : IF i + (b % XLEN) >= XLEN THEN 0 ELSE Bit(a, i + (b % XLEN)))
    [] op = "sra" -> Compose(XLEN, LAMBDA i : Bit(a, IF i + (b % XLEN) >= XLEN THEN XLEN - 1 ELSE i + (b % XLEN)))
    [] op = "slt" -> IF Bit(a, XLEN - 1) = Bit(b, XLEN - 1) THEN Truth(a < b) ELSE Bit(a, XLEN - 1)
    [] op = "sltu" -> Truth(a < b)
    [] op = "sllw" -> Compose(H, LAMBDA i : IF i < b % H THEN 0 ELSE Bit(a, i - (b % H)))
    [] op = "srlw" -> Compose(H, LAMBDA i : IF i + (b % H) >= H THEN 0 ELSE Bit(a, i + (b % H)))
    [] op = "sraw" -> Compose(H, LAMBDA i : Bit(a, IF i + (b % H) >= H THEN H - 1 ELSE i + (b % H)))

\* Divisor zero and overflow as in the table of the M extension.
DivRef(n, a, b) == IF b = 0 THEN -1 ELSE IF a = -(2^(n - 1)) /\ b = -1 THEN a ELSE CDiv(a, b)
RemRef(n, a, b) == IF b = 0 THEN a ELSE IF a = -(2^(n - 1)) /\ b = -1 THEN 0 ELSE CRem(a, b)
RvmRef(op, a, b) ==
  CASE op \in {"mul", "mulw"} -> a * b [] op = "mulh" -> (S(a) * S(b)) \div 2^XLEN
    [] op = "mulhu" -> (a * b) \div 2^XLEN [] op = "mulhsu" -> (S(a) * b) \div 2^XLEN
    [] op = "div" -> DivRef(XLEN, S(a), S(b)) [] op = "rem" -> RemRef(XLEN, S(a), S(b))
    [] op = "divu" -> IF b = 0 THEN -1 ELSE a \div b [] op = "remu" -> IF b = 0 THEN a ELSE a % b
    [] op = "divw" -> DivRef(H, Signed(H, a), Signed(H, b)) [] op = "remw" -> RemRef(H, Signed(H, a), Signed(H, b))
    [] op = "divuw" -> IF U32(b) = 0 THEN -1 ELSE U32(a) \div U32(b)
    [] op = "remuw" -> IF U32(b) = 0 THEN U32(a) ELSE U32(a) % U32(b)

\* Bit k of the carry-less product.
ClBit(a, b, k) ==
  LET v[i \in 0 .. XLEN] == IF i = 0 THEN 0
        ELSE (v[i - 1] + IF k - (i - 1) \in 0 .. XLEN - 1 THEN Bit(a, i - 1) * Bit(b, k - (i - 1)) ELSE 0) % 2
  IN  v[XLEN]
Lane(x, j) == Field(x, j * BYTE + BYTE - 1, j * BYTE)

RvbBits ==
  {"ror", "rol", "rorw", "rolw", "clmul", "clmulh", "clmulr", "rev8", "revb", "orc_b", "bset", "bclr", "binv",
   "andn", "orn", "xnor", "pack", "packh", "packw", "sext_b", "sext_h"}
RvbRef(op, a, b, i) ==
  CASE op = "ror" -> Bit(a, (i + b) % XLEN) [] op = "rol" -> Bit(a, (i - b) % XLEN)
    [] op = "rorw" -> Bit(a, ((IF i < H THEN i ELSE H - 1) + b) % H)
    [] op = "rolw" -> Bit(a, ((IF i < H THEN i ELSE H - 1) - b) % H)
    [] op = "clmul" -> ClBit(a, b, i) [] op = "clmulh" -> ClBit(a, b, i + XLEN) [] op = "clmulr" -> ClBit(a, b, i + XLEN - 1)
    [] op = "rev8" -> Bit(a, (XLEN - BYTE) - (i \div BYTE) * BYTE + (i % BYTE))
    [] op = "revb" -> Bit(a, (i \div BYTE) * BYTE + (BYTE - 1 - (i % BYTE)))
    [] op = "orc_b" -> Truth(Lane(a, i \div BYTE) # 0)
    [] op = "bset" -> IF i = b % XLEN THEN 1 ELSE Bit(a, i) [] op = "bclr" -> IF i = b % XLEN THEN 0 ELSE Bit(a, i)
    [] op = "binv" -> IF i = b % XLEN THEN 1 - Bit(a, i) ELSE Bit(a, i)
    [] op = "andn" -> Bit(a, i) * (1 - Bit(b, i)) [] op = "orn" -> Truth(Bit(a, i) = 1 \/ Bit(b, i) = 0)
    [] op = "xnor" -> Truth(Bit(a, i) = Bit(b, i))
    [] op = "pack" -> IF i < H THEN Bit(a, i) ELSE Bit(b, i - H)
    [] op = "packh" -> IF i < BYTE THEN Bit(a, i) ELSE IF i < 2 * BYTE THEN Bit(b, i - BYTE) ELSE 0
    [] op = "packw" -> LET j == IF i < H THEN i ELSE H - 1 IN IF j < H \div 2 THEN Bit(a, j) ELSE Bit(b, j - (H \div 2))
    [] op = "sext_b" -> Bit(a, IF i < BYTE THEN i ELSE BYTE - 1)
    [] op = "sext_h" -> Bit(a, IF i < H \div 2 THEN i ELSE (H \div 2) - 1)

RvbNumbers == {"clz", "ctz", "cpop", "clzw", "ctzw", "cpopw", "bext", "min", "max", "minu", "maxu", "xpermb", "xpermn",
               "adduw", "slliuw", "sh1add", "sh3add", "sh2adduw"}
Order(op, a, b) == IF op \in {"min", "max"} THEN S(a) <= S(b) ELSE a <= b
Lanes(a, b, sz, j) ==
  LET k == Field(b, j * sz + sz - 1, j * sz) IN IF k < XLEN \div sz THEN Field(a, k * sz + sz - 1, k * sz) ELSE 0
Below(n, P(_)) == LET v[i \in 0 .. n] == IF i = 0 THEN 0 ELSE v[i - 1] + Truth(P(i - 1)) IN v[n]
RvbNumRef(op, a, b) ==
  CASE op = "clz" -> Below(XLEN, LAMBDA i : a < 2^i) [] op = "clzw" -> Below(H, LAMBDA i : U32(a) < 2^i)
    [] op = "ctz" -> Below(XLEN, LAMBDA i : a % 2^(i + 1) = 0) [] op = "ctzw" -> Below(H, LAMBDA i : a % 2^(i + 1) = 0)
    [] op = "cpop" -> Below(XLEN, LAMBDA i : Bit(a, i) = 1) [] op = "cpopw" -> Below(H, LAMBDA i : Bit(a, i) = 1)
    [] op = "bext" -> Bit(a, b % XLEN)
    [] op \in {"min", "minu"} -> IF Order(op, a, b) THEN a ELSE b
    [] op \in {"max", "maxu"} -> IF Order(op, a, b) THEN b ELSE a
    [] op = "xpermb" -> Compose(XLEN, LAMBDA i : Bit(Lanes(a, b, BYTE, i \div BYTE), i % BYTE))
    [] op = "xpermn" -> Compose(XLEN, LAMBDA i : Lanes(a, b, 1, i))
    [] op = "adduw" -> X(U32(a) + b) [] op = "slliuw" -> X(U32(a) * 2^(b % XLEN))
    [] op = "sh1add" -> X(a * 2 + b) [] op = "sh3add" -> X(a * 8 + b) [] op = "sh2adduw" -> X(U32(a) * 4 + b)

\* ---- cryptography: tables and round functions (instr/rvk)
AES_ENC_SBOX ==
 <<99, 124, 119, 123, 242, 107, 111, 197, 48, 1, 103, 43, 254, 215, 171, 118, 202, 130, 201, 125, 250, 89, 71, 240, 173, 212, 162, 175, 156, 164, 114, 192,
   183, 253, 147, 38, 54, 63, 247, 204, 52, 165, 229, 241, 113, 216, 49, 21, 4, 199, 35, 195, 24, 150, 5, 154, 7, 18, 128, 226, 235, 39, 178, 117,
   9, 131, 44, 26, 27, 110, 90, 160, 82, 59, 214, 179, 41, 227, 47, 132, 83, 209, 0, 237, 32, 252, 177, 91, 106, 203, 190, 57, 74, 76, 88, 207,
   208, 239, 170, 251, 67, 77, 51, 133, 69, 249, 2, 127, 80, 60, 159, 168, 81, 163, 64, 143, 146, 157, 56, 245, 188, 182, 218, 33, 16, 255, 243, 210,
   205, 12, 19, 236, 95, 151, 68, 23, 196, 167, 126, 61, 100, 93, 25, 115, 96, 129, 79, 220, 34, 42, 144, 136, 70, 238, 184, 20, 222, 94, 11, 219,
   224, 50, 58, 10, 73, 6, 36, 92, 194, 211, 172, 98, 145, 149, 228, 121, 231, 200, 55, 109, 141, 213, 78, 169, 108, 86, 244, 234, 101, 122, 174, 8,
   186, 120, 37, 46, 28, 166, 180, 198, 232, 221, 116, 31, 75, 189, 139, 138, 112, 62, 181, 102, 72, 3, 246, 14, 97, 53, 87, 185, 134, 193, 29, 158,
   225, 248, 152, 17, 105, 217, 142, 148, 155, 30, 135, 233, 206, 85, 40, 223, 140, 161, 137, 13, 191, 230, 66, 104, 65, 153, 45, 15, 176, 84, 187, 22>>
AES_DEC_SBOX ==
 <<82, 9, 106, 213, 48, 54, 165, 56, 191, 64, 163, 158, 129, 243, 215, 251, 124, 227, 57, 130, 155, 47, 255, 135, 52, 142, 67, 68, 196, 222, 233, 203,
   84, 123, 148, 50, 166, 194, 35, 61, 238, 76, 149, 11, 66, 250, 195, 78, 8, 46, 161, 102, 40, 217, 36, 178, 118, 91, 162, 73, 109, 139, 209, 37,
   114, 248, 246, 100, 134, 104, 152, 22, 212, 164, 92, 204, 93, 101, 182, 146, 108, 112, 72, 80, 253, 237, 185, 218, 94, 21, 70, 87, 167, 141, 157, 132,
   144, 216, 171, 0, 140, 188, 211, 10, 247, 228, 88, 5, 184, 179, 69, 6, 208, 44, 30, 143, 202, 63, 15, 2, 193, 175, 189, 3, 1, 19, 138, 107,
   58, 145, 17, 65, 79, 103, 220, 234, 151, 242, 207, 206, 240, 180, 230, 115, 150, 172, 116, 34, 231, 173, 53, 133, 226, 249, 55, 232, 28, 117, 223, 110,
   71, 241, 26, 113, 29, 41, 197, 137, 111, 183, 98, 14, 170, 24, 190, 27, 252, 86, 62, 75, 198, 210, 121, 32, 154, 219, 192, 254, 120, 205, 90, 244,
   31, 221, 168, 51, 136, 7, 199, 49, 177, 18, 16, 89, 39, 128, 236, 95, 96, 81, 127, 169, 25, 181, 74, 13, 45, 229, 122, 159, 147, 201, 156, 239,
   160, 224, 59, 77, 174, 42, 245, 176, 200, 235, 187, 60, 131, 83, 153, 97, 23, 43, 4, 126, 186, 119, 214, 38, 225, 105, 20, 99, 85, 33, 12, 125>>
sm4_sbox ==
 <<214, 144, 233, 254, 204, 225, 61, 183, 22, 182, 20, 194, 40, 251, 44, 5, 43, 103, 154, 118, 42, 190, 4, 195, 170, 68, 19, 38, 73, 134, 6, 153,
   156, 66, 80, 244, 145, 239, 152, 122, 51, 84, 11, 67, 237, 207, 172, 98, 228, 179, 28, 169, 201, 8, 232, 149, 128, 223, 148, 250, 117, 143, 63, 166,
   71, 7, 167, 252, 243, 115, 23, 186, 131, 89, 60, 25, 230, 133, 79, 168, 104, 107, 129, 178, 113, 100, 218, 139, 248, 235, 15, 75, 112, 86, 157, 53,
   30, 36, 14, 94, 99, 88, 209, 162, 37, 34, 124, 59, 1, 33, 120, 135, 212, 0, 70, 87, 159, 211, 39, 82, 76, 54, 2, 231, 160, 196, 200, 158,
   234, 191, 138, 210, 64, 199, 56, 181, 163, 247, 242, 206, 249, 97, 21, 161, 224, 174, 93, 164, 155, 52, 26, 85, 173, 147, 50, 48, 245, 140, 177, 227,
   29, 246, 226, 46, 130, 102, 202, 96, 192, 41, 35, 171, 13, 83, 78, 111, 213, 219, 55, 69, 222, 253, 142, 47, 3, 255, 106, 114, 109, 108, 91, 81,
   141, 27, 175, 146, 187, 221, 188, 127, 17, 217, 92, 65, 31, 16, 90, 216, 10, 193, 49, 136, 165, 205, 123, 189, 45, 116, 208, 18, 184, 229, 180, 176,
   137, 105, 151, 74, 12, 150, 119, 126, 101, 185, 241, 9, 197, 110, 198, 132, 24, 240, 125, 236, 58, 220, 77, 32, 121, 238, 95, 62, 215, 203, 57, 72>>

Sub(box, b) == box[b + 1]
XorByte(a, b) == BXor(8, a, b)
XorSeq(s, t) == SubSeq([i \in DOMAIN s |-> XorByte(s[i], t[i])], 1, Len(s))
ByteOf(w, i) == w[i + 1]

\* AES_XTIME doubles in wider and wider words, AES_GFMUL cuts the sum to a byte.
AES_XTIME(a) == BXor(12, 2 * a, IF Bit(a, 7) = 1 THEN 27 ELSE 0)
AES_GFMUL(a, b) ==
  LET x1 == AES_XTIME(a)
      x2 == AES_XTIME(x1)
      x3 == AES_XTIME(x2)
      Part(i, x) == IF Bit(b, i) = 1 THEN x ELSE 0
  IN  BXor(12, BXor(12, Part(0, a), Part(1, x1)), BXor(12, Part(2, x2), Part(3, x3))) % 256

\* Bytes of the new low register, from the least significant.
AES_SHIFROWS_LO(rs1, rs2) ==
  <<ByteOf(rs1, 0), ByteOf(rs1, 5), ByteOf(rs2, 2), ByteOf(rs2, 7), ByteOf(rs1, 4), ByteOf(rs2, 1), ByteOf(rs2, 6), ByteOf(rs1, 3)>>
AES_INVSHIFROWS_LO(rs1, rs2) ==
  <<ByteOf(rs1, 0), ByteOf(rs2, 5), ByteOf(rs2, 2), ByteOf(rs1, 7), ByteOf(rs1, 4), ByteOf(rs1, 1), ByteOf(rs2, 6), ByteOf(rs2, 3)>>

AES_MIXBYTE(c, b0, b1, b2, b3) ==
  XorByte(XorByte(ByteOf(c, b3), ByteOf(c, b2)), XorByte(AES_GFMUL(ByteOf(c, b1), 3), AES_GFMUL(ByteOf(c, b0), 2)))
AES_INVMIXBYTE(c, b0, b1, b2, b3) ==
  XorByte(XorByte(AES_GFMUL(ByteOf(c, b3), 9), AES_GFMUL(ByteOf(c, b2), 13)), XorByte(AES_GFMUL(ByteOf(c, b1), 11), AES_GFMUL(ByteOf(c, b0), 14)))
AES_MIXCOLUMN(c) == <<AES_MIXBYTE(c, 0, 1, 2, 3), AES_MIXBYTE(c, 1, 2, 3, 0), AES_MIXBYTE(c, 2, 3, 0, 1), AES_MIXBYTE(c, 3, 0, 1, 2)>>
AES_INVMIXCOLUMN(c) ==
  <<AES_INVMIXBYTE(c, 0, 1, 2, 3), AES_INVMIXBYTE(c, 1, 2, 3, 0), AES_INVMIXBYTE(c, 2, 3, 0, 1), AES_INVMIXBYTE(c, 3, 0, 1, 2)>>
Lo(r) == SubSeq(r, 1, 4)
Hi(r) == SubSeq(r, 5, 8)

aes64es(rs1, rs2) == LET t == AES_SHIFROWS_LO(rs1, rs2) IN SubSeq([i \in 1 .. 8 |-> Sub(AES_ENC_SBOX, t[i])], 1, 8)
aes64ds(rs1, rs2) == LET t == AES_INVSHIFROWS_LO(rs1, rs2) IN SubSeq([i \in 1 .. 8 |-> Sub(AES_DEC_SBOX, t[i])], 1, 8)
aes64esm(rs1, rs2) == LET t == aes64es(rs1, rs2) IN AES_MIXCOLUMN(Lo(t)) \o AES_MIXCOLUMN(Hi(t))
aes64im(rs1) == AES_INVMIXCOLUMN(Lo(rs1)) \o AES_INVMIXCOLUMN(Hi(rs1))
aes64dsm(rs1, rs2) == aes64im(aes64ds(rs1, rs2))

round_consts == <<1, 2, 4, 8, 16, 32, 64, 128, 27, 54>>
\* enc_rcon above 10 reads beyond round_consts: not called so.
aes64ks1i(rs1, enc_rcon) ==
  LET top == Hi(rs1)
      turned == IF enc_rcon = 10 THEN top ELSE <<top[2], top[3], top[4], top[1]>>
      subbed == [i \in 1 .. 4 |-> Sub(AES_ENC_SBOX, turned[i])]
      t == IF enc_rcon = 10 THEN subbed ELSE [subbed EXCEPT ![1] = XorByte(@, round_consts[enc_rcon + 1])]
  IN  t \o t
aes64ks2(rs1, rs2) == LET lo == XorSeq(Hi(rs1), Lo(rs2)) IN lo \o XorSeq(lo, Hi(rs2))

\* SM4 on 32-bit words as sets of bits; a shift drops what leaves the word.
BitsOfByte(b) == {i \in 0 .. 7 : Bit(b, i) = 1}
BitsOf(word) == {8 * (k - 1) + i : k \in 1 .. 4, i \in 0 .. 7} \cap {n \in 0 .. 31 : Bit(word[(n \div 8) + 1], n % 8) = 1}
Shl(w, n) == {i + n : i \in w} \cap (0 .. 31)
Shr(w, n) == {i - n : i \in w} \cap (0 .. 31)
Sxor(v, w) == (v \ w) \cup (w \ v)
\* linear << bs | linear >> (32 - bs); for bs = 0 the second shift is undefined
\* in C: it yields linear or 0.
Rotl(w, bs) == Shl(w, bs) \cup Shr(w, 32 - bs)
sm4ed_linear(o) ==
  Sxor(Sxor(Sxor(o, Shl(o, 8)), Sxor(Shl(o, 2), Shl(o, 18))), Sxor(Shl(o \cap BitsOfByte(63), 26), Shl(o \cap BitsOfByte(192), 10)))
sm4ks_linear(o) ==
  Sxor(Sxor(o, Shl(o \cap BitsOfByte(7), 29)), Sxor(Sxor(Shl(o \cap BitsOfByte(254), 7), Shl(o \cap BitsOfByte(1), 23)), Shl(o \cap BitsOfByte(248), 13)))
sm4(L(_), rs1, rs2, k) == Sxor(Rotl(L(BitsOfByte(Sub(sm4_sbox, rs2[k + 1]))), 8 * k), BitsOf(rs1))

-----------------------------------------------------------------------------
\* References: the field of AES and of SM4, FIPS 197, the SM4 standard.
Twice(x, poly) == IF x < 128 THEN 2 * x ELSE BXor(9, 2 * x, poly)
GMul(a, b, poly) ==
  LET horner[i \in 0 .. 8] ==
        IF i = 0 THEN 0 ELSE LET prev == horner[i - 1] IN XorByte(Twice(prev, poly), IF Bit(b, 8 - i) = 1 THEN a ELSE 0)
  IN  horner[8]
AreInverses(a, b, poly) == IF a = 0 THEN b = 0 ELSE GMul(a, b, poly) = 1
Parity(n, x) == LET p[i \in 0 .. n] == IF i = 0 THEN 0 ELSE (p[i - 1] + Bit(x, i - 1)) % 2 IN p[n]
Circulant(row, x) == Compose(8, LAMBDA i : Parity(8, BAnd(8, x, ((row * 2^i) + ((row * 2^i) \div 256)) % 256)))
Affine(x) == XorByte(Circulant(241, x), 99)
Sm4Affine(x) == XorByte(Circulant(167, x), 211)
\* Their inverses, the matrices inverted.
UnAffine(x) == Circulant(164, XorByte(x, 99))
UnSm4Affine(x) == Circulant(67, XorByte(x, 211))

Byte == 0 .. 255
States == {[i \in 1 .. 16 |-> (a * i + b) % 256] : a \in {94}, b \in {173}}
Start == [b |-> -1, st |-> <<>>, n |-> -1]

-----------------------------------------------------------------------------
Rest == <<1, 0>>
Init == in = Rest /\ bytes = Start
ChooseOperands == bytes = Start /\ (IF in = Rest THEN in' \in (0 .. 2^XLEN - 1) \X Sources2 ELSE in' = Rest) /\ UNCHANGED bytes
ChooseRound == /\ bytes = Start /\ in = Rest
               /\ \E n \in 0 .. 9, st \in States : bytes' = [bytes EXCEPT !.st = st, !.n = n]
ChooseByte == bytes # Start /\ bytes.b = -1 /\ \E b \in Byte : b % 10 = bytes.n /\ bytes' = [bytes EXCEPT !.b = b]
Restart == bytes.b # -1 /\ bytes' = Start
Next == ChooseOperands \/ ((ChooseRound \/ ChooseByte \/ Restart) /\ UNCHANGED in)
Spec == Init /\ [][Next]_<<in, bytes>>

BaseOps == {"add", "sub", "and", "or", "xor", "sll", "srl", "sra", "slt", "sltu", "addw", "subw", "sllw", "srlw", "sraw"}
MulOps == {"mul", "mulh", "mulhu", "mulhsu", "div", "divu", "rem", "remu", "mulw", "divw", "remw", "divuw", "remuw"}
Word(op) == op \in {"addw", "subw", "sllw", "srlw", "sraw", "mulw", "divw", "remw", "divuw", "remuw"}

\* The operations of RV64I on registers give what the manual says, the 32-bit
\* ones sign-extended, whatever the unused bits of the sources and of the
\* shift amount hold (rvi/compute.h over c_op.h).
BaseAsManual ==
  \A op \in BaseOps : LET r == BaseRef(op, in[1], in[2]) IN Base(op, in[1], in[2]) = IF Word(op) THEN Int32(r) ELSE X(r)

\* Multiplication and division are those of the manual, with the products of
\* mixed sign, the divisor zero and the overflow of the smallest number; the
\* overflow test of divw and remw, which never holds, is not missed (rvm/exec.h).
MulDivAsManual ==
  \A op \in MulOps : LET r == RvmRef(op, in[1], in[2]) IN Rvm(op, in[1], in[2]) = IF Word(op) THEN Int32(r) ELSE X(r)

\* Rotations by any amount, carry-less products, byte and bit reversals and the
\* single-bit operations give the bits that the manual names (rvb/rvintrin.h).
BitsAsManual ==
  \A op \in RvbBits : Rvb(op, in[1], in[2]) = Compose(XLEN, LAMBDA i : RvbRef(op, in[1], in[2], i))

\* Counts of leading and trailing zeros with their value at zero, permutations
\* by out-of-range lanes and the operations on zero-extended halves are those of
\* the manual; slliuw is for amounts below 32, the code ignores bit 5 of it.
NumbersAsManual ==
  \A op \in RvbNumbers : (op = "slliuw" => in[2] % XLEN < H) => Rvb(op, in[1], in[2]) = RvbNumRef(op, in[1], in[2])

\* The substitution tables are the functions that the standards define: in AES
\* the inverse in the field, then an affine map, AES_DEC_SBOX its inverse; in
\* SM4 an affine map before and after the inverse (aes_common.h, sm4_common.h).
SboxesAsFields ==
  bytes.b # -1 =>
  LET b == bytes.b
      e == Sub(AES_ENC_SBOX, b)
      y == UnAffine(e)
      z == UnSm4Affine(Sub(sm4_sbox, b))
  IN  /\ Affine(y) = e /\ AreInverses(b, y, 283)
      /\ Sub(AES_DEC_SBOX, e) = b
      /\ Sm4Affine(z) = Sub(sm4_sbox, b) /\ AreInverses(Sm4Affine(b), z, 501)

\* One round of FIPS 197 on the 4 x 4 state, column after column.
At(s, r, c) == s[4 * (c % 4) + r + 1]
Mat(f(_, _)) == SubSeq([k \in 1 .. 16 |-> f((k - 1) % 4, (k - 1) \div 4)], 1, 16)
SubShift(s) == Mat(LAMBDA r, c : Sub(AES_ENC_SBOX, At(s, r, c + r)))
Mix(s, row) == Mat(LAMBDA r, c : XorByte(XorByte(GMul(At(s, 0, c), row[((4 - r) % 4) + 1], 283), GMul(At(s, 1, c), row[((5 - r) % 4) + 1], 283)),
                                    XorByte(GMul(At(s, 2, c), row[((6 - r) % 4) + 1], 283), GMul(At(s, 3, c), row[((7 - r) % 4) + 1], 283))))
LoS(s) == SubSeq(s, 1, 8)
HiS(s) == SubSeq(s, 9, 16)

\* Two aes64es or aes64esm make the last or an inner round of the cipher, two
\* aes64ds undo it, and aes64im undoes the mixing of columns (crypto_impl.h).
RoundsAsFips ==
  bytes.b # -1 =>
  LET s == [bytes.st EXCEPT ![3] = bytes.b]
      last == aes64es(LoS(s), HiS(s)) \o aes64es(HiS(s), LoS(s))
      inner == aes64esm(LoS(s), HiS(s)) \o aes64esm(HiS(s), LoS(s))
  IN  /\ last = SubShift(s)
      /\ inner = Mix(last, <<2, 3, 1, 1>>)
      /\ aes64ds(LoS(last), HiS(last)) \o aes64ds(HiS(last), LoS(last)) = s
      /\ aes64im(LoS(inner)) \o aes64im(HiS(inner)) = last
      /\ aes64dsm(LoS(last), HiS(last)) \o aes64dsm(HiS(last), LoS(last)) = Mix(s, <<14, 11, 13, 9>>)

\* aes64ks1i and two aes64ks2 make the next round key of AES-128, the next four
\* words of the key expansion of FIPS 197 (crypto_impl.h).
KeySchedule ==
  bytes.b # -1 =>
  LET k == [bytes.st EXCEPT ![14] = bytes.b]
      W(i) == SubSeq(k, 4 * i + 1, 4 * i + 4)
      rot == <<W(3)[2], W(3)[3], W(3)[4], W(3)[1]>>
      g == [i \in 1 .. 4 |-> XorByte(Sub(AES_ENC_SBOX, rot[i]), IF i = 1 THEN round_consts[bytes.n + 1] ELSE 0)]
      w0 == XorSeq(W(0), g)
      w1 == XorSeq(W(1), w0)
      w2 == XorSeq(W(2), w1)
      w3 == XorSeq(W(3), w2)
      t == aes64ks1i(HiS(k), bytes.n)
      lo == aes64ks2(t, LoS(k))
  IN  lo \o aes64ks2(lo, HiS(k)) = w0 \o w1 \o w2 \o w3

\* The four steps of sm4ed or sm4ks with the four byte numbers compute the round
\* function of SM4: the sum of the substituted word's rotations by 0, 2, 10, 18,
\* 24, for the key schedule by 0, 13, 23, all on words whose first byte is the
\* least significant (the shifts and masks of linear).
Sm4AsStandard ==
  bytes.b # -1 =>
  LET rs2 == <<bytes.b, bytes.st[2], bytes.st[7], bytes.st[12]>>
      rs1 == SubSeq(bytes.st, 5, 8)
      word == BitsOf([i \in 1 .. 4 |-> Sub(sm4_sbox, rs2[i])])
      Swap(w) == {((3 - (i \div 8)) * 8) + (i % 8) : i \in w}
      Rot(n) == Swap({(i + n) % 32 : i \in Swap(word)})
      Four(L(_)) == LET b(k) == Sxor(sm4(L, rs1, rs2, k), BitsOf(rs1)) IN Sxor(Sxor(b(0), b(1)), Sxor(b(2), b(3)))
  IN  /\ Four(sm4ed_linear) = Sxor(word, Sxor(Sxor(Rot(2), Rot(10)), Sxor(Rot(18), Rot(24))))
      /\ Four(sm4ks_linear) = Sxor(word, Sxor(Rot(13), Rot(23)))

\* The instructions of RV64I, M, B and K compute what the RISC-V manuals, FIPS 197
\* and the SM4 standard say, at the corner cases that each of the parts names.
AluAsManual ==
  /\ bytes = Start => BaseAsManual /\ MulDivAsManual /\ BitsAsManual /\ NumbersAsManual
  /\ in = Rest => SboxesAsFields /\ RoundsAsFips /\ KeySchedule /\ Sm4AsStandard
=============================================================================
