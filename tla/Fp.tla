--------------------------------- MODULE Fp ---------------------------------
\* Floating point of riscv64 (instr/fp.c, instr/rvf, instr/rvd, engine/interpreter/fp.c):
\* the three copies of the control register, the two cached rounding modes,
\* the decision taken at decode time that the unit is on, and mstatus.fs.
EXTENDS Integers, TLAPS

CONSTANTS
  RoundingModes,    \* of frm that fp_update_rm_cache knows; the others assert
  Reserved,         \* the other values of frm
  Flags             \* the exception flags

VARIABLES
  fcsr,             \* [frm, fflags]
  frm, fflags,      \* the CSRs of their own
  nemu_rm_cache,
  last_rm,          \* static of rtl_fpcall, -1 at first
  softfloat_roundingMode,
  fs,               \* mstatus.fs: 0 off, 1 initial, 2 clean, 3 dirty
  decoded,          \* kind of instruction -> "none" | "exec" | "inv", the tcache
  perf,             \* the build has a tcache
  ran,              \* the kind of the last instruction, "EX_II", "assert", or "none"
  copied,           \* ghost: the CSRs were copied in since the last write of fcsr
  changed,          \* ghost: FP state changed since mstatus.fs was last written
  accrued           \* ghost: exceptions raised since the flags were last written

vars == <<fcsr, frm, fflags, nemu_rm_cache, last_rm, softfloat_roundingMode, fs, decoded, perf, ran,
          copied, changed, accrued>>
rounding == <<nemu_rm_cache, last_rm, softfloat_roundingMode>>
control == <<fcsr, frm, fflags>>

\* Loads and stores; moves and sign injections; what goes through rtl_fpcall.
Kinds == {"load", "move", "arith"}

\* Every build before the first instruction.
Init ==
  /\ fcsr = [frm |-> 0, fflags |-> {}] /\ frm = 0 /\ fflags = {}
  /\ nemu_rm_cache = 0 /\ last_rm = -1 /\ softfloat_roundingMode = 0
  /\ fs = 0
  /\ decoded = [k \in Kinds |-> "none"]
  /\ perf \in BOOLEAN
  /\ ran = "none" /\ copied = FALSE /\ changed = FALSE /\ accrued = {}

-----------------------------------------------------------------------------
\* Decoding: op_fp, fload and fstore ask fp_enable; a block of the tcache keeps
\* the answer.

fp_enable == fs # 0

AsDecoded(k) ==
  IF perf /\ decoded[k] # "none" THEN decoded[k] ELSE IF fp_enable THEN "exec" ELSE "inv"

Decode(k) == decoded' = IF perf THEN [decoded EXCEPT ![k] = AsDecoded(k)] ELSE decoded

\* rt_inv, inv, and isa_fp_csr_check, which only rtl_fpcall calls.
ChecksAtRunTime(k) == k = "arith"
Illegal(k) == AsDecoded(k) = "inv" \/ (ChecksAtRunTime(k) /\ fs = 0)

Instruction(k) == ran # "assert" /\ Decode(k) /\ UNCHANGED perf

TrapIllegal(k) ==
  /\ Instruction(k) /\ Illegal(k)
  /\ ran' = "EX_II"
  /\ UNCHANGED <<control, rounding, fs, copied, changed, accrued>>

Executes(k) == Instruction(k) /\ ~ Illegal(k) /\ ran' = k

-----------------------------------------------------------------------------
\* Execution.

\* fp_set_dirty, from rtl_fsr.
fp_set_dirty == fs' = 3 /\ changed' = TRUE

\* isa_fp_set_ex, after fp_get_exception.
isa_fp_set_ex(ex) ==
  /\ fcsr' = [fcsr EXCEPT !.fflags = @ \cup ex]
  /\ fflags' = IF ex = {} THEN fflags ELSE fcsr.fflags \cup ex

\* isa_fp_get_rm, and the cache of rtl_fpcall before fp_set_rm.
Round(rm) ==
  LET mode == IF rm = 7 THEN nemu_rm_cache ELSE rm
  IN  /\ softfloat_roundingMode' = IF mode # last_rm THEN mode ELSE softfloat_roundingMode
      /\ last_rm' = mode

\* flw, fld, fsgnj*, fmv_w_x, fmv_d_x: a register written without rtl_fpcall.
WriteRegister(k) ==
  /\ k \in {"load", "move"} /\ Executes(k)
  /\ fp_set_dirty
  /\ UNCHANGED <<control, rounding, copied, accrued>>

\* fsw, fsd, fmv_x_w, fclass*: a register only read.
ReadRegister(k) ==
  /\ k \in {"load", "move"} /\ Executes(k)
  /\ UNCHANGED <<control, rounding, fs, copied, changed, accrued>>

\* rtl_fpcall for add, sub, mul, div, sqrt, mulAdd and the conversions to FP:
\* the exceptions are the host library's.
fop(rm, ex) ==
  /\ rm \in RoundingModes \cup {7}
  /\ Executes("arith")
  /\ Round(rm)
  /\ isa_fp_set_ex(ex) /\ accrued' = accrued \cup ex
  /\ fp_set_dirty
  /\ UNCHANGED <<frm, nemu_rm_cache, copied>>

\* rtl_fpcall for the comparisons: no rounding, an integer result, dirty only
\* by the exceptions.
fcmp(ex) ==
  /\ Executes("arith")
  /\ isa_fp_set_ex(ex) /\ accrued' = accrued \cup ex
  /\ IF ex = {} THEN UNCHANGED <<fs, changed>> ELSE fp_set_dirty
  /\ UNCHANGED <<frm, rounding, copied>>

\* A reserved rounding mode in the instruction.
fopReserved ==
  /\ Instruction("arith") /\ ~ Illegal("arith")
  /\ ran' = "EX_II"
  /\ UNCHANGED <<control, rounding, fs, copied, changed, accrued>>

-----------------------------------------------------------------------------
\* CSR writes (csr_write) and what else changes the unit's state.

\* fp_update_rm_cache, asserting on a reserved mode.
fp_update_rm_cache(rm) ==
  IF rm \in RoundingModes THEN nemu_rm_cache' = rm /\ ran' = "none"
                          ELSE nemu_rm_cache' = nemu_rm_cache /\ ran' = "assert"

WrittenBy(csr, r, f) ==
  CASE csr = "fcsr" -> [frm |-> r, fflags |-> f]
    [] csr = "frm" -> [frm |-> r, fflags |-> fflags]
    [] csr = "fflags" -> [frm |-> frm, fflags |-> f]

WriteFcsrAlone(csr, r, f) ==
  LET new == WrittenBy(csr, r, f)
  IN  /\ ran # "assert"
      /\ fcsr' = new
      /\ frm' = (IF csr = "frm" THEN new.frm ELSE frm) /\ fflags' = new.fflags
      /\ fs' = 3 /\ changed' = TRUE
      /\ fp_update_rm_cache(new.frm)
      /\ copied' = FALSE /\ accrued' = IF csr = "frm" THEN accrued ELSE {}
      /\ UNCHANGED <<last_rm, softfloat_roundingMode, decoded, perf>>
WriteFcsr(csr, r, f) ==
  LET new == WrittenBy(csr, r, f)
  IN  /\ ran # "assert"
      /\ fcsr' = new /\ frm' = new.frm /\ fflags' = new.fflags
      /\ fs' = 3 /\ changed' = TRUE
      /\ fp_update_rm_cache(new.frm)
      /\ copied' = FALSE /\ accrued' = IF csr = "frm" THEN accrued ELSE {}
      /\ UNCHANGED <<last_rm, softfloat_roundingMode, decoded, perf>>

\* mstatus.fs by a CSR write; no block of the tcache is dropped.
WriteFs(v) ==
  /\ ran # "assert"
  /\ fs' = v /\ changed' = FALSE /\ ran' = "none"
  /\ UNCHANGED <<control, rounding, decoded, perf, copied, accrued>>

\* fence.i empties the tcache.
FenceI ==
  /\ ran # "assert"
  /\ decoded' = [k \in Kinds |-> "none"] /\ ran' = "none"
  /\ UNCHANGED <<control, rounding, fs, perf, copied, changed, accrued>>

\* isa_difftest_csrcpy into a reference: the array of CSRs, not the cached mode.
csrcpy(r, f) ==
  /\ ran # "assert"
  /\ fcsr' = [frm |-> r, fflags |-> f] /\ frm' = r /\ fflags' = f
  /\ copied' = TRUE /\ accrued' = {} /\ ran' = "none"
  /\ UNCHANGED <<rounding, fs, decoded, perf, changed>>

Next ==
  \/ \E k \in Kinds : TrapIllegal(k) \/ WriteRegister(k) \/ ReadRegister(k)
  \/ \E rm \in RoundingModes \cup {7}, ex \in SUBSET Flags : fop(rm, ex)
  \/ \E ex \in SUBSET Flags : fcmp(ex)
  \/ fopReserved
  \/ \E csr \in {"fcsr", "frm", "fflags"}, r \in RoundingModes \cup Reserved, f \in SUBSET Flags :
       WriteFcsr(csr, r, f)
  \/ \E v \in 0 .. 3 : WriteFs(v)
  \/ FenceI
  \/ \E r \in RoundingModes, f \in SUBSET Flags : csrcpy(r, f)

Spec == Init /\ [][Next]_vars

-----------------------------------------------------------------------------
\* Type invariant of the registers, CSRs and caches of fp.c.
TypeOK ==
  /\ fcsr \in [frm : RoundingModes \cup Reserved, fflags : SUBSET Flags]
  /\ frm \in RoundingModes \cup Reserved /\ fflags \in SUBSET Flags
  /\ nemu_rm_cache \in RoundingModes /\ last_rm \in RoundingModes \cup {-1}
  /\ softfloat_roundingMode \in RoundingModes /\ fs \in 0 .. 3
  /\ decoded \in [Kinds -> {"none", "exec", "inv"}]

\* csr_write and isa_fp_set_ex keep three registers for two fields: fcsr is at
\* all times what frm and fflags together say, whichever of them the guest
\* writes and whatever exceptions were raised in between.
FcsrMirrored == fcsr = [frm |-> frm, fflags |-> fflags]

\* Whatever changed a floating point register, the flags or the rounding mode
\* since the guest last set mstatus.fs has left it dirty (fp_set_dirty): a guest
\* that saves the unit only when it is dirty loses nothing.
DirtyWhenChanged == changed => fs = 3

\* Exceptions accrue (isa_fp_set_ex): whatever was raised since the guest last
\* wrote the flags is still set, in both copies.
FlagsAccrue == accrued \subseteq fflags /\ accrued \subseteq fcsr.fflags

DynamicRoundsStep ==
  \A ex \in SUBSET Flags : fop(7, ex) /\ ~ copied => softfloat_roundingMode' = frm

\* An operation with the dynamic rounding mode runs in the mode that frm names,
\* through both caches (nemu_rm_cache, last_rm), unless the CSRs were copied in
\* by isa_difftest_csrcpy after the guest's last write of them.
DynamicRounds == [][DynamicRoundsStep]_vars

OffTrapsStep ==
  fs = 0 => ran' \notin (IF perf THEN {"arith"} ELSE Kinds)

\* With mstatus.fs off no FP instruction completes. In a build with a tcache
\* this holds of the operations that rtl_fpcall checks once more; the others go
\* by what fp_enable said when they were decoded.
OffTraps == [][OffTrapsStep]_vars

\* Whichever of fcsr, frm and fflags the guest uses it sees one register, whose flags
\* accrue and whose change makes mstatus.fs dirty; instructions round by it when they
\* run, and trap when mstatus.fs is off.
FpStateSound == [](FcsrMirrored /\ DirtyWhenChanged /\ FlagsAccrue) /\ DynamicRounds /\ OffTraps


-----------------------------------------------------------------------------
\* What holds between instructions. Until the emulator has stopped, the cached mode
\* is frm unless the CSRs were copied in, and softfloat rounds as rtl_fpcall last
\* asked.
FpInv ==
  /\ FcsrMirrored /\ DirtyWhenChanged /\ FlagsAccrue
  /\ fcsr.frm = frm /\ fcsr.fflags = fflags
  /\ ran # "assert" /\ ~ copied => nemu_rm_cache = frm
  /\ nemu_rm_cache \in Nat
  /\ last_rm # -1 => softfloat_roundingMode = last_rm

\* isa_fp_set_ex keeps the copies of the flags together and drops none of them.
LEMMA SetEx ==
  ASSUME FpInv, NEW ex, isa_fp_set_ex(ex), accrued' = accrued \cup ex, frm' = frm
  PROVE  FcsrMirrored' /\ FlagsAccrue' /\ fcsr'.frm = frm' /\ fcsr'.fflags = fflags'
<1>1. fcsr = [frm |-> frm, fflags |-> fflags] BY DEF FpInv, FcsrMirrored
<1>2. fcsr' = [frm |-> frm, fflags |-> fflags \cup ex] BY <1>1 DEF isa_fp_set_ex
<1>3. fflags' = fflags \cup ex BY <1>1 DEF isa_fp_set_ex
<1>4. FcsrMirrored' BY <1>2, <1>3 DEF FcsrMirrored
<1>5. fcsr'.frm = frm' /\ fcsr'.fflags = fflags' BY <1>2, <1>3
<1>6. FlagsAccrue' BY <1>3, <1>5 DEF FpInv, FlagsAccrue
<1> QED BY <1>4, <1>5, <1>6

\* The unit before the first instruction.
LEMMA FpInit == Init => FpInv
  BY DEF Init, FpInv, FcsrMirrored, DirtyWhenChanged, FlagsAccrue

\* Every instruction, CSR write and copy keeps the registers, the caches and
\* mstatus.fs together.
LEMMA FpNext == ASSUME RoundingModes \subseteq Nat, FpInv, [Next]_vars PROVE FpInv'
<1> DEFINE Same == UNCHANGED <<control, rounding, fs, copied, changed, accrued>>
<1> USE DEF control, rounding
<1>0. ASSUME Same, ran # "assert" \/ ran' = ran PROVE FpInv'
  BY <1>0 DEF FpInv, FcsrMirrored, DirtyWhenChanged, FlagsAccrue
<1>1. ASSUME NEW k \in Kinds, TrapIllegal(k) PROVE FpInv'
  BY <1>0, <1>1 DEF TrapIllegal, Instruction
<1>2. ASSUME NEW k \in Kinds, WriteRegister(k) PROVE FpInv'
  BY <1>2 DEF WriteRegister, Executes, Instruction, fp_set_dirty, FpInv, FcsrMirrored,
              DirtyWhenChanged, FlagsAccrue
<1>3. ASSUME NEW k \in Kinds, ReadRegister(k) PROVE FpInv'
  BY <1>0, <1>3 DEF ReadRegister, Executes, Instruction
<1>4. ASSUME NEW rm \in RoundingModes \cup {7}, NEW ex \in SUBSET Flags, fop(rm, ex) PROVE FpInv'
  <2>1. FcsrMirrored' /\ FlagsAccrue' /\ fcsr'.frm = frm' /\ fcsr'.fflags = fflags'
    BY <1>4, SetEx DEF fop
  <2>2. DirtyWhenChanged' BY <1>4 DEF fop, fp_set_dirty, DirtyWhenChanged
  <2>3. last_rm' # -1 => softfloat_roundingMode' = last_rm'
    BY <1>4 DEF fop, Round, FpInv
  <2> QED BY <1>4, <2>1, <2>2, <2>3 DEF FpInv, fop, Executes, Instruction
<1>5. ASSUME NEW ex \in SUBSET Flags, fcmp(ex) PROVE FpInv'
  <2>1. FcsrMirrored' /\ FlagsAccrue' /\ fcsr'.frm = frm' /\ fcsr'.fflags = fflags'
    BY <1>5, SetEx DEF fcmp
  <2>2. DirtyWhenChanged' BY <1>5 DEF fcmp, fp_set_dirty, DirtyWhenChanged, FpInv
  <2> QED BY <1>5, <2>1, <2>2 DEF FpInv, fcmp, Executes, Instruction
<1>6. CASE fopReserved BY <1>0, <1>6 DEF fopReserved, Instruction
<1>7. ASSUME NEW csr \in {"fcsr", "frm", "fflags"}, NEW r \in RoundingModes \cup Reserved,
             NEW f \in SUBSET Flags, WriteFcsr(csr, r, f)
      PROVE  FpInv'
  <2> DEFINE new == WrittenBy(csr, r, f)
  <2>1. fcsr' = new /\ frm' = new.frm /\ fflags' = new.fflags BY <1>7 DEF WriteFcsr
  <2>2. new = [frm |-> new.frm, fflags |-> new.fflags] BY DEF WrittenBy
  <2>3. csr = "frm" => new.fflags = fflags BY DEF WrittenBy
  <2>4. accrued' = IF csr = "frm" THEN accrued ELSE {} BY <1>7 DEF WriteFcsr
  <2>5. FlagsAccrue' BY <2>1, <2>3, <2>4 DEF FpInv, FlagsAccrue
  <2>6. fs' = 3 /\ fp_update_rm_cache(new.frm) /\ last_rm' = last_rm
          /\ softfloat_roundingMode' = softfloat_roundingMode
    BY <1>7 DEF WriteFcsr
  <2>7. nemu_rm_cache' \in Nat /\ (ran' # "assert" => nemu_rm_cache' = new.frm)
    BY <2>6 DEF fp_update_rm_cache, FpInv
  <2> HIDE DEF new
  <2> QED BY <2>1, <2>2, <2>5, <2>6, <2>7 DEF FpInv, FcsrMirrored, DirtyWhenChanged
<1>8. ASSUME NEW v \in 0 .. 3, WriteFs(v) PROVE FpInv'
  BY <1>8 DEF WriteFs, FpInv, FcsrMirrored, DirtyWhenChanged, FlagsAccrue
<1>9. CASE FenceI BY <1>0, <1>9 DEF FenceI
<1>10. ASSUME NEW r \in RoundingModes, NEW f \in SUBSET Flags, csrcpy(r, f) PROVE FpInv'
  BY <1>10 DEF csrcpy, FpInv, FcsrMirrored, DirtyWhenChanged, FlagsAccrue
<1>11. CASE UNCHANGED vars BY <1>0, <1>11 DEF vars
<1> QED BY <1>1, <1>2, <1>3, <1>4, <1>5, <1>6, <1>7, <1>8, <1>9, <1>10, <1>11 DEF Next

\* Dynamic rounding goes through nemu_rm_cache and last_rm and still obeys frm.
LEMMA RoundsDynamically == ASSUME FpInv PROVE DynamicRoundsStep
  BY DEF FpInv, DynamicRoundsStep, fop, Executes, Instruction, Round

\* With mstatus.fs off an instruction is decoded as inv or refused by rtl_fpcall.
LEMMA TrapsWhenOff == ASSUME Next PROVE OffTrapsStep
<1> SUFFICES ASSUME fs = 0 PROVE ran' \notin (IF perf THEN {"arith"} ELSE Kinds)
  BY DEF OffTrapsStep
<1>1. ASSUME NEW k \in Kinds, Executes(k) PROVE perf /\ k # "arith" /\ ran' = k
  BY <1>1 DEF Executes, Illegal, ChecksAtRunTime, AsDecoded, fp_enable
<1>2. ASSUME ran' \in {"EX_II", "none", "assert"} PROVE ran' \notin Kinds
  BY <1>2 DEF Kinds
<1> HIDE DEF Kinds
<1>3. {"load", "move", "arith"} \subseteq Kinds /\ "arith" \in Kinds BY DEF Kinds
<1>4. (\E k \in Kinds : Executes(k)) \/ ran' \in {"EX_II", "none", "assert"}
  BY <1>3 DEF Next, TrapIllegal, WriteRegister, ReadRegister, fop, fcmp, fopReserved, WriteFcsr,
         fp_update_rm_cache, WriteFs, FenceI, csrcpy
<1> QED BY <1>1, <1>2, <1>3, <1>4

\* Whatever rounding modes, flags and reserved values there are, the three control
\* registers, the two caches and mstatus.fs stay together, dynamic rounding obeys frm
\* and a unit that is off traps (fp.c, rtl_fpcall, csr_write).
THEOREM FpIsSound == ASSUME RoundingModes \subseteq Nat PROVE Spec => FpStateSound
<1>1. Init => FpInv BY FpInit
<1>2. FpInv /\ [Next]_vars => FpInv' BY FpNext
<1>3. FpInv => FcsrMirrored /\ DirtyWhenChanged /\ FlagsAccrue BY DEF FpInv
<1>4. FpInv /\ [Next]_vars => [DynamicRoundsStep]_vars BY RoundsDynamically
<1>5. [Next]_vars => [OffTrapsStep]_vars BY TrapsWhenOff
<1> QED BY <1>1, <1>2, <1>3, <1>4, <1>5, PTL DEF Spec, FpStateSound, DynamicRounds, OffTraps
=============================================================================
