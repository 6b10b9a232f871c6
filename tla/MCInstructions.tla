--------------------------- MODULE MCInstructions ----------------------------
\* What one instruction computes and may access, guest by guest: the checks of
\* physical memory protection, then the decoders and the instructions of riscv64,
\* riscv32, mips32 and x86, each compared with its manual.
EXTENDS Pmp

(* Two regions of 64 bytes of memory with a grain of 16 bytes, so that a   *)
(* pmpaddr has two bits below the grain, as many as make its reading       *)
(* differ between the modes of matching.                                   *)

Settings == {<<FALSE, {"W", "X"}>>, <<TRUE, {"R", "W"}>>}

VARIABLES
  part,   \* the component that this behaviour is of
  alu_in, alu_bytes,
  dec_in,
  rvv_in,
  x86_in,
  rv32_cpu, rv32_instr,
  mips_cpu, mips_instr

ALU == INSTANCE RvAlu WITH XLEN <- 8, BYTE <- 2,
    Sources2 <- {0,1,2,3,4,7,8,9,15,16,27,85,127,128,129,240,254,255}, in <- alu_in,
    bytes <- alu_bytes
aluVars == <<alu_in, alu_bytes>>

DEC == INSTANCE RvDecode WITH Regs <- {0, 1, 2}, Rs2s <- {0, 1, 7, 24, 31}, in <- dec_in
decVars == <<dec_in>>

RVV == INSTANCE Rvv WITH BYTE <- 2, MAXSEW <- 2, VLEN <- 16, IMM <- 2, Seeds <- {0, 1, 2, 3},
    Lens <- {0, 1, 2, 5, 16}, in <- rvv_in
rvvVars == <<rvv_in>>

X86I == INSTANCE X86 WITH BYTE <- 2,
    Words <- {0, 1, 2, 3, 5, 7, 8, 13, 63, 64, 85, 126, 127, 128, 129, 170, 192, 253, 254, 255},
    ModRMs <- {0, 4, 5, 12, 21, 29, 35, 44, 53, 62, 68, 69, 76, 110, 132, 133, 140, 192, 200, 217, 230, 255},
    SIBs <- {0, 5, 37, 100, 141, 229}, in <- x86_in
x86Vars == <<x86_in>>

RV32I == INSTANCE Rv32 WITH BYTE <- 1, Values <- {0,1,6,8,15}, Offsets <- {0,1,2,8,14},
    Memory <- 13, cpu <- rv32_cpu, instr <- rv32_instr
rv32Vars == <<rv32_cpu, rv32_instr>>

MIPSI == INSTANCE Mips WITH BYTE <- 1, Values <- {0,1,6,8,15}, Memories <- {37605, 2741},
    cpu <- mips_cpu, instr <- mips_instr
mipsVars == <<mips_cpu, mips_instr>>

-----------------------------------------------------------------------------
\* A behaviour is one of one component; the others stay in an initial state.
AllInit ==
  /\ part \in {"pmp", "alu", "dec", "rvv", "x86", "rv32", "mips"}
  /\ Init
  /\ ALU!Init
  /\ DEC!Init
  /\ RVV!Init
  /\ X86I!Init
  /\ RV32I!Init
  /\ MIPSI!Init

\* Components that may come to an end stay there.
AllNext ==
  /\ part' = part
  /\ IF part = "pmp" THEN Next ELSE UNCHANGED vars
  /\ IF part = "alu" THEN ALU!Next ELSE UNCHANGED aluVars
  /\ IF part = "dec" THEN DEC!Next ELSE UNCHANGED decVars
  /\ IF part = "rvv" THEN RVV!Next ELSE UNCHANGED rvvVars
  /\ IF part = "x86" THEN X86I!Next \/ UNCHANGED x86Vars ELSE UNCHANGED x86Vars
  /\ IF part = "rv32" THEN RV32I!Next ELSE UNCHANGED rv32Vars
  /\ IF part = "mips" THEN MIPSI!Next ELSE UNCHANGED mipsVars

AllVars == <<part, vars, aluVars, decVars, rvvVars, x86Vars, rv32Vars, mipsVars>>

AllSpec == AllInit /\ [][AllNext]_AllVars

-----------------------------------------------------------------------------
\* The check of isa_pmp_check_permission is the one the registers describe to the
\* guest that reads them, for every aligned access, type and mode.
PmpChecked == part = "pmp" => ChecksWhatIsRead


\* An x86 instruction has the length, address, result and flags that the manual gives
\* it, the flags also when they are computed later from what was saved; one of mips32
\* computes what its manual says, and the pairs for unaligned words meet.
X86AndMipsAsManual ==
  /\ part = "x86" => X86I!X86AsManual
  /\ part = "mips" => MIPSI!ExecutesAsManual /\ MIPSI!UnalignedPairs
=============================================================================
