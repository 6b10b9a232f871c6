------------------------------ MODULE MCEngines ------------------------------
\* What an engine keeps of instructions it has decoded, each part on a small instance
\* of its own: the cache of the threaded engine and the floating-point instructions;
\* and the instructions that no engine executes and the firmware emulates.
EXTENDS Tcache

\* Guest programs for the threaded engine.

I(type, kind, jnpc, targets) ==
  [type |-> type, kind |-> kind, jnpc |-> jnpc, targets |-> targets, ifault |-> FALSE, xfault |-> FALSE]
FetchFaults(instr) == [instr EXCEPT !.ifault = TRUE]
Faults(instr) == [instr EXCEPT !.xfault = TRUE]
Program(code) == [pc \in 0 .. Len(code) - 1 |-> code[pc + 1]]

\* A load, a branch, a CSR write, and a system call that may not be mapped and
\* is also the target of the branch; the handler, at 4, returns to either part,
\* or to a jump.
MixProg == Program(<<
  Faults(I("N", "mem", 0, {})),
  I("B", "jump",  3, {}),
  I("N", "csr",   0, {}),
  FetchFaults(I("I", "ecall", 0, {4})),
  I("I", "xret",  0, {0, 2, 5}),
  I("J", "jump",  0, {}) >>)

\* An indirect jump among more targets than its entry has links, one of which
\* faults before its block is complete; the handler, at 7, jumps back.
JrFaultProg == Program(<<
  I("I", "jump",  0, {1, 3, 4, 7}),
  Faults(I("N", "mem", 0, {})),
  I("J", "jump",  3, {}),
  I("J", "jump",  0, {}),
  I("B", "jump",  6, {}),
  I("J", "jump",  0, {}),
  I("J", "jump",  0, {}),
  I("J", "jump",  0, {}) >>)

\* Branches that are not taken, each a basic block: every one leaves the
\* record of its other successor pending.
BranchesProg == [pc \in 0 .. 6 |->
  IF pc < 5 THEN I("B", "jump", 6, {}) ELSE I("J", "jump", 0, {})]

VARIABLES
  part,   \* the component that this behaviour is of
  fp_fcsr, fp_frm, fp_fflags, fp_nemu_rm_cache, fp_last_rm, fp_softfloat_roundingMode, fp_fs,
  fp_decoded, fp_perf, fp_ran, fp_copied, fp_changed, fp_accrued,
  bb_at, bb_x, bb_mem, bb_denied, bb_page, bb_slot0, bb_csr, bb_h, bb_before

FP == INSTANCE Fp WITH RoundingModes <- {0,1}, Reserved <- {5}, Flags <- {"NX"},
    fcsr <- fp_fcsr, frm <- fp_frm, fflags <- fp_fflags, nemu_rm_cache <- fp_nemu_rm_cache,
    last_rm <- fp_last_rm, softfloat_roundingMode <- fp_softfloat_roundingMode, fs <- fp_fs,
    decoded <- fp_decoded, perf <- fp_perf, ran <- fp_ran, copied <- fp_copied,
    changed <- fp_changed, accrued <- fp_accrued
fpVars == <<fp_fcsr, fp_frm, fp_fflags, fp_nemu_rm_cache, fp_last_rm,
    fp_softfloat_roundingMode, fp_fs, fp_decoded, fp_perf, fp_ran, fp_copied, fp_changed,
    fp_accrued>>

BB == INSTANCE Bbl WITH Addrs <- {1, 5, 6}, Page <- 8, CsrValues <- {1, 6}, at <- bb_at,
    x <- bb_x, mem <- bb_mem, denied <- bb_denied, page <- bb_page, slot0 <- bb_slot0,
    csr <- bb_csr, h <- bb_h, before <- bb_before
bbVars == <<bb_at, bb_x, bb_mem, bb_denied, bb_page, bb_slot0, bb_csr, bb_h, bb_before>>

-----------------------------------------------------------------------------
\* A behaviour is one of one component; the others stay in an initial state.
AllInit ==
  /\ part \in {"tc", "fp", "bb"}
  /\ Init
  /\ FP!Init
  /\ part # "fp" => ~fp_perf
  /\ BB!Init

\* Components that may come to an end stay there.
AllNext ==
  /\ part' = part
  /\ IF part = "tc" THEN Next ELSE UNCHANGED vars
  /\ IF part = "fp" THEN FP!Next \/ UNCHANGED fpVars ELSE UNCHANGED fpVars
  /\ IF part = "bb" THEN BB!Next ELSE UNCHANGED bbVars

AllVars == <<part, vars, fpVars, bbVars>>

AllSpec == AllInit /\ [][AllNext]_AllVars

-----------------------------------------------------------------------------
\* Whichever of fcsr, frm and fflags the guest uses it sees one register, whose flags
\* accrue and whose change makes mstatus.fs dirty; instructions round by it when they
\* run, and trap when mstatus.fs is off.
FpStateSound ==
  /\ [](part = "fp" => FP!FcsrMirrored /\ FP!DirtyWhenChanged /\ FP!FlagsAccrue)
  /\ [][part = "fp" => FP!DynamicRoundsStep /\ FP!OffTrapsStep]_fpVars

\* The firmware is invisible or says what the hart would have said: what it
\* emulates is as if the hart had done it (misaligned_ldst.c, emulation.c), what
\* it hands on arrives as a delegated trap would (redirect_trap), and no trap of
\* the program stops the machine (machine_page_fault).
FirmwareTransparent == part = "bb" => BB!FirmwareTransparent
=============================================================================
