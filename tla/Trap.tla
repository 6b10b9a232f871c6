-------------------------------- MODULE Trap --------------------------------
(***************************************************************************)
(* Privileged state of the RISC-V hart: traps and their delegation         *)
(* (isa/riscv64/system/intr.c), returns and CSR writes (system/priv.c),    *)
(* the cached translation mode (system/mmu.c), and the loop of cpu_exec    *)
(* that takes exceptions and interrupts (cpu/cpu-exec.c).                  *)
(*                                                                         *)
(* A word of flag bits is the set of the bits that are 1.  mstatus.tsr,    *)
(* tvm and tw are not kept: an instruction they forbid may always raise.   *)
(***************************************************************************)
EXTENDS Integers, FiniteSets

CONSTANTS
  Builds,      \* the configurations the emulator is built in
  AllIrqs,     \* the interrupts considered
  AllExs,      \* the exceptions considered
  Addrs,       \* faulting addresses
  MPPs,        \* what software writes to mstatus.mpp
  MaxFlips,    \* bound: status bits that one instruction changes
  DutStates    \* states the host copies into a reference

VARIABLE build \* the configuration of this emulator, fixed for its life

SHARE == build.share          \* CONFIG_SHARE: a difftest reference, driven by its host
PERF_OPT == build.perf_opt    \* CONFIG_PERF_OPT: the threaded engine
RVN == build.rvn              \* CONFIG_RVN: user-level traps
RV_DASICS == build.dasics     \* CONFIG_RV_DASICS
Irqs == build.irqs            \* bound: the interrupts that occur in this build
Exs == build.exs              \* bound: the exceptions that occur in this build
SatpModes == build.satps      \* bound: what software writes to satp.mode
Writable == build.bits        \* bound: the status bits that software changes

U == 0
S == 1
M == 3
Modes == MPPs \cup {U, S, M}

EX_II == 2
EX_DUCF == 24
EX_DSCF == 25
\* The exceptions for which the code that raises them writes xtval.
TvalEx == {1, 4, 5, 6, 7, 12, 13, 15, EX_DUCF, EX_DSCF}
Ecalls == 8 .. 11

\* Interrupts are told from exceptions by INTR_BIT.
Intr(n) == 64 + n
\* priority of isa_query_intr
Rank == [n \in {Intr(i) : i \in {11, 3, 7, 9, 1, 5, 8, 0, 4}} |->
           CASE n = Intr(11) -> 1 [] n = Intr(3) -> 2 [] n = Intr(7) -> 3
             [] n = Intr(9)  -> 4 [] n = Intr(1) -> 5 [] n = Intr(5) -> 6
             [] n = Intr(8)  -> 7 [] n = Intr(0) -> 8 [] n = Intr(4) -> 9]
Bits(s) == {Intr(i) : i \in s} \cap Irqs
MTIP == Bits({7})
UEIP == Bits({8})

StatusBits == {"MIE", "MPIE", "SIE", "SPIE", "SPP", "MPRV", "UIE", "UPIE"}

Csrs == [mstatus : SUBSET StatusBits, mpp : Modes, mie : SUBSET AllIrqs, mip : SUBSET AllIrqs,
         medeleg : SUBSET AllExs, mideleg : SUBSET AllIrqs,
         sedeleg : SUBSET AllExs, sideleg : SUBSET AllIrqs, satp : {0, 8}]

ASSUME TrapAssumption ==
  /\ Builds \subseteq [share : BOOLEAN, perf_opt : BOOLEAN, rvn : BOOLEAN, dasics : BOOLEAN,
                       irqs : SUBSET AllIrqs, exs : SUBSET AllExs, satps : SUBSET (0 .. 15),
                       bits : SUBSET StatusBits]
  /\ AllIrqs \subseteq DOMAIN Rank
  /\ AllExs \subseteq 0 .. 25
  /\ Addrs \subseteq Nat \ {0}
  /\ MPPs \subseteq 0 .. 3
  /\ MaxFlips \in Nat
  /\ DutStates \subseteq [mode : Modes, csr : Csrs]

VARIABLES
  mode,        \* cpu.mode
  csr,         \* the CSRs, mstatus.mpp apart from the flag bits
  tval,        \* utval, stval, mtval, by mode
  ifetch_mmu_state, data_mmu_state,
  phase,       \* "run": in execute; "loop": at the loop of cpu_exec; "panic"
  pending,     \* g_ex_cause and, for the properties, the faulting address
  saved,       \* ghost: what the last trap into a mode interrupted, until
               \* software returns from it or writes the fields it is kept in
  copied       \* ghost: the host replaced the state since update_mmu_state

vars == <<build, mode, csr, tval, ifetch_mmu_state, data_mmu_state, phase, pending, saved, copied>>

None == [no |-> -1, addr |-> 0]
Nothing == [mode |-> -1, ie |-> FALSE]

TypeOK ==
  /\ build \in Builds
  /\ mode \in Modes
  /\ csr \in Csrs
  /\ tval \in [{U, S, M} -> Addrs \cup {0}]
  /\ ifetch_mmu_state \in {"DIRECT", "TRANSLATE"}
  /\ data_mmu_state \in {"DIRECT", "TRANSLATE"}
  /\ phase \in {"run", "loop", "panic"}
  /\ pending \in [no : AllExs, addr : Addrs \cup {0}] \cup {None}
  /\ saved \in [{U, S, M} -> [mode : Modes, ie : BOOLEAN] \cup {Nothing}]
  /\ copied \in BOOLEAN

----------------------------------------------------------------------------
(* Cached translation mode.                                                *)

EffectiveMode(m, c, ifetch) == IF "MPRV" \in c.mstatus /\ ~ ifetch THEN c.mpp ELSE m

update_mmu_state_internal(m, c, ifetch) ==
  IF EffectiveMode(m, c, ifetch) < M /\ c.satp = 8 THEN "TRANSLATE" ELSE "DIRECT"

\* mutant: the new mode is not seen by data accesses
update_mmu_state_ifetch ==
  /\ ifetch_mmu_state' = update_mmu_state_internal(mode', csr', TRUE)
  /\ data_mmu_state' = data_mmu_state
  /\ copied' = FALSE

update_mmu_state ==
  /\ ifetch_mmu_state' = update_mmu_state_internal(mode', csr', TRUE)
  /\ data_mmu_state' = update_mmu_state_internal(mode', csr', FALSE)
  /\ copied' = FALSE

mmu_state == <<ifetch_mmu_state, data_mmu_state, copied>>

----------------------------------------------------------------------------
(* Traps.                                                                  *)

intr_deleg_S(no) == no \in csr.medeleg \cup csr.mideleg /\ mode < M
\* mutant: interrupts are not delegated
intr_deleg_U_exceptions(no) == RVN /\ no \in csr.sedeleg /\ mode = U

intr_deleg_U(no) == RVN /\ no \in csr.sedeleg \cup csr.sideleg /\ mode = U

\* The mode a trap is taken into.
TrapMode(no) == IF intr_deleg_U(no) THEN U ELSE IF intr_deleg_S(no) THEN S ELSE M

\* INTR_TVAL_REG: the register written by the code that raises an exception.
\* mutant: without user-level traps

TvalReg(ex) == TrapMode(ex)

IE(m) == CASE m = U -> "UIE" [] m = S -> "SIE" [] OTHER -> "MIE"
PIE(m) == CASE m = U -> "UPIE" [] m = S -> "SPIE" [] OTHER -> "MPIE"

\* xpie = xie; xie = 0.
Push(status, m) ==
  (status \ {IE(m), PIE(m)}) \cup (IF IE(m) \in status THEN {PIE(m)} ELSE {})

\* spp has one bit.
SetSpp(status) == (status \ {"SPP"}) \cup (IF mode % 2 = 1 THEN {"SPP"} ELSE {})

\* mutant: the enable bit is not cleared
TrapCsrEnabled(to) ==
  CASE to = U -> csr
    [] to = S -> [csr EXCEPT !.mstatus = SetSpp(@)]
    [] OTHER  -> [csr EXCEPT !.mpp = mode]

TrapCsr(to) ==
  CASE to = U -> [csr EXCEPT !.mstatus = Push(@, U)]
    [] to = S -> [csr EXCEPT !.mstatus = SetSpp(Push(@, S))]
    [] OTHER  -> [csr EXCEPT !.mstatus = Push(@, M), !.mpp = mode]

\* Everything raise_intr assigns but csr' = TrapCsr(TrapMode(no)).
raise_intr(no) ==
  LET to == TrapMode(no)
  IN  /\ mode' = to
      /\ tval' = IF no \in TvalEx THEN tval ELSE [tval EXCEPT ![to] = 0]
      /\ saved' = [saved EXCEPT ![to] = [mode |-> mode, ie |-> IE(to) \in csr.mstatus]]
      /\ update_mmu_state

\* isa_query_intr looks at the delegation of an interrupt in its own way.
QueryMode(irq) ==
  IF RVN /\ irq \in csr.sideleg THEN U ELSE IF irq \in csr.mideleg THEN S ELSE M

GlobalEnable(irq) ==
  LET m == QueryMode(irq)
  IN  (mode = m /\ IE(m) \in csr.mstatus) \/ mode < m

Candidates == {irq \in csr.mie \cap csr.mip : GlobalEnable(irq)}

isa_query_intr(irq) ==
  irq \in Candidates /\ \A other \in Candidates : Rank[irq] <= Rank[other]

----------------------------------------------------------------------------
(* The loop of cpu_exec.                                                   *)

\* A reference returns to its host after an exception.
HandleException ==
  /\ phase = "loop" /\ pending # None
  /\ csr' = TrapCsr(TrapMode(pending.no)) /\ raise_intr(pending.no)
  /\ pending' = None
  /\ phase' = IF SHARE THEN "loop" ELSE "run"

\* The instruction budget of this cpu_exec is used up: g_ex_cause is lost and
\* the instruction is executed again by the next call.
DropException ==
  /\ PERF_OPT /\ phase = "loop" /\ pending # None
  /\ pending' = None
  /\ UNCHANGED <<mode, csr, tval, mmu_state, phase, saved>>

TakeInterrupt(irq) ==
  /\ phase = "loop" /\ pending = None /\ ~ SHARE
  /\ isa_query_intr(irq)
  /\ csr' = TrapCsr(TrapMode(irq)) /\ raise_intr(irq)
  /\ phase' = "run"
  /\ UNCHANGED pending

Resume ==
  /\ phase = "loop" /\ pending = None
  /\ SHARE \/ Candidates = {}
  /\ phase' = "run"
  /\ UNCHANGED <<mode, csr, tval, mmu_state, pending, saved>>

\* The batch is over.
BatchEnd ==
  /\ ~ SHARE /\ phase = "run"
  /\ phase' = "loop"
  /\ UNCHANGED <<mode, csr, tval, mmu_state, pending, saved>>

\* difftest_raise_intr and difftest_regcpy, called by the host of a reference.
DifftestRaiseIntr(irq) ==
  /\ SHARE /\ phase = "loop" /\ pending = None
  /\ csr' = TrapCsr(TrapMode(irq)) /\ raise_intr(irq)
  /\ UNCHANGED <<phase, pending>>

DifftestRegcpy(dut) ==
  /\ SHARE /\ phase = "loop" /\ pending = None
  /\ mode' = dut.mode /\ csr' = dut.csr
  /\ copied' = TRUE
  /\ saved' = [m \in {U, S, M} |-> Nothing]
  /\ UNCHANGED <<tval, ifetch_mmu_state, data_mmu_state, phase, pending>>

\* update_clint, from the alarm signal or an access to the CLINT.
UpdateClint ==
  /\ ~ SHARE /\ phase # "panic"
  /\ \E mtip \in {{}, MTIP} : csr' = [csr EXCEPT !.mip = (@ \ MTIP) \cup mtip]
  /\ UNCHANGED <<mode, tval, mmu_state, phase, pending, saved>>

----------------------------------------------------------------------------
(* Instructions.                                                           *)

\* Leave execute when the threaded engine sees g_sys_state_flag.
\* A reference executes one instruction per call.
Ends(flag) == phase' = IF SHARE \/ (flag /\ PERF_OPT) THEN "loop" ELSE phase

\* With RVN the plain engine sets or clears UEIP, by utimer, after every
\* instruction; utimer itself is not kept.
AfterInstr(c) ==
  IF RVN /\ ~ PERF_OPT
  THEN {[c EXCEPT !.mip = (@ \ UEIP) \cup ueip] : ueip \in {{}, UEIP}}
  ELSE {c}

\* Non-canonical fetch addresses are written to stval as well.
Fault(ex, addr, clobber) ==
  /\ phase = "run" /\ ex \notin Ecalls
  /\ clobber => ex = 12
  /\ tval' = IF ex \in TvalEx
             THEN [tval EXCEPT ![S] = IF clobber THEN addr ELSE @, ![TvalReg(ex)] = addr]
             ELSE tval
  /\ pending' = [no |-> ex, addr |-> IF ex \in TvalEx THEN addr ELSE 0]
  /\ phase' = "loop"
  /\ UNCHANGED <<mode, csr, mmu_state, saved>>

\* An ecall outside the trusted zone is a DASICS fault instead, unless dsmcfg
\* allows it.
EcallCauses ==
  {8 + mode} \cup (IF RV_DASICS /\ mode = U THEN {EX_DUCF} ELSE {})
             \cup (IF RV_DASICS /\ mode = S THEN {EX_DSCF} ELSE {})

Ecall(no) ==
  /\ phase = "run" /\ no \in EcallCauses
  /\ csr' \in AfterInstr(TrapCsr(TrapMode(no))) /\ raise_intr(no)
  /\ Ends(TRUE)
  /\ UNCHANGED pending

\* xie = xpie; xpie = 1.
Pop(status, m) ==
  (status \ {IE(m)}) \cup {PIE(m)} \cup (IF PIE(m) \in status THEN {IE(m)} ELSE {})

Returned(from) ==
  CASE from = U -> [csr EXCEPT !.mstatus = Pop(@, U) \ {"MPRV"}]
    [] from = S -> [csr EXCEPT !.mstatus = Pop(@, S) \ {"MPRV", "SPP"}]
    [] OTHER    -> [csr EXCEPT !.mstatus = Pop(@, M) \ (IF csr.mpp # M THEN {"MPRV"} ELSE {}),
                               !.mpp = U]

\* uret, sret and mret; one that is not allowed is a Fault(EX_II).
XRet(from) ==
  /\ phase = "run"
  /\ from = U => RVN
  /\ from # U => mode >= from
  /\ mode' = CASE from = U -> U
               [] from = S -> IF "SPP" \in csr.mstatus THEN S ELSE U
               [] OTHER -> csr.mpp
  /\ csr' \in AfterInstr(Returned(from))
  /\ update_mmu_state
  /\ saved' = [saved EXCEPT ![from] = Nothing]
  /\ Ends(TRUE)
  /\ UNCHANGED <<tval, pending>>

mask_bitset(old, mask, new) == (old \ mask) \cup (new \cap mask)

\* mutant: too wide
SSTATUS_WMASK_MPIE == {"SPP", "SPIE", "SIE", "MPIE"} \cup (IF RVN THEN {"UPIE", "UIE"} ELSE {})

SSTATUS_WMASK == {"SPP", "SPIE", "SIE"} \cup (IF RVN THEN {"UPIE", "UIE"} ELSE {})
USTATUS_WMASK == {"UPIE", "UIE"}
MEDELEG_MASK == (0 .. 9) \cup {12, 13, 15} \cup (IF RV_DASICS THEN {EX_DUCF, EX_DSCF} ELSE {})
MIDELEG_MASK == Bits({1, 5, 9} \cup (IF RVN THEN {0, 4, 8} ELSE {}))
SIE_MASK == Bits({0, 1, 4, 5, 8, 9}) \cap csr.mideleg
UIE_MASK == Bits({0, 4, 8}) \cap csr.sideleg

\* The registers, and the lowest mode that may access them (addr bits 9:8).
Dests == {"mstatus", "medeleg", "mideleg", "mie", "mip", "sstatus", "sie", "sip", "satp"}
           \cup (IF RVN THEN {"sedeleg", "sideleg", "ustatus", "uie", "uip"} ELSE {})
Level(dest) ==
  IF dest \in {"mstatus", "medeleg", "mideleg", "mie", "mip"} THEN M
  ELSE IF dest \in {"ustatus", "uie", "uip"} THEN U ELSE S

\* What an instruction may write to dest.
Flips == {bits \in SUBSET Writable : Cardinality(bits) <= MaxFlips}
Flipped(old, bits) == (old \ bits) \cup (bits \ old)
Words(dest) ==
  CASE dest = "mstatus" -> [bits : {Flipped(csr.mstatus, f) : f \in Flips}, mpp : MPPs]
    [] dest \in {"sstatus", "ustatus"} -> [bits : {Flipped(csr.mstatus, f) : f \in Flips}]
    [] dest \in {"mie", "sie", "uie", "mip", "sip", "uip", "mideleg", "sideleg"} -> SUBSET Irqs
    [] dest \in {"medeleg", "sedeleg"} -> SUBSET Exs
    [] OTHER -> SatpModes

\* Only Sv39 is supported: other modes are ignored.
SatpMode(src) == IF src \in {0, 8} THEN src ELSE csr.satp

csr_write(dest, src) ==
  CASE dest = "mstatus" -> [csr EXCEPT !.mstatus = src.bits, !.mpp = src.mpp]
    [] dest = "sstatus" -> [csr EXCEPT !.mstatus = mask_bitset(@, SSTATUS_WMASK, src.bits)]
    [] dest = "ustatus" -> [csr EXCEPT !.mstatus = mask_bitset(@, USTATUS_WMASK, src.bits)]
    [] dest = "mie" -> [csr EXCEPT !.mie = src]
    [] dest = "sie" -> [csr EXCEPT !.mie = mask_bitset(@, SIE_MASK, src)]
    [] dest = "uie" -> [csr EXCEPT !.mie = mask_bitset(@, UIE_MASK, src)]
    [] dest = "mip" -> [csr EXCEPT !.mip = src]
    [] dest = "sip" -> [csr EXCEPT !.mip = mask_bitset(@, IF mode = S THEN Bits({0, 1}) ELSE SIE_MASK, src)]
    [] dest = "uip" -> [csr EXCEPT !.mip = mask_bitset(@, IF mode = U THEN Bits({0}) ELSE UIE_MASK, src)]
    [] dest = "medeleg" -> [csr EXCEPT !.medeleg = src \cap MEDELEG_MASK]
    [] dest = "mideleg" -> [csr EXCEPT !.mideleg = src \cap MIDELEG_MASK]
    [] dest = "sedeleg" -> [csr EXCEPT !.sedeleg = src \cap csr.medeleg]
    [] dest = "sideleg" -> [csr EXCEPT !.sideleg = src \cap csr.mideleg]
    [] dest = "satp" -> [csr EXCEPT !.satp = SatpMode(src)]

\* mutant: sie and sip writes do not leave the execute loop
SetsFlagMachine(dest) == dest \in {"mstatus", "sstatus", "satp", "mie", "mip"}
\* Writes that set g_sys_state_flag.
SetsFlag(dest) ==
  dest \in {"mstatus", "sstatus", "satp", "mie", "sie", "mip", "sip", "ustatus", "uie", "uip"}

\* Software that writes a status register rewrites the frames in it.
Rewritten(dest) ==
  CASE dest = "mstatus" -> {U, S, M} [] dest = "sstatus" -> {U, S} [] dest = "ustatus" -> {U} [] OTHER -> {}

CsrWrite(dest, src) ==
  /\ phase = "run" /\ mode >= Level(dest)
  /\ csr' \in AfterInstr(csr_write(dest, src))
  /\ UNCHANGED <<mode, tval, pending>>
  /\ IF dest \in {"mstatus", "satp"} THEN update_mmu_state ELSE UNCHANGED mmu_state
  /\ saved' = [m \in {U, S, M} |-> IF m \in Rewritten(dest) THEN Nothing ELSE saved[m]]
  /\ Ends(SetsFlag(dest))

\* csr_is_legal: an access from too low a mode panics.
CsrPanic(dest) ==
  /\ phase = "run" /\ mode < Level(dest)
  /\ phase' = "panic"
  /\ UNCHANGED <<mode, csr, tval, mmu_state, pending, saved>>

\* Any other instruction.
Instr ==
  /\ phase = "run"
  /\ csr' \in AfterInstr(csr)
  /\ Ends(FALSE)
  /\ UNCHANGED <<mode, tval, mmu_state, pending, saved>>

Panicked == phase = "panic" /\ UNCHANGED vars

Init ==
  /\ build \in Builds
  /\ mode = M
  /\ csr = [mstatus |-> {}, mpp |-> U, mie |-> {}, mip |-> {}, medeleg |-> {}, mideleg |-> {},
            sedeleg |-> {}, sideleg |-> {}, satp |-> 0]
  /\ tval = [m \in {U, S, M} |-> 0]
  /\ ifetch_mmu_state = "DIRECT" /\ data_mmu_state = "DIRECT"
  /\ phase = "loop" /\ pending = None
  /\ saved = [m \in {U, S, M} |-> Nothing] /\ copied = FALSE

Step ==
  \/ HandleException \/ DropException \/ Resume \/ BatchEnd \/ UpdateClint \/ Instr
  \/ \E irq \in Irqs : TakeInterrupt(irq) \/ DifftestRaiseIntr(irq)
  \/ \E dut \in DutStates : DifftestRegcpy(dut)
  \/ \E ex \in Exs, addr \in Addrs, clobber \in BOOLEAN : Fault(ex, addr, clobber)
  \/ \E no \in EcallCauses : Ecall(no)
  \/ \E from \in {U, S, M} : XRet(from)
  \/ \E dest \in Dests : \E src \in Words(dest) : CsrWrite(dest, src)
  \/ \E dest \in Dests : CsrPanic(dest)
  \/ Panicked

Next == Step /\ UNCHANGED build

Spec == Init /\ [][Next]_vars
----------------------------------------------------------------------------
(* vaddr.c and mmu.c decide by two cached words whether to translate: they *)
(* agree with mode, mprv, mpp and satp after every trap, return and CSR    *)
(* write; only a state copied in by the host of a reference, which does    *)
(* not refresh them, may leave them stale, until the next refresh.         *)
MmuStateFresh ==
  ~ copied => /\ ifetch_mmu_state = update_mmu_state_internal(mode, csr, TRUE)
              /\ data_mmu_state = update_mmu_state_internal(mode, csr, FALSE)

(* The mode and the interrupt enable bit that a trap interrupted are kept  *)
(* in mstatus until its handler returns or software writes the field:      *)
(* traps into other modes and their returns, nested in any order, leave    *)
(* them alone.                                                             *)
TrapFramesKept ==
  \A m \in {U, S, M} : saved[m] # Nothing =>
    /\ saved[m].ie = (PIE(m) \in csr.mstatus)
    /\ m = U => saved[m].mode = U
    /\ m = S => saved[m].mode = IF "SPP" \in csr.mstatus THEN S ELSE U
    /\ m = M => saved[m].mode = csr.mpp

(* raise_intr never takes an exception, an interrupt or an ecall into a    *)
(* less privileged mode, and a return never into a more privileged one.    *)
TrapsNeverLower ==
  [][/\ HandleException \/ (\E irq \in Irqs : TakeInterrupt(irq) \/ DifftestRaiseIntr(irq))
          \/ (\E no \in EcallCauses : Ecall(no)) => mode' >= mode
     /\ (\E from \in {U, S, M} : XRet(from)) => mode' <= mode]_vars

(* isa_query_intr and raise_intr read the delegation registers in their    *)
(* own ways: an interrupt is taken into the mode whose enable bit was      *)
(* looked at.                                                              *)
QueryMatchesRaise == [][\A irq \in Irqs : TakeInterrupt(irq) => mode' = QueryMode(irq)]_vars

(* A handler starts with the interrupts of its mode masked: none that      *)
(* would be taken into the same mode again is enabled.                     *)
HandlerRunsMasked ==
  [][HandleException \/ (\E irq \in Irqs : TakeInterrupt(irq)) \/ (\E no \in EcallCauses : Ecall(no))
       => \A irq \in Candidates' : QueryMode(irq)' # mode']_vars

(* In the threaded engine an instruction that stays inside execute never   *)
(* enables a pending interrupt: the next loop of cpu_exec would notice it  *)
(* late.  Delegation writes (no flag) and the clock are the exceptions.    *)
NoSilentEnable ==
  [][PERF_OPT /\ phase = "run" /\ phase' = "run" /\ ~ UpdateClint
          /\ csr'.mideleg = csr.mideleg /\ csr'.sideleg = csr.sideleg
       => Candidates' \subseteq Candidates]_vars

(* The address of a fault is in the tval register of the mode whose        *)
(* handler runs: INTR_TVAL_REG, evaluated where the fault is found, and    *)
(* raise_intr, called after the longjmp, choose the same mode.             *)
TvalOfTrap ==
  [][HandleException /\ pending.no \in TvalEx => tval'[mode'] = pending.addr]_vars

(* check_permission: assert(mode == MODE_U || mode == MODE_S).             *)
TranslatesForUOrS ==
  ~ copied => /\ ifetch_mmu_state = "TRANSLATE" => EffectiveMode(mode, csr, TRUE) \in {U, S}
              /\ data_mmu_state = "TRANSLATE" => EffectiveMode(mode, csr, FALSE) \in {U, S}
=============================================================================
