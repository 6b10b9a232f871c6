----------------------------- MODULE TrapProofs -----------------------------
(***************************************************************************)
(* Proofs about Trap, for every choice of interrupts, exceptions, modes    *)
(* and build options.                                                      *)
(***************************************************************************)
EXTENDS Trap, TLAPS

(* Every build is configured for the interrupts, exceptions and status     *)
(* bits there are.                                                         *)
LEMMA BuildTyped ==
  ASSUME build \in Builds
  PROVE  Irqs \subseteq AllIrqs /\ Exs \subseteq AllExs /\ Writable \subseteq StatusBits
BY TrapAssumption DEF Irqs, Exs, Writable

(* A trap pushes the enable bit of the mode it is taken into.              *)
LEMMA TrapTyped ==
  ASSUME TypeOK, NEW no
  PROVE  /\ TrapMode(no) \in {U, S, M}
         /\ TrapCsr(TrapMode(no)) \in Csrs
<1>1. TrapMode(no) \in {U, S, M}
  BY DEF TrapMode
<1>2. csr \in Csrs /\ mode \in Modes
  BY DEF TypeOK
<1>3. CASE TrapMode(no) = U
  <2>1. Push(csr.mstatus, U) \in SUBSET StatusBits
    BY <1>2 DEF Push, IE, PIE, StatusBits, Csrs, U, S
  <2> QED BY <1>2, <1>3, <2>1 DEF TrapCsr, Csrs, U, S, M
<1>4. CASE TrapMode(no) = S
  <2>1. SetSpp(Push(csr.mstatus, S)) \in SUBSET StatusBits
    BY <1>2 DEF SetSpp, Push, IE, PIE, StatusBits, Csrs, U, S
  <2> QED BY <1>2, <1>4, <2>1 DEF TrapCsr, Csrs, U, S, M
<1>5. CASE TrapMode(no) = M
  <2>1. Push(csr.mstatus, M) \in SUBSET StatusBits
    BY <1>2 DEF Push, IE, PIE, StatusBits, Csrs, U, S, M
  <2>2. TrapCsr(M) = [csr EXCEPT !.mstatus = Push(csr.mstatus, M), !.mpp = mode]
    BY DEF TrapCsr, U, S, M
  <2>3. TrapCsr(M) \in Csrs
    BY <1>2, <2>1, <2>2 DEF Csrs
  <2> QED BY <1>5, <2>3
<1> QED BY <1>1, <1>3, <1>4, <1>5

(* The utimer of the plain engine only touches mip.                        *)
LEMMA AfterInstrTyped ==
  ASSUME build \in Builds, NEW c \in Csrs, NEW c2 \in AfterInstr(c)
  PROVE  /\ c2 \in Csrs
         /\ c2.mstatus = c.mstatus /\ c2.mpp = c.mpp /\ c2.satp = c.satp
<1>1. UEIP \subseteq AllIrqs
  BY BuildTyped DEF UEIP, Bits
<1>2. CASE RVN /\ ~ PERF_OPT
  <2>1. PICK ueip \in {{}, UEIP} : c2 = [c EXCEPT !.mip = (@ \ UEIP) \cup ueip]
    BY <1>2 DEF AfterInstr
  <2> QED BY <1>1, <2>1 DEF Csrs
<1>3. CASE ~ (RVN /\ ~ PERF_OPT)
  BY <1>3 DEF AfterInstr
<1> QED BY <1>2, <1>3

(* uret, sret and mret leave a well-formed status word.                    *)
LEMMA ReturnTyped ==
  ASSUME TypeOK, NEW from \in {U, S, M}
  PROVE  Returned(from) \in Csrs
<1>1. csr \in Csrs /\ U \in Modes
  BY DEF TypeOK, Modes
<1>2. Pop(csr.mstatus, from) \in SUBSET StatusBits
  BY <1>1 DEF Pop, IE, PIE, StatusBits, Csrs, U, S, M
<1> QED BY <1>1, <1>2 DEF Returned, Csrs, U, S, M

(* csr_write keeps every register within its writable bits.                *)
LEMMA WriteTyped ==
  ASSUME TypeOK, NEW dest \in Dests, NEW src \in Words(dest)
  PROVE  csr_write(dest, src) \in Csrs
<1>1. csr \in Csrs /\ Irqs \subseteq AllIrqs /\ Exs \subseteq AllExs
  BY BuildTyped DEF TypeOK
<1>2. MPPs \subseteq Modes /\ Writable \subseteq StatusBits
  BY BuildTyped DEF TypeOK, Modes
<1>3. ASSUME NEW old \in SUBSET StatusBits, NEW f \in Flips
      PROVE  Flipped(old, f) \in SUBSET StatusBits
  BY <1>2, <1>3 DEF Flipped, Flips
<1>4. ASSUME NEW old, NEW mask, NEW new, NEW X, old \subseteq X, new \subseteq X
      PROVE  mask_bitset(old, mask, new) \subseteq X
  BY <1>4 DEF mask_bitset
<1>5. CASE dest = "mstatus"
  <2>1. src \in [bits : SUBSET StatusBits, mpp : MPPs]
    BY <1>1, <1>3, <1>5 DEF Words, Csrs
  <2> QED BY <1>1, <1>2, <1>5, <2>1 DEF csr_write, Csrs
<1>6. CASE dest \in {"sstatus", "ustatus"}
  <2>1. src \in [bits : SUBSET StatusBits]
    BY <1>1, <1>3, <1>6 DEF Words, Csrs
  <2>2. ASSUME NEW mask PROVE mask_bitset(csr.mstatus, mask, src.bits) \in SUBSET StatusBits
    BY <1>1, <2>1 DEF Csrs, mask_bitset
  <2> QED BY <1>1, <1>6, <2>2 DEF csr_write, Csrs
<1>7. CASE dest \in {"mie", "sie", "uie", "mip", "sip", "uip", "mideleg", "sideleg"}
  <2>1. src \in SUBSET AllIrqs
    BY <1>1, <1>7 DEF Words
  <2>2. ASSUME NEW old \in SUBSET AllIrqs, NEW mask PROVE mask_bitset(old, mask, src) \in SUBSET AllIrqs
    BY <2>1 DEF mask_bitset
  <2> QED BY <1>1, <1>7, <2>1, <2>2 DEF csr_write, Csrs
<1>8. CASE dest \in {"medeleg", "sedeleg"}
  <2>1. src \in SUBSET AllExs
    BY <1>1, <1>8 DEF Words
  <2> QED BY <1>1, <1>8, <2>1 DEF csr_write, Csrs
<1>9. CASE dest = "satp"
  <2>1. SatpMode(src) \in {0, 8}
    BY <1>1 DEF SatpMode, Csrs
  <2> QED BY <1>1, <1>9, <2>1 DEF csr_write, Csrs
<1> QED BY <1>5, <1>6, <1>7, <1>8, <1>9 DEF Dests

(* What raise_intr assigns is well typed.                                  *)
LEMMA RaiseTyped ==
  ASSUME TypeOK, NEW no, raise_intr(no)
  PROVE  /\ mode' \in Modes
         /\ tval' \in [{U, S, M} -> Addrs \cup {0}]
         /\ ifetch_mmu_state' \in {"DIRECT", "TRANSLATE"}
         /\ data_mmu_state' \in {"DIRECT", "TRANSLATE"}
         /\ saved' \in [{U, S, M} -> [mode : Modes, ie : BOOLEAN] \cup {Nothing}]
         /\ copied' \in BOOLEAN
<1>1. TrapMode(no) \in {U, S, M}
  BY TrapTyped
<1>2. mode' \in Modes
  BY <1>1 DEF raise_intr, Modes
<1>3. tval' \in [{U, S, M} -> Addrs \cup {0}]
  BY <1>1 DEF raise_intr, TypeOK
<1>4. /\ ifetch_mmu_state' \in {"DIRECT", "TRANSLATE"}
      /\ data_mmu_state' \in {"DIRECT", "TRANSLATE"}
      /\ copied' \in BOOLEAN
  BY DEF raise_intr, update_mmu_state, update_mmu_state_internal
<1>5. saved' \in [{U, S, M} -> [mode : Modes, ie : BOOLEAN] \cup {Nothing}]
  <2>1. [mode |-> mode, ie |-> IE(TrapMode(no)) \in csr.mstatus] \in [mode : Modes, ie : BOOLEAN]
    BY DEF TypeOK
  <2> QED BY <1>1, <2>1 DEF raise_intr, TypeOK
<1> QED BY <1>2, <1>3, <1>4, <1>5

(* Every step keeps the types.                                             *)
LEMMA TypeStep ==
  ASSUME TypeOK, [Next]_vars
  PROVE  TypeOK'
<1> USE DEF TypeOK
<1>0. build' = build
  BY DEF Next, vars
<1> USE <1>0
<1>1. CASE HandleException
  <2>1. csr' \in Csrs
    BY <1>1, TrapTyped DEF HandleException
  <2>2. pending' \in {None} /\ phase' \in {"run", "loop"}
    BY <1>1 DEF HandleException
  <2>3. raise_intr(pending.no)
    BY <1>1 DEF HandleException
  <2> QED BY <2>1, <2>2, <2>3, RaiseTyped
<1>2. CASE DropException
  BY <1>2 DEF DropException, mmu_state
<1>3. CASE Resume \/ BatchEnd
  BY <1>3 DEF Resume, BatchEnd, mmu_state
<1>4. CASE UpdateClint
  <2>1. MTIP \subseteq AllIrqs
    BY BuildTyped DEF MTIP, Bits
  <2>2. csr' \in Csrs
    BY <1>4, <2>1 DEF UpdateClint, Csrs
  <2> QED BY <1>4, <2>2 DEF UpdateClint, mmu_state
<1>5. CASE Instr
  <2>1. csr' \in Csrs
    BY <1>5, AfterInstrTyped DEF Instr
  <2> QED BY <1>5, <2>1 DEF Instr, Ends, mmu_state
<1>6. ASSUME NEW irq \in Irqs, TakeInterrupt(irq) \/ DifftestRaiseIntr(irq)
      PROVE  TypeOK'
  <2>1. raise_intr(irq) /\ csr' = TrapCsr(TrapMode(irq)) /\ pending' = pending /\ phase' \in {"run", "loop"}
    BY <1>6 DEF TakeInterrupt, DifftestRaiseIntr
  <2>2. csr' \in Csrs
    BY <2>1, TrapTyped
  <2> QED BY <2>1, <2>2, RaiseTyped
<1>7. ASSUME NEW dut \in DutStates, DifftestRegcpy(dut)
      PROVE  TypeOK'
  <2>1. dut \in [mode : Modes, csr : Csrs]
    BY TrapAssumption
  <2> QED BY <1>7, <2>1 DEF DifftestRegcpy
<1>8. ASSUME NEW ex \in Exs, NEW addr \in Addrs, NEW clobber \in BOOLEAN, Fault(ex, addr, clobber)
      PROVE  TypeOK'
  <2>1. TvalReg(ex) \in {U, S, M}
    BY TrapTyped DEF TvalReg
  <2>2. tval' \in [{U, S, M} -> Addrs \cup {0}]
    BY <1>8, <2>1 DEF Fault
  <2>3. pending' \in [no : AllExs, addr : Addrs \cup {0}]
    BY <1>8, BuildTyped DEF Fault
  <2> QED BY <1>8, <2>2, <2>3 DEF Fault, mmu_state
<1>9. ASSUME NEW no \in EcallCauses, Ecall(no)
      PROVE  TypeOK'
  <2>1. raise_intr(no) /\ csr' \in AfterInstr(TrapCsr(TrapMode(no))) /\ pending' = pending
    BY <1>9 DEF Ecall
  <2>2. csr' \in Csrs
    BY <2>1, TrapTyped, AfterInstrTyped
  <2>3. phase' \in {"run", "loop"}
    BY <1>9 DEF Ecall, Ends
  <2> QED BY <2>1, <2>2, <2>3, RaiseTyped
<1>10. ASSUME NEW from \in {U, S, M}, XRet(from)
       PROVE  TypeOK'
  <2>1. csr' \in Csrs
    BY <1>10, ReturnTyped, AfterInstrTyped DEF XRet
  <2>2. mode' \in Modes
    BY <1>10 DEF XRet, Csrs, Modes
  <2>3. saved' \in [{U, S, M} -> [mode : Modes, ie : BOOLEAN] \cup {Nothing}]
    BY <1>10 DEF XRet
  <2> QED BY <1>10, <2>1, <2>2, <2>3 DEF XRet, Ends, update_mmu_state, update_mmu_state_internal
<1>11. ASSUME NEW dest \in Dests, NEW src \in Words(dest), CsrWrite(dest, src)
       PROVE  TypeOK'
  <2>1. csr' \in Csrs
    BY <1>11, WriteTyped, AfterInstrTyped DEF CsrWrite
  <2>2. saved' \in [{U, S, M} -> [mode : Modes, ie : BOOLEAN] \cup {Nothing}]
    BY <1>11 DEF CsrWrite
  <2>3. /\ ifetch_mmu_state' \in {"DIRECT", "TRANSLATE"}
        /\ data_mmu_state' \in {"DIRECT", "TRANSLATE"}
        /\ copied' \in BOOLEAN
    BY <1>11 DEF CsrWrite, update_mmu_state, update_mmu_state_internal, mmu_state
  <2> QED BY <1>11, <2>1, <2>2, <2>3 DEF CsrWrite, Ends
<1>12. ASSUME NEW dest \in Dests, CsrPanic(dest)
       PROVE  TypeOK'
  BY <1>12 DEF CsrPanic, mmu_state
<1>13. CASE Panicked \/ UNCHANGED vars
  BY <1>13 DEF Panicked, vars
<1> QED
  BY <1>1, <1>2, <1>3, <1>4, <1>5, <1>6, <1>7, <1>8, <1>9, <1>10, <1>11, <1>12, <1>13 DEF Next, Step

----------------------------------------------------------------------------
(* The cached translation words.                                           *)

(* A step that ends in update_mmu_state leaves them fresh, whatever it did *)
(* to the mode and the CSRs.                                               *)
LEMMA RefreshIsFresh ==
  ASSUME update_mmu_state
  PROVE  MmuStateFresh'
BY DEF update_mmu_state, MmuStateFresh

(* The words depend on mode, mstatus, mpp and satp alone.                  *)
LEMMA SameInputsSameWords ==
  ASSUME MmuStateFresh, UNCHANGED mmu_state, UNCHANGED mode,
         csr'.mstatus = csr.mstatus \/ (("MPRV" \in csr'.mstatus) <=> ("MPRV" \in csr.mstatus)),
         csr'.mpp = csr.mpp, csr'.satp = csr.satp
  PROVE  MmuStateFresh'
<1>1. \A ifetch \in BOOLEAN : EffectiveMode(mode, csr, ifetch)' = EffectiveMode(mode, csr, ifetch)
  BY DEF EffectiveMode
<1> QED BY <1>1 DEF MmuStateFresh, update_mmu_state_internal, EffectiveMode, mmu_state

(* Writes to registers other than mstatus and satp leave mprv, mpp and     *)
(* satp alone: neither SSTATUS_WMASK nor USTATUS_WMASK contains mprv.      *)
LEMMA OtherWritesKeepInputs ==
  ASSUME TypeOK, NEW dest \in Dests \ {"mstatus", "satp"}, NEW src \in Words(dest)
  PROVE  LET c == csr_write(dest, src)
         IN  /\ ("MPRV" \in c.mstatus) <=> ("MPRV" \in csr.mstatus)
             /\ c.mpp = csr.mpp /\ c.satp = csr.satp
<1>1. csr \in Csrs
  BY DEF TypeOK
<1>2. CASE dest = "sstatus"
  BY <1>1, <1>2 DEF csr_write, Csrs, mask_bitset, SSTATUS_WMASK
<1>3. CASE dest = "ustatus"
  BY <1>1, <1>3 DEF csr_write, Csrs, mask_bitset, USTATUS_WMASK
<1>4. CASE dest \notin {"sstatus", "ustatus"}
  BY <1>1, <1>4 DEF csr_write, Csrs, Dests
<1> QED BY <1>2, <1>3, <1>4

(* Every step refreshes the cached MMU states, or changes nothing they are *)
(* computed from, or is a copy by the host.                                *)
LEMMA MmuStateStep ==
  ASSUME TypeOK, MmuStateFresh, [Next]_vars
  PROVE  MmuStateFresh'
<1>0. csr \in Csrs /\ build \in Builds
  BY DEF TypeOK
<1>1. ASSUME NEW no, raise_intr(no)
      PROVE  MmuStateFresh'
  BY <1>1, RefreshIsFresh DEF raise_intr
<1>2. CASE HandleException
  BY <1>1, <1>2 DEF HandleException
<1>3. CASE DropException \/ Resume \/ BatchEnd
  BY <1>3, SameInputsSameWords DEF DropException, Resume, BatchEnd
<1>4. CASE UpdateClint
  <2>1. csr'.mstatus = csr.mstatus /\ csr'.mpp = csr.mpp /\ csr'.satp = csr.satp
    BY <1>0, <1>4 DEF UpdateClint, Csrs
  <2> QED BY <1>4, <2>1, SameInputsSameWords DEF UpdateClint
<1>5. CASE Instr
  <2>1. csr'.mstatus = csr.mstatus /\ csr'.mpp = csr.mpp /\ csr'.satp = csr.satp
    BY <1>0, <1>5, AfterInstrTyped DEF Instr
  <2> QED BY <1>5, <2>1, SameInputsSameWords DEF Instr
<1>6. ASSUME NEW irq \in Irqs, TakeInterrupt(irq) \/ DifftestRaiseIntr(irq)
      PROVE  MmuStateFresh'
  BY <1>1, <1>6 DEF TakeInterrupt, DifftestRaiseIntr
<1>7. ASSUME NEW dut \in DutStates, DifftestRegcpy(dut)
      PROVE  MmuStateFresh'
  BY <1>7 DEF DifftestRegcpy, MmuStateFresh
<1>8. ASSUME NEW ex \in Exs, NEW addr \in Addrs, NEW clobber \in BOOLEAN, Fault(ex, addr, clobber)
      PROVE  MmuStateFresh'
  BY <1>8, SameInputsSameWords DEF Fault
<1>9. ASSUME NEW no \in EcallCauses, Ecall(no)
      PROVE  MmuStateFresh'
  BY <1>1, <1>9 DEF Ecall
<1>10. ASSUME NEW from \in {U, S, M}, XRet(from)
       PROVE  MmuStateFresh'
  BY <1>10, RefreshIsFresh DEF XRet
<1>11. ASSUME NEW dest \in Dests, NEW src \in Words(dest), CsrWrite(dest, src)
       PROVE  MmuStateFresh'
  <2>1. CASE dest \in {"mstatus", "satp"}
    BY <1>11, <2>1, RefreshIsFresh DEF CsrWrite
  <2>2. CASE dest \notin {"mstatus", "satp"}
    <3>1. UNCHANGED mmu_state /\ UNCHANGED mode
      BY <1>11, <2>2 DEF CsrWrite
    <3>2. csr_write(dest, src) \in Csrs /\ csr' \in AfterInstr(csr_write(dest, src))
      BY <1>11, WriteTyped DEF CsrWrite
    <3>3. /\ csr'.mstatus = csr_write(dest, src).mstatus
          /\ csr'.mpp = csr_write(dest, src).mpp
          /\ csr'.satp = csr_write(dest, src).satp
      BY <1>0, <3>2, AfterInstrTyped
    <3>4. /\ ("MPRV" \in csr'.mstatus) <=> ("MPRV" \in csr.mstatus)
          /\ csr'.mpp = csr.mpp /\ csr'.satp = csr.satp
      BY <2>2, <3>3, OtherWritesKeepInputs
    <3> QED BY <3>1, <3>4, SameInputsSameWords
  <2> QED BY <2>1, <2>2
<1>12. ASSUME NEW dest \in Dests, CsrPanic(dest)
       PROVE  MmuStateFresh'
  BY <1>12, SameInputsSameWords DEF CsrPanic
<1>13. CASE Panicked \/ UNCHANGED vars
  BY <1>13, SameInputsSameWords DEF Panicked, vars, mmu_state
<1> QED
  BY <1>2, <1>3, <1>4, <1>5, <1>6, <1>7, <1>8, <1>9, <1>10, <1>11, <1>12, <1>13 DEF Next, Step

(* At reset, in M mode with satp clear, nothing is translated.             *)
LEMMA TrapInit ==
  ASSUME Init
  PROVE  TypeOK /\ MmuStateFresh
<1>1. csr \in Csrs
  BY DEF Init, Csrs, Modes
<1>2. TypeOK
  BY <1>1 DEF Init, TypeOK, Modes
<1> QED BY <1>2 DEF Init, MmuStateFresh, update_mmu_state_internal

(* The words that decide whether an access is translated are right after   *)
(* every trap, return and CSR write, for all CSR contents.                 *)
THEOREM MmuStateCorrect == Spec => [](TypeOK /\ MmuStateFresh)
<1>1. Init => TypeOK /\ MmuStateFresh
  BY TrapInit
<1>2. TypeOK /\ MmuStateFresh /\ [Next]_vars => TypeOK' /\ MmuStateFresh'
  BY TypeStep, MmuStateStep
<1> QED BY <1>1, <1>2, PTL DEF Spec

----------------------------------------------------------------------------
(* Delegation.                                                             *)

(* Interrupt and exception numbers do not overlap.                         *)
LEMMA IrqsAreNotExs == AllIrqs \cap AllExs = {}
<1>1. \A n \in DOMAIN Rank : n \notin 0 .. 25
  BY DEF Rank, Intr
<1> QED BY <1>1, TrapAssumption

(* isa_query_intr tests the enable bit of the mode raise_intr goes to.     *)
THEOREM QueryAgreesWithRaise == Spec => QueryMatchesRaise
<1>1. ASSUME TypeOK, NEW irq \in Irqs, TakeInterrupt(irq)
      PROVE  mode' = QueryMode(irq)
  <2>1. irq \notin csr.medeleg /\ irq \notin csr.sedeleg
    BY <1>1, IrqsAreNotExs, BuildTyped DEF TypeOK, Csrs
  <2>2. GlobalEnable(irq) /\ mode' = TrapMode(irq)
    BY <1>1 DEF TakeInterrupt, isa_query_intr, Candidates, raise_intr
  <2>3. mode \in 0 .. 3
    <3>1. mode \in Modes
      BY <1>1 DEF TypeOK
    <3>2. MPPs \subseteq 0 .. 3
      BY TrapAssumption
    <3> QED BY <3>1, <3>2 DEF Modes, U, S, M
  <2> QED BY <2>1, <2>2, <2>3 DEF GlobalEnable, QueryMode, TrapMode, intr_deleg_U, intr_deleg_S, U, S, M
<1>2. TypeOK => (\A irq \in Irqs : TakeInterrupt(irq) => mode' = QueryMode(irq))
  BY <1>1
<1> QED BY <1>2, MmuStateCorrect, PTL DEF QueryMatchesRaise

(* Without the reserved mode 2, the hart is in U, S or M.                  *)
LEMMA LegalMode ==
  ASSUME TypeOK, 2 \notin MPPs
  PROVE  mode \in {U, S, M} /\ csr.mpp \in {U, S, M}
<1>1. Modes \subseteq {U, S, M}
  BY TrapAssumption DEF Modes, U, S, M
<1> QED BY <1>1 DEF TypeOK, Csrs

(* A trap is never taken into a less privileged mode.                      *)
LEMMA TrapModeIsHigher ==
  ASSUME TypeOK, 2 \notin MPPs, NEW no
  PROVE  TrapMode(no) >= mode
<1>1. mode \in {U, S, M}
  BY LegalMode
<1> QED BY <1>1 DEF TrapMode, intr_deleg_U, intr_deleg_S, U, S, M

(* Traps never lower the privilege and returns never raise it, provided    *)
(* software does not write the reserved mode 2 to mstatus.mpp.             *)
THEOREM PrivilegeOrder ==
  ASSUME 2 \notin MPPs
  PROVE  Spec => TrapsNeverLower
<1>1. ASSUME TypeOK, NEW no, raise_intr(no)
      PROVE  mode' >= mode
  BY <1>1, TrapModeIsHigher DEF raise_intr
<1>2. ASSUME TypeOK,
             HandleException \/ (\E irq \in Irqs : TakeInterrupt(irq) \/ DifftestRaiseIntr(irq))
               \/ (\E no \in EcallCauses : Ecall(no))
      PROVE  mode' >= mode
  BY <1>1, <1>2 DEF HandleException, TakeInterrupt, DifftestRaiseIntr, Ecall
<1>3. ASSUME TypeOK, NEW from \in {U, S, M}, XRet(from)
      PROVE  mode' <= mode
  <2>1. mode \in {U, S, M} /\ csr.mpp \in {U, S, M}
    BY <1>3, LegalMode
  <2> QED BY <1>3, <2>1 DEF XRet, U, S, M
<1>4. TypeOK =>
        /\ HandleException \/ (\E irq \in Irqs : TakeInterrupt(irq) \/ DifftestRaiseIntr(irq))
             \/ (\E no \in EcallCauses : Ecall(no)) => mode' >= mode
        /\ (\E from \in {U, S, M} : XRet(from)) => mode' <= mode
  BY <1>2, <1>3
<1> QED BY <1>4, MmuStateCorrect, PTL DEF TrapsNeverLower

----------------------------------------------------------------------------
(* The address of a fault, between the longjmp and raise_intr.             *)

(* What the fault left behind still fits the trap it will become.          *)
FaultWaits ==
  pending # None =>
    /\ phase = "loop"
    /\ pending.no \in TvalEx => tval[TrapMode(pending.no)] = pending.addr

(* Between the place that raises a fault and the loop of cpu_exec nothing  *)
(* changes the delegation or the tval registers.                           *)
LEMMA FaultWaitsStep ==
  ASSUME TypeOK, FaultWaits, [Next]_vars
  PROVE  FaultWaits'
<1>0. build' = build
  BY DEF Next, vars
<1>1. CASE HandleException \/ DropException
  BY <1>1 DEF HandleException, DropException, FaultWaits
<1>2. CASE Resume \/ BatchEnd \/ Instr
  BY <1>2 DEF Resume, BatchEnd, Instr, FaultWaits
<1>3. CASE UpdateClint
  <2>1. /\ UNCHANGED <<pending, phase, tval, mode>>
        /\ csr'.medeleg = csr.medeleg /\ csr'.mideleg = csr.mideleg
        /\ csr'.sedeleg = csr.sedeleg /\ csr'.sideleg = csr.sideleg
    BY <1>3 DEF UpdateClint, TypeOK, Csrs
  <2>2. \A no : TrapMode(no)' = TrapMode(no)
    BY <1>0, <2>1 DEF TrapMode, intr_deleg_U, intr_deleg_S, RVN
  <2> QED BY <2>1, <2>2 DEF FaultWaits
<1>4. ASSUME NEW irq \in Irqs, TakeInterrupt(irq) \/ DifftestRaiseIntr(irq)
      PROVE  FaultWaits'
  BY <1>4 DEF TakeInterrupt, DifftestRaiseIntr, FaultWaits
<1>5. ASSUME NEW dut \in DutStates, DifftestRegcpy(dut)
      PROVE  FaultWaits'
  BY <1>5 DEF DifftestRegcpy, FaultWaits
<1>6. ASSUME NEW ex \in Exs, NEW addr \in Addrs, NEW clobber \in BOOLEAN, Fault(ex, addr, clobber)
      PROVE  FaultWaits'
  <2>1. phase' = "loop" /\ pending'.no = ex /\ (ex \in TvalEx => pending'.addr = addr)
    BY <1>6 DEF Fault
  <2>2. TrapMode(ex) \in {U, S, M} /\ TrapMode(ex)' = TrapMode(ex)
    BY <1>0, <1>6, TrapTyped DEF Fault, TrapMode, intr_deleg_U, intr_deleg_S, RVN
  <2>3. ex \in TvalEx => tval'[TrapMode(ex)] = addr
    BY <1>6, <2>2 DEF Fault, TvalReg, TypeOK
  <2> QED BY <2>1, <2>2, <2>3 DEF FaultWaits
<1>7. ASSUME NEW no \in EcallCauses, Ecall(no)
      PROVE  FaultWaits'
  BY <1>7 DEF Ecall, FaultWaits
<1>8. ASSUME NEW from \in {U, S, M}, XRet(from)
      PROVE  FaultWaits'
  BY <1>8 DEF XRet, FaultWaits
<1>9. ASSUME NEW dest \in Dests, NEW src \in Words(dest), CsrWrite(dest, src)
      PROVE  FaultWaits'
  BY <1>9 DEF CsrWrite, FaultWaits
<1>10. ASSUME NEW dest \in Dests, CsrPanic(dest)
       PROVE  FaultWaits'
  BY <1>10 DEF CsrPanic, FaultWaits
<1>11. CASE Panicked \/ UNCHANGED vars
  BY <1>11 DEF Panicked, vars, FaultWaits, TrapMode, intr_deleg_U, intr_deleg_S, RVN
<1> QED
  BY <1>1, <1>2, <1>3, <1>4, <1>5, <1>6, <1>7, <1>8, <1>9, <1>10, <1>11 DEF Next, Step

(* The handler of a fault finds the faulting address in its own tval.      *)
THEOREM TvalReachesHandler == Spec => TvalOfTrap
<1>1. Init => FaultWaits
  BY DEF Init, FaultWaits
<1>2. TypeOK /\ FaultWaits /\ [Next]_vars => FaultWaits'
  BY FaultWaitsStep
<1>3. TypeOK /\ FaultWaits => (HandleException /\ pending.no \in TvalEx => tval'[mode'] = pending.addr)
  BY DEF HandleException, raise_intr, FaultWaits
<1> QED BY <1>1, <1>2, <1>3, MmuStateCorrect, PTL DEF Spec, TvalOfTrap

----------------------------------------------------------------------------
(* What a trap saves in mstatus, until its handler returns.                *)

FrameKept(m) ==
  saved[m] # Nothing =>
    /\ saved[m].ie = (PIE(m) \in csr.mstatus)
    /\ m = U => saved[m].mode = U
    /\ m = S => saved[m].mode = IF "SPP" \in csr.mstatus THEN S ELSE U
    /\ m = M => saved[m].mode = csr.mpp

(* A frame stays while the fields that it is kept in do.                   *)
LEMMA FrameSame ==
  ASSUME NEW m \in {U, S, M}, FrameKept(m), saved'[m] = saved[m],
         PIE(m) \in csr'.mstatus <=> PIE(m) \in csr.mstatus,
         m = S => ("SPP" \in csr'.mstatus <=> "SPP" \in csr.mstatus),
         m = M => csr'.mpp = csr.mpp
  PROVE  FrameKept(m)'
BY DEF FrameKept, U, S, M, PIE

(* The bits of mstatus that raise_intr changes are those of the mode it    *)
(* goes to.                                                                *)
LEMMA TrapFrame ==
  ASSUME TypeOK, 2 \notin MPPs, \A m \in {U, S, M} : FrameKept(m), NEW no, raise_intr(no),
         csr'.mstatus = TrapCsr(TrapMode(no)).mstatus, csr'.mpp = TrapCsr(TrapMode(no)).mpp,
         build' = build
  PROVE  \A m \in {U, S, M} : FrameKept(m)'
<1> DEFINE to == TrapMode(no)
<1>1. to \in {U, S, M}
  BY TrapTyped
<1>2. csr \in Csrs /\ mode \in {U, S, M}
  BY LegalMode DEF TypeOK
<1>3. /\ saved'[to] = [mode |-> mode, ie |-> IE(to) \in csr.mstatus]
      /\ \A m \in {U, S, M} \ {to} : saved'[m] = saved[m]
  BY <1>1 DEF raise_intr, TypeOK
<1>4. CASE to = U
  <2>1. mode = U
    BY <1>4 DEF TrapMode, intr_deleg_U, U, S, M
  <2>2. csr'.mstatus = Push(csr.mstatus, U) /\ csr'.mpp = csr.mpp
    BY <1>2, <1>4 DEF TrapCsr, Csrs, U, S, M
  <2>3. FrameKept(U)'
    BY <1>3, <1>4, <2>1, <2>2 DEF FrameKept, Push, IE, PIE, U, S, M
  <2>4. FrameKept(S)' /\ FrameKept(M)'
    BY <1>3, <1>4, <2>2, FrameSame DEF Push, IE, PIE, U, S, M
  <2> QED BY <2>3, <2>4
<1>5. CASE to = S
  <2>1. mode \in {U, S}
    BY <1>2, <1>5 DEF TrapMode, intr_deleg_U, intr_deleg_S, U, S, M
  <2>2. csr'.mstatus = SetSpp(Push(csr.mstatus, S)) /\ csr'.mpp = csr.mpp
    BY <1>2, <1>5 DEF TrapCsr, Csrs, U, S, M
  <2>3. "SPP" \in csr'.mstatus <=> mode = S
    BY <2>1, <2>2 DEF SetSpp, Push, IE, PIE, U, S, M
  <2>4. PIE(S) \in csr'.mstatus <=> IE(S) \in csr.mstatus
    BY <2>2 DEF SetSpp, Push, IE, PIE, U, S, M
  <2>5. FrameKept(S)'
    BY <1>3, <1>5, <2>1, <2>3, <2>4 DEF FrameKept, U, S, M
  <2>6. FrameKept(U)' /\ FrameKept(M)'
    BY <1>3, <1>5, <2>2, FrameSame DEF SetSpp, Push, IE, PIE, U, S, M
  <2> QED BY <2>5, <2>6
<1>6. CASE to = M
  <2>0. TrapCsr(to) = [csr EXCEPT !.mstatus = Push(csr.mstatus, M), !.mpp = mode]
    BY <1>6 DEF TrapCsr, U, S, M
  <2>1. csr'.mstatus = Push(csr.mstatus, M) /\ csr'.mpp = mode
    BY <1>2, <2>0 DEF Csrs
  <2>2. FrameKept(M)'
    BY <1>3, <1>6, <2>1 DEF FrameKept, Push, IE, PIE, U, S, M
  <2>3. FrameKept(U)' /\ FrameKept(S)'
    BY <1>3, <1>6, <2>1, FrameSame DEF Push, IE, PIE, U, S, M
  <2> QED BY <2>2, <2>3
<1> QED BY <1>1, <1>4, <1>5, <1>6

(* A return gives up its own frame and leaves the others alone.            *)
LEMMA ReturnFrame ==
  ASSUME TypeOK, \A m \in {U, S, M} : FrameKept(m), NEW from \in {U, S, M}, XRet(from), build' = build
  PROVE  \A m \in {U, S, M} : FrameKept(m)'
<1>1. csr \in Csrs /\ Returned(from) \in Csrs /\ build \in Builds
  BY ReturnTyped DEF TypeOK
<1>2. csr'.mstatus = Returned(from).mstatus /\ csr'.mpp = Returned(from).mpp
  BY <1>1, AfterInstrTyped DEF XRet
<1>3. saved'[from] = Nothing /\ \A m \in {U, S, M} \ {from} : saved'[m] = saved[m]
  BY DEF XRet, TypeOK
<1>4. CASE from = U
  <2>1. csr'.mstatus = Pop(csr.mstatus, U) \ {"MPRV"} /\ csr'.mpp = csr.mpp
    BY <1>1, <1>2, <1>4 DEF Returned, Csrs, U, S, M
  <2>2. FrameKept(S)' /\ FrameKept(M)'
    BY <1>3, <1>4, <2>1, FrameSame DEF Pop, IE, PIE, U, S, M
  <2> QED BY <1>3, <1>4, <2>2 DEF FrameKept
<1>5. CASE from = S
  <2>1. csr'.mstatus = Pop(csr.mstatus, S) \ {"MPRV", "SPP"} /\ csr'.mpp = csr.mpp
    BY <1>1, <1>2, <1>5 DEF Returned, Csrs, U, S, M
  <2>2. FrameKept(U)' /\ FrameKept(M)'
    BY <1>3, <1>5, <2>1, FrameSame DEF Pop, IE, PIE, U, S, M
  <2> QED BY <1>3, <1>5, <2>2 DEF FrameKept
<1>6. CASE from = M
  <2> DEFINE left == Pop(csr.mstatus, M) \ (IF csr.mpp # M THEN {"MPRV"} ELSE {})
  <2>0. Returned(from) = [csr EXCEPT !.mstatus = left, !.mpp = U]
    BY <1>6 DEF Returned, U, S, M
  <2>1. csr'.mstatus = left
    <3> HIDE DEF left
    <3> QED BY <1>1, <1>2, <2>0 DEF Csrs
  <2>2. FrameKept(U)' /\ FrameKept(S)'
    BY <1>3, <1>6, <2>1, FrameSame DEF Pop, IE, PIE, U, S, M
  <2> QED BY <1>3, <1>6, <2>2 DEF FrameKept
<1> QED BY <1>4, <1>5, <1>6

(* Every step keeps the frames whose fields software does not write.       *)
LEMMA FramesStep ==
  ASSUME TypeOK, 2 \notin MPPs, \A m \in {U, S, M} : FrameKept(m), [Next]_vars
  PROVE  \A m \in {U, S, M} : FrameKept(m)'
<1>0. build' = build /\ csr \in Csrs /\ build \in Builds
  BY DEF Next, vars, TypeOK
<1>a. ASSUME csr'.mstatus = csr.mstatus, csr'.mpp = csr.mpp, saved' = saved
      PROVE  \A m \in {U, S, M} : FrameKept(m)'
  BY <1>a, FrameSame
<1>1. CASE HandleException
  BY <1>0, <1>1, TrapFrame DEF HandleException
<1>2. CASE DropException \/ Resume \/ BatchEnd
  BY <1>a, <1>2 DEF DropException, Resume, BatchEnd
<1>3. CASE UpdateClint
  <2>1. csr'.mstatus = csr.mstatus /\ csr'.mpp = csr.mpp /\ saved' = saved
    BY <1>0, <1>3 DEF UpdateClint, Csrs
  <2> QED BY <1>a, <2>1
<1>4. CASE Instr
  <2>1. csr'.mstatus = csr.mstatus /\ csr'.mpp = csr.mpp /\ saved' = saved
    BY <1>0, <1>4, AfterInstrTyped DEF Instr
  <2> QED BY <1>a, <2>1
<1>5. ASSUME NEW irq \in Irqs, TakeInterrupt(irq) \/ DifftestRaiseIntr(irq)
      PROVE  \A m \in {U, S, M} : FrameKept(m)'
  BY <1>0, <1>5, TrapFrame DEF TakeInterrupt, DifftestRaiseIntr
<1>6. ASSUME NEW dut \in DutStates, DifftestRegcpy(dut)
      PROVE  \A m \in {U, S, M} : FrameKept(m)'
  BY <1>6 DEF DifftestRegcpy, FrameKept
<1>7. ASSUME NEW ex \in Exs, NEW addr \in Addrs, NEW clobber \in BOOLEAN, Fault(ex, addr, clobber)
      PROVE  \A m \in {U, S, M} : FrameKept(m)'
  BY <1>a, <1>7 DEF Fault
<1>8. ASSUME NEW no \in EcallCauses, Ecall(no)
      PROVE  \A m \in {U, S, M} : FrameKept(m)'
  <2>1. csr'.mstatus = TrapCsr(TrapMode(no)).mstatus /\ csr'.mpp = TrapCsr(TrapMode(no)).mpp
    BY <1>0, <1>8, AfterInstrTyped, TrapTyped DEF Ecall
  <2> QED BY <1>0, <1>8, <2>1, TrapFrame DEF Ecall
<1>9. ASSUME NEW from \in {U, S, M}, XRet(from)
      PROVE  \A m \in {U, S, M} : FrameKept(m)'
  BY <1>0, <1>9, ReturnFrame
<1>10. ASSUME NEW dest \in Dests, NEW src \in Words(dest), CsrWrite(dest, src)
       PROVE  \A m \in {U, S, M} : FrameKept(m)'
  <2> DEFINE c == csr_write(dest, src)
  <2>1. c \in Csrs
    BY <1>10, WriteTyped
  <2>2. csr'.mstatus = c.mstatus /\ csr'.mpp = c.mpp
    BY <1>0, <1>10, <2>1, AfterInstrTyped DEF CsrWrite
  <2>3. \A m \in {U, S, M} : saved'[m] = IF m \in Rewritten(dest) THEN Nothing ELSE saved[m]
    BY <1>10 DEF CsrWrite
  <2>4. CASE dest = "mstatus"
    BY <2>3, <2>4 DEF Rewritten, FrameKept
  <2>5. CASE dest = "sstatus"
    <3>1. /\ c.mstatus = mask_bitset(csr.mstatus, SSTATUS_WMASK, src.bits)
          /\ c.mpp = csr.mpp
      BY <1>0, <2>5 DEF csr_write, Csrs
    <3>2. saved'[U] = Nothing /\ saved'[S] = Nothing /\ saved'[M] = saved[M]
      BY <2>3, <2>5 DEF Rewritten, U, S, M
    <3>3. FrameKept(M)'
      BY <2>2, <3>1, <3>2, FrameSame DEF mask_bitset, SSTATUS_WMASK, PIE, U, S, M
    <3> QED BY <3>2, <3>3 DEF FrameKept
  <2>6. CASE dest = "ustatus"
    <3>1. /\ c.mstatus = mask_bitset(csr.mstatus, USTATUS_WMASK, src.bits)
          /\ c.mpp = csr.mpp
      BY <1>0, <2>6 DEF csr_write, Csrs
    <3>2. saved'[U] = Nothing /\ saved'[S] = saved[S] /\ saved'[M] = saved[M]
      BY <2>3, <2>6 DEF Rewritten, U, S, M
    <3>3. FrameKept(S)' /\ FrameKept(M)'
      BY <2>2, <3>1, <3>2, FrameSame DEF mask_bitset, USTATUS_WMASK, PIE, U, S, M
    <3> QED BY <3>2, <3>3 DEF FrameKept
  <2>7. CASE dest \notin {"mstatus", "sstatus", "ustatus"}
    <3>1. c.mstatus = csr.mstatus /\ c.mpp = csr.mpp
      BY <1>0, <2>7 DEF csr_write, Csrs, Dests
    <3>2. \A m \in {U, S, M} : saved'[m] = saved[m]
      BY <2>3, <2>7 DEF Rewritten
    <3> QED BY <2>2, <3>1, <3>2, FrameSame
  <2> QED BY <2>4, <2>5, <2>6, <2>7
<1>11. ASSUME NEW dest \in Dests, CsrPanic(dest)
       PROVE  \A m \in {U, S, M} : FrameKept(m)'
  BY <1>a, <1>11 DEF CsrPanic
<1>12. CASE Panicked \/ UNCHANGED vars
  BY <1>a, <1>12 DEF Panicked, vars
<1> QED
  BY <1>1, <1>2, <1>3, <1>4, <1>5, <1>6, <1>7, <1>8, <1>9, <1>10, <1>11, <1>12 DEF Next, Step

(* However traps into U, S and M are nested, the mode and the enable bit   *)
(* that each interrupted are found in mstatus by its return, provided      *)
(* software does not write the reserved mode 2 to mstatus.mpp.             *)
THEOREM FramesKept ==
  ASSUME 2 \notin MPPs
  PROVE  Spec => []TrapFramesKept
<1> DEFINE Kept == \A m \in {U, S, M} : FrameKept(m)
<1>1. Init => Kept
  BY DEF Init, FrameKept
<1>2. TypeOK /\ Kept /\ [Next]_vars => Kept'
  BY FramesStep
<1>3. Kept => TrapFramesKept
  BY DEF FrameKept, TrapFramesKept
<1> HIDE DEF Kept
<1> QED BY <1>1, <1>2, <1>3, MmuStateCorrect, PTL DEF Spec

----------------------------------------------------------------------------
(* Interrupts that are enabled.                                            *)

(* raise_intr clears the enable bit of the mode that it goes to.           *)
LEMMA TrapMasks ==
  ASSUME TypeOK, NEW no
  PROVE  IE(TrapMode(no)) \notin TrapCsr(TrapMode(no)).mstatus
<1>1. TrapMode(no) \in {U, S, M} /\ csr \in Csrs
  BY TrapTyped DEF TypeOK
<1>2. CASE TrapMode(no) = U
  <2>1. TrapCsr(U).mstatus = Push(csr.mstatus, U)
    BY <1>1 DEF TrapCsr, Csrs, U, S, M
  <2> QED BY <1>2, <2>1 DEF Push, IE, PIE, U, S, M
<1>3. CASE TrapMode(no) = S
  <2>1. TrapCsr(S).mstatus = SetSpp(Push(csr.mstatus, S))
    BY <1>1 DEF TrapCsr, Csrs, U, S, M
  <2> QED BY <1>3, <2>1 DEF SetSpp, Push, IE, PIE, U, S, M
<1>4. CASE TrapMode(no) = M
  <2>1. TrapCsr(M) = [csr EXCEPT !.mstatus = Push(csr.mstatus, M), !.mpp = mode]
    BY DEF TrapCsr, U, S, M
  <2>2. TrapCsr(M).mstatus = Push(csr.mstatus, M)
    BY <1>1, <2>1 DEF Csrs
  <2> QED BY <1>4, <2>2 DEF Push, IE, PIE, U, S, M
<1> QED BY <1>1, <1>2, <1>3, <1>4

(* A handler starts with the interrupts of its own mode masked, whatever   *)
(* is pending, enabled and delegated.                                      *)
THEOREM HandlersMasked == Spec => HandlerRunsMasked
<1>1. ASSUME TypeOK, NEW no, mode' = TrapMode(no), IE(TrapMode(no)) \notin csr'.mstatus
      PROVE  \A irq \in Candidates' : QueryMode(irq)' # mode'
  <2> SUFFICES ASSUME NEW irq \in Candidates', QueryMode(irq)' = mode' PROVE FALSE
    OBVIOUS
  <2>1. GlobalEnable(irq)'
    BY DEF Candidates
  <2>2. mode' \in {U, S, M}
    BY <1>1, TrapTyped
  <2>3. IE(mode)' \in csr'.mstatus
    BY <2>1, <2>2 DEF GlobalEnable, U, S, M
  <2>4. IE(mode)' = IE(TrapMode(no))
    BY <1>1 DEF IE
  <2> QED BY <1>1, <2>3, <2>4
<1>2. ASSUME TypeOK, HandleException \/ \E irq \in Irqs : TakeInterrupt(irq)
      PROVE  \A irq \in Candidates' : QueryMode(irq)' # mode'
  <2>1. PICK no : csr' = TrapCsr(TrapMode(no)) /\ mode' = TrapMode(no)
    BY <1>2 DEF HandleException, TakeInterrupt, raise_intr
  <2> QED BY <1>1, <1>2, <2>1, TrapMasks
<1>3. ASSUME TypeOK, NEW no \in EcallCauses, Ecall(no)
      PROVE  \A irq \in Candidates' : QueryMode(irq)' # mode'
  <2>1. csr'.mstatus = TrapCsr(TrapMode(no)).mstatus /\ mode' = TrapMode(no)
    BY <1>3, TrapTyped, AfterInstrTyped DEF Ecall, raise_intr, TypeOK
  <2> QED BY <1>1, <1>3, <2>1, TrapMasks
<1>4. TypeOK =>
        (HandleException \/ (\E irq \in Irqs : TakeInterrupt(irq)) \/ (\E no \in EcallCauses : Ecall(no))
           => \A irq \in Candidates' : QueryMode(irq)' # mode')
  BY <1>2, <1>3
<1> QED BY <1>4, MmuStateCorrect, PTL DEF HandlerRunsMasked

(* Which interrupts are enabled depends on a few registers only.           *)
LEMMA SameInputsSameCandidates ==
  ASSUME build' = build, mode' = mode, csr'.mstatus = csr.mstatus, csr'.mie = csr.mie, csr'.mip = csr.mip,
         csr'.mideleg = csr.mideleg, csr'.sideleg = csr.sideleg
  PROVE  Candidates' = Candidates
<1>1. \A irq : QueryMode(irq)' = QueryMode(irq)
  BY DEF QueryMode, RVN
<1>2. \A irq : GlobalEnable(irq)' = GlobalEnable(irq)
  BY <1>1 DEF GlobalEnable, IE
<1> QED BY <1>2 DEF Candidates

(* In the threaded engine every instruction that may enable an interrupt   *)
(* sets the flag that ends its batch; writes of the delegation registers   *)
(* and the clock apart.                                                    *)
THEOREM EnablesAreSeen == Spec => NoSilentEnable
<1>1. ASSUME TypeOK, Next, PERF_OPT, phase = "run", phase' = "run", ~ UpdateClint,
             csr'.mideleg = csr.mideleg, csr'.sideleg = csr.sideleg
      PROVE  Candidates' \subseteq Candidates
  <2>0. build' = build /\ build \in Builds /\ csr \in Csrs /\ AfterInstr(csr) = {csr}
    BY <1>1 DEF Next, TypeOK, AfterInstr
  <2>1. CASE Instr
    BY <1>1, <2>0, <2>1, SameInputsSameCandidates DEF Instr
  <2>2. ASSUME NEW dest \in Dests, NEW src \in Words(dest), CsrWrite(dest, src)
        PROVE  Candidates' \subseteq Candidates
    <3>1. dest \in {"medeleg", "mideleg", "sedeleg", "sideleg"} /\ mode' = mode
      BY <1>1, <2>2 DEF CsrWrite, Ends, SetsFlag, Dests
    <3>2. csr' = csr_write(dest, src)
      BY <1>1, <2>2 DEF CsrWrite, AfterInstr
    <3>3. csr'.mstatus = csr.mstatus /\ csr'.mie = csr.mie /\ csr'.mip = csr.mip
      BY <2>0, <3>1, <3>2 DEF csr_write, Csrs
    <3> QED BY <1>1, <2>0, <3>1, <3>3, SameInputsSameCandidates
  <2>3. CASE HandleException \/ DropException \/ Resume \/ BatchEnd \/ Panicked
    BY <1>1, <2>3 DEF HandleException, DropException, Resume, BatchEnd, Panicked
  <2>4. ~ \E irq \in Irqs : TakeInterrupt(irq) \/ DifftestRaiseIntr(irq)
    BY <1>1 DEF TakeInterrupt, DifftestRaiseIntr
  <2>5. /\ ~ \E dut \in DutStates : DifftestRegcpy(dut)
        /\ ~ \E ex \in Exs, addr \in Addrs, clobber \in BOOLEAN : Fault(ex, addr, clobber)
        /\ ~ \E dest \in Dests : CsrPanic(dest)
    BY <1>1 DEF DifftestRegcpy, Fault, CsrPanic
  <2>6. /\ ~ \E no \in EcallCauses : Ecall(no)
        /\ ~ \E from \in {U, S, M} : XRet(from)
    BY <1>1 DEF Ecall, XRet, Ends
  <2> QED BY <1>1, <2>1, <2>2, <2>3, <2>4, <2>5, <2>6 DEF Next, Step
<1>2. TypeOK /\ [Next]_vars =>
        [PERF_OPT /\ phase = "run" /\ phase' = "run" /\ ~ UpdateClint
           /\ csr'.mideleg = csr.mideleg /\ csr'.sideleg = csr.sideleg
           => Candidates' \subseteq Candidates]_vars
  BY <1>1
<1> QED BY <1>2, MmuStateCorrect, PTL DEF Spec, NoSilentEnable
=============================================================================
