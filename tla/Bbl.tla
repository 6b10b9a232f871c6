--------------------------------- MODULE Bbl ---------------------------------
\* resource/bbl: the machine-mode firmware. It serves the supervisor's calls,
\* performs misaligned loads and stores a byte at a time and accesses to counters
\* on behalf of the program, and hands every other trap to the supervisor. The
\* build is rv64gc, so the emulation of floating point and of mul/div is left out
\* by the preprocessor. A register is a sequence of bytes, the low byte first.
EXTENDS Integers, Sequences, SequencesExt, Bits

CONSTANTS Addrs,     \* bound: the addresses of misaligned accesses
          Page,      \* bound: bytes of a page; memory is two pages
          CsrValues  \* bound: the low byte of counters and of operands

VARIABLES
  at,                \* "program", "supervisor" (its trap handler was entered), "get_insn",
                     \* "load", "store" or "dead"
  x, mem,            \* the program's registers and memory
  denied, page,      \* the addresses that fault, and whether as a page fault
  slot0,             \* the save slot of x0 in the trap frame
  csr,               \* the control registers
  h,                 \* the locals of the handler
  before             \* the program when it trapped

vars == <<at, x, mem, denied, page, slot0, csr, h, before>>

XLEN == 8            \* bytes of a register
Regs == {1, 8, 10, 17}
Operands == {1, 8}
Zero == [i \in 1 .. XLEN |-> 0]
Code == 100
stvec == 40
U == 0
S == 1
M == 3
Fetch == [page |-> 12, access |-> 1]
Load == [page |-> 13, access |-> 5]
Store == [page |-> 15, access |-> 7]
Cause(kind) == IF page THEN kind.page ELSE kind.access

\* Instructions. field is bits 11:7: the destination of a load, part of the
\* offset of a store.
Loads ==
  [op : {"lw", "ld", "lwu", "lh", "lhu", "fld"}, r : Operands, field : {1}]
    \cup [op : {"lw"}, r : {0}, field : {1}] \cup [op : {"c.ldsp", "c.lwsp"}, r : Operands, field : {1}]
    \cup [op : {"c.ld", "c.lw"}, r : {8}, field : {1}]
Stores ==
  [op : {"sw", "sd", "sh", "fsd"}, r : Operands \cup {0}, field : {1}]
    \cup [op : {"c.sdsp", "c.swsp"}, r : Operands \cup {0}, field : {0, 1}]
    \cup [op : {"c.sd", "c.sw"}, r : {8}, field : {1}]
IsLoad(insn) == insn.op \in {"lw", "ld", "lwu", "lh", "lhu", "fld", "c.ldsp", "c.lwsp", "c.ld", "c.lw"}
IsStore(insn) == insn.op \in {"sw", "sd", "sh", "fsd", "c.sdsp", "c.swsp", "c.sd", "c.sw"}
Csrs == {"cycle", "time", "instret", "mhpmcounter3", "mhpmevent3", "other"}
CsrInsns == [op : {"csr"}, csr : Csrs, rm : 0 .. 7, rs1 : {0, 1}, rd : {8}]
Compressed(insn) == insn.op \in {"c.ldsp", "c.lwsp", "c.ld", "c.lw", "c.sdsp", "c.swsp", "c.sd", "c.sw"}
insn_len(insn) == IF Compressed(insn) THEN 2 ELSE 4

AtAddr(a) == [addr |-> a]          \* what mbadaddr and sbadaddr hold
OfInsn(insn) == [insn |-> insn]

NoInsn == [op |-> "none"]
Idle == [insn |-> NoInsn, mstatus |-> <<>>, mepc |-> 0, addr |-> 0, i |-> 0, val |-> <<>>]

----------------------------------------------------------------------------
\* mret, and the way out of the firmware: restore_mscratch and restore_regs.
Mret(c) == [c EXCEPT !.prv = c.mstatus.mpp, !.pc = c.mepc, !.mstatus.mpp = U,
                     !.mstatus.mprv = @ /\ c.mstatus.mpp = M]

\* redirect_trap: the supervisor sees the trap as if it had been delegated.
Redirected_spp(ms) ==
  [ms EXCEPT !.spp = S, !.spie = ms.sie, !.sie = FALSE, !.mpp = IF @ = M THEN M ELSE S]
Redirected(ms) ==
  [ms EXCEPT !.spp = ms.mpp % 2, !.spie = ms.sie, !.sie = FALSE, !.mpp = IF @ = M THEN M ELSE S]

redirect_trap(c, epc, ms, badaddr) ==
  /\ csr' = Mret([c EXCEPT !.sbadaddr = badaddr, !.sepc = epc, !.scause = c.mcause,
                           !.mepc = stvec, !.mstatus = Redirected(ms)])
  /\ at' = "supervisor" /\ h' = Idle

truly_illegal_insn(c, mepc, ms, insn) == redirect_trap(c, mepc, ms, OfInsn(insn))

bad_trap ==
  /\ at' = "dead" /\ h' = Idle /\ UNCHANGED csr

\* A fault of a load or store that the firmware makes with MPRV set: the trap
\* table entry for traps from machine mode. In a1, a2 and a3 are the bits that
\* were set in mstatus, the program's pc and its mstatus.
Nested(kind, badaddr) ==
  [csr EXCEPT !.mcause = Cause(kind), !.mepc = 0, !.mbadaddr = AtAddr(badaddr), !.mstatus.mpp = M,
              !.mstatus.mprv = TRUE]

machine_page_fault(c, a1, a2, a3) ==
  CASE ~ c.mstatus.mprv -> bad_trap
    [] c.mstatus.mprv /\ a1 = "mprv_mxr" ->
         IF c.mcause \in {Load.page, Load.access}
         THEN redirect_trap([c EXCEPT !.mcause = Cause(Fetch)], a2, a3, c.mbadaddr)
         ELSE bad_trap
    [] c.mstatus.mprv /\ a1 = "mprv" -> redirect_trap(c, a2, a3, c.mbadaddr)

----------------------------------------------------------------------------
\* The trap vector saves the registers and zeroes the slot of x0. Before a trap
\* the program may have done anything; every trap starts from the same values of
\* registers and memory.

Regs0 == [r \in Regs |-> [i \in 1 .. XLEN |-> (50 * r + i) % 256]]
Mem0 == [a \in 0 .. 2 * Page - 1 |-> (a * 37 + 129) % 256]

Frame(r) == IF r = 0 THEN slot0 ELSE x[r]

trap_vector ==
  slot0' = Zero

Nothing == [cause |-> 0]
Running ==
  [prv |-> S, pc |-> Code, ssip |-> FALSE,
   mstatus |-> [mpp |-> U, spp |-> U, spie |-> FALSE, sie |-> FALSE, mprv |-> FALSE, mxr |-> FALSE]]

MayTrap == at = "program" /\ before = Nothing

Trapped(prv, sie, mcause, mbadaddr, insn, counters, ys) ==
  LET ms == [mpp |-> prv, spp |-> U, spie |-> FALSE, sie |-> sie, mprv |-> FALSE, mxr |-> FALSE]
  IN  /\ x' = ys /\ mem' = Mem0
      /\ trap_vector
      /\ csr' = [prv |-> M, pc |-> 0, mstatus |-> ms, mepc |-> Code, mcause |-> mcause, mbadaddr |-> mbadaddr,
                 sepc |-> 0, scause |-> 0, sbadaddr |-> mbadaddr, ssip |-> counters.ssip,
                 counter |-> counters.counter, scounteren |-> counters.scounteren]
      /\ before' = [prv |-> prv, sie |-> sie, cause |-> mcause, badaddr |-> mbadaddr, insn |-> insn, x |-> ys,
                    csr |-> counters]

NoCounters == [ssip |-> FALSE, counter |-> Zero, scounteren |-> FALSE]

MisalignedTrap ==
  /\ MayTrap
  /\ \E prv \in {U, S}, sie \in BOOLEAN, addr \in Addrs, d \in SUBSET {0, 1, Code} :
       \E p \in IF d = {} THEN {FALSE} ELSE BOOLEAN, insn \in Loads \cup Stores :
         /\ Trapped(prv, sie, IF IsLoad(insn) THEN 4 ELSE 6, AtAddr(addr), insn, NoCounters, Regs0)
         /\ denied' = d /\ page' = p
         /\ at' = "get_insn" /\ h' = Idle

\* illegal_insn_trap takes the instruction from mbadaddr; if the hart wrote 0
\* there it loads it from memory.
IllegalTrap ==
  /\ MayTrap
  /\ \E prv \in {U, S}, insn \in CsrInsns, told \in BOOLEAN, v \in CsrValues, w \in CsrValues, en \in BOOLEAN :
       /\ Trapped(prv, TRUE, 2, OfInsn(IF told THEN insn ELSE NoInsn), insn,
                  [ssip |-> FALSE, counter |-> [Zero EXCEPT ![1] = v], scounteren |-> en],
                  [Regs0 EXCEPT ![1] = [Zero EXCEPT ![1] = w]])
       /\ \E d \in IF told THEN {{}} ELSE {{}, {Code}} : denied' = d
       /\ page' = FALSE
       /\ at' = "get_insn" /\ h' = Idle

\* pmp_trap: an access fault of the program itself.
PmpTrap ==
  /\ MayTrap
  /\ \E prv \in {U, S}, sie \in BOOLEAN, cause \in {1, 5, 7}, addr \in Addrs :
       /\ Trapped(prv, sie, cause, AtAddr(addr), NoInsn, NoCounters, Regs0)
       /\ denied' = {} /\ page' = FALSE
       /\ at' = "pmp" /\ h' = Idle

pmp_trap ==
  /\ at = "pmp"
  /\ redirect_trap(csr, csr.mepc, csr.mstatus, csr.mbadaddr)
  /\ UNCHANGED <<x, mem, denied, page, slot0, before>>

----------------------------------------------------------------------------
\* get_insn: loads the instruction with MPRV and MXR set.
Faults(a) == (a \div Page) \in denied

\* What the handlers know of a load or store; <<>> if they do not emulate it.
LoadOf(insn) ==
  CASE insn.op \in {"lw", "c.lw"} -> [len |-> 4, signed |-> TRUE]
    [] insn.op = "c.lwsp" /\ insn.field # 0 -> [len |-> 4, signed |-> TRUE]
    [] insn.op \in {"ld", "c.ld"} -> [len |-> 8, signed |-> TRUE]
    [] insn.op = "c.ldsp" /\ insn.field # 0 -> [len |-> 8, signed |-> TRUE]
    [] insn.op = "lwu" -> [len |-> 4, signed |-> FALSE]
    [] insn.op = "lh" -> [len |-> 2, signed |-> TRUE]
    [] insn.op = "lhu" -> [len |-> 2, signed |-> FALSE]
    [] OTHER -> [len |-> 0, signed |-> FALSE]
StoreOf(insn) ==
  CASE insn.op \in {"sw", "c.sw"} -> 4
    [] insn.op = "c.swsp" /\ insn.field # 0 -> 4
    [] insn.op \in {"sd", "c.sd"} -> 8
    [] insn.op = "c.sdsp" /\ insn.field # 0 -> 8
    [] insn.op = "sh" -> 2
    [] OTHER -> 0

Known(insn) == IF IsLoad(insn) THEN LoadOf(insn).len > 0 ELSE StoreOf(insn) > 0

misaligned_get_insn ==
  LET c == Nested(Load, Code)
      insn == before.insn
  IN  /\ at = "get_insn" /\ csr.mcause \in {4, 6}
      /\ IF Code \in denied
         THEN machine_page_fault(c, "mprv_mxr", csr.mepc, csr.mstatus)
         ELSE IF Known(insn)
         THEN /\ at' = IF csr.mcause = 4 THEN "load" ELSE "store"
              /\ h' = [insn |-> insn, mstatus |-> csr.mstatus, mepc |-> csr.mepc, addr |-> csr.mbadaddr.addr, i |-> 0,
                       val |-> IF csr.mcause = 4 THEN <<>> ELSE Frame(insn.r)]
              /\ UNCHANGED csr
         ELSE truly_illegal_insn([csr EXCEPT !.mcause = IF @ = 4 THEN Load.access ELSE Store.access],
                                 csr.mepc, csr.mstatus, insn)
      /\ UNCHANGED <<x, mem, denied, page, slot0, before>>

\* One byte: load_uint8_t and store_uint8_t set MPRV for one access.
ByteFaults(kind) ==
  /\ Faults(h.addr + h.i)
  /\ machine_page_fault(Nested(kind, h.addr + h.i), "mprv", h.mepc, h.mstatus)

Leave(c) ==
  /\ csr' = Mret([c EXCEPT !.mepc = h.mepc + insn_len(h.insn)])
  /\ at' = "program" /\ h' = Idle

load_uint8_t ==
  /\ at = "load" /\ h.i < LoadOf(h.insn).len
  /\ \/ ByteFaults(Load)
     \/ /\ ~ Faults(h.addr + h.i)
        /\ h' = [h EXCEPT !.i = @ + 1, !.val = Append(@, mem[h.addr + h.i])]
        /\ UNCHANGED <<at, csr>>
  /\ UNCHANGED <<x, mem, denied, page, slot0, before>>

\* intx << shift >> shift, and SET_RD.
Extended(val, signed) ==
  [i \in 1 .. XLEN |-> IF i <= Len(val) THEN val[i] ELSE IF signed /\ Last(val) >= 128 THEN 255 ELSE 0]

misaligned_load_trap ==
  LET result == Extended(h.val, LoadOf(h.insn).signed)
  IN  /\ at = "load" /\ h.i = LoadOf(h.insn).len
      /\ IF h.insn.r = 0 THEN slot0' = result /\ UNCHANGED x
                         ELSE x' = [x EXCEPT ![h.insn.r] = result] /\ UNCHANGED slot0
      /\ Leave(csr)
      /\ UNCHANGED <<mem, denied, page, before>>

store_uint8_t ==
  /\ at = "store" /\ h.i < StoreOf(h.insn)
  /\ \/ ByteFaults(Store) /\ UNCHANGED mem
     \/ /\ ~ Faults(h.addr + h.i)
        /\ mem' = [mem EXCEPT ![h.addr + h.i] = h.val[h.i + 1]]
        /\ h' = [h EXCEPT !.i = @ + 1]
        /\ UNCHANGED <<at, csr>>
  /\ UNCHANGED <<x, denied, page, slot0, before>>

misaligned_store_trap ==
  /\ at = "store" /\ h.i = StoreOf(h.insn)
  /\ Leave(csr)
  /\ UNCHANGED <<x, mem, denied, page, slot0, before>>
----------------------------------------------------------------------------
\* illegal_insn_trap: of the table only the system opcode is emulated in this
\* build.
emulate_read_csr(num, ms) ==
  LET counteren == ms.mpp # U \/ csr.scounteren
  IN  CASE num \in {"cycle", "instret", "mhpmcounter3"} /\ counteren -> <<csr.counter>>
        [] num = "time" /\ counteren -> <<Zero>>
        [] num = "mhpmevent3" -> <<csr.counter>>
        [] OTHER -> <<>>
Writable == {"cycle", "instret", "mhpmcounter3", "mhpmevent3"}   \* emulate_write_csr

Bytewise(f(_, _, _), a, b) == [i \in 1 .. XLEN |-> f(8, a[i], b[i])]
AndNot(n, a, b) == BAnd(n, a, BNot(n, b))

NewValue(insn, old) ==
  LET operand == IF insn.rm \in 1 .. 3 THEN Frame(insn.rs1) ELSE [Zero EXCEPT ![1] = insn.rs1]
  IN  CASE insn.rm \in {1, 5} -> operand
        [] insn.rm \in {2, 6} -> Bytewise(BOr, old, operand)
        [] insn.rm \in {3, 7} -> Bytewise(AndNot, old, operand)
DoWrite(insn) == insn.rm \in {1, 5} \/ insn.rs1 # 0

emulate_system_opcode(c, insn) ==
  LET old == emulate_read_csr(insn.csr, c.mstatus)
      refused == \/ old = <<>> \/ insn.rm \in {0, 4}
                 \/ DoWrite(insn) /\ insn.csr \notin Writable
  IN  \/ /\ refused
         /\ truly_illegal_insn(c, Code, c.mstatus, insn)
         /\ UNCHANGED x
      \/ /\ ~ refused
         /\ x' = [x EXCEPT ![insn.rd] = old[1]]
         /\ csr' = Mret(IF DoWrite(insn) THEN [c EXCEPT !.counter = NewValue(insn, old[1])] ELSE c)
         /\ at' = "program" /\ h' = Idle

illegal_insn_trap ==
  LET insn == before.insn
      c == Nested(Load, Code)
  IN  /\ at = "get_insn" /\ csr.mcause = 2
      /\ IF csr.mbadaddr = OfInsn(NoInsn) /\ Code \in denied
         THEN /\ machine_page_fault(c, "mprv_mxr", csr.mepc, csr.mstatus)
              /\ UNCHANGED x
         ELSE emulate_system_opcode([csr EXCEPT !.mepc = @ + 4], insn)
      /\ UNCHANGED <<mem, denied, page, slot0, before>>

----------------------------------------------------------------------------
\* Calls of the supervisor. HLS()->timecmp is never set in this tree, so that
\* setting the timer faults in machine mode; shutdown waits for ever.
SBI_SET_TIMER == 0
SBI_CLEAR_IPI == 3
SBI_SHUTDOWN == 8
Word(n) == [Zero EXCEPT ![1] = n]

McallTrap ==
  /\ MayTrap
  /\ \E n \in 0 .. 9, pending \in BOOLEAN, sie \in BOOLEAN :
       /\ Trapped(S, sie, 9, AtAddr(0), NoInsn, [NoCounters EXCEPT !.ssip = pending],
                  [Regs0 EXCEPT ![17] = Word(n)])
       /\ denied' = {} /\ page' = FALSE
       /\ at' = "mcall" /\ h' = Idle

mcall_trap ==
  LET n == x[17][1]
      ENOSYS == [i \in 1 .. XLEN |-> IF i = 1 THEN 218 ELSE 255]
      retval == CASE n = SBI_CLEAR_IPI -> Word(IF csr.ssip THEN 2 ELSE 0)
                  [] n > 8 -> ENOSYS
                  [] OTHER -> Zero
  IN  /\ at = "mcall"
      /\ IF n \in {SBI_SET_TIMER, SBI_SHUTDOWN}
         THEN bad_trap /\ UNCHANGED x
         ELSE /\ x' = [x EXCEPT ![10] = retval]
              /\ csr' = Mret([csr EXCEPT !.mepc = @ + 4, !.ssip = @ /\ n # SBI_CLEAR_IPI])
              /\ at' = "program" /\ h' = Idle
      /\ UNCHANGED <<mem, denied, page, slot0, before>>

\* poweroff: while (1) wfi.
poweroff == at = "dead" /\ UNCHANGED vars

----------------------------------------------------------------------------
Init ==
  /\ at = "program" /\ x = Regs0 /\ mem = Mem0 /\ denied = {} /\ page = FALSE /\ slot0 = Zero
  /\ h = Idle /\ csr = Running /\ before = Nothing

\* The program, or the supervisor's handler, runs on.
Run ==
  /\ at \in {"program", "supervisor"} /\ before # Nothing
  /\ at' = "program" /\ x' = Regs0 /\ mem' = Mem0 /\ denied' = {} /\ page' = FALSE
  /\ csr' = Running /\ before' = Nothing
  /\ UNCHANGED <<slot0, h>>

Next ==
  \/ MisalignedTrap \/ IllegalTrap \/ PmpTrap \/ McallTrap
  \/ pmp_trap \/ misaligned_get_insn
  \/ load_uint8_t \/ misaligned_load_trap \/ store_uint8_t \/ misaligned_store_trap
  \/ illegal_insn_trap \/ mcall_trap \/ poweroff \/ Run

Spec == Init /\ [][Next]_vars

----------------------------------------------------------------------------
\* What the manual says of the instruction that trapped.
Reg(r) == IF r = 0 THEN Zero ELSE before.x[r]
Size(op) ==
  CASE op \in {"ld", "c.ld", "c.ldsp", "sd", "c.sd", "c.sdsp"} -> 8
    [] op \in {"lw", "lwu", "c.lw", "c.lwsp", "sw", "c.sw", "c.swsp"} -> 4
    [] op \in {"lh", "lhu", "sh"} -> 2
Touched == LET a == before.badaddr.addr IN a .. a + Size(before.insn.op) - 1
Loaded ==
  LET bytes == [i \in 1 .. Size(before.insn.op) |-> Mem0[before.badaddr.addr + i - 1]]
      fill == IF before.insn.op \notin {"lhu", "lwu"} /\ Last(bytes) >= 128 THEN 255 ELSE 0
  IN  [i \in 1 .. XLEN |-> IF i <= Len(bytes) THEN bytes[i] ELSE fill]
\* Memory when the bytes at addresses below the given one are stored.
StoredBelow(limit) ==
  [a \in DOMAIN Mem0 |->
     IF IsStore(before.insn) /\ a \in Touched /\ a < limit
     THEN Reg(before.insn.r)[a - before.badaddr.addr + 1] ELSE Mem0[a]]

\* After the firmware has performed an instruction or a call the program goes on
\* behind it, in its own mode, with the registers and memory that the instruction
\* would have left: a misaligned access done byte by byte is the access, an
\* emulated access to a counter reads and writes it as Zicsr says, and nothing
\* else changes.
Transparent ==
  LET insn == before.insn
      c == before.csr
      old == IF insn.csr = "time" THEN Zero ELSE c.counter
      operand == IF insn.rm < 4 THEN Reg(insn.rs1) ELSE Word(insn.rs1)
  IN  at = "program" /\ before.cause # 0 =>
        /\ csr.prv = before.prv /\ csr.mstatus.sie = before.sie /\ ~ csr.mstatus.mprv
        /\ csr.pc = Code + (IF Compressed(insn) THEN 2 ELSE 4)
        /\ mem = IF IsStore(insn) THEN StoredBelow(2 * Page) ELSE Mem0
        /\ x = CASE IsLoad(insn) /\ insn.r # 0 -> [before.x EXCEPT ![insn.r] = Loaded]
                 [] insn.op = "csr" -> [before.x EXCEPT ![insn.rd] = old]
                 [] before.cause = 9 -> [before.x EXCEPT ![10] = x[10]]
                 [] OTHER -> before.x
        /\ csr.counter =
             CASE insn.op # "csr" -> c.counter
               [] insn.op = "csr" /\ insn.rm % 4 = 1 -> operand
               [] insn.op = "csr" /\ insn.rm % 4 = 2 /\ insn.rs1 # 0 -> Bytewise(BOr, old, operand)
               [] insn.op = "csr" /\ insn.rm % 4 = 3 /\ insn.rs1 # 0 -> Bytewise(AndNot, old, operand)
               [] OTHER -> c.counter

\* The misaligned accesses that the firmware does not emulate: floating point, and
\* stores relative to sp with a zero in the bits where a load has its register.
Unemulated(insn) == insn.op \in {"fld", "fsd"} \/ (insn.op \in {"c.sdsp", "c.swsp"} /\ insn.field = 0)

\* The supervisor's handler is entered as the hart would have entered it for a
\* delegated trap: the program's pc, mode and interrupt enable are in sepc, SPP
\* and SPIE, its registers are untouched, and a misaligned access that reaches a
\* page it may not access is reported at the first such byte as a fault of its
\* own kind, with exactly the bytes before it stored. A fault while the firmware
\* reads the instruction is a fetch fault; an access that is not emulated is an
\* access fault.
SeenAsDelegated ==
  at = "supervisor" =>
    /\ csr.prv = S /\ csr.pc = stvec /\ csr.sepc = Code
    /\ csr.mstatus.spp = before.prv /\ csr.mstatus.spie = before.sie
    /\ ~ csr.mstatus.sie /\ ~ csr.mstatus.mprv
    /\ x = before.x /\ csr.counter = before.csr.counter
    /\ \/ /\ before.cause \in {1, 2, 5, 7} /\ csr.scause = before.cause
          /\ csr.sbadaddr = IF before.cause = 2 THEN OfInsn(before.insn) ELSE before.badaddr
          /\ mem = Mem0
       \/ /\ before.cause \in {2, 4, 6} /\ Code \in denied
          /\ csr.scause = Cause(Fetch) /\ csr.sbadaddr = AtAddr(Code) /\ mem = Mem0
       \/ /\ before.cause \in {4, 6} /\ Code \notin denied /\ ~ Unemulated(before.insn)
          /\ csr.scause = Cause(IF before.cause = 4 THEN Load ELSE Store)
          /\ csr.sbadaddr.addr \in Touched /\ Faults(csr.sbadaddr.addr)
          /\ \A a \in Touched : Faults(a) => a >= csr.sbadaddr.addr
          /\ mem = StoredBelow(csr.sbadaddr.addr)
       \/ /\ before.cause \in {4, 6} /\ Code \notin denied /\ Unemulated(before.insn)
          /\ csr.scause = (IF before.cause = 4 THEN Load ELSE Store).access
          /\ csr.sbadaddr = OfInsn(before.insn) /\ mem = Mem0

\* No trap of the program stops the machine: the firmware gives up only when the
\* supervisor asks for a shutdown or sets the timer.
OnlyCallsStop == at = "dead" => before.cause = 9 /\ before.x[17] \in {Word(SBI_SET_TIMER), Word(SBI_SHUTDOWN)}

\* The firmware is invisible or says what the hart would have said: what it
\* emulates is as if the hart had done it (misaligned_ldst.c, emulation.c), what
\* it hands on arrives as a delegated trap would (redirect_trap), and no trap of
\* the program stops the machine (machine_page_fault).
FirmwareTransparent == Transparent /\ SeenAsDelegated /\ OnlyCallsStop
==============================================================================
