------------------------------- MODULE MipsSys -------------------------------
\* The mips32 guest's software-managed TLB and its exceptions
\* (isa/mips32/system): NEMU keeps NR_TLB entries that only the guest writes, a
\* miss or an invalid entry is an exception whose handler is guest code, and the
\* access is executed again when the handler returns.
\*
\* The guest kernel is outside the repository: it is modelled as the sequences
\* of privileged instructions such a kernel executes for a refill, an invalid
\* page, an interrupt, and a system call that changes a mapping.
EXTENDS Naturals, Sequences, FiniteSets

CONSTANTS
  NR_TLB,      \* entries
  Vpns,        \* pairs of pages
  Frames,      \* physical frames
  Accesses,    \* what the user program may access: [page, type], a page <<VPN2, half>>
  MaxChanges,  \* bound on the mappings the kernel changes
  MaxIntr      \* bound on the interrupts raised

None == [none |-> TRUE]
KERNEL == 2     \* pc in a handler
Slots == 0 .. NR_TLB - 1
Pages == Vpns \X {0, 1}
Lo == [V : BOOLEAN, PFN : Frames]
AnyFrame == CHOOSE f \in Frames : TRUE
Empty == [V |-> FALSE, PFN |-> AnyFrame]

VARIABLES
  tlb,      \* NEMU's entries: VPN2 and the two halves
  c0,       \* status.ie, status.exl, cause, epc, VPN2 of entryhi, entrylo0/1, index
  INTR,     \* cpu.INTR, the device's line
  pt,       \* the guest kernel's page table
  pc,       \* the user program's instruction, KERNEL in a handler
  done,     \* ghost: instructions the user program completed, modulo 2
  access,   \* the access the user program is at, None between instructions
  script,   \* privileged instructions the kernel has still to execute, <<>> in user mode
  seen,     \* ghost: the frame the last access used
  changes, intrs

vars == <<tlb, c0, INTR, pt, pc, done, access, script, seen, changes, intrs>>

-----------------------------------------------------------------------------
\* raise_intr(NO, epc) and the kernel code it vectors to.
raise_intr(c, NO, epc) == [c EXCEPT !.cause = NO, !.epc = epc, !.exl = TRUE]
Refill == <<"lo0", "lo1", "tlbwr", "eret">>
Invalid == <<"map", "lo0", "lo1", "tlbp", "tlbwi", "eret">>
Change == <<"change", "tlbp", "lo0", "lo1", "tlbwi", "epc", "eret">>

\* The first entry with the VPN2; -1 would be no entry, here NR_TLB.
Match(v) == IF \E i \in Slots : tlb[i].VPN2 = v
            THEN CHOOSE i \in Slots : tlb[i].VPN2 = v /\ \A j \in Slots : tlb[j].VPN2 = v => i <= j
            ELSE NR_TLB

\* A frame, or the exception and the kernel's entry for it: TLB_REFILL has its own.
search_ppn(page, type) ==
  LET v == page[1]
      i == Match(v)
      NO == IF type = "write" THEN "EX_TLB_ST" ELSE "EX_TLB_LD"
  IN  IF i < NR_TLB /\ tlb[i].lo[page[2]].V
      THEN /\ seen' = [page |-> page, PFN |-> tlb[i].lo[page[2]].PFN]
           /\ access' = None /\ pc' = (pc + 1) % 2 /\ done' = (done + 1) % 2
           /\ UNCHANGED <<c0, script>>
      ELSE /\ c0' = raise_intr([c0 EXCEPT !.VPN2 = v], NO, pc)
           /\ script' = IF i = NR_TLB THEN Refill ELSE Invalid
           /\ pc' = KERNEL
           /\ UNCHANGED <<seen, access, done>>

Access ==
  /\ script = <<>> /\ access # None
  /\ search_ppn(access.page, access.type)
  /\ UNCHANGED <<tlb, INTR, pt, changes, intrs>>

isa_query_intr ==
  /\ INTR /\ c0.ie /\ ~c0.exl
  /\ INTR' = FALSE
  /\ c0' = raise_intr(c0, "EX_INTR", pc)
  /\ script' = <<"eret">> /\ pc' = KERNEL
  /\ UNCHANGED <<tlb, pt, done, access, seen, changes, intrs>>

syscall ==
  /\ script = <<>> /\ access = None /\ changes < MaxChanges
  /\ c0' = raise_intr(c0, "EX_SYSCALL", pc)
  /\ script' = Change /\ pc' = KERNEL
  /\ changes' = changes + 1
  /\ UNCHANGED <<tlb, INTR, pt, done, access, seen, intrs>>

-----------------------------------------------------------------------------
\* The kernel's instructions, one at a time. mtc0 is csrrw with a source.
csrrw(c, id, v) ==
  CASE id = 2 -> [c EXCEPT !.lo[0] = v] [] id = 3 -> [c EXCEPT !.lo[1] = v]
    [] id = 10 -> [c EXCEPT !.VPN2 = v] [] id = 12 -> [c EXCEPT !.ie = v.ie, !.exl = v.exl]
    [] id = 0 -> [c EXCEPT !.index = v] [] id = 14 -> [c EXCEPT !.epc = v]

Op(o) == script # <<>> /\ Head(script) = o /\ script' = Tail(script)

mtc0_lo ==
  \E half \in {0, 1} :
    /\ Op(IF half = 0 THEN "lo0" ELSE "lo1")
    /\ c0' = csrrw(c0, 2 + half, pt[<<c0.VPN2, half>>])
    /\ UNCHANGED <<tlb, INTR, pt, pc, done, access, seen, changes, intrs>>

\* index's top bit says that nothing matched.
tlbp ==
  /\ Op("tlbp")
  /\ c0' = LET i == Match(c0.VPN2) IN [c0 EXCEPT !.index = IF i < NR_TLB THEN [P |-> FALSE, i |-> i] ELSE [@ EXCEPT !.P = TRUE]]
  /\ UNCHANGED <<tlb, INTR, pt, pc, done, access, seen, changes, intrs>>

update_tlb_lo0(idx) == tlb' = [tlb EXCEPT ![idx] = [VPN2 |-> c0.VPN2, lo |-> [h \in {0, 1} |-> c0.lo[0]]]]
update_tlb(idx) == tlb' = [tlb EXCEPT ![idx] = [VPN2 |-> c0.VPN2, lo |-> c0.lo]]

tlbwr ==
  /\ Op("tlbwr")
  /\ \E idx \in Slots : update_tlb(idx)      \* rand() % NR_TLB
  /\ UNCHANGED <<c0, INTR, pt, pc, done, access, seen, changes, intrs>>

\* The kernel does not execute it when the probe failed.
tlbwi ==
  /\ Op("tlbwi")
  /\ IF c0.index.P THEN UNCHANGED tlb ELSE update_tlb(c0.index.i % NR_TLB)
  /\ UNCHANGED <<c0, INTR, pt, pc, done, access, seen, changes, intrs>>

eret ==
  /\ Op("eret")
  /\ c0' = [c0 EXCEPT !.exl = FALSE]
  /\ pc' = c0.epc
  /\ UNCHANGED <<tlb, INTR, pt, done, access, seen, changes, intrs>>

\* The system call returns after the syscall instruction: epc + 4.
mtc0_epc ==
  /\ Op("epc")
  /\ c0' = csrrw(c0, 14, (c0.epc + 1) % 2)
  /\ done' = (done + 1) % 2
  /\ UNCHANGED <<tlb, INTR, pt, pc, access, seen, changes, intrs>>

\* Ordinary kernel code: give the faulting page a frame, not the same to the two
\* halves of a pair; change a mapping to anything.
FrameFor(page) == IF page[2] = 0 THEN AnyFrame ELSE CHOOSE f \in Frames : f # AnyFrame
KernelMap ==
  /\ Op("map")
  /\ pt' = IF pt[access.page].V THEN pt ELSE [pt EXCEPT ![access.page] = [V |-> TRUE, PFN |-> FrameFor(access.page)]]
  /\ UNCHANGED <<tlb, c0, INTR, pc, done, access, seen, changes, intrs>>
KernelChange ==
  /\ Op("change")
  /\ \E p \in {a.page : a \in Accesses}, l \in Lo :
       /\ pt' = [pt EXCEPT ![p] = l]
       /\ c0' = csrrw(c0, 10, p[1])
  /\ UNCHANGED <<tlb, INTR, pc, done, access, seen, changes, intrs>>

-----------------------------------------------------------------------------
UserStep ==
  /\ script = <<>> /\ access = None
  /\ access' \in Accesses
  /\ seen' = None
  /\ UNCHANGED <<tlb, c0, INTR, pt, pc, done, script, changes, intrs>>

Device ==
  /\ intrs < MaxIntr
  /\ INTR' = TRUE /\ intrs' = intrs + 1
  /\ UNCHANGED <<tlb, c0, pt, pc, done, access, script, seen, changes>>

\* init_mmu clears the V bits; the rest of the static array is zero.
init_mmu == [i \in Slots |-> [VPN2 |-> 0, lo |-> [h \in {0, 1} |-> Empty]]]
Init ==
  /\ tlb = init_mmu
  /\ c0 = [ie |-> TRUE, exl |-> FALSE, cause |-> "", epc |-> 0, VPN2 |-> 0,
           lo |-> [h \in {0, 1} |-> Empty], index |-> [P |-> FALSE, i |-> 0]]
  /\ INTR = FALSE /\ pc = 0 /\ done = 0 /\ access = None /\ script = <<>> /\ seen = None /\ changes = 0 /\ intrs = 0
  /\ pt = [p \in Pages |-> Empty]

Kernel == mtc0_lo \/ tlbp \/ tlbwr \/ tlbwi \/ eret \/ mtc0_epc \/ KernelMap \/ KernelChange
Next == UserStep \/ Access \/ syscall \/ isa_query_intr \/ Kernel \/ Device
Fairness == WF_vars(Access) /\ WF_vars(Kernel)
Spec == Init /\ [][Next]_vars /\ Fairness

-----------------------------------------------------------------------------
\* The entries and CP0 hold pages and frames of the guest, and NEMU is in kernel
\* code exactly while status.exl is set.
TypeOK ==
  /\ \A i \in Slots : tlb[i].VPN2 \in Vpns /\ \A h \in {0, 1} : tlb[i].lo[h] \in Lo
  /\ c0.VPN2 \in Vpns /\ c0.index.i \in Slots
  /\ \A p \in Pages : pt[p] \in Lo
  /\ (script # <<>>) = c0.exl

TranslatesCurrentStep ==
  seen' # None /\ seen' # seen => pt[seen'.page] = [V |-> TRUE, PFN |-> seen'.PFN]

\* With a kernel that probes and rewrites the entry of a mapping it changes, an
\* access search_ppn translates uses the frame of the current page table,
\* whatever entries tlbwr evicted at random in between and though the entries
\* start out all alike (VPN2 = 0, invalid) and tlbp and search_ppn take the
\* first that matches.
TranslatesCurrent == [][TranslatesCurrentStep]_vars

\* No instruction of the program is skipped or executed twice: a fault and an
\* interrupt save the pc of the instruction to execute next, and status.exl
\* keeps an interrupt from overwriting epc before eret has used it.
InstructionsInOrder ==
  IF script = <<>> THEN pc = done ELSE "epc" \notin {script[i] : i \in DOMAIN script} => c0.epc = done

\* Every access completes: after a refill or the fill of an invalid page the
\* retried access hits.
AccessCompletes == (access # None) ~> (access = None)

\* Through interrupts, refills and retries the instructions run in program order, and
\* an access goes where the entry of its page says that was last written.
MipsTlbSound == []InstructionsInOrder /\ TranslatesCurrent
=============================================================================
