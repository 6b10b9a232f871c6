------------------------------ MODULE HostTlb -------------------------------
(***************************************************************************)
(* The host TLB of the threaded engine (memory/host-tlb.c), over the page  *)
(* walk of Mmu: direct-mapped tables of host addresses, one for reads and  *)
(* fetches and one for writes, filled by slow paths that walk and hit with *)
(* no further check.  The guest writes page tables, fences, and changes    *)
(* mode and satp between accesses.                                         *)
(*                                                                         *)
(* Loads and stores have the MMU state they were decoded under: it is one  *)
(* of those in force since the translation cache was last flushed.         *)
(***************************************************************************)
EXTENDS Mmu

CONSTANTS
  HOSTTLB_SIZE,  \* entries of each table
  PteSlots,      \* the page table entries the guest writes
  PteValues      \* what the guest writes into them

ASSUME HostTlbAssumption ==
  /\ \A b \in Builds : ~ b.share
  /\ HOSTTLB_SIZE \in Nat \ {0}
  /\ PteSlots \subseteq Pmem \X Idx /\ PteValues \subseteq PTE

VARIABLES
  hostrtlb, hostwtlb,  \* slot -> entry
  decoded,             \* MMU states of the loads and stores in the translation cache
  seen,                \* ghost: <<kind, page, frame>> mapped since they were last flushed
  quiet                \* ghost: no PTE, mode or CSR changed since everything was flushed

hvars == <<build, mem, stat, last, hostrtlb, hostwtlb, decoded, seen, quiet>>

Slots == 0 .. HOSTTLB_SIZE - 1
hosttlb_vpn(vpn) == LowPart(vpn, PTW_LEVEL)
hosttlb_idx(vpn) == hosttlb_vpn(vpn) % HOSTTLB_SIZE
\* The offset of an entry is kept as the physical page.
Empty == [gvpn |-> -1, ppn |-> 0]
EmptyTlb == [i \in Slots |-> Empty]
Entry(vpn, ppn) == [gvpn |-> hosttlb_vpn(vpn), ppn |-> ppn]

MmuState == IF stat.translated THEN "MMU_TRANSLATE" ELSE "MMU_DIRECT"

\* Ghost: the frames that pages have now, for reads and, when the leaf is
\* writable and dirty, for writes.  Of the pages that are accessed.
Pages == {req.vpn : req \in Requests}
LeafOf(vpn) == mem[Walk(vpn).at]
FrameOf(vpn) == LeafOf(vpn).ppn + LowPart(vpn, Walk(vpn).level)
MappedPages == {vpn \in Pages : Walk(vpn).kind = "leaf"}
Mapped ==
  IF stat.translated
  THEN {<<"R", vpn, FrameOf(vpn)>> : vpn \in MappedPages}
         \cup {<<"W", vpn, FrameOf(vpn)>> : vpn \in {v \in MappedPages : LeafOf(v).w /\ LeafOf(v).d}}
  ELSE {<<kind, vpn, LowPart(vpn, PTW_LEVEL)>> : kind \in {"R", "W"}, vpn \in Pages}

----------------------------------------------------------------------------
\* va2pa: the check, and the walk if the hart translates now.
va2pa(req) ==
  IF isa_mmu_check(req) # "OK" THEN Raise(isa_mmu_check(req))
  ELSE IF stat.translated THEN ptw(req) ELSE OK(Direct(req))

\* The slow paths end in paddr_read(MEM_TYPE_READ), for fetches too, or in
\* paddr_write.
PaddrFault(req) == IF req.type = "WRITE" \/ req.amo THEN "SAF" ELSE "LAF"

SlowPath(req) ==
  LET to == va2pa(req)
  IN  IF to.cause = "OK" /\ to.ppn \notin Pmem THEN Raise(PaddrFault(req)) ELSE to

\* The table that an access of this type uses.
TlbOf(req) == IF req.type = "WRITE" THEN hostwtlb ELSE hostrtlb

\* mutant: an entry hits every page of its slot
HitsSlot(req) == TlbOf(req)[hosttlb_idx(req.vpn)].gvpn # -1

Hits(req) == TlbOf(req)[hosttlb_idx(req.vpn)].gvpn = hosttlb_vpn(req.vpn) /\ req.canonical

\* The slow path fills the table of its type.
Fill(req, ppn) ==
  IF req.type = "WRITE"
  THEN hostwtlb' = [hostwtlb EXCEPT ![hosttlb_idx(req.vpn)] = Entry(req.vpn, ppn)]
       /\ UNCHANGED hostrtlb
  ELSE hostrtlb' = [hostrtlb EXCEPT ![hosttlb_idx(req.vpn)] = Entry(req.vpn, ppn)]
       /\ UNCHANGED hostwtlb

Done(req, outcome) == last' = [done |-> TRUE, req |-> req, outcome |-> outcome]

\* hosttlb_read and hosttlb_write.
FastPath(req) ==
  /\ Hits(req)
  /\ Done(req, OK(TlbOf(req)[hosttlb_idx(req.vpn)].ppn))
  /\ UNCHANGED <<mem, hostrtlb, hostwtlb>>

MissPath(req) ==
  /\ ~ Hits(req)
  /\ Done(req, SlowPath(req))
  /\ mem' = IF stat.translated /\ isa_mmu_check(req) = "OK" THEN UpdateAD(req) ELSE mem
  /\ IF SlowPath(req).cause = "OK" THEN Fill(req, SlowPath(req).ppn)
                                   ELSE UNCHANGED <<hostrtlb, hostwtlb>>

\* MMU_DIRECT.
DirectPath(req) ==
  /\ Done(req, IF req.canonical /\ Direct(req) \in Pmem THEN OK(Direct(req))
                                                       ELSE Raise(AccessFault(req)))
  /\ UNCHANGED <<mem, hostrtlb, hostwtlb>>

\* A dynamic access is checked first, and then takes the state in force.
AccessAs(req, mode) ==
  IF req.dynamic /\ isa_mmu_check(req) # "OK"
  THEN Done(req, Raise(isa_mmu_check(req))) /\ UNCHANGED <<mem, hostrtlb, hostwtlb>>
  ELSE IF mode = "MMU_DIRECT" THEN DirectPath(req)
  ELSE FastPath(req) \/ MissPath(req)

vaddr_access_tlb(req) ==
  /\ last = None
  /\ \E mode \in {MmuState} \cup (IF req.dynamic THEN {} ELSE decoded) :
       /\ AccessAs(req, mode)
       /\ decoded' = decoded \cup (IF req.dynamic THEN {} ELSE {mode})
  /\ UNCHANGED <<stat, quiet>>
  /\ seen' = seen \cup Mapped'

----------------------------------------------------------------------------
\* hosttlb_flush(0), with the flush of the translation cache that mmu_tlb_flush
\* asks for.
hosttlb_flush_all == hostrtlb' = EmptyTlb /\ hostwtlb' = EmptyTlb

Without(tlb, vpn) == [i \in Slots |-> IF tlb[i].gvpn = hosttlb_vpn(vpn) THEN Empty ELSE tlb[i]]
\* mutant: the write table is not flushed
FlushReadPage(vpn) == hostrtlb' = Without(hostrtlb, vpn) /\ UNCHANGED hostwtlb

hosttlb_flush_page(vpn) ==
  /\ hostrtlb' = Without(hostrtlb, vpn)
  /\ hostwtlb' = Without(hostwtlb, vpn)

FlushEverything ==
  /\ hosttlb_flush_all
  /\ decoded' = {}
  /\ seen' = Mapped'
  /\ quiet' = TRUE

\* A write of satp; the mode of the hart stays.
csr_write_satp ==
  /\ last = None /\ stat.mode # "U"
  /\ \E st \in Stats[build] :
       /\ stat' = st
       /\ <<st.mode, st.sum, st.mxr>> = <<stat.mode, stat.sum, stat.mxr>>
  /\ UNCHANGED <<mem, last>>
  /\ FlushEverything

\* sfence.vma, in any mode.
SFenceAll ==
  /\ last = None
  /\ UNCHANGED <<mem, stat, last>>
  /\ FlushEverything

SFencePage(vpn) ==
  /\ last = None
  /\ hosttlb_flush_page(vpn)
  /\ UNCHANGED <<mem, stat, last, decoded, quiet>>
  /\ seen' = {s \in seen : s[2] # vpn} \cup Mapped

\* A trap, a return, a write of mstatus: nothing is flushed.
ChangeStatus ==
  /\ last = None
  /\ \E st \in Stats[build] : stat' = st /\ st # stat /\ st.root = stat.root
  /\ UNCHANGED <<mem, last, hostrtlb, hostwtlb, decoded>>
  /\ seen' = seen \cup Mapped'
  /\ quiet' = FALSE

\* The guest writes a page table entry.
WritePte(at, pte) ==
  /\ last = None
  /\ mem[at] # pte
  /\ mem' = [mem EXCEPT ![at] = pte]
  /\ UNCHANGED <<stat, last, hostrtlb, hostwtlb, decoded>>
  /\ seen' = seen \cup Mapped'
  /\ quiet' = FALSE

RetireTlb == Retire /\ UNCHANGED <<hostrtlb, hostwtlb, decoded, seen, quiet>>

InitTlb ==
  /\ Init
  /\ hostrtlb = EmptyTlb /\ hostwtlb = EmptyTlb
  /\ decoded = {} /\ seen = Mapped /\ quiet = TRUE

StepTlb ==
  \/ \E req \in Requests : vaddr_access_tlb(req)
  \/ RetireTlb
  \/ csr_write_satp
  \/ SFenceAll
  \/ \E vpn \in Pages : SFencePage(vpn)
  \/ ChangeStatus
  \/ \E at \in PteSlots, pte \in PteValues : WritePte(at, pte)

NextTlb == StepTlb /\ UNCHANGED build

SpecTlb == InitTlb /\ [][NextTlb]_hvars

----------------------------------------------------------------------------
(* What an entry of the host TLB holds was mapped at some moment since its *)
(* page was last flushed: to memory and, in the write table, writable with *)
(* D already set, whatever the guest did to its page tables meanwhile.     *)
EntriesWereMapped ==
  \A vpn \in Pages :
    LET gvpn == hosttlb_vpn(vpn)
        slot == hosttlb_idx(vpn)
    IN  /\ hostrtlb[slot].gvpn = gvpn => /\ hostrtlb[slot].ppn \in Pmem
                                         /\ <<"R", vpn, hostrtlb[slot].ppn>> \in seen
        /\ hostwtlb[slot].gvpn = gvpn => /\ hostwtlb[slot].ppn \in Pmem
                                         /\ <<"W", vpn, hostwtlb[slot].ppn>> \in seen

(* From a flush of everything until the guest changes a page table, its    *)
(* mode or a CSR: an aligned store to a canonical address has the outcome  *)
(* of the walk, success or fault, whether it hits or misses; and a load or *)
(* fetch that succeeds uses the page of the walk.  Nothing is said of the  *)
(* permission of loads and fetches: they share a table, so that a fetch    *)
(* succeeds on an entry that a load filled where the walk would fault; and *)
(* a misaligned store faults on a miss only.                               *)
AsWalkedWhileQuiet ==
  last # None /\ quiet =>
    /\ last.req.type = "WRITE" /\ last.req.canonical /\ last.req.aligned => last.outcome = Outcome(last.req)
    /\ last.outcome.cause = "OK" /\ stat.translated =>
         last.req.vpn \in MappedPages /\ last.outcome.ppn = FrameOf(last.req.vpn)
=============================================================================
