------------------------------ MODULE MCMemory -------------------------------
\* What an access of a riscv64 guest goes through, each part on a small instance of its
\* own: the host TLB over the page tables, the page-table walk with its checks, the
\* control registers, and the DASICS bounds.
EXTENDS HostTlb

(* Two pages that share a slot of the host TLB, mapped through a table the *)
(* guest rewrites, to either of two frames or to a frame that is not       *)
(* memory; the upper entry is fixed.                                       *)

Blank == [v |-> FALSE, r |-> FALSE, w |-> FALSE, x |-> FALSE, u |-> FALSE,
          a |-> FALSE, d |-> FALSE, ppn |-> 0, pkey |-> 0]
Rwx(ppn) == [Blank EXCEPT !.v = TRUE, !.r = TRUE, !.w = TRUE, !.x = TRUE, !.ppn = ppn]
ReadOnly(ppn) == [Blank EXCEPT !.v = TRUE, !.r = TRUE, !.ppn = ppn]
Values == {Rwx(2), Rwx(3), ReadOnly(1)}
TlbSlots == {<<1, 0>>}

TlbBuilds == {[share |-> FALSE, dasics |-> FALSE]}
TlbMems ==
  [b \in TlbBuilds |-> {[at \in Ppn \X Idx |->
      CASE at = <<0, 0>> -> [Blank EXCEPT !.v = TRUE, !.ppn = 1]
        [] at = <<1, 1>> -> Rwx(2)
        [] OTHER -> Blank]}]

NoKeys == [k \in {0, 1} |-> {}]
Stat(mode, translated, root) ==
  [mode |-> mode, translated |-> translated, sum |-> FALSE, mxr |-> FALSE, root |-> root, keys |-> NoKeys]
TlbStats == [b \in TlbBuilds |-> {Stat("S", TRUE, 0), Stat("M", FALSE, 0), Stat("S", TRUE, 2)}]

Req(type, lo, canonical, dynamic) ==
  [type |-> type, vpn |-> [k \in Levels |-> IF k = 0 THEN lo ELSE 0], canonical |-> canonical,
   aligned |-> TRUE, amo |-> FALSE, dynamic |-> dynamic]
TlbRequests ==
  {Req("IFETCH", 0, TRUE, TRUE)} \cup {Req(type, lo, TRUE, FALSE) : type \in {"READ", "WRITE"}, lo \in Idx}

VARIABLES
  part,   \* the component that this behaviour is of
  mm_build, mm_mem, mm_stat, mm_last,
  cf_fam, cf_csr_array,
  da_config, da_mode, da_pc, da_prev_pc, da_prev_is_cfi, da_prev_type, da_dretpc, da_dmaincall,
  da_dretpcfz, da_dfreason, da_tval, da_epc, da_stack, da_steps, da_last, da_trapped

(* Two levels of two entries.  The entries on the path of one page are     *)
(* arbitrary (a pointer has no other bit set); the rest is invalid, except *)
(* that a table may be its own next level.                                 *)

MMRoot == 0

MMPtes(flags, ppns, keys) ==
  {[v |-> "v" \in f, r |-> "r" \in f, w |-> "w" \in f, x |-> "x" \in f, u |-> "u" \in f,
    a |-> "a" \in f, d |-> "d" \in f, ppn |-> ppn, pkey |-> key]
     : f \in SUBSET flags, ppn \in ppns, key \in keys}

MMBlank == [v |-> FALSE, r |-> FALSE, w |-> FALSE, x |-> FALSE, u |-> FALSE,
          a |-> FALSE, d |-> FALSE, ppn |-> 0, pkey |-> 0]
MMPointers == {[MMBlank EXCEPT !.v = TRUE, !.ppn = ppn] : ppn \in Ppn}
MMBase(flags, keys) == {p \in MMPtes(flags, Ppn, keys) : p.v}

MMMemsOf(leaves) ==
  LET empty == [at \in Ppn \X Idx |-> MMBlank]
  IN  {empty} \cup {[empty EXCEPT ![<<MMRoot, 1>>] = p] : p \in leaves}
      \cup {[empty EXCEPT ![<<MMRoot, 1>>] = p, ![<<p.ppn, 0>>] = q] : p \in MMPointers, q \in leaves}
      \cup {[empty EXCEPT ![<<MMRoot, 1>>] = p] : p \in MMPointers}

MMPlainMems == MMMemsOf(MMBase({"v", "r", "w", "x", "u", "a", "d"}, {0}))
MMKeyMems == MMMemsOf(MMBase({"v", "r", "w", "x", "u"}, {1}))

MMPlainBuild == [share |-> FALSE, dasics |-> FALSE]
MMRefBuild == [share |-> TRUE, dasics |-> FALSE]
MMKeyBuild == [share |-> FALSE, dasics |-> TRUE]
MMAllBuilds == {MMPlainBuild, MMRefBuild, MMKeyBuild}

MMNoKeys == [k \in {0, 1} |-> {}]
MMStat(mode, translated, sum, mxr, keys) ==
  [mode |-> mode, translated |-> translated, sum |-> sum, mxr |-> mxr, root |-> MMRoot, keys |-> keys]
MMPlainStats ==
  {MMStat("M", FALSE, FALSE, FALSE, MMNoKeys), MMStat("U", TRUE, FALSE, FALSE, MMNoKeys),
   MMStat("U", TRUE, FALSE, TRUE, MMNoKeys), MMStat("S", TRUE, FALSE, FALSE, MMNoKeys),
   MMStat("S", TRUE, TRUE, TRUE, MMNoKeys)}
MMKeyStats ==
  {MMStat(mode, TRUE, TRUE, FALSE, [MMNoKeys EXCEPT ![1] = key])
     : mode \in {"U", "S"}, key \in SUBSET {"AD", "WD"}}

MMMemsByBuild == [b \in MMAllBuilds |-> IF b = MMKeyBuild THEN MMKeyMems ELSE MMPlainMems]
MMStatsByBuild == [b \in MMAllBuilds |-> IF b = MMKeyBuild THEN MMKeyStats ELSE MMPlainStats]

MMReq(type, vpn, canonical, aligned, amo, dynamic) ==
  [type |-> type, vpn |-> vpn, canonical |-> canonical, aligned |-> aligned, amo |-> amo,
   dynamic |-> dynamic]
MMPage(hi, lo) == [k \in Levels |-> IF k = 0 THEN lo ELSE hi]
MMPlainRequests ==
  {MMReq("IFETCH", MMPage(1, lo), canonical, TRUE, FALSE, TRUE) : lo \in Idx, canonical \in BOOLEAN}
    \cup {MMReq(type, MMPage(1, lo), TRUE, TRUE, FALSE, FALSE) : type \in {"READ", "WRITE"}, lo \in Idx}
    \cup {MMReq(type, MMPage(1, 0), canonical, aligned, TRUE, TRUE)
             : type \in {"READ", "WRITE"}, canonical \in BOOLEAN, aligned \in BOOLEAN}
    \cup {MMReq("READ", MMPage(1, 0), canonical, aligned, FALSE, FALSE)
             : canonical \in BOOLEAN, aligned \in BOOLEAN}
MM == INSTANCE Mmu WITH Builds <- MMAllBuilds, PTW_LEVEL <- 2, VPNS <- 2, PPNS <- 4,
    Pmem <- {0, 1, 2}, Mems <- MMMemsByBuild, Stats <- MMStatsByBuild,
    Requests <- MMPlainRequests, build <- mm_build, mem <- mm_mem, stat <- mm_stat,
    last <- mm_last
mmVars == <<mm_build, mm_mem, mm_stat, mm_last>>

CFFam(regs, bits, exts) ==
  [regs |-> regs, bits |-> bits, rvn |-> "n" \in exts, rvv |-> "v" \in exts, dasics |-> "dasics" \in exts]
CFFamilies ==
  {CFFam({"mstatus", "sstatus", "ustatus"}, {0, 1, 3, 9, 13, 14, 63}, {"n", "v"}),
   CFFam({"mstatus", "sstatus", "ustatus"}, {0, 1, 9, 13, 14}, {}),
   CFFam({"mie", "sie", "uie", "mideleg", "sideleg"}, {0, 1, 5, 7}, {"n"}),
   CFFam({"mip", "sip", "uip", "mideleg", "sideleg"}, {0, 1, 5, 7}, {"n"}),
   CFFam({"mip", "mie", "sip", "sie", "mideleg"}, {1, 5, 7}, {}),
   CFFam({"medeleg", "sedeleg"}, {8, 10, 14, 24}, {"n"}), CFFam({"medeleg", "sedeleg"}, {8, 10, 24}, {"n", "dasics"}),
   CFFam({"mtvec", "stvec", "utvec"}, {0, 1, 2}, {"n"}), CFFam({"mepc", "sepc", "uepc"}, {0, 1}, {"n"}),
   CFFam({"vcsr", "vl"}, {0, 1, 2}, {"v"}), CFFam({"vxsat", "vcsr", "mhartid"}, {0}, {"v"}),
   CFFam({"dsmcfg", "dumcfg"}, {0, 1, 6, 10}, {"dasics"}), CFFam({"dlbound0", "djbound0lo", "spkctl", "upkru"}, {1, 2, 3}, {"dasics"})}
CF == INSTANCE Csr WITH Families <- CFFamilies, fam <- cf_fam, csr_array <- cf_csr_array
cfVars == <<cf_fam, cf_csr_array>>

DAB(c, l, h) == [cfg |-> c, lo |-> l, hi |-> h]
DAZones(ena, closed, deleg) ==
  [ena |-> ena, closed |-> closed, deleg |-> deleg, dmaincall |-> 1, dretpcfz |-> 2,
   main |-> [S |-> [lo |-> 5, hi |-> 7], U |-> [lo |-> 0, hi |-> 2]],
   lib |-> <<DAB({"V", "R"}, 2, 3), DAB({"V", "R", "W"}, 3, 4), DAB({"R"}, 4, 5)>>,
   jump |-> <<DAB({}, 4, 5), DAB({"V"}, 3, 4)>>]
DAConfigs == {DAZones({"U"}, {}, "M"), DAZones({"U"}, {<<"U", "lt">>, <<"U", "ft">>}, "S"), DAZones({"U", "S"}, {<<"U", "et">>}, "S")}
DAHandler == [M |-> 6, S |-> 5]
DA == INSTANCE Dasics WITH Addresses <- {0,1,2,3,4,5,6}, Configs <- DAConfigs,
    Handler <- DAHandler, MaxSteps <- 3, config <- da_config, mode <- da_mode, pc <- da_pc,
    prev_pc <- da_prev_pc, prev_is_cfi <- da_prev_is_cfi, prev_type <- da_prev_type,
    dretpc <- da_dretpc, dmaincall <- da_dmaincall, dretpcfz <- da_dretpcfz,
    dfreason <- da_dfreason, tval <- da_tval, epc <- da_epc, stack <- da_stack,
    steps <- da_steps, last <- da_last, trapped <- da_trapped
daVars == <<da_config, da_mode, da_pc, da_prev_pc, da_prev_is_cfi, da_prev_type, da_dretpc,
    da_dmaincall, da_dretpcfz, da_dfreason, da_tval, da_epc, da_stack, da_steps, da_last,
    da_trapped>>

-----------------------------------------------------------------------------
\* A behaviour is one of one component; the others stay in an initial state.
AllInit ==
  /\ part \in {"tlb", "mm", "cf", "da"}
  /\ InitTlb
  /\ part # "tlb" => stat = Stat("M", FALSE, 0)
  /\ IF part = "mm" THEN MM!Init ELSE mm_build = MMPlainBuild /\ mm_mem = <<>> /\ mm_stat = <<>> /\ mm_last = MM!None
  /\ CF!Init
  /\ part # "cf" => cf_fam = CHOOSE f \in CFFamilies : TRUE
  /\ DA!Init
  /\ part # "da" => da_config = CHOOSE c \in DAConfigs : TRUE

\* Components that may come to an end stay there.
AllNext ==
  /\ part' = part
  /\ IF part = "tlb" THEN NextTlb ELSE UNCHANGED hvars
  /\ IF part = "mm" THEN MM!Next ELSE UNCHANGED mmVars
  /\ IF part = "cf" THEN CF!Next ELSE UNCHANGED cfVars
  /\ IF part = "da" THEN DA!Next \/ UNCHANGED daVars ELSE UNCHANGED daVars

AllVars == <<part, hvars, mmVars, cfVars, daVars>>

AllSpec == AllInit /\ [][AllNext]_AllVars

-----------------------------------------------------------------------------
\* isa_mmu_translate answers as the page tables say, and its faults are of the kind of
\* the access. A walk changes no more than A and D of the entry that maps the accessed
\* page, D for writes only, and neither when it faults with a page fault.
TablesWalked ==
  /\ [](part = "mm" => MM!WalkSound)
  /\ [][part = "mm" => MM!OnlyAccessedAndDirtyStep]_mmVars

\* A write to a CSR is read back under its mask, changes only registers that are views
\* of it, and only what its mode may change.
CsrSound == part = "cf" => CF!CsrSound

\* Untrusted code leaves only through the jumps that the bounds and the entry points
\* allow, and the fault of one that is refused names that jump.
DasicsJumps == [][part = "da" => DA!JumpsWhereAllowedStep /\ DA!JumpFaultNamesJumpStep]_daVars

\* Kconfig, AC_SOFT: "Detecting misaligned memory accessing", "By software
\* emulation": a misaligned load or store never succeeds.
MisalignmentDetected == part = "mm" => MM!MisalignedIsDetected
=============================================================================
