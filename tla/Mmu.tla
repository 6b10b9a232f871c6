-------------------------------- MODULE Mmu ---------------------------------
(***************************************************************************)
(* One memory access of the guest, from vaddr.c down: the checks of        *)
(* isa_mmu_check, the page walk ptw and check_permission of                *)
(* isa/riscv64/system/mmu.c, and the physical access of paddr.c.           *)
(*                                                                         *)
(* A virtual page is the function from levels to its VPN indices, so its   *)
(* width is PTW_LEVEL times log2(VPNS); the offset in the page, and data,  *)
(* are not kept.  Of physical memory only the page tables are kept.        *)
(***************************************************************************)
EXTENDS Integers

CONSTANTS
  Builds,     \* the configurations the emulator is built in
  PTW_LEVEL,  \* levels of the page walk
  VPNS,       \* entries of a page table
  PPNS,       \* physical pages
  Pmem,       \* the physical pages that are memory; the others are nothing
  Mems,       \* by build, contents that memory starts with
  Stats,      \* by build, states of the hart in which accesses are made
  Requests    \* the accesses

Levels == 0 .. PTW_LEVEL - 1
Idx == 0 .. VPNS - 1
Ppn == 0 .. PPNS - 1
VPages == [Levels -> Idx]

PTE == [v : BOOLEAN, r : BOOLEAN, w : BOOLEAN, x : BOOLEAN, u : BOOLEAN,
        a : BOOLEAN, d : BOOLEAN, ppn : Ppn, pkey : {0, 1}]

\* translated: the MMU state of data and fetches (module Trap keeps the two
\* apart); mode: the mode translation is done for; root: satp->ppn.  keys: what
\* the protection keys forbid, by key: "AD" any access, "WD" writes.
Status == [mode : {"U", "S", "M"}, translated : BOOLEAN, sum : BOOLEAN, mxr : BOOLEAN, root : Ppn,
           keys : [{0, 1} -> SUBSET {"AD", "WD"}]]

\* canonical: bits 63 to 39 equal bit 38.  amo: cpu.amo.  dynamic: the MMU
\* state is looked up by the access itself (MMU_DYNAMIC: fetches and atomics),
\* not when the instruction was decoded (loads and stores).
Access == [type : {"IFETCH", "READ", "WRITE"}, vpn : VPages, canonical : BOOLEAN,
           aligned : BOOLEAN, amo : BOOLEAN, dynamic : BOOLEAN]

ASSUME MmuAssumption ==
  /\ Builds \subseteq [share : BOOLEAN, dasics : BOOLEAN]
  /\ {PTW_LEVEL, VPNS, PPNS} \subseteq Nat \ {0}
  /\ PPNS % (VPNS ^ PTW_LEVEL) = 0   \* a virtual page number is a physical one
  /\ Pmem \subseteq Ppn
  /\ \A b \in Builds : /\ Mems[b] \subseteq [Ppn \X Idx -> PTE]
                       /\ Stats[b] \subseteq Status
                       /\ \A st \in Stats[b] : st.mode = "M" => ~ st.translated
  /\ Requests \subseteq Access
  /\ \A req \in Requests : /\ req.amo => req.type # "IFETCH"
                           /\ req.amo \/ req.type = "IFETCH" => req.dynamic

VARIABLES
  build,  \* the configuration of this emulator, fixed for its life
  mem,    \* <<page, index>> -> PTE
  stat,   \* the CSRs that matter
  last    \* the last access and its outcome

vars == <<build, mem, stat, last>>

SHARE == build.share        \* a difftest reference: A and D are left to software
RV_DASICS == build.dasics   \* protection keys

None == [done |-> FALSE]
\* The C functions return by longjmp_exception or with a page.
OK(ppn) == [cause |-> "OK", ppn |-> ppn]
Raise(cause) == [cause |-> cause, ppn |-> 0]

----------------------------------------------------------------------------
\* Page faults, misaligned accesses, access faults, by type.
PageFault(req) ==
  CASE req.type = "IFETCH" -> "IPF" [] req.type = "READ" /\ ~ req.amo -> "LPF" [] OTHER -> "SPF"
Misaligned(req) == IF req.amo \/ req.type = "WRITE" THEN "SAM" ELSE "LAM"

AccessFault(req) ==
  CASE req.type = "IFETCH" -> "IAF" [] req.type = "READ" /\ ~ req.amo -> "LAF" [] OTHER -> "SAF"

\* What a leaf allows: by user bit, by type.
ModeAllows(pte, req) ==
  /\ ~ (stat.mode = "U" /\ ~ pte.u)
  /\ ~ (pte.u /\ stat.mode = "S" /\ (~ stat.sum \/ req.type = "IFETCH"))
TypeAllows(pte, req) ==
  CASE req.type = "IFETCH" -> pte.x
    [] req.type = "READ" -> pte.r \/ (stat.mxr /\ pte.x)
    [] OTHER -> pte.w

\* In a reference, an access that finds A or D clear faults.
update_ad(pte, req) == SHARE /\ (~ pte.a \/ (req.type = "WRITE" /\ ~ pte.d))

KeyDenies(pte, req) ==
  LET key == stat.keys[pte.pkey]
  IN  RV_DASICS /\ CASE req.type = "IFETCH" -> FALSE
                     [] req.type = "READ" -> "AD" \in key
                     [] OTHER -> key # {}

check_permission(pte, ok, req) ==
  IF ~ (ok /\ pte.v /\ ModeAllows(pte, req) /\ TypeAllows(pte, req)) \/ update_ad(pte, req)
  THEN PageFault(req)
  ELSE IF KeyDenies(pte, req) THEN (IF stat.mode = "U" THEN "DUCF" ELSE "DSCF")
  ELSE "OK"

\* The loop of ptw: where it stops, and how ("leaf", "bad" or, when a table is
\* not in memory, "access").
Stop(kind, level, at) == [kind |-> kind, level |-> level, at |-> at]

\* What the walk reads of an entry.
WalkPart(pte) == [v |-> pte.v, r |-> pte.r, w |-> pte.w, x |-> pte.x, ppn |-> pte.ppn]
WalkParts == [at \in DOMAIN mem |-> WalkPart(mem[at])]

\* By table, where a walk of vpn that is at this level stops; below does the same for
\* the next level.
WalkLevel(entries, vpn, level, below) ==
  [base \in Ppn |->
    LET at == <<base, vpn[level]>>
        pte == entries[at]
    IN  IF base \notin Pmem THEN Stop("access", level, at)
        ELSE IF ~ pte.v \/ (~ pte.r /\ pte.w) THEN Stop("bad", level, at)
        ELSE IF pte.r \/ pte.x THEN Stop("leaf", level, at)
        ELSE IF level = 0 THEN Stop("bad", level, at)
        ELSE below[pte.ppn]]
WalkOf(entries, vpn) ==
  LET walk[level \in Levels] == WalkLevel(entries, vpn, level, walk[level - 1]) IN walk

Walk(vpn) == WalkOf(WalkParts, vpn)[PTW_LEVEL - 1][stat.root]

Span(level) == VPNS ^ level
\* The lowest levels of a virtual page as a number, highest level first.
LowParts(vpn, level) ==
  LET low[k \in 0 .. level] == IF k = 0 THEN 0 ELSE low[k - 1] * VPNS + vpn[level - k] IN low
LowPart(vpn, level) == LowParts(vpn, level)[level]

ptw(req) ==
  LET stop == Walk(req.vpn)
      pte == mem[stop.at]
      verdict == check_permission(pte, stop.kind = "leaf", req)
  IN  IF ~ req.canonical THEN Raise(PageFault(req))
      ELSE IF stop.kind = "access" THEN Raise(AccessFault(req))
      ELSE IF verdict # "OK" THEN Raise(verdict)
      ELSE IF pte.ppn % Span(stop.level) # 0 THEN Raise(PageFault(req))
      ELSE OK(pte.ppn + LowPart(req.vpn, stop.level))

\* mutant: D is set by every access
UpdateDirty(req) ==
  LET at == Walk(req.vpn).at
  IN  IF SHARE \/ ptw(req).cause # "OK" THEN mem
      ELSE [mem EXCEPT ![at] = [mem[at] EXCEPT !.a = TRUE, !.d = TRUE]]

\* Not in a reference: the walk sets A and, for a write, D.
UpdateAD(req) ==
  LET at == Walk(req.vpn).at
  IN  IF SHARE \/ ptw(req).cause # "OK" THEN mem
      ELSE [mem EXCEPT ![at] = [mem[at] EXCEPT !.a = TRUE, !.d = mem[at].d \/ req.type = "WRITE"]]

\* Untranslated, the address is physical.
Direct(req) == LowPart(req.vpn, PTW_LEVEL)

\* isa_mmu_check, for dynamic accesses.
isa_mmu_check(req) ==
  IF stat.translated /\ ~ req.canonical THEN PageFault(req)
  ELSE IF req.type # "IFETCH" /\ ~ req.aligned THEN Misaligned(req)
  ELSE "OK"

\* The checks before the walk: alignment in a reference, then isa_mmu_check.
Checked(req) ==
  IF SHARE /\ req.type # "IFETCH" /\ ~ req.aligned THEN Misaligned(req)
  ELSE IF req.dynamic THEN isa_mmu_check(req)
  ELSE "OK"

\* vaddr_ifetch, vaddr_read and vaddr_write.
Outcome(req) ==
  LET to == IF stat.translated THEN ptw(req) ELSE OK(Direct(req))
  IN  IF Checked(req) # "OK" THEN Raise(Checked(req))
      ELSE IF to.cause = "OK" /\ to.ppn \notin Pmem THEN Raise(AccessFault(req))
      ELSE to

vaddr_access(req) ==
  /\ last = None
  /\ last' = [done |-> TRUE, req |-> req, outcome |-> Outcome(req)]
  /\ mem' = IF stat.translated /\ Checked(req) = "OK" THEN UpdateAD(req) ELSE mem
  /\ UNCHANGED stat

\* The next instruction.
Retire ==
  /\ last # None
  /\ last' = None
  /\ UNCHANGED <<mem, stat>>

Init == build \in Builds /\ mem \in Mems[build] /\ stat \in Stats[build] /\ last = None

Next ==
  /\ Retire \/ \E req \in Requests : vaddr_access(req)
  /\ UNCHANGED build

Spec == Init /\ [][Next]_vars

----------------------------------------------------------------------------
(* Memory holds page-table entries, and an access that succeeds ends in    *)
(* memory: out_of_bound frames never come back from paddr_read.            *)
TypeOK ==
  /\ build \in Builds
  /\ mem \in [Ppn \X Idx -> PTE]
  /\ stat \in Status
  /\ last = None \/ (last.req \in Access /\ (last.outcome.cause = "OK" => last.outcome.ppn \in Pmem))

(* The privileged architecture, for a virtual page vpn: tables is a chain  *)
(* of page tables from the root to the leaf's level.                       *)
Pointer(pte) == pte.v /\ ~ pte.r /\ ~ pte.w /\ ~ pte.x
Leaf(pte) == pte.v /\ (pte.r \/ pte.x) /\ (pte.w => pte.r)
IsWalk(tables, vpn, level) ==
  /\ tables[PTW_LEVEL - 1] = stat.root
  /\ \A k \in level .. PTW_LEVEL - 1 : tables[k] \in Pmem
  /\ \A k \in level + 1 .. PTW_LEVEL - 1 :
       LET pte == mem[<<tables[k], vpn[k]>>] IN Pointer(pte) /\ tables[k - 1] = pte.ppn

Permits(pte, req) ==
  LET key == stat.keys[pte.pkey]
  IN  /\ stat.mode = "U" => pte.u
      /\ stat.mode = "S" /\ pte.u => stat.sum /\ req.type # "IFETCH"
      /\ req.type = "IFETCH" => pte.x
      /\ req.type = "READ" => pte.r \/ (stat.mxr /\ pte.x)
      /\ req.type = "WRITE" => pte.w
      /\ SHARE => pte.a /\ (req.type = "WRITE" => pte.d)
      /\ RV_DASICS => /\ req.type = "READ" => "AD" \notin key
                      /\ req.type = "WRITE" => key = {}

\* The low levels of the virtual page number are the low part of the page.
MapsTo(vpn, pte, level, ppn) ==
  /\ pte.ppn % Span(level) = 0
  /\ ppn \div Span(level) = pte.ppn \div Span(level)
  /\ \A k \in 0 .. level - 1 : (ppn \div Span(k)) % VPNS = vpn[k]

Translations(req) ==
  {ppn \in Pmem :
     \E level \in Levels : \E tables \in [level .. PTW_LEVEL - 1 -> Ppn] :
       LET pte == mem[<<tables[level], req.vpn[level]>>]
       IN  /\ IsWalk(tables, req.vpn, level)
           /\ Leaf(pte) /\ Permits(pte, req)
           /\ MapsTo(req.vpn, pte, level, ppn)}

(* A translated access succeeds exactly when the page tables map its page, *)
(* with the right permissions, to a page of memory, and then uses that     *)
(* page: over superpages, pointers to tables that are not there, and       *)
(* tables that map themselves.                                             *)
TranslatesByTheTables ==
  last # None /\ stat.translated =>
    IF last.outcome.cause = "OK"
    THEN last.req.canonical /\ Translations(last.req) = {last.outcome.ppn}
    ELSE last.req.canonical /\ last.outcome.cause \notin {"LAM", "SAM"} => Translations(last.req) = {}

(* Kconfig, AC_SOFT: "Detecting misaligned memory accessing", "By software *)
(* emulation": a misaligned load or store never succeeds.                  *)
MisalignedIsDetected ==
  last # None /\ last.req.type # "IFETCH" /\ ~ last.req.aligned => last.outcome.cause # "OK"

(* An atomic never reports a load fault, whichever of the many places the  *)
(* fault is raised at; a fetch only reports fetch faults.                  *)
FaultsOfTheirKind ==
  last # None =>
    LET cause == last.outcome.cause
    IN  /\ last.req.amo \/ last.req.type = "WRITE" => cause \notin {"LPF", "LAF", "LAM", "IPF", "IAF"}
        /\ last.req.type = "IFETCH" => cause \in {"OK", "IPF", "IAF"}

(* A walk changes nothing in memory but the A and D bits of the leaf that  *)
(* maps the accessed page, sets D for writes only, and not when it faults  *)
(* with a page fault.                                                      *)
OnlyAccessedAndDirtyStep ==
  \A at \in DOMAIN mem : mem'[at] # mem[at] =>
    /\ Leaf(mem[at]) /\ at[2] \in {last'.req.vpn[k] : k \in Levels}
    /\ mem'[at] = [mem[at] EXCEPT !.a = TRUE, !.d = @ \/ last'.req.type = "WRITE"]
    /\ last'.outcome.cause \in {"OK", "IAF", "LAF", "SAF"}

\* isa_mmu_translate answers as the page tables say, and its faults are of the kind of
\* the access.
WalkSound == TranslatesByTheTables /\ FaultsOfTheirKind
=============================================================================
