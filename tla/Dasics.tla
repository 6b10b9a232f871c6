------------------------------- MODULE Dasics -------------------------------
\* The DASICS checks of riscv64 (system/priv.c): code outside the trusted zone
\* loads and stores only within its bounds, jumps only where it may, and makes
\* system calls only if that check is closed. The check of a jump is made when
\* its target is fetched, from what decoding the jump left in the static Decode
\* of execute(): traps may come in between.
EXTENDS Integers, Sequences

CONSTANTS
  Addresses,        \* of code and data, 0 .. n
  Configs,          \* what trusted software set up: see below
  Handler,          \* mode -> address of its trap handler
  MaxSteps          \* bound: instructions executed

\* A configuration, as trusted software set it up:
\*   ena    the modes whose checks are enabled (mcfg_sena, mcfg_uena), never M
\*   closed the checks that are switched off, as <<mode, "ft" | "lt" | "st" | "et">>
\*   main   mode -> [lo, hi], the main bounds
\*   lib    sequence of [cfg, lo, hi], cfg a subset of {"V", "R", "W"}
\*   jump   sequence of [cfg, lo, hi], the free zones
\*   deleg  the mode that traps go to
\*   dmaincall, dretpcfz  the entry points as first written

VARIABLES
  config,
  mode, pc,
  prev_pc, prev_is_cfi, prev_type,     \* of the static Decode
  dretpc, dmaincall, dretpcfz,
  dfreason, tval, epc,
  stack,            \* what the handlers return to: [mode, pc]
  steps,
  last,             \* ghost: the last instruction executed, [mode, pc, cfi]
  trapped           \* ghost: a trap was raised since

vars == <<config, mode, pc, prev_pc, prev_is_cfi, prev_type, dretpc, dmaincall, dretpcfz,
          dfreason, tval, epc, stack, steps, last, trapped>>

Within(addr, b) == b.lo <= addr /\ addr < b.hi

\* dasics_in_trusted_zone
Trusted(m, a) == m \in config.ena => Within(a, config.main[m])

\* dasics_match_dlib, dasics_match_djumpbound
Matches(bounds, addr, cfg) ==
  \E i \in 1 .. Len(bounds) : cfg \subseteq bounds[i].cfg /\ Within(addr, bounds[i])

dasics_match_dlib(addr, cfg) == Matches(config.lib, addr, cfg)
dasics_match_djumpbound(addr) == Matches(config.jump, addr, {"V"})

\* dasics_ldst_helper: the first byte that is not allowed, or none.
Denied(a, len, kind) ==
  LET bad == {i \in 0 .. len - 1 : ~ dasics_match_dlib(a + i, {"V", IF kind = "st" THEN "W" ELSE "R"})}
  IN  IF Trusted(mode, pc) \/ <<mode, kind>> \in config.closed THEN {} ELSE bad

\* dasics_fetch_helper
AllowCfi_branch_back(to, from, cfi_type) ==
  \/ Trusted(mode, from) \/ dasics_match_djumpbound(to)
  \/ Trusted(mode, to) /\ to \in {dretpc, dmaincall}
  \/ <<mode, "ft">> \in config.closed
AllowCfi(to, from, cfi_type) ==
  LET src_trusted == Trusted(mode, from)
      dst_trusted == Trusted(mode, to)
      src_freezone == dasics_match_djumpbound(from)
      dst_freezone == dasics_match_djumpbound(to)
      allow_lib_to_main == ~ src_trusted /\ dst_trusted /\ to \in {dretpc, dmaincall}
      allow_freezone_to_lib == src_freezone /\ ~ dst_trusted /\ ~ dst_freezone /\ to = dretpcfz
      allow_br == src_trusted \/ dst_freezone
      allow_jump == src_trusted \/ allow_lib_to_main \/ dst_freezone \/ allow_freezone_to_lib
  IN  \/ cfi_type = "branch" /\ allow_br
      \/ cfi_type = "jump" /\ allow_jump
      \/ <<mode, "ft">> \in config.closed

FetchDenied == prev_is_cfi /\ ~ AllowCfi(pc, prev_pc, prev_type)

\* raise_intr: to the handler of the mode that traps are delegated to. A trap
\* from M stays there.
RaiseTo == IF mode = "M" THEN "M" ELSE config.deleg
Raise(at) ==
  /\ mode' = RaiseTo /\ pc' = Handler[RaiseTo]
  /\ epc' = at
  /\ stack' = <<[mode |-> mode, pc |-> at]>> \o stack
  /\ trapped' = TRUE

-----------------------------------------------------------------------------
\* An instruction that is fetched without a fault: decoding it clears the record
\* of the previous jump, and execute() then records its own pc.
Fetched(cfi) ==
  /\ steps < MaxSteps /\ steps' = steps + 1
  /\ ~ FetchDenied
  /\ prev_is_cfi' = (cfi # "none") /\ prev_type' = cfi
  /\ prev_pc' = pc
  /\ last' = [mode |-> mode, pc |-> pc, cfi |-> cfi]
  /\ UNCHANGED config

\* What an instruction that is no trap leaves alone.
NoTrap == trapped' = FALSE /\ UNCHANGED <<mode, tval, dfreason, epc, stack>>

\* The target of a jump may not be fetched: the exception has the pc of the jump.
FetchFault ==
  /\ FetchDenied /\ Len(stack) < 2
  /\ dfreason' = "DFR_JF" /\ tval' = pc
  /\ prev_is_cfi' = FALSE /\ prev_type' = "none"
  /\ Raise(prev_pc)
  /\ UNCHANGED <<config, prev_pc, dretpc, dmaincall, dretpcfz, steps, last>>

\* The page of the target is missing: nothing is decoded.
FetchPageFault ==
  /\ ~ FetchDenied /\ Len(stack) < 2 /\ mode # "M"
  /\ tval' = pc
  /\ Raise(pc)
  /\ UNCHANGED <<config, prev_pc, prev_is_cfi, prev_type, dretpc, dmaincall, dretpcfz, dfreason, steps, last>>

Sequential ==
  /\ pc + 1 \in Addresses
  /\ Fetched("none") /\ NoTrap
  /\ pc' = pc + 1
  /\ UNCHANGED <<dretpc, dmaincall, dretpcfz>>

\* A branch is recorded whether it is taken or not.
Branch(to) ==
  /\ pc + 1 \in Addresses
  /\ Fetched("branch") /\ NoTrap
  /\ pc' = to
  /\ UNCHANGED <<dretpc, dmaincall, dretpcfz>>

Jump(to) ==
  /\ Fetched("jump") /\ NoTrap
  /\ pc' = to
  /\ UNCHANGED <<dretpc, dmaincall, dretpcfz>>

\* dasicscall: only trusted code may set dretpc. Otherwise the instruction is
\* illegal, after it was decoded as a jump.
DasicsCall(to) ==
  /\ pc + 1 \in Addresses
  /\ Fetched("jump")
  /\ IF Trusted(mode, pc)
     THEN pc' = to /\ dretpc' = pc + 1 /\ NoTrap
     ELSE Len(stack) < 2 /\ Raise(pc) /\ UNCHANGED <<dretpc, tval, dfreason>>
  /\ UNCHANGED <<dmaincall, dretpcfz>>

\* A CSR instruction: untrusted code never gets here, csr_is_legal stops NEMU.
WriteCsr(v) ==
  /\ pc + 1 \in Addresses /\ Trusted(mode, pc)
  /\ Fetched("none") /\ NoTrap
  /\ pc' = pc + 1
  /\ \/ dretpc' = v /\ UNCHANGED <<dmaincall, dretpcfz>>
     \/ dmaincall' = v /\ UNCHANGED <<dretpc, dretpcfz>>
     \/ dretpcfz' = v /\ UNCHANGED <<dretpc, dmaincall>>

\* A load or store of len bytes.
Access(a, len, kind) ==
  LET bad == Denied(a, len, kind)
  IN  /\ pc + 1 \in Addresses
      /\ Fetched("none")
      /\ IF bad = {}
         THEN pc' = pc + 1 /\ NoTrap
         ELSE /\ Len(stack) < 2
              /\ dfreason' = (IF kind = "st" THEN "DFR_SF" ELSE "DFR_LF")
              /\ tval' = a + (CHOOSE i \in bad : \A j \in bad : i <= j)
              /\ Raise(pc)
      /\ UNCHANGED <<dretpc, dmaincall, dretpcfz>>

\* isa_hostcall for ecall.
Ecall ==
  /\ Len(stack) < 2 /\ mode # "M"
  /\ Fetched("none")
  /\ dfreason' = (IF ~ Trusted(mode, pc) /\ <<mode, "et">> \notin config.closed THEN "DFR_EF" ELSE dfreason)
  /\ Raise(pc)
  /\ UNCHANGED <<tval, dretpc, dmaincall, dretpcfz>>

\* An interrupt between two instructions.
Interrupt ==
  /\ Len(stack) < 2 /\ mode # "M"
  /\ Raise(pc)
  /\ UNCHANGED <<config, prev_pc, prev_is_cfi, prev_type, dretpc, dmaincall, dretpcfz, dfreason, tval, steps, last>>

\* mret or sret of a handler: to what was interrupted, or past it.
XRet(skip) ==
  /\ stack # <<>> /\ mode # "U"
  /\ Fetched("none")
  /\ mode' = Head(stack).mode
  /\ pc' = (IF skip /\ Head(stack).pc + 1 \in Addresses THEN Head(stack).pc + 1 ELSE Head(stack).pc)
  /\ stack' = Tail(stack) /\ trapped' = FALSE
  /\ UNCHANGED <<tval, dfreason, epc, dretpc, dmaincall, dretpcfz>>

Init ==
  /\ config \in Configs
  /\ mode = "U" /\ pc = 0 /\ prev_pc = 0 /\ prev_is_cfi = FALSE /\ prev_type = "none"
  /\ dretpc = -1 /\ dmaincall = config.dmaincall /\ dretpcfz = config.dretpcfz
  /\ dfreason = "none" /\ tval = 0 /\ epc = 0 /\ stack = <<>> /\ steps = 0
  /\ last = [mode |-> "U", pc |-> 0, cfi |-> "none"] /\ trapped = FALSE

\* Of what code in M can do only what the others depend on is explored.
Next ==
  \/ FetchFault \/ FetchPageFault \/ Ecall \/ Interrupt
  \/ \E v \in Addresses : WriteCsr(v)
  \/ \E skip \in BOOLEAN : XRet(skip)
  \/ mode # "M" /\ \/ Sequential
                   \/ \E to \in Addresses : Branch(to) \/ Jump(to) \/ DasicsCall(to)
                   \/ \E a \in Addresses, len \in {1, 2}, kind \in {"lt", "st"} : Access(a, len, kind)

Spec == Init /\ [][Next]_vars

-----------------------------------------------------------------------------
\* The registers have their types, and the record of a jump is one of a jump.
TypeOK ==
  /\ mode \in {"M", "S", "U"} /\ pc \in Addresses /\ prev_pc \in Addresses /\ epc \in Addresses
  /\ prev_is_cfi = (prev_type # "none")

JumpsWhereAllowedStep ==
  /\ steps' # steps /\ ~ trapped
  /\ last.cfi # "none" /\ last.mode = mode /\ ~ Trusted(mode, last.pc)
  /\ <<mode, "ft">> \notin config.closed
  => \/ dasics_match_djumpbound(pc)
     \/ last.cfi = "jump" /\ pc \in {dretpc, dmaincall} /\ Trusted(mode, pc)
     \/ last.cfi = "jump" /\ pc = dretpcfz /\ dasics_match_djumpbound(last.pc)

\* Code outside the trusted zone that jumps, and is not interrupted by a trap
\* before the target is fetched, next executes an instruction of the free zone,
\* or the instruction that trusted code named: dretpc or dmaincall in the trusted
\* zone, dretpcfz outside it. A branch reaches the free zone only.
JumpsWhereAllowed == [][JumpsWhereAllowedStep]_vars

JumpFaultNamesJumpStep ==
  FetchFault /\ ~ trapped => epc' = last.pc /\ tval' = pc

\* The exception for a jump names the jump and its target, although it is raised
\* by the fetch of the next instruction.
JumpFaultNamesJump == [][JumpFaultNamesJumpStep]_vars

\* Untrusted code leaves only through the jumps that the bounds and the entry points
\* allow, and the fault of one that is refused names that jump.
DasicsJumps == JumpsWhereAllowed /\ JumpFaultNamesJump
=============================================================================
