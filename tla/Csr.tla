-------------------------------- MODULE Csr --------------------------------
\* The register file behind csrrw (isa/riscv64/system/priv.c, csr.h): which
\* registers exist, who may access them, and what a write leaves to be read,
\* from the register itself and from the registers that share its bits.  A
\* word is the set of its bits that are 1.  Traps change the same registers in
\* the module Trap, the floating-point ones are in Fp, pmp* in Pmp.
EXTENDS Integers, FiniteSets

CONSTANTS Families   \* [regs, bits, rvn, rvv, dasics]: registers written together, bits used in them

VARIABLES
  fam,        \* the family of this behaviour
  csr_array   \* the words

vars == <<fam, csr_array>>
U == 0
S == 1
M == 3

\* The addresses of csr.h, by name.
Addr == [mstatus |-> 768, medeleg |-> 770, mideleg |-> 771, mie |-> 772, mtvec |-> 773, mepc |-> 833, mip |-> 836, mhartid |-> 3860,
         sstatus |-> 256, sedeleg |-> 258, sideleg |-> 259, sie |-> 260, stvec |-> 261, sepc |-> 321, sip |-> 324,
         ustatus |-> 0, uie |-> 4, utvec |-> 5, uepc |-> 65, uip |-> 68, vxsat |-> 9, vxrm |-> 10, vcsr |-> 15, vl |-> 3104,
         dsmcfg |-> 3008, dumcfg |-> 2528, dlbound0 |-> 2192, djbound0lo |-> 2240, upkru |-> 2048, spkctl |-> 2512]
NCSRS == {"ustatus", "uie", "utvec", "uepc", "uip", "sedeleg", "sideleg"}
VCSRS == {"vxsat", "vxrm", "vcsr", "vl"}
DASICS_CSRS == {"dsmcfg", "dumcfg", "dlbound0", "djbound0lo", "upkru", "spkctl"}
csr_exist(r) == (r \in NCSRS => fam.rvn) /\ (r \in VCSRS => fam.rvv) /\ (r \in DASICS_CSRS => fam.dasics)

\* addr(9,8) is the lowest level, addr(11,10) = 3 read-only; the level panics.
csr_is_legal(r, need_write, mode) ==
  /\ csr_exist(r) /\ mode >= (Addr[r] \div 256) % 4
  /\ ~ (need_write /\ Addr[r] \div 1024 = 3)

mask_bitset(old, mask, new) == (old \ mask) \cup (new \cap mask)
SD == 63
MSTATUS_WMASK == {0, 1, 3, 4, 5, 7, 8, 11, 12, 13, 14, 17, 18, 19, 20, 21, 22, SD}
SSTATUS_WMASK == {19, 18, 14, 13, 8, 5, 1} \cup (IF fam.rvv THEN {9, 10} ELSE {}) \cup (IF fam.rvn THEN {4, 0} ELSE {})
SSTATUS_RMASK == SSTATUS_WMASK \cup {15, 16, SD, 32, 33}
USTATUS_WMASK == {4, 0}
MIP_MASK == {0, 1, 3, 4, 5, 7, 8, 9, 11}
SIE_MASK(a) == {0, 1, 4, 5, 8, 9} \cap a.mideleg
UIE_MASK(a) == {0, 4, 8} \cap a.sideleg
SIP_WMASK_S == {0, 1}
UIP_WMASK_U == {0}
DUMCFG_MASK == {5, 4, 3, 2, 1}
DSMCFG_MASK == 0 .. 9
MEDELEG_MASK == (0 .. 9) \cup {12, 13, 15} \cup (IF fam.dasics THEN {24, 25} ELSE {})

\* update_mstatus_sd: SD is set when FS is dirty.
WithSd(s) == IF {13, 14} \subseteq s THEN s \cup {SD} ELSE s \ {SD}

csr_read(a, r) ==
  CASE r = "mstatus" -> WithSd(a.mstatus) [] r = "sstatus" -> WithSd(a.mstatus) \cap SSTATUS_RMASK
    [] r = "ustatus" -> a.mstatus \cap USTATUS_WMASK
    [] r = "sie" -> a.mie \cap SIE_MASK(a) [] r = "uie" -> a.mie \cap UIE_MASK(a)
    [] r = "sip" -> a.mip \cap SIE_MASK(a) [] r = "uip" -> a.mip \cap UIE_MASK(a)
    [] r \in {"mtvec", "stvec", "utvec"} -> a[r] \ {1}
    [] r = "dsmcfg" -> a.dsmcfg \cap DSMCFG_MASK [] r = "dumcfg" -> a.dsmcfg \cap DUMCFG_MASK
    [] r = "spkctl" -> a.spkctl \cap {0, 1}
    [] r = "vcsr" -> (a.vxsat \cap {0}) \cup {b + 1 : b \in a.vxrm \cap {0, 1}}
    [] OTHER -> a[r]

\* The words after a write of src to r.
csr_write_swapped(a, r, src, mode) == [a EXCEPT ![IF r = "sip" THEN "mie" ELSE r] = src]
csr_write(a, r, src, mode) ==
  CASE r = "mstatus" -> [a EXCEPT !.mstatus = WithSd(mask_bitset(@, MSTATUS_WMASK, src))]
    [] r = "sstatus" -> [a EXCEPT !.mstatus = WithSd(mask_bitset(@, SSTATUS_WMASK, src))]
    [] r = "ustatus" -> [a EXCEPT !.mstatus = mask_bitset(@, USTATUS_WMASK, src)]
    [] r = "sie" -> [a EXCEPT !.mie = mask_bitset(@, SIE_MASK(a), src)]
    [] r = "uie" -> [a EXCEPT !.mie = mask_bitset(@, UIE_MASK(a), src)]
    [] r = "mip" -> [a EXCEPT !.mip = mask_bitset(@, MIP_MASK, src)]
    [] r = "sip" -> [a EXCEPT !.mip = mask_bitset(@, IF mode = S THEN SIP_WMASK_S ELSE SIE_MASK(a), src)]
    [] r = "uip" -> [a EXCEPT !.mip = mask_bitset(@, IF mode = U THEN UIP_WMASK_U ELSE UIE_MASK(a), src)]
    \* XTVEC_VECTORED_MODE is tested without CONFIG_ and so never defined.
    [] r \in {"mtvec", "stvec", "utvec"} -> [a EXCEPT ![r] = src \ {0, 1}]
    [] r = "mideleg" -> [a EXCEPT !.mideleg = src \cap IF fam.rvn THEN {0, 1, 4, 5, 8, 9} ELSE {1, 5, 9}]
    [] r = "medeleg" -> [a EXCEPT !.medeleg = src \cap MEDELEG_MASK]
    [] r = "sideleg" -> [a EXCEPT !.sideleg = src \cap a.mideleg]
    [] r = "sedeleg" -> [a EXCEPT !.sedeleg = src \cap a.medeleg]
    [] r = "vcsr" -> [a EXCEPT !.vxrm = {b - 1 : b \in src \cap {1, 2}}, !.vxsat = src \cap {0}]
    [] r \in {"mepc", "sepc", "uepc"} -> [a EXCEPT ![r] = src \ {0}]
    [] r = "spkctl" -> [a EXCEPT !.spkctl = src \cap {0, 1}]
    [] r \in {"dsmcfg", "dumcfg"} ->
         [a EXCEPT !.dsmcfg = mask_bitset(@, IF r = "dsmcfg" THEN DSMCFG_MASK ELSE DUMCFG_MASK, src)]
    [] r \in {"dlbound0", "djbound0lo"} -> [a EXCEPT ![r] = src \ {0, 1, 2}]
    [] OTHER -> [a EXCEPT ![r] = src]

Init == fam \in Families /\ csr_array = [r \in DOMAIN Addr |-> {}]

\* csrrw: an illegal access raises or panics.
csrrw(r, src, mode) ==
  /\ csr_array' = IF csr_is_legal(r, TRUE, mode) THEN csr_write(csr_array, r, src, mode) ELSE csr_array
  /\ UNCHANGED fam

Next == \E r \in fam.regs, src \in SUBSET fam.bits, mode \in {U, S, M} : csrrw(r, src, mode)
Spec == Init /\ [][Next]_vars

-----------------------------------------------------------------------------
\* What the privileged manual lets a write of r change in a read of r, at the
\* moment of the write; csr_write cannot reach vs through mstatus, and the mode of a
\* trap vector is direct, which the manual allows, whatever the Kconfig option says.
Fields(r, mode, a) ==
  CASE r = "mstatus" -> MSTATUS_WMASK \ {SD} [] r = "sstatus" -> SSTATUS_WMASK [] r = "ustatus" -> {0, 4}
    [] r = "sie" -> a.mideleg \cap {0, 1, 4, 5, 8, 9} [] r = "uie" -> a.sideleg \cap {0, 4, 8}
    [] r = "sip" -> IF mode = S THEN a.mideleg \cap {0, 1} ELSE a.mideleg \cap {0, 1, 4, 5, 8, 9}
    [] r = "uip" -> IF mode = U THEN a.sideleg \cap {0} ELSE a.sideleg \cap {0, 4, 8}
    [] r = "mip" -> MIP_MASK [] r \in {"mtvec", "stvec", "utvec"} -> fam.bits \ {0, 1} [] r \in {"mepc", "sepc", "uepc"} -> fam.bits \ {0}
    [] r = "mideleg" -> IF fam.rvn THEN {0, 1, 4, 5, 8, 9} ELSE {1, 5, 9} [] r = "sideleg" -> a.mideleg
    [] r = "medeleg" -> (0 .. 9) \cup {12, 13, 15} \cup (IF fam.dasics THEN {24, 25} ELSE {}) [] r = "sedeleg" -> a.medeleg
    [] r = "vcsr" -> {0, 1, 2} [] r = "spkctl" -> {0, 1} [] r = "dsmcfg" -> 0 .. 9 [] r = "dumcfg" -> 1 .. 5
    [] r \in {"dlbound0", "djbound0lo"} -> fam.bits \ {0, 1, 2} [] OTHER -> fam.bits

\* What every legal write of the registers does, from the state at hand.
EveryWrite(P(_, _, _, _)) ==
  \A r \in fam.regs, src \in SUBSET fam.bits, mode \in {U, S, M} :
    csr_is_legal(r, TRUE, mode) => P(r, src, mode, csr_write(csr_array, r, src, mode))

\* The registers whose bits outside the fields read as zero.
Zeros == {"sideleg", "sedeleg", "mtvec", "stvec", "utvec", "mepc", "sepc", "uepc", "medeleg", "mideleg", "spkctl", "dlbound0", "djbound0lo"}

\* A write is read back: its bits in the fields that the level may write, the
\* old ones elsewhere (csr_write, csr_read, through every alias and mask); SD
\* reads as FS = dirty whatever was written.
ReadBack ==
  EveryWrite(LAMBDA r, src, mode, a :
    LET keep == IF r \in Zeros THEN {} ELSE csr_read(csr_array, r)
        now == csr_read(a, r)
    IN  /\ now \ {SD} = mask_bitset(keep, Fields(r, mode, csr_array), src) \ {SD}
        /\ r \in {"mstatus", "sstatus"} => (SD \in now) = ({13, 14} \subseteq a.mstatus))

\* The registers that show bits of each other.
Group(r) == CASE r \in {"mstatus", "sstatus", "ustatus"} -> "status" [] r \in {"mie", "sie", "uie"} -> "ie" [] r \in {"mip", "sip", "uip"} -> "ip"
              [] r \in {"dsmcfg", "dumcfg"} -> "cfg" [] r \in {"vcsr", "vxrm", "vxsat"} -> "v" [] OTHER -> r
Views == {"sie", "uie", "sip", "uip"}

\* A write shows in no register but those that alias the one written; a write
\* of mideleg or sideleg also moves the windows sie, sip, uie, uip (csr_write).
OnlyAliases ==
  EveryWrite(LAMBDA r, src, mode, a :
    \A x \in {y \in fam.regs : csr_exist(y)} :
      csr_read(a, x) # csr_read(csr_array, x) => Group(x) = Group(r) \/ (x \in Views /\ r \in {"mideleg", "sideleg"}))

\* What is written below M mode never reaches what belongs to M: mie bits that
\* are not delegated, the timer and external bits of mip, the M fields of
\* mstatus, the delegation by M (SIE_MASK, SIP_WMASK_S, SSTATUS_WMASK); what is
\* written in U mode never reaches what belongs to S.
Confined ==
  EveryWrite(LAMBDA r, src, mode, a :
    LET Changed(x) == (a[x] \ csr_array[x]) \cup (csr_array[x] \ a[x])
        s == csr_array.sideleg
    IN  mode < M =>
          /\ Changed("mideleg") = {} /\ Changed("medeleg") = {} /\ Changed("mtvec") = {} /\ Changed("mepc") = {}
          /\ Changed("mie") \subseteq s \cup IF mode = S THEN csr_array.mideleg ELSE {}
          /\ Changed("mip") \subseteq UIP_WMASK_U \cup IF mode = S THEN SIP_WMASK_S \cup s ELSE {}
          /\ Changed("mstatus") \subseteq {SD} \cup (IF mode = S THEN SSTATUS_WMASK ELSE USTATUS_WMASK)
          /\ mode = U => Changed("sideleg") = {} /\ Changed("sedeleg") = {} /\ Changed("stvec") = {} /\ Changed("dsmcfg") = {})

\* A write to a CSR is read back under its mask, changes only registers that are views
\* of it, and only what its mode may change.
CsrSound == ReadBack /\ OnlyAliases /\ Confined
=============================================================================
