-------------------------------- MODULE Pmp ---------------------------------
(***************************************************************************)
(* Physical memory protection: the pmpcfg and pmpaddr registers as         *)
(* csr_read and csr_write of isa/riscv64/system/priv.c see them, and       *)
(* isa_pmp_check_permission of mmu.c, which paddr.c and sc ask before      *)
(* every access.                                                           *)
(*                                                                         *)
(* A word has XLEN bits.  One pmpcfg register holds the entries of all     *)
(* regions; a byte of it is a record of the fields A, L and the set of     *)
(* permissions.  That a write to these registers also flushes the host TLB *)
(* is not kept: PMP is checked in the plain engine only, which has none.   *)
(***************************************************************************)
EXTENDS Integers, FiniteSetsExt, Bits, TLAPS

CONSTANTS
  PMP_NUM,      \* entries (CONFIG_RV_PMP_NUM)
  PADDRBITS,    \* bits of a physical address
  GRAIN,        \* log2 of the smallest region (PMP_PLATFORMGARIN)
  PermsWritten  \* <<L, permissions>> that the guest writes into a pmpcfg byte

PMP_SHIFT == 2
XLEN == PADDRBITS + 3
Entries == 0 .. PMP_NUM - 1
Perms == {"R", "W", "X"}

ASSUME PmpAssumption ==
  /\ {PMP_NUM, PADDRBITS} \subseteq Nat \ {0}
  /\ GRAIN \in PMP_SHIFT + 1 .. PADDRBITS
  /\ PermsWritten \subseteq BOOLEAN \X SUBSET Perms

VARIABLES
  pmpcfg,   \* entry -> [A, L, perms]
  pmpaddr   \* entry -> word

vars == <<pmpcfg, pmpaddr>>

Ones(n) == 2 ^ n - 1
Complement(w) == Ones(XLEN) - w
ClearLow(w, n) == (w \div 2 ^ n) * 2 ^ n   \* w & ~ Ones(n)
SetLow(w, n) == ClearLow(w, n) + Ones(n)  \* w | Ones(n)
ShiftLeft(w, n) == (w * 2 ^ n) % 2 ^ XLEN

Matching == {"OFF", "TOR", "NA4", "NAPOT"}
Config == [A : Matching, L : BOOLEAN, perms : SUBSET Perms]
PmpAddr == 0 .. Ones(PADDRBITS - PMP_SHIFT)

SectorAddrs == {4 * n : n \in 0 .. 2 ^ (PADDRBITS + 1 - PMP_SHIFT) - 1}
Sectors(addr, len) == {addr + 4 * n : n \in 0 .. (len - 1) \div 4}

\* The bits of a pmpaddr below the grain, which pmp_tor_mask clears.
G == GRAIN - PMP_SHIFT

----------------------------------------------------------------------------
\* The registers.

\* Of a pmpaddr the guest sees what the grain leaves of it.
ReadPmpaddr(i) ==
  IF pmpcfg[i].A = "NAPOT" THEN SetLow(pmpaddr[i], G - 1)
  ELSE ClearLow(pmpaddr[i], G)

\* A locked entry keeps its address, and so does the entry below a locked TOR
\* entry, whose region starts there.
Locked(i) ==
  \/ pmpcfg[i].L
  \/ i + 1 \in Entries /\ pmpcfg[i + 1].L /\ pmpcfg[i + 1].A = "TOR"

\* mutant: the start of a locked region can be moved
WritePmpaddrOwnLock(i, src) ==
  /\ pmpaddr' = [pmpaddr EXCEPT ![i] = IF pmpcfg[i].L THEN @ ELSE src % 2 ^ (PADDRBITS - PMP_SHIFT)]
  /\ UNCHANGED pmpcfg

WritePmpaddr(i, src) ==
  /\ pmpaddr' = [pmpaddr EXCEPT ![i] = IF Locked(i) THEN @ ELSE src % 2 ^ (PADDRBITS - PMP_SHIFT)]
  /\ UNCHANGED pmpcfg

\* What is kept of a byte written to pmpcfg: no W without R, and no NA4 where
\* the grain is larger than four bytes.
Legalized(cfg) ==
  [cfg EXCEPT !.perms = IF "R" \in @ THEN @ ELSE @ \ {"W"},
              !.A = IF @ = "NA4" /\ GRAIN # PMP_SHIFT THEN "NAPOT" ELSE @]

\* The whole register is written, the bytes of locked entries included.
WritePmpcfg(src) ==
  /\ pmpcfg' = [i \in Entries |-> Legalized(src[i])]
  /\ UNCHANGED pmpaddr

----------------------------------------------------------------------------
\* isa_pmp_check_permission.

\* paddr.c passes cpu.mode, or S for page tables; only M is looked at again.
EffectiveMode(type, out_mode, hart) ==
  IF out_mode # "M" THEN out_mode
  ELSE IF hart.mprv /\ type # "IFETCH" THEN hart.mpp ELSE hart.mode

Tor(i) == ShiftLeft(ClearLow(pmpaddr[i], G), PMP_SHIFT)

NapotMask(i) ==
  LET m == SetLow(ShiftLeft(pmpaddr[i], 1) + (IF pmpcfg[i].A = "NA4" THEN 0 ELSE 1), G)
  IN  ShiftLeft(Complement(BAnd(XLEN, m, Complement((m + 1) % 2 ^ XLEN))), PMP_SHIFT)

\* mutant: entries that are off do not move the base
BoundsOfActive(i) ==
  LET below == {j \in 0 .. i - 1 : pmpcfg[j].A # "OFF"}
  IN  [base |-> IF below = {} THEN 0 ELSE Tor(Max(below)), tor |-> Tor(i), mask |-> NapotMask(i)]

\* What the loop keeps of an entry: its own bound, the one before it, its mask.
Bounds(i) == [base |-> IF i = 0 THEN 0 ELSE Tor(i - 1), tor |-> Tor(i), mask |-> NapotMask(i)]

\* Whether an entry that is not off matches the four bytes at cur_addr.
SectorMatches(i, bounds, cur_addr) ==
  IF pmpcfg[i].A = "TOR" THEN bounds.base <= cur_addr /\ cur_addr < bounds.tor
  ELSE BAnd(XLEN, BXor(XLEN, cur_addr, bounds.tor), bounds.mask) = 0

\* <<i, a>>: entry i matches the sector at a; sectors past PADDRBITS included.
Matched ==
  UNION {LET bounds == Bounds(i)
         IN  {<<i, a>> : a \in {a \in SectorAddrs : pmpcfg[i].A # "OFF" /\ SectorMatches(i, bounds, a)}} :
           i \in Entries}

Permits(cfg, type, mode) ==
  \/ mode = "M" /\ ~ cfg.L
  \/ type \in {"READ", "IFETCH_READ", "WRITE_READ"} /\ "R" \in cfg.perms
  \/ type = "WRITE" /\ "W" \in cfg.perms
  \/ type = "IFETCH" /\ "X" \in cfg.perms

\* The entry that decides an access that begins at a sector: -1 when none
\* matches any of it, and the flag is false when the entry matches a part only.
\* match is Matched.
Decider(match, addr, len) ==
  LET hits == {i \in Entries : \E a \in Sectors(addr, len) : <<i, a>> \in match}
  IN  IF hits = {} THEN [entry |-> -1, whole |-> TRUE]
      ELSE [entry |-> Min(hits), whole |-> \A a \in Sectors(addr, len) : <<Min(hits), a>> \in match]

\* d is Decider for the address and the length.
isa_pmp_check_permission(d, type, out_mode, hart) ==
  LET mode == EffectiveMode(type, out_mode, hart)
  IN  IF d.entry = -1 THEN mode = "M" ELSE d.whole /\ Permits(pmpcfg[d.entry], type, mode)

----------------------------------------------------------------------------
Init ==
  /\ pmpcfg = [i \in Entries |-> [A |-> "OFF", L |-> FALSE, perms |-> {}]]
  /\ pmpaddr = [i \in Entries |-> 0]

Written == [Entries -> {[A |-> a, L |-> p[1], perms |-> p[2]] : a \in Matching, p \in PermsWritten}]

Next ==
  \/ \E i \in Entries, src \in 0 .. 2 ^ (PADDRBITS - 1) - 1 : WritePmpaddr(i, src)
  \/ \E src \in Written : WritePmpcfg(src)

Spec == Init /\ [][Next]_vars

----------------------------------------------------------------------------
\* The registers have their fields, and hold no setting the code rules out.
TypeOK ==
  /\ pmpcfg \in [Entries -> Config]
  /\ pmpaddr \in [Entries -> PmpAddr]
  /\ \A i \in Entries : /\ "W" \in pmpcfg[i].perms => "R" \in pmpcfg[i].perms
                        /\ GRAIN # PMP_SHIFT => pmpcfg[i].A # "NA4"

\* The region of an entry, from what the guest reads: a TOR entry ends below
\* its address and begins at the one before it; a NAPOT entry is the aligned
\* block whose size the trailing ones of its address tell.
Addr(i) == ReadPmpaddr(i) * 2 ^ PMP_SHIFT
Region(i) ==
  CASE pmpcfg[i].A = "OFF" -> {}
    [] pmpcfg[i].A = "TOR" ->
         (IF i = 0 THEN 0 ELSE ClearLow(Addr(i - 1), GRAIN)) .. (Addr(i) - 1)
    [] pmpcfg[i].A = "NA4" -> Addr(i) .. (Addr(i) + 3)
    [] OTHER ->
         LET size == Max({n \in 0 .. XLEN : ReadPmpaddr(i) % 2 ^ n = Ones(n)}) + PMP_SHIFT + 1
             start == ClearLow(Addr(i), size)
         IN  start .. (start + 2 ^ size - 1)

Accesses == {a \in SectorAddrs \X {4, 8} : a[1] % a[2] = 0}
Harts == {[mode |-> "M", mprv |-> v, mpp |-> m] : v \in BOOLEAN, m \in {"U", "M"}}
           \cup {[mode |-> "S", mprv |-> FALSE, mpp |-> "U"]}

\* The check of isa_pmp_check_permission is the one the registers describe to
\* the guest that reads them: the first entry whose region holds a byte of an
\* aligned access decides; it must hold all of them and give the permission,
\* or be unlocked in M mode.  With no such entry only M mode may access; what
\* mprv turns into another mode is judged in that mode, fetches are not.
ChecksWhatIsRead ==
  LET match == Matched
      region == [i \in Entries |-> Region(i)]
  IN  \A a \in Accesses :
        LET d == Decider(match, a[1], a[2])
            bytes == a[1] .. (a[1] + a[2] - 1)
            first == {i \in Entries : /\ region[i] \cap bytes # {}
                                      /\ \A j \in 0 .. i - 1 : region[j] \cap bytes = {}}
        IN  \A type \in {"READ", "WRITE", "IFETCH"}, hart \in Harts :
              LET mode == IF hart.mode = "M" /\ hart.mprv /\ type # "IFETCH" THEN hart.mpp ELSE hart.mode
                  needs == CASE type = "READ" -> "R" [] type = "WRITE" -> "W" [] OTHER -> "X"
              IN  isa_pmp_check_permission(d, type, hart.mode, hart) <=>
                    /\ mode = "M" \/ first # {}
                    /\ \A i \in first : /\ bytes \subseteq region[i]
                                        /\ (mode = "M" /\ ~ pmpcfg[i].L) \/ needs \in pmpcfg[i].perms

\* No write to a pmpaddr register, of whichever entry, moves the region of a
\* locked entry.
LockedRegionKept ==
  [][pmpcfg' = pmpcfg => \A i \in Entries : pmpcfg[i].L => Region(i)' = Region(i)]_vars

-----------------------------------------------------------------------------
(* For every number of PMP entries, address width and grain: a write to a  *)
(* pmpaddr register does not move the region of a locked entry.  The       *)
(* region depends on the entry's own address register, which its lock      *)
(* protects, and, when it is TOR, on the register before it, which the     *)
(* second half of the lock rule of csr_write protects.                     *)

\* All that the argument needs of the registers: there is one per entry.
Registers == DOMAIN pmpaddr = Entries


\* It holds in the beginning and is kept by every step.
LEMMA InitRegisters == Init => Registers
BY DEF Init, Registers

\* Every write keeps a register per entry.
LEMMA NextRegisters == Registers /\ [Next]_vars => Registers'
BY DEF Registers, Next, WritePmpaddr, WritePmpcfg, vars

\* What the guest reads of an entry depends on its own registers only.
LEMMA ReadSame ==
  ASSUME NEW i, pmpcfg' = pmpcfg, pmpaddr'[i] = pmpaddr[i]
  PROVE  ReadPmpaddr(i)' = ReadPmpaddr(i)
BY DEF ReadPmpaddr

\* The region of an entry depends on its registers and, of a TOR entry, on the
\* address before it.
LEMMA RegionSame ==
  ASSUME NEW i, pmpcfg' = pmpcfg, pmpaddr'[i] = pmpaddr[i],
         pmpcfg[i].A = "TOR" /\ i # 0 => pmpaddr'[i - 1] = pmpaddr[i - 1]
  PROVE  Region(i)' = Region(i)
<1>1. Addr(i)' = Addr(i) /\ ReadPmpaddr(i)' = ReadPmpaddr(i)
  BY ReadSame DEF Addr
<1>2. pmpcfg[i].A = "TOR" /\ i # 0 => Addr(i - 1)' = Addr(i - 1)
  BY ReadSame DEF Addr
<1>3. CASE pmpcfg[i].A = "TOR"
  BY <1>1, <1>2, <1>3 DEF Region
<1>4. CASE pmpcfg[i].A # "TOR"
  BY <1>1, <1>4 DEF Region
<1> QED
  BY <1>3, <1>4

\* The lock rule keeps both registers that the region of a locked entry needs.
LEMMA WriteKeepsLocked ==
  ASSUME Registers, NEW j \in Entries, NEW src, WritePmpaddr(j, src),
         NEW i \in Entries, pmpcfg[i].L
  PROVE  Region(i)' = Region(i)
<1>1. \A k \in Entries : k # j \/ Locked(k) => pmpaddr'[k] = pmpaddr[k]
  BY DEF WritePmpaddr, Registers
<1>2. pmpaddr'[i] = pmpaddr[i]
  BY <1>1 DEF Locked
<1>3. ASSUME pmpcfg[i].A = "TOR", i # 0 PROVE pmpaddr'[i - 1] = pmpaddr[i - 1]
  <2>1. i - 1 \in Entries /\ (i - 1) + 1 = i
    BY <1>3, PmpAssumption DEF Entries
  <2>2. Locked(i - 1)
    BY <1>3, <2>1 DEF Locked
  <2> QED
    BY <1>1, <2>1, <2>2
<1>4. pmpcfg' = pmpcfg
  BY DEF WritePmpaddr
<1> QED
  BY <1>2, <1>3, <1>4, RegionSame

(* Whatever the guest writes to a pmpaddr register, and whichever it       *)
(* writes, the regions of locked entries stay where they are.              *)
THEOREM LockedRegionsStay == Spec => LockedRegionKept
<1>1. Registers /\ [Next]_vars =>
        [pmpcfg' = pmpcfg => \A i \in Entries : pmpcfg[i].L => Region(i)' = Region(i)]_vars
  <2> SUFFICES ASSUME Registers, Next, pmpcfg' = pmpcfg, NEW i \in Entries, pmpcfg[i].L
               PROVE  Region(i)' = Region(i)
    BY DEF vars
  <2>1. CASE \E j \in Entries, src \in 0 .. 2 ^ (PADDRBITS - 1) - 1 : WritePmpaddr(j, src)
    BY <2>1, WriteKeepsLocked
  <2>2. CASE \E src \in Written : WritePmpcfg(src)
    <3>1. pmpaddr' = pmpaddr
      BY <2>2 DEF WritePmpcfg
    <3> QED
      BY <3>1, RegionSame
  <2> QED
    BY <2>1, <2>2 DEF Next
<1> QED
  BY <1>1, InitRegisters, NextRegisters, PTL DEF Spec, LockedRegionKept
=============================================================================
