---------------------------- MODULE HostTlbProofs ---------------------------
(***************************************************************************)
(* Proofs that the host TLB holds what the page tables mapped and that it  *)
(* cannot be told from the walk while the tables are quiet, for page       *)
(* tables of any number of levels and TLBs of any size.                    *)
(***************************************************************************)
EXTENDS HostTlb, NaturalsInduction, WellFoundedInduction, TLAPS


----------------------------------------------------------------------------
\* Induction on the levels of a walk: every set of naturals has a least element.
LEMMA Least == ASSUME NEW T, T \subseteq Nat, T # {} PROVE \E x \in T : \A y \in T : x <= y
<1> DEFINE R == {ss \in Nat \X Nat : ss[1] < ss[2]}
<1>1. IsWellFoundedOn(R, Nat) BY NatLessThanWellFounded DEF OpToRel
<1> HIDE DEF R
<1>2. PICK x \in T : \A y \in T : ~(<<y, x>> \in R) BY <1>1, WFMin
<1>3. \A y \in T : ~ (y < x) BY <1>2 DEF R
<1> QED BY <1>3

\* The recursion of the walk is well defined.
LEMMA WalkIs ==
  ASSUME NEW entries, NEW vpn, PTW_LEVEL \in Nat \ {0}
  PROVE  WalkOf(entries, vpn)
           = [level \in Levels |-> WalkLevel(entries, vpn, level, WalkOf(entries, vpn)[level - 1])]
<1> DEFINE W(f, k) == WalkLevel(entries, vpn, k, f[k - 1])
           G(f, n) == f = [k \in 0 .. n |-> W(f, k)]
           C == {n \in Nat : ~ \E f : G(f, n)}
<1>1. C = {}
  <2> SUFFICES ASSUME C # {} PROVE FALSE OBVIOUS
  <2>1. PICK n \in C : \A y \in C : n <= y BY Least
  <2>2. \A f, g : W(f, 0) = W(g, 0) BY DEF WalkLevel
  <2> HIDE DEF W
  <2>3. n # 0
    <3> DEFINE g == [k \in 0 .. 0 |-> W(<<>>, 0)]
    <3>1. G(g, 0) BY <2>2
    <3> QED BY <3>1
  <2>4. n - 1 \in Nat /\ n - 1 \notin C BY <2>1, <2>3
  <2>5. PICK f : G(f, n - 1) BY <2>4
  <2> DEFINE g == [k \in 0 .. n |-> IF k = n THEN W(f, n) ELSE f[k]]
  <2>6. \A k \in 1 .. n : g[k - 1] = f[k - 1] BY <2>1, <2>5
  <2>7. \A k \in 1 .. n : W(g, k) = W(f, k) BY <2>6 DEF W
  <2>8. \A k \in 0 .. n : g[k] = W(g, k)
    <3> SUFFICES ASSUME NEW k \in 0 .. n PROVE g[k] = W(g, k) OBVIOUS
    <3>1. CASE k = n BY <2>1, <2>3, <2>7, <3>1
    <3>2. CASE k # n
      <4>1. k \in 0 .. n - 1 BY <2>1, <3>2
      <4>2. g[k] = W(f, k) BY <2>5, <3>2, <4>1
      <4> QED BY <2>1, <2>2, <2>7, <4>1, <4>2
    <3> QED BY <3>1, <3>2
  <2>9. G(g, n) BY <2>8
  <2> QED BY <2>9, <2>1
<1>2. \E f : G(f, PTW_LEVEL - 1)
  <2>1. PTW_LEVEL - 1 \in Nat OBVIOUS
  <2> QED BY <1>1, <2>1
<1>3. WalkOf(entries, vpn) = CHOOSE f : G(f, PTW_LEVEL - 1) BY DEF WalkOf, Levels
<1>4. G(CHOOSE f : G(f, PTW_LEVEL - 1), PTW_LEVEL - 1) BY <1>2, Zenon
<1> QED BY <1>3, <1>4 DEF Levels

Parts == [v : BOOLEAN, r : BOOLEAN, w : BOOLEAN, x : BOOLEAN, ppn : Ppn]
Stops == [kind : {"leaf", "bad", "access"}, level : Levels, at : Ppn \X Idx]

\* A walk from any table stops at an entry of a table.
LEMMA WalkType ==
  ASSUME NEW entries \in [Ppn \X Idx -> Parts], NEW vpn \in VPages, PTW_LEVEL \in Nat \ {0}
  PROVE  WalkOf(entries, vpn) \in [Levels -> [Ppn -> Stops]]
<1> DEFINE walk == WalkOf(entries, vpn)
           C == {n \in Levels : walk[n] \notin [Ppn -> Stops]}
<1>1. walk = [level \in Levels |-> WalkLevel(entries, vpn, level, walk[level - 1])] BY WalkIs
<1> HIDE DEF walk
<1>2. ASSUME NEW k \in Levels, k # 0 => walk[k - 1] \in [Ppn -> Stops]
      PROVE  walk[k] \in [Ppn -> Stops]
  <2> DEFINE below == walk[k - 1]
  <2>1. walk[k] = WalkLevel(entries, vpn, k, below) BY <1>1
  <2>2. k # 0 => below \in [Ppn -> Stops] BY <1>2
  <2> HIDE DEF below
  <2>3. ASSUME NEW base \in Ppn PROVE walk[k][base] \in Stops
    <3>1. <<base, vpn[k]>> \in Ppn \X Idx BY DEF VPages
    <3>2. entries[<<base, vpn[k]>>].ppn \in Ppn BY <3>1 DEF Parts
    <3>3. \A kind \in {"leaf", "bad", "access"} : Stop(kind, k, <<base, vpn[k]>>) \in Stops
      BY <3>1 DEF Stop, Stops
    <3> QED BY <2>1, <2>2, <3>2, <3>3 DEF WalkLevel
  <2>4. walk[k] = [base \in Ppn |-> walk[k][base]] BY <2>1 DEF WalkLevel
  <2> QED BY <2>3, <2>4
<1>3. C = {}
  <2> SUFFICES ASSUME C # {} PROVE FALSE OBVIOUS
  <2>0. C \subseteq Nat BY DEF Levels
  <2> HIDE DEF C
  <2>1. PICK n \in C : \A y \in C : n <= y BY <2>0, Least
  <2> USE DEF C
  <2>2. n # 0 => n - 1 \in Levels \ C BY <2>1 DEF Levels
  <2> QED BY <1>2, <2>1, <2>2
<1> QED BY <1>1, <1>3 DEF walk

\* The digits of a page number, from the highest on.
LEMMA LowIs ==
  ASSUME NEW vpn, NEW level \in Nat
  PROVE  LowParts(vpn, level)
           = [k \in 0 .. level |-> IF k = 0 THEN 0 ELSE LowParts(vpn, level)[k - 1] * VPNS + vpn[level - k]]
<1> DEFINE W(f, k) == IF k = 0 THEN 0 ELSE f[k - 1] * VPNS + vpn[level - k]
           G(f, n) == f = [k \in 0 .. n |-> W(f, k)]
           C == {n \in Nat : ~ \E f : G(f, n)}
<1>1. C = {}
  <2> SUFFICES ASSUME C # {} PROVE FALSE OBVIOUS
  <2>1. PICK n \in C : \A y \in C : n <= y BY Least
  <2>2. \A f, g : W(f, 0) = W(g, 0) OBVIOUS
  <2> HIDE DEF W
  <2>3. n # 0
    <3> DEFINE g == [k \in 0 .. 0 |-> W(<<>>, 0)]
    <3>1. G(g, 0) BY <2>2
    <3> QED BY <3>1
  <2>4. n - 1 \in Nat /\ n - 1 \notin C BY <2>1, <2>3
  <2>5. PICK f : G(f, n - 1) BY <2>4
  <2> DEFINE g == [k \in 0 .. n |-> IF k = n THEN W(f, n) ELSE f[k]]
  <2>6. \A k \in 1 .. n : g[k - 1] = f[k - 1] BY <2>1, <2>5
  <2>7. \A k \in 1 .. n : W(g, k) = W(f, k) BY <2>6 DEF W
  <2>8. \A k \in 0 .. n : g[k] = W(g, k)
    <3> SUFFICES ASSUME NEW k \in 0 .. n PROVE g[k] = W(g, k) OBVIOUS
    <3>1. CASE k = n BY <2>1, <2>3, <2>7, <3>1
    <3>2. CASE k # n
      <4>1. k \in 0 .. n - 1 BY <2>1, <3>2
      <4>2. g[k] = W(f, k) BY <2>5, <3>2, <4>1
      <4> QED BY <2>1, <2>2, <2>7, <4>1, <4>2
    <3> QED BY <3>1, <3>2
  <2>9. G(g, n) BY <2>8
  <2> QED BY <2>9, <2>1
<1>2. \E f : G(f, level) BY <1>1
<1>3. LowParts(vpn, level) = CHOOSE f : G(f, level) BY DEF LowParts
<1>4. G(CHOOSE f : G(f, level), level) BY <1>2, Zenon
<1> QED BY <1>3, <1>4

\* Page numbers are numbers.
LEMMA LowType ==
  ASSUME NEW vpn \in VPages, NEW level \in 0 .. PTW_LEVEL, PTW_LEVEL \in Nat, VPNS \in Nat
  PROVE  LowParts(vpn, level) \in [0 .. level -> Nat]
<1> DEFINE low == LowParts(vpn, level)
           C == {n \in 0 .. level : low[n] \notin Nat}
<1>1. low = [k \in 0 .. level |-> IF k = 0 THEN 0 ELSE low[k - 1] * VPNS + vpn[level - k]]
  BY LowIs
<1> HIDE DEF low
<1>2. ASSUME NEW k \in 0 .. level, k # 0 => low[k - 1] \in Nat PROVE low[k] \in Nat
  <2>1. CASE k = 0 BY <1>1, <2>1
  <2>2. CASE k # 0
    <3>1. vpn[level - k] \in Nat BY <2>2 DEF VPages, Levels, Idx
    <3>2. low[k] = low[k - 1] * VPNS + vpn[level - k] BY <1>1, <2>2
    <3>3. \A a, b \in Nat : a * VPNS + b \in Nat OBVIOUS
    <3> QED BY <1>2, <2>2, <3>1, <3>2, <3>3
  <2> QED BY <2>1, <2>2
<1>3. C = {}
  <2> SUFFICES ASSUME C # {} PROVE FALSE OBVIOUS
  <2>0. C \subseteq Nat OBVIOUS
  <2> HIDE DEF C
  <2>1. PICK n \in C : \A y \in C : n <= y BY <2>0, Least
  <2> USE DEF C
  <2>2. n # 0 => n - 1 \in 0 .. level /\ n - 1 \notin C BY <2>1
  <2> QED BY <1>2, <2>1, <2>2
<1> QED BY <1>1, <1>3 DEF low

\* The last digit of a number and what is before it are determined by the number.
LEMMA Digit ==
  ASSUME NEW X \in Nat, NEW s \in 0 .. X - 1, NEW t \in 0 .. X - 1, NEW d \in Nat, NEW e \in Nat,
         d * X + s = e * X + t
  PROVE  d = e /\ s = t
<1>1. ~ (d < e)
  <2> SUFFICES ASSUME d < e PROVE FALSE OBVIOUS
  <2>1. (d + 1) * X <= e * X OBVIOUS
  <2>2. (d + 1) * X = d * X + X OBVIOUS
  <2> QED BY <2>1, <2>2
<1>2. ~ (e < d)
  <2> SUFFICES ASSUME e < d PROVE FALSE OBVIOUS
  <2>1. (e + 1) * X <= d * X OBVIOUS
  <2>2. (e + 1) * X = e * X + X OBVIOUS
  <2> QED BY <2>1, <2>2
<1> QED BY <1>1, <1>2

\* hosttlb_vpn tells pages apart: an entry belongs to one page.
LEMMA PagesDiffer ==
  ASSUME NEW v \in VPages, NEW u \in VPages, hosttlb_vpn(v) = hosttlb_vpn(u),
         PTW_LEVEL \in Nat, VPNS \in Nat
  PROVE  v = u
<1> DEFINE L == PTW_LEVEL
           lv == LowParts(v, L)
           lu == LowParts(u, L)
           C == {n \in 0 .. L : lv[L - n] # lu[L - n]}
<1>1. lv = [k \in 0 .. L |-> IF k = 0 THEN 0 ELSE lv[k - 1] * VPNS + v[L - k]] BY LowIs
<1>2. lu = [k \in 0 .. L |-> IF k = 0 THEN 0 ELSE lu[k - 1] * VPNS + u[L - k]] BY LowIs
<1>3. lv \in [0 .. L -> Nat] /\ lu \in [0 .. L -> Nat] BY LowType
<1>4. lv[L] = lu[L] BY DEF hosttlb_vpn, LowPart
<1> HIDE DEF lv, lu
<1>5. ASSUME NEW k \in 1 .. L, lv[k] = lu[k] PROVE lv[k - 1] = lu[k - 1] /\ v[L - k] = u[L - k]
  <2>1. v[L - k] \in 0 .. VPNS - 1 /\ u[L - k] \in 0 .. VPNS - 1 BY DEF VPages, Levels, Idx
  <2>2. lv[k] = lv[k - 1] * VPNS + v[L - k] /\ lu[k] = lu[k - 1] * VPNS + u[L - k] BY <1>1, <1>2
  <2>3. lv[k - 1] \in Nat /\ lu[k - 1] \in Nat BY <1>3
  <2>4. lv[k - 1] * VPNS + v[L - k] = lu[k - 1] * VPNS + u[L - k] BY <1>5, <2>2
  <2> DEFINE d == lv[k - 1]
             e == lu[k - 1]
             s == v[L - k]
             t == u[L - k]
  <2>5. d \in Nat /\ e \in Nat /\ s \in 0 .. VPNS - 1 /\ t \in 0 .. VPNS - 1
          /\ d * VPNS + s = e * VPNS + t
    BY <2>1, <2>3, <2>4
  <2> HIDE DEF d, e, s, t
  <2>6. d = e /\ s = t BY <2>5, Digit
  <2> QED BY <2>6 DEF d, e, s, t
<1>6. C = {}
  <2> SUFFICES ASSUME C # {} PROVE FALSE OBVIOUS
  <2>0. C \subseteq Nat OBVIOUS
  <2> HIDE DEF C
  <2>1. PICK n \in C : \A y \in C : n <= y BY <2>0, Least
  <2> USE DEF C
  <2>2. n # 0 BY <1>4, <2>1
  <2>3. n - 1 \in 0 .. L /\ n - 1 \notin C BY <2>1, <2>2
  <2>4. lv[L - (n - 1)] = lu[L - (n - 1)] BY <2>3
  <2>5. L - (n - 1) \in 1 .. L /\ (L - (n - 1)) - 1 = L - n BY <2>1, <2>2
  <2>6. lv[L - n] = lu[L - n] BY <1>5, <2>4, <2>5
  <2> QED BY <2>1, <2>6
<1>7. ASSUME NEW i \in Levels PROVE v[i] = u[i]
  <2>1. L - i \in 1 .. L /\ L - (L - i) = i BY DEF Levels
  <2>2. L - (L - i) \in 0 .. L /\ i \in 0 .. L BY <2>1 DEF Levels
  <2>3. lv[L - i] = lu[L - i] BY <1>6, <2>2
  <2> QED BY <1>5, <2>1, <2>3
<1> QED BY <1>7 DEF VPages


----------------------------------------------------------------------------
Memories == [Ppn \X Idx -> PTE]

\* What A and D leave alone of an entry.
SameButAD(pte, new) ==
  /\ new.v = pte.v /\ new.r = pte.r /\ new.w = pte.w /\ new.x = pte.x /\ new.u = pte.u
  /\ new.ppn = pte.ppn /\ new.pkey = pte.pkey
  /\ pte.d => new.d
OnlyAD(m) == m \in Memories /\ \A at \in Ppn \X Idx : SameButAD(mem[at], m[at])

\* A walk starts at the root and stops at an entry of a table.
LEMMA WalkStops ==
  ASSUME mem \in Memories, stat \in Status, NEW vpn \in VPages
  PROVE  WalkParts \in [Ppn \X Idx -> Parts] /\ Walk(vpn) \in Stops
<1>1. WalkParts \in [Ppn \X Idx -> Parts]
  <2>1. ASSUME NEW at \in Ppn \X Idx PROVE WalkPart(mem[at]) \in Parts
    <3>1. mem[at] \in PTE BY DEF Memories
    <3> QED BY <3>1 DEF PTE, WalkPart, Parts
  <2> QED BY <2>1 DEF WalkParts, Memories
<1>2. PTW_LEVEL \in Nat \ {0} /\ PTW_LEVEL - 1 \in Levels BY MmuAssumption DEF Levels
<1>3. stat.root \in Ppn BY DEF Status
<1>4. WalkOf(WalkParts, vpn) \in [Levels -> [Ppn -> Stops]] BY <1>1, <1>2, WalkType
<1>5. Walk(vpn) \in Stops BY <1>2, <1>3, <1>4 DEF Walk
<1> QED BY <1>1, <1>5

\* UpdateAD changes A and D of the entry where the walk stops, and nothing else.
LEMMA UpdateIsAD ==
  ASSUME mem \in Memories, stat \in Status, NEW req \in Access
  PROVE  /\ OnlyAD(mem) /\ OnlyAD(UpdateAD(req))
         /\ ~ SHARE /\ ptw(req).cause = "OK" /\ req.type = "WRITE" =>
              UpdateAD(req)[Walk(req.vpn).at].d
<1>1. OnlyAD(mem) BY DEF OnlyAD, SameButAD
<1> DEFINE at == Walk(req.vpn).at
           new == [mem[at] EXCEPT !.a = TRUE, !.d = mem[at].d \/ req.type = "WRITE"]
<1>2. at \in Ppn \X Idx BY WalkStops DEF Stops, Access
<1>3. mem[at] \in PTE BY <1>2 DEF Memories
<1>4. UpdateAD(req) = IF SHARE \/ ptw(req).cause # "OK" THEN mem ELSE [mem EXCEPT ![at] = new]
  BY DEF UpdateAD
<1> HIDE DEF at
<1>5. (mem[at].d \/ req.type = "WRITE") \in BOOLEAN BY <1>3 DEF PTE
<1>6. new \in PTE /\ SameButAD(mem[at], new) /\ (req.type = "WRITE" => new.d)
  BY <1>3, <1>5 DEF PTE, SameButAD
<1> HIDE DEF new
<1>7. OnlyAD([mem EXCEPT ![at] = new])
  BY <1>1, <1>2, <1>6 DEF OnlyAD, Memories
<1>8. [mem EXCEPT ![at] = new][at] = new BY <1>2 DEF Memories
<1> QED BY <1>1, <1>4, <1>6, <1>7, <1>8 DEF at

\* Walks and their verdicts do not depend on A and D outside a reference.
LEMMA WalksAgree ==
  ASSUME mem \in Memories, OnlyAD(mem'), stat \in Status, stat' = stat, build' = build, ~ SHARE,
         NEW req \in Access
  PROVE  /\ Walk(req.vpn)' = Walk(req.vpn)
         /\ SameButAD(mem[Walk(req.vpn).at], mem'[Walk(req.vpn).at])
         /\ ptw(req)' = ptw(req)
<1>1. \A at \in Ppn \X Idx : WalkPart(mem'[at]) = WalkPart(mem[at])
  BY DEF OnlyAD, SameButAD, WalkPart
<1>2. WalkParts' = WalkParts BY <1>1 DEF WalkParts, OnlyAD, Memories
<1>3. Walk(req.vpn)' = Walk(req.vpn) BY <1>2 DEF Walk
<1>4. Walk(req.vpn).at \in Ppn \X Idx BY WalkStops DEF Stops, Access
<1>5. SameButAD(mem[Walk(req.vpn).at], mem'[Walk(req.vpn).at]) BY <1>4 DEF OnlyAD
<1> DEFINE at == Walk(req.vpn).at
           ok == Walk(req.vpn).kind = "leaf"
<1>6. check_permission(mem[at], ok, req)' = check_permission(mem[at], ok, req)
  BY <1>3, <1>5 DEF check_permission, SameButAD, ModeAllows, TypeAllows, update_ad, KeyDenies, SHARE, RV_DASICS
<1>7. mem'[at].ppn = mem[at].ppn BY <1>5 DEF SameButAD
<1> QED BY <1>3, <1>5, <1>6, <1>7 DEF ptw

Tlbs == [Slots -> [gvpn : Int, ppn : Int]]

\* Stores that hit would have the outcome of the walk.
StoresAllowed ==
  \A req \in Requests :
    LET entry == hostwtlb[hosttlb_idx(req.vpn)]
    IN  req.type = "WRITE" /\ req.canonical /\ entry.gvpn = hosttlb_vpn(req.vpn) => ptw(req) = OK(entry.ppn)

\* What holds between instructions: types, and while nothing was changed since the last
\* flush, what was seen is still mapped, instructions were decoded under the state in
\* force and the write table has what the walk allows.
MemTypes == build \in Builds /\ stat \in Status /\ mem \in Memories
TlbTypes == hostrtlb \in Tlbs /\ hostwtlb \in Tlbs
QuietInv ==
  quiet => /\ seen \subseteq Mapped /\ decoded \subseteq {MmuState}
           /\ stat.translated => StoresAllowed
TlbInv == MemTypes /\ TlbTypes /\ EntriesWereMapped /\ QuietInv /\ AsWalkedWhileQuiet

\* What the assumptions on the constants say of pages and requests.
LEMMA Constants ==
  /\ \A b \in Builds : ~ b.share
  /\ Requests \subseteq Access /\ Pages \subseteq VPages /\ \A req \in Requests : req.vpn \in Pages
  /\ PTW_LEVEL \in Nat \ {0} /\ VPNS \in Nat \ {0} /\ PPNS \in Nat \ {0}
  /\ Pmem \subseteq Int /\ HOSTTLB_SIZE \in Nat \ {0}
<1>1. Requests \subseteq Access BY MmuAssumption
<1>2. Pages \subseteq VPages BY <1>1 DEF Pages, Access
<1>3. Pmem \subseteq Int BY MmuAssumption DEF Ppn
<1> QED BY <1>1, <1>2, <1>3, MmuAssumption, HostTlbAssumption DEF Pages

\* Page numbers are numbers and select a slot of the tables.
LEMMA SlotOfPage ==
  ASSUME NEW vpn \in VPages PROVE hosttlb_vpn(vpn) \in Nat /\ hosttlb_idx(vpn) \in Slots
<1>1. hosttlb_vpn(vpn) \in Nat
  <2>1. PTW_LEVEL \in 0 .. PTW_LEVEL BY Constants
  <2>2. LowParts(vpn, PTW_LEVEL) \in [0 .. PTW_LEVEL -> Nat] BY <2>1, Constants, LowType
  <2> QED BY <2>1, <2>2 DEF hosttlb_vpn, LowPart
<1> HIDE DEF hosttlb_vpn
<1>2. \A n \in Nat : n % HOSTTLB_SIZE \in 0 .. HOSTTLB_SIZE - 1 BY Constants
<1> QED BY <1>1, <1>2 DEF hosttlb_idx, Slots

\* A walk that succeeds found a leaf that allows the access.
LEMMA WalkSucceeds ==
  ASSUME NEW req \in Access, ptw(req).cause = "OK"
  PROVE  /\ Walk(req.vpn).kind = "leaf" /\ req.canonical
         /\ ptw(req) = OK(FrameOf(req.vpn))
         /\ req.type = "WRITE" => LeafOf(req.vpn).w
<1>1. PageFault(req) # "OK" /\ AccessFault(req) # "OK" BY DEF PageFault, AccessFault
<1>2. \A c : Raise(c).cause = c BY DEF Raise
<1> DEFINE pte == mem[Walk(req.vpn).at]
           ok == Walk(req.vpn).kind = "leaf"
           verdict == check_permission(pte, ok, req)
<1>3. verdict = "OK" /\ req.canonical /\ ptw(req) = OK(pte.ppn + LowPart(req.vpn, Walk(req.vpn).level))
  BY <1>1, <1>2 DEF ptw
<1>4. ok /\ TypeAllows(pte, req) BY <1>1, <1>3 DEF check_permission
<1> QED BY <1>3, <1>4 DEF FrameOf, LeafOf, TypeAllows

\* While only A and D change, no mapping is lost.
LEMMA MappedGrows ==
  ASSUME MemTypes, OnlyAD(mem'), stat' = stat, build' = build PROVE Mapped \subseteq Mapped'
<1>1. ~ SHARE BY Constants DEF SHARE, MemTypes
<1>2. ASSUME NEW vpn \in Pages
      PROVE  /\ Walk(vpn)' = Walk(vpn) /\ FrameOf(vpn)' = FrameOf(vpn)
             /\ LeafOf(vpn)'.w = LeafOf(vpn).w /\ (LeafOf(vpn).d => LeafOf(vpn)'.d)
  <2>1. PICK req \in Requests : vpn = req.vpn BY DEF Pages
  <2>2. Walk(vpn)' = Walk(vpn) /\ SameButAD(mem[Walk(vpn).at], mem'[Walk(vpn).at])
    BY <1>1, <2>1, Constants, WalksAgree DEF MemTypes
  <2> QED BY <2>2 DEF FrameOf, LeafOf, SameButAD
<1>3. MappedPages' = MappedPages BY <1>2 DEF MappedPages, Pages
<1> QED BY <1>2, <1>3 DEF Mapped, MappedPages

\* What a mapping says.
LEMMA MappedMeans ==
  ASSUME NEW kind, NEW vpn, NEW ppn, <<kind, vpn, ppn>> \in Mapped
  PROVE  /\ stat.translated => vpn \in MappedPages /\ ppn = FrameOf(vpn)
         /\ ~ stat.translated => ppn = LowPart(vpn, PTW_LEVEL)
  BY DEF Mapped

\* What the slow path enters into a table is memory, is mapped and, in the write table,
\* writable and dirty after the access.
LEMMA SlowPathMaps ==
  ASSUME MemTypes, NEW req \in Requests, SlowPath(req).cause = "OK", stat' = stat, build' = build,
         mem' = IF stat.translated /\ isa_mmu_check(req) = "OK" THEN UpdateAD(req) ELSE mem
  PROVE  LET ppn == SlowPath(req).ppn
         IN  /\ ppn \in Pmem
             /\ <<IF req.type = "WRITE" THEN "W" ELSE "R", req.vpn, ppn>> \in Mapped'
             /\ stat.translated => ptw(req) = OK(ppn)
<1> DEFINE ppn == SlowPath(req).ppn
<1>0. req \in Access /\ req.vpn \in Pages /\ ~ SHARE BY Constants DEF MemTypes, SHARE
<1>1. \A c : Raise(c).cause = c BY DEF Raise
<1>2. PaddrFault(req) # "OK" BY DEF PaddrFault
<1>3. va2pa(req).cause = "OK" /\ SlowPath(req) = va2pa(req) /\ ppn \in Pmem
  BY <1>1, <1>2 DEF SlowPath
<1>4. isa_mmu_check(req) = "OK" BY <1>1, <1>3 DEF va2pa
<1>5. CASE ~ stat.translated
  <2>1. ppn = LowPart(req.vpn, PTW_LEVEL) BY <1>3, <1>4, <1>5 DEF va2pa, OK, Direct
  <2>2. Pages' = Pages BY DEF Pages
  <2> QED BY <1>0, <1>3, <1>5, <2>1, <2>2 DEF Mapped
<1>6. CASE stat.translated
  <2>1. va2pa(req) = ptw(req) BY <1>4, <1>6 DEF va2pa
  <2>2. /\ Walk(req.vpn).kind = "leaf" /\ ptw(req) = OK(FrameOf(req.vpn))
        /\ req.type = "WRITE" => LeafOf(req.vpn).w
    BY <1>0, <1>3, <2>1, WalkSucceeds
  <2>3. ppn = FrameOf(req.vpn) /\ ptw(req) = OK(ppn) BY <1>3, <2>1, <2>2 DEF OK
  <2>4. mem' = UpdateAD(req) BY <1>4, <1>6
  <2>5. OnlyAD(mem') BY <1>0, <2>4, UpdateIsAD DEF MemTypes
  <2>6. Walk(req.vpn)' = Walk(req.vpn) /\ SameButAD(mem[Walk(req.vpn).at], mem'[Walk(req.vpn).at])
    BY <1>0, <2>5, WalksAgree DEF MemTypes
  <2>7. FrameOf(req.vpn)' = ppn /\ LeafOf(req.vpn)'.w = LeafOf(req.vpn).w
    BY <2>3, <2>6 DEF FrameOf, LeafOf, SameButAD
  <2>8. req.type = "WRITE" => LeafOf(req.vpn)'.w /\ LeafOf(req.vpn)'.d
    BY <1>0, <1>3, <2>1, <2>2, <2>4, <2>6, <2>7, UpdateIsAD DEF LeafOf, MemTypes
  <2>9. req.vpn \in MappedPages' BY <1>0, <2>2, <2>6 DEF MappedPages, Pages
  <2> HIDE DEF ppn
  <2> QED BY <1>3, <1>6, <2>3, <2>7, <2>8, <2>9 DEF Mapped, ppn
<1> QED BY <1>5, <1>6

\* A verdict that lets a store pass lets every store to that page pass.
LEMMA StoresAlike ==
  ASSUME NEW req \in Access, NEW other \in Access, ptw(req).cause = "OK",
         req.type = "WRITE", other.type = "WRITE", other.canonical, other.vpn = req.vpn
  PROVE  ptw(other) = ptw(req)
<1>1. PageFault(req) # "OK" /\ AccessFault(req) # "OK" BY DEF PageFault, AccessFault
<1>2. \A c : Raise(c).cause = c BY DEF Raise
<1>3. check_permission(mem[Walk(req.vpn).at], Walk(req.vpn).kind = "leaf", req) = "OK"
  BY <1>1, <1>2 DEF ptw
<1>4. check_permission(mem[Walk(req.vpn).at], Walk(req.vpn).kind = "leaf", other) = "OK"
  BY <1>1, <1>3 DEF check_permission, ModeAllows, TypeAllows, update_ad, KeyDenies
<1> QED BY <1>1, <1>2, <1>3, <1>4 DEF ptw

\* Entries stay good while what was seen only grows.
LEMMA EntriesStay ==
  ASSUME EntriesWereMapped, UNCHANGED <<hostrtlb, hostwtlb>>, seen \subseteq seen'
  PROVE  EntriesWereMapped'
  BY DEF EntriesWereMapped, Pages

\* The fill of a slot with a page that is mapped.
LEMMA FillKeeps ==
  ASSUME TlbTypes, EntriesWereMapped, seen \subseteq seen', NEW req \in Requests, NEW ppn \in Pmem,
         Fill(req, ppn), <<IF req.type = "WRITE" THEN "W" ELSE "R", req.vpn, ppn>> \in seen'
  PROVE  TlbTypes' /\ EntriesWereMapped'
<1> DEFINE i == hosttlb_idx(req.vpn)
           e == Entry(req.vpn, ppn)
<1>1. req.vpn \in VPages /\ ppn \in Int BY Constants
<1>2. i \in Slots /\ hosttlb_vpn(req.vpn) \in Nat BY <1>1, SlotOfPage
<1>3. e \in [gvpn : Int, ppn : Int] /\ e.gvpn = hosttlb_vpn(req.vpn) /\ e.ppn = ppn BY <1>1, <1>2 DEF Entry
<1>4. \A vpn \in Pages : hosttlb_vpn(vpn) = hosttlb_vpn(req.vpn) => vpn = req.vpn
  BY <1>1, Constants, PagesDiffer
<1>5. CASE req.type = "WRITE"
  <2>1. hostwtlb' = [hostwtlb EXCEPT ![i] = e] /\ hostrtlb' = hostrtlb BY <1>5 DEF Fill
  <2> HIDE DEF i, e
  <2>2. TlbTypes' BY <1>2, <1>3, <2>1 DEF TlbTypes, Tlbs
  <2>3. EntriesWereMapped'
    <3> SUFFICES ASSUME NEW vpn \in Pages
                 PROVE  LET gvpn == hosttlb_vpn(vpn)
                            slot == hosttlb_idx(vpn)
                        IN  /\ hostrtlb'[slot].gvpn = gvpn => /\ hostrtlb'[slot].ppn \in Pmem
                                                              /\ <<"R", vpn, hostrtlb'[slot].ppn>> \in seen'
                            /\ hostwtlb'[slot].gvpn = gvpn => /\ hostwtlb'[slot].ppn \in Pmem
                                                              /\ <<"W", vpn, hostwtlb'[slot].ppn>> \in seen'
      BY DEF EntriesWereMapped, Pages, Slots
    <3>1. CASE hosttlb_idx(vpn) = i
      <4>1. hostwtlb'[i] = e BY <1>2, <2>1 DEF TlbTypes, Tlbs
      <4> QED BY <1>3, <1>4, <1>5, <2>1, <3>1, <4>1 DEF EntriesWereMapped
    <3>2. CASE hosttlb_idx(vpn) # i
      <4>1. hostwtlb'[hosttlb_idx(vpn)] = hostwtlb[hosttlb_idx(vpn)]
        BY <2>1, <3>2, Constants, SlotOfPage DEF TlbTypes, Tlbs
      <4> QED BY <2>1, <4>1 DEF EntriesWereMapped
    <3> QED BY <3>1, <3>2
  <2> QED BY <2>2, <2>3
<1>6. CASE req.type # "WRITE"
  <2>1. hostrtlb' = [hostrtlb EXCEPT ![i] = e] /\ hostwtlb' = hostwtlb BY <1>6 DEF Fill
  <2> HIDE DEF i, e
  <2>2. TlbTypes' BY <1>2, <1>3, <2>1 DEF TlbTypes, Tlbs
  <2>3. EntriesWereMapped'
    <3> SUFFICES ASSUME NEW vpn \in Pages
                 PROVE  LET gvpn == hosttlb_vpn(vpn)
                            slot == hosttlb_idx(vpn)
                        IN  /\ hostrtlb'[slot].gvpn = gvpn => /\ hostrtlb'[slot].ppn \in Pmem
                                                              /\ <<"R", vpn, hostrtlb'[slot].ppn>> \in seen'
                            /\ hostwtlb'[slot].gvpn = gvpn => /\ hostwtlb'[slot].ppn \in Pmem
                                                              /\ <<"W", vpn, hostwtlb'[slot].ppn>> \in seen'
      BY DEF EntriesWereMapped, Pages, Slots
    <3>1. CASE hosttlb_idx(vpn) = i
      <4>1. hostrtlb'[i] = e BY <1>2, <2>1 DEF TlbTypes, Tlbs
      <4> QED BY <1>3, <1>4, <1>6, <2>1, <3>1, <4>1 DEF EntriesWereMapped
    <3>2. CASE hosttlb_idx(vpn) # i
      <4>1. hostrtlb'[hosttlb_idx(vpn)] = hostrtlb[hosttlb_idx(vpn)]
        BY <2>1, <3>2, Constants, SlotOfPage DEF TlbTypes, Tlbs
      <4> QED BY <2>1, <4>1 DEF EntriesWereMapped
    <3> QED BY <3>1, <3>2
  <2> QED BY <2>2, <2>3
<1> QED BY <1>5, <1>6

\* What was checked of the write table stays right when a store fills it.
LEMMA StoresKept ==
  ASSUME MemTypes, TlbTypes, StoresAllowed, stat' = stat, build' = build, OnlyAD(mem'),
         \/ hostwtlb' = hostwtlb
         \/ \E req \in Requests : /\ req.type = "WRITE" /\ req.canonical /\ ptw(req).cause = "OK"
                                  /\ hostwtlb' = [hostwtlb EXCEPT ![hosttlb_idx(req.vpn)] = Entry(req.vpn, ptw(req).ppn)]
  PROVE  StoresAllowed'
<1> SUFFICES ASSUME NEW other \in Requests, other.type = "WRITE", other.canonical,
                    hostwtlb'[hosttlb_idx(other.vpn)].gvpn = hosttlb_vpn(other.vpn)
             PROVE  ptw(other)' = OK(hostwtlb'[hosttlb_idx(other.vpn)].ppn)
  BY DEF StoresAllowed
<1>1. other \in Access /\ other.vpn \in VPages /\ ~ SHARE BY Constants DEF MemTypes, SHARE
<1>2. ptw(other)' = ptw(other) BY <1>1, WalksAgree DEF MemTypes
<1>3. CASE hostwtlb' = hostwtlb BY <1>2, <1>3 DEF StoresAllowed
<1>4. ASSUME NEW req \in Requests, req.type = "WRITE", req.canonical, ptw(req).cause = "OK",
             hostwtlb' = [hostwtlb EXCEPT ![hosttlb_idx(req.vpn)] = Entry(req.vpn, ptw(req).ppn)]
      PROVE  ptw(other)' = OK(hostwtlb'[hosttlb_idx(other.vpn)].ppn)
  <2>1. req \in Access /\ req.vpn \in VPages BY Constants
  <2>2. hosttlb_idx(req.vpn) \in Slots /\ hosttlb_idx(other.vpn) \in Slots BY <1>1, <2>1, SlotOfPage
  <2>3. CASE hosttlb_idx(req.vpn) = hosttlb_idx(other.vpn)
    <3>1. hostwtlb'[hosttlb_idx(other.vpn)] = Entry(req.vpn, ptw(req).ppn)
      BY <1>4, <2>2, <2>3 DEF TlbTypes, Tlbs
    <3>2. hosttlb_vpn(other.vpn) = hosttlb_vpn(req.vpn) BY <3>1 DEF Entry
    <3>3. other.vpn = req.vpn BY <1>1, <2>1, <3>2, Constants, PagesDiffer
    <3>4. ptw(other) = ptw(req) BY <1>1, <1>4, <2>1, <3>3, StoresAlike
    <3>5. ptw(req) = OK(ptw(req).ppn) BY <1>4, <2>1, WalkSucceeds DEF OK
    <3> QED BY <1>2, <3>1, <3>4, <3>5 DEF Entry
  <2>4. CASE hosttlb_idx(req.vpn) # hosttlb_idx(other.vpn)
    <3>1. hostwtlb'[hosttlb_idx(other.vpn)] = hostwtlb[hosttlb_idx(other.vpn)]
      BY <1>4, <2>2, <2>4 DEF TlbTypes, Tlbs
    <3> QED BY <1>2, <3>1 DEF StoresAllowed
  <2> QED BY <2>3, <2>4
<1> QED BY <1>3, <1>4

\* The outcome of an access while everything is as at the last flush.
LEMMA OutcomeAgrees ==
  ASSUME TlbInv, NEW req \in Requests, NEW mode \in {MmuState}, quiet, stat' = stat, build' = build,
         OnlyAD(mem'), NEW outcome,
         \/ req.dynamic /\ isa_mmu_check(req) # "OK" /\ outcome = Raise(isa_mmu_check(req))
         \/ /\ ~ (req.dynamic /\ isa_mmu_check(req) # "OK")
            /\ \/ /\ mode = "MMU_DIRECT"
                  /\ outcome = IF req.canonical /\ Direct(req) \in Pmem THEN OK(Direct(req)) ELSE Raise(AccessFault(req))
               \/ mode # "MMU_DIRECT" /\ Hits(req) /\ outcome = OK(TlbOf(req)[hosttlb_idx(req.vpn)].ppn)
               \/ mode # "MMU_DIRECT" /\ ~ Hits(req) /\ outcome = SlowPath(req)
  PROVE  /\ req.type = "WRITE" /\ req.canonical /\ req.aligned => outcome = Outcome(req)'
         /\ outcome.cause = "OK" /\ stat.translated =>
              req.vpn \in MappedPages' /\ outcome.ppn = FrameOf(req.vpn)'
<1>0. req \in Access /\ req.vpn \in Pages /\ ~ SHARE BY Constants DEF TlbInv, MemTypes, SHARE
<1>1. MemTypes /\ EntriesWereMapped /\ seen \subseteq Mapped /\ (stat.translated => StoresAllowed)
  BY DEF TlbInv, QuietInv
<1>2. ptw(req)' = ptw(req) /\ Walk(req.vpn)' = Walk(req.vpn)
        /\ mem'[Walk(req.vpn).at].ppn = mem[Walk(req.vpn).at].ppn
  BY <1>0, <1>1, WalksAgree DEF MemTypes, SameButAD
<1>3. Outcome(req)' = Outcome(req)
  BY <1>2 DEF Outcome, Checked, isa_mmu_check, SHARE, Direct
<1>4. /\ Checked(req) = IF req.dynamic THEN isa_mmu_check(req) ELSE "OK"
      /\ req.aligned /\ req.canonical => isa_mmu_check(req) = "OK"
  BY <1>0 DEF Checked, isa_mmu_check
<1>5. /\ \A c : Raise(c).cause = c
      /\ \A p : OK(p).cause = "OK" /\ OK(p).ppn = p
  BY DEF Raise, OK
<1>6. FrameOf(req.vpn)' = FrameOf(req.vpn) /\ (req.vpn \in MappedPages' <=> req.vpn \in MappedPages)
  BY <1>2 DEF FrameOf, LeafOf, MappedPages, Pages
<1>7. stat.translated <=> mode # "MMU_DIRECT" BY DEF MmuState
<1>8. CASE req.dynamic /\ isa_mmu_check(req) # "OK" BY <1>4, <1>5, <1>8
<1>9. CASE ~ (req.dynamic /\ isa_mmu_check(req) # "OK")
  <2>0. Checked(req) = "OK" BY <1>4, <1>9
  <2>1. CASE mode = "MMU_DIRECT"
    <3>1. outcome = IF req.canonical /\ Direct(req) \in Pmem THEN OK(Direct(req)) ELSE Raise(AccessFault(req))
      BY <1>9, <2>1
    <3> QED BY <1>3, <1>5, <1>7, <2>0, <2>1, <3>1 DEF Outcome
  <2>2. CASE mode # "MMU_DIRECT" /\ Hits(req)
    <3> DEFINE p == TlbOf(req)[hosttlb_idx(req.vpn)].ppn
    <3>1. outcome = OK(p) BY <1>9, <2>2
    <3>2. p \in Pmem /\ <<IF req.type = "WRITE" THEN "W" ELSE "R", req.vpn, p>> \in Mapped
      BY <1>0, <1>1, <2>2 DEF Hits, TlbOf, EntriesWereMapped
    <3>3. req.vpn \in MappedPages /\ p = FrameOf(req.vpn) BY <1>7, <2>2, <3>2, MappedMeans
    <3>4. req.type = "WRITE" => ptw(req) = OK(p)
      BY <1>1, <1>7, <2>2 DEF StoresAllowed, Hits, TlbOf
    <3> HIDE DEF p
    <3>5. req.type = "WRITE" => Outcome(req) = OK(p) BY <1>5, <1>7, <2>0, <2>2, <3>2, <3>4 DEF Outcome
    <3> QED BY <1>3, <1>5, <1>6, <3>1, <3>3, <3>5
  <2>3. CASE mode # "MMU_DIRECT" /\ ~ Hits(req)
    <3>1. outcome = SlowPath(req) BY <1>9, <2>3
    <3>2. isa_mmu_check(req) = "OK" => va2pa(req) = ptw(req) BY <1>7, <2>3 DEF va2pa
    <3>3. req.type = "WRITE" => PaddrFault(req) = AccessFault(req) BY DEF PaddrFault, AccessFault
    <3>4. req.type = "WRITE" /\ isa_mmu_check(req) = "OK" => SlowPath(req) = Outcome(req)
      BY <1>7, <2>0, <2>3, <3>2, <3>3 DEF SlowPath, Outcome
    <3>5. SlowPath(req).cause = "OK" => req.vpn \in MappedPages /\ SlowPath(req).ppn = FrameOf(req.vpn)
      <4> SUFFICES ASSUME SlowPath(req).cause = "OK"
                   PROVE  req.vpn \in MappedPages /\ SlowPath(req).ppn = FrameOf(req.vpn)
        OBVIOUS
      <4>1. PaddrFault(req) # "OK" BY DEF PaddrFault
      <4>2. va2pa(req).cause = "OK" /\ SlowPath(req) = va2pa(req) BY <1>5, <4>1 DEF SlowPath
      <4>3. isa_mmu_check(req) = "OK" BY <1>5, <4>2 DEF va2pa
      <4>4. Walk(req.vpn).kind = "leaf" /\ ptw(req) = OK(FrameOf(req.vpn))
        BY <1>0, <3>2, <4>2, <4>3, WalkSucceeds
      <4> QED BY <1>0, <1>5, <3>2, <4>2, <4>3, <4>4 DEF MappedPages
    <3> QED BY <1>3, <1>4, <1>6, <3>1, <3>4, <3>5
  <2> QED BY <2>1, <2>2, <2>3
<1> QED BY <1>8, <1>9

\* An access keeps the invariant, whichever path it takes.
LEMMA AccessKeeps ==
  ASSUME TlbInv, NEW req \in Requests, vaddr_access_tlb(req), build' = build PROVE TlbInv'
<1>1. PICK mode \in {MmuState} \cup (IF req.dynamic THEN {} ELSE decoded) :
        /\ AccessAs(req, mode)
        /\ decoded' = decoded \cup (IF req.dynamic THEN {} ELSE {mode})
  BY DEF vaddr_access_tlb
<1>2. stat' = stat /\ quiet' = quiet /\ seen' = seen \cup Mapped' BY DEF vaddr_access_tlb
<1>3. MemTypes /\ TlbTypes /\ EntriesWereMapped /\ QuietInv /\ req \in Access /\ ~ SHARE
  BY Constants DEF TlbInv, MemTypes, SHARE
<1> DEFINE Slow == /\ ~ Hits(req) /\ SlowPath(req).cause = "OK"
                   /\ Fill(req, SlowPath(req).ppn)
                   /\ mem' = IF stat.translated /\ isa_mmu_check(req) = "OK" THEN UpdateAD(req) ELSE mem
           Quick == UNCHANGED <<hostrtlb, hostwtlb>>
<1>4. (Slow \/ Quick) /\ mem' \in {mem, UpdateAD(req)}
  BY <1>1 DEF AccessAs, DirectPath, FastPath, MissPath
<1>5. OnlyAD(mem') BY <1>3, <1>4, UpdateIsAD DEF MemTypes
<1>6. MemTypes' BY <1>2, <1>3, <1>5 DEF MemTypes, OnlyAD
<1>7. Mapped \subseteq Mapped' BY <1>2, <1>3, <1>5, MappedGrows
<1>8. Slow => /\ SlowPath(req).ppn \in Pmem
              /\ <<IF req.type = "WRITE" THEN "W" ELSE "R", req.vpn, SlowPath(req).ppn>> \in Mapped'
              /\ stat.translated => ptw(req) = OK(SlowPath(req).ppn)
  BY <1>2, <1>3, SlowPathMaps
<1>9. TlbTypes' /\ EntriesWereMapped'
  <2>1. CASE Slow BY <1>2, <1>3, <1>8, <2>1, FillKeeps
  <2>2. CASE Quick BY <1>2, <1>3, <2>2, EntriesStay DEF TlbTypes
  <2> QED BY <1>4, <2>1, <2>2
<1>10. QuietInv'
  <2> SUFFICES ASSUME quiet PROVE /\ seen' \subseteq Mapped' /\ decoded' \subseteq {MmuState'}
                                  /\ stat.translated => StoresAllowed'
    BY <1>2 DEF QuietInv
  <2>1. seen' \subseteq Mapped' BY <1>2, <1>3, <1>7 DEF QuietInv
  <2>2. decoded' \subseteq {MmuState'} BY <1>1, <1>2, <1>3 DEF QuietInv, MmuState
  <2>3. ASSUME stat.translated PROVE StoresAllowed'
    <3>1. Slow /\ req.type = "WRITE" =>
            /\ req.canonical /\ ptw(req).cause = "OK" /\ ptw(req).ppn = SlowPath(req).ppn
            /\ hostwtlb' = [hostwtlb EXCEPT ![hosttlb_idx(req.vpn)] = Entry(req.vpn, ptw(req).ppn)]
      <4> SUFFICES ASSUME Slow, req.type = "WRITE"
                   PROVE  /\ req.canonical /\ ptw(req).cause = "OK" /\ ptw(req).ppn = SlowPath(req).ppn
                          /\ hostwtlb' = [hostwtlb EXCEPT ![hosttlb_idx(req.vpn)] = Entry(req.vpn, ptw(req).ppn)]
        OBVIOUS
      <4>1. ptw(req) = OK(SlowPath(req).ppn) BY <1>8, <2>3
      <4>2. ptw(req).cause = "OK" /\ ptw(req).ppn = SlowPath(req).ppn BY <4>1 DEF OK
      <4>3. hostwtlb' = [hostwtlb EXCEPT ![hosttlb_idx(req.vpn)] = Entry(req.vpn, ptw(req).ppn)]
        BY <4>2 DEF Fill
      <4> HIDE DEF Slow
      <4>4. req.canonical BY <1>3, <4>2, WalkSucceeds
      <4> QED BY <4>2, <4>3, <4>4
    <3>2. Slow /\ req.type # "WRITE" => hostwtlb' = hostwtlb BY DEF Fill
    <3> HIDE DEF Slow
    <3> QED BY <1>2, <1>3, <1>4, <1>5, <2>3, <3>1, <3>2, StoresKept DEF QuietInv
  <2> QED BY <2>1, <2>2, <2>3
<1>11. AsWalkedWhileQuiet'
  <2> SUFFICES ASSUME quiet PROVE AsWalkedWhileQuiet' BY <1>2 DEF AsWalkedWhileQuiet
  <2>1. mode \in {MmuState} BY <1>1, <1>3 DEF QuietInv
  <2>2. last'.req = req BY <1>1 DEF AccessAs, DirectPath, FastPath, MissPath, Done
  <2> DEFINE outcome == last'.outcome
  <2>3. \/ req.dynamic /\ isa_mmu_check(req) # "OK" /\ outcome = Raise(isa_mmu_check(req))
        \/ /\ ~ (req.dynamic /\ isa_mmu_check(req) # "OK")
           /\ \/ /\ mode = "MMU_DIRECT"
                 /\ outcome = IF req.canonical /\ Direct(req) \in Pmem THEN OK(Direct(req)) ELSE Raise(AccessFault(req))
              \/ mode # "MMU_DIRECT" /\ Hits(req) /\ outcome = OK(TlbOf(req)[hosttlb_idx(req.vpn)].ppn)
              \/ mode # "MMU_DIRECT" /\ ~ Hits(req) /\ outcome = SlowPath(req)
    BY <1>1 DEF AccessAs, DirectPath, FastPath, MissPath, Done
  <2>4. /\ req.type = "WRITE" /\ req.canonical /\ req.aligned => outcome = Outcome(req)'
        /\ outcome.cause = "OK" /\ stat.translated =>
             req.vpn \in MappedPages' /\ outcome.ppn = FrameOf(req.vpn)'
    BY <1>2, <1>5, <2>1, <2>3, OutcomeAgrees
  <2> QED BY <1>2, <2>2, <2>4 DEF AsWalkedWhileQuiet
<1> QED BY <1>6, <1>9, <1>10, <1>11 DEF TlbInv

\* A flush of everything, with a change of satp or without.
LEMMA FlushKeeps ==
  ASSUME TlbInv, FlushEverything, build' = build, mem' = mem, stat' \in Status, last' = None PROVE TlbInv'
<1>1. MemTypes' BY DEF TlbInv, MemTypes
<1>2. TlbTypes' BY DEF FlushEverything, hosttlb_flush_all, EmptyTlb, Empty, TlbTypes, Tlbs
<1>3. \A vpn \in Pages : /\ hostrtlb'[hosttlb_idx(vpn)].gvpn # hosttlb_vpn(vpn)
                         /\ hostwtlb'[hosttlb_idx(vpn)].gvpn # hosttlb_vpn(vpn)
  BY Constants, SlotOfPage DEF FlushEverything, hosttlb_flush_all, EmptyTlb, Empty
<1>4. EntriesWereMapped' BY <1>3 DEF EntriesWereMapped, Pages
<1>5. StoresAllowed' BY <1>3, Constants DEF StoresAllowed
<1>6. QuietInv' BY <1>5 DEF QuietInv, FlushEverything
<1>7. AsWalkedWhileQuiet' BY DEF AsWalkedWhileQuiet, None
<1> QED BY <1>1, <1>2, <1>4, <1>6, <1>7 DEF TlbInv

\* What depends on memory and the CSRs only.
LEMMA SameMachine ==
  ASSUME mem' = mem, stat' = stat, build' = build
  PROVE  /\ Mapped \subseteq Mapped' /\ MmuState' = MmuState
         /\ \A vpn : (vpn \in MappedPages' <=> vpn \in MappedPages) /\ FrameOf(vpn)' = FrameOf(vpn)
         /\ \A req : ptw(req)' = ptw(req) /\ Outcome(req)' = Outcome(req)
<1>1. \A vpn : Walk(vpn)' = Walk(vpn) BY DEF Walk, WalkParts
<1>2. \A vpn : LeafOf(vpn)' = LeafOf(vpn) BY <1>1 DEF LeafOf
<1>3. \A vpn : FrameOf(vpn)' = FrameOf(vpn) BY <1>1, <1>2 DEF FrameOf
<1>4. MappedPages' = MappedPages BY <1>1 DEF MappedPages, Pages
<1>5. Mapped \subseteq Mapped' BY <1>2, <1>3, <1>4 DEF Mapped
<1>6. ASSUME NEW req PROVE ptw(req)' = ptw(req) /\ Outcome(req)' = Outcome(req)
  <2> DEFINE at == Walk(req.vpn).at
             ok == Walk(req.vpn).kind = "leaf"
  <2>1. check_permission(mem[at], ok, req)' = check_permission(mem[at], ok, req)
    BY <1>1 DEF check_permission, ModeAllows, TypeAllows, update_ad, KeyDenies, SHARE, RV_DASICS
  <2>2. ptw(req)' = ptw(req) BY <1>1, <2>1 DEF ptw
  <2> QED BY <2>2 DEF Outcome, Checked, isa_mmu_check, SHARE, Direct
<1> QED BY <1>3, <1>4, <1>5, <1>6 DEF MmuState

\* Every step of the machine keeps the invariant.
LEMMA StepKeeps == ASSUME TlbInv, [NextTlb]_hvars PROVE TlbInv'
<1>1. ASSUME NEW req \in Requests, vaddr_access_tlb(req), build' = build PROVE TlbInv'
  BY <1>1, AccessKeeps
<1>2. CASE RetireTlb /\ build' = build
  <2>1. UNCHANGED <<mem, stat, build, hostrtlb, hostwtlb, decoded, seen, quiet>> /\ last' = None
    BY <1>2 DEF RetireTlb, Retire
  <2>2. AsWalkedWhileQuiet' BY <2>1 DEF AsWalkedWhileQuiet, None
  <2>3. QuietInv' BY <2>1, SameMachine DEF TlbInv, QuietInv, StoresAllowed
  <2> QED BY <2>1, <2>2, <2>3, EntriesStay DEF TlbInv, MemTypes, TlbTypes
<1>3. CASE csr_write_satp /\ build' = build
  <2>1. stat' \in Status BY <1>3, MmuAssumption DEF csr_write_satp, TlbInv, MemTypes
  <2> QED BY <1>3, <2>1, FlushKeeps DEF csr_write_satp
<1>4. CASE SFenceAll /\ build' = build
  BY <1>4, FlushKeeps DEF SFenceAll, TlbInv, MemTypes
<1>5. ASSUME NEW vpn \in Pages, SFencePage(vpn), build' = build PROVE TlbInv'
  <2>1. UNCHANGED <<mem, stat, build, decoded, quiet>> /\ last' = None /\ seen' = {s \in seen : s[2] # vpn} \cup Mapped
    BY <1>5 DEF SFencePage
  <2>2. hostrtlb' = Without(hostrtlb, vpn) /\ hostwtlb' = Without(hostwtlb, vpn)
    BY <1>5 DEF SFencePage, hosttlb_flush_page
  <2>3. TlbTypes' BY <2>2 DEF TlbInv, TlbTypes, Tlbs, Without, Empty
  <2>4. ASSUME NEW v \in Pages
        PROVE  /\ hostrtlb'[hosttlb_idx(v)].gvpn = hosttlb_vpn(v) =>
                    v # vpn /\ hostrtlb'[hosttlb_idx(v)] = hostrtlb[hosttlb_idx(v)]
               /\ hostwtlb'[hosttlb_idx(v)].gvpn = hosttlb_vpn(v) =>
                    v # vpn /\ hostwtlb'[hosttlb_idx(v)] = hostwtlb[hosttlb_idx(v)]
    <3>1. hosttlb_idx(v) \in Slots /\ hosttlb_vpn(v) # -1 BY Constants, SlotOfPage
    <3> QED BY <2>2, <3>1 DEF Without, Empty
  <2>5. EntriesWereMapped' BY <2>1, <2>4 DEF TlbInv, EntriesWereMapped, Pages
  <2>6. StoresAllowed => StoresAllowed' BY <2>1, <2>4, Constants, SameMachine DEF StoresAllowed
  <2>7. QuietInv' BY <2>1, <2>6, SameMachine DEF TlbInv, QuietInv
  <2>8. AsWalkedWhileQuiet' BY <2>1 DEF AsWalkedWhileQuiet, None
  <2> QED BY <2>1, <2>3, <2>5, <2>7, <2>8 DEF TlbInv, MemTypes
<1>6. CASE ChangeStatus /\ build' = build
  <2>1. MemTypes' BY <1>6, MmuAssumption DEF ChangeStatus, TlbInv, MemTypes
  <2>2. EntriesWereMapped' /\ TlbTypes' BY <1>6, EntriesStay DEF ChangeStatus, TlbInv, TlbTypes
  <2> QED BY <1>6, <2>1, <2>2 DEF ChangeStatus, TlbInv, QuietInv, AsWalkedWhileQuiet
<1>7. ASSUME NEW at \in PteSlots, NEW pte \in PteValues, WritePte(at, pte), build' = build PROVE TlbInv'
  <2>1. MemTypes' BY <1>7, HostTlbAssumption DEF WritePte, TlbInv, MemTypes, Memories
  <2>2. EntriesWereMapped' /\ TlbTypes' BY <1>7, EntriesStay DEF WritePte, TlbInv, TlbTypes
  <2> QED BY <1>7, <2>1, <2>2 DEF WritePte, TlbInv, QuietInv, AsWalkedWhileQuiet
<1>8. CASE UNCHANGED hvars
  <2>1. UNCHANGED <<mem, stat, build, hostrtlb, hostwtlb, decoded, seen, quiet, last>> BY <1>8 DEF hvars
  <2>2. AsWalkedWhileQuiet' BY <2>1, SameMachine DEF TlbInv, AsWalkedWhileQuiet, None
  <2>3. QuietInv' BY <2>1, SameMachine DEF TlbInv, QuietInv, StoresAllowed
  <2> QED BY <2>1, <2>2, <2>3, EntriesStay DEF TlbInv, MemTypes, TlbTypes
<1> QED BY <1>1, <1>2, <1>3, <1>4, <1>5, <1>6, <1>7, <1>8 DEF NextTlb, StepTlb

\* The invariant at reset.
LEMMA InitKeeps == InitTlb => TlbInv
<1> SUFFICES ASSUME InitTlb PROVE TlbInv OBVIOUS
<1>1. MemTypes BY MmuAssumption DEF InitTlb, Init, MemTypes, Memories
<1>2. TlbTypes BY DEF InitTlb, EmptyTlb, Empty, TlbTypes, Tlbs
<1>3. \A vpn \in Pages : /\ hostrtlb[hosttlb_idx(vpn)].gvpn # hosttlb_vpn(vpn)
                         /\ hostwtlb[hosttlb_idx(vpn)].gvpn # hosttlb_vpn(vpn)
  BY Constants, SlotOfPage DEF InitTlb, EmptyTlb, Empty
<1>4. EntriesWereMapped BY <1>3 DEF EntriesWereMapped
<1>5. StoresAllowed BY <1>3, Constants DEF StoresAllowed
<1>6. QuietInv BY <1>5 DEF QuietInv, InitTlb
<1>7. AsWalkedWhileQuiet BY DEF AsWalkedWhileQuiet, InitTlb, Init
<1> QED BY <1>1, <1>2, <1>4, <1>6, <1>7 DEF TlbInv

\* Whatever the page tables, the sizes of the tables and the guest's accesses, fences
\* and changes of page tables, mode and satp, an entry of the host TLB holds what was
\* mapped since its page was last flushed (hosttlb_read, hosttlb_write, hosttlb_flush).
THEOREM TlbHoldsMappings == SpecTlb => []EntriesWereMapped
<1>1. InitTlb => TlbInv BY InitKeeps
<1>2. TlbInv /\ [NextTlb]_hvars => TlbInv' BY StepKeeps
<1>3. TlbInv => EntriesWereMapped BY DEF TlbInv
<1> QED BY <1>1, <1>2, <1>3, PTL DEF SpecTlb

\* In every configuration, from a flush of everything until the guest changes a page
\* table, its mode or a CSR, an aligned store to a canonical address has the outcome of
\* the walk, hit or miss, and a load or fetch that succeeds uses the page of the walk
\* (hosttlb_read and hosttlb_write; whether a load or fetch succeeds is not stated).
THEOREM QuietTlbAsWalk == SpecTlb => []AsWalkedWhileQuiet
<1>1. InitTlb => TlbInv BY InitKeeps
<1>2. TlbInv /\ [NextTlb]_hvars => TlbInv' BY StepKeeps
<1>3. TlbInv => AsWalkedWhileQuiet BY DEF TlbInv
<1> QED BY <1>1, <1>2, <1>3, PTL DEF SpecTlb
=============================================================================
