------------------------------- MODULE MCTrap -------------------------------
(* Instances of Trap.  Each build meets the inputs that its own code paths *)
(* tell apart, so that the builds together stay small.                     *)
EXTENDS Trap

STIP == Intr(5)
UEI == Intr(8)
MTI == Intr(7)
Interrupts == {STIP, UEI, MTI}
Exceptions == {2, 12}

LegalModes == {U, S, M}
AllModes == {U, S, 2, M}

Plain == [share |-> FALSE, perf_opt |-> FALSE, rvn |-> FALSE, dasics |-> FALSE,
          irqs |-> {}, exs |-> {}, satps |-> {0}, bits |-> {"MIE", "MPIE", "SIE", "SPIE", "SPP"}]
UserBits == Plain.bits \cup {"UIE", "UPIE"}
PagingBits == Plain.bits \cup {"MPRV"}

\* The default, with two interrupts of different modes; user-level interrupts;
\* user-level exceptions with DASICS; a difftest reference with paging.
AllBuilds == {
  [Plain EXCEPT !.perf_opt = TRUE, !.irqs = {STIP, MTI}, !.exs = {2}],
  [Plain EXCEPT !.rvn = TRUE, !.bits = UserBits, !.irqs = {UEI}],
  [Plain EXCEPT !.rvn = TRUE, !.dasics = TRUE, !.exs = {12}, !.bits = {"SPP"}],
  [Plain EXCEPT !.share = TRUE, !.irqs = {STIP}, !.exs = {12}, !.satps = {0, 1, 8},
                !.bits = PagingBits]}

PagingBuild == {[Plain EXCEPT !.satps = {0, 8}, !.bits = PagingBits]}

\* States of a DUT whose translation mode differs from that after a reset.
Blank == [mstatus |-> {}, mpp |-> U, mie |-> {}, mip |-> {}, medeleg |-> {}, mideleg |-> {},
          sedeleg |-> {}, sideleg |-> {}, satp |-> 0]
Duts == {[mode |-> S, csr |-> [Blank EXCEPT !.satp = 8]],
         [mode |-> M, csr |-> [Blank EXCEPT !.satp = 8, !.mstatus = {"MPRV"}, !.mpp = S]]}
=============================================================================
