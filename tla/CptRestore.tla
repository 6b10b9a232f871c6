----------------------------- MODULE CptRestore -----------------------------
\* A checkpoint written by Serializer::serializeRegs and serializePMem, loaded
\* by load_img, and restored by the gcpt restorer (resource/gcpt_restore), which
\* runs in M mode on the fresh machine one CSR write at a time, timer included.
EXTENDS Integers, Sequences

CONSTANTS
  Vals,             \* of registers and plain CSRs; the reset value is none of them
  Reset

\* csr.h of the restorer: what CSRS(CSRS_RESTORE) writes, in this order. The
\* counters and delegation registers stand for their neighbours.
CSRS ==
  <<"fcsr", "mstatus", "medeleg", "mie", "mtvec", "mscratch", "mepc", "mip", "pmpcfg", "pmpaddr", "stvec", "satp">>
Listed == {CSRS[i] : i \in 1 .. Len(CSRS)}
\* CSRs that serializeRegs saves (all 4096) and the restorer does not know.
Unlisted == {"dasics"}
\* Values of CSRs: of mstatus all but MIE, MPIE, MPP and FS, of mie all but MTIE,
\* of mip all but MTIP, which are fields of their own below. MPRV is clear: mret
\* clears it on the way out of M mode.
Plain == Listed \cup Unlisted

VARIABLES
  m,                \* the machine: [gpr, fpr, pc, mode, csr, MIE, MPIE, MPP, fs, mtie, mtip, lock, timecmp, mtime]
  cpt,              \* the checkpoint in the file, of the same form
  at,               \* "guest", the restorer's step, "restored", "disturbed", "boot"
  step              \* next CSR of the list

vars == <<m, cpt, at, step>>

Guest ==
  [gpr : Vals, fpr : Vals, pc : Vals, mode : {"M", "S"}, csr : {[c \in Plain |-> v] : v \in Vals},
   MIE : BOOLEAN, MPIE : BOOLEAN, MPP : {"U", "S"}, fs : {0, 3}, mtie : BOOLEAN, mtip : BOOLEAN, lock : BOOLEAN,
   timecmp : Vals, mtime : {"saved"}]
None == [mode |-> "none"]

ResetState ==
  [gpr |-> Reset, fpr |-> Reset, pc |-> Reset, mode |-> "M", csr |-> [c \in Plain |-> Reset],
   MIE |-> FALSE, MPIE |-> FALSE, MPP |-> "U", fs |-> 0, mtie |-> FALSE, mtip |-> FALSE, lock |-> FALSE,
   timecmp |-> Reset, mtime |-> "host"]

\* A guest at the end of a block, in a mode that able_to_take_cpt or --cpt-mmode
\* lets pass. Which values its other registers share makes no difference.
Init ==
  /\ m \in Guest /\ m.fpr = m.gpr /\ m.timecmp = m.gpr
  /\ cpt = None /\ at = "guest" /\ step = 1

\* serializeRegs and serializePMem: mip without mtip, everything else as it is.
serializeRegs == cpt' = [m EXCEPT !.mtip = FALSE]
serialize ==
  /\ at = "guest" /\ cpt = None
  /\ serializeRegs
  /\ UNCHANGED <<m, at, step>>

\* A new process: init_monitor with --restore, load_img, the reset vector.
Restart ==
  /\ at = "guest" /\ cpt # None
  /\ m' = ResetState /\ at' = "csrs"
  /\ UNCHANGED <<cpt, step>>

\* Writing one CSR (csr_write of system/priv.c). A locked PMP entry keeps its
\* address.
csrw(c) ==
  LET written == IF c = "pmpaddr" /\ m.lock THEN m ELSE [m EXCEPT !.csr[c] = cpt.csr[c]]
  IN  CASE c = "mstatus" -> [written EXCEPT !.MIE = cpt.MIE, !.MPIE = cpt.MPIE, !.MPP = cpt.MPP, !.fs = cpt.fs]
        [] c = "mie" -> [written EXCEPT !.mtie = cpt.mtie]
        [] c = "mip" -> [written EXCEPT !.mtip = cpt.mtip]
        [] c = "pmpcfg" -> [written EXCEPT !.lock = cpt.lock]
        [] OTHER -> written

restore_csr_vector ==
  /\ at = "csrs"
  /\ m' = csrw(CSRS[step])
  /\ IF step < Len(CSRS) THEN step' = step + 1 /\ at' = at ELSE step' = 1 /\ at' = "mpie"
  /\ UNCHANGED cpt

Step(from, to, new) == at = from /\ at' = to /\ m' = new /\ UNCHANGED <<cpt, step>>

set_mpie_always == Step("mpie", "mie", [m EXCEPT !.MPIE = TRUE])
set_mpie == Step("mpie", "mie", [m EXCEPT !.MPIE = @ \/ m.MIE])
clear_mie == Step("mie", "mode", [m EXCEPT !.MIE = FALSE])
\* 2: beq t0, t1, 2b: stuck for a checkpoint of M mode.
set_mpp == cpt.mode # "M" /\ Step("mode", "clint", [m EXCEPT !.MPP = cpt.mode, !.fs = 3])
\* Either store ends in clint_io_handler, that is update_clint, which gives mtime
\* the host's time again (CONFIG_DETERMINISTIC is set in no configuration): the
\* value of the checkpoint is written and lost.
set_timecmp == \E b \in BOOLEAN : Step("clint", "mtime", [m EXCEPT !.timecmp = cpt.timecmp, !.mtip = b])
set_mtime == \E b \in BOOLEAN : Step("mtime", "mtie", [m EXCEPT !.mtime = "host", !.mtip = b])
set_mtie == Step("mtie", "float", [m EXCEPT !.mtie = TRUE])
restore_float_vector == Step("float", "pc", [m EXCEPT !.fpr = cpt.fpr])
restore_pc_vector == Step("pc", "int", [m EXCEPT !.csr["mepc"] = cpt.pc])
restore_int_vector == Step("int", "mret", [m EXCEPT !.gpr = cpt.gpr])
mret ==
  Step("mret", "restored",
       [m EXCEPT !.pc = m.csr["mepc"], !.mode = m.MPP, !.MPP = "U", !.MIE = m.MPIE, !.MPIE = TRUE])

Restoring == at \notin {"guest", "restored", "disturbed"}

\* update_clint: the timer's bit, whatever the time is.
update_clint(b) ==
  /\ Restoring /\ m.mtip # b
  /\ m' = [m EXCEPT !.mtip = b]
  /\ UNCHANGED <<cpt, at, step>>

\* A machine timer interrupt before the restorer is done.
Interrupt ==
  /\ Restoring /\ m.MIE /\ m.mtie /\ m.mtip
  /\ at' = "disturbed"
  /\ UNCHANGED <<m, cpt, step>>

Restorer ==
  \/ restore_csr_vector \/ set_mpie \/ clear_mie \/ set_mpp \/ set_timecmp \/ set_mtime \/ set_mtie
  \/ restore_float_vector \/ restore_pc_vector \/ restore_int_vector \/ mret

Next == serialize \/ Restart \/ Restorer \/ (\E b \in BOOLEAN : update_clint(b)) \/ Interrupt

\* Instructions are executed whatever the timer does.
Fairness == WF_vars(serialize) /\ WF_vars(Restart) /\ SF_vars(Restorer)

Spec == Init /\ [][Next]_vars /\ Fairness

-----------------------------------------------------------------------------
\* Type invariant of the machine that the restorer fills in.
TypeOK ==
  /\ m.mode \in {"M", "S"} /\ m.csr \in [Plain -> Vals \cup {Reset}]
  /\ m.gpr \in Vals \cup {Reset} /\ m.pc \in Vals \cup {Reset}
  /\ step \in 1 .. Len(CSRS)

\* After the restorer's mret the registers, pc, mode and mtimecmp are those saved,
\* and so is every CSR of the restorer's list but for mepc, which mret used; a PMP
\* address is there unless its entry was locked, since pmpcfg is written before
\* pmpaddr. The fields of mstatus, mie and mip that the restorer uses for itself are
\* those of RestoredOtherwise.
RestoredAlike ==
  at = "restored" =>
    /\ <<m.gpr, m.fpr, m.pc, m.mode, m.timecmp>> = <<cpt.gpr, cpt.fpr, cpt.pc, cpt.mode, cpt.timecmp>>
    /\ \A c \in Listed \ {"mepc"} : m.csr[c] = cpt.csr[c] \/ (c = "pmpaddr" /\ cpt.lock)

\* What is not as it was saved, whatever was saved: the floating point state is dirty
\* and the machine timer interrupt enabled, MPP and MPIE are what an mret leaves,
\* mepc is the guest's pc, mtime is the host's, and a CSR that is not in the list has
\* its reset value.
RestoredOtherwise ==
  at = "restored" =>
    /\ m.fs = 3 /\ m.mtie /\ m.MPP = "U" /\ m.MPIE
    /\ m.csr["mepc"] = cpt.pc /\ m.mtime = "host"
    /\ \A c \in Unlisted : m.csr[c] = Reset

\* Machine interrupts are enabled after the restore if and only if they were,
\* or were going to be after the next mret.
EnableKept == at = "restored" => (m.MIE <=> cpt.MIE \/ cpt.MPIE)

\* The timer interrupts the restorer only between its write of mie and its
\* clearing of MIE, and only if the guest had both MIE and MTIE set.
WindowOnly == at = "disturbed" => cpt.MIE /\ cpt.mtie

\* A checkpoint of S mode is restored, or the restorer is interrupted in that
\* window: nothing keeps it from reaching its mret.
RestoreEnds == (at = "guest" /\ m.mode = "S") ~> at \in {"restored", "disturbed"}

\* The restorer gives back the registers and CSRs that it lists as serialize saved
\* them, except for the fields RestoredOtherwise pins down; machine interrupts are
\* enabled if they were or were about to be; and only the window between the writes
\* of mie and the clearing of MIE lets an interrupt in.
CheckpointsRestored == RestoredAlike /\ RestoredOtherwise /\ EnableKept /\ WindowOnly
=============================================================================
