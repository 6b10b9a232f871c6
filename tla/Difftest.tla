------------------------------ MODULE Difftest ------------------------------
\* NEMU under test (DUT) beside a reference (REF) that it steps along and
\* compares registers with: the skip, catch-up, detach and attach flags of
\* cpu/difftest/dut.c, and the places of the riscv64 guest that set them.
\*
\* The guest is a loop over a few instructions on one register and one word of
\* memory, so that a comparison can really fail. The reference is QEMU, which
\* may run the next instructions along with one that ends its translation
\* block ("packing"), or NEMU itself built as a library. "x86" is QEMU beside the
\* x86 guest, whose pushf leaves flags in QEMU's memory that NEMU does not have
\* and difftest_set_patch takes away again.
EXTENDS Integers, Sequences

CONSTANTS Settings,   \* pairs of a reference, "qemu", "x86" or "nemu", and a guest program
          MaxErrors,  \* bound: wrong results of the DUT
          MaxEvents   \* bound: interrupts, and uses of detach and attach

VARIABLES
  build, prog,
  dut, ref,            \* states [pc, r, m]: pc, register, word of memory
  is_skip_ref, skip_dut_nr_instr, is_detach,
  patch_fn,            \* difftest_fix_eflags is to be called
  verdict,             \* "none", "abort" (checkregs), "panic" (cannot catch up) or
                       \* "assert" (the reference cannot be interrupted)
  at,                  \* "exec", or "step": after the helper, before difftest_step
  errors, events,      \* ghosts: wrong results so far, events so far
  lost,                \* ghost: the reference was left with another state on the way
  stranded             \* ghost: raise_intr made a NEMU reference stop at the handler

vars == <<build, prog, dut, ref, is_skip_ref, skip_dut_nr_instr, is_detach,
          patch_fn, verdict, at, errors, events, lost, stranded>>

Vals == {0, 1}

\* Pcs count from 0. The handler of traps and interrupts follows the "ret" that
\* closes the loop, and ends with another one.
Kind(pc) == prog[pc + 1]
Handler == CHOOSE h \in 1 .. Len(prog) - 1 : prog[h] = "ret"
NextPc(pc) == IF Kind(pc) = "ret" THEN 0 ELSE pc + 1

\* What an instruction does to the register and to memory; `v` is what a device
\* answers.
Result(s, v) ==
  LET kind == Kind(s.pc)
      r == CASE kind \in {"io", "csrio"} -> v
             [] kind \in {"ld", "amo"} -> s.m
             [] kind = "inc" -> 1 - s.r
             [] kind = "clr" -> 0
             [] OTHER -> s.r
      m == CASE kind = "st" -> s.r
             [] kind = "amo" -> 1 - s.m
             [] kind = "pushf" -> 0
             [] OTHER -> s.m
  IN  [pc |-> NextPc(s.pc), r |-> r, m |-> m]

Trapped(s) == [s EXCEPT !.pc = Handler]
FaultsAt(pc) == Kind(pc) \in {"pf", "csrill"}

\* difftest_exec(1) of a NEMU reference: one instruction; after an exception
\* cpu_exec is left with the pc at the handler.
NemuExec(s) == IF FaultsAt(s.pc) THEN {Trapped(s)} ELSE {Result(s, v) : v \in Vals}

\* How many instructions of the DUT one step of QEMU may stand for.
Packed(pc) == CASE Kind(pc) \in {"csr", "csrio"} -> 3 [] Kind(pc) = "fence" -> 2 [] OTHER -> 1
PacksOn(pc) == Kind(pc) \notin {"csr", "csrio", "csrill", "fence", "pf", "ret"}

\* ref_difftest_exec(1) of QEMU: it may run on, has after an exception also run the
\* first instruction of the handler, and pushes flags of its own.
QemuExec(s) ==
  LET One(t) == IF Kind(t.pc) = "pushf" THEN {[Result(t, 0) EXCEPT !.m = v] : v \in Vals} ELSE NemuExec(t)
      More(S) == UNION {IF PacksOn(t.pc) THEN One(t) ELSE {} : t \in S}
      first == One(s)
      second == More(first)
  IN  IF FaultsAt(s.pc) THEN UNION {One(t) : t \in first}
      ELSE first \cup (IF Packed(s.pc) > 1 THEN second ELSE {})
                 \cup (IF Packed(s.pc) > 2 THEN More(second) ELSE {})

\* The states REF may be in after one step from `s`.
RefExec(s) == IF build = "nemu" THEN NemuExec(s) ELSE QemuExec(s)

-----------------------------------------------------------------------------
\* difftest_skip_dut(1, nr_dut) by a REF in the states R, of which it may end in
\* one: the states it may be in and the instructions the DUT has to catch up.
difftest_skip_dut(skip, R, nr_dut) ==
  IF is_detach THEN [skip |-> skip, refs |-> R]
  ELSE [skip |-> skip + nr_dut, refs |-> UNION {RefExec(s) : s \in R}]

\* The calls an instruction makes before difftest_step: csr instructions and
\* fences let QEMU run ahead, a page fault or an illegal instruction lets any
\* reference do so (raise_intr).
SkipsOf(pc) ==
  LET here == [skip |-> skip_dut_nr_instr, refs |-> {ref}]
      packs == IF build = "qemu"
               THEN CASE Kind(pc) \in {"csr", "csrio", "csrill"} -> difftest_skip_dut(here.skip, here.refs, 3)
                      [] Kind(pc) = "fence" -> difftest_skip_dut(here.skip, here.refs, 2)
                      [] OTHER -> here
               ELSE here
  IN  IF FaultsAt(pc) THEN difftest_skip_dut(packs.skip, packs.refs, 2) ELSE packs

\* difftest_skip_ref, called by a device access after the calls above.
SkipsRef(pc) == Kind(pc) \in {"io", "csrio"} /\ ~ is_detach

\* An instruction of the DUT up to difftest_step. Its result may be wrong. An
\* exception leaves by longjmp: cpu_exec raises it and goes on at the handler
\* without a step of difftest.
Execute(v, wrong) ==
  /\ verdict = "none" /\ at = "exec"
  /\ wrong => errors < MaxErrors /\ ~ FaultsAt(dut.pc)
  /\ LET calls == SkipsOf(dut.pc)
         done == Result(dut, v)
     IN  /\ ref' \in calls.refs
         /\ skip_dut_nr_instr' = (IF SkipsRef(dut.pc) THEN 0 ELSE calls.skip)
         /\ is_skip_ref' = (is_skip_ref \/ SkipsRef(dut.pc))
         /\ dut' = (IF FaultsAt(dut.pc) THEN Trapped(dut)
                    ELSE IF wrong THEN [done EXCEPT !.r = 1 - @] ELSE done)
         /\ at' = (IF FaultsAt(dut.pc) THEN "exec" ELSE "step")
  /\ patch_fn' = (patch_fn \/ Kind(dut.pc) = "pushf")
  /\ errors' = errors + (IF wrong THEN 1 ELSE 0)
  /\ stranded' = (stranded \/ (FaultsAt(dut.pc) /\ build = "nemu" /\ ~ is_detach))
  /\ UNCHANGED <<build, prog, is_detach, verdict, events, lost>>

\* isa_difftest_checkregs: registers and pc, never memory.
checkregs(ref_r) == ref_r.pc = dut.pc /\ ref_r.r = dut.r

\* difftest_step after the helper.
CatchUp ==
  /\ skip_dut_nr_instr > 0
  /\ IF ref.pc = dut.pc
     THEN /\ skip_dut_nr_instr' = 0
          /\ verdict' = (IF checkregs(ref) THEN "none" ELSE "abort")
     ELSE /\ skip_dut_nr_instr' = skip_dut_nr_instr - 1
          /\ verdict' = (IF skip_dut_nr_instr = 1 THEN "panic" ELSE "none")
  /\ UNCHANGED <<ref, is_skip_ref, patch_fn, lost, stranded>>

CopyToRef_gpr ==
  /\ skip_dut_nr_instr = 0 /\ is_skip_ref
  /\ ref' = [ref EXCEPT !.r = dut.r]
  /\ is_skip_ref' = FALSE
  /\ lost' = (lost \/ ref.m # dut.m)
  /\ stranded' = FALSE
  /\ UNCHANGED <<skip_dut_nr_instr, patch_fn, verdict>>
CopyToRef ==
  /\ skip_dut_nr_instr = 0 /\ is_skip_ref
  /\ ref' = [dut EXCEPT !.m = ref.m]
  /\ is_skip_ref' = FALSE
  /\ lost' = (lost \/ ref.m # dut.m)
  /\ stranded' = FALSE
  /\ UNCHANGED <<skip_dut_nr_instr, patch_fn, verdict>>

\* difftest_fix_eflags on the word that was pushed.
Patched(s) == IF patch_fn THEN [s EXCEPT !.m = 0] ELSE s

Compare ==
  /\ skip_dut_nr_instr = 0 /\ ~ is_skip_ref
  /\ \E s \in RefExec(ref) :
       /\ ref' = Patched(s)
       /\ lost' = (lost \/ (patch_fn /\ s.m = dut.m /\ Patched(s).m # dut.m))
  /\ patch_fn' = FALSE
  /\ verdict' = (IF checkregs(ref') THEN "none" ELSE "abort")
  /\ UNCHANGED <<is_skip_ref, skip_dut_nr_instr, stranded>>

difftest_step ==
  /\ verdict = "none" /\ at = "step"
  /\ \/ is_detach /\ UNCHANGED <<ref, is_skip_ref, skip_dut_nr_instr, patch_fn, verdict, lost, stranded>>
     \/ ~ is_detach /\ (CatchUp \/ CopyToRef \/ Compare)
  /\ at' = "exec"
  /\ UNCHANGED <<build, prog, dut, is_detach, errors, events>>

-----------------------------------------------------------------------------
\* cpu_exec takes an interrupt between instructions and tells REF to do so: only
\* a NEMU reference can (QEMU over its socket asserts, and the library with QEMU in
\* it has isa_raise_intr for x86 alone).
Interrupt ==
  /\ verdict = "none" /\ at = "exec" /\ events < MaxEvents /\ build # "x86"
  /\ dut' = Trapped(dut)
  /\ IF build = "nemu"
     THEN ref' = Trapped(ref) /\ lost' = (lost \/ (~ is_detach /\ ref # dut)) /\ UNCHANGED verdict
     ELSE verdict' = "assert" /\ UNCHANGED <<ref, lost>>
  /\ events' = events + 1
  /\ UNCHANGED <<build, prog, is_skip_ref, skip_dut_nr_instr, is_detach, patch_fn, at, errors, stranded>>

\* Commands of the monitor.
difftest_detach ==
  /\ verdict = "none" /\ at = "exec" /\ ~ is_detach /\ events < MaxEvents
  /\ is_detach' = TRUE /\ events' = events + 1
  /\ UNCHANGED <<build, prog, dut, ref, is_skip_ref, skip_dut_nr_instr, patch_fn, verdict, at, errors, lost, stranded>>

\* difftest_memcpy of the whole memory to REF: a NEMU reference built with
\* CONFIG_LARGE_COPY leaves the words that are zero in the source as they are.
Memcpy(old, new) == IF build = "nemu" /\ new = 0 THEN old ELSE new

difftest_attach ==
  /\ verdict = "none" /\ at = "exec" /\ is_detach
  /\ is_detach' = FALSE /\ is_skip_ref' = FALSE /\ skip_dut_nr_instr' = 0
  /\ ref' = [dut EXCEPT !.m = Memcpy(ref.m, dut.m)]
  /\ lost' = (ref'.m # dut.m)
  /\ stranded' = FALSE
  /\ UNCHANGED <<build, prog, dut, patch_fn, verdict, at, errors, events>>

Stopped == verdict # "none" /\ UNCHANGED vars

\* init_difftest copies the image and the registers.
Init ==
  /\ \E s \in Settings : build = s[1] /\ prog = s[2]
  /\ dut = [pc |-> 0, r |-> 0, m |-> 0] /\ ref = dut
  /\ is_skip_ref = FALSE /\ skip_dut_nr_instr = 0 /\ is_detach = FALSE
  /\ verdict = "none" /\ at = "exec" /\ errors = 0 /\ events = 0 /\ lost = FALSE
  /\ patch_fn = FALSE /\ stranded = FALSE

Next ==
  \/ \E v \in Vals, wrong \in BOOLEAN : Execute(v, wrong)
  \/ difftest_step
  \/ Interrupt \/ difftest_detach \/ difftest_attach
  \/ Stopped

\* The guest runs on: nothing in NEMU waits for anybody.
Running == difftest_step \/ \E v \in Vals : Execute(v, FALSE)
Spec == Init /\ [][Next]_vars /\ WF_vars(Running)

-----------------------------------------------------------------------------
\* Between instructions, when neither side has anything to catch up, the registers
\* agree, whatever skips, faults, interrupts, detaching and attaching came before;
\* and as long as the DUT made no mistake and the reference lost no memory on the
\* way, so does memory, which difftest_step never compares.
InSync ==
  (verdict = "none" /\ at = "exec" /\ ~ is_detach /\ skip_dut_nr_instr = 0 /\ ~ is_skip_ref)
    => /\ checkregs(ref)
       /\ errors = 0 /\ ~ lost => ref = dut

\* difftest stops only for a reason: a wrong result of the DUT, or a reference
\* that was left with other memory than the DUT's. In particular the counts that
\* the helpers pass to difftest_skip_dut are enough for what QEMU packs. They are
\* not for a NEMU reference after a page fault or an illegal instruction: see
\* CatchesUp.
NoFalseAlarm == verdict \in {"abort", "panic"} => errors > 0 \/ lost \/ stranded

\* "We expect that DUT will catch up with REF within `nr_dut` instructions."
\* (difftest_skip_dut): a DUT that did nothing wrong is not given up.
CatchesUp == verdict = "panic" => errors > 0 \/ lost

\* The DUT always catches up with the reference, or difftest_step says that it
\* cannot: comparing is never suspended for good.
CatchUpEnds == []<>(skip_dut_nr_instr = 0 \/ verdict # "none" \/ is_detach)

\* What is compared is comparable and every difference is reported once it is real:
\* dut.c skips, catches up, patches and detaches without losing the pace of the
\* reference and without reporting a DUT that did nothing wrong, faults beside a
\* NEMU reference apart.
DifftestSound == InSync /\ NoFalseAlarm
=============================================================================
