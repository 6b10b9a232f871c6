----------------------------- MODULE MCReference -----------------------------
\* What stands beside the processor, each part on a small instance of its own: the
\* store queue of a reference, the two ends of difftest and the line to a reference
\* behind a GDB stub, the checkpoints that are taken and restored, and Kconfig, from
\* which the build of either side is made.
EXTENDS StoreCommit

\* A ring of three entries; the DUT may lag four stores, one more than the ring
\* holds.  Two double words: stores of one and of two bytes at offset 2, and of
\* one byte at offset 1 of the next double word.

MCAddrs == {2, 9}

VARIABLES
  part,   \* the component that this behaviour is of
  df_build, df_prog, df_dut, df_ref, df_is_skip_ref, df_skip_dut_nr_instr, df_is_detach,
  df_patch_fn, df_verdict, df_at, df_errors, df_events, df_lost, df_stranded,
  gd_call, gd_pc, gd_rx, gd_toQemu, gd_fromQemu, gd_qemu, gd_dut, gd_want, gd_damaged,
  cs_state, cs_force_cpt_mmode, cs_profiling_started, cs_mode, cs_count, cs_nextUniformPoint,
  cs_simpoint2Weights, cs_cptID, cs_files, cs_undefined, cs_lastICount, cs_intervalCount,
  cs_intervalDrift, cs_currentBBV, cs_bbMap, cs_lines, cs_total,
  cr_m, cr_cpt, cr_at, cr_step,
  kc_K, kc_syms, kc_config, kc_steps,
  ks_known, ks_config, ks_old, ks_tmp, ks_auto, ks_header, ks_built, ks_dirty, ks_pc, ks_mem,
  ks_overwrite, ks_todo, ks_runs,
  kd_deps, kd_left, kd_checked, kd_errors, kd_chain,
  km_kind, km_own, km_within, km_m, km_current_menu, km_last_entry, km_done,
  ke_e, ke_f

DFSettings ==
  {<<"qemu", <<"csr", "st", "io", "amo", "pf", "ret", "inc", "ld", "ret">> >>,
   <<"qemu", <<"inc", "fence", "amo", "csrio", "ld", "csrill", "ret", "fence", "csr", "ld", "ret">> >>,
   <<"qemu", <<"fence", "inc", "st", "ret", "ld", "ret">> >>,
   <<"x86", <<"inc", "pushf", "ld", "inc", "st", "io", "ld", "ret", "ld", "ret">> >>,
   <<"nemu", <<"inc", "csrio", "st", "fence", "ld", "ret", "clr", "st", "ret">> >>,
   <<"nemu", <<"inc", "st", "pf", "csrill", "ret", "ld", "io", "amo", "ret">> >>,
   <<"nemu", <<"inc", "pf", "ret", "ld", "inc", "ret">> >> }
DF == INSTANCE Difftest WITH Settings <- DFSettings, MaxErrors <- 1, MaxEvents <- 2,
    build <- df_build, prog <- df_prog, dut <- df_dut, ref <- df_ref,
    is_skip_ref <- df_is_skip_ref, skip_dut_nr_instr <- df_skip_dut_nr_instr,
    is_detach <- df_is_detach, patch_fn <- df_patch_fn, verdict <- df_verdict, at <- df_at,
    errors <- df_errors, events <- df_events, lost <- df_lost, stranded <- df_stranded
dfVars == <<df_build, df_prog, df_dut, df_ref, df_is_skip_ref, df_skip_dut_nr_instr,
    df_is_detach, df_patch_fn, df_verdict, df_at, df_errors, df_events, df_lost, df_stranded>>

GDRegValues == <<0, 43981>>
GD == INSTANCE Gdb WITH mtu <- 1, Digits <- 4, MemSize <- 2, Bytes <- {0, 171},
    RegValues <- GDRegValues, MaxExec <- 2, MaxDamaged <- 1, call <- gd_call, pc <- gd_pc,
    rx <- gd_rx, toQemu <- gd_toQemu, fromQemu <- gd_fromQemu, qemu <- gd_qemu, dut <- gd_dut,
    want <- gd_want, damaged <- gd_damaged
gdVars == <<gd_call, gd_pc, gd_rx, gd_toQemu, gd_fromQemu, gd_qemu, gd_dut, gd_want, gd_damaged>>

CS == INSTANCE CptSchedule WITH Interval <- 3, WARMUP <- 1, Points <- {0,1,2},
    BlockSizes <- {1,4}, Blocks <- {1,2}, MaxInstr <- 9, state <- cs_state,
    force_cpt_mmode <- cs_force_cpt_mmode, profiling_started <- cs_profiling_started,
    mode <- cs_mode, count <- cs_count, nextUniformPoint <- cs_nextUniformPoint,
    simpoint2Weights <- cs_simpoint2Weights, cptID <- cs_cptID, files <- cs_files,
    undefined <- cs_undefined, lastICount <- cs_lastICount, intervalCount <- cs_intervalCount,
    intervalDrift <- cs_intervalDrift, currentBBV <- cs_currentBBV, bbMap <- cs_bbMap,
    lines <- cs_lines, total <- cs_total
csVars == <<cs_state, cs_force_cpt_mmode, cs_profiling_started, cs_mode, cs_count,
    cs_nextUniformPoint, cs_simpoint2Weights, cs_cptID, cs_files, cs_undefined, cs_lastICount,
    cs_intervalCount, cs_intervalDrift, cs_currentBBV, cs_bbMap, cs_lines, cs_total>>

CR == INSTANCE CptRestore WITH Vals <- {1,2}, Reset <- 0, m <- cr_m, cpt <- cr_cpt,
    at <- cr_at, step <- cr_step
crVars == <<cr_m, cr_cpt, cr_at, cr_step>>

KCAlways == [t |-> "NONE"]
KCIs(name) == [t |-> "SYMBOL", s |-> name]
KCPlain == [type |-> "bool", prompts |-> <<KCAlways>>, dir |-> KCAlways, rev |-> KCAlways, imp |-> KCAlways, defs |-> <<>>, ranges |-> <<>>,
          choice |-> "", members |-> <<>>, optional |-> FALSE]
KCOn(e, s) == [s EXCEPT !.prompts = <<e>>, !.dir = e]
KCHidden(s) == [s EXCEPT !.prompts = <<>>]
KCAnd2(a, b) == [t |-> "AND", l |-> a, r |-> b]
KCKconfigs ==
  [select |-> [sym |-> [A |-> KCPlain, B |-> KCOn(KCIs("A"), KCPlain), C |-> [KCPlain EXCEPT !.rev = KCAnd2(KCIs("B"), KCIs("A"))],
                        D |-> KCHidden([KCPlain EXCEPT !.defs = <<[v |-> KCIs("y"), c |-> KCIs("C")]>>])],
               modules |-> "n", menus |-> <<"A", "B", "C", "D">>, order |-> <<"D", "B", "C", "A">>],
   imply |-> [sym |-> [A |-> KCPlain, B |-> KCOn(KCIs("A"), [KCPlain EXCEPT !.imp = KCIs("C"), !.defs = <<[v |-> KCIs("n"), c |-> KCAlways]>>]), C |-> KCPlain,
                       I |-> KCOn(KCIs("B"), [KCPlain EXCEPT !.type = "int", !.defs = <<[v |-> 3, c |-> KCAlways]>>,
                                          !.ranges = <<[lo |-> 1, hi |-> 2, c |-> KCIs("C")], [lo |-> 1, hi |-> 3, c |-> KCAlways]>>])],
              modules |-> "n", menus |-> <<"A", "C", "B", "I">>, order |-> <<"I", "C", "B", "A">>],
   choice |-> [sym |-> [A |-> KCPlain,
                        CH |-> [KCPlain EXCEPT !.rev = [t |-> "SYMBOL", s |-> "m"], !.members = <<"X", "Z", "Y">>,
                                             !.defs = <<[v |-> KCIs("Y"), c |-> KCIs("A")]>>],
                        X |-> [KCOn(KCIs("CH"), KCPlain) EXCEPT !.choice = "CH"],
                        Y |-> [KCOn(KCAnd2(KCIs("CH"), KCIs("A")), KCPlain) EXCEPT !.choice = "CH"],
                        Z |-> [KCOn(KCIs("CH"), KCPlain) EXCEPT !.choice = "CH"]],
               modules |-> "n", menus |-> <<"A", "CH", "X", "Z", "Y">>, order |-> <<"Z", "Y", "CH", "X", "A">>],
   modules |-> [sym |-> [MOD |-> KCPlain, T |-> [KCPlain EXCEPT !.type = "tri"],
                         U |-> KCOn(KCIs("T"), [KCPlain EXCEPT !.type = "tri", !.defs = <<[v |-> KCIs("m"), c |-> KCAlways]>>]),
                         V |-> [KCPlain EXCEPT !.type = "tri", !.rev = KCIs("U")]],
                modules |-> "MOD", menus |-> <<"MOD", "T", "U", "V">>, order |-> <<"V", "U", "T", "MOD">>]]
KC == INSTANCE KConf WITH Kconfigs <- KCKconfigs, MaxSteps <- 2, Numbers <- {0, 1, 2, 3},
    K <- kc_K, syms <- kc_syms, config <- kc_config, steps <- kc_steps
kcVars == <<kc_K, kc_syms, kc_config, kc_steps>>

KSValues == [X |-> {-1, 2}, Y |-> {1, 2}]
KSIncludes == [ao |-> <<"a.c", "autoconf.h">>, bo |-> <<"b.c", "autoconf.h", "h.h">>]
KSWords == [f \in {"a.c", "b.c", "h.h", "autoconf.h"} |->
  CASE f = "a.c" -> {<<"X", "">>} [] f = "b.c" -> {<<"Y", "_MODULE">>} [] f = "h.h" -> {<<"Y", "">>} [] OTHER -> {<<"X", "">>, <<"Y", "">>}]
KS == INSTANCE KSync WITH Symbols <- {"X", "Y"}, Includes <- KSIncludes, Values <- KSValues,
    Words <- KSWords, Flags <- {"X"}, MaxRuns <- 2, known <- ks_known, config <- ks_config, old <- ks_old,
    tmp <- ks_tmp, auto <- ks_auto, header <- ks_header, built <- ks_built, dirty <- ks_dirty,
    pc <- ks_pc, mem <- ks_mem, overwrite <- ks_overwrite, todo <- ks_todo, runs <- ks_runs
ksVars == <<ks_known, ks_config, ks_old, ks_tmp, ks_auto, ks_header, ks_built, ks_dirty, ks_pc,
    ks_mem, ks_overwrite, ks_todo, ks_runs>>

KD == INSTANCE KDeps WITH Outside <- {"A", "B"}, Members <- {"X", "Y"}, Choice <- "CH",
    deps <- kd_deps, left <- kd_left, checked <- kd_checked, errors <- kd_errors,
    chain <- kd_chain
kdVars == <<kd_deps, kd_left, kd_checked, kd_errors, kd_chain>>

KM == INSTANCE KMenu WITH MaxEntries <- 4, kind <- km_kind, own <- km_own, within <- km_within,
    m <- km_m, current_menu <- km_current_menu, last_entry <- km_last_entry, done <- km_done
kmVars == <<km_kind, km_own, km_within, km_m, km_current_menu, km_last_entry, km_done>>

KES(name) == [t |-> "SYMBOL", s |-> name]
KEC(op, name, c) == [t |-> op, s |-> name, c |-> c]
KELeaf == {KES("A"), KES("T"), KES("n"), KES("m"), KEC("UNEQUAL", "A", "m"), KEC("EQUAL", "T", "m"), KEC("UNEQUAL", "T", "n"), KEC("LEQ", "T", "n")}
KELeaf2 == {KES("A"), KES("T"), KEC("EQUAL", "A", "n"), KEC("EQUAL", "T", "m"), KEC("UNEQUAL", "T", "y")}
KE == INSTANCE KExpr WITH Bools <- {"A"}, Tristates <- {"T"}, Leaf <- KELeaf, Leaf2 <- KELeaf2,
    e <- ke_e, f <- ke_f
keVars == <<ke_e, ke_f>>

-----------------------------------------------------------------------------
\* A behaviour is one of one component; the others stay in an initial state.
AllInit ==
  /\ part \in {"sc", "df", "gd", "cs", "cr", "kc", "ks", "kd", "km", "ke"}
  /\ Init
  /\ part # "df" => df_build = (CHOOSE s \in DFSettings : TRUE)[1] /\ df_prog = (CHOOSE s \in DFSettings : TRUE)[2]
  /\ DF!Init
  /\ GD!Init
  /\ CS!Init
  /\ part # "cs" => cs_state = "uniform" /\ ~cs_force_cpt_mmode
  /\ IF part = "cr" THEN CR!Init ELSE cr_m = CR!ResetState /\ cr_cpt = CR!None /\ cr_at = "guest" /\ cr_step = 1
  /\ KC!Init
  /\ part # "kc" => kc_K = KCKconfigs["select"]
  /\ KS!Init
  /\ KD!Init
  /\ KM!Init
  /\ KE!Init

\* Components that may come to an end stay there.
AllNext ==
  /\ part' = part
  /\ IF part = "sc" THEN Next ELSE UNCHANGED vars
  /\ IF part = "df" THEN DF!Next ELSE UNCHANGED dfVars
  /\ IF part = "gd" THEN GD!Next ELSE UNCHANGED gdVars
  /\ IF part = "cs" THEN CS!Next \/ UNCHANGED csVars ELSE UNCHANGED csVars
  /\ IF part = "cr" THEN CR!Next \/ UNCHANGED crVars ELSE UNCHANGED crVars
  /\ IF part = "kc" THEN KC!Next \/ UNCHANGED kcVars ELSE UNCHANGED kcVars
  /\ IF part = "ks" THEN KS!Next \/ UNCHANGED ksVars ELSE UNCHANGED ksVars
  /\ IF part = "kd" THEN KD!Next \/ UNCHANGED kdVars ELSE UNCHANGED kdVars
  /\ IF part = "km" THEN KM!Next \/ UNCHANGED kmVars ELSE UNCHANGED kmVars
  /\ IF part = "ke" THEN KE!Next \/ UNCHANGED keVars ELSE UNCHANGED keVars

AllVars == <<part, vars, dfVars, gdVars, csVars, crVars, kcVars, ksVars, kdVars, kmVars, keVars>>

\* The fairness that each component states.
Fairness ==
  /\ WF_dfVars(part = "df" /\ DF!Running)
  /\ WF_gdVars(part = "gd" /\ GD!Client)
  /\ WF_gdVars(part = "gd" /\ GD!Qemu)
  /\ WF_csVars(part = "cs" /\ CS!BlockStep)
  /\ WF_csVars(part = "cs" /\ CS!nemu_trap)
  /\ SF_csVars(part = "cs" /\ cs_mode = "S" /\ \E pc \in {1, 2} : CS!EndOfLoop(pc))
  /\ WF_crVars(part = "cr" /\ CR!serialize)
  /\ WF_crVars(part = "cr" /\ CR!Restart)
  /\ SF_crVars(part = "cr" /\ CR!Restorer)

AllSpec == AllInit /\ [][AllNext]_AllVars /\ Fairness

-----------------------------------------------------------------------------
\* What is compared is comparable and every difference is reported once it is real:
\* dut.c skips, catches up, patches and detaches without losing the pace of the
\* reference and without reporting a DUT that did nothing wrong, faults beside a
\* NEMU reference apart.
DifftestSound == part = "df" => DF!DifftestSound

\* "We expect that DUT will catch up with REF within `nr_dut` instructions." (dut.c,
\* difftest_skip_dut): a DUT that did nothing wrong is not given up.
CatchesUp == part = "df" => DF!CatchesUp

\* The reference behind the GDB stub is what difftest asked for, and the line is
\* quiet between two calls, so that no late packet answers the next one.
GdbSound == part = "gd" => GD!GdbSound

\* notify_taken and shouldTakeCpt keep their schedule: the files due have names of
\* their own, uniform checkpoints are an interval apart, SimPoints come in order up to
\* the last (nothing is said of what is written after it), and the profile loses no
\* instruction and counts none twice.
CheckpointsScheduled == part = "cs" => CS!CheckpointsScheduled

\* The restorer gives back the registers and CSRs that it lists as serialize saved
\* them, except for the fields of mstatus, mie and the clock that it overwrites, which
\* end as RestoredOtherwise says, and can be disturbed only in one window.
CheckpointsRestored == part = "cr" => CR!CheckpointsRestored

\* The values of a configuration depend on what was answered and on nothing else: not
\* on the order in which symbols are computed, nor on having been written to a file
\* and read back; and an answer stays given.
AnswersDecide ==
  /\ [](part = "kc" => KC!OrderFree /\ KC!SetReadsBack /\ KC!Consistent /\ KC!RoundTrip /\ KC!DefconfigEnough)
  /\ [][part = "kc" => KC!AnswersKeptStep]_kcVars

\* The symbols that the objects test are those of .config after a sync that ended, with
\* no more compiled than had to be, although conf may stop between any two of its
\* writes; compiler flags, and objects made while conf was stopped, are excepted.
BuildInStep ==
  /\ [](part = "ks" => KS!BuildsCurrent /\ KS!SyncedAlike)
  /\ [][part = "ks" => KS!ConfigKeptStep /\ KS!RebuildsOnlyUsersStep]_ksVars

\* Before it is configured a Kconfig is read as it was written: simplified conditions
\* keep their value and are printed back alike (expr.c), a cycle of dependencies is
\* found and named (symbol.c), and the menu depends on all that encloses it and
\* loses no entry (menu.c).
KconfigAsWritten ==
  /\ part = "ke" => KE!SimplifiesKeep /\ KE!EqualMeansEqual /\ KE!DependsMeansNo /\ KE!ComparesAsAsked /\ KE!PrintsBack
  /\ part = "kd" => KD!RejectsCycles /\ KD!PrintsCycle /\ KD!Covers
  /\ part = "km" => KM!TreeKept /\ KM!DependsOnAll /\ KM!Reachable

\* What was begun ends: a DUT that skips instructions catches up, a call over the GDB
\* line returns once packets stop being damaged, a checkpoint that is due is taken by
\* a guest that keeps reaching S mode, and one that is restored gets to its mret.
ReferenceProgress ==
  /\ part = "df" => DF!CatchUpEnds
  /\ part = "gd" => GD!CallsReturn
  /\ part = "cs" => CS!PointsTaken
  /\ part = "cr" => CR!RestoreEnds
=============================================================================
