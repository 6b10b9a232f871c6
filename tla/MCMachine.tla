------------------------------ MODULE MCMachine ------------------------------
\* The machine around its instructions, each part on a small instance of its own: the
\* loop of cpu_exec, the debugger with its expressions and watchpoints, the memory of
\* a user-mode program, and what the guest shares with a signal handler, a second
\* thread or a driver: keyboard and screen, serial port, timer, SD card, and the
\* software-filled TLB of mips32.
EXTENDS CpuExec

(* Instances of CpuExec: batches of three instructions, calls below, inside *)
(* and above one batch.                                                     *)

PlainBuild == [share |-> FALSE, perf_opt |-> FALSE, batch |-> 3, requests |-> {1, 2, 5}]
ThreadedBuild == [PlainBuild EXCEPT !.perf_opt = TRUE]
RefBuild == [share |-> TRUE, perf_opt |-> FALSE, batch |-> 1, requests |-> {1}]

AllBuilds == {PlainBuild, ThreadedBuild, RefBuild}
PlainOnly == {PlainBuild}

VARIABLES
  part,   \* the component that this behaviour is of
  mo_perf, mo_head, mo_free_, mo_wp, mo_val, mo_nemu_state, mo_at, mo_n_remain_total, mo_n,
  mo_iqueue, mo_q_idx, mo_asserted, mo_hits, mo_trace,
  um_vmas, um_data, um_brk, um_brk_page, um_program_brk, um_loaded, um_ops, um_dead, um_remap,
  ex_in,
  kb_state, kb_at, kb_device_update_flag, kb_events, kb_sent, kb_key_queue, kb_key_f, kb_key_r,
  kb_port, kb_sync, kb_shown, kb_drawn,
  se_queue, se_f, se_r, se_pipe, se_written, se_CH, se_LSR, se_dead,
  cl_Deterministic, cl_now, cl_mtime, cl_mtimecmp, cl_mip, cl_at, cl_op, cl_t_now, cl_t_mip,
  cl_got, cl_last,
  sd_thread, sd_request, sd_mutex, sd_host, sd_error, sd_bytes_xfered, sd_calls, sd_sent,
  sd_asked, sd_done, sd_report, sd_warned,
  ms_tlb, ms_c0, ms_INTR, ms_pt, ms_pc, ms_done, ms_access, ms_script, ms_seen, ms_changes,
  ms_intrs

MO == INSTANCE Monitor WITH NR_WP <- 2, Exprs <- {"e","f"}, Vals <- {0,1},
    INSTR_QUEUE_SIZE <- 2, BATCH_SIZE <- 2, MaxInstr <- 4, perf <- mo_perf, head <- mo_head,
    free_ <- mo_free_, wp <- mo_wp, val <- mo_val, nemu_state <- mo_nemu_state, at <- mo_at,
    n_remain_total <- mo_n_remain_total, n <- mo_n, iqueue <- mo_iqueue, q_idx <- mo_q_idx,
    asserted <- mo_asserted, hits <- mo_hits, trace <- mo_trace
moVars == <<mo_perf, mo_head, mo_free_, mo_wp, mo_val, mo_nemu_state, mo_at, mo_n_remain_total,
    mo_n, mo_iqueue, mo_q_idx, mo_asserted, mo_hits, mo_trace>>

UMSegments == <<[vaddr |-> 2, offset |-> 0, filesz |-> 2, memsz |-> 2, write |-> FALSE],
                [vaddr |-> 5, offset |-> 11, filesz |-> 2, memsz |-> 4, write |-> TRUE]>>
UM == INSTANCE UserMem WITH PAGE <- 2, DYN <- 14, KERNEL <- 22, TOP <- 30, STACK <- 2,
    Segments <- UMSegments, MaxOps <- 6, vmas <- um_vmas, data <- um_data, brk <- um_brk,
    brk_page <- um_brk_page, program_brk <- um_program_brk, loaded <- um_loaded, ops <- um_ops,
    dead <- um_dead, remap <- um_remap
umVars == <<um_vmas, um_data, um_brk, um_brk_page, um_program_brk, um_loaded, um_ops, um_dead,
    um_remap>>

EX == INSTANCE Expr WITH W <- 3, Nums <- {0,3}, MaxTokens <- 7, in <- ex_in
exVars == <<ex_in>>

KB == INSTANCE Keyboard WITH KEY_QUEUE_LEN <- 3, Scancodes <- {1,2}, Mapped <- {1},
    MaxEvents <- 4, state <- kb_state, at <- kb_at,
    device_update_flag <- kb_device_update_flag, events <- kb_events, sent <- kb_sent,
    key_queue <- kb_key_queue, key_f <- kb_key_f, key_r <- kb_key_r, port <- kb_port,
    sync <- kb_sync, shown <- kb_shown, drawn <- kb_drawn
kbVars == <<kb_state, kb_at, kb_device_update_flag, kb_events, kb_sent, kb_key_queue, kb_key_f,
    kb_key_r, kb_port, kb_sync, kb_shown, kb_drawn>>

SEPreset == <<1, 2>>
SE == INSTANCE Serial WITH QUEUE_SIZE <- 4, READ_MAX <- 3, Chars <- {1,2}, Preset <- SEPreset,
    MaxWritten <- 5, queue <- se_queue, f <- se_f, r <- se_r, pipe <- se_pipe,
    written <- se_written, CH <- se_CH, LSR <- se_LSR, dead <- se_dead
seVars == <<se_queue, se_f, se_r, se_pipe, se_written, se_CH, se_LSR, se_dead>>

CL == INSTANCE Clint WITH MaxTime <- 3, Compares <- {1,2,3}, Deterministic <- cl_Deterministic,
    now <- cl_now, mtime <- cl_mtime, mtimecmp <- cl_mtimecmp, mip <- cl_mip, at <- cl_at,
    op <- cl_op, t_now <- cl_t_now, t_mip <- cl_t_mip, got <- cl_got, last <- cl_last
clVars == <<cl_Deterministic, cl_now, cl_mtime, cl_mtimecmp, cl_mip, cl_at, cl_op, cl_t_now,
    cl_t_mip, cl_got, cl_last>>

SD == INSTANCE SdDriver WITH Threads <- {"t1","t2"}, Blocks <- 2, MaxRequests <- 1,
    thread <- sd_thread, request <- sd_request, mutex <- sd_mutex, host <- sd_host,
    error <- sd_error, bytes_xfered <- sd_bytes_xfered, calls <- sd_calls, sent <- sd_sent,
    asked <- sd_asked, done <- sd_done, report <- sd_report, warned <- sd_warned
sdVars == <<sd_thread, sd_request, sd_mutex, sd_host, sd_error, sd_bytes_xfered, sd_calls,
    sd_sent, sd_asked, sd_done, sd_report, sd_warned>>

MSAccesses ==
  {[page |-> <<0, 0>>, type |-> "write"], [page |-> <<0, 1>>, type |-> "read"], [page |-> <<1, 1>>, type |-> "read"]}
MS == INSTANCE MipsSys WITH NR_TLB <- 2, Vpns <- {0,1}, Frames <- {"f", "g"}, Accesses <- MSAccesses,
    MaxChanges <- 1, MaxIntr <- 1, tlb <- ms_tlb, c0 <- ms_c0, INTR <- ms_INTR, pt <- ms_pt, pc <- ms_pc,
    done <- ms_done, access <- ms_access, script <- ms_script, seen <- ms_seen,
    changes <- ms_changes, intrs <- ms_intrs
msVars == <<ms_tlb, ms_c0, ms_INTR, ms_pt, ms_pc, ms_done, ms_access, ms_script, ms_seen,
    ms_changes, ms_intrs>>

-----------------------------------------------------------------------------
\* A behaviour is one of one component; the others stay in an initial state.
AllInit ==
  /\ part \in {"cpu", "mo", "um", "ex", "kb", "se", "cl", "sd", "ms"}
  /\ Init
  /\ part # "cpu" => build = PlainBuild
  /\ MO!Init
  /\ part # "mo" => ~mo_perf
  /\ UM!Init
  /\ EX!Init
  /\ part # "ex" => ex_in = EX!gen_num(0)
  /\ KB!Init
  /\ SE!Init
  /\ CL!Init
  /\ part # "cl" => ~cl_Deterministic
  /\ SD!Init
  /\ MS!Init

\* Components that may come to an end stay there.
AllNext ==
  /\ part' = part
  /\ IF part = "cpu" THEN Next ELSE UNCHANGED vars
  /\ IF part = "mo" THEN MO!Next \/ UNCHANGED moVars ELSE UNCHANGED moVars
  /\ IF part = "um" THEN UM!Next \/ UNCHANGED umVars ELSE UNCHANGED umVars
  /\ IF part = "ex" THEN EX!Next \/ UNCHANGED exVars ELSE UNCHANGED exVars
  /\ IF part = "kb" THEN KB!Next ELSE UNCHANGED kbVars
  /\ IF part = "se" THEN SE!Next \/ UNCHANGED seVars ELSE UNCHANGED seVars
  /\ IF part = "cl" THEN CL!Next ELSE UNCHANGED clVars
  /\ IF part = "sd" THEN SD!Next \/ UNCHANGED sdVars ELSE UNCHANGED sdVars
  /\ IF part = "ms" THEN MS!Next ELSE UNCHANGED msVars

AllVars == <<part, vars, moVars, umVars, exVars, kbVars, seVars, clVars, sdVars, msVars>>

\* The fairness that each component states.
Fairness ==
  /\ WF_kbVars(part = "kb" /\ KB!MainThread)
  /\ WF_kbVars(part = "kb" /\ KB!alarm_sig_handler)
  /\ WF_seVars(part = "se" /\ SE!ReadLSR)
  /\ SF_seVars(part = "se" /\ se_LSR /\ SE!ReadCH)
  /\ WF_clVars(part = "cl" /\ CL!Steps)
  /\ WF_clVars(part = "cl" /\ CL!alarm_sig_handler)
  /\ WF_sdVars(part = "sd" /\ SD!Driver)
  /\ SF_sdVars(part = "sd" /\ SD!mutex_lock("t1"))
  /\ SF_sdVars(part = "sd" /\ SD!mutex_lock("t2"))
  /\ WF_msVars(part = "ms" /\ MS!Access)
  /\ WF_msVars(part = "ms" /\ MS!Kernel)

AllSpec == AllInit /\ [][AllNext]_AllVars /\ Fairness

-----------------------------------------------------------------------------
\* The debugger keeps its watchpoints, passes over no change of a watched value and
\* stops for it (without PERF_OPT before another instruction, with it at the end of the
\* batch), and with PERF_OPT keeps the last instructions.
DebuggerSound ==
  /\ [](part = "mo" => MO!PoolPartitioned /\ MO!LastInstructions)
  /\ [][part = "mo" => MO!NothingMissedStep /\ MO!StopsAtChangeStep]_moVars

\* The areas that user mode keeps of a program are the mappings of the host, the
\* segments and the heap in them have their contents, and mremap keeps these.
UserAreasSound ==
  /\ [](part = "um" => UM!ListSorted /\ UM!HostAgrees /\ UM!LoadedAsElf /\ UM!HeapMapped)
  /\ [][part = "um" => UM!RemapKeepsStep]_umVars

\* An expression in which nothing is divided by zero is evaluated as C would
\* evaluate it on words of W bits, or it is refused, exactly when eval meets a part
\* that begins with a bracket and ends with one that closes another, as in (1)+(2). A
\* division by zero ends NEMU even where C skips it: eval computes both operands of
\* && and || first.
RightOrRejected == part = "ex" => EX!RightOrRejected

\* The ring is a channel that holds one key less than it has slots: keys are
\* read in the order in which they were pressed and released, none is
\* overwritten, and the Assert of send_key comes before that could happen.
KeyboardIsChannel ==
  /\ part = "kb" => KB!C!Init
  /\ [][part = "kb" => KB!C!Step]_kbVars

\* From the pipe to the register there is one channel: although serial_enqueue
\* drops characters silently, no character is lost, repeated or overtaken,
\* because serial_rx_ready_flag reads fewer than the ring holds and only when
\* it is empty.
SerialIsChannel ==
  /\ part = "se" => SE!C!Init
  /\ [][part = "se" => SE!C!Step]_seVars

\* The guest's time never runs backwards, whichever thread last updated it, and the
\* timer interrupt is not pending before its time.
TimerSound == part = "cl" => CL!TimerSound

\* Every request ends once, with the result of its own commands and data, and the
\* driver meets no state that it warns of.
RequestsEndOnce == part = "sd" => SD!RequestsEndOnce

\* Through interrupts, refills and retries the instructions run in program order, and
\* an access goes where the entry of its page says that was last written.
MipsTlbSound ==
  /\ [](part = "ms" => MS!InstructionsInOrder)
  /\ [][part = "ms" => MS!TranslatesCurrentStep]_msVars

\* What the guest waits for comes: events of the host reach the keyboard and frames
\* the screen, a guest that polls receives all characters, the timer fires unless the
\* guest never stops writing mip, every request to the SD card completes, and an
\* access that missed the TLB of mips32 succeeds when it is retried.
MachineProgress ==
  /\ part = "kb" => KB!EventsHandled /\ KB!FramesShown
  /\ part = "se" => SE!AllReceived
  /\ part = "cl" => CL!TimerFires
  /\ part = "sd" => SD!RequestsFinish
  /\ part = "ms" => MS!AccessCompletes
=============================================================================
