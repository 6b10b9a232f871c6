------------------------------- MODULE Monitor -------------------------------
\* The monitor (monitor/ui.c, monitor/watchpoint.c, utils/iqueue.c, cpu_exec):
\* the commands of the user between runs of the guest, the pool of watchpoints
\* that every instruction scans, and the ring of the last instructions.
EXTENDS Integers, Sequences, SequencesExt

CONSTANTS
  NR_WP,            \* size of the pool
  Exprs,            \* expressions that the user watches
  Vals,             \* their values
  INSTR_QUEUE_SIZE,
  BATCH_SIZE,
  MaxInstr          \* bound: instructions executed

VARIABLES
  perf,             \* the build has PERF_OPT
  head, free_,      \* the two lists, as sequences of NO
  wp,               \* NO -> [expr, old_val]
  val,              \* expression -> its value now
  nemu_state,
  at,               \* "prompt", "cpu_exec" (top of its loop), "execute"
  n_remain_total,   \* of cpu_exec
  n,                \* of execute: instructions left in the batch
  iqueue, q_idx,
  asserted,         \* new_WP found no free watchpoint
  hits,             \* ghost: watchpoints reported by the last scan
  trace             \* ghost: the instructions executed

vars == <<perf, head, free_, wp, val, nemu_state, at, n_remain_total, n, iqueue, q_idx, asserted, hits, trace>>
pool == <<head, free_, wp, asserted>>
queue == <<iqueue, q_idx, trace>>

NOs == 0 .. NR_WP - 1
NoInstr == -1

\* init_monitor, init_wp_pool
Init ==
  /\ perf \in BOOLEAN
  /\ head = <<>> /\ free_ = [i \in 1 .. NR_WP |-> i - 1]
  /\ wp = [i \in NOs |-> [expr |-> CHOOSE e \in Exprs : TRUE, old_val |-> CHOOSE v \in Vals : TRUE]]
  /\ val = [e \in Exprs |-> CHOOSE v \in Vals : TRUE]
  /\ nemu_state = "STOP" /\ at = "prompt" /\ n_remain_total = 0 /\ n = 0
  /\ iqueue = [i \in 0 .. INSTR_QUEUE_SIZE - 1 |-> NoInstr] /\ q_idx = 0
  /\ asserted = FALSE /\ hits = {} /\ trace = <<>>

-----------------------------------------------------------------------------
\* Commands: ui_mainloop reads one when cpu_exec has returned.

Prompt == at = "prompt" /\ ~ asserted

\* cmd_w, set_watchpoint, new_WP; an expression that does not evaluate is refused.
cmd_w_keeps_next(e) ==
  /\ Prompt
  /\ free_ # <<>>
  /\ head' = <<Head(free_)>> \o head /\ UNCHANGED free_
  /\ wp' = [wp EXCEPT ![Head(free_)] = [expr |-> e, old_val |-> val[e]]]
  /\ UNCHANGED <<perf, val, nemu_state, at, n_remain_total, n, queue, asserted, hits>>
cmd_w(e) ==
  /\ Prompt
  /\ IF free_ = <<>>
     THEN asserted' = TRUE /\ UNCHANGED <<head, free_, wp>>
     ELSE /\ head' = <<Head(free_)>> \o head /\ free_' = Tail(free_)
          /\ wp' = [wp EXCEPT ![Head(free_)] = [expr |-> e, old_val |-> val[e]]]
          /\ UNCHANGED asserted
  /\ UNCHANGED <<perf, val, nemu_state, at, n_remain_total, n, queue, hits>>

\* cmd_d, delete_watchpoint, free_WP; a number that is not set changes nothing.
cmd_d(NO) ==
  /\ Prompt /\ \E i \in 1 .. Len(head) : head[i] = NO
  /\ head' = SelectSeq(head, LAMBDA x : x # NO) /\ free_' = <<NO>> \o free_
  /\ UNCHANGED <<perf, wp, asserted, val, nemu_state, at, n_remain_total, n, queue, hits>>

\* cmd_c, cmd_si: cpu_exec(k), which does nothing once the program has ended.
cmd_si(k) ==
  /\ Prompt /\ nemu_state \notin {"END", "ABORT"}
  /\ nemu_state' = "RUNNING" /\ at' = "cpu_exec" /\ n_remain_total' = k /\ hits' = {}
  /\ UNCHANGED <<perf, pool, val, n, queue>>

-----------------------------------------------------------------------------
\* Running: cpu_exec and execute.

n_batch == IF n_remain_total >= BATCH_SIZE THEN BATCH_SIZE ELSE n_remain_total

NewBatch ==
  /\ at = "cpu_exec" /\ nemu_state = "RUNNING" /\ n_remain_total > 0
  /\ at' = "execute" /\ n' = n_batch
  /\ UNCHANGED <<perf, pool, val, nemu_state, n_remain_total, queue, hits>>

\* scan_watchpoint: the first in the list that changed, once per instruction.
Changed(now) == {i \in 1 .. Len(head) : wp[head[i]].old_val # now[wp[head[i]].expr]}
First(S) == CHOOSE i \in S : \A j \in S : i <= j

scan_watchpoint(now) ==
  IF Changed(now) = {}
  THEN UNCHANGED <<wp, nemu_state>> /\ hits' = {}
  ELSE LET p == head[First(Changed(now))]
       IN  wp' = [wp EXCEPT ![p].old_val = now[wp[p].expr]] /\ nemu_state' = "STOP" /\ hits' = {p}

iqueue_commit(pc) ==
  iqueue' = [iqueue EXCEPT ![q_idx] = pc] /\ q_idx' = (q_idx + 1) % INSTR_QUEUE_SIZE

\* The loop of execute: without PERF_OPT it is left when a watchpoint stopped
\* it, with PERF_OPT only at the end of the batch.
LoopGoesOn == at = "execute" /\ n > 0 /\ (nemu_state # "STOP" \/ perf)

\* Only debug_difftest, of the engine with PERF_OPT, commits to the ring.
Step(now) ==
  /\ LoopGoesOn /\ Len(trace) < MaxInstr
  /\ val' = now /\ trace' = Append(trace, Len(trace))
  /\ IF perf THEN iqueue_commit(Len(trace)) ELSE UNCHANGED <<iqueue, q_idx>>
  /\ scan_watchpoint(now)
  /\ n' = n - 1
  /\ UNCHANGED <<perf, head, free_, asserted, at, n_remain_total>>

\* nemu_trap: longjmp_exec(NEMU_EXEC_END), past the scan, out of the loop of cpu_exec.
nemu_trap ==
  /\ LoopGoesOn
  /\ nemu_state' = "END" /\ at' = "prompt"
  /\ UNCHANGED <<perf, pool, val, n_remain_total, n, queue, hits>>

\* Back from execute.
EndOfBatch ==
  /\ at = "execute" /\ ~ LoopGoesOn
  /\ at' = "cpu_exec"
  /\ n_remain_total' = n_remain_total - (IF perf THEN n_batch - n ELSE n_batch)
  /\ UNCHANGED <<perf, pool, val, nemu_state, n, queue, hits>>

\* The end of cpu_exec.
Return ==
  /\ at = "cpu_exec" /\ (nemu_state # "RUNNING" \/ n_remain_total = 0)
  /\ at' = "prompt"
  /\ nemu_state' = IF nemu_state = "RUNNING" THEN "QUIT" ELSE nemu_state
  /\ UNCHANGED <<perf, pool, val, n_remain_total, n, queue, hits>>

Next ==
  \/ \E e \in Exprs : cmd_w(e)
  \/ \E NO \in NOs : cmd_d(NO)
  \/ \E k \in 1 .. BATCH_SIZE + 1 : cmd_si(k)
  \/ \E now \in [Exprs -> Vals] : Step(now)
  \/ NewBatch \/ nemu_trap \/ EndOfBatch \/ Return

Spec == Init /\ [][Next]_vars

-----------------------------------------------------------------------------
\* Type invariant of the monitor's state.
TypeOK ==
  /\ wp \in [NOs -> [expr : Exprs, old_val : Vals]] /\ val \in [Exprs -> Vals]
  /\ nemu_state \in {"STOP", "RUNNING", "END", "ABORT", "QUIT"} /\ at \in {"prompt", "cpu_exec", "execute"}
  /\ n_remain_total \in 0 .. BATCH_SIZE + 1 /\ n \in 0 .. BATCH_SIZE
  /\ q_idx \in 0 .. INSTR_QUEUE_SIZE - 1

\* Every watchpoint of the pool is in exactly one of the two lists, once
\* (new_WP, free_WP, delete_watchpoint unlink before they link).
PoolPartitioned ==
  LET all == head \o free_
  IN  /\ Len(all) = NR_WP
      /\ \A NO \in NOs : \E i \in 1 .. NR_WP : all[i] = NO

NothingMissedStep ==
  \A now \in [Exprs -> Vals] : Step(now) =>
    \/ \A i \in 1 .. Len(head) : wp'[head[i]].old_val = now[wp[head[i]].expr]
    \/ hits' # {} /\ nemu_state' = "STOP"

\* No change is passed over: as long as nothing is reported, what every
\* watchpoint recorded is what its expression is worth after the instruction;
\* and with several changes at once, those not reported keep the old value and
\* are found by the next scan.
NothingMissed == [][NothingMissedStep]_vars

StopsAtChangeStep ==
  hits # {} /\ ~ perf => trace' = trace

\* Without PERF_OPT the user gets the prompt back with the guest at the
\* instruction that changed a watched value: nothing is executed after the report.
\* With PERF_OPT the rest of the batch is.
StopsAtChange == [][StopsAtChangeStep]_vars

\* With PERF_OPT iqueue_dump prints the last INSTR_QUEUE_SIZE instructions, oldest at
\* q_idx, and its arrow, at (q_idx - 1) % INSTR_QUEUE_SIZE, is the last of them;
\* without, it prints none, since nothing is committed.
LastInstructions ==
  LET victim_idx == (q_idx - 1) % INSTR_QUEUE_SIZE
      len == IF perf THEN Len(trace) ELSE 0
  IN  \A k \in 0 .. INSTR_QUEUE_SIZE - 1 :
        iqueue[(victim_idx - k) % INSTR_QUEUE_SIZE] = IF k < len THEN trace[len - k] ELSE NoInstr

\* The debugger keeps its watchpoints, passes over no change of a watched value and
\* stops for it (without PERF_OPT before another instruction, with it at the end of the
\* batch), and with PERF_OPT keeps the last instructions.
DebuggerSound == [](PoolPartitioned /\ LastInstructions) /\ NothingMissed /\ StopsAtChange
=============================================================================
