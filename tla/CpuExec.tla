------------------------------ MODULE CpuExec -------------------------------
(***************************************************************************)
(* How cpu_exec (cpu/cpu-exec.c) counts instructions: the budget of a call *)
(* (n_remain_total), the batch (n_remain, n), the total                    *)
(* (g_nr_guest_instr), and what exceptions, full caches, privileged        *)
(* instructions and the end of the program do to them, in the plain and in *)
(* the threaded engine (CONFIG_ENABLE_INSTR_CNT, without CONFIG_DEBUG).    *)
(*                                                                         *)
(* An instruction is known by idx_in_bb, its number in its basic block     *)
(* (0 in the plain engine, which never sets it).  Exceptions save the      *)
(* entry that raised them (module Tcache has the ones that do not).        *)
(***************************************************************************)
EXTENDS Integers, TLAPS

CONSTANTS
  Builds,      \* the configurations the emulator is built in
  BlockSize,   \* bound: instructions of a basic block
  MaxExecuted, \* bound: instructions executed
  MaxTraps,    \* bound: exceptions raised
  MaxCalls,    \* bound: calls of cpu_exec
  UINT         \* 2^32, the modulus of uint32_t

ASSUME CpuExecAssumption ==
  /\ \A b \in Builds :
       /\ {b.share, b.perf_opt} \subseteq BOOLEAN
       /\ b.share => ~ b.perf_opt /\ b.batch = 1 /\ b.requests \subseteq {1}
       /\ b.batch \in Nat \ {0} /\ UINT > 2 * b.batch
       /\ b.requests \subseteq Nat
  /\ BlockSize \in Nat \ {0} /\ UINT \in Nat
  /\ {MaxExecuted, MaxTraps, MaxCalls} \subseteq Nat

VARIABLES
  build,        \* the configuration of this emulator, fixed for its life
  nemu_state,   \* "STOP", "RUNNING", "QUIT" or "END"
  n_remain_total, n_remain, g_nr_guest_instr,
  n,            \* the local of execute
  idx,          \* idx_in_bb of the instruction to execute next
  phase,        \* "ui": outside cpu_exec; "loop": its loop; "exec": execute
  cause,        \* value returned by setjmp: "none" or "exception"
  executed,     \* ghost: instructions completed
  traps,        \* ghost: exceptions raised
  call,         \* ghost: this call's argument, and executed, trapped and
                \* g_nr_guest_instr when it began
  calls,        \* ghost: calls of cpu_exec
  trapped       \* ghost: exceptions that raise_intr was called for

SHARE == build.share
PERF_OPT == build.perf_opt
BATCH_SIZE == build.batch
Requests == build.requests     \* arguments of cpu_exec

counts == <<n_remain_total, n_remain, g_nr_guest_instr>>
ghosts == <<executed, traps, call, calls, trapped>>
vars == <<build, nemu_state, counts, n, idx, phase, cause, ghosts>>

n_batch(total) == IF total >= BATCH_SIZE THEN BATCH_SIZE ELSE total
Least(a, b) == IF a < b THEN a ELSE b

\* Of n_remain_total and n_remain as they are when it is called; n_executed is
\* a uint32_t.
update_instr_cnt(total, remain) ==
  LET n_executed == (n_batch(total) - remain) % UINT
      left == total - Least(n_executed, total)
  IN  /\ n_remain_total' = left
      /\ g_nr_guest_instr' = g_nr_guest_instr + n_executed
      /\ n_remain' = Least(n_batch(total), left)

----------------------------------------------------------------------------
(* cpu_exec                                                                *)

CpuExec(k) ==
  /\ phase = "ui" /\ nemu_state # "END" /\ calls < MaxCalls
  /\ nemu_state' = "RUNNING"
  /\ n_remain_total' = k
  /\ cause' = "none" /\ phase' = "loop"
  /\ calls' = calls + 1
  /\ call' = [n |-> k, executed |-> executed, trapped |-> trapped, counted |-> g_nr_guest_instr]
  /\ UNCHANGED <<n_remain, g_nr_guest_instr, n, idx, executed, traps, trapped>>

\* mutant: off by one
InLoopOne == phase = "loop" /\ nemu_state = "RUNNING" /\ n_remain_total > 1

InLoop == phase = "loop" /\ nemu_state = "RUNNING" /\ n_remain_total > 0

\* The code after the loop: a finished call reports its statistics, except in
\* a reference.
Finish(total, remain) ==
  /\ nemu_state' = IF nemu_state = "RUNNING" THEN "QUIT" ELSE nemu_state
  /\ IF SHARE /\ nemu_state # "END"
     THEN n_remain_total' = total /\ n_remain' = remain /\ UNCHANGED g_nr_guest_instr
     ELSE update_instr_cnt(total, remain)
  /\ phase' = "ui" /\ cause' = "none"

Return ==
  /\ phase = "loop" /\ ~ InLoop
  /\ Finish(n_remain_total, n_remain)
  /\ UNCHANGED <<n, idx, ghosts>>

\* The rest of an iteration: the next batch starts.
Execute ==
  /\ n' = n_batch(n_remain_total)
  /\ phase' = "exec" /\ cause' = "none"
  /\ UNCHANGED <<nemu_state, counts>>

\* raise_intr; a reference leaves the loop.
HandleException ==
  /\ InLoop /\ cause = "exception"
  /\ trapped' = trapped + 1
  /\ idx' = IF PERF_OPT THEN 1 ELSE idx
  /\ IF SHARE
     THEN Finish(n_remain_total, n_remain) /\ UNCHANGED n
     ELSE Execute
  /\ UNCHANGED <<executed, traps, call, calls>>

\* An interrupt is taken: execution goes on at the start of another block.
HandleInterrupt ==
  /\ InLoop /\ cause # "exception" /\ ~ SHARE
  /\ idx' = IF PERF_OPT THEN 1 ELSE idx
  /\ Execute
  /\ UNCHANGED ghosts

NextBatch ==
  /\ InLoop /\ cause # "exception"
  /\ Execute
  /\ UNCHANGED <<idx, ghosts>>

----------------------------------------------------------------------------
(* execute, plain engine                                                   *)

Budget == executed < MaxExecuted
Plain == phase = "exec" /\ ~ PERF_OPT
Threaded == phase = "exec" /\ PERF_OPT

\* mutant: a batch is charged one instruction too many
PlainInstrOvercharged ==
  /\ Plain /\ Budget
  /\ executed' = executed + 1
  /\ g_nr_guest_instr' = g_nr_guest_instr + 1
  /\ n' = n - 1
  /\ n_remain' = IF n = 1 THEN 0 ELSE n_remain
  /\ phase' = IF n = 1 THEN "loop" ELSE "exec"
  /\ n_remain_total' = IF n = 1 THEN n_remain_total - Least(n_remain_total, n_batch(n_remain_total) + 1) ELSE n_remain_total
  /\ UNCHANGED <<nemu_state, idx, cause, traps, call, calls, trapped>>

PlainInstr ==
  /\ Plain /\ Budget
  /\ executed' = executed + 1
  /\ g_nr_guest_instr' = g_nr_guest_instr + 1
  /\ n' = n - 1
  /\ n_remain' = IF n = 1 THEN 0 ELSE n_remain
  /\ phase' = IF n = 1 THEN "loop" ELSE "exec"
  /\ n_remain_total' = IF n = 1 THEN n_remain_total - n_batch(n_remain_total) ELSE n_remain_total
  /\ UNCHANGED <<nemu_state, idx, cause, traps, call, calls, trapped>>

----------------------------------------------------------------------------
(* execute, threaded engine                                                *)

\* Back to cpu_exec with n left of the batch.
Leave(left) ==
  /\ n' = left
  /\ update_instr_cnt(n_remain_total, left)
  /\ phase' = "loop"

Completes ==
  /\ Threaded /\ Budget
  /\ executed' = executed + 1
  /\ UNCHANGED <<nemu_state, cause, traps, call, calls, trapped>>

\* An instruction inside a block.
ThreadedInstr ==
  /\ Completes /\ idx < BlockSize
  /\ idx' = idx + 1
  /\ UNCHANGED <<counts, n, phase>>

\* rtl_j, rtl_jr, rtl_jrelop and end_of_bb: the block is counted.
BlockEnd ==
  /\ Completes
  /\ idx' = 1
  /\ IF n - idx <= 0
     THEN Leave(n - idx)
     ELSE /\ n' = n - idx /\ n_remain' = n - idx
          /\ UNCHANGED <<n_remain_total, g_nr_guest_instr, phase>>

\* rtl_priv_jr
PrivJr ==
  /\ Completes
  /\ idx' = 1
  /\ Leave(n - idx)

\* rtl_priv_next: the block goes on later; after a flush at its next
\* instruction, as a new block.
PrivNext(flush) ==
  /\ Completes /\ idx < BlockSize
  /\ idx' = IF flush THEN 1 ELSE idx + 1
  /\ Leave(n)

----------------------------------------------------------------------------
(* longjmp to cpu_exec                                                     *)

\* The setjmp branch: the instructions of the block before this one count.
Caught ==
  /\ phase = "exec"
  /\ IF PERF_OPT
     THEN update_instr_cnt(n_remain_total, n_remain - (idx - 1))
     ELSE n_remain' = n_remain - (idx - 1) /\ UNCHANGED <<n_remain_total, g_nr_guest_instr>>
  /\ phase' = "loop"
  /\ UNCHANGED <<n, executed, call, calls, trapped>>

Exception ==
  /\ Caught /\ traps < MaxTraps
  /\ traps' = traps + 1
  /\ cause' = "exception"
  /\ UNCHANGED <<nemu_state, idx>>

\* tcache_decode found the cache full: the instruction starts a new block.
Again ==
  /\ PERF_OPT /\ Caught
  /\ cause' = "none" /\ idx' = 1
  /\ UNCHANGED <<nemu_state, traps>>

\* nemu_trap
Halt ==
  /\ Caught
  /\ nemu_state' = "END" /\ cause' = "none"
  /\ UNCHANGED <<idx, traps>>

Stopped == phase = "ui" /\ (nemu_state = "END" \/ calls = MaxCalls) /\ UNCHANGED vars
OutOfBudget == phase = "exec" /\ ~ Budget /\ UNCHANGED vars

Init ==
  /\ build \in Builds
  /\ nemu_state = "STOP"
  /\ n_remain_total = 0 /\ n_remain = 0 /\ g_nr_guest_instr = 0 /\ n = 0
  /\ idx = IF PERF_OPT THEN 1 ELSE 0
  /\ phase = "ui" /\ cause = "none"
  /\ executed = 0 /\ traps = 0 /\ trapped = 0 /\ calls = 0
  /\ call = [n |-> 0, executed |-> 0, trapped |-> 0, counted |-> 0]

Step ==
  \/ \E k \in Requests : CpuExec(k)
  \/ Return \/ HandleException \/ HandleInterrupt \/ NextBatch
  \/ PlainInstr
  \/ ThreadedInstr \/ BlockEnd \/ PrivJr \/ \E flush \in BOOLEAN : PrivNext(flush)
  \/ Exception \/ Again \/ Halt
  \/ Stopped \/ OutOfBudget

Next == Step /\ UNCHANGED build

Spec == Init /\ [][Next]_vars
----------------------------------------------------------------------------
(* The unsigned counters never wrap: what is left of a call is never less  *)
(* than nothing.                                                           *)
TypeOK ==
  /\ build \in Builds
  /\ nemu_state \in {"STOP", "RUNNING", "QUIT", "END"}
  /\ n_remain_total \in Nat /\ n_remain \in Int /\ g_nr_guest_instr \in Nat /\ n \in Int
  /\ idx \in 0 .. BlockSize
  /\ phase \in {"ui", "loop", "exec"} /\ cause \in {"none", "exception"}
  /\ {executed, traps, trapped, calls} \subseteq Nat
  /\ call \in [n : Nat, executed : Nat, trapped : Nat, counted : Nat]

(* What a call has used up of its argument is in g_nr_guest_instr: the     *)
(* clamping of n_remain_total and the corrections after a longjmp never    *)
(* let the budget shrink without counting.                                 *)
BudgetIsCounted == g_nr_guest_instr - call.counted >= call.n - n_remain_total

(* ui.c, { "si", "step", cmd_si }: a call cpu_exec(n) that ends by itself  *)
(* has completed n instructions or taken the exceptions they raised, in    *)
(* the plain engine.  (In the threaded one a call may begin with what a    *)
(* previous call left in n_remain, and run fewer.)                         *)
RunsItsBudget ==
  ~ PERF_OPT /\ phase = "ui" /\ nemu_state = "QUIT" =>
    (executed - call.executed) + (trapped - call.trapped) >= call.n

(* monitor.c: "-I,--max-instr  max number of instructions executed".       *)
AtMostMaxInstr == executed - call.executed <= call.n
----------------------------------------------------------------------------
(* The budget of cpu_exec is kept in three counters that a batch, a block, *)
(* an exception and the end of a call update in different ways.  For every *)
(* batch size, block size and sequence of calls: no counter wraps, nothing *)
(* is taken from a budget without being counted, and in the plain engine a *)
(* call that ends by itself has run what it was asked for.                 *)

\* What a batch that is being executed has completed, in the plain engine.
BatchDone == IF phase = "exec" THEN n_batch(n_remain_total) - n ELSE 0

\* In the plain engine n_remain_total is charged at the end of a batch only:
\* until then the instructions of the batch are ahead of it.
PlainInv ==
  ~ PERF_OPT =>
    /\ phase = "exec" =>
         /\ n \in 1 .. n_batch(n_remain_total)
         /\ g_nr_guest_instr - call.counted >= call.n - n_remain_total + BatchDone
    /\ phase # "ui" =>
         (executed - call.executed) + (trapped - call.trapped) >= call.n - n_remain_total + BatchDone

PhaseInv ==
  /\ phase # "ui" => nemu_state \in {"RUNNING", "END"}
  /\ phase = "exec" => nemu_state = "RUNNING" /\ n_remain_total > 0

CallInv ==
  /\ executed >= call.executed /\ trapped >= call.trapped
  /\ SHARE => call.n <= 1

IInv == TypeOK /\ BudgetIsCounted /\ RunsItsBudget /\ PlainInv /\ PhaseInv /\ CallInv

----------------------------------------------------------------------------
\* A build has a batch size that uint32_t arithmetic can hold.
LEMMA BuildTyped ==
  ASSUME build \in Builds
  PROVE  /\ SHARE \in BOOLEAN /\ PERF_OPT \in BOOLEAN
         /\ BATCH_SIZE \in Nat /\ BATCH_SIZE > 0 /\ UINT \in Nat /\ UINT > 0
         /\ SHARE => ~ PERF_OPT /\ BATCH_SIZE = 1 /\ Requests \subseteq {1}
         /\ Requests \subseteq Nat
BY CpuExecAssumption DEF SHARE, PERF_OPT, BATCH_SIZE, Requests

\* A batch is never longer than what is left of the call.
LEMMA BatchTyped ==
  ASSUME build \in Builds, NEW total \in Nat
  PROVE  /\ n_batch(total) \in Nat /\ n_batch(total) <= total
         /\ total > 0 => n_batch(total) > 0
BY BuildTyped DEF n_batch

\* update_instr_cnt counts at least what it takes from the budget.
LEMMA UpdateCounts ==
  ASSUME build \in Builds, NEW total \in Nat, NEW remain \in Int, g_nr_guest_instr \in Nat,
         update_instr_cnt(total, remain)
  PROVE  /\ n_remain_total' \in Nat /\ n_remain' \in Int /\ g_nr_guest_instr' \in Nat
         /\ g_nr_guest_instr' - g_nr_guest_instr >= total - n_remain_total'
<1> DEFINE e == (n_batch(total) - remain) % UINT
<1>1. n_batch(total) \in Nat
  BY BatchTyped
<1>2. UINT \in Nat /\ UINT > 0
  BY BuildTyped
<1>3. e \in Nat
  BY <1>1, <1>2
<1>4. /\ n_remain_total' = total - Least(e, total)
      /\ g_nr_guest_instr' = g_nr_guest_instr + e
      /\ n_remain' = Least(n_batch(total), total - Least(e, total))
  BY DEF update_instr_cnt
<1> HIDE DEF e
<1> QED
  BY <1>1, <1>3, <1>4 DEF Least

\* The counters are numbers.
LEMMA CallTyped ==
  ASSUME TypeOK
  PROVE  /\ call.n \in Nat /\ call.executed \in Nat /\ call.trapped \in Nat /\ call.counted \in Nat
         /\ executed \in Nat /\ trapped \in Nat /\ traps \in Nat /\ calls \in Nat
         /\ n_remain_total \in Nat /\ g_nr_guest_instr \in Nat
BY DEF TypeOK

\* A change that counts at least what it takes keeps BudgetIsCounted.
LEMMA BudgetKept ==
  ASSUME TypeOK, BudgetIsCounted, n_remain_total' \in Nat, g_nr_guest_instr' \in Nat, call' = call,
         g_nr_guest_instr' - g_nr_guest_instr >= n_remain_total - n_remain_total'
  PROVE  BudgetIsCounted'
<1>1. (call.n)' = call.n /\ (call.counted)' = call.counted
  OBVIOUS
<1> QED
  BY <1>1, CallTyped DEF BudgetIsCounted

----------------------------------------------------------------------------
\* Before the first call of cpu_exec nothing is counted.
LEMMA InitInv == Init => IInv
<1> SUFFICES ASSUME Init PROVE IInv
  OBVIOUS
<1> USE DEF Init
<1>1. TypeOK
  BY CpuExecAssumption DEF TypeOK
<1> QED
  BY <1>1, BuildTyped DEF IInv, BudgetIsCounted, RunsItsBudget, PlainInv, PhaseInv, CallInv

\* The code after the loop: a call that ends has run its budget.
LEMMA FinishInv ==
  ASSUME IInv, phase = "loop", Finish(n_remain_total, n_remain),
         ~ PERF_OPT /\ nemu_state = "RUNNING" =>
           (executed - call.executed) + (trapped' - call.trapped) >= call.n,
         trapped' \in Nat, trapped' >= trapped, idx' \in 0 .. BlockSize,
         UNCHANGED <<build, n, executed, traps, call, calls>>
  PROVE  IInv'
<1> USE DEF IInv
<1>1. build \in Builds /\ n_remain_total \in Nat /\ n_remain \in Int /\ g_nr_guest_instr \in Nat
  BY DEF TypeOK
<1>2. /\ n_remain_total' \in Nat /\ n_remain' \in Int /\ g_nr_guest_instr' \in Nat
      /\ g_nr_guest_instr' - g_nr_guest_instr >= n_remain_total - n_remain_total'
  <2>1. CASE SHARE /\ nemu_state # "END"
    BY <1>1, <2>1 DEF Finish
  <2>2. CASE ~ (SHARE /\ nemu_state # "END")
    <3>1. update_instr_cnt(n_remain_total, n_remain)
      BY <2>2 DEF Finish
    <3> QED
      BY <1>1, <3>1, UpdateCounts
  <2> QED
    BY <2>1, <2>2
<1>3. nemu_state' \in {"QUIT", "END"} /\ phase' = "ui" /\ cause' = "none"
      /\ (nemu_state' = "QUIT" => nemu_state = "RUNNING")
  BY DEF Finish, PhaseInv
<1>4. TypeOK'
  BY <1>2, <1>3 DEF TypeOK
<1>5. BudgetIsCounted'
  BY <1>2, BudgetKept
<1>6. RunsItsBudget'
  BY <1>3 DEF RunsItsBudget, PERF_OPT
<1>7. PlainInv' /\ PhaseInv'
  BY <1>3 DEF PlainInv, PhaseInv
<1>8. CallInv'
  BY DEF CallInv, TypeOK, SHARE
<1> QED
  BY <1>4, <1>5, <1>6, <1>7, <1>8

\* A batch starts with all of it still to run.
LEMMA ExecuteInv ==
  ASSUME IInv, InLoop, Execute, trapped' \in Nat, trapped' >= trapped, idx' \in 0 .. BlockSize,
         UNCHANGED <<build, executed, traps, call, calls>>
  PROVE  IInv'
<1> USE DEF IInv
<1>1. /\ build \in Builds /\ n_remain_total \in Nat /\ n_remain_total > 0
      /\ n_batch(n_remain_total) \in Nat /\ n_batch(n_remain_total) > 0
  BY BatchTyped DEF TypeOK, InLoop
<1>2. /\ n_batch(n_remain_total)' = n_batch(n_remain_total)
      /\ n' = n_batch(n_remain_total)
      /\ phase' = "exec" /\ cause' = "none" /\ nemu_state' = "RUNNING"
      /\ UNCHANGED counts
  BY DEF Execute, n_batch, BATCH_SIZE, counts, InLoop
<1>3. TypeOK'
  BY <1>1, <1>2 DEF TypeOK, counts
<1>4. BudgetIsCounted' /\ RunsItsBudget'
  BY <1>2 DEF BudgetIsCounted, RunsItsBudget, counts
<1>5. BatchDone = 0 /\ BatchDone' = 0
  BY <1>1, <1>2 DEF BatchDone, InLoop
<1>6. PlainInv'
  <2>1. n' \in 1 .. n_batch(n_remain_total)'
    BY <1>1, <1>2
  <2>2. (g_nr_guest_instr - call.counted >= call.n - n_remain_total + BatchDone)'
    BY <1>2, <1>5 DEF BudgetIsCounted, counts, TypeOK
  <2>3. ~ PERF_OPT =>
          ((executed - call.executed) + (trapped - call.trapped) >= call.n - n_remain_total + BatchDone)'
    BY <1>2, <1>5 DEF PlainInv, InLoop, counts, TypeOK
  <2> QED
    BY <2>1, <2>2, <2>3 DEF PlainInv, PERF_OPT
<1>7. PhaseInv'
  BY <1>1, <1>2 DEF PhaseInv, counts
<1>8. CallInv'
  BY DEF CallInv, TypeOK, SHARE
<1> QED
  BY <1>3, <1>4, <1>6, <1>7, <1>8

\* What the threaded engine does inside execute: the budget changes by
\* update_instr_cnt or not at all, and the calls stay what they were.
LEMMA ThreadedInv ==
  ASSUME IInv, PERF_OPT, phase = "exec",
         \/ \E remain \in Int : update_instr_cnt(n_remain_total, remain) /\ phase' = "loop"
         \/ n_remain' \in Int /\ n_remain_total' = n_remain_total /\ g_nr_guest_instr' = g_nr_guest_instr
            /\ phase' = phase,
         n' \in Int, idx' \in 0 .. BlockSize, executed' \in Nat, executed' >= executed,
         traps' \in Nat, cause' \in {"none", "exception"},
         nemu_state' = nemu_state \/ (nemu_state' = "END" /\ phase' = "loop"),
         UNCHANGED <<build, call, calls, trapped>>
  PROVE  IInv'
<1> USE DEF IInv
<1>1. build \in Builds /\ n_remain_total \in Nat /\ g_nr_guest_instr \in Nat
  BY DEF TypeOK
<1>2. /\ n_remain_total' \in Nat /\ n_remain' \in Int /\ g_nr_guest_instr' \in Nat
      /\ g_nr_guest_instr' - g_nr_guest_instr >= n_remain_total - n_remain_total'
      /\ phase' = "loop" \/ (phase' = "exec" /\ n_remain_total' = n_remain_total)
  BY <1>1, UpdateCounts
<1>3. TypeOK'
  BY <1>2 DEF TypeOK
<1>4. BudgetIsCounted'
  BY <1>2, BudgetKept
<1>5. RunsItsBudget' /\ PlainInv'
  BY DEF RunsItsBudget, PlainInv, PERF_OPT
<1>6. PhaseInv'
  BY <1>2 DEF PhaseInv
<1>7. CallInv'
  BY DEF CallInv, TypeOK, SHARE
<1> QED
  BY <1>3, <1>4, <1>5, <1>6, <1>7

\* cpu_exec begins with its argument as the budget.
LEMMA CpuExecInv ==
  ASSUME IInv, NEW k \in Requests, CpuExec(k), build' = build
  PROVE  IInv'
<1> USE DEF IInv
<1>1. k \in Nat /\ (SHARE => k <= 1)
  BY BuildTyped DEF TypeOK
<1>2. /\ n_remain_total' = k /\ g_nr_guest_instr' = g_nr_guest_instr
      /\ executed' = executed /\ trapped' = trapped /\ phase' = "loop" /\ nemu_state' = "RUNNING"
      /\ call' = [n |-> k, executed |-> executed, trapped |-> trapped, counted |-> g_nr_guest_instr]
  BY DEF CpuExec
<1>3. TypeOK'
  BY <1>1 DEF CpuExec, TypeOK
<1>4. BatchDone' = 0
  BY <1>2 DEF BatchDone
<1>5. BudgetIsCounted' /\ CallInv' /\ PhaseInv' /\ RunsItsBudget'
  BY <1>1, <1>2, CallTyped DEF BudgetIsCounted, CallInv, PhaseInv, RunsItsBudget, SHARE
<1>6. PlainInv'
  BY <1>1, <1>2, <1>4, CallTyped DEF PlainInv
<1> QED
  BY <1>3, <1>5, <1>6

\* One instruction of the plain engine: the last of a batch charges all of it.
LEMMA PlainInstrInv ==
  ASSUME IInv, PlainInstr, build' = build
  PROVE  IInv'
<1> USE DEF IInv
<1> DEFINE b == n_batch(n_remain_total)
<1>1. /\ ~ PERF_OPT /\ phase = "exec" /\ nemu_state = "RUNNING" /\ n_remain_total > 0
      /\ executed' = executed + 1 /\ g_nr_guest_instr' = g_nr_guest_instr + 1 /\ n' = n - 1
      /\ UNCHANGED <<build, nemu_state, idx, cause, traps, call, calls, trapped>>
      /\ n_remain' \in Int
  BY DEF PlainInstr, Plain, PhaseInv, TypeOK
<1>2. b \in Nat /\ b <= n_remain_total
  BY BatchTyped DEF TypeOK
<1>3. /\ n \in 1 .. b
      /\ g_nr_guest_instr - call.counted >= call.n - n_remain_total + (b - n)
      /\ (executed - call.executed) + (trapped - call.trapped) >= call.n - n_remain_total + (b - n)
  BY <1>1 DEF PlainInv, BatchDone
<1>4. CASE n = 1
  <2>1. n_remain_total' = n_remain_total - b /\ phase' = "loop" /\ n_remain' = 0
    BY <1>4 DEF PlainInstr
  <2>2. n_remain_total' \in Nat /\ BatchDone' = 0
    BY <1>2, <2>1, CallTyped DEF BatchDone
  <2> HIDE DEF b
  <2>3. TypeOK'
    BY <1>1, <2>1, <2>2 DEF TypeOK
  <2>4. BudgetIsCounted'
    BY <1>1, <1>2, <1>3, <1>4, <2>1, CallTyped DEF BudgetIsCounted
  <2>5. PlainInv'
    <3>1. ((executed - call.executed) + (trapped - call.trapped) >= call.n - n_remain_total + BatchDone)'
      BY <1>1, <1>2, <1>3, <1>4, <2>1, <2>2, CallTyped
    <3> QED
      BY <3>1, <2>1 DEF PlainInv
  <2>6. PhaseInv' /\ RunsItsBudget' /\ CallInv'
    BY <1>1, <2>1, CallTyped DEF PhaseInv, RunsItsBudget, CallInv, SHARE
  <2> QED
    BY <2>3, <2>4, <2>5, <2>6
<1>5. CASE n # 1
  <2>1. n_remain_total' = n_remain_total /\ phase' = "exec" /\ n_remain' = n_remain
    BY <1>5 DEF PlainInstr
  <2>2. b' = b /\ BatchDone' = b - n'
    BY <1>1, <2>1 DEF BatchDone, n_batch, BATCH_SIZE
  <2> HIDE DEF b
  <2>3. TypeOK'
    BY <1>1, <1>3, <2>1 DEF TypeOK
  <2>4. BudgetIsCounted'
    BY <1>1, <2>1, BudgetKept, CallTyped
  <2>5. PlainInv'
    <3>1. n' \in 1 .. b'
      BY <1>1, <1>2, <1>3, <1>5, <2>2
    <3>2. (g_nr_guest_instr - call.counted >= call.n - n_remain_total + BatchDone)'
      BY <1>1, <1>2, <1>3, <2>1, <2>2, CallTyped
    <3>3. ((executed - call.executed) + (trapped - call.trapped) >= call.n - n_remain_total + BatchDone)'
      BY <1>1, <1>2, <1>3, <2>1, <2>2, CallTyped
    <3> QED
      BY <3>1, <3>2, <3>3 DEF PlainInv, b
  <2>6. PhaseInv' /\ RunsItsBudget' /\ CallInv'
    BY <1>1, <2>1, CallTyped DEF PhaseInv, RunsItsBudget, CallInv, SHARE
  <2> QED
    BY <2>3, <2>4, <2>5, <2>6
<1> QED
  BY <1>4, <1>5

\* A longjmp out of the plain engine gives up the batch: nothing of it has
\* been charged yet.
LEMMA PlainCaughtInv ==
  ASSUME IInv, ~ PERF_OPT, Caught, traps' \in Nat, cause' \in {"none", "exception"},
         nemu_state' = nemu_state \/ nemu_state' = "END", UNCHANGED <<build, idx>>
  PROVE  IInv'
<1> USE DEF IInv
<1> DEFINE b == n_batch(n_remain_total)
<1>1. /\ phase = "exec" /\ phase' = "loop" /\ nemu_state = "RUNNING"
      /\ UNCHANGED <<n_remain_total, g_nr_guest_instr, n, executed, call, calls, trapped>>
      /\ n_remain' \in Int
  BY DEF Caught, TypeOK, PhaseInv
<1>2. b \in Nat /\ n \in 1 .. b
      /\ (executed - call.executed) + (trapped - call.trapped) >= call.n - n_remain_total + (b - n)
  BY <1>1, BatchTyped DEF PlainInv, BatchDone, TypeOK
<1>3. TypeOK'
  BY <1>1 DEF TypeOK
<1>4. BatchDone' = 0
  BY <1>1 DEF BatchDone
<1> HIDE DEF b
<1>5. PlainInv'
  <2>1. ((executed - call.executed) + (trapped - call.trapped) >= call.n - n_remain_total + BatchDone)'
    BY <1>1, <1>2, <1>4, CallTyped
  <2> QED
    BY <1>1, <2>1 DEF PlainInv
<1>6. BudgetIsCounted' /\ PhaseInv' /\ RunsItsBudget' /\ CallInv'
  BY <1>1 DEF BudgetIsCounted, PhaseInv, RunsItsBudget, CallInv, SHARE
<1> QED
  BY <1>3, <1>5, <1>6

\* Every step of cpu_exec and execute, cut by a longjmp or not, keeps the counts.
LEMMA NextInv == IInv /\ [Next]_vars => IInv'
<1> SUFFICES ASSUME IInv, [Next]_vars PROVE IInv'
  OBVIOUS
<1>0. /\ build \in Builds /\ n \in Int /\ n_remain \in Int /\ idx \in 0 .. BlockSize
      /\ traps \in Nat /\ executed \in Nat /\ trapped \in Nat /\ cause \in {"none", "exception"}
      /\ BlockSize \in Nat /\ BlockSize > 0
  BY CpuExecAssumption DEF IInv, TypeOK
<1>1. CASE \E k \in Requests : CpuExec(k) /\ build' = build
  BY <1>1, CpuExecInv
<1>2. CASE Return /\ build' = build
  <2>1. ~ PERF_OPT /\ nemu_state = "RUNNING" =>
           (executed - call.executed) + (trapped' - call.trapped) >= call.n
    <3> SUFFICES ASSUME ~ PERF_OPT, nemu_state = "RUNNING"
                 PROVE  (executed - call.executed) + (trapped' - call.trapped) >= call.n
      OBVIOUS
    <3>1. phase = "loop" /\ n_remain_total = 0 /\ BatchDone = 0 /\ trapped' = trapped
      BY <1>2, CallTyped DEF Return, InLoop, BatchDone, ghosts, IInv
    <3>2. (executed - call.executed) + (trapped - call.trapped) >= call.n - 0 + 0
      BY <3>1 DEF IInv, PlainInv
    <3> QED
      BY <3>1, <3>2, CallTyped DEF IInv
  <2>2. /\ phase = "loop" /\ Finish(n_remain_total, n_remain)
        /\ UNCHANGED <<build, n, idx, executed, traps, call, calls, trapped>>
    BY <1>2 DEF Return, ghosts
  <2> QED
    BY <1>0, <2>1, <2>2, FinishInv
<1>3. CASE HandleException /\ build' = build
  <2>1. /\ InLoop /\ trapped' = trapped + 1 /\ idx' \in 0 .. BlockSize
        /\ UNCHANGED <<build, executed, traps, call, calls>>
    BY <1>0, <1>3 DEF HandleException
  <2>2. CASE SHARE
    <3>1. (executed - call.executed) + (trapped' - call.trapped) >= call.n
      BY <2>1, <2>2, CallTyped DEF IInv, CallInv
    <3>2. phase = "loop" /\ Finish(n_remain_total, n_remain) /\ n' = n
      BY <1>3, <2>2 DEF HandleException, InLoop
    <3> QED
      BY <1>0, <2>1, <3>1, <3>2, FinishInv
  <2>3. CASE ~ SHARE
    BY <1>0, <1>3, <2>1, <2>3, ExecuteInv DEF HandleException
  <2> QED
    BY <2>2, <2>3
<1>4. CASE (HandleInterrupt \/ NextBatch) /\ build' = build
  <2>1. /\ InLoop /\ Execute /\ idx' \in 0 .. BlockSize
        /\ UNCHANGED <<build, executed, traps, call, calls, trapped>>
    BY <1>0, <1>4 DEF HandleInterrupt, NextBatch, ghosts
  <2> QED
    BY <1>0, <2>1, ExecuteInv
<1>5. CASE PlainInstr /\ build' = build
  BY <1>5, PlainInstrInv
<1>6. CASE (ThreadedInstr \/ BlockEnd \/ PrivJr \/ \E flush \in BOOLEAN : PrivNext(flush)) /\ build' = build
  <2>1. /\ PERF_OPT /\ phase = "exec" /\ executed' = executed + 1
        /\ UNCHANGED <<build, nemu_state, cause, traps, call, calls, trapped>>
    BY <1>6 DEF ThreadedInstr, BlockEnd, PrivJr, PrivNext, Completes, Threaded
  <2>2. /\ \/ \E remain \in Int : update_instr_cnt(n_remain_total, remain) /\ phase' = "loop"
           \/ n_remain' \in Int /\ n_remain_total' = n_remain_total /\ g_nr_guest_instr' = g_nr_guest_instr
              /\ phase' = phase
        /\ n' \in Int /\ idx' \in 0 .. BlockSize
    <3>1. CASE ThreadedInstr
      BY <1>0, <3>1 DEF ThreadedInstr, counts
    <3>2. CASE BlockEnd
      BY <1>0, <3>2 DEF BlockEnd, Leave
    <3>3. CASE PrivJr
      BY <1>0, <3>3 DEF PrivJr, Leave
    <3>4. CASE \E flush \in BOOLEAN : PrivNext(flush)
      BY <1>0, <3>4 DEF PrivNext, Leave
    <3> QED
      BY <1>6, <3>1, <3>2, <3>3, <3>4
  <2>3. /\ executed' \in Nat /\ executed' >= executed /\ traps' \in Nat
        /\ nemu_state' = nemu_state /\ cause' \in {"none", "exception"}
        /\ UNCHANGED <<build, call, calls, trapped>>
    BY <1>0, <2>1
  <2> QED
    BY <2>1, <2>2, <2>3, ThreadedInv
<1>7. CASE (Exception \/ Again \/ Halt) /\ build' = build
  <2>1. /\ Caught /\ traps' \in Nat /\ cause' \in {"none", "exception"} /\ idx' \in 0 .. BlockSize
        /\ nemu_state' = nemu_state \/ nemu_state' = "END"
        /\ ~ PERF_OPT => idx' = idx
    BY <1>0, <1>7 DEF Exception, Again, Halt
  <2>2. CASE PERF_OPT
    <3>1. /\ \E remain \in Int : update_instr_cnt(n_remain_total, remain)
          /\ phase = "exec" /\ phase' = "loop" /\ UNCHANGED <<n, executed, call, calls, trapped>>
      BY <1>0, <2>1, <2>2 DEF Caught
    <3> QED
      BY <1>0, <1>7, <2>1, <2>2, <3>1, ThreadedInv
  <2>3. CASE ~ PERF_OPT
    BY <1>0, <1>7, <2>1, <2>3, PlainCaughtInv
  <2> QED
    BY <2>2, <2>3
<1>8. CASE UNCHANGED vars
  BY <1>8 DEF vars, counts, ghosts, IInv, TypeOK, BudgetIsCounted, RunsItsBudget, PlainInv, PhaseInv,
     CallInv, BatchDone, n_batch, PERF_OPT, SHARE, BATCH_SIZE
<1> QED
  BY <1>1, <1>2, <1>3, <1>4, <1>5, <1>6, <1>7, <1>8 DEF Next, Step, Stopped, OutOfBudget

(* For every batch size, block size, and sequence of calls, exceptions and *)
(* full caches: no counter of cpu_exec wraps and n_remain_total never      *)
(* shrinks without g_nr_guest_instr growing by as much.                    *)
THEOREM BudgetCounted == Spec => [](TypeOK /\ BudgetIsCounted)
<1>1. IInv => TypeOK /\ BudgetIsCounted
  BY DEF IInv
<1> QED
  BY <1>1, InitInv, NextInv, PTL DEF Spec

(* In the plain engine and in a reference that is asked for one            *)
(* instruction at a time, a call of cpu_exec that ends by itself has       *)
(* completed, or trapped on, as many instructions as it was asked for.     *)
THEOREM BudgetRun == Spec => []RunsItsBudget
<1>1. IInv => RunsItsBudget
  BY DEF IInv
<1> QED
  BY <1>1, InitInv, NextInv, PTL DEF Spec
=============================================================================
