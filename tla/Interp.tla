------------------------------- MODULE Interp -------------------------------
(***************************************************************************)
(* The plain execution engine of src/cpu/cpu-exec.c (the one used when     *)
(* CONFIG_PERF_OPT is off) seen as a control-flow specification: one       *)
(* instruction at a time, fetched at cpu.pc.  It is what the threaded-code *)
(* engine of src/cpu/tcache.c has to implement.                            *)
(*                                                                         *)
(* What an instruction computes is abstracted to its control-flow outcome, *)
(* recorded in out: a branch is taken or not, an indirect jump goes to one *)
(* of its targets.  The guest program is a function from program counters  *)
(* to instructions; the unit of the program counter is one instruction, so *)
(* snpc is pc + 1.                                                         *)
(***************************************************************************)
EXTENDS Naturals

CONSTANTS
  Prog,      \* pc -> [type, kind, jnpc, targets, ifault, xfault]
  Reset,     \* reset vector
  Handler    \* trap vector

VARIABLES
  pc,   \* cpu.pc
  out,  \* outcome of the last instruction: <<what, target>>
  epc   \* return address saved by the last trap (the reset vector before any)

vars == <<pc, out, epc>>

PCs == DOMAIN Prog
snpc(p) == p + 1

\* type: the instruction's role in a basic block (INSTR_TYPE_*), as set by
\* isa_fetch_decode.  jnpc: target of a jump or branch; targets: where an
\* indirect jump may go.  ifault, xfault: may its fetch, its execution fault.
\* kind: what its helper does besides computing:
\*   "alu"    nothing
\*   "mem"    a load or store through the host TLB
\*   "unsaved" may raise before save_globals: an access that is not translated,
\*            an FP instruction with FS off, sfence.vma of one page, wfi
\*   "csr"    a CSR access
\*   "fence"  fence.i or sfence.vma of the whole address space
\*   "jump"   jal, branches, jalr, ret
\*   "xret"   mret, sret
\*   "ecall"  ecall
Types == {"N", "J", "B", "I"}
Kinds == {"alu", "mem", "unsaved", "csr", "fence", "jump", "xret", "ecall"}

\* Successors of the instruction at p: pairs of an outcome and the next pc.
Successors(p) ==
  CASE Prog[p].type = "N" -> {<<<<"seq", 0>>, snpc(p)>>}
    [] Prog[p].type = "J" -> {<<<<"jump", 0>>, Prog[p].jnpc>>}
    [] Prog[p].type = "B" -> {<<<<"taken", 0>>, Prog[p].jnpc>>, <<<<"ntaken", 0>>, snpc(p)>>}
    [] Prog[p].type = "I" -> {<<<<"jr", target>>, target>> : target \in Prog[p].targets}

Init == pc = Reset /\ out = <<"seq", 0>> /\ epc = Reset

\* One instruction completes.  An ecall saves its own address (rtl_trap).
Execute ==
  \E next \in Successors(pc) :
    /\ out' = next[1]
    /\ pc' = next[2]
    /\ epc' = IF Prog[pc].kind = "ecall" THEN pc ELSE epc

\* cpu_exec takes an exception of the current instruction, or an interrupt
\* before it: the saved address is that of the instruction not completed.
Trap ==
  /\ epc' = pc
  /\ pc' = Handler
  /\ out' = <<"trap", 0>>

Next == Execute \/ Trap

Spec == Init /\ [][Next]_vars
=============================================================================
