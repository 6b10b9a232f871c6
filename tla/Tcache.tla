------------------------------- MODULE Tcache -------------------------------
(***************************************************************************)
(* The threaded-code engine (CONFIG_PERF_OPT): src/cpu/tcache.c and the    *)
(* execute loop of src/cpu/cpu-exec.c.                                     *)
(*                                                                         *)
(* Guest instructions are decoded once into Decode entries of tcache_pool. *)
(* The instructions of a basic block are consecutive entries; the entry    *)
(* that ends a block points to the entries of its successors.  A successor *)
(* that is not decoded yet is stood for by a record: an entry of           *)
(* tcache_bb_pool that holds only its pc and the direction to patch once   *)
(* the block is decoded.  Records come from a free list; in a record the   *)
(* fields tnext and ntnext are the free-list link and bb_src (they are a   *)
(* union in include/cpu/decode.h).                                         *)
(*                                                                         *)
(* The batch counter n is abstracted: at the end of a basic block the      *)
(* engine may or may not leave the loop.                                   *)
(***************************************************************************)
EXTENDS Integers, Sequences, FiniteSets

CONSTANTS
  Prog, Reset, Handler,  \* the guest program, as in Interp
  TCACHE_SIZE,           \* CONFIG_TCACHE_SIZE
  BB_LIST_SIZE,          \* CONFIG_BB_LIST_SIZE
  BB_POOL_SIZE,          \* CONFIG_BB_POOL_SIZE
  Interrupts             \* bound: the pcs before which an interrupt may be taken

TCACHE_BB_SIZE == TCACHE_SIZE \div 4 + 2

VARIABLES
  d,            \* the Decode entries: tcache_pool, tcache_bb_pool and ex
  tc_idx,       \* entries of tcache_pool in use
  freelist,     \* tcache_bb_freelist
  bb_list,      \* bucket -> sequence of [pc, s], the head of the chain first
  bb_idx,       \* nodes of bb_pool in use
  tcache_state, \* "BUILDING" or "RUNNING"
  bb_now, bb_now_record,
  s,            \* the entry execute is at
  prev_s,       \* save_globals: the entry cpu_exec believes it is at
  phase,        \* "exec": inside execute; "loop": at the loop of cpu_exec;
                \* "aborted": assert(s != NULL) in tcache_bb_new failed
  cause,        \* value returned by setjmp: "none", "exception", "again"
  out, epc      \* as in Interp

cache == <<d, tc_idx, freelist, bb_list, bb_idx>>
build == <<tcache_state, bb_now, bb_now_record>>
vars == <<cache, build, s, prev_s, phase, cause, out, epc>>

\* The abstract engine; its pc is the pc of the entry being executed.
Plain == INSTANCE Interp WITH pc <- d[s].pc

PCs == Plain!PCs
snpc(pc) == Plain!snpc(pc)
Types == Plain!Types

ASSUME ProgAssumption ==
  /\ PCs \subseteq Nat /\ Reset \in PCs /\ Handler \in PCs
  /\ \A pc \in PCs :
       /\ Prog[pc].type \in Types /\ Prog[pc].kind \in Plain!Kinds
       /\ Prog[pc].ifault \in BOOLEAN /\ Prog[pc].xfault \in BOOLEAN
       /\ Prog[pc].type \in {"N", "B"} => snpc(pc) \in PCs
       /\ Prog[pc].type \in {"J", "B"} => Prog[pc].jnpc \in PCs
       /\ Prog[pc].type = "I" => Prog[pc].targets # {} /\ Prog[pc].targets \subseteq PCs
       /\ Prog[pc].kind = "ecall" => Prog[pc].targets = {Handler}
       /\ Prog[pc].xfault => Prog[pc].kind \in {"mem", "unsaved", "csr", "fence", "xret"}

ASSUME SizesAssumption ==
  /\ TCACHE_SIZE \in Nat \ {0}
  /\ BB_LIST_SIZE \in Nat \ {0}
  /\ BB_POOL_SIZE \in Nat
  /\ Interrupts \subseteq PCs

NULL == -1
Pool == 0 .. TCACHE_SIZE - 1
Records == TCACHE_SIZE .. TCACHE_SIZE + TCACHE_BB_SIZE - 1
EX == TCACHE_SIZE + TCACHE_BB_SIZE
Ids == Pool \cup Records \cup {EX}
Buckets == 0 .. BB_LIST_SIZE - 1

\* type: INSTR_TYPE_* of a decoded entry, direction of a record.
\* decoded: EHelper is the instruction's helper, not nemu_decode.
\* current (ghost): decoded after the last instruction fence.
Entries == [tnext : Ids \cup {NULL}, ntnext : Ids \cup {NULL}, pc : PCs,
            type : {"none", "TAKEN", "NTAKEN"} \cup Types,
            decoded : BOOLEAN, current : BOOLEAN]

TypeOK ==
  /\ d \in [Ids -> Entries]
  /\ tc_idx \in 0 .. TCACHE_SIZE
  /\ freelist \in Records \cup {NULL}
  /\ bb_list \in [Buckets -> Seq([pc : PCs, s : Pool])]
  /\ bb_idx \in 0 .. BB_POOL_SIZE
  /\ tcache_state \in {"BUILDING", "RUNNING"}
  /\ bb_now \in Pool \cup {NULL}
  /\ bb_now_record \in Records \cup {NULL}
  /\ s \in Pool \cup Records
  /\ prev_s \in Pool \cup Records
  /\ phase \in {"exec", "loop", "aborted"}
  /\ cause \in {"none", "exception", "again"}
  /\ epc \in PCs

----------------------------------------------------------------------------
(* The cache as a value: the C functions below are called in sequence      *)
(* inside one step, so each maps a cache to a cache.  ok is FALSE once the *)
(* assertion of tcache_bb_new has failed.                                  *)
Cache == [d |-> d, tc_idx |-> tc_idx, freelist |-> freelist,
          bb_list |-> bb_list, bb_idx |-> bb_idx, ok |-> TRUE]

tcache_entry_init(pc) ==
  [tnext |-> NULL, ntnext |-> NULL, pc |-> pc, type |-> "none", decoded |-> FALSE, current |-> FALSE]

PoolFull(c) == c.tc_idx = TCACHE_SIZE

tcache_new(c, pc) ==
  [c EXCEPT !.d[c.tc_idx] = tcache_entry_init(pc), !.tc_idx = @ + 1]

\* The new record is the old head of the free list.
tcache_bb_new(c, pc) ==
  IF c.freelist = NULL
  THEN [c EXCEPT !.ok = FALSE]
  ELSE [c EXCEPT !.freelist = c.d[c.freelist].tnext, !.d[c.freelist] = tcache_entry_init(pc)]

tcache_bb_free(c, r) ==
  [c EXCEPT !.d[r].tnext = c.freelist, !.freelist = r]

bb_hash(pc) == pc % BB_LIST_SIZE

\* Positions of pc in its chain; bb_find returns the first one.
Hits(c, pc) ==
  LET chain == c.bb_list[bb_hash(pc)]
  IN  {i \in DOMAIN chain : chain[i].pc = pc}
Found(c, pc) == Hits(c, pc) # {}

\* bb_find swaps the node it finds with the head of the chain.
bb_find(c, pc) ==
  LET i == CHOOSE j \in Hits(c, pc) : \A k \in Hits(c, pc) : j <= k
      chain == c.bb_list[bb_hash(pc)]
  IN  IF Found(c, pc)
      THEN [c EXCEPT !.bb_list[bb_hash(pc)] = [@ EXCEPT ![1] = chain[i], ![i] = chain[1]]]
      ELSE c
\* After bb_find: the block of pc is the head of its chain.
Block(c, pc) == c.bb_list[bb_hash(pc)][1].s

\* The head of a chain is stored in bb_list itself, the rest in bb_pool.
BBFull(c, pc) == c.bb_list[bb_hash(pc)] # <<>> /\ c.bb_idx = BB_POOL_SIZE

bb_insert(c, pc, fill) ==
  [c EXCEPT !.bb_list[bb_hash(pc)] = <<[pc |-> pc, s |-> fill]>> \o @,
            !.bb_idx = IF c.bb_list[bb_hash(pc)] = <<>> THEN @ ELSE @ + 1]

SetNext(c, this, is_taken, to) ==
  IF is_taken THEN [c EXCEPT !.d[this].tnext = to] ELSE [c EXCEPT !.d[this].ntnext = to]

\* Links this to the block of jpc, or to a new record that stands for it.
tcache_bb_fetch(c, this, is_taken, jpc) ==
  LET found == bb_find(c, jpc)
      r == c.freelist
      new == tcache_bb_new(c, jpc)
      typed == [new EXCEPT !.d[r].type = IF is_taken THEN "TAKEN" ELSE "NTAKEN"]
  IN  IF Found(c, jpc) THEN SetNext(found, this, is_taken, Block(found, jpc))
      ELSE IF ~ new.ok THEN new
      ELSE [SetNext(typed, this, is_taken, r) EXCEPT !.d[r].ntnext = this]

tcache_patch_and_free(c, r, bb) ==
  LET src == c.d[r].ntnext
      patched == CASE c.d[r].type = "TAKEN"  -> [c EXCEPT !.d[src].tnext = bb]
                   [] c.d[r].type = "NTAKEN" -> [c EXCEPT !.d[src].ntnext = bb]
                   [] OTHER -> c
  IN  tcache_bb_free(patched, r)

\* mutant: the block list survives
tcache_flush_keeps_blocks(c) ==
  [c EXCEPT !.tc_idx = 0, !.bb_idx = 0,
            !.d = [i \in Ids |-> IF i \in Records
                                 THEN [c.d[i] EXCEPT !.tnext = IF i + 1 \in Records THEN i + 1 ELSE NULL]
                                 ELSE c.d[i]],
            !.freelist = TCACHE_SIZE]

\* Pool, block list and free list are reset; the entries keep their contents.
tcache_flush(c) ==
  [c EXCEPT !.tc_idx = 0, !.bb_idx = 0, !.bb_list = [b \in Buckets |-> <<>>],
            !.d = [i \in Ids |-> IF i \in Records
                                 THEN [c.d[i] EXCEPT !.tnext = IF i + 1 \in Records THEN i + 1 ELSE NULL]
                                 ELSE c.d[i]],
            !.freelist = TCACHE_SIZE]

\* tcache_handle_exception: the entry to continue at is ex.tnext.
tcache_handle_exception(c, jpc) == tcache_bb_fetch(c, EX, TRUE, jpc)
tcache_handle_flush(c, pc) == tcache_handle_exception(tcache_flush(c), pc)

\* jr_fetch and tcache_jr_fetch: a two-entry cache of targets in the jump.
JrHit(c, this, target) ==
  c.d[c.d[this].tnext].pc = target \/ c.d[c.d[this].ntnext].pc = target
jr_fetch(c, this, target) ==
  IF JrHit(c, this, target) THEN c
  ELSE tcache_bb_fetch([c EXCEPT !.d[this].ntnext = c.d[this].tnext], this, TRUE, target)

\* mutant: the older target is ignored
JrEntryTaken(c, this, target) == c.d[this].tnext

JrEntry(c, this, target) ==
  IF c.d[c.d[this].tnext].pc = target THEN c.d[this].tnext ELSE c.d[this].ntnext

Installs(c) ==
  /\ d' = c.d /\ tc_idx' = c.tc_idx /\ freelist' = c.freelist
  /\ bb_list' = c.bb_list /\ bb_idx' = c.bb_idx

\* The C code computed cache c; continue with step A, unless the assertion
\* failed on the way, which ends the program.
OrAbort(c, A) ==
  IF c.ok
  THEN Installs(c) /\ A
  ELSE phase' = "aborted" /\ UNCHANGED <<cache, build, s, prev_s, cause, out, epc>>

\* Execution goes on at entry e: in the loop of execute, or (stop) out of it
\* to the loop of cpu_exec, after prev_s = s.
GoTo(e, stop) ==
  /\ s' = e
  /\ prev_s' = IF stop THEN e ELSE prev_s
  /\ phase' = IF stop THEN "loop" ELSE "exec"
  /\ cause' = "none"

\* longjmp_exception: the entry saved last is what cpu_exec will see.
Raise ==
  /\ phase' = "loop"
  /\ cause' = "exception"
  /\ UNCHANGED <<s, out, epc>>

----------------------------------------------------------------------------
(* tcache_decode(s), called when s has not been decoded.                   *)

AtUndecoded == phase = "exec" /\ ~ d[s].decoded
StartsBlock == tcache_state = "RUNNING"

\* The block of this record has been decoded since: patch and go there.
DecodeAgain ==
  LET pc == d[s].pc
      found == bb_find(Cache, pc)
      bb == Block(found, pc)
  IN  /\ AtUndecoded /\ StartsBlock /\ Found(Cache, pc)
      /\ Installs(tcache_patch_and_free(found, s, bb))
      /\ GoTo(bb, FALSE)
      /\ UNCHANGED <<build, out, epc>>

\* Otherwise the instruction is decoded into cur: a new entry at the start of
\* a block, the entry appended by the previous instruction inside one.
MustDecode == AtUndecoded /\ (StartsBlock => ~ Found(Cache, d[s].pc))
cur == IF StartsBlock THEN tc_idx ELSE s
NoRoom == StartsBlock /\ PoolFull(Cache)
Opened == IF StartsBlock THEN tcache_new(Cache, d[s].pc) ELSE Cache
Record == IF StartsBlock THEN s ELSE bb_now_record
First == IF StartsBlock THEN tc_idx ELSE bb_now

\* fetch_decode raises an exception: the block stays open and unreachable.
FetchFault ==
  /\ MustDecode /\ ~ NoRoom /\ Prog[d[s].pc].ifault
  /\ Installs(Opened)
  /\ tcache_state' = "BUILDING" /\ bb_now' = First /\ bb_now_record' = Record
  /\ prev_s' = cur
  /\ phase' = "loop" /\ cause' = "exception"
  /\ s' = cur
  /\ UNCHANGED <<out, epc>>

Instr == Prog[d[s].pc]
Decoded == [Opened EXCEPT !.d[cur].type = Instr.type, !.d[cur].decoded = TRUE, !.d[cur].current = TRUE]

\* A normal instruction: an entry for the next one is appended.
DecodeNormal ==
  /\ MustDecode /\ ~ NoRoom /\ Instr.type = "N" /\ ~ PoolFull(Decoded)
  /\ Installs(tcache_new(Decoded, snpc(d[s].pc)))
  /\ tcache_state' = "BUILDING" /\ bb_now' = First /\ bb_now_record' = Record
  /\ s' = cur /\ prev_s' = cur
  /\ UNCHANGED <<phase, cause, out, epc>>

\* The end of a block: publish it, patch the entry that led here, free the
\* record and link the successors.
Closed ==
  LET bb_pc == Decoded.d[First].pc
  IN  tcache_patch_and_free(bb_insert(Decoded, bb_pc, First), Record, First)

Linked ==
  LET taken == tcache_bb_fetch(Closed, cur, TRUE, Instr.jnpc)
  IN  CASE Instr.type = "J" -> taken
        [] Instr.type = "B" -> IF taken.ok THEN tcache_bb_fetch(taken, cur, FALSE, snpc(d[s].pc)) ELSE taken
        [] Instr.type = "I" -> [Closed EXCEPT !.d[cur].tnext = cur, !.d[cur].ntnext = cur]

ListFull == BBFull(Decoded, Decoded.d[First].pc)

DecodeBlockEnd ==
  /\ MustDecode /\ ~ NoRoom /\ Instr.type # "N" /\ ~ ListFull
  /\ OrAbort(Linked, /\ tcache_state' = "RUNNING" /\ bb_now' = NULL /\ bb_now_record' = NULL
                     /\ s' = cur /\ prev_s' = cur
                     /\ UNCHANGED <<phase, cause, out, epc>>)

\* full: the pool or the block list is exhausted.  Everything is flushed and
\* the instruction is decoded again from a record without a source.
Full == NoRoom \/ (Instr.type = "N" /\ PoolFull(Decoded)) \/ (Instr.type # "N" /\ ListFull)

DecodeFull ==
  /\ MustDecode /\ Full
  /\ Installs(tcache_bb_new(tcache_flush(IF NoRoom THEN Cache ELSE Decoded), d[s].pc))
  /\ tcache_state' = "RUNNING" /\ bb_now' = NULL /\ bb_now_record' = NULL
  /\ s' = TCACHE_SIZE /\ prev_s' = TCACHE_SIZE
  /\ phase' = "loop" /\ cause' = "again"
  /\ UNCHANGED <<out, epc>>

----------------------------------------------------------------------------
(* The helpers of decoded instructions.                                    *)

At(type) == phase = "exec" /\ d[s].decoded /\ d[s].type = type
Kind == Prog[d[s].pc].kind

\* save_globals(s) on the way: always for a CSR access, in the slow path of
\* the host TLB for a translated access, else never.
Saves(saved) ==
  /\ Kind = "csr" => saved
  /\ Kind \notin {"csr", "mem"} => ~ saved

ExecNormal(saved) ==
  /\ At("N") /\ Kind # "fence" /\ Saves(saved)
  /\ s' = s + 1
  /\ prev_s' = IF saved THEN s ELSE prev_s
  /\ out' = <<"seq", 0>>
  /\ UNCHANGED <<cache, build, phase, cause, epc>>

\* A translated access faults in the slow path and a CSR access after its
\* save_globals; an untranslated access, an FP instruction with FS off and a
\* privileged instruction that is not allowed raise without having saved s.
ExecFault ==
  /\ phase = "exec" /\ d[s].decoded /\ Prog[d[s].pc].xfault
  /\ prev_s' = IF Kind \in {"mem", "csr"} THEN s ELSE prev_s
  /\ Raise
  /\ UNCHANGED <<cache, build>>

\* rtl_priv_next with SYS_STATE_UPDATE: back to cpu_exec at the next entry.
PrivUpdate ==
  /\ At("N") /\ Kind = "csr"
  /\ GoTo(s + 1, TRUE)
  /\ out' = <<"seq", 0>>
  /\ UNCHANGED <<cache, build, epc>>

\* rtl_priv_next with SYS_STATE_FLUSH_TCACHE (satp, fence.i, sfence.vma): the
\* guest asked that earlier decodings are not used any more.
Fenced == [Cache EXCEPT !.d = [i \in Ids |-> [d[i] EXCEPT !.current = FALSE]]]

PrivFlush ==
  LET flushed == tcache_handle_flush(Fenced, snpc(d[s].pc))
  IN  /\ At("N") /\ Kind \in {"csr", "fence"}
      /\ Installs(flushed)
      /\ GoTo(flushed.d[EX].tnext, TRUE)
      /\ tcache_state' = "RUNNING"
      /\ out' = <<"seq", 0>>
      /\ UNCHANGED <<bb_now, bb_now_record, epc>>

ExecJump(stop) ==
  /\ At("J")
  /\ GoTo(d[s].tnext, stop)
  /\ out' = <<"jump", 0>>
  /\ UNCHANGED <<cache, build, epc>>

ExecBranch(is_jmp, stop) ==
  /\ At("B")
  /\ GoTo(IF is_jmp THEN d[s].tnext ELSE d[s].ntnext, stop)
  /\ out' = <<IF is_jmp THEN "taken" ELSE "ntaken", 0>>
  /\ UNCHANGED <<cache, build, epc>>

\* rtl_jr and, for ecall, mret and sret, rtl_priv_jr, which always leaves the
\* loop (its flush branch needs a flag that these instructions never set).
ExecIndirect(target, stop) ==
  LET c == jr_fetch(Cache, s, target)
  IN  /\ At("I") /\ target \in Prog[d[s].pc].targets
      /\ Kind \in {"xret", "ecall"} => stop
      /\ OrAbort(c, /\ GoTo(JrEntry(c, s, target), stop)
                    /\ out' = <<"jr", target>>
                    /\ epc' = (IF Kind = "ecall" THEN d[s].pc ELSE epc)
                    /\ UNCHANGED build)

----------------------------------------------------------------------------
(* The loop of cpu_exec.                                                   *)

\* raise_intr, with the pc of prev_s, and tcache_handle_exception.
TakeTrap ==
  LET c == tcache_handle_exception(Cache, Handler)
  IN  OrAbort(c, /\ epc' = d[prev_s].pc
                 /\ s' = c.d[EX].tnext /\ prev_s' = c.d[EX].tnext
                 /\ tcache_state' = "RUNNING"
                 /\ phase' = "exec" /\ cause' = "none"
                 /\ out' = <<"trap", 0>>
                 /\ UNCHANGED <<bb_now, bb_now_record>>)

HandleException == phase = "loop" /\ cause = "exception" /\ TakeTrap

HandleInterrupt == phase = "loop" /\ cause # "exception" /\ d[prev_s].pc \in Interrupts /\ TakeTrap

\* execute starts again at prev_s.  A pending exception is dropped when the
\* instruction budget of this cpu_exec is used up: the next call of cpu_exec
\* executes the instruction again.
Resume ==
  /\ phase = "loop"
  /\ s' = prev_s
  /\ phase' = "exec" /\ cause' = "none"
  /\ UNCHANGED <<cache, build, prev_s, out, epc>>

Aborted == phase = "aborted" /\ UNCHANGED vars

\* tcache_init, at the first call of execute.
Init ==
  LET blank == [d |-> [i \in Ids |-> tcache_entry_init(Reset)], tc_idx |-> 0, freelist |-> NULL,
                bb_list |-> [b \in Buckets |-> <<>>], bb_idx |-> 0, ok |-> TRUE]
      c == tcache_bb_new(tcache_flush(blank), Reset)
  IN  /\ d = c.d /\ tc_idx = c.tc_idx /\ freelist = c.freelist
      /\ bb_list = c.bb_list /\ bb_idx = c.bb_idx
      /\ tcache_state = "RUNNING" /\ bb_now = NULL /\ bb_now_record = NULL
      /\ s = TCACHE_SIZE /\ prev_s = TCACHE_SIZE
      /\ phase = "exec" /\ cause = "none"
      /\ out = <<"seq", 0>> /\ epc = Reset

Next ==
  \/ DecodeAgain \/ FetchFault \/ DecodeNormal \/ DecodeBlockEnd \/ DecodeFull
  \/ \E saved \in BOOLEAN : ExecNormal(saved)
  \/ ExecFault \/ PrivUpdate \/ PrivFlush
  \/ \E stop \in BOOLEAN : ExecJump(stop)
  \/ \E is_jmp, stop \in BOOLEAN : ExecBranch(is_jmp, stop)
  \/ \E target \in PCs, stop \in BOOLEAN : ExecIndirect(target, stop)
  \/ HandleException \/ HandleInterrupt \/ Resume
  \/ Aborted

Spec == Init /\ [][Next]_vars
----------------------------------------------------------------------------
(* The threaded engine executes the instructions the plain engine would:   *)
(* the links, the records and the patching never lead to another           *)
(* instruction, and a trap saves the address of the instruction that was   *)
(* not completed.                                                          *)
(*                                                                         *)
(* It does not hold of every program.  An instruction that raises without  *)
(* save_globals (xfault with kind "unsaved", "fence" or "xret") has the pc *)
(* saved last reported as its own.  And an indirect jump with a third      *)
(* target whose block faults before it is complete can get a record freed  *)
(* twice (LinksAreTargets).                                                *)
ImplementsPlain == Plain!Spec

(* After fence.i, a satp write or a global sfence.vma has executed, no     *)
(* instruction decoded before it is executed.                              *)
NoStaleCode == phase = "exec" /\ d[s].decoded => d[s].current

(* bb_find is a partial function from the pcs of complete blocks to their  *)
(* first entries: chains hold no pc twice, in the right bucket, and point  *)
(* to decoded entries of the pool with that pc.                            *)
BlockIndexSound ==
  /\ \A b \in Buckets :
       /\ \A i \in DOMAIN bb_list[b] :
            LET node == bb_list[b][i]
            IN  bb_hash(node.pc) = b /\ node.s < tc_idx /\ d[node.s].pc = node.pc /\ d[node.s].decoded
       /\ \A i, j \in DOMAIN bb_list[b] : bb_list[b][i].pc = bb_list[b][j].pc => i = j
  /\ bb_idx = Cardinality(UNION {{<<b, i>> : i \in 2 .. Len(bb_list[b])} : b \in Buckets})

(* tcache_decode treats its argument as a record when a block starts and   *)
(* as the last pool entry inside one (assert(next == s + 1)); interrupts,  *)
(* exceptions and flushes in the middle of a block never confuse the two.  *)
DecodesRecordOrTail ==
  AtUndecoded => IF StartsBlock THEN s \in Records ELSE s = tc_idx - 1 /\ bb_now \in 0 .. s

(* The free list: after at most TCACHE_BB_SIZE links it ends.              *)
FreeWalk ==
  LET w[k \in 0 .. TCACHE_BB_SIZE] ==
        IF k = 0 THEN freelist
        ELSE IF w[k - 1] \in Records THEN d[w[k - 1]].tnext ELSE NULL
  IN  w
FreeRecords == {FreeWalk[k] : k \in 0 .. TCACHE_BB_SIZE} \ {NULL}

BlockEnds == {i \in 0 .. tc_idx - 1 : d[i].decoded /\ d[i].type # "N"}
PendingRecords ==
  Records \cap ({d[i].tnext : i \in BlockEnds} \cup {d[i].ntnext : i \in {j \in BlockEnds : d[j].type = "B"}})

(* A record is never on the free list twice, and never both free and the   *)
(* pending successor of a block or the place execution continues at.  Only *)
(* the older target of an indirect jump, whose pc is compared before it is *)
(* used, may be a record freed since: a trap came before it was decoded.   *)
FreelistSound ==
  phase # "aborted" =>
    /\ FreeWalk[TCACHE_BB_SIZE] = NULL
    /\ FreeRecords \cap PendingRecords = {}
    /\ (IF phase = "exec" THEN s ELSE prev_s) \notin FreeRecords

(* include/cpu/decode.h: tnext is the "next pointer for taken branch and   *)
(* jump", ntnext the "next pointer for non-taken branch".                  *)
LinksAreTargets ==
  \A i \in BlockEnds :
    /\ d[i].type \in {"J", "B"} => d[d[i].tnext].pc = Prog[d[i].pc].jnpc
    /\ d[i].type = "B" => d[d[i].ntnext].pc = snpc(d[i].pc)

(* tcache_bb_new: assert(s != NULL).                                       *)
RecordAvailable == phase # "aborted"

\* What the threaded engine keeps of decoded instructions is sound through flushes,
\* interrupts and faults: no entry outlives its instruction, bb_find finds every
\* block, decoding always has a record to complete, and free records are linked once.
TcacheSound == NoStaleCode /\ BlockIndexSound /\ DecodesRecordOrTail /\ FreelistSound
=============================================================================
