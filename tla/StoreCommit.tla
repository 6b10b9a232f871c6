---------------------------- MODULE StoreCommit ----------------------------
(***************************************************************************)
(* The store-commit queue of the difftest reference (src/memory/paddr.c)   *)
(* and the cpu.amo flag that decides what is pushed on it.                 *)
(*                                                                         *)
(* NEMU, built as a reference (CONFIG_SHARE, one instruction per           *)
(* cpu_exec), pushes every ordinary store it executes on a ring of         *)
(* STORE_QUEUE_SIZE entries.  The device under test (DUT) commits its      *)
(* stores later, in the same order, and difftest_store_commit pops one     *)
(* entry per commit and compares.  Atomic instructions do not go through   *)
(* the DUT's store queue: rtl_amo_slow_path raises cpu.amo around them and *)
(* store_commit_queue_push returns early while it is up.  A fault inside   *)
(* an atomic leaves the instruction by longjmp, and the flag must be down  *)
(* again before the next store.                                            *)
(***************************************************************************)
EXTENDS Integers, Sequences, TLAPS

CONSTANTS
  STORE_QUEUE_SIZE,  \* entries of the ring
  Addrs,             \* byte addresses a store may go to
  Data,              \* register values a store may write
  MaxPending         \* bound: stores the DUT may lag behind NEMU

ASSUME SizeAssumption == STORE_QUEUE_SIZE \in Nat \ {0}
ASSUME AddrAssumption == Addrs \subseteq Nat
ASSUME LagAssumption == MaxPending \in Nat

VARIABLES
  store_commit_queue,  \* the ring: store_commit_t entries
  head, tail,          \* ring indices
  overflow,            \* static int overflow: the warning was printed
  amo,                 \* cpu.amo
  phase,               \* where the current instruction is (see Phases)
  pending,             \* ghost: committed stores the DUT has not reported yet
  verdict              \* ghost: outcome of the last check_store_commit call

vars == <<store_commit_queue, head, tail, overflow, amo, phase, pending, verdict>>

Slots == 0 .. STORE_QUEUE_SIZE - 1
Lens == {1, 2, 4, 8}

\* "idle": between two instructions.  "amo_load", "amo_store": inside
\* rtl_amo_slow_path, before the load and before the store.  "sc_store",
\* "sc_fail": inside sc, reservation held or not.  "exception": longjmp taken,
\* cpu_exec has not handled it yet.
Phases == {"idle", "amo_load", "amo_store", "sc_store", "sc_fail", "exception"}

----------------------------------------------------------------------------
(* The entry a store of len bytes of d at addr produces: the address is    *)
(* rounded down to a double word, the data is shifted to its byte lanes    *)
(* (lane i holds byte i - offset of d, other lanes are zero) and the mask  *)
(* has one bit per lane, in eight bits.                                    *)
Aligned(addr, len) == addr % len = 0

ByteOf(d, i) == <<d, i>>
Zero == <<0, 0>>

Commit(addr, d, len) ==
  LET offset == addr % 8
  IN  [addr |-> addr - offset,
       data |-> [i \in 0 .. 7 |->
                   IF i \in offset .. offset + len - 1 THEN ByteOf(d, i - offset) ELSE Zero],
       mask |-> ((2 ^ len - 1) * 2 ^ offset) % 256]

Commits ==
  UNION {{Commit(addr, d, len) : d \in Data, len \in {l \in Lens : Aligned(addr, l)}} : addr \in Addrs}

NoCommit == [addr |-> 0, data |-> [i \in 0 .. 7 |-> Zero], mask |-> 0]
Entries == [commit : Commits \cup {NoCommit}, valid : BOOLEAN]

\* What a DUT may report: the address of a double word or of a byte in it.
Reports == {[c EXCEPT !.addr = @ + k] : c \in Commits, k \in {0, 4}}

\* verdict.same: the DUT reported the next store NEMU committed;
\* verdict.result: the return value of check_store_commit.
Verdicts == [same : BOOLEAN, result : {0, 1}]

TypeOK ==
  /\ store_commit_queue \in [Slots -> Entries]
  /\ head \in Slots
  /\ tail \in Slots
  /\ overflow \in BOOLEAN
  /\ amo \in BOOLEAN
  /\ phase \in Phases
  /\ pending \in Seq(Commits)
  /\ verdict \in Verdicts

Init ==
  /\ store_commit_queue = [i \in Slots |-> [commit |-> NoCommit, valid |-> FALSE]]
  /\ head = 0
  /\ tail = 0
  /\ overflow = FALSE
  /\ amo = FALSE
  /\ phase = "idle"
  /\ pending = <<>>
  /\ verdict = [same |-> TRUE, result |-> 0]

----------------------------------------------------------------------------
(* store_commit_queue_push: nothing happens while cpu.amo is up.  A valid  *)
(* entry at the tail is overwritten; only a warning is printed, once.      *)

\* mutant: the overflow is not noticed
PushNoOverflow(c) ==
  IF amo
  THEN UNCHANGED <<store_commit_queue, tail, overflow>>
  ELSE /\ store_commit_queue' = [store_commit_queue EXCEPT ![tail] = [commit |-> c, valid |-> TRUE]]
       /\ tail' = (tail + 1) % STORE_QUEUE_SIZE
       /\ UNCHANGED overflow

store_commit_queue_push(c) ==
  IF amo
  THEN UNCHANGED <<store_commit_queue, tail, overflow>>
  ELSE /\ overflow' = (overflow \/ store_commit_queue[tail].valid)
       /\ store_commit_queue' = [store_commit_queue EXCEPT ![tail] = [commit |-> c, valid |-> TRUE]]
       /\ tail' = (tail + 1) % STORE_QUEUE_SIZE

(* An ordinary store instruction that does not fault: pmem_write pushes it. *)
(* The DUT will report it, whatever the flag says.                          *)
Store(c) ==
  /\ phase = "idle"
  /\ Len(pending) < MaxPending
  /\ store_commit_queue_push(c)
  /\ pending' = Append(pending, c)
  /\ UNCHANGED <<head, amo, phase, verdict>>

(* rtl_amo_slow_path, the read-modify-write instructions: raise the flag,  *)
(* load, store, lower the flag.                                            *)
AmoBegin ==
  /\ phase = "idle"
  /\ amo' = TRUE
  /\ phase' = "amo_load"
  /\ UNCHANGED <<store_commit_queue, head, tail, overflow, pending, verdict>>

AmoLoad ==
  /\ phase = "amo_load"
  /\ phase' = "amo_store"
  /\ UNCHANGED <<store_commit_queue, head, tail, overflow, amo, pending, verdict>>

AmoStore(c) ==
  /\ phase = "amo_store"
  /\ store_commit_queue_push(c)
  /\ amo' = FALSE
  /\ phase' = "idle"
  /\ UNCHANGED <<head, pending, verdict>>

(* sc: the flag is raised too (CONFIG_DIFFTEST_STORE_COMMIT); a failing sc *)
(* stores nothing but still checks the address.                            *)
ScBegin(success) ==
  /\ phase = "idle"
  /\ amo' = TRUE
  /\ phase' = IF success THEN "sc_store" ELSE "sc_fail"
  /\ UNCHANGED <<store_commit_queue, head, tail, overflow, pending, verdict>>

ScStore(c) ==
  /\ phase = "sc_store"
  /\ store_commit_queue_push(c)
  /\ amo' = FALSE
  /\ phase' = "idle"
  /\ UNCHANGED <<head, pending, verdict>>

ScFail ==
  /\ phase = "sc_fail"
  /\ amo' = FALSE
  /\ phase' = "idle"
  /\ UNCHANGED <<store_commit_queue, head, tail, overflow, pending, verdict>>

(* Any other instruction that faults: the flag is not touched.             *)
OtherFault ==
  /\ phase = "idle"
  /\ phase' = "exception"
  /\ UNCHANGED <<store_commit_queue, head, tail, overflow, amo, pending, verdict>>

(* A fault inside an atomic.  raise_access_fault lowers the flag before it *)
(* jumps; a page or misalignment fault (check_permission, isa_mmu_check,   *)
(* isa_misalign_data_addr_check) and the access fault of a failing sc jump *)
(* with the flag still up.                                                 *)
AccessFault ==
  /\ phase \in {"amo_load", "amo_store", "sc_store"}
  /\ amo' = FALSE
  /\ phase' = "exception"
  /\ UNCHANGED <<store_commit_queue, head, tail, overflow, pending, verdict>>

PageFault ==
  /\ phase \in {"amo_load", "amo_store", "sc_store", "sc_fail"}
  /\ phase' = "exception"
  /\ UNCHANGED <<store_commit_queue, head, tail, overflow, amo, pending, verdict>>

(* The exception branch of cpu_exec: after raise_intr the flag is lowered. *)
\* mutant: the flag is not cleaned up
HandleExceptionKeepsAmo ==
  /\ phase = "exception"
  /\ phase' = "idle"
  /\ UNCHANGED <<store_commit_queue, head, tail, overflow, amo, pending, verdict>>

HandleException ==
  /\ phase = "exception"
  /\ amo' = FALSE
  /\ phase' = "idle"
  /\ UNCHANGED <<store_commit_queue, head, tail, overflow, pending, verdict>>

(* store_commit_queue_pop: NULL when the head entry is not valid.          *)
PopIsNull == ~ store_commit_queue[head].valid

store_commit_queue_pop ==
  IF PopIsNull
  THEN UNCHANGED <<store_commit_queue, head>>
  ELSE /\ store_commit_queue' = [store_commit_queue EXCEPT ![head].valid = FALSE]
       /\ head' = (head + 1) % STORE_QUEUE_SIZE

(* difftest_store_commit -> check_store_commit: the DUT reports a store.   *)
(* The result is 1 when nothing is queued or the entry differs.            *)
check_store_commit(report) ==
  LET c == [report EXCEPT !.addr = @ - (@ % 8)]
  IN  /\ phase = "idle"
      /\ store_commit_queue_pop
      /\ verdict' = [same |-> pending # <<>> /\ c = Head(pending),
                     result |-> IF PopIsNull \/ c # store_commit_queue[head].commit THEN 1 ELSE 0]
      /\ pending' = IF pending = <<>> THEN <<>> ELSE Tail(pending)
      /\ UNCHANGED <<tail, overflow, amo, phase>>

Next ==
  \/ \E c \in Commits : Store(c)
  \/ AmoBegin
  \/ AmoLoad
  \/ \E c \in Commits : AmoStore(c)
  \/ \E success \in BOOLEAN : ScBegin(success)
  \/ \E c \in Commits : ScStore(c)
  \/ ScFail
  \/ OtherFault
  \/ AccessFault
  \/ PageFault
  \/ HandleException
  \/ \E report \in Reports : check_store_commit(report)

Spec == Init /\ [][Next]_vars

----------------------------------------------------------------------------
(* The slots from head on hold seq, in order; every other slot is invalid. *)
RingHolds(seq) ==
  /\ Len(seq) <= STORE_QUEUE_SIZE
  /\ tail = (head + Len(seq)) % STORE_QUEUE_SIZE
  /\ \A k \in Slots :
       LET slot == store_commit_queue[(head + k) % STORE_QUEUE_SIZE]
       IN  /\ slot.valid <=> k < Len(seq)
           /\ k < Len(seq) => slot.commit = seq[k + 1]

(* While no entry has been overwritten the ring of store_commit_queue_push *)
(* and _pop holds exactly the stores the DUT has still to report, in the   *)
(* order they were executed.                                               *)
QueueIsPending == ~ overflow => RingHolds(pending)

(* check_store_commit reports a difference exactly when the DUT's store is *)
(* not the next store NEMU committed, as long as the overflow warning has  *)
(* not been printed: no false alarm and no missed difference.              *)
CheckIsExact ==
  ~ overflow => (verdict.result = 0 <=> verdict.same)

(* cpu.amo is up exactly inside an atomic: down between two instructions,  *)
(* whatever fault ended the last one (assert(!cpu.amo) in lr, and every    *)
(* ordinary store relies on it), and up at every store of an atomic.       *)
AmoTracksAtomics ==
  /\ phase = "idle" => ~ amo
  /\ phase \in {"amo_load", "amo_store", "sc_store", "sc_fail"} => amo

----------------------------------------------------------------------------
(* For every ring size, address set and lag: until the overflow warning    *)
(* the ring is the FIFO of the stores the DUT has still to report, and     *)
(* check_store_commit answers exactly.                                     *)
USE SizeAssumption

(* Indices of the ring wrap at most once: head and tail stay below the     *)
(* size and at most the size is added to them.                             *)
LEMMA WrapOnce ==
  ASSUME NEW i \in Slots, NEW k \in 0 .. STORE_QUEUE_SIZE
  PROVE  /\ i + k < STORE_QUEUE_SIZE => (i + k) % STORE_QUEUE_SIZE = i + k
         /\ i + k >= STORE_QUEUE_SIZE => (i + k) % STORE_QUEUE_SIZE = i + k - STORE_QUEUE_SIZE
         /\ (i + k) % STORE_QUEUE_SIZE \in Slots
<1>1. CASE i + k < STORE_QUEUE_SIZE
  BY <1>1 DEF Slots
<1>2. CASE i + k >= STORE_QUEUE_SIZE
  BY <1>2 DEF Slots
<1> QED
  BY <1>1, <1>2 DEF Slots

(* What every reachable state satisfies: the conjuncts support each other. *)
IInv == TypeOK /\ QueueIsPending /\ CheckIsExact /\ AmoTracksAtomics

\* An empty ring holds no unreported stores, and no atomic is under way.
LEMMA InitEstablishes == Init => IInv
<1> SUFFICES ASSUME Init PROVE IInv
  OBVIOUS
<1>1. TypeOK
  BY DEF Init, TypeOK, Slots, Entries, Phases, Verdicts
<1>2. QueueIsPending
  <2>1. \A k \in Slots : (0 + k) % STORE_QUEUE_SIZE = k
    BY DEF Slots
  <2> QED
    BY <2>1, WrapOnce DEF Init, QueueIsPending, RingHolds, Slots
<1>3. CheckIsExact /\ AmoTracksAtomics
  BY DEF Init, CheckIsExact, AmoTracksAtomics
<1> QED
  BY <1>1, <1>2, <1>3 DEF IInv

(* A push that overwrites nothing appends the store to the FIFO.           *)
LEMMA PushAppends ==
  ASSUME TypeOK, TypeOK', QueueIsPending, ~ amo, NEW c \in Commits,
         store_commit_queue_push(c), pending' = Append(pending, c), head' = head
  PROVE  QueueIsPending'
<1> SUFFICES ASSUME ~ overflow' PROVE RingHolds(pending)'
  BY DEF QueueIsPending
<1> DEFINE n == Len(pending)
           S == STORE_QUEUE_SIZE
           At(k) == (head + k) % S
<1>1. /\ ~ overflow /\ ~ store_commit_queue[tail].valid
      /\ store_commit_queue' = [store_commit_queue EXCEPT ![tail] = [commit |-> c, valid |-> TRUE]]
      /\ tail' = (tail + 1) % S
  BY DEF store_commit_queue_push, TypeOK
<1>2. /\ n <= S /\ n \in Nat /\ tail = At(n)
      /\ \A k \in Slots : /\ store_commit_queue[At(k)].valid <=> k < n
                          /\ k < n => store_commit_queue[At(k)].commit = pending[k + 1]
  <2>1. RingHolds(pending)
    BY <1>1 DEF QueueIsPending
  <2>2. n \in Nat
    BY DEF TypeOK
  <2> QED
    BY <2>1, <2>2 DEF RingHolds
<1>3. head \in Slots /\ tail \in Slots
  BY DEF TypeOK
<1>4. \A k \in 0 .. S : /\ head + k < S => At(k) = head + k
                        /\ head + k >= S => At(k) = head + k - S
                        /\ At(k) \in Slots
  BY <1>3, WrapOnce
<1> HIDE DEF At
<1>5. n < S
  <2>1. SUFFICES ASSUME n = S PROVE FALSE
    BY <1>2
  <2>2. tail = At(0)
    BY <2>1, <1>2, <1>3, <1>4 DEF Slots
  <2> QED
    BY <2>1, <2>2, <1>1, <1>2 DEF Slots
<1>6. tail' = At(n + 1)
  <2>1. tail' = (tail + 1) % S
    BY <1>1
  <2>2. tail + 1 < S => tail' = tail + 1
    BY <2>1, <1>3, WrapOnce DEF Slots
  <2>3. tail + 1 >= S => tail' = tail + 1 - S
    BY <2>1, <1>3, WrapOnce DEF Slots
  <2>4. n \in 0 .. S /\ n + 1 \in 0 .. S /\ tail = At(n)
    BY <1>2, <1>5
  <2>5. /\ head + n < S => tail = head + n
        /\ head + n >= S => tail = head + n - S
        /\ head + (n + 1) < S => At(n + 1) = head + (n + 1)
        /\ head + (n + 1) >= S => At(n + 1) = head + (n + 1) - S
    BY <2>4, <1>4
  <2> HIDE DEF n
  <2> QED
    BY <2>2, <2>3, <2>4, <2>5, <1>3, <1>5 DEF Slots
<1>7. Len(pending') = n + 1 /\ \A k \in 0 .. n : pending'[k + 1] = IF k < n THEN pending[k + 1] ELSE c
  BY <1>2 DEF TypeOK
<1>8. ASSUME NEW k \in Slots
      PROVE  /\ store_commit_queue'[At(k)].valid <=> k < n + 1
             /\ k < n + 1 => store_commit_queue'[At(k)].commit = pending'[k + 1]
  <2>1. store_commit_queue \in [Slots -> Entries]
    BY DEF TypeOK
  <2>2. CASE k = n
    BY <2>2, <2>1, <1>1, <1>2, <1>3, <1>7 DEF Slots
  <2>3. CASE k # n
    <3>1. At(k) # tail /\ At(k) \in Slots
      <4>1. k \in 0 .. S /\ n \in 0 .. S /\ tail = At(n)
        BY <1>2, <1>5 DEF Slots
      <4>2. /\ head + n < S => tail = head + n
            /\ head + n >= S => tail = head + n - S
            /\ head + k < S => At(k) = head + k
            /\ head + k >= S => At(k) = head + k - S
            /\ At(k) \in Slots
        BY <4>1, <1>4
      <4> HIDE DEF n
      <4> QED
        BY <4>1, <4>2, <2>3, <1>3, <1>5 DEF Slots
    <3>2. store_commit_queue'[At(k)] = store_commit_queue[At(k)]
      BY <3>1, <2>1, <1>1
    <3>3. k < n + 1 <=> k < n
      BY <2>3, <1>2 DEF Slots
    <3> QED
      BY <3>2, <3>3, <1>2, <1>7 DEF Slots
  <2> QED
    BY <2>2, <2>3
<1>9. Len(pending') <= S
  BY <1>2, <1>5, <1>7
<1> QED
  <2>1. tail' = (head' + Len(pending')) % S
    BY <1>6, <1>7 DEF At
  <2>2. \A k \in Slots : /\ store_commit_queue'[(head' + k) % S].valid <=> k < Len(pending')
                         /\ k < Len(pending') => store_commit_queue'[(head' + k) % S].commit = pending'[k + 1]
    BY <1>7, <1>8 DEF At
  <2> QED
    BY <1>9, <2>1, <2>2 DEF RingHolds
(* The head of the ring is the head of the FIFO.                           *)
LEMMA HeadOfRing ==
  ASSUME TypeOK, QueueIsPending, ~ overflow
  PROVE  /\ PopIsNull <=> pending = <<>>
         /\ ~ PopIsNull => store_commit_queue[head].commit = Head(pending)
<1>1. RingHolds(pending)
  BY DEF QueueIsPending
<1>2. 0 \in Slots /\ head \in Slots /\ pending \in Seq(Commits)
  BY DEF TypeOK, Slots
<1>4. (head + 0) % STORE_QUEUE_SIZE = head
  BY <1>2 DEF Slots
<1>3. /\ store_commit_queue[head].valid <=> 0 < Len(pending)
      /\ 0 < Len(pending) => store_commit_queue[head].commit = pending[1]
  <2>1. /\ store_commit_queue[(head + 0) % STORE_QUEUE_SIZE].valid <=> 0 < Len(pending)
        /\ 0 < Len(pending) => store_commit_queue[(head + 0) % STORE_QUEUE_SIZE].commit = pending[0 + 1]
    BY <1>1, <1>2 DEF RingHolds
  <2> QED
    BY <2>1, <1>4
<1>5. (0 < Len(pending) <=> pending # <<>>) /\ (pending # <<>> => Head(pending) = pending[1])
  BY <1>2
<1> QED
  BY <1>3, <1>5 DEF PopIsNull

(* A pop removes the head of the FIFO, or does nothing when it is empty.   *)
LEMMA PopRemoves ==
  ASSUME TypeOK, TypeOK', QueueIsPending, store_commit_queue_pop,
         UNCHANGED <<tail, overflow>>,
         pending' = IF pending = <<>> THEN <<>> ELSE Tail(pending)
  PROVE  QueueIsPending'
<1> SUFFICES ASSUME ~ overflow PROVE RingHolds(pending)'
  BY DEF QueueIsPending
<1> DEFINE n == Len(pending)
           S == STORE_QUEUE_SIZE
           At(k) == (head + k) % S
<1>1. /\ n <= S /\ n \in Nat /\ tail = At(n)
      /\ \A k \in Slots : /\ store_commit_queue[At(k)].valid <=> k < n
                          /\ k < n => store_commit_queue[At(k)].commit = pending[k + 1]
  <2>1. RingHolds(pending)
    BY DEF QueueIsPending
  <2>2. n \in Nat
    BY DEF TypeOK
  <2> QED
    BY <2>1, <2>2 DEF RingHolds
<1>2. CASE pending = <<>>
  <2>1. UNCHANGED <<store_commit_queue, head, tail, pending>>
    BY <1>2, HeadOfRing DEF store_commit_queue_pop
  <2> QED
    BY <2>1 DEF RingHolds, QueueIsPending
<1>3. CASE pending # <<>>
  <2>1. /\ store_commit_queue' = [store_commit_queue EXCEPT ![head].valid = FALSE]
        /\ head' = (head + 1) % S
    BY <1>3, HeadOfRing DEF store_commit_queue_pop
  <2>2. n \in 1 .. S /\ Len(pending') = n - 1 /\ \A k \in 0 .. n - 2 : pending'[k + 1] = pending[k + 2]
    BY <1>1, <1>3 DEF TypeOK
  <2>3. head \in Slots /\ head' \in Slots
    BY DEF TypeOK
  <2>4. \A k \in 0 .. S : /\ head + k < S => At(k) = head + k
                          /\ head + k >= S => At(k) = head + k - S
                          /\ At(k) \in Slots
    BY <2>3, WrapOnce
  <2>5. /\ head + 1 < S => head' = head + 1
        /\ head + 1 >= S => head' = head + 1 - S
    <3>1. 1 \in 0 .. S /\ head' = (head + 1) % S
      BY <2>1
    <3>2. /\ head + 1 < S => (head + 1) % S = head + 1
          /\ head + 1 >= S => (head + 1) % S = head + 1 - S
      BY <3>1, <2>3, WrapOnce, Zenon
    <3> QED
      BY <3>1, <3>2, Zenon
  <2>6. \A k \in 0 .. S - 1 : (head' + k) % S = At(k + 1)
    <3> SUFFICES ASSUME NEW k \in 0 .. S - 1 PROVE (head' + k) % S = At(k + 1)
      OBVIOUS
    <3>1. /\ head' + k < S => (head' + k) % S = head' + k
          /\ head' + k >= S => (head' + k) % S = head' + k - S
      BY <2>3, WrapOnce
    <3>2. k + 1 \in 0 .. S
      OBVIOUS
    <3> HIDE DEF At
    <3>3. /\ head + (k + 1) < S => At(k + 1) = head + (k + 1)
          /\ head + (k + 1) >= S => At(k + 1) = head + (k + 1) - S
      BY <3>2, <2>4
    <3>4. CASE head + 1 < S
      BY <3>1, <3>3, <3>4, <2>3, <2>5 DEF Slots
    <3>5. CASE head + 1 >= S
      BY <3>1, <3>3, <3>5, <2>3, <2>5 DEF Slots
    <3> QED
      BY <3>4, <3>5, <2>3 DEF Slots
  <2>7. tail' = (head' + Len(pending')) % S
    <3>1. n - 1 \in 0 .. S - 1 /\ n - 1 + 1 = n
      BY <2>2
    <3>2. (head' + (n - 1)) % S = At(n - 1 + 1)
      BY <3>1, <2>6
    <3> QED
      BY <3>1, <3>2, <2>2, <1>1
  <2>8. ASSUME NEW k \in Slots
        PROVE  /\ store_commit_queue'[(head' + k) % S].valid <=> k < Len(pending')
               /\ k < Len(pending') => store_commit_queue'[(head' + k) % S].commit = pending'[k + 1]
    <3>1. (head' + k) % S = At(k + 1)
      BY <2>6 DEF Slots
    <3>2. store_commit_queue \in [Slots -> Entries]
      BY DEF TypeOK
    <3>3. CASE k = S - 1
      <4>1. At(k + 1) = head
        BY <3>3, <2>3, <2>4 DEF Slots
      <4>2. ~ store_commit_queue'[head].valid
        BY <2>1, <2>3, <3>2 DEF Entries
      <4>3. ~ (k < Len(pending'))
        BY <3>3, <2>2 DEF Slots
      <4> QED
        BY <4>1, <4>2, <4>3, <3>1
    <3>4. CASE k # S - 1
      <4>1. k + 1 \in Slots /\ k + 1 \in 0 .. S
        BY <3>4 DEF Slots
      <4>2. At(k + 1) # head /\ At(k + 1) \in Slots
        <5>1. /\ head + (k + 1) < S => At(k + 1) = head + (k + 1)
              /\ head + (k + 1) >= S => At(k + 1) = head + (k + 1) - S
              /\ At(k + 1) \in Slots
          BY <4>1, <2>4
        <5> HIDE DEF At
        <5> QED
          BY <5>1, <4>1, <2>3 DEF Slots
      <4>3. store_commit_queue'[At(k + 1)] = store_commit_queue[At(k + 1)]
        BY <4>2, <3>2, <2>1
      <4>4. k < Len(pending') <=> k + 1 < n
        BY <2>2 DEF Slots
      <4>5. k < Len(pending') => pending'[k + 1] = pending[(k + 1) + 1]
        BY <2>2 DEF Slots
      <4> HIDE DEF At
      <4> QED
        BY <4>1, <4>3, <4>4, <4>5, <3>1, <1>1
    <3> QED
      BY <3>3, <3>4
  <2>9. Len(pending') <= S
    BY <2>2
  <2> QED
    BY <2>7, <2>8, <2>9 DEF RingHolds
<1> QED
  BY <1>2, <1>3
\* store_commit_queue_push keeps the types of the ring and of its indices.
LEMMA PushTyped ==
  ASSUME TypeOK, NEW c \in Commits, store_commit_queue_push(c)
  PROVE  /\ store_commit_queue' \in [Slots -> Entries]
         /\ tail' \in Slots
         /\ overflow' \in BOOLEAN
<1>1. CASE amo
  BY <1>1 DEF store_commit_queue_push, TypeOK
<1>2. CASE ~ amo
  <2>1. /\ overflow' = (overflow \/ store_commit_queue[tail].valid)
        /\ store_commit_queue' = [store_commit_queue EXCEPT ![tail] = [commit |-> c, valid |-> TRUE]]
        /\ tail' = (tail + 1) % STORE_QUEUE_SIZE
    BY <1>2 DEF store_commit_queue_push
  <2>2. tail \in Slots /\ store_commit_queue \in [Slots -> Entries]
    BY DEF TypeOK
  <2>3. tail' \in Slots
    BY <2>1, <2>2 DEF Slots
  <2> QED
    BY <2>1, <2>2, <2>3 DEF Entries
<1> QED
  BY <1>1, <1>2

\* store_commit_queue_pop keeps the types of the ring and of its indices.
LEMMA PopTyped ==
  ASSUME TypeOK, store_commit_queue_pop
  PROVE  store_commit_queue' \in [Slots -> Entries] /\ head' \in Slots
<1>1. CASE PopIsNull
  BY <1>1 DEF store_commit_queue_pop, TypeOK
<1>2. CASE ~ PopIsNull
  <2>1. /\ store_commit_queue' = [store_commit_queue EXCEPT ![head].valid = FALSE]
        /\ head' = (head + 1) % STORE_QUEUE_SIZE
    BY <1>2 DEF store_commit_queue_pop
  <2>2. head \in Slots /\ store_commit_queue \in [Slots -> Entries]
    BY DEF TypeOK
  <2>3. head' \in Slots
    BY <2>1, <2>2 DEF Slots
  <2> QED
    BY <2>1, <2>2, <2>3 DEF Entries
<1> QED
  BY <1>1, <1>2

(* An ordinary store runs with the flag down, so it reaches the ring.      *)
LEMMA StoreStep ==
  ASSUME IInv, NEW c \in Commits, Store(c)
  PROVE  IInv'
<1>1. TypeOK'
  <2>1. store_commit_queue_push(c) /\ TypeOK
    BY DEF Store, IInv
  <2> QED
    BY <2>1, PushTyped DEF Store, TypeOK
<1>2. QueueIsPending'
  <2>1. ~ amo /\ store_commit_queue_push(c) /\ pending' = Append(pending, c) /\ head' = head
    BY DEF Store, IInv, AmoTracksAtomics
  <2> QED
    BY <1>1, <2>1, PushAppends DEF IInv
<1>3. CheckIsExact'
  <2>1. overflow => overflow'
    BY DEF Store, store_commit_queue_push, IInv, TypeOK
  <2> QED
    BY <2>1 DEF Store, IInv, CheckIsExact
<1>4. AmoTracksAtomics'
  BY DEF Store, IInv, AmoTracksAtomics
<1> QED
  BY <1>1, <1>2, <1>3, <1>4 DEF IInv

(* A store of an atomic runs with the flag up: the ring is not touched.    *)
LEMMA AtomicStoreStep ==
  ASSUME IInv, NEW c \in Commits, AmoStore(c) \/ ScStore(c)
  PROVE  IInv'
<1>1. amo /\ UNCHANGED <<store_commit_queue, tail, overflow, head, pending, verdict>> /\ ~ amo' /\ phase' = "idle"
  BY DEF AmoStore, ScStore, IInv, AmoTracksAtomics, store_commit_queue_push
<1>2. TypeOK'
  BY <1>1 DEF IInv, TypeOK, AmoStore, ScStore, Phases
<1>3. QueueIsPending' /\ CheckIsExact'
  BY <1>1 DEF IInv, QueueIsPending, RingHolds, CheckIsExact
<1>4. AmoTracksAtomics'
  BY <1>1 DEF AmoTracksAtomics
<1> QED
  BY <1>2, <1>3, <1>4 DEF IInv

\* One call of check_store_commit, when the ring is the FIFO of unreported stores,
\* answers whether the reported store is the oldest of them.
LEMMA CheckStep ==
  ASSUME IInv, NEW report \in Reports, check_store_commit(report)
  PROVE  IInv'
<1> DEFINE c == [report EXCEPT !.addr = @ - (@ % 8)]
<1> USE DEF check_store_commit
<1>1. TypeOK /\ QueueIsPending /\ store_commit_queue_pop /\ UNCHANGED <<tail, overflow, amo, phase>>
  BY DEF IInv
<1>2. TypeOK'
  <2>1. pending' \in Seq(Commits)
    BY <1>1 DEF TypeOK
  <2>2. verdict' \in Verdicts
    BY DEF Verdicts
  <2> QED
    BY <1>1, <2>1, <2>2, PopTyped DEF TypeOK
<1>3. QueueIsPending'
  BY <1>1, <1>2, PopRemoves
<1>4. CheckIsExact'
  <2> SUFFICES ASSUME ~ overflow PROVE verdict'.result = 0 <=> verdict'.same
    BY <1>1 DEF CheckIsExact
  <2>1. /\ verdict'.same <=> pending # <<>> /\ c = Head(pending)
        /\ verdict'.result = IF PopIsNull \/ c # store_commit_queue[head].commit THEN 1 ELSE 0
    OBVIOUS
  <2> HIDE DEF c
  <2> QED
    BY <1>1, <2>1, HeadOfRing
<1>5. AmoTracksAtomics'
  BY <1>1 DEF IInv, AmoTracksAtomics
<1> QED
  BY <1>2, <1>3, <1>4, <1>5 DEF IInv

(* The control steps change the phase and the flag only.                   *)
LEMMA ControlStep ==
  ASSUME IInv,
         \/ AmoBegin \/ AmoLoad \/ (\E success \in BOOLEAN : ScBegin(success)) \/ ScFail
         \/ OtherFault \/ AccessFault \/ PageFault \/ HandleException
         \/ UNCHANGED vars
  PROVE  IInv'
<1> USE DEF AmoBegin, AmoLoad, ScBegin, ScFail, OtherFault, AccessFault, PageFault, HandleException, vars
<1>1. UNCHANGED <<store_commit_queue, tail, overflow, head, pending, verdict>>
  OBVIOUS
<1>2. TypeOK'
  BY <1>1 DEF IInv, TypeOK, Phases
<1>3. QueueIsPending' /\ CheckIsExact'
  BY <1>1 DEF IInv, QueueIsPending, RingHolds, CheckIsExact
<1>4. AmoTracksAtomics'
  BY DEF IInv, AmoTracksAtomics
<1> QED
  BY <1>2, <1>3, <1>4 DEF IInv

(* For every ring size, set of stores and lag of the DUT: until the        *)
(* overflow warning of store_commit_queue_push, the ring holds the stores  *)
(* the DUT has still to report, check_store_commit reports a difference    *)
(* exactly when there is one, and cpu.amo is up only inside atomics.       *)
THEOREM StoreCommitCorrect ==
  Spec => [](TypeOK /\ QueueIsPending /\ CheckIsExact /\ AmoTracksAtomics)
<1>1. Init => IInv
  BY InitEstablishes
<1>2. IInv /\ [Next]_vars => IInv'
  BY StoreStep, AtomicStoreStep, CheckStep, ControlStep DEF Next
<1>3. IInv => TypeOK /\ QueueIsPending /\ CheckIsExact /\ AmoTracksAtomics
  BY DEF IInv
<1> QED
  BY <1>1, <1>2, <1>3, PTL DEF Spec

(* In particular, whatever the ring size and the lag: the ring of          *)
(* store_commit_queue_push and _pop is the FIFO of unreported stores.      *)
THEOREM RingIsQueue == Spec => []QueueIsPending
  BY StoreCommitCorrect, PTL

(* And whatever fault ends an instruction, cpu.amo is up exactly inside    *)
(* atomics: no ordinary store is kept from the ring and no store of an     *)
(* atomic reaches it.                                                      *)
THEOREM AmoUpInAtomics == Spec => []AmoTracksAtomics
  BY StoreCommitCorrect, PTL
============================================================================
