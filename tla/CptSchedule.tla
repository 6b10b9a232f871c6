---------------------------- MODULE CptSchedule ----------------------------
\* When checkpoints are taken and what for (checkpoint/serializer.cpp,
\* path_manager.cpp, simpoint.cpp, per_bb_profile of cpu-exec.c): uniform
\* checkpoints, SimPoint-directed ones, and SimPoint profiling, at the ends of
\* the blocks that the guest executes.
EXTENDS Integers, Sequences, FiniteSets, FiniteSetsExt

CONSTANTS
  Interval,         \* checkpoint_interval
  WARMUP,           \* added to a SimPoint's position, 100000
  Points,           \* the positions listed in simpoints0
  BlockSizes,       \* instructions of a block
  Blocks,           \* addresses that end blocks
  MaxInstr          \* bound: instructions executed

VARIABLES
  state,            \* "uniform" | "SimpointCheckpointing" | "SimpointProfiling"
  force_cpt_mmode,
  profiling_started,
  mode,
  count,            \* get_abs_instr_count
  nextUniformPoint,
  simpoint2Weights, \* the positions left in the map
  cptID,
  files,            \* what was written: [dir, name, at]
  undefined,        \* an element of the empty map was erased
  lastICount, intervalCount, intervalDrift,
  currentBBV,       \* <<first, instructions>>
  bbMap,            \* <<first, last>> -> instructions in this interval
  lines,            \* the vectors printed, each block -> instructions
  total             \* ghost: instructions handed to the profiler

vars == <<state, force_cpt_mmode, profiling_started, mode, count, nextUniformPoint, simpoint2Weights, cptID,
          files, undefined, lastICount, intervalCount, intervalDrift, currentBBV, bbMap, lines, total>>
cpt == <<nextUniformPoint, simpoint2Weights, cptID, files, undefined>>
bbv == <<lastICount, intervalCount, intervalDrift, currentBBV, bbMap, lines, total>>
options == <<state, force_cpt_mmode>>

Pairs == Blocks \X Blocks

\* parse_args, Serializer::init, PathManager::init, SimPoint::init.
Init ==
  /\ state \in {"uniform", "SimpointCheckpointing", "SimpointProfiling"}
  /\ force_cpt_mmode \in BOOLEAN /\ profiling_started = FALSE
  /\ mode = "M" /\ count = 0
  /\ nextUniformPoint = Interval
  /\ simpoint2Weights = IF state = "SimpointCheckpointing" THEN Points ELSE {}
  /\ cptID = IF state = "SimpointProfiling" THEN -1 ELSE 0
  /\ files = <<>> /\ undefined = FALSE
  /\ lastICount = 0 /\ intervalCount = 0 /\ intervalDrift = 0
  /\ currentBBV = <<CHOOSE b \in Blocks : TRUE, 0>>
  /\ bbMap = [p \in Pairs |-> 0] /\ lines = <<>> /\ total = 0

-----------------------------------------------------------------------------
\* Checkpoints.

begin == Min(simpoint2Weights)

shouldTakeCpt(n) ==
  IF state = "SimpointCheckpointing" THEN n >= begin * Interval + WARMUP ELSE n >= nextUniformPoint

\* setOutputDir, serialize: the file of this checkpoint.
FileOf(n) ==
  [dir |-> cptID, name |-> IF state = "SimpointCheckpointing" THEN begin ELSE n, at |-> n]

\* notify_taken
notify_taken_from_now(n) ==
  IF state = "SimpointCheckpointing"
  THEN /\ simpoint2Weights' = simpoint2Weights \ {begin}
       /\ cptID' = IF simpoint2Weights' # {} THEN cptID + 1 ELSE cptID
       /\ UNCHANGED nextUniformPoint
  ELSE nextUniformPoint' = n + Interval /\ cptID' = cptID + 1 /\ UNCHANGED simpoint2Weights
notify_taken(n) ==
  IF state = "SimpointCheckpointing"
  THEN /\ simpoint2Weights' = simpoint2Weights \ {begin}
       /\ cptID' = IF simpoint2Weights' # {} THEN cptID + 1 ELSE cptID
       /\ UNCHANGED nextUniformPoint
  ELSE nextUniformPoint' = nextUniformPoint + Interval /\ cptID' = cptID + 1 /\ UNCHANGED simpoint2Weights

\* -S sets checkpoint_taking too, so shouldTakeCpt does not return early when the
\* map is empty: begin() is then end(), and what is read there as a position (0 in
\* libstdc++, the element count) is any of them. If the position is passed, one more
\* checkpoint is written, in the directory of the last, and the erase has no outcome
\* to count on.
try_take_stale(n) ==
  /\ UNCHANGED <<nextUniformPoint, simpoint2Weights, cptID>>
  /\ \E key \in Points :
       IF n >= key * Interval + WARMUP
       THEN files' = Append(files, [dir |-> cptID, name |-> key, at |-> n]) /\ undefined' = TRUE
       ELSE UNCHANGED <<files, undefined>>

try_take_cpt(n) ==
  IF state = "SimpointCheckpointing" /\ simpoint2Weights = {}
  THEN try_take_stale(n)
  ELSE /\ UNCHANGED undefined
       /\ IF shouldTakeCpt(n)
          THEN files' = Append(files, FileOf(n)) /\ notify_taken(n)
          ELSE UNCHANGED <<nextUniformPoint, simpoint2Weights, cptID, files>>

-----------------------------------------------------------------------------
\* SimPoint::profile_with_abs_icount and profile; every call ends a block.

DriftAfter(sum) == sum - Interval

\* info.count of a block, new or seen before.
Counted(bb, insts) == [bbMap EXCEPT ![bb] = @ + insts]

profile(pc, n) ==
  LET instr_count == n - lastICount
      first == IF currentBBV[2] = 0 THEN pc ELSE currentBBV[1]
      bb == <<first, pc>>
      insts == currentBBV[2] + instr_count
      counts == Counted(bb, insts)
      sum == intervalCount + instr_count + intervalDrift
  IN  /\ lastICount' = n /\ total' = total + instr_count
      /\ currentBBV' = <<first, 0>>
      /\ IF sum >= Interval
         THEN /\ lines' = Append(lines, [p \in {q \in Pairs : counts[q] # 0} |-> counts[p]])
              /\ bbMap' = [p \in Pairs |-> 0]
              /\ intervalDrift' = DriftAfter(sum) /\ intervalCount' = 0
         ELSE /\ bbMap' = counts /\ intervalCount' = intervalCount + instr_count
              /\ UNCHANGED <<lines, intervalDrift>>

-----------------------------------------------------------------------------
\* Execution.

able_to_take_cpt(m) == m # "M"

per_bb_profile(pc, n, m) ==
  /\ IF state = "SimpointProfiling" /\ profiling_started THEN profile(pc, n) ELSE UNCHANGED bbv
  /\ IF state # "SimpointProfiling" /\ profiling_started /\ (force_cpt_mmode \/ able_to_take_cpt(m))
     THEN try_take_cpt(n) ELSE UNCHANGED cpt

\* A block of k instructions that ends before pc, possibly in another mode.
Block(k, pc, m) ==
  /\ ~ undefined /\ count + k <= MaxInstr
  /\ count' = count + k /\ mode' = m
  /\ per_bb_profile(pc, count + k, m)
  /\ UNCHANGED <<options, profiling_started>>

\* end_of_loop: the profile once more at the same place.
EndOfLoop(pc) ==
  /\ ~ undefined
  /\ per_bb_profile(pc, count, mode)
  /\ UNCHANGED <<options, profiling_started, count, mode>>

\* nemu_trap with 0x101: counting starts anew.
nemu_trap ==
  /\ ~ profiling_started /\ ~ undefined
  /\ profiling_started' = TRUE /\ count' = 1
  /\ UNCHANGED <<options, mode, cpt, bbv>>

BlockStep == \E k \in BlockSizes, pc \in Blocks, m \in {"M", "S"} : Block(k, pc, m)
Next == BlockStep \/ (\E pc \in Blocks : EndOfLoop(pc)) \/ nemu_trap

\* The guest runs on, starts the profile, and is found outside M mode again
\* and again at the end of the last block.
Fairness ==
  /\ WF_vars(BlockStep) /\ WF_vars(nemu_trap)
  /\ SF_vars(mode = "S" /\ \E pc \in Blocks : EndOfLoop(pc))

Spec == Init /\ [][Next]_vars /\ Fairness

-----------------------------------------------------------------------------
\* Type invariant of Serializer, PathManager and SimPoint.
TypeOK ==
  /\ state \in {"uniform", "SimpointCheckpointing", "SimpointProfiling"}
  /\ mode \in {"M", "S"} /\ count \in 0 .. MaxInstr
  /\ nextUniformPoint \in Nat /\ simpoint2Weights \subseteq Points /\ cptID \in -1 .. MaxInstr
  /\ \A i \in 1 .. Len(files) : files[i].dir \in Nat /\ files[i].at \in 0 .. MaxInstr
  /\ intervalCount \in Nat /\ intervalDrift \in Nat /\ bbMap \in [Pairs -> Nat]

\* The checkpoints that were asked for: all of a uniform run, one per SimPoint. What
\* a run that goes on after its last SimPoint writes more (try_take_stale) is not
\* among them, and may replace the last of them.
Due == 1 .. (IF state = "SimpointCheckpointing" THEN Min({Len(files), Cardinality(Points)}) ELSE Len(files))

\* No checkpoint that is due replaces another: two of a run differ in directory
\* (cptID, incremented by notify_taken) or in name.
FilesDistinct ==
  \A i, j \in Due : i # j => <<files[i].dir, files[i].name>> # <<files[j].dir, files[j].name>>

\* The i-th uniform checkpoint is not taken before i intervals, one is taken for
\* every interval even if the guest was in M mode for several, and a late one
\* does not delay those after it (nextUniformPoint counts intervals, not the
\* distance from the last).
UniformSchedule ==
  state = "uniform" =>
    /\ nextUniformPoint = (Len(files) + 1) * Interval
    /\ \A i \in 1 .. Len(files) : files[i].at >= i * Interval

\* Up to the last of the list, SimPoint checkpoints are those of the list in
\* ascending order, none before its interval and the warm-up are over; one that is
\* not of the list comes only when the list is done.
PointsInOrder ==
  state = "SimpointCheckpointing" =>
    /\ \A i \in Due :
         /\ files[i].name \in Points \ simpoint2Weights
         /\ files[i].at >= files[i].name * Interval + WARMUP
         /\ \A j \in 1 .. i - 1 : files[j].name < files[i].name
    /\ Cardinality(Due) = Cardinality(Points \ simpoint2Weights)
    /\ Len(files) > Cardinality(Points) => undefined

\* SimPoint::profile loses no instruction: what was printed, what the map holds
\* and what is in no block yet are all that was handed to it.
InstructionsConserved ==
  LET Sum(f) == MapThenSumSet(LAMBDA p : f[p], DOMAIN f)
  IN  total = MapThenSumSet(LAMBDA i : Sum(lines[i]), DOMAIN lines) + Sum(bbMap) + currentBBV[2]

\* The drift is carried over: after the k-th vector the profile is exactly
\* total - k * Interval instructions into the next, however long the blocks are.
DriftCarried == total = Len(lines) * Interval + intervalCount + intervalDrift

\* If the guest runs on and is outside M mode again and again, every uniform
\* point that it passed gets its checkpoint.
PointsTaken ==
  (state = "uniform" /\ []<>(mode = "S")) => <>[](nextUniformPoint > count)

\* notify_taken and shouldTakeCpt keep their schedule: the files due have names of
\* their own, uniform checkpoints are an interval apart, SimPoints come in order up to
\* the last (nothing is said of what is written after it), and the profile loses no
\* instruction and counts none twice.
CheckpointsScheduled ==
  FilesDistinct /\ UniformSchedule /\ PointsInOrder /\ InstructionsConserved /\ DriftCarried
=============================================================================
