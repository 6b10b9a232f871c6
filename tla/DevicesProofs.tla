--------------------------- MODULE DevicesProofs ----------------------------
\* What the device models promise, proved for every size of their queues and
\* every interleaving of their threads: the timer, and the key queue and the
\* serial port as channels.
EXTENDS Integers, Sequences, SequenceTheorems, NaturalsInduction, WellFoundedInduction, TLAPS

\* The timer of Clint.
CONSTANTS MaxTime, Compares
VARIABLES Deterministic, now, mtime, mtimecmp, mip, clintAt, op, t_now, t_mip, got, last
CL == INSTANCE Clint WITH at <- clintAt

\* The host's events and the key queue of Keyboard.
CONSTANTS KEY_QUEUE_LEN, Scancodes, Mapped, MaxEvents
VARIABLES state, loopAt, device_update_flag, events, eventsSent, key_queue, key_f, key_r, port, sync, shown, drawn
KB == INSTANCE Keyboard WITH at <- loopAt, sent <- eventsSent

\* The serial port of Serial.
CONSTANTS QUEUE_SIZE, READ_MAX, Chars, Preset, MaxWritten
VARIABLES fifo, fifoF, fifoR, pipe, written, CH, LSR, dead
SE == INSTANCE Serial WITH queue <- fifo, f <- fifoF, r <- fifoR

-----------------------------------------------------------------------------
\* The values of mip, and what holds between the steps of the two threads: got is
\* the time that the guest has seen.
Mip == [mtip : BOOLEAN, other : BOOLEAN]
ClintInv ==
  /\ now \in Int /\ mtime \in Int /\ mtimecmp \in Int /\ t_now \in Int /\ got \in Int /\ last \in Int
  /\ mip \in Mip /\ t_mip \in Mip
  /\ last <= got
  /\ Deterministic => got <= mtime /\ (clintAt = "mtime" => mtime <= t_now)
  /\ ~ Deterministic => got <= now /\ mtime <= now /\ t_now <= now
  /\ clintAt = "mtime" => got <= t_now
  /\ clintAt \in {"load", "store", "value"} => got <= mtime
  /\ clintAt \in {"idle", "value"} /\ mip.mtip => mtime >= mtimecmp
  /\ clintAt \in {"store", "csr"} /\ t_mip.mtip => mtime >= mtimecmp

\* The timer starts with no interrupt pending.
LEMMA ClintInit == ASSUME Compares \subseteq Int, CL!Init PROVE ClintInv
  BY DEF CL!Init, ClintInv, Mip

\* Setting the timer bit of mip leaves a value of mip.
LEMMA SetMtip == ASSUME NEW m \in Mip, NEW b \in BOOLEAN, NEW n, n = [m EXCEPT !.mtip = b]
                 PROVE  n \in Mip /\ n.mtip = b
  BY DEF Mip

\* Every step of the signal handler and of the main thread, interleaved as they
\* may be, keeps the invariant: a stale t_now or t_mip is the only thing that a
\* handler leaves behind, and only Deterministic lets it matter.
LEMMA ClintNext == ASSUME Compares \subseteq Int, ClintInv, [CL!Next]_(CL!vars) PROVE ClintInv'
<1> USE DEF ClintInv, Mip
<1>1. CASE CL!Tick BY <1>1 DEF CL!Tick
<1>2. CASE CL!alarm_sig_handler 
  <2>1. (now >= mtimecmp) \in BOOLEAN OBVIOUS
  <2>2. mip' \in Mip /\ mip'.mtip = (now >= mtimecmp)
    BY <1>2, <2>1, SetMtip DEF CL!alarm_sig_handler, CL!update_clint
  <2> QED BY <1>2, <2>2 DEF CL!alarm_sig_handler, CL!update_clint
<1>3. CASE CL!StartRead BY <1>3 DEF CL!StartRead
<1>4. ASSUME NEW c \in Compares, CL!StartCompare(c) PROVE ClintInv' BY <1>4 DEF CL!StartCompare
<1>5. CASE CL!StartCsr BY <1>5 DEF CL!StartCsr
<1>6. CASE CL!GetTime BY <1>6 DEF CL!GetTime
<1>7. CASE CL!SetTime BY <1>7 DEF CL!SetTime
<1>8. CASE CL!LoadMip 
  <2>1. (mtime >= mtimecmp) \in BOOLEAN OBVIOUS
  <2>2. t_mip' \in Mip /\ t_mip'.mtip = (mtime >= mtimecmp)
    BY <1>8, <2>1, SetMtip DEF CL!LoadMip
  <2> QED BY <1>8, <2>2 DEF CL!LoadMip
<1>9. CASE CL!StoreMip BY <1>9 DEF CL!StoreMip
<1>10. CASE CL!Value BY <1>10 DEF CL!Value
<1>11. CASE CL!StoreCsr BY <1>11 DEF CL!StoreCsr
<1>12. CASE UNCHANGED CL!vars BY <1>12 DEF CL!vars
<1> QED BY <1>1, <1>2, <1>3, <1>4, <1>5, <1>6, <1>7, <1>8, <1>9, <1>10, <1>11, <1>12 DEF CL!Next, CL!Steps

\* The guest's time never runs backwards and the timer interrupt is not pending
\* before its time, with the handler of SIGVTALRM between any two steps of
\* clint_io_handler and of a write to mip (isa/riscv64/clint.c).
THEOREM TimerIsSound == ASSUME Compares \subseteq Int PROVE CL!Spec => []CL!TimerSound
<1>1. ClintInv => CL!TimerSound
  BY DEF ClintInv, CL!TimerSound, CL!TimeForward, CL!NotEarly
<1>2. CL!Init => ClintInv BY ClintInit
<1>3. ClintInv /\ [CL!Next]_(CL!vars) => ClintInv' BY ClintNext
<1> QED BY <1>1, <1>2, <1>3, PTL DEF CL!Spec

-----------------------------------------------------------------------------
\* Rings of N slots: the values from slot f to slot r. Wrapped hides the remainder
\* from provers that would try to reason about it.
Wrapped(x, N) == x % N
RingOf(queue, f, r, N) == [i \in 1 .. Wrapped(r - f + N, N) |-> queue[Wrapped(f + i - 1, N)]]

\* A ring of N slots with values in V.
IsRing(queue, f, r, N, V) ==
  N \in Nat \ {0} /\ f \in 0 .. N - 1 /\ r \in 0 .. N - 1 /\ queue \in [0 .. N - 1 -> V]

\* q is queue with c in slot r.
IsPut(queue, q, r, c, N, V) ==
  q \in [0 .. N - 1 -> V] /\ q[r] = c /\ \A i \in 0 .. N - 1 : i # r => q[i] = queue[i]

\* Indices of a ring go round once.
LEMMA Wrap ==
  ASSUME NEW N \in Nat \ {0}, NEW x \in 0 .. 2 * N - 1
  PROVE  /\ Wrapped(x, N) = IF x < N THEN x ELSE x - N
         /\ Wrapped(x, N) \in 0 .. N - 1
<1>1. CASE x < N BY <1>1 DEF Wrapped
<1>2. CASE x >= N
  <2>1. x = 1 * N + (x - N) /\ x - N \in 0 .. N - 1 BY <1>2
  <2>2. x \div N = 1 BY <2>1
  <2>3. x % N = x - N * (x \div N) BY <2>1
  <2> QED BY <1>2, <2>2, <2>3 DEF Wrapped
<1> QED BY <1>1, <1>2

\* The number of values in a ring.
LEMMA RingLen ==
  ASSUME NEW N \in Nat \ {0}, NEW f \in 0 .. N - 1, NEW r \in 0 .. N - 1
  PROVE  /\ Wrapped(r - f + N, N) \in 0 .. N - 1
         /\ Wrapped(r - f + N, N) = IF f <= r THEN r - f ELSE r - f + N
<1>1. r - f + N \in 0 .. 2 * N - 1 OBVIOUS
<1> QED BY <1>1, Wrap

\* The slot of the i-th value of a ring.
LEMMA RingSlot ==
  ASSUME NEW N \in Nat \ {0}, NEW f \in 0 .. N - 1, NEW i \in 1 .. N
  PROVE  /\ Wrapped(f + i - 1, N) \in 0 .. N - 1
         /\ Wrapped(f + i - 1, N) = IF f + i - 1 < N THEN f + i - 1 ELSE f + i - 1 - N
<1>1. f + i - 1 \in 0 .. 2 * N - 1 OBVIOUS
<1> QED BY <1>1, Wrap

\* The slot after r.
LEMMA RingNext ==
  ASSUME NEW N \in Nat \ {0}, NEW r \in 0 .. N - 1
  PROVE  /\ Wrapped(r + 1, N) \in 0 .. N - 1
         /\ Wrapped(r + 1, N) = IF r + 1 < N THEN r + 1 ELSE r + 1 - N
<1>1. r + 1 \in 0 .. 2 * N - 1 OBVIOUS
<1> QED BY <1>1, Wrap

\* What a ring holds is a sequence shorter than the ring.
LEMMA RingType ==
  ASSUME NEW N, NEW f, NEW r, NEW queue, NEW V, IsRing(queue, f, r, N, V)
  PROVE  /\ Wrapped(r - f + N, N) \in 0 .. N - 1
         /\ Wrapped(r - f + N, N) = IF f <= r THEN r - f ELSE r - f + N
         /\ RingOf(queue, f, r, N) \in Seq(V)
         /\ Len(RingOf(queue, f, r, N)) = Wrapped(r - f + N, N)
         /\ f = r => RingOf(queue, f, r, N) = <<>>
         /\ \A i \in 1 .. Wrapped(r - f + N, N) : queue[Wrapped(f + i - 1, N)] \in V
<1> USE DEF IsRing
<1>1. Wrapped(r - f + N, N) \in 0 .. N - 1 /\ Wrapped(r - f + N, N) = IF f <= r THEN r - f ELSE r - f + N
  BY RingLen, Zenon
<1> DEFINE n == Wrapped(r - f + N, N)
<1>2. n \in Nat /\ (f = r => n = 0) BY <1>1
<1>3. RingOf(queue, f, r, N) = [i \in 1 .. n |-> queue[Wrapped(f + i - 1, N)]] BY DEF RingOf
<1> HIDE DEF n
<1>4. ASSUME NEW i \in 1 .. n PROVE queue[Wrapped(f + i - 1, N)] \in V
  <2>1. i \in 1 .. N BY <1>1 DEF n
  <2> QED BY <2>1, RingSlot
<1>5. RingOf(queue, f, r, N) \in Seq(V) /\ Len(RingOf(queue, f, r, N)) = n BY <1>2, <1>3, <1>4
<1> QED BY <1>1, <1>2, <1>3, <1>4, <1>5 DEF n

\* A value put in the slot at r is appended, unless the ring is full.
LEMMA RingPut ==
  ASSUME NEW N, NEW f, NEW r, NEW queue, NEW V, IsRing(queue, f, r, N, V),
         NEW c \in V, NEW q, NEW s,
         IsPut(queue, q, r, c, N, V), s = Wrapped(r + 1, N), s # f
  PROVE  /\ IsRing(q, f, s, N, V)
         /\ RingOf(q, f, s, N) = Append(RingOf(queue, f, r, N), c)
<1> DEFINE n == Wrapped(r - f + N, N)
           m == Wrapped(s - f + N, N)
           old == RingOf(queue, f, r, N)
           new == RingOf(q, f, s, N)
<1>0. N \in Nat \ {0} /\ f \in 0 .. N - 1 /\ r \in 0 .. N - 1 /\ queue \in [0 .. N - 1 -> V]
  BY DEF IsRing
<1>10. q \in [0 .. N - 1 -> V] /\ q[r] = c /\ \A i \in 0 .. N - 1 : i # r => q[i] = queue[i] BY DEF IsPut
<1>1. s \in 0 .. N - 1 /\ s = IF r + 1 < N THEN r + 1 ELSE r + 1 - N BY <1>0, RingNext
<1>2. IsRing(q, f, s, N, V) BY <1>0, <1>1, <1>10 DEF IsRing
<1>3. /\ n \in 0 .. N - 1 /\ n = IF f <= r THEN r - f ELSE r - f + N
      /\ old \in Seq(V) /\ Len(old) = n
  BY RingType
<1>4. /\ m \in 0 .. N - 1 /\ m = IF f <= s THEN s - f ELSE s - f + N
      /\ new \in Seq(V) /\ Len(new) = m
  BY <1>2, RingType
<1>5. old = [i \in 1 .. n |-> queue[Wrapped(f + i - 1, N)]] /\ new = [i \in 1 .. m |-> q[Wrapped(f + i - 1, N)]]
  BY DEF RingOf
<1> HIDE DEF n, m, old, new
<1>6. m = n + 1
  <2>1. CASE r + 1 < N BY <2>1, <1>0, <1>1, <1>3, <1>4
  <2>2. CASE r + 1 >= N BY <2>2, <1>0, <1>1, <1>3, <1>4
  <2> QED BY <2>1, <2>2, <1>0
<1>7. ASSUME NEW i \in 1 .. m PROVE new[i] = Append(old, c)[i]
  <2>1. i \in 1 .. N BY <1>0, <1>4
  <2>2. Wrapped(f + i - 1, N) \in 0 .. N - 1
        /\ Wrapped(f + i - 1, N) = IF f + i - 1 < N THEN f + i - 1 ELSE f + i - 1 - N
    BY <1>0, <2>1, RingSlot
  <2>3. CASE i \in 1 .. n
    <3>1. Wrapped(f + i - 1, N) # r BY <2>2, <2>3, <1>0, <1>3
    <3>2. new[i] = old[i] BY <1>0, <1>10, <1>5, <2>2, <2>3, <3>1
    <3> QED BY <1>3, <2>3, <3>2, AppendProperties
  <2>4. CASE i = n + 1
    <3>1. Wrapped(f + i - 1, N) = r BY <2>2, <2>4, <1>0, <1>3
    <3>2. new[i] = c BY <1>0, <1>10, <1>5, <3>1
    <3> QED BY <1>3, <2>4, <3>2, AppendProperties
  <2> QED BY <2>3, <2>4, <1>3, <1>6
<1>8. Append(old, c) \in Seq(V) /\ Len(Append(old, c)) = m BY <1>3, <1>6, AppendProperties
<1>9. new = Append(old, c) BY <1>4, <1>7, <1>8, SeqEqual
<1> QED BY <1>2, <1>9 DEF old, new

\* Taking the value at f takes the head.
LEMMA RingGet ==
  ASSUME NEW N, NEW f, NEW r, NEW queue, NEW V, IsRing(queue, f, r, N, V), f # r
  PROVE  /\ Wrapped(f + 1, N) \in 0 .. N - 1
         /\ Wrapped(r - Wrapped(f + 1, N) + N, N) = Wrapped(r - f + N, N) - 1
         /\ RingOf(queue, f, r, N) # <<>>
         /\ Head(RingOf(queue, f, r, N)) = queue[f]
         /\ queue[f] \in V
         /\ RingOf(queue, Wrapped(f + 1, N), r, N) = Tail(RingOf(queue, f, r, N))
<1>13. N \in Nat \ {0} /\ f \in 0 .. N - 1 /\ r \in 0 .. N - 1 /\ queue \in [0 .. N - 1 -> V]
  BY DEF IsRing
<1> DEFINE n == Wrapped(r - f + N, N)
           g == Wrapped(f + 1, N)
           m == Wrapped(r - g + N, N)
           rr == RingOf(queue, f, r, N)
<1>1. g \in 0 .. N - 1 /\ g = IF f + 1 < N THEN f + 1 ELSE f + 1 - N BY <1>13, RingNext, Zenon
<1>0. n \in 0 .. N - 1 /\ n = IF f <= r THEN r - f ELSE r - f + N BY <1>13, RingLen, Zenon
<1>2. n \in 1 .. N - 1 /\ n = IF f <= r THEN r - f ELSE r - f + N
  <2> HIDE DEF n
  <2> QED BY <1>13, <1>0
<1> HIDE DEF g
<1>3. m \in 0 .. N - 1 /\ m = IF g <= r THEN r - g ELSE r - g + N BY <1>13, <1>1, RingLen, Zenon
<1>4. rr = [i \in 1 .. n |-> queue[Wrapped(f + i - 1, N)]] BY <1>13 DEF RingOf
<1>5. RingOf(queue, g, r, N) = [i \in 1 .. m |-> queue[Wrapped(g + i - 1, N)]] BY <1>13 DEF RingOf
<1>6. rr \in Seq(V) /\ Len(rr) = n BY <1>13, RingType
<1> HIDE DEF n, m, rr
<1>7. m = n - 1 BY <1>13, <1>1, <1>2, <1>3
<1>8. rr # <<>> /\ Head(rr) = rr[1]
  <2>1. rr # <<>> BY <1>13, <1>2, <1>6
  <2>2. Head(rr) = rr[1] BY <1>13, <2>1, <1>6
  <2> QED BY <1>13, <2>1, <2>2
<1>9. Wrapped(f + 1 - 1, N) = f
  <2>1. 1 \in 1 .. N BY <1>13
  <2>2. Wrapped(f + 1 - 1, N) = IF f + 1 - 1 < N THEN f + 1 - 1 ELSE f + 1 - 1 - N BY <1>13, <2>1, RingSlot, Zenon
  <2> QED BY <1>13, <2>2
<1>10. rr[1] = queue[f] /\ queue[f] \in V BY <1>13, <1>2, <1>4, <1>6, <1>9
<1>11. ASSUME NEW i \in 1 .. m PROVE queue[Wrapped(g + i - 1, N)] = rr[i + 1]
  <2>1. Wrapped(g + i - 1, N) = IF g + i - 1 < N THEN g + i - 1 ELSE g + i - 1 - N
    <3>1. i \in 1 .. N BY <1>13, <1>3
    <3> QED BY <1>13, <3>1, <1>1, RingSlot, Zenon
  <2>2. Wrapped(f + (i + 1) - 1, N) = IF f + (i + 1) - 1 < N THEN f + (i + 1) - 1 ELSE f + (i + 1) - 1 - N
    <3>1. i + 1 \in 1 .. N BY <1>13, <1>2, <1>3, <1>7
    <3> QED BY <1>13, <3>1, RingSlot, Zenon
  <2>3. Wrapped(g + i - 1, N) = Wrapped(f + (i + 1) - 1, N) BY <1>13, <2>1, <2>2, <1>1, <1>2, <1>3, <1>7
  <2>4. i + 1 \in 1 .. n BY <1>13, <1>7, <1>2
  <2>5. rr[i + 1] = queue[Wrapped(f + (i + 1) - 1, N)] BY <1>13, <1>4, <2>4
  <2> QED BY <1>13, <2>3, <2>5
<1>12. RingOf(queue, g, r, N) = Tail(rr)
  <2>1. ASSUME NEW i \in 1 .. m PROVE queue[Wrapped(g + i - 1, N)] \in V
    <3>1. i + 1 \in 1 .. Len(rr) BY <1>13, <1>2, <1>3, <1>6, <1>7
    <3> QED BY <1>13, <3>1, <1>6, <1>11, ElementOfSeq
  <2>2. RingOf(queue, g, r, N) \in Seq(V) /\ Len(RingOf(queue, g, r, N)) = m
    <3>1. IsRing(queue, g, r, N, V) BY <1>13, <1>1 DEF IsRing
    <3> QED BY <3>1, RingType DEF m
  <2>3. Tail(rr) \in Seq(V) /\ Len(Tail(rr)) = m /\ \A i \in 1 .. m : Tail(rr)[i] = rr[i + 1]
    BY <1>13, <1>6, <1>7, <1>8, HeadTailProperties
  <2>4. \A i \in 1 .. m : RingOf(queue, g, r, N)[i] = Tail(rr)[i] BY <1>13, <1>5, <1>11, <2>3
  <2> QED BY <1>13, <2>2, <2>3, <2>4, SeqEqual
<1> QED BY <1>13, <1>1, <1>7, <1>8, <1>10, <1>12 DEF g, m, n, rr

\* The keys in the ring of Keyboard.
LEMMA KeyRing ==
  ASSUME KEY_QUEUE_LEN \in Nat \ {0}
  PROVE  KB!InRing = IF state = "DEAD" THEN <<>> ELSE RingOf(key_queue, key_f, key_r, KEY_QUEUE_LEN)
  BY DEF KB!InRing, RingOf, Wrapped

\* The key queue starts empty.
LEMMA KeyInit == ASSUME KEY_QUEUE_LEN \in Nat \ {0} PROVE KB!Init => KB!TypeOK /\ KB!C!Init
<1> SUFFICES ASSUME KB!Init PROVE KB!TypeOK /\ KB!C!Init OBVIOUS
<1>1. KB!TypeOK BY DEF KB!Init, KB!TypeOK, KB!Slots
<1>2. key_f \in 0 .. KEY_QUEUE_LEN - 1 /\ key_f = key_r /\ state # "DEAD" BY DEF KB!Init
<1>3. RingOf(key_queue, key_f, key_r, KEY_QUEUE_LEN) = <<>>
  <2>1. Wrapped(key_r - key_f + KEY_QUEUE_LEN, KEY_QUEUE_LEN) = 0 BY <1>2, RingLen
  <2> QED BY <2>1 DEF RingOf
<1> QED BY <1>1, <1>2, <1>3, KeyRing DEF KB!Init, KB!C!Init

\* Every step of the loop, of the signal handler, of the host and of the guest is
\* a step of the channel or leaves it alone.
LEMMA KeyNext ==
  ASSUME KEY_QUEUE_LEN \in Nat \ {0}, KB!TypeOK, [KB!Next]_(KB!vars)
  PROVE  KB!TypeOK' /\ KB!C!Step
<1> DEFINE N == KEY_QUEUE_LEN
           V == KB!Codes \cup {KB!KEY_NONE}
           ring == RingOf(key_queue, key_f, key_r, N)
<1> USE DEF KB!Slots
<1>0. IsRing(key_queue, key_f, key_r, N, V) BY DEF KB!TypeOK, IsRing
<1>9. key_queue \in [0 .. N - 1 -> V] /\ key_f \in 0 .. N - 1 /\ key_r \in 0 .. N - 1 BY DEF KB!TypeOK
<1>1. ring \in Seq(V) /\ Len(ring) \in 0 .. N - 1 /\ Len(ring) = Wrapped(key_r - key_f + N, N)
  <2> HIDE DEF V
  <2> QED BY <1>0, RingType
<1>2. ASSUME UNCHANGED <<key_queue, key_f, key_r, port, state>> PROVE KB!TypeOK' /\ KB!C!Step
  <2>1. UNCHANGED <<KB!InRing, port, (state = "DEAD")>> BY <1>2 DEF KB!InRing
  <2> QED BY <1>2, <2>1 DEF KB!TypeOK, KB!C!Step
<1>3. ASSUME state = "RUNNING", NEW c \in KB!Codes, KB!send_key(c), UNCHANGED <<key_f, port>>
      PROVE  KB!TypeOK' /\ KB!C!Step
  <2>1. key_queue' = [key_queue EXCEPT ![key_r] = c] /\ key_r' = Wrapped(key_r + 1, N)
        /\ state' = IF key_r' = key_f THEN "DEAD" ELSE state
    BY <1>3 DEF KB!send_key, Wrapped
  <2>2. key_r' \in 0 .. N - 1 BY <2>1, <1>9, RingNext
  <2>3. KB!TypeOK' BY <1>9, <1>3, <2>1, <2>2 DEF KB!TypeOK
  <2>4. CASE key_r' = key_f
    <3>1. KB!InRing' = <<>> /\ state' = "DEAD" BY <2>1, <2>4 DEF KB!InRing
    <3> QED BY <2>3, <3>1, <1>3 DEF KB!C!Step, KB!C!Next, KB!C!Fail
  <2>5. CASE key_r' # key_f
    <3>1. IsRing(key_queue', key_f, key_r', N, V) /\ RingOf(key_queue', key_f, key_r', N) = Append(ring, c)
      <4>1. c \in V OBVIOUS
      <4> HIDE DEF V
      <4>2. IsPut(key_queue, key_queue', key_r, c, N, V) BY <1>9, <2>1, <4>1 DEF IsPut
      <4>3. key_r' = Wrapped(key_r + 1, N) /\ key_r' # key_f BY <2>1, <2>5
      <4> QED BY <1>0, <4>1, <4>2, <4>3, RingPut
    <3>2. state' = state /\ state # "DEAD" BY <1>3, <2>1, <2>5
    <3>3. KB!InRing = ring /\ KB!InRing' = Append(ring, c) BY <1>3, <3>1, <3>2 DEF KB!InRing, RingOf, Wrapped
    <3>4. Append(ring, c) = ring \o <<c>> BY <1>1, AppendIsConcat
    <3>5. Len(ring) + 1 <= N - 1
      <4> HIDE DEF V
      <4>1. Len(RingOf(key_queue', key_f, key_r', N)) \in 0 .. N - 1 BY <3>1, RingType
      <4>2. c \in V BY DEF V
      <4> QED BY <1>1, <3>1, <4>1, <4>2, AppendProperties
    <3>6. <<c>> \in KB!C!Puts
      <4>1. 1 \in 1 .. N - 1 /\ <<c>> \in [1 .. 1 -> KB!Codes] BY <1>1, <3>5
      <4> QED BY <4>1 DEF KB!C!Puts
    <3>7. KB!C!Put(<<c>>)
      BY <1>1, <1>3, <3>2, <3>3, <3>4, <3>5 DEF KB!C!Put
    <3> QED BY <2>3, <3>6, <3>7 DEF KB!C!Step, KB!C!Next
  <2> QED BY <2>4, <2>5
<1>4. CASE KB!ReadKey
  <2>1. CASE key_f # key_r
    <3>1. port' = key_queue[key_f] /\ key_f' = Wrapped(key_f + 1, N) /\ state # "DEAD"
          /\ UNCHANGED <<state, key_queue, key_r>>
      BY <1>4, <2>1 DEF KB!ReadKey, Wrapped
    <3>2. /\ key_f' \in 0 .. N - 1 /\ ring # <<>> /\ Head(ring) = key_queue[key_f]
          /\ key_queue[key_f] \in V /\ RingOf(key_queue, key_f', key_r, N) = Tail(ring)
      <4> HIDE DEF V
      <4>1. /\ Wrapped(key_f + 1, N) \in 0 .. N - 1 /\ ring # <<>> /\ Head(ring) = key_queue[key_f]
            /\ key_queue[key_f] \in V /\ RingOf(key_queue, Wrapped(key_f + 1, N), key_r, N) = Tail(ring)
        BY <1>0, <2>1, RingGet
      <4> QED BY <3>1, <4>1
    <3>3. KB!InRing = ring /\ KB!InRing' = Tail(ring) BY <3>1, <3>2 DEF KB!InRing, RingOf, Wrapped
    <3>4. KB!TypeOK' BY <1>9, <3>1, <3>2 DEF KB!TypeOK
    <3> QED BY <3>1, <3>2, <3>3, <3>4 DEF KB!C!Step, KB!C!Next, KB!C!Get
  <2>2. CASE key_f = key_r
    <3>1. port' = KB!KEY_NONE /\ UNCHANGED <<key_f, key_r, key_queue, state>> /\ state # "DEAD"
      BY <1>4, <2>2 DEF KB!ReadKey
    <3>2. UNCHANGED <<KB!InRing, (state = "DEAD")>> BY <3>1 DEF KB!InRing
    <3>3. KB!TypeOK' BY <3>1 DEF KB!TypeOK
    <3> QED BY <3>1, <3>2, <3>3 DEF KB!C!Step, KB!C!Next, KB!C!GetNothing
  <2> QED BY <2>1, <2>2
<1>5. CASE KB!Poll
  <2>1. CASE events = <<>> BY <1>2, <1>5, <2>1 DEF KB!Poll
  <2>2. CASE events # <<>> /\ Head(events) = KB!SDL_QUIT
    <3>1. state # "DEAD" /\ state' # "DEAD" /\ UNCHANGED <<key_queue, key_f, key_r, port>> BY <1>5, <2>2 DEF KB!Poll
    <3>2. UNCHANGED <<KB!InRing, port, (state = "DEAD")>> BY <3>1 DEF KB!InRing
    <3> QED BY <3>1, <3>2 DEF KB!TypeOK, KB!C!Step
  <2>3. CASE events # <<>> /\ Head(events) # KB!SDL_QUIT
    <3>1. KB!send_key(Head(events)) /\ UNCHANGED <<key_f, port>> BY <1>5, <2>3 DEF KB!Poll
    <3>2. CASE state = "RUNNING" /\ Head(events) \in KB!Codes BY <1>3, <3>1, <3>2
    <3>3. CASE ~(state = "RUNNING" /\ Head(events) \in KB!Codes)
      BY <1>2, <3>1, <3>3 DEF KB!send_key
    <3> QED BY <3>2, <3>3
  <2> QED BY <2>1, <2>2, <2>3
<1> QED BY <1>2, <1>4, <1>5 DEF KB!Next, KB!MainThread, KB!HostEvent, KB!alarm_sig_handler, KB!TestFlag,
    KB!Update, KB!WriteSync, KB!EndOfBatch, KB!Ended, KB!vars

\* The key queue of device/keyboard.c is a channel of KEY_QUEUE_LEN - 1 keys for
\* every length: send_key stops the emulator before a key could be overwritten,
\* and i8042_data_io_handler reads the keys in order.
THEOREM KeyboardImplementsChannel ==
  ASSUME KEY_QUEUE_LEN \in Nat \ {0} PROVE KB!Spec => KB!KeyboardIsChannel
<1>1. KB!Spec => [](KB!TypeOK) BY KeyInit, KeyNext, PTL DEF KB!Spec
<1>2. KB!TypeOK /\ [KB!Next]_(KB!vars) => KB!C!Step BY KeyNext
<1> QED BY <1>1, <1>2, KeyInit, PTL DEF KB!Spec, KB!KeyboardIsChannel, KB!C!Spec, KB!C!Step

-----------------------------------------------------------------------------
\* Every set of naturals has a least element: the form of induction used here.
LEMMA Least == ASSUME NEW T, T \subseteq Nat, T # {} PROVE \E x \in T : \A y \in T : x <= y
<1> DEFINE R == {ss \in Nat \X Nat : ss[1] < ss[2]}
<1>1. IsWellFoundedOn(R, Nat) BY NatLessThanWellFounded DEF OpToRel
<1> HIDE DEF R
<1>2. PICK x \in T : \A y \in T : ~(<<y, x>> \in R) BY <1>1, WFMin
<1>3. \A y \in T : ~ (y < x) BY <1>2 DEF R
<1> QED BY <1>3

\* The recursion of Enqueued is well defined.
LEMMA EnqueuedIs ==
  ASSUME NEW ring, NEW s \in Seq(Chars)
  PROVE  SE!Enqueued(ring, s)
           = [k \in 0 .. Len(s) |-> IF k = 0 THEN ring ELSE SE!serial_enqueue(SE!Enqueued(ring, s)[k - 1], s[k])]
<1> DEFINE W(f, k) == IF k = 0 THEN ring ELSE SE!serial_enqueue(f[k - 1], s[k])
           G(f, n) == f = [k \in 0 .. n |-> W(f, k)]
           C == {n \in Nat : ~ \E f : G(f, n)}
<1>1. C = {}
  <2> SUFFICES ASSUME C # {} PROVE FALSE OBVIOUS
  <2>1. PICK n \in C : \A y \in C : n <= y BY Least
  <2>2. \A f, g : W(f, 0) = W(g, 0) OBVIOUS
  <2> HIDE DEF W
  <2>3. n # 0
    <3> DEFINE g == [k \in 0 .. 0 |-> W(<<>>, 0)]
    <3>1. G(g, 0) BY <2>2
    <3> QED BY <3>1
  <2>4. n - 1 \in Nat /\ n - 1 \notin C BY <2>1, <2>3
  <2>5. PICK f : G(f, n - 1) BY <2>4
  <2> DEFINE g == [k \in 0 .. n |-> IF k = n THEN W(f, n) ELSE f[k]]
  <2>6. \A k \in 1 .. n : g[k - 1] = f[k - 1] BY <2>1, <2>5
  <2>7. \A k \in 1 .. n : W(g, k) = W(f, k) BY <2>6 DEF W
  <2>8. \A k \in 0 .. n : g[k] = W(g, k)
    <3> SUFFICES ASSUME NEW k \in 0 .. n PROVE g[k] = W(g, k) OBVIOUS
    <3>1. CASE k = n BY <2>1, <2>3, <2>7, <3>1
    <3>2. CASE k # n
      <4>1. k \in 0 .. n - 1 BY <2>1, <3>2
      <4>2. g[k] = W(f, k) BY <2>5, <3>2, <4>1
      <4> QED BY <2>1, <2>2, <2>7, <4>1, <4>2
    <3> QED BY <3>1, <3>2
  <2>9. G(g, n) BY <2>8
  <2> QED BY <2>9, <2>1
<1>2. \E f : G(f, Len(s)) BY <1>1
<1>3. SE!Enqueued(ring, s) = CHOOSE f : G(f, Len(s)) BY DEF SE!Enqueued
<1>4. G(CHOOSE f : G(f, Len(s)), Len(s)) BY <1>2, Zenon
<1> QED BY <1>3, <1>4

Slot == Chars \cup {0}

\* Characters put in an empty ring that is large enough are in it, in order.
LEMMA EnqueuesAll ==
  ASSUME NEW s \in Seq(Chars), NEW empty,
         IsRing(empty, fifoF, fifoF, QUEUE_SIZE, Slot), Len(s) < QUEUE_SIZE
  PROVE  LET all == SE!EnqueueAll(SE!Ring(empty, fifoF), s)
         IN  IsRing(all.queue, fifoF, all.r, QUEUE_SIZE, Slot) /\ RingOf(all.queue, fifoF, all.r, QUEUE_SIZE) = s
<1> DEFINE N == QUEUE_SIZE
           after == SE!Enqueued(SE!Ring(empty, fifoF), s)
           Holds(k) == /\ IsRing(after[k].queue, fifoF, after[k].r, N, Slot)
                       /\ RingOf(after[k].queue, fifoF, after[k].r, N) = SubSeq(s, 1, k)
           C == {k \in 0 .. Len(s) : ~ Holds(k)}
<1>1. after = [k \in 0 .. Len(s) |-> IF k = 0 THEN SE!Ring(empty, fifoF) ELSE SE!serial_enqueue(after[k - 1], s[k])]
  BY EnqueuedIs
<1>2. N \in Nat \ {0} /\ fifoF \in 0 .. N - 1 /\ Len(s) \in 0 .. N - 1 BY DEF IsRing
<1>3. Holds(0)
  <2>1. after[0] = [queue |-> empty, r |-> fifoF] BY <1>1, <1>2 DEF SE!Ring
  <2>2. RingOf(empty, fifoF, fifoF, N) = <<>> BY RingType
  <2>3. SubSeq(s, 1, 0) = <<>> BY SubSeqEmpty
  <2> QED BY <2>1, <2>2, <2>3
<1>4. ASSUME NEW k \in 1 .. Len(s), Holds(k - 1) PROVE Holds(k)
  <2> DEFINE old == after[k - 1].queue
             r == after[k - 1].r
             next == Wrapped(r + 1, N)
             c == s[k]
  <2>1. after[k] = SE!serial_enqueue(after[k - 1], c) BY <1>1, <1>2
  <2>2. IsRing(old, fifoF, r, N, Slot) /\ RingOf(old, fifoF, r, N) = SubSeq(s, 1, k - 1) BY <1>4
  <2>3. c \in Slot /\ c \in Chars BY DEF Slot
  <2> HIDE DEF after, old, r, c
  <2>4. r \in 0 .. N - 1 /\ old \in [0 .. N - 1 -> Slot] BY <2>2 DEF IsRing
  <2>5. Len(SubSeq(s, 1, k - 1)) = k - 1 OBVIOUS
  <2>6. Wrapped(r - fifoF + N, N) = k - 1 BY <2>2, <2>5, RingType
  <2>7. next # fifoF
    <3>1. k - 1 = IF fifoF <= r THEN r - fifoF ELSE r - fifoF + N BY <2>2, <2>6, RingType
    <3>2. next = IF r + 1 < N THEN r + 1 ELSE r + 1 - N BY <1>2, <2>4, RingNext
    <3> HIDE DEF next
    <3> QED BY <1>2, <2>4, <3>1, <3>2
  <2>8. after[k] = [queue |-> [old EXCEPT ![r] = c], r |-> next]
    BY <2>1, <2>7 DEF SE!serial_enqueue, SE!Ring, old, r, Wrapped
  <2>9. IsRing(after[k].queue, fifoF, after[k].r, N, Slot)
        /\ RingOf(after[k].queue, fifoF, after[k].r, N) = Append(SubSeq(s, 1, k - 1), c)
    <3> DEFINE new == after[k].queue
               end == after[k].r
    <3>1. new = [old EXCEPT ![r] = c] /\ end = next BY <2>8
    <3> HIDE DEF new, end
    <3>2. IsPut(old, new, r, c, N, Slot) BY <2>3, <2>4, <3>1 DEF IsPut
    <3>3. IsRing(new, fifoF, end, N, Slot) /\ RingOf(new, fifoF, end, N) = Append(RingOf(old, fifoF, r, N), c)
      <4>1. end = Wrapped(r + 1, N) /\ end # fifoF BY <2>7, <3>1
      <4>2. IsRing(old, fifoF, r, N, Slot) BY <2>2
      <4>3. c \in Slot BY <2>3
      <4> HIDE DEF N
      <4> QED BY <4>1, <4>2, <4>3, <3>2, RingPut
    <3> QED BY <2>2, <3>3 DEF new, end
  <2>10. Append(SubSeq(s, 1, k - 1), c) = SubSeq(s, 1, k)
    <3>1. SubSeq(s, 1, k) = SubSeq(s, 1, k - 1) \o <<c>> BY SubSeqRecursiveSecond DEF c
    <3>2. SubSeq(s, 1, k - 1) \in Seq(Chars) OBVIOUS
    <3> QED BY <2>3, <3>1, <3>2, AppendIsConcat
  <2> QED BY <2>9, <2>10
<1>5. C = {}
  <2> SUFFICES ASSUME C # {} PROVE FALSE OBVIOUS
  <2>0. C \subseteq 0 .. Len(s) /\ \A k \in 0 .. Len(s) : k \notin C => Holds(k) OBVIOUS
  <2>01. \A k \in C : ~ Holds(k) OBVIOUS
  <2> HIDE DEF C, Holds
  <2>02. C \subseteq Nat BY <2>0, <1>2
  <2>1. PICK n \in C : \A y \in C : n <= y BY <2>02, Least
  <2>2. n # 0 => Holds(n - 1) BY <2>0, <2>1, <1>2
  <2> QED BY <1>3, <1>4, <2>0, <2>01, <2>1, <2>2, <1>2
<1>6. Holds(Len(s)) BY <1>5, <1>2
<1>7. SubSeq(s, 1, Len(s)) = s BY SubSeqFull
<1> QED BY <1>6, <1>7 DEF SE!EnqueueAll

\* The sizes of the code: 1024 slots, a buffer of 256 and a preset command that fits.
SerialConstants ==
  /\ QUEUE_SIZE \in Nat \ {0} /\ READ_MAX \in 1 .. QUEUE_SIZE
  /\ Preset \in Seq(Chars) /\ Len(Preset) < QUEUE_SIZE /\ MaxWritten \in Nat

\* What is in the ring, and the channel.
InFifo == RingOf(fifo, fifoF, fifoR, QUEUE_SIZE)
SerialInv ==
  /\ IsRing(fifo, fifoF, fifoR, QUEUE_SIZE, Slot)
  /\ pipe \in Seq(Chars) /\ written \in 0 .. MaxWritten
  /\ ~ dead => Len(InFifo) + Len(pipe) <= Len(Preset) + written
SerialQ == IF dead THEN <<>> ELSE InFifo \o pipe

\* The characters in the ring and those in the pipe.
LEMMA FifoType ==
  ASSUME SerialConstants, SerialInv
  PROVE  /\ InFifo \in Seq(Slot) /\ Len(InFifo) \in Nat /\ pipe \in Seq(Slot) /\ Len(pipe) \in Nat
         /\ fifoF = fifoR => InFifo = <<>>
<1>1. InFifo \in Seq(Slot) /\ (fifoF = fifoR => InFifo = <<>>) BY RingType DEF SerialInv, InFifo
<1>2. pipe \in Seq(Chars) BY DEF SerialInv
<1>3. pipe \in Seq(Slot) BY <1>2, SeqMonotonic DEF Slot
<1> QED BY <1>1, <1>3

\* The preset command is in the ring when the guest starts.
LEMMA SerialInit ==
  ASSUME SerialConstants PROVE SE!Init => SerialInv /\ SE!C!Init
<1> SUFFICES ASSUME SE!Init PROVE SerialInv /\ SE!C!Init OBVIOUS
<1> DEFINE N == QUEUE_SIZE
           blank == [i \in SE!Slots |-> 0]
           all == SE!EnqueueAll(SE!Ring(blank, 0), Preset)
<1>0. N \in Nat \ {0} /\ Preset \in Seq(Chars) /\ Len(Preset) \in 0 .. N - 1 /\ MaxWritten \in Nat
  BY DEF SerialConstants
<1>1. fifoF = 0 /\ pipe = <<>> /\ written = 0 /\ dead = FALSE /\ CH = SE!NoChar BY DEF SE!Init
<1>2. fifo = all.queue /\ fifoR = all.r BY DEF SE!Init
<1>3. IsRing(blank, fifoF, fifoF, N, Slot) BY <1>0, <1>1 DEF IsRing, Slot, SE!Slots
<1>4. all = SE!EnqueueAll(SE!Ring(blank, fifoF), Preset) BY <1>1
<1> HIDE DEF blank
<1>5. IsRing(all.queue, fifoF, all.r, N, Slot) /\ RingOf(all.queue, fifoF, all.r, N) = Preset
  BY <1>0, <1>3, <1>4, EnqueuesAll
<1> HIDE DEF all
<1>6. InFifo = Preset BY <1>2, <1>5 DEF InFifo
<1>7. SerialInv BY <1>0, <1>1, <1>2, <1>5, <1>6 DEF SerialInv
<1>8. SerialQ = Preset BY <1>0, <1>1, <1>6, ConcatEmptySeq DEF SerialQ
<1>9. Preset = <<>> \/ Preset \in SE!C!Puts
  <2>1. CASE Len(Preset) = 0 BY <2>1, <1>0
  <2>2. CASE Len(Preset) # 0
    <3>1. Preset \in [1 .. Len(Preset) -> Chars] BY <1>0
    <3>2. Len(Preset) \in 1 .. Len(Preset) + MaxWritten BY <1>0, <2>2
    <3> QED BY <3>1, <3>2 DEF SE!C!Puts
  <2> QED BY <2>1, <2>2
<1>10. SerialQ = IF dead THEN <<>> ELSE SE!InRing \o pipe BY DEF SerialQ, InFifo, SE!InRing, RingOf, Wrapped
<1> QED BY <1>1, <1>7, <1>8, <1>9, <1>10 DEF SE!C!Init

\* Every step of the host and of the guest is a step of the channel or leaves it
\* alone: reading LSR only moves characters from the pipe to the empty ring.
LEMMA SerialNext ==
  ASSUME SerialConstants, SerialInv, [SE!Next]_(SE!vars)
  PROVE  SerialInv' /\ SE!C!Step
<1> DEFINE N == QUEUE_SIZE
<1>0. /\ N \in Nat \ {0} /\ READ_MAX \in 1 .. N /\ MaxWritten \in Nat /\ Len(Preset) \in Nat
      /\ written \in 0 .. MaxWritten /\ pipe \in Seq(Chars)
  BY DEF SerialConstants, SerialInv
<1>1. SerialQ = (IF dead THEN <<>> ELSE SE!InRing \o pipe) BY DEF SerialQ, InFifo, SE!InRing, RingOf, Wrapped
<1>2. SerialQ' = (IF dead THEN <<>> ELSE SE!InRing \o pipe)' BY DEF SerialQ, InFifo, SE!InRing, RingOf, Wrapped
<1>3. IsRing(fifo, fifoF, fifoR, N, Slot) BY DEF SerialInv
<1>4. ASSUME UNCHANGED <<fifo, fifoF, fifoR, pipe, written, CH, dead>> PROVE SerialInv' /\ SE!C!Step
  <2>1. UNCHANGED InFifo BY <1>4 DEF InFifo
  <2>2. UNCHANGED SerialQ BY <1>4, <2>1 DEF SerialQ
  <2>3. SerialInv' BY <1>4, <2>1 DEF SerialInv
  <2> QED BY <1>1, <1>2, <1>4, <2>2, <2>3 DEF SE!C!Step
<1>5. ASSUME NEW c \in Chars, SE!HostWrite(c) PROVE SerialInv' /\ SE!C!Step
  <2>1. written < MaxWritten /\ pipe' = Append(pipe, c) /\ written' = written + 1
        /\ UNCHANGED <<fifo, fifoF, fifoR, CH, dead>>
    BY <1>5 DEF SE!HostWrite
  <2>2. UNCHANGED InFifo BY <2>1 DEF InFifo
  <2>3. pipe' \in Seq(Chars) /\ Len(pipe') = Len(pipe) + 1 BY <1>0, <2>1
  <2>4. SerialInv' BY <1>0, <2>1, <2>2, <2>3, FifoType DEF SerialInv
  <2>5. CASE dead BY <1>1, <1>2, <2>1, <2>4, <2>5 DEF SE!C!Step, SerialQ
  <2>6. CASE ~ dead
    <3>1. SerialQ = InFifo \o pipe /\ SerialQ' = InFifo \o Append(pipe, c) BY <2>1, <2>2, <2>6 DEF SerialQ
    <3>2. Append(pipe, c) = pipe \o <<c>> BY <1>0, AppendIsConcat
    <3>3. InFifo \o (pipe \o <<c>>) = (InFifo \o pipe) \o <<c>>
      <4>1. <<c>> \in Seq(Slot) BY DEF Slot
      <4> QED BY <4>1, FifoType, ConcatAssociative
    <3>4. Len(SerialQ) = Len(InFifo) + Len(pipe) BY <3>1, FifoType, ConcatProperties
    <3>5. Len(SerialQ) + 1 <= Len(Preset) + MaxWritten BY <1>0, <2>1, <2>6, <3>4, FifoType DEF SerialInv
    <3>6. <<c>> \in SE!C!Puts
      <4>1. 1 \in 1 .. Len(Preset) + MaxWritten /\ <<c>> \in [1 .. 1 -> Chars] BY <1>0, <2>1
      <4> QED BY <4>1 DEF SE!C!Puts
    <3>7. Len(<<c>>) = 1 OBVIOUS
    <3>8. SerialQ' = SerialQ \o <<c>> BY <3>1, <3>2, <3>3
    <3>9. SE!C!Put(<<c>>)
      BY <1>1, <1>2, <2>1, <2>6, <3>5, <3>7, <3>8 DEF SE!C!Put
    <3> QED BY <2>4, <3>6, <3>9 DEF SE!C!Step, SE!C!Next
  <2> QED BY <2>5, <2>6
<1>6. CASE SE!ReadCH
  <2>1. CASE fifoF # fifoR
    <3>1. CH' = fifo[fifoF] /\ fifoF' = Wrapped(fifoF + 1, N) /\ ~ dead
          /\ UNCHANGED <<fifo, fifoR, pipe, written, dead>>
      BY <1>6, <2>1 DEF SE!ReadCH, Wrapped
    <3>2. /\ fifoF' \in 0 .. N - 1 /\ InFifo # <<>> /\ Head(InFifo) = fifo[fifoF] /\ InFifo' = Tail(InFifo)
      BY <1>3, <2>1, <3>1, RingGet DEF InFifo
    <3>3. IsRing(fifo, fifoF', fifoR, N, Slot) BY <1>3, <3>2 DEF IsRing
    <3>4. Tail(InFifo) \in Seq(Slot) /\ Len(Tail(InFifo)) = Len(InFifo) - 1
      BY <3>2, FifoType, HeadTailProperties
    <3>5. SerialInv' BY <1>0, <3>1, <3>2, <3>3, <3>4, FifoType DEF SerialInv
    <3>6. SerialQ = InFifo \o pipe /\ SerialQ' = Tail(InFifo) \o pipe BY <3>1, <3>2 DEF SerialQ
    <3>7. InFifo \o pipe # <<>> /\ Head(InFifo \o pipe) = Head(InFifo) /\ Tail(InFifo \o pipe) = Tail(InFifo) \o pipe
      <4> DEFINE x == InFifo
                 y == pipe
      <4>1. x \in Seq(Slot) /\ y \in Seq(Slot) /\ x # <<>> BY <3>2, FifoType
      <4> HIDE DEF x, y
      <4>2. x \o y # <<>> /\ Head(x \o y) = Head(x) BY <4>1
      <4>3. Tail(x \o y) = Tail(x) \o y
        <5>1. x \o y \in Seq(Slot) /\ Tail(x) \in Seq(Slot) BY <4>1
        <5>2. Tail(x \o y) \in Seq(Slot) /\ Tail(x) \o y \in Seq(Slot) BY <4>1, <4>2, <5>1
        <5>3. Len(Tail(x \o y)) = Len(Tail(x) \o y) BY <4>1, <4>2, <5>1
        <5>4. ASSUME NEW i \in 1 .. Len(Tail(x \o y)) PROVE Tail(x \o y)[i] = (Tail(x) \o y)[i]
          BY <4>1, <4>2, <5>1
        <5> QED BY <5>2, <5>3, <5>4, SeqEqual
      <4> QED BY <4>2, <4>3 DEF x, y
    <3> QED BY <1>1, <1>2, <3>1, <3>2, <3>5, <3>6, <3>7 DEF SE!C!Step, SE!C!Next, SE!C!Get
  <2>2. CASE fifoF = fifoR
    <3>1. CH' = SE!NoChar /\ ~ dead /\ UNCHANGED <<fifo, fifoF, fifoR, pipe, written, dead>>
      BY <1>6, <2>2 DEF SE!ReadCH
    <3>2. UNCHANGED InFifo BY <3>1 DEF InFifo
    <3>3. UNCHANGED SerialQ BY <3>1, <3>2 DEF SerialQ
    <3>4. SerialInv' BY <3>1, <3>2 DEF SerialInv
    <3> QED BY <1>1, <1>2, <3>1, <3>3, <3>4 DEF SE!C!Step, SE!C!Next, SE!C!GetNothing
  <2> QED BY <2>1, <2>2
<1>7. CASE SE!ReadLSR
  <2> DEFINE n == IF Len(pipe) < READ_MAX THEN Len(pipe) ELSE READ_MAX
             head == SubSeq(pipe, 1, n)
             filled == SE!EnqueueAll(SE!Ring(fifo, fifoR), head)
  <2>1. CASE fifoF # fifoR BY <1>4, <1>7, <2>1 DEF SE!ReadLSR
  <2>2. CASE fifoF = fifoR /\ n = READ_MAX
    <3>1. /\ pipe' = SubSeq(pipe, n + 1, Len(pipe)) /\ ~ dead /\ dead' = TRUE
          /\ UNCHANGED <<fifo, fifoF, fifoR, written, CH>>
      BY <1>7, <2>2 DEF SE!ReadLSR
    <3>2. pipe' \in Seq(Chars) BY <1>0, <3>1
    <3>3. SerialInv' BY <1>0, <1>3, <3>1, <3>2 DEF SerialInv
    <3>4. SerialQ' = <<>> BY <3>1 DEF SerialQ
    <3> QED BY <1>1, <1>2, <3>1, <3>3, <3>4 DEF SE!C!Step, SE!C!Next, SE!C!Fail
  <2>3. CASE fifoF = fifoR /\ n # READ_MAX
    <3>1. n = Len(pipe) /\ Len(pipe) < N BY <1>0, <2>3
    <3>2. /\ pipe' = SubSeq(pipe, n + 1, Len(pipe)) /\ ~ dead /\ fifo' = filled.queue /\ fifoR' = filled.r
          /\ UNCHANGED <<fifoF, written, CH, dead>>
      BY <1>7, <2>3 DEF SE!ReadLSR
    <3>3. head = pipe BY <1>0, <3>1, SubSeqFull
    <3>4. pipe' = <<>>
      <4>1. pipe' = SubSeq(pipe, Len(pipe) + 1, Len(pipe)) BY <3>1, <3>2
      <4>2. Len(pipe) + 1 \in Int /\ Len(pipe) \in Int /\ Len(pipe) < Len(pipe) + 1 BY <1>0
      <4> QED BY <4>1, <4>2, SubSeqEmpty
    <3>5. filled = SE!EnqueueAll(SE!Ring(fifo, fifoF), pipe) BY <2>3, <3>3
    <3>6. IsRing(fifo, fifoF, fifoF, N, Slot) BY <1>3, <2>3
    <3> HIDE DEF filled
    <3>7. IsRing(filled.queue, fifoF, filled.r, N, Slot) /\ RingOf(filled.queue, fifoF, filled.r, N) = pipe
      BY <1>0, <3>1, <3>5, <3>6, EnqueuesAll
    <3>8. InFifo' = pipe /\ InFifo = <<>> BY <2>3, <3>2, <3>7, FifoType DEF InFifo
    <3>9. SerialInv'
      <4>1. Len(InFifo) = 0 /\ Len(pipe') = 0 /\ pipe' \in Seq(Chars) BY <3>4, <3>8
      <4>2. Len(InFifo') + Len(pipe') <= Len(Preset) + written'
        <5>1. Len(InFifo) + Len(pipe) <= Len(Preset) + written BY <3>2 DEF SerialInv
        <5>2. Len(InFifo') = Len(pipe) /\ Len(pipe) \in Nat BY <1>0, <3>8
        <5>3. written' = written /\ written \in Nat /\ Len(Preset) \in Nat BY <1>0, <3>2
        <5>4. Len(InFifo') + Len(pipe') = Len(InFifo) + Len(pipe) BY <4>1, <5>2
        <5> QED BY <5>1, <5>3, <5>4
      <4> QED BY <1>0, <3>2, <3>7, <4>1, <4>2 DEF SerialInv
    <3>10. SerialQ' = pipe \o <<>> /\ SerialQ = <<>> \o pipe BY <3>2, <3>4, <3>8 DEF SerialQ
    <3>11. UNCHANGED SerialQ BY <1>0, <3>10, ConcatEmptySeq
    <3> QED BY <1>1, <1>2, <3>2, <3>9, <3>11 DEF SE!C!Step
  <2> QED BY <2>1, <2>2, <2>3
<1> QED BY <1>4, <1>5, <1>6, <1>7 DEF SE!Next, SE!vars

\* The serial port is one channel from the host's pipe to the character register,
\* for every size of ring that holds what one read() returns and the preset
\* command: serial_enqueue never drops a character (device/serial.c).
THEOREM SerialImplementsChannel ==
  ASSUME SerialConstants PROVE SE!Spec => SE!SerialIsChannel
<1>1. SE!Spec => []SerialInv BY SerialInit, SerialNext, PTL DEF SE!Spec
<1>2. SerialInv /\ [SE!Next]_(SE!vars) => SE!C!Step BY SerialNext
<1> QED BY <1>1, <1>2, SerialInit, PTL DEF SE!Spec, SE!SerialIsChannel, SE!C!Spec, SE!C!Step
=============================================================================
