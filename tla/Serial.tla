------------------------------- MODULE Serial -------------------------------
\* The serial port with an input FIFO (device/serial.c; uartlite.c and
\* uart_snps.c hold the same queue). The host writes to a named pipe; the guest
\* polls the line status register and reads the character register.
EXTENDS Integers, Sequences

CONSTANTS QUEUE_SIZE,
          READ_MAX,    \* the size of the buffer that read() fills: 256
          Chars,
          Preset,      \* debian_cmd, queued before the guest starts
          MaxWritten   \* bound: characters that the host writes

VARIABLES
  queue, f, r,
  pipe, written,       \* the named pipe, and how much went through it
  CH, LSR,             \* serial_base[0], and whether LSR_RX_READY is set in serial_base[5]
  dead                 \* an assertion failed

vars == <<queue, f, r, pipe, written, CH, LSR, dead>>

NoChar == 255
Slots == 0 .. QUEUE_SIZE - 1

\* serial_enqueue drops the character if the ring is full. Ring(q, i) is the
\* ring with r = i.
Ring(q, i) == [queue |-> q, r |-> i]
serial_enqueue(ring, ch) ==
  LET next == (ring.r + 1) % QUEUE_SIZE
  IN  IF next # f THEN Ring([ring.queue EXCEPT ![ring.r] = ch], next) ELSE ring

\* The characters of s, one after the other.
Enqueued(ring, s) ==
  LET after[i \in 0 .. Len(s)] == IF i = 0 THEN ring ELSE serial_enqueue(after[i - 1], s[i])
  IN  after
EnqueueAll(ring, s) == Enqueued(ring, s)[Len(s)]

\* The host writes to the pipe.
HostWrite(c) ==
  /\ written < MaxWritten
  /\ pipe' = Append(pipe, c) /\ written' = written + 1
  /\ UNCHANGED <<queue, f, r, CH, LSR, dead>>

\* Reading LSR: serial_rx_ready_flag reads the pipe only when the ring is empty.
ReadLSR_always ==
  LET n == IF Len(pipe) < READ_MAX THEN Len(pipe) ELSE READ_MAX
      filled == EnqueueAll(Ring(queue, r), SubSeq(pipe, 1, n))
  IN  /\ ~ dead
      /\ pipe' = SubSeq(pipe, n + 1, Len(pipe))
      /\ IF n = READ_MAX
         THEN dead' = TRUE /\ UNCHANGED <<queue, r, LSR>>
         ELSE queue' = filled.queue /\ r' = filled.r /\ LSR' = (f # r') /\ UNCHANGED dead
      /\ UNCHANGED <<f, written, CH>>
ReadLSR ==
  LET n == IF Len(pipe) < READ_MAX THEN Len(pipe) ELSE READ_MAX
      filled == EnqueueAll(Ring(queue, r), SubSeq(pipe, 1, n))
  IN  /\ ~ dead
      /\ IF f # r
         THEN LSR' = TRUE /\ UNCHANGED <<queue, r, pipe, dead>>
         ELSE /\ pipe' = SubSeq(pipe, n + 1, Len(pipe))
              /\ IF n = READ_MAX
                 THEN dead' = TRUE /\ UNCHANGED <<queue, r, LSR>>
                 ELSE queue' = filled.queue /\ r' = filled.r /\ LSR' = (f # r') /\ UNCHANGED dead
      /\ UNCHANGED <<f, written, CH>>

\* Reading CH: serial_dequeue.
ReadCH ==
  /\ ~ dead
  /\ IF f # r
     THEN CH' = queue[f] /\ f' = (f + 1) % QUEUE_SIZE
     ELSE CH' = NoChar /\ UNCHANGED f
  /\ UNCHANGED <<queue, r, pipe, written, LSR, dead>>

Init ==
  LET blank == [i \in Slots |-> 0]
  IN  /\ f = 0
      /\ queue = EnqueueAll(Ring(blank, 0), Preset).queue
      /\ r = EnqueueAll(Ring(blank, 0), Preset).r
      /\ pipe = <<>> /\ written = 0 /\ CH = NoChar /\ LSR = FALSE /\ dead = FALSE

Next == (\E c \in Chars : HostWrite(c)) \/ ReadLSR \/ ReadCH

\* A guest that keeps polling, and reads what it is told is there.
Fairness == WF_vars(ReadLSR) /\ SF_vars(LSR /\ ReadCH)
Spec == Init /\ [][Next]_vars /\ Fairness

-----------------------------------------------------------------------------
\* The ring and the registers have their types.
TypeOK == queue \in [Slots -> Chars \cup {0}] /\ f \in Slots /\ r \in Slots /\ CH \in Chars \cup {NoChar}

InRing == [i \in 1 .. (r - f + QUEUE_SIZE) % QUEUE_SIZE |-> queue[(f + i - 1) % QUEUE_SIZE]]

\* The ring as a channel.
C == INSTANCE Channel WITH Values <- Chars, None <- NoChar,
                           Capacity <- Len(Preset) + MaxWritten,
                           q <- IF dead THEN <<>> ELSE InRing \o pipe,
                           out <- CH, failed <- dead

\* From the pipe to the register there is one channel: although serial_enqueue
\* drops characters silently, no character is lost, repeated or overtaken,
\* because serial_rx_ready_flag reads fewer than the ring holds and only when
\* it is empty.
SerialIsChannel == C!Spec

\* A guest that keeps polling receives everything the host writes, unless the
\* host writes READ_MAX characters before it looks.
AllReceived == <>[](dead \/ (f = r /\ pipe = <<>>))
=============================================================================
