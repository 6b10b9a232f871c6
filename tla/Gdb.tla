--------------------------------- MODULE Gdb ---------------------------------
\* tools/qemu-socket-diff: QEMU as the reference of differential testing, driven
\* over the GDB remote protocol. protocol.c sends a packet until it is
\* acknowledged and asks again for a reply whose checksum is wrong; gdb-host.c
\* builds the commands; diff-test.c is the interface that NEMU calls. QEMU and
\* the line are the environment: packets can arrive damaged, single
\* acknowledgement characters cannot. Characters are their ASCII codes.
EXTENDS Integers, Sequences, SequencesExt, Bits

CONSTANTS mtu,          \* bytes that one packet carries at most: 1500
          Digits,       \* hex digits of a register: 8
          MemSize,      \* bound: bytes of memory
          Bytes,        \* bound: the values of a byte of memory
          RegValues,    \* bound: the values of a register, as a cycle
          MaxExec,      \* bound: instructions of one difftest_exec
          MaxDamaged    \* bound: packets that the line damages

VARIABLES
  call,                 \* the call of NEMU that is being served
  pc,                   \* where the client is: "idle", "ack" (fgetc of gdb_send) or "reply"
  rx,                   \* the locals of recv_packet
  toQemu, fromQemu,     \* the two directions of the connection
  qemu,                 \* registers and memory of QEMU, and the last packet it sent
  dut,                  \* what difftest_regcpy last wrote for NEMU
  want,                 \* what the calls so far ask for
  damaged

vars == <<call, pc, rx, toQemu, fromQemu, qemu, dut, want, damaged>>

Dollar == 36
Hash == 35
Brace == 125
Star == 42
Plus == 43
Minus == 45
Acknowledge == [op |-> "+"]
Again == [op |-> "-"]
OK == <<79, 75>>
Stopped == <<84, 48, 53>>    \* T05

----------------------------------------------------------------------------
\* Numbers as text: two digits for a byte, the low byte first.

hex_encode(digit) == IF digit > 9 THEN 97 + digit - 10 ELSE 48 + digit
isxdigit(c) == c \in (48 .. 57) \cup (65 .. 70) \cup (97 .. 102)
hex_nibble(hex) == IF hex <= 57 THEN hex - 48 ELSE (IF hex >= 97 THEN hex - 97 ELSE hex - 65) + 10
gdb_decode_hex(msb, lsb) ==
  IF isxdigit(msb) /\ isxdigit(lsb) THEN 16 * hex_nibble(msb) + hex_nibble(lsb) ELSE 65535

\* The loop stops at the first character that is no digit.
gdb_decode_hex_str(bytes) ==
  LET digits == SelectInSeq(bytes, LAMBDA c : ~ isxdigit(c))
      n == (IF digits = 0 THEN Len(bytes) ELSE digits - 1) \div 2
  IN  FoldLeft(LAMBDA value, j : value + 256^(j - 1) * gdb_decode_hex(bytes[2 * j - 1], bytes[2 * j]), 0,
               [j \in 1 .. n |-> j])

Text(value, digits) ==
  [j \in 1 .. digits |->
     LET byte == (value \div 256^((j - 1) \div 2)) % 256
     IN  hex_encode(IF j % 2 = 1 THEN byte \div 16 ELSE byte % 16)]
TextOf(values, digits) == FoldLeft(LAMBDA s, v : s \o Text(v, digits), <<>>, values)
ValuesOf(text, digits) ==
  [i \in 1 .. Len(text) \div digits |-> gdb_decode_hex_str(SubSeq(text, (i - 1) * digits + 1, i * digits))]

Sum(s) == FoldLeft(LAMBDA a, c : (a + c) % 256, 0, s)
Packet(body) ==
  <<Dollar>> \o body \o <<Hash, hex_encode(Sum(body) \div 16), hex_encode(Sum(body) % 16)>>

----------------------------------------------------------------------------
\* recv_packet, one character at a time.

Start == [at |-> "seek", reply |-> <<>>, sum |-> 0, escape |-> FALSE, msb |-> 0, ok |-> FALSE]

AddChar(x, c) ==
  [x EXCEPT !.reply = Append(@, IF x.escape THEN BXor(8, c, 32) ELSE c), !.escape = FALSE]

Counted(x, c) == [x EXCEPT !.sum = (@ + c) % 256]

InBody(x, c) ==
  CASE c = Dollar -> [x EXCEPT !.reply = <<>>, !.sum = 0, !.escape = FALSE]
    [] c = Hash -> [x EXCEPT !.at = "msb"]
    [] c = Brace -> [Counted(x, c) EXCEPT !.escape = TRUE]
    [] c = Star /\ x.reply # <<>> -> [Counted(x, c) EXCEPT !.at = "count"]
    [] OTHER -> AddChar(Counted(x, c), c)

\* The character after a star: how often to repeat, or put back.
InCount_min(x, c) ==
  [Counted(x, c) EXCEPT !.reply = @ \o [j \in 1 .. c - 32 |-> Last(x.reply)], !.at = "body"]
InCount(x, c) ==
  IF c < 29 \/ c > 126 \/ c \in {Dollar, Hash}
  THEN InBody([AddChar(x, Star) EXCEPT !.at = "body"], c)
  ELSE [Counted(x, c) EXCEPT !.reply = @ \o [j \in 1 .. c - 29 |-> Last(x.reply)], !.at = "body"]

recv_packet(x, c) ==
  CASE x.at = "seek" -> IF c = Dollar THEN [x EXCEPT !.at = "body"] ELSE x
    [] x.at = "body" -> InBody(x, c)
    [] x.at = "count" -> InCount(x, c)
    [] x.at = "msb" -> [x EXCEPT !.at = "lsb", !.msb = c]
    [] x.at = "lsb" -> [x EXCEPT !.at = "done", !.ok = x.sum = gdb_decode_hex(x.msb, c)]

----------------------------------------------------------------------------
\* The calls of NEMU and the command that each sends next.

Regs == 1 .. 2               \* register 1 is NEMU's too, register 2 only in isa_gdb_regs
NoCall == [op |-> "none"]

Small(c) == Len(c.src) <= mtu
Chunk(c) == IF Small(c) THEN c.src ELSE SubSeq(c.src, 1, mtu)

gdb_memcpy_to_qemu_small(dest, src) == [op |-> "M", dest |-> dest, text |-> TextOf(src, 2)]
gdb_getregs == [op |-> "g"]
gdb_setregs(r) == [op |-> "G", text |-> TextOf(r, Digits)]
gdb_si == [op |-> "s"]

Command(c) ==
  CASE c.op = "memcpy" -> gdb_memcpy_to_qemu_small(c.dest, Chunk(c))
    [] c.op \in {"get", "put"} -> gdb_getregs
    [] c.op = "set" -> gdb_setregs(c.regs)
    [] c.op = "exec" -> gdb_si

\* What is left of a call when the reply to its command is there. After
\* getregs, difftest_regcpy overwrites NEMU's registers and writes all back.
Rest(c, reply) ==
  CASE c.op = "memcpy" /\ ~ Small(c) ->
         [c EXCEPT !.dest = @ + mtu, !.src = SubSeq(@, mtu + 1, Len(@))]
    [] c.op = "put" -> [op |-> "set", regs |-> [ValuesOf(reply, Digits) EXCEPT ![1] = c.dut]]
    [] c.op = "exec" /\ c.n > 1 -> [c EXCEPT !.n = @ - 1]
    [] OTHER -> NoCall

\* The line may damage a packet: a command is then refused by QEMU, a reply has
\* one character changed.
Sent(command, d) == [op |-> "packet", command |-> command, ok |-> d = 0]
Damage(packet, d) == IF d = 0 THEN packet ELSE [packet EXCEPT ![2] = @ + 1]

gdb_send(c, d) ==
  /\ damaged + d <= MaxDamaged
  /\ damaged' = damaged + d
  /\ toQemu' = Append(toQemu, Sent(Command(c), d))
  /\ pc' = "ack"

----------------------------------------------------------------------------
\* The interface: difftest_memcpy, difftest_regcpy and difftest_exec.

Following(v) ==
  LET i == CHOOSE i \in 1 .. Len(RegValues) : RegValues[i] = v IN RegValues[(i % Len(RegValues)) + 1]
Steps(regs, n) ==
  LET after[k \in 0 .. n] == IF k = 0 THEN regs[1] ELSE Following(after[k - 1]) IN [regs EXCEPT ![1] = after[n]]
Written(mem, dest, src) ==
  [a \in DOMAIN mem |-> IF a \in dest .. dest + Len(src) - 1 THEN src[a - dest + 1] ELSE mem[a]]

Begin(c, wanted, d) ==
  /\ pc = "idle"
  /\ call' = c /\ want' = wanted
  /\ gdb_send(c, d)
  /\ UNCHANGED <<rx, fromQemu, qemu, dut>>

difftest_memcpy(dest, src, d) ==
  Begin([op |-> "memcpy", dest |-> dest, src |-> src],
        [want EXCEPT !.mem = Written(@, dest, src)], d)

difftest_regcpy_to_ref(v, d) ==
  Begin([op |-> "put", dut |-> v], [want EXCEPT !.regs[1] = v], d)

difftest_regcpy_to_dut(d) ==
  Begin([op |-> "get"], [want EXCEPT !.dut = want.regs[1]], d)

difftest_exec(n, d) ==
  Begin([op |-> "exec", n |-> n], [want EXCEPT !.regs = Steps(@, n)], d)

\* fgetc in gdb_send: anything but '+' sends the packet once more.
GetAck(d) ==
  /\ pc = "ack" /\ fromQemu # <<>>
  /\ fromQemu' = Tail(fromQemu)
  /\ IF Head(fromQemu) = Plus
     THEN pc' = "reply" /\ rx' = Start /\ d = 0 /\ UNCHANGED <<toQemu, damaged>>
     ELSE gdb_send(call, d) /\ UNCHANGED rx
  /\ UNCHANGED <<call, qemu, dut, want>>

\* gdb_recv: one character; at the end of the packet '+' or '-', and a reply
\* that is in order goes to the caller, which may send its next command.
GetChar ==
  /\ pc = "reply" /\ fromQemu # <<>>
  /\ rx.at # "lsb"
  /\ rx' = recv_packet(rx, Head(fromQemu))
  /\ fromQemu' = Tail(fromQemu)
  /\ UNCHANGED <<call, pc, toQemu, qemu, dut, want, damaged>>

gdb_recv_again(d) ==
  /\ pc = "reply" /\ rx.at = "lsb" /\ fromQemu # <<>>
  /\ fromQemu' = Tail(fromQemu)
  /\ rx' = Start
  /\ d = 0 /\ toQemu' = Append(toQemu, Again)
  /\ UNCHANGED <<call, pc, dut, damaged, qemu, want>>
gdb_recv(d) ==
  LET x == recv_packet(rx, Head(fromQemu))
      rest == Rest(call, x.reply)
  IN  /\ pc = "reply" /\ rx.at = "lsb" /\ fromQemu # <<>>
      /\ fromQemu' = Tail(fromQemu)
      /\ rx' = Start
      /\ IF ~ x.ok
         THEN d = 0 /\ toQemu' = Append(toQemu, Again) /\ UNCHANGED <<call, pc, dut, damaged>>
         ELSE /\ damaged + d <= MaxDamaged /\ damaged' = damaged + d
              /\ call' = rest
              /\ dut' = IF call.op = "get" THEN ValuesOf(x.reply, Digits)[1] ELSE dut
              /\ toQemu' = IF rest = NoCall THEN Append(toQemu, Acknowledge)
                           ELSE toQemu \o <<Acknowledge, Sent(Command(rest), d)>>
              /\ pc' = IF rest = NoCall THEN "idle" ELSE "ack"
              /\ (rest = NoCall => d = 0)
      /\ UNCHANGED <<qemu, want>>

----------------------------------------------------------------------------
\* QEMU's stub: it executes an undamaged command and replies, and sends its last
\* packet again on '-'. It may shorten a run and escape a character.

Executed(command) ==
  CASE command.op = "M" ->
         [qemu EXCEPT !.mem = Written(@, command.dest, ValuesOf(command.text, 2)), !.last = OK]
    [] command.op = "g" -> [qemu EXCEPT !.last = TextOf(qemu.regs, Digits)]
    [] command.op = "G" -> [qemu EXCEPT !.regs = ValuesOf(command.text, Digits), !.last = OK]
    [] command.op = "s" -> [qemu EXCEPT !.regs = Steps(@, 1), !.last = Stopped]

Runs(s) ==
  { k \in (1 .. Len(s)) \X (3 .. 9) :
      /\ k[1] + k[2] <= Len(s) /\ 29 + k[2] \notin {Hash, Dollar}
      /\ \A j \in 1 .. k[2] : s[k[1] + j] = s[k[1]] }
Encodings(s) ==
  {s, <<Brace, BXor(8, s[1], 32)>> \o Tail(s)}
    \cup { SubSeq(s, 1, k[1]) \o <<Star, 29 + k[2]>> \o SubSeq(s, k[1] + k[2] + 1, Len(s)) : k \in Runs(s) }

Stub(d) ==
  LET message == Head(toQemu)
  IN  /\ toQemu # <<>>
      /\ toQemu' = Tail(toQemu)
      /\ damaged + d <= MaxDamaged /\ damaged' = damaged + d
      /\ \/ /\ message.op = "+"
            /\ d = 0 /\ qemu' = [qemu EXCEPT !.last = <<>>] /\ UNCHANGED fromQemu
         \/ /\ message.op = "-"
            /\ \E e \in Encodings(qemu.last) : fromQemu' = fromQemu \o Damage(Packet(e), d)
            /\ UNCHANGED qemu
         \/ /\ message.op = "packet" /\ ~ message.ok
            /\ d = 0 /\ fromQemu' = Append(fromQemu, Minus) /\ UNCHANGED qemu
         \/ /\ message.op = "packet" /\ message.ok
            /\ qemu' = Executed(message.command)
            /\ \E e \in Encodings(qemu'.last) :
                 fromQemu' = Append(fromQemu, Plus) \o Damage(Packet(e), d)
      /\ UNCHANGED <<call, pc, rx, dut, want>>

----------------------------------------------------------------------------
Client == (\E d \in 0 .. 1 : GetAck(d) \/ gdb_recv(d)) \/ GetChar
Qemu == \E d \in 0 .. 1 : Stub(d)

Calls ==
  \E d \in 0 .. 1 :
    \/ \E n \in 0 .. MemSize : \E dest \in 0 .. MemSize - n, src \in [1 .. n -> Bytes] : difftest_memcpy(dest, src, d)
    \/ \E i \in 1 .. Len(RegValues) : difftest_regcpy_to_ref(RegValues[i], d)
    \/ difftest_regcpy_to_dut(d)
    \/ \E n \in 1 .. MaxExec : difftest_exec(n, d)

\* gdb_begin sends a '+' first.
Init ==
  /\ call = NoCall /\ pc = "idle" /\ rx = Start
  /\ toQemu = <<Acknowledge>> /\ fromQemu = <<>>
  /\ want = [regs |-> <<RegValues[1], RegValues[2]>>,
             mem |-> [a \in 0 .. MemSize - 1 |-> CHOOSE b \in Bytes : TRUE], dut |-> 0]
  /\ qemu = [regs |-> want.regs, mem |-> want.mem, last |-> <<>>]
  /\ dut = 0 /\ damaged = 0

Next == Calls \/ Client \/ Qemu

Spec == Init /\ [][Next]_vars /\ WF_vars(Client) /\ WF_vars(Qemu)

----------------------------------------------------------------------------
\* Between two calls QEMU's registers and memory, and the registers that NEMU
\* read from it, are what the calls asked for: a packet that is sent again after
\* a damaged one is executed once, a reply is decoded to the values that QEMU
\* sent however it was encoded, the pieces of a long copy join up, and writing
\* NEMU's registers leaves QEMU's other registers alone.
RefAsAsked ==
  pc = "idle" => [regs |-> qemu.regs, mem |-> qemu.mem, dut |-> dut] = want

\* When a call of gdb-host.c has returned nothing of QEMU is left on the line
\* that a later gdb_send could take for its acknowledgement.
LineQuiet == pc = "idle" => fromQemu = <<>>

\* Every call returns, if the line damages finitely many packets.
CallsReturn == (pc # "idle") ~> (pc = "idle")

\* The reference behind the GDB stub is what difftest asked for, and the line is
\* quiet between two calls, so that no late packet answers the next one.
GdbSound == RefAsAsked /\ LineQuiet
==============================================================================
