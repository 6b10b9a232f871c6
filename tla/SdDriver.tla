------------------------------ MODULE SdDriver ------------------------------
\* The guest's driver for the SD card (resource/sdcard/nemu.c), a host driver of
\* Linux's mmc layer without interrupts: nemu_request does the transfer word by
\* word right after the command and then runs the completion functions itself,
\* which call each other. Threads of the mmc layer issue requests; host->mutex
\* serialises them.
\*
\* calls holds the functions still to run, innermost first. A request has a
\* command, and perhaps a set-block-count command before it (sbc), data, and a
\* stop command after it.
EXTENDS Integers, Sequences, SequenceTheorems, TLAPS

CONSTANTS
  Threads,
  Blocks,        \* blocks of a transfer
  MaxRequests    \* bound on the requests of a thread

None == "none"
Requests == [sbc : BOOLEAN, data : {None, "read", "write"}, stop : BOOLEAN, power_of_2 : BOOLEAN]

VARIABLES
  thread,    \* "idle", "waiting" for the mutex, or "running"
  request,   \* the request of each thread
  mutex,     \* host->mutex: its owner
  host,      \* mrq (is there one), cmd, data, data_complete, use_sbc
  error, bytes_xfered,   \* of the current request's data
  calls,     \* the functions to run
  sent,      \* ghost: commands of the current request written to SDCMD
  asked, done,   \* ghost: requests issued and completed, by thread
  report,    \* ghost: what the last completed request ended with
  warned     \* ghost: a WARN_ON held

vars == <<thread, request, mutex, host, error, bytes_xfered, calls, sent, asked, done, report, warned>>
Current == request[mutex]

\* mmc_request_done
Complete(t, outcome) ==
  /\ done' = [done EXCEPT ![t] = @ + 1]
  /\ report' = outcome

\* The data phase is part of the caller: it comes right after the command.
SendAndFinish(t) ==
  <<"send_cmd">> \o (IF request[t].data # None THEN [i \in 1 .. Blocks |-> "transfer_pio"] \o <<"finish_data">> ELSE <<>>)
    \o <<"finish_command">>

\* mmc_wait_for_req: a block size that is not a power of two is refused before
\* the mutex.
nemu_request(t, r) ==
  /\ thread[t] = "idle" /\ asked[t] < MaxRequests
  /\ request' = [request EXCEPT ![t] = r]
  /\ asked' = [asked EXCEPT ![t] = @ + 1]
  /\ IF r.data # None /\ ~r.power_of_2
     THEN Complete(t, [refused |-> TRUE, request |-> r]) /\ UNCHANGED thread
     ELSE thread' = [thread EXCEPT ![t] = "waiting"] /\ UNCHANGED <<done, report>>
  /\ UNCHANGED <<mutex, host, error, bytes_xfered, calls, sent, warned>>

mutex_lock(t) ==
  LET r == request[t]
      use_sbc == r.sbc /\ r.data = "read"
  IN  /\ thread[t] = "waiting" /\ mutex = None
      /\ mutex' = t /\ thread' = [thread EXCEPT ![t] = "running"]
      /\ warned' = (warned \/ host.mrq)
      /\ host' = [host EXCEPT !.mrq = TRUE, !.use_sbc = use_sbc]
      /\ calls' = IF use_sbc THEN <<"send_sbc", "finish_command">> ELSE SendAndFinish(t)
      /\ error' = FALSE /\ bytes_xfered' = 0 /\ sent' = <<>>
      /\ UNCHANGED <<request, asked, done, report>>

Call(f) == mutex # None /\ calls # <<>> /\ Head(calls) = f
Returns == calls' = Tail(calls)

\* nemu_send_command, with nemu_prepare_data in it.
Sends == [sbc |-> "send_sbc", cmd |-> "send_cmd", stop |-> "send_stop"]
nemu_send_command(c) ==
  LET data == IF c = "cmd" THEN Current.data ELSE None
  IN  /\ Call(Sends[c]) /\ Returns
      /\ warned' = (warned \/ host.cmd # None \/ host.data # None)
      /\ host' = [host EXCEPT !.cmd = c, !.data = data, !.data_complete = IF data # None THEN FALSE ELSE @]
      /\ sent' = Append(sent, c)
      /\ UNCHANGED <<thread, request, mutex, error, bytes_xfered, asked, done, report>>

\* The scatter list may end early, or a piece of it not be a multiple of a word.
nemu_transfer_pio ==
  /\ Call("transfer_pio") /\ Returns
  /\ \E e \in BOOLEAN : error' = (error \/ e)
  /\ UNCHANGED <<thread, request, mutex, host, bytes_xfered, sent, asked, done, report, warned>>

nemu_finish_data ==
  /\ Call("finish_data")
  /\ bytes_xfered' = IF error THEN 0 ELSE Blocks
  /\ host' = [host EXCEPT !.data_complete = TRUE]
  /\ IF host.cmd # None THEN Returns ELSE calls' = <<"transfer_complete">> \o Tail(calls)
  /\ UNCHANGED <<thread, request, mutex, error, sent, asked, done, report, warned>>

nemu_transfer_complete ==
  /\ Call("transfer_complete")
  /\ warned' = (warned \/ ~host.data_complete)
  /\ host' = [host EXCEPT !.data = None]
  /\ calls' = (IF Current.stop /\ (error \/ ~host.use_sbc) THEN <<"send_stop", "finish_command">> ELSE <<"finish_request">>)
                \o Tail(calls)
  /\ UNCHANGED <<thread, request, mutex, error, bytes_xfered, sent, asked, done, report>>

nemu_finish_command_no_else ==
  /\ Call("finish_command")
  /\ host' = IF host.cmd = "stop" THEN host ELSE [host EXCEPT !.cmd = None]
  /\ calls' = (IF host.cmd = "sbc" THEN SendAndFinish(mutex)
               ELSE IF host.cmd = "cmd" /\ host.data_complete THEN <<"transfer_complete", "finish_request">>
               ELSE <<"finish_request">>) \o Tail(calls)
  /\ UNCHANGED <<thread, request, mutex, error, bytes_xfered, sent, asked, done, report, warned>>
nemu_finish_command ==
  /\ Call("finish_command")
  /\ \/ /\ host.cmd = "sbc"
        /\ host' = [host EXCEPT !.cmd = None]
        /\ calls' = SendAndFinish(mutex) \o Tail(calls)
     \/ /\ host.cmd = "stop"
        /\ calls' = <<"finish_request">> \o Tail(calls)
        /\ UNCHANGED host
     \/ /\ host.cmd = "cmd"
        /\ host' = [host EXCEPT !.cmd = None]
        /\ calls' = (IF host.data = None THEN <<"finish_request">>
                     ELSE IF host.data_complete THEN <<"transfer_complete">> ELSE <<>>) \o Tail(calls)
  /\ UNCHANGED <<thread, request, mutex, error, bytes_xfered, sent, asked, done, report, warned>>

nemu_finish_request ==
  /\ Call("finish_request") /\ Returns
  /\ host' = [host EXCEPT !.mrq = FALSE, !.cmd = None, !.data = None]
  /\ Complete(mutex, [refused |-> FALSE, request |-> Current, error |-> error, bytes |-> bytes_xfered, sent |-> sent])
  /\ UNCHANGED <<thread, request, mutex, error, bytes_xfered, sent, asked, warned>>

mutex_unlock_forgotten ==
  /\ mutex # None /\ calls = <<>>
  /\ thread' = [thread EXCEPT ![mutex] = "idle"]
  /\ UNCHANGED <<mutex, request, host, error, bytes_xfered, calls, sent, asked, done, report, warned>>
mutex_unlock ==
  /\ mutex # None /\ calls = <<>>
  /\ thread' = [thread EXCEPT ![mutex] = "idle"] /\ mutex' = None
  /\ UNCHANGED <<request, host, error, bytes_xfered, calls, sent, asked, done, report, warned>>

Init ==
  /\ thread = [t \in Threads |-> "idle"] /\ mutex = None /\ calls = <<>> /\ sent = <<>>
  /\ request = [t \in Threads |-> [sbc |-> FALSE, data |-> None, stop |-> FALSE, power_of_2 |-> TRUE]]
  /\ host = [mrq |-> FALSE, cmd |-> None, data |-> None, data_complete |-> FALSE, use_sbc |-> FALSE]
  /\ error = FALSE /\ bytes_xfered = 0
  /\ asked = [t \in Threads |-> 0] /\ done = asked /\ report = [refused |-> TRUE] /\ warned = FALSE

Driver ==
  \/ \E c \in {"sbc", "cmd", "stop"} : nemu_send_command(c)
  \/ nemu_transfer_pio \/ nemu_finish_data \/ nemu_transfer_complete \/ nemu_finish_command
  \/ nemu_finish_request \/ mutex_unlock
Next ==
  \/ \E t \in Threads : mutex_lock(t) \/ \E r \in Requests : nemu_request(t, r)
  \/ Driver
Spec == Init /\ [][Next]_vars /\ WF_vars(Driver) /\ \A t \in Threads : SF_vars(mutex_lock(t))

-----------------------------------------------------------------------------
\* No WARN_ON of the driver ever holds: a command is sent only when none is
\* current, data only when the last is finished, and no two requests overlap,
\* though the completion functions send further commands from inside each other.
NoWarning == ~warned

\* mmc_request_done is called exactly once for every request, error or not: never
\* twice for one that goes through several of the completion functions.
DoneOnce ==
  \A t \in Threads :
    /\ done[t] <= asked[t] /\ asked[t] <= done[t] + 1
    /\ thread[t] = "idle" => done[t] = asked[t]

\* What a completed request did: the commands in order, the stop command exactly
\* for an open-ended transfer or after an error, and all blocks or none reported.
EndsAsAsked ==
  ~report.refused =>
    LET r == report.request
        closed == r.sbc /\ r.data = "read"
    IN  /\ report.sent = (IF closed THEN <<"sbc">> ELSE <<>>) \o <<"cmd">>
             \o (IF r.data # None /\ r.stop /\ (~closed \/ report.error) THEN <<"stop">> ELSE <<>>)
        /\ r.data # None => report.bytes = (IF report.error THEN 0 ELSE Blocks)

\* Every request is completed.
RequestsFinish == \A t \in Threads : (thread[t] # "idle") ~> (thread[t] = "idle")

\* Every request ends once, with the result of its own commands and data, and the
\* driver meets no state that it warns of.
RequestsEndOnce == NoWarning /\ DoneOnce /\ EndsAsAsked
-----------------------------------------------------------------------------
\* Proof that RequestsEndOnce holds.
\* A thread is not the absence of one.
SdConstants == None \notin Threads /\ Blocks \in Nat

\* A sequence of calls: k blocks to transfer and then what is in s.
Pio(k, s) == [i \in 1 .. k + Len(s) |-> IF i <= k THEN "transfer_pio" ELSE s[i - k]]
Names == {"send_sbc", "send_cmd", "send_stop", "transfer_pio", "finish_data", "finish_command",
          "transfer_complete", "finish_request"}

\* A sequence of one call.
LEMMA Ones ==
  ASSUME NEW x
  PROVE  <<x>> # <<>> /\ Head(<<x>>) = x /\ Tail(<<x>>) = <<>> /\ <<x>> \o <<>> = <<x>>
OBVIOUS

\* A sequence of two calls.
LEMMA Twos ==
  ASSUME NEW x, NEW y
  PROVE  <<x, y>> # <<>> /\ Head(<<x, y>>) = x /\ Tail(<<x, y>>) = <<y>> /\ <<x, y>> \o <<>> = <<x, y>>
OBVIOUS

\* Short sequences, appended to.
LEMMA Appends ==
  ASSUME NEW x, NEW y, NEW z
  PROVE  Append(<<>>, x) = <<x>> /\ Append(<<x>>, y) = <<x, y>> /\ Append(<<x, y>>, z) = <<x, y, z>>
<1> DEFINE S == {x, y, z}
<1>1. Append(<<>>, x) = <<x>> OBVIOUS
<1>2. Append(<<x>>, y) = <<x, y>>
  <2>1. <<x>> \in Seq(S) /\ Len(<<x>>) = 1 /\ <<x>>[1] = x OBVIOUS
  <2>2. <<x, y>> \in Seq(S) /\ Len(<<x, y>>) = 2 /\ <<x, y>>[1] = x /\ <<x, y>>[2] = y OBVIOUS
  <2>3. Append(<<x>>, y) \in Seq(S) /\ Len(Append(<<x>>, y)) = 2 /\ Append(<<x>>, y)[1] = x /\ Append(<<x>>, y)[2] = y
    BY <2>1, AppendProperties
  <2> DEFINE s == Append(<<x>>, y)
             u == <<x, y>>
  <2>4. s \in Seq(S) /\ u \in Seq(S) /\ Len(s) = 2 /\ Len(u) = 2 /\ s[1] = u[1] /\ s[2] = u[2] BY <2>2, <2>3
  <2> HIDE DEF s, u, S
  <2>5. \A i \in 1 .. Len(s) : s[i] = u[i] BY <2>4
  <2> QED BY <2>4, <2>5, SeqEqual DEF s, u
<1>3. Append(<<x, y>>, z) = <<x, y, z>>
  <2>1. <<x, y>> \in Seq(S) /\ Len(<<x, y>>) = 2 /\ <<x, y>>[1] = x /\ <<x, y>>[2] = y OBVIOUS
  <2>2. <<x, y, z>> \in Seq(S) /\ Len(<<x, y, z>>) = 3
        /\ <<x, y, z>>[1] = x /\ <<x, y, z>>[2] = y /\ <<x, y, z>>[3] = z OBVIOUS
  <2>3. /\ Append(<<x, y>>, z) \in Seq(S) /\ Len(Append(<<x, y>>, z)) = 3
        /\ Append(<<x, y>>, z)[1] = x /\ Append(<<x, y>>, z)[2] = y /\ Append(<<x, y>>, z)[3] = z
    BY <2>1, AppendProperties
  <2> DEFINE s == Append(<<x, y>>, z)
             u == <<x, y, z>>
  <2>4. /\ s \in Seq(S) /\ u \in Seq(S) /\ Len(s) = 3 /\ Len(u) = 3
        /\ s[1] = u[1] /\ s[2] = u[2] /\ s[3] = u[3]
    BY <2>2, <2>3
  <2> HIDE DEF s, u, S
  <2>5. \A i \in 1 .. Len(s) : s[i] = u[i] BY <2>4
  <2> QED BY <2>4, <2>5, SeqEqual DEF s, u
<1> QED BY <1>1, <1>2, <1>3
\* The first of the blocks that are left.
LEMMA PioNext ==
  ASSUME NEW k \in Nat \ {0}, NEW s \in Seq(Names)
  PROVE  Pio(k, s) # <<>> /\ Head(Pio(k, s)) = "transfer_pio" /\ Tail(Pio(k, s)) = Pio(k - 1, s)
<1> DEFINE p == Pio(k, s)
<1>1. p \in Seq(Names) /\ Len(p) = k + Len(s) BY DEF Pio, Names
<1>2. Pio(k - 1, s) \in Seq(Names) /\ Len(Pio(k - 1, s)) = k - 1 + Len(s) BY DEF Pio, Names
<1>3. p # <<>> /\ Head(p) = "transfer_pio" BY <1>1 DEF Pio
<1>4. Tail(p) \in Seq(Names) /\ Len(Tail(p)) = k - 1 + Len(s) /\ \A i \in 1 .. Len(Tail(p)) : Tail(p)[i] = p[i + 1]
  BY <1>1, <1>3, HeadTailProperties
<1>5. ASSUME NEW i \in 1 .. k - 1 + Len(s) PROVE p[i + 1] = Pio(k - 1, s)[i]
  BY DEF Pio
<1> QED BY <1>2, <1>3, <1>4, <1>5, SeqEqual

\* No block is left.
LEMMA PioEnd ==
  ASSUME NEW s \in Seq(Names) PROVE Pio(0, s) = s
<1>1. Pio(0, s) = [i \in 1 .. Len(s) |-> s[i]] BY DEF Pio
<1> QED BY <1>1

\* After the last block there is still the end of the data.
LEMMA PioSome ==
  ASSUME NEW k \in Nat PROVE Pio(k, <<"finish_data", "finish_command">>) # <<>>
<1>1. <<"finish_data", "finish_command">> \in Seq(Names) BY DEF Names
<1>2. CASE k = 0 BY <1>1, <1>2, PioEnd, Twos
<1>3. CASE k # 0
  <2> DEFINE s == <<"finish_data", "finish_command">>
  <2>1. s \in Seq(Names) BY <1>1
  <2> HIDE DEF s
  <2>2. Pio(k, s) # <<>> BY <1>3, <2>1, PioNext
  <2> QED BY <2>2 DEF s
<1> QED BY <1>2, <1>3

\* SendAndFinish begins with the command and goes on with the blocks.
LEMMA SendsFirst ==
  ASSUME NEW t, Blocks \in Nat
  PROVE  LET c == SendAndFinish(t)
             d == request[t].data # None
         IN  /\ c # <<>> /\ Head(c) = "send_cmd"
             /\ Tail(c) = IF d THEN Pio(Blocks, <<"finish_data", "finish_command">>) ELSE <<"finish_command">>
             /\ c \o <<>> = c
<1> DEFINE c == SendAndFinish(t)
           d == request[t].data # None
           p == [i \in 1 .. Blocks |-> "transfer_pio"]
<1>1. CASE ~ d
  <2>1. c = <<"send_cmd">> \o <<>> \o <<"finish_command">> BY <1>1 DEF SendAndFinish
  <2>2. <<"send_cmd">> \in Seq(Names) /\ <<"finish_command">> \in Seq(Names) BY DEF Names
  <2>3. c = <<"send_cmd">> \o <<"finish_command">> BY <2>1, <2>2, ConcatEmptySeq
  <2>4. "finish_command" \in Names BY DEF Names
  <2>5. Append(<<"send_cmd">>, "finish_command") = <<"send_cmd">> \o <<"finish_command">>
    BY <2>2, <2>4, AppendIsConcat
  <2>6. c = <<"send_cmd", "finish_command">> BY <2>3, <2>5, Appends
  <2> QED BY <1>1, <2>6, Twos
<1>2. CASE d
  <2>1. c = <<"send_cmd">> \o (p \o <<"finish_data">>) \o <<"finish_command">> BY <1>2 DEF SendAndFinish
  <2>2. p \in Seq(Names) /\ Len(p) = Blocks /\ \A i \in 1 .. Blocks : p[i] = "transfer_pio" BY DEF Names
  <2>3. <<"send_cmd">> \in Seq(Names) /\ <<"finish_data">> \in Seq(Names) /\ <<"finish_command">> \in Seq(Names)
        /\ <<"finish_data", "finish_command">> \in Seq(Names)
    BY DEF Names
  <2> DEFINE q == Pio(Blocks, <<"finish_data", "finish_command">>)
             b == p \o <<"finish_data">>
  <2>4. b \in Seq(Names) /\ Len(b) = Blocks + 1
        /\ \A i \in 1 .. Blocks + 1 : b[i] = IF i <= Blocks THEN "transfer_pio" ELSE "finish_data"
    BY <2>2, <2>3, ConcatProperties
  <2> HIDE DEF p, b
  <2> DEFINE a == <<"send_cmd">> \o b
  <2>5. a \in Seq(Names) /\ Len(a) = Blocks + 2
        /\ \A i \in 1 .. Blocks + 2 : a[i] = IF i = 1 THEN "send_cmd" ELSE IF i <= Blocks + 1 THEN "transfer_pio" ELSE "finish_data"
    BY <2>3, <2>4, ConcatProperties
  <2> HIDE DEF a
  <2>6. c = a \o <<"finish_command">> BY <2>1 DEF a, b
  <2>7. c \in Seq(Names) /\ Len(c) = Blocks + 3
        /\ \A i \in 1 .. Blocks + 3 : c[i] = IF i = 1 THEN "send_cmd" ELSE IF i <= Blocks + 1 THEN "transfer_pio"
                                            ELSE IF i = Blocks + 2 THEN "finish_data" ELSE "finish_command"
    BY <2>3, <2>5, <2>6, ConcatProperties
  <2> HIDE DEF c
  <2>8. c # <<>> /\ Head(c) = "send_cmd" /\ c \o <<>> = c BY <2>7, ConcatEmptySeq
  <2>9. q \in Seq(Names) /\ Len(q) = Blocks + 2
        /\ \A i \in 1 .. Blocks + 2 : q[i] = IF i <= Blocks THEN "transfer_pio" ELSE IF i = Blocks + 1 THEN "finish_data" ELSE "finish_command"
    BY DEF Pio, Names
  <2>10. Tail(c) \in Seq(Names) /\ Len(Tail(c)) = Blocks + 2 /\ \A i \in 1 .. Blocks + 2 : Tail(c)[i] = c[i + 1]
    BY <2>7, <2>8, HeadTailProperties
  <2>11. \A i \in 1 .. Blocks + 2 : Tail(c)[i] = q[i] BY <2>7, <2>9, <2>10
  <2>12. Tail(c) = q BY <2>9, <2>10, <2>11, SeqEqual
  <2> QED BY <1>2, <2>8, <2>12 DEF c
<1> QED BY <1>1, <1>2

\* A transfer whose length the card knows, the commands sent before the transfer
\* and in all, and the bytes reported.
Closed(r) == r.sbc /\ r.data = "read"
Before(r) == IF Closed(r) THEN <<"sbc">> ELSE <<>>
Begun(r) == Append(Before(r), "cmd")
MustStop(r, e) == r.data # None /\ r.stop /\ (~ Closed(r) \/ e)
AllSent(r, e) == IF MustStop(r, e) THEN Append(Begun(r), "stop") ELSE Begun(r)
Counted(r) == r.data # None => bytes_xfered = IF error THEN 0 ELSE Blocks

\* The phases of a request: the calls still to make, with what the host holds.
At(c, cmd, data) == calls = c /\ host.cmd = cmd /\ host.data = data
R == request[mutex]
InSbc == At(<<"send_sbc", "finish_command">>, None, None) /\ Closed(R) /\ sent = <<>>
SbcSent == At(<<"finish_command">>, "sbc", None) /\ Closed(R) /\ sent = <<"sbc">>
InCmd == At(SendAndFinish(mutex), None, None) /\ sent = Before(R)
InData(k) == /\ At(Pio(k, <<"finish_data", "finish_command">>), "cmd", R.data) /\ R.data # None
             /\ sent = Begun(R)
CmdDone == /\ At(<<"finish_command">>, "cmd", R.data) /\ (R.data # None => host.data_complete)
           /\ Counted(R) /\ sent = Begun(R)
DataDone == /\ At(<<"transfer_complete">>, None, R.data) /\ R.data # None /\ host.data_complete
            /\ Counted(R) /\ sent = Begun(R)
InStop == /\ At(<<"send_stop", "finish_command">>, None, None) /\ MustStop(R, error)
          /\ Counted(R) /\ sent = Begun(R)
StopSent == /\ At(<<"finish_command">>, "stop", None) /\ Counted(R) /\ sent = AllSent(R, error)
Finishing == calls = <<"finish_request">> /\ Counted(R) /\ sent = AllSent(R, error)
Working == \/ InSbc \/ SbcSent \/ InCmd \/ (\E k \in Nat : InData(k)) \/ CmdDone \/ DataDone \/ InStop \/ StopSent
           \/ Finishing
Quiet == calls = <<>> /\ host.cmd = None /\ host.data = None /\ host.mrq = FALSE

HostType == [mrq : BOOLEAN, cmd : {None, "sbc", "cmd", "stop"}, data : {None, "read", "write"},
             data_complete : BOOLEAN, use_sbc : BOOLEAN]
SdTypes ==
  /\ thread \in [Threads -> {"idle", "waiting", "running"}] /\ request \in [Threads -> Requests]
  /\ mutex \in Threads \cup {None} /\ host \in HostType /\ error \in BOOLEAN
  /\ asked \in [Threads -> Nat] /\ done \in [Threads -> Nat]

\* The requests of t that were issued and not completed.
Pending(t) == IF thread[t] = "waiting" \/ (thread[t] = "running" /\ calls # <<>>) THEN 1 ELSE 0

SdInv ==
  /\ SdTypes /\ warned = FALSE /\ EndsAsAsked
  /\ \A t \in Threads : asked[t] = done[t] + Pending(t) /\ (thread[t] = "running" <=> t = mutex)
  /\ IF mutex # None /\ calls # <<>> THEN Working /\ (host.use_sbc <=> Closed(R)) ELSE Quiet

\* The invariant implies what is promised.
LEMMA SdOnce == ASSUME SdInv PROVE RequestsEndOnce
<1>1. NoWarning /\ EndsAsAsked BY DEF SdInv, NoWarning
<1>2. ASSUME NEW t \in Threads
      PROVE  done[t] <= asked[t] /\ asked[t] <= done[t] + 1 /\ (thread[t] = "idle" => done[t] = asked[t])
  <2>1. asked[t] = done[t] + Pending(t) /\ done[t] \in Nat BY DEF SdInv, SdTypes
  <2>2. Pending(t) \in {0, 1} /\ (thread[t] = "idle" => Pending(t) = 0) BY DEF Pending
  <2> QED BY <2>1, <2>2
<1> QED BY <1>1, <1>2 DEF RequestsEndOnce, DoneOnce

\* The driver starts quiet.
LEMMA SdInit == ASSUME SdConstants PROVE Init => SdInv
<1> SUFFICES ASSUME Init PROVE SdInv OBVIOUS
<1> USE DEF Init, SdConstants
<1>1. request \in [Threads -> Requests] BY DEF Requests
<1>2. host \in HostType BY DEF HostType
<1>3. SdTypes BY <1>1, <1>2 DEF SdTypes
<1>4. EndsAsAsked BY DEF EndsAsAsked
<1>5. \A t \in Threads : asked[t] = done[t] + Pending(t) /\ (thread[t] = "running" <=> t = mutex) BY DEF Pending
<1>6. Quiet BY DEF Quiet
<1> QED BY <1>3, <1>4, <1>5, <1>6 DEF SdInv

\* A step of a completion function leaves the threads alone.
Inside ==
  /\ UNCHANGED <<thread, request, mutex, asked, done, report>>
  /\ calls # <<>> /\ calls' # <<>> /\ mutex # None
  /\ host' \in HostType /\ (host'.use_sbc <=> host.use_sbc) /\ error' \in BOOLEAN /\ warned' = FALSE
\* A step of a completion function that leaves a call to make keeps the invariant.
LEMMA SdInside ==
  ASSUME SdInv, Inside, Working' PROVE SdInv'
<1> USE DEF Inside
<1>1. SdTypes' BY DEF SdInv, SdTypes
<1>2. EndsAsAsked' BY DEF SdInv, EndsAsAsked
<1>3. R' = R BY DEF R
<1>4. (host'.use_sbc <=> Closed(R')) BY <1>3 DEF SdInv
<1>5. ASSUME NEW t \in Threads
      PROVE asked'[t] = done'[t] + Pending(t)' /\ (thread'[t] = "running" <=> t = mutex')
  BY DEF SdInv, Pending
<1> QED BY <1>1, <1>2, <1>4, <1>5 DEF SdInv

\* What is called first in each phase.
LEMMA Heads ==
  ASSUME SdConstants, Working
  PROVE  /\ InSbc => Head(calls) = "send_sbc" /\ Tail(calls) = <<"finish_command">>
         /\ SbcSent \/ CmdDone \/ StopSent => Head(calls) = "finish_command" /\ Tail(calls) = <<>>
         /\ InCmd => /\ Head(calls) = "send_cmd"
                     /\ Tail(calls) = IF R.data # None THEN Pio(Blocks, <<"finish_data", "finish_command">>)
                                      ELSE <<"finish_command">>
         /\ \A k \in Nat : InData(k) => Head(calls) = IF k = 0 THEN "finish_data" ELSE "transfer_pio"
         /\ InData(0) => Tail(calls) = <<"finish_command">>
         /\ \A k \in Nat \ {0} : InData(k) => Tail(calls) = Pio(k - 1, <<"finish_data", "finish_command">>)
         /\ DataDone => Head(calls) = "transfer_complete" /\ Tail(calls) = <<>>
         /\ InStop => Head(calls) = "send_stop" /\ Tail(calls) = <<"finish_command">>
         /\ Finishing => Head(calls) = "finish_request" /\ Tail(calls) = <<>>
<1> DEFINE s == <<"finish_data", "finish_command">>
<1>0. s \in Seq(Names) BY DEF Names
<1>1. InSbc => Head(calls) = "send_sbc" /\ Tail(calls) = <<"finish_command">> BY Twos DEF InSbc, At
<1>2. SbcSent \/ CmdDone \/ StopSent => Head(calls) = "finish_command" /\ Tail(calls) = <<>>
  BY Ones DEF SbcSent, CmdDone, StopSent, At
<1>3. InCmd => /\ Head(calls) = "send_cmd"
               /\ Tail(calls) = IF R.data # None THEN Pio(Blocks, s) ELSE <<"finish_command">>
  BY SendsFirst DEF InCmd, At, SdConstants, R
<1>4. InData(0) => Head(calls) = "finish_data" /\ Tail(calls) = <<"finish_command">>
  BY <1>0, PioEnd, Twos DEF InData, At
<1>5. ASSUME NEW k \in Nat \ {0}, InData(k) PROVE Head(calls) = "transfer_pio" /\ Tail(calls) = Pio(k - 1, s)
  <2>1. calls = Pio(k, s) BY <1>5 DEF InData, At
  <2> HIDE DEF s
  <2> QED BY <1>0, <2>1, PioNext
<1>6. DataDone => Head(calls) = "transfer_complete" /\ Tail(calls) = <<>> BY Ones DEF DataDone, At
<1>7. InStop => Head(calls) = "send_stop" /\ Tail(calls) = <<"finish_command">> BY Twos DEF InStop, At
<1>8. Finishing => Head(calls) = "finish_request" /\ Tail(calls) = <<>> BY Ones DEF Finishing
<1>9. ASSUME NEW k \in Nat, InData(k) PROVE Head(calls) = IF k = 0 THEN "finish_data" ELSE "transfer_pio"
  BY <1>4, <1>5, <1>9
<1> HIDE DEF s
<1> QED BY <1>1, <1>2, <1>3, <1>4, <1>5, <1>6, <1>7, <1>8, <1>9 DEF s

\* A call is made only while a request is being worked on.
LEMMA CallWorks ==
  ASSUME SdInv, NEW name, Call(name)
  PROVE  /\ Working /\ (host.use_sbc <=> Closed(R)) /\ mutex \in Threads /\ calls # <<>> /\ Head(calls) = name
         /\ mutex # None /\ R \in Requests /\ host \in HostType /\ error \in BOOLEAN /\ warned = FALSE
  BY DEF SdInv, SdTypes, Call, R

\* nemu_send_command keeps the invariant.
LEMMA SdSend ==
  ASSUME SdConstants, SdInv, NEW c \in {"sbc", "cmd", "stop"}, nemu_send_command(c) PROVE SdInv'
<1>0. Call(Sends[c]) BY DEF nemu_send_command
<1>1. /\ Working /\ calls # <<>> /\ mutex # None /\ R \in Requests /\ host \in HostType
      /\ error \in BOOLEAN /\ warned = FALSE /\ Head(calls) = Sends[c]
  BY <1>0, CallWorks
<1>2. Sends["sbc"] = "send_sbc" /\ Sends["cmd"] = "send_cmd" /\ Sends["stop"] = "send_stop"
  BY DEF Sends
<1> DEFINE data == IF c = "cmd" THEN R.data ELSE None
<1>3. /\ calls' = Tail(calls) /\ sent' = Append(sent, c)
      /\ host' = [host EXCEPT !.cmd = c, !.data = data,
                              !.data_complete = IF data # None THEN FALSE ELSE host.data_complete]
      /\ warned' = (warned \/ host.cmd # None \/ host.data # None)
      /\ UNCHANGED <<thread, request, mutex, error, bytes_xfered, asked, done, report>>
  BY DEF nemu_send_command, Returns, Current, R
<1>4. data \in {None, "read", "write"} BY <1>1 DEF Requests
<1>5. host' \in HostType /\ (host'.use_sbc <=> host.use_sbc) /\ host'.cmd = c /\ host'.data = data
  BY <1>1, <1>3, <1>4 DEF HostType
<1>6. R' = R BY <1>3 DEF R
<1>7. CASE c = "sbc"
  <2>1. InSbc BY <1>1, <1>2, <1>7, Heads DEF Working
  <2>2. SbcSent' BY <1>3, <1>5, <1>6, <1>7, <2>1, <1>1, Heads, Appends DEF InSbc, SbcSent, At
  <2>3. warned' = FALSE /\ calls' # <<>> BY <1>1, <1>3, <2>1, <2>2, Ones DEF InSbc, SbcSent, At
  <2> QED BY <1>1, <1>3, <1>5, <2>2, <2>3, SdInside DEF Inside, Working
<1>8. CASE c = "cmd"
  <2>1. InCmd BY <1>1, <1>2, <1>8, Heads DEF Working
  <2>2. CASE R.data # None
    <3>1. InData(Blocks)' BY <1>3, <1>5, <1>6, <1>8, <2>1, <2>2, <1>1, Heads DEF InCmd, InData, At, Begun
    <3>2. Working' BY <3>1 DEF Working, SdConstants
    <3>3. Pio(Blocks, <<"finish_data", "finish_command">>) # <<>> BY PioSome DEF SdConstants
    <3>4. warned' = FALSE /\ calls' # <<>> BY <1>1, <1>3, <2>1, <3>1, <3>3 DEF InCmd, InData, At
    <3> QED BY <1>1, <1>3, <1>5, <3>2, <3>4, SdInside DEF Inside
  <2>3. CASE R.data = None
    <3>1. CmdDone' BY <1>3, <1>5, <1>6, <1>8, <2>1, <2>3, <1>1, Heads DEF InCmd, CmdDone, At, Begun, Counted
    <3>2. warned' = FALSE /\ calls' # <<>> BY <1>1, <1>3, <2>1, <3>1, Ones DEF InCmd, CmdDone, At
    <3> QED BY <1>1, <1>3, <1>5, <3>1, <3>2, SdInside DEF Inside, Working
  <2> QED BY <2>2, <2>3
<1>9. CASE c = "stop"
  <2>1. InStop BY <1>1, <1>2, <1>9, Heads DEF Working
  <2>2. StopSent' BY <1>3, <1>5, <1>6, <1>9, <2>1, <1>1, Heads DEF InStop, StopSent, At, AllSent, Counted
  <2>3. warned' = FALSE /\ calls' # <<>> BY <1>1, <1>3, <2>1, <2>2, Ones DEF InStop, StopSent, At
  <2> QED BY <1>1, <1>3, <1>5, <2>2, <2>3, SdInside DEF Inside, Working
<1> QED BY <1>7, <1>8, <1>9

\* nemu_transfer_pio and nemu_finish_data keep it.
LEMMA SdData ==
  ASSUME SdConstants, SdInv, nemu_transfer_pio \/ nemu_finish_data PROVE SdInv'
<1>1. CASE nemu_transfer_pio
  <2>0. Call("transfer_pio") BY <1>1 DEF nemu_transfer_pio
  <2>1. /\ Working /\ calls # <<>> /\ mutex # None /\ host \in HostType
        /\ error \in BOOLEAN /\ warned = FALSE /\ Head(calls) = "transfer_pio"
    BY <2>0, CallWorks
  <2>2. /\ calls' = Tail(calls) /\ error' \in BOOLEAN
        /\ UNCHANGED <<thread, request, mutex, host, bytes_xfered, sent, asked, done, report, warned>>
    BY <1>1, <2>1 DEF nemu_transfer_pio, Returns
  <2>3. PICK k \in Nat : InData(k) BY <2>1, Heads DEF Working
  <2>4. k # 0 BY <2>1, <2>3, Heads
  <2>5. InData(k - 1)' BY <2>1, <2>2, <2>3, <2>4, Heads DEF InData, At, R
  <2>6. Working' BY <2>4, <2>5 DEF Working
  <2>7. k - 1 \in Nat /\ calls' = Pio(k - 1, <<"finish_data", "finish_command">>) BY <2>4, <2>5 DEF InData, At
  <2>8. calls' # <<>> BY <2>7, PioSome
  <2> QED BY <2>1, <2>2, <2>6, <2>8, SdInside DEF Inside
<1>2. CASE nemu_finish_data
  <2>0. Call("finish_data") BY <1>2 DEF nemu_finish_data
  <2>1. /\ Working /\ calls # <<>> /\ mutex # None /\ host \in HostType
        /\ error \in BOOLEAN /\ warned = FALSE /\ Head(calls) = "finish_data"
    BY <2>0, CallWorks
  <2>2. InData(0)
    <3>1. PICK k \in Nat : InData(k) BY <2>1, Heads DEF Working
    <3>2. k = 0 BY <2>1, <3>1, Heads
    <3> QED BY <3>1, <3>2
  <2>3. host.cmd # None BY <2>2 DEF InData, At, None
  <2>4. /\ calls' = <<"finish_command">> /\ bytes_xfered' = (IF error THEN 0 ELSE Blocks)
        /\ host' = [host EXCEPT !.data_complete = TRUE]
        /\ UNCHANGED <<thread, request, mutex, error, sent, asked, done, report, warned>>
    BY <1>2, <2>1, <2>2, <2>3, Heads DEF nemu_finish_data, Returns
  <2>5. /\ host' \in HostType /\ (host'.use_sbc <=> host.use_sbc) /\ host'.cmd = host.cmd /\ host'.data = host.data
        /\ host'.data_complete = TRUE
    BY <2>1, <2>4 DEF HostType
  <2>6. R' = R BY <2>4 DEF R
  <2>7. CmdDone' BY <2>2, <2>4, <2>5, <2>6 DEF InData, CmdDone, At, Counted
  <2>8. calls' # <<>> BY <2>4, Ones
  <2> QED BY <2>1, <2>4, <2>5, <2>7, <2>8, SdInside DEF Inside, Working
<1> QED BY <1>1, <1>2

\* nemu_transfer_complete keeps it.
LEMMA SdComplete ==
  ASSUME SdConstants, SdInv, nemu_transfer_complete PROVE SdInv'
<1>0. Call("transfer_complete") BY DEF nemu_transfer_complete
<1>1. /\ Working /\ calls # <<>> /\ mutex # None /\ R \in Requests /\ host \in HostType
      /\ error \in BOOLEAN /\ warned = FALSE /\ Head(calls) = "transfer_complete"
      /\ (host.use_sbc <=> Closed(R))
  BY <1>0, CallWorks
<1>2. DataDone BY <1>1, Heads DEF Working
<1>3. Tail(calls) = <<>> BY <1>1, <1>2, Heads
<1>4. /\ warned' = (warned \/ ~ host.data_complete) /\ host' = [host EXCEPT !.data = None]
      /\ calls' = (IF R.stop /\ (error \/ ~ host.use_sbc) THEN <<"send_stop", "finish_command">>
                   ELSE <<"finish_request">>) \o <<>>
      /\ UNCHANGED <<thread, request, mutex, error, bytes_xfered, sent, asked, done, report>>
  BY <1>3 DEF nemu_transfer_complete, Current, R
<1>5. calls' = IF MustStop(R, error) THEN <<"send_stop", "finish_command">> ELSE <<"finish_request">>
  BY <1>1, <1>2, <1>4, Ones, Twos DEF MustStop, DataDone
<1>6. host' \in HostType /\ (host'.use_sbc <=> host.use_sbc) /\ host'.cmd = host.cmd /\ host'.data = None
  BY <1>1, <1>4 DEF HostType
<1>7. R' = R /\ warned' = FALSE BY <1>1, <1>2, <1>4 DEF R, DataDone
<1>8. CASE MustStop(R, error)
  <2>1. InStop' BY <1>2, <1>4, <1>5, <1>6, <1>7, <1>8 DEF DataDone, InStop, At, Counted
  <2> QED BY <1>1, <1>4, <1>5, <1>6, <1>7, <1>8, <2>1, Twos, SdInside DEF Inside, Working
<1>9. CASE ~ MustStop(R, error)
  <2>1. Finishing' BY <1>2, <1>4, <1>5, <1>6, <1>7, <1>9 DEF DataDone, Finishing, At, Counted, AllSent
  <2> QED BY <1>1, <1>4, <1>5, <1>6, <1>7, <1>9, <2>1, Ones, SdInside DEF Inside, Working
<1> QED BY <1>8, <1>9

\* nemu_finish_command keeps it.
LEMMA SdCommand ==
  ASSUME SdConstants, SdInv, nemu_finish_command PROVE SdInv'
<1>0. Call("finish_command") BY DEF nemu_finish_command
<1>1. /\ Working /\ calls # <<>> /\ mutex # None /\ R \in Requests /\ host \in HostType
      /\ error \in BOOLEAN /\ warned = FALSE /\ Head(calls) = "finish_command"
  BY <1>0, CallWorks
<1>2. SbcSent \/ CmdDone \/ StopSent
  <2>1. ~ \E k \in Nat : InData(k) BY <1>1, Heads
  <2> QED BY <1>1, <2>1, Heads DEF Working
<1>3. Tail(calls) = <<>> BY <1>1, <1>2, Heads
<1>4. /\ UNCHANGED <<thread, request, mutex, error, bytes_xfered, sent, asked, done, report, warned>>
      /\ R' = R /\ warned' = FALSE /\ error' \in BOOLEAN
  BY <1>1 DEF nemu_finish_command, R
<1>5. CASE SbcSent
  <2>1. host' = [host EXCEPT !.cmd = None] /\ calls' = SendAndFinish(mutex) \o <<>>
    BY <1>3, <1>5 DEF nemu_finish_command, SbcSent, At
  <2>2. host' \in HostType /\ (host'.use_sbc <=> host.use_sbc) /\ host'.cmd = None /\ host'.data = host.data
    BY <1>1, <2>1 DEF HostType
  <2>3. calls' = SendAndFinish(mutex) /\ calls' # <<>> BY <2>1, SendsFirst DEF SdConstants
  <2>4. SendAndFinish(mutex)' = SendAndFinish(mutex) BY <1>4 DEF SendAndFinish
  <2>5. InCmd' BY <1>4, <1>5, <2>2, <2>3, <2>4 DEF SbcSent, InCmd, At, Before
  <2> QED BY <1>1, <1>4, <2>2, <2>3, <2>5, SdInside DEF Inside, Working
<1>6. CASE StopSent
  <2>1. host' = host /\ calls' = <<"finish_request">> \o <<>>
    BY <1>3, <1>6 DEF nemu_finish_command, StopSent, At
  <2>2. Finishing' BY <1>4, <1>6, <2>1, Ones DEF StopSent, Finishing, At, Counted
  <2> QED BY <1>1, <1>4, <2>1, <2>2, Ones, SdInside DEF Inside, Working
<1>7. CASE CmdDone
  <2>1. host' = [host EXCEPT !.cmd = None]
        /\ calls' = (IF host.data = None THEN <<"finish_request">>
                     ELSE IF host.data_complete THEN <<"transfer_complete">> ELSE <<>>) \o <<>>
    BY <1>3, <1>7 DEF nemu_finish_command, CmdDone, At
  <2>2. /\ host' \in HostType /\ (host'.use_sbc <=> host.use_sbc) /\ host'.cmd = None /\ host'.data = host.data
        /\ (host'.data_complete <=> host.data_complete)
    BY <1>1, <2>1 DEF HostType
  <2>3. CASE R.data = None
    <3>1. calls' = <<"finish_request">> BY <1>7, <2>1, <2>3, Ones DEF CmdDone, At
    <3>2. Finishing' BY <1>4, <1>7, <2>3, <3>1 DEF CmdDone, Finishing, At, Counted, AllSent, MustStop
    <3> QED BY <1>1, <1>4, <2>2, <3>1, <3>2, Ones, SdInside DEF Inside, Working
  <2>4. CASE R.data # None
    <3>1. calls' = <<"transfer_complete">> BY <1>7, <2>1, <2>4, Ones DEF CmdDone, At
    <3>2. DataDone' BY <1>4, <1>7, <2>2, <2>4, <3>1 DEF CmdDone, DataDone, At, Counted
    <3> QED BY <1>1, <1>4, <2>2, <3>1, <3>2, Ones, SdInside DEF Inside, Working
  <2> QED BY <2>3, <2>4
<1> QED BY <1>2, <1>5, <1>6, <1>7

\* The commands of a whole request.
LEMMA SentAs ==
  ASSUME NEW r, NEW e
  PROVE  (IF Closed(r) THEN <<"sbc">> ELSE <<>>) \o <<"cmd">> \o (IF MustStop(r, e) THEN <<"stop">> ELSE <<>>)
           = AllSent(r, e)
<1> DEFINE S == {"sbc", "cmd", "stop"}
<1>1. <<>> \in Seq(S) /\ <<"sbc">> \in Seq(S) /\ <<"cmd">> \in Seq(S) /\ <<"stop">> \in Seq(S) OBVIOUS
<1>2. Before(r) \in Seq(S) BY <1>1 DEF Before
<1>3. Before(r) \o <<"cmd">> = Begun(r) /\ Begun(r) \in Seq(S)
  <2>1. "cmd" \in S OBVIOUS
  <2> QED BY <1>2, <2>1, AppendIsConcat, AppendProperties DEF Begun
<1>4. Begun(r) \o <<"stop">> = Append(Begun(r), "stop")
  <2>1. "stop" \in S OBVIOUS
  <2> HIDE DEF S
  <2> QED BY <1>3, <2>1, AppendIsConcat
<1>5. Begun(r) \o <<>> = Begun(r) BY <1>3, ConcatEmptySeq
<1> QED BY <1>3, <1>4, <1>5 DEF AllSent, Before

\* nemu_finish_request keeps it: the request is reported, and with what it did.
LEMMA SdFinish ==
  ASSUME SdConstants, SdInv, nemu_finish_request PROVE SdInv'
<1>0. Call("finish_request") BY DEF nemu_finish_request
<1>1. /\ Working /\ calls # <<>> /\ mutex \in Threads /\ R \in Requests /\ host \in HostType
      /\ error \in BOOLEAN /\ warned = FALSE /\ Head(calls) = "finish_request"
  BY <1>0, CallWorks
<1>2. Finishing
  <2>1. ~ \E k \in Nat : InData(k) BY <1>1, Heads
  <2> QED BY <1>1, <2>1, Heads DEF Working
<1>3. calls' = <<>> BY <1>1, <1>2, Heads DEF nemu_finish_request, Returns
<1>4. /\ host' = [host EXCEPT !.mrq = FALSE, !.cmd = None, !.data = None]
      /\ done' = [done EXCEPT ![mutex] = done[mutex] + 1]
      /\ report' = [refused |-> FALSE, request |-> R, error |-> error, bytes |-> bytes_xfered, sent |-> sent]
      /\ UNCHANGED <<thread, request, mutex, error, bytes_xfered, sent, asked, warned>>
  BY DEF nemu_finish_request, Complete, Current, R
<1>5. host' \in HostType /\ host'.mrq = FALSE /\ host'.cmd = None /\ host'.data = None
  BY <1>1, <1>4 DEF HostType
<1>6. Quiet' BY <1>3, <1>5 DEF Quiet
<1>7. SdTypes' BY <1>1, <1>4, <1>5 DEF SdInv, SdTypes
<1>8. EndsAsAsked'
  <2>1. report'.request = R /\ report'.sent = sent /\ report'.bytes = bytes_xfered BY <1>4
  <2>2. report'.error = error BY <1>1, <1>4
  <2>3. sent = (IF R.sbc /\ R.data = "read" THEN <<"sbc">> ELSE <<>>) \o <<"cmd">>
               \o (IF R.data # None /\ R.stop /\ (~(R.sbc /\ R.data = "read") \/ error) THEN <<"stop">> ELSE <<>>)
    BY <1>2, SentAs DEF Finishing, Closed, MustStop
  <2>4. R.data # None => bytes_xfered = IF error THEN 0 ELSE Blocks BY <1>2 DEF Finishing, Counted
  <2> QED BY <2>1, <2>2, <2>3, <2>4 DEF EndsAsAsked
<1>9. ASSUME NEW t \in Threads
      PROVE asked'[t] = done'[t] + Pending(t)' /\ (thread'[t] = "running" <=> t = mutex')
  <2>1. /\ asked[t] = done[t] + Pending(t) /\ (thread[t] = "running" <=> t = mutex) /\ done[t] \in Nat
        /\ done \in [Threads -> Nat]
    BY DEF SdInv, SdTypes
  <2>2. CASE t = mutex
    <3>1. Pending(t) = 1 /\ Pending(t)' = 0 BY <1>1, <1>3, <1>4, <2>1, <2>2 DEF Pending
    <3>2. done'[t] = done[t] + 1 BY <1>4, <2>1, <2>2
    <3> QED BY <1>4, <2>1, <3>1, <3>2
  <2>3. CASE t # mutex
    <3>1. Pending(t)' = Pending(t) BY <1>4, <2>1, <2>3 DEF Pending
    <3>2. done'[t] = done[t] BY <1>4, <2>1, <2>3
    <3> QED BY <1>4, <2>1, <3>1, <3>2
  <2> QED BY <2>2, <2>3
<1> QED BY <1>1, <1>3, <1>4, <1>6, <1>7, <1>8, <1>9 DEF SdInv

\* mutex_unlock keeps it.
LEMMA SdUnlock ==
  ASSUME SdConstants, SdInv, mutex_unlock PROVE SdInv'
<1>1. /\ mutex # None /\ calls = <<>> /\ thread' = [thread EXCEPT ![mutex] = "idle"] /\ mutex' = None
      /\ UNCHANGED <<request, host, error, bytes_xfered, calls, sent, asked, done, report, warned>>
  BY DEF mutex_unlock
<1>2. SdTypes /\ Quiet /\ mutex \in Threads BY <1>1 DEF SdInv, SdTypes
<1>3. SdTypes' BY <1>1, <1>2 DEF SdTypes
<1>4. Quiet' BY <1>1, <1>2 DEF Quiet
<1>5. EndsAsAsked' BY <1>1 DEF SdInv, EndsAsAsked
<1>6. ASSUME NEW t \in Threads
      PROVE asked'[t] = done'[t] + Pending(t)' /\ (thread'[t] = "running" <=> t = mutex')
  <2>1. asked[t] = done[t] + Pending(t) /\ (thread[t] = "running" <=> t = mutex) BY DEF SdInv
  <2>2. Pending(t)' = Pending(t) BY <1>1, <1>2, <2>1 DEF Pending, SdTypes
  <2>3. thread'[t] # "running" BY <1>1, <1>2, <2>1 DEF SdTypes
  <2> QED BY <1>1, <2>1, <2>2, <2>3 DEF SdConstants
<1> QED BY <1>1, <1>3, <1>4, <1>5, <1>6 DEF SdInv

\* mutex_lock keeps it.
LEMMA SdLock ==
  ASSUME SdConstants, SdInv, NEW t \in Threads, mutex_lock(t) PROVE SdInv'
<1> DEFINE r == request[t]
           use_sbc == r.sbc /\ r.data = "read"
<1>1. /\ thread[t] = "waiting" /\ mutex = None /\ mutex' = t /\ thread' = [thread EXCEPT ![t] = "running"]
      /\ warned' = (warned \/ host.mrq) /\ host' = [host EXCEPT !.mrq = TRUE, !.use_sbc = use_sbc]
      /\ calls' = (IF use_sbc THEN <<"send_sbc", "finish_command">> ELSE SendAndFinish(t))
      /\ error' = FALSE /\ bytes_xfered' = 0 /\ sent' = <<>>
      /\ UNCHANGED <<request, asked, done, report>>
  BY DEF mutex_lock
<1>2. SdTypes /\ Quiet /\ warned = FALSE /\ host \in HostType /\ r \in Requests BY <1>1 DEF SdInv, SdTypes
<1>3. warned' = FALSE BY <1>1, <1>2 DEF Quiet
<1>4. /\ host' \in HostType /\ host'.cmd = host.cmd /\ host'.data = host.data /\ (host'.use_sbc <=> use_sbc)
  <2>1. use_sbc \in BOOLEAN BY <1>2 DEF Requests
  <2> HIDE DEF use_sbc
  <2> QED BY <1>1, <1>2, <2>1 DEF HostType
<1>5. R' = r /\ (host'.use_sbc <=> Closed(R')) BY <1>1, <1>4 DEF R, Closed
<1>6. SdTypes' BY <1>1, <1>2, <1>4 DEF SdTypes
<1>7. EndsAsAsked' BY <1>1 DEF SdInv, EndsAsAsked
<1>8. Working' /\ calls' # <<>>
  <2>1. CASE use_sbc
    <3>1. InSbc' BY <1>1, <1>2, <1>4, <1>5, <2>1 DEF InSbc, At, Closed, Quiet
    <3> QED BY <1>1, <2>1, <3>1, Twos DEF Working
  <2>2. CASE ~ use_sbc
    <3>1. SendAndFinish(mutex)' = SendAndFinish(t) BY <1>1 DEF SendAndFinish
    <3>2. InCmd' BY <1>1, <1>2, <1>4, <1>5, <2>2, <3>1 DEF InCmd, At, Closed, Before, Quiet
    <3> QED BY <1>1, <2>2, <3>2, SendsFirst DEF Working, SdConstants
  <2> QED BY <2>1, <2>2
<1>9. ASSUME NEW u \in Threads
      PROVE asked'[u] = done'[u] + Pending(u)' /\ (thread'[u] = "running" <=> u = mutex')
  <2>1. asked[u] = done[u] + Pending(u) /\ (thread[u] = "running" <=> u = mutex) BY DEF SdInv
  <2>2. Pending(u)' = Pending(u) BY <1>1, <1>2, <1>8, <2>1 DEF Pending, SdTypes, SdConstants
  <2>3. thread'[u] = "running" <=> u = mutex' BY <1>1, <1>2, <2>1 DEF SdTypes, SdConstants
  <2> QED BY <1>1, <2>1, <2>2, <2>3
<1> QED BY <1>1, <1>3, <1>5, <1>6, <1>7, <1>8, <1>9 DEF SdInv, SdConstants

\* nemu_request keeps it: another thread may issue a request at any time.
LEMMA SdRequest ==
  ASSUME SdConstants, SdInv, NEW t \in Threads, NEW r \in Requests, nemu_request(t, r) PROVE SdInv'
<1>1. /\ thread[t] = "idle" /\ request' = [request EXCEPT ![t] = r] /\ asked' = [asked EXCEPT ![t] = asked[t] + 1]
      /\ UNCHANGED <<mutex, host, error, bytes_xfered, calls, sent, warned>>
  BY DEF nemu_request
<1>2. SdTypes /\ (thread[t] = "running" <=> t = mutex) BY DEF SdInv
<1>3. mutex # None => mutex \in Threads /\ t # mutex /\ R' = R BY <1>1, <1>2 DEF SdTypes, R
<1>4. IF mutex' # None /\ calls' # <<>> THEN Working' /\ (host'.use_sbc <=> Closed(R')) ELSE Quiet'
  <2>1. CASE mutex # None /\ calls # <<>>
    <3>1. Working /\ (host.use_sbc <=> Closed(R)) /\ R' = R BY <1>3, <2>1 DEF SdInv
    <3>2. request[mutex]' = request[mutex] BY <3>1 DEF R
    <3>3. SendAndFinish(mutex)' = SendAndFinish(mutex) BY <1>1, <3>2 DEF SendAndFinish
    <3>4. Working'
      BY <1>1, <3>1, <3>3 DEF Working, InSbc, SbcSent, InCmd, InData, CmdDone, DataDone, InStop, StopSent, Finishing,
         At, Counted
    <3> QED BY <1>1, <2>1, <3>1, <3>4
  <2>2. CASE ~ (mutex # None /\ calls # <<>>) BY <1>1, <2>2 DEF SdInv, Quiet
  <2> QED BY <2>1, <2>2
<1>5. CASE r.data # None /\ ~ r.power_of_2
  <2>1. /\ done' = [done EXCEPT ![t] = done[t] + 1] /\ report' = [refused |-> TRUE, request |-> r]
        /\ UNCHANGED thread
    BY <1>5 DEF nemu_request, Complete
  <2>2. SdTypes' BY <1>1, <1>2, <2>1 DEF SdTypes
  <2>3. EndsAsAsked' BY <2>1 DEF EndsAsAsked
  <2>4. ASSUME NEW u \in Threads
        PROVE asked'[u] = done'[u] + Pending(u)' /\ (thread'[u] = "running" <=> u = mutex')
    <3>1. asked[u] = done[u] + Pending(u) /\ (thread[u] = "running" <=> u = mutex) BY DEF SdInv
    <3>2. Pending(u)' = Pending(u) /\ Pending(u) \in Nat BY <1>1, <2>1 DEF Pending
    <3> QED BY <1>1, <1>2, <2>1, <3>1, <3>2 DEF SdTypes
  <2> QED BY <1>1, <1>4, <2>2, <2>3, <2>4 DEF SdInv
<1>6. CASE ~ (r.data # None /\ ~ r.power_of_2)
  <2>1. thread' = [thread EXCEPT ![t] = "waiting"] /\ UNCHANGED <<done, report>>
    BY <1>6 DEF nemu_request
  <2>2. SdTypes' BY <1>1, <1>2, <2>1 DEF SdTypes
  <2>3. EndsAsAsked' BY <2>1 DEF SdInv, EndsAsAsked
  <2>4. ASSUME NEW u \in Threads
        PROVE asked'[u] = done'[u] + Pending(u)' /\ (thread'[u] = "running" <=> u = mutex')
    <3>1. asked[u] = done[u] + Pending(u) /\ (thread[u] = "running" <=> u = mutex) BY DEF SdInv
    <3>2. thread'[u] = IF u = t THEN "waiting" ELSE thread[u] BY <1>2, <2>1 DEF SdTypes
    <3>3. Pending(u)' = (IF u = t THEN 1 ELSE Pending(u)) /\ (u = t => Pending(u) = 0) BY <1>1, <3>2 DEF Pending
    <3>4. asked'[u] = IF u = t THEN asked[u] + 1 ELSE asked[u] BY <1>1, <1>2 DEF SdTypes
    <3>5. asked[u] \in Nat /\ done[u] \in Nat BY <1>2 DEF SdTypes
    <3> QED BY <1>1, <2>1, <3>1, <3>2, <3>3, <3>4, <3>5
  <2> QED BY <1>1, <1>4, <2>2, <2>3, <2>4 DEF SdInv
<1> QED BY <1>5, <1>6

\* Every request to the SD card ends once, with the commands it needs and all of
\* its blocks or none, and no WARN_ON of resource/sdcard/nemu.c ever holds: for
\* any number of threads, requests and blocks.
THEOREM RequestsEnd == ASSUME SdConstants PROVE Spec => []RequestsEndOnce
<1>1. SdInv /\ [Next]_(vars) => SdInv'
  <2> SUFFICES ASSUME SdInv, [Next]_(vars) PROVE SdInv' OBVIOUS
  <2>1. CASE UNCHANGED vars
    <3>1. UNCHANGED <<thread, request, mutex, host, error, bytes_xfered, calls, sent, asked, done, report, warned>>
      BY <2>1 DEF vars
    <3>2. UNCHANGED <<R, SendAndFinish(mutex)>> BY <3>1 DEF R, SendAndFinish
    <3>3. Working' = Working
      BY <3>1, <3>2 DEF Working, InSbc, SbcSent, InCmd, InData, CmdDone, DataDone, InStop, StopSent, Finishing,
         At, Counted
    <3>4. SdTypes' /\ EndsAsAsked' /\ Quiet' = Quiet BY <3>1 DEF SdInv, SdTypes, EndsAsAsked, Quiet
    <3>5. \A t \in Threads : Pending(t)' = Pending(t) BY <3>1 DEF Pending
    <3> QED BY <3>1, <3>2, <3>3, <3>4, <3>5 DEF SdInv
  <2> QED BY <2>1, SdSend, SdData, SdComplete, SdCommand, SdFinish, SdUnlock, SdLock, SdRequest
      DEF Next, Driver
<1> QED BY <1>1, SdInit, SdOnce, PTL DEF Spec
=============================================================================
