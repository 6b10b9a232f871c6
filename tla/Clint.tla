------------------------------- MODULE Clint --------------------------------
\* The timer of isa/riscv64/clint.c. update_clint runs in the main thread, when
\* the guest touches the device or reads the time, and in the handler of
\* SIGVTALRM, which interrupts the main thread anywhere: in the middle of its
\* own update_clint, or between the load and the store of mip by a CSR write.
EXTENDS Integers

CONSTANTS MaxTime,        \* bound: the host's clock
          Compares        \* values the guest writes to mtimecmp

VARIABLES
  Deterministic,          \* CONFIG_DETERMINISTIC: time is counted in accesses
  now,                    \* get_time() - boot_time, in ticks of the timer
  mtime, mtimecmp,        \* clint_base
  mip,                    \* [mtip, other]: the timer bit, and a bit that software writes
  at,                     \* main thread: "idle" or the next step of what it does
  op,                     \* the operation: "read", "compare" or "csr"
  t_now, t_mip,           \* its temporaries
  got, last               \* the time the guest has read; ghost: and before that

vars == <<Deterministic, now, mtime, mtimecmp, mip, at, op, t_now, t_mip, got, last>>

\* The whole of update_clint, as the signal handler runs it.
update_clint ==
  /\ mtime' = now
  /\ mip' = [mip EXCEPT !.mtip = now >= mtimecmp]

-----------------------------------------------------------------------------
\* The clock of the host.
Tick == now < MaxTime /\ now' = now + 1
        /\ UNCHANGED <<Deterministic, mtime, mtimecmp, mip, at, op, t_now, t_mip, got, last>>

alarm_sig_handler ==
  /\ ~ Deterministic
  /\ update_clint
  /\ UNCHANGED <<Deterministic, now, mtimecmp, at, op, t_now, t_mip, got, last>>

\* The guest reads mtime: update_clint comes before the read of the register.
StartRead ==
  /\ at = "idle" /\ at' = "now" /\ op' = "read"
  /\ UNCHANGED <<Deterministic, now, mtime, mtimecmp, mip, t_now, t_mip, got, last>>

\* The guest writes mtimecmp: update_clint comes after the write.
StartCompare_only(c) ==
  /\ at = "idle" /\ at' = "idle" /\ op' = "compare" /\ mtimecmp' = c
  /\ UNCHANGED <<Deterministic, now, mtime, mip, t_now, t_mip, got, last>>
StartCompare(c) ==
  /\ at = "idle" /\ at' = "now" /\ op' = "compare" /\ mtimecmp' = c
  /\ UNCHANGED <<Deterministic, now, mtime, mip, t_now, t_mip, got, last>>

\* A CSR instruction changes the software bit of mip: a load, then a store.
StartCsr ==
  /\ at = "idle" /\ at' = "csr" /\ op' = "csr" /\ t_mip' = mip
  /\ UNCHANGED <<Deterministic, now, mtime, mtimecmp, mip, t_now, got, last>>

StoreCsr ==
  /\ at = "csr" /\ at' = "idle"
  /\ mip' = [t_mip EXCEPT !.other = ~ @]
  /\ UNCHANGED <<Deterministic, now, mtime, mtimecmp, op, t_now, t_mip, got, last>>

\* update_clint in the main thread: the clock, mtime, the comparison with the
\* load of mip, the store of mip.
GetTime ==
  /\ at = "now" /\ at' = "mtime"
  /\ t_now' = (IF Deterministic THEN mtime + 1 ELSE now)
  /\ UNCHANGED <<Deterministic, now, mtime, mtimecmp, mip, op, t_mip, got, last>>

SetTime ==
  /\ at = "mtime" /\ at' = "load" /\ mtime' = t_now
  /\ UNCHANGED <<Deterministic, now, mtimecmp, mip, op, t_now, t_mip, got, last>>

LoadMip ==
  /\ at = "load" /\ at' = "store"
  /\ t_mip' = [mip EXCEPT !.mtip = mtime >= mtimecmp]
  /\ UNCHANGED <<Deterministic, now, mtime, mtimecmp, mip, op, t_now, got, last>>

StoreMip ==
  /\ at = "store" /\ mip' = t_mip
  /\ at' = (IF op = "read" THEN "value" ELSE "idle")
  /\ UNCHANGED <<Deterministic, now, mtime, mtimecmp, op, t_now, t_mip, got, last>>

\* host_read, or the return of clint_uptime.
Value ==
  /\ at = "value" /\ at' = "idle"
  /\ got' = mtime /\ last' = got
  /\ UNCHANGED <<Deterministic, now, mtime, mtimecmp, mip, op, t_now, t_mip>>

Init ==
  /\ Deterministic \in BOOLEAN
  /\ now = 0 /\ mtime = 0 /\ mtimecmp = 0 /\ mip = [mtip |-> FALSE, other |-> FALSE]
  /\ at = "idle" /\ op = "read" /\ t_now = 0 /\ t_mip = mip /\ got = 0 /\ last = 0

Steps == GetTime \/ SetTime \/ LoadMip \/ StoreMip \/ Value \/ StoreCsr
Next ==
  \/ Tick \/ alarm_sig_handler
  \/ (Deterministic => mtime < MaxTime) /\ (StartRead \/ \E c \in Compares : StartCompare(c))
  \/ StartCsr \/ Steps

\* Instructions finish, and the alarm rings 60 times a second of the process.
Fairness == WF_vars(Steps) /\ WF_vars(alarm_sig_handler)
Spec == Init /\ [][Next]_vars /\ Fairness

-----------------------------------------------------------------------------
\* The registers have their types.
TypeOK ==
  /\ now \in 0 .. MaxTime /\ mtime \in 0 .. MaxTime + 1 /\ mtimecmp \in Compares \cup {0}
  /\ mip \in [mtip : BOOLEAN, other : BOOLEAN]

\* The time the guest reads never goes back, although mtime itself does when the
\* handler interrupts update_clint: every read makes an update of its own first.
TimeForward == last <= got

\* Between instructions the interrupt is not pending before its time: in
\* particular not after the guest has moved mtimecmp to the future.
NotEarly == at = "idle" /\ mip.mtip => mtime >= mtimecmp

\* The timer interrupt becomes pending once its time has come. A CSR write that
\* races with the handler may drop the bit, and the next alarm sets it again:
\* only a guest that never stops writing mip can miss the interrupt.
TimerFires ==
  ~ Deterministic /\ <>[](at # "csr") => (now >= mtimecmp ~> mip.mtip \/ now < mtimecmp)

\* The guest's time never runs backwards, whichever thread last updated it, and the
\* timer interrupt is not pending before its time.
TimerSound == TimeForward /\ NotEarly
=============================================================================
