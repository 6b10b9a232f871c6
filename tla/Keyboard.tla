------------------------------ MODULE Keyboard ------------------------------
\* The host events of device/device.c and the key queue of device/keyboard.c,
\* with the alarm signal that asks for an update and the loop of cpu_exec that
\* makes it. The signal handler runs between any two steps of the main thread.
EXTENDS Integers, Sequences

CONSTANTS KEY_QUEUE_LEN,
          Scancodes,   \* keys of the host
          Mapped,      \* those that keymap knows
          MaxEvents    \* bound: events of the host

VARIABLES
  state,               \* nemu_state: "RUNNING", "QUIT", or "DEAD" after a failed Assert
  at,                  \* main thread: "loop", "update", "poll" or "exec"
  device_update_flag,
  events, sent,        \* SDL's queue of events, and how many there were
  key_queue, key_f, key_r,
  port,                \* i8042_data_port_base[0]
  sync, shown,         \* the sync register of the screen; ghost: what it shows
  drawn                \* ghost: frames the guest has finished

vars == <<state, at, device_update_flag, events, sent, key_queue, key_f, key_r,
          port, sync, shown, drawn>>

KEY_NONE == 0
\* A key is pressed (positive) or released (negative).
Codes == Mapped \cup {-k : k \in Mapped}
Slots == 0 .. KEY_QUEUE_LEN - 1

SDL_QUIT == 0
KeyEvents == Scancodes \cup {-k : k \in Scancodes}

\* send_key
send_key_unchecked(code) ==
  /\ IF state = "RUNNING" /\ code \in Codes
     THEN key_queue' = [key_queue EXCEPT ![key_r] = code] /\ key_r' = (key_r + 1) % KEY_QUEUE_LEN
     ELSE UNCHANGED <<key_queue, key_r>>
  /\ UNCHANGED state
send_key(code) ==
  IF state = "RUNNING" /\ code \in Codes
  THEN /\ key_queue' = [key_queue EXCEPT ![key_r] = code]
       /\ key_r' = (key_r + 1) % KEY_QUEUE_LEN
       /\ state' = (IF key_r' = key_f THEN "DEAD" ELSE state)
  ELSE UNCHANGED <<key_queue, key_r, state>>

-----------------------------------------------------------------------------
\* The host: an event, or SIGVTALRM, whose handler calls set_device_update_flag.
HostEvent(e) ==
  /\ sent < MaxEvents /\ state = "RUNNING"
  /\ events' = Append(events, e) /\ sent' = sent + 1
  /\ UNCHANGED <<state, at, device_update_flag, key_queue, key_f, key_r, port, sync, shown, drawn>>

alarm_sig_handler ==
  /\ state # "DEAD"
  /\ device_update_flag' = TRUE
  /\ UNCHANGED <<state, at, events, sent, key_queue, key_f, key_r, port, sync, shown, drawn>>

\* The main thread. device_update tests the flag, clears it, updates the screen
\* and polls SDL until no event is left.
TestFlag ==
  /\ at = "loop" /\ state = "RUNNING"
  /\ at' = (IF device_update_flag THEN "update" ELSE "exec")
  /\ UNCHANGED <<state, device_update_flag, events, sent, key_queue, key_f, key_r, port, sync, shown, drawn>>

\* vga_update_screen comes after the flag is cleared.
Update ==
  /\ at = "update"
  /\ device_update_flag' = FALSE
  /\ shown' = (IF sync THEN drawn ELSE shown) /\ sync' = FALSE
  /\ at' = "poll"
  /\ UNCHANGED <<state, events, sent, key_queue, key_f, key_r, port, drawn>>

Poll ==
  /\ at = "poll" /\ state # "DEAD"
  /\ IF events = <<>>
     THEN /\ at' = "exec"
          /\ UNCHANGED <<state, events, key_queue, key_r>>
     ELSE /\ events' = Tail(events)
          /\ IF Head(events) = SDL_QUIT
             THEN state' = "QUIT" /\ UNCHANGED <<key_queue, key_r>>
             ELSE send_key(Head(events))
          /\ at' = at
  /\ UNCHANGED <<device_update_flag, sent, key_f, port, sync, shown, drawn>>

\* The guest reads the keyboard: i8042_data_io_handler.
ReadKey ==
  /\ at = "exec" /\ state # "DEAD"
  /\ IF key_f # key_r
     THEN port' = key_queue[key_f] /\ key_f' = (key_f + 1) % KEY_QUEUE_LEN
     ELSE port' = KEY_NONE /\ UNCHANGED key_f
  /\ UNCHANGED <<state, at, device_update_flag, events, sent, key_queue, key_r, sync, shown, drawn>>

\* The guest finishes a frame (they alternate between 0 and 1) and writes sync.
WriteSync ==
  /\ at = "exec" /\ state # "DEAD" /\ ~ sync
  /\ sync' = TRUE /\ drawn' = 1 - drawn
  /\ UNCHANGED <<state, at, device_update_flag, events, sent, key_queue, key_f, key_r, port, shown>>

EndOfBatch ==
  /\ at = "exec" /\ state = "RUNNING"
  /\ at' = "loop"
  /\ UNCHANGED <<state, device_update_flag, events, sent, key_queue, key_f, key_r, port, sync, shown, drawn>>

Ended == (state = "DEAD" \/ (state = "QUIT" /\ at = "exec")) /\ UNCHANGED vars

Init ==
  /\ state = "RUNNING" /\ at = "loop" /\ device_update_flag = FALSE
  /\ events = <<>> /\ sent = 0
  /\ key_queue = [i \in Slots |-> KEY_NONE] /\ key_f = 0 /\ key_r = 0 /\ port = KEY_NONE
  /\ sync = FALSE /\ shown = 0 /\ drawn = 0

MainThread == TestFlag \/ Update \/ Poll \/ EndOfBatch
Next ==
  \/ \E e \in KeyEvents \cup {SDL_QUIT} : HostEvent(e)
  \/ alarm_sig_handler
  \/ MainThread \/ ReadKey \/ WriteSync
  \/ Ended

\* The loop runs, and the virtual timer of the process ticks while it does.
Fairness == WF_vars(MainThread) /\ WF_vars(alarm_sig_handler)
Spec == Init /\ [][Next]_vars /\ Fairness

-----------------------------------------------------------------------------
\* The ring, its indices and the data port have their types.
TypeOK ==
  /\ key_queue \in [Slots -> Codes \cup {KEY_NONE}] /\ key_f \in Slots /\ key_r \in Slots
  /\ port \in Codes \cup {KEY_NONE}

\* The keys in the ring.
InRing ==
  LET n == (key_r - key_f + KEY_QUEUE_LEN) % KEY_QUEUE_LEN
  IN  IF state = "DEAD" THEN <<>>
      ELSE [i \in 1 .. n |-> key_queue[(key_f + i - 1) % KEY_QUEUE_LEN]]

\* The ring as a channel.
C == INSTANCE Channel WITH Values <- Codes, None <- KEY_NONE, Capacity <- KEY_QUEUE_LEN - 1,
                           q <- InRing, out <- port, failed <- (state = "DEAD")

\* The ring is a channel that holds one key less than it has slots: keys are
\* read in the order in which they were pressed and released, none is
\* overwritten, and the Assert of send_key comes before that could happen.
KeyboardIsChannel == C!Spec

\* No event of the host waits forever: every alarm asks for an update, and an
\* update takes all events off SDL's queue, those of unknown keys too.
EventsHandled == []<>(events = <<>> \/ state # "RUNNING")

\* Every frame the guest asks to be shown is shown, unless a newer one is.
FramesShown == sync ~> (~ sync /\ shown = drawn) \/ state # "RUNNING"
=============================================================================
