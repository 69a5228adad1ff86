------------------------------- MODULE Engine -------------------------------
(***************************************************************************)
(* The core of iskemu: the debugger prompt (monitor/idb/idb.c), the        *)
(* execution loop cpu_exec/execute (cpu/cpu-exec.c), device_update         *)
(* (device/device.c) and the keyboard (module Keyboard), all on one        *)
(* thread, beside the host that puts events into SDL's queue at any time.  *)
(*                                                                         *)
(* phase is where that thread is: waiting at the prompt, evaluating        *)
(* expressions for a debugger command ("eval") or for check_wp ("check"),  *)
(* about to execute an instruction ("exec"), at the test of the state      *)
(* ("test"), entering device_update ("update") or inside its event loop    *)
(* ("poll"); or the process has returned from main or has died.            *)
(***************************************************************************)
EXTENDS Integers, Sequences

CONSTANTS
  CONFIG_DEBUG,    \* is CONFIG_DEBUG defined in include/common/config.h
  NR_WP,           \* size of the watchpoint pool
  MaxStep,         \* bound: the largest N of `si N'
  Forever,         \* the 2^64 - 1 instructions that `c' asks for
  MaxEvents,       \* bound: how many events the host ever queues
  KEY_QUEUE_LEN,   \* the keyboard's constants; see module Keyboard
  Keymap,
  Scancodes,
  Exprs,           \* the expressions a user may watch,
  Volatile,        \*   those of them whose value is not the machine's alone:
                   \*   they read the key, the clock or the serial input,
  Values           \*   and the values they may have

ASSUME EngineAssumption ==
  /\ CONFIG_DEBUG \in BOOLEAN
  /\ NR_WP \in Nat
  /\ MaxStep \in Nat
  /\ Forever \notin Nat
  /\ MaxEvents \in Nat
  /\ KEY_QUEUE_LEN \in Nat /\ KEY_QUEUE_LEN > 1
  /\ Volatile \subseteq Exprs /\ Values # {}

ASSUME KeymapAssumption ==
  /\ Keymap \in [0..255 -> 0..255]
  /\ Scancodes \subseteq Nat

VARIABLES
  state, halt_ret,   \* nemu_state; halt_ret is 0, or 1 for every other value
  phase,             \* where the thread is
  n,                 \* instructions left to execute, or Forever
  left,              \* expressions left to evaluate
  is_batch_mode,
  events,            \* SDL's event queue
  arrivals,          \* how many events were ever queued
  watched,           \* the watchpoints set, newest first: expr, last, and as
                     \*   history seen, the value when execute last tested
                     \*   the state, or when the watchpoint was set
  value,             \* what the expressions that are not volatile are worth
  sync,              \* is the low byte of the VGA sync register non-zero
  asked, ran,        \* history of this cpu_exec: instructions asked, executed
  extra,             \*   ... instructions executed since a close was noticed
  hit,               \*   ... check_wp saw a change
  trapped,           \* history: some instruction has ended the program
  key_queue, key_f, key_r, data, died, sent, got   \* module Keyboard

Kbd == INSTANCE Keyboard WITH MaxKeys <- MaxEvents

nemu == <<state, halt_ret>>
sdl  == <<events, arrivals>>
kbd  == <<key_queue, key_f, key_r, data, died, sent, got>>
watch == <<watched, value>>
run  == <<asked, ran, extra, hit>>
vars == <<nemu, phase, n, left, is_batch_mode, sdl, watch, sync, run,
          trapped, kbd>>

Steady == Exprs \ Volatile

Ended == {"END", "ABORT"}

InLoop == phase \in {"exec", "check", "test", "update", "poll"}

Alive == phase \notin {"exited", "crashed"}

Init ==
  /\ state = "STOP"
  /\ halt_ret = 0
  /\ phase = "prompt"
  /\ n = 0
  /\ left = 0
  /\ is_batch_mode \in BOOLEAN
  /\ events = <<>>
  /\ arrivals = 0
  /\ watched = <<>>
  /\ value \in [Steady -> Values]
  /\ sync = FALSE
  /\ asked = 0 /\ ran = 0 /\ extra = 0 /\ hit = FALSE
  /\ trapped = FALSE
  /\ Kbd!Init

-----------------------------------------------------------------------------
(* The host.                                                               *)

\* What the host can queue; when records whether the machine was running.
Event(when) ==
  {[type |-> "quit", when |-> when]} \cup
  [type : {"down", "up"}, scancode : Scancodes, when : {when}]

Now == IF InLoop THEN "running" ELSE "idle"

\* An event may enter SDL's queue whatever the emulator is doing.
Arrive ==
  /\ Alive
  /\ arrivals < MaxEvents
  /\ arrivals' = arrivals + 1
  /\ \E e \in Event(Now) : events' = Append(events, e)
  /\ UNCHANGED <<nemu, phase, n, left, is_batch_mode, watch, sync, run,
                 trapped, kbd>>

-----------------------------------------------------------------------------
(* cpu_exec, from the prompt into the loop and back.                       *)

\* Mutant: a program that has ended is started again.
CpuExecRestart(k) ==
  /\ state' = "RUNNING"
  /\ phase' = "exec"
  /\ n' = k
  /\ asked' = k /\ ran' = 0 /\ extra' = 0 /\ hit' = FALSE

\* Refused once the program has ended; else a window closed during an earlier
\* run is forgotten and k instructions are due.
CpuExec(k) ==
  \/ /\ state \in Ended
     /\ UNCHANGED <<state, phase, n, run>>
  \/ /\ state \notin Ended
     /\ state' = "RUNNING"
     /\ phase' = "exec"
     /\ n' = k
     /\ asked' = k /\ ran' = 0 /\ extra' = 0 /\ hit' = FALSE

\* Mutant: the tail of cpu_exec forgets why the loop was left.
ReturnStopped ==
  /\ state' = "STOP"
  /\ phase' = IF is_batch_mode THEN "exited" ELSE "prompt"

\* The tail of cpu_exec, and in batch mode the return from main behind it.
Return ==
  /\ state' = IF state = "RUNNING" THEN "STOP" ELSE state
  /\ phase' = IF is_batch_mode THEN "exited" ELSE "prompt"

-----------------------------------------------------------------------------
(* The debugger.  Every command line first empties SDL's queue.            *)

\* Mutant: what came in while the user was typing stays queued.
KeepEvents == UNCHANGED sdl

sdl_clear_event_queue == events' = <<>> /\ UNCHANGED arrivals

Command ==
  /\ phase = "prompt"
  /\ ~is_batch_mode
  /\ sdl_clear_event_queue
  /\ UNCHANGED is_batch_mode

\* `c', and `si N' with N # 0.
CmdExec ==
  /\ Command
  /\ \E k \in (1..MaxStep) \cup {Forever} : CpuExec(k)
  /\ UNCHANGED <<halt_ret, left, watch, sync, trapped, kbd>>

\* `p EXPR' and `x EXPR N' evaluate one expression, `info w' that of every
\* watchpoint.
CmdEval ==
  /\ Command
  /\ phase' = "eval"
  /\ left' \in {1, Len(watched)}
  /\ UNCHANGED <<nemu, n, watch, sync, run, trapped, kbd>>

\* What evaluating e now may answer.
Worth(e) == IF e \in Volatile THEN Values ELSE {value[e]}

\* Mutant: new_wp hands out a node that the pool does not have.
CmdWatchUnchecked ==
  /\ Command
  /\ \E e \in Exprs : \E v \in Worth(e) :
       watched' = <<[expr |-> e, last |-> v, seen |-> v]>> \o watched
  /\ phase' = "eval"
  /\ left' = 1
  /\ UNCHANGED <<nemu, n, value, sync, run, trapped, kbd>>

\* `w EXPR' takes a watchpoint out of the pool and evaluates it; its value is
\* recorded behind that evaluation, before which nothing reads it.
CmdWatch ==
  /\ Command
  /\ Len(watched) < NR_WP
  /\ \E e \in Exprs : \E v \in Worth(e) :
       watched' = <<[expr |-> e, last |-> v, seen |-> v]>> \o watched
  /\ phase' = "eval"
  /\ left' = 1
  /\ UNCHANGED <<nemu, n, value, sync, run, trapped, kbd>>

\* With an empty pool new_wp returns NULL, and watchpoint_add writes there.
CmdWatchFull ==
  /\ Command
  /\ Len(watched) = NR_WP
  /\ phase' = "crashed"
  /\ UNCHANGED <<nemu, n, left, watch, sync, run, trapped, kbd>>

\* `info' followed by blanks only: strtok's NULL is compared.
CmdInfoBlank ==
  /\ Command
  /\ phase' = "crashed"
  /\ UNCHANGED <<nemu, n, left, watch, sync, run, trapped, kbd>>

\* `d N' gives the N-th watchpoint back to the pool.
CmdDelete ==
  /\ Command
  /\ \E k \in 1..Len(watched) :
       watched' = [i \in 1..(Len(watched) - 1) |->
                     IF i < k THEN watched[i] ELSE watched[i + 1]]
  /\ UNCHANGED <<nemu, phase, n, left, value, sync, run, trapped, kbd>>

\* `help', `info r', `info i', an unknown command, a refused argument.
CmdOther ==
  /\ Command
  /\ UNCHANGED <<nemu, phase, n, left, watch, sync, run, trapped, kbd>>

CmdQuit ==
  /\ Command
  /\ state' = "QUIT"
  /\ phase' = "exited"
  /\ UNCHANGED <<halt_ret, n, left, watch, sync, run, trapped, kbd>>

\* readline returns NULL: the main loop is left with the state as it is.
EndOfInput ==
  /\ phase = "prompt"
  /\ ~is_batch_mode
  /\ phase' = "exited"
  /\ UNCHANGED <<nemu, n, left, is_batch_mode, sdl, watch, sync, run,
                 trapped, kbd>>

\* Batch mode runs `c' once, without emptying the queue.
BatchStart ==
  /\ phase = "prompt"
  /\ is_batch_mode
  /\ CpuExec(Forever)
  /\ UNCHANGED <<halt_ret, left, is_batch_mode, sdl, watch, sync, trapped,
                 kbd>>

-----------------------------------------------------------------------------
(* Evaluating expressions, at the prompt or in check_wp.                   *)

\* Mutant: the debugger looks at the oldest key without taking it.
EvalPeek ==
  /\ phase \in {"eval", "check"}
  /\ left > 0
  /\ data' = key_queue[key_f]
  /\ UNCHANGED <<nemu, phase, n, left, is_batch_mode, sdl, watch, sync, run,
                 trapped, key_queue, key_f, key_r, died, sent, got>>

\* An expression may dereference the keyboard's data port, any number of
\* times, and so take keys away from the guest ...
EvalDeref ==
  /\ phase \in {"eval", "check"}
  /\ left > 0
  /\ Kbd!ReadData
  /\ UNCHANGED <<nemu, phase, n, left, is_batch_mode, sdl, watch, sync, run,
                 trapped>>

\* ... or an address that no device answers.
EvalCrash ==
  /\ phase \in {"eval", "check"}
  /\ left > 0
  /\ phase' = "crashed"
  /\ UNCHANGED <<nemu, n, left, is_batch_mode, sdl, watch, sync, run,
                 trapped, kbd>>

\* Mutant: once the machine is stopped, values are no longer recorded.
CheckOneFirst(i, v) ==
  LET changed == v # watched[i].last IN
  /\ hit' = (hit \/ changed)
  /\ state' = IF changed THEN "STOP" ELSE state
  /\ watched' = IF hit THEN watched ELSE [watched EXCEPT ![i].last = v]

\* Watchpoint i of check_wp is worth v: a value other than the recorded one
\* stops the machine, whatever its state, and is recorded.
CheckOne(i, v) ==
  LET changed == v # watched[i].last IN
  /\ hit' = (hit \/ changed)
  /\ state' = IF changed THEN "STOP" ELSE state
  /\ watched' = [watched EXCEPT ![i].last = v]

\* The next expression has a value; check_wp goes through the list in order.
EvalEnd ==
  /\ left > 0
  /\ left' = left - 1
  /\ \/ phase = "eval" /\ UNCHANGED <<state, hit, watched>>
     \/ /\ phase = "check"
        /\ LET i == Len(watched) - left + 1
           IN  \E v \in Worth(watched[i].expr) : CheckOne(i, v)
  /\ UNCHANGED <<halt_ret, phase, n, is_batch_mode, sdl, value, sync, asked,
                 ran, extra, trapped, kbd>>

EvalDone ==
  /\ phase \in {"eval", "check"}
  /\ left = 0
  /\ phase' = IF phase = "eval" THEN "prompt" ELSE "test"
  /\ UNCHANGED <<nemu, n, left, is_batch_mode, sdl, watch, sync, run,
                 trapped, kbd>>

-----------------------------------------------------------------------------
(* execute: one instruction, the state test, device_update.                *)

\* What one instruction may do that the rest of the emulator notices.
Plain == UNCHANGED <<nemu, sync, kbd>>

LoadKey == Kbd!ReadData /\ UNCHANGED <<nemu, sync>>

StoreSync == sync' \in BOOLEAN /\ UNCHANGED <<nemu, kbd>>

Ebreak ==
  /\ state' = "END"
  /\ halt_ret' \in {0, 1}
  /\ UNCHANGED <<sync, kbd>>

InvalidInst ==
  /\ state' = "ABORT"
  /\ halt_ret' = 1
  /\ UNCHANGED <<sync, kbd>>

\* An access that fails an Assert or a panic; also invalid_inst when the word
\* after the invalid one cannot be fetched.
ExecFault ==
  /\ phase = "exec"
  /\ phase' = "crashed"
  /\ UNCHANGED <<nemu, n, left, is_batch_mode, sdl, watch, sync, run,
                 trapped, kbd>>

\* exec_once, which may change what any expression is worth; then
\* (CONFIG_DEBUG) trace_and_difftest's call of check_wp.
ExecOnce ==
  /\ phase = "exec"
  /\ Plain \/ LoadKey \/ StoreSync \/ Ebreak \/ InvalidInst
  /\ trapped' = (trapped \/ state' \in Ended)
  /\ ran' = IF asked = Forever THEN ran ELSE ran + 1
  /\ extra' = IF state = "QUIT" THEN extra + 1 ELSE extra
  /\ value' \in [Steady -> Values]
  /\ phase' = IF CONFIG_DEBUG THEN "check" ELSE "test"
  /\ left' = IF CONFIG_DEBUG THEN Len(watched) ELSE left
  /\ UNCHANGED <<n, is_batch_mode, sdl, watched, asked, hit>>

\* History: what the watched expressions are worth at this test.
Look == watched' = [i \in DOMAIN watched |->
  IF watched[i].expr \in Steady
  THEN [watched[i] EXCEPT !.seen = value[watched[i].expr]] ELSE watched[i]]

\* Mutant: a closed window does not leave the loop.
TestStateIgnoringQuit ==
  /\ phase = "test"
  /\ IF state \notin {"RUNNING", "QUIT"}
     THEN Return
     ELSE phase' = "update" /\ UNCHANGED state
  /\ Look
  /\ UNCHANGED <<halt_ret, n, left, is_batch_mode, sdl, value, sync, run,
                 trapped, kbd>>

TestState ==
  /\ phase = "test"
  /\ IF state # "RUNNING"
     THEN Return
     ELSE phase' = "update" /\ UNCHANGED state
  /\ Look
  /\ UNCHANGED <<halt_ret, n, left, is_batch_mode, sdl, value, sync, run,
                 trapped, kbd>>

\* Mutant: the last of several instructions is skipped.
LoopEndEarly ==
  LET rest == IF n = Forever THEN Forever ELSE n - 1
  IN  /\ n' = rest
      /\ IF rest \in {0, 1} THEN Return
                            ELSE phase' = "exec" /\ UNCHANGED state

\* No interrupt is ever pending (nothing sets cpu.intr): n-- and the loop's
\* condition.
LoopEnd ==
  LET rest == IF n = Forever THEN Forever ELSE n - 1
  IN  /\ n' = rest
      /\ IF rest = 0 THEN Return
                     ELSE phase' = "exec" /\ UNCHANGED state

\* Less than 1/60 s has passed since the devices were last updated.
UpdateSkip ==
  /\ phase = "update"
  /\ LoopEnd
  /\ UNCHANGED <<halt_ret, left, is_batch_mode, sdl, watch, sync, run,
                 trapped, kbd>>

\* Mutant: the request for a frame is not taken back.
vga_update_screen_keep == UNCHANGED <<sync, value>>

\* The register goes to zero; an expression that reads it changes with it.
vga_update_screen ==
  /\ sync' = FALSE
  /\ IF sync THEN value' \in [Steady -> Values] ELSE UNCHANGED value

UpdateDue ==
  /\ phase = "update"
  /\ vga_update_screen
  /\ phase' = "poll"
  /\ UNCHANGED <<nemu, n, left, is_batch_mode, sdl, watched, run, trapped,
                 kbd>>

\* Mutant: a window close is taken out of the queue and dropped.
PollQuitDropped == UNCHANGED <<state, phase, kbd>>

PollQuit ==
  /\ state' = "QUIT"
  /\ UNCHANGED <<phase, kbd>>

\* A key; the one too many fails the Assert in key_enqueue.
PollKey(e) ==
  /\ Kbd!SendKey(state = "RUNNING", e.scancode, e.type = "down")
  /\ phase' = IF died' THEN "crashed" ELSE phase
  /\ UNCHANGED state

\* Mutant: the event is looked at but left in the queue.
PollEventPeeked ==
  /\ phase = "poll"
  /\ events # <<>>
  /\ \/ Head(events).type = "quit" /\ PollQuit
     \/ Head(events).type # "quit" /\ PollKey(Head(events))
  /\ UNCHANGED <<halt_ret, n, left, is_batch_mode, sdl, watch, sync, run,
                 trapped>>

PollEvent ==
  /\ phase = "poll"
  /\ events # <<>>
  /\ events' = Tail(events)
  /\ \/ Head(events).type = "quit" /\ PollQuit
     \/ Head(events).type # "quit" /\ PollKey(Head(events))
  /\ UNCHANGED <<halt_ret, n, left, is_batch_mode, arrivals, watch, sync,
                 run, trapped>>

PollNone ==
  /\ phase = "poll"
  /\ events = <<>>
  /\ LoopEnd
  /\ UNCHANGED <<halt_ret, left, is_batch_mode, sdl, watch, sync, run,
                 trapped, kbd>>

-----------------------------------------------------------------------------

User ==
  \/ CmdExec \/ CmdEval \/ CmdWatch \/ CmdWatchFull \/ CmdInfoBlank
  \/ CmdDelete \/ CmdOther \/ CmdQuit \/ EndOfInput

\* What the thread does by itself, without the user.
Thread ==
  \/ BatchStart
  \/ EvalDeref \/ EvalEnd \/ EvalDone
  \/ ExecOnce \/ TestState
  \/ UpdateSkip \/ UpdateDue \/ PollEvent \/ PollNone

Fault == ExecFault \/ EvalCrash

Next == Arrive \/ User \/ Thread \/ Fault

\* The thread keeps running, and real time keeps passing: a loop that comes
\* back to device_update for ever finds the devices due again and again.
\* Nothing makes the user type a command or the host queue an event.
Fairness == WF_vars(Thread) /\ SF_vars(UpdateDue)

Spec == Init /\ [][Next]_vars /\ Fairness

-----------------------------------------------------------------------------

Events == Event("running") \cup Event("idle")

Counts == Nat \cup {Forever}

Watchpoint == [expr : Exprs, last : Values, seen : Values]

WatchTypeOK ==
  /\ watched \in Seq(Watchpoint) /\ Len(watched) <= NR_WP
  /\ value \in [Steady -> Values]

\* Every variable has its type, the keyboard's included.
ThreadTypeOK ==
  /\ state \in {"RUNNING", "STOP", "END", "ABORT", "QUIT"}
  /\ halt_ret \in {0, 1}
  /\ phase \in {"prompt", "eval", "exec", "check", "test", "update", "poll",
                "exited", "crashed"}
  /\ n \in Counts
  /\ left \in Nat
  /\ is_batch_mode \in BOOLEAN
  /\ events \in Seq(Events)
  /\ arrivals \in 0..MaxEvents
  /\ WatchTypeOK
  /\ sync \in BOOLEAN
  /\ asked \in Counts
  /\ ran \in Nat
  /\ extra \in Nat
  /\ hit \in BOOLEAN
  /\ trapped \in BOOLEAN

TypeOK == ThreadTypeOK /\ Kbd!TypeOK

\* Once an instruction has ended the program (ebreak or an invalid opcode),
\* the loop executes no further one: it neither goes on to device_update nor
\* is entered again by any later sequence of commands (the message of
\* cpu_exec, cpu-exec.c:104).
TrapIsFinal == trapped => phase \notin {"exec", "update", "poll"}

\* Once device_update has seen that the window was closed, the machine executes
\* at most one more instruction: the state is set behind the test of execute.
QuitLatency == extra <= 1

\* `si N' that comes back with the machine stopped, and no watchpoint hit, has
\* executed exactly N instructions, across every interleaving with events.
SteppedExactly ==
  phase = "prompt" /\ state = "STOP" /\ ~hit /\ asked # Forever => ran = asked

\* Away from batch mode, the running machine never sees an event that was
\* queued while the user was at the prompt.
NoStaleInput ==
  InLoop /\ ~is_batch_mode => \A i \in 1..Len(events) : events[i].when = "running"

\* The loop goes on behind an instruction only if every watched value is what it
\* was behind the instruction before, or when it was set, volatile ones apart:
\* what the instruction and device_update changed between them stops the
\* machine, one watchpoint among others, at any time of a run and in every later
\* one (the usage text of `w', idb.c:187).  A value that device_update changed
\* and the next instruction changes back is no change to check_wp.
WatchStops ==
  phase = "test" /\ state = "RUNNING" =>
    \A i \in DOMAIN watched :
      watched[i].expr \in Steady => value[watched[i].expr] = watched[i].seen

\* The process a user sees is a Session: the exit status (main.c:8) is good
\* iff the machine has ended well, was quit by its window, or by `q'.
Sn == INSTANCE Session WITH
  mode <- CASE ~Alive -> "over"
            [] Alive /\ state \in Ended -> "halted"
            [] Alive /\ state \notin Ended /\ InLoop -> "running"
            [] OTHER -> "paused",
  good <- /\ phase # "crashed"
          /\ \/ state = "END" /\ halt_ret = 0
             \/ state = "QUIT"

\* Every behaviour of the emulator is one of the abstract Session: a halted
\* program never runs again and the exit status tells how the session ended.
ImplementsSession == Sn!Init /\ [][Sn!Next]_(Sn!vars)

\* Within the emulator the keyboard still behaves as module Keyboard says, and
\* so as a FIFO: whoever reads the data port (guest or debugger), and whenever
\* events are polled, nothing else touches the ring, and nothing happens to it
\* after its Assert has failed (send_key, paddr_read).
ImplementsKeyboard == Kbd!Spec

\* A window closed during a run stops that run, however long the guest loops.
QuitStops ==
  (InLoop /\ \E i \in 1..Len(events) : events[i].type = "quit") ~> ~InLoop

\* `si N' comes back to the prompt, or the process ends.
StepTerminates == (InLoop /\ n # Forever) ~> ~InLoop

\* A frame the guest asks for is taken by vga_update_screen, or cancelled by
\* the guest, unless the run stops first.
FrameTaken == (InLoop /\ sync) ~> (~sync \/ ~InLoop)

=============================================================================
