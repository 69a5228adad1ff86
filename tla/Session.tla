------------------------------ MODULE Session ------------------------------
(***************************************************************************)
(* What one run of iskemu promises its user, without the execution loop:   *)
(* a guest program runs and pauses any number of times, and once it has    *)
(* halted it never runs again; the process exit status is good only after  *)
(* a good trap, after the user closed the window, or after the user asked  *)
(* to quit.                                                                *)
(***************************************************************************)

VARIABLES
  mode,     \* "paused", "running", "halted" or "over"
  good      \* whether the exit status would be 0 if the process ended now

vars == <<mode, good>>

Init ==
  /\ mode = "paused"
  /\ good = FALSE

Start ==
  /\ mode = "paused"
  /\ mode' = "running"
  /\ good' = FALSE

\* The window is closed; the loop has yet to notice.
CloseWindow ==
  /\ mode = "running"
  /\ good' = TRUE
  /\ UNCHANGED mode

Pause ==
  /\ mode = "running"
  /\ mode' = "paused"
  /\ UNCHANGED good

\* The guest traps (well or badly) or meets an invalid instruction.
Halt ==
  /\ mode = "running"
  /\ mode' = "halted"
  /\ good' \in BOOLEAN

\* End of input, or the end of a batch run.
Leave ==
  /\ mode # "over"
  /\ mode' = "over"
  /\ UNCHANGED good

Quit ==
  /\ mode \in {"paused", "halted"}
  /\ mode' = "over"
  /\ good' = TRUE

\* A failed assertion or a bad pointer ends the process.
Crash ==
  /\ mode # "over"
  /\ mode' = "over"
  /\ good' = FALSE

Next == Start \/ CloseWindow \/ Pause \/ Halt \/ Leave \/ Quit \/ Crash

Spec == Init /\ [][Next]_vars
=============================================================================
