---------------------------- MODULE EngineProofs ----------------------------
(***************************************************************************)
(* Proofs about Engine, for every number of watchpoints, events and steps, *)
(* every key map and, where the statement does not say otherwise, with and *)
(* without CONFIG_DEBUG.                                                   *)
(*                                                                         *)
(* LoopInv says which states of nemu_state are possible at which point of  *)
(* the loop and how much of the asked for work is done there; the safety   *)
(* properties are its consequences.  ReleaseInv adds what only a build     *)
(* without CONFIG_DEBUG keeps, because check_wp can overwrite END.         *)
(***************************************************************************)
EXTENDS Engine, TLAPS

\* Where the thread is, what the state can be and what has been executed.
LoopInv ==
  /\ phase \in {"exec", "poll"} => state \in {"RUNNING", "QUIT"}
  /\ phase = "update" => state = "RUNNING"
  /\ phase \in {"check", "test"} /\ state = "STOP" => hit

\* No instruction is executed after the one that follows the notice of a
\* window close.
LatencyInv ==
  /\ extra \in {0, 1}
  /\ phase \in {"exec", "update", "poll"} => extra = 0
  /\ phase \in {"check", "test"} /\ state = "RUNNING" => extra = 0

\* The instructions executed and those left add up to those asked for.
StepInv ==
  /\ InLoop => (n = Forever <=> asked = Forever)
  /\ phase = "exec" /\ asked # Forever => n > 0 /\ ran + n = asked
  /\ phase \in {"check", "test", "update", "poll"} /\ asked # Forever =>
       n > 0 /\ ran + n = asked + 1
  /\ phase \in {"prompt", "eval"} /\ state = "STOP" /\ ~hit /\ asked # Forever =>
       ran = asked
  /\ phase \in {"prompt", "eval"} => state # "RUNNING"

\* Without CONFIG_DEBUG a trap stays in nemu_state until the process ends.
ReleaseInv ==
  /\ phase # "check"
  /\ trapped /\ Alive => state \in Ended
  /\ phase \in {"exec", "poll", "update"} => ~trapped

\* In a CONFIG_DEBUG build check_wp comes between an instruction and the test
\* of the state.  Outside it, the value recorded for a watchpoint is the one of
\* the last test (or of its setting), from which device_update may have led the
\* expression away since; check_wp makes the recorded value the present one, for
\* one watchpoint after the other, and where the two differed has stopped the
\* machine.
Checked(i) ==
  \/ phase = "test"
  \/ phase = "check" /\ i <= Len(watched) - left

Recorded(i) ==
  LET w == watched[i] IN
  w.expr \in Steady =>
    /\ Checked(i) => w.last = value[w.expr]
    /\ ~Checked(i) \/ ~hit => w.last = w.seen

WatchInv ==
  /\ phase \in {"exec", "update", "poll"} => ~hit
  /\ phase \in {"check", "test"} /\ hit => state # "RUNNING"
  /\ phase = "check" => left <= Len(watched)
  /\ phase \notin {"crashed", "exited"} => \A i \in DOMAIN watched : Recorded(i)

-----------------------------------------------------------------------------
(* The thread's control.                                                   *)

\* Every step keeps LoopInv.
LEMMA NextLoopInv ==
  ASSUME LoopInv, [Next]_vars
  PROVE  LoopInv'
<1> USE DEF nemu, run, LoopInv
<1>1. CASE Arrive
  BY <1>1 DEF Arrive
<1>2. CASE CmdExec
  BY <1>2 DEF CmdExec, Command, CpuExec
<1>3. CASE CmdEval
  BY <1>3 DEF CmdEval, Command
<1>4. CASE CmdWatch
  BY <1>4 DEF CmdWatch, Command
<1>5. CASE CmdWatchFull
  BY <1>5 DEF CmdWatchFull, Command
<1>6. CASE CmdInfoBlank
  BY <1>6 DEF CmdInfoBlank, Command
<1>7. CASE CmdDelete
  BY <1>7 DEF CmdDelete, Command
<1>8. CASE CmdOther
  BY <1>8 DEF CmdOther, Command
<1>9. CASE CmdQuit
  BY <1>9 DEF CmdQuit, Command
<1>10. CASE EndOfInput
  BY <1>10 DEF EndOfInput
<1>11. CASE BatchStart
  BY <1>11 DEF BatchStart, CpuExec
<1>12. CASE EvalDeref
  BY <1>12 DEF EvalDeref
<1>13. CASE EvalEnd
  BY <1>13 DEF EvalEnd, CheckOne
<1>14. CASE EvalDone
  BY <1>14 DEF EvalDone
<1>15. CASE ExecOnce
  BY <1>15 DEF ExecOnce, Plain, LoadKey, StoreSync, Ebreak, InvalidInst
<1>16. CASE TestState
  BY <1>16 DEF TestState, Return
<1>17. CASE UpdateSkip
  BY <1>17 DEF UpdateSkip, LoopEnd, Return
<1>18. CASE UpdateDue
  BY <1>18 DEF UpdateDue
<1>19. CASE PollEvent
  BY <1>19 DEF PollEvent, PollQuit, PollKey
<1>20. CASE PollNone
  BY <1>20 DEF PollNone, LoopEnd, Return
<1>21. CASE ExecFault
  BY <1>21 DEF ExecFault
<1>22. CASE EvalCrash
  BY <1>22 DEF EvalCrash
<1>23. CASE UNCHANGED vars
  BY <1>23 DEF vars
<1> QED BY <1>1, <1>2, <1>3, <1>4, <1>5, <1>6, <1>7, <1>8, <1>9, <1>10,
        <1>11, <1>12, <1>13, <1>14, <1>15, <1>16, <1>17, <1>18, <1>19, <1>20,
        <1>21, <1>22, <1>23 DEF Next, User, Thread, Fault

\* Every step keeps LatencyInv.
LEMMA NextLatencyInv ==
  ASSUME LoopInv, LatencyInv, [Next]_vars
  PROVE  LatencyInv'
<1> USE DEF nemu, run, LoopInv, LatencyInv
<1>1. CASE Arrive
  BY <1>1 DEF Arrive
<1>2. CASE CmdExec
  BY <1>2 DEF CmdExec, Command, CpuExec
<1>3. CASE CmdEval
  BY <1>3 DEF CmdEval, Command
<1>4. CASE CmdWatch
  BY <1>4 DEF CmdWatch, Command
<1>5. CASE CmdWatchFull
  BY <1>5 DEF CmdWatchFull, Command
<1>6. CASE CmdInfoBlank
  BY <1>6 DEF CmdInfoBlank, Command
<1>7. CASE CmdDelete
  BY <1>7 DEF CmdDelete, Command
<1>8. CASE CmdOther
  BY <1>8 DEF CmdOther, Command
<1>9. CASE CmdQuit
  BY <1>9 DEF CmdQuit, Command
<1>10. CASE EndOfInput
  BY <1>10 DEF EndOfInput
<1>11. CASE BatchStart
  BY <1>11 DEF BatchStart, CpuExec
<1>12. CASE EvalDeref
  BY <1>12 DEF EvalDeref
<1>13. CASE EvalEnd
  BY <1>13 DEF EvalEnd, CheckOne
<1>14. CASE EvalDone
  BY <1>14 DEF EvalDone
<1>15. CASE ExecOnce
  BY <1>15 DEF ExecOnce, Plain, LoadKey, StoreSync, Ebreak, InvalidInst
<1>16. CASE TestState
  BY <1>16 DEF TestState, Return
<1>17. CASE UpdateSkip
  BY <1>17 DEF UpdateSkip, LoopEnd, Return
<1>18. CASE UpdateDue
  BY <1>18 DEF UpdateDue
<1>19. CASE PollEvent
  BY <1>19 DEF PollEvent, PollQuit, PollKey
<1>20. CASE PollNone
  BY <1>20 DEF PollNone, LoopEnd, Return
<1>21. CASE ExecFault
  BY <1>21 DEF ExecFault
<1>22. CASE EvalCrash
  BY <1>22 DEF EvalCrash
<1>23. CASE UNCHANGED vars
  BY <1>23 DEF vars
<1> QED BY <1>1, <1>2, <1>3, <1>4, <1>5, <1>6, <1>7, <1>8, <1>9, <1>10,
        <1>11, <1>12, <1>13, <1>14, <1>15, <1>16, <1>17, <1>18, <1>19, <1>20,
        <1>21, <1>22, <1>23 DEF Next, User, Thread, Fault

\* Every step keeps StepInv.
LEMMA NextStepInv ==
  ASSUME ThreadTypeOK, LoopInv, StepInv, [Next]_vars
  PROVE  StepInv'
<1> USE DEF nemu, run, LoopInv, StepInv, ThreadTypeOK, Counts, InLoop
<1>1. CASE Arrive
  BY <1>1, EngineAssumption DEF Arrive
<1>2. CASE CmdExec
  BY <1>2, EngineAssumption DEF CmdExec, Command, CpuExec
<1>3. CASE CmdEval
  BY <1>3, EngineAssumption DEF CmdEval, Command
<1>4. CASE CmdWatch
  BY <1>4, EngineAssumption DEF CmdWatch, Command
<1>5. CASE CmdWatchFull
  BY <1>5, EngineAssumption DEF CmdWatchFull, Command
<1>6. CASE CmdInfoBlank
  BY <1>6, EngineAssumption DEF CmdInfoBlank, Command
<1>7. CASE CmdDelete
  BY <1>7, EngineAssumption DEF CmdDelete, Command
<1>8. CASE CmdOther
  BY <1>8, EngineAssumption DEF CmdOther, Command
<1>9. CASE CmdQuit
  BY <1>9, EngineAssumption DEF CmdQuit, Command
<1>10. CASE EndOfInput
  BY <1>10, EngineAssumption DEF EndOfInput
<1>11. CASE BatchStart
  BY <1>11, EngineAssumption DEF BatchStart, CpuExec
<1>12. CASE EvalDeref
  BY <1>12, EngineAssumption DEF EvalDeref
<1>13. CASE EvalEnd
  BY <1>13, EngineAssumption DEF EvalEnd, CheckOne
<1>14. CASE EvalDone
  BY <1>14, EngineAssumption DEF EvalDone
<1>15. CASE ExecOnce
  BY <1>15, EngineAssumption DEF ExecOnce, Plain, LoadKey, StoreSync, Ebreak,
        InvalidInst
<1>16. CASE TestState
  BY <1>16, EngineAssumption DEF TestState, Return
<1>17. CASE UpdateSkip
  BY <1>17, EngineAssumption DEF UpdateSkip, LoopEnd, Return
<1>18. CASE UpdateDue
  BY <1>18, EngineAssumption DEF UpdateDue
<1>19. CASE PollEvent
  BY <1>19, EngineAssumption DEF PollEvent, PollQuit, PollKey
<1>20. CASE PollNone
  BY <1>20, EngineAssumption DEF PollNone, LoopEnd, Return
<1>21. CASE ExecFault
  BY <1>21, EngineAssumption DEF ExecFault
<1>22. CASE EvalCrash
  BY <1>22, EngineAssumption DEF EvalCrash
<1>23. CASE UNCHANGED vars
  BY <1>23 DEF vars
<1> QED BY <1>1, <1>2, <1>3, <1>4, <1>5, <1>6, <1>7, <1>8, <1>9, <1>10,
        <1>11, <1>12, <1>13, <1>14, <1>15, <1>16, <1>17, <1>18, <1>19, <1>20,
        <1>21, <1>22, <1>23 DEF Next, User, Thread, Fault

\* Without CONFIG_DEBUG, every step keeps ReleaseInv.
LEMMA NextReleaseInv ==
  ASSUME ~CONFIG_DEBUG, LoopInv, ReleaseInv, [Next]_vars
  PROVE  ReleaseInv'
<1> USE DEF nemu, run, LoopInv, ReleaseInv, Ended, Alive
<1>1. CASE Arrive
  BY <1>1 DEF Arrive
<1>2. CASE CmdExec
  BY <1>2 DEF CmdExec, Command, CpuExec
<1>3. CASE CmdEval
  BY <1>3 DEF CmdEval, Command
<1>4. CASE CmdWatch
  BY <1>4 DEF CmdWatch, Command
<1>5. CASE CmdWatchFull
  BY <1>5 DEF CmdWatchFull, Command
<1>6. CASE CmdInfoBlank
  BY <1>6 DEF CmdInfoBlank, Command
<1>7. CASE CmdDelete
  BY <1>7 DEF CmdDelete, Command
<1>8. CASE CmdOther
  BY <1>8 DEF CmdOther, Command
<1>9. CASE CmdQuit
  BY <1>9 DEF CmdQuit, Command
<1>10. CASE EndOfInput
  BY <1>10 DEF EndOfInput
<1>11. CASE BatchStart
  BY <1>11 DEF BatchStart, CpuExec
<1>12. CASE EvalDeref
  BY <1>12 DEF EvalDeref
<1>13. CASE EvalEnd
  BY <1>13 DEF EvalEnd, CheckOne
<1>14. CASE EvalDone
  BY <1>14 DEF EvalDone
<1>15. CASE ExecOnce
  BY <1>15 DEF ExecOnce, Plain, LoadKey, StoreSync, Ebreak, InvalidInst
<1>16. CASE TestState
  BY <1>16 DEF TestState, Return
<1>17. CASE UpdateSkip
  BY <1>17 DEF UpdateSkip, LoopEnd, Return
<1>18. CASE UpdateDue
  BY <1>18 DEF UpdateDue
<1>19. CASE PollEvent
  BY <1>19 DEF PollEvent, PollQuit, PollKey
<1>20. CASE PollNone
  BY <1>20 DEF PollNone, LoopEnd, Return
<1>21. CASE ExecFault
  BY <1>21 DEF ExecFault
<1>22. CASE EvalCrash
  BY <1>22 DEF EvalCrash
<1>23. CASE UNCHANGED vars
  BY <1>23 DEF vars
<1> QED BY <1>1, <1>2, <1>3, <1>4, <1>5, <1>6, <1>7, <1>8, <1>9, <1>10,
        <1>11, <1>12, <1>13, <1>14, <1>15, <1>16, <1>17, <1>18, <1>19, <1>20,
        <1>21, <1>22, <1>23 DEF Next, User, Thread, Fault

-----------------------------------------------------------------------------
(* The thread's types.                                                     *)

\* How a step changes the watchpoints and what they are worth.
LEMMA WatchSteps ==
  ASSUME [Next]_vars
  PROVE  \/ UNCHANGED watch \/ CmdWatch \/ CmdDelete \/ EvalEnd
         \/ ExecOnce \/ TestState \/ UpdateDue
<1>1. CASE Arrive
  BY <1>1 DEF Arrive
<1>2. CASE CmdExec \/ CmdEval \/ CmdWatchFull \/ CmdInfoBlank
  BY <1>2 DEF CmdExec, CmdEval, CmdWatchFull, CmdInfoBlank
<1>3. CASE CmdOther \/ CmdQuit \/ EndOfInput
  BY <1>3 DEF CmdOther, CmdQuit, EndOfInput
<1>4. CASE CmdWatch \/ CmdDelete
  BY <1>4
<1>5. CASE Fault
  BY <1>5 DEF Fault, ExecFault, EvalCrash
<1>6. CASE BatchStart \/ EvalDeref \/ EvalDone
  BY <1>6 DEF BatchStart, EvalDeref, EvalDone
<1>7. CASE UpdateSkip \/ PollEvent \/ PollNone
  BY <1>7 DEF UpdateSkip, PollEvent, PollNone
<1>8. CASE EvalEnd \/ ExecOnce \/ TestState \/ UpdateDue
  BY <1>8
<1>9. CASE UNCHANGED vars
  BY <1>9 DEF vars
<1> QED BY <1>1, <1>2, <1>3, <1>4, <1>5, <1>6, <1>7, <1>8, <1>9
        DEF Next, User, Thread

\* What evaluating an expression answers is a value.
LEMMA WorthTyped ==
  ASSUME WatchTypeOK, NEW e \in Exprs
  PROVE  Worth(e) \subseteq Values
BY DEF WatchTypeOK, Worth, Steady

\* A sequence of watchpoints replaced one by one by watchpoints.
LEMMA WatchedTyped ==
  ASSUME WatchTypeOK, NEW s, s = [i \in DOMAIN watched |-> s[i]],
         \A i \in DOMAIN watched : s[i] \in Watchpoint
  PROVE  s \in Seq(Watchpoint) /\ Len(s) = Len(watched)
<1>1. DOMAIN watched = 1..Len(watched) /\ Len(watched) \in Nat
  BY DEF WatchTypeOK
<1> QED BY <1>1

\* What check_wp does to one watchpoint keeps their types ...
LEMMA CheckTypes ==
  ASSUME WatchTypeOK, NEW i, NEW v \in Worth(watched[i].expr), CheckOne(i, v)
  PROVE  watched' \in Seq(Watchpoint) /\ Len(watched') = Len(watched)
<1>1. watched' = [watched EXCEPT ![i].last = v]
  BY DEF CheckOne
<1>2. ASSUME NEW j \in DOMAIN watched
      PROVE  watched'[j] \in Watchpoint
  <2>1. watched[j] \in Watchpoint
    BY DEF WatchTypeOK
  <2>2. CASE j = i
    <3>1. v \in Values
      BY <2>1, <2>2, WorthTyped DEF Watchpoint
    <3>2. watched'[j] = [watched[j] EXCEPT !.last = v]
      BY <1>1, <2>2
    <3> QED BY <2>1, <3>1, <3>2 DEF Watchpoint
  <2>3. CASE j # i
    BY <1>1, <2>1, <2>3
  <2> QED BY <2>2, <2>3
<1>3. watched' = [j \in DOMAIN watched |-> watched'[j]]
  BY <1>1
<1> QED BY <1>2, <1>3, WatchedTyped

\* ... and so does the history that the test of the state writes.
LEMMA LookTypes ==
  ASSUME WatchTypeOK, Look
  PROVE  watched' \in Seq(Watchpoint) /\ Len(watched') = Len(watched)
<1>1. ASSUME NEW j \in DOMAIN watched
      PROVE  watched'[j] \in Watchpoint
  <2>1. watched[j] \in Watchpoint
    BY DEF WatchTypeOK
  <2>2. CASE watched[j].expr \in Steady
    <3>1. value[watched[j].expr] \in Values
      BY <2>2 DEF WatchTypeOK
    <3>2. watched'[j] = [watched[j] EXCEPT !.seen = value[watched[j].expr]]
      BY <2>2 DEF Look
    <3> QED BY <2>1, <3>1, <3>2 DEF Watchpoint
  <2>3. CASE watched[j].expr \notin Steady
    BY <2>1, <2>3 DEF Look
  <2> QED BY <2>2, <2>3
<1>2. watched' = [j \in DOMAIN watched |-> watched'[j]]
  BY DEF Look
<1> QED BY <1>1, <1>2, WatchedTyped

\* Every step keeps the types of the watchpoints.
LEMMA NextWatchTypeOK ==
  ASSUME WatchTypeOK, [Next]_vars
  PROVE  WatchTypeOK'
<1>1. CASE UNCHANGED watch
  BY <1>1 DEF watch, WatchTypeOK
<1>2. CASE CmdWatch
  <2>1. PICK e \in Exprs : \E v \in Worth(e) :
          watched' = <<[expr |-> e, last |-> v, seen |-> v]>> \o watched
    BY <1>2 DEF CmdWatch
  <2>2. PICK v \in Values :
          watched' = <<[expr |-> e, last |-> v, seen |-> v]>> \o watched
    BY <2>1, WorthTyped
  <2> DEFINE r == [expr |-> e, last |-> v, seen |-> v]
  <2>3. r \in Watchpoint
    BY DEF Watchpoint
  <2> HIDE DEF r
  <2>4. watched' = <<r>> \o watched
    BY <2>2 DEF r
  <2>5. /\ watched' \in Seq(Watchpoint)
        /\ Len(watched') = Len(watched) + 1
    BY <2>3, <2>4 DEF WatchTypeOK
  <2>6. Len(watched) < NR_WP /\ UNCHANGED value
    BY <1>2 DEF CmdWatch
  <2> QED BY <2>5, <2>6, EngineAssumption DEF WatchTypeOK, EngineAssumption
<1>3. CASE CmdDelete
  <2>1. PICK k \in 1..Len(watched) :
          watched' = [i \in 1..(Len(watched) - 1) |->
                        IF i < k THEN watched[i] ELSE watched[i + 1]]
    BY <1>3 DEF CmdDelete
  <2>2. Len(watched) - 1 \in Nat
    BY <2>1 DEF WatchTypeOK
  <2>3. \A i \in 1..(Len(watched) - 1) :
          (IF i < k THEN watched[i] ELSE watched[i + 1]) \in Watchpoint
    BY <2>1, <2>2 DEF WatchTypeOK
  <2>4. /\ watched' \in Seq(Watchpoint)
        /\ Len(watched') = Len(watched) - 1
    BY <2>1, <2>2, <2>3
  <2> QED BY <1>3, <2>4, EngineAssumption
          DEF CmdDelete, WatchTypeOK, EngineAssumption
<1>4. CASE EvalEnd
  <2>1. CASE UNCHANGED watched
    BY <1>4, <2>1 DEF EvalEnd, WatchTypeOK
  <2>2. CASE phase = "check"
    BY <1>4, <2>2, CheckTypes DEF EvalEnd, WatchTypeOK
  <2> QED BY <1>4, <2>1, <2>2 DEF EvalEnd
<1>5. CASE ExecOnce
  BY <1>5 DEF ExecOnce, WatchTypeOK
<1>6. CASE TestState
  <2>1. /\ watched' \in Seq(Watchpoint)
        /\ Len(watched') = Len(watched)
    BY <1>6, LookTypes DEF TestState
  <2> QED BY <1>6, <2>1 DEF TestState, WatchTypeOK
<1>7. CASE UpdateDue
  BY <1>7 DEF UpdateDue, vga_update_screen, WatchTypeOK
<1> QED BY <1>1, <1>2, <1>3, <1>4, <1>5, <1>6, <1>7, WatchSteps

\* A step that leaves the watchpoints and their values alone, and does not
\* enter or leave the checks, keeps what is recorded of each of them.
LEMMA RecordedKept ==
  ASSUME NEW i \in DOMAIN watched, Recorded(i), UNCHANGED watch,
         Checked(i)' <=> Checked(i), ~hit \/ hit' \/ ~Checked(i)
  PROVE  Recorded(i)'
BY DEF Recorded, watch

\* In a CONFIG_DEBUG build, every step keeps WatchInv.
LEMMA NextWatchInv ==
  ASSUME CONFIG_DEBUG, ThreadTypeOK, LoopInv, WatchInv, [Next]_vars
  PROVE  WatchInv'
<1> USE DEF nemu, run, LoopInv
<1>a. /\ Len(watched) \in Nat /\ left \in Nat
      /\ DOMAIN watched = 1..Len(watched)
  BY DEF ThreadTypeOK, WatchTypeOK
<1>b. ASSUME UNCHANGED watch, phase \notin {"check", "test"},
             phase \notin {"crashed", "exited"},
             phase' \notin {"check", "test"}
      PROVE  \A i \in DOMAIN watched' : Recorded(i)'
  BY <1>b, RecordedKept DEF watch, WatchInv, Checked
<1>c. ASSUME UNCHANGED <<watch, hit, phase, left>>,
             phase \notin {"crashed", "exited"}
      PROVE  \A i \in DOMAIN watched' : Recorded(i)'
  BY <1>c, RecordedKept DEF watch, WatchInv, Checked
<1>1. CASE Arrive
  BY <1>1, <1>c DEF Arrive, WatchInv, watch, Alive
<1>2. CASE CmdExec
  BY <1>2, <1>b DEF CmdExec, Command, CpuExec, WatchInv
<1>3. CASE CmdEval
  BY <1>3, <1>b DEF CmdEval, Command, WatchInv
<1>4. CASE CmdWatch
  <2>1. PICK r : r.last = r.seen /\ watched' = <<r>> \o watched
    BY <1>4 DEF CmdWatch
  <2>2. /\ DOMAIN watched' = 1..(Len(watched) + 1)
        /\ watched'[1] = r
        /\ \A i \in 2..(Len(watched) + 1) : watched'[i] = watched[i - 1]
    BY <1>a, <2>1 DEF ThreadTypeOK, WatchTypeOK
  <2>3. phase = "prompt" /\ phase' = "eval"
    BY <1>4 DEF CmdWatch, Command
  <2>4. ASSUME NEW i \in DOMAIN watched'
        PROVE  Recorded(i)'
    <3>1. CASE i = 1
      BY <2>1, <2>2, <2>3, <3>1 DEF Recorded, Checked
    <3>2. CASE i \in 2..(Len(watched) + 1)
      <4>1. i - 1 \in DOMAIN watched
        BY <1>a, <3>2
      <4>2. Recorded(i - 1)
        BY <2>3, <4>1 DEF WatchInv
      <4> QED BY <2>2, <2>3, <3>2, <4>2 DEF Recorded, Checked
    <3> QED BY <1>a, <2>2, <3>1, <3>2
  <2> QED BY <2>3, <2>4 DEF WatchInv
<1>5. CASE CmdWatchFull
  BY <1>5 DEF CmdWatchFull, Command, WatchInv
<1>6. CASE CmdInfoBlank
  BY <1>6 DEF CmdInfoBlank, Command, WatchInv
<1>7. CASE CmdDelete
  <2>1. PICK k \in 1..Len(watched) :
          watched' = [i \in 1..(Len(watched) - 1) |->
                        IF i < k THEN watched[i] ELSE watched[i + 1]]
    BY <1>7 DEF CmdDelete
  <2>2. phase = "prompt" /\ phase' = "prompt"
    BY <1>7 DEF CmdDelete, Command
  <2>3. ASSUME NEW i \in DOMAIN watched'
        PROVE  Recorded(i)'
    <3>1. PICK j \in DOMAIN watched : watched'[i] = watched[j]
      BY <1>a, <2>1
    <3>2. Recorded(j)
      BY <2>2 DEF WatchInv
    <3> QED BY <2>2, <3>1, <3>2 DEF Recorded, Checked
  <2> QED BY <2>2, <2>3 DEF WatchInv
<1>8. CASE CmdOther
  BY <1>8, <1>b DEF CmdOther, Command, WatchInv
<1>9. CASE CmdQuit
  BY <1>9 DEF CmdQuit, Command, WatchInv
<1>10. CASE EndOfInput
  BY <1>10 DEF EndOfInput, WatchInv
<1>11. CASE BatchStart
  BY <1>11, <1>b DEF BatchStart, CpuExec, WatchInv
<1>12. CASE EvalDeref
  BY <1>12, <1>c DEF EvalDeref, WatchInv, watch
<1>13. CASE EvalEnd
  <2>1. CASE phase = "eval"
    <3>1. UNCHANGED <<watch, phase>>
      BY <1>13, <2>1 DEF EvalEnd, watch
    <3> QED BY <1>b, <2>1, <3>1 DEF WatchInv
  <2>2. CASE phase = "check"
    <3> DEFINE c == Len(watched) - left + 1
    <3>1. PICK v \in Worth(watched[c].expr) : CheckOne(c, v)
      BY <1>13, <2>2 DEF EvalEnd
    <3>2. /\ UNCHANGED <<phase, value>>
          /\ left > 0 /\ left' = left - 1
          /\ left <= Len(watched)
      BY <1>13, <2>2 DEF EvalEnd, WatchInv
    <3>3. c \in DOMAIN watched
      BY <1>a, <3>2
    <3>4. /\ DOMAIN watched' = DOMAIN watched
          /\ Len(watched') = Len(watched)
      BY <3>1, CheckTypes DEF CheckOne, ThreadTypeOK
    <3>5. /\ hit' => state' # "RUNNING"
          /\ left' <= Len(watched')
      <4>1. hit => state # "RUNNING"
        BY <2>2 DEF WatchInv
      <4>2. hit' => state' # "RUNNING"
        BY <3>1, <4>1 DEF CheckOne
      <4> QED BY <1>a, <3>2, <3>4, <4>2
    <3>6. ASSUME NEW i \in DOMAIN watched'
          PROVE  Recorded(i)'
      <4>1. /\ i \in DOMAIN watched /\ i \in Nat
            /\ Recorded(i)
        BY <1>a, <2>2, <3>4 DEF WatchInv
      <4>2. CASE i # c
        <5>1. /\ watched'[i] = watched[i]
              /\ hit => hit'
          BY <3>1, <3>4, <4>2 DEF CheckOne
        <5>2. Checked(i)' <=> Checked(i)
          BY <1>a, <2>2, <3>2, <3>4, <4>1, <4>2 DEF Checked
        <5> QED BY <3>2, <4>1, <5>1, <5>2 DEF Recorded
      <4>3. CASE i = c
        <5>1. ~Checked(i) /\ Checked(i)'
          BY <1>a, <2>2, <3>2, <3>4, <4>3 DEF Checked
        <5>2. watched'[i] = [watched[i] EXCEPT !.last = v]
          BY <3>1, <3>3, <4>3 DEF CheckOne
        <5>3. watched[i] \in Watchpoint
          BY <3>4 DEF ThreadTypeOK, WatchTypeOK
        <5>4. /\ watched'[i].last = v
              /\ watched'[i].expr = watched[i].expr
              /\ watched'[i].seen = watched[i].seen
          BY <5>2, <5>3 DEF Watchpoint
        <5>5. watched[i].expr \in Steady => v = value[watched[i].expr]
          BY <3>1, <4>3 DEF Worth, Steady
        <5>6. ~hit' => ~hit /\ v = watched[i].last
          BY <3>1, <4>3 DEF CheckOne
        <5> QED BY <3>2, <4>1, <5>1, <5>4, <5>5, <5>6 DEF Recorded
      <4> QED BY <4>2, <4>3
    <3> QED BY <2>2, <3>2, <3>5, <3>6 DEF WatchInv
  <2> QED BY <1>13, <2>1, <2>2 DEF EvalEnd
<1>14. CASE EvalDone
  <2>1. CASE phase = "eval"
    <3>1. UNCHANGED watch /\ phase' = "prompt"
      BY <1>14, <2>1 DEF EvalDone
    <3> QED BY <1>b, <2>1, <3>1 DEF WatchInv
  <2>2. CASE phase = "check"
    <3>1. UNCHANGED <<watch, state, hit>> /\ phase' = "test" /\ left = 0
      BY <1>14, <2>2 DEF EvalDone
    <3>2. ASSUME NEW i \in DOMAIN watched'
          PROVE  Recorded(i)'
      <4>1. i \in DOMAIN watched
        BY <3>1 DEF watch
      <4>2. Recorded(i) /\ Checked(i) /\ Checked(i)'
        BY <1>a, <2>2, <3>1, <4>1 DEF WatchInv, Checked
      <4> QED BY <3>1, <4>1, <4>2, RecordedKept
    <3> QED BY <2>2, <3>1, <3>2 DEF WatchInv
  <2> QED BY <1>14, <2>1, <2>2 DEF EvalDone
<1>15. CASE ExecOnce
  <2>1. /\ phase = "exec" /\ phase' = "check"
        /\ left' = Len(watched)
        /\ UNCHANGED <<watched, hit>>
    BY <1>15 DEF ExecOnce
  <2>2. ASSUME NEW i \in DOMAIN watched'
        PROVE  Recorded(i)'
    <3>1. Recorded(i) /\ ~Checked(i) /\ ~Checked(i)'
      BY <1>a, <2>1 DEF WatchInv, Checked
    <3> QED BY <2>1, <3>1 DEF Recorded
  <2> QED BY <1>a, <2>1, <2>2 DEF WatchInv
<1>16. CASE TestState
  <2>1. /\ phase = "test" /\ phase' \in {"prompt", "exited", "update"}
        /\ phase' = "update" => state = "RUNNING"
        /\ UNCHANGED hit
        /\ Look
    BY <1>16 DEF TestState, Return
  <2>2. ASSUME NEW i \in DOMAIN watched'
        PROVE  Recorded(i)'
    <3>1. i \in DOMAIN watched /\ watched[i] \in Watchpoint
      BY <2>1 DEF Look, ThreadTypeOK, WatchTypeOK
    <3>2. Recorded(i) /\ Checked(i)
      BY <2>1, <3>1 DEF WatchInv, Checked
    <3>3. CASE watched[i].expr \in Steady
      <4>1. watched'[i] = [watched[i] EXCEPT !.seen = value[watched[i].expr]]
        BY <2>1, <3>1, <3>3 DEF Look
      <4>2. /\ watched'[i].last = watched[i].last
            /\ watched'[i].seen = value[watched[i].expr]
        BY <3>1, <4>1 DEF Watchpoint
      <4> QED BY <2>1, <3>2, <3>3, <4>2 DEF Recorded, Checked
    <3>4. CASE watched[i].expr \notin Steady
      BY <2>1, <3>1, <3>4 DEF Look, Recorded
    <3> QED BY <3>3, <3>4
  <2> QED BY <2>1, <2>2 DEF WatchInv
<1>17. CASE UpdateSkip
  BY <1>17, <1>b DEF UpdateSkip, LoopEnd, Return, WatchInv
<1>18. CASE UpdateDue
  <2>1. /\ phase = "update" /\ phase' = "poll"
        /\ UNCHANGED <<watched, hit>>
    BY <1>18 DEF UpdateDue
  <2>2. ASSUME NEW i \in DOMAIN watched'
        PROVE  Recorded(i)'
    <3>1. Recorded(i) /\ ~Checked(i) /\ ~Checked(i)'
      BY <2>1 DEF WatchInv, Checked
    <3> QED BY <2>1, <3>1 DEF Recorded
  <2> QED BY <2>1, <2>2 DEF WatchInv
<1>19. CASE PollEvent
  BY <1>19, <1>b DEF PollEvent, PollQuit, PollKey, WatchInv
<1>20. CASE PollNone
  BY <1>20, <1>b DEF PollNone, LoopEnd, Return, WatchInv
<1>21. CASE ExecFault
  BY <1>21 DEF ExecFault, WatchInv
<1>22. CASE EvalCrash
  BY <1>22 DEF EvalCrash, WatchInv
<1>23. CASE UNCHANGED vars
  BY <1>23, <1>c DEF vars, WatchInv, watch
<1> QED BY <1>1, <1>2, <1>3, <1>4, <1>5, <1>6, <1>7, <1>8, <1>9, <1>10,
        <1>11, <1>12, <1>13, <1>14, <1>15, <1>16, <1>17, <1>18, <1>19, <1>20,
        <1>21, <1>22, <1>23 DEF Next, User, Thread, Fault

\* The event the host queues is one of Events.
LEMMA ArriveEvents ==
  ASSUME ThreadTypeOK, Arrive
  PROVE  events' \in Seq(Events)
<1>1. PICK e \in Event(Now) : events' = Append(events, e)
  BY DEF Arrive
<1>2. Event(Now) \subseteq Events
  BY DEF Events, Now
<1> QED BY <1>1, <1>2 DEF ThreadTypeOK

\* The types of what cpu_exec assigns on its way into the loop ...
LEMMA CpuExecTypes ==
  ASSUME ThreadTypeOK, NEW k \in Counts, CpuExec(k)
  PROVE  /\ state' \in {"RUNNING", "STOP", "END", "ABORT", "QUIT"}
         /\ phase' \in {"prompt", "eval", "exec", "check", "test", "update",
                        "poll", "exited", "crashed"}
         /\ n' \in Counts
         /\ asked' \in Counts
         /\ ran' \in Nat
         /\ extra' \in Nat
         /\ hit' \in BOOLEAN
<1>1. CASE state \in Ended
  BY <1>1 DEF CpuExec, ThreadTypeOK, run
<1>2. CASE state \notin Ended
  <2>1. /\ state' = "RUNNING" /\ phase' = "exec"
        /\ n' = k /\ asked' = k /\ ran' = 0 /\ extra' = 0
    BY <1>2 DEF CpuExec
  <2>2. hit' \in BOOLEAN
    BY <1>2 DEF CpuExec
  <2> QED BY <2>1, <2>2
<1> QED BY <1>1, <1>2

\* ... and of what the end of the loop body assigns: n does not underflow.
LEMMA LoopEndTypes ==
  ASSUME ThreadTypeOK, StepInv, phase \in {"update", "poll"}, LoopEnd
  PROVE  /\ state' \in {"RUNNING", "STOP", "END", "ABORT", "QUIT"}
         /\ phase' \in {"prompt", "eval", "exec", "check", "test", "update",
                        "poll", "exited", "crashed"}
         /\ n' \in Counts
<1>1. n' \in Counts
  BY EngineAssumption DEF EngineAssumption, ThreadTypeOK, StepInv, InLoop,
     LoopEnd, Counts
<1>2. UNCHANGED state \/ state' = "STOP"
  BY DEF LoopEnd, Return
<1>3. phase' \in {"exec", "exited", "prompt"}
  BY DEF LoopEnd, Return
<1> QED BY <1>1, <1>2, <1>3 DEF ThreadTypeOK

\* Every step keeps the types of the thread's variables.
LEMMA NextThreadTypeOK ==
  ASSUME ThreadTypeOK, StepInv, [Next]_vars
  PROVE  ThreadTypeOK'
<1> USE DEF nemu, run, ThreadTypeOK, sdl
<1>a. WatchTypeOK'
  BY NextWatchTypeOK
<1>b. Len(watched) \in Nat
  BY DEF WatchTypeOK
<1>1. CASE Arrive
  BY <1>a, <1>1, ArriveEvents, EngineAssumption
  DEF Arrive, EngineAssumption, ThreadTypeOK, nemu, run
<1>2. CASE CmdExec
  <2>1. PICK k \in (1..MaxStep) \cup {Forever} : CpuExec(k)
    BY <1>2 DEF CmdExec
  <2>2. k \in Counts
    BY EngineAssumption DEF EngineAssumption, Counts
  <2> HIDE DEF Counts
  <2> QED BY <1>a, <1>2, <2>1, <2>2, CpuExecTypes
          DEF CmdExec, Command, sdl_clear_event_queue, ThreadTypeOK
<1>3. CASE CmdEval
  BY <1>a, <1>3, <1>b DEF CmdEval, Command, sdl_clear_event_queue
<1>4. CASE CmdWatch
  BY <1>a, <1>4 DEF CmdWatch, Command, sdl_clear_event_queue
<1>5. CASE CmdWatchFull
  BY <1>a, <1>5 DEF CmdWatchFull, Command, sdl_clear_event_queue
<1>6. CASE CmdInfoBlank
  BY <1>a, <1>6 DEF CmdInfoBlank, Command, sdl_clear_event_queue
<1>7. CASE CmdDelete
  BY <1>a, <1>7 DEF CmdDelete, Command, sdl_clear_event_queue
<1>8. CASE CmdOther
  BY <1>a, <1>8 DEF CmdOther, Command, sdl_clear_event_queue
<1>9. CASE CmdQuit
  BY <1>a, <1>9 DEF CmdQuit, Command, sdl_clear_event_queue
<1>10. CASE EndOfInput
  BY <1>a, <1>10 DEF EndOfInput
<1>11. CASE BatchStart
  <2>1. CpuExec(Forever) /\ Forever \in Counts
    BY <1>11 DEF BatchStart, Counts
  <2> QED BY <1>a, <1>11, <2>1, CpuExecTypes DEF BatchStart, ThreadTypeOK, sdl
<1>12. CASE EvalDeref
  BY <1>a, <1>12 DEF EvalDeref
<1>13. CASE EvalEnd
  <2>1. left' \in Nat /\ UNCHANGED <<halt_ret, phase, n, is_batch_mode, sdl,
                                    sync, asked, ran, extra, trapped>>
    BY <1>13 DEF EvalEnd
  <2>2. CASE UNCHANGED <<state, hit>>
    BY <1>a, <2>1, <2>2
  <2>3. CASE \E i, v : CheckOne(i, v)
    <3>1. hit' \in BOOLEAN /\ state' \in {state, "STOP"}
      BY <2>3 DEF CheckOne
    <3> QED BY <1>a, <2>1, <3>1
  <2> QED BY <1>13, <2>2, <2>3 DEF EvalEnd
<1>14. CASE EvalDone
  BY <1>a, <1>14 DEF EvalDone
<1>15. CASE ExecOnce
  <2>1. /\ state' \in {"RUNNING", "STOP", "END", "ABORT", "QUIT"}
        /\ halt_ret' \in {0, 1}
        /\ sync' \in BOOLEAN
    BY <1>15 DEF ExecOnce, Plain, LoadKey, StoreSync, Ebreak, InvalidInst,
       nemu, ThreadTypeOK
  <2>2. ran' \in Nat /\ extra' \in Nat /\ left' \in Nat
    BY <1>15, <1>b, EngineAssumption DEF ExecOnce, EngineAssumption, ThreadTypeOK
  <2>3. trapped' \in BOOLEAN
    BY <1>15 DEF ExecOnce, ThreadTypeOK
  <2>4. phase' \in {"check", "test"}
    BY <1>15 DEF ExecOnce
  <2> QED BY <1>a, <1>15, <2>1, <2>2, <2>3, <2>4 DEF ExecOnce, ThreadTypeOK, sdl
<1>16. CASE TestState
  BY <1>a, <1>16 DEF TestState, Return
<1>17. CASE UpdateSkip
  <2>1. phase \in {"update", "poll"} /\ LoopEnd
    BY <1>17 DEF UpdateSkip
  <2> QED BY <1>a, <1>17, <2>1, LoopEndTypes DEF UpdateSkip, ThreadTypeOK, sdl, run
<1>18. CASE UpdateDue
  BY <1>a, <1>18 DEF UpdateDue, vga_update_screen
<1>19. CASE PollEvent
  BY <1>a, <1>19 DEF PollEvent, PollQuit, PollKey
<1>20. CASE PollNone
  <2>1. phase \in {"update", "poll"} /\ LoopEnd
    BY <1>20 DEF PollNone
  <2> QED BY <1>a, <1>20, <2>1, LoopEndTypes DEF PollNone, ThreadTypeOK, sdl, run
<1>21. CASE ExecFault
  BY <1>a, <1>21 DEF ExecFault
<1>22. CASE EvalCrash
  BY <1>a, <1>22 DEF EvalCrash
<1>23. CASE UNCHANGED vars
  BY <1>a, <1>23 DEF vars
<1> QED BY <1>1, <1>2, <1>3, <1>4, <1>5, <1>6, <1>7, <1>8, <1>9, <1>10,
        <1>11, <1>12, <1>13, <1>14, <1>15, <1>16, <1>17, <1>18, <1>19, <1>20,
        <1>21, <1>22, <1>23 DEF Next, User, Thread, Fault

-----------------------------------------------------------------------------
(* The keyboard's types.                                                   *)

\* The keyboard's cursors stay in its ring.
LEMMA KbdNextSlot ==
  ASSUME NEW i \in Kbd!Slots
  PROVE  Kbd!NextSlot(i) \in Kbd!Slots
<1>1. KEY_QUEUE_LEN \in Nat /\ KEY_QUEUE_LEN > 1
  BY EngineAssumption DEF EngineAssumption
<1>2. (i + 1) % KEY_QUEUE_LEN \in 0..(KEY_QUEUE_LEN - 1)
  BY <1>1 DEF Kbd!Slots
<1> QED BY <1>2 DEF Kbd!Slots, Kbd!NextSlot

\* A read of the data port keeps the keyboard's types.
LEMMA KbdReadTypeOK ==
  ASSUME Kbd!TypeOK, Kbd!ReadData
  PROVE  Kbd!TypeOK'
<1>1. CASE Kbd!KeyDequeue
  <2>1. key_f' \in Kbd!Slots
    BY <1>1, KbdNextSlot DEF Kbd!TypeOK, Kbd!KeyDequeue
  <2>2. data' \in Kbd!Codes
    BY <1>1 DEF Kbd!TypeOK, Kbd!KeyDequeue
  <2>3. got' \in Seq(Kbd!Codes)
    BY <1>1, <2>2 DEF Kbd!TypeOK, Kbd!KeyDequeue
  <2> QED BY <1>1, <2>1, <2>2, <2>3 DEF Kbd!TypeOK, Kbd!KeyDequeue
<1>2. CASE Kbd!KeyNone
  <2>1. 0 \in Kbd!Codes
    BY DEF Kbd!Codes
  <2> QED BY <1>2, <2>1 DEF Kbd!TypeOK, Kbd!KeyNone, Kbd!ring
<1> QED BY <1>1, <1>2 DEF Kbd!ReadData

\* A key event keeps the keyboard's types.
LEMMA KbdSendTypeOK ==
  ASSUME Kbd!TypeOK, NEW running \in BOOLEAN, NEW s \in Scancodes,
         NEW down \in BOOLEAN, Kbd!SendKey(running, s, down)
  PROVE  Kbd!TypeOK'
<1>1. s % 256 \in 0..255
  <2>1. s \in Nat
    BY KeymapAssumption, Zenon DEF KeymapAssumption
  <2>2. \A q \in Nat : q % 256 \in 0..255
    OBVIOUS
  <2> QED BY <2>1, <2>2, Zenon
<1>2. CASE Kbd!KeyEnqueue(Kbd!AmScancode(s % 256, down))
  <2> DEFINE c == Kbd!AmScancode(s % 256, down)
  <2>1. c \in Kbd!Codes
    BY <1>1 DEF Kbd!Codes
  <2> HIDE DEF c
  <2>2. Kbd!KeyEnqueue(c)
    BY <1>2 DEF c
  <2>3. key_r' \in Kbd!Slots
    BY <2>2, KbdNextSlot DEF Kbd!TypeOK, Kbd!KeyEnqueue
  <2>4. key_queue' \in [Kbd!Slots -> Kbd!Codes]
    BY <2>1, <2>2 DEF Kbd!TypeOK, Kbd!KeyEnqueue
  <2>5. sent' \in Seq(Kbd!Codes)
    BY <2>1, <2>2 DEF Kbd!TypeOK, Kbd!KeyEnqueue
  <2> QED BY <2>2, <2>3, <2>4, <2>5 DEF Kbd!TypeOK, Kbd!KeyEnqueue
<1>3. CASE UNCHANGED Kbd!vars
  BY <1>3 DEF Kbd!vars, Kbd!TypeOK
<1> QED BY <1>2, <1>3 DEF Kbd!SendKey

\* Only reads of the data port and polled events touch the keyboard.
LEMMA KbdSteps ==
  ASSUME [Next]_vars
  PROVE  \/ UNCHANGED kbd
         \/ Kbd!ReadData /\ phase \in {"eval", "check", "exec"}
         \/ PollEvent
<1>1. CASE Arrive
  BY <1>1 DEF Arrive
<1>2. CASE CmdExec
  BY <1>2 DEF CmdExec
<1>3. CASE CmdEval
  BY <1>3 DEF CmdEval
<1>4. CASE CmdWatch
  BY <1>4 DEF CmdWatch
<1>5. CASE CmdWatchFull
  BY <1>5 DEF CmdWatchFull
<1>6. CASE CmdInfoBlank
  BY <1>6 DEF CmdInfoBlank
<1>7. CASE CmdDelete
  BY <1>7 DEF CmdDelete
<1>8. CASE CmdOther
  BY <1>8 DEF CmdOther
<1>9. CASE CmdQuit
  BY <1>9 DEF CmdQuit
<1>10. CASE EndOfInput
  BY <1>10 DEF EndOfInput
<1>11. CASE BatchStart
  BY <1>11 DEF BatchStart
<1>12. CASE EvalDeref
  BY <1>12 DEF EvalDeref
<1>13. CASE EvalEnd
  BY <1>13 DEF EvalEnd
<1>14. CASE EvalDone
  BY <1>14 DEF EvalDone
<1>15. CASE ExecOnce
  BY <1>15 DEF ExecOnce, Plain, LoadKey, StoreSync, Ebreak, InvalidInst
<1>16. CASE TestState
  BY <1>16 DEF TestState
<1>17. CASE UpdateSkip
  BY <1>17 DEF UpdateSkip
<1>18. CASE UpdateDue
  BY <1>18 DEF UpdateDue
<1>19. CASE PollEvent
  BY <1>19 DEF PollEvent
<1>20. CASE PollNone
  BY <1>20 DEF PollNone
<1>21. CASE ExecFault
  BY <1>21 DEF ExecFault
<1>22. CASE EvalCrash
  BY <1>22 DEF EvalCrash
<1>23. CASE UNCHANGED vars
  BY <1>23 DEF vars
<1> QED BY <1>1, <1>2, <1>3, <1>4, <1>5, <1>6, <1>7, <1>8, <1>9, <1>10,
        <1>11, <1>12, <1>13, <1>14, <1>15, <1>16, <1>17, <1>18, <1>19,
        <1>20, <1>21, <1>22, <1>23 DEF Next, User, Thread, Fault

\* A polled event that is no window close is a key of the host's.
LEMMA PolledKey ==
  ASSUME ThreadTypeOK, PollEvent, Head(events).type # "quit"
  PROVE  /\ Head(events).scancode \in Scancodes
         /\ (Head(events).type = "down") \in BOOLEAN
         /\ (state = "RUNNING") \in BOOLEAN
<1> DEFINE e == Head(events)
<1>1. e \in Events
  BY DEF PollEvent, ThreadTypeOK
<1>2. PICK w \in {"running", "idle"} :
        \/ e = [type |-> "quit", when |-> w]
        \/ e \in [type : {"down", "up"}, scancode : Scancodes, when : {w}]
  BY <1>1 DEF Events, Event
<1>3. e # [type |-> "quit", when |-> w]
  OBVIOUS
<1> HIDE DEF e
<1>4. e.scancode \in Scancodes
  BY <1>2, <1>3
<1> QED BY <1>4 DEF e

\* Every step keeps the keyboard's types.
LEMMA NextKbdTypeOK ==
  ASSUME ThreadTypeOK, Kbd!TypeOK, [Next]_vars
  PROVE  Kbd!TypeOK'
<1>1. CASE UNCHANGED kbd
  BY <1>1 DEF kbd, Kbd!TypeOK
<1>2. CASE Kbd!ReadData
  BY <1>2, KbdReadTypeOK
<1>3. CASE PollEvent
  <2>1. CASE PollQuit
    BY <1>1, <2>1 DEF PollQuit
  <2>2. CASE Head(events).type # "quit" /\ PollKey(Head(events))
    <3> DEFINE e == Head(events)
    <3>1. /\ e.scancode \in Scancodes
          /\ (e.type = "down") \in BOOLEAN
          /\ (state = "RUNNING") \in BOOLEAN
      BY <1>3, <2>2, PolledKey
    <3>2. Kbd!SendKey(state = "RUNNING", e.scancode, e.type = "down")
      BY <2>2 DEF PollKey
    <3> HIDE DEF e
    <3> QED BY <3>1, <3>2, KbdSendTypeOK
  <2> QED BY <1>3, <2>1, <2>2 DEF PollEvent
<1>4. UNCHANGED kbd \/ Kbd!ReadData \/ PollEvent
  BY KbdSteps
<1> QED BY <1>1, <1>2, <1>3, <1>4

-----------------------------------------------------------------------------
(* The theorems that hold with and without CONFIG_DEBUG.                   *)

IInv == ThreadTypeOK /\ Kbd!TypeOK /\ LoopInv /\ LatencyInv /\ StepInv

\* The initial states satisfy the invariant.
LEMMA InitIInv == Init => IInv
<1> SUFFICES ASSUME Init
             PROVE  IInv
  OBVIOUS
<1>1. ThreadTypeOK
  <2>1. 0 \in 0..MaxEvents /\ 0 \in Counts
    BY EngineAssumption DEF EngineAssumption, Counts
  <2>2. events \in Seq(Events)
    BY DEF Init
  <2>3. WatchTypeOK
    BY EngineAssumption DEF Init, WatchTypeOK, EngineAssumption
  <2> QED BY <2>1, <2>2, <2>3 DEF Init, ThreadTypeOK
<1>2. Kbd!TypeOK
  <2>1. 0 \in Kbd!Codes
    BY DEF Kbd!Codes
  <2>2. 0 \in Kbd!Slots
    BY EngineAssumption DEF EngineAssumption, Kbd!Slots
  <2>3. Kbd!Init
    BY DEF Init
  <2> QED BY <2>1, <2>2, <2>3 DEF Kbd!Init, Kbd!TypeOK
<1>3. LoopInv /\ LatencyInv
  BY DEF Init, LoopInv, LatencyInv
<1>4. StepInv
  BY DEF Init, StepInv, InLoop
<1> QED BY <1>1, <1>2, <1>3, <1>4 DEF IInv

\* Every step keeps the invariant.
LEMMA NextIInv == IInv /\ [Next]_vars => IInv'
BY NextThreadTypeOK, NextKbdTypeOK, NextLoopInv, NextLatencyInv, NextStepInv
   DEF IInv

\* The invariant holds in every reachable state.
LEMMA AlwaysIInv == Spec => []IInv
BY InitIInv, NextIInv, PTL DEF Spec

\* Every variable of the emulator, the keyboard's included, keeps its type; in
\* particular the loop's n never goes below 0.
THEOREM TypeCorrect == Spec => []TypeOK
<1>1. IInv => TypeOK
  BY DEF IInv, TypeOK
<1> QED BY <1>1, AlwaysIInv, PTL

\* A closed window stops the machine after at most one more instruction
\* (device_update sets NEMU_QUIT behind the test in execute).
THEOREM LatencyBound == Spec => []QuitLatency
<1>1. IInv => QuitLatency
  BY DEF IInv, LatencyInv, QuitLatency
<1> QED BY <1>1, AlwaysIInv, PTL

\* `si N' executes exactly N instructions unless something stops it.
THEOREM StepsAreExact == Spec => []SteppedExactly
<1>1. IInv => SteppedExactly
  BY DEF IInv, StepInv, SteppedExactly
<1> QED BY <1>1, AlwaysIInv, PTL

\* An event that arrives while the machine runs leaves a fresh queue fresh.
LEMMA ArriveFresh ==
  ASSUME ThreadTypeOK, NoStaleInput, InLoop, ~is_batch_mode,
         NEW e \in Event(Now), NEW i \in 1..Len(Append(events, e))
  PROVE  Append(events, e)[i].when = "running"
<1>1. e.when = "running"
  BY DEF Event, Now
<1>2. CASE i = Len(events) + 1
  BY <1>1, <1>2 DEF ThreadTypeOK
<1>3. CASE i # Len(events) + 1
  <2>1. i \in 1..Len(events)
    BY <1>3 DEF ThreadTypeOK
  <2>2. Append(events, e)[i] = events[i]
    BY <2>1 DEF ThreadTypeOK
  <2> QED BY <2>1, <2>2 DEF NoStaleInput
<1> QED BY <1>2, <1>3

\* Every step keeps the queue of a running machine fresh.
LEMMA NextNoStaleInput ==
  ASSUME ThreadTypeOK, NoStaleInput, [Next]_vars
  PROVE  NoStaleInput'
<1> USE DEF nemu, run, sdl, NoStaleInput
<1>1. CASE Arrive
  BY <1>1, ArriveFresh DEF Arrive, InLoop
<1>2. CASE CmdExec
  BY <1>2 DEF CmdExec, Command, CpuExec, InLoop, sdl_clear_event_queue
<1>3. CASE CmdEval
  BY <1>3 DEF CmdEval, Command, InLoop, sdl_clear_event_queue
<1>4. CASE CmdWatch
  BY <1>4 DEF CmdWatch, Command, InLoop, sdl_clear_event_queue
<1>5. CASE CmdWatchFull
  BY <1>5 DEF CmdWatchFull, Command, InLoop, sdl_clear_event_queue
<1>6. CASE CmdInfoBlank
  BY <1>6 DEF CmdInfoBlank, Command, InLoop, sdl_clear_event_queue
<1>7. CASE CmdDelete
  BY <1>7 DEF CmdDelete, Command, InLoop, sdl_clear_event_queue
<1>8. CASE CmdOther
  BY <1>8 DEF CmdOther, Command, InLoop, sdl_clear_event_queue
<1>9. CASE CmdQuit
  BY <1>9 DEF CmdQuit, Command, InLoop, sdl_clear_event_queue
<1>10. CASE EndOfInput
  BY <1>10 DEF EndOfInput, InLoop
<1>11. CASE BatchStart
  BY <1>11 DEF BatchStart, CpuExec, InLoop
<1>12. CASE EvalDeref
  BY <1>12 DEF EvalDeref, InLoop
<1>13. CASE EvalEnd
  BY <1>13 DEF EvalEnd, CheckOne, InLoop
<1>14. CASE EvalDone
  BY <1>14 DEF EvalDone, InLoop
<1>15. CASE ExecOnce
  BY <1>15 DEF ExecOnce, Plain, LoadKey, StoreSync, Ebreak, InvalidInst,
        InLoop
<1>16. CASE TestState
  BY <1>16 DEF TestState, Return, InLoop
<1>17. CASE UpdateSkip
  BY <1>17 DEF UpdateSkip, LoopEnd, Return, InLoop
<1>18. CASE UpdateDue
  BY <1>18 DEF UpdateDue, InLoop
<1>19. CASE PollEvent
  BY <1>19 DEF PollEvent, PollQuit, PollKey, InLoop
<1>20. CASE PollNone
  BY <1>20 DEF PollNone, LoopEnd, Return, InLoop
<1>21. CASE ExecFault
  BY <1>21 DEF ExecFault, InLoop
<1>22. CASE EvalCrash
  BY <1>22 DEF EvalCrash, InLoop
<1>23. CASE UNCHANGED vars
  BY <1>23 DEF vars, InLoop
<1> QED BY <1>1, <1>2, <1>3, <1>4, <1>5, <1>6, <1>7, <1>8, <1>9, <1>10,
        <1>11, <1>12, <1>13, <1>14, <1>15, <1>16, <1>17, <1>18, <1>19, <1>20,
        <1>21, <1>22, <1>23 DEF Next, User, Thread, Fault

\* The running machine never sees what was queued before the command that
\* started it (sdl_clear_event_queue in idb_mainloop), except in batch mode.
THEOREM InputIsFresh == Spec => []NoStaleInput
<1>1. Init => NoStaleInput
  BY DEF Init, NoStaleInput, InLoop
<1>2. IInv /\ NoStaleInput /\ [Next]_vars => NoStaleInput'
  BY NextNoStaleInput DEF IInv
<1> QED BY <1>1, <1>2, AlwaysIInv, PTL DEF Spec

-----------------------------------------------------------------------------
(* The theorems about a build without CONFIG_DEBUG.                        *)

\* In the default build a program that has ended is never executed again,
\* whatever commands follow (the message of cpu_exec).
THEOREM ReleaseTrapIsFinal ==
  ASSUME ~CONFIG_DEBUG
  PROVE  Spec => []TrapIsFinal
<1>1. Init => ReleaseInv
  BY DEF Init, ReleaseInv
<1>2. IInv /\ ReleaseInv /\ [Next]_vars => ReleaseInv'
  BY NextReleaseInv DEF IInv
<1>3. ReleaseInv => TrapIsFinal
  BY DEF ReleaseInv, TrapIsFinal
<1> QED BY <1>1, <1>2, <1>3, AlwaysIInv, PTL DEF Spec

\* Without CONFIG_DEBUG every step is a step of the Session or a stutter.
LEMMA StepIsSessionStep ==
  ASSUME ~CONFIG_DEBUG, ThreadTypeOK, LoopInv, ReleaseInv, StepInv, [Next]_vars
  PROVE  [Sn!Next]_(Sn!vars)
<1> USE DEF nemu, run, Sn!Next, Sn!vars, Sn!Start, Sn!CloseWindow, Sn!Pause,
        Sn!Halt, Sn!Leave, Sn!Quit, Sn!Crash, Alive, Ended, InLoop, LoopInv,
        ReleaseInv, ThreadTypeOK, StepInv
<1>1. CASE Arrive
  BY <1>1 DEF Arrive
<1>2. CASE CmdExec
  BY <1>2 DEF CmdExec, Command, CpuExec
<1>3. CASE CmdEval
  BY <1>3 DEF CmdEval, Command
<1>4. CASE CmdWatch
  BY <1>4 DEF CmdWatch, Command
<1>5. CASE CmdWatchFull
  BY <1>5 DEF CmdWatchFull, Command
<1>6. CASE CmdInfoBlank
  BY <1>6 DEF CmdInfoBlank, Command
<1>7. CASE CmdDelete
  BY <1>7 DEF CmdDelete, Command
<1>8. CASE CmdOther
  BY <1>8 DEF CmdOther, Command
<1>9. CASE CmdQuit
  BY <1>9 DEF CmdQuit, Command
<1>10. CASE EndOfInput
  BY <1>10 DEF EndOfInput
<1>11. CASE BatchStart
  BY <1>11 DEF BatchStart, CpuExec
<1>12. CASE EvalDeref
  BY <1>12 DEF EvalDeref
<1>13. CASE EvalEnd
  BY <1>13 DEF EvalEnd, CheckOne
<1>14. CASE EvalDone
  BY <1>14 DEF EvalDone
<1>15. CASE ExecOnce
  BY <1>15 DEF ExecOnce, Plain, LoadKey, StoreSync, Ebreak, InvalidInst
<1>16. CASE TestState
  BY <1>16 DEF TestState, Return
<1>17. CASE UpdateSkip
  BY <1>17 DEF UpdateSkip, LoopEnd, Return
<1>18. CASE UpdateDue
  BY <1>18 DEF UpdateDue
<1>19. CASE PollEvent
  BY <1>19 DEF PollEvent, PollQuit, PollKey
<1>20. CASE PollNone
  BY <1>20 DEF PollNone, LoopEnd, Return
<1>21. CASE ExecFault
  BY <1>21 DEF ExecFault
<1>22. CASE EvalCrash
  BY <1>22 DEF EvalCrash
<1>23. CASE UNCHANGED vars
  BY <1>23 DEF vars
<1> QED BY <1>1, <1>2, <1>3, <1>4, <1>5, <1>6, <1>7, <1>8, <1>9, <1>10,
        <1>11, <1>12, <1>13, <1>14, <1>15, <1>16, <1>17, <1>18, <1>19, <1>20,
        <1>21, <1>22, <1>23 DEF Next, User, Thread, Fault

\* In the default build the emulator is a Session: a halted program never runs
\* again, and the exit status of the process tells how the session ended
\* (cpu_exec, execute, device_update, cmd_q, idb_mainloop and main together).
THEOREM ReleaseImplementsSession ==
  ASSUME ~CONFIG_DEBUG
  PROVE  Spec => ImplementsSession
<1>1. Init => Sn!Init
  BY DEF Init, Sn!Init, Alive, Ended, InLoop
<1>2. Init => ReleaseInv
  BY DEF Init, ReleaseInv
<1>3. IInv /\ ReleaseInv /\ [Next]_vars => ReleaseInv'
  BY NextReleaseInv DEF IInv
<1>4. IInv /\ ReleaseInv /\ [Next]_vars => [Sn!Next]_(Sn!vars)
  BY StepIsSessionStep DEF IInv
<1> QED BY <1>1, <1>2, <1>3, <1>4, AlwaysIInv, PTL DEF Spec, ImplementsSession

-----------------------------------------------------------------------------
(* The theorem about a build with CONFIG_DEBUG.                            *)

\* In a CONFIG_DEBUG build the machine goes on behind an instruction only if
\* every watched value that is not volatile is what it was at the test behind
\* the instruction before, or when the watchpoint was set: for any number of
\* watchpoints and values, although check_wp compares with the values it has
\* recorded (trace_and_difftest, check_wp, the test in execute and
\* vga_update_screen; the usage text of `w').
THEOREM DebugWatchStops ==
  ASSUME CONFIG_DEBUG
  PROVE  Spec => []WatchStops
<1>1. Init => WatchInv
  BY DEF Init, WatchInv
<1>2. IInv /\ WatchInv /\ [Next]_vars => WatchInv'
  BY NextWatchInv DEF IInv
<1>3. IInv /\ WatchInv => WatchStops
  <2> SUFFICES ASSUME IInv, WatchInv, phase = "test", state = "RUNNING",
                      NEW i \in DOMAIN watched, watched[i].expr \in Steady
               PROVE  value[watched[i].expr] = watched[i].seen
    BY DEF WatchStops
  <2>1. ~hit /\ Recorded(i)
    BY DEF WatchInv
  <2> QED BY <2>1 DEF Recorded, Checked
<1> QED BY <1>1, <1>2, <1>3, AlwaysIInv, PTL DEF Spec

-----------------------------------------------------------------------------
(* The keyboard inside the emulator: Engine implements module Keyboard, and *)
(* so inherits what module KeyboardProofs proves of it.                     *)

\* A keyboard that has died has taken the process with it, and no code was
\* accepted that is not one of the events that have arrived.
KbdInv ==
  /\ died => phase = "crashed"
  /\ Len(sent) + Len(events) <= arrivals

\* How a step changes SDL's queue.
LEMMA SdlSteps ==
  ASSUME [Next]_vars
  PROVE  UNCHANGED sdl \/ Arrive \/ sdl_clear_event_queue \/ PollEvent
<1>1. CASE Arrive
  BY <1>1
<1>2. CASE CmdExec \/ CmdEval \/ CmdWatch \/ CmdWatchFull \/ CmdInfoBlank
  BY <1>2 DEF CmdExec, CmdEval, CmdWatch, CmdWatchFull, CmdInfoBlank, Command
<1>3. CASE CmdDelete \/ CmdOther \/ CmdQuit
  BY <1>3 DEF CmdDelete, CmdOther, CmdQuit, Command
<1>4. CASE EndOfInput
  BY <1>4 DEF EndOfInput
<1>5. CASE BatchStart
  BY <1>5 DEF BatchStart
<1>6. CASE EvalDeref \/ EvalEnd \/ EvalDone \/ EvalCrash
  BY <1>6 DEF EvalDeref, EvalEnd, EvalDone, EvalCrash
<1>7. CASE ExecOnce \/ ExecFault
  BY <1>7 DEF ExecOnce, ExecFault
<1>8. CASE TestState \/ UpdateSkip \/ UpdateDue \/ PollNone
  BY <1>8 DEF TestState, UpdateSkip, UpdateDue, PollNone
<1>9. CASE PollEvent
  BY <1>9
<1>10. CASE UNCHANGED vars
  BY <1>10 DEF vars
<1> QED BY <1>1, <1>2, <1>3, <1>4, <1>5, <1>6, <1>7, <1>8, <1>9, <1>10
        DEF Next, User, Thread, Fault

\* A process that has crashed takes no further step.
LEMMA CrashedStays ==
  ASSUME [Next]_vars, phase = "crashed"
  PROVE  UNCHANGED vars
<1>1. ~Arrive
  BY DEF Arrive, Alive
<1>2. ~User
  BY DEF User, CmdExec, CmdEval, CmdWatch, CmdWatchFull, CmdInfoBlank,
         CmdDelete, CmdOther, CmdQuit, EndOfInput, Command
<1>3. ~Thread
  BY DEF Thread, BatchStart, EvalDeref, EvalEnd, EvalDone, ExecOnce, TestState,
         UpdateSkip, UpdateDue, PollEvent, PollNone
<1>4. ~Fault
  BY DEF Fault, ExecFault, EvalCrash
<1> QED BY <1>1, <1>2, <1>3, <1>4 DEF Next

\* Reads of the data port neither accept a code nor kill the process.
LEMMA ReadIsQuiet ==
  ASSUME Kbd!ReadData
  PROVE  UNCHANGED <<sent, died>>
BY DEF Kbd!ReadData, Kbd!KeyDequeue, Kbd!KeyNone

\* A polled event makes at most one code, and crashes iff the keyboard dies.
LEMMA PollCounts ==
  ASSUME ThreadTypeOK, Kbd!TypeOK, PollEvent, ~died
  PROVE  /\ Len(sent') <= Len(sent) + 1
         /\ Len(events') = Len(events) - 1
         /\ died' => phase' = "crashed"
         /\ arrivals' = arrivals
<1>1. Len(events') = Len(events) - 1
  BY DEF PollEvent, ThreadTypeOK
<1>2. CASE PollQuit
  <2>1. UNCHANGED <<sent, died>>
    BY <1>2 DEF PollQuit, kbd
  <2> QED BY <1>1, <2>1 DEF Kbd!TypeOK, PollEvent
<1>3. CASE PollKey(Head(events))
  <2>1. UNCHANGED <<sent, died>> \/ \E c : sent' = Append(sent, c)
    BY <1>3 DEF PollKey, Kbd!SendKey, Kbd!KeyEnqueue, Kbd!vars
  <2>2. Len(sent') <= Len(sent) + 1
    BY <2>1 DEF Kbd!TypeOK
  <2> QED BY <1>1, <1>3, <2>2 DEF PollKey, PollEvent
<1> QED BY <1>2, <1>3 DEF PollEvent

\* Every step keeps KbdInv.
LEMMA NextKbdInv ==
  ASSUME ThreadTypeOK, Kbd!TypeOK, StepInv, KbdInv, [Next]_vars
  PROVE  KbdInv'
<1>1. CASE died
  BY <1>1, CrashedStays DEF KbdInv, vars, kbd, sdl
<1>2. CASE ~died /\ PollEvent
  BY <1>2, PollCounts DEF KbdInv, ThreadTypeOK, Kbd!TypeOK
<1>3. CASE ~died /\ ~PollEvent
  <2>1. UNCHANGED <<sent, died>>
    BY <1>3, KbdSteps, ReadIsQuiet DEF kbd
  <2>2. UNCHANGED sdl \/ Arrive \/ sdl_clear_event_queue
    BY <1>3, SdlSteps
  <2>3. Len(events') <= Len(events) + (arrivals' - arrivals)
    <3>1. CASE UNCHANGED sdl
      BY <3>1 DEF sdl, ThreadTypeOK
    <3>2. CASE Arrive
      <4>1. PICK e : events' = Append(events, e)
        BY <3>2 DEF Arrive
      <4> QED BY <3>2, <4>1 DEF Arrive, ThreadTypeOK
    <3>3. CASE sdl_clear_event_queue
      BY <3>3 DEF sdl_clear_event_queue, ThreadTypeOK
    <3> QED BY <2>2, <3>1, <3>2, <3>3
  <2>4. arrivals \in Nat /\ arrivals' \in Nat
    <3>1. arrivals \in 0..MaxEvents /\ arrivals' \in 0..MaxEvents
      BY NextThreadTypeOK DEF ThreadTypeOK
    <3>2. MaxEvents \in Nat
      BY EngineAssumption DEF EngineAssumption
    <3> QED BY <3>1, <3>2
  <2>5. Len(events) \in Nat /\ Len(events') \in Nat
    BY NextThreadTypeOK DEF ThreadTypeOK
  <2>6. Len(sent) \in Nat
    BY DEF Kbd!TypeOK
  <2> QED BY <1>3, <2>1, <2>3, <2>4, <2>5, <2>6 DEF KbdInv
<1> QED BY <1>1, <1>2, <1>3

\* Every step of the emulator is a step of its keyboard, or leaves it alone.
LEMMA StepIsKeyboardStep ==
  ASSUME ThreadTypeOK, Kbd!TypeOK, KbdInv, [Next]_vars
  PROVE  [Kbd!Next]_(Kbd!vars)
<1>1. CASE UNCHANGED kbd
  BY <1>1 DEF kbd, Kbd!vars
<1>2. CASE Kbd!ReadData /\ phase \in {"eval", "check", "exec"}
  BY <1>2 DEF KbdInv, Kbd!Next
<1>3. CASE PollEvent
  <2>1. CASE PollQuit
    BY <1>1, <2>1 DEF PollQuit
  <2>2. CASE Head(events).type # "quit" /\ PollKey(Head(events))
    <3>1. ~died
      BY <1>3 DEF PollEvent, KbdInv
    <3>2. Len(sent) < MaxEvents
      <4>1. Len(events) > 0
        BY <1>3 DEF PollEvent, ThreadTypeOK
      <4> QED BY <4>1, EngineAssumption
              DEF KbdInv, ThreadTypeOK, Kbd!TypeOK, EngineAssumption
    <3>3. Kbd!SendKey(state = "RUNNING", Head(events).scancode,
                      Head(events).type = "down")
      BY <2>2 DEF PollKey
    <3> QED BY <1>3, <2>2, <3>1, <3>2, <3>3, PolledKey DEF Kbd!Next
  <2> QED BY <1>3, <2>1, <2>2 DEF PollEvent
<1> QED BY <1>1, <1>2, <1>3, KbdSteps

\* The initial states satisfy KbdInv.
LEMMA InitKbdInv == Init => KbdInv
BY DEF Init, Kbd!Init, KbdInv

\* Inside the emulator the keyboard behaves as module Keyboard says, whoever
\* reads its port, and whenever events are polled or thrown away.
THEOREM EngineImplementsKeyboard == Spec => ImplementsKeyboard
<1>1. Init => Kbd!Init
  BY DEF Init
<1>2. IInv /\ KbdInv /\ [Next]_vars => KbdInv'
  BY NextKbdInv DEF IInv
<1>3. IInv /\ KbdInv /\ [Next]_vars => [Kbd!Next]_(Kbd!vars)
  BY StepIsKeyboardStep DEF IInv
<1> QED BY <1>1, <1>2, <1>3, InitKbdInv, AlwaysIInv, PTL
        DEF Spec, ImplementsKeyboard, Kbd!Spec

Kp == INSTANCE KeyboardProofs WITH MaxKeys <- MaxEvents

\* No key is lost, repeated or reordered between SDL and the guest, by any
\* interleaving of events, instructions and debugger commands.
THEOREM EngineKeysAreFifo == Spec => Kp!ImplementsFifo
<1>1. Kp!KeyboardAssumption
  <2>1. MaxEvents \in Nat /\ KEY_QUEUE_LEN \in Nat /\ KEY_QUEUE_LEN > 1
    BY EngineAssumption, Zenon DEF EngineAssumption
  <2> QED BY <2>1, KeymapAssumption, Zenon
          DEF Kp!KeyboardAssumption, KeymapAssumption
<1>2. Kp!Spec => Kp!ImplementsFifo
  BY <1>1, Kp!RingImplementsFifo, Zenon
<1>3. Kbd!Init => Kp!Init
  BY DEF Kbd!Init, Kp!Init, Kbd!Slots, Kp!Slots
<1>4. [Kbd!Next]_(Kbd!vars) => [Kp!Next]_(Kp!vars)
  BY DEF Kbd!Next, Kp!Next, Kbd!vars, Kp!vars, Kbd!SendKey, Kp!SendKey,
         Kbd!KeyEnqueue, Kp!KeyEnqueue, Kbd!AmScancode, Kp!AmScancode,
         Kbd!KEYDOWN_MASK, Kp!KEYDOWN_MASK, Kbd!NextSlot, Kp!NextSlot,
         Kbd!ReadData, Kp!ReadData, Kbd!KeyDequeue, Kp!KeyDequeue,
         Kbd!KeyNone, Kp!KeyNone, Kbd!BadAccess, Kp!BadAccess,
         Kbd!ring, Kp!ring
<1>5. Kbd!Spec => Kp!Spec
  BY <1>3, <1>4, PTL DEF Kbd!Spec, Kp!Spec
<1>6. Spec => Kbd!Spec
  BY EngineImplementsKeyboard DEF ImplementsKeyboard
<1> QED BY <1>2, <1>5, <1>6
=============================================================================
