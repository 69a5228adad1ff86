------------------------------ MODULE KeyFifo ------------------------------
(***************************************************************************)
(* What the i8042 keyboard of iskemu promises, without a ring buffer:      *)
(* key codes accepted from the host reach the guest in the order they were *)
(* accepted, each exactly once; a read of the data port with nothing       *)
(* pending yields 0; and the emulator stops on the acceptance that leaves  *)
(* Capacity + 1 codes pending, never earlier.                              *)
(***************************************************************************)
EXTENDS Naturals, Sequences

CONSTANTS
  Codes,      \* the key codes the host side can produce
  Capacity    \* how many codes may be pending

VARIABLES
  sent,       \* every code accepted so far, oldest first
  got,        \* every code the guest has taken, oldest first
  data,       \* what the data port shows
  died        \* the process has aborted

vars == <<sent, got, data, died>>

Init ==
  /\ sent = <<>>
  /\ got = <<>>
  /\ data = 0
  /\ died = FALSE

\* Accept a code; one too many pending ends the process.
Put(c) ==
  /\ ~died
  /\ sent' = Append(sent, c)
  /\ died' = (Len(sent) + 1 - Len(got) > Capacity)
  /\ UNCHANGED <<got, data>>

\* The guest takes the oldest pending code.
Take ==
  /\ ~died
  /\ Len(got) < Len(sent)
  /\ data' = sent[Len(got) + 1]
  /\ got' = Append(got, data')
  /\ UNCHANGED <<sent, died>>

\* The guest looks and finds nothing pending.
TakeNothing ==
  /\ ~died
  /\ Len(got) = Len(sent)
  /\ data' = 0
  /\ UNCHANGED <<sent, got, died>>

\* An access the device does not support ends the process.
Abort ==
  /\ ~died
  /\ died' = TRUE
  /\ UNCHANGED <<sent, got, data>>

Next ==
  \/ \E c \in Codes : Put(c)
  \/ Take
  \/ TakeNothing
  \/ Abort

Spec == Init /\ [][Next]_vars
=============================================================================
