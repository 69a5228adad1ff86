------------------------------ MODULE Keyboard ------------------------------
(***************************************************************************)
(* The i8042 keyboard, src/device/keyboard.c: the ring key_queue between   *)
(* the SDL event loop (send_key, the writer) and the guest's reads of the  *)
(* data port (i8042_data_io_handler, the reader).                          *)
(*                                                                         *)
(* SendKey, ReadData and BadAccess are the component's operations; module  *)
(* Engine uses them too, through INSTANCE.  sent and got are history       *)
(* variables: the code keeps neither.                                      *)
(***************************************************************************)
EXTENDS Naturals, Sequences

CONSTANTS
  KEY_QUEUE_LEN,   \* slots of the ring (1024 in the code)
  Keymap,          \* keymap[]: 8-bit SDL scancode to AM key code, 0 if none
  Scancodes,       \* the SDL scancodes the host may report (wider than 8 bits)
  MaxKeys          \* bound: how many codes are ever accepted

ASSUME KeyboardAssumption ==
  /\ KEY_QUEUE_LEN \in Nat /\ KEY_QUEUE_LEN > 1
  /\ Keymap \in [0..255 -> 0..255]
  /\ Scancodes \subseteq Nat
  /\ MaxKeys \in Nat

VARIABLES
  key_queue,       \* the ring's slots
  key_f, key_r,    \* the next slot to read, the next slot to write
  data,            \* i8042_data_port_base[1]
  died,            \* an Assert of this device has aborted the process
  sent, got        \* history: codes enqueued, codes dequeued

ring == <<key_queue, key_f, key_r>>
vars == <<key_queue, key_f, key_r, data, died, sent, got>>

\* 0xf000, or-ed into the code of a key that is NOT down.
KEYDOWN_MASK == 61440

\* The codes fit in 8 bits, so or-ing the mask is adding it.
AmScancode(k, is_keydown) ==
  IF is_keydown THEN Keymap[k] ELSE Keymap[k] + KEYDOWN_MASK

\* What the ring can hold: 0 (its initial contents) and every event's code.
Codes == {0} \cup {AmScancode(k, down) : k \in 0..255, down \in BOOLEAN}

Slots == 0..(KEY_QUEUE_LEN - 1)

\* Mutant: the cursor never wraps around.
NextSlotUnwrapped(i) == i + 1

NextSlot(i) == (i + 1) % KEY_QUEUE_LEN

Init ==
  /\ key_queue = [i \in Slots |-> 0]
  /\ key_f = 0
  /\ key_r = 0
  /\ data = 0
  /\ died = FALSE
  /\ sent = <<>>
  /\ got = <<>>

\* Mutant: a full ring silently overwrites instead of failing the Assert.
KeyEnqueueUnchecked(am_scancode) ==
  /\ key_queue' = [key_queue EXCEPT ![key_r] = am_scancode]
  /\ key_r' = NextSlot(key_r)
  /\ sent' = Append(sent, am_scancode)
  /\ UNCHANGED <<key_f, data, died, got>>

\* The slot is written and key_r advanced before fullness is asserted.
KeyEnqueue(am_scancode) ==
  /\ key_queue' = [key_queue EXCEPT ![key_r] = am_scancode]
  /\ key_r' = NextSlot(key_r)
  /\ died' = (key_r' = key_f)
  /\ sent' = Append(sent, am_scancode)
  /\ UNCHANGED <<key_f, data, got>>

\* A key event: the scancode is narrowed to 8 bits, and a key that arrives
\* while the machine is not running, or narrows to 0, is dropped.
SendKey(running, scancode, is_keydown) ==
  LET k == scancode % 256
  IN  \/ /\ running
         /\ k # 0
         /\ KeyEnqueue(AmScancode(k, is_keydown))
      \/ /\ ~running \/ k = 0
         /\ UNCHANGED vars

\* Mutant: the reader's cursor is not advanced, so a code is taken twice.
KeyPeek ==
  /\ key_f # key_r
  /\ data' = key_queue[key_f]
  /\ got' = Append(got, data')
  /\ UNCHANGED <<ring, died, sent>>

\* A read of the data port takes the oldest code out of the ring ...
KeyDequeue ==
  /\ key_f # key_r
  /\ data' = key_queue[key_f]
  /\ key_f' = NextSlot(key_f)
  /\ got' = Append(got, data')
  /\ UNCHANGED <<key_queue, key_r, died, sent>>

\* ... or shows 0 when the ring is empty.
KeyNone ==
  /\ key_f = key_r
  /\ data' = 0
  /\ UNCHANGED <<ring, died, sent, got>>

ReadData == KeyDequeue \/ KeyNone

\* A write, or an access at another offset, fails the handler's assert.
BadAccess ==
  /\ died' = TRUE
  /\ UNCHANGED <<ring, data, sent, got>>

Next ==
  /\ ~died
  /\ \/ \E s \in Scancodes, down \in BOOLEAN, running \in BOOLEAN :
          /\ Len(sent) < MaxKeys
          /\ SendKey(running, s, down)
     \/ ReadData
     \/ BadAccess

Spec == Init /\ [][Next]_vars

-----------------------------------------------------------------------------

\* Every variable has its type; the cursors stay inside the ring.
TypeOK ==
  /\ key_queue \in [Slots -> Codes]
  /\ key_f \in Slots
  /\ key_r \in Slots
  /\ data \in Codes
  /\ died \in BOOLEAN
  /\ sent \in Seq(Codes)
  /\ got \in Seq(Codes)

Pending == Len(sent) - Len(got)

\* The slot i places after the reader's.
SlotAt(i) == IF key_f + i < KEY_QUEUE_LEN THEN key_f + i
                                          ELSE key_f + i - KEY_QUEUE_LEN

\* The two cursors and the ring's contents represent exactly the codes that
\* were accepted and not yet taken, in order, across every wrap-around of
\* either cursor: no code is overwritten before it is read, none is read
\* twice (key_enqueue against key_dequeue).
RingHoldsPending ==
  ~died =>
    /\ Pending \in 0..(KEY_QUEUE_LEN - 1)
    /\ key_r = SlotAt(Pending)
    /\ \A i \in 0..(KEY_QUEUE_LEN - 1) :
         i < Pending => key_queue[SlotAt(i)] = sent[Len(got) + 1 + i]

Fifo == INSTANCE KeyFifo WITH Capacity <- KEY_QUEUE_LEN - 1

\* The ring buffer is a bounded FIFO channel that aborts only when a code
\* arrives with KEY_QUEUE_LEN - 1 pending.
ImplementsFifo == Fifo!Spec
=============================================================================
