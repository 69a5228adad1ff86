--------------------------- MODULE KeyboardProofs ---------------------------
(***************************************************************************)
(* Proofs about Keyboard, for every ring size, key map and set of          *)
(* scancodes.  The inductive invariant is TypeOK together with             *)
(* RingHoldsPending, which is inductive as it stands once the cursors are  *)
(* known to be slots; implementing the FIFO follows from it step by step.  *)
(***************************************************************************)
EXTENDS Keyboard, TLAPS

-----------------------------------------------------------------------------
(* The operators the ring is built from.                                   *)

\* The size of the ring, as the provers like it.
LEMMA QueueLen == KEY_QUEUE_LEN \in Nat /\ KEY_QUEUE_LEN > 1
BY KeyboardAssumption, Zenon DEF KeyboardAssumption

\* Advancing a cursor stays in the ring and wraps at its end only.
LEMMA NextSlotWraps ==
  ASSUME NEW i \in Slots
  PROVE  /\ NextSlot(i) = IF i + 1 = KEY_QUEUE_LEN THEN 0 ELSE i + 1
         /\ NextSlot(i) \in Slots
<1>1. KEY_QUEUE_LEN \in Nat /\ KEY_QUEUE_LEN > 1
  BY QueueLen
<1>2. i \in Nat /\ i < KEY_QUEUE_LEN
  BY <1>1 DEF Slots
<1>3. CASE i + 1 = KEY_QUEUE_LEN
  <2>1. KEY_QUEUE_LEN % KEY_QUEUE_LEN = 0
    BY <1>1
  <2> QED BY <1>1, <1>2, <1>3, <2>1 DEF NextSlot, Slots
<1>4. CASE i + 1 # KEY_QUEUE_LEN
  <2>1. (i + 1) % KEY_QUEUE_LEN = i + 1
    BY <1>1, <1>2, <1>4
  <2> QED BY <1>1, <1>2, <1>4, <2>1 DEF NextSlot, Slots
<1> QED BY <1>3, <1>4

\* The code of an event of any 8-bit scancode is a code.
LEMMA AmScancodeIsCode ==
  ASSUME NEW k \in 0..255, NEW is_keydown \in BOOLEAN
  PROVE  AmScancode(k, is_keydown) \in Codes
BY DEF Codes

\* A scancode narrowed to 8 bits indexes the key map.
LEMMA NarrowedScancode ==
  ASSUME NEW s \in Scancodes
  PROVE  s % 256 \in 0..255
<1>1. s \in Nat
  BY KeyboardAssumption, Zenon DEF KeyboardAssumption
<1>2. \A q \in Nat : q % 256 \in 0..255
  OBVIOUS
<1> QED BY <1>1, <1>2, Zenon

-----------------------------------------------------------------------------
(* Type correctness.                                                       *)

\* The initial state is well typed.
LEMMA InitTypeOK == Init => TypeOK
<1>1. 0 \in Slots
  BY QueueLen DEF Slots
<1>2. 0 \in Codes
  BY DEF Codes
<1> QED BY <1>1, <1>2 DEF Init, TypeOK

\* Accepting a code keeps the types.
LEMMA EnqueueTypeOK ==
  ASSUME TypeOK, NEW c \in Codes, KeyEnqueue(c)
  PROVE  TypeOK'
<1>1. NextSlot(key_r) \in Slots
  BY NextSlotWraps DEF TypeOK
<1>2. key_queue' \in [Slots -> Codes]
  BY DEF TypeOK, KeyEnqueue
<1>3. sent' \in Seq(Codes)
  BY DEF TypeOK, KeyEnqueue
<1> QED BY <1>1, <1>2, <1>3 DEF TypeOK, KeyEnqueue

\* A read of the data port keeps the types.
LEMMA ReadDataTypeOK ==
  ASSUME TypeOK, ReadData
  PROVE  TypeOK'
<1>1. CASE KeyDequeue
  <2>1. NextSlot(key_f) \in Slots
    BY NextSlotWraps DEF TypeOK
  <2>2. data' \in Codes
    BY <1>1 DEF TypeOK, KeyDequeue
  <2>3. got' \in Seq(Codes)
    BY <1>1, <2>2 DEF TypeOK, KeyDequeue
  <2> QED BY <1>1, <2>1, <2>2, <2>3 DEF TypeOK, KeyDequeue
<1>2. CASE KeyNone
  <2>1. 0 \in Codes
    BY DEF Codes
  <2> QED BY <1>2, <2>1 DEF TypeOK, KeyNone, ring
<1> QED BY <1>1, <1>2 DEF ReadData

\* A step of the keyboard accepts a code, reads the port, or fails.
LEMMA NextCases ==
  ASSUME Next
  PROVE  /\ ~died
         /\ \/ \E c \in Codes : KeyEnqueue(c)
            \/ KeyDequeue
            \/ KeyNone
            \/ BadAccess
            \/ UNCHANGED vars
<1>1. CASE \E s \in Scancodes, down \in BOOLEAN, running \in BOOLEAN :
             SendKey(running, s, down)
  <2>1. PICK s \in Scancodes, down \in BOOLEAN, running \in BOOLEAN :
          SendKey(running, s, down)
    BY <1>1
  <2>2. AmScancode(s % 256, down) \in Codes
    BY NarrowedScancode, AmScancodeIsCode
  <2>3. KeyEnqueue(AmScancode(s % 256, down)) \/ UNCHANGED vars
    BY <2>1 DEF SendKey
  <2> QED BY <2>2, <2>3 DEF Next
<1> QED BY <1>1 DEF Next, ReadData

\* Every step keeps the types.
LEMMA NextTypeOK == TypeOK /\ [Next]_vars => TypeOK'
<1> SUFFICES ASSUME TypeOK, [Next]_vars
             PROVE  TypeOK'
  OBVIOUS
<1>1. CASE \E c \in Codes : KeyEnqueue(c)
  BY <1>1, EnqueueTypeOK
<1>2. CASE KeyDequeue \/ KeyNone
  BY <1>2, ReadDataTypeOK DEF ReadData
<1>3. CASE BadAccess
  BY <1>3 DEF TypeOK, BadAccess, ring
<1>4. CASE UNCHANGED vars
  BY <1>4 DEF TypeOK, vars
<1> QED BY <1>1, <1>2, <1>3, <1>4, NextCases

\* The cursors never leave the ring and only key codes travel through it, for
\* every size of the ring (key_queue, key_f and key_r of keyboard.c).
THEOREM TypeCorrect == Spec => []TypeOK
BY InitTypeOK, NextTypeOK, PTL DEF Spec

-----------------------------------------------------------------------------
(* The ring holds exactly the pending codes.                               *)

IInv == TypeOK /\ RingHoldsPending

\* The slots counted from the reader's are slots, pairwise different, and in
\* the order in which a cursor goes around the ring.
LEMMA SlotAtOrder ==
  ASSUME key_f \in Slots,
         NEW i \in 0..(KEY_QUEUE_LEN - 1), NEW j \in 0..(KEY_QUEUE_LEN - 1)
  PROVE  /\ SlotAt(0) = key_f
         /\ SlotAt(i) \in Slots
         /\ SlotAt(i) = SlotAt(j) => i = j
         /\ NextSlot(SlotAt(i)) =
              IF i + 1 = KEY_QUEUE_LEN THEN key_f ELSE SlotAt(i + 1)
<1>1. SlotAt(0) = key_f /\ SlotAt(i) \in Slots
  BY QueueLen DEF SlotAt, Slots
<1>2. SlotAt(i) = SlotAt(j) => i = j
  BY QueueLen DEF SlotAt, Slots
<1>3. NextSlot(SlotAt(i)) = IF SlotAt(i) + 1 = KEY_QUEUE_LEN
                            THEN 0 ELSE SlotAt(i) + 1
  BY <1>1, NextSlotWraps
<1>4. NextSlot(SlotAt(i)) =
        IF i + 1 = KEY_QUEUE_LEN THEN key_f ELSE SlotAt(i + 1)
  BY <1>3, QueueLen DEF SlotAt, Slots
<1> QED BY <1>1, <1>2, <1>4

\* What the invariant says of the lengths of the two histories.
LEMMA Lengths ==
  ASSUME IInv, ~died
  PROVE  /\ Len(sent) \in Nat
         /\ Len(got) \in Nat
         /\ Pending = Len(sent) - Len(got)
         /\ Pending \in 0..(KEY_QUEUE_LEN - 1)
BY DEF IInv, TypeOK, RingHoldsPending, Pending

\* Empty and full, told apart by the cursors.
LEMMA EmptyAndFull ==
  ASSUME IInv, ~died
  PROVE  /\ key_f = key_r <=> Pending = 0
         /\ NextSlot(key_r) = key_f <=> Pending = KEY_QUEUE_LEN - 1
<1>1. key_f \in Slots /\ key_r = SlotAt(Pending)
  BY DEF IInv, TypeOK, RingHoldsPending
<1>2. Pending \in 0..(KEY_QUEUE_LEN - 1) /\ 0 \in 0..(KEY_QUEUE_LEN - 1)
  BY Lengths, QueueLen
<1>3. key_f = key_r <=> Pending = 0
  BY <1>1, <1>2, SlotAtOrder
<1>4. CASE Pending = KEY_QUEUE_LEN - 1
  <2>1. Pending + 1 = KEY_QUEUE_LEN
    BY <1>4, QueueLen
  <2>2. NextSlot(key_r) = key_f
    BY <1>1, <1>2, <2>1, SlotAtOrder
  <2> QED BY <1>3, <1>4, <2>2
<1>5. CASE Pending # KEY_QUEUE_LEN - 1
  <2>1. /\ Pending + 1 \in 0..(KEY_QUEUE_LEN - 1)
        /\ Pending + 1 # KEY_QUEUE_LEN
        /\ Pending + 1 # 0
    BY <1>2, <1>5, QueueLen
  <2>2. NextSlot(key_r) = SlotAt(Pending + 1)
    BY <1>1, <1>2, <2>1, SlotAtOrder
  <2>3. SlotAt(Pending + 1) # SlotAt(0) /\ SlotAt(0) = key_f
    BY <1>1, <1>2, <2>1, SlotAtOrder
  <2> QED BY <1>3, <1>5, <2>2, <2>3
<1> QED BY <1>4, <1>5

\* The initial ring is empty, and nothing is pending.
LEMMA InitIInv == Init => IInv
<1> SUFFICES ASSUME Init
             PROVE  RingHoldsPending
  BY InitTypeOK DEF IInv
<1>1. Pending = 0
  BY DEF Init, Pending
<1>2. 0 \in Slots /\ SlotAt(0) = 0
  BY QueueLen DEF Init, SlotAt, Slots
<1> QED BY <1>1, <1>2, QueueLen DEF Init, RingHoldsPending

\* Accepting a code that does not overflow the ring appends it to the pending
\* ones: no slot that is still to be read is written.
LEMMA EnqueueIInv ==
  ASSUME IInv, ~died, NEW c \in Codes, KeyEnqueue(c)
  PROVE  IInv'
<1>1. TypeOK'
  BY EnqueueTypeOK DEF IInv
<1>2. CASE died'
  BY <1>1, <1>2 DEF IInv, RingHoldsPending
<1>3. CASE ~died'
  <2>1. NextSlot(key_r) # key_f
    BY <1>3 DEF KeyEnqueue
  <2>2. /\ Pending \in 0..(KEY_QUEUE_LEN - 1)
        /\ Pending + 1 \in 0..(KEY_QUEUE_LEN - 1)
        /\ Pending + 1 # KEY_QUEUE_LEN
    BY <2>1, EmptyAndFull, Lengths, QueueLen
  <2>3. /\ Len(sent') = Len(sent) + 1
        /\ Len(got') = Len(got)
        /\ Pending' = Pending + 1
    BY Lengths DEF KeyEnqueue, Pending, IInv, TypeOK
  <2>4. key_f \in Slots /\ key_r = SlotAt(Pending) /\ key_f' = key_f
    BY DEF IInv, TypeOK, RingHoldsPending, KeyEnqueue
  <2>5. key_r' = SlotAt(Pending + 1)
    BY <2>2, <2>4, SlotAtOrder DEF KeyEnqueue
  <2>6. ASSUME NEW i \in 0..(KEY_QUEUE_LEN - 1), i < Pending + 1
        PROVE  key_queue'[SlotAt(i)] = sent'[Len(got) + 1 + i]
    <3>1. SlotAt(i) \in Slots /\ SlotAt(Pending) \in Slots
      BY <2>2, <2>4, SlotAtOrder
    <3>2. CASE i = Pending
      <4>1. key_queue'[SlotAt(i)] = c
        BY <2>4, <3>1, <3>2 DEF KeyEnqueue, IInv, TypeOK
      <4>2. Len(got) + 1 + i = Len(sent) + 1
        BY <3>2, Lengths
      <4> QED BY <4>1, <4>2 DEF KeyEnqueue, IInv, TypeOK
    <3>3. CASE i # Pending
      <4>1. i < Pending
        BY <2>2, <2>6, <3>3, QueueLen
      <4>2. SlotAt(i) # key_r
        BY <2>2, <2>4, <3>3, SlotAtOrder
      <4>3. key_queue'[SlotAt(i)] = key_queue[SlotAt(i)]
        BY <3>1, <4>2 DEF KeyEnqueue, IInv, TypeOK
      <4>4. key_queue[SlotAt(i)] = sent[Len(got) + 1 + i]
        BY <4>1 DEF IInv, RingHoldsPending
      <4>5. Len(got) + 1 + i \in 1..Len(sent)
        BY <4>1, Lengths, QueueLen
      <4>6. sent'[Len(got) + 1 + i] = sent[Len(got) + 1 + i]
        BY <4>5 DEF KeyEnqueue, IInv, TypeOK
      <4> QED BY <4>3, <4>4, <4>6
    <3> QED BY <3>2, <3>3
  <2>7. \A i : SlotAt(i)' = SlotAt(i)
    BY <2>4 DEF SlotAt
  <2>8. RingHoldsPending'
    BY <2>2, <2>3, <2>4, <2>5, <2>6, <2>7 DEF RingHoldsPending
  <2> QED BY <1>1, <2>8 DEF IInv
<1> QED BY <1>2, <1>3

\* What the reader takes is the oldest pending code.
LEMMA OldestIsNext ==
  ASSUME IInv, ~died, KeyDequeue
  PROVE  /\ Pending > 0
         /\ Len(got) + 1 \in 1..Len(sent)
         /\ data' = sent[Len(got) + 1]
<1>1. Pending > 0 /\ Pending \in 0..(KEY_QUEUE_LEN - 1)
  BY EmptyAndFull, Lengths, QueueLen DEF KeyDequeue
<1>2. Len(got) + 1 \in 1..Len(sent)
  BY <1>1, Lengths
<1>3. 0 \in 0..(KEY_QUEUE_LEN - 1) /\ SlotAt(0) = key_f
  BY QueueLen, SlotAtOrder DEF IInv, TypeOK
<1>4. key_queue[key_f] = sent[Len(got) + 1 + 0]
  BY <1>1, <1>3 DEF IInv, RingHoldsPending
<1>5. Len(got) + 1 + 0 = Len(got) + 1
  BY Lengths
<1> QED BY <1>1, <1>2, <1>4, <1>5 DEF KeyDequeue

\* Taking a code leaves the others where they are, one place closer.
LEMMA DequeueIInv ==
  ASSUME IInv, ~died, KeyDequeue
  PROVE  IInv'
<1>1. TypeOK'
  BY ReadDataTypeOK DEF IInv, ReadData
<1>2. Pending > 0 /\ Pending \in 0..(KEY_QUEUE_LEN - 1)
  BY OldestIsNext, Lengths
<1>3. /\ Len(sent') = Len(sent)
      /\ Len(got') = Len(got) + 1
      /\ Pending' = Pending - 1
  BY Lengths DEF KeyDequeue, Pending, IInv, TypeOK
<1>4. key_f' = NextSlot(key_f) /\ key_f \in Slots /\ key_r' = key_r
  BY DEF KeyDequeue, IInv, TypeOK
<1>5. ASSUME NEW i \in 0..(KEY_QUEUE_LEN - 1), i + 1 # KEY_QUEUE_LEN
      PROVE  SlotAt(i)' = SlotAt(i + 1)
  <2>1. key_f' = IF key_f + 1 = KEY_QUEUE_LEN THEN 0 ELSE key_f + 1
    BY <1>4, NextSlotWraps
  <2> QED BY <1>4, <1>5, <2>1, QueueLen DEF SlotAt, Slots
<1>6. Pending' \in 0..(KEY_QUEUE_LEN - 1) /\ Pending' + 1 = Pending
  BY <1>2, <1>3, QueueLen
<1>7. key_r' = SlotAt(Pending)
  BY <1>4 DEF IInv, RingHoldsPending
<1>8. key_r' = SlotAt(Pending)'
  <2>1. key_f' = IF key_f + 1 = KEY_QUEUE_LEN THEN 0 ELSE key_f + 1
    BY <1>4, NextSlotWraps
  <2>2. key_f' + Pending' < KEY_QUEUE_LEN
          => key_r' = key_f' + Pending'
    BY <1>2, <1>3, <1>4, <1>7, <2>1, QueueLen DEF SlotAt, Slots
  <2>3. ~(key_f' + Pending' < KEY_QUEUE_LEN)
          => key_r' = key_f' + Pending' - KEY_QUEUE_LEN
    BY <1>2, <1>3, <1>4, <1>7, <2>1, QueueLen DEF SlotAt, Slots
  <2> QED BY <2>2, <2>3 DEF SlotAt
<1>9. ASSUME NEW i \in 0..(KEY_QUEUE_LEN - 1), i < Pending'
      PROVE  key_queue'[SlotAt(i)'] = sent'[Len(got') + 1 + i]
  <2>1. /\ i + 1 \in 0..(KEY_QUEUE_LEN - 1)
        /\ i + 1 < Pending
        /\ i + 1 # KEY_QUEUE_LEN
    <3>1. i < Pending - 1
      BY <1>3, <1>9
    <3> QED BY <1>2, <3>1, QueueLen
  <2>2. SlotAt(i)' = SlotAt(i + 1)
    BY <1>5, <2>1
  <2>3. key_queue[SlotAt(i + 1)] = sent[Len(got) + 1 + (i + 1)]
    BY <2>1 DEF IInv, RingHoldsPending
  <2>4. Len(got') + 1 + i = Len(got) + 1 + (i + 1)
    BY <1>3, Lengths
  <2> QED BY <2>2, <2>3, <2>4 DEF KeyDequeue
<1> QED BY <1>1, <1>6, <1>8, <1>9 DEF IInv, RingHoldsPending

\* A read of an empty ring, and the end of the process, disturb nothing.
LEMMA QuietIInv ==
  ASSUME IInv, KeyNone \/ BadAccess \/ UNCHANGED vars
  PROVE  IInv'
<1>1. TypeOK'
  BY NextTypeOK, ReadDataTypeOK DEF IInv, ReadData, TypeOK, BadAccess, ring, vars
<1>2. CASE BadAccess
  BY <1>1, <1>2 DEF IInv, RingHoldsPending, BadAccess
<1>3. CASE KeyNone \/ UNCHANGED vars
  <2>1. UNCHANGED <<key_queue, key_f, key_r, died, sent, got>>
    BY <1>3 DEF KeyNone, ring, vars
  <2>2. RingHoldsPending'
    BY <2>1 DEF IInv, RingHoldsPending, Pending, SlotAt
  <2> QED BY <1>1, <2>2 DEF IInv
<1> QED BY <1>2, <1>3

\* Every step keeps the invariant.
LEMMA NextIInv == IInv /\ [Next]_vars => IInv'
<1> SUFFICES ASSUME IInv, [Next]_vars
             PROVE  IInv'
  OBVIOUS
<1>1. CASE UNCHANGED vars
  BY <1>1, QuietIInv
<1>2. CASE Next
  <2>1. ~died
    BY <1>2, NextCases
  <2>2. CASE \E c \in Codes : KeyEnqueue(c)
    BY <2>1, <2>2, EnqueueIInv
  <2>3. CASE KeyDequeue
    BY <2>1, <2>3, DequeueIInv
  <2>4. CASE KeyNone \/ BadAccess
    BY <2>4, QuietIInv
  <2> QED BY <1>1, <1>2, <2>2, <2>3, <2>4, NextCases
<1> QED BY <1>1, <1>2

\* However often either cursor has gone around a ring of whatever size, the
\* slots between them hold the codes accepted and not yet taken, in order
\* (key_enqueue against key_dequeue).
THEOREM RingCorrect == Spec => []RingHoldsPending
<1>1. Spec => []IInv
  BY InitIInv, NextIInv, PTL DEF Spec
<1>2. IInv => RingHoldsPending
  BY DEF IInv
<1> QED BY <1>1, <1>2, PTL

-----------------------------------------------------------------------------
(* The ring implements the FIFO.                                           *)

\* Accepting a code is Put; the overflow Assert fires when Fifo's does.
LEMMA EnqueueIsPut ==
  ASSUME IInv, ~died, NEW c \in Codes, KeyEnqueue(c)
  PROVE  Fifo!Put(c)
<1>1. died' = (Pending = KEY_QUEUE_LEN - 1)
  <2>1. died' = (NextSlot(key_r) = key_f)
    BY DEF KeyEnqueue
  <2>2. NextSlot(key_r) = key_f <=> Pending = KEY_QUEUE_LEN - 1
    BY EmptyAndFull
  <2>3. (NextSlot(key_r) = key_f) = (Pending = KEY_QUEUE_LEN - 1)
    BY <2>2
  <2> QED BY <2>1, <2>3
<1>2. (Pending = KEY_QUEUE_LEN - 1)
        = (Len(sent) + 1 - Len(got) > KEY_QUEUE_LEN - 1)
  BY Lengths, QueueLen
<1> QED BY <1>1, <1>2 DEF Fifo!Put, KeyEnqueue

\* Reading the port takes the oldest code, or finds that there is none.
LEMMA ReadIsTake ==
  ASSUME IInv, ~died, ReadData
  PROVE  Fifo!Take \/ Fifo!TakeNothing
<1>1. CASE KeyDequeue
  <2>1. Len(got) < Len(sent)
    BY <1>1, OldestIsNext, Lengths
  <2> QED BY <1>1, <2>1, OldestIsNext DEF Fifo!Take, KeyDequeue
<1>2. CASE KeyNone
  <2>1. Len(got) = Len(sent)
    BY <1>2, EmptyAndFull, Lengths DEF KeyNone
  <2> QED BY <1>2, <2>1 DEF Fifo!TakeNothing, KeyNone, ring
<1> QED BY <1>1, <1>2 DEF ReadData

\* The i8042's ring buffer is a FIFO channel of capacity KEY_QUEUE_LEN - 1:
\* no code is lost, duplicated or reordered, and the process aborts on the
\* code that finds the channel full, never earlier.
THEOREM RingImplementsFifo == Spec => ImplementsFifo
<1>1. Init => Fifo!Init
  BY DEF Init, Fifo!Init
<1>2. IInv /\ [Next]_vars => [Fifo!Next]_(Fifo!vars)
  <2> SUFFICES ASSUME IInv, [Next]_vars
               PROVE  [Fifo!Next]_(Fifo!vars)
    OBVIOUS
  <2>1. CASE UNCHANGED vars
    BY <2>1 DEF vars, Fifo!vars
  <2>2. CASE Next
    <3>1. ~died
      BY <2>2, NextCases
    <3>2. CASE \E c \in Codes : KeyEnqueue(c)
      BY <3>1, <3>2, EnqueueIsPut DEF Fifo!Next
    <3>3. CASE KeyDequeue \/ KeyNone
      BY <3>1, <3>3, ReadIsTake DEF Fifo!Next, ReadData
    <3>4. CASE BadAccess
      BY <3>1, <3>4 DEF Fifo!Next, Fifo!Abort, BadAccess
    <3> QED BY <2>1, <2>2, <3>2, <3>3, <3>4, NextCases
  <2> QED BY <2>1, <2>2
<1>3. Spec => []IInv
  BY InitIInv, NextIInv, PTL DEF Spec
<1> QED BY <1>1, <1>2, <1>3, PTL DEF Spec, ImplementsFifo, Fifo!Spec
=============================================================================
