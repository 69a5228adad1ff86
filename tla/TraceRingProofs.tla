-------------------------- MODULE TraceRingProofs --------------------------
(***************************************************************************)
(* Proofs about TraceRing, for every size of the ring and any number of    *)
(* lines.                                                                  *)
(***************************************************************************)
EXTENDS TraceRing, SequenceTheorems, TLAPS

\* The slot i places behind the oldest line's.
SlotAt(i) ==
  IF irb_begin + i < CONFIG_IRINGBUF_SIZE THEN irb_begin + i
                                          ELSE irb_begin + i - CONFIG_IRINGBUF_SIZE

\* The cursors are Kept slots apart, and between them stand the last lines.
RingInv ==
  /\ irb_end = SlotAt(Kept)
  /\ \A i \in 0..(CONFIG_IRINGBUF_SIZE - 1) :
       i < Kept => iringbuf[SlotAt(i)] = lines[Len(lines) - Kept + 1 + i]

IInv == TypeOK /\ RingInv

\* The ring has at least two slots.
LEMMA SizeType == CONFIG_IRINGBUF_SIZE \in Nat /\ CONFIG_IRINGBUF_SIZE > 1
BY TraceRingAssumption DEF TraceRingAssumption

\* Kept is a number of slots, the last one excepted.
LEMMA KeptType ==
  ASSUME TypeOK
  PROVE  Kept \in 0..(CONFIG_IRINGBUF_SIZE - 1) /\ Kept <= Len(lines)
BY SizeType DEF TypeOK, Kept

\* The initial states satisfy the invariant.
LEMMA InitIInv == Lines # {} /\ Init => IInv
<1> SUFFICES ASSUME Lines # {}, Init
             PROVE  IInv
  OBVIOUS
<1>1. (CHOOSE s \in Lines : TRUE) \in Lines
  OBVIOUS
<1>2. 0 \in Slots
  BY SizeType DEF Slots
<1>3. TypeOK
  BY <1>1, <1>2 DEF Init, TypeOK
<1>4. Kept = 0
  BY SizeType DEF Init, Kept
<1>5. RingInv
  BY <1>4, SizeType DEF Init, RingInv, SlotAt
<1> QED BY <1>3, <1>5 DEF IInv

\* A write keeps the types.
LEMMA WriteTypeOK ==
  ASSUME TypeOK, NEW s \in Lines, iringbuf_write(s)
  PROVE  TypeOK'
<1>1. irb_end' \in Slots
  BY SizeType DEF TypeOK, iringbuf_write, Wrap, Slots
<1>2. irb_begin' \in Slots
  BY SizeType DEF TypeOK, iringbuf_write, Wrap, Slots
<1> QED BY <1>1, <1>2 DEF TypeOK, iringbuf_write

\* A write keeps the lines between the cursors the latest ones: the new line
\* goes where the next one is expected, and the oldest one is given up when
\* the ring is full.
LEMMA WriteRingInv ==
  ASSUME IInv, NEW s \in Lines, iringbuf_write(s)
  PROVE  RingInv'
<1> DEFINE S == CONFIG_IRINGBUF_SIZE
<1>1. TypeOK /\ RingInv /\ TypeOK'
  BY WriteTypeOK DEF IInv
<1>2. /\ irb_begin \in 0..(S - 1) /\ irb_end \in 0..(S - 1)
      /\ irb_begin' \in 0..(S - 1) /\ irb_end' \in 0..(S - 1)
      /\ Len(lines) \in Nat /\ S \in Nat /\ S > 1
  BY <1>1, SizeType DEF TypeOK, Slots
<1>3. /\ lines' = Append(lines, s) /\ Len(lines') = Len(lines) + 1
      /\ \A j \in 1..Len(lines) : lines'[j] = lines[j]
      /\ lines'[Len(lines) + 1] = s
  BY <1>1 DEF iringbuf_write, TypeOK
<1>4. /\ iringbuf' = [iringbuf EXCEPT ![irb_end] = s]
      /\ iringbuf'[irb_end] = s
      /\ \A j \in 0..(S - 1) : j # irb_end => iringbuf'[j] = iringbuf[j]
  BY <1>1, <1>2 DEF iringbuf_write, TypeOK, Slots
<1>5. irb_end' = IF irb_end + 1 >= S THEN 0 ELSE irb_end + 1
  BY DEF iringbuf_write, Wrap
<1>6. irb_begin' = IF irb_begin = irb_end'
                   THEN IF irb_begin + 1 >= S THEN 0 ELSE irb_begin + 1
                   ELSE irb_begin
  BY <1>2, <1>5 DEF iringbuf_write, Wrap
<1>7. Kept \in 0..(S - 1) /\ Kept <= Len(lines)
  BY <1>1, KeptType
<1>8. irb_end = SlotAt(Kept)
  BY <1>1 DEF RingInv
<1>9. ASSUME NEW i \in 0..(S - 1), i < Kept
      PROVE  iringbuf[SlotAt(i)] = lines[Len(lines) - Kept + 1 + i]
  BY <1>1, <1>9 DEF RingInv
<1>10. CASE Kept < S - 1
  <2>1. Kept = Len(lines) /\ Kept' = Kept + 1
    BY <1>10, <1>2, <1>3 DEF Kept
  <2>2. irb_begin' = irb_begin
    BY <1>10, <1>2, <1>5, <1>6, <1>7, <1>8 DEF SlotAt
  <2>3. irb_end' = SlotAt(Kept + 1)
    BY <1>10, <1>2, <1>5, <1>7, <1>8 DEF SlotAt
  <2>4. ASSUME NEW i \in 0..(S - 1), i < Kept + 1
        PROVE  iringbuf'[SlotAt(i)] = lines'[Len(lines') - (Kept + 1) + 1 + i]
    <3>1. CASE i = Kept
      BY <3>1, <1>2, <1>3, <1>4, <1>7, <1>8, <2>1
    <3>2. CASE i < Kept
      <4>1. SlotAt(i) # irb_end /\ SlotAt(i) \in 0..(S - 1)
        BY <3>2, <1>2, <1>7, <1>8 DEF SlotAt
      <4>2. lines'[Len(lines) - Kept + 1 + i] = lines[Len(lines) - Kept + 1 + i]
        BY <3>2, <1>2, <1>3, <1>7
      <4>3. Len(lines') - (Kept + 1) + 1 + i = Len(lines) - Kept + 1 + i
        BY <1>2, <1>3, <1>7
      <4> QED BY <3>2, <4>1, <4>2, <4>3, <1>4, <1>9
    <3> QED BY <2>4, <1>7, <3>1, <3>2
  <2>5. \A i : SlotAt(i)' = SlotAt(i)
    BY <2>2 DEF SlotAt
  <2> QED BY <2>1, <2>3, <2>4, <2>5 DEF RingInv
<1>11. CASE Kept = S - 1
  <2>1. Kept' = S - 1
    BY <1>11, <1>2, <1>3, <1>7 DEF Kept
  <2>2. irb_begin = irb_end'
    BY <1>11, <1>2, <1>5, <1>8 DEF SlotAt
  <2> DEFINE b == irb_begin'
  <2>b. b = IF irb_begin + 1 >= S THEN 0 ELSE irb_begin + 1
    BY <1>6, <2>2
  <2>c. \A i : SlotAt(i)' = IF b + i < S THEN b + i ELSE b + i - S
    BY DEF SlotAt
  <2> HIDE DEF b
  <2>3. ASSUME NEW i \in 0..(S - 2)
        PROVE  SlotAt(i)' = SlotAt(i + 1)
    <3>1. SlotAt(i + 1) = IF b + i < S THEN b + i ELSE b + i - S
      BY <1>2, <2>b DEF SlotAt
    <3> QED BY <3>1, <2>c
  <2>4. irb_end' = SlotAt(S - 1)'
    <3>1. irb_begin = IF b + (S - 1) < S THEN b + (S - 1) ELSE b + (S - 1) - S
      BY <1>2, <2>b
    <3>2. SlotAt(S - 1)' = IF b + (S - 1) < S THEN b + (S - 1) ELSE b + (S - 1) - S
      BY DEF SlotAt, b
    <3> QED BY <3>1, <3>2, <2>2
  <2>5. ASSUME NEW i \in 0..(S - 1), i < S - 1
        PROVE  iringbuf'[SlotAt(i)'] = lines'[Len(lines') - (S - 1) + 1 + i]
    <3>1. CASE i = S - 2
      <4>1. SlotAt(i)' = irb_end
        BY <3>1, <1>11, <1>2, <1>8, <2>3
      <4>2. Len(lines') - (S - 1) + 1 + i = Len(lines) + 1
        BY <3>1, <1>2, <1>3
      <4> QED BY <4>1, <4>2, <1>3, <1>4
    <3>2. CASE i < S - 2
      <4>1. SlotAt(i)' = SlotAt(i + 1)
        BY <3>2, <1>2, <2>3
      <4>2. SlotAt(i + 1) # irb_end /\ SlotAt(i + 1) \in 0..(S - 1)
        BY <3>2, <1>11, <1>2, <1>8 DEF SlotAt
      <4>3. iringbuf[SlotAt(i + 1)] = lines[Len(lines) - Kept + 1 + (i + 1)]
        BY <3>2, <1>11, <1>2, <1>9
      <4>4. /\ Len(lines') - (S - 1) + 1 + i = Len(lines) - Kept + 1 + (i + 1)
            /\ Len(lines) - Kept + 1 + (i + 1) \in 1..Len(lines)
        BY <3>2, <1>11, <1>2, <1>3, <1>7
      <4> QED BY <4>1, <4>2, <4>3, <4>4, <1>3, <1>4
    <3> QED BY <2>5, <1>2, <3>1, <3>2
  <2> QED BY <2>1, <2>4, <2>5 DEF RingInv
<1> QED BY <1>2, <1>7, <1>10, <1>11

\* A slice of the ring is a sequence of lines.
LEMMA SliceType ==
  ASSUME TypeOK, NEW b \in 0..CONFIG_IRINGBUF_SIZE,
         NEW e \in 0..CONFIG_IRINGBUF_SIZE, b <= e
  PROVE  /\ Slice(b, e) \in Seq(Lines)
         /\ Len(Slice(b, e)) = e - b
         /\ \A i \in 1..(e - b) : Slice(b, e)[i] = iringbuf[b + i - 1]
<1>1. e - b \in Nat
  BY SizeType
<1>2. \A i \in 1..(e - b) : iringbuf[b + i - 1] \in Lines
  BY SizeType DEF TypeOK, Slots
<1> QED BY <1>1, <1>2 DEF Slice

\* Two slices, one behind the other.
LEMMA ConcatLines ==
  ASSUME NEW s \in Seq(Lines), NEW t \in Seq(Lines)
  PROVE  /\ s \o t \in Seq(Lines) /\ Len(s \o t) = Len(s) + Len(t)
         /\ \A i \in 1..Len(s) : (s \o t)[i] = s[i]
         /\ \A j \in 1..Len(t) : (s \o t)[Len(s) + j] = t[j]
<1>1. Len(s) \in Nat /\ Len(t) \in Nat
  OBVIOUS
<1>2. /\ s \o t \in Seq(Lines) /\ Len(s \o t) = Len(s) + Len(t)
      /\ \A i \in 1..(Len(s) + Len(t)) :
           (s \o t)[i] = IF i <= Len(s) THEN s[i] ELSE t[i - Len(s)]
  BY ConcatProperties
<1>3. ASSUME NEW i \in 1..Len(s)
      PROVE  (s \o t)[i] = s[i]
  BY <1>1, <1>2
<1>4. ASSUME NEW j \in 1..Len(t)
      PROVE  (s \o t)[Len(s) + j] = t[j]
  <2>1. /\ Len(s) + j \in 1..(Len(s) + Len(t)) /\ ~(Len(s) + j <= Len(s))
        /\ (Len(s) + j) - Len(s) = j
    BY <1>1
  <2> QED BY <2>1, <1>2
<1> QED BY <1>2, <1>3, <1>4

\* What a display shows in either case: as many lines as are kept, each the
\* one behind the begin cursor.
LEMMA DisplayLines ==
  ASSUME IInv, iringbuf_display
  PROVE  /\ shown' \in Seq(Lines)
         /\ Len(shown') = Kept
         /\ \A i \in 1..Kept : shown'[i] = iringbuf[SlotAt(i - 1)]
<1> DEFINE S == CONFIG_IRINGBUF_SIZE
<1>1. TypeOK /\ irb_end = SlotAt(Kept) /\ Kept \in 0..(S - 1)
  BY KeptType DEF IInv, RingInv
<1>2. irb_begin \in 0..(S - 1) /\ irb_end \in 0..(S - 1) /\ S \in Nat /\ S > 1
  BY <1>1, SizeType DEF TypeOK, Slots
<1>3. CASE irb_begin <= irb_end
  <2>1. shown' = Slice(irb_begin, irb_end)
    BY <1>3 DEF iringbuf_display
  <2>2. irb_end - irb_begin = Kept
    BY <1>1, <1>2, <1>3 DEF SlotAt
  <2>3. \A i \in 1..Kept : SlotAt(i - 1) = irb_begin + i - 1
    BY <1>1, <1>2, <2>2 DEF SlotAt
  <2>4. irb_begin \in 0..S /\ irb_end \in 0..S
    BY <1>2
  <2>5. /\ Slice(irb_begin, irb_end) \in Seq(Lines)
        /\ Len(Slice(irb_begin, irb_end)) = irb_end - irb_begin
        /\ \A i \in 1..(irb_end - irb_begin) :
             Slice(irb_begin, irb_end)[i] = iringbuf[irb_begin + i - 1]
    BY <1>1, <1>3, <2>4, SliceType
  <2> QED BY <2>1, <2>2, <2>3, <2>5
<1>4. CASE irb_begin > irb_end
  <2> DEFINE a == Slice(irb_begin, S)
             b == Slice(0, irb_end)
             n == S - irb_begin
  <2>1. shown' = a \o b
    BY <1>2, <1>4 DEF iringbuf_display
  <2>2. Kept = n + irb_end /\ n \in Nat /\ irb_end \in Nat
    BY <1>1, <1>2, <1>4 DEF SlotAt
  <2>a. /\ irb_begin \in 0..S /\ irb_begin <= S /\ S \in 0..S
        /\ 0 \in 0..S /\ irb_end \in 0..S /\ 0 <= irb_end
    BY <1>2
  <2>3. /\ a \in Seq(Lines) /\ Len(a) = n
        /\ \A i \in 1..n : a[i] = iringbuf[irb_begin + i - 1]
    BY <1>1, <2>a, SliceType
  <2>b. /\ b \in Seq(Lines) /\ Len(b) = irb_end - 0
        /\ \A i \in 1..(irb_end - 0) : b[i] = iringbuf[0 + i - 1]
    BY <1>1, <2>a, SliceType
  <2>4. /\ b \in Seq(Lines) /\ Len(b) = irb_end
        /\ \A i \in 1..irb_end : b[i] = iringbuf[i - 1]
    BY <2>b, <1>2
  <2> HIDE DEF a, b
  <2>5. /\ a \o b \in Seq(Lines) /\ Len(a \o b) = Kept
        /\ \A i \in 1..n : (a \o b)[i] = a[i]
        /\ \A j \in 1..irb_end : (a \o b)[n + j] = b[j]
    <3>1. /\ a \o b \in Seq(Lines) /\ Len(a \o b) = Len(a) + Len(b)
          /\ \A i \in 1..Len(a) : (a \o b)[i] = a[i]
          /\ \A j \in 1..Len(b) : (a \o b)[Len(a) + j] = b[j]
      BY <2>3, <2>4, ConcatLines
    <3>2. Len(a) = n /\ Len(b) = irb_end
      BY <2>3, <2>4
    <3> HIDE DEF n
    <3> QED BY <2>2, <3>1, <3>2
  <2>6. ASSUME NEW i \in 1..Kept
        PROVE  (a \o b)[i] = iringbuf[SlotAt(i - 1)]
    <3>1. CASE i <= n
      <4>1. SlotAt(i - 1) = irb_begin + i - 1 /\ i \in 1..n
        BY <3>1, <1>1, <1>2 DEF SlotAt
      <4> QED BY <4>1, <2>3, <2>5
    <3>2. CASE i > n
      <4> DEFINE j == i - n
      <4>1. j \in 1..irb_end /\ n + j = i
        BY <3>2, <1>1, <1>2, <2>2
      <4>2. SlotAt(i - 1) = j - 1
        BY <3>2, <1>1, <1>2 DEF SlotAt
      <4> HIDE DEF j, n
      <4>3. (a \o b)[i] = b[j] /\ b[j] = iringbuf[j - 1]
        BY <4>1, <2>4, <2>5
      <4> QED BY <4>2, <4>3
    <3>3. i <= n \/ i > n
      BY <1>1, <1>2
    <3> QED BY <3>1, <3>2, <3>3
  <2> QED BY <2>1, <2>5, <2>6
<1> QED BY <1>2, <1>3, <1>4

\* Every step keeps the invariant.
LEMMA NextIInv == IInv /\ [Next]_vars => IInv'
<1> SUFFICES ASSUME IInv, [Next]_vars
             PROVE  IInv'
  OBVIOUS
<1>1. ASSUME NEW s \in Lines, iringbuf_write(s)
      PROVE  IInv'
  BY <1>1, WriteTypeOK, WriteRingInv DEF IInv
<1>2. CASE iringbuf_display
  <2>1. TypeOK'
    BY <1>2, DisplayLines DEF IInv, TypeOK, iringbuf_display, ring
  <2>2. RingInv'
    BY <1>2 DEF IInv, RingInv, SlotAt, Kept, iringbuf_display, ring
  <2> QED BY <2>1, <2>2 DEF IInv
<1>3. CASE UNCHANGED vars
  BY <1>3 DEF IInv, TypeOK, RingInv, SlotAt, Kept, vars, ring
<1> QED BY <1>1, <1>2, <1>3 DEF Next

\* Both cursors stay inside the ring, whatever is written.
THEOREM TypeCorrect ==
  ASSUME Lines # {}
  PROVE  Spec => []TypeOK
<1>1. IInv => TypeOK
  BY DEF IInv
<1>2. Init => IInv
  BY InitIInv
<1> QED BY <1>1, <1>2, NextIInv, PTL DEF Spec

\* `info i' shows the latest lines, oldest first, none missing, none twice and
\* none already overwritten (iringbuf_write against iringbuf_display).
THEOREM DisplayIsLatest ==
  ASSUME Lines # {}
  PROVE  Spec => DisplayShowsLatest
<1>1. IInv /\ [Next]_vars => [iringbuf_display => shown' = Latest(Kept)]_vars
  <2> SUFFICES ASSUME IInv, iringbuf_display
               PROVE  shown' = Latest(Kept)
    OBVIOUS
  <2>1. /\ shown' \in Seq(Lines) /\ Len(shown') = Kept
        /\ \A i \in 1..Kept : shown'[i] = iringbuf[SlotAt(i - 1)]
    BY DisplayLines
  <2>2. Kept \in 0..(CONFIG_IRINGBUF_SIZE - 1) /\ Len(lines) \in Nat
    BY KeptType DEF IInv, TypeOK
  <2>3. ASSUME NEW i \in 1..Kept
        PROVE  shown'[i] = lines[Len(lines) - Kept + i]
    <3>1. i - 1 \in 0..(CONFIG_IRINGBUF_SIZE - 1) /\ i - 1 < Kept
      BY <2>2, SizeType
    <3>2. iringbuf[SlotAt(i - 1)] = lines[Len(lines) - Kept + 1 + (i - 1)]
      BY <3>1 DEF IInv, RingInv
    <3>3. Len(lines) - Kept + 1 + (i - 1) = Len(lines) - Kept + i
      BY <2>2
    <3> QED BY <2>1, <3>2, <3>3
  <2>4. shown' = [i \in 1..Kept |-> shown'[i]]
    BY <2>1
  <2> QED BY <2>3, <2>4 DEF Latest
<1>2. Init => IInv
  BY InitIInv
<1> QED BY <1>1, <1>2, NextIInv, PTL DEF Spec, DisplayShowsLatest
=============================================================================
