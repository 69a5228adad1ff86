----------------------------- MODULE TraceRing -----------------------------
(***************************************************************************)
(* The instruction trace of a CONFIG_DEBUG build, iringbuf in              *)
(* src/cpu/cpu-exec.c: a ring of text lines that trace_and_difftest writes *)
(* after every instruction and that `info i' and a failed Assert display.  *)
(* Both cursors move inside iringbuf_write; the display moves neither.     *)
(*                                                                         *)
(* A line is a member of Lines.  lines is a history variable.              *)
(***************************************************************************)
EXTENDS Naturals, Sequences

CONSTANTS
  CONFIG_IRINGBUF_SIZE,   \* slots of the ring (256 in the code)
  Lines,                  \* what a slot may hold
  MaxLines                \* bound: how many lines are ever written

ASSUME TraceRingAssumption ==
  /\ CONFIG_IRINGBUF_SIZE \in Nat /\ CONFIG_IRINGBUF_SIZE > 1
  /\ MaxLines \in Nat

VARIABLES
  iringbuf,            \* the slots written so far
  irb_begin, irb_end,  \* the oldest line, the slot to write next
  shown,               \* what the last display printed
  lines                \* history: every line written

ring == <<iringbuf, irb_begin, irb_end>>
vars == <<ring, shown, lines>>

Slots == 0..(CONFIG_IRINGBUF_SIZE - 1)

Init ==
  /\ iringbuf = [i \in Slots |-> CHOOSE s \in Lines : TRUE]
  /\ irb_begin = 0
  /\ irb_end = 0
  /\ shown = <<>>
  /\ lines = <<>>

\* Mutant: a cursor is wrapped one slot too late.
WrapLate(i) == IF i > CONFIG_IRINGBUF_SIZE THEN 0 ELSE i

\* (i >= CONFIG_IRINGBUF_SIZE) ? (i = 0) : (0)
Wrap(i) == IF i >= CONFIG_IRINGBUF_SIZE THEN 0 ELSE i

\* Mutant: the oldest line is not given up when the writer reaches it.
WriteOver(s) ==
  LET e == Wrap(irb_end + 1)
  IN  /\ iringbuf' = [iringbuf EXCEPT ![irb_end] = s]
      /\ irb_end' = e
      /\ lines' = Append(lines, s)
      /\ UNCHANGED <<irb_begin, shown>>

\* The line goes to irb_end, which advances; a begin it has reached is pushed
\* on, so that begin = end keeps meaning empty.
iringbuf_write(s) ==
  LET e == Wrap(irb_end + 1)
  IN  /\ iringbuf' = [iringbuf EXCEPT ![irb_end] = s]
      /\ irb_end' = e
      /\ irb_begin' =
           IF irb_begin = e \/ e - irb_begin = CONFIG_IRINGBUF_SIZE
           THEN Wrap(irb_begin + 1)
           ELSE irb_begin
      /\ lines' = Append(lines, s)
      /\ UNCHANGED shown

\* The slots from b up to, not including, e.
Slice(b, e) == [i \in 1..(e - b) |-> iringbuf[b + i - 1]]

\* Nothing when empty; else from begin to end, around the edge if need be.
iringbuf_display ==
  /\ shown' = IF irb_begin <= irb_end
              THEN Slice(irb_begin, irb_end)
              ELSE Slice(irb_begin, CONFIG_IRINGBUF_SIZE) \o Slice(0, irb_end)
  /\ UNCHANGED <<ring, lines>>

Next ==
  \/ Len(lines) < MaxLines /\ \E s \in Lines : iringbuf_write(s)
  \/ iringbuf_display

Spec == Init /\ [][Next]_vars

-----------------------------------------------------------------------------

\* Every variable has its type; both cursors are slots.
TypeOK ==
  /\ iringbuf \in [Slots -> Lines]
  /\ irb_begin \in Slots
  /\ irb_end \in Slots
  /\ shown \in Seq(Lines)
  /\ lines \in Seq(Lines)

\* How many lines the ring keeps: one slot always stays free.
Kept == IF Len(lines) < CONFIG_IRINGBUF_SIZE THEN Len(lines)
                                             ELSE CONFIG_IRINGBUF_SIZE - 1

\* The last k lines written.
Latest(k) == [i \in 1..k |-> lines[Len(lines) - k + i]]

\* A display shows the latest lines, oldest first, none missing, none twice
\* and none already overwritten, wherever the cursors stand in the ring.
DisplayShowsLatest == [][iringbuf_display => shown' = Latest(Kept)]_vars
=============================================================================
