----------------------------- MODULE WatchList -----------------------------
(***************************************************************************)
(* What the watchpoints of the debugger promise, without a pool: a list    *)
(* of at most Capacity watched expressions, newest first, each with the    *)
(* value it last had; a check reports whether any of them has changed.     *)
(***************************************************************************)
EXTENDS Naturals, Sequences

CONSTANTS
  Exprs,      \* the expressions a user may watch
  Values,     \* the values they may have
  Capacity    \* how many may be watched at once

VARIABLES
  watched,    \* the list, of records [expr, last]
  value,      \* the value of every expression in the guest now
  fired,      \* the last check found a change
  died        \* the process has crashed

vars == <<watched, value, fired, died>>

Init ==
  /\ watched = <<>>
  /\ value \in [Exprs -> Values]
  /\ fired = FALSE
  /\ died = FALSE

\* The guest executes: any value may change.
Execute ==
  /\ ~died
  /\ value' \in [Exprs -> Values]
  /\ UNCHANGED <<watched, fired, died>>

\* A new watchpoint starts from the present value.
Add(e) ==
  /\ ~died
  /\ Len(watched) < Capacity
  /\ watched' = <<[expr |-> e, last |-> value[e]]>> \o watched
  /\ UNCHANGED <<value, fired, died>>

\* One watchpoint too many ends the process.
AddFull ==
  /\ ~died
  /\ Len(watched) = Capacity
  /\ died' = TRUE
  /\ UNCHANGED <<watched, value, fired>>

\* Watchpoint k, counted from the newest, goes; the others keep their order.
Erase(k) ==
  /\ ~died
  /\ watched' = [i \in 1..(Len(watched) - 1) |->
                   IF i < k THEN watched[i] ELSE watched[i + 1]]
  /\ UNCHANGED <<value, fired, died>>

\* Every change since the previous check, or since the watchpoint was set, is
\* reported, once.
Check ==
  /\ ~died
  /\ fired' = \E i \in 1..Len(watched) : watched[i].last # value[watched[i].expr]
  /\ watched' = [i \in 1..Len(watched) |->
                   [watched[i] EXCEPT !.last = value[watched[i].expr]]]
  /\ UNCHANGED <<value, died>>

Next ==
  \/ Execute
  \/ \E e \in Exprs : Add(e)
  \/ AddFull
  \/ \E k \in 1..Len(watched) : Erase(k)
  \/ Check

Spec == Init /\ [][Next]_vars
=============================================================================
