---------------------------- MODULE Watchpoints ----------------------------
(***************************************************************************)
(* The debugger's watchpoints, src/monitor/idb/watchpoint.c: a pool of     *)
(* NR_WP nodes, each on one of two singly linked lists, head (in use,      *)
(* newest first) and free_.  A node is the index of its slot in wp_pool,   *)
(* which is also its NO.                                                   *)
(*                                                                         *)
(* The value of an expression in the guest is the variable value: Execute  *)
(* stands for everything that changes it, and evaluating an expression     *)
(* reads it.  An expression that does not parse is one whose value stays.  *)
(***************************************************************************)
EXTENDS Naturals, Sequences

CONSTANTS
  NR_WP,     \* nodes in the pool (32 in the code)
  NULL,      \* the null pointer
  Exprs,     \* expressions the user may watch
  Values     \* values they may have

ASSUME WatchpointsAssumption ==
  /\ NR_WP \in Nat \ {0}
  /\ NULL \notin 0..(NR_WP - 1)
  /\ Exprs # {} /\ Values # {}

VARIABLES
  next,          \* wp_pool[i].next
  expr, last,    \* wp_pool[i].expr, wp_pool[i].last
  head, free_,
  value,         \* what each expression is worth in the guest now
  fired,         \* the last check_wp set NEMU_STOP
  died           \* the process has crashed

links == <<next, head, free_>>
vars == <<links, expr, last, value, fired, died>>

Nodes == 0..(NR_WP - 1)

\* s are the nodes that a walk along next meets, from p until NULL.
IsList(s, p) ==
  LET At(i) == IF i \in DOMAIN s THEN s[i] ELSE NULL
  IN  At(1) = p /\ \A i \in DOMAIN s : next[s[i]] = At(i + 1)

\* That walk; if it does not end within the pool, a list too long for it.
ListFrom(p) ==
  LET walks == {s \in UNION {[1..k -> Nodes] : k \in 0..NR_WP} : IsList(s, p)}
  IN  IF walks = {} THEN [k \in 1..(NR_WP + 1) |-> p] ELSE CHOOSE s \in walks : TRUE

\* Mutant: the last node of the free list is not terminated.
FreeListUnterminated == [i \in Nodes |-> i + 1]

\* The links init_wp_pool sets up: every node on the free list, in order.
FreeList == [i \in Nodes |-> IF i = NR_WP - 1 THEN NULL ELSE i + 1]

\* expr and last start zeroed; they are read only once they have been set.
Init ==
  /\ next = FreeList
  /\ head = NULL
  /\ free_ = 0
  /\ expr = [i \in Nodes |-> CHOOSE e \in Exprs : TRUE]
  /\ last = [i \in Nodes |-> CHOOSE v \in Values : TRUE]
  /\ value \in [Exprs -> Values]
  /\ fired = FALSE
  /\ died = FALSE

\* The guest executes an instruction.
Execute ==
  /\ value' \in [Exprs -> Values]
  /\ UNCHANGED <<links, expr, last, fired, died>>

\* Takes the first free node and makes it the head.
new_wp ==
  /\ free_ # NULL
  /\ free_' = next[free_]
  /\ next' = [next EXCEPT ![free_] = head]
  /\ head' = free_

\* watchpoint_add: the first evaluation only records the present value.
watchpoint_add(e) ==
  /\ new_wp
  /\ expr' = [expr EXCEPT ![head'] = e]
  /\ last' = [last EXCEPT ![head'] = value[e]]
  /\ UNCHANGED <<value, fired, died>>

\* With no free node new_wp warns and returns NULL, which watchpoint_add
\* hands to memset.
AddToFullPool ==
  /\ free_ = NULL
  /\ died' = TRUE
  /\ UNCHANGED <<links, expr, last, value, fired>>

\* Mutant: the predecessor still points at the node that is freed.
FreeWpKeepsLink(wp) ==
  /\ head' = IF wp = head THEN next[wp] ELSE head
  /\ next' = [next EXCEPT ![wp] = free_]
  /\ free_' = wp

\* Unlinks wp, through the head or through the node before it, and pushes it
\* onto the free list.  Callers only pass nodes of the list.
free_wp(wp) ==
  LET pre == {p \in Nodes : wp # head /\ next[p] = wp /\
                (\E i \in DOMAIN ListFrom(head) : ListFrom(head)[i] = p)}
  IN  /\ head' = IF wp = head THEN next[wp] ELSE head
      /\ next' = [p \in Nodes |-> IF p = wp THEN free_
                                  ELSE IF p \in pre THEN next[wp] ELSE next[p]]
      /\ free_' = wp

\* `d N' erases the N-th node of the list, if there is one.
watchpoint_erase_byList(cnt) ==
  /\ cnt \in DOMAIN ListFrom(head)
  /\ free_wp(ListFrom(head)[cnt])
  /\ UNCHANGED <<expr, last, value, fired, died>>

\* Erases the node whose NO is No, if it is on the list.
watchpoint_erase_byNo(No) ==
  /\ \E i \in DOMAIN ListFrom(head) : ListFrom(head)[i] = No
  /\ free_wp(No)
  /\ UNCHANGED <<expr, last, value, fired, died>>

\* Mutant: check_wp returns at the first change it finds.
CheckFirstOnly ==
  LET list == ListFrom(head)
      Changed(i) == last[list[i]] # value[expr[list[i]]]
      seen == {list[i] : i \in {j \in DOMAIN list :
                                  \A k \in 1..(j - 1) : ~Changed(k)}}
  IN  /\ fired' = \E i \in DOMAIN list : Changed(i)
      /\ last' = [p \in Nodes |-> IF p \in seen THEN value[expr[p]] ELSE last[p]]
      /\ UNCHANGED <<links, expr, value, died>>

\* Evaluates every watchpoint in use, and stops the machine if one changed.
check_wp ==
  LET list == ListFrom(head)
      used == {list[i] : i \in DOMAIN list}
  IN  /\ fired' = \E p \in used : last[p] # value[expr[p]]
      /\ last' = [p \in Nodes |-> IF p \in used THEN value[expr[p]] ELSE last[p]]
      /\ UNCHANGED <<links, expr, value, died>>

Next ==
  /\ ~died
  /\ \/ Execute
     \/ \E e \in Exprs : watchpoint_add(e)
     \/ AddToFullPool
     \/ \E cnt \in 1..NR_WP : watchpoint_erase_byList(cnt)
     \/ \E No \in Nodes : watchpoint_erase_byNo(No)
     \/ check_wp

Spec == Init /\ [][Next]_vars

-----------------------------------------------------------------------------

\* Every field has its type: a link is a node or NULL.
TypeOK ==
  /\ next \in [Nodes -> Nodes \cup {NULL}]
  /\ head \in Nodes \cup {NULL}
  /\ free_ \in Nodes \cup {NULL}
  /\ expr \in [Nodes -> Exprs]
  /\ last \in [Nodes -> Values]
  /\ value \in [Exprs -> Values]
  /\ fired \in BOOLEAN
  /\ died \in BOOLEAN

\* No node is lost or on both lists, whatever sequence of additions and
\* erasures by position or by number came before: the two walks end, together
\* they meet every node of the pool, and they meet it once (new_wp, free_wp).
PoolPartitioned ==
  LET both == ListFrom(head) \o ListFrom(free_)
  IN  /\ Len(both) = NR_WP
      /\ \A p \in Nodes : \E i \in 1..NR_WP : both[i] = p

\* The user is warned that there is no free watchpoint (watchpoint.c:24) and
\* the debugger goes on.
FullPoolIsRefused == ~died

\* What the list in use holds.
Watched == [i \in DOMAIN ListFrom(head) |-> [expr |-> expr[ListFrom(head)[i]],
                                             last |-> last[ListFrom(head)[i]]]]

Wl == INSTANCE WatchList WITH Capacity <- NR_WP, watched <- Watched

\* The two linked lists behave as one bounded list of watched expressions:
\* erasing removes the watchpoint asked for and no other, and every change of
\* a watched value is reported by the next check_wp, exactly once.
ImplementsWatchList == Wl!Spec
=============================================================================
