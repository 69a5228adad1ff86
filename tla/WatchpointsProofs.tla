------------------------- MODULE WatchpointsProofs -------------------------
(***************************************************************************)
(* Proofs about Watchpoints: whatever sequence of additions and erasures,  *)
(* the two linked lists partition the pool, and they behave as the bounded *)
(* list of module WatchList.                                               *)
(***************************************************************************)
EXTENDS Watchpoints, SequenceTheorems, WellFoundedInduction, TLAPS

\* s[1], ..., s[m] are the nodes from p to NULL along the links nx.
Chain(nx, s, m, p) ==
  /\ p = IF m = 0 THEN NULL ELSE s[1]
  /\ \A i \in 1..m : nx[s[i]] = IF i = m THEN NULL ELSE s[i + 1]

\* Every non-empty set of naturals has a least element.
LEMMA Least ==
  ASSUME NEW S, S \subseteq Nat, S # {}
  PROVE  \E x \in S : \A y \in S : x <= y
<1>1. PICK R : R = OpToRel(<, Nat)
  OBVIOUS
<1>2. IsWellFoundedOn(R, Nat)
  BY <1>1, NatLessThanWellFounded
<1>3. PICK x \in S : \A y \in S : <<y, x>> \notin R
  BY <1>2, WFMin
<1>4. \A y \in S : ~ (y < x)
  BY <1>1, <1>3 DEF OpToRel
<1> QED
  BY <1>3, <1>4

\* The null pointer is none of the pool's nodes, and there are some.
LEMMA NullIsNoNode == NULL \notin Nodes /\ NR_WP \in Nat /\ NR_WP > 0
BY WatchpointsAssumption DEF WatchpointsAssumption, Nodes

\* A walk is determined by its links and its start: the first place where two
\* of them differ has a common predecessor.
LEMMA ChainUnique ==
  ASSUME NEW nx, NEW p, NEW m \in Nat, NEW k \in Nat,
         NEW s \in [1..m -> Nodes], NEW t \in [1..k -> Nodes],
         Chain(nx, s, m, p), Chain(nx, t, k, p)
  PROVE  m = k /\ s = t
<1> DEFINE Bad == {i \in 1..m : ~ (i <= k /\ t[i] = s[i])}
<1>1. ASSUME Bad # {} PROVE FALSE
  <2>1. PICK i \in Bad : \A j \in Bad : i <= j
    <3>1. Bad \subseteq Nat
      OBVIOUS
    <3> QED
      BY <1>1, <3>1, Least
  <2>2. i \in 1..m /\ ~ (i <= k /\ t[i] = s[i])
    BY <2>1
  <2>3. CASE i = 1
    BY <2>2, <2>3, NullIsNoNode DEF Chain
  <2>4. CASE i # 1
    <3>1. i - 1 \in 1..m /\ i - 1 # m /\ i - 1 + 1 = i
      BY <2>2, <2>4
    <3>2. i - 1 <= k /\ t[i - 1] = s[i - 1]
      BY <2>1, <3>1
    <3>3. nx[s[i - 1]] = s[i] /\ s[i] \in Nodes
      BY <2>2, <3>1 DEF Chain
    <3>4. i - 1 \in 1..k
      BY <3>1, <3>2
    <3>5. nx[t[i - 1]] = IF i - 1 = k THEN NULL ELSE t[i]
      BY <3>1, <3>4 DEF Chain
    <3>6. i - 1 # k /\ t[i] = s[i]
      BY <3>2, <3>3, <3>5, NullIsNoNode
    <3> QED
      BY <2>2, <3>2, <3>6
  <2> QED
    BY <2>3, <2>4
<1>2. \A i \in 1..m : i <= k /\ t[i] = s[i]
  BY <1>1
<1>3. m <= k
  <2>1. CASE m = 0
    BY <2>1
  <2>2. CASE m # 0
    <3>1. m \in 1..m
      BY <2>2
    <3> QED
      BY <1>2, <3>1
  <2> QED
    BY <2>1, <2>2
<1>4. ~ (m < k)
  <2> SUFFICES ASSUME m < k PROVE FALSE
    OBVIOUS
  <2>1. CASE m = 0
    BY <2>1, NullIsNoNode DEF Chain
  <2>2. CASE m # 0
    <3>1. m \in 1..m /\ m \in 1..k /\ m # k /\ m + 1 \in 1..k
      BY <2>2
    <3>2. nx[s[m]] = NULL /\ nx[t[m]] = t[m + 1] /\ t[m] = s[m]
      BY <1>2, <3>1 DEF Chain
    <3>3. t[m + 1] \in Nodes
      BY <3>1
    <3> QED
      BY <3>2, <3>3, NullIsNoNode
  <2> QED
    BY <2>1, <2>2
<1>5. m = k
  BY <1>3, <1>4
<1> QED
  BY <1>2, <1>5

\* ListFrom, with the links as a parameter.
Walk(nx, p) ==
  LET At(s, i) == IF i \in DOMAIN s THEN s[i] ELSE NULL
      walks == {s \in UNION {[1..k -> Nodes] : k \in 0..NR_WP} :
                  At(s, 1) = p /\ \A i \in DOMAIN s : nx[s[i]] = At(s, i + 1)}
  IN  IF walks = {} THEN [k \in 1..(NR_WP + 1) |-> p] ELSE CHOOSE s \in walks : TRUE

\* The walk from p finds the one chain that starts there.
LEMMA WalkOfChain ==
  ASSUME NEW nx, NEW p, NEW m \in 0..NR_WP, NEW s \in [1..m -> Nodes],
         Chain(nx, s, m, p)
  PROVE  Walk(nx, p) = s
<1> DEFINE At(u, i) == IF i \in DOMAIN u THEN u[i] ELSE NULL
           IsWalk(u) == At(u, 1) = p /\ \A i \in DOMAIN u : nx[u[i]] = At(u, i + 1)
           walks == {u \in UNION {[1..k -> Nodes] : k \in 0..NR_WP} : IsWalk(u)}
<1>1. NR_WP \in Nat /\ m \in Nat
  BY NullIsNoNode
<1>2. ASSUME NEW k \in Nat, NEW u \in [1..k -> Nodes]
      PROVE  IsWalk(u) <=> Chain(nx, u, k, p)
  <2>1. DOMAIN u = 1..k
    OBVIOUS
  <2>2. At(u, 1) = IF k = 0 THEN NULL ELSE u[1]
    BY <2>1
  <2>3. ASSUME NEW i \in 1..k
        PROVE  At(u, i + 1) = IF i = k THEN NULL ELSE u[i + 1]
    BY <2>1
  <2> HIDE DEF At
  <2>4. IsWalk(u) <=> /\ At(u, 1) = p
                      /\ \A i \in 1..k : nx[u[i]] = At(u, i + 1)
    BY <2>1
  <2>5. (At(u, 1) = p) <=> (p = IF k = 0 THEN NULL ELSE u[1])
    BY <2>2
  <2>6. (\A i \in 1..k : nx[u[i]] = At(u, i + 1)) <=>
          (\A i \in 1..k : nx[u[i]] = IF i = k THEN NULL ELSE u[i + 1])
    BY <2>3
  <2> QED
    BY <2>4, <2>5, <2>6 DEF Chain
<1> HIDE DEF IsWalk
<1>3. s \in walks
  BY <1>1, <1>2
<1>4. ASSUME NEW u \in walks
      PROVE  u = s
  <2>1. PICK k \in 0..NR_WP : u \in [1..k -> Nodes]
    OBVIOUS
  <2>2. k \in Nat /\ IsWalk(u)
    BY <1>1
  <2>3. Chain(nx, u, k, p)
    BY <1>2, <2>1, <2>2
  <2> QED
    BY <1>1, <2>1, <2>2, <2>3, ChainUnique
<1>5. Walk(nx, p) = CHOOSE u \in walks : TRUE
  BY <1>3 DEF Walk, IsWalk
<1> QED
  BY <1>3, <1>4, <1>5

\* ListFrom is that walk, in this state and in the next.
LEMMA ListFromIsWalk ==
  ASSUME NEW p
  PROVE  /\ ListFrom(p) = Walk(next, p)
         /\ ListFrom(p)' = Walk(next', p)
         /\ ListFrom(head)' = Walk(next', head')
BY DEF ListFrom, IsList, Walk
-----------------------------------------------------------------------------
Push(a, s, m) == [i \in 1..(m + 1) |-> IF i = 1 THEN a ELSE s[i - 1]]
Drop(c, s, m) == [i \in 1..(m - 1) |-> IF i < c THEN s[i] ELSE s[i + 1]]

\* A node put before a walk, whose links stay, lengthens it.
LEMMA PushChain ==
  ASSUME NEW nx, NEW nx2, NEW p, NEW m \in Nat, NEW s \in [1..m -> Nodes],
         NEW a \in Nodes, Chain(nx, s, m, p), nx2[a] = p,
         \A i \in 1..m : nx2[s[i]] = nx[s[i]]
  PROVE  Chain(nx2, Push(a, s, m), m + 1, a)
<1>1. Push(a, s, m)[1] = a /\ \A i \in 1..m : Push(a, s, m)[i + 1] = s[i]
  BY DEF Push
<1>2. ASSUME NEW i \in 1..(m + 1)
      PROVE  nx2[Push(a, s, m)[i]] = IF i = m + 1 THEN NULL ELSE Push(a, s, m)[i + 1]
  <2>1. CASE i = 1
    BY <1>1, <2>1 DEF Chain
  <2>2. CASE i # 1
    <3>1. i - 1 \in 1..m /\ i - 1 + 1 = i
      BY <2>2
    <3>2. Push(a, s, m)[i] = s[i - 1]
      BY <1>1, <3>1
    <3>3. nx2[s[i - 1]] = IF i - 1 = m THEN NULL ELSE s[i]
      BY <3>1 DEF Chain
    <3>4. i # m + 1 => Push(a, s, m)[i + 1] = s[i]
      BY <1>1
    <3> QED
      BY <3>2, <3>3, <3>4
  <2> QED
    BY <2>1, <2>2
<1> QED
  BY <1>1, <1>2 DEF Chain

\* s[c] leaves a walk when its predecessor, or the walk's start, skips it.
LEMMA DropChain ==
  ASSUME NEW nx, NEW nx2, NEW p, NEW m \in Nat, NEW s \in [1..m -> Nodes],
         NEW c \in 1..m, Chain(nx, s, m, p),
         \A i \in 1..m : i # c => nx2[s[i]] = IF i + 1 = c THEN nx[s[c]] ELSE nx[s[i]]
  PROVE  Chain(nx2, Drop(c, s, m), m - 1, IF c = 1 THEN nx[s[1]] ELSE p)
<1> DEFINE d == Drop(c, s, m)
<1>1. \A i \in 1..(m - 1) : d[i] = IF i < c THEN s[i] ELSE s[i + 1]
  BY DEF Drop
<1> HIDE DEF d
<1>2. \A i \in 1..m : nx[s[i]] = IF i = m THEN NULL ELSE s[i + 1]
  BY DEF Chain
<1>3. p = s[1]
  BY DEF Chain
<1>4. (IF c = 1 THEN nx[s[1]] ELSE p) = IF m - 1 = 0 THEN NULL ELSE d[1]
  <2>1. CASE c = 1
    BY <1>1, <1>2, <2>1
  <2>2. CASE c # 1
    BY <1>1, <1>3, <2>2
  <2> QED
    BY <2>1, <2>2
<1>5. ASSUME NEW i \in 1..(m - 1)
      PROVE  nx2[d[i]] = IF i = m - 1 THEN NULL ELSE d[i + 1]
  <2>1. CASE i < c /\ i + 1 # c
    <3>1. d[i] = s[i] /\ i \in 1..m /\ i # c /\ i # m /\ i # m - 1
      BY <1>1, <2>1
    <3>2. d[i + 1] = s[i + 1]
      BY <1>1, <2>1, <3>1
    <3>3. nx2[s[i]] = nx[s[i]]
      BY <2>1, <3>1
    <3> QED
      BY <1>2, <3>1, <3>2, <3>3
  <2>2. CASE i + 1 = c
    <3>1. d[i] = s[i] /\ i \in 1..m /\ i # c
      BY <1>1, <2>2
    <3>2. nx2[s[i]] = nx[s[c]]
      BY <2>2, <3>1
    <3>3. nx[s[c]] = IF c = m THEN NULL ELSE s[c + 1]
      BY <1>2
    <3>4. i # m - 1 => d[i + 1] = s[c + 1]
      BY <1>1, <2>2
    <3> QED
      BY <2>2, <3>1, <3>2, <3>3, <3>4
  <2>3. CASE ~ (i < c)
    <3>1. d[i] = s[i + 1] /\ i + 1 \in 1..m /\ i + 1 # c /\ i + 1 + 1 # c
      BY <1>1, <2>3
    <3>2. nx2[s[i + 1]] = nx[s[i + 1]]
      BY <3>1
    <3>3. nx[s[i + 1]] = IF i + 1 = m THEN NULL ELSE s[i + 1 + 1]
      BY <1>2, <3>1
    <3>4. i # m - 1 => d[i + 1] = s[i + 1 + 1]
      BY <1>1, <2>3
    <3> QED
      BY <3>1, <3>2, <3>3, <3>4
  <2> QED
    BY <2>1, <2>2, <2>3
<1> QED
  BY <1>4, <1>5 DEF Chain, d

\* Together h and f have every node once.
Parted(h, m, f, k) ==
  /\ m \in Nat /\ k \in Nat /\ m + k = NR_WP
  /\ h \in [1..m -> Nodes] /\ f \in [1..k -> Nodes]
  /\ \A i \in 1..m : \A j \in 1..m : h[i] = h[j] => i = j
  /\ \A i \in 1..k : \A j \in 1..k : f[i] = f[j] => i = j
  /\ \A i \in 1..m : \A j \in 1..k : h[i] # f[j]
  /\ \A q \in Nodes : (\E i \in 1..m : h[i] = q) \/ (\E j \in 1..k : f[j] = q)

\* Moving h[c] to the front of f keeps every node on one of the two.
LEMMA MoveKeepsParted ==
  ASSUME NEW h, NEW m, NEW f, NEW k, NEW c \in 1..m, Parted(h, m, f, k)
  PROVE  Parted(Drop(c, h, m), m - 1, Push(h[c], f, k), k + 1)
<1> DEFINE d == Drop(c, h, m)
           g == Push(h[c], f, k)
<1>0. m \in Nat /\ k \in Nat /\ m + k = NR_WP /\ m > 0
      /\ h \in [1..m -> Nodes] /\ f \in [1..k -> Nodes]
  BY DEF Parted
<1>1. \A i \in 1..(m - 1) : d[i] = IF i < c THEN h[i] ELSE h[i + 1]
  BY DEF Drop
<1>2. g[1] = h[c] /\ \A i \in 1..(k + 1) : i # 1 => i - 1 \in 1..k /\ g[i] = f[i - 1]
  BY <1>0 DEF Push
<1>3. d \in [1..(m - 1) -> Nodes]
  <2>1. \A i \in 1..(m - 1) : (IF i < c THEN h[i] ELSE h[i + 1]) \in Nodes
    BY <1>0
  <2> QED
    BY <2>1 DEF Drop
<1>4. g \in [1..(k + 1) -> Nodes]
  <2>1. \A i \in 1..(k + 1) : (IF i = 1 THEN h[c] ELSE f[i - 1]) \in Nodes
    BY <1>0
  <2> QED
    BY <2>1 DEF Push
<1> HIDE DEF d, g
<1>5. \A i \in 1..(m - 1) : \E x \in 1..m : d[i] = h[x] /\ x # c
                                          /\ x = IF i < c THEN i ELSE i + 1
  <2> SUFFICES ASSUME NEW i \in 1..(m - 1)
               PROVE  \E x \in 1..m : d[i] = h[x] /\ x # c
                                      /\ x = IF i < c THEN i ELSE i + 1
    OBVIOUS
  <2>1. CASE i < c
    BY <1>0, <1>1, <2>1
  <2>2. CASE ~ (i < c)
    BY <1>0, <1>1, <2>2
  <2> QED
    BY <2>1, <2>2
<1>6. ASSUME NEW i \in 1..(m - 1), NEW j \in 1..(m - 1), d[i] = d[j]
      PROVE  i = j
  <2>1. PICK x \in 1..m : d[i] = h[x] /\ x = IF i < c THEN i ELSE i + 1
    BY <1>5
  <2>2. PICK y \in 1..m : d[j] = h[y] /\ y = IF j < c THEN j ELSE j + 1
    BY <1>5
  <2>3. h[x] = h[y]
    BY <1>6, <2>1, <2>2, Zenon
  <2>4. x = y
    BY <2>3, Zenon DEF Parted
  <2> QED
    BY <2>1, <2>2, <2>4
<1>7. ASSUME NEW i \in 1..(k + 1), NEW j \in 1..(k + 1), g[i] = g[j]
      PROVE  i = j
  <2>1. CASE i = 1 /\ j # 1
    BY <1>2, <1>7, <2>1 DEF Parted
  <2>2. CASE i # 1 /\ j = 1
    BY <1>2, <1>7, <2>2 DEF Parted
  <2>3. CASE i # 1 /\ j # 1
    <3>1. f[i - 1] = f[j - 1] /\ i - 1 \in 1..k /\ j - 1 \in 1..k
      BY <1>2, <1>7, <2>3
    <3>2. i - 1 = j - 1
      BY <3>1 DEF Parted
    <3> QED
      BY <3>2
  <2> QED
    BY <2>1, <2>2, <2>3
<1>8. ASSUME NEW i \in 1..(m - 1), NEW j \in 1..(k + 1)
      PROVE  d[i] # g[j]
  <2>1. PICK x \in 1..m : d[i] = h[x] /\ x # c
    BY <1>5
  <2>2. CASE j = 1
    BY <1>2, <2>1, <2>2 DEF Parted
  <2>3. CASE j # 1
    BY <1>2, <2>1, <2>3 DEF Parted
  <2> QED
    BY <2>2, <2>3
<1>9. ASSUME NEW q \in Nodes
      PROVE  (\E i \in 1..(m - 1) : d[i] = q) \/ (\E j \in 1..(k + 1) : g[j] = q)
  <2>1. CASE \E i \in 1..m : h[i] = q
    <3>1. PICK i \in 1..m : h[i] = q
      BY <2>1
    <3>2. CASE i = c
      <4>1. 1 \in 1..(k + 1)
        BY <1>0
      <4> QED
        BY <1>2, <3>1, <3>2, <4>1
    <3>3. CASE i < c
      <4>1. i \in 1..(m - 1)
        BY <1>0, <3>3
      <4> QED
        BY <1>1, <3>1, <3>3, <4>1
    <3>4. CASE c < i
      <4>1. i - 1 \in 1..(m - 1) /\ ~ (i - 1 < c) /\ i - 1 + 1 = i
        BY <1>0, <3>4
      <4> QED
        BY <1>1, <3>1, <4>1
    <3> QED
      BY <3>2, <3>3, <3>4
  <2>2. CASE \E j \in 1..k : f[j] = q
    <3>1. PICK j \in 1..k : f[j] = q
      BY <2>2
    <3>2. j + 1 \in 1..(k + 1) /\ j + 1 # 1 /\ j + 1 - 1 = j
      BY <1>0
    <3>3. g[j + 1] = f[j]
      BY <1>2, <3>2
    <3> QED
      BY <3>1, <3>2, <3>3
  <2> QED
    BY <2>1, <2>2 DEF Parted
<1>10. m - 1 \in Nat /\ k + 1 \in Nat /\ m - 1 + (k + 1) = NR_WP
  BY <1>0
<1> QED
  BY <1>3, <1>4, <1>6, <1>7, <1>8, <1>9, <1>10 DEF Parted, d, g

\* The two sequences play the same part.
LEMMA PartedSymmetric ==
  ASSUME NEW h, NEW m, NEW f, NEW k, Parted(h, m, f, k)
  PROVE  Parted(f, k, h, m)
<1>1. m \in Nat /\ k \in Nat /\ m + k = NR_WP
  BY DEF Parted
<1>2. k + m = NR_WP
  BY <1>1
<1> QED
  BY <1>2, Zenon DEF Parted
-----------------------------------------------------------------------------
\* head starts a list with the nodes of h, free_ one with those of f.
Shape(h, m, f, k) ==
  /\ Parted(h, m, f, k)
  /\ Chain(next, h, m, head) /\ Chain(next, f, k, free_)

PoolInv == TypeOK /\ \E h, m, f, k : Shape(h, m, f, k)

\* What the walks of a pool with this shape are.
LEMMA ShapeFacts ==
  ASSUME NEW h, NEW m, NEW f, NEW k, Shape(h, m, f, k)
  PROVE  /\ m \in Nat /\ k \in Nat /\ m + k = NR_WP
         /\ h \in [1..m -> Nodes] /\ f \in [1..k -> Nodes]
         /\ head = IF m = 0 THEN NULL ELSE h[1]
         /\ free_ = IF k = 0 THEN NULL ELSE f[1]
         /\ ListFrom(head) = h /\ ListFrom(free_) = f
<1>1. /\ m \in Nat /\ k \in Nat /\ m + k = NR_WP
      /\ h \in [1..m -> Nodes] /\ f \in [1..k -> Nodes]
  BY DEF Shape, Parted
<1>2. m \in 0..NR_WP /\ k \in 0..NR_WP
  BY <1>1, NullIsNoNode
<1>3. Walk(next, head) = h /\ Walk(next, free_) = f
  <2>1. Chain(next, h, m, head) /\ Chain(next, f, k, free_)
    BY DEF Shape
  <2> QED
    BY <1>1, <1>2, <2>1, WalkOfChain
<1> QED
  BY <1>1, <1>3, ListFromIsWalk DEF Shape, Chain

\* new_wp moves the first free node to the front of the list in use.
LEMMA NewShape ==
  ASSUME TypeOK, NEW h, NEW m, NEW f, NEW k, Shape(h, m, f, k), new_wp
  PROVE  Shape(Push(f[1], h, m), m + 1, Drop(1, f, k), k - 1)'
<1>1. k # 0 /\ free_ = f[1] /\ 1 \in 1..k
      /\ m \in Nat /\ k \in Nat /\ h \in [1..m -> Nodes] /\ f \in [1..k -> Nodes]
  BY ShapeFacts DEF new_wp
<1>2. f[1] \in Nodes
  BY <1>1
<1>3. head' = f[1] /\ free_' = next[f[1]] /\ next' = [next EXCEPT ![f[1]] = head]
  BY <1>1 DEF new_wp
<1>4. next'[f[1]] = head
  BY <1>2, <1>3 DEF TypeOK
<1>5. \A i \in 1..m : next'[h[i]] = next[h[i]]
  <2>1. \A i \in 1..m : h[i] # f[1] /\ h[i] \in Nodes
    BY <1>1 DEF Shape, Parted
  <2> QED
    BY <1>3, <2>1 DEF TypeOK
<1>6. \A i \in 1..k : i # 1 => next'[f[i]] = next[f[i]]
  <2>1. \A i \in 1..k : i # 1 => f[i] # f[1] /\ f[i] \in Nodes
    BY <1>1 DEF Shape, Parted
  <2> QED
    BY <1>3, <2>1 DEF TypeOK
<1>7. Chain(next, h, m, head) /\ Chain(next, f, k, free_)
  BY DEF Shape
<1>8. Chain(next', Push(f[1], h, m), m + 1, head')
  BY <1>1, <1>2, <1>3, <1>4, <1>5, <1>7, PushChain
<1>9. Chain(next', Drop(1, f, k), k - 1, free_')
  <2>1. \A i \in 1..k : i # 1 =>
          next'[f[i]] = IF i + 1 = 1 THEN next[f[1]] ELSE next[f[i]]
    BY <1>1, <1>6
  <2>2. Chain(next', Drop(1, f, k), k - 1, IF 1 = 1 THEN next[f[1]] ELSE free_)
    BY <1>1, <1>7, <2>1, DropChain
  <2> QED
    BY <1>3, <2>2
<1>10. Parted(Push(f[1], h, m), m + 1, Drop(1, f, k), k - 1)
  <2>1. Parted(f, k, h, m)
    BY PartedSymmetric DEF Shape
  <2>2. Parted(Drop(1, f, k), k - 1, Push(f[1], h, m), m + 1)
    BY <1>1, <2>1, MoveKeepsParted
  <2> QED
    BY <2>2, PartedSymmetric
<1> QED
  BY <1>8, <1>9, <1>10 DEF Shape

\* free_wp moves a node of the list in use to the front of the free list.
LEMMA FreeShape ==
  ASSUME TypeOK, NEW h, NEW m, NEW f, NEW k, Shape(h, m, f, k),
         NEW c \in 1..m, free_wp(h[c])
  PROVE  Shape(Drop(c, h, m), m - 1, Push(h[c], f, k), k + 1)'
<1>1. /\ m \in Nat /\ k \in Nat /\ m # 0
      /\ h \in [1..m -> Nodes] /\ f \in [1..k -> Nodes]
      /\ head = h[1] /\ ListFrom(head) = h /\ 1 \in 1..m
  BY ShapeFacts
<1>2. PICK wp \in Nodes : wp = h[c]
  BY <1>1
<1>3. PICK pre : pre = {q \in Nodes : wp # head /\ next[q] = wp /\
                          (\E i \in DOMAIN ListFrom(head) : ListFrom(head)[i] = q)}
  OBVIOUS
<1>4. /\ head' = IF wp = head THEN next[wp] ELSE head
      /\ next' = [q \in Nodes |-> IF q = wp THEN free_
                                  ELSE IF q \in pre THEN next[wp] ELSE next[q]]
      /\ free_' = wp
  BY <1>2, <1>3 DEF free_wp
<1>5. \A i \in 1..m : h[i] = wp <=> i = c
  BY <1>2 DEF Shape, Parted
<1>6. \A j \in 1..k : f[j] \in Nodes /\ f[j] # wp /\ f[j] \notin pre
  <2>1. \A i \in 1..m : \A j \in 1..k : h[i] # f[j]
    BY DEF Shape, Parted
  <2> QED
    BY <1>1, <1>2, <1>3, <2>1
<1>7. \A i \in 1..m : h[i] \in pre <=> i + 1 = c
  <2> SUFFICES ASSUME NEW i \in 1..m PROVE h[i] \in pre <=> i + 1 = c
    OBVIOUS
  <2>1. next[h[i]] = IF i = m THEN NULL ELSE h[i + 1]
    BY DEF Shape, Chain
  <2>2. wp # NULL
    BY NullIsNoNode
  <2>3. ASSUME h[i] \in pre PROVE i + 1 = c
    <3>1. next[h[i]] = wp
      BY <1>3, <2>3
    <3>2. i # m /\ h[i + 1] = wp
      BY <2>1, <2>2, <3>1
    <3>3. i + 1 \in 1..m
      BY <1>1, <3>2
    <3> QED
      BY <1>5, <3>2, <3>3
  <2>4. ASSUME i + 1 = c PROVE h[i] \in pre
    <3>1. i # m /\ c # 1
      BY <1>1, <2>4
    <3>2. next[h[i]] = wp /\ wp # head
      BY <1>1, <1>2, <1>5, <2>1, <2>4, <3>1
    <3> QED
      BY <1>1, <1>3, <3>2
  <2> QED
    BY <2>3, <2>4
<1>8. next'[wp] = free_ /\ \A j \in 1..k : next'[f[j]] = next[f[j]]
  <2>1. next'[wp] = free_
    BY <1>4
  <2>2. ASSUME NEW j \in 1..k PROVE next'[f[j]] = next[f[j]]
    BY <1>4, <1>6
  <2> QED
    BY <2>1, <2>2
<1>9. \A i \in 1..m : i # c => next'[h[i]] = IF i + 1 = c THEN next[h[c]] ELSE next[h[i]]
  <2> SUFFICES ASSUME NEW i \in 1..m, i # c
               PROVE  next'[h[i]] = IF i + 1 = c THEN next[h[c]] ELSE next[h[i]]
    OBVIOUS
  <2>1. h[i] \in Nodes /\ h[i] # wp /\ (h[i] \in pre <=> i + 1 = c)
    BY <1>1, <1>5, <1>7
  <2> QED
    BY <1>2, <1>4, <2>1
<1>10. Chain(next, h, m, head) /\ Chain(next, f, k, free_)
  BY DEF Shape
<1>11. Chain(next', Drop(c, h, m), m - 1, head')
  <2>1. Chain(next', Drop(c, h, m), m - 1, IF c = 1 THEN next[h[1]] ELSE head)
    BY <1>1, <1>9, <1>10, DropChain
  <2>2. head' = IF c = 1 THEN next[h[1]] ELSE head
    BY <1>1, <1>2, <1>4, <1>5
  <2> QED
    BY <2>1, <2>2
<1>12. Chain(next', Push(h[c], f, k), k + 1, free_')
  BY <1>1, <1>2, <1>4, <1>8, <1>10, PushChain
<1>13. Parted(Drop(c, h, m), m - 1, Push(h[c], f, k), k + 1)
  BY MoveKeepsParted DEF Shape
<1> QED
  BY <1>11, <1>12, <1>13 DEF Shape

-----------------------------------------------------------------------------
\* The pool as init_wp_pool leaves it.
LEMMA InitInv == Init => PoolInv
<1> SUFFICES ASSUME Init PROVE PoolInv
  OBVIOUS
<1>1. NR_WP \in Nat /\ NR_WP > 0 /\ NULL \notin Nodes
  BY NullIsNoNode
<1>2. /\ next = [i \in Nodes |-> IF i = NR_WP - 1 THEN NULL ELSE i + 1]
      /\ head = NULL /\ free_ = 0
  BY DEF Init, FreeList
<1>3. TypeOK
  <2>1. \A i \in Nodes : (IF i = NR_WP - 1 THEN NULL ELSE i + 1) \in Nodes \cup {NULL}
    BY <1>1 DEF Nodes
  <2>2. 0 \in Nodes
    BY <1>1 DEF Nodes
  <2>3. (CHOOSE e \in Exprs : TRUE) \in Exprs /\ (CHOOSE v \in Values : TRUE) \in Values
    BY WatchpointsAssumption DEF WatchpointsAssumption
  <2>4. next \in [Nodes -> Nodes \cup {NULL}]
    BY <1>2, <2>1
  <2>5. head \in Nodes \cup {NULL} /\ free_ \in Nodes \cup {NULL}
    BY <1>2, <2>2
  <2>6. expr \in [Nodes -> Exprs]
    BY <2>3 DEF Init
  <2>7. last \in [Nodes -> Values]
    BY <2>3 DEF Init
  <2>8. value \in [Exprs -> Values] /\ fired \in BOOLEAN /\ died \in BOOLEAN
    BY Zenon DEF Init
  <2> QED
    BY <2>4, <2>5, <2>6, <2>7, <2>8, Zenon DEF TypeOK
<1>4. PICK h : h = [i \in 1..0 |-> 0]
  OBVIOUS
<1>5. PICK f : f = [i \in 1..NR_WP |-> i - 1]
  OBVIOUS
<1>6. \A i \in 1..NR_WP : f[i] = i - 1 /\ i - 1 \in Nodes
  BY <1>1, <1>5 DEF Nodes
<1>7. Parted(h, 0, f, NR_WP)
  <2>1. h \in [1..0 -> Nodes] /\ f \in [1..NR_WP -> Nodes]
    BY <1>4, <1>5, <1>6
  <2>2. \A q \in Nodes : \E j \in 1..NR_WP : f[j] = q
    <3> SUFFICES ASSUME NEW q \in Nodes PROVE \E j \in 1..NR_WP : f[j] = q
      OBVIOUS
    <3>1. q + 1 \in 1..NR_WP /\ q + 1 - 1 = q
      BY <1>1 DEF Nodes
    <3>2. q \in Nat /\ f[q + 1] = q + 1 - 1
      BY <1>1, <1>6, <3>1 DEF Nodes
    <3>3. f[q + 1] = q
      BY <3>2
    <3> QED
      BY <3>1, <3>3
  <2>3. \A i \in 1..NR_WP : \A j \in 1..NR_WP : f[i] = f[j] => i = j
    BY <1>1, <1>6
  <2> QED
    BY <1>1, <2>1, <2>2, <2>3 DEF Parted
<1>8. Chain(next, h, 0, head)
  BY <1>2 DEF Chain
<1>9. Chain(next, f, NR_WP, free_)
  <2>1. free_ = IF NR_WP = 0 THEN NULL ELSE f[1]
    BY <1>1, <1>2, <1>6
  <2>2. ASSUME NEW i \in 1..NR_WP
        PROVE  next[f[i]] = IF i = NR_WP THEN NULL ELSE f[i + 1]
    <3>1. next[f[i]] = IF i - 1 = NR_WP - 1 THEN NULL ELSE i - 1 + 1
      BY <1>2, <1>6
    <3>2. i # NR_WP => i + 1 \in 1..NR_WP /\ f[i + 1] = i + 1 - 1
      BY <1>1, <1>6
    <3> QED
      BY <1>1, <3>1, <3>2
  <2> QED
    BY <2>1, <2>2 DEF Chain
<1> QED
  BY <1>3, <1>7, <1>8, <1>9 DEF PoolInv, Shape

\* The shape depends on the links only.
LEMMA SameShape ==
  ASSUME NEW h, NEW m, NEW f, NEW k, Shape(h, m, f, k), UNCHANGED links
  PROVE  Shape(h, m, f, k)'
BY DEF Shape, Chain, links

\* What an erasure is, by either command: free_wp on a node of the list.
Erase(c) ==
  /\ free_wp(ListFrom(head)[c])
  /\ UNCHANGED <<expr, last, value, fired, died>>

\* Both commands that erase do it to a node of the list.
LEMMA EraseIsFree ==
  /\ \A c : watchpoint_erase_byList(c) => c \in DOMAIN ListFrom(head) /\ Erase(c)
  /\ \A No : watchpoint_erase_byNo(No) => \E c \in DOMAIN ListFrom(head) :
                                             ListFrom(head)[c] = No /\ Erase(c)
BY DEF watchpoint_erase_byList, watchpoint_erase_byNo, Erase


\* Every step keeps the types.
LEMMA TypeInv ==
  ASSUME TypeOK, NEW h, NEW m, NEW f, NEW k, Shape(h, m, f, k), [Next]_vars
  PROVE  TypeOK'
<1>1. CASE Execute
  BY <1>1 DEF Execute, TypeOK, links
<1>2. ASSUME NEW e \in Exprs, watchpoint_add(e) PROVE TypeOK'
  <2>1. free_ \in Nodes /\ next[free_] \in Nodes \cup {NULL}
    BY <1>2 DEF TypeOK, watchpoint_add, new_wp
  <2> QED
    BY <1>2, <2>1 DEF watchpoint_add, new_wp, TypeOK
<1>3. CASE AddToFullPool
  BY <1>3 DEF AddToFullPool, TypeOK, links
<1>4. ASSUME NEW wp \in Nodes, free_wp(wp), UNCHANGED <<expr, last, value, fired, died>>
      PROVE  TypeOK'
  <2>1. PICK pre : next' = [q \in Nodes |-> IF q = wp THEN free_
                                  ELSE IF q \in pre THEN next[wp] ELSE next[q]]
    BY <1>4 DEF free_wp
  <2>2. \A q \in Nodes : (IF q = wp THEN free_
             ELSE IF q \in pre THEN next[wp] ELSE next[q]) \in Nodes \cup {NULL}
    BY <1>4 DEF TypeOK
  <2>3. next' \in [Nodes -> Nodes \cup {NULL}]
    BY <2>1, <2>2
  <2>4. head' \in Nodes \cup {NULL} /\ free_' \in Nodes \cup {NULL}
    BY <1>4 DEF TypeOK, free_wp
  <2> QED
    BY <1>4, <2>3, <2>4 DEF TypeOK
<1>5. CASE check_wp
  <2>1. PICK used : /\ fired' = \E p \in used : last[p] # value[expr[p]]
                    /\ last' = [p \in Nodes |-> IF p \in used THEN value[expr[p]]
                                                ELSE last[p]]
                    /\ UNCHANGED <<links, expr, value, died>>
    BY <1>5 DEF check_wp
  <2>2. \A p \in Nodes : value[expr[p]] \in Values /\ last[p] \in Values
    BY DEF TypeOK
  <2>3. last' \in [Nodes -> Values]
    BY <2>1, <2>2
  <2>4. fired' \in BOOLEAN
    BY <2>1
  <2> QED
    BY <2>1, <2>3, <2>4 DEF TypeOK, links
<1>6. CASE UNCHANGED vars
  BY <1>6 DEF TypeOK, vars, links
<1>7. ASSUME NEW c \in DOMAIN ListFrom(head), Erase(c) PROVE TypeOK'
  <2>1. ListFrom(head)[c] \in Nodes
    BY <1>7, ShapeFacts
  <2> QED
    BY <1>4, <1>7, <2>1 DEF Erase
<1>8. CASE Next
  BY <1>1, <1>2, <1>3, <1>5, <1>7, <1>8, EraseIsFree DEF Next
<1> QED
  BY <1>6, <1>8

\* Every step keeps the shape of the pool.
LEMMA NextInv == PoolInv /\ [Next]_vars => PoolInv'
<1> SUFFICES ASSUME PoolInv, [Next]_vars PROVE PoolInv'
  OBVIOUS
<1>1. PICK h, m, f, k : Shape(h, m, f, k)
  BY DEF PoolInv
<1>2. TypeOK /\ TypeOK'
  BY <1>1, TypeInv DEF PoolInv
<1>3. CASE UNCHANGED links
  BY <1>1, <1>2, <1>3, SameShape DEF PoolInv
<1>4. ASSUME NEW e \in Exprs, watchpoint_add(e) PROVE PoolInv'
  BY <1>1, <1>2, <1>4, NewShape DEF PoolInv, watchpoint_add
<1>5. ASSUME NEW c \in DOMAIN ListFrom(head), Erase(c) PROVE PoolInv'
  <2>1. c \in 1..m /\ free_wp(h[c])
    BY <1>1, <1>5, ShapeFacts DEF Erase
  <2> QED
    BY <1>1, <1>2, <2>1, FreeShape DEF PoolInv
<1>6. Execute \/ AddToFullPool \/ check_wp \/ UNCHANGED vars => UNCHANGED links
  BY DEF Execute, AddToFullPool, check_wp, vars
<1> QED
  BY <1>3, <1>4, <1>5, <1>6, EraseIsFree DEF Next

\* PoolInv is an invariant.
LEMMA PoolInvariant == Spec => []PoolInv
BY InitInv, NextInv, PTL DEF Spec

\* Types (watchpoint.c:21-60): links stay inside the pool.
THEOREM TypeCorrect == Spec => []TypeOK
<1>1. PoolInv => TypeOK
  BY DEF PoolInv
<1> QED
  BY <1>1, PoolInvariant, PTL

\* No node is lost or used twice by any sequence of new_wp and free_wp, for
\* a pool of any size.
THEOREM NoNodeIsLost == Spec => []PoolPartitioned
<1>1. ASSUME PoolInv PROVE PoolPartitioned
  <2>1. PICK h, m, f, k : Shape(h, m, f, k)
    BY <1>1 DEF PoolInv
  <2>2. /\ m \in Nat /\ k \in Nat /\ m + k = NR_WP
        /\ h \in [1..m -> Nodes] /\ f \in [1..k -> Nodes]
        /\ ListFrom(head) = h /\ ListFrom(free_) = f
    BY <2>1, ShapeFacts
  <2>3. /\ h \in Seq(Nodes) /\ Len(h) = m
        /\ f \in Seq(Nodes) /\ Len(f) = k
    BY <2>2, SeqDef, LenProperties
  <2>4. /\ Len(h \o f) = NR_WP
        /\ \A i \in 1..m : (h \o f)[i] = h[i]
        /\ \A j \in 1..k : (h \o f)[m + j] = f[j] /\ m + j \in 1..NR_WP
    <3>1. Len(h \o f) = m + k
      BY <2>3
    <3>2. \A i \in 1..(m + k) : (h \o f)[i] = IF i <= m THEN h[i] ELSE f[i - m]
      BY <2>3, ConcatProperties
    <3>3. ASSUME NEW j \in 1..k
          PROVE  m + j \in 1..(m + k) /\ ~ (m + j <= m) /\ m + j - m = j
      BY <2>2
    <3>4. ASSUME NEW i \in 1..m PROVE i \in 1..(m + k) /\ i <= m
      BY <2>2
    <3> QED
      BY <2>2, <3>1, <3>2, <3>3, <3>4
  <2>5. ASSUME NEW p \in Nodes
        PROVE  \E i \in 1..NR_WP : (h \o f)[i] = p
    <3>1. (\E i \in 1..m : h[i] = p) \/ (\E j \in 1..k : f[j] = p)
      BY <2>1 DEF Shape, Parted
    <3>2. \A i \in 1..m : i \in 1..NR_WP
      BY <2>2
    <3> QED
      BY <2>4, <3>1, <3>2
  <2> QED
    BY <2>2, <2>4, <2>5 DEF PoolPartitioned
<1> QED
  BY <1>1, PoolInvariant, PTL
-----------------------------------------------------------------------------
\* The watchpoints of a list of nodes.
Entry(ex, la, q) == [expr |-> ex[q], last |-> la[q]]
Entries(s, m, ex, la) == [i \in 1..m |-> Entry(ex, la, s[i])]

\* The watched list is that of the nodes in use, in their order.
LEMMA WatchedIs ==
  ASSUME TypeOK, NEW h, NEW m, NEW f, NEW k, Shape(h, m, f, k)
  PROVE  /\ Watched = Entries(h, m, expr, last)
         /\ Watched \in Seq([expr : Exprs, last : Values])
         /\ Len(Watched) = m
<1>1. m \in Nat /\ h \in [1..m -> Nodes] /\ ListFrom(head) = h /\ DOMAIN h = 1..m
  BY ShapeFacts
<1>2. Watched = Entries(h, m, expr, last)
  BY <1>1 DEF Watched, Entries, Entry
<1>3. \A i \in 1..m : Entry(expr, last, h[i]) \in [expr : Exprs, last : Values]
  BY <1>1 DEF Entry, TypeOK
<1>4. Watched \in [1..m -> [expr : Exprs, last : Values]]
  <2>1. Entries(h, m, expr, last) \in [1..m -> [expr : Exprs, last : Values]]
    BY <1>3 DEF Entries
  <2> QED
    BY <1>2, <2>1
<1>5. Watched \in Seq([expr : Exprs, last : Values])
  <2> DEFINE S == [expr : Exprs, last : Values]
  <2>1. Watched \in [1..m -> S] /\ m \in Nat
    BY <1>1, <1>4
  <2> HIDE DEF S
  <2>2. Watched \in Seq(S)
    BY <2>1, SeqDef
  <2> QED
    BY <2>2 DEF S
<1>6. DOMAIN Watched = 1..m
  BY <1>2, Zenon DEF Entries
<1>7. Len(Watched) = m
  BY <1>1, <1>5, <1>6, LenProperties
<1> QED
  BY <1>2, <1>5, <1>7

\* The same of the next state.
LEMMA WatchedNext ==
  ASSUME NEW h, NEW m, NEW f, NEW k, Shape(h, m, f, k)'
  PROVE  Watched' = Entries(h, m, expr', last')
<1>1. Parted(h, m, f, k) /\ Chain(next', h, m, head')
  BY DEF Shape
<1>2. m \in 0..NR_WP /\ h \in [1..m -> Nodes] /\ DOMAIN h = 1..m
  BY <1>1, NullIsNoNode DEF Parted
<1>3. ListFrom(head)' = h
  BY <1>1, <1>2, WalkOfChain, ListFromIsWalk
<1> QED
  BY <1>2, <1>3 DEF Watched, Entries, Entry

\* watchpoint_add puts one watchpoint before the others.
LEMMA AddRefines ==
  ASSUME TypeOK, NEW h, NEW m, NEW f, NEW k, Shape(h, m, f, k), ~died,
         NEW e \in Exprs, watchpoint_add(e)
  PROVE  Wl!Add(e)
<1>1. PICK a : a = f[1]
  OBVIOUS
<1>2. k # 0 /\ free_ = a /\ a \in Nodes /\ m \in Nat /\ k \in Nat /\ m + k = NR_WP
      /\ h \in [1..m -> Nodes] /\ (\A i \in 1..m : h[i] # a)
  <2>1. k # 0 /\ free_ = a /\ 1 \in 1..k /\ m \in Nat /\ k \in Nat /\ m + k = NR_WP
        /\ h \in [1..m -> Nodes] /\ f \in [1..k -> Nodes]
    BY <1>1, ShapeFacts DEF watchpoint_add, new_wp
  <2> QED
    BY <1>1, <2>1 DEF Shape, Parted
<1>3. Shape(Push(a, h, m), m + 1, Drop(1, f, k), k - 1)'
  BY <1>1, NewShape DEF watchpoint_add
<1>4. Watched' = Entries(Push(a, h, m), m + 1, expr', last')
  BY <1>3, WatchedNext
<1>5. /\ Watched = Entries(h, m, expr, last)
      /\ Watched \in Seq([expr : Exprs, last : Values]) /\ Len(Watched) = m
  BY WatchedIs
<1>6. /\ expr' = [expr EXCEPT ![a] = e] /\ last' = [last EXCEPT ![a] = value[e]]
      /\ UNCHANGED <<value, fired, died>>
  BY <1>2 DEF watchpoint_add, new_wp
<1>7. PICK r : r = [expr |-> e, last |-> value[e]]
  OBVIOUS
<1>8. r \in [expr : Exprs, last : Values]
  BY <1>7 DEF TypeOK
<1>9. Entry(expr', last', a) = r
  BY <1>2, <1>6, <1>7 DEF Entry, TypeOK
<1>10. \A i \in 1..m : Entry(expr', last', h[i]) = Watched[i]
  <2>1. ASSUME NEW i \in 1..m PROVE Entry(expr', last', h[i]) = Watched[i]
    <3>1. expr'[h[i]] = expr[h[i]] /\ last'[h[i]] = last[h[i]]
      BY <1>2, <1>6 DEF TypeOK
    <3>2. Watched[i] = Entry(expr, last, h[i])
      BY <1>5 DEF Entries
    <3> QED
      BY <3>1, <3>2 DEF Entry
  <2> QED
    BY <2>1
<1>11. \A i \in 1..(m + 1) : Watched'[i] = IF i = 1 THEN r ELSE Watched[i - 1]
  <2>1. ASSUME NEW i \in 1..(m + 1)
        PROVE  Watched'[i] = IF i = 1 THEN r ELSE Watched[i - 1]
    <3>1. Watched'[i] = Entry(expr', last', IF i = 1 THEN a ELSE h[i - 1])
      BY <1>4 DEF Entries, Push
    <3>2. CASE i = 1
      BY <1>9, <3>1, <3>2
    <3>3. CASE i # 1
      <4>1. i - 1 \in 1..m
        BY <1>2, <3>3
      <4> QED
        BY <1>10, <3>1, <3>3, <4>1
    <3> QED
      BY <3>2, <3>3
  <2> QED
    BY <2>1
<1>12. Watched' = <<r>> \o Watched
  <2>1. /\ <<r>> \in Seq([expr : Exprs, last : Values]) /\ Len(<<r>>) = 1
        /\ <<r>>[1] = r
    BY <1>8
  <2>2. /\ Len(<<r>> \o Watched) = m + 1
        /\ <<r>> \o Watched \in Seq([expr : Exprs, last : Values])
        /\ \A i \in 1..(m + 1) : (<<r>> \o Watched)[i] =
                                   IF i <= 1 THEN <<r>>[i] ELSE Watched[i - 1]
    <3>1. 1 + m = m + 1
      BY <1>2
    <3> QED
      BY <1>5, <2>1, <3>1, ConcatProperties
  <2>3. DOMAIN (<<r>> \o Watched) = 1..(m + 1)
    BY <2>2, LenProperties
  <2>4. \A i \in 1..(m + 1) : (<<r>> \o Watched)[i] = Watched'[i]
    <3> SUFFICES ASSUME NEW i \in 1..(m + 1)
                 PROVE  (<<r>> \o Watched)[i] = Watched'[i]
      OBVIOUS
    <3>1. CASE i = 1
      BY <1>11, <2>1, <2>2, <3>1
    <3>2. CASE i # 1
      BY <1>2, <1>11, <2>2, <3>2
    <3> QED
      BY <3>1, <3>2
  <2>5. <<r>> \o Watched = [i \in 1..(m + 1) |-> (<<r>> \o Watched)[i]]
    BY <2>2, <2>3, LenProperties
  <2>6. Watched' = [i \in 1..(m + 1) |-> Watched'[i]]
    BY <1>4 DEF Entries
  <2> QED
    BY <2>4, <2>5, <2>6
<1>13. Len(Watched) < NR_WP
  BY <1>2, <1>5
<1> QED
  BY <1>6, <1>7, <1>12, <1>13 DEF Wl!Add

\* An erasure removes the watchpoint asked for and no other.
LEMMA EraseRefines ==
  ASSUME TypeOK, NEW h, NEW m, NEW f, NEW k, Shape(h, m, f, k), ~died,
         NEW c \in DOMAIN ListFrom(head), Erase(c)
  PROVE  Wl!Erase(c) /\ c \in 1..Len(Watched)
<1>1. /\ c \in 1..m /\ free_wp(h[c]) /\ m \in Nat
      /\ UNCHANGED <<expr, last, value, fired, died>>
  BY ShapeFacts DEF Erase
<1>2. Shape(Drop(c, h, m), m - 1, Push(h[c], f, k), k + 1)'
  BY <1>1, FreeShape
<1>3. Watched' = Entries(Drop(c, h, m), m - 1, expr, last)
  BY <1>1, <1>2, WatchedNext
<1>4. Watched = Entries(h, m, expr, last) /\ Len(Watched) = m
  BY WatchedIs
<1>5. \A i \in 1..(m - 1) : Entry(expr, last, Drop(c, h, m)[i]) =
                              IF i < c THEN Watched[i] ELSE Watched[i + 1]
  <2> SUFFICES ASSUME NEW i \in 1..(m - 1)
               PROVE  Entry(expr, last, Drop(c, h, m)[i]) =
                        IF i < c THEN Watched[i] ELSE Watched[i + 1]
    OBVIOUS
  <2>1. Drop(c, h, m)[i] = IF i < c THEN h[i] ELSE h[i + 1]
    BY DEF Drop
  <2>2. i \in 1..m /\ i + 1 \in 1..m
    BY <1>1
  <2>3. \A j \in 1..m : Watched[j] = Entry(expr, last, h[j])
    BY <1>4 DEF Entries
  <2> QED
    BY <2>1, <2>2, <2>3
<1>6. Watched' = [i \in 1..(m - 1) |-> IF i < c THEN Watched[i] ELSE Watched[i + 1]]
  BY <1>3, <1>5 DEF Entries
<1> QED
  BY <1>1, <1>4, <1>6 DEF Wl!Erase

\* check_wp reports a change and records the present values.
LEMMA CheckRefines ==
  ASSUME TypeOK, NEW h, NEW m, NEW f, NEW k, Shape(h, m, f, k), ~died, check_wp
  PROVE  Wl!Check
<1>1. m \in Nat /\ h \in [1..m -> Nodes] /\ ListFrom(head) = h /\ DOMAIN h = 1..m
  BY ShapeFacts
<1>2. PICK used : used = {h[i] : i \in 1..m}
  OBVIOUS
<1>3. /\ fired' = \E p \in used : last[p] # value[expr[p]]
      /\ last' = [p \in Nodes |-> IF p \in used THEN value[expr[p]] ELSE last[p]]
      /\ UNCHANGED <<links, expr, value, died>>
  BY <1>1, <1>2 DEF check_wp
<1>4. Watched' = Entries(h, m, expr, last')
  BY <1>3, SameShape, WatchedNext
<1>5. Watched = Entries(h, m, expr, last) /\ Len(Watched) = m
  BY WatchedIs
<1>6. \A i \in 1..m : /\ Watched[i] = Entry(expr, last, h[i])
                      /\ Watched[i].expr = expr[h[i]] /\ Watched[i].last = last[h[i]]
  BY <1>5 DEF Entries, Entry
<1>7. \A i \in 1..m : h[i] \in used /\ last'[h[i]] = value[expr[h[i]]]
  BY <1>1, <1>2, <1>3
<1>8. \A i \in 1..m : Entry(expr, last', h[i]) =
                        [Watched[i] EXCEPT !.last = value[Watched[i].expr]]
  <2> SUFFICES ASSUME NEW i \in 1..m
               PROVE  Entry(expr, last', h[i]) =
                        [Watched[i] EXCEPT !.last = value[Watched[i].expr]]
    OBVIOUS
  <2>1. Watched[i] = [expr |-> expr[h[i]], last |-> last[h[i]]]
    BY <1>6 DEF Entry
  <2>2. Entry(expr, last', h[i]) = [expr |-> expr[h[i]], last |-> value[expr[h[i]]]]
    BY <1>7 DEF Entry
  <2>3. Watched[i].expr = expr[h[i]]
    BY <1>6
  <2> QED
    BY <2>1, <2>2, <2>3
<1>9. Watched' = [i \in 1..m |-> [Watched[i] EXCEPT !.last = value[Watched[i].expr]]]
  BY <1>4, <1>8 DEF Entries
<1>10. fired' = \E i \in 1..m : Watched[i].last # value[Watched[i].expr]
  BY <1>2, <1>3, <1>6
<1> QED
  BY <1>3, <1>5, <1>9, <1>10 DEF Wl!Check

\* Every step is one of WatchList, or changes nothing it sees.
LEMMA StepRefines == PoolInv /\ [Next]_vars => [Wl!Next]_(Wl!vars)
<1> SUFFICES ASSUME PoolInv, [Next]_vars PROVE [Wl!Next]_(Wl!vars)
  OBVIOUS
<1>1. PICK h, m, f, k : Shape(h, m, f, k)
  BY DEF PoolInv
<1>2. TypeOK
  BY DEF PoolInv
<1>3. Watched = Entries(h, m, expr, last) /\ Len(Watched) = m
  BY <1>1, <1>2, WatchedIs
<1>4. ASSUME UNCHANGED <<links, expr, last>> PROVE UNCHANGED Watched
  BY <1>1, <1>3, <1>4, SameShape, WatchedNext
<1>5. ASSUME ~died, Execute PROVE Wl!Execute
  BY <1>4, <1>5 DEF Execute, Wl!Execute
<1>6. ASSUME ~died, NEW e \in Exprs, watchpoint_add(e) PROVE Wl!Add(e)
  BY <1>1, <1>2, <1>6, AddRefines
<1>7. ASSUME ~died, AddToFullPool PROVE Wl!AddFull
  <2>1. Len(Watched) = NR_WP
    <3>1. m \in Nat /\ k \in Nat /\ m + k = NR_WP /\ f \in [1..k -> Nodes]
          /\ free_ = IF k = 0 THEN NULL ELSE f[1]
      BY <1>1, ShapeFacts
    <3>2. free_ = NULL
      BY <1>7 DEF AddToFullPool
    <3>3. k = 0
      BY <3>1, <3>2, NullIsNoNode
    <3> QED
      BY <1>3, <3>1, <3>3
  <2> QED
    BY <1>4, <1>7, <2>1 DEF AddToFullPool, Wl!AddFull
<1>8. ASSUME ~died, NEW c \in DOMAIN ListFrom(head), Erase(c)
      PROVE  Wl!Erase(c) /\ c \in 1..Len(Watched)
  BY <1>1, <1>2, <1>8, EraseRefines
<1>9. ASSUME ~died, check_wp PROVE Wl!Check
  BY <1>1, <1>2, <1>9, CheckRefines
<1>10. ASSUME UNCHANGED vars PROVE UNCHANGED Wl!vars
  BY <1>4, <1>10 DEF vars, Wl!vars
<1>11. ASSUME Next PROVE Wl!Next
  BY <1>5, <1>6, <1>7, <1>8, <1>9, <1>11, EraseIsFree DEF Next, Wl!Next
<1> QED
  BY <1>10, <1>11

\* The two linked lists behave as one bounded list of watched expressions: an
\* erasure removes the watchpoint asked for and no other, and check_wp reports
\* every change exactly once, for a pool of any size.
THEOREM ListIsImplemented == Spec => ImplementsWatchList
<1>1. Init => Wl!Init
  <2> SUFFICES ASSUME Init PROVE Wl!Init
    OBVIOUS
  <2>1. PoolInv
    BY InitInv
  <2>2. PICK h, m, f, k : Shape(h, m, f, k)
    BY <2>1 DEF PoolInv
  <2>3. m = 0
    <3>1. m \in Nat /\ h \in [1..m -> Nodes] /\ head = IF m = 0 THEN NULL ELSE h[1]
      BY <2>2, ShapeFacts
    <3>2. head = NULL
      BY DEF Init
    <3> QED
      BY <3>1, <3>2, NullIsNoNode
  <2>4. Watched \in Seq([expr : Exprs, last : Values]) /\ Len(Watched) = 0
    BY <2>1, <2>2, <2>3, WatchedIs DEF PoolInv
  <2>5. Watched = << >>
    BY <2>4, EmptySeq
  <2> QED
    BY <2>5 DEF Init, Wl!Init
<1> QED
  BY <1>1, StepRefines, PoolInvariant, PTL DEF Spec, ImplementsWatchList, Wl!Spec
=============================================================================
