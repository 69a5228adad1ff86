----------------------------- MODULE HartProofs -----------------------------
(***************************************************************************)
(* Proofs about Hart, for every well-formed program and every memory.      *)
(***************************************************************************)
EXTENDS Hart, HostMemProofs, WellFoundedInduction

-----------------------------------------------------------------------------
(* Recursive functions.                                                    *)

\* Every non-empty set of naturals has a least element.
LEMMA Least ==
  ASSUME NEW S, S \subseteq Nat, S # {}
  PROVE  \E e \in S : \A f \in S : e <= f
<1>1. PICK R : R = OpToRel(<, Nat)
  OBVIOUS
<1>2. IsWellFoundedOn(R, Nat)
  BY <1>1, NatLessThanWellFounded
<1>3. PICK e \in S : \A f \in S : <<f, e>> \notin R
  BY <1>2, WFMin
<1>4. \A f \in S : ~ (f < e)
  BY <1>1, <1>3 DEF OpToRel
<1> QED
  BY <1>3, <1>4

\* Induction, for a set of naturals.
LEMMA Induction ==
  ASSUME NEW S, 0 \in S, \A k \in Nat : k \in S => k + 1 \in S
  PROVE  Nat \subseteq S
<1> SUFFICES ASSUME Nat \ S # {} PROVE FALSE
  OBVIOUS
<1>1. PICK e \in Nat \ S : \A f \in Nat \ S : e <= f
  <2>1. Nat \ S \subseteq Nat
    OBVIOUS
  <2> QED
    BY <2>1, Least
<1>2. e - 1 \in Nat /\ (e - 1) + 1 = e
  BY <1>1
<1>3. e - 1 \in S
  BY <1>1, <1>2
<1> QED
  BY <1>1, <1>2, <1>3

\* The first values of the function that F defines by recursion from c.
Begins(g, m, c, F) ==
  /\ g \in [0..m -> Int] /\ g[0] = c
  /\ \A k \in 1..m : g[k] = F[k][g[k - 1]]

\* Two of them agree where both are defined.
LEMMA BeginsAgree ==
  ASSUME NEW c \in Int, NEW F \in [Nat -> [Int -> Int]], NEW m \in Nat, NEW l \in Nat,
         NEW g, Begins(g, m, c, F), NEW h, Begins(h, l, c, F), NEW k \in Nat, k <= m, k <= l
  PROVE  g[k] = h[k]
<1> DEFINE S == {j \in Nat : j <= m /\ j <= l => g[j] = h[j]}
<1>1. 0 \in S
  BY DEF Begins
<1>2. ASSUME NEW j \in Nat, j \in S PROVE j + 1 \in S
  <2> SUFFICES ASSUME j + 1 <= m, j + 1 <= l PROVE g[j + 1] = h[j + 1]
    OBVIOUS
  <2>1. g[j] = h[j]
    BY <1>2
  <2>2. j + 1 \in 1..m /\ j + 1 \in 1..l /\ (j + 1) - 1 = j
    OBVIOUS
  <2> QED
    BY <2>1, <2>2 DEF Begins
<1> HIDE DEF S
<1>3. k \in S
  BY <1>1, <1>2, Induction
<1> QED
  BY <1>3 DEF S

\* They reach as far as one likes.
LEMMA BeginsExists ==
  ASSUME NEW c \in Int, NEW F \in [Nat -> [Int -> Int]], NEW m \in Nat
  PROVE  \E g : Begins(g, m, c, F)
<1> DEFINE S == {j \in Nat : \E g : Begins(g, j, c, F)}
<1>1. 0 \in S
  <2>1. Begins([k \in 0..0 |-> c], 0, c, F)
    BY DEF Begins
  <2> QED
    BY <2>1
<1>2. ASSUME NEW j \in Nat, j \in S PROVE j + 1 \in S
  <2>1. PICK g : Begins(g, j, c, F)
    BY <1>2
  <2> DEFINE h == [k \in 0..(j + 1) |-> IF k = j + 1 THEN F[j + 1][g[j]] ELSE g[k]]
  <2>2. g[j] \in Int /\ F[j + 1][g[j]] \in Int
    BY <2>1 DEF Begins
  <2>3. h \in [0..(j + 1) -> Int]
    BY <2>1, <2>2 DEF Begins
  <2>4. h[0] = c
    BY <2>1 DEF Begins
  <2>5. \A k \in 1..(j + 1) : h[k] = F[k][h[k - 1]]
    <3> SUFFICES ASSUME NEW k \in 1..(j + 1) PROVE h[k] = F[k][h[k - 1]]
      OBVIOUS
    <3>1. CASE k = j + 1
      BY <3>1
    <3>2. CASE k # j + 1
      <4>1. k \in 1..j /\ k \in 0..(j + 1) /\ k - 1 \in 0..(j + 1) /\ k - 1 # j + 1
        BY <3>2
      <4> QED
        BY <2>1, <3>2, <4>1 DEF Begins
    <3> QED
      BY <3>1, <3>2
  <2>6. Begins(h, j + 1, c, F)
    BY <2>3, <2>4, <2>5 DEF Begins
  <2> QED
    BY <2>6
<1> HIDE DEF S
<1>3. m \in S
  BY <1>1, <1>2, Induction
<1> QED
  BY <1>3 DEF S

\* A recursive definition on the naturals defines a function.
LEMMA RecursionExists ==
  ASSUME NEW c \in Int, NEW F \in [Nat -> [Int -> Int]]
  PROVE  \E f \in [Nat -> Int] : f = [k \in Nat |-> IF k = 0 THEN c ELSE F[k][f[k - 1]]]
<1> DEFINE start(m) == CHOOSE g : Begins(g, m, c, F)
           f == [k \in Nat |-> start(k)[k]]
<1>1. \A m \in Nat : Begins(start(m), m, c, F)
  BY BeginsExists
<1> HIDE DEF start
<1>2. f \in [Nat -> Int]
  <2> SUFFICES ASSUME NEW k \in Nat PROVE start(k)[k] \in Int
    OBVIOUS
  <2> QED
    BY <1>1 DEF Begins
<1>3. ASSUME NEW k \in Nat PROVE f[k] = IF k = 0 THEN c ELSE F[k][f[k - 1]]
  <2>1. CASE k = 0
    BY <1>1, <2>1 DEF Begins
  <2>2. CASE k # 0
    <3>1. k - 1 \in Nat /\ k - 1 <= k /\ k \in 1..k
      BY <2>2
    <3>2. start(k)[k] = F[k][start(k)[k - 1]]
      BY <1>1, <3>1 DEF Begins
    <3>3. start(k)[k - 1] = start(k - 1)[k - 1]
      BY <1>1, <3>1, BeginsAgree
    <3> QED
      BY <2>2, <3>1, <3>2, <3>3
  <2> QED
    BY <2>1, <2>2
<1> HIDE DEF f
<1>4. f = [k \in Nat |-> IF k = 0 THEN c ELSE F[k][f[k - 1]]]
  BY <1>2, <1>3
<1> QED
  BY <1>2, <1>4
-----------------------------------------------------------------------------
(* Powers of two.                                                          *)

LEMMA Pow2Def == Pow2 = [k \in Nat |-> IF k = 0 THEN 1 ELSE 2 * Pow2[k - 1]]
<1> DEFINE F == [k \in Nat |-> [v \in Int |-> 2 * v]]
<1>1. F \in [Nat -> [Int -> Int]]
  OBVIOUS
<1>2. PICK f \in [Nat -> Int] : f = [k \in Nat |-> IF k = 0 THEN 1 ELSE F[k][f[k - 1]]]
  <2> HIDE DEF F
  <2>1. 1 \in Int
    OBVIOUS
  <2> QED
    BY <1>1, <2>1, RecursionExists, Zenon
<1>3. f = [k \in Nat |-> IF k = 0 THEN 1 ELSE 2 * f[k - 1]]
  <2>1. ASSUME NEW k \in Nat PROVE f[k] = IF k = 0 THEN 1 ELSE 2 * f[k - 1]
    <3>1. f[k] = IF k = 0 THEN 1 ELSE F[k][f[k - 1]]
      BY <1>2, Zenon
    <3>2. CASE k # 0
      <4>1. f[k - 1] \in Int
        BY <3>2
      <4> QED
        BY <3>1, <3>2, <4>1
    <3>3. CASE k = 0
      BY <3>1, <3>3
    <3> QED
      BY <3>2, <3>3
  <2> QED
    BY <1>2, <2>1
<1> QED
  BY <1>3, Zenon DEF Pow2

LEMMA Pow2Facts ==
  /\ Pow2[0] = 1
  /\ \A k \in Nat : Pow2[k + 1] = 2 * Pow2[k]
  /\ \A k \in Nat : Pow2[k] \in Nat \ {0}
<1>1. Pow2[0] = 1
  BY Pow2Def
<1>2. \A k \in Nat : Pow2[k + 1] = 2 * Pow2[k]
  <2> SUFFICES ASSUME NEW k \in Nat PROVE Pow2[k + 1] = 2 * Pow2[k]
    OBVIOUS
  <2>1. k + 1 \in Nat /\ k + 1 # 0 /\ (k + 1) - 1 = k
    OBVIOUS
  <2> QED
    BY <2>1, Pow2Def
<1> DEFINE S == {k \in Nat : Pow2[k] \in Nat \ {0}}
<1>3. 0 \in S
  BY <1>1
<1>4. \A k \in Nat : k \in S => k + 1 \in S
  BY <1>2
<1> HIDE DEF S
<1>5. Nat \subseteq S
  BY <1>3, <1>4, Induction
<1> QED
  BY <1>1, <1>2, <1>5 DEF S

LEMMA Pow2Sum ==
  ASSUME NEW j \in Nat, NEW k \in Nat
  PROVE  Pow2[j + k] = Pow2[j] * Pow2[k]
<1> DEFINE S == {m \in Nat : Pow2[j + m] = Pow2[j] * Pow2[m]}
<1>1. 0 \in S
  BY Pow2Facts
<1>2. ASSUME NEW m \in Nat, m \in S PROVE m + 1 \in S
  <2>1. PICK p \in Nat, q \in Nat : p = Pow2[j] /\ q = Pow2[m]
    BY Pow2Facts
  <2>2. Pow2[m + 1] = 2 * q /\ Pow2[(j + m) + 1] = 2 * (p * q)
    BY <1>2, <2>1, Pow2Facts
  <2>3. p * (2 * q) = 2 * (p * q) /\ j + (m + 1) = (j + m) + 1
    BY SMT
  <2> QED
    BY <2>1, <2>2, <2>3
<1> HIDE DEF S
<1>3. k \in S
  BY <1>1, <1>2, Induction
<1> QED
  BY <1>3 DEF S

-----------------------------------------------------------------------------
(* Numbers as sets of bits.                                                *)

\* Division with remainder, of negative numbers too ...
LEMMA IntDivMod ==
  ASSUME NEW a \in Int, NEW b \in Nat \ {0}
  PROVE  /\ a \div b \in Int /\ a % b \in Nat /\ a % b < b
         /\ a = b * (a \div b) + (a % b)
BY SMTT(30)

\* ... is unique ...
LEMMA IntDivUnique ==
  ASSUME NEW b \in Nat \ {0}, NEW q \in Int, NEW r \in Nat, r < b
  PROVE  (b * q + r) \div b = q /\ (b * q + r) % b = r
BY SMTT(30)

\* ... and can be done in two steps.
LEMMA TwoSteps ==
  ASSUME NEW v \in Int, NEW w \in Nat \ {0}, NEW b \in Nat \ {0}
  PROVE  /\ v \div (w * b) = (v \div w) \div b
         /\ v % (w * b) = ((v \div w) % b) * w + (v % w)
         /\ w * b \in Nat \ {0}
<1>1. PICK q \in Int, r \in Nat : q = v \div w /\ r = v % w /\ r < w /\ v = w * q + r
  BY IntDivMod
<1>2. PICK p \in Int, d \in Nat : p = q \div b /\ d = q % b /\ d < b /\ q = b * p + d
  BY IntDivMod
<1>3. w * b \in Nat \ {0} /\ d * w \in Nat
  BY SMT
<1>4. v = (w * b) * p + (d * w + r)
  <2>1. w * (b * p + d) = (w * b) * p + d * w
    BY SMT
  <2>2. (w * b) * p \in Int
    BY <1>3, SMT
  <2>3. v = ((w * b) * p + d * w) + r
    BY <1>1, <1>2, <2>1
  <2> QED
    BY <1>3, <2>2, <2>3
<1>5. d * w + r < w * b
  BY <1>1, <1>2, SMT
<1>6. d * w + r \in Nat
  BY <1>3
<1>7. v % (w * b) = d * w + r /\ v \div (w * b) = p
  BY <1>3, <1>4, <1>5, <1>6, IntDivUnique
<1> QED
  BY <1>1, <1>2, <1>3, <1>7

LEMMA DivDiv ==
  ASSUME NEW v \in Int, NEW w \in Nat \ {0}, NEW b \in Nat \ {0}
  PROVE  v \div (w * b) = (v \div w) \div b
<1>1. /\ v \div (w * b) = (v \div w) \div b
      /\ v % (w * b) = ((v \div w) % b) * w + (v % w)
      /\ w * b \in Nat \ {0}
  BY TwoSteps, Zenon
<1> QED
  BY <1>1

LEMMA ModMod ==
  ASSUME NEW v \in Int, NEW w \in Nat \ {0}, NEW b \in Nat \ {0}
  PROVE  v % (w * b) = ((v \div w) % b) * w + (v % w)
BY TwoSteps, Zenon

\* FromBits adds up the powers of the bits below WIDTH.
LEMMA FromBitsDef ==
  ASSUME NEW B
  PROVE  \E f \in [Nat -> Int] :
           /\ f[0] = 0
           /\ \A k \in Nat : f[k + 1] = f[k] + (IF k \in B THEN Pow2[k] ELSE 0)
           /\ FromBits(B) = f[WIDTH]
<1> DEFINE add(k) == IF k \in B THEN Pow2[k] ELSE 0
           F == [k \in Nat |-> [v \in Int |-> v + (IF k = 0 THEN 0 ELSE add(k - 1))]]
<1>1. \A k \in Nat : add(k) \in Int
  BY Pow2Facts
<1> HIDE DEF add
<1>2. F \in [Nat -> [Int -> Int]]
  <2>1. \A k \in Nat : k # 0 => add(k - 1) \in Int
    BY <1>1
  <2> QED
    BY <2>1
<1>3. PICK f \in [Nat -> Int] : f = [k \in Nat |-> IF k = 0 THEN 0 ELSE F[k][f[k - 1]]]
  <2> HIDE DEF F
  <2>1. 0 \in Int
    OBVIOUS
  <2> QED
    BY <1>2, <2>1, RecursionExists, Zenon
<1>4. ASSUME NEW k \in Nat, k # 0 PROVE f[k] = f[k - 1] + add(k - 1)
  <2>1. f[k] = F[k][f[k - 1]]
    BY <1>3, <1>4, Zenon
  <2>2. f[k - 1] \in Int
    BY <1>4
  <2> QED
    BY <1>4, <2>1, <2>2
<1>5. f[0] = 0
  BY <1>3
<1>6. f = [k \in Nat |-> IF k = 0 THEN 0 ELSE f[k - 1] + add(k - 1)]
  <2>1. \A k \in Nat : f[k] = IF k = 0 THEN 0 ELSE f[k - 1] + add(k - 1)
    BY <1>4, <1>5
  <2> HIDE DEF F
  <2> QED
    BY <1>3, <2>1, Zenon
<1>7. \E g : /\ g = [k \in Nat |-> IF k = 0 THEN 0
                                   ELSE g[k - 1] + (IF k - 1 \in B THEN Pow2[k - 1] ELSE 0)]
  BY <1>6, Zenon DEF add
<1> DEFINE sum == CHOOSE g : g = [k \in Nat |-> IF k = 0 THEN 0
                                ELSE g[k - 1] + (IF k - 1 \in B THEN Pow2[k - 1] ELSE 0)]
<1>8. FromBits(B) = sum[WIDTH]
  BY Zenon DEF FromBits
<1>9. sum = [k \in Nat |-> IF k = 0 THEN 0 ELSE sum[k - 1] + add(k - 1)]
  BY <1>7, Zenon DEF add
<1> HIDE DEF sum, F
<1>10. sum[0] = 0 /\ \A k \in Nat : sum[k + 1] = sum[k] + add(k)
  <2>1. sum[0] = 0
    BY <1>9
  <2>2. ASSUME NEW k \in Nat PROVE sum[k + 1] = sum[k] + add(k)
    <3>1. k + 1 \in Nat /\ k + 1 # 0 /\ (k + 1) - 1 = k
      OBVIOUS
    <3> QED
      BY <1>9, <3>1
  <2> QED
    BY <2>1, <2>2
<1> DEFINE S == {k \in Nat : sum[k] \in Int}
<1>11. Nat \subseteq S
  <2>1. 0 \in S
    BY <1>10
  <2>2. \A k \in Nat : k \in S => k + 1 \in S
    BY <1>1, <1>10
  <2> HIDE DEF S
  <2> QED
    BY <2>1, <2>2, Induction
<1>12. sum \in [Nat -> Int]
  BY <1>9, <1>11
<1> QED
  BY <1>8, <1>10, <1>12 DEF add

\* The machine's width, in its two sizes.
LEMMA PowersOfTwo ==
  /\ Pow2[0] = 1 /\ Pow2[1] = 2 /\ Pow2[2] = 4 /\ Pow2[3] = 8 /\ Pow2[4] = 16
  /\ Pow2[5] = 32 /\ Pow2[6] = 64 /\ Pow2[7] = 128 /\ Pow2[8] = 256
  /\ Pow2[9] = 512 /\ Pow2[10] = 1024 /\ Pow2[11] = 2048 /\ Pow2[12] = 4096
  /\ Pow2[13] = 8192 /\ Pow2[14] = 16384 /\ Pow2[15] = 32768 /\ Pow2[16] = 65536
  /\ Pow2[19] = 524288 /\ Pow2[20] = 1048576 /\ Pow2[24] = 16777216
  /\ Pow2[25] = 33554432 /\ Pow2[31] = 2147483648 /\ Pow2[32] = 4294967296
<1>1. \A k \in Nat : k # 0 => Pow2[k] = 2 * Pow2[k - 1]
  BY Pow2Def
<1>2. /\ Pow2[0] = 1 /\ Pow2[1] = 2 /\ Pow2[2] = 4 /\ Pow2[3] = 8 /\ Pow2[4] = 16
      /\ Pow2[5] = 32 /\ Pow2[6] = 64 /\ Pow2[7] = 128 /\ Pow2[8] = 256
  BY <1>1, Pow2Facts
<1>3. /\ Pow2[9] = 512 /\ Pow2[10] = 1024 /\ Pow2[11] = 2048 /\ Pow2[12] = 4096
      /\ Pow2[13] = 8192 /\ Pow2[14] = 16384 /\ Pow2[15] = 32768 /\ Pow2[16] = 65536
  BY <1>1, <1>2
<1>4. ASSUME NEW k \in Nat PROVE Pow2[16 + k] = 65536 * Pow2[k]
  <2>1. PICK p \in Nat : p = 16
    OBVIOUS
  <2>2. Pow2[p + k] = Pow2[p] * Pow2[k]
    BY Pow2Sum, Zenon
  <2> QED
    BY <1>3, <2>1, <2>2
<1>5. \A k \in Nat : k >= 16 => Pow2[k] = 65536 * Pow2[k - 16]
  <2> SUFFICES ASSUME NEW k \in Nat, k >= 16 PROVE Pow2[k] = 65536 * Pow2[k - 16]
    OBVIOUS
  <2>1. k - 16 \in Nat /\ 16 + (k - 16) = k
    OBVIOUS
  <2> QED
    BY <1>4, <2>1
<1>6. /\ Pow2[19] = 524288 /\ Pow2[20] = 1048576 /\ Pow2[24] = 16777216
      /\ Pow2[25] = 33554432 /\ Pow2[31] = 2147483648 /\ Pow2[32] = 4294967296
  BY <1>2, <1>3, <1>5
<1> QED
  BY <1>2, <1>3, <1>6

LEMMA Sizes ==
  /\ \/ WIDTH = 16 /\ BYTE = 16 /\ M = 65536
     \/ WIDTH = 32 /\ BYTE = 256 /\ M = 4294967296
  /\ Weight(1) = BYTE /\ Weight(2) = BYTE * BYTE /\ Weight(4) = M
  /\ WIDTH \in Nat \ {0} /\ M \in Nat \ {0}
<1>1. \/ WIDTH = 16 /\ BYTE = 16 /\ M = 65536
      \/ WIDTH = 32 /\ BYTE = 256 /\ M = 4294967296
  <2>1. 16 \div 4 = 4 /\ 32 \div 4 = 8
    BY SMT
  <2> QED
    BY <2>1, HartAssumption, PowersOfTwo DEF HartAssumption, M
<1>2. /\ Weight(1) = BYTE /\ Weight(2) = BYTE * BYTE
      /\ Weight(4) = BYTE * BYTE * BYTE * BYTE
  BY DEF Weight
<1> QED
  BY <1>1, <1>2

\* The set bits of a number add up to it, modulo 2^WIDTH.
LEMMA FromBitsOf ==
  ASSUME NEW v \in Int
  PROVE  FromBits(Bits(v)) = v % M
<1>1. PICK f \in [Nat -> Int] :
           /\ f[0] = 0
           /\ \A k \in Nat : f[k + 1] = f[k] + (IF k \in Bits(v) THEN Pow2[k] ELSE 0)
           /\ FromBits(Bits(v)) = f[WIDTH]
  BY FromBitsDef
<1> DEFINE S == {k \in Nat : k <= WIDTH => f[k] = v % Pow2[k]}
<1>2. 0 \in S
  <2>1. v % 1 = 0
    BY SMT
  <2> QED
    BY <1>1, <2>1, Pow2Facts
<1>3. ASSUME NEW k \in Nat, k \in S PROVE k + 1 \in S
  <2> SUFFICES ASSUME k + 1 <= WIDTH PROVE f[k + 1] = v % Pow2[k + 1]
    OBVIOUS
  <2>1. f[k] = v % Pow2[k] /\ k \in 0..(WIDTH - 1)
    BY <1>3, Sizes
  <2>2. PICK w \in Nat \ {0} : w = Pow2[k] /\ Pow2[k + 1] = w * 2
    <3>1. Pow2[k] \in Nat \ {0} /\ Pow2[k + 1] = 2 * Pow2[k]
      BY Pow2Facts
    <3> QED
      BY <3>1
  <2>3. v % (w * 2) = ((v \div w) % 2) * w + (v % w)
    <3>1. 2 \in Nat \ {0}
      OBVIOUS
    <3> QED
      BY <3>1, ModMod
  <2>4. k \in Bits(v) <=> (v \div w) % 2 = 1
    BY <2>1, <2>2 DEF Bits, Bit
  <2>5. (v \div w) % 2 \in {0, 1} /\ v % w \in Int
    <3>1. v \div w \in Int /\ v % w \in Nat
      BY IntDivMod
    <3> QED
      BY <3>1
  <2>6. f[k + 1] = f[k] + (IF k \in Bits(v) THEN Pow2[k] ELSE 0)
    BY <1>1
  <2>7. CASE (v \div w) % 2 = 1
    BY <2>1, <2>2, <2>3, <2>4, <2>5, <2>6, <2>7
  <2>8. CASE (v \div w) % 2 = 0
    BY <2>1, <2>2, <2>3, <2>4, <2>5, <2>6, <2>8
  <2> QED
    BY <2>5, <2>7, <2>8
<1> HIDE DEF S
<1>4. WIDTH \in S
  BY <1>2, <1>3, Induction, Sizes
<1> QED
  BY <1>1, <1>4, Sizes DEF S, M

\* Bits below WIDTH are those of the number modulo 2^WIDTH.
LEMMA BitOfMod ==
  ASSUME NEW v \in Int, NEW k \in 0..(WIDTH - 1)
  PROVE  Bit(v % M, k) = Bit(v, k)
<1>1. k \in Nat /\ WIDTH - k - 1 \in Nat /\ (WIDTH - k - 1) + 1 \in Nat
      /\ k + ((WIDTH - k - 1) + 1) = WIDTH
  BY Sizes
<1>2. PICK w \in Nat \ {0}, c \in Nat \ {0} : w = Pow2[k] /\ c = Pow2[WIDTH - k - 1]
  BY <1>1, Pow2Facts
<1>3. Pow2[(WIDTH - k - 1) + 1] = 2 * c /\ 2 * c \in Nat \ {0}
  BY <1>1, <1>2, Pow2Facts
<1>4. M = w * (2 * c)
  <2>1. Pow2[k + ((WIDTH - k - 1) + 1)] = Pow2[k] * Pow2[(WIDTH - k - 1) + 1]
    BY <1>1, Pow2Sum, Zenon
  <2> QED
    BY <1>1, <1>2, <1>3, <2>1 DEF M
<1>5. PICK x \in Int, r \in Nat : x = v \div w /\ r = v % w /\ r < w
  BY IntDivMod
<1>6. PICK y \in Nat : y = x % (2 * c) /\ y = ((x \div 2) % c) * 2 + (x % 2)
  <2>1. x % (2 * c) \in Nat
    BY <1>3, IntDivMod
  <2>2. x % (2 * c) = ((x \div 2) % c) * 2 + (x % 2)
    <3>1. 2 \in Nat \ {0}
      OBVIOUS
    <3> QED
      BY <1>5, <3>1, ModMod, Zenon
  <2> QED
    BY <2>1, <2>2
<1>7. v % M = w * y + r
  <2>1. v % (w * (2 * c)) = ((v \div w) % (2 * c)) * w + (v % w)
    BY <1>3, ModMod
  <2> QED
    BY <1>4, <1>5, <1>6, <2>1
<1>8. (v % M) \div w = y
  BY <1>5, <1>7, IntDivUnique
<1>9. y % 2 = x % 2
  <2>1. PICK z \in Int, d \in Nat : z = (x \div 2) % c /\ d = x % 2 /\ d < 2
    BY IntDivMod
  <2>2. (2 * z + d) % 2 = d
    BY <2>1, IntDivUnique
  <2> QED
    BY <1>6, <2>1, <2>2
<1> QED
  BY <1>2, <1>5, <1>8, <1>9 DEF Bit

LEMMA BitsOfMod ==
  ASSUME NEW u \in Int, NEW v \in Int, u % M = v % M
  PROVE  /\ Bits(u) = Bits(v)
         /\ \A k \in 0..(WIDTH - 1) : Bit(u, k) = Bit(v, k)
<1>1. \A k \in 0..(WIDTH - 1) : Bit(u, k) = Bit(v, k)
  BY BitOfMod
<1> QED
  BY <1>1 DEF Bits

\* What FromBits returns is a number.
LEMMA FromBitsIsInt ==
  ASSUME NEW B
  PROVE  FromBits(B) \in Int
<1>1. PICK f \in [Nat -> Int] : FromBits(B) = f[WIDTH]
  BY FromBitsDef
<1> QED
  BY <1>1, Sizes

\* A division by a power of two moves the bits down, ...
LEMMA ShiftDown ==
  ASSUME NEW v \in Int, NEW j \in Nat
  PROVE  /\ v \div Pow2[j] \in Int
         /\ \A k \in Nat : Bit(v \div Pow2[j], k) = Bit(v, k + j)
<1>1. v \div Pow2[j] \in Int
  BY Pow2Facts, IntDivMod
<1>2. ASSUME NEW k \in Nat PROVE Bit(v \div Pow2[j], k) = Bit(v, k + j)
  <2>1. PICK w \in Nat \ {0}, b \in Nat \ {0} : w = Pow2[j] /\ b = Pow2[k]
    BY Pow2Facts
  <2>2. Pow2[k + j] = w * b
    <3>1. k + j = j + k
      OBVIOUS
    <3> QED
      BY <2>1, <3>1, Pow2Sum
  <2>3. (v \div w) \div b = v \div (w * b)
    BY DivDiv, Zenon
  <2> QED
    BY <2>1, <2>2, <2>3 DEF Bit
<1> QED
  BY <1>1, <1>2

\* ... and a multiplication moves them up.
LEMMA ShiftUp ==
  ASSUME NEW v \in Int, NEW j \in Nat, NEW k \in Nat
  PROVE  /\ v * Pow2[j] \in Int
         /\ k >= j => Bit(v * Pow2[j], k) = Bit(v, k - j)
         /\ k < j => Bit(v * Pow2[j], k) = 0
<1>1. PICK w \in Nat \ {0} : w = Pow2[j]
  BY Pow2Facts
<1>2. v * w \in Int /\ v * w = w * v + 0
  BY SMT
<1>3. ASSUME k >= j PROVE Bit(v * w, k) = Bit(v, k - j)
  <2>1. k - j \in Nat /\ k = j + (k - j)
    BY <1>3
  <2>2. PICK b \in Nat \ {0} : b = Pow2[k - j]
    BY <2>1, Pow2Facts
  <2>3. Pow2[k] = w * b
    BY <1>1, <2>1, <2>2, Pow2Sum
  <2>4. (v * w) \div w = v
    BY <1>2, IntDivUnique
  <2>5. (v * w) \div (w * b) = v \div b
    BY <1>2, <2>4, DivDiv
  <2> QED
    BY <2>2, <2>3, <2>5 DEF Bit
<1>4. ASSUME k < j PROVE Bit(v * w, k) = 0
  <2>1. j - k - 1 \in Nat /\ j = k + ((j - k - 1) + 1)
    BY <1>4
  <2>2. PICK b \in Nat \ {0}, c \in Nat \ {0} : b = Pow2[k] /\ c = Pow2[j - k - 1]
    BY <2>1, Pow2Facts
  <2>3. Pow2[(j - k - 1) + 1] = 2 * c
    BY <2>1, <2>2, Pow2Facts
  <2>4. w = b * (2 * c)
    BY <1>1, <2>1, <2>2, <2>3, Pow2Sum
  <2>5. v * c \in Int /\ v * (b * (2 * c)) = b * (2 * (v * c)) + 0
    BY SMT
  <2>6. (v * w) \div b = 2 * (v * c) + 0
    BY <2>4, <2>5, IntDivUnique
  <2>7. (2 * (v * c) + 0) % 2 = 0
    BY <2>5, IntDivUnique
  <2> QED
    BY <2>2, <2>6, <2>7 DEF Bit
<1> QED
  BY <1>1, <1>2, <1>3, <1>4

\* A word has no bits above.
LEMMA NoBitsAbove ==
  ASSUME NEW v \in 0..(M - 1), NEW k \in Nat, k >= WIDTH
  PROVE  Bit(v, k) = 0
<1>1. WIDTH \in Nat /\ k - WIDTH \in Nat /\ k = WIDTH + (k - WIDTH)
  BY Sizes
<1>2. PICK w \in Nat \ {0}, b \in Nat \ {0} : w = Pow2[WIDTH] /\ b = Pow2[k - WIDTH]
  BY <1>1, Pow2Facts
<1>3. Pow2[k] = w * b
  BY <1>1, <1>2, Pow2Sum
<1>4. v \in Int /\ v \in Nat /\ v < w /\ w * 0 + v = v
  BY <1>2 DEF M
<1>5. v \div w = 0
  BY <1>4, IntDivUnique
<1>6. (b * 0 + 0) \div b = 0 /\ b * 0 + 0 = 0
  BY IntDivUnique
<1>7. v \div (w * b) = 0
  <2>1. v \div (w * b) = (v \div w) \div b
    BY <1>4, DivDiv, Zenon
  <2> QED
    BY <1>5, <1>6, <2>1
<1> QED
  BY <1>3, <1>7 DEF Bit

-----------------------------------------------------------------------------
(* Words and the integers they stand for.                                  *)

LEMMA WordIs == Word = 0..(M - 1)
BY Sizes DEF Word

\* Numbers are the same word if they differ by a multiple of 2^WIDTH.
LEMMA SameWord ==
  ASSUME NEW u \in Int, NEW v \in Int, u % M = v % M
  PROVE  \E k \in Int : u = v + M * k
<1>1. PICK m \in Nat \ {0} : m = M
  BY Sizes
<1>2. PICK p \in Int, q \in Int, r \in Nat : u = m * p + r /\ v = m * q + r
  <2>1. /\ u \div m \in Int /\ u % m \in Nat /\ u = m * (u \div m) + (u % m)
        /\ v \div m \in Int /\ v % m \in Nat /\ v = m * (v \div m) + (v % m)
    BY IntDivMod
  <2> QED
    BY <1>1, <2>1
<1>3. p - q \in Int /\ u = v + m * (p - q)
  BY <1>2, SMT
<1> QED
  BY <1>1, <1>3

LEMMA SameIfMultiple ==
  ASSUME NEW u \in Int, NEW v \in Int, NEW k \in Int, u = v + M * k
  PROVE  u % M = v % M
<1>1. PICK m \in Nat \ {0} : m = M
  BY Sizes
<1>2. PICK q \in Int, r \in Nat : v = m * q + r /\ r = v % m /\ r < m
  BY IntDivMod
<1>3. PICK d \in Int : d = q + k /\ u = m * d + r
  BY <1>1, <1>2, SMT
<1>4. (m * d + r) % m = r
  BY <1>2, IntDivUnique
<1> QED
  BY <1>1, <1>2, <1>3, <1>4

\* Sums and differences of the same words are the same word.
LEMMA SameSums ==
  ASSUME NEW u \in Int, NEW v \in Int, u % M = v % M,
         NEW x \in Int, NEW y \in Int, x % M = y % M
  PROVE  (u + x) % M = (v + y) % M
<1>1. PICK m \in Nat : m = M
  BY Sizes
<1>2. PICK k \in Int : u = v + m * k
  <2>1. \E k \in Int : u = v + M * k
    BY SameWord
  <2> QED
    BY <1>1, <2>1
<1>3. PICK l \in Int : x = y + m * l
  <2>1. \E l \in Int : x = y + M * l
    BY SameWord
  <2> QED
    BY <1>1, <2>1
<1>4. PICK a \in Int, b \in Int, c \in Int : a = u + x /\ b = v + y /\ c = k + l
  BY SMT
<1>5. a = b + M * c
  BY <1>1, <1>2, <1>3, <1>4, SMT
<1>6. a % M = b % M
  BY <1>5, SameIfMultiple
<1> QED
  BY <1>4, <1>6

LEMMA SameOffset ==
  ASSUME NEW p \in Int, NEW k \in Int, NEW b \in Int, b % M = k % M
  PROVE  (p + k) % M = (p + b) % M
<1>1. PICK m \in Nat : m = M
  BY Sizes
<1>2. PICK q \in Int : k = b + m * q
  <2>1. \E q \in Int : k = b + M * q
    BY SameWord
  <2> QED
    BY <1>1, <2>1
<1>3. PICK c \in Int, d \in Int : c = p + k /\ d = p + b
  BY SMT
<1>4. c = d + M * q
  BY <1>1, <1>2, <1>3, SMT
<1>5. c % M = d % M
  BY <1>4, SameIfMultiple
<1> QED
  BY <1>3, <1>5

LEMMA SameDifferences ==
  ASSUME NEW u \in Int, NEW v \in Int, u % M = v % M,
         NEW x \in Int, NEW y \in Int, x % M = y % M
  PROVE  (u - x) % M = (v - y) % M
<1>1. PICK m \in Nat : m = M
  BY Sizes
<1>2. PICK k \in Int : u = v + m * k
  <2>1. \E k \in Int : u = v + M * k
    BY SameWord
  <2> QED
    BY <1>1, <2>1
<1>3. PICK l \in Int : x = y + m * l
  <2>1. \E l \in Int : x = y + M * l
    BY SameWord
  <2> QED
    BY <1>1, <2>1
<1>4. PICK a \in Int, b \in Int, c \in Int : a = u - x /\ b = v - y /\ c = k - l
  BY SMT
<1>5. a = b + M * c
  BY <1>1, <1>2, <1>3, <1>4, SMT
<1>6. a % M = b % M
  BY <1>5, SameIfMultiple
<1> QED
  BY <1>4, <1>6

LEMMA SameProducts ==
  ASSUME NEW u \in Int, NEW v \in Int, u % M = v % M, NEW p \in Nat
  PROVE  (u * p) % M = (v * p) % M
<1>1. PICK m \in Nat : m = M
  BY Sizes
<1>2. PICK k \in Int : u = v + m * k
  <2>1. \E k \in Int : u = v + M * k
    BY SameWord
  <2> QED
    BY <1>1, <2>1
<1>3. PICK a \in Int, b \in Int, c \in Int : a = u * p /\ b = v * p /\ c = k * p
  BY SMT
<1>4. a = b + M * c
  BY <1>1, <1>2, <1>3, SMT
<1>5. a % M = b % M
  BY <1>4, SameIfMultiple
<1> QED
  BY <1>3, <1>5

\* A number is the same word as its remainder and as the word's value.
LEMMA SameMod ==
  ASSUME NEW v \in Int
  PROVE  /\ v % M \in Word /\ v % M \in Int /\ (v % M) % M = v % M
         /\ sword(v % M) \in Int /\ sword(v % M) % M = v % M
<1>1. v % M \in Nat /\ v % M < M /\ M \in Nat \ {0}
  BY Sizes, IntDivMod
<1>2. PICK w \in 0..(M - 1) : w = v % M
  BY <1>1
<1>3. w % M = w
  BY <1>1, <1>2, SMT
<1>4. sword(w) \in Int /\ (sword(w) = w \/ sword(w) = w + M * (-1))
  BY <1>1, <1>2 DEF sword
<1>5. sword(w) % M = w % M
  BY <1>2, <1>4, SameIfMultiple
<1> QED
  BY <1>1, <1>2, <1>3, <1>4, <1>5, WordIs

\* A word is what its value is modulo 2^WIDTH.
LEMMA SwordFacts ==
  ASSUME NEW v \in Word
  PROVE  v \in Int /\ v \in Nat /\ v % M = v /\ sword(v) \in Int /\ sword(v) % M = v
<1>1. v \in 0..(M - 1) /\ M \in Nat \ {0}
  BY WordIs, Sizes
<1>2. v \in Nat /\ v % M = v
  BY <1>1, SMT
<1> QED
  BY <1>2, SameMod

\* Shifts by the same word move as many bits.
LEMMA SameShift ==
  ASSUME NEW u \in Int, NEW v \in Int, u % M = v % M
  PROVE  u % WIDTH = v % WIDTH /\ u % WIDTH \in 0..(WIDTH - 1)
<1>1. PICK k \in Int : u = v + M * k
  BY SameWord
<1>2. CASE WIDTH = 16 /\ M = 65536
  BY <1>1, <1>2, SMT
<1>3. CASE WIDTH = 32 /\ M = 4294967296
  BY <1>1, <1>3, SMT
<1> QED
  BY <1>2, <1>3, Sizes

-----------------------------------------------------------------------------
(* Module Isa's words are module Hart's.                                   *)

LEMMA SamePow2 == Abstract!Pow2 = Pow2
BY Zenon DEF Abstract!Pow2, Pow2

LEMMA SameM == Abstract!M = M
BY SamePow2, Zenon DEF Abstract!M, M

LEMMA SameBit ==
  /\ \A v, k : Abstract!Bit(v, k) = Bit(v, k)
  /\ \A v : Abstract!Bits(v) = Bits(v)
  /\ \A B : Abstract!FromBits(B) = FromBits(B)
<1>1. \A v, k : Abstract!Bit(v, k) = Bit(v, k)
  BY SamePow2, Zenon DEF Abstract!Bit, Bit
<1>2. \A v : Abstract!Bits(v) = Bits(v)
  BY SamePow2, Zenon DEF Abstract!Bits, Bits, Abstract!Bit, Bit
<1>3. \A B : Abstract!FromBits(B) = FromBits(B)
  BY SamePow2, Zenon DEF Abstract!FromBits, FromBits
<1> QED
  BY <1>1, <1>2, <1>3

LEMMA SameWeight ==
  /\ \A k : Abstract!Weight(k) = Weight(k)
  /\ \A m, at, len : Abstract!host_read(m, at, len) = host_read(m, at, len)
  /\ \A m, at, len, data :
       Abstract!host_write(m, at, len, data) = host_write(m, at, len, data)
<1>1. \A k : Abstract!Weight(k) = Weight(k)
  BY Zenon DEF Abstract!Weight, Weight
<1>2. \A m, at, len : Abstract!host_read(m, at, len) = host_read(m, at, len)
  BY Zenon DEF Abstract!host_read, host_read, Abstract!Weight, Weight
<1>3. \A m, at, len, data :
       Abstract!host_write(m, at, len, data) = host_write(m, at, len, data)
  BY Zenon DEF Abstract!host_write, host_write, Abstract!Weight, Weight
<1> QED
  BY <1>1, <1>2, <1>3

\* Int2 is the value of a number's word.
LEMMA SameInt2 ==
  ASSUME NEW v \in Int
  PROVE  Abstract!Int2(v) = sword(v % M)
BY SameM, Zenon DEF Abstract!Int2, sword

-----------------------------------------------------------------------------
(* Arithmetic on words does what it means on the numbers they stand for.   *)

AluOps == {"add", "sub", "and", "or", "xor", "sltu", "slt", "srl", "sra", "sll"}

LEMMA AluDomain ==
  ASSUME NEW a, NEW b
  PROVE  DOMAIN alu(a, b) = AluOps
BY DEF alu, AluOps

LEMMA AluIsInt ==
  ASSUME NEW a \in Word, NEW b \in Word, NEW op \in AluOps
  PROVE  alu(a, b)[op] \in Int
<1>1. a \in Int /\ b \in Int /\ sword(a) \in Int
  BY SwordFacts
<1>2. PICK p \in Nat \ {0} : p = Pow2[b % WIDTH]
  <2>1. b % WIDTH \in 0..(WIDTH - 1)
    BY <1>1, SameShift
  <2>2. b % WIDTH \in Nat
    BY <2>1, Sizes
  <2> QED
    BY <2>2, Pow2Facts
<1>3. a * p \in Int /\ a \div p \in Int /\ sword(a) \div p \in Int
  BY <1>1, IntDivMod, SMT
<1>4. CASE op \in {"add", "sub", "sltu", "slt"}
  <2>1. /\ alu(a, b)["add"] = a + b /\ alu(a, b)["sub"] = a - b
        /\ alu(a, b)["sltu"] \in {0, 1} /\ alu(a, b)["slt"] \in {0, 1}
    BY DEF alu
  <2>2. a + b \in Int /\ a - b \in Int /\ {0, 1} \subseteq Int
    BY <1>1
  <2> QED
    BY <1>4, <2>1, <2>2
<1>5. CASE op \in {"and", "or", "xor"}
  <2>1. /\ alu(a, b)["and"] = FromBits(Bits(a) \cap Bits(b))
        /\ alu(a, b)["or"] = FromBits(Bits(a) \cup Bits(b))
        /\ alu(a, b)["xor"] = FromBits((Bits(a) \ Bits(b)) \cup (Bits(b) \ Bits(a)))
    BY DEF alu
  <2> QED
    BY <1>5, <2>1, FromBitsIsInt
<1>6. CASE op \in {"srl", "sra", "sll"}
  <2>1. /\ alu(a, b)["srl"] = a \div p /\ alu(a, b)["sra"] = sword(a) \div p
        /\ alu(a, b)["sll"] = a * p
    BY <1>2 DEF alu
  <2> QED
    BY <1>3, <1>6, <2>1
<1> QED
  BY <1>4, <1>5, <1>6 DEF AluOps

LEMMA ValueArith ==
  ASSUME NEW a \in Word, NEW b \in Word,
         NEW op \in {"add", "sub", "and", "or", "xor", "sltu", "slt"}
  PROVE  /\ Abstract!Value(op, sword(a), sword(b)) \in Int
         /\ Abstract!Value(op, sword(a), sword(b)) % M = alu(a, b)[op] % M
<1>1. PICK s \in Int, t \in Int : s = sword(a) /\ t = sword(b)
  BY SwordFacts
<1>2. a \in Int /\ b \in Int /\ s % M = a /\ a % M = a /\ t % M = b /\ b % M = b
  BY <1>1, SwordFacts
<1>3. CASE op = "add"
  <2>1. Abstract!Value("add", s, t) = s + t
    BY DEF Abstract!Value
  <2>2. (s + t) % M = (a + b) % M
    BY <1>2, SameSums
  <2>8. alu(a, b)[op] = a + b
    BY <1>3 DEF alu
  <2>9. Abstract!Value(op, sword(a), sword(b)) = Abstract!Value("add", s, t)
    BY <1>1, <1>3
  <2> QED
    BY <1>1, <2>1, <2>2, <2>8, <2>9
<1>4. CASE op = "sub"
  <2>1. Abstract!Value("sub", s, t) = s - t
    BY DEF Abstract!Value
  <2>2. (s - t) % M = (a - b) % M
    BY <1>2, SameDifferences
  <2>8. alu(a, b)[op] = a - b
    BY <1>4 DEF alu
  <2>9. Abstract!Value(op, sword(a), sword(b)) = Abstract!Value("sub", s, t)
    BY <1>1, <1>4
  <2> QED
    BY <1>1, <2>1, <2>2, <2>8, <2>9
<1>5. /\ Bits(s) = Bits(a) /\ Bits(t) = Bits(b)
      /\ \A k \in 0..(WIDTH - 1) : Bit(s, k) = Bit(a, k) /\ Bit(t, k) = Bit(b, k)
  BY <1>2, BitsOfMod
<1>6. CASE op = "and"
  <2>1. Abstract!Value("and", s, t) = FromBits(Bits(s) \cap Bits(t))
    BY SameBit DEF Abstract!Value
  <2>8. alu(a, b)[op] = FromBits(Bits(a) \cap Bits(b))
    BY <1>6 DEF alu
  <2>9. Abstract!Value(op, sword(a), sword(b)) = Abstract!Value("and", s, t)
    BY <1>1, <1>6
  <2> QED
    BY <1>1, <1>5, <2>1, <2>8, <2>9, FromBitsIsInt
<1>7. CASE op = "or"
  <2>1. Abstract!Value("or", s, t) = FromBits(Bits(s) \cup Bits(t))
    BY SameBit DEF Abstract!Value
  <2>8. alu(a, b)[op] = FromBits(Bits(a) \cup Bits(b))
    BY <1>7 DEF alu
  <2>9. Abstract!Value(op, sword(a), sword(b)) = Abstract!Value("or", s, t)
    BY <1>1, <1>7
  <2> QED
    BY <1>1, <1>5, <2>1, <2>8, <2>9, FromBitsIsInt
<1>8. CASE op = "xor"
  <2>1. Abstract!Value("xor", s, t)
          = FromBits({k \in 0..(WIDTH - 1) : Bit(s, k) # Bit(t, k)})
    BY SameBit DEF Abstract!Value
  <2>2. \A k \in 0..(WIDTH - 1) : Bit(a, k) \in {0, 1} /\ Bit(b, k) \in {0, 1}
    <3> SUFFICES ASSUME NEW k \in 0..(WIDTH - 1)
                 PROVE  Bit(a, k) \in {0, 1} /\ Bit(b, k) \in {0, 1}
      OBVIOUS
    <3>1. k \in Nat
      BY Sizes
    <3>2. a \div Pow2[k] \in Int /\ b \div Pow2[k] \in Int
      BY <1>2, <3>1, ShiftDown
    <3> QED
      BY <3>2, SMT DEF Bit
  <2>3. {k \in 0..(WIDTH - 1) : Bit(s, k) # Bit(t, k)}
          = (Bits(a) \ Bits(b)) \cup (Bits(b) \ Bits(a))
    BY <1>5, <2>2 DEF Bits
  <2>8. alu(a, b)[op] = FromBits((Bits(a) \ Bits(b)) \cup (Bits(b) \ Bits(a)))
    BY <1>8 DEF alu
  <2>9. Abstract!Value(op, sword(a), sword(b)) = Abstract!Value("xor", s, t)
    BY <1>1, <1>8
  <2> QED
    BY <1>1, <2>1, <2>3, <2>8, <2>9, FromBitsIsInt
<1>9. CASE op = "sltu"
  <2>1. Abstract!Value("sltu", s, t) = IF s % M < t % M THEN 1 ELSE 0
    BY SameM DEF Abstract!Value, Abstract!Truth
  <2>8. alu(a, b)[op] = (IF a < b THEN 1 ELSE 0)
    BY <1>9 DEF alu
  <2>9. Abstract!Value(op, sword(a), sword(b)) = Abstract!Value("sltu", s, t)
    BY <1>1, <1>9
  <2> QED
    BY <1>1, <1>2, <2>1, <2>8, <2>9
<1>10. CASE op = "slt"
  <2>1. Abstract!Value("slt", s, t) = IF s < t THEN 1 ELSE 0
    BY DEF Abstract!Value, Abstract!Truth
  <2>8. alu(a, b)[op] = (IF s < t THEN 1 ELSE 0)
    BY <1>1, <1>10 DEF alu
  <2>9. Abstract!Value(op, sword(a), sword(b)) = Abstract!Value("slt", s, t)
    BY <1>1, <1>10
  <2> QED
    BY <1>1, <2>1, <2>8, <2>9
<1> QED
  BY <1>3, <1>4, <1>6, <1>7, <1>8, <1>9, <1>10

LEMMA ValueShift ==
  ASSUME NEW a \in Word, NEW b \in Word, NEW v \in Int, v % WIDTH = b % WIDTH,
         NEW op \in {"sll", "srl", "sra"}
  PROVE  /\ Abstract!Value(op, sword(a), v) \in Int
         /\ Abstract!Value(op, sword(a), v) % M = alu(a, b)[op] % M
<1>1. PICK s \in Int : s = sword(a) /\ s % M = a
  BY SwordFacts
<1>2. a \in Int /\ a % M = a /\ a \in 0..(M - 1)
  BY SwordFacts, WordIs
<1>3. PICK j \in 0..(WIDTH - 1) : j = b % WIDTH /\ j = v % WIDTH
  BY SwordFacts, SameShift
<1>4. j \in Nat /\ WIDTH \in Nat
  BY Sizes
<1>5. \A k \in 0..(WIDTH - 1) : k \in Nat /\ Bit(s, k) = Bit(a, k)
  BY <1>1, <1>2, <1>4, BitsOfMod
<1>6. CASE op = "sll"
  <2>1. Abstract!Value("sll", s, v)
          = FromBits({k \in 0..(WIDTH - 1) : k >= j /\ Bit(s, k - j) = 1})
    BY <1>3, SameBit DEF Abstract!Value
  <2>2. {k \in 0..(WIDTH - 1) : k >= j /\ Bit(s, k - j) = 1} = Bits(s * Pow2[j])
    <3>1. \A k \in 0..(WIDTH - 1) :
            Bit(s * Pow2[j], k) = 1 <=> k >= j /\ Bit(s, k - j) = 1
      BY <1>4, <1>5, ShiftUp
    <3> QED
      BY <3>1 DEF Bits
  <2>3. s * Pow2[j] \in Int /\ FromBits(Bits(s * Pow2[j])) = (s * Pow2[j]) % M
    BY <1>4, ShiftUp, FromBitsOf
  <2>4. (s * Pow2[j]) % M = (a * Pow2[j]) % M
    <3>1. Pow2[j] \in Nat
      BY <1>4, Pow2Facts
    <3> QED
      BY <1>1, <1>2, <3>1, SameProducts
  <2>5. (a * Pow2[j]) % M \in Int /\ ((a * Pow2[j]) % M) % M = (a * Pow2[j]) % M
    BY <1>2, <1>4, ShiftUp, SameMod
  <2>8. alu(a, b)[op] = a * Pow2[j]
    BY <1>3, <1>6 DEF alu
  <2>9. Abstract!Value(op, sword(a), v) = Abstract!Value("sll", s, v)
    BY <1>1, <1>6
  <2> QED
    BY <1>1, <1>3, <2>1, <2>2, <2>3, <2>4, <2>5, <2>8, <2>9
<1>7. CASE op = "srl"
  <2>1. Abstract!Value("srl", s, v)
          = FromBits({k \in 0..(WIDTH - 1) : k + j < WIDTH /\ Bit(s, k + j) = 1})
    BY <1>3, SameBit DEF Abstract!Value
  <2>2. {k \in 0..(WIDTH - 1) : k + j < WIDTH /\ Bit(s, k + j) = 1} = Bits(a \div Pow2[j])
    <3>1. ASSUME NEW k \in 0..(WIDTH - 1)
          PROVE  Bit(a \div Pow2[j], k) = 1 <=> k + j < WIDTH /\ Bit(s, k + j) = 1
      <4>1. Bit(a \div Pow2[j], k) = Bit(a, k + j)
        BY <1>2, <1>4, <1>5, ShiftDown
      <4>2. CASE k + j < WIDTH
        <5>1. k + j \in 0..(WIDTH - 1)
          BY <1>4, <4>2
        <5>2. Bit(s, k + j) = Bit(a, k + j)
          BY <1>5, <5>1
        <5> QED
          BY <4>1, <4>2, <5>2
      <4>3. CASE ~ (k + j < WIDTH)
        <5>1. k + j \in Nat /\ k + j >= WIDTH
          BY <1>4, <4>3
        <5>2. Bit(a, k + j) = 0
          BY <1>2, <5>1, NoBitsAbove
        <5> QED
          BY <4>1, <4>3, <5>2
      <4> QED
        BY <4>2, <4>3
    <3> QED
      BY <3>1 DEF Bits
  <2>3. a \div Pow2[j] \in Int /\ FromBits(Bits(a \div Pow2[j])) = (a \div Pow2[j]) % M
    BY <1>2, <1>4, ShiftDown, FromBitsOf
  <2>4. (a \div Pow2[j]) % M \in Int /\ ((a \div Pow2[j]) % M) % M = (a \div Pow2[j]) % M
    BY <2>3, SameMod
  <2>8. alu(a, b)[op] = a \div Pow2[j]
    BY <1>3, <1>7 DEF alu
  <2>9. Abstract!Value(op, sword(a), v) = Abstract!Value("srl", s, v)
    BY <1>1, <1>7
  <2> QED
    BY <1>1, <1>3, <2>1, <2>2, <2>3, <2>4, <2>8, <2>9
<1>8. CASE op = "sra"
  <2>1. Abstract!Value("sra", s, v) = FromBits({k \in 0..(WIDTH - 1) : Bit(s, k + j) = 1})
    BY <1>3, SameBit DEF Abstract!Value
  <2>2. {k \in 0..(WIDTH - 1) : Bit(s, k + j) = 1} = Bits(s \div Pow2[j])
    <3>1. \A k \in 0..(WIDTH - 1) : Bit(s \div Pow2[j], k) = Bit(s, k + j)
      BY <1>4, <1>5, ShiftDown
    <3> QED
      BY <3>1 DEF Bits
  <2>3. s \div Pow2[j] \in Int /\ FromBits(Bits(s \div Pow2[j])) = (s \div Pow2[j]) % M
    BY <1>4, ShiftDown, FromBitsOf
  <2>4. (s \div Pow2[j]) % M \in Int /\ ((s \div Pow2[j]) % M) % M = (s \div Pow2[j]) % M
    BY <2>3, SameMod
  <2>8. alu(a, b)[op] = s \div Pow2[j]
    BY <1>1, <1>3, <1>8 DEF alu
  <2>9. Abstract!Value(op, sword(a), v) = Abstract!Value("sra", s, v)
    BY <1>1, <1>8
  <2> QED
    BY <1>1, <1>3, <2>1, <2>2, <2>3, <2>4, <2>8, <2>9
<1> QED
  BY <1>6, <1>7, <1>8

-----------------------------------------------------------------------------
(* The decoder: no word matches two patterns.                              *)

LEMMA Rows ==
  /\ DOMAIN Patterns = 1..38
  /\ Patterns[1] = P(Any, Any, 55, "lui", "U")
  /\ Patterns[2] = P(Any, Any, 23, "auipc", "U")
  /\ Patterns[3] = P({0}, {0}, 51, "add", "R")
  /\ Patterns[4] = P({32}, {0}, 51, "sub", "R")
  /\ Patterns[5] = P({0}, {7}, 51, "and", "R")
  /\ Patterns[6] = P({0}, {4}, 51, "xor", "R")
  /\ Patterns[7] = P({0}, {6}, 51, "or", "R")
  /\ Patterns[8] = P({0}, {3}, 51, "sltu", "R")
  /\ Patterns[9] = P({0}, {2}, 51, "slt", "R")
  /\ Patterns[10] = P({0}, {5}, 51, "srl", "R")
  /\ Patterns[11] = P({32}, {5}, 51, "sra", "R")
  /\ Patterns[12] = P({0}, {1}, 51, "sll", "R")
  /\ Patterns[13] = P(Any, Any, 111, "jal", "J")
  /\ Patterns[14] = P(Any, {0}, 103, "jalr", "I")
  /\ Patterns[15] = P(Any, {0}, 19, "add", "I")
  /\ Patterns[16] = P(Any, {7}, 19, "and", "I")
  /\ Patterns[17] = P(Any, {6}, 19, "or", "I")
  /\ Patterns[18] = P(Any, {4}, 19, "xor", "I")
  /\ Patterns[19] = P(Any, {3}, 19, "sltu", "I")
  /\ Patterns[20] = P(Any, {2}, 19, "slt", "I")
  /\ Patterns[21] = P(Any, {2}, 3, "lw", "I")
  /\ Patterns[22] = P(Any, {4}, 3, "lbu", "I")
  /\ Patterns[23] = P(Any, {5}, 3, "lhu", "I")
  /\ Patterns[24] = P(Any, {1}, 3, "lh", "I")
  /\ Patterns[25] = P(Any, {0}, 3, "lb", "I")
  /\ Patterns[26] = P({0}, {1}, 19, "sll", "I")
  /\ Patterns[27] = P({0}, {5}, 19, "srl", "I")
  /\ Patterns[28] = P({32, 33}, {5}, 19, "sra", "I")
  /\ Patterns[29] = P(Any, {0}, 35, "sb", "S")
  /\ Patterns[30] = P(Any, {1}, 35, "sh", "S")
  /\ Patterns[31] = P(Any, {2}, 35, "sw", "S")
  /\ Patterns[32] = P(Any, {0}, 99, "beq", "B")
  /\ Patterns[33] = P(Any, {1}, 99, "bne", "B")
  /\ Patterns[34] = P(Any, {4}, 99, "blt", "B")
  /\ Patterns[35] = P(Any, {5}, 99, "bge", "B")
  /\ Patterns[36] = P(Any, {6}, 99, "bltu", "B")
  /\ Patterns[37] = P(Any, {7}, 99, "bgeu", "B")
  /\ Patterns[38] = P({0}, {0}, 115, "ebreak", "N")
<1>1. /\ DOMAIN Patterns = 1..38
      /\ Patterns[1] = P(Any, Any, 55, "lui", "U")
      /\ Patterns[2] = P(Any, Any, 23, "auipc", "U")
      /\ Patterns[3] = P({0}, {0}, 51, "add", "R")
      /\ Patterns[4] = P({32}, {0}, 51, "sub", "R")
      /\ Patterns[5] = P({0}, {7}, 51, "and", "R")
      /\ Patterns[6] = P({0}, {4}, 51, "xor", "R")
      /\ Patterns[7] = P({0}, {6}, 51, "or", "R")
  BY SMTT(60) DEF Patterns
<1>2. /\ Patterns[8] = P({0}, {3}, 51, "sltu", "R")
      /\ Patterns[9] = P({0}, {2}, 51, "slt", "R")
      /\ Patterns[10] = P({0}, {5}, 51, "srl", "R")
      /\ Patterns[11] = P({32}, {5}, 51, "sra", "R")
      /\ Patterns[12] = P({0}, {1}, 51, "sll", "R")
      /\ Patterns[13] = P(Any, Any, 111, "jal", "J")
      /\ Patterns[14] = P(Any, {0}, 103, "jalr", "I")
      /\ Patterns[15] = P(Any, {0}, 19, "add", "I")
  BY SMTT(60) DEF Patterns
<1>3. /\ Patterns[16] = P(Any, {7}, 19, "and", "I")
      /\ Patterns[17] = P(Any, {6}, 19, "or", "I")
      /\ Patterns[18] = P(Any, {4}, 19, "xor", "I")
      /\ Patterns[19] = P(Any, {3}, 19, "sltu", "I")
      /\ Patterns[20] = P(Any, {2}, 19, "slt", "I")
      /\ Patterns[21] = P(Any, {2}, 3, "lw", "I")
      /\ Patterns[22] = P(Any, {4}, 3, "lbu", "I")
      /\ Patterns[23] = P(Any, {5}, 3, "lhu", "I")
  BY SMTT(60) DEF Patterns
<1>4. /\ Patterns[24] = P(Any, {1}, 3, "lh", "I")
      /\ Patterns[25] = P(Any, {0}, 3, "lb", "I")
      /\ Patterns[26] = P({0}, {1}, 19, "sll", "I")
      /\ Patterns[27] = P({0}, {5}, 19, "srl", "I")
      /\ Patterns[28] = P({32, 33}, {5}, 19, "sra", "I")
      /\ Patterns[29] = P(Any, {0}, 35, "sb", "S")
      /\ Patterns[30] = P(Any, {1}, 35, "sh", "S")
      /\ Patterns[31] = P(Any, {2}, 35, "sw", "S")
  BY SMTT(60) DEF Patterns
<1>5. /\ Patterns[32] = P(Any, {0}, 99, "beq", "B")
      /\ Patterns[33] = P(Any, {1}, 99, "bne", "B")
      /\ Patterns[34] = P(Any, {4}, 99, "blt", "B")
      /\ Patterns[35] = P(Any, {5}, 99, "bge", "B")
      /\ Patterns[36] = P(Any, {6}, 99, "bltu", "B")
      /\ Patterns[37] = P(Any, {7}, 99, "bgeu", "B")
      /\ Patterns[38] = P({0}, {0}, 115, "ebreak", "N")
  BY SMTT(60) DEF Patterns
<1> QED
  BY <1>1, <1>2, <1>3, <1>4, <1>5

\* What the word i of pattern k looks like.
Shape(k, i) ==
  \/ k = 1 /\ i.op = 55
  \/ k = 2 /\ i.op = 23
  \/ k = 3 /\ i.op = 51 /\ i.f3 = 0 /\ i.f7 = 0
  \/ k = 4 /\ i.op = 51 /\ i.f3 = 0 /\ i.f7 = 32
  \/ k = 5 /\ i.op = 51 /\ i.f3 = 7 /\ i.f7 = 0
  \/ k = 6 /\ i.op = 51 /\ i.f3 = 4 /\ i.f7 = 0
  \/ k = 7 /\ i.op = 51 /\ i.f3 = 6 /\ i.f7 = 0
  \/ k = 8 /\ i.op = 51 /\ i.f3 = 3 /\ i.f7 = 0
  \/ k = 9 /\ i.op = 51 /\ i.f3 = 2 /\ i.f7 = 0
  \/ k = 10 /\ i.op = 51 /\ i.f3 = 5 /\ i.f7 = 0
  \/ k = 11 /\ i.op = 51 /\ i.f3 = 5 /\ i.f7 = 32
  \/ k = 12 /\ i.op = 51 /\ i.f3 = 1 /\ i.f7 = 0
  \/ k = 13 /\ i.op = 111
  \/ k = 14 /\ i.op = 103 /\ i.f3 = 0
  \/ k = 15 /\ i.op = 19 /\ i.f3 = 0
  \/ k = 16 /\ i.op = 19 /\ i.f3 = 7
  \/ k = 17 /\ i.op = 19 /\ i.f3 = 6
  \/ k = 18 /\ i.op = 19 /\ i.f3 = 4
  \/ k = 19 /\ i.op = 19 /\ i.f3 = 3
  \/ k = 20 /\ i.op = 19 /\ i.f3 = 2
  \/ k = 21 /\ i.op = 3 /\ i.f3 = 2
  \/ k = 22 /\ i.op = 3 /\ i.f3 = 4
  \/ k = 23 /\ i.op = 3 /\ i.f3 = 5
  \/ k = 24 /\ i.op = 3 /\ i.f3 = 1
  \/ k = 25 /\ i.op = 3 /\ i.f3 = 0
  \/ k = 26 /\ i.op = 19 /\ i.f3 = 1 /\ i.f7 = 0
  \/ k = 27 /\ i.op = 19 /\ i.f3 = 5 /\ i.f7 = 0
  \/ k = 28 /\ i.op = 19 /\ i.f3 = 5 /\ i.f7 \in {32, 33}
  \/ k = 29 /\ i.op = 35 /\ i.f3 = 0
  \/ k = 30 /\ i.op = 35 /\ i.f3 = 1
  \/ k = 31 /\ i.op = 35 /\ i.f3 = 2
  \/ k = 32 /\ i.op = 99 /\ i.f3 = 0
  \/ k = 33 /\ i.op = 99 /\ i.f3 = 1
  \/ k = 34 /\ i.op = 99 /\ i.f3 = 4
  \/ k = 35 /\ i.op = 99 /\ i.f3 = 5
  \/ k = 36 /\ i.op = 99 /\ i.f3 = 6
  \/ k = 37 /\ i.op = 99 /\ i.f3 = 7
  \/ k = 38 /\ i.op = 115 /\ i.f3 = 0 /\ i.f7 = 0

LEMMA ShapeOfMatch ==
  ASSUME NEW i, NEW k \in 1..38, INSTPAT(Patterns[k], i)
  PROVE  Shape(k, i)
BY Rows, SMTT(60) DEF INSTPAT, P, Shape

LEMMA OneShape ==
  ASSUME NEW i, NEW j \in 1..38, NEW k \in 1..38, Shape(j, i), Shape(k, i)
  PROVE  j = k
BY SMTT(60) DEF Shape

LEMMA Decoded ==
  ASSUME NEW i, NEW k \in 1..38, INSTPAT(Patterns[k], i)
  PROVE  Decode(i) = Patterns[k]
<1> DEFINE hits == {j \in DOMAIN Patterns : INSTPAT(Patterns[j], i)}
<1>1. k \in hits
  BY Rows, ZenonT(30)
<1>2. \A j \in hits : j = k
  BY Rows, ShapeOfMatch, OneShape
<1>3. hits = {k}
  BY <1>1, <1>2
<1>4. Decode(i) = IF hits = {} THEN P(Any, Any, Any, "inv", "N")
                  ELSE Patterns[CHOOSE h \in hits : \A j \in hits : h <= j]
  BY Zenon DEF Decode
<1> HIDE DEF hits
<1>5. (CHOOSE h \in hits : \A j \in hits : h <= j) = k
  BY <1>3
<1> QED
  BY <1>3, <1>4, <1>5

-----------------------------------------------------------------------------
(* How module Isa lays out instructions.                                   *)

OpsR == {"add", "sub", "sll", "slt", "sltu", "xor", "srl", "sra", "or", "and"}
OpsI == {"addi", "slti", "sltiu", "xori", "ori", "andi"}
OpsH == {"slli", "srli", "srai"}
OpsL == {"lb", "lh", "lw", "lbu", "lhu", "jalr", "ebreak"}
OpsS == {"sb", "sh", "sw"}
OpsB == {"beq", "bne", "blt", "bge", "bltu", "bgeu"}
OpsU == {"lui", "auipc"}
OpsJ == {"jal"}

LEMMA Codes ==
  /\ DOMAIN Abstract!Code = OpsR \cup OpsI \cup OpsH \cup OpsL \cup OpsS \cup OpsB
                            \cup OpsU \cup OpsJ
  /\ Abstract!Code["add"] = <<"R", 0, 0, 51>>
  /\ Abstract!Code["sub"] = <<"R", 0, 32, 51>>
  /\ Abstract!Code["sll"] = <<"R", 1, 0, 51>>
  /\ Abstract!Code["slt"] = <<"R", 2, 0, 51>>
  /\ Abstract!Code["sltu"] = <<"R", 3, 0, 51>>
  /\ Abstract!Code["xor"] = <<"R", 4, 0, 51>>
  /\ Abstract!Code["srl"] = <<"R", 5, 0, 51>>
  /\ Abstract!Code["sra"] = <<"R", 5, 32, 51>>
  /\ Abstract!Code["or"] = <<"R", 6, 0, 51>>
  /\ Abstract!Code["and"] = <<"R", 7, 0, 51>>
  /\ Abstract!Code["addi"] = <<"I", 0, 0, 19>>
  /\ Abstract!Code["slti"] = <<"I", 2, 0, 19>>
  /\ Abstract!Code["sltiu"] = <<"I", 3, 0, 19>>
  /\ Abstract!Code["xori"] = <<"I", 4, 0, 19>>
  /\ Abstract!Code["ori"] = <<"I", 6, 0, 19>>
  /\ Abstract!Code["andi"] = <<"I", 7, 0, 19>>
  /\ Abstract!Code["slli"] = <<"H", 1, 0, 19>>
  /\ Abstract!Code["srli"] = <<"H", 5, 0, 19>>
  /\ Abstract!Code["srai"] = <<"H", 5, 32, 19>>
  /\ Abstract!Code["lb"] = <<"L", 0, 0, 3>>
  /\ Abstract!Code["lh"] = <<"L", 1, 0, 3>>
  /\ Abstract!Code["lw"] = <<"L", 2, 0, 3>>
  /\ Abstract!Code["lbu"] = <<"L", 4, 0, 3>>
  /\ Abstract!Code["lhu"] = <<"L", 5, 0, 3>>
  /\ Abstract!Code["sb"] = <<"S", 0, 0, 35>>
  /\ Abstract!Code["sh"] = <<"S", 1, 0, 35>>
  /\ Abstract!Code["sw"] = <<"S", 2, 0, 35>>
  /\ Abstract!Code["beq"] = <<"B", 0, 0, 99>>
  /\ Abstract!Code["bne"] = <<"B", 1, 0, 99>>
  /\ Abstract!Code["blt"] = <<"B", 4, 0, 99>>
  /\ Abstract!Code["bge"] = <<"B", 5, 0, 99>>
  /\ Abstract!Code["bltu"] = <<"B", 6, 0, 99>>
  /\ Abstract!Code["bgeu"] = <<"B", 7, 0, 99>>
  /\ Abstract!Code["jal"] = <<"J", 0, 0, 111>>
  /\ Abstract!Code["jalr"] = <<"L", 0, 0, 103>>
  /\ Abstract!Code["lui"] = <<"U", 0, 0, 55>>
  /\ Abstract!Code["auipc"] = <<"U", 0, 0, 23>>
  /\ Abstract!Code["ebreak"] = <<"L", 0, 0, 115>>
<1>1. DOMAIN Abstract!Code = OpsR \cup OpsI \cup OpsH \cup OpsL \cup OpsS \cup OpsB
                             \cup OpsU \cup OpsJ
  BY SMTT(60) DEF Abstract!Code, OpsR, OpsI, OpsH, OpsL, OpsS, OpsB, OpsU, OpsJ
<1>2. /\ Abstract!Code["add"] = <<"R", 0, 0, 51>>
      /\ Abstract!Code["sub"] = <<"R", 0, 32, 51>>
      /\ Abstract!Code["sll"] = <<"R", 1, 0, 51>>
      /\ Abstract!Code["slt"] = <<"R", 2, 0, 51>>
      /\ Abstract!Code["sltu"] = <<"R", 3, 0, 51>>
      /\ Abstract!Code["xor"] = <<"R", 4, 0, 51>>
      /\ Abstract!Code["srl"] = <<"R", 5, 0, 51>>
      /\ Abstract!Code["sra"] = <<"R", 5, 32, 51>>
      /\ Abstract!Code["or"] = <<"R", 6, 0, 51>>
      /\ Abstract!Code["and"] = <<"R", 7, 0, 51>>
  BY SMTT(60) DEF Abstract!Code
<1>3. /\ Abstract!Code["addi"] = <<"I", 0, 0, 19>>
      /\ Abstract!Code["slti"] = <<"I", 2, 0, 19>>
      /\ Abstract!Code["sltiu"] = <<"I", 3, 0, 19>>
      /\ Abstract!Code["xori"] = <<"I", 4, 0, 19>>
      /\ Abstract!Code["ori"] = <<"I", 6, 0, 19>>
      /\ Abstract!Code["andi"] = <<"I", 7, 0, 19>>
      /\ Abstract!Code["slli"] = <<"H", 1, 0, 19>>
      /\ Abstract!Code["srli"] = <<"H", 5, 0, 19>>
      /\ Abstract!Code["srai"] = <<"H", 5, 32, 19>>
      /\ Abstract!Code["lb"] = <<"L", 0, 0, 3>>
  BY SMTT(60) DEF Abstract!Code
<1>4. /\ Abstract!Code["lh"] = <<"L", 1, 0, 3>>
      /\ Abstract!Code["lw"] = <<"L", 2, 0, 3>>
      /\ Abstract!Code["lbu"] = <<"L", 4, 0, 3>>
      /\ Abstract!Code["lhu"] = <<"L", 5, 0, 3>>
      /\ Abstract!Code["sb"] = <<"S", 0, 0, 35>>
      /\ Abstract!Code["sh"] = <<"S", 1, 0, 35>>
      /\ Abstract!Code["sw"] = <<"S", 2, 0, 35>>
      /\ Abstract!Code["beq"] = <<"B", 0, 0, 99>>
      /\ Abstract!Code["bne"] = <<"B", 1, 0, 99>>
      /\ Abstract!Code["blt"] = <<"B", 4, 0, 99>>
  BY SMTT(60) DEF Abstract!Code
<1>5. /\ Abstract!Code["bge"] = <<"B", 5, 0, 99>>
      /\ Abstract!Code["bltu"] = <<"B", 6, 0, 99>>
      /\ Abstract!Code["bgeu"] = <<"B", 7, 0, 99>>
      /\ Abstract!Code["jal"] = <<"J", 0, 0, 111>>
      /\ Abstract!Code["jalr"] = <<"L", 0, 0, 103>>
      /\ Abstract!Code["lui"] = <<"U", 0, 0, 55>>
      /\ Abstract!Code["auipc"] = <<"U", 0, 0, 23>>
      /\ Abstract!Code["ebreak"] = <<"L", 0, 0, 115>>
  BY SMTT(60) DEF Abstract!Code
<1> QED
  BY <1>1, <1>2, <1>3, <1>4, <1>5

\* A word that matches a pattern is one that an instruction is laid out in.
LEMMA MatchFits ==
  ASSUME NEW i, NEW k \in 1..38, INSTPAT(Patterns[k], i)
  PROVE  \E op \in DOMAIN Abstract!Code : Abstract!Fits(op, i)
<1>1. Shape(k, i) /\ (k = 38 => i.rs2 = 1 /\ i.rs1 = 0 /\ i.rd = 0)
  BY ShapeOfMatch, Rows DEF INSTPAT, P
<1>2. CASE k \in 1..1
  <2>1. Abstract!Fits("lui", i)
    BY <1>1, <1>2, Codes DEF Shape, Abstract!Fits
  <2> QED
    BY <2>1, Codes DEF OpsR, OpsI, OpsH, OpsL, OpsS, OpsB, OpsU, OpsJ
<1>3. CASE k \in 2..2
  <2>1. Abstract!Fits("auipc", i)
    BY <1>1, <1>3, Codes DEF Shape, Abstract!Fits
  <2> QED
    BY <2>1, Codes DEF OpsR, OpsI, OpsH, OpsL, OpsS, OpsB, OpsU, OpsJ
<1>4. CASE k \in 3..12
  <2>1. \/ Abstract!Fits("add", i) \/ Abstract!Fits("sub", i)
        \/ Abstract!Fits("and", i) \/ Abstract!Fits("xor", i)
        \/ Abstract!Fits("or", i) \/ Abstract!Fits("sltu", i)
        \/ Abstract!Fits("slt", i) \/ Abstract!Fits("srl", i)
        \/ Abstract!Fits("sra", i) \/ Abstract!Fits("sll", i)
    BY <1>1, <1>4, Codes DEF Shape, Abstract!Fits
  <2> QED
    BY <2>1, Codes, SMTT(30) DEF OpsR, OpsI, OpsH, OpsL, OpsS, OpsB, OpsU, OpsJ
<1>5. CASE k \in 13..13
  <2>1. Abstract!Fits("jal", i)
    BY <1>1, <1>5, Codes DEF Shape, Abstract!Fits
  <2> QED
    BY <2>1, Codes DEF OpsR, OpsI, OpsH, OpsL, OpsS, OpsB, OpsU, OpsJ
<1>6. CASE k \in 14..14
  <2>1. Abstract!Fits("jalr", i)
    BY <1>1, <1>6, Codes DEF Shape, Abstract!Fits
  <2> QED
    BY <2>1, Codes DEF OpsR, OpsI, OpsH, OpsL, OpsS, OpsB, OpsU, OpsJ
<1>7. CASE k \in 15..20
  <2>1. \/ Abstract!Fits("addi", i) \/ Abstract!Fits("andi", i)
        \/ Abstract!Fits("ori", i) \/ Abstract!Fits("xori", i)
        \/ Abstract!Fits("sltiu", i) \/ Abstract!Fits("slti", i)
    BY <1>1, <1>7, Codes, SMTT(30) DEF Shape, Abstract!Fits
  <2> QED
    BY <2>1, Codes, SMTT(30) DEF OpsR, OpsI, OpsH, OpsL, OpsS, OpsB, OpsU, OpsJ
<1>8. CASE k \in 21..25
  <2>1. \/ Abstract!Fits("lw", i) \/ Abstract!Fits("lbu", i)
        \/ Abstract!Fits("lhu", i) \/ Abstract!Fits("lh", i)
        \/ Abstract!Fits("lb", i)
    BY <1>1, <1>8, Codes, SMTT(30) DEF Shape, Abstract!Fits
  <2> QED
    BY <2>1, Codes DEF OpsR, OpsI, OpsH, OpsL, OpsS, OpsB, OpsU, OpsJ
<1>9. CASE k \in 26..28
  <2>1. \/ Abstract!Fits("slli", i) \/ Abstract!Fits("srli", i)
        \/ Abstract!Fits("srai", i)
    BY <1>1, <1>9, Codes, SMTT(30) DEF Shape, Abstract!Fits
  <2> QED
    BY <2>1, Codes DEF OpsR, OpsI, OpsH, OpsL, OpsS, OpsB, OpsU, OpsJ
<1>10. CASE k \in 29..31
  <2>1. \/ Abstract!Fits("sb", i) \/ Abstract!Fits("sh", i)
        \/ Abstract!Fits("sw", i)
    BY <1>1, <1>10, Codes, SMTT(30) DEF Shape, Abstract!Fits
  <2> QED
    BY <2>1, Codes DEF OpsR, OpsI, OpsH, OpsL, OpsS, OpsB, OpsU, OpsJ
<1>11. CASE k \in 32..37
  <2>1. \/ Abstract!Fits("beq", i) \/ Abstract!Fits("bne", i)
        \/ Abstract!Fits("blt", i) \/ Abstract!Fits("bge", i)
        \/ Abstract!Fits("bltu", i) \/ Abstract!Fits("bgeu", i)
    BY <1>1, <1>11, Codes DEF Shape, Abstract!Fits
  <2> QED
    BY <2>1, Codes DEF OpsR, OpsI, OpsH, OpsL, OpsS, OpsB, OpsU, OpsJ
<1>12. CASE k \in 38..38
  <2>1. Abstract!Fits("ebreak", i)
    BY <1>1, <1>12, Codes DEF Shape, Abstract!Fits
  <2> QED
    BY <2>1, Codes DEF OpsR, OpsI, OpsH, OpsL, OpsS, OpsB, OpsU, OpsJ
<1> QED
  BY <1>2, <1>3, <1>4, <1>5, <1>6, <1>7, <1>8, <1>9, <1>10, <1>11, <1>12

\* A word that none is laid out in is invalid.
LEMMA JunkIsInvalid ==
  ASSUME NEW j \in DOMAIN Junk
  PROVE  Decode(Junk[j]) = P(Any, Any, Any, "inv", "N")
<1>1. \A k \in 1..38 : ~ INSTPAT(Patterns[k], Junk[j])
  BY MatchFits, HartAssumption, Zenon DEF HartAssumption
<1>2. {k \in DOMAIN Patterns : INSTPAT(Patterns[k], Junk[j])} = {}
  BY <1>1, Rows
<1> QED
  BY <1>2, Zenon DEF Decode

\* The format of an instruction.
LEMMA Formats ==
  /\ \A op \in OpsR : Abstract!Code[op][1] = "R" /\ op # "junk"
  /\ \A op \in OpsI : Abstract!Code[op][1] = "I" /\ op # "junk"
  /\ \A op \in OpsH : Abstract!Code[op][1] = "H" /\ op # "junk"
  /\ \A op \in OpsL : Abstract!Code[op][1] = "L" /\ op # "junk"
  /\ \A op \in OpsS : Abstract!Code[op][1] = "S" /\ op # "junk"
  /\ \A op \in OpsB : Abstract!Code[op][1] = "B" /\ op # "junk"
  /\ \A op \in OpsU : Abstract!Code[op][1] = "U" /\ op # "junk"
  /\ \A op \in OpsJ : Abstract!Code[op][1] = "J" /\ op # "junk"
<1>1. \A op \in OpsR : Abstract!Code[op][1] = "R" /\ op # "junk"
  BY Codes, SMTT(60) DEF OpsR
<1>2. \A op \in OpsI : Abstract!Code[op][1] = "I" /\ op # "junk"
  BY Codes, SMTT(60) DEF OpsI
<1>3. \A op \in OpsH : Abstract!Code[op][1] = "H" /\ op # "junk"
  BY Codes, SMTT(60) DEF OpsH
<1>4. \A op \in OpsL : Abstract!Code[op][1] = "L" /\ op # "junk"
  BY Codes, SMTT(60) DEF OpsL
<1>5. \A op \in OpsS : Abstract!Code[op][1] = "S" /\ op # "junk"
  BY Codes, SMTT(60) DEF OpsS
<1>6. \A op \in OpsB : Abstract!Code[op][1] = "B" /\ op # "junk"
  BY Codes, SMTT(60) DEF OpsB
<1>7. \A op \in OpsU : Abstract!Code[op][1] = "U" /\ op # "junk"
  BY Codes, SMTT(60) DEF OpsU
<1>8. \A op \in OpsJ : Abstract!Code[op][1] = "J" /\ op # "junk"
  BY Codes, SMTT(60) DEF OpsJ
<1> QED
  BY <1>1, <1>2, <1>3, <1>4, <1>5, <1>6, <1>7, <1>8

LEMMA DivOne == \A v \in Int : v \div 1 = v
BY SMT

\* A word with the given fields.
Fields(i, f7, rs2, rs1, f3, rd, op) ==
  i.f7 = f7 /\ i.rs2 = rs2 /\ i.rs1 = rs1 /\ i.f3 = f3 /\ i.rd = rd /\ i.op = op

LEMMA LayoutR ==
  ASSUME NEW a, a.op \in OpsR
  PROVE  LET c == Abstract!Code[a.op] IN
         c[1] = "R" /\ Fields(Abstract!Encode(a), c[3], a.rs2, a.rs1, c[2], a.rd, c[4])
<1>1. Abstract!Code[a.op][1] = "R" /\ a.op # "junk"
  BY Formats
<1> QED
  BY <1>1, SMT DEF Abstract!Encode, Fields

LEMMA LayoutI ==
  ASSUME NEW a, a.op \in OpsI \cup OpsL, a.imm \in Int
  PROVE  LET c == Abstract!Code[a.op] IN
         c[1] \in {"I", "L"} /\ Fields(Abstract!Encode(a), (a.imm \div 32) % 128, a.imm % 32,
                                       a.rs1, c[2], a.rd, c[4])
<1>1. Abstract!Code[a.op][1] \in {"I", "L"} /\ a.op # "junk"
  BY Formats
<1>2. /\ Abstract!Field(a.imm, 11, 5) = (a.imm \div 32) % 128
      /\ Abstract!Field(a.imm, 4, 0) = a.imm % 32
  BY PowersOfTwo, SamePow2, DivOne, SMT DEF Abstract!Field
<1> QED
  BY <1>1, <1>2, SMT DEF Abstract!Encode, Fields

LEMMA LayoutH ==
  ASSUME NEW a, a.op \in OpsH, a.imm \in Int
  PROVE  LET c == Abstract!Code[a.op] IN
         c[1] = "H" /\ Fields(Abstract!Encode(a), c[3] + ((a.imm \div 32) % 2), a.imm % 32,
                              a.rs1, c[2], a.rd, c[4])
<1>1. Abstract!Code[a.op][1] = "H" /\ a.op # "junk"
  BY Formats
<1>2. /\ Abstract!Field(a.imm, 5, 5) = (a.imm \div 32) % 2
      /\ Abstract!Field(a.imm, 4, 0) = a.imm % 32
  BY PowersOfTwo, SamePow2, DivOne, SMT DEF Abstract!Field
<1> QED
  BY <1>1, <1>2, SMT DEF Abstract!Encode, Fields

LEMMA LayoutS ==
  ASSUME NEW a, a.op \in OpsS, a.imm \in Int
  PROVE  LET c == Abstract!Code[a.op] IN
         c[1] = "S" /\ Fields(Abstract!Encode(a), (a.imm \div 32) % 128, a.rs2, a.rs1, c[2],
                              a.imm % 32, c[4])
<1>1. Abstract!Code[a.op][1] = "S" /\ a.op # "junk"
  BY Formats
<1>2. /\ Abstract!Field(a.imm, 11, 5) = (a.imm \div 32) % 128
      /\ Abstract!Field(a.imm, 4, 0) = a.imm % 32
  BY PowersOfTwo, SamePow2, DivOne, SMT DEF Abstract!Field
<1> QED
  BY <1>1, <1>2, SMT DEF Abstract!Encode, Fields

LEMMA LayoutB ==
  ASSUME NEW a, a.op \in OpsB, a.imm \in Int
  PROVE  LET c == Abstract!Code[a.op]
             v == a.imm
         IN
         c[1] = "B" /\ Fields(Abstract!Encode(a),
                              64 * ((v \div 4096) % 2) + ((v \div 32) % 64), a.rs2, a.rs1, c[2],
                              2 * ((v \div 2) % 16) + ((v \div 2048) % 2), c[4])
<1>1. Abstract!Code[a.op][1] = "B" /\ a.op # "junk"
  BY Formats
<1>2. /\ Abstract!Field(a.imm, 12, 12) = (a.imm \div 4096) % 2
      /\ Abstract!Field(a.imm, 10, 5) = (a.imm \div 32) % 64
      /\ Abstract!Field(a.imm, 4, 1) = (a.imm \div 2) % 16
      /\ Abstract!Field(a.imm, 11, 11) = (a.imm \div 2048) % 2
  BY PowersOfTwo, SamePow2, DivOne, SMT DEF Abstract!Field
<1> QED
  BY <1>1, <1>2, SMT DEF Abstract!Encode, Fields

LEMMA LayoutU ==
  ASSUME NEW a, a.op \in OpsU, a.imm \in Int
  PROVE  LET c == Abstract!Code[a.op]
             v == a.imm
         IN
         c[1] = "U" /\ Fields(Abstract!Encode(a), (v \div 33554432) % 128,
                              (v \div 1048576) % 32, (v \div 32768) % 32,
                              (v \div 4096) % 8, a.rd, c[4])
<1>1. Abstract!Code[a.op][1] = "U" /\ a.op # "junk"
  BY Formats
<1>2. /\ Abstract!Field(a.imm, 31, 25) = (a.imm \div 33554432) % 128
      /\ Abstract!Field(a.imm, 24, 20) = (a.imm \div 1048576) % 32
      /\ Abstract!Field(a.imm, 19, 15) = (a.imm \div 32768) % 32
      /\ Abstract!Field(a.imm, 14, 12) = (a.imm \div 4096) % 8
  BY PowersOfTwo, SamePow2, DivOne, SMT DEF Abstract!Field
<1> QED
  BY <1>1, <1>2, SMT DEF Abstract!Encode, Fields

LEMMA LayoutJ ==
  ASSUME NEW a, a.op \in OpsJ, a.imm \in Int
  PROVE  LET c == Abstract!Code[a.op]
             v == a.imm
         IN
         c[1] = "J" /\ Fields(Abstract!Encode(a),
                              64 * ((v \div 1048576) % 2) + ((v \div 32) % 64),
                              2 * ((v \div 2) % 16) + ((v \div 2048) % 2),
                              (v \div 32768) % 32, (v \div 4096) % 8, a.rd, c[4])
<1>1. Abstract!Code[a.op][1] = "J" /\ a.op # "junk"
  BY Formats
<1>2. /\ Abstract!Field(a.imm, 20, 20) = (a.imm \div 1048576) % 2
      /\ Abstract!Field(a.imm, 10, 5) = (a.imm \div 32) % 64
      /\ Abstract!Field(a.imm, 4, 1) = (a.imm \div 2) % 16
      /\ Abstract!Field(a.imm, 11, 11) = (a.imm \div 2048) % 2
      /\ Abstract!Field(a.imm, 19, 15) = (a.imm \div 32768) % 32
      /\ Abstract!Field(a.imm, 14, 12) = (a.imm \div 4096) % 8
  BY PowersOfTwo, SamePow2, DivOne, SMT DEF Abstract!Field
<1> QED
  BY <1>1, <1>2, SMT DEF Abstract!Encode, Fields

-----------------------------------------------------------------------------
(* The immediates come back.                                               *)

LEMMA ImmI ==
  ASSUME NEW i, NEW v \in Int, -2048 <= v, v <= 2047, i.f7 = (v \div 32) % 128, i.rs2 = v % 32
  PROVE  immI(i) = v
<1>1. ((v \div 32) % 128) * 32 + (v % 32) = IF v >= 0 THEN v ELSE v + 4096
  BY SMT
<1> QED
  BY <1>1, PowersOfTwo, SMT DEF immI, SEXT

\* A shift's immediate holds its amount, and possibly a bit above it.
LEMMA ImmH ==
  ASSUME NEW i, NEW v \in Int, 0 <= v, v <= 63, NEW f \in {0, 32},
         i.f7 = f + ((v \div 32) % 2), i.rs2 = v % 32
  PROVE  immI(i) = f * 32 + v
<1>1. (f + ((v \div 32) % 2)) * 32 + (v % 32) = f * 32 + v
  BY SMT
<1> QED
  BY <1>1, PowersOfTwo, SMT DEF immI, SEXT

LEMMA ImmS ==
  ASSUME NEW i, NEW v \in Int, -2048 <= v, v <= 2047, i.f7 = (v \div 32) % 128, i.rd = v % 32
  PROVE  immS(i) = v
<1>1. (v \div 32) % 128 = IF v >= 0 THEN v \div 32 ELSE (v \div 32) + 128
  BY SMT
<1>2. (v \div 32) * 32 + (v % 32) = v /\ -64 <= v \div 32 /\ v \div 32 <= 63
  BY SMT
<1>3. SEXT(i.f7, 7) = v \div 32
  BY <1>1, <1>2, PowersOfTwo, SMT DEF SEXT
<1> QED
  BY <1>2, <1>3, SMT DEF immS

LEMMA ImmB ==
  ASSUME NEW i, NEW v \in Int, -4096 <= v, v <= 4095, v % 2 = 0,
         i.f7 = 64 * ((v \div 4096) % 2) + ((v \div 32) % 64),
         i.rd = 2 * ((v \div 2) % 16) + ((v \div 2048) % 2)
  PROVE  immB(i) = v
<1>1. PICK s \in Int, x \in Int, y \in Int, z \in Int :
        /\ 0 <= s /\ s < 2 /\ 0 <= x /\ x < 64 /\ 0 <= y /\ y < 16 /\ 0 <= z /\ z < 2
        /\ s = (v \div 4096) % 2 /\ x = (v \div 32) % 64
        /\ y = (v \div 2) % 16 /\ z = (v \div 2048) % 2
  BY SMT
<1>2. v = z * 2048 + x * 32 + y * 2 - s * 4096
  BY <1>1, SMT
<1>3. i.f7 \div 64 = s /\ i.f7 % 64 = x /\ i.rd \div 2 = y /\ i.rd % 2 = z
  BY <1>1, SMT
<1> QED
  BY <1>1, <1>2, <1>3, PowersOfTwo, SMT DEF immB, SEXT

LEMMA ImmU ==
  ASSUME NEW i, NEW v \in Int, -524288 <= v \div 4096, v \div 4096 <= 524287, v % 4096 = 0,
         i.f7 = (v \div 33554432) % 128, i.rs2 = (v \div 1048576) % 32,
         i.rs1 = (v \div 32768) % 32, i.f3 = (v \div 4096) % 8
  PROVE  immU(i) = v
<1>1. PICK t \in Int : -524288 <= t /\ t <= 524287 /\ t = v \div 4096 /\ v = t * 4096
  BY SMT
<1>2. /\ v \div 33554432 = t \div 8192 /\ v \div 1048576 = t \div 256
      /\ v \div 32768 = t \div 8
  BY <1>1, SMT
<1>3. PICK x \in Int, y \in Int, z \in Int, w \in Int :
        /\ 0 <= x /\ x < 128 /\ 0 <= y /\ y < 32 /\ 0 <= z /\ z < 32 /\ 0 <= w /\ w < 8
        /\ x = (t \div 8192) % 128 /\ y = (t \div 256) % 32
        /\ z = (t \div 8) % 32 /\ w = t % 8
  BY <1>1, SMT
<1>4. (x * 32 + y) * 256 + z * 8 + w = IF t >= 0 THEN t ELSE t + 1048576
  BY <1>1, <1>3, SMT
<1>5. i.f7 = x /\ i.rs2 = y /\ i.rs1 = z /\ i.f3 = w
  BY <1>1, <1>2, <1>3, SMT
<1> QED
  BY <1>1, <1>3, <1>4, <1>5, PowersOfTwo, SMT DEF immU, SEXT

LEMMA ImmJ ==
  ASSUME NEW i, NEW v \in Int, -1048576 <= v, v <= 1048575, v % 2 = 0,
         i.f7 = 64 * ((v \div 1048576) % 2) + ((v \div 32) % 64),
         i.rs2 = 2 * ((v \div 2) % 16) + ((v \div 2048) % 2),
         i.rs1 = (v \div 32768) % 32, i.f3 = (v \div 4096) % 8
  PROVE  immJ(i) = v
<1>1. PICK s \in Int, x \in Int, y \in Int, z \in Int, p \in Int, q \in Int :
        /\ 0 <= s /\ s < 2 /\ 0 <= x /\ x < 64 /\ 0 <= y /\ y < 16 /\ 0 <= z /\ z < 2
        /\ 0 <= p /\ p < 32 /\ 0 <= q /\ q < 8
        /\ s = (v \div 1048576) % 2 /\ x = (v \div 32) % 64
        /\ y = (v \div 2) % 16 /\ z = (v \div 2048) % 2
        /\ p = (v \div 32768) % 32 /\ q = (v \div 4096) % 8
  BY SMT
<1>2. v = p * 32768 + q * 4096 + z * 2048 + x * 32 + y * 2 - s * 1048576
  <2>1. PICK a \in Int, b \in Int, c \in Int, d \in Int, e \in Int, f \in Int :
          /\ a = v \div 2 /\ b = v \div 32 /\ c = v \div 2048 /\ d = v \div 4096
          /\ e = v \div 32768 /\ f = v \div 1048576
    BY SMT
  <2>2. b = a \div 16 /\ c = b \div 64 /\ d = c \div 2 /\ e = d \div 8 /\ f = e \div 32
    BY <2>1, SMT
  <2>3. v = 2 * a /\ a = 16 * b + y /\ b = 64 * c + x /\ c = 2 * d + z
    BY <1>1, <2>1, <2>2, SMT
  <2>4. d = 8 * e + q /\ e = 32 * f + p /\ s = -f
    BY <1>1, <2>1, <2>2, SMT
  <2> QED
    BY <2>3, <2>4, SMT
<1>3. i.f7 \div 64 = s /\ i.f7 % 64 = x /\ i.rs2 \div 2 = y /\ i.rs2 % 2 = z
      /\ i.rs1 = p /\ i.f3 = q
  BY <1>1, SMT
<1> QED
  BY <1>1, <1>2, <1>3, PowersOfTwo, SMT DEF immJ, SEXT

-----------------------------------------------------------------------------
(* An instruction that module Isa lays out is decoded as what it is.       *)

LEMMA InAny ==
  ASSUME NEW v \in Int
  PROVE  /\ (v \div 32) % 128 \in Any /\ (v \div 4096) % 8 \in Any
         /\ (v \div 33554432) % 128 \in Any
         /\ 64 * ((v \div 4096) % 2) + ((v \div 32) % 64) \in Any
         /\ 64 * ((v \div 1048576) % 2) + ((v \div 32) % 64) \in Any
BY SMT DEF Any

\* The name of the pattern's body: immediate forms share the registers'.
NameOf(op) == IF op \in DOMAIN Abstract!Immediate THEN Abstract!Immediate[op] ELSE op

LEMMA Names ==
  /\ DOMAIN Abstract!Immediate = OpsI \cup OpsH
  /\ Abstract!Immediate["addi"] = "add"
  /\ Abstract!Immediate["slti"] = "slt"
  /\ Abstract!Immediate["sltiu"] = "sltu"
  /\ Abstract!Immediate["xori"] = "xor"
  /\ Abstract!Immediate["ori"] = "or"
  /\ Abstract!Immediate["andi"] = "and"
  /\ Abstract!Immediate["slli"] = "sll"
  /\ Abstract!Immediate["srli"] = "srl"
  /\ Abstract!Immediate["srai"] = "sra"
BY SMTT(60) DEF Abstract!Immediate, OpsI, OpsH

LEMMA DecodeR ==
  ASSUME NEW a, a.op \in OpsR
  PROVE  /\ Decode(Abstract!Encode(a)).name = a.op
         /\ Decode(Abstract!Encode(a)).type = "R"
<1> DEFINE i == Abstract!Encode(a)
<1>1. LET c == Abstract!Code[a.op] IN
      i.f7 = c[3] /\ i.f3 = c[2] /\ i.op = c[4]
  BY LayoutR, SMT DEF Fields
<1> HIDE DEF i
<1>2. \/ a.op = "add" /\ INSTPAT(Patterns[3], i)
      \/ a.op = "sub" /\ INSTPAT(Patterns[4], i)
      \/ a.op = "sll" /\ INSTPAT(Patterns[12], i)
      \/ a.op = "slt" /\ INSTPAT(Patterns[9], i)
      \/ a.op = "sltu" /\ INSTPAT(Patterns[8], i)
      \/ a.op = "xor" /\ INSTPAT(Patterns[6], i)
      \/ a.op = "srl" /\ INSTPAT(Patterns[10], i)
      \/ a.op = "sra" /\ INSTPAT(Patterns[11], i)
      \/ a.op = "or" /\ INSTPAT(Patterns[7], i)
      \/ a.op = "and" /\ INSTPAT(Patterns[5], i)
  BY <1>1, Codes, Rows, SMTT(60) DEF OpsR, INSTPAT, P
<1>3. \A k \in 1..38 : INSTPAT(Patterns[k], i) => Decode(i) = Patterns[k]
  BY Decoded
<1>4. \/ a.op = "add" /\ Decode(i) = Patterns[3]
      \/ a.op = "sub" /\ Decode(i) = Patterns[4]
      \/ a.op = "sll" /\ Decode(i) = Patterns[12]
      \/ a.op = "slt" /\ Decode(i) = Patterns[9]
      \/ a.op = "sltu" /\ Decode(i) = Patterns[8]
      \/ a.op = "xor" /\ Decode(i) = Patterns[6]
      \/ a.op = "srl" /\ Decode(i) = Patterns[10]
      \/ a.op = "sra" /\ Decode(i) = Patterns[11]
      \/ a.op = "or" /\ Decode(i) = Patterns[7]
      \/ a.op = "and" /\ Decode(i) = Patterns[5]
  BY <1>2, <1>3
<1>5. /\ Decode(i).name = a.op
      /\ Decode(i).type = "R"
  BY <1>4, Rows, SMTT(60) DEF P
<1> QED
  BY <1>5, Zenon DEF i

LEMMA DecodeI ==
  ASSUME NEW a, a.op \in OpsI, a.imm \in Int
  PROVE  /\ Decode(Abstract!Encode(a)).name = NameOf(a.op)
         /\ Decode(Abstract!Encode(a)).type = "I"
<1> DEFINE i == Abstract!Encode(a)
<1>1. LET c == Abstract!Code[a.op] IN
      i.f7 \in Any /\ i.f3 = c[2] /\ i.op = c[4]
  BY LayoutI, InAny, SMT DEF Fields
<1> HIDE DEF i
<1>2. \/ a.op = "addi" /\ INSTPAT(Patterns[15], i)
      \/ a.op = "slti" /\ INSTPAT(Patterns[20], i)
      \/ a.op = "sltiu" /\ INSTPAT(Patterns[19], i)
      \/ a.op = "xori" /\ INSTPAT(Patterns[18], i)
      \/ a.op = "ori" /\ INSTPAT(Patterns[17], i)
      \/ a.op = "andi" /\ INSTPAT(Patterns[16], i)
  BY <1>1, Codes, Rows, SMTT(60) DEF OpsI, INSTPAT, P
<1>3. \A k \in 1..38 : INSTPAT(Patterns[k], i) => Decode(i) = Patterns[k]
  BY Decoded
<1>4. \/ a.op = "addi" /\ Decode(i) = Patterns[15]
      \/ a.op = "slti" /\ Decode(i) = Patterns[20]
      \/ a.op = "sltiu" /\ Decode(i) = Patterns[19]
      \/ a.op = "xori" /\ Decode(i) = Patterns[18]
      \/ a.op = "ori" /\ Decode(i) = Patterns[17]
      \/ a.op = "andi" /\ Decode(i) = Patterns[16]
  BY <1>2, <1>3
<1>5. /\ Decode(i).name = NameOf(a.op)
      /\ Decode(i).type = "I"
  BY <1>4, Rows, Names, SMTT(60) DEF P, NameOf, OpsI, OpsH
<1> QED
  BY <1>5, Zenon DEF i

LEMMA DecodeH ==
  ASSUME NEW a, a.op \in OpsH, a.imm \in Int,
         0 <= a.imm, a.imm <= IF a.op = "srai" THEN 63 ELSE 31
  PROVE  /\ Decode(Abstract!Encode(a)).name = NameOf(a.op)
         /\ Decode(Abstract!Encode(a)).type = "I"
<1> DEFINE i == Abstract!Encode(a)
<1>1. LET c == Abstract!Code[a.op] IN
      i.f7 = c[3] + (IF a.imm < 32 THEN 0 ELSE 1) /\ i.f3 = c[2] /\ i.op = c[4]
  <2>1. (a.imm \div 32) % 2 = IF a.imm < 32 THEN 0 ELSE 1
    BY SMTT(30)
  <2> QED
    BY <2>1, LayoutH, SMT DEF Fields
<1> HIDE DEF i
<1>2. \/ a.op = "slli" /\ INSTPAT(Patterns[26], i)
      \/ a.op = "srli" /\ INSTPAT(Patterns[27], i)
      \/ a.op = "srai" /\ INSTPAT(Patterns[28], i)
  BY <1>1, Codes, Rows, SMTT(60) DEF OpsH, INSTPAT, P
<1>3. \A k \in 1..38 : INSTPAT(Patterns[k], i) => Decode(i) = Patterns[k]
  BY Decoded
<1>4. \/ a.op = "slli" /\ Decode(i) = Patterns[26]
      \/ a.op = "srli" /\ Decode(i) = Patterns[27]
      \/ a.op = "srai" /\ Decode(i) = Patterns[28]
  BY <1>2, <1>3
<1>5. /\ Decode(i).name = NameOf(a.op)
      /\ Decode(i).type = "I"
  BY <1>4, Rows, Names, SMTT(60) DEF P, NameOf, OpsI, OpsH
<1> QED
  BY <1>5, Zenon DEF i

LEMMA DecodeL ==
  ASSUME NEW a, a.op \in OpsL, a.imm \in Int, a.op # "ebreak"
  PROVE  /\ Decode(Abstract!Encode(a)).name = a.op
         /\ Decode(Abstract!Encode(a)).type = "I"
<1> DEFINE i == Abstract!Encode(a)
<1>1. LET c == Abstract!Code[a.op] IN
      i.f7 \in Any /\ i.f3 = c[2] /\ i.op = c[4]
  BY LayoutI, InAny, SMT DEF Fields
<1> HIDE DEF i
<1>2. \/ a.op = "lb" /\ INSTPAT(Patterns[25], i)
      \/ a.op = "lh" /\ INSTPAT(Patterns[24], i)
      \/ a.op = "lw" /\ INSTPAT(Patterns[21], i)
      \/ a.op = "lbu" /\ INSTPAT(Patterns[22], i)
      \/ a.op = "lhu" /\ INSTPAT(Patterns[23], i)
      \/ a.op = "jalr" /\ INSTPAT(Patterns[14], i)
  BY <1>1, Codes, Rows, SMTT(60) DEF OpsL, INSTPAT, P
<1>3. \A k \in 1..38 : INSTPAT(Patterns[k], i) => Decode(i) = Patterns[k]
  BY Decoded
<1>4. \/ a.op = "lb" /\ Decode(i) = Patterns[25]
      \/ a.op = "lh" /\ Decode(i) = Patterns[24]
      \/ a.op = "lw" /\ Decode(i) = Patterns[21]
      \/ a.op = "lbu" /\ Decode(i) = Patterns[22]
      \/ a.op = "lhu" /\ Decode(i) = Patterns[23]
      \/ a.op = "jalr" /\ Decode(i) = Patterns[14]
  BY <1>2, <1>3
<1>5. /\ Decode(i).name = a.op
      /\ Decode(i).type = "I"
  BY <1>4, Rows, SMTT(60) DEF P
<1> QED
  BY <1>5, Zenon DEF i

LEMMA DecodeS ==
  ASSUME NEW a, a.op \in OpsS, a.imm \in Int
  PROVE  /\ Decode(Abstract!Encode(a)).name = a.op
         /\ Decode(Abstract!Encode(a)).type = "S"
<1> DEFINE i == Abstract!Encode(a)
<1>1. LET c == Abstract!Code[a.op] IN
      i.f7 \in Any /\ i.f3 = c[2] /\ i.op = c[4]
  BY LayoutS, InAny, SMT DEF Fields
<1> HIDE DEF i
<1>2. \/ a.op = "sb" /\ INSTPAT(Patterns[29], i)
      \/ a.op = "sh" /\ INSTPAT(Patterns[30], i)
      \/ a.op = "sw" /\ INSTPAT(Patterns[31], i)
  BY <1>1, Codes, Rows, SMTT(60) DEF OpsS, INSTPAT, P
<1>3. \A k \in 1..38 : INSTPAT(Patterns[k], i) => Decode(i) = Patterns[k]
  BY Decoded
<1>4. \/ a.op = "sb" /\ Decode(i) = Patterns[29]
      \/ a.op = "sh" /\ Decode(i) = Patterns[30]
      \/ a.op = "sw" /\ Decode(i) = Patterns[31]
  BY <1>2, <1>3
<1>5. /\ Decode(i).name = a.op
      /\ Decode(i).type = "S"
  BY <1>4, Rows, SMTT(60) DEF P
<1> QED
  BY <1>5, Zenon DEF i

LEMMA DecodeB ==
  ASSUME NEW a, a.op \in OpsB, a.imm \in Int
  PROVE  /\ Decode(Abstract!Encode(a)).name = a.op
         /\ Decode(Abstract!Encode(a)).type = "B"
<1> DEFINE i == Abstract!Encode(a)
<1>1. LET c == Abstract!Code[a.op] IN
      i.f7 \in Any /\ i.f3 = c[2] /\ i.op = c[4]
  BY LayoutB, InAny, SMT DEF Fields
<1> HIDE DEF i
<1>2. \/ a.op = "beq" /\ INSTPAT(Patterns[32], i)
      \/ a.op = "bne" /\ INSTPAT(Patterns[33], i)
      \/ a.op = "blt" /\ INSTPAT(Patterns[34], i)
      \/ a.op = "bge" /\ INSTPAT(Patterns[35], i)
      \/ a.op = "bltu" /\ INSTPAT(Patterns[36], i)
      \/ a.op = "bgeu" /\ INSTPAT(Patterns[37], i)
  BY <1>1, Codes, Rows, SMTT(60) DEF OpsB, INSTPAT, P
<1>3. \A k \in 1..38 : INSTPAT(Patterns[k], i) => Decode(i) = Patterns[k]
  BY Decoded
<1>4. \/ a.op = "beq" /\ Decode(i) = Patterns[32]
      \/ a.op = "bne" /\ Decode(i) = Patterns[33]
      \/ a.op = "blt" /\ Decode(i) = Patterns[34]
      \/ a.op = "bge" /\ Decode(i) = Patterns[35]
      \/ a.op = "bltu" /\ Decode(i) = Patterns[36]
      \/ a.op = "bgeu" /\ Decode(i) = Patterns[37]
  BY <1>2, <1>3
<1>5. /\ Decode(i).name = a.op
      /\ Decode(i).type = "B"
  BY <1>4, Rows, SMTT(60) DEF P
<1> QED
  BY <1>5, Zenon DEF i

LEMMA DecodeU ==
  ASSUME NEW a, a.op \in OpsU, a.imm \in Int
  PROVE  /\ Decode(Abstract!Encode(a)).name = a.op
         /\ Decode(Abstract!Encode(a)).type = "U"
<1> DEFINE i == Abstract!Encode(a)
<1>1. LET c == Abstract!Code[a.op] IN
      i.f7 \in Any /\ i.f3 \in Any /\ i.op = c[4]
  BY LayoutU, InAny, SMT DEF Fields
<1> HIDE DEF i
<1>2. \/ a.op = "lui" /\ INSTPAT(Patterns[1], i)
      \/ a.op = "auipc" /\ INSTPAT(Patterns[2], i)
  BY <1>1, Codes, Rows, SMTT(60) DEF OpsU, INSTPAT, P
<1>3. \A k \in 1..38 : INSTPAT(Patterns[k], i) => Decode(i) = Patterns[k]
  BY Decoded
<1>4. \/ a.op = "lui" /\ Decode(i) = Patterns[1]
      \/ a.op = "auipc" /\ Decode(i) = Patterns[2]
  BY <1>2, <1>3
<1>5. /\ Decode(i).name = a.op
      /\ Decode(i).type = "U"
  BY <1>4, Rows, SMTT(60) DEF P
<1> QED
  BY <1>5, Zenon DEF i

LEMMA DecodeJ ==
  ASSUME NEW a, a.op \in OpsJ, a.imm \in Int
  PROVE  /\ Decode(Abstract!Encode(a)).name = a.op
         /\ Decode(Abstract!Encode(a)).type = "J"
<1> DEFINE i == Abstract!Encode(a)
<1>1. LET c == Abstract!Code[a.op] IN
      i.f7 \in Any /\ i.f3 \in Any /\ i.op = c[4]
  BY LayoutJ, InAny, SMT DEF Fields
<1> HIDE DEF i
<1>2. a.op = "jal" /\ INSTPAT(Patterns[13], i)
  BY <1>1, Codes, Rows, SMTT(60) DEF OpsJ, INSTPAT, P
<1>3. \A k \in 1..38 : INSTPAT(Patterns[k], i) => Decode(i) = Patterns[k]
  BY Decoded
<1>4. a.op = "jal" /\ Decode(i) = Patterns[13]
  BY <1>2, <1>3
<1>5. /\ Decode(i).name = a.op
      /\ Decode(i).type = "J"
  BY <1>4, Rows, SMTT(60) DEF P
<1> QED
  BY <1>5, Zenon DEF i

LEMMA DecodeBreak ==
  ASSUME NEW a, a.op = "ebreak", a.imm = 1, a.rd = 0, a.rs1 = 0
  PROVE  /\ Decode(Abstract!Encode(a)).name = "ebreak"
         /\ Decode(Abstract!Encode(a)).type = "N"
<1> DEFINE i == Abstract!Encode(a)
<1>1. i.op = 115 /\ i.f3 = 0 /\ i.f7 = 0 /\ i.rs2 = 1 /\ i.rs1 = 0 /\ i.rd = 0
  <2>1. a.op \in OpsI \cup OpsL /\ a.imm \in Int
    BY DEF OpsL
  <2>2. Abstract!Code[a.op][2] = 0 /\ Abstract!Code[a.op][4] = 115
    BY Codes
  <2>3. (1 \div 32) % 128 = 0 /\ 1 % 32 = 1
    BY SMT
  <2> QED
    BY <2>1, <2>2, <2>3, LayoutI, SMT DEF Fields
<1> HIDE DEF i
<1>2. INSTPAT(Patterns[38], i)
  BY <1>1, Rows, SMTT(60) DEF INSTPAT, P
<1>3. 38 \in 1..38
  BY SMT
<1>4. Decode(i) = Patterns[38]
  BY <1>2, <1>3, Decoded
<1>5. Decode(i).name = "ebreak" /\ Decode(i).type = "N"
  BY <1>4, Rows, SMTT(60) DEF P
<1> QED
  BY <1>5, Zenon DEF i

LEMMA DecodeJunk ==
  ASSUME NEW a, a.op = "junk", a.imm \in DOMAIN Junk
  PROVE  /\ Decode(Abstract!Encode(a)).name = "inv"
         /\ Decode(Abstract!Encode(a)).type = "N"
<1>1. Abstract!Encode(a) = Junk[a.imm]
  BY SMT DEF Abstract!Encode
<1>2. Decode(Abstract!Encode(a)) = P(Any, Any, Any, "inv", "N")
  BY <1>1, JunkIsInvalid
<1> QED
  BY <1>2 DEF P

-----------------------------------------------------------------------------
(* What decode_exec finds in an instruction.                               *)

\* The immediate and the registers of each format.
LEMMA OperandsR ==
  ASSUME NEW a, a.op \in OpsR, NEW i, i = Abstract!Encode(a)
  PROVE  i.rd = a.rd /\ i.rs1 = a.rs1 /\ i.rs2 = a.rs2
BY LayoutR, SMT DEF Fields

LEMMA OperandsI ==
  ASSUME NEW a, a.op \in OpsI \cup OpsL, a.imm \in Int, -2048 <= a.imm, a.imm <= 2047,
         NEW i, i = Abstract!Encode(a)
  PROVE  i.rd = a.rd /\ i.rs1 = a.rs1 /\ imm("I", i) = a.imm
<1>1. /\ i.f7 = (a.imm \div 32) % 128 /\ i.rs2 = a.imm % 32
      /\ i.rd = a.rd /\ i.rs1 = a.rs1
  BY LayoutI, SMT DEF Fields
<1>2. immI(i) = a.imm
  BY <1>1, ImmI, SMT
<1> QED
  BY <1>1, <1>2, SMT DEF imm

LEMMA OperandsH ==
  ASSUME NEW a, a.op \in OpsH, a.imm \in Int, 0 <= a.imm, a.imm <= 63,
         NEW i, i = Abstract!Encode(a)
  PROVE  /\ i.rd = a.rd /\ i.rs1 = a.rs1
         /\ imm("I", i) \in Int /\ imm("I", i) % WIDTH = a.imm % WIDTH
<1>1. PICK f \in {0, 32} : f = Abstract!Code[a.op][3]
  BY Codes, SMTT(60) DEF OpsH
<1>2. /\ i.f7 = f + ((a.imm \div 32) % 2) /\ i.rs2 = a.imm % 32
      /\ i.rd = a.rd /\ i.rs1 = a.rs1
  BY <1>1, LayoutH, SMT DEF Fields
<1>3. immI(i) = f * 32 + a.imm
  BY <1>2, ImmH, SMT
<1>4. (f * 32 + a.imm) % WIDTH = a.imm % WIDTH
  <2>1. WIDTH = 16 \/ WIDTH = 32
    BY Sizes
  <2> QED
    BY <2>1, SMT
<1> QED
  BY <1>2, <1>3, <1>4, SMT DEF imm

LEMMA OperandsS ==
  ASSUME NEW a, a.op \in OpsS, a.imm \in Int, -2048 <= a.imm, a.imm <= 2047,
         NEW i, i = Abstract!Encode(a)
  PROVE  i.rs1 = a.rs1 /\ i.rs2 = a.rs2 /\ imm("S", i) = a.imm
<1>1. /\ i.f7 = (a.imm \div 32) % 128 /\ i.rd = a.imm % 32
      /\ i.rs1 = a.rs1 /\ i.rs2 = a.rs2
  BY LayoutS, SMT DEF Fields
<1>2. immS(i) = a.imm
  BY <1>1, ImmS, SMT
<1> QED
  BY <1>1, <1>2, SMT DEF imm

LEMMA OperandsB ==
  ASSUME NEW a, a.op \in OpsB, a.imm \in Int, -4096 <= a.imm, a.imm <= 4095,
         a.imm % 2 = 0, NEW i, i = Abstract!Encode(a)
  PROVE  i.rs1 = a.rs1 /\ i.rs2 = a.rs2 /\ imm("B", i) = a.imm
<1>1. /\ i.f7 = 64 * ((a.imm \div 4096) % 2) + ((a.imm \div 32) % 64)
      /\ i.rd = 2 * ((a.imm \div 2) % 16) + ((a.imm \div 2048) % 2)
      /\ i.rs1 = a.rs1 /\ i.rs2 = a.rs2
  BY LayoutB, SMT DEF Fields
<1>2. immB(i) = a.imm
  BY <1>1, ImmB, SMT
<1> QED
  BY <1>1, <1>2, SMT DEF imm

LEMMA OperandsU ==
  ASSUME NEW a, a.op \in OpsU, a.imm \in Int, -524288 <= a.imm \div 4096,
         a.imm \div 4096 <= 524287, a.imm % 4096 = 0, NEW i, i = Abstract!Encode(a)
  PROVE  i.rd = a.rd /\ imm("U", i) = a.imm
<1>1. /\ i.f7 = (a.imm \div 33554432) % 128 /\ i.rs2 = (a.imm \div 1048576) % 32
      /\ i.rs1 = (a.imm \div 32768) % 32 /\ i.f3 = (a.imm \div 4096) % 8
      /\ i.rd = a.rd
  BY LayoutU, SMT DEF Fields
<1>2. immU(i) = a.imm
  BY <1>1, ImmU, SMT
<1> QED
  BY <1>1, <1>2, SMT DEF imm

LEMMA OperandsJ ==
  ASSUME NEW a, a.op \in OpsJ, a.imm \in Int, -1048576 <= a.imm, a.imm <= 1048575,
         a.imm % 2 = 0, NEW i, i = Abstract!Encode(a)
  PROVE  i.rd = a.rd /\ imm("J", i) = a.imm
<1>1. /\ i.f7 = 64 * ((a.imm \div 1048576) % 2) + ((a.imm \div 32) % 64)
      /\ i.rs2 = 2 * ((a.imm \div 2) % 16) + ((a.imm \div 2048) % 2)
      /\ i.rs1 = (a.imm \div 32768) % 32 /\ i.f3 = (a.imm \div 4096) % 8
      /\ i.rd = a.rd
  BY LayoutJ, SMT DEF Fields
<1>2. immJ(i) = a.imm
  BY <1>1, ImmJ, SMT
<1> QED
  BY <1>1, <1>2, SMT DEF imm

-----------------------------------------------------------------------------
(* What each body of the pattern rules does.                               *)

Loads == {"lw", "lbu", "lhu", "lh", "lb"}
Stores == {"sb", "sh", "sw"}

LEMMA Lengths ==
  /\ DOMAIN LoadLen = Loads /\ DOMAIN StoreLen = Stores
  /\ LoadLen["lw"] = 4 /\ LoadLen["lbu"] = 1 /\ LoadLen["lhu"] = 2
  /\ LoadLen["lh"] = 2 /\ LoadLen["lb"] = 1
  /\ StoreLen["sb"] = 1 /\ StoreLen["sh"] = 2 /\ StoreLen["sw"] = 4
BY SMTT(60) DEF LoadLen, StoreLen, Loads, Stores

\* The length of an access is the one that module Isa knows.
LEMMA SameLengths ==
  /\ DOMAIN Abstract!Sizes = Loads \cup Stores
  /\ \A op \in Loads : Abstract!Sizes[op] = LoadLen[op] /\ LoadLen[op] \in Lens
  /\ \A op \in Stores : Abstract!Sizes[op] = StoreLen[op] /\ StoreLen[op] \in Lens
<1>1. /\ DOMAIN Abstract!Sizes = Loads \cup Stores
      /\ Abstract!Sizes["lw"] = 4 /\ Abstract!Sizes["lbu"] = 1
      /\ Abstract!Sizes["lhu"] = 2 /\ Abstract!Sizes["lh"] = 2
      /\ Abstract!Sizes["lb"] = 1 /\ Abstract!Sizes["sb"] = 1
      /\ Abstract!Sizes["sh"] = 2 /\ Abstract!Sizes["sw"] = 4
  BY SMTT(60) DEF Abstract!Sizes, Loads, Stores
<1> QED
  BY <1>1, Lengths, SMTT(60) DEF Loads, Stores, Lens

LEMMA ExecuteAlu ==
  ASSUME NEW i, NEW p, Execute(p, i), p.name \in AluOps, p.type \in {"R", "I"}
  PROVE  /\ Write(i.rd, alu(gpr[i.rs1], IF p.type = "R" THEN gpr[i.rs2]
                                        ELSE imm(p.type, i) % M)[p.name])
         /\ pc' = (pc + 4) % M /\ NoAccess
<1>1. /\ p.name \notin {"lui", "auipc", "jal", "jalr"} /\ p.type # "B" /\ p.type # "N"
      /\ p.name \notin DOMAIN LoadLen /\ p.name \notin DOMAIN StoreLen
  BY Lengths, SMTT(60) DEF AluOps, Loads, Stores
<1> QED
  BY <1>1, ZenonT(30) DEF Execute

LEMMA ExecuteUpper ==
  ASSUME NEW i, NEW p, Execute(p, i), p.type \in {"U", "J", "I"}
  PROVE  /\ p.name = "lui" => /\ Write(i.rd, imm(p.type, i) % M)
                              /\ pc' = (pc + 4) % M /\ NoAccess
         /\ p.name = "auipc" => /\ Write(i.rd, pc + (imm(p.type, i) % M))
                                /\ pc' = (pc + 4) % M /\ NoAccess
         /\ p.name = "jal" => /\ Write(i.rd, (pc + 4) % M) /\ NoAccess
                              /\ pc' = (pc + (imm(p.type, i) % M)) % M
         /\ p.name = "jalr" => /\ Write(i.rd, (pc + 4) % M) /\ NoAccess
                               /\ pc' = (gpr[i.rs1] + (imm(p.type, i) % M)) % M
<1>1. p.type # "B" /\ p.type # "N"
  BY SMT
<1>2. \A s \in {"lui", "auipc", "jal", "jalr"} :
        s \notin AluOps /\ s \notin DOMAIN LoadLen /\ s \notin DOMAIN StoreLen
  BY Lengths, SMTT(60) DEF AluOps, Loads, Stores
<1>3. DOMAIN alu(0, 0) = AluOps
  BY AluDomain
<1>4. CASE p.name = "lui"
  BY <1>1, <1>2, <1>3, <1>4, ZenonT(30) DEF Execute
<1>5. CASE p.name = "auipc"
  BY <1>1, <1>2, <1>3, <1>5, ZenonT(30) DEF Execute
<1>6. CASE p.name = "jal"
  BY <1>1, <1>2, <1>3, <1>6, ZenonT(30) DEF Execute
<1>7. CASE p.name = "jalr"
  BY <1>1, <1>2, <1>3, <1>7, ZenonT(30) DEF Execute
<1> QED
  BY <1>4, <1>5, <1>6, <1>7, Zenon

LEMMA ExecuteBranch ==
  ASSUME NEW i, NEW p, Execute(p, i), p.type = "B", p.name \in OpsB
  PROVE  /\ UNCHANGED gpr /\ NoAccess
         /\ pc' = IF branch(gpr[i.rs1], gpr[i.rs2])[p.name]
                  THEN (pc + (imm(p.type, i) % M)) % M ELSE (pc + 4) % M
<1>1. /\ p.name \notin {"lui", "auipc", "jal", "jalr"} /\ p.type # "N"
      /\ p.name \notin AluOps
      /\ p.name \notin DOMAIN LoadLen /\ p.name \notin DOMAIN StoreLen
  BY Lengths, SMTT(60) DEF AluOps, OpsB, Loads, Stores
<1>2. DOMAIN alu(0, 0) = AluOps
  BY AluDomain
<1> QED
  BY <1>1, <1>2, ZenonT(30) DEF Execute

LEMMA ExecuteLoad ==
  ASSUME NEW i, NEW p, Execute(p, i), p.type = "I", p.name \in Loads,
         NEW addr, addr = (gpr[i.rs1] + (imm(p.type, i) % M)) % M,
         NEW len, len = LoadLen[p.name]
  PROVE  \/ /\ addr + len <= MSIZE
            /\ Write(i.rd, IF p.name \in {"lh", "lb"}
                           THEN SEXT(host_read(mem, addr, len), len * (WIDTH \div 4))
                           ELSE host_read(mem, addr, len))
            /\ access' = <<"read", addr, len>>
            /\ pc' = (pc + 4) % M /\ UNCHANGED <<mem, state>>
         \/ /\ addr + len > MSIZE
            /\ state' = Beyond(addr) /\ access' = <<>> /\ UNCHANGED <<gpr, mem, pc>>
<1>1. /\ p.name \notin {"lui", "auipc", "jal", "jalr"} /\ p.type # "N" /\ p.type # "B"
      /\ p.name \notin AluOps /\ p.name \notin DOMAIN StoreLen
  BY Lengths, SMTT(60) DEF AluOps, Loads, Stores
<1>2. DOMAIN alu(0, 0) = AluOps
  BY AluDomain
<1> QED
  BY <1>1, <1>2, ZenonT(30) DEF Execute

LEMMA ExecuteStore ==
  ASSUME NEW i, NEW p, Execute(p, i), p.type = "S", p.name \in Stores,
         NEW addr, addr = (gpr[i.rs1] + (imm(p.type, i) % M)) % M,
         NEW len, len = StoreLen[p.name]
  PROVE  \/ /\ addr + len <= MSIZE
            /\ mem' = host_write(mem, addr, len, gpr[i.rs2])
            /\ access' = <<"write", addr, len>>
            /\ pc' = (pc + 4) % M /\ UNCHANGED <<gpr, state>>
         \/ /\ addr + len > MSIZE
            /\ state' = Beyond(addr) /\ access' = <<>> /\ UNCHANGED <<gpr, mem, pc>>
<1>1. /\ p.name \notin {"lui", "auipc", "jal", "jalr"} /\ p.type # "N" /\ p.type # "B"
      /\ p.name \notin AluOps /\ p.name \notin DOMAIN LoadLen
  BY Lengths, SMTT(60) DEF AluOps, Loads, Stores
<1>2. DOMAIN alu(0, 0) = AluOps
  BY AluDomain
<1> QED
  BY <1>1, <1>2, ZenonT(30) DEF Execute

LEMMA ExecuteTrap ==
  ASSUME NEW i, NEW p, Execute(p, i), p.type = "N", p.name \in {"ebreak", "inv"}
  PROVE  /\ pc' = (pc + 4) % M /\ access' = <<>> /\ UNCHANGED <<gpr, mem>>
         /\ state' = IF p.name = "ebreak" THEN <<"END", sword(gpr[10])>> ELSE <<"ABORT">>
<1>1. /\ p.name \notin {"lui", "auipc", "jal", "jalr"} /\ p.type # "B"
      /\ p.name \notin AluOps /\ p.name \notin DOMAIN LoadLen
      /\ p.name \notin DOMAIN StoreLen
  BY Lengths, SMTT(60) DEF AluOps, Loads, Stores
<1>2. DOMAIN alu(0, 0) = AluOps
  BY AluDomain
<1> QED
  BY <1>1, <1>2, ZenonT(30) DEF Execute

-----------------------------------------------------------------------------
(* The registers of module Isa.                                            *)

\* TypeOK without the bound on the run.
Typed ==
  /\ gpr \in [Regs -> Word] /\ gpr[0] = 0 /\ pc \in Word
  /\ mem \in [0..(MSIZE - 1) -> Byte]
  /\ Head(state) \in {"run", "END", "ABORT", "died", "wild"}

\* What the assumption says of the constants.
LEMMA Constants ==
  /\ 0 \in Regs /\ 10 \in Regs /\ MSIZE \in Nat /\ MaxSteps \in Nat
  /\ \A a \in Asm : Abstract!WellFormed(a)
  /\ \A s \in Starts : /\ s.gpr \in [Regs -> Word] /\ s.gpr[0] = 0
                       /\ s.mem \in [0..(MSIZE - 1) -> Byte] /\ s.pc \in Word
BY HartAssumption, Zenon DEF HartAssumption

LEMMA ReadRegister ==
  ASSUME Typed, NEW r \in Regs
  PROVE  gpr[r] \in Word /\ Abstract!Read(r) = sword(gpr[r])
<1>1. gpr[r] \in Word
  BY DEF Typed
<1>2. CASE r = 0
  <2>1. gpr[r] = 0
    BY <1>2 DEF Typed
  <2>2. sword(0) = 0
    BY Sizes, SMT DEF sword
  <2>3. Abstract!Read(r) = 0
    BY <1>2, Zenon DEF Abstract!Read
  <2> QED
    BY <1>1, <2>1, <2>2, <2>3
<1>3. CASE r # 0
  <2>1. r \in Regs \ {0}
    BY <1>3
  <2>2. Abstract!Read(r) = [q \in Regs \ {0} |->
          IF gpr[q] >= M \div 2 THEN gpr[q] - M ELSE gpr[q]][r]
    BY <1>3, Zenon DEF Abstract!Read
  <2> QED
    BY <1>1, <2>1, <2>2, Zenon DEF sword
<1> QED
  BY <1>2, <1>3

\* A register written is one set to any number that stands for the same word.
LEMMA WriteSets ==
  ASSUME Typed, NEW d \in Regs, NEW u \in Int, NEW v \in Int, u % M = v % M, Write(d, v)
  PROVE  Abstract!Set(d, u) /\ gpr' \in [Regs -> Word] /\ gpr'[0] = 0
<1>1. gpr' = [gpr EXCEPT ![d] = v % M, ![0] = 0]
  BY Zenon DEF Write
<1>2. gpr \in [Regs -> Word] /\ 0 \in Regs
  BY Constants DEF Typed
<1>3. v % M \in Word /\ 0 \in Word
  <2>1. v % M \in Word
    BY SameMod
  <2> QED
    BY <1>2, <2>1 DEF Typed
<1>4. gpr' \in [Regs -> Word] /\ gpr'[0] = 0
  BY <1>1, <1>2, <1>3
<1>5. \A q \in Regs \ {0} : gpr'[q] = IF q = d THEN v % M ELSE gpr[q]
  BY <1>1, <1>2
<1>6. Abstract!Int2(u) = sword(v % M)
  BY SameInt2, Zenon
<1>7. Abstract!Set(d, u)
  <2> DEFINE old == [r \in Regs \ {0} |-> IF gpr[r] >= M \div 2 THEN gpr[r] - M ELSE gpr[r]]
             new == [r \in Regs \ {0} |-> IF gpr'[r] >= M \div 2 THEN gpr'[r] - M ELSE gpr'[r]]
  <2>1. DOMAIN old = Regs \ {0}
    BY Zenon
  <2>2. \A q \in Regs \ {0} : new[q] = IF q = d THEN sword(v % M) ELSE old[q]
    BY <1>5, Zenon DEF sword
  <2>3. new = [q \in DOMAIN old |-> IF q = d THEN Abstract!Int2(u) ELSE old[q]]
    BY <1>6, <2>1, <2>2, Zenon
  <2> QED
    BY <2>3, Zenon DEF Abstract!Set
<1> QED
  BY <1>4, <1>7

\* The registers stay if the words do.
LEMMA KeepSets ==
  ASSUME UNCHANGED gpr
  PROVE  [r \in Regs \ {0} |-> IF gpr[r] >= M \div 2 THEN gpr[r] - M ELSE gpr[r]]'
           = [r \in Regs \ {0} |-> IF gpr[r] >= M \div 2 THEN gpr[r] - M ELSE gpr[r]]
BY Zenon

\* A jump to the same word is the same jump.
LEMMA SameGoto ==
  ASSUME NEW u \in Int, NEW v \in Int, u % M = v % M, pc' = v % M
  PROVE  Abstract!Goto(u) /\ pc' \in Word
<1>1. pc' \in Word
  BY SameMod
<1>2. Abstract!Goto(u)
  BY SameM, Zenon DEF Abstract!Goto
<1> QED
  BY <1>1, <1>2

\* A small immediate is what its word stands for.
LEMMA SmallImmediate ==
  ASSUME NEW v \in Int, -2048 <= v, v <= 2047
  PROVE  sword(v % M) = v
<1>1. CASE M = 65536
  <2>1. v % 65536 = IF v < 0 THEN v + 65536 ELSE v
    BY SMT
  <2> QED
    BY <1>1, <2>1, SMT DEF sword
<1>2. CASE M = 4294967296
  <2>1. v % 4294967296 = IF v < 0 THEN v + 4294967296 ELSE v
    BY SMT
  <2> QED
    BY <1>2, <2>1, SMT DEF sword
<1> QED
  BY <1>1, <1>2, Sizes, SMT

\* The address of an access, and the target of jalr.
LEMMA SameAddress ==
  ASSUME Typed, NEW a, a.rs1 \in Regs, a.imm \in Int
  PROVE  /\ Abstract!Address(a) = (gpr[a.rs1] + (a.imm % M)) % M
         /\ Abstract!Address(a) \in Word
         /\ Abstract!Read(a.rs1) + a.imm \in Int
         /\ Abstract!Address(a) = (Abstract!Read(a.rs1) + a.imm) % M
<1>1. PICK g \in Int, s \in Int, k \in Int, w \in Int :
        /\ g = gpr[a.rs1] /\ s = Abstract!Read(a.rs1) /\ k = a.imm /\ w = a.imm % M
        /\ s % M = g % M /\ w % M = k % M
  <2>1. gpr[a.rs1] \in Word /\ Abstract!Read(a.rs1) = sword(gpr[a.rs1])
    BY ReadRegister
  <2>2. /\ gpr[a.rs1] \in Int /\ gpr[a.rs1] % M = gpr[a.rs1]
        /\ sword(gpr[a.rs1]) \in Int /\ sword(gpr[a.rs1]) % M = gpr[a.rs1]
    BY <2>1, SwordFacts
  <2>3. a.imm % M \in Int /\ (a.imm % M) % M = a.imm % M
    BY SameMod
  <2> QED
    BY <2>1, <2>2, <2>3, Zenon
<1>2. (s + k) % M = (g + w) % M
  BY <1>1, SameSums
<1>3. Abstract!Address(a) = (s + k) % M
  BY <1>1, SameM, Zenon DEF Abstract!Address
<1>4. s + k \in Int
  BY SMT
<1>5. (s + k) % M \in Word
  BY <1>4, SameMod
<1> QED
  BY <1>1, <1>2, <1>3, <1>4, <1>5, Zenon

-----------------------------------------------------------------------------
(* One instruction of each kind.                                           *)

LEMMA InCode ==
  /\ \A op \in OpsR \cup OpsI \cup OpsH \cup OpsL \cup OpsS \cup OpsB \cup OpsU \cup OpsJ :
       op \in DOMAIN Abstract!Code
  /\ \A op \in DOMAIN Abstract!Code : op # "junk"
<1>1. DOMAIN Abstract!Code = OpsR \cup OpsI \cup OpsH \cup OpsL \cup OpsS \cup OpsB
                             \cup OpsU \cup OpsJ
  BY Codes, Zenon
<1>2. \A op \in DOMAIN Abstract!Code : op # "junk"
  BY <1>1, Formats, SMT
<1> QED
  BY <1>1, <1>2, Zenon

\* What an instruction that is none of the junk words holds.
LEMMA Written ==
  ASSUME NEW a, Abstract!WellFormed(a), a.op \in DOMAIN Abstract!Code
  PROVE  /\ a.rd \in Regs /\ a.rs1 \in Regs /\ a.rs2 \in Regs /\ a.imm \in Int
         /\ Abstract!Holds(a.op, a.imm)
         /\ a.op = "ebreak" => a.rd = 0 /\ a.rs1 = 0 /\ a.imm = 1
<1>1. a.op # "junk"
  BY InCode, Zenon
<1> QED
  BY <1>1, SMT DEF Abstract!WellFormed

\* The immediates that the formats hold.
LEMMA HoldsSmall ==
  ASSUME NEW op \in OpsI \cup OpsL \cup OpsS, NEW v \in Int, Abstract!Holds(op, v)
  PROVE  -2048 <= v /\ v <= 2047
<1>1. CASE op \in OpsI
  <2>1. Abstract!Code[op][1] = "I"
    BY <1>1, Formats, SMT
  <2> QED
    BY <2>1, SMT DEF Abstract!Holds
<1>2. CASE op \in OpsL
  <2>1. Abstract!Code[op][1] = "L"
    BY <1>2, Formats, SMT
  <2> QED
    BY <2>1, SMT DEF Abstract!Holds
<1>3. CASE op \in OpsS
  <2>1. Abstract!Code[op][1] = "S"
    BY <1>3, Formats, SMT
  <2> QED
    BY <2>1, SMT DEF Abstract!Holds
<1> QED
  BY <1>1, <1>2, <1>3

LEMMA HoldsShift ==
  ASSUME NEW op \in OpsH, NEW v \in Int, Abstract!Holds(op, v)
  PROVE  0 <= v /\ v <= (IF op = "srai" THEN 63 ELSE 31)
<1>1. Abstract!Code[op][1] = "H"
  BY Formats, SMT
<1> QED
  BY <1>1, SMT DEF Abstract!Holds

LEMMA HoldsBranch ==
  ASSUME NEW op \in OpsB, NEW v \in Int, Abstract!Holds(op, v)
  PROVE  -4096 <= v /\ v <= 4095 /\ v % 2 = 0
<1>1. Abstract!Code[op][1] = "B"
  BY Formats, SMT
<1> QED
  BY <1>1, SMT DEF Abstract!Holds

LEMMA HoldsUpper ==
  ASSUME NEW op \in OpsU, NEW v \in Int, Abstract!Holds(op, v)
  PROVE  -524288 <= v \div 4096 /\ v \div 4096 <= 524287 /\ v % 4096 = 0
<1>1. Abstract!Code[op][1] = "U"
  BY Formats, SMT
<1> QED
  BY <1>1, SMT DEF Abstract!Holds

LEMMA HoldsJump ==
  ASSUME NEW op \in OpsJ, NEW v \in Int, Abstract!Holds(op, v)
  PROVE  -1048576 <= v /\ v <= 1048575 /\ v % 2 = 0
<1>1. Abstract!Code[op][1] = "J"
  BY Formats, SMT
<1> QED
  BY <1>1, SMT DEF Abstract!Holds

\* The end of an instruction that writes a register and goes on.
LEMMA WriteAndGo ==
  ASSUME Typed, NEW d \in Regs, NEW u \in Int, NEW v \in Int, u % M = v % M,
         Write(d, v), NEW t \in Int, NEW w \in Int, t % M = w % M, pc' = w % M,
         mem' = mem, state' = state
  PROVE  Abstract!Set(d, u) /\ Abstract!Goto(t) /\ Typed'
<1>1. Abstract!Set(d, u) /\ gpr' \in [Regs -> Word] /\ gpr'[0] = 0
  BY WriteSets
<1>2. Abstract!Goto(t) /\ pc' \in Word
  BY SameGoto
<1>3. Typed'
  BY <1>1, <1>2 DEF Typed
<1> QED
  BY <1>1, <1>2, <1>3

\* The next instruction's address is the same word.
LEMMA NextAddress ==
  ASSUME Typed
  PROVE  pc \in Int /\ pc + 4 \in Int
BY SwordFacts DEF Typed

LEMMA StepR ==
  ASSUME Typed, NEW a, Abstract!WellFormed(a), a.op \in OpsR,
         NEW i, i = Abstract!Encode(a), Execute(Decode(i), i)
  PROVE  Abstract!Compute(a) /\ Typed'
<1>1. a.rd \in Regs /\ a.rs1 \in Regs /\ a.rs2 \in Regs
  BY Written, InCode, Zenon
<1>2. i.rd = a.rd /\ i.rs1 = a.rs1 /\ i.rs2 = a.rs2
  BY OperandsR
<1>3. Decode(i).name = a.op /\ Decode(i).type = "R" /\ a.op \in AluOps
  BY DecodeR DEF OpsR, AluOps
<1>4. PICK g \in Word, h \in Word : g = gpr[a.rs1] /\ h = gpr[a.rs2]
  BY <1>1, ReadRegister
<1>5. Write(a.rd, alu(g, h)[a.op]) /\ pc' = (pc + 4) % M /\ NoAccess
  BY <1>2, <1>3, <1>4, ExecuteAlu
<1>6. Abstract!Read(a.rs1) = sword(g) /\ Abstract!Read(a.rs2) = sword(h)
  BY <1>1, <1>4, ReadRegister, Zenon
<1>7. PICK u \in Int : /\ u = Abstract!Value(a.op, Abstract!Read(a.rs1), Abstract!Read(a.rs2))
                       /\ u % M = alu(g, h)[a.op] % M
  <2>1. CASE a.op \in {"add", "sub", "and", "or", "xor", "sltu", "slt"}
    BY <1>6, <2>1, ValueArith
  <2>2. CASE a.op \in {"sll", "srl", "sra"}
    <3>1. /\ h \in Int /\ sword(h) \in Int /\ sword(h) % M = h % M
      BY SwordFacts
    <3>2. sword(h) % WIDTH = h % WIDTH
      BY <3>1, SameShift
    <3> QED
      BY <1>6, <2>2, <3>1, <3>2, ValueShift
  <2> QED
    BY <2>1, <2>2 DEF OpsR
<1>8. PICK v \in Int : v = alu(g, h)[a.op]
  BY <1>3, AluIsInt
<1>9. /\ Abstract!Set(a.rd, u) /\ Abstract!Goto(pc + 4) /\ Typed'
  BY <1>1, <1>5, <1>7, <1>8, NextAddress, WriteAndGo DEF NoAccess
<1>10. Abstract!Code[a.op][1] = "R"
  BY Formats
<1>11. Abstract!Quiet
  BY <1>5 DEF NoAccess, Abstract!Quiet
<1>12. Abstract!Set(a.rd, Abstract!Value(a.op, Abstract!Read(a.rs1), Abstract!Read(a.rs2)))
  BY <1>7, <1>9, ZenonT(30) DEF Abstract!Set
<1>13. Abstract!Compute(a)
  BY <1>9, <1>10, <1>11, <1>12, Zenon DEF Abstract!Compute
<1> QED
  BY <1>9, <1>13

\* An immediate form computes the number named by the pattern, with v.
LEMMA ImmediateForm ==
  ASSUME Typed, NEW a, a.op \in OpsI \cup OpsH, a.rd \in Regs, a.rs1 \in Regs,
         NEW i, Execute(Decode(i), i), i.rd = a.rd, i.rs1 = a.rs1,
         Decode(i).name = NameOf(a.op), Decode(i).type = "I",
         NEW b \in Word, b = imm("I", i) % M, NEW g \in Word, g = gpr[a.rs1],
         NEW u \in Int, u % M = alu(g, b)[NameOf(a.op)] % M,
         u = Abstract!Value(NameOf(a.op), Abstract!Read(a.rs1), a.imm)
  PROVE  Abstract!Compute(a) /\ Typed'
<1>1. NameOf(a.op) \in AluOps /\ a.op \in DOMAIN Abstract!Immediate
  BY Names, SMTT(60) DEF NameOf, AluOps, OpsI, OpsH
<1>2. Write(a.rd, alu(g, b)[NameOf(a.op)]) /\ pc' = (pc + 4) % M /\ NoAccess
  BY <1>1, ExecuteAlu
<1>3. PICK v \in Int : v = alu(g, b)[NameOf(a.op)]
  BY <1>1, AluIsInt
<1>4. /\ Abstract!Set(a.rd, u) /\ Abstract!Goto(pc + 4) /\ Typed'
  BY <1>2, <1>3, NextAddress, WriteAndGo DEF NoAccess
<1>5. Abstract!Quiet
  BY <1>2 DEF NoAccess, Abstract!Quiet
<1>6. NameOf(a.op) = Abstract!Immediate[a.op]
  BY <1>1, Zenon DEF NameOf
<1>7. Abstract!Set(a.rd, Abstract!Value(Abstract!Immediate[a.op],
                                        Abstract!Read(a.rs1), a.imm))
  BY <1>4, <1>6, ZenonT(30) DEF Abstract!Set
<1>8. Abstract!Compute(a)
  BY <1>1, <1>4, <1>5, <1>7, Zenon DEF Abstract!Compute
<1> QED
  BY <1>4, <1>8

LEMMA StepI ==
  ASSUME Typed, NEW a, Abstract!WellFormed(a), a.op \in OpsI,
         NEW i, i = Abstract!Encode(a), Execute(Decode(i), i)
  PROVE  Abstract!Compute(a) /\ Typed'
<1>1. /\ a.rd \in Regs /\ a.rs1 \in Regs /\ a.imm \in Int
      /\ -2048 <= a.imm /\ a.imm <= 2047
  <2>1. a.rd \in Regs /\ a.rs1 \in Regs /\ a.imm \in Int /\ Abstract!Holds(a.op, a.imm)
    BY Written, InCode, Zenon
  <2> QED
    BY <2>1, HoldsSmall
<1>2. i.rd = a.rd /\ i.rs1 = a.rs1 /\ imm("I", i) = a.imm
  BY <1>1, OperandsI
<1>3. Decode(i).name = NameOf(a.op) /\ Decode(i).type = "I"
  BY <1>1, DecodeI
<1>4. PICK g \in Word : g = gpr[a.rs1] /\ Abstract!Read(a.rs1) = sword(g)
  BY <1>1, ReadRegister
<1>5. PICK b \in Word : b = a.imm % M /\ sword(b) = a.imm
  BY <1>1, SameMod, SmallImmediate
<1>6. NameOf(a.op) \in {"add", "sub", "and", "or", "xor", "sltu", "slt"}
  BY Names, SMTT(60) DEF NameOf, OpsI
<1>7. PICK u \in Int : /\ u = Abstract!Value(NameOf(a.op), sword(g), sword(b))
                       /\ u % M = alu(g, b)[NameOf(a.op)] % M
  BY <1>6, ValueArith
<1>8. u = Abstract!Value(NameOf(a.op), Abstract!Read(a.rs1), a.imm)
  BY <1>4, <1>5, <1>7
<1>9. a.op \in OpsI \cup OpsH
  OBVIOUS
<1> QED
  BY <1>1, <1>2, <1>3, <1>4, <1>5, <1>7, <1>8, <1>9, ImmediateForm

LEMMA StepH ==
  ASSUME Typed, NEW a, Abstract!WellFormed(a), a.op \in OpsH,
         NEW i, i = Abstract!Encode(a), Execute(Decode(i), i)
  PROVE  Abstract!Compute(a) /\ Typed'
<1>1. /\ a.rd \in Regs /\ a.rs1 \in Regs /\ a.imm \in Int
      /\ 0 <= a.imm /\ a.imm <= (IF a.op = "srai" THEN 63 ELSE 31)
  <2>1. a.rd \in Regs /\ a.rs1 \in Regs /\ a.imm \in Int /\ Abstract!Holds(a.op, a.imm)
    BY Written, InCode, Zenon
  <2> QED
    BY <2>1, HoldsShift
<1>2. /\ i.rd = a.rd /\ i.rs1 = a.rs1
      /\ imm("I", i) \in Int /\ imm("I", i) % WIDTH = a.imm % WIDTH
  <2>1. a.imm <= 63
    BY <1>1
  <2> QED
    BY <1>1, <2>1, OperandsH
<1>3. Decode(i).name = NameOf(a.op) /\ Decode(i).type = "I"
  BY <1>1, DecodeH
<1>4. PICK g \in Word : g = gpr[a.rs1] /\ Abstract!Read(a.rs1) = sword(g)
  BY <1>1, ReadRegister
<1>5. PICK b \in Word : b = imm("I", i) % M /\ a.imm % WIDTH = b % WIDTH
  <2>1. PICK b \in Int : b = imm("I", i) % M /\ b % M = imm("I", i) % M /\ b \in Word
    BY <1>2, SameMod
  <2>2. b % WIDTH = imm("I", i) % WIDTH
    BY <1>2, <2>1, SameShift
  <2> QED
    BY <1>2, <2>1, <2>2
<1>6. NameOf(a.op) \in {"sll", "srl", "sra"}
  BY Names, SMTT(60) DEF NameOf, OpsH
<1>7. PICK u \in Int : /\ u = Abstract!Value(NameOf(a.op), sword(g), a.imm)
                       /\ u % M = alu(g, b)[NameOf(a.op)] % M
  BY <1>1, <1>5, <1>6, ValueShift
<1>8. u = Abstract!Value(NameOf(a.op), Abstract!Read(a.rs1), a.imm)
  BY <1>4, <1>7
<1>9. a.op \in OpsI \cup OpsH
  OBVIOUS
<1> QED
  BY <1>1, <1>2, <1>3, <1>4, <1>5, <1>7, <1>8, <1>9, ImmediateForm

LEMMA StepU ==
  ASSUME Typed, NEW a, Abstract!WellFormed(a), a.op \in OpsU,
         NEW i, i = Abstract!Encode(a), Execute(Decode(i), i)
  PROVE  Abstract!Compute(a) /\ Typed'
<1>1. a.rd \in Regs /\ a.imm \in Int /\ i.rd = a.rd /\ imm("U", i) = a.imm
  <2>1. a.rd \in Regs /\ a.imm \in Int /\ Abstract!Holds(a.op, a.imm)
    BY Written, InCode, Zenon
  <2>2. -524288 <= a.imm \div 4096 /\ a.imm \div 4096 <= 524287 /\ a.imm % 4096 = 0
    BY <2>1, HoldsUpper, SMT
  <2> QED
    BY <2>1, <2>2, OperandsU, SMT
<1>2. Decode(i).name = a.op /\ Decode(i).type = "U"
  BY <1>1, DecodeU
<1>3. PICK k \in Int, b \in Int : k = a.imm /\ b = a.imm % M /\ b % M = k % M
  BY <1>1, SameMod
<1>4. pc \in Int /\ pc + 4 \in Int
  BY NextAddress
<1>5. CASE a.op = "lui"
  <2>1. Write(a.rd, b) /\ pc' = (pc + 4) % M /\ NoAccess
    BY <1>1, <1>2, <1>3, <1>5, ExecuteUpper
  <2>2. Abstract!Set(a.rd, k) /\ Abstract!Goto(pc + 4) /\ Typed'
    BY <1>1, <1>3, <1>4, <2>1, WriteAndGo DEF NoAccess
  <2>3. Abstract!Set(a.rd, a.imm)
    BY <1>3, <2>2, ZenonT(30) DEF Abstract!Set
  <2>4. Abstract!Quiet
    BY <2>1 DEF NoAccess, Abstract!Quiet
  <2>5. Abstract!Compute(a)
    BY <1>5, <2>2, <2>3, <2>4, Zenon DEF Abstract!Compute
  <2> QED
    BY <2>2, <2>5
<1>6. CASE a.op = "auipc"
  <2>1. Write(a.rd, pc + b) /\ pc' = (pc + 4) % M /\ NoAccess
    BY <1>1, <1>2, <1>3, <1>6, ExecuteUpper
  <2>2. PICK p \in Int : p = pc
    BY <1>4
  <2>3. (p + k) % M = (p + b) % M
    BY <1>3, SameOffset
  <2>4. PICK u \in Int, v \in Int : u = p + k /\ v = p + b /\ u % M = v % M
    BY <2>3, SMT
  <2>5. Write(a.rd, v)
    BY <2>1, <2>2, <2>4
  <2>6. Abstract!Set(a.rd, u) /\ Abstract!Goto(pc + 4) /\ Typed'
    BY <1>1, <1>4, <2>1, <2>4, <2>5, WriteAndGo DEF NoAccess
  <2>7. Abstract!Set(a.rd, pc + a.imm)
    BY <1>3, <2>2, <2>4, <2>6, ZenonT(30) DEF Abstract!Set
  <2>8. Abstract!Quiet
    BY <2>1 DEF NoAccess, Abstract!Quiet
  <2>9. Abstract!Compute(a)
    BY <1>6, <2>6, <2>7, <2>8, Zenon DEF Abstract!Compute
  <2> QED
    BY <2>6, <2>9
<1> QED
  BY <1>5, <1>6 DEF OpsU

\* The link of a jump is the address of the next instruction.
LEMMA Links ==
  ASSUME Typed, NEW d \in Regs, Write(d, (pc + 4) % M),
         NEW t \in Int, NEW w \in Int, t % M = w % M, pc' = w % M,
         mem' = mem, state' = state
  PROVE  Abstract!Set(d, pc + 4) /\ Abstract!Goto(t) /\ Typed'
<1>1. pc + 4 \in Int
  BY NextAddress
<1>2. PICK u \in Int, v \in Int : u = pc + 4 /\ v = (pc + 4) % M /\ v % M = u % M
  BY <1>1, SameMod
<1>3. Abstract!Set(d, u) /\ Abstract!Goto(t) /\ Typed'
  BY <1>2, WriteAndGo
<1>4. Abstract!Set(d, pc + 4)
  BY <1>2, <1>3, ZenonT(30) DEF Abstract!Set
<1> QED
  BY <1>3, <1>4

LEMMA StepJ ==
  ASSUME Typed, NEW a, Abstract!WellFormed(a), a.op \in OpsJ,
         NEW i, i = Abstract!Encode(a), Execute(Decode(i), i)
  PROVE  Abstract!Jump(a) /\ Typed'
<1>1. a.rd \in Regs /\ a.imm \in Int /\ i.rd = a.rd /\ imm("J", i) = a.imm
  <2>1. a.rd \in Regs /\ a.imm \in Int /\ Abstract!Holds(a.op, a.imm)
    BY Written, InCode, Zenon
  <2>2. -1048576 <= a.imm /\ a.imm <= 1048575 /\ a.imm % 2 = 0
    BY <2>1, HoldsJump, SMT
  <2> QED
    BY <2>1, <2>2, OperandsJ, SMT
<1>2. Decode(i).name = a.op /\ Decode(i).type = "J" /\ a.op = "jal"
  BY <1>1, DecodeJ DEF OpsJ
<1>3. PICK k \in Int, b \in Int : k = a.imm /\ b = a.imm % M /\ b % M = k % M
  BY <1>1, SameMod
<1>4. PICK p \in Int : p = pc
  BY NextAddress
<1>5. (p + k) % M = (p + b) % M
  BY <1>3, SameOffset
<1>6. PICK t \in Int, w \in Int : t = p + k /\ w = p + b /\ t % M = w % M
  BY <1>5, SMT
<1>7. Write(a.rd, (pc + 4) % M) /\ NoAccess /\ pc' = w % M
  BY <1>1, <1>2, <1>3, <1>4, <1>6, ExecuteUpper
<1>8. Abstract!Set(a.rd, pc + 4) /\ Abstract!Goto(t) /\ Typed'
  BY <1>1, <1>6, <1>7, Links DEF NoAccess
<1>9. Abstract!Goto(pc + a.imm)
  <2>1. t = pc + a.imm
    BY <1>3, <1>4, <1>6
  <2> QED
    BY <1>8, <2>1, Zenon DEF Abstract!Goto
<1>10. Abstract!Quiet
  BY <1>7 DEF NoAccess, Abstract!Quiet
<1>11. Abstract!Jump(a)
  BY <1>2, <1>8, <1>9, <1>10, Zenon DEF Abstract!Jump
<1> QED
  BY <1>8, <1>11

LEMMA StepJalr ==
  ASSUME Typed, NEW a, Abstract!WellFormed(a), a.op = "jalr",
         NEW i, i = Abstract!Encode(a), Execute(Decode(i), i)
  PROVE  Abstract!Jump(a) /\ Typed'
<1>1. a.op \in OpsL /\ a.op # "ebreak"
  BY DEF OpsL
<1>2. /\ a.rd \in Regs /\ a.rs1 \in Regs /\ a.imm \in Int
      /\ i.rd = a.rd /\ i.rs1 = a.rs1 /\ imm("I", i) = a.imm
  <2>1. /\ a.rd \in Regs /\ a.rs1 \in Regs /\ a.imm \in Int
        /\ Abstract!Holds(a.op, a.imm)
    BY <1>1, Written, InCode, Zenon
  <2>2. a.op \in OpsI \cup OpsL \cup OpsS /\ a.op \in OpsI \cup OpsL
    BY <1>1
  <2>3. -2048 <= a.imm /\ a.imm <= 2047
    BY <2>1, <2>2, HoldsSmall
  <2> QED
    BY <2>1, <2>2, <2>3, OperandsI
<1>3. Decode(i).name = a.op /\ Decode(i).type = "I"
  BY <1>1, <1>2, DecodeL
<1>4. PICK t \in Int : /\ t = Abstract!Read(a.rs1) + a.imm
                       /\ t % M = (gpr[a.rs1] + (a.imm % M)) % M
  BY <1>2, SameAddress
<1>5. Write(a.rd, (pc + 4) % M) /\ NoAccess /\ pc' = t % M
  BY <1>2, <1>3, <1>4, ExecuteUpper
<1>6. Abstract!Set(a.rd, pc + 4) /\ Abstract!Goto(t) /\ Typed'
  BY <1>2, <1>5, Links DEF NoAccess
<1>7. Abstract!Goto(Abstract!Read(a.rs1) + a.imm)
  BY <1>4, <1>6, Zenon DEF Abstract!Goto
<1>8. Abstract!Quiet
  BY <1>5 DEF NoAccess, Abstract!Quiet
<1>9. Abstract!Jump(a)
  BY <1>6, <1>7, <1>8, Zenon DEF Abstract!Jump
<1> QED
  BY <1>6, <1>9

\* A branch is taken as the numbers compare.
LEMMA SameTaken ==
  ASSUME NEW op \in OpsB, NEW g \in Word, NEW h \in Word
  PROVE  Abstract!Taken(op, sword(g), sword(h)) <=> branch(g, h)[op]
<1>1. PICK s \in Int, t \in Int : s = sword(g) /\ t = sword(h) /\ s % M = g /\ t % M = h
  BY SwordFacts
<1>2. /\ branch(g, h)["beq"] = (g = h) /\ branch(g, h)["bne"] = (g # h)
      /\ branch(g, h)["blt"] = (s < t) /\ branch(g, h)["bge"] = (s >= t)
      /\ branch(g, h)["bltu"] = (g < h) /\ branch(g, h)["bgeu"] = (g >= h)
  BY <1>1, Zenon DEF branch
<1>3. /\ Abstract!Taken("beq", s, t) <=> s = t
      /\ Abstract!Taken("bne", s, t) <=> s # t
      /\ Abstract!Taken("blt", s, t) <=> s < t
      /\ Abstract!Taken("bge", s, t) <=> s >= t
      /\ Abstract!Taken("bltu", s, t) <=> s % Abstract!M < t % Abstract!M
      /\ Abstract!Taken("bgeu", s, t) <=> s % Abstract!M >= t % Abstract!M
  BY SMTT(30) DEF Abstract!Taken
<1>4. g = h <=> s = t
  BY <1>1
<1>5. s % Abstract!M = g /\ t % Abstract!M = h
  BY <1>1, SameM, Zenon
<1>6. CASE op \in {"beq", "bne"}
  BY <1>1, <1>2, <1>3, <1>4, <1>6, Zenon
<1>7. CASE op \in {"blt", "bge"}
  BY <1>1, <1>2, <1>3, <1>7, Zenon
<1>8. CASE op \in {"bltu", "bgeu"}
  BY <1>1, <1>2, <1>3, <1>5, <1>8, Zenon
<1> QED
  BY <1>6, <1>7, <1>8 DEF OpsB

LEMMA StepB ==
  ASSUME Typed, NEW a, Abstract!WellFormed(a), a.op \in OpsB,
         NEW i, i = Abstract!Encode(a), Execute(Decode(i), i)
  PROVE  Abstract!Jump(a) /\ Typed'
<1>1. /\ a.rs1 \in Regs /\ a.rs2 \in Regs /\ a.imm \in Int
      /\ i.rs1 = a.rs1 /\ i.rs2 = a.rs2 /\ imm("B", i) = a.imm
  <2>1. /\ a.rs1 \in Regs /\ a.rs2 \in Regs /\ a.imm \in Int
        /\ Abstract!Holds(a.op, a.imm)
    BY Written, InCode, Zenon
  <2>2. -4096 <= a.imm /\ a.imm <= 4095 /\ a.imm % 2 = 0
    BY <2>1, HoldsBranch, SMT
  <2> QED
    BY <2>1, <2>2, OperandsB, SMT
<1>2. Decode(i).name = a.op /\ Decode(i).type = "B"
  BY <1>1, DecodeB
<1>3. PICK k \in Int, b \in Int : k = a.imm /\ b = a.imm % M /\ b % M = k % M
  BY <1>1, SameMod
<1>4. PICK p \in Int : p = pc
  BY NextAddress
<1>5. (p + k) % M = (p + b) % M
  BY <1>3, SameOffset
<1>6. PICK g \in Word, h \in Word : /\ g = gpr[a.rs1] /\ Abstract!Read(a.rs1) = sword(g)
                                    /\ h = gpr[a.rs2] /\ Abstract!Read(a.rs2) = sword(h)
  BY <1>1, ReadRegister
<1>7. /\ UNCHANGED gpr /\ NoAccess
      /\ pc' = IF branch(g, h)[a.op] THEN (p + b) % M ELSE (p + 4) % M
  BY <1>1, <1>2, <1>3, <1>4, <1>6, ExecuteBranch
<1>8. PICK t \in Int :
        /\ t = IF Abstract!Taken(a.op, Abstract!Read(a.rs1), Abstract!Read(a.rs2))
               THEN pc + a.imm ELSE pc + 4
        /\ t % M = pc'
  <2>1. Abstract!Taken(a.op, Abstract!Read(a.rs1), Abstract!Read(a.rs2))
          <=> branch(g, h)[a.op]
    BY <1>6, SameTaken
  <2>2. p + k \in Int /\ p + 4 \in Int
    BY SMT
  <2>3. CASE branch(g, h)[a.op]
    BY <1>3, <1>4, <1>5, <1>7, <2>1, <2>2, <2>3
  <2>4. CASE ~ branch(g, h)[a.op]
    BY <1>3, <1>4, <1>5, <1>7, <2>1, <2>2, <2>4
  <2> QED
    BY <2>3, <2>4
<1>9. Abstract!Goto(t) /\ pc' \in Word
  BY <1>8, SameGoto
<1>10. Abstract!Goto(IF Abstract!Taken(a.op, Abstract!Read(a.rs1), Abstract!Read(a.rs2))
                     THEN pc + a.imm ELSE pc + 4)
  BY <1>8, <1>9, Zenon DEF Abstract!Goto
<1>11. Abstract!Quiet
  BY <1>7 DEF NoAccess, Abstract!Quiet
<1>12. Abstract!Code[a.op][1] = "B"
  BY Formats
<1>13. Abstract!Jump(a)
  BY <1>7, <1>10, <1>11, <1>12, KeepSets, Zenon DEF Abstract!Jump
<1>14. Typed'
  BY <1>7, <1>9 DEF Typed, NoAccess
<1> QED
  BY <1>13, <1>14

\* A byte or half that is sign-extended.
LEMMA SameExtension ==
  ASSUME NEW v \in Nat, NEW len \in {1, 2}
  PROVE  SEXT(v, len * (WIDTH \div 4))
           = IF v >= Weight(len) \div 2 THEN v - Weight(len) ELSE v
<1>1. /\ 1 * (16 \div 4) = 4 /\ 2 * (16 \div 4) = 8
      /\ 1 * (32 \div 4) = 8 /\ 2 * (32 \div 4) = 16
      /\ 4 - 1 = 3 /\ 8 - 1 = 7 /\ 16 - 1 = 15
      /\ 16 \div 2 = 8 /\ 256 \div 2 = 128 /\ 65536 \div 2 = 32768
      /\ 16 * 16 = 256 /\ 256 * 256 = 65536
  BY SMT
<1>2. /\ Pow2[3] = 8 /\ Pow2[4] = 16 /\ Pow2[7] = 128 /\ Pow2[8] = 256
      /\ Pow2[15] = 32768 /\ Pow2[16] = 65536
  BY PowersOfTwo, SMT
<1>3. /\ Weight(1) = BYTE /\ Weight(2) = BYTE * BYTE
      /\ (WIDTH = 16 /\ BYTE = 16) \/ (WIDTH = 32 /\ BYTE = 256)
  <2>1. (WIDTH = 16 /\ BYTE = 16) \/ (WIDTH = 32 /\ BYTE = 256)
    BY Sizes, SMT
  <2>2. Weight(1) = BYTE /\ Weight(2) = BYTE * BYTE
    BY DEF Weight
  <2> QED
    BY <2>1, <2>2
<1>4. PICK k \in Nat : /\ k = len * (WIDTH \div 4)
                       /\ Pow2[k] = Weight(len) /\ Pow2[k - 1] = Weight(len) \div 2
  <2>1. CASE len = 1 /\ WIDTH = 16
    BY <1>1, <1>2, <1>3, <2>1, SMT
  <2>2. CASE len = 2 /\ WIDTH = 16
    BY <1>1, <1>2, <1>3, <2>2, SMT
  <2>3. CASE len = 1 /\ WIDTH = 32
    BY <1>1, <1>2, <1>3, <2>3, SMT
  <2>4. CASE len = 2 /\ WIDTH = 32
    BY <1>1, <1>2, <1>3, <2>4, SMT
  <2> QED
    BY <1>3, <2>1, <2>2, <2>3, <2>4, SMT
<1> QED
  BY <1>4, Zenon DEF SEXT

\* What a load finds in memory is a number, and fits a word.
LEMMA LoadedIsWord ==
  ASSUME Typed, NEW at \in Word, NEW len \in Lens, at + len <= MSIZE
  PROVE  host_read(mem, at, len) \in Nat
<1>1. at \in Nat /\ len \in Nat /\ MSIZE \in Nat
  BY SwordFacts, Constants DEF Lens
<1>2. \A k \in 0..(len - 1) : mem[at + k] \in Byte
  <2> SUFFICES ASSUME NEW k \in 0..(len - 1) PROVE mem[at + k] \in Byte
    OBVIOUS
  <2>1. at + k \in 0..(MSIZE - 1)
    BY <1>1
  <2> QED
    BY <2>1 DEF Typed
<1>3. host_read(mem, at, len) \in 0..(Weight(len) - 1)
  BY <1>1, <1>2, ReadBounds
<1>4. Weight(len) \in Nat
  BY WeightFacts DEF Lens
<1> QED
  BY <1>3, <1>4

\* An access that is not inside memory ends the machine where it is.
LEMMA Leaves ==
  ASSUME Typed, NEW a, a.op \in Loads \cup Stores, ~ Abstract!Inside(a),
         NEW addr \in Word, addr = Abstract!Address(a),
         state' = Beyond(addr), access' = <<>>, UNCHANGED <<gpr, mem, pc>>
  PROVE  Abstract!Stop(a) /\ Typed'
<1>1. a.op \in DOMAIN Abstract!Sizes
  BY SameLengths
<1>2. state' = IF Abstract!Address(a) >= MSIZE THEN <<"died">> ELSE <<"wild">>
  <2>1. addr \in Nat /\ MSIZE \in Nat
    BY SwordFacts, Constants
  <2> QED
    BY <2>1 DEF Beyond
<1>3. Abstract!Stop(a)
  BY <1>1, <1>2, KeepSets, Zenon DEF Abstract!Stop
<1>4. Head(state') \in {"died", "wild"}
  BY <1>2, SMT
<1>5. Typed'
  BY <1>4 DEF Typed
<1> QED
  BY <1>3, <1>5

LEMMA StepL ==
  ASSUME Typed, NEW a, Abstract!WellFormed(a), a.op \in Loads,
         NEW i, i = Abstract!Encode(a), Execute(Decode(i), i)
  PROVE  (Abstract!Load(a) \/ Abstract!Stop(a)) /\ Typed'
<1>1. a.op \in OpsL /\ a.op # "ebreak"
  BY SMTT(60) DEF OpsL, Loads
<1>2. /\ a.rd \in Regs /\ a.rs1 \in Regs /\ a.imm \in Int
      /\ i.rd = a.rd /\ i.rs1 = a.rs1 /\ imm("I", i) = a.imm
  <2>1. /\ a.rd \in Regs /\ a.rs1 \in Regs /\ a.imm \in Int
        /\ Abstract!Holds(a.op, a.imm)
    BY <1>1, Written, InCode, Zenon
  <2>2. a.op \in OpsI \cup OpsL \cup OpsS /\ a.op \in OpsI \cup OpsL
    BY <1>1
  <2>3. -2048 <= a.imm /\ a.imm <= 2047
    BY <2>1, <2>2, HoldsSmall
  <2> QED
    BY <2>1, <2>2, <2>3, OperandsI
<1>3. Decode(i).name = a.op /\ Decode(i).type = "I"
  BY <1>1, <1>2, DecodeL
<1>4. PICK addr \in Word : /\ addr = Abstract!Address(a)
                           /\ addr = (gpr[a.rs1] + (a.imm % M)) % M
  BY <1>2, SameAddress
<1>5. PICK len \in Lens : len = LoadLen[a.op] /\ len = Abstract!Sizes[a.op]
  BY SameLengths
<1>6. Abstract!Inside(a) <=> addr + len <= MSIZE
  BY <1>4, <1>5, Zenon DEF Abstract!Inside
<1> DEFINE v == host_read(mem, addr, len)
           loaded == IF a.op \in {"lh", "lb"} THEN SEXT(v, len * (WIDTH \div 4)) ELSE v
<1>7. \/ /\ addr + len <= MSIZE /\ Write(a.rd, loaded)
         /\ access' = <<"read", addr, len>>
         /\ pc' = (pc + 4) % M /\ UNCHANGED <<mem, state>>
      \/ /\ addr + len > MSIZE
         /\ state' = Beyond(addr) /\ access' = <<>> /\ UNCHANGED <<gpr, mem, pc>>
  BY <1>2, <1>3, <1>4, <1>5, ExecuteLoad, ZenonT(30)
<1>8. CASE addr + len > MSIZE
  <2>1. addr \in Nat /\ len \in Nat /\ MSIZE \in Nat
    BY SwordFacts, Constants DEF Lens
  <2>2. ~ Abstract!Inside(a)
    BY <1>6, <1>8, <2>1
  <2>3. state' = Beyond(addr) /\ access' = <<>> /\ UNCHANGED <<gpr, mem, pc>>
    BY <1>7, <1>8, <2>1
  <2> QED
    BY <1>4, <2>2, <2>3, Leaves
<1>9. CASE addr + len <= MSIZE
  <2>1. addr \in Nat /\ len \in Nat /\ MSIZE \in Nat
    BY SwordFacts, Constants DEF Lens
  <2>2. /\ Write(a.rd, loaded) /\ access' = <<"read", addr, len>>
        /\ pc' = (pc + 4) % M /\ UNCHANGED <<mem, state>>
    BY <1>7, <1>9, <2>1
  <2>3. v \in Nat
    BY <1>9, LoadedIsWord
  <2>4. PICK u \in Int :
          /\ u = loaded
          /\ u = IF a.op \in {"lb", "lh"} /\ v >= Weight(len) \div 2
                 THEN v - Weight(len) ELSE v
    <3>1. CASE a.op \in {"lb", "lh"}
      <4>1. len \in {1, 2}
        BY <1>5, <3>1, Lengths
      <4>2. Weight(len) \in Nat
        BY <4>1, WeightFacts
      <4>3. loaded = IF v >= Weight(len) \div 2 THEN v - Weight(len) ELSE v
        BY <2>3, <3>1, <4>1, SameExtension
      <4> QED
        BY <2>3, <3>1, <4>2, <4>3
    <3>2. CASE a.op \notin {"lb", "lh"}
      BY <2>3, <3>2
    <3> QED
      BY <3>1, <3>2
  <2>5. Abstract!Set(a.rd, u) /\ Abstract!Goto(pc + 4) /\ Typed'
    BY <1>2, <2>2, <2>4, NextAddress, WriteAndGo
  <2>6. Abstract!host_read(mem, Abstract!Address(a), Abstract!Sizes[a.op]) = v
    BY <1>4, <1>5, SameWeight, Zenon
  <2>7. Abstract!Weight(Abstract!Sizes[a.op]) = Weight(len)
    BY <1>5, SameWeight, Zenon
  <2>8. Abstract!Code[a.op][4] = 3
    BY Codes, SMTT(60) DEF Loads
  <2>9. Abstract!Inside(a)
    BY <1>6, <1>9
  <2>10. access' = <<"read", Abstract!Address(a), Abstract!Sizes[a.op]>>
    BY <1>4, <1>5, <2>2, Zenon
  <2> HIDE DEF v, loaded
  <2>11. Abstract!Set(a.rd, LET w == Abstract!host_read(mem, Abstract!Address(a), Abstract!Sizes[a.op])
                               top == Abstract!Weight(Abstract!Sizes[a.op])
                           IN  IF a.op \in {"lb", "lh"} /\ w >= top \div 2 THEN w - top ELSE w)
    BY <2>4, <2>5, <2>6, <2>7, ZenonT(30) DEF Abstract!Set
  <2>12. Abstract!Load(a)
    BY <2>2, <2>5, <2>8, <2>9, <2>10, <2>11, ZenonT(30) DEF Abstract!Load
  <2> QED
    BY <2>5, <2>12
<1>10. addr \in Nat /\ len \in Nat /\ MSIZE \in Nat
  BY SwordFacts, Constants DEF Lens
<1> QED
  BY <1>8, <1>9, <1>10

LEMMA StepS ==
  ASSUME Typed, NEW a, Abstract!WellFormed(a), a.op \in OpsS,
         NEW i, i = Abstract!Encode(a), Execute(Decode(i), i)
  PROVE  (Abstract!Store(a) \/ Abstract!Stop(a)) /\ Typed'
<1>1. a.op \in Stores
  BY DEF OpsS, Stores
<1>2. /\ a.rs1 \in Regs /\ a.rs2 \in Regs /\ a.imm \in Int
      /\ i.rs1 = a.rs1 /\ i.rs2 = a.rs2 /\ imm("S", i) = a.imm
  <2>1. /\ a.rs1 \in Regs /\ a.rs2 \in Regs /\ a.imm \in Int
        /\ Abstract!Holds(a.op, a.imm)
    BY Written, InCode, Zenon
  <2>2. a.op \in OpsI \cup OpsL \cup OpsS
    OBVIOUS
  <2>3. -2048 <= a.imm /\ a.imm <= 2047
    BY <2>1, <2>2, HoldsSmall
  <2> QED
    BY <2>1, <2>3, OperandsS
<1>3. Decode(i).name = a.op /\ Decode(i).type = "S"
  BY <1>2, DecodeS
<1>4. PICK addr \in Word : /\ addr = Abstract!Address(a)
                           /\ addr = (gpr[a.rs1] + (a.imm % M)) % M
  BY <1>2, SameAddress
<1>5. PICK len \in Lens : len = StoreLen[a.op] /\ len = Abstract!Sizes[a.op]
  BY <1>1, SameLengths
<1>6. Abstract!Inside(a) <=> addr + len <= MSIZE
  BY <1>4, <1>5, Zenon DEF Abstract!Inside
<1>7. \/ /\ addr + len <= MSIZE
         /\ mem' = host_write(mem, addr, len, gpr[a.rs2])
         /\ access' = <<"write", addr, len>>
         /\ pc' = (pc + 4) % M /\ UNCHANGED <<gpr, state>>
      \/ /\ addr + len > MSIZE
         /\ state' = Beyond(addr) /\ access' = <<>> /\ UNCHANGED <<gpr, mem, pc>>
  BY <1>1, <1>2, <1>3, <1>4, <1>5, ExecuteStore
<1>8. addr \in Nat /\ len \in Nat /\ MSIZE \in Nat
  BY SwordFacts, Constants DEF Lens
<1>9. CASE addr + len > MSIZE
  <2>1. ~ Abstract!Inside(a)
    BY <1>6, <1>8, <1>9
  <2>2. state' = Beyond(addr) /\ access' = <<>> /\ UNCHANGED <<gpr, mem, pc>>
    BY <1>7, <1>8, <1>9
  <2> QED
    BY <1>1, <1>4, <2>1, <2>2, Leaves
<1>10. CASE addr + len <= MSIZE
  <2>1. /\ mem' = host_write(mem, addr, len, gpr[a.rs2])
        /\ access' = <<"write", addr, len>>
        /\ pc' = (pc + 4) % M /\ UNCHANGED <<gpr, state>>
    BY <1>7, <1>8, <1>10
  <2>2. PICK g \in Word : g = gpr[a.rs2] /\ Abstract!Read(a.rs2) = sword(g)
    BY <1>2, ReadRegister
  <2>3. g \in Nat /\ sword(g) % M = g
    BY SwordFacts
  <2>4. Abstract!Read(a.rs2) % Abstract!M = g
    BY <2>2, <2>3, SameM, Zenon
  <2>5. mem' = Abstract!host_write(mem, Abstract!Address(a), Abstract!Sizes[a.op],
                                   Abstract!Read(a.rs2) % Abstract!M)
    BY <1>4, <1>5, <2>1, <2>2, <2>4, SameWeight, Zenon
  <2>6. access' = <<"write", Abstract!Address(a), Abstract!Sizes[a.op]>>
    BY <1>4, <1>5, <2>1, Zenon
  <2>7. Abstract!Inside(a) /\ Abstract!Code[a.op][1] = "S"
    BY <1>6, <1>10, Formats
  <2>8. Abstract!Goto(pc + 4) /\ pc' \in Word
    <3>1. PICK t \in Int : t = pc + 4 /\ pc' = t % M
      BY <2>1, NextAddress
    <3>2. Abstract!Goto(t) /\ pc' \in Word
      BY <3>1, SameGoto
    <3> QED
      BY <3>1, <3>2, Zenon DEF Abstract!Goto
  <2>9. Abstract!Store(a)
    BY <2>1, <2>5, <2>6, <2>7, <2>8, KeepSets, ZenonT(30) DEF Abstract!Store
  <2>10. mem' \in [0..(MSIZE - 1) -> Byte]
    <3>1. 0..(MSIZE - 1) \in SUBSET Int /\ mem \in [0..(MSIZE - 1) -> Byte]
      BY <1>8 DEF Typed
    <3>2. addr \in Int
      BY <1>8
    <3>3. host_write(mem, addr, len, g) \in [0..(MSIZE - 1) -> Byte]
      BY <2>3, <3>1, <3>2, WriteIsBytes
    <3> QED
      BY <2>1, <2>2, <3>3
  <2>11. Typed'
    BY <2>1, <2>8, <2>10 DEF Typed
  <2> QED
    BY <2>9, <2>11
<1> QED
  BY <1>8, <1>9, <1>10

\* ebreak and the words that are no instruction stop the machine.
LEMMA StepTrap ==
  ASSUME Typed, NEW a, Abstract!WellFormed(a), a.op \in {"ebreak", "junk"},
         NEW i, i = Abstract!Encode(a), Execute(Decode(i), i)
  PROVE  Abstract!Stop(a) /\ Typed'
<1>1. /\ Decode(i).type = "N"
      /\ Decode(i).name = IF a.op = "ebreak" THEN "ebreak" ELSE "inv"
  <2>1. CASE a.op = "ebreak"
    <3>1. a.op \in DOMAIN Abstract!Code
      BY <2>1, InCode DEF OpsL
    <3>2. a.rd = 0 /\ a.rs1 = 0 /\ a.imm = 1
      BY <2>1, <3>1, Written, Zenon
    <3> QED
      BY <2>1, <3>2, DecodeBreak
  <2>2. CASE a.op = "junk"
    <3>1. a.op \notin DOMAIN Abstract!Code
      BY <2>2, InCode, Zenon
    <3>2. a.imm \in DOMAIN Junk
      BY <3>1, Zenon DEF Abstract!WellFormed
    <3> QED
      BY <2>2, <3>2, DecodeJunk
  <2> QED
    BY <2>1, <2>2
<1>2. /\ pc' = (pc + 4) % M /\ access' = <<>> /\ UNCHANGED <<gpr, mem>>
      /\ state' = IF a.op = "ebreak" THEN <<"END", sword(gpr[10])>> ELSE <<"ABORT">>
  BY <1>1, ExecuteTrap
<1>3. Abstract!Goto(pc + 4) /\ pc' \in Word
  <2>1. PICK t \in Int : t = pc + 4 /\ pc' = t % M
    BY <1>2, NextAddress
  <2>2. Abstract!Goto(t) /\ pc' \in Word
    BY <2>1, SameGoto
  <2> QED
    BY <2>1, <2>2, Zenon DEF Abstract!Goto
<1>4. Abstract!Read(10) = sword(gpr[10])
  BY Constants, ReadRegister, Zenon
<1>5. \/ a.op = "ebreak" /\ state' = <<"END", Abstract!Read(10)>>
      \/ a.op = "junk" /\ state' = <<"ABORT">>
  BY <1>2, <1>4
<1>6. Abstract!Stop(a)
  BY <1>2, <1>3, <1>5, KeepSets, ZenonT(30) DEF Abstract!Stop
<1>7. Head(state') \in {"run", "END", "ABORT", "died", "wild"}
  BY <1>5, SMT
<1>8. Typed'
  BY <1>2, <1>3, <1>7 DEF Typed
<1> QED
  BY <1>6, <1>8

-----------------------------------------------------------------------------
(* The machine.                                                            *)

\* Whatever instruction is found, what the words do is what it means.
LEMMA StepMeans ==
  ASSUME Typed, state = <<"run">>, NEW a \in Asm, inst' = a,
         NEW i, i = Abstract!Encode(a), Execute(Decode(i), i)
  PROVE  Abstract!Step(a) /\ Typed'
<1>1. Abstract!WellFormed(a)
  BY Constants
<1>2. /\ \/ a.op # "junk" /\ \/ Abstract!Compute(a) \/ Abstract!Jump(a)
                             \/ Abstract!Load(a) \/ Abstract!Store(a)
         \/ Abstract!Stop(a)
      /\ Typed'
  <2>1. CASE a.op \in OpsR
    BY <1>1, <2>1, StepR, Formats, Zenon
  <2>2. CASE a.op \in OpsI
    BY <1>1, <2>2, StepI, Formats, Zenon
  <2>3. CASE a.op \in OpsH
    BY <1>1, <2>3, StepH, Formats, Zenon
  <2>4. CASE a.op \in OpsU
    BY <1>1, <2>4, StepU, Formats, Zenon
  <2>5. CASE a.op \in OpsJ
    BY <1>1, <2>5, StepJ, Formats, Zenon
  <2>6. CASE a.op = "jalr"
    <3>1. a.op # "junk"
      BY <2>6, SMT
    <3> QED
      BY <1>1, <2>6, <3>1, StepJalr, Zenon
  <2>7. CASE a.op \in OpsB
    BY <1>1, <2>7, StepB, Formats, Zenon
  <2>8. CASE a.op \in Loads
    <3>1. a.op # "junk"
      BY <2>8, SMT DEF Loads
    <3> QED
      BY <1>1, <2>8, <3>1, StepL, Zenon
  <2>9. CASE a.op \in OpsS
    BY <1>1, <2>9, StepS, Formats, Zenon
  <2>10. CASE a.op \in {"ebreak", "junk"}
    BY <1>1, <2>10, StepTrap, Zenon
  <2>11. \/ a.op \in OpsR \/ a.op \in OpsI \/ a.op \in OpsH \/ a.op \in OpsU
         \/ a.op \in OpsJ \/ a.op = "jalr" \/ a.op \in OpsB \/ a.op \in Loads
         \/ a.op \in OpsS \/ a.op \in {"ebreak", "junk"}
    <3>1. a.op \in DOMAIN Abstract!Code \/ a.op = "junk"
      BY <1>1, SMT DEF Abstract!WellFormed
    <3>2. DOMAIN Abstract!Code = OpsR \cup OpsI \cup OpsH \cup OpsL \cup OpsS \cup OpsB
                                 \cup OpsU \cup OpsJ
      BY Codes, Zenon
    <3>3. a.op \in OpsL => a.op \in Loads \cup {"jalr", "ebreak"}
      BY SMT DEF OpsL, Loads
    <3> QED
      BY <3>1, <3>2, <3>3, Zenon
  <2> QED
    BY <2>1, <2>2, <2>3, <2>4, <2>5, <2>6, <2>7, <2>8, <2>9, <2>10, <2>11, Zenon
<1> QED
  BY <1>2, Zenon DEF Abstract!Step

\* A step preserves the types, and is one of module Isa.
LEMMA ExecOnceMeans ==
  ASSUME TypeOK, ExecOnce
  PROVE  TypeOK' /\ Abstract!Next
<1>1. Typed /\ n \in 0..MaxSteps
  BY DEF TypeOK, Typed
<1>2. PICK a \in Asm : inst' = a /\ Execute(Decode(Abstract!Encode(a)), Abstract!Encode(a))
  BY Zenon DEF ExecOnce
<1>3. state = <<"run">> /\ n < MaxSteps /\ n' = n + 1
  BY Zenon DEF ExecOnce
<1>4. Abstract!Step(a) /\ Typed'
  BY <1>1, <1>2, <1>3, StepMeans
<1>5. n' \in 0..MaxSteps
  BY <1>1, <1>3, Constants
<1>6. TypeOK'
  BY <1>4, <1>5 DEF TypeOK, Typed
<1> QED
  BY <1>4, <1>6, Zenon DEF Abstract!Next

\* Registers, pc and memory hold words and bytes, and register 0 reads 0 between
\* instructions, whatever instructions write to it: decode_exec, inst.c:130.
THEOREM TypeCorrect == Spec => []TypeOK
<1>1. Init => TypeOK
  <2> SUFFICES ASSUME Init PROVE TypeOK
    OBVIOUS
  <2>1. gpr \in [Regs -> Word] /\ gpr[0] = 0 /\ pc \in Word
        /\ mem \in [0..(MSIZE - 1) -> Byte]
    BY Constants, Zenon DEF Init
  <2>2. n \in 0..MaxSteps
    BY Constants DEF Init
  <2>3. Head(state) \in {"run", "END", "ABORT", "died", "wild"}
    BY DEF Init
  <2> QED
    BY <2>1, <2>2, <2>3 DEF TypeOK
<1>2. TypeOK /\ [ExecOnce]_vars => TypeOK'
  <2>1. ASSUME TypeOK, UNCHANGED vars PROVE TypeOK'
    BY <2>1 DEF TypeOK, vars
  <2> QED
    BY <2>1, ExecOnceMeans
<1> QED
  BY <1>1, <1>2, PTL DEF Spec

\* Whatever well-formed instructions are found, decoding their words' fields and
\* executing the first matching pattern on unsigned words (inst.c:29-133) is what
\* the instructions mean on signed integers: the machine implements module Isa.
THEOREM IsaImplemented == Spec => ImplementsIsa
<1>1. TypeOK /\ [ExecOnce]_vars => [Abstract!Next]_(Abstract!vars)
  <2>1. ASSUME UNCHANGED vars PROVE UNCHANGED Abstract!vars
    BY <2>1, KeepSets, ZenonT(30) DEF vars, Abstract!vars
  <2> QED
    BY <2>1, ExecOnceMeans
<1> QED
  BY <1>1, TypeCorrect, PTL DEF Spec, ImplementsIsa

\* No word matches two pattern rules other than the last, the catch-all inv
\* (inst.c:127), so the order in which decode_exec tries the ones before it
\* (inst.c:60-118) decides nothing.
THEOREM PatternsAreDisjoint ==
  ASSUME NEW i, NEW j \in DOMAIN Patterns, NEW k \in DOMAIN Patterns,
         INSTPAT(Patterns[j], i), INSTPAT(Patterns[k], i)
  PROVE  j = k
BY Rows, ShapeOfMatch, OneShape

\* The immediate that decode_operand puts together from a word's fields
\* (inst.c:14-45) is the one the instruction was written with: each of its bits
\* comes from where Encode laid it.  The shifts are left out, whose immediate
\* has the function code above the shift amount, and ebreak, which has none.
THEOREM ImmediatesSurvive ==
  ASSUME NEW a, Abstract!WellFormed(a), a.op \in DOMAIN Abstract!Code,
         a.op \notin {"slli", "srli", "srai", "ebreak"},
         NEW i, i = Abstract!Encode(a)
  PROVE  imm(Decode(i).type, i) = a.imm
<1>1. a.imm \in Int /\ Abstract!Holds(a.op, a.imm)
  BY Written, Zenon
<1>2. CASE a.op \in OpsR
  <2>1. Abstract!Code[a.op][1] = "R"
    BY <1>2, Formats, Zenon
  <2>2. a.imm = 0
    BY <1>1, <2>1, SMT DEF Abstract!Holds
  <2>3. Decode(i).type = "R"
    BY <1>2, DecodeR
  <2> QED
    BY <2>2, <2>3, SMT DEF imm
<1>3. CASE a.op \in OpsI
  <2>1. Decode(i).type = "I"
    BY <1>1, <1>3, DecodeI
  <2>2. -2048 <= a.imm /\ a.imm <= 2047
    BY <1>1, <1>3, HoldsSmall
  <2> QED
    BY <1>1, <1>3, <2>1, <2>2, OperandsI
<1>4. CASE a.op \in OpsL
  <2>1. Decode(i).type = "I"
    BY <1>1, <1>4, DecodeL
  <2>2. -2048 <= a.imm /\ a.imm <= 2047
    BY <1>1, <1>4, HoldsSmall
  <2> QED
    BY <1>1, <1>4, <2>1, <2>2, OperandsI
<1>5. CASE a.op \in OpsS
  <2>1. Decode(i).type = "S"
    BY <1>1, <1>5, DecodeS
  <2>2. -2048 <= a.imm /\ a.imm <= 2047
    BY <1>1, <1>5, HoldsSmall
  <2> QED
    BY <1>1, <1>5, <2>1, <2>2, OperandsS
<1>6. CASE a.op \in OpsB
  <2>1. Decode(i).type = "B"
    BY <1>1, <1>6, DecodeB
  <2>2. -4096 <= a.imm /\ a.imm <= 4095 /\ a.imm % 2 = 0
    BY <1>1, <1>6, HoldsBranch, SMT
  <2> QED
    BY <1>1, <1>6, <2>1, <2>2, OperandsB, SMT
<1>7. CASE a.op \in OpsU
  <2>1. Decode(i).type = "U"
    BY <1>1, <1>7, DecodeU
  <2>2. -524288 <= a.imm \div 4096 /\ a.imm \div 4096 <= 524287 /\ a.imm % 4096 = 0
    BY <1>1, <1>7, HoldsUpper, SMT
  <2> QED
    BY <1>1, <1>7, <2>1, <2>2, OperandsU, SMT
<1>8. CASE a.op \in OpsJ
  <2>1. Decode(i).type = "J"
    BY <1>1, <1>8, DecodeJ
  <2>2. -1048576 <= a.imm /\ a.imm <= 1048575 /\ a.imm % 2 = 0
    BY <1>1, <1>8, HoldsJump, SMT
  <2> QED
    BY <1>1, <1>8, <2>1, <2>2, OperandsJ, SMT
<1>9. a.op \in OpsR \cup OpsI \cup OpsL \cup OpsS \cup OpsB \cup OpsU \cup OpsJ
  <2>1. DOMAIN Abstract!Code = OpsR \cup OpsI \cup OpsH \cup OpsL \cup OpsS \cup OpsB
                               \cup OpsU \cup OpsJ
    BY Codes, Zenon
  <2>2. a.op \notin OpsH
    BY SMT DEF OpsH
  <2> QED
    BY <2>1, <2>2, Zenon
<1> QED
  BY <1>2, <1>3, <1>4, <1>5, <1>6, <1>7, <1>8, <1>9, Zenon

-----------------------------------------------------------------------------
(* Every word is an instruction of module Isa or junk.                     *)

InstructionWord ==
  [f7 : 0..127, rs2 : 0..31, rs1 : 0..31, f3 : 0..7, rd : 0..31, op : 0..127]

\* v is the immediate of a format that has the given fields.
Twelve(v, x, y) == -2048 <= v /\ v <= 2047 /\ (v \div 32) % 128 = x /\ v % 32 = y
Branch(v, f, r) ==
  /\ -4096 <= v /\ v <= 4095 /\ v % 2 = 0
  /\ f = 64 * ((v \div 4096) % 2) + ((v \div 32) % 64)
  /\ r = 2 * ((v \div 2) % 16) + ((v \div 2048) % 2)
Upper(v, x, y, z, w) ==
  /\ -524288 <= v \div 4096 /\ v \div 4096 <= 524287 /\ v % 4096 = 0
  /\ x = (v \div 33554432) % 128 /\ y = (v \div 1048576) % 32
  /\ z = (v \div 32768) % 32 /\ w = (v \div 4096) % 8
Jump(v, f, r, p, q) ==
  /\ -1048576 <= v /\ v <= 1048575 /\ v % 2 = 0
  /\ f = 64 * ((v \div 1048576) % 2) + ((v \div 32) % 64)
  /\ r = 2 * ((v \div 2) % 16) + ((v \div 2048) % 2)
  /\ p = (v \div 32768) % 32 /\ q = (v \div 4096) % 8

\* There is one, whatever the fields.
LEMMA TwelveBits ==
  ASSUME NEW x \in 0..127, NEW y \in 0..31
  PROVE  \E v \in Int : Twelve(v, x, y)
<1>1. PICK v \in Int : v = (IF x < 64 THEN x ELSE x - 128) * 32 + y
  BY SMT
<1>2. v \div 32 = (IF x < 64 THEN x ELSE x - 128) /\ v % 32 = y
  BY <1>1, SMT
<1>3. (v \div 32) % 128 = x /\ -2048 <= v /\ v <= 2047
  BY <1>1, <1>2, SMT
<1> QED
  BY <1>2, <1>3, SMT DEF Twelve

LEMMA BranchBits ==
  ASSUME NEW f \in 0..127, NEW r \in 0..31
  PROVE  \E v \in Int : Branch(v, f, r)
<1>1. PICK s \in Int, x \in Int, y \in Int, z \in Int :
        /\ 0 <= s /\ s < 2 /\ 0 <= x /\ x < 64 /\ 0 <= y /\ y < 16 /\ 0 <= z /\ z < 2
        /\ f = 64 * s + x /\ r = 2 * y + z
  <2>1. /\ 0 <= f \div 64 /\ f \div 64 < 2 /\ 0 <= f % 64 /\ f % 64 < 64
        /\ 0 <= r \div 2 /\ r \div 2 < 16 /\ 0 <= r % 2 /\ r % 2 < 2
        /\ f = 64 * (f \div 64) + (f % 64) /\ r = 2 * (r \div 2) + (r % 2)
    BY SMT
  <2>2. f \div 64 \in Int /\ f % 64 \in Int /\ r \div 2 \in Int /\ r % 2 \in Int
    BY SMT
  <2> QED
    BY <2>1, <2>2, Zenon
<1>2. PICK v \in Int : v = z * 2048 + x * 32 + y * 2 - s * 4096
  BY SMT
<1>3. /\ v \div 2 = z * 1024 + x * 16 + y - s * 2048 /\ v % 2 = 0
      /\ v \div 32 = z * 64 + x - s * 128
      /\ v \div 2048 = z - 2 * s /\ v \div 4096 = -s
  BY <1>1, <1>2, SMT
<1>4. /\ (v \div 2) % 16 = y /\ (v \div 32) % 64 = x
      /\ (v \div 2048) % 2 = z /\ (v \div 4096) % 2 = s
  BY <1>1, <1>3, SMT
<1>5. -4096 <= v /\ v <= 4095
  BY <1>1, <1>2, SMT
<1> QED
  BY <1>1, <1>3, <1>4, <1>5, SMT DEF Branch

LEMMA UpperBits ==
  ASSUME NEW x \in 0..127, NEW y \in 0..31, NEW z \in 0..31, NEW w \in 0..7
  PROVE  \E v \in Int : Upper(v, x, y, z, w)
<1>1. PICK k \in Int : k = (IF x < 64 THEN x ELSE x - 128)
  BY SMT
<1>2. PICK t \in Int : t = k * 8192 + y * 256 + z * 8 + w
  BY SMT
<1>3. PICK v \in Int : v = t * 4096
  BY SMT
<1>4. /\ t \div 8192 = k /\ t \div 256 = k * 32 + y /\ t \div 8 = k * 1024 + y * 32 + z
      /\ t % 8 = w /\ -524288 <= t /\ t <= 524287
  BY <1>1, <1>2, SMT
<1>5. /\ v \div 4096 = t /\ v % 4096 = 0 /\ v \div 33554432 = t \div 8192
      /\ v \div 1048576 = t \div 256 /\ v \div 32768 = t \div 8
  BY <1>3, SMT
<1>6. k % 128 = x /\ (k * 32 + y) % 32 = y /\ (k * 1024 + y * 32 + z) % 32 = z
  BY <1>1, SMT
<1> QED
  BY <1>4, <1>5, <1>6, SMT DEF Upper

LEMMA JumpBits ==
  ASSUME NEW f \in 0..127, NEW r \in 0..31, NEW p \in 0..31, NEW q \in 0..7
  PROVE  \E v \in Int : Jump(v, f, r, p, q)
<1>1. PICK s \in Int, x \in Int, y \in Int, z \in Int :
        /\ 0 <= s /\ s < 2 /\ 0 <= x /\ x < 64 /\ 0 <= y /\ y < 16 /\ 0 <= z /\ z < 2
        /\ f = 64 * s + x /\ r = 2 * y + z
  <2>1. /\ 0 <= f \div 64 /\ f \div 64 < 2 /\ 0 <= f % 64 /\ f % 64 < 64
        /\ 0 <= r \div 2 /\ r \div 2 < 16 /\ 0 <= r % 2 /\ r % 2 < 2
        /\ f = 64 * (f \div 64) + (f % 64) /\ r = 2 * (r \div 2) + (r % 2)
    BY SMT
  <2>2. f \div 64 \in Int /\ f % 64 \in Int /\ r \div 2 \in Int /\ r % 2 \in Int
    BY SMT
  <2> QED
    BY <2>1, <2>2, Zenon
<1>2. PICK v \in Int :
        v = p * 32768 + q * 4096 + z * 2048 + x * 32 + y * 2 - s * 1048576
  BY SMT
<1>3. v \div 2 = p * 16384 + q * 2048 + z * 1024 + x * 16 + y - s * 524288 /\ v % 2 = 0
  BY <1>1, <1>2, SMT
<1>4. /\ v \div 32 = p * 1024 + q * 128 + z * 64 + x - s * 32768
      /\ v \div 2048 = p * 16 + q * 2 + z - s * 512
  BY <1>1, <1>2, SMT
<1>5. /\ v \div 4096 = p * 8 + q - s * 256 /\ v \div 32768 = p - s * 32
      /\ v \div 1048576 = -s
  BY <1>1, <1>2, SMT
<1>6. /\ (v \div 2) % 16 = y /\ (v \div 32) % 64 = x
      /\ (v \div 2048) % 2 = z /\ (v \div 4096) % 8 = q
  BY <1>1, <1>3, <1>4, <1>5, SMT
<1>7. (v \div 32768) % 32 = p /\ (v \div 1048576) % 2 = s
  BY <1>1, <1>5, SMT
<1>8. -1048576 <= v /\ v <= 1048575
  BY <1>1, <1>2, SMT
<1> QED
  BY <1>1, <1>3, <1>6, <1>7, <1>8, SMT DEF Jump

\* A word that has an instruction's fields is the word it is laid out in.
LEMMA LaidOut ==
  ASSUME NEW i \in InstructionWord, NEW a, a.op \in DOMAIN Abstract!Code,
         Fields(Abstract!Encode(a), i.f7, i.rs2, i.rs1, i.f3, i.rd, i.op)
  PROVE  Abstract!Encode(a) = i
<1>1. a.op # "junk" /\ Abstract!Code[a.op][1] \in {"R", "H", "I", "L", "S", "B", "U", "J"}
  <2>1. a.op # "junk"
    BY InCode, Zenon
  <2>2. DOMAIN Abstract!Code = OpsR \cup OpsI \cup OpsH \cup OpsL \cup OpsS \cup OpsB
                               \cup OpsU \cup OpsJ
    BY Codes, Zenon
  <2>3. Abstract!Code[a.op][1] \in {"R", "H", "I", "L", "S", "B", "U", "J"}
    BY <2>2, Formats, SMTT(30)
  <2> QED
    BY <2>1, <2>3
<1> DEFINE e == Abstract!Encode(a)
           record == [f7 |-> e.f7, rs2 |-> e.rs2, rs1 |-> e.rs1, f3 |-> e.f3,
                      rd |-> e.rd, op |-> e.op]
<1>2. CASE Abstract!Code[a.op][1] = "R"
  <2>1. e = record
    BY <1>1, <1>2, SMT DEF Abstract!Encode
  <2> QED
    BY <2>1, SMT DEF Fields, InstructionWord
<1>3. CASE Abstract!Code[a.op][1] = "H"
  <2>1. e = record
    BY <1>1, <1>3, SMT DEF Abstract!Encode
  <2> QED
    BY <2>1, SMT DEF Fields, InstructionWord
<1>4. CASE Abstract!Code[a.op][1] = "I"
  <2>1. e = record
    BY <1>1, <1>4, SMT DEF Abstract!Encode
  <2> QED
    BY <2>1, SMT DEF Fields, InstructionWord
<1>5. CASE Abstract!Code[a.op][1] = "L"
  <2>1. e = record
    BY <1>1, <1>5, SMT DEF Abstract!Encode
  <2> QED
    BY <2>1, SMT DEF Fields, InstructionWord
<1>6. CASE Abstract!Code[a.op][1] = "S"
  <2>1. e = record
    BY <1>1, <1>6, SMT DEF Abstract!Encode
  <2> QED
    BY <2>1, SMT DEF Fields, InstructionWord
<1>7. CASE Abstract!Code[a.op][1] = "B"
  <2>1. e = record
    BY <1>1, <1>7, SMT DEF Abstract!Encode
  <2> QED
    BY <2>1, SMT DEF Fields, InstructionWord
<1>8. CASE Abstract!Code[a.op][1] = "U"
  <2>1. e = record
    BY <1>1, <1>8, SMT DEF Abstract!Encode
  <2> QED
    BY <2>1, SMT DEF Fields, InstructionWord
<1>9. CASE Abstract!Code[a.op][1] = "J"
  <2>1. e = record
    BY <1>1, <1>9, SMT DEF Abstract!Encode
  <2> QED
    BY <2>1, SMT DEF Fields, InstructionWord
<1> QED
  BY <1>1, <1>2, <1>3, <1>4, <1>5, <1>6, <1>7, <1>8, <1>9

\* The instruction with a word's registers and an immediate that it can hold.
LEMMA Assembled ==
  ASSUME Regs = 0..31, NEW i \in InstructionWord, NEW op \in DOMAIN Abstract!Code,
         NEW v \in Int, Abstract!Holds(op, v),
         op = "ebreak" => i.rd = 0 /\ i.rs1 = 0 /\ v = 1
  PROVE  \E a : /\ Abstract!WellFormed(a) /\ a.op = op /\ a.imm = v
                /\ a.rd = i.rd /\ a.rs1 = i.rs1 /\ a.rs2 = i.rs2
<1> DEFINE a == [op |-> op, rd |-> i.rd, rs1 |-> i.rs1, rs2 |-> i.rs2, imm |-> v]
<1>1. a.op = op /\ a.imm = v /\ a.rd = i.rd /\ a.rs1 = i.rs1 /\ a.rs2 = i.rs2
  OBVIOUS
<1>2. i.rd \in Regs /\ i.rs1 \in Regs /\ i.rs2 \in Regs
  BY DEF InstructionWord
<1> HIDE DEF a
<1>3. Abstract!WellFormed(a)
  BY <1>1, <1>2, SMT DEF Abstract!WellFormed
<1> QED
  BY <1>1, <1>3

LEMMA WordR ==
  ASSUME Regs = 0..31, NEW i \in InstructionWord, NEW op \in OpsR, Abstract!Fits(op, i)
  PROVE  \E a : Abstract!WellFormed(a) /\ Abstract!Encode(a) = i
<1>1. Abstract!Code[op][1] = "R" /\ op \in DOMAIN Abstract!Code /\ op # "ebreak" /\ op # "srai"
  BY Formats, InCode, SMTT(30) DEF OpsR
<1>2. Abstract!Holds(op, 0)
  BY <1>1, SMT DEF Abstract!Holds
<1>3. /\ i.op = Abstract!Code[op][4] /\ i.f3 = Abstract!Code[op][2]
      /\ i.f7 = Abstract!Code[op][3]
  BY <1>1, SMT DEF Abstract!Fits
<1>4. PICK a : /\ Abstract!WellFormed(a) /\ a.op = op /\ a.imm = 0
               /\ a.rd = i.rd /\ a.rs1 = i.rs1 /\ a.rs2 = i.rs2
  BY <1>1, <1>2, Assembled
<1>5. Fields(Abstract!Encode(a), i.f7, i.rs2, i.rs1, i.f3, i.rd, i.op)
  BY <1>3, <1>4, LayoutR, SMT DEF Fields
<1> QED
  BY <1>1, <1>4, <1>5, LaidOut

LEMMA WordI ==
  ASSUME Regs = 0..31, NEW i \in InstructionWord, NEW op \in OpsI \cup OpsL, Abstract!Fits(op, i)
  PROVE  \E a : Abstract!WellFormed(a) /\ Abstract!Encode(a) = i
<1>1. Abstract!Code[op][1] \in {"I", "L"} /\ op \in DOMAIN Abstract!Code
  <2>1. op \in DOMAIN Abstract!Code
    BY InCode
  <2>2. CASE op \in OpsI
    BY <2>1, <2>2, Formats, SMT
  <2>3. CASE op \in OpsL
    BY <2>1, <2>3, Formats, SMT
  <2> QED
    BY <2>2, <2>3
<1>2. i.op = Abstract!Code[op][4] /\ i.f3 = Abstract!Code[op][2]
  BY <1>1, SMT DEF Abstract!Fits
<1>3. PICK v \in Int : /\ Twelve(v, i.f7, i.rs2)
                       /\ op = "ebreak" => i.rd = 0 /\ i.rs1 = 0 /\ v = 1
  <2>1. CASE op = "ebreak"
    <3>1. i.f7 = 0 /\ i.rs2 = 1 /\ i.rs1 = 0 /\ i.rd = 0
      BY <1>1, <2>1, SMT DEF Abstract!Fits
    <3>2. Twelve(1, 0, 1)
      BY SMT DEF Twelve
    <3> QED
      BY <3>1, <3>2
  <2>2. CASE op # "ebreak"
    <3>1. PICK x \in 0..127, y \in 0..31 : x = i.f7 /\ y = i.rs2
      BY Zenon DEF InstructionWord
    <3>2. \E v \in Int : Twelve(v, x, y)
      BY TwelveBits, Zenon
    <3> QED
      BY <2>2, <3>1, <3>2, ZenonT(40)
  <2> QED
    BY <2>1, <2>2
<1>4. Abstract!Holds(op, v)
  <2>1. CASE Abstract!Code[op][1] = "I"
    BY <1>3, <2>1, SMT DEF Abstract!Holds, Twelve
  <2>2. CASE Abstract!Code[op][1] = "L"
    BY <1>3, <2>2, SMT DEF Abstract!Holds, Twelve
  <2> QED
    BY <1>1, <2>1, <2>2
<1>5. PICK a : /\ Abstract!WellFormed(a) /\ a.op = op /\ a.imm = v
               /\ a.rd = i.rd /\ a.rs1 = i.rs1 /\ a.rs2 = i.rs2
  BY <1>1, <1>3, <1>4, Assembled
<1>6. Fields(Abstract!Encode(a), i.f7, i.rs2, i.rs1, i.f3, i.rd, i.op)
  BY <1>2, <1>3, <1>5, LayoutI, SMT DEF Fields, Twelve
<1> QED
  BY <1>1, <1>5, <1>6, LaidOut

LEMMA WordH ==
  ASSUME Regs = 0..31, NEW i \in InstructionWord, NEW op \in OpsH, Abstract!Fits(op, i)
  PROVE  \E a : Abstract!WellFormed(a) /\ Abstract!Encode(a) = i
<1>1. Abstract!Code[op][1] = "H" /\ op \in DOMAIN Abstract!Code /\ op # "ebreak"
  BY Formats, InCode, SMTT(30) DEF OpsH
<1>2. PICK b \in {0, 1} : i.f7 = Abstract!Code[op][3] + b /\ (b = 1 => op = "srai")
  <2>1. i.f7 = Abstract!Code[op][3] \/ (op = "srai" /\ i.f7 = Abstract!Code[op][3] + 1)
    BY <1>1, SMT DEF Abstract!Fits
  <2>2. Abstract!Code[op][3] \in Int
    BY Codes, SMTT(60) DEF OpsH
  <2>3. Abstract!Code[op][3] + 0 = Abstract!Code[op][3]
    BY <2>2
  <2> QED
    BY <2>1, <2>3
<1>3. i.op = Abstract!Code[op][4] /\ i.f3 = Abstract!Code[op][2]
  BY <1>1, SMT DEF Abstract!Fits
<1>4. PICK v \in Int : v = b * 32 + i.rs2 /\ (v \div 32) % 2 = b /\ v % 32 = i.rs2
                       /\ 0 <= v /\ v <= (IF op = "srai" THEN 63 ELSE 31)
  <2>1. PICK r \in 0..31 : r = i.rs2
    BY DEF InstructionWord
  <2>2. CASE b = 0
    <3>1. (r \div 32) % 2 = 0 /\ r % 32 = r /\ 0 * 32 + r = r
      BY SMT
    <3> QED
      BY <2>1, <2>2, <3>1
  <2>3. CASE b = 1
    <3>1. /\ ((32 + r) \div 32) % 2 = 1 /\ (32 + r) % 32 = r
          /\ 1 * 32 + r = 32 + r /\ 32 + r <= 63
      BY SMT
    <3> QED
      BY <1>2, <2>1, <2>3, <3>1
  <2> QED
    BY <2>2, <2>3
<1>5. Abstract!Holds(op, v)
  BY <1>1, <1>4, SMT DEF Abstract!Holds
<1>6. PICK a : /\ Abstract!WellFormed(a) /\ a.op = op /\ a.imm = v
               /\ a.rd = i.rd /\ a.rs1 = i.rs1 /\ a.rs2 = i.rs2
  BY <1>1, <1>5, Assembled
<1>7. Fields(Abstract!Encode(a), i.f7, i.rs2, i.rs1, i.f3, i.rd, i.op)
  BY <1>2, <1>3, <1>4, <1>6, LayoutH, SMT DEF Fields
<1> QED
  BY <1>1, <1>6, <1>7, LaidOut

LEMMA WordS ==
  ASSUME Regs = 0..31, NEW i \in InstructionWord, NEW op \in OpsS, Abstract!Fits(op, i)
  PROVE  \E a : Abstract!WellFormed(a) /\ Abstract!Encode(a) = i
<1>1. Abstract!Code[op][1] = "S" /\ op \in DOMAIN Abstract!Code /\ op # "ebreak"
  BY Formats, InCode, SMTT(30) DEF OpsS
<1>2. i.op = Abstract!Code[op][4] /\ i.f3 = Abstract!Code[op][2]
  BY <1>1, SMT DEF Abstract!Fits
<1>3. PICK x \in 0..127, y \in 0..31 : x = i.f7 /\ y = i.rd
  BY Zenon DEF InstructionWord
<1>4. PICK v \in Int : Twelve(v, x, y)
  BY TwelveBits, Zenon
<1>5. Abstract!Holds(op, v)
  BY <1>1, <1>4, SMT DEF Abstract!Holds, Twelve
<1>6. PICK a : /\ Abstract!WellFormed(a) /\ a.op = op /\ a.imm = v
               /\ a.rd = i.rd /\ a.rs1 = i.rs1 /\ a.rs2 = i.rs2
  BY <1>1, <1>5, Assembled
<1>7. Fields(Abstract!Encode(a), i.f7, i.rs2, i.rs1, i.f3, i.rd, i.op)
  BY <1>2, <1>3, <1>4, <1>6, LayoutS, SMT DEF Fields, Twelve
<1> QED
  BY <1>1, <1>6, <1>7, LaidOut

LEMMA WordB ==
  ASSUME Regs = 0..31, NEW i \in InstructionWord, NEW op \in OpsB, Abstract!Fits(op, i)
  PROVE  \E a : Abstract!WellFormed(a) /\ Abstract!Encode(a) = i
<1>1. Abstract!Code[op][1] = "B" /\ op \in DOMAIN Abstract!Code /\ op # "ebreak"
  BY Formats, InCode, SMTT(30) DEF OpsB
<1>2. i.op = Abstract!Code[op][4] /\ i.f3 = Abstract!Code[op][2]
  BY <1>1, SMT DEF Abstract!Fits
<1>3. PICK f \in 0..127, r \in 0..31 : f = i.f7 /\ r = i.rd
  BY DEF InstructionWord
<1>4. PICK v \in Int : Branch(v, f, r)
  BY BranchBits, Zenon
<1>5. Abstract!Holds(op, v)
  BY <1>1, <1>4, SMT DEF Abstract!Holds, Branch
<1>6. PICK a : /\ Abstract!WellFormed(a) /\ a.op = op /\ a.imm = v
               /\ a.rd = i.rd /\ a.rs1 = i.rs1 /\ a.rs2 = i.rs2
  BY <1>1, <1>5, Assembled
<1>7. Fields(Abstract!Encode(a), i.f7, i.rs2, i.rs1, i.f3, i.rd, i.op)
  <2>1. a.op \in OpsB /\ a.imm \in Int
    BY <1>4, <1>6
  <2>2. Fields(Abstract!Encode(a), 64 * ((a.imm \div 4096) % 2) + ((a.imm \div 32) % 64),
               a.rs2, a.rs1, Abstract!Code[a.op][2],
               2 * ((a.imm \div 2) % 16) + ((a.imm \div 2048) % 2), Abstract!Code[a.op][4])
    BY <2>1, LayoutB, SMT
  <2>3. /\ 64 * ((a.imm \div 4096) % 2) + ((a.imm \div 32) % 64) = i.f7
        /\ 2 * ((a.imm \div 2) % 16) + ((a.imm \div 2048) % 2) = i.rd
    BY <1>3, <1>4, <1>6, SMT DEF Branch
  <2> QED
    BY <1>2, <1>6, <2>2, <2>3, SMT
<1> QED
  BY <1>1, <1>6, <1>7, LaidOut

LEMMA WordU ==
  ASSUME Regs = 0..31, NEW i \in InstructionWord, NEW op \in OpsU, Abstract!Fits(op, i)
  PROVE  \E a : Abstract!WellFormed(a) /\ Abstract!Encode(a) = i
<1>1. Abstract!Code[op][1] = "U" /\ op \in DOMAIN Abstract!Code /\ op # "ebreak"
  BY Formats, InCode, SMTT(30) DEF OpsU
<1>2. i.op = Abstract!Code[op][4]
  BY <1>1, SMT DEF Abstract!Fits
<1>3. PICK x \in 0..127, y \in 0..31, z \in 0..31, w \in 0..7 :
        x = i.f7 /\ y = i.rs2 /\ z = i.rs1 /\ w = i.f3
  BY Zenon DEF InstructionWord
<1>4. PICK v \in Int : Upper(v, x, y, z, w)
  BY UpperBits, Zenon
<1>5. Abstract!Holds(op, v)
  BY <1>1, <1>4, SMT DEF Abstract!Holds, Upper
<1>6. PICK a : /\ Abstract!WellFormed(a) /\ a.op = op /\ a.imm = v
               /\ a.rd = i.rd /\ a.rs1 = i.rs1 /\ a.rs2 = i.rs2
  BY <1>1, <1>5, Assembled, SMT
<1>7. Fields(Abstract!Encode(a), i.f7, i.rs2, i.rs1, i.f3, i.rd, i.op)
  BY <1>2, <1>3, <1>4, <1>6, LayoutU, SMT DEF Fields, Upper
<1> QED
  BY <1>1, <1>6, <1>7, LaidOut, SMT

LEMMA WordJ ==
  ASSUME Regs = 0..31, NEW i \in InstructionWord, NEW op \in OpsJ, Abstract!Fits(op, i)
  PROVE  \E a : Abstract!WellFormed(a) /\ Abstract!Encode(a) = i
<1>1. Abstract!Code[op][1] = "J" /\ op \in DOMAIN Abstract!Code /\ op # "ebreak"
  BY Formats, InCode, SMTT(30) DEF OpsJ
<1>2. i.op = Abstract!Code[op][4]
  BY <1>1, SMT DEF Abstract!Fits
<1>3. PICK f \in 0..127, r \in 0..31, p \in 0..31, q \in 0..7 :
        f = i.f7 /\ r = i.rs2 /\ p = i.rs1 /\ q = i.f3
  BY DEF InstructionWord
<1>4. PICK v \in Int : Jump(v, f, r, p, q)
  BY JumpBits, Zenon
<1>5. Abstract!Holds(op, v)
  BY <1>1, <1>4, SMT DEF Abstract!Holds, Jump
<1>6. PICK a : /\ Abstract!WellFormed(a) /\ a.op = op /\ a.imm = v
               /\ a.rd = i.rd /\ a.rs1 = i.rs1 /\ a.rs2 = i.rs2
  BY <1>1, <1>5, Assembled, SMT
<1>7. Fields(Abstract!Encode(a), i.f7, i.rs2, i.rs1, i.f3, i.rd, i.op)
  BY <1>2, <1>3, <1>4, <1>6, LayoutJ, SMT DEF Fields, Jump
<1> QED
  BY <1>1, <1>6, <1>7, LaidOut, SMT

\* With all 32 registers, every instruction word (cpu.h:81-150 reads 32 bits) that
\* has the opcode and function codes of an instruction is one that a well-formed
\* instruction is laid out in.  The words that decode_exec can meet are therefore
\* those of Asm and of Junk, and IsaImplemented speaks of all of them.
THEOREM EveryWordIsKnown ==
  ASSUME Regs = 0..31, NEW i \in InstructionWord,
         NEW op \in DOMAIN Abstract!Code, Abstract!Fits(op, i)
  PROVE  \E a : Abstract!WellFormed(a) /\ Abstract!Encode(a) = i
<1>1. op \in OpsR \cup OpsI \cup OpsH \cup OpsL \cup OpsS \cup OpsB \cup OpsU \cup OpsJ
  BY Codes, Zenon
<1>2. CASE op \in OpsR
  BY <1>2, WordR
<1>3. CASE op \in OpsI \cup OpsL
  BY <1>3, WordI
<1>4. CASE op \in OpsH
  BY <1>4, WordH
<1>5. CASE op \in OpsS
  BY <1>5, WordS
<1>6. CASE op \in OpsB
  BY <1>6, WordB
<1>7. CASE op \in OpsU
  BY <1>7, WordU
<1>8. CASE op \in OpsJ
  BY <1>8, WordJ
<1> QED
  BY <1>1, <1>2, <1>3, <1>4, <1>5, <1>6, <1>7, <1>8
=============================================================================
