--------------------------- MODULE HostMemProofs ---------------------------
(***************************************************************************)
(* Lemmas about words in host memory: what host_write has put there,       *)
(* host_read finds, whatever the lengths of the two.                       *)
(***************************************************************************)
EXTENDS HostMem, TLAPS

(* Quotients and remainders.                                               *)

\* Division with remainder ...
LEMMA DivMod ==
  ASSUME NEW a \in Nat, NEW b \in Nat \ {0}
  PROVE  /\ a \div b \in Nat /\ a % b \in Nat /\ a % b < b
         /\ a = b * (a \div b) + (a % b)
BY SMTT(30)

\* ... is unique.
LEMMA DivUnique ==
  ASSUME NEW b \in Nat \ {0}, NEW q \in Nat, NEW r \in Nat, r < b
  PROVE  (b * q + r) \div b = q /\ (b * q + r) % b = r
BY SMTT(30)

\* A product of natural numbers is one.
LEMMA ProductIsNat ==
  ASSUME NEW a \in Nat, NEW b \in Nat
  PROVE  a * b \in Nat
BY SMT

\* One more digit of v in base b, above those that w = b^k cuts off.
LEMMA NextDigit ==
  ASSUME NEW b \in Nat \ {0}, NEW w \in Nat \ {0}, NEW v \in Nat
  PROVE  /\ v % (w * b) = ((v \div w) % b) * w + (v % w)
         /\ v \div (w * b) = (v \div w) \div b
         /\ w * b \in Nat \ {0}
<1>1. PICK q \in Nat, r \in Nat : q = v \div w /\ r = v % w /\ r < w /\ v = w * q + r
  BY DivMod
<1>2. PICK p \in Nat, d \in Nat : p = q \div b /\ d = q % b /\ d < b /\ q = b * p + d
  BY DivMod
<1>3. w * b \in Nat \ {0} /\ d * w \in Nat
  BY SMT
<1>4. v = (w * b) * p + (d * w + r)
  <2>1. w * (b * p + d) = (w * b) * p + d * w
    BY SMT
  <2>2. (w * b) * p \in Nat
    BY <1>3, ProductIsNat
  <2>3. v = ((w * b) * p + d * w) + r
    BY <1>1, <1>2, <2>1
  <2> QED
    BY <1>3, <2>2, <2>3
<1>5. d * w + r < w * b
  BY <1>1, <1>2, SMT
<1>6. d * w + r \in Nat
  BY <1>3
<1>7. v % (w * b) = d * w + r /\ v \div (w * b) = p
  BY <1>3, <1>4, <1>5, <1>6, DivUnique
<1> QED
  BY <1>1, <1>2, <1>3, <1>7
-----------------------------------------------------------------------------
(* Words of four bytes.                                                    *)

\* What BYTE^0 to BYTE^4 are.
LEMMA WeightFacts ==
  /\ BYTE \in Nat \ {0} /\ BYTE > 1
  /\ Weight(0) = 1 /\ Weight(1) = BYTE
  /\ Weight(2) = Weight(1) * BYTE /\ Weight(3) = Weight(2) * BYTE
  /\ Weight(4) = Weight(3) * BYTE
  /\ \A k \in 0..4 : Weight(k) \in Nat \ {0}
<1>1. BYTE \in Nat \ {0} /\ BYTE > 1
  BY HostMemAssumption DEF HostMemAssumption
<1>2. /\ Weight(0) = 1 /\ Weight(1) = BYTE /\ Weight(2) = BYTE * BYTE
      /\ Weight(3) = BYTE * BYTE * BYTE /\ Weight(4) = BYTE * BYTE * BYTE * BYTE
  BY DEF Weight
<1>3. PICK b \in Nat \ {0} : b = BYTE
  BY <1>1
<1>4. b * b \in Nat \ {0}
  BY SMT
<1>5. (b * b) * b \in Nat \ {0}
  BY <1>4, NextDigit
<1>6. (b * b * b) * b \in Nat \ {0}
  BY <1>5, NextDigit
<1>7. \A k \in 0..4 : k = 0 \/ k = 1 \/ k = 2 \/ k = 3 \/ k = 4
  OBVIOUS
<1>8. \A k \in 0..4 : Weight(k) \in Nat \ {0}
  BY <1>1, <1>2, <1>3, <1>4, <1>5, <1>6, <1>7
<1> QED
  BY <1>1, <1>2, <1>8

\* The byte of v of weight w.
Digit(v, k) == (v \div Weight(k)) % BYTE

\* A digit is a byte.
LEMMA DigitIsByte ==
  ASSUME NEW v \in Nat, NEW k \in 0..3
  PROVE  Digit(v, k) \in Byte /\ Digit(v, k) \in Nat
<1>1. Weight(k) \in Nat \ {0} /\ BYTE \in Nat \ {0}
  BY WeightFacts
<1>2. v \div Weight(k) \in Nat
  BY <1>1, DivMod
<1>3. Digit(v, k) \in Nat /\ Digit(v, k) < BYTE
  BY <1>1, <1>2, DivMod DEF Digit
<1> QED
  BY <1>1, <1>3 DEF Byte

\* The lowest digits of v add up to v modulo the next weight.
LEMMA Digits ==
  ASSUME NEW v \in Nat
  PROVE  /\ Digit(v, 0) = v % Weight(1)
         /\ Digit(v, 1) * Weight(1) + (v % Weight(1)) = v % Weight(2)
         /\ Digit(v, 2) * Weight(2) + (v % Weight(2)) = v % Weight(3)
         /\ Digit(v, 3) * Weight(3) + (v % Weight(3)) = v % Weight(4)
<1>1. /\ BYTE \in Nat \ {0} /\ Weight(1) \in Nat \ {0} /\ Weight(2) \in Nat \ {0}
      /\ Weight(3) \in Nat \ {0}
  BY WeightFacts
<1>2. v \div 1 = v
  BY SMT
<1>3. Digit(v, 0) = v % Weight(1)
  BY <1>2, WeightFacts DEF Digit
<1>4. \A w \in Nat \ {0} : ((v \div w) % BYTE) * w + (v % w) = v % (w * BYTE)
  BY <1>1, NextDigit, ZenonT(30)
<1>5. \A k \in {1, 2, 3} : Digit(v, k) * Weight(k) + (v % Weight(k)) = v % (Weight(k) * BYTE)
  BY <1>1, <1>4, Zenon DEF Digit
<1>6. /\ Weight(2) = Weight(1) * BYTE /\ Weight(3) = Weight(2) * BYTE
      /\ Weight(4) = Weight(3) * BYTE
  BY WeightFacts
<1> QED
  BY <1>3, <1>5, <1>6, Zenon

\* host_read of each length, as a sum.
LEMMA ReadSums ==
  ASSUME NEW m, NEW at \in Int, m[at] \in Nat
  PROVE  /\ host_read(m, at, 1) = m[at]
         /\ m[at + 1] \in Nat => host_read(m, at, 2) = m[at] + m[at + 1] * Weight(1)
         /\ m[at + 1] \in Nat /\ m[at + 2] \in Nat /\ m[at + 3] \in Nat =>
              host_read(m, at, 4) = m[at] + m[at + 1] * Weight(1)
                                    + m[at + 2] * Weight(2) + m[at + 3] * Weight(3)
<1>1. /\ Weight(0) = 1 /\ Weight(1) \in Nat /\ Weight(2) \in Nat /\ Weight(3) \in Nat
  BY WeightFacts
<1>2. m[at + 0] * 1 = m[at]
  BY SMT
<1>3. host_read(m, at, 1) = m[at]
  BY <1>1, <1>2 DEF host_read
<1>4. ASSUME m[at + 1] \in Nat
      PROVE  host_read(m, at, 2) = m[at] + m[at + 1] * Weight(1)
  BY <1>1, <1>2, <1>4, ProductIsNat DEF host_read
<1>5. ASSUME m[at + 1] \in Nat, m[at + 2] \in Nat, m[at + 3] \in Nat
      PROVE  host_read(m, at, 4) = m[at] + m[at + 1] * Weight(1)
                                   + m[at + 2] * Weight(2) + m[at + 3] * Weight(3)
  BY <1>1, <1>2, <1>5 DEF host_read
<1> QED
  BY <1>3, <1>4, <1>5

\* A word that was written is read back, as much of it as is asked for.
LEMMA ReadWritten ==
  ASSUME NEW m, NEW at \in Int, NEW v \in Nat, NEW len \in Lens,
         \A k \in 0..3 : at + k \in DOMAIN m
  PROVE  host_read(host_write(m, at, 4, v), at, len) = v % Weight(len)
<1> DEFINE t == host_write(m, at, 4, v)
<1>1. \A k \in 0..3 : t[at + k] = Digit(v, k)
  <2> SUFFICES ASSUME NEW k \in 0..3 PROVE t[at + k] = Digit(v, k)
    OBVIOUS
  <2>1. at + k \in at..(at + 4 - 1) /\ (at + k) - at = k
    OBVIOUS
  <2> QED
    BY <2>1 DEF host_write, Digit
<1> HIDE DEF t
<1>2. /\ t[at] = Digit(v, 0) /\ t[at + 1] = Digit(v, 1)
      /\ t[at + 2] = Digit(v, 2) /\ t[at + 3] = Digit(v, 3)
  <2>1. at + 0 = at
    OBVIOUS
  <2> QED
    BY <1>1, <2>1
<1>3. /\ Digit(v, 0) \in Nat /\ Digit(v, 1) \in Nat
      /\ Digit(v, 2) \in Nat /\ Digit(v, 3) \in Nat
  BY DigitIsByte
<1>4. /\ Weight(1) \in Nat \ {0} /\ Weight(2) \in Nat \ {0} /\ Weight(3) \in Nat \ {0}
  BY WeightFacts
<1>5. PICK x1 \in Nat, x2 \in Nat, x3 \in Nat :
        /\ x1 = Digit(v, 1) * Weight(1) /\ x2 = Digit(v, 2) * Weight(2)
        /\ x3 = Digit(v, 3) * Weight(3)
  BY <1>3, <1>4, ProductIsNat
<1>6. v % Weight(1) \in Nat /\ v % Weight(2) \in Nat /\ v % Weight(3) \in Nat
  BY <1>4, DivMod
<1>7. /\ Digit(v, 0) = v % Weight(1)
      /\ Digit(v, 0) + x1 = v % Weight(2)
      /\ Digit(v, 0) + x1 + x2 = v % Weight(3)
      /\ Digit(v, 0) + x1 + x2 + x3 = v % Weight(4)
  BY <1>3, <1>5, <1>6, Digits
<1>8. /\ host_read(t, at, 1) = Digit(v, 0) /\ host_read(t, at, 2) = Digit(v, 0) + x1
      /\ host_read(t, at, 4) = Digit(v, 0) + x1 + x2 + x3
  BY <1>2, <1>3, <1>5, ReadSums
<1> QED
  BY <1>7, <1>8 DEF Lens, t

\* host_read depends on the bytes it reads.
LEMMA ReadSame ==
  ASSUME NEW s, NEW t, NEW at \in Int, NEW len \in Lens, NEW at2 \in Int,
         \A k \in 0..(len - 1) : t[at2 + k] = s[at + k]
  PROVE  host_read(t, at2, len) = host_read(s, at, len)
BY DEF host_read, Lens

\* What bytes add up to fits the length.
LEMMA ReadBounds ==
  ASSUME NEW m, NEW at \in Int, NEW len \in Lens,
         \A k \in 0..(len - 1) : m[at + k] \in Byte
  PROVE  /\ host_read(m, at, len) \in 0..(Weight(len) - 1)
         /\ host_read(m, at, len) % Weight(len) = host_read(m, at, len)
<1>1. PICK b \in Nat \ {0} : b = BYTE /\ b > 1
  BY WeightFacts
<1>2. m[at] \in Byte
  <2>1. 0 \in 0..(len - 1) /\ at + 0 = at
    BY DEF Lens
  <2> QED
    BY <2>1
<1>3. host_read(m, at, len) \in 0..(Weight(len) - 1)
  <2>1. CASE len = 1
    <3>1. host_read(m, at, 1) = m[at]
      BY <1>2, ReadSums DEF Byte
    <3> QED
      BY <1>1, <1>2, <2>1, <3>1, WeightFacts DEF Byte
  <2>2. CASE len = 2
    <3>1. m[at + 1] \in Byte
      BY <2>2
    <3>2. PICK x \in Nat, y \in Nat : x = m[at] /\ y = m[at + 1] /\ x < b /\ y < b
      BY <1>1, <1>2, <3>1 DEF Byte
    <3>3. host_read(m, at, 2) = x + y * b
      BY <1>1, <3>2, ReadSums, WeightFacts
    <3>4. x + y * b \in Nat /\ x + y * b < b * b
      BY <3>2, SMTT(30)
    <3>5. Weight(2) = b * b /\ b * b \in Nat
      BY <1>1, WeightFacts, ProductIsNat
    <3> QED
      BY <2>2, <3>3, <3>4, <3>5
  <2>3. CASE len = 4
    <3>1. m[at + 1] \in Byte /\ m[at + 2] \in Byte /\ m[at + 3] \in Byte
      BY <2>3
    <3>2. PICK x \in Nat, y \in Nat, z \in Nat, w \in Nat :
            /\ x = m[at] /\ y = m[at + 1] /\ z = m[at + 2] /\ w = m[at + 3]
            /\ x < b /\ y < b /\ z < b /\ w < b
      BY <1>1, <1>2, <3>1 DEF Byte
    <3>3. PICK w2 \in Nat \ {0}, w3 \in Nat \ {0} :
            /\ w2 = Weight(2) /\ w3 = Weight(3) /\ w2 = b * b /\ w3 = w2 * b
            /\ Weight(4) = w3 * b /\ Weight(1) = b
      BY <1>1, WeightFacts
    <3>4. host_read(m, at, 4) = x + y * b + z * w2 + w * w3
      BY <3>2, <3>3, ReadSums
    <3>5. x + y * b \in Nat /\ x + y * b < w2
      BY <3>2, <3>3, SMTT(30)
    <3>6. z * w2 \in Nat /\ z * w2 <= w3 - w2
      BY <3>2, <3>3, SMTT(30)
    <3>7. w * w3 \in Nat /\ w * w3 <= w3 * b - w3 /\ w3 * b \in Nat
      BY <3>2, <3>3, SMTT(30)
    <3> QED
      BY <2>3, <3>3, <3>4, <3>5, <3>6, <3>7
  <2> QED
    BY <2>1, <2>2, <2>3 DEF Lens
<1>4. Weight(len) \in Nat \ {0}
  BY WeightFacts DEF Lens
<1>5. \A r \in Nat : r < Weight(len) => r % Weight(len) = r
  BY <1>4, SMT
<1> QED
  BY <1>3, <1>4, <1>5

\* Writing part of a word leaves the digits above that part.
LEMMA WrittenMerges ==
  ASSUME NEW m, NEW at \in Int, NEW len \in Lens, NEW data \in Nat,
         \A k \in 0..3 : at + k \in DOMAIN m /\ m[at + k] \in Byte
  PROVE  host_read(host_write(m, at, len, data), at, 4)
           = (host_read(m, at, 4) \div Weight(len)) * Weight(len) + (data % Weight(len))
<1> DEFINE t == host_write(m, at, len, data)
<1>1. \A k \in 0..3 : t[at + k] = IF k < len THEN Digit(data, k) ELSE m[at + k]
  <2> SUFFICES ASSUME NEW k \in 0..3
               PROVE  t[at + k] = IF k < len THEN Digit(data, k) ELSE m[at + k]
    OBVIOUS
  <2>1. at + k \in at..(at + len - 1) <=> k < len
    BY DEF Lens
  <2>2. (at + k) - at = k
    OBVIOUS
  <2> QED
    BY <2>1, <2>2 DEF host_write, Digit
<1> HIDE DEF t
<1>2. at + 0 = at
  OBVIOUS
<1>3. PICK b \in Nat \ {0}, w2 \in Nat \ {0}, w3 \in Nat \ {0} :
        /\ b = Weight(1) /\ b = BYTE /\ w2 = Weight(2) /\ w3 = Weight(3)
        /\ w2 = b * b /\ w3 = w2 * b /\ Weight(4) = w3 * b
  BY WeightFacts
<1>4. PICK x \in Nat, y \in Nat, z \in Nat, w \in Nat :
        /\ x = m[at] /\ y = m[at + 1] /\ z = m[at + 2] /\ w = m[at + 3]
        /\ x < b /\ y < b /\ z < b /\ w < b
  <2>1. /\ m[at + 0] \in Byte /\ m[at + 1] \in Byte
        /\ m[at + 2] \in Byte /\ m[at + 3] \in Byte
    OBVIOUS
  <2>2. \A v \in Byte : v \in Nat /\ v < b
    BY <1>3 DEF Byte
  <2> QED
    BY <1>2, <2>1, <2>2
<1>5. host_read(m, at, 4) = x + y * b + z * w2 + w * w3
  <2>1. host_read(m, at, 4) = m[at] + m[at + 1] * Weight(1)
                              + m[at + 2] * Weight(2) + m[at + 3] * Weight(3)
    BY <1>4, ReadSums
  <2> QED
    BY <1>3, <1>4, <2>1
<1>6. CASE len = 1
  <2>1. PICK d \in Nat : d = Digit(data, 0) /\ d = data % b
    <3>1. Digit(data, 0) \in Nat /\ Digit(data, 0) = data % Weight(1)
      BY DigitIsByte, Digits
    <3> QED
      BY <1>3, <3>1
  <2>2. t[at] = d /\ t[at + 1] = y /\ t[at + 2] = z /\ t[at + 3] = w
    BY <1>1, <1>2, <1>4, <1>6, <2>1
  <2>3. host_read(t, at, 4) = d + y * b + z * w2 + w * w3
    BY <1>3, <1>4, <2>2, ReadSums
  <2>4. x + y * b + z * w2 + w * w3 = b * (y + z * b + w * w2) + x
    BY <1>3, <1>4, SMTT(30)
  <2>5. y + z * b + w * w2 \in Nat
    BY <1>3, <1>4, ProductIsNat
  <2>6. (x + y * b + z * w2 + w * w3) \div b = y + z * b + w * w2
    <3>1. (b * (y + z * b + w * w2) + x) \div b = y + z * b + w * w2
      BY <1>4, <2>5, DivUnique
    <3> QED
      BY <2>4, <3>1, Zenon
  <2>7. (y + z * b + w * w2) * b + d = d + y * b + z * w2 + w * w3
    BY <1>3, <1>4, <2>1, SMTT(30)
  <2> QED
    BY <1>3, <1>5, <1>6, <2>1, <2>3, <2>6, <2>7 DEF t
<1>7. CASE len = 2
  <2>1. PICK d \in Nat, e \in Nat : /\ d = Digit(data, 0) /\ e = Digit(data, 1)
                                    /\ data % w2 = e * b + d
    <3>1. /\ Digit(data, 0) \in Nat /\ Digit(data, 0) = data % Weight(1)
          /\ Digit(data, 1) \in Nat
          /\ data % Weight(2) = Digit(data, 1) * Weight(1) + (data % Weight(1))
      BY DigitIsByte, Digits
    <3> QED
      BY <1>3, <3>1
  <2>2. t[at] = d /\ t[at + 1] = e /\ t[at + 2] = z /\ t[at + 3] = w
    BY <1>1, <1>2, <1>4, <1>7, <2>1
  <2>3. host_read(t, at, 4) = d + e * b + z * w2 + w * w3
    BY <1>3, <1>4, <2>1, <2>2, ReadSums
  <2>4. x + y * b + z * w2 + w * w3 = w2 * (z + w * b) + (x + y * b)
    BY <1>3, <1>4, SMTT(30)
  <2>5. z + w * b \in Nat /\ x + y * b \in Nat /\ x + y * b < w2
    BY <1>3, <1>4, SMTT(30)
  <2>6. (x + y * b + z * w2 + w * w3) \div w2 = z + w * b
    <3>1. w2 \in Nat \ {0}
      BY <1>3
    <3>2. (w2 * (z + w * b) + (x + y * b)) \div w2 = z + w * b
      BY <2>5, <3>1, DivUnique
    <3> QED
      BY <2>4, <3>2, Zenon
  <2>7. (z + w * b) * w2 + (e * b + d) = d + e * b + z * w2 + w * w3
    BY <1>3, <1>4, <2>1, SMTT(30)
  <2> QED
    BY <1>3, <1>5, <1>7, <2>1, <2>3, <2>6, <2>7 DEF t
<1>8. CASE len = 4
  <2>1. host_read(t, at, 4) = data % Weight(4)
    BY <1>8, ReadWritten DEF t, Lens
  <2>2. host_read(m, at, 4) \in Nat /\ host_read(m, at, 4) < Weight(4)
    BY ReadBounds, WeightFacts DEF Lens
  <2>3. Weight(4) \in Nat \ {0} /\ data % Weight(4) \in Nat
    BY WeightFacts, DivMod
  <2>4. host_read(m, at, 4) \div Weight(4) = 0
    BY <2>2, <2>3, SMT
  <2> QED
    BY <1>8, <2>1, <2>3, <2>4 DEF t
<1> QED
  BY <1>6, <1>7, <1>8 DEF Lens

\* Arrays of bytes stay arrays of bytes.
LEMMA WriteIsBytes ==
  ASSUME NEW X \in SUBSET Int, NEW m \in [X -> Byte], NEW at \in Int, NEW len \in Lens, NEW data \in Nat
  PROVE  host_write(m, at, len, data) \in [X -> Byte]
<1>1. ASSUME NEW x \in X, x \in at..(at + len - 1)
      PROVE  (data \div Weight(x - at)) % BYTE \in Byte
  <2>1. x - at \in 0..3
    BY <1>1 DEF Lens
  <2> QED
    BY <2>1, DigitIsByte DEF Digit
<1> QED
  BY <1>1 DEF host_write
=============================================================================
