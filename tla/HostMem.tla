------------------------------ MODULE HostMem ------------------------------
(***************************************************************************)
(* Words in host memory, src/include/mainmem.h: a byte has BYTE values and *)
(* a word four bytes, the lowest first.  m is an array of bytes.           *)
(***************************************************************************)
EXTENDS Integers

CONSTANT BYTE   \* 256 in the code

ASSUME HostMemAssumption == BYTE \in Nat /\ BYTE > 1

\* BYTE^k for k <= 4, as products: the provers know no other powers.
Weight(k) == CASE k = 0 -> 1
               [] k = 1 -> BYTE
               [] k = 2 -> BYTE * BYTE
               [] k = 3 -> BYTE * BYTE * BYTE
               [] k = 4 -> BYTE * BYTE * BYTE * BYTE

Byte == 0..(BYTE - 1)
Word == 0..(Weight(4) - 1)
Lens == {1, 2, 4}   \* host_read and host_write assert(0) on any other

host_read(m, at, len) ==
  LET byte(k) == IF k < len THEN m[at + k] * Weight(k) ELSE 0
  IN  byte(0) + byte(1) + byte(2) + byte(3)

host_write(m, at, len, data) ==
  [x \in DOMAIN m |-> IF x \in at..(at + len - 1)
                      THEN (data \div Weight(x - at)) % BYTE ELSE m[x]]
=============================================================================
