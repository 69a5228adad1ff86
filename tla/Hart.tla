-------------------------------- MODULE Hart --------------------------------
(***************************************************************************)
(* One guest instruction: isa_exec_once and decode_exec, src/cpu/inst.c,   *)
(* with the pattern rules of cpu.h.  Words are unsigned and WIDTH bits     *)
(* wide, as word_t is; an instruction word is a record of its fields.  Any *)
(* instruction may be found at pc.  How the loop goes on after a trap is   *)
(* module Engine's business, devices are module Devices'.                  *)
(***************************************************************************)
EXTENDS HostMem, Bits, Sequences

CONSTANTS
  Regs,            \* the registers in use
  Asm, Junk,       \* the instructions found, and words that are none
  MSIZE,           \* bytes of memory, from address 0
  Starts,          \* where the machine may stand: records gpr, mem, pc
  MaxSteps         \* bound

M == Pow2[WIDTH]

VARIABLES
  gpr, pc, mem,    \* cpu.gpr, cpu.pc, pmem
  access,          \* the guest's access to the bus in this instruction
  state,           \* "run"; END with halt_ret; ABORT; died, no device is
                   \*   there; wild, an access has run past the end of pmem
  inst, n          \* history: the instruction in assembly, how many executed

vars == <<gpr, pc, mem, access, state, inst, n>>

Abstract == INSTANCE Isa WITH x <- [r \in Regs \ {0} |->
  IF gpr[r] >= M \div 2 THEN gpr[r] - M ELSE gpr[r]]

ASSUME HartAssumption ==
  /\ WIDTH \in {16, 32} /\ BYTE = Pow2[WIDTH \div 4]
  /\ {0, 10} \subseteq Regs /\ Regs \subseteq 0..31
  /\ MSIZE \in Nat /\ MaxSteps \in Nat
  /\ \A s \in Starts : /\ s.gpr \in [Regs -> Word] /\ s.gpr[0] = 0
                       /\ s.mem \in [0..(MSIZE - 1) -> Byte] /\ s.pc \in Word
  /\ \A a \in Asm : Abstract!WellFormed(a)
  /\ \A k \in DOMAIN Junk : \A op \in DOMAIN Abstract!Code : ~ Abstract!Fits(op, Junk[k])

Init ==
  /\ \E s \in Starts : gpr = s.gpr /\ mem = s.mem /\ pc = s.pc
  /\ access = <<>> /\ state = <<"run">> /\ inst = <<>> /\ n = 0

\* (int) v, and SEXT(v, len).
sword(v) == IF v >= M \div 2 THEN v - M ELSE v
SEXT(v, len) == IF v >= Pow2[len - 1] THEN v - Pow2[len] ELSE v

\* Mutant: bit 7 of a branch is taken for bit 0 of its offset.
ImmBSwapped(i) == SEXT(i.f7 \div 64, 1) * 4096 + i.rd + (i.f7 % 64) * 32

immI(i) == SEXT(i.f7 * 32 + i.rs2, 12)
immU(i) == SEXT((i.f7 * 32 + i.rs2) * 256 + i.rs1 * 8 + i.f3, 20) * 4096
immS(i) == SEXT(i.f7, 7) * 32 + i.rd
immJ(i) == SEXT(i.f7 \div 64, 1) * 1048576 + (i.rs2 % 2) * 2048
           + ((i.f7 % 64) * 16 + i.rs2 \div 2) * 2 + (i.rs1 * 8 + i.f3) * 4096
immB(i) == SEXT(i.f7 \div 64, 1) * 4096 + (i.rd \div 2) * 2 + (i.f7 % 64) * 32
           + (i.rd % 2) * 2048

imm(type, i) == CASE type = "I" -> immI(i) [] type = "U" -> immU(i)
                  [] type = "S" -> immS(i) [] type = "J" -> immJ(i)
                  [] type = "B" -> immB(i) [] OTHER -> 0

\* A pattern: which fields match, the operand type, and the body's name, one
\* for the register and the immediate form.
Any == 0..127
P(f7, f3, op, name, type) == [f7 |-> f7, f3 |-> f3, op |-> op, name |-> name, type |-> type]

\* In the order of the source: the first pattern that matches is executed.
Patterns == <<
  P(Any, Any, 55, "lui", "U"),    P(Any, Any, 23, "auipc", "U"),
  P({0}, {0}, 51, "add", "R"),    P({32}, {0}, 51, "sub", "R"),
  P({0}, {7}, 51, "and", "R"),    P({0}, {4}, 51, "xor", "R"),
  P({0}, {6}, 51, "or", "R"),     P({0}, {3}, 51, "sltu", "R"),
  P({0}, {2}, 51, "slt", "R"),    P({0}, {5}, 51, "srl", "R"),
  P({32}, {5}, 51, "sra", "R"),   P({0}, {1}, 51, "sll", "R"),
  P(Any, Any, 111, "jal", "J"),   P(Any, {0}, 103, "jalr", "I"),
  P(Any, {0}, 19, "add", "I"),    P(Any, {7}, 19, "and", "I"),
  P(Any, {6}, 19, "or", "I"),     P(Any, {4}, 19, "xor", "I"),
  P(Any, {3}, 19, "sltu", "I"),   P(Any, {2}, 19, "slt", "I"),
  P(Any, {2}, 3, "lw", "I"),      P(Any, {4}, 3, "lbu", "I"),
  P(Any, {5}, 3, "lhu", "I"),     P(Any, {1}, 3, "lh", "I"),
  P(Any, {0}, 3, "lb", "I"),      P({0}, {1}, 19, "sll", "I"),
  P({0}, {5}, 19, "srl", "I"),    P({32, 33}, {5}, 19, "sra", "I"),
  P(Any, {0}, 35, "sb", "S"),     P(Any, {1}, 35, "sh", "S"),
  P(Any, {2}, 35, "sw", "S"),     P(Any, {0}, 99, "beq", "B"),
  P(Any, {1}, 99, "bne", "B"),    P(Any, {4}, 99, "blt", "B"),
  P(Any, {5}, 99, "bge", "B"),    P(Any, {6}, 99, "bltu", "B"),
  P(Any, {7}, 99, "bgeu", "B"),   P({0}, {0}, 115, "ebreak", "N") >>

INSTPAT(p, i) ==
  /\ i.op = p.op /\ i.f3 \in p.f3 /\ i.f7 \in p.f7
  /\ p.name = "ebreak" => i.rs2 = 1 /\ i.rs1 = 0 /\ i.rd = 0

Decode(i) ==
  LET hits == {k \in DOMAIN Patterns : INSTPAT(Patterns[k], i)}
  IN  IF hits = {} THEN P(Any, Any, Any, "inv", "N")
      ELSE Patterns[CHOOSE k \in hits : \A j \in hits : k <= j]

alu(a, b) ==
  LET sh == b % WIDTH     \* & 0x1f
      A == Bits(a)
      B == Bits(b)
  IN  [add |-> a + b, sub |-> a - b, and |-> FromBits(A \cap B), or |-> FromBits(A \cup B),
       xor |-> FromBits((A \ B) \cup (B \ A)),
       sltu |-> IF a < b THEN 1 ELSE 0, slt |-> IF sword(a) < sword(b) THEN 1 ELSE 0,
       srl |-> a \div Pow2[sh], sra |-> sword(a) \div Pow2[sh], sll |-> a * Pow2[sh]]

branch(a, b) ==
  [beq |-> a = b, bne |-> a # b, blt |-> sword(a) < sword(b),
   bge |-> sword(a) >= sword(b), bltu |-> a < b, bgeu |-> a >= b]

LoadLen == [lw |-> 4, lbu |-> 1, lhu |-> 2, lh |-> 2, lb |-> 1]
StoreLen == [sb |-> 1, sh |-> 2, sw |-> 4]

\* Mutant: register 0 keeps what an instruction wrote to it.
WriteAny(dest, v) == gpr' = [gpr EXCEPT ![dest] = v % M]

\* R(dest) = v, and at the end of decode_exec R(0) = 0.
Write(dest, v) == gpr' = [gpr EXCEPT ![dest] = v % M, ![0] = 0]

NoAccess == access' = <<>> /\ UNCHANGED <<mem, state>>

\* Only the first byte of an access is compared with the memory's bounds.
Beyond(addr) == IF addr < MSIZE THEN <<"wild">> ELSE <<"died">>

\* The body of pattern p for the word i.  src1 and src2 were read before it.
Execute(p, i) ==
  LET src1 == gpr[i.rs1]
      src2 == gpr[i.rs2]
      im == imm(p.type, i) % M
      addr == (src1 + im) % M
      snpc == (pc + 4) % M
  IN
  \/ /\ p.name \in DOMAIN alu(0, 0)
     /\ Write(i.rd, alu(src1, IF p.type = "R" THEN src2 ELSE im)[p.name])
     /\ pc' = snpc /\ NoAccess
  \/ p.name = "lui" /\ Write(i.rd, im) /\ pc' = snpc /\ NoAccess
  \/ p.name = "auipc" /\ Write(i.rd, pc + im) /\ pc' = snpc /\ NoAccess
  \/ p.name = "jal" /\ pc' = (pc + im) % M /\ Write(i.rd, snpc) /\ NoAccess
  \/ p.name = "jalr" /\ pc' = addr /\ Write(i.rd, snpc) /\ NoAccess
  \/ /\ p.type = "B" /\ UNCHANGED gpr /\ NoAccess
     /\ pc' = IF branch(src1, src2)[p.name] THEN (pc + im) % M ELSE snpc
  \/ /\ p.name \in DOMAIN LoadLen
     /\ LET len == LoadLen[p.name] IN
          /\ addr + len <= MSIZE
          /\ LET v == host_read(mem, addr, len)
             IN  Write(i.rd, IF p.name \in {"lh", "lb"} THEN SEXT(v, len * (WIDTH \div 4)) ELSE v)
          /\ access' = <<"read", addr, len>>
     /\ pc' = snpc /\ UNCHANGED <<mem, state>>
  \/ /\ p.name \in DOMAIN StoreLen
     /\ LET len == StoreLen[p.name] IN
          /\ addr + len <= MSIZE
          /\ mem' = host_write(mem, addr, len, src2)
          /\ access' = <<"write", addr, len>>
     /\ pc' = snpc /\ UNCHANGED <<gpr, state>>
  \/ /\ \/ p.name \in DOMAIN LoadLen /\ addr + LoadLen[p.name] > MSIZE
        \/ p.name \in DOMAIN StoreLen /\ addr + StoreLen[p.name] > MSIZE
     /\ state' = Beyond(addr) /\ access' = <<>> /\ UNCHANGED <<gpr, mem, pc>>
  \/ /\ p.type = "N" /\ pc' = snpc /\ access' = <<>> /\ UNCHANGED <<gpr, mem>>
     /\ state' = IF p.name = "ebreak" THEN <<"END", sword(gpr[10])>> ELSE <<"ABORT">>

\* isa_exec_once, and exec_once's cpu.pc = dnpc.
ExecOnce ==
  /\ state = <<"run">> /\ n < MaxSteps /\ n' = n + 1
  /\ \E a \in Asm : /\ inst' = a
                    /\ LET i == Abstract!Encode(a) IN Execute(Decode(i), i)

Spec == Init /\ [][ExecOnce]_vars
-----------------------------------------------------------------------------
\* Every register holds a word, and register 0 holds 0 between instructions,
\* whatever its writes: inst.c:130.
TypeOK ==
  /\ gpr \in [Regs -> Word] /\ gpr[0] = 0 /\ pc \in Word
  /\ mem \in [0..(MSIZE - 1) -> Byte] /\ n \in 0..MaxSteps
  /\ Head(state) \in {"run", "END", "ABORT", "died", "wild"}

\* Refinement: decoding the fields of a word, with unsigned registers of which
\* register 0 is one, does what the instruction means on signed integers.
ImplementsIsa == [][Abstract!Next]_(Abstract!vars)
=============================================================================
