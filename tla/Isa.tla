-------------------------------- MODULE Isa --------------------------------
(***************************************************************************)
(* RV32I as an assembly programmer sees it, for the instructions that      *)
(* decode_exec implements: x[r] is a signed integer, register 0 is no      *)
(* variable but reads 0, an instruction is a record of its mnemonic,       *)
(* registers and immediate, and Encode lays it out in a word.  Module Hart *)
(* implements this machine.                                                *)
(***************************************************************************)
EXTENDS HostMem, Bits

CONSTANTS Regs, Asm, Junk, MSIZE

VARIABLES x, pc, mem, access, inst, state

vars == <<x, pc, mem, access, inst, state>>

M == Pow2[WIDTH]
Int2(v) == IF v % M >= M \div 2 THEN (v % M) - M ELSE v % M
Truth(b) == IF b THEN 1 ELSE 0

\* Shifts move bits, the arithmetic one those above the word too.
Value(op, a, b) ==
  LET n == b % WIDTH
      AllBits == 0..(WIDTH - 1)
  IN
  CASE op = "add" -> a + b
    [] op = "sub" -> a - b
    [] op = "and" -> FromBits(Bits(a) \cap Bits(b))
    [] op = "or" -> FromBits(Bits(a) \cup Bits(b))
    [] op = "xor" -> FromBits({k \in AllBits : Bit(a, k) # Bit(b, k)})
    [] op = "slt" -> Truth(a < b)
    [] op = "sltu" -> Truth(a % M < b % M)
    [] op = "sll" -> FromBits({k \in AllBits : k >= n /\ Bit(a, k - n) = 1})
    [] op = "srl" -> FromBits({k \in AllBits : k + n < WIDTH /\ Bit(a, k + n) = 1})
    [] op = "sra" -> FromBits({k \in AllBits : Bit(a, k + n) = 1})

Taken(op, a, b) ==
  CASE op = "beq" -> a = b
    [] op = "bne" -> a # b
    [] op = "blt" -> a < b
    [] op = "bge" -> a >= b
    [] op = "bltu" -> a % M < b % M
    [] op = "bgeu" -> a % M >= b % M

\* Mnemonic: format, funct3, funct7 and opcode.  An "i" is an immediate form.
Code ==
  [add |-> <<"R", 0, 0, 51>>, sub |-> <<"R", 0, 32, 51>>, sll |-> <<"R", 1, 0, 51>>,
   slt |-> <<"R", 2, 0, 51>>, sltu |-> <<"R", 3, 0, 51>>, xor |-> <<"R", 4, 0, 51>>,
   srl |-> <<"R", 5, 0, 51>>, sra |-> <<"R", 5, 32, 51>>, or |-> <<"R", 6, 0, 51>>,
   and |-> <<"R", 7, 0, 51>>, addi |-> <<"I", 0, 0, 19>>, slti |-> <<"I", 2, 0, 19>>,
   sltiu |-> <<"I", 3, 0, 19>>, xori |-> <<"I", 4, 0, 19>>, ori |-> <<"I", 6, 0, 19>>,
   andi |-> <<"I", 7, 0, 19>>, slli |-> <<"H", 1, 0, 19>>, srli |-> <<"H", 5, 0, 19>>,
   srai |-> <<"H", 5, 32, 19>>, lb |-> <<"L", 0, 0, 3>>, lh |-> <<"L", 1, 0, 3>>,
   lw |-> <<"L", 2, 0, 3>>, lbu |-> <<"L", 4, 0, 3>>, lhu |-> <<"L", 5, 0, 3>>,
   sb |-> <<"S", 0, 0, 35>>, sh |-> <<"S", 1, 0, 35>>, sw |-> <<"S", 2, 0, 35>>,
   beq |-> <<"B", 0, 0, 99>>, bne |-> <<"B", 1, 0, 99>>, blt |-> <<"B", 4, 0, 99>>,
   bge |-> <<"B", 5, 0, 99>>, bltu |-> <<"B", 6, 0, 99>>, bgeu |-> <<"B", 7, 0, 99>>,
   jal |-> <<"J", 0, 0, 111>>, jalr |-> <<"L", 0, 0, 103>>, lui |-> <<"U", 0, 0, 55>>,
   auipc |-> <<"U", 0, 0, 23>>, ebreak |-> <<"L", 0, 0, 115>>]

Immediate == [addi |-> "add", slti |-> "slt", sltiu |-> "sltu", xori |-> "xor",
              ori |-> "or", andi |-> "and", slli |-> "sll", srli |-> "srl", srai |-> "sra"]

Sizes == [lb |-> 1, lbu |-> 1, lh |-> 2, lhu |-> 2, lw |-> 4, sb |-> 1, sh |-> 2, sw |-> 4]

\* The immediates that an instruction can hold; only srai may have a sixth bit.
Holds(op, v) ==
  LET f == Code[op][1]
      within(low, high) == low <= v /\ v <= high
  IN
  CASE f \in {"I", "L", "S"} -> within(-2048, 2047)
    [] f = "H" -> within(0, IF op = "srai" THEN 63 ELSE 31)
    [] f = "B" -> within(-4096, 4095) /\ v % 2 = 0
    [] f = "J" -> within(-1048576, 1048575) /\ v % 2 = 0
    [] f = "U" -> -524288 <= v \div 4096 /\ v \div 4096 <= 524287 /\ v % 4096 = 0
    [] f = "R" -> v = 0

\* An instruction as it is written, or the number of a word that is none.
WellFormed(a) ==
  \/ /\ a.op \in DOMAIN Code /\ a.imm \in Int /\ Holds(a.op, a.imm)
     /\ a.rd \in Regs /\ a.rs1 \in Regs /\ a.rs2 \in Regs
     /\ a.op = "ebreak" => a.rd = 0 /\ a.rs1 = 0 /\ a.imm = 1
  \/ a.op = "junk" /\ a.imm \in DOMAIN Junk

\* The word w is one that op is laid out in.
Fits(op, w) ==
  LET c == Code[op] IN
  /\ w.op = c[4] /\ (c[1] \in {"U", "J"} \/ w.f3 = c[2])
  /\ c[1] \in {"R", "H"} => w.f7 = c[3] \/ (op = "srai" /\ w.f7 = c[3] + 1)
  /\ op = "ebreak" => w.f7 = 0 /\ w.rs2 = 1 /\ w.rs1 = 0 /\ w.rd = 0

Field(v, hi, lo) == (v \div Pow2[lo]) % Pow2[hi - lo + 1]

Encode(a) ==
  IF a.op = "junk" THEN Junk[a.imm] ELSE
  LET c == Code[a.op]
      f(hi, lo) == Field(a.imm, hi, lo)
      word(f7, rs2, rs1, f3, rd) ==
        [f7 |-> f7, rs2 |-> rs2, rs1 |-> rs1, f3 |-> f3, rd |-> rd, op |-> c[4]]
  IN CASE c[1] = "R" -> word(c[3], a.rs2, a.rs1, c[2], a.rd)
       [] c[1] = "H" -> word(c[3] + f(5, 5), f(4, 0), a.rs1, c[2], a.rd)
       [] c[1] \in {"I", "L"} -> word(f(11, 5), f(4, 0), a.rs1, c[2], a.rd)
       [] c[1] = "S" -> word(f(11, 5), a.rs2, a.rs1, c[2], f(4, 0))
       [] c[1] = "B" -> word(64 * f(12, 12) + f(10, 5), a.rs2, a.rs1, c[2],
                             2 * f(4, 1) + f(11, 11))
       [] c[1] = "U" -> word(f(31, 25), f(24, 20), f(19, 15), f(14, 12), a.rd)
       [] c[1] = "J" -> word(64 * f(20, 20) + f(10, 5), 2 * f(4, 1) + f(11, 11),
                             f(19, 15), f(14, 12), a.rd)

Read(r) == IF r = 0 THEN 0 ELSE x[r]
Set(r, v) == x' = [q \in DOMAIN x |-> IF q = r THEN Int2(v) ELSE x[q]]
Goto(target) == pc' = target % M
Quiet == access' = <<>> /\ UNCHANGED <<mem, state>>
Address(a) == (Read(a.rs1) + a.imm) % M
Inside(a) == Address(a) + Sizes[a.op] <= MSIZE

Compute(a) ==
  /\ \/ a.op \in DOMAIN Immediate
        /\ Set(a.rd, Value(Immediate[a.op], Read(a.rs1), a.imm))
     \/ Code[a.op][1] = "R" /\ Set(a.rd, Value(a.op, Read(a.rs1), Read(a.rs2)))
     \/ a.op = "lui" /\ Set(a.rd, a.imm)
     \/ a.op = "auipc" /\ Set(a.rd, pc + a.imm)
  /\ Goto(pc + 4) /\ Quiet

\* jalr keeps its target's lowest bit.
Jump(a) ==
  /\ \/ a.op = "jal" /\ Goto(pc + a.imm) /\ Set(a.rd, pc + 4)
     \/ a.op = "jalr" /\ Goto(Read(a.rs1) + a.imm) /\ Set(a.rd, pc + 4)
     \/ /\ Code[a.op][1] = "B" /\ UNCHANGED x
        /\ Goto(IF Taken(a.op, Read(a.rs1), Read(a.rs2)) THEN pc + a.imm ELSE pc + 4)
  /\ Quiet

\* A load reads the bus even if its register is 0.
Load(a) ==
  /\ Code[a.op][4] = 3 /\ Inside(a)
  /\ LET v == host_read(mem, Address(a), Sizes[a.op])
         top == Weight(Sizes[a.op])
     IN  Set(a.rd, IF a.op \in {"lb", "lh"} /\ v >= top \div 2 THEN v - top ELSE v)
  /\ access' = <<"read", Address(a), Sizes[a.op]>>
  /\ Goto(pc + 4) /\ UNCHANGED <<mem, state>>

Store(a) ==
  /\ Code[a.op][1] = "S" /\ Inside(a)
  /\ mem' = host_write(mem, Address(a), Sizes[a.op], Read(a.rs2) % M)
  /\ access' = <<"write", Address(a), Sizes[a.op]>>
  /\ Goto(pc + 4) /\ UNCHANGED <<x, state>>

\* ebreak ends the program with a0 as its result; what cannot be decoded, or
\* lies outside the memory, ends it badly; nothing is promised of what begins
\* inside and leaves it.
Stop(a) ==
  /\ \/ a.op = "ebreak" /\ state' = <<"END", Read(10)>> /\ Goto(pc + 4)
     \/ a.op = "junk" /\ state' = <<"ABORT">> /\ Goto(pc + 4)
     \/ /\ a.op \in DOMAIN Sizes /\ ~ Inside(a) /\ pc' = pc
        /\ state' = IF Address(a) >= MSIZE THEN <<"died">> ELSE <<"wild">>
  /\ access' = <<>> /\ UNCHANGED <<x, mem>>

Step(a) == /\ state = <<"run">> /\ inst' = a
           /\ \/ a.op # "junk" /\ (Compute(a) \/ Jump(a) \/ Load(a) \/ Store(a))
              \/ Stop(a)

Next == \E a \in Asm : Step(a)
=============================================================================
