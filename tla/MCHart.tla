------------------------------- MODULE MCHart -------------------------------
(***************************************************************************)
(* Hart with words of 16 bits and bytes of 4: every instruction, with each *)
(* register as source and destination, immediates at the ends of their     *)
(* ranges and in each of their scattered fields, two in a row, from        *)
(* registers at the edges of signed and unsigned.                          *)
(***************************************************************************)
EXTENDS Hart

I(ops, rds, rs1s, rs2s, imms) ==
  [op : ops, rd : rds, rs1 : rs1s, rs2 : rs2s, imm : imms]

MCAsm ==
  I({"add", "sub", "and", "xor", "or", "sltu", "slt", "srl", "sra", "sll"},
    {0, 10}, {1, 10}, {1, 10}, {0})
  \cup I({"addi", "andi", "ori", "xori", "sltiu", "slti"}, {10}, {1}, {0}, {-2048, -1, 2047})
  \cup I({"slli", "srli", "srai"}, {1}, {1, 10}, {0}, {0, 5, 15})
  \cup I({"srai"}, {1}, {1}, {0}, {34})
  \cup I({"lui", "auipc"}, {0, 1}, {0}, {0}, {4096, -4096, 524271 * 4096})
  \cup I({"jal"}, {0, 1}, {0}, {0}, {-4, 2, 2048, 4096, 1048574, -1048576})
  \cup I({"jalr"}, {0, 1}, {1}, {0}, {-4, 3})
  \cup I({"lb", "lbu", "lh", "lhu", "lw"}, {0, 1}, {0, 10}, {0}, {0, 3, 6})
  \cup I({"sb", "sh", "sw"}, {0}, {0, 10}, {1}, {0, 5})
  \cup I({"beq", "bne", "blt", "bge", "bltu", "bgeu"}, {0}, {1}, {1, 10}, {2048, -4096, 1032})
  \cup I({"ebreak"}, {0}, {0}, {0}, {1})
  \cup I({"junk"}, {0}, {0}, {0}, 1..5)

\* mul, ecall, mret, a shift by 33 and a word of zeros.
W(f7, rs2, rs1, f3, rd, op) ==
  [f7 |-> f7, rs2 |-> rs2, rs1 |-> rs1, f3 |-> f3, rd |-> rd, op |-> op]
MCJunk == <<W(1, 1, 1, 0, 1, 51), W(0, 0, 0, 0, 0, 115), W(24, 2, 0, 0, 0, 115),
            W(1, 1, 1, 5, 1, 19), W(0, 0, 0, 0, 0, 0)>>

Start(a, b, p) == [gpr |-> [r \in Regs |-> CASE r = 0 -> 0 [] r = 1 -> a [] OTHER -> b],
                   mem |-> [k \in 0..(MSIZE - 1) |-> (15 - 3 * k) % BYTE], pc |-> p]
MCStarts == {Start(M - 1, 2, 0), Start(M \div 2, (M \div 2) - 1, M - 4), Start(5, M - 3, 8)}
=============================================================================
