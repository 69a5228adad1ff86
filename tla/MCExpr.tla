------------------------------- MODULE MCExpr -------------------------------
(***************************************************************************)
(* Expr with words of 3 bits, three registers, and a memory where address  *)
(* 5 answers every read differently (a device port) and 6 and 7 do not     *)
(* answer.                                                                 *)
(***************************************************************************)
EXTENDS Expr

MCGpr == [r \in 0..2 |-> 2 * r]

MCMapped == 0..5

MCMemory ==
  [x \in MCMapped \X (1..9) |-> IF x[1] = 5 THEN x[2] % 8 ELSE (x[1] + 3) % 8]

\* "9" as a register name is one that no register has; 0 of length 2 is "00".
MCLexemes ==
  {Spelled(t) : t \in {"+", "-", "*", "/", "==", "!=", "&&", "||", "(", ")", "$",
                       "BLANK", "BAD"}} \cup
  {Number("DEC", 0), [type |-> "DEC", text |-> 0, len |-> 2],
   Number("HEX", 2), Number("HEX", 3), Number("NAME", 1), Number("NAME", 9)}
=============================================================================
