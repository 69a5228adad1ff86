---------------------------- MODULE ExprGrammar ----------------------------
(***************************************************************************)
(* The language of the debugger's expressions, and what an expression is   *)
(* worth, independently of how monitor/idb/expr.c parses: an expression is *)
(* split at the last of its loosest binary operators.  || is the loosest,  *)
(* then &&, then == and !=, then + and -, then * and /; a prefix - or *    *)
(* (dereference) binds tighter than any of them.                           *)
(*                                                                         *)
(* A token is [type, text, len]: type is its spelling if it has only one;  *)
(* text is a number's value or a name's register, len a number's length.   *)
(***************************************************************************)
EXTENDS Naturals, Sequences, FiniteSets

CONSTANTS
  WIDTH,      \* bits in a word (32 in the code)
  Gpr,        \* the register file; Gpr[0] is the register named "$0"
  Mapped,     \* the addresses that memory or a device answers
  Memory      \* Memory[<<a, k>>] is what the k-th read gets, if it reads a

Word == 0..(2^WIDTH - 1)

Narrow(x) == x % 2^WIDTH

\* The outcome of evaluating: a value, the reads made so far, in order; or
\* the way in which the evaluation ends early.
Value(v, reads) == [status |-> "ok", val |-> v, reads |-> reads]
Stop(status, reads) == [status |-> status, val |-> 0, reads |-> reads]

\* The k-th read may be of a device register, so it matters which one it is.
Load(a, reads) ==
  IF a \in Mapped
  THEN Value(Memory[<<a, Len(reads) + 1>>], Append(reads, a))
  ELSE Stop("crash", reads)

\* Binary operators, loosest first.
Levels == <<{"||"}, {"&&"}, {"==", "!="}, {"+", "-"}, {"*", "/"}>>

Truth(b) == IF b THEN 1 ELSE 0

Operation(op, a, b) ==
  CASE op = "||" -> Truth(a # 0 \/ b # 0)
    [] op = "&&" -> Truth(a # 0 /\ b # 0)
    [] op = "==" -> Truth(a = b)
    [] op = "!=" -> Truth(a # b)
    [] op = "+"  -> Narrow(a + b)
    [] op = "-"  -> Narrow(a + 2^WIDTH - b)
    [] op = "*"  -> Narrow(a * b)
    [] op = "/"  -> a \div b

\* Both operands are evaluated, left one first; either may be ill-formed.
Combine(op, a, b) ==
  IF b.status = "illformed" THEN b
  ELSE IF a.status # "ok" THEN a
  ELSE IF b.status # "ok" THEN b
  ELSE IF op = "/" /\ b.val = 0 THEN Stop("error", b.reads)
  ELSE Value(Operation(op, a.val, b.val), b.reads)

\* A word that names register 0: a single 0.
IsZero(token) == token.type = "DEC" /\ token.text = 0 /\ token.len = 1

RegisterValue(token, reads) ==
  IF IsZero(token) THEN Value(Gpr[0], reads)
  ELSE IF token.text \in DOMAIN Gpr THEN Value(Gpr[token.text], reads)
  ELSE Stop("error", reads)

\* What s is worth when it is evaluated after reads.
RECURSIVE Meaning(_, _)
Meaning(s, reads) ==
  LET n == Len(s)
      Count(t, k) == Cardinality({j \in 1..k : s[j].type = t})
      Splits(level) ==
        {k \in 2..n : /\ s[k].type \in level
                      /\ s[k - 1].type \in {"DEC", "HEX", "NAME", ")"}
                      /\ Count("(", k) = Count(")", k)}
      loosest == {l \in DOMAIN Levels :
                    Splits(Levels[l]) # {} /\
                    \A m \in 1..(l - 1) : Splits(Levels[m]) = {}}
      rest == Meaning(Tail(s), reads)
  IN
  IF n = 0 THEN Stop("illformed", reads)
  ELSE IF loosest # {} THEN
    LET splits == Splits(Levels[CHOOSE l \in loosest : TRUE])
        k == CHOOSE i \in splits : \A j \in splits : j <= i
        a == Meaning(SubSeq(s, 1, k - 1), reads)
    IN  IF a.status = "illformed" THEN a
        ELSE Combine(s[k].type, a, Meaning(SubSeq(s, k + 1, n), a.reads))
  ELSE CASE s[1].type \in {"DEC", "HEX"} /\ n = 1 -> Value(s[1].text, reads)
         [] s[1].type = "-" ->
              IF rest.status = "ok"
              THEN Value(Narrow(2^WIDTH - rest.val), rest.reads) ELSE rest
         [] s[1].type = "*" ->
              IF rest.status = "ok" THEN Load(rest.val, rest.reads) ELSE rest
         [] s[1].type = "(" /\ s[n].type = ")" ->
              Meaning(SubSeq(s, 2, n - 1), reads)
         [] s[1].type = "$" /\ n = 2 /\ (IsZero(s[2]) \/ s[2].type = "NAME") ->
              RegisterValue(s[2], reads)
         [] s[1].type = "$" /\ n = 3 /\ s[2].type = "$" /\ IsZero(s[3]) ->
              Value(Gpr[0], reads)
         [] OTHER -> Stop("illformed", reads)
=============================================================================
