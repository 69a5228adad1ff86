-------------------------------- MODULE Expr --------------------------------
(***************************************************************************)
(* The debugger's expressions, src/monitor/idb/expr.c: make_token fills    *)
(* the array tokens, then parse_exp and get_leftblock evaluate while they  *)
(* parse (precedence climbing), so memory is read before it is known       *)
(* whether the rest of the expression parses.                              *)
(*                                                                         *)
(* The state is what make_token has left behind for a line that a user is  *)
(* writing; an expression is a sequence of lexemes, the tokens of module   *)
(* ExprGrammar plus BLANK and BAD (matched by no rule, or too long).       *)
(***************************************************************************)
EXTENDS ExprGrammar

CONSTANTS
  Lexemes,     \* what a user may type next
  MaxTyped,    \* bound: lexemes in an arbitrary line
  MaxExpanded  \* bound: lexemes in a line that grows by the grammar

ASSUME ExprAssumption ==
  /\ WIDTH \in Nat \ {0}
  /\ DOMAIN Gpr \subseteq Nat /\ 0 \in DOMAIN Gpr
  /\ MaxTyped \in Nat /\ MaxExpanded \in Nat

VARIABLES
  input,      \* the expression
  tokens,     \* tokens[], with what earlier expressions left in it
  nr_token,
  refused     \* make_token returned an error

vars == <<input, tokens, nr_token, refused>>

Spelled(type) == [type |-> type, text |-> 0, len |-> 1]
Number(type, v) == [type |-> type, text |-> v, len |-> 1]

\* Mutant: nr_token is not reset before a new expression.
MakeTokenAppending(e) ==
  LET toks == SelectSeq(e, LAMBDA x : x.type # "BLANK")
  IN  /\ nr_token' = nr_token + Len(toks)
      /\ refused' = FALSE
      /\ UNCHANGED tokens

\* Everything up to the first BAD becomes a token, blanks excepted.
make_token(e) ==
  LET bad  == {i \in DOMAIN e : e[i].type = "BAD"}
      good == IF bad = {} THEN e
              ELSE SubSeq(e, 1, (CHOOSE i \in bad : \A j \in bad : i <= j) - 1)
      toks == SelectSeq(good, LAMBDA x : x.type # "BLANK")
  IN  /\ nr_token' = Len(toks)
      /\ tokens' = [i \in DOMAIN tokens |->
                      IF i < Len(toks) THEN toks[i + 1] ELSE tokens[i]]
      /\ refused' = (bad # {})

\* tokens[] is zeroed at first; a token of type 0 has none of the types.
Init ==
  /\ input = <<>>
  /\ tokens = [i \in 0..(MaxTyped + MaxExpanded) |-> Spelled("")]
  /\ nr_token = 0
  /\ refused = FALSE

-----------------------------------------------------------------------------

Priority(type) ==
  CASE type \in {"-", "+"}   -> 5
    [] type \in {"*", "/"}   -> 6
    [] type \in {"!=", "=="} -> 4
    [] type = "&&"           -> 3
    [] type = "||"           -> 2
    [] OTHER                 -> 0

\* An outcome that also says where the parser stands.
At(r, endpos) == [status |-> r.status, val |-> r.val, reads |-> r.reads,
                  endpos |-> endpos]

Error(reads) == At(Stop("error", reads), 0)

\* CHK_NOTEND: there is a token after begin.
NotEnd(begin) == begin + 1 # nr_token

\* The registers, with and without the $ that is part of register 0's name.
parse_reg(begin, reads) ==
  LET skip == IF tokens[begin + 1].type = "$" THEN begin + 1 ELSE begin
      name == tokens[skip + 1]
  IN  IF ~NotEnd(begin) \/ ~NotEnd(skip) THEN Error(reads)
      ELSE IF name.type = "DEC" /\ name.text = 0 /\ name.len = 1
      THEN At(Value(Gpr[0], reads), skip + 2)
      ELSE IF skip = begin /\ name.type = "NAME" /\ name.text \in DOMAIN Gpr
      THEN At(Value(Gpr[name.text], reads), begin + 2)
      ELSE Error(reads)

\* res op tmp, in unsigned words; && and || have evaluated both sides.
Apply(type, res, tmp) ==
  IF tmp.status # "ok" THEN tmp
  ELSE IF type = "/" /\ tmp.val = 0 THEN Error(tmp.reads)
  ELSE [tmp EXCEPT !.val =
         CASE type = "+"  -> Narrow(res + tmp.val)
           [] type = "-"  -> Narrow(res + 2^WIDTH - tmp.val)
           [] type = "/"  -> res \div tmp.val
           [] type = "*"  -> Narrow(res * tmp.val)
           [] type = "!=" -> IF res = tmp.val THEN 0 ELSE 1
           [] type = "==" -> IF res = tmp.val THEN 1 ELSE 0
           [] type = "&&" -> IF res = 0 \/ tmp.val = 0 THEN 0 ELSE 1
           [] type = "||" -> IF res = 0 /\ tmp.val = 0 THEN 0 ELSE 1]

RECURSIVE parse_exp(_, _, _)

RECURSIVE get_leftblock(_, _)
get_leftblock(begin, reads) ==
  LET type  == tokens[begin].type
      block == get_leftblock(begin + 1, reads)
      inner == parse_exp(begin + 1, 1, reads)
  IN
  IF begin = nr_token THEN Error(reads)
  ELSE CASE type \in {"HEX", "DEC"} ->
              At(Value(tokens[begin].text, reads), begin + 1)
         [] type = "$" -> parse_reg(begin, reads)
         [] type \in {"-", "*", "("} /\ ~NotEnd(begin) -> Error(reads)
         [] type = "-" /\ NotEnd(begin) ->
              IF block.status # "ok" THEN block
              ELSE [block EXCEPT !.val = Narrow(2^WIDTH - block.val)]
         [] type = "*" /\ NotEnd(begin) ->
              IF block.status # "ok" THEN block
              ELSE At(Load(block.val, block.reads), block.endpos)
         [] type = "(" /\ NotEnd(begin) ->
              IF inner.status # "ok" THEN inner
              ELSE IF NotEnd(inner.endpos - 1) /\ tokens[inner.endpos].type = ")"
              THEN [inner EXCEPT !.endpos = inner.endpos + 1]
              ELSE Error(inner.reads)
         [] OTHER -> Error(reads)

\* Mutant: an operator of the same priority is given to the right operand.
RECURSIVE ClimbRight(_, _)
ClimbRight(r, priority) ==
  IF r.status # "ok" \/ r.endpos >= nr_token THEN r
  ELSE LET type == tokens[r.endpos].type
           tmp  == parse_exp(r.endpos + 1, Priority(type) - 1, r.reads)
       IN  IF Priority(type) <= priority THEN r
           ELSE ClimbRight(Apply(type, r.val, tmp), priority)

\* The loop of parse_exp: as long as an operator binds tighter than priority.
RECURSIVE Climb(_, _)
Climb(r, priority) ==
  IF r.status # "ok" \/ r.endpos >= nr_token THEN r
  ELSE LET type == tokens[r.endpos].type
           tmp  == parse_exp(r.endpos + 1, Priority(type), r.reads)
       IN  IF Priority(type) <= priority THEN r
           ELSE Climb(Apply(type, r.val, tmp), priority)

parse_exp(begin, priority, reads) == Climb(get_leftblock(begin, reads), priority)

\* Mutant: the expression is evaluated once for its syntax, once for its value.
ExprTwice ==
  IF refused THEN Error(<<>>)
  ELSE LET r == parse_exp(0, 1, parse_exp(0, 1, <<>>).reads)
       IN  IF r.status = "ok" /\ r.endpos < nr_token THEN Error(r.reads) ELSE r

expr ==
  IF refused THEN Error(<<>>)
  ELSE LET r == parse_exp(0, 1, <<>>)
       IN  IF r.status = "ok" /\ r.endpos < nr_token THEN Error(r.reads) ELSE r

-----------------------------------------------------------------------------

\* The expression as the grammar sees it.
Meant == Meaning(SelectSeq(input, LAMBDA x : x.type # "BLANK"), <<>>)

WellFormed == ~refused /\ Meant.status # "illformed"

\* Any short line, lexeme by lexeme ...
Type ==
  /\ Len(input) < MaxTyped
  /\ \E x \in Lexemes : input' = Append(input, x)
  /\ make_token(input')

\* ... longer ones, an operand of which is replaced by an expression ...
Operand(x) == x.type = "HEX"

Expand ==
  /\ WellFormed
  /\ \E i \in {j \in DOMAIN input : Operand(input[j])} :
     \E by \in {<<input[i], op, Number("HEX", 3)>> :
                    op \in {y \in Lexemes : Priority(y.type) > 0}}
               \cup {<<Spelled(op), input[i]>> : op \in {"-", "*"}}
               \cup {<<Spelled("("), input[i], Spelled(")")>>} :
       input' = SubSeq(input, 1, i - 1) \o by \o SubSeq(input, i + 1, Len(input))
  /\ Len(input') <= MaxExpanded
  /\ make_token(input')

\* ... and the line without its last lexeme, which stays in tokens[].
Backspace ==
  /\ WellFormed
  /\ input' = SubSeq(input, 1, Len(input) - 1)
  /\ make_token(input')

Next == Type \/ Expand \/ Backspace

Spec == Init /\ [][Next]_vars

-----------------------------------------------------------------------------

\* Every variable has its type; nr_token stays within what was typed.
TypeOK ==
  /\ input \in Seq(Lexemes \cup {Spelled(t) : t \in {"-", "*", "(", ")"}})
  /\ nr_token \in 0..Len(input)
  /\ refused \in BOOLEAN

\* The parser accepts exactly the grammar and computes the grammar's value,
\* whatever tokens earlier expressions left behind; what the grammar rejects
\* never yields a value (expr).
ExprValue ==
  IF WellFormed
  THEN expr.status = Meant.status /\ expr.val = Meant.val
  ELSE expr.status # "ok"

\* Evaluating a well-formed expression reads memory exactly where the grammar
\* dereferences, once each and from left to right, up to the first error: a
\* read of a device port takes something away from the guest (parse_mem).
ExprReads ==
  WellFormed => expr.reads = Meant.reads
=============================================================================
