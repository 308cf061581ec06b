---------------------------- MODULE ExprMeaning ---------------------------
(***************************************************************************)
(* What an expression means, from the grammar in the head of exparser.c    *)
(* (exparser.c:34-77) rather than from the parser: expressions as trees,   *)
(* the text of a tree with no more brackets than the grammar needs, and    *)
(* the value, the errors and the assignments of a tree.  An environment    *)
(* holds at most MaxSymbols names; a name it does not hold reads 0.        *)
(* What an operator computes is said here again, by the bits of a word and *)
(* by equations, so that it can be compared with what the parser computes. *)
(***************************************************************************)
EXTENDS ExprParser, SequencesExt

Num(n) == [kind |-> "number", number |-> n]
Var(s) == [kind |-> "name", name |-> s]
Set(s, e) == [kind |-> "assign", name |-> s, arg |-> e]
Un(op, e) == [kind |-> "unary", op |-> op, arg |-> e]
Bin(op, l, r) == [kind |-> "binary", op |-> op, left |-> l, right |-> r]
Fun(s, args) == [kind |-> "call", name |-> s, args |-> args]

\* The nonterminal of the grammar a tree is an instance of.
Level(e) ==
    CASE e.kind = "assign" -> "list"
      [] e.kind = "binary" /\ e.op \in SumOps -> "expression"
      [] e.kind = "binary" /\ e.op \in TermOps -> "term"
      [] OTHER -> "primary"

\* What may stand where a nonterminal is expected without brackets.
Fits(e, where) ==
    CASE where = "expression" -> Level(e) # "list"
      [] where = "term" -> Level(e) \in {"term", "primary"}
      [] where = "primary" -> Level(e) = "primary"
      [] OTHER -> TRUE

RECURSIVE TextOf(_, _)
TextOf(e, where) ==
    LET body ==
          CASE e.kind = "number" -> <<Number(e.number)>>
            [] e.kind = "name" -> <<Name(e.name)>>
            [] e.kind = "assign" -> <<Name(e.name), Token("=")>> \o TextOf(e.arg, "expression")
            [] e.kind = "unary" -> <<Token(e.op)>> \o TextOf(e.arg, "primary")
            [] e.kind = "binary" ->
                  TextOf(e.left, Level(e)) \o <<Token(e.op)>>
                    \o TextOf(e.right, IF Level(e) = "expression" THEN "term" ELSE "primary")
            [] e.kind = "call" ->
                  <<Name(e.name), Token("(")>>
                    \o FlattenSeq([i \in 1 .. Len(e.args) |->
                          TextOf(e.args[i], "expression")
                            \o <<Token(IF i = Len(e.args) THEN ")" ELSE ",")>>])
    IN  IF Fits(e, where) THEN body ELSE <<Token("(")>> \o body \o <<Token(")")>>

\* A list of expressions with a ";" between them.
ListText(es) ==
    FlattenSeq([i \in 1 .. Len(es) |->
        TextOf(es[i], "list") \o (IF i < Len(es) THEN <<Token(";")>> ELSE <<>>)])
-----------------------------------------------------------------------------
\* The bits from one number to the other, whichever is the higher, the first
\* at most the highest bit and the second at least bit 0.
MaskBits(a, b) ==
    LET s == IF a < Bits THEN a ELSE Bits - 1
        e == IF b > 0 THEN b ELSE 0
    IN  {i \in 0 .. Bits - 1 : (s <= i /\ i <= e) \/ (e <= i /\ i <= s)}
WithBits(S) == FoldSet(LAMBDA i, sum : sum + 2 ^ i, 0, S)
BitsOf(w) == {i \in 0 .. Bits - 1 : (w \div 2 ^ i) % 2 = 1}

\* The word an unsigned result wraps around to, and the number that a word
\* is in two's complement: its highest bit counts against the others.
Congruent(x) == CHOOSE w \in Word : (x - w) % 2 ^ Bits = 0
TwosComplement(w) ==
    WithBits(BitsOf(w) \ {Bits - 1}) - (IF Bits - 1 \in BitsOf(w) THEN 2 ^ (Bits - 1) ELSE 0)

\* What an operator means, for a divisor other than 0.  A shift by the width
\* or more is undefined in C; here, too, its count is taken modulo the width.
Operated(op, a, b) ==
    LET n == b % Bits
        quotient == CHOOSE q \in Word : q * b <= a /\ a < (q + 1) * b
    IN  CASE op = "+"  -> Congruent(a + b)
          [] op = "-"  -> Congruent(a - b)
          [] op = "*"  -> Congruent(a * b)
          [] op = "/"  -> quotient
          [] op = "%"  -> a - quotient * b
          [] op = "&"  -> WithBits(BitsOf(a) \cap BitsOf(b))
          [] op = "|"  -> WithBits(BitsOf(a) \cup BitsOf(b))
          [] op = "^"  -> WithBits((BitsOf(a) \cup BitsOf(b)) \ (BitsOf(a) \cap BitsOf(b)))
          [] op = "<<" -> WithBits({i \in n .. Bits - 1 : i - n \in BitsOf(a)})
          [] op = ">>" -> WithBits({i \in 0 .. Bits - 1 : i + n \in BitsOf(a)})
          [] OTHER ->
                LET holds == CASE op = "==" -> a = b    [] op = "!=" -> a # b
                               [] op = ">"  -> a > b    [] op = "<=" -> ~ (a > b)
                               [] op = "<"  -> a < b    [] op = ">=" -> ~ (a < b)
                               [] op = "||" -> BitsOf(a) \cup BitsOf(b) # {}
                               [] op = "&&" -> BitsOf(a) # {} /\ BitsOf(b) # {}
                IN  IF holds THEN 1 ELSE 0

Assigned(env, name, x) ==
    IF name \in DOMAIN env \/ Cardinality(DOMAIN env) < MaxSymbols
        THEN [n \in DOMAIN env \cup {name} |-> IF n = name THEN x ELSE env[n]] ELSE env

RECURSIVE Meaning(_, _)
Meaning(e, m) ==
    CASE e.kind = "number" -> [m EXCEPT !.v = e.number]
      [] e.kind = "name" -> [m EXCEPT !.v = IF e.name \in DOMAIN m.env THEN m.env[e.name] ELSE 0]
      [] e.kind = "assign" ->
            LET a == Meaning(e.arg, m) IN [a EXCEPT !.env = Assigned(@, e.name, a.v)]
      [] e.kind = "unary" ->
            LET a == Meaning(e.arg, m)
            IN  [a EXCEPT !.v = CASE e.op = "-" -> Congruent(0 - @)
                                  [] e.op = "+" -> @
                                  [] e.op = "~" -> WithBits(0 .. Bits - 1 \ BitsOf(@))
                                  [] e.op = "!" -> IF BitsOf(@) = {} THEN 1 ELSE 0]
      [] e.kind = "binary" ->
            LET l == Meaning(e.left, m)
                r == Meaning(e.right, l)
                zero == r.v = 0
            IN  CASE e.op = "/" /\ zero -> [r EXCEPT !.errors = @ + 1, !.v = 0]
                  [] e.op = "%" /\ zero -> [r EXCEPT !.trap = TRUE, !.v = 0]
                  [] OTHER -> [r EXCEPT !.v = Operated(e.op, l.v, r.v)]
      [] e.kind = "call" /\ e.name = "abs" ->
            LET a == Meaning(e.args[1], m)
            IN  [a EXCEPT !.v = IF TwosComplement(@) < 0 THEN Congruent(0 - @) ELSE @]
      [] e.kind = "call" /\ e.name = "mask" ->
            LET a == Meaning(e.args[1], m)
                b == Meaning(e.args[2], a)
            IN  [b EXCEPT !.v = WithBits(MaskBits(TwosComplement(a.v), TwosComplement(b.v)))]

\* The meaning of a list: that of its last expression after the others.
ListMeaning(es, env) ==
    FoldLeft(LAMBDA m, e : Meaning(e, m), [env |-> env, errors |-> 0, trap |-> FALSE, v |-> 0], es)
=============================================================================
