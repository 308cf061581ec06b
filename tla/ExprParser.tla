---------------------------- MODULE ExprParser ----------------------------
(***************************************************************************)
(* The expression parser of exparser.c as a function on its state          *)
(* exp_pstat_t.  A text is a sequence of tokens: s_get_token drops white   *)
(* space and splits characters without reading anything else, so tokens    *)
(* are where the model starts.  A word has Lanes * LaneBits bits (eight    *)
(* bytes in the code).  The field v is what the last call returned, trap   *)
(* says that the process was killed by a division trap.                    *)
(***************************************************************************)
EXTENDS Integers, Sequences, FiniteSets, Bitwise

CONSTANTS Lanes, LaneBits,  \* 8 and 8 in the code
          MaxSymbols        \* EXP_MAX_MAPPED_SYMBOLS

ASSUME WidthAssumption == Lanes \in Nat \ {0} /\ LaneBits \in Nat \ {0}
ASSUME SymbolsAssumption == MaxSymbols \in Nat /\ MaxSymbols >= 2

Bits == Lanes * LaneBits
Address == [0 .. (2 * Lanes) - 1 -> 0 .. (2 ^ LaneBits - 1)]   \* struct in6_addr
Word == 0 .. (2 ^ Bits - 1)
Wrap(x) == x % 2 ^ Bits
\* The cast of an unsigned long long to long long.
Signed(x) == IF x < 2 ^ (Bits - 1) THEN x ELSE x - 2 ^ Bits
Truth(b) == IF b THEN 1 ELSE 0

Token(tok) == [tok |-> tok, number |-> 0, name |-> ""]
Number(n) == [Token("NUMBER") EXCEPT !.number = n]
Name(s) == [Token("NAME") EXCEPT !.name = s]

\* exp_pstat_t after memset(): nothing read, no name mapped.
Cleared ==
    [input |-> <<>>, curr_tok |-> "NAME", number_value |-> 0, string_value |-> "", map |-> <<>>,
     errors |-> 0, result |-> 0, v |-> 0, trap |-> FALSE]

Gives(p, x) == [p EXCEPT !.v = x]
Error(p) == [p EXCEPT !.errors = @ + 1, !.v = 0]
-----------------------------------------------------------------------------
Slots(p, name) == {i \in 1 .. Len(p.map) : p.map[i].name = name}

exp_get_mapped_value(p, name) ==
    IF Slots(p, name) = {} THEN 0 ELSE p.map[CHOOSE i \in Slots(p, name) : TRUE].value

\* A name known is overwritten, a new one takes a free slot, and with no free
\* slot the assignment is lost.
HasRoomLate(p) == Len(p.map) <= MaxSymbols
HasRoom(p) == Len(p.map) < MaxSymbols
exp_set_mapped_value(p, name, x) ==
    CASE Slots(p, name) # {} ->
            [p EXCEPT !.map = [i \in DOMAIN @ |->
                IF i \in Slots(p, name) THEN [@[i] EXCEPT !.value = x] ELSE @[i]]]
      [] Slots(p, name) = {} /\ HasRoom(p) ->
            [p EXCEPT !.map = Append(@, [name |-> name, value |-> x])]
      [] OTHER -> p

\* A character that starts no token counts as an error and reads as a ";".
s_get_token(p) ==
    IF p.input = <<>> THEN [p EXCEPT !.curr_tok = "END"]
    ELSE LET t == Head(p.input)
             q == [p EXCEPT !.input = Tail(@), !.curr_tok = t.tok]
         IN  CASE t.tok = "NUMBER" -> [q EXCEPT !.number_value = t.number]
               [] t.tok = "NAME" -> [q EXCEPT !.string_value = t.name]
               [] t.tok = "BAD" -> [q EXCEPT !.curr_tok = ";", !.errors = @ + 1]
               [] OTHER -> q
-----------------------------------------------------------------------------
\* The operators s_term knows, all of one precedence, and what each computes.
\* A shift takes its count modulo the width, as the processor does.
TermOps == {"&", "|", "*", "/", ">>", "<<", "%", "^", "==", "!=", ">", "<", ">=", "<=", "||", "&&"}
SumOps == {"+", "-"}

Computed(op, a, b) ==
    CASE op = "+"  -> Wrap(a + b)
      [] op = "-"  -> Wrap(a - b)
      [] op = "&"  -> a & b
      [] op = "|"  -> a | b
      [] op = "^"  -> a ^^ b
      [] op = "*"  -> Wrap(a * b)
      [] op = "/"  -> a \div b
      [] op = "%"  -> a % b
      [] op = ">>" -> a \div 2 ^ (b % Bits)
      [] op = "<<" -> Wrap(a * 2 ^ (b % Bits))
      [] op = "==" -> Truth(a = b)
      [] op = "!=" -> Truth(a # b)
      [] op = ">"  -> Truth(a > b)
      [] op = "<"  -> Truth(a < b)
      [] op = ">=" -> Truth(a >= b)
      [] op = "<=" -> Truth(a <= b)
      [] op = "||" -> Truth(a # 0 \/ b # 0)
      [] op = "&&" -> Truth(a # 0 /\ b # 0)

\* r is the state after the right operand.  "/" checks its operand, "%" does not.
Combined(op, a, r) ==
    CASE op = "/" /\ r.v = 0 -> Error(r)
      [] op = "%" /\ r.v = 0 -> [r EXCEPT !.trap = TRUE, !.v = 0]
      [] OTHER -> Gives(r, Computed(op, a, r.v))

\* The bytes of mask(), from the highest down, until the one endbit is in.
Ones == 2 ^ LaneBits - 1
LaneOf(bit, lane) == bit >= lane * LaneBits /\ bit < (lane + 1) * LaneBits
UpTo(startbit, lane) ==
    CASE LaneOf(startbit, lane) -> Ones \div 2 ^ ((lane + 1) * LaneBits - 1 - startbit)
      [] startbit >= (lane + 1) * LaneBits -> Ones
      [] OTHER -> 0
Below(endbit, lane) == Ones \div 2 ^ ((lane + 1) * LaneBits - endbit)

RECURSIVE MaskFrom(_, _, _)
MaskFrom(startbit, endbit, lane) ==
    LET byte == UpTo(startbit, lane)
        unit == 2 ^ (lane * LaneBits)
    IN  CASE LaneOf(endbit, lane) -> unit * (byte & (Ones - Below(endbit, lane)))
          [] ~LaneOf(endbit, lane) /\ lane = 0 -> unit * byte
          [] OTHER -> unit * byte + MaskFrom(startbit, endbit, lane - 1)

Masked(startbit, endbit) ==
    LET s == IF startbit > Bits - 1 THEN Bits - 1 ELSE startbit
        e == IF endbit < 0 THEN 0 ELSE endbit
    IN  IF e > s THEN MaskFrom(e, s, Lanes - 1) ELSE MaskFrom(s, e, Lanes - 1)
-----------------------------------------------------------------------------
RECURSIVE s_expression(_, _), s_primary(_, _), s_term(_, _), Terms(_), Sums(_), Texts(_)

\* A bracket or comma that is missing from abs() or mask() gives 0 and is no error.
s_function_abs(p) ==
    LET lp == s_get_token(p)
        arg == s_expression(lp, TRUE)
        end == s_get_token(arg)
    IN  CASE lp.curr_tok # "(" -> Gives(lp, 0)
          [] lp.curr_tok = "(" /\ arg.curr_tok # ")" -> Gives(arg, 0)
          [] OTHER -> Gives(end, IF Signed(arg.v) < 0 THEN Wrap(-arg.v) ELSE arg.v)

s_function_mask(p) ==
    LET lp == s_get_token(p)
        from == s_expression(lp, TRUE)
        to == s_expression(from, TRUE)
        end == s_get_token(to)
    IN  CASE lp.curr_tok # "(" -> Gives(lp, 0)
          [] lp.curr_tok = "(" /\ from.curr_tok # "," -> Gives(from, 0)
          [] lp.curr_tok = "(" /\ from.curr_tok = "," /\ to.curr_tok # ")" -> Gives(to, 0)
          [] OTHER -> Gives(end, Masked(Signed(from.v), Signed(to.v)))

\* The value is looked up under the name read last: in "a b" that is b.
s_name(p) ==
    LET next == s_get_token(p)
        value == s_expression(next, TRUE)
    IN  CASE p.string_value = "abs" -> s_function_abs(p)
          [] p.string_value = "mask" -> s_function_mask(p)
          [] p.string_value \notin {"abs", "mask"} /\ next.curr_tok = "=" ->
                exp_set_mapped_value(value, p.string_value, value.v)
          [] OTHER -> Gives(next, exp_get_mapped_value(next, next.string_value))

s_bracket(p) ==
    LET inner == s_expression(p, TRUE)
    IN  IF inner.curr_tok # ")" THEN Error(inner) ELSE s_get_token(inner)

s_primary(p, get) ==
    LET q == IF get THEN s_get_token(p) ELSE p
        operand == s_primary(q, TRUE)
    IN  CASE q.curr_tok = "NUMBER" -> Gives(s_get_token(q), q.number_value)
          [] q.curr_tok = "NAME" -> s_name(q)
          [] q.curr_tok = "-" -> Gives(operand, Wrap(-operand.v))
          [] q.curr_tok = "+" -> operand
          [] q.curr_tok = "~" -> Gives(operand, 2 ^ Bits - 1 - operand.v)
          [] q.curr_tok = "!" -> Gives(operand, Truth(operand.v = 0))
          [] q.curr_tok = "(" -> s_bracket(q)
          [] OTHER -> Error(q)

\* The operand on the right of an operator of s_term.
OperandTerm(p) == s_term(p, TRUE)
Operand(p) == s_primary(p, TRUE)

Terms(p) ==
    IF p.curr_tok \in TermOps THEN Terms(Combined(p.curr_tok, p.v, Operand(p))) ELSE p
s_term(p, get) == Terms(s_primary(p, get))

Sums(p) ==
    IF p.curr_tok \in SumOps THEN Sums(Combined(p.curr_tok, p.v, s_term(p, TRUE))) ELSE p
s_expression(p, get) == Sums(s_term(p, get))

\* Expressions one after the other; the token that ended one is dropped, and
\* the last value stays in the result.
Texts(p) ==
    LET q == s_get_token(p)
        e == s_expression(q, FALSE)
    IN  CASE p.input = <<>> -> p
          [] p.input # <<>> /\ q.curr_tok = ";" -> Texts(q)
          [] OTHER -> Texts([e EXCEPT !.result = e.v])

exp_parse_expression(p, text) == Texts([p EXCEPT !.input = text])

\* The halves of an address, its first octet the highest of the word.
WordAt(ipv6, first) ==
    LET byte[k \in 0 .. Lanes] ==
          IF k = 0 THEN 0 ELSE byte[k - 1] * 2 ^ LaneBits + ipv6[first + k - 1]
    IN  byte[Lanes]
exp_ipv6_prefix_to_ull(ipv6) == WordAt(ipv6, 0)
exp_ipv6_host_to_ull(ipv6) == WordAt(ipv6, Lanes)
=============================================================================
