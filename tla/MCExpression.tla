--------------------------- MODULE MCExpression ---------------------------
(***************************************************************************)
(* Words of two bytes of two bits.  Single texts: every pair of operators  *)
(* in both groupings, every unary operator before and around every binary  *)
(* one, functions of every word.  Lists of two and three texts: names that  *)
(* are assigned, read later, assigned once too often, and texts cut short. *)
(***************************************************************************)
EXTENDS Expression

Ops == TermOps \cup SumOps
Unary == {"-", "+", "~", "!"}
H == Var("HOST")
P == Var("PREFIX")

Sound(es) == [tokens |-> ListText(es), exprs |-> es, sound |-> TRUE]
Unsound(tokens) == [tokens |-> tokens, exprs |-> <<>>, sound |-> FALSE]

Nested ==
    {Bin(o, Bin(q, H, P), Num(2)) : o \in Ops, q \in Ops}
      \cup {Bin(o, Num(7), Bin(q, H, P)) : o \in Ops, q \in Ops}
Negated ==
    {Un(u, Bin(o, H, P)) : u \in Unary, o \in Ops} \cup {Bin(o, Un(u, H), Un(w, P)) : u, w \in Unary, o \in Ops}
Called ==
    {Fun("mask", <<H, P>>), Fun("mask", <<Bin("+", H, P), Num(1)>>),
     Fun("abs", <<Bin("-", H, P)>>), Bin("*", Fun("abs", <<H>>), Fun("mask", <<Num(2), P>>)),
     Un("~", Fun("mask", <<H, Set("a", P)>>))}
Singles == {<<Sound(<<e>>)>> : e \in Nested \cup Negated \cup Called}

\* Texts of a list: (HOST); SEAN = (HOST & 3); ((SEAN > 0) && (SEAN < 3)) is
\* the form of the example in npd6.conf(5).
Ranged ==
    <<Set("a", Bin("&", H, Num(3))),
      Bin("&&", Bin(">", Var("a"), Num(0)), Bin("<", Var("a"), Num(3)))>>
Whole ==
    {<<Bin("==", H, P)>>, <<H>>, Ranged, <<Set("b", Bin("+", H, P)), Num(0)>>, <<Bin(">", Var("b"), Num(2))>>,
     <<Set("HOST", Set("a", Num(5))), Bin("==", H, Var("b"))>>, <<Bin("/", H, P)>>,
     <<Bin("%", Num(5), P)>>}
Mistakes ==
    {ListText(Ranged), ListText(<<Un("-", Bin("+", H, Num(1)))>>),
     ListText(<<Fun("mask", <<H, P>>)>>), ListText(<<Fun("abs", <<H>>)>>)}
Cut == UNION {{SubSeq(t, 1, n) : n \in 0 .. Len(t) - 1} : t \in Mistakes}
Wrong ==
    {<<Token("BAD"), Name("HOST")>>, <<Name("HOST"), Token("BAD"), Number(0)>>,
     <<Name("b"), Name("HOST"), Number(1)>>, <<Token(")"), Number(1)>>, <<Token(";"), Token(";")>>,
     <<Name("HOST"), Token("="), Token("=")>>}
AllTexts == {Sound(es) : es \in Whole} \cup {Unsound(t) : t \in Cut \cup Wrong}

MCLists == Singles \cup {<<s, t>> : s, t \in AllTexts} \cup {<<s, t, u>> : s, t, u \in {Sound(es) : es \in Whole}}
\* Octets are two bits: <<a, b, c, d>> has the halves 4a + b and 4c + d.
A(a, b, c, d) == [i \in 0 .. 3 |-> <<a, b, c, d>>[i + 1]]
MCAddresses ==
    {A(p \div 4, p % 4, h \div 4, h % 4) : p \in {0, 1, 2, 7, 12}, h \in {0, 1, 3, 8, 15}}
=============================================================================
