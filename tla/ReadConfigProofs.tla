-------------------------- MODULE ReadConfigProofs -------------------------
(***************************************************************************)
(* For every set of files: which of them have lines stored past the end of *)
(* the table, and what reading line by line comes to.                      *)
(***************************************************************************)
EXTENDS ReadConfig, Numbers, FiniteSetTheorems, SequenceTheorems, TLAPS

\* An entry of interfaces[], filled or not.
Entries ==
    [nameStr : STRING \cup {Unset}, prefix : STRING \cup {Unset},
     prefixLen : {0} \cup {PrefixLen(l) : l \in Line}, index : {0, 1}]

\* The lines of the file are in their place, and the counts are numbers.
TypeInv ==
    /\ pc \in {"idle", "open", "count", "line", "lookup", "failed", "wild"}
    /\ file \in Files /\ (pc \in {"count", "line", "lookup", "wild"} => file # NoFile)
    /\ at \in Nat /\ (pc \in {"count", "line", "lookup"} => at \in 1 .. Len(file) + 1)
    /\ approxInterfaces \in Nat /\ interfaceCount \in Nat /\ prefixCount \in Nat /\ check \in Nat
    /\ conf = [key \in Settings |-> conf[key]]
    /\ sExpressions \in Seq(STRING) /\ Len(sExpressions) <= MAX_EXPRESSION_ENTRIES

\* What the call has not touched yet is as it was.
UntouchedInv ==
    pc \in {"open", "count"} =>
      /\ conf = IF pc = "open" THEN before.conf
                ELSE [before.conf EXCEPT !["pollErrorLimit"] = DefaultErrorLimit]
      /\ lRoot = before.lRoot /\ tRoot = before.tRoot /\ sExpressions = before.sExpressions

CountInv ==
    pc = "count" => /\ interfaceCount = 0 /\ prefixCount = 0
                    /\ approxInterfaces = CountBefore(CountingLines(file), at)

\* The table has the lines so far, each at the place its number among those of
\* its kind gives it.
TableInv ==
    pc \in {"line", "lookup"} =>
      LET I == LinesWith(file, "interface")
          P == LinesWith(file, "prefix")
      IN  /\ approxInterfaces = Cardinality(CountingLines(file))
          /\ interfaces \in [0 .. approxInterfaces - 1 -> Entries]
          /\ interfaceCount = CountBefore(I, at) /\ prefixCount = CountBefore(P, at)
          /\ interfaceCount <= approxInterfaces /\ prefixCount <= approxInterfaces
          /\ \A n \in I : n < at => interfaces[CountBefore(I, n)].nameStr = file[n].word
          /\ \A n \in P : n < at => /\ interfaces[CountBefore(P, n)].prefix = file[n].word
                                   /\ interfaces[CountBefore(P, n)].prefixLen = PrefixLen(file[n])

\* The globals are what the lines so far make of those before the call.
SoFar(key) == {n \in LinesWith(file, key) : n < at}
GlobalsInv ==
    pc \in {"line", "lookup"} =>
      /\ \A n \in DOMAIN file : n < at => Accepted(file[n])
      /\ \A key \in Settings :
           /\ SoFar(key) = {} => conf[key] = IF key = "pollErrorLimit" THEN DefaultErrorLimit
                                             ELSE before.conf[key]
           /\ \A n \in SoFar(key) : (\A m \in SoFar(key) : m <= n) => conf[key] = Value(file[n])
      /\ lRoot = before.lRoot \cup ({file[n].word : n \in SoFar("addrlist")} \cap Addresses)
      /\ tRoot = IF SoFar("collectTargets") # {} THEN {} ELSE before.tRoot

ExpressionsInv ==
    LET old == before.sExpressions
        E   == LinesWith(file, "exprlist")
        all == Len(old) + CountBefore(E, at)
    IN  /\ old \in Seq(STRING) /\ Len(old) <= MAX_EXPRESSION_ENTRIES
        /\ pc \in {"line", "lookup"} =>
             /\ Len(sExpressions) = IF all < MAX_EXPRESSION_ENTRIES THEN all
                                    ELSE MAX_EXPRESSION_ENTRIES
             /\ \A k \in 1 .. Len(old) : sExpressions[k] = old[k]
             /\ \A n \in E : LET k == Len(old) + CountBefore(E, n) + 1 IN
                  n < at /\ k <= MAX_EXPRESSION_ENTRIES => sExpressions[k] = file[n].word

\* Every interface looked up so far is there.
LookupInv ==
    /\ pc = "wild" => ~ HasRoom(file)
    /\ pc = "lookup" => /\ at = Len(file) + 1 /\ Paired /\ check <= interfaceCount
                        /\ \A k \in 0 .. check - 1 : /\ interfaces[k].index = 1
                                                    /\ interfaces[k].nameStr \in Present
    /\ pc = "idle" => \A k \in 0 .. interfaceCount - 1 :
         /\ Unset \notin {interfaces[k].nameStr, interfaces[k].prefix}
         /\ interfaces[k].index # 0

Inv == /\ TypeInv /\ UntouchedInv /\ CountInv /\ TableInv /\ GlobalsInv /\ ExpressionsInv
       /\ LookupInv

-----------------------------------------------------------------------------
(* The numbers of lines.                                                   *)

\* One more line is counted, or not.
LEMMA CountNext ==
    ASSUME NEW S \in SUBSET Nat, NEW n \in Nat
    PROVE  /\ IsFiniteSet({m \in S : m < n}) /\ CountBefore(S, n) \in Nat
           /\ CountBefore(S, n + 1) = CountBefore(S, n) + IF n \in S THEN 1 ELSE 0
<1> DEFINE B == {m \in S : m < n}
<1>0. \A m \in S : m \in Nat
  OBVIOUS
<1>1. IsFiniteSet(B) /\ Cardinality(B) \in Nat
  <2>1. B \subseteq 0 .. n
    <3>1. ASSUME NEW m \in B PROVE m \in 0 .. n
      BY <1>0
    <3> QED BY <3>1
  <2>2. IsFiniteSet(0 .. n)
    BY FS_Interval
  <2> QED BY <2>1, <2>2, FS_Subset, FS_CardinalityType
<1>2. n \notin B
  OBVIOUS
<1>3. {m \in S : m < n + 1} = IF n \in S THEN B \cup {n} ELSE B
  <2>1. \A m \in S : m < n + 1 <=> m < n \/ m = n
    BY <1>0
  <2> QED BY <2>1
<1>4. IsFiniteSet(B \cup {n}) /\ Cardinality(B \cup {n}) = Cardinality(B) + 1
  BY <1>1, <1>2, FS_AddElement
<1>5. CountBefore(S, n + 1) = Cardinality(B) + IF n \in S THEN 1 ELSE 0
  BY <1>1, <1>3, <1>4 DEF CountBefore
<1> QED BY <1>1, <1>5 DEF CountBefore

LEMMA CountMonotone ==
    ASSUME NEW S \in SUBSET Nat, NEW m \in Nat, NEW n \in Nat, m <= n
    PROVE  CountBefore(S, m) <= CountBefore(S, n)
<1>1. \A k \in S : k \in Nat
  OBVIOUS
<1>2. {k \in S : k < m} \subseteq {k \in S : k < n}
  <2>1. ASSUME NEW k \in S, k < m PROVE k < n
    BY <1>1, <2>1
  <2> QED BY <2>1
<1>3. IsFiniteSet({k \in S : k < n})
  BY CountNext
<1> QED BY <1>2, <1>3, FS_Subset DEF CountBefore

LEMMA CountIsNumber == \A S \in SUBSET Nat, n \in Nat : CountBefore(S, n) \in Nat
  BY CountNext

\* Of two lines with a keyword the later one has the larger number.
LEMMA CountOrder ==
    ASSUME NEW S \in SUBSET Nat, NEW m \in S, NEW n \in Nat, m < n
    PROVE  CountBefore(S, m) < CountBefore(S, n)
<1>1. CountBefore(S, m + 1) = CountBefore(S, m) + 1 /\ CountBefore(S, m) \in Nat
  BY CountNext
<1>2. m + 1 \in Nat /\ m + 1 <= n
  OBVIOUS
<1>3. CountBefore(S, m + 1) <= CountBefore(S, n) /\ CountBefore(S, n) \in Nat
  BY <1>2, CountMonotone, CountNext
<1> QED BY <1>1, <1>3

\* Every number below the count is that of some line.
LEMMA CountOnto ==
    ASSUME NEW S \in SUBSET Nat, NEW n \in Nat, NEW k \in Nat, k < CountBefore(S, n)
    PROVE  \E m \in S : m < n /\ CountBefore(S, m) = k
<1> DEFINE Reached(j) == \A i \in Nat : i < CountBefore(S, j) =>
                            \E m \in S : m < j /\ CountBefore(S, m) = i
           R == {j \in Nat : Reached(j)}
<1>1. 0 \in R
  <2>1. \A m \in S : m \in Nat
    OBVIOUS
  <2>2. {m \in S : m < 0} = {}
    <3>1. ASSUME NEW m \in S, m < 0 PROVE FALSE
      BY <2>1, <3>1
    <3> QED BY <3>1
  <2>3. CountBefore(S, 0) = 0
    BY <2>2, FS_EmptySet DEF CountBefore
  <2> QED BY <2>3
<1>2. ASSUME NEW j \in R PROVE j + 1 \in R
  <2>1. ASSUME NEW i \in Nat, i < CountBefore(S, j + 1)
        PROVE  \E m \in S : m < j + 1 /\ CountBefore(S, m) = i
    <3>1. CountBefore(S, j) \in Nat
          /\ CountBefore(S, j + 1) = CountBefore(S, j) + IF j \in S THEN 1 ELSE 0
      BY CountNext
    <3>2. CASE i < CountBefore(S, j)
      <4>1. PICK m \in S : m < j /\ CountBefore(S, m) = i
        BY <3>2
      <4> QED BY <4>1
    <3>3. CASE ~ (i < CountBefore(S, j))
      <4>1. j \in S /\ i = CountBefore(S, j)
        BY <2>1, <3>1, <3>3
      <4> QED BY <4>1
    <3> QED BY <3>2, <3>3
  <2> QED BY <2>1
<1>3. n \in R
  <2> HIDE DEF R
  <2>1. R \in SUBSET Nat
    BY DEF R
  <2> QED BY <1>1, <1>2, <2>1, EveryNumber
<1> QED BY <1>3

\* A file that can be read, and its lines.
LEMMA FileLines ==
    ASSUME NEW f \in Files, f # NoFile
    PROVE  /\ f \in Seq(Line) /\ Len(f) \in Nat /\ DOMAIN f = 1 .. Len(f)
           /\ \A n \in DOMAIN f : f[n] \in Line
           /\ CountingLines(f) \in SUBSET Nat
           /\ CountBefore(CountingLines(f), Len(f) + 1) = Cardinality(CountingLines(f))
           /\ \A key : /\ LinesWith(f, key) \in SUBSET Nat
                       /\ CountBefore(LinesWith(f, key), Len(f) + 1) = Cardinality(LinesWith(f, key))
<1>1. f \in Seq(Line)
  BY FilesAssumption
<1>2. Len(f) \in Nat /\ DOMAIN f = 1 .. Len(f) /\ \A n \in DOMAIN f : f[n] \in Line
  BY <1>1
<1>3. ASSUME NEW S \in SUBSET (DOMAIN f)
      PROVE  S \in SUBSET Nat /\ CountBefore(S, Len(f) + 1) = Cardinality(S)
  <2>1. \A n \in S : n \in Nat /\ n < Len(f) + 1
    BY <1>2
  <2>2. {n \in S : n < Len(f) + 1} = S
    BY <2>1
  <2> QED BY <2>1, <2>2 DEF CountBefore
<1>4. CountingLines(f) \in SUBSET (DOMAIN f) /\ \A key : LinesWith(f, key) \in SUBSET (DOMAIN f)
  BY DEF CountingLines, LinesWith
<1> QED BY <1>1, <1>2, <1>3, <1>4

\* A line with a keyword is one of them.
LEMMA OneOfThem ==
    ASSUME NEW f \in Files, f # NoFile, NEW key, NEW n \in LinesWith(f, key)
    PROVE  /\ CountBefore(LinesWith(f, key), n) \in Nat /\ Cardinality(LinesWith(f, key)) \in Nat
           /\ CountBefore(LinesWith(f, key), n) < Cardinality(LinesWith(f, key))
<1> DEFINE S == LinesWith(f, key)
<1>1. /\ S \in SUBSET Nat /\ Len(f) \in Nat /\ n \in S /\ n \in 1 .. Len(f)
      /\ CountBefore(S, Len(f) + 1) = Cardinality(S)
  BY FileLines DEF LinesWith
<1> HIDE DEF S
<1>2. Len(f) + 1 \in Nat /\ n < Len(f) + 1 /\ n \in Nat
  BY <1>1
<1>3. /\ CountBefore(S, n) < CountBefore(S, Len(f) + 1)
      /\ CountBefore(S, n) \in Nat /\ CountBefore(S, Len(f) + 1) \in Nat
  BY <1>1, <1>2, CountOrder, CountIsNumber
<1> QED BY <1>1, <1>3 DEF S

-----------------------------------------------------------------------------
(* The second pass goes on by one line.                                    *)

Taken == \/ SkipLine \/ StorePrefix \/ StoreInterface \/ SetValue \/ SetTargets
         \/ ListAddress \/ storeExpression

LinePasses ==
    /\ pc = "line" /\ at <= Len(file) /\ Accepted(file[at]) /\ ~ Outside(file[at])
    /\ at' = at + 1
    /\ UNCHANGED <<pc, file, approxInterfaces, check, before>>

LEMMA TakenPasses == Taken => LinePasses
  BY DEF Taken, SkipLine, StorePrefix, StoreInterface, SetValue, SetTargets, ListAddress,
         storeExpression, TakeLine, NextLine, LinePasses

LEMMA OneLineMore ==
    ASSUME TypeInv, LinePasses
    PROVE  /\ file # NoFile /\ at \in Nat /\ at \in DOMAIN file /\ file[at] \in Line
           /\ DOMAIN file = 1 .. Len(file) /\ Len(file) \in Nat
           /\ \A n \in DOMAIN file : n < at + 1 <=> n < at \/ n = at
           /\ \A key : /\ LinesWith(file, key) \in SUBSET Nat
                       /\ at \in LinesWith(file, key) <=> file[at].key = key
                       /\ \A n \in LinesWith(file, key) : n < at + 1 <=> n < at \/ n = at
                       /\ SoFar(key)' = SoFar(key) \cup IF file[at].key = key THEN {at} ELSE {}
                       /\ CountBefore(LinesWith(file, key), at) \in Nat
                       /\ CountBefore(LinesWith(file, key), at + 1) =
                            CountBefore(LinesWith(file, key), at)
                              + IF file[at].key = key THEN 1 ELSE 0
<1>1. /\ file \in Files /\ file # NoFile /\ at \in Nat /\ at \in 1 .. Len(file) /\ Len(file) \in Nat
      /\ DOMAIN file = 1 .. Len(file) /\ file[at] \in Line
  BY FileLines DEF TypeInv, LinePasses
<1>2. \A n \in DOMAIN file : n < at + 1 <=> n < at \/ n = at
  BY <1>1
<1>3. ASSUME NEW key
      PROVE  /\ LinesWith(file, key) \in SUBSET Nat
             /\ at \in LinesWith(file, key) <=> file[at].key = key
             /\ \A n \in LinesWith(file, key) : n < at + 1 <=> n < at \/ n = at
  BY <1>1, <1>2, FileLines DEF LinesWith
<1>4. ASSUME NEW key
      PROVE  SoFar(key)' = SoFar(key) \cup IF file[at].key = key THEN {at} ELSE {}
  <2>1. SoFar(key)' = {n \in LinesWith(file, key) : n < at + 1}
    BY DEF SoFar, LinePasses, LinesWith
  <2>2. ~ (at < at)
    BY <1>1
  <2> QED BY <1>3, <2>1, <2>2 DEF SoFar
<1>5. ASSUME NEW key
      PROVE  /\ CountBefore(LinesWith(file, key), at) \in Nat
             /\ CountBefore(LinesWith(file, key), at + 1) =
                  CountBefore(LinesWith(file, key), at) + IF file[at].key = key THEN 1 ELSE 0
  <2> DEFINE S == LinesWith(file, key)
  <2>1. S \in SUBSET Nat /\ (at \in S <=> file[at].key = key)
    BY <1>3
  <2> HIDE DEF S
  <2>2. /\ CountBefore(S, at) \in Nat
        /\ CountBefore(S, at + 1) = CountBefore(S, at) + IF at \in S THEN 1 ELSE 0
    BY <1>1, <2>1, CountNext
  <2> QED BY <2>1, <2>2 DEF S
<1> QED BY <1>1, <1>2, <1>3, <1>4, <1>5

LEMMA TableStep ==
    ASSUME TypeInv, TableInv, Taken
    PROVE  TableInv'
<1> DEFINE I == LinesWith(file, "interface")
           P == LinesWith(file, "prefix")
           Places == 0 .. approxInterfaces - 1
<1>1. LinePasses /\ file' = file /\ at' = at + 1 /\ approxInterfaces' = approxInterfaces /\ pc = "line"
  BY TakenPasses DEF LinePasses
<1>2. /\ I' = I /\ P' = P /\ CountingLines(file)' = CountingLines(file)
  BY <1>1 DEF LinesWith, CountingLines
<1>3. /\ approxInterfaces = Cardinality(CountingLines(file)) /\ approxInterfaces \in Nat
      /\ interfaces \in [Places -> Entries]
      /\ interfaceCount = CountBefore(I, at) /\ prefixCount = CountBefore(P, at)
      /\ interfaceCount <= approxInterfaces /\ prefixCount <= approxInterfaces
      /\ \A n \in I : n < at => interfaces[CountBefore(I, n)].nameStr = file[n].word
      /\ \A n \in P : n < at => /\ interfaces[CountBefore(P, n)].prefix = file[n].word
                               /\ interfaces[CountBefore(P, n)].prefixLen = PrefixLen(file[n])
  BY <1>1 DEF TypeInv, TableInv
<1>4. /\ file \in Files /\ file # NoFile /\ at \in Nat /\ file[at] \in Line
      /\ file[at].word \in STRING /\ PrefixLen(file[at]) \in {PrefixLen(l) : l \in Line}
      /\ \A n \in I : n < at + 1 <=> n < at \/ n = at
      /\ \A n \in P : n < at + 1 <=> n < at \/ n = at
      /\ CountBefore(I, at) \in Nat /\ CountBefore(P, at) \in Nat
      /\ I \in SUBSET Nat /\ P \in SUBSET Nat /\ Len(file) \in Nat /\ at <= Len(file)
      /\ at \in I <=> file[at].key = "interface"
      /\ at \in P <=> file[at].key = "prefix"
  <2>1. file[at] \in Line
    BY <1>1, OneLineMore
  <2> QED BY <1>1, <2>1, OneLineMore DEF TypeInv, Line, LinePasses
<1>5. /\ CountBefore(I, at + 1) = CountBefore(I, at) + IF at \in I THEN 1 ELSE 0
      /\ CountBefore(P, at + 1) = CountBefore(P, at) + IF at \in P THEN 1 ELSE 0
  BY <1>4, CountNext
<1>6. /\ \A n \in I : n < at => CountBefore(I, n) < CountBefore(I, at) /\ CountBefore(I, n) \in Nat
      /\ \A n \in P : n < at => CountBefore(P, n) < CountBefore(P, at) /\ CountBefore(P, n) \in Nat
  BY <1>4, CountOrder, CountNext
<1>7. /\ at \in I => CountBefore(I, at) < approxInterfaces
      /\ at \in P => CountBefore(P, at) < approxInterfaces
      /\ interfaceCount <= approxInterfaces /\ prefixCount <= approxInterfaces
      /\ CountBefore(I, at + 1) <= approxInterfaces /\ CountBefore(P, at + 1) <= approxInterfaces
  <2>1. /\ at \in I => ~ (interfaceCount >= approxInterfaces)
        /\ at \in P => ~ (prefixCount >= approxInterfaces)
    BY <1>1, <1>4 DEF LinePasses, Outside
  <2> HIDE DEF I, P, Places
  <2> QED BY <1>3, <1>4, <1>5, <2>1
<1>8. SUFFICES
        /\ interfaces' \in [Places -> Entries]
        /\ interfaceCount' = CountBefore(I, at + 1) /\ prefixCount' = CountBefore(P, at + 1)
        /\ \A n \in I : n < at \/ n = at => interfaces'[CountBefore(I, n)].nameStr = file[n].word
        /\ \A n \in P : n < at \/ n = at =>
             /\ interfaces'[CountBefore(P, n)].prefix = file[n].word
             /\ interfaces'[CountBefore(P, n)].prefixLen = PrefixLen(file[n])
  BY <1>1, <1>2, <1>3, <1>4, <1>7 DEF TableInv
<1>8a. \A k \in Nat : k < approxInterfaces => k \in Places
  BY <1>3
<1> HIDE DEF I, P, Places
<1>9. CASE StorePrefix
  <2> DEFINE k == prefixCount
             e == [interfaces[k] EXCEPT !.prefix = file[at].word, !.prefixLen = PrefixLen(file[at])]
  <2>1. /\ at \in P /\ at \notin I /\ prefixCount' = prefixCount + 1
        /\ interfaceCount' = interfaceCount
        /\ interfaces' = [interfaces EXCEPT ![prefixCount].prefix = file[at].word,
                                            ![prefixCount].prefixLen = PrefixLen(file[at])]
    BY <1>4, <1>9 DEF StorePrefix, TakeLine
  <2>2. k \in Places /\ k = CountBefore(P, at)
    BY <1>3, <1>4, <1>7, <1>8a, <2>1
  <2>3. interfaces' = [interfaces EXCEPT ![k] = e] /\ interfaces[k] \in Entries
    BY <1>3, <2>1, <2>2 DEF Entries
  <2>4. /\ e \in Entries /\ e.nameStr = interfaces[k].nameStr
        /\ e.prefix = file[at].word /\ e.prefixLen = PrefixLen(file[at])
    BY <1>4, <2>3 DEF Entries
  <2> HIDE DEF e
  <2>5. interfaces' \in [Places -> Entries]
    BY <1>3, <2>3, <2>4
  <2>6. \A j \in Places : /\ interfaces'[j].nameStr = interfaces[j].nameStr
                          /\ j # k => interfaces'[j] = interfaces[j]
    BY <1>3, <2>2, <2>3, <2>4
  <2>7. ASSUME NEW n \in I, n < at \/ n = at
        PROVE  interfaces'[CountBefore(I, n)].nameStr = file[n].word
    <3>1. n < at
      BY <2>1, <2>7
    <3>2. CountBefore(I, n) \in Nat /\ CountBefore(I, n) < interfaceCount
      BY <1>3, <1>6, <3>1
    <3>4. CountBefore(I, n) \in Places
      BY <1>3, <1>4, <1>7, <1>8a, <3>2
    <3>5. interfaces[CountBefore(I, n)].nameStr = file[n].word
      BY <1>3, <3>1
    <3>6. interfaces'[CountBefore(I, n)].nameStr = interfaces[CountBefore(I, n)].nameStr
      BY <2>6, <3>4
    <3> QED BY <3>5, <3>6
  <2>8. ASSUME NEW n \in P, n < at \/ n = at
        PROVE  /\ interfaces'[CountBefore(P, n)].prefix = file[n].word
               /\ interfaces'[CountBefore(P, n)].prefixLen = PrefixLen(file[n])
    <3>1. CASE n = at
      BY <1>3, <2>2, <2>3, <2>4, <3>1
    <3>2. CASE n < at
      <4>1. CountBefore(P, n) \in Places /\ CountBefore(P, n) # k
        BY <1>3, <1>4, <1>6, <1>7, <1>8a, <2>2, <3>2
      <4>2. /\ interfaces[CountBefore(P, n)].prefix = file[n].word
            /\ interfaces[CountBefore(P, n)].prefixLen = PrefixLen(file[n])
        BY <1>3, <3>2
      <4>3. interfaces'[CountBefore(P, n)] = interfaces[CountBefore(P, n)]
        BY <2>6, <4>1
      <4> QED BY <4>2, <4>3
    <3> QED BY <2>8, <3>1, <3>2
  <2>9. interfaceCount' = CountBefore(I, at + 1) /\ prefixCount' = CountBefore(P, at + 1)
    BY <1>3, <1>4, <1>5, <2>1
  <2> QED BY <2>5, <2>7, <2>8, <2>9
<1>10. CASE StoreInterface
  <2> DEFINE k == interfaceCount
             e == [interfaces[k] EXCEPT !.nameStr = file[at].word]
  <2>1. /\ at \in I /\ at \notin P /\ interfaceCount' = interfaceCount + 1
        /\ prefixCount' = prefixCount
        /\ interfaces' = [interfaces EXCEPT ![interfaceCount].nameStr = file[at].word]
    BY <1>4, <1>10 DEF StoreInterface, TakeLine
  <2>2. k \in Places /\ k = CountBefore(I, at)
    BY <1>3, <1>4, <1>7, <1>8a, <2>1
  <2>3. interfaces' = [interfaces EXCEPT ![k] = e] /\ interfaces[k] \in Entries
    BY <1>3, <2>1, <2>2 DEF Entries
  <2>4. /\ e \in Entries /\ e.nameStr = file[at].word
        /\ e.prefix = interfaces[k].prefix /\ e.prefixLen = interfaces[k].prefixLen
    BY <1>4, <2>3 DEF Entries
  <2> HIDE DEF e
  <2>5. interfaces' \in [Places -> Entries]
    BY <1>3, <2>3, <2>4
  <2>6. \A j \in Places : /\ interfaces'[j].prefix = interfaces[j].prefix
                          /\ interfaces'[j].prefixLen = interfaces[j].prefixLen
                          /\ j # k => interfaces'[j] = interfaces[j]
    BY <1>3, <2>2, <2>3, <2>4
  <2>7. ASSUME NEW n \in P, n < at \/ n = at
        PROVE  /\ interfaces'[CountBefore(P, n)].prefix = file[n].word
               /\ interfaces'[CountBefore(P, n)].prefixLen = PrefixLen(file[n])
    <3>1. n < at
      BY <2>1, <2>7
    <3>2. CountBefore(P, n) \in Nat /\ CountBefore(P, n) < prefixCount
      BY <1>3, <1>6, <3>1
    <3>4. CountBefore(P, n) \in Places
      BY <1>3, <1>4, <1>7, <1>8a, <3>2
    <3>5. /\ interfaces[CountBefore(P, n)].prefix = file[n].word
          /\ interfaces[CountBefore(P, n)].prefixLen = PrefixLen(file[n])
      BY <1>3, <3>1
    <3>6. /\ interfaces'[CountBefore(P, n)].prefix = interfaces[CountBefore(P, n)].prefix
          /\ interfaces'[CountBefore(P, n)].prefixLen = interfaces[CountBefore(P, n)].prefixLen
      BY <2>6, <3>4
    <3> QED BY <3>5, <3>6
  <2>8. ASSUME NEW n \in I, n < at \/ n = at
        PROVE  interfaces'[CountBefore(I, n)].nameStr = file[n].word
    <3>1. CASE n = at
      BY <1>3, <2>2, <2>3, <2>4, <3>1
    <3>2. CASE n < at
      <4>1. CountBefore(I, n) \in Places /\ CountBefore(I, n) # k
        BY <1>3, <1>4, <1>6, <1>7, <1>8a, <2>2, <3>2
      <4>2. interfaces[CountBefore(I, n)].nameStr = file[n].word
        BY <1>3, <3>2
      <4>3. interfaces'[CountBefore(I, n)] = interfaces[CountBefore(I, n)]
        BY <2>6, <4>1
      <4> QED BY <4>2, <4>3
    <3> QED BY <2>8, <3>1, <3>2
  <2>9. interfaceCount' = CountBefore(I, at + 1) /\ prefixCount' = CountBefore(P, at + 1)
    BY <1>3, <1>4, <1>5, <2>1
  <2> QED BY <2>5, <2>7, <2>8, <2>9
<1>11. CASE ~ StorePrefix /\ ~ StoreInterface
  <2>1. /\ UNCHANGED <<interfaceCount, prefixCount, interfaces>>
        /\ file[at].key # "prefix" /\ file[at].key # "interface"
    BY <1>11 DEF Taken, SkipLine, SetValue, SetTargets, ListAddress, storeExpression, TakeLine,
                 Settings, Switches, Numbers
  <2>2. at \notin P /\ at \notin I
    BY <1>4, <2>1
  <2>3. interfaceCount' = CountBefore(I, at + 1) /\ prefixCount' = CountBefore(P, at + 1)
    BY <1>3, <1>4, <1>5, <2>1, <2>2
  <2>4. /\ \A n \in I : n < at \/ n = at => n < at
        /\ \A n \in P : n < at \/ n = at => n < at
    BY <2>2
  <2> QED BY <1>3, <2>1, <2>3, <2>4
<1> QED BY <1>9, <1>10, <1>11

\* Which lines the steps take, and what they leave alone.
LEMMA TakenLines ==
    ASSUME Taken
    PROVE  /\ SkipLine => file[at].key \in {"blank", "noise"}
           /\ StorePrefix => file[at].key = "prefix"
           /\ StoreInterface => file[at].key = "interface"
           /\ SetValue => file[at].key \in Settings \ {"collectTargets"}
           /\ SetTargets => file[at].key = "collectTargets"
           /\ ListAddress => file[at].key = "addrlist"
           /\ storeExpression => file[at].key = "exprlist"
           /\ ~ SetValue /\ ~ SetTargets => conf' = conf
           /\ ~ SetTargets => tRoot' = tRoot
           /\ ~ ListAddress => lRoot' = lRoot
           /\ ~ storeExpression => sExpressions' = sExpressions
<1>1. /\ SkipLine => file[at].key \in {"blank", "noise"}
      /\ StorePrefix => file[at].key = "prefix"
      /\ StoreInterface => file[at].key = "interface"
      /\ SetValue => file[at].key \in Settings \ {"collectTargets"}
      /\ SetTargets => file[at].key = "collectTargets"
      /\ ListAddress => file[at].key = "addrlist"
      /\ storeExpression => file[at].key = "exprlist"
  BY DEF SkipLine, StorePrefix, StoreInterface, SetValue, SetTargets, ListAddress,
         storeExpression, TakeLine
<1>2. /\ SkipLine \/ StorePrefix \/ StoreInterface
           => UNCHANGED <<conf, tRoot, lRoot, sExpressions>>
      /\ SetValue => UNCHANGED <<tRoot, lRoot, sExpressions>>
      /\ SetTargets => UNCHANGED <<lRoot, sExpressions>>
      /\ ListAddress => UNCHANGED <<conf, tRoot, sExpressions>>
      /\ storeExpression => UNCHANGED <<conf, tRoot, lRoot>>
  BY DEF SkipLine, StorePrefix, StoreInterface, SetValue, SetTargets, ListAddress,
         storeExpression, listVars
<1>3. /\ ~ SetValue /\ ~ SetTargets => conf' = conf
      /\ ~ SetTargets => tRoot' = tRoot
      /\ ~ ListAddress => lRoot' = lRoot
      /\ ~ storeExpression => sExpressions' = sExpressions
  BY <1>2 DEF Taken
<1> QED BY <1>1, <1>3

LEMMA GlobalsStep ==
    ASSUME TypeInv, GlobalsInv, Taken
    PROVE  GlobalsInv'
<1> USE DEF Settings, Switches, Numbers
<1>1. /\ LinePasses /\ file' = file /\ at' = at + 1 /\ before' = before /\ pc = "line"
      /\ Accepted(file[at])
  BY TakenPasses DEF LinePasses
<1>2. /\ at \in DOMAIN file /\ at \in Nat
      /\ \A n \in DOMAIN file : n < at + 1 <=> n < at \/ n = at
      /\ \A key : SoFar(key)' = SoFar(key) \cup IF file[at].key = key THEN {at} ELSE {}
  BY <1>1, OneLineMore
<1>3. /\ \A n \in DOMAIN file : n < at => Accepted(file[n])
      /\ \A key \in Settings :
           /\ SoFar(key) = {} => conf[key] = IF key = "pollErrorLimit" THEN DefaultErrorLimit
                                             ELSE before.conf[key]
           /\ \A n \in SoFar(key) : (\A m \in SoFar(key) : m <= n) => conf[key] = Value(file[n])
      /\ lRoot = before.lRoot \cup ({file[n].word : n \in SoFar("addrlist")} \cap Addresses)
      /\ tRoot = IF SoFar("collectTargets") # {} THEN {} ELSE before.tRoot
  BY <1>1 DEF GlobalsInv
<1>4. \A n \in DOMAIN file : n < at + 1 => Accepted(file[n])
  BY <1>1, <1>2, <1>3
<1>5. ASSUME NEW key \in Settings
      PROVE  /\ SoFar(key)' = {} => conf'[key] = IF key = "pollErrorLimit" THEN DefaultErrorLimit
                                                 ELSE before.conf[key]
             /\ \A n \in SoFar(key)' :
                  (\A m \in SoFar(key)' : m <= n) => conf'[key] = Value(file[n])
  <2>1. CASE file[at].key = key
    <3>1. SetValue \/ SetTargets
      BY <2>1, TakenLines DEF Taken
    <3>2. conf' = [conf EXCEPT ![key] = Value(file[at])]
      BY <2>1, <3>1, TakenLines DEF SetValue, SetTargets
    <3>3. conf'[key] = Value(file[at])
      <4>1. conf = [k \in Settings |-> conf[k]]
        BY DEF TypeInv
      <4> QED BY <3>2, <4>1
    <3>4. SoFar(key)' = SoFar(key) \cup {at}
      BY <1>2, <2>1
    <3>5. \A n \in SoFar(key) : n \in Int /\ n < at
      BY <1>1, OneLineMore DEF SoFar
    <3>6. ASSUME NEW n \in SoFar(key)', \A m \in SoFar(key)' : m <= n PROVE n = at
      <4>1. at <= n
        BY <3>4, <3>6
      <4> QED BY <1>2, <3>4, <3>5, <4>1
    <3> QED BY <3>3, <3>4, <3>6
  <2>2. CASE file[at].key # key
    <3>1. SoFar(key)' = SoFar(key)
      BY <1>2, <2>2
    <3>2. conf'[key] = conf[key]
      <4>1. conf = [k \in Settings |-> conf[k]]
        BY DEF TypeInv
      <4>2. CASE SetValue \/ SetTargets
        <5>1. conf' = [conf EXCEPT ![file[at].key] = Value(file[at])]
          BY <4>2, TakenLines DEF SetValue, SetTargets
        <5> QED BY <2>2, <4>1, <5>1
      <4>3. CASE ~ SetValue /\ ~ SetTargets
        BY <4>3, TakenLines
      <4> QED BY <4>2, <4>3
    <3> QED BY <1>3, <3>1, <3>2
  <2> QED BY <2>1, <2>2
<1>6. lRoot' = before.lRoot \cup ({file[n].word : n \in SoFar("addrlist")'} \cap Addresses)
  <2>1. CASE ListAddress
    <3>1. file[at].key = "addrlist"
      BY <2>1, TakenLines
    <3>2. SoFar("addrlist")' = SoFar("addrlist") \cup {at}
      BY <1>2, <3>1
    <3>3. {file[n].word : n \in SoFar("addrlist")'}
            = {file[n].word : n \in SoFar("addrlist")} \cup {file[at].word}
      BY <3>2
    <3>4. lRoot' = IF file[at].word \in Addresses THEN lRoot \cup {file[at].word} ELSE lRoot
      BY <2>1 DEF ListAddress
    <3> QED BY <1>3, <3>3, <3>4
  <2>2. CASE ~ ListAddress
    <3>1. file[at].key # "addrlist"
      BY <2>2, TakenLines DEF Taken
    <3>2. SoFar("addrlist")' = SoFar("addrlist")
      BY <1>2, <3>1
    <3> QED BY <1>3, <2>2, <3>2, TakenLines
  <2> QED BY <2>1, <2>2
<1>7. tRoot' = IF SoFar("collectTargets")' # {} THEN {} ELSE before.tRoot
  <2>1. CASE SetTargets
    <3>1. SoFar("collectTargets")' # {}
      BY <1>2, <2>1, TakenLines
    <3> QED BY <2>1, <3>1 DEF SetTargets
  <2>2. CASE ~ SetTargets
    <3>1. file[at].key # "collectTargets"
      BY <2>2, TakenLines DEF Taken
    <3>2. SoFar("collectTargets")' = SoFar("collectTargets")
      BY <1>2, <3>1
    <3> QED BY <1>3, <2>2, <3>2, TakenLines
  <2> QED BY <2>1, <2>2
<1>8. SoFar("addrlist")' = {n \in LinesWith(file, "addrlist") : n < at + 1}
  BY <1>1 DEF SoFar, LinesWith
<1> QED BY <1>1, <1>4, <1>5, <1>6, <1>7 DEF GlobalsInv

LEMMA ExpressionsStep ==
    ASSUME TypeInv, ExpressionsInv, Taken
    PROVE  ExpressionsInv'
<1> DEFINE old == before.sExpressions
           E   == LinesWith(file, "exprlist")
           c   == CountBefore(E, at)
           Full(n) == IF n < MAX_EXPRESSION_ENTRIES THEN n ELSE MAX_EXPRESSION_ENTRIES
<1>1. LinePasses /\ file' = file /\ at' = at + 1 /\ before' = before /\ pc = "line"
  BY TakenPasses DEF LinePasses
<1>2. /\ at \in Nat /\ E \in SUBSET Nat /\ c \in Nat
      /\ CountBefore(E, at + 1) = c + IF file[at].key = "exprlist" THEN 1 ELSE 0
      /\ \A n \in E : n < at + 1 <=> n < at \/ n = at
      /\ at \in E <=> file[at].key = "exprlist"
      /\ file[at].word \in STRING
  <2>1. file[at] \in Line
    BY <1>1, OneLineMore
  <2> QED BY <1>1, <2>1, OneLineMore DEF Line
<1>3. /\ old \in Seq(STRING) /\ Len(old) <= MAX_EXPRESSION_ENTRIES /\ Len(old) \in Nat
      /\ MAX_EXPRESSION_ENTRIES \in Nat
      /\ Len(sExpressions) = Full(Len(old) + c) /\ sExpressions \in Seq(STRING)
      /\ \A k \in 1 .. Len(old) : sExpressions[k] = old[k]
      /\ \A n \in E : n < at /\ Len(old) + CountBefore(E, n) + 1 <= MAX_EXPRESSION_ENTRIES
           => sExpressions[Len(old) + CountBefore(E, n) + 1] = file[n].word
  <2>1. old \in Seq(STRING)
    BY DEF ExpressionsInv
  <2> QED BY <1>1, <2>1, FilesAssumption DEF ExpressionsInv, TypeInv
<1>4. /\ E' = E /\ old' = old
  BY <1>1 DEF LinesWith
<1>5. \A n \in E : n < at => CountBefore(E, n) \in Nat /\ CountBefore(E, n) < c
  BY <1>2, CountOrder, CountNext
<1>6. SUFFICES
        /\ Len(sExpressions') = Full(Len(old) + CountBefore(E, at + 1))
        /\ \A k \in 1 .. Len(old) : sExpressions'[k] = old[k]
        /\ \A n \in E : (n < at \/ n = at)
                          /\ Len(old) + CountBefore(E, n) + 1 <= MAX_EXPRESSION_ENTRIES
             => sExpressions'[Len(old) + CountBefore(E, n) + 1] = file[n].word
  BY <1>1, <1>2, <1>3, <1>4 DEF ExpressionsInv
<1> HIDE DEF E, old
<1>7. CASE file[at].key = "exprlist"
  <2>1. /\ sExpressions' = IF Len(sExpressions) < MAX_EXPRESSION_ENTRIES
                             THEN Append(sExpressions, file[at].word) ELSE sExpressions
        /\ CountBefore(E, at + 1) = c + 1
    BY <1>2, <1>7, TakenLines DEF Taken, storeExpression, Settings, Switches, Numbers
  <2>2. CASE Len(sExpressions) < MAX_EXPRESSION_ENTRIES
    <3>1. /\ Len(sExpressions) = Len(old) + c
          /\ sExpressions' = Append(sExpressions, file[at].word)
      BY <1>2, <1>3, <2>1, <2>2
    <3>2. /\ Len(sExpressions') = Len(old) + c + 1
          /\ sExpressions'[Len(old) + c + 1] = file[at].word
          /\ \A k \in 1 .. Len(old) + c : sExpressions'[k] = sExpressions[k]
      BY <1>2, <1>3, <3>1
    <3>3. Len(sExpressions') = Full(Len(old) + CountBefore(E, at + 1))
      BY <1>2, <1>3, <2>1, <2>2, <3>1, <3>2
    <3>4. \A k \in 1 .. Len(old) : sExpressions'[k] = old[k]
      BY <1>2, <1>3, <3>2
    <3>5. ASSUME NEW n \in E, n < at \/ n = at,
                 Len(old) + CountBefore(E, n) + 1 <= MAX_EXPRESSION_ENTRIES
          PROVE  sExpressions'[Len(old) + CountBefore(E, n) + 1] = file[n].word
      <4>1. CASE n = at
        BY <3>2, <4>1
      <4>2. CASE n < at
        <5>1. Len(old) + CountBefore(E, n) + 1 \in 1 .. Len(old) + c
          BY <1>2, <1>3, <1>5, <4>2
        <5>2. sExpressions[Len(old) + CountBefore(E, n) + 1] = file[n].word
          BY <1>3, <3>5, <4>2
        <5> QED BY <3>2, <5>1, <5>2
      <4> QED BY <3>5, <4>1, <4>2
    <3> QED BY <3>3, <3>4, <3>5
  <2>3. CASE ~ (Len(sExpressions) < MAX_EXPRESSION_ENTRIES)
    <3>1. sExpressions' = sExpressions /\ Len(old) + c >= MAX_EXPRESSION_ENTRIES
      BY <1>2, <1>3, <2>1, <2>3
    <3>2. Len(sExpressions') = Full(Len(old) + CountBefore(E, at + 1))
      BY <1>2, <1>3, <2>1, <2>3, <3>1
    <3>3. ASSUME NEW n \in E, n < at \/ n = at,
                 Len(old) + CountBefore(E, n) + 1 <= MAX_EXPRESSION_ENTRIES
          PROVE  n < at
      BY <1>2, <1>3, <3>1, <3>3
    <3> QED BY <1>3, <3>1, <3>2, <3>3
  <2> QED BY <2>2, <2>3
<1>8. CASE file[at].key # "exprlist"
  <2>1. sExpressions' = sExpressions /\ CountBefore(E, at + 1) = c
    BY <1>2, <1>8, TakenLines
  <2>2. \A n \in E : n < at \/ n = at => n < at
    BY <1>2, <1>8
  <2> QED BY <1>3, <2>1, <2>2
<1> QED BY <1>7, <1>8

\* An expression is added while there is room for it.
LEMMA RoomForOneMore ==
    ASSUME NEW S, NEW s \in Seq(S), NEW e \in S, NEW room \in Nat, Len(s) <= room
    PROVE  LET r == IF Len(s) < room THEN Append(s, e) ELSE s
           IN  r \in Seq(S) /\ Len(r) <= room
<1>1. /\ Len(s) \in Nat /\ Append(s, e) \in Seq(S) /\ Len(Append(s, e)) = Len(s) + 1
  BY AppendProperties
<1>2. Len(s) < room => Len(s) + 1 <= room
  BY <1>1
<1> QED BY <1>1, <1>2

LEMMA TakenStep ==
    ASSUME Inv, Taken
    PROVE  Inv'
<1>1. /\ LinePasses /\ file' = file /\ at' = at + 1 /\ pc = "line" /\ pc' = "line"
      /\ UNCHANGED <<approxInterfaces, check>>
  BY TakenPasses DEF LinePasses
<1>2. /\ at + 1 \in Nat /\ at + 1 \in 1 .. Len(file) + 1 /\ file[at].word \in STRING
  <2>1. file[at] \in Line
    BY <1>1, OneLineMore DEF Inv
  <2> QED BY <1>1, <2>1, OneLineMore DEF Inv, LinePasses, Line
<1>3. interfaceCount' \in Nat /\ prefixCount' \in Nat
  BY DEF Taken, SkipLine, StorePrefix, StoreInterface, SetValue, SetTargets, ListAddress,
         storeExpression, Inv, TypeInv
<1>4. conf' = [key \in Settings |-> conf'[key]]
  <2>1. CASE SetValue \/ SetTargets
    BY <2>1 DEF SetValue, SetTargets, Inv, TypeInv
  <2>2. CASE ~ (SetValue \/ SetTargets)
    BY <2>2, TakenLines DEF Inv, TypeInv
  <2> QED BY <2>1, <2>2
<1>5. sExpressions' \in Seq(STRING) /\ Len(sExpressions') <= MAX_EXPRESSION_ENTRIES
  <2>1. sExpressions \in Seq(STRING) /\ Len(sExpressions) <= MAX_EXPRESSION_ENTRIES
    BY DEF Inv, TypeInv
  <2>2. CASE storeExpression
    <3> DEFINE w == file[at].word
    <3>1. w \in STRING /\ MAX_EXPRESSION_ENTRIES \in Nat
      BY <1>2, FilesAssumption
    <3>2. sExpressions' = IF Len(sExpressions) < MAX_EXPRESSION_ENTRIES
                            THEN Append(sExpressions, w) ELSE sExpressions
      BY <2>2 DEF storeExpression
    <3> QED BY <2>1, <3>1, <3>2, RoomForOneMore
  <2>3. CASE ~ storeExpression
    BY <2>1, <2>3, TakenLines
  <2> QED BY <2>2, <2>3
<1>6. TypeInv'
  BY <1>1, <1>2, <1>3, <1>4, <1>5 DEF Inv, TypeInv
<1>7. UntouchedInv' /\ CountInv' /\ LookupInv'
  BY <1>1 DEF UntouchedInv, CountInv, LookupInv
<1> QED BY <1>6, <1>7, TableStep, GlobalsStep, ExpressionsStep DEF Inv

-----------------------------------------------------------------------------
(* The other steps.                                                        *)

LEMMA StopStep ==
    ASSUME Inv, NEW how \in {"failed", "wild"}, Stop(how),
           how = "wild" => file # NoFile /\ ~ HasRoom(file)
    PROVE  Inv'
<1>1. HasRoom(file)' <=> HasRoom(file)
  BY DEF Stop, fileVars, HasRoom, LinesWith, CountingLines
<1> QED BY <1>1 DEF Stop, Inv, TypeInv, UntouchedInv, CountInv, TableInv, GlobalsInv, ExpressionsInv, LookupInv,
         fileVars, countVars, listVars

LEMMA CallStep == ASSUME Inv, Call PROVE Inv'
<1> USE DEF Call, countVars, listVars
<1>1. /\ before'.conf = conf /\ before'.lRoot = lRoot /\ before'.tRoot = tRoot
      /\ before'.sExpressions = sExpressions
  BY DEF Result
<1>2. TypeInv'
  BY DEF Inv, TypeInv
<1>3. UntouchedInv'
  BY <1>1 DEF UntouchedInv
<1>4. ExpressionsInv'
  BY <1>1 DEF Inv, TypeInv, ExpressionsInv
<1> QED BY <1>2, <1>3, <1>4 DEF Inv, CountInv, TableInv, GlobalsInv, LookupInv

LEMMA OpenStep == ASSUME Inv, Open PROVE Inv'
<1>1. /\ pc = "open" /\ pc' = "count" /\ file # NoFile /\ at' = 1 /\ approxInterfaces' = 0
      /\ interfaceCount' = 0 /\ prefixCount' = 0
      /\ conf' = [conf EXCEPT !["pollErrorLimit"] = DefaultErrorLimit]
      /\ UNCHANGED <<file, check, lRoot, sExpressions, tRoot, before>>
  BY DEF Open, listVars
<1>2. /\ Len(file) \in Nat /\ CountingLines(file) \in SUBSET Nat
  BY <1>1, FileLines DEF Inv, TypeInv
<1>3. TypeInv'
  BY <1>1, <1>2 DEF Inv, TypeInv
<1>4. UntouchedInv'
  BY <1>1 DEF Inv, UntouchedInv
<1>5. CountBefore(CountingLines(file), 1) = 0
  <2>1. \A n \in CountingLines(file) : n \in 1 .. Len(file)
    BY <1>1, <1>2, FileLines DEF CountingLines, Inv, TypeInv
  <2>2. {n \in CountingLines(file) : n < 1} = {}
    BY <1>2, <2>1
  <2> QED BY <2>2, FS_EmptySet DEF CountBefore
<1>6. CountInv'
  BY <1>1, <1>5 DEF CountInv, CountingLines
<1>7. ExpressionsInv'
  BY <1>1 DEF Inv, ExpressionsInv
<1> QED BY <1>1, <1>3, <1>4, <1>6, <1>7 DEF Inv, TableInv, GlobalsInv, LookupInv

LEMMA CountLineStep == ASSUME Inv, CountLine PROVE Inv'
<1>1. /\ pc = "count" /\ pc' = "count" /\ at <= Len(file) /\ at' = at + 1
      /\ approxInterfaces' = approxInterfaces + IF CountsAsInterface(file[at]) THEN 1 ELSE 0
      /\ UNCHANGED <<file, interfaceCount, prefixCount, check, conf, lRoot, sExpressions, tRoot, before>>
  BY DEF CountLine, Counted, listVars
<1>2. /\ file \in Files /\ file # NoFile /\ at \in Nat /\ at \in 1 .. Len(file) /\ Len(file) \in Nat
      /\ CountingLines(file) \in SUBSET Nat
  BY <1>1, FileLines DEF Inv, TypeInv
<1>3. TypeInv'
  BY <1>1, <1>2 DEF Inv, TypeInv
<1>4. UntouchedInv'
  BY <1>1 DEF Inv, UntouchedInv
<1>5. at \in CountingLines(file) <=> CountsAsInterface(file[at])
  BY <1>2, FileLines DEF CountingLines
<1>6. approxInterfaces' = CountBefore(CountingLines(file), at + 1)
  <2> DEFINE S == CountingLines(file)
  <2>1. approxInterfaces = CountBefore(S, at) /\ (at \in S <=> CountsAsInterface(file[at]))
    BY <1>1, <1>5 DEF Inv, CountInv
  <2>2. approxInterfaces' = approxInterfaces + IF at \in S THEN 1 ELSE 0
    BY <1>1, <2>1
  <2>3. S \in SUBSET Nat
    BY <1>2
  <2> HIDE DEF S
  <2>4. CountBefore(S, at + 1) = CountBefore(S, at) + IF at \in S THEN 1 ELSE 0
    BY <1>2, <2>3, CountNext
  <2> QED BY <2>1, <2>2, <2>4 DEF S
<1>7. CountInv'
  BY <1>1, <1>6 DEF Inv, CountInv, CountingLines
<1>8. ExpressionsInv'
  BY <1>1 DEF Inv, ExpressionsInv
<1> QED BY <1>1, <1>3, <1>4, <1>7, <1>8 DEF Inv, TableInv, GlobalsInv, LookupInv

\* The line to be stored outside is one more of its kind than there is room for.
LEMMA OutsideStep ==
    ASSUME Inv, StoreOutside
    PROVE  file # NoFile /\ ~ HasRoom(file) /\ Inv'
<1>1. pc = "line" /\ at <= Len(file) /\ Outside(file[at]) /\ Stop("wild")
  BY DEF StoreOutside
<1>2. /\ file \in Files /\ file # NoFile /\ at \in DOMAIN file
      /\ approxInterfaces = Cardinality(CountingLines(file)) /\ approxInterfaces \in Nat
      /\ interfaceCount = CountBefore(LinesWith(file, "interface"), at)
      /\ prefixCount = CountBefore(LinesWith(file, "prefix"), at)
  BY <1>1, FileLines DEF Inv, TypeInv, TableInv
<1>3. PICK key \in {"interface", "prefix"} :
        at \in LinesWith(file, key) /\ CountBefore(LinesWith(file, key), at) >= approxInterfaces
  BY <1>1, <1>2 DEF Outside, LinesWith
<1>4. ~ (Cardinality(LinesWith(file, key)) <= Cardinality(CountingLines(file)))
  <2> DEFINE before_ == CountBefore(LinesWith(file, key), at)
             all == Cardinality(LinesWith(file, key))
  <2>1. before_ \in Nat /\ all \in Nat /\ before_ < all
    BY <1>2, <1>3, OneOfThem
  <2>2. before_ >= approxInterfaces
    BY <1>3
  <2> HIDE DEF before_, all
  <2>3. ~ (all <= approxInterfaces)
    BY <1>2, <2>1, <2>2
  <2> QED BY <1>2, <2>3 DEF all
<1>5. ~ HasRoom(file)
  BY <1>3, <1>4 DEF HasRoom
<1> QED BY <1>1, <1>2, <1>5, StopStep

\* The table is there, zeroed, and no line has been read.
LEMMA AllocateStep == ASSUME Inv, Allocate PROVE Inv'
<1>1. /\ pc = "count" /\ pc' = "line" /\ at > Len(file) /\ at' = 1
      /\ interfaces' = [i \in 0 .. approxInterfaces - 1 |-> Entry]
      /\ UNCHANGED <<file, approxInterfaces, interfaceCount, prefixCount, check, conf, lRoot,
                     sExpressions, tRoot, before>>
  BY DEF Allocate, countVars, listVars
<1>2. /\ file \in Files /\ file # NoFile /\ Len(file) \in Nat /\ at = Len(file) + 1
      /\ DOMAIN file = 1 .. Len(file)
  BY <1>1, FileLines DEF Inv, TypeInv
<1>3. TypeInv'
  BY <1>1, <1>2 DEF Inv, TypeInv
<1>4. approxInterfaces = Cardinality(CountingLines(file)) /\ interfaceCount = 0 /\ prefixCount = 0
  BY <1>1, <1>2, FileLines DEF Inv, CountInv
<1>5. \A n \in DOMAIN file : ~ (n < 1)
  BY <1>2
<1>6. \A key : CountBefore(LinesWith(file, key), 1) = 0
  <2>1. ASSUME NEW key PROVE CountBefore(LinesWith(file, key), 1) = 0
    <3>1. {n \in LinesWith(file, key) : n < 1} = {}
      BY <1>5 DEF LinesWith
    <3> QED BY <3>1, FS_EmptySet DEF CountBefore
  <2> QED BY <2>1
<1>7. \A key : SoFar(key)' = {}
  BY <1>1, <1>5 DEF SoFar, LinesWith
<1>8. TableInv'
  <2>1. Entry \in Entries
    BY DEF Entry, Entries
  <2>2. \A key : LinesWith(file, key)' = LinesWith(file, key)
    BY <1>1 DEF LinesWith
  <2>3. interfaces' \in [0 .. approxInterfaces - 1 -> Entries]
    BY <1>1, <2>1
  <2>4. \A key : \A n \in LinesWith(file, key) : ~ (n < 1)
    BY <1>5 DEF LinesWith
  <2>5. CountingLines(file)' = CountingLines(file)
    BY <1>1 DEF CountingLines
  <2>6. 0 <= approxInterfaces
    BY DEF Inv, TypeInv
  <2> QED BY <1>1, <1>4, <1>6, <2>2, <2>3, <2>4, <2>5, <2>6 DEF TableInv
<1>9. /\ \A key \in Settings : conf[key] = IF key = "pollErrorLimit" THEN DefaultErrorLimit
                                           ELSE before.conf[key]
      /\ lRoot = before.lRoot /\ tRoot = before.tRoot /\ sExpressions = before.sExpressions
  <2>1. conf = [before.conf EXCEPT !["pollErrorLimit"] = DefaultErrorLimit]
    BY <1>1 DEF Inv, UntouchedInv
  <2>2. \A key \in Settings : key \in DOMAIN conf
    BY DEF Inv, TypeInv
  <2>3. \A key \in Settings : conf[key] = IF key = "pollErrorLimit" THEN DefaultErrorLimit
                                          ELSE before.conf[key]
    BY <2>1, <2>2
  <2> QED BY <1>1, <2>3 DEF Inv, UntouchedInv
<1>10. GlobalsInv'
  <2>1. \A n \in DOMAIN file : n < 1 => Accepted(file[n])
    BY <1>5
  <2>2. {file[n].word : n \in SoFar("addrlist")'} = {}
    BY <1>7
  <2>3. lRoot' = before.lRoot \cup ({file[n].word : n \in SoFar("addrlist")'} \cap Addresses)
    BY <1>1, <1>9, <2>2
  <2> QED BY <1>1, <1>7, <1>9, <2>1, <2>3 DEF GlobalsInv
<1>11. ExpressionsInv'
  <2> DEFINE E == LinesWith(file, "exprlist")
  <2>1. E' = E /\ CountBefore(E, 1) = 0 /\ \A n \in E : ~ (n < 1)
    BY <1>1, <1>5, <1>6 DEF LinesWith
  <2>2. /\ before.sExpressions \in Seq(STRING) /\ Len(before.sExpressions) <= MAX_EXPRESSION_ENTRIES
        /\ MAX_EXPRESSION_ENTRIES \in Nat
    BY FilesAssumption DEF Inv, ExpressionsInv
  <2>3. Len(before.sExpressions) \in Nat
    BY <2>2
  <2>4. Len(before.sExpressions) + 0 = Len(before.sExpressions)
    BY <2>3
  <2>5. Len(before.sExpressions) = IF Len(before.sExpressions) < MAX_EXPRESSION_ENTRIES
                                   THEN Len(before.sExpressions) ELSE MAX_EXPRESSION_ENTRIES
    BY <2>2, <2>3
  <2> HIDE DEF E
  <2>6. /\ at' = 1 /\ sExpressions' = before.sExpressions /\ before' = before
    BY <1>1, <1>9
  <2> QED BY <2>1, <2>2, <2>4, <2>5, <2>6 DEF ExpressionsInv, E
<1> QED BY <1>1, <1>3, <1>8, <1>10, <1>11 DEF Inv, UntouchedInv, CountInv, LookupInv

LEMMA EndOfFileStep == ASSUME Inv, EndOfFile PROVE Inv'
<1>1. /\ pc = "line" /\ pc' = "lookup" /\ at > Len(file) /\ Paired /\ check' = 0
      /\ UNCHANGED <<file, at, approxInterfaces, interfaceCount, prefixCount, interfaces, conf, lRoot,
                     sExpressions, tRoot, before>>
  BY DEF EndOfFile, fileVars, listVars
<1>2. at = Len(file) + 1 /\ interfaceCount \in Nat
  BY <1>1, FileLines DEF Inv, TypeInv
<1>3. TypeInv'
  BY <1>1 DEF Inv, TypeInv
<1>4. TableInv'
  BY <1>1 DEF Inv, TableInv, CountingLines, LinesWith
<1>5. GlobalsInv'
  BY <1>1 DEF Inv, GlobalsInv, SoFar, LinesWith
<1>6. ExpressionsInv'
  BY <1>1 DEF Inv, ExpressionsInv, LinesWith
<1>7. LookupInv'
  BY <1>1, <1>2 DEF LookupInv, Paired
<1> QED BY <1>1, <1>3, <1>4, <1>5, <1>6, <1>7 DEF Inv, UntouchedInv, CountInv

\* The entry looked up keeps its texts, and the name was there.
LEMMA LookUpStep == ASSUME Inv, LookUp PROVE Inv'
<1> DEFINE Places == 0 .. approxInterfaces - 1
           e == [interfaces[check] EXCEPT !.index = 1]
<1>1. /\ pc = "lookup" /\ pc' = "lookup" /\ check < interfaceCount /\ check' = check + 1
      /\ interfaces[check].nameStr \in Present
      /\ interfaces' = [interfaces EXCEPT ![check].index = 1]
      /\ UNCHANGED <<file, at, approxInterfaces, interfaceCount, prefixCount, conf, lRoot,
                     sExpressions, tRoot, before>>
  BY DEF LookUp, fileVars, listVars
<1>2. /\ file \in Files /\ file # NoFile /\ at \in Nat /\ at \in 1 .. Len(file) + 1
      /\ check \in Nat /\ interfaceCount \in Nat /\ approxInterfaces \in Nat
      /\ approxInterfaces = Cardinality(CountingLines(file))
      /\ interfaces \in [Places -> Entries]
      /\ interfaceCount = CountBefore(LinesWith(file, "interface"), at)
      /\ prefixCount = CountBefore(LinesWith(file, "prefix"), at) /\ prefixCount \in Nat
      /\ prefixCount <= approxInterfaces
  BY <1>1 DEF Inv, TypeInv, TableInv
<1>3. interfaceCount <= approxInterfaces
  BY <1>1 DEF Inv, TableInv
<1>4. check \in Places
  BY <1>1, <1>2, <1>3
<1>4a. \A k \in 0 .. check : k \in Places
  BY <1>1, <1>2, <1>3
<1>4b. \A k \in 0 .. check : k = check \/ k \in 0 .. check - 1
  BY <1>2
<1> HIDE DEF Places
<1>5. interfaces' = [interfaces EXCEPT ![check] = e] /\ interfaces[check] \in Entries
  BY <1>1, <1>2, <1>4 DEF Entries
<1>6. /\ e \in Entries /\ e.nameStr = interfaces[check].nameStr /\ e.index = 1
      /\ e.prefix = interfaces[check].prefix /\ e.prefixLen = interfaces[check].prefixLen
  BY <1>5 DEF Entries
<1> HIDE DEF e
<1>7. interfaces' \in [Places -> Entries]
  BY <1>2, <1>5, <1>6
<1>8. \A k \in Places : /\ interfaces'[k].nameStr = interfaces[k].nameStr
                        /\ interfaces'[k].prefix = interfaces[k].prefix
                        /\ interfaces'[k].prefixLen = interfaces[k].prefixLen
                        /\ k # check => interfaces'[k] = interfaces[k]
  BY <1>2, <1>4, <1>5, <1>6
<1>9. interfaces'[check].index = 1
  BY <1>2, <1>4, <1>5, <1>6
<1>10. TypeInv'
  BY <1>1, <1>2 DEF Inv, TypeInv
<1>11. TableInv'
  <2> DEFINE I == LinesWith(file, "interface")
             P == LinesWith(file, "prefix")
  <2>1. /\ I' = I /\ P' = P /\ CountingLines(file)' = CountingLines(file)
    BY <1>1 DEF LinesWith, CountingLines
  <2>2. /\ \A n \in I : n < at => CountBefore(I, n) \in Places
        /\ \A n \in P : n < at => CountBefore(P, n) \in Places
    <3>1. ASSUME NEW key \in {"interface", "prefix"}, NEW n \in LinesWith(file, key), n < at
          PROVE  CountBefore(LinesWith(file, key), n) \in Places
      <4>1. LinesWith(file, key) \in SUBSET Nat
        BY <1>2, FileLines
      <4>2. /\ CountBefore(LinesWith(file, key), n) \in Nat
            /\ CountBefore(LinesWith(file, key), at) \in Nat
            /\ CountBefore(LinesWith(file, key), n) < CountBefore(LinesWith(file, key), at)
        BY <1>2, <3>1, <4>1, CountOrder, CountIsNumber
      <4>3. CountBefore(LinesWith(file, key), at) <= approxInterfaces
        BY <1>2, <1>3
      <4> QED BY <1>2, <4>2, <4>3 DEF Places
    <3> QED BY <3>1
  <2>3. /\ interfaceCount = CountBefore(I, at) /\ prefixCount = CountBefore(P, at)
        /\ \A n \in I : n < at => interfaces[CountBefore(I, n)].nameStr = file[n].word
        /\ \A n \in P : n < at => /\ interfaces[CountBefore(P, n)].prefix = file[n].word
                                 /\ interfaces[CountBefore(P, n)].prefixLen = PrefixLen(file[n])
    BY <1>1 DEF Inv, TableInv
  <2> HIDE DEF I, P
  <2>4. /\ \A n \in I : n < at => interfaces'[CountBefore(I, n)].nameStr = file[n].word
        /\ \A n \in P : n < at => /\ interfaces'[CountBefore(P, n)].prefix = file[n].word
                                 /\ interfaces'[CountBefore(P, n)].prefixLen = PrefixLen(file[n])
    BY <1>8, <2>2, <2>3
  <2> QED BY <1>1, <1>2, <1>3, <1>7, <2>1, <2>3, <2>4 DEF TableInv, I, P, Places
<1>12. LookupInv'
  <2>1. ASSUME NEW k \in 0 .. check
        PROVE  interfaces'[k].index = 1 /\ interfaces'[k].nameStr \in Present
    <3>1. CASE k = check
      BY <1>1, <1>4, <1>8, <1>9, <3>1
    <3>2. CASE k # check
      <4>1. k \in 0 .. check - 1 /\ k \in Places
        BY <1>4a, <1>4b, <3>2
      <4>2. interfaces[k].index = 1 /\ interfaces[k].nameStr \in Present
        BY <1>1, <4>1 DEF Inv, LookupInv
      <4> QED BY <1>8, <3>2, <4>1, <4>2
    <3> QED BY <3>1, <3>2
  <2>2. check' - 1 = check /\ check' <= interfaceCount
    BY <1>1, <1>2
  <2>3. Paired' /\ at' = Len(file') + 1 /\ pc' # "wild"
    BY <1>1 DEF Inv, LookupInv, Paired
  <2> QED BY <1>1, <2>1, <2>2, <2>3 DEF LookupInv
<1>13. GlobalsInv' /\ ExpressionsInv'
  BY <1>1 DEF Inv, GlobalsInv, ExpressionsInv, SoFar, LinesWith
<1> QED BY <1>1, <1>10, <1>11, <1>12, <1>13 DEF Inv, UntouchedInv, CountInv

\* The call is over: what each entry in use came to.
LEMMA LookedUp ==
    ASSUME TypeInv, TableInv, LookupInv, pc = "lookup", check >= interfaceCount
    PROVE  \A k \in 0 .. interfaceCount - 1 :
             /\ interfaces[k].nameStr \in STRING /\ interfaces[k].prefix \in STRING
             /\ interfaces[k].nameStr \in Present /\ interfaces[k].index = 1
<1> DEFINE I == LinesWith(file, "interface")
           P == LinesWith(file, "prefix")
<1>1. /\ file \in Files /\ file # NoFile /\ at \in Nat /\ at = Len(file) + 1 /\ at \in 1 .. Len(file) + 1
      /\ check = interfaceCount /\ interfaceCount = prefixCount /\ interfaceCount \in Nat
      /\ interfaceCount = CountBefore(I, at) /\ prefixCount = CountBefore(P, at)
      /\ \A n \in I : n < at => interfaces[CountBefore(I, n)].nameStr = file[n].word
      /\ \A n \in P : n < at => interfaces[CountBefore(P, n)].prefix = file[n].word
      /\ \A k \in 0 .. check - 1 : interfaces[k].index = 1 /\ interfaces[k].nameStr \in Present
  BY DEF TypeInv, TableInv, LookupInv, Paired
<1>3. /\ I \in SUBSET Nat /\ P \in SUBSET Nat
      /\ \A n \in I : file[n].word \in STRING
      /\ \A n \in P : file[n].word \in STRING
  <2>1. \A n \in DOMAIN file : file[n] \in Line
    BY <1>1, FileLines
  <2> QED BY <1>1, <2>1, FileLines DEF LinesWith, Line
<1> HIDE DEF I, P
<1>4. ASSUME NEW k \in 0 .. interfaceCount - 1
      PROVE  interfaces[k].nameStr \in STRING /\ interfaces[k].prefix \in STRING
  <2>1. k \in Nat /\ k < interfaceCount /\ k < prefixCount
    <3>1. interfaceCount \in Nat /\ interfaceCount = prefixCount
      BY <1>1
    <3>2. k \in Nat /\ k < interfaceCount
      BY <3>1
    <3> QED BY <3>1, <3>2
  <2>2. PICK n \in I : n < at /\ CountBefore(I, n) = k
    BY <1>1, <1>3, <2>1, CountOnto
  <2>3. PICK m \in P : m < at /\ CountBefore(P, m) = k
    BY <1>1, <1>3, <2>1, CountOnto
  <2> QED BY <1>1, <1>3, <2>2, <2>3
<1> QED BY <1>1, <1>4

LEMMA ReturnStep == ASSUME Inv, Return PROVE Inv'
<1>1. /\ pc = "lookup" /\ pc' = "idle" /\ check >= interfaceCount
      /\ UNCHANGED <<file, at, approxInterfaces, interfaceCount, prefixCount, check, interfaces,
                     conf, lRoot, sExpressions, tRoot, before>>
  BY DEF Return, fileVars, countVars, listVars
<1>2. TypeInv'
  BY <1>1 DEF Inv, TypeInv
<1>3. ExpressionsInv'
  BY <1>1 DEF Inv, ExpressionsInv
<1>4. \A k \in 0 .. interfaceCount - 1 :
        /\ interfaces[k].nameStr \in STRING /\ interfaces[k].prefix \in STRING
        /\ interfaces[k].index = 1
  BY <1>1, LookedUp DEF Inv
<1>5. \A k \in 0 .. interfaceCount - 1 :
        /\ Unset \notin {interfaces[k].nameStr, interfaces[k].prefix}
        /\ interfaces[k].index # 0
  BY <1>4, FilesAssumption
<1>6. LookupInv'
  BY <1>1, <1>4, <1>5 DEF LookupInv
<1> QED BY <1>1, <1>2, <1>3, <1>6 DEF Inv, UntouchedInv, CountInv, TableInv, GlobalsInv

LEMMA StoreTargetStep == ASSUME Inv, NEW t \in Targets, storeTarget(t) PROVE Inv'
  BY DEF storeTarget, Inv, TypeInv, UntouchedInv, CountInv, TableInv, GlobalsInv, ExpressionsInv,
         LookupInv, fileVars, countVars, listVars

LEMMA InvInit == Init => Inv
<1> SUFFICES ASSUME Init PROVE Inv
  OBVIOUS
<1>1. <<>> \in Seq(STRING) /\ Len(<<>>) = 0
  OBVIOUS
<1>2. /\ before.conf = conf /\ before.lRoot = lRoot /\ before.tRoot = tRoot
      /\ before.sExpressions = sExpressions
  BY DEF Init, Result
<1>3. TypeInv
  BY <1>1, FilesAssumption DEF Init, TypeInv, Defaults
<1>4. ExpressionsInv
  BY <1>1, <1>2, FilesAssumption DEF Init, ExpressionsInv
<1> QED BY <1>2, <1>3, <1>4 DEF Init, Inv, UntouchedInv, CountInv, TableInv, GlobalsInv, LookupInv

LEMMA InvStutters == ASSUME Inv, UNCHANGED vars PROVE Inv'
  BY DEF vars, fileVars, countVars, listVars, Inv, TypeInv, UntouchedInv, CountInv, TableInv,
         GlobalsInv, ExpressionsInv, LookupInv, SoFar, LinesWith, CountingLines, Paired, HasRoom

LEMMA NextTaken ==
    Next <=> \/ Taken \/ Open \/ OpenFails \/ CountLine \/ Allocate \/ RefuseLine \/ StoreOutside
             \/ EndOfFile \/ Unpaired \/ LookUp \/ LookUpFails \/ Return \/ Call
             \/ \E t \in Targets : storeTarget(t)
  BY DEF Next, Read, ReadLine, Taken

LEMMA InvNext == ASSUME Inv, [Next]_vars PROVE Inv'
<1>1. ASSUME OpenFails \/ RefuseLine \/ Unpaired \/ LookUpFails PROVE Inv'
  <2>1. Stop("failed")
    BY <1>1 DEF OpenFails, RefuseLine, Unpaired, LookUpFails, Fail
  <2> QED BY <2>1, StopStep
<1> QED BY OutsideStep, <1>1, NextTaken, TakenStep, OpenStep, CountLineStep, AllocateStep, EndOfFileStep, LookUpStep,
           ReturnStep, CallStep, StoreTargetStep, InvStutters

LEMMA ConfigInvariant == Spec => []Inv
<1>1. Inv /\ [Next]_vars => Inv'
  BY InvNext
<1> QED BY <1>1, InvInit, PTL DEF Spec

\* Whatever the files say: nothing is stored past the end of interfaces[] but by
\* a file with more prefixes or names than lines that say "interface", and a call
\* that returns has filled every entry it leaves in use.
THEOREM TableIsLargeEnough == Spec => []TableHolds
<1>1. Inv => TableHolds
  BY DEF Inv, LookupInv, TableHolds
<1> QED BY <1>1, ConfigInvariant, PTL

-----------------------------------------------------------------------------
(* Line by line or at once.                                                *)

LEMMA SameFile ==
    /\ \A S : Store!Cardinality(S) = Cardinality(S)
    /\ \A f, key : Store!LinesWith(f, key) = LinesWith(f, key)
    /\ \A S, n : Store!CountBefore(S, n) = CountBefore(S, n)
    /\ \A f : Store!HasRoom(f) <=> HasRoom(f)
    /\ \A l : Store!Accepted(l) = Accepted(l)
    /\ \A l : Store!Value(l) = Value(l)
    /\ \A l : Store!PrefixLen(l) = PrefixLen(l)
    /\ Store!Settings = Settings /\ Store!DefaultErrorLimit = DefaultErrorLimit
    /\ Store!Defaults = Defaults
<1>0. ASSUME NEW S PROVE Store!Cardinality(S) = Cardinality(S)
  BY DEF Store!Cardinality, Cardinality
<1>1. /\ Store!Settings = Settings /\ Store!Switches = Switches /\ Store!Numbers = Numbers
      /\ Store!DefaultErrorLimit = DefaultErrorLimit /\ Store!NOMASK = NOMASK
      /\ \A key : Store!On(key) = On(key) /\ Store!Off(key) = Off(key)
  BY DEF Store!Settings, Settings, Store!Switches, Switches, Store!Numbers, Numbers, Store!NOMASK,
         NOMASK, Store!DefaultErrorLimit, DefaultErrorLimit, Store!On, On, Store!Off, Off
<1>2. \A f, key : Store!LinesWith(f, key) = LinesWith(f, key)
  BY DEF Store!LinesWith, LinesWith
<1>3. \A S, n : Store!CountBefore(S, n) = CountBefore(S, n)
  BY <1>0 DEF Store!CountBefore, CountBefore
<1>4. \A l : Store!Accepted(l) = Accepted(l)
  <2>1. Store!MAXTARGETS = MAXTARGETS
    BY DEF Store!MAXTARGETS, MAXTARGETS
  <2> QED BY <1>1, <2>1, Zenon DEF Store!Accepted, Accepted
<1>5. \A l : Store!Value(l) = Value(l)
  BY <1>1 DEF Store!Value, Value
<1>6. \A l : Store!PrefixLen(l) = PrefixLen(l)
  BY <1>1 DEF Store!PrefixLen, PrefixLen
<1>7. Store!Defaults = Defaults
  BY <1>1 DEF Store!Defaults, Defaults
<1>8. \A f : Store!HasRoom(f) <=> HasRoom(f)
  <2>1. \A f : Store!CountingLines(f) = CountingLines(f)
    BY DEF Store!CountingLines, CountingLines, Store!CountsAsInterface, CountsAsInterface
  <2> QED BY <1>0, <1>2, <2>1 DEF Store!HasRoom, HasRoom
<1> QED BY <1>0, <1>1, <1>2, <1>3, <1>4, <1>5, <1>6, <1>7, <1>8

\* The lines with a keyword are told apart by how many come before.
LEMMA NthLine ==
    ASSUME NEW f \in Files, f # NoFile, NEW key, NEW n \in LinesWith(f, key)
    PROVE  Store!Nth(f, key, CountBefore(LinesWith(f, key), n) + 1) = f[n]
<1> DEFINE S == LinesWith(f, key)
           k == CountBefore(S, n) + 1
<1>1. S \in SUBSET Nat
  BY FileLines
<1>2. Store!Nth(f, key, k) = f[CHOOSE m \in S : CountBefore(S, m) = k - 1]
  BY SameFile DEF Store!Nth
<1>3. n \in S
  OBVIOUS
<1> HIDE DEF S
<1>4. CountBefore(S, n) \in Nat /\ n \in Nat
  BY <1>1, <1>3, CountNext
<1>5. CountBefore(S, n) = k - 1
  BY <1>4
<1>6. ASSUME NEW m \in S, CountBefore(S, m) = k - 1 PROVE m = n
  <2>1. m \in Nat /\ CountBefore(S, m) = CountBefore(S, n)
    BY <1>1, <1>5, <1>6
  <2>2. m < n => CountBefore(S, m) < CountBefore(S, n)
    BY <1>1, <1>4, CountOrder
  <2>3. n < m => CountBefore(S, n) < CountBefore(S, m)
    BY <1>1, <1>3, <2>1, CountOrder
  <2> QED BY <1>4, <2>1, <2>2, <2>3
<1> HIDE DEF k
<1>7. (CHOOSE m \in S : CountBefore(S, m) = k - 1) = n
  BY <1>3, <1>5, <1>6
<1> QED BY <1>2, <1>7 DEF S, k

\* ... and every number up to the count is that of one.
LEMMA LineOfNumber ==
    ASSUME NEW f \in Files, f # NoFile, NEW key,
           NEW k \in 0 .. Cardinality(LinesWith(f, key)) - 1
    PROVE  \E n \in LinesWith(f, key) : /\ n \in DOMAIN f /\ n < Len(f) + 1
                                        /\ CountBefore(LinesWith(f, key), n) = k
                                        /\ Store!Nth(f, key, k + 1) = f[n]
<1> DEFINE S == LinesWith(f, key)
<1>1. /\ S \in SUBSET Nat /\ Len(f) + 1 \in Nat /\ CountBefore(S, Len(f) + 1) = Cardinality(S)
      /\ \A n \in S : n \in DOMAIN f
  <2>1. /\ S \in SUBSET Nat /\ Len(f) \in Nat /\ CountBefore(S, Len(f) + 1) = Cardinality(S)
        /\ \A n \in S : n \in DOMAIN f
    BY FileLines DEF LinesWith
  <2> HIDE DEF S
  <2> QED BY <2>1
<1> HIDE DEF S
<1>2. CountBefore(S, Len(f) + 1) \in Nat
  BY <1>1, CountIsNumber
<1>3. k \in Nat /\ k < CountBefore(S, Len(f) + 1)
  <2>1. k \in 0 .. CountBefore(S, Len(f) + 1) - 1
    BY <1>1 DEF S
  <2> QED BY <1>2, <2>1
<1>4. PICK n \in S : n < Len(f) + 1 /\ CountBefore(S, n) = k
  BY <1>1, <1>3, CountOnto
<1>5. Store!Nth(f, key, k + 1) = f[n]
  BY <1>4, NthLine DEF S
<1> QED BY <1>1, <1>4, <1>5 DEF S

\* The last line with a keyword, if there is one.
LEMMA LastLine ==
    ASSUME NEW f \in Files, f # NoFile, NEW key
    PROVE  /\ Cardinality(LinesWith(f, key)) \in Nat
           /\ Cardinality(LinesWith(f, key)) = 0 => LinesWith(f, key) = {}
           /\ Cardinality(LinesWith(f, key)) > 0 =>
                \E n \in LinesWith(f, key) :
                  /\ \A m \in LinesWith(f, key) : m <= n
                  /\ Store!Nth(f, key, Cardinality(LinesWith(f, key))) = f[n]
<1> DEFINE S == LinesWith(f, key)
           c == Cardinality(S)
<1>1. /\ S \in SUBSET Nat /\ Len(f) + 1 \in Nat /\ CountBefore(S, Len(f) + 1) = c
      /\ \A n \in S : n < Len(f) + 1
  <2>1. /\ S \in SUBSET Nat /\ Len(f) \in Nat /\ CountBefore(S, Len(f) + 1) = c
        /\ DOMAIN f = 1 .. Len(f) /\ \A n \in S : n \in DOMAIN f
    BY FileLines DEF LinesWith
  <2> HIDE DEF S, c
  <2>2. \A n \in S : n \in 1 .. Len(f)
    BY <2>1
  <2> QED BY <2>1, <2>2
<1> HIDE DEF S, c
<1>2. c \in Nat
  BY <1>1, CountIsNumber
<1>3. ASSUME c > 0
      PROVE  \E n \in S : CountBefore(S, n) = c - 1 /\ Store!Nth(f, key, c) = f[n]
  <2>1. c - 1 \in 0 .. Cardinality(LinesWith(f, key)) - 1
    <3>1. c - 1 \in 0 .. c - 1
      BY <1>3, <1>2
    <3> QED BY <3>1 DEF c, S
  <2>2. PICK n \in LinesWith(f, key) : /\ CountBefore(LinesWith(f, key), n) = c - 1
                                       /\ Store!Nth(f, key, c - 1 + 1) = f[n]
    BY <2>1, LineOfNumber
  <2>3. c - 1 + 1 = c
    BY <1>2
  <2> QED BY <2>2, <2>3 DEF S
<1>4. \A n \in S : CountBefore(S, n) < c /\ CountBefore(S, n) \in Nat
  BY <1>1, CountOrder, CountNext
<1>5. c = 0 => S = {}
  BY <1>4
<1>6. ASSUME c > 0
      PROVE  \E n \in S : (\A m \in S : m <= n) /\ Store!Nth(f, key, c) = f[n]
  <2>1. PICK n \in S : CountBefore(S, n) = c - 1 /\ Store!Nth(f, key, c) = f[n]
    BY <1>3, <1>6
  <2>2. ASSUME NEW m \in S PROVE m <= n
    <3>1. n < m => CountBefore(S, n) < CountBefore(S, m)
      BY <1>1, CountOrder
    <3>2. CountBefore(S, m) < c /\ CountBefore(S, m) \in Nat
      BY <1>4
    <3>3. ~ (n < m)
      BY <1>2, <2>1, <3>1, <3>2
    <3> QED BY <1>1, <3>3
  <2> QED BY <2>1, <2>2
<1> QED BY <1>2, <1>5, <1>6 DEF S, c

\* What is known once the last line has been taken in.
LEMMA AllLinesTaken ==
    ASSUME Inv, pc \in {"line", "lookup"}, at = Len(file) + 1
    PROVE  /\ file \in Files /\ file # NoFile
           /\ \A n \in DOMAIN file : n < at /\ Accepted(file[n])
           /\ \A key : SoFar(key) = LinesWith(file, key)
           /\ interfaceCount = Cardinality(LinesWith(file, "interface"))
           /\ prefixCount = Cardinality(LinesWith(file, "prefix"))
           /\ HasRoom(file)
<1>1. file \in Files /\ file # NoFile
  BY DEF Inv, TypeInv
<1>2. \A n \in DOMAIN file : n < at
  BY <1>1, FileLines
<1>3. \A key : SoFar(key) = LinesWith(file, key)
  BY <1>2 DEF SoFar, LinesWith
<1>4. /\ interfaceCount = Cardinality(LinesWith(file, "interface"))
      /\ prefixCount = Cardinality(LinesWith(file, "prefix"))
  BY <1>1, FileLines DEF Inv, TableInv
<1>5. HasRoom(file)
  BY <1>4 DEF Inv, TableInv, HasRoom
<1> QED BY <1>1, <1>2, <1>3, <1>4, <1>5 DEF Inv, GlobalsInv

\* The file is one the specification takes in ...
LEMMA LookedUpIsGood ==
    ASSUME Inv, pc = "lookup", check >= interfaceCount
    PROVE  Store!Good(file) /\ HasRoom(file)
<1>1. /\ at = Len(file) + 1 /\ Paired /\ interfaceCount \in Nat
  BY DEF Inv, LookupInv, TypeInv
<1>2. /\ file \in Files /\ file # NoFile
      /\ \A n \in DOMAIN file : n < at /\ Accepted(file[n])
      /\ interfaceCount = Cardinality(LinesWith(file, "interface"))
      /\ prefixCount = Cardinality(LinesWith(file, "prefix"))
      /\ HasRoom(file)
  BY <1>1, AllLinesTaken
<1>3. ASSUME NEW n \in LinesWith(file, "interface") PROVE file[n].word \in Present
  <2> DEFINE I == LinesWith(file, "interface")
             k == CountBefore(I, n)
  <2>1. /\ n < at /\ n \in I /\ I \in SUBSET Nat /\ at \in Nat
    BY <1>2, FileLines DEF LinesWith, Inv, TypeInv
  <2>2. interfaceCount = CountBefore(I, at) /\ interfaces[k].nameStr = file[n].word
    BY <2>1 DEF Inv, TableInv
  <2>3. \A j \in 0 .. interfaceCount - 1 : interfaces[j].nameStr \in Present
    BY LookedUp DEF Inv
  <2> HIDE DEF I
  <2>4. k < interfaceCount /\ k \in Nat
    BY <2>1, <2>2, CountOrder, CountIsNumber
  <2> HIDE DEF k
  <2>5. k \in 0 .. interfaceCount - 1
    BY <1>1, <2>4
  <2> QED BY <2>2, <2>3, <2>5
<1>4. /\ Cardinality(LinesWith(file, "interface")) = Cardinality(LinesWith(file, "prefix"))
      /\ Cardinality(LinesWith(file, "interface")) > 0
  <2>1. interfaceCount = prefixCount /\ interfaceCount > 0
    BY <1>1 DEF Paired
  <2> QED BY <1>2, <2>1
<1> QED BY <1>2, <1>3, <1>4, SameFile DEF Store!Good, Store!Count

\* ... and what was made of it line by line is what it makes of it.
LEMMA SettingsAgree ==
    ASSUME Inv, pc = "lookup"
    PROVE  conf = [key \in Settings |->
                     IF Store!Count(file, key) > 0
                       THEN Value(Store!Nth(file, key, Store!Count(file, key)))
                       ELSE IF key = "pollErrorLimit" THEN DefaultErrorLimit
                            ELSE before.conf[key]]
<1>1. /\ file \in Files /\ file # NoFile /\ \A key : SoFar(key) = LinesWith(file, key)
  BY AllLinesTaken DEF Inv, LookupInv
<1>2. conf = [key \in Settings |-> conf[key]]
  BY DEF Inv, TypeInv
<1>3. ASSUME NEW key \in Settings
      PROVE  conf[key] = IF Store!Count(file, key) > 0
                           THEN Value(Store!Nth(file, key, Store!Count(file, key)))
                           ELSE IF key = "pollErrorLimit" THEN DefaultErrorLimit
                                ELSE before.conf[key]
  <2> DEFINE S == LinesWith(file, key)
             c == Cardinality(S)
  <2>1. Store!Count(file, key) = c
    BY SameFile DEF Store!Count
  <2>2. /\ S = {} => conf[key] = IF key = "pollErrorLimit" THEN DefaultErrorLimit
                                 ELSE before.conf[key]
        /\ \A n \in S : (\A m \in S : m <= n) => conf[key] = Value(file[n])
    BY <1>1 DEF Inv, GlobalsInv
  <2>3. /\ c \in Nat /\ (c = 0 => S = {})
        /\ c > 0 => \E n \in S : (\A m \in S : m <= n) /\ Store!Nth(file, key, c) = file[n]
    BY <1>1, LastLine
  <2> HIDE DEF S, c
  <2>4. CASE c > 0
    <3>1. PICK n \in S : (\A m \in S : m <= n) /\ Store!Nth(file, key, c) = file[n]
      BY <2>3, <2>4
    <3> QED BY <2>1, <2>2, <2>4, <3>1
  <2>5. CASE ~ (c > 0)
    <3>1. c = 0
      BY <2>3, <2>5
    <3> QED BY <2>1, <2>2, <2>3, <2>5, <3>1
  <2> QED BY <2>4, <2>5
<1> QED BY <1>2, <1>3

LEMMA PairsAgree ==
    ASSUME Inv, pc = "lookup"
    PROVE  [n \in 1 .. interfaceCount |->
              [name |-> interfaces[n - 1].nameStr, prefix |-> interfaces[n - 1].prefix,
               prefixLen |-> interfaces[n - 1].prefixLen]]
             = Store!PairsOf(file)
<1>1. /\ file \in Files /\ file # NoFile
      /\ \A n \in DOMAIN file : n < at
      /\ interfaceCount = Cardinality(LinesWith(file, "interface"))
      /\ interfaceCount = Cardinality(LinesWith(file, "prefix"))
      /\ interfaceCount \in Nat
  BY AllLinesTaken DEF Inv, LookupInv, Paired, TypeInv
<1>2. ASSUME NEW k \in 1 .. interfaceCount
      PROVE  /\ interfaces[k - 1].nameStr = Store!Nth(file, "interface", k).word
             /\ interfaces[k - 1].prefix = Store!Nth(file, "prefix", k).word
             /\ interfaces[k - 1].prefixLen = PrefixLen(Store!Nth(file, "prefix", k))
  <2> DEFINE I == LinesWith(file, "interface")
             P == LinesWith(file, "prefix")
             j == k - 1
  <2>1. j \in 0 .. interfaceCount - 1 /\ j + 1 = k
    BY <1>1
  <2>2. /\ \A n \in I : n < at => interfaces[CountBefore(I, n)].nameStr = file[n].word
        /\ \A n \in P : n < at => /\ interfaces[CountBefore(P, n)].prefix = file[n].word
                                 /\ interfaces[CountBefore(P, n)].prefixLen = PrefixLen(file[n])
    BY DEF Inv, TableInv
  <2> HIDE DEF j
  <2>3. PICK n \in I : n \in DOMAIN file /\ CountBefore(I, n) = j /\ Store!Nth(file, "interface", j + 1) = file[n]
    BY <1>1, <2>1, LineOfNumber
  <2>4. PICK m \in P : m \in DOMAIN file /\ CountBefore(P, m) = j /\ Store!Nth(file, "prefix", j + 1) = file[m]
    BY <1>1, <2>1, LineOfNumber
  <2> HIDE DEF I, P
  <2>5. n < at /\ m < at
    BY <1>1, <2>3, <2>4
  <2>6. /\ interfaces[j].nameStr = file[n].word /\ interfaces[j].prefix = file[m].word
        /\ interfaces[j].prefixLen = PrefixLen(file[m])
    BY <2>2, <2>3, <2>4, <2>5
  <2>7. /\ interfaces[j].nameStr = Store!Nth(file, "interface", k).word
        /\ interfaces[j].prefix = Store!Nth(file, "prefix", k).word
        /\ interfaces[j].prefixLen = PrefixLen(Store!Nth(file, "prefix", k))
    BY <2>1, <2>3, <2>4, <2>6
  <2> QED BY <2>7 DEF j
<1>3. Store!Count(file, "interface") = interfaceCount
  BY <1>1, SameFile DEF Store!Count
<1> QED BY <1>2, <1>3, SameFile DEF Store!PairsOf

LEMMA ExpressionsAgree ==
    ASSUME Inv, pc = "lookup", Visible = before
    PROVE  sExpressions = Store!ExpressionsAfter(file)
<1> DEFINE old == before.sExpressions
           E   == LinesWith(file, "exprlist")
           all == Len(old) + Cardinality(E)
           size == IF all < MAX_EXPRESSION_ENTRIES THEN all ELSE MAX_EXPRESSION_ENTRIES
<1>1. /\ file \in Files /\ file # NoFile /\ \A n \in DOMAIN file : n < at
      /\ Cardinality(E) \in Nat /\ at = Len(file) + 1 /\ CountBefore(E, at) = Cardinality(E)
  <2>1. file \in Files /\ file # NoFile /\ at = Len(file) + 1 /\ \A n \in DOMAIN file : n < at
    BY AllLinesTaken DEF Inv, LookupInv
  <2> QED BY <2>1, LastLine, FileLines
<1>2. /\ old \in Seq(STRING) /\ sExpressions \in Seq(STRING) /\ MAX_EXPRESSION_ENTRIES \in Nat
      /\ Len(sExpressions) = size
      /\ \A k \in 1 .. Len(old) : sExpressions[k] = old[k]
      /\ \A n \in E : n < at /\ Len(old) + CountBefore(E, n) + 1 <= MAX_EXPRESSION_ENTRIES
           => sExpressions[Len(old) + CountBefore(E, n) + 1] = file[n].word
  BY <1>1, FilesAssumption DEF Inv, TypeInv, ExpressionsInv
<1>3. Len(old) \in Nat
  BY <1>2
<1>4. ASSUME NEW k \in 1 .. size
      PROVE  sExpressions[k] = IF k <= Len(old) THEN old[k]
                               ELSE Store!Nth(file, "exprlist", k - Len(old)).word
  <2>1. CASE k <= Len(old)
    BY <1>2, <1>3, <2>1
  <2>2. CASE ~ (k <= Len(old))
    <3> DEFINE j == k - Len(old) - 1
    <3>1. /\ j \in 0 .. Cardinality(E) - 1 /\ j + 1 = k - Len(old) /\ Len(old) + j + 1 = k
          /\ k <= MAX_EXPRESSION_ENTRIES
      BY <1>1, <1>2, <1>3, <2>2
    <3> HIDE DEF j
    <3>2. PICK n \in E : n \in DOMAIN file /\ CountBefore(E, n) = j
                         /\ Store!Nth(file, "exprlist", j + 1) = file[n]
      BY <1>1, <3>1, LineOfNumber
    <3>3. sExpressions[k] = file[n].word
      BY <1>1, <1>2, <3>1, <3>2
    <3> QED BY <2>2, <3>1, <3>2, <3>3
  <2> QED BY <2>1, <2>2
<1>5. sExpressions = [k \in 1 .. size |-> sExpressions[k]]
  BY <1>2
<1>6. Store!ExpressionsAfter(file)
        = [k \in 1 .. size |-> IF k <= Len(old) THEN old[k]
                               ELSE Store!Nth(file, "exprlist", k - Len(old)).word]
  <2>1. Store!Count(file, "exprlist") = Cardinality(E) /\ Visible.sExpressions = old
    BY SameFile DEF Store!Count
  <2> QED BY <2>1 DEF Store!ExpressionsAfter
<1> HIDE DEF size, old
<1> QED BY <1>4, <1>5, <1>6

LEMMA ReturnLoads == ASSUME Inv, Return PROVE Store!Load
<1>1. /\ pc = "lookup" /\ pc' = "idle" /\ check >= interfaceCount
      /\ UNCHANGED <<file, at, approxInterfaces, interfaceCount, prefixCount, check, interfaces,
                     conf, lRoot, sExpressions, tRoot, before>>
  BY DEF Return, fileVars, countVars, listVars
<1>2. Visible = before /\ Visible' = Result
  BY <1>1 DEF Visible, Result
<1>3. Store!Good(file) /\ Store!HasRoom(file)
  BY <1>1, LookedUpIsGood, SameFile
<1>4. conf = [key \in Store!Settings |-> Store!SettingAfter(file, key)]
  BY <1>1, <1>2, SettingsAgree, SameFile DEF Store!SettingAfter
<1>5. Result.pairs = Store!PairsOf(file)
  BY <1>1, PairsAgree DEF Result
<1>6. sExpressions = Store!ExpressionsAfter(file)
  BY <1>1, <1>2, ExpressionsAgree
<1>7. \A key : SoFar(key) = LinesWith(file, key)
  BY <1>1, AllLinesTaken DEF Inv, LookupInv
<1>8. lRoot = before.lRoot \cup
                ({file[n].word : n \in Store!LinesWith(file, "addrlist")} \cap Addresses)
  BY <1>1, <1>7, SameFile DEF Inv, GlobalsInv
<1>9. tRoot = IF Store!LinesWith(file, "collectTargets") # {} THEN {} ELSE before.tRoot
  BY <1>1, <1>7, SameFile DEF Inv, GlobalsInv
<1>10. /\ Result.conf = conf /\ Result.lRoot = lRoot /\ Result.sExpressions = sExpressions
       /\ Result.tRoot = tRoot
  BY DEF Result
<1>11. <<file>>[1] = file /\ <<file>> # <<>>
  OBVIOUS
<1> QED BY <1>1, <1>2, <1>3, <1>4, <1>5, <1>6, <1>8, <1>9, <1>10, <1>11 DEF Store!Load

\* A file that is given up is one that is not good.
LEMMA FailRefuses ==
    ASSUME Inv, OpenFails \/ RefuseLine \/ Unpaired \/ LookUpFails
    PROVE  Store!Refuse
<1>1. /\ pc \in {"open", "line", "lookup"} /\ pc' = "failed" /\ before' = before
  BY DEF OpenFails, RefuseLine, Unpaired, LookUpFails, Fail, Stop
<1>2. Visible = before /\ Visible' = before
  BY <1>1 DEF Visible
<1>3. <<file>>[1] = file /\ <<file>> # <<>>
  OBVIOUS
<1>4. ~ Store!Good(file)
  <2>1. CASE OpenFails
    BY <2>1 DEF OpenFails, Store!Good
  <2>2. CASE RefuseLine
    <3>1. at \in DOMAIN file /\ ~ Accepted(file[at])
      BY <2>2, FileLines DEF RefuseLine, Inv, TypeInv
    <3> QED BY <3>1, SameFile DEF Store!Good
  <2>3. CASE Unpaired
    <3>1. pc = "line" /\ at > Len(file) /\ ~ Paired
      BY <2>3 DEF Unpaired
    <3>2. at = Len(file) + 1 /\ interfaceCount \in Nat
      BY <3>1, FileLines DEF Inv, TypeInv
    <3>3. /\ interfaceCount = Cardinality(LinesWith(file, "interface"))
          /\ prefixCount = Cardinality(LinesWith(file, "prefix"))
      BY <3>1, <3>2, AllLinesTaken
    <3>4. interfaceCount # prefixCount \/ ~ (interfaceCount > 0)
      BY <3>1, <3>2 DEF Paired
    <3> QED BY <3>3, <3>4, SameFile DEF Store!Good, Store!Count
  <2>4. CASE LookUpFails
    <3> DEFINE I == LinesWith(file, "interface")
    <3>1. pc = "lookup" /\ check < interfaceCount /\ interfaces[check].nameStr \notin Present
      BY <2>4 DEF LookUpFails
    <3>2. /\ I \in SUBSET Nat /\ at \in Nat /\ check \in Nat /\ interfaceCount = CountBefore(I, at)
          /\ \A n \in I : n < at => interfaces[CountBefore(I, n)].nameStr = file[n].word
      BY <3>1, FileLines DEF Inv, TypeInv, TableInv
    <3> HIDE DEF I
    <3>3. PICK n \in I : n < at /\ CountBefore(I, n) = check
      BY <3>1, <3>2, CountOnto
    <3>4. file[n].word \notin Present
      BY <3>1, <3>2, <3>3
    <3>5. n \in LinesWith(file, "interface")
      BY <3>3 DEF I
    <3> QED BY <3>4, <3>5, SameFile DEF Store!Good
  <2> QED BY <2>1, <2>2, <2>3, <2>4
<1> QED BY <1>1, <1>2, <1>3, <1>4 DEF Store!Refuse, Store!GiveUp

\* What goes wild is a file that leaves no room.
LEMMA OutsideOverruns == ASSUME Inv, StoreOutside PROVE Store!Overrun
<1>1. /\ pc = "line" /\ pc' = "wild" /\ before' = before
      /\ file # NoFile /\ ~ Store!HasRoom(file)
  BY OutsideStep, SameFile DEF StoreOutside, Stop
<1>2. Visible = before /\ Visible' = before
  BY <1>1 DEF Visible
<1>3. <<file>>[1] = file /\ <<file>> # <<>>
  OBVIOUS
<1> QED BY <1>1, <1>2, <1>3 DEF Store!Overrun, Store!GiveUp

\* Until a call is over, nothing of it shows.
LEMMA NothingShows ==
    ASSUME pc \in {"open", "count", "line", "lookup"}, pc' \in {"open", "count", "line", "lookup"},
           file' = file, before' = before
    PROVE  UNCHANGED Store!storeVars
  BY DEF Store!storeVars, Visible

LEMMA NextImplements == ASSUME Inv, [Next]_vars PROVE [Store!Next]_(Store!storeVars)
<1>1. CASE Taken \/ Open \/ CountLine \/ Allocate \/ EndOfFile \/ LookUp
  <2>1. CASE Taken
    BY <2>1, TakenPasses, NothingShows DEF LinePasses
  <2>2. CASE Open \/ CountLine \/ Allocate \/ EndOfFile \/ LookUp
    BY <2>2, NothingShows DEF Open, CountLine, Allocate, EndOfFile, LookUp, fileVars
  <2> QED BY <1>1, <2>1, <2>2
<1>2. CASE OpenFails \/ RefuseLine \/ Unpaired \/ LookUpFails
  BY <1>2, FailRefuses DEF Store!Next, Store!Answer
<1>2a. CASE StoreOutside
  BY <1>2a, OutsideOverruns DEF Store!Next, Store!Answer
<1>3. CASE Return
  BY <1>3, ReturnLoads DEF Store!Next, Store!Answer
<1>4. CASE Call
  <2>1. /\ pc = "idle" /\ pc' = "open" /\ file' \in Files /\ Visible = Result /\ Visible' = Result
    BY <1>4 DEF Call, Visible
  <2>2. Store!Ask(file')
    BY <2>1 DEF Store!Ask
  <2> QED BY <2>1, <2>2 DEF Store!Next
<1>5. CASE \E t \in Targets : storeTarget(t)
  <2>1. PICK t \in Targets : storeTarget(t)
    BY <1>5
  <2>2. /\ pc = "idle" /\ pc' = "idle" /\ Visible = Result /\ Visible' = Result'
    BY <2>1 DEF storeTarget, Visible
  <2>3. /\ t \notin tRoot /\ Cardinality(tRoot) < conf["collectTargets"] /\ tRoot' = tRoot \cup {t}
        /\ UNCHANGED <<conf, lRoot, sExpressions, interfaceCount, interfaces>>
    BY <2>1 DEF storeTarget, countVars, listVars
  <2>4. /\ Result'.conf = Result.conf /\ Result'.lRoot = Result.lRoot
        /\ Result'.sExpressions = Result.sExpressions /\ Result'.pairs = Result.pairs
        /\ Result.conf = conf /\ Result.tRoot = tRoot /\ Result'.tRoot = tRoot \cup {t}
    BY <2>3 DEF Result
  <2>5. Store!Collect(t)
    BY <2>2, <2>3, <2>4, SameFile DEF Store!Collect
  <2> QED BY <2>5 DEF Store!Next
<1>6. CASE UNCHANGED vars
  BY <1>6 DEF vars, fileVars, countVars, listVars, Visible, Result, Store!storeVars
<1> QED BY <1>1, <1>2, <1>2a, <1>3, <1>4, <1>5, <1>6, NextTaken

LEMMA InitImplements == Init => Store!Init
<1> SUFFICES ASSUME Init PROVE Store!Init
  OBVIOUS
<1>1. /\ pc = "open" /\ file \in Files /\ Visible = Result /\ interfaceCount = 0
      /\ conf = Defaults /\ lRoot = {} /\ sExpressions = <<>> /\ tRoot = {}
  BY DEF Init, Visible
<1>2. Result.pairs = <<>>
  <2>1. 1 .. interfaceCount = {}
    BY <1>1
  <2> QED BY <2>1 DEF Result
<1>3. /\ Result.conf = conf /\ Result.lRoot = lRoot /\ Result.sExpressions = sExpressions
      /\ Result.tRoot = tRoot
  BY DEF Result
<1> QED BY <1>1, <1>2, <1>3, SameFile DEF Store!Init

\* Whatever files the daemon is given and wherever a call gives up: what each
\* call leaves behind is what taking the file in at once would, or the process
\* has ended and the file was one to refuse.
THEOREM ReadsAtOnce == Spec => IsConfigStore
<1>1. Inv /\ [Next]_vars => [Store!Next]_(Store!storeVars)
  BY NextImplements
<1> QED BY <1>1, InitImplements, ConfigInvariant, PTL DEF Spec, IsConfigStore, Store!Spec
=============================================================================
