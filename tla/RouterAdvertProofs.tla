------------------------- MODULE RouterAdvertProofs ------------------------
(***************************************************************************)
(* The walk over a Router Advertisement stays in the buffer, for buffers   *)
(* and messages of any size and option lengths of any value, and logs what *)
(* was sent.                                                               *)
(***************************************************************************)
EXTENDS RouterAdvert, Numbers, FiniteSetTheorems, SequenceTheorems, TLAPS

\* What is read of an option is at most four units, and msgdata has that much
\* room behind any message.
LEMMA ReadsBounded == \A type \in Types : Reads(type) \in 2 .. 32
  BY DEF Reads

LEMMA RoomBehind ==
  ASSUME NEW c \in Nat, NEW l \in 0 .. MsgSize, c < l, NEW type \in Types
  PROVE  c + 2 <= BufSize /\ c + Reads(type) <= BufSize
<1>1. MsgSize \in Nat /\ MsgSize >= 32
  BY RouterAdvertAssumption
<1>2. BufSize \in Nat /\ BufSize >= c + 32
  BY <1>1 DEF BufSize
<1>3. Reads(type) \in 2 .. 32
  BY ReadsBounded
<1> QED
  BY <1>2, <1>3

\* A position inside the buffer has a cell.
LEMMA CellThere ==
  ASSUME NEW c \in Nat, c + 2 <= BufSize
  PROVE  c \div 8 \in Unit
  BY RouterAdvertAssumption DEF Unit, BufSize

LEMMA OptionLenTyped == \A olen \in 0 .. 255 : OptionLen(olen) \in 0 .. 255
  BY DEF OptionLen

\* In a message laid out well no length is lost to uint8_t.
LEMMA OptionLenExact == \A olen \in 1 .. 31, c \in Nat :
                          (8 * c) + OptionLen(olen) = 8 * (c + olen)
<1>1. ASSUME NEW olen \in 1 .. 31 PROVE OptionLen(olen) = 8 * olen
  BY DEF OptionLen
<1>2. \A olen \in 1 .. 31, c \in Nat : (8 * c) + (8 * olen) = 8 * (c + olen)
  OBVIOUS
<1> QED BY <1>1, <1>2

LEMMA ReceivedTyped ==
  ASSUME NEW m \in Message
  PROVE  Received(m) \in 0 .. MsgSize
  BY RouterAdvertAssumption DEF Received, Message

LEMMA FilledTyped ==
  ASSUME NEW m \in Message, msgdata \in [Unit -> Cell]
  PROVE  Filled(m) \in [Unit -> Cell]
<1> SUFFICES ASSUME NEW u \in Unit
             PROVE  Filled(m)[u] \in Cell
  BY DEF Filled
<1>1. m.cells[u] \in Cell /\ msgdata[u] \in Cell
  BY DEF Message
<1> QED
  BY <1>1 DEF Filled, Cell

Inv == TypeOK /\ WildAfterFailure

LEMMA EnteredTyped == \A buffer : Entered(buffer) \in {"idle", "walk"}
  BY DEF Entered

LEMMA FirstOptionTyped == FirstOption \in Nat
  BY DEF FirstOption

LEMMA EmptyLog == <<>> \in Seq(Types)
  OBVIOUS

LEMMA InitInv == Init => Inv
  BY RouterAdvertAssumption DEF Init, Inv, TypeOK, WildAfterFailure

LEMMA ReadInv ==
  ASSUME Inv, NEW m \in Messages \cup Frames,
         (ReceiveIcmp(m) /\ m \in Messages) \/ ReceiveFrame(m)
  PROVE  Inv'
<1>1. m \in Message
  BY RouterAdvertAssumption
<1>2. Received(m) \in 0 .. MsgSize /\ Filled(m) \in [Unit -> Cell]
  BY <1>1, ReceivedTyped, FilledTyped DEF Inv, TypeOK
<1>3. pc' \in {"idle", "walk"} /\ ralog' \in BOOLEAN
  BY EnteredTyped DEF Inv, TypeOK, ReceiveIcmp, ReceiveFrame
<1>4. msgdata' \in [Unit -> Cell] /\ len' \in 0 .. MsgSize
  BY <1>2 DEF ReceiveIcmp, ReceiveFrame
<1>5. counter' \in Nat /\ seen' \in Seq(Types) /\ sent' \in Messages \cup {NoMessage}
  BY FirstOptionTyped, EmptyLog DEF Inv, TypeOK, ReceiveIcmp, ReceiveFrame
<1> QED
  BY <1>3, <1>4, <1>5 DEF Inv, TypeOK, WildAfterFailure

LEMMA FailureInv == Inv /\ (ReceiveFails \/ Reload) => Inv'
<1> SUFFICES ASSUME Inv, ReceiveFails \/ Reload PROVE Inv'
  OBVIOUS
<1>1. pc' \in {"idle", "walk"}
  BY EnteredTyped DEF ReceiveFails, Reload
<1>2. ralog' \in BOOLEAN
  <2>1. CASE ReceiveFails
    BY <2>1 DEF ReceiveFails, Inv, TypeOK
  <2>2. CASE Reload
    BY <2>2, Zenon DEF Reload
  <2> QED
    BY <2>1, <2>2
<1>3. msgdata' \in [Unit -> Cell] /\ len' \in (0 .. MsgSize) \cup {UIntMax}
  BY DEF Inv, TypeOK, ReceiveFails, Reload
<1>4. counter' \in Nat /\ seen' \in Seq(Types) /\ sent' \in Messages \cup {NoMessage}
  BY FirstOptionTyped, EmptyLog DEF Inv, TypeOK, ReceiveFails, Reload
<1> QED
  BY <1>1, <1>2, <1>3, <1>4 DEF Inv, TypeOK, WildAfterFailure

LEMMA VisitInv == Inv /\ Visit => Inv'
<1> SUFFICES ASSUME Inv, Visit PROVE Inv'
  OBVIOUS
<1>1. Option \in Cell
  BY CellThere DEF Inv, TypeOK, Visit, Inside, Option
<1>2. Option.type \in Types /\ Option.olen \in 0 .. 255
  BY <1>1 DEF Cell
<1>3. OptionLen(Option.olen) \in 0 .. 255
  BY <1>2, OptionLenTyped
<1>4. counter' \in Nat
  <2>1. counter \in Nat /\ counter' = counter + OptionLen(Option.olen)
    BY DEF Inv, TypeOK, Visit
  <2> QED
    BY <1>3, <2>1
<1>5. seen' \in Seq(Types)
  BY <1>2 DEF Inv, TypeOK, Visit
<1> QED
  BY <1>4, <1>5 DEF Inv, TypeOK, WildAfterFailure, Visit

\* The only way out of the buffer: the length was not that of a message.
LEMMA OutsideInv == Inv /\ VisitOutside => Inv'
<1> SUFFICES ASSUME Inv, VisitOutside PROVE Inv'
  OBVIOUS
<1>1. ASSUME len \in 0 .. MsgSize
      PROVE  FALSE
  <2>1. counter + 2 <= BufSize
    BY <1>1, RoomBehind, RouterAdvertAssumption DEF Inv, TypeOK, VisitOutside
  <2>2. Option.type \in Types
    BY <2>1, CellThere DEF Inv, TypeOK, Option, Cell
  <2> QED
    BY <1>1, <2>1, <2>2, RoomBehind DEF Inv, TypeOK, VisitOutside, Inside
<1>2. len = UIntMax
  BY <1>1 DEF Inv, TypeOK
<1> QED
  BY <1>2 DEF Inv, TypeOK, WildAfterFailure, VisitOutside

LEMMA ReturnInv == Inv /\ Return => Inv'
  BY DEF Inv, TypeOK, WildAfterFailure, Return

\* The inductive invariant holds, whatever is received, in any order, with
\* reads that fail between.
THEOREM WalkInvariant == Spec => []Inv
<1>1. Inv /\ [Next]_vars => Inv'
  <2> SUFFICES ASSUME Inv, [Next]_vars PROVE Inv'
    OBVIOUS
  <2>1. CASE \E m \in Messages : ReceiveIcmp(m)
    BY <2>1, ReadInv
  <2>2. CASE \E m \in Frames : ReceiveFrame(m)
    BY <2>2, ReadInv
  <2>3. CASE ReceiveFails \/ Reload
    BY <2>3, FailureInv
  <2>4. CASE processICMP
    BY <2>4, VisitInv, OutsideInv, ReturnInv DEF processICMP
  <2>5. CASE UNCHANGED vars
    BY <2>5 DEF vars, Inv, TypeOK, WildAfterFailure
  <2> QED
    BY <2>1, <2>2, <2>3, <2>4, <2>5 DEF Next
<1> QED
  BY <1>1, InitInv, PTL DEF Spec

\* msgdata, len, counter and the types logged so far keep their types.
THEOREM TypesKept == Spec => []TypeOK
BY WalkInvariant, PTL DEF Inv

\* The walk of processICMP reads past the end of msgdata only with the length
\* of a read that failed (ip6.c:363-440, icmp6.c:237-314).
THEOREM WalkInside == Spec => []WildAfterFailure
BY WalkInvariant, PTL DEF Inv

-----------------------------------------------------------------------------
(* What the walk logs.                                                     *)

\* The units where options start can be added up.
LEMMA StartExists ==
    ASSUME NEW L \in Nat, NEW o \in [1 .. L -> Nat]
    PROVE  \E g : g = [n \in 1 .. L + 1 |-> IF n = 1 THEN 2 ELSE g[n - 1] + o[n - 1]]
<1> DEFINE Adds(g, j) == /\ g \in [1 .. j + 1 -> Nat]
                         /\ \A n \in 1 .. j + 1 : g[n] = IF n = 1 THEN 2 ELSE g[n - 1] + o[n - 1]
           Some(j) == \E g : Adds(g, j)
           R == {j \in Nat : j <= L => Some(j)}
<1>1. 0 \in R
  <2>1. Adds([n \in 1 .. 1 |-> 2], 0)
    OBVIOUS
  <2> QED BY <2>1
<1>2. ASSUME NEW j \in Nat, Some(j), j + 1 <= L PROVE Some(j + 1)
  <2>1. j + 1 <= L
    BY <1>2
  <2>2. PICK g : Adds(g, j)
    BY <1>2
  <2> DEFINE h == [n \in 1 .. j + 2 |-> IF n = j + 2 THEN g[j + 1] + o[j + 1] ELSE g[n]]
  <2>3. g[j + 1] + o[j + 1] \in Nat
    <3>1. j + 1 \in 1 .. L /\ j + 1 \in 1 .. j + 1
      BY <2>1
    <3> QED BY <2>2, <3>1
  <2>4. h \in [1 .. (j + 1) + 1 -> Nat]
    BY <2>2, <2>3
  <2>5. ASSUME NEW n \in 1 .. (j + 1) + 1
        PROVE  h[n] = IF n = 1 THEN 2 ELSE h[n - 1] + o[n - 1]
    <3>1. CASE n = j + 2
      <4>1. n # 1 /\ n - 1 = j + 1 /\ j + 1 \in 1 .. j + 2 /\ j + 1 # j + 2
        BY <3>1
      <4> QED BY <3>1, <4>1
    <3>2. CASE n # j + 2
      <4>1. n \in 1 .. j + 1 /\ (n # 1 => n - 1 \in 1 .. j + 1 /\ n - 1 # j + 2)
        BY <3>2
      <4> QED BY <2>2, <3>2, <4>1
    <3> QED BY <3>1, <3>2
  <2> HIDE DEF h
  <2> QED BY <2>4, <2>5
<1> HIDE DEF Some
<1>3. ASSUME NEW j \in R PROVE j + 1 \in R
  <2>1. j \in Nat /\ (j <= L => Some(j))
    OBVIOUS
  <2>2. j + 1 <= L => Some(j + 1)
    BY <1>2, <2>1
  <2> QED BY <2>1, <2>2
<1>4. L \in R
  <2>1. R \in SUBSET Nat
    OBVIOUS
  <2> HIDE DEF R
  <2> QED BY <1>1, <1>3, <2>1, EveryNumber
<1>5. PICK g : Adds(g, L)
  <2>1. Some(L)
    BY <1>4
  <2> HIDE DEF Adds
  <2> QED BY <2>1 DEF Some
<1>6. g = [n \in 1 .. L + 1 |-> IF n = 1 THEN 2 ELSE g[n - 1] + o[n - 1]]
  BY <1>5
<1> QED BY <1>6

LEMMA OptionsTyped ==
    ASSUME NEW m \in Message
    PROVE  /\ Len(m.opts) \in Nat /\ DOMAIN m.opts = 1 .. Len(m.opts)
           /\ \A n \in 1 .. Len(m.opts) : m.opts[n].olen \in Nat
<1>1. m.opts \in Seq(Cell)
  BY DEF Message
<1>2. Len(m.opts) \in Nat /\ DOMAIN m.opts = 1 .. Len(m.opts)
      /\ \A n \in 1 .. Len(m.opts) : m.opts[n] \in Cell
  BY <1>1
<1>3. \A c \in Cell : c.olen \in Nat
  BY DEF Cell
<1> QED BY <1>2, <1>3

LEMMA StartAdds ==
    ASSUME NEW m \in Message
    PROVE  /\ Len(m.opts) \in Nat /\ Start(m) \in [1 .. Len(m.opts) + 1 -> Nat] /\ Start(m)[1] = 2
           /\ \A n \in 1 .. Len(m.opts) : Start(m)[n + 1] = Start(m)[n] + m.opts[n].olen
<1> DEFINE L == Len(m.opts)
           s == Start(m)
           o == [n \in 1 .. L |-> m.opts[n].olen]
<1>1. L \in Nat /\ \A n \in 1 .. L : m.opts[n].olen \in Nat
  BY OptionsTyped
<1>2. o \in [1 .. L -> Nat]
  BY <1>1
<1>3. PICK g : g = [n \in 1 .. L + 1 |-> IF n = 1 THEN 2 ELSE g[n - 1] + o[n - 1]]
  <2> HIDE DEF o, L
  <2> QED BY <1>1, <1>2, StartExists
<1>4. g = [n \in 1 .. L + 1 |-> IF n = 1 THEN 2 ELSE g[n - 1] + m.opts[n - 1].olen]
  <2>1. ASSUME NEW n \in 1 .. L + 1, n # 1 PROVE o[n - 1] = m.opts[n - 1].olen
    <3>1. n - 1 \in 1 .. L
      BY <1>1, <2>1
    <3> QED BY <3>1
  <2> HIDE DEF o
  <2> QED BY <1>3, <2>1
<1>5. s = [n \in 1 .. L + 1 |-> IF n = 1 THEN 2 ELSE s[n - 1] + m.opts[n - 1].olen]
  BY <1>4 DEF Start
<1> HIDE DEF s
<1>6. /\ s[1] = 2
      /\ \A n \in 1 .. L : s[n + 1] = s[n] + m.opts[n].olen
  <2>1. 1 \in 1 .. L + 1
    BY <1>1
  <2>2. ASSUME NEW n \in 1 .. L PROVE s[n + 1] = s[n] + m.opts[n].olen
    <3>1. n + 1 \in 1 .. L + 1 /\ n + 1 # 1 /\ (n + 1) - 1 = n
      BY <1>1
    <3> QED BY <1>5, <3>1
  <2> QED BY <1>5, <2>1, <2>2
<1> DEFINE R == {j \in Nat : j <= L => s[j + 1] \in Nat}
<1>7. L \in R /\ \A j \in 0 .. L : j \in R
  <2>1. 0 \in R
    BY <1>6
  <2>2. ASSUME NEW j \in R PROVE j + 1 \in R
    <3>1. CASE j + 1 <= L
      <4>1. j + 1 \in 1 .. L /\ j <= L
        BY <1>1, <3>1
      <4>2. s[j + 1] \in Nat /\ m.opts[j + 1].olen \in Nat
        BY <1>1, <4>1
      <4>3. s[(j + 1) + 1] = s[j + 1] + m.opts[j + 1].olen
        BY <1>6, <4>1
      <4> QED BY <4>2, <4>3
    <3>2. CASE ~ (j + 1 <= L)
      BY <3>2
    <3> QED BY <3>1, <3>2
  <2>3. R \in SUBSET Nat
    OBVIOUS
  <2> HIDE DEF R
  <2>4. Nat \subseteq R
    BY <2>1, <2>2, <2>3, EveryNumber
  <2> QED BY <1>1, <2>4
<1>8. ASSUME NEW n \in 1 .. L + 1 PROVE s[n] \in Nat
  <2>1. n - 1 \in 0 .. L /\ (n - 1) + 1 = n
    BY <1>1
  <2>2. n - 1 \in R
    BY <1>7, <2>1
  <2> QED BY <1>1, <2>1, <2>2
<1>9. s \in [1 .. L + 1 -> Nat]
  BY <1>5, <1>8
<1> QED BY <1>1, <1>6, <1>9 DEF s

\* Options start one after the other.
LEMMA StartGrows ==
    ASSUME NEW m \in Message,
           NEW i \in 1 .. Len(m.opts) + 1, NEW k \in 1 .. Len(m.opts) + 1, i <= k
    PROVE  Start(m)[i] <= Start(m)[k]
<1> DEFINE L == Len(m.opts)
           s == Start(m)
           R == {d \in Nat : i + d <= L + 1 => s[i] <= s[i + d]}
<1>1. /\ L \in Nat /\ s \in [1 .. L + 1 -> Nat]
      /\ \A n \in 1 .. L : s[n + 1] = s[n] + m.opts[n].olen /\ m.opts[n].olen \in Nat
  BY OptionsTyped, StartAdds
<1> HIDE DEF s, L
<1>2. i \in 1 .. L + 1 /\ k \in 1 .. L + 1
  BY DEF L
<1>3. 0 \in R
  <2>1. i + 0 = i /\ s[i] \in Nat
    BY <1>1, <1>2
  <2> QED BY <2>1
<1>4. ASSUME NEW d \in R PROVE d + 1 \in R
  <2>1. CASE i + (d + 1) <= L + 1
    <3>1. i + d \in 1 .. L /\ i + (d + 1) = (i + d) + 1 /\ i + d <= L + 1
      BY <1>1, <1>2, <2>1
    <3>2. s[i] <= s[i + d]
      BY <3>1
    <3>3. i + d \in 1 .. L + 1
      BY <1>1, <3>1
    <3>4. s[i] \in Nat /\ s[i + d] \in Nat
      BY <1>1, <1>2, <3>3
    <3>5. s[(i + d) + 1] = s[i + d] + m.opts[i + d].olen /\ m.opts[i + d].olen \in Nat
      BY <1>1, <3>1
    <3> HIDE DEF R
    <3>6. s[i] <= s[i + (d + 1)]
      BY <3>1, <3>2, <3>4, <3>5
    <3> QED BY <3>6 DEF R
  <2>2. CASE ~ (i + (d + 1) <= L + 1)
    BY <2>2
  <2> QED BY <2>1, <2>2
<1>5. k - i \in R
  <2>1. R \in SUBSET Nat
    OBVIOUS
  <2> HIDE DEF R
  <2>2. Nat \subseteq R
    BY <1>3, <1>4, <2>1, EveryNumber
  <2>3. k - i \in Nat
    BY <1>1, <1>2
  <2> QED BY <2>2, <2>3
<1>6. i + (k - i) = k /\ k <= L + 1
  BY <1>1, <1>2
<1>7. s[i] <= s[k]
  BY <1>5, <1>6
<1> QED BY <1>7 DEF s

\* What is in the buffer is the message, the walk is where one of its options
\* starts, or at their end, and those before have been logged.
LogInv ==
    pc = "walk" /\ sent # NoMessage /\ LaidOut(sent) =>
      LET k == Len(seen) + 1 IN
      /\ len = Received(sent)
      /\ \A u \in Unit : 8 * u < len => msgdata[u] = sent.cells[u]
      /\ k \in 1 .. Len(sent.opts) + 1 /\ counter = 8 * Start(sent)[k]
      /\ \A n \in 1 .. Len(seen) : seen[n] = sent.opts[n].type /\ 8 * Start(sent)[n] < len

\* No octet of the message is left unwritten where an option is read.
LEMMA FilledByMessage ==
    ASSUME NEW m \in Message, LaidOut(m), NEW u \in Unit, 8 * u < Received(m)
    PROVE  Filled(m)[u] = m.cells[u]
<1>1. m.cells[u] \in Cell
  BY DEF Message
<1>2. Received(m) \in Nat /\ u \in Nat /\ Received(m) % 8 # 1
  BY ReceivedTyped, RouterAdvertAssumption DEF LaidOut, Unit
<1>3. (8 * u) + 1 < Received(m)
  <2>1. CASE Received(m) = (8 * u) + 1
    <3>1. ((8 * u) + 1) % 8 = 1
      BY <1>2
    <3> QED BY <1>2, <2>1, <3>1
  <2> QED BY <1>2, <2>1
<1>4. Filled(m)[u] = [type |-> m.cells[u].type, olen |-> m.cells[u].olen]
  BY <1>3 DEF Filled
<1> QED BY <1>1, <1>4 DEF Cell

LEMMA ReceiveLog ==
    ASSUME Inv, NEW m \in Messages, ReceiveIcmp(m)
    PROVE  LogInv'
<1>1. /\ sent' = m /\ seen' = <<>> /\ len' = Received(m) /\ msgdata' = Filled(m)
      /\ counter' = 16 /\ m \in Message
  BY RouterAdvertAssumption DEF ReceiveIcmp, FirstOption
<1>2. SUFFICES ASSUME LaidOut(m)
               PROVE  /\ \A u \in Unit : 8 * u < Received(m) => Filled(m)[u] = m.cells[u]
                      /\ 1 \in 1 .. Len(m.opts) + 1 /\ 16 = 8 * Start(m)[1]
  <2>1. Len(<<>>) = 0 /\ 0 + 1 = 1 /\ 1 .. 0 = {}
    OBVIOUS
  <2> QED BY <1>1, <2>1 DEF LogInv, LaidOut, Received
<1>3. Len(m.opts) \in Nat /\ Start(m)[1] = 2
  BY <1>1, StartAdds
<1> QED BY <1>1, <1>2, <1>3, FilledByMessage

\* The option visited is the next one its sender put there.
LEMMA VisitLog ==
    ASSUME Inv, LogInv, Visit
    PROVE  LogInv'
<1>1. SUFFICES ASSUME sent # NoMessage, LaidOut(sent) PROVE LogInv'
  BY DEF LogInv, Visit
<1> DEFINE k == Len(seen) + 1
           L == Len(sent.opts)
           s == Start(sent)
<1>2. /\ sent \in Message /\ sent \in Messages /\ seen \in Seq(Types) /\ len \in Nat /\ len <= MsgSize
      /\ len = Received(sent) /\ MsgSize \in Nat
  <2>1. sent \in Message /\ sent \in Messages /\ seen \in Seq(Types) /\ MsgSize \in Nat
    BY <1>1, RouterAdvertAssumption DEF Inv, TypeOK
  <2>2. len = Received(sent)
    BY <1>1 DEF LogInv, Visit
  <2>3. Received(sent) \in 0 .. MsgSize
    BY <2>1, ReceivedTyped
  <2> QED BY <2>1, <2>2, <2>3
<1>3. /\ \A u \in Unit : 8 * u < len => msgdata[u] = sent.cells[u]
      /\ k \in 1 .. L + 1 /\ counter = 8 * s[k] /\ counter < len /\ counter + 2 <= BufSize
      /\ \A n \in 1 .. Len(seen) : seen[n] = sent.opts[n].type /\ 8 * s[n] < len
  BY <1>1 DEF LogInv, Visit, Inside
<1>4. /\ L \in Nat /\ s \in [1 .. L + 1 -> Nat]
      /\ \A n \in 1 .. L : s[n + 1] = s[n] + sent.opts[n].olen
  BY <1>2, StartAdds
<1>5. 8 * s[L + 1] >= len
  <2>1. 8 * s[L + 1] >= sent.octets /\ sent.octets \in Nat
    BY <1>1, <1>2 DEF LaidOut, Message
  <2>2. Received(sent) <= sent.octets
    BY <1>2, <2>1 DEF Received
  <2>3. s[L + 1] \in Nat
    BY <1>4
  <2> QED BY <1>2, <2>1, <2>2, <2>3
<1> HIDE DEF s
<1>6. k \in 1 .. L /\ Len(seen) \in Nat
  <2>1. Len(seen) \in Nat
    BY <1>2
  <2>2. k # L + 1
    BY <1>2, <1>3, <1>4, <1>5
  <2> QED BY <1>3, <1>4, <2>1, <2>2
<1>7. s[k] \in Nat /\ counter \div 8 = s[k] /\ s[k] \in Unit
  <2>1. s[k] \in Nat
    BY <1>3, <1>4
  <2>2. counter \div 8 = s[k] /\ counter \in Nat
    BY <1>3, <2>1
  <2> QED BY <1>3, <2>1, <2>2, CellThere
<1>8. Option = sent.opts[k] /\ sent.opts[k].olen \in 1 .. 31
  <2>1. msgdata[s[k]] = sent.cells[s[k]]
    BY <1>3, <1>7
  <2>2. sent.cells[s[k]] = sent.opts[k] /\ sent.opts[k].olen \in 1 .. 31
    <3>1. k \in DOMAIN sent.opts
      BY <1>2, <1>6, OptionsTyped
    <3> QED BY <1>1, <3>1 DEF LaidOut, s
  <2> QED BY <1>7, <2>1, <2>2 DEF Option
<1>9. counter' = 8 * s[k + 1]
  <2>1. counter' = counter + OptionLen(sent.opts[k].olen)
    BY <1>8 DEF Visit
  <2>2. (8 * s[k]) + OptionLen(sent.opts[k].olen) = 8 * (s[k] + sent.opts[k].olen)
    BY <1>7, <1>8, OptionLenExact
  <2>3. s[k + 1] = s[k] + sent.opts[k].olen
    BY <1>4, <1>6
  <2> QED BY <1>3, <2>1, <2>2, <2>3
<1>10. seen' = Append(seen, sent.opts[k].type)
  <2>1. L <= LogCap /\ LogCap \in Nat
    <3>1. \A m \in Messages : Len(m.opts) <= LogCap
      BY RouterAdvertAssumption
    <3>2. LogCap \in Nat
      BY RouterAdvertAssumption
    <3> QED BY <1>2, <3>1, <3>2
  <2>2. Len(seen) < LogCap
    BY <1>4, <1>6, <2>1
  <2> QED BY <1>8, <2>2 DEF Visit
<1>11. /\ Len(seen') = k /\ seen'[k] = sent.opts[k].type
       /\ \A n \in 1 .. Len(seen) : seen'[n] = seen[n]
  <2>1. sent.opts[k].type \in Types
    <3>1. sent.opts \in Seq(Cell) /\ k \in 1 .. Len(sent.opts)
      BY <1>2, <1>6 DEF Message
    <3>2. sent.opts[k] \in Cell
      BY <3>1
    <3> QED BY <3>2 DEF Cell
  <2> QED BY <1>2, <1>10, <2>1, AppendProperties
<1>12. ASSUME NEW n \in 1 .. k
       PROVE  seen'[n] = sent.opts[n].type /\ 8 * s[n] < len
  <2>1. CASE n = k
    BY <1>3, <1>11, <2>1
  <2>2. CASE n # k
    <3>1. n \in 1 .. Len(seen)
      BY <1>6, <2>2
    <3> QED BY <1>3, <1>11, <3>1
  <2> QED BY <2>1, <2>2
<1>13. k + 1 \in 1 .. L + 1
  BY <1>4, <1>6
<1>14. sent' = sent /\ len' = len /\ msgdata' = msgdata
  BY DEF Visit
<1> HIDE DEF k, L
<1> QED BY <1>2, <1>3, <1>9, <1>11, <1>12, <1>13, <1>14 DEF LogInv, L, s

LEMMA LogInvariant == Spec => [](Inv /\ LogInv)
<1>1. Init => LogInv
  BY DEF Init, LogInv
<1>2. ASSUME Inv, LogInv, [Next]_vars PROVE LogInv'
  <2>1. CASE \E m \in Messages : ReceiveIcmp(m)
    BY <1>2, <2>1, ReceiveLog
  <2>2. CASE \E m \in Frames : ReceiveFrame(m)
    BY <2>2 DEF ReceiveFrame, LogInv
  <2>3. CASE ReceiveFails \/ Reload
    BY <2>3 DEF ReceiveFails, Reload, LogInv
  <2>4. CASE Visit
    BY <1>2, <2>4, VisitLog
  <2>5. CASE VisitOutside \/ Return
    BY <2>5 DEF VisitOutside, Return, LogInv
  <2>6. CASE UNCHANGED vars
    BY <1>2, <2>6 DEF vars, LogInv, LaidOut, Received
  <2> QED BY <1>2, <2>1, <2>2, <2>3, <2>4, <2>5, <2>6 DEF Next, processICMP
<1>3. Inv /\ LogInv /\ [Next]_vars => LogInv'
  BY <1>2
<1> QED BY <1>1, <1>3, WalkInvariant, PTL DEF Spec

\* When the walk returns, the options logged are those that had begun.
LEMMA CountTo == \A n \in Nat : Cardinality(1 .. n) = n
<1>1. ASSUME NEW n \in Nat PROVE Cardinality(1 .. n) = n
  <2>1. 1 \in Int /\ n \in Int
    OBVIOUS
  <2>2. Cardinality(1 .. n) = IF 1 > n THEN 0 ELSE n - 1 + 1
    BY <2>1, FS_Interval
  <2> QED BY <2>2
<1> QED BY <1>1

LEMMA ReturnLogs ==
    ASSUME Inv, LogInv, Return, sent # NoMessage, LaidOut(sent)
    PROVE  /\ Len(seen) = Cardinality(Begun(sent))
           /\ \A n \in Begun(sent) : seen[n] = sent.opts[n].type
<1> DEFINE k == Len(seen) + 1
           L == Len(sent.opts)
           s == Start(sent)
<1>1. sent \in Message /\ Len(seen) \in Nat
  BY RouterAdvertAssumption DEF Inv, TypeOK
<1>2. /\ len = Received(sent) /\ k \in 1 .. L + 1 /\ counter = 8 * s[k] /\ counter >= len
      /\ \A n \in 1 .. Len(seen) : seen[n] = sent.opts[n].type /\ 8 * s[n] < len
  BY DEF LogInv, Return
<1>3. L \in Nat /\ s \in [1 .. L + 1 -> Nat] /\ DOMAIN sent.opts = 1 .. L /\ len \in Nat
  BY <1>1, <1>2, StartAdds, OptionsTyped, ReceivedTyped, RouterAdvertAssumption
<1>4. ASSUME NEW n \in 1 .. L, 8 * s[n] < len PROVE n \in 1 .. Len(seen)
  <2>1. CASE k <= n
    <3>1. s[k] <= s[n]
      <4>1. n \in 1 .. L + 1
        BY <1>3
      <4> QED BY <1>1, <1>2, <2>1, <4>1, StartGrows
    <3>2. s[k] \in Nat /\ s[n] \in Nat
      BY <1>2, <1>3
    <3> HIDE DEF s
    <3>3. FALSE
      BY <1>2, <1>3, <1>4, <3>1, <3>2
    <3> QED BY <3>3
  <2>2. CASE ~ (k <= n)
    BY <1>1, <2>2
  <2> QED BY <2>1, <2>2
<1>5. ASSUME NEW n \in 1 .. Len(seen) PROVE n \in 1 .. L
  BY <1>1, <1>2, <1>3
<1>6. Begun(sent) = 1 .. Len(seen)
  BY <1>2, <1>3, <1>4, <1>5 DEF Begun
<1>7. Cardinality(1 .. Len(seen)) = Len(seen)
  BY <1>1, CountTo
<1> QED BY <1>2, <1>6, <1>7

\* For every message laid out as its options say, of any size, with whatever
\* the buffer held before: processICMP logs the types of the options that
\* arrived, in order, and no others (ip6.c:363-440).
THEOREM LogsWhatWasSent == Spec => LogIsMessage
<1>1. ASSUME Inv, LogInv, [Next]_vars,
             pc = "walk" /\ pc' = "idle" /\ sent # NoMessage /\ LaidOut(sent)
      PROVE  /\ Len(seen) = Cardinality(Begun(sent))
             /\ \A n \in Begun(sent) : seen[n] = sent.opts[n].type
  <2>1. Return
    BY <1>1 DEF Next, ReceiveIcmp, ReceiveFrame, ReceiveFails, Reload, processICMP, Visit,
                VisitOutside, vars
  <2> QED BY <1>1, <2>1, ReturnLogs
<1>2. Inv /\ LogInv /\ [Next]_vars
        => [pc = "walk" /\ pc' = "idle" /\ sent # NoMessage /\ LaidOut(sent) =>
              /\ Len(seen) = Cardinality(Begun(sent))
              /\ \A n \in Begun(sent) : seen[n] = sent.opts[n].type]_vars
  BY <1>1
<1> QED BY <1>2, LogInvariant, PTL DEF Spec, LogIsMessage
=============================================================================
