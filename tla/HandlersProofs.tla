--------------------------- MODULE HandlersProofs --------------------------
(***************************************************************************)
(* What signals can do to the collected targets at worst, for any set of   *)
(* targets, any files and any sequence of signals.                         *)
(***************************************************************************)
EXTENDS Handlers, FiniteSetTheorems, TLAPS

(* The parts of the invariant.                                             *)

\* Once the tree is destroyed, the reload goes on with an empty one.
Emptied == upc \in {"reset", "limit", "null", "set"} => tRoot = {}

\* The main program goes to tsearch with a target that is not in the tree.
Missing == mpc \in {"room", "insert", "inserting"} => target \notin tRoot

\* What tEntries may be: between tsearch and the count it is one less.
CountInv ==
    upc # "reset" =>
      IF mpc = "count"
        THEN Cardinality(tRoot) <= tEntries + 1 /\ tEntries <= Cardinality(tRoot)
        ELSE Cardinality(tRoot) <= tEntries /\ tEntries <= Cardinality(tRoot) + 1

\* There was room when the main program looked, and there still is unless a
\* reload emptied the tree.
Bounded == Cardinality(tRoot) <= conf.collectTargets \/ Cardinality(tRoot) <= 1
RoomInv ==
    mpc \in {"insert", "inserting"} => Cardinality(tRoot) < conf.collectTargets \/ tRoot = {}

\* A dump that no reload disturbs has listed what is in the tree.
DumpInv ==
    /\ dpc # "off" /\ clean => upc = "off"
    /\ dpc = "total" /\ clean => listed = tRoot

Inv == TypeOK /\ Emptied /\ Missing /\ CountInv /\ Bounded /\ RoomInv /\ DumpInv

-----------------------------------------------------------------------------
LEMMA TreeFinite ==
  ASSUME NEW S, S \subseteq Targets
  PROVE  IsFiniteSet(S) /\ Cardinality(S) \in Nat
BY HandlersAssumption, FS_Subset, FS_CardinalityType

LEMMA TreeGrows ==
  ASSUME NEW S, S \subseteq Targets, NEW t, t \notin S
  PROVE  Cardinality(S \cup {t}) = Cardinality(S) + 1
BY TreeFinite, FS_AddElement

LEMMA EmptyTree == Cardinality({}) = 0
BY FS_EmptySet

LEMMA InitInv == Init => Inv
<1> SUFFICES ASSUME Init PROVE Inv
  OBVIOUS
<1>1. file.conf \in Config /\ file.conf.collectTargets >= 0
  BY HandlersAssumption DEF Init, File
<1>2. "zero" \in Prefixes /\ 0 \in Lengths
  BY HandlersAssumption
<1>2a. TypeOK
  BY <1>1, <1>2 DEF Init, TypeOK
<1>3. CountInv
  BY EmptyTree DEF Init, CountInv
<1>4. Bounded
  BY EmptyTree DEF Init, Bounded
<1> QED
  BY <1>2a, <1>3, <1>4 DEF Init, Inv, Emptied, Missing, RoomInv, DumpInv

-----------------------------------------------------------------------------
(* Types.                                                                  *)

LEMMA MainType ==
  ASSUME TypeOK, (\E t \in Targets : Solicited(t)) \/ processNS
  PROVE  TypeOK'
<1> USE DEF TypeOK, Local, Copies, NoCopies, MainOnly, reloadVars, dumpVars, treeVars
<1>0. /\ conf.prefix \in Prefixes /\ conf.prefixLen \in Lengths
      /\ conf.listType \in {"none", "black", "white"}
      /\ "zero" \in Prefixes /\ 0 \in Lengths
  BY HandlersAssumption DEF Config
<1>1. CASE \E t \in Targets : Solicited(t)
  BY <1>0, <1>1 DEF Solicited
<1>2. CASE CopyLength
  BY <1>0, <1>2 DEF CopyLength
<1>3. CASE Switch
  BY <1>0, <1>3 DEF Switch
<1>4. CASE compareExpression \/ Look
  <2>1. /\ mpc' \in {"match", "idle", "look"} /\ target' = target
        /\ kind' \in {kind, "none"}
        /\ prefixaddr' \in {prefixaddr, "zero"} /\ prefixaddrlen' \in {prefixaddrlen, 0}
    BY <1>4 DEF compareExpression, Look, Decided
  <2>2. UNCHANGED <<process, torn, treeVars>> /\ MainOnly
    BY <1>4 DEF compareExpression, Look
  <2> QED
    BY <1>0, <2>1, <2>2
<1>5. CASE Calls
  <2>1. PICK to \in {"looking", "finding", "inserting"} :
          /\ mpc' = to /\ UNCHANGED <<process, torn, treeVars>> /\ Local /\ MainOnly
    BY <1>5 DEF Calls, BeginCall
  <2> QED
    BY <2>1
<1>6. CASE Match
  BY <1>0, <1>6 DEF Match
<1>7. CASE Find
  BY <1>7 DEF Find
<1>8. CASE Room
  BY <1>8 DEF Room
<1>9. CASE Insert
  BY <1>9 DEF Insert
<1>10. CASE Count
  BY <1>10 DEF Count
<1> QED
  BY <1>1, <1>2, <1>3, <1>4, <1>5, <1>6, <1>7, <1>8, <1>9, <1>10 DEF processNS

LEMMA ConfType ==
  ASSUME TypeOK, readConfig \/ Usr1
  PROVE  conf' \in Config
<1>1. file.conf \in Config /\ conf \in Config
  BY HandlersAssumption DEF TypeOK, File
<1>2. CASE UNCHANGED conf
  BY <1>1, <1>2
<1>3. CASE SetListType
  BY <1>1, <1>3 DEF SetListType, Config
<1>4. CASE SetPrefix
  BY <1>1, <1>4 DEF SetPrefix, Config
<1>5. CASE AddListed
  BY <1>1, <1>5 DEF AddListed, Config
<1>5a. CASE AddExpression
  BY <1>1, <1>5a DEF AddExpression, Config
<1>6. CASE NoLimit
  BY <1>1, <1>6 DEF NoLimit, Config
<1>7. CASE SetLimit
  BY <1>1, <1>7 DEF SetLimit, Config
<1>8. CASE Usr1
  <2>1. "zero" \in Prefixes /\ 0 \in Lengths
    BY HandlersAssumption
  <2> DEFINE c == [conf EXCEPT !.prefix = "zero"]
  <2>2. c \in Config
    BY <1>1, <2>1 DEF Config
  <2>3. [c EXCEPT !.prefixLen = 0] \in Config
    BY <2>1, <2>2 DEF Config
  <2> QED
    BY <1>8, <2>3 DEF Usr1
<1>9. CASE ReadTargets \/ Destroy \/ Reset \/ Null \/ ReloadReturns \/ ReloadExits
  BY <1>2, <1>9 DEF ReadTargets, Destroy, Reset, Null, ReloadReturns, ReloadExits
<1> QED
  BY <1>3, <1>4, <1>5, <1>5a, <1>6, <1>7, <1>8, <1>9 DEF readConfig

LEMMA ReloadType ==
  ASSUME TypeOK, readConfig \/ Usr1
  PROVE  TypeOK'
<1>1. conf' \in Config
  BY ConfType
<1>2. CASE SetListType \/ SetPrefix \/ AddExpression \/ AddListed
  BY <1>1, <1>2 DEF TypeOK, SetListType, SetPrefix, AddExpression, AddListed, ReadLine, Reload, ReloadOnly,
                    mainVars, dumpVars, treeVars
<1>3. CASE ReadTargets
  BY <1>1, <1>3 DEF TypeOK, ReadTargets, ReadLine, Reload, ReloadOnly, mainVars, dumpVars, treeVars
<1>4. CASE Destroy
  BY <1>1, <1>4 DEF TypeOK, Destroy, Reload, ReloadOnly, mainVars, dumpVars
<1>5. CASE Reset
  BY <1>1, <1>5 DEF TypeOK, Reset, ResetTo, Reload, ReloadOnly, mainVars, dumpVars
<1>6. CASE NoLimit
  BY <1>1, <1>6 DEF TypeOK, NoLimit, Reload, ReloadOnly, mainVars, dumpVars, treeVars
<1>6a. CASE Null
  BY <1>1, <1>6a DEF TypeOK, Null, Reload, ReloadOnly, mainVars, dumpVars, treeVars
<1>6b. CASE SetLimit
  BY <1>1, <1>6b DEF TypeOK, SetLimit, Reload, ReloadOnly, mainVars, dumpVars, treeVars
<1>7. CASE ReloadReturns
  BY <1>1, <1>7 DEF TypeOK, ReloadReturns, ReloadOnly, mainVars, dumpVars, treeVars
<1>7a. CASE ReloadExits
  BY <1>1, <1>7a DEF TypeOK, ReloadExits, ReloadOnly, mainVars, dumpVars, treeVars
<1>8. CASE Usr1
  <2>1. todo' \subseteq Lines
    BY <1>8, HandlersAssumption DEF Usr1, File
  <2> QED
    BY <1>1, <1>8, <2>1 DEF TypeOK, Usr1, mainVars, treeVars
<1> QED
  BY <1>2, <1>3, <1>4, <1>5, <1>6, <1>6a, <1>6b, <1>7, <1>7a, <1>8 DEF readConfig

LEMMA DumpType ==
  ASSUME TypeOK, dumpAddressData \/ Usr2 \/ GoWild
  PROVE  TypeOK'
<1>1. CASE TestCollect
  BY <1>1 DEF TypeOK, TestCollect, Dump, DumpOnly, mainVars, reloadVars, treeVars
<1>1c. CASE BeginWalk
  BY <1>1c DEF TypeOK, BeginWalk, Dump, DumpOnly, mainVars, reloadVars, treeVars
<1>1a. CASE Walk
  BY <1>1a DEF TypeOK, Walk, Dump, DumpOnly, mainVars, reloadVars, treeVars
<1>1b. CASE Report
  BY <1>1b DEF TypeOK, Report, Dump, DumpOnly, mainVars, reloadVars, treeVars
<1>2. CASE Usr2
  BY <1>2 DEF TypeOK, Usr2, mainVars, reloadVars, treeVars
<1>3. CASE GoWild
  BY <1>3 DEF TypeOK, GoWild, mainVars, reloadVars, dumpVars, treeVars
<1> QED
  BY <1>1, <1>1a, <1>1b, <1>1c, <1>2, <1>3 DEF dumpAddressData

-----------------------------------------------------------------------------
(* The main program's steps.                                               *)

MainStep == (\E t \in Targets : Solicited(t)) \/ processNS

\* No handler is active, before or after.
LEMMA MainAlone ==
  ASSUME MainStep
  PROVE  /\ upc = "off" /\ upc' = upc /\ dpc = "off" /\ dpc' = dpc
         /\ listed' = listed /\ clean' = clean /\ conf' = conf
BY DEF MainStep, processNS, Solicited, CopyLength, Switch, compareExpression, Calls, BeginCall, Look, Match, Find, Room, Insert, Count, Main,
       MainOnly, reloadVars, dumpVars

LEMMA LimitTyped ==
  ASSUME TypeOK
  PROVE  conf.collectTargets \in Int /\ tEntries \in Nat /\ Cardinality(tRoot) \in Nat
BY TreeFinite DEF TypeOK, Config

LEMMA MainInv ==
  ASSUME Inv, MainStep
  PROVE  Inv'
<1>1. TypeOK'
  BY MainType DEF Inv, MainStep
<1>2. Emptied' /\ DumpInv'
  BY MainAlone DEF Emptied, DumpInv
<1>3. /\ conf.collectTargets \in Int /\ tEntries \in Nat /\ Cardinality(tRoot) \in Nat
  BY LimitTyped DEF Inv
<1>4. CASE \/ \E t \in Targets : Solicited(t)
         \/ CopyLength \/ Switch \/ compareExpression \/ Look \/ Match
  <2>1. /\ mpc \notin {"room", "insert", "inserting", "count"}
        /\ mpc' \notin {"room", "insert", "inserting", "count"}
        /\ tRoot' = tRoot /\ tEntries' = tEntries
    BY <1>4 DEF Solicited, CopyLength, Switch, compareExpression, Look, Decided, Match, Main, treeVars
  <2> QED
    BY <1>1, <1>2, <2>1, MainAlone DEF Inv, Missing, CountInv, Bounded, RoomInv
<1>5. CASE Find
  <2>1. /\ mpc = "finding" /\ mpc' = (IF target \in tRoot THEN "idle" ELSE "room")
        /\ tRoot' = tRoot /\ tEntries' = tEntries /\ target' = target
    BY <1>5 DEF Find, Main, treeVars, Local
  <2> QED
    BY <1>1, <1>2, <2>1, MainAlone DEF Inv, Missing, CountInv, Bounded, RoomInv
<1>5a. CASE Calls
  <2>1. /\ mpc \in {"look", "find", "insert"} /\ mpc' \in {"looking", "finding", "inserting"}
        /\ mpc' = "inserting" => mpc = "insert"
        /\ tRoot' = tRoot /\ tEntries' = tEntries /\ target' = target
    BY <1>5a DEF Calls, BeginCall, Main, treeVars, Local
  <2> QED
    BY <1>1, <1>2, <2>1, MainAlone DEF Inv, Missing, CountInv, Bounded, RoomInv
<1>6. CASE Room
  <2>1. /\ mpc = "room" /\ mpc' = (IF Full THEN "idle" ELSE "insert")
        /\ tRoot' = tRoot /\ tEntries' = tEntries /\ target' = target
    BY <1>6 DEF Room, Main, treeVars, Local
  <2>2. Cardinality(tRoot) <= tEntries /\ target \notin tRoot
    BY <2>1, MainAlone DEF Inv, CountInv, Missing
  <2>3. ~ Full => Cardinality(tRoot) < conf.collectTargets
    BY <1>3, <2>2 DEF Full
  <2>4. RoomInv'
    BY <2>1, <2>3, MainAlone DEF RoomInv
  <2> QED
    BY <1>1, <1>2, <2>1, <2>2, <2>4, MainAlone DEF Inv, Missing, CountInv, Bounded
<1>7. CASE Insert
  <2>1. /\ mpc = "inserting" /\ mpc' = "count" /\ target' = target
        /\ tRoot' = tRoot \cup {target} /\ tEntries' = tEntries
    BY <1>7 DEF Insert, Main, Local
  <2>2. Cardinality(tRoot') = Cardinality(tRoot) + 1
    BY <2>1, TreeGrows DEF Inv, TypeOK, Missing
  <2>3. Cardinality(tRoot) <= tEntries /\ tEntries <= Cardinality(tRoot) + 1
    BY <2>1, MainAlone DEF Inv, CountInv
  <2>4. CountInv'
    BY <1>3, <2>1, <2>2, <2>3 DEF CountInv
  <2>5. Cardinality(tRoot) < conf.collectTargets \/ Cardinality(tRoot) = 0
    BY <2>1, EmptyTree DEF Inv, RoomInv
  <2>6. Bounded'
    BY <1>3, <2>2, <2>5, MainAlone DEF Bounded
  <2> QED
    BY <1>1, <1>2, <2>1, <2>4, <2>6 DEF Inv, Missing, RoomInv
<1>8. CASE Count
  <2>1. /\ mpc = "count" /\ mpc' = "idle"
        /\ tRoot' = tRoot /\ tEntries' = tEntries + 1
    BY <1>8 DEF Count, Main
  <2>2. Cardinality(tRoot) <= tEntries + 1 /\ tEntries <= Cardinality(tRoot)
    BY <2>1, MainAlone DEF Inv, CountInv
  <2>3. CountInv'
    BY <1>3, <2>1, <2>2 DEF CountInv
  <2> QED
    BY <1>1, <1>2, <2>1, <2>3, MainAlone DEF Inv, Missing, Bounded, RoomInv
<1> QED
  BY <1>4, <1>5, <1>5a, <1>6, <1>7, <1>8 DEF MainStep, processNS

-----------------------------------------------------------------------------
(* The reload's steps.                                                     *)

LEMMA ReloadAlone ==
  ASSUME readConfig
  PROVE  /\ upc # "off" /\ mpc' = mpc /\ target' = target
         /\ dpc' = dpc /\ listed' = listed /\ clean' = clean
BY DEF readConfig, SetListType, SetPrefix, AddExpression, AddListed, ReadLine, ReadTargets, Destroy, Reset,
       NoLimit, Null, SetLimit, ReloadReturns, ReloadExits, Reload, ReloadOnly, mainVars, dumpVars

\* Steps that touch neither the tree and its count nor the limit.
LEMMA LinesInv ==
  ASSUME Inv, SetListType \/ SetPrefix \/ AddExpression \/ AddListed \/ ReloadReturns \/ ReloadExits
  PROVE  Inv'
<1>1. TypeOK'
  BY ReloadType DEF Inv, readConfig
<1>2. /\ upc = "line" /\ upc' \in {"line", "off"} /\ tRoot' = tRoot /\ tEntries' = tEntries
  BY DEF SetListType, SetPrefix, AddExpression, AddListed, ReloadReturns, ReloadExits, ReadLine, Reload, treeVars
<1>3. conf'.collectTargets = conf.collectTargets
  BY DEF SetListType, SetPrefix, AddExpression, AddListed, ReloadReturns, ReloadExits, Inv, TypeOK, Config
<1>4. mpc' = mpc /\ target' = target /\ dpc' = dpc /\ listed' = listed /\ clean' = clean
  BY ReloadAlone DEF readConfig
<1>5. Emptied' /\ Missing' /\ DumpInv'
  BY <1>2, <1>4 DEF Inv, Emptied, Missing, DumpInv
<1>6. CountInv' /\ Bounded' /\ RoomInv'
  BY <1>2, <1>3, <1>4 DEF Inv, CountInv, Bounded, RoomInv
<1> QED
  BY <1>1, <1>5, <1>6 DEF Inv

\* The collectTargets line: the tree is empty before the limit changes.
LEMMA ZapInv ==
  ASSUME Inv, ReadTargets \/ Destroy \/ Reset \/ NoLimit \/ Null \/ SetLimit
  PROVE  Inv'
<1>1. TypeOK'
  BY ReloadType DEF Inv, readConfig
<1>2. upc # "off" /\ mpc' = mpc /\ target' = target /\ dpc' = dpc /\ listed' = listed /\ clean' = clean
  BY ReloadAlone DEF readConfig
<1>3. DumpInv'
  BY <1>2 DEF Inv, DumpInv
<1>4. CASE ReadTargets
  <2>1. /\ upc = "line" /\ upc' = (IF Zaps THEN "destroy" ELSE "limit")
        /\ tRoot' = tRoot /\ tEntries' = tEntries /\ conf' = conf
    BY <1>4 DEF ReadTargets, ReadLine, Reload, treeVars
  <2>2. Emptied' /\ Missing'
    BY <1>2, <2>1 DEF Inv, Emptied, Missing, Zaps
  <2>3. CountInv' /\ Bounded' /\ RoomInv'
    BY <1>2, <2>1 DEF Inv, CountInv, Bounded, RoomInv
  <2> QED
    BY <1>1, <1>3, <2>2, <2>3 DEF Inv
<1>5. CASE Destroy
  <2>1. upc' = "reset" /\ tRoot' = {}
    BY <1>5 DEF Destroy
  <2>2. Emptied' /\ Missing' /\ RoomInv'
    BY <2>1 DEF Emptied, Missing, RoomInv
  <2>3. CountInv' /\ Bounded'
    BY <2>1, EmptyTree DEF CountInv, Bounded
  <2> QED
    BY <1>1, <1>3, <2>2, <2>3 DEF Inv
<1>6. CASE Reset
  <2>1. upc = "reset" /\ upc' = "limit" /\ tRoot' = tRoot /\ tEntries' = 0
    BY <1>6 DEF Reset, Reload, ResetTo
  <2>2. tRoot' = {}
    BY <2>1 DEF Inv, Emptied
  <2>3. Emptied' /\ Missing' /\ RoomInv'
    BY <2>2 DEF Emptied, Missing, RoomInv
  <2>4. CountInv' /\ Bounded'
    BY <2>1, <2>2, EmptyTree DEF CountInv, Bounded
  <2> QED
    BY <1>1, <1>3, <2>3, <2>4 DEF Inv
<1>7. CASE NoLimit \/ Null \/ SetLimit
  <2>1. /\ upc \in {"limit", "null", "set"} /\ upc' \in {"null", "set", "line"}
        /\ tRoot' = tRoot /\ tEntries' = tEntries
    BY <1>7 DEF NoLimit, Null, SetLimit, Reload, treeVars
  <2>2. tRoot' = {}
    BY <2>1 DEF Inv, Emptied
  <2>3. Emptied' /\ Missing' /\ RoomInv'
    BY <2>2 DEF Emptied, Missing, RoomInv
  <2>4. Bounded'
    BY <2>2, EmptyTree DEF Bounded
  <2>5. CountInv'
    BY <1>2, <2>1 DEF Inv, CountInv
  <2> QED
    BY <1>1, <1>3, <2>3, <2>4, <2>5 DEF Inv
<1> QED
  BY <1>4, <1>5, <1>6, <1>7

LEMMA Usr1Inv ==
  ASSUME Inv, Usr1
  PROVE  Inv'
<1>1. TypeOK'
  BY ReloadType DEF Inv
<1>2. /\ upc = "off" /\ upc' = "line" /\ clean' = FALSE /\ mpc' = mpc /\ target' = target
      /\ tRoot' = tRoot /\ tEntries' = tEntries
  BY DEF Usr1, mainVars, treeVars
<1>3. conf'.collectTargets = conf.collectTargets
  BY DEF Usr1, Inv, TypeOK, Config
<1>4. Emptied' /\ Missing' /\ DumpInv'
  BY <1>2 DEF Inv, Emptied, Missing, DumpInv
<1>5. CountInv' /\ Bounded' /\ RoomInv'
  BY <1>2, <1>3 DEF Inv, CountInv, Bounded, RoomInv
<1> QED
  BY <1>1, <1>4, <1>5 DEF Inv

-----------------------------------------------------------------------------
(* The dump's steps change nothing but what is their own.                  *)

LEMMA DumpStepInv ==
  ASSUME Inv, dumpAddressData \/ Usr2 \/ GoWild
  PROVE  Inv'
<1>1. TypeOK'
  BY DumpType DEF Inv
<1>2. /\ upc' = upc /\ mpc' = mpc /\ target' = target /\ conf' = conf
      /\ tRoot' = tRoot /\ tEntries' = tEntries
  BY DEF dumpAddressData, TestCollect, BeginWalk, Walk, Report, DumpOnly, Usr2, GoWild, mainVars, reloadVars,
         treeVars
<1>3. Emptied' /\ Missing' /\ CountInv' /\ Bounded' /\ RoomInv'
  BY <1>2 DEF Inv, Emptied, Missing, CountInv, Bounded, RoomInv
<1>4. DumpInv'
  <2>1. CASE TestCollect
    BY <1>2, <2>1 DEF Inv, DumpInv, TestCollect, Dump
  <2>1a. CASE BeginWalk
    BY <1>2, <2>1a DEF Inv, DumpInv, BeginWalk, Dump
  <2>2. CASE Walk
    BY <1>2, <2>2 DEF Inv, DumpInv, Walk, Dump
  <2>3. CASE Report
    BY <1>2, <2>3 DEF DumpInv, Report
  <2>4. CASE Usr2
    BY <1>2, <2>4 DEF DumpInv, Usr2
  <2>5. CASE GoWild
    BY <1>2, <2>5 DEF Inv, DumpInv, GoWild, dumpVars
  <2> QED
    BY <2>1, <2>1a, <2>2, <2>3, <2>4, <2>5 DEF dumpAddressData
<1> QED
  BY <1>1, <1>3, <1>4 DEF Inv

LEMMA StutterInv ==
  ASSUME Inv, UNCHANGED vars
  PROVE  Inv'
<1>1. TypeOK'
  BY DEF Inv, TypeOK, vars, mainVars, reloadVars, dumpVars, treeVars
<1> QED
  BY <1>1 DEF Inv, Emptied, Missing, CountInv, Bounded, RoomInv, DumpInv, vars, mainVars,
              reloadVars, dumpVars, treeVars

LEMMA NextInv == Inv /\ [Next]_vars => Inv'
BY MainInv, LinesInv, ZapInv, Usr1Inv, DumpStepInv, StutterInv DEF Next, MainStep, readConfig

LEMMA InvEnough == Inv => TypeOK /\ CountNear /\ TreeBounded /\ DumpNear
<1> SUFFICES ASSUME Inv PROVE CountNear /\ TreeBounded /\ DumpNear
  BY DEF Inv
<1>1. CountNear
  BY DEF Inv, CountInv, CountNear, Quiet
<1>2. TreeBounded
  BY DEF Inv, Bounded, TreeBounded
<1>3. DumpNear
  <2> SUFFICES ASSUME dpc = "total", clean
               PROVE  tEntries - Cardinality(listed) \in -1 .. 1
    BY DEF DumpNear
  <2>1. upc = "off" /\ listed = tRoot
    BY DEF Inv, DumpInv
  <2>2. Cardinality(tRoot) <= tEntries + 1 /\ tEntries <= Cardinality(tRoot) + 1
    BY <2>1, LimitTyped DEF Inv, CountInv
  <2> QED
    BY <2>1, <2>2, LimitTyped DEF Inv
<1> QED
  BY <1>1, <1>2, <1>3

\* The inductive invariant holds, with handlers that start at any step and
\* inside each other.
THEOREM SignalsInvariant == Spec => []Inv
BY InitInv, NextInv, PTL DEF Spec

\* Whatever signals come, between any two steps and inside each other, each
\* variable of processNS, readConfig and the dump keeps its type.
THEOREM TypesKept == Spec => []TypeOK
BY SignalsInvariant, InvEnough, PTL

\* ... the count of collected targets is that of the tree, or one above
\* (storeTarget, util.c:591-599, against readConfig, config.c:277-283).
THEOREM CountStaysNear == Spec => []CountNear
BY SignalsInvariant, InvEnough, PTL

\* ... and at most the one target that was being stored is above the limit.
THEOREM TreeStaysBounded == Spec => []TreeBounded
BY SignalsInvariant, InvEnough, PTL

\* ... and a dump that no reload touches reports what it listed, but for one.
THEOREM DumpStaysNear == Spec => []DumpNear
BY SignalsInvariant, InvEnough, PTL

-----------------------------------------------------------------------------
(* Targets that are no longer entitled.                                    *)

\* What processNS has found out so far is what the configuration in force says.
Fresh ==
    /\ mpc \in {"copy", "list", "exprs", "look", "looking", "match"} => prefixaddr = conf.prefix
    /\ mpc \in {"list", "exprs", "look", "looking", "match"} => prefixaddrlen = conf.prefixLen
    /\ mpc \in {"exprs", "look", "looking"} => kind = conf.listType /\ kind # "none"
    /\ mpc \in {"look", "looking"} => target \notin conf.exprs
    /\ mpc = "match" => Permits(conf, conf.listType, target)
    /\ mpc \in {"find", "finding", "room", "insert", "inserting"} => Entitled(conf, target)

\* If not, a reload came in between, and it emptied the tree.
FreshInv ==
    upc = "off" =>
      /\ Fresh \/ tRoot = {}
      /\ \A s, t \in tRoot : Entitled(conf, s) \/ Entitled(conf, t) \/ s = t

\* A reload drops the tree before it returns.
DropInv == upc = "line" /\ "collectTargets" \notin todo => tRoot = {}

StrayInv == TypeOK /\ Emptied /\ FreshInv /\ DropInv

LEMMA StrayMain ==
  ASSUME StrayInv, MainStep
  PROVE  FreshInv' /\ DropInv'
<1>1. DropInv'
  BY MainAlone DEF DropInv
<1>2. /\ Fresh \/ tRoot = {}
      /\ \A s, t \in tRoot : Entitled(conf, s) \/ Entitled(conf, t) \/ s = t
  BY MainAlone DEF StrayInv, FreshInv
<1>3. CASE \E t \in Targets : Solicited(t)
  <2>1. mpc' = "copy" /\ prefixaddr' = conf.prefix /\ tRoot' = tRoot
    BY <1>3 DEF Solicited, treeVars
  <2> QED
    BY <1>1, <1>2, <2>1, MainAlone DEF FreshInv, Fresh
<1>4. CASE CopyLength \/ Switch
  <2>1. /\ tRoot' = tRoot /\ target' = target /\ prefixaddr' = prefixaddr
    BY <1>4 DEF CopyLength, Switch, treeVars
  <2>2. CASE CopyLength
    <3>1. mpc = "copy" /\ mpc' = "list" /\ prefixaddrlen' = conf.prefixLen
      BY <2>2 DEF CopyLength, Main
    <3>2. Fresh => Fresh'
      BY <2>1, <3>1, MainAlone DEF Fresh
    <3> QED
      BY <1>1, <1>2, <2>1, <3>2, MainAlone DEF FreshInv
  <2>3. CASE Switch
    <3>1. /\ mpc = "list" /\ kind' = conf.listType /\ prefixaddrlen' = prefixaddrlen
          /\ mpc' = (IF conf.listType = "none" THEN "match" ELSE "exprs")
      BY <2>3 DEF Switch, Main
    <3>2. Fresh => Fresh'
      BY <2>1, <3>1, MainAlone DEF Fresh, Permits
    <3> QED
      BY <1>1, <1>2, <2>1, <3>2, MainAlone DEF FreshInv
  <2> QED
    BY <1>4, <2>2, <2>3
<1>5. CASE compareExpression \/ Look
  <2>1. tRoot' = tRoot /\ target' = target
    BY <1>5 DEF compareExpression, Look, Decided, Local, treeVars
  <2>2. CASE mpc' = "idle"
    BY <1>1, <1>2, <2>1, <2>2, MainAlone DEF FreshInv, Fresh
  <2>3. CASE mpc' = "look"
    <3>1. mpc = "exprs" /\ target \notin conf.exprs /\ Local
      BY <1>5, <2>3 DEF compareExpression, Look, Decided, Main
    <3>2. Fresh => Fresh'
      BY <2>3, <3>1, MainAlone DEF Fresh, Local
    <3> QED
      BY <1>1, <1>2, <2>1, <3>2, MainAlone DEF FreshInv
  <2>4. CASE mpc' = "match"
    <3>1. mpc \in {"exprs", "looking"} /\ UNCHANGED Copies
      BY <1>5, <2>4 DEF compareExpression, Look, Decided, Main, Local
    <3>2. mpc = "exprs" => target \in conf.exprs /\ kind = "white"
      BY <1>5, <2>4 DEF compareExpression, Look, Decided, Main
    <3>3. mpc = "looking" => (target \in conf.lRoot <=> kind = "white")
      BY <1>5, <2>4 DEF compareExpression, Look, Decided, Main
    <3>4. Fresh => Permits(conf, conf.listType, target)
      BY <3>1, <3>2, <3>3 DEF Fresh, Permits, Listed, StrayInv, TypeOK
    <3>5. Fresh => Fresh'
      BY <2>1, <2>4, <3>1, <3>4, MainAlone DEF Fresh, Copies
    <3> QED
      BY <1>1, <1>2, <2>1, <3>5, MainAlone DEF FreshInv
  <2> QED
    BY <1>5, <2>2, <2>3, <2>4 DEF compareExpression, Look, Decided
<1>6. CASE Match
  <2>0. /\ mpc = "match"
        /\ mpc' = (IF target \in Covers[prefixaddr][prefixaddrlen] /\ conf.collectTargets # 0
                     THEN "find" ELSE "idle")
        /\ target' = target /\ tRoot' = tRoot
    BY <1>6 DEF Match, Main, treeVars
  <2>1. /\ mpc = "match" /\ target' = target /\ tRoot' = tRoot
        /\ mpc' = "idle" \/ (mpc' = "find" /\ target \in Covers[prefixaddr][prefixaddrlen])
    BY <2>0
  <2>2. Fresh /\ mpc' = "find" => Entitled(conf, target)
    BY <2>1 DEF Fresh, Entitled
  <2>3. Entitled(conf', target') <=> Entitled(conf, target)
    BY <2>1, MainAlone
  <2>4. Fresh => Fresh'
    BY <2>1, <2>2, <2>3 DEF Fresh
  <2> QED
    BY <1>1, <1>2, <2>1, <2>4, MainAlone DEF FreshInv
<1>7. CASE Calls
  <2>1. /\ tRoot' = tRoot /\ target' = target /\ kind' = kind
        /\ prefixaddr' = prefixaddr /\ prefixaddrlen' = prefixaddrlen
        /\ \/ mpc = "look" /\ mpc' = "looking"
           \/ mpc = "find" /\ mpc' = "finding"
           \/ mpc = "insert" /\ mpc' = "inserting"
    BY <1>7 DEF Calls, BeginCall, Main, Local, treeVars
  <2>2. Fresh => Fresh'
    BY <2>1, MainAlone DEF Fresh
  <2> QED
    BY <1>1, <1>2, <2>1, <2>2, MainAlone DEF FreshInv
<1>7a. CASE Find \/ Room \/ Count
  <2>1. /\ mpc \in {"finding", "room", "count"} /\ mpc' \in {"room", "insert", "idle"}
        /\ mpc = "count" => mpc' = "idle"
        /\ target' = target /\ tRoot' = tRoot
    BY <1>7a DEF Find, Room, Count, Main, Local, treeVars
  <2>2. Fresh => Fresh'
    BY <2>1, MainAlone DEF Fresh
  <2> QED
    BY <1>1, <1>2, <2>1, <2>2, MainAlone DEF FreshInv
<1>8. CASE Insert
  <2>1. mpc = "inserting" /\ mpc' = "count" /\ tRoot' = tRoot \cup {target}
    BY <1>8 DEF Insert, Main
  <2>2. Fresh'
    BY <2>1 DEF Fresh
  <2>3. CASE Fresh
    <3>1. Entitled(conf, target)
      BY <2>1, <2>3 DEF Fresh
    <3>2. \A s, t \in tRoot' : Entitled(conf, s) \/ Entitled(conf, t) \/ s = t
      BY <1>2, <2>1, <3>1
    <3> QED
      BY <1>1, <2>2, <3>2, MainAlone DEF FreshInv
  <2>4. CASE tRoot = {}
    <3>1. \A s, t \in tRoot' : s = t
      BY <2>1, <2>4
    <3> QED
      BY <1>1, <2>2, <3>1 DEF FreshInv
  <2> QED
    BY <1>2, <2>3, <2>4
<1> QED
  BY <1>3, <1>4, <1>5, <1>6, <1>7, <1>7a, <1>8 DEF MainStep, processNS

LEMMA StrayReload ==
  ASSUME StrayInv, readConfig
  PROVE  FreshInv' /\ DropInv'
<1>1. upc # "off"
  BY ReloadAlone
<1>2. CASE SetListType \/ SetPrefix \/ AddExpression \/ AddListed
  <2>1. /\ upc = "line" /\ upc' = "line" /\ tRoot' = tRoot
        /\ "collectTargets" \notin todo' => "collectTargets" \notin todo
    BY <1>2 DEF SetListType, SetPrefix, AddExpression, AddListed, ReadLine, Reload, treeVars
  <2> QED
    BY <2>1 DEF StrayInv, FreshInv, DropInv
<1>3. CASE ReadTargets \/ Destroy \/ Reset \/ NoLimit \/ Null
  <2>1. upc' \in {"destroy", "limit", "reset", "null", "set"}
    BY <1>3 DEF ReadTargets, Destroy, Reset, NoLimit, Null
  <2> QED
    BY <2>1 DEF FreshInv, DropInv
<1>4. CASE SetLimit
  <2>1. upc = "set" /\ upc' = "line" /\ tRoot' = tRoot
    BY <1>4 DEF SetLimit, Reload, treeVars
  <2> QED
    BY <2>1 DEF StrayInv, Emptied, FreshInv, DropInv
<1>5. CASE ReloadReturns
  <2>1. upc = "line" /\ todo = {} /\ upc' = "off" /\ tRoot' = tRoot
    BY <1>5 DEF ReloadReturns, Reload, treeVars
  <2>2. tRoot' = {}
    BY <2>1 DEF StrayInv, DropInv
  <2> QED
    BY <2>1, <2>2 DEF FreshInv, DropInv
<1>6. CASE ReloadExits
  <2>1. upc = "line" /\ upc' = "line" /\ tRoot' = tRoot /\ todo' = todo
    BY <1>6 DEF ReloadExits, Reload, treeVars
  <2> QED
    BY <2>1 DEF StrayInv, FreshInv, DropInv
<1> QED
  BY <1>2, <1>3, <1>4, <1>5, <1>6 DEF readConfig

LEMMA StrayUsr1 ==
  ASSUME StrayInv, Usr1, \A f \in Files : "collectTargets" \in f.keys
  PROVE  FreshInv' /\ DropInv'
<1>1. upc' = "line" /\ "collectTargets" \in todo'
  BY DEF Usr1
<1> QED
  BY <1>1 DEF FreshInv, DropInv

LEMMA StrayDump ==
  ASSUME StrayInv, dumpAddressData \/ Usr2 \/ GoWild \/ UNCHANGED vars
  PROVE  FreshInv' /\ DropInv'
<1>1. /\ upc' = upc /\ todo' = todo /\ conf' = conf /\ tRoot' = tRoot
      /\ mpc' = mpc /\ target' = target /\ kind' = kind
      /\ prefixaddr' = prefixaddr /\ prefixaddrlen' = prefixaddrlen
  BY DEF dumpAddressData, TestCollect, BeginWalk, Walk, Report, DumpOnly, Usr2, GoWild, mainVars, reloadVars,
         treeVars, vars
<1>2. Fresh' <=> Fresh
  BY <1>1 DEF Fresh
<1> QED
  BY <1>1, <1>2 DEF StrayInv, FreshInv, DropInv

LEMMA StrayNext ==
  ASSUME StrayInv, Inv', [Next]_vars, \A f \in Files : "collectTargets" \in f.keys
  PROVE  StrayInv'
<1>1. FreshInv' /\ DropInv'
  BY StrayMain, StrayReload, StrayUsr1, StrayDump DEF Next, MainStep
<1> QED
  BY <1>1 DEF StrayInv, Inv

LEMMA OneOrNone ==
  ASSUME NEW S, S \subseteq Targets, \A s, t \in S : s = t
  PROVE  Cardinality(S) <= 1
<1>1. CASE S = {}
  BY <1>1, EmptyTree
<1>2. CASE S # {}
  <2> PICK s \in S : TRUE
    BY <1>2
  <2>1. S = {} \cup {s} /\ s \notin {}
    OBVIOUS
  <2> QED
    BY <2>1, TreeGrows, EmptyTree
<1> QED
  BY <1>1, <1>2

LEMMA StrayEnough == StrayInv => OneStray
<1> SUFFICES ASSUME StrayInv, Quiet
             PROVE  Cardinality({t \in tRoot : ~ Entitled(conf, t)}) <= 1
  BY DEF OneStray
<1> DEFINE S == {t \in tRoot : ~ Entitled(conf, t)}
<1>1. \A s, t \in tRoot : Entitled(conf, s) \/ Entitled(conf, t) \/ s = t
  BY DEF Quiet, StrayInv, FreshInv
<1>2. S \subseteq Targets /\ \A s, t \in S : s = t
  BY <1>1 DEF StrayInv, TypeOK
<1> QED
  BY <1>2, OneOrNone

\* With files that each have a collectTargets line, reloads at any step leave at
\* most one target in the tree that the configuration in force does not entitle.
THEOREM AtMostOneStray ==
  ASSUME \A f \in Files : "collectTargets" \in f.keys
  PROVE  Spec => []OneStray
<1>1. Spec => []Inv
  BY InitInv, NextInv, PTL DEF Spec
<1>2. Init => StrayInv
  BY InitInv DEF Init, StrayInv, FreshInv, Fresh, DropInv, Inv
<1>3. StrayInv /\ Inv' /\ [Next]_vars => StrayInv'
  BY StrayNext
<1> QED
  BY <1>1, <1>2, <1>3, StrayEnough, PTL DEF Spec
=============================================================================
