----------------------------- MODULE ReadConfig ----------------------------
(***************************************************************************)
(* readConfig, once at startup and once per SIGUSR1: the count of lines    *)
(* that size interfaces[], the file line by line, and the lookup of each   *)
(* interface.  What the daemon does between two calls is left to           *)
(* Dispatcher, but for the targets it collects.                            *)
(***************************************************************************)
EXTENDS ConfigFile

CONSTANT Targets      \* the targets that may be collected between two calls

VARIABLES pc,         \* "idle" between calls, "open", "count", "line", "lookup", "failed", "wild"
          file, at,   \* the file, and the line fgets returns next
          approxInterfaces, interfaceCount, prefixCount, check,
          interfaces,               \* the table, of approxInterfaces entries
          conf,                     \* the globals of the settings
          lRoot, sExpressions,      \* the lists, which outlive a call
          tRoot,                    \* the collected targets
          before                    \* not in the code: the state the call began with

fileVars  == <<file, at>>
countVars == <<approxInterfaces, interfaceCount, prefixCount, check>>
listVars  == <<lRoot, sExpressions>>
vars == <<pc, fileVars, countVars, interfaces, conf, listVars, tRoot, before>>

Entry == [nameStr |-> Unset, prefix |-> Unset, prefixLen |-> 0, index |-> 0]

Result ==
    [conf |-> conf, lRoot |-> lRoot, sExpressions |-> sExpressions, tRoot |-> tRoot,
     pairs |-> [n \in 1 .. interfaceCount |->
                  [name |-> interfaces[n - 1].nameStr, prefix |-> interfaces[n - 1].prefix,
                   prefixLen |-> interfaces[n - 1].prefixLen]]]

Init ==
    /\ pc = "open" /\ file \in Files /\ at = 1
    /\ approxInterfaces = 0 /\ interfaceCount = 0 /\ prefixCount = 0 /\ check = 0
    /\ interfaces = <<>>
    /\ conf = Defaults /\ lRoot = {} /\ sExpressions = <<>> /\ tRoot = {}
    /\ before = Result

-----------------------------------------------------------------------------
\* SIGUSR1.
Call ==
    /\ pc = "idle" /\ pc' = "open"
    /\ file' \in Files /\ before' = Result
    /\ UNCHANGED <<at, countVars, interfaces, conf, listVars, tRoot>>

Stop(how) ==
    /\ pc' = how
    /\ UNCHANGED <<fileVars, countVars, interfaces, conf, listVars, tRoot, before>>

\* The caller exits: main returns 1, usersignal calls exit(1).
Fail == Stop("failed")

Open ==
    /\ pc = "open" /\ file # NoFile /\ pc' = "count"
    /\ at' = 1 /\ approxInterfaces' = 0 /\ interfaceCount' = 0 /\ prefixCount' = 0
    /\ conf' = [conf EXCEPT !["pollErrorLimit"] = DefaultErrorLimit]
    /\ UNCHANGED <<file, check, interfaces, listVars, tRoot, before>>

OpenFails == pc = "open" /\ file = NoFile /\ Fail

\* The first pass.  (Variant: only lines that are taken in are counted.)
CountedKeywordOnly(l) == l.key = "interface" /\ CountsAsInterface(l)
Counted(l) == CountsAsInterface(l)

CountLine ==
    /\ pc = "count" /\ at <= Len(file)
    /\ approxInterfaces' = approxInterfaces + IF Counted(file[at]) THEN 1 ELSE 0
    /\ at' = at + 1
    /\ UNCHANGED <<pc, file, interfaceCount, prefixCount, check, interfaces, conf, listVars,
                   tRoot, before>>

\* calloc and rewind.
Allocate ==
    /\ pc = "count" /\ at > Len(file) /\ pc' = "line" /\ at' = 1
    /\ interfaces' = [i \in 0 .. approxInterfaces - 1 |-> Entry]
    /\ UNCHANGED <<file, countVars, conf, listVars, tRoot, before>>

-----------------------------------------------------------------------------
(* The second pass: one line, and on to the next.                          *)

\* The loop goes on while len is not 0, which is why it is set to 1 for a
\* blank line.  (Variants: it is not; a blank line is not left behind.)
NextLineStops == IF file[at].key = "blank" THEN Len(file) + 1 ELSE at + 1
NextLineStays == IF file[at].key = "blank" THEN at ELSE at + 1
NextLine == at + 1

\* What a line is stored in is past the end of the table.
Outside(l) ==
    \/ l.key = "prefix" /\ prefixCount >= approxInterfaces
    \/ l.key = "interface" /\ interfaceCount >= approxInterfaces

TakeLine(keys) ==
    /\ pc = "line" /\ at <= Len(file)
    /\ file[at].key \in keys /\ Accepted(file[at]) /\ ~ Outside(file[at])
    /\ at' = NextLine
    /\ UNCHANGED <<pc, file, approxInterfaces, check, before>>

SkipLine ==
    /\ TakeLine({"blank", "noise"})
    /\ UNCHANGED <<interfaceCount, prefixCount, interfaces, conf, listVars, tRoot>>

StorePrefix ==
    /\ TakeLine({"prefix"})
    /\ interfaces' = [interfaces EXCEPT ![prefixCount].prefix = file[at].word,
                                        ![prefixCount].prefixLen = PrefixLen(file[at])]
    /\ prefixCount' = prefixCount + 1
    /\ UNCHANGED <<interfaceCount, conf, listVars, tRoot>>

StoreInterface ==
    /\ TakeLine({"interface"})
    /\ interfaces' = [interfaces EXCEPT ![interfaceCount].nameStr = file[at].word]
    /\ interfaceCount' = interfaceCount + 1
    /\ UNCHANGED <<prefixCount, conf, listVars, tRoot>>

SetValue ==
    /\ TakeLine(Settings \ {"collectTargets"})
    /\ conf' = [conf EXCEPT ![file[at].key] = Value(file[at])]
    /\ UNCHANGED <<interfaceCount, prefixCount, interfaces, listVars, tRoot>>

\* The targets collected under the old limit are dropped.
SetTargets ==
    /\ TakeLine({"collectTargets"})
    /\ conf' = [conf EXCEPT !["collectTargets"] = Value(file[at])]
    /\ tRoot' = {}
    /\ UNCHANGED <<interfaceCount, prefixCount, interfaces, listVars>>

\* storeListEntry ignores a duplicate, readConfig a text that is no address.
ListAddress ==
    /\ TakeLine({"addrlist"})
    /\ lRoot' = IF file[at].word \in Addresses THEN lRoot \cup {file[at].word} ELSE lRoot
    /\ UNCHANGED <<interfaceCount, prefixCount, interfaces, conf, sExpressions, tRoot>>

storeExpression ==
    /\ TakeLine({"exprlist"})
    /\ sExpressions' = IF Len(sExpressions) < MAX_EXPRESSION_ENTRIES
                         THEN Append(sExpressions, file[at].word) ELSE sExpressions
    /\ UNCHANGED <<interfaceCount, prefixCount, interfaces, conf, lRoot, tRoot>>

RefuseLine == pc = "line" /\ at <= Len(file) /\ ~ Accepted(file[at]) /\ Fail

\* Nothing compares the counts with the size.  What the store overwrites is
\* anybody's guess, and nothing is said of the process from then on.
StoreOutside ==
    /\ pc = "line" /\ at <= Len(file) /\ Accepted(file[at]) /\ Outside(file[at])
    /\ Stop("wild")

\* Which entries there are to look up.  (Variant: the counts not compared.)
PairedAny == interfaceCount >= 1
Paired == interfaceCount = prefixCount /\ interfaceCount >= 1

EndOfFile ==
    /\ pc = "line" /\ at > Len(file) /\ Paired
    /\ pc' = "lookup" /\ check' = 0
    /\ UNCHANGED <<fileVars, approxInterfaces, interfaceCount, prefixCount, interfaces, conf,
                   listVars, tRoot, before>>

Unpaired == pc = "line" /\ at > Len(file) /\ ~ Paired /\ Fail

\* if_nametoindex and getLinkaddress, for one entry; then return 0.
LookUp ==
    /\ pc = "lookup" /\ check < interfaceCount /\ interfaces[check].nameStr \in Present
    /\ interfaces' = [interfaces EXCEPT ![check].index = 1]
    /\ check' = check + 1
    /\ UNCHANGED <<pc, fileVars, approxInterfaces, interfaceCount, prefixCount, conf, listVars,
                   tRoot, before>>

LookUpFails ==
    /\ pc = "lookup" /\ check < interfaceCount /\ interfaces[check].nameStr \notin Present
    /\ Fail

Return ==
    /\ pc = "lookup" /\ check >= interfaceCount /\ pc' = "idle"
    /\ UNCHANGED <<fileVars, countVars, interfaces, conf, listVars, tRoot, before>>

-----------------------------------------------------------------------------
\* The daemon collects a target, between two calls.
storeTarget(t) ==
    /\ pc = "idle" /\ t \notin tRoot /\ Cardinality(tRoot) < conf["collectTargets"]
    /\ tRoot' = tRoot \cup {t}
    /\ UNCHANGED <<pc, fileVars, countVars, interfaces, conf, listVars, before>>

ReadLine ==
    \/ SkipLine \/ StorePrefix \/ StoreInterface \/ SetValue \/ SetTargets
    \/ ListAddress \/ storeExpression \/ RefuseLine \/ StoreOutside

Read ==
    \/ Open \/ OpenFails \/ CountLine \/ Allocate \/ ReadLine
    \/ EndOfFile \/ Unpaired \/ LookUp \/ LookUpFails \/ Return

Next == Read \/ Call \/ \E t \in Targets : storeTarget(t)

\* The process runs; nobody has to send a signal.
Spec == Init /\ [][Next]_vars /\ WF_vars(Read)

-----------------------------------------------------------------------------
\* Only a file with more prefixes or names than lines that say "interface" is
\* stored past the end of the table, and once the call returns each entry in
\* use has its prefix, its name and its index.  Two passes with different ideas
\* of an interface line size it and fill it.
TableHolds ==
    /\ pc = "wild" => ~ HasRoom(file)
    /\ pc = "idle" => \A i \in 0 .. interfaceCount - 1 :
         /\ Unset \notin {interfaces[i].nameStr, interfaces[i].prefix}
         /\ interfaces[i].index # 0

\* Line by line or at once comes to the same: with any sequence of files, the
\* daemon is left with what ConfigStore says or ended by a file it refuses, or
\* anything may have become of it in a file without room for its interfaces.
\* What a file does not mention is as in Defaults, where the code and the
\* sample file disagree.
Visible == IF pc = "idle" THEN Result ELSE before
Store == INSTANCE ConfigStore WITH
            process <- IF pc = "failed" THEN "ended" ELSE IF pc = "wild" THEN pc ELSE "running",
            reading <- IF pc \in {"idle", "failed", "wild"} THEN <<>> ELSE <<file>>,
            settings <- Visible.conf, pairs <- Visible.pairs, listed <- Visible.lRoot,
            expressions <- Visible.sExpressions, collected <- Visible.tRoot
IsConfigStore == Store!Spec

\* ... and every call comes to its end.
CallsEnd == Store!Live
=============================================================================
