------------------------------ MODULE Handlers -----------------------------
(***************************************************************************)
(* The collected targets under signals: processNS and storeTarget in the   *)
(* steps between which a handler can come, readConfig in the handler of    *)
(* SIGUSR1 and dumpAddressData in that of SIGUSR2.  A handler blocks its   *)
(* own signal only, so each may come inside the other; the one that came   *)
(* last runs, and the main program when neither is active.                 *)
(* A call of tfind, tsearch or twalk has a beginning and an end, and what  *)
(* comes before the beginning finds the tree as it is then.  If the tree   *)
(* is changed between the two, or is no tree any more when a call begins,  *)
(* nothing is known of what follows: the process is "wild".                *)
(* A local that is not used again is cleared, to have fewer states.        *)
(* An expression is the set of targets it hits; fewer than the 64 there is *)
(* room for are stored.                                                    *)
(***************************************************************************)
EXTENDS Integers, FiniteSets

CONSTANTS Targets,    \* the targets solicited
          Prefixes, Lengths,  \* those of the files, and those of a zeroed entry: "zero" and 0
          Covers,     \* the targets that a prefix covers with a length
          Files       \* what configuration files may say

VARIABLES process,                  \* "up", "exited" or "wild"
          mpc, target, prefixaddr, prefixaddrlen, kind,  \* processNS: where it is; its locals
          upc, file, todo,          \* readConfig: where it is; the lines it has not read
          dpc, listed, clean,       \* the dump: what twalk wrote; no reload came inside, or around
          inner,                    \* which handler came last, if both are active
          torn,                     \* those whose library call works on a changed tree
          conf,                     \* listType, the lists, the prefix and collectTargets
          tRoot, dangling,          \* the tree of targets; does tRoot point to freed memory?
          tEntries

mainVars   == <<mpc, target, prefixaddr, prefixaddrlen, kind>>
reloadVars == <<upc, file, todo>>
dumpVars   == <<dpc, listed, clean>>
treeVars   == <<tRoot, dangling, tEntries>>
vars == <<process, mainVars, reloadVars, dumpVars, inner, torn, conf, treeVars>>

Lines == {"listtype", "exprlist", "addrlist", "prefix", "collectTargets"}
Config == [listType : {"none", "black", "white"}, exprs : SUBSET Targets, lRoot : SUBSET Targets,
           prefix : Prefixes, prefixLen : Lengths, collectTargets : Int]
File == [conf : Config, keys : SUBSET Lines]

ASSUME HandlersAssumption ==
    /\ IsFiniteSet(Targets)
    /\ "zero" \in Prefixes /\ 0 \in Lengths
    /\ Covers \in [Prefixes -> [Lengths -> SUBSET Targets]]
    /\ Files \subseteq File
    /\ \A f \in Files : f.conf.collectTargets >= 0

Listed(c, t) == t \in c.exprs \/ t \in c.lRoot
Permits(c, k, t) == k = "none" \/ (k = "black" /\ ~ Listed(c, t)) \/ (k = "white" /\ Listed(c, t))
Entitled(c, t) == Permits(c, c.listType, t) /\ t \in Covers[c.prefix][c.prefixLen]

Init ==
    /\ process = "up" /\ mpc = "idle" /\ upc = "off" /\ dpc = "off" /\ inner = 1
    /\ target \in Targets /\ prefixaddr = "zero" /\ prefixaddrlen = 0 /\ kind = "none"
    /\ file \in Files /\ todo = {} /\ conf = file.conf
    /\ listed = {} /\ clean = TRUE /\ torn = {}
    /\ tRoot = {} /\ dangling = FALSE /\ tEntries = 0

-----------------------------------------------------------------------------
(* processNS.                                                              *)

Main(from) == process = "up" /\ upc = "off" /\ dpc = "off" /\ mpc = from
MainOnly == UNCHANGED <<reloadVars, dumpVars, inner, conf>>
Local == UNCHANGED <<target, prefixaddr, prefixaddrlen, kind>>

\* A solicitation.  The prefix of the interface is copied, then its length.
Solicited(t) ==
    /\ Main("idle") /\ mpc' = "copy"
    /\ target' = t /\ prefixaddr' = conf.prefix
    /\ UNCHANGED <<process, prefixaddrlen, kind, torn, treeVars>> /\ MainOnly

CopyLength ==
    /\ Main("copy") /\ mpc' = "list"
    /\ prefixaddrlen' = conf.prefixLen
    /\ UNCHANGED <<process, target, prefixaddr, kind, torn, treeVars>> /\ MainOnly

\* switch (listType).  From here on it is the type read here that counts.
Switch ==
    /\ Main("list")
    /\ kind' = conf.listType
    /\ mpc' = IF kind' = "none" THEN "match" ELSE "exprs"
    /\ UNCHANGED <<process, target, prefixaddr, prefixaddrlen, torn, treeVars>> /\ MainOnly

Copies == <<prefixaddr, prefixaddrlen>>
NoCopies == prefixaddr' = "zero" /\ prefixaddrlen' = 0

Decided(hit) ==
    /\ kind' = "none" /\ UNCHANGED target
    /\ \/ (hit <=> kind = "white") /\ mpc' = "match" /\ UNCHANGED Copies
       \/ ~ (hit <=> kind = "white") /\ mpc' = "idle" /\ NoCopies

\* compareExpression, which finds those stored while it runs too.
compareExpression ==
    /\ Main("exprs")
    /\ \/ target \in conf.exprs /\ Decided(TRUE)
       \/ target \notin conf.exprs /\ mpc' = "look" /\ Local
    /\ UNCHANGED <<process, torn, treeVars>> /\ MainOnly

\* tfind or tsearch begins.
BeginCall(from, to) ==
    /\ Main(from) /\ mpc' = to
    /\ UNCHANGED <<process, torn, treeVars>> /\ Local /\ MainOnly

Calls ==
    BeginCall("look", "looking") \/ BeginCall("find", "finding") \/ BeginCall("insert", "inserting")

\* The end of tfind in the list.
Look ==
    /\ Main("looking") /\ "main" \notin torn
    /\ Decided(target \in conf.lRoot)
    /\ UNCHANGED <<process, torn, treeVars>> /\ MainOnly

\* addr6match, and whether targets are collected.
Match ==
    /\ Main("match")
    /\ mpc' = IF target \in Covers[prefixaddr][prefixaddrlen] /\ conf.collectTargets # 0
                THEN "find" ELSE "idle"
    /\ NoCopies
    /\ UNCHANGED <<process, target, kind, torn, treeVars>> /\ MainOnly

\* storeTarget: the end of tfind in the targets.
Find ==
    /\ Main("finding") /\ "main" \notin torn
    /\ mpc' = IF target \in tRoot THEN "idle" ELSE "room"
    /\ UNCHANGED <<process, torn, treeVars>> /\ Local /\ MainOnly

\* (Variant: full one entry later.)
FullLate == tEntries > conf.collectTargets
Full == tEntries >= conf.collectTargets

Room ==
    /\ Main("room")
    /\ mpc' = IF Full THEN "idle" ELSE "insert"
    /\ UNCHANGED <<process, torn, treeVars>> /\ Local /\ MainOnly

\* The end of tsearch.
Insert ==
    /\ Main("inserting") /\ "main" \notin torn
    /\ mpc' = "count" /\ tRoot' = tRoot \cup {target}
    /\ UNCHANGED <<process, torn, dangling, tEntries>> /\ Local /\ MainOnly

\* tEntries++, one instruction.  The answer is sent without it.
Count ==
    /\ Main("count") /\ mpc' = "idle"
    /\ tEntries' = tEntries + 1
    /\ UNCHANGED <<process, torn, tRoot, dangling>> /\ Local /\ MainOnly

processNS ==
    \/ CopyLength \/ Switch \/ compareExpression \/ Calls \/ Look \/ Match
    \/ Find \/ Room \/ Insert \/ Count

-----------------------------------------------------------------------------
(* SIGUSR1.                                                                *)

Reload(from) == process = "up" /\ upc = from /\ (dpc = "off" \/ inner = 1)
ReloadOnly == UNCHANGED <<mainVars, dumpVars, inner, file>>

\* The signal; readConfig puts a zeroed entry in the place of the interface,
\* whose prefix has no bits.
Usr1 ==
    /\ process = "up" /\ upc = "off"
    /\ upc' = "line" /\ file' \in Files /\ todo' = file'.keys
    /\ inner' = 1 /\ clean' = FALSE
    /\ conf' = [conf EXCEPT !.prefix = "zero", !.prefixLen = 0]
    /\ UNCHANGED <<process, mainVars, dpc, listed, torn, treeVars>>

\* A line; the file may have them in any order.
ReadLine(key) ==
    /\ Reload("line") /\ key \in todo /\ todo' = todo \ {key}

SetListType ==
    /\ ReadLine("listtype")
    /\ conf' = [conf EXCEPT !.listType = file.conf.listType]
    /\ UNCHANGED <<process, upc, torn, treeVars>> /\ ReloadOnly

SetPrefix ==
    /\ ReadLine("prefix")
    /\ conf' = [conf EXCEPT !.prefix = file.conf.prefix, !.prefixLen = file.conf.prefixLen]
    /\ UNCHANGED <<process, upc, torn, treeVars>> /\ ReloadOnly

\* storeExpression.  Neither the expressions nor the entries of a former file
\* are dropped.
AddExpression ==
    /\ ReadLine("exprlist")
    /\ conf' = [conf EXCEPT !.exprs = @ \cup file.conf.exprs]
    /\ UNCHANGED <<process, upc, torn, treeVars>> /\ ReloadOnly

\* storeListEntry, into the tree that the main program may be looking into.
AddListed ==
    /\ ReadLine("addrlist")
    /\ conf' = [conf EXCEPT !.lRoot = @ \cup file.conf.lRoot]
    /\ torn' = IF mpc = "looking" /\ ~ (file.conf.lRoot \subseteq conf.lRoot)
                 THEN torn \cup {"main"} ELSE torn
    /\ UNCHANGED <<process, upc, treeVars>> /\ ReloadOnly

\* The collectTargets line: if (tRoot != NULL) { tdestroy; tEntries = 0 },
\* collectTargets = -1, tRoot = NULL and the new limit.  (Variant: the tree is
\* dropped only if it may be too large.)
ZapsIfLower == tRoot # {} /\ file.conf.collectTargets < conf.collectTargets
Zaps == tRoot # {}

ReadTargets ==
    /\ ReadLine("collectTargets")
    /\ upc' = IF Zaps THEN "destroy" ELSE "limit"
    /\ UNCHANGED <<process, torn, conf, treeVars>> /\ ReloadOnly

Destroy ==
    /\ Reload("destroy") /\ upc' = "reset"
    /\ tRoot' = {} /\ dangling' = TRUE
    /\ torn' = torn \cup (IF mpc \in {"finding", "inserting"} THEN {"main"} ELSE {})
                    \cup (IF dpc = "walking" THEN {"dump"} ELSE {})
    /\ UNCHANGED <<process, todo, conf, tEntries>> /\ ReloadOnly

\* (Variants: the count kept, and the -1 of the next line.)
ResetKept == tEntries
ResetMinus == -1
ResetTo == 0

Reset ==
    /\ Reload("reset") /\ upc' = "limit"
    /\ tEntries' = ResetTo
    /\ UNCHANGED <<process, todo, torn, conf, tRoot, dangling>> /\ ReloadOnly

NoLimit ==
    /\ Reload("limit") /\ upc' = "null"
    /\ conf' = [conf EXCEPT !.collectTargets = -1]
    /\ UNCHANGED <<process, todo, torn, treeVars>> /\ ReloadOnly

Null ==
    /\ Reload("null") /\ upc' = "set"
    /\ dangling' = FALSE
    /\ UNCHANGED <<process, todo, torn, conf, tRoot, tEntries>> /\ ReloadOnly

SetLimit ==
    /\ Reload("set") /\ upc' = "line"
    /\ conf' = [conf EXCEPT !.collectTargets = file.conf.collectTargets]
    /\ UNCHANGED <<process, todo, torn, treeVars>> /\ ReloadOnly

ReloadReturns ==
    /\ Reload("line") /\ todo = {} /\ upc' = "off"
    /\ UNCHANGED <<process, todo, torn, conf, treeVars>> /\ ReloadOnly

\* An error in the file: exit(1).
ReloadExits ==
    /\ Reload("line") /\ process' = "exited"
    /\ UNCHANGED <<upc, todo, torn, conf, treeVars>> /\ ReloadOnly

readConfig ==
    \/ SetListType \/ SetPrefix \/ AddExpression \/ AddListed \/ ReadTargets \/ Destroy \/ Reset
    \/ NoLimit \/ Null \/ SetLimit \/ ReloadReturns \/ ReloadExits

-----------------------------------------------------------------------------
(* SIGUSR2.                                                                *)

Dump(from) == process = "up" /\ dpc = from /\ (upc = "off" \/ inner = 2)
DumpOnly == UNCHANGED <<mainVars, reloadVars, inner, conf, treeVars>>

Usr2 ==
    /\ process = "up" /\ dpc = "off"
    /\ dpc' = "test" /\ listed' = {} /\ clean' = (upc = "off")
    /\ inner' = 2
    /\ UNCHANGED <<process, mainVars, reloadVars, torn, conf, treeVars>>

TestCollect ==
    /\ Dump("test")
    /\ dpc' = IF conf.collectTargets = 0 THEN "off" ELSE "walk"
    /\ UNCHANGED <<process, listed, clean, torn>> /\ DumpOnly

\* twalk begins; it may find a tree that is freed, or half changed.
BeginWalk ==
    /\ Dump("walk") /\ dpc' = "walking"
    /\ torn' = IF dangling \/ mpc = "inserting" THEN torn \cup {"dump"} ELSE torn
    /\ UNCHANGED <<process, listed, clean>> /\ DumpOnly

\* The end of twalk.
Walk ==
    /\ Dump("walking") /\ "dump" \notin torn
    /\ dpc' = "total" /\ listed' = tRoot
    /\ UNCHANGED <<process, clean, torn>> /\ DumpOnly

\* "Total unique targets seen", and return.
Report ==
    /\ Dump("total") /\ dpc' = "off" /\ listed' = {}
    /\ UNCHANGED <<process, clean, torn>> /\ DumpOnly

dumpAddressData == TestCollect \/ BeginWalk \/ Walk \/ Report

\* A library call on a tree that changed under it.
GoWild ==
    /\ \/ /\ \E at \in {"looking", "finding", "inserting"} : Main(at)
          /\ "main" \in torn
       \/ Dump("walking") /\ "dump" \in torn
    /\ process' = "wild"
    /\ UNCHANGED <<mainVars, reloadVars, dumpVars, inner, torn, conf, treeVars>>

Next ==
    \/ \E t \in Targets : Solicited(t)
    \/ processNS \/ Usr1 \/ readConfig \/ Usr2 \/ dumpAddressData \/ GoWild

Spec == Init /\ [][Next]_vars

-----------------------------------------------------------------------------
TypeOK ==
    /\ process \in {"up", "exited", "wild"}
    /\ mpc \in {"idle", "copy", "list", "exprs", "look", "looking", "match",
                "find", "finding", "room", "insert", "inserting", "count"}
    /\ target \in Targets /\ prefixaddr \in Prefixes /\ prefixaddrlen \in Lengths
    /\ kind \in {"none", "black", "white"}
    /\ upc \in {"off", "line", "destroy", "reset", "limit", "null", "set"}
    /\ file \in Files /\ todo \subseteq Lines
    /\ dpc \in {"off", "test", "walk", "walking", "total"} /\ listed \subseteq Targets
    /\ clean \in BOOLEAN /\ inner \in {1, 2} /\ torn \subseteq {"main", "dump"}
    /\ conf \in Config /\ tRoot \subseteq Targets /\ dangling \in BOOLEAN /\ tEntries \in Nat

\* No handler is active, and processNS is between two solicitations.
Quiet == process = "up" /\ upc = "off" /\ dpc = "off" /\ mpc = "idle"

\* A SIGUSR1 that comes between tsearch and tEntries++ empties the tree and
\* leaves a count of one; later reloads find tRoot NULL and do not reset it.
\* That is all that can be lost: the count is never less than the tree
\* holds, and never more than one above.
CountNear ==
    Quiet => Cardinality(tRoot) <= tEntries /\ tEntries <= Cardinality(tRoot) + 1

\* A target for which there was room before a reload is stored after it.
\* There is never more than that one above the limit in force.
TreeBounded ==
    Quiet => \/ Cardinality(tRoot) <= conf.collectTargets
             \/ Cardinality(tRoot) <= 1

\* It may also be one that the lists or the prefix no longer entitle, or that
\* no configuration ever did: the prefix was copied from one and the list read
\* from the next.  There is never more than one such target among those
\* collected.  (For files that each have a collectTargets line and say what
\* the others say.)
OneStray == Quiet => Cardinality({t \in tRoot : ~ Entitled(conf, t)}) <= 1

\* The total that a dump ends with differs by one at most from the targets it
\* lists, unless a reload came inside it or around it.
DumpNear ==
    (process = "up" /\ dpc = "total" /\ clean) =>
       tEntries - Cardinality(listed) \in -1 .. 1
=============================================================================
