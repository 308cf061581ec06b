---------------------------- MODULE MCReadConfig ---------------------------
(***************************************************************************)
(* Small files: good ones that differ in what they mention and in which    *)
(* order, and one for each reason to refuse a file.                        *)
(***************************************************************************)
EXTENDS ReadConfig

L(key, word, num) == [key |-> key, word |-> word, num |-> num, strstr |-> key = "interface"]
W(key, word) == L(key, word, 0)
Comment == [W("noise", "") EXCEPT !.strstr = TRUE]
Blank   == W("blank", "")

Plain == <<W("interface", "eth0"), L("prefix", "p1", NOMASK)>>

Whole ==
    <<Comment, L("prefix", "p2", 12), Blank, W("interface", "eth1"), W("linkOption", "true"),
      W("ignoreLocal", "false"), W("routerNA", "false"), W("listlogging", "on"),
      W("ralogging", "on"), L("maxHops", "1", 1), L("pollErrorLimit", "0", 0),
      L("collectTargets", "1", 1), W("listtype", "black"), W("addrlist", "a"),
      W("exprlist", "e1")>>

\* Two interfaces, then their prefixes; repeated and ill-formed lines.
Crossed ==
    <<W("interface", "eth0"), W("interface", "eth1"), L("prefix", "p1", 0),
      L("prefix", "p2", NOMASK), W("routerNA", "false"), W("noise", "x"),
      W("routerNA", "true"), W("listtype", "white"), W("listtype", "grey"),
      W("addrlist", "b"), W("addrlist", "none"), W("exprlist", "e2"), W("exprlist", "e3"), Blank>>

Unbalanced == <<Comment>> \o Plain \o <<L("prefix", "p2", NOMASK)>>
Unfinished == Plain \o <<W("interface", "eth1")>>
Nothing == <<Blank>>
Elsewhere == <<W("interface", "eth9"), L("prefix", "p1", NOMASK)>>

\* A prefix too many for the table; and a name, written as "inter face=eth0".
Crowded == Plain \o <<L("prefix", "p2", NOMASK)>>
Spaced  == <<[W("interface", "eth0") EXCEPT !.strstr = FALSE], L("prefix", "p1", NOMASK)>>

BadLine ==
    {L("prefix", "bad", NOMASK), W("linkOption", "on"), W("ralogging", "true"),
     L("maxHops", "256", 256), L("collectTargets", "-1", -1), L("pollErrorLimit", "-1", -1),
     W("interface", "averylongname0")}

MCFiles ==
    {Plain, Whole, Crossed, Unbalanced, Unfinished, Nothing, Elsewhere, Crowded, Spaced, NoFile}
      \cup {<<Comment>> \o Plain \o <<l>> : l \in BadLine}

MCPresent == {"eth0", "eth1"}
MCTooLong == {"averylongname0"}
MCAddresses == {"a", "b", "p1", "p2"}
MCPrefixBits == [w \in {"p1", "p2", "bad"} |-> IF w = "p1" THEN 16 ELSE IF w = "p2" THEN 64 ELSE -1]
MCTargets == {"t1", "t2"}
=============================================================================
