---------------------------- MODULE MCDispatcher ---------------------------
(***************************************************************************)
(* Small instances of the daemon.  Addresses are one octet of three bits:  *)
(* 0 is the unspecified address, 7 a multicast one, 1 the neighbor asking. *)
(* Interface 0 serves the prefix 4/1 (targets 4 to 7), interface 1 the     *)
(* prefix 2/2 (targets 2 and 3).                                           *)
(***************************************************************************)
EXTENDS DaemonIsProxy

A(v) == [i \in 0 .. 0 |-> v]

NSFrame(on, src, dst, target) ==
    [on |-> on, type |-> "NS", src |-> A(src), dst |-> A(dst), target |-> A(target)]

Ask(on, target) == NSFrame(on, 1, 7, target)          \* an ordinary multicast NS
OtherIcmp(on) == [Ask(on, 4) EXCEPT !.type = "other"]   \* not a solicitation

OneFrame == {Ask(0, 4)}
SecondLink == {Ask(1, 2)}

\* One frame for each early return of processNS (the source unspecified, a
\* local target, a listed one, one of the other interface's prefix, another
\* type), and a frame that is answered on each link.
FramesPolicy == {Ask(0, 4), NSFrame(0, 0, 7, 4), NSFrame(0, 1, 4, 4), Ask(0, 6),
                 OtherIcmp(0), Ask(1, 2)}

\* A frame on each link that the blacklist below lets the daemon answer, and
\* the whitelist does not.
BothLinks == {Ask(0, 4), Ask(1, 2)}

NoiseOther == {OtherIcmp(0)}

Base ==
    [naRouter |-> TRUE, naLinkOptFlag |-> FALSE, nsIgnoreLocal |-> TRUE,
     listType |-> "none", lRoot |-> {}, exprs |-> {},
     collectTargets |-> 0, pollErrorLimit |-> 2,
     prefix |-> [i \in Idx |-> IF i = 0 THEN A(4) ELSE A(2)],
     prefixLen |-> [i \in Idx |-> IF i = 0 THEN 1 ELSE 2]]

Black == [Base EXCEPT !.listType = "black", !.lRoot = {A(6)}, !.exprs = {A(5)},
                      !.collectTargets = 2]
White == [Base EXCEPT !.listType = "white", !.lRoot = {A(5)}, !.collectTargets = 0]

Full(c) == [conf |-> c, sets |-> Setting]          \* a file that has every setting

\* One that admits the first link's target only, has room for one target, and
\* is silent about the R flag.
OneListed ==
    [conf |-> [White EXCEPT !.lRoot = {A(4)}, !.collectTargets = 1, !.naRouter = FALSE],
     sets |-> {"listType", "collectTargets"}]

NoFiles == {}
FullWhite == {Full(White)}
ToOneListed == {OneListed}

AllOff == [i \in Idx |-> FALSE]
=============================================================================
