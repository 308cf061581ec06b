------------------------------ MODULE Promise ------------------------------
(***************************************************************************)
(* Which Neighbor Solicitations npd6 promises to answer, and how           *)
(* (npd6(8), npd6.conf(5)): those for a target in the prefix of the        *)
(* interface, except what the lists and the options exclude.               *)
(* c is a configuration, i an interface, m a frame.                        *)
(***************************************************************************)
EXTENDS Addr6

Listed(c, t) == t \in c.lRoot \cup c.exprs

Entitled(c, i, m) ==
    /\ m.type = "NS" /\ ~ IsUnspecified(m.src)
    /\ SameBits(m.target, c.prefix[i], c.prefixLen[i])
    /\ c.listType = "black" => ~ Listed(c, m.target)
    /\ c.listType = "white" => Listed(c, m.target)
    /\ m.target = m.dst => ~ c.nsIgnoreLocal

\* A multicast solicitation is answered with the link-layer address.
Reply(c, i, m) ==
    [on |-> i, dst |-> m.src, target |-> m.target, router |-> c.naRouter,
     tllao |-> IF IsMulticast(m.dst) THEN TRUE ELSE c.naLinkOptFlag]
=============================================================================
