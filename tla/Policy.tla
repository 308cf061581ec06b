------------------------------- MODULE Policy ------------------------------
(***************************************************************************)
(* Which Neighbor Solicitations processNS answers, and with what           *)
(* Neighbor Advertisement.  c is the daemon's configuration (the globals   *)
(* readConfig sets), i an index into interfaces[], m a received frame.     *)
(*                                                                         *)
(*   m.on     the link it arrived on (the kernel knows; get_rx drops it)   *)
(*   m.type   ND_NEIGHBOR_SOLICIT or not                                   *)
(*   m.src, m.dst, m.target   the addresses processNS reads                *)
(***************************************************************************)
EXTENDS Addr6

\* The black/whitelist test.  exprs is the set of addresses the exprlist
\* expressions hit, lRoot the tree of addrlist entries.  (Variant: a blacklist
\* of addresses is not looked at.)
ListPermitsExprOnly(c, t) ==
    \/ c.listType = "none"
    \/ c.listType = "black" /\ t \notin c.exprs
    \/ c.listType = "white" /\ (t \in c.exprs \/ t \in c.lRoot)
ListPermits(c, t) ==
    \/ c.listType = "none"
    \/ c.listType = "black" /\ t \notin c.exprs /\ t \notin c.lRoot
    \/ c.listType = "white" /\ (t \in c.exprs \/ t \in c.lRoot)

\* The frame passes every early return of processNS.  (Variant: the prefix of
\* any interface will do.)
AnswersAnyPrefix(c, i, m) ==
    /\ m.type = "NS"
    /\ ~ IsUnspecified(m.src)
    /\ ~ (c.nsIgnoreLocal /\ m.target = m.dst)
    /\ ListPermits(c, m.target)
    /\ \E j \in DOMAIN c.prefix : addr6match(m.target, c.prefix[j], c.prefixLen[j])
Answers(c, i, m) ==
    /\ m.type = "NS"
    /\ ~ IsUnspecified(m.src)                      \* duplicate address detection
    /\ ~ (c.nsIgnoreLocal /\ m.target = m.dst)
    /\ ListPermits(c, m.target)
    /\ addr6match(m.target, c.prefix[i], c.prefixLen[i])

\* The advertisement processNS builds: where to, about whom, the R flag, and
\* whether it carries the target link-layer address option.
Advert(c, i, m) ==
    [on     |-> i,
     dst    |-> m.src,
     target |-> m.target,
     router |-> c.naRouter,
     tllao  |-> IsMulticast(m.dst) \/ c.naLinkOptFlag]
=============================================================================
