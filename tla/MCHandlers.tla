----------------------------- MODULE MCHandlers ----------------------------
(***************************************************************************)
(* Files that disagree on everything: one that permits all and collects    *)
(* none, a blacklist and a whitelist that collect two.  The blacklist adds *)
(* an entry that a solicitation may already be compared with as if it were *)
(* in the whitelist; with the length of the third prefix the second covers *)
(* everything.                                                             *)
(***************************************************************************)
EXTENDS Handlers

MCTargets == {"a", "b", "c"}

MCPrefixes == {"zero", "P", "Q"}
MCLengths == {0, 48, 64}
MCCovers ==
    [p \in MCPrefixes |-> [len \in MCLengths |->
       CASE len = 0              -> MCTargets
         [] p = "P" /\ len = 64  -> {"a", "b"}
         [] p = "P" /\ len = 48  -> MCTargets
         [] p = "Q" /\ len = 48  -> {"a", "c"}
         [] p = "Q" /\ len = 64  -> {"a"}
         [] OTHER                -> {}]]

Says(listType, exprs, lRoot, prefix, prefixLen, collect) ==
    [conf |-> [listType |-> listType, exprs |-> exprs, lRoot |-> lRoot, prefix |-> prefix,
               prefixLen |-> prefixLen, collectTargets |-> collect],
     keys |-> Lines]

MCFiles == {Says("none", {}, {}, "P", 48, 0), Says("white", {"c"}, {"a"}, "Q", 48, 2),
            Says("black", {}, {"b"}, "P", 64, 2)}
=============================================================================
