----------------------------- MODULE Expression ----------------------------
(***************************************************************************)
(* compareExpression (expintf.c:28-60): the two halves of an address are   *)
(* mapped to PREFIX and HOST and the stored texts are evaluated in turn    *)
(* until one has no error and a result other than 0.  A name one text      *)
(* assigns stays mapped for the next.  A text is                           *)
(* [tokens, exprs, sound]: exprs are the trees it was written from when it *)
(* is sound, a text that is not sound is one of the administrator's        *)
(* mistakes, or a text cut at 127 characters by storeExpression.           *)
(***************************************************************************)
EXTENDS ExprMeaning

CONSTANTS Lists,      \* the lists of texts a configuration can store
          Addresses     \* the addresses looked up

ASSUME AddressesAssumption == Addresses \subseteq Address

VARIABLES
    sExpressions,  \* the stored texts
    ipv6,          \* the address
    pstat,         \* the parser's state
    expression,    \* the text evaluated next
    pc, match      \* what compareExpression returned

vars == <<sExpressions, ipv6, pstat, expression, pc, match>>

Preloaded(a) ==
    LET p == exp_set_mapped_value(Cleared, "PREFIX", exp_ipv6_prefix_to_ull(a))
    IN  exp_set_mapped_value(p, "HOST", exp_ipv6_host_to_ull(a))

Init ==
    /\ sExpressions \in Lists
    /\ ipv6 \in Addresses /\ pstat = Cleared /\ expression = 1
    /\ pc = "idle" /\ match = 0

\* Errors and the result start anew for each text, the names do not.
FreshErrorsKept(p) == [p EXCEPT !.result = 0]
Fresh(p) == [p EXCEPT !.errors = 0, !.result = 0]

Evaluated(p, k) == exp_parse_expression(Fresh(p), sExpressions[k].tokens)
Hit(p) == p.errors = 0 /\ p.result # 0

compareExpression ==
    /\ pc \in {"idle", "returned"}
    /\ \E a \in Addresses : ipv6' = a /\ pstat' = Preloaded(a)
    /\ pc' = "loop" /\ expression' = 1 /\ match' = 0
    /\ UNCHANGED sExpressions

Evaluate ==
    /\ pc = "loop" /\ expression <= Len(sExpressions)
    /\ pstat' = Evaluated(pstat, expression)
    /\ UNCHANGED <<sExpressions, ipv6>>

NoHit ==
    /\ Evaluate /\ ~pstat'.trap /\ ~Hit(pstat')
    /\ expression' = expression + 1
    /\ UNCHANGED <<pc, match>>

Matches ==
    /\ Evaluate /\ ~pstat'.trap /\ Hit(pstat')
    /\ pc' = "returned" /\ match' = 1
    /\ UNCHANGED expression

\* SIGFPE has no handler.
Trapped ==
    /\ Evaluate /\ pstat'.trap
    /\ pc' = "killed"
    /\ UNCHANGED <<expression, match>>

NoneMatches ==
    /\ pc = "loop" /\ expression > Len(sExpressions)
    /\ pc' = "returned" /\ match' = 0
    /\ UNCHANGED <<sExpressions, ipv6, pstat, expression>>

Next == compareExpression \/ NoHit \/ Matches \/ Trapped \/ NoneMatches
Spec == Init /\ [][Next]_vars
-----------------------------------------------------------------------------
\* The parser's values are words and the names of the map are distinct and
\* no more than there are slots (exparser.c:107-151).
TypeOK ==
    /\ pc \in {"idle", "loop", "returned", "killed"} /\ match \in {0, 1}
    /\ {pstat.v, pstat.result, pstat.number_value} \subseteq Word
    /\ Len(pstat.map) <= MaxSymbols /\ \A i \in DOMAIN pstat.map : pstat.map[i].value \in Word
    /\ \A i, j \in DOMAIN pstat.map : pstat.map[i].name = pstat.map[j].name => i = j

EnvOf(p) ==
    [n \in {p.map[i].name : i \in DOMAIN p.map} |-> exp_get_mapped_value(p, n)]

\* The parser computes what the grammar says a text means: the precedence of
\* the two groups of operators and their grouping to the left, assignments
\* that later expressions and later texts read, the bits of mask(), a division
\* by zero that is an error and a modulo by zero that is a trap, and a full
\* table of names that loses an assignment (exparser.c:393-655).
EvaluatesAsWritten ==
    [][Evaluate /\ sExpressions[expression].sound =>
        LET m == ListMeaning(sExpressions[expression].exprs, EnvOf(pstat))
        IN  /\ pstat'.trap = m.trap
            /\ ~m.trap => /\ pstat'.errors = m.errors /\ pstat'.result = m.v
                          /\ EnvOf(pstat') = m.env]_vars

NamesIn(tokens) == {tokens[i].name : i \in {j \in DOMAIN tokens : tokens[j].tok = "NAME"}}
AssignedIn(tokens) ==
    {tokens[i].name : i \in {j \in DOMAIN tokens :
        tokens[j].tok = "NAME" /\ j < Len(tokens) /\ tokens[j + 1].tok = "="}}

\* No text assigns a name that a later one mentions, and the names all fit.
Independent(list) ==
    /\ \A i, j \in DOMAIN list : i < j => AssignedIn(list[i].tokens) \cap NamesIn(list[j].tokens) = {}
    /\ Cardinality({"PREFIX", "HOST"} \cup UNION {AssignedIn(list[i].tokens) : i \in DOMAIN list})
          <= MaxSymbols

\* An address is in the list when some text alone matches it, whatever the
\* texts before it computed, assigned or got wrong (expintf.c:44-58).
HitIfAnyMatches ==
    pc = "returned" /\ Independent(sExpressions) =>
        (match = 1 <=> \E k \in DOMAIN sExpressions :
            LET alone == Evaluated(Preloaded(ipv6), k) IN ~alone.trap /\ Hit(alone))
=============================================================================
