----------------------------- MODULE ConfigStore ---------------------------
(***************************************************************************)
(* What reading a configuration file promises, as if it happened at once:  *)
(* a good file is taken in whole, a bad one ends the process, and one that *)
(* leaves no room for its interfaces may leave it in any state.  The last  *)
(* line of a setting counts, the i-th prefix belongs to the i-th interface *)
(* and the lists of earlier files stay.                                    *)
(***************************************************************************)
EXTENDS ConfigFile

CONSTANT Targets       \* the targets that may be collected

VARIABLES process,     \* "running", "ended" or "wild"
          reading,     \* the file being read, <<f>>, or <<>>
          settings,    \* Settings -> value
          pairs,       \* the interfaces served, in order
          listed,      \* addresses
          expressions, \* in order
          collected    \* targets

storeVars == <<process, reading, settings, pairs, listed, expressions, collected>>

Count(f, key) == Cardinality(LinesWith(f, key))

\* The k-th line with a keyword.
Nth(f, key, k) ==
    f[CHOOSE n \in LinesWith(f, key) : CountBefore(LinesWith(f, key), n) = k - 1]

Good(f) ==
    /\ f # NoFile
    /\ \A n \in DOMAIN f : Accepted(f[n])
    /\ Count(f, "interface") = Count(f, "prefix") /\ Count(f, "interface") > 0
    /\ \A n \in LinesWith(f, "interface") : f[n].word \in Present

\* A setting the file does not mention keeps its value, but for one.
SettingAfter(f, key) ==
    IF Count(f, key) > 0 THEN Value(Nth(f, key, Count(f, key)))
    ELSE IF key = "pollErrorLimit" THEN DefaultErrorLimit ELSE settings[key]

PairsOf(f) ==
    [k \in 1 .. Count(f, "interface") |->
       [name |-> Nth(f, "interface", k).word, prefix |-> Nth(f, "prefix", k).word,
        prefixLen |-> PrefixLen(Nth(f, "prefix", k))]]

\* There is room for so many expressions, and the rest are dropped.
ExpressionsAfter(f) ==
    LET old == Len(expressions)
        all == old + Count(f, "exprlist")
    IN  [k \in 1 .. IF all < MAX_EXPRESSION_ENTRIES THEN all ELSE MAX_EXPRESSION_ENTRIES |->
           IF k <= old THEN expressions[k] ELSE Nth(f, "exprlist", k - old).word]

Init ==
    /\ process = "running" /\ \E f \in Files : reading = <<f>>
    /\ settings = Defaults /\ pairs = <<>>
    /\ listed = {} /\ expressions = <<>> /\ collected = {}

Ask(f) ==
    /\ process = "running" /\ reading = <<>> /\ reading' = <<f>>
    /\ UNCHANGED <<process, settings, pairs, listed, expressions, collected>>

Load ==
    /\ process = "running" /\ reading # <<>> /\ reading' = <<>>
    /\ LET f == reading[1] IN
       /\ Good(f) /\ HasRoom(f)
       /\ settings' = [key \in Settings |-> SettingAfter(f, key)]
       /\ pairs' = PairsOf(f)
       /\ listed' = listed \cup ({f[n].word : n \in LinesWith(f, "addrlist")} \cap Addresses)
       /\ expressions' = ExpressionsAfter(f)
       /\ collected' = IF LinesWith(f, "collectTargets") # {} THEN {} ELSE collected
    /\ UNCHANGED process

GiveUp(how) ==
    /\ process = "running" /\ reading # <<>>
    /\ process' = how /\ reading' = <<>>
    /\ UNCHANGED <<settings, pairs, listed, expressions, collected>>

Refuse  == GiveUp("ended") /\ ~ Good(reading[1])
Overrun == GiveUp("wild") /\ reading[1] # NoFile /\ ~ HasRoom(reading[1])

Collect(t) ==
    /\ process = "running" /\ reading = <<>> /\ t \notin collected
    /\ Cardinality(collected) < settings["collectTargets"]
    /\ collected' = collected \cup {t}
    /\ UNCHANGED <<process, reading, settings, pairs, listed, expressions>>

Answer == Load \/ Refuse \/ Overrun
Next == Answer \/ (\E f \in Files : Ask(f)) \/ (\E t \in Targets : Collect(t))

Spec == Init /\ [][Next]_storeVars

\* A file that is asked for is dealt with.
Live == WF_storeVars(Answer)
=============================================================================
