----------------------------- MODULE ConfigFile ----------------------------
(***************************************************************************)
(* What a configuration file may hold, line by line, and what npd6 makes   *)
(* of one line.                                                            *)
(***************************************************************************)
EXTENDS Integers, Sequences, FiniteSets

CONSTANTS Files,       \* the files readConfig may find: sequences of lines
          NoFile,      \* ... or none it can open
          Present,     \* names of the interfaces the host has
          TooLong,     \* names longer than INTERFACE_STRLEN
          Addresses,   \* texts that build_addr takes
          PrefixBits,  \* text of a prefix -> what prefixset returns
          MAX_EXPRESSION_ENTRIES,
          Unset        \* no text: what calloc leaves in an entry of interfaces[]

Switches == {"linkOption", "ignoreLocal", "routerNA", "listlogging", "ralogging"}
Numbers  == {"maxHops", "collectTargets", "pollErrorLimit"}
Settings == Switches \cup Numbers \cup {"listtype"}
NOMASK == 9999
MAXTARGETS == 1000000

\* A line is a record, whatever spaces it has: key is the keyword ("blank" for
\* an empty line, "noise" for one without "=" or without a keyword of those
\* above, "prefix", "interface", "addrlist" or "exprlist"), word what follows
\* "=" (up to the slash, for a prefix) and num atoi of word (of what follows
\* the slash, for a prefix, and NOMASK if nothing does).  strstr says whether
\* the line has "interface" in it as it stands in the file: a comment may, and
\* a line with that keyword need not, since spaces go before it is compared.
On(key)  == IF key \in {"listlogging", "ralogging"} THEN "on" ELSE "true"
Off(key) == IF key \in {"listlogging", "ralogging"} THEN "off" ELSE "false"

\* What a line needs for readConfig not to give up there.
Accepted(l) ==
    /\ l.key \in Switches => l.word \in {On(l.key), Off(l.key)}
    /\ l.key = "maxHops" => l.num \in 0 .. 255
    /\ l.key = "collectTargets" => l.num \in 0 .. MAXTARGETS
    /\ l.key = "pollErrorLimit" => l.num >= 0
    /\ l.key = "prefix" => PrefixBits[l.word] > 0
    /\ l.key = "interface" => l.word \notin TooLong

\* The value an accepted line gives its setting; a bad listtype is "none".
Value(l) ==
    IF l.key \in Switches THEN l.word = On(l.key)
    ELSE IF l.key \in Numbers THEN l.num
    ELSE IF l.word \in {"black", "white"} THEN l.word ELSE "none"

PrefixLen(l) == IF l.num = NOMASK THEN PrefixBits[l.word] ELSE l.num

\* The lines by whose number the table is sized.
CountsAsInterface(l) == l.strstr
CountingLines(f) == {n \in DOMAIN f : CountsAsInterface(f[n])}

\* The lines with a keyword, by their numbers, and how many of the lines in S
\* come before line n.
LinesWith(f, key) == {n \in DOMAIN f : f[n].key = key}
CountBefore(S, n) == Cardinality({m \in S : m < n})

\* Each line that is stored in the table has an entry there.
HasRoom(f) ==
    \A key \in {"prefix", "interface"} :
        Cardinality(LinesWith(f, key)) <= Cardinality(CountingLines(f))

Keys == Settings \cup {"blank", "noise", "prefix", "interface", "addrlist", "exprlist"}
Line == [key : Keys, word : STRING, num : Int, strstr : BOOLEAN]

\* A prefix that prefixset takes, build_addr takes too.  Nothing in the code
\* says so: readConfig does not look at what build_addr returns for a prefix
\* (config.c:181), and a text like "zz:" gets the address of the prefix line
\* before, or whatever the stack holds.  No such text is in a file here.
ASSUME FilesAssumption ==
    /\ Files \ {NoFile} \subseteq Seq(Line)
    /\ \A w \in DOMAIN PrefixBits : PrefixBits[w] > 0 => w \in Addresses
    /\ MAX_EXPRESSION_ENTRIES \in Nat
    /\ Unset \notin STRING

\* The globals of a process that has read nothing yet, which a file without the
\* setting leaves as they are.  The code names neither of the defaults that the
\* sample file gives for two of them: collectTargets is a global that nothing
\* sets to 100 (etc/npd6.conf.sample:74; npd6.conf(5) has 0, as the code does),
\* and pollErrorLimit is 10 (config.c:55), not 20 (sample:95, npd6.conf(5)).
Defaults ==
    [k \in Settings |-> IF k \in {"ignoreLocal", "routerNA"} THEN TRUE
                        ELSE IF k \in Switches THEN FALSE
                        ELSE IF k = "listtype" THEN "none"
                        ELSE IF k = "maxHops" THEN 255 ELSE 0]
DefaultErrorLimit == 10
=============================================================================
