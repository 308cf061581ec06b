--------------------------- MODULE MCRouterAdvert --------------------------
(***************************************************************************)
(* Messages of up to 34 units, the room for an option of 31 units and one  *)
(* more: laid out well, cut off, or with lengths that do not advance.      *)
(***************************************************************************)
EXTENDS RouterAdvert, SequencesExt

MCTypes == {"ra", "other", "linkaddr", "prefix", "mtu"}
Hdr(type, olen) == [type |-> type, olen |-> olen]

\* A message with these options, each given the room it asks for.
Rest(o) == [n \in 1 .. o.olen - 1 |-> Hdr("other", n % 3)]
\* The second unit begins with the reachable time, here about a minute.
Cells(type, opts) ==
    <<Hdr(type, 0), Hdr("other", 1)>>
      \o FlattenSeq([n \in DOMAIN opts |-> <<opts[n]>> \o Rest(opts[n])])
Cut(type, opts, octets) ==
    LET cells == Cells(type, opts) IN
    [cells |-> [u \in Unit |-> IF u < Len(cells) THEN cells[u + 1] ELSE Hdr("other", 0)],
     octets |-> octets, opts |-> opts]
Whole(type, opts) == Cut(type, opts, 8 * Len(Cells(type, opts)))

Link == Hdr("linkaddr", 1)
Mtu == Hdr("mtu", 1)
Prefix == Hdr("prefix", 4)

Sound ==
    {Whole("ra", <<>>), Whole("ra", <<Link, Prefix, Mtu>>),
     Whole("ra", <<Prefix, Prefix, Hdr("other", 2)>>),
     Whole("ra", <<Hdr("other", 31), Hdr("prefix", 1)>>),     \* fills a message
     Whole("ra", <<Hdr("other", 16), Link, Mtu>>),
     Whole("ra", <<Hdr("mtu", 30), Link, Mtu, Link>>),        \* one unit too long
     Cut("ra", <<Link, Prefix>>, 40), Cut("ra", <<Mtu, Mtu>>, 26),
     Cut("ra", <<>>, 7), Whole("other", <<Mtu>>)}

\* Cut inside an option header, and lengths that are multiples of 32.
Unsound ==
    {Cut("ra", <<Mtu, Mtu>>, 25), Whole("ra", <<Mtu, Hdr("mtu", 0)>>),
     Whole("ra", <<Hdr("mtu", 33), Mtu>>)}

MCMessages == Sound \cup Unsound

MCFrames == {Whole("other", <<Hdr("other", 9)>>)}
MCNoise == {[u \in Unit |-> Hdr(t, 1)] : t \in {"other", "ra"}}
=============================================================================
