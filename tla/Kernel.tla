------------------------------- MODULE Kernel ------------------------------
(***************************************************************************)
(* The kernel as npd6 relies on it: the links, the IFF_ALLMULTI flag of    *)
(* each, and the process' table of descriptors with the queue and the      *)
(* pending error of each socket.  None of this is in src/: it is modelled  *)
(* from how icmp6.c and main.c use it (packet(7), raw(7), poll(2)).        *)
(***************************************************************************)
EXTENDS Integers, Sequences

CONSTANTS N,           \* the interfaces npd6 serves are 0 .. N-1
          Frames,      \* the frames that may arrive
          IcmpMsg,     \* an ICMPv6 message, as the raw sockets receive it
          QMax,        \* bound: messages a socket queues before it drops
          FdMax,       \* the highest descriptor of a process (RLIMIT_NOFILE)
          Faulty,      \* the interfaces whose links may go down, come back, and disappear
          IcmpTraffic  \* do ICMPv6 messages arrive for this host?

Idx     == 0 .. N - 1
Foreign == N           \* the links npd6 does not serve
Any     == N + 1       \* the "interface" of a packet socket not yet bound
\* 0 is /dev/null after daemon() and the sockets follow.  What was opened
\* before them and stays open (1, 2, the log, the first stream of the
\* configuration file) is left out.
Fd == 0 .. FdMax

ASSUME KernelAssumption ==
    /\ N \in Nat \ {0} /\ QMax \in Nat \ {0} /\ FdMax \in Nat /\ FdMax > 2 * N
    /\ Faulty \subseteq 0 .. N - 1 /\ IcmpTraffic \in BOOLEAN
    /\ IcmpMsg \notin Frames

VARIABLES link,      \* Idx -> "up", "down" or "gone"
          allmulti,  \* Idx -> is IFF_ALLMULTI set
          sock       \* Fd -> descriptor

kernelVars == <<link, allmulti, sock>>

Closed == [kind |-> "free", on |-> Any, filtered |-> FALSE, err |-> FALSE, rxq |-> <<>>]
DevNull == [Closed EXCEPT !.kind = "null"]
ConfigStream == [Closed EXCEPT !.kind = "file"]
NewPacketSocket == [Closed EXCEPT !.kind = "pkt"]
NewIcmpSocket == [Closed EXCEPT !.kind = "icmp"]

LinkUpOf(m) == m.on = Foreign \/ (m.on \in Idx /\ link[m.on] = "up")

\* A packet socket hears every link and every type until bind() and
\* SO_ATTACH_FILTER narrow it; what it queued before stays queued.
Hears(s, m) ==
    /\ s.kind = "pkt"
    /\ s.on \in {m.on, Any}
    /\ s.filtered => m.type = "NS"

Enqueue(s, m) ==
    IF Len(s.rxq) < QMax THEN [s EXCEPT !.rxq = Append(@, m)] ELSE s

\* recvmsg with a message to return, and with an error to report.
Readable(f)   == sock[f].kind \in {"pkt", "icmp"} /\ ~ sock[f].err /\ sock[f].rxq # <<>>
ReadFails(f)  == sock[f].kind \in {"free", "null", "file"} \/ sock[f].err
ReadBlocks(f) == ~ Readable(f) /\ ~ ReadFails(f)

Dequeued(f)   == [sock EXCEPT ![f].rxq = Tail(@)]
ErrorTaken(f) == [sock EXCEPT ![f].err = FALSE]   \* so_error is reported once

\* The lowest free descriptor is the one socket() and fopen() take.
LowestFree(f) == sock[f].kind = "free" /\ \A g \in Fd : g < f => sock[g].kind # "free"

NoneLeft == \A f \in Fd : sock[f].kind # "free"

\* poll(): POLLIN and the error events of a descriptor.  -1 is ignored.
Events(f) ==
    IF f = -1 THEN {}
    ELSE {e \in {"in", "err"} :
            \/ e = "in" /\ (sock[f].rxq # <<>> \/ sock[f].kind \in {"null", "file"})
            \/ e = "err" /\ (sock[f].err \/ sock[f].kind = "free")}

-----------------------------------------------------------------------------
(* What happens outside the process.                                       *)

FrameArrives(m) ==
    /\ LinkUpOf(m)
    /\ sock' = [f \in Fd |-> IF Hears(sock[f], m) THEN Enqueue(sock[f], m) ELSE sock[f]]
    /\ UNCHANGED <<link, allmulti>>

\* Every raw ICMPv6 socket gets every message: none of them is bound.
IcmpArrives ==
    /\ IcmpTraffic
    /\ sock' = [f \in Fd |-> IF sock[f].kind = "icmp" THEN Enqueue(sock[f], IcmpMsg)
                                                      ELSE sock[f]]
    /\ UNCHANGED <<link, allmulti>>

\* Losing a link puts ENETDOWN on the sockets bound to it; what they queued
\* stays, and a link that comes back leaves the error pending.
LoseLink(i, how) ==
    /\ i \in Faulty
    /\ link' = [link EXCEPT ![i] = how]
    /\ sock' = [f \in Fd |-> IF sock[f].kind = "pkt" /\ sock[f].on = i
                               THEN [sock[f] EXCEPT !.err = TRUE] ELSE sock[f]]
    /\ UNCHANGED allmulti

LinkDown(i) == link[i] = "up" /\ LoseLink(i, "down")
LinkGone(i) == link[i] # "gone" /\ LoseLink(i, "gone")
LinkUp(i)   == /\ link[i] = "down"
               /\ link' = [link EXCEPT ![i] = "up"]
               /\ UNCHANGED <<allmulti, sock>>

Environment ==
    \/ \E m \in Frames : FrameArrives(m)
    \/ IcmpArrives
    \/ \E i \in Idx : LinkDown(i) \/ LinkGone(i) \/ LinkUp(i)
=============================================================================
