---------------------------- MODULE DaemonIsProxy --------------------------
(***************************************************************************)
(* The daemon as an implementation of NdProxy, and the properties a        *)
(* comment or a document of npd6 states and the daemon does not have.      *)
(***************************************************************************)
EXTENDS Dispatcher

\* The socket that collects frames for interface i: the one being opened for
\* it, or the one in interfaces[i].
Listening(i) == IF pc \in {"bind", "filter"} /\ fdIdx = i THEN newSock ELSE pktSock[i]

\* Delivered and not yet dealt with: queued, or read and about to be handled.
Inbox(i) ==
    (IF pc = "ns" /\ fdIdx = i THEN <<msgdata>> ELSE <<>>) \o sock[Listening(i)].rxq

Proxy == INSTANCE NdProxy WITH Ifaces <- Idx, C <- BootConfig,
            inbox <- [i \in Idx |-> Inbox(i)], running <- ~ Ended

\* The circumstances: no link fails, no SIGUSR1 comes, sendmsg succeeds, and no
\* prefix has a bit set after its length.
Undisturbed ==
    /\ Faulty = {} /\ Files = {} /\ SendMayFail = FALSE
    /\ \A i \in Idx : HostBitsClear(BootConfig.prefix[i], BootConfig.prefixLen[i])

\* Undisturbed, the daemon implements the proxy: every frame heard on an
\* interface is answered exactly when the configuration entitles it, once, in
\* order, and nothing else is sent.
IsProxy == Proxy!Spec

\* ... and, where no ICMPv6 messages arrive, it leaves no frame waiting for
\* ever: the scan, the reads and the answers of one interface do not starve
\* another's.
IsLiveProxy == Proxy!Live

-----------------------------------------------------------------------------
(* The daemon when everything goes wrong.                                  *)

\* Queued on some packet socket, whichever interface it is for.
NotYetRead ==
    LET queues == {sock[f].rxq : f \in {g \in Fd : sock[g].rxq # <<>>}}
    IN  {m \in Frames : \E q \in queues : \E n \in DOMAIN q : q[n] = m}

FaultTolerant == INSTANCE FaultyProxy WITH Ifaces <- Idx, Residue <- Noise,
            waiting <- NotYetRead, last <- msgdata, conf <- cfg, collected <- tRoot,
            running <- ~ Ended

\* Whatever links do and whenever signals and reloads come, each advertisement
\* answers the frame read last and is entitled to by the configuration in force
\* when it is sent, and only the targets of such frames are collected.  (What a
\* failed read leaves in the buffer, what a reload changes between the read and
\* the answer, and a frame queued on a socket that is closed or was opened for
\* another interface are all in here: main.c:220-268, icmp6.c, ip6.c:98-279.)
IsFaultyProxy == FaultTolerant!Spec

-----------------------------------------------------------------------------
(* Statements of the sources that do not hold.                             *)

\* "msglen is checked for sanity already within get_rx()" (main.c:228): an
\* advertisement answers a frame that was just received.
AnswersReceived == [][out' # out => msglen = 1]_vars

\* "the second N are for the icmpv6 sockets" (main.c:189-190): a readable slot
\* is read through the socket it polls.
ReadsPolledSocket == pc = "rxicmp" => fds[fdIdx] = icmpSock[fdIdx \div 2]

\* "Restore interface flags and close sockets" (util.c:498).
FlagsRestored == pc = "dead" => allmulti = BootMulti
=============================================================================
