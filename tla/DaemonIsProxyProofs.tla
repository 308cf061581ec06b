------------------------ MODULE DaemonIsProxyProofs ------------------------
(***************************************************************************)
(* The daemon implements the safety part of NdProxy, for every number of   *)
(* interfaces, every set of frames and every startup configuration, while  *)
(* links stay up and the configuration stays as it was read.  Whatever     *)
(* links, signals and files do, it implements FaultyProxy.                 *)
(***************************************************************************)
EXTENDS DaemonIsProxy, DispatcherProofs, Addr6Proofs, SequenceTheorems

\* No socket has an error pending, and what is not a socket queues nothing.
Quiet(d) == ~ d.err /\ (d.kind \in {"free", "null"} => d.rxq = <<>>)

\* Where the scan has not been yet, what poll found readable still is.
Unread(i) == fdIdx < i \/ (fdIdx = i /\ pc # "ns")
FoundIsQueued ==
    /\ pc \in {"scan", "rx", "ns"} => \A i \in Idx :
         Unread(i) /\ "in" \in revents[i] => sock[PktFd(i)].rxq # <<>>
    /\ pc = "rx" => "in" \in revents[fdIdx]

QuietInv ==
    /\ \A i \in Idx : link[i] = "up"
    /\ cfg = BootConfig
    /\ \A f \in Fd : Quiet(sock[f])
    /\ Ended => \A f \in Fd : sock[f].kind = "free"
    /\ phase = "init" /\ ~ Ended => \A i \in Idx : PktDone(i) \/ pktSock[i] = 0
    /\ Handling => TableFilled /\ pc \notin OpenPcs
    /\ \A s \in Slot : "err" \notin revents[s]
    /\ FoundIsQueued

-----------------------------------------------------------------------------
(* What does not happen.                                                   *)

\* Once the signal handlers are installed, the tables name the sockets.
LEMMA RunningSockets ==
    ASSUME Inv, AgreeInv, QuietInv, Handling
    PROVE  /\ AgreeBody
           /\ \A i \in Idx : /\ pktSock[i] = PktFd(i) /\ icmpSock[i] = IcmpFd(i)
                             /\ sock[PktFd(i)].kind = "pkt" /\ sock[IcmpFd(i)].kind = "icmp"
           /\ pc # "enter" => \A i \in Idx : fds[i] = PktFd(i)
<1>1. AgreeBody
  BY DEF AgreeInv, QuietInv, AgreeBody
<1>2. \A i \in Idx : ~ Reopening(i)
  BY DEF QuietInv, Reopening
<1>3. \A i \in Idx : sock[IcmpFd(i)].kind = "icmp"
  BY DEF Inv, RunInv, IcmpOpen
<1> QED BY <1>1, <1>2, <1>3 DEF AgreeBody, TablesBuilt

\* No read of a packet socket fails or waits, no socket is reopened, nothing
\* is read again, and the links stay as they are.
LEMMA Unreached ==
    ASSUME Undisturbed, Inv, AgreeInv, QuietInv
    PROVE  /\ ~ ScanErr /\ ~ Recovered /\ ~ RxError /\ ~ Reload /\ ~ ReloadFails
           /\ pc = "rx" => ~ ReadBlocks(pktSock[fdIdx])
           /\ \A i \in Idx : ~ LinkDown(i) /\ ~ LinkGone(i) /\ ~ LinkUp(i)
<1>1. ~ ScanErr
  <2> SUFFICES ASSUME ScanErr PROVE FALSE
    OBVIOUS
  <2>1. PICK s \in Slot : NextSlot(s) /\ "in" \notin revents[s] /\ pc = "scan"
    BY DEF ScanErr
  <2> QED BY <2>1, ErrorSlots DEF NextSlot, QuietInv
<1>2. ~ Recovered
  <2> SUFFICES ASSUME Recovered PROVE FALSE
    OBVIOUS
  <2>1. Handling /\ pc \in OpenPcs
    BY DEF Recovered, Handling, Ended, OpenPcs
  <2> QED BY <2>1 DEF QuietInv
<1>3. ASSUME pc = "rx" PROVE Readable(pktSock[fdIdx])
  <2>1. Handling /\ fdIdx \in Idx
    BY <1>3, PastStartup, ReadsPackets DEF Starting, Ended
  <2>2. pktSock[fdIdx] = PktFd(fdIdx) /\ sock[PktFd(fdIdx)].kind = "pkt" /\ PktFd(fdIdx) \in Fd
    BY <2>1, RunningSockets, FdCases
  <2>3. sock[PktFd(fdIdx)].rxq # <<>>
    BY <1>3, <2>1 DEF QuietInv, FoundIsQueued, Unread
  <2> QED BY <2>2, <2>3 DEF Readable, QuietInv, Quiet
<1>4. \A f \in Fd : Readable(f) => ~ ReadFails(f) /\ ~ ReadBlocks(f)
  BY DEF Readable, ReadFails, ReadBlocks
<1>5. pc = "rx" => pktSock[fdIdx] \in Fd
  BY ReadsPackets
<1>6. ~ RxError /\ (pc = "rx" => ~ ReadBlocks(pktSock[fdIdx]))
  BY <1>3, <1>4, <1>5 DEF RxError, Goto
<1>7. ~ Reload /\ ~ ReloadFails
  BY DEF Undisturbed, Reload, ReloadFails
<1>8. \A i \in Idx : ~ LinkDown(i) /\ ~ LinkGone(i) /\ ~ LinkUp(i)
  BY DEF Undisturbed, LinkDown, LinkGone, LoseLink, LinkUp, QuietInv
<1> QED BY <1>1, <1>2, <1>6, <1>7, <1>8

\* The steps by what they do: the process ends; it opens or prepares a socket
\* at startup; it reads; frames come; or no descriptor changes.
Ends    == OpenFails \/ SetAllmultiFails \/ Killed \/ Terminate
Opens   == OpenSocket \/ BindSocket \/ AttachFilter \/ OpenIcmpSocket
Reads   == RxFrame \/ RxIcmp
Arrives == Outside /\ (IcmpArrives \/ \E m \in Frames : FrameArrives(m))
Stays   == SetAllmulti \/ Daemonize \/ EnterDispatcher \/ PollReturns \/ PollIdle
             \/ ScanIn \/ ScanDone \/ ProcessNS \/ HarmlessSignal

LEMMA StepKinds ==
    ASSUME Undisturbed, Inv, AgreeInv, QuietInv, Next
    PROVE  Ends \/ Opens \/ Reads \/ Arrives \/ Stays
<1>1. CASE Outside
  BY <1>1, Unreached DEF Outside, Environment, Arrives
<1> QED BY <1>1, Unreached DEF Next, Daemon, Startup, OpenPacketSocket, Serve, Signalled,
        Ends, Opens, Reads, Stays

\* The process ends once.
LEMMA EndsOnce == ASSUME Ends PROVE ~ Ended /\ Ended' /\ sock' = [f \in Fd |-> Closed]
  BY DEF Ends, OpenFails, SetAllmultiFails, Killed, Terminate, Fail, DropDead, Exit, Ended, Handling

\* Sockets are opened at startup only.
LEMMA OpensAtStart ==
    ASSUME Inv, AgreeInv, QuietInv, Opens
    PROVE  /\ phase = "init" /\ ~ Ended /\ pc \in OpenPcs \cup {"icmp"} /\ fdIdx \in Idx
           /\ newSock \in Fd /\ (pc \in {"bind", "filter"} => newSock = PktFd(fdIdx))
<1>1. pc \in OpenPcs \cup {"icmp"}
  BY DEF Opens, OpenSocket, BindSocket, AttachFilter, OpenIcmpSocket, Goto, OpenPcs
<1>2. ~ Ended
  BY <1>1 DEF Ended, OpenPcs
<1>3. ~ Handling
  BY <1>1 DEF QuietInv, Inv, RunInv
<1>4. phase = "init" /\ fdIdx \in Idx /\ newSock \in Fd
  BY <1>1, <1>2, <1>3 DEF Handling, Inv, TypeOK, IfacePcs
<1> QED BY <1>1, <1>2, <1>4 DEF Inv, StartInv

-----------------------------------------------------------------------------
(* What the steps do to descriptors and their queues.                      *)

\* A socket opened at startup, or made ready: the queue of a packet socket
\* stays as it was.
LEMMA OpensQuietly ==
    ASSUME Inv, AgreeInv, QuietInv, Opens
    PROVE  \E f \in Fd : \E d : /\ sock' = [sock EXCEPT ![f] = d] /\ Quiet(d)
                                /\ \A i \in Idx : f = PktFd(i) => d.rxq = sock[f].rxq
<1>0. /\ phase = "init" /\ fdIdx \in Idx /\ newSock \in Fd
      /\ pc \in {"bind", "filter"} => newSock = PktFd(fdIdx)
  BY OpensAtStart
<1>1. sock \in [Fd -> Descriptor]
  BY DEF Inv, TypeOK
<1>2. \A f \in Fd : sock[f].kind = "free" => sock[f].rxq = <<>>
  BY DEF QuietInv, Quiet
<1>3. CASE OpenSocket
  <2>1. PICK f \in Fd : LowestFree(f) /\ sock' = [sock EXCEPT ![f] = NewPacketSocket]
    BY <1>3 DEF OpenSocket
  <2>2. Quiet(NewPacketSocket) /\ NewPacketSocket.rxq = <<>>
    BY DEF Quiet, NewPacketSocket, Closed
  <2>3. sock[f].rxq = <<>>
    BY <1>2, <2>1 DEF LowestFree
  <2> QED BY <2>1, <2>2, <2>3
<1>4. CASE BindSocket
  <2> DEFINE d == [sock[newSock] EXCEPT !.on = fdIdx, !.err = (link[fdIdx] = "down")]
  <2>1. sock' = [sock EXCEPT ![newSock] = d]
    BY <1>0, <1>1, <1>4 DEF BindSocket, Descriptor
  <2>2. sock[newSock] \in Descriptor /\ Quiet(sock[newSock]) /\ link[fdIdx] # "down"
    BY <1>0, <1>1 DEF QuietInv
  <2>3. d.rxq = sock[newSock].rxq /\ d.kind = sock[newSock].kind /\ d.err = FALSE
    BY <2>2 DEF Descriptor
  <2>4. Quiet(d)
    BY <2>2, <2>3 DEF Quiet
  <2> QED BY <1>0, <2>1, <2>3, <2>4
<1>5. CASE AttachFilter
  <2> DEFINE d == [sock[newSock] EXCEPT !.filtered = TRUE]
  <2>1. sock' = [sock EXCEPT ![newSock] = d]
    BY <1>0, <1>1, <1>5 DEF AttachFilter
  <2>2. sock[newSock] \in Descriptor /\ Quiet(sock[newSock])
    BY <1>0, <1>1 DEF QuietInv
  <2>3. d.rxq = sock[newSock].rxq /\ d.kind = sock[newSock].kind /\ d.err = sock[newSock].err
    BY <2>2 DEF Descriptor
  <2>4. Quiet(d)
    BY <2>2, <2>3 DEF Quiet
  <2> QED BY <1>0, <2>1, <2>3, <2>4
<1>6. CASE OpenIcmpSocket
  <2>1. PICK f \in Fd : LowestFree(f) /\ sock' = [sock EXCEPT ![f] = NewIcmpSocket]
    BY <1>6 DEF OpenIcmpSocket
  <2>2. Quiet(NewIcmpSocket) /\ NewIcmpSocket.rxq = <<>>
    BY DEF Quiet, NewIcmpSocket, Closed
  <2>3. sock[f].rxq = <<>>
    BY <1>2, <2>1 DEF LowestFree
  <2> QED BY <2>1, <2>2, <2>3
<1> QED BY <1>3, <1>4, <1>5, <1>6 DEF Opens

\* get_rx takes the oldest frame of the interface's packet socket, and
\* get_rx_icmp6 nothing of any packet socket.
LEMMA ReadsTakeOne ==
    ASSUME Inv, AgreeInv, QuietInv, Undisturbed, Reads
    PROVE  /\ Handling
           /\ \E f \in Fd : /\ sock[f].rxq # <<>> /\ sock' = Dequeued(f)
                            /\ RxFrame => fdIdx \in Idx /\ f = PktFd(fdIdx)
                            /\ RxIcmp => \A i \in Idx : f # PktFd(i)
<1>1. Handling
  BY PastStartup DEF Reads, RxFrame, RxIcmp, Goto, Starting, Ended
<1>2. CASE RxFrame
  <2>1. fdIdx \in Idx /\ pktSock[fdIdx] \in Fd /\ pc = "rx"
    BY <1>2, ReadsPackets DEF RxFrame, Goto
  <2>2. pktSock[fdIdx] = PktFd(fdIdx)
    BY <1>1, <2>1, RunningSockets
  <2>3. sock' = Dequeued(pktSock[fdIdx]) /\ sock[pktSock[fdIdx]].rxq # <<>>
    BY <1>2 DEF RxFrame, Readable
  <2>4. ~ RxIcmp
    BY <2>1 DEF RxIcmp, Goto
  <2> QED BY <1>1, <2>1, <2>2, <2>3, <2>4
<1>3. CASE RxIcmp
  <2> DEFINE f == icmpSock[fdIdx \div 2]
  <2>1. fdIdx \in Slot \ Idx /\ pc = "rxicmp"
    BY <1>3 DEF RxIcmp, Goto, Inv, TypeOK
  <2>2. fdIdx \div 2 \in Idx
    BY <2>1, KernelAssumption, SMT DEF Slot, Idx
  <2>3. f = IcmpFd(fdIdx \div 2) /\ sock[f].kind = "icmp"
    BY <1>1, <2>2, RunningSockets
  <2>4. f \in Fd /\ \A i \in Idx : f # PktFd(i)
    BY <2>2, <2>3, FdCases
  <2>5. ~ ReadFails(f)
    BY <2>3, <2>4 DEF ReadFails, QuietInv, Quiet
  <2>6. Readable(f) /\ sock' = Dequeued(f)
    BY <1>3, <2>5 DEF RxIcmp
  <2>7. ~ RxFrame
    BY <2>1 DEF RxFrame, Goto
  <2> QED BY <1>1, <2>4, <2>6, <2>7 DEF Readable
<1> QED BY <1>2, <1>3 DEF Reads

\* A frame or a message that arrives is queued behind the others, or dropped.
LEMMA ArrivesLast ==
    ASSUME Inv, Arrives, NEW f \in Fd
    PROVE  \/ sock'[f] = sock[f]
           \/ /\ sock[f].kind \in {"pkt", "icmp"}
              /\ \E m \in Frames \cup {IcmpMsg} :
                   sock'[f] = [sock[f] EXCEPT !.rxq = Append(sock[f].rxq, m)]
<1>1. ASSUME NEW m \in Frames, FrameArrives(m)
      PROVE  \/ sock'[f] = sock[f]
             \/ sock[f].kind = "pkt" /\ sock'[f] = [sock[f] EXCEPT !.rxq = Append(sock[f].rxq, m)]
  BY <1>1 DEF FrameArrives, Hears, Enqueue
<1>2. ASSUME IcmpArrives
      PROVE  \/ sock'[f] = sock[f]
             \/ /\ sock[f].kind = "icmp"
                /\ sock'[f] = [sock[f] EXCEPT !.rxq = Append(sock[f].rxq, IcmpMsg)]
  BY <1>2 DEF IcmpArrives, Enqueue
<1> QED BY <1>1, <1>2 DEF Arrives

\* The other steps change no descriptor.
LEMMA StaysSame == ASSUME Stays PROVE sock' = sock
  BY DEF Stays, SetAllmulti, Daemonize, EnterDispatcher, PollReturns, PollIdle, ScanIn, ScanDone,
         ProcessNS, HarmlessSignal, kernelVars

\* Sockets stay without errors, and what is not a socket without a queue.
LEMMA StaysQuiet ==
    ASSUME Undisturbed, Inv, AgreeInv, QuietInv, Next
    PROVE  \A f \in Fd : Quiet(sock'[f])
<1>0. sock \in [Fd -> Descriptor] /\ \A f \in Fd : Quiet(sock[f])
  BY DEF Inv, TypeOK, QuietInv
<1>1. CASE Ends
  <2>1. Quiet(Closed)
    BY DEF Quiet, Closed
  <2> QED BY <1>1, <2>1, EndsOnce
<1>2. CASE Opens
  <2>1. PICK f \in Fd : \E d : sock' = [sock EXCEPT ![f] = d] /\ Quiet(d)
    BY <1>2, OpensQuietly
  <2> QED BY <1>0, <2>1
<1>3. CASE Reads
  <2>1. PICK f \in Fd : sock[f].rxq # <<>> /\ sock' = Dequeued(f)
    BY <1>3, ReadsTakeOne
  <2> DEFINE d == [sock[f] EXCEPT !.rxq = Tail(@)]
  <2>2. d.kind = sock[f].kind /\ d.err = sock[f].err
    BY <1>0 DEF Descriptor
  <2>3. Quiet(d) /\ sock' = [sock EXCEPT ![f] = d]
    BY <1>0, <2>1, <2>2 DEF Quiet, Dequeued
  <2> QED BY <1>0, <2>3
<1>4. CASE Arrives
  <2>1. ASSUME NEW f \in Fd PROVE Quiet(sock'[f])
    <3>1. CASE sock'[f] = sock[f]
      BY <1>0, <3>1
    <3>2. CASE sock'[f] # sock[f]
      <4>1. PICK m \in Frames \cup {IcmpMsg} :
                /\ sock[f].kind \in {"pkt", "icmp"}
                /\ sock'[f] = [sock[f] EXCEPT !.rxq = Append(sock[f].rxq, m)]
        BY <1>4, <3>2, ArrivesLast
      <4>2. sock'[f].kind = sock[f].kind /\ sock'[f].err = sock[f].err
        BY <1>0, <4>1 DEF Descriptor
      <4>3. ~ sock[f].err
        BY <1>0 DEF Quiet
      <4>4. ~ sock'[f].err
        BY <4>2, <4>3
      <4>5. sock'[f].kind # "free" /\ sock'[f].kind # "null"
        BY <4>1, <4>2
      <4> QED BY <4>4, <4>5 DEF Quiet
    <3> QED BY <3>1, <3>2
  <2> QED BY <2>1
<1>5. CASE Stays
  BY <1>0, <1>5, StaysSame
<1> QED BY <1>1, <1>2, <1>3, <1>4, <1>5, StepKinds

-----------------------------------------------------------------------------
(* The circumstances last.                                                 *)

LEMMA SameSurroundings ==
    ASSUME Undisturbed, Inv, AgreeInv, QuietInv, Next
    PROVE  link' = link /\ cfg' = cfg
<1> USE DEF kernelVars, configVars
<1>1. CASE Ends
  BY <1>1 DEF Ends, OpenFails, SetAllmultiFails, Killed, Terminate
<1>2. CASE Opens
  BY <1>2 DEF Opens, OpenSocket, BindSocket, AttachFilter, OpenIcmpSocket
<1>3. CASE Reads
  BY <1>3 DEF Reads, RxFrame, RxIcmp
<1>4. CASE Arrives
  BY <1>4 DEF Arrives, IcmpArrives, FrameArrives, Outside
<1>5. CASE Stays
  BY <1>5 DEF Stays, SetAllmulti, Daemonize, EnterDispatcher, PollReturns, PollIdle, ScanIn,
              ScanDone, ProcessNS, HarmlessSignal
<1> QED BY <1>1, <1>2, <1>3, <1>4, <1>5, StepKinds

\* The program counter before and after the steps of a running process.
LEMMA StepsAlive ==
    ASSUME Inv, AgreeInv, QuietInv, Undisturbed
    PROVE  /\ Opens => ~ Ended' /\ phase' = phase
           /\ Reads \/ Stays => ~ Ended /\ ~ Ended' /\ pc' \notin OpenPcs
           /\ Arrives => UNCHANGED <<pc, phase, fdIdx, newSock, pktSock, icmpSock, fds, revents>>
<1>1. Opens => ~ Ended' /\ phase' = phase
  BY DEF Opens, OpenSocket, BindSocket, AttachFilter, OpenIcmpSocket, Goto, Ended
<1>2. Reads => ~ Ended /\ ~ Ended' /\ pc' \notin OpenPcs
  BY DEF Reads, RxFrame, RxIcmp, Goto, Ended, OpenPcs
<1>3. HarmlessSignal => ~ Ended /\ ~ Ended' /\ pc' \notin OpenPcs
  BY DEF HarmlessSignal, Interrupt, Handling, Ended, OpenPcs
<1>4. PollIdle \/ ScanIn \/ ScanDone \/ ProcessNS \/ PollReturns
        => ~ Ended /\ ~ Ended' /\ pc' \notin OpenPcs
  BY DEF PollIdle, ScanIn, ScanDone, ProcessNS, PollReturns, Reader, Goto, Ended, OpenPcs
<1>5. SetAllmulti \/ Daemonize \/ EnterDispatcher => ~ Ended /\ ~ Ended' /\ pc' \notin OpenPcs
  BY DEF SetAllmulti, Daemonize, EnterDispatcher, Goto, Ended, OpenPcs
<1>6. Arrives => UNCHANGED <<pc, phase, fdIdx, newSock, pktSock, icmpSock, fds, revents>>
  BY DEF Arrives, Outside, tableVars, pollVars
<1> QED BY <1>1, <1>2, <1>3, <1>4, <1>5, <1>6 DEF Stays

\* Nothing is open once the process has ended.
LEMMA EndedIsClosed ==
    ASSUME Undisturbed, Inv, AgreeInv, QuietInv, Next, Ended'
    PROVE  \A f \in Fd : sock'[f].kind = "free"
<1>1. CASE Ends
  BY <1>1, EndsOnce DEF Closed
<1>2. CASE Arrives
  <2>1. Ended
    BY <1>2, StepsAlive DEF Ended
  <2>2. ASSUME NEW f \in Fd PROVE sock'[f].kind = "free"
    BY <1>2, <2>1, ArrivesLast DEF QuietInv
  <2> QED BY <2>2
<1> QED BY <1>1, <1>2, StepKinds, StepsAlive

\* During startup the packet sockets not yet stored are zeros.
LEMMA ZeroUntilStored ==
    ASSUME Undisturbed, Inv, AgreeInv, QuietInv, Next, phase' = "init", ~ Ended'
    PROVE  \A i \in Idx : PktDone(i)' \/ pktSock'[i] = 0
<1> USE KernelAssumption DEF tableVars
<1>0. ~ Ended => phase = "init"
  <2>1. CASE Ends
    BY <2>1, EndsOnce
  <2>2. CASE ~ Ends
    BY <2>2, StepKinds DEF Opens, OpenSocket, BindSocket, AttachFilter, OpenIcmpSocket, Reads,
       RxFrame, RxIcmp, Arrives, Outside, Stays, SetAllmulti, Daemonize, EnterDispatcher,
       PollReturns, PollIdle, ScanIn, ScanDone, ProcessNS, HarmlessSignal
  <2> QED BY <2>1, <2>2
<1>1. ASSUME NEW i \in Idx, phase = "init", ~ Ended
      PROVE  PktDone(i)' \/ pktSock'[i] = 0
  <2>0. pc \in Starting /\ (PktDone(i) \/ pktSock[i] = 0) /\ pktSock \in [Idx -> Fd]
    BY <1>1 DEF Inv, StartInv, QuietInv, TypeOK
  <2>1. CASE OpenSocket \/ BindSocket
    BY <2>0, <2>1 DEF OpenSocket, BindSocket, Goto, PktDone
  <2>2. CASE AttachFilter
    <3>1. pc = "filter" /\ pc' = "icmp" /\ fdIdx' = fdIdx /\ pktSock' = [pktSock EXCEPT ![fdIdx] = newSock]
      BY <2>2 DEF AttachFilter, Goto
    <3> QED BY <2>0, <3>1 DEF PktDone
  <2>3. CASE OpenIcmpSocket
    <3>1. pc = "icmp" /\ pktSock' = pktSock /\ fdIdx \in Idx
      BY <2>3 DEF OpenIcmpSocket, Inv, TypeOK, IfacePcs
    <3>2. CASE pc' = "socket" /\ fdIdx' = fdIdx + 1
      <4>1. i < fdIdx \/ i = fdIdx => i < fdIdx'
        BY <3>1, <3>2, SMT DEF Idx
      <4> QED BY <2>0, <3>1, <4>1 DEF PktDone
    <3> QED BY <2>3, <3>2 DEF OpenIcmpSocket, PktDone
  <2>4. CASE Stays
    BY <1>1, <2>0, <2>4 DEF Stays, Starting, SetAllmulti, Daemonize, EnterDispatcher,
       PollReturns, PollIdle, ScanIn, ScanDone, ProcessNS, HarmlessSignal, Handling, Goto, PktDone
  <2>5. CASE Arrives
    BY <2>0, <2>5, StepsAlive DEF PktDone
  <2>6. ~ Ends /\ ~ Reads
    BY <2>0, EndsOnce DEF Reads, RxFrame, RxIcmp, Goto, Starting
  <2> QED BY <2>1, <2>2, <2>3, <2>4, <2>5, <2>6, StepKinds DEF Opens
<1>2. ~ Ended
  <2>1. CASE Arrives
    BY <2>1, StepsAlive DEF Ended
  <2> QED BY <2>1, StepKinds, EndsOnce, StepsAlive, OpensAtStart
<1> QED BY <1>0, <1>1, <1>2

\* The tables stay filled, and no socket is reopened.
LEMMA StaysFilled ==
    ASSUME Undisturbed, Inv, AgreeInv, QuietInv, Next, Handling'
    PROVE  TableFilled' /\ pc' \notin OpenPcs
<1> USE KernelAssumption
<1>0. 0 \in Idx /\ ~ Ended'
  BY SMT DEF Idx, Handling
<1>1. CASE Handling
  <2>1. icmpSock' = icmpSock /\ TableFilled /\ pc \notin OpenPcs
    BY <1>1, FilledKeeps, Unreached DEF QuietInv
  <2>2. ~ Opens
    BY <1>1, OpensAtStart DEF Handling
  <2>3. pc' \notin OpenPcs
    BY <1>0, <2>1, <2>2, StepKinds, StepsAlive, EndsOnce
  <2> QED BY <2>1, <2>3 DEF TableFilled
<1>2. CASE ~ Handling
  <2>1. ~ Ended
    <3>1. CASE Arrives
      BY <1>0, <3>1, StepsAlive DEF Ended
    <3> QED BY <3>1, StepKinds, EndsOnce, StepsAlive, OpensAtStart
  <2>2. phase = "init" /\ phase' = "run" /\ pc \in Starting
    BY <1>2, <2>1 DEF Handling, Inv, TypeOK, StartInv
  <2>3. Daemonize
    <3>1. ~ Opens /\ ~ Arrives /\ ~ Ends
      BY <1>0, <2>2, StepsAlive, EndsOnce
    <3>2. ~ Reads
      BY <2>2 DEF Reads, RxFrame, RxIcmp, Goto, Starting
    <3>3. Stays
      BY <3>1, <3>2, StepKinds
    <3> QED BY <2>2, <3>3 DEF Stays, SetAllmulti, EnterDispatcher, PollReturns, PollIdle, ScanIn,
          ScanDone, ProcessNS, HarmlessSignal
  <2>4. pc = "daemon" /\ pc' = "enter" /\ icmpSock' = icmpSock
    BY <2>3 DEF Daemonize, Goto, tableVars
  <2>5. IcmpStart(0)
    BY <1>0, <2>1, <2>2 DEF Inv, StartInv
  <2>6. icmpSock[0] = IcmpFd(0)
    BY <2>4, <2>5 DEF IcmpStart, IcmpDone
  <2>7. IcmpFd(0) # 0
    BY <1>0, FdCases
  <2> QED BY <2>4, <2>6, <2>7 DEF TableFilled, OpenPcs
<1> QED BY <1>1, <1>2

\* What poll finds in a slot of a running daemon: never an error, and for a
\* packet socket something to read only where frames are queued.
LEMMA PollFinds ==
    ASSUME Undisturbed, Inv, AgreeInv, QuietInv, PollReturns
    PROVE  /\ \A s \in Slot : "err" \notin revents'[s]
           /\ \A i \in Idx : "in" \in revents'[i] => sock[PktFd(i)].rxq # <<>>
<1> USE KernelAssumption
<1>1. Handling /\ pc = "poll"
  BY PastStartup DEF PollReturns, Goto, Starting, Ended
<1>2. /\ \A i \in Idx : fds[i] = PktFd(i) /\ fds[N + i] = IcmpFd(i)
      /\ \A i \in Idx : sock[PktFd(i)].kind = "pkt" /\ sock[IcmpFd(i)].kind = "icmp"
  BY <1>1, RunningSockets DEF AgreeBody
<1>3. \A i \in Idx : PktFd(i) \in Fd /\ IcmpFd(i) \in Fd /\ PktFd(i) # -1 /\ IcmpFd(i) # -1
  <2>1. \A f \in Fd : f # -1
    BY SMT DEF Fd
  <2> QED BY <2>1, FdCases
<1>4. /\ \A s \in Slot : s \in Polled => s \in Idx \/ s = N + 0
      /\ 0 \in Idx /\ Idx \subseteq Slot /\ Idx \subseteq Polled
  BY SMT DEF Slot, Polled, Idx
<1>5. \A s \in Slot : revents'[s] = IF s \in Polled THEN Events(fds[s]) ELSE {}
  BY DEF PollReturns
<1>6. \A f \in Fd : ~ sock[f].err
  BY DEF QuietInv, Quiet
<1>7. \A i \in Idx : "err" \notin Events(PktFd(i)) /\ "err" \notin Events(IcmpFd(i))
  BY <1>2, <1>3, <1>6 DEF Events
<1>8. \A i \in Idx : "in" \in Events(PktFd(i)) => sock[PktFd(i)].rxq # <<>>
  BY <1>2, <1>3 DEF Events
<1>9. \A s \in Slot : "err" \notin revents'[s]
  BY <1>2, <1>4, <1>5, <1>7
<1> QED BY <1>2, <1>4, <1>5, <1>8, <1>9

LEMMA NoErrorEvents ==
    ASSUME Undisturbed, Inv, AgreeInv, QuietInv, Next
    PROVE  \A s \in Slot : "err" \notin revents'[s]
<1> USE DEF pollVars
<1>0. \A s \in Slot : "err" \notin revents[s]
  BY DEF QuietInv
<1>1. CASE PollReturns
  BY <1>1, PollFinds
<1>2. CASE EnterDispatcher \/ ScanDone
  BY <1>2 DEF EnterDispatcher, ScanDone
<1>3. CASE ~ (PollReturns \/ EnterDispatcher \/ ScanDone)
  <2>1. revents' = revents
    BY <1>3, StepKinds DEF Ends, OpenFails, SetAllmultiFails, Killed, Terminate,
       Opens, OpenSocket, BindSocket, AttachFilter, OpenIcmpSocket, Reads, RxFrame, RxIcmp,
       Arrives, Outside, Stays, SetAllmulti, Daemonize, PollIdle, ScanIn, ProcessNS, HarmlessSignal
  <2> QED BY <1>0, <2>1
<1> QED BY <1>1, <1>2, <1>3

\* What is queued on a packet socket stays there until get_rx takes it.
LEMMA StaysQueued ==
    ASSUME Undisturbed, Inv, AgreeInv, QuietInv, Next, NEW i \in Idx,
           sock[PktFd(i)].rxq # <<>>, ~ Ends, ~ (RxFrame /\ i = fdIdx)
    PROVE  sock'[PktFd(i)].rxq # <<>>
<1> DEFINE g == PktFd(i)
<1>0. g \in Fd /\ sock \in [Fd -> Descriptor] /\ sock[g] \in Descriptor
  BY FdCases DEF Inv, TypeOK
<1>1. CASE Opens
  <2>1. PICK f \in Fd : \E d : /\ sock' = [sock EXCEPT ![f] = d]
                               /\ \A j \in Idx : f = PktFd(j) => d.rxq = sock[f].rxq
    BY <1>1, OpensQuietly
  <2> QED BY <1>0, <2>1
<1>2. CASE Reads
  <2>1. PICK f \in Fd : /\ sock' = Dequeued(f)
                        /\ RxFrame => fdIdx \in Idx /\ f = PktFd(fdIdx)
                        /\ RxIcmp => \A j \in Idx : f # PktFd(j)
    BY <1>2, ReadsTakeOne
  <2>2. f # g
    BY <1>2, <2>1, FdCases DEF Reads
  <2> QED BY <1>0, <2>1, <2>2 DEF Dequeued
<1>3. CASE Arrives
  <2>1. CASE sock'[g] # sock[g]
    <3>1. PICK m \in Frames \cup {IcmpMsg} :
            sock'[g] = [sock[g] EXCEPT !.rxq = Append(sock[g].rxq, m)]
      BY <1>0, <1>3, <2>1, ArrivesLast
    <3>2. sock'[g].rxq = Append(sock[g].rxq, m)
      BY <1>0, <3>1 DEF Descriptor
    <3>3. sock[g].rxq \in Seq(Frames \cup {IcmpMsg})
      BY <1>0 DEF Descriptor
    <3> QED BY <3>2, <3>3, SMT
  <2> QED BY <2>1
<1>4. CASE Stays
  BY <1>4, StaysSame
<1> QED BY <1>1, <1>2, <1>3, <1>4, StepKinds

\* The scan never comes to a packet socket that has become empty.
LEMMA FoundStays ==
    ASSUME Undisturbed, Inv, AgreeInv, QuietInv, Next
    PROVE  FoundIsQueued'
<1> USE KernelAssumption DEF pollVars
<1>0. /\ FoundIsQueued /\ fdIdx \in Int /\ \A i \in Idx : i \in Int /\ i < N
      /\ N \in Int /\ \A s \in Slot : s \in Int
  <2>1. fdIdx \in Slot \cup {2 * N}
    BY DEF Inv, TypeOK
  <2> QED BY <2>1, SMT DEF QuietInv, Idx, Slot
\* A step to the scan or past a slot: nothing new is found, less is left.
<1>1. ASSUME pc \in {"scan", "rx", "ns"}, revents' = revents, ~ Ends, ~ RxFrame \/ pc' = "ns",
             RxFrame => fdIdx' = fdIdx,
             \A i \in Idx : Unread(i)' => Unread(i), pc' = "rx" => "in" \in revents[fdIdx']
      PROVE  FoundIsQueued'
  <2>1. ASSUME NEW i \in Idx, Unread(i)', "in" \in revents'[i] PROVE sock'[PktFd(i)].rxq # <<>>
    <3>1. sock[PktFd(i)].rxq # <<>>
      BY <1>0, <1>1, <2>1 DEF FoundIsQueued
    <3>2. ~ (RxFrame /\ i = fdIdx)
      BY <1>0, <1>1, <2>1 DEF Unread
    <3> QED BY <1>1, <3>1, <3>2, StaysQueued
  <2> QED BY <1>1, <2>1 DEF FoundIsQueued, PktFd
<1>2. CASE RxFrame
  <2>1. pc = "rx" /\ pc' = "ns" /\ fdIdx' = fdIdx /\ revents' = revents
    BY <1>2 DEF RxFrame, Goto
  <2>2. ~ Ends
    BY <2>1, EndsOnce DEF Ended
  <2> QED BY <1>1, <2>1, <2>2 DEF Unread
<1>3. CASE RxIcmp \/ (HarmlessSignal /\ pc' = "scan")
  <2>1. fdIdx \in Slot \ Idx /\ pc' = "scan" /\ fdIdx' = fdIdx + 1
    BY <1>3 DEF RxIcmp, HarmlessSignal, Interrupt, Goto, Inv, TypeOK
  <2>2. \A i \in Idx : ~ (fdIdx' < i) /\ fdIdx' # i
    BY <2>1, SMT DEF Slot, Idx
  <2> QED BY <2>1, <2>2 DEF FoundIsQueued, Unread
<1>4. CASE ProcessNS
  <2>1. pc = "ns" /\ pc' = "scan" /\ fdIdx' = fdIdx + 1 /\ revents' = revents
    BY <1>4 DEF ProcessNS, Goto
  <2>2. \A i \in Idx : Unread(i)' => Unread(i)
    BY <1>0, <2>1, SMT DEF Unread
  <2>3. ~ Ends /\ ~ RxFrame
    BY <2>1, EndsOnce DEF Ended, RxFrame, Goto
  <2> QED BY <1>1, <2>1, <2>2, <2>3
<1>5. CASE ScanIn
  <2>1. PICK s \in Slot : /\ pc = "scan" /\ NextSlot(s) /\ "in" \in revents[s] /\ fdIdx' = s
                          /\ pc' \in {"rx", "rxicmp"} /\ revents' = revents
    BY <1>5 DEF ScanIn, Reader
  <2>2. s >= fdIdx /\ s \in Int
    BY <1>0, <2>1 DEF NextSlot
  <2>3. \A i \in Idx : Unread(i)' => Unread(i)
    BY <1>0, <2>1, <2>2, SMT DEF Unread
  <2>4. ~ Ends /\ ~ RxFrame
    BY <2>1, EndsOnce DEF Ended, RxFrame, Goto
  <2> QED BY <1>1, <2>1, <2>3, <2>4
<1>6. CASE Arrives
  <2>1. UNCHANGED <<pc, fdIdx, revents>>
    BY <1>6, StepsAlive
  <2>2. CASE pc \in {"scan", "rx", "ns"}
    <3>1. ~ Ends /\ ~ RxFrame
      BY <2>1, <2>2, EndsOnce DEF Ended, RxFrame, Goto
    <3>2. \A i \in Idx : Unread(i)' => Unread(i)
      BY <2>1 DEF Unread
    <3> QED BY <1>0, <1>1, <2>1, <2>2, <3>1, <3>2 DEF FoundIsQueued
  <2>3. CASE pc \notin {"scan", "rx", "ns"}
    BY <2>1, <2>3 DEF FoundIsQueued
  <2> QED BY <2>2, <2>3
<1>7. CASE PollReturns
  <2>1. pc' = "scan" /\ sock' = sock
    BY <1>7 DEF PollReturns, Goto, kernelVars
  <2> QED BY <1>7, <2>1, PollFinds DEF FoundIsQueued, PktFd
<1>8. ASSUME pc' \notin {"scan", "rx", "ns"} PROVE FoundIsQueued'
  BY <1>8 DEF FoundIsQueued
<1>9. Ends => Ended'
  BY EndsOnce
<1>10. Opens \/ PollIdle \/ ScanDone \/ SetAllmulti \/ Daemonize \/ EnterDispatcher
         => pc' \notin {"scan", "rx", "ns"}
  BY DEF Opens, OpenSocket, BindSocket, AttachFilter, OpenIcmpSocket, PollIdle, ScanDone,
         SetAllmulti, Daemonize, EnterDispatcher, Goto
<1>11. HarmlessSignal => pc' = "scan"
  BY Unreached DEF HarmlessSignal, Interrupt
<1> QED BY <1>2, <1>3, <1>4, <1>5, <1>6, <1>7, <1>8, <1>9, <1>10, <1>11, StepKinds
      DEF Reads, Stays, Ended

-----------------------------------------------------------------------------
(* The invariant.                                                          *)

LEMMA QuietInit == Init => QuietInv
<1> SUFFICES ASSUME Init PROVE QuietInv
  OBVIOUS
<1>1. \A f \in Fd : Quiet(sock[f])
  BY DEF Init, Quiet, DevNull, Closed
<1> QED BY <1>1 DEF Init, QuietInv, Ended, Handling, FoundIsQueued

LEMMA QuietStep ==
    ASSUME Undisturbed, Inv, AgreeInv, QuietInv, [Next]_vars
    PROVE  QuietInv'
<1>1. CASE Next
  <2>1. /\ \A i \in Idx : link'[i] = "up"
        /\ cfg' = BootConfig
    BY <1>1, SameSurroundings DEF QuietInv
  <2> QED BY <1>1, <2>1, StaysQuiet, EndedIsClosed, ZeroUntilStored, StaysFilled, NoErrorEvents,
        FoundStays DEF QuietInv
<1>2. CASE UNCHANGED vars
  BY <1>2 DEF vars, kernelVars, tableVars, pollVars, configVars, QuietInv, Quiet, Ended, Handling,
     PktDone, TableFilled, FoundIsQueued, Unread, PktFd
<1> QED BY <1>1, <1>2

-----------------------------------------------------------------------------
(* The refinement mapping: an interface's frames are those its packet      *)
(* socket queues, after the one that is being handled.                     *)

Pending(i) == IF pc = "ns" /\ fdIdx = i THEN <<msgdata>> ELSE <<>>
Queue(i) == sock[PktFd(i)].rxq

InboxInv == \A i \in Idx : /\ Inbox(i) = Pending(i) \o Queue(i)
                           /\ Queue(i) \in Seq(Message) /\ Pending(i) \in Seq(Message)
                           /\ sock[PktFd(i)].kind # "icmp"

LEMMA InboxIsQueue == Inv /\ AgreeInv /\ QuietInv => InboxInv
<1> SUFFICES ASSUME Inv, AgreeInv, QuietInv, NEW i \in Idx
             PROVE  /\ Inbox(i) = Pending(i) \o Queue(i)
                    /\ Queue(i) \in Seq(Message) /\ Pending(i) \in Seq(Message)
                    /\ sock[PktFd(i)].kind # "icmp"
  BY DEF InboxInv
<1>0. /\ PktFd(i) \in Fd /\ 0 \in Fd /\ pktSock[i] \in Fd /\ msgdata \in Message
      /\ sock[PktFd(i)] \in Descriptor /\ QueueOK(sock[PktFd(i)])
  BY FdCases DEF Inv, TypeOK, QueueInv
<1>1. \A f \in Fd : sock[f].kind \in {"free", "null"} => sock[f].rxq = <<>>
  BY DEF QuietInv, Quiet
<1>2. /\ sock[Listening(i)].rxq = Queue(i)
      /\ sock[PktFd(i)].kind # "icmp"
  <2>1. CASE Ended
    <3>1. Listening(i) = pktSock[i]
      BY <2>1 DEF Ended, Listening
    <3> QED BY <1>0, <1>1, <2>1, <3>1 DEF QuietInv, Queue
  <2>2. CASE Handling
    <3>1. Listening(i) = PktFd(i) /\ sock[PktFd(i)].kind = "pkt"
      BY <2>2, RunningSockets DEF QuietInv, Listening, OpenPcs
    <3> QED BY <3>1 DEF Queue
  <2>3. CASE ~ Ended /\ phase = "init"
    <3>1. /\ sock[0].kind = "null" /\ PktStart(i)
          /\ pc \in {"bind", "filter"} => newSock = PktFd(fdIdx)
          /\ PktDone(i) \/ pktSock[i] = 0
      BY <2>3 DEF Inv, StartInv, QuietInv
    <3>2. CASE Opening(i)
      <4>1. Listening(i) = PktFd(i)
        BY <3>1, <3>2 DEF Opening, Listening
      <4>2. sock[PktFd(i)].kind = "pkt"
        BY <3>1, <3>2 DEF PktStart
      <4> QED BY <4>1, <4>2 DEF Queue
    <3>3. CASE ~ Opening(i)
      <4>1. Listening(i) = pktSock[i]
        BY <3>3 DEF Opening, Listening
      <4>2. CASE PktDone(i)
        BY <3>1, <4>1, <4>2 DEF PktStart, Queue
      <4>3. CASE ~ PktDone(i)
        BY <1>0, <1>1, <3>1, <3>3, <4>1, <4>3 DEF PktStart, Queue
      <4> QED BY <4>2, <4>3
    <3> QED BY <3>2, <3>3
  <2> QED BY <2>1, <2>2, <2>3 DEF Handling, Inv, TypeOK
<1>3. Queue(i) \in Seq(Message)
  <2>1. Queue(i) \in Seq(Frames)
    BY <1>0, <1>2 DEF QueueOK, Queue
  <2>2. Frames \subseteq Message
    BY DEF Message
  <2> QED BY <2>1, <2>2, SeqMonotonic
<1>4. Pending(i) \in Seq(Message)
  <2>1. <<msgdata>> \in Seq(Message)
    BY <1>0
  <2>2. <<>> \in Seq(Message)
    OBVIOUS
  <2> QED BY <2>1, <2>2 DEF Pending
<1>5. Inbox(i) = Pending(i) \o Queue(i)
  BY <1>2 DEF Inbox, Pending
<1> QED BY <1>2, <1>3, <1>4, <1>5

\* processNS answers what the promise entitles to an answer, as it promises.
LEMMA AnswersEntitled ==
    ASSUME Undisturbed, TypeOK, cfg = BootConfig, NEW i \in Idx, NEW m \in Message
    PROVE  /\ Answers(cfg, i, m) <=> Proxy!Entitled(BootConfig, i, m)
           /\ Advert(cfg, i, m) = Proxy!Reply(BootConfig, i, m)
<1>1. m.target \in Address /\ BootConfig \in Config
  BY DispatcherAssumption DEF Message
<1>2. /\ BootConfig.prefix[i] \in Address /\ BootConfig.prefixLen[i] \in Int
      /\ BootConfig.listType \in {"none", "black", "white"}
  BY <1>1 DEF Config
<1>3. HostBitsClear(BootConfig.prefix[i], BootConfig.prefixLen[i])
  BY DEF Undisturbed
<1>4. addr6match(m.target, BootConfig.prefix[i], BootConfig.prefixLen[i])
        <=> SameBits(m.target, BootConfig.prefix[i], BootConfig.prefixLen[i])
  BY <1>1, <1>2, <1>3, MatchIsSameBits
<1>5. \A a, p \in Address : \A b \in Int : SameBits(a, p, b) <=> Proxy!SameBits(a, p, b)
  BY DEF SameBits, Proxy!SameBits, Bits, Proxy!Bits, Bit, Proxy!Bit
<1>6. /\ IsUnspecified(m.src) <=> Proxy!IsUnspecified(m.src)
      /\ IsMulticast(m.dst) <=> Proxy!IsMulticast(m.dst)
  BY DEF IsUnspecified, Proxy!IsUnspecified, IsMulticast, Proxy!IsMulticast
<1>7. ListPermits(BootConfig, m.target)
        <=> /\ BootConfig.listType = "black" => ~ Proxy!Listed(BootConfig, m.target)
            /\ BootConfig.listType = "white" => Proxy!Listed(BootConfig, m.target)
  BY <1>2 DEF ListPermits, Proxy!Listed
<1>8. Answers(cfg, i, m) <=> Proxy!Entitled(BootConfig, i, m)
  BY <1>1, <1>2, <1>4, <1>5, <1>6, <1>7, Zenon DEF Answers, Proxy!Entitled
<1>9. (IsMulticast(m.dst) \/ BootConfig.naLinkOptFlag)
        = IF Proxy!IsMulticast(m.dst) THEN TRUE ELSE BootConfig.naLinkOptFlag
  BY <1>1, <1>6 DEF Config, IsMulticast
<1>10. Advert(cfg, i, m) = Proxy!Reply(BootConfig, i, m)
  BY <1>9 DEF Advert, Proxy!Reply
<1> QED BY <1>8, <1>10

-----------------------------------------------------------------------------
(* The steps of the daemon, as steps of the proxy.                         *)

\* Appending to the queue appends to the frames not yet dealt with.
LEMMA AppendBehind ==
    ASSUME NEW S, NEW a \in Seq(S), NEW b \in Seq(S), NEW x \in S
    PROVE  a \o Append(b, x) = Append(a \o b, x)
<1>1. /\ <<x>> \in Seq(S) /\ a \o b \in Seq(S)
      /\ Append(b, x) = b \o <<x>> /\ Append(a \o b, x) = (a \o b) \o <<x>>
  BY AppendIsConcat, ConcatProperties
<1> QED BY <1>1, ConcatAssociative

\* A step after which every interface has the same frames waiting, the same
\* advertisement was the last, and the process runs as before is a stutter.
LEMMA Stutters ==
    ASSUME InboxInv, InboxInv', \A i \in Idx : Pending(i)' \o Queue(i)' = Pending(i) \o Queue(i),
           out' = out, Ended' <=> Ended
    PROVE  UNCHANGED Proxy!vars
<1>1. \A i \in Idx : Inbox(i)' = Inbox(i)
  BY DEF InboxInv
<1>2. [i \in Idx |-> Inbox(i)]' = [i \in Idx |-> Inbox(i)]
  BY <1>1
<1> QED BY <1>2 DEF Proxy!vars

LEMMA EndIsStop == ASSUME InboxInv', Ends PROVE Proxy!Stop
<1>1. ~ Ended /\ Ended' /\ sock' = [f \in Fd |-> Closed]
  BY EndsOnce
<1>2. out' = out
  BY DEF Ends, OpenFails, SetAllmultiFails, Killed, Terminate
<1>3. \A i \in Idx : Queue(i)' = <<>> /\ Pending(i)' = <<>>
  BY <1>1, FdCases DEF Queue, Pending, Closed, PktFd, Ended
<1>4. <<>> \o <<>> = <<>>
  OBVIOUS
<1>5. \A i \in Idx : Inbox(i)' = <<>>
  BY <1>3, <1>4 DEF InboxInv
<1> QED BY <1>1, <1>2, <1>5 DEF Proxy!Stop

LEMMA OpenStutters ==
    ASSUME Undisturbed, Inv, AgreeInv, QuietInv, InboxInv, InboxInv', Opens
    PROVE  UNCHANGED Proxy!vars
<1>1. /\ pc # "ns" /\ pc' # "ns" /\ out' = out
  BY DEF Opens, OpenSocket, BindSocket, AttachFilter, OpenIcmpSocket, Goto
<1>2. ~ Ended /\ ~ Ended'
  BY StepsAlive, OpensAtStart
<1>3. PICK f \in Fd : \E d : /\ sock' = [sock EXCEPT ![f] = d]
                             /\ \A i \in Idx : f = PktFd(i) => d.rxq = sock[f].rxq
  BY OpensQuietly
<1>4. \A i \in Idx : Queue(i)' = Queue(i) /\ Pending(i)' = Pending(i)
  BY <1>1, <1>3, FdCases DEF Queue, Pending, PktFd, Inv, TypeOK
<1> QED BY <1>1, <1>2, <1>4, Stutters

\* get_rx moves a frame from the queue to the buffer; get_rx_icmp6 moves none.
LEMMA ReadStutters ==
    ASSUME Undisturbed, Inv, AgreeInv, QuietInv, InboxInv, InboxInv', Reads
    PROVE  UNCHANGED Proxy!vars
<1>1. ~ Ended /\ ~ Ended' /\ out' = out /\ pc # "ns"
  BY StepsAlive DEF Reads, RxFrame, RxIcmp, Goto
<1>2. PICK f \in Fd : /\ sock[f].rxq # <<>> /\ sock' = Dequeued(f)
                      /\ RxFrame => fdIdx \in Idx /\ f = PktFd(fdIdx)
                      /\ RxIcmp => \A i \in Idx : f # PktFd(i)
  BY ReadsTakeOne
<1>3. sock \in [Fd -> Descriptor] /\ \A i \in Idx : PktFd(i) \in Fd
  BY FdCases DEF Inv, TypeOK
<1>4. sock'[f].rxq = Tail(sock[f].rxq) /\ \A g \in Fd : g # f => sock'[g] = sock[g]
  BY <1>2, <1>3 DEF Dequeued, Descriptor
<1>5. CASE RxFrame
  <2>1. /\ pc' = "ns" /\ fdIdx' = fdIdx /\ fdIdx \in Idx /\ f = PktFd(fdIdx)
        /\ msgdata' = Head(sock[pktSock[fdIdx]].rxq)
    BY <1>2, <1>5 DEF RxFrame, Goto
  <2>2. pktSock[fdIdx] = f
    BY <1>2, <1>5, <2>1, ReadsTakeOne, RunningSockets
  <2>3. Queue(fdIdx) \in Seq(Message) /\ Queue(fdIdx) # <<>>
    BY <1>2, <2>1 DEF InboxInv, Queue
  <2>4. \A q \in Seq(Message) : q # <<>> => <<Head(q)>> \o Tail(q) = <<>> \o q
    <3>1. ASSUME NEW q \in Seq(Message), q # <<>> PROVE <<Head(q)>> \o Tail(q) = <<>> \o q
      <4>1. /\ Head(q) \in Message /\ Tail(q) \in Seq(Message) /\ Len(q) \in Nat \ {0}
            /\ Len(Tail(q)) = Len(q) - 1
            /\ \A n \in 1 .. Len(q) - 1 : Tail(q)[n] = q[n + 1]
        BY <3>1, SMT
      <4>2. <<>> \o q = q /\ <<Head(q)>> \o Tail(q) = q
        BY <3>1, HeadTailProperties, ConcatEmptySeq, SMT
      <4> QED BY <4>2
    <3> QED BY <3>1
  <2>5. Pending(fdIdx)' \o Queue(fdIdx)' = Pending(fdIdx) \o Queue(fdIdx)
    <3>1. Queue(fdIdx)' = Tail(Queue(fdIdx))
      BY <1>4, <2>1 DEF Queue, PktFd
    <3>2. Pending(fdIdx)' = <<Head(Queue(fdIdx))>> /\ Pending(fdIdx) = <<>>
      BY <1>1, <2>1, <2>2 DEF Pending, Queue
    <3> QED BY <2>3, <2>4, <3>1, <3>2
  <2>6. \A i \in Idx : i # fdIdx => Queue(i)' = Queue(i) /\ Pending(i)' = Pending(i)
    BY <1>1, <1>3, <1>4, <2>1, FdCases DEF Queue, Pending, PktFd
  <2>7. \A i \in Idx : Pending(i)' \o Queue(i)' = Pending(i) \o Queue(i)
    <3>1. ASSUME NEW i \in Idx PROVE Pending(i)' \o Queue(i)' = Pending(i) \o Queue(i)
      <4>1. CASE i = fdIdx
        BY <2>1, <2>5, <4>1 DEF Pending, Queue, PktFd
      <4> QED BY <2>6, <4>1
    <3> QED BY <3>1
  <2> QED BY <1>1, <2>7, Stutters
<1>6. CASE RxIcmp
  <2>1. pc' = "scan"
    BY <1>6 DEF RxIcmp, Goto
  <2>2. \A i \in Idx : Queue(i)' = Queue(i) /\ Pending(i)' = Pending(i)
    BY <1>1, <1>2, <1>3, <1>4, <1>6, <2>1 DEF Queue, Pending, PktFd
  <2> QED BY <1>1, <2>2, Stutters
<1> QED BY <1>5, <1>6 DEF Reads

\* A frame is queued on some of the packet sockets and on no other interface's;
\* an ICMPv6 message is queued on none.
LEMMA ArriveStep ==
    ASSUME Inv, QuietInv, InboxInv, InboxInv', Arrives
    PROVE  Proxy!Arrive \/ UNCHANGED Proxy!vars
<1>1. /\ out' = out /\ UNCHANGED <<pc, fdIdx, msgdata>>
      /\ Ended' <=> Ended
  BY DEF Arrives, Outside, bufVars, Ended
<1>2. \A i \in Idx : Pending(i)' = Pending(i)
  BY <1>1 DEF Pending
<1>3. \A i \in Idx : PktFd(i) \in Fd /\ sock[PktFd(i)] \in Descriptor
  BY FdCases DEF Inv, TypeOK
<1>4. CASE \A i \in Idx : Queue(i)' = Queue(i)
  BY <1>1, <1>2, <1>4, Stutters
<1>5. CASE ~ Ended /\ \E m \in Frames : FrameArrives(m)
  <2>1. PICK m \in Frames : FrameArrives(m)
    BY <1>5
  <2> DEFINE S == {i \in Idx : Queue(i)' # Queue(i)}
  <2>2. ASSUME NEW i \in S PROVE Queue(i)' = Append(Queue(i), m)
    <3>1. sock'[PktFd(i)] = [sock[PktFd(i)] EXCEPT !.rxq = Append(sock[PktFd(i)].rxq, m)]
      BY <1>3, <2>1 DEF FrameArrives, Enqueue, Queue, PktFd
    <3> QED BY <1>3, <3>1 DEF Queue, PktFd, Descriptor
  <2>3. ASSUME NEW i \in Idx
        PROVE  Inbox(i)' = IF i \in S THEN Append(Inbox(i), m) ELSE Inbox(i)
    <3>1. /\ Inbox(i) = Pending(i) \o Queue(i) /\ Inbox(i)' = Pending(i)' \o Queue(i)'
          /\ Pending(i) \in Seq(Message) /\ Queue(i) \in Seq(Message) /\ m \in Message
      BY DEF InboxInv, Message
    <3>2. CASE i \in S
      <4>1. Pending(i) \o Append(Queue(i), m) = Append(Pending(i) \o Queue(i), m)
        BY <3>1, AppendBehind
      <4> QED BY <1>2, <2>2, <3>1, <3>2, <4>1
    <3>3. CASE i \notin S
      BY <1>2, <3>1, <3>3
    <3> QED BY <3>2, <3>3
  <2>4. [i \in Idx |-> Inbox(i)]' = [i \in Idx |-> IF i \in S THEN Append([j \in Idx |-> Inbox(j)][i], m)
                                                    ELSE [j \in Idx |-> Inbox(j)][i]]
    BY <2>3
  <2>5. S \in SUBSET Idx
    OBVIOUS
  <2> HIDE DEF S
  <2> QED BY <1>1, <1>5, <2>1, <2>4, <2>5 DEF Proxy!Arrive
<1>6. CASE IcmpArrives
  <2>1. \A i \in Idx : sock'[PktFd(i)] = sock[PktFd(i)]
    BY <1>3, <1>6 DEF IcmpArrives, InboxInv
  <2> QED BY <1>4, <2>1 DEF Queue, PktFd
<1>7. CASE Ended /\ \E m \in Frames : FrameArrives(m)
  <2>1. \A i \in Idx : sock'[PktFd(i)] = sock[PktFd(i)]
    BY <1>3, <1>7 DEF QuietInv, FrameArrives, Hears
  <2> QED BY <1>4, <2>1 DEF Queue, PktFd
<1> QED BY <1>5, <1>6, <1>7 DEF Arrives

\* The steps that move no frame and send nothing.
LEMMA StayStutters ==
    ASSUME Undisturbed, Inv, AgreeInv, QuietInv, InboxInv, InboxInv', Stays, ~ ProcessNS
    PROVE  UNCHANGED Proxy!vars
<1>1. pc # "ns" /\ pc' # "ns" /\ out' = out
  BY Unreached DEF Stays, SetAllmulti, Daemonize, EnterDispatcher, PollReturns, PollIdle, ScanIn,
     ScanDone, HarmlessSignal, Interrupt, Goto, Reader
<1>2. \A i \in Idx : Queue(i)' = Queue(i) /\ Pending(i)' = Pending(i)
  BY <1>1, StaysSame DEF Queue, Pending, PktFd
<1> QED BY <1>1, <1>2, StepsAlive, Stutters

\* processNS serves the first frame of its interface.
LEMMA ProcessServes ==
    ASSUME Undisturbed, Inv, AgreeInv, QuietInv, InboxInv, InboxInv', ProcessNS
    PROVE  Proxy!Serve(fdIdx)
<1> DEFINE i == fdIdx
<1>1. /\ pc = "ns" /\ pc' = "scan" /\ fdIdx \in Idx /\ msgdata \in Message /\ sock' = sock
      /\ ~ Ended /\ ~ Ended'
  BY DEF ProcessNS, Goto, Inv, TypeOK, IfacePcs, kernelVars, Ended
<1>2. Handling
  BY <1>1, PastStartup DEF Starting, Ended
<1>3. CanSend(fdIdx) /\ SendMayFail = FALSE /\ cfg = BootConfig
  BY <1>1, <1>2, RunningSockets DEF CanSend, QuietInv, Undisturbed
<1>4. out' = IF Proxy!Entitled(BootConfig, fdIdx, msgdata)
               THEN [bit |-> 1 - out.bit, na |-> Proxy!Reply(BootConfig, fdIdx, msgdata)] ELSE out
  BY <1>1, <1>3, AnswersEntitled DEF ProcessNS, SendAdvert, Inv
<1>5. \A q \in Seq(Message) : /\ <<msgdata>> \o q # <<>> /\ Head(<<msgdata>> \o q) = msgdata
                              /\ Tail(<<msgdata>> \o q) = <<>> \o q
  <2>1. ASSUME NEW q \in Seq(Message)
        PROVE  /\ <<msgdata>> \o q # <<>> /\ Head(<<msgdata>> \o q) = msgdata
               /\ Tail(<<msgdata>> \o q) = q
    BY <1>1, SMT
  <2>2. \A q \in Seq(Message) : <<>> \o q = q
    BY ConcatEmptySeq
  <2> QED BY <2>1, <2>2
<1>6. /\ Inbox(fdIdx) = <<msgdata>> \o Queue(fdIdx) /\ Queue(fdIdx) \in Seq(Message)
      /\ \A j \in Idx : Inbox(j)' = <<>> \o Queue(j)
      /\ \A j \in Idx : j # fdIdx => Inbox(j) = <<>> \o Queue(j)
  BY <1>1 DEF InboxInv, Pending, Queue, PktFd
<1>7. /\ Inbox(fdIdx) # <<>> /\ Head(Inbox(fdIdx)) = msgdata
      /\ \A j \in Idx : Inbox(j)' = IF j = fdIdx THEN Tail(Inbox(j)) ELSE Inbox(j)
  BY <1>5, <1>6
<1>8. [j \in Idx |-> Inbox(j)]' = [[j \in Idx |-> Inbox(j)] EXCEPT ![fdIdx] = Tail(@)]
  BY <1>1, <1>7
<1> QED BY <1>1, <1>4, <1>7, <1>8 DEF Proxy!Serve

LEMMA StepRefines ==
    ASSUME Undisturbed, Inv, AgreeInv, QuietInv, InboxInv, InboxInv', [Next]_vars
    PROVE  [Proxy!Next]_Proxy!vars
<1>1. CASE Ends
  BY <1>1, EndIsStop DEF Proxy!Next
<1>2. CASE Opens
  BY <1>2, OpenStutters
<1>3. CASE Reads
  BY <1>3, ReadStutters
<1>4. CASE Arrives
  BY <1>4, ArriveStep DEF Proxy!Next
<1>5. CASE ProcessNS
  <2>1. fdIdx \in Idx
    BY <1>5 DEF ProcessNS, Goto, Inv, TypeOK, IfacePcs
  <2> QED BY <1>5, <2>1, ProcessServes DEF Proxy!Next
<1>6. CASE Stays /\ ~ ProcessNS
  BY <1>6, StayStutters
<1>7. CASE UNCHANGED vars
  <2>1. out' = out /\ UNCHANGED <<sock, pc, fdIdx, msgdata>>
    BY <1>7 DEF vars, kernelVars, bufVars
  <2>2. \A i \in Idx : Queue(i)' = Queue(i) /\ Pending(i)' = Pending(i)
    BY <2>1 DEF Queue, Pending, PktFd
  <2> QED BY <2>1, <2>2, Stutters DEF Ended
<1> QED BY <1>1, <1>2, <1>3, <1>4, <1>5, <1>6, <1>7, StepKinds

\* Undisturbed, the daemon does what the proxy promises: each frame heard on
\* an interface is dealt with once, in order of arrival and by that interface's
\* prefix, the entitled are answered as promised, and nothing else is sent
\* (dispatcher, get_rx, processNS, main.c:182-321, icmp6.c, ip6.c).
THEOREM DaemonServes == ASSUME Undisturbed PROVE Spec => IsProxy
<1>1. Init => AgreeInv
  BY DEF Init, AgreeInv, AgreeBody, Handling
<1>2. Inv /\ AgreeInv /\ [Next]_vars => AgreeInv'
  <2>1. ASSUME AgreeInv, UNCHANGED vars PROVE AgreeInv'
    BY <2>1 DEF vars, kernelVars, tableVars, pollVars, bufVars, configVars, AgreeInv, AgreeBody,
                Handling, Ended, TablesBuilt, Reopening, PktFd, IcmpFd, TableFilled
  <2> QED BY <2>1, AgreeStep
<1>3. Inv /\ AgreeInv /\ QuietInv /\ [Next]_vars => QuietInv'
  BY QuietStep
<1>4. Init /\ InboxInv => Proxy!Init
  <2> SUFFICES ASSUME Init, InboxInv PROVE Proxy!Init
    OBVIOUS
  <2>1. pc = "socket" /\ out = [bit |-> 0, na |-> NoAdvert]
    BY DEF Init
  <2>2. \A i \in Idx : Pending(i) = <<>> /\ Queue(i) = <<>>
    BY <2>1, FdCases DEF Init, Pending, Queue, DevNull, Closed
  <2>3. \A i \in Idx : Inbox(i) = <<>>
    <3>1. <<>> \o <<>> = <<>>
      OBVIOUS
    <3> QED BY <2>2, <3>1 DEF InboxInv
  <2> QED BY <2>1, <2>3 DEF Proxy!Init, Ended
<1>5. Inv /\ AgreeInv /\ QuietInv /\ InboxInv /\ InboxInv' /\ [Next]_vars
        => [Proxy!Next]_Proxy!vars
  BY StepRefines
<1> QED BY <1>1, <1>2, <1>3, <1>4, <1>5, QuietInit, InboxIsQueue, Invariant, PTL
      DEF Spec, Proxy!Spec, IsProxy

-----------------------------------------------------------------------------
(***************************************************************************)
(* The daemon when everything goes wrong.  Nothing is assumed of links,    *)
(* sends, signals, files or prefixes here.                                 *)
(***************************************************************************)

\* What processNS answers, the promise entitles to that answer, even if the
\* prefix has a bit set after its length.
LEMMA AnswersPromised ==
    ASSUME NEW c \in Config, NEW i \in Idx, NEW m \in Message
    PROVE  /\ Answers(c, i, m) => FaultTolerant!Entitled(c, i, m)
           /\ Advert(c, i, m) = FaultTolerant!Reply(c, i, m)
<1>1. m.target \in Address
  BY DispatcherAssumption DEF Message
<1>2. /\ c.prefix[i] \in Address /\ c.prefixLen[i] \in Int
      /\ c.listType \in {"none", "black", "white"} /\ c.naLinkOptFlag \in BOOLEAN
  BY DEF Config
<1>3. addr6match(m.target, c.prefix[i], c.prefixLen[i])
        => FaultTolerant!SameBits(m.target, c.prefix[i], c.prefixLen[i])
  <2>1. addr6match(m.target, c.prefix[i], c.prefixLen[i])
          => SameBits(m.target, c.prefix[i], c.prefixLen[i])
    BY <1>1, <1>2, MatchImpliesSameBits
  <2> QED BY <2>1 DEF SameBits, FaultTolerant!SameBits, Bits, FaultTolerant!Bits, Bit,
                  FaultTolerant!Bit
<1>4. /\ IsUnspecified(m.src) <=> FaultTolerant!IsUnspecified(m.src)
      /\ IsMulticast(m.dst) <=> FaultTolerant!IsMulticast(m.dst)
  BY DEF IsUnspecified, FaultTolerant!IsUnspecified, IsMulticast, FaultTolerant!IsMulticast
<1>5. ListPermits(c, m.target)
        <=> /\ c.listType = "black" => ~ FaultTolerant!Listed(c, m.target)
            /\ c.listType = "white" => FaultTolerant!Listed(c, m.target)
  BY <1>2 DEF ListPermits, FaultTolerant!Listed
<1>6. Answers(c, i, m) => FaultTolerant!Entitled(c, i, m)
  BY <1>3, <1>4, <1>5, Zenon DEF Answers, FaultTolerant!Entitled
<1>7. (IsMulticast(m.dst) \/ c.naLinkOptFlag)
        = IF FaultTolerant!IsMulticast(m.dst) THEN TRUE ELSE c.naLinkOptFlag
  BY <1>2, <1>4 DEF IsMulticast
<1>8. Advert(c, i, m) = FaultTolerant!Reply(c, i, m)
  BY <1>7 DEF Advert, FaultTolerant!Reply
<1> QED BY <1>6, <1>8

\* A file read as a whole is a reconfiguration.
LEMMA RereadReconfigures ==
    ASSUME NEW f \in File, cfg' = Reread(f)
    PROVE  /\ \A k \in {"prefix", "prefixLen"} : cfg'[k] = f.conf[k]
           /\ \A k \in {"lRoot", "exprs"} : cfg'[k] = cfg[k] \cup f.conf[k]
           /\ \A k \in FaultTolerant!Settings :
                cfg'[k] = IF k \in f.sets THEN f.conf[k] ELSE cfg[k]
<1>1. f.conf \in Config
  BY DEF File
<1> DEFINE Given(k, new, old) == IF k \in f.sets THEN new ELSE old
<1>2. /\ cfg'.prefix = f.conf.prefix /\ cfg'.prefixLen = f.conf.prefixLen
      /\ cfg'.lRoot = f.conf.lRoot \cup cfg.lRoot /\ cfg'.exprs = f.conf.exprs \cup cfg.exprs
      /\ cfg'.listType = Given("listType", f.conf.listType, cfg.listType)
      /\ cfg'.naRouter = Given("naRouter", f.conf.naRouter, cfg.naRouter)
      /\ cfg'.naLinkOptFlag = Given("naLinkOptFlag", f.conf.naLinkOptFlag, cfg.naLinkOptFlag)
      /\ cfg'.nsIgnoreLocal = Given("nsIgnoreLocal", f.conf.nsIgnoreLocal, cfg.nsIgnoreLocal)
  BY <1>1 DEF Reread, Config
<1> QED BY <1>2 DEF FaultTolerant!Settings

\* m is queued on descriptor f.
Holds(f, m) == \E n \in DOMAIN sock[f].rxq : sock[f].rxq[n] = m

LEMMA NotYetReadIsHeld ==
    /\ \A m \in Frames : m \in NotYetRead <=> \E f \in Fd : Holds(f, m)
    /\ NotYetRead \subseteq Frames
<1>1. ASSUME NEW m \in Frames PROVE m \in NotYetRead <=> \E f \in Fd : Holds(f, m)
  <2>1. \A f \in Fd : Holds(f, m) => sock[f].rxq # <<>>
    BY DEF Holds
  <2> QED BY <2>1 DEF NotYetRead, Holds
<1> QED BY <1>1 DEF NotYetRead

\* What a step may do to a descriptor without queueing anything on it.
Drains(d, e) == e.rxq = <<>> \/ e.rxq = d.rxq \/ (d.rxq # <<>> /\ e.rxq = Tail(d.rxq))

LEMMA DrainsLose ==
    ASSUME TypeOK, \A f \in Fd : Drains(sock[f], sock'[f])
    PROVE  NotYetRead' \subseteq NotYetRead
<1>1. ASSUME NEW m \in Frames, NEW f \in Fd, Holds(f, m)' PROVE Holds(f, m)
  <2>1. PICK n \in DOMAIN sock'[f].rxq : sock'[f].rxq[n] = m
    BY <1>1 DEF Holds
  <2>2. sock[f].rxq \in Seq(Frames \cup {IcmpMsg})
    BY DEF TypeOK, Descriptor
  <2>3. CASE sock'[f].rxq = <<>>
    BY <2>1, <2>3
  <2>4. CASE sock'[f].rxq = sock[f].rxq
    BY <2>1, <2>4 DEF Holds
  <2>5. CASE sock[f].rxq # <<>> /\ sock'[f].rxq = Tail(sock[f].rxq)
    <3>1. \A q \in Seq(Frames \cup {IcmpMsg}) : q # <<>> =>
            \A j \in DOMAIN Tail(q) : j + 1 \in DOMAIN q /\ Tail(q)[j] = q[j + 1]
      BY SMT
    <3>2. n + 1 \in DOMAIN sock[f].rxq /\ sock[f].rxq[n + 1] = m
      BY <2>1, <2>2, <2>5, <3>1
    <3> QED BY <3>2 DEF Holds
  <2> QED BY <2>3, <2>4, <2>5 DEF Drains
<1>2. \A m \in Frames : m \in NotYetRead' <=> \E f \in Fd : Holds(f, m)'
  <2>1. \A m \in Frames, f \in Fd : Holds(f, m)' => sock'[f].rxq # <<>>
    BY DEF Holds
  <2> QED BY <2>1 DEF NotYetRead, Holds
<1>3. NotYetRead' \subseteq Frames
  BY DEF NotYetRead
<1> QED BY <1>1, <1>2, <1>3, NotYetReadIsHeld

\* A descriptor is replaced.
LEMMA WriteLoses ==
    ASSUME TypeOK, NEW f \in Fd, NEW d, sock' = [sock EXCEPT ![f] = d], Drains(sock[f], d)
    PROVE  NotYetRead' \subseteq NotYetRead
<1>1. \A g \in Fd : Drains(sock[g], sock'[g])
  BY DEF TypeOK, Drains
<1> QED BY <1>1, DrainsLose

LEMMA SameLoses == ASSUME TypeOK, sock' = sock PROVE NotYetRead' \subseteq NotYetRead
<1>1. \A g \in Fd : Drains(sock[g], sock'[g])
  BY DEF Drains
<1> QED BY <1>1, DrainsLose

LEMMA ExitLoses == ASSUME TypeOK, NEW how, Exit(how) PROVE NotYetRead' \subseteq NotYetRead
<1>1. \A g \in Fd : Drains(sock[g], sock'[g])
  BY DEF Drains, Exit, Closed
<1> QED BY <1>1, DrainsLose

\* The process ends: the recovery gives up, or one of the others.
GivesUp == OpenFails \/ SetAllmultiFails \/ Killed \/ ReloadFails \/ Terminate
             \/ (Recovered /\ pc' # "scan")

LEMMA GivesUpStops == ASSUME Inv, GivesUp PROVE FaultTolerant!Stop
<1> USE DEF bufVars, configVars
<1>1. ~ Ended /\ \E how : Exit(how) /\ how \in {"dead", "failed"}
  BY DEF GivesUp, OpenFails, SetAllmultiFails, Killed, ReloadFails, Terminate, Recovered, Fail,
         DropDead, Ended, Handling
<1>2. Ended'
  BY <1>1 DEF Exit, Ended
<1>3. UNCHANGED <<msgdata, cfg, tRoot, out>>
  BY DEF GivesUp, OpenFails, SetAllmultiFails, Killed, ReloadFails, Terminate, Recovered
<1>4. NotYetRead' \subseteq NotYetRead
  BY <1>1, ExitLoses DEF Inv
<1> QED BY <1>1, <1>2, <1>3, <1>4 DEF FaultTolerant!Stop

\* The steps that open, prepare, close or look at sockets, and those that do
\* none of it: frames may be lost.
Prepares == OpenSocket \/ BindSocket \/ AttachFilter \/ OpenIcmpSocket \/ ScanErr \/ RxError
              \/ (Recovered /\ pc' = "scan")
Moves == SetAllmulti \/ Daemonize \/ EnterDispatcher \/ PollReturns \/ PollIdle \/ ScanIn
           \/ ScanDone \/ HarmlessSignal

LEMMA PreparesLose == ASSUME Inv, Prepares PROVE NotYetRead' \subseteq NotYetRead
<1>0. TypeOK /\ newSock \in Fd /\ sock \in [Fd -> Descriptor]
  BY DEF Inv, TypeOK
<1>1. CASE OpenSocket
  <2>1. PICK f \in Fd : sock' = [sock EXCEPT ![f] = NewPacketSocket]
    BY <1>1 DEF OpenSocket
  <2>2. Drains(sock[f], NewPacketSocket)
    BY DEF Drains, NewPacketSocket, Closed
  <2> QED BY <1>0, <2>1, <2>2, WriteLoses
<1>2. CASE BindSocket
  <2> DEFINE d == [sock[newSock] EXCEPT !.on = fdIdx, !.err = (link[fdIdx] = "down")]
  <2>1. sock' = [sock EXCEPT ![newSock] = d]
    BY <1>0, <1>2 DEF BindSocket, Descriptor
  <2>2. d.rxq = sock[newSock].rxq
    BY <1>0 DEF Descriptor
  <2>3. Drains(sock[newSock], d)
    BY <2>2 DEF Drains
  <2> HIDE DEF d
  <2> QED BY <1>0, <2>1, <2>3, WriteLoses
<1>3. CASE AttachFilter \/ (Recovered /\ pc' = "scan")
  <2> DEFINE d == [sock[newSock] EXCEPT !.filtered = TRUE]
  <2>1. sock' = [sock EXCEPT ![newSock].filtered = TRUE]
    BY <1>3 DEF AttachFilter, Recovered, DropDead, Exit
  <2>2. sock' = [sock EXCEPT ![newSock] = d]
    BY <1>0, <2>1
  <2>3. d.rxq = sock[newSock].rxq
    BY <1>0 DEF Descriptor
  <2>4. Drains(sock[newSock], d)
    BY <2>3 DEF Drains
  <2> HIDE DEF d
  <2> QED BY <1>0, <2>2, <2>4, WriteLoses
<1>4. CASE OpenIcmpSocket
  <2>1. PICK f \in Fd : sock' = [sock EXCEPT ![f] = NewIcmpSocket]
    BY <1>4 DEF OpenIcmpSocket
  <2>2. Drains(sock[f], NewIcmpSocket)
    BY DEF Drains, NewIcmpSocket, Closed
  <2> QED BY <1>0, <2>1, <2>2, WriteLoses
<1>5. CASE ScanErr
  <2>1. PICK s \in Slot : /\ NextSlot(s) /\ "in" \notin revents[s] /\ pc = "scan"
                          /\ sock' = [sock EXCEPT ![FailedSocket(s)] = Closed]
    BY <1>5 DEF ScanErr
  <2>2. s \in Idx
    BY <2>1, ErrorSlots DEF NextSlot
  <2>3. FailedSocket(s) \in Fd
    BY <1>0, <2>2 DEF FailedSocket, TypeOK
  <2>4. Drains(sock[FailedSocket(s)], Closed)
    BY DEF Drains, Closed
  <2> QED BY <1>0, <2>1, <2>3, <2>4, WriteLoses
<1>6. CASE RxError
  <2> DEFINE f == pktSock[fdIdx]
             d == [sock[f] EXCEPT !.err = FALSE]
  <2>1. f \in Fd
    BY <1>6, ReadsPackets DEF RxError, Goto
  <2>2. sock' = [sock EXCEPT ![f] = d]
    BY <1>0, <1>6, <2>1 DEF RxError, ErrorTaken
  <2>3. d.rxq = sock[f].rxq
    BY <1>0, <2>1 DEF Descriptor
  <2>4. Drains(sock[f], d)
    BY <2>3 DEF Drains
  <2> HIDE DEF d, f
  <2> QED BY <1>0, <2>1, <2>2, <2>4, WriteLoses
<1> QED BY <1>1, <1>2, <1>3, <1>4, <1>5, <1>6 DEF Prepares

LEMMA MovesLose == ASSUME Inv, Moves PROVE NotYetRead' \subseteq NotYetRead
<1>1. sock' = sock
  BY DEF Moves, SetAllmulti, Daemonize, EnterDispatcher, PollReturns, PollIdle, ScanIn, ScanDone,
         HarmlessSignal, kernelVars
<1> QED BY <1>1, SameLoses DEF Inv

LEMMA RestLoses == ASSUME Inv, Prepares \/ Moves PROVE FaultTolerant!Lose
<1> USE DEF bufVars, configVars
<1>1. NotYetRead' \subseteq NotYetRead
  BY PreparesLose, MovesLose
<1>2. UNCHANGED <<msgdata, cfg, tRoot, out>>
  BY DEF Prepares, OpenSocket, BindSocket, AttachFilter, OpenIcmpSocket, ScanErr, RxError,
         Recovered, Moves, SetAllmulti, Daemonize, EnterDispatcher, PollReturns, PollIdle, ScanIn,
         ScanDone, HarmlessSignal
<1>3. ~ Ended /\ ~ Ended'
  <2>1. Prepares => ~ Ended /\ ~ Ended'
    BY DEF Prepares, OpenSocket, BindSocket, AttachFilter, OpenIcmpSocket, ScanErr, RxError,
           Recovered, Goto, Ended
  <2>2. HarmlessSignal => ~ Ended /\ ~ Ended'
    BY DEF HarmlessSignal, Interrupt, Ended
  <2>3. PollReturns \/ PollIdle \/ ScanIn \/ ScanDone => ~ Ended /\ ~ Ended'
    BY DEF PollReturns, PollIdle, ScanIn, ScanDone, Reader, Goto, Ended
  <2>4. SetAllmulti \/ Daemonize \/ EnterDispatcher => ~ Ended /\ ~ Ended'
    BY DEF SetAllmulti, Daemonize, EnterDispatcher, Goto, Ended
  <2> QED BY <2>1, <2>2, <2>3, <2>4 DEF Moves
<1> QED BY <1>1, <1>2, <1>3 DEF FaultTolerant!Lose

\* get_rx takes a frame that was waiting on some socket.
LEMMA FrameIsRead ==
    ASSUME Inv, RxFrame
    PROVE  \E m \in Frames : FaultTolerant!Read(m)
<1> DEFINE f == pktSock[fdIdx]
           d == [sock[f] EXCEPT !.rxq = Tail(@)]
<1>0. TypeOK /\ sock \in [Fd -> Descriptor]
  BY DEF Inv, TypeOK
<1>1. pc = "rx" /\ f \in Fd /\ sock[f].rxq \in Seq(Frames)
  BY ReadsPackets DEF RxFrame, Goto
<1>2. sock[f].rxq # <<>> /\ msgdata' = Head(sock[f].rxq) /\ sock' = [sock EXCEPT ![f] = d]
  BY <1>0, <1>1 DEF RxFrame, Readable, Dequeued
<1>3. d.rxq = Tail(sock[f].rxq)
  BY <1>0, <1>1 DEF Descriptor
<1>4. Drains(sock[f], d)
  BY <1>2, <1>3 DEF Drains
<1>5. NotYetRead' \subseteq NotYetRead
  <2> HIDE DEF d, f
  <2> QED BY <1>0, <1>1, <1>2, <1>4, WriteLoses
<1>6. msgdata' \in Frames /\ Holds(f, msgdata')
  <2>1. \A q \in Seq(Frames) : q # <<>> => /\ Head(q) \in Frames /\ 1 \in DOMAIN q
                                           /\ q[1] = Head(q)
    BY SMT
  <2> QED BY <1>1, <1>2, <2>1 DEF Holds
<1>7. msgdata' \in NotYetRead
  BY <1>1, <1>6, NotYetReadIsHeld
<1>8. ~ Ended /\ ~ Ended' /\ UNCHANGED <<cfg, tRoot, out>>
  BY DEF RxFrame, Goto, Ended, configVars
<1> QED BY <1>5, <1>6, <1>7, <1>8 DEF FaultTolerant!Read

\* An ICMPv6 message lands on the buffer, or the read fails and leaves it.
LEMMA MessageOverwrites ==
    ASSUME Inv, RxIcmp
    PROVE  FaultTolerant!Overwrite \/ FaultTolerant!Lose
<1> DEFINE f == icmpSock[fdIdx \div 2]
           d == [sock[f] EXCEPT !.rxq = Tail(@)]
           e == [sock[f] EXCEPT !.err = FALSE]
<1>0. TypeOK /\ sock \in [Fd -> Descriptor] /\ icmpSock \in [Idx -> Fd]
  BY DEF Inv, TypeOK
<1>1. f \in Fd
  <2>1. fdIdx \in Slot \ Idx /\ pc = "rxicmp"
    BY DEF RxIcmp, Goto, Inv, TypeOK
  <2>2. fdIdx \div 2 \in Idx
    BY <2>1, KernelAssumption, SMT DEF Slot, Idx
  <2> QED BY <1>0, <2>2
<1>2. \/ sock' = [sock EXCEPT ![f] = d] /\ sock[f].rxq # <<>>
      \/ sock' = [sock EXCEPT ![f] = e]
  BY <1>0, <1>1 DEF RxIcmp, Readable, Dequeued, ErrorTaken
<1>3. d.rxq = Tail(sock[f].rxq) /\ e.rxq = sock[f].rxq
  BY <1>0, <1>1 DEF Descriptor
<1>4. (sock[f].rxq # <<>> => Drains(sock[f], d)) /\ Drains(sock[f], e)
  BY <1>3 DEF Drains
<1>5. NotYetRead' \subseteq NotYetRead
  <2> HIDE DEF d, e, f
  <2> QED BY <1>0, <1>1, <1>2, <1>4, WriteLoses
<1>6. msgdata' = msgdata \/ msgdata' \in Noise
  BY DEF RxIcmp
<1>7. ~ Ended /\ ~ Ended' /\ UNCHANGED <<cfg, tRoot, out>>
  BY DEF RxIcmp, Goto, Ended, configVars
<1> QED BY <1>5, <1>6, <1>7 DEF FaultTolerant!Overwrite, FaultTolerant!Lose

\* processNS answers and collects for whatever is in the buffer, if the
\* configuration in force entitles it.
LEMMA ProcessAnswers ==
    ASSUME Inv, ProcessNS
    PROVE  FaultTolerant!Answer(fdIdx) \/ UNCHANGED FaultTolerant!vars
<1>1. /\ pc = "ns" /\ pc' = "scan" /\ sock' = sock /\ msgdata' = msgdata /\ cfg' = cfg
      /\ fdIdx \in Idx /\ msgdata \in Message /\ cfg \in Config
  BY DEF ProcessNS, Goto, kernelVars, bufVars, Inv, TypeOK, IfacePcs
<1>2. NotYetRead' = NotYetRead
  BY <1>1 DEF NotYetRead
<1>3. ~ Ended /\ ~ Ended'
  BY <1>1 DEF Ended
<1>4. CASE Answers(cfg, fdIdx, msgdata)
  <2>1. /\ FaultTolerant!Entitled(cfg, fdIdx, msgdata)
        /\ Advert(cfg, fdIdx, msgdata) = FaultTolerant!Reply(cfg, fdIdx, msgdata)
    BY <1>1, <1>4, AnswersPromised
  <2>2. out' \in {out, [bit |-> 1 - out.bit, na |-> Advert(cfg, fdIdx, msgdata)]}
    BY <1>4 DEF ProcessNS, SendAdvert
  <2>3. tRoot' \in {tRoot, tRoot \cup {msgdata.target}}
    BY <1>4 DEF ProcessNS, StoreTarget
  <2> QED BY <1>1, <1>2, <1>3, <2>1, <2>2, <2>3 DEF FaultTolerant!Answer
<1>5. CASE ~ Answers(cfg, fdIdx, msgdata)
  BY <1>1, <1>2, <1>3, <1>5 DEF ProcessNS, FaultTolerant!vars
<1> QED BY <1>4, <1>5

LEMMA ReloadReconfigures ==
    ASSUME Inv, Reload
    PROVE  \E f \in Files : FaultTolerant!Reconfigure(f)
<1>1. PICK f \in Files : /\ cfg' = Reread(f)
                         /\ tRoot' \in {tRoot, {}}
  BY DEF Reload, ZapTargets
<1>2. f \in File
  BY DispatcherAssumption
<1>3. ~ Ended /\ ~ Ended'
  BY DEF Reload, Handling, Waiting, Interrupt, Ended
<1>4. UNCHANGED <<msgdata, out>>
  BY DEF Reload
<1>5. NotYetRead' \subseteq NotYetRead
  <2>1. PICK g \in Fd : sock' = [sock EXCEPT ![g] = ConfigStream]
    BY DEF Reload
  <2>2. Drains(sock[g], ConfigStream)
    BY DEF Drains, ConfigStream, Closed
  <2> QED BY <2>1, <2>2, WriteLoses DEF Inv
<1>6. FaultTolerant!Reconfigure(f)
  BY <1>1, <1>2, <1>3, <1>4, <1>5, RereadReconfigures DEF FaultTolerant!Reconfigure
<1> QED BY <1>1, <1>6

\* Frames arrive; what else happens outside moves none.
LEMMA OutsideArrives ==
    ASSUME Inv, Outside
    PROVE  (\E m \in Frames : FaultTolerant!Arrive(m)) \/ FaultTolerant!Lose
<1>0. TypeOK /\ sock \in [Fd -> Descriptor] /\ IcmpMsg \notin Frames
  BY KernelAssumption DEF Inv, TypeOK
<1>1. UNCHANGED <<msgdata, cfg, tRoot, out>> /\ (Ended' <=> Ended)
  BY DEF Outside, bufVars, configVars, Ended
<1> DEFINE Has(q, x) == \E n \in DOMAIN q : q[n] = x
<1>2. ASSUME NEW m \in Frames \cup {IcmpMsg}, NEW q \in Seq(Frames \cup {IcmpMsg}), NEW x
      PROVE  Has(Append(q, m), x) <=> Has(q, x) \/ x = m
  <2>1. /\ DOMAIN Append(q, m) = 1 .. Len(q) + 1 /\ DOMAIN q = 1 .. Len(q) /\ Len(q) \in Nat
        /\ \A n \in 1 .. Len(q) : Append(q, m)[n] = q[n]
        /\ Append(q, m)[Len(q) + 1] = m
    BY <1>2, SMT
  <2>2. \A n : n \in 1 .. Len(q) + 1 <=> n \in 1 .. Len(q) \/ n = Len(q) + 1
    BY <2>1, SMT
  <2> QED BY <2>1, <2>2
<1>10. \A f \in Fd : \A x : /\ Holds(f, x) <=> Has(sock[f].rxq, x)
                            /\ Holds(f, x)' <=> Has(sock'[f].rxq, x)
  BY DEF Holds
<1> HIDE DEF Has
<1>3. \A m \in Frames : m \in NotYetRead' <=> \E f \in Fd : Holds(f, m)'
  <2>1. \A m \in Frames, f \in Fd : Holds(f, m)' => sock'[f].rxq # <<>>
    BY DEF Holds
  <2> QED BY <2>1 DEF NotYetRead, Holds
<1>4. NotYetRead' \subseteq Frames
  BY DEF NotYetRead
<1>5. CASE \E m \in Frames : FrameArrives(m)
  <2>1. PICK m \in Frames : FrameArrives(m)
    BY <1>5
  <2>2. ASSUME NEW f \in Fd
        PROVE  \/ sock'[f] = sock[f]
               \/ sock'[f].rxq = Append(sock[f].rxq, m)
    BY <1>0, <2>1, <2>2 DEF FrameArrives, Enqueue, Descriptor
  <2>3. ASSUME NEW f \in Fd, NEW x \in Frames
        PROVE  /\ Holds(f, x) => Holds(f, x)'
               /\ Holds(f, x)' => Holds(f, x) \/ x = m
    <3>1. sock[f].rxq \in Seq(Frames \cup {IcmpMsg})
      BY <1>0 DEF Descriptor
    <3>2. Has(Append(sock[f].rxq, m), x) <=> Has(sock[f].rxq, x) \/ x = m
      BY <1>2, <3>1
    <3>3. (Holds(f, x) <=> Has(sock[f].rxq, x)) /\ (Holds(f, x)' <=> Has(sock'[f].rxq, x))
      BY DEF Holds, Has
    <3>4. CASE sock'[f] = sock[f]
      BY <3>4, <3>3, Zenon
    <3>5. CASE sock'[f].rxq = Append(sock[f].rxq, m)
      BY <3>2, <3>5, <3>3, Zenon
    <3> QED BY <2>2, <3>4, <3>5
  <2>4. NotYetRead \subseteq NotYetRead' /\ NotYetRead' \subseteq NotYetRead \cup {m}
    BY <1>3, <1>4, <2>3, NotYetReadIsHeld
  <2>5. CASE m \in NotYetRead'
    <3>1. NotYetRead' = NotYetRead \cup {m}
      BY <2>4, <2>5
    <3> QED BY <1>1, <3>1 DEF FaultTolerant!Arrive
  <2>6. CASE m \notin NotYetRead'
    <3>1. NotYetRead' \subseteq NotYetRead
      BY <2>4, <2>6
    <3> QED BY <1>1, <3>1 DEF FaultTolerant!Lose
  <2> QED BY <2>5, <2>6
<1>6. ASSUME \A f \in Fd : sock'[f].rxq = sock[f].rxq PROVE FaultTolerant!Lose
  <2>1. NotYetRead' \subseteq NotYetRead
    BY <1>0, <1>6, DrainsLose DEF Drains
  <2> QED BY <1>1, <2>1 DEF FaultTolerant!Lose
<1>7. CASE IcmpArrives
  <2>1. ASSUME NEW f \in Fd
        PROVE  \/ sock'[f] = sock[f]
               \/ sock'[f].rxq = Append(sock[f].rxq, IcmpMsg)
    BY <1>0, <1>7 DEF IcmpArrives, Enqueue, Descriptor
  <2>2. ASSUME NEW f \in Fd, NEW x \in Frames PROVE Holds(f, x)' => Holds(f, x)
    <3>1. sock[f].rxq \in Seq(Frames \cup {IcmpMsg}) /\ x # IcmpMsg
      BY <1>0 DEF Descriptor
    <3>2. Has(Append(sock[f].rxq, IcmpMsg), x) <=> Has(sock[f].rxq, x)
      BY <1>2, <3>1
    <3>3. CASE sock'[f] = sock[f]
      BY <1>10, <3>3
    <3>4. CASE sock'[f].rxq = Append(sock[f].rxq, IcmpMsg)
      BY <1>10, <3>2, <3>4
    <3> QED BY <2>1, <3>3, <3>4
  <2>3. NotYetRead' \subseteq NotYetRead
    BY <1>3, <1>4, <2>2, NotYetReadIsHeld
  <2> QED BY <1>1, <2>3 DEF FaultTolerant!Lose
<1>8. CASE \E i \in Idx : LinkDown(i) \/ LinkGone(i)
  <2>1. PICK i \in Idx : \E how : LoseLink(i, how)
    BY <1>8 DEF LinkDown, LinkGone
  <2>2. ASSUME NEW f \in Fd PROVE sock'[f].rxq = sock[f].rxq
    BY <1>0, <2>1, <2>2 DEF LoseLink, Descriptor
  <2> QED BY <1>6, <2>2
<1>9. CASE \E i \in Idx : LinkUp(i)
  BY <1>6, <1>9 DEF LinkUp
<1> QED BY <1>5, <1>7, <1>8, <1>9 DEF Outside, Environment

LEMMA StepIsTolerated ==
    ASSUME Inv, [Next]_vars
    PROVE  [FaultTolerant!Next]_FaultTolerant!vars
<1>1. CASE GivesUp
  BY <1>1, GivesUpStops DEF FaultTolerant!Next
<1>2. CASE Prepares \/ Moves
  BY <1>2, RestLoses DEF FaultTolerant!Next
<1>3. CASE RxFrame
  BY <1>3, FrameIsRead DEF FaultTolerant!Next
<1>4. CASE RxIcmp
  BY <1>4, MessageOverwrites DEF FaultTolerant!Next
<1>5. CASE ProcessNS
  <2>1. fdIdx \in Idx
    BY <1>5 DEF ProcessNS, Goto, Inv, TypeOK, IfacePcs
  <2> QED BY <1>5, <2>1, ProcessAnswers DEF FaultTolerant!Next
<1>6. CASE Reload
  BY <1>6, ReloadReconfigures DEF FaultTolerant!Next
<1>7. CASE Outside
  BY <1>7, OutsideArrives DEF FaultTolerant!Next
<1>8. CASE UNCHANGED vars
  <2>1. UNCHANGED <<sock, pc, msgdata, cfg, tRoot, out>>
    BY <1>8 DEF vars, kernelVars, bufVars, configVars
  <2> QED BY <2>1 DEF FaultTolerant!vars, NotYetRead, Ended
<1> QED BY <1>1, <1>2, <1>3, <1>4, <1>5, <1>6, <1>7, <1>8
      DEF Next, Daemon, Startup, OpenPacketSocket, Serve, Signalled, GivesUp, Prepares, Moves

\* Whatever the links do, whichever sends fail and whenever signals and reloads
\* come, with any files: an advertisement answers the frame read last, under the
\* configuration in force and as it promises; targets are collected likewise;
\* nothing is sent once the process has ended (dispatcher, get_rx, processNS,
\* storeTarget, usersignal: main.c:182-321, icmp6.c, ip6.c:98-279, util.c).
THEOREM FaultyDaemonServes == Spec => IsFaultyProxy
<1>1. Init => FaultTolerant!Init
  <2> SUFFICES ASSUME Init PROVE FaultTolerant!Init
    OBVIOUS
  <2>1. NotYetRead = {}
    <3>1. \A f \in Fd : sock[f].rxq = <<>>
      BY DEF Init, DevNull, Closed
    <3> QED BY <3>1 DEF NotYetRead
  <2>2. ~ Ended
    BY DEF Init, Ended
  <2> QED BY <2>1, <2>2 DEF Init, FaultTolerant!Init
<1>2. Inv /\ [Next]_vars => [FaultTolerant!Next]_FaultTolerant!vars
  BY StepIsTolerated
<1> QED BY <1>1, <1>2, Invariant, PTL DEF Spec, FaultTolerant!Spec, IsFaultyProxy

-----------------------------------------------------------------------------
(***************************************************************************)
(* How far two of the statements that do not hold are from holding.        *)
(***************************************************************************)

\* A frame that is about to be handled has just been received.
JustReceived == pc = "ns" => msglen = 1

LEMMA ReceivedStep ==
    ASSUME Undisturbed, Inv, AgreeInv, QuietInv, JustReceived, [Next]_vars
    PROVE  JustReceived'
<1> USE DEF bufVars
<1>1. CASE Ends
  BY <1>1, EndsOnce DEF Ended, JustReceived
<1>2. CASE Opens
  BY <1>2 DEF Opens, OpenSocket, BindSocket, AttachFilter, OpenIcmpSocket, Goto, JustReceived
<1>3. CASE Reads
  BY <1>3 DEF Reads, RxFrame, RxIcmp, Goto, JustReceived
<1>4. CASE Arrives
  BY <1>4 DEF Arrives, Outside, JustReceived
<1>5. CASE HarmlessSignal
  BY <1>5, Unreached DEF HarmlessSignal, Interrupt, JustReceived
<1>6. CASE Stays /\ ~ HarmlessSignal
  BY <1>6 DEF Stays, SetAllmulti, Daemonize, EnterDispatcher, PollReturns, PollIdle, ScanIn,
              Reader, ScanDone, ProcessNS, Goto, JustReceived
<1>7. CASE UNCHANGED vars
  BY <1>7 DEF vars, JustReceived
<1> QED BY <1>1, <1>2, <1>3, <1>4, <1>5, <1>6, <1>7, StepKinds

\* While no link fails and no SIGUSR1 comes, a frame is answered right after it
\* was received and no stale one is (main.c:228-230): a signal may interrupt
\* get_rx, but get_rx never waits on a packet socket then.
THEOREM AnswersWhatWasRead == ASSUME Undisturbed PROVE Spec => AnswersReceived
<1>1. Init => AgreeInv /\ JustReceived
  BY DEF Init, AgreeInv, AgreeBody, Handling, JustReceived
<1>2. Inv /\ AgreeInv /\ [Next]_vars => AgreeInv'
  <2>1. ASSUME AgreeInv, UNCHANGED vars PROVE AgreeInv'
    BY <2>1 DEF vars, kernelVars, tableVars, pollVars, bufVars, configVars, AgreeInv, AgreeBody,
                Handling, Ended, TablesBuilt, Reopening, PktFd, IcmpFd, TableFilled
  <2> QED BY <2>1, AgreeStep
<1>3. Inv /\ AgreeInv /\ QuietInv /\ [Next]_vars => QuietInv'
  BY QuietStep
<1>4. Inv /\ AgreeInv /\ QuietInv /\ JustReceived /\ [Next]_vars => JustReceived'
  BY ReceivedStep
<1>5. Inv /\ JustReceived /\ [Next]_vars => [out' # out => msglen = 1]_vars
  <2> SUFFICES ASSUME Inv, JustReceived, Next, out' # out PROVE msglen = 1
    BY DEF vars
  <2>1. ProcessNS
    BY DEF Next, Daemon, Startup, OpenPacketSocket, Serve, Signalled, OpenSocket, BindSocket,
           OpenFails, AttachFilter, OpenIcmpSocket, SetAllmulti, SetAllmultiFails, Daemonize,
           EnterDispatcher, PollReturns, PollIdle, ScanIn, ScanErr, ScanDone, RxFrame, RxError,
           RxIcmp, Recovered, Killed, HarmlessSignal, Reload, ReloadFails, Terminate, Outside
  <2> QED BY <2>1 DEF ProcessNS, Goto, JustReceived
<1> QED BY <1>1, <1>2, <1>3, <1>4, <1>5, QuietInit, Invariant, PTL DEF Spec, AnswersReceived

\* poll is given the first N + 1 slots, so of the ICMPv6 ones only the first.
FirstIcmpOnly ==
    /\ \A s \in Slot : s > N => revents[s] = {}
    /\ pc = "rxicmp" => fdIdx = N

LEMMA FirstIcmpStep == ASSUME Inv, FirstIcmpOnly, [Next]_vars PROVE FirstIcmpOnly'
<1> USE KernelAssumption
<1> USE DEF pollVars
<1>1. CASE PollReturns
  BY <1>1, SMT DEF PollReturns, Goto, Polled, FirstIcmpOnly
<1>2. CASE EnterDispatcher \/ ScanDone
  BY <1>2 DEF EnterDispatcher, ScanDone, Goto, FirstIcmpOnly
<1>3. CASE ScanIn
  <2>1. PICK s \in Slot : "in" \in revents[s] /\ fdIdx' = s /\ pc' = Reader(s)
    BY <1>3 DEF ScanIn
  <2>2. ~ (s > N) /\ revents' = revents
    BY <1>3, <2>1 DEF ScanIn, FirstIcmpOnly
  <2>3. pc' = "rxicmp" => ~ (s < N)
    BY <2>1 DEF Reader
  <2>4. pc' = "rxicmp" => s = N
    BY <2>2, <2>3, SMT DEF Slot
  <2> QED BY <2>1, <2>2, <2>4 DEF FirstIcmpOnly
<1>4. CASE Recovered
  <2>1. pc' # "rxicmp"
    BY <1>4 DEF Recovered, DropDead, Exit
  <2>2. revents' = [revents EXCEPT ![fdIdx] = {}] /\ revents \in [Slot -> SUBSET {"in", "err"}]
    BY <1>4 DEF Recovered, Inv, TypeOK
  <2> QED BY <2>1, <2>2 DEF FirstIcmpOnly
<1>5. CASE ~ (PollReturns \/ EnterDispatcher \/ ScanDone \/ ScanIn \/ Recovered)
  <2>1. revents' = revents
    BY <1>5 DEF Next, Daemon, Startup, OpenPacketSocket, Serve, Signalled, OpenSocket, BindSocket,
           OpenFails, AttachFilter, OpenIcmpSocket, SetAllmulti, SetAllmultiFails, Daemonize,
           PollIdle, ScanErr, RxFrame, RxError, RxIcmp, ProcessNS, Killed, HarmlessSignal, Reload,
           ReloadFails, Terminate, Outside, vars
  <2>2. pc' = "rxicmp" => pc = "rxicmp" /\ fdIdx' = fdIdx
    <3>1. CASE Startup \/ OpenPacketSocket
      BY <1>5, <3>1 DEF Startup, OpenPacketSocket, OpenSocket, BindSocket, OpenFails, AttachFilter,
         OpenIcmpSocket, SetAllmulti, SetAllmultiFails, Daemonize, Fail, DropDead, Exit, Goto
    <3>2. CASE Serve
      BY <1>5, <3>2 DEF Serve, PollIdle, ScanErr, RxFrame, RxError, RxIcmp, ProcessNS, Goto
    <3>3. CASE Killed \/ ReloadFails \/ Terminate
      BY <3>3 DEF Killed, ReloadFails, Terminate, Fail, DropDead, Exit
    <3>4. CASE HarmlessSignal \/ Reload
      BY <3>4 DEF HarmlessSignal, Reload, Interrupt
    <3>5. CASE Outside \/ UNCHANGED vars
      BY <3>5 DEF Outside, vars
    <3> QED BY <3>1, <3>2, <3>3, <3>4, <3>5 DEF Next, Daemon, Signalled
  <2> QED BY <2>1, <2>2 DEF FirstIcmpOnly
<1> QED BY <1>1, <1>2, <1>3, <1>4, <1>5

\* With one interface the ICMPv6 slot is read through the socket it polls; with
\* more, never: fdIdx/2 is the right interface in the last slot only, and poll
\* is given no ICMPv6 slot but the first (main.c:214, 237).
THEOREM RightForOneInterface ==
    Spec => [](pc = "rxicmp" /\ TableFilled => (ReadsPolledSocket <=> N = 1))
<1>1. Init => FirstIcmpOnly
  BY DEF Init, FirstIcmpOnly
<1>2. Inv /\ FirstIcmpOnly /\ [Next]_vars => FirstIcmpOnly'
  BY FirstIcmpStep
<1>3. Inv /\ FirstIcmpOnly /\ SocketsAgree
        => (pc = "rxicmp" /\ TableFilled => (ReadsPolledSocket <=> N = 1))
  <2> SUFFICES ASSUME Inv, FirstIcmpOnly, SocketsAgree, pc = "rxicmp", TableFilled
               PROVE  fds[N] = icmpSock[N \div 2] <=> N = 1
    BY DEF FirstIcmpOnly, ReadsPolledSocket
  <2>0. N \in Nat \ {0} /\ 0 \in Idx /\ N \div 2 \in Idx
    BY KernelAssumption, SMT DEF Idx
  <2>1. Handling
    BY PastStartup DEF Starting, Ended
  <2>2. \A i \in Idx : fds[N + i] = icmpSock[i]
    BY <2>1 DEF SocketsAgree
  <2>3. \A s, t \in Slot : fds[s] = fds[t] => s = t
    BY <2>1 DEF SocketsAgree
  <2>4. N + 0 = N /\ N \in Slot /\ N + N \div 2 \in Slot
    BY <2>0, SMT DEF Slot, Idx
  <2>5. fds[N] = icmpSock[N \div 2] <=> N = N + N \div 2
    BY <2>0, <2>2, <2>3, <2>4
  <2>6. N = N + N \div 2 <=> N = 1
    BY <2>0, SMT
  <2> QED BY <2>5, <2>6
<1> QED BY <1>1, <1>2, <1>3, Invariant, TablesAgree, PTL DEF Spec
=============================================================================
