-------------------------- MODULE DispatcherProofs -------------------------
(***************************************************************************)
(* The daemon's invariants, for every number of interfaces, every          *)
(* configuration, and every behaviour of links, traffic and signals.       *)
(***************************************************************************)
EXTENDS Dispatcher, FiniteSetTheorems, TLAPS

(* What the kernel's numbering makes of startup: interface i gets the      *)
(* descriptors 2i+1 and 2i+2.                                              *)
PktFd(i)  == 2 * i + 1
IcmpFd(i) == 2 * i + 2

\* Packet sockets queue frames only, and only they have errors.
QueueOK(d) == /\ d.kind # "icmp" => d.rxq \in Seq(Frames)
              /\ d.kind # "pkt" => ~ d.err
QueueInv == \A f \in Fd : QueueOK(sock[f])

-----------------------------------------------------------------------------
(* Startup: the sockets opened so far, in order, and nothing else.         *)

PktDone(i)  == pc \in {"allmulti", "daemon"} \/ i < fdIdx \/ (pc = "icmp" /\ i = fdIdx)
IcmpDone(i) == pc \in {"allmulti", "daemon"} \/ i < fdIdx
Opening(i)  == pc \in {"bind", "filter"} /\ i = fdIdx

PktStart(i) ==
    IF PktDone(i)
      THEN /\ pktSock[i] = PktFd(i) /\ sock[PktFd(i)].kind = "pkt"
           /\ sock[PktFd(i)].on = i /\ sock[PktFd(i)].filtered
      ELSE sock[PktFd(i)].kind = IF Opening(i) THEN "pkt" ELSE "free"

IcmpStart(i) ==
    IF IcmpDone(i) THEN icmpSock[i] = IcmpFd(i) /\ sock[IcmpFd(i)].kind = "icmp"
                   ELSE sock[IcmpFd(i)].kind = "free"

StartInv ==
    phase = "init" /\ ~ Ended =>
      /\ pc \in Starting
      /\ sock[0].kind = "null"
      /\ \A i \in Idx : PktStart(i) /\ IcmpStart(i)
      /\ \A f \in Fd : f > 2 * N => sock[f].kind = "free"
      /\ \A s \in Slot : fds[s] = -1
      /\ pc \in {"bind", "filter"} => newSock = PktFd(fdIdx)
      /\ pc = "filter" => sock[newSock].on = fdIdx

-----------------------------------------------------------------------------
(* The poll loop, reloads included.  A reload leaves zeros in interfaces[], *)
(* so that a recovery that follows closes descriptor 0, and it takes the   *)
(* lowest number for its stream, which may be the one just closed.  A      *)
(* reload just before the array is filled leaves it full of zeros.         *)

TablesBuilt == \A i \in Idx : pktSock[i] = PktFd(i) /\ icmpSock[i] = IcmpFd(i)
TablesZero  == \A i \in Idx : pktSock[i] = 0 /\ icmpSock[i] = 0

ArrayOfSockets ==
    \A i \in Idx : fds[i] \in Fd /\ fds[N + i] = IcmpFd(i) /\ "err" \notin revents[N + i]
ArrayOfZeros ==
    /\ TablesZero /\ sock[0].kind = "null" /\ pc \notin OpenPcs
    /\ \A s \in Slot : fds[s] = 0 /\ "err" \notin revents[s]

IcmpOpen == \A i \in Idx : sock[IcmpFd(i)].kind = "icmp" /\ icmpSock[i] \in {0, IcmpFd(i)}

\* The descriptors that stand for a packet socket somewhere, and what they may be.
Named(f)  == f = 0 \/ \E i \in Idx : f = pktSock[i] \/ f = fds[i]
Serves(f) == sock[f].kind \in {"null", "file", "pkt"}

\* No number is free below one in use.  While a socket is being reopened that
\* is so but for the number c that was closed, which nothing free is below.
Tight ==
    /\ \A f, g \in Fd : f < g /\ sock[f].kind = "free" => sock[g].kind = "free"
    /\ \A f \in Fd : Named(f) => Serves(f)
LooseAt(c) ==
    /\ sock[c].kind # "icmp"
    /\ \A f \in Fd : f < c => sock[f].kind # "free"
    /\ \A f, g \in Fd : f # c /\ f < g /\ sock[f].kind = "free" => sock[g].kind = "free"
    /\ \A f \in Fd : Named(f) => f = c \/ Serves(f)
Loose == \E c \in Fd : LooseAt(c)

RunInv ==
    Handling =>
      /\ pc \notin {"icmp", "allmulti", "daemon"}
      /\ IcmpOpen
      /\ IF pc = "socket" THEN Loose ELSE Tight
      /\ pc \in {"bind", "filter"} => sock[newSock].kind = "pkt"
      /\ IF pc = "enter" THEN (TablesBuilt \/ TablesZero) /\ sock[0].kind = "null"
                         ELSE ArrayOfSockets \/ ArrayOfZeros

Inv == TypeOK /\ QueueInv /\ StartInv /\ RunInv

\* Before the first reload no table is zeroed, and the number closed is the
\* only free one below those never used.
AgreeBody ==
    /\ TablesBuilt /\ sock[0].kind = "null"
    /\ pc # "enter" => \A i \in Idx : fds[i] = PktFd(i) /\ fds[N + i] = IcmpFd(i)
    /\ \A f \in Fd :
         sock[f].kind = "free" <=> f > 2 * N \/ (pc = "socket" /\ f = PktFd(fdIdx))
    /\ \A i \in Idx : Reopening(i) \/ (/\ sock[PktFd(i)].kind = "pkt" /\ sock[PktFd(i)].on = i
                                       /\ sock[PktFd(i)].filtered)
    /\ pc \in {"bind", "filter"} => newSock = PktFd(fdIdx)
    /\ pc = "filter" => sock[newSock].on = fdIdx
AgreeInv == Handling /\ TableFilled => AgreeBody

-----------------------------------------------------------------------------
(* Descriptors.                                                            *)

\* Every number is the null device's, one of the two of an interface, or above.
LEMMA FdCases ==
    /\ \A f \in Fd : f = 0 \/ f > 2 * N \/ \E i \in Idx : f = PktFd(i) \/ f = IcmpFd(i)
    /\ 0 \in Fd /\ ~ (0 > 2 * N)
    /\ \A i \in Idx : /\ PktFd(i) \in Fd /\ IcmpFd(i) \in Fd
                      /\ PktFd(i) # 0 /\ IcmpFd(i) # 0 /\ PktFd(i) # IcmpFd(i)
                      /\ ~ (PktFd(i) > 2 * N) /\ ~ (IcmpFd(i) > 2 * N)
    /\ \A i, j \in Idx : /\ PktFd(i) # IcmpFd(j)
                         /\ PktFd(i) = PktFd(j) => i = j
                         /\ IcmpFd(i) = IcmpFd(j) => i = j
<1> USE KernelAssumption
<1>1. ASSUME NEW f \in Fd, f # 0, ~ (f > 2 * N)
      PROVE  \E i \in Idx : f = PktFd(i) \/ f = IcmpFd(i)
  <2> DEFINE j == (f - 1) \div 2
  <2>1. j \in Idx /\ (f = 2 * j + 1 \/ f = 2 * j + 2)
    BY <1>1, SMT DEF Fd, Idx
  <2> QED BY <2>1 DEF PktFd, IcmpFd
<1>2. 0 \in Fd /\ ~ (0 > 2 * N) /\ \A i \in Idx : PktFd(i) \in Fd /\ IcmpFd(i) \in Fd
  BY SMT DEF Fd, Idx, PktFd, IcmpFd
<1>3. \A i, j \in Idx : /\ PktFd(i) # IcmpFd(j)
                        /\ PktFd(i) = PktFd(j) => i = j
                        /\ IcmpFd(i) = IcmpFd(j) => i = j
  BY SMT DEF Idx, PktFd, IcmpFd
<1>4. \A i \in Idx : /\ PktFd(i) # 0 /\ IcmpFd(i) # 0
                     /\ ~ (PktFd(i) > 2 * N) /\ ~ (IcmpFd(i) > 2 * N)
  BY SMT DEF Idx, PktFd, IcmpFd
<1> QED BY <1>1, <1>2, <1>3, <1>4

\* The descriptors the actions write.
LEMMA DescriptorUpdates ==
    /\ Closed \in Descriptor /\ DevNull \in Descriptor
    /\ NewPacketSocket \in Descriptor /\ NewIcmpSocket \in Descriptor /\ ConfigStream \in Descriptor
    /\ \A d \in Descriptor, b \in BOOLEAN, i \in Idx :
         /\ [d EXCEPT !.err = b] \in Descriptor
         /\ [d EXCEPT !.filtered = b] \in Descriptor
         /\ [d EXCEPT !.on = i, !.err = b] \in Descriptor
    /\ \A d \in Descriptor : d.rxq # <<>> => [d EXCEPT !.rxq = Tail(@)] \in Descriptor
    /\ \A d \in Descriptor, m \in Frames \cup {IcmpMsg} : Enqueue(d, m) \in Descriptor
<1> USE KernelAssumption
<1>1. Any \in Idx \cup {Any}
  OBVIOUS
<1>2. Closed \in Descriptor
  BY <1>1 DEF Closed, Descriptor
<1>3. \A d \in Descriptor, k \in {"null", "file", "pkt", "icmp"} : [d EXCEPT !.kind = k] \in Descriptor
  BY DEF Descriptor
<1>4. /\ DevNull \in Descriptor /\ NewPacketSocket \in Descriptor /\ NewIcmpSocket \in Descriptor
      /\ ConfigStream \in Descriptor
  BY <1>2, <1>3 DEF DevNull, NewPacketSocket, NewIcmpSocket, ConfigStream
<1>5. \A d \in Descriptor, b \in BOOLEAN, i \in Idx :
         /\ [d EXCEPT !.err = b] \in Descriptor
         /\ [d EXCEPT !.filtered = b] \in Descriptor
         /\ [d EXCEPT !.on = i, !.err = b] \in Descriptor
  BY DEF Descriptor
<1>6. ASSUME NEW d \in Descriptor, d.rxq # <<>>
      PROVE  [d EXCEPT !.rxq = Tail(@)] \in Descriptor
  <2>1. Tail(d.rxq) \in Seq(Frames \cup {IcmpMsg})
    BY <1>6 DEF Descriptor
  <2> QED BY <2>1 DEF Descriptor
<1>7. \A d \in Descriptor, m \in Frames \cup {IcmpMsg} : Enqueue(d, m) \in Descriptor
  <2> SUFFICES ASSUME NEW d \in Descriptor, NEW m \in Frames \cup {IcmpMsg}
               PROVE  Enqueue(d, m) \in Descriptor
    OBVIOUS
  <2>1. Append(d.rxq, m) \in Seq(Frames \cup {IcmpMsg})
    BY DEF Descriptor
  <2>2. [d EXCEPT !.rxq = Append(d.rxq, m)] \in Descriptor
    BY <2>1 DEF Descriptor
  <2> QED BY <2>2 DEF Enqueue
<1> QED BY <1>2, <1>4, <1>5, <1>6, <1>7
-----------------------------------------------------------------------------
(* Types, one action at a time.  SockOK is the conjunct the actions on     *)
(* descriptors disturb.                                                    *)

SockOK == sock \in [Fd -> Descriptor]

LEMMA ExitTypes == ASSUME NEW how, Exit(how) PROVE SockOK'
  BY DescriptorUpdates DEF Exit, SockOK

LEMMA DropDeadTypes ==
    ASSUME TypeOK, DropDead
    PROVE  SockOK' /\ allmulti' \in [Idx -> BOOLEAN] /\ pc' \in {"dead", "failed"}
<1>1. SockOK'
  BY ExitTypes DEF DropDead
<1>2. allmulti' \in [Idx -> BOOLEAN]
  BY DEF DropDead, TypeOK
<1> QED BY <1>1, <1>2 DEF DropDead, Exit

LEMMA FailTypes ==
    ASSUME TypeOK, Fail
    PROVE  SockOK' /\ allmulti' \in [Idx -> BOOLEAN] /\ pc' \in {"dead", "failed"}
  BY ExitTypes DEF Fail, Exit, TypeOK

\* The end of the process disturbs pc, sock and allmulti only.
LEMMA EndTypes ==
    ASSUME TypeOK, SockOK', allmulti' \in [Idx -> BOOLEAN], pc' \in {"dead", "failed"},
           UNCHANGED <<link, phase, fdIdx, newSock, tableVars, pollVars, bufVars, configVars, out>>,
           consecutivePollErrors' \in Nat
    PROVE  TypeOK'
  BY DEF TypeOK, SockOK, tableVars, pollVars, bufVars, configVars, IfacePcs, OpenPcs

LEMMA StartupTypes == ASSUME TypeOK, Startup PROVE TypeOK'
<1> USE KernelAssumption DEF tableVars, pollVars, bufVars, configVars, kernelVars
<1>1. CASE AttachFilter
  <2>1. fdIdx \in Idx /\ newSock \in Fd /\ sock[newSock] \in Descriptor /\ Idx # {}
    BY <1>1 DEF AttachFilter, Goto, TypeOK, IfacePcs, OpenPcs
  <2>2. [sock[newSock] EXCEPT !.filtered = TRUE] \in Descriptor
    BY <2>1, DescriptorUpdates
  <2>3. SockOK'
    BY <1>1, <2>1, <2>2 DEF AttachFilter, TypeOK, SockOK
  <2>4. pktSock' \in [Idx -> Fd]
    BY <1>1, <2>1 DEF AttachFilter, TypeOK
  <2> QED BY <1>1, <2>1, <2>3, <2>4
    DEF AttachFilter, Goto, TypeOK, SockOK, IfacePcs, OpenPcs, Starting
<1>2. CASE OpenIcmpSocket
  <2> PICK f \in Fd : /\ icmpSock' = [icmpSock EXCEPT ![fdIdx] = f]
                      /\ sock' = [sock EXCEPT ![f] = NewIcmpSocket]
    BY <1>2 DEF OpenIcmpSocket
  <2>1. SockOK' /\ icmpSock' \in [Idx -> Fd]
    BY <1>2, DescriptorUpdates DEF OpenIcmpSocket, TypeOK, SockOK
  <2>2. (pc' = "socket" /\ fdIdx' \in Idx) \/ (pc' = "allmulti" /\ fdIdx' = 0)
    BY <1>2, SMT DEF OpenIcmpSocket, TypeOK, IfacePcs, Idx
  <2>3. 0 \in Idx /\ Idx \subseteq Slot
    BY SMT DEF Idx, Slot
  <2> QED BY <1>2, <2>1, <2>2, <2>3 DEF OpenIcmpSocket, TypeOK, SockOK, IfacePcs, OpenPcs, Starting
<1>3. CASE SetAllmulti
  <2>1. (pc' = "allmulti" /\ fdIdx' \in Idx) \/ (pc' = "daemon" /\ fdIdx' = 0)
    BY <1>3, SMT DEF SetAllmulti, TypeOK, IfacePcs, Idx
  <2>2. 0 \in Idx /\ Idx \subseteq Slot
    BY SMT DEF Idx, Slot
  <2> QED BY <1>3, <2>1, <2>2 DEF SetAllmulti, TypeOK, IfacePcs, OpenPcs, Starting
<1>4. CASE SetAllmultiFails
  BY <1>4, FailTypes, EndTypes DEF SetAllmultiFails, TypeOK
<1>5. CASE Daemonize
  BY <1>5 DEF Daemonize, Goto, TypeOK, IfacePcs, OpenPcs
<1>6. CASE EnterDispatcher
  <2>1. \A s \in Slot : FdOfSlot(s) \in Fd
    <3> SUFFICES ASSUME NEW s \in Slot PROVE FdOfSlot(s) \in Fd
      OBVIOUS
    <3>1. s < N => s \in Idx
      BY SMT DEF Slot, Idx
    <3>2. ~ (s < N) => s - N \in Idx
      BY SMT DEF Slot, Idx
    <3> QED BY <3>1, <3>2 DEF FdOfSlot, TypeOK
  <2>2. fds' \in [Slot -> Fd \cup {-1}]
    BY <1>6, <2>1 DEF EnterDispatcher
  <2> QED BY <1>6, <2>2 DEF EnterDispatcher, Goto, TypeOK, IfacePcs, OpenPcs
<1> QED BY <1>1, <1>2, <1>3, <1>4, <1>5, <1>6 DEF Startup

LEMMA OpenTypes == ASSUME TypeOK, OpenPacketSocket PROVE TypeOK'
<1> USE KernelAssumption DEF tableVars, pollVars, bufVars, configVars, kernelVars
<1>1. CASE OpenSocket
  <2> PICK f \in Fd : newSock' = f /\ sock' = [sock EXCEPT ![f] = NewPacketSocket]
    BY <1>1 DEF OpenSocket
  <2>1. SockOK'
    BY DescriptorUpdates DEF TypeOK, SockOK
  <2> QED BY <1>1, <2>1 DEF OpenSocket, Goto, TypeOK, SockOK, IfacePcs, OpenPcs, Starting
<1>2. CASE BindSocket
  <2>1. fdIdx \in Idx /\ newSock \in Fd /\ sock[newSock] \in Descriptor
    BY <1>2 DEF BindSocket, Goto, TypeOK, IfacePcs, OpenPcs
  <2>2. [sock[newSock] EXCEPT !.on = fdIdx, !.err = (link[fdIdx] = "down")] \in Descriptor
    BY <2>1, DescriptorUpdates
  <2>3. sock' = [sock EXCEPT ![newSock] =
                   [sock[newSock] EXCEPT !.on = fdIdx, !.err = (link[fdIdx] = "down")]]
    BY <1>2, <2>1 DEF BindSocket, TypeOK, Descriptor
  <2>4. SockOK'
    BY <2>1, <2>2, <2>3 DEF TypeOK, SockOK
  <2> QED BY <1>2, <2>4 DEF BindSocket, Goto, TypeOK, SockOK, IfacePcs, OpenPcs, Starting
<1>3. CASE OpenFails
  BY <1>3, FailTypes, EndTypes DEF OpenFails, TypeOK
<1> QED BY <1>1, <1>2, <1>3 DEF OpenPacketSocket

\* Past startup the handlers are installed.
LEMMA PastStartup ==
    ASSUME Inv, pc \notin Starting \/ phase = "run", ~ Ended
    PROVE  Handling
  BY DEF Inv, TypeOK, StartInv, Handling

\* Only packet sockets are ever reopened.
LEMMA ErrorSlots ==
    ASSUME Inv, pc = "scan", NEW s \in Slot, revents[s] # {}, "in" \notin revents[s]
    PROVE  s \in Idx /\ "err" \in revents[s] /\ ArrayOfSockets
<1> USE KernelAssumption
<1>1. "err" \in revents[s]
  BY DEF Inv, TypeOK
<1>2. Handling
  BY PastStartup DEF Starting, Ended
<1>3. ArrayOfSockets
  BY <1>1, <1>2 DEF Inv, RunInv, ArrayOfZeros
<1>4. CASE s \notin Idx
  <2>1. s - N \in Idx /\ N + (s - N) = s
    BY <1>4, SMT DEF Slot, Idx
  <2> QED BY <1>1, <1>3, <2>1 DEF ArrayOfSockets
<1> QED BY <1>1, <1>3, <1>4

\* get_rx reads a packet socket, the null device or a leaked stream, never an
\* ICMPv6 socket.
LEMMA ReadsPackets ==
    ASSUME Inv, pc = "rx"
    PROVE  /\ fdIdx \in Idx /\ pktSock[fdIdx] \in Fd
           /\ sock[pktSock[fdIdx]].rxq \in Seq(Frames)
<1> USE KernelAssumption
<1>1. fdIdx \in Idx /\ pktSock[fdIdx] \in Fd
  BY DEF Inv, TypeOK, IfacePcs
<1>2. Handling
  BY PastStartup DEF Starting, Ended
<1>3. sock[pktSock[fdIdx]].kind # "icmp"
  BY <1>1, <1>2 DEF Inv, RunInv, Tight, Named, Serves
<1> QED BY <1>1, <1>3 DEF Inv, QueueInv, QueueOK

LEMMA ScanTypes ==
    ASSUME Inv, PollReturns \/ PollIdle \/ ScanIn \/ ScanErr \/ ScanDone
    PROVE  TypeOK'
<1> USE KernelAssumption DEF tableVars, pollVars, bufVars, configVars, kernelVars
<1>0. TypeOK /\ 0 \in Slot
  BY SMT DEF Inv, Slot
<1>1. CASE PollReturns
  <2>1. \A f : Events(f) \subseteq {"in", "err"}
    BY DEF Events
  <2>2. revents' \in [Slot -> SUBSET {"in", "err"}]
    BY <1>1, <2>1 DEF PollReturns
  <2> QED BY <1>0, <1>1, <2>2 DEF PollReturns, Goto, TypeOK, IfacePcs, OpenPcs
<1>2. CASE PollIdle
  BY <1>0, <1>2 DEF PollIdle, TypeOK, IfacePcs, OpenPcs
<1>3. CASE ScanIn
  <2> PICK s \in Slot : fdIdx' = s /\ pc' = Reader(s)
    BY <1>3 DEF ScanIn
  <2>1. s < N => s \in Idx
    BY SMT DEF Slot, Idx
  <2>2. ~ (s < N) => s \notin Idx
    BY SMT DEF Slot, Idx
  <2> QED BY <1>0, <1>3, <2>1, <2>2 DEF ScanIn, Reader, TypeOK, IfacePcs, OpenPcs
<1>4. CASE ScanErr
  <2> PICK s \in Slot : /\ NextSlot(s) /\ "in" \notin revents[s]
                        /\ fdIdx' = s
                        /\ sock' = [sock EXCEPT ![FailedSocket(s)] = Closed]
    BY <1>4 DEF ScanErr
  <2>1. s \in Idx
    BY <1>4, ErrorSlots DEF ScanErr, NextSlot
  <2>2. SockOK'
    BY <1>0, DescriptorUpdates DEF TypeOK, SockOK
  <2> QED BY <1>0, <1>4, <2>1, <2>2 DEF ScanErr, TypeOK, SockOK, IfacePcs, OpenPcs, Starting
<1>5. CASE ScanDone
  BY <1>0, <1>5 DEF ScanDone, Goto, TypeOK, IfacePcs, OpenPcs
<1> QED BY <1>1, <1>2, <1>3, <1>4, <1>5

LEMMA RxTypes ==
    ASSUME Inv, RxFrame \/ RxError \/ RxIcmp
    PROVE  TypeOK'
<1> USE KernelAssumption DEF tableVars, pollVars, bufVars, configVars, kernelVars
<1>0. TypeOK
  BY DEF Inv
<1>1. CASE RxFrame
  <2> DEFINE f == pktSock[fdIdx]
  <2>1. f \in Fd /\ sock[f] \in Descriptor /\ sock[f].rxq \in Seq(Frames) /\ sock[f].rxq # <<>>
    BY <1>0, <1>1, ReadsPackets DEF RxFrame, Goto, Readable, TypeOK
  <2>2. Head(sock[f].rxq) \in Frames
    BY <2>1
  <2>3. SockOK'
    <3>1. [sock[f] EXCEPT !.rxq = Tail(@)] \in Descriptor
      BY <2>1, DescriptorUpdates
    <3>2. sock' = [sock EXCEPT ![f] = [sock[f] EXCEPT !.rxq = Tail(@)]]
      BY <1>1 DEF RxFrame, Dequeued
    <3> QED BY <1>0, <2>1, <3>1, <3>2 DEF TypeOK, SockOK
  <2>4. msgdata' \in Message
    BY <1>1, <2>2 DEF RxFrame, Message
  <2> QED BY <1>0, <1>1, <2>3, <2>4 DEF RxFrame, Goto, TypeOK, SockOK, IfacePcs, OpenPcs
<1>2. CASE RxError
  <2> DEFINE f == pktSock[fdIdx]
  <2>1. f \in Fd /\ sock[f] \in Descriptor
    BY <1>0, <1>2, ReadsPackets DEF RxError, Goto, TypeOK
  <2>2. SockOK'
    <3>1. [sock[f] EXCEPT !.err = FALSE] \in Descriptor
      BY <2>1 DEF Descriptor
    <3>2. sock' = [sock EXCEPT ![f] = [sock[f] EXCEPT !.err = FALSE]]
      BY <1>2 DEF RxError, ErrorTaken
    <3> QED BY <1>0, <2>1, <3>1, <3>2 DEF TypeOK, SockOK
  <2> QED BY <1>0, <1>2, <2>2 DEF RxError, Goto, TypeOK, SockOK, IfacePcs, OpenPcs
<1>3. CASE RxIcmp
  <2> DEFINE f == icmpSock[fdIdx \div 2]
  <2>1. fdIdx \in Slot \ Idx
    BY <1>0, <1>3 DEF RxIcmp, Goto, TypeOK
  <2>2. fdIdx \div 2 \in Idx /\ fdIdx + 1 \in Slot \cup {2 * N}
    BY <2>1, SMT DEF Slot, Idx
  <2>3. f \in Fd /\ sock[f] \in Descriptor
    BY <1>0, <2>2 DEF TypeOK
  <2>4. SockOK'
    <3>1. CASE Readable(f) /\ sock' = Dequeued(f)
      <4>1. [sock[f] EXCEPT !.rxq = Tail(@)] \in Descriptor
        BY <2>3, <3>1, DescriptorUpdates DEF Readable
      <4>2. sock' = [sock EXCEPT ![f] = [sock[f] EXCEPT !.rxq = Tail(@)]]
        BY <3>1 DEF Dequeued
      <4> QED BY <1>0, <2>3, <4>1, <4>2 DEF TypeOK, SockOK
    <3>2. CASE sock' = ErrorTaken(f)
      <4>1. [sock[f] EXCEPT !.err = FALSE] \in Descriptor
        BY <2>3 DEF Descriptor
      <4>2. sock' = [sock EXCEPT ![f] = [sock[f] EXCEPT !.err = FALSE]]
        BY <3>2 DEF ErrorTaken
      <4> QED BY <1>0, <2>3, <4>1, <4>2 DEF TypeOK, SockOK
    <3> QED BY <1>3, <3>1, <3>2 DEF RxIcmp
  <2>5. msgdata' \in Message /\ msglen' \in {-1, 0, 1}
    BY <1>0, <1>3 DEF RxIcmp, TypeOK, Message
  <2> QED BY <1>0, <1>3, <2>2, <2>4, <2>5 DEF RxIcmp, Goto, TypeOK, SockOK, IfacePcs, OpenPcs
<1> QED BY <1>1, <1>2, <1>3

LEMMA AnswerTypes ==
    ASSUME TypeOK, ProcessNS \/ Recovered
    PROVE  TypeOK'
<1> USE KernelAssumption, DispatcherAssumption
    DEF tableVars, pollVars, bufVars, configVars, kernelVars
<1>1. CASE ProcessNS
  <2>1. fdIdx \in Idx /\ msgdata.target \in Address
    BY <1>1 DEF ProcessNS, Goto, TypeOK, IfacePcs, Message
  <2>2. fdIdx + 1 \in Slot \cup {2 * N}
    BY <2>1, SMT DEF Slot, Idx
  <2>3. tRoot' \subseteq Address /\ tEntries' \in Nat
    BY <1>1, <2>1, SMT DEF ProcessNS, StoreTarget, TypeOK
  <2>4. out'.bit \in {0, 1}
    <3>1. CASE UNCHANGED out
      BY <3>1 DEF TypeOK
    <3>2. CASE out' = [bit |-> 1 - out.bit, na |-> Advert(cfg, fdIdx, msgdata)]
      BY <3>2, SMT DEF TypeOK
    <3> QED BY <1>1, <3>1, <3>2 DEF ProcessNS, SendAdvert
  <2> QED BY <1>1, <2>2, <2>3, <2>4 DEF ProcessNS, Goto, TypeOK, IfacePcs, OpenPcs
<1>2. CASE Recovered
  <2>1. /\ fdIdx \in Idx /\ newSock \in Fd /\ sock[newSock] \in Descriptor
        /\ phase' = phase /\ link' = link /\ newSock' = newSock
    BY <1>2 DEF Recovered, TypeOK, IfacePcs, OpenPcs
  <2>2. consecutivePollErrors' \in Nat
    BY <1>2, SMT DEF Recovered, TypeOK
  <2>3. /\ pktSock' \in [Idx -> Fd] /\ fds' \in [Slot -> Fd \cup {-1}]
        /\ revents' \in [Slot -> SUBSET {"in", "err"}]
    BY <1>2, <2>1 DEF Recovered, TypeOK
  <2>4. CASE DropDead /\ UNCHANGED fdIdx
    <3>1. SockOK' /\ allmulti' \in [Idx -> BOOLEAN] /\ pc' \in {"dead", "failed"}
      BY <2>4, DropDeadTypes
    <3> QED BY <1>2, <2>2, <2>3, <2>4, <3>1 DEF Recovered, TypeOK, SockOK, IfacePcs, OpenPcs
  <2>5. CASE /\ pc' = "scan" /\ fdIdx' = fdIdx + 1
             /\ sock' = [sock EXCEPT ![newSock].filtered = TRUE] /\ UNCHANGED allmulti
    <3>1. fdIdx + 1 \in Slot \cup {2 * N}
      BY <2>1, SMT DEF Slot, Idx
    <3>2. [sock[newSock] EXCEPT !.filtered = TRUE] \in Descriptor
      BY <2>1, DescriptorUpdates
    <3>3. SockOK'
      BY <2>1, <2>5, <3>2 DEF TypeOK, SockOK
    <3> QED BY <1>2, <2>2, <2>3, <2>5, <3>1, <3>3
          DEF Recovered, TypeOK, SockOK, IfacePcs, OpenPcs
  <2> QED BY <1>2, <2>4, <2>5 DEF Recovered
<1> QED BY <1>1, <1>2

LEMMA RereadTypes == ASSUME cfg \in Config, NEW f \in File PROVE Reread(f) \in Config
<1>1. f.conf \in Config
  BY DEF File
<1>2. /\ f.conf.lRoot \cup cfg.lRoot \in SUBSET Address
      /\ f.conf.exprs \cup cfg.exprs \in SUBSET Address
  BY <1>1 DEF Config
<1> DEFINE Given(k, new, old) == IF k \in f.sets THEN new ELSE old
           r == Given("naRouter", f.conf.naRouter, cfg.naRouter)
           o == Given("naLinkOptFlag", f.conf.naLinkOptFlag, cfg.naLinkOptFlag)
           l == Given("nsIgnoreLocal", f.conf.nsIgnoreLocal, cfg.nsIgnoreLocal)
           t == Given("listType", f.conf.listType, cfg.listType)
           n == Given("collectTargets", f.conf.collectTargets, cfg.collectTargets)
           L == f.conf.lRoot \cup cfg.lRoot
           E == f.conf.exprs \cup cfg.exprs
<1>3. r \in BOOLEAN /\ o \in BOOLEAN /\ l \in BOOLEAN
  BY <1>1 DEF Config
<1>4. t \in {"none", "black", "white"} /\ n \in Nat
  BY <1>1 DEF Config
<1>5. Reread(f) = [f.conf EXCEPT !.lRoot = L, !.exprs = E, !.naRouter = r, !.naLinkOptFlag = o,
                                 !.nsIgnoreLocal = l, !.listType = t, !.collectTargets = n]
  BY Zenon DEF Reread
<1>6. L \in SUBSET Address /\ E \in SUBSET Address
  BY <1>2
<1> HIDE DEF r, o, l, t, n, L, E
<1>7. [f.conf EXCEPT !.lRoot = L, !.exprs = E, !.naRouter = r, !.naLinkOptFlag = o,
                     !.nsIgnoreLocal = l, !.listType = t, !.collectTargets = n] \in Config
  BY <1>1, <1>3, <1>4, <1>6 DEF Config
<1> QED BY <1>5, <1>7, Zenon

LEMMA SignalTypes == ASSUME Inv, Signalled PROVE TypeOK'
<1> USE KernelAssumption, DispatcherAssumption
    DEF tableVars, pollVars, bufVars, configVars, kernelVars
<1>0. TypeOK
  BY DEF Inv
<1>1. ASSUME Interrupt
      PROVE  /\ pc' \in {"ns", "scan"} /\ msglen' = -1 /\ fdIdx' \in Slot \cup {2 * N}
             /\ pc' = "ns" => fdIdx' \in Idx
  <2>1. fdIdx \in Slot => fdIdx + 1 \in Slot \cup {2 * N}
    BY SMT DEF Slot
  <2> QED BY <1>0, <1>1, <2>1 DEF Interrupt, TypeOK, IfacePcs
<1>2. CASE Killed
  BY <1>0, <1>2, FailTypes, EndTypes DEF Killed, TypeOK
<1>3. CASE HarmlessSignal
  BY <1>0, <1>1, <1>3 DEF HarmlessSignal, TypeOK, IfacePcs, OpenPcs
<1>4. CASE Reload
  <2>1. PICK f \in Files : cfg' = Reread(f)
    BY <1>4 DEF Reload
  <2>2. cfg' \in Config
    BY <1>0, <2>1, RereadTypes DEF TypeOK
  <2>3. tRoot' \subseteq Address /\ tEntries' \in Nat
    BY <1>0, <1>4 DEF Reload, ZapTargets, TypeOK
  <2>4. 0 \in Fd /\ 0 \in 0 .. 1
    BY SMT DEF Fd
  <2>5. /\ pktSock' \in [Idx -> Fd] /\ icmpSock' \in [Idx -> Fd]
        /\ multiStatus' \in [Idx -> 0 .. 1]
    BY <1>4, <2>4 DEF Reload
  <2>6. SockOK'
    <3>1. PICK g \in Fd : sock' = [sock EXCEPT ![g] = ConfigStream]
      BY <1>4 DEF Reload
    <3> QED BY <1>0, <3>1, DescriptorUpdates DEF TypeOK, SockOK
  <2>7. CASE Interrupt
    BY <1>0, <1>1, <1>4, <2>2, <2>3, <2>5, <2>6, <2>7 DEF Reload, TypeOK, SockOK, IfacePcs, OpenPcs
  <2>8. CASE UNCHANGED <<pc, fdIdx, msglen>>
    BY <1>0, <1>4, <2>2, <2>3, <2>5, <2>6, <2>8 DEF Reload, TypeOK, SockOK, IfacePcs, OpenPcs
  <2> QED BY <1>4, <2>7, <2>8 DEF Reload
<1>5. CASE ReloadFails
  BY <1>0, <1>5, FailTypes, EndTypes DEF ReloadFails, TypeOK
<1>6. CASE Terminate
  BY <1>0, <1>6, DropDeadTypes, EndTypes DEF Terminate, TypeOK
<1> QED BY <1>2, <1>3, <1>4, <1>5, <1>6 DEF Signalled

LEMMA OutsideTypes == ASSUME TypeOK, Outside PROVE TypeOK'
<1> USE KernelAssumption DEF tableVars, pollVars, bufVars, configVars, kernelVars
<1>1. SockOK' /\ link' \in [Idx -> {"up", "down", "gone"}] /\ allmulti' = allmulti
  <2>1. ASSUME NEW m \in Frames, FrameArrives(m)
        PROVE  SockOK' /\ link' = link /\ allmulti' = allmulti
    BY <2>1, DescriptorUpdates DEF FrameArrives, TypeOK, SockOK
  <2>2. ASSUME IcmpArrives
        PROVE  SockOK' /\ link' = link /\ allmulti' = allmulti
    BY <2>2, DescriptorUpdates DEF IcmpArrives, TypeOK, SockOK
  <2>3. ASSUME NEW i \in Idx, NEW how \in {"down", "gone"}, LoseLink(i, how)
        PROVE  SockOK' /\ link' \in [Idx -> {"up", "down", "gone"}] /\ allmulti' = allmulti
    <3>1. \A d \in Descriptor : [d EXCEPT !.err = TRUE] \in Descriptor
      BY DEF Descriptor
    <3> QED BY <2>3, <3>1 DEF LoseLink, TypeOK, SockOK
  <2>4. ASSUME NEW i \in Idx, LinkUp(i)
        PROVE  SockOK' /\ link' \in [Idx -> {"up", "down", "gone"}] /\ allmulti' = allmulti
    BY <2>4 DEF LinkUp, TypeOK, SockOK
  <2> QED BY <2>1, <2>2, <2>3, <2>4 DEF Outside, Environment, LinkDown, LinkGone, TypeOK
<1> QED BY <1>1 DEF Outside, TypeOK, SockOK

-----------------------------------------------------------------------------
(* Queues and errors.                                                      *)

\* The socket being bound or filtered is a packet socket.
LEMMA NewSocketIsPacket ==
    ASSUME Inv, pc \in {"bind", "filter"}
    PROVE  fdIdx \in Idx /\ sock[newSock].kind = "pkt"
<1>1. fdIdx \in Idx
  BY DEF Inv, TypeOK, IfacePcs, OpenPcs
<1>2. CASE phase = "init"
  <2>1. newSock = PktFd(fdIdx) /\ PktStart(fdIdx)
    BY <1>1, <1>2 DEF Inv, StartInv, Ended
  <2>2. ~ PktDone(fdIdx) /\ Opening(fdIdx)
    BY <1>1, KernelAssumption, SMT DEF PktDone, Opening, Idx
  <2> QED BY <1>1, <2>1, <2>2 DEF PktStart
<1>3. CASE phase = "run"
  BY <1>1, <1>3 DEF Inv, RunInv, Handling, Ended
<1> QED BY <1>2, <1>3 DEF Inv, TypeOK

LEMMA QueueUpdates ==
    /\ QueueOK(Closed) /\ QueueOK(NewPacketSocket) /\ QueueOK(NewIcmpSocket) /\ QueueOK(ConfigStream)
    /\ \A d \in Descriptor : QueueOK(d) =>
         /\ QueueOK([d EXCEPT !.err = FALSE]) /\ QueueOK([d EXCEPT !.filtered = TRUE])
         /\ d.rxq # <<>> => QueueOK([d EXCEPT !.rxq = Tail(@)])
         /\ d.kind = "pkt" => \A b \in BOOLEAN, i \in Idx :
              QueueOK([d EXCEPT !.err = b]) /\ QueueOK([d EXCEPT !.on = i, !.err = b])
         /\ d.kind = "pkt" => \A m \in Frames : QueueOK(Enqueue(d, m))
         /\ d.kind = "icmp" => QueueOK(Enqueue(d, IcmpMsg))
<1>1. /\ QueueOK(Closed) /\ QueueOK(NewPacketSocket) /\ QueueOK(NewIcmpSocket)
      /\ QueueOK(ConfigStream)
  BY DEF Closed, NewPacketSocket, NewIcmpSocket, ConfigStream, QueueOK
<1>2. ASSUME NEW d \in Descriptor, QueueOK(d)
      PROVE  /\ QueueOK([d EXCEPT !.err = FALSE]) /\ QueueOK([d EXCEPT !.filtered = TRUE])
             /\ d.rxq # <<>> => QueueOK([d EXCEPT !.rxq = Tail(@)])
             /\ d.kind = "pkt" => \A b \in BOOLEAN, i \in Idx :
                  QueueOK([d EXCEPT !.err = b]) /\ QueueOK([d EXCEPT !.on = i, !.err = b])
             /\ d.kind = "pkt" => \A m \in Frames : QueueOK(Enqueue(d, m))
             /\ d.kind = "icmp" => QueueOK(Enqueue(d, IcmpMsg))
  <2>1. d.kind # "icmp" /\ d.rxq # <<>> => Tail(d.rxq) \in Seq(Frames)
    BY <1>2 DEF QueueOK
  <2>2. d.kind # "icmp" => \A m \in Frames : Append(d.rxq, m) \in Seq(Frames)
    BY <1>2 DEF QueueOK
  <2>3. QueueOK([d EXCEPT !.err = FALSE]) /\ QueueOK([d EXCEPT !.filtered = TRUE])
    BY <1>2 DEF QueueOK, Descriptor
  <2>4. d.rxq # <<>> => QueueOK([d EXCEPT !.rxq = Tail(@)])
    BY <1>2, <2>1 DEF QueueOK, Descriptor
  <2>5. d.kind = "pkt" => \A b \in BOOLEAN, i \in Idx :
           QueueOK([d EXCEPT !.err = b]) /\ QueueOK([d EXCEPT !.on = i, !.err = b])
    BY <1>2 DEF QueueOK, Descriptor
  <2>6. d.kind = "pkt" => \A m \in Frames : QueueOK(Enqueue(d, m))
    BY <1>2, <2>2 DEF QueueOK, Descriptor, Enqueue
  <2>7. d.kind = "icmp" => QueueOK(Enqueue(d, IcmpMsg))
    BY <1>2 DEF QueueOK, Descriptor, Enqueue
  <2> QED BY <2>3, <2>4, <2>5, <2>6, <2>7
<1> QED BY <1>1, <1>2

LEMMA QueueExit == ASSUME NEW how, Exit(how) PROVE QueueInv'
  BY QueueUpdates DEF Exit, QueueInv

LEMMA QueueWrite ==
    ASSUME TypeOK, QueueInv, NEW f \in Fd, NEW d, QueueOK(d), sock' = [sock EXCEPT ![f] = d]
    PROVE  QueueInv'
  BY DEF TypeOK, QueueInv

LEMMA QueueSame == ASSUME QueueInv, sock' = sock PROVE QueueInv'
  BY DEF QueueInv

LEMMA QueueStep == ASSUME Inv, Next PROVE QueueInv'
<1> USE KernelAssumption
<1>0. /\ TypeOK /\ QueueInv /\ \A f \in Fd : sock[f] \in Descriptor /\ QueueOK(sock[f])
  BY DEF Inv, TypeOK, QueueInv
<1>1. CASE Startup
  <2>1. CASE AttachFilter
    <3>1. newSock \in Fd /\ sock' = [sock EXCEPT ![newSock] =
                                       [sock[newSock] EXCEPT !.filtered = TRUE]]
      BY <1>0, <2>1 DEF AttachFilter, TypeOK
    <3> QED BY <1>0, <3>1, QueueUpdates, QueueWrite
  <2>2. CASE OpenIcmpSocket
    BY <1>0, <2>2, QueueUpdates, QueueWrite DEF OpenIcmpSocket
  <2>3. CASE SetAllmultiFails
    BY <2>3, QueueExit DEF SetAllmultiFails, Fail
  <2> QED BY <1>0, <1>1, <2>1, <2>2, <2>3, QueueSame
        DEF Startup, SetAllmulti, Daemonize, EnterDispatcher, kernelVars
<1>2. CASE OpenPacketSocket
  <2>1. CASE OpenSocket
    BY <1>0, <2>1, QueueUpdates, QueueWrite DEF OpenSocket
  <2>2. CASE BindSocket
    <3> DEFINE d == [sock[newSock] EXCEPT !.on = fdIdx, !.err = (link[fdIdx] = "down")]
    <3>1. newSock \in Fd /\ fdIdx \in Idx /\ sock[newSock].kind = "pkt"
      BY <1>0, <2>2, NewSocketIsPacket DEF BindSocket, Goto, TypeOK
    <3>2. sock' = [sock EXCEPT ![newSock] = d]
      BY <1>0, <2>2, <3>1 DEF BindSocket, TypeOK, Descriptor
    <3>3. QueueOK(d)
      BY <1>0, <3>1, QueueUpdates
    <3> QED BY <1>0, <3>1, <3>2, <3>3, QueueWrite
  <2>3. CASE OpenFails
    BY <2>3, QueueExit DEF OpenFails, Fail
  <2> QED BY <1>2, <2>1, <2>2, <2>3 DEF OpenPacketSocket
<1>3. CASE Serve
  <2>1. CASE ScanErr
    <3>1. PICK s \in Slot : /\ NextSlot(s) /\ "in" \notin revents[s]
                            /\ sock' = [sock EXCEPT ![FailedSocket(s)] = Closed]
      BY <2>1 DEF ScanErr
    <3>2. FailedSocket(s) \in Fd
      BY <1>0, <2>1, <3>1, ErrorSlots DEF ScanErr, NextSlot, FailedSocket, TypeOK
    <3> QED BY <1>0, <3>1, <3>2, QueueUpdates, QueueWrite
  <2>2. CASE RxFrame
    <3>1. /\ pktSock[fdIdx] \in Fd /\ sock[pktSock[fdIdx]].rxq # <<>>
          /\ sock' = [sock EXCEPT ![pktSock[fdIdx]] =
                        [sock[pktSock[fdIdx]] EXCEPT !.rxq = Tail(@)]]
      BY <2>2, ReadsPackets DEF RxFrame, Goto, Readable, Dequeued
    <3> QED BY <1>0, <3>1, QueueUpdates, QueueWrite
  <2>3. CASE RxError
    <3>1. /\ pktSock[fdIdx] \in Fd
          /\ sock' = [sock EXCEPT ![pktSock[fdIdx]] =
                        [sock[pktSock[fdIdx]] EXCEPT !.err = FALSE]]
      BY <2>3, ReadsPackets DEF RxError, Goto, ErrorTaken
    <3> QED BY <1>0, <3>1, QueueUpdates, QueueWrite
  <2>4. CASE RxIcmp
    <3> DEFINE f == icmpSock[fdIdx \div 2]
    <3>1. fdIdx \in Slot \ Idx
      BY <1>0, <2>4 DEF RxIcmp, Goto, TypeOK
    <3>2. fdIdx \div 2 \in Idx
      BY <3>1, SMT DEF Slot, Idx
    <3>3. f \in Fd
      BY <1>0, <3>2 DEF TypeOK
    <3>4. CASE Readable(f) /\ sock' = Dequeued(f)
      <4>1. sock[f].rxq # <<>> /\ sock' = [sock EXCEPT ![f] = [sock[f] EXCEPT !.rxq = Tail(@)]]
        BY <3>4 DEF Readable, Dequeued
      <4> QED BY <1>0, <3>3, <4>1, QueueUpdates, QueueWrite
    <3>5. CASE sock' = ErrorTaken(f)
      <4>1. sock' = [sock EXCEPT ![f] = [sock[f] EXCEPT !.err = FALSE]]
        BY <3>5 DEF ErrorTaken
      <4> QED BY <1>0, <3>3, <4>1, QueueUpdates, QueueWrite
    <3> QED BY <2>4, <3>4, <3>5 DEF RxIcmp
  <2>5. CASE Recovered
    <3>1. CASE DropDead
      BY <3>1, QueueExit DEF DropDead
    <3>2. CASE sock' = [sock EXCEPT ![newSock].filtered = TRUE]
      <4>1. newSock \in Fd /\ sock' = [sock EXCEPT ![newSock] =
                                         [sock[newSock] EXCEPT !.filtered = TRUE]]
        BY <1>0, <3>2 DEF TypeOK
      <4> QED BY <1>0, <4>1, QueueUpdates, QueueWrite
    <3> QED BY <2>5, <3>1, <3>2 DEF Recovered
  <2> QED BY <1>0, <1>3, <2>1, <2>2, <2>3, <2>4, <2>5, QueueSame
        DEF Serve, PollReturns, PollIdle, ScanIn, ScanDone, ProcessNS, kernelVars
<1>4. CASE Signalled
  <2>1. CASE Killed \/ ReloadFails
    BY <2>1, QueueExit DEF Killed, ReloadFails, Fail
  <2>2. CASE Terminate
    BY <2>2, QueueExit DEF Terminate, DropDead
  <2>3. CASE Reload
    BY <1>0, <2>3, QueueUpdates, QueueWrite DEF Reload
  <2> QED BY <1>0, <1>4, <2>1, <2>2, <2>3, QueueSame DEF Signalled, HarmlessSignal, kernelVars
<1>5. CASE Outside
  <2>1. ASSUME NEW m \in Frames, FrameArrives(m) PROVE QueueInv'
    <3>1. \A f \in Fd : sock'[f] = sock[f] \/ (sock[f].kind = "pkt" /\ sock'[f] = Enqueue(sock[f], m))
      BY <2>1 DEF FrameArrives, Hears
    <3> QED BY <1>0, <3>1, QueueUpdates DEF QueueInv
  <2>2. ASSUME IcmpArrives PROVE QueueInv'
    <3>1. \A f \in Fd : \/ sock'[f] = sock[f]
                        \/ sock[f].kind = "icmp" /\ sock'[f] = Enqueue(sock[f], IcmpMsg)
      BY <2>2 DEF IcmpArrives
    <3> QED BY <1>0, <3>1, QueueUpdates DEF QueueInv
  <2>3. ASSUME NEW i \in Idx, NEW how, LoseLink(i, how) PROVE QueueInv'
    <3>1. ASSUME NEW f \in Fd PROVE QueueOK(sock'[f])
      <4>1. sock'[f] = sock[f] \/ (sock[f].kind = "pkt" /\ sock'[f] = [sock[f] EXCEPT !.err = TRUE])
        BY <2>3 DEF LoseLink
      <4> QED BY <1>0, <4>1 DEF QueueOK, Descriptor
    <3> QED BY <3>1 DEF QueueInv
  <2>4. ASSUME NEW i \in Idx, LinkUp(i) PROVE QueueInv'
    BY <1>0, <2>4, QueueSame DEF LinkUp
  <2> QED BY <1>5, <2>1, <2>2, <2>3, <2>4 DEF Outside, Environment, LinkDown, LinkGone
<1> QED BY <1>1, <1>2, <1>3, <1>4, <1>5 DEF Next, Daemon

-----------------------------------------------------------------------------
(* Startup.                                                                *)

\* During startup the lowest free descriptor is the next interface's.
LEMMA LowestAtStart ==
    ASSUME Inv, phase = "init", NEW f \in Fd, LowestFree(f)
    PROVE  /\ pc = "socket" => f = PktFd(fdIdx)
           /\ pc = "icmp" => f = IcmpFd(fdIdx)
<1> USE KernelAssumption
<1>1. ASSUME pc \in {"socket", "icmp"}
      PROVE  /\ fdIdx \in Idx /\ f # 0
             /\ \A i \in Idx : PktStart(i) /\ IcmpStart(i)
  BY <1>1 DEF Inv, TypeOK, IfacePcs, OpenPcs, StartInv, Ended, LowestFree
<1>2. pc \in {"socket", "icmp"} => \E i \in Idx : f = PktFd(i) \/ f = IcmpFd(i)
  <2> SUFFICES ASSUME pc \in {"socket", "icmp"} PROVE ~ (f > 2 * N)
    BY <1>1, FdCases
  <2>1. ~ IcmpDone(fdIdx) /\ (pc = "socket" => ~ PktDone(fdIdx) /\ ~ Opening(fdIdx))
    BY <1>1, SMT DEF PktDone, IcmpDone, Opening, Idx
  <2>2. PICK g \in Fd : sock[g].kind = "free" /\ ~ (g > 2 * N)
    BY <1>1, <2>1, FdCases DEF PktStart, IcmpStart
  <2> QED BY <2>2, SMT DEF LowestFree, Fd
<1>3. CASE pc = "socket"
  <2> PICK i \in Idx : f = PktFd(i) \/ f = IcmpFd(i)
    BY <1>2, <1>3
  <2>1. ~ (i < fdIdx)
    BY <1>1, <1>2, <1>3 DEF PktStart, IcmpStart, PktDone, IcmpDone, LowestFree
  <2>2. ~ PktDone(fdIdx) /\ ~ Opening(fdIdx)
    BY <1>1, <1>3, SMT DEF PktDone, Opening, Idx
  <2>3. ~ (PktFd(fdIdx) < f)
    BY <1>1, <1>3, <2>2, FdCases DEF PktStart, LowestFree
  <2>4. i \in Int /\ fdIdx \in Int
    BY <1>1, <1>3, SMT DEF Idx
  <2>5. f = PktFd(fdIdx)
    BY <2>1, <2>3, <2>4, SMT DEF PktFd, IcmpFd
  <2> QED BY <1>3, <2>5
<1>4. CASE pc = "icmp"
  <2> PICK i \in Idx : f = PktFd(i) \/ f = IcmpFd(i)
    BY <1>2, <1>4
  <2>1. ~ (i < fdIdx) /\ f # PktFd(fdIdx)
    BY <1>1, <1>2, <1>4 DEF PktStart, IcmpStart, PktDone, IcmpDone, LowestFree
  <2>2. ~ IcmpDone(fdIdx)
    BY <1>1, <1>4, SMT DEF IcmpDone, Idx
  <2>3. ~ (IcmpFd(fdIdx) < f)
    BY <1>1, <1>4, <2>2, FdCases DEF IcmpStart, LowestFree
  <2>4. i \in Int /\ fdIdx \in Int
    BY <1>1, <1>4, SMT DEF Idx
  <2>5. f = IcmpFd(fdIdx)
    BY <2>1, <2>3, <2>4, SMT DEF PktFd, IcmpFd
  <2> QED BY <1>4, <2>5
<1> QED BY <1>3, <1>4

\* Traffic and links change queues and errors, not what a descriptor is.
LEMMA OutsideKeeps ==
    ASSUME TypeOK, Outside
    PROVE  \A f \in Fd : /\ sock'[f].kind = sock[f].kind /\ sock'[f].on = sock[f].on
                         /\ sock'[f].filtered = sock[f].filtered
<1> DEFINE Kept(f) == /\ sock'[f].kind = sock[f].kind /\ sock'[f].on = sock[f].on
                      /\ sock'[f].filtered = sock[f].filtered
<1> SUFFICES ASSUME NEW f \in Fd PROVE Kept(f)
  OBVIOUS
<1>0. sock[f] \in Descriptor
  BY DEF TypeOK
<1>1. ASSUME NEW m \in Frames, FrameArrives(m) PROVE Kept(f)
  <2>1. sock'[f] = sock[f] \/ sock'[f] = Enqueue(sock[f], m)
    BY <1>1 DEF FrameArrives
  <2> QED BY <1>0, <2>1 DEF Enqueue, Descriptor
<1>2. ASSUME IcmpArrives PROVE Kept(f)
  <2>1. sock'[f] = sock[f] \/ sock'[f] = Enqueue(sock[f], IcmpMsg)
    BY <1>2 DEF IcmpArrives
  <2> QED BY <1>0, <2>1 DEF Enqueue, Descriptor
<1>3. ASSUME NEW i \in Idx, NEW how, LoseLink(i, how) PROVE Kept(f)
  <2>1. sock'[f] = sock[f] \/ sock'[f] = [sock[f] EXCEPT !.err = TRUE]
    BY <1>3 DEF LoseLink
  <2> QED BY <1>0, <2>1 DEF Descriptor
<1>4. ASSUME NEW i \in Idx, LinkUp(i) PROVE Kept(f)
  BY <1>4 DEF LinkUp
<1> QED BY <1>1, <1>2, <1>3, <1>4 DEF Outside, Environment, LinkDown, LinkGone

\* Startup is over, or the process.
LEMMA StartOver == ASSUME phase' = "run" \/ pc' \in {"dead", "failed"} PROVE StartInv'
  BY DEF StartInv, Ended

\* What a step leaves of the descriptors, as far as startup is concerned.
LEMMA StartSame ==
    ASSUME StartInv, UNCHANGED <<pc, phase, fdIdx, newSock, pktSock, icmpSock, fds>>,
           \A f \in Fd : /\ sock'[f].kind = sock[f].kind /\ sock'[f].on = sock[f].on
                         /\ sock'[f].filtered = sock[f].filtered,
           TypeOK
    PROVE  StartInv'
<1> USE KernelAssumption
<1>1. CASE phase = "init" /\ ~ Ended
  <2>1. \A i \in Idx : PktStart(i)' /\ IcmpStart(i)'
    BY <1>1, FdCases DEF StartInv, PktStart, IcmpStart, PktDone, IcmpDone, Opening, PktFd, IcmpFd
  <2>2. newSock \in Fd
    BY DEF TypeOK
  <2> QED BY <1>1, <2>1, <2>2, FdCases DEF StartInv, PktFd
<1>2. CASE ~ (phase = "init" /\ ~ Ended)
  BY <1>2 DEF StartInv, Ended
<1> QED BY <1>1, <1>2

LEMMA StartStep == ASSUME Inv, Next, TypeOK' PROVE StartInv'
<1> USE KernelAssumption
    DEF tableVars, pollVars, bufVars, configVars, kernelVars
<1>0. TypeOK /\ StartInv
  BY DEF Inv
<1>1. CASE phase # "init" \/ Ended
  <2>1. phase = "run" \/ pc \in {"dead", "failed"}
    BY <1>0, <1>1 DEF TypeOK, Ended
  <2>2. phase = "run" => phase' = "run"
    BY DEF Next, Daemon, Startup, OpenPacketSocket, Serve, Signalled, Outside,
           AttachFilter, OpenIcmpSocket, SetAllmulti, SetAllmultiFails, Daemonize,
           EnterDispatcher, OpenSocket, BindSocket, OpenFails, PollReturns, PollIdle,
           ScanIn, ScanErr, ScanDone, RxFrame, RxError, RxIcmp, ProcessNS, Recovered,
           Killed, HarmlessSignal, Reload, ReloadFails, Terminate
  <2>3. pc \in {"dead", "failed"} => pc' = pc
    BY DEF Next, Daemon, Startup, OpenPacketSocket, Serve, Signalled, Outside, Goto,
           AttachFilter, OpenIcmpSocket, SetAllmulti, SetAllmultiFails, Daemonize,
           EnterDispatcher, OpenSocket, BindSocket, OpenFails, PollReturns, PollIdle,
           ScanIn, ScanErr, ScanDone, RxFrame, RxError, RxIcmp, ProcessNS, Recovered,
           Killed, HarmlessSignal, Reload, ReloadFails, Terminate, Handling, Ended
  <2> QED BY <2>1, <2>2, <2>3, StartOver
<1>2. CASE phase = "init" /\ ~ Ended
  <2>0. /\ pc \in Starting /\ sock[0].kind = "null"
        /\ \A i \in Idx : PktStart(i) /\ IcmpStart(i)
        /\ \A f \in Fd : f > 2 * N => sock[f].kind = "free"
        /\ \A s \in Slot : fds[s] = -1
        /\ pc \in {"bind", "filter"} => newSock = PktFd(fdIdx)
        /\ pc = "filter" => sock[newSock].on = fdIdx
        /\ pc \in {"socket", "bind", "filter", "icmp", "allmulti"} => fdIdx \in Idx
    BY <1>0, <1>2 DEF StartInv, TypeOK, IfacePcs, OpenPcs
  <2>1. CASE OpenSocket
    <3>1. PICK f \in Fd : /\ LowestFree(f) /\ newSock' = f
                          /\ sock' = [sock EXCEPT ![f] = NewPacketSocket]
      BY <2>1 DEF OpenSocket
    <3>2. pc = "socket" /\ pc' = "bind" /\ fdIdx' = fdIdx /\ pktSock' = pktSock /\ icmpSock' = icmpSock
      BY <2>1 DEF OpenSocket, Goto
    <3>3. f = PktFd(fdIdx) /\ fdIdx \in Idx /\ f # 0
      BY <1>2, <2>0, <3>1, <3>2, LowestAtStart, FdCases DEF Inv
    <3>4. \A i \in Idx : PktStart(i)' /\ IcmpStart(i)'
      <4> SUFFICES ASSUME NEW i \in Idx PROVE PktStart(i)' /\ IcmpStart(i)'
        OBVIOUS
      <4>1. /\ PktDone(i)' <=> i < fdIdx
            /\ PktDone(i) <=> i < fdIdx
            /\ IcmpDone(i)' <=> i < fdIdx
            /\ IcmpDone(i) <=> i < fdIdx
            /\ Opening(i)' <=> i = fdIdx
            /\ ~ Opening(i)
        BY <3>2 DEF PktDone, IcmpDone, Opening
      <4>2. i < fdIdx => i # fdIdx
        BY SMT DEF Idx
      <4>3. sock'[IcmpFd(i)] = sock[IcmpFd(i)] /\ PktFd(i)' = PktFd(i) /\ IcmpFd(i)' = IcmpFd(i)
        BY <1>0, <3>1, <3>3, FdCases DEF TypeOK, PktFd, IcmpFd
      <4>4. IF i = fdIdx THEN sock'[PktFd(i)].kind = "pkt" ELSE sock'[PktFd(i)] = sock[PktFd(i)]
        BY <1>0, <3>1, <3>3, FdCases DEF TypeOK, NewPacketSocket, Closed
      <4> QED BY <2>0, <3>2, <4>1, <4>2, <4>3, <4>4 DEF PktStart, IcmpStart
    <3>5. sock'[0].kind = "null"
      BY <1>0, <2>0, <3>1, <3>3, FdCases DEF TypeOK
    <3>6. newSock' = PktFd(fdIdx)'
      BY <3>1, <3>2, <3>3 DEF PktFd
    <3>9. (\A g \in Fd : g > 2 * N => sock'[g].kind = "free") /\ fds' = fds
      BY <1>0, <2>0, <2>1, <3>1, <3>3, FdCases DEF OpenSocket, TypeOK
    <3> QED BY <2>0, <3>2, <3>4, <3>5, <3>6, <3>9 DEF StartInv, Starting
  <2>2. CASE BindSocket
    <3>1. /\ pc = "bind" /\ pc' = "filter" /\ newSock = PktFd(fdIdx) /\ fdIdx \in Idx
          /\ UNCHANGED <<fdIdx, newSock, pktSock, icmpSock>>
      BY <2>0, <2>2 DEF BindSocket, Goto
    <3>2. /\ \A g \in Fd : g # newSock => sock'[g] = sock[g]
          /\ newSock \in Fd /\ sock'[newSock].kind = sock[newSock].kind
          /\ sock'[newSock].on = fdIdx
      BY <1>0, <2>2 DEF BindSocket, TypeOK, Descriptor
    <3>3. \A i \in Idx : PktStart(i)' /\ IcmpStart(i)'
      <4> SUFFICES ASSUME NEW i \in Idx PROVE PktStart(i)' /\ IcmpStart(i)'
        OBVIOUS
      <4>1. /\ PktDone(i)' <=> i < fdIdx
            /\ PktDone(i) <=> i < fdIdx
            /\ IcmpDone(i)' <=> i < fdIdx
            /\ IcmpDone(i) <=> i < fdIdx
            /\ Opening(i)' <=> i = fdIdx
            /\ Opening(i) <=> i = fdIdx
        BY <3>1 DEF PktDone, IcmpDone, Opening
      <4>2. i < fdIdx => i # fdIdx
        BY SMT DEF Idx
      <4>3. sock'[IcmpFd(i)] = sock[IcmpFd(i)] /\ PktFd(i)' = PktFd(i) /\ IcmpFd(i)' = IcmpFd(i)
        BY <3>1, <3>2, FdCases DEF PktFd, IcmpFd
      <4>4. IF i = fdIdx THEN sock'[PktFd(i)].kind = sock[PktFd(i)].kind
                         ELSE sock'[PktFd(i)] = sock[PktFd(i)]
        BY <3>1, <3>2, FdCases
      <4> QED BY <2>0, <3>1, <4>1, <4>2, <4>3, <4>4 DEF PktStart, IcmpStart
    <3>4. sock'[0].kind = "null"
      BY <2>0, <3>1, <3>2, FdCases
    <3>5. newSock' = PktFd(fdIdx)' /\ sock'[newSock'].on = fdIdx'
      BY <3>1, <3>2 DEF PktFd
    <3>9. (\A g \in Fd : g > 2 * N => sock'[g].kind = "free") /\ fds' = fds
      BY <2>0, <2>2, <3>1, <3>2, FdCases DEF BindSocket
    <3> QED BY <2>0, <3>1, <3>3, <3>4, <3>5, <3>9 DEF StartInv, Starting
  <2>3. CASE AttachFilter
    <3>1. /\ pc = "filter" /\ pc' = "icmp" /\ newSock = PktFd(fdIdx) /\ fdIdx \in Idx
          /\ sock[newSock].on = fdIdx
          /\ UNCHANGED <<fdIdx, icmpSock>> /\ pktSock' = [pktSock EXCEPT ![fdIdx] = newSock]
      BY <2>0, <2>3 DEF AttachFilter, Goto
    <3>2. /\ \A g \in Fd : g # newSock => sock'[g] = sock[g]
          /\ newSock \in Fd /\ sock'[newSock].kind = sock[newSock].kind
          /\ sock'[newSock].on = sock[newSock].on /\ sock'[newSock].filtered
      BY <1>0, <2>3 DEF AttachFilter, TypeOK, Descriptor
    <3>3. \A i \in Idx : PktStart(i)' /\ IcmpStart(i)'
      <4> SUFFICES ASSUME NEW i \in Idx PROVE PktStart(i)' /\ IcmpStart(i)'
        OBVIOUS
      <4>1. /\ PktDone(i)' <=> i < fdIdx \/ i = fdIdx
            /\ PktDone(i) <=> i < fdIdx
            /\ IcmpDone(i)' <=> i < fdIdx
            /\ IcmpDone(i) <=> i < fdIdx
            /\ ~ Opening(i)'
            /\ Opening(i) <=> i = fdIdx
        BY <3>1 DEF PktDone, IcmpDone, Opening
      <4>2. i < fdIdx => i # fdIdx
        BY SMT DEF Idx
      <4>3. sock'[IcmpFd(i)] = sock[IcmpFd(i)] /\ PktFd(i)' = PktFd(i) /\ IcmpFd(i)' = IcmpFd(i)
        BY <3>1, <3>2, FdCases DEF PktFd, IcmpFd
      <4>4. CASE i = fdIdx
        <5>1. sock[PktFd(i)].kind = "pkt"
          BY <2>0, <4>1, <4>2, <4>4 DEF PktStart
        <5>2. /\ pktSock'[i] = PktFd(i) /\ sock'[PktFd(i)].kind = "pkt"
              /\ sock'[PktFd(i)].on = i /\ sock'[PktFd(i)].filtered
          BY <1>0, <3>1, <3>2, <4>4, <5>1 DEF TypeOK
        <5> QED BY <2>0, <3>1, <4>1, <4>2, <4>3, <4>4, <5>2 DEF PktStart, IcmpStart
      <4>5. CASE i # fdIdx
        <5>1. sock'[PktFd(i)] = sock[PktFd(i)] /\ pktSock'[i] = pktSock[i]
          BY <1>0, <3>1, <3>2, <4>5, FdCases DEF TypeOK
        <5> QED BY <2>0, <3>1, <4>1, <4>3, <4>5, <5>1 DEF PktStart, IcmpStart
      <4> QED BY <4>4, <4>5
    <3>4. sock'[0].kind = "null"
      BY <2>0, <3>1, <3>2, FdCases
    <3>9. (\A g \in Fd : g > 2 * N => sock'[g].kind = "free") /\ fds' = fds
      BY <2>0, <2>3, <3>1, <3>2, FdCases DEF AttachFilter
    <3> QED BY <2>0, <3>1, <3>3, <3>4, <3>9 DEF StartInv, Starting
  <2>4. CASE OpenIcmpSocket
    <3>1. PICK f \in Fd : /\ LowestFree(f) /\ icmpSock' = [icmpSock EXCEPT ![fdIdx] = f]
                          /\ sock' = [sock EXCEPT ![f] = NewIcmpSocket]
      BY <2>4 DEF OpenIcmpSocket
    <3>2. pc = "icmp" /\ pktSock' = pktSock
      BY <2>4 DEF OpenIcmpSocket
    <3>3. f = IcmpFd(fdIdx) /\ fdIdx \in Idx /\ f # 0
      BY <1>2, <2>0, <3>1, <3>2, LowestAtStart, FdCases DEF Inv
    <3>4. \/ fdIdx + 1 < N /\ pc' = "socket" /\ fdIdx' = fdIdx + 1
          \/ ~ (fdIdx + 1 < N) /\ pc' = "allmulti" /\ fdIdx' = 0
      BY <2>4 DEF OpenIcmpSocket
    <3>5. \A i \in Idx : PktStart(i)' /\ IcmpStart(i)'
      <4> SUFFICES ASSUME NEW i \in Idx PROVE PktStart(i)' /\ IcmpStart(i)'
        OBVIOUS
      <4>1. /\ PktDone(i)' <=> PktDone(i)
            /\ IcmpDone(i)' <=> IcmpDone(i) \/ i = fdIdx
            /\ IcmpDone(i) <=> i < fdIdx
            /\ ~ Opening(i)' /\ ~ Opening(i)
        BY <3>2, <3>3, <3>4, SMT DEF PktDone, IcmpDone, Opening, Idx
      <4>2. i < fdIdx => i # fdIdx
        BY <3>3, SMT DEF Idx
      <4>3. sock'[PktFd(i)] = sock[PktFd(i)] /\ PktFd(i)' = PktFd(i) /\ IcmpFd(i)' = IcmpFd(i)
        BY <1>0, <3>1, <3>3, FdCases DEF TypeOK, PktFd, IcmpFd
      <4>4. PktStart(i)'
        BY <2>0, <3>2, <4>1, <4>3 DEF PktStart
      <4>5. CASE i = fdIdx
        <5>1. icmpSock'[i] = IcmpFd(i) /\ sock'[IcmpFd(i)].kind = "icmp"
          BY <1>0, <3>1, <3>3, <4>5, FdCases DEF TypeOK, NewIcmpSocket, Closed
        <5> QED BY <4>1, <4>3, <4>4, <4>5, <5>1 DEF IcmpStart
      <4>6. CASE i # fdIdx
        <5>1. sock'[IcmpFd(i)] = sock[IcmpFd(i)] /\ icmpSock'[i] = icmpSock[i]
          BY <1>0, <3>1, <3>3, <4>6, FdCases DEF TypeOK
        <5> QED BY <2>0, <4>1, <4>3, <4>4, <4>6, <5>1 DEF IcmpStart
      <4> QED BY <4>5, <4>6
    <3>6. sock'[0].kind = "null"
      BY <1>0, <2>0, <3>1, <3>3, FdCases DEF TypeOK
    <3>9. (\A g \in Fd : g > 2 * N => sock'[g].kind = "free") /\ fds' = fds
      BY <1>0, <2>0, <2>4, <3>1, <3>3, FdCases DEF OpenIcmpSocket, TypeOK
    <3> QED BY <2>0, <3>4, <3>5, <3>6, <3>9 DEF StartInv, Starting
  <2>5. CASE SetAllmulti
    <3>1. /\ pc = "allmulti" /\ pc' \in {"allmulti", "daemon"}
          /\ UNCHANGED <<sock, pktSock, icmpSock, fds>>
      BY <2>5 DEF SetAllmulti
    <3>2. \A i \in Idx : PktStart(i)' /\ IcmpStart(i)'
      BY <2>0, <3>1 DEF PktStart, IcmpStart, PktDone, IcmpDone, PktFd, IcmpFd
    <3> QED BY <2>0, <3>1, <3>2 DEF StartInv, Starting
  <2>6. CASE SetAllmultiFails \/ Killed \/ OpenFails
    BY <2>6, StartOver DEF SetAllmultiFails, Killed, OpenFails, Fail, Exit
  <2>7. CASE Daemonize
    BY <2>7, StartOver DEF Daemonize
  <2>8. CASE Outside
    <3> QED BY <1>0, <2>8, OutsideKeeps, StartSame DEF Outside
  <2>9. CASE EnterDispatcher \/ Serve
    BY <2>0, <1>2, <2>9 DEF EnterDispatcher, Goto, Starting, Serve, PollReturns, PollIdle,
       ScanIn, ScanErr, ScanDone, RxFrame, RxError, RxIcmp, ProcessNS, Recovered
  <2> QED BY <1>2, <2>1, <2>2, <2>3, <2>4, <2>5, <2>6, <2>7, <2>8, <2>9
        DEF Next, Daemon, Startup, OpenPacketSocket, Signalled, HarmlessSignal, Reload,
            ReloadFails, Terminate, Handling
<1> QED BY <1>1, <1>2

-----------------------------------------------------------------------------
(* The poll loop.                                                          *)

\* The order of the free numbers is a matter of kinds and of what is named.
LEMMA NamedSame == ASSUME UNCHANGED <<pktSock, fds>> PROVE \A f \in Fd : Named(f)' => Named(f)
  BY DEF Named

LEMMA OrderKeeps ==
    ASSUME \A f \in Fd : sock'[f].kind = sock[f].kind,
           \A f \in Fd : Named(f)' => Named(f)
    PROVE  /\ Tight => Tight'
           /\ \A c \in Fd : LooseAt(c) => LooseAt(c)'
           /\ Loose => Loose'
           /\ IcmpOpen /\ icmpSock' = icmpSock => IcmpOpen'
<1>1. \A f \in Fd : Serves(f)' <=> Serves(f)
  BY DEF Serves
<1>2. Tight => Tight'
  BY <1>1 DEF Tight
<1>3. \A c \in Fd : LooseAt(c) => LooseAt(c)'
  BY <1>1 DEF LooseAt
<1>4. Loose => Loose'
  BY <1>3 DEF Loose
<1>5. IcmpOpen /\ icmpSock' = icmpSock => IcmpOpen'
  BY FdCases DEF IcmpOpen, IcmpFd
<1> QED BY <1>2, <1>3, <1>4, <1>5

\* A step between two points of the loop that leaves the kinds of the
\* descriptors and the tables alone, and adds no error to revents.
LEMMA LoopKeeps ==
    ASSUME RunInv, Handling, pc \notin OpenPcs \cup {"enter"},
           pc' \in {"poll", "scan", "rx", "ns", "rxicmp"},
           \A f \in Fd : sock'[f].kind = sock[f].kind,
           UNCHANGED <<pktSock, icmpSock, fds>>,
           \A s \in Slot : "err" \in revents'[s] => "err" \in revents[s]
    PROVE  RunInv'
<1> USE KernelAssumption
<1>1. Tight' /\ IcmpOpen'
  BY NamedSame, OrderKeeps DEF RunInv, OpenPcs
<1>2. CASE ArrayOfSockets
  <2>1. \A i \in Idx : N + i \in Slot
    BY SMT DEF Slot, Idx
  <2>2. ArrayOfSockets'
    BY <1>2, <2>1 DEF ArrayOfSockets, IcmpFd
  <2> QED BY <1>1, <2>2 DEF RunInv
<1>3. CASE ArrayOfZeros
  <2>1. ArrayOfZeros'
    BY <1>3, FdCases DEF ArrayOfZeros, TablesZero, OpenPcs
  <2> QED BY <1>1, <2>1 DEF RunInv
<1> QED BY <1>2, <1>3 DEF RunInv, OpenPcs

\* Reading changes no kind.
LEMMA ReadKeepsKinds ==
    ASSUME TypeOK, NEW g \in Fd, sock' = Dequeued(g) \/ sock' = ErrorTaken(g)
    PROVE  \A f \in Fd : sock'[f].kind = sock[f].kind
<1> SUFFICES ASSUME NEW f \in Fd PROVE sock'[f].kind = sock[f].kind
  OBVIOUS
<1>1. sock \in [Fd -> Descriptor] /\ sock[f] \in Descriptor /\ sock[g] \in Descriptor
  BY DEF TypeOK
<1>2. CASE sock' = Dequeued(g)
  BY <1>1, <1>2 DEF Dequeued, Descriptor
<1>3. CASE sock' = ErrorTaken(g)
  BY <1>1, <1>3 DEF ErrorTaken, Descriptor
<1> QED BY <1>2, <1>3

\* Steps of the loop other than poll's return and the recovery.
LEMMA LoopStep ==
    ASSUME Inv, Handling,
           PollIdle \/ ScanIn \/ ScanDone \/ RxFrame \/ RxError \/ RxIcmp
             \/ ProcessNS \/ HarmlessSignal
    PROVE  RunInv'
<1> USE KernelAssumption DEF tableVars, pollVars, bufVars, configVars, kernelVars
<1>0. TypeOK /\ RunInv
  BY DEF Inv
<1>1. CASE PollIdle \/ ScanIn \/ ScanDone \/ ProcessNS \/ HarmlessSignal
  <2>1. /\ pc \notin OpenPcs \cup {"enter"} /\ pc' \in {"poll", "scan", "rx", "ns", "rxicmp"}
        /\ UNCHANGED <<sock, pktSock, icmpSock, fds>>
    BY <1>1 DEF PollIdle, ScanIn, ScanDone, ProcessNS, HarmlessSignal, Interrupt, Goto,
                Reader, OpenPcs
  <2>2. \A s \in Slot : "err" \in revents'[s] => "err" \in revents[s]
    BY <1>1 DEF PollIdle, ScanIn, ScanDone, ProcessNS, HarmlessSignal
  <2> QED BY <1>0, <2>1, <2>2, LoopKeeps
<1>2. CASE RxFrame \/ RxError
  <2>1. pc = "rx" /\ pc' = "ns" /\ UNCHANGED <<pktSock, icmpSock, fds, revents>>
    BY <1>2 DEF RxFrame, RxError, Goto
  <2>2. pktSock[fdIdx] \in Fd
    BY <2>1, ReadsPackets
  <2>3. \A f \in Fd : sock'[f].kind = sock[f].kind
    BY <1>0, <1>2, <2>2, ReadKeepsKinds DEF RxFrame, RxError
  <2> QED BY <1>0, <2>1, <2>3, LoopKeeps DEF OpenPcs
<1>3. CASE RxIcmp
  <2>1. pc = "rxicmp" /\ pc' = "scan" /\ UNCHANGED <<pktSock, icmpSock, fds, revents>>
    BY <1>3 DEF RxIcmp, Goto
  <2>2. fdIdx \in Slot \ Idx
    BY <1>0, <2>1 DEF TypeOK
  <2>3. fdIdx \div 2 \in Idx
    BY <2>2, SMT DEF Slot, Idx
  <2>4. icmpSock[fdIdx \div 2] \in Fd
    BY <1>0, <2>3 DEF TypeOK
  <2>5. \A f \in Fd : sock'[f].kind = sock[f].kind
    BY <1>0, <1>3, <2>4, ReadKeepsKinds DEF RxIcmp
  <2> QED BY <1>0, <2>1, <2>5, LoopKeeps DEF OpenPcs
<1> QED BY <1>1, <1>2, <1>3

\* The array is filled, and poll reports what is in it.
LEMMA PollStep == ASSUME Inv, Handling, EnterDispatcher \/ PollReturns PROVE RunInv'
<1> USE KernelAssumption DEF tableVars, pollVars, bufVars, configVars, kernelVars
<1>0. TypeOK /\ RunInv /\ QueueInv
  BY DEF Inv
<1>1. \A i \in Idx : i \in Slot /\ i < N /\ N + i \in Slot /\ ~ (N + i < N) /\ (N + i) - N = i
  BY SMT DEF Slot, Idx
<1>2. CASE EnterDispatcher
  <2>1. /\ pc = "enter" /\ pc' = "poll" /\ UNCHANGED <<sock, pktSock, icmpSock>>
        /\ fds' = [s \in Slot |-> FdOfSlot(s)] /\ revents' = [s \in Slot |-> {}]
    BY <1>2 DEF EnterDispatcher, Goto
  <2>2. \A i \in Idx : fds'[i] = pktSock[i] /\ fds'[N + i] = icmpSock[i]
    BY <1>1, <2>1 DEF FdOfSlot
  <2>3. Tight' /\ IcmpOpen'
    <3>1. \A f \in Fd : Named(f)' => Named(f)
      BY <2>1, <2>2 DEF Named
    <3> QED BY <1>0, <2>1, <3>1, OrderKeeps DEF RunInv
  <2>4. CASE TablesBuilt
    <3>1. ArrayOfSockets'
      BY <1>1, <2>1, <2>2, <2>4, FdCases DEF ArrayOfSockets, TablesBuilt, IcmpFd
    <3> QED BY <2>1, <2>3, <3>1 DEF RunInv
  <2>5. CASE TablesZero
    <3>1. \A s \in Slot : (s < N => s \in Idx) /\ (~ (s < N) => s - N \in Idx)
      BY SMT DEF Slot, Idx
    <3>2. \A s \in Slot : FdOfSlot(s) = 0
      BY <2>5, <3>1 DEF TablesZero, FdOfSlot
    <3>3. ArrayOfZeros'
      BY <1>0, <2>1, <2>5, <3>2 DEF ArrayOfZeros, TablesZero, OpenPcs, RunInv
    <3> QED BY <2>1, <2>3, <3>3 DEF RunInv
  <2> QED BY <1>0, <2>1, <2>4, <2>5 DEF RunInv
<1>3. CASE PollReturns
  <2>1. /\ pc = "poll" /\ pc' = "scan" /\ UNCHANGED <<sock, pktSock, icmpSock, fds>>
        /\ revents' = [s \in Slot |-> IF s \in Polled THEN Events(fds[s]) ELSE {}]
    BY <1>3 DEF PollReturns, Goto
  <2>2. Tight' /\ IcmpOpen' /\ IcmpOpen
    BY <1>0, <2>1, NamedSame, OrderKeeps DEF RunInv
  <2>3. ASSUME NEW f \in Fd, sock[f].kind \in {"null", "icmp"}
        PROVE  "err" \notin Events(f)
    BY <1>0, <2>3, SMT DEF Events, QueueInv, QueueOK, Fd
  <2>4. CASE ArrayOfSockets
    <3>1. \A i \in Idx : "err" \notin revents'[N + i]
      BY <1>1, <2>1, <2>2, <2>3, <2>4, FdCases DEF ArrayOfSockets, IcmpOpen
    <3>2. ArrayOfSockets'
      BY <2>1, <2>4, <3>1 DEF ArrayOfSockets, IcmpFd
    <3> QED BY <2>1, <2>2, <3>2 DEF RunInv
  <2>5. CASE ArrayOfZeros
    <3>1. \A s \in Slot : "err" \notin revents'[s]
      BY <2>1, <2>3, <2>5, FdCases DEF ArrayOfZeros
    <3>2. ArrayOfZeros'
      BY <2>1, <2>5, <3>1 DEF ArrayOfZeros, TablesZero, OpenPcs
    <3> QED BY <2>1, <2>2, <3>2 DEF RunInv
  <2> QED BY <1>0, <2>1, <2>4, <2>5 DEF RunInv
<1> QED BY <1>2, <1>3

\* The recovery: what it closes is no ICMPv6 socket, and the lowest number it
\* then gets is the one closed, unless a reload in between took that.
LEMMA RecoveryStep ==
    ASSUME Inv, Handling, ScanErr \/ OpenSocket \/ BindSocket \/ Recovered
    PROVE  RunInv'
<1> USE KernelAssumption DEF tableVars, pollVars, bufVars, configVars, kernelVars
<1>0. /\ TypeOK /\ RunInv /\ IcmpOpen
      /\ \A f, g \in Fd : f \in Int /\ (f < g \/ f = g \/ g < f) /\ ~ (f < g /\ g < f) /\ ~ (f < f)
  BY SMT DEF Inv, RunInv, Fd
<1>1. CASE ScanErr
  <2>1. PICK s \in Slot : /\ NextSlot(s) /\ "in" \notin revents[s] /\ fdIdx' = s
                          /\ sock' = [sock EXCEPT ![FailedSocket(s)] = Closed]
    BY <1>1 DEF ScanErr
  <2>2. /\ pc = "scan" /\ pc' = "socket"
        /\ UNCHANGED <<pktSock, icmpSock, fds, revents, newSock>>
    BY <1>1 DEF ScanErr
  <2>3. s \in Idx /\ ArrayOfSockets /\ Tight
    BY <1>0, <2>1, <2>2, ErrorSlots DEF NextSlot, RunInv
  <2>4. PICK c \in Fd : FailedSocket(s) = c /\ Serves(c)
    BY <1>0, <2>3 DEF FailedSocket, TypeOK, Tight, Named
  <2>5. \A f \in Fd : sock'[f].kind = IF f = c THEN "free" ELSE sock[f].kind
    BY <1>0, <2>1, <2>4 DEF TypeOK, Closed
  <2>6. \A i \in Idx : IcmpFd(i) # c
    BY <1>0, <2>4, FdCases DEF IcmpOpen, Serves
  <2>7. IcmpOpen'
    BY <1>0, <2>2, <2>5, <2>6, FdCases DEF IcmpOpen, IcmpFd
  <2>8. LooseAt(c)'
    <3>1. \A f \in Fd : f < c => sock'[f].kind # "free"
      BY <1>0, <2>3, <2>4, <2>5 DEF Tight, Serves
    <3>2. \A f, g \in Fd : f # c /\ f < g /\ sock'[f].kind = "free" => sock'[g].kind = "free"
      BY <2>3, <2>5 DEF Tight
    <3>3. \A f \in Fd : Named(f)' => f = c \/ Serves(f)'
      BY <2>2, <2>3, <2>5, NamedSame DEF Tight, Serves
    <3> QED BY <2>2, <2>4, <2>5, <3>1, <3>2, <3>3 DEF LooseAt
  <2>9. Loose'
    BY <2>4, <2>8 DEF Loose
  <2>10. ArrayOfSockets'
    BY <2>2, <2>3 DEF ArrayOfSockets, IcmpFd
  <2> QED BY <2>2, <2>7, <2>9, <2>10 DEF RunInv
<1>2. CASE OpenSocket
  <2>1. PICK n \in Fd : /\ LowestFree(n) /\ newSock' = n
                        /\ sock' = [sock EXCEPT ![n] = NewPacketSocket]
    BY <1>2 DEF OpenSocket
  <2>2. /\ pc = "socket" /\ pc' = "bind"
        /\ UNCHANGED <<pktSock, icmpSock, fds, revents, fdIdx>>
    BY <1>2 DEF OpenSocket, Goto
  <2>3. Loose /\ ArrayOfSockets
    BY <1>0, <2>2 DEF RunInv, OpenPcs, ArrayOfZeros
  <2>4. PICK c \in Fd : LooseAt(c)
    BY <2>3 DEF Loose
  <2>5. \A g \in Fd : sock'[g].kind = IF g = n THEN "pkt" ELSE sock[g].kind
    BY <1>0, <2>1 DEF TypeOK, NewPacketSocket, Closed
  <2>6. sock[c].kind = "free" => n = c
    BY <1>0, <2>1, <2>4 DEF LooseAt, LowestFree
  <2>7. Tight'
    <3>1. ASSUME NEW f \in Fd, NEW g \in Fd, f < g, sock'[f].kind = "free"
          PROVE  sock'[g].kind = "free"
      <4>1. f # n /\ sock[f].kind = "free"
        BY <2>5, <3>1
      <4>2. f # c /\ sock[g].kind = "free"
        BY <2>4, <2>6, <3>1, <4>1 DEF LooseAt
      <4>3. g # n
        BY <2>1, <3>1, <4>1 DEF LowestFree
      <4> QED BY <2>5, <4>2, <4>3
    <3>2. ASSUME NEW f \in Fd, Named(f)' PROVE Serves(f)'
      <4>1. f = c \/ Serves(f)
        BY <2>2, <2>4, <3>2, NamedSame DEF LooseAt
      <4>2. sock[c].kind \in {"free", "null", "file", "pkt"}
        BY <1>0, <2>4 DEF LooseAt, TypeOK, Descriptor
      <4> QED BY <2>5, <2>6, <4>1, <4>2 DEF Serves
    <3> QED BY <3>1, <3>2 DEF Tight
  <2>8. IcmpOpen'
    <3>1. \A i \in Idx : IcmpFd(i) # n
      BY <1>0, <2>1, FdCases DEF IcmpOpen, LowestFree
    <3> QED BY <1>0, <2>2, <2>5, <3>1, FdCases DEF IcmpOpen, IcmpFd
  <2>9. ArrayOfSockets'
    BY <2>2, <2>3 DEF ArrayOfSockets, IcmpFd
  <2> QED BY <2>1, <2>2, <2>5, <2>7, <2>8, <2>9 DEF RunInv
<1>3. CASE BindSocket
  <2>1. /\ pc = "bind" /\ pc' = "filter"
        /\ UNCHANGED <<pktSock, icmpSock, fds, revents, fdIdx, newSock>>
    BY <1>3 DEF BindSocket, Goto
  <2>2. sock[newSock].kind = "pkt" /\ Tight /\ ArrayOfSockets /\ newSock \in Fd
    BY <1>0, <2>1 DEF TypeOK, RunInv, OpenPcs, ArrayOfZeros
  <2>3. \A g \in Fd : sock'[g].kind = sock[g].kind
    BY <1>0, <1>3, <2>2 DEF BindSocket, TypeOK, Descriptor
  <2>4. Tight' /\ IcmpOpen'
    BY <1>0, <2>1, <2>2, <2>3, NamedSame, OrderKeeps
  <2>5. ArrayOfSockets'
    BY <2>1, <2>2 DEF ArrayOfSockets, IcmpFd
  <2>6. sock'[newSock'].kind = "pkt"
    BY <2>1, <2>2, <2>3
  <2> QED BY <2>1, <2>4, <2>5, <2>6 DEF RunInv
<1>4. CASE Recovered
  <2>1. CASE pc' \in {"dead", "failed"}
    BY <2>1 DEF RunInv, Handling, Ended
  <2>2. CASE pc' = "scan" /\ sock' = [sock EXCEPT ![newSock].filtered = TRUE]
    <3>1. /\ pc = "filter" /\ pktSock' = [pktSock EXCEPT ![fdIdx] = newSock]
          /\ fds' = [fds EXCEPT ![fdIdx] = newSock] /\ icmpSock' = icmpSock
          /\ revents' = [revents EXCEPT ![fdIdx] = {}]
      BY <1>4 DEF Recovered
    <3>2. /\ sock[newSock].kind = "pkt" /\ newSock \in Fd /\ fdIdx \in Idx
          /\ Tight /\ ArrayOfSockets
      BY <1>0, <3>1 DEF TypeOK, RunInv, OpenPcs, IfacePcs, ArrayOfZeros
    <3>3. \A g \in Fd : sock'[g].kind = sock[g].kind
      BY <1>0, <2>2, <3>2 DEF TypeOK, Descriptor
    <3>4. \A i \in Idx : i \in Slot /\ N + i \in Slot /\ N + i # fdIdx
      BY <3>2, SMT DEF Slot, Idx
    <3>5. \A f \in Fd : Named(f)' => Named(f) \/ f = newSock
      BY <1>0, <3>1, <3>2, <3>4 DEF Named, TypeOK
    <3>6. Tight'
      BY <3>2, <3>3, <3>5 DEF Tight, Serves
    <3>7. IcmpOpen'
      BY <1>0, <3>1, <3>3, FdCases DEF IcmpOpen, IcmpFd
    <3>8. ArrayOfSockets'
      BY <1>0, <3>1, <3>2, <3>4 DEF ArrayOfSockets, TypeOK, IcmpFd
    <3> QED BY <2>2, <3>6, <3>7, <3>8 DEF RunInv
  <2> QED BY <1>4, <2>1, <2>2 DEF Recovered, DropDead, Exit
<1> QED BY <1>1, <1>2, <1>3, <1>4

\* A reload zeroes the table, leaves the array, and takes the lowest number.
LEMMA ReloadStep == ASSUME Inv, Reload PROVE RunInv'
<1> USE KernelAssumption DEF tableVars, pollVars, bufVars, configVars, kernelVars
<1>0. /\ TypeOK /\ RunInv /\ Handling /\ IcmpOpen
      /\ \A f, g \in Fd : (f < g \/ f = g \/ g < f) /\ ~ (f < g /\ g < f) /\ ~ (f < f)
  BY SMT DEF Inv, Reload, RunInv, Fd
<1>1. PICK n \in Fd : LowestFree(n) /\ sock' = [sock EXCEPT ![n] = ConfigStream]
  BY DEF Reload
<1>2. /\ UNCHANGED <<fds, revents, newSock>>
      /\ pktSock' = [i \in Idx |-> 0] /\ icmpSock' = [i \in Idx |-> 0]
  BY DEF Reload
<1>3. \A g \in Fd : sock'[g].kind = IF g = n THEN "file" ELSE sock[g].kind
  BY <1>0, <1>1 DEF TypeOK, ConfigStream, Closed
<1>4. \/ pc' = pc
      \/ pc \notin OpenPcs \cup {"enter"} /\ pc' \in {"ns", "scan"}
  BY DEF Reload, Interrupt, OpenPcs
<1>5. TablesZero'
  BY <1>2 DEF TablesZero
<1>6. IcmpOpen'
  <2>1. \A i \in Idx : IcmpFd(i) # n
    BY <1>0, <1>1, FdCases DEF IcmpOpen, LowestFree
  <2> QED BY <1>0, <1>2, <1>3, <2>1, FdCases DEF IcmpOpen, IcmpFd
<1>7. \A f \in Fd : Named(f)' => Named(f)
  BY <1>2 DEF Named
<1>8. Tight => Tight'
  <2> SUFFICES ASSUME Tight PROVE Tight'
    OBVIOUS
  <2>1. ASSUME NEW f \in Fd, NEW g \in Fd, f < g, sock'[f].kind = "free"
        PROVE  sock'[g].kind = "free"
    BY <1>1, <1>3, <2>1 DEF Tight, LowestFree
  <2>2. \A f \in Fd : Named(f)' => Serves(f)'
    BY <1>3, <1>7 DEF Tight, Serves
  <2> QED BY <2>1, <2>2 DEF Tight
<1>9. Loose => Loose'
  <2> SUFFICES ASSUME NEW c \in Fd, LooseAt(c) PROVE LooseAt(c)'
    BY DEF Loose
  <2>1. ASSUME NEW f \in Fd, NEW g \in Fd, f # c, f < g, sock'[f].kind = "free"
        PROVE  sock'[g].kind = "free"
    BY <1>1, <1>3, <2>1 DEF LooseAt, LowestFree
  <2>2. \A f \in Fd : Named(f)' => f = c \/ Serves(f)'
    BY <1>3, <1>7 DEF LooseAt, Serves
  <2>3. sock'[c].kind # "icmp" /\ \A f \in Fd : f < c => sock'[f].kind # "free"
    BY <1>3 DEF LooseAt
  <2> QED BY <2>1, <2>2, <2>3 DEF LooseAt
<1>10. sock[0].kind = "null" => sock'[0].kind = "null"
  BY <1>1, <1>3, FdCases DEF LowestFree
<1>11. ArrayOfSockets => ArrayOfSockets'
  BY <1>2 DEF ArrayOfSockets, IcmpFd
<1>12. ArrayOfZeros => ArrayOfZeros'
  BY <1>2, <1>4, <1>5, <1>10 DEF ArrayOfZeros, OpenPcs
<1>13. pc \in {"bind", "filter"} => sock'[newSock].kind = "pkt"
  <2>1. newSock \in Fd
    BY <1>0 DEF TypeOK
  <2> QED BY <1>0, <1>1, <1>3, <2>1 DEF RunInv, LowestFree
<1>14. CASE pc' = pc
  BY <1>0, <1>2, <1>5, <1>6, <1>8, <1>9, <1>10, <1>11, <1>12, <1>13, <1>14 DEF RunInv
<1>15. CASE pc \notin OpenPcs \cup {"enter"} /\ pc' \in {"ns", "scan"}
  BY <1>0, <1>6, <1>8, <1>11, <1>12, <1>15 DEF RunInv, OpenPcs
<1> QED BY <1>4, <1>14, <1>15

LEMMA RunOver == ASSUME phase' = "init" \/ pc' \in {"dead", "failed"} PROVE RunInv'
  BY DEF RunInv, Handling, Ended

\* Startup leaves every descriptor open, in both tables.
LEMMA DaemonizeStep == ASSUME Inv, Daemonize PROVE RunInv'
<1> USE KernelAssumption DEF tableVars, pollVars, bufVars, configVars, kernelVars
<1>1. /\ pc = "daemon" /\ pc' = "enter"
      /\ UNCHANGED <<sock, pktSock, icmpSock, fdIdx, fds>>
  BY DEF Daemonize, Goto
<1>2. phase = "init"
  BY <1>1 DEF Inv, RunInv, TypeOK, Handling, Ended
<1>3. /\ sock[0].kind = "null" /\ \A i \in Idx : PktStart(i) /\ IcmpStart(i)
      /\ \A f \in Fd : f > 2 * N => sock[f].kind = "free"
      /\ \A s \in Slot : fds[s] = -1
  BY <1>1, <1>2 DEF Inv, StartInv, Ended
<1>4. \A i \in Idx : /\ pktSock[i] = PktFd(i) /\ icmpSock[i] = IcmpFd(i)
                     /\ sock[PktFd(i)].kind = "pkt" /\ sock[IcmpFd(i)].kind = "icmp"
  BY <1>1, <1>3 DEF PktStart, IcmpStart, PktDone, IcmpDone
<1>5. IcmpOpen' /\ TablesBuilt'
  BY <1>1, <1>4 DEF IcmpOpen, TablesBuilt, PktFd, IcmpFd
<1>6. \A f \in Fd : sock[f].kind = "free" => f > 2 * N
  BY <1>3, <1>4, FdCases
<1>7. \A f, g \in Fd : f < g /\ sock[f].kind = "free" => sock[g].kind = "free"
  <2>1. \A f, g \in Fd : f > 2 * N /\ f < g => g > 2 * N
    BY SMT DEF Fd
  <2> QED BY <1>3, <1>6, <2>1
<1>8. \A f \in Fd : Named(f) => Serves(f)
  <2>1. \A i \in Idx : i \in Slot /\ -1 \notin Fd
    BY SMT DEF Idx, Slot, Fd
  <2> QED BY <1>3, <1>4, <2>1 DEF Named, Serves
<1>9. Tight'
  BY <1>1, <1>7, <1>8, NamedSame DEF Tight, Serves
<1> QED BY <1>1, <1>3, <1>5, <1>9 DEF RunInv

\* Traffic and links close nothing.
LEMMA OutsideRun == ASSUME Inv, Handling, Outside PROVE RunInv'
<1> USE KernelAssumption DEF tableVars, pollVars, bufVars, configVars
<1>0. TypeOK /\ RunInv
  BY DEF Inv
<1>1. \A f \in Fd : sock'[f].kind = sock[f].kind
  BY <1>0, OutsideKeeps
<1>2. UNCHANGED <<pc, fdIdx, newSock, pktSock, icmpSock, fds, revents>>
  BY DEF Outside
<1>3. IcmpOpen' /\ (Tight => Tight') /\ (Loose => Loose')
  BY <1>0, <1>1, <1>2, NamedSame, OrderKeeps DEF RunInv
<1>4. (ArrayOfSockets => ArrayOfSockets') /\ (ArrayOfZeros => ArrayOfZeros')
  BY <1>1, <1>2, FdCases DEF ArrayOfSockets, IcmpFd, ArrayOfZeros, TablesZero, OpenPcs
<1>5. newSock \in Fd /\ 0 \in Fd
  BY <1>0, FdCases DEF TypeOK
<1>6. (TablesBuilt \/ TablesZero) => (TablesBuilt' \/ TablesZero')
  BY <1>2 DEF TablesBuilt, TablesZero, PktFd, IcmpFd
<1> QED BY <1>0, <1>1, <1>2, <1>3, <1>4, <1>5, <1>6 DEF RunInv

LEMMA RunStep == ASSUME Inv, Next, TypeOK' PROVE RunInv'
<1>1. CASE Handling
  <2>1. CASE Startup
    <3>1. phase = "run" /\ pc \notin {"icmp", "allmulti", "daemon"}
      BY <1>1 DEF Inv, RunInv, Handling
    <3> QED BY <1>1, <2>1, <3>1, PollStep
          DEF Startup, AttachFilter, OpenIcmpSocket, SetAllmulti, SetAllmultiFails, Daemonize, Goto
  <2>2. CASE OpenPacketSocket
    BY <1>1, <2>2, RecoveryStep, RunOver DEF OpenPacketSocket, OpenFails, Fail, Exit
  <2>3. CASE Serve
    BY <1>1, <2>3, LoopStep, PollStep, RecoveryStep DEF Serve
  <2>4. CASE Signalled
    BY <1>1, <2>4, LoopStep, ReloadStep, RunOver
       DEF Signalled, Killed, ReloadFails, Terminate, DropDead, Fail, Exit
  <2>5. CASE Outside
    BY <1>1, <2>5, OutsideRun
  <2> QED BY <2>1, <2>2, <2>3, <2>4, <2>5 DEF Next, Daemon
<1>2. CASE Ended
  <2>1. pc' = pc
    BY <1>2 DEF Next, Daemon, Startup, OpenPacketSocket, Serve, Signalled, Outside, Goto,
           AttachFilter, OpenIcmpSocket, SetAllmulti, SetAllmultiFails, Daemonize,
           EnterDispatcher, OpenSocket, BindSocket, OpenFails, PollReturns, PollIdle,
           ScanIn, ScanErr, ScanDone, RxFrame, RxError, RxIcmp, ProcessNS, Recovered,
           Killed, HarmlessSignal, Reload, ReloadFails, Terminate, Handling, Ended
  <2> QED BY <1>2, <2>1, RunOver DEF Ended
<1>3. CASE phase = "init" /\ ~ Ended
  <2>1. CASE Daemonize
    BY <2>1, DaemonizeStep
  <2>2. CASE ~ Daemonize
    <3>1. phase' = phase
      BY <1>3, <2>2
      DEF Next, Daemon, Startup, OpenPacketSocket, Serve, Signalled, Outside,
           AttachFilter, OpenIcmpSocket, SetAllmulti, SetAllmultiFails,
           EnterDispatcher, OpenSocket, BindSocket, OpenFails, PollReturns, PollIdle,
           ScanIn, ScanErr, ScanDone, RxFrame, RxError, RxIcmp, ProcessNS, Recovered,
           Killed, HarmlessSignal, Reload, ReloadFails, Terminate
    <3> QED BY <1>3, <3>1, RunOver
  <2> QED BY <2>1, <2>2
<1> QED BY <1>1, <1>2, <1>3 DEF Handling, Inv, TypeOK

-----------------------------------------------------------------------------
LEMMA InitInv == Init => Inv
<1> USE KernelAssumption
<1> SUFFICES ASSUME Init PROVE Inv
  OBVIOUS
<1>1. /\ sock \in [Fd -> Descriptor] /\ 0 \in Fd
      /\ \A f \in Fd : sock[f] = IF f = 0 THEN DevNull ELSE Closed
  BY FdCases, DescriptorUpdates DEF Init
<1>2. 0 \in Idx /\ Idx \subseteq Slot /\ 0 \in 0 .. 1
  BY SMT DEF Idx, Slot
<1>3. cfg \in Config /\ BootMulti \in [Idx -> BOOLEAN]
  BY DispatcherAssumption DEF Init
<1>4. TypeOK
  BY <1>1, <1>2, <1>3 DEF Init, TypeOK, Starting, IfacePcs, OpenPcs, Message
<1>5. QueueInv
  <2>1. QueueOK(DevNull)
    BY DEF QueueOK, DevNull, Closed
  <2> QED BY <1>1, <2>1, QueueUpdates DEF QueueInv
<1>6. \A i \in Idx : ~ PktDone(i) /\ ~ IcmpDone(i) /\ ~ Opening(i)
  BY SMT DEF Init, PktDone, IcmpDone, Opening, Idx
<1>7. StartInv
  BY <1>1, <1>6, FdCases DEF Init, StartInv, Starting, PktStart, IcmpStart, DevNull, Closed
<1>8. RunInv
  BY DEF Init, RunInv, Handling
<1> QED BY <1>4, <1>5, <1>7, <1>8 DEF Inv

LEMMA NextInv == ASSUME Inv, [Next]_vars PROVE Inv'
<1>1. CASE Next
  <2>1. TypeOK'
    BY <1>1, StartupTypes, OpenTypes, ScanTypes, RxTypes, AnswerTypes, SignalTypes, OutsideTypes
       DEF Inv, Next, Daemon, Serve
  <2> QED BY <1>1, <2>1, QueueStep, StartStep, RunStep DEF Inv
<1>2. CASE UNCHANGED vars
  BY <1>2 DEF vars, kernelVars, tableVars, pollVars, bufVars, configVars, Inv, TypeOK,
              QueueInv, StartInv, RunInv, PktStart, IcmpStart, PktDone, IcmpDone, Opening,
              PktFd, IcmpFd, Handling, Ended, IcmpOpen, Tight, Loose, LooseAt, Named,
              Serves, TablesBuilt, TablesZero, ArrayOfSockets, ArrayOfZeros
<1> QED BY <1>1, <1>2

\* The daemon's inductive invariant.
THEOREM Invariant == Spec => []Inv
  BY InitInv, NextInv, PTL DEF Spec

\* Every variable keeps its type, which is more than it looks: the recovery is
\* never entered for an ICMPv6 slot, and interfaces[] never read past its end.
THEOREM TypeCorrect == Spec => []TypeOK
<1>1. Inv => TypeOK
  BY DEF Inv
<1> QED BY <1>1, Invariant, PTL

\* No slot given to poll names a closed descriptor or one of the other kind,
\* whatever the reloads, links and signals.
THEOREM PollsOpen == Spec => []PolledOpen
<1>1. Inv => PolledOpen
  <2> SUFFICES ASSUME Inv, pc = "poll", NEW s \in Slot
               PROVE  sock[fds[s]].kind \in IF s < N THEN {"null", "file", "pkt"}
                                                     ELSE {"null", "icmp"}
    BY DEF PolledOpen
  <2>1. Handling
    BY PastStartup DEF Starting, Ended
  <2>2. Tight /\ IcmpOpen /\ (ArrayOfSockets \/ ArrayOfZeros)
    BY <2>1 DEF Inv, RunInv
  <2>3. CASE ArrayOfZeros
    BY <2>3 DEF ArrayOfZeros
  <2>4. CASE ArrayOfSockets /\ s < N
    <3>1. s \in Idx
      BY <2>4, KernelAssumption, SMT DEF Slot, Idx
    <3> QED BY <2>2, <2>4, <3>1 DEF ArrayOfSockets, Tight, Named, Serves
  <2>5. CASE ArrayOfSockets /\ ~ (s < N)
    <3>1. s - N \in Idx /\ N + (s - N) = s
      BY <2>5, KernelAssumption, SMT DEF Slot, Idx
    <3> QED BY <2>2, <2>5, <3>1 DEF ArrayOfSockets, IcmpOpen
  <2> QED BY <2>2, <2>3, <2>4, <2>5
<1> QED BY <1>1, Invariant, PTL

-----------------------------------------------------------------------------
(* The tables agree until a reload.                                        *)

LEMMA AgreeOver == ASSUME phase' = "init" \/ pc' \in {"dead", "failed"} PROVE AgreeInv'
  BY DEF AgreeInv, Handling, Ended

\* A step that neither reopens a socket nor changes what a descriptor is.
LEMMA AgreeKeeps ==
    ASSUME AgreeBody, pc \notin OpenPcs \cup {"enter"},
           pc' \notin OpenPcs \cup {"enter"},
           UNCHANGED <<pktSock, icmpSock, fds>>,
           \A f \in Fd : /\ sock'[f].kind = sock[f].kind /\ sock'[f].on = sock[f].on
                         /\ sock'[f].filtered = sock[f].filtered
    PROVE  AgreeBody'
  BY FdCases DEF AgreeBody, TablesBuilt, Reopening, OpenPcs, PktFd, IcmpFd

LEMMA ReadKeeps ==
    ASSUME TypeOK, NEW g \in Fd, sock' = Dequeued(g) \/ sock' = ErrorTaken(g)
    PROVE  \A f \in Fd : /\ sock'[f].kind = sock[f].kind /\ sock'[f].on = sock[f].on
                         /\ sock'[f].filtered = sock[f].filtered
<1> SUFFICES ASSUME NEW f \in Fd
             PROVE  /\ sock'[f].kind = sock[f].kind /\ sock'[f].on = sock[f].on
                    /\ sock'[f].filtered = sock[f].filtered
  OBVIOUS
<1>1. sock \in [Fd -> Descriptor] /\ sock[f] \in Descriptor /\ sock[g] \in Descriptor
  BY DEF TypeOK
<1>2. CASE sock' = Dequeued(g)
  BY <1>1, <1>2 DEF Dequeued, Descriptor
<1>3. CASE sock' = ErrorTaken(g)
  BY <1>1, <1>3 DEF ErrorTaken, Descriptor
<1> QED BY <1>2, <1>3

LEMMA AgreeLoop ==
    ASSUME Inv, AgreeBody,
           PollReturns \/ PollIdle \/ ScanIn \/ ScanDone \/ RxFrame \/ RxError \/ RxIcmp
             \/ ProcessNS \/ HarmlessSignal
    PROVE  AgreeBody'
<1> USE KernelAssumption DEF tableVars, pollVars, bufVars, configVars, kernelVars
<1>0. TypeOK
  BY DEF Inv
<1>1. CASE PollReturns \/ PollIdle \/ ScanIn \/ ScanDone \/ ProcessNS \/ HarmlessSignal
  <2>1. /\ pc \notin OpenPcs \cup {"enter"} /\ pc' \notin OpenPcs \cup {"enter"}
        /\ UNCHANGED <<sock, pktSock, icmpSock, fds>>
    BY <1>1 DEF PollReturns, PollIdle, ScanIn, ScanDone, ProcessNS, HarmlessSignal, Interrupt,
                Goto, Reader, OpenPcs
  <2> QED BY <2>1, AgreeKeeps
<1>2. CASE RxFrame \/ RxError
  <2>1. pc = "rx" /\ pc' = "ns" /\ UNCHANGED <<pktSock, icmpSock, fds>>
    BY <1>2 DEF RxFrame, RxError, Goto
  <2>2. pktSock[fdIdx] \in Fd /\ (sock' = Dequeued(pktSock[fdIdx]) \/ sock' = ErrorTaken(pktSock[fdIdx]))
    BY <1>2, <2>1, ReadsPackets DEF RxFrame, RxError
  <2> QED BY <1>0, <2>1, <2>2, ReadKeeps, AgreeKeeps DEF OpenPcs
<1>3. CASE RxIcmp
  <2>1. pc = "rxicmp" /\ pc' = "scan" /\ UNCHANGED <<pktSock, icmpSock, fds>>
    BY <1>3 DEF RxIcmp, Goto
  <2>2. fdIdx \in Slot \ Idx
    BY <1>0, <2>1 DEF TypeOK
  <2>3. fdIdx \div 2 \in Idx
    BY <2>2, SMT DEF Slot, Idx
  <2>4. icmpSock[fdIdx \div 2] \in Fd
    BY <1>0, <2>3 DEF TypeOK
  <2>5. sock' = Dequeued(icmpSock[fdIdx \div 2]) \/ sock' = ErrorTaken(icmpSock[fdIdx \div 2])
    BY <1>3 DEF RxIcmp
  <2> QED BY <1>0, <2>1, <2>4, <2>5, ReadKeeps, AgreeKeeps DEF OpenPcs
<1> QED BY <1>1, <1>2, <1>3

LEMMA AgreeEnter == ASSUME Inv, AgreeBody, EnterDispatcher PROVE AgreeBody'
<1> USE KernelAssumption DEF tableVars, kernelVars
<1>1. /\ pc = "enter" /\ pc' = "poll" /\ UNCHANGED <<sock, pktSock, icmpSock, fdIdx>>
      /\ fds' = [s \in Slot |-> FdOfSlot(s)]
  BY DEF EnterDispatcher, Goto
<1>2. \A i \in Idx : i \in Slot /\ i < N /\ N + i \in Slot /\ ~ (N + i < N) /\ (N + i) - N = i
  BY SMT DEF Slot, Idx
<1>3. \A i \in Idx : fds'[i] = PktFd(i) /\ fds'[N + i] = IcmpFd(i)
  BY <1>1, <1>2 DEF AgreeBody, TablesBuilt, FdOfSlot
<1> QED BY <1>1, <1>3 DEF AgreeBody, TablesBuilt, Reopening, OpenPcs, PktFd, IcmpFd

LEMMA AgreeRecovery ==
    ASSUME Inv, Handling, AgreeBody,
           ScanErr \/ OpenSocket \/ BindSocket \/ (Recovered /\ pc' = "scan")
    PROVE  AgreeBody'
<1> USE KernelAssumption DEF tableVars, pollVars, bufVars, configVars, kernelVars
<1>0. TypeOK /\ RunInv /\ TablesBuilt /\ sock[0].kind = "null"
  BY DEF Inv, AgreeBody
<1>1. CASE ScanErr
  <2>1. PICK s \in Slot : /\ NextSlot(s) /\ "in" \notin revents[s] /\ fdIdx' = s
                          /\ sock' = [sock EXCEPT ![FailedSocket(s)] = Closed]
    BY <1>1 DEF ScanErr
  <2>2. /\ pc = "scan" /\ pc' = "socket" /\ UNCHANGED <<pktSock, icmpSock, fds>>
    BY <1>1 DEF ScanErr
  <2>3. s \in Idx
    BY <2>1, <2>2, ErrorSlots DEF NextSlot
  <2>4. FailedSocket(s) = PktFd(s)
    BY <1>0, <2>3 DEF FailedSocket, TablesBuilt
  <2>5. \A f \in Fd : f # PktFd(s) => sock'[f] = sock[f]
    BY <1>0, <2>1, <2>4 DEF TypeOK
  <2>6. sock'[0].kind = "null"
    BY <1>0, <2>3, <2>5, FdCases
  <2>7. \A i \in Idx : Reopening(i)' \/ (/\ sock'[PktFd(i)].kind = "pkt" /\ sock'[PktFd(i)].on = i
                                         /\ sock'[PktFd(i)].filtered)
    BY <2>1, <2>2, <2>3, <2>5, FdCases DEF AgreeBody, Reopening, OpenPcs
  <2>8. sock'[PktFd(s)].kind = "free"
    BY <1>0, <2>1, <2>3, <2>4, FdCases DEF TypeOK, Closed
  <2>9. \A f \in Fd : sock'[f].kind = "free" <=> f > 2 * N \/ f = PktFd(s)
    BY <2>2, <2>5, <2>8 DEF AgreeBody
  <2> QED BY <1>0, <2>1, <2>2, <2>6, <2>7, <2>9 DEF AgreeBody, TablesBuilt, PktFd, IcmpFd
<1>2. CASE OpenSocket
  <2>1. PICK f \in Fd : /\ LowestFree(f) /\ newSock' = f
                        /\ sock' = [sock EXCEPT ![f] = NewPacketSocket]
    BY <1>2 DEF OpenSocket
  <2>2. /\ pc = "socket" /\ pc' = "bind" /\ UNCHANGED <<pktSock, icmpSock, fds, fdIdx>>
    BY <1>2 DEF OpenSocket, Goto
  <2>3. fdIdx \in Idx
    BY <1>0, <2>2 DEF TypeOK, IfacePcs, OpenPcs
  <2>4. f = PktFd(fdIdx)
    <3>1. PktFd(fdIdx) \in Fd /\ sock[PktFd(fdIdx)].kind = "free" /\ ~ (PktFd(fdIdx) > 2 * N)
      BY <2>2, <2>3, FdCases DEF AgreeBody
    <3>2. ~ (f > 2 * N)
      BY <2>1, <3>1, SMT DEF LowestFree, Fd
    <3> QED BY <2>1, <2>2, <3>2 DEF AgreeBody, LowestFree
  <2>5. \A g \in Fd : g # PktFd(fdIdx) => sock'[g] = sock[g]
    BY <1>0, <2>1, <2>4 DEF TypeOK
  <2>6. sock'[0].kind = "null"
    BY <1>0, <2>3, <2>5, FdCases
  <2>7. \A i \in Idx : Reopening(i)' \/ (/\ sock'[PktFd(i)].kind = "pkt" /\ sock'[PktFd(i)].on = i
                                         /\ sock'[PktFd(i)].filtered)
    BY <2>2, <2>3, <2>5, FdCases DEF AgreeBody, Reopening, OpenPcs
  <2>8. sock'[PktFd(fdIdx)].kind = "pkt" /\ ~ (PktFd(fdIdx) > 2 * N)
    BY <1>0, <2>1, <2>3, <2>4, FdCases DEF TypeOK, NewPacketSocket, Closed
  <2>9. \A g \in Fd : sock'[g].kind = "free" <=> g > 2 * N
    BY <2>2, <2>5, <2>8 DEF AgreeBody
  <2> QED BY <1>0, <2>1, <2>2, <2>4, <2>6, <2>7, <2>9 DEF AgreeBody, TablesBuilt, PktFd, IcmpFd
<1>3. CASE BindSocket
  <2>1. /\ pc = "bind" /\ pc' = "filter" /\ UNCHANGED <<pktSock, icmpSock, fds, fdIdx, newSock>>
    BY <1>3 DEF BindSocket, Goto
  <2>2. newSock = PktFd(fdIdx) /\ newSock \in Fd /\ fdIdx \in Idx
    BY <1>0, <2>1 DEF AgreeBody, TypeOK, IfacePcs, OpenPcs
  <2>3. /\ \A g \in Fd : g # PktFd(fdIdx) => sock'[g] = sock[g]
        /\ sock'[newSock].on = fdIdx
    BY <1>0, <1>3, <2>2 DEF BindSocket, TypeOK, Descriptor
  <2>4. sock'[0].kind = "null"
    BY <1>0, <2>2, <2>3, FdCases
  <2>5. \A i \in Idx : Reopening(i)' \/ (/\ sock'[PktFd(i)].kind = "pkt" /\ sock'[PktFd(i)].on = i
                                         /\ sock'[PktFd(i)].filtered)
    BY <2>1, <2>2, <2>3, FdCases DEF AgreeBody, Reopening, OpenPcs
  <2>6. \A g \in Fd : sock'[g].kind = sock[g].kind
    BY <1>0, <1>3, <2>2 DEF BindSocket, TypeOK, Descriptor
  <2>7. \A g \in Fd : sock'[g].kind = "free" <=> g > 2 * N
    BY <2>1, <2>6 DEF AgreeBody
  <2> QED BY <1>0, <2>1, <2>2, <2>3, <2>4, <2>5, <2>7 DEF AgreeBody, TablesBuilt, PktFd, IcmpFd
<1>4. CASE Recovered /\ pc' = "scan"
  <2>1. /\ pc = "filter" /\ pktSock' = [pktSock EXCEPT ![fdIdx] = newSock]
        /\ fds' = [fds EXCEPT ![fdIdx] = newSock] /\ icmpSock' = icmpSock
        /\ sock' = [sock EXCEPT ![newSock].filtered = TRUE]
    BY <1>4 DEF Recovered, DropDead, Exit
  <2>2. /\ newSock = PktFd(fdIdx) /\ newSock \in Fd /\ fdIdx \in Idx
        /\ sock[newSock].on = fdIdx
    BY <1>0, <2>1 DEF AgreeBody, TypeOK, IfacePcs, OpenPcs
  <2>3. /\ \A g \in Fd : g # PktFd(fdIdx) => sock'[g] = sock[g]
        /\ sock'[PktFd(fdIdx)].on = fdIdx /\ sock'[PktFd(fdIdx)].filtered
    BY <1>0, <2>1, <2>2 DEF TypeOK, Descriptor
  <2>4. sock'[0].kind = "null"
    BY <1>0, <2>2, <2>3, FdCases
  <2>10. \A g \in Fd : sock'[g].kind = sock[g].kind
    BY <1>0, <2>1, <2>2 DEF TypeOK, Descriptor
  <2>11. sock[newSock].kind = "pkt"
    BY <1>0, <2>1 DEF RunInv
  <2>9. \A g \in Fd : sock'[g].kind = "free" <=> g > 2 * N
    BY <2>1, <2>10 DEF AgreeBody
  <2>5. \A i \in Idx : /\ sock'[PktFd(i)].kind = "pkt" /\ sock'[PktFd(i)].on = i
                       /\ sock'[PktFd(i)].filtered
    BY <2>1, <2>2, <2>3, <2>10, <2>11, FdCases DEF AgreeBody, Reopening, OpenPcs
  <2>6. \A i \in Idx : i \in Slot /\ N + i \in Slot /\ N + i # fdIdx
    BY <2>2, SMT DEF Slot, Idx
  <2>7. \A i \in Idx : fds'[i] = PktFd(i) /\ fds'[N + i] = IcmpFd(i)
    BY <1>0, <2>1, <2>2, <2>6 DEF AgreeBody, TypeOK
  <2>8. TablesBuilt'
    BY <1>0, <2>1, <2>2 DEF TablesBuilt, TypeOK, PktFd, IcmpFd
  <2> QED BY <1>4, <2>4, <2>5, <2>7, <2>8, <2>9 DEF AgreeBody, PktFd, IcmpFd
<1> QED BY <1>1, <1>2, <1>3, <1>4

\* A reload leaves zeros, and nothing else touches the ICMPv6 column.
LEMMA ReloadEmpties == ASSUME Reload PROVE ~ TableFilled'
<1>1. 0 \in Idx
  BY KernelAssumption, SMT DEF Idx
<1> QED BY <1>1 DEF Reload, TableFilled

LEMMA FilledKeeps == ASSUME Inv, Handling, Next, ~ Reload PROVE icmpSock' = icmpSock
<1> USE DEF tableVars
<1>1. phase = "run" /\ pc \notin {"icmp", "allmulti", "daemon"}
  BY DEF Inv, RunInv, Handling
<1>2. CASE Startup
  BY <1>1, <1>2 DEF Startup, AttachFilter, OpenIcmpSocket, SetAllmulti, SetAllmultiFails, Daemonize,
                    EnterDispatcher, Goto
<1>3. CASE OpenPacketSocket
  BY <1>3 DEF OpenPacketSocket, OpenSocket, BindSocket, OpenFails
<1>4. CASE Serve
  BY <1>4 DEF Serve, PollReturns, PollIdle, ScanIn, ScanErr, ScanDone, RxFrame, RxError, RxIcmp,
              ProcessNS, Recovered
<1>5. CASE Signalled
  BY <1>5 DEF Signalled, Killed, HarmlessSignal, ReloadFails, Terminate
<1>6. CASE Outside
  BY <1>6 DEF Outside
<1> QED BY <1>2, <1>3, <1>4, <1>5, <1>6 DEF Next, Daemon

LEMMA AgreeStep ==
    ASSUME Inv, AgreeInv, Next
    PROVE  AgreeInv'
<1> USE KernelAssumption DEF tableVars, pollVars, bufVars, configVars, kernelVars
<1>0. TypeOK
  BY DEF Inv
<1>4. CASE Handling /\ ~ TableFilled
  <2>1. ~ TableFilled'
    BY <1>4, ReloadEmpties, FilledKeeps DEF TableFilled
  <2> QED BY <2>1 DEF AgreeInv
<1>1. CASE Handling /\ TableFilled
  <2>0. AgreeBody
    BY <1>1 DEF AgreeInv, AgreeBody
  <2>1. ASSUME AgreeBody' PROVE AgreeInv'
    BY <2>1 DEF AgreeInv, AgreeBody
  <2>2. CASE Startup
    <3>1. phase = "run" /\ pc \notin {"icmp", "allmulti", "daemon"}
      BY <1>1 DEF Inv, RunInv, Handling
    <3> QED BY <2>0, <2>1, <2>2, <3>1, AgreeEnter
          DEF Startup, AttachFilter, OpenIcmpSocket, SetAllmulti, SetAllmultiFails, Daemonize, Goto
  <2>3. CASE OpenPacketSocket
    BY <1>1, <2>0, <2>1, <2>3, AgreeRecovery, AgreeOver DEF OpenPacketSocket, OpenFails, Fail, Exit
  <2>4. CASE Serve
    BY <1>1, <2>0, <2>1, <2>4, AgreeRecovery, AgreeLoop, AgreeOver
       DEF Serve, Recovered, DropDead, Exit
  <2>5. CASE Signalled
    <3>1. CASE Reload
      BY <3>1, ReloadEmpties DEF AgreeInv
    <3>2. CASE ~ Reload
      BY <2>0, <2>1, <2>5, <3>2, AgreeLoop, AgreeOver
         DEF Signalled, Killed, ReloadFails, Terminate, DropDead, Fail, Exit
    <3> QED BY <3>1, <3>2
  <2>6. CASE Outside
    <3>1. UNCHANGED <<pc, fdIdx, newSock, pktSock, icmpSock, fds>>
      BY <2>6 DEF Outside
    <3>2. newSock \in Fd /\ 0 \in Fd
      BY <1>0, FdCases DEF TypeOK
    <3>3. AgreeBody'
      BY <1>0, <2>0, <2>6, <3>1, <3>2, OutsideKeeps, FdCases
         DEF AgreeBody, TablesBuilt, Reopening, PktFd, IcmpFd
    <3> QED BY <2>1, <3>3
  <2> QED BY <2>2, <2>3, <2>4, <2>5, <2>6 DEF Next, Daemon
<1>2. CASE Ended
  <2>1. pc' = pc
    BY <1>2 DEF Next, Daemon, Startup, OpenPacketSocket, Serve, Signalled, Outside, Goto,
           AttachFilter, OpenIcmpSocket, SetAllmulti, SetAllmultiFails, Daemonize,
           EnterDispatcher, OpenSocket, BindSocket, OpenFails, PollReturns, PollIdle,
           ScanIn, ScanErr, ScanDone, RxFrame, RxError, RxIcmp, ProcessNS, Recovered,
           Killed, HarmlessSignal, Reload, ReloadFails, Terminate, Handling, Ended
  <2> QED BY <1>2, <2>1, AgreeOver DEF Ended
<1>3. CASE phase = "init" /\ ~ Ended
  <2>1. CASE Daemonize
    <3>1. pc = "daemon" /\ pc' = "enter" /\ UNCHANGED <<sock, pktSock, icmpSock>>
      BY <2>1 DEF Daemonize, Goto
    <3>2. /\ sock[0].kind = "null" /\ \A i \in Idx : PktStart(i) /\ IcmpStart(i)
          /\ \A f \in Fd : f > 2 * N => sock[f].kind = "free"
      BY <1>3, <3>1 DEF Inv, StartInv
    <3>3. \A i \in Idx : PktDone(i) /\ IcmpDone(i)
      BY <3>1 DEF PktDone, IcmpDone
    <3>4. \A f \in Fd : sock[f].kind = "free" <=> f > 2 * N
      BY <3>2, <3>3, FdCases DEF PktStart, IcmpStart
    <3> QED BY <3>1, <3>2, <3>3, <3>4
          DEF AgreeInv, AgreeBody, TablesBuilt, PktStart, IcmpStart, PktFd, IcmpFd
  <2>2. CASE ~ Daemonize
    <3>1. phase' = phase
      BY <1>3, <2>2
      DEF Next, Daemon, Startup, OpenPacketSocket, Serve, Signalled, Outside,
           AttachFilter, OpenIcmpSocket, SetAllmulti, SetAllmultiFails,
           EnterDispatcher, OpenSocket, BindSocket, OpenFails, PollReturns, PollIdle,
           ScanIn, ScanErr, ScanDone, RxFrame, RxError, RxIcmp, ProcessNS, Recovered,
           Killed, HarmlessSignal, Reload, ReloadFails, Terminate
    <3> QED BY <1>3, <3>1, AgreeOver
  <2> QED BY <2>1, <2>2
<1> QED BY <1>0, <1>1, <1>2, <1>3, <1>4 DEF Handling, TypeOK

\* Until the first reload the daemon's two tables of descriptors agree: each
\* interface has its own bound and filtered packet socket and its own ICMPv6
\* socket, except while that packet socket is being reopened.
THEOREM TablesAgree == Spec => []SocketsAgree
<1>1. Init => AgreeInv
  BY DEF Init, AgreeInv, AgreeBody, Handling
<1>2. Inv /\ AgreeInv /\ [Next]_vars => AgreeInv'
  <2>1. ASSUME AgreeInv, UNCHANGED vars PROVE AgreeInv'
    BY <2>1 DEF vars, kernelVars, tableVars, pollVars, bufVars, configVars, AgreeInv, AgreeBody,
                Handling, Ended, TablesBuilt, Reopening, PktFd, IcmpFd, TableFilled
  <2> QED BY <2>1, AgreeStep
<1>3. Inv /\ AgreeInv => SocketsAgree
  <2> SUFFICES ASSUME Inv, AgreeInv, Handling, pc # "enter", TableFilled
               PROVE  /\ \A i \in Idx : /\ fds[i] = pktSock[i] /\ fds[N + i] = icmpSock[i]
                                       /\ sock[icmpSock[i]].kind = "icmp"
                                       /\ \/ Reopening(i)
                                          \/ /\ sock[pktSock[i]].kind = "pkt"
                                             /\ sock[pktSock[i]].on = i
                                             /\ sock[pktSock[i]].filtered
                      /\ \A s, t \in Slot : fds[s] = fds[t] => s = t
    BY DEF SocketsAgree
  <2>1. /\ \A i \in Idx : /\ pktSock[i] = PktFd(i) /\ icmpSock[i] = IcmpFd(i)
                          /\ fds[i] = PktFd(i) /\ fds[N + i] = IcmpFd(i)
                          /\ sock[IcmpFd(i)].kind = "icmp"
                          /\ Reopening(i) \/ (/\ sock[PktFd(i)].kind = "pkt"
                                              /\ sock[PktFd(i)].on = i
                                              /\ sock[PktFd(i)].filtered)
    BY DEF Inv, RunInv, IcmpOpen, AgreeInv, AgreeBody, TablesBuilt
  <2>3. ASSUME NEW s \in Slot, NEW t \in Slot, fds[s] = fds[t] PROVE s = t
    <3>1. \A u \in Slot : u \in Idx \/ (u - N \in Idx /\ N + (u - N) = u)
      BY KernelAssumption, SMT DEF Slot, Idx
    <3>2. \A u \in Slot : fds[u] = IF u \in Idx THEN PktFd(u) ELSE IcmpFd(u - N)
      BY <2>1, <3>1
    <3>3. CASE s \in Idx \/ t \in Idx
      BY <2>3, <3>1, <3>2, <3>3, FdCases
    <3>4. CASE s \notin Idx /\ t \notin Idx
      <4>1. s - N = t - N
        BY <2>3, <3>1, <3>2, <3>4, FdCases
      <4> QED BY <3>1, <3>4, <4>1
    <3> QED BY <3>3, <3>4
  <2> QED BY <2>1, <2>3
<1> QED BY <1>1, <1>2, <1>3, Invariant, PTL DEF Spec

-----------------------------------------------------------------------------
(* The collected targets: only an answer adds one, only a reload drops     *)
(* them, and only a reload changes the configuration they were judged by.  *)

CountInv == IsFiniteSet(tRoot) /\ TargetsCounted

LEMMA TargetsMove ==
    ASSUME [Next]_vars
    PROVE  ProcessNS \/ Reload \/ UNCHANGED <<cfg, tRoot, tEntries>>
<1> USE DEF configVars
<1>1. CASE Startup
  BY <1>1 DEF Startup, AttachFilter, OpenIcmpSocket, SetAllmulti, SetAllmultiFails, Daemonize,
              EnterDispatcher
<1>2. CASE OpenPacketSocket
  BY <1>2 DEF OpenPacketSocket, OpenSocket, BindSocket, OpenFails
<1>3. CASE Serve
  BY <1>3 DEF Serve, PollReturns, PollIdle, ScanIn, ScanErr, ScanDone, RxFrame, RxError, RxIcmp,
              Recovered
<1>4. CASE Signalled
  BY <1>4 DEF Signalled, Killed, HarmlessSignal, ReloadFails, Terminate
<1>5. CASE Outside
  BY <1>5 DEF Outside
<1>6. CASE UNCHANGED vars
  BY <1>6 DEF vars
<1> QED BY <1>1, <1>2, <1>3, <1>4, <1>5, <1>6 DEF Next, Daemon

LEMMA CountStep == ASSUME TypeOK, TypeOK', CountInv, [Next]_vars PROVE CountInv'
<1>1. /\ IsFiniteSet(tRoot) /\ tEntries = Cardinality(tRoot)
      /\ tEntries <= cfg.collectTargets
      /\ tEntries \in Nat /\ cfg.collectTargets \in Nat /\ cfg'.collectTargets \in Nat
  BY DEF CountInv, TargetsCounted, TypeOK, Config
<1>2. CASE UNCHANGED <<cfg, tRoot, tEntries>>
  BY <1>2 DEF CountInv, TargetsCounted
<1>3. CASE ProcessNS
  <2>1. cfg' = cfg
    BY <1>3 DEF ProcessNS
  <2>2. \/ UNCHANGED <<tRoot, tEntries>>
        \/ /\ msgdata.target \notin tRoot /\ tEntries < cfg.collectTargets
           /\ tRoot' = tRoot \cup {msgdata.target} /\ tEntries' = tEntries + 1
    BY <1>3 DEF ProcessNS, StoreTarget
  <2>3. /\ IsFiniteSet(tRoot \cup {msgdata.target})
        /\ msgdata.target \notin tRoot =>
             Cardinality(tRoot \cup {msgdata.target}) = Cardinality(tRoot) + 1
    BY <1>1, FS_AddElement
  <2> QED BY <1>1, <2>1, <2>2, <2>3 DEF CountInv, TargetsCounted
<1>4. CASE Reload
  <2>1. \/ tRoot' = {} /\ tEntries' = IF tRoot # {} THEN 0 ELSE tEntries
        \/ /\ UNCHANGED <<tRoot, tEntries>>
           /\ \E f \in Files : "collectTargets" \notin f.sets /\ cfg' = Reread(f)
    BY <1>4 DEF Reload, ZapTargets
  <2>2. IsFiniteSet({}) /\ Cardinality({}) = 0
    BY FS_EmptySet
  <2>3. CASE tRoot' = {} /\ tEntries' = IF tRoot # {} THEN 0 ELSE tEntries
    <3>1. tEntries' = 0
      BY <1>1, <2>2, <2>3
    <3> QED BY <1>1, <2>2, <2>3, <3>1 DEF CountInv, TargetsCounted
  <2>4. CASE UNCHANGED <<tRoot, tEntries>>
    <3>1. CASE \E f \in Files : "collectTargets" \notin f.sets /\ cfg' = Reread(f)
      <4>1. PICK f \in Files : "collectTargets" \notin f.sets /\ cfg' = Reread(f)
        BY <3>1
      <4>2. f.conf \in Config
        BY DispatcherAssumption DEF File
      <4>3. cfg'.collectTargets = cfg.collectTargets
        BY <4>1, <4>2 DEF Reread, Config
      <4> QED BY <1>1, <2>4, <4>3 DEF CountInv, TargetsCounted
    <3> QED BY <2>1, <2>3, <2>4, <3>1
  <2> QED BY <2>1, <2>3, <2>4
<1> QED BY <1>2, <1>3, <1>4, TargetsMove

\* The collected targets are counted right and stay within the limit in force,
\* however many solicitations and reloads there are.
THEOREM CountedRight == Spec => []TargetsCounted
<1>1. Init /\ TypeOK => CountInv
  BY FS_EmptySet DEF Init, CountInv, TargetsCounted, TypeOK, Config
<1>2. TypeOK /\ TypeOK' /\ CountInv /\ [Next]_vars => CountInv'
  BY CountStep
<1>3. CountInv => TargetsCounted
  BY DEF CountInv
<1> QED BY <1>1, <1>2, <1>3, TypeCorrect, PTL DEF Spec

LEMMA EntitledStep ==
    ASSUME \A f \in Files : "collectTargets" \in f.sets, TypeOK, TargetsEntitled, [Next]_vars
    PROVE  TargetsEntitled'
<1>1. CASE UNCHANGED <<cfg, tRoot, tEntries>>
  BY <1>1 DEF TargetsEntitled
<1>2. CASE ProcessNS
  <2>1. cfg' = cfg /\ pc = "ns"
    BY <1>2 DEF ProcessNS, Goto
  <2>2. fdIdx \in Idx
    BY <2>1 DEF TypeOK, IfacePcs
  <2>3. CASE tRoot' = tRoot
    BY <2>1, <2>3 DEF TargetsEntitled
  <2>4. CASE tRoot' # tRoot
    <3>1. tRoot' = tRoot \cup {msgdata.target} /\ Answers(cfg, fdIdx, msgdata)
      BY <1>2, <2>4 DEF ProcessNS, StoreTarget
    <3>2. /\ ListPermits(cfg, msgdata.target)
          /\ addr6match(msgdata.target, cfg.prefix[fdIdx], cfg.prefixLen[fdIdx])
      BY <3>1 DEF Answers
    <3> QED BY <2>1, <2>2, <3>1, <3>2 DEF TargetsEntitled
  <2> QED BY <2>3, <2>4
<1>3. CASE Reload
  BY <1>3 DEF Reload, ZapTargets, TargetsEntitled
<1> QED BY <1>1, <1>2, <1>3, TargetsMove

\* Every collected target is one that the configuration in force entitles some
\* interface to answer for, if every file has a collectTargets line.
THEOREM OnlyEntitledCollected ==
    ASSUME \A f \in Files : "collectTargets" \in f.sets
    PROVE  Spec => []TargetsEntitled
<1>1. Init => TargetsEntitled
  BY DEF Init, TargetsEntitled
<1>2. TypeOK /\ TargetsEntitled /\ [Next]_vars => TargetsEntitled'
  BY EntitledStep
<1> QED BY <1>1, <1>2, TypeCorrect, PTL DEF Spec
=============================================================================
