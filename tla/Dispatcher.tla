----------------------------- MODULE Dispatcher ----------------------------
(***************************************************************************)
(* The npd6 daemon: startup (main, init_sockets, open_packet_socket,       *)
(* if_allmulti), the poll loop (dispatcher, get_rx, get_rx_icmp6,          *)
(* processNS, storeTarget), its recovery of a failed socket, and the       *)
(* signal handlers (usersignal, readConfig, dropdead), which run between   *)
(* any two steps.  One interface table entry i is spread over the          *)
(* functions pktSock, icmpSock, multiStatus and cfg.prefix, cfg.prefixLen. *)
(***************************************************************************)
EXTENDS Policy, Kernel, FiniteSets

CONSTANTS BootMulti,    \* Idx -> was IFF_ALLMULTI set before npd6 started
          BootConfig,   \* the configuration read at startup
          Files,        \* the files a SIGUSR1 may read; {}: no SIGUSR1
          Noise,        \* what msgdata may read as, where no frame was written
          NoAdvert,     \* before the first advertisement
          SendMayFail,  \* may sendmsg fail on a link that is up?
          Signals,      \* may SIGHUP or SIGUSR2 come?
          ErrorCap      \* bound: the count of poll errors stops here, no limit is above

VARIABLES pc,           \* where the program is
          phase,        \* "init": under init_sockets; "run": under dispatcher
          fdIdx,        \* the loop index of init_sockets, main and dispatcher
          newSock,      \* sock, inside open_packet_socket
          pktSock, icmpSock, multiStatus,   \* interfaces[]
          fds, revents,                     \* the array given to poll
          msgdata, msglen,                  \* the receive buffer, and get_rx's result
          consecutivePollErrors,
          cfg,                              \* the configuration globals
          tRoot, tEntries,                  \* the collected targets and their count
          out           \* the last advertisement; bit alternates with each

tableVars  == <<pktSock, icmpSock, multiStatus>>
pollVars   == <<fds, revents>>
bufVars    == <<msgdata, msglen>>
configVars == <<cfg, tRoot, tEntries>>
vars == <<kernelVars, pc, phase, fdIdx, newSock, tableVars, pollVars, bufVars,
          consecutivePollErrors, configVars, out>>

Slot == 0 .. (2 * N) - 1

Starting == {"socket", "bind", "filter", "icmp", "allmulti", "daemon"}
Ended    == pc \in {"dead", "failed"}     \* exit(0); any other end

\* The handlers of main are installed: a signal no longer just kills.
Handling == phase = "run" /\ ~ Ended

Config ==
    [naRouter : BOOLEAN, naLinkOptFlag : BOOLEAN, nsIgnoreLocal : BOOLEAN,
     listType : {"none", "black", "white"},
     lRoot : SUBSET Address, exprs : SUBSET Address,
     collectTargets : Nat, pollErrorLimit : Nat,
     prefix : [Idx -> Address], prefixLen : [Idx -> Int]]

\* A file as readConfig takes it in: the values it gives, and which of the
\* settings it may leave out it mentions.
Setting == {"naRouter", "naLinkOptFlag", "nsIgnoreLocal", "listType", "collectTargets"}
File == [conf : Config, sets : SUBSET Setting]

ASSUME DispatcherAssumption ==
    /\ BootMulti \in [Idx -> BOOLEAN]
    /\ BootConfig \in Config /\ Files \subseteq File
    /\ \A m \in Frames \cup Noise : m.src \in Address /\ m.dst \in Address /\ m.target \in Address
    /\ SendMayFail \in BOOLEAN /\ Signals \in BOOLEAN
    /\ ErrorCap \in Nat \ {0}
    /\ BootConfig.pollErrorLimit <= ErrorCap
    /\ \A f \in Files : f.conf.pollErrorLimit <= ErrorCap

Goto(from, to) == pc = from /\ pc' = to

Init ==
    /\ link = [i \in Idx |-> "up"]
    /\ allmulti = BootMulti
    /\ sock = [f \in Fd |-> IF f = 0 THEN DevNull ELSE Closed]
    /\ pc = "socket" /\ phase = "init" /\ fdIdx = 0 /\ newSock = 0
    /\ pktSock = [i \in Idx |-> 0] /\ icmpSock = [i \in Idx |-> 0]
    /\ multiStatus = [i \in Idx |-> 0]
    /\ fds = [s \in Slot |-> -1] /\ revents = [s \in Slot |-> {}]
    /\ msgdata \in Noise /\ msglen = 0
    /\ consecutivePollErrors = 0
    /\ cfg = BootConfig /\ tRoot = {} /\ tEntries = 0
    /\ out = [bit |-> 0, na |-> NoAdvert]

-----------------------------------------------------------------------------
(* The end of the process: the kernel closes what it held.                 *)

Exit(how) == pc' = how /\ sock' = [f \in Fd |-> Closed]

\* dropdead: per interface, if_allmulti(nameStr, multiStatus) and two closes,
\* then exit(0).  if_allmulti calls exit(1) where the interface is gone, or
\* where it gets no socket to ask on.
AllmultiExits(i) == link[i] = "gone" \/ (i = 0 /\ NoneLeft)
DropDead ==
    /\ Exit(IF \E i \in Idx : AllmultiExits(i) THEN "failed" ELSE "dead")
    /\ allmulti' = [i \in Idx |-> IF \E j \in 0 .. i : AllmultiExits(j) THEN allmulti[i]
                                  ELSE multiStatus[i] # 0]

Fail == Exit("failed") /\ UNCHANGED allmulti       \* exit(1), or killed

-----------------------------------------------------------------------------
(* open_packet_socket, called by init_sockets and by the recovery.         *)

OpenSocket ==
    /\ Goto("socket", "bind")
    /\ \E f \in Fd : /\ LowestFree(f)
                     /\ newSock' = f
                     /\ sock' = [sock EXCEPT ![f] = NewPacketSocket]
    /\ UNCHANGED <<link, allmulti, phase, fdIdx, tableVars, pollVars, bufVars,
                   consecutivePollErrors, configVars, out>>

\* On a link that is down bind succeeds and leaves ENETDOWN pending.
BindSocket ==
    /\ Goto("bind", "filter")
    /\ link[fdIdx] # "gone"
    /\ sock' = [sock EXCEPT ![newSock].on = fdIdx,
                            ![newSock].err = (link[fdIdx] = "down")]
    /\ UNCHANGED <<link, allmulti, phase, fdIdx, newSock, tableVars, pollVars, bufVars,
                   consecutivePollErrors, configVars, out>>

\* Both callers exit(1): init_sockets' caller after the remaining iterations,
\* which only open sockets that exit closes.
OpenFails ==
    /\ \/ pc = "socket" /\ NoneLeft
       \/ pc = "bind" /\ link[fdIdx] = "gone"
    /\ Fail
    /\ UNCHANGED <<link, phase, fdIdx, newSock, tableVars, pollVars, bufVars,
                   consecutivePollErrors, configVars, out>>

\* SO_ATTACH_FILTER, and the store of the result by init_sockets.
AttachFilter ==
    /\ phase = "init" /\ Goto("filter", "icmp")
    /\ sock' = [sock EXCEPT ![newSock].filtered = TRUE]
    /\ pktSock' = [pktSock EXCEPT ![fdIdx] = newSock]
    /\ UNCHANGED <<link, allmulti, phase, fdIdx, newSock, icmpSock, multiStatus, pollVars,
                   bufVars, consecutivePollErrors, configVars, out>>

\* The threshold of the recovery.  (Variant: the test for "disabled" inverted.)
OverLimitInverted(errors) == cfg.pollErrorLimit = 0 /\ errors >= cfg.pollErrorLimit
OverLimit(errors) == cfg.pollErrorLimit > 0 /\ errors >= cfg.pollErrorLimit

\* The last steps of the recovery: the filter, the store in interfaces[] and
\* fds[], and the count of consecutive errors against its threshold.
Recovered ==
    /\ phase = "run" /\ pc = "filter"
    /\ pktSock' = [pktSock EXCEPT ![fdIdx] = newSock]
    /\ fds' = [fds EXCEPT ![fdIdx] = newSock]
    /\ revents' = [revents EXCEPT ![fdIdx] = {}]
    /\ consecutivePollErrors' = IF consecutivePollErrors < ErrorCap
                                  THEN consecutivePollErrors + 1 ELSE ErrorCap
    /\ IF OverLimit(consecutivePollErrors')
         THEN DropDead /\ UNCHANGED fdIdx
         ELSE /\ pc' = "scan" /\ fdIdx' = fdIdx + 1
              /\ sock' = [sock EXCEPT ![newSock].filtered = TRUE]
              /\ UNCHANGED allmulti
    /\ UNCHANGED <<link, phase, newSock, icmpSock, multiStatus, bufVars, configVars, out>>

-----------------------------------------------------------------------------
(* The rest of startup.                                                    *)

OpenIcmpSocket ==
    /\ pc = "icmp"
    /\ \E f \in Fd : /\ LowestFree(f)
                     /\ icmpSock' = [icmpSock EXCEPT ![fdIdx] = f]
                     /\ sock' = [sock EXCEPT ![f] = NewIcmpSocket]
    /\ IF fdIdx + 1 < N THEN pc' = "socket" /\ fdIdx' = fdIdx + 1
                        ELSE pc' = "allmulti" /\ fdIdx' = 0
    /\ UNCHANGED <<link, allmulti, phase, newSock, pktSock, multiStatus, pollVars, bufVars,
                   consecutivePollErrors, configVars, out>>

\* if_allmulti(name, TRUE) returns current || IFF_ALLMULTI, which is 1.
SetAllmulti ==
    /\ pc = "allmulti" /\ link[fdIdx] # "gone"
    /\ allmulti' = [allmulti EXCEPT ![fdIdx] = TRUE]
    /\ multiStatus' = [multiStatus EXCEPT ![fdIdx] = 1]
    /\ IF fdIdx + 1 < N THEN pc' = "allmulti" /\ fdIdx' = fdIdx + 1
                        ELSE pc' = "daemon" /\ fdIdx' = 0
    /\ UNCHANGED <<link, sock, phase, newSock, pktSock, icmpSock, pollVars, bufVars,
                   consecutivePollErrors, configVars, out>>

SetAllmultiFails ==
    /\ pc = "allmulti" /\ link[fdIdx] = "gone"
    /\ Fail
    /\ UNCHANGED <<link, phase, fdIdx, newSock, tableVars, pollVars, bufVars,
                   consecutivePollErrors, configVars, out>>

\* daemon(0, 0) and the five signal() calls.
Daemonize ==
    /\ Goto("daemon", "enter") /\ phase' = "run"
    /\ UNCHANGED <<kernelVars, fdIdx, newSock, tableVars, pollVars, bufVars,
                   consecutivePollErrors, configVars, out>>

\* A signal before the handlers are installed, or daemon() failing.
Killed ==
    /\ phase = "init" /\ ~ Ended
    /\ Fail
    /\ UNCHANGED <<link, phase, fdIdx, newSock, tableVars, pollVars, bufVars,
                   consecutivePollErrors, configVars, out>>

\* dispatcher() fills fds[]: first the packet sockets, then the ICMPv6 ones.
\* (Variant: the two sockets of an interface side by side.)
FdOfSlotPaired(s) == IF s % 2 = 0 THEN pktSock[s \div 2] ELSE icmpSock[s \div 2]
FdOfSlot(s) == IF s < N THEN pktSock[s] ELSE icmpSock[s - N]

EnterDispatcher ==
    /\ Goto("enter", "poll")
    /\ fds' = [s \in Slot |-> FdOfSlot(s)] /\ revents' = [s \in Slot |-> {}]
    /\ UNCHANGED <<kernelVars, phase, fdIdx, newSock, tableVars, bufVars,
                   consecutivePollErrors, configVars, out>>

-----------------------------------------------------------------------------
(* The poll loop.                                                          *)

\* poll(fds, interfaceCount + 1, ...): slots 0 to N of the 2N in use.
\* (Variant: counted from 1.)
PolledFromOne == 1 .. N
Polled == 0 .. N

PollReturns ==
    /\ Goto("poll", "scan")
    /\ \E s \in Polled : Events(fds[s]) # {}
    /\ revents' = [s \in Slot |-> IF s \in Polled THEN Events(fds[s]) ELSE {}]
    /\ fdIdx' = 0
    /\ UNCHANGED <<kernelVars, phase, newSock, tableVars, fds, bufVars,
                   consecutivePollErrors, configVars, out>>

\* DISPATCH_TIMEOUT passes with nothing to report.
PollIdle ==
    /\ pc = "poll"
    /\ \A s \in Polled : Events(fds[s]) = {}
    /\ consecutivePollErrors' = 0
    /\ UNCHANGED <<kernelVars, pc, phase, fdIdx, newSock, tableVars, pollVars, bufVars,
                   configVars, out>>

\* The next slot of the scan with something in revents.  (Variant: the scan
\* starts one slot late.)
NextSlotLate(s) ==
    /\ s > fdIdx /\ revents[s] # {}
    /\ \A t \in Slot : t > fdIdx /\ t < s => revents[t] = {}
NextSlot(s) ==
    /\ s >= fdIdx /\ revents[s] # {}
    /\ \A t \in Slot : t >= fdIdx /\ t < s => revents[t] = {}

\* A packet socket to read, or an ICMPv6 one.  (Variant: slot N taken for a
\* packet socket.)
ReaderOffByOne(s) == IF s <= N THEN "rx" ELSE "rxicmp"
Reader(s) == IF s < N THEN "rx" ELSE "rxicmp"

ScanIn ==
    /\ pc = "scan"
    /\ \E s \in Slot : /\ NextSlot(s) /\ "in" \in revents[s]
                       /\ fdIdx' = s
                       /\ pc' = Reader(s)
    /\ consecutivePollErrors' = 0
    /\ UNCHANGED <<kernelVars, phase, newSock, tableVars, pollVars, bufVars, configVars, out>>

\* An error and nothing to read: close, sleep(1), and reopen.
\* (Variant: the other socket of the interface closed.)
FailedSocketOther(s) == icmpSock[s]
FailedSocket(s) == pktSock[s]

ScanErr ==
    /\ pc = "scan"
    /\ \E s \in Slot : /\ NextSlot(s) /\ "in" \notin revents[s]
                       /\ fdIdx' = s
                       /\ sock' = [sock EXCEPT ![FailedSocket(s)] = Closed]
    /\ pc' = "socket"
    /\ UNCHANGED <<link, allmulti, phase, newSock, tableVars, pollVars, bufVars,
                   consecutivePollErrors, configVars, out>>

\* The scan is over; the next poll overwrites revents.
ScanDone ==
    /\ Goto("scan", "poll")
    /\ \A s \in Slot : s >= fdIdx => revents[s] = {}
    /\ fdIdx' = 0
    /\ revents' = [s \in Slot |-> {}]
    /\ UNCHANGED <<kernelVars, phase, newSock, tableVars, fds, bufVars,
                   consecutivePollErrors, configVars, out>>

\* get_rx returns a message, or -1 and leaves msgdata as it was.  The
\* dispatcher passes the buffer on in either case.
RxFrame ==
    /\ Goto("rx", "ns") /\ Readable(pktSock[fdIdx])
    /\ msgdata' = Head(sock[pktSock[fdIdx]].rxq) /\ msglen' = 1
    /\ sock' = Dequeued(pktSock[fdIdx])
    /\ UNCHANGED <<link, allmulti, phase, fdIdx, newSock, tableVars, pollVars,
                   consecutivePollErrors, configVars, out>>

RxError ==
    /\ Goto("rx", "ns") /\ ReadFails(pktSock[fdIdx])
    /\ msglen' = -1
    /\ sock' = ErrorTaken(pktSock[fdIdx])
    /\ UNCHANGED <<link, allmulti, phase, fdIdx, newSock, tableVars, pollVars, msgdata,
                   consecutivePollErrors, configVars, out>>

\* get_rx_icmp6(interfaces[fdIdx / 2].icmpSock): the message lands on the head
\* of msgdata.  processICMP only logs.
RxIcmp ==
    /\ Goto("rxicmp", "scan")
    /\ LET f == icmpSock[fdIdx \div 2] IN
       \/ /\ Readable(f)
          /\ msgdata' \in {msgdata} \cup Noise /\ msglen' = 1
          /\ sock' = Dequeued(f)
       \/ ReadFails(f) /\ msglen' = -1 /\ sock' = ErrorTaken(f) /\ UNCHANGED msgdata
    /\ fdIdx' = fdIdx + 1
    /\ UNCHANGED <<link, allmulti, phase, newSock, tableVars, pollVars,
                   consecutivePollErrors, configVars, out>>

\* storeTarget: a target not seen before is kept while there is room.
StoreTarget(t) ==
    IF t \notin tRoot /\ tEntries < cfg.collectTargets
      THEN tRoot' = tRoot \cup {t} /\ tEntries' = tEntries + 1
      ELSE UNCHANGED <<tRoot, tEntries>>

\* sendmsg on interfaces[i].icmpSock with the interface in IPV6_PKTINFO.
CanSend(i) == sock[icmpSock[i]].kind = "icmp" /\ link[i] = "up"

SendAdvert(i, m) ==
    \/ CanSend(i) /\ out' = [bit |-> 1 - out.bit, na |-> Advert(cfg, i, m)]
    \/ (CanSend(i) => SendMayFail) /\ UNCHANGED out

\* processNS on whatever msgdata holds; msglen is not looked at.
ProcessNS ==
    /\ Goto("ns", "scan") /\ fdIdx' = fdIdx + 1
    /\ IF Answers(cfg, fdIdx, msgdata)
         THEN StoreTarget(msgdata.target) /\ SendAdvert(fdIdx, msgdata)
         ELSE UNCHANGED <<tRoot, tEntries, out>>
    /\ UNCHANGED <<kernelVars, phase, newSock, tableVars, pollVars, bufVars,
                   consecutivePollErrors, cfg>>

-----------------------------------------------------------------------------
(* Signals, once handled.  Each handler runs to its end between two steps. *)

\* A handler that returns makes a select() that waits fail with EINTR: get_rx
\* and get_rx_icmp6 return -1.  poll() is simply called again.
Interrupt ==
    \/ /\ pc = "rx" /\ ReadBlocks(pktSock[fdIdx])
       /\ pc' = "ns" /\ msglen' = -1 /\ UNCHANGED fdIdx
    \/ /\ pc = "rxicmp" /\ ReadBlocks(icmpSock[fdIdx \div 2])
       /\ pc' = "scan" /\ fdIdx' = fdIdx + 1 /\ msglen' = -1

Waiting == \/ pc = "rx" /\ ReadBlocks(pktSock[fdIdx])
           \/ pc = "rxicmp" /\ ReadBlocks(icmpSock[fdIdx \div 2])

\* SIGHUP and SIGUSR2 change nothing of the daemon's state.
HarmlessSignal ==
    /\ Signals /\ Handling
    /\ Interrupt
    /\ UNCHANGED <<kernelVars, phase, newSock, tableVars, pollVars, msgdata,
                   consecutivePollErrors, configVars, out>>

\* The collectTargets keyword frees the tree and resets its count.
\* (Variants: the count kept, and the tree kept.)
ZapTreeOnly == tRoot' = {} /\ tEntries' = tEntries
ZapNothing  == tRoot' = tRoot /\ tEntries' = tEntries
ZapTargets == tRoot' = {} /\ tEntries' = IF tRoot # {} THEN 0 ELSE tEntries

\* The globals after f was read: the lists only grow, pollErrorLimit and the
\* prefixes are set anew, and other settings stay where f is silent.
Reread(f) ==
    LET Given(k, new, old) == IF k \in f.sets THEN new ELSE old IN
    [f.conf EXCEPT !.lRoot = @ \cup cfg.lRoot, !.exprs = @ \cup cfg.exprs,
                   !.naRouter = Given("naRouter", @, cfg.naRouter),
                   !.naLinkOptFlag = Given("naLinkOptFlag", @, cfg.naLinkOptFlag),
                   !.nsIgnoreLocal = Given("nsIgnoreLocal", @, cfg.nsIgnoreLocal),
                   !.listType = Given("listType", @, cfg.listType),
                   !.collectTargets = Given("collectTargets", @, cfg.collectTargets)]

\* SIGUSR1: readConfig builds a new, zeroed interfaces[].  It never closes the
\* stream it opens; getLinkaddress closes the socket it opens besides.
Reload ==
    /\ Handling /\ \A i \in Idx : link[i] # "gone"
    /\ \E f, g \in Fd : /\ LowestFree(f)
                        /\ g # f /\ sock[g].kind = "free"
                        /\ sock' = [sock EXCEPT ![f] = ConfigStream]
    /\ \E f \in Files :
         /\ cfg' = Reread(f)
         /\ IF "collectTargets" \in f.sets THEN ZapTargets ELSE UNCHANGED <<tRoot, tEntries>>
    /\ pktSock' = [i \in Idx |-> 0] /\ icmpSock' = [i \in Idx |-> 0]
    /\ multiStatus' = [i \in Idx |-> 0]
    /\ IF Waiting THEN Interrupt ELSE UNCHANGED <<pc, fdIdx, msglen>>
    /\ UNCHANGED <<link, allmulti, phase, newSock, pollVars, msgdata,
                   consecutivePollErrors, out>>

\* A file with an error in it or that cannot be opened, or an interface that
\* has no index any more.
ReloadFails ==
    /\ Handling /\ Files # {}
    /\ Fail
    /\ UNCHANGED <<link, phase, fdIdx, newSock, tableVars, pollVars, bufVars,
                   consecutivePollErrors, configVars, out>>

\* SIGINT or SIGTERM.
Terminate ==
    /\ Handling
    /\ DropDead
    /\ UNCHANGED <<link, phase, fdIdx, newSock, tableVars, pollVars, bufVars,
                   consecutivePollErrors, configVars, out>>

-----------------------------------------------------------------------------
Startup ==
    \/ AttachFilter \/ OpenIcmpSocket \/ SetAllmulti \/ SetAllmultiFails
    \/ Daemonize \/ EnterDispatcher

OpenPacketSocket == OpenSocket \/ BindSocket \/ OpenFails

Serve ==
    \/ PollReturns \/ PollIdle \/ ScanIn \/ ScanErr \/ ScanDone
    \/ RxFrame \/ RxError \/ RxIcmp \/ ProcessNS \/ Recovered

Daemon == Startup \/ OpenPacketSocket \/ Serve

Signalled == Killed \/ HarmlessSignal \/ Reload \/ ReloadFails \/ Terminate

\* The kernel and the links go on without the process.
Outside ==
    /\ Environment
    /\ UNCHANGED <<pc, phase, fdIdx, newSock, tableVars, pollVars, bufVars,
                   consecutivePollErrors, configVars, out>>

Next == Daemon \/ Signalled \/ Outside

\* The daemon is one thread that is scheduled; nothing is assumed of signals,
\* links and traffic.
Spec == Init /\ [][Next]_vars /\ WF_vars(Daemon)

-----------------------------------------------------------------------------
(* What keeps the daemon together.                                         *)

Message == Frames \cup Noise
Descriptor ==
    [kind : {"free", "null", "file", "pkt", "icmp"}, on : Idx \cup {Any}, filtered : BOOLEAN,
     err : BOOLEAN, rxq : Seq(Frames \cup {IcmpMsg})]

\* The slots of interfaces[] in use: reading, answering and reopening happen
\* only for an fdIdx that is an interface.
OpenPcs == {"socket", "bind", "filter"}
IfacePcs == OpenPcs \cup {"icmp", "allmulti", "rx", "ns"}

TypeOK ==
    /\ link \in [Idx -> {"up", "down", "gone"}]
    /\ allmulti \in [Idx -> BOOLEAN]
    /\ sock \in [Fd -> Descriptor]
    /\ pc \in Starting \cup {"enter", "poll", "scan", "rx", "ns", "rxicmp", "dead", "failed"}
    /\ phase \in {"init", "run"}
    /\ fdIdx \in Slot \cup {2 * N} /\ newSock \in Fd
    /\ pc \in IfacePcs => fdIdx \in Idx
    /\ pc = "rxicmp" => fdIdx \in Slot \ Idx
    /\ pktSock \in [Idx -> Fd] /\ icmpSock \in [Idx -> Fd] /\ multiStatus \in [Idx -> 0 .. 1]
    /\ fds \in [Slot -> Fd \cup {-1}] /\ revents \in [Slot -> SUBSET {"in", "err"}]
    /\ msgdata \in Message /\ msglen \in {-1, 0, 1}
    /\ consecutivePollErrors \in Nat
    /\ cfg \in Config /\ tRoot \subseteq Address /\ tEntries \in Nat
    /\ out.bit \in {0, 1}

\* Until a reload puts zeros in it, interfaces[] names the sockets that are
\* polled, whatever the links do: each interface has a packet socket of its
\* own, bound to it and filtered, except while that very socket is being
\* reopened, and an ICMPv6 socket of its own (main.c:189-205, 258-268).  Two
\* copies of each descriptor are kept by hand and descriptor numbers are reused.
Reopening(i) == pc \in OpenPcs /\ fdIdx = i
TableFilled == icmpSock[0] # 0

SocketsAgree ==
    Handling /\ pc # "enter" /\ TableFilled =>
      /\ \A i \in Idx : /\ fds[i] = pktSock[i] /\ fds[N + i] = icmpSock[i]
                       /\ sock[icmpSock[i]].kind = "icmp"
                       /\ \/ Reopening(i)
                          \/ /\ sock[pktSock[i]].kind = "pkt"
                             /\ sock[pktSock[i]].on = i
                             /\ sock[pktSock[i]].filtered
      /\ \A s, t \in Slot : fds[s] = fds[t] => s = t

\* Reloads included, which put zeros in the table and take descriptor numbers:
\* no slot poll() is given ever names a closed descriptor, or a socket of the
\* other kind.
PolledOpen ==
    pc = "poll" => \A s \in Slot :
        sock[fds[s]].kind \in IF s < N THEN {"null", "file", "pkt"} ELSE {"null", "icmp"}

\* The collected targets stay within the limit of the configuration in force,
\* are counted right, and are targets it entitles some interface to answer
\* for, across reloads that change the limit and the lists.  (The second is
\* for files that have a collectTargets line if they change the lists or the
\* prefixes: that line is what drops the old targets.)
TargetsCounted == tEntries = Cardinality(tRoot) /\ tEntries <= cfg.collectTargets
TargetsEntitled ==
    \A t \in tRoot : /\ ListPermits(cfg, t)
                     /\ \E i \in Idx : addr6match(t, cfg.prefix[i], cfg.prefixLen[i])

-----------------------------------------------------------------------------
(* Progress.                                                               *)

\* A solicitation queued on a polled packet socket is taken by get_rx, unless
\* its socket is reopened after an error or the process ends; the interface
\* must not go down and up for ever, which fails every read.
Settles(i) == \E state \in {"up", "down", "gone"} : <>[](link[i] = state)

QueuedIsTaken ==
    \A i \in Idx : Settles(i) =>
      ((Handling /\ pc # "enter" /\ sock[fds[i]].rxq # <<>>)
         ~> (Ended \/ (fdIdx = i /\ (pc \in OpenPcs \/ (pc = "ns" /\ msglen = 1)))))

\* The process ends once an interface disappears with no frame left to read.
GoneEnds ==
    \A i \in Idx :
      (Handling /\ pc # "enter" /\ link[i] = "gone"
         /\ sock[fds[i]].err /\ sock[fds[i]].rxq = <<>>) ~> Ended

\* With a threshold set, errors of a link that stays down end the process if
\* nothing is read any more.
ErrorsEnd ==
    \A i \in Idx :
      (/\ <>[](link[i] = "down" /\ pc \notin {"rx", "rxicmp"})
       /\ []<>(pc = "poll" /\ sock[fds[i]].err)) => <>Ended
=============================================================================
