---------------------------- MODULE RouterAdvert ---------------------------
(***************************************************************************)
(* processICMP, which logs the options of a Router Advertisement, with the *)
(* two reads that fill the buffer it walks over.  The buffer is the        *)
(* dispatcher's msgdata: it is never cleared, and a message overwrites as  *)
(* much of it as it is long.  Options start at multiples of eight octets,  *)
(* so the buffer is a function from units of eight octets to the first two *)
(* of them: the type and the length of an option, if one starts there.     *)
(* The first octet of the message, its ICMPv6 type, is a type too.         *)
(***************************************************************************)
EXTENDS Integers, Sequences, FiniteSets

CONSTANTS Types,      \* option types, and what else a first octet may be
          LinkAddr, PrefixInfo, RA,     \* three of them
          Messages,   \* the ICMPv6 messages that may be received
          Frames,     \* what get_rx may put into the same buffer
          NoMessage,  \* no message was received
          Noise,      \* what the buffer may hold at first
          MsgSize,    \* MAX_MSG_SIZE, in octets
          UIntMax,    \* (unsigned) -1, or any number larger than the buffer
          LogCap      \* bound: the entries kept of the log

VARIABLES pc,         \* "idle", "walk" in processICMP's loop, "wild" after a read outside msgdata
          ralog,
          msgdata, len, counter,
          seen,       \* the option types logged for this message
          sent        \* not in the code: the message as it was sent

vars == <<pc, ralog, msgdata, len, counter, seen, sent>>

\* msgdata[MAX_MSG_SIZE * 2].  (Variant: no larger than one message.)
BufSizeSingle == MsgSize
BufSize == 2 * MsgSize

Unit == 0 .. (2 * MsgSize) \div 8 - 1
Cell == [type : Types, olen : 0 .. 255]

\* A message: its octets, unit by unit, how many there are, and the options
\* its sender put into it.
Message == [cells : [Unit -> Cell], octets : Nat, opts : Seq(Cell)]

ASSUME RouterAdvertAssumption ==
    /\ {LinkAddr, PrefixInfo, RA} \subseteq Types
    /\ MsgSize \in Nat /\ MsgSize >= 32 /\ MsgSize % 8 = 0
    /\ UIntMax \in Nat /\ UIntMax > 2 * MsgSize
    /\ LogCap \in Nat
    /\ Messages \subseteq Message /\ Frames \subseteq Message
    /\ NoMessage \notin Messages
    /\ \A m \in Messages : Len(m.opts) <= LogCap
    /\ Noise \subseteq [Unit -> Cell]

Init ==
    /\ pc = "idle" /\ ralog \in BOOLEAN
    /\ msgdata \in Noise /\ len = 0 /\ counter = 0
    /\ seen = <<>> /\ sent = NoMessage

-----------------------------------------------------------------------------
(* The reads.                                                              *)

\* recvmsg keeps what fits, and writes no octet past the message's last: the
\* message may end between the two octets of an option header.  (Variant: the
\* buffer is given its whole size.)
ReceivedAll(m) == m.octets
Received(m) == IF m.octets < MsgSize THEN m.octets ELSE MsgSize
Filled(m) ==
    [u \in Unit |->
        [type |-> IF 8 * u < Received(m) THEN m.cells[u].type ELSE msgdata[u].type,
         olen |-> IF (8 * u) + 1 < Received(m) THEN m.cells[u].olen ELSE msgdata[u].olen]]

\* processICMP returns at once unless the message is an advertisement.
Entered(buffer) == IF ralog /\ buffer[0].type = RA THEN "walk" ELSE "idle"

\* sizeof(struct nd_router_advert).  (Variant: of the ICMPv6 header alone.)
FirstOptionIcmp == 8
FirstOption == 16

ReceiveIcmp(m) ==
    /\ pc = "idle"
    /\ msgdata' = Filled(m) /\ len' = Received(m)
    /\ pc' = Entered(Filled(m)) /\ counter' = FirstOption
    /\ seen' = <<>> /\ sent' = m
    /\ UNCHANGED ralog

\* get_rx_icmp6 returned -1: the buffer is as it was, and the length becomes
\* the largest unsigned number.
ReceiveFails ==
    /\ pc = "idle"
    /\ len' = UIntMax
    /\ pc' = Entered(msgdata) /\ counter' = FirstOption
    /\ seen' = <<>> /\ sent' = NoMessage
    /\ UNCHANGED <<ralog, msgdata>>

\* A packet socket's frame, which processNS looks at.
ReceiveFrame(m) ==
    /\ pc = "idle"
    /\ msgdata' = Filled(m) /\ len' = Received(m)
    /\ sent' = NoMessage
    /\ UNCHANGED <<pc, ralog, counter, seen>>

\* SIGUSR1 with another value of ralogging.
Reload == pc = "idle" /\ ralog' = ~ ralog /\ UNCHANGED <<pc, msgdata, len, counter, seen, sent>>

-----------------------------------------------------------------------------
(* The walk.  optHdr is always msg + counter.                              *)

\* How much of an option is read: its header, the address after it, or the
\* whole prefix information.
Reads(type) == CASE type = LinkAddr -> 8 [] type = PrefixInfo -> 32 [] OTHER -> 2

Option == msgdata[counter \div 8]
Inside == counter + 2 <= BufSize /\ counter + Reads(Option.type) <= BufSize

\* uint8_t optionLen.  (Variant: one bit less.)
OptionLen7(olen) == (olen * 8) % 128
OptionLen(olen) == (olen * 8) % 256

\* One turn.  watchDog is declared inside the loop: it is 1 where it is
\* compared with 20, in every turn.
Visit ==
    /\ pc = "walk" /\ counter < len /\ Inside
    /\ seen' = IF Len(seen) < LogCap THEN Append(seen, Option.type) ELSE seen
    /\ counter' = counter + OptionLen(Option.olen)
    /\ UNCHANGED <<pc, ralog, msgdata, len, sent>>

\* A read past the end of msgdata may give anything, or end the process.
VisitOutside ==
    /\ pc = "walk" /\ counter < len /\ ~ Inside
    /\ pc' = "wild"
    /\ UNCHANGED <<ralog, msgdata, len, counter, seen, sent>>

Return ==
    /\ pc = "walk" /\ counter >= len
    /\ pc' = "idle"
    /\ UNCHANGED <<ralog, msgdata, len, counter, seen, sent>>

processICMP == Visit \/ VisitOutside \/ Return

Next ==
    \/ \E m \in Messages : ReceiveIcmp(m)
    \/ \E m \in Frames : ReceiveFrame(m)
    \/ ReceiveFails \/ Reload \/ processICMP

\* The walk is one call; nothing has to be received.
Spec == Init /\ [][Next]_vars /\ WF_vars(processICMP)

-----------------------------------------------------------------------------
TypeOK ==
    /\ pc \in {"idle", "walk", "wild"} /\ ralog \in BOOLEAN
    /\ msgdata \in [Unit -> Cell] /\ len \in (0 .. MsgSize) \cup {UIntMax}
    /\ counter \in Nat
    /\ seen \in Seq(Types) /\ sent \in Messages \cup {NoMessage}

\* A walk reads past the end of msgdata only after a read that failed:
\* whatever lengths the options of a received message claim, the buffer is
\* twice as large as a message for what the last of them may reach.
WildAfterFailure == pc = "wild" => len = UIntMax

\* Where the options of a message start, in units, if each is as long as it
\* says; and messages laid out like that, which may be cut off anywhere but
\* between the two octets of an option header.
Start(m) ==
    LET start[n \in 1 .. Len(m.opts) + 1] ==
          IF n = 1 THEN 2 ELSE start[n - 1] + m.opts[n - 1].olen
    IN start

LaidOut(m) ==
    /\ \A n \in DOMAIN m.opts : /\ m.opts[n].olen \in 1 .. 31
                                /\ m.cells[Start(m)[n]] = m.opts[n]
    /\ 8 * Start(m)[Len(m.opts) + 1] >= m.octets
    /\ Received(m) % 8 # 1

Begun(m) == {n \in DOMAIN m.opts : 8 * Start(m)[n] < Received(m)}

\* The walk over such a message logs the options its sender put into it, all
\* that arrived, in order, and none of the messages that were in the buffer
\* before.
LogIsMessage ==
    [][pc = "walk" /\ pc' = "idle" /\ sent # NoMessage /\ LaidOut(sent) =>
         /\ Len(seen) = Cardinality(Begun(sent))
         /\ \A n \in Begun(sent) : seen[n] = sent.opts[n].type]_vars

\* It ends, too.
SoundWalkEnds == (pc = "walk" /\ sent # NoMessage /\ LaidOut(sent)) ~> pc = "idle"
=============================================================================
