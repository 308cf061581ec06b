# A model of npd6

npd6 is a Linux daemon that answers IPv6 Neighbor Solicitations (NS) on behalf
of whole prefixes: a host behind it need not be announced one address at a
time. This directory holds TLA+ modules that model the daemon, TLC
configurations that check them on small instances, and theorems about them
checked by TLAPS. File and line numbers refer to the repository's `src/`.

## 1. The system

### Components, their state and their operations

| Component | State | Operations | What makes it correct |
|---|---|---|---|
| Prefix match (`ip6.c`, `addr6match`) | the loop's `idx`, `bdx` | one call | it reads inside the address and answers "do the first bits agree" |
| NS policy and answer (`ip6.c`, `processNS`) | none of its own: it reads the configuration and `interfaces[]` | one call per frame read | answers exactly the solicitations the configuration entitles, once |
| Dispatcher (`main.c`) | `fds[]`, `fdIdx`, `msgdata`, `consecutivePollErrors` | poll, scan, read, recover | no interface starves, an error leads to a reopened socket or the end, descriptors and table agree |
| Sockets and flags (`icmp6.c`) | `pktSock`, `icmpSock`, `multiStatus` of each interface | `open_packet_socket`, `open_icmpv6_socket`, `get_rx`, `get_rx_icmp6`, `if_allmulti`, `init_sockets` | each interface has its own open, bound, filtered socket; flags are given back |
| Startup and termination (`main.c`, `util.c`) | where `main` is | `main`, `dropdead` | |
| Signals (`util.c`, `usersignal`) | none | USR1: `readConfig`; USR2: dump; HUP: nothing; INT, TERM: `dropdead` | a reload leaves a daemon that still serves; an interruption does little to the collected targets |
| Collected targets (`util.c`) | `tRoot`, `tEntries` | `storeTarget`, `dumpAddressData`, `tCompare` | counted right, within the limit |
| Configuration (`config.c`, `readConfig`) | the globals, `interfaces[]`, `lRoot`, the expression list | one call at startup, one per USR1 | as many prefixes as interfaces, every entry inside the table, the outcome that of the whole file |
| Router Advertisement walk (`ip6.c`, `processICMP`) | `counter`, `optHdr` | one call per ICMPv6 message if `ralogging` is on | it ends, inside the buffer, and logs what was received |
| Expression lists (`exparser.c`, `expintf.c`) | the stored texts; while an address is looked up, the parser's state: the names mapped, the errors, the result | `storeExpression`, `compareExpression`, which parses each text anew | a text has the value its grammar gives it; the address is in the list if one of the texts says so |
| Address text (`prefixset`, `build_addr`, `stripwhitespace`) | none | | |
| Logging, usage, service script | | | |

### How they interact

`main` reads the configuration, opens the sockets of each interface in turn
(`init_sockets`), sets `IFF_ALLMULTI` on each (`if_allmulti`), calls
`daemon()`, installs the signal handlers and enters `dispatcher`, which never
returns. The dispatcher copies the descriptors out of `interfaces[]` into
`fds[]` once. From then on, two tables name the same descriptors: `poll` looks
at `fds[]`, everything else at `interfaces[]`. For a slot with `POLLIN` it
calls `get_rx` and hands the buffer to `processNS`; for one with only an error
it closes and reopens the socket of the interface and updates both tables.
Signal handlers run between (and inside) any two of these steps and work on
the same globals: USR1 replaces `interfaces[]` by a new, zeroed table.

### What is hard

There is one thread; the hard part is everything that happens to it between
two of its steps: frames arriving while a socket is half set up, links that
go down and up again or disappear between `poll` and `recvmsg`, errors that
are reported once and consumed by whoever looks first, signals that change
the tables, two copies of descriptor numbers that the kernel reuses.
Two parts are hard in another way: the walk over an advertisement believes
lengths that come from the network and works on a buffer that is never
cleared, and the expression language lets one text change what the next one means.
`PROJECT.json` lists each hazard at its line, with the properties that cover it.

## 2. The modules

| Module | What it models |
|---|---|
| `Addr6` | addresses, the masks, `addr6match` as a value |
| `AddrMatch` | one call of `addr6match`, a state machine over `idx` and `bdx` |
| `Policy` | the early returns of `processNS`, and the advertisement it builds |
| `Kernel` | outside the sources: links, `IFF_ALLMULTI`, descriptors with their queue and pending error; frames arriving, links failing |
| `Dispatcher` | the daemon: startup, poll loop, recovery, signals; EXTENDS `Policy` and `Kernel` |
| `Promise` | which solicitations a configuration entitles to an answer, and to which: stated from the documents, by bits and sets, not from the code |
| `NdProxy` | what npd6 promises: per interface an inbox, served in order, each solicitation it is entitled to answered once |
| `FaultyProxy` | what is left of it when links and sends fail and files are reloaded: frames lost, answered late or again, but none answered or collected that is not entitled to it |
| `DaemonIsProxy` | the refinement mappings from `Dispatcher` to `NdProxy` and to `FaultyProxy`, and statements of the sources that do not hold |
| `ConfigFile` | the lines a configuration file may have, which of them are accepted, and the values they give |
| `ConfigStore` | what reading a file promises, as if it happened at once |
| `ReadConfig` | `readConfig` line by line, call after call; implements `ConfigStore` |
| `Handlers` | `processNS`, `readConfig` and the dump in the steps between which a signal can come, nested in each other |
| `RouterAdvert` | `processICMP` turn by turn, over the buffer as the reads left it |
| `ExprParser` | the expression parser, one operator per function of `exparser.c` |
| `ExprMeaning` | what an expression means, from the grammar in the head of `exparser.c`; independent of the parser |
| `Expression` | `compareExpression`, text by text |
| `MCAddrMatch`, `MCDispatcher`, `MCReadConfig`, `MCHandlers`, `MCRouterAdvert`, `MCExpression` | the instances TLC checks |
| `AddrMatchProofs`, `DispatcherProofs`, `DaemonIsProxyProofs`, `RouterAdvertProofs`, `HandlersProofs`, `ReadConfigProofs` | the theorems |
| `Addr6Proofs`, `Numbers` | lemmas they share: `addr6match` as a value and the bits it compares; induction over a set of numbers |

### State and steps of `Dispatcher`

`pktSock`, `icmpSock`, `multiStatus`, `cfg.prefix` and `cfg.prefixLen` are the
columns of `interfaces[]`; the other fields of `cfg` are the globals
`readConfig` sets. `fds`, `revents` are the array given to `poll`. `msgdata` is
the dispatcher's receive buffer and `msglen` the value the last `get_rx`
returned. `pc` is where the program is. A step is the code between two points
at which something outside can make a difference: between two system calls
that look at or change a socket.

| Step | Code |
|---|---|
| `OpenSocket`, `BindSocket`, `OpenFails`, `AttachFilter` or `Recovered` | `open_packet_socket`, from `init_sockets` and from the recovery |
| `OpenIcmpSocket` | `open_icmpv6_socket` in `init_sockets` |
| `SetAllmulti`, `SetAllmultiFails`, `Daemonize`, `Killed` | `main` |
| `EnterDispatcher`, `PollReturns`, `PollIdle` | the array is filled; `poll` returns with events, or with 0 |
| `ScanIn`, `ScanErr`, `ScanDone` | the `for` over the slots |
| `RxFrame`, `RxError`, `RxIcmp` | `get_rx`, `get_rx_icmp6` |
| `ProcessNS` | `processNS` with `storeTarget` and `sendmsg` |
| `Reload`, `ReloadFails`, `HarmlessSignal`, `Terminate` | `usersignal` |

`get_rx` waits in a `select` without timeout. A step that cannot be taken
(no frame, no error) is the wait; a signal ends it with `EINTR` (`Interrupt`).

A descriptor is a number from 0 to `FdMax`: 0 is `/dev/null` after `daemon()`,
the sockets take the lowest free number, and so does the stream of the
configuration file, which a reload opens and never closes. What is open before the
sockets (1, 2, the log, the stream of the first reading) is left out. `OpenFails` is
`socket` finding no number left, or `bind` finding the interface gone.
Between `socket` and `bind` a packet
socket hears every link and until the filter is attached every type of frame;
what it queued then stays queued. That is Linux behaviour (packet(7)) and the
model keeps it: `Hears` in `Kernel`. A link that goes down leaves `ENETDOWN`
pending on the sockets bound to it, and the error is reported once, by
whichever call comes first, before any queued frame.

### State and steps of `ReadConfig`

`file` is what the file holds, a sequence of lines, and `at` the line `fgets`
returns next. A line is its keyword, its value, the value's `atoi`, and whether `strstr`
finds "interface" in it; the text and its spaces are left out. `CountLine` is the first pass, which sizes
`interfaces[]`; `SkipLine`, `StorePrefix`, `StoreInterface`, `SetValue`,
`SetTargets`, `ListAddress` and `storeExpression` are the cases of the
second, `RefuseLine` its early returns, `StoreOutside` a prefix or name for which the
table has no entry: nothing checks that (`config.c:182-202`), and what the store
overwrites is unknown, so the process is `wild` from then on. `StorePrefix` takes the address of a prefix
from its text: `readConfig` ignores whether `build_addr` could convert it (`config.c:181`), so a text that
`prefixset` takes for a prefix and `inet_pton` does not stores the address of the prefix line before, or
an uninitialised one; `FilesAssumption` leaves such texts out. The remaining steps are `EndOfFile` and `Unpaired`, the
comparison of the counts, and `LookUp` and `LookUpFails`, the loop over the interfaces.
Between two calls the daemon collects targets (`storeTarget`), the only part of its
state that it shares with `readConfig` as a writer. `before` is not in the code: it holds what
the daemon had when the call began, which is what `ConfigStore` sees until it ends.

`Dispatcher!Reload` is a whole call at once, with files that name the interfaces
served before; `ConfigStore` says what a call does to the globals, and the two agree:
lists grow, `pollErrorLimit` starts from its default, a setting that is not
mentioned stays.

An address is `Octets` octets of `Width` bits; nothing depends on 16 and 8.
In the instances it is one octet of three bits (for the daemon) or two octets of
three bits (for `addr6match`).

### State and steps of `Handlers`

Signals are atomic in `Dispatcher`; `Handlers` takes the same code apart for
one interface and leaves out sockets and frames. The main program, the handler of USR1
and the handler of USR2 have a place each (`mpc`, `upc`, `dpc`). A handler
blocks its own signal only, so USR1 may come inside USR2 and the other way round;
`inner` says which came last, and it runs until it returns. The main program
runs when neither is active.

| Step | Code |
|---|---|
| `Solicited`, `CopyLength` | `processNS`: the prefix is copied, then its length (`ip6.c:73-74`) |
| `Switch`, `compareExpression`, `Look`, `Match` | `listType` is read (`ip6.c:161`), the expressions are tried (lines 169 and 184), `tfind` searches the list (175 and 191), the prefix is compared with what was copied |
| `Find`, `Room`, `Insert`, `Count` | `storeTarget`: `tfind`, the limit, `tsearch`, `tEntries++` |
| `Calls` | `tfind` or `tsearch` begins; `Look`, `Find` and `Insert` are their ends |
| `Usr1` | the signal; `interfaces[]` is a new, zeroed table, so the prefix covers everything |
| `SetListType`, `SetPrefix`, `AddExpression`, `AddListed`, `ReadTargets` | a line of the file, in any order |
| `Destroy`, `Reset`, `NoLimit`, `Null`, `SetLimit` | the five statements of the `collectTargets` line |
| `ReloadReturns`, `ReloadExits` | `readConfig` returns, or ends the process |
| `Usr2`, `TestCollect`, `BeginWalk`, `Walk`, `Report` | `dumpAddressData` |

`tfind`, `tsearch` and `twalk` take time: each has a beginning and an end, and if a
handler changes the tree in between (`torn`), or the tree was freed before it began
(`dangling`), the C library promises nothing. What comes before the beginning does no such harm: a
reload between the reading of `listType` and `tfind` is as defined as any other code, `tfind` then
searches the new list, and the target is judged by the old type and the new entries. It is one of the mixtures of two
configurations `OneStray` is about; others are a prefix copied before a reload and a list read after it, and the
prefix of one file with the length of the next. `compareExpression` sees all expressions stored
by the time it ends: texts are appended to an array of fixed size, and its loop reads the count anew each time.
A prefix is a name; with its length it determines the targets it covers (`Covers`), and the zeroed entry has
the prefix `"zero"` and the length 0. A local that is not used again is cleared, which is not in the code and saves states.
Where the C library promises nothing, the process is `wild` (`GoWild`) and
no property says anything of it. That this can happen is part of the model. So
is `malloc` or the log being interrupted by a handler that uses them too, but not in
the model: those calls are treated as safe. `tEntries++` is one
instruction, as the compiler makes it on the machines npd6 is built for.

### State and steps of `RouterAdvert`

Options start at multiples of eight octets, so `msgdata` is a function from such units
to the type and the length octet of an option that may start there. A read
(`ReceiveIcmp`, `ReceiveFrame`) overwrites as much of the buffer as the message is
long, and the rest keeps what earlier messages left. A read that fails
(`ReceiveFails`) changes nothing and gives -1, which as an unsigned number is more
than any buffer. `Visit` is one turn of the loop, `Return` its end, `VisitOutside` a
turn whose option is not, or not wholly, inside the array. `sent` is not in the code:
the message as its sender laid it out, with which `LogIsMessage` compares the log.

The loop's `watchDog` is declared inside it (`ip6.c:372`): it is 1 whenever it is
compared with 20 (`ip6.c:427-433`) and never stops anything. An option whose length
octet is 0 or a multiple of 32 advances the walk by 0 modulo 256, so the walk stays
where it is for ever. `Visit` does that in the model, and `SoundWalkEnds` is therefore
about messages whose options have lengths from 1 to 31.

### State and steps of `Expression`

A text is a sequence of tokens (`s_get_token` drops white space and looks at nothing
else to split a text). `ExprParser` is the recursive descent of `exparser.c`: every
operator takes the parser's state `exp_pstat_t` and returns the state after the call, the value in
its field `v`. The names are the array `exp_mapped_symbol_list` as a sequence of at
most `MaxSymbols`. `compareExpression` maps `PREFIX` and `HOST` to the halves of the
address and evaluates text after text (`NoHit`, `Matches`) until one has no error and
a result other than 0 (`NoneMatches` if there is none). `Trapped` is `%` by zero, which `exparser.c:514`,
unlike `/` at line 494, does not check: the process is killed by `SIGFPE`.

`ExprMeaning` has the other side: expressions as trees, the text of a tree with no
more brackets than the grammar comment (`exparser.c:34-77`) requires, and the value of a tree. It takes
nothing from the parser's arithmetic: what an operator computes is defined again, by the bits of a word
(`BitsOf`, `WithBits`) and by equations (`Congruent`, the quotient in `Operated`). The
run compares what the parser computes for the text with the value of the tree.
The grammar has two levels of operators only, so `a + b == c` and `a & b < c`
group otherwise than in C; the model and the reference follow the grammar. A
shift by the width or more, undefined in C, takes the count modulo the width as x86 does.

The example in `npd6.conf.5`, `(HOST);SEAN=(HOST&0xffff);((SEAN>0x99)&&(SEAN<0x124))`,
is said to match the hosts from ::100 to ::123. As numbers, ::9a to ::ff match as well.

## 3. What TLC checks

| Run | Instance | What it shows |
|---|---|---|
| `addr_match` | all pairs of two-octet addresses, all lengths from -1 to past the end | the loop keeps its invariant, reads inside the address, and agrees with the bit-wise definition if the prefix is clear after its length |
| `reload` | 2 interfaces with frames on both links, one of the links down, up and gone at any step, ICMPv6, signals, failing sends, USR1 at any step by a file that turns a blacklist collecting 2 targets into a whitelist collecting 1, and is silent about the R flag | `SocketsAgree`: until a reload, the two tables name the same, distinct, open, bound and filtered sockets, except for the socket being reopened; `PolledOpen`: though a reload zeroes the table, no slot given to `poll` names a closed descriptor or a socket of the other kind; `TargetsCounted`, `TargetsEntitled`: the collected targets are counted right, within the limit in force, and permitted by the lists in force; `IsFaultyProxy`: the daemon implements `FaultyProxy` |
| `proxy` | 2 interfaces, a blacklist, one frame per early return of `processNS`, queues of 2, links that stay up | the daemon implements `NdProxy`: `IsProxy` for the steps, `IsLiveProxy` for its fairness, that no inbox is left waiting |
| `live` | 2 interfaces, both links down, up and gone at any step | `SocketsAgree` with two failing interfaces; queued solicitations are read; an interface that disappears with nothing queued, or whose errors last, ends the process |
| `config` | two good files, a minimal one, one for each reason to refuse a file and two without room for their interfaces, read in any sequence, two targets collected in between | `TableHolds`: only a file with more prefixes or names than lines that say "interface" is stored past the end of `interfaces[]`, and a call that returns has filled every entry in use; `IsConfigStore`: the outcome is that of `ConfigStore`; `CallsEnd`: every call ends |
| `handlers` | three targets, three files that disagree on list type, expressions, list, prefix, length and limit, USR1 and USR2 at every step of `processNS` and of each other | between two solicitations the count is that of the tree or one above (`CountNear`), the tree exceeds the limit by the one target that was being stored at most (`TreeBounded`), and holds at most one target that the configuration in force does not entitle (`OneStray`), though it may be judged by the list type of one file, the expressions or list of the next and the prefix of either; the total a dump prints is that of its list up to one (`DumpNear`) |
| `router_advert` | ten advertisements laid out properly, some cut off or longer than the buffer, three that are not, frames and failed reads between them | `WildAfterFailure`: the walk leaves the buffer only after a read that failed; `LogIsMessage`: of a message laid out properly it logs exactly the options that arrived, and none an earlier message left in the buffer; `SoundWalkEnds`: it ends |
| `expression` | every pair of operators in both groupings, unary operators around them, `abs`, `mask`; lists of two and three texts that assign and read names, and texts cut at any token | `EvaluatesAsWritten`: value, errors, trap and assignments are those of the grammar; `HitIfAnyMatches`: texts that share no names do not influence each other, whatever errors they contain |

`PROJECT.json` has a mutant for each property: a change of one definition, such as a bug in the
code would make, under which the run finds the property violated.

The runs with `expect: violation` show where the program does something else
than a comment or document says; each is described under `findings` in
`PROJECT.json`:

| Run | The statement | What happens |
|---|---|---|
| `stale_answer` | `msglen` is checked already in `get_rx` | after a failed read the previous frame is processed again |
| `icmp_slot` | the second N slots are the ICMPv6 sockets | slot N + i is read through interface (N + i) / 2 |
| `reload_deaf` | USR1 reloads without a restart | no frame is read any more |
| `flags_restored` | `dropdead` restores the interface flags | it sets `IFF_ALLMULTI` |

Documents and code that disagree, where no run is spent on it because nothing depends on an order of steps:

- What a file that leaves a setting out gets: `etc/npd6.conf.sample` says 100 for
  `collectTargets` (line 74) and 20 for `pollErrorLimit` (line 95); npd6.conf(5) says 0 and 20; the code has 0 and
  10 (`config.c:55`; `collectTargets` is a global that nothing sets before the file). The model, in `Dispatcher` and in
  `ConfigFile!Defaults`, has the code's values, so `IsConfigStore` in the run `config`, which reads a file that
  leaves both out, confirms 0 and 10 and not what the documents say.
- `etc/npd6.conf.sample:96` ends the process on "more than this number" of poll errors; `main.c:271` has `>=`.
  `ErrorsEnd` is about errors that last and holds with either.
- npd6.conf(5) says that a /mask "operates in the traditional" manner of an IP mask; a prefix with a bit set after its
  length, in the octet where it ends, matches nothing (`ip6.c:509` masks the target only; `ReturnsBitMatch` excludes
  such prefixes).

Known behaviour that no run is spent on, because a passing property states its extent:
an
option of length 0 or 32 (`SoundWalkEnds` excludes it); `%` by zero (`EvaluatesAsWritten`
says that it traps); a prefix beyond the number of lines with "interface" in them, or a name in a line
"inter face=...", which the first pass does not count: it is stored past the end of
`interfaces[]`, though a comment (`config.c:63-64`) has the count as a maximum (`TableHolds` says that
it takes such a file).

`GoneEnds` is about an interface that disappears with nothing queued. With a frame
queued, `POLLIN` is looked at first (`main.c:222`), the failing read takes the
error, and the daemon goes on without that interface.

The restrictions on the passing runs follow from these. `proxy` has no link
faults (a failed read answers twice) and no ICMPv6 traffic with two
interfaces (the wrong socket is read and the daemon waits for ever); `live`
has no ICMPv6 traffic for the same reason; neither has reloads. `reload` has all of
them. `SocketsAgree` speaks of the time before the first reload: `TableFilled` is
false once `interfaces[]` is a new table, whose descriptors are 0. The abstract
proxy leaves open which links an interface hears: frames of other links queued before
`bind` are in its inbox, as they are in the daemon's queue.

What `proxy` has to exclude, `IsFaultyProxy` includes. The abstract `FaultyProxy` keeps the set of frames
that are queued anywhere (`NotYetRead`), the message in the buffer (`msgdata`) and the configuration in force. A step
may lose frames, and the buffer may be answered again after a failed read or hold something that is no frame; but
an advertisement is the `Reply` to what the buffer holds, that must be `Entitled` to it on the interface it goes
out on, and a reload merges lists and settings as `Reconfigure` says, and does nothing else. After a reload in the code the descriptors in
`interfaces[]` are 0, so no advertisement can be sent any more (`reload_deaf`): what the property then says is about the targets
that are collected: those of the message in the buffer, which is handled again after each read that fails.

### Bounds

`QMax` messages per socket queue (the kernel drops the rest, as it does with a
full receive buffer): 1 is enough for "queued or not", 2 for order.
The count of poll errors stops at `ErrorCap`; no limit is above it, so that the
comparison with the limit comes out as it would without the bound. Configurations,
frames and addresses are those in `MCDispatcher`: each frame takes a different
path through `processNS`, and the two prefixes have different lengths, one of
which ends inside the octet. Two interfaces are the smallest number for which slot arithmetic,
descriptor reuse and starvation can go wrong. `FdMax` is 2N + 2 in `reload`: a
reload needs a number for its stream and one for the socket of `getLinkaddress`, so the first
reload succeeds and leaks one number, and the next succeeds only in the place of
a socket that is being reopened, which then finds none.
`MAX_EXPRESSION_ENTRIES` is 2, not 64, so that a third expression is dropped.
`Faulty` is the set of interfaces whose links may fail: both in `live`, the second one in `reload`,
where the first keeps serving, or waiting, while the other is reopened.

In `handlers`, three targets, two prefixes and two lengths besides the zeroed ones, and limits of 0 and 2 let a target be stored before,
during and after a reload and the limit be reached; each file's list or prefix excludes
a target another one admits. In `router_advert` a message holds 34 units, the room for an
option of 31 units, the longest that advances, and one more; the buffer holds two such messages, and five
entries of the log are kept, one more than any message has options. In `expression`
a word has two bytes of two bits, so that `mask` has more than one byte and values
wrap; there are three names instead of 32, so that a second assignment finds no room;
texts are at most a dozen tokens, and cut anywhere, as `storeExpression` cuts
at 127 characters. The passing runs have from 10 thousand to 4.1 million distinct states.

### Fairness

The daemon is one process: `WF_vars(Daemon)` says that it is scheduled while it
can take a step. Nothing is assumed of traffic, links or signals. `QueuedIsTaken`
requires that the interface asked about does not go down and up for ever: each time, the
error is reported in place of a frame. `ErrorsEnd` requires that the link stays down and that
no other traffic is read, since every read resets the error count.
In `ReadConfig` the fairness is on the call (`WF_vars(Read)`), which is one function that runs
to its end; no signal has to come. In `RouterAdvert` it is on the walk
(`WF_vars(processICMP)`), for the same reason; nothing has to be received.

## 4. What is proved

TLAPS checks these for every value of the constants, not only for the instances of section 3.
Every safety invariant, action property and refinement a passing run checks is a theorem,
but for those of `Expression` and for liveness.

| Module | Theorem | It states |
|---|---|---|
| `AddrMatchProofs` | `LoopCorrect`, `ReadsInBounds` | `Spec => []LoopInv`, `Spec => []InBounds` |
| | `MatchIsBitMatch` | `Spec => []ReturnsBitMatch` |
| `DispatcherProofs` | `Invariant`, `TypeCorrect` | `Spec => []Inv`, and with it `TypeOK` |
| | `PollsOpen` | `Spec => []PolledOpen`, with reloads and link faults |
| | `TablesAgree` | `Spec => []SocketsAgree`, likewise |
| | `CountedRight` | `Spec => []TargetsCounted` |
| | `OnlyEntitledCollected` | `Spec => []TargetsEntitled` where every file has a `collectTargets` line |
| `DaemonIsProxyProofs` | `DaemonServes` | `Spec => IsProxy` where links stay up, sends succeed, nothing is reloaded and prefixes are clear after their length (`Undisturbed`) |
| | `FaultyDaemonServes` | `Spec => IsFaultyProxy`, with everything that goes wrong |
| | `AnswersWhatWasRead` | `Spec => AnswersReceived` where `Undisturbed` |
| | `RightForOneInterface` | until a reload, `ReadsPolledSocket` holds at a read of an ICMPv6 slot exactly if `N = 1` |
| `ReadConfigProofs` | `TableIsLargeEnough` | `Spec => []TableHolds` |
| | `ReadsAtOnce` | `Spec => IsConfigStore` |
| `HandlersProofs` | `TypesKept`, `CountStaysNear`, `TreeStaysBounded`, `DumpStaysNear` | `TypeOK`, `CountNear`, `TreeBounded`, `DumpNear` always |
| | `AtMostOneStray` | `Spec => []OneStray` where every file has a `collectTargets` line |
| `RouterAdvertProofs` | `TypesKept`, `WalkInside` | `Spec => []TypeOK`, `Spec => []WildAfterFailure` |
| | `LogsWhatWasSent` | `Spec => LogIsMessage` |

**`AddrMatchProofs`**, from `Addr6Assumption` and `LengthsAssumption` (at least one octet of
at least one bit; prefix lengths are integers). The loop of `addr6match` keeps `LoopInv`: the
octets before `idx` agree and `bdx` is what is left of the length. An
access is to an octet of the address, and a call returns the octet-wise match. That this is the bit-wise one
is arithmetic: an octet masked to its first bits is what is left after the others are
divided away (`Addr6Proofs`), two octets whose first bits agree have the same quotient, by
induction over the number of bits, and where the prefix has no bit after its length the mask
the code applies to the target only makes no difference.

**`DispatcherProofs`**, from `KernelAssumption` and `DispatcherAssumption` (at least
one interface, more than 2N descriptors, frames carry addresses, configurations have their
types). Neither `PolledOpen` nor `SocketsAgree` is inductive: that a socket is open depends on how
the kernel numbers it. Interface i is given the descriptors 2i+1 and 2i+2 at
startup (`StartInv`: those opened so far, and nothing else). Afterwards no
number is free below one in use, and a descriptor that `pktSock` or `fds` names
for a packet socket (`Named`) is one, or `/dev/null`, or a leaked stream
(`Serves`); the two together are `Tight`. A recovery closes one number c, which is
then the lowest free one and is given back; between the two steps the numbers
in use have a gap at c (`LooseAt`). A reload there fills the gap with its stream, so a slot of
`fds` names the stream until the recovery replaces it. The
ICMPv6 sockets keep their numbers (`IcmpOpen`). A reload puts zeros in `interfaces[]`, so a
recovery after one closes and reopens descriptor 0, and a reload before the array is filled
leaves an array of zeros that never reports an error (`ArrayOfZeros`). `QueueInv` says that only
packet sockets have errors pending: an error in one of the last N slots
would send the recovery past the end of `interfaces[]`. `TablesAgree` adds
`AgreeInv`, which says more of the tables while they are filled; a reload makes it
vacuous (`ReloadEmpties`), and nothing fills `interfaces[]` again
(`FilledKeeps`). The collected targets need no more than `TypeOK`; `TargetsMove` shows that only
`ProcessNS` and `Reload` touch them.

**`DaemonIsProxyProofs`** shows the daemon to implement `NdProxy`, for any number of interfaces, queue length,
frames and configuration. On top of the invariants of `DispatcherProofs` it needs `QuietInv`: no error
is pending, no socket is being reopened, no read fails or waits, and the tables name the
sockets of startup. Then each step is one of the proxy's or a stutter: a frame that arrives, one that
is taken from its inbox by `RxFrame`, and `ProcessNS`, which answers exactly when the promise
entitles the frame. The last is where the code and the promise differ in form: the early
returns and the masks of `processNS` on one side, "the first bits agree" on the other.
`Undisturbed` holds in the `proxy` run, and section 3 says what goes wrong without
each part of it; ICMPv6 traffic, which the run leaves out for the sake of `IsLiveProxy`, is allowed here.

`FaultyDaemonServes` has no such hypothesis: any links may fail, any sends, any number of reloads of
any files may come, the buffer may hold anything at first, and prefixes may have bits after their length (such a prefix
matches nothing, and `MatchImpliesSameBits` of `Addr6Proofs` needs no more than that what matches has the
same bits). The invariant is the one of `DispatcherProofs`. The steps fall into a few
kinds: those that end the process (`GivesUp`), those before the poll loop and in it
that touch neither buffer nor answer (`Prepares`, `Moves`), `RxFrame`, `RxIcmp`, `ProcessNS`, `Reload`, and
what happens outside. For the first two the one question is `NotYetRead`: closing, reopening and reading a
socket only takes frames away from the queues (`Drains`, `DrainsLose`), whichever number the socket is given next.
`ProcessAnswers` is the agreement of code and promise again, without the invariant `QuietInv`; `ReloadReconfigures`
that what a reload makes of the settings is the merge `FaultyProxy` allows.

Two more theorems say how far the findings `stale_answer` and `icmp_slot` go. `AnswersWhatWasRead`: undisturbed, the
comment is true, since a read that `poll` announced neither fails nor waits, and so no signal
interrupts it either (`Unreached`, `JustReceived`). `RightForOneInterface`: `poll` is given `N + 1` slots,
so the only ICMPv6 slot that is ever read is slot `N` (`FirstIcmpOnly`), and it belongs to interface 0, while the code takes interface
`N / 2`: right with one interface, wrong at every read with more, for any `N`.

**`ReadConfigProofs`**, from `FilesAssumption` (a file is a sequence of lines with their types, the bound on
expressions is a number). `Inv` has one part for each thing a call builds up: `CountInv` for the first pass,
`TableInv` for the entries so far, `GlobalsInv` for the settings and lists so far as the lines
taken in make them of those before the call, `ExpressionsInv`, and `LookupInv` for the entries
looked up. A line is stored in the place its number among those of its kind
gives it (`CountBefore`), and `CountOrder` and `CountOnto` show that these numbers are all
different and leave none out, which is why pairing entries by index pairs the i-th prefix with the i-th
name. `OutsideStep` counts: the line that finds no entry is one more of its kind than the first pass
counted. When the call returns, what it made of the file is what
`ConfigStore` makes of it at once (`SettingsAgree`, `PairsAgree`, `ExpressionsAgree`), and a call that
gives up does so on a file that is not `Good` (`FailRefuses`).

**`HandlersProofs`**, from `HandlersAssumption` (finitely many targets, any prefixes and lengths, the zeroed ones among them, any files with a
limit that is not negative). What the properties say of quiet moments is not inductive, so `Inv` says what holds inside
`storeTarget` and inside each handler: between `tsearch` and the count, `tEntries` is one
lower than it will be (`CountInv`); a target on its way to `tsearch` is not in the tree
(`Missing`), and there was room for it or the tree has been emptied since (`RoomInv`); a
reload past `tdestroy` has an empty tree (`Emptied`), which is why its reset of the count cannot
lose more than the one target the main program inserts afterwards; a dump that no reload disturbed has listed the tree
as it is (`DumpInv`). For `OneStray`, two different targets are never both strays (`FreshInv`, with `DropInv`
for the time before a reload has come to that line): a target that is stored
under a mixture of two configurations is alone in that, since its reload emptied the tree.

**`RouterAdvertProofs`**, from `RouterAdvertAssumption` (a buffer of at least 32 octets per message, in whole
units; the unsigned -1 is larger than the buffer; the log keeps as many entries as any message
has options). `WildAfterFailure` is inductive with the types; the point is that `counter < len` puts
the start of the last option inside a message, that what is read of an option is at most 32 octets, and that
the buffer is longer than a message by at least that much (`RoomBehind`). `LogsWhatWasSent`
needs `LogInv`: within a message laid out properly the walk stands where its next option starts, and
has logged those before it. Where options start is defined recursively (`Start`); that the
function exists and grows with the lengths (`StartExists`, `StartAdds`, `StartGrows`) is
proved by induction over sets of numbers (`Numbers`). The rest of the argument is that a
received message overwrites every header the walk will look at.

Only model-checked, because the prover cannot reach it:

- liveness, which needs `ENABLED`: `IsLiveProxy`, `QueuedIsTaken`, `GoneEnds`, `ErrorsEnd`, `CallsEnd`, `SoundWalkEnds`;
- everything about expressions (`TypeOK`, `EvaluatesAsWritten`, `HitIfAnyMatches` of `Expression`): the
  parser calls itself and works on bits, so it is written with recursive operators and `Bitwise`.

## 5. What is not modelled, and the plan

Not modelled:

- byte layout of packets and options, the BPF program, socket options, hop
  limits, logging, the command line and pid file: pure I/O, or data no property tells apart;
- address text (`prefixset`, `build_addr`, `stripwhitespace`) and the length `prefixset` derives from
  a prefix: the model starts from the parsed prefix and its length;
- the names and texts as characters: an interface name of exactly `INTERFACE_STRLEN`
  characters (`config.c:191`), a number too long for its token;
- the conversions at the end of `exparser.c` (lines 685 to 748), which nothing calls;
- a reload by a file with another number of interfaces, after which the scan runs
  past `fds[]` or stops short of it (`main.c:220`);
- the timers `processICMP` logs: it looks for the fixed part of the advertisement
  after the ICMPv6 header instead of at it (`ip6.c:339`), so they are other octets of the message;
- memory exhaustion (`malloc`, `calloc` returning NULL).

The next steps, in order:

1. `HitIfAnyMatches` for any number of texts, by a model of `compareExpression` that takes the value of a
   text from its names as a constant operator.
2. `prefixset`: the length of a prefix from its text, as groups of digits.
