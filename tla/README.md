# A verification project for udp-test

udp-test is a client that sends numbered, checksummed batches over UDP, cut into
segments, and a server that puts the batches together again and reports what
was good, bad, lost, repeated and out of order.  The server's report is the
product: people read `bad=` and `lost=` to judge a network driver's
segmentation offload.  The question here is therefore whether the counters can
be believed, whatever the network does, and whether a session ends.

Paths and line numbers refer to the repository's files.

## 1. Inventory

| Component | State it keeps | Operations | Interacts with |
|---|---|---|---|
| Batch format (`packet.hpp`) | none | build, validate, check against the session, peek a length | client builds, server validates |
| Reassembly (`server.cpp:33-551`) | `BatchReassembly`, `ServerStats` | `ingest_fragment`, `try_complete_batch`, the two header scans, `track_sequence`, `reset_reassembly` | called once per datagram; calls itself for a salvaged tail |
| Receive loop and sessions (`server.cpp:54-142, 553-828`) | `idle_deadline`, `session`, the socket and its timeout | count mode, idle mode, end of session, `finalize_lost`, `--loop` | socket, clock, reassembly |
| Client (`client.cpp`) | batch number, offset in the batch | build and send a batch, fail | network |
| Windows USO send (`uso_send_win.cpp`) | overlapped I/O context, socket options | `send_buffer_uso`'s chain of attempts, the completion routine | kernel |
| Windows URO receive (`uso_recv_win.cpp`) | socket options | configure, `uro_recv_msg` | kernel, receive loop |
| Segment size inference (`server.cpp:153-178`) | none | `infer_detected_mss` | verbose log only |
| Command line (`cli.hpp`, `common.hpp`) | option records | parse | both programs |
| Interface selection (`uso_send_win.cpp:180-302, 684-822`) | `UsoBindInfo`, the socket handle | resolve the bind address, create, bind, name and close the socket | operating system |
| Build files and scripts | none | | |

What is hard here, and what would make each part correct:

* **Reassembly.**  A segment carries no offset and no batch number.  A lost,
  repeated or overtaking segment shifts everything after it, and the code finds
  its way back by scanning for header-shaped words and by salvaging a complete
  batch from the tail of a corrupt one, recursively, in the middle of the
  caller's loop.  It is correct when no batch is counted that nobody sent, no
  batch is counted twice or forgotten, the damage of one fault is bounded, the
  memory copies stay inside the buffer, and every call returns.
* **Sessions.**  The first plausible header of a session fixes its
  `batch_total`, before its checksum is known to be right, and nothing that
  disagrees is accepted any more.
* **Receive loop.**  The socket fills and the clock runs while the server does
  something else, one read may hold many datagrams, and `lost` is counted up to
  a bound that is 32 bits wide and comes from one of three places.  A session
  must end when it is idle and not before, and its summary must balance.
* **USO send.**  A send attempt that failed is repeated with other control
  data; a completion routine may run after the call that armed it returned.
* **Interface selection.**  Address and interface index come from different
  queries of the operating system, on hosts with several networks.  They must
  fit together, and a set-up that fails half way must not leave a socket.
* **Command line.**  Options are checked where they are read, so that order
  matters; an argument may be an option or a value; limits are split between
  the parse functions and the end of the line.

`PROJECT.json` lists each hazard at its line, with the properties that would
catch it.

## 2. Modules

```
Packet <- Reassembly <- Server <- UdpTest          UsoBind <- UsoSend     Cli
               |           |
               | INSTANCE  | INSTANCE
             Stream      Ledger

FoldLemmas <- ReassemblyProofs <- StreamProofs <- ServerProofs
                                  ServerProofs <- UdpTestProofs <- MssProofs
FoldLemmas <- UsoSendProofs, CliProofs
MCPackets, MCReassembly, MCServer, MCUdpTest, MCUsoSend, MCCli
```

An arrow points from a module to one that extends it.  Each `...Proofs` module
also extends the module its theorems are about.

**Packet** has the batch format and the two scans as operators.  The unit of
data is a *word*, the size of one header field: a header is five words, a
buffer a sequence of naturals.  The code moves bytes one at a time and the
model words one at a time, so that a datagram may end inside a header at any
field and a scan tries every field.  What this abstracts from is a boundary
inside a field; the code treats all byte positions alike.  The checksum is a
parameter.

**Reassembly** is the receiver's core.  One step is one turn of the
`while (offset < length)` loop of `ingest_fragment`:

| Action | Code (`server.cpp`) |
|---|---|
| `ReceiveDatagram` | `receive_datagram`, `++stats.fragments` |
| `RetainTail` | no header in the datagram, keep four words (443-459) |
| `SplitHeader` | the datagram ends inside a header (469-474) |
| `RejectHeader` | not plausible, or another session's (476-509) |
| `AcceptHeader` | a batch is opened, `wire_batch_total` set (504, 522-533) |
| `CopyFragment` | a piece of payload, batch not complete (536-544) |
| `CountBatch` | complete and valid (340-358) |
| `DropBatch` | complete, corrupt, nothing to salvage (280-338) |
| `SalvageTail` | complete, corrupt, and its tail is ingested (297-336) |

`calls` is the stack of invocations under way, each represented by what it has
not read yet, so that the recursion from `try_complete_batch` interleaves with
the caller's loop as in the code.  `have_seq` is the definition
`seen_seq # {}`.  `infer_detected_mss` is an operator here: it changes nothing
and feeds the `mss=` of the log line of a counted batch.  Three history
variables, `datagrams`, `opened` and `accepted`, are read by properties only.

**Stream** is the abstract specification of the receiver: one endless stream of
words, read from the front, without datagrams, buffers or calls.  A header of
the session at the front stays there until its batch is complete; a complete
batch is counted when it is valid and given up, in part or as a whole, when it
is not; words are skipped only where no header of the session starts.
`Reassembly!Received` instantiates it: the stream is what the buffer has
collected of a header or a batch, followed by what the calls under way have
still to read, the innermost first (`Pending`), and `ImplementsStream` says that
each turn of the loop is a step on the front of it or a stutter.  It is what a
nested `ingest_fragment` call could break: the tail it is given is read before
the rest of the caller's datagram, so that the order of the words stays.

Four branches of the code cannot be taken and have no action: a length outside
the limits after `peek_batch_length` has accepted it (511-520), `expected` below
the header size in `try_complete_batch` (255-259), a failed session check there
(266-276; `BatchAccepted` has the conjunct, `ReassemblyConsistent` shows it
true), and in the rescan of a refused header any result but the first or the
last offset, since exactly one header is collected there (479-493; the model
keeps the scan).

**Server** adds `run_receive_loop` and `run_server`.  `pc` is the place in the
loop.

| Action | Code (`server.cpp` where not said otherwise) |
|---|---|
| `Start` | bind, and for `--uro` `uro_configure_recv_socket`: set, read back, compare (770-796, `uso_recv_win.cpp:77-133`) |
| `LoopEnds`, `LoopTurns` | the tests at the top of both loops (666-671, 712-737) |
| `Readable`, `PollTimesOut`, `PollFails` | `wait_udp_readable`, which reports an error of poll as it does the end of the time (117-142, 722-735) |
| `ReceiveOne` | `receive_datagram` (553-574) |
| `ReceiveCoalesced` | `receive_uro_datagram` over `uro_recv_msg` (576-622, `uso_recv_win.cpp:183-246`) |
| `ReceiveEmpty` | the same, for a read of zero bytes (600-602) |
| `ReceiveTimesOut`, `ReceiveFails` | the two kinds of error (565-570, 590-598) |
| `IngestStep`, `IngestDone` | `ingest_fragment`, then the new deadline (678, 744) |
| `NextSession` | the loop of `run_server` (804-827) |

The clock is seen through `idle_deadline`, which is unset, pending or passed;
`DeadlinePasses` may happen at any point between two steps.  `Arrive` puts a
datagram on the socket at any time.  The order of the tests at the top of the
loop is the code's: a deadline that passes while the server is busy wins over a
datagram that is already queued.  `SoRcvTimeoWorks` says whether `receive_from`
reports the expiry of `SO_RCVTIMEO`.  The comment at `server.cpp:709-710` calls
it unreliable on Linux (a synchronous `receive_from` may wait for readability
and try again when the kernel returns `EAGAIN`), and idle mode does not depend
on it; both values are checked.  Which datagrams the kernel coalesces is
external (`Coalescible`): several of one size, the last one possibly shorter,
no more than the buffer holds.

`Uint32Values` is the number of values of a `std::uint32_t`; the instances use
4, the proofs any number.  `LastExpected` is `upper`, truncated as in the code.
When it is the largest value, `seq <= upper` is always true
(`server.cpp:218`): `FinalizeLoops`, and the process stays in `"finalizing"`
for ever.  That is what `--count 4294967296` does.

**Ledger** is the abstract specification of the summary: accounts without
datagrams, resynchronisation, modes or timeouts.  An entry is opened, at most
one at a time; it is settled once, as a batch of the run, as a repetition, or
as bad; closing the account counts as lost what was asked for and never
settled.  `Server!Account` instantiates it with the server's variables
(`open <- active`, `settled <- seen_seq`, `closed` when the summary is
printed), and `ImplementsLedger` says that every step of the server is a step
of the ledger or a stutter.

**UdpTest** composes the server with clients that run one after the other and
a network.  The clients send as `send_batch_fallback` does, `SendDatagram` by
`SendDatagram`, and may be stopped anywhere.  Network and receive buffer are
one queue; a datagram under way is one that has not been sent yet.  `Lose`
is loss on the network and a full receive buffer alike.

**UsoBind** is the Windows client before its first batch.  `Resolve` is
`resolve_uso_bind_address` with `ipv4_egress_for_destination`,
`ipv4_on_interface_index` and `ipv4_interface_index`.  `CreateSocket`,
`SetReuseAddr`, `SetSendBuffer`, `RefuseIPv6`, `BindFails` and `BindSocket` are
the steps of `create_uso_udp_socket`, each with its own error path;
`NameSocket` is `uso_socket_local_endpoint`.  A host is what the operating
system answers: the unicast addresses of its adapters in their order, each up or
down and with the adapter's two indices, `IfIndex` and `Ipv6IfIndex`, of which
the code lets either match (215), and for every address the interface
`GetBestInterfaceEx` names.

**UsoSend** goes on with `run_client`'s loop, the chain of up to three attempts
of `send_buffer_uso`, and an overlapped `WSASendMsg` with its completion
routine.  `requests` are the sends the kernel works on, `routines` the
completion routines it has queued; they run only in `SleepEx`, all that are
queued, in order.  A routine whose call has returned writes through a dangling
pointer: the model lets that write hit the context of the call that is waiting
now, or nothing that is read.  The history variable `misled` records that the
former has happened.  `Kernels` says how a kernel takes overlapped sends:
decided at once (the routine is queued all the same), later, or either, call by
call.  `BuildFails` is `build_batch` throwing for a number that is not below
`batch_total` as 32 bits hold it.
`SendBlocking` is the call without overlapped structure.  What the control data
contain is abstracted to which attempt it is.  The check for an mss above 1472
(569-572) has no action: `parse_client_options` refuses such an mss
(cli.hpp:230, `LimitsKept`).  That `completed` is already set when
`WSASendMsg` returns 0 (353-354) has none either: the thread was in no
alertable wait, and the bytes are the same.

**Cli** is the command line of both programs, one step per option.  A text is
what it means to the parser (`Lexicon`): the class of its first character, what
stands before and after its `=`, and the number `std::stoull` reads at its
start, which is negative for `-1` and then wraps (`Unsigned`).  A field of the
options is a set of at most one value, empty while it has its default.  The
second half of the module reads the same line as a whole: which arguments are
values is decided from left to right, the rest by what is on the line.  This is
what the first half is checked against.  `LoopAndCount`, which the documents
exclude in either order, and `LoopsFirst`, the order in which the parser does
not notice, are definitions of their own.

**MC...** modules give the constants their values.  The magic number is 77 and
no other word is; the checksum is an order-sensitive polynomial hash that
collides on none of the instances' batches.

## 3. Runs

| Run | Instance | Shows |
|---|---|---|
| `Reassembly` | up to 5 datagrams out of the segments of batches of 12 and 6 words, segments shorter than a header, the empty datagram and another run's batches, in any order and repetition | counters equal what the history says, nothing opened is forgotten, segment sizes account for every word, buffer and flags agree, one `batch_total` per session, `ingest_fragment` returns and every turn of its loop makes progress, the receiver implements `Stream` |
| `ServerModes` | idle mode, `--loop 2`, `--count 1`, `--count 3`, with and without `--uro`; up to 3 arrivals of batches of one size, whole or in two segments | the summary balances, `--count` is kept without `--uro`, sessions end, the server implements `Ledger` |
| `UdpTest` | 1 or 2 client runs of 1 to 3 batches of up to 24 words, up to 2 faults, with and without `--uro` | end to end: only sent batches, complete in-order delivery, bounded damage, the right segment size, also after a resynchronisation |
| `UsoSend` | Windows client runs of 2 and 3 batches, plain and segmented, all options, and one whose count does not fit; hosts with two networks, one of them down, without a route, and with an IPv6 index that is another adapter's IPv4 index; three kinds of `--source`, two of `--dest`; a kernel that decides all overlapped sends at once, all later, or either | a reported batch was accepted whole once and the buffer is not rewritten under the kernel unless an earlier call's routine has answered for a later one, and only the last kind of kernel makes that happen; address and interface are those of the route; each way the set-up can fail closes the socket; the run ends |
| `Cli` | server lines of a port and up to 3 more arguments out of 18, client lines of what is required and up to 2 more out of 19, for both platforms | what is stored is what the line says, a line is refused only for cause, one thing alone escapes, the limits of the options are kept |
| `HeaderOnlyBatch` | batches of a header only | violated, see section 6 |
| `CountModeOnLinux` | count mode, `SoRcvTimeoWorks = FALSE` | violated, see section 6 |
| `OpenBatchTimesOut` | idle mode, the traffic of `ServerModes` | violated, see section 6 |
| `CountModeCoalesced` | count mode with `--uro`, two batches of one run | violated, see section 6 |
| `UroEmptyDatagram` | idle mode with `--uro`, a batch and empty datagrams | violated, see section 6 |
| `MssFirstSlice` | two batches of 13 words in segments of 6 | violated, see section 6 |
| `UsoStaleRoutine` | 2 batches, one attempt each, a kernel that decides some sends at once and some later | violated, see section 6 |

The bounds.  `MaxDatagrams = 5` is enough for: a batch mixed from two batches,
its salvaged tail, the batch that tail leaves open, and its completion; and
for a batch that comes twice and late.  The sizes in `MCTwoSizes` are chosen so
that one segment of a long batch and a whole short batch have the long batch's
length: this is the smallest traffic in which `SalvageTail` is taken.  In
`MCSplitHeaders` segments have 4, 3 and 2 words, less than a header.  Batches
of 6 to 12 words have payloads of 1 to 7 words.  Two faults in a run of three
batches reach all combinations of a fault in one batch with a fault in the
next, which is what the salvage code is about.  In `UsoSend` two batches of up
to three attempts each, and three of one, are more than it takes for a routine
to be stale and for its victim to be followed by another batch; a `std::uint32_t`
there has two bits, so that a `--count 6` is cut down to 2 and the third batch
cannot be built.  The traffic of `ServerModes`
holds a batch whose first segment leaves it open when the deadline passes, and
with `Uint32Values = 4` a `--count 3` is the last one `finalize_lost` can count
to without truncation at the edge.  `MCManySegments` has batches of two, three
and four whole segments, with and without a rest, so that the first slice, the
whole segments and the rest compete for the majority; the one of three batches
is for what the segment size is after a fault.  In `Cli` the numbers are
those at and next to each limit; `UlongValues` and `UllongValues` are 100000,
above every limit in the code and small enough that TLC's integers can hold
them.  No symmetry is used.  The receiver runs stop when the bound on datagrams
is reached, and the processes and the parser end, therefore deadlock is not
checked.

Each property of each passing run has a mutant, an operator next to the
definition it changes, that makes the property fail: the dropped guard, the
missing reset, the swapped order, the off-by-one that the property is there to
catch.  They are listed in `PROJECT.json`.

## 4. Fairness

`FairSpec` asks that a call of `ingest_fragment` that is under way goes on:
the server is one thread and the loop does not block.  `ServerSpec` asks that
the server's process is scheduled and that time passes (`DeadlinePasses`).
`UsoSpec` asks the same of the client's thread, and that the kernel completes a
send it has taken (`KernelCompletes`); which outcome it has is left open.
Nothing is assumed of the network: datagrams need not come, and a server that
never received anything waits forever, as the code means it to.

## 5. Proofs

The theorems hold for every value of the constants that satisfies the named
assumptions: any magic number, size limit, checksum function and traffic
(`PacketAssumption`, `ReassemblyAssumption`), any options and integer width
(`ServerAssumption`), any client runs whose payloads have the length asked for
(`UdpTestAssumption`, `PayloadAssumption`), any hosts, client runs and kernels (`BindAssumption`,
`UsoSendAssumption`), any texts and command lines (`CliAssumption`).

| Module | Theorem | Property | Also assumes |
|---|---|---|---|
| `ReassemblyProofs` | `TypeCorrect` | `TypeOK` | |
| | `BufferConsistent` | `ReassemblyConsistent` | |
| | `SessionHasOneTotal` | `OneTotalPerSession` | |
| | `NoBatchForgotten` | `OpenedBatchesAccountedFor` | |
| | `TotalPinned` | `TotalIsPinned` | |
| | `SegmentsAccounted` | `SegmentsAccountForBytes` | |
| | `CountersAreOfHistory` | `CountersMatchHistory` | |
| `StreamProofs` | `StreamImplemented` | `ImplementsStream` | |
| | `IngestTerminates` | `IngestProgresses` | |
| `ServerProofs` | `ServerTypeCorrect` | `ServerTypeOK` | |
| | `SummaryAlwaysBalances` | `SummaryBalances` | `CountsFit` |
| | `ServerImplementsLedger` | `ImplementsLedger` | `CountsFit` |
| | `CountIsKept` | `CountKept` | |
| `UdpTestProofs` | `TestTypeCorrect` | `TestTypeOK` | |
| | `DeliveredInOrder` | `InOrderDelivery` | `OrdinaryTests` |
| | `CountedAsSent` | | |
| | `NothingMadeUp` | `OnlySentBatches` | `NoCollision` |
| `MssProofs` | `MssIsSenders` | | `OrdinaryTests`, `SameCounts`, `MssByBatch` |
| `UsoSendProofs` | `UsoTypeCorrect` | `UsoTypeOK` | |
| | `EachBatchSentOnce` | `SentOnce` | |
| | `BufferIsStable` | `BufferStable` | |
| | `OnlyMixingMisleads` | `MisledOnlyByMixing` | |
| | `SocketAlwaysReleased` | `SocketReleased` | |
| | `AlwaysBoundToEgress` | `BoundToEgress` | |
| | `PktinfoNamesItsInterface` | `PktinfoConsistent` | |
| `CliProofs` | `LimitsAreKept` | `LimitsKept` | |
| | `RefusedHasCause` | `RefusedForCause` | |
| | `OptionsAreAsGiven` | `OptionsAsGiven` | |

`CountsFit` says that `--count` is at most `Uint32Values`: with a larger one
`upper` is truncated and both statements are false.  At exactly `Uint32Values`
no summary is ever printed and they hold of that.
`OrdinaryTests` says that every batch has a payload and that no `--count`, the
clients' or the server's, needs more than 32 bits: the last of a run of
header-only batches is not counted in time (`HeaderOnlyBatch`), and the client
of a `--count` that does not fit ends with an error, at the first batch or where
the numbers reach what is left of the count (`SeqFits`, packet.hpp:81-83).

What a statement itself leaves out is written in it.  `SentOnce` and
`BufferStable` are about runs that are not `misled`; `OnlyMixingMisleads` says
which can be, and `UsoStaleRoutine` shows one.  `BoundToEgress` and
`PktinfoConsistent` are about hosts on which an index that the routing table
gives out is no other adapter's IPv6 index (`IndicesDistinct`), the latter also
about hosts that route their own addresses to their interfaces
(`RoutesItself`).

`NoCollision` is what is asked of the checksum, and only for what the receiver
can be led to check: pieces of a row of the test's own datagrams that announce
their own length.  One of them has the checksum of a batch of the test only when
it has that batch's words, and no checksum equals another word of a batch (which
matters where a mixture's checksum field falls on a payload word).  No
checksum of 32 bits has this for every test there could be; the assumption is
about the tests that are run, and it holds of those that are model-checked.
What holds of every checksum, a worthless one too, is `CountedAsSent`.
`SameCounts` says that all runs of a test have one `--count`, as
`InOrderDelivery` asks of the runs it is about, and `MssByBatch` that two runs
with different `--mss` have no batch in common (their payloads are random):
with one in common, "the sender's `--mss`" is not a single number.

Some of these theorems are about recursive functions: the sum of the segment
sizes, the concatenation of the calls and of the socket's datagrams, the values
an option has had so far.  They are proved by induction in a first-order form:
the set of the numbers for which a statement holds is a subset of the naturals,
contains 0 and the successor of each of its elements, and is therefore the set
of naturals (`NatSetInduction` in `FoldLemmas`: otherwise the numbers it lacks
would have a least element).  `FoldLemmas` applies it to `SumFunction` and `FlattenSeq` of the
community modules: the recursive function each is the value of exists, it
satisfies its equation, and it does what is expected when a sequence grows at
its front or its end.

*Reassembly.*  `TypeOK` is not inductive by itself: that `filled` stays a
natural and that the words a header lacks are a natural depends on what the
flags say of the buffer.  `IInv` is its conjunction with
`ReassemblyConsistent`, and that one is inductive: a header collected has
exactly five words, an accepted one announces a length between five and the
limit (`PeekProperties`), copying leaves length and header alone
(`CopiedProperties`), and everything else leaves less than a header behind.
`Accounting` is the conjunction of `OneTotalPerSession`,
`OpenedBatchesAccountedFor` and `BatchAccounting`, by which every counted batch
is a duplicate or a seen one, as the balance of the summary needs it.  It needs
`IInv` in one place, that the sequence number of an open batch lies below the
session's `batch_total`, and in `AcceptHeader` the fact that a session without
`batch_total` has counted nothing.  The scans return the least element of a
set, which `MinOfNaturals` shows to exist.  `CountersMatchHistory` is made
inductive by one conjunct (`HistoryInv`): `highest_seq` is one of the seen
sequence numbers, so that comparing with it alone tells whether any earlier one
was higher.  A batch that is counted adds one element to the history, and
`Firsts` and `Overtaken` change by at most that one.

*Stream.*  One lemma per action.  A scan passes over the words before the first
plausible header only (`ScanFindsFirst`), what is collected of a candidate and
what is still to be read fit together in the stream (`CandidateInStream`), and a
complete batch is the front of the stream word by word (`AssembledInStream`);
the salvaged tail is a suffix of that batch (`SalvageInside`), so that giving up
the words before it leaves the stream `After` them.  The lemmas on `From` and on
concatenation at the beginning of the module are what these need of sequences.
`IngestTerminates` measures a state by two numbers, the words of the stream and
those of them that the calls have still to read, compared in this order.  No
step lengthens the stream (`IngestShortens`).  The turns that skip or copy read
at least one word of their datagram, because no call under way has none left
(`NoEmptyCall`).  `SalvageTail` is the one that gives a call words to read
again, and it takes the words before the tail off the stream.

*Server.*  `ServerInv` is the reassembly's invariants with the server's types
and what the end of a session leaves: nothing open, and `lost` the size of the
expected set without the seen one.  It cites the lemmas of `ReassemblyProofs`
for `IngestStep` and adds the steps that reassembly does not know: the
coalesced read (`RowAndColumn`: division and remainder name the segment and the
place in it; `CoalescedIsJoin`: what the kernel returns is its datagrams one
behind the other), the end of a session and the next one.
`SummaryBalances` follows from it by cardinalities.  For the refinement each
server action is mapped to one of the ledger's (`AcceptHeader` to `OpenEntry`,
`CountBatch` to `SettleBatch`, `DropBatch` and `SalvageTail` to `SettleBad`, the
four ends of a session to `CloseAccount`, `NextSession` to `NextAccount`) or
leaves all its variables alone.

`CountKept` is about how much one datagram can complete.  `CountInv(size)` says
that every magic number in the stream starts a header that announces `size`
words, that fewer than two batches' words are there, fewer than one when the
last batch of `--count` has been counted, and that an open batch lacks a word.
The refinement of `Stream` does the work: ingesting only takes words from the
front, and counting takes `size` of them (`IngestShortens`,
`CountBatchShortens`).  The hypothesis `OneSizeTraffic` is needed, section 6
says why.

*UdpTest.*  `TestInv` is the reassembly's invariant with the clients' types; the
socket now holds what was sent instead of arbitrary datagrams.  `OrderInv` is
about the first session, while nothing went wrong: what waits in the receiver,
followed by what waits in the socket, is the batches that were sent and are not
counted yet, followed by the part of the next one that is sent (`InOrder`).
Sending appends to both sides, reading moves words from the socket to the
receiver, and of the receiver's steps the refinement of `Stream` leaves two:
since the front of the stream is a header of the session as soon as it is long
enough to be one (`FrontIsBatch`), nothing is skipped, the batch that is opened
starts at the front, and when it is complete it is the next one sent and valid,
hence counted and not given up.  That nothing is missing at the end needs that
an open batch lacks a word, which is what a header-only batch breaks.

`MixtureInv` is what is left of this when the network may do anything: the
socket holds datagrams of the test, and what waits in the receiver is the end of
a row of such datagrams (`EndOfRow`).  It says which mixtures can occur at all,
and is kept because the refinement of `Stream` has every step take words from
the front only; a salvaged tail is an end as well.  A batch that is counted is
the front of what waits, hence a piece of such a row (`CountedAsSent`).
`NothingMadeUp` needs one more step, `ValidPieceIsSent`: the checksum in the
piece's fifth word is a word of one of the datagrams (`WordsOfRow`), so it is
the checksum of a batch or another word of one, and `NoCollision` excludes all
but the batch itself.

*Mss.*  `OrderInv` says which words wait, and not where the datagrams end, which
is what `fragment_sizes` is made of.  `SlicesInv` adds that the datagrams in the
socket are the consecutive slices of the batches sent, starting where the one
that is being read ends (`Slices`), and that `fragment_sizes` of an open batch
holds one entry for each whole segment that was copied, the first one short of a
header (`SegmentsCounted`).  When the batch is complete the list is that of
`SlicesOf`, a short first slice, whole segments and a rest.  `SliceCounts` is
the majority: the size of a whole segment is no rarer than the other two, unless
the batch is two whole segments, of which the first gives the short slice, and a
rest as long as that slice; and of equally frequent sizes `infer_detected_mss` takes the largest.  With `--uro` a
read holds several slices at once, and the statement is not about it.  The
theorem is the part of `MssMatchesSender` that speaks of an undisturbed session
(`Undisturbed => MssAsSent`); the other part, about batches of one `--size`
after any faults, is model-checked.

*UsoSend.*  `SentOnce` is not inductive: that the next attempt does not send a
second copy needs to know that an attempt which failed left none.  `UsoInv` has
three parts.  `ControlInv` and `QueueInv` hold whatever the completion routines
do: where the run is, and that what is queued belongs to the calls made so far.
`SentInv` holds while the run is not `misled`: how many copies of each batch the
kernel has at each place of the chain (`CopiesInv`), and that a wait is for the
one request or the one routine of its own call, which is the last one queued
(`WaitInv`, `Answered`).  Routines of earlier calls may be queued before it;
they run first, and their call's answer is overwritten by it, which is why only
a wait in which they run alone, or which they hit later, is misled.  `MixedInv`
says when that cannot be: a kernel that takes nothing at once queues routines in
waits only, and one that takes everything at once lets nobody wait.
`SocketInv` ties the socket's state to the place in the
run and `bind_info` to what `resolve_uso_bind_address` chose.  `BoundInv` adds that a socket that is bound
is bound to an address of the host, which is what makes the route of that
address the interface that has it.

*Cli.*  `CliInv` says of every field what the parse functions let through and
that an accepted line passed the checks at its end.  `LineInv` compares the
parser with the reading of the line as a whole: before argument `i` is looked
at, every field has the value that the part of the line before `i` says
(`ReadUntil`), nothing is wrong on that part but `--loop` before `--count`
(`RightUntil`), and a line is refused only when it is bad or ends incomplete.
What makes it inductive is that both take the same arguments for values: an
argument after an option that wants one is never looked at as an option.

What stays with TLC: liveness under fairness (`IngestReturns`, `SessionEnds`,
`RunEnds`), of which `IngestProgresses` proves the part that does not need
fairness; and `DamageIsBounded`.  For the latter the argument would have to follow
faults through resynchronisation: a potential that pays, for each
fault, for the batch it hits and the one mixed with it, over every way a shifted
stream can be cut, together with a checksum assumption as in `NothingMadeUp`.
No inductive invariant for it has been found; the run checks up to two faults
in three batches.

## 6. Where code and documentation disagree

* **`HeaderOnlyBatch`.** README.md:179 says that a batch is validated when
  `length` bytes have arrived.  A batch of `--size 20` has all its bytes when
  its header is accepted, and is validated only when another datagram comes
  (`server.cpp:522-533`, 546): the last batch of such a run is reported bad and
  lost.
* **`CountModeOnLinux`.** linux/README.md:43 promises the three-second idle
  timeout for `--count` too.  Count mode uses `SO_RCVTIMEO` only.
* **`OpenBatchTimesOut`.** linux/README.md:76 says "While reassembling, recv
  blocks with no timeout".  In idle mode the deadline is compared, and poll gets
  what is left of it, whether or not a batch is open (`server.cpp:712-735`): a
  session with a batch left open by a lost segment ends after three seconds, as
  linux/README.md:42 has it, and the batch is bad.  The two sentences cannot
  both hold; `SessionEnds` follows the latter.  In count mode the comparison
  does look at the open batch (667-670), the timeout of the socket does not
  (671).
* **`CountModeCoalesced`.** cli.hpp:78 says "exactly n logical batches".  One
  coalesced read may complete more.  Without `--uro` it holds of
  batches of one `--size` (`CountIsKept`).  Of two sizes it does not: when an
  open long batch has lost segments, whole short batches of the next client are
  copied into it; the salvage (`server.cpp:334`) then ingests the tail with two
  of them, and both are counted before `--count` is looked at again.  No run is
  about this one.
* **`UroEmptyDatagram`.** README.md:106 promises three seconds without
  datagrams before a session ends.  With `--uro` an empty datagram is reported
  as if nothing had been received (`server.cpp:600-602`), and that ends a
  session that has begun.
* **`MssFirstSlice`.** README.md:116 says that `mss=` is the sender's, not the
  first slice's.  For a batch of `3 * mss - 20` bytes the first slice and the
  rest are equally long, and two against one.  For every other size of at least
  two whole segments it holds (`MssMatchesSender`): on a network that keeps its
  datagrams for all tests (`MssIsSenders`), and after any faults for tests of
  one `--size`.  With several sizes a fault can leave a whole short batch inside
  the remains of a longer one; what is salvaged is ingested in one piece, and
  its `mss=` is missing or the length of that piece.
* **`UsoStaleRoutine`.** When a send is decided at once, its completion routine
  stays queued after `invoke_wsasendmsg` has returned (351-358).  It runs in the
  wait of a later send, and if that call's context lies where the earlier one's
  was, the wait ends with the earlier result.  An error of the later send is
  never seen, and its buffer is rewritten while the kernel may still read it.

More that no run is about, since the model states them outright or a property
names them as its exception:

* README.md:150 and cli.hpp:79 say that `--loop` requires that there is no
  `--count`.  Only `--loop` looks for the other (cli.hpp:152), so that
  `--loop --count 3` is accepted and `--count 3 --loop` refused
  (`RefusedForCause`).
* linux/README.md:43 promises an end of every `--count`.  From 2^32 on
  `finalize_lost` cuts `--count - 1` down to 32 bits (`server.cpp:209`); at 2^32
  its loop never ends and no summary is printed (`FinalizeLoops`).
* uso_send.hpp:52 says "bind to the IPv4 on the interface that routes to dest".
  `ipv4_on_interface_index` also takes an adapter whose IPv6 index is the one
  searched for (`uso_send_win.cpp:215`): where that is another interface's
  adapter and it comes first, the client is bound to its address and names the
  other interface in the control data (`BoundToEgress` and `PktinfoConsistent`
  without `IndicesDistinct`).
* README.md:18 says "If `WSASendMsg` fails, the client reports the error and
  exits".  `send_buffer_uso` tries again with other control data and forgets the
  error when that succeeds (`uso_send_win.cpp:619-678`, `AttemptFailed`).
* cli.hpp:86 calls `frags=` the segment count, and a salvaged tail is counted in
  it too (`SalvageTail`).
* cli.hpp:117-118 promises plain sendto only below `--mss`, and a batch of
  exactly one segment is sent plain too (`Plain`).
* README.md:161 gives 16 as the smallest `--size`, and `parse_batch_size` wants
  20.

## 7. Not modelled

* Verbose output, but for the segment size in it, and the layout of control
  messages.
* A boundary inside a four-byte header field (section 2, Packet).
* The polynomial of CRC-32: the checksum is a parameter.
* `ensure_winsock_initialized`, `log_windows_version`, the name look-ups of
  system functions: no state a property speaks of.
* The texts of `parse_address`: an address is a value; one that is malformed
  ends the program before anything was sent.
* `send_batches.py`, build files, scripts.

## 8. Order of work, and what could follow

The order was that of importance: the receiver's counters are the program's
product and came first (Packet, Reassembly, ReassemblyProofs), then what
surrounds them (Server, UdpTest), then the sender (UsoSend), then `--uro`, the
32-bit bound, Ledger and the proofs about Server, and last UsoBind and Cli with
theirs.  After that came proofs: segment sizes, history and `Stream`, `CountKept`,
the control data, the whole of Cli, in-order delivery, and last termination of
`ingest_fragment`, what can be counted under faults, and the segment size.

What could follow is a composition of `UsoSend` with the server over a network
that carries a segmented send as datagrams, and a proof of `DamageIsBounded`.
