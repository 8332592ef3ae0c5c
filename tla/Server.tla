------------------------------- MODULE Server -------------------------------
(***************************************************************************)
(* The server process: run_receive_loop (count mode and idle mode) around  *)
(* ingest_fragment, and run_server's sequence of sessions, against a       *)
(* socket that fills up and a clock that runs while the server does        *)
(* anything else.                                                          *)
(*                                                                         *)
(* The clock is seen through idle_deadline only: unset before the first    *)
(* datagram of a session, pending for three seconds after the last one,    *)
(* passed from then on.                                                    *)
(*                                                                         *)
(* With --uro (Windows) one WSARecvMsg may return several datagrams that   *)
(* the kernel has put together (uso_recv_win.cpp).                         *)
(***************************************************************************)
EXTENDS Reassembly

CONSTANTS
  Options,          \* ServerOptions the process may be started with
  SoRcvTimeoWorks,  \* receive_from reports that SO_RCVTIMEO ran out
  Uint32Values      \* how many values a std::uint32_t has

\* An unset options.batchCount or options.loopCount; parse_count refuses 0.
NoCount == 0

ASSUME ServerAssumption ==
  /\ Options \subseteq [batchCount : Nat, loop : BOOLEAN, loopCount : Nat,
                        uro : BOOLEAN]
  /\ SoRcvTimeoWorks \in BOOLEAN
  /\ Uint32Values \in Nat \ {0}

VARIABLES
  options,
  pc,             \* where run_server and its run_receive_loop are
  idle_deadline,
  session,        \* sessions completed
  lost,           \* ServerStats.lost
  socket,         \* datagrams the kernel holds for the socket, oldest first
  arrived         \* history: datagrams that ever arrived

control == <<options, pc, idle_deadline, session, lost>>
network == <<socket, arrived>>
server_vars == <<vars, control, network>>

Control == {"start", "top", "poll", "recv", "ingest", "finalizing", "summary",
            "exited", "failed"}

ServerInit ==
  /\ Init
  /\ options \in Options
  /\ pc = "start"
  /\ idle_deadline = "unset"
  /\ session = 0
  /\ lost = 0
  /\ socket = <<>> /\ arrived = 0

CountMode == options.batchCount # NoCount
InSession == pc \in {"top", "poll", "recv", "ingest", "finalizing"}

GoTo(label) ==
  /\ pc' = label
  /\ UNCHANGED <<options, idle_deadline, session, lost>>

-----------------------------------------------------------------------------
\* The start of the process

kUroMaxCoalescedRecv == kMaxBatchSize

\* What Windows says of the option once it was set: the size now in force,
\* none after an error.
CoalescedSize == {0, kUroMaxCoalescedRecv \div 2, kUroMaxCoalescedRecv}

uro_configure_recv_socket(size) == size = kUroMaxCoalescedRecv

\* run_server binds the socket and, for --uro, has the kernel coalesce.
Start ==
  /\ pc = "start"
  /\ \E bound \in BOOLEAN, size \in CoalescedSize :
       GoTo(IF bound /\ (options.uro => uro_configure_recv_socket(size))
            THEN "top" ELSE "failed")
  /\ UNCHANGED <<vars, network>>

-----------------------------------------------------------------------------
\* The end of a session

\* upper of finalize_lost, 32 bits wide: the last batch of --count when given,
\* else of the wire's batch_total, else the highest sequence number seen.
LastExpected ==
  IF CountMode THEN (options.batchCount - 1) % Uint32Values
  ELSE IF wire_batch_total # NoTotal THEN wire_batch_total - 1
  ELSE highest_seq

NothingExpected == ~CountMode /\ wire_batch_total = NoTotal /\ ~have_seq

\* Mutant: one sequence number too many.
ExpectedSeqsInclusive ==
  IF NothingExpected THEN {} ELSE 0 .. LastExpected + 1

ExpectedSeqs == IF NothingExpected THEN {} ELSE 0 .. LastExpected

\* `seq <= upper` is true of every std::uint32_t.
FinalizeLoops == ~NothingExpected /\ LastExpected = Uint32Values - 1

\* Mutant: what was counted is subtracted, repeated batches included.
finalize_lost_by_batches == lost' = Cardinality(ExpectedSeqs) - batches

finalize_lost == lost' = lost + Cardinality(ExpectedSeqs \ seen_seq)

\* Out of the receive loop: an open batch is bad, then the summary is printed.
EndSession ==
  /\ bad_batches' = IF active THEN bad_batches + 1 ELSE bad_batches
  /\ IF active THEN reset_reassembly ELSE UNCHANGED reassembly
  /\ IF FinalizeLoops THEN pc' = "finalizing" /\ UNCHANGED lost
                      ELSE pc' = "summary" /\ finalize_lost
  /\ UNCHANGED <<batches, fragments, sequence_stats, wire_batch_total, calls,
                 history, options, idle_deadline, session, arrived>>

\* run_server: the next session starts from nothing but the socket.
NextSession ==
  /\ pc = "summary"
  /\ session' = session + 1
  /\ IF options.loop /\ (options.loopCount = NoCount
                           \/ session' < options.loopCount)
     THEN /\ pc' = "top"
          /\ idle_deadline' = "unset"
          /\ lost' = 0
          /\ batches' = 0 /\ fragments' = 0 /\ bad_batches' = 0
          /\ duplicates' = 0 /\ out_of_order' = 0
          /\ seen_seq' = {} /\ highest_seq' = 0
          /\ wire_batch_total' = NoTotal
          /\ reset_reassembly
          /\ datagrams' = 0 /\ opened' = 0 /\ accepted' = <<>>
          /\ UNCHANGED calls
     ELSE /\ pc' = "exited"
          /\ UNCHANGED <<vars, idle_deadline, lost>>
  /\ UNCHANGED <<options, network>>

-----------------------------------------------------------------------------
\* One turn of the receive loop

\* Mutant: one batch more than --count.
FinishedAfter ==
  IF CountMode
  THEN \/ batches > options.batchCount
       \/ idle_deadline = "passed" /\ ~active
  ELSE idle_deadline = "passed"

\* The conditions that end the loop at its top.
Finished ==
  IF CountMode
  THEN \/ batches >= options.batchCount
       \/ idle_deadline = "passed" /\ ~active
  ELSE idle_deadline = "passed"

LoopEnds == pc = "top" /\ Finished /\ EndSession /\ UNCHANGED socket

\* Mutant: idle mode relies on SO_RCVTIMEO, without the poll.
LoopTurnsUnpolled ==
  /\ pc = "top"
  /\ ~Finished
  /\ GoTo("recv")
  /\ UNCHANGED <<vars, network>>

\* Count mode blocks in recvfrom with SO_RCVTIMEO set; idle mode polls first,
\* unless it waits for the first datagram of the session.
LoopTurns ==
  /\ pc = "top"
  /\ ~Finished
  /\ GoTo(IF CountMode \/ idle_deadline = "unset" THEN "recv" ELSE "poll")
  /\ UNCHANGED <<vars, network>>

Readable ==
  /\ pc = "poll"
  /\ socket # <<>>
  /\ GoTo("recv")
  /\ UNCHANGED <<vars, network>>

PollTimesOut ==
  /\ pc = "poll"
  /\ socket = <<>>
  /\ idle_deadline = "passed"
  /\ EndSession
  /\ UNCHANGED socket

\* poll (select) reports an error: wait_udp_readable returns false, as it does
\* when the time is out.
PollFails ==
  /\ pc = "poll"
  /\ EndSession
  /\ UNCHANGED socket

\* recvfrom returns one datagram.
ReceiveOne ==
  /\ pc = "recv"
  /\ ~options.uro
  /\ socket # <<>>
  /\ ReceiveDatagram(Head(socket))
  /\ socket' = Tail(socket)
  /\ GoTo("ingest")
  /\ UNCHANGED arrived

\* Datagrams the kernel may hand over as one: of one size, but for a shorter
\* one at the end, and no more than fits the buffer.
Coalescible(segments) ==
  LET size == Len(Head(segments))
      last == Len(segments[Len(segments)])
  IN  /\ \A k \in 1 .. Len(segments) - 1 : Len(segments[k]) = size
      /\ last \in 1 .. size
      /\ (Len(segments) - 1) * size + last <= kUroMaxCoalescedRecv

Coalesced(segments) ==
  LET size == Len(Head(segments))
  IN  [i \in 1 .. (Len(segments) - 1) * size + Len(segments[Len(segments)]) |->
         segments[((i - 1) \div size) + 1][((i - 1) % size) + 1]]

\* WSARecvMsg returns one datagram or more.
ReceiveCoalesced ==
  /\ pc = "recv"
  /\ options.uro
  /\ \E k \in DOMAIN socket :
       /\ Coalescible(SubSeq(socket, 1, k))
       /\ ReceiveDatagram(Coalesced(SubSeq(socket, 1, k)))
       /\ socket' = From(socket, k)
  /\ GoTo("ingest")
  /\ UNCHANGED arrived

\* WSARecvMsg returns an empty datagram: receive_uro_datagram reports that
\* nothing was received, as it does when the time is out.
ReceiveEmpty ==
  /\ pc = "recv"
  /\ options.uro
  /\ socket # <<>>
  /\ Head(socket) = <<>>
  /\ socket' = Tail(socket)
  /\ IF idle_deadline = "unset"
     THEN GoTo("top") /\ UNCHANGED <<vars, arrived>>
     ELSE EndSession

\* Only count mode leaves a receive timeout on the socket.
ReceiveTimesOut ==
  /\ pc = "recv"
  /\ CountMode
  /\ SoRcvTimeoWorks
  /\ socket = <<>>
  /\ idle_deadline = "passed"
  /\ EndSession
  /\ UNCHANGED socket

\* receive_datagram throws: main reports the error, there is no summary.
ReceiveFails ==
  /\ pc = "recv"
  /\ GoTo("failed")
  /\ UNCHANGED <<vars, network>>

IngestStep ==
  /\ pc = "ingest"
  /\ Ingest
  /\ UNCHANGED <<control, network>>

IngestDone ==
  /\ pc = "ingest"
  /\ calls = <<>>
  /\ pc' = "top"
  /\ idle_deadline' = "pending"
  /\ UNCHANGED <<vars, options, session, lost, network>>

-----------------------------------------------------------------------------
\* The environment

Arrive(d) ==
  /\ pc # "start"
  /\ arrived < MaxDatagrams
  /\ socket' = Append(socket, d)
  /\ arrived' = arrived + 1
  /\ UNCHANGED <<vars, control>>

DeadlinePasses ==
  /\ InSession
  /\ idle_deadline = "pending"
  /\ idle_deadline' = "passed"
  /\ UNCHANGED <<vars, options, pc, session, lost, network>>

-----------------------------------------------------------------------------
ServerStep ==
  \/ Start
  \/ LoopEnds \/ LoopTurns \/ Readable \/ PollTimesOut
  \/ ReceiveOne \/ ReceiveCoalesced \/ ReceiveEmpty \/ ReceiveTimesOut
  \/ IngestStep \/ IngestDone
  \/ NextSession

ServerNext ==
  \/ ServerStep
  \/ PollFails \/ ReceiveFails
  \/ DeadlinePasses
  \/ \E d \in Datagrams : Arrive(d)

\* The process is scheduled and time passes; datagrams need not come.
ServerFairness ==
  /\ WF_server_vars(ServerStep)
  /\ WF_server_vars(DeadlinePasses)

ServerSpec == ServerInit /\ [][ServerNext]_server_vars /\ ServerFairness

-----------------------------------------------------------------------------
(***************************************************************************)
(* The server seen as the account of Ledger: an entry is a batch whose     *)
(* header was accepted, and the account is closed by print_summary.        *)
(***************************************************************************)
Account == INSTANCE Ledger WITH
  asked    <- options.batchCount,
  total    <- wire_batch_total,
  open     <- active,
  settled  <- seen_seq,
  repeated <- duplicates,
  bad      <- bad_batches,
  closed   <- pc \in {"summary", "exited"}

-----------------------------------------------------------------------------
(***************************************************************************)
(* Properties                                                              *)
(***************************************************************************)

\* The types of the process's own state; between two datagrams no call of
\* ingest_fragment is under way.
ServerTypeOK ==
  /\ TypeOK
  /\ options \in Options
  /\ pc \in Control
  /\ idle_deadline \in {"unset", "pending", "passed"}
  /\ session \in Nat /\ lost \in Nat
  /\ socket \in Seq(Datagrams)
  /\ arrived \in Nat
  /\ calls # <<>> => pc = "ingest"

\* The summary line balances.  Every batch opened is counted good or bad, and
\* of the batch_total (or --count) batches of the run each is counted or
\* lost, never both: batches - dup + lost is the size of the run, as long as
\* --count fits into 32 bits (server.cpp:200-233, 685-704, 748-766).
SummaryBalances ==
  pc = "summary" =>
    LET counted == batches - duplicates
    IN  /\ ~active
        /\ opened = batches + bad_batches
        /\ IF CountMode
           THEN /\ counted + lost >= options.batchCount
                /\ wire_batch_total <= options.batchCount
                     => counted + lost = options.batchCount
           ELSE counted + lost = wire_batch_total

\* cli.hpp:78: "--count <n>  Receive exactly n logical batches, then exit".
CountNotExceeded ==
  CountMode => batches <= options.batchCount

\* Traffic of clients with one --size: no datagram is longer than a batch, and
\* the magic number is only at the start of a datagram with a whole header,
\* which announces that size.  What is lost, repeated, overtaken or corrupt does
\* not matter.
TrafficOfSize(size) ==
  \A d \in Datagrams :
    /\ Len(d) <= size
    /\ \A i \in DOMAIN d :
         d[i] = kPacketMagic
           => i = 1 /\ Len(d) >= kPacketHeaderSize /\ d[4] = size

OneSizeTraffic ==
  \E size \in kPacketHeaderSize + 1 .. kMaxBatchSize : TrafficOfSize(size)

\* Of such traffic count mode without --uro receives n batches and no more: one
\* datagram never completes two, although the words of lost batches wait in the
\* buffer and complete others (server.cpp:249-359, 666-682).
CountKept ==
  OneSizeTraffic /\ ~options.uro => CountNotExceeded

\* README.md:106: without --count a session receives "until **3 s** with
\* no further datagrams".  No read ends a session earlier, with --count not
\* before its batches are there (server.cpp:576-602, 662-746).
EndsOnlyWhenIdle ==
  [][pc = "recv" /\ pc' = "summary"
       => \/ idle_deadline = "passed"
          \/ CountMode /\ batches >= options.batchCount]_server_vars

\* In every mode, through resynchronisation, salvage and the end of a session
\* at any point, the summary line keeps the account that Ledger promises,
\* as long as --count fits into 32 bits (server.cpp:180-223, 249-359, 468-549,
\* 662-768, 804-828).
ImplementsLedger == Account!LedgerSpec

\* A session that has received anything ends, three seconds after the last
\* datagram at the latest, with a summary or an error: README.md:106, and
\* linux/README.md:43 for --count.  A batch left open by a lost segment does not
\* keep it from ending (server.cpp:666-682, 712-745).
SessionEnds ==
  InSession /\ datagrams # 0 ~> ~InSession

\* linux/README.md:76: "While reassembling, recv blocks with no timeout".  The
\* three seconds do not end a session that has a batch open.
NoTimeoutWhileReassembling ==
  [][active /\ idle_deadline = "passed" => pc' # "summary"]_server_vars

=============================================================================
