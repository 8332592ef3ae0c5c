----------------------------- MODULE Reassembly -----------------------------
(***************************************************************************)
(* The receiver's core: ingest_fragment and try_complete_batch of          *)
(* server.cpp, which turn a stream of datagrams back into batches.         *)
(*                                                                         *)
(* One step is one turn of the `while (offset < length)` loop of           *)
(* ingest_fragment.  try_complete_batch calls ingest_fragment again on the *)
(* tail it salvages from a corrupt batch, in the middle of the caller's    *)
(* loop: calls is the stack of the invocations under way, innermost first, *)
(* each represented by the part of its data it has not read yet.           *)
(***************************************************************************)
EXTENDS Packet, FiniteSets, Functions, SequencesExt

CONSTANTS
  Datagrams,     \* what the socket may return
  MaxDatagrams   \* bound of the model: datagrams on the socket in a behaviour

ASSUME ReassemblyAssumption ==
  /\ Datagrams \subseteq Seq(Word)
  /\ MaxDatagrams \in Nat

VARIABLES
  \* BatchReassembly
  buffer, filled, expected, active, fragment_sizes,
  \* ServerStats (have_seq is the definition below; lost is Server's)
  batches, fragments, bad_batches, duplicates, out_of_order,
  seen_seq, highest_seq, wire_batch_total,
  \* the call stack
  calls,
  \* history: datagrams received, headers that opened a batch, and the
  \* batches counted, in order
  datagrams, opened, accepted

reassembly == <<buffer, filled, expected, active, fragment_sizes>>
history == <<datagrams, opened, accepted>>
sequence_stats == <<duplicates, out_of_order, seen_seq, highest_seq>>
vars == <<reassembly, batches, fragments, bad_batches, sequence_stats,
          wire_batch_total, calls, history>>

\* An unset std::optional of infer_detected_mss
NoMss == 0

\* set together with the first insertion into seen_seq
have_seq == seen_seq # {}

\* Mutant: no sequence number seen yet is -1, in an unsigned field.
InitStats_signed ==
  /\ batches = 0 /\ fragments = 0 /\ bad_batches = 0
  /\ duplicates = 0 /\ out_of_order = 0
  /\ seen_seq = {} /\ highest_seq = -1
  /\ wire_batch_total = NoTotal

InitStats ==
  /\ batches = 0 /\ fragments = 0 /\ bad_batches = 0
  /\ duplicates = 0 /\ out_of_order = 0
  /\ seen_seq = {} /\ highest_seq = 0
  /\ wire_batch_total = NoTotal

InitReassembly ==
  /\ buffer = <<>> /\ filled = 0 /\ expected = 0
  /\ active = FALSE /\ fragment_sizes = <<>>

Init ==
  /\ InitStats
  /\ InitReassembly
  /\ calls = <<>>
  /\ datagrams = 0 /\ opened = 0 /\ accepted = <<>>

\* Mutants: a field of the batch before survives.
reset_keeping_sizes ==
  /\ buffer' = <<>> /\ filled' = 0 /\ expected' = 0
  /\ active' = FALSE /\ UNCHANGED fragment_sizes

reset_keeping_expected ==
  /\ buffer' = <<>> /\ filled' = 0 /\ UNCHANGED expected
  /\ active' = FALSE /\ fragment_sizes' = <<>>

reset_reassembly ==
  /\ buffer' = <<>> /\ filled' = 0 /\ expected' = 0
  /\ active' = FALSE /\ fragment_sizes' = <<>>

-----------------------------------------------------------------------------
\* The innermost ingest_fragment call and what its loop does next

unread == Head(calls)

\* data[offset] is the first word of rest: loop on, or return at the end.
Continue(rest) == (IF rest = <<>> THEN <<>> ELSE <<rest>>) \o Tail(calls)

Scanning   == calls # <<>> /\ ~active
Collecting == calls # <<>> /\ active

\* Words of this datagram skipped before the next header is collected.
Skipped == IF buffer = <<>> THEN find_batch_header_offset(unread) ELSE 0

\* Words the header being collected still lacks.
Lacking == kPacketHeaderSize - Len(buffer)

HeaderInReach ==
  /\ Skipped < Len(unread)
  /\ Skipped + Lacking <= Len(unread)

Candidate == buffer \o SubSeq(unread, Skipped + 1, Skipped + Lacking)

\* Mutant: the header's batch_total is not compared with the session's.
CandidatePlausible == peek_batch_length(Candidate) # 0

CandidateAccepted ==
  /\ peek_batch_length(Candidate) # 0
  /\ ValidSession(PacketHeader(Candidate), wire_batch_total)

-----------------------------------------------------------------------------
\* receive_datagram (or receive_uro_datagram) got d from the socket and calls
\* ingest_fragment.
ReceiveDatagram(d) ==
  /\ calls = <<>>
  /\ fragments' = fragments + 1
  /\ datagrams' = datagrams + 1
  /\ calls' = IF d = <<>> THEN <<>> ELSE <<d>>
  /\ UNCHANGED <<reassembly, batches, bad_batches, sequence_stats,
                 wire_batch_total, opened, accepted>>

\* Nothing collected yet and no header in the rest of the datagram: keep a
\* tail that may be the start of a split header, and return.
RetainTail ==
  /\ Scanning
  /\ buffer = <<>>
  /\ Skipped >= Len(unread)
  /\ LET keep == IF Len(unread) < kPacketHeaderSize - 1
                 THEN Len(unread) ELSE kPacketHeaderSize - 1
     IN  buffer' = From(unread, Len(unread) - keep)
  /\ calls' = Tail(calls)
  /\ UNCHANGED <<filled, expected, active, fragment_sizes, batches, fragments,
                 bad_batches, sequence_stats, wire_batch_total, history>>

\* Mutant: a header split between datagrams is forgotten.
SplitHeaderLost ==
  /\ Scanning
  /\ Skipped < Len(unread)
  /\ ~HeaderInReach
  /\ buffer' = <<>>
  /\ calls' = Tail(calls)
  /\ UNCHANGED <<filled, expected, active, fragment_sizes, batches, fragments,
                 bad_batches, sequence_stats, wire_batch_total, history>>

\* The datagram ends before the header is complete.
SplitHeader ==
  /\ Scanning
  /\ Skipped < Len(unread)
  /\ ~HeaderInReach
  /\ buffer' = buffer \o From(unread, Skipped)
  /\ calls' = Tail(calls)
  /\ UNCHANGED <<filled, expected, active, fragment_sizes, batches, fragments,
                 bad_batches, sequence_stats, wire_batch_total, history>>

\* Mutants: a refused header is not slid over by one word, but kept, or
\* thrown away as a whole.
RejectHeaderKeeping(words) ==
  /\ Scanning
  /\ HeaderInReach
  /\ ~CandidateAccepted
  /\ buffer' = words
  /\ calls' = Continue(From(unread, Skipped + Lacking))
  /\ UNCHANGED <<filled, expected, active, fragment_sizes, batches, fragments,
                 bad_batches, sequence_stats, wire_batch_total, history>>

RejectHeaderInPlace == RejectHeaderKeeping(Candidate)
RejectHeaderWhole   == RejectHeaderKeeping(<<>>)

\* Mutant: the rest of a refused header is collected again.
RejectHeaderRereading ==
  /\ Scanning
  /\ HeaderInReach
  /\ ~CandidateAccepted
  /\ buffer' = Tail(Candidate)
  /\ calls' = Continue(From(unread, Skipped))
  /\ UNCHANGED <<filled, expected, active, fragment_sizes, batches, fragments,
                 bad_batches, sequence_stats, wire_batch_total, history>>

\* Not a header, or one of another session: slide by one word (the code also
\* rescans the collected words, which are exactly one header long).
RejectHeader ==
  /\ Scanning
  /\ HeaderInReach
  /\ ~CandidateAccepted
  /\ LET aligned == find_batch_header_offset(Candidate)
     IN  buffer' = IF /\ peek_batch_length(Candidate) = 0
                      /\ aligned \in 1 .. Len(Candidate) - 1
                   THEN From(Candidate, aligned)
                   ELSE Tail(Candidate)
  /\ calls' = Continue(From(unread, Skipped + Lacking))
  /\ UNCHANGED <<filled, expected, active, fragment_sizes, batches, fragments,
                 bad_batches, sequence_stats, wire_batch_total, history>>

\* A plausible header of this session opens a batch; the first one fixes the
\* session's batch_total, before any checksum is known to be right.
AcceptHeader ==
  /\ Scanning
  /\ HeaderInReach
  /\ CandidateAccepted
  /\ expected' = peek_batch_length(Candidate)
  /\ buffer' = Candidate \o [i \in 1 .. expected' - kPacketHeaderSize |-> 0]
  /\ filled' = kPacketHeaderSize
  /\ active' = TRUE
  /\ wire_batch_total' = PacketHeader(Candidate).batch_total
  /\ calls' = Continue(From(unread, Skipped + Lacking))
  /\ opened' = opened + 1
  /\ UNCHANGED <<fragment_sizes, batches, fragments, bad_batches,
                 sequence_stats, datagrams, accepted>>

-----------------------------------------------------------------------------
space == expected - filled

\* reassembly.buffer after the memcpy of the next take words
Copied(take) ==
  [i \in 1 .. Len(buffer) |->
     IF i \in filled + 1 .. filled + take THEN unread[i - filled]
                                          ELSE buffer[i]]

Assembled == Copied(space)

\* The segment size printed for a batch: the slice size seen most often, the
\* larger of two that are seen equally often.
infer_detected_mss(sizes) ==
  LET Seen(size) == Cardinality({k \in DOMAIN sizes : sizes[k] = size})
  IN  IF Len(sizes) < 2 THEN NoMss
      ELSE Max({size \in Range(sizes) :
                  \A other \in Range(sizes) : Seen(size) >= Seen(other)})

\* The three refusals of try_complete_batch.
BatchAccepted(batch) ==
  /\ Len(batch) >= kPacketHeaderSize
  /\ ValidSession(PacketHeader(batch), wire_batch_total)
  /\ ValidBatch(batch)

\* The tail of a corrupt batch that try_complete_batch feeds back: it starts
\* with the first header of the expected next batch, and only when that batch
\* is there as a whole and valid.  A set of at most one element.
SalvageOffset(batch) ==
  LET h == PacketHeader(batch)
  IN  find_next_batch_header_offset(
        batch,
        IF h.seq + 1 < h.batch_total THEN {h.seq + 1} ELSE Nat,
        wire_batch_total)

Salvage(batch) ==
  {tail \in {From(batch, SalvageOffset(batch))} :
     /\ ValidSession(PacketHeader(batch), wire_batch_total)
     /\ tail # <<>>
     /\ PacketHeader(tail).length <= Len(tail)
     /\ ValidBatch(SubSeq(tail, 1, PacketHeader(tail).length))}

\* The datagram ends before the batch is complete.
CopyFragment ==
  /\ Collecting
  /\ Len(unread) < space
  /\ buffer' = Copied(Len(unread))
  /\ filled' = filled + Len(unread)
  /\ fragment_sizes' = Append(fragment_sizes, Len(unread))
  /\ calls' = Tail(calls)
  /\ UNCHANGED <<expected, active, batches, fragments, bad_batches,
                 sequence_stats, wire_batch_total, history>>

\* Mutant: a repeated batch is looked for after the order is checked.
track_order_first(seq) ==
  /\ out_of_order' = IF have_seq /\ seq < highest_seq
                     THEN out_of_order + 1 ELSE out_of_order
  /\ duplicates' = IF seq \in seen_seq THEN duplicates + 1 ELSE duplicates
  /\ seen_seq' = seen_seq \cup {seq}
  /\ highest_seq' = IF have_seq /\ highest_seq > seq
                    THEN highest_seq ELSE seq

track_sequence(seq) ==
  IF seq \in seen_seq
  THEN /\ duplicates' = duplicates + 1
       /\ UNCHANGED <<out_of_order, seen_seq, highest_seq>>
  ELSE /\ out_of_order' = IF have_seq /\ seq < highest_seq
                          THEN out_of_order + 1 ELSE out_of_order
       /\ seen_seq' = seen_seq \cup {seq}
       /\ highest_seq' = IF have_seq /\ highest_seq > seq
                         THEN highest_seq ELSE seq
       /\ UNCHANGED duplicates

\* The batch is complete and valid.
CountBatch ==
  /\ Collecting
  /\ Len(unread) >= space
  /\ BatchAccepted(Assembled)
  /\ track_sequence(PacketHeader(Assembled).seq)
  /\ batches' = batches + 1
  /\ accepted' = Append(accepted, Assembled)
  /\ reset_reassembly
  /\ calls' = Continue(From(unread, space))
  /\ UNCHANGED <<fragments, bad_batches, wire_batch_total, datagrams, opened>>

\* Mutant: the slices of a corrupt batch are kept.
DropBatchKeepingSizes ==
  /\ Collecting
  /\ Len(unread) >= space
  /\ ~BatchAccepted(Assembled)
  /\ Salvage(Assembled) = {}
  /\ bad_batches' = bad_batches + 1
  /\ reset_keeping_sizes
  /\ calls' = Continue(From(unread, space))
  /\ UNCHANGED <<batches, fragments, sequence_stats, wire_batch_total,
                 history>>

\* The batch is complete but corrupt, and nothing of it can be used.
DropBatch ==
  /\ Collecting
  /\ Len(unread) >= space
  /\ ~BatchAccepted(Assembled)
  /\ Salvage(Assembled) = {}
  /\ bad_batches' = bad_batches + 1
  /\ reset_reassembly
  /\ calls' = Continue(From(unread, space))
  /\ UNCHANGED <<batches, fragments, sequence_stats, wire_batch_total,
                 history>>

\* Mutant: a batch is bad only when nothing of it can be used.
SalvageTailUncounted ==
  /\ Collecting
  /\ Len(unread) >= space
  /\ ~BatchAccepted(Assembled)
  /\ fragments' = fragments + 1
  /\ reset_reassembly
  /\ \E tail \in Salvage(Assembled) :
       calls' = <<tail>> \o Continue(From(unread, space))
  /\ UNCHANGED <<batches, bad_batches, sequence_stats, wire_batch_total,
                 history>>

\* The batch is complete but corrupt, and its tail is ingested before the
\* rest of the datagram.
SalvageTail ==
  /\ Collecting
  /\ Len(unread) >= space
  /\ ~BatchAccepted(Assembled)
  /\ bad_batches' = bad_batches + 1
  /\ fragments' = fragments + 1
  /\ reset_reassembly
  /\ \E tail \in Salvage(Assembled) :
       calls' = <<tail>> \o Continue(From(unread, space))
  /\ UNCHANGED <<batches, sequence_stats, wire_batch_total, history>>

-----------------------------------------------------------------------------
Ingest ==
  \/ RetainTail \/ SplitHeader \/ RejectHeader \/ AcceptHeader
  \/ CopyFragment \/ CountBatch \/ DropBatch \/ SalvageTail

\* Any traffic: the next datagram is any of Datagrams.
Receive ==
  /\ datagrams < MaxDatagrams
  /\ \E d \in Datagrams : ReceiveDatagram(d)

Next == Ingest \/ Receive

Spec == Init /\ [][Next]_vars

\* A call of ingest_fragment runs to its end; datagrams need not come.
FairSpec == Spec /\ WF_vars(Ingest)

-----------------------------------------------------------------------------
(***************************************************************************)
(* Properties                                                              *)
(***************************************************************************)

\* The types of the server's counters and buffers.
TypeOK ==
  /\ buffer \in Seq(Word)
  /\ filled \in Nat /\ expected \in Nat
  /\ active \in BOOLEAN
  /\ fragment_sizes \in Seq(Nat)
  /\ batches \in Nat /\ fragments \in Nat /\ bad_batches \in Nat
  /\ duplicates \in Nat /\ out_of_order \in Nat
  /\ seen_seq \subseteq Nat /\ highest_seq \in Nat
  /\ wire_batch_total \in Nat
  /\ calls \in Seq(Seq(Word))
  /\ datagrams \in Nat /\ opened \in Nat
  /\ accepted \in Seq(Seq(Word))

\* ingest_fragment's memcpy never leaves the buffer, and what lies in the
\* buffer is what the flags say: an open batch has a plausible header of this
\* session and the length that header announced, anything else is less than
\* one header (server.cpp:468-549).
ReassemblyConsistent ==
  IF active
  THEN /\ kPacketHeaderSize <= filled
       /\ filled <= expected
       /\ expected = Len(buffer)
       /\ expected <= kMaxBatchSize
       /\ PacketHeader(buffer).magic = kPacketMagic
       /\ PacketHeader(buffer).length = expected
       /\ PacketHeader(buffer).seq < wire_batch_total
       /\ PacketHeader(buffer).batch_total = wire_batch_total
  ELSE /\ filled = 0 /\ expected = 0 /\ fragment_sizes = <<>>
       /\ Len(buffer) < kPacketHeaderSize

\* fragment_sizes, from which the segment size of a batch is inferred, holds
\* every payload word of the open batch exactly once (server.cpp:536-544).
SegmentsAccountForBytes ==
  active => filled = kPacketHeaderSize + SumFunction(fragment_sizes)

\* The summary's counters, updated one batch at a time by track_sequence, are
\* what they are meant to be of the whole history: a duplicate is a batch
\* whose seq was counted before, out of order is one below an earlier seq
\* (server.cpp:180-198, 340-341).
AcceptedSeq(i) == PacketHeader(accepted[i]).seq

\* The batches that were the first of their seq, and those of them that came
\* after a higher one.
Firsts ==
  {i \in DOMAIN accepted : \A j \in 1 .. i - 1 : AcceptedSeq(j) # AcceptedSeq(i)}
Overtaken ==
  {i \in Firsts : \E j \in 1 .. i - 1 : AcceptedSeq(j) > AcceptedSeq(i)}

CountersMatchHistory ==
  /\ batches = Len(accepted)
  /\ seen_seq = {AcceptedSeq(i) : i \in DOMAIN accepted}
  /\ duplicates = Cardinality(DOMAIN accepted \ Firsts)
  /\ out_of_order = Cardinality(Overtaken)
  /\ \A seq \in seen_seq : seq <= highest_seq

\* Nothing is forgotten: a header that opened a batch ends as exactly one
\* counted or one bad batch, or is still being collected, whatever resync and
\* salvage do in between (README.md:118, server.cpp:249-359, 522-533).
OpenedBatchesAccountedFor ==
  opened = batches + bad_batches + (IF active THEN 1 ELSE 0)

\* A session counts batches of one client --count only, the one of the first
\* header it saw, so that "lost" subtracts sequence numbers of one range
\* (packet.hpp:138-153, server.cpp:200-223).
OneTotalPerSession ==
  \A seq \in seen_seq : seq < wire_batch_total

\* The session's batch_total never changes once it is known
\* (packet.hpp:146-150).
TotalIsPinned ==
  [][wire_batch_total # NoTotal => wire_batch_total' = wire_batch_total]_vars

\* The words received that are neither skipped nor part of a counted batch:
\* those collected, and those the calls under way have still to read.
Collected == IF active THEN SubSeq(buffer, 1, filled) ELSE buffer
Pending == Collected \o FlattenSeq(calls)

Received == INSTANCE Stream
  WITH Pieces <- Datagrams, HeaderSize <- kPacketHeaderSize,
       Announced <- peek_batch_length, Total <- batch_total_of,
       NoSession <- NoTotal, Valid <- ValidBatch,
       pending <- Pending, session <- wire_batch_total, counted <- accepted

\* However datagrams cut the stream and whatever is resynchronised or salvaged,
\* a valid batch of the session is counted once it is at the front, no header of
\* the session is jumped over, and no word is counted twice or out of order
\* (server.cpp:249-359, 438-550).
ImplementsStream == Received!Spec

\* Every call of ingest_fragment returns, the nested ones included: its loop
\* consumes its data although a salvaged tail is read twice.
IngestReturns == calls # <<>> ~> calls = <<>>

\* No input makes a call of ingest_fragment loop for ever: each turn of its loop,
\* in the nested calls too, takes words off the stream, or leaves fewer to read.
\* A salvaged tail is read twice, but never as much as was there before
\* (server.cpp:249-359, 438-550).
IngestProgresses ==
  [][calls # <<>> =>
       \/ Len(Pending') < Len(Pending)
       \/ /\ Len(Pending') = Len(Pending)
          /\ Len(FlattenSeq(calls')) < Len(FlattenSeq(calls))]_vars

\* README.md:179: "the receiver reassembles fragments until `length` bytes
\* arrive, then validates".  No batch whose `length` bytes have arrived waits
\* unvalidated for the next datagram.
ValidatedWhenComplete ==
  ~(calls = <<>> /\ active /\ filled = expected)

=============================================================================
