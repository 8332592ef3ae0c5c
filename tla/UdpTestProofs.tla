--------------------------- MODULE UdpTestProofs ---------------------------
(***************************************************************************)
(* What holds of every test: the types of its clients and, on a network    *)
(* that keeps its datagrams, that the server counts what was sent.  The    *)
(* argument is about one stream of words: what waits in the receiver,      *)
(* followed by what waits in the socket, is what was sent and is not       *)
(* counted yet, batch by batch.                                            *)
(***************************************************************************)
EXTENDS UdpTest, ServerProofs

\* The batches have a payload, and no --count needs more than 32 bits: a batch
\* that is nothing but a header is counted a datagram late, and sequence numbers
\* of 2^32 batches repeat.
OrdinaryTests ==
  /\ \A test \in Tests : \A r \in DOMAIN test :
       /\ test[r].batchSize > kPacketHeaderSize
       /\ test[r].batchCount < Uint32Values
  /\ \A o \in Options : o.batchCount < Uint32Values

-----------------------------------------------------------------------------
(***************************************************************************)
(* The batches of a client                                                 *)
(***************************************************************************)

\* What build_batch puts into a header.
LEMMA BuiltHeader ==
  ASSUME NEW seq \in Nat, NEW total \in Nat, NEW payload \in Seq(Word),
         build_batch(seq, total, payload) \in Seq(Word)
  PROVE  LET batch == build_batch(seq, total, payload)
         IN  /\ Len(batch) = kPacketHeaderSize + Len(payload)
             /\ PacketHeader(batch).magic = kPacketMagic
             /\ PacketHeader(batch).seq = seq
             /\ PacketHeader(batch).batch_total = total
             /\ PacketHeader(batch).length = Len(batch)
             /\ PacketHeader(batch).crc32 = batch_crc32(batch)
<1> DEFINE bare == <<kPacketMagic, seq, total,
                     kPacketHeaderSize + Len(payload), 0>> \o payload
           batch == build_batch(seq, total, payload)
<1>1. Len(payload) \in Nat
  OBVIOUS
<1>2. /\ bare \in Seq(Word)
      /\ Len(bare) = kPacketHeaderSize + Len(payload)
      /\ bare[1] = kPacketMagic /\ bare[2] = seq /\ bare[3] = total
      /\ bare[4] = kPacketHeaderSize + Len(payload) /\ bare[5] = 0
  <2> DEFINE header == <<kPacketMagic, seq, total,
                         kPacketHeaderSize + Len(payload), 0>>
  <2>1. header \in Seq(Word) /\ Len(header) = kPacketHeaderSize
    BY <1>1, PacketAssumption DEF kPacketHeaderSize, Word
  <2>2. /\ header[1] = kPacketMagic /\ header[2] = seq /\ header[3] = total
        /\ header[4] = kPacketHeaderSize + Len(payload) /\ header[5] = 0
    OBVIOUS
  <2> HIDE DEF header
  <2>3. /\ header \o payload \in Seq(Word)
        /\ Len(header \o payload) = Len(header) + Len(payload)
        /\ \A i \in 1 .. Len(header) + Len(payload) :
             (header \o payload)[i] = IF i <= Len(header) THEN header[i]
                                      ELSE payload[i - Len(header)]
    BY <2>1, ConcatProperties
  <2>4. \A i \in 1 .. 5 : (header \o payload)[i] = header[i]
    BY <1>1, <2>1, <2>3 DEF kPacketHeaderSize
  <2>5. 1 \in 1 .. 5 /\ 2 \in 1 .. 5 /\ 3 \in 1 .. 5 /\ 4 \in 1 .. 5 /\ 5 \in 1 .. 5
    OBVIOUS
  <2>6. bare = header \o payload
    BY DEF header
  <2> HIDE DEF bare
  <2> QED
    BY <2>1, <2>2, <2>3, <2>4, <2>5, <2>6
<1>3. batch = [bare EXCEPT ![5] = batch_crc32(bare)]
  BY DEF build_batch
<1> HIDE DEF bare, batch
<1>4. 1 .. Len(bare) = DOMAIN bare /\ 5 \in DOMAIN bare
  BY <1>1, <1>2 DEF kPacketHeaderSize
<1>5. /\ DOMAIN batch = DOMAIN bare /\ batch \in Seq(Word)
      /\ batch[5] = batch_crc32(bare)
      /\ \A i \in DOMAIN bare : i # 5 => batch[i] = bare[i]
  BY <1>3, <1>4 DEF batch
<1>6. Len(batch) = Len(bare)
  BY <1>2, <1>5, LenProperties
<1>7. /\ PacketHeader(batch).magic = kPacketMagic
      /\ PacketHeader(batch).seq = seq /\ PacketHeader(batch).batch_total = total
      /\ PacketHeader(batch).length = Len(batch)
      /\ PacketHeader(batch).crc32 = batch_crc32(bare)
  <2>1. 1 \in DOMAIN bare /\ 2 \in DOMAIN bare /\ 3 \in DOMAIN bare /\ 4 \in DOMAIN bare
    BY <1>1, <1>2, <1>4 DEF kPacketHeaderSize
  <2>2. /\ batch[1] = kPacketMagic /\ batch[2] = seq /\ batch[3] = total
        /\ batch[4] = Len(batch)
    <3>1. /\ batch[1] = bare[1] /\ batch[2] = bare[2] /\ batch[3] = bare[3]
          /\ batch[4] = bare[4]
      BY <1>5, <2>1
    <3> QED
      BY <1>2, <1>6, <3>1
  <2> QED
    BY <1>5, <2>2 DEF PacketHeader
<1>8. [batch EXCEPT ![5] = 0] = bare /\ [bare EXCEPT ![5] = 0] = bare
  BY <1>2, <1>4, <1>5
<1>9. batch_crc32(batch) = batch_crc32(bare)
  BY <1>8 DEF batch_crc32
<1> QED
  BY <1>2, <1>6, <1>7, <1>9 DEF batch

\* A batch that was built is valid, and its header announces it.
LEMMA BuiltIsValid ==
  ASSUME NEW seq \in Nat, NEW total \in Nat, seq < total,
         NEW payload \in Seq(Word),
         kPacketHeaderSize + Len(payload) <= kMaxBatchSize,
         build_batch(seq, total, payload) \in Seq(Word)
  PROVE  LET batch == build_batch(seq, total, payload)
         IN  /\ ValidBatch(batch)
             /\ peek_batch_length(batch) = Len(batch)
             /\ batch_total_of(batch) = total
<1> DEFINE batch == build_batch(seq, total, payload)
<1>1. /\ Len(batch) = kPacketHeaderSize + Len(payload)
      /\ PacketHeader(batch).magic = kPacketMagic
      /\ PacketHeader(batch).seq = seq
      /\ PacketHeader(batch).batch_total = total
      /\ PacketHeader(batch).length = Len(batch)
      /\ PacketHeader(batch).crc32 = batch_crc32(batch)
  BY BuiltHeader
<1>2. Len(payload) \in Nat
  OBVIOUS
<1> HIDE DEF batch
<1>3. header_meta_plausible(PacketHeader(batch)) /\ Len(batch) >= kPacketHeaderSize
  BY <1>1, <1>2 DEF header_meta_plausible, kMaxPacketLength, kPacketHeaderSize
<1> QED
  BY <1>1, <1>3 DEF ValidBatch, peek_batch_length, batch_total_of, batch

RunOptions ==
  [batchCount : Nat \ {0}, batchSize : kPacketHeaderSize .. kMaxBatchSize,
   mss : 0 .. kMaxBatchSize]

\* A test is a sequence of at least one run.
LEMMA RunsProperties ==
  ASSUME runs \in Tests
  PROVE  /\ runs \in Seq(RunOptions) /\ Len(runs) \in Nat /\ Len(runs) >= 1
         /\ DOMAIN runs = 1 .. Len(runs)
         /\ \A r \in DOMAIN runs : runs[r] \in RunOptions
<1>1. runs \in Seq(RunOptions) /\ runs # <<>>
  BY UdpTestAssumption DEF RunOptions
<1> QED
  BY <1>1, LenProperties, ElementOfSeq, EmptySeq

\* The batches of a test are as long as asked for.
LEMMA ClientBatchType ==
  ASSUME runs \in Tests, NEW r \in DOMAIN runs,
         NEW i \in 0 .. runs[r].batchCount - 1
  PROVE  /\ ClientBatch(r, i) \in Seq(Word)
         /\ Len(ClientBatch(r, i)) = runs[r].batchSize
<1> DEFINE total == runs[r].batchCount % Uint32Values
           seq == i % Uint32Values
           size == runs[r].batchSize - kPacketHeaderSize
           payload == Payload(r, i, size)
<1>1. /\ runs[r].batchCount \in Nat
      /\ runs[r].batchSize \in Nat /\ kPacketHeaderSize <= runs[r].batchSize
  <2>1. runs[r] \in RunOptions
    BY RunsProperties
  <2> QED
    BY <2>1, PacketAssumption DEF RunOptions, kPacketHeaderSize
<1>2. total \in Nat /\ seq \in Nat
  BY <1>1, ServerAssumption
<1>3. /\ payload \in Seq(Word) /\ Len(payload) = size
      /\ build_batch(seq, total, payload) \in Seq(Word)
  BY PayloadAssumption
<1>4. kPacketHeaderSize + Len(payload) = runs[r].batchSize
  BY <1>1, <1>3 DEF kPacketHeaderSize
<1> HIDE DEF payload, total, seq, size
<1>5. Len(build_batch(seq, total, payload)) = runs[r].batchSize
  BY <1>2, <1>3, <1>4, BuiltHeader
<1>6. ClientBatch(r, i) = build_batch(seq, total, payload)
  BY DEF ClientBatch, payload, total, seq, size
<1> QED
  BY <1>3, <1>5, <1>6

\* Those of an ordinary test are valid, and each can be told from nothing but a
\* header.
LEMMA ClientBatchIsValid ==
  ASSUME OrdinaryTests, runs \in Tests, NEW r \in DOMAIN runs,
         NEW i \in 0 .. runs[r].batchCount - 1
  PROVE  /\ Len(ClientBatch(r, i)) > kPacketHeaderSize
         /\ ValidBatch(ClientBatch(r, i))
         /\ peek_batch_length(ClientBatch(r, i)) = Len(ClientBatch(r, i))
         /\ batch_total_of(ClientBatch(r, i)) = runs[r].batchCount
<1> DEFINE total == runs[r].batchCount
           size == runs[r].batchSize
           payload == Payload(r, i, size - kPacketHeaderSize)
<1>1. /\ total \in Nat /\ total < Uint32Values
      /\ size \in kPacketHeaderSize .. kMaxBatchSize /\ size > kPacketHeaderSize
  <2>1. runs[r] \in RunOptions
    BY RunsProperties
  <2> QED
    BY <2>1 DEF OrdinaryTests, RunOptions
<1>2. i \in Nat /\ i < total /\ i % Uint32Values = i /\ total % Uint32Values = total
  BY <1>1, ServerAssumption
<1>3. /\ payload \in Seq(Word) /\ Len(payload) = size - kPacketHeaderSize
      /\ build_batch(i, total, payload) \in Seq(Word)
  BY <1>2, PayloadAssumption
<1>4. ClientBatch(r, i) = build_batch(i, total, payload)
  BY <1>2 DEF ClientBatch
<1>5. kPacketHeaderSize + Len(payload) = size /\ size <= kMaxBatchSize
  BY <1>1, <1>3, PacketAssumption DEF kPacketHeaderSize
<1>6. Len(ClientBatch(r, i)) = size
  BY ClientBatchType
<1> HIDE DEF payload, total, size
<1> QED
  BY <1>1, <1>2, <1>3, <1>4, <1>5, <1>6, BuiltIsValid DEF total

-----------------------------------------------------------------------------
(***************************************************************************)
(* Types                                                                   *)
(***************************************************************************)

\* ServerInv speaks of a socket that holds Datagrams; here it holds what the
\* clients send.
TestInv ==
  /\ IInv
  /\ options \in Options /\ pc \in Control /\ session \in Nat
  /\ calls # <<>> => pc = "ingest"
  /\ socket \in Seq(Seq(Word))
  /\ TestTypeOK

LEMMA TestInitEstablishesInv == TestInit => TestInv
<1> SUFFICES ASSUME TestInit
             PROVE  TestInv
  OBVIOUS
<1>1. IInv /\ calls = <<>>
  BY InitEstablishesIInv DEF TestInit, ServerInit, Init
<1>2. TestTypeOK
  <2>1. /\ runs \in Tests /\ run = 1 /\ batch_no = 0 /\ offset = 0
        /\ faults = 0 /\ killed = FALSE
    BY DEF TestInit
  <2>2. runs[1] \in RunOptions /\ Len(runs) \in Nat /\ Len(runs) >= 1
    BY <2>1, RunsProperties
  <2>3. /\ 0 \in 0 .. runs[1].batchCount - 1
        /\ 0 \in 0 .. runs[1].batchSize - 1
    BY <2>2, PacketAssumption DEF RunOptions, kPacketHeaderSize
  <2>4. run \in 1 .. Len(runs) + 1 /\ faults \in 0 .. MaxFaults /\ killed \in BOOLEAN
    <3>1. MaxFaults \in Nat
      BY UdpTestAssumption
    <3>2. run \in 1 .. Len(runs) + 1
      BY <2>1, <2>2
    <3>3. killed \in BOOLEAN
      BY <2>1
    <3> QED
      BY <2>1, <3>1, <3>2, <3>3
  <2>5. batch_no \in 0 .. runs[run].batchCount - 1 /\ offset \in 0 .. runs[run].batchSize - 1
    BY <2>1, <2>3
  <2> QED
    BY <2>1, <2>4, <2>5 DEF TestTypeOK
<1> QED
  BY <1>1, <1>2, EmptySeq DEF TestInv, TestInit, ServerInit, Control

\* The run under way, and the part of its batch that the next datagram takes.
LEMMA ChunkProperties ==
  ASSUME TestTypeOK, run <= Len(runs)
  PROVE  /\ run \in DOMAIN runs /\ runs[run] \in RunOptions
         /\ batch_no \in Nat /\ batch_no < runs[run].batchCount
         /\ offset \in Nat /\ Chunk \in Nat
         /\ offset + Chunk <= runs[run].batchSize
<1>1. /\ run \in DOMAIN runs /\ runs[run] \in RunOptions
  BY RunsProperties DEF TestTypeOK
<1>2. /\ batch_no \in Nat /\ batch_no < runs[run].batchCount
      /\ offset \in Nat /\ offset < runs[run].batchSize
      /\ runs[run].mss \in Nat /\ runs[run].batchSize \in Nat
  BY <1>1, PacketAssumption DEF TestTypeOK, RunOptions, kPacketHeaderSize
<1>3. Chunk \in Nat /\ offset + Chunk <= runs[run].batchSize
  BY <1>2 DEF Chunk
<1> QED
  BY <1>1, <1>2, <1>3

\* Sending leaves the client at a batch that exists, or at the end of the test.
LEMMA SendKeepsClientTypes ==
  ASSUME TestTypeOK, SendDatagram
  PROVE  TestTypeOK'
<1>1. /\ run <= Len(runs) /\ AdvanceClient
      /\ UNCHANGED <<runs, faults, killed>>
      /\ runs \in Tests /\ run \in 1 .. Len(runs) + 1
  BY DEF SendDatagram, TestTypeOK
<1>2. /\ run \in DOMAIN runs /\ runs[run] \in RunOptions
      /\ batch_no \in Nat /\ batch_no < runs[run].batchCount
      /\ offset \in Nat /\ Chunk \in Nat
      /\ offset + Chunk <= runs[run].batchSize
  BY <1>1, ChunkProperties
<1>3. /\ \A r \in DOMAIN runs : /\ runs[r].batchCount \in Nat \ {0}
                                /\ runs[r].batchSize \in Nat \ {0}
      /\ DOMAIN runs = 1 .. Len(runs) /\ Len(runs) \in Nat
  <2>1. \A r \in DOMAIN runs : runs[r] \in RunOptions
    BY <1>1, RunsProperties
  <2> QED
    BY <1>1, <2>1, RunsProperties, PacketAssumption DEF RunOptions, kPacketHeaderSize
<1>4. /\ run' \in 1 .. Len(runs) + 1
      /\ run' <= Len(runs) => /\ batch_no' \in 0 .. runs[run'].batchCount - 1
                              /\ offset' \in 0 .. runs[run'].batchSize - 1
  <2>1. CASE ~LastChunk
    BY <1>1, <1>2, <1>3, <2>1 DEF AdvanceClient, LastChunk
  <2>2. CASE LastChunk /\ batch_no + 1 # runs[run].batchCount
    BY <1>1, <1>2, <1>3, <2>2 DEF AdvanceClient
  <2>3. CASE LastChunk /\ batch_no + 1 = runs[run].batchCount
    <3>1. run' = run + 1 /\ batch_no' = 0 /\ offset' = 0
      BY <1>1, <1>2, <2>3 DEF AdvanceClient
    <3> QED
      BY <1>1, <1>3, <3>1
  <2> QED
    BY <2>1, <2>2, <2>3
<1> QED
  BY <1>1, <1>4 DEF TestTypeOK

\* What is sent is made of words.
LEMMA SentType ==
  ASSUME TestTypeOK, run <= Len(runs)
  PROVE  SubSeq(ClientBatch(run, batch_no), offset + 1, offset + Chunk) \in Seq(Word)
<1>1. /\ run \in DOMAIN runs /\ runs[run] \in RunOptions /\ runs \in Tests
      /\ batch_no \in Nat /\ batch_no < runs[run].batchCount
      /\ offset \in Nat /\ Chunk \in Nat
      /\ offset + Chunk <= runs[run].batchSize
  BY ChunkProperties DEF TestTypeOK
<1>2. /\ ClientBatch(run, batch_no) \in Seq(Word)
      /\ Len(ClientBatch(run, batch_no)) = runs[run].batchSize
  <2>1. batch_no \in 0 .. runs[run].batchCount - 1
    BY <1>1 DEF RunOptions
  <2> QED
    BY <1>1, <2>1, ClientBatchType
<1> QED
  BY <1>1, <1>2, SubSeqProperties

\* The server's steps by what they do to the reassembly and to the socket.
LEMMA QuietKeepsTestInv ==
  ASSUME TestInv, UNCHANGED <<vars, options>>, pc' \in Control, session' \in Nat,
         socket' \in Seq(Seq(Word)), UNCHANGED <<client, faults, killed>>,
         calls # <<>> => pc' = "ingest"
  PROVE  TestInv'
<1>1. IInv' /\ calls' = calls
  BY StutterPreservesIInv DEF TestInv, vars
<1>2. TestTypeOK'
  BY DEF TestInv, TestTypeOK, client
<1> QED
  BY <1>1, <1>2 DEF TestInv

LEMMA EndKeepsTestInv ==
  ASSUME TestInv, EndSession, calls = <<>>,
         socket' \in Seq(Seq(Word)), UNCHANGED <<client, faults, killed>>
  PROVE  TestInv'
<1>1. IInv'
  BY EndSessionPreservesIInv DEF TestInv
<1>2. TestTypeOK'
  BY DEF TestInv, TestTypeOK, client
<1>3. /\ options' \in Options /\ session' \in Nat /\ pc' \in Control
      /\ calls' = <<>>
  BY DEF TestInv, EndSession, Control
<1> QED
  BY <1>1, <1>2, <1>3 DEF TestInv

LEMMA ReadKeepsTestInv ==
  ASSUME TestInv, NEW d \in Seq(Word), ReceiveDatagram(d), GoTo("ingest"),
         socket' \in Seq(Seq(Word)), UNCHANGED <<client, faults, killed>>
  PROVE  TestInv'
<1>1. IInv'
  BY ReceiveDatagramPreservesIInv DEF TestInv
<1>2. TestTypeOK'
  BY DEF TestInv, TestTypeOK, client
<1> QED
  BY <1>1, <1>2 DEF TestInv, GoTo, Control

\* What a read takes out of the socket.
LEMMA ReadProperties ==
  ASSUME socket \in Seq(Seq(Word)), ReceiveOne \/ ReceiveCoalesced
  PROVE  \E d \in Seq(Word) :
           /\ ReceiveDatagram(d)
           /\ GoTo("ingest")
           /\ socket' \in Seq(Seq(Word))
           /\ FlattenSeq(socket) = d \o FlattenSeq(socket')
<1>1. CASE ReceiveOne
  <2>1. /\ Head(socket) \in Seq(Word) /\ Tail(socket) \in Seq(Seq(Word))
        /\ socket = <<Head(socket)>> \o Tail(socket)
    BY <1>1 DEF ReceiveOne
  <2>2. FlattenSeq(<<Head(socket)>> \o Tail(socket)) =
          Head(socket) \o FlattenSeq(Tail(socket))
    BY <2>1, FlattenOfCons
  <2> QED
    BY <1>1, <2>1, <2>2 DEF ReceiveOne
<1>2. CASE ReceiveCoalesced
  <2>1. PICK k \in DOMAIN socket :
          /\ Coalescible(SubSeq(socket, 1, k))
          /\ ReceiveDatagram(Coalesced(SubSeq(socket, 1, k)))
          /\ socket' = From(socket, k)
    BY <1>2 DEF ReceiveCoalesced
  <2> DEFINE taken == SubSeq(socket, 1, k)
  <2>2. /\ taken \in Seq(Seq(Word)) /\ taken # <<>>
        /\ From(socket, k) \in Seq(Seq(Word))
        /\ socket = taken \o From(socket, k)
    <3>1. /\ k \in 1 .. Len(socket) /\ Len(socket) \in Nat
          /\ From(socket, k) = SubSeq(socket, k + 1, Len(socket))
      BY DEF From
    <3>2. taken \in Seq(Seq(Word)) /\ From(socket, k) \in Seq(Seq(Word))
      BY <3>1, SubSeqProperties
    <3>3. taken # <<>>
      BY <3>1
    <3>4. /\ 1 \in 1 .. Len(socket) + 1 /\ k \in 1 - 1 .. Len(socket)
          /\ Len(socket) \in k .. Len(socket)
      BY <3>1
    <3>5. SubSeq(socket, 1, k) \o SubSeq(socket, k + 1, Len(socket)) =
            SubSeq(socket, 1, Len(socket))
      BY <3>4, ConcatAdjacentSubSeq
    <3>6. SubSeq(socket, 1, Len(socket)) = socket
      BY SubSeqFull
    <3> QED
      BY <3>1, <3>2, <3>3, <3>5, <3>6
  <2>3. Coalesced(taken) = FlattenSeq(taken) /\ Coalesced(taken) \in Seq(Word)
    BY <2>1, <2>2, CoalescedIsJoin
  <2>4. FlattenSeq(taken \o From(socket, k)) =
          FlattenSeq(taken) \o FlattenSeq(From(socket, k))
    BY <2>2, FlattenOfConcat
  <2> HIDE DEF taken
  <2>5. FlattenSeq(socket) = Coalesced(taken) \o FlattenSeq(socket')
    BY <2>1, <2>2, <2>3, <2>4
  <2> QED
    BY <1>2, <2>1, <2>2, <2>3, <2>5 DEF ReceiveCoalesced, taken
<1> QED
  BY <1>1, <1>2

LEMMA ServerKeepsTestInv ==
  ASSUME TestInv, ServerOrClock
  PROVE  TestInv'
<1>1. /\ socket \in Seq(Seq(Word)) /\ session \in Nat /\ IInv
      /\ UNCHANGED <<client, faults, killed>>
      /\ ServerStep \/ PollFails \/ ReceiveFails \/ DeadlinePasses
  BY DEF TestInv, ServerOrClock
<1>2. CASE Start \/ LoopTurns \/ Readable \/ IngestDone \/ ReceiveFails
           \/ DeadlinePasses
  <2>1. /\ UNCHANGED <<vars, options>> /\ pc' \in Control /\ session' \in Nat
        /\ socket' \in Seq(Seq(Word)) /\ (calls # <<>> => pc' = "ingest")
    BY <1>1, <1>2
       DEF Start, LoopTurns, Readable, IngestDone, ReceiveFails, DeadlinePasses,
           GoTo, network,
           Control, TestInv
  <2> QED
    BY <1>1, <2>1, QuietKeepsTestInv
<1>3. CASE LoopEnds \/ PollTimesOut \/ PollFails \/ ReceiveTimesOut
  <2>1. EndSession /\ calls = <<>> /\ socket' \in Seq(Seq(Word))
    BY <1>1, <1>3 DEF LoopEnds, PollTimesOut, PollFails, ReceiveTimesOut, TestInv
  <2> QED
    BY <1>1, <2>1, EndKeepsTestInv
<1>4. CASE ReceiveOne \/ ReceiveCoalesced
  BY <1>1, <1>4, ReadProperties, ReadKeepsTestInv
<1>5. CASE ReceiveEmpty
  <2>1. calls = <<>> /\ socket' \in Seq(Seq(Word))
    BY <1>1, <1>5 DEF ReceiveEmpty, TestInv
  <2>2. CASE EndSession
    BY <1>1, <2>1, <2>2, EndKeepsTestInv
  <2>3. CASE GoTo("top") /\ UNCHANGED <<vars, arrived>>
    BY <1>1, <2>1, <2>3, QuietKeepsTestInv DEF GoTo, Control
  <2> QED
    BY <1>5, <2>2, <2>3 DEF ReceiveEmpty
<1>6. CASE IngestStep
  <2>1. IInv' /\ pc = "ingest" /\ UNCHANGED <<control, network>>
    BY <1>1, <1>6, NextPreservesIInv DEF IngestStep, Next
  <2>2. TestTypeOK'
    BY <1>1 DEF TestInv, TestTypeOK, client
  <2> QED
    BY <2>1, <2>2 DEF TestInv, control, network
<1>7. CASE NextSession
  <2>1. IInv'
    BY <1>1, <1>7, NextSessionPreservesIInv
  <2>2. TestTypeOK'
    BY <1>1 DEF TestInv, TestTypeOK, client
  <2>3. /\ pc = "summary" /\ calls = <<>> /\ calls' = calls
        /\ session' \in Nat /\ pc' \in Control
        /\ UNCHANGED <<options, network>>
    BY <1>1, <1>7 DEF NextSession, TestInv, vars, Control
  <2> QED
    BY <2>1, <2>2, <2>3 DEF TestInv, network
<1> QED
  BY <1>1, <1>2, <1>3, <1>4, <1>5, <1>6, <1>7 DEF ServerStep

LEMMA TestNextPreservesInv ==
  ASSUME TestInv, [TestNext]_test_vars
  PROVE  TestInv'
<1>1. /\ TestTypeOK /\ socket \in Seq(Seq(Word)) /\ IInv
      /\ faults \in 0 .. MaxFaults /\ MaxFaults \in Nat
  BY UdpTestAssumption DEF TestInv, TestTypeOK
<1>2. CASE SendDatagram
  <2>1. SubSeq(ClientBatch(run, batch_no), offset + 1, offset + Chunk) \in Seq(Word)
    BY <1>1, <1>2, SentType DEF SendDatagram
  <2>2. socket' \in Seq(Seq(Word)) /\ UNCHANGED <<vars, control>>
    BY <1>1, <1>2, <2>1 DEF SendDatagram
  <2>3. TestTypeOK'
    BY <1>1, <1>2, SendKeepsClientTypes
  <2>4. IInv' /\ calls' = calls
    BY <1>1, <2>2, StutterPreservesIInv DEF vars
  <2> QED
    BY <2>2, <2>3, <2>4 DEF TestInv, control
<1>3. CASE ClientStops
  <2>1. UNCHANGED <<server_vars, runs, faults>> /\ killed' = TRUE
    BY <1>3 DEF ClientStops
  <2>2. TestTypeOK'
    <3>1. runs \in Tests /\ Len(runs) \in Nat /\ DOMAIN runs = 1 .. Len(runs)
          /\ \A r \in DOMAIN runs : runs[r] \in RunOptions
      BY <1>1, RunsProperties DEF TestTypeOK
    <3>2. run' \in 1 .. Len(runs) + 1 /\ batch_no' = 0 /\ offset' = 0
      BY <1>1, <1>3, <3>1 DEF ClientStops, TestTypeOK
    <3>3. run' <= Len(runs) => /\ 0 \in 0 .. runs[run'].batchCount - 1
                               /\ 0 \in 0 .. runs[run'].batchSize - 1
      BY <3>1, <3>2, PacketAssumption DEF RunOptions, kPacketHeaderSize
    <3> QED
      BY <1>1, <2>1, <3>2, <3>3 DEF TestTypeOK
  <2>3. IInv' /\ calls' = calls
    BY <1>1, <2>1, StutterPreservesIInv DEF server_vars, vars
  <2> QED
    BY <2>1, <2>2, <2>3 DEF TestInv, server_vars, control, network
<1>4. ASSUME NEW queue \in Seq(Seq(Word)), Fault(queue)
      PROVE  TestInv'
  <2>1. /\ UNCHANGED <<vars, control, arrived, client, killed>>
        /\ socket' = queue /\ faults' \in 0 .. MaxFaults
    BY <1>1, <1>4 DEF Fault
  <2>2. TestTypeOK'
    BY <1>1, <2>1 DEF TestTypeOK, client
  <2>3. IInv' /\ calls' = calls
    BY <1>1, <2>1, StutterPreservesIInv DEF vars
  <2> QED
    BY <2>1, <2>2, <2>3 DEF TestInv, control
<1>5. CASE Lose
  <2>1. PICK k \in DOMAIN socket : Fault(SubSeq(socket, 1, k - 1) \o From(socket, k))
    BY <1>5 DEF Lose
  <2>2. SubSeq(socket, 1, k - 1) \o From(socket, k) \in Seq(Seq(Word))
    BY <1>1 DEF From
  <2> QED
    BY <1>4, <2>1, <2>2
<1>6. CASE Duplicate
  <2>1. PICK k \in DOMAIN socket : Fault(Append(socket, socket[k]))
    BY <1>6 DEF Duplicate
  <2>2. Append(socket, socket[k]) \in Seq(Seq(Word))
    BY <1>1
  <2> QED
    BY <1>4, <2>1, <2>2
<1>7. CASE Overtake
  <2>1. PICK k \in 1 .. Len(socket) - 1 :
          Fault([socket EXCEPT ![k] = socket[k + 1], ![k + 1] = socket[k]])
    BY <1>7 DEF Overtake
  <2>2. [socket EXCEPT ![k] = socket[k + 1], ![k + 1] = socket[k]] \in Seq(Seq(Word))
    BY <1>1
  <2> QED
    BY <1>4, <2>1, <2>2
<1>8. CASE ServerOrClock
  BY <1>8, ServerKeepsTestInv
<1>9. CASE UNCHANGED test_vars
  <2>1. UNCHANGED <<vars, control, network, client, faults, killed>>
    BY <1>9 DEF test_vars, server_vars
  <2>2. calls # <<>> => pc = "ingest"
    BY DEF TestInv
  <2> QED
    BY <1>1, <2>1, <2>2, QuietKeepsTestInv DEF TestInv, control, network
<1> QED
  BY <1>2, <1>3, <1>5, <1>6, <1>7, <1>8, <1>9 DEF TestNext

\* The server's state is well-typed and the clients are always at a batch that
\* exists, whatever the network does.
LEMMA TestInvariance == TestSpec => []TestInv
BY TestInitEstablishesInv, TestNextPreservesInv, PTL DEF TestSpec

\* The clients of every test stay inside their runs, batches and buffers, on
\* every network and against every server (client.cpp:60-101).
THEOREM TestTypeCorrect == TestSpec => []TestTypeOK
<1>1. TestInv => TestTypeOK
  BY DEF TestInv
<1> QED
  BY <1>1, TestInvariance, PTL

-----------------------------------------------------------------------------
(***************************************************************************)
(* Rows of the same size                                                   *)
(***************************************************************************)

LEMMA RowsBelow ==
  \A a, b, c \in Nat : a + 1 <= b => a * c \in Nat /\ a * c + c <= b * c
<1> SUFFICES ASSUME NEW a \in Nat, NEW b \in Nat, NEW c \in Nat, a + 1 <= b
             PROVE  a * c \in Nat /\ a * c + c <= b * c
  OBVIOUS
<1>1. PICK d \in Nat : b = (a + 1) + d
  <2>1. b - (a + 1) \in Nat /\ b = (a + 1) + (b - (a + 1))
    OBVIOUS
  <2> QED
    BY <2>1
<1>2. b * c = (a * c + c) + d * c
  BY <1>1
<1>3. a * c \in Nat /\ d * c \in Nat
  OBVIOUS
<1> QED
  BY <1>2, <1>3

\* A position in n rows lies in one of them.
LEMMA RowInside ==
  ASSUME NEW n \in Nat, NEW size \in Nat \ {0}, NEW k \in Nat, k < n * size
  PROVE  (k \div size) + 1 \in 1 .. n /\ k % size \in 0 .. size - 1
<1>1. /\ k \div size \in Int /\ k % size \in 0 .. size - 1
      /\ k = size * (k \div size) + (k % size)
  OBVIOUS
<1>2. \A q \in Int, r \in 0 .. size - 1 :
        k = size * q + r => q >= 0 /\ q < n
  <2> SUFFICES ASSUME NEW q \in Int, NEW r \in 0 .. size - 1, k = size * q + r
               PROVE  q >= 0 /\ q < n
    OBVIOUS
  <2>1. q >= 0
    <3>1. q <= -1 => size * q <= -size
      OBVIOUS
    <3> QED
      BY <3>1
  <2>2. q < n
    <3>1. q >= n => size * q >= size * n
      OBVIOUS
    <3>2. size * n = n * size
      OBVIOUS
    <3> QED
      BY <3>1, <3>2
  <2> QED
    BY <2>1, <2>2
<1> QED
  BY <1>1, <1>2

-----------------------------------------------------------------------------
(***************************************************************************)
(* The order of the batches of a test                                      *)
(***************************************************************************)

count == runs[1].batchCount

\* The k-th batch of the test, from 0, and how many were sent as a whole.
Numbered(k) == ClientBatch((k \div count) + 1, k % count)
Sent == (run - 1) * count + batch_no

\* All runs have one --count, nothing went wrong and the first session is on.
Orderly ==
  /\ InSession \/ pc = "start"
  /\ session = 0 /\ faults = 0 /\ ~killed
  /\ \A r \in DOMAIN runs : runs[r].batchCount = count

\* The sent batches from the k-th on, and the part sent of the one after them.
SentFrom(k) == [j \in 1 .. Sent - k |-> Numbered(k + (j - 1))]
Unfinished ==
  IF run > Len(runs) THEN <<>> ELSE SubSeq(ClientBatch(run, batch_no), 1, offset)

\* What waits in the receiver and in the socket is what was sent and is not
\* counted yet.  The rest is what a step needs to keep it so: the session is the
\* clients', no open batch is complete, and finalize_lost does not loop.
InOrder ==
  /\ bad_batches = 0
  /\ batches <= Sent
  /\ accepted = [k \in 1 .. batches |-> Numbered(k - 1)]
  /\ Pending \o FlattenSeq(socket) = FlattenSeq(SentFrom(batches)) \o Unfinished
  /\ wire_batch_total \in {NoTotal, count}
  /\ have_seq => wire_batch_total # NoTotal
  /\ active => filled < expected
  /\ run > Len(runs) => batch_no = 0 /\ offset = 0
  /\ pc # "finalizing"

OrderInv == Orderly => InOrder

\* There are count batches in every run.
LEMMA SentProperties ==
  ASSUME TestTypeOK, Orderly, InOrder
  PROVE  /\ count \in Nat \ {0} /\ Len(runs) \in Nat /\ runs \in Tests
         /\ DOMAIN runs = 1 .. Len(runs)
         /\ Sent \in Nat
         /\ run <= Len(runs) =>
              /\ Sent < Len(runs) * count
              /\ batch_no \in 0 .. count - 1 /\ run \in DOMAIN runs
              /\ Numbered(Sent) = ClientBatch(run, batch_no)
         /\ run > Len(runs) => Sent = count * Len(runs) /\ Sent = Len(runs) * count
<1>1. /\ runs \in Tests /\ Len(runs) \in Nat /\ Len(runs) >= 1
      /\ DOMAIN runs = 1 .. Len(runs) /\ runs[1] \in RunOptions
  BY RunsProperties DEF TestTypeOK
<1>2. count \in Nat \ {0}
  BY <1>1 DEF RunOptions, count
<1> DEFINE n == Len(runs)
<1>3. /\ run \in 1 .. n + 1
      /\ run <= n => batch_no \in 0 .. count - 1
      /\ run > n => batch_no = 0
  <2>1. /\ run \in 1 .. n + 1
        /\ run <= n => batch_no \in 0 .. runs[run].batchCount - 1
    BY DEF TestTypeOK
  <2>2. run <= n => runs[run].batchCount = count
    <3>1. run <= n => run \in DOMAIN runs
      BY <1>1, <2>1
    <3> QED
      BY <3>1 DEF Orderly
  <2>3. run > n => batch_no = 0
    BY DEF InOrder
  <2> HIDE DEF count
  <2> QED
    BY <2>1, <2>2, <2>3
<1> HIDE DEF count, n
<1>4. n \in Nat
  BY <1>1 DEF n
<1>5. ASSUME run <= n
      PROVE  /\ Sent \in Nat /\ Sent < n * count
             /\ Numbered(Sent) = ClientBatch(run, batch_no)
  <2>1. run - 1 \in Nat /\ batch_no \in 0 .. count - 1
    BY <1>3, <1>4, <1>5
  <2>2. Sent \div count = run - 1 /\ Sent % count = batch_no
    BY <1>2, <2>1, RowAndColumn DEF Sent
  <2>3. (run - 1) * count \in Nat /\ (run - 1) * count + count <= n * count
    <3>1. run - 1 \in Nat /\ n \in Nat /\ count \in Nat /\ (run - 1) + 1 <= n
      BY <1>2, <1>3, <1>4, <1>5, <2>1
    <3> DEFINE a == run - 1
    <3> HIDE DEF a
    <3>2. a * count \in Nat /\ a * count + count <= n * count
      BY <3>1, RowsBelow DEF a
    <3> QED
      BY <3>2 DEF a
  <2>4. Sent \in Nat /\ Sent < n * count
    <3> DEFINE before == (run - 1) * count
               all == n * count
    <3>1. all \in Nat
      BY <1>2, <1>4, TimesSize
    <3> HIDE DEF before, all
    <3>2. before \in Nat /\ before + count <= all /\ Sent = before + batch_no
      BY <2>3 DEF before, all, Sent
    <3>3. Sent \in Nat /\ Sent < all
      BY <1>2, <2>1, <3>1, <3>2
    <3> QED
      BY <3>3 DEF all
  <2>5. (run - 1) + 1 = run
    BY <1>3, <1>4
  <2> QED
    BY <2>2, <2>4, <2>5 DEF Numbered
<1>6. ASSUME run > n
      PROVE  Sent \in Nat /\ Sent = n * count /\ Sent = count * n
  <2>1. run - 1 = n /\ batch_no = 0
    BY <1>3, <1>4, <1>6
  <2> QED
    BY <1>2, <1>4, <2>1, TimesSize DEF Sent
<1>7. run <= n \/ run > n
  BY <1>3, <1>4
<1> QED
  BY <1>1, <1>2, <1>3, <1>5, <1>6, <1>7 DEF n

\* The batches up to the one that is being sent.
LEMMA NumberedProperties ==
  ASSUME TestTypeOK, OrdinaryTests, Orderly, InOrder,
         NEW k \in Nat, k < Sent \/ (k = Sent /\ run <= Len(runs))
  PROVE  /\ Numbered(k) \in Seq(Word) /\ Len(Numbered(k)) \in Nat
         /\ Len(Numbered(k)) > kPacketHeaderSize
         /\ ValidBatch(Numbered(k))
         /\ peek_batch_length(Numbered(k)) = Len(Numbered(k))
         /\ batch_total_of(Numbered(k)) = count
<1>1. /\ count \in Nat \ {0} /\ Len(runs) \in Nat /\ runs \in Tests
      /\ DOMAIN runs = 1 .. Len(runs)
      /\ k < Len(runs) * count
  <2>1. Len(runs) * count \in Nat
    BY SentProperties, TimesSize
  <2>2. run <= Len(runs) \/ run > Len(runs)
    BY SentProperties DEF TestTypeOK
  <2> QED
    BY <2>1, <2>2, SentProperties
<1> DEFINE r == (k \div count) + 1
           i == k % count
<1>2. r \in DOMAIN runs /\ i \in 0 .. count - 1
  <2> HIDE DEF count
  <2> QED
    BY <1>1, RowInside
<1>3. runs[r].batchCount = count
  BY <1>2 DEF Orderly
<1>4. Numbered(k) = ClientBatch(r, i)
  BY DEF Numbered
<1> HIDE DEF r, i, count
<1>5. i \in 0 .. runs[r].batchCount - 1
  BY <1>2, <1>3
<1>6. /\ ClientBatch(r, i) \in Seq(Word)
      /\ Len(ClientBatch(r, i)) > kPacketHeaderSize
      /\ ValidBatch(ClientBatch(r, i))
      /\ peek_batch_length(ClientBatch(r, i)) = Len(ClientBatch(r, i))
      /\ batch_total_of(ClientBatch(r, i)) = runs[r].batchCount
  BY <1>1, <1>2, <1>5, ClientBatchType, ClientBatchIsValid
<1> QED
  BY <1>3, <1>4, <1>6, LenProperties

\* The sent batches are words, and each is followed by the next.
LEMMA SentFromProperties ==
  ASSUME TestTypeOK, OrdinaryTests, Orderly, InOrder, NEW k \in Nat, k <= Sent
  PROVE  /\ SentFrom(k) \in Seq(Seq(Word)) /\ FlattenSeq(SentFrom(k)) \in Seq(Word)
         /\ k = Sent => SentFrom(k) = <<>> /\ FlattenSeq(SentFrom(k)) = <<>>
         /\ k < Sent => FlattenSeq(SentFrom(k)) =
                          Numbered(k) \o FlattenSeq(SentFrom(k + 1))
<1>1. Sent \in Nat
  BY SentProperties
<1>2. \A m \in Nat : m < Sent => Numbered(m) \in Seq(Word)
  BY NumberedProperties
<1>3. \A m \in 0 .. Sent : SentFrom(m) \in Seq(Seq(Word))
  <2> SUFFICES ASSUME NEW m \in 0 .. Sent
               PROVE  SentFrom(m) \in Seq(Seq(Word))
    OBVIOUS
  <2>1. Sent - m \in Nat
    BY <1>1
  <2>2. \A j \in 1 .. Sent - m : Numbered(m + (j - 1)) \in Seq(Word)
    <3> SUFFICES ASSUME NEW j \in 1 .. Sent - m
                 PROVE  Numbered(m + (j - 1)) \in Seq(Word)
      OBVIOUS
    <3>1. m + (j - 1) \in Nat /\ m + (j - 1) < Sent
      BY <1>1
    <3> HIDE DEF Numbered
    <3> QED
      BY <1>2, <3>1
  <2> QED
    BY <2>1, <2>2 DEF SentFrom
<1>4. k \in 0 .. Sent
  BY <1>1
<1>5. ASSUME k = Sent
      PROVE  SentFrom(k) = <<>>
  <2>1. 1 .. Sent - k = {}
    BY <1>1, <1>5
  <2>2. SentFrom(k) \in Seq(Seq(Word)) /\ DOMAIN SentFrom(k) = {}
    BY <1>3, <1>4, <2>1 DEF SentFrom
  <2>3. Len(SentFrom(k)) = 0
    BY <2>2, LenProperties
  <2> QED
    BY <2>2, <2>3, EmptySeq
<1>6. ASSUME k < Sent
      PROVE  FlattenSeq(SentFrom(k)) = Numbered(k) \o FlattenSeq(SentFrom(k + 1))
  <2>1. /\ k + 1 \in 0 .. Sent /\ Numbered(k) \in Seq(Word)
        /\ SentFrom(k + 1) \in Seq(Seq(Word)) /\ SentFrom(k) \in Seq(Seq(Word))
    BY <1>1, <1>2, <1>3, <1>4, <1>6
  <2>2. /\ <<Numbered(k)>> \in Seq(Seq(Word)) /\ Len(<<Numbered(k)>>) = 1
        /\ <<Numbered(k)>>[1] = Numbered(k)
    BY <2>1
  <2>3. /\ Len(SentFrom(k)) = Sent - k
        /\ Len(SentFrom(k + 1)) = Sent - (k + 1)
        /\ \A j \in 1 .. Sent - k : SentFrom(k)[j] = Numbered(k + (j - 1))
        /\ \A j \in 1 .. Sent - (k + 1) :
             SentFrom(k + 1)[j] = Numbered((k + 1) + (j - 1))
    <3>1. Sent - k \in Nat /\ Sent - (k + 1) \in Nat
      BY <1>1, <1>6
    <3> QED
      BY <2>1, <3>1, LenProperties DEF SentFrom
  <2> DEFINE more == <<Numbered(k)>> \o SentFrom(k + 1)
  <2>4. /\ more \in Seq(Seq(Word)) /\ Len(more) = 1 + Len(SentFrom(k + 1))
        /\ \A j \in 1 .. 1 + Len(SentFrom(k + 1)) :
             more[j] = IF j <= 1 THEN <<Numbered(k)>>[j] ELSE SentFrom(k + 1)[j - 1]
    BY <2>1, <2>2, ConcatProperties
  <2>5. SentFrom(k) = more
    <3>1. Len(SentFrom(k)) = Len(more)
      BY <1>1, <1>6, <2>3, <2>4
    <3>2. ASSUME NEW j \in 1 .. Sent - k
          PROVE  SentFrom(k)[j] = more[j]
      <4>1. CASE j = 1
        <5>1. more[1] = Numbered(k)
          BY <1>1, <1>6, <2>2, <2>3, <2>4
        <5>2. k + (1 - 1) = k
          OBVIOUS
        <5> HIDE DEF more, Numbered
        <5> QED
          BY <2>3, <4>1, <5>1, <5>2
      <4>2. CASE j # 1
        <5>1. j - 1 \in 1 .. Sent - (k + 1) /\ j \in 1 .. 1 + Len(SentFrom(k + 1))
              /\ ~(j <= 1)
          BY <1>1, <1>6, <2>3, <4>2
        <5>2. more[j] = SentFrom(k + 1)[j - 1]
          BY <2>4, <5>1
        <5>3. SentFrom(k + 1)[j - 1] = Numbered((k + 1) + ((j - 1) - 1))
          BY <2>3, <5>1
        <5>4. (k + 1) + ((j - 1) - 1) = k + (j - 1)
          BY <1>1
        <5> HIDE DEF more, Numbered
        <5> QED
          BY <2>3, <5>2, <5>3, <5>4
      <4> QED
        BY <4>1, <4>2
    <3> HIDE DEF more
    <3> QED
      BY <2>1, <2>3, <2>4, <3>1, <3>2, SeqEqual
  <2>6. FlattenSeq(more) = Numbered(k) \o FlattenSeq(SentFrom(k + 1))
    BY <2>1, FlattenOfCons
  <2> QED
    BY <2>5, <2>6
<1>7. FlattenSeq(SentFrom(k)) \in Seq(Word)
  BY <1>3, <1>4, FlattenType
<1> QED
  BY <1>3, <1>4, <1>5, <1>6, <1>7, FlattenOfEmpty

\* The part that is sent of the batch that is being sent is its beginning.
LEMMA UnfinishedProperties ==
  ASSUME TestTypeOK, OrdinaryTests, Orderly, InOrder
  PROVE  /\ Unfinished \in Seq(Word)
         /\ run > Len(runs) => Unfinished = <<>>
         /\ run <= Len(runs) =>
              /\ Len(Unfinished) = offset /\ offset < Len(Numbered(Sent))
              /\ \A i \in 1 .. offset : Unfinished[i] = Numbered(Sent)[i]
<1>1. CASE run > Len(runs)
  <2>1. Unfinished = <<>>
    BY <1>1 DEF Unfinished
  <2> QED
    BY <1>1, <2>1, SentProperties, EmptySeq DEF TestTypeOK
<1>2. CASE run <= Len(runs)
  <2>1. /\ run \in DOMAIN runs /\ runs[run] \in RunOptions /\ runs \in Tests
        /\ batch_no \in 0 .. runs[run].batchCount - 1
        /\ offset \in Nat /\ offset < runs[run].batchSize
    BY <1>2, ChunkProperties, PacketAssumption
       DEF TestTypeOK, RunOptions, kPacketHeaderSize
  <2>2. /\ ClientBatch(run, batch_no) \in Seq(Word)
        /\ Len(ClientBatch(run, batch_no)) = runs[run].batchSize
        /\ Numbered(Sent) = ClientBatch(run, batch_no)
        /\ runs[run].batchSize \in Nat
    BY <1>2, <2>1, ClientBatchType, SentProperties, LenProperties
  <2>3. Unfinished = SubSeq(Numbered(Sent), 1, offset) /\ ~(run > Len(runs))
    BY <1>2, <2>1, <2>2, SentProperties DEF Unfinished, TestTypeOK
  <2> DEFINE batch == Numbered(Sent)
  <2>4. batch \in Seq(Word) /\ offset \in Nat /\ offset < Len(batch)
    BY <2>1, <2>2
  <2> HIDE DEF batch
  <2>5. /\ SubSeq(batch, 1, offset) \in Seq(Word)
        /\ Len(SubSeq(batch, 1, offset)) = offset
        /\ \A i \in 1 .. offset : SubSeq(batch, 1, offset)[i] = batch[i]
    BY <2>4
  <2> QED
    BY <2>3, <2>4, <2>5 DEF batch
<1>3. run > Len(runs) \/ run <= Len(runs)
  BY SentProperties DEF TestTypeOK
<1> QED
  BY <1>1, <1>2, <1>3

\* A word that waits in the receiver is of the first batch that is not counted,
\* and where a whole batch waits it has been sent as a whole.
LEMMA FrontOfStream ==
  ASSUME TestInv, OrdinaryTests, Orderly, InOrder, Pending # <<>>
  PROVE  LET batch == Numbered(batches)
         IN  /\ batches \in Nat /\ batches <= Sent
             /\ batches < Sent \/ (batches = Sent /\ run <= Len(runs))
             /\ Pending \in Seq(Word)
             /\ \A i \in 1 .. Len(Pending) : i <= Len(batch) => Pending[i] = batch[i]
             /\ Len(batch) <= Len(Pending) => batches < Sent
<1> DEFINE batch == Numbered(batches)
           waiting == FlattenSeq(socket)
           later == FlattenSeq(SentFrom(batches + 1))
<1>1. /\ TestTypeOK /\ IInv /\ batches \in Nat /\ Sent \in Nat /\ batches <= Sent
      /\ Pending \in Seq(Word) /\ Len(Pending) \in Nat /\ Len(Pending) >= 1
      /\ waiting \in Seq(Word)
      /\ run \in Nat /\ Len(runs) \in Nat
  <2>1. TestTypeOK /\ IInv /\ socket \in Seq(Seq(Word))
    BY DEF TestInv
  <2>2. Pending \in Seq(Word) /\ Len(Pending) \in Nat
    BY <2>1, PendingType, LenProperties
  <2>3. Len(Pending) # 0
    BY <2>2, EmptySeq
  <2>4. batches \in Nat /\ batches <= Sent
    BY <2>1 DEF IInv, TypeOK, InOrder
  <2> QED
    BY <2>1, <2>2, <2>3, <2>4, FlattenType, SentProperties DEF TestTypeOK
<1>2. \A i \in 1 .. Len(Pending) : (Pending \o waiting)[i] = Pending[i]
  BY <1>1, ConcatProperties
<1>3. Len(Pending \o waiting) = Len(Pending) + Len(waiting) /\ Len(waiting) \in Nat
  BY <1>1, ConcatProperties, LenProperties
<1>4. CASE batches < Sent
  <2>1. /\ batch \in Seq(Word) /\ Len(batch) \in Nat
    BY <1>1, <1>4, NumberedProperties
  <2>2. /\ FlattenSeq(SentFrom(batches)) = batch \o later
        /\ later \in Seq(Word) /\ Unfinished \in Seq(Word)
    <3>1. batches + 1 \in Nat /\ batches + 1 <= Sent
      BY <1>1, <1>4
    <3>2. FlattenSeq(SentFrom(batches)) = batch \o later
      BY <1>1, <1>4, SentFromProperties
    <3>3. later \in Seq(Word)
      BY <1>1, <3>1, SentFromProperties
    <3>4. Unfinished \in Seq(Word)
      BY <1>1, UnfinishedProperties
    <3> QED
      BY <3>2, <3>3, <3>4
  <2>3. Pending \o waiting = (batch \o later) \o Unfinished
    BY <2>2 DEF InOrder
  <2> HIDE DEF batch, later, waiting
  <2>4. Pending \o waiting = batch \o (later \o Unfinished)
        /\ later \o Unfinished \in Seq(Word)
    BY <2>1, <2>2, <2>3, Regrouped, ConcatProperties
  <2>5. \A i \in 1 .. Len(batch) : (Pending \o waiting)[i] = batch[i]
    BY <2>1, <2>4, ConcatProperties, LenProperties
  <2>6. \A i \in 1 .. Len(Pending) : i <= Len(batch) => Pending[i] = batch[i]
    BY <1>1, <1>2, <2>1, <2>5
  <2> QED
    BY <1>1, <1>4, <2>6 DEF batch
<1>5. CASE batches = Sent
  <2>1. Unfinished \in Seq(Word) /\ Pending \o waiting = <<>> \o Unfinished
    BY <1>1, <1>5, SentFromProperties, UnfinishedProperties DEF InOrder
  <2>2. Pending \o waiting = Unfinished
    BY <2>1, ConcatEmptySeq
  <2>3. Len(Unfinished) >= Len(Pending) /\ Len(Unfinished) \in Nat
    BY <1>1, <1>3, <2>2
  <2>4. Unfinished # <<>>
    BY <1>1, <2>3
  <2>5. run <= Len(runs)
    BY <1>1, <2>4, UnfinishedProperties
  <2>6. /\ Len(Unfinished) = offset /\ offset < Len(batch)
        /\ \A i \in 1 .. offset : Unfinished[i] = batch[i]
    BY <1>1, <1>5, <2>5, UnfinishedProperties
  <2>7. Len(batch) \in Nat
    BY <1>1, <1>5, <2>5, NumberedProperties
  <2> HIDE DEF batch, waiting
  <2>8. \A i \in 1 .. Len(Pending) : Pending[i] = batch[i]
    BY <1>1, <1>2, <2>2, <2>3, <2>6
  <2>9. ~(Len(batch) <= Len(Pending))
    BY <1>1, <2>3, <2>6, <2>7
  <2> QED
    BY <1>1, <1>5, <2>5, <2>8, <2>9 DEF batch
<1> QED
  BY <1>1, <1>4, <1>5

\* So what the receiver can see of it is a header of the session, and the batch,
\* once it is there as a whole, is valid.
LEMMA FrontIsBatch ==
  ASSUME TestInv, OrdinaryTests, Orderly, InOrder, Pending # <<>>
  PROVE  LET batch == Numbered(batches)
         IN  /\ batch \in Seq(Word) /\ Len(batch) \in Nat
             /\ Len(batch) > kPacketHeaderSize
             /\ ValidBatch(batch)
             /\ Len(Pending) >= kPacketHeaderSize =>
                  /\ peek_batch_length(Pending) = Len(batch)
                  /\ batch_total_of(Pending) = count
                  /\ Received!IsHeader(Pending)
             /\ Len(batch) <= Len(Pending) =>
                  batches < Sent /\ SubSeq(Pending, 1, Len(batch)) = batch
<1> DEFINE batch == Numbered(batches)
<1>1. /\ TestTypeOK /\ batches \in Nat
      /\ batches < Sent \/ (batches = Sent /\ run <= Len(runs))
      /\ Pending \in Seq(Word) /\ Len(Pending) \in Nat
      /\ \A i \in 1 .. Len(Pending) : i <= Len(batch) => Pending[i] = batch[i]
      /\ Len(batch) <= Len(Pending) => batches < Sent
      /\ wire_batch_total \in {NoTotal, count}
  BY FrontOfStream, LenProperties DEF TestInv, InOrder
<1>2. /\ batch \in Seq(Word) /\ Len(batch) \in Nat
      /\ Len(batch) > kPacketHeaderSize
      /\ ValidBatch(batch)
      /\ peek_batch_length(batch) = Len(batch)
      /\ batch_total_of(batch) = count
  BY <1>1, NumberedProperties
<1> HIDE DEF batch
<1>3. ASSUME Len(Pending) >= kPacketHeaderSize
      PROVE  /\ peek_batch_length(Pending) = Len(batch)
             /\ batch_total_of(Pending) = count
             /\ Received!IsHeader(Pending)
  <2>1. /\ Pending[1] = batch[1] /\ Pending[2] = batch[2] /\ Pending[3] = batch[3]
        /\ Pending[4] = batch[4] /\ Pending[5] = batch[5]
    BY <1>1, <1>2, <1>3 DEF kPacketHeaderSize
  <2>2. PacketHeader(Pending) = PacketHeader(batch)
    BY <2>1 DEF PacketHeader
  <2>3. peek_batch_length(Pending) = peek_batch_length(batch)
    BY <1>2, <1>3, <2>2 DEF peek_batch_length, kPacketHeaderSize
  <2>4. batch_total_of(Pending) = batch_total_of(batch)
    BY <2>2 DEF batch_total_of
  <2>5. peek_batch_length(Pending) # 0
    BY <1>2, <2>3 DEF kPacketHeaderSize
  <2> QED
    BY <1>1, <1>2, <2>3, <2>4, <2>5 DEF Received!IsHeader
<1>4. ASSUME Len(batch) <= Len(Pending)
      PROVE  SubSeq(Pending, 1, Len(batch)) = batch
  <2> DEFINE front == SubSeq(Pending, 1, Len(batch))
  <2>1. /\ front \in Seq(Word) /\ Len(front) = Len(batch)
        /\ \A i \in 1 .. Len(batch) : front[i] = Pending[i]
    BY <1>1, <1>2, <1>4
  <2> HIDE DEF front
  <2>2. \A i \in 1 .. Len(front) : front[i] = batch[i]
    BY <1>1, <1>2, <1>4, <2>1
  <2>3. front = batch
    BY <1>2, <2>1, <2>2, SeqEqual
  <2> QED
    BY <2>3 DEF front
<1> QED
  BY <1>1, <1>2, <1>3, <1>4 DEF batch

-----------------------------------------------------------------------------
(***************************************************************************)
(* The steps of the server keep the order                                  *)
(***************************************************************************)

\* While the clients do nothing, the stream is what they had sent.
LEMMA OrderOfNext ==
  ASSUME UNCHANGED client,
         bad_batches' = 0, batches' <= Sent,
         accepted' = [k \in 1 .. batches' |-> Numbered(k - 1)],
         Pending' \o FlattenSeq(socket') =
           FlattenSeq(SentFrom(batches')) \o Unfinished,
         wire_batch_total' \in {NoTotal, count},
         seen_seq' # {} => wire_batch_total' # NoTotal,
         active' => filled' < expected',
         run > Len(runs) => batch_no = 0 /\ offset = 0,
         pc' # "finalizing"
  PROVE  InOrder'
<1>1. /\ count' = count /\ Sent' = Sent /\ Unfinished' = Unfinished
      /\ UNCHANGED <<run, runs, batch_no, offset>>
  BY DEF client, count, Sent, Unfinished, ClientBatch
<1>2. accepted' = [k \in 1 .. batches |-> Numbered(k - 1)]'
  BY DEF client, Numbered, count, ClientBatch
<1>3. FlattenSeq(SentFrom(batches))' = FlattenSeq(SentFrom(batches'))
  BY DEF client, SentFrom, Sent, Numbered, count, ClientBatch
<1>4. (Pending \o FlattenSeq(socket))' = Pending' \o FlattenSeq(socket')
  OBVIOUS
<1> QED
  BY <1>1, <1>2, <1>3, <1>4 DEF InOrder, have_seq

\* No word is skipped: a header of the session is at the front of the stream.
LEMMA NothingSkippable ==
  ASSUME TestInv, OrdinaryTests, Orderly, InOrder,
         NEW n \in 1 .. Len(Pending)
  PROVE  ~Received!Skippable(n)
<1> SUFFICES ASSUME Received!Skippable(n)
             PROVE  FALSE
  OBVIOUS
<1>1. Pending \in Seq(Word) /\ Len(Pending) \in Nat
  BY PendingType, LenProperties DEF TestInv
<1>2. 0 \in 0 .. n - 1
  BY <1>1
<1>3. 0 + kPacketHeaderSize <= Len(Pending) /\ ~Received!IsHeader(Received!After(0))
  BY <1>2 DEF Received!Skippable
<1>4. Received!After(0) = Pending
  BY <1>1, FromCuts DEF Received!After, From
<1>5. Pending # <<>> /\ Len(Pending) >= kPacketHeaderSize
  BY <1>1, <1>3, EmptySeq DEF kPacketHeaderSize
<1> QED
  BY <1>3, <1>4, <1>5, FrontIsBatch

LEMMA NothingSkipped ==
  ASSUME TestInv, OrdinaryTests, Orderly, InOrder,
         [Received!Skip]_(Received!vars)
  PROVE  Pending' = Pending /\ UNCHANGED <<wire_batch_total, accepted>>
BY NothingSkippable DEF Received!Skip, Received!vars

\* The header that opens a batch is the one at the front, and the batch is not
\* complete with it.
LEMMA AcceptHeaderInOrder ==
  ASSUME TestInv, OrdinaryTests, Orderly, InOrder, AcceptHeader
  PROVE  /\ Pending' = Pending /\ accepted' = accepted
         /\ wire_batch_total' = count
         /\ filled' < expected' /\ expected' = Len(Numbered(batches))
<1>1. IInv /\ Pending \in Seq(Word) /\ Len(Pending) \in Nat
  BY PendingType, LenProperties DEF TestInv
<1>2. PICK n \in 0 .. Len(Pending) :
        /\ Received!Skippable(n) /\ Received!IsHeader(Received!After(n))
        /\ Pending' = Received!After(n)
        /\ wire_batch_total' = batch_total_of(Received!After(n))
        /\ accepted' = accepted
  BY <1>1, AcceptHeaderIsOpen DEF Received!Open
<1>3. n = 0
  BY <1>1, <1>2, NothingSkippable
<1>4. Received!After(0) = Pending /\ From(Pending, 0) = Pending
  BY <1>1, FromCuts DEF Received!After, From
<1>5. Received!IsHeader(Pending) /\ Pending' = Pending
      /\ wire_batch_total' = batch_total_of(Pending)
  BY <1>2, <1>3, <1>4
<1>6. peek_batch_length(Pending) # 0
  BY <1>5 DEF Received!IsHeader
<1>7. Len(Pending) >= kPacketHeaderSize /\ Pending # <<>>
  BY <1>1, <1>6, PeekProperties, EmptySeq DEF kPacketHeaderSize
<1>8. /\ peek_batch_length(Pending) = Len(Numbered(batches))
      /\ Len(Numbered(batches)) > kPacketHeaderSize
      /\ batch_total_of(Pending) = count
  BY <1>7, FrontIsBatch
<1>9. Scanning /\ HeaderInReach /\ filled' = kPacketHeaderSize
      /\ expected' = peek_batch_length(Candidate)
  BY DEF AcceptHeader
<1>10. /\ Skipped \in Nat
       /\ From(unread, Skipped + Lacking) \in Seq(Word)
       /\ From(Pending, Skipped) =
            Candidate \o (From(unread, Skipped + Lacking) \o Below)
       /\ \A i \in 0 .. Skipped - 1 : peek_batch_length(From(Pending, i)) = 0
  BY <1>1, <1>9, CandidateInStream
<1>11. Skipped = 0
  BY <1>4, <1>6, <1>10
<1> DEFINE rest == From(unread, Skipped + Lacking) \o Below
<1>12. Candidate \in Seq(Word) /\ Len(Candidate) = kPacketHeaderSize
       /\ rest \in Seq(Word)
  BY <1>1, <1>9, <1>10, CandidateProperties, StackAsWords, ConcatProperties
     DEF Scanning
<1>13. Pending = Candidate \o rest
  BY <1>4, <1>10, <1>11
<1> HIDE DEF rest
<1>14. peek_batch_length(Pending) = peek_batch_length(Candidate)
  <2>1. Len(Candidate) >= kPacketHeaderSize
    BY <1>12 DEF kPacketHeaderSize
  <2>2. peek_batch_length(Candidate \o rest) = peek_batch_length(Candidate)
    BY <1>12, <2>1, HeaderOfConcat
  <2> QED
    BY <1>13, <2>2
<1> QED
  BY <1>2, <1>5, <1>8, <1>9, <1>14

\* A batch that is there as a whole is the next one.
LEMMA CompleteInOrder ==
  ASSUME TestInv, OrdinaryTests, Orderly, InOrder, Received!Complete
  PROVE  /\ Pending # <<>>
         /\ Received!Front = Numbered(batches)
         /\ peek_batch_length(Pending) = Len(Numbered(batches))
         /\ ValidBatch(Numbered(batches))
         /\ batches < Sent
         /\ Len(Numbered(batches)) <= Len(Pending)
<1>1. Pending \in Seq(Word) /\ Len(Pending) \in Nat
  BY PendingType, LenProperties DEF TestInv
<1>2. peek_batch_length(Pending) # 0 /\ peek_batch_length(Pending) <= Len(Pending)
  BY DEF Received!Complete, Received!IsHeader
<1>3. Len(Pending) >= kPacketHeaderSize /\ Pending # <<>>
  BY <1>1, <1>2, PeekProperties, EmptySeq DEF kPacketHeaderSize
<1>4. /\ peek_batch_length(Pending) = Len(Numbered(batches))
      /\ ValidBatch(Numbered(batches))
      /\ Len(Numbered(batches)) <= Len(Pending) =>
           /\ batches < Sent
           /\ SubSeq(Pending, 1, Len(Numbered(batches))) = Numbered(batches)
  BY <1>3, FrontIsBatch
<1> QED
  BY <1>2, <1>3, <1>4 DEF Received!Front

\* So nothing is given up.
LEMMA NothingGivenUp ==
  ASSUME TestInv, OrdinaryTests, Orderly, InOrder
  PROVE  ~Received!GiveUp
BY CompleteInOrder DEF Received!GiveUp

\* A batch that is counted is the next one, and the stream goes on behind it.
LEMMA CountBatchInOrder ==
  ASSUME TestInv, OrdinaryTests, Orderly, InOrder, CountBatch
  PROVE  /\ batches' = batches + 1 /\ batches' <= Sent
         /\ accepted' = [k \in 1 .. batches' |-> Numbered(k - 1)]
         /\ Pending' \o FlattenSeq(socket) =
              FlattenSeq(SentFrom(batches')) \o Unfinished
         /\ wire_batch_total # NoTotal
<1> DEFINE batch == Numbered(batches)
           waiting == FlattenSeq(socket)
           later == FlattenSeq(SentFrom(batches + 1))
<1>1. /\ IInv /\ TestTypeOK /\ Pending \in Seq(Word) /\ Len(Pending) \in Nat
      /\ batches \in Nat /\ Sent \in Nat /\ socket \in Seq(Seq(Word))
      /\ accepted = [k \in 1 .. batches |-> Numbered(k - 1)]
      /\ Pending \o waiting = FlattenSeq(SentFrom(batches)) \o Unfinished
  BY PendingType, LenProperties, SentProperties
     DEF TestInv, IInv, TypeOK, InOrder
<1>2. /\ Collecting /\ Len(unread) >= space
      /\ batches' = batches + 1
      /\ accepted' = Append(accepted, Assembled)
      /\ reset_reassembly /\ calls' = Continue(From(unread, space))
  BY DEF CountBatch
<1>3. Received!Complete /\ Received!Front = Assembled
      /\ Pending' = Received!After(peek_batch_length(Pending))
  BY <1>1, <1>2, AssembledInStream, AfterAssembled
<1>4. /\ Assembled = batch /\ peek_batch_length(Pending) = Len(batch)
      /\ batches < Sent /\ Len(batch) <= Len(Pending)
      /\ SubSeq(Pending, 1, Len(batch)) = batch
  BY <1>3, CompleteInOrder DEF Received!Front
<1>5. batches' <= Sent
  BY <1>1, <1>2, <1>4
<1>6. accepted' = [k \in 1 .. batches' |-> Numbered(k - 1)]
  <2> DEFINE f(k) == Numbered(k - 1)
  <2>1. f(batches + 1) = batch
    <3>1. (batches + 1) - 1 = batches
      BY <1>1
    <3> HIDE DEF Numbered
    <3> QED
      BY <3>1
  <2>2. accepted' = Append([k \in 1 .. batches |-> f(k)], f(batches + 1))
    BY <1>1, <1>2, <1>4, <2>1
  <2> HIDE DEF f
  <2>3. Append([k \in 1 .. batches |-> f(k)], f(batches + 1)) =
          [k \in 1 .. batches + 1 |-> f(k)]
    BY <1>1
  <2> QED
    BY <1>2, <2>2, <2>3 DEF f
<1>7. /\ batch \in Seq(Word) /\ Len(batch) \in Nat
      /\ FlattenSeq(SentFrom(batches)) = batch \o later
      /\ later \in Seq(Word) /\ Unfinished \in Seq(Word) /\ waiting \in Seq(Word)
  <2>1. batches + 1 \in Nat /\ batches + 1 <= Sent
    BY <1>1, <1>4
  <2>2. batch \in Seq(Word) /\ Len(batch) \in Nat
    BY <1>1, <1>4, NumberedProperties
  <2>3. FlattenSeq(SentFrom(batches)) = batch \o later
    <3>1. TestTypeOK /\ batches \in Nat /\ batches <= Sent /\ batches < Sent
      BY <1>1, <1>4
    <3> QED
      BY <3>1, SentFromProperties
  <2>4. later \in Seq(Word)
    BY <1>1, <2>1, SentFromProperties
  <2>5. Unfinished \in Seq(Word) /\ waiting \in Seq(Word)
    BY <1>1, UnfinishedProperties, FlattenType
  <2> QED
    BY <2>2, <2>3, <2>4, <2>5
<1> HIDE DEF batch, waiting, later
<1>8. /\ Pending' = From(Pending, Len(batch)) /\ Pending' \in Seq(Word)
      /\ Pending = batch \o Pending'
  <2>1. Pending' = From(Pending, Len(batch))
    BY <1>3, <1>4 DEF Received!After, From
  <2>2. Len(batch) \in 0 .. Len(Pending)
    BY <1>1, <1>4, <1>7
  <2>3. SubSeq(Pending, 1, Len(batch)) \o From(Pending, Len(batch)) = Pending
    BY <1>1, <2>2, FromCuts
  <2>4. From(Pending, Len(batch)) \in Seq(Word)
    BY <1>1, <1>4, <1>7, FromElements
  <2> QED
    BY <1>4, <2>1, <2>3, <2>4
<1>9. Pending' \o waiting = later \o Unfinished
  <2>1. (batch \o Pending') \o waiting = (batch \o later) \o Unfinished
    BY <1>1, <1>7, <1>8
  <2>2. batch \o (Pending' \o waiting) = batch \o (later \o Unfinished)
    BY <1>7, <1>8, <2>1, Regrouped
  <2>3. Pending' \o waiting \in Seq(Word) /\ later \o Unfinished \in Seq(Word)
    BY <1>7, <1>8, ConcatProperties
  <2> DEFINE left == Pending' \o waiting
             right == later \o Unfinished
  <2> HIDE DEF left, right
  <2>4. left \in Seq(Word) /\ right \in Seq(Word) /\ batch \o left = batch \o right
    BY <2>2, <2>3 DEF left, right
  <2>5. From(batch \o left, Len(batch)) = left /\ From(batch \o right, Len(batch)) = right
    BY <1>7, <2>4, ConcatCuts
  <2>6. left = right
    BY <2>4, <2>5
  <2> QED
    BY <2>6 DEF left, right
<1>10. wire_batch_total # NoTotal
  <2>1. PacketHeader(buffer).seq \in Nat /\ PacketHeader(buffer).seq < wire_batch_total
    BY <1>1, <1>2, OpenHeaderProperties
  <2> QED
    BY <2>1 DEF NoTotal
<1> QED
  BY <1>2, <1>5, <1>6, <1>9, <1>10 DEF waiting, later

\* A turn of ingest_fragment's loop.
LEMMA IngestKeepsOrder ==
  ASSUME TestInv, OrdinaryTests, Orderly, InOrder, IngestStep, UNCHANGED client
  PROVE  InOrder'
<1>1. /\ IInv /\ Ingest /\ pc' # "finalizing" /\ socket' = socket
      /\ bad_batches = 0 /\ batches <= Sent
      /\ accepted = [k \in 1 .. batches |-> Numbered(k - 1)]
      /\ Pending \o FlattenSeq(socket) =
           FlattenSeq(SentFrom(batches)) \o Unfinished
      /\ wire_batch_total \in {NoTotal, count}
      /\ seen_seq # {} => wire_batch_total # NoTotal
      /\ active => filled < expected
      /\ run > Len(runs) => batch_no = 0 /\ offset = 0
  BY DEF TestInv, IngestStep, InOrder, have_seq, control, network
<1>2. CASE RetainTail \/ SplitHeader \/ RejectHeader
  <2>1. Pending' = Pending /\ UNCHANGED <<wire_batch_total, accepted>>
    BY <1>1, <1>2, RetainTailIsSkip, SplitHeaderIsSkip, RejectHeaderIsSkip,
       NothingSkipped
  <2>2. UNCHANGED <<batches, bad_batches, seen_seq, active, filled, expected>>
    BY <1>2 DEF RetainTail, SplitHeader, RejectHeader, sequence_stats
  <2> QED
    BY <1>1, <2>1, <2>2, OrderOfNext
<1>3. CASE AcceptHeader
  <2>1. /\ Pending' = Pending /\ accepted' = accepted
        /\ wire_batch_total' = count /\ filled' < expected'
    BY <1>3, AcceptHeaderInOrder
  <2>2. UNCHANGED <<batches, bad_batches, seen_seq>>
    BY <1>3 DEF AcceptHeader, sequence_stats
  <2>3. count # NoTotal
    BY SentProperties DEF TestInv, NoTotal
  <2> QED
    BY <1>1, <2>1, <2>2, <2>3, OrderOfNext
<1>4. CASE CopyFragment
  <2>1. Pending' = Pending /\ UNCHANGED <<wire_batch_total, accepted>>
    BY <1>1, <1>4, CopyFragmentIsStutter DEF Received!vars
  <2>2. UNCHANGED <<batches, bad_batches, seen_seq>>
    BY <1>4 DEF CopyFragment, sequence_stats
  <2>3. filled' < expected'
    <3>1. /\ Len(unread) \in Nat /\ Len(unread) < expected - filled
          /\ filled' = filled + Len(unread) /\ expected' = expected
          /\ filled \in Nat /\ expected \in Nat
      BY <1>1, <1>4, CallProperties
         DEF CopyFragment, Collecting, space, IInv, TypeOK
    <3> QED
      BY <3>1
  <2> QED
    BY <1>1, <2>1, <2>2, <2>3, OrderOfNext
<1>5. CASE CountBatch
  <2>1. /\ batches' <= Sent
        /\ accepted' = [k \in 1 .. batches' |-> Numbered(k - 1)]
        /\ Pending' \o FlattenSeq(socket) =
             FlattenSeq(SentFrom(batches')) \o Unfinished
        /\ wire_batch_total # NoTotal
    BY <1>5, CountBatchInOrder
  <2>2. ~active' /\ UNCHANGED <<bad_batches, wire_batch_total>>
    BY <1>5 DEF CountBatch, reset_reassembly
  <2> QED
    BY <1>1, <2>1, <2>2, OrderOfNext
<1>6. CASE DropBatch \/ SalvageTail
  BY <1>1, <1>6, DropBatchIsGiveUp, SalvageTailIsGiveUp, NothingGivenUp
<1> QED
  BY <1>1, <1>2, <1>3, <1>4, <1>5, <1>6 DEF Ingest

\* Reading from the socket.
LEMMA ReadKeepsOrder ==
  ASSUME TestInv, OrdinaryTests, Orderly, InOrder,
         ReceiveOne \/ ReceiveCoalesced, UNCHANGED client
  PROVE  InOrder'
<1>1. /\ IInv /\ socket \in Seq(Seq(Word)) /\ Pending \in Seq(Word)
      /\ bad_batches = 0 /\ batches <= Sent
      /\ accepted = [k \in 1 .. batches |-> Numbered(k - 1)]
      /\ Pending \o FlattenSeq(socket) =
           FlattenSeq(SentFrom(batches)) \o Unfinished
      /\ wire_batch_total \in {NoTotal, count}
      /\ seen_seq # {} => wire_batch_total # NoTotal
      /\ active => filled < expected
      /\ run > Len(runs) => batch_no = 0 /\ offset = 0
  BY PendingType DEF TestInv, InOrder, have_seq
<1>2. PICK d \in Seq(Word) :
        /\ ReceiveDatagram(d)
        /\ GoTo("ingest")
        /\ socket' \in Seq(Seq(Word))
        /\ FlattenSeq(socket) = d \o FlattenSeq(socket')
  BY <1>1, ReadProperties
<1>3. Pending' = Pending \o d
  BY <1>1, <1>2, ReceiveIsAppend
<1>4. Pending' \o FlattenSeq(socket') = FlattenSeq(SentFrom(batches)) \o Unfinished
  <2>1. FlattenSeq(socket') \in Seq(Word)
    BY <1>2, FlattenType
  <2>2. (Pending \o d) \o FlattenSeq(socket') = Pending \o (d \o FlattenSeq(socket'))
    BY <1>1, <2>1, Regrouped
  <2> QED
    BY <1>1, <1>2, <1>3, <2>2
<1>5. /\ UNCHANGED <<batches, bad_batches, accepted, wire_batch_total, seen_seq,
                     active, filled, expected>>
      /\ pc' # "finalizing"
  BY <1>2 DEF ReceiveDatagram, GoTo, reassembly, sequence_stats
<1> QED
  BY <1>1, <1>4, <1>5, OrderOfNext

\* What touches neither the reassembly nor the socket.
LEMMA QuietKeepsOrder ==
  ASSUME InOrder, UNCHANGED <<vars, socket, client>>, pc' # "finalizing"
  PROVE  InOrder'
<1>1. /\ UNCHANGED <<buffer, filled, expected, active, calls, batches,
                     bad_batches, accepted, wire_batch_total, seen_seq>>
  BY DEF vars, reassembly, history, sequence_stats
<1>2. Pending' = Pending
  BY <1>1 DEF Pending, Collected
<1> QED
  BY <1>1, <1>2, OrderOfNext DEF InOrder, have_seq

-----------------------------------------------------------------------------
(***************************************************************************)
(* Sending keeps the order                                                 *)
(***************************************************************************)

\* The batches have their numbers for good.
LEMMA NumbersStay ==
  ASSUME runs' = runs
  PROVE  /\ count' = count
         /\ \A k : Numbered(k)' = Numbered(k)
         /\ SentFrom(batches)' =
              [j \in 1 .. Sent' - batches' |-> Numbered(batches' + (j - 1))]
<1>1. count' = count
  BY DEF count
<1>2. \A k : Numbered(k)' = Numbered(k)
  BY DEF Numbered, count, ClientBatch
<1>3. SentFrom(batches)' =
        [j \in 1 .. Sent' - batches' |-> Numbered(batches' + (j - 1))]
  BY DEF SentFrom, Numbered, count, ClientBatch
<1> QED
  BY <1>1, <1>2, <1>3

\* What a datagram adds to the part of its batch that is sent.
LEMMA ChunkIsNext ==
  ASSUME TestTypeOK, OrdinaryTests, Orderly, InOrder, run <= Len(runs)
  PROVE  LET batch == Numbered(Sent)
             chunk == SubSeq(ClientBatch(run, batch_no), offset + 1, offset + Chunk)
         IN  /\ batch \in Seq(Word) /\ chunk \in Seq(Word)
             /\ Unfinished \o chunk = SubSeq(batch, 1, offset + Chunk)
             /\ offset + Chunk \in 0 .. Len(batch)
             /\ Len(batch) = runs[run].batchSize
             /\ batch = ClientBatch(run, batch_no)
<1> DEFINE batch == ClientBatch(run, batch_no)
<1>1. /\ run \in DOMAIN runs /\ runs[run] \in RunOptions /\ runs \in Tests
      /\ batch_no \in 0 .. runs[run].batchCount - 1
      /\ offset \in Nat /\ Chunk \in Nat
      /\ offset + Chunk <= runs[run].batchSize
  BY ChunkProperties DEF TestTypeOK
<1>2. /\ batch \in Seq(Word) /\ Len(batch) = runs[run].batchSize
      /\ Len(batch) \in Nat
  BY <1>1, ClientBatchType, LenProperties
<1>3. Numbered(Sent) = batch
  BY SentProperties
<1>4. Unfinished = SubSeq(batch, 1, offset)
  <2>1. ~(run > Len(runs))
    BY SentProperties DEF TestTypeOK
  <2> QED
    BY <2>1 DEF Unfinished
<1>5. SubSeq(batch, offset + 1, offset + Chunk) \in Seq(Word)
  BY SentType
<1> HIDE DEF batch
<1>6. SubSeq(batch, 1, offset) \o SubSeq(batch, offset + 1, offset + Chunk) =
        SubSeq(batch, 1, offset + Chunk)
  <2>1. /\ 1 \in 1 .. Len(batch) + 1 /\ offset \in 1 - 1 .. Len(batch)
        /\ offset + Chunk \in offset .. Len(batch)
    BY <1>1, <1>2
  <2> QED
    BY <1>2, <2>1, ConcatAdjacentSubSeq
<1>7. offset + Chunk \in 0 .. Len(batch)
  BY <1>1, <1>2
<1> QED
  BY <1>2, <1>3, <1>4, <1>5, <1>6, <1>7 DEF batch

\* After the last datagram of a batch the next one is to be sent, of this run or
\* of the next.
LEMMA LastChunkSends ==
  ASSUME TestTypeOK, OrdinaryTests, Orderly, InOrder, SendDatagram, LastChunk
  PROVE  /\ Sent' = Sent + 1
         /\ offset' = 0
         /\ run' > Len(runs) => batch_no' = 0
<1>1. /\ run \in DOMAIN runs /\ run \in Nat /\ Len(runs) \in Nat
      /\ run <= Len(runs) /\ AdvanceClient /\ runs' = runs
      /\ batch_no \in Nat /\ batch_no < runs[run].batchCount
  BY ChunkProperties, RunsProperties DEF SendDatagram, TestTypeOK
<1>2. count \in Nat \ {0} /\ runs[run].batchCount = count /\ count' = count
  BY <1>1, SentProperties DEF Orderly, count
<1> DEFINE before == (run - 1) * count
<1>3. Sent = before + batch_no /\ Sent' = (run' - 1) * count + batch_no'
  BY <1>2 DEF Sent
<1>4. before \in Nat /\ run * count = before + count
  <2> DEFINE c == count
  <2>1. c \in Nat /\ run - 1 \in Nat
    BY <1>1, <1>2, SentProperties
  <2> HIDE DEF c
  <2>2. (run - 1) * c \in Nat /\ run * c = (run - 1) * c + c
    <3>1. run = (run - 1) + 1
      BY <1>1
    <3> DEFINE r == run - 1
    <3>2. r \in Nat /\ run = r + 1
      BY <2>1, <3>1
    <3> HIDE DEF r
    <3>3. r * c \in Nat /\ run * c = r * c + c
      BY <2>1, <3>2
    <3> QED
      BY <3>3 DEF r
  <2> QED
    BY <2>2 DEF c
<1>5. CASE batch_no + 1 < count
  <2>1. run' = run /\ batch_no' = batch_no + 1 /\ offset' = 0
    BY <1>1, <1>2, <1>5 DEF AdvanceClient
  <2>2. Sent' = before + (batch_no + 1)
    BY <1>3, <2>1
  <2> HIDE DEF before
  <2> QED
    BY <1>1, <1>3, <1>4, <2>1, <2>2
<1>6. CASE batch_no + 1 = count
  <2>1. run' = run + 1 /\ batch_no' = 0 /\ offset' = 0
    BY <1>1, <1>2, <1>6 DEF AdvanceClient
  <2>2. run' - 1 = run
    BY <1>1, <2>1
  <2>3. Sent' = run * count + 0
    BY <1>3, <2>1, <2>2
  <2> HIDE DEF before, count
  <2>4. Sent' = (before + count) + 0
    BY <1>4, <2>3
  <2>5. Sent' = Sent + 1
    BY <1>1, <1>2, <1>3, <1>4, <1>6, <2>4
  <2> QED
    BY <2>1, <2>5
<1> HIDE DEF count
<1>7. batch_no + 1 < count \/ batch_no + 1 = count
  BY <1>1, <1>2
<1> QED
  BY <1>5, <1>6, <1>7

\* The batch that is sent as a whole is behind the others.
LEMMA SentFromGrows ==
  ASSUME TestTypeOK, OrdinaryTests, Orderly, InOrder, batches \in Nat,
         run <= Len(runs), runs' = runs, batches' = batches, Sent' = Sent + 1
  PROVE  FlattenSeq(SentFrom(batches))' =
           FlattenSeq(SentFrom(batches)) \o Numbered(Sent)
<1>1. Sent \in Nat /\ batches <= Sent
  BY SentProperties DEF InOrder
<1>2. SentFrom(batches) \in Seq(Seq(Word)) /\ Numbered(Sent) \in Seq(Word)
  BY <1>1, SentFromProperties, NumberedProperties
<1> DEFINE n == Sent - batches
           f(j) == Numbered(batches + (j - 1))
<1>3. n \in Nat /\ (Sent + 1) - batches = n + 1
  BY <1>1
<1>4. f(n + 1) = Numbered(Sent)
  <2>1. batches + ((n + 1) - 1) = Sent
    BY <1>1
  <2> HIDE DEF Numbered, n
  <2> QED
    BY <2>1
<1>5. SentFrom(batches)' = [j \in 1 .. n + 1 |-> f(j)]
  <2>1. SentFrom(batches)' =
          [j \in 1 .. Sent' - batches' |-> Numbered(batches' + (j - 1))]
    BY NumbersStay
  <2>2. Sent' - batches' = n + 1
    BY <1>3
  <2> HIDE DEF Numbered, n
  <2> QED
    BY <2>1, <2>2
<1>6. SentFrom(batches) = [j \in 1 .. n |-> f(j)]
  BY DEF SentFrom
<1> HIDE DEF n, f
<1>7. Append([j \in 1 .. n |-> f(j)], f(n + 1)) = [j \in 1 .. n + 1 |-> f(j)]
  BY <1>3
<1>8. SentFrom(batches)' = Append(SentFrom(batches), Numbered(Sent))
  BY <1>4, <1>5, <1>6, <1>7
<1>9. FlattenSeq(SentFrom(batches))' = FlattenSeq(SentFrom(batches)')
  OBVIOUS
<1> QED
  BY <1>2, <1>8, <1>9, FlattenOfAppend

LEMMA SendKeepsOrder ==
  ASSUME TestInv, OrdinaryTests, Orderly, InOrder, SendDatagram
  PROVE  InOrder'
<1> DEFINE chunk == SubSeq(ClientBatch(run, batch_no), offset + 1, offset + Chunk)
           batch == Numbered(Sent)
           whole == FlattenSeq(SentFrom(batches))
           waiting == FlattenSeq(socket)
<1>1. /\ run <= Len(runs) /\ AdvanceClient /\ runs' = runs
      /\ socket' = Append(socket, chunk)
      /\ UNCHANGED <<vars, control>>
  BY DEF SendDatagram
<1>2. /\ TestTypeOK /\ IInv /\ socket \in Seq(Seq(Word)) /\ Pending \in Seq(Word)
      /\ batches \in Nat /\ Sent \in Nat /\ batches <= Sent
      /\ Pending \o waiting = whole \o Unfinished
      /\ waiting \in Seq(Word)
  BY PendingType, FlattenType, SentProperties DEF TestInv, IInv, TypeOK, InOrder
<1>3. whole \in Seq(Word) /\ Unfinished \in Seq(Word)
  BY <1>2, SentFromProperties, UnfinishedProperties
<1>4. /\ batch \in Seq(Word) /\ chunk \in Seq(Word)
      /\ Unfinished \o chunk = SubSeq(batch, 1, offset + Chunk)
      /\ offset + Chunk \in 0 .. Len(batch)
      /\ Len(batch) = runs[run].batchSize
      /\ batch = ClientBatch(run, batch_no)
  BY <1>1, <1>2, ChunkIsNext
<1>5. UNCHANGED <<buffer, filled, expected, active, calls, batches, bad_batches,
                  accepted, wire_batch_total, seen_seq, pc>>
  BY <1>1 DEF vars, reassembly, history, sequence_stats, control
<1>6. Pending' = Pending
  BY <1>5 DEF Pending, Collected
<1>7. /\ count' = count /\ \A k : Numbered(k)' = Numbered(k)
      /\ SentFrom(batches)' =
           [j \in 1 .. Sent' - batches' |-> Numbered(batches' + (j - 1))]
  BY <1>1, NumbersStay
<1>8. Pending' \o FlattenSeq(socket') = whole \o (Unfinished \o chunk)
  <2> HIDE DEF chunk, waiting, whole, batch
  <2>1. FlattenSeq(socket') = waiting \o chunk
    BY <1>1, <1>2, <1>4, FlattenOfAppend DEF waiting
  <2>2. (Pending \o waiting) \o chunk = Pending \o (waiting \o chunk)
    BY <1>2, <1>4, Regrouped
  <2>3. (whole \o Unfinished) \o chunk = whole \o (Unfinished \o chunk)
    BY <1>3, <1>4, Regrouped
  <2> QED
    BY <1>2, <1>6, <2>1, <2>2, <2>3
<1>9. /\ FlattenSeq(SentFrom(batches))' \o Unfinished' = whole \o (Unfinished \o chunk)
      /\ batches <= Sent'
      /\ run' > Len(runs) => batch_no' = 0 /\ offset' = 0
  <2>1. CASE ~LastChunk
    <3>1. offset' = offset + Chunk /\ batch_no' = batch_no /\ run' = run
      BY <1>1, <2>1 DEF AdvanceClient
    <3>2. Sent' = Sent
      BY <1>7, <3>1 DEF Sent
    <3>3. SentFrom(batches)' = SentFrom(batches)
      <4> HIDE DEF Numbered
      <4> QED
        BY <1>5, <1>7, <3>2 DEF SentFrom
    <3>4. ~(run > Len(runs))
      BY <1>1, <1>2, SentProperties DEF TestTypeOK
    <3>5. Unfinished' = SubSeq(batch, 1, offset + Chunk)
      <4>1. Unfinished' = SubSeq(ClientBatch(run, batch_no), 1, offset')
        BY <1>1, <3>1, <3>4 DEF Unfinished, ClientBatch
      <4> QED
        BY <1>4, <3>1, <4>1
    <3>6. FlattenSeq(SentFrom(batches))' = FlattenSeq(SentFrom(batches)')
      OBVIOUS
    <3> QED
      BY <1>1, <1>2, <1>4, <3>1, <3>2, <3>3, <3>4, <3>5, <3>6
  <2>2. CASE LastChunk
    <3>1. Sent' = Sent + 1 /\ offset' = 0 /\ (run' > Len(runs) => batch_no' = 0)
      BY <1>2, <2>2, LastChunkSends
    <3>2. FlattenSeq(SentFrom(batches))' = whole \o batch
      BY <1>1, <1>2, <1>5, <3>1, SentFromGrows
    <3>3. Unfinished' = <<>>
      <4>1. \A words : SubSeq(words, 1, 0) = <<>>
        OBVIOUS
      <4> QED
        BY <3>1, <4>1 DEF Unfinished
    <3>4. Unfinished \o chunk = batch
      <4>1. offset + Chunk = Len(batch)
        BY <1>4, <2>2 DEF LastChunk
      <4>2. SubSeq(batch, 1, Len(batch)) = batch
        BY <1>4, SubSeqFull
      <4> QED
        BY <1>4, <4>1, <4>2
    <3>5. (whole \o batch) \o <<>> = whole \o batch
      <4> HIDE DEF whole, batch
      <4>1. whole \o batch \in Seq(Word)
        BY <1>3, <1>4, ConcatProperties
      <4> QED
        BY <4>1, ConcatEmptySeq
    <3>6. batches <= Sent'
      BY <1>2, <3>1
    <3> QED
      BY <3>1, <3>2, <3>3, <3>4, <3>5, <3>6
  <2> QED
    BY <2>1, <2>2
<1>10. (Pending \o FlattenSeq(socket))' =
         (FlattenSeq(SentFrom(batches)) \o Unfinished)'
  BY <1>8, <1>9
<1>11. accepted' = [k \in 1 .. batches |-> Numbered(k - 1)]'
  <2>1. accepted = [k \in 1 .. batches |-> Numbered(k - 1)]
    BY DEF InOrder
  <2> HIDE DEF Numbered
  <2> QED
    BY <1>5, <1>7, <2>1
<1> HIDE DEF chunk, batch, whole, waiting
<1> QED
  BY <1>1, <1>5, <1>7, <1>9, <1>10, <1>11 DEF InOrder, have_seq

-----------------------------------------------------------------------------
(***************************************************************************)
(* The invariant                                                           *)
(***************************************************************************)

LEMMA TestInitEstablishesOrder ==
  ASSUME TestInit, OrdinaryTests
  PROVE  OrderInv
<1>1. /\ runs \in Tests /\ run = 1 /\ batch_no = 0 /\ offset = 0
      /\ batches = 0 /\ bad_batches = 0 /\ accepted = <<>> /\ buffer = <<>>
      /\ ~active /\ seen_seq = {} /\ wire_batch_total = NoTotal
      /\ calls = <<>> /\ socket = <<>> /\ pc = "start"
  BY DEF TestInit, ServerInit, Init, InitStats, InitReassembly
<1>2. runs[1] \in RunOptions /\ Len(runs) \in Nat /\ Len(runs) >= 1
  BY <1>1, RunsProperties
<1>3. Sent = 0
  <2>1. count \in Nat
    BY <1>2 DEF RunOptions, count
  <2> HIDE DEF count
  <2> QED
    BY <1>1, <2>1 DEF Sent
<1>4. SentFrom(batches) = <<>> /\ Unfinished = <<>>
  <2>1. 1 .. Sent - batches = {}
    BY <1>1, <1>3
  <2>2. SentFrom(batches) = <<>>
    BY <2>1 DEF SentFrom
  <2>3. ~(run > Len(runs))
    BY <1>1, <1>2
  <2>4. \A words : SubSeq(words, 1, 0) = <<>>
    OBVIOUS
  <2> QED
    BY <1>1, <2>2, <2>3, <2>4 DEF Unfinished
<1>5. accepted = [k \in 1 .. batches |-> Numbered(k - 1)]
  <2>1. 1 .. batches = {}
    BY <1>1
  <2> QED
    BY <1>1, <2>1
<1>6. Pending \o FlattenSeq(socket) = FlattenSeq(SentFrom(batches)) \o Unfinished
  <2>1. <<>> \o <<>> = <<>>
    OBVIOUS
  <2> QED
    BY <1>1, <1>4, <2>1, FlattenOfEmpty DEF Pending, Collected
<1> QED
  BY <1>1, <1>3, <1>5, <1>6 DEF OrderInv, InOrder, have_seq

\* finalize_lost ends: there are fewer batches than its counter has values.
LEMMA FinalizeEnds ==
  ASSUME TestInv, OrdinaryTests, Orderly, InOrder
  PROVE  ~FinalizeLoops
<1>1. options \in Options /\ options.batchCount \in Nat
      /\ options.batchCount < Uint32Values /\ Uint32Values \in Nat \ {0}
  BY ServerAssumption DEF TestInv, OrdinaryTests
<1>2. CASE CountMode
  <2>1. (options.batchCount - 1) % Uint32Values = options.batchCount - 1
    BY <1>1, <1>2 DEF CountMode, NoCount
  <2> QED
    BY <1>1, <1>2, <2>1 DEF FinalizeLoops, LastExpected
<1>3. CASE ~CountMode
  <2>1. wire_batch_total = NoTotal => NothingExpected
    BY <1>3 DEF InOrder, NothingExpected
  <2>2. wire_batch_total # NoTotal => wire_batch_total = count
    BY DEF InOrder
  <2>3. count \in Nat /\ count < Uint32Values
    <3>1. runs \in Tests /\ 1 \in DOMAIN runs
      BY RunsProperties DEF TestInv, TestTypeOK
    <3> QED
      BY <3>1, SentProperties DEF TestInv, OrdinaryTests, count
  <2> HIDE DEF count
  <2> QED
    BY <1>1, <1>3, <2>1, <2>2, <2>3 DEF FinalizeLoops, LastExpected
<1> QED
  BY <1>2, <1>3

LEMMA ServerKeepsOrder ==
  ASSUME TestInv, OrdinaryTests, OrderInv, ServerOrClock, Orderly'
  PROVE  InOrder'
<1>1. /\ ServerStep \/ PollFails \/ ReceiveFails \/ DeadlinePasses
      /\ UNCHANGED <<run, runs, batch_no, offset, faults, killed>>
      /\ UNCHANGED client
      /\ InSession' \/ pc' = "start"
      /\ session' = 0 /\ session \in Nat /\ faults' = 0 /\ ~killed'
      /\ pc' \notin {"summary", "exited", "failed"}
  BY DEF ServerOrClock, client, Orderly, TestInv, InSession
<1>2. ASSUME InSession \/ pc = "start", session' = session
      PROVE  Orderly /\ InOrder
  <2>1. Orderly
    BY <1>1, <1>2 DEF Orderly, count
  <2> QED
    BY <2>1 DEF OrderInv
<1>3. CASE Start \/ LoopTurns \/ Readable \/ IngestDone \/ ReceiveFails
           \/ DeadlinePasses
  <2>1. /\ InSession \/ pc = "start"
        /\ session' = session
        /\ UNCHANGED <<vars, socket>>
    BY <1>3 DEF Start, LoopTurns, Readable, IngestDone, ReceiveFails,
         DeadlinePasses, GoTo,
                InSession, network
  <2>2. InOrder
    BY <1>2, <2>1, <1>3
       DEF Start, LoopTurns, Readable, IngestDone, ReceiveFails, DeadlinePasses, GoTo
  <2>3. pc' # "finalizing"
    BY <1>3, <2>2
       DEF Start, LoopTurns, Readable, IngestDone, ReceiveFails,
           DeadlinePasses, GoTo, InOrder
  <2> QED
    BY <1>1, <2>1, <2>2, <2>3, QuietKeepsOrder
<1>4. ~EndSession \/ ~InSession
  <2> SUFFICES ASSUME EndSession, InSession
               PROVE  FALSE
    OBVIOUS
  <2>1. session' = session /\ pc' \in {"summary", "finalizing"}
        /\ (pc' = "finalizing" => FinalizeLoops)
    BY DEF EndSession
  <2>2. Orderly /\ InOrder
    BY <1>2, <2>1
  <2> QED
    BY <1>1, <2>1, <2>2, FinalizeEnds
<1>5. CASE LoopEnds \/ PollTimesOut \/ PollFails \/ ReceiveTimesOut
  BY <1>4, <1>5 DEF LoopEnds, PollTimesOut, PollFails, ReceiveTimesOut, InSession
<1>6. CASE ReceiveOne \/ ReceiveCoalesced
  <2>1. InSession /\ session' = session
    BY <1>6 DEF ReceiveOne, ReceiveCoalesced, GoTo, InSession
  <2> QED
    BY <1>1, <1>2, <1>6, <2>1, ReadKeepsOrder
<1>7. CASE ReceiveEmpty
  <2>1. /\ InSession /\ socket # <<>> /\ Head(socket) = <<>>
        /\ socket' = Tail(socket)
        /\ GoTo("top") /\ UNCHANGED <<vars, arrived>>
    BY <1>4, <1>7 DEF ReceiveEmpty, InSession
  <2>2. session' = session /\ pc' = "top"
    BY <2>1 DEF GoTo
  <2>3. Orderly /\ InOrder
    BY <1>2, <2>1, <2>2
  <2>4. FlattenSeq(socket') = FlattenSeq(socket)
    <3>1. socket \in Seq(Seq(Word))
      BY DEF TestInv
    <3>2. socket = <<Head(socket)>> \o Tail(socket) /\ Tail(socket) \in Seq(Seq(Word))
          /\ Head(socket) \in Seq(Word)
      BY <2>1, <3>1
    <3>3. FlattenSeq(<<Head(socket)>> \o Tail(socket)) =
            Head(socket) \o FlattenSeq(Tail(socket))
      BY <3>2, FlattenOfCons
    <3>4. FlattenSeq(Tail(socket)) \in Seq(Word)
      BY <3>2, FlattenType
    <3> QED
      BY <2>1, <3>2, <3>3, <3>4, ConcatEmptySeq
  <2>5. UNCHANGED <<buffer, filled, expected, active, calls, batches,
                    bad_batches, accepted, wire_batch_total, seen_seq>>
    BY <2>1 DEF vars, reassembly, history, sequence_stats
  <2>6. Pending' = Pending
    BY <2>5 DEF Pending, Collected
  <2> QED
    BY <1>1, <2>2, <2>3, <2>4, <2>5, <2>6, OrderOfNext DEF InOrder, have_seq
<1>8. CASE IngestStep
  <2>1. InSession /\ session' = session
    BY <1>8 DEF IngestStep, control, InSession
  <2> QED
    BY <1>1, <1>2, <1>8, <2>1, IngestKeepsOrder
<1>9. CASE NextSession
  BY <1>1, <1>9 DEF NextSession
<1> QED
  BY <1>1, <1>3, <1>5, <1>6, <1>7, <1>8, <1>9 DEF ServerStep

LEMMA TestNextKeepsOrder ==
  ASSUME TestInv, OrdinaryTests, OrderInv, [TestNext]_test_vars
  PROVE  OrderInv'
<1> SUFFICES ASSUME Orderly'
             PROVE  InOrder'
  BY DEF OrderInv
<1>1. /\ faults' = 0 /\ ~killed' /\ faults \in Nat
  BY UdpTestAssumption DEF Orderly, TestInv, TestTypeOK
<1>2. CASE SendDatagram
  <2>1. UNCHANGED <<control, runs, faults, killed>>
    BY <1>2 DEF SendDatagram
  <2>2. Orderly
    BY <2>1 DEF Orderly, InSession, control, count
  <2> QED
    BY <1>2, <2>2, SendKeepsOrder DEF OrderInv
<1>3. CASE ClientStops
  BY <1>1, <1>3 DEF ClientStops
<1>4. CASE Lose \/ Duplicate \/ Overtake
  BY <1>1, <1>4 DEF Lose, Duplicate, Overtake, Fault
<1>5. CASE ServerOrClock
  BY <1>5, ServerKeepsOrder
<1>6. CASE UNCHANGED test_vars
  <2>1. UNCHANGED <<vars, control, network, client, faults, killed>>
    BY <1>6 DEF test_vars, server_vars
  <2>2. Orderly
    BY <2>1 DEF Orderly, InSession, control, count, client
  <2>3. InOrder /\ pc' = pc /\ socket' = socket
    BY <2>1, <2>2 DEF OrderInv, control, network
  <2> QED
    BY <2>1, <2>3, QuietKeepsOrder DEF InOrder
<1> QED
  BY <1>2, <1>3, <1>4, <1>5, <1>6 DEF TestNext

-----------------------------------------------------------------------------
(***************************************************************************)
(* The theorem                                                             *)
(***************************************************************************)

\* Less than a batch is collected between two datagrams, so that nothing is left
\* of what was sent as a whole when everything is ingested.
LEMMA NothingMissing ==
  ASSUME TestInv, OrdinaryTests, Orderly, InOrder, Drained
  PROVE  batches = count * Len(runs)
<1> DEFINE batch == Numbered(batches)
           later == FlattenSeq(SentFrom(batches + 1))
<1>1. /\ TestTypeOK /\ IInv /\ batches \in Nat /\ Sent \in Nat /\ batches <= Sent
      /\ Pending \in Seq(Word) /\ Len(Pending) \in Nat
      /\ Pending = Collected
      /\ run > Len(runs)
      /\ Sent = count * Len(runs)
  BY PendingType, LenProperties, SentProperties
     DEF TestInv, IInv, TypeOK, InOrder, Drained
<1>2. Unfinished = <<>> /\ FlattenSeq(socket) = <<>>
  BY <1>1, UnfinishedProperties, FlattenOfEmpty DEF Drained
<1>3. ASSUME batches < Sent
      PROVE  FALSE
  <2>1. /\ batch \in Seq(Word) /\ Len(batch) \in Nat
        /\ Len(batch) > kPacketHeaderSize
    BY <1>1, <1>3, NumberedProperties
  <2>2. FlattenSeq(SentFrom(batches)) = batch \o later /\ later \in Seq(Word)
    <3>1. batches + 1 \in Nat /\ batches + 1 <= Sent
      BY <1>1, <1>3
    <3>2. FlattenSeq(SentFrom(batches)) = batch \o later
      BY <1>1, <1>3, SentFromProperties
    <3>3. later \in Seq(Word)
      BY <1>1, <3>1, SentFromProperties
    <3> QED
      BY <3>2, <3>3
  <2>3. Pending \o <<>> = (batch \o later) \o <<>>
    BY <1>2, <2>2 DEF InOrder
  <2> HIDE DEF batch, later
  <2>4. Pending = batch \o later
    BY <1>1, <2>1, <2>2, <2>3, ConcatEmptySeq, ConcatProperties
  <2>5. Len(batch) <= Len(Pending) /\ Pending # <<>>
    <3>1. Len(batch \o later) = Len(batch) + Len(later) /\ Len(later) \in Nat
      BY <2>1, <2>2, ConcatProperties, LenProperties
    <3>2. Len(batch) <= Len(Pending) /\ Len(Pending) # 0
      BY <2>1, <2>4, <3>1 DEF kPacketHeaderSize
    <3> QED
      BY <1>1, <3>2, EmptySeq
  <2>6. CASE ~active
    <3>1. Len(Collected) < kPacketHeaderSize
      BY <1>1, <2>6 DEF Collected, IInv, ReassemblyConsistent
    <3> QED
      BY <1>1, <2>1, <2>5, <3>1 DEF kPacketHeaderSize
  <2>7. CASE active
    <3>1. /\ buffer \in Seq(Word) /\ Len(buffer) \in Nat /\ filled \in Nat
          /\ 5 <= filled /\ filled <= Len(buffer) /\ expected = Len(buffer)
          /\ PacketHeader(buffer).length = expected
          /\ filled < expected
      BY <1>1, <2>7, LenProperties
         DEF IInv, TypeOK, ReassemblyConsistent, kPacketHeaderSize, InOrder
    <3>2. Collected = SubSeq(buffer, 1, filled)
      BY <2>7 DEF Collected
    <3>3. /\ Len(SubSeq(buffer, 1, filled)) = filled
          /\ SubSeq(buffer, 1, filled)[4] = buffer[4]
      BY <3>1
    <3>4. Len(Pending) = filled /\ Pending[4] = buffer[4]
      BY <1>1, <3>2, <3>3
    <3>5. peek_batch_length(Pending) = Len(batch) /\ peek_batch_length(Pending) # 0
      <4>1. Len(Pending) >= kPacketHeaderSize
        BY <3>1, <3>4 DEF kPacketHeaderSize
      <4>2. peek_batch_length(Pending) = Len(batch)
        BY <2>5, <4>1, FrontIsBatch DEF batch
      <4> QED
        BY <2>1, <4>2 DEF kPacketHeaderSize
    <3>6. PacketHeader(Pending).length = Len(batch)
      BY <1>1, <3>5, PeekProperties
    <3>7. Len(batch) = expected
      BY <3>1, <3>4, <3>6 DEF PacketHeader
    <3> QED
      BY <2>1, <2>5, <3>1, <3>4, <3>7
  <2> QED
    BY <2>6, <2>7
<1> QED
  BY <1>1, <1>3

LEMMA OrderIsDelivery ==
  ASSUME TestInv, OrdinaryTests, OrderInv
  PROVE  InOrderDelivery
<1> SUFFICES ASSUME FirstSession, faults = 0, ~killed,
                    \A r \in DOMAIN runs : runs[r].batchCount = count
             PROVE  /\ bad_batches = 0
                    /\ accepted = [k \in 1 .. batches |->
                                     ClientBatch((k - 1) \div count + 1,
                                                 (k - 1) % count)]
                    /\ Drained => batches = count * Len(runs)
  BY DEF InOrderDelivery, count
<1>1. Orderly
  BY DEF Orderly, FirstSession
<1>2. InOrder
  BY <1>1 DEF OrderInv
<1>3. Drained => batches = count * Len(runs)
  BY <1>1, <1>2, NothingMissing
<1>4. bad_batches = 0 /\ accepted = [k \in 1 .. batches |-> Numbered(k - 1)]
  BY <1>2 DEF InOrder
<1> HIDE DEF count
<1> QED
  BY <1>3, <1>4 DEF Numbered

\* What README.md:179 promises of a network that keeps its datagrams in order:
\* the server counts what the clients sent, batch by batch, with nothing bad in
\* between, and nothing is missing once everything is ingested, however the
\* batches are cut and coalesced (client.cpp:60-101, server.cpp:438-550).
THEOREM DeliveredInOrder ==
  ASSUME OrdinaryTests
  PROVE  TestSpec => []InOrderDelivery
<1>1. TestInit => OrderInv
  BY TestInitEstablishesOrder
<1>2. TestInv /\ OrderInv /\ [TestNext]_test_vars => OrderInv'
  BY TestNextKeepsOrder
<1>3. TestInv /\ OrderInv => InOrderDelivery
  BY OrderIsDelivery
<1> QED
  BY <1>1, <1>2, <1>3, TestInvariance, PTL DEF TestSpec

-----------------------------------------------------------------------------
(***************************************************************************)
(* What is counted was sent                                                *)
(***************************************************************************)

\* The batches of a test, and where a batch is cut into datagrams.
BatchOf(test, r, i) ==
  build_batch(i % Uint32Values, test[r].batchCount % Uint32Values,
              Payload(r, i, test[r].batchSize - kPacketHeaderSize))

BatchesOf(test) ==
  UNION {{BatchOf(test, r, i) : i \in 0 .. test[r].batchCount - 1} :
           r \in DOMAIN test}

CutsOf(o) == {k \in 0 .. o.batchSize - 1 : \E q \in Nat : k = q * o.mss}

CutAt(o, batch, k) ==
  SubSeq(batch, k + 1,
         k + (IF o.mss = 0 \/ o.batchSize - k < o.mss THEN o.batchSize - k ELSE o.mss))

DatagramsOf(test) ==
  UNION {{CutAt(test[r], BatchOf(test, r, i), k) :
            i \in 0 .. test[r].batchCount - 1, k \in CutsOf(test[r])} :
           r \in DOMAIN test}

\* The end of a row of datagrams of D, joined, in any number and order, and a
\* piece of such a row.
EndOfRow(D, words) ==
  \E row \in Seq(D) : \E n \in 0 .. Len(FlattenSeq(row)) :
    words = From(FlattenSeq(row), n)

PieceOfRow(D, words) ==
  \E row \in Seq(D) : \E m, n \in Nat :
    /\ m + n <= Len(FlattenSeq(row))
    /\ words = SubSeq(FlattenSeq(row), m + 1, m + n)

\* What is counted lies in one piece in a row of datagrams that were sent, as
\* they were sent, and is valid.
CountedInOnePiece ==
  \A i \in DOMAIN accepted :
    /\ PieceOfRow(DatagramsOf(runs), accepted[i])
    /\ ValidBatch(accepted[i])

\* What is asked of the checksum: a mixture of datagrams of the test that has the
\* header of a batch as long as it is has the checksum of a batch of the test only
\* when it has its words, and none that is another word of one.
NoCollision ==
  \A test \in Tests : \A mixture \in Seq(Word) :
    /\ PieceOfRow(DatagramsOf(test), mixture)
    /\ Len(mixture) >= kPacketHeaderSize
    /\ peek_batch_length(mixture) = Len(mixture)
    => \A batch \in BatchesOf(test) :
         /\ batch_crc32(mixture) = batch_crc32(batch)
              => [mixture EXCEPT ![5] = 0] = [batch EXCEPT ![5] = 0]
         /\ \A k \in DOMAIN batch \ {5} : batch_crc32(mixture) # batch[k]

\* What waits in the socket is datagrams of the test, and what waits in the
\* receiver is the end of some of them, joined.
MixtureInv ==
  /\ socket \in Seq(DatagramsOf(runs))
  /\ run <= Len(runs) => offset \in CutsOf(runs[run])
  /\ EndOfRow(DatagramsOf(runs), Pending)

LEMMA DatagramsAreWords ==
  ASSUME runs \in Tests
  PROVE  /\ DatagramsOf(runs) \subseteq Seq(Word)
         /\ Seq(DatagramsOf(runs)) \subseteq Seq(Seq(Word))
<1>1. ASSUME NEW r \in DOMAIN runs, NEW i \in 0 .. runs[r].batchCount - 1,
             NEW k \in CutsOf(runs[r])
      PROVE  CutAt(runs[r], BatchOf(runs, r, i), k) \in Seq(Word)
  <2>1. /\ BatchOf(runs, r, i) \in Seq(Word)
        /\ Len(BatchOf(runs, r, i)) = runs[r].batchSize
    BY ClientBatchType DEF BatchOf, ClientBatch
  <2>2. runs[r] \in RunOptions
    BY RunsProperties
  <2>3. /\ runs[r].batchSize \in Nat /\ runs[r].mss \in Nat
        /\ k \in Nat /\ k < runs[r].batchSize
    BY <2>2, PacketAssumption DEF RunOptions, kPacketHeaderSize, CutsOf
  <2> DEFINE batch == BatchOf(runs, r, i)
             size == runs[r].batchSize
             last == k + (IF runs[r].mss = 0 \/ size - k < runs[r].mss
                          THEN size - k ELSE runs[r].mss)
  <2>4. last \in Nat /\ last <= size
    BY <2>3
  <2> HIDE DEF batch, last
  <2>5. batch \in Seq(Word) /\ Len(batch) = size
    BY <2>1 DEF batch
  <2> HIDE DEF size
  <2>6. \A j \in k + 1 .. last : batch[j] \in Word
    BY <2>3, <2>4, <2>5, ElementOfSeq
  <2>7. SubSeq(batch, k + 1, last) \in Seq(Word)
    BY <2>3, <2>4, <2>6, SubSeqProperties
  <2> QED
    BY <2>7 DEF CutAt, batch, last, size
<1>2. DatagramsOf(runs) \subseteq Seq(Word)
  BY <1>1 DEF DatagramsOf
<1>3. ASSUME NEW ds \in Seq(DatagramsOf(runs))
      PROVE  ds \in Seq(Seq(Word))
  BY <1>2, <1>3
<1> QED
  BY <1>2, <1>3

\* Sending puts a datagram of the test into the socket, and leaves the client at
\* a cut.
LEMMA SendsADatagram ==
  ASSUME TestInv, MixtureInv, SendDatagram
  PROVE  /\ socket' \in Seq(DatagramsOf(runs))
         /\ run' <= Len(runs) => offset' \in CutsOf(runs[run'])
<1>1. /\ run <= Len(runs) /\ TestTypeOK /\ TestTypeOK' /\ runs' = runs
      /\ AdvanceClient
      /\ socket \in Seq(DatagramsOf(runs)) /\ offset \in CutsOf(runs[run])
      /\ socket' = Append(socket, SubSeq(ClientBatch(run, batch_no),
                                         offset + 1, offset + Chunk))
  BY SendKeepsClientTypes DEF SendDatagram, TestInv, MixtureInv
<1>2. /\ run \in DOMAIN runs /\ runs[run] \in RunOptions
      /\ batch_no \in Nat /\ batch_no < runs[run].batchCount
      /\ offset \in Nat /\ offset < runs[run].batchSize
      /\ runs[run].mss \in Nat /\ runs[run].batchSize \in Nat
  <2>1. /\ run \in DOMAIN runs /\ runs[run] \in RunOptions
        /\ batch_no \in Nat /\ batch_no < runs[run].batchCount
        /\ offset \in Nat
    BY <1>1, ChunkProperties
  <2>2. runs[run].mss \in Nat /\ runs[run].batchSize \in Nat
    BY <2>1, PacketAssumption DEF RunOptions, kPacketHeaderSize
  <2>3. offset < runs[run].batchSize
    BY <1>1, <2>2 DEF CutsOf
  <2> QED
    BY <2>1, <2>2, <2>3
<1>3. socket' \in Seq(DatagramsOf(runs))
  <2>1. batch_no \in 0 .. runs[run].batchCount - 1
    BY <1>2 DEF RunOptions
  <2>2. SubSeq(ClientBatch(run, batch_no), offset + 1, offset + Chunk) =
          CutAt(runs[run], BatchOf(runs, run, batch_no), offset)
    BY DEF CutAt, BatchOf, ClientBatch, Chunk
  <2>3. CutAt(runs[run], BatchOf(runs, run, batch_no), offset) \in DatagramsOf(runs)
    BY <1>1, <1>2, <2>1 DEF DatagramsOf
  <2> HIDE DEF DatagramsOf
  <2> DEFINE D == DatagramsOf(runs)
             d == SubSeq(ClientBatch(run, batch_no), offset + 1, offset + Chunk)
  <2>4. socket \in Seq(D) /\ d \in D
    BY <1>1, <2>2, <2>3
  <2> HIDE DEF D, d
  <2>5. Append(socket, d) \in Seq(D)
    BY <2>4
  <2> QED
    BY <1>1, <2>5 DEF D, d
<1>4. ASSUME run' <= Len(runs)
      PROVE  offset' \in CutsOf(runs[run'])
  <2>1. CASE LastChunk
    <3>1. offset' = 0 /\ 0 = 0 * runs[run'].mss /\ 0 \in 0 .. runs[run'].batchSize - 1
      <4>1. offset' = 0 /\ offset' \in 0 .. runs[run'].batchSize - 1
        BY <1>1, <1>4, <2>1 DEF AdvanceClient, TestTypeOK
      <4>2. runs[run'] \in RunOptions
        <5>1. run' \in 1 .. Len(runs) /\ runs \in Tests
          BY <1>1, <1>4, RunsProperties DEF TestTypeOK
        <5> QED
          BY <5>1, RunsProperties
      <4> QED
        BY <4>1, <4>2 DEF RunOptions
    <3> QED
      BY <3>1 DEF CutsOf
  <2>2. CASE ~LastChunk
    <3>1. offset' = offset + Chunk /\ run' = run
      BY <1>1, <2>2 DEF AdvanceClient
    <3>2. Chunk = runs[run].mss
      BY <1>2, <2>2 DEF LastChunk, Chunk
    <3>3. PICK q \in Nat : offset = q * runs[run].mss
      BY <1>1 DEF CutsOf
    <3> DEFINE m == runs[run].mss
    <3>4. m \in Nat /\ offset' = q * m + m
      BY <1>2, <3>1, <3>2, <3>3
    <3> HIDE DEF m
    <3>5. q * m + m = (q + 1) * m /\ q + 1 \in Nat
      BY <3>4
    <3>6. offset' = (q + 1) * m
      BY <3>4, <3>5
    <3>7. offset' \in 0 .. runs[run].batchSize - 1
      BY <1>1, <1>4, <3>1 DEF TestTypeOK
    <3> QED
      BY <3>1, <3>5, <3>6, <3>7 DEF CutsOf, m
  <2> QED
    BY <2>1, <2>2
<1> QED
  BY <1>3, <1>4

\* What is read is some of the datagrams of the socket, joined.
LEMMA ReadTakesDatagrams ==
  ASSUME NEW D, D \subseteq Seq(Word), socket \in Seq(D),
         ReceiveOne \/ ReceiveCoalesced
  PROVE  /\ socket' \in Seq(D)
         /\ \E taken \in Seq(D) :
              FlattenSeq(taken) \in Seq(Word) /\ ReceiveDatagram(FlattenSeq(taken))
<1>1. CASE ReceiveOne
  <2>1. /\ Head(socket) \in D /\ Tail(socket) \in Seq(D)
    BY <1>1 DEF ReceiveOne
  <2>2. /\ <<Head(socket)>> \in Seq(D) /\ Head(socket) \in Seq(Word)
        /\ <<>> \in Seq(Seq(Word)) /\ <<Head(socket)>> \o <<>> = <<Head(socket)>>
    BY <2>1
  <2>3. FlattenSeq(<<Head(socket)>> \o <<>>) = Head(socket) \o <<>>
    BY <2>2, FlattenOfCons, FlattenOfEmpty
  <2>4. FlattenSeq(<<Head(socket)>>) = Head(socket)
    BY <2>2, <2>3, ConcatEmptySeq
  <2> QED
    BY <1>1, <2>1, <2>2, <2>4 DEF ReceiveOne
<1>2. CASE ReceiveCoalesced
  <2>1. PICK k \in DOMAIN socket :
          /\ Coalescible(SubSeq(socket, 1, k))
          /\ ReceiveDatagram(Coalesced(SubSeq(socket, 1, k)))
          /\ socket' = From(socket, k)
    BY <1>2 DEF ReceiveCoalesced
  <2> DEFINE taken == SubSeq(socket, 1, k)
  <2>2. taken \in Seq(D) /\ taken # <<>> /\ From(socket, k) \in Seq(D)
    <3>1. k \in 1 .. Len(socket) /\ Len(socket) \in Nat
      OBVIOUS
    <3>2. taken \in Seq(D) /\ From(socket, k) \in Seq(D)
      BY <3>1, SubSeqProperties DEF From
    <3> QED
      BY <3>1, <3>2
  <2>3. taken \in Seq(Seq(Word))
    <3> HIDE DEF taken
    <3> QED
      BY <2>2
  <2>4. Coalesced(taken) = FlattenSeq(taken) /\ Coalesced(taken) \in Seq(Word)
    BY <2>1, <2>2, <2>3, CoalescedIsJoin
  <2> QED
    BY <2>1, <2>2, <2>4
<1> QED
  BY <1>1, <1>2

\* A receiver that has dropped words from the front, or all of them, still holds
\* the end of a mixture.
LEMMA DroppingKeepsEnd ==
  ASSUME NEW D, D \subseteq Seq(Word), NEW words, EndOfRow(D, words),
         NEW k \in 0 .. Len(words)
  PROVE  EndOfRow(D, From(words, k))
<1>1. PICK row \in Seq(D) :
        \E n \in 0 .. Len(FlattenSeq(row)) : words = From(FlattenSeq(row), n)
  BY DEF EndOfRow
<1>2. PICK n \in 0 .. Len(FlattenSeq(row)) : words = From(FlattenSeq(row), n)
  BY <1>1
<1> DEFINE all == FlattenSeq(row)
<1>3. all \in Seq(Word) /\ Len(all) \in Nat
  <2>1. row \in Seq(Seq(Word))
    OBVIOUS
  <2> QED
    BY <2>1, FlattenType, LenProperties
<1>4. n \in 0 .. Len(all) /\ words = From(all, n)
  BY <1>2
<1> HIDE DEF all
<1>5. Len(words) = Len(all) - n
  BY <1>3, <1>4, FromElements
<1>6. k \in Nat /\ n + k <= Len(all) /\ n + k \in 0 .. Len(all)
  BY <1>3, <1>4, <1>5
<1>7. From(words, k) = From(all, n + k)
  BY <1>3, <1>4, <1>6, FromOfFrom
<1> QED
  BY <1>6, <1>7 DEF EndOfRow, all

LEMMA DroppingKeepsMixture ==
  ASSUME TestInv, MixtureInv, runs' = runs, socket' \in Seq(DatagramsOf(runs)),
         run' <= Len(runs) => offset' \in CutsOf(runs[run']),
         NEW k \in 0 .. Len(Pending), Pending' = From(Pending, k)
  PROVE  MixtureInv'
<1>1. DatagramsOf(runs) \subseteq Seq(Word)
  BY DatagramsAreWords DEF TestInv, TestTypeOK
<1>2. EndOfRow(DatagramsOf(runs), Pending)
  BY DEF MixtureInv
<1>3. EndOfRow(DatagramsOf(runs), From(Pending, k))
  <2> DEFINE D == DatagramsOf(runs)
  <2> HIDE DEF D
  <2>1. D \subseteq Seq(Word) /\ EndOfRow(D, Pending)
    BY <1>1, <1>2 DEF D
  <2>2. EndOfRow(D, From(Pending, k))
    BY <2>1, DroppingKeepsEnd
  <2> QED
    BY <2>2 DEF D
<1>4. DatagramsOf(runs)' = DatagramsOf(runs)
  BY DEF DatagramsOf, BatchOf
<1>5. EndOfRow(DatagramsOf(runs), Pending)'
  BY <1>3, <1>4 DEF EndOfRow
<1>6. (socket \in Seq(DatagramsOf(runs)))'
  BY <1>4
<1>7. (run <= Len(runs) => offset \in CutsOf(runs[run]))'
  OBVIOUS
<1> QED
  BY <1>5, <1>6, <1>7 DEF MixtureInv

\* Between two datagrams a step of the server keeps the stream or drops it.
LEMMA QuietKeepsMixture ==
  ASSUME TestInv, MixtureInv, UNCHANGED client,
         socket' \in Seq(DatagramsOf(runs)),
         Pending' = Pending \/ Pending' = <<>>
  PROVE  MixtureInv'
<1>1. Pending \in Seq(Word) /\ Len(Pending) \in Nat
  BY PendingType, LenProperties DEF TestInv
<1>2. Pending' = From(Pending, 0) \/ Pending' = From(Pending, Len(Pending))
  BY <1>1, FromCuts
<1>3. 0 \in 0 .. Len(Pending) /\ Len(Pending) \in 0 .. Len(Pending)
  BY <1>1
<1>4. run' <= Len(runs) => offset' \in CutsOf(runs[run'])
  BY DEF MixtureInv, client
<1> QED
  BY <1>2, <1>3, <1>4, DroppingKeepsMixture DEF client

LEMMA AppendingKeepsEnd ==
  ASSUME NEW D, D \subseteq Seq(Word), NEW words, EndOfRow(D, words),
         NEW taken \in Seq(D)
  PROVE  EndOfRow(D, words \o FlattenSeq(taken))
<1>1. PICK row \in Seq(D) :
        \E n \in 0 .. Len(FlattenSeq(row)) : words = From(FlattenSeq(row), n)
  BY DEF EndOfRow
<1>2. PICK n \in 0 .. Len(FlattenSeq(row)) : words = From(FlattenSeq(row), n)
  BY <1>1
<1>3. /\ row \in Seq(Seq(Word)) /\ taken \in Seq(Seq(Word))
      /\ row \o taken \in Seq(D)
  OBVIOUS
<1>4. FlattenSeq(row \o taken) = FlattenSeq(row) \o FlattenSeq(taken)
  BY <1>3, FlattenOfConcat
<1> DEFINE all == FlattenSeq(row)
           more == FlattenSeq(taken)
<1>5. all \in Seq(Word) /\ more \in Seq(Word) /\ Len(all) \in Nat /\ Len(more) \in Nat
  BY <1>3, FlattenType, LenProperties
<1>6. n \in 0 .. Len(all) /\ words = From(all, n)
  BY <1>2
<1> HIDE DEF all, more
<1>7. n \in 0 .. Len(all \o more)
  BY <1>5, <1>6
<1>8. words \o more = From(all \o more, n)
  <2>1. n \in Nat /\ n <= Len(all)
    BY <1>5, <1>6
  <2> QED
    BY <1>5, <1>6, <2>1, FromOfConcat
<1> QED
  BY <1>3, <1>4, <1>7, <1>8 DEF EndOfRow, all, more

LEMMA ReadKeepsMixture ==
  ASSUME TestInv, MixtureInv, UNCHANGED client, ReceiveOne \/ ReceiveCoalesced
  PROVE  MixtureInv'
<1>1. DatagramsOf(runs) \subseteq Seq(Word)
  BY DatagramsAreWords DEF TestInv, TestTypeOK
<1> DEFINE D == DatagramsOf(runs)
<1>2. D \subseteq Seq(Word) /\ socket \in Seq(D) /\ EndOfRow(D, Pending)
  BY <1>1 DEF MixtureInv
<1>3. D' = D
  BY DEF DatagramsOf, BatchOf, client
<1> HIDE DEF D
<1>4. socket' \in Seq(D)
  BY <1>2, ReadTakesDatagrams
<1>5. PICK taken \in Seq(D) :
        FlattenSeq(taken) \in Seq(Word) /\ ReceiveDatagram(FlattenSeq(taken))
  BY <1>2, ReadTakesDatagrams
<1>6. Pending' = Pending \o FlattenSeq(taken)
  BY <1>5, ReceiveIsAppend DEF TestInv
<1>7. EndOfRow(D, Pending \o FlattenSeq(taken))
  BY <1>2, AppendingKeepsEnd
<1>8. EndOfRow(D, Pending)'
  BY <1>3, <1>6, <1>7 DEF EndOfRow
<1>9. (socket \in Seq(D))'
  BY <1>3, <1>4
<1>10. (run <= Len(runs) => offset \in CutsOf(runs[run]))'
  BY DEF MixtureInv, client
<1> QED
  BY <1>8, <1>9, <1>10 DEF MixtureInv, D

\* At the end of a session and between two, what was collected is dropped.
LEMMA ResetDropsStream ==
  ASSUME TestInv, calls = <<>>,
         EndSession \/ NextSession
  PROVE  Pending' = Pending \/ Pending' = <<>>
<1>1. calls' = <<>>
  BY DEF EndSession, NextSession, vars
<1>2. ASSUME buffer' = <<>>, ~active'
      PROVE  Pending' = <<>>
  <2>1. Collected' = <<>>
    BY <1>2 DEF Collected
  <2>2. <<>> \o <<>> = <<>>
    OBVIOUS
  <2> QED
    BY <1>1, <2>1, <2>2, FlattenOfEmpty DEF Pending
<1>3. ASSUME UNCHANGED <<reassembly, calls>>
      PROVE  Pending' = Pending
  BY <1>3 DEF Pending, Collected, reassembly
<1> QED
  BY <1>1, <1>2, <1>3 DEF EndSession, NextSession, reset_reassembly, vars

LEMMA ServerKeepsMixture ==
  ASSUME TestInv, MixtureInv, ServerOrClock
  PROVE  MixtureInv'
<1>1. /\ UNCHANGED client
      /\ ServerStep \/ PollFails \/ ReceiveFails \/ DeadlinePasses
      /\ socket \in Seq(DatagramsOf(runs))
  BY DEF ServerOrClock, MixtureInv
<1>2. ASSUME UNCHANGED vars
      PROVE  Pending' = Pending
  BY <1>2 DEF Pending, Collected, vars, reassembly
<1>3. CASE Start \/ LoopTurns \/ Readable \/ IngestDone \/ ReceiveFails
           \/ DeadlinePasses
  <2>1. UNCHANGED <<vars, socket>>
    BY <1>3 DEF Start, LoopTurns, Readable, IngestDone, ReceiveFails,
         DeadlinePasses, network
  <2> QED
    BY <1>1, <1>2, <2>1, QuietKeepsMixture
<1>4. CASE LoopEnds \/ PollTimesOut \/ PollFails \/ ReceiveTimesOut \/ NextSession
  <2>1. /\ EndSession \/ NextSession
        /\ calls = <<>> /\ socket' = socket
    BY <1>4 DEF LoopEnds, PollTimesOut, PollFails, ReceiveTimesOut,
                NextSession, TestInv, network
  <2> QED
    BY <1>1, <2>1, ResetDropsStream, QuietKeepsMixture
<1>5. CASE ReceiveEmpty
  <2>1. /\ calls = <<>> /\ socket # <<>> /\ socket' = Tail(socket)
        /\ EndSession \/ UNCHANGED vars
    BY <1>5 DEF ReceiveEmpty, TestInv
  <2>2. socket' \in Seq(DatagramsOf(runs))
    BY <1>1, <2>1
  <2> QED
    BY <1>1, <1>2, <2>1, <2>2, ResetDropsStream, QuietKeepsMixture
<1>6. CASE ReceiveOne \/ ReceiveCoalesced
  BY <1>1, <1>6, ReadKeepsMixture
<1>7. CASE IngestStep
  <2>1. Ingest /\ socket' = socket /\ IInv
    BY <1>7 DEF IngestStep, network, TestInv
  <2>2. \E n \in 0 .. Len(Pending) : Pending' = From(Pending, n)
    BY <2>1, IngestShortens
  <2>3. run' <= Len(runs) => offset' \in CutsOf(runs[run'])
    BY <1>1 DEF MixtureInv, client
  <2> QED
    BY <1>1, <2>1, <2>2, <2>3, DroppingKeepsMixture DEF client
<1> QED
  BY <1>1, <1>3, <1>4, <1>5, <1>6, <1>7 DEF ServerStep

LEMMA TestInitEstablishesMixture ==
  ASSUME TestInit
  PROVE  MixtureInv
<1>1. /\ runs \in Tests /\ run = 1 /\ offset = 0 /\ socket = <<>>
      /\ buffer = <<>> /\ ~active /\ calls = <<>>
  BY DEF TestInit, ServerInit, Init, InitReassembly
<1>2. Pending = <<>>
  <2>1. <<>> \o <<>> = <<>>
    OBVIOUS
  <2> QED
    BY <1>1, <2>1, FlattenOfEmpty DEF Pending, Collected
<1>3. runs[1] \in RunOptions
  BY <1>1, RunsProperties
<1>4. 0 \in CutsOf(runs[1])
  <2>1. 0 = 0 * runs[1].mss /\ 0 \in 0 .. runs[1].batchSize - 1
    BY <1>3, PacketAssumption DEF RunOptions, kPacketHeaderSize
  <2> QED
    BY <2>1 DEF CutsOf
<1> DEFINE D == DatagramsOf(runs)
<1> HIDE DEF D
<1>5. <<>> \in Seq(D) /\ FlattenSeq(<<>>) = <<>> /\ 0 \in 0 .. Len(<<>>)
      /\ <<>> = From(<<>>, 0)
  BY FlattenOfEmpty DEF From
<1>6. EndOfRow(D, <<>>)
  BY <1>5 DEF EndOfRow
<1> QED
  BY <1>1, <1>2, <1>4, <1>5, <1>6 DEF MixtureInv, D

LEMMA TestNextKeepsMixture ==
  ASSUME TestInv, MixtureInv, [TestNext]_test_vars
  PROVE  MixtureInv'
<1>1. socket \in Seq(DatagramsOf(runs))
  BY DEF MixtureInv
<1>2. ASSUME UNCHANGED vars
      PROVE  Pending' = Pending
  BY <1>2 DEF Pending, Collected, vars, reassembly
<1>3. CASE SendDatagram
  <2>1. UNCHANGED vars /\ runs' = runs
    BY <1>3 DEF SendDatagram
  <2>2. Pending' = From(Pending, 0) /\ 0 \in 0 .. Len(Pending)
    <3>1. Pending \in Seq(Word) /\ Len(Pending) \in Nat
      BY PendingType, LenProperties DEF TestInv
    <3> QED
      BY <1>2, <2>1, <3>1, FromCuts
  <2> QED
    BY <1>3, <2>1, <2>2, SendsADatagram, DroppingKeepsMixture
<1>4. CASE ClientStops
  <2>1. /\ UNCHANGED <<vars, socket>> /\ runs' = runs
        /\ run' = run + 1 /\ offset' = 0
    BY <1>4 DEF ClientStops, server_vars, network
  <2>2. run' <= Len(runs) => 0 \in CutsOf(runs[run'])
    <3> SUFFICES ASSUME run' <= Len(runs)
                 PROVE  0 \in CutsOf(runs[run'])
      OBVIOUS
    <3>1. run' \in DOMAIN runs /\ runs \in Tests
      BY <2>1, RunsProperties DEF TestInv, TestTypeOK
    <3>2. runs[run'] \in RunOptions
      BY <3>1, RunsProperties
    <3>3. 0 = 0 * runs[run'].mss /\ 0 \in 0 .. runs[run'].batchSize - 1
      BY <3>2, PacketAssumption DEF RunOptions, kPacketHeaderSize
    <3> QED
      BY <3>3 DEF CutsOf
  <2>3. Pending' = From(Pending, 0) /\ 0 \in 0 .. Len(Pending)
    <3>1. Pending \in Seq(Word) /\ Len(Pending) \in Nat
      BY PendingType, LenProperties DEF TestInv
    <3> QED
      BY <1>2, <2>1, <3>1, FromCuts
  <2> QED
    BY <1>1, <2>1, <2>2, <2>3, DroppingKeepsMixture
<1>5. ASSUME NEW queue \in Seq(DatagramsOf(runs)), Fault(queue)
      PROVE  MixtureInv'
  BY <1>2, <1>5, QuietKeepsMixture DEF Fault
<1> DEFINE D == DatagramsOf(runs)
<1> HIDE DEF D
<1>6. socket \in Seq(D) /\ Len(socket) \in Nat
  BY <1>1, LenProperties DEF D
<1>7. CASE Lose
  <2>1. PICK k \in DOMAIN socket : Fault(SubSeq(socket, 1, k - 1) \o From(socket, k))
    BY <1>7 DEF Lose
  <2>2. SubSeq(socket, 1, k - 1) \o From(socket, k) \in Seq(D)
    BY <1>6 DEF From
  <2> QED
    BY <1>5, <2>1, <2>2 DEF D
<1>8. CASE Duplicate
  <2>1. PICK k \in DOMAIN socket : Fault(Append(socket, socket[k]))
    BY <1>8 DEF Duplicate
  <2>2. Append(socket, socket[k]) \in Seq(D)
    BY <1>6
  <2> QED
    BY <1>5, <2>1, <2>2 DEF D
<1>9. CASE Overtake
  <2>1. PICK k \in 1 .. Len(socket) - 1 :
          Fault([socket EXCEPT ![k] = socket[k + 1], ![k + 1] = socket[k]])
    BY <1>9 DEF Overtake
  <2>2. [socket EXCEPT ![k] = socket[k + 1], ![k + 1] = socket[k]] \in Seq(D)
    BY <1>6
  <2> QED
    BY <1>5, <2>1, <2>2 DEF D
<1>10. CASE ServerOrClock
  BY <1>10, ServerKeepsMixture
<1>11. CASE UNCHANGED test_vars
  <2>1. UNCHANGED <<vars, socket, client>>
    BY <1>11 DEF test_vars, server_vars, network
  <2> QED
    BY <1>1, <1>2, <2>1, QuietKeepsMixture
<1> QED
  BY <1>3, <1>4, <1>7, <1>8, <1>9, <1>10, <1>11 DEF TestNext

\* The front of the end of a row is a piece of it.
LEMMA FrontOfEnd ==
  ASSUME NEW D, D \subseteq Seq(Word), NEW words \in Seq(Word), EndOfRow(D, words),
         NEW n \in 0 .. Len(words)
  PROVE  PieceOfRow(D, SubSeq(words, 1, n))
<1>1. PICK row \in Seq(D) :
        \E m \in 0 .. Len(FlattenSeq(row)) : words = From(FlattenSeq(row), m)
  BY DEF EndOfRow
<1>2. PICK m \in 0 .. Len(FlattenSeq(row)) : words = From(FlattenSeq(row), m)
  BY <1>1
<1> DEFINE all == FlattenSeq(row)
<1>3. all \in Seq(Word) /\ Len(all) \in Nat
  <2>1. row \in Seq(Seq(Word))
    OBVIOUS
  <2> QED
    BY <2>1, FlattenType, LenProperties
<1>4. m \in 0 .. Len(all) /\ words = From(all, m)
  BY <1>2
<1> HIDE DEF all
<1>5. /\ Len(words) = Len(all) - m
      /\ \A i \in 1 .. Len(all) - m : words[i] = all[m + i]
  <2>1. m \in Nat /\ m <= Len(all)
    BY <1>3, <1>4
  <2> QED
    BY <1>3, <1>4, <2>1, FromElements
<1>6. m \in Nat /\ n \in Nat /\ m + n <= Len(all)
  BY <1>3, <1>4, <1>5
<1>7. SubSeq(words, 1, n) = SubSeq(all, m + 1, m + n)
  <2> DEFINE left == SubSeq(words, 1, n)
             right == SubSeq(all, m + 1, m + n)
  <2>1. left \in Seq(Word) /\ Len(left) = n /\ \A i \in 1 .. n : left[i] = words[i]
    BY <1>6
  <2>2. right \in Seq(Word) /\ Len(right) = n /\ \A i \in 1 .. n : right[i] = all[m + i]
    BY <1>3, <1>6
  <2>3. \A i \in 1 .. n : i \in 1 .. Len(all) - m
    BY <1>3, <1>6
  <2> HIDE DEF left, right
  <2>4. \A i \in 1 .. n : left[i] = right[i]
    BY <1>5, <2>1, <2>2, <2>3
  <2> QED
    BY <2>1, <2>2, <2>4, SeqEqual
<1> QED
  BY <1>6, <1>7 DEF PieceOfRow, all

\* A batch that is counted is a piece of a row.
LEMMA CountedIsPiece ==
  ASSUME TestInv, MixtureInv, CountBatch
  PROVE  /\ PieceOfRow(DatagramsOf(runs), Assembled) /\ ValidBatch(Assembled)
         /\ Assembled \in Seq(Word)
<1>1. /\ Collecting /\ Len(unread) >= space /\ ValidBatch(Assembled) /\ IInv
      /\ runs \in Tests
  BY DEF CountBatch, BatchAccepted, TestInv, TestTypeOK
<1>2. /\ Received!Front = Assembled /\ peek_batch_length(Pending) = Len(Assembled)
      /\ Len(Assembled) \in Nat /\ Len(Assembled) <= Len(Pending)
  BY <1>1, AssembledInStream
<1>3. Pending \in Seq(Word)
  BY <1>1, PendingType
<1> DEFINE n == Len(Assembled)
           D == DatagramsOf(runs)
<1>4. n \in 0 .. Len(Pending) /\ Assembled = SubSeq(Pending, 1, n)
  BY <1>2, <1>3 DEF Received!Front
<1>5. D \subseteq Seq(Word) /\ EndOfRow(D, Pending)
  BY <1>1, DatagramsAreWords DEF MixtureInv
<1> HIDE DEF n, D
<1>6. PieceOfRow(D, SubSeq(Pending, 1, n)) /\ SubSeq(Pending, 1, n) \in Seq(Word)
  BY <1>3, <1>4, <1>5, FrontOfEnd
<1> QED
  BY <1>1, <1>4, <1>6 DEF D

\* The history of what is counted, step by step.
LEMMA CountedStep ==
  ASSUME TestInv, [TestNext]_test_vars
  PROVE  /\ runs' = runs
         /\ \/ accepted' = accepted \/ accepted' = <<>>
            \/ CountBatch /\ accepted' = Append(accepted, Assembled)
<1>1. runs' = runs
  BY DEF TestNext, SendDatagram, ClientStops, Lose, Duplicate, Overtake, Fault,
         ServerOrClock, client, test_vars
<1>2. CASE SendDatagram \/ ClientStops \/ Lose \/ Duplicate \/ Overtake
           \/ UNCHANGED test_vars
  BY <1>1, <1>2 DEF SendDatagram, ClientStops, Lose, Duplicate, Overtake, Fault,
              test_vars, server_vars, vars, history
<1>3. CASE ServerOrClock
  <2>1. CASE IngestStep
    BY <1>1, <2>1 DEF IngestStep, Ingest, RetainTail, SplitHeader, RejectHeader,
                AcceptHeader, CopyFragment, CountBatch, DropBatch, SalvageTail,
                history
  <2>2. CASE ~IngestStep
    BY <1>1, <1>3, <2>2 DEF ServerOrClock, ServerStep, Start, LoopEnds, LoopTurns,
         Readable, PollTimesOut, PollFails, ReceiveOne, ReceiveCoalesced, ReceiveEmpty,
         ReceiveTimesOut, ReceiveFails, IngestDone, NextSession, DeadlinePasses,
         EndSession, ReceiveDatagram, vars, history
  <2> QED
    BY <2>1, <2>2
<1> QED
  BY <1>2, <1>3 DEF TestNext

LEMMA TestNextCountsPieces ==
  ASSUME TestInv, MixtureInv, CountedInOnePiece, [TestNext]_test_vars
  PROVE  CountedInOnePiece'
<1> DEFINE D == DatagramsOf(runs)
<1>1. D' = D
  BY CountedStep DEF DatagramsOf, BatchOf
<1>2. \A i \in DOMAIN accepted : PieceOfRow(D, accepted[i]) /\ ValidBatch(accepted[i])
  BY DEF CountedInOnePiece
<1>3. CountBatch => PieceOfRow(D, Assembled) /\ ValidBatch(Assembled)
  BY CountedIsPiece
<1> HIDE DEF D
<1>4. accepted \in Seq(Seq(Word)) /\ Len(accepted) \in Nat
  BY LenProperties DEF TestInv, IInv, TypeOK
<1>5. \A i \in DOMAIN accepted' : PieceOfRow(D, accepted'[i]) /\ ValidBatch(accepted'[i])
  <2>1. CASE accepted' = accepted \/ accepted' = <<>>
    BY <1>2, <2>1
  <2>2. CASE CountBatch /\ accepted' = Append(accepted, Assembled)
    <3> TAKE i \in DOMAIN accepted'
    <3>1. i \in 1 .. Len(accepted) + 1
      BY <1>4, <2>2
    <3>2. accepted'[i] = IF i <= Len(accepted) THEN accepted[i] ELSE Assembled
      BY <1>4, <2>2, <3>1
    <3>3. i <= Len(accepted) => i \in DOMAIN accepted
      BY <1>4, <3>1
    <3> QED
      BY <1>2, <1>3, <2>2, <3>2, <3>3
  <2> QED
    BY <2>1, <2>2, CountedStep
<1> QED
  BY <1>1, <1>5 DEF CountedInOnePiece, D, PieceOfRow, ValidBatch, PacketHeader, header_meta_plausible, batch_crc32

\* Every word of a row is a word of a batch of the test.
LEMMA WordsOfRow ==
  ASSUME runs \in Tests, NEW row \in Seq(DatagramsOf(runs)),
         NEW p \in 1 .. Len(FlattenSeq(row))
  PROVE  \E r \in DOMAIN runs : \E i \in 0 .. runs[r].batchCount - 1 :
           \E k \in DOMAIN ClientBatch(r, i) :
             FlattenSeq(row)[p] = ClientBatch(r, i)[k]
<1> DEFINE W == {w \in Word : \E r \in DOMAIN runs :
                   \E i \in 0 .. runs[r].batchCount - 1 :
                     \E k \in DOMAIN ClientBatch(r, i) : w = ClientBatch(r, i)[k]}
           D == DatagramsOf(runs)
<1>1. ASSUME NEW r \in DOMAIN runs, NEW i \in 0 .. runs[r].batchCount - 1,
             NEW c \in CutsOf(runs[r])
      PROVE  CutAt(runs[r], BatchOf(runs, r, i), c) \in Seq(W)
  <2> DEFINE batch == BatchOf(runs, r, i)
             size == runs[r].batchSize
             last == c + (IF runs[r].mss = 0 \/ size - c < runs[r].mss
                          THEN size - c ELSE runs[r].mss)
  <2>1. /\ batch \in Seq(Word) /\ Len(batch) = size /\ batch = ClientBatch(r, i)
    BY ClientBatchType DEF BatchOf, ClientBatch
  <2>2. runs[r] \in RunOptions
    BY RunsProperties
  <2>3. size \in Nat /\ runs[r].mss \in Nat /\ c \in Nat /\ c < size
    BY <2>2, PacketAssumption DEF RunOptions, kPacketHeaderSize, CutsOf
  <2>4. last \in Nat /\ last <= size
    BY <2>3
  <2> HIDE DEF batch, last
  <2>5. \A j \in c + 1 .. last : j \in DOMAIN batch /\ batch[j] \in Word
    BY <2>1, <2>3, <2>4, ElementOfSeq
  <2>6. \A j \in c + 1 .. last : batch[j] \in W
    BY <2>1, <2>5
  <2> HIDE DEF W, size
  <2>7. SubSeq(batch, c + 1, last) \in Seq(W)
    BY <2>3, <2>4, <2>6, SubSeqProperties
  <2> QED
    BY <2>7 DEF CutAt, batch, last, size
<1> HIDE DEF W
<1>2. D \subseteq Seq(W)
  BY <1>1 DEF DatagramsOf
<1> HIDE DEF D
<1>3. row \in Seq(Seq(W))
  BY <1>2 DEF D
<1>4. FlattenSeq(row) \in Seq(W)
  BY <1>3, FlattenType
<1>5. FlattenSeq(row)[p] \in W
  BY <1>4, ElementOfSeq
<1> QED
  BY <1>5 DEF W

\* A piece of a row that passes validate_batch is a batch of the test.
LEMMA ValidPieceIsSent ==
  ASSUME NoCollision, runs \in Tests, NEW piece \in Seq(Word),
         PieceOfRow(DatagramsOf(runs), piece), ValidBatch(piece)
  PROVE  piece \in SentBatches
<1>1. PICK row \in Seq(DatagramsOf(runs)) : \E m, n \in Nat :
        /\ m + n <= Len(FlattenSeq(row))
        /\ piece = SubSeq(FlattenSeq(row), m + 1, m + n)
  BY DEF PieceOfRow
<1>2. PICK m, n \in Nat :
        /\ m + n <= Len(FlattenSeq(row))
        /\ piece = SubSeq(FlattenSeq(row), m + 1, m + n)
  BY <1>1
<1>3. FlattenSeq(row) \in Seq(Word)
  <2>1. Seq(DatagramsOf(runs)) \subseteq Seq(Seq(Word))
    BY DatagramsAreWords
  <2>2. row \in Seq(Seq(Word))
    BY <2>1
  <2> QED
    BY <2>2, FlattenType
<1>4. /\ Len(piece) >= kPacketHeaderSize /\ Len(piece) \in Nat
      /\ peek_batch_length(piece) = Len(piece)
      /\ piece[5] = batch_crc32(piece)
  <2>1. /\ Len(piece) >= kPacketHeaderSize /\ PacketHeader(piece).length = Len(piece)
        /\ header_meta_plausible(PacketHeader(piece))
        /\ PacketHeader(piece).crc32 = batch_crc32(piece)
    BY DEF ValidBatch
  <2>2. PacketHeader(piece).crc32 = piece[5]
    BY DEF PacketHeader
  <2>3. peek_batch_length(piece) = Len(piece)
    BY DEF ValidBatch, peek_batch_length
  <2> QED
    BY <2>1, <2>2, <2>3, LenProperties
<1>5. m + 5 \in 1 .. Len(FlattenSeq(row)) /\ piece[5] = FlattenSeq(row)[m + 5]
  <2> DEFINE all == FlattenSeq(row)
  <2>1. all \in Seq(Word) /\ Len(all) \in Nat /\ m + n <= Len(all)
        /\ piece = SubSeq(all, m + 1, m + n)
    BY <1>2, <1>3, LenProperties
  <2> HIDE DEF all
  <2>2. Len(piece) = n /\ \A j \in 1 .. n : piece[j] = all[m + j]
    BY <2>1
  <2>3. n >= 5
    BY <1>4, <2>2 DEF kPacketHeaderSize
  <2> QED
    BY <2>1, <2>2, <2>3 DEF all
<1>6. PICK r \in DOMAIN runs : \E i \in 0 .. runs[r].batchCount - 1 :
        \E k \in DOMAIN ClientBatch(r, i) : piece[5] = ClientBatch(r, i)[k]
  BY <1>5, WordsOfRow
<1>7. PICK i \in 0 .. runs[r].batchCount - 1 :
        \E k \in DOMAIN ClientBatch(r, i) : piece[5] = ClientBatch(r, i)[k]
  BY <1>6
<1> DEFINE batch == ClientBatch(r, i)
<1>8. PICK k \in DOMAIN batch : piece[5] = batch[k]
  BY <1>7
<1>9. batch \in BatchesOf(runs) /\ batch \in SentBatches
  BY DEF BatchesOf, BatchOf, SentBatches, ClientBatch
<1>10. batch \in Seq(Word) /\ batch[5] = batch_crc32(batch) /\ Len(batch) \in Nat
  <2> DEFINE total == runs[r].batchCount % Uint32Values
             seq == i % Uint32Values
             payload == Payload(r, i, runs[r].batchSize - kPacketHeaderSize)
  <2>1. batch = build_batch(seq, total, payload) /\ batch \in Seq(Word)
    BY ClientBatchType DEF ClientBatch
  <2>2. seq \in Nat /\ total \in Nat /\ payload \in Seq(Word)
    <3>1. runs[r] \in RunOptions
      BY RunsProperties
    <3>2. runs[r].batchCount \in Nat /\ i \in Nat
      BY <3>1 DEF RunOptions
    <3> QED
      BY <3>2, PayloadAssumption, ServerAssumption
  <2> HIDE DEF batch, total, seq, payload
  <2>3. PacketHeader(batch).crc32 = batch_crc32(batch)
    BY <2>1, <2>2, BuiltHeader
  <2> QED
    BY <2>1, <2>3, LenProperties DEF PacketHeader
<1>11. /\ batch_crc32(piece) = batch_crc32(batch)
            => [piece EXCEPT ![5] = 0] = [batch EXCEPT ![5] = 0]
       /\ \A j \in DOMAIN batch \ {5} : batch_crc32(piece) # batch[j]
  BY <1>4, <1>9 DEF NoCollision
<1> HIDE DEF batch
<1>12. k = 5
  BY <1>4, <1>8, <1>11
<1>13. piece[5] = batch[5] /\ [piece EXCEPT ![5] = 0] = [batch EXCEPT ![5] = 0]
  BY <1>4, <1>8, <1>10, <1>11, <1>12
<1>14. piece = batch
  <2>1. DOMAIN [piece EXCEPT ![5] = 0] = DOMAIN piece
        /\ DOMAIN [batch EXCEPT ![5] = 0] = DOMAIN batch
    OBVIOUS
  <2>2. DOMAIN piece = DOMAIN batch
    BY <1>13, <2>1
  <2>3. \A j \in DOMAIN piece \ {5} :
          /\ [piece EXCEPT ![5] = 0][j] = piece[j]
          /\ [batch EXCEPT ![5] = 0][j] = batch[j]
    BY <2>2
  <2>4. \A j \in DOMAIN piece : piece[j] = batch[j]
    BY <1>13, <2>3
  <2>5. Len(piece) = Len(batch) /\ \A j \in 1 .. Len(piece) : piece[j] = batch[j]
    BY <1>4, <1>10, <2>2, <2>4, LenProperties
  <2> QED
    BY <1>10, <2>5, SeqEqual
<1> QED
  BY <1>9, <1>14

LEMMA PiecesAreSent ==
  ASSUME NoCollision, TestInv, CountedInOnePiece
  PROVE  OnlySentBatches
<1>1. accepted \in Seq(Seq(Word)) /\ runs \in Tests
  BY DEF TestInv, TestTypeOK, IInv, TypeOK
<1>2. \A i \in DOMAIN accepted : accepted[i] \in SentBatches
  BY <1>1, ElementOfSeq, ValidPieceIsSent DEF CountedInOnePiece
<1> QED
  BY <1>2 DEF OnlySentBatches

\* Whatever the network and the clients do, what the server counts is one piece
\* of a row of datagrams as they were sent, each joined to the next, that passes
\* validate_batch: resynchronisation and salvage put no batch together from
\* parts that were not next to each other, and no word is altered
\* (packet.hpp:109-136, server.cpp:249-359, 438-550).
THEOREM CountedAsSent == TestSpec => []CountedInOnePiece
<1>1. TestInit => MixtureInv /\ CountedInOnePiece
  <2>1. TestInit => MixtureInv
    BY TestInitEstablishesMixture
  <2>2. TestInit => accepted = <<>>
    BY DEF TestInit, ServerInit, Init
  <2>3. accepted = <<>> => CountedInOnePiece
    BY DEF CountedInOnePiece
  <2> QED
    BY <2>1, <2>2, <2>3
<1>2. TestInv /\ MixtureInv /\ [TestNext]_test_vars => MixtureInv'
  BY TestNextKeepsMixture
<1>3. TestInv /\ MixtureInv /\ CountedInOnePiece /\ [TestNext]_test_vars
        => CountedInOnePiece'
  BY TestNextCountsPieces
<1> QED
  BY <1>1, <1>2, <1>3, TestInvariance, PTL DEF TestSpec

\* The receiver never counts a batch nobody sent, when the checksums of the test's
\* batches collide with none of a mixture of their datagrams
\* (packet.hpp:109-136, server.cpp:278-341).
THEOREM NothingMadeUp ==
  ASSUME NoCollision
  PROVE  TestSpec => []OnlySentBatches
<1>1. TestInv /\ CountedInOnePiece => OnlySentBatches
  BY PiecesAreSent
<1> QED
  BY <1>1, CountedAsSent, TestInvariance, PTL

=============================================================================
