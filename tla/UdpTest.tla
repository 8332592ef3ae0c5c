------------------------------ MODULE UdpTest ------------------------------
(***************************************************************************)
(* The whole test: clients that send their batches one run after the other *)
(* (client.cpp), a network that may lose, duplicate and reorder datagrams, *)
(* and the server.                                                         *)
(*                                                                         *)
(* The network and the server's receive buffer are one queue, socket: a    *)
(* datagram still under way is one its client has not sent yet.            *)
(***************************************************************************)
EXTENDS Server

CONSTANTS
  Tests,          \* sequences of client runs to try, each run's ClientOptions
  Payload(_,_,_), \* random payload: of run, batch number and length
  MaxFaults       \* bound: datagrams lost, duplicated or overtaken

ASSUME UdpTestAssumption ==
  /\ Tests \subseteq Seq([batchCount : Nat \ {0},
                          batchSize : kPacketHeaderSize .. kMaxBatchSize,
                          mss : 0 .. kMaxBatchSize])
  /\ <<>> \notin Tests
  /\ MaxFaults \in Nat

\* A payload is as long as asked for; it and its checksum are words.
ASSUME PayloadAssumption ==
  \A test \in Tests : \A r \in DOMAIN test : \A i \in 0 .. test[r].batchCount - 1 :
    LET size    == test[r].batchSize - kPacketHeaderSize
        payload == Payload(r, i, size)
    IN  /\ payload \in Seq(Word) /\ Len(payload) = size
        /\ build_batch(i % Uint32Values, test[r].batchCount % Uint32Values,
                       payload) \in Seq(Word)

VARIABLES
  runs,      \* the runs of this test
  run,       \* the client run under way, Len(runs) + 1 after the last
  batch_no,  \* run_client's i
  offset,    \* send_batch_fallback's offset
  faults,    \* history: what the network did
  killed     \* history: a run ended before it had sent everything

client == <<runs, run, batch_no, offset>>
test_vars == <<server_vars, client, faults, killed>>

TestInit ==
  /\ ServerInit
  /\ runs \in Tests
  /\ run = 1 /\ batch_no = 0 /\ offset = 0
  /\ faults = 0 /\ killed = FALSE

-----------------------------------------------------------------------------
ClientBatch(r, i) ==
  build_batch(i % Uint32Values, runs[r].batchCount % Uint32Values,
              Payload(r, i, runs[r].batchSize - kPacketHeaderSize))

\* What one send_to takes of the batch: all of it when mss is 0.
Chunk ==
  LET left == runs[run].batchSize - offset
  IN  IF runs[run].mss = 0 \/ left < runs[run].mss THEN left ELSE runs[run].mss

LastChunk == offset + Chunk = runs[run].batchSize

\* Mutant: the next batch starts where the last one ended.
AdvanceClientKeepingOffset ==
  /\ offset' = offset + Chunk
  /\ batch_no' = IF ~LastChunk THEN batch_no
                 ELSE IF batch_no + 1 < runs[run].batchCount THEN batch_no + 1
                 ELSE 0
  /\ run' = IF LastChunk /\ batch_no + 1 = runs[run].batchCount
            THEN run + 1 ELSE run

\* The position in the run after one send_to.
AdvanceClient ==
  /\ offset' = IF LastChunk THEN 0 ELSE offset + Chunk
  /\ batch_no' = IF ~LastChunk THEN batch_no
                 ELSE IF batch_no + 1 < runs[run].batchCount THEN batch_no + 1
                 ELSE 0
  /\ run' = IF LastChunk /\ batch_no + 1 = runs[run].batchCount
            THEN run + 1 ELSE run

\* The server is there before the clients are started.
SendDatagram ==
  /\ pc # "start"
  /\ run <= Len(runs)
  /\ SeqFits(batch_no % Uint32Values, runs[run].batchCount % Uint32Values)
  /\ socket' = Append(socket, SubSeq(ClientBatch(run, batch_no),
                                     offset + 1, offset + Chunk))
  /\ arrived' = arrived + 1
  /\ AdvanceClient
  /\ UNCHANGED <<vars, control, runs, faults, killed>>

\* build_batch throws, a send fails, or the client is stopped: the rest of its run is never sent.
ClientStops ==
  /\ run <= Len(runs)
  /\ run' = run + 1 /\ batch_no' = 0 /\ offset' = 0
  /\ killed' = TRUE
  /\ UNCHANGED <<server_vars, runs, faults>>

-----------------------------------------------------------------------------
\* The network

Fault(queue) ==
  /\ faults < MaxFaults
  /\ faults' = faults + 1
  /\ socket' = queue
  /\ UNCHANGED <<vars, control, arrived, client, killed>>

\* Lost on the way, or dropped at a full receive buffer.
Lose ==
  \E k \in DOMAIN socket :
    Fault(SubSeq(socket, 1, k - 1) \o From(socket, k))

Duplicate ==
  \E k \in DOMAIN socket : Fault(Append(socket, socket[k]))

Overtake ==
  \E k \in 1 .. Len(socket) - 1 :
    Fault([socket EXCEPT ![k] = socket[k + 1], ![k + 1] = socket[k]])

-----------------------------------------------------------------------------
ServerOrClock ==
  /\ ServerStep \/ PollFails \/ ReceiveFails \/ DeadlinePasses
  /\ UNCHANGED <<client, faults, killed>>

TestNext ==
  \/ SendDatagram \/ ClientStops
  \/ Lose \/ Duplicate \/ Overtake
  \/ ServerOrClock

TestSpec == TestInit /\ [][TestNext]_test_vars

-----------------------------------------------------------------------------
(***************************************************************************)
(* Properties                                                              *)
(***************************************************************************)

\* The types of the clients' state; a run under way has something to send.
TestTypeOK ==
  /\ runs \in Tests
  /\ run \in 1 .. Len(runs) + 1
  /\ run <= Len(runs) => /\ batch_no \in 0 .. runs[run].batchCount - 1
                         /\ offset \in 0 .. runs[run].batchSize - 1
  /\ faults \in 0 .. MaxFaults
  /\ killed \in BOOLEAN

SentBatches ==
  UNION {{ClientBatch(r, i) : i \in 0 .. runs[r].batchCount - 1} :
           r \in DOMAIN runs}

\* The first session, before anything of it was left unread or cut off
FirstSession == InSession /\ session = 0

\* Everything sent has been ingested.
Drained ==
  /\ run > Len(runs)
  /\ socket = <<>> /\ calls = <<>>

\* The receiver never counts a batch nobody sent: no mixture of segments of
\* several batches passes, however they were lost, repeated or reordered
\* (packet.hpp:109-136, server.cpp:278-341).
OnlySentBatches ==
  \A i \in DOMAIN accepted : accepted[i] \in SentBatches

\* On a network that keeps its datagrams in order, what the server counts is
\* what the clients sent, batch by batch, with nothing bad in between, when
\* all the runs of the session have the same --count; and once everything is
\* ingested nothing is missing (README.md:179).
InOrderDelivery ==
  LET count == runs[1].batchCount
  IN  /\ FirstSession /\ faults = 0 /\ ~killed
      /\ \A r \in DOMAIN runs : runs[r].batchCount = count
      => /\ bad_batches = 0
         /\ accepted = [k \in 1 .. batches |->
                          ClientBatch((k - 1) \div count + 1, (k - 1) % count)]
         /\ Drained => batches = count * Len(runs)

\* README.md:116: "`mss` matches sender `--mss`, not the first post-header
\* slice".  For a batch of at least two whole segments that is so unless the
\* rest is as long as the first slice: whatever was lost, repeated or overtaken
\* before it and wherever the receiver found its header, when all runs have the
\* same --size; with several sizes as long as nothing was disturbed, for a
\* batch found inside the remains of a longer one is ingested in one piece
\* (server.cpp:153-178, 295-331, 536-544).
BatchComplete ==
  Collecting /\ Len(unread) >= space /\ BatchAccepted(Assembled)

PrintedMss == infer_detected_mss(Append(fragment_sizes, space))

BatchOfRun(r) ==
  \E i \in 0 .. runs[r].batchCount - 1 : Assembled = ClientBatch(r, i)

WholeSegments(r) ==
  runs[r].mss > kPacketHeaderSize /\ runs[r].batchSize >= 2 * runs[r].mss

RestLikeFirstSlice(r) ==
  runs[r].batchSize = 3 * runs[r].mss - kPacketHeaderSize

OneSize ==
  \A r \in DOMAIN runs : runs[r].batchSize = runs[1].batchSize

Undisturbed == FirstSession /\ faults = 0 /\ ~killed

MssAsSent ==
  ~options.uro /\ BatchComplete
  => \A r \in DOMAIN runs :
       BatchOfRun(r) /\ WholeSegments(r) /\ ~RestLikeFirstSlice(r)
       => PrintedMss = runs[r].mss

MssMatchesSender == Undisturbed \/ OneSize => MssAsSent

\* The same without the exceptions, as the README has it.
MssNeverFirstSlice ==
  ~options.uro /\ BatchComplete
  => \A r \in DOMAIN runs :
       BatchOfRun(r) /\ WholeSegments(r) => PrintedMss = runs[r].mss

\* One fault of the network costs at most two batches: the one it hits, and
\* the one whose first segment completes it (server.cpp:249-359, 536-549).
Missing == (0 .. runs[1].batchCount - 1) \ seen_seq

DamageIsBounded ==
  FirstSession /\ ~killed /\ Len(runs) = 1
  => /\ bad_batches <= 2 * faults
     /\ duplicates <= faults
     /\ out_of_order <= faults
     /\ Drained => Cardinality(Missing) <= 2 * faults

=============================================================================
