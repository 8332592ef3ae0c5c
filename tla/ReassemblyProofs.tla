-------------------------- MODULE ReassemblyProofs --------------------------
(***************************************************************************)
(* What holds of the reassembly for every magic number, batch size limit,  *)
(* checksum function and traffic.                                          *)
(***************************************************************************)
EXTENDS Reassembly, FoldLemmas

-----------------------------------------------------------------------------
(***************************************************************************)
(* Lemmas about the packet operators                                       *)
(***************************************************************************)

\* What From returns.
LEMMA FromProperties ==
  ASSUME NEW data \in Seq(Word), NEW i \in Nat
  PROVE  /\ From(data, i) \in Seq(Word)
         /\ Len(From(data, i)) = IF i <= Len(data) THEN Len(data) - i ELSE 0
<1>1. Len(data) \in Nat
  BY LenProperties
<1>2. \A k \in i + 1 .. Len(data) : data[k] \in Word
  BY <1>1, ElementOfSeq
<1> QED
  BY <1>1, <1>2, SubSeqProperties DEF From

\* The scan for a header returns an offset into the data, or its length.
LEMMA FindHeaderProperties ==
  ASSUME NEW data \in Seq(Word)
  PROVE  find_batch_header_offset(data) \in 0 .. Len(data)
<1> DEFINE offsets == {i \in 0 .. Len(data) - kPacketHeaderSize :
                         PlausibleAt(data, i)}
<1>1. Len(data) \in Nat
  BY LenProperties
<1>2. offsets \in SUBSET (0 .. Len(data))
  BY <1>1 DEF kPacketHeaderSize
<1>3. offsets # {} => Min(offsets) \in 0 .. Len(data)
  BY <1>1, <1>2, MinOfNaturals
<1> QED
  BY <1>1, <1>3 DEF find_batch_header_offset, FirstOffset

-----------------------------------------------------------------------------
(***************************************************************************)
(* Lemmas about the turn of ingest_fragment's loop, under the invariant    *)
(***************************************************************************)

\* The inductive invariant.  The types depend on the consistency of the
\* buffer (the words a header still lacks, the space left in a batch are
\* naturals because of it), so that the two are proved together.
IInv == TypeOK /\ ReassemblyConsistent

\* The innermost call has data of words, the calls below it too.
LEMMA CallProperties ==
  ASSUME TypeOK, calls # <<>>
  PROVE  /\ unread \in Seq(Word)
         /\ Len(unread) \in Nat
         /\ Tail(calls) \in Seq(Seq(Word))
<1>1. calls \in Seq(Seq(Word))
  BY DEF TypeOK
<1>2. Head(calls) \in Seq(Word) /\ Tail(calls) \in Seq(Seq(Word))
  BY <1>1, HeadTailProperties
<1> QED
  BY <1>2, LenProperties DEF unread

\* Looping on, or returning, leaves a stack of calls.
LEMMA ContinueType ==
  ASSUME TypeOK, calls # <<>>, NEW rest \in Seq(Word)
  PROVE  Continue(rest) \in Seq(Seq(Word))
<1>1. Tail(calls) \in Seq(Seq(Word))
  BY CallProperties
<1>2. (IF rest = <<>> THEN <<>> ELSE <<rest>>) \in Seq(Seq(Word))
  OBVIOUS
<1> QED
  BY <1>1, <1>2, ConcatProperties DEF Continue

\* While a header is collected, it lacks one word at least.
LEMMA ScanProperties ==
  ASSUME IInv, Scanning
  PROVE  /\ Skipped \in 0 .. Len(unread)
         /\ Len(buffer) \in 0 .. 4
         /\ Lacking \in 1 .. 5
         /\ Lacking = 5 - Len(buffer)
<1>1. unread \in Seq(Word) /\ Len(unread) \in Nat
  BY CallProperties DEF IInv, Scanning
<1>2. buffer \in Seq(Word) /\ Len(buffer) \in Nat /\ Len(buffer) < 5
  BY LenProperties DEF IInv, TypeOK, ReassemblyConsistent, Scanning,
                       kPacketHeaderSize
<1>3. Skipped \in 0 .. Len(unread)
  BY <1>1, FindHeaderProperties DEF Skipped
<1>4. Lacking = 5 - Len(buffer)
  BY DEF Lacking, kPacketHeaderSize
<1>5. \A n \in Nat : n < 5 => n \in 0 .. 4 /\ 5 - n \in 1 .. 5
  OBVIOUS
<1>6. Len(buffer) \in 0 .. 4 /\ Lacking \in 1 .. 5
  BY <1>2, <1>4, <1>5
<1> QED
  BY <1>3, <1>4, <1>6

\* The words collected are one header.
LEMMA CandidateProperties ==
  ASSUME IInv, Scanning, HeaderInReach
  PROVE  /\ Candidate \in Seq(Word)
         /\ Len(Candidate) = kPacketHeaderSize
<1> DEFINE part == SubSeq(unread, Skipped + 1, Skipped + Lacking)
<1>1. unread \in Seq(Word) /\ Len(unread) \in Nat
  BY CallProperties DEF IInv, Scanning
<1>2. /\ Skipped \in Nat /\ Lacking \in 1 .. 5
      /\ Lacking = 5 - Len(buffer) /\ Len(buffer) \in 0 .. 4
      /\ Skipped + Lacking <= Len(unread)
  BY <1>1, ScanProperties DEF HeaderInReach
<1>3. \A k \in Skipped + 1 .. Skipped + Lacking : unread[k] \in Word
  BY <1>1, <1>2, ElementOfSeq
<1>4. part \in Seq(Word) /\ Len(part) = Lacking
  BY <1>2, <1>3, SubSeqProperties
<1>5. buffer \in Seq(Word)
  BY DEF IInv, TypeOK
<1>6. buffer \o part \in Seq(Word) /\ Len(buffer \o part) = Len(buffer) + Len(part)
  BY <1>4, <1>5, ConcatProperties
<1> QED
  BY <1>2, <1>4, <1>6 DEF Candidate, kPacketHeaderSize

\* A header that is peeked at announces a plausible length.
LEMMA PeekProperties ==
  ASSUME NEW data \in Seq(Word), peek_batch_length(data) # 0
  PROVE  /\ Len(data) >= kPacketHeaderSize
         /\ PacketHeader(data).magic = kPacketMagic
         /\ PacketHeader(data).length = peek_batch_length(data)
         /\ peek_batch_length(data) \in kPacketHeaderSize .. kMaxBatchSize
         /\ PacketHeader(data).batch_total \in Nat \ {0}
         /\ PacketHeader(data).seq < PacketHeader(data).batch_total
<1>1. Len(data) >= 5
  BY DEF peek_batch_length, kPacketHeaderSize
<1>2. data[3] \in Nat
  BY <1>1, ElementOfSeq, LenProperties DEF Word
<1>3. PacketHeader(data).batch_total = data[3]
  BY DEF PacketHeader
<1> QED
  BY <1>1, <1>2, <1>3 DEF peek_batch_length, header_meta_plausible,
                          kMaxPacketLength, kPacketHeaderSize

\* memcpy into the open batch keeps its length and its header.
LEMMA CopiedProperties ==
  ASSUME IInv, Collecting,
         NEW take \in Nat, take <= Len(unread), take <= space
  PROVE  /\ Copied(take) \in Seq(Word)
         /\ Len(Copied(take)) = Len(buffer)
         /\ PacketHeader(Copied(take)) = PacketHeader(buffer)
<1>1. unread \in Seq(Word) /\ Len(unread) \in Nat
  BY CallProperties DEF IInv, Collecting
<1>2. /\ buffer \in Seq(Word) /\ Len(buffer) \in Nat
      /\ filled \in Nat /\ expected \in Nat
      /\ 5 <= filled /\ filled <= expected /\ expected = Len(buffer)
  BY LenProperties DEF IInv, TypeOK, ReassemblyConsistent, Collecting,
                       kPacketHeaderSize
<1>3. ASSUME NEW i \in 1 .. Len(buffer)
      PROVE  (IF i \in filled + 1 .. filled + take THEN unread[i - filled]
                                                   ELSE buffer[i]) \in Word
  <2>1. buffer[i] \in Word
    BY <1>2, ElementOfSeq
  <2>2. i \in filled + 1 .. filled + take => i - filled \in 1 .. Len(unread)
    BY <1>1, <1>2
  <2>3. i \in filled + 1 .. filled + take => unread[i - filled] \in Word
    BY <1>1, <2>2, ElementOfSeq
  <2> QED
    BY <2>1, <2>3
<1>4. Copied(take) \in [1 .. Len(buffer) -> Word]
  BY <1>3 DEF Copied
<1>5. Copied(take) \in Seq(Word) /\ Len(Copied(take)) = Len(buffer)
  BY <1>2, <1>4
<1>6. \A i \in 1 .. 5 : Copied(take)[i] = buffer[i]
  BY <1>2 DEF Copied
<1> QED
  BY <1>5, <1>6 DEF PacketHeader

\* What From leaves of the datagram read, as data of the loop's next turn.
LEMMA RestType ==
  ASSUME TypeOK, calls # <<>>, NEW i \in Nat
  PROVE  Continue(From(unread, i)) \in Seq(Seq(Word))
<1>1. From(unread, i) \in Seq(Word)
  BY CallProperties, FromProperties
<1> QED
  BY <1>1, ContinueType

\* A complete batch has the words of one, and the header it was opened with.
LEMMA AssembledProperties ==
  ASSUME IInv, Collecting, Len(unread) >= space
  PROVE  /\ Assembled \in Seq(Word)
         /\ Len(Assembled) = Len(buffer)
         /\ PacketHeader(Assembled) = PacketHeader(buffer)
         /\ space \in Nat
<1>1. space \in Nat
  BY DEF IInv, TypeOK, ReassemblyConsistent, Collecting, space
<1>2. space <= Len(unread) /\ space <= space
  BY <1>1, CallProperties DEF IInv, Collecting
<1> QED
  BY <1>1, <1>2, CopiedProperties DEF Assembled

\* The header of a batch that is open is a sequence number and the session's
\* batch_total.
LEMMA OpenHeaderProperties ==
  ASSUME IInv, Collecting
  PROVE  /\ PacketHeader(buffer).seq \in Nat
         /\ PacketHeader(buffer).seq < wire_batch_total
<1>1. buffer \in Seq(Word) /\ Len(buffer) \in Nat /\ Len(buffer) >= 5
  BY LenProperties DEF IInv, TypeOK, ReassemblyConsistent, Collecting,
                       kPacketHeaderSize
<1>2. buffer[2] \in Nat
  BY <1>1, ElementOfSeq DEF Word
<1> QED
  BY <1>2 DEF PacketHeader, IInv, ReassemblyConsistent, Collecting

-----------------------------------------------------------------------------
(***************************************************************************)
(* The invariant                                                           *)
(***************************************************************************)

\* A server that has just started satisfies the invariant.
LEMMA InitEstablishesIInv == Init => IInv
<1> SUFFICES ASSUME Init PROVE IInv
  OBVIOUS
<1>1. <<>> \in Seq(Word) /\ <<>> \in Seq(Nat) /\ <<>> \in Seq(Seq(Word))
      /\ Len(<<>>) = 0
  BY EmptySeq
<1>2. TypeOK
  BY <1>1 DEF Init, InitStats, InitReassembly, TypeOK, NoTotal
<1>3. ReassemblyConsistent
  BY <1>1 DEF Init, InitReassembly, ReassemblyConsistent, kPacketHeaderSize
<1> QED
  BY <1>2, <1>3 DEF IInv

\* Between two reads of the socket, whatever words a read returns.
LEMMA ReceiveDatagramPreservesIInv ==
  ASSUME IInv, NEW d \in Seq(Word), ReceiveDatagram(d)
  PROVE  IInv'
<1>1. calls' \in Seq(Seq(Word))
  BY DEF ReceiveDatagram
<1> QED
  BY <1>1 DEF ReceiveDatagram, IInv, TypeOK, ReassemblyConsistent, reassembly,
              sequence_stats

\* The datagrams of the model are words.
LEMMA ReceivePreservesIInv ==
  ASSUME IInv, Receive
  PROVE  IInv'
BY ReassemblyAssumption, ReceiveDatagramPreservesIInv DEF Receive

\* The tail kept of a datagram without a header is shorter than a header.
LEMMA RetainTailPreservesIInv ==
  ASSUME IInv, RetainTail
  PROVE  IInv'
<1> DEFINE keep(n) == IF n < kPacketHeaderSize - 1 THEN n
                      ELSE kPacketHeaderSize - 1
<1>1. unread \in Seq(Word) /\ Len(unread) \in Nat
      /\ Tail(calls) \in Seq(Seq(Word))
  BY CallProperties DEF IInv, RetainTail, Scanning
<1>2. \A n \in Nat : /\ n - keep(n) \in Nat
                     /\ n - keep(n) <= n
                     /\ n - (n - keep(n)) < kPacketHeaderSize
  BY DEF kPacketHeaderSize
<1>3. PICK at \in Nat : /\ at <= Len(unread)
                        /\ Len(unread) - at < kPacketHeaderSize
                        /\ buffer' = From(unread, at)
  <2>1. buffer' = From(unread, Len(unread) - keep(Len(unread)))
    BY DEF RetainTail
  <2> HIDE DEF keep
  <2> QED
    BY <1>1, <1>2, <2>1
<1>4. buffer' \in Seq(Word) /\ Len(buffer') = Len(unread) - at
  BY <1>1, <1>3, FromProperties
<1>5. Len(buffer)' < kPacketHeaderSize
  BY <1>3, <1>4
<1> QED
  BY <1>1, <1>4, <1>5 DEF RetainTail, Scanning, IInv, TypeOK,
                          ReassemblyConsistent, sequence_stats, history

\* A header whose end has not come yet stays shorter than a header.
LEMMA SplitHeaderPreservesIInv ==
  ASSUME IInv, SplitHeader
  PROVE  IInv'
<1>1. unread \in Seq(Word) /\ Len(unread) \in Nat
      /\ Tail(calls) \in Seq(Seq(Word))
  BY CallProperties DEF IInv, SplitHeader, Scanning
<1>2. /\ Skipped \in Nat /\ Skipped < Len(unread)
      /\ Len(buffer) \in 0 .. 4 /\ Lacking = 5 - Len(buffer)
      /\ Skipped + Lacking > Len(unread)
  BY <1>1, ScanProperties DEF SplitHeader, HeaderInReach
<1>3. /\ From(unread, Skipped) \in Seq(Word)
      /\ Len(From(unread, Skipped)) = Len(unread) - Skipped
  BY <1>1, <1>2, FromProperties
<1>4. buffer \in Seq(Word)
  BY DEF IInv, TypeOK
<1>5. /\ buffer' \in Seq(Word)
      /\ Len(buffer') = Len(buffer) + Len(From(unread, Skipped))
  BY <1>3, <1>4, ConcatProperties DEF SplitHeader
<1>6. Len(buffer)' < kPacketHeaderSize
  BY <1>1, <1>2, <1>3, <1>5 DEF kPacketHeaderSize
<1> QED
  BY <1>1, <1>5, <1>6 DEF SplitHeader, Scanning, IInv, TypeOK,
                          ReassemblyConsistent, sequence_stats, history

\* Sliding over a refused header leaves less than a header.
LEMMA RejectHeaderPreservesIInv ==
  ASSUME IInv, RejectHeader
  PROVE  IInv'
<1> DEFINE aligned == find_batch_header_offset(Candidate)
<1>1. Scanning /\ HeaderInReach
  BY DEF RejectHeader
<1>2. Candidate \in Seq(Word) /\ Len(Candidate) = 5 /\ Candidate # <<>>
  BY <1>1, CandidateProperties DEF kPacketHeaderSize
<1>3. Skipped \in Nat /\ Lacking \in Nat /\ Skipped + Lacking \in Nat
  <2>1. Len(unread) \in Nat
    BY <1>1, CallProperties DEF IInv, Scanning
  <2> QED
    BY <1>1, <2>1, ScanProperties
<1>4. calls' \in Seq(Seq(Word))
  BY <1>1, <1>3, RestType DEF RejectHeader, IInv, Scanning
<1>5. buffer' \in Seq(Word) /\ Len(buffer') < 5
  <2>1. CASE buffer' = Tail(Candidate)
    BY <1>2, <2>1, HeadTailProperties
  <2>2. CASE aligned \in 1 .. Len(Candidate) - 1
             /\ buffer' = From(Candidate, aligned)
    <3>1. PICK at \in Nat : at >= 1 /\ at <= 4 /\ buffer' = From(Candidate, at)
      BY <1>2, <2>2
    <3>2. /\ From(Candidate, at) \in Seq(Word)
          /\ Len(From(Candidate, at)) =
               IF at <= Len(Candidate) THEN Len(Candidate) - at ELSE 0
      BY <1>2, <3>1, FromProperties
    <3> QED
      BY <1>2, <3>1, <3>2
  <2> QED
    BY <2>1, <2>2 DEF RejectHeader
<1>6. Len(buffer)' < kPacketHeaderSize
  BY <1>5 DEF kPacketHeaderSize
<1> QED
  BY <1>1, <1>4, <1>5, <1>6 DEF RejectHeader, Scanning, IInv, TypeOK,
                          ReassemblyConsistent, sequence_stats, history

\* An accepted header opens a batch of the length it announces, which fits the
\* receive buffer.
LEMMA AcceptHeaderPreservesIInv ==
  ASSUME IInv, AcceptHeader
  PROVE  IInv'
<1> DEFINE zeros == [i \in 1 .. expected' - kPacketHeaderSize |-> 0]
<1>1. Scanning /\ HeaderInReach /\ CandidateAccepted
  BY DEF AcceptHeader
<1>2. Candidate \in Seq(Word) /\ Len(Candidate) = 5
  BY <1>1, CandidateProperties DEF kPacketHeaderSize
<1>3. /\ expected' = peek_batch_length(Candidate)
      /\ expected' \in Nat /\ expected' >= 5 /\ expected' <= kMaxBatchSize
      /\ PacketHeader(Candidate).magic = kPacketMagic
      /\ PacketHeader(Candidate).length = expected'
      /\ PacketHeader(Candidate).batch_total \in Nat
      /\ PacketHeader(Candidate).seq < PacketHeader(Candidate).batch_total
  BY <1>1, <1>2, PeekProperties, PacketAssumption
     DEF AcceptHeader, CandidateAccepted, kPacketHeaderSize
<1>4. zeros \in Seq(Word) /\ Len(zeros) = expected' - 5
  BY <1>3 DEF Word, kPacketHeaderSize
<1>5. buffer' = Candidate \o zeros
  BY DEF AcceptHeader
<1>6. /\ buffer' \in Seq(Word) /\ Len(buffer') = expected'
      /\ \A i \in 1 .. 5 : buffer'[i] = Candidate[i]
  <2> HIDE DEF zeros
  <2>1. /\ buffer' \in Seq(Word)
        /\ Len(buffer') = Len(Candidate) + Len(zeros)
        /\ \A i \in 1 .. Len(Candidate) + Len(zeros) :
             buffer'[i] = IF i <= Len(Candidate) THEN Candidate[i]
                          ELSE zeros[i - Len(Candidate)]
    BY <1>2, <1>4, <1>5, ConcatProperties
  <2> QED
    BY <1>2, <1>3, <1>4, <2>1
<1>7. PacketHeader(buffer)' = PacketHeader(Candidate)
  BY <1>6 DEF PacketHeader
<1>8. calls' \in Seq(Seq(Word))
  <2>1. Len(unread) \in Nat
    BY <1>1, CallProperties DEF IInv, Scanning
  <2>2. Skipped + Lacking \in Nat
    BY <1>1, <2>1, ScanProperties
  <2> QED
    BY <1>1, <2>2, RestType DEF AcceptHeader, IInv, Scanning
<1>9. TypeOK'
  BY <1>3, <1>6, <1>8 DEF AcceptHeader, IInv, TypeOK, sequence_stats,
                          kPacketHeaderSize
<1>10. ReassemblyConsistent'
  BY <1>3, <1>6, <1>7 DEF AcceptHeader, ReassemblyConsistent, kPacketHeaderSize
<1> QED
  BY <1>9, <1>10 DEF IInv

\* A segment that does not complete the batch stays inside it and leaves its
\* header alone.
LEMMA CopyFragmentPreservesIInv ==
  ASSUME IInv, CopyFragment
  PROVE  IInv'
<1>1. Collecting /\ buffer' = Copied(Len(unread))
  BY DEF CopyFragment
<1>2. /\ Len(unread) \in Nat /\ Len(unread) <= Len(unread)
      /\ Tail(calls) \in Seq(Seq(Word))
  BY <1>1, CallProperties DEF IInv, Collecting
<1>3. /\ space \in Nat /\ space = expected - filled
      /\ filled \in Nat /\ expected \in Nat /\ filled >= 5
  BY <1>1 DEF IInv, TypeOK, ReassemblyConsistent, Collecting, space,
              kPacketHeaderSize
<1>4. Len(unread) < space /\ Len(unread) <= space
  BY <1>2, <1>3 DEF CopyFragment
<1>5. /\ buffer' \in Seq(Word)
      /\ Len(buffer') = Len(buffer)
      /\ PacketHeader(buffer') = PacketHeader(buffer)
  BY <1>1, <1>2, <1>4, CopiedProperties
<1>6. filled' \in Nat /\ filled' >= 5 /\ filled' <= expected
  BY <1>2, <1>3, <1>4 DEF CopyFragment
<1>7. fragment_sizes' \in Seq(Nat)
  BY <1>2, AppendProperties DEF CopyFragment, IInv, TypeOK
<1>8. TypeOK'
  BY <1>2, <1>5, <1>6, <1>7 DEF CopyFragment, IInv, TypeOK, sequence_stats,
                                history
<1>9. ReassemblyConsistent'
  BY <1>1, <1>5, <1>6 DEF CopyFragment, Collecting, IInv, ReassemblyConsistent,
                          kPacketHeaderSize
<1> QED
  BY <1>8, <1>9 DEF IInv

\* After a batch is complete nothing is being collected.
LEMMA ResetConsistent ==
  ASSUME reset_reassembly
  PROVE  /\ ReassemblyConsistent'
         /\ buffer' \in Seq(Word) /\ filled' \in Nat /\ expected' \in Nat
         /\ active' \in BOOLEAN /\ fragment_sizes' \in Seq(Nat)
<1>1. <<>> \in Seq(Word) /\ <<>> \in Seq(Nat) /\ Len(<<>>) = 0
  BY EmptySeq
<1>2. /\ buffer' = <<>> /\ filled' = 0 /\ expected' = 0
      /\ active' = FALSE /\ fragment_sizes' = <<>>
  BY DEF reset_reassembly
<1>3. Len(buffer)' < kPacketHeaderSize
  BY <1>1, <1>2 DEF kPacketHeaderSize
<1> QED
  BY <1>1, <1>2, <1>3 DEF ReassemblyConsistent

\* track_sequence keeps the types of what it counts.
LEMMA TrackSequenceType ==
  ASSUME TypeOK, NEW seq \in Nat, track_sequence(seq)
  PROVE  /\ duplicates' \in Nat /\ out_of_order' \in Nat
         /\ seen_seq' \subseteq Nat /\ highest_seq' \in Nat
<1>1. /\ duplicates \in Nat /\ out_of_order \in Nat
      /\ seen_seq \subseteq Nat /\ highest_seq \in Nat
  BY DEF TypeOK
<1>2. CASE seq \in seen_seq
  <2>1. /\ duplicates' = duplicates + 1 /\ out_of_order' = out_of_order
        /\ seen_seq' = seen_seq /\ highest_seq' = highest_seq
    BY <1>2 DEF track_sequence
  <2> QED
    BY <1>1, <2>1
<1>3. CASE seq \notin seen_seq
  <2>1. /\ out_of_order' \in {out_of_order, out_of_order + 1}
        /\ seen_seq' = seen_seq \cup {seq}
        /\ highest_seq' \in {highest_seq, seq}
        /\ duplicates' = duplicates
    BY <1>3 DEF track_sequence
  <2> QED
    BY <1>1, <2>1
<1> QED
  BY <1>2, <1>3

\* A counted batch leaves an empty buffer and counters of the right types.
LEMMA CountBatchPreservesIInv ==
  ASSUME IInv, CountBatch
  PROVE  IInv'
<1> DEFINE seq == PacketHeader(Assembled).seq
<1>1. Collecting /\ Len(unread) >= space
  BY DEF CountBatch
<1>2. Assembled \in Seq(Word) /\ space \in Nat /\ seq \in Nat
  BY <1>1, AssembledProperties, OpenHeaderProperties
<1>3. calls' \in Seq(Seq(Word))
  BY <1>1, <1>2, RestType DEF CountBatch, IInv, Collecting
<1>4. accepted' \in Seq(Seq(Word))
  BY <1>2, AppendProperties DEF CountBatch, IInv, TypeOK
<1>5. /\ duplicates' \in Nat /\ out_of_order' \in Nat
      /\ seen_seq' \subseteq Nat /\ highest_seq' \in Nat
  <2>1. track_sequence(seq)
    BY DEF CountBatch
  <2> HIDE DEF seq
  <2> QED
    BY <1>2, <2>1, TrackSequenceType DEF IInv
<1>6. TypeOK'
  BY <1>3, <1>4, <1>5, ResetConsistent DEF CountBatch, IInv, TypeOK
<1> QED
  BY <1>6, ResetConsistent DEF CountBatch, IInv

\* A bad batch leaves an empty buffer.
LEMMA DropBatchPreservesIInv ==
  ASSUME IInv, DropBatch
  PROVE  IInv'
<1>1. Collecting /\ Len(unread) >= space
  BY DEF DropBatch
<1>2. space \in Nat
  BY <1>1, AssembledProperties
<1>3. calls' \in Seq(Seq(Word))
  BY <1>1, <1>2, RestType DEF DropBatch, IInv, Collecting
<1>4. TypeOK'
  BY <1>3, ResetConsistent DEF DropBatch, IInv, TypeOK, sequence_stats, history
<1> QED
  BY <1>4, ResetConsistent DEF DropBatch, IInv

\* The tail that is salvaged is made of words of the batch.
LEMMA SalvageType ==
  ASSUME NEW batch \in Seq(Word), NEW tail \in Salvage(batch)
  PROVE  tail \in Seq(Word)
<1> DEFINE offsets == {i \in 1 .. Len(batch) - kPacketHeaderSize :
          /\ PlausibleAt(batch, i)
          /\ PacketHeader(From(batch, i)).seq \in
               (IF PacketHeader(batch).seq + 1 < PacketHeader(batch).batch_total
                THEN {PacketHeader(batch).seq + 1} ELSE Nat)
          /\ ValidSession(PacketHeader(From(batch, i)), wire_batch_total)}
<1>1. Len(batch) \in Nat
  BY LenProperties
<1>2. SalvageOffset(batch) = FirstOffset(offsets, batch)
  BY DEF SalvageOffset, find_next_batch_header_offset
<1>3. offsets \in SUBSET (0 .. Len(batch))
  BY <1>1 DEF kPacketHeaderSize
<1>4. SalvageOffset(batch) \in Nat
  <2> HIDE DEF offsets
  <2>1. offsets # {} => Min(offsets) \in 0 .. Len(batch)
    BY <1>1, <1>3, MinOfNaturals
  <2> QED
    BY <1>1, <1>2, <2>1 DEF FirstOffset
<1>5. tail = From(batch, SalvageOffset(batch))
  BY DEF Salvage
<1> QED
  BY <1>4, <1>5, FromProperties

\* A salvaged tail is data for one more call, which starts with an empty buffer.
LEMMA SalvageTailPreservesIInv ==
  ASSUME IInv, SalvageTail
  PROVE  IInv'
<1>1. Collecting /\ Len(unread) >= space
  BY DEF SalvageTail
<1>2. Assembled \in Seq(Word) /\ space \in Nat
  BY <1>1, AssembledProperties
<1>3. PICK tail \in Salvage(Assembled) :
        calls' = <<tail>> \o Continue(From(unread, space))
  BY DEF SalvageTail
<1>4. Continue(From(unread, space)) \in Seq(Seq(Word))
  BY <1>1, <1>2, RestType DEF IInv, Collecting
<1>5. <<tail>> \in Seq(Seq(Word))
  BY <1>2, SalvageType
<1>6. calls' \in Seq(Seq(Word))
  BY <1>3, <1>4, <1>5, ConcatProperties
<1>7. TypeOK'
  BY <1>6, ResetConsistent DEF SalvageTail, IInv, TypeOK, sequence_stats, history
<1> QED
  BY <1>7, ResetConsistent DEF SalvageTail, IInv

\* A step that changes nothing of the receiver keeps the invariant.
LEMMA StutterPreservesIInv ==
  ASSUME IInv, UNCHANGED vars
  PROVE  IInv'
BY DEF IInv, TypeOK, ReassemblyConsistent, vars, reassembly, sequence_stats,
       history

\* Every step keeps the invariant: one lemma per action.
LEMMA NextPreservesIInv ==
  ASSUME IInv, [Next]_vars
  PROVE  IInv'
BY ReceivePreservesIInv, RetainTailPreservesIInv, SplitHeaderPreservesIInv,
   RejectHeaderPreservesIInv, AcceptHeaderPreservesIInv,
   CopyFragmentPreservesIInv, CountBatchPreservesIInv, DropBatchPreservesIInv,
   SalvageTailPreservesIInv, StutterPreservesIInv
   DEF Next, Ingest

\* The invariant holds throughout.
THEOREM Invariance == Spec => []IInv
<1>1. IInv /\ [Next]_vars => IInv'
  BY NextPreservesIInv
<1> QED
  BY <1>1, InitEstablishesIInv, PTL DEF Spec

\* Type correctness: no counter of the summary is ever negative, no buffer
\* holds anything but words (server.cpp:33-52).
THEOREM TypeCorrect == Spec => []TypeOK
<1>1. IInv => TypeOK
  BY DEF IInv
<1> QED
  BY <1>1, Invariance, PTL

\* ingest_fragment's memcpy stays inside the batch's buffer, and an open batch
\* has a plausible header of the session (server.cpp:468-549).
THEOREM BufferConsistent == Spec => []ReassemblyConsistent
<1>1. IInv => ReassemblyConsistent
  BY DEF IInv
<1> QED
  BY <1>1, Invariance, PTL

-----------------------------------------------------------------------------
(***************************************************************************)
(* The counters                                                            *)
(***************************************************************************)

\* batches, dup and the set of sequence numbers seen agree: the set that
\* finalize_lost subtracts accounts for every batch counted.
BatchAccounting ==
  /\ IsFiniteSet(seen_seq)
  /\ batches = duplicates + Cardinality(seen_seq)
  /\ out_of_order <= Cardinality(seen_seq)

\* What the summary relies on; it is kept with the help of IInv, which says
\* what sequence number and batch_total an open batch has.
Accounting ==
  /\ BatchAccounting
  /\ OneTotalPerSession
  /\ OpenedBatchesAccountedFor

\* A server that has just started has counted nothing.
LEMMA InitEstablishesAccounting == Init => Accounting
<1> SUFFICES ASSUME Init PROVE Accounting
  OBVIOUS
<1>1. /\ batches = 0 /\ bad_batches = 0 /\ duplicates = 0 /\ out_of_order = 0
      /\ seen_seq = {} /\ active = FALSE /\ opened = 0
  BY DEF Init, InitStats, InitReassembly
<1>2. IsFiniteSet({}) /\ Cardinality({}) = 0
  BY FS_EmptySet
<1> QED
  BY <1>1, <1>2 DEF Accounting, BatchAccounting, OneTotalPerSession,
                    OpenedBatchesAccountedFor

\* What a step may leave alone so that the counters still agree.
LEMMA QuietStepPreservesAccounting ==
  ASSUME Accounting,
         UNCHANGED <<active, batches, bad_batches, duplicates, out_of_order,
                     seen_seq, wire_batch_total, opened>>
  PROVE  Accounting'
BY DEF Accounting, BatchAccounting, OneTotalPerSession,
       OpenedBatchesAccountedFor

\* A header is accepted only when the session has no batch_total, and then no
\* batch has been counted, or has the header's.
LEMMA AcceptHeaderPreservesAccounting ==
  ASSUME IInv, Accounting, AcceptHeader
  PROVE  Accounting'
<1>1. /\ wire_batch_total \in {NoTotal, PacketHeader(Candidate).batch_total}
      /\ wire_batch_total' = PacketHeader(Candidate).batch_total
      /\ seen_seq' = seen_seq
  BY DEF AcceptHeader, CandidateAccepted, ValidSession, sequence_stats
<1>2. \A seq \in seen_seq : seq \in Nat /\ seq < wire_batch_total
  BY DEF Accounting, OneTotalPerSession, IInv, TypeOK
<1>3. OneTotalPerSession'
  <2>1. CASE wire_batch_total = NoTotal
    <3>1. seen_seq = {}
      BY <1>2, <2>1 DEF NoTotal
    <3> QED
      BY <1>1, <3>1 DEF OneTotalPerSession
  <2>2. CASE wire_batch_total = PacketHeader(Candidate).batch_total
    BY <1>1, <1>2, <2>2 DEF OneTotalPerSession
  <2> QED
    BY <1>1, <2>1, <2>2
<1>4. OpenedBatchesAccountedFor'
  <2>1. /\ active = FALSE /\ active' = TRUE /\ opened' = opened + 1
        /\ batches' = batches /\ bad_batches' = bad_batches
    BY DEF AcceptHeader, Scanning, IInv, TypeOK
  <2>2. opened = batches + bad_batches
        /\ batches \in Nat /\ bad_batches \in Nat
    BY <2>1 DEF Accounting, OpenedBatchesAccountedFor, IInv, TypeOK
  <2> QED
    BY <2>1, <2>2 DEF OpenedBatchesAccountedFor
<1>5. BatchAccounting'
  BY DEF Accounting, BatchAccounting, AcceptHeader, sequence_stats
<1> QED
  BY <1>3, <1>4, <1>5 DEF Accounting

\* track_sequence adds the batch to one of dup and the set of sequence numbers.
LEMMA TrackSequenceAccounts ==
  ASSUME TypeOK, BatchAccounting, NEW seq \in Nat, track_sequence(seq)
  PROVE  /\ IsFiniteSet(seen_seq')
         /\ batches + 1 = duplicates' + Cardinality(seen_seq')
         /\ out_of_order' <= Cardinality(seen_seq')
<1>1. /\ batches \in Nat /\ duplicates \in Nat /\ out_of_order \in Nat
      /\ IsFiniteSet(seen_seq) /\ Cardinality(seen_seq) \in Nat
      /\ batches = duplicates + Cardinality(seen_seq)
      /\ out_of_order <= Cardinality(seen_seq)
  BY FS_CardinalityType DEF TypeOK, BatchAccounting
<1>2. CASE seq \in seen_seq
  <2>1. /\ duplicates' = duplicates + 1 /\ out_of_order' = out_of_order
        /\ seen_seq' = seen_seq
    BY <1>2 DEF track_sequence
  <2> QED
    BY <1>1, <2>1
<1>3. CASE seq \notin seen_seq
  <2>1. /\ out_of_order' \in {out_of_order, out_of_order + 1}
        /\ seen_seq' = seen_seq \cup {seq} /\ duplicates' = duplicates
    BY <1>3 DEF track_sequence
  <2>2. /\ IsFiniteSet(seen_seq')
        /\ Cardinality(seen_seq') = Cardinality(seen_seq) + 1
    BY <1>1, <1>3, <2>1, FS_AddElement
  <2> QED
    BY <1>1, <2>1, <2>2
<1> QED
  BY <1>2, <1>3

\* A counted batch was open, and its sequence number is the session's.
LEMMA CountBatchPreservesAccounting ==
  ASSUME IInv, Accounting, CountBatch
  PROVE  Accounting'
<1> DEFINE seq == PacketHeader(Assembled).seq
<1>1. Collecting /\ Len(unread) >= space /\ track_sequence(seq)
  BY DEF CountBatch
<1>2. seq \in Nat /\ seq < wire_batch_total
  BY <1>1, AssembledProperties, OpenHeaderProperties
<1>3. /\ batches' = batches + 1 /\ bad_batches' = bad_batches
      /\ opened' = opened /\ wire_batch_total' = wire_batch_total
      /\ active = TRUE /\ active' = FALSE
  BY <1>1 DEF CountBatch, Collecting, reset_reassembly, IInv, TypeOK
<1> HIDE DEF seq
<1>4. BatchAccounting'
  BY <1>1, <1>2, <1>3, TrackSequenceAccounts
     DEF BatchAccounting, Accounting, IInv
<1>5. OneTotalPerSession'
  <2>1. seen_seq' \subseteq seen_seq \cup {seq}
    BY <1>1 DEF track_sequence
  <2> QED
    BY <1>2, <1>3, <2>1 DEF OneTotalPerSession, Accounting
<1>6. OpenedBatchesAccountedFor'
  BY <1>3 DEF OpenedBatchesAccountedFor, Accounting, IInv, TypeOK
<1> QED
  BY <1>4, <1>5, <1>6 DEF Accounting

\* A batch that is open and found corrupt, salvaged or not, is one more bad
\* batch.
LEMMA BadBatchPreservesAccounting ==
  ASSUME IInv, Accounting, DropBatch \/ SalvageTail
  PROVE  Accounting'
<1>1. /\ bad_batches' = bad_batches + 1
      /\ active = TRUE /\ active' = FALSE
      /\ UNCHANGED <<batches, opened, wire_batch_total, sequence_stats>>
  BY DEF DropBatch, SalvageTail, Collecting, reset_reassembly, history, IInv,
         TypeOK
<1>2. OpenedBatchesAccountedFor'
  BY <1>1 DEF OpenedBatchesAccountedFor, Accounting, IInv, TypeOK
<1>3. BatchAccounting' /\ OneTotalPerSession'
  BY <1>1 DEF BatchAccounting, OneTotalPerSession, Accounting, sequence_stats
<1> QED
  BY <1>2, <1>3 DEF Accounting

\* Every step keeps the counters in agreement.
LEMMA NextPreservesAccounting ==
  ASSUME IInv, Accounting, [Next]_vars
  PROVE  Accounting'
<1>1. CASE AcceptHeader
  BY <1>1, AcceptHeaderPreservesAccounting
<1>2. CASE CountBatch
  BY <1>2, CountBatchPreservesAccounting
<1>3. CASE DropBatch \/ SalvageTail
  BY <1>3, BadBatchPreservesAccounting
<1>4. CASE Receive \/ RetainTail \/ SplitHeader \/ RejectHeader \/ CopyFragment
           \/ UNCHANGED vars
  <2>1. UNCHANGED <<active, batches, bad_batches, duplicates, out_of_order,
                    seen_seq, wire_batch_total, opened>>
    BY <1>4 DEF Receive, ReceiveDatagram, RetainTail, SplitHeader,
                RejectHeader, CopyFragment, vars, reassembly, sequence_stats,
                history
  <2> QED
    BY <2>1, QuietStepPreservesAccounting
<1> QED
  BY <1>1, <1>2, <1>3, <1>4 DEF Next, Ingest

\* The counters agree throughout.
THEOREM AccountingInvariance == Spec => []Accounting
<1>1. IInv /\ Accounting /\ [Next]_vars => Accounting'
  BY NextPreservesAccounting
<1> QED
  BY <1>1, InitEstablishesAccounting, Invariance, PTL DEF Spec

\* All batches counted belong to the range of the session's batch_total
\* (packet.hpp:138-153).
THEOREM SessionHasOneTotal == Spec => []OneTotalPerSession
<1>1. Accounting => OneTotalPerSession
  BY DEF Accounting
<1> QED
  BY <1>1, AccountingInvariance, PTL

\* A header that opened a batch ends as one counted or one bad batch
\* (server.cpp:249-359, 522-533).
THEOREM NoBatchForgotten == Spec => []OpenedBatchesAccountedFor
<1>1. Accounting => OpenedBatchesAccountedFor
  BY DEF Accounting
<1> QED
  BY <1>1, AccountingInvariance, PTL

\* The session's batch_total never changes once it is known
\* (packet.hpp:146-150).
THEOREM TotalPinned == Spec => TotalIsPinned
<1>1. Next => (wire_batch_total # NoTotal
                 => wire_batch_total' = wire_batch_total)
  <2>1. AcceptHeader => wire_batch_total \in {NoTotal, wire_batch_total'}
    BY DEF AcceptHeader, CandidateAccepted, ValidSession
  <2>2. CASE ~AcceptHeader /\ Next
    BY <2>2 DEF Next, Ingest, Receive, ReceiveDatagram, RetainTail,
                SplitHeader, RejectHeader, CopyFragment, CountBatch, DropBatch,
                SalvageTail
  <2> QED
    BY <2>1, <2>2
<1> QED
  BY <1>1, PTL DEF Spec, TotalIsPinned

-----------------------------------------------------------------------------
(***************************************************************************)
(* The segments of the open batch                                          *)
(***************************************************************************)

\* A batch is opened with a header and no segment.
LEMMA AcceptHeaderPreservesSegments ==
  ASSUME IInv, AcceptHeader
  PROVE  SegmentsAccountForBytes'
<1>1. filled' = kPacketHeaderSize /\ fragment_sizes' = <<>>
  BY DEF AcceptHeader, Scanning, IInv, TypeOK, ReassemblyConsistent
<1>2. SumFunction(fragment_sizes)' = 0
  BY <1>1, SumOfEmpty
<1> QED
  BY <1>1, <1>2 DEF SegmentsAccountForBytes, kPacketHeaderSize

\* A segment adds as many words to the batch as to the list of sizes.
LEMMA CopyFragmentPreservesSegments ==
  ASSUME IInv, SegmentsAccountForBytes, CopyFragment
  PROVE  SegmentsAccountForBytes'
<1>1. /\ filled' = filled + Len(unread)
      /\ fragment_sizes' = Append(fragment_sizes, Len(unread))
      /\ filled = kPacketHeaderSize + SumFunction(fragment_sizes)
  BY DEF CopyFragment, Collecting, SegmentsAccountForBytes
<1>2. Len(unread) \in Nat /\ fragment_sizes \in Seq(Nat)
  BY CallProperties DEF CopyFragment, Collecting, IInv, TypeOK
<1>3. /\ SumFunction(fragment_sizes) \in Nat
      /\ SumFunction(fragment_sizes)' = SumFunction(fragment_sizes) + Len(unread)
  BY <1>1, <1>2, SumOfAppend
<1> QED
  BY <1>1, <1>2, <1>3 DEF SegmentsAccountForBytes, kPacketHeaderSize

\* Every step keeps the sizes in agreement with the batch.
LEMMA NextPreservesSegments ==
  ASSUME IInv, SegmentsAccountForBytes, [Next]_vars
  PROVE  SegmentsAccountForBytes'
<1>1. CASE AcceptHeader
  BY <1>1, AcceptHeaderPreservesSegments
<1>2. CASE CopyFragment
  BY <1>2, CopyFragmentPreservesSegments
<1>3. CASE CountBatch \/ DropBatch \/ SalvageTail
  BY <1>3 DEF CountBatch, DropBatch, SalvageTail, reset_reassembly,
              SegmentsAccountForBytes
<1>4. CASE Receive \/ RetainTail \/ SplitHeader \/ RejectHeader
           \/ UNCHANGED vars
  <2>1. UNCHANGED <<active, filled, fragment_sizes>>
    BY <1>4 DEF Receive, ReceiveDatagram, RetainTail, SplitHeader,
                RejectHeader, vars, reassembly
  <2> QED
    BY <2>1 DEF SegmentsAccountForBytes
<1> QED
  BY <1>1, <1>2, <1>3, <1>4 DEF Next, Ingest

\* The segment size of a batch is inferred from slices that hold each of its
\* payload words exactly once (server.cpp:536-544).
THEOREM SegmentsAccounted == Spec => []SegmentsAccountForBytes
<1>1. Init => SegmentsAccountForBytes
  BY DEF Init, InitReassembly, SegmentsAccountForBytes
<1>2. IInv /\ SegmentsAccountForBytes /\ [Next]_vars => SegmentsAccountForBytes'
  BY NextPreservesSegments
<1> QED
  BY <1>1, <1>2, Invariance, PTL DEF Spec

-----------------------------------------------------------------------------
(***************************************************************************)
(* The counters and the history                                            *)
(***************************************************************************)

\* "Out of order" compares a batch with highest_seq only; that is the highest
\* of all earlier ones because it is one of them.
HistoryInv ==
  /\ CountersMatchHistory
  /\ have_seq => highest_seq \in seen_seq

\* A server that has just started has no history.
LEMMA InitEstablishesHistory == Init => HistoryInv
<1> SUFFICES ASSUME Init PROVE HistoryInv
  OBVIOUS
<1>1. /\ batches = 0 /\ duplicates = 0 /\ out_of_order = 0
      /\ seen_seq = {} /\ accepted = <<>>
  BY DEF Init, InitStats
<1>2. Len(accepted) = 0 /\ DOMAIN accepted = {}
  BY <1>1
<1>3. Firsts = {} /\ Overtaken = {} /\ DOMAIN accepted \ Firsts = {}
  BY <1>2 DEF Firsts, Overtaken
<1>4. Cardinality({}) = 0
  BY FS_EmptySet
<1>5. {AcceptedSeq(i) : i \in DOMAIN accepted} = {}
  BY <1>2
<1> QED
  BY <1>1, <1>2, <1>3, <1>4, <1>5 DEF HistoryInv, CountersMatchHistory, have_seq

\* A counted batch is the last of the history, and a first one when its
\* sequence number was not seen before.
LEMMA CountBatchExtendsHistory ==
  ASSUME IInv, HistoryInv, CountBatch
  PROVE  LET n   == Len(accepted)
             seq == PacketHeader(Assembled).seq
             new == IF seq \in seen_seq THEN {} ELSE {n + 1}
         IN  /\ n \in Nat /\ seq \in Nat
             /\ DOMAIN accepted = 1 .. n /\ DOMAIN accepted' = 1 .. n + 1
             /\ Len(accepted)' = n + 1
             /\ {AcceptedSeq(i) : i \in DOMAIN accepted}' = seen_seq \cup {seq}
             /\ Firsts' = Firsts \cup new
             /\ Overtaken' = Overtaken \cup
                  (IF have_seq /\ seq < highest_seq THEN new ELSE {})
<1>0. PICK n \in Nat : n = Len(accepted)
  BY LenProperties DEF IInv, TypeOK
<1> DEFINE seq == PacketHeader(Assembled).seq
           new == IF seq \in seen_seq THEN {} ELSE {n + 1}
<1>1. Collecting /\ Len(unread) >= space /\ accepted' = Append(accepted, Assembled)
  BY DEF CountBatch
<1>2. Assembled \in Seq(Word) /\ seq \in Nat
  BY <1>1, AssembledProperties, OpenHeaderProperties
<1>3. accepted \in Seq(Seq(Word)) /\ seen_seq \subseteq Nat /\ highest_seq \in Nat
  BY DEF IInv, TypeOK
<1>4. /\ n \in Nat /\ DOMAIN accepted = 1 .. n /\ DOMAIN accepted' = 1 .. n + 1
      /\ Len(accepted') = n + 1
      /\ \A i \in 1 .. n : accepted'[i] = accepted[i]
      /\ accepted'[n + 1] = Assembled
  <2> HIDE DEF seq, new
  <2> QED
    BY <1>0, <1>1, <1>2, <1>3, AppendProperties, LenProperties
<1>5. /\ \A i \in 1 .. n : AcceptedSeq(i)' = AcceptedSeq(i)
      /\ AcceptedSeq(n + 1)' = seq
  <2>1. ASSUME NEW i \in 1 .. n PROVE AcceptedSeq(i)' = AcceptedSeq(i)
    BY <1>4 DEF AcceptedSeq
  <2>2. PacketHeader(accepted'[n + 1]).seq = seq
    BY <1>4
  <2> QED
    BY <2>1, <2>2 DEF AcceptedSeq
<1> HIDE DEF seq
<1>6. /\ seen_seq = {AcceptedSeq(i) : i \in 1 .. n}
      /\ \A s \in seen_seq : s <= highest_seq
      /\ seen_seq # {} => highest_seq \in seen_seq
  BY <1>4 DEF HistoryInv, CountersMatchHistory, have_seq
<1>7. {AcceptedSeq(i) : i \in DOMAIN accepted}' = seen_seq \cup {seq}
  <2>1. {AcceptedSeq(i)' : i \in 1 .. n + 1} = {AcceptedSeq(i) : i \in 1 .. n} \cup {seq}
    BY <1>4, <1>5
  <2> QED
    BY <1>4, <1>6, <2>1
<1>8. Firsts' = Firsts \cup new
  <2>1. ASSUME NEW i \in 1 .. n PROVE i \in Firsts' <=> i \in Firsts
    BY <1>4, <1>5 DEF Firsts
  <2>2. n + 1 \in Firsts' <=> seq \notin seen_seq
    BY <1>4, <1>5, <1>6 DEF Firsts
  <2>3. Firsts \subseteq 1 .. n /\ Firsts' \subseteq 1 .. n + 1
    BY <1>4 DEF Firsts
  <2>4. \A i \in 1 .. n + 1 : i \in 1 .. n \/ i = n + 1
    OBVIOUS
  <2>5. n + 1 \notin 1 .. n
    OBVIOUS
  <2>6. n + 1 \in new <=> seq \notin seen_seq
    OBVIOUS
  <2>7. new \subseteq {n + 1}
    OBVIOUS
  <2> HIDE DEF new
  <2> QED
    BY <2>1, <2>2, <2>3, <2>4, <2>5, <2>6, <2>7
<1>9. (\E j \in 1 .. n : AcceptedSeq(j) > seq) <=> (have_seq /\ seq < highest_seq)
  <2>1. \A j \in 1 .. n : AcceptedSeq(j) \in seen_seq
    BY <1>6
  <2>2. \A j \in 1 .. n : AcceptedSeq(j) \in Nat /\ AcceptedSeq(j) <= highest_seq
    BY <1>3, <1>6, <2>1
  <2>3. have_seq => \E j \in 1 .. n : AcceptedSeq(j) = highest_seq
    BY <1>6 DEF have_seq
  <2>4. (\E j \in 1 .. n : TRUE) => have_seq
    BY <2>1 DEF have_seq
  <2>5. ASSUME NEW j \in 1 .. n, AcceptedSeq(j) > seq
        PROVE  have_seq /\ seq < highest_seq
    BY <1>2, <1>3, <2>2, <2>4, <2>5
  <2>6. ASSUME have_seq, seq < highest_seq
        PROVE  \E j \in 1 .. n : AcceptedSeq(j) > seq
    <3>1. PICK j \in 1 .. n : AcceptedSeq(j) = highest_seq
      BY <2>3, <2>6
    <3>2. highest_seq > seq
      BY <1>2, <1>3, <2>6
    <3> QED
      BY <3>1, <3>2
  <2> QED
    BY <2>5, <2>6
<1>10. Overtaken' = Overtaken \cup (IF have_seq /\ seq < highest_seq THEN new ELSE {})
  <2>1. Firsts \subseteq 1 .. n
    BY <1>4 DEF Firsts
  <2>2. ASSUME NEW i \in Firsts
        PROVE  i \in Overtaken' <=> i \in Overtaken
    BY <1>4, <1>5, <1>8, <2>1 DEF Overtaken
  <2>3. n + 1 \in Overtaken' <=> n + 1 \in Firsts' /\ \E j \in 1 .. n : AcceptedSeq(j) > seq
    BY <1>4, <1>5 DEF Overtaken
  <2>4. Overtaken' \subseteq Firsts' /\ Overtaken \subseteq Firsts
    BY DEF Overtaken
  <2>5. n + 1 \notin Firsts
    BY <1>4, <2>1
  <2> QED
    BY <1>8, <1>9, <2>2, <2>3, <2>4, <2>5
<1> QED
  BY <1>0, <1>2, <1>4, <1>7, <1>8, <1>10 DEF seq

\* The counters of a counted batch are those of the longer history.
LEMMA CountBatchPreservesHistory ==
  ASSUME IInv, HistoryInv, CountBatch
  PROVE  HistoryInv'
<1> DEFINE n   == Len(accepted)
           seq == PacketHeader(Assembled).seq
           new == IF seq \in seen_seq THEN {} ELSE {n + 1}
<1>1. /\ n \in Nat /\ seq \in Nat
      /\ DOMAIN accepted = 1 .. n /\ DOMAIN accepted' = 1 .. n + 1
      /\ Len(accepted)' = n + 1
      /\ {AcceptedSeq(i) : i \in DOMAIN accepted}' = seen_seq \cup {seq}
      /\ Firsts' = Firsts \cup new
      /\ Overtaken' = Overtaken \cup
           (IF have_seq /\ seq < highest_seq THEN new ELSE {})
  BY CountBatchExtendsHistory
<1>2. track_sequence(seq) /\ batches' = batches + 1
  BY DEF CountBatch
<1> HIDE DEF n, seq
<1>3. /\ batches = n
      /\ duplicates = Cardinality((1 .. n) \ Firsts)
      /\ out_of_order = Cardinality(Overtaken)
      /\ \A s \in seen_seq : s <= highest_seq
      /\ have_seq => highest_seq \in seen_seq
  BY <1>1 DEF HistoryInv, CountersMatchHistory, n
<1>4. seen_seq \subseteq Nat /\ highest_seq \in Nat
  BY DEF IInv, TypeOK
<1>5. Firsts \subseteq 1 .. n /\ Overtaken \subseteq 1 .. n /\ n + 1 \notin 1 .. n
  BY <1>1 DEF Firsts, Overtaken
<1>6. IsFiniteSet((1 .. n) \ Firsts) /\ IsFiniteSet(Overtaken)
  <2>1. IsFiniteSet(1 .. n)
    BY <1>1, FS_Interval
  <2> QED
    BY <1>5, <2>1, FS_Subset
<1>7. CASE seq \in seen_seq
  <2>1. /\ duplicates' = duplicates + 1 /\ out_of_order' = out_of_order
        /\ seen_seq' = seen_seq /\ highest_seq' = highest_seq
    BY <1>2, <1>7 DEF track_sequence
  <2>2. Firsts' = Firsts /\ Overtaken' = Overtaken /\ seen_seq \cup {seq} = seen_seq
    BY <1>1, <1>7
  <2>3. (1 .. n + 1) \ Firsts = ((1 .. n) \ Firsts) \cup {n + 1}
    BY <1>1, <1>5
  <2>4. Cardinality((1 .. n + 1) \ Firsts) = Cardinality((1 .. n) \ Firsts) + 1
    BY <1>5, <1>6, <2>3, FS_AddElement
  <2>5. CountersMatchHistory'
    BY <1>1, <1>2, <1>3, <2>1, <2>2, <2>4 DEF CountersMatchHistory
  <2> QED
    BY <1>3, <2>1, <2>5 DEF HistoryInv, have_seq
<1>8. CASE seq \notin seen_seq
  <2>1. /\ duplicates' = duplicates
        /\ out_of_order' = IF have_seq /\ seq < highest_seq
                           THEN out_of_order + 1 ELSE out_of_order
        /\ seen_seq' = seen_seq \cup {seq}
        /\ highest_seq' = IF have_seq /\ highest_seq > seq
                          THEN highest_seq ELSE seq
    BY <1>2, <1>8 DEF track_sequence
  <2>2. Firsts' = Firsts \cup {n + 1} /\ new = {n + 1}
    BY <1>1, <1>8
  <2>3. (1 .. n + 1) \ (Firsts \cup {n + 1}) = (1 .. n) \ Firsts
    BY <1>1, <1>5
  <2>4. out_of_order' = Cardinality(Overtaken')
    <3>1. CASE have_seq /\ seq < highest_seq
      <4>1. Overtaken' = Overtaken \cup {n + 1} /\ n + 1 \notin Overtaken
        BY <1>1, <1>5, <2>2, <3>1
      <4>2. Cardinality(Overtaken \cup {n + 1}) = Cardinality(Overtaken) + 1
        BY <1>6, <4>1, FS_AddElement
      <4> QED
        BY <1>3, <2>1, <3>1, <4>1, <4>2
    <3>2. CASE ~(have_seq /\ seq < highest_seq)
      BY <1>1, <1>3, <2>1, <3>2
    <3> QED
      BY <3>1, <3>2
  <2>5. /\ \A s \in seen_seq' : s <= highest_seq'
        /\ highest_seq' \in seen_seq'
    BY <1>1, <1>3, <1>4, <2>1 DEF have_seq
  <2>6. CountersMatchHistory'
    BY <1>1, <1>2, <1>3, <2>1, <2>2, <2>3, <2>4, <2>5 DEF CountersMatchHistory
  <2> QED
    BY <2>5, <2>6 DEF HistoryInv
<1> QED
  BY <1>7, <1>8

\* Every step keeps the counters those of the history.
LEMMA NextPreservesHistory ==
  ASSUME IInv, HistoryInv, [Next]_vars
  PROVE  HistoryInv'
<1>1. CASE CountBatch
  BY <1>1, CountBatchPreservesHistory
<1>2. CASE ~CountBatch
  <2>1. UNCHANGED <<batches, sequence_stats, accepted>>
    BY <1>2 DEF Next, Ingest, Receive, ReceiveDatagram, RetainTail, SplitHeader,
                RejectHeader, AcceptHeader, CopyFragment, DropBatch,
                SalvageTail, vars, history
  <2>2. UNCHANGED <<Firsts, Overtaken, {AcceptedSeq(i) : i \in DOMAIN accepted}>>
    BY <2>1 DEF Firsts, Overtaken, AcceptedSeq
  <2> QED
    BY <2>1, <2>2 DEF HistoryInv, CountersMatchHistory, have_seq, sequence_stats
<1> QED
  BY <1>1, <1>2

\* The summary's counters, kept one batch at a time, are what they are meant to
\* be of the whole history of batches counted (server.cpp:180-198, 340-341).
THEOREM CountersAreOfHistory == Spec => []CountersMatchHistory
<1>1. IInv /\ HistoryInv /\ [Next]_vars => HistoryInv'
  BY NextPreservesHistory
<1>2. HistoryInv => CountersMatchHistory
  BY DEF HistoryInv
<1> QED
  BY <1>1, <1>2, InitEstablishesHistory, Invariance, PTL DEF Spec

=============================================================================
