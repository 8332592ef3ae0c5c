------------------------------- MODULE Packet -------------------------------
(***************************************************************************)
(* The BDUP batch format (packet.hpp) and the two header scans of the      *)
(* server (server.cpp): a batch is one buffer, a header of five fields and *)
(* a payload, that crosses the network cut into datagrams.                 *)
(*                                                                         *)
(* Unit of data.  The unit of the model is one header field: a buffer is a *)
(* sequence of words (naturals), a header is five words and one payload    *)
(* word stands for the bytes the size of a field.  The code moves bytes    *)
(* one at a time and so does the model with words: a datagram may end      *)
(* anywhere, a header may be split between any two words, and a scan tries *)
(* every word.                                                             *)
(*                                                                         *)
(* The checksum is the operator Crc, a parameter: nothing below depends on *)
(* the polynomial.                                                         *)
(***************************************************************************)
EXTENDS Integers, Sequences, FiniteSetsExt

CONSTANTS
  kPacketMagic,   \* "BDUP"
  kMaxBatchSize,  \* largest batch, and size of the receive buffer
  Crc(_)          \* crc32_compute: of a whole batch whose crc field is 0

kPacketHeaderSize == 5

\* packet.hpp and common.hpp each define the 64 KiB limit.
kMaxPacketLength == kMaxBatchSize

ASSUME PacketAssumption ==
  /\ kPacketMagic \in Nat
  /\ kMaxBatchSize \in Nat
  /\ kMaxBatchSize >= kPacketHeaderSize

Word == Nat

\* An unset std::optional<uint32_t> batch total; no header can carry it.
NoTotal == 0

-----------------------------------------------------------------------------
\* data + i, to the end of the buffer
From(data, i) == SubSeq(data, i + 1, Len(data))

\* memcpy of the first bytes of a buffer into a PacketHeader
PacketHeader(data) ==
  [magic       |-> data[1],
   seq         |-> data[2],
   batch_total |-> data[3],
   length      |-> data[4],
   crc32       |-> data[5]]

batch_total_of(data) == PacketHeader(data).batch_total

batch_crc32(batch) == Crc([batch EXCEPT ![5] = 0])

header_meta_plausible(h) ==
  /\ h.batch_total # 0
  /\ h.seq < h.batch_total
  /\ h.length \in kPacketHeaderSize .. kMaxPacketLength

\* build_batch throws when the number does not fit the total.
SeqFits(seq, batch_total) == batch_total # 0 /\ seq < batch_total

\* The batch a sender builds around a payload.
build_batch(seq, batch_total, payload) ==
  LET bare == <<kPacketMagic, seq, batch_total,
                kPacketHeaderSize + Len(payload), 0>> \o payload
  IN  [bare EXCEPT ![5] = batch_crc32(bare)]

\* Mutant: the checksum is not compared.
ValidLength(data) ==
  /\ Len(data) >= kPacketHeaderSize
  /\ PacketHeader(data).magic = kPacketMagic
  /\ PacketHeader(data).length = Len(data)
  /\ header_meta_plausible(PacketHeader(data))

\* validate_batch(...) == Ok, the length received being Len(data)
ValidBatch(data) ==
  /\ Len(data) >= kPacketHeaderSize
  /\ PacketHeader(data).magic = kPacketMagic
  /\ PacketHeader(data).length = Len(data)
  /\ header_meta_plausible(PacketHeader(data))
  /\ PacketHeader(data).crc32 = batch_crc32(data)

\* Mutant: every plausible header belongs to the session.
AnySession(h, session_batch_total) == header_meta_plausible(h)

\* validate_batch_session(...) == Ok: the first plausible header fixes the
\* session's batch_total, later ones have to agree with it.
ValidSession(h, session_batch_total) ==
  /\ header_meta_plausible(h)
  /\ session_batch_total \in {NoTotal, h.batch_total}

\* 0 when there is no plausible header at the start of data
peek_batch_length(data) ==
  IF /\ Len(data) >= kPacketHeaderSize
     /\ PacketHeader(data).magic = kPacketMagic
     /\ header_meta_plausible(PacketHeader(data))
  THEN PacketHeader(data).length
  ELSE 0

-----------------------------------------------------------------------------
PlausibleAt(data, i) ==
  peek_batch_length(From(data, i)) \in kPacketHeaderSize .. kMaxBatchSize

\* The smallest of a set of offsets into data, Len(data) when there is none.
FirstOffset(offsets, data) == IF offsets = {} THEN Len(data) ELSE Min(offsets)

find_batch_header_offset(data) ==
  FirstOffset({i \in 0 .. Len(data) - kPacketHeaderSize : PlausibleAt(data, i)},
              data)

\* The rescan of a corrupt batch: from offset 1, only headers with a sequence
\* number of want_seq (a set: all of them when the code has no std::optional
\* value) that agree with the session's batch_total.
find_next_batch_header_offset(data, want_seq, wire_batch_total) ==
  FirstOffset({i \in 1 .. Len(data) - kPacketHeaderSize :
                 /\ PlausibleAt(data, i)
                 /\ PacketHeader(From(data, i)).seq \in want_seq
                 /\ ValidSession(PacketHeader(From(data, i)), wire_batch_total)},
              data)

=============================================================================
