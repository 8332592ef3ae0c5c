----------------------------- MODULE MCPackets ------------------------------
(***************************************************************************)
(* The packets of the model-checked instances: a magic number, a checksum  *)
(* that is cheap to evaluate, and batches of a handful of words.           *)
(***************************************************************************)
EXTENDS Integers, Sequences

MCMagic == 77

\* An order-sensitive checksum in the place of CRC-32.
MCCrc(batch) ==
  LET crc[i \in 0 .. Len(batch)] ==
        IF i = 0 THEN 1 ELSE (crc[i - 1] * 31 + batch[i]) % 65521
  IN  crc[Len(batch)]

LOCAL P == INSTANCE Packet
  WITH kPacketMagic <- MCMagic, kMaxBatchSize <- 16, Crc <- MCCrc

Batch(seq, total, payload, size) ==
  P!build_batch(seq, total,
                [i \in 1 .. size - P!kPacketHeaderSize |-> payload + i])

\* client.cpp: the datagrams of one batch, at most mss long each
Segments(batch, mss) ==
  {SubSeq(batch, mss * k + 1, IF mss * (k + 1) < Len(batch)
                              THEN mss * (k + 1) ELSE Len(batch)) :
     k \in 0 .. (Len(batch) - 1) \div mss}

Long(seq)  == Batch(seq, 2, 20 + 20 * seq, 12)
Short(seq) == Batch(seq, 2, 60 + 20 * seq, 6)

=============================================================================
