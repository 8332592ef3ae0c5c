---------------------------- MODULE MCReassembly ----------------------------
(***************************************************************************)
(* Any traffic: the socket returns the segments of a few batches in any    *)
(* order, each any number of times.  Loss, duplication, reordering and     *)
(* interleaved senders are all special cases.                              *)
(***************************************************************************)
EXTENDS Reassembly, MCPackets

\* Two client runs with the same --count and different --size.  One segment of
\* a Long batch and one Short batch have together the length of a Long batch.
MCTwoSizes ==
  Segments(Long(0), 6) \cup Segments(Long(1), 6)
    \cup Segments(Short(0), 6) \cup Segments(Short(1), 6)

\* Segments shorter than the header, and a run with another --count.
MCSplitHeaders ==
  Segments(Short(0), 4) \cup Segments(Short(1), 4) \cup {<<>>}
    \cup Segments(Batch(0, 3, 90, 7), 7) \cup Segments(Batch(2, 3, 95, 7), 3)

MCAnyTraffic == MCTwoSizes \cup MCSplitHeaders

\* Batches that are nothing but a header (--size 20).
MCHeaderOnly ==
  {Batch(0, 2, 0, 5), Batch(1, 2, 0, 5)} \cup Segments(Short(1), 6)

=============================================================================
