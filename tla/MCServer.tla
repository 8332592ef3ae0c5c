------------------------------ MODULE MCServer ------------------------------
(***************************************************************************)
(* The server process against any traffic, started with each of its modes. *)
(***************************************************************************)
EXTENDS Server, MCPackets

Idle(loop, loopCount, uro) ==
  [batchCount |-> NoCount, loop |-> loop, loopCount |-> loopCount, uro |-> uro]

Count(n, uro) ==
  [batchCount |-> n, loop |-> FALSE, loopCount |-> NoCount, uro |-> uro]

\* server, server --uro, server --loop 2, server --count n with and without
\* --uro; 3 is the last one that finalize_lost can count to.
MCModes ==
  {Idle(FALSE, NoCount, FALSE), Idle(FALSE, NoCount, TRUE),
   Idle(TRUE, 2, FALSE)}
    \cup {Count(n, uro) : n \in {1, 3}, uro \in BOOLEAN}

\* server --count 1, server --count 2: as Linux has them, and with --uro
MCCountModes    == {Count(n, FALSE) : n \in 1 .. 2}
MCUroCountModes == {Count(n, TRUE) : n \in 1 .. 2}

\* server, server --uro
MCPlainIdle == {Idle(FALSE, NoCount, FALSE)}
MCUroIdle == {Idle(FALSE, NoCount, TRUE)}

\* Batches of one --size: one in a datagram, one in two segments, the first of
\* which leaves it open, one of an older run, and an empty datagram.
MCTraffic ==
  {Batch(0, 2, 20, 8)} \cup Segments(Batch(1, 2, 30, 8), 6)
    \cup {Batch(2, 3, 90, 8)} \cup {<<>>}

\* The two batches of one run, one datagram each.
MCTwoBatches == {Short(0), Short(1)}

MCEmpty == {Short(0), <<>>}

=============================================================================
