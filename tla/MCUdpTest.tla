----------------------------- MODULE MCUdpTest -----------------------------
(***************************************************************************)
(* Tests of one and of two client runs.                                    *)
(***************************************************************************)
EXTENDS UdpTest, MCPackets

\* server, server --uro
MCIdle ==
  {[batchCount |-> NoCount, loop |-> FALSE, loopCount |-> NoCount,
    uro |-> uro] : uro \in BOOLEAN}

\* Payload words differ from each other and from every header field.
MCPayload(r, i, n) == [k \in 1 .. n |-> 100 * r + 10 * i + k]

ClientRun(count, size, mss) ==
  [batchCount |-> count, batchSize |-> size, mss |-> mss]

\* Segments longer and shorter than a header (a header in two and in three
\* segments), and unsegmented batches.
MCOneRun ==
  {<<ClientRun(3, 8, 6)>>, <<ClientRun(3, 7, 4)>>, <<ClientRun(2, 6, 2)>>,
   <<ClientRun(3, 7, 0)>>}

\* The size and the segment size change between the runs.
MCTwoRuns ==
  {<<ClientRun(2, 8, 6), ClientRun(2, 7, 0)>>,
   <<ClientRun(1, 6, 0), ClientRun(1, 11, 4)>>}

\* Two, three and four whole segments, with and without a rest.
MCManySegments ==
  {<<ClientRun(3, 12, 6)>>, <<ClientRun(2, 15, 6)>>, <<ClientRun(1, 24, 6)>>}

MCTests == MCOneRun \cup MCTwoRuns \cup MCManySegments

\* client --size 3m-h --mss m: the rest is as long as the first slice.
MCRestLikeFirst == {<<ClientRun(2, 13, 6)>>}

=============================================================================
