----------------------------- MODULE MCUsoSend -----------------------------
(***************************************************************************)
(* Windows client runs of two and three batches, on hosts with one and two *)
(* networks.                                                               *)
(***************************************************************************)
EXTENDS UsoSend, TLC

MCUint32Values == 4

\* size, mss: plain by option, smaller than a segment, segmented
Shapes == {<<12, 0>>, <<5, 8>>, <<12, 5>>}

ClientRun(count, shape, noPktinfo, completionRoutine) ==
  [batchCount |-> count, batchSize |-> shape[1], mss |-> shape[2],
   noPktinfo |-> noPktinfo, completionRoutine |-> completionRoutine]

\* Of 6 batches the third has no number below a batch_total of two bits.
MCSendOptions ==
  {ClientRun(2, shape, no, routine) :
     shape \in Shapes, no \in BOOLEAN, routine \in BOOLEAN}
  \cup {ClientRun(3, <<12, 5>>, TRUE, TRUE)}
  \cup {ClientRun(6, <<12, 0>>, FALSE, FALSE)}

-----------------------------------------------------------------------------
\* Addresses: 10.1.* on interface 1, 10.2.* on interface 2
MCUnspecified == "0.0.0.0"
MCLoopback    == {"127.0.0.1"}
MCIPv6        == {"fe80::1"}
Peer          == "10.2.0.9"

Unicast(if_index, ipv6_if_index, up, address) ==
  [if_index |-> if_index, ipv6_if_index |-> ipv6_if_index, up |-> up,
   address |-> address]

\* Interface 9 is the loopback adapter.
Routes(one, two) ==
  ("10.1.0.1" :> one) @@ ("10.2.0.1" :> two) @@ (Peer :> two)
    @@ ("127.0.0.1" :> 9)

\* ipv6 is the IPv6 index of the first network's adapter.
Multihomed(down, ipv6) ==
  [unicast |-> <<Unicast(9, 9, TRUE, "127.0.0.1"),
                 Unicast(1, ipv6, TRUE, "fe80::1"),
                 Unicast(1, ipv6, TRUE, "10.1.0.1"),
                 Unicast(2, NoInterface, ~down, "10.2.0.1")>>,
   route   |-> Routes(1, 2)]

\* No route at all; an adapter without IPv4.
Isolated ==
  [unicast |-> <<Unicast(9, 9, TRUE, "127.0.0.1"),
                 Unicast(NoInterface, 3, TRUE, "fe80::1"),
                 Unicast(1, 1, TRUE, "10.1.0.1")>>,
   route   |-> Routes(NoInterface, NoInterface)]

\* The first network's adapter has the IPv6 index 2, which is the IPv4 index of
\* the second one's.
Colliding == Multihomed(FALSE, 2)

MCHosts == {Multihomed(FALSE, 1), Multihomed(TRUE, 4), Isolated, Colliding}

MCSources == {MCUnspecified, "10.1.0.1", "fe80::1"}

MCDestinations == {Peer, "127.0.0.1"}

MCOneHost    == {Multihomed(FALSE, 1)}
MCAutoSource == {MCUnspecified}
MCPeer       == {Peer}

-----------------------------------------------------------------------------
\* A kernel that decides each overlapped send at once, one that decides each
\* later, and one that does either.
MCAtOnce == {"at_once"}
MCEither == {"at_once", "later"}
MCKernels == {MCAtOnce, {"later"}, MCEither}

MCOnlyEither == {MCEither}

\* client --mss 5 --no-pktinfo --completion-routine
MCOneAttempt == {ClientRun(2, <<12, 5>>, TRUE, TRUE)}

=============================================================================
