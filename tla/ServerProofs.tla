---------------------------- MODULE ServerProofs ----------------------------
(***************************************************************************)
(* What holds of the server process for every traffic, every set of        *)
(* options, and with one datagram or many in a read.                       *)
(***************************************************************************)
EXTENDS Server, StreamProofs

\* finalize_lost can count to what --count asks for.
CountsFit == \A o \in Options : o.batchCount <= Uint32Values

Closed == pc \in {"summary", "exited"}

\* What every state of the process has beyond its types: the reassembly and
\* the counters agree, and a session that is over has nothing open and has
\* counted as lost what was expected and not seen.
ServerInv ==
  /\ ServerTypeOK
  /\ ReassemblyConsistent
  /\ Accounting
  /\ Closed \/ pc = "finalizing" => active = FALSE
  /\ InSession \/ pc = "start" => lost = 0
  /\ Closed => lost = Cardinality(ExpectedSeqs \ seen_seq)

\* The part of the invariant that the lemmas about the reassembly need.
LEMMA ServerInvParts ==
  ASSUME ServerInv
  PROVE  /\ IInv
         /\ Accounting
         /\ options \in [batchCount : Nat, loop : BOOLEAN, loopCount : Nat,
                         uro : BOOLEAN]
         /\ options.batchCount \in Nat
BY ServerAssumption DEF ServerInv, ServerTypeOK, IInv

-----------------------------------------------------------------------------
(***************************************************************************)
(* A read of the socket                                                    *)
(***************************************************************************)

\* The quotient and the remainder of a position in rows of the same size.
LEMMA RowAndColumn ==
  ASSUME NEW size \in Nat \ {0}, NEW row \in Nat, NEW column \in 0 .. size - 1
  PROVE  /\ (row * size + column) \div size = row
         /\ (row * size + column) % size = column
<1> DEFINE n == row * size + column
<1>1. n \in Nat
  OBVIOUS
<1>2. /\ n \div size \in Int /\ n % size \in 0 .. size - 1
      /\ n = size * (n \div size) + (n % size)
  <2> HIDE DEF n
  <2> QED
    BY <1>1
<1>3. ASSUME NEW q \in Int, NEW r \in 0 .. size - 1, n = size * q + r
      PROVE  q = row /\ r = column
  <2>1. size * q + r = size * row + column
    BY <1>3
  <2>2. q <= row - 1 => size * q <= size * row - size
    <3>1. \A a, b \in Int : a <= b => size * a <= size * b
      OBVIOUS
    <3>2. size * (row - 1) = size * row - size
      OBVIOUS
    <3> QED
      BY <3>1, <3>2
  <2>3. q >= row + 1 => size * q >= size * row + size
    <3>1. \A a, b \in Int : a <= b => size * a <= size * b
      OBVIOUS
    <3>2. size * (row + 1) = size * row + size
      OBVIOUS
    <3> QED
      BY <3>1, <3>2
  <2>4. size * q \in Int /\ size * row \in Int
    OBVIOUS
  <2>5. q = row
    BY <2>1, <2>2, <2>3, <2>4
  <2> QED
    BY <2>1, <2>4, <2>5
<1> HIDE DEF n
<1>4. n \div size = row /\ n % size = column
  BY <1>2, <1>3
<1> QED
  BY <1>4 DEF n

LEMMA TimesSize ==
  ASSUME NEW size \in Nat, NEW k \in Nat
  PROVE  /\ k * size \in Nat
         /\ (k - 1) * size + size = k * size
         /\ k = 0 => k * size = 0
OBVIOUS

\* What the kernel coalesces is the datagrams joined.
LEMMA CoalescedIsJoin ==
  ASSUME NEW segments \in Seq(Seq(Word)), segments # <<>>,
         Coalescible(segments)
  PROVE  /\ Coalesced(segments) = FlattenSeq(segments)
         /\ Coalesced(segments) \in Seq(Word)
<1> DEFINE n == Len(segments)
           size == Len(Head(segments))
           word(i) == segments[((i - 1) \div size) + 1][((i - 1) % size) + 1]
           length(k) == (k - 1) * size + Len(segments[k])
           Holds(k) == k \in 1 .. n
                       => FlattenSeq(SubSeq(segments, 1, k)) =
                            [i \in 1 .. length(k) |-> word(i)]
           Good == {k \in Nat : Holds(k)}
<1>1. /\ n \in Nat /\ n >= 1
      /\ \A k \in 1 .. n : segments[k] \in Seq(Word) /\ Len(segments[k]) \in Nat
      /\ Head(segments) = segments[1]
  OBVIOUS
<1>2. /\ size \in Nat \ {0}
      /\ \A k \in 1 .. n : Len(segments[k]) <= size
      /\ \A k \in 1 .. n - 1 : Len(segments[k]) = size
  BY <1>1 DEF Coalescible
<1>3. ASSUME NEW k \in 1 .. n, NEW j \in 1 .. Len(segments[k])
      PROVE  word((k - 1) * size + j) = segments[k][j]
  <2> HIDE DEF n, size
  <2>1. k - 1 \in Nat /\ j - 1 \in 0 .. size - 1
    BY <1>1, <1>2
  <2>2. /\ ((k - 1) * size + (j - 1)) \div size = k - 1
        /\ ((k - 1) * size + (j - 1)) % size = j - 1
    BY <1>2, <2>1, RowAndColumn
  <2>3. ((k - 1) * size + j) - 1 = (k - 1) * size + (j - 1)
    BY <1>1, <1>2
  <2>4. (k - 1) + 1 = k /\ (j - 1) + 1 = j
    BY <1>1, <1>2
  <2> QED
    BY <2>2, <2>3, <2>4
<1>4. ASSUME NEW k \in Nat, Holds(k)
      PROVE  Holds(k + 1)
  <2> SUFFICES ASSUME k + 1 \in 1 .. n
               PROVE  FlattenSeq(SubSeq(segments, 1, k + 1)) =
                        [i \in 1 .. length(k + 1) |-> word(i)]
    OBVIOUS
  <2>1. /\ SubSeq(segments, 1, k) \in Seq(Seq(Word))
        /\ SubSeq(segments, 1, k + 1) =
             Append(SubSeq(segments, 1, k), segments[k + 1])
    BY <1>1
  <2>2. FlattenSeq(SubSeq(segments, 1, k + 1)) =
          FlattenSeq(SubSeq(segments, 1, k)) \o segments[k + 1]
    BY <1>1, <2>1, FlattenOfAppend
  <2> DEFINE before == FlattenSeq(SubSeq(segments, 1, k))
             next == segments[k + 1]
  <2>3. /\ before \in Seq(Word) /\ Len(before) \in Nat
        /\ next \in Seq(Word) /\ Len(next) \in Nat
    BY <1>1, <2>1, FlattenType, LenProperties
  <2>4. /\ Len(before) = k * size
        /\ \A i \in 1 .. k * size : before[i] = word(i)
    <3>1. CASE k = 0
      <4>1. SubSeq(segments, 1, k) = <<>>
        BY <3>1
      <4>2. before = <<>>
        BY <4>1, FlattenOfEmpty
      <4> HIDE DEF before, size, word
      <4> QED
        BY <1>2, <3>1, <4>2, TimesSize
    <3>2. CASE k # 0
      <4>1. k \in 1 .. n /\ Len(segments[k]) = size
        BY <1>1, <1>2, <3>2
      <4>2. length(k) = k * size
        <5> HIDE DEF size
        <5> QED
          BY <1>2, <4>1, TimesSize
      <4>3. before = [i \in 1 .. k * size |-> word(i)]
        BY <1>4, <4>1, <4>2
      <4> HIDE DEF before, size, word
      <4>4. k * size \in Nat
        BY <1>2, TimesSize
      <4> QED
        BY <4>3, <4>4
    <3> QED
      BY <3>1, <3>2
  <2>5. length(k + 1) = k * size + Len(next)
    OBVIOUS
  <2>6. \A i \in 1 .. Len(next) : word(k * size + i) = next[i]
    <3>1. (k + 1) - 1 = k
      OBVIOUS
    <3> QED
      BY <1>3, <3>1
  <2> HIDE DEF before, next, size, word, length, n, Holds, Good
  <2>7. k * size \in Nat
    BY <1>2, TimesSize
  <2>8. /\ before \o next \in Seq(Word)
        /\ Len(before \o next) = k * size + Len(next)
        /\ \A i \in 1 .. k * size + Len(next) :
             (before \o next)[i] = IF i <= k * size THEN before[i]
                                   ELSE next[i - k * size]
    <3>1. /\ before \o next \in Seq(Word)
          /\ Len(before \o next) = Len(before) + Len(next)
          /\ \A i \in 1 .. Len(before) + Len(next) :
               (before \o next)[i] = IF i <= Len(before) THEN before[i]
                                     ELSE next[i - Len(before)]
      BY <2>3, ConcatProperties
    <3> QED
      BY <2>4, <3>1
  <2>9. ASSUME NEW i \in 1 .. k * size + Len(next)
        PROVE  (before \o next)[i] = word(i)
    <3>1. CASE i <= k * size
      BY <2>4, <2>7, <2>8, <3>1
    <3>2. CASE ~(i <= k * size)
      <4>1. i - k * size \in 1 .. Len(next) /\ k * size + (i - k * size) = i
        BY <2>3, <2>7, <3>2
      <4> QED
        BY <2>6, <2>8, <3>2, <4>1
    <3> QED
      BY <3>1, <3>2
  <2>10. before \o next = [i \in 1 .. length(k + 1) |-> word(i)]
    <3>1. before \o next =
            [i \in 1 .. Len(before \o next) |-> (before \o next)[i]]
      BY <2>8, LenProperties
    <3> QED
      BY <2>5, <2>8, <2>9, <3>1
  <2> QED
    BY <2>2, <2>10 DEF before, next
<1>5. Good = Nat
  <2>1. Holds(0)
    BY <1>1
  <2> HIDE DEF Holds
  <2>2. Good \in SUBSET Nat /\ 0 \in Good /\ \A k \in Good : k + 1 \in Good
    BY <1>4, <2>1
  <2> HIDE DEF Good
  <2> QED
    BY <2>2, NatSetInduction
<1>6. FlattenSeq(SubSeq(segments, 1, n)) = [i \in 1 .. length(n) |-> word(i)]
  <2>1. Holds(n)
    <3> HIDE DEF Holds, n
    <3> QED
      BY <1>1, <1>5
  <2> QED
    BY <1>1, <2>1
<1>7. SubSeq(segments, 1, n) = segments
  BY SubSeqFull
<1>8. Coalesced(segments) = [i \in 1 .. length(n) |-> word(i)]
  BY DEF Coalesced
<1> QED
  BY <1>6, <1>7, <1>8, FlattenType

\* What finalize_lost counts is finite.
LEMMA ExpectedFinite ==
  ASSUME ServerInv
  PROVE  /\ IsFiniteSet(ExpectedSeqs)
         /\ IsFiniteSet(ExpectedSeqs \ seen_seq)
         /\ Cardinality(ExpectedSeqs \ seen_seq) \in Nat
<1>1. LastExpected \in Int
  <2>1. options.batchCount \in Nat /\ Uint32Values \in Nat \ {0}
        /\ wire_batch_total \in Nat /\ highest_seq \in Nat
    BY ServerInvParts, ServerAssumption DEF IInv, TypeOK
  <2> QED
    BY <2>1 DEF LastExpected
<1>2. IsFiniteSet(ExpectedSeqs)
  BY <1>1, FS_Interval, FS_EmptySet DEF ExpectedSeqs
<1> QED
  BY <1>2, FS_Difference, FS_CardinalityType

\* The process starts with nothing received and nothing lost.
LEMMA ServerInitEstablishesInv == ServerInit => ServerInv
<1> SUFFICES ASSUME ServerInit PROVE ServerInv
  OBVIOUS
<1>1. IInv /\ Accounting
  BY InitEstablishesIInv, InitEstablishesAccounting DEF ServerInit
<1>2. <<>> \in Seq(Datagrams)
  BY EmptySeq
<1> QED
  BY <1>1, <1>2 DEF ServerInit, Init, ServerInv, ServerTypeOK, IInv, Control,
                    Closed, InSession

\* The end of a session leaves no batch open, and the rest of the reassembly
\* as it is.
LEMMA EndSessionPreservesIInv ==
  ASSUME IInv, EndSession
  PROVE  IInv' /\ active' = FALSE
<1>1. CASE active
  <2>1. /\ reset_reassembly /\ bad_batches' = bad_batches + 1
        /\ active' = FALSE
        /\ UNCHANGED <<batches, fragments, sequence_stats, wire_batch_total,
                       calls, history>>
    BY <1>1 DEF EndSession, reset_reassembly
  <2> QED
    BY <2>1, ResetConsistent DEF IInv, TypeOK, sequence_stats, history
<1>2. CASE ~active
  <2>1. UNCHANGED vars /\ active' = FALSE
    BY <1>2 DEF EndSession, vars, reassembly, IInv, TypeOK
  <2> QED
    BY <2>1, StutterPreservesIInv
<1> QED
  BY <1>1, <1>2

\* It counts the open batch as bad.
LEMMA EndSessionPreservesAccounting ==
  ASSUME IInv, Accounting, EndSession
  PROVE  Accounting'
<1>1. CASE active
  <2>1. /\ bad_batches' = bad_batches + 1 /\ bad_batches \in Nat
        /\ active = TRUE /\ active' = FALSE
        /\ UNCHANGED <<batches, sequence_stats, wire_batch_total, history>>
    BY <1>1 DEF EndSession, reset_reassembly, IInv, TypeOK
  <2>2. OpenedBatchesAccountedFor'
    BY <2>1 DEF OpenedBatchesAccountedFor, Accounting, IInv, TypeOK, history
  <2>3. BatchAccounting' /\ OneTotalPerSession'
    BY <2>1 DEF BatchAccounting, OneTotalPerSession, Accounting, sequence_stats
  <2> QED
    BY <2>2, <2>3 DEF Accounting
<1>2. CASE ~active
  <2>1. UNCHANGED <<active, batches, bad_batches, duplicates, out_of_order,
                    seen_seq, wire_batch_total, opened>>
    BY <1>2 DEF EndSession, reassembly, sequence_stats, history
  <2> QED
    BY <2>1, QuietStepPreservesAccounting
<1> QED
  BY <1>1, <1>2

\* So the session is over with the invariant intact, its summary to be printed
\* or finalize_lost in a loop that does not end.
LEMMA EndSessionPreservesInv ==
  ASSUME ServerInv, InSession, EndSession, calls = <<>>,
         socket' \in Seq(Datagrams)
  PROVE  ServerInv'
<1>1. IInv' /\ Accounting' /\ active' = FALSE
  BY ServerInvParts, EndSessionPreservesIInv, EndSessionPreservesAccounting
<1>2. /\ ExpectedSeqs' = ExpectedSeqs /\ seen_seq' = seen_seq
      /\ UNCHANGED <<options, idle_deadline, session, arrived, calls>>
  BY DEF EndSession, ExpectedSeqs, NothingExpected, LastExpected, CountMode,
         have_seq, sequence_stats
<1>3. lost = 0 /\ Cardinality(ExpectedSeqs \ seen_seq) \in Nat
  BY ExpectedFinite DEF ServerInv
<1>4. \/ pc' = "finalizing" /\ lost' = lost
      \/ pc' = "summary" /\ lost' = lost + Cardinality(ExpectedSeqs \ seen_seq)
  BY DEF EndSession, finalize_lost
<1>5. ServerTypeOK'
  BY <1>1, <1>2, <1>3, <1>4 DEF ServerInv, ServerTypeOK, IInv, Control
<1> QED
  BY <1>1, <1>2, <1>3, <1>4, <1>5
     DEF ServerInv, IInv, Closed, InSession

\* A step that leaves everything about the reassembly and the counters alone.
LEMMA QuietPreservesParts ==
  ASSUME ServerInv, UNCHANGED <<vars, options>>
  PROVE  /\ IInv' /\ Accounting'
         /\ Cardinality(ExpectedSeqs \ seen_seq)' =
              Cardinality(ExpectedSeqs \ seen_seq)
         /\ active' = active /\ calls' = calls
<1>1. IInv'
  BY ServerInvParts, StutterPreservesIInv
<1>2. UNCHANGED <<active, batches, bad_batches, duplicates, out_of_order,
                  seen_seq, wire_batch_total, opened, calls, highest_seq,
                  options>>
  BY DEF vars, reassembly, sequence_stats, history
<1>3. Accounting'
  BY <1>2, ServerInvParts, QuietStepPreservesAccounting
<1>4. ExpectedSeqs' = ExpectedSeqs /\ seen_seq' = seen_seq
  BY <1>2 DEF ExpectedSeqs, NothingExpected, LastExpected, CountMode, have_seq
<1> QED
  BY <1>1, <1>2, <1>3, <1>4

\* Turns of the loop that only move on, and the clock.
LEMMA TurnPreservesInv ==
  ASSUME ServerInv,
         \/ Start \/ LoopTurns \/ Readable \/ IngestDone \/ ReceiveFails
         \/ DeadlinePasses
  PROVE  ServerInv'
<1>1. UNCHANGED <<vars, options, session, lost, network>>
  BY DEF Start, LoopTurns, Readable, IngestDone, ReceiveFails, DeadlinePasses,
         GoTo
<1>2. /\ IInv' /\ Accounting'
      /\ Cardinality(ExpectedSeqs \ seen_seq)' =
           Cardinality(ExpectedSeqs \ seen_seq)
      /\ active' = active /\ calls' = calls
  BY <1>1, QuietPreservesParts
<1>3. /\ pc' \in Control
      /\ idle_deadline' \in {"unset", "pending", "passed"}
      /\ calls # <<>> => pc' = "ingest"
      /\ Closed' => Closed
      /\ pc' = "finalizing" => pc = "finalizing"
      /\ InSession' \/ pc' = "start" => InSession \/ pc = "start"
  BY DEF Start, LoopTurns, Readable, IngestDone, ReceiveFails, DeadlinePasses,
         GoTo, ServerInv, ServerTypeOK, Control, Closed, InSession
<1>4. ServerTypeOK'
  BY <1>1, <1>2, <1>3 DEF ServerInv, ServerTypeOK, IInv, network
<1> QED
  BY <1>1, <1>2, <1>3, <1>4 DEF ServerInv, IInv

\* A datagram reaches the socket.
LEMMA ArrivePreservesInv ==
  ASSUME ServerInv, NEW d \in Datagrams, Arrive(d)
  PROVE  ServerInv'
<1>1. UNCHANGED <<vars, control>> /\ arrived' = arrived + 1
      /\ socket' \in Seq(Datagrams)
  BY DEF Arrive, ServerInv, ServerTypeOK
<1>2. /\ IInv' /\ Accounting'
      /\ Cardinality(ExpectedSeqs \ seen_seq)' =
           Cardinality(ExpectedSeqs \ seen_seq)
      /\ active' = active /\ calls' = calls
  BY <1>1, QuietPreservesParts DEF control
<1>3. ServerTypeOK'
  BY <1>1, <1>2 DEF ServerInv, ServerTypeOK, IInv, control
<1> QED
  BY <1>1, <1>2, <1>3 DEF ServerInv, IInv, control, Closed, InSession

\* Steps of ingest_fragment.
LEMMA IngestStepPreservesInv ==
  ASSUME ServerInv, IngestStep
  PROVE  ServerInv'
<1>1. IInv' /\ Accounting'
  BY ServerInvParts, NextPreservesIInv, NextPreservesAccounting
     DEF IngestStep, Next
<1>2. pc = "ingest" /\ UNCHANGED <<control, network>>
  BY DEF IngestStep
<1>3. ServerTypeOK'
  BY <1>1, <1>2 DEF ServerInv, ServerTypeOK, IInv, control, network
<1> QED
  BY <1>1, <1>2, <1>3 DEF ServerInv, IInv, control, Closed, InSession

\* A read hands over words, whatever they are.
LEMMA ReadPreservesInv ==
  ASSUME ServerInv, pc = "recv", NEW d \in Seq(Word), ReceiveDatagram(d),
         socket' \in Seq(Datagrams), GoTo("ingest"), UNCHANGED arrived
  PROVE  ServerInv'
<1>1. IInv'
  BY ServerInvParts, ReceiveDatagramPreservesIInv
<1>2. Accounting'
  <2>1. UNCHANGED <<active, batches, bad_batches, duplicates, out_of_order,
                    seen_seq, wire_batch_total, opened>>
    BY DEF ReceiveDatagram, reassembly, sequence_stats
  <2> QED
    BY <2>1, ServerInvParts, QuietStepPreservesAccounting
<1>3. ServerTypeOK'
  BY <1>1 DEF ServerInv, ServerTypeOK, IInv, GoTo, Control
<1> QED
  BY <1>1, <1>2, <1>3 DEF ServerInv, IInv, GoTo, Closed, InSession

\* recvfrom, WSARecvMsg with coalescing, and the empty datagram it passes over.
LEMMA ReceivePreservesInv ==
  ASSUME ServerInv, ReceiveOne \/ ReceiveCoalesced \/ ReceiveEmpty
  PROVE  ServerInv'
<1>1. socket \in Seq(Datagrams)
  BY DEF ServerInv, ServerTypeOK
<1>2. CASE ReceiveOne
  <2>1. Head(socket) \in Seq(Word) /\ socket' \in Seq(Datagrams)
    BY <1>1, <1>2, ReassemblyAssumption DEF ReceiveOne
  <2> QED
    BY <1>2, <2>1, ReadPreservesInv DEF ReceiveOne
<1>3. CASE ReceiveCoalesced
  <2>1. PICK k \in DOMAIN socket :
          /\ Coalescible(SubSeq(socket, 1, k))
          /\ ReceiveDatagram(Coalesced(SubSeq(socket, 1, k)))
          /\ socket' = From(socket, k)
    BY <1>3 DEF ReceiveCoalesced
  <2>2. SubSeq(socket, 1, k) \in Seq(Seq(Word)) /\ SubSeq(socket, 1, k) # <<>>
    BY <1>1, ReassemblyAssumption, SubSeqProperties
  <2>3. socket' \in Seq(Datagrams)
    BY <1>1, <2>1, SubSeqProperties DEF From
  <2>4. Coalesced(SubSeq(socket, 1, k)) \in Seq(Word)
    BY <2>1, <2>2, CoalescedIsJoin
  <2> QED
    BY <1>3, <2>1, <2>3, <2>4, ReadPreservesInv DEF ReceiveCoalesced
<1>4. CASE ReceiveEmpty
  <2>1. /\ pc = "recv" /\ calls = <<>> /\ InSession
        /\ socket' \in Seq(Datagrams)
    BY <1>1, <1>4 DEF ReceiveEmpty, ServerInv, ServerTypeOK, InSession
  <2>2. CASE EndSession
    BY <2>1, <2>2, EndSessionPreservesInv
  <2>3. CASE GoTo("top") /\ UNCHANGED <<vars, arrived>>
    <3>1. /\ IInv' /\ Accounting'
          /\ calls' = calls
      BY <2>3, QuietPreservesParts DEF GoTo
    <3>2. ServerTypeOK'
      BY <2>1, <2>3, <3>1 DEF ServerInv, ServerTypeOK, IInv, GoTo, Control
    <3> QED
      BY <2>1, <2>3, <3>1, <3>2 DEF ServerInv, IInv, GoTo, Closed, InSession
  <2> QED
    BY <1>4, <2>2, <2>3 DEF ReceiveEmpty
<1> QED
  BY <1>2, <1>3, <1>4

\* The three ways out of the receive loop.
LEMMA LoopExitPreservesInv ==
  ASSUME ServerInv, LoopEnds \/ PollTimesOut \/ PollFails \/ ReceiveTimesOut
  PROVE  ServerInv'
<1>1. /\ InSession /\ calls = <<>> /\ EndSession
      /\ socket' \in Seq(Datagrams)
  BY DEF LoopEnds, PollTimesOut, PollFails, ReceiveTimesOut, ServerInv, ServerTypeOK,
         InSession
<1> QED
  BY <1>1, EndSessionPreservesInv

\* The next session starts with an empty reassembly.
LEMMA NextSessionPreservesIInv ==
  ASSUME IInv, NextSession
  PROVE  IInv'
<1>1. CASE pc' = "exited" /\ UNCHANGED <<vars, idle_deadline, lost>>
  BY <1>1, StutterPreservesIInv
<1>2. CASE pc' = "top"
  <2>1. /\ batches' = 0 /\ fragments' = 0 /\ bad_batches' = 0
        /\ duplicates' = 0 /\ out_of_order' = 0
        /\ seen_seq' = {} /\ highest_seq' = 0
        /\ wire_batch_total' = NoTotal
        /\ reset_reassembly
        /\ datagrams' = 0 /\ opened' = 0 /\ accepted' = <<>>
        /\ UNCHANGED calls
    BY <1>2 DEF NextSession
  <2>2. accepted' \in Seq(Seq(Word)) /\ NoTotal \in Nat
    BY <2>1, EmptySeq DEF NoTotal
  <2> QED
    BY <2>1, <2>2, ResetConsistent DEF IInv, TypeOK
<1> QED
  BY <1>1, <1>2 DEF NextSession

\* run_server starts the next session afresh, or returns.
LEMMA NextSessionPreservesInv ==
  ASSUME ServerInv, NextSession
  PROVE  ServerInv'
<1>1. /\ pc = "summary" /\ calls = <<>>
      /\ session' \in Nat
      /\ UNCHANGED <<options, network>>
  BY DEF NextSession, ServerInv, ServerTypeOK
<1>2. CASE pc' = "exited" /\ UNCHANGED <<vars, idle_deadline, lost>>
  <2>1. /\ IInv' /\ Accounting'
        /\ Cardinality(ExpectedSeqs \ seen_seq)' =
             Cardinality(ExpectedSeqs \ seen_seq)
        /\ active' = active /\ calls' = calls
    BY <1>1, <1>2, QuietPreservesParts
  <2>2. ServerTypeOK'
    BY <1>1, <1>2, <2>1 DEF ServerInv, ServerTypeOK, IInv, network, Control
  <2> QED
    BY <1>1, <1>2, <2>1, <2>2 DEF ServerInv, IInv, Closed, InSession
<1>3. CASE pc' = "top"
  <2>1. /\ pc' = "top" /\ idle_deadline' = "unset" /\ lost' = 0
        /\ batches' = 0 /\ fragments' = 0 /\ bad_batches' = 0
        /\ duplicates' = 0 /\ out_of_order' = 0
        /\ seen_seq' = {} /\ highest_seq' = 0
        /\ wire_batch_total' = NoTotal
        /\ reset_reassembly
        /\ datagrams' = 0 /\ opened' = 0 /\ accepted' = <<>>
        /\ UNCHANGED calls
    BY <1>3 DEF NextSession
  <2>2. active' = FALSE
    BY <2>1 DEF reset_reassembly
  <2>3. IInv'
    BY ServerInvParts, NextSessionPreservesIInv
  <2>4. Accounting'
    BY <2>1, <2>2, FS_EmptySet
       DEF Accounting, BatchAccounting, OneTotalPerSession,
           OpenedBatchesAccountedFor
  <2>5. ServerTypeOK'
    BY <1>1, <2>1, <2>3 DEF ServerInv, ServerTypeOK, IInv, network, Control
  <2> QED
    BY <2>1, <2>3, <2>4, <2>5 DEF ServerInv, IInv, Closed, InSession
<1> QED
  BY <1>2, <1>3 DEF NextSession

\* Every step of the process and of its environment keeps the invariant.
LEMMA ServerNextPreservesInv ==
  ASSUME ServerInv, [ServerNext]_server_vars
  PROVE  ServerInv'
<1>1. CASE UNCHANGED server_vars
  <2>1. UNCHANGED <<vars, control, network>>
    BY <1>1 DEF server_vars
  <2>2. /\ IInv' /\ Accounting'
        /\ Cardinality(ExpectedSeqs \ seen_seq)' =
             Cardinality(ExpectedSeqs \ seen_seq)
        /\ active' = active /\ calls' = calls
    BY <2>1, QuietPreservesParts DEF control
  <2>3. ServerTypeOK'
    BY <2>1, <2>2 DEF ServerInv, ServerTypeOK, IInv, control, network
  <2> QED
    BY <2>1, <2>2, <2>3 DEF ServerInv, IInv, control, Closed, InSession
<1>2. CASE ServerNext
  BY <1>2, TurnPreservesInv, ArrivePreservesInv, IngestStepPreservesInv,
     ReceivePreservesInv, LoopExitPreservesInv, NextSessionPreservesInv
     DEF ServerNext, ServerStep
<1> QED
  BY <1>1, <1>2

-----------------------------------------------------------------------------
(***************************************************************************)
(* Theorems                                                                *)
(***************************************************************************)

\* The server process keeps the reassembly's invariant and the balance of its
\* counters through every session, mode, timeout and read.
THEOREM ServerInvariance == ServerSpec => []ServerInv
<1>1. ServerInv /\ [ServerNext]_server_vars => ServerInv'
  BY ServerNextPreservesInv
<1> QED
  BY <1>1, ServerInitEstablishesInv, PTL DEF ServerSpec

\* Type correctness: no counter of the summary, lost included, is ever
\* negative, and ingest_fragment has returned whenever the loop looks at its
\* conditions.
THEOREM ServerTypeCorrect == ServerSpec => []ServerTypeOK
<1>1. ServerInv => ServerTypeOK
  BY DEF ServerInv
<1> QED
  BY <1>1, ServerInvariance, PTL

-----------------------------------------------------------------------------
(***************************************************************************)
(* The summary, as long as --count fits into 32 bits                       *)
(***************************************************************************)

\* What finalize_lost expects is the run the summary is about.
LEMMA ExpectedIsRun ==
  ASSUME ServerInv, CountsFit
  PROVE  /\ Account!RunSize \in Nat
         /\ ExpectedSeqs = 0 .. Account!RunSize - 1
<1>1. /\ options \in Options /\ options.batchCount \in Nat
      /\ wire_batch_total \in Nat /\ seen_seq \subseteq Nat
      /\ \A seq \in seen_seq : seq < wire_batch_total
  BY ServerInvParts
     DEF ServerInv, ServerTypeOK, TypeOK, Accounting, OneTotalPerSession
<1>2. CASE CountMode
  <2>1. options.batchCount - 1 \in 0 .. Uint32Values - 1
    BY <1>1, <1>2, ServerAssumption DEF CountsFit, CountMode, NoCount
  <2>2. LastExpected = options.batchCount - 1
    <3>1. \A v \in Nat \ {0}, x \in Int : x \in 0 .. v - 1 => x % v = x
      OBVIOUS
    <3> QED
      BY <1>2, <2>1, <3>1, ServerAssumption DEF LastExpected
  <2> QED
    BY <1>1, <1>2, <2>2
       DEF ExpectedSeqs, NothingExpected, Account!RunSize, CountMode, NoCount
<1>3. CASE ~CountMode /\ wire_batch_total # NoTotal
  BY <1>1, <1>3 DEF ExpectedSeqs, NothingExpected, LastExpected,
                    Account!RunSize, CountMode, NoCount
<1>4. CASE ~CountMode /\ wire_batch_total = NoTotal
  <2>1. seen_seq = {}
    BY <1>1, <1>4 DEF NoTotal
  <2>2. ExpectedSeqs = {} /\ Account!RunSize = 0
    BY <1>4, <2>1 DEF ExpectedSeqs, NothingExpected, Account!RunSize,
                      CountMode, NoCount, have_seq, NoTotal
  <2> QED
    BY <2>2
<1> QED
  BY <1>2, <1>3, <1>4

\* Of n sequence numbers each was seen or not; what was seen beyond them only
\* adds to the count.
LEMMA SeenAndMissing ==
  ASSUME NEW n \in Nat, NEW S, IsFiniteSet(S)
  PROVE  /\ Cardinality((0 .. n - 1) \ S) \in Nat
         /\ Cardinality(S) + Cardinality((0 .. n - 1) \ S) >= n
         /\ S \subseteq 0 .. n - 1
              => Cardinality(S) + Cardinality((0 .. n - 1) \ S) = n
<1> DEFINE E == 0 .. n - 1
<1>1. IsFiniteSet(E) /\ Cardinality(E) = n
  BY FS_Interval
<1>2. IsFiniteSet(E \ S) /\ Cardinality(E \ S) \in Nat
      /\ Cardinality(S) \in Nat
  BY <1>1, FS_Difference, FS_CardinalityType
<1>3. /\ IsFiniteSet(S \cup (E \ S))
      /\ Cardinality(S \cup (E \ S)) = Cardinality(S) + Cardinality(E \ S)
  <2>1. S \cap (E \ S) = {}
    OBVIOUS
  <2> DEFINE D == E \ S
  <2>2. Cardinality(S \cap D) = 0
    BY <2>1, FS_EmptySet
  <2>3. IsFiniteSet(D) /\ Cardinality(D) \in Nat /\ Cardinality(S) \in Nat
    BY <1>2
  <2> HIDE DEF D
  <2>4. /\ IsFiniteSet(S \cup D)
        /\ Cardinality(S \cup D) =
             Cardinality(S) + Cardinality(D) - Cardinality(S \cap D)
    BY <2>3, FS_Union
  <2>5. Cardinality(S \cup D) = Cardinality(S) + Cardinality(D)
    BY <2>2, <2>3, <2>4
  <2> QED
    BY <2>4, <2>5 DEF D
<1>4. n <= Cardinality(S \cup (E \ S))
  <2>1. E \in SUBSET (S \cup (E \ S))
    OBVIOUS
  <2> HIDE DEF E
  <2> QED
    BY <1>1, <1>3, <2>1, FS_Subset
<1>5. S \subseteq E => S \cup (E \ S) = E
  OBVIOUS
<1> HIDE DEF E
<1>6. S \subseteq E => Cardinality(S) + Cardinality(E \ S) = n
  BY <1>1, <1>3, <1>5
<1>7. Cardinality(S) + Cardinality(E \ S) >= n
  BY <1>2, <1>3, <1>4
<1> QED
  BY <1>2, <1>6, <1>7 DEF E

\* The invariant makes the summary balance.
LEMMA InvBalances ==
  ASSUME ServerInv, CountsFit
  PROVE  SummaryBalances
<1> SUFFICES ASSUME pc = "summary" PROVE SummaryBalances
  BY DEF SummaryBalances
<1> DEFINE n == Account!RunSize
           missing == Cardinality((0 .. n - 1) \ seen_seq)
<1>1. /\ batches \in Nat /\ duplicates \in Nat /\ bad_batches \in Nat
      /\ wire_batch_total \in Nat /\ options.batchCount \in Nat
      /\ seen_seq \subseteq Nat
  BY ServerInvParts DEF ServerInv, ServerTypeOK, TypeOK
<1>2. /\ active = FALSE
      /\ lost = Cardinality(ExpectedSeqs \ seen_seq)
  BY DEF ServerInv, Closed
<1>3. n \in Nat /\ lost = missing
  BY <1>2, ExpectedIsRun
<1>4. /\ IsFiniteSet(seen_seq)
      /\ batches = duplicates + Cardinality(seen_seq)
      /\ \A seq \in seen_seq : seq < wire_batch_total
      /\ opened = batches + bad_batches
  BY <1>1, <1>2 DEF ServerInv, Accounting, BatchAccounting,
                    OneTotalPerSession, OpenedBatchesAccountedFor
<1>5. Cardinality(seen_seq) \in Nat
  BY <1>4, FS_CardinalityType
<1>6. batches - duplicates = Cardinality(seen_seq)
  BY <1>1, <1>4, <1>5
<1>7. /\ Cardinality(seen_seq) + missing >= n
      /\ seen_seq \subseteq 0 .. n - 1 => Cardinality(seen_seq) + missing = n
  BY <1>3, <1>4, SeenAndMissing
<1>8. wire_batch_total <= n => seen_seq \subseteq 0 .. n - 1
  <2> HIDE DEF n
  <2> QED
    BY <1>1, <1>3, <1>4
<1>9. n = IF CountMode THEN options.batchCount ELSE wire_batch_total
  BY DEF Account!RunSize, CountMode, NoCount
<1> HIDE DEF n, missing
<1>10. wire_batch_total <= n => Cardinality(seen_seq) + missing = n
  BY <1>7, <1>8
<1>11. CASE CountMode
  BY <1>1, <1>2, <1>3, <1>4, <1>6, <1>7, <1>9, <1>10, <1>11
     DEF SummaryBalances
<1>12. CASE ~CountMode
  BY <1>1, <1>2, <1>3, <1>4, <1>6, <1>9, <1>10, <1>12 DEF SummaryBalances
<1> QED
  BY <1>11, <1>12

\* The summary line balances: every opened batch is good or bad, and every
\* batch of the run is counted or lost (server.cpp:200-233, 685-766).
THEOREM SummaryAlwaysBalances ==
  ASSUME CountsFit
  PROVE  ServerSpec => []SummaryBalances
<1>1. ServerInv => SummaryBalances
  BY InvBalances
<1> QED
  BY <1>1, ServerInvariance, PTL

-----------------------------------------------------------------------------
(***************************************************************************)
(* The server implements the ledger: each action of the one is an action   *)
(* of the other or a stutter.                                              *)
(***************************************************************************)

\* Ledger counts sets as FiniteSets does.
LEMMA SameCardinality ==
  ASSUME NEW S
  PROVE  Account!Cardinality(S) = Cardinality(S)
BY DEF Account!Cardinality, Cardinality

\* A process that starts has an account of nothing.
LEMMA InitRefines ==
  ServerInit => Account!LedgerInit
<1> SUFFICES ASSUME ServerInit PROVE Account!LedgerInit
  OBVIOUS
<1>1. options.batchCount \in Nat
  BY ServerAssumption DEF ServerInit
<1> QED
  BY <1>1 DEF ServerInit, Init, InitStats, InitReassembly, NoTotal,
              Account!LedgerInit

\* A step of ingest_fragment opens an entry, settles one, or is not seen.
LEMMA IngestRefines ==
  ASSUME ServerInv, IngestStep
  PROVE  Account!LedgerNext \/ UNCHANGED Account!ledger
<1>1. /\ IInv /\ wire_batch_total \in Nat
      /\ pc = "ingest" /\ Ingest
      /\ UNCHANGED <<options, pc, lost>>
  BY ServerInvParts DEF IngestStep, control, IInv, TypeOK
<1>2. (pc \in {"summary", "exited"}) = FALSE
  BY <1>1
<1>3. CASE AcceptHeader
  <2>1. Scanning /\ HeaderInReach /\ CandidateAccepted
    BY <1>3 DEF AcceptHeader
  <2>2. PacketHeader(Candidate).batch_total \in Nat \ {0}
    BY <1>1, <2>1, CandidateProperties, PeekProperties DEF CandidateAccepted
  <2>3. /\ wire_batch_total' = PacketHeader(Candidate).batch_total
        /\ wire_batch_total \in {0, PacketHeader(Candidate).batch_total}
    BY <1>3 DEF AcceptHeader, CandidateAccepted, ValidSession, NoTotal
  <2>4. /\ ~active /\ active' = TRUE
        /\ UNCHANGED <<seen_seq, duplicates, bad_batches>>
    BY <1>3 DEF AcceptHeader, Scanning, sequence_stats
  <2>5. active = FALSE
    BY <1>1, <2>4 DEF IInv, TypeOK
  <2>6. Account!OpenEntry
    BY <1>1, <1>2, <2>2, <2>3, <2>4, <2>5 DEF Account!OpenEntry
  <2> QED
    BY <2>6 DEF Account!LedgerNext
<1>4. CASE CountBatch
  <2> DEFINE seq == PacketHeader(Assembled).seq
  <2>1. Collecting /\ Len(unread) >= space /\ track_sequence(seq)
    BY <1>4 DEF CountBatch
  <2>2. seq \in Nat /\ seq < wire_batch_total
    BY <1>1, <2>1, AssembledProperties, OpenHeaderProperties
  <2>3. seq \in 0 .. wire_batch_total - 1
    BY <1>1, <2>2
  <2> HIDE DEF seq
  <2>4. /\ seen_seq' = seen_seq \cup {seq}
        /\ duplicates' = IF seq \in seen_seq THEN duplicates + 1
                                             ELSE duplicates
    BY <2>1 DEF track_sequence
  <2>5. /\ active /\ active' = FALSE
        /\ UNCHANGED <<bad_batches, wire_batch_total>>
    BY <1>4 DEF CountBatch, Collecting, reset_reassembly
  <2>6. Account!SettleBatch
    BY <1>1, <1>2, <2>3, <2>4, <2>5 DEF Account!SettleBatch
  <2> QED
    BY <2>6 DEF Account!LedgerNext
<1>5. CASE DropBatch \/ SalvageTail
  <2>1. /\ active /\ active' = FALSE /\ bad_batches' = bad_batches + 1
        /\ UNCHANGED <<wire_batch_total, seen_seq, duplicates>>
    BY <1>5 DEF DropBatch, SalvageTail, Collecting, reset_reassembly,
                sequence_stats
  <2>2. Account!SettleBad
    BY <1>1, <1>2, <2>1 DEF Account!SettleBad
  <2> QED
    BY <2>2 DEF Account!LedgerNext
<1>6. CASE RetainTail \/ SplitHeader \/ RejectHeader \/ CopyFragment
  <2>1. UNCHANGED <<wire_batch_total, active, seen_seq, duplicates,
                    bad_batches>>
    BY <1>6 DEF RetainTail, SplitHeader, RejectHeader, CopyFragment,
                sequence_stats
  <2> QED
    BY <1>1, <2>1 DEF Account!ledger
<1> QED
  BY <1>1, <1>3, <1>4, <1>5, <1>6 DEF Ingest

\* The end of a session closes the account; when finalize_lost does not end,
\* the open entry is settled as bad and the account stays open.
LEMMA EndSessionRefines ==
  ASSUME ServerInv, CountsFit, InSession, EndSession
  PROVE  Account!LedgerNext \/ UNCHANGED Account!ledger
<1>1. /\ active \in BOOLEAN /\ lost = 0
      /\ (pc \in {"summary", "exited"}) = FALSE
  BY DEF ServerInv, ServerTypeOK, TypeOK, InSession
<1>2. /\ UNCHANGED <<options, wire_batch_total, seen_seq, duplicates>>
      /\ bad_batches' = IF active THEN bad_batches + 1 ELSE bad_batches
      /\ active' = FALSE
  BY <1>1, ServerInvParts, EndSessionPreservesIInv DEF EndSession, sequence_stats
<1>3. CASE pc' = "summary" /\ finalize_lost
  <2>1. Cardinality(ExpectedSeqs \ seen_seq) \in Nat
    BY ExpectedFinite
  <2>2. lost' = Cardinality(ExpectedSeqs \ seen_seq)
    BY <1>1, <1>3, <2>1 DEF finalize_lost
  <2>3. lost' = Cardinality((0 .. Account!RunSize - 1) \ seen_seq)
    BY <2>2, ExpectedIsRun
  <2>4. Account!CloseAccount
    BY <1>1, <1>2, <1>3, <2>3, SameCardinality DEF Account!CloseAccount
  <2> QED
    BY <2>4 DEF Account!LedgerNext
<1>4. CASE pc' = "finalizing" /\ UNCHANGED lost
  <2>1. CASE active
    <3>1. Account!SettleBad
      BY <1>1, <1>2, <1>4, <2>1 DEF Account!SettleBad
    <3> QED
      BY <3>1 DEF Account!LedgerNext
  <2>2. CASE ~active
    <3>1. bad_batches' = bad_batches /\ active = FALSE
      BY <1>1, <1>2, <2>2
    <3>2. active' = active /\ lost' = lost
      BY <1>2, <1>4, <3>1
    <3>3. (pc' \in {"summary", "exited"}) = FALSE
      BY <1>4
    <3>4. UNCHANGED Account!ledger
      BY <1>1, <1>2, <3>1, <3>2, <3>3 DEF Account!ledger
    <3> QED
      BY <3>4
  <2> QED
    BY <2>1, <2>2
<1> QED
  BY <1>3, <1>4 DEF EndSession

\* The next session is a new account; a process that returns leaves it closed.
LEMMA NextSessionRefines ==
  ASSUME ServerInv, NextSession
  PROVE  Account!LedgerNext \/ UNCHANGED Account!ledger
<1>1. pc = "summary" /\ UNCHANGED options
  BY DEF NextSession
<1>2. CASE pc' = "exited" /\ UNCHANGED <<vars, lost>>
  BY <1>1, <1>2 DEF Account!ledger, vars, reassembly, sequence_stats
<1>3. CASE pc' = "top"
  <2>1. /\ wire_batch_total' = 0 /\ active' = FALSE /\ seen_seq' = {}
        /\ duplicates' = 0 /\ bad_batches' = 0 /\ lost' = 0
    BY <1>3 DEF NextSession, reset_reassembly, NoTotal
  <2>2. Account!NextAccount
    BY <1>1, <1>3, <2>1 DEF Account!NextAccount
  <2> QED
    BY <2>2 DEF Account!LedgerNext
<1> QED
  BY <1>2, <1>3 DEF NextSession

\* The account does not see the other steps.
LEMMA QuietRefines ==
  ASSUME ServerInv,
         UNCHANGED <<options, wire_batch_total, active, seen_seq, duplicates,
                     bad_batches, lost>>,
         Closed' <=> Closed
  PROVE  UNCHANGED Account!ledger
BY DEF Account!ledger, Closed

\* Every step of the server is a step of the ledger or a stutter.
LEMMA StepRefines ==
  ASSUME ServerInv, CountsFit, [ServerNext]_server_vars
  PROVE  Account!LedgerNext \/ UNCHANGED Account!ledger
<1> DEFINE Quiet == UNCHANGED <<options, wire_batch_total, active, seen_seq,
                                duplicates, bad_batches, lost>>
<1>1. CASE IngestStep
  BY <1>1, IngestRefines
<1>2. CASE LoopEnds \/ PollTimesOut \/ PollFails \/ ReceiveTimesOut
           \/ (ReceiveEmpty /\ EndSession)
  BY <1>2, EndSessionRefines
     DEF LoopEnds, PollTimesOut, PollFails, ReceiveTimesOut, ReceiveEmpty, InSession
<1>3. CASE NextSession
  BY <1>3, NextSessionRefines
<1>4. CASE Start \/ LoopTurns \/ Readable \/ IngestDone \/ ReceiveFails
           \/ DeadlinePasses
  <2>1. UNCHANGED <<vars, options, lost>>
    BY <1>4 DEF Start, LoopTurns, Readable, IngestDone, ReceiveFails,
                DeadlinePasses, GoTo
  <2>2. Quiet
    BY <2>1 DEF vars, reassembly, sequence_stats
  <2>3. Closed' <=> Closed
    BY <1>4 DEF Start, LoopTurns, Readable, IngestDone, ReceiveFails,
                DeadlinePasses, GoTo, Closed
  <2> QED
    BY <2>2, <2>3, QuietRefines
<1>5. CASE ReceiveOne \/ ReceiveCoalesced
  <2>1. PICK d : ReceiveDatagram(d)
    BY <1>5 DEF ReceiveOne, ReceiveCoalesced
  <2>2. Quiet
    BY <1>5, <2>1 DEF ReceiveOne, ReceiveCoalesced, GoTo, ReceiveDatagram,
                      reassembly, sequence_stats
  <2>3. Closed' <=> Closed
    BY <1>5 DEF ReceiveOne, ReceiveCoalesced, GoTo, Closed
  <2> QED
    BY <2>2, <2>3, QuietRefines
<1>6. CASE ReceiveEmpty /\ ~EndSession
  <2>1. GoTo("top") /\ UNCHANGED vars /\ pc = "recv"
    BY <1>6 DEF ReceiveEmpty
  <2>2. Quiet /\ (Closed' <=> Closed)
    BY <2>1 DEF GoTo, vars, reassembly, sequence_stats, Closed
  <2> QED
    BY <2>2, QuietRefines
<1>7. CASE \E d \in Datagrams : Arrive(d)
  <2>1. UNCHANGED <<vars, control>>
    BY <1>7 DEF Arrive
  <2>2. Quiet /\ (Closed' <=> Closed)
    BY <2>1 DEF vars, control, reassembly, sequence_stats, Closed
  <2> QED
    BY <2>2, QuietRefines
<1>8. CASE UNCHANGED server_vars
  <2>1. Quiet /\ (Closed' <=> Closed)
    BY <1>8 DEF server_vars, vars, control, reassembly, sequence_stats, Closed
  <2> QED
    BY <2>1, QuietRefines
<1> QED
  BY <1>1, <1>2, <1>3, <1>4, <1>5, <1>6, <1>7, <1>8
     DEF ServerNext, ServerStep

\* The server keeps the account that Ledger promises, whatever arrives, in
\* every mode, as long as --count fits into 32 bits (server.cpp:180-223,
\* 249-359, 468-549, 662-768, 804-828).
THEOREM ServerImplementsLedger ==
  ASSUME CountsFit
  PROVE  ServerSpec => ImplementsLedger
<1>1. ServerInv /\ [ServerNext]_server_vars
        => [Account!LedgerNext]_(Account!ledger)
  BY StepRefines
<1> QED
  BY <1>1, InitRefines, ServerInvariance, PTL
     DEF ServerSpec, ImplementsLedger, Account!LedgerSpec

-----------------------------------------------------------------------------
(***************************************************************************)
(* Count mode, for traffic of one batch size and without --uro             *)
(***************************************************************************)

\* Every magic number starts a whole header that announces size words.
HeadersAnnounce(words, size) ==
  \A p \in DOMAIN words :
    words[p] = kPacketMagic => p + 4 <= Len(words) /\ words[p + 3] = size

\* Words enough for two batches are never there at once, and once the last batch
\* is counted there are less than one; a batch that is open lacks a word.
CountInv(size) ==
  /\ HeadersAnnounce(Pending, size)
  /\ Len(Pending) < 2 * size
  /\ active => filled < expected
  /\ CountMode =>
       /\ batches <= options.batchCount
       /\ batches = options.batchCount => Len(Pending) < size
       /\ pc \in {"poll", "recv"} => batches < options.batchCount

\* A datagram of such traffic announces the size.
LEMMA TrafficAnnounces ==
  ASSUME NEW size, TrafficOfSize(size), NEW d \in Datagrams
  PROVE  /\ d \in Seq(Word) /\ Len(d) \in Nat /\ Len(d) <= size
         /\ HeadersAnnounce(d, size)
<1>1. d \in Seq(Word) /\ Len(d) \in Nat /\ Len(d) <= size
  BY ReassemblyAssumption, LenProperties DEF TrafficOfSize
<1>2. ASSUME NEW p \in DOMAIN d, d[p] = kPacketMagic
      PROVE  p + 4 <= Len(d) /\ d[p + 3] = size
  <2>1. p = 1 /\ Len(d) >= 5 /\ d[4] = size
    BY <1>2 DEF TrafficOfSize, kPacketHeaderSize
  <2> QED
    BY <1>1, <2>1
<1> QED
  BY <1>1, <1>2 DEF HeadersAnnounce

\* So does what is left of such words,
LEMMA FromAnnounces ==
  ASSUME NEW size, NEW a \in Seq(Word), HeadersAnnounce(a, size),
         NEW n \in 0 .. Len(a)
  PROVE  HeadersAnnounce(From(a, n), size)
<1>1. Len(a) \in Nat /\ n \in Nat /\ n <= Len(a)
  BY LenProperties
<1> DEFINE b == From(a, n)
<1>2. /\ b \in Seq(Word) /\ Len(b) = Len(a) - n
      /\ \A i \in 1 .. Len(a) - n : b[i] = a[n + i]
  BY <1>1, FromElements
<1> HIDE DEF b
<1>3. ASSUME NEW p \in DOMAIN b, b[p] = kPacketMagic
      PROVE  p + 4 <= Len(b) /\ b[p + 3] = size
  <2>1. p \in 1 .. Len(a) - n /\ b[p] = a[n + p] /\ n + p \in DOMAIN a
    BY <1>1, <1>2
  <2>2. n + p + 4 <= Len(a) /\ a[n + p + 3] = size
    BY <1>3, <2>1 DEF HeadersAnnounce
  <2>3. p \in Nat /\ p >= 1 /\ n + p + 4 <= Len(a)
    BY <1>1, <2>1, <2>2
  <2>4. p + 3 \in 1 .. Len(a) - n /\ n + (p + 3) = n + p + 3
        /\ p + 4 <= Len(a) - n
    BY <1>1, <2>3
  <2>5. b[p + 3] = a[n + (p + 3)]
    BY <1>2, <2>4
  <2> QED
    BY <1>2, <2>2, <2>4, <2>5
<1> QED
  BY <1>3 DEF b, HeadersAnnounce

\* and one such sequence behind the other.
LEMMA ConcatAnnounces ==
  ASSUME NEW size, NEW a \in Seq(Word), NEW b \in Seq(Word),
         HeadersAnnounce(a, size), HeadersAnnounce(b, size)
  PROVE  HeadersAnnounce(a \o b, size)
<1>1. Len(a) \in Nat /\ Len(b) \in Nat
  BY LenProperties
<1> DEFINE c == a \o b
<1>2. /\ c \in Seq(Word) /\ Len(c) = Len(a) + Len(b)
      /\ \A i \in 1 .. Len(a) + Len(b) :
           c[i] = IF i <= Len(a) THEN a[i] ELSE b[i - Len(a)]
  BY ConcatProperties
<1> HIDE DEF c
<1>3. ASSUME NEW p \in DOMAIN c, c[p] = kPacketMagic
      PROVE  p + 4 <= Len(c) /\ c[p + 3] = size
  <2>1. p \in 1 .. Len(a) + Len(b)
    BY <1>1, <1>2
  <2>2. CASE p <= Len(a)
    <3>1. p \in DOMAIN a /\ c[p] = a[p]
      BY <1>1, <1>2, <2>1, <2>2
    <3>2. p + 4 <= Len(a) /\ a[p + 3] = size
      BY <1>3, <3>1 DEF HeadersAnnounce
    <3>3. p + 3 \in 1 .. Len(a) + Len(b) /\ p + 3 <= Len(a)
          /\ p + 4 <= Len(a) + Len(b)
      BY <1>1, <2>1, <3>2
    <3> QED
      BY <1>2, <3>2, <3>3
  <2>3. CASE ~(p <= Len(a))
    <3> DEFINE q == p - Len(a)
    <3>1. q \in DOMAIN b /\ c[p] = b[q]
      BY <1>1, <1>2, <2>1, <2>3
    <3>2. q + 4 <= Len(b) /\ b[q + 3] = size
      BY <1>3, <3>1 DEF HeadersAnnounce
    <3>3. p + 3 \in 1 .. Len(a) + Len(b) /\ ~(p + 3 <= Len(a))
          /\ p + 3 - Len(a) = q + 3 /\ p + 4 <= Len(a) + Len(b)
      BY <1>1, <2>1, <2>3, <3>2
    <3> QED
      BY <1>2, <3>2, <3>3
  <2> QED
    BY <2>2, <2>3
<1> QED
  BY <1>3 DEF c, HeadersAnnounce

\* The batch that is open has the size announced.
LEMMA OpenHasSize ==
  ASSUME NEW size, IInv, active, HeadersAnnounce(Pending, size)
  PROVE  expected = size
<1>1. /\ buffer \in Seq(Word) /\ Len(buffer) \in Nat
      /\ filled \in Nat /\ 5 <= filled /\ filled <= Len(buffer)
      /\ buffer[1] = kPacketMagic /\ buffer[4] = expected
  BY LenProperties DEF IInv, TypeOK, ReassemblyConsistent, PacketHeader,
                       kPacketHeaderSize
<1>2. /\ Collected \in Seq(Word) /\ Len(Collected) = filled
      /\ \A i \in 1 .. filled : Collected[i] = buffer[i]
  <2>1. \A k \in 1 .. filled : buffer[k] \in Word
    BY <1>1, ElementOfSeq
  <2> QED
    BY <1>1, <2>1, SubSeqProperties DEF Collected
<1>3. /\ Pending \in Seq(Word)
      /\ Len(Pending) = Len(Collected) + Len(FlattenSeq(calls))
      /\ Len(FlattenSeq(calls)) \in Nat
      /\ \A i \in 1 .. Len(Collected) + Len(FlattenSeq(calls)) :
           Pending[i] = IF i <= Len(Collected) THEN Collected[i]
                        ELSE FlattenSeq(calls)[i - Len(Collected)]
  <2>1. FlattenSeq(calls) \in Seq(Word)
    BY PendingType
  <2> QED
    BY <1>2, <2>1, ConcatProperties, LenProperties DEF Pending
<1>4. Pending[1] = kPacketMagic /\ Pending[4] = expected /\ 1 \in DOMAIN Pending
  BY <1>1, <1>2, <1>3
<1>5. Pending[1 + 3] = size
  BY <1>4 DEF HeadersAnnounce
<1> QED
  BY <1>4, <1>5

\* So has the one that a header opens.
LEMMA AcceptedHasSize ==
  ASSUME NEW size, IInv, AcceptHeader, HeadersAnnounce(Pending, size)
  PROVE  expected' = size
<1> DEFINE tail == From(unread, Skipped + Lacking) \o Below
           words == From(Pending, Skipped)
<1>1. /\ Scanning /\ HeaderInReach /\ calls # <<>>
      /\ peek_batch_length(Candidate) # 0
      /\ expected' = peek_batch_length(Candidate)
  BY DEF AcceptHeader, Scanning, CandidateAccepted
<1>2. Candidate \in Seq(Word) /\ Len(Candidate) = 5
  BY <1>1, CandidateProperties DEF kPacketHeaderSize
<1>3. /\ Skipped \in 0 .. Len(Pending)
      /\ words = Candidate \o tail /\ tail \in Seq(Word)
  <2>1. /\ Skipped \in Nat /\ Skipped + kPacketHeaderSize <= Len(Pending)
        /\ From(unread, Skipped + Lacking) \in Seq(Word)
        /\ words = Candidate \o tail
    BY <1>1, CandidateInStream
  <2>2. Len(Pending) \in Nat /\ Below \in Seq(Word)
    BY <1>1, PendingType, StackAsWords, LenProperties
  <2> QED
    BY <2>1, <2>2, ConcatProperties DEF kPacketHeaderSize
<1>4. Candidate[1] = kPacketMagic /\ Candidate[4] = peek_batch_length(Candidate)
  BY <1>1, <1>2, PeekProperties DEF PacketHeader
<1>5. HeadersAnnounce(words, size)
  BY <1>3, PendingType, FromAnnounces
<1> HIDE DEF words, tail
<1>6. /\ words \in Seq(Word) /\ Len(words) = 5 + Len(tail) /\ Len(tail) \in Nat
      /\ words[1] = Candidate[1] /\ words[4] = Candidate[4]
  <2>1. /\ words \in Seq(Word) /\ Len(words) = Len(Candidate) + Len(tail)
        /\ Len(tail) \in Nat
        /\ \A i \in 1 .. Len(Candidate) + Len(tail) :
             words[i] = IF i <= Len(Candidate) THEN Candidate[i]
                        ELSE tail[i - Len(Candidate)]
    BY <1>2, <1>3, ConcatProperties, LenProperties
  <2>2. 1 \in 1 .. 5 + Len(tail) /\ 4 \in 1 .. 5 + Len(tail)
    BY <2>1
  <2> QED
    BY <1>2, <2>1, <2>2
<1>7. 1 \in DOMAIN words /\ 1 + 3 = 4
  BY <1>6
<1> QED
  BY <1>1, <1>4, <1>5, <1>6, <1>7 DEF HeadersAnnounce

\* Between two datagrams less than a batch is waiting.
LEMMA LessThanABatchWaits ==
  ASSUME NEW size \in Nat, size > kPacketHeaderSize,
         IInv, calls = <<>>, HeadersAnnounce(Pending, size),
         active => filled < expected
  PROVE  Len(Pending) < size
<1>1. Pending = Collected
  BY PendingType
<1>2. CASE active
  <2>1. expected = size
    BY <1>2, OpenHasSize
  <2>2. buffer \in Seq(Word) /\ filled \in Nat /\ filled <= Len(buffer)
        /\ Len(buffer) \in Nat
    BY <1>2, LenProperties DEF IInv, TypeOK, ReassemblyConsistent
  <2>3. \A k \in 1 .. filled : buffer[k] \in Word
    BY <2>2, ElementOfSeq
  <2>4. Len(Collected) = filled
    BY <1>2, <2>2, <2>3, SubSeqProperties DEF Collected
  <2> QED
    BY <1>1, <1>2, <2>1, <2>4
<1>3. CASE ~active
  <2>1. buffer \in Seq(Word) /\ Len(buffer) \in Nat /\ Len(buffer) < 5
    BY <1>3, LenProperties DEF IInv, TypeOK, ReassemblyConsistent, kPacketHeaderSize
  <2> QED
    BY <1>1, <1>3, <2>1 DEF Collected, kPacketHeaderSize
<1> QED
  BY <1>2, <1>3

\* Ingesting a datagram completes a batch when one is there, and then none is.
LEMMA IngestKeepsCount ==
  ASSUME ServerInv, IngestStep,
         NEW size \in Nat, size > kPacketHeaderSize, CountInv(size)
  PROVE  CountInv(size)'
<1>1. /\ IInv /\ IInv' /\ Ingest
      /\ pc' = "ingest" /\ options' = options
      /\ options.batchCount \in Nat /\ batches \in Nat
  BY ServerInvParts, NextPreservesIInv
     DEF IngestStep, Next, control, IInv, TypeOK
<1>2. Pending \in Seq(Word) /\ Len(Pending) \in Nat
  BY <1>1, PendingType, LenProperties
<1>3. PICK n \in 0 .. Len(Pending) : Pending' = From(Pending, n)
  BY <1>1, IngestShortens
<1>4. HeadersAnnounce(Pending', size)
  BY <1>2, <1>3, FromAnnounces DEF CountInv
<1>5. Len(Pending') \in Nat /\ Len(Pending') <= Len(Pending)
  <2>1. n \in Nat /\ n <= Len(Pending)
    BY <1>2
  <2>2. From(Pending, n) \in Seq(Word) /\ Len(From(Pending, n)) = Len(Pending) - n
    BY <1>2, <2>1, FromElements
  <2> QED
    BY <1>2, <1>3, <2>1, <2>2
<1>6. active' => filled' < expected'
  <2>1. CASE RetainTail \/ SplitHeader \/ RejectHeader
    BY <1>1, <2>1 DEF RetainTail, SplitHeader, RejectHeader, Scanning, IInv, TypeOK
  <2>2. CASE AcceptHeader
    <3>1. active' /\ filled' = kPacketHeaderSize
      BY <2>2 DEF AcceptHeader
    <3>2. expected' = size
      BY <1>1, <2>2, AcceptedHasSize DEF CountInv
    <3> QED
      BY <3>1, <3>2
  <2>3. CASE CopyFragment
    <3>1. /\ Len(unread) \in Nat /\ Len(unread) < expected - filled
          /\ filled' = filled + Len(unread) /\ expected' = expected
          /\ filled \in Nat /\ expected \in Nat
      BY <1>1, <2>3, CallProperties
         DEF CopyFragment, Collecting, space, IInv, TypeOK
    <3> QED
      BY <3>1
  <2>4. CASE CountBatch \/ DropBatch \/ SalvageTail
    BY <2>4 DEF CountBatch, DropBatch, SalvageTail, reset_reassembly
  <2> QED
    BY <1>1, <2>1, <2>2, <2>3, <2>4 DEF Ingest
<1>7. ASSUME CountMode
      PROVE  /\ batches' <= options.batchCount
             /\ batches' = options.batchCount => Len(Pending') < size
  <2>1. CASE CountBatch
    <3>1. active /\ batches' = batches + 1
      BY <2>1 DEF CountBatch, Collecting
    <3>2. expected = size
      BY <1>1, <3>1, OpenHasSize DEF CountInv
    <3>3. size <= Len(Pending) /\ Len(Pending') = Len(Pending) - size
      BY <1>1, <2>1, <3>2, CountBatchShortens
    <3>4. batches # options.batchCount /\ batches <= options.batchCount
          /\ Len(Pending) < 2 * size
      BY <1>2, <1>7, <3>3 DEF CountInv
    <3> QED
      BY <1>1, <1>2, <3>1, <3>3, <3>4
  <2>2. CASE ~CountBatch
    <3>1. batches' = batches
      BY <1>1, <2>2
         DEF Ingest, RetainTail, SplitHeader, RejectHeader, AcceptHeader,
             CopyFragment, DropBatch, SalvageTail
    <3> QED
      BY <1>1, <1>2, <1>5, <1>7, <3>1 DEF CountInv
  <2> QED
    BY <2>1, <2>2
<1>8. Len(Pending') < 2 * size
  BY <1>2, <1>5 DEF CountInv
<1>9. CountMode' = CountMode
  BY <1>1 DEF CountMode
<1> QED
  BY <1>1, <1>4, <1>6, <1>7, <1>8, <1>9 DEF CountInv, HeadersAnnounce

\* A datagram is read when the last batch is still to come and less than one is
\* waiting.
LEMMA ReadKeepsCount ==
  ASSUME ServerInv, ReceiveOne,
         NEW size \in Nat, size > kPacketHeaderSize, TrafficOfSize(size),
         CountInv(size)
  PROVE  CountInv(size)'
<1>1. /\ IInv /\ pc = "recv" /\ pc' = "ingest" /\ options' = options
      /\ options.batchCount \in Nat /\ batches \in Nat
      /\ socket \in Seq(Datagrams) /\ socket # <<>>
      /\ ReceiveDatagram(Head(socket))
  BY ServerInvParts
     DEF ReceiveOne, GoTo, ServerInv, ServerTypeOK, IInv, TypeOK
<1>2. Head(socket) \in Datagrams
  BY <1>1, HeadTailProperties
<1> DEFINE d == Head(socket)
<1> HIDE DEF d
<1>3. /\ d \in Seq(Word) /\ Len(d) \in Nat /\ Len(d) <= size
      /\ HeadersAnnounce(d, size)
      /\ Pending' = Pending \o d
  <2>1. d \in Datagrams /\ ReceiveDatagram(d)
    BY <1>1, <1>2 DEF d
  <2> QED
    BY <1>1, <2>1, TrafficAnnounces, ReceiveIsAppend
<1>4. Pending \in Seq(Word) /\ Len(Pending) \in Nat /\ Len(Pending) < size
  <2>1. calls = <<>>
    BY <1>1 DEF ReceiveDatagram
  <2> QED
    BY <1>1, <2>1, PendingType, LenProperties, LessThanABatchWaits DEF CountInv
<1>5. HeadersAnnounce(Pending', size)
  BY <1>3, <1>4, ConcatAnnounces DEF CountInv
<1>6. Len(Pending') < 2 * size
  <2>1. Len(Pending') = Len(Pending) + Len(d)
    BY <1>3, <1>4, ConcatProperties
  <2> QED
    BY <1>3, <1>4, <2>1
<1>7. UNCHANGED <<active, filled, expected, batches>> /\ CountMode' = CountMode
  BY <1>1 DEF ReceiveDatagram, reassembly, CountMode
<1>8. CountMode => batches < options.batchCount
  BY <1>1 DEF CountInv
<1> QED
  BY <1>1, <1>5, <1>6, <1>7, <1>8 DEF CountInv, HeadersAnnounce

\* Steps that touch neither the buffer nor the counters; the loop goes on to a
\* read only when the last batch is still to come.
LEMMA QuietKeepsCount ==
  ASSUME NEW size, CountInv(size), UNCHANGED <<vars, options>>,
         pc' \in {"poll", "recv"} /\ CountMode => batches < options.batchCount
  PROVE  CountInv(size)'
BY DEF CountInv, HeadersAnnounce, vars, reassembly, history, Pending, Collected,
       CountMode

\* The end of a session and the start of the next one leave nothing open.
LEMMA SessionKeepsCount ==
  ASSUME ServerInv, EndSession \/ NextSession, calls = <<>>,
         NEW size \in Nat, size > kPacketHeaderSize, CountInv(size)
  PROVE  CountInv(size)'
<1>1. /\ IInv /\ options' = options /\ CountMode' = CountMode
      /\ options.batchCount \in Nat /\ batches \in Nat /\ calls' = calls
  BY ServerInvParts DEF EndSession, NextSession, CountMode, IInv, TypeOK, vars
<1>2. ASSUME reset_reassembly PROVE Pending' = <<>> /\ active' = FALSE
  <2>1. Collected' = <<>> /\ calls' = <<>> /\ active' = FALSE
    BY <1>1, <1>2 DEF reset_reassembly, Collected
  <2> QED
    BY <2>1, FlattenOfEmpty DEF Pending
<1>3. ASSUME Pending' = <<>>, active' = FALSE,
             CountMode => batches' <= options.batchCount,
             pc' \notin {"poll", "recv"}
      PROVE  CountInv(size)'
  <2>1. HeadersAnnounce(Pending', size) /\ Len(Pending') = 0
    BY <1>3 DEF HeadersAnnounce
  <2>2. 0 < size /\ 0 < 2 * size
    BY DEF kPacketHeaderSize
  <2> QED
    BY <1>1, <1>3, <2>1, <2>2 DEF CountInv, HeadersAnnounce
<1>4. CASE EndSession
  <2>1. batches' = batches /\ pc' \in {"finalizing", "summary"}
    BY <1>4 DEF EndSession
  <2>2. CASE active
    BY <1>2, <1>3, <1>4, <2>1, <2>2 DEF EndSession, CountInv
  <2>3. CASE ~active
    <3>1. UNCHANGED <<buffer, filled, expected, active>>
      BY <1>4, <2>3 DEF EndSession, reassembly
    <3>2. Pending' = Pending
      BY <1>1, <3>1 DEF Pending, Collected
    <3> QED
      BY <1>1, <2>1, <3>1, <3>2 DEF CountInv, HeadersAnnounce
  <2> QED
    BY <2>2, <2>3
<1>5. CASE NextSession
  <2>1. CASE UNCHANGED vars /\ pc' = "exited"
    BY <1>1, <2>1, QuietKeepsCount
  <2>2. CASE reset_reassembly /\ batches' = 0 /\ pc' = "top"
    BY <1>1, <1>2, <1>3, <2>2
  <2> QED
    BY <1>5, <2>1, <2>2 DEF NextSession
<1> QED
  BY <1>4, <1>5

\* Every step keeps the invariant.
LEMMA ServerNextKeepsCount ==
  ASSUME ServerInv, [ServerNext]_server_vars, ~options.uro,
         NEW size \in Nat, size > kPacketHeaderSize, TrafficOfSize(size),
         CountInv(size)
  PROVE  CountInv(size)'
<1>1. CASE Start \/ Readable \/ IngestDone \/ ReceiveFails \/ DeadlinePasses
  <2>1. /\ UNCHANGED <<vars, options>>
        /\ pc' \in {"poll", "recv"} => pc \in {"poll", "recv"}
    BY <1>1 DEF Start, Readable, IngestDone, ReceiveFails, DeadlinePasses, GoTo
  <2> QED
    BY <2>1, QuietKeepsCount DEF CountInv
<1>2. CASE LoopTurns
  <2>1. UNCHANGED <<vars, options>> /\ ~Finished
    BY <1>2 DEF LoopTurns, GoTo
  <2>2. CountMode => batches < options.batchCount
    BY <2>1, ServerInvParts DEF Finished, IInv, TypeOK
  <2> QED
    BY <2>1, <2>2, QuietKeepsCount
<1>3. CASE LoopEnds \/ PollTimesOut \/ PollFails \/ ReceiveTimesOut \/ NextSession
  <2>1. calls = <<>>
    BY <1>3 DEF LoopEnds, PollTimesOut, PollFails, ReceiveTimesOut,
                NextSession, ServerInv,
                ServerTypeOK
  <2> QED
    BY <1>3, <2>1, SessionKeepsCount
    DEF LoopEnds, PollTimesOut, PollFails, ReceiveTimesOut
<1>4. CASE ReceiveOne
  BY <1>4, ReadKeepsCount
<1>5. CASE ReceiveCoalesced \/ ReceiveEmpty
  BY <1>5 DEF ReceiveCoalesced, ReceiveEmpty
<1>6. CASE IngestStep
  BY <1>6, IngestKeepsCount
<1>7. CASE \E d \in Datagrams : Arrive(d)
  <2>1. UNCHANGED <<vars, options, pc>>
    BY <1>7 DEF Arrive, control
  <2> QED
    BY <2>1, QuietKeepsCount DEF CountInv
<1>8. CASE UNCHANGED server_vars
  <2>1. UNCHANGED <<vars, options, pc>>
    BY <1>8 DEF server_vars, control
  <2> QED
    BY <2>1, QuietKeepsCount DEF CountInv
<1> QED
  BY <1>1, <1>2, <1>3, <1>4, <1>5, <1>6, <1>7, <1>8 DEF ServerNext, ServerStep

\* The invariant for whichever size the traffic has.
CountsOneSize ==
  \A size \in kPacketHeaderSize + 1 .. kMaxBatchSize :
    TrafficOfSize(size) /\ ~options.uro => CountInv(size)

\* Count mode without --uro never counts more batches than --count says, for
\* every traffic of batches of one size (server.cpp:249-359, 666-682).
THEOREM CountIsKept == ServerSpec => []CountKept
<1>1. \A size \in kPacketHeaderSize + 1 .. kMaxBatchSize :
        size \in Nat /\ size > kPacketHeaderSize
  BY PacketAssumption DEF kPacketHeaderSize
<1>2. ServerInit => CountsOneSize
  <2> SUFFICES ASSUME ServerInit,
                      NEW size \in kPacketHeaderSize + 1 .. kMaxBatchSize
               PROVE  CountInv(size)
    BY DEF CountsOneSize
  <2>1. /\ Pending = <<>> /\ active = FALSE /\ batches = 0 /\ pc = "start"
    BY FlattenOfEmpty
       DEF ServerInit, Init, InitStats, InitReassembly, Pending, Collected
  <2>2. options.batchCount \in Nat
    BY ServerAssumption DEF ServerInit
  <2>3. Len(Pending) = 0 /\ 0 < size /\ 0 < 2 * size
    BY <1>1, <2>1 DEF kPacketHeaderSize
  <2> QED
    BY <2>1, <2>2, <2>3 DEF CountInv, HeadersAnnounce
<1>3. ServerInv /\ CountsOneSize /\ [ServerNext]_server_vars => CountsOneSize'
  <2> SUFFICES ASSUME ServerInv, CountsOneSize, [ServerNext]_server_vars,
                      NEW size \in kPacketHeaderSize + 1 .. kMaxBatchSize,
                      TrafficOfSize(size), ~options'.uro
               PROVE  CountInv(size)'
    BY DEF CountsOneSize, TrafficOfSize
  <2>1. options' = options
    BY DEF ServerNext, ServerStep, server_vars, control, Start, GoTo, LoopEnds,
           LoopTurns, Readable, PollTimesOut, PollFails, ReceiveOne, ReceiveCoalesced,
           ReceiveEmpty, ReceiveTimesOut, ReceiveFails, IngestStep, IngestDone,
           NextSession, DeadlinePasses, Arrive, EndSession
  <2> QED
    BY <1>1, <2>1, ServerNextKeepsCount DEF CountsOneSize
<1>4. CountsOneSize => CountKept
  BY DEF CountsOneSize, CountKept, OneSizeTraffic, CountNotExceeded, CountInv
<1> QED
  BY <1>2, <1>3, <1>4, ServerInvariance, PTL DEF ServerSpec

=============================================================================
