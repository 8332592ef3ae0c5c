---------------------------- MODULE StreamProofs ----------------------------
(***************************************************************************)
(* The reassembly implements the abstract receiver of Stream: what the     *)
(* buffer has collected, and what the calls under way have still to read,  *)
(* is one stream, and each turn of the loop is a step on its front.        *)
(***************************************************************************)
EXTENDS ReassemblyProofs

-----------------------------------------------------------------------------
(***************************************************************************)
(* Lemmas about sequences of words and the headers they start with         *)
(***************************************************************************)

\* Concatenations of words may be regrouped.
LEMMA Regrouped ==
  \A a, b, c \in Seq(Word) : (a \o b) \o c = a \o (b \o c)
<1> SUFFICES ASSUME NEW a \in Seq(Word), NEW b \in Seq(Word), NEW c \in Seq(Word)
             PROVE  (a \o b) \o c = a \o (b \o c)
  OBVIOUS
<1> QED
  BY ConcatAssociative

\* The words that From returns.
LEMMA FromElements ==
  ASSUME NEW data \in Seq(Word), NEW n \in Nat, n <= Len(data)
  PROVE  /\ From(data, n) \in Seq(Word)
         /\ Len(From(data, n)) = Len(data) - n
         /\ \A i \in 1 .. Len(data) - n : From(data, n)[i] = data[n + i]
<1>1. Len(data) \in Nat
  BY LenProperties
<1>2. \A k \in n + 1 .. Len(data) : data[k] \in Word
  BY <1>1, ElementOfSeq
<1>3. n + 1 \in Int /\ Len(data) \in Int
  BY <1>1
<1>4. \A i \in 1 .. Len(data) - (n + 1) + 1 :
        SubSeq(data, n + 1, Len(data))[i] = data[n + 1 + i - 1]
  BY <1>2, <1>3, SubSeqProperties
<1>5. ASSUME NEW i \in 1 .. Len(data) - n
      PROVE  From(data, n)[i] = data[n + i]
  <2>1. i \in 1 .. Len(data) - (n + 1) + 1 /\ n + 1 + i - 1 = n + i
    BY <1>1
  <2> QED
    BY <1>4, <2>1 DEF From
<1> QED
  BY <1>5, FromProperties

\* Dropping words of the first of two sequences.
LEMMA FromOfConcat ==
  ASSUME NEW a \in Seq(Word), NEW b \in Seq(Word), NEW n \in Nat, n <= Len(a)
  PROVE  From(a \o b, n) = From(a, n) \o b
<1>1. Len(a) \in Nat /\ Len(b) \in Nat
  BY LenProperties
<1>2. /\ a \o b \in Seq(Word) /\ Len(a \o b) = Len(a) + Len(b)
      /\ \A i \in 1 .. Len(a) + Len(b) :
           (a \o b)[i] = IF i <= Len(a) THEN a[i] ELSE b[i - Len(a)]
  BY ConcatProperties
<1>3. /\ From(a, n) \in Seq(Word) /\ Len(From(a, n)) = Len(a) - n
      /\ \A i \in 1 .. Len(a) - n : From(a, n)[i] = a[n + i]
  BY FromElements
<1>4. /\ From(a \o b, n) \in Seq(Word)
      /\ Len(From(a \o b, n)) = Len(a) + Len(b) - n
      /\ \A i \in 1 .. Len(a) + Len(b) - n : From(a \o b, n)[i] = (a \o b)[n + i]
  <2>1. n <= Len(a \o b)
    BY <1>1, <1>2
  <2>2. /\ From(a \o b, n) \in Seq(Word)
        /\ Len(From(a \o b, n)) = Len(a \o b) - n
        /\ \A i \in 1 .. Len(a \o b) - n : From(a \o b, n)[i] = (a \o b)[n + i]
    BY <1>2, <2>1, FromElements
  <2> QED
    BY <1>2, <2>2
<1>5. /\ From(a, n) \o b \in Seq(Word)
      /\ Len(From(a, n) \o b) = Len(a) - n + Len(b)
      /\ \A i \in 1 .. Len(a) - n + Len(b) :
           (From(a, n) \o b)[i] = IF i <= Len(a) - n THEN From(a, n)[i]
                                  ELSE b[i - (Len(a) - n)]
  <2>1. /\ From(a, n) \o b \in Seq(Word)
        /\ Len(From(a, n) \o b) = Len(From(a, n)) + Len(b)
        /\ \A i \in 1 .. Len(From(a, n)) + Len(b) :
             (From(a, n) \o b)[i] = IF i <= Len(From(a, n)) THEN From(a, n)[i]
                                    ELSE b[i - Len(From(a, n))]
    BY <1>3, ConcatProperties
  <2>2. Len(From(a, n)) = Len(a) - n
    BY <1>3
  <2> QED
    BY <2>1, <2>2
<1>6. ASSUME NEW i \in 1 .. Len(a) + Len(b) - n
      PROVE  From(a \o b, n)[i] = (From(a, n) \o b)[i]
  <2>1. /\ From(a \o b, n)[i] = (a \o b)[n + i]
        /\ n + i \in 1 .. Len(a) + Len(b)
        /\ i \in 1 .. Len(a) - n + Len(b)
    BY <1>1, <1>4
  <2>2. CASE i <= Len(a) - n
    <3>1. (a \o b)[n + i] = a[n + i] /\ From(a, n)[i] = a[n + i]
      BY <1>1, <1>2, <1>3, <2>1, <2>2
    <3> QED
      BY <1>5, <2>1, <2>2, <3>1
  <2>3. CASE i > Len(a) - n
    <3>1. n + i > Len(a) /\ n + i - Len(a) = i - (Len(a) - n)
      BY <1>1, <2>3
    <3>2. (a \o b)[n + i] = b[n + i - Len(a)]
      BY <1>1, <1>2, <2>1, <3>1
    <3>3. (From(a, n) \o b)[i] = b[i - (Len(a) - n)]
      BY <1>1, <1>5, <2>1, <2>3
    <3> QED
      BY <2>1, <3>1, <3>2, <3>3
  <2>4. i <= Len(a) - n \/ i > Len(a) - n
    BY <1>1
  <2> QED
    BY <2>2, <2>3, <2>4
<1>7. Len(From(a \o b, n)) = Len(From(a, n) \o b)
  BY <1>1, <1>4, <1>5
<1> QED
  BY <1>4, <1>5, <1>6, <1>7, SeqEqual

\* Nothing is dropped, everything is dropped, and a sequence is cut in two.
LEMMA FromCuts ==
  ASSUME NEW a \in Seq(Word)
  PROVE  /\ From(a, 0) = a
         /\ From(a, Len(a)) = <<>>
         /\ \A n \in 0 .. Len(a) : SubSeq(a, 1, n) \o From(a, n) = a
         /\ \A n, m \in 0 .. Len(a) :
              n <= m => SubSeq(a, n + 1, m) \o From(a, m) = From(a, n)
<1>1. Len(a) \in Nat
  BY LenProperties
<1>2. SubSeq(a, 1, Len(a)) = a
  BY SubSeqFull
<1>3. From(a, Len(a)) = <<>>
  BY <1>1, SubSeqEmpty DEF From
<1>4. ASSUME NEW n \in 0 .. Len(a), NEW m \in 0 .. Len(a), n <= m
      PROVE  SubSeq(a, n + 1, m) \o From(a, m) = From(a, n)
  <2>1. n + 1 \in 1 .. Len(a) + 1 /\ m \in (n + 1) - 1 .. Len(a)
        /\ Len(a) \in m .. Len(a)
    BY <1>1, <1>4
  <2> QED
    BY <2>1, ConcatAdjacentSubSeq DEF From
<1>5. From(a, 0) = a
  BY <1>2 DEF From
<1>6. ASSUME NEW n \in 0 .. Len(a) PROVE SubSeq(a, 1, n) \o From(a, n) = a
  <2>1. 0 \in 0 .. Len(a) /\ 0 <= n /\ 0 + 1 = 1
    BY <1>1
  <2> QED
    BY <1>4, <1>5, <2>1
<1> QED
  BY <1>3, <1>4, <1>5, <1>6

\* Dropping words in two goes.
LEMMA FromOfFrom ==
  ASSUME NEW a \in Seq(Word), NEW n \in Nat, NEW m \in Nat, n + m <= Len(a)
  PROVE  From(From(a, n), m) = From(a, n + m)
<1>1. Len(a) \in Nat /\ n <= Len(a) /\ m <= Len(a) - n /\ n + m \in Nat
  BY LenProperties
<1>2. /\ From(a, n) \in Seq(Word) /\ Len(From(a, n)) = Len(a) - n
      /\ \A i \in 1 .. Len(a) - n : From(a, n)[i] = a[n + i]
  BY <1>1, FromElements
<1>3. /\ From(a, n + m) \in Seq(Word) /\ Len(From(a, n + m)) = Len(a) - (n + m)
      /\ \A i \in 1 .. Len(a) - (n + m) : From(a, n + m)[i] = a[n + m + i]
  BY <1>1, FromElements
<1>4. /\ From(From(a, n), m) \in Seq(Word)
      /\ Len(From(From(a, n), m)) = Len(a) - n - m
      /\ \A i \in 1 .. Len(a) - n - m : From(From(a, n), m)[i] = From(a, n)[m + i]
  <2> DEFINE b == From(a, n)
  <2>1. b \in Seq(Word) /\ m <= Len(b) /\ Len(b) = Len(a) - n
    BY <1>1, <1>2
  <2> HIDE DEF b
  <2>2. /\ From(b, m) \in Seq(Word) /\ Len(From(b, m)) = Len(b) - m
        /\ \A i \in 1 .. Len(b) - m : From(b, m)[i] = b[m + i]
    BY <2>1, FromElements
  <2>3. /\ From(b, m) \in Seq(Word) /\ Len(From(b, m)) = Len(a) - n - m
        /\ \A i \in 1 .. Len(a) - n - m : From(b, m)[i] = b[m + i]
    BY <2>1, <2>2
  <2> QED
    BY <2>3 DEF b
<1>5. ASSUME NEW i \in 1 .. Len(a) - n - m
      PROVE  From(From(a, n), m)[i] = From(a, n + m)[i]
  <2>1. m + i \in 1 .. Len(a) - n /\ i \in 1 .. Len(a) - (n + m)
        /\ n + (m + i) = n + m + i
    BY <1>1
  <2> QED
    BY <1>2, <1>3, <1>4, <2>1
<1>6. Len(From(From(a, n), m)) = Len(From(a, n + m))
  BY <1>1, <1>3, <1>4
<1> QED
  BY <1>3, <1>4, <1>5, <1>6, SeqEqual

\* The first of two sequences, and the second, are the parts of both together.
LEMMA ConcatCuts ==
  ASSUME NEW a \in Seq(Word), NEW b \in Seq(Word)
  PROVE  /\ SubSeq(a \o b, 1, Len(a)) = a
         /\ From(a \o b, Len(a)) = b
<1>1. Len(a) \in Nat /\ Len(b) \in Nat
  BY LenProperties
<1>2. /\ a \o b \in Seq(Word) /\ Len(a \o b) = Len(a) + Len(b)
      /\ \A i \in 1 .. Len(a) + Len(b) :
           (a \o b)[i] = IF i <= Len(a) THEN a[i] ELSE b[i - Len(a)]
  BY ConcatProperties
<1>3. /\ SubSeq(a \o b, 1, Len(a)) \in Seq(Word)
      /\ Len(SubSeq(a \o b, 1, Len(a))) = Len(a)
      /\ \A i \in 1 .. Len(a) : SubSeq(a \o b, 1, Len(a))[i] = (a \o b)[i]
  <2> DEFINE c == a \o b
  <2>1. c \in Seq(Word) /\ Len(a) <= Len(c) /\ Len(c) \in Nat
    BY <1>1, <1>2
  <2> HIDE DEF c
  <2>2. \A k \in 1 .. Len(a) : c[k] \in Word
    BY <1>1, <2>1, ElementOfSeq
  <2>3. /\ SubSeq(c, 1, Len(a)) \in Seq(Word)
        /\ Len(SubSeq(c, 1, Len(a))) = IF 1 <= Len(a) THEN Len(a) - 1 + 1 ELSE 0
        /\ \A i \in 1 .. Len(a) - 1 + 1 : SubSeq(c, 1, Len(a))[i] = c[1 + i - 1]
    BY <1>1, <2>2, SubSeqProperties
  <2>4. /\ SubSeq(c, 1, Len(a)) \in Seq(Word)
        /\ Len(SubSeq(c, 1, Len(a))) = Len(a)
        /\ \A i \in 1 .. Len(a) : SubSeq(c, 1, Len(a))[i] = c[i]
    BY <1>1, <2>3
  <2> QED
    BY <2>4 DEF c
<1>4. ASSUME NEW i \in 1 .. Len(a) PROVE SubSeq(a \o b, 1, Len(a))[i] = a[i]
  BY <1>1, <1>2, <1>3
<1>5. SubSeq(a \o b, 1, Len(a)) = a
  BY <1>3, <1>4, SeqEqual
<1>6. From(a \o b, Len(a)) = b
  <2>1. From(a \o b, Len(a)) = From(a, Len(a)) \o b
    <3>1. Len(a) <= Len(a)
      BY <1>1
    <3> QED
      BY <1>1, <3>1, FromOfConcat
  <2> QED
    BY <2>1, FromCuts, ConcatEmptySeq
<1> QED
  BY <1>5, <1>6

\* What is read of a header depends on its five words only.
LEMMA HeaderOfConcat ==
  ASSUME NEW a \in Seq(Word), NEW b \in Seq(Word), Len(a) >= kPacketHeaderSize
  PROVE  /\ PacketHeader(a \o b) = PacketHeader(a)
         /\ peek_batch_length(a \o b) = peek_batch_length(a)
         /\ batch_total_of(a \o b) = batch_total_of(a)
<1>1. Len(a) \in Nat /\ Len(b) \in Nat /\ Len(a) >= 5
  BY LenProperties DEF kPacketHeaderSize
<1>2. /\ Len(a \o b) = Len(a) + Len(b)
      /\ \A i \in 1 .. Len(a) + Len(b) :
           (a \o b)[i] = IF i <= Len(a) THEN a[i] ELSE b[i - Len(a)]
  BY ConcatProperties
<1>3. /\ (a \o b)[1] = a[1] /\ (a \o b)[2] = a[2] /\ (a \o b)[3] = a[3]
      /\ (a \o b)[4] = a[4] /\ (a \o b)[5] = a[5]
  BY <1>1, <1>2
<1>4. PacketHeader(a \o b) = PacketHeader(a)
  BY <1>3 DEF PacketHeader
<1>5. Len(a \o b) >= kPacketHeaderSize
  BY <1>1, <1>2 DEF kPacketHeaderSize
<1> QED
  BY <1>4, <1>5 DEF peek_batch_length, batch_total_of

\* The scan of ingest_fragment finds the first header there is.
LEMMA ScanFindsFirst ==
  ASSUME NEW data \in Seq(Word)
  PROVE  LET at == find_batch_header_offset(data)
         IN  /\ at < Len(data) => /\ at + kPacketHeaderSize <= Len(data)
                                  /\ peek_batch_length(From(data, at)) # 0
             /\ \A i \in 0 .. at - 1 : i + kPacketHeaderSize <= Len(data)
                                       => peek_batch_length(From(data, i)) = 0
<1> DEFINE at == find_batch_header_offset(data)
           offsets == {i \in 0 .. Len(data) - kPacketHeaderSize :
                         PlausibleAt(data, i)}
<1>1. Len(data) \in Nat
  BY LenProperties
<1>2. offsets \in SUBSET (0 .. Len(data))
  BY <1>1 DEF kPacketHeaderSize
<1>3. at = IF offsets = {} THEN Len(data) ELSE Min(offsets)
  BY DEF find_batch_header_offset, FirstOffset
<1>4. offsets # {} => at \in offsets /\ \A i \in offsets : at <= i
  <2> HIDE DEF offsets, at
  <2>1. offsets # {} => /\ Min(offsets) \in offsets
                        /\ \A i \in offsets : Min(offsets) <= i
    BY <1>1, <1>2, MinOfNaturals
  <2> QED
    BY <1>3, <2>1
<1>5. at \in 0 .. Len(data)
  BY FindHeaderProperties
<1>6. ASSUME NEW i \in 0 .. at - 1, i + kPacketHeaderSize <= Len(data)
      PROVE  peek_batch_length(From(data, i)) = 0
  <2>1. i \in 0 .. Len(data) - kPacketHeaderSize /\ i < at
    BY <1>1, <1>5, <1>6 DEF kPacketHeaderSize
  <2>2. i \notin offsets
    <3>1. i \in offsets => at <= i
      BY <1>4
    <3>2. ~(at <= i)
      BY <1>5, <2>1
    <3> QED
      BY <3>1, <3>2
  <2>3. ~PlausibleAt(data, i)
    BY <2>1, <2>2
  <2>4. From(data, i) \in Seq(Word)
    BY <2>1, FromProperties
  <2> QED
    BY <2>3, <2>4, PeekProperties DEF PlausibleAt
<1>7. ASSUME at < Len(data)
      PROVE  /\ at + kPacketHeaderSize <= Len(data)
             /\ peek_batch_length(From(data, at)) # 0
  <2>1. at \in offsets
    BY <1>1, <1>3, <1>4, <1>7
  <2>2. at \in 0 .. Len(data) - kPacketHeaderSize /\ PlausibleAt(data, at)
    BY <2>1
  <2> QED
    BY <1>1, <2>2 DEF PlausibleAt, kPacketHeaderSize
<1> QED
  BY <1>6, <1>7

-----------------------------------------------------------------------------
(***************************************************************************)
(* Lemmas about the stream                                                 *)
(***************************************************************************)

\* What the outer calls have still to read.
Below == FlattenSeq(Tail(calls))

\* The stream is made of words.
LEMMA PendingType ==
  ASSUME IInv
  PROVE  /\ Collected \in Seq(Word) /\ FlattenSeq(calls) \in Seq(Word)
         /\ Pending \in Seq(Word)
         /\ calls = <<>> => Pending = Collected
<1>1. buffer \in Seq(Word) /\ calls \in Seq(Seq(Word)) /\ filled \in Nat
  BY DEF IInv, TypeOK
<1>2. Collected \in Seq(Word)
  <2>1. CASE active
    <3>1. filled <= Len(buffer) /\ Len(buffer) \in Nat
      BY <1>1, <2>1, LenProperties DEF IInv, ReassemblyConsistent
    <3>2. \A i \in 1 .. filled : buffer[i] \in Word
      BY <1>1, <3>1, ElementOfSeq
    <3> QED
      BY <1>1, <2>1, <3>2, SubSeqProperties DEF Collected
  <2>2. CASE ~active
    BY <1>1, <2>2 DEF Collected
  <2> QED
    BY <2>1, <2>2
<1>3. FlattenSeq(calls) \in Seq(Word)
  BY <1>1, FlattenType
<1>4. Pending \in Seq(Word)
  BY <1>2, <1>3, ConcatProperties DEF Pending
<1>5. calls = <<>> => Pending = Collected
  BY <1>2, FlattenOfEmpty, ConcatEmptySeq DEF Pending
<1> QED
  BY <1>2, <1>3, <1>4, <1>5

\* The stack of calls as the words still to read.
LEMMA StackAsWords ==
  ASSUME IInv, calls # <<>>
  PROVE  /\ Below \in Seq(Word)
         /\ FlattenSeq(calls) = unread \o Below
         /\ FlattenSeq(Tail(calls)) = Below
         /\ \A rest \in Seq(Word) : FlattenSeq(Continue(rest)) = rest \o Below
<1>1. unread \in Seq(Word) /\ Tail(calls) \in Seq(Seq(Word))
      /\ calls \in Seq(Seq(Word))
  BY CallProperties DEF IInv, TypeOK
<1>2. calls = <<unread>> \o Tail(calls)
  BY <1>1 DEF unread
<1>3. Below \in Seq(Word)
  BY <1>1, FlattenType DEF Below
<1>4. FlattenSeq(calls) = unread \o Below
  <2>1. FlattenSeq(<<unread>> \o Tail(calls)) = unread \o Below
    BY <1>1, FlattenOfCons DEF Below
  <2> QED
    BY <1>2, <2>1
<1>5. ASSUME NEW rest \in Seq(Word)
      PROVE  FlattenSeq(Continue(rest)) = rest \o Below
  <2>1. CASE rest = <<>>
    <3>1. Continue(rest) = Tail(calls)
      BY <1>1, <2>1, ConcatEmptySeq DEF Continue
    <3> QED
      BY <1>3, <2>1, <3>1, ConcatEmptySeq DEF Below
  <2>2. CASE rest # <<>>
    <3>1. Continue(rest) = <<rest>> \o Tail(calls)
      BY <2>2 DEF Continue
    <3> QED
      BY <1>1, <3>1, FlattenOfCons DEF Below
  <2> QED
    BY <2>1, <2>2
<1> QED
  BY <1>3, <1>4, <1>5 DEF Below

\* Before a header is collected, the stream starts where the innermost call
\* reads, and the scan passes over words that start no header.
LEMMA ScanInStream ==
  ASSUME IInv, Scanning, buffer = <<>>
  PROVE  /\ Pending = unread \o Below
         /\ \A n \in 0 .. Len(unread) : From(Pending, n) = From(unread, n) \o Below
         /\ Len(unread) <= Len(Pending)
         /\ \A i \in 0 .. find_batch_header_offset(unread) - 1 :
              i + kPacketHeaderSize <= Len(unread)
              => peek_batch_length(From(Pending, i)) = 0
<1>1. /\ calls # <<>> /\ ~active
      /\ unread \in Seq(Word) /\ Len(unread) \in Nat
  BY CallProperties DEF Scanning, IInv
<1>2. /\ Below \in Seq(Word) /\ unread \o Below \in Seq(Word)
      /\ Len(unread \o Below) = Len(unread) + Len(Below) /\ Len(Below) \in Nat
  BY <1>1, StackAsWords, ConcatProperties, LenProperties
<1>3. Pending = unread \o Below
  <2>1. Pending = <<>> \o (unread \o Below)
    BY <1>1, StackAsWords DEF Pending, Collected
  <2> QED
    BY <1>2, <2>1, ConcatEmptySeq
<1>4. ASSUME NEW n \in 0 .. Len(unread)
      PROVE  From(Pending, n) = From(unread, n) \o Below
  <2>1. n \in Nat /\ n <= Len(unread)
    BY <1>1
  <2> QED
    BY <1>1, <1>2, <1>3, <2>1, FromOfConcat
<1>5. ASSUME NEW i \in 0 .. find_batch_header_offset(unread) - 1,
             i + kPacketHeaderSize <= Len(unread)
      PROVE  peek_batch_length(From(Pending, i)) = 0
  <2>1. i \in 0 .. Len(unread) /\ i \in Nat /\ i + 5 <= Len(unread)
    BY <1>1, <1>5, FindHeaderProperties DEF kPacketHeaderSize
  <2>2. peek_batch_length(From(unread, i)) = 0
    BY <1>1, <1>5, ScanFindsFirst
  <2>3. /\ From(unread, i) \in Seq(Word)
        /\ Len(From(unread, i)) >= kPacketHeaderSize
    BY <1>1, <2>1, FromElements DEF kPacketHeaderSize
  <2> QED
    BY <1>2, <1>4, <2>1, <2>2, <2>3, HeaderOfConcat
<1> QED
  BY <1>1, <1>2, <1>3, <1>4, <1>5

\* While a header is collected: the words before the candidate are skipped, and
\* none of them starts a header.
LEMMA CandidateInStream ==
  ASSUME IInv, Scanning, HeaderInReach
  PROVE  /\ Skipped \in Nat /\ Skipped + kPacketHeaderSize <= Len(Pending)
         /\ From(unread, Skipped + Lacking) \in Seq(Word)
         /\ From(Pending, Skipped) =
              Candidate \o (From(unread, Skipped + Lacking) \o Below)
         /\ \A i \in 0 .. Skipped - 1 : peek_batch_length(From(Pending, i)) = 0
<1> DEFINE rest == From(unread, Skipped + Lacking)
           part == SubSeq(unread, Skipped + 1, Skipped + Lacking)
<1>1. /\ calls # <<>> /\ ~active
      /\ unread \in Seq(Word) /\ Len(unread) \in Nat
      /\ buffer \in Seq(Word) /\ Len(buffer) \in Nat
  BY CallProperties, LenProperties DEF Scanning, IInv, TypeOK
<1>2. /\ Skipped \in Nat /\ Lacking \in Nat /\ Lacking = 5 - Len(buffer)
      /\ Skipped + Lacking <= Len(unread) /\ Skipped < Len(unread)
  BY <1>1, ScanProperties DEF HeaderInReach
<1>3. Below \in Seq(Word) /\ Pending = buffer \o (unread \o Below)
  BY <1>1, StackAsWords DEF Pending, Collected
<1>4. Candidate \in Seq(Word) /\ Len(Candidate) = 5 /\ Candidate = buffer \o part
  BY CandidateProperties DEF Candidate, kPacketHeaderSize
<1>5. rest \in Seq(Word)
  BY <1>1, <1>2, FromProperties
<1>6. part \in Seq(Word) /\ part \o rest = From(unread, Skipped)
  <2>1. \A k \in Skipped + 1 .. Skipped + Lacking : unread[k] \in Word
    BY <1>1, <1>2, ElementOfSeq
  <2>2. part \in Seq(Word)
    BY <1>2, <2>1, SubSeqProperties
  <2>3. Skipped \in 0 .. Len(unread) /\ Skipped + Lacking \in 0 .. Len(unread)
        /\ Skipped <= Skipped + Lacking
    BY <1>1, <1>2
  <2> QED
    BY <1>1, <2>2, <2>3, FromCuts
<1>7. From(Pending, Skipped) = buffer \o (From(unread, Skipped) \o Below)
  <2>1. CASE buffer = <<>>
    <3>1. Skipped \in 0 .. Len(unread)
      BY <1>1, <1>2
    <3>2. From(Pending, Skipped) = From(unread, Skipped) \o Below
      BY <2>1, <3>1, ScanInStream
    <3>3. From(unread, Skipped) \o Below \in Seq(Word)
      BY <1>1, <1>2, <1>3, FromProperties, ConcatProperties
    <3> QED
      BY <2>1, <3>2, <3>3, ConcatEmptySeq
  <2>2. CASE buffer # <<>>
    <3>1. Skipped = 0
      BY <2>2 DEF Skipped
    <3>2. From(unread, 0) = unread /\ From(Pending, 0) = Pending
      BY <1>1, PendingType, FromCuts
    <3> QED
      BY <1>3, <3>1, <3>2
  <2> QED
    BY <2>1, <2>2
<1>8. From(Pending, Skipped) = Candidate \o (rest \o Below)
  <2> HIDE DEF rest, part
  <2>1. rest \o Below \in Seq(Word)
    BY <1>3, <1>5, ConcatProperties
  <2>2. (part \o rest) \o Below = part \o (rest \o Below)
    BY <1>3, <1>5, <1>6, Regrouped
  <2>3. (buffer \o part) \o (rest \o Below) = buffer \o (part \o (rest \o Below))
    BY <1>1, <1>6, <2>1, Regrouped
  <2> QED
    BY <1>4, <1>6, <1>7, <2>2, <2>3
<1>9. Len(Pending) = Len(buffer) + (Len(unread) + Len(Below)) /\ Len(Below) \in Nat
  <2>1. unread \o Below \in Seq(Word) /\ Len(unread \o Below) = Len(unread) + Len(Below)
    BY <1>1, <1>3, ConcatProperties
  <2> QED
    BY <1>1, <1>3, <2>1, ConcatProperties, LenProperties
<1>10. Skipped + 5 <= Len(Pending)
  BY <1>1, <1>2, <1>9
<1>11. ASSUME NEW i \in 0 .. Skipped - 1
       PROVE  peek_batch_length(From(Pending, i)) = 0
  <2>1. buffer = <<>> /\ Skipped = find_batch_header_offset(unread)
    <3>1. Skipped # 0
      BY <1>2
    <3> QED
      BY <3>1 DEF Skipped
  <2>2. i \in 0 .. find_batch_header_offset(unread) - 1
        /\ i + kPacketHeaderSize <= Len(unread)
    BY <1>1, <1>2, <2>1 DEF Lacking, kPacketHeaderSize
  <2> QED
    BY <2>1, <2>2, ScanInStream
<1> QED
  BY <1>2, <1>5, <1>8, <1>10, <1>11 DEF kPacketHeaderSize

-----------------------------------------------------------------------------
(***************************************************************************)
(* One lemma per action: the step of the stream it is                      *)
(***************************************************************************)

\* A server that has just started has received nothing.
LEMMA InitOfStream == Init => Received!Init
<1> SUFFICES ASSUME Init PROVE Received!Init
  OBVIOUS
<1>1. /\ buffer = <<>> /\ ~active /\ calls = <<>>
      /\ wire_batch_total = NoTotal /\ accepted = <<>>
  BY DEF Init, InitStats, InitReassembly
<1>2. Pending = <<>>
  BY <1>1, FlattenOfEmpty DEF Pending, Collected
<1> QED
  BY <1>1, <1>2 DEF Received!Init

\* A datagram is appended to the stream.
LEMMA ReceiveIsAppend ==
  ASSUME IInv, NEW d \in Seq(Word), ReceiveDatagram(d)
  PROVE  Pending' = Pending \o d
<1>1. /\ calls = <<>> /\ Collected' = Collected
  BY DEF ReceiveDatagram, Collected, reassembly
<1>2. Pending = Collected /\ Collected \in Seq(Word)
  BY <1>1, PendingType
<1>3. FlattenSeq(calls') = d
  <2>1. CASE d = <<>>
    BY <2>1, FlattenOfEmpty DEF ReceiveDatagram
  <2>2. CASE d # <<>>
    <3>1. <<>> \in Seq(Seq(Word)) /\ <<d>> \o <<>> = <<d>>
      OBVIOUS
    <3>2. FlattenSeq(<<d>> \o <<>>) = d \o <<>>
      BY <3>1, FlattenOfCons, FlattenOfEmpty
    <3>3. d \o <<>> = d
      BY ConcatEmptySeq
    <3> QED
      BY <2>2, <3>1, <3>2, <3>3 DEF ReceiveDatagram
  <2> QED
    BY <2>1, <2>2
<1> QED
  BY <1>1, <1>2, <1>3 DEF Pending

\* It is a step of the stream.
LEMMA ReceiveIsArrive ==
  ASSUME IInv, NEW d \in Datagrams, ReceiveDatagram(d)
  PROVE  Received!Arrive
<1>1. d \in Seq(Word)
  BY ReassemblyAssumption
<1>2. Pending' = Pending \o d /\ UNCHANGED <<wire_batch_total, accepted>>
  BY <1>1, ReceiveIsAppend DEF ReceiveDatagram
<1> QED
  BY <1>2 DEF Received!Arrive

\* Words where no header of the session starts are dropped from the front.
LEMMA DroppingIsSkip ==
  ASSUME NEW n \in Nat, n <= Len(Pending), Pending \in Seq(Word),
         Pending' = From(Pending, n),
         UNCHANGED <<wire_batch_total, accepted>>,
         \A i \in 0 .. n - 1 :
           /\ i + kPacketHeaderSize <= Len(Pending)
           /\ \/ peek_batch_length(From(Pending, i)) = 0
              \/ wire_batch_total \notin {NoTotal, batch_total_of(From(Pending, i))}
  PROVE  [Received!Skip]_(Received!vars)
<1>1. CASE n = 0
  <2>1. Pending' = Pending
    BY <1>1, FromCuts
  <2> QED
    BY <2>1 DEF Received!vars
<1>2. CASE n # 0
  <2>1. n \in 1 .. Len(Pending)
    BY <1>2, LenProperties
  <2>2. Received!Skippable(n)
    BY DEF Received!Skippable, Received!IsHeader, Received!After, From
  <2>3. Pending' = Received!After(n)
    BY DEF Received!After, From
  <2> QED
    BY <2>1, <2>2, <2>3 DEF Received!Skip
<1> QED
  BY <1>1, <1>2

\* The end of a datagram without a header is skipped, but for the words that may
\* start one.
LEMMA RetainTailIsSkip ==
  ASSUME IInv, RetainTail
  PROVE  [Received!Skip]_(Received!vars)
<1> DEFINE keep == IF Len(unread) < kPacketHeaderSize - 1
                   THEN Len(unread) ELSE kPacketHeaderSize - 1
           n == Len(unread) - keep
<1>1. /\ Scanning /\ buffer = <<>> /\ calls # <<>>
      /\ unread \in Seq(Word) /\ Len(unread) \in Nat
      /\ Skipped = find_batch_header_offset(unread) /\ Skipped >= Len(unread)
  BY CallProperties DEF RetainTail, Scanning, IInv, Skipped
<1>2. /\ n \in 0 .. Len(unread) /\ n \in Nat
      /\ \A i \in 0 .. n - 1 : i + 5 <= Len(unread)
  BY <1>1 DEF kPacketHeaderSize
<1>3. Pending' = From(unread, n) \o Below
  <2>1. Collected' = From(unread, n) /\ calls' = Tail(calls)
    BY DEF RetainTail, Scanning, Collected
  <2> QED
    BY <2>1 DEF Pending, Below
<1>4. Pending' = From(Pending, n)
  <2> HIDE DEF n
  <2> QED
    BY <1>1, <1>2, <1>3, ScanInStream
<1>5. n <= Len(Pending) /\ Len(unread) <= Len(Pending) /\ Pending \in Seq(Word)
  <2>1. Len(unread) <= Len(Pending) /\ Len(Pending) \in Nat /\ Pending \in Seq(Word)
    BY <1>1, ScanInStream, PendingType, LenProperties
  <2> QED
    BY <1>1, <1>2, <2>1
<1>6. ASSUME NEW i \in 0 .. n - 1
      PROVE  /\ i + kPacketHeaderSize <= Len(Pending)
             /\ peek_batch_length(From(Pending, i)) = 0
  <2>1. i + kPacketHeaderSize <= Len(unread)
    BY <1>2 DEF kPacketHeaderSize
  <2>2. i \in 0 .. find_batch_header_offset(unread) - 1
    BY <1>1, <1>2, FindHeaderProperties
  <2>3. i + kPacketHeaderSize <= Len(Pending)
    BY <1>1, <1>5, <2>1, PendingType, LenProperties DEF kPacketHeaderSize
  <2> QED
    BY <1>1, <2>1, <2>2, <2>3, ScanInStream
<1>7. UNCHANGED <<wire_batch_total, accepted>>
  BY DEF RetainTail, history
<1> HIDE DEF n
<1> QED
  BY <1>2, <1>4, <1>5, <1>6, <1>7, DroppingIsSkip

\* A header that is cut by the end of the datagram stays in the stream.
LEMMA SplitHeaderIsSkip ==
  ASSUME IInv, SplitHeader
  PROVE  [Received!Skip]_(Received!vars)
<1>1. /\ Scanning /\ calls # <<>> /\ ~active /\ ~HeaderInReach
      /\ Skipped < Len(unread) /\ calls' = Tail(calls)
      /\ unread \in Seq(Word) /\ Len(unread) \in Nat
      /\ buffer \in Seq(Word)
      /\ UNCHANGED <<wire_batch_total, accepted>>
  BY CallProperties DEF SplitHeader, Scanning, IInv, TypeOK, history
<1>2. buffer # <<>>
  <2> SUFFICES ASSUME buffer = <<>> PROVE FALSE
    OBVIOUS
  <2>1. Skipped = find_batch_header_offset(unread) /\ Lacking = 5
    BY DEF Skipped, Lacking, kPacketHeaderSize
  <2>2. Skipped + 5 <= Len(unread)
    BY <1>1, <2>1, ScanFindsFirst DEF kPacketHeaderSize
  <2> QED
    BY <1>1, <2>1, <2>2 DEF HeaderInReach
<1>3. Skipped = 0 /\ From(unread, 0) = unread
  BY <1>1, <1>2, FromCuts DEF Skipped
<1>4. Collected' = buffer \o unread
  BY <1>1, <1>3 DEF SplitHeader, Collected
<1>5. Pending' = (buffer \o unread) \o Below
  BY <1>1, <1>4 DEF Pending, Below
<1>6. Pending = buffer \o (unread \o Below) /\ Below \in Seq(Word)
  BY <1>1, StackAsWords DEF Pending, Collected
<1>7. Pending' = Pending
  BY <1>1, <1>5, <1>6, Regrouped
<1> QED
  BY <1>1, <1>7 DEF Received!vars

\* A refused header is slid over by one word.
LEMMA RejectHeaderIsSkip ==
  ASSUME IInv, RejectHeader
  PROVE  [Received!Skip]_(Received!vars)
<1> DEFINE rest == From(unread, Skipped + Lacking)
           tail == rest \o Below
           n == Skipped + 1
<1>1. /\ Scanning /\ HeaderInReach /\ calls # <<>> /\ ~active
      /\ ~CandidateAccepted
      /\ calls' = Continue(rest)
      /\ UNCHANGED <<wire_batch_total, accepted>>
  BY DEF RejectHeader, Scanning, history
<1>2. /\ Skipped \in Nat /\ Skipped + 5 <= Len(Pending)
      /\ rest \in Seq(Word)
      /\ From(Pending, Skipped) = Candidate \o tail
      /\ \A i \in 0 .. Skipped - 1 : peek_batch_length(From(Pending, i)) = 0
      /\ Pending \in Seq(Word) /\ Len(Pending) \in Nat
  BY <1>1, CandidateInStream, PendingType, LenProperties DEF kPacketHeaderSize
<1>3. Candidate \in Seq(Word) /\ Len(Candidate) = 5
  BY <1>1, CandidateProperties DEF kPacketHeaderSize
<1>4. tail \in Seq(Word) /\ FlattenSeq(Continue(rest)) = tail
  BY <1>1, <1>2, StackAsWords, ConcatProperties
<1>5. buffer' = Tail(Candidate)
  <2> DEFINE aligned == find_batch_header_offset(Candidate)
  <2>1. aligned \in 0 .. 5 /\ (aligned < 5 => aligned + 5 <= 5)
    BY <1>3, FindHeaderProperties, ScanFindsFirst DEF kPacketHeaderSize
  <2>2. aligned \notin 1 .. Len(Candidate) - 1
    BY <1>3, <2>1
  <2> QED
    BY <2>2 DEF RejectHeader
<1>6. Tail(Candidate) = From(Candidate, 1)
  <2>1. Candidate # <<>>
    BY <1>3
  <2>2. Tail(Candidate) = SubSeq(Candidate, 2, Len(Candidate))
    BY <1>3, <2>1, TailIsSubSeq
  <2> QED
    BY <2>2 DEF From
<1>7. Pending' = From(Candidate, 1) \o tail
  <2>1. active' = FALSE
    BY <1>1 DEF RejectHeader
  <2>2. Collected' = From(Candidate, 1)
    BY <1>5, <1>6, <2>1 DEF Collected
  <2> QED
    BY <1>1, <1>4, <2>2 DEF Pending
<1> HIDE DEF rest, tail
<1>8. Pending' = From(Pending, n)
  <2>1. 1 \in Nat /\ Skipped + 1 <= Len(Pending) /\ 1 <= Len(Candidate)
    BY <1>2, <1>3
  <2>2. From(From(Pending, Skipped), 1) = From(Pending, Skipped + 1)
    BY <1>2, <2>1, FromOfFrom
  <2>3. From(Candidate \o tail, 1) = From(Candidate, 1) \o tail
    BY <1>3, <1>4, <2>1, FromOfConcat
  <2> QED
    BY <1>2, <1>7, <2>2, <2>3 DEF n
<1>9. \/ peek_batch_length(From(Pending, Skipped)) = 0
      \/ wire_batch_total \notin {NoTotal, batch_total_of(From(Pending, Skipped))}
  <2>1. /\ peek_batch_length(From(Pending, Skipped)) = peek_batch_length(Candidate)
        /\ batch_total_of(From(Pending, Skipped)) = batch_total_of(Candidate)
    <3>1. Len(Candidate) >= kPacketHeaderSize
      BY <1>3 DEF kPacketHeaderSize
    <3> QED
      BY <1>2, <1>3, <1>4, <3>1, HeaderOfConcat
  <2>2. ASSUME peek_batch_length(Candidate) # 0
        PROVE  wire_batch_total \notin {NoTotal, batch_total_of(Candidate)}
    <3>1. ~ValidSession(PacketHeader(Candidate), wire_batch_total)
      BY <1>1, <2>2 DEF CandidateAccepted
    <3>2. header_meta_plausible(PacketHeader(Candidate))
      BY <2>2 DEF peek_batch_length
    <3> QED
      BY <3>1, <3>2 DEF ValidSession, batch_total_of
  <2> QED
    BY <2>1, <2>2
<1>10. ASSUME NEW i \in 0 .. n - 1
       PROVE  /\ i + kPacketHeaderSize <= Len(Pending)
              /\ \/ peek_batch_length(From(Pending, i)) = 0
                 \/ wire_batch_total \notin {NoTotal, batch_total_of(From(Pending, i))}
  <2>1. i + kPacketHeaderSize <= Len(Pending)
    BY <1>2 DEF kPacketHeaderSize
  <2>2. i = Skipped \/ i \in 0 .. Skipped - 1
    BY <1>2
  <2> QED
    BY <1>2, <1>9, <2>1, <2>2
<1>11. n \in Nat /\ n <= Len(Pending)
  BY <1>2
<1> HIDE DEF n
<1> QED
  BY <1>1, <1>2, <1>8, <1>10, <1>11, DroppingIsSkip

\* A header of the session that is found is the new front of the stream.
LEMMA AcceptHeaderIsOpen ==
  ASSUME IInv, AcceptHeader
  PROVE  Received!Open
<1> DEFINE rest == From(unread, Skipped + Lacking)
           tail == rest \o Below
           zeros == [i \in 1 .. expected' - kPacketHeaderSize |-> 0]
<1>1. /\ Scanning /\ HeaderInReach /\ calls # <<>>
      /\ CandidateAccepted
      /\ buffer' = Candidate \o zeros /\ filled' = kPacketHeaderSize
      /\ active' = TRUE
      /\ wire_batch_total' = batch_total_of(Candidate)
      /\ calls' = Continue(rest)
      /\ UNCHANGED accepted
  BY DEF AcceptHeader, Scanning, batch_total_of
<1>2. /\ Skipped \in Nat /\ Skipped + 5 <= Len(Pending)
      /\ rest \in Seq(Word)
      /\ From(Pending, Skipped) = Candidate \o tail
      /\ \A i \in 0 .. Skipped - 1 : peek_batch_length(From(Pending, i)) = 0
      /\ Pending \in Seq(Word) /\ Len(Pending) \in Nat
  BY <1>1, CandidateInStream, PendingType, LenProperties DEF kPacketHeaderSize
<1>3. Candidate \in Seq(Word) /\ Len(Candidate) = 5
  BY <1>1, CandidateProperties DEF kPacketHeaderSize
<1>4. tail \in Seq(Word) /\ FlattenSeq(Continue(rest)) = tail
  BY <1>1, <1>2, StackAsWords, ConcatProperties
<1>5. zeros \in Seq(Word)
  <2>1. expected' \in kPacketHeaderSize .. kMaxBatchSize
    BY <1>1, <1>3, PeekProperties DEF AcceptHeader, CandidateAccepted
  <2>2. expected' - kPacketHeaderSize \in Nat
    <3>1. \A e \in kPacketHeaderSize .. kMaxBatchSize : e - kPacketHeaderSize \in Nat
      BY PacketAssumption DEF kPacketHeaderSize
    <3> QED
      BY <2>1, <3>1
  <2> QED
    BY <2>2 DEF Word
<1> HIDE DEF rest, tail, zeros
<1>6. Collected' = Candidate
  <2>1. SubSeq(Candidate \o zeros, 1, 5) = Candidate
    BY <1>3, <1>5, ConcatCuts
  <2> QED
    BY <1>1, <2>1 DEF Collected, kPacketHeaderSize
<1>7. Pending' = From(Pending, Skipped)
  BY <1>1, <1>2, <1>4, <1>6 DEF Pending
<1>8. /\ peek_batch_length(From(Pending, Skipped)) = peek_batch_length(Candidate)
      /\ batch_total_of(From(Pending, Skipped)) = batch_total_of(Candidate)
  <2>1. Len(Candidate) >= kPacketHeaderSize
    BY <1>3 DEF kPacketHeaderSize
  <2> QED
    BY <1>2, <1>3, <1>4, <2>1, HeaderOfConcat
<1>9. From(Pending, Skipped) = Received!After(Skipped)
  BY DEF From, Received!After
<1>10. Received!IsHeader(Received!After(Skipped))
  BY <1>1, <1>8, <1>9
     DEF Received!IsHeader, CandidateAccepted, ValidSession, batch_total_of
<1>11. Received!Skippable(Skipped)
  <2> SUFFICES ASSUME NEW i \in 0 .. Skipped - 1
               PROVE  /\ i + kPacketHeaderSize <= Len(Pending)
                      /\ ~Received!IsHeader(Received!After(i))
    BY DEF Received!Skippable
  <2>1. i + kPacketHeaderSize <= Len(Pending)
    BY <1>2 DEF kPacketHeaderSize
  <2>2. peek_batch_length(From(Pending, i)) = 0
    BY <1>2
  <2> QED
    BY <2>1, <2>2 DEF Received!IsHeader, Received!After, From
<1>12. Skipped \in 0 .. Len(Pending)
  BY <1>2
<1> QED
  BY <1>1, <1>7, <1>8, <1>9, <1>10, <1>11, <1>12 DEF Received!Open

\* While a batch is open, the words copied into it are the next of the stream.
LEMMA CopiedInStream ==
  ASSUME IInv, Collecting, NEW take \in Nat, take <= Len(unread), take <= space
  PROVE  /\ Collected \in Seq(Word) /\ SubSeq(unread, 1, take) \in Seq(Word)
         /\ SubSeq(Copied(take), 1, filled + take) =
              Collected \o SubSeq(unread, 1, take)
<1> DEFINE words == SubSeq(Copied(take), 1, filled + take)
           part == SubSeq(unread, 1, take)
<1>1. /\ unread \in Seq(Word) /\ Len(unread) \in Nat /\ active
  BY CallProperties DEF IInv, Collecting
<1>2. /\ buffer \in Seq(Word) /\ Len(buffer) \in Nat
      /\ filled \in Nat /\ expected \in Nat /\ filled <= expected
      /\ expected = Len(buffer) /\ space = expected - filled
  BY LenProperties DEF IInv, TypeOK, ReassemblyConsistent, Collecting, space
<1>3. filled + take \in Nat /\ filled + take <= Len(buffer)
  BY <1>2
<1>4. /\ Collected \in Seq(Word) /\ Len(Collected) = filled
      /\ \A i \in 1 .. filled : Collected[i] = buffer[i]
  <2>1. \A k \in 1 .. filled : buffer[k] \in Word
    BY <1>2, ElementOfSeq
  <2> QED
    BY <1>1, <1>2, <2>1, SubSeqProperties DEF Collected
<1>5. /\ part \in Seq(Word) /\ Len(part) = take
      /\ \A i \in 1 .. take : part[i] = unread[i]
  <2>1. \A k \in 1 .. take : unread[k] \in Word
    BY <1>1, ElementOfSeq
  <2> QED
    BY <1>1, <2>1, SubSeqProperties
<1>6. /\ words \in Seq(Word) /\ Len(words) = filled + take
      /\ \A i \in 1 .. filled + take :
           words[i] = IF i \in filled + 1 .. filled + take THEN unread[i - filled]
                                                           ELSE buffer[i]
  <2>1. Copied(take) \in Seq(Word) /\ Len(Copied(take)) = Len(buffer)
    BY CopiedProperties
  <2>2. \A i \in 1 .. filled + take :
          Copied(take)[i] = IF i \in filled + 1 .. filled + take
                            THEN unread[i - filled] ELSE buffer[i]
    BY <1>2, <1>3 DEF Copied
  <2>3. \A k \in 1 .. filled + take : Copied(take)[k] \in Word
    BY <1>2, <1>3, <2>1, ElementOfSeq
  <2>4. /\ words \in Seq(Word) /\ Len(words) = filled + take
        /\ \A i \in 1 .. filled + take : words[i] = Copied(take)[i]
    BY <1>3, <2>3, SubSeqProperties
  <2> QED
    BY <2>2, <2>4
<1>7. /\ Collected \o part \in Seq(Word) /\ Len(Collected \o part) = filled + take
      /\ \A i \in 1 .. filled + take :
           (Collected \o part)[i] = IF i <= filled THEN Collected[i]
                                                   ELSE part[i - filled]
  <2> HIDE DEF part
  <2> QED
    BY <1>4, <1>5, ConcatProperties
<1>8. ASSUME NEW i \in 1 .. filled + take PROVE words[i] = (Collected \o part)[i]
  <2>1. CASE i <= filled
    <3>1. i \notin filled + 1 .. filled + take /\ i \in 1 .. filled
      BY <1>2, <2>1
    <3> QED
      BY <1>4, <1>6, <1>7, <2>1, <3>1
  <2>2. CASE ~(i <= filled)
    <3>1. i \in filled + 1 .. filled + take /\ i - filled \in 1 .. take
      BY <1>2, <2>2
    <3> QED
      BY <1>5, <1>6, <1>7, <2>2, <3>1
  <2> QED
    BY <2>1, <2>2
<1>9. words = Collected \o part
  <2> HIDE DEF words, part
  <2>1. Len(words) = Len(Collected \o part)
    BY <1>6, <1>7
  <2>2. \A i \in 1 .. Len(words) : words[i] = (Collected \o part)[i]
    BY <1>6, <1>8
  <2> QED
    BY <1>6, <1>7, <2>1, <2>2, SeqEqual
<1> QED
  BY <1>4, <1>5, <1>9

\* A datagram that ends inside the batch only moves its words.
LEMMA CopyFragmentIsStutter ==
  ASSUME IInv, CopyFragment
  PROVE  UNCHANGED Received!vars
<1>1. /\ Collecting /\ calls # <<>> /\ active
      /\ unread \in Seq(Word) /\ Len(unread) \in Nat
      /\ Len(unread) < space
      /\ UNCHANGED <<wire_batch_total, accepted>>
  BY CallProperties DEF CopyFragment, Collecting, IInv, history
<1>2. space \in Int
  BY DEF IInv, TypeOK, space
<1>3. Len(unread) <= Len(unread) /\ Len(unread) <= space
  BY <1>1, <1>2
<1>4. Collected' = Collected \o unread /\ Collected \in Seq(Word)
  <2>1. Collected' = SubSeq(Copied(Len(unread)), 1, filled + Len(unread))
    BY <1>1 DEF CopyFragment, Collected
  <2>2. SubSeq(unread, 1, Len(unread)) = unread
    BY <1>1, SubSeqFull
  <2> QED
    BY <1>1, <1>3, <2>1, <2>2, CopiedInStream
<1>5. Pending' = (Collected \o unread) \o Below
  BY <1>4 DEF CopyFragment, Pending, Below
<1>6. Pending = Collected \o (unread \o Below) /\ Below \in Seq(Word)
  BY <1>1, StackAsWords DEF Pending
<1>7. Pending' = Pending
  BY <1>1, <1>4, <1>5, <1>6, Regrouped
<1> QED
  BY <1>1, <1>7 DEF Received!vars

\* A complete batch is the front of the stream.
LEMMA AssembledInStream ==
  ASSUME IInv, Collecting, Len(unread) >= space
  PROVE  /\ Received!Complete /\ Received!Front = Assembled
         /\ Assembled \in Seq(Word) /\ Len(Assembled) \in Nat
         /\ peek_batch_length(Pending) = Len(Assembled)
         /\ Len(Assembled) <= Len(Pending)
         /\ From(unread, space) \in Seq(Word) /\ Below \in Seq(Word)
         /\ Pending = Assembled \o (From(unread, space) \o Below)
         /\ ValidSession(PacketHeader(Assembled), wire_batch_total)
         /\ Len(Assembled) >= kPacketHeaderSize
<1> DEFINE rest == From(unread, space)
           part == SubSeq(unread, 1, space)
<1>1. /\ calls # <<>> /\ active
      /\ unread \in Seq(Word) /\ Len(unread) \in Nat
  BY CallProperties DEF Collecting, IInv
<1>2. /\ buffer \in Seq(Word) /\ Len(buffer) \in Nat
      /\ filled \in Nat /\ expected \in Nat
      /\ expected = Len(buffer) /\ space = expected - filled
      /\ 5 <= filled /\ filled <= expected /\ expected <= kMaxBatchSize
      /\ PacketHeader(buffer).magic = kPacketMagic
      /\ PacketHeader(buffer).length = expected
      /\ PacketHeader(buffer).batch_total = wire_batch_total
  BY <1>1, LenProperties DEF IInv, TypeOK, ReassemblyConsistent, space,
                             kPacketHeaderSize
<1>3. /\ Assembled \in Seq(Word) /\ Len(Assembled) = expected
      /\ PacketHeader(Assembled) = PacketHeader(buffer)
      /\ space \in Nat /\ space <= Len(unread)
  BY <1>1, <1>2, AssembledProperties
<1>4. /\ PacketHeader(buffer).seq \in Nat
      /\ PacketHeader(buffer).seq < wire_batch_total
  BY OpenHeaderProperties
<1>5. header_meta_plausible(PacketHeader(Assembled))
  <2>1. wire_batch_total # 0
    BY <1>4 DEF IInv, TypeOK
  <2>2. expected \in kPacketHeaderSize .. kMaxPacketLength
    BY <1>2, PacketAssumption DEF kPacketHeaderSize, kMaxPacketLength
  <2> QED
    BY <1>2, <1>3, <1>4, <2>1, <2>2 DEF header_meta_plausible
<1>6. peek_batch_length(Assembled) = expected /\ Len(Assembled) >= kPacketHeaderSize
  <2>1. Len(Assembled) >= kPacketHeaderSize
    BY <1>2, <1>3 DEF kPacketHeaderSize
  <2> QED
    BY <1>2, <1>3, <1>5, <2>1 DEF peek_batch_length
<1>7. Assembled = Collected \o part /\ Collected \in Seq(Word) /\ part \in Seq(Word)
  <2>1. space <= space
    BY <1>3
  <2>2. SubSeq(Assembled, 1, filled + space) = Collected \o part
        /\ Collected \in Seq(Word) /\ part \in Seq(Word)
    BY <1>3, <2>1, CopiedInStream DEF Assembled
  <2>3. filled + space = Len(Assembled)
    BY <1>2, <1>3
  <2>4. SubSeq(Assembled, 1, Len(Assembled)) = Assembled
    BY <1>3, SubSeqFull
  <2> QED
    BY <2>2, <2>3, <2>4
<1>8. rest \in Seq(Word) /\ part \o rest = unread
  <2>1. space \in 0 .. Len(unread)
    BY <1>1, <1>3
  <2> QED
    BY <1>1, <1>3, <2>1, FromProperties, FromCuts
<1>9. Below \in Seq(Word) /\ rest \o Below \in Seq(Word)
  BY <1>1, <1>8, StackAsWords, ConcatProperties
<1>10. Pending = Assembled \o (rest \o Below)
  <2> HIDE DEF rest, part
  <2>1. Pending = Collected \o ((part \o rest) \o Below)
    BY <1>1, <1>8, StackAsWords DEF Pending
  <2>2. (part \o rest) \o Below = part \o (rest \o Below)
    BY <1>7, <1>8, <1>9, Regrouped
  <2>3. (Collected \o part) \o (rest \o Below) = Collected \o (part \o (rest \o Below))
    BY <1>7, <1>9, Regrouped
  <2> QED
    BY <1>7, <2>1, <2>2, <2>3
<1> HIDE DEF rest, part
<1>11. /\ peek_batch_length(Pending) = expected
       /\ batch_total_of(Pending) = wire_batch_total
  <2>1. batch_total_of(Assembled) = wire_batch_total
    BY <1>2, <1>3 DEF batch_total_of
  <2> QED
    BY <1>3, <1>6, <1>9, <1>10, <2>1, HeaderOfConcat
<1>12. expected <= Len(Pending) /\ SubSeq(Pending, 1, expected) = Assembled
  <2>1. Len(Pending) = expected + Len(rest \o Below) /\ Len(rest \o Below) \in Nat
    BY <1>3, <1>9, <1>10, ConcatProperties, LenProperties
  <2>2. SubSeq(Pending, 1, expected) = Assembled
    BY <1>3, <1>9, <1>10, ConcatCuts
  <2> QED
    BY <1>2, <2>1, <2>2
<1>13. Received!Complete /\ Received!Front = Assembled
  <2>1. expected # 0
    BY <1>2
  <2> QED
    BY <1>11, <1>12, <2>1
       DEF Received!Complete, Received!IsHeader, Received!Front
<1>14. ValidSession(PacketHeader(Assembled), wire_batch_total)
  BY <1>2, <1>3, <1>5 DEF ValidSession
<1> QED
  BY <1>2, <1>3, <1>6, <1>8, <1>9, <1>10, <1>11, <1>12, <1>13, <1>14 DEF rest

\* After the batch the stream goes on with what the calls have still to read.
LEMMA AfterAssembled ==
  ASSUME IInv, Collecting, Len(unread) >= space,
         reset_reassembly, calls' = Continue(From(unread, space))
  PROVE  Pending' = Received!After(peek_batch_length(Pending))
<1> DEFINE tail == From(unread, space) \o Below
<1>1. /\ Assembled \in Seq(Word) /\ peek_batch_length(Pending) = Len(Assembled)
      /\ From(unread, space) \in Seq(Word) /\ Below \in Seq(Word)
      /\ Pending = Assembled \o tail
  BY AssembledInStream
<1>2. tail \in Seq(Word) /\ FlattenSeq(Continue(From(unread, space))) = tail
  BY <1>1, StackAsWords, ConcatProperties DEF Collecting
<1> HIDE DEF tail
<1>3. Pending' = <<>> \o tail
  BY <1>2 DEF reset_reassembly, Pending, Collected
<1>4. From(Pending, Len(Assembled)) = tail
  BY <1>1, <1>2, ConcatCuts
<1> QED
  BY <1>1, <1>2, <1>3, <1>4, ConcatEmptySeq DEF Received!After, From

\* A valid batch at the front of the stream is counted.
LEMMA CountBatchIsCount ==
  ASSUME IInv, CountBatch
  PROVE  Received!Count
<1>1. /\ Collecting /\ Len(unread) >= space
      /\ ValidBatch(Assembled)
      /\ accepted' = Append(accepted, Assembled)
      /\ reset_reassembly /\ calls' = Continue(From(unread, space))
      /\ UNCHANGED wire_batch_total
  BY DEF CountBatch, BatchAccepted
<1>2. Received!Complete /\ Received!Front = Assembled
  BY <1>1, AssembledInStream
<1>3. Pending' = Received!After(peek_batch_length(Pending))
  BY <1>1, AfterAssembled
<1> QED
  BY <1>1, <1>2, <1>3 DEF Received!Count

\* A complete batch that is refused is invalid.
LEMMA RefusedIsInvalid ==
  ASSUME IInv, Collecting, Len(unread) >= space, ~BatchAccepted(Assembled)
  PROVE  ~ValidBatch(Assembled)
BY AssembledInStream DEF BatchAccepted

\* A corrupt batch of which nothing can be used is given up as a whole.
LEMMA DropBatchIsGiveUp ==
  ASSUME IInv, DropBatch
  PROVE  Received!GiveUp
<1>1. /\ Collecting /\ Len(unread) >= space
      /\ ~BatchAccepted(Assembled)
      /\ reset_reassembly /\ calls' = Continue(From(unread, space))
      /\ UNCHANGED <<wire_batch_total, accepted>>
  BY DEF DropBatch, history
<1>2. Received!Complete /\ Received!Front = Assembled
  BY <1>1, AssembledInStream
<1>3. Pending' = Received!After(peek_batch_length(Pending))
  BY <1>1, AfterAssembled
<1>4. peek_batch_length(Pending) \in 1 .. peek_batch_length(Pending)
  <2>1. /\ peek_batch_length(Pending) \in Nat
        /\ peek_batch_length(Pending) >= kPacketHeaderSize
    BY <1>1, AssembledInStream
  <2> QED
    BY <2>1 DEF kPacketHeaderSize
<1>5. ~ValidBatch(Received!Front)
  BY <1>1, <1>2, RefusedIsInvalid
<1> QED
  BY <1>1, <1>2, <1>3, <1>4, <1>5 DEF Received!GiveUp

\* The salvaged tail starts behind the first word of the batch, inside it.
LEMMA SalvageInside ==
  ASSUME NEW batch \in Seq(Word), NEW tail \in Salvage(batch)
  PROVE  /\ SalvageOffset(batch) \in 1 .. Len(batch)
         /\ tail = From(batch, SalvageOffset(batch))
         /\ tail \in Seq(Word)
<1> DEFINE offsets == {i \in 1 .. Len(batch) - kPacketHeaderSize :
          /\ PlausibleAt(batch, i)
          /\ PacketHeader(From(batch, i)).seq \in
               (IF PacketHeader(batch).seq + 1 < PacketHeader(batch).batch_total
                THEN {PacketHeader(batch).seq + 1} ELSE Nat)
          /\ ValidSession(PacketHeader(From(batch, i)), wire_batch_total)}
<1>1. Len(batch) \in Nat
  BY LenProperties
<1>2. SalvageOffset(batch) = IF offsets = {} THEN Len(batch) ELSE Min(offsets)
  BY DEF SalvageOffset, find_next_batch_header_offset, FirstOffset
<1>3. offsets \in SUBSET (1 .. Len(batch)) /\ offsets \in SUBSET (0 .. Len(batch))
  BY <1>1 DEF kPacketHeaderSize
<1>4. tail = From(batch, SalvageOffset(batch)) /\ tail # <<>> /\ tail \in Seq(Word)
  BY SalvageType DEF Salvage
<1> HIDE DEF offsets
<1>5. CASE offsets = {}
  BY <1>2, <1>4, <1>5, FromCuts
<1>6. CASE offsets # {}
  <2>1. Min(offsets) \in offsets
    BY <1>1, <1>3, <1>6, MinOfNaturals
  <2> QED
    BY <1>2, <1>3, <1>4, <1>6, <2>1
<1> QED
  BY <1>5, <1>6

\* Of a corrupt batch that is salvaged, the words before the tail are given up.
LEMMA SalvageTailIsGiveUp ==
  ASSUME IInv, SalvageTail
  PROVE  Received!GiveUp
<1> DEFINE rest == From(unread, space)
<1>1. /\ Collecting /\ Len(unread) >= space /\ calls # <<>>
      /\ ~BatchAccepted(Assembled)
      /\ reset_reassembly
      /\ UNCHANGED <<wire_batch_total, accepted>>
  BY DEF SalvageTail, Collecting, history
<1>2. PICK tail \in Salvage(Assembled) : calls' = <<tail>> \o Continue(rest)
  BY DEF SalvageTail
<1>3. /\ Received!Complete /\ Received!Front = Assembled
      /\ Assembled \in Seq(Word) /\ Len(Assembled) \in Nat
      /\ peek_batch_length(Pending) = Len(Assembled)
      /\ rest \in Seq(Word) /\ Below \in Seq(Word)
      /\ Pending = Assembled \o (rest \o Below)
  BY <1>1, AssembledInStream
<1> DEFINE n == SalvageOffset(Assembled)
<1> HIDE DEF rest, n
<1>4. n \in 1 .. Len(Assembled) /\ tail = From(Assembled, n) /\ tail \in Seq(Word)
  BY <1>2, <1>3, SalvageInside DEF n
<1>5. /\ rest \o Below \in Seq(Word)
      /\ FlattenSeq(Continue(rest)) = rest \o Below
      /\ Continue(rest) \in Seq(Seq(Word))
  <2>1. TypeOK
    BY DEF IInv
  <2> QED
    BY <1>1, <1>3, <2>1, StackAsWords, ConcatProperties, ContinueType
<1>6. Pending' = tail \o (rest \o Below)
  <2>1. FlattenSeq(calls') = tail \o (rest \o Below)
    BY <1>2, <1>4, <1>5, FlattenOfCons
  <2>2. tail \o (rest \o Below) \in Seq(Word)
    BY <1>4, <1>5, ConcatProperties
  <2>3. Collected' = <<>>
    BY <1>1 DEF reset_reassembly, Collected
  <2> QED
    BY <2>1, <2>2, <2>3, ConcatEmptySeq DEF Pending
<1>7. Pending' = Received!After(n)
  <2>1. n \in Nat /\ n <= Len(Assembled)
    BY <1>3, <1>4
  <2>2. From(Assembled \o (rest \o Below), n) = From(Assembled, n) \o (rest \o Below)
    BY <1>3, <1>5, <2>1, FromOfConcat
  <2> QED
    BY <1>3, <1>4, <1>6, <2>2 DEF Received!After, From
<1>8. ~ValidBatch(Received!Front)
  BY <1>1, <1>3, RefusedIsInvalid
<1> QED
  BY <1>1, <1>3, <1>4, <1>7, <1>8 DEF Received!GiveUp

-----------------------------------------------------------------------------
(***************************************************************************)
(* The refinement                                                          *)
(***************************************************************************)

\* Every step of the reassembly is a step of the stream, or none.
LEMMA NextOfStream ==
  ASSUME IInv, [Next]_vars
  PROVE  [Received!Next]_(Received!vars)
<1>1. CASE Receive
  BY <1>1, ReceiveIsArrive DEF Receive, Received!Next
<1>2. CASE RetainTail
  BY <1>2, RetainTailIsSkip DEF Received!Next
<1>3. CASE SplitHeader
  BY <1>3, SplitHeaderIsSkip DEF Received!Next
<1>4. CASE RejectHeader
  BY <1>4, RejectHeaderIsSkip DEF Received!Next
<1>5. CASE AcceptHeader
  BY <1>5, AcceptHeaderIsOpen DEF Received!Next
<1>6. CASE CopyFragment
  BY <1>6, CopyFragmentIsStutter
<1>7. CASE CountBatch
  BY <1>7, CountBatchIsCount DEF Received!Next
<1>8. CASE DropBatch
  BY <1>8, DropBatchIsGiveUp DEF Received!Next
<1>9. CASE SalvageTail
  BY <1>9, SalvageTailIsGiveUp DEF Received!Next
<1>10. CASE UNCHANGED vars
  BY <1>10 DEF vars, reassembly, history, Received!vars, Pending, Collected
<1> QED
  BY <1>1, <1>2, <1>3, <1>4, <1>5, <1>6, <1>7, <1>8, <1>9, <1>10 DEF Next, Ingest

\* The reassembly implements the abstract receiver: however datagrams cut the
\* stream, whatever is skipped, resynchronised or salvaged, every valid batch of
\* the session that comes to the front is counted once and no header of the
\* session is jumped over (server.cpp:249-359, 438-550).
THEOREM StreamImplemented == Spec => ImplementsStream
<1>1. Init => Received!Init
  BY InitOfStream
<1>2. IInv /\ [Next]_vars => [Received!Next]_(Received!vars)
  BY NextOfStream
<1> QED
  BY <1>1, <1>2, Invariance, PTL DEF Spec, ImplementsStream, Received!Spec

-----------------------------------------------------------------------------
(***************************************************************************)
(* Consequences for the length of the stream, which bounds how many        *)
(* batches a datagram can complete                                         *)
(***************************************************************************)

\* Ingesting takes words from the front of the stream, and adds none.
LEMMA IngestShortens ==
  ASSUME IInv, Ingest
  PROVE  \E n \in 0 .. Len(Pending) : Pending' = From(Pending, n)
<1>1. Pending \in Seq(Word) /\ Len(Pending) \in Nat /\ From(Pending, 0) = Pending
  BY PendingType, LenProperties, FromCuts
<1>2. ASSUME UNCHANGED Received!vars
      PROVE  \E n \in 0 .. Len(Pending) : Pending' = From(Pending, n)
  <2>1. Pending' = From(Pending, 0) /\ 0 \in 0 .. Len(Pending)
    BY <1>1, <1>2 DEF Received!vars
  <2> QED
    BY <2>1
<1>3. ASSUME Received!Skip \/ Received!Open
      PROVE  \E n \in 0 .. Len(Pending) : Pending' = From(Pending, n)
  <2>1. 1 .. Len(Pending) \subseteq 0 .. Len(Pending)
    BY <1>1
  <2> QED
    BY <1>3, <2>1 DEF Received!Skip, Received!Open, Received!After, From
<1>4. ASSUME Received!Count \/ Received!GiveUp,
             peek_batch_length(Pending) \in Nat
      PROVE  \E n \in 0 .. Len(Pending) : Pending' = From(Pending, n)
  <2>1. peek_batch_length(Pending) <= Len(Pending)
    BY <1>4 DEF Received!Count, Received!GiveUp, Received!Complete
  <2>2. PICK n \in 1 .. peek_batch_length(Pending) \cup {peek_batch_length(Pending)} :
          Pending' = Received!After(n)
    BY <1>4 DEF Received!Count, Received!GiveUp
  <2>3. n \in 0 .. Len(Pending)
    BY <1>1, <1>4, <2>1
  <2> QED
    BY <2>2, <2>3 DEF Received!After, From
<1>5. CASE RetainTail \/ SplitHeader \/ RejectHeader
  BY <1>2, <1>3, <1>5, RetainTailIsSkip, SplitHeaderIsSkip, RejectHeaderIsSkip
<1>6. CASE AcceptHeader
  BY <1>3, <1>6, AcceptHeaderIsOpen
<1>7. CASE CopyFragment
  BY <1>2, <1>7, CopyFragmentIsStutter
<1>8. CASE CountBatch \/ DropBatch \/ SalvageTail
  <2>1. Collecting /\ Len(unread) >= space
    BY <1>8 DEF CountBatch, DropBatch, SalvageTail
  <2>2. peek_batch_length(Pending) \in Nat
    BY <2>1, AssembledInStream
  <2> QED
    BY <1>4, <1>8, <2>2, CountBatchIsCount, DropBatchIsGiveUp, SalvageTailIsGiveUp
<1> QED
  BY <1>5, <1>6, <1>7, <1>8 DEF Ingest

\* A batch that is counted leaves the stream with all its words.
LEMMA CountBatchShortens ==
  ASSUME IInv, CountBatch
  PROVE  /\ expected <= Len(Pending)
         /\ Len(Pending') = Len(Pending) - expected
<1>1. Collecting /\ Len(unread) >= space /\ active
      /\ reset_reassembly /\ calls' = Continue(From(unread, space))
  BY DEF CountBatch, Collecting
<1>2. /\ Len(Assembled) = expected /\ expected \in Nat
      /\ peek_batch_length(Pending) = Len(Assembled)
      /\ Len(Assembled) <= Len(Pending)
  BY <1>1, AssembledInStream, AssembledProperties
     DEF IInv, TypeOK, ReassemblyConsistent
<1>3. Pending' = From(Pending, expected)
  BY <1>1, <1>2, AfterAssembled DEF Received!After, From
<1>4. Pending \in Seq(Word)
  BY PendingType
<1> QED
  BY <1>2, <1>3, <1>4, FromProperties

-----------------------------------------------------------------------------
(***************************************************************************)
(* Termination                                                             *)
(***************************************************************************)

\* A call that has read all its data has returned.
NoEmptyCall == \A k \in DOMAIN calls : calls[k] # <<>>

\* The calls below are not empty, and neither is what goes on top of them.
LEMMA StackStaysNonEmpty ==
  ASSUME TypeOK, NoEmptyCall, calls # <<>>
  PROVE  /\ unread # <<>>
         /\ \A k \in DOMAIN Tail(calls) : Tail(calls)[k] # <<>>
         /\ \A rest \in Seq(Word) :
              \A k \in DOMAIN Continue(rest) : Continue(rest)[k] # <<>>
<1>1. /\ calls \in Seq(Seq(Word)) /\ Len(calls) \in Nat /\ Len(calls) >= 1
      /\ Tail(calls) \in Seq(Seq(Word))
  BY EmptySeq, CallProperties DEF TypeOK
<1>2. unread # <<>>
  BY <1>1, LenProperties DEF NoEmptyCall, unread
<1>3. \A k \in DOMAIN Tail(calls) : Tail(calls)[k] # <<>>
  BY <1>1 DEF NoEmptyCall
<1>4. ASSUME NEW rest \in Seq(Word), NEW k \in DOMAIN Continue(rest)
      PROVE  Continue(rest)[k] # <<>>
  <2>1. CASE rest = <<>>
    BY <1>1, <1>3, <1>4, <2>1, ConcatEmptySeq DEF Continue
  <2>2. CASE rest # <<>>
    <3>1. Continue(rest) = <<rest>> \o Tail(calls)
      BY <2>2 DEF Continue
    <3>2. <<rest>> \in Seq(Seq(Word)) /\ Len(<<rest>>) = 1 /\ <<rest>>[1] = rest
      OBVIOUS
    <3>3. /\ k \in 1 .. 1 + Len(Tail(calls))
          /\ Continue(rest)[k] = IF k <= 1 THEN <<rest>>[k] ELSE Tail(calls)[k - 1]
      BY <1>1, <1>4, <3>1, <3>2, ConcatProperties, LenProperties
    <3>4. k > 1 => k - 1 \in DOMAIN Tail(calls)
      BY <1>1, <3>3, LenProperties
    <3> QED
      BY <1>3, <2>2, <3>2, <3>3, <3>4
  <2> QED
    BY <2>1, <2>2
<1> QED
  BY <1>2, <1>3, <1>4

LEMMA NextKeepsCallsNonEmpty ==
  ASSUME IInv, NoEmptyCall, [Next]_vars
  PROVE  NoEmptyCall'
<1>1. TypeOK
  BY DEF IInv
<1>2. ASSUME calls # <<>>, calls' = Tail(calls)
      PROVE  NoEmptyCall'
  BY <1>1, <1>2, StackStaysNonEmpty DEF NoEmptyCall
<1>3. ASSUME calls # <<>>, NEW i \in Nat, calls' = Continue(From(unread, i))
      PROVE  NoEmptyCall'
  BY <1>1, <1>3, StackStaysNonEmpty, CallProperties, FromProperties DEF NoEmptyCall
<1>4. CASE Receive
  BY <1>4 DEF Receive, ReceiveDatagram, NoEmptyCall
<1>5. CASE RetainTail \/ SplitHeader \/ CopyFragment
  BY <1>2, <1>5 DEF RetainTail, SplitHeader, CopyFragment, Scanning, Collecting
<1>6. CASE RejectHeader \/ AcceptHeader
  <2>1. Scanning /\ calls # <<>> /\ calls' = Continue(From(unread, Skipped + Lacking))
    BY <1>6 DEF RejectHeader, AcceptHeader, Scanning
  <2>2. Skipped + Lacking \in Nat
    BY <2>1, ScanProperties
  <2> QED
    BY <1>3, <2>1, <2>2
<1>7. CASE CountBatch \/ DropBatch
  <2>1. /\ Collecting /\ calls # <<>> /\ Len(unread) >= space
        /\ calls' = Continue(From(unread, space))
    BY <1>7 DEF CountBatch, DropBatch, Collecting
  <2>2. space \in Nat
    BY <2>1, AssembledProperties
  <2> QED
    BY <1>3, <2>1, <2>2
<1>8. CASE SalvageTail
  <2> DEFINE rest == From(unread, space)
  <2>1. Collecting /\ calls # <<>> /\ Len(unread) >= space
    BY <1>8 DEF SalvageTail, Collecting
  <2>2. PICK tail \in Salvage(Assembled) : calls' = <<tail>> \o Continue(rest)
    BY <1>8 DEF SalvageTail
  <2>3. rest \in Seq(Word) /\ Assembled \in Seq(Word)
    BY <2>1, AssembledInStream
  <2>4. tail \in Seq(Word) /\ tail # <<>>
    BY <2>2, <2>3, SalvageType DEF Salvage
  <2> DEFINE below == Continue(rest)
  <2>5. /\ below \in Seq(Seq(Word)) /\ \A k \in DOMAIN below : below[k] # <<>>
    BY <1>1, <2>1, <2>3, ContinueType, StackStaysNonEmpty
  <2>6. <<tail>> \in Seq(Seq(Word)) /\ Len(<<tail>>) = 1 /\ <<tail>>[1] = tail
    BY <2>4
  <2> HIDE DEF below
  <2>7. ASSUME NEW k \in DOMAIN (<<tail>> \o below)
        PROVE  (<<tail>> \o below)[k] # <<>>
    <3>1. /\ k \in 1 .. 1 + Len(below)
          /\ (<<tail>> \o below)[k] = IF k <= 1 THEN <<tail>>[k] ELSE below[k - 1]
      BY <2>5, <2>6, <2>7, ConcatProperties, LenProperties
    <3>2. k > 1 => k - 1 \in DOMAIN below
      BY <2>5, <3>1, LenProperties
    <3> QED
      BY <2>4, <2>5, <2>6, <3>1, <3>2
  <2> QED
    BY <2>2, <2>7 DEF NoEmptyCall, below
<1>9. CASE UNCHANGED vars
  BY <1>9 DEF vars, NoEmptyCall
<1> QED
  BY <1>4, <1>5, <1>6, <1>7, <1>8, <1>9 DEF Next, Ingest

\* What a turn reads is not read again, but for a salvaged tail.
LEMMA ReadingShortens ==
  ASSUME IInv, NoEmptyCall, calls # <<>>
  PROVE  /\ Len(FlattenSeq(Tail(calls))) < Len(FlattenSeq(calls))
         /\ \A n \in 1 .. Len(unread) :
              Len(FlattenSeq(Continue(From(unread, n)))) < Len(FlattenSeq(calls))
<1>1. /\ Below \in Seq(Word) /\ FlattenSeq(calls) = unread \o Below
      /\ FlattenSeq(Tail(calls)) = Below
      /\ \A rest \in Seq(Word) : FlattenSeq(Continue(rest)) = rest \o Below
  BY StackAsWords
<1>2. /\ unread \in Seq(Word) /\ Len(unread) \in Nat /\ Len(unread) >= 1
      /\ Len(Below) \in Nat
  <2>1. unread # <<>> /\ unread \in Seq(Word) /\ Len(unread) \in Nat
    BY StackStaysNonEmpty, CallProperties DEF IInv
  <2> QED
    BY <1>1, <2>1, EmptySeq, LenProperties
<1>3. Len(FlattenSeq(calls)) = Len(unread) + Len(Below)
  BY <1>1, <1>2, ConcatProperties
<1>4. ASSUME NEW n \in 1 .. Len(unread)
      PROVE  Len(FlattenSeq(Continue(From(unread, n)))) < Len(FlattenSeq(calls))
  <2>1. n \in Nat /\ n <= Len(unread) /\ n >= 1
    BY <1>2
  <2>2. From(unread, n) \in Seq(Word) /\ Len(From(unread, n)) = Len(unread) - n
    BY <1>2, <2>1, FromElements
  <2>3. Len(From(unread, n) \o Below) = Len(From(unread, n)) + Len(Below)
    BY <1>1, <2>2, ConcatProperties
  <2> QED
    BY <1>1, <1>2, <1>3, <2>1, <2>2, <2>3
<1> QED
  BY <1>1, <1>2, <1>3, <1>4

\* Each turn of the loop.
LEMMA TurnProgresses ==
  ASSUME IInv, NoEmptyCall, Ingest
  PROVE  \/ Len(Pending') < Len(Pending)
         \/ /\ Len(Pending') = Len(Pending)
            /\ Len(FlattenSeq(calls')) < Len(FlattenSeq(calls))
<1>1. /\ Pending \in Seq(Word) /\ Len(Pending) \in Nat
      /\ Len(Pending') \in Nat /\ Len(Pending') <= Len(Pending)
  <2>1. Pending \in Seq(Word) /\ Len(Pending) \in Nat
    BY PendingType, LenProperties
  <2>2. PICK n \in 0 .. Len(Pending) : Pending' = From(Pending, n)
    BY IngestShortens
  <2>3. n \in Nat /\ n <= Len(Pending)
    BY <2>1
  <2>4. Len(From(Pending, n)) = Len(Pending) - n
    BY <2>1, <2>3, FromElements
  <2> QED
    BY <2>1, <2>2, <2>3, <2>4
<1>2. SUFFICES ASSUME ~(Len(Pending') < Len(Pending))
               PROVE  Len(FlattenSeq(calls')) < Len(FlattenSeq(calls))
  BY <1>1
<1>3. CASE RetainTail \/ SplitHeader \/ CopyFragment
  BY <1>3, ReadingShortens DEF RetainTail, SplitHeader, CopyFragment, Scanning, Collecting
<1>4. CASE RejectHeader \/ AcceptHeader
  <2>1. /\ Scanning /\ HeaderInReach /\ calls # <<>>
        /\ calls' = Continue(From(unread, Skipped + Lacking))
    BY <1>4 DEF RejectHeader, AcceptHeader, Scanning
  <2>2. Skipped + Lacking \in 1 .. Len(unread)
    <3>1. Skipped \in Nat /\ Lacking \in 1 .. 5 /\ Skipped + Lacking <= Len(unread)
          /\ Len(unread) \in Nat
      BY <2>1, ScanProperties, CallProperties DEF HeaderInReach, IInv
    <3> QED
      BY <3>1
  <2> QED
    BY <2>1, <2>2, ReadingShortens
<1>5. CASE CountBatch \/ DropBatch \/ SalvageTail
  <2>1. /\ Collecting /\ Len(unread) >= space
        /\ Received!Count \/ Received!GiveUp
    BY <1>5, CountBatchIsCount, DropBatchIsGiveUp, SalvageTailIsGiveUp
       DEF CountBatch, DropBatch, SalvageTail
  <2>2. /\ peek_batch_length(Pending) \in Nat /\ peek_batch_length(Pending) >= 1
        /\ peek_batch_length(Pending) <= Len(Pending)
    BY <2>1, AssembledInStream DEF kPacketHeaderSize
  <2>3. PICK n \in 1 .. peek_batch_length(Pending) : Pending' = From(Pending, n)
    BY <2>1, <2>2 DEF Received!Count, Received!GiveUp, Received!After, From
  <2>4. n \in Nat /\ n <= Len(Pending) /\ n >= 1
    BY <1>1, <2>2
  <2>5. Len(From(Pending, n)) = Len(Pending) - n
    BY <1>1, <2>4, FromElements
  <2> QED
    BY <1>1, <1>2, <2>3, <2>4, <2>5
<1> QED
  BY <1>3, <1>4, <1>5 DEF Ingest

\* Whatever the datagrams hold, no call of ingest_fragment loops for ever: the
\* pair of the words that wait and of those still to be read gets smaller with
\* each turn, in the order that looks at the first of the two first
\* (server.cpp:249-359, 438-550).
THEOREM IngestTerminates == Spec => IngestProgresses
<1>1. Init => NoEmptyCall
  BY DEF Init, NoEmptyCall
<1>2. IInv /\ NoEmptyCall /\ [Next]_vars => NoEmptyCall'
  BY NextKeepsCallsNonEmpty
<1>3. IInv /\ NoEmptyCall /\ [Next]_vars =>
        [calls # <<>> =>
           \/ Len(Pending') < Len(Pending)
           \/ /\ Len(Pending') = Len(Pending)
              /\ Len(FlattenSeq(calls')) < Len(FlattenSeq(calls))]_vars
  BY TurnProgresses DEF Next, Receive, ReceiveDatagram
<1> QED
  BY <1>1, <1>2, <1>3, Invariance, PTL DEF Spec, IngestProgresses

=============================================================================
