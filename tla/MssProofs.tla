----------------------------- MODULE MssProofs -----------------------------
(***************************************************************************)
(* The segment size that the server prints for a batch is the --mss of its *)
(* sender, when the network keeps its datagrams in order.  The receiver    *)
(* never sees a segment: it counts what it copies out of each datagram,    *)
(* and the argument is about where the datagrams end.                      *)
(***************************************************************************)
EXTENDS UdpTestProofs

-----------------------------------------------------------------------------
(***************************************************************************)
(* The size seen most often                                                *)
(***************************************************************************)

\* The slices of a batch of n whole segments and a rest: the header is missing
\* from the first.
SlicesOf(m, n, rest) ==
  [j \in 1 .. n + 1 |-> IF j = n + 1 THEN rest
                        ELSE IF j = 1 THEN m - kPacketHeaderSize ELSE m]

LEMMA MaxOfBounded ==
  ASSUME NEW S \in SUBSET Nat, NEW m \in S, \A s \in S : s <= m
  PROVE  Max(S) = m
<1>1. m \in S /\ \A s \in S : m >= s
  OBVIOUS
<1>2. Max(S) \in S /\ \A s \in S : Max(S) >= s
  BY <1>1 DEF Max
<1> DEFINE most == Max(S)
<1>3. most \in Nat /\ m \in Nat /\ m >= most /\ most >= m
  BY <1>1, <1>2
<1> HIDE DEF most
<1>4. most = m
  BY <1>3
<1> QED
  BY <1>4 DEF most

\* The rest is the last segment, when that is a whole one too; else there are
\* two whole segments at least, and three when the rest is as long as the first
\* slice.
LEMMA SliceCounts ==
  ASSUME NEW m \in Nat, m > kPacketHeaderSize, NEW n \in Nat \ {0},
         NEW rest \in 1 .. m,
         n = 1 => rest = m,
         n = 2 => rest # m - kPacketHeaderSize,
         NEW other \in {m - kPacketHeaderSize, rest}
  PROVE  LET sizes == SlicesOf(m, n, rest)
             Seen(size) == Cardinality({k \in DOMAIN sizes : sizes[k] = size})
         IN  Seen(m) >= Seen(other)
<1> DEFINE sizes == SlicesOf(m, n, rest)
           h == m - kPacketHeaderSize
           At(size) == {k \in DOMAIN sizes : sizes[k] = size}
           Seen(size) == Cardinality(At(size))
<1>1. /\ DOMAIN sizes = 1 .. n + 1
      /\ sizes[n + 1] = rest /\ sizes[1] = h
      /\ \A k \in 2 .. n : sizes[k] = m
  BY DEF SlicesOf
<1>2. h \in Nat /\ h < m /\ h # 0 /\ rest \in Nat
  BY DEF kPacketHeaderSize
<1>3. SUFFICES Seen(m) >= Seen(other)
  OBVIOUS
<1> HIDE DEF sizes, h
<1>4. \A k \in DOMAIN sizes : k = 1 \/ k = n + 1 \/ k \in 2 .. n
  BY <1>1
<1>5. \A size : IsFiniteSet(At(size)) /\ Seen(size) \in Nat
  <2>1. \A size : At(size) \subseteq 1 .. n + 1
    BY <1>1
  <2>2. IsFiniteSet(1 .. n + 1)
    BY FS_Interval
  <2> QED
    BY <2>1, <2>2, FS_Subset, FS_CardinalityType
<1>6. ASSUME NEW b \in Nat, b >= 2, NEW size, 2 .. b \subseteq At(size)
      PROVE  Seen(size) >= b - 1
  <2>1. IsFiniteSet(2 .. b) /\ Cardinality(2 .. b) = b - 1
    BY <1>6, FS_Interval
  <2>2. Cardinality(2 .. b) <= Cardinality(At(size))
    BY <1>5, <1>6, FS_Subset
  <2> QED
    BY <2>1, <2>2
<1>7. ASSUME NEW x, NEW size, At(size) \subseteq {x}
      PROVE  Seen(size) <= 1
  <2>1. IsFiniteSet({x}) /\ Cardinality({x}) = 1
    BY FS_Singleton
  <2>2. Cardinality(At(size)) <= Cardinality({x})
    BY <1>7, <2>1, FS_Subset
  <2> QED
    BY <2>1, <2>2
<1>8. Seen(h) <= 2
  <2> DEFINE ends == {1} \cup {n + 1}
  <2>1. IsFiniteSet({1}) /\ Cardinality({1}) = 1
    BY FS_Singleton
  <2>2. IsFiniteSet(ends) /\ Cardinality(ends) <= 2
    BY <2>1, FS_AddElement
  <2>3. At(h) \subseteq ends
    BY <1>1, <1>2, <1>4
  <2> HIDE DEF ends
  <2>4. Cardinality(At(h)) <= Cardinality(ends)
    BY <2>2, <2>3, FS_Subset
  <2>5. Cardinality(ends) \in Nat
    BY <2>2, FS_CardinalityType
  <2> DEFINE a == Cardinality(At(h))
             c == Cardinality(ends)
  <2>6. a \in Nat /\ c \in Nat /\ a <= c /\ c <= 2
    BY <1>5, <2>2, <2>4, <2>5
  <2> HIDE DEF a, c
  <2>7. a <= 2
    BY <2>6
  <2> QED
    BY <2>7 DEF a
<1>9. CASE rest = m
  <2> DEFINE b == n + 1
  <2>1. b \in Nat /\ b >= 2 /\ b - 1 >= 1 /\ 2 .. b \subseteq At(m)
    BY <1>1, <1>9
  <2>2. At(h) \subseteq {1}
    BY <1>1, <1>2, <1>4, <1>9
  <2> HIDE DEF b
  <2>3. Seen(m) >= b - 1
    BY <1>6, <2>1
  <2>4. Seen(h) <= 1
    BY <1>7, <2>2
  <2>5. Seen(m) \in Nat /\ Seen(h) \in Nat /\ other \in {h, m}
    BY <1>5, <1>9 DEF h
  <2> HIDE DEF Seen
  <2> QED
    BY <2>1, <2>3, <2>4, <2>5
<1>10. CASE rest # m
  <2>1. n >= 2 /\ 2 .. n \subseteq At(m)
    BY <1>1, <1>10
  <2>2. Seen(m) >= n - 1
    BY <1>6, <2>1
  <2>3. /\ Seen(m) \in Nat /\ Seen(h) \in Nat /\ Seen(rest) \in Nat
        /\ other \in {h, rest} /\ (n = 2 => rest # h)
    BY <1>5 DEF h
  <2>4. rest # h => Seen(rest) <= 1 /\ Seen(h) <= 1
    <3> SUFFICES ASSUME rest # h
                 PROVE  Seen(rest) <= 1 /\ Seen(h) <= 1
      OBVIOUS
    <3>1. At(rest) \subseteq {n + 1} /\ At(h) \subseteq {1}
      BY <1>1, <1>2, <1>4, <1>10
    <3> QED
      BY <1>7, <3>1
  <2>5. Seen(h) <= 2
    BY <1>8
  <2> HIDE DEF Seen
  <2> QED
    BY <2>1, <2>2, <2>3, <2>4, <2>5
<1> QED
  BY <1>9, <1>10

\* What infer_detected_mss returns for a batch of at least two whole segments.
LEMMA InferredFromSlices ==
  ASSUME NEW m \in Nat, m > kPacketHeaderSize, NEW n \in Nat \ {0},
         NEW rest \in 1 .. m,
         n = 1 => rest = m,
         n = 2 => rest # m - kPacketHeaderSize
  PROVE  infer_detected_mss(SlicesOf(m, n, rest)) = m
<1> DEFINE sizes == SlicesOf(m, n, rest)
           h == m - kPacketHeaderSize
           Seen(size) == Cardinality({k \in DOMAIN sizes : sizes[k] = size})
           Most == {size \in Range(sizes) :
                      \A other \in Range(sizes) : Seen(size) >= Seen(other)}
<1>1. /\ DOMAIN sizes = 1 .. n + 1 /\ Len(sizes) = n + 1
      /\ sizes[n + 1] = rest /\ sizes[1] = h
      /\ \A k \in 2 .. n : sizes[k] = m
  BY DEF SlicesOf
<1>2. h \in Nat /\ h < m /\ rest \in Nat /\ rest <= m
  BY DEF kPacketHeaderSize
<1>3. \A size \in Range(sizes) : size \in {m, h, rest}
  <2> HIDE DEF sizes
  <2> SUFFICES ASSUME NEW k \in DOMAIN sizes
               PROVE  sizes[k] \in {m, h, rest}
    BY DEF Range
  <2>1. k = 1 \/ k = n + 1 \/ k \in 2 .. n
    BY <1>1
  <2> QED
    BY <1>1, <2>1
<1>4. m \in Range(sizes)
  <2> HIDE DEF sizes
  <2>1. CASE n = 1
    <3>1. sizes[n + 1] = m /\ n + 1 \in DOMAIN sizes
      BY <1>1, <2>1
    <3> QED
      BY <3>1 DEF Range
  <2>2. CASE n # 1
    <3>1. 2 \in 2 .. n /\ 2 \in DOMAIN sizes
      BY <1>1, <2>2
    <3> QED
      BY <1>1, <3>1 DEF Range
  <2> QED
    BY <2>1, <2>2
<1>5. Seen(m) >= Seen(h) /\ Seen(m) >= Seen(rest)
  <2>1. h \in {m - kPacketHeaderSize, rest} /\ rest \in {m - kPacketHeaderSize, rest}
    OBVIOUS
  <2> QED
    BY <2>1, SliceCounts
<1>6. Seen(m) >= Seen(m)
  <2> HIDE DEF sizes
  <2>1. {k \in DOMAIN sizes : sizes[k] = m} \subseteq 1 .. n + 1
    BY <1>1
  <2>2. IsFiniteSet(1 .. n + 1)
    BY FS_Interval
  <2>3. Seen(m) \in Nat
    BY <2>1, <2>2, FS_Subset, FS_CardinalityType
  <2> QED
    BY <2>3
<1>7. infer_detected_mss(sizes) = Max(Most)
  <2>1. ~(Len(sizes) < 2)
    BY <1>1
  <2> HIDE DEF sizes
  <2> QED
    BY <2>1 DEF infer_detected_mss
<1> HIDE DEF sizes
<1>8. \A other \in Range(sizes) : Seen(m) >= Seen(other)
  BY <1>3, <1>5, <1>6
<1>9. m \in Most
  BY <1>4, <1>8
<1>10. Most \in SUBSET Nat /\ \A size \in Most : size <= m
  BY <1>2, <1>3
<1> HIDE DEF Most
<1>11. Max(Most) = m
  BY <1>9, <1>10, MaxOfBounded
<1> QED
  BY <1>7, <1>11 DEF sizes

-----------------------------------------------------------------------------
(***************************************************************************)
(* Where the datagrams end                                                 *)
(***************************************************************************)

\* The options of the run that sends batch k of a test whose runs have one
\* --count, what send_batch_fallback takes of the batch from o on, and where it
\* goes on.
OptionsAt(test, k) == test[(k \div test[1].batchCount) + 1]

SliceSize(test, k, o) ==
  LET run_options == OptionsAt(test, k)
      left        == run_options.batchSize - o
  IN  IF run_options.mss = 0 \/ left < run_options.mss THEN left
      ELSE run_options.mss

SliceIsLast(test, k, o) ==
  o + SliceSize(test, k, o) = OptionsAt(test, k).batchSize

NextBatch(test, k, o) == IF SliceIsLast(test, k, o) THEN k + 1 ELSE k
NextOffset(test, k, o) ==
  IF SliceIsLast(test, k, o) THEN 0 ELSE o + SliceSize(test, k, o)

IsSlice(test, k, o) ==
  /\ k \in 0 .. Len(test) * test[1].batchCount - 1
  /\ o \in CutsOf(OptionsAt(test, k))

\* The datagrams of queue are as long as the slices from one position to another.
InRow(test, queue, k, o, last_k, last_o) ==
  \E at, from \in [1 .. Len(queue) + 1 -> Nat] :
    /\ at[1] = k /\ from[1] = o
    /\ at[Len(queue) + 1] = last_k /\ from[Len(queue) + 1] = last_o
    /\ \A j \in 1 .. Len(queue) :
         /\ IsSlice(test, at[j], from[j])
         /\ Len(queue[j]) = SliceSize(test, at[j], from[j])
         /\ at[j + 1] = NextBatch(test, at[j], from[j])
         /\ from[j + 1] = NextOffset(test, at[j], from[j])

\* A slice is not empty, stays inside its batch, and is a whole segment unless it
\* is the last.
LEMMA SliceProperties ==
  ASSUME runs \in Tests, NEW k, NEW o, IsSlice(runs, k, o)
  PROVE  /\ k \in Nat /\ o \in Nat /\ k < Len(runs) * count
         /\ (k \div count) + 1 \in DOMAIN runs
         /\ k % count \in 0 .. count - 1
         /\ OptionsAt(runs, k) = runs[(k \div count) + 1]
         /\ OptionsAt(runs, k).batchSize \in Nat /\ OptionsAt(runs, k).mss \in Nat
         /\ o < OptionsAt(runs, k).batchSize
         /\ SliceSize(runs, k, o) \in Nat \ {0}
         /\ o + SliceSize(runs, k, o) <= OptionsAt(runs, k).batchSize
         /\ OptionsAt(runs, k).mss # 0 =>
              SliceSize(runs, k, o) <= OptionsAt(runs, k).mss
         /\ ~SliceIsLast(runs, k, o) =>
              SliceSize(runs, k, o) = OptionsAt(runs, k).mss
         /\ NextBatch(runs, k, o) \in Nat /\ NextOffset(runs, k, o) \in Nat
         /\ \E q \in Nat : o = q * OptionsAt(runs, k).mss
<1>1. /\ Len(runs) \in Nat /\ DOMAIN runs = 1 .. Len(runs)
      /\ 1 \in DOMAIN runs
      /\ \A r \in DOMAIN runs : runs[r] \in RunOptions
  BY RunsProperties
<1>2. count \in Nat \ {0}
  BY <1>1 DEF RunOptions, count
<1>3. k \in 0 .. Len(runs) * count - 1 /\ o \in CutsOf(OptionsAt(runs, k))
  BY DEF IsSlice, count
<1> DEFINE r == (k \div count) + 1
<1>4. OptionsAt(runs, k) = runs[r]
  BY DEF OptionsAt, count
<1> HIDE DEF count
<1>5. k \in Nat /\ k < Len(runs) * count
  <2>1. Len(runs) * count \in Nat
    BY <1>1, <1>2, TimesSize
  <2> QED
    BY <1>3, <2>1
<1>6. r \in DOMAIN runs /\ k % count \in 0 .. count - 1
  BY <1>1, <1>2, <1>5, RowInside
<1>7. runs[r] \in RunOptions
  BY <1>1, <1>6
<1> DEFINE size == runs[r].batchSize
           m == runs[r].mss
<1>8. size \in Nat /\ m \in Nat
  BY <1>7, PacketAssumption DEF RunOptions, kPacketHeaderSize
<1>9. o \in 0 .. size - 1 /\ \E q \in Nat : o = q * m
  BY <1>3, <1>4 DEF CutsOf
<1>10. SliceSize(runs, k, o) = IF m = 0 \/ size - o < m THEN size - o ELSE m
  BY <1>4 DEF SliceSize
<1>11. SliceIsLast(runs, k, o) <=> o + SliceSize(runs, k, o) = size
  BY <1>4 DEF SliceIsLast
<1> HIDE DEF size, m
<1>12. /\ o \in Nat /\ o < size
       /\ SliceSize(runs, k, o) \in Nat \ {0}
       /\ o + SliceSize(runs, k, o) <= size
       /\ m # 0 => SliceSize(runs, k, o) <= m
       /\ o + SliceSize(runs, k, o) # size => SliceSize(runs, k, o) = m
  BY <1>8, <1>9, <1>10
<1>13. NextBatch(runs, k, o) \in Nat /\ NextOffset(runs, k, o) \in Nat
  BY <1>5, <1>12 DEF NextBatch, NextOffset
<1> QED
  BY <1>4, <1>5, <1>6, <1>8, <1>9, <1>11, <1>12, <1>13 DEF size, m

LEMMA EmptyRow ==
  ASSUME NEW test, NEW k \in Nat, NEW o \in Nat
  PROVE  InRow(test, <<>>, k, o, k, o)
<1> DEFINE at == [j \in 1 .. 1 |-> k]
           from == [j \in 1 .. 1 |-> o]
<1>1. Len(<<>>) + 1 = 1 /\ 1 .. Len(<<>>) = {}
  OBVIOUS
<1>2. at \in [1 .. 1 -> Nat] /\ from \in [1 .. 1 -> Nat] /\ at[1] = k /\ from[1] = o
  OBVIOUS
<1> HIDE DEF at, from
<1> QED
  BY <1>1, <1>2 DEF InRow

\* A row that grows at its end.
LEMMA RowOfAppend ==
  ASSUME NEW test, NEW queue \in Seq(Seq(Word)), NEW d \in Seq(Word),
         NEW k, NEW o, NEW last_k, NEW last_o,
         InRow(test, queue, k, o, last_k, last_o),
         IsSlice(test, last_k, last_o), Len(d) = SliceSize(test, last_k, last_o),
         NextBatch(test, last_k, last_o) \in Nat,
         NextOffset(test, last_k, last_o) \in Nat
  PROVE  InRow(test, Append(queue, d), k, o,
               NextBatch(test, last_k, last_o), NextOffset(test, last_k, last_o))
<1> DEFINE n == Len(queue)
           longer == Append(queue, d)
           next_k == NextBatch(test, last_k, last_o)
           next_o == NextOffset(test, last_k, last_o)
<1>1. PICK at, from \in [1 .. n + 1 -> Nat] :
        /\ at[1] = k /\ from[1] = o /\ at[n + 1] = last_k /\ from[n + 1] = last_o
        /\ \A j \in 1 .. n :
             /\ IsSlice(test, at[j], from[j])
             /\ Len(queue[j]) = SliceSize(test, at[j], from[j])
             /\ at[j + 1] = NextBatch(test, at[j], from[j])
             /\ from[j + 1] = NextOffset(test, at[j], from[j])
  BY DEF InRow
<1>2. /\ n \in Nat /\ Len(longer) = n + 1
      /\ longer[n + 1] = d /\ \A j \in 1 .. n : longer[j] = queue[j]
  BY LenProperties
<1> DEFINE at2 == [j \in 1 .. n + 2 |-> IF j = n + 2 THEN next_k ELSE at[j]]
           from2 == [j \in 1 .. n + 2 |-> IF j = n + 2 THEN next_o ELSE from[j]]
<1> HIDE DEF n, longer, next_k, next_o
<1>3. next_k \in Nat /\ next_o \in Nat
  BY DEF next_k, next_o
<1>4. /\ at2 \in [1 .. n + 2 -> Nat] /\ from2 \in [1 .. n + 2 -> Nat]
      /\ at2[n + 2] = next_k /\ from2[n + 2] = next_o
      /\ \A j \in 1 .. n + 1 : at2[j] = at[j] /\ from2[j] = from[j]
  BY <1>2, <1>3
<1> HIDE DEF at2, from2
<1>5. /\ 1 \in 1 .. n + 1 /\ n + 1 \in 1 .. n + 1 /\ (n + 1) + 1 = n + 2
      /\ \A j \in 1 .. n + 1 : j = n + 1 \/ (j \in 1 .. n /\ j + 1 \in 1 .. n + 1)
  BY <1>2
<1>6. /\ at2[1] = k /\ from2[1] = o
  BY <1>1, <1>4, <1>5
<1>7. ASSUME NEW j \in 1 .. n + 1
      PROVE  /\ IsSlice(test, at2[j], from2[j])
             /\ Len(longer[j]) = SliceSize(test, at2[j], from2[j])
             /\ at2[j + 1] = NextBatch(test, at2[j], from2[j])
             /\ from2[j + 1] = NextOffset(test, at2[j], from2[j])
  <2>1. CASE j = n + 1
    <3>1. at2[j] = last_k /\ from2[j] = last_o
      BY <1>1, <1>4, <1>5, <2>1
    <3>2. at2[j + 1] = next_k /\ from2[j + 1] = next_o /\ longer[j] = d
      BY <1>2, <1>4, <1>5, <2>1
    <3> QED
      BY <3>1, <3>2 DEF next_k, next_o
  <2>2. CASE j # n + 1
    <3>1. j \in 1 .. n /\ j + 1 \in 1 .. n + 1
      BY <1>5, <2>2
    <3>2. /\ at2[j] = at[j] /\ from2[j] = from[j] /\ longer[j] = queue[j]
          /\ at2[j + 1] = at[j + 1] /\ from2[j + 1] = from[j + 1]
      BY <1>2, <1>4, <3>1
    <3> QED
      BY <1>1, <3>1, <3>2
  <2> QED
    BY <2>1, <2>2
<1>8. InRow(test, longer, k, o, next_k, next_o)
  <2>1. Len(longer) = n + 1 /\ Len(longer) + 1 = n + 2
    BY <1>2
  <2>2. /\ at2 \in [1 .. Len(longer) + 1 -> Nat]
        /\ from2 \in [1 .. Len(longer) + 1 -> Nat]
        /\ at2[Len(longer) + 1] = next_k /\ from2[Len(longer) + 1] = next_o
    BY <1>4, <2>1
  <2>3. \A j \in 1 .. Len(longer) :
          /\ IsSlice(test, at2[j], from2[j])
          /\ Len(longer[j]) = SliceSize(test, at2[j], from2[j])
          /\ at2[j + 1] = NextBatch(test, at2[j], from2[j])
          /\ from2[j + 1] = NextOffset(test, at2[j], from2[j])
    BY <1>7, <2>1
  <2> QED
    BY <1>6, <2>2, <2>3 DEF InRow
<1> QED
  BY <1>8 DEF longer, next_k, next_o

\* A row that loses its first datagram.
LEMMA RowOfTail ==
  ASSUME NEW test, NEW queue \in Seq(Seq(Word)), queue # <<>>,
         NEW k, NEW o, NEW last_k, NEW last_o,
         InRow(test, queue, k, o, last_k, last_o)
  PROVE  /\ IsSlice(test, k, o)
         /\ Len(Head(queue)) = SliceSize(test, k, o)
         /\ InRow(test, Tail(queue), NextBatch(test, k, o), NextOffset(test, k, o),
                  last_k, last_o)
<1> DEFINE n == Len(queue)
           rest == Tail(queue)
<1>1. PICK at, from \in [1 .. n + 1 -> Nat] :
        /\ at[1] = k /\ from[1] = o /\ at[n + 1] = last_k /\ from[n + 1] = last_o
        /\ \A j \in 1 .. n :
             /\ IsSlice(test, at[j], from[j])
             /\ Len(queue[j]) = SliceSize(test, at[j], from[j])
             /\ at[j + 1] = NextBatch(test, at[j], from[j])
             /\ from[j + 1] = NextOffset(test, at[j], from[j])
  BY DEF InRow
<1>2. /\ n \in Nat /\ n >= 1 /\ Len(rest) = n - 1 /\ Head(queue) = queue[1]
      /\ \A j \in 1 .. n - 1 : rest[j] = queue[j + 1]
  BY LenProperties, HeadTailProperties
<1> HIDE DEF n, rest
<1>3. 1 \in 1 .. n /\ 1 + 1 = 2
  BY <1>2
<1>4. /\ IsSlice(test, k, o) /\ Len(Head(queue)) = SliceSize(test, k, o)
      /\ at[2] = NextBatch(test, k, o) /\ from[2] = NextOffset(test, k, o)
  BY <1>1, <1>2, <1>3
<1> DEFINE at2 == [j \in 1 .. n |-> at[j + 1]]
           from2 == [j \in 1 .. n |-> from[j + 1]]
<1>5. /\ at2 \in [1 .. n -> Nat] /\ from2 \in [1 .. n -> Nat]
      /\ \A j \in 1 .. n : at2[j] = at[j + 1] /\ from2[j] = from[j + 1]
  BY <1>2
<1> HIDE DEF at2, from2
<1>6. /\ Len(rest) + 1 = n /\ n \in 1 .. n
      /\ \A j \in 1 .. Len(rest) : j \in 1 .. n /\ j \in 1 .. n - 1 /\ j + 1 \in 1 .. n
  BY <1>2
<1>7. /\ at2[1] = NextBatch(test, k, o) /\ from2[1] = NextOffset(test, k, o)
      /\ at2[n] = last_k /\ from2[n] = last_o
  BY <1>1, <1>3, <1>4, <1>5, <1>6
<1>8. ASSUME NEW j \in 1 .. Len(rest)
      PROVE  /\ IsSlice(test, at2[j], from2[j])
             /\ Len(rest[j]) = SliceSize(test, at2[j], from2[j])
             /\ at2[j + 1] = NextBatch(test, at2[j], from2[j])
             /\ from2[j + 1] = NextOffset(test, at2[j], from2[j])
  <2>1. j \in 1 .. n /\ j \in 1 .. n - 1 /\ j + 1 \in 1 .. n
    BY <1>6
  <2>2. /\ at2[j] = at[j + 1] /\ from2[j] = from[j + 1] /\ rest[j] = queue[j + 1]
        /\ at2[j + 1] = at[(j + 1) + 1] /\ from2[j + 1] = from[(j + 1) + 1]
    BY <1>2, <1>5, <2>1
  <2> QED
    BY <1>1, <2>1, <2>2
<1>9. InRow(test, rest, NextBatch(test, k, o), NextOffset(test, k, o), last_k, last_o)
  BY <1>5, <1>6, <1>7, <1>8 DEF InRow
<1> QED
  BY <1>4, <1>9 DEF rest

-----------------------------------------------------------------------------
(***************************************************************************)
(* The invariant                                                           *)
(***************************************************************************)

OpenOptions == OptionsAt(runs, batches)

\* The slice of batch k that starts at o is being read: so many words of the
\* batch are collected and so many of the datagram are left.
Reading(test, queue, k, o, collected, left, last_k, last_o) ==
  /\ IsSlice(test, k, o)
  /\ o <= collected /\ left > 0
  /\ collected + left = o + SliceSize(test, k, o)
  /\ InRow(test, queue, NextBatch(test, k, o), NextOffset(test, k, o),
           last_k, last_o)

\* The datagrams in the socket follow the one that is being read, or else what
\* is collected.
Slices ==
  /\ active => expected = OpenOptions.batchSize
  /\ calls = <<>> => InRow(runs, socket, batches, Len(Collected), Sent, offset)
  /\ calls # <<>> =>
       /\ Len(calls) = 1
       /\ \E o \in Nat : Reading(runs, socket, batches, o, Len(Collected),
                                 Len(unread), Sent, offset)

\* What fragment_sizes holds of an open batch: its whole segments.
WholeSlices(m, n) ==
  [j \in 1 .. n |-> IF j = 1 THEN m - kPacketHeaderSize ELSE m]

SegmentsCounted ==
  active /\ OpenOptions.mss > kPacketHeaderSize =>
    LET n == Len(fragment_sizes)
    IN  /\ fragment_sizes = WholeSlices(OpenOptions.mss, n)
        /\ filled = IF n = 0 THEN kPacketHeaderSize ELSE n * OpenOptions.mss

SlicesInv == Orderly /\ ~options.uro => Slices /\ SegmentsCounted

LEMMA PartOfBuffer ==
  ASSUME NEW b \in Seq(Word), NEW n \in Nat, n <= Len(b)
  PROVE  SubSeq(b, 1, n) \in Seq(Word) /\ Len(SubSeq(b, 1, n)) = n
OBVIOUS

LEMMA WaitingLength ==
  ASSUME NEW collected \in Seq(Word), NEW stack \in Seq(Seq(Word)),
         stack = <<>> \/ Len(stack) = 1
  PROVE  /\ stack = <<>> => Len(collected \o FlattenSeq(stack)) = Len(collected)
         /\ stack # <<>> => Len(collected \o FlattenSeq(stack)) =
                              Len(collected) + Len(Head(stack))
<1>1. CASE stack = <<>>
  BY <1>1, FlattenOfEmpty, ConcatEmptySeq
<1>2. CASE stack # <<>>
  <2>1. Head(stack) \in Seq(Word) /\ stack = <<Head(stack)>> \o <<>>
    <3>1. /\ Head(stack) \in Seq(Word) /\ Tail(stack) \in Seq(Seq(Word))
          /\ Len(Tail(stack)) = 0
      BY <1>2, HeadTailProperties
    <3>2. Tail(stack) = <<>>
      BY <3>1, EmptySeq
    <3>3. stack = <<Head(stack)>> \o Tail(stack)
      BY <1>2
    <3> QED
      BY <3>1, <3>2, <3>3
  <2>2. <<>> \in Seq(Seq(Word))
    OBVIOUS
  <2>3. FlattenSeq(<<Head(stack)>> \o <<>>) = Head(stack) \o FlattenSeq(<<>>)
    BY <2>1, <2>2, FlattenOfCons
  <2>4. FlattenSeq(stack) = Head(stack)
    BY <2>1, <2>3, FlattenOfEmpty, ConcatEmptySeq
  <2> QED
    BY <1>2, <2>1, <2>4, ConcatProperties
<1> QED
  BY <1>1, <1>2

\* A multiple of m, and the next one.
LEMMA SameMultiple ==
  ASSUME NEW m \in Nat \ {0}, NEW q \in Nat, NEW n \in Nat,
         q * m <= n * m, n * m < q * m + m
  PROVE  q = n
<1> DEFINE a == q * m
           b == n * m
<1>1. a \in Nat /\ b \in Nat /\ a <= b /\ b < a + m
  OBVIOUS
<1>2. q + 1 <= n => a + m <= b
  BY RowsBelow
<1>3. n + 1 <= q => b + m <= a
  BY RowsBelow
<1> HIDE DEF a, b
<1> QED
  BY <1>1, <1>2, <1>3

\* Reading on in the open datagram, or to its end.
LEMMA ReadingOnKeepsSlices ==
  ASSUME runs \in Tests, IInv, IInv', Slices, calls # <<>>,
         Pending' = Pending, UNCHANGED <<batches, socket, client>>,
         calls' = <<>> \/ (Len(calls') = 1 /\ Len(Head(calls')) \in 1 .. Len(unread)),
         active' => expected' = OpenOptions.batchSize /\ filled' < expected',
         kPacketHeaderSize < OpenOptions.batchSize
  PROVE  Slices'
<1>1. /\ Len(calls) = 1
      /\ UNCHANGED <<Sent, offset, runs, OpenOptions>>
  BY DEF Slices, client, Sent, count, OpenOptions
<1>2. PICK o \in Nat : Reading(runs, socket, batches, o, Len(Collected),
                               Len(unread), Sent, offset)
  BY DEF Slices
<1> DEFINE w == Len(Collected)
           u == Len(unread)
           w2 == Len(Collected')
           u2 == Len(Head(calls'))
           size == OpenOptions.batchSize
           e == o + SliceSize(runs, batches, o)
<1>3. /\ w \in Nat /\ u \in Nat /\ Len(Pending) = w + u
  <2>1. Collected \in Seq(Word) /\ calls \in Seq(Seq(Word)) /\ unread \in Seq(Word)
    BY PendingType, CallProperties DEF IInv, TypeOK
  <2> QED
    BY <1>1, <2>1, WaitingLength, LenProperties DEF Pending, unread
<1>4. /\ buffer' \in Seq(Word) /\ filled' \in Nat /\ active' \in BOOLEAN
      /\ expected' \in Nat /\ calls' \in Seq(Seq(Word))
      /\ active' => filled' <= Len(buffer')
      /\ ~active' => Len(buffer') < kPacketHeaderSize
  <2>1. /\ buffer' \in Seq(Word) /\ filled' \in Nat /\ active' \in BOOLEAN
        /\ expected' \in Nat /\ calls' \in Seq(Seq(Word))
    BY DEF IInv, TypeOK
  <2> QED
    BY <2>1 DEF IInv, ReassemblyConsistent
<1>5. Collected' \in Seq(Word) /\ w2 \in Nat /\ w2 < size
  <2>1. CASE active'
    <3>1. Collected' = SubSeq(buffer', 1, filled')
      BY <2>1 DEF Collected
    <3>2. Collected' \in Seq(Word) /\ w2 = filled'
      BY <1>4, <2>1, <3>1, PartOfBuffer
    <3> QED
      BY <1>4, <2>1, <3>2
  <2>2. CASE ~active'
    <3>1. Collected' = buffer'
      BY <2>2 DEF Collected
    <3>2. size \in Nat
      BY <1>2, SliceProperties DEF Reading, OpenOptions
    <3>3. Len(buffer') \in Nat /\ Len(buffer') < kPacketHeaderSize
      BY <1>4, <2>2, LenProperties
    <3> QED
      BY <1>4, <3>1, <3>2, <3>3 DEF kPacketHeaderSize
  <2> QED
    BY <2>1, <2>2
<1>6. /\ calls' = <<>> => Len(Pending') = w2
      /\ calls' # <<>> => Len(Pending') = w2 + u2
  BY <1>4, <1>5, WaitingLength DEF Pending
<1>7. /\ IsSlice(runs, batches, o) /\ o <= w /\ u > 0 /\ w + u = e /\ e \in Nat
      /\ InRow(runs, socket, NextBatch(runs, batches, o),
               NextOffset(runs, batches, o), Sent, offset)
  BY <1>2, SliceProperties DEF Reading
<1>8. CASE calls' = <<>>
  <2>1. w2 = e /\ e # size
    <3>1. w2 = w + u
      BY <1>3, <1>6, <1>8
    <3> QED
      BY <1>5, <1>7, <3>1, SliceProperties DEF OpenOptions
  <2>2. NextBatch(runs, batches, o) = batches /\ NextOffset(runs, batches, o) = w2
    BY <2>1 DEF NextBatch, NextOffset, SliceIsLast, OpenOptions
  <2>3. InRow(runs, socket, batches, w2, Sent, offset)
    BY <1>7, <2>2
  <2>4. InRow(runs, socket, batches, Len(Collected), Sent, offset)'
    BY <1>1, <2>3
  <2> QED
    BY <1>1, <1>8, <2>4 DEF Slices
<1>9. CASE calls' # <<>>
  <2>1. u2 \in 1 .. u /\ Len(calls') = 1
    BY <1>9
  <2>2. w2 + u2 = w + u
    BY <1>3, <1>6, <1>9
  <2>3. o <= w2 /\ u2 > 0 /\ w2 + u2 = e
    <3> HIDE DEF w, u, w2, u2, e
    <3> QED
      BY <1>3, <1>5, <1>7, <2>1, <2>2
  <2>4. Reading(runs, socket, batches, o, w2, u2, Sent, offset)
    BY <1>7, <2>3 DEF Reading
  <2>5. Reading(runs, socket, batches, o, Len(Collected), Len(unread), Sent, offset)'
    BY <1>1, <2>4 DEF unread
  <2> QED
    BY <1>1, <1>9, <2>1, <2>5 DEF Slices
<1> QED
  BY <1>8, <1>9

\* The call under way reads on, or has read everything and returns.
LEMMA ContinueOfOne ==
  ASSUME TypeOK, Len(calls) = 1, calls # <<>>, NEW k \in 1 .. Len(unread)
  PROVE  \/ Continue(From(unread, k)) = <<>>
         \/ /\ Len(Continue(From(unread, k))) = 1
            /\ Len(Head(Continue(From(unread, k)))) \in 1 .. Len(unread)
<1> DEFINE rest == From(unread, k)
<1>1. /\ unread \in Seq(Word) /\ Len(unread) \in Nat /\ k \in Nat
      /\ k >= 1 /\ k <= Len(unread)
  BY CallProperties
<1>2. rest \in Seq(Word) /\ Len(rest) = Len(unread) - k
  BY <1>1, FromElements
<1>3. Tail(calls) = <<>>
  <2>1. calls \in Seq(Seq(Word))
    BY DEF TypeOK
  <2>2. Tail(calls) \in Seq(Seq(Word)) /\ Len(Tail(calls)) = 0
    BY <2>1, HeadTailProperties
  <2> QED
    BY <2>2, EmptySeq
<1> HIDE DEF rest
<1>4. CASE rest = <<>>
  <2>1. <<>> \o <<>> = <<>>
    OBVIOUS
  <2>2. Continue(rest) = <<>>
    BY <1>3, <1>4, <2>1 DEF Continue
  <2> QED
    BY <2>2 DEF rest
<1>5. CASE rest # <<>>
  <2>1. <<rest>> \o <<>> = <<rest>> /\ Len(<<rest>>) = 1 /\ Head(<<rest>>) = rest
    OBVIOUS
  <2>2. Continue(rest) = <<rest>>
    BY <1>3, <1>5, <2>1 DEF Continue
  <2>3. Len(rest) \in 1 .. Len(unread)
    BY <1>1, <1>2, <1>5, EmptySeq
  <2> QED
    BY <2>1, <2>2, <2>3 DEF rest
<1> QED
  BY <1>4, <1>5

\* The batch of a slice.
LEMMA BatchOfSlice ==
  ASSUME TestTypeOK, OrdinaryTests, Orderly, NEW k, NEW o, IsSlice(runs, k, o)
  PROVE  /\ (k \div count) + 1 \in DOMAIN runs
         /\ k % count \in 0 .. runs[(k \div count) + 1].batchCount - 1
         /\ Numbered(k) = ClientBatch((k \div count) + 1, k % count)
         /\ Len(Numbered(k)) = OptionsAt(runs, k).batchSize
         /\ OptionsAt(runs, k).batchSize > kPacketHeaderSize
<1> DEFINE r == (k \div count) + 1
           i == k % count
<1>1. /\ runs \in Tests /\ r \in DOMAIN runs /\ i \in 0 .. count - 1
      /\ OptionsAt(runs, k) = runs[r]
  BY SliceProperties DEF TestTypeOK
<1>2. Numbered(k) = ClientBatch(r, i)
  BY DEF Numbered
<1>3. runs[r].batchCount = count
  BY <1>1 DEF Orderly
<1> HIDE DEF r, i, count
<1>4. i \in 0 .. runs[r].batchCount - 1
  BY <1>1, <1>3
<1>5. Len(ClientBatch(r, i)) = runs[r].batchSize
  BY <1>1, <1>4, ClientBatchType
<1>6. runs[r].batchSize > kPacketHeaderSize
  BY <1>1 DEF OrdinaryTests
<1> QED
  BY <1>1, <1>2, <1>4, <1>5, <1>6 DEF r, i

\* Turns of the loop that count nothing.
LEMMA TurnKeepsSlices ==
  ASSUME TestInv, IInv', OrdinaryTests, Orderly, InOrder, InOrder', Slices,
         RetainTail \/ SplitHeader \/ RejectHeader \/ AcceptHeader \/ CopyFragment,
         UNCHANGED <<socket, client>>
  PROVE  Slices'
<1>1. /\ IInv /\ TypeOK /\ TestTypeOK /\ runs \in Tests /\ calls # <<>>
      /\ batches' = batches /\ (active' => filled' < expected')
  BY DEF TestInv, IInv, TestTypeOK, RetainTail, SplitHeader, RejectHeader,
         AcceptHeader, CopyFragment, Scanning, Collecting, InOrder
<1>2. Len(calls) = 1
  BY <1>1 DEF Slices
<1>3. PICK o \in Nat : IsSlice(runs, batches, o)
  BY <1>1 DEF Slices, Reading
<1>4. /\ Len(Numbered(batches)) = OpenOptions.batchSize
      /\ OpenOptions.batchSize > kPacketHeaderSize
  BY <1>1, <1>3, BatchOfSlice DEF OpenOptions
<1>5. kPacketHeaderSize < OpenOptions.batchSize
  <2>1. OpenOptions.batchSize \in Nat
    BY <1>1, <1>3, SliceProperties DEF OpenOptions
  <2> QED
    BY <1>4, <2>1 DEF kPacketHeaderSize
<1>6. Pending' = Pending
  <2>1. CASE RetainTail \/ SplitHeader \/ RejectHeader
    BY <1>1, <2>1, RetainTailIsSkip, SplitHeaderIsSkip, RejectHeaderIsSkip,
       NothingSkipped
  <2>2. CASE AcceptHeader
    BY <2>2, AcceptHeaderInOrder
  <2>3. CASE CopyFragment
    BY <1>1, <2>3, CopyFragmentIsStutter DEF Received!vars
  <2> QED
    BY <2>1, <2>2, <2>3
<1>7. active' => expected' = OpenOptions.batchSize
  <2>1. CASE RetainTail \/ SplitHeader \/ RejectHeader
    BY <2>1 DEF RetainTail, SplitHeader, RejectHeader, Scanning
  <2>2. CASE AcceptHeader
    BY <1>4, <2>2, AcceptHeaderInOrder
  <2>3. CASE CopyFragment
    BY <2>3 DEF CopyFragment, Collecting, Slices
  <2> QED
    BY <2>1, <2>2, <2>3
<1>8. calls' = <<>> \/ (Len(calls') = 1 /\ Len(Head(calls')) \in 1 .. Len(unread))
  <2>1. CASE RetainTail \/ SplitHeader \/ CopyFragment
    <3>1. calls' = Tail(calls)
      BY <2>1 DEF RetainTail, SplitHeader, CopyFragment
    <3>2. Tail(calls) \in Seq(Seq(Word)) /\ Len(Tail(calls)) = 0
      BY <1>1, <1>2, HeadTailProperties DEF TypeOK
    <3> QED
      BY <3>1, <3>2, EmptySeq
  <2>2. CASE RejectHeader \/ AcceptHeader
    <3>1. /\ Scanning /\ HeaderInReach
          /\ calls' = Continue(From(unread, Skipped + Lacking))
      BY <2>2 DEF RejectHeader, AcceptHeader
    <3>2. Skipped + Lacking \in 1 .. Len(unread)
      <4>1. Skipped \in Nat /\ Lacking \in 1 .. 5 /\ Skipped + Lacking <= Len(unread)
            /\ Len(unread) \in Nat
        BY <1>1, <3>1, ScanProperties, CallProperties DEF HeaderInReach
      <4> QED
        BY <4>1
    <3> QED
      BY <1>1, <1>2, <3>1, <3>2, ContinueOfOne
  <2> QED
    BY <2>1, <2>2
<1> QED
  BY <1>1, <1>5, <1>6, <1>7, <1>8, ReadingOnKeepsSlices

LEMMA CollectedLength ==
  ASSUME TestInv, active
  PROVE  filled \in Nat /\ expected \in Nat /\ Len(Collected) = filled
<1>1. /\ buffer \in Seq(Word) /\ filled \in Nat /\ filled <= Len(buffer)
      /\ expected \in Nat
  BY DEF TestInv, IInv, TypeOK, ReassemblyConsistent
<1>2. Collected = SubSeq(buffer, 1, filled)
  BY DEF Collected
<1> QED
  BY <1>1, <1>2, PartOfBuffer

\* A datagram that completes a batch ends with it.
LEMMA BatchEndsDatagram ==
  ASSUME TestInv, OrdinaryTests, Orderly, InOrder, Slices,
         Collecting, Len(unread) >= space,
         NEW o, Reading(runs, socket, batches, o, Len(Collected), Len(unread),
                        Sent, offset)
  PROVE  /\ Len(unread) = space
         /\ SliceIsLast(runs, batches, o)
         /\ Len(Collected) = filled /\ filled \in Nat
         /\ o <= filled /\ filled < OpenOptions.batchSize
         /\ space = OpenOptions.batchSize - filled
<1>1. /\ calls # <<>> /\ active /\ expected = OpenOptions.batchSize
      /\ filled < expected /\ TypeOK /\ runs \in Tests
  BY DEF Collecting, Slices, InOrder, TestInv, IInv, TestTypeOK
<1>2. /\ filled \in Nat /\ expected \in Nat /\ Len(unread) \in Nat
  BY <1>1, CallProperties DEF TypeOK
<1>3. Len(Collected) = filled
  BY <1>1, CollectedLength
<1>4. /\ o \in Nat /\ o <= filled
      /\ filled + Len(unread) = o + SliceSize(runs, batches, o)
      /\ o + SliceSize(runs, batches, o) <= expected
      /\ SliceSize(runs, batches, o) \in Nat
  BY <1>1, <1>3, SliceProperties DEF Reading, OpenOptions
<1> DEFINE e == o + SliceSize(runs, batches, o)
<1>5. e \in Nat /\ e <= expected /\ filled + Len(unread) = e
      /\ Len(unread) >= expected - filled
  BY <1>4 DEF space
<1> HIDE DEF e
<1>6. e = expected /\ Len(unread) = expected - filled
  BY <1>1, <1>2, <1>5
<1> QED
  BY <1>1, <1>2, <1>3, <1>4, <1>6 DEF space, SliceIsLast, OpenOptions, e

LEMMA CountBatchKeepsSlices ==
  ASSUME TestInv, OrdinaryTests, Orderly, InOrder, Slices,
         CountBatch, UNCHANGED <<socket, client>>
  PROVE  Slices'
<1>1. /\ Collecting /\ Len(unread) >= space /\ batches' = batches + 1
      /\ reset_reassembly /\ calls' = Continue(From(unread, space))
      /\ calls # <<>> /\ TypeOK /\ runs \in Tests
  BY DEF CountBatch, Collecting, TestInv, IInv, TestTypeOK
<1>2. PICK o \in Nat : Reading(runs, socket, batches, o, Len(Collected),
                               Len(unread), Sent, offset)
  BY <1>1 DEF Slices
<1>3. /\ Len(unread) = space /\ SliceIsLast(runs, batches, o)
  BY <1>1, <1>2, BatchEndsDatagram
<1>4. calls' = <<>>
  <2>1. unread \in Seq(Word) /\ Len(unread) \in Nat
    BY <1>1, CallProperties
  <2>2. From(unread, Len(unread)) \in Seq(Word) /\ Len(From(unread, Len(unread))) = 0
    BY <2>1, FromElements
  <2>3. From(unread, space) = <<>>
    BY <1>3, <2>2, EmptySeq
  <2>4. Tail(calls) \in Seq(Seq(Word)) /\ Len(Tail(calls)) = 0
    BY <1>1, HeadTailProperties DEF Slices, TypeOK
  <2>5. Tail(calls) = <<>>
    BY <2>4, EmptySeq
  <2>6. <<>> \o <<>> = <<>>
    OBVIOUS
  <2> QED
    BY <1>1, <2>3, <2>5, <2>6 DEF Continue
<1>5. ~active' /\ Collected' = <<>> /\ Len(<<>>) = 0
  BY <1>1 DEF reset_reassembly, Collected
<1>6. /\ NextBatch(runs, batches, o) = batches + 1
      /\ NextOffset(runs, batches, o) = 0
  BY <1>3 DEF NextBatch, NextOffset
<1>7. InRow(runs, socket, batches + 1, 0, Sent, offset)
  BY <1>2, <1>6 DEF Reading
<1>8. UNCHANGED <<Sent, offset, runs>>
  BY DEF client, Sent, count
<1>9. InRow(runs, socket, batches, Len(Collected), Sent, offset)'
  BY <1>1, <1>5, <1>7, <1>8
<1> QED
  BY <1>4, <1>5, <1>9 DEF Slices

\* The datagram that is read from the socket is the next slice.
LEMMA ReceiveOneKeepsSlices ==
  ASSUME TestInv, Slices, ReceiveOne, UNCHANGED client
  PROVE  Slices'
<1> DEFINE d == Head(socket)
           w == Len(Collected)
<1>1. /\ calls = <<>> /\ socket # <<>> /\ socket \in Seq(Seq(Word))
      /\ calls' = (IF d = <<>> THEN <<>> ELSE <<d>>) /\ socket' = Tail(socket)
      /\ UNCHANGED <<buffer, filled, expected, active, batches>>
  BY DEF ReceiveOne, ReceiveDatagram, TestInv, reassembly
<1>2. UNCHANGED <<Collected, Sent, offset, runs, OpenOptions>>
  BY <1>1 DEF Collected, client, Sent, count, OpenOptions
<1>3. runs \in Tests /\ InRow(runs, socket, batches, w, Sent, offset)
  BY <1>1 DEF Slices, TestInv, TestTypeOK
<1>4. /\ IsSlice(runs, batches, w) /\ Len(d) = SliceSize(runs, batches, w)
      /\ InRow(runs, Tail(socket), NextBatch(runs, batches, w),
               NextOffset(runs, batches, w), Sent, offset)
  BY <1>1, <1>3, RowOfTail
<1>5. SliceSize(runs, batches, w) \in Nat \ {0} /\ w \in Nat
  BY <1>3, <1>4, SliceProperties
<1>6. Len(d) > 0 /\ w <= w
  BY <1>4, <1>5
<1>7. Reading(runs, Tail(socket), batches, w, w, Len(d), Sent, offset)
  BY <1>4, <1>6 DEF Reading
<1>8. calls' = <<d>> /\ Len(<<d>>) = 1 /\ Head(<<d>>) = d /\ <<d>> # <<>>
  <2>1. Len(<<>>) = 0
    OBVIOUS
  <2>2. d # <<>>
    BY <1>6, <2>1
  <2> QED
    BY <1>1, <2>2
<1>9. unread' = d
  BY <1>8 DEF unread
<1>10. Reading(runs, socket, batches, w, Len(Collected), Len(unread), Sent, offset)'
  BY <1>1, <1>2, <1>7, <1>9
<1>11. active' => expected' = OpenOptions'.batchSize
  BY <1>1, <1>2 DEF Slices
<1> HIDE DEF d, w
<1>12. Len(calls') = 1 /\ calls' # <<>>
  BY <1>8
<1>13. \E o \in Nat : Reading(runs, socket, batches, o, Len(Collected),
                              Len(unread), Sent, offset)'
  BY <1>2, <1>5, <1>10 DEF w
<1> QED
  BY <1>11, <1>12, <1>13 DEF Slices

-----------------------------------------------------------------------------
(***************************************************************************)
(* Sending appends the next slice                                          *)
(***************************************************************************)

\* The client is at a slice of the batch that it sends.
LEMMA ClientAtSlice ==
  ASSUME TestInv, MixtureInv, OrdinaryTests, Orderly, InOrder, run <= Len(runs)
  PROVE  /\ IsSlice(runs, Sent, offset)
         /\ OptionsAt(runs, Sent) = runs[run]
         /\ SliceSize(runs, Sent, offset) = Chunk
         /\ SliceIsLast(runs, Sent, offset) <=> LastChunk
<1>1. /\ TestTypeOK /\ count \in Nat \ {0} /\ Len(runs) \in Nat
      /\ Sent \in Nat /\ Sent < Len(runs) * count
      /\ batch_no \in 0 .. count - 1 /\ run \in 1 .. Len(runs)
  BY SentProperties DEF TestInv
<1>2. (Sent \div count) + 1 = run
  <2>1. run - 1 \in Nat /\ (run - 1) + 1 = run
    BY <1>1
  <2> DEFINE c == count
             r == run - 1
  <2>2. c \in Nat \ {0} /\ r \in Nat /\ batch_no \in 0 .. c - 1
    BY <1>1, <2>1
  <2> HIDE DEF c, r
  <2>3. (r * c + batch_no) \div c = r
    BY <2>2, RowAndColumn
  <2>4. Sent \div count = run - 1
    BY <2>3 DEF c, r, Sent
  <2> QED
    BY <2>1, <2>4
<1>3. OptionsAt(runs, Sent) = runs[run]
  BY <1>2 DEF OptionsAt, count
<1>4. offset \in CutsOf(runs[run])
  BY DEF MixtureInv
<1>5. Sent \in 0 .. Len(runs) * count - 1
  <2>1. Len(runs) * count \in Nat
    BY <1>1, TimesSize
  <2> QED
    BY <1>1, <2>1
<1>6. IsSlice(runs, Sent, offset)
  BY <1>3, <1>4, <1>5 DEF IsSlice, count
<1>7. SliceSize(runs, Sent, offset) = Chunk
  BY <1>3 DEF SliceSize, Chunk
<1> QED
  BY <1>3, <1>6, <1>7 DEF SliceIsLast, LastChunk

LEMMA SendKeepsSlices ==
  ASSUME TestInv, MixtureInv, OrdinaryTests, Orderly, InOrder, Slices, SendDatagram
  PROVE  Slices'
<1> DEFINE d == SubSeq(ClientBatch(run, batch_no), offset + 1, offset + Chunk)
           next_k == NextBatch(runs, Sent, offset)
           next_o == NextOffset(runs, Sent, offset)
<1>1. /\ run <= Len(runs) /\ AdvanceClient /\ runs' = runs
      /\ socket' = Append(socket, d) /\ UNCHANGED vars
      /\ TestTypeOK /\ runs \in Tests /\ socket \in Seq(Seq(Word))
  BY DEF SendDatagram, TestInv, TestTypeOK
<1>2. UNCHANGED <<calls, batches, active, expected, Collected, unread, OpenOptions>>
  <2>1. UNCHANGED <<calls, batches, active, expected, buffer, filled>>
    BY <1>1 DEF vars, reassembly
  <2> QED
    BY <1>1, <2>1 DEF Collected, unread, OpenOptions
<1>3. /\ IsSlice(runs, Sent, offset) /\ OptionsAt(runs, Sent) = runs[run]
      /\ SliceSize(runs, Sent, offset) = Chunk
      /\ SliceIsLast(runs, Sent, offset) <=> LastChunk
  BY <1>1, ClientAtSlice
<1>4. next_k \in Nat /\ next_o \in Nat
  BY <1>1, <1>3, SliceProperties
<1>5. d \in Seq(Word) /\ Len(d) = SliceSize(runs, Sent, offset)
  <2> DEFINE batch == ClientBatch(run, batch_no)
  <2>1. /\ batch \in Seq(Word) /\ d \in Seq(Word)
        /\ offset + Chunk \in 0 .. Len(batch)
    BY <1>1, ChunkIsNext
  <2>2. offset \in Nat /\ Chunk \in Nat
    BY <1>1, ChunkProperties
  <2>3. Len(batch) \in Nat
    BY <2>1, LenProperties
  <2> HIDE DEF batch
  <2>4. Len(SubSeq(batch, offset + 1, offset + Chunk)) = Chunk
    BY <2>1, <2>2, <2>3
  <2> QED
    BY <1>3, <2>1, <2>4 DEF batch
<1>6. Sent' = next_k /\ offset' = next_o
  <2>1. CASE LastChunk
    <3>1. Sent' = Sent + 1 /\ offset' = 0
      BY <1>1, <2>1, LastChunkSends
    <3> QED
      BY <1>3, <2>1, <3>1 DEF NextBatch, NextOffset
  <2>2. CASE ~LastChunk
    <3>1. offset' = offset + Chunk /\ batch_no' = batch_no /\ run' = run
      BY <1>1, <2>2 DEF AdvanceClient
    <3>2. Sent' = Sent
      BY <1>1, <3>1 DEF Sent, count
    <3> QED
      BY <1>3, <2>2, <3>1, <3>2 DEF NextBatch, NextOffset
  <2> QED
    BY <2>1, <2>2
<1>7. ASSUME NEW k, NEW o, InRow(runs, socket, k, o, Sent, offset)
      PROVE  InRow(runs, Append(socket, d), k, o, next_k, next_o)
  <2> HIDE DEF d
  <2> QED
    BY <1>1, <1>3, <1>4, <1>5, <1>7, RowOfAppend
<1> HIDE DEF d, next_k, next_o
<1>8. CASE calls = <<>>
  <2>1. InRow(runs, socket, batches, Len(Collected), Sent, offset)
    BY <1>8 DEF Slices
  <2>2. InRow(runs, Append(socket, d), batches, Len(Collected), next_k, next_o)
    BY <1>7, <2>1
  <2>3. InRow(runs, socket, batches, Len(Collected), Sent, offset)'
    BY <1>1, <1>2, <1>6, <2>2
  <2> QED
    BY <1>2, <1>8, <2>3 DEF Slices
<1>9. CASE calls # <<>>
  <2>1. Len(calls) = 1
    BY <1>9 DEF Slices
  <2>2. PICK o \in Nat : Reading(runs, socket, batches, o, Len(Collected),
                                 Len(unread), Sent, offset)
    BY <1>9 DEF Slices
  <2>3. Reading(runs, Append(socket, d), batches, o, Len(Collected), Len(unread),
                next_k, next_o)
    BY <1>7, <2>2 DEF Reading
  <2>4. Reading(runs, socket, batches, o, Len(Collected), Len(unread), Sent, offset)'
    BY <1>1, <1>2, <1>6, <2>3
  <2> QED
    BY <1>2, <1>9, <2>1, <2>4 DEF Slices
<1> QED
  BY <1>8, <1>9

-----------------------------------------------------------------------------
(***************************************************************************)
(* What is counted of the segments                                         *)
(***************************************************************************)

\* The slice that a datagram continues starts where the whole segments end, and
\* the datagram holds all of it but the header.
LEMMA OpenSliceStart ==
  ASSUME TestInv, OrdinaryTests, Orderly, InOrder, Slices, SegmentsCounted,
         Collecting, OpenOptions.mss > kPacketHeaderSize,
         NEW o, Reading(runs, socket, batches, o, Len(Collected), Len(unread),
                        Sent, offset)
  PROVE  LET m == OpenOptions.mss
             n == Len(fragment_sizes)
         IN  /\ m \in Nat \ {0} /\ n \in Nat /\ o \in Nat
             /\ o = n * m
             /\ filled = IF n = 0 THEN kPacketHeaderSize ELSE n * m
             /\ fragment_sizes = WholeSlices(m, n)
             /\ Len(unread) =
                  SliceSize(runs, batches, o) - (IF n = 0 THEN kPacketHeaderSize ELSE 0)
<1> DEFINE m == OpenOptions.mss
           n == Len(fragment_sizes)
           z == SliceSize(runs, batches, o)
<1>1. /\ active /\ calls # <<>> /\ TypeOK /\ runs \in Tests
      /\ fragment_sizes \in Seq(Nat)
  BY DEF Collecting, TestInv, IInv, TypeOK, TestTypeOK
<1>2. /\ filled \in Nat /\ Len(Collected) = filled /\ Len(unread) \in Nat
  BY <1>1, CollectedLength, CallProperties
<1>3. /\ IsSlice(runs, batches, o) /\ o <= filled /\ Len(unread) > 0
      /\ filled + Len(unread) = o + z
  BY <1>2 DEF Reading
<1>4. /\ m \in Nat /\ m > kPacketHeaderSize /\ o \in Nat /\ z \in Nat /\ z <= m
      /\ \E q \in Nat : o = q * m
  <2>1. /\ m \in Nat /\ o \in Nat /\ z \in Nat /\ (m # 0 => z <= m)
        /\ \E q \in Nat : o = q * m
    BY <1>1, <1>3, SliceProperties DEF OpenOptions
  <2> HIDE DEF m, z
  <2>2. m > kPacketHeaderSize
    BY DEF m
  <2> QED
    BY <2>1, <2>2 DEF kPacketHeaderSize
<1>5. /\ n \in Nat /\ fragment_sizes = WholeSlices(m, n)
      /\ filled = IF n = 0 THEN kPacketHeaderSize ELSE n * m
  BY <1>1, LenProperties DEF SegmentsCounted
<1>6. PICK q \in Nat : o = q * m
  BY <1>4
<1> HIDE DEF m, n, z
<1>7. m \in Nat \ {0}
  BY <1>4 DEF kPacketHeaderSize
<1> DEFINE from == q * m
<1>8. from \in Nat /\ o = from
  BY <1>6, <1>7
<1>9. filled < from + m /\ from <= filled
  <2> HIDE DEF from
  <2> QED
    BY <1>2, <1>3, <1>4, <1>7, <1>8
<1>10. q = n
  <2>1. CASE n = 0
    <3>1. 1 <= q => m <= from
      <4>1. 0 + 1 <= q => 0 * m + m <= q * m
        BY <1>7, RowsBelow
      <4>2. 0 * m + m = m
        BY <1>7
      <4> QED
        BY <4>1, <4>2
    <3> HIDE DEF from
    <3>2. ~(1 <= q)
      BY <1>4, <1>5, <1>7, <1>8, <1>9, <2>1, <3>1 DEF kPacketHeaderSize
    <3> QED
      BY <1>6, <2>1, <3>2
  <2>2. CASE n # 0
    <3>1. q * m <= n * m /\ n * m < q * m + m
      BY <1>5, <1>9, <2>2
    <3> QED
      BY <1>5, <1>6, <1>7, <3>1, SameMultiple
  <2> QED
    BY <2>1, <2>2
<1>11. o = n * m
  BY <1>6, <1>10
<1>12. Len(unread) = z - (IF n = 0 THEN kPacketHeaderSize ELSE 0)
  <2>1. CASE n = 0
    <3>1. from = 0
      BY <1>7, <1>10, <2>1
    <3>2. o = 0 /\ filled = kPacketHeaderSize
      BY <1>5, <1>8, <2>1, <3>1
    <3> QED
      BY <1>2, <1>3, <1>4, <2>1, <3>2 DEF kPacketHeaderSize
  <2>2. CASE n # 0
    <3>1. filled = o
      BY <1>5, <1>11, <2>2
    <3>2. Len(unread) = z
      BY <1>2, <1>3, <1>4, <3>1
    <3> QED
      BY <1>4, <2>2, <3>2
  <2> QED
    BY <2>1, <2>2
<1> QED
  BY <1>4, <1>5, <1>7, <1>11, <1>12 DEF m, n, z

LEMMA WholeSlicesGrow ==
  ASSUME NEW m \in Nat, NEW n \in Nat
  PROVE  Append(WholeSlices(m, n), IF n = 0 THEN m - kPacketHeaderSize ELSE m) =
           WholeSlices(m, n + 1)
<1> DEFINE f(j) == IF j = 1 THEN m - kPacketHeaderSize ELSE m
<1>1. f(n + 1) = IF n = 0 THEN m - kPacketHeaderSize ELSE m
  BY DEF kPacketHeaderSize
<1>2. WholeSlices(m, n) = [j \in 1 .. n |-> f(j)]
      /\ WholeSlices(m, n + 1) = [j \in 1 .. n + 1 |-> f(j)]
  BY DEF WholeSlices
<1> HIDE DEF f
<1>3. Append([j \in 1 .. n |-> f(j)], f(n + 1)) = [j \in 1 .. n + 1 |-> f(j)]
  OBVIOUS
<1> QED
  BY <1>1, <1>2, <1>3

LEMMA SlicesOfBatch ==
  ASSUME NEW m \in Nat, NEW n \in Nat \ {0}, NEW rest
  PROVE  Append(WholeSlices(m, n), rest) = SlicesOf(m, n, rest)
<1> DEFINE f(j) == IF j = 1 THEN m - kPacketHeaderSize ELSE m
<1>1. WholeSlices(m, n) = [j \in 1 .. n |-> f(j)]
      /\ SlicesOf(m, n, rest) = [j \in 1 .. n + 1 |-> IF j = n + 1 THEN rest ELSE f(j)]
  BY DEF WholeSlices, SlicesOf
<1> HIDE DEF f
<1>2. Append([j \in 1 .. n |-> f(j)], rest) =
        [j \in 1 .. n + 1 |-> IF j = n + 1 THEN rest ELSE f(j)]
  OBVIOUS
<1> QED
  BY <1>1, <1>2

\* A datagram that does not complete the batch is a whole segment.
LEMMA CopyFragmentKeepsSegments ==
  ASSUME TestInv, OrdinaryTests, Orderly, InOrder, Slices, SegmentsCounted,
         CopyFragment, UNCHANGED client
  PROVE  SegmentsCounted'
<1>1. /\ Collecting /\ Len(unread) < space /\ active /\ calls # <<>>
      /\ filled' = filled + Len(unread)
      /\ fragment_sizes' = Append(fragment_sizes, Len(unread))
      /\ TypeOK /\ runs \in Tests
  BY DEF CopyFragment, Collecting, TestInv, IInv, TestTypeOK
<1>2. OpenOptions' = OpenOptions
  BY DEF OpenOptions, CopyFragment, client
<1> SUFFICES ASSUME OpenOptions.mss > kPacketHeaderSize
             PROVE  SegmentsCounted'
  BY <1>2 DEF SegmentsCounted
<1>3. PICK o \in Nat : Reading(runs, socket, batches, o, Len(Collected),
                               Len(unread), Sent, offset)
  BY <1>1 DEF Slices
<1> DEFINE m == OpenOptions.mss
           n == Len(fragment_sizes)
           z == SliceSize(runs, batches, o)
           size == OpenOptions.batchSize
<1>4. /\ m \in Nat \ {0} /\ n \in Nat /\ o = n * m
      /\ filled = IF n = 0 THEN kPacketHeaderSize ELSE n * m
      /\ fragment_sizes = WholeSlices(m, n)
      /\ Len(unread) = z - (IF n = 0 THEN kPacketHeaderSize ELSE 0)
  BY <1>1, <1>3, OpenSliceStart
<1>5. z = m
  <2>1. /\ Len(Collected) = filled /\ filled \in Nat /\ Len(unread) \in Nat
        /\ expected = size /\ expected \in Nat
    BY <1>1, CollectedLength, CallProperties DEF Slices
  <2>2. IsSlice(runs, batches, o) /\ filled + Len(unread) = o + z
    BY <1>3, <2>1 DEF Reading
  <2> HIDE DEF z, size
  <2>3. o + z # size
    BY <1>1, <2>1, <2>2 DEF space
  <2>4. ~SliceIsLast(runs, batches, o)
    BY <2>3 DEF SliceIsLast, OpenOptions, z, size
  <2> QED
    BY <1>1, <2>2, <2>4, SliceProperties DEF OpenOptions, z
<1> HIDE DEF m, n, z, size
<1>6. Len(unread) = IF n = 0 THEN m - kPacketHeaderSize ELSE m
  BY <1>4, <1>5
<1>7. fragment_sizes' = WholeSlices(m, n + 1)
  BY <1>1, <1>4, <1>6, WholeSlicesGrow
<1>8. Len(fragment_sizes') = n + 1 /\ n + 1 # 0
  BY <1>4, <1>7 DEF WholeSlices
<1>9. filled' = (n + 1) * m
  <2>1. CASE n = 0
    <3>1. filled' = kPacketHeaderSize + (m - kPacketHeaderSize)
      BY <1>1, <1>4, <1>6, <2>1
    <3>2. (n + 1) * m = m
      BY <1>4, <2>1
    <3> QED
      BY <1>4, <3>1, <3>2 DEF kPacketHeaderSize
  <2>2. CASE n # 0
    <3>1. filled' = n * m + m
      BY <1>1, <1>4, <1>6, <2>2
    <3>2. (n + 1) * m = n * m + m
      BY <1>4
    <3> QED
      BY <3>1, <3>2
  <2> QED
    BY <2>1, <2>2
<1> QED
  BY <1>2, <1>7, <1>8, <1>9 DEF SegmentsCounted, m

LEMMA TurnKeepsSegments ==
  ASSUME TestInv, OrdinaryTests, Orderly, InOrder, Slices, SegmentsCounted,
         \/ RetainTail \/ SplitHeader \/ RejectHeader \/ AcceptHeader
         \/ CopyFragment \/ CountBatch,
         UNCHANGED client
  PROVE  SegmentsCounted'
<1>1. CASE RetainTail \/ SplitHeader \/ RejectHeader \/ CountBatch
  <2>1. ~active'
    BY <1>1 DEF RetainTail, SplitHeader, RejectHeader, CountBatch, Scanning,
                reset_reassembly
  <2> QED
    BY <2>1 DEF SegmentsCounted
<1>2. CASE AcceptHeader
  <2>1. fragment_sizes' = <<>> /\ filled' = kPacketHeaderSize
    BY <1>2 DEF AcceptHeader, Scanning, TestInv, IInv, ReassemblyConsistent
  <2>2. \A m : WholeSlices(m, 0) = <<>>
    BY DEF WholeSlices
  <2>3. Len(<<>>) = 0
    OBVIOUS
  <2> QED
    BY <2>1, <2>2, <2>3 DEF SegmentsCounted
<1>3. CASE CopyFragment
  BY <1>3, CopyFragmentKeepsSegments
<1> QED
  BY <1>1, <1>2, <1>3

-----------------------------------------------------------------------------
(***************************************************************************)
(* Every step keeps the slices                                             *)
(***************************************************************************)

LEMMA QuietKeepsSlices ==
  ASSUME Slices, SegmentsCounted, UNCHANGED <<vars, socket, client>>
  PROVE  Slices' /\ SegmentsCounted'
<1>1. UNCHANGED <<buffer, filled, expected, active, fragment_sizes, calls, batches,
                  runs, run, batch_no, offset, socket>>
  BY DEF vars, reassembly, client
<1>2. UNCHANGED <<Collected, unread, Sent, OpenOptions>>
  BY <1>1 DEF Collected, unread, Sent, count, OpenOptions
<1>3. Slices'
  BY <1>1, <1>2 DEF Slices
<1>4. SegmentsCounted'
  BY <1>1, <1>2 DEF SegmentsCounted
<1> QED
  BY <1>3, <1>4

LEMMA IngestKeepsSlices ==
  ASSUME TestInv, IInv', OrdinaryTests, Orderly, InOrder, InOrder',
         Slices, SegmentsCounted, IngestStep, UNCHANGED client
  PROVE  Slices' /\ SegmentsCounted'
<1>1. Ingest /\ UNCHANGED <<socket, client>> /\ IInv
  BY DEF IngestStep, network, TestInv
<1>2. CASE RetainTail \/ SplitHeader \/ RejectHeader \/ AcceptHeader \/ CopyFragment
  BY <1>1, <1>2, TurnKeepsSlices, TurnKeepsSegments
<1>3. CASE CountBatch
  BY <1>1, <1>3, CountBatchKeepsSlices, TurnKeepsSegments
<1>4. CASE DropBatch \/ SalvageTail
  BY <1>1, <1>4, DropBatchIsGiveUp, SalvageTailIsGiveUp, NothingGivenUp
<1> QED
  BY <1>1, <1>2, <1>3, <1>4 DEF Ingest

LEMMA ServerKeepsSlices ==
  ASSUME TestInv, TestInv', OrdinaryTests, OrderInv, OrderInv', SlicesInv,
         ServerOrClock, Orderly', ~options'.uro
  PROVE  Slices' /\ SegmentsCounted'
<1>1. /\ ServerStep \/ PollFails \/ ReceiveFails \/ DeadlinePasses
      /\ UNCHANGED client /\ UNCHANGED <<faults, killed>>
      /\ session' = 0 /\ session \in Nat
      /\ pc' \notin {"summary", "exited", "failed"}
      /\ InOrder' /\ IInv' /\ pc' # "finalizing"
  BY DEF ServerOrClock, Orderly, TestInv, InSession, OrderInv, InOrder
<1>2. ASSUME InSession \/ pc = "start", session' = session, options' = options
      PROVE  Orderly /\ InOrder /\ Slices /\ SegmentsCounted /\ ~options.uro
  <2>1. Orderly
    BY <1>1, <1>2 DEF Orderly, count, client
  <2> QED
    BY <1>2, <2>1 DEF OrderInv, SlicesInv
<1>3. CASE Start \/ LoopTurns \/ Readable \/ IngestDone \/ ReceiveFails
           \/ DeadlinePasses
  <2>1. /\ InSession \/ pc = "start"
        /\ session' = session /\ options' = options
        /\ UNCHANGED <<vars, socket>>
    BY <1>3 DEF Start, LoopTurns, Readable, IngestDone, ReceiveFails,
         DeadlinePasses, GoTo,
                InSession, network
  <2> QED
    BY <1>1, <1>2, <2>1, QuietKeepsSlices
<1>4. ~EndSession
  BY <1>1 DEF EndSession
<1>5. CASE LoopEnds \/ PollTimesOut \/ PollFails \/ ReceiveTimesOut
  BY <1>4, <1>5 DEF LoopEnds, PollTimesOut, PollFails, ReceiveTimesOut
<1>6. CASE ReceiveOne
  <2>1. InSession /\ session' = session /\ options' = options
    BY <1>6 DEF ReceiveOne, GoTo, InSession
  <2>2. active' = active
    BY <1>6 DEF ReceiveOne, ReceiveDatagram, reassembly
  <2>3. Slices' /\ SegmentsCounted
    BY <1>1, <1>2, <1>6, <2>1, ReceiveOneKeepsSlices
  <2>4. SegmentsCounted'
    <3>1. UNCHANGED <<active, filled, fragment_sizes, batches, runs>>
      BY <1>1, <1>6 DEF ReceiveOne, ReceiveDatagram, reassembly, client
    <3> QED
      BY <2>3, <3>1 DEF SegmentsCounted, OpenOptions
  <2> QED
    BY <2>3, <2>4
<1>7. CASE ReceiveCoalesced \/ ReceiveEmpty
  <2>1. InSession /\ session' = session /\ options' = options /\ options.uro
    BY <1>4, <1>7 DEF ReceiveCoalesced, ReceiveEmpty, GoTo, InSession
  <2> QED
    BY <2>1
<1>8. CASE IngestStep
  <2>1. InSession /\ session' = session /\ options' = options
    BY <1>8 DEF IngestStep, control, InSession
  <2> QED
    BY <1>1, <1>2, <1>8, <2>1, IngestKeepsSlices
<1>9. CASE NextSession
  BY <1>1, <1>9 DEF NextSession
<1> QED
  BY <1>1, <1>3, <1>5, <1>6, <1>7, <1>8, <1>9 DEF ServerStep

LEMMA TestNextKeepsSlices ==
  ASSUME TestInv, TestInv', OrdinaryTests, MixtureInv, OrderInv, OrderInv', SlicesInv,
         [TestNext]_test_vars
  PROVE  SlicesInv'
<1> SUFFICES ASSUME Orderly', ~options'.uro
             PROVE  Slices' /\ SegmentsCounted'
  BY DEF SlicesInv
<1>1. /\ faults' = 0 /\ ~killed' /\ faults \in Nat
  BY UdpTestAssumption DEF Orderly, TestInv, TestTypeOK
<1>2. CASE SendDatagram
  <2>1. UNCHANGED <<vars, control, runs, faults, killed>>
    BY <1>2 DEF SendDatagram
  <2>2. Orderly /\ ~options.uro
    BY <2>1 DEF Orderly, InSession, control, count
  <2>3. InOrder /\ Slices /\ SegmentsCounted
    BY <2>2 DEF OrderInv, SlicesInv
  <2>4. SegmentsCounted'
    <3>1. UNCHANGED <<active, filled, fragment_sizes, batches, runs>>
      BY <2>1 DEF vars, reassembly
    <3> QED
      BY <2>3, <3>1 DEF SegmentsCounted, OpenOptions
  <2> QED
    BY <1>2, <2>2, <2>3, <2>4, SendKeepsSlices
<1>3. CASE ClientStops
  BY <1>1, <1>3 DEF ClientStops
<1>4. CASE Lose \/ Duplicate \/ Overtake
  BY <1>1, <1>4 DEF Lose, Duplicate, Overtake, Fault
<1>5. CASE ServerOrClock
  BY <1>5, ServerKeepsSlices
<1>6. CASE UNCHANGED test_vars
  <2>1. UNCHANGED <<vars, control, network, client, faults, killed>>
    BY <1>6 DEF test_vars, server_vars
  <2>2. Orderly /\ ~options.uro
    BY <2>1 DEF Orderly, InSession, control, count, client
  <2> QED
    BY <2>1, <2>2, QuietKeepsSlices DEF SlicesInv, network
<1> QED
  BY <1>2, <1>3, <1>4, <1>5, <1>6 DEF TestNext

LEMMA TestInitEstablishesSlices ==
  ASSUME TestInit
  PROVE  SlicesInv
<1>1. /\ runs \in Tests /\ run = 1 /\ batch_no = 0 /\ offset = 0
      /\ batches = 0 /\ buffer = <<>> /\ ~active /\ calls = <<>> /\ socket = <<>>
  BY DEF TestInit, ServerInit, Init, InitStats, InitReassembly
<1>2. Sent = 0
  <2>1. runs[1] \in RunOptions
    BY <1>1, RunsProperties
  <2>2. count \in Nat
    BY <2>1 DEF RunOptions, count
  <2> HIDE DEF count
  <2> QED
    BY <1>1, <2>2 DEF Sent
<1>3. Collected = <<>> /\ Len(<<>>) = 0
  BY <1>1 DEF Collected
<1>4. InRow(runs, <<>>, 0, 0, 0, 0)
  BY EmptyRow
<1>5. InRow(runs, socket, batches, Len(Collected), Sent, offset)
  BY <1>1, <1>2, <1>3, <1>4
<1> QED
  BY <1>1, <1>5 DEF SlicesInv, Slices, SegmentsCounted

-----------------------------------------------------------------------------
(***************************************************************************)
(* The theorem                                                             *)
(***************************************************************************)

\* All runs of a test have one --count, as one session has one batch_total.
SameCounts ==
  \A test \in Tests : \A r \in DOMAIN test : test[r].batchCount = test[1].batchCount

\* A batch tells its --mss: two runs with different ones send no batch in common,
\* as their payloads are random.
MssByBatch ==
  \A test \in Tests : \A r, s \in DOMAIN test :
    \A i \in 0 .. test[r].batchCount - 1, j \in 0 .. test[s].batchCount - 1 :
      BatchOf(test, r, i) = BatchOf(test, s, j) => test[r].mss = test[s].mss

\* What is printed for a complete batch.
LEMMA PrintedForComplete ==
  ASSUME TestInv, OrdinaryTests, Orderly, InOrder, Slices, SegmentsCounted,
         Collecting, Len(unread) >= space,
         OpenOptions.mss > kPacketHeaderSize,
         OpenOptions.batchSize >= 2 * OpenOptions.mss,
         OpenOptions.batchSize # 3 * OpenOptions.mss - kPacketHeaderSize
  PROVE  PrintedMss = OpenOptions.mss
<1> DEFINE m == OpenOptions.mss
           n == Len(fragment_sizes)
           size == OpenOptions.batchSize
<1>1. PICK o \in Nat : Reading(runs, socket, batches, o, Len(Collected),
                               Len(unread), Sent, offset)
  BY DEF Collecting, Slices
<1> DEFINE z == SliceSize(runs, batches, o)
<1>2. /\ m \in Nat \ {0} /\ n \in Nat /\ o = n * m
      /\ filled = IF n = 0 THEN kPacketHeaderSize ELSE n * m
      /\ fragment_sizes = WholeSlices(m, n)
      /\ Len(unread) = z - (IF n = 0 THEN kPacketHeaderSize ELSE 0)
  BY <1>1, OpenSliceStart
<1>3. /\ Len(unread) = space /\ o + z = size
  BY <1>1, BatchEndsDatagram DEF SliceIsLast, OpenOptions
<1>4. z \in Nat \ {0} /\ z <= m /\ size \in Nat
  <2>1. runs \in Tests /\ IsSlice(runs, batches, o)
    BY <1>1 DEF TestInv, TestTypeOK, Reading
  <2>2. z \in Nat \ {0} /\ (m # 0 => z <= m) /\ size \in Nat
    BY <2>1, SliceProperties DEF OpenOptions
  <2> HIDE DEF z, m, size
  <2> QED
    BY <1>2, <2>2
<1>5. /\ m > kPacketHeaderSize /\ size >= 2 * m
      /\ size # 3 * m - kPacketHeaderSize
  OBVIOUS
<1> DEFINE sizes == Append(fragment_sizes, space)
<1>6. PrintedMss = infer_detected_mss(sizes)
  BY DEF PrintedMss
<1> HIDE DEF m, n, size, z, sizes
<1>7. n \in Nat \ {0}
  <2> SUFFICES ASSUME n = 0
               PROVE  FALSE
    BY <1>2
  <2>1. o = 0
    BY <1>2
  <2> QED
    BY <1>2, <1>3, <1>4, <1>5, <2>1
<1>8. space = z
  BY <1>2, <1>3, <1>4, <1>7
<1>9. n = 1 => z = m
  BY <1>2, <1>3, <1>4, <1>5
<1>10. n = 2 => z # m - kPacketHeaderSize
  BY <1>2, <1>3, <1>4, <1>5 DEF kPacketHeaderSize
<1>11. sizes = SlicesOf(m, n, z)
  BY <1>2, <1>7, <1>8, SlicesOfBatch DEF sizes
<1>12. infer_detected_mss(SlicesOf(m, n, z)) = m
  <2>1. z \in 1 .. m
    BY <1>2, <1>4
  <2> QED
    BY <1>2, <1>5, <1>7, <1>9, <1>10, <2>1, InferredFromSlices
<1> QED
  BY <1>6, <1>11, <1>12 DEF m

LEMMA SlicesGiveMss ==
  ASSUME TestInv, OrdinaryTests, SameCounts, MssByBatch, OrderInv, SlicesInv
  PROVE  Undisturbed => MssAsSent
<1> SUFFICES ASSUME Undisturbed, ~options.uro, BatchComplete, NEW r \in DOMAIN runs,
                    BatchOfRun(r), runs[r].mss > kPacketHeaderSize,
                    runs[r].batchSize >= 2 * runs[r].mss,
                    ~RestLikeFirstSlice(r)
             PROVE  PrintedMss = runs[r].mss
  BY DEF MssAsSent, WholeSegments
<1>1. /\ runs \in Tests /\ TestTypeOK /\ IInv
      /\ Collecting /\ Len(unread) >= space
  BY DEF TestInv, TestTypeOK, BatchComplete
<1>2. Orderly /\ ~options.uro
  BY <1>1 DEF Orderly, Undisturbed, FirstSession, SameCounts, count
<1>3. InOrder /\ Slices /\ SegmentsCounted
  BY <1>2 DEF OrderInv, SlicesInv
<1>4. PICK o \in Nat : Reading(runs, socket, batches, o, Len(Collected),
                               Len(unread), Sent, offset)
  BY <1>1, <1>3 DEF Collecting, Slices
<1> DEFINE s == (batches \div count) + 1
           j == batches % count
<1>5. /\ s \in DOMAIN runs /\ j \in 0 .. runs[s].batchCount - 1
      /\ Numbered(batches) = ClientBatch(s, j)
      /\ OpenOptions = runs[s]
  <2>1. IsSlice(runs, batches, o)
    BY <1>4 DEF Reading
  <2>2. /\ s \in DOMAIN runs /\ j \in 0 .. runs[s].batchCount - 1
        /\ Numbered(batches) = ClientBatch(s, j)
    BY <1>1, <1>2, <2>1, BatchOfSlice
  <2>3. OpenOptions = runs[s]
    BY DEF OpenOptions, OptionsAt, count
  <2> QED
    BY <2>2, <2>3
<1>6. Assembled = Numbered(batches)
  BY <1>1, <1>2, <1>3, AssembledInStream, CompleteInOrder
<1> HIDE DEF s, j
<1>7. PICK i \in 0 .. runs[r].batchCount - 1 : Assembled = ClientBatch(r, i)
  BY DEF BatchOfRun
<1>8. runs[r].batchSize = runs[s].batchSize
  <2>1. Len(ClientBatch(r, i)) = runs[r].batchSize
    BY <1>1, ClientBatchType
  <2>2. Len(ClientBatch(s, j)) = runs[s].batchSize
    BY <1>1, <1>5, ClientBatchType
  <2> QED
    BY <1>5, <1>6, <1>7, <2>1, <2>2
<1>9. runs[r].mss = runs[s].mss
  <2>1. BatchOf(runs, r, i) = ClientBatch(r, i) /\ BatchOf(runs, s, j) = ClientBatch(s, j)
    BY DEF BatchOf, ClientBatch
  <2>2. BatchOf(runs, r, i) = BatchOf(runs, s, j)
    BY <1>5, <1>6, <1>7, <2>1
  <2> QED
    BY <1>1, <1>5, <2>2 DEF MssByBatch
<1>10. /\ OpenOptions.mss = runs[r].mss /\ OpenOptions.batchSize = runs[r].batchSize
  BY <1>5, <1>8, <1>9
<1>11. OpenOptions.batchSize # 3 * OpenOptions.mss - kPacketHeaderSize
  BY <1>10 DEF RestLikeFirstSlice
<1>12. PrintedMss = OpenOptions.mss
  BY <1>1, <1>2, <1>3, <1>10, <1>11, PrintedForComplete
<1> QED
  BY <1>10, <1>12

\* README.md:116: the mss of a batch's line is the --mss of the client that sent
\* it, not the first slice, whatever the sizes, the number of segments and the
\* order in which clients, clock and server act: for batches of two whole
\* segments at least whose rest is not as long as the first slice
\* (server.cpp:153-178, 536-544).
THEOREM MssIsSenders ==
  ASSUME OrdinaryTests, SameCounts, MssByBatch
  PROVE  TestSpec => [](Undisturbed => MssAsSent)
<1>1. TestInit => MixtureInv /\ OrderInv /\ SlicesInv
  BY TestInitEstablishesMixture, TestInitEstablishesOrder, TestInitEstablishesSlices
<1>2. TestInv /\ [TestNext]_test_vars => TestInv'
  BY TestNextPreservesInv
<1>3. TestInv /\ MixtureInv /\ [TestNext]_test_vars => MixtureInv'
  BY TestNextKeepsMixture
<1>4. TestInv /\ OrderInv /\ [TestNext]_test_vars => OrderInv'
  BY TestNextKeepsOrder
<1>5. TestInv /\ TestInv' /\ MixtureInv /\ OrderInv /\ OrderInv' /\ SlicesInv
        /\ [TestNext]_test_vars => SlicesInv'
  BY TestNextKeepsSlices
<1>6. TestInv /\ OrderInv /\ SlicesInv => (Undisturbed => MssAsSent)
  BY SlicesGiveMss
<1> QED
  BY <1>1, <1>2, <1>3, <1>4, <1>5, <1>6, TestInvariance, PTL DEF TestSpec

=============================================================================
