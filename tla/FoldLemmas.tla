----------------------------- MODULE FoldLemmas -----------------------------
(***************************************************************************)
(* Induction over the naturals, from the least element of a set, and what  *)
(* it shows of two recursive functions of the community modules.           *)
(*                                                                         *)
(* Min of FiniteSetsExt is an element of its set, and the least one: the   *)
(* scans for a header and the choice of a local address both take the      *)
(* first of several positions.                                             *)
(*                                                                         *)
(* SumFunction adds the elements of a sequence in an order nobody knows;   *)
(* here: what it returns for a sequence that grows at its end, as the      *)
(* segment sizes of an open batch do.  FlattenSeq joins the sequences of   *)
(* a sequence; here: what it makes of one that grows at its front, as a    *)
(* stack of calls does, or at its end, as a queue of datagrams does.       *)
(***************************************************************************)
EXTENDS Integers, FiniteSetsExt, FiniteSetTheorems, Functions, SequencesExt,
        SequenceTheorems, TLAPS

-----------------------------------------------------------------------------
(***************************************************************************)
(* The least element                                                       *)
(***************************************************************************)

\* A non-empty set of numbers up to n has a least element.  Of the sets of
\* elements below an element, one is minimal for strict inclusion; it is empty.
LEMMA MinOfNaturals ==
  ASSUME NEW n \in Nat, NEW S \in SUBSET (0 .. n), S # {}
  PROVE  /\ Min(S) \in S
         /\ \A s \in S : Min(S) <= s
<1> DEFINE T == {B \in SUBSET S : \E i \in S : B = {j \in S : j < i}}
<1>1. S \in SUBSET Nat /\ \A s \in S : s <= n
  OBVIOUS
<1>2. IsFiniteSet(S)
  BY <1>1, FS_BoundedSetOfNaturals
<1>3. IsWellFoundedOn(StrictSubsetOrdering(S), SUBSET S)
  BY <1>2, FS_StrictSubsetOrderingWellFounded, FS_FiniteSubsetsOfFinite
<1>4. T \subseteq SUBSET S /\ T # {}
  <2>1. PICK i \in S : TRUE
    OBVIOUS
  <2>2. {j \in S : j < i} \in T
    OBVIOUS
  <2> QED
    BY <2>2
<1>5. PICK B \in T : \A C \in T : ~ (<<C, B>> \in StrictSubsetOrdering(S))
  <2> HIDE DEF T
  <2> QED
    BY <1>3, <1>4, WFMin
<1>6. PICK i \in S : B = {j \in S : j < i}
  OBVIOUS
<1>7. ASSUME NEW j \in S, j < i
      PROVE  FALSE
  <2> DEFINE C == {k \in S : k < j}
  <2>1. C \in T
    OBVIOUS
  <2>2. C \subseteq B
    <3>1. \A k \in S : k < j => k < i
      BY <1>1, <1>7
    <3> QED
      BY <1>6, <3>1
  <2>3. j \in B /\ j \notin C
    BY <1>1, <1>6, <1>7
  <2>4. B \subseteq S /\ C \subseteq S
    BY <1>6
  <2>5. <<C, B>> \in StrictSubsetOrdering(S)
    <3> HIDE DEF C
    <3> QED
      BY <2>2, <2>3, <2>4 DEF StrictSubsetOrdering
  <2> QED
    BY <1>5, <2>1, <2>5
<1>8. \A j \in S : i <= j
  BY <1>1, <1>7
<1> QED
  BY <1>8 DEF Min

\* Induction over the naturals, for the set of numbers a statement holds of.
LEMMA NatSetInduction ==
  ASSUME NEW S \in SUBSET Nat, 0 \in S, \A n \in S : n + 1 \in S
  PROVE  S = Nat
<1>1. SUFFICES ASSUME NEW n \in Nat, n \notin S
               PROVE  FALSE
  OBVIOUS
<1> DEFINE T == {k \in 0 .. n : k \notin S}
<1>2. T \in SUBSET (0 .. n) /\ T # {}
  BY <1>1
<1>3. PICK m \in T : \A k \in T : m <= k
  <2> HIDE DEF T
  <2> QED
    BY <1>2, MinOfNaturals
<1>4. m \in Nat /\ m # 0 /\ m <= n /\ m \notin S
  OBVIOUS
<1>5. m - 1 \in 0 .. n /\ m - 1 \notin T
  BY <1>3, <1>4
<1>6. m - 1 \in S
  BY <1>5
<1>7. (m - 1) + 1 = m
  BY <1>4
<1> QED
  BY <1>4, <1>6, <1>7

-----------------------------------------------------------------------------
(***************************************************************************)
(* Sums                                                                    *)
(***************************************************************************)

\* The element a fold over a set takes next, and the equation of its
\* recursive function: sums of f over the subsets of S.
Next1(s) == CHOOSE x \in s : TRUE

AreSums(g, f, S) ==
  g = [s \in SUBSET S |-> IF s = {} THEN 0
                          ELSE f[Next1(s)] + g[s \ {Next1(s)}]]

\* SumFunctionOnSet is what the library's fold says.
LEMMA SumIsFold ==
  ASSUME NEW f, NEW S
  PROVE  SumFunctionOnSet(f, S) = (CHOOSE g : AreSums(g, f, S))[S]
BY DEF SumFunctionOnSet, FoldFunctionOnSet, MapThenFoldSet, AreSums, Next1

\* The next element is one of the set.
LEMMA NextInSet ==
  ASSUME NEW s, s # {}
  PROVE  Next1(s) \in s
BY DEF Next1

\* The equation defines a function: given the sums over the subsets of up to n
\* elements, it says what those of n + 1 elements are.
LEMMA SumsExist ==
  ASSUME NEW S, IsFiniteSet(S), NEW f
  PROVE  \E g : AreSums(g, f, S)
<1> DEFINE UpTo(n) == {s \in SUBSET S : Cardinality(s) <= n}
           Rhs(g, s) == IF s = {} THEN 0 ELSE f[Next1(s)] + g[s \ {Next1(s)}]
           Holds(n) == \E g : \A s \in UpTo(n) : g[s] = Rhs(g, s)
           Good == {n \in Nat : Holds(n)}
<1>1. \A s \in SUBSET S : IsFiniteSet(s) /\ Cardinality(s) \in Nat
                          /\ Cardinality(s) <= Cardinality(S)
  BY FS_Subset, FS_CardinalityType
<1>2. Holds(0)
  <2>1. \A s \in UpTo(0) : s = {}
    BY <1>1, FS_EmptySet
  <2>2. \A s \in UpTo(0) : [t \in SUBSET S |-> 0][s] = Rhs([t \in SUBSET S |-> 0], s)
    BY <2>1
  <2> QED
    BY <2>2
<1>3. ASSUME NEW n \in Nat, Holds(n)
      PROVE  Holds(n + 1)
  <2>1. PICK g : \A s \in UpTo(n) : g[s] = Rhs(g, s)
    BY <1>3
  <2> DEFINE h == [s \in SUBSET S |-> IF s \in UpTo(n) THEN g[s] ELSE Rhs(g, s)]
  <2>2. ASSUME NEW s \in UpTo(n + 1), s # {}
        PROVE  s \ {Next1(s)} \in UpTo(n)
    BY <1>1, <2>2, NextInSet, FS_RemoveElement
  <2>3. \A s \in UpTo(n + 1) : h[s] = Rhs(g, s)
    BY <2>1
  <2>4. \A s \in UpTo(n + 1) : Rhs(h, s) = Rhs(g, s)
    BY <2>2
  <2>5. \A s \in UpTo(n + 1) : h[s] = Rhs(h, s)
    BY <2>3, <2>4
  <2> QED
    BY <2>5
<1>4. Good = Nat
  <2> HIDE DEF Holds
  <2>1. Good \in SUBSET Nat /\ 0 \in Good /\ \A n \in Good : n + 1 \in Good
    BY <1>2, <1>3
  <2> HIDE DEF Good
  <2> QED
    BY <2>1, NatSetInduction
<1>5. PICK g : \A s \in UpTo(Cardinality(S)) : g[s] = Rhs(g, s)
  BY <1>1, <1>4
<1> DEFINE h == [s \in SUBSET S |-> Rhs(g, s)]
<1>6. \A s \in SUBSET S : g[s] = Rhs(g, s)
  BY <1>1, <1>5
<1>7. \A s \in SUBSET S : Rhs(h, s) = Rhs(g, s)
  <2>1. \A s \in SUBSET S : h[s] = g[s]
    BY <1>6
  <2>2. \A s \in SUBSET S : s \ {Next1(s)} \in SUBSET S
    OBVIOUS
  <2> HIDE DEF h
  <2> QED
    BY <2>1, <2>2
<1>8. h = [s \in SUBSET S |-> Rhs(h, s)]
  BY <1>7
<1> QED
  BY <1>8 DEF AreSums

\* The equation, for one subset.
LEMMA SumsEquation ==
  ASSUME NEW S, NEW f, NEW g, AreSums(g, f, S), NEW s \in SUBSET S
  PROVE  g[s] = IF s = {} THEN 0 ELSE f[Next1(s)] + g[s \ {Next1(s)}]
BY DEF AreSums

\* A sum of naturals is a natural.
LEMMA SumsType ==
  ASSUME NEW S, IsFiniteSet(S), NEW f, \A i \in S : f[i] \in Nat,
         NEW g, AreSums(g, f, S)
  PROVE  \A s \in SUBSET S : g[s] \in Nat
<1> DEFINE Holds(n) == \A s \in SUBSET S : Cardinality(s) = n => g[s] \in Nat
           Good == {n \in Nat : Holds(n)}
<1>1. \A s \in SUBSET S : IsFiniteSet(s) /\ Cardinality(s) \in Nat
  BY FS_Subset, FS_CardinalityType
<1>2. Holds(0)
  BY <1>1, FS_EmptySet, SumsEquation
<1>3. ASSUME NEW n \in Nat, Holds(n)
      PROVE  Holds(n + 1)
  <2> SUFFICES ASSUME NEW s \in SUBSET S, Cardinality(s) = n + 1
               PROVE  g[s] \in Nat
    OBVIOUS
  <2>1. s # {}
    BY FS_EmptySet
  <2>2. /\ Next1(s) \in s /\ s \ {Next1(s)} \in SUBSET S
        /\ Cardinality(s \ {Next1(s)}) = n
    BY <1>1, <2>1, NextInSet, FS_RemoveElement
  <2>3. g[s \ {Next1(s)}] \in Nat /\ f[Next1(s)] \in Nat
    BY <1>3, <2>2
  <2> QED
    BY <2>1, <2>3, SumsEquation
<1>4. Good = Nat
  <2> HIDE DEF Holds
  <2>1. Good \in SUBSET Nat /\ 0 \in Good /\ \A n \in Good : n + 1 \in Good
    BY <1>2, <1>3
  <2> HIDE DEF Good
  <2> QED
    BY <2>1, NatSetInduction
<1> QED
  BY <1>1, <1>4

\* Whatever element is taken first, the sum is the same.
LEMMA SumsCommute ==
  ASSUME NEW S, IsFiniteSet(S), NEW f, \A i \in S : f[i] \in Nat,
         NEW g, AreSums(g, f, S)
  PROVE  \A s \in SUBSET S : \A y \in s : g[s] = f[y] + g[s \ {y}]
<1> DEFINE Holds(n) == \A s \in SUBSET S : \A y \in s :
             Cardinality(s) = n => g[s] = f[y] + g[s \ {y}]
           Good == {n \in Nat : Holds(n)}
<1>1. \A s \in SUBSET S : IsFiniteSet(s) /\ Cardinality(s) \in Nat
  BY FS_Subset, FS_CardinalityType
<1>2. Holds(0)
  BY <1>1, FS_EmptySet
<1>3. ASSUME NEW n \in Nat, Holds(n)
      PROVE  Holds(n + 1)
  <2> SUFFICES ASSUME NEW s \in SUBSET S, NEW y \in s, Cardinality(s) = n + 1
               PROVE  g[s] = f[y] + g[s \ {y}]
    OBVIOUS
  <2> DEFINE x == Next1(s)
  <2>1. x \in s /\ g[s] = f[x] + g[s \ {x}]
    BY NextInSet, SumsEquation
  <2> HIDE DEF x
  <2>2. CASE x = y
    BY <2>1, <2>2
  <2>3. CASE x # y
    <3>1. ASSUME NEW a \in s, NEW b \in s, a # b
          PROVE  g[s \ {a}] = f[b] + g[(s \ {a}) \ {b}]
      <4>1. IsFiniteSet(s)
        BY <1>1
      <4>2. Cardinality(s \ {a}) = n
        <5>1. Cardinality(s \ {a}) = Cardinality(s) - 1
          BY <4>1, FS_RemoveElement
        <5> QED
          BY <5>1
      <4>3. s \ {a} \in SUBSET S /\ b \in s \ {a}
        BY <3>1
      <4> QED
        BY <1>3, <4>2, <4>3
    <3>2. /\ g[s \ {x}] = f[y] + g[(s \ {x}) \ {y}]
          /\ g[s \ {y}] = f[x] + g[(s \ {y}) \ {x}]
      BY <2>1, <2>3, <3>1
    <3>3. (s \ {x}) \ {y} = (s \ {y}) \ {x} /\ (s \ {y}) \ {x} \in SUBSET S
      OBVIOUS
    <3>4. f[x] \in Nat /\ f[y] \in Nat /\ g[(s \ {y}) \ {x}] \in Nat
      BY <2>1, <3>3, SumsType
    <3>5. \A p, q, r \in Nat : p + (q + r) = q + (p + r)
      OBVIOUS
    <3>6. g[s] = f[x] + (f[y] + g[(s \ {x}) \ {y}])
      BY <2>1, <3>2
    <3>7. f[y] + g[s \ {y}] = f[y] + (f[x] + g[(s \ {x}) \ {y}])
      BY <3>2, <3>3
    <3> QED
      BY <3>3, <3>4, <3>5, <3>6, <3>7
  <2> QED
    BY <2>2, <2>3
<1>4. Good = Nat
  <2> HIDE DEF Holds
  <2>1. Good \in SUBSET Nat /\ 0 \in Good /\ \A n \in Good : n + 1 \in Good
    BY <1>2, <1>3
  <2> HIDE DEF Good
  <2> QED
    BY <2>1, NatSetInduction
<1> QED
  BY <1>1, <1>4

\* Sums over the same elements are equal, whatever else there is to add.
LEMMA SumsAgree ==
  ASSUME NEW S, IsFiniteSet(S), NEW T, S \subseteq T,
         NEW f, NEW e, \A i \in S : f[i] = e[i],
         NEW g, AreSums(g, f, S), NEW h, AreSums(h, e, T)
  PROVE  g[S] = h[S]
<1> DEFINE Holds(n) == \A s \in SUBSET S : Cardinality(s) = n => g[s] = h[s]
           Good == {n \in Nat : Holds(n)}
<1>1. \A s \in SUBSET S : IsFiniteSet(s) /\ Cardinality(s) \in Nat
                          /\ s \in SUBSET T
  BY FS_Subset, FS_CardinalityType
<1>2. Holds(0)
  <2>1. {} \in SUBSET S /\ {} \in SUBSET T
    OBVIOUS
  <2>2. g[{}] = 0 /\ h[{}] = 0
    BY <2>1, SumsEquation
  <2>3. \A s \in SUBSET S : Cardinality(s) = 0 => s = {}
    BY <1>1, FS_EmptySet
  <2> QED
    BY <2>2, <2>3
<1>3. ASSUME NEW n \in Nat, Holds(n)
      PROVE  Holds(n + 1)
  <2> SUFFICES ASSUME NEW s \in SUBSET S, Cardinality(s) = n + 1
               PROVE  g[s] = h[s]
    OBVIOUS
  <2>1. s # {}
    BY FS_EmptySet
  <2>2. /\ Next1(s) \in s /\ s \ {Next1(s)} \in SUBSET S
        /\ Cardinality(s \ {Next1(s)}) = n
    BY <1>1, <2>1, NextInSet, FS_RemoveElement
  <2>3. g[s] = f[Next1(s)] + g[s \ {Next1(s)}]
    BY <2>1, SumsEquation
  <2>4. h[s] = e[Next1(s)] + h[s \ {Next1(s)}]
    <3>1. s \in SUBSET T
      BY <1>1
    <3> QED
      BY <2>1, <3>1, SumsEquation
  <2>5. g[s \ {Next1(s)}] = h[s \ {Next1(s)}] /\ f[Next1(s)] = e[Next1(s)]
    BY <1>3, <2>2
  <2> QED
    BY <2>3, <2>4, <2>5
<1>4. Good = Nat
  <2> HIDE DEF Holds
  <2>1. Good \in SUBSET Nat /\ 0 \in Good /\ \A n \in Good : n + 1 \in Good
    BY <1>2, <1>3
  <2> HIDE DEF Good
  <2> QED
    BY <2>1, NatSetInduction
<1> QED
  BY <1>1, <1>4

\* Nothing to add.
LEMMA SumOfEmpty == SumFunction(<<>>) = 0
<1> DEFINE D == DOMAIN <<>>
           g == CHOOSE h : AreSums(h, <<>>, D)
<1>1. D = {}
  OBVIOUS
<1>2. AreSums(g, <<>>, D)
  BY <1>1, FS_EmptySet, SumsExist
<1>3. SumFunction(<<>>) = g[D]
  BY SumIsFold DEF SumFunction
<1> HIDE DEF g
<1> QED
  BY <1>1, <1>2, <1>3, SumsEquation

\* One more element at the end.
LEMMA SumOfAppend ==
  ASSUME NEW f \in Seq(Nat), NEW n \in Nat
  PROVE  /\ SumFunction(f) \in Nat
         /\ SumFunction(Append(f, n)) = SumFunction(f) + n
<1> DEFINE e == Append(f, n)
           S == 1 .. Len(f)
           T == 1 .. Len(f) + 1
           g == CHOOSE k : AreSums(k, f, S)
           h == CHOOSE k : AreSums(k, e, T)
<1>1. /\ Len(f) \in Nat /\ f \in [S -> Nat]
      /\ e \in Seq(Nat) /\ Len(e) = Len(f) + 1 /\ e \in [T -> Nat]
      /\ \A i \in S : e[i] = f[i]
      /\ e[Len(f) + 1] = n
  <2>1. e \in Seq(Nat) /\ Len(e) = Len(f) + 1
        /\ (\A i \in 1 .. Len(f) : e[i] = f[i]) /\ e[Len(f) + 1] = n
    BY AppendProperties
  <2>2. Len(f) \in Nat /\ f \in [1 .. Len(f) -> Nat]
        /\ e \in [1 .. Len(e) -> Nat]
    BY <2>1, LenProperties
  <2> QED
    BY <2>1, <2>2
<1>2. /\ IsFiniteSet(S) /\ IsFiniteSet(T)
      /\ S \subseteq T /\ Len(f) + 1 \in T /\ T \ {Len(f) + 1} = S
  <2>1. Len(f) \in Nat
    BY LenProperties
  <2>2. IsFiniteSet(1 .. Len(f)) /\ IsFiniteSet(1 .. Len(f) + 1)
    BY <2>1, FS_Interval
  <2> QED
    BY <2>1, <2>2
<1>3. SumFunction(f) = g[S] /\ SumFunction(e) = h[T]
  <2>1. DOMAIN f = S /\ DOMAIN e = T
    BY <1>1
  <2> QED
    BY <2>1, SumIsFold DEF SumFunction
<1>4. AreSums(g, f, S) /\ AreSums(h, e, T)
  BY <1>2, SumsExist
<1> HIDE DEF e, g, h, S, T
<1>5. g[S] = h[S]
  BY <1>1, <1>2, <1>4, SumsAgree
<1>6. \A i \in T : e[i] \in Nat
  BY <1>1
<1>7. h[T] = e[Len(f) + 1] + h[T \ {Len(f) + 1}]
  BY <1>2, <1>4, <1>6, SumsCommute
<1>8. h[S] \in Nat
  BY <1>2, <1>4, <1>6, SumsType
<1>9. n + g[S] = g[S] + n
  BY <1>5, <1>8
<1>10. SumFunction(e) = SumFunction(f) + n /\ SumFunction(f) \in Nat
  BY <1>1, <1>2, <1>3, <1>5, <1>7, <1>8, <1>9
<1> QED
  BY <1>10 DEF e

-----------------------------------------------------------------------------
(***************************************************************************)
(* Flattening                                                              *)
(***************************************************************************)

\* The equation of the recursive function: g[i] joins the first i sequences.
AreJoined(g, seqs) ==
  g = [i \in 1 .. Len(seqs) |->
         IF i = 1 THEN seqs[i] ELSE g[i - 1] \o seqs[i]]

\* FlattenSeq is what the library's function says.
LEMMA FlattenIsJoin ==
  ASSUME NEW seqs
  PROVE  FlattenSeq(seqs) = IF Len(seqs) = 0 THEN seqs
                            ELSE (CHOOSE g : AreJoined(g, seqs))[Len(seqs)]
BY DEF FlattenSeq, AreJoined

\* The equation defines a function, one number after the other.
LEMMA JoinsExist ==
  ASSUME NEW S, NEW seqs \in Seq(Seq(S))
  PROVE  \E g : AreJoined(g, seqs)
<1> DEFINE D == 1 .. Len(seqs)
           Rhs(g, i) == IF i = 1 THEN seqs[i] ELSE g[i - 1] \o seqs[i]
           Holds(n) == \E g : \A i \in D : i <= n => g[i] = Rhs(g, i)
           Good == {n \in Nat : Holds(n)}
<1>1. Len(seqs) \in Nat
  BY LenProperties
<1>2. Holds(0)
  BY <1>1
<1>3. ASSUME NEW n \in Nat, Holds(n)
      PROVE  Holds(n + 1)
  <2>1. PICK g : \A i \in D : i <= n => g[i] = Rhs(g, i)
    BY <1>3
  <2> DEFINE h == [i \in D |-> IF i <= n THEN g[i] ELSE Rhs(g, i)]
  <2>2. \A i \in D : i <= n + 1 => h[i] = Rhs(g, i)
    BY <2>1
  <2>3. \A i \in D : i <= n + 1 => Rhs(h, i) = Rhs(g, i)
    <3>1. \A i \in D : i <= n + 1 /\ i # 1 => i - 1 \in D /\ i - 1 <= n
      BY <1>1
    <3>2. \A i \in D : i <= n => h[i] = g[i]
      OBVIOUS
    <3> HIDE DEF h
    <3> QED
      BY <3>1, <3>2
  <2>4. \A i \in D : i <= n + 1 => h[i] = Rhs(h, i)
    BY <2>2, <2>3
  <2> QED
    BY <2>4
<1>4. Good = Nat
  <2> HIDE DEF Holds
  <2>1. Good \in SUBSET Nat /\ 0 \in Good /\ \A n \in Good : n + 1 \in Good
    BY <1>2, <1>3
  <2> HIDE DEF Good
  <2> QED
    BY <2>1, NatSetInduction
<1>5. PICK g : \A i \in D : i <= Len(seqs) => g[i] = Rhs(g, i)
  BY <1>1, <1>4
<1> DEFINE h == [i \in D |-> Rhs(g, i)]
<1>6. \A i \in D : h[i] = g[i]
  BY <1>1, <1>5
<1>7. \A i \in D : Rhs(h, i) = Rhs(g, i)
  <2>1. \A i \in D : i # 1 => i - 1 \in D
    BY <1>1
  <2> HIDE DEF h
  <2> QED
    BY <1>6, <2>1
<1>8. h = [i \in D |-> Rhs(h, i)]
  BY <1>7
<1> QED
  BY <1>8 DEF AreJoined

\* The equation, for one number, and the type of what it says.
LEMMA JoinsProperties ==
  ASSUME NEW S, NEW seqs \in Seq(Seq(S)), NEW g, AreJoined(g, seqs)
  PROVE  \A i \in 1 .. Len(seqs) :
           /\ g[i] = IF i = 1 THEN seqs[i] ELSE g[i - 1] \o seqs[i]
           /\ g[i] \in Seq(S)
<1> DEFINE D == 1 .. Len(seqs)
           Holds(n) == \A i \in D : i <= n => g[i] \in Seq(S)
           Good == {n \in Nat : Holds(n)}
<1>1. Len(seqs) \in Nat /\ \A i \in D : seqs[i] \in Seq(S)
  BY LenProperties, ElementOfSeq
<1>2. \A i \in D : g[i] = IF i = 1 THEN seqs[i] ELSE g[i - 1] \o seqs[i]
  BY DEF AreJoined
<1>3. Holds(0)
  BY <1>1
<1>4. ASSUME NEW n \in Nat, Holds(n)
      PROVE  Holds(n + 1)
  <2> SUFFICES ASSUME NEW i \in D, i <= n + 1
               PROVE  g[i] \in Seq(S)
    OBVIOUS
  <2>1. CASE i = 1
    BY <1>1, <1>2, <2>1
  <2>2. CASE i # 1
    <3>1. i - 1 \in D /\ i - 1 <= n
      BY <1>1, <2>2
    <3>2. g[i - 1] \in Seq(S) /\ seqs[i] \in Seq(S)
      BY <1>1, <1>4, <3>1
    <3>3. g[i - 1] \o seqs[i] \in Seq(S)
      BY <3>2, ConcatProperties
    <3> QED
      BY <1>2, <2>2, <3>3
  <2> QED
    BY <2>1, <2>2
<1>5. Good = Nat
  <2> HIDE DEF Holds
  <2>1. Good \in SUBSET Nat /\ 0 \in Good /\ \A n \in Good : n + 1 \in Good
    BY <1>3, <1>4
  <2> HIDE DEF Good
  <2> QED
    BY <2>1, NatSetInduction
<1>6. Holds(Len(seqs))
  BY <1>1, <1>5
<1> QED
  BY <1>1, <1>2, <1>6

\* Joining sequences of words gives words.
LEMMA FlattenType ==
  ASSUME NEW S, NEW seqs \in Seq(Seq(S))
  PROVE  FlattenSeq(seqs) \in Seq(S)
<1> DEFINE g == CHOOSE k : AreJoined(k, seqs)
<1>1. Len(seqs) \in Nat
  BY LenProperties
<1>2. CASE Len(seqs) = 0
  BY <1>2, FlattenIsJoin, EmptySeq
<1>3. CASE Len(seqs) # 0
  <2>1. AreJoined(g, seqs)
    BY JoinsExist
  <2>2. FlattenSeq(seqs) = g[Len(seqs)]
    BY <1>3, FlattenIsJoin
  <2> HIDE DEF g
  <2>3. Len(seqs) \in 1 .. Len(seqs)
    BY <1>1, <1>3
  <2> QED
    BY <2>1, <2>2, <2>3, JoinsProperties
<1> QED
  BY <1>2, <1>3

\* Nothing to join.
LEMMA FlattenOfEmpty == FlattenSeq(<<>>) = <<>>
BY FlattenIsJoin, EmptySeq

\* One more sequence in front.
LEMMA FlattenOfCons ==
  ASSUME NEW S, NEW seqs \in Seq(Seq(S)), NEW d \in Seq(S)
  PROVE  FlattenSeq(<<d>> \o seqs) = d \o FlattenSeq(seqs)
<1> DEFINE more == <<d>> \o seqs
           g == CHOOSE k : AreJoined(k, seqs)
           h == CHOOSE k : AreJoined(k, more)
           Holds(n) == \A i \in 1 .. Len(seqs) : i <= n => h[i + 1] = d \o g[i]
           Good == {n \in Nat : Holds(n)}
<1>1. <<d>> \in Seq(Seq(S)) /\ Len(<<d>>) = 1 /\ <<d>>[1] = d
  OBVIOUS
<1>2. /\ Len(seqs) \in Nat
      /\ more \in Seq(Seq(S)) /\ Len(more) = Len(seqs) + 1
      /\ more[1] = d
      /\ \A i \in 1 .. Len(seqs) : more[i + 1] = seqs[i]
  <2>1. Len(seqs) \in Nat
    BY LenProperties
  <2>2. /\ more \in Seq(Seq(S)) /\ Len(more) = 1 + Len(seqs)
        /\ \A i \in 1 .. 1 + Len(seqs) :
             more[i] = IF i <= 1 THEN <<d>>[i] ELSE seqs[i - 1]
    BY <1>1, ConcatProperties
  <2> QED
    BY <1>1, <2>1, <2>2
<1>3. AreJoined(g, seqs) /\ AreJoined(h, more)
  BY <1>2, JoinsExist
<1>4. /\ FlattenSeq(more) = h[Len(seqs) + 1]
      /\ Len(seqs) # 0 => FlattenSeq(seqs) = g[Len(seqs)]
  <2>1. Len(more) # 0 /\ Len(more) = Len(seqs) + 1
    BY <1>2
  <2>2. FlattenSeq(more) = h[Len(more)]
    <3> HIDE DEF more
    <3> QED
      BY <2>1, FlattenIsJoin
  <2>3. Len(seqs) # 0 => FlattenSeq(seqs) = g[Len(seqs)]
    BY FlattenIsJoin
  <2> QED
    BY <2>1, <2>2, <2>3
<1> HIDE DEF more, g, h
<1>5. \A i \in 1 .. Len(seqs) + 1 :
        /\ h[i] = IF i = 1 THEN more[i] ELSE h[i - 1] \o more[i]
        /\ h[i] \in Seq(S)
  BY <1>2, <1>3, JoinsProperties
<1>6. \A i \in 1 .. Len(seqs) :
        /\ g[i] = IF i = 1 THEN seqs[i] ELSE g[i - 1] \o seqs[i]
        /\ g[i] \in Seq(S) /\ seqs[i] \in Seq(S)
  BY <1>3, JoinsProperties, ElementOfSeq
<1>7. h[1] = d
  BY <1>2, <1>5
<1>8. ASSUME NEW n \in Nat, Holds(n)
      PROVE  Holds(n + 1)
  <2> SUFFICES ASSUME NEW i \in 1 .. Len(seqs), i <= n + 1
               PROVE  h[i + 1] = d \o g[i]
    OBVIOUS
  <2>1. h[i + 1] = h[i] \o seqs[i]
    <3>1. i + 1 \in 1 .. Len(seqs) + 1 /\ i + 1 # 1 /\ (i + 1) - 1 = i
      BY <1>2
    <3>2. h[i + 1] = h[(i + 1) - 1] \o more[i + 1]
      BY <1>5, <3>1
    <3> QED
      BY <1>2, <3>1, <3>2
  <2>2. CASE i = 1
    BY <1>6, <1>7, <2>1, <2>2
  <2>3. CASE i # 1
    <3>1. i - 1 \in 1 .. Len(seqs) /\ i - 1 <= n /\ (i - 1) + 1 = i
      BY <1>2, <2>3
    <3>2. h[i] = d \o g[i - 1]
      BY <1>8, <3>1
    <3>3. g[i] = g[i - 1] \o seqs[i] /\ g[i - 1] \in Seq(S) /\ seqs[i] \in Seq(S)
      BY <1>6, <2>3, <3>1
    <3>4. (d \o g[i - 1]) \o seqs[i] = d \o (g[i - 1] \o seqs[i])
      <4>1. \A u, v \in Seq(S) : (d \o u) \o v = d \o (u \o v)
        BY ConcatAssociative
      <4> QED
        BY <3>3, <4>1
    <3> QED
      BY <2>1, <3>2, <3>3, <3>4
  <2> QED
    BY <2>2, <2>3
<1>9. Good = Nat
  <2>1. Holds(0)
    BY <1>2
  <2> HIDE DEF Holds
  <2>2. Good \in SUBSET Nat /\ 0 \in Good /\ \A n \in Good : n + 1 \in Good
    BY <1>8, <2>1
  <2> HIDE DEF Good
  <2> QED
    BY <2>2, NatSetInduction
<1>10. CASE Len(seqs) = 0
  <2>1. seqs = <<>> /\ d \o <<>> = d
    BY <1>10, ConcatEmptySeq, EmptySeq
  <2>2. FlattenSeq(seqs) = <<>>
    BY <2>1, FlattenOfEmpty
  <2>3. FlattenSeq(more) = d
    BY <1>4, <1>7, <1>10
  <2> QED
    BY <2>1, <2>2, <2>3 DEF more
<1>11. CASE Len(seqs) # 0
  <2>1. Holds(Len(seqs)) /\ Len(seqs) \in 1 .. Len(seqs)
    <3>1. Holds(Len(seqs))
      <4> HIDE DEF Holds
      <4> QED
        BY <1>2, <1>9
    <3> QED
      BY <1>2, <1>11, <3>1
  <2>2. h[Len(seqs) + 1] = d \o g[Len(seqs)]
    BY <1>2, <2>1
  <2> QED
    BY <1>4, <1>11, <2>2 DEF more
<1> QED
  BY <1>10, <1>11

\* Joins may be regrouped.
LEMMA JoinAssociative ==
  ASSUME NEW S
  PROVE  \A u, v, w \in Seq(S) : u \o (v \o w) = (u \o v) \o w
BY ConcatAssociative

\* Two queues laid one behind the other.
LEMMA FlattenOfConcat ==
  ASSUME NEW S, NEW seqs \in Seq(Seq(S)), NEW more \in Seq(Seq(S))
  PROVE  FlattenSeq(seqs \o more) = FlattenSeq(seqs) \o FlattenSeq(more)
<1> DEFINE Holds(n) ==
             \A s \in Seq(Seq(S)) :
               Len(s) = n
               => FlattenSeq(s \o more) = FlattenSeq(s) \o FlattenSeq(more)
           Good == {n \in Nat : Holds(n)}
<1> \A u, v, w \in Seq(S) : u \o (v \o w) = (u \o v) \o w
  BY JoinAssociative
<1>1. Holds(0)
  <2> SUFFICES ASSUME NEW s \in Seq(Seq(S)), Len(s) = 0
               PROVE  FlattenSeq(s \o more) = FlattenSeq(s) \o FlattenSeq(more)
    OBVIOUS
  <2>1. s = <<>> /\ s \o more = more
    BY EmptySeq, ConcatEmptySeq
  <2>2. <<>> \o FlattenSeq(more) = FlattenSeq(more)
    BY FlattenType, ConcatEmptySeq
  <2> QED
    BY <2>1, <2>2, FlattenOfEmpty
<1>2. ASSUME NEW n \in Nat, Holds(n)
      PROVE  Holds(n + 1)
  <2> SUFFICES ASSUME NEW s \in Seq(Seq(S)), Len(s) = n + 1
               PROVE  FlattenSeq(s \o more) = FlattenSeq(s) \o FlattenSeq(more)
    OBVIOUS
  <2>1. PICK d \in Seq(S), t \in Seq(Seq(S)) : s = <<d>> \o t /\ Len(t) = n
    <3>1. Head(s) \in Seq(S) /\ Tail(s) \in Seq(Seq(S)) /\ Len(Tail(s)) = n
      OBVIOUS
    <3>2. s = <<Head(s)>> \o Tail(s)
      OBVIOUS
    <3> QED
      BY <3>1, <3>2
  <2>2. <<d>> \in Seq(Seq(S))
    OBVIOUS
  <2>3. s \o more = <<d>> \o (t \o more) /\ t \o more \in Seq(Seq(S))
    BY <2>1, <2>2, ConcatAssociative, ConcatProperties
  <2>4. FlattenSeq(s \o more) = d \o FlattenSeq(t \o more)
    BY <2>1, <2>3, FlattenOfCons
  <2>5. FlattenSeq(t \o more) = FlattenSeq(t) \o FlattenSeq(more)
    BY <1>2, <2>1
  <2>6. FlattenSeq(s) = d \o FlattenSeq(t)
    BY <2>1, <2>2, FlattenOfCons
  <2>7. /\ FlattenSeq(t) \in Seq(S) /\ FlattenSeq(more) \in Seq(S)
    BY <2>1, FlattenType
  <2>8. d \o (FlattenSeq(t) \o FlattenSeq(more)) =
          (d \o FlattenSeq(t)) \o FlattenSeq(more)
    BY <2>7
  <2> QED
    BY <2>4, <2>5, <2>6, <2>8
<1>3. Good = Nat
  <2> HIDE DEF Holds
  <2>1. Good \in SUBSET Nat /\ 0 \in Good /\ \A n \in Good : n + 1 \in Good
    BY <1>1, <1>2
  <2> HIDE DEF Good
  <2> QED
    BY <2>1, NatSetInduction
<1>4. Len(seqs) \in Nat
  BY LenProperties
<1>5. Holds(Len(seqs))
  <2> HIDE DEF Holds
  <2> QED
    BY <1>3, <1>4
<1> QED
  BY <1>5

\* One more sequence at the end.
LEMMA FlattenOfAppend ==
  ASSUME NEW S, NEW seqs \in Seq(Seq(S)), NEW d \in Seq(S)
  PROVE  FlattenSeq(Append(seqs, d)) = FlattenSeq(seqs) \o d
<1>1. <<d>> \in Seq(Seq(S)) /\ Append(seqs, d) = seqs \o <<d>>
  BY AppendIsConcat
<1>2. FlattenSeq(<<d>>) = d
  <2>1. <<>> \in Seq(Seq(S)) /\ <<d>> \o <<>> = <<d>> /\ d \o <<>> = d
    BY <1>1, ConcatEmptySeq
  <2>2. FlattenSeq(<<d>> \o <<>>) = d \o FlattenSeq(<<>>)
    BY <2>1, FlattenOfCons
  <2> QED
    BY <2>1, <2>2, FlattenOfEmpty
<1> QED
  BY <1>1, <1>2, FlattenOfConcat

=============================================================================
