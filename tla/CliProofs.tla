----------------------------- MODULE CliProofs -----------------------------
(***************************************************************************)
(* What the programs may rely on, whatever stands on the command line.     *)
(***************************************************************************)
EXTENDS Cli, FoldLemmas

AtMostOne(S) == \A m, n \in S : m = n

\* What each field may hold while the line is read.
FieldsInv ==
  /\ program \in {"server", "client"}
  /\ DOMAIN out = Fields
  /\ out["--port"] \subseteq 0 .. kMaxPort
  /\ AtMostOne(out["--port"])
  /\ 0 \notin out["--count"]
  /\ program = "server" =>
       /\ 0 \notin out["loopCount"]
       /\ out["loopCount"] # {} => out["--loop"] # {}
  /\ program = "client" =>
       /\ out["--size"] \subseteq kPacketHeaderSize .. kMaxBatchSize
       /\ out["--mss"] \subseteq 0 .. kMaxBatchSize

Complete == IF program = "server" THEN ServerComplete ELSE ClientComplete

CliInv ==
  /\ FieldsInv
  /\ argv \in Seq(Texts)
  /\ i \in Nat \ {0}
  /\ outcome = "accepted" => Complete

\* A text gives each parse function at most one number, within its limits.
LEMMA ParsedProperties ==
  ASSUME NEW text \in Texts
  PROVE  /\ parse_port(text) \subseteq 0 .. kMaxPort
         /\ AtMostOne(parse_port(text))
         /\ 0 \notin parse_count(text)
         /\ parse_batch_size(text) \subseteq kPacketHeaderSize .. kMaxBatchSize
         /\ parse_mss(text) \subseteq 0 .. kMaxBatchSize
<1>1. \A m, n \in Lexicon[text].reads : m = n
  BY CliAssumption
<1>2. AtMostOne(parse_port(text))
  <2> DEFINE read == {m \in Lexicon[text].reads :
                        m \in 1 - UlongValues .. UlongValues - 1}
  <2>1. \A m, n \in read : m = n
    BY <1>1
  <2>2. ASSUME NEW m \in parse_port(text)
        PROVE  \E k \in read : m = k % UlongValues
    <3>1. m \in Unsigned(text, UlongValues)
      BY DEF parse_port
    <3> QED
      BY <3>1 DEF Unsigned
  <2> HIDE DEF read
  <2>3. ASSUME NEW m \in parse_port(text), NEW n \in parse_port(text)
        PROVE  m = n
    <3>1. PICK k \in read, l \in read :
            m = k % UlongValues /\ n = l % UlongValues
      BY <2>2
    <3>2. k = l
      BY <2>1
    <3> QED
      BY <3>1, <3>2
  <2> QED
    BY <2>3 DEF AtMostOne
<1>3. parse_port(text) \subseteq 0 .. kMaxPort
  BY DEF parse_port
<1>4. 0 \notin parse_count(text)
  BY DEF parse_count
<1>5. parse_batch_size(text) \subseteq kPacketHeaderSize .. kMaxBatchSize
  BY DEF parse_batch_size
<1>6. parse_mss(text) \subseteq 0 .. kMaxBatchSize
  BY DEF parse_mss
<1> QED
  BY <1>2, <1>3, <1>4, <1>5, <1>6

\* The value of an option is a text of the line or of its argument.
LEMMA ValueIsText ==
  ASSUME CliInv, Scans
  PROVE  /\ argv[i] \in Texts
         /\ Lexicon[argv[i]].value \subseteq Texts
         /\ option_value \subseteq Texts
         /\ LoopValue \subseteq Texts
<1>0. i \in Nat \ {0} /\ argv \in Seq(Texts) /\ i <= Len(argv)
  BY DEF CliInv, Scans
<1>1. \A k \in DOMAIN argv : argv[k] \in Texts
  BY <1>0
<1>2. argv[i] \in Texts
  BY <1>0
<1>3. Lexicon[argv[i]].value \subseteq Texts
  BY <1>2, CliAssumption
<1> QED
  BY <1>1, <1>2, <1>3 DEF option_value, LoopValue

\* Nothing was read yet.
LEMMA CliInitEstablishesInv == CliInit => CliInv
<1> SUFFICES ASSUME CliInit PROVE CliInv
  OBVIOUS
<1>1. /\ program \in {"server", "client"}
      /\ out = [field \in Fields |-> {}]
      /\ argv \in Seq(Texts) /\ i = 1 /\ outcome # "accepted"
  BY CliAssumption DEF CliInit
<1>2. /\ {"--port", "--count"} \subseteq Fields
      /\ program = "server" => {"loopCount", "--loop"} \subseteq Fields
      /\ program = "client" => {"--size", "--mss"} \subseteq Fields
  BY <1>1 DEF Fields, ValueOptions, Flags
<1>3. \A field \in Fields : out[field] = {}
  BY <1>1
<1>4. FieldsInv
  <2>1. AtMostOne({})
    BY DEF AtMostOne
  <2>2. out["--port"] = {} /\ out["--count"] = {}
    BY <1>2, <1>3
  <2>3. program = "server" => out["loopCount"] = {}
    BY <1>2, <1>3
  <2>4. program = "client" => out["--size"] = {} /\ out["--mss"] = {}
    BY <1>2, <1>3
  <2>5. DOMAIN out = Fields
    BY <1>1
  <2> QED
    BY <1>1, <2>1, <2>2, <2>3, <2>4, <2>5 DEF FieldsInv
<1> QED
  BY <1>1, <1>4 DEF CliInv

\* The next argument is read, and one field may have changed.
LEMMA StorePreservesInv ==
  ASSUME CliInv, outcome = "scanning", NEW fields, NEW steps \in {1, 2},
         Store(fields, steps), FieldsInv'
  PROVE  CliInv'
BY DEF CliInv, Store

\* An option with a value stores what its parse function lets pass.
LEMMA ValueOptionPreservesInv ==
  ASSUME CliInv, ValueOption
  PROVE  CliInv'
<1>1. PICK text \in option_value :
        /\ Parsed(Key, text) # {}
        /\ Store([out EXCEPT ![Key] = Parsed(Key, text)], ArgumentsRead)
  BY DEF ValueOption
<1>2. /\ Scans /\ Key \in ValueOptions /\ text \in Texts
      /\ ArgumentsRead \in {1, 2} /\ outcome = "scanning"
  BY <1>1, ValueIsText DEF ValueOption, Scans, ArgumentsRead
<1>3. /\ out' = [out EXCEPT ![Key] = Parsed(Key, text)]
      /\ program' = program /\ Fields' = Fields
  BY <1>1 DEF Store, Fields, ValueOptions, Flags
<1>4. FieldsInv /\ DOMAIN out = Fields /\ Key \in Fields
  BY <1>2 DEF CliInv, FieldsInv, Fields
<1>5. \A field \in Fields :
        out'[field] = IF field = Key THEN Parsed(Key, text) ELSE out[field]
  BY <1>3, <1>4
<1>6. /\ {"--port", "--count"} \subseteq Fields
      /\ program = "server" => {"loopCount", "--loop"} \subseteq Fields
      /\ program = "client" => {"--size", "--mss"} \subseteq Fields
  BY <1>4 DEF FieldsInv, Fields, ValueOptions, Flags
<1>7. /\ out'["--port"] \in {out["--port"], parse_port(text)}
      /\ out'["--count"] \in {out["--count"], parse_count(text)}
      /\ program = "client" =>
           /\ out'["--size"] \in {out["--size"], parse_batch_size(text)}
           /\ out'["--mss"] \in {out["--mss"], parse_mss(text)}
  BY <1>5, <1>6 DEF Parsed
<1>8. program = "server" =>
        out'["loopCount"] = out["loopCount"] /\ out'["--loop"] = out["--loop"]
  BY <1>2, <1>5, <1>6 DEF ValueOptions
<1>9. FieldsInv'
  BY <1>2, <1>3, <1>4, <1>7, <1>8, ParsedProperties DEF FieldsInv
<1> QED
  BY <1>1, <1>2, <1>9, StorePreservesInv

\* A flag touches no field with a value.
LEMMA FlagOptionPreservesInv ==
  ASSUME CliInv, FlagOption
  PROVE  CliInv'
<1>1. /\ Key \in Flags /\ outcome = "scanning"
      /\ Store([out EXCEPT ![Key] = {TRUE}], 1)
      /\ out' = [out EXCEPT ![Key] = {TRUE}]
      /\ program' = program /\ Fields' = Fields
  BY DEF FlagOption, Store, Scans, Fields, ValueOptions, Flags
<1>2. FieldsInv /\ DOMAIN out = Fields
  BY DEF CliInv, FieldsInv
<1>3. /\ Key \notin {"--port", "--count", "loopCount", "--loop", "--size",
                     "--mss"}
      /\ \A field : field # Key => out'[field] = out[field]
  BY <1>1 DEF Flags
<1>4. FieldsInv'
  BY <1>1, <1>2, <1>3 DEF FieldsInv
<1> QED
  BY <1>1, <1>4, StorePreservesInv

\* --loop is set with its count, or keeps the one given before.
LEMMA LoopOptionPreservesInv ==
  ASSUME CliInv, LoopOption
  PROVE  CliInv'
<1>1. /\ program = "server" /\ outcome = "scanning" /\ Scans
      /\ FieldsInv /\ DOMAIN out = Fields
      /\ {"--port", "--count", "--loop", "loopCount"} \subseteq Fields
  BY DEF LoopOption, LoopsHere, Scans, CliInv, FieldsInv, Fields, ValueOptions
<1>2. CASE Store([out EXCEPT !["--loop"] = {TRUE}], 1)
  <2>1. /\ out' = [out EXCEPT !["--loop"] = {TRUE}]
        /\ program' = program /\ Fields' = Fields
    BY <1>2 DEF Store, Fields, ValueOptions, Flags
  <2>2. FieldsInv'
    BY <1>1, <2>1 DEF FieldsInv
  <2> QED
    BY <1>1, <1>2, <2>2, StorePreservesInv
<1>3. CASE \E text \in LoopValue :
             Store([out EXCEPT !["--loop"] = {TRUE},
                               !["loopCount"] = parse_count(text)],
                   ArgumentsRead)
  <2>1. PICK text \in LoopValue :
          Store([out EXCEPT !["--loop"] = {TRUE},
                            !["loopCount"] = parse_count(text)],
                ArgumentsRead)
    BY <1>3
  <2>2. 0 \notin parse_count(text)
    BY <1>1, ValueIsText, ParsedProperties
  <2>3. /\ out' = [out EXCEPT !["--loop"] = {TRUE},
                              !["loopCount"] = parse_count(text)]
        /\ program' = program /\ Fields' = Fields
    BY <2>1 DEF Store, Fields, ValueOptions, Flags
  <2>4. FieldsInv'
    BY <1>1, <2>2, <2>3 DEF FieldsInv
  <2>5. ArgumentsRead \in {1, 2}
    BY DEF ArgumentsRead
  <2> QED
    BY <1>1, <2>1, <2>4, <2>5, StorePreservesInv
<1> QED
  BY <1>2, <1>3 DEF LoopOption

\* The line is refused, or accepted after the checks at its end.
LEMMA EndPreservesInv ==
  ASSUME CliInv, BadValue \/ BadLoop \/ Unexpected \/ Finish
  PROVE  CliInv'
<1>1. UNCHANGED <<program, windows, argv, i, out>>
  BY DEF BadValue, BadLoop, Unexpected, Finish, Refused
<1>2. outcome' = "accepted" => Complete
  BY DEF BadValue, BadLoop, Unexpected, Finish, Refused, Complete, CliInv,
         FieldsInv
<1>3. Fields' = Fields /\ Complete' = Complete
  BY <1>1 DEF Fields, ValueOptions, Flags, Complete, ServerComplete,
              ClientComplete, Setting
<1> QED
  BY <1>1, <1>2, <1>3 DEF CliInv, FieldsInv

\* The limits of port, count, size, mss and --uro hold of every accepted line
\* (cli.hpp:122-239, common.hpp:30-67).
THEOREM LimitsAreKept == CliSpec => []LimitsKept
<1>1. CliInv /\ [CliNext]_cli_vars => CliInv'
  <2> SUFFICES ASSUME CliInv, [CliNext]_cli_vars PROVE CliInv'
    OBVIOUS
  <2>1. CASE UNCHANGED cli_vars
    BY <2>1 DEF cli_vars, CliInv, FieldsInv, Fields, ValueOptions, Flags,
       Complete, ServerComplete, ClientComplete, Setting
  <2>2. CASE CliNext
    BY <2>2, ValueOptionPreservesInv, FlagOptionPreservesInv,
       LoopOptionPreservesInv, EndPreservesInv DEF CliNext
  <2> QED
    BY <2>1, <2>2
<1>2. CliInv => LimitsKept
  <2> SUFFICES ASSUME CliInv, outcome = "accepted" PROVE LimitsKept
    BY DEF LimitsKept
  <2>1. FieldsInv /\ Complete
    BY DEF CliInv
  <2>2. out["--port"] # {} /\ out["--port"] \subseteq 1 .. kMaxPort
    <3>1. out["--port"] # {} /\ out["--port"] # {0}
      BY <2>1 DEF FieldsInv, Complete, ServerComplete, ClientComplete, Setting
    <3>2. 0 \notin out["--port"]
      <4>1. AtMostOne(out["--port"])
        BY <2>1 DEF FieldsInv
      <4>2. 0 \in out["--port"] => out["--port"] = {0}
        BY <4>1 DEF AtMostOne
      <4> QED
        BY <3>1, <4>2
    <3> QED
      BY <2>1, <3>1, <3>2 DEF FieldsInv
  <2>3. CASE program = "server"
    BY <2>1, <2>2, <2>3
       DEF LimitsKept, FieldsInv, Complete, ServerComplete
  <2>4. CASE program = "client"
    <3>1. /\ out["--dest"] # {} /\ out["--size"] # {}
          /\ \A mss \in Setting("--mss", kDefaultMss) :
               mss <= kUsoMaxSegmentSize
      BY <2>1, <2>4 DEF Complete, ClientComplete
    <3>2. \A mss \in out["--mss"] : mss <= kUsoMaxSegmentSize
      BY <3>1 DEF Setting
    <3>3. out["--mss"] \subseteq 0 .. kUsoMaxSegmentSize
      <4>1. out["--mss"] \subseteq 0 .. kMaxBatchSize
        BY <2>1, <2>4 DEF FieldsInv
      <4>2. kUsoMaxSegmentSize \in Nat /\ kMaxBatchSize \in Nat
        BY SMT DEF kUsoMaxSegmentSize, kMaxBatchSize
      <4> QED
        BY <3>2, <4>1, <4>2
    <3>4. /\ out["--size"] \subseteq kPacketHeaderSize .. kMaxBatchSize
          /\ 0 \notin out["--count"]
      BY <2>1, <2>4 DEF FieldsInv
    <3> QED
      BY <2>2, <2>4, <3>1, <3>3, <3>4 DEF LimitsKept
  <2> QED
    BY <2>1, <2>3, <2>4 DEF FieldsInv
<1> QED
  BY <1>1, <1>2, CliInitEstablishesInv, PTL DEF CliSpec

-----------------------------------------------------------------------------
(***************************************************************************)
(* The line read as a whole                                                *)
(***************************************************************************)

\* Which arguments are values is decided from left to right: the equation of
\* IsValue has a solution.
LEMMA IsValueEquation ==
  ASSUME argv \in Seq(Texts)
  PROVE  \A k \in DOMAIN argv :
           IsValue[k] = (k > 1 /\ ~IsValue[k - 1] /\ Wants(k - 1))
<1> DEFINE Rhs(f, k) == k > 1 /\ ~f[k - 1] /\ Wants(k - 1)
           Holds(n) == \E f : \A k \in DOMAIN argv : k <= n => f[k] = Rhs(f, k)
           Good == {n \in Nat : Holds(n)}
<1>1. Len(argv) \in Nat /\ DOMAIN argv = 1 .. Len(argv)
  BY LenProperties
<1>2. Holds(0)
  BY <1>1
<1>3. ASSUME NEW n \in Nat, Holds(n) PROVE Holds(n + 1)
  <2>1. PICK f : \A k \in DOMAIN argv : k <= n => f[k] = Rhs(f, k)
    BY <1>3
  <2> DEFINE g == [k \in DOMAIN argv |-> IF k <= n THEN f[k] ELSE Rhs(f, k)]
  <2>2. ASSUME NEW k \in DOMAIN argv, k <= n + 1 PROVE g[k] = Rhs(g, k)
    <3>1. g[k] = Rhs(f, k)
      BY <2>1
    <3>2. k > 1 => k - 1 \in DOMAIN argv /\ k - 1 <= n
      BY <1>1, <2>2
    <3>3. k > 1 => g[k - 1] = f[k - 1]
      BY <3>2
    <3> QED
      BY <3>1, <3>3
  <2> HIDE DEF g
  <2> QED
    BY <2>2
<1>4. Holds(Len(argv))
  <2> HIDE DEF Holds
  <2>1. Good \in SUBSET Nat /\ 0 \in Good /\ \A n \in Good : n + 1 \in Good
    BY <1>2, <1>3
  <2>2. Good = Nat
    <3> HIDE DEF Good
    <3> QED
      BY <2>1, NatSetInduction
  <2> QED
    BY <1>1, <2>2
<1>5. PICK f : \A k \in DOMAIN argv : f[k] = Rhs(f, k)
  BY <1>1, <1>4
<1> DEFINE g == [k \in DOMAIN argv |-> f[k]]
<1>6. g = [k \in DOMAIN argv |-> Rhs(g, k)]
  <2>1. ASSUME NEW k \in DOMAIN argv PROVE g[k] = Rhs(g, k)
    <3>1. k > 1 => k - 1 \in DOMAIN argv
      BY <1>1
    <3>2. k > 1 => g[k - 1] = f[k - 1]
      BY <3>1
    <3> QED
      BY <1>5, <3>2
  <2> QED
    BY <2>1
<1> HIDE DEF g
<1>7. IsValue = [k \in DOMAIN argv |-> Rhs(IsValue, k)]
  BY <1>6 DEF IsValue
<1> QED
  BY <1>7

\* The same line is read the same.
LEMMA SameLine ==
  ASSUME UNCHANGED <<program, argv>>
  PROVE  /\ IsValue' = IsValue
         /\ ValueOptions' = ValueOptions /\ Flags' = Flags /\ Fields' = Fields
         /\ \A key : Given(key)' = Given(key)
         /\ \A k : ValueAt(k)' = ValueAt(k)
<1>1. IsValue' = IsValue
  BY DEF IsValue, Wants, HasNext, ValueOptions, option_key, IsOption
<1>2. ValueOptions' = ValueOptions /\ Flags' = Flags /\ Fields' = Fields
  BY DEF ValueOptions, Flags, Fields
<1>3. \A key : Given(key)' = Given(key)
  BY <1>1 DEF Given, IsOption, option_key
<1>4. \A k : ValueAt(k)' = ValueAt(k)
  BY <1>1 DEF ValueAt
<1> QED
  BY <1>1, <1>2, <1>3, <1>4

\* The occurrences of an option before position n, and what they say.
GivenUntil(key, n) == {k \in Given(key) : k < n}

SaidUntil(field, n) ==
  UNION {Parsed(field, text) :
           text \in UNION {ValueAt(k) : k \in Latest(GivenUntil(field, n))}}

CountedLoops(n) == {k \in GivenUntil("--loop", n) : ValueAt(k) # {}}

LoopSaidUntil(n) ==
  UNION {parse_count(text) : text \in
    UNION {ValueAt(k) : k \in Latest(CountedLoops(n))}}

Toggles == Flags \cup (IF program = "server" THEN {"--loop"} ELSE {})

\* Nothing is wrong on the line before position n.
RightUntil(n) ==
  /\ \A k \in DOMAIN argv :
       k < n /\ ~IsValue[k] => IsOption(argv[k]) /\ option_key(argv[k]) \in Fields
  /\ \A key \in ValueOptions : \A k \in GivenUntil(key, n) :
       UNION {Parsed(key, text) : text \in ValueAt(k)} # {}
  /\ program = "server" => \A k \in GivenUntil("--loop", n) :
       /\ \A text \in ValueAt(k) : parse_count(text) # {}
       /\ \A m \in GivenUntil("--count", n) : ~(m < k)

\* fields is what the line says up to position n.
ValuesUntil(fields, n) ==
  /\ \A field \in ValueOptions :
       /\ fields[field] = SaidUntil(field, n)
       /\ fields[field] = {} => GivenUntil(field, n) = {}
  /\ \A field \in Toggles :
       fields[field] = IF GivenUntil(field, n) = {} THEN {} ELSE {TRUE}
  /\ program = "server" => fields["loopCount"] = LoopSaidUntil(n)

\* The parser stands at position n, where an option and no value is next.
ReadUntil(fields, n) ==
  /\ n \in 1 .. Len(argv) + 1
  /\ n \in DOMAIN argv => ~IsValue[n]
  /\ RightUntil(n)
  /\ ValuesUntil(fields, n)

\* The inductive invariant: the line is read up to i, and its outcome is what
\* stands on it.
LineInv ==
  /\ CliInv
  /\ ReadUntil(out, i)
  /\ outcome = "accepted" => i = Len(argv) + 1
  /\ outcome = "refused" => \/ BadLine
                            \/ i > Len(argv) /\ ~Complete

\* What was read and what is wrong is a matter of the line alone.
LEMMA ReadTheSame ==
  ASSUME UNCHANGED <<program, argv>>
  PROVE  /\ ReadUntil(out, i)' <=> ReadUntil(out', i')
         /\ BadLine' <=> BadLine
<1>1. /\ IsValue' = IsValue
      /\ ValueOptions' = ValueOptions /\ Flags' = Flags /\ Fields' = Fields
      /\ \A key : Given(key)' = Given(key)
      /\ \A k : ValueAt(k)' = ValueAt(k)
  BY SameLine
<1>2. RightUntil(i)' <=> RightUntil(i')
  BY <1>1 DEF RightUntil, GivenUntil, IsOption, option_key
<1>3. ValuesUntil(out, i)' <=> ValuesUntil(out', i')
  <2>1. \A key : GivenUntil(key, i)' = GivenUntil(key, i')
    BY <1>1 DEF GivenUntil
  <2>2. \A field : SaidUntil(field, i)' = SaidUntil(field, i')
    BY <1>1, <2>1 DEF SaidUntil
  <2>3. LoopSaidUntil(i)' = LoopSaidUntil(i')
    <3>1. CountedLoops(i)' = CountedLoops(i')
      BY <1>1, <2>1 DEF CountedLoops
    <3> QED
      BY <1>1, <3>1 DEF LoopSaidUntil
  <2>4. Toggles' = Toggles
    BY <1>1 DEF Toggles
  <2> QED
    BY <1>1, <2>1, <2>2, <2>3, <2>4 DEF ValuesUntil
<1>4. BadLine' <=> BadLine
  BY <1>1 DEF BadLine, BadArgument, LoopAndCount, IsOption, option_key
<1> QED
  BY <1>1, <1>2, <1>3, <1>4 DEF ReadUntil

\* A step that moves on keeps what was read when that holds of the line as it is.
LEMMA StoreKeepsLine ==
  ASSUME LineInv, Scans, CliInv', NEW fields, NEW steps \in {1, 2},
         Store(fields, steps), ReadUntil(fields, i + steps)
  PROVE  LineInv'
<1>1. /\ UNCHANGED <<program, argv>> /\ out' = fields /\ i' = i + steps
      /\ outcome' = "scanning"
  BY DEF Store, Scans
<1>2. ReadUntil(out', i')
  BY <1>1
<1> QED
  BY <1>1, <1>2, ReadTheSame DEF LineInv

\* The option at i is the only one that is read in a step, and the parser then
\* stands behind it and its argument.
LEMMA OneOptionRead ==
  ASSUME LineInv, Scans, IsOption(argv[i]), Key \in Fields,
         NEW n, \/ n = i + 1 /\ ~Wants(i)
                \/ n = i + 2 /\ Wants(i) /\ HasNext(i)
  PROVE  /\ n \in 1 .. Len(argv) + 1
         /\ n \in DOMAIN argv => ~IsValue[n]
         /\ i \in Given(Key) /\ i \in Nat
         /\ \A k \in DOMAIN argv : k < n /\ ~IsValue[k] => k < i \/ k = i
         /\ \A key : GivenUntil(key, n) =
                       GivenUntil(key, i) \cup (IF key = Key THEN {i} ELSE {})
<1>1. /\ argv \in Seq(Texts) /\ Len(argv) \in Nat /\ DOMAIN argv = 1 .. Len(argv)
      /\ i \in DOMAIN argv /\ i \in Nat /\ i + 1 \in Nat /\ ~IsValue[i]
  BY LenProperties DEF LineInv, CliInv, ReadUntil, Scans
<1>2. \A k \in DOMAIN argv :
        IsValue[k] = (k > 1 /\ ~IsValue[k - 1] /\ Wants(k - 1))
  BY <1>1, IsValueEquation
<1>3. i + 1 \in DOMAIN argv => IsValue[i + 1] = Wants(i)
  <2>1. i + 1 > 1 /\ (i + 1) - 1 = i
    BY <1>1
  <2>2. Wants(i) \in BOOLEAN
    BY DEF Wants, IsOption
  <2> QED
    BY <1>1, <1>2, <2>1, <2>2
<1>4. n = i + 2 => i + 1 \in DOMAIN argv /\ Wants(i)
  BY <1>1 DEF HasNext
<1>5. n \in 1 .. Len(argv) + 1 /\ n \in Nat
  BY <1>1, <1>4
<1>6. n \in DOMAIN argv => ~IsValue[n]
  <2>1. CASE n = i + 1
    BY <1>1, <1>3, <2>1
  <2>2. CASE n = i + 2
    <3>1. IsValue[i + 1]
      BY <1>3, <1>4, <2>2
    <3>2. (i + 2) - 1 = i + 1 /\ i + 2 > 1
      BY <1>1
    <3> QED
      BY <1>2, <2>2, <3>1, <3>2
  <2> QED
    BY <2>1, <2>2
<1>7. ASSUME NEW k \in DOMAIN argv, k < n, ~IsValue[k]
      PROVE  k < i \/ k = i
  <2>1. k \in Nat
    BY <1>1
  <2>2. k = i + 1 => n = i + 2
    BY <1>1, <1>5, <1>7
  <2>3. k # i + 1
    BY <1>3, <1>4, <1>7, <2>2
  <2> QED
    BY <1>1, <1>5, <1>7, <2>1, <2>3
<1>8. i \in Given(Key) /\ i < n
  BY <1>1 DEF Given, Key
<1>9. ASSUME NEW key
      PROVE  GivenUntil(key, n) =
               GivenUntil(key, i) \cup (IF key = Key THEN {i} ELSE {})
  <2>1. \A k \in Given(key) : k \in DOMAIN argv /\ ~IsValue[k] /\ k \in Nat
    BY <1>1 DEF Given
  <2>2. i \in Given(key) <=> key = Key
    BY <1>8 DEF Given, Key
  <2>3. \A k \in Given(key) : k < n <=> k < i \/ k = i
    BY <1>1, <1>7, <1>8, <2>1
  <2> QED
    BY <2>2, <2>3 DEF GivenUntil
<1> QED
  BY <1>1, <1>5, <1>6, <1>7, <1>8, <1>9

\* The last of some positions and a later one is the later one.
LEMMA LatestIsLast ==
  ASSUME NEW positions, NEW n \in Nat, \A k \in positions : k \in Nat /\ k < n
  PROVE  Latest(positions \cup {n}) = {n}
<1>1. \A k \in positions \cup {n} : k \in Nat /\ k <= n
  OBVIOUS
<1>2. \A k \in positions : ~(n <= k)
  OBVIOUS
<1> QED
  BY <1>1, <1>2 DEF Latest

\* What the parser takes for the value of the option at i is what the line as a
\* whole has for it.
LEMMA ValueHere ==
  ASSUME LineInv, Scans, IsOption(argv[i])
  PROVE  /\ Key \in ValueOptions => ValueAt(i) = option_value
         /\ program = "server" /\ Key = "--loop" => ValueAt(i) = LoopValue
         /\ Key \in Flags => ~Wants(i)
         /\ Key \in ValueOptions /\ option_value # {} =>
              \/ ArgumentsRead = 1 /\ ~Wants(i)
              \/ ArgumentsRead = 2 /\ Wants(i) /\ HasNext(i)
         /\ program = "server" /\ Key = "--loop" /\ LoopValue = {} => ~Wants(i)
         /\ program = "server" /\ Key = "--loop" /\ LoopValue # {} =>
              \/ ArgumentsRead = 1 /\ ~Wants(i)
              \/ ArgumentsRead = 2 /\ Wants(i) /\ HasNext(i)
         /\ \A v, w \in option_value : v = w
         /\ \A v, w \in LoopValue : v = w
<1>1. /\ argv \in Seq(Texts) /\ Len(argv) \in Nat /\ DOMAIN argv = 1 .. Len(argv)
      /\ i \in DOMAIN argv /\ i \in Nat /\ ~IsValue[i]
      /\ argv[i] \in Texts
  BY LenProperties, ValueIsText DEF LineInv, CliInv, ReadUntil, Scans
<1>2. i + 1 \in DOMAIN argv => IsValue[i + 1] = Wants(i)
  <2>1. i + 1 > 1 /\ (i + 1) - 1 = i
    BY <1>1
  <2>2. Wants(i) \in BOOLEAN
    BY DEF Wants, IsOption
  <2> QED
    BY <1>1, <2>1, <2>2, IsValueEquation
<1>3. {argv[n] : n \in {m \in {i + 1} \cap DOMAIN argv : IsValue[m]}} =
        IF i + 1 \in DOMAIN argv /\ Wants(i) THEN {argv[i + 1]} ELSE {}
  BY <1>2
<1>4. \A v, w \in Lexicon[argv[i]].value : v = w
  <2>1. ASSUME NEW t \in Texts PROVE \A v, w \in Lexicon[t].value : v = w
    BY CliAssumption
  <2> QED
    BY <1>1, <2>1
<1>5. CASE Lexicon[argv[i]].value # {}
  BY <1>3, <1>4, <1>5 DEF ValueAt, option_value, LoopValue, Wants, ArgumentsRead
<1>6. CASE Lexicon[argv[i]].value = {}
  <2>1. option_value = IF i + 1 \in DOMAIN argv THEN {argv[i + 1]} ELSE {}
    BY <1>6 DEF option_value
  <2>2. LoopValue = IF i + 1 \in DOMAIN argv /\ Lexicon[argv[i + 1]].first = "digit"
                    THEN {argv[i + 1]} ELSE {}
    BY <1>6 DEF LoopValue
  <2>3. ValueAt(i) = IF i + 1 \in DOMAIN argv /\ Wants(i) THEN {argv[i + 1]} ELSE {}
    BY <1>3, <1>6 DEF ValueAt
  <2>4. Key \in ValueOptions => Wants(i)
    BY <1>6 DEF Wants, Key
  <2>5. /\ Key \in Flags => ~Wants(i)
        /\ program = "server" /\ Key = "--loop" =>
             (Wants(i) <=> i + 1 \in DOMAIN argv /\ Lexicon[argv[i + 1]].first = "digit")
    BY <1>6 DEF Wants, Key, Flags, ValueOptions, HasNext
  <2>6. ArgumentsRead = 2 /\ (HasNext(i) <=> i + 1 \in DOMAIN argv)
    BY <1>6 DEF ArgumentsRead, HasNext
  <2> QED
    BY <2>1, <2>2, <2>3, <2>4, <2>5, <2>6
<1> QED
  BY <1>5, <1>6

\* Nothing is wrong up to n when nothing is wrong with the option at i.
LEMMA RightReadsOn ==
  ASSUME LineInv, Scans, IsOption(argv[i]), Key \in Fields,
         NEW n, \/ n = i + 1 /\ ~Wants(i)
                \/ n = i + 2 /\ Wants(i) /\ HasNext(i),
         Key \in ValueOptions =>
           UNION {Parsed(Key, text) : text \in ValueAt(i)} # {},
         program = "server" /\ Key = "--loop" =>
           /\ \A text \in ValueAt(i) : parse_count(text) # {}
           /\ GivenUntil("--count", i) = {}
  PROVE  RightUntil(n)
<1>1. RightUntil(i)
  BY DEF LineInv, ReadUntil
<1>2. /\ i \in Given(Key) /\ i \in Nat
      /\ \A k \in DOMAIN argv : k < n /\ ~IsValue[k] => k < i \/ k = i
      /\ \A key : GivenUntil(key, n) =
                    GivenUntil(key, i) \cup (IF key = Key THEN {i} ELSE {})
  BY OneOptionRead
<1>3. \A k \in DOMAIN argv :
        k < n /\ ~IsValue[k] => IsOption(argv[k]) /\ option_key(argv[k]) \in Fields
  BY <1>1, <1>2 DEF RightUntil, Key
<1>4. \A key \in ValueOptions : \A k \in GivenUntil(key, n) :
        UNION {Parsed(key, text) : text \in ValueAt(k)} # {}
  <2> SUFFICES ASSUME NEW key \in ValueOptions, NEW k \in GivenUntil(key, n)
               PROVE  UNION {Parsed(key, text) : text \in ValueAt(k)} # {}
    OBVIOUS
  <2>1. CASE k \in GivenUntil(key, i)
    BY <1>1, <2>1 DEF RightUntil
  <2>2. CASE k = i /\ key = Key
    BY <2>2
  <2> QED
    BY <1>2, <2>1, <2>2
<1>5. ASSUME program = "server", NEW k \in GivenUntil("--loop", n)
      PROVE  /\ \A text \in ValueAt(k) : parse_count(text) # {}
             /\ \A m \in GivenUntil("--count", n) : ~(m < k)
  <2>1. CASE k \in GivenUntil("--loop", i)
    <3>1. /\ \A text \in ValueAt(k) : parse_count(text) # {}
          /\ \A m \in GivenUntil("--count", i) : ~(m < k)
      BY <1>1, <1>5, <2>1 DEF RightUntil
    <3>2. k \in Nat /\ k < i
      BY <2>1, LenProperties DEF GivenUntil, Given, LineInv, CliInv
    <3>3. ~(i < k)
      BY <1>2, <3>2
    <3> QED
      BY <1>2, <3>1, <3>3
  <2>2. CASE k = i /\ Key = "--loop"
    <3>1. GivenUntil("--count", n) = {}
      BY <1>2, <1>5, <2>2
    <3> QED
      BY <1>5, <2>2, <3>1
  <2> QED
    BY <1>2, <1>5, <2>1, <2>2
<1> QED
  BY <1>3, <1>4, <1>5 DEF RightUntil

\* The occurrences of an option on the line, and what comes of the others.
LEMMA OthersSayTheSame ==
  ASSUME LineInv, Scans, IsOption(argv[i]), Key \in Fields,
         NEW n, \/ n = i + 1 /\ ~Wants(i)
                \/ n = i + 2 /\ Wants(i) /\ HasNext(i)
  PROVE  /\ \A field : field # Key =>
              /\ GivenUntil(field, n) = GivenUntil(field, i)
              /\ SaidUntil(field, n) = SaidUntil(field, i)
         /\ GivenUntil(Key, n) # {}
         /\ Latest(GivenUntil(Key, n)) = {i}
         /\ Key # "--loop" \/ ValueAt(i) = {} =>
              LoopSaidUntil(n) = LoopSaidUntil(i)
         /\ Key = "--loop" /\ ValueAt(i) # {} => Latest(CountedLoops(n)) = {i}
<1>1. /\ i \in Given(Key) /\ i \in Nat
      /\ \A key : GivenUntil(key, n) =
                    GivenUntil(key, i) \cup (IF key = Key THEN {i} ELSE {})
  BY OneOptionRead
<1>2. \A key : \A k \in GivenUntil(key, i) : k \in Nat /\ k < i
  BY LenProperties DEF GivenUntil, Given, LineInv, CliInv
<1>3. ASSUME NEW field, field # Key
      PROVE  /\ GivenUntil(field, n) = GivenUntil(field, i)
             /\ SaidUntil(field, n) = SaidUntil(field, i)
  BY <1>1, <1>3 DEF SaidUntil
<1>4. GivenUntil(Key, n) # {} /\ Latest(GivenUntil(Key, n)) = {i}
  <2>1. GivenUntil(Key, n) = GivenUntil(Key, i) \cup {i}
    BY <1>1
  <2>2. Latest(GivenUntil(Key, i) \cup {i}) = {i}
    BY <1>1, <1>2, LatestIsLast
  <2> QED
    BY <2>1, <2>2
<1>5. ASSUME Key # "--loop" \/ ValueAt(i) = {}
      PROVE  LoopSaidUntil(n) = LoopSaidUntil(i)
  <2>1. CountedLoops(n) = CountedLoops(i)
    BY <1>1, <1>5 DEF CountedLoops
  <2> QED
    BY <2>1 DEF LoopSaidUntil
<1>6. ASSUME Key = "--loop", ValueAt(i) # {}
      PROVE  Latest(CountedLoops(n)) = {i}
  <2>1. CountedLoops(n) = CountedLoops(i) \cup {i}
    BY <1>1, <1>6 DEF CountedLoops
  <2>2. \A k \in CountedLoops(i) : k \in Nat /\ k < i
    BY <1>2 DEF CountedLoops
  <2> QED
    BY <1>1, <2>1, <2>2, LatestIsLast
<1> QED
  BY <1>3, <1>4, <1>5, <1>6

\* An option with a value: the field takes what its last occurrence says.
LEMMA ValueOptionKeepsLine ==
  ASSUME LineInv, ValueOption
  PROVE  LineInv'
<1>1. PICK text \in option_value :
        /\ Parsed(Key, text) # {}
        /\ Store([out EXCEPT ![Key] = Parsed(Key, text)], ArgumentsRead)
  BY DEF ValueOption
<1> DEFINE n == i + ArgumentsRead
           fields == [out EXCEPT ![Key] = Parsed(Key, text)]
<1>2. Scans /\ IsOption(argv[i]) /\ Key \in ValueOptions /\ Key \in Fields
  BY DEF ValueOption, Fields
<1>3. ValueAt(i) = {text}
  BY <1>1, <1>2, ValueHere
<1>4. /\ ArgumentsRead \in {1, 2}
      /\ \/ n = i + 1 /\ ~Wants(i)
         \/ n = i + 2 /\ Wants(i) /\ HasNext(i)
  BY <1>1, <1>2, ValueHere
<1>5. /\ program \in {"server", "client"} /\ DOMAIN out = Fields
      /\ ValuesUntil(out, i)
  BY DEF LineInv, CliInv, FieldsInv, ReadUntil
<1>6. /\ \A field \in Fields : field # Key => fields[field] = out[field]
      /\ fields[Key] = Parsed(Key, text)
  BY <1>2, <1>5
<1> HIDE DEF n, fields
<1>7. Key \notin Toggles /\ Key \notin {"--loop", "loopCount"}
  BY <1>2, <1>5 DEF ValueOptions, Toggles, Flags
<1>8. RightUntil(n)
  BY <1>1, <1>2, <1>3, <1>4, <1>7, RightReadsOn
<1>9. /\ \A field : field # Key =>
           /\ GivenUntil(field, n) = GivenUntil(field, i)
           /\ SaidUntil(field, n) = SaidUntil(field, i)
      /\ Latest(GivenUntil(Key, n)) = {i}
      /\ LoopSaidUntil(n) = LoopSaidUntil(i)
  BY <1>2, <1>4, <1>7, OthersSayTheSame
<1>10. SaidUntil(Key, n) = Parsed(Key, text)
  BY <1>3, <1>9 DEF SaidUntil
<1>11. ValuesUntil(fields, n)
  <2>1. ValueOptions \subseteq Fields /\ Toggles \subseteq Fields
    BY DEF Fields, Toggles
  <2>2. \A field \in ValueOptions :
          /\ fields[field] = SaidUntil(field, n)
          /\ fields[field] = {} => GivenUntil(field, n) = {}
    BY <1>1, <1>5, <1>6, <1>9, <1>10, <2>1 DEF ValuesUntil
  <2>3. \A field \in Toggles :
          fields[field] = IF GivenUntil(field, n) = {} THEN {} ELSE {TRUE}
    BY <1>5, <1>6, <1>7, <1>9, <2>1 DEF ValuesUntil
  <2>4. program = "server" => fields["loopCount"] = LoopSaidUntil(n)
    BY <1>5, <1>6, <1>7, <1>9 DEF ValuesUntil, Fields
  <2> QED
    BY <2>2, <2>3, <2>4 DEF ValuesUntil
<1>12. ReadUntil(fields, n)
  BY <1>2, <1>4, <1>8, <1>11, OneOptionRead DEF ReadUntil
<1>13. CliInv'
  BY ValueOptionPreservesInv DEF LineInv
<1> QED
  BY <1>1, <1>2, <1>4, <1>12, <1>13, StoreKeepsLine DEF n, fields

\* A flag: it is set by any of its occurrences.
LEMMA FlagOptionKeepsLine ==
  ASSUME LineInv, FlagOption
  PROVE  LineInv'
<1> DEFINE n == i + 1
           fields == [out EXCEPT ![Key] = {TRUE}]
<1>1. /\ Scans /\ IsOption(argv[i]) /\ Key \in Flags /\ Key \in Fields
      /\ Store(fields, 1)
  BY DEF FlagOption, Fields
<1>2. n = i + 1 /\ ~Wants(i)
  BY <1>1, ValueHere
<1>3. /\ program \in {"server", "client"} /\ DOMAIN out = Fields
      /\ ValuesUntil(out, i)
  BY DEF LineInv, CliInv, FieldsInv, ReadUntil
<1>4. /\ \A field \in Fields : field # Key => fields[field] = out[field]
      /\ fields[Key] = {TRUE}
  BY <1>1, <1>3
<1> HIDE DEF n, fields
<1>5. Key \notin ValueOptions /\ Key \notin {"--loop", "loopCount"}
  BY <1>1, <1>3 DEF ValueOptions, Flags
<1>6. RightUntil(n)
  BY <1>1, <1>2, <1>5, RightReadsOn
<1>7. /\ \A field : field # Key =>
           /\ GivenUntil(field, n) = GivenUntil(field, i)
           /\ SaidUntil(field, n) = SaidUntil(field, i)
      /\ GivenUntil(Key, n) # {}
      /\ LoopSaidUntil(n) = LoopSaidUntil(i)
  BY <1>1, <1>2, <1>5, OthersSayTheSame
<1>8. ValuesUntil(fields, n)
  <2>1. ValueOptions \subseteq Fields /\ Toggles \subseteq Fields
    BY DEF Fields, Toggles
  <2>2. \A field \in ValueOptions :
          /\ fields[field] = SaidUntil(field, n)
          /\ fields[field] = {} => GivenUntil(field, n) = {}
    BY <1>3, <1>4, <1>5, <1>7, <2>1 DEF ValuesUntil
  <2>3. \A field \in Toggles :
          fields[field] = IF GivenUntil(field, n) = {} THEN {} ELSE {TRUE}
    BY <1>3, <1>4, <1>7, <2>1 DEF ValuesUntil
  <2>4. program = "server" => fields["loopCount"] = LoopSaidUntil(n)
    BY <1>3, <1>4, <1>5, <1>7 DEF ValuesUntil, Fields
  <2> QED
    BY <2>2, <2>3, <2>4 DEF ValuesUntil
<1>9. ReadUntil(fields, n)
  BY <1>1, <1>2, <1>6, <1>8, OneOptionRead DEF ReadUntil
<1>10. CliInv'
  BY FlagOptionPreservesInv DEF LineInv
<1> QED
  BY <1>1, <1>9, <1>10, StoreKeepsLine DEF n

\* --loop: it is set by any of its occurrences, its count by the last that has
\* one, and no --count came before.
LEMMA LoopOptionKeepsLine ==
  ASSUME LineInv, LoopOption
  PROVE  LineInv'
<1>1. /\ Scans /\ IsOption(argv[i]) /\ program = "server" /\ Key = "--loop"
      /\ out["--count"] = {}
  BY DEF LoopOption, LoopsHere
<1>2. DOMAIN out = Fields /\ ValuesUntil(out, i)
  BY DEF LineInv, CliInv, FieldsInv, ReadUntil
<1>3. /\ Key \in Fields /\ Key \in Toggles /\ Key \notin ValueOptions
      /\ "loopCount" \notin ValueOptions /\ "loopCount" \notin Toggles
      /\ "--count" \in ValueOptions /\ "loopCount" \in Fields
      /\ ValueOptions \subseteq Fields /\ Toggles \subseteq Fields
  BY <1>1 DEF Fields, ValueOptions, Flags, Toggles
<1>4. GivenUntil("--count", i) = {}
  BY <1>1, <1>2, <1>3 DEF ValuesUntil
<1>5. ValueAt(i) = LoopValue
  BY <1>1, ValueHere
<1>6. CliInv'
  BY LoopOptionPreservesInv DEF LineInv
<1>7. ASSUME NEW n, NEW fields,
             \/ n = i + 1 /\ ~Wants(i)
             \/ n = i + 2 /\ Wants(i) /\ HasNext(i),
             \A text \in LoopValue : parse_count(text) # {},
             \A field \in Fields \ {"--loop", "loopCount"} :
               fields[field] = out[field],
             fields["--loop"] = {TRUE},
             fields["loopCount"] = LoopSaidUntil(n)
      PROVE  ReadUntil(fields, n)
  <2>1. RightUntil(n)
    BY <1>1, <1>3, <1>4, <1>5, <1>7, RightReadsOn
  <2>2. /\ \A field : field # Key =>
             /\ GivenUntil(field, n) = GivenUntil(field, i)
             /\ SaidUntil(field, n) = SaidUntil(field, i)
        /\ GivenUntil(Key, n) # {}
    BY <1>1, <1>3, <1>7, OthersSayTheSame
  <2>3. \A field \in ValueOptions :
          /\ fields[field] = SaidUntil(field, n)
          /\ fields[field] = {} => GivenUntil(field, n) = {}
    BY <1>1, <1>2, <1>3, <1>7, <2>2 DEF ValuesUntil
  <2>4. \A field \in Toggles :
          fields[field] = IF GivenUntil(field, n) = {} THEN {} ELSE {TRUE}
    BY <1>1, <1>2, <1>3, <1>7, <2>2 DEF ValuesUntil
  <2>5. ValuesUntil(fields, n)
    BY <1>7, <2>3, <2>4 DEF ValuesUntil
  <2> QED
    BY <1>1, <1>3, <1>7, <2>1, <2>5, OneOptionRead DEF ReadUntil
<1>8. CASE LoopValue = {} /\ Store([out EXCEPT !["--loop"] = {TRUE}], 1)
  <2> DEFINE fields == [out EXCEPT !["--loop"] = {TRUE}]
  <2>1. ~Wants(i)
    BY <1>1, <1>8, ValueHere
  <2>2. LoopSaidUntil(i + 1) = LoopSaidUntil(i)
    BY <1>1, <1>3, <1>5, <1>8, <2>1, OthersSayTheSame
  <2>3. /\ \A field \in Fields \ {"--loop", "loopCount"} :
             fields[field] = out[field]
        /\ fields["--loop"] = {TRUE}
        /\ fields["loopCount"] = LoopSaidUntil(i + 1)
    BY <1>1, <1>2, <1>3, <2>2 DEF ValuesUntil
  <2> HIDE DEF fields
  <2>4. ReadUntil(fields, i + 1)
    BY <1>7, <1>8, <2>1, <2>3
  <2> QED
    BY <1>1, <1>6, <1>8, <2>4, StoreKeepsLine DEF fields
<1>9. CASE \E text \in LoopValue :
             /\ parse_count(text) # {}
             /\ Store([out EXCEPT !["--loop"] = {TRUE},
                                  !["loopCount"] = parse_count(text)],
                      ArgumentsRead)
  <2>1. PICK text \in LoopValue :
          /\ parse_count(text) # {}
          /\ Store([out EXCEPT !["--loop"] = {TRUE},
                               !["loopCount"] = parse_count(text)],
                   ArgumentsRead)
    BY <1>9
  <2> DEFINE fields == [out EXCEPT !["--loop"] = {TRUE},
                                   !["loopCount"] = parse_count(text)]
             n == i + ArgumentsRead
  <2>2. /\ ArgumentsRead \in {1, 2}
        /\ \/ n = i + 1 /\ ~Wants(i)
           \/ n = i + 2 /\ Wants(i) /\ HasNext(i)
    BY <1>1, <2>1, ValueHere
  <2>3. LoopValue = {text}
    BY <1>1, <2>1, ValueHere
  <2>4. /\ \A field \in Fields \ {"--loop", "loopCount"} :
             fields[field] = out[field]
        /\ fields["--loop"] = {TRUE}
        /\ fields["loopCount"] = parse_count(text)
    BY <1>1, <1>2, <1>3
  <2> HIDE DEF fields, n
  <2>5. LoopSaidUntil(n) = parse_count(text)
    <3>1. Latest(CountedLoops(n)) = {i}
      BY <1>1, <1>3, <1>5, <2>2, <2>3, OthersSayTheSame
    <3> QED
      BY <1>5, <2>3, <3>1 DEF LoopSaidUntil
  <2>6. ReadUntil(fields, n)
    BY <1>7, <2>1, <2>2, <2>3, <2>4, <2>5
  <2> QED
    BY <1>1, <1>6, <2>1, <2>2, <2>6, StoreKeepsLine DEF fields, n
<1> QED
  BY <1>8, <1>9 DEF LoopOption

\* The line is refused where something is wrong on it, or at its end.
LEMMA EndKeepsLine ==
  ASSUME LineInv, BadValue \/ BadLoop \/ Unexpected \/ Finish
  PROVE  LineInv'
<1>1. UNCHANGED <<program, windows, argv, out, i>>
  BY DEF BadValue, BadLoop, Unexpected, Finish, Refused
<1>2. CliInv'
  BY EndPreservesInv DEF LineInv
<1>3. ReadUntil(out, i) /\ program \in {"server", "client"}
  BY DEF LineInv, CliInv, FieldsInv
<1>4. ReadUntil(out, i)' /\ (BadLine => BadLine')
  BY <1>1, <1>3, ReadTheSame
<1>5. Complete' = Complete
  BY <1>1 DEF Complete, ServerComplete, ClientComplete, Setting
<1>6. ASSUME Scans
      PROVE  /\ i \in DOMAIN argv /\ ~IsValue[i]
             /\ IsOption(argv[i]) => i \in Given(Key)
  <2>1. i \in DOMAIN argv
    BY <1>6, LenProperties DEF LineInv, CliInv, Scans
  <2> QED
    BY <1>3, <2>1 DEF ReadUntil, Given, Key
<1>7. ASSUME BadLine, outcome' = "refused" PROVE LineInv'
  <2>1. BadLine'
    BY <1>4, <1>7, Zenon
  <2>2. outcome' # "accepted"
    BY <1>7
  <2> QED
    BY <1>2, <1>4, <2>1, <2>2 DEF LineInv
<1>8. CASE BadValue
  <2>1. /\ Scans /\ IsOption(argv[i]) /\ Key \in ValueOptions
        /\ \A text \in option_value : Parsed(Key, text) = {}
        /\ outcome' = "refused"
    BY <1>8 DEF BadValue, Refused
  <2>2. ValueAt(i) = option_value /\ i \in Given(Key)
    BY <1>6, <2>1, ValueHere
  <2>3. UNION {Parsed(Key, text) : text \in ValueAt(i)} = {}
    BY <2>1, <2>2
  <2>4. BadLine
    BY <2>1, <2>2, <2>3 DEF BadLine, BadArgument
  <2> QED
    BY <1>7, <2>1, <2>4
<1>9. CASE BadLoop
  <2>1. /\ Scans /\ IsOption(argv[i]) /\ program = "server" /\ Key = "--loop"
        /\ \/ out["--count"] # {}
           \/ \E text \in LoopValue : parse_count(text) = {}
        /\ outcome' = "refused"
    BY <1>9 DEF BadLoop, LoopsHere, Refused
  <2>2. ValueAt(i) = LoopValue /\ i \in Given("--loop")
    BY <1>6, <2>1, ValueHere
  <2>3. ASSUME out["--count"] # {}
        PROVE  Given("--count") # {}
    <3>1. "--count" \in ValueOptions /\ ValuesUntil(out, i)
      BY <1>3, <2>1 DEF ValueOptions, ReadUntil
    <3>2. SaidUntil("--count", i) # {}
      BY <2>3, <3>1 DEF ValuesUntil
    <3>3. GivenUntil("--count", i) # {}
      BY <3>2 DEF SaidUntil, Latest
    <3> QED
      BY <3>3 DEF GivenUntil
  <2>4. BadLine
    BY <2>1, <2>2, <2>3 DEF BadLine, BadArgument, LoopAndCount
  <2> QED
    BY <1>7, <2>1, <2>4
<1>10. CASE Unexpected
  <2>1. /\ Scans
        /\ IsOption(argv[i]) => Key \notin Fields
        /\ outcome' = "refused"
    BY <1>10 DEF Unexpected, Refused
  <2>2. /\ i \in DOMAIN argv /\ ~IsValue[i]
        /\ ~IsOption(argv[i]) \/ option_key(argv[i]) \notin Fields
    <3>1. i \in DOMAIN argv /\ ~IsValue[i]
      BY <1>6, <2>1
    <3>2. ~IsOption(argv[i]) \/ option_key(argv[i]) \notin Fields
      BY <2>1 DEF Key
    <3> QED
      BY <3>1, <3>2, Zenon
  <2>3. BadLine
    BY <2>2, Zenon DEF BadLine, BadArgument
  <2> QED
    BY <1>7, <2>1, <2>3
<1>11. CASE Finish
  <2>1. /\ i > Len(argv)
        /\ outcome' \in {"accepted", "refused"}
        /\ outcome' = "refused" => ~Complete
    BY <1>3, <1>11 DEF Finish, Complete
  <2>2. i = Len(argv) + 1
    BY <1>3, <2>1, LenProperties DEF ReadUntil, LineInv, CliInv
  <2> QED
    BY <1>1, <1>2, <1>4, <1>5, <2>1, <2>2 DEF LineInv
<1> QED
  BY <1>8, <1>9, <1>10, <1>11

\* Before the first argument, no option says anything.
LEMMA CliInitEstablishesLine == CliInit => LineInv
<1> SUFFICES ASSUME CliInit PROVE LineInv
  OBVIOUS
<1>1. CliInv
  BY CliInitEstablishesInv
<1>2. /\ program \in {"server", "client"} /\ i = 1
      /\ out = [field \in Fields |-> {}]
      /\ outcome \notin {"accepted", "refused"}
  BY DEF CliInit
<1>3. argv \in Seq(Texts) /\ Len(argv) \in Nat /\ DOMAIN argv = 1 .. Len(argv)
  BY <1>1, LenProperties DEF CliInv
<1>4. 1 \in DOMAIN argv => ~IsValue[1]
  <2>1. 1 \in DOMAIN argv =>
          IsValue[1] = (1 > 1 /\ ~IsValue[1 - 1] /\ Wants(1 - 1))
    BY <1>3, IsValueEquation
  <2>2. ~(1 > 1)
    OBVIOUS
  <2> QED
    BY <2>1, <2>2
<1>5. \A key : GivenUntil(key, 1) = {}
  BY <1>3 DEF GivenUntil, Given
<1>6. /\ \A field : SaidUntil(field, 1) = {}
      /\ LoopSaidUntil(1) = {}
  BY <1>5 DEF SaidUntil, LoopSaidUntil, CountedLoops, Latest
<1>7. RightUntil(1)
  BY <1>3, <1>5 DEF RightUntil
<1>8. ValuesUntil(out, 1)
  <2>1. /\ ValueOptions \subseteq Fields /\ Toggles \subseteq Fields
        /\ program = "server" => "loopCount" \in Fields
    BY DEF Fields, Toggles
  <2>2. \A field \in Fields : out[field] = {}
    BY <1>2
  <2> QED
    BY <1>5, <1>6, <2>1, <2>2 DEF ValuesUntil
<1> QED
  BY <1>1, <1>2, <1>3, <1>4, <1>7, <1>8 DEF LineInv, ReadUntil

LEMMA LineIsRead == CliSpec => []LineInv
<1>1. LineInv /\ [CliNext]_cli_vars => LineInv'
  <2> SUFFICES ASSUME LineInv, [CliNext]_cli_vars PROVE LineInv'
    OBVIOUS
  <2>1. CASE UNCHANGED cli_vars
    <3>1. UNCHANGED <<program, windows, argv, i, out, outcome>>
      BY <2>1 DEF cli_vars
    <3>2. CliInv'
      BY <3>1 DEF LineInv, CliInv, FieldsInv, Fields, ValueOptions, Flags,
         Complete, ServerComplete, ClientComplete, Setting
    <3>3. Complete' = Complete
      BY <3>1 DEF Complete, ServerComplete, ClientComplete, Setting
    <3> QED
      BY <3>1, <3>2, <3>3, ReadTheSame DEF LineInv
  <2>2. CASE CliNext
    BY <2>2, ValueOptionKeepsLine, FlagOptionKeepsLine, LoopOptionKeepsLine,
       EndKeepsLine DEF CliNext
  <2> QED
    BY <2>1, <2>2
<1> QED
  BY <1>1, CliInitEstablishesLine, PTL DEF CliSpec

\* At the end of the line every occurrence of an option was read.
LEMMA AllRead ==
  ASSUME LineInv, outcome = "accepted"
  PROVE  /\ \A k \in DOMAIN argv : k < i
         /\ \A key : GivenUntil(key, i) = Given(key)
<1>1. /\ argv \in Seq(Texts) /\ Len(argv) \in Nat /\ DOMAIN argv = 1 .. Len(argv)
      /\ i = Len(argv) + 1
  BY LenProperties DEF LineInv, CliInv
<1>2. \A k \in DOMAIN argv : k < i
  BY <1>1
<1> QED
  BY <1>2 DEF GivenUntil, Given

\* A line is refused only for something wrong on it or missing from it, and
\* --loop before --count is all that escapes (cli.hpp:122-239).
THEOREM RefusedHasCause == CliSpec => []RefusedForCause
<1>1. LineInv => RefusedForCause
  <2> SUFFICES ASSUME LineInv PROVE RefusedForCause
    OBVIOUS
  <2>1. ASSUME outcome = "accepted"
        PROVE  ~BadArgument /\ (LoopAndCount => LoopsFirst)
    <3>1. /\ \A k \in DOMAIN argv : k < i
          /\ \A key : GivenUntil(key, i) = Given(key)
      BY <2>1, AllRead
    <3>2. RightUntil(i)
      BY DEF LineInv, ReadUntil
    <3>3. \A k \in DOMAIN argv :
            ~IsValue[k] => IsOption(argv[k]) /\ option_key(argv[k]) \in Fields
      BY <3>1, <3>2 DEF RightUntil
    <3>4. \A key \in ValueOptions : \A k \in Given(key) :
            UNION {Parsed(key, text) : text \in ValueAt(k)} # {}
      BY <3>1, <3>2 DEF RightUntil
    <3>5. program = "server" => \A k \in Given("--loop") :
            /\ \A text \in ValueAt(k) : parse_count(text) # {}
            /\ \A m \in Given("--count") : ~(m < k)
      BY <3>1, <3>2 DEF RightUntil
    <3>6. ~BadArgument
      BY <3>3, <3>4, <3>5 DEF BadArgument
    <3>7. ASSUME LoopAndCount, NEW k \in Given("--loop"), NEW n \in Given("--count")
          PROVE  k < n
      <4>1. ~(n < k)
        BY <3>5, <3>7 DEF LoopAndCount
      <4>2. k \in Nat /\ n \in Nat
        BY LenProperties DEF Given, LineInv, CliInv
      <4>3. k # n
        BY DEF Given
      <4> QED
        BY <4>1, <4>2, <4>3
    <3> QED
      BY <3>6, <3>7 DEF LoopsFirst
  <2>2. outcome = "refused" => \/ BadLine
                               \/ i > Len(argv) /\ ~Complete
    BY DEF LineInv
  <2> QED
    BY <2>1, <2>2 DEF RefusedForCause, Complete
<1> QED
  BY <1>1, LineIsRead, PTL

\* Every option has the value of its last occurrence on the line, and an
\* argument read as a value is no option (cli.hpp:43-63, 131-168, 190-219).
THEOREM OptionsAreAsGiven == CliSpec => []OptionsAsGiven
<1>1. LineInv => OptionsAsGiven
  <2> SUFFICES ASSUME LineInv, outcome = "accepted", NEW field \in Fields
               PROVE  out[field] = Said(field)
    BY DEF OptionsAsGiven
  <2>1. \A key : GivenUntil(key, i) = Given(key)
    BY AllRead
  <2>2. ValuesUntil(out, i) /\ program \in {"server", "client"}
    BY DEF LineInv, CliInv, FieldsInv, ReadUntil
  <2>3. CASE field \in ValueOptions
    <3>1. out[field] = SaidUntil(field, i)
      BY <2>2, <2>3 DEF ValuesUntil
    <3>2. Said(field) = UNION {Parsed(field, text) :
            text \in UNION {ValueAt(k) : k \in Latest(Given(field))}}
      BY <2>2, <2>3 DEF Said, ValueOptions, Flags
    <3> QED
      BY <2>1, <3>1, <3>2 DEF SaidUntil
  <2>4. CASE field \in Toggles
    <3>1. out[field] = IF Given(field) = {} THEN {} ELSE {TRUE}
      BY <2>1, <2>2, <2>4 DEF ValuesUntil
    <3>2. field \notin ValueOptions /\ field # "loopCount"
      BY <2>2, <2>4 DEF ValueOptions, Flags, Toggles
    <3>3. field \in Flags \cup {"--loop"}
      BY <2>4 DEF Toggles
    <3> QED
      BY <3>1, <3>2, <3>3 DEF Said
  <2>5. CASE program = "server" /\ field = "loopCount"
    <3>1. out[field] = LoopSaidUntil(i)
      BY <2>2, <2>5 DEF ValuesUntil
    <3>2. field \notin ValueOptions /\ field \notin Flags \cup {"--loop"}
      BY <2>5 DEF ValueOptions, Flags
    <3>3. Said(field) = UNION {parse_count(text) :
            text \in UNION {ValueAt(k) :
              k \in Latest({n \in Given("--loop") : ValueAt(n) # {}})}}
      BY <2>5, <3>2 DEF Said
    <3> QED
      BY <2>1, <3>1, <3>3 DEF LoopSaidUntil, CountedLoops
  <2> QED
    BY <2>3, <2>4, <2>5 DEF Fields, Toggles
<1> QED
  BY <1>1, LineIsRead, PTL

=============================================================================
