--------------------------------- MODULE Cli ---------------------------------
(***************************************************************************)
(* The command line of both programs: parse_server_options and             *)
(* parse_client_options of cli.hpp, one step per option.                   *)
(*                                                                         *)
(* A text is what it means to the parser: its first character, what        *)
(* stands before and after its '=', and the number std::stoull reads at    *)
(* its start.                                                              *)
(***************************************************************************)
EXTENDS Integers, Sequences, FiniteSets

CONSTANTS
  Texts,           \* strings that occur on a command line
  Lexicon,         \* what they are to the parser
  CommandLines,    \* sequences of texts
  Platforms,       \* whether the programs are built for Windows
  UlongValues,     \* how many values an unsigned long has
  UllongValues     \* how many values an unsigned long long has

kPacketHeaderSize == 20
kMaxBatchSize == 65536
kDefaultMss == 1400
kUsoMaxSegmentSize == 1472
kUsoMaxBytesPerBatch == 65536
kMaxPort == 65535

ASSUME CliAssumption ==
  /\ Lexicon \in [Texts -> [first : {"dash", "digit", "other", "end"},
                            key : STRING,
                            value : SUBSET Texts,
                            reads : SUBSET Int]]
  /\ \A t \in Texts : /\ \A m, n \in Lexicon[t].reads : m = n
                      /\ \A v, w \in Lexicon[t].value : v = w
  /\ CommandLines \subseteq Seq(Texts)
  /\ Platforms \subseteq BOOLEAN
  /\ UlongValues \in Nat /\ UlongValues > kMaxBatchSize
  /\ UllongValues \in Nat /\ UllongValues > kMaxBatchSize

VARIABLES
  program,   \* "server" or "client"
  windows,   \* built for Windows
  argv,      \* without argv[0]
  i,         \* the argument looked at
  out,       \* ServerOptions or ClientOptions: {} is the default
  outcome

cli_vars == <<program, windows, argv, i, out, outcome>>

-----------------------------------------------------------------------------
\* Texts

option_key(arg) == Lexicon[arg].key
IsOption(arg) == Lexicon[arg].first = "dash"
is_help_flag(arg) == option_key(arg) \in {"--help", "-h"}
                       /\ Lexicon[arg].value = {}

\* std::stoul and std::stoull, for which -1 is the largest number.  No
\* element: they throw.
Unsigned(text, values) ==
  {n % values : n \in {m \in Lexicon[text].reads : m \in 1 - values .. values - 1}}

parse_port(text) == Unsigned(text, UlongValues) \cap 0 .. kMaxPort
parse_batch_size(text) ==
  Unsigned(text, UllongValues) \cap kPacketHeaderSize .. kMaxBatchSize
parse_mss(text) == Unsigned(text, UllongValues) \cap 0 .. kMaxBatchSize
parse_count(text) == Unsigned(text, UllongValues) \ {0}

\* The options of a program that take a value, and what is stored of it.
ValueOptions ==
  IF program = "server"
  THEN {"--bind", "--port", "--count"}
  ELSE {"--source", "--dest", "--port", "--size", "--count", "--mss"}

Parsed(key, text) ==
  CASE key \in {"--bind", "--source", "--dest"} -> {text}
    [] key = "--port"  -> parse_port(text)
    [] key = "--size"  -> parse_batch_size(text)
    [] key = "--mss"   -> parse_mss(text)
    [] key \in {"--count", "--loop"} -> parse_count(text)

Flags ==
  IF program = "server" THEN {"-v", "--uro"}
  ELSE {"--no-pktinfo", "--completion-routine"}

\* The fields of the options; loopCount is set by --loop.
Fields ==
  ValueOptions \cup Flags
    \cup (IF program = "server" THEN {"--loop", "loopCount"} ELSE {})

-----------------------------------------------------------------------------
\* A help flag anywhere, even where another option's value belongs, is seen
\* first.
CliInit ==
  /\ program \in {"server", "client"}
  /\ windows \in Platforms
  /\ argv \in CommandLines
  /\ i = 1
  /\ out = [field \in Fields |-> {}]
  /\ outcome = IF \E k \in DOMAIN argv : is_help_flag(argv[k])
               THEN "help" ELSE "scanning"

Scans == outcome = "scanning" /\ i <= Len(argv)
Key == option_key(argv[i])

Refused ==
  /\ outcome' = "refused"
  /\ UNCHANGED <<program, windows, argv, i, out>>

Store(fields, steps) ==
  /\ out' = fields
  /\ i' = i + steps
  /\ UNCHANGED <<program, windows, argv, outcome>>

\* option_value: what follows the '=', else the next argument, whatever that
\* looks like.  A set of at most one element: there may be no next argument.
option_value ==
  IF Lexicon[argv[i]].value # {} THEN Lexicon[argv[i]].value
  ELSE {argv[k] : k \in {i + 1} \cap DOMAIN argv}

ArgumentsRead == IF Lexicon[argv[i]].value # {} THEN 1 ELSE 2

\* Mutant: the argument read as a value is read once more as an option.
ValueOptionStaying ==
  /\ Scans
  /\ IsOption(argv[i])
  /\ Key \in ValueOptions
  /\ \E text \in option_value :
       /\ Parsed(Key, text) # {}
       /\ Store([out EXCEPT ![Key] = Parsed(Key, text)], 1)

ValueOption ==
  /\ Scans
  /\ IsOption(argv[i])
  /\ Key \in ValueOptions
  /\ \E text \in option_value :
       /\ Parsed(Key, text) # {}
       /\ Store([out EXCEPT ![Key] = Parsed(Key, text)], ArgumentsRead)

\* No value, or one that the option's parse function throws at.
BadValue ==
  /\ Scans
  /\ IsOption(argv[i])
  /\ Key \in ValueOptions
  /\ \A text \in option_value : Parsed(Key, text) = {}
  /\ Refused

FlagOption ==
  /\ Scans
  /\ IsOption(argv[i])
  /\ Key \in Flags
  /\ Store([out EXCEPT ![Key] = {TRUE}], 1)

\* The optional n of --loop: after '=', or the next argument when it starts
\* with a digit.
LoopValue ==
  IF Lexicon[argv[i]].value # {} THEN Lexicon[argv[i]].value
  ELSE {argv[k] : k \in {j \in {i + 1} \cap DOMAIN argv :
                           Lexicon[argv[j]].first = "digit"}}

LoopsHere == Scans /\ program = "server" /\ IsOption(argv[i]) /\ Key = "--loop"

\* Mutant: --loop without n is for ever, whatever was said before.
LoopOptionForgetting ==
  /\ LoopsHere
  /\ out["--count"] = {}
  /\ \/ LoopValue = {}
          /\ Store([out EXCEPT !["--loop"] = {TRUE}, !["loopCount"] = {}], 1)
     \/ \E text \in LoopValue :
          /\ parse_count(text) # {}
          /\ Store([out EXCEPT !["--loop"] = {TRUE},
                               !["loopCount"] = parse_count(text)],
                   ArgumentsRead)

LoopOption ==
  /\ LoopsHere
  /\ out["--count"] = {}
  /\ \/ LoopValue = {} /\ Store([out EXCEPT !["--loop"] = {TRUE}], 1)
     \/ \E text \in LoopValue :
          /\ parse_count(text) # {}
          /\ Store([out EXCEPT !["--loop"] = {TRUE},
                               !["loopCount"] = parse_count(text)],
                   ArgumentsRead)

BadLoop ==
  /\ LoopsHere
  /\ \/ out["--count"] # {}
     \/ \E text \in LoopValue : parse_count(text) = {}
  /\ Refused

\* Not an option, or not one of this program.
Unexpected ==
  /\ Scans
  /\ IsOption(argv[i]) => Key \notin Fields
  /\ Refused

-----------------------------------------------------------------------------
\* The checks at the end of the line

\* A field, or what it is when the option was not given.
Setting(field, default) == IF out[field] = {} THEN {default} ELSE out[field]

ServerComplete ==
  /\ Setting("--port", 0) # {0}
  /\ out["--uro"] # {} => windows

\* Mutant: parse_mss is trusted with the limit of a segment.
ClientCompleteAnyMss ==
  /\ \E dest \in out["--dest"] : Lexicon[dest].first # "end"
  /\ Setting("--port", 0) # {0}
  /\ out["--size"] # {}

ClientComplete ==
  /\ \E dest \in out["--dest"] : Lexicon[dest].first # "end"
  /\ Setting("--port", 0) # {0}
  /\ out["--size"] # {}
  /\ \A size \in out["--size"] : size <= kUsoMaxBytesPerBatch
  /\ \A mss \in Setting("--mss", kDefaultMss) : mss <= kUsoMaxSegmentSize

Finish ==
  /\ outcome = "scanning"
  /\ i > Len(argv)
  /\ outcome' = IF \/ program = "server" /\ ServerComplete
                   \/ program = "client" /\ ClientComplete
                THEN "accepted" ELSE "refused"
  /\ UNCHANGED <<program, windows, argv, i, out>>

CliNext ==
  \/ ValueOption \/ BadValue \/ FlagOption \/ LoopOption \/ BadLoop
  \/ Unexpected \/ Finish

CliSpec == CliInit /\ [][CliNext]_cli_vars

-----------------------------------------------------------------------------
(***************************************************************************)
(* The same command line read as a whole: which arguments are values is    *)
(* decided from left to right, the rest by what is on the line.            *)
(***************************************************************************)
HasNext(k) == k + 1 \in DOMAIN argv

\* Whether the option at position k needs the next argument, if it is one.
Wants(k) ==
  /\ IsOption(argv[k])
  /\ Lexicon[argv[k]].value = {}
  /\ \/ option_key(argv[k]) \in ValueOptions
     \/ /\ program = "server"
        /\ option_key(argv[k]) = "--loop"
        /\ HasNext(k)
        /\ Lexicon[argv[k + 1]].first = "digit"

IsValue[k \in DOMAIN argv] == k > 1 /\ ~IsValue[k - 1] /\ Wants(k - 1)

Given(key) ==
  {k \in DOMAIN argv :
     ~IsValue[k] /\ IsOption(argv[k]) /\ option_key(argv[k]) = key}

ValueAt(k) ==
  Lexicon[argv[k]].value
    \cup {argv[n] : n \in {m \in {k + 1} \cap DOMAIN argv : IsValue[m]}}

\* The last one of the positions, as a set.
Latest(positions) == {k \in positions : \A n \in positions : n <= k}

\* What a field holds when the whole line is read.
Said(field) ==
  CASE field \in ValueOptions ->
         UNION {Parsed(field, text) : text \in UNION {ValueAt(k) : k \in Latest(Given(field))}}
    [] field \in Flags \cup {"--loop"} -> IF Given(field) = {} THEN {} ELSE {TRUE}
    [] field = "loopCount" ->
         UNION {parse_count(text) : text \in
           UNION {ValueAt(k) : k \in Latest({n \in Given("--loop") : ValueAt(n) # {}})}}

\* An argument that is wrong wherever it stands.
BadArgument ==
  \/ \E k \in DOMAIN argv :
       /\ ~IsValue[k]
       /\ ~IsOption(argv[k]) \/ option_key(argv[k]) \notin Fields
  \/ \E key \in ValueOptions : \E k \in Given(key) :
       UNION {Parsed(key, text) : text \in ValueAt(k)} = {}
  \/ program = "server" /\ \E k \in Given("--loop") :
       \E text \in ValueAt(k) : parse_count(text) = {}

\* Two options that exclude each other, in either order (README.md:150,
\* cli.hpp:79).
LoopAndCount ==
  program = "server" /\ Given("--loop") # {} /\ Given("--count") # {}

\* What is wrong with a line.
BadLine == BadArgument \/ LoopAndCount

\* The one order in which cli.hpp:152, which looks at what was read so far, does
\* not see the second of them.
LoopsFirst ==
  \A k \in Given("--loop"), n \in Given("--count") : k < n

-----------------------------------------------------------------------------
(***************************************************************************)
(* Properties                                                              *)
(***************************************************************************)

\* Every option has the value of its last occurrence on the line, with the
\* same arguments taken for values and none read twice (cli.hpp:43-63,
\* 131-168, 190-219).
OptionsAsGiven ==
  outcome = "accepted" => \A field \in Fields : out[field] = Said(field)

\* A line is refused only for something wrong on it or missing from it, and of
\* all that can be wrong one thing alone escapes: --loop with --count, which
\* README.md:150 excludes, when every --loop stands before every --count
\* (cli.hpp:122-239).
RefusedForCause ==
  /\ outcome = "accepted" => ~BadArgument /\ (LoopAndCount => LoopsFirst)
  /\ outcome = "refused" =>
       \/ BadLine
       \/ i > Len(argv) /\ IF program = "server" THEN ~ServerComplete
                                                 ELSE ~ClientComplete

\* The limits that the parse functions and the checks at the end set between
\* them hold of every accepted line: a port, a count that is not 0, --uro on
\* Windows only, a batch with room for a header and no larger than a read, a
\* segment size that USO takes (cli.hpp:170-178, 221-238).  --count and --loop
\* have no upper limit.
LimitsKept ==
  outcome = "accepted" =>
    /\ out["--port"] # {} /\ out["--port"] \subseteq 1 .. kMaxPort
    /\ 0 \notin out["--count"]
    /\ program = "server" =>
         /\ out["--uro"] # {} => windows
         /\ out["loopCount"] # {} => out["--loop"] # {}
         /\ 0 \notin out["loopCount"]
    /\ program = "client" =>
         /\ out["--dest"] # {}
         /\ out["--size"] # {}
         /\ out["--size"] \subseteq kPacketHeaderSize .. kMaxBatchSize
         /\ out["--mss"] \subseteq 0 .. kUsoMaxSegmentSize

=============================================================================
