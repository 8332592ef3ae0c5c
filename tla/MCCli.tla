-------------------------------- MODULE MCCli --------------------------------
(***************************************************************************)
(* Command lines for Cli: every option with and without '=', numbers at    *)
(* the limits of each parse function, negative numbers, and texts that are *)
(* options when they stand alone and values when they follow an option.    *)
(***************************************************************************)
EXTENDS Cli, TLC

Entry(first, key, value, reads) ==
  [first |-> first, key |-> key, value |-> value, reads |-> reads]

Alone(text) == text :> Entry("dash", text, {}, {})
With(text, key, value) == text :> Entry("dash", key, {value}, {})
Number(text, n) ==
  text :> Entry(IF n < 0 THEN "dash" ELSE "digit", text, {}, {n})

MCLexicon ==
     ("" :> Entry("end", "", {}, {}))
  @@ ("host" :> Entry("other", "host", {}, {}))
  @@ (" 7" :> Entry("other", " 7", {}, {7}))
  @@ ("9x" :> Entry("digit", "9x", {}, {9}))
  @@ Number("0", 0) @@ Number("3", 3) @@ Number("-1", -1)
  @@ Number("20", 20) @@ Number("65536", 65536) @@ Number("1473", 1473)
  @@ Alone("--bind") @@ Alone("--port") @@ Alone("--count") @@ Alone("--loop")
  @@ Alone("-v") @@ Alone("--uro") @@ Alone("--help")
  @@ Alone("--size") @@ Alone("--mss") @@ Alone("--dest")
  @@ Alone("--no-pktinfo")
  @@ With("--port=3", "--port", "3") @@ With("--port=65536", "--port", "65536")
  @@ With("--count=3", "--count", "3") @@ With("--loop=0", "--loop", "0")
  @@ With("--loop=3", "--loop", "3") @@ With("--help=3", "--help", "3")
  @@ With("--dest=host", "--dest", "host") @@ With("--dest=", "--dest", "")
  @@ With("--size=20", "--size", "20") @@ With("--size=3", "--size", "3")
  @@ With("--mss=1473", "--mss", "1473") @@ With("--mss=0", "--mss", "0")
MCTexts == DOMAIN MCLexicon

\* Lines of a server: a port somewhere, up to three arguments before or after.
ServerTexts ==
  {"--bind", "--port", "--count", "--loop", "-v", "--uro", "--help", "host",
   " 7", "9x", "0", "-1", "65536", "--count=3", "--loop=3", "--loop=0",
   "--help=3", "--port=65536"}

\* Lines of a client: what it requires, and up to two arguments before or
\* after.
ClientTexts ==
  {"--mss", "--mss=1473", "--mss=0", "--size", "--size=3", "--size=20",
   "--dest", "--dest=", "--count", "--port", "--no-pktinfo", "3", "20",
   "1473", "65536", "-1", "host", "", "--uro"}
Required == <<"--dest=host", "--port=3", "--size=20">>

UpTo(n, texts) == UNION {[1 .. k -> texts] : k \in 0 .. n}

MCCommandLines ==
  UNION {{s \o <<"--port=3">>, <<"--port=3">> \o s} : s \in UpTo(3, ServerTexts)}
  \cup UNION {{s \o Required, Required \o s} : s \in UpTo(2, ClientTexts)}

=============================================================================
