CONSTANTS
  Texts <- MCTexts
  Lexicon <- MCLexicon
  CommandLines <- MCCommandLines
  Platforms = {TRUE, FALSE}
  UlongValues = 100000
  UllongValues = 100000
SPECIFICATION CliSpec
INVARIANTS
  OptionsAsGiven
  RefusedForCause
  LimitsKept
\* The parser returns.
CHECK_DEADLOCK FALSE
