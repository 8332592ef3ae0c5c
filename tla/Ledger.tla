------------------------------- MODULE Ledger -------------------------------
(***************************************************************************)
(* What the receiver promises about its summary, without datagrams,        *)
(* resynchronisation, salvage, modes or timeouts.                          *)
(*                                                                         *)
(* A session keeps one account.  An entry is opened, at most one at a      *)
(* time, and is settled exactly once: as a batch with a sequence number of *)
(* the one run the account is for, as a repetition of one that was settled *)
(* before, or as bad.  When the account is closed nothing is left open and *)
(* lost is what was asked for and never settled; then nothing moves until  *)
(* the next session starts from zero.                                      *)
(***************************************************************************)
EXTENDS Integers, FiniteSets

VARIABLES
  asked,    \* size of the run the summary is about, 0: the run's own total
  total,    \* batch_total of the run, 0 until the first entry
  open,
  settled,  \* sequence numbers
  repeated, bad, lost,
  closed

ledger == <<asked, total, open, settled, repeated, bad, lost, closed>>

LedgerInit ==
  /\ asked \in Nat
  /\ total = 0 /\ open = FALSE /\ settled = {}
  /\ repeated = 0 /\ bad = 0 /\ lost = 0
  /\ closed = FALSE

\* The first entry of a session says which run the account is for.
OpenEntry ==
  /\ ~closed
  /\ ~open
  /\ open' = TRUE
  /\ total' \in Nat \ {0}
  /\ total # 0 => total' = total
  /\ UNCHANGED <<asked, settled, repeated, bad, lost, closed>>

SettleBatch ==
  /\ ~closed
  /\ open
  /\ open' = FALSE
  /\ \E seq \in 0 .. total - 1 :
       /\ settled' = settled \cup {seq}
       /\ repeated' = IF seq \in settled THEN repeated + 1 ELSE repeated
  /\ UNCHANGED <<asked, total, bad, lost, closed>>

SettleBad ==
  /\ ~closed
  /\ open
  /\ open' = FALSE
  /\ bad' = bad + 1
  /\ UNCHANGED <<asked, total, settled, repeated, lost, closed>>

RunSize == IF asked # 0 THEN asked ELSE total

CloseAccount ==
  /\ ~closed
  /\ closed' = TRUE
  /\ open' = FALSE
  /\ bad' = IF open THEN bad + 1 ELSE bad
  /\ lost' = Cardinality((0 .. RunSize - 1) \ settled)
  /\ UNCHANGED <<asked, total, settled, repeated>>

NextAccount ==
  /\ closed
  /\ closed' = FALSE
  /\ total' = 0 /\ open' = FALSE /\ settled' = {}
  /\ repeated' = 0 /\ bad' = 0 /\ lost' = 0
  /\ UNCHANGED asked

LedgerNext ==
  OpenEntry \/ SettleBatch \/ SettleBad \/ CloseAccount \/ NextAccount

LedgerSpec == LedgerInit /\ [][LedgerNext]_ledger

=============================================================================
