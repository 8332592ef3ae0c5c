------------------------------- MODULE Stream -------------------------------
(***************************************************************************)
(* What reassembly promises.  The receiver reads one endless stream of     *)
(* words, whatever datagrams they come in, from the front.  A header of    *)
(* the session at the front stays there until its batch is complete; then  *)
(* the batch is counted when it is valid and given up in part or as a      *)
(* whole when it is not.  Words are skipped only where no header of the    *)
(* session starts.  No word is counted twice or out of order.              *)
(***************************************************************************)
EXTENDS Naturals, Sequences

CONSTANTS
  Pieces,        \* what may arrive at once: sequences of words
  HeaderSize,    \* words without which a header cannot be told
  Announced(_),  \* length of the batch whose header words starts with, or 0
  Total(_),      \* the session that header belongs to
  NoSession,     \* before the first header
  Valid(_)       \* a complete batch is correct

VARIABLES
  pending,       \* received, and neither skipped nor part of a counted batch
  session,
  counted        \* the batches counted, in order

vars == <<pending, session, counted>>

Init == pending = <<>> /\ session = NoSession /\ counted = <<>>

-----------------------------------------------------------------------------
After(n) == SubSeq(pending, n + 1, Len(pending))

IsHeader(words) ==
  Announced(words) # 0 /\ session \in {NoSession, Total(words)}

\* No header of the session starts in the first n words.
Skippable(n) ==
  \A i \in 0 .. n - 1 : i + HeaderSize <= Len(pending) /\ ~IsHeader(After(i))

\* The front of the stream is a batch that is there as a whole.
Complete == IsHeader(pending) /\ Announced(pending) <= Len(pending)
Front == SubSeq(pending, 1, Announced(pending))

Arrive ==
  /\ \E piece \in Pieces : pending' = pending \o piece
  /\ UNCHANGED <<session, counted>>

Skip ==
  /\ \E n \in 1 .. Len(pending) : Skippable(n) /\ pending' = After(n)
  /\ UNCHANGED <<session, counted>>

\* Skip to a header of the session; the first one names the session.
Open ==
  /\ \E n \in 0 .. Len(pending) :
       /\ Skippable(n) /\ IsHeader(After(n))
       /\ pending' = After(n)
       /\ session' = Total(After(n))
  /\ UNCHANGED counted

Count ==
  /\ Complete /\ Valid(Front)
  /\ counted' = Append(counted, Front)
  /\ pending' = After(Announced(pending))
  /\ UNCHANGED session

GiveUp ==
  /\ Complete /\ ~Valid(Front)
  /\ \E n \in 1 .. Announced(pending) : pending' = After(n)
  /\ UNCHANGED <<session, counted>>

Next == Arrive \/ Skip \/ Open \/ Count \/ GiveUp

Spec == Init /\ [][Next]_vars

=============================================================================
