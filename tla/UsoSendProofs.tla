--------------------------- MODULE UsoSendProofs ---------------------------
(***************************************************************************)
(* What holds of every run of the Windows client: for every list of        *)
(* options, every host, and every kernel, one that takes some overlapped   *)
(* sends at once and answers others later too.                             *)
(***************************************************************************)
EXTENDS UsoSend, FoldLemmas

-----------------------------------------------------------------------------
(***************************************************************************)
(* The invariant, in three parts.  Where the run is (ControlInv) and what  *)
(* is queued (QueueInv) holds whatever the completion routines do.  What   *)
(* the kernel has of each batch (SentInv) holds as long as no earlier      *)
(* call's routine has answered for a later one.  MixedInv says when that   *)
(* can happen.                                                             *)
(***************************************************************************)
Ways == {"BindOnly", "PktinfoIfindex"}
SettingUp ==
  pc \in {"resolve", "create", "reuse_addr", "send_buffer", "bind", "name"}
Sending == pc \in {"plain", "attempt", "wait"}

ControlInv ==
  /\ options \in SendOptions /\ kernel \in Kernels
  /\ SettingUp \/ Sending \/ pc \in {"build", "close", "finished", "failed"}
  /\ batch_no \in 0 .. options.batchCount
  /\ batch \in 0 .. options.batchCount
  /\ attempts \in Seq(Ways)
  /\ call \in Nat /\ failures \in Nat /\ misled \in BOOLEAN
  /\ ctx \in {"none"} \cup Outcome
  /\ path \in {"None", "Plain"} \cup Ways
  /\ copies \in [0 .. options.batchCount - 1 -> Nat]
  /\ SettingUp => batch_no = 0
  /\ pc = "build" \/ Sending => batch_no < options.batchCount
  /\ Sending => batch = batch_no
  /\ pc \in {"attempt", "wait"} => attempts # <<>>

\* Requests and routines are those of the calls made so far.
QueueInv ==
  /\ requests \subseteq [call : Nat, batch : Nat]
  /\ \A r \in requests : r.call <= call
  /\ routines \in Seq([call : Nat, outcome : Outcome])
  /\ \A k \in DOMAIN routines : routines[k].call <= call

\* Each batch before the current one was accepted once, none after it was.
CopiesInv ==
  \A n \in 0 .. options.batchCount - 1 :
    /\ n < batch_no => copies[n] = 1
    /\ n > batch_no => copies[n] = 0
    /\ n = batch_no => /\ copies[n] \in {0, 1}
                       /\ pc \notin {"wait", "failed"} => copies[n] = 0

\* The first n routines queued are those of earlier calls.
Earlier(n) == \A k \in 1 .. n : routines[k].call # call

\* What an overlapped send has come to: what its routine, the last one queued,
\* will say, or what the context says.
Answered(outcome) ==
  \/ /\ ctx = "none"
     /\ routines # <<>>
     /\ routines[Len(routines)] = [call |-> call, outcome |-> outcome]
     /\ Earlier(Len(routines) - 1)
  \/ routines = <<>> /\ ctx = outcome

\* The wait is for the one request or the one routine of this very call.
WaitInv ==
  \/ /\ requests = {[call |-> call, batch |-> batch]}
     /\ Earlier(Len(routines)) /\ ctx = "none"
     /\ copies[batch] = 0
  \/ /\ requests = {}
     /\ \E outcome \in Outcome :
          /\ Answered(outcome)
          /\ copies[batch] = IF outcome = "ok" THEN 1 ELSE 0

SentInv ==
  /\ CopiesInv
  /\ pc = "wait" => WaitInv
  /\ pc # "wait" => requests = {}

\* A kernel that takes nothing at once queues a routine only during its call's
\* wait, which does not end before the routine has run.
MixedInv ==
  /\ MisledOnlyByMixing
  /\ pc = "wait" => options.completionRoutine /\ "later" \in kernel
  /\ "at_once" \notin kernel =>
       /\ pc # "wait" => routines = <<>>
       /\ \A k \in DOMAIN routines : routines[k].call = call

UsoInv ==
  /\ ControlInv /\ QueueInv
  /\ ~misled => SentInv
  /\ MixedInv

\* A number of batches is at least one.
LEMMA BatchCountType ==
  ASSUME ControlInv
  PROVE  options.batchCount \in Nat \ {0}
BY UsoSendAssumption DEF ControlInv

\* Before the first batch nothing was sent.
LEMMA UsoInitEstablishesInv == UsoInit => UsoInv
<1> SUFFICES ASSUME UsoInit PROVE UsoInv
  OBVIOUS
<1>1. options.batchCount \in Nat \ {0}
  BY UsoSendAssumption DEF UsoInit
<1>2. <<>> \in Seq(Ways) /\ <<>> \in Seq([call : Nat, outcome : Outcome])
  OBVIOUS
<1>3. ControlInv
  BY <1>1, <1>2 DEF UsoInit, BindInit, NoBatch, ControlInv, SettingUp, Sending,
                    Outcome
<1>4. QueueInv
  BY <1>2 DEF UsoInit, QueueInv
<1>5. SentInv
  BY <1>1 DEF UsoInit, BindInit, SentInv, CopiesInv
<1>6. MixedInv
  BY DEF UsoInit, BindInit, MixedInv, MisledOnlyByMixing
<1> QED
  BY <1>3, <1>4, <1>5, <1>6 DEF UsoInv

-----------------------------------------------------------------------------
(***************************************************************************)
(* Where the run is and what is queued                                     *)
(***************************************************************************)

\* What the kernel's decision leaves of the types.
LEMMA AcceptsType ==
  ASSUME ControlInv, NEW i, NEW outcome, Accepts(i, outcome)
  PROVE  /\ copies' \in [0 .. options.batchCount - 1 -> Nat]
         /\ failures' \in Nat
         /\ misled' = misled
<1>1. copies \in [0 .. options.batchCount - 1 -> Nat] /\ failures \in Nat
  BY DEF ControlInv
<1>2. [copies EXCEPT ![i] = @ + 1] \in [0 .. options.batchCount - 1 -> Nat]
  <2> DEFINE added == [copies EXCEPT ![i] = @ + 1]
  <2>1. /\ DOMAIN added = DOMAIN copies
        /\ added = [n \in DOMAIN copies |-> added[n]]
    OBVIOUS
  <2>2. \A n \in DOMAIN copies :
          added[n] = IF n = i THEN copies[n] + 1 ELSE copies[n]
    OBVIOUS
  <2>3. \A n \in 0 .. options.batchCount - 1 : added[n] \in Nat
    BY <1>1, <2>2
  <2> HIDE DEF added
  <2>4. added \in [0 .. options.batchCount - 1 -> Nat]
    BY <1>1, <2>1, <2>3
  <2> QED
    BY <2>4 DEF added
<1> QED
  BY <1>1, <1>2 DEF Accepts

\* The end of an attempt: the next way, the next batch, or the end of the run.
LEMMA AttemptEndsKeepsControl ==
  ASSUME ControlInv, pc \in {"attempt", "wait"}, NEW outcome,
         AttemptEnds(outcome) \/ AttemptFailed,
         UNCHANGED <<setting, ctx>>, call' \in Nat, failures' \in Nat,
         copies' \in [0 .. options.batchCount - 1 -> Nat], misled' \in BOOLEAN
  PROVE  /\ ControlInv'
         /\ pc' \in {"attempt", "build", "close", "failed"}
<1>1. /\ options.batchCount \in Nat \ {0}
      /\ UNCHANGED <<options, kernel, ctx>>
      /\ batch = batch_no /\ batch_no \in Nat /\ batch_no < options.batchCount
      /\ attempts \in Seq(Ways) /\ attempts # <<>>
  BY BatchCountType DEF setting, ControlInv, Sending
<1>2. CASE Reported(Head(attempts)) /\ attempts' = <<>>
  <2>1. /\ path' \in Ways /\ attempts' \in Seq(Ways)
    BY <1>1, <1>2 DEF Reported
  <2>2. /\ batch' = batch /\ batch_no' = batch_no + 1
        /\ pc' = IF batch_no + 1 < options.batchCount THEN "build" ELSE "close"
    BY <1>2 DEF Reported
  <2>3. /\ batch_no' \in 0 .. options.batchCount
        /\ pc' \in {"build", "close"}
        /\ pc' = "build" => batch_no' < options.batchCount
    BY <1>1, <2>2
  <2> QED
    BY <1>1, <2>1, <2>2, <2>3 DEF ControlInv, SettingUp, Sending
<1>3. CASE AttemptFailed
  <2>1. /\ UNCHANGED <<batch_no, batch, path>>
        /\ attempts' = Tail(attempts)
        /\ pc' \in {"failed", "attempt"}
        /\ pc' = "attempt" => attempts' # <<>>
    BY <1>3 DEF AttemptFailed
  <2>2. attempts' \in Seq(Ways)
    BY <1>1, <2>1
  <2> QED
    BY <1>1, <2>1, <2>2 DEF ControlInv, SettingUp, Sending
<1> QED
  BY <1>2, <1>3 DEF AttemptEnds

\* What a queued routine knows.
LEMMA RoutineType ==
  ASSUME NEW queue \in Seq([call : Nat, outcome : Outcome]),
         NEW k \in DOMAIN queue
  PROVE  queue[k].call \in Nat /\ queue[k].outcome \in Outcome
<1> DEFINE Routines == [call : Nat, outcome : Outcome]
<1>1. ASSUME NEW R, NEW q \in Seq(R), NEW n \in DOMAIN q
      PROVE  q[n] \in R
  BY <1>1
<1>2. queue[k] \in Routines
  BY <1>1
<1> QED
  BY <1>2

\* Every step goes to a label its data fit.
LEMMA ControlInvPreserved ==
  ASSUME ControlInv, QueueInv, [UsoNext]_uso_vars
  PROVE  ControlInv'
<1> USE DEF setting, sending, chain, io, outside
<1>1. options.batchCount \in Nat \ {0}
  BY BatchCountType
<1>2. CASE SetUpStep
  <2>1. /\ UNCHANGED <<options, kernel, batch_no, batch, attempts, path, call,
                       ctx, copies, failures, misled>>
        /\ SettingUp
        /\ pc' \in {"create", "reuse_addr", "send_buffer", "bind", "name",
                    "build", "failed"}
    BY <1>2 DEF SetUpStep, SetUp, Resolve, CreateSocket, SetReuseAddr,
       SetSendBuffer, RefuseIPv6, BindFails, BindSocket, NameSocket,
       CloseAndThrow, GoesOn, SettingUp
  <2> QED
    BY <1>1, <2>1 DEF ControlInv, SettingUp, Sending
<1>3. CASE BuildBatch
  <2>1. /\ UNCHANGED <<options, kernel, batch_no, path, call, ctx, copies,
                       failures, misled>>
        /\ pc = "build" /\ batch' = batch_no
        /\ attempts' = IF Plain THEN <<>> ELSE Attempts
        /\ pc' = IF Plain THEN "plain" ELSE "attempt"
    BY <1>3 DEF BuildBatch
  <2>2. /\ attempts' \in Seq(Ways)
        /\ pc' = "attempt" => attempts' # <<>>
    <3>1. /\ <<>> \in Seq(Ways) /\ <<"BindOnly">> \in Seq(Ways)
          /\ <<"PktinfoIfindex">> \in Seq(Ways)
      BY DEF Ways
    <3>2. Attempts \in Seq(Ways) /\ Attempts # <<>>
      <4>1. \A s, t \in Seq(Ways) :
              /\ s \o <<"BindOnly">> \o t \in Seq(Ways)
              /\ s \o <<"BindOnly">> \o t # <<>>
        BY <3>1
      <4> QED
        BY <3>1, <4>1 DEF Attempts
    <3> QED
      BY <2>1, <3>1, <3>2
  <2>3. batch_no \in 0 .. options.batchCount /\ batch_no < options.batchCount
    BY <2>1 DEF ControlInv
  <2> QED
    BY <1>1, <2>1, <2>2, <2>3 DEF ControlInv, SettingUp, Sending
<1>4. CASE BuildFails \/ NoSendMsg \/ CloseSocket
  <2>1. /\ UNCHANGED <<options, kernel, batch_no, batch, attempts, path, call,
                       ctx, copies, failures, misled>>
        /\ pc' \in {"failed", "finished"}
    BY <1>4 DEF BuildFails, NoSendMsg, CloseSocket
  <2> QED
    BY <2>1 DEF ControlInv, SettingUp, Sending
<1>5. CASE SendPlain
  <2>1. PICK outcome \in Outcome :
          /\ Accepts(batch, outcome)
          /\ IF outcome = "ok" THEN Reported("Plain")
             ELSE pc' = "failed" /\ UNCHANGED <<batch_no, batch, path>>
    BY <1>5 DEF SendPlain
  <2>2. /\ UNCHANGED <<options, kernel, attempts, call, ctx>> /\ pc = "plain"
        /\ copies' \in [0 .. options.batchCount - 1 -> Nat]
        /\ failures' \in Nat /\ misled' \in BOOLEAN
    BY <1>5, <2>1, AcceptsType DEF SendPlain, ControlInv
  <2>3. batch = batch_no /\ batch_no < options.batchCount /\ batch_no \in Nat
    BY <1>1, <2>2 DEF ControlInv, Sending
  <2>4. CASE Reported("Plain")
    <3>1. /\ path' = "Plain" /\ batch' = batch /\ batch_no' = batch_no + 1
          /\ pc' = IF batch_no + 1 < options.batchCount
                   THEN "build" ELSE "close"
      BY <2>4 DEF Reported
    <3>2. /\ batch_no' \in 0 .. options.batchCount
          /\ pc' \in {"build", "close"}
          /\ pc' = "build" => batch_no' < options.batchCount
      BY <1>1, <2>3, <3>1
    <3> QED
      BY <2>2, <3>1, <3>2 DEF ControlInv, SettingUp, Sending
  <2>5. CASE pc' = "failed" /\ UNCHANGED <<batch_no, batch, path>>
    BY <2>2, <2>5 DEF ControlInv, SettingUp, Sending
  <2> QED
    BY <2>1, <2>4, <2>5
<1>6. CASE ConfigureFails
  BY <1>6, AttemptEndsKeepsControl DEF ConfigureFails, ControlInv
<1>7. CASE SendBlocking \/ SendRefused \/ SendAtOnce
  <2>1. PICK outcome \in Outcome :
          Accepts(batch, outcome) /\ AttemptEnds(outcome)
    BY <1>7 DEF SendBlocking, SendRefused, SendAtOnce, Outcome
  <2>2. pc = "attempt" /\ call' = call + 1 /\ UNCHANGED <<setting, ctx>>
    BY <1>7 DEF SendBlocking, SendRefused, SendAtOnce
  <2>3. call' \in Nat /\ misled \in BOOLEAN
    BY <2>2 DEF ControlInv
  <2> QED
    BY <2>1, <2>2, <2>3, AcceptsType, AttemptEndsKeepsControl
<1>8. CASE SendLater
  BY <1>8 DEF SendLater, ControlInv, SettingUp, Sending
<1>9. CASE KernelCompletes
  <2>1. /\ UNCHANGED <<options, kernel, pc, batch_no, batch, attempts, path,
                       call, ctx>>
        /\ copies' \in [0 .. options.batchCount - 1 -> Nat]
        /\ failures' \in Nat /\ misled' \in BOOLEAN
    BY <1>9, AcceptsType DEF KernelCompletes, ControlInv
  <2> QED
    BY <2>1 DEF ControlInv, SettingUp, Sending
<1>10. CASE SleepEx
  <2>1. /\ UNCHANGED <<options, kernel, pc, batch_no, batch, attempts, path,
                       call, copies, failures>>
    BY <1>10 DEF SleepEx
  <2>2. CASE UNCHANGED <<ctx, misled>>
    BY <2>1, <2>2 DEF ControlInv, SettingUp, Sending
  <2>3. CASE \E k \in Own \cup Stale :
               /\ ctx' = routines[k].outcome
               /\ misled' = (misled \/ k \in Stale)
    <3>1. PICK k \in DOMAIN routines :
            /\ ctx' = routines[k].outcome
            /\ misled' = (misled \/ k \in Stale)
      BY <2>3 DEF Own, Stale
    <3>2. ctx' \in Outcome
      BY <3>1, RoutineType DEF QueueInv
    <3>3. misled' \in BOOLEAN
      BY <3>1
    <3> QED
      BY <2>1, <3>2, <3>3 DEF ControlInv, SettingUp, Sending
  <2> QED
    BY <1>10, <2>2, <2>3 DEF SleepEx
<1>11. CASE WaitEnds
  <2>1. /\ pc = "wait" /\ AttemptEnds(ctx)
        /\ UNCHANGED <<setting, call, ctx, copies, failures, misled>>
    BY <1>11 DEF WaitEnds
  <2>2. /\ call' \in Nat /\ failures' \in Nat /\ misled' \in BOOLEAN
        /\ copies' \in [0 .. options.batchCount - 1 -> Nat]
    BY <2>1 DEF ControlInv
  <2> QED
    BY <2>1, <2>2, AttemptEndsKeepsControl
<1>12. CASE UNCHANGED uso_vars
  BY <1>12 DEF uso_vars, ControlInv, SettingUp, Sending
<1> QED
  BY <1>2, <1>3, <1>4, <1>5, <1>6, <1>7, <1>8, <1>9, <1>10, <1>11, <1>12
  DEF UsoNext, ClientStep

\* One more routine, of a call already made.
LEMMA AppendKeepsQueue ==
  ASSUME NEW queue \in Seq([call : Nat, outcome : Outcome]),
         NEW now \in Nat, \A k \in DOMAIN queue : queue[k].call <= now,
         NEW c \in Nat, c <= now, NEW outcome \in Outcome,
         NEW longer, longer = Append(queue, [call |-> c, outcome |-> outcome])
  PROVE  /\ longer \in Seq([call : Nat, outcome : Outcome])
         /\ \A k \in DOMAIN longer : longer[k].call <= now
<1> DEFINE routine == [call |-> c, outcome |-> outcome]
<1> DEFINE Routines == [call : Nat, outcome : Outcome]
<1>1. routine \in Routines /\ routine.call = c
  OBVIOUS
<1>2. \A k \in DOMAIN queue : queue[k].call \in Nat
  BY RoutineType
<1>3. longer = Append(queue, routine) /\ queue \in Seq(Routines)
  OBVIOUS
<1> HIDE DEF routine, Routines
<1>4. /\ longer \in Seq(Routines)
      /\ \A k \in DOMAIN longer :
           \/ longer[k] = routine
           \/ k \in DOMAIN queue /\ longer[k] = queue[k]
  BY <1>1, <1>3
<1>5. \A k \in DOMAIN longer : longer[k].call <= now
  BY <1>1, <1>2, <1>4
<1> QED
  BY <1>4, <1>5 DEF Routines

\* What is queued is queued under the number of its call.
LEMMA QueueInvPreserved ==
  ASSUME ControlInv, QueueInv, [UsoNext]_uso_vars
  PROVE  QueueInv'
<1> USE DEF setting, sending, chain, io, outside
<1>1. /\ call \in Nat /\ batch \in Nat
      /\ requests \subseteq [call : Nat, batch : Nat]
      /\ routines \in Seq([call : Nat, outcome : Outcome])
  BY BatchCountType DEF ControlInv, QueueInv
<1>2. CASE UNCHANGED <<call, requests, routines>>
  BY <1>2 DEF QueueInv
<1>3. CASE SendBlocking \/ SendRefused
  <2>1. UNCHANGED <<requests, routines>> /\ call' = call + 1
    BY <1>3 DEF SendBlocking, SendRefused
  <2>2. \A r \in requests : r.call \in Nat
    BY <1>1
  <2>3. \A k \in DOMAIN routines : routines[k].call \in Nat
    BY <1>1, RoutineType
  <2> QED
    BY <1>1, <2>1, <2>2, <2>3 DEF QueueInv
<1>4. CASE SendAtOnce
  <2>1. PICK outcome \in Outcome :
          routines' = Append(routines, [call |-> call', outcome |-> outcome])
    BY <1>4 DEF SendAtOnce, Outcome
  <2>2. requests' = requests /\ call' = call + 1
    BY <1>4 DEF SendAtOnce
  <2>3. \A r \in requests : r.call \in Nat /\ r.call <= call'
    BY <1>1, <2>2 DEF QueueInv
  <2>4. /\ routines' \in Seq([call : Nat, outcome : Outcome])
        /\ \A k \in DOMAIN routines' : routines'[k].call <= call'
    <3>1. \A k \in DOMAIN routines : routines[k].call \in Nat
      BY <1>1, RoutineType
    <3>2. /\ call' \in Nat /\ call' <= call'
          /\ \A k \in DOMAIN routines : routines[k].call <= call'
      BY <1>1, <2>2, <3>1 DEF QueueInv
    <3> QED
      BY <1>1, <2>1, <3>2, AppendKeepsQueue
  <2> QED
    BY <1>1, <2>2, <2>3, <2>4 DEF QueueInv
<1>5. CASE SendLater
  <2>1. /\ routines' = routines /\ call' = call + 1
        /\ requests' = requests \cup {[call |-> call', batch |-> batch]}
    BY <1>5 DEF SendLater
  <2>2. requests' \subseteq [call : Nat, batch : Nat]
    BY <1>1, <2>1
  <2>3. \A r \in requests' : r.call <= call'
    BY <1>1, <2>1 DEF QueueInv
  <2>4. \A k \in DOMAIN routines : routines[k].call \in Nat
    BY <1>1, RoutineType
  <2>5. \A k \in DOMAIN routines : routines[k].call <= call'
    BY <1>1, <2>1, <2>4 DEF QueueInv
  <2> QED
    BY <1>1, <2>1, <2>2, <2>3, <2>5 DEF QueueInv
<1>6. CASE KernelCompletes
  <2>1. PICK r \in requests, outcome \in Outcome :
          /\ requests' = requests \ {r}
          /\ routines' = Append(routines, [call |-> r.call, outcome |-> outcome])
          /\ call' = call
    BY <1>6 DEF KernelCompletes
  <2>2. r.call \in Nat /\ r.call <= call
    BY <1>1 DEF QueueInv
  <2> QED
    BY <1>1, <2>1, <2>2, AppendKeepsQueue DEF QueueInv
<1>7. CASE SleepEx
  <2>1. routines' = <<>> /\ UNCHANGED <<call, requests>>
    BY <1>7 DEF SleepEx
  <2> QED
    BY <2>1 DEF QueueInv
<1>8. CASE \/ SetUpStep \/ BuildBatch \/ BuildFails \/ NoSendMsg \/ SendPlain
           \/ ConfigureFails \/ WaitEnds \/ CloseSocket \/ UNCHANGED uso_vars
  <2>1. UNCHANGED <<call, requests, routines>>
    BY <1>8 DEF SetUpStep, BuildBatch, BuildFails, NoSendMsg, SendPlain,
       ConfigureFails, WaitEnds, CloseSocket, uso_vars
  <2> QED
    BY <1>2, <2>1
<1> QED
  BY <1>3, <1>4, <1>5, <1>6, <1>7, <1>8 DEF UsoNext, ClientStep

-----------------------------------------------------------------------------
(***************************************************************************)
(* What the kernel has of each batch                                       *)
(***************************************************************************)

\* A way to send that failed without the kernel taking a whole copy.
LEMMA AttemptFailedKeepsSent ==
  ASSUME ControlInv, SentInv, pc \in {"attempt", "wait"}, AttemptFailed,
         UNCHANGED <<options, copies>>, copies[batch] = 0, requests' = {}
  PROVE  SentInv'
<1>1. /\ UNCHANGED <<batch_no, batch>>
      /\ pc' \in {"failed", "attempt"}
  BY DEF AttemptFailed
<1>2. batch = batch_no /\ copies[batch_no] = 0
  BY DEF ControlInv, Sending
<1>3. CopiesInv'
  BY <1>1, <1>2, BatchCountType DEF SentInv, CopiesInv
<1> QED
  BY <1>1, <1>3 DEF SentInv

\* A batch reported as sent when the kernel has one whole copy of it.
LEMMA ReportedKeepsSent ==
  ASSUME ControlInv, SentInv, Sending, NEW how, Reported(how),
         options' = options,
         \A n \in 0 .. options.batchCount - 1 :
           copies'[n] = IF n = batch THEN 1 ELSE copies[n],
         requests' = {}
  PROVE  SentInv'
<1>1. /\ batch_no' = batch_no + 1
      /\ pc' \in {"build", "close"}
  BY DEF Reported
<1>2. /\ batch = batch_no /\ batch_no \in Nat
      /\ options.batchCount \in Nat \ {0}
  BY BatchCountType DEF ControlInv
<1>3. CopiesInv'
  BY <1>1, <1>2 DEF SentInv, CopiesInv
<1> QED
  BY <1>1, <1>3 DEF SentInv

\* What a whole copy accepted now makes of copies.
LEMMA AcceptedCopy ==
  ASSUME ControlInv, batch = batch_no, batch_no < options.batchCount,
         copies[batch] = 0, NEW outcome \in Outcome, Accepts(batch, outcome)
  PROVE  /\ outcome = "ok" =>
              \A n \in 0 .. options.batchCount - 1 :
                copies'[n] = IF n = batch THEN 1 ELSE copies[n]
         /\ outcome # "ok" => copies' = copies
         /\ copies'[batch] = IF outcome = "ok" THEN 1 ELSE 0
<1>1. /\ options.batchCount \in Nat \ {0}
      /\ batch \in 0 .. options.batchCount - 1
      /\ copies \in [0 .. options.batchCount - 1 -> Nat]
  BY BatchCountType DEF ControlInv
<1>2. outcome = "ok" => copies' = [copies EXCEPT ![batch] = 1]
  BY <1>1 DEF Accepts
<1>3. outcome # "ok" => copies' = copies
  BY DEF Accepts
<1> QED
  BY <1>1, <1>2, <1>3

\* Outside a wait nothing was sent of the current batch yet.
LEMMA NothingSentYet ==
  ASSUME ControlInv, SentInv, pc \in {"plain", "attempt"}
  PROVE  /\ batch = batch_no /\ batch_no < options.batchCount
         /\ copies[batch] = 0 /\ requests = {} /\ Sending
<1>1. /\ batch = batch_no /\ batch_no < options.batchCount
      /\ batch_no \in Nat /\ options.batchCount \in Nat
  BY BatchCountType DEF ControlInv, Sending
<1> QED
  BY <1>1 DEF SentInv, CopiesInv, Sending

\* The end of a send that the kernel has decided.
LEMMA DecidedKeepsSent ==
  ASSUME ControlInv, SentInv, pc = "attempt", NEW outcome \in Outcome,
         Accepts(batch, outcome), AttemptEnds(outcome),
         UNCHANGED <<options, requests>>
  PROVE  SentInv'
<1>1. /\ batch = batch_no /\ batch_no < options.batchCount
      /\ copies[batch] = 0 /\ requests' = {} /\ Sending
  BY NothingSentYet
<1>2. /\ outcome = "ok" =>
           \A n \in 0 .. options.batchCount - 1 :
             copies'[n] = IF n = batch THEN 1 ELSE copies[n]
      /\ outcome # "ok" => copies' = copies
  BY <1>1, AcceptedCopy
<1>3. CASE outcome = "ok"
  BY <1>1, <1>2, <1>3, ReportedKeepsSent DEF AttemptEnds
<1>4. CASE outcome # "ok"
  BY <1>1, <1>2, <1>4, AttemptFailedKeepsSent DEF AttemptEnds
<1> QED
  BY <1>3, <1>4

\* sendto of the whole batch: once, or the run ends.
LEMMA SendPlainKeepsSent ==
  ASSUME ControlInv, SentInv, SendPlain
  PROVE  SentInv'
<1>1. pc = "plain" /\ UNCHANGED <<options, requests>>
  BY DEF SendPlain, setting, io
<1>2. /\ batch = batch_no /\ batch_no < options.batchCount
      /\ copies[batch] = 0 /\ requests' = {} /\ Sending
  BY <1>1, NothingSentYet
<1>3. PICK outcome \in Outcome :
        /\ Accepts(batch, outcome)
        /\ IF outcome = "ok" THEN Reported("Plain")
           ELSE pc' = "failed" /\ UNCHANGED <<batch_no, batch, path>>
  BY DEF SendPlain
<1>4. /\ outcome = "ok" =>
           \A n \in 0 .. options.batchCount - 1 :
             copies'[n] = IF n = batch THEN 1 ELSE copies[n]
      /\ outcome # "ok" => copies' = copies
  BY <1>2, <1>3, AcceptedCopy
<1>5. CASE outcome = "ok"
  BY <1>1, <1>2, <1>3, <1>4, <1>5, ReportedKeepsSent
<1>6. CASE outcome # "ok"
  <2>1. UNCHANGED <<options, batch_no, copies>> /\ pc' = "failed"
    BY <1>1, <1>3, <1>4, <1>6
  <2> QED
    BY <1>2, <2>1 DEF SentInv, CopiesInv
<1> QED
  BY <1>5, <1>6

\* The wait begins with one request of this call; routines still queued are
\* those of earlier calls.
LEMMA SendLaterKeepsSent ==
  ASSUME ControlInv, QueueInv, SentInv, SendLater
  PROVE  SentInv'
<1>1. /\ UNCHANGED <<options, batch_no, batch, routines, copies>>
      /\ pc = "attempt" /\ pc' = "wait"
      /\ call' = call + 1 /\ ctx' = "none"
      /\ requests' = requests \cup {[call |-> call', batch |-> batch]}
  BY DEF SendLater, setting, outside
<1>2. copies[batch] = 0 /\ requests = {}
  BY <1>1, NothingSentYet
<1>3. CopiesInv'
  BY <1>1 DEF SentInv, CopiesInv
<1>4. Earlier(Len(routines))'
  <2>1. \A k \in DOMAIN routines :
          routines[k].call \in Nat /\ routines[k].call <= call
    BY RoutineType DEF QueueInv
  <2>2. \A k \in DOMAIN routines : routines[k].call # call'
    BY <1>1, <2>1 DEF ControlInv
  <2>3. DOMAIN routines = 1 .. Len(routines)
    BY DEF QueueInv
  <2> QED
    BY <1>1, <2>2, <2>3 DEF Earlier
<1>5. WaitInv'
  BY <1>1, <1>2, <1>4 DEF WaitInv
<1> QED
  BY <1>1, <1>3, <1>5 DEF SentInv

\* The kernel answers the request the thread waits for.
LEMMA KernelCompletesKeepsSent ==
  ASSUME ControlInv, QueueInv, SentInv, KernelCompletes
  PROVE  SentInv'
<1>1. PICK r \in requests, outcome \in Outcome :
        /\ Accepts(r.batch, outcome)
        /\ requests' = requests \ {r}
        /\ routines' = Append(routines, [call |-> r.call, outcome |-> outcome])
        /\ UNCHANGED <<options, pc, batch_no, batch, call, ctx>>
  BY DEF KernelCompletes, setting, chain
<1>2. /\ pc = "wait" /\ requests = {[call |-> call, batch |-> batch]}
      /\ Earlier(Len(routines)) /\ ctx = "none" /\ copies[batch] = 0
      /\ r = [call |-> call, batch |-> batch]
  BY <1>1 DEF SentInv, WaitInv
<1>3. /\ batch = batch_no /\ batch_no < options.batchCount
      /\ batch_no \in Nat /\ options.batchCount \in Nat
  BY <1>2, BatchCountType DEF ControlInv, Sending
<1>4. /\ outcome = "ok" =>
           \A n \in 0 .. options.batchCount - 1 :
             copies'[n] = IF n = batch THEN 1 ELSE copies[n]
      /\ outcome # "ok" => copies' = copies
      /\ copies'[batch] = IF outcome = "ok" THEN 1 ELSE 0
  BY <1>1, <1>2, <1>3, AcceptedCopy
<1>5. CopiesInv'
  BY <1>1, <1>2, <1>3, <1>4 DEF SentInv, CopiesInv
<1>6. Answered(outcome)'
  <2> DEFINE routine == [call |-> call, outcome |-> outcome]
  <2>1. routines \in Seq([call : Nat, outcome : Outcome])
    BY DEF QueueInv
  <2>2. routines' = Append(routines, routine)
    BY <1>1, <1>2
  <2> HIDE DEF routine
  <2>3. /\ Len(routines') = Len(routines) + 1 /\ routines' # <<>>
        /\ routines'[Len(routines')] = routine
        /\ \A k \in 1 .. Len(routines) : routines'[k] = routines[k]
        /\ Len(routines) \in Nat
    BY <2>1, <2>2
  <2>4. /\ routines'[Len(routines')] = [call |-> call', outcome |-> outcome]
        /\ ctx' = "none"
    BY <1>1, <1>2, <2>3 DEF routine
  <2>5. \A k \in 1 .. Len(routines) : routines'[k].call # call'
    BY <1>1, <1>2, <2>3 DEF Earlier
  <2>6. Len(routines') - 1 = Len(routines)
    BY <2>3
  <2> QED
    BY <2>3, <2>4, <2>5, <2>6 DEF Answered, Earlier
<1>7. WaitInv'
  BY <1>1, <1>2, <1>4, <1>6 DEF WaitInv
<1> QED
  BY <1>1, <1>2, <1>5, <1>7 DEF SentInv

\* The last routine queued is the one of this call, and says what became of it;
\* without one the thread goes on waiting, unless it is misled.
LEMMA SleepExKeepsSent ==
  ASSUME ControlInv, QueueInv, SentInv, SleepEx, ~misled'
  PROVE  SentInv'
<1>1. /\ pc = "wait" /\ ctx = "none" /\ routines # <<>> /\ routines' = <<>>
      /\ UNCHANGED <<options, pc, batch_no, batch, call, requests, copies>>
  BY DEF SleepEx, setting, chain
<1>2. DOMAIN routines = 1 .. Len(routines) /\ Len(routines) \in Nat \ {0}
  BY <1>1 DEF QueueInv
<1>3. CopiesInv'
  BY <1>1 DEF SentInv, CopiesInv
<1>4. Earlier(Len(routines))'
  BY <1>1 DEF Earlier
<1>5. CASE /\ requests = {[call |-> call, batch |-> batch]}
           /\ Earlier(Len(routines)) /\ copies[batch] = 0
  <2>1. Own = {}
    BY <1>2, <1>5 DEF Own, Earlier
  <2>2. ctx' = "none"
    BY <1>1, <2>1 DEF SleepEx
  <2>3. WaitInv'
    BY <1>1, <1>4, <1>5, <2>2 DEF WaitInv
  <2> QED
    BY <1>1, <1>3, <2>3 DEF SentInv
<1>6. ASSUME requests = {}, NEW outcome \in Outcome, Answered(outcome),
             copies[batch] = IF outcome = "ok" THEN 1 ELSE 0
      PROVE  SentInv'
  <2>1. /\ routines[Len(routines)] = [call |-> call, outcome |-> outcome]
        /\ Earlier(Len(routines) - 1)
    BY <1>1, <1>6 DEF Answered
  <2>2. Own = {Len(routines)}
    BY <1>2, <2>1 DEF Own, Earlier
  <2>3. Stale = {}
    BY <1>2, <2>2 DEF Stale
  <2>4. ctx' = outcome
    BY <2>1, <2>2, <2>3 DEF SleepEx
  <2>5. WaitInv'
    BY <1>1, <1>6, <2>4 DEF WaitInv, Answered
  <2> QED
    BY <1>1, <1>3, <2>5 DEF SentInv
<1> QED
  BY <1>1, <1>5, <1>6 DEF SentInv, WaitInv

\* The wait ends with what became of this call.
LEMMA WaitEndsKeepsSent ==
  ASSUME ControlInv, SentInv, WaitEnds
  PROVE  SentInv'
<1>1. /\ pc = "wait" /\ ctx # "none" /\ AttemptEnds(ctx)
      /\ UNCHANGED <<options, requests, copies>>
  BY DEF WaitEnds, setting, io, outside
<1>2. /\ requests = {} /\ ctx \in Outcome /\ Sending
      /\ copies[batch] = IF ctx = "ok" THEN 1 ELSE 0
  BY <1>1 DEF SentInv, WaitInv, Answered, Sending
<1>3. CASE ctx = "ok"
  <2>1. \A n \in 0 .. options.batchCount - 1 :
          copies'[n] = IF n = batch THEN 1 ELSE copies[n]
    BY <1>1, <1>2, <1>3
  <2> QED
    BY <1>1, <1>2, <1>3, <2>1, ReportedKeepsSent DEF AttemptEnds
<1>4. CASE ctx # "ok"
  BY <1>1, <1>2, <1>4, AttemptFailedKeepsSent DEF AttemptEnds
<1> QED
  BY <1>3, <1>4

\* Every step that does not mislead keeps it.
LEMMA SentInvPreserved ==
  ASSUME ControlInv, QueueInv, SentInv, [UsoNext]_uso_vars, ~misled'
  PROVE  SentInv'
<1>1. CASE UNCHANGED uso_vars
  BY <1>1 DEF uso_vars, setting, chain, io, outside, SentInv, CopiesInv,
              WaitInv, Answered, Earlier
<1>2. CASE SetUpStep \/ BuildBatch \/ BuildFails \/ NoSendMsg \/ CloseSocket
  <2>1. /\ UNCHANGED <<options, batch_no, requests, copies>>
        /\ pc \notin {"wait", "failed"} /\ pc' # "wait"
    BY <1>2 DEF SetUpStep, SetUp, Resolve, CreateSocket, SetReuseAddr,
       SetSendBuffer, RefuseIPv6, BindFails, BindSocket, NameSocket,
       CloseAndThrow, GoesOn, BuildBatch, BuildFails, NoSendMsg, CloseSocket,
       setting, sending, io, outside
  <2> QED
    BY <2>1 DEF SentInv, CopiesInv
<1>3. CASE ConfigureFails
  <2>1. pc = "attempt" /\ AttemptFailed /\ UNCHANGED <<options, requests, copies>>
    BY <1>3 DEF ConfigureFails, setting, io, outside
  <2> QED
    BY <2>1, NothingSentYet, AttemptFailedKeepsSent
<1>4. CASE SendBlocking \/ SendRefused \/ SendAtOnce
  <2>1. pc = "attempt" /\ UNCHANGED <<options, requests>>
    BY <1>4 DEF SendBlocking, SendRefused, SendAtOnce, setting
  <2>2. \E outcome \in Outcome : Accepts(batch, outcome) /\ AttemptEnds(outcome)
    BY <1>4 DEF SendBlocking, SendRefused, SendAtOnce, Outcome
  <2> QED
    BY <2>1, <2>2, DecidedKeepsSent
<1> QED
  BY <1>1, <1>2, <1>3, <1>4, SendPlainKeepsSent, SendLaterKeepsSent,
     KernelCompletesKeepsSent, SleepExKeepsSent, WaitEndsKeepsSent
  DEF UsoNext, ClientStep

-----------------------------------------------------------------------------
(***************************************************************************)
(* When a routine can mislead a later call                                 *)
(***************************************************************************)

\* A kernel that takes nothing at once leaves no routine behind.
LEMMA MixedInvPreserved ==
  ASSUME UsoInv, [UsoNext]_uso_vars
  PROVE  MixedInv'
<1> USE DEF MixedInv, MisledOnlyByMixing, UsoInv
<1>1. CASE SleepEx
  <2>1. /\ UNCHANGED <<options, kernel, pc, call>>
        /\ pc = "wait" /\ routines' = <<>>
    BY <1>1 DEF SleepEx, setting, chain
  <2>2. CASE "at_once" \in kernel
    BY <2>1, <2>2
  <2>3. CASE "at_once" \notin kernel
    <3>1. Own = DOMAIN routines /\ Stale = {}
      BY <2>3 DEF Own, Stale
    <3>2. misled' = misled
      BY <1>1, <3>1 DEF SleepEx, ControlInv
    <3> QED
      BY <2>1, <2>3, <3>2
  <2> QED
    BY <2>2, <2>3
<1>2. CASE WaitEnds
  <2>1. /\ UNCHANGED <<options, kernel, call, routines, misled>>
        /\ pc = "wait" /\ ctx # "none" /\ pc' # "wait"
    BY <1>2 DEF WaitEnds, AttemptEnds, AttemptFailed, Reported, setting, io,
                outside
  <2>2. "at_once" \notin kernel => routines = <<>>
    BY <2>1 DEF SentInv, WaitInv, Answered
  <2> QED
    BY <2>1, <2>2
<1>3. CASE KernelCompletes
  <2>1. PICK r \in requests, outcome \in Outcome :
          /\ routines' = Append(routines, [call |-> r.call, outcome |-> outcome])
          /\ Accepts(r.batch, outcome)
          /\ UNCHANGED <<options, kernel, pc, call>>
    BY <1>3 DEF KernelCompletes, setting, chain
  <2>2. misled' = misled
    BY <2>1 DEF Accepts
  <2>3. CASE "at_once" \in kernel
    BY <2>1, <2>2, <2>3
  <2>4. CASE "at_once" \notin kernel
    <3>1. pc = "wait" /\ r.call = call
      BY <2>1, <2>4 DEF SentInv, WaitInv
    <3> DEFINE routine == [call |-> r.call, outcome |-> outcome]
    <3>2. routines \in Seq([call : Nat, outcome : Outcome])
      BY DEF QueueInv
    <3>3. routine.call = call
      BY <3>1
    <3>4. routines' = Append(routines, routine)
      BY <2>1
    <3> HIDE DEF routine
    <3>5. \A k \in DOMAIN routines' :
            \/ routines'[k] = routine
            \/ k \in DOMAIN routines /\ routines'[k] = routines[k]
      BY <3>2, <3>4
    <3>6. \A k \in DOMAIN routines' : routines'[k].call = call
      BY <2>4, <3>3, <3>5
    <3> QED
      BY <2>1, <2>2, <3>1, <3>6
  <2> QED
    BY <2>3, <2>4
<1>4. CASE SendLater
  BY <1>4 DEF SendLater, setting, outside, QueueInv
<1>5. CASE SendAtOnce
  <2>1. /\ UNCHANGED <<options, kernel, misled>> /\ "at_once" \in kernel
        /\ pc' # "wait"
    BY <1>5 DEF SendAtOnce, setting, Accepts, AttemptEnds, AttemptFailed,
                Reported
  <2> QED
    BY <2>1
<1>6. CASE \/ SetUpStep \/ BuildBatch \/ BuildFails \/ NoSendMsg \/ SendPlain
           \/ ConfigureFails \/ SendBlocking \/ SendRefused \/ CloseSocket
  <2>1. /\ UNCHANGED <<options, kernel, routines, misled>>
        /\ pc # "wait" /\ pc' # "wait"
    BY <1>6 DEF SetUpStep, SetUp, Resolve, CreateSocket, SetReuseAddr,
       SetSendBuffer, RefuseIPv6, BindFails, BindSocket, NameSocket,
       CloseAndThrow, GoesOn, BuildBatch, BuildFails, NoSendMsg, SendPlain,
       ConfigureFails, SendBlocking, SendRefused, CloseSocket, Accepts,
       AttemptEnds, AttemptFailed, Reported, setting, sending, io, outside
  <2> QED
    BY <2>1
<1>7. CASE UNCHANGED uso_vars
  BY <1>7 DEF uso_vars, setting, chain, io, outside
<1> QED
  BY <1>1, <1>2, <1>3, <1>4, <1>5, <1>6, <1>7 DEF UsoNext, ClientStep

\* Every step keeps the invariant.
LEMMA UsoNextPreservesInv ==
  ASSUME UsoInv, [UsoNext]_uso_vars
  PROVE  UsoInv'
<1>1. ControlInv' /\ QueueInv'
  BY ControlInvPreserved, QueueInvPreserved DEF UsoInv
<1>2. ~misled' => ~misled
  BY DEF UsoNext, ClientStep, SetUpStep, BuildBatch, BuildFails, NoSendMsg,
     SendPlain, ConfigureFails, SendBlocking, SendRefused, SendAtOnce,
     SendLater, SleepEx, WaitEnds, CloseSocket, KernelCompletes, Accepts,
     uso_vars, sending, outside
<1>3. ~misled' => SentInv'
  BY <1>2, SentInvPreserved DEF UsoInv
<1> QED
  BY <1>1, <1>3, MixedInvPreserved DEF UsoInv

-----------------------------------------------------------------------------
(***************************************************************************)
(* Theorems about the sending                                              *)
(***************************************************************************)

\* The invariant holds of every run.
THEOREM UsoInvariance == UsoSpec => []UsoInv
<1>1. UsoInv /\ [UsoNext]_uso_vars => UsoInv'
  BY UsoNextPreservesInv
<1> QED
  BY <1>1, UsoInitEstablishesInv, PTL DEF UsoSpec

\* Types, with any kernel: there is a way left to try whenever one is tried.
THEOREM UsoTypeCorrect == UsoSpec => []UsoTypeOK
<1>1. UsoInv => UsoTypeOK
  BY DEF UsoInv, ControlInv, SettingUp, Sending, UsoTypeOK, Ways
<1> QED
  BY <1>1, UsoInvariance, PTL

\* Every batch reported as sent was accepted as a whole exactly once, however
\* many ways failed before, for any number of batches and any kernel, until a
\* routine of an earlier call answers for a later one
\* (uso_send_win.cpp:529, 599-681, client.cpp:36-45).
THEOREM EachBatchSentOnce == UsoSpec => []SentOnce
<1>1. UsoInv => SentOnce
  <2> SUFFICES ASSUME UsoInv, ~misled PROVE SentOnce
    BY DEF SentOnce
  <2>1. /\ options.batchCount \in Nat \ {0}
        /\ DOMAIN copies = 0 .. options.batchCount - 1
        /\ batch_no \in Nat
    BY BatchCountType DEF UsoInv, ControlInv
  <2>2. \A n \in 0 .. options.batchCount - 1 :
          copies[n] \in {0, 1} /\ (n < batch_no => copies[n] = 1)
    BY <2>1 DEF UsoInv, SentInv, CopiesInv
  <2> QED
    BY <2>1, <2>2 DEF SentOnce
<1> QED
  BY <1>1, UsoInvariance, PTL

\* The one buffer is not overwritten while the kernel reads it, with any
\* kernel, until a routine of an earlier call answers for a later one
\* (client.cpp:118-132, uso_send_win.cpp:366-369).
THEOREM BufferIsStable == UsoSpec => []BufferStable
<1>1. UsoInv => BufferStable
  BY DEF UsoInv, SentInv, WaitInv, BufferStable
<1> QED
  BY <1>1, UsoInvariance, PTL

\* That takes --completion-routine and a kernel that takes some sends at once
\* and answers others later (uso_send_win.cpp:311-369).
THEOREM OnlyMixingMisleads == UsoSpec => []MisledOnlyByMixing
<1>1. UsoInv => MisledOnlyByMixing
  BY DEF UsoInv, MixedInv
<1> QED
  BY <1>1, UsoInvariance, PTL

-----------------------------------------------------------------------------
(***************************************************************************)
(* The address, the interface and the socket                               *)
(***************************************************************************)

\* bind_info is what resolve_uso_bind_address chose, and the socket is bound
\* from the set-up to the end of the run.
SocketInv ==
  /\ host \in Hosts /\ dest \in Destinations
  /\ SettingUp \/ Sending \/ pc \in {"build", "close", "finished", "failed"}
  /\ pc # "resolve" => bind_info = resolve_uso_bind_address
  /\ pc \in {"resolve", "create"} => native_socket = "none"
  /\ pc \in {"reuse_addr", "send_buffer", "bind"} => native_socket = "open"
  /\ pc \in {"name", "build", "plain", "attempt", "wait", "close"}
       => native_socket = "bound"
  /\ pc = "finished" => native_socket = "closed"
  /\ pc = "failed" => native_socket # "open"

\* Once chosen, address, interface and socket stay as they are until the end.
LEMMA SocketInvPreserved ==
  ASSUME SocketInv, [UsoNext]_uso_vars
  PROVE  SocketInv'
<1>1. CASE SetUpStep
  <2>1. UNCHANGED <<host, source, dest>>
    BY <1>1 DEF SetUpStep, SetUp, Resolve, CreateSocket, SetReuseAddr,
       SetSendBuffer, RefuseIPv6, BindFails, BindSocket, NameSocket,
       CloseAndThrow, GoesOn
  <2>2. resolve_uso_bind_address' = resolve_uso_bind_address
    BY <2>1 DEF resolve_uso_bind_address, bind_option_is_wildcard, HasEgress,
                UsableOn, IndexMatches, Eligible, ipv4_on_interface_index,
                interface_of_source, ipv4_interface_index
  <2> QED
    BY <1>1, <2>1, <2>2 DEF SetUpStep, SetUp, Resolve, CreateSocket,
       SetReuseAddr, SetSendBuffer, RefuseIPv6, BindFails, BindSocket,
       NameSocket, CloseAndThrow, GoesOn, SocketInv, SettingUp, Sending
<1>2. CASE CloseSocket
  <2>1. UNCHANGED <<host, source, dest, bind_info>>
    BY <1>2 DEF CloseSocket
  <2>2. resolve_uso_bind_address' = resolve_uso_bind_address
    BY <2>1 DEF resolve_uso_bind_address, bind_option_is_wildcard, HasEgress,
                UsableOn, IndexMatches, Eligible, ipv4_on_interface_index,
                interface_of_source, ipv4_interface_index
  <2> QED
    BY <1>2, <2>1, <2>2 DEF CloseSocket, SocketInv, SettingUp, Sending
<1>3. CASE \/ BuildBatch \/ BuildFails \/ NoSendMsg \/ SendPlain
           \/ ConfigureFails \/ SendBlocking \/ SendRefused \/ SendAtOnce \/ SendLater
           \/ SleepEx \/ WaitEnds \/ KernelCompletes \/ UNCHANGED uso_vars
  <2>1. UNCHANGED <<host, source, dest, bind_info, native_socket>>
    BY <1>3 DEF BuildBatch, BuildFails, NoSendMsg, SendPlain, ConfigureFails,
       SendBlocking, SendRefused, SendAtOnce, SendLater, SleepEx, WaitEnds, KernelCompletes,
       uso_vars, setting, bound
  <2>2. resolve_uso_bind_address' = resolve_uso_bind_address
    BY <2>1 DEF resolve_uso_bind_address, bind_option_is_wildcard, HasEgress,
                UsableOn, IndexMatches, Eligible, ipv4_on_interface_index,
                interface_of_source, ipv4_interface_index
  <2>3. \/ pc' = pc
        \/ /\ pc \in {"build", "plain", "attempt", "wait"}
           /\ pc' \in {"build", "plain", "attempt", "wait", "close", "failed"}
    BY <1>3 DEF BuildBatch, BuildFails, NoSendMsg, SendPlain, ConfigureFails,
       SendBlocking, SendRefused, SendAtOnce, SendLater, SleepEx, WaitEnds, KernelCompletes,
       uso_vars, chain, AttemptEnds, AttemptFailed, Reported
  <2> QED
    BY <2>1, <2>2, <2>3 DEF SocketInv, SettingUp, Sending
<1> QED
  BY <1>1, <1>2, <1>3 DEF UsoNext, ClientStep

\* The invariant holds throughout.
THEOREM SocketInvariance == UsoSpec => []SocketInv
<1>1. UsoInit => SocketInv
  BY DEF UsoInit, BindInit, SocketInv, SettingUp
<1>2. SocketInv /\ [UsoNext]_uso_vars => SocketInv'
  BY SocketInvPreserved
<1> QED
  BY <1>1, <1>2, PTL DEF UsoSpec

\* No error of the set-up leaves an unbound socket behind, and a run that ends
\* well has closed its socket (uso_send_win.cpp:684-749, client.cpp:135).
THEOREM SocketAlwaysReleased == UsoSpec => []SocketReleased
<1>1. SocketInv => SocketReleased
  BY DEF SocketInv, SocketReleased
<1> QED
  BY <1>1, SocketInvariance, PTL

\* GetBestInterfaceEx has an answer for an IPv4 --dest.
LEMMA DestIsRouted ==
  ASSUME SocketInv, dest \notin IPv6
  PROVE  dest \in DOMAIN host.route
BY BindAssumption DEF SocketInv

\* On every host whose interfaces have distinct indices, with --source 0.0.0.0
\* the client is bound to an address of the interface that routes to --dest
\* when there is one, and to none when there is none
\* (uso_send_win.cpp:185-267, 793-822).
THEOREM AlwaysBoundToEgress == UsoSpec => []BoundToEgress
<1>1. SocketInv => BoundToEgress
  <2> SUFFICES ASSUME SocketInv, IndicesDistinct, source = Unspecified,
                      dest \notin IPv6, dest \in DOMAIN host.route,
                      pc # "resolve"
               PROVE  OnEgress
    BY DestIsRouted DEF BoundToEgress, ChoosesEgress, SocketInv
  <2> DEFINE usable == UsableOn(host.route[dest])
  <2>1. /\ Len(host.unicast) \in Nat
        /\ DOMAIN host.unicast = 1 .. Len(host.unicast)
        /\ \A k \in DOMAIN host.unicast :
             Eligible(k) => host.unicast[k].if_index # NoInterface
    BY BindAssumption DEF SocketInv, Eligible
  <2>2. /\ \A k \in DOMAIN host.unicast : RoutesToDest(k) => k \in usable
        /\ host.route[dest] # NoInterface =>
             \A k \in usable : RoutesToDest(k)
    BY DEF UsableOn, IndexMatches, RoutesToDest, IndicesDistinct
  <2>3. bind_info = resolve_uso_bind_address
    BY DEF SocketInv
  <2>4. CASE \E k \in DOMAIN host.unicast : RoutesToDest(k)
    <3>1. usable # {} /\ host.route[dest] # NoInterface
      BY <2>1, <2>2, <2>4 DEF RoutesToDest
    <3>2. usable \in SUBSET (0 .. Len(host.unicast))
      BY <2>1 DEF UsableOn
    <3>3. Min(usable) \in usable
      <4> HIDE DEF usable
      <4> QED
        BY <2>1, <3>1, <3>2, MinOfNaturals
    <3>4. HasEgress
      BY <3>1 DEF HasEgress
    <3>5. /\ bind_info.auto_selected
          /\ bind_info.interface_index = host.route[dest]
          /\ bind_info.bind_address = host.unicast[Min(usable)].address
      BY <2>3, <3>4 DEF resolve_uso_bind_address, bind_option_is_wildcard,
                        ipv4_on_interface_index
    <3>6. Min(usable) \in DOMAIN host.unicast /\ RoutesToDest(Min(usable))
      BY <2>2, <3>1, <3>3 DEF UsableOn
    <3> QED
      BY <2>4, <3>5, <3>6 DEF OnEgress
  <2>5. CASE ~ \E k \in DOMAIN host.unicast : RoutesToDest(k)
    <3>1. ~HasEgress
      BY <2>2, <2>5 DEF HasEgress, UsableOn
    <3>2. bind_info.bind_address = Unspecified
      BY <2>3, <3>1 DEF resolve_uso_bind_address, bind_option_is_wildcard
    <3> QED
      BY <2>5, <3>2 DEF OnEgress
  <2> QED
    BY <2>4, <2>5
<1> QED
  BY <1>1, SocketInvariance, PTL

\* A socket that is bound is bound to an IPv4 address of the host.
BoundInv ==
  native_socket = "bound" =>
    /\ pc # "resolve"
    /\ bind_info.bind_address \notin IPv6
    /\ Bindable

\* bind is called once, with the address that stays in bind_info.
LEMMA BoundInvPreserved ==
  ASSUME SocketInv, BoundInv, [UsoNext]_uso_vars
  PROVE  BoundInv'
<1>1. CASE SetUpStep /\ ~BindSocket
  <2>1. CASE ~NameSocket
    BY <1>1, <2>1 DEF SetUpStep, SetUp, Resolve, CreateSocket, SetReuseAddr,
       SetSendBuffer, RefuseIPv6, BindFails, CloseAndThrow, GoesOn, BoundInv,
       SocketInv
  <2>2. CASE NameSocket
    <3>1. UNCHANGED <<host, bind_info, native_socket>> /\ pc' # "resolve"
      BY <2>2 DEF NameSocket
    <3> QED
      BY <3>1 DEF BoundInv, Bindable
  <2> QED
    BY <2>1, <2>2
<1>2. CASE BindSocket
  <2>1. UNCHANGED <<host, bind_info>> /\ pc' # "resolve"
        /\ bind_info.bind_address \notin IPv6 /\ Bindable
    BY <1>2 DEF BindSocket
  <2> QED
    BY <2>1 DEF BoundInv, Bindable
<1>3. CASE CloseSocket
  BY <1>3 DEF CloseSocket, BoundInv
<1>4. CASE \/ BuildBatch \/ BuildFails \/ NoSendMsg \/ SendPlain
           \/ ConfigureFails \/ SendBlocking \/ SendRefused \/ SendAtOnce \/ SendLater
           \/ SleepEx \/ WaitEnds \/ KernelCompletes \/ UNCHANGED uso_vars
  <2>1. UNCHANGED <<host, bind_info, native_socket>>
    BY <1>4 DEF BuildBatch, BuildFails, NoSendMsg, SendPlain, ConfigureFails,
       SendBlocking, SendRefused, SendAtOnce, SendLater, SleepEx, WaitEnds, KernelCompletes,
       uso_vars, setting, bound
  <2>2. pc' = pc \/ pc' \in {"build", "plain", "attempt", "wait", "close", "failed"}
    BY <1>4 DEF BuildBatch, BuildFails, NoSendMsg, SendPlain, ConfigureFails,
       SendBlocking, SendRefused, SendAtOnce, SendLater, SleepEx, WaitEnds, KernelCompletes,
       uso_vars, chain, AttemptEnds, AttemptFailed, Reported
  <2> QED
    BY <2>1, <2>2 DEF BoundInv, Bindable
<1> QED
  BY <1>1, <1>2, <1>3, <1>4 DEF UsoNext, ClientStep

\* On a host whose interfaces have distinct indices and that routes its own
\* addresses to their interfaces, IP_PKTINFO names an address and the interface that has it, chosen or given by --source
\* (uso_send_win.cpp:476-489, 800-821).
THEOREM PktinfoNamesItsInterface == UsoSpec => []PktinfoConsistent
<1>1. UsoInit => BoundInv
  BY DEF UsoInit, BindInit, BoundInv
<1>2. SocketInv /\ BoundInv /\ [UsoNext]_uso_vars => BoundInv'
  BY BoundInvPreserved
<1>3. SocketInv /\ BoundInv => PktinfoConsistent
  <2> SUFFICES ASSUME SocketInv, BoundInv, native_socket = "bound",
                      IndicesDistinct, RoutesItself, bind_info.bind_address # Unspecified,
                      bind_info.interface_index # NoInterface
               PROVE  \E k \in DOMAIN host.unicast :
                        /\ host.unicast[k].address = bind_info.bind_address
                        /\ host.unicast[k].if_index = bind_info.interface_index
    BY DEF PktinfoConsistent
  <2>1. /\ Len(host.unicast) \in Nat
        /\ DOMAIN host.unicast = 1 .. Len(host.unicast)
        /\ \A k \in DOMAIN host.unicast :
             host.unicast[k].address \notin IPv6 =>
               host.unicast[k].if_index # NoInterface
    BY BindAssumption DEF SocketInv
  <2>2. bind_info = resolve_uso_bind_address
    BY DEF SocketInv, BoundInv
  <2>3. CASE ~bind_option_is_wildcard
    <3>1. bind_info.bind_address = source
          /\ bind_info.interface_index = interface_of_source
      BY <2>2, <2>3 DEF resolve_uso_bind_address
    <3>2. PICK k \in DOMAIN host.unicast : host.unicast[k].address = source
      BY <3>1 DEF BoundInv, Bindable
    <3>3. source \notin IPv6 /\ source # Unspecified
      BY <2>3, <3>1 DEF BoundInv, bind_option_is_wildcard
    <3>4. host.route[source] = host.unicast[k].if_index
      BY <3>2, <3>3 DEF RoutesItself
    <3>5. interface_of_source = host.unicast[k].if_index
      BY <2>1, <3>2, <3>3, <3>4 DEF interface_of_source, ipv4_interface_index
    <3> QED
      BY <3>1, <3>2, <3>5
  <2>4. CASE bind_option_is_wildcard
    <3> DEFINE usable == UsableOn(host.route[dest])
    <3>1. HasEgress
      BY <2>2, <2>4 DEF resolve_uso_bind_address
    <3>2. /\ bind_info.interface_index = host.route[dest]
          /\ bind_info.bind_address = host.unicast[Min(usable)].address
      BY <2>2, <2>4, <3>1 DEF resolve_uso_bind_address, ipv4_on_interface_index
    <3>3. usable # {} /\ usable \in SUBSET (0 .. Len(host.unicast))
      BY <2>1, <3>1 DEF HasEgress, UsableOn
    <3>4. Min(usable) \in usable
      <4> HIDE DEF usable
      <4> QED
        BY <2>1, <3>3, MinOfNaturals
    <3>5. /\ Min(usable) \in DOMAIN host.unicast
          /\ host.unicast[Min(usable)].if_index = host.route[dest]
      <4>1. dest \in DOMAIN host.route /\ host.route[dest] # NoInterface
        BY <3>1, DestIsRouted DEF HasEgress, SocketInv
      <4> QED
        BY <3>4, <4>1 DEF UsableOn, IndexMatches, IndicesDistinct
    <3> QED
      BY <3>2, <3>5
  <2> QED
    BY <2>3, <2>4
<1> QED
  BY <1>1, <1>2, <1>3, SocketInvariance, PTL DEF UsoSpec

=============================================================================
