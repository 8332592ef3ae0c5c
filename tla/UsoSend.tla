------------------------------ MODULE UsoSend ------------------------------
(***************************************************************************)
(* The Windows client: run_client's loop, send_buffer_uso's chain of       *)
(* attempts (uso_send_win.cpp) and the completion routine of an overlapped *)
(* WSASendMsg, against a kernel that accepts, refuses, accepts in part, or *)
(* answers later.                                                          *)
(*                                                                         *)
(* The client is one thread.  A completion routine is queued by the kernel *)
(* and runs only while that thread is in SleepEx(16, TRUE).  It writes     *)
(* through a pointer to the WsaSendMsgIoContext of its own call, a local   *)
(* variable.  When that call has returned the pointer dangles: the write   *)
(* changes the context of the call that is waiting now, whose frame is at  *)
(* the same place, or something that nobody reads.                         *)
(***************************************************************************)
EXTENDS UsoBind, FiniteSets

CONSTANTS
  SendOptions,   \* ClientOptions to try
  Kernels,       \* sets of ways a kernel may take an overlapped send
  Uint32Values   \* how many values a std::uint32_t has

Outcome == {"ok", "short", "error"}

ASSUME UsoSendAssumption ==
  /\ SendOptions \subseteq [batchCount : Nat \ {0}, batchSize : Nat \ {0},
                            mss : Nat, noPktinfo : BOOLEAN,
                            completionRoutine : BOOLEAN]
  /\ Kernels \subseteq SUBSET {"at_once", "later"}
  /\ Uint32Values \in Nat \ {0}

VARIABLES
  options,
  kernel,       \* element of Kernels
  batch_no,     \* run_client's i: batches reported as sent
  batch,        \* the batch the client's one buffer holds
  attempts,     \* the try_wsasendmsg_uso calls left, the current one first
  path,         \* UsoSendResult::path of the last batch reported
  call,         \* invoke_wsasendmsg calls so far, the number of the last one
  ctx,          \* its WsaSendMsgIoContext: "none" until completed is set
  requests,     \* overlapped sends the kernel works on
  routines,     \* completion routines queued to the thread
  copies,       \* history: whole copies of each batch the kernel accepted
  failures,     \* history: sends that ended with an error
  misled        \* history: an earlier call's routine has set a later one's ctx

chain == <<pc, batch_no, batch, attempts, path>>
io == <<call, ctx, requests, routines>>
bound == <<host, source, dest, bind_info, native_socket>>
setting == <<options, kernel, bound>>
outside == <<copies, failures, misled>>
sending == <<batch_no, batch, attempts, path, io, outside>>
uso_vars == <<setting, chain, io, outside>>

\* The batch buffer before the first build_batch
NoBatch == options.batchCount

UsoInit ==
  /\ BindInit
  /\ options \in SendOptions
  /\ kernel \in Kernels
  /\ batch_no = 0 /\ batch = NoBatch
  /\ attempts = <<>> /\ path = "None"
  /\ call = 0 /\ ctx = "none" /\ requests = {} /\ routines = <<>>
  /\ copies = [i \in 0 .. options.batchCount - 1 |-> 0]
  /\ failures = 0 /\ misled = FALSE

\* Sent in one sendto: no USO, or nothing to segment.
Plain ==
  \/ options.mss = 0
  \/ options.batchSize < options.mss
  \/ (options.batchSize + options.mss - 1) \div options.mss = 1

specific_bind == bind_info.bind_address # Unspecified

\* The calls of try_wsasendmsg_uso, in their order.
Attempts ==
  IF options.noPktinfo THEN <<"BindOnly">>
  ELSE (IF bind_info.interface_index # NoInterface /\ specific_bind
        THEN <<"PktinfoIfindex">> ELSE <<>>)
       \o <<"BindOnly">>
       \o (IF specific_bind THEN <<"PktinfoIfindex">> ELSE <<>>)

-----------------------------------------------------------------------------
\* What the kernel does with a send of batch i
Accepts(i, outcome) ==
  /\ copies' = IF outcome = "ok" THEN [copies EXCEPT ![i] = @ + 1] ELSE copies
  /\ failures' = IF outcome = "error" THEN failures + 1 ELSE failures
  /\ UNCHANGED misled

\* send_batch_windows returned: the next batch, or the end of the run.
Reported(how) ==
  /\ path' = how
  /\ batch_no' = batch_no + 1
  /\ pc' = IF batch_no + 1 < options.batchCount THEN "build" ELSE "close"
  /\ UNCHANGED batch

\* Mutant: the chain has no end.
AttemptFailedAgain ==
  /\ attempts' = Tail(attempts)
  /\ pc' = "attempt"
  /\ UNCHANGED <<batch_no, batch, path>>

\* send_buffer_uso tries the next way, or run_client throws.
AttemptFailed ==
  /\ attempts' = Tail(attempts)
  /\ pc' = IF Tail(attempts) = <<>> THEN "failed" ELSE "attempt"
  /\ UNCHANGED <<batch_no, batch, path>>

\* Mutant: a send accepted in part is taken for a sent batch.
AttemptEndsUnlessError(outcome) ==
  IF outcome # "error"
  THEN Reported(Head(attempts)) /\ attempts' = <<>>
  ELSE AttemptFailed

\* The end of try_wsasendmsg_uso, given what invoke_wsasendmsg learnt.
AttemptEnds(outcome) ==
  IF outcome = "ok"
  THEN Reported(Head(attempts)) /\ attempts' = <<>>
  ELSE AttemptFailed

-----------------------------------------------------------------------------
\* build_batch refuses a batch_total that is 0, or no more than seq, when cut
\* down to 32 bits.
Buildable ==
  batch_no % Uint32Values < options.batchCount % Uint32Values

BuildBatch ==
  /\ pc = "build"
  /\ Buildable
  /\ batch' = batch_no
  /\ attempts' = IF Plain THEN <<>> ELSE Attempts
  /\ pc' = IF Plain THEN "plain" ELSE "attempt"
  /\ UNCHANGED <<setting, batch_no, path, io, outside>>

\* build_batch throws, before it writes to the buffer.
BuildFails ==
  /\ pc = "build"
  /\ ~Buildable
  /\ pc' = "failed"
  /\ UNCHANGED <<setting, batch_no, batch, attempts, path, io, outside>>

\* SIO_GET_EXTENSION_FUNCTION_POINTER finds no WSASendMsg.
NoSendMsg ==
  /\ pc = "attempt"
  /\ attempts = Attempts
  /\ call = 0
  /\ pc' = "failed"
  /\ UNCHANGED <<setting, batch_no, batch, attempts, path, io, outside>>

\* send_plain_datagram: an error or a short send ends the run.
SendPlain ==
  /\ pc = "plain"
  /\ \E outcome \in Outcome :
       /\ Accepts(batch, outcome)
       /\ IF outcome = "ok" THEN Reported("Plain")
          ELSE pc' = "failed" /\ UNCHANGED <<batch_no, batch, path>>
  /\ UNCHANGED <<setting, attempts, io>>

\* UDP_SEND_MSG_SIZE is refused: WSASendMsg is not called.
ConfigureFails ==
  /\ pc = "attempt"
  /\ AttemptFailed
  /\ UNCHANGED <<setting, io, outside>>

\* WSASendMsg without overlapped structure blocks until it is decided.
SendBlocking ==
  /\ pc = "attempt"
  /\ ~options.completionRoutine
  /\ \E outcome \in Outcome : Accepts(batch, outcome) /\ AttemptEnds(outcome)
  /\ call' = call + 1
  /\ UNCHANGED <<setting, ctx, requests, routines>>

\* Overlapped, and refused at once: no completion routine is queued.
SendRefused ==
  /\ pc = "attempt"
  /\ options.completionRoutine
  /\ Accepts(batch, "error")
  /\ AttemptEnds("error")
  /\ call' = call + 1
  /\ UNCHANGED <<setting, ctx, requests, routines>>

\* Overlapped, and done at once: WSASendMsg returns 0, the bytes are known,
\* and the completion routine is queued all the same.
SendAtOnce ==
  /\ pc = "attempt"
  /\ options.completionRoutine
  /\ "at_once" \in kernel
  /\ call' = call + 1
  /\ \E outcome \in {"ok", "short"} :
       /\ Accepts(batch, outcome)
       /\ AttemptEnds(outcome)
       /\ routines' = Append(routines, [call |-> call', outcome |-> outcome])
  /\ UNCHANGED <<setting, ctx, requests>>

\* Mutant: WSA_IO_PENDING is taken for success, without waiting.
SendLaterUnawaited ==
  /\ pc = "attempt"
  /\ options.completionRoutine
  /\ "later" \in kernel
  /\ call' = call + 1
  /\ requests' = requests \cup {[call |-> call', batch |-> batch]}
  /\ AttemptEnds("ok")
  /\ UNCHANGED <<setting, ctx, routines, outside>>

\* WSA_IO_PENDING: the thread waits for the routine with a fresh context.
SendLater ==
  /\ pc = "attempt"
  /\ options.completionRoutine
  /\ "later" \in kernel
  /\ call' = call + 1
  /\ requests' = requests \cup {[call |-> call', batch |-> batch]}
  /\ ctx' = "none"
  /\ pc' = "wait"
  /\ UNCHANGED <<setting, batch_no, batch, attempts, path, routines, outside>>

\* The answer to an overlapped send, while the client's process lives.
KernelCompletes ==
  \E r \in requests, outcome \in Outcome :
    /\ pc \notin {"finished", "failed"}
    /\ Accepts(r.batch, outcome)
    /\ requests' = requests \ {r}
    /\ routines' = Append(routines, [call |-> r.call, outcome |-> outcome])
    /\ UNCHANGED <<setting, chain, call, ctx>>

\* Mutant: SleepEx(16, FALSE).
SleepNotAlertable ==
  /\ pc = "wait"
  /\ ctx = "none"
  /\ routines # <<>>
  /\ UNCHANGED uso_vars

\* The alertable wait runs every queued routine.  This call's own sets ctx; an
\* earlier call's that runs after it, or alone, hits ctx or does not.
Own == {k \in DOMAIN routines : routines[k].call = call}
Stale == {k \in DOMAIN routines : k \notin Own /\ \A n \in Own : n < k}

SleepEx ==
  /\ pc = "wait"
  /\ ctx = "none"
  /\ routines # <<>>
  /\ \/ \E k \in Own \cup Stale :
          ctx' = routines[k].outcome /\ misled' = (misled \/ k \in Stale)
     \/ Own = {} /\ UNCHANGED <<ctx, misled>>
  /\ routines' = <<>>
  /\ UNCHANGED <<setting, chain, call, requests, copies, failures>>

\* Mutant: a call gives up after one SleepEx(16, TRUE).
WaitGivesUp ==
  /\ pc = "wait"
  /\ AttemptEnds(ctx)
  /\ UNCHANGED <<setting, io, outside>>

WaitEnds ==
  /\ pc = "wait"
  /\ ctx # "none"
  /\ AttemptEnds(ctx)
  /\ UNCHANGED <<setting, io, outside>>

-----------------------------------------------------------------------------
CloseSocket ==
  /\ pc = "close"
  /\ native_socket' = "closed"
  /\ pc' = "finished"
  /\ UNCHANGED <<options, kernel, host, source, dest, bind_info, sending>>

SetUpStep == SetUp /\ UNCHANGED <<options, kernel, sending>>

ClientStep ==
  \/ SetUpStep
  \/ BuildBatch \/ BuildFails \/ NoSendMsg \/ SendPlain
  \/ ConfigureFails \/ SendBlocking \/ SendRefused \/ SendAtOnce \/ SendLater
  \/ SleepEx \/ WaitEnds
  \/ CloseSocket

UsoNext == ClientStep \/ KernelCompletes

\* The thread is scheduled, and the kernel completes what it has taken.
UsoSpec ==
  /\ UsoInit /\ [][UsoNext]_uso_vars
  /\ WF_uso_vars(ClientStep)
  /\ WF_uso_vars(KernelCompletes)

-----------------------------------------------------------------------------
(***************************************************************************)
(* Properties                                                              *)
(***************************************************************************)

\* The types; the wait loop is entered with a way to send under way.
UsoTypeOK ==
  /\ pc \in {"resolve", "create", "reuse_addr", "send_buffer", "bind", "name",
             "build", "plain", "attempt", "wait", "close", "finished", "failed"}
  /\ batch_no \in 0 .. options.batchCount
  /\ batch \in 0 .. options.batchCount
  /\ attempts \in Seq({"BindOnly", "PktinfoIfindex"})
  /\ pc \in {"attempt", "wait"} => attempts # <<>>
  /\ path \in {"None", "Plain", "BindOnly", "PktinfoIfindex"}
  /\ call \in Nat /\ failures \in Nat
  /\ ctx \in {"none"} \cup Outcome
  /\ copies \in [0 .. options.batchCount - 1 -> Nat]
  /\ misled \in BOOLEAN

\* A batch is reported as sent exactly when one whole copy of it was accepted,
\* whatever attempts failed before, and no retry sends a second whole copy: as
\* long as no routine of an earlier call has answered for a later one
\* (uso_send_win.cpp:529, 599-681, client.cpp:36-45).
SentOnce ==
  ~misled => \A i \in DOMAIN copies : /\ copies[i] <= 1
                                     /\ i < batch_no => copies[i] = 1

\* The client does not build the next batch in its one buffer while the kernel
\* still reads the last one from it, as long as no routine of an earlier call
\* has ended the wait of a later one (client.cpp:118-132,
\* uso_send_win.cpp:366-369).
BufferStable == ~misled => \A r \in requests : r.batch = batch

\* A routine of an earlier call answers for a later one only with
\* --completion-routine, and only when the kernel takes some sends at once and
\* others later: nothing else lets a call return before its routine has run
\* (uso_send_win.cpp:311-369).
MisledOnlyByMixing ==
  misled => options.completionRoutine /\ {"at_once", "later"} \subseteq kernel

\* A run ends, with all batches sent or with an error: the wait for a
\* completion routine is not forever (uso_send_win.cpp:366-369).
RunEnds == <>(pc \in {"finished", "failed"})

\* README.md:18: "If `WSASendMsg` fails, the client reports the error and
\* exits".
FailureReported == pc = "finished" => failures = 0

=============================================================================
