---------------------------- MODULE RemoteLipsync ----------------------------
(***************************************************************************)
(* Callers of remote_generate_lipsync (screencastgen/remote_gpu.py:139)    *)
(* composed with the GPU server.  Each call submits one job and owns its   *)
(* id, so that calls are named by the jobs.  A call makes one HTTP request *)
(* at a time.  Requests and replies can be lost (MaxLost of them), the     *)
(* server can die, and a request the client gave up on can still reach the *)
(* server.                                                                 *)
(***************************************************************************)
EXTENDS LipsyncServer

CONSTANTS
    MaxPollFailures,   \* 5 in the code
    MaxLost            \* bound on lost requests and replies

ASSUME ClientAssumption ==
    /\ MaxPollFailures \in Nat \ {0}
    /\ MaxLost \in Nat

VARIABLES
    client,     \* where each call is
    result,     \* what the call is about to return or raise
    failures,   \* poll_failures
    stop,       \* calls whose should_cancel() answers True
    wire,       \* the request in flight: none, sent, accepted, answered, broken
    reply,      \* the reply to it, when answered
    late,       \* abandoned requests that may still reach the server
    lost        \* requests and replies lost so far

clientVars == <<client, result, failures, stop, wire, reply, late, lost>>
vars == <<serverVars, clientVars>>

Replies == {"ok", "unknown", "video", "refused"}
               \cup {"queued", "running"} \cup Terminal
InCall  == {"submit", "status", "cancel", "result", "delete"}

ClientTypeOK ==
    /\ client \in [Jobs -> {"idle", "deciding", "returned"} \cup InCall]
    /\ result \in [Jobs -> {"none", "video", "cancelled", "error"}]
    /\ failures \in [Jobs -> 0..MaxPollFailures]
    /\ stop \in SUBSET Jobs
    /\ wire \in [Jobs -> {"none", "sent", "accepted", "answered", "broken"}]
    /\ reply \in [Jobs -> Replies]
    /\ late \in SUBSET (Jobs \X {"submit", "cancel", "delete"})
    /\ lost \in 0..MaxLost

CallInit ==
    /\ Init
    /\ client = [j \in Jobs |-> "idle"]
    /\ result = [j \in Jobs |-> "none"]
    /\ failures = [j \in Jobs |-> 0]
    /\ stop = {}
    /\ wire = [j \in Jobs |-> "none"]
    /\ reply = [j \in Jobs |-> "ok"]
    /\ late = {}
    /\ lost = 0

-----------------------------------------------------------------------------
(* The client.                                                             *)

(* A state of "client" that is the name of a request has it on the wire.   *)
Goto(j, where) ==
    /\ client' = [client EXCEPT ![j] = where]
    /\ wire' = [wire EXCEPT ![j] = IF where \in InCall THEN "sent" ELSE "none"]

(* Every way out of the try block passes through the DELETE in "finally".  *)
Finally(j, outcome) ==
    /\ Goto(j, "delete")
    /\ result' = [result EXCEPT ![j] = outcome]

Answered(j, op) ==
    /\ client[j] = op
    /\ wire[j] = "answered"

Call(j) ==
    /\ client[j] = "idle"
    /\ Goto(j, "submit")
    /\ UNCHANGED <<serverVars, result, failures, stop, reply, late, lost>>

RequestStop(j) ==
    /\ j \notin stop
    /\ stop' = stop \cup {j}
    /\ UNCHANGED <<serverVars, client, result, failures, wire, reply, late, lost>>

(* The client also takes a video in the reply, or fails without an id, for *)
(* servers of an older version; this one always answers with an id.        *)
SubmitReply(j) ==
    /\ Answered(j, "submit")
    /\ Goto(j, "deciding")
    /\ UNCHANGED <<serverVars, result, failures, stop, reply, late, lost>>

(* Not the code: cancelling locally, without telling the server.           *)
DecideSilently(j) ==
    /\ client[j] = "deciding"
    /\ IF j \in stop
       THEN Finally(j, "cancelled")
       ELSE Goto(j, "status") /\ UNCHANGED result
    /\ UNCHANGED <<serverVars, failures, stop, reply, late, lost>>

(* The top of the loop: ask should_cancel, else sleep and poll.            *)
Decide(j) ==
    /\ client[j] = "deciding"
    /\ Goto(j, IF j \in stop THEN "cancel" ELSE "status")
    /\ UNCHANGED <<serverVars, result, failures, stop, reply, late, lost>>

(* A refused cancel is ignored like an accepted one.                       *)
CancelReply(j) ==
    /\ Answered(j, "cancel")
    /\ Finally(j, "cancelled")
    /\ UNCHANGED <<serverVars, failures, stop, reply, late, lost>>

PollSucceeds(j) ==
    /\ Answered(j, "status")
    /\ reply[j] # "unknown"
    /\ failures' = [failures EXCEPT ![j] = 0]
    /\ \/ /\ reply[j] = "done"
          /\ Goto(j, "result")
          /\ UNCHANGED result
       \/ /\ reply[j] \in {"failed", "cancelled"}
          /\ Finally(j, "error")
       \/ /\ reply[j] \in {"queued", "running"}
          /\ Goto(j, "deciding")
          /\ UNCHANGED result
    /\ UNCHANGED <<serverVars, stop, reply, late, lost>>

(* Not the code: one failure too many is tolerated.                        *)
CountPollFailureLate(j) ==
    /\ failures' = [failures EXCEPT ![j] = @ + 1]
    /\ IF failures[j] >= MaxPollFailures
       THEN Finally(j, "error")
       ELSE Goto(j, "deciding") /\ UNCHANGED result

(* Not the code: failing polls are retried for ever.                       *)
CountPollFailureNever(j) ==
    /\ Goto(j, "deciding")
    /\ UNCHANGED <<failures, result>>

(* An unanswered or refused poll counts; the last allowed one is fatal.    *)
CountPollFailure(j) ==
    /\ failures' = [failures EXCEPT ![j] = @ + 1]
    /\ IF failures[j] + 1 >= MaxPollFailures
       THEN Finally(j, "error")
       ELSE Goto(j, "deciding") /\ UNCHANGED result

PollUnknown(j) ==
    /\ Answered(j, "status")
    /\ reply[j] = "unknown"
    /\ CountPollFailure(j)
    /\ UNCHANGED <<serverVars, stop, reply, late, lost>>

ResultReply(j) ==
    /\ Answered(j, "result")
    /\ Finally(j, IF reply[j] = "video" THEN "video" ELSE "error")
    /\ UNCHANGED <<serverVars, failures, stop, reply, late, lost>>

DeleteReply(j) ==
    /\ Answered(j, "delete")
    /\ Goto(j, "returned")
    /\ UNCHANGED <<serverVars, result, failures, stop, reply, late, lost>>

(* What a failed request does to the call.  A failed submission is before  *)
(* the try block: it raises at once.                                       *)
RequestFails(j) ==
    \/ /\ client[j] = "submit"
       /\ Goto(j, "returned")
       /\ result' = [result EXCEPT ![j] = "error"]
       /\ UNCHANGED failures
    \/ /\ client[j] = "status"
       /\ CountPollFailure(j)
    \/ /\ client[j] = "cancel"
       /\ Finally(j, "cancelled")
       /\ UNCHANGED failures
    \/ /\ client[j] = "result"
       /\ Finally(j, "error")
       /\ UNCHANGED failures
    \/ /\ client[j] = "delete"
       /\ Goto(j, "returned")
       /\ UNCHANGED <<result, failures>>

(* The connection broke under the request (the server died).               *)
Disconnected(j) ==
    /\ wire[j] = "broken"
    /\ RequestFails(j)
    /\ UNCHANGED <<serverVars, stop, reply, late, lost>>

(* The socket times out: the request or its reply was lost, or the event   *)
(* loop is blocked for as long as someone keeps the GPU busy.  The request *)
(* may still arrive later.                                                 *)
TimeOut(j) ==
    /\ wire[j] \in {"sent", "accepted", "answered"}
    /\ \/ lost < MaxLost /\ lost' = lost + 1
       \/ ~LoopFree /\ gpu # "free" /\ UNCHANGED lost
    /\ \/ UNCHANGED late
       \/ /\ wire[j] # "answered"
          /\ client[j] \in {"submit", "cancel", "delete"}
          /\ late' = late \cup {<<j, client[j]>>}
    /\ RequestFails(j)
    /\ UNCHANGED <<serverVars, stop, reply>>

Client(j) ==
    \/ SubmitReply(j) \/ Decide(j) \/ CancelReply(j) \/ PollSucceeds(j)
    \/ PollUnknown(j) \/ ResultReply(j) \/ DeleteReply(j) \/ Disconnected(j)

-----------------------------------------------------------------------------
(* The server's side of a request.  The event loop accepts it and sends    *)
(* the reply; in between the handler runs in the thread pool.              *)

Accept(j) ==
    /\ LoopFree
    /\ wire[j] = "sent"
    /\ client[j] # "submit"
    /\ wire' = [wire EXCEPT ![j] = "accepted"]
    /\ UNCHANGED <<serverVars, client, result, failures, stop, reply, late, lost>>

Answer(j, value) ==
    /\ wire' = [wire EXCEPT ![j] = "answered"]
    /\ reply' = [reply EXCEPT ![j] = value]
    /\ UNCHANGED <<client, result, failures, stop, late, lost>>

(* The only handler that is a coroutine: it runs on the event loop.        *)
HandleSubmit(j) ==
    /\ client[j] = "submit"
    /\ wire[j] = "sent"
    /\ Submit(j)
    /\ Answer(j, "ok")

HandleStatus(j) ==
    /\ client[j] = "status"
    /\ wire[j] = "accepted"
    /\ Answer(j, IF j \in registered THEN status[j] ELSE "unknown")
    /\ UNCHANGED serverVars

HandleCancel(j) ==
    /\ client[j] = "cancel"
    /\ wire[j] = "accepted"
    /\ IF j \in registered THEN Cancel(j) ELSE UNCHANGED serverVars
    /\ Answer(j, IF j \in registered THEN "ok" ELSE "unknown")

HandleResult(j) ==
    /\ client[j] = "result"
    /\ wire[j] = "accepted"
    /\ \/ ResultLookup(j) /\ UNCHANGED clientVars
       \/ ResultRead(j) /\ Answer(j, IF j \in outputs THEN "video" ELSE "refused")
       \/ /\ ~(j \in registered /\ status[j] = "done" /\ j \in outputPath)
          /\ download[j] # "open"
          /\ Answer(j, "refused")
          /\ UNCHANGED serverVars

HandleDelete(j) ==
    /\ client[j] = "delete"
    /\ wire[j] = "accepted"
    /\ \/ DeletePop(j) /\ UNCHANGED clientVars
       \/ DeleteUnlink(j) /\ Answer(j, "ok")
       \/ /\ j \notin registered \cup deleting
          /\ Answer(j, "ok")
          /\ UNCHANGED serverVars

(* An abandoned request gets through; nobody waits for its reply.          *)
LateArrival(j) ==
    \/ /\ <<j, "submit">> \in late
       /\ Submit(j)
       /\ late' = late \ {<<j, "submit">>}
    \/ /\ <<j, "cancel">> \in late
       /\ Cancel(j)
       /\ late' = late \ {<<j, "cancel">>}
    \/ /\ <<j, "delete">> \in late
       /\ DeletePop(j)
       /\ late' = late \ {<<j, "delete">>}

LateRequest(j) ==
    /\ LateArrival(j)
    /\ UNCHANGED <<client, result, failures, stop, wire, reply, lost>>

(* The unlink of a DELETE whose client has given up.                       *)
LateUnlink(j) ==
    /\ ~(client[j] = "delete" /\ wire[j] = "accepted")
    /\ DeleteUnlink(j)
    /\ UNCHANGED clientVars

(* Connections break with the server.                                      *)
ServerDies ==
    /\ Restart
    /\ wire' = [j \in Jobs |-> IF wire[j] \in {"accepted", "answered"}
                               THEN "broken" ELSE wire[j]]
    /\ late' = {}
    /\ UNCHANGED <<client, result, failures, stop, reply, lost>>

Handle(j) ==
    \/ Accept(j) \/ HandleSubmit(j) \/ HandleStatus(j) \/ HandleCancel(j)
    \/ HandleResult(j) \/ HandleDelete(j) \/ LateUnlink(j)

CallNext ==
    \/ \E j \in Jobs :
        \/ Call(j) \/ RequestStop(j) \/ Client(j) \/ TimeOut(j)
        \/ Handle(j) \/ LateRequest(j)
        \/ Thread(j) /\ UNCHANGED clientVars
    \/ GpuPhase /\ UNCHANGED clientVars
    \/ ServerDies

(***************************************************************************)
(* The client's code runs, the server serves what it accepted, threads and *)
(* GPU phases go on.  No caller has to call or to stop, nothing has to be  *)
(* lost, and an abandoned request need never arrive.                       *)
(***************************************************************************)
CallSpec ==
    /\ CallInit /\ [][CallNext]_vars
    /\ \A j \in Jobs :
        /\ WF_vars(Client(j))
        /\ WF_vars(Handle(j))
        /\ WF_vars(Thread(j) /\ UNCHANGED clientVars)
    /\ WF_vars((\E a \in Aligns : AlignAcquire(a) \/ AlignRun(a)) /\ UNCHANGED clientVars)
    /\ WF_vars((\E p \in Phases : PhaseEnd(p)) /\ UNCHANGED clientVars)

-----------------------------------------------------------------------------
(* Properties.                                                             *)

(* The calls of remote_generate_lipsync implement the promise LipsyncCall  *)
(* makes: one outcome each, a video only of a job the server calls done,   *)
(* LipsyncCancelled only when asked, and an end to every call in spite of  *)
(* lost polls, late requests, a blocked event loop and a server death.     *)
Promise == INSTANCE LipsyncCall WITH
    Calls   <- Jobs,
    started <- {j \in Jobs : client[j] # "idle"},
    outcome <- [j \in Jobs |-> IF client[j] = "returned" THEN result[j] ELSE "pending"],
    made    <- {j \in Jobs : status[j] = "done"}

KeepsPromise == Promise!Spec

Calm == lost = 0 /\ restarts = 0
NoAlign == \A a \in Aligns : phase[a] = "idle"

(* Without network faults, server deaths and blocking requests, a call     *)
(* fails only if generation failed: contact is never lost, the result of a *)
(* done job is never refused, however long the GPU takes.                  *)
NoSpuriousError ==
    \A j \in Jobs :
        client[j] = "returned" /\ result[j] = "error" /\ Calm /\ NoAlign
            => status[j] = "failed"

(* remote_gpu.py:154-155, "The request is submitted as a background job    *)
(* and then polled, so an arbitrarily slow GPU never trips a socket        *)
(* timeout": with no fault anywhere, no call runs out of polls.  The code  *)
(* breaks this: an /align or /transcribe that waits for the GPU behind the *)
(* video blocks the event loop that should answer the polls.               *)
SlowGpuNeverTimesOut ==
    \A j \in Jobs : Calm => failures[j] < MaxPollFailures

(* A call that has returned, on a calm network, has left nothing at the    *)
(* server: no registry entry, and no file once the job's thread is over,   *)
(* however its stop raced with the end of generation.                      *)
ServerLeftClean ==
    \A j \in Jobs :
        client[j] = "returned" /\ Calm /\ NoAlign =>
            /\ j \notin registered
            /\ thread[j] = "exited" => j \notin inputs \cup outputs
=============================================================================
