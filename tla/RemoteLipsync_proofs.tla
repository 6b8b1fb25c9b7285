------------------------- MODULE RemoteLipsync_proofs -------------------------
(***************************************************************************)
(* Proofs about remote_generate_lipsync and the GPU server together, for   *)
(* any number of calls, lost messages and server deaths: what is proved of *)
(* the server alone holds with its clients, the two implement the safety   *)
(* part of LipsyncCall, and where nothing is lost, dies or blocks, calls   *)
(* fail only for a reason and leave nothing behind.                        *)
(***************************************************************************)
EXTENDS RemoteLipsync, LipsyncServer_proofs

(* Clients, the network and the death of the server take only steps that   *)
(* the server's own specification allows, so that every theorem about Spec *)
(* is one about CallSpec.                                                  *)
THEOREM ServerWithClients == CallSpec => Spec
<1>1. CallInit => Init
  BY DEF CallInit
<1>2. [CallNext]_vars => [Next]_serverVars
  <2> SUFFICES ASSUME [CallNext]_vars PROVE [Next]_serverVars
    OBVIOUS
  <2>1. ASSUME NEW j \in Jobs,
               Call(j) \/ RequestStop(j) \/ Client(j) \/ TimeOut(j)
        PROVE  UNCHANGED serverVars
    BY <2>1 DEF Call, RequestStop, Client, TimeOut, SubmitReply, Decide, CancelReply,
         PollSucceeds, PollUnknown, ResultReply, DeleteReply, Disconnected
  <2>2. ASSUME NEW j \in Jobs, Handle(j) \/ LateRequest(j)
        PROVE  Request(j) \/ UNCHANGED serverVars
    BY <2>2 DEF Handle, Accept, HandleSubmit, HandleStatus, HandleCancel, HandleResult,
         HandleDelete, LateUnlink, LateRequest, LateArrival, Request
  <2>3. CASE ServerDies
    BY <2>3 DEF ServerDies, Next
  <2>4. CASE UNCHANGED vars
    BY <2>4 DEF vars
  <2> QED BY <2>1, <2>2, <2>3, <2>4 DEF CallNext, Next
<1> QED BY <1>1, <1>2, PTL DEF CallSpec, Spec

-----------------------------------------------------------------------------
(* What a call and the server know of each other: a job exists, or can     *)
(* still come to exist by a late request, only after its call was made;    *)
(* the caller was asked to stop before anything is cancelled; a video is   *)
(* only handed out of a job that is done; a call has an outcome exactly    *)
(* from its DELETE on, and polls again only while it may fail again.       *)
CallInv(j) ==
    /\ status[j] # "none" \/ <<j, "submit">> \in late => client[j] # "idle"
    /\ client[j] = "cancel" \/ result[j] = "cancelled" => j \in stop
    /\ reply[j] = "video" \/ result[j] = "video" => status[j] = "done"
    /\ client[j] \in {"delete", "returned"} <=> result[j] # "none"
    /\ result[j] = "none" => failures[j] < MaxPollFailures

CallsInv == ClientTypeOK /\ \A j \in Jobs : CallInv(j)

(* However a request fails, the call either goes on with one more failure  *)
(* counted, or is over, or is on its way to the DELETE with its outcome.   *)
LEMMA RequestFailsStep ==
    ASSUME CallsInv, NEW j \in Jobs, RequestFails(j)
    PROVE  /\ client' \in [Jobs -> {"idle", "deciding", "returned"} \cup InCall]
           /\ result' \in [Jobs -> {"none", "video", "cancelled", "error"}]
           /\ failures' \in [Jobs -> 0..MaxPollFailures]
           /\ wire' \in [Jobs -> {"none", "sent", "accepted", "answered", "broken"}]
           /\ client'[j] \in {"deciding", "delete", "returned"}
           /\ client'[j] = "deciding" <=> result'[j] = "none"
           /\ result'[j] = "none" => failures'[j] < MaxPollFailures
           /\ result'[j] = "cancelled" => j \in stop
           /\ result'[j] = "video" => status[j] = "done"
           /\ \A i \in Jobs \ {j} : /\ client'[i] = client[i]
                                    /\ result'[i] = result[i]
                                    /\ failures'[i] = failures[i]
<1> USE ClientAssumption DEF CallsInv, CallInv, ClientTypeOK, InCall, Goto, Finally
<1>1. CASE client[j] = "status" /\ CountPollFailure(j)
  <2>1. failures[j] \in 0..MaxPollFailures /\ failures[j] < MaxPollFailures
    BY <1>1
  <2>2. failures[j] + 1 \in 0..MaxPollFailures
    BY <2>1
  <2>3. CASE failures[j] + 1 >= MaxPollFailures
    BY <1>1, <2>1, <2>2, <2>3 DEF CountPollFailure
  <2>4. CASE ~(failures[j] + 1 >= MaxPollFailures)
    <3>1. /\ Goto(j, "deciding")
          /\ UNCHANGED result
          /\ failures' = [failures EXCEPT ![j] = @ + 1]
      BY <1>1, <2>4 DEF CountPollFailure
    <3>2. failures[j] + 1 < MaxPollFailures
      BY <2>1, <2>4
    <3>3. result[j] = "none"
      BY <1>1
    <3> QED BY <1>1, <2>2, <3>1, <3>2, <3>3
  <2> QED BY <2>3, <2>4
<1>2. CASE client[j] = "submit"
  BY <1>2 DEF RequestFails
<1>3. CASE client[j] = "cancel"
  BY <1>3 DEF RequestFails
<1>4. CASE client[j] = "result"
  BY <1>4 DEF RequestFails
<1>5. CASE client[j] = "delete"
  BY <1>5 DEF RequestFails
<1> QED BY <1>1, <1>2, <1>3, <1>4, <1>5 DEF RequestFails

(* The client's side of a call, from its start to its return.              *)
LEMMA ClientStep ==
    ASSUME CallsInv, NEW j \in Jobs,
           Call(j) \/ RequestStop(j) \/ Client(j) \/ TimeOut(j)
    PROVE  CallsInv'
<1> USE ClientAssumption DEF CallsInv, CallInv, ClientTypeOK, InCall, Replies, Terminal,
      Goto, Finally, Answered, serverVars, registryVars
<1>1. CASE Call(j) BY <1>1 DEF Call
<1>2. CASE RequestStop(j) BY <1>2 DEF RequestStop
<1>3. CASE SubmitReply(j) BY <1>3 DEF SubmitReply
<1>4. CASE Decide(j) BY <1>4 DEF Decide
<1>5. CASE CancelReply(j) BY <1>5 DEF CancelReply
<1>6. CASE PollSucceeds(j) BY <1>6 DEF PollSucceeds
<1>7. CASE ResultReply(j) BY <1>7 DEF ResultReply
<1>8. CASE DeleteReply(j) BY <1>8 DEF DeleteReply
<1>9. CASE PollUnknown(j) \/ Disconnected(j) \/ TimeOut(j)
  <2>1. RequestFails(j)
    BY <1>9 DEF PollUnknown, RequestFails, Disconnected, TimeOut
  <2>2. UNCHANGED <<serverVars, stop, reply>>
    BY <1>9 DEF PollUnknown, Disconnected, TimeOut
  <2>3. late' \in SUBSET (Jobs \X {"submit", "cancel", "delete"}) /\ lost' \in 0..MaxLost
    BY <1>9 DEF PollUnknown, Disconnected, TimeOut
  <2>4. \A i \in Jobs \ {j} : <<i, "submit">> \in late' => <<i, "submit">> \in late
    BY <1>9 DEF PollUnknown, Disconnected, TimeOut
  <2> QED BY <2>1, <2>2, <2>3, <2>4, RequestFailsStep
<1> QED BY <1>1, <1>2, <1>3, <1>4, <1>5, <1>6, <1>7, <1>8, <1>9
        DEF Client

(* Handlers, late requests, threads and the death of the server: the       *)
(* server calls a job done only once, and hands out the video of no other. *)
LEMMA ServerSideStep ==
    ASSUME TypeOK, JobInv, CallsInv,
           \/ \E j \in Jobs : \/ Handle(j) \/ LateRequest(j)
                              \/ Thread(j) /\ UNCHANGED clientVars
           \/ GpuPhase /\ UNCHANGED clientVars
           \/ ServerDies
    PROVE  CallsInv'
<1> USE DEF CallsInv, CallInv, ClientTypeOK, InCall, Replies, Terminal, serverVars,
      registryVars, clientVars
<1>1. ASSUME NEW j \in Jobs, Handle(j) PROVE CallsInv'
  <2>1. CASE Accept(j) BY <2>1 DEF Accept
  <2>2. CASE HandleSubmit(j) BY <2>2 DEF HandleSubmit, Submit, Answer, TypeOK
  <2>3. CASE HandleStatus(j)
    BY <2>3 DEF HandleStatus, Answer, TypeOK, JobInv, DownloadInv
  <2>4. CASE HandleCancel(j) BY <2>4 DEF HandleCancel, Cancel, Answer, TypeOK
  <2>5. CASE HandleResult(j)
    BY <2>5 DEF HandleResult, ResultLookup, ResultRead, Answer, JobInv, DownloadInv
  <2>6. CASE HandleDelete(j) BY <2>6 DEF HandleDelete, DeletePop, DeleteUnlink, Answer
  <2>7. CASE LateUnlink(j) BY <2>7 DEF LateUnlink, DeleteUnlink
  <2> QED BY <1>1, <2>1, <2>2, <2>3, <2>4, <2>5, <2>6, <2>7 DEF Handle
<1>2. ASSUME NEW j \in Jobs, LateRequest(j) PROVE CallsInv'
  BY <1>2 DEF LateRequest, LateArrival, Submit, Cancel, DeletePop, TypeOK
<1>3. ASSUME NEW j \in Jobs, Thread(j), UNCHANGED clientVars PROVE CallsInv'
  <2>1. [Next]_serverVars
    BY <1>3 DEF Next
  <2>2. \A i \in Jobs : status[i] = "done" => status'[i] = "done"
    BY <2>1, FinalStatusStep
  <2>3. \A i \in Jobs : status[i] = "none" => status'[i] = "none"
    BY <1>3 DEF TypeOK, JobInv, StatusInv, Thread, ThreadLookup, ThreadAcquire,
         ThreadCheck, ThreadGenerate, ThreadGenerated, ThreadRaise, ThreadRecord,
         ThreadFail, ThreadDiscard, ThreadCleanup
  <2> QED BY <1>3, <2>2, <2>3
<1>4. CASE GpuPhase /\ UNCHANGED clientVars
  BY <1>4 DEF GpuPhase, BatchRun, AlignArrive, AlignAcquire, AlignRun, PhaseEnd
<1>5. CASE ServerDies
  BY <1>5 DEF ServerDies, Restart
<1> QED BY <1>1, <1>2, <1>3, <1>4, <1>5

(* Calls, threads, lost messages and server deaths, in any order, keep     *)
(* what the call and the server know of each other in agreement.           *)
THEOREM CallsInvariance == CallSpec => []CallsInv
<1>1. CallInit => CallsInv
  BY ClientAssumption DEF CallInit, Init, CallsInv, CallInv, ClientTypeOK, InCall, Replies
<1>2. TypeOK /\ JobInv /\ CallsInv /\ [CallNext]_vars => CallsInv'
  <2> SUFFICES ASSUME TypeOK, JobInv, CallsInv, [CallNext]_vars PROVE CallsInv'
    OBVIOUS
  <2>1. CASE UNCHANGED vars
    BY <2>1 DEF vars, clientVars, serverVars, registryVars, CallsInv, CallInv,
         ClientTypeOK
  <2>2. CASE CallNext
    BY <2>2, ClientStep, ServerSideStep DEF CallNext
  <2> QED BY <2>1, <2>2
<1> QED BY <1>1, <1>2, ServerWithClients, TypeCorrect, JobInvariance, PTL DEF CallSpec

(* A call's variables stay within their types, polls included.             *)
THEOREM ClientTypesCorrect == CallSpec => []ClientTypeOK
<1>1. CallsInv => ClientTypeOK
  BY DEF CallsInv
<1> QED BY <1>1, CallsInvariance, PTL

-----------------------------------------------------------------------------
(* The safety part of the promise to the caller.                           *)

(* A step of a call that is under way and has not returned moves only that *)
(* call on, and never back to its start.                                   *)
LEMMA CallProgress ==
    ASSUME CallsInv, NEW j \in Jobs, Client(j) \/ TimeOut(j)
    PROVE  /\ client[j] \in InCall \cup {"deciding"}
           /\ client'[j] # "idle"
           /\ \A i \in Jobs \ {j} : client'[i] = client[i] /\ result'[i] = result[i]
           /\ UNCHANGED <<status, stop>>
<1> USE DEF CallsInv, ClientTypeOK, InCall, Goto, Finally, Answered, serverVars,
      registryVars
<1>1. CASE SubmitReply(j) \/ Decide(j) \/ CancelReply(j) \/ ResultReply(j) \/ DeleteReply(j)
  BY <1>1 DEF SubmitReply, Decide, CancelReply, ResultReply, DeleteReply
<1>2. CASE PollSucceeds(j)
  BY <1>2 DEF PollSucceeds
<1>3. CASE PollUnknown(j) \/ Disconnected(j) \/ TimeOut(j)
  <2>1. RequestFails(j) /\ UNCHANGED <<status, stop>>
    BY <1>3 DEF PollUnknown, RequestFails, Disconnected, TimeOut
  <2>2. client[j] \in InCall
    BY <2>1 DEF RequestFails
  <2> QED BY <2>1, <2>2, RequestFailsStep
<1> QED BY <1>1, <1>2, <1>3 DEF Client

(* Each step of the calls, the network and the server is one step of the   *)
(* promise, or none: a call returns once, a video only after the server    *)
(* made one, LipsyncCancelled only after a stop was asked for.             *)
LEMMA StepKeepsPromise ==
    ASSUME TypeOK, JobInv, CallsInv, CallsInv', [CallNext]_vars
    PROVE  [Promise!Next]_(Promise!callVars)
<1>1. ASSUME UNCHANGED <<client, result, status, stop>>
      PROVE  UNCHANGED Promise!callVars
  BY <1>1 DEF Promise!callVars
<1>2. ASSUME NEW j \in Jobs, Call(j) PROVE Promise!Start(j)
  BY <1>2 DEF Call, Goto, Promise!Start, CallsInv, ClientTypeOK, serverVars, registryVars
<1>3. ASSUME NEW j \in Jobs, RequestStop(j) PROVE Promise!RequestStop(j)
  BY <1>3 DEF RequestStop, Promise!RequestStop, serverVars, registryVars
<1>4. ASSUME NEW j \in Jobs, Client(j) \/ TimeOut(j)
      PROVE  Promise!Return(j) \/ UNCHANGED Promise!callVars
  <2>1. /\ client[j] \notin {"idle", "returned"}
        /\ client'[j] # "idle"
        /\ \A i \in Jobs \ {j} : client'[i] = client[i] /\ result'[i] = result[i]
        /\ UNCHANGED <<status, stop>>
    BY <1>4, CallProgress DEF InCall
  <2>2. CASE client'[j] = "returned"
    <3>1. result'[j] \in {"video", "cancelled", "error"}
      BY <2>2 DEF CallsInv, CallInv, ClientTypeOK
    <3>2. result'[j] = "cancelled" => j \in stop
      BY <2>1 DEF CallsInv, CallInv
    <3>3. result'[j] = "video" => status[j] = "done"
      BY <2>1 DEF CallsInv, CallInv
    <3> QED BY <2>1, <2>2, <3>1, <3>2, <3>3 DEF Promise!Return
  <2>3. CASE client'[j] # "returned"
    BY <2>1, <2>3 DEF Promise!callVars
  <2> QED BY <2>2, <2>3
<1>5. ASSUME NEW j \in Jobs, Thread(j), UNCHANGED clientVars
      PROVE  Promise!Make(j) \/ UNCHANGED Promise!callVars
  <2>1. UNCHANGED <<client, result, stop>>
    BY <1>5 DEF clientVars
  <2>2. /\ \A i \in Jobs \ {j} : status'[i] = status[i]
        /\ status'[j] = "done" /\ status[j] # "done" => client[j] # "idle"
        /\ status[j] = "done" => status'[j] = "done"
    BY <1>5 DEF TypeOK, JobInv, StatusInv, CallsInv, CallInv, Thread, ThreadLookup,
         ThreadAcquire, ThreadCheck, ThreadGenerate, ThreadGenerated, ThreadRaise,
         ThreadRecord, ThreadFail, ThreadDiscard, ThreadCleanup, registryVars
  <2> QED BY <2>1, <2>2 DEF Promise!Make, Promise!callVars
<1>6. ASSUME NEW j \in Jobs, Handle(j) \/ LateRequest(j)
      PROVE  UNCHANGED Promise!callVars
  <2>1. UNCHANGED <<client, result, stop>>
    BY <1>6 DEF Handle, Accept, HandleSubmit, HandleStatus, HandleCancel, HandleResult,
         HandleDelete, LateUnlink, LateRequest, Answer, clientVars
  <2>2. \A i \in Jobs : status'[i] = "done" <=> status[i] = "done"
    BY <1>6 DEF TypeOK, serverVars, registryVars, Handle, Accept, HandleSubmit,
         HandleStatus, HandleCancel, HandleResult, HandleDelete, LateUnlink,
         LateRequest, LateArrival, Submit, Cancel, ResultLookup, ResultRead,
         DeletePop, DeleteUnlink
  <2> QED BY <2>1, <2>2 DEF Promise!callVars
<1>7. ASSUME (GpuPhase /\ UNCHANGED clientVars) \/ ServerDies
      PROVE  UNCHANGED <<client, result, status, stop>>
  BY <1>7 DEF GpuPhase, BatchRun, AlignArrive, AlignAcquire, AlignRun, PhaseEnd,
       ServerDies, Restart, registryVars, clientVars
<1>8. CASE UNCHANGED vars
  BY <1>1, <1>8 DEF vars, serverVars, registryVars, clientVars
<1> QED BY <1>1, <1>2, <1>3, <1>4, <1>5, <1>6, <1>7, <1>8 DEF CallNext, Promise!Next

(* A call of remote_generate_lipsync returns or raises exactly once, and   *)
(* only what LipsyncCall allows it to, for any number of calls, lost       *)
(* messages and server deaths.                                             *)
THEOREM PromiseKeptSafely == CallSpec => Promise!Init /\ [][Promise!Next]_(Promise!callVars)
<1>1. CallInit => Promise!Init
  BY DEF CallInit, Init, Promise!Init
<1>2. TypeOK /\ JobInv /\ CallsInv /\ CallsInv' /\ [CallNext]_vars
        => [Promise!Next]_(Promise!callVars)
  BY StepKeepsPromise
<1> QED BY <1>1, <1>2, ServerWithClients, TypeCorrect, JobInvariance, CallsInvariance, PTL
        DEF CallSpec

-----------------------------------------------------------------------------
(* Calls when nothing goes wrong.                                          *)

(* No message was lost, the server has not died, and no /align or          *)
(* /transcribe request has come that could block the event loop.           *)
Quiet == Calm /\ NoAlign

(* Then a job is registered from its submission to its DELETE, is not      *)
(* cancelled before its call asks for it, and what the call was last told  *)
(* is true or was on the way to it; when the DELETE has been answered the  *)
(* job has failed, is done or cannot become done any more, and its video   *)
(* is gone.                                                                *)
QuietCall(j) ==
    /\ wire[j] # "broken"
    /\ client[j] = "submit" => wire[j] \in {"sent", "answered"}
    /\ client[j] = "submit" /\ wire[j] = "sent" => status[j] = "none"
    /\ (\/ client[j] = "submit" /\ wire[j] = "answered"
        \/ client[j] \in {"deciding", "status", "cancel", "result"}
        \/ client[j] = "delete" /\ wire[j] = "sent")
          => j \in registered
    /\ status[j] = "none" \/ client[j] \in {"submit", "deciding", "status", "result"}
          => j \notin cancelled
    /\ status[j] = "cancelled" => j \in cancelled
    /\ client[j] = "status" /\ wire[j] = "answered" =>
          \/ reply[j] \in {"queued", "running"}
          \/ reply[j] \in Terminal /\ reply[j] = status[j]
    /\ client[j] = "result" =>
          status[j] = "done" /\ (wire[j] = "answered" => reply[j] = "video")
    /\ client[j] = "cancel" /\ wire[j] = "answered" => j \in cancelled
    /\ client[j] \in {"delete", "returned"} =>
          /\ result[j] = "error" => status[j] = "failed"
          /\ status[j] \in {"done", "failed"} \/ j \in cancelled
    /\ client[j] = "returned" \/ (client[j] = "delete" /\ wire[j] = "answered")
          => j \notin registered \cup deleting
    /\ status[j] = "done" /\ j \notin registered \cup deleting => j \notin outputs

QuietInv == Quiet => late = {} /\ \A j \in Jobs : QuietCall(j)

(* Whatever can happen on a quiet network happened on a quiet network.     *)
LEMMA QuietBefore ==
    ASSUME TypeOK, CallsInv, [CallNext]_vars, Quiet'
    PROVE  Quiet /\ LoopFree
<1> USE DEF Quiet, Calm, NoAlign, serverVars, clientVars
<1>1. lost \in Nat /\ restarts \in Nat
  BY ClientAssumption, ServerAssumption DEF TypeOK, CallsInv, ClientTypeOK
<1>2. ASSUME NEW j \in Jobs, Call(j) \/ RequestStop(j) \/ Client(j) \/ TimeOut(j)
      PROVE  Quiet
  BY <1>1, <1>2 DEF Call, RequestStop, Client, TimeOut, SubmitReply, Decide, CancelReply,
     PollSucceeds, PollUnknown, ResultReply, DeleteReply, Disconnected, requestVars, gpuVars
<1>3. ASSUME NEW j \in Jobs, Handle(j) \/ LateRequest(j)
      PROVE  Quiet
  BY <1>3 DEF Handle, Accept, HandleSubmit, HandleStatus, HandleCancel, HandleResult,
     HandleDelete, LateUnlink, LateRequest, LateArrival, Answer, Submit, Cancel, DeletePop,
     DeleteUnlink, ResultLookup, ResultRead, gpuVars
<1>4. ASSUME NEW j \in Jobs, Thread(j), UNCHANGED clientVars PROVE Quiet
  BY <1>4 DEF Thread, ThreadLookup, ThreadAcquire, ThreadCheck, ThreadGenerate,
     ThreadGenerated, ThreadRaise, ThreadRecord, ThreadFail, ThreadDiscard, ThreadCleanup,
     gpuVars
<1>5. CASE GpuPhase /\ UNCHANGED clientVars
  <2>1. lost' = lost /\ restarts' = restarts
    BY <1>5 DEF GpuPhase, BatchRun, AlignArrive, AlignAcquire, AlignRun, PhaseEnd
  <2>2. \A a \in Aligns : phase'[a] = "idle" => phase[a] = "idle"
    BY <1>5 DEF GpuPhase, BatchRun, AlignArrive, AlignAcquire, AlignRun, PhaseEnd, Phases,
       TypeOK
  <2> QED BY <2>1, <2>2 DEF LoopFree
<1>6. CASE ServerDies
  BY <1>1, <1>6 DEF ServerDies, Restart
<1>7. CASE UNCHANGED vars
  <2>1. lost' = lost /\ restarts' = restarts /\ phase' = phase
    BY <1>7 DEF vars, gpuVars
  <2> QED BY <2>1 DEF LoopFree
<1>8. Quiet
  BY <1>2, <1>3, <1>4, <1>5, <1>6, <1>7 DEF CallNext
<1> QED BY <1>8 DEF LoopFree

(* A step of the call of job j.                                            *)
LEMMA QuietClientStep ==
    ASSUME TypeOK, JobInv, CallsInv, NEW j \in Jobs, QuietCall(j), Client(j)
    PROVE  QuietCall(j)' /\ late' = late
<1> USE DEF Goto, Finally, Answered, serverVars, registryVars, fileVars, requestVars, InCall,
      ClientTypeOK, CallsInv, TypeOK
<1>1. CASE SubmitReply(j)
  BY <1>1 DEF SubmitReply, QuietCall
<1>2. CASE Decide(j)
  BY <1>2 DEF Decide, QuietCall
<1>3. CASE CancelReply(j)
  <2>1. /\ client[j] = "cancel" /\ wire[j] = "answered"
        /\ UNCHANGED <<registered, status, cancelled, outputs, deleting, reply, late>>
    BY <1>3 DEF CancelReply
  <2>2. client'[j] = "delete" /\ wire'[j] = "sent" /\ result'[j] = "cancelled"
    BY <1>3 DEF CancelReply
  <2> QED BY ONLY <2>1, <2>2, QuietCall(j) DEF QuietCall
<1>4. CASE PollSucceeds(j)
  <2>1. /\ client[j] = "status" /\ wire[j] = "answered"
        /\ UNCHANGED <<registered, status, cancelled, outputs, deleting, reply, late>>
    BY <1>4 DEF PollSucceeds
  <2>2. j \in registered /\ j \notin cancelled /\ status[j] # "cancelled"
    BY ONLY <2>1, QuietCall(j) DEF QuietCall
  <2>3. CASE reply[j] = "done"
    <3>1. client'[j] = "result" /\ wire'[j] = "sent"
      BY <1>4, <2>3 DEF PollSucceeds
    <3> QED BY ONLY <2>1, <2>2, <2>3, <3>1, QuietCall(j) DEF QuietCall
  <2>4. CASE reply[j] \in {"failed", "cancelled"}
    <3>1. client'[j] = "delete" /\ wire'[j] = "sent"
      BY <1>4, <2>4 DEF PollSucceeds
    <3>2. status[j] = "failed"
      BY ONLY <2>1, <2>2, <2>4, QuietCall(j) DEF QuietCall
    <3> QED BY ONLY <2>1, <2>2, <3>1, <3>2, QuietCall(j) DEF QuietCall
  <2>5. CASE reply[j] \in {"queued", "running"}
    <3>1. client'[j] = "deciding" /\ wire'[j] = "none"
      BY <1>4, <2>5 DEF PollSucceeds
    <3> QED BY ONLY <2>1, <2>2, <3>1, QuietCall(j) DEF QuietCall
  <2> QED BY <1>4, <2>3, <2>4, <2>5 DEF PollSucceeds
<1>5. CASE PollUnknown(j)
  BY <1>5 DEF PollUnknown, QuietCall, Terminal
<1>6. CASE ResultReply(j)
  <2>1. /\ client[j] = "result" /\ wire[j] = "answered"
        /\ UNCHANGED <<registered, status, cancelled, outputs, deleting, reply, late>>
    BY <1>6 DEF ResultReply
  <2>2. j \in registered /\ status[j] = "done" /\ reply[j] = "video"
    BY ONLY <2>1, QuietCall(j) DEF QuietCall
  <2>3. client'[j] = "delete" /\ wire'[j] = "sent" /\ result'[j] = "video"
    BY <1>6, <2>2 DEF ResultReply
  <2> QED BY ONLY <2>1, <2>2, <2>3, QuietCall(j) DEF QuietCall
<1>7. CASE DeleteReply(j)
  BY <1>7 DEF DeleteReply, QuietCall
<1>8. CASE Disconnected(j)
  BY <1>8 DEF Disconnected, QuietCall
<1> QED BY <1>1, <1>2, <1>3, <1>4, <1>5, <1>6, <1>7, <1>8 DEF Client

(* A step of the server on the request of job j.                           *)
LEMMA QuietHandlerStep ==
    ASSUME TypeOK, JobInv, CallsInv, NEW j \in Jobs, QuietCall(j), Handle(j)
    PROVE  QuietCall(j)' /\ late' = late
<1> USE DEF Answer, serverVars, registryVars, fileVars, requestVars, clientVars, InCall,
      ClientTypeOK, CallsInv, TypeOK
<1>0. StatusInv(j) /\ FileInv(j) /\ DownloadInv(j)
  BY DEF JobInv
<1>1. CASE Accept(j)
  BY <1>1 DEF Accept, QuietCall
<1>2. CASE HandleSubmit(j)
  BY <1>0, <1>2 DEF HandleSubmit, Submit, QuietCall, DownloadInv
<1>3. CASE HandleStatus(j)
  <2>1. /\ client[j] = "status" /\ wire[j] = "accepted"
        /\ UNCHANGED <<registered, status, cancelled, outputs, deleting, client, result, late>>
    BY <1>3 DEF HandleStatus
  <2>2. j \in registered
    BY ONLY <2>1, QuietCall(j) DEF QuietCall
  <2>3. wire'[j] = "answered" /\ reply'[j] = status[j]
    BY <1>3, <2>2 DEF HandleStatus
  <2>4. status[j] \in {"queued", "running"} \cup Terminal
    BY <1>0, <2>2 DEF DownloadInv, StatusInv, FileInv
  <2> QED BY ONLY <2>1, <2>2, <2>3, <2>4, QuietCall(j) DEF QuietCall
<1>4. CASE HandleCancel(j)
  <2>1. /\ client[j] = "cancel" /\ wire[j] = "accepted"
        /\ UNCHANGED <<registered, outputs, deleting, client, result, late>>
    BY <1>4 DEF HandleCancel, Cancel
  <2>2. j \in registered
    BY ONLY <2>1, QuietCall(j) DEF QuietCall
  <2>3. /\ wire'[j] = "answered" /\ j \in cancelled'
        /\ status'[j] = IF status[j] = "queued" THEN "cancelled" ELSE status[j]
    BY <1>4, <2>2 DEF HandleCancel, Cancel
  <2>4. status[j] # "none"
    BY <1>0, <2>2 DEF DownloadInv, StatusInv, FileInv
  <2> QED BY ONLY <2>1, <2>2, <2>3, <2>4, QuietCall(j) DEF QuietCall
<1>5. CASE HandleResult(j)
  <2>1. /\ client[j] = "result" /\ wire[j] = "accepted"
        /\ UNCHANGED <<registered, status, cancelled, outputs, deleting, client, result, late>>
    BY <1>5 DEF HandleResult, ResultLookup, ResultRead
  <2>2. j \in registered /\ status[j] = "done"
    BY ONLY <2>1, QuietCall(j) DEF QuietCall
  <2>3. j \in outputPath /\ j \in outputs
    BY <1>0, <2>2 DEF DownloadInv, StatusInv, FileInv
  <2>4. wire'[j] = "accepted" \/ (wire'[j] = "answered" /\ reply'[j] = "video")
    BY <1>5, <2>1, <2>2, <2>3 DEF HandleResult, ResultLookup, ResultRead
  <2> QED BY ONLY <2>1, <2>2, <2>4, QuietCall(j) DEF QuietCall
<1>6. CASE HandleDelete(j)
  BY <1>0, <1>6 DEF HandleDelete, DeletePop, DeleteUnlink, QuietCall, StatusInv, DownloadInv
<1>7. CASE LateUnlink(j)
  BY <1>0, <1>7 DEF LateUnlink, DeleteUnlink, QuietCall, StatusInv, DownloadInv
<1> QED BY <1>1, <1>2, <1>3, <1>4, <1>5, <1>6, <1>7 DEF Handle

(* A step of the thread of job j.                                          *)
LEMMA QuietThreadStep ==
    ASSUME TypeOK, JobInv, CallsInv, NEW j \in Jobs, QuietCall(j), Thread(j),
           UNCHANGED clientVars
    PROVE  QuietCall(j)'
<1> USE DEF serverVars, registryVars, fileVars, requestVars, clientVars, TypeOK
<1>0. StatusInv(j) /\ FileInv(j) /\ DownloadInv(j)
  BY DEF JobInv
<1>1. CASE ThreadCheck(j)
  BY <1>0, <1>1 DEF ThreadCheck, QuietCall, StatusInv, Terminal
<1>2. CASE ThreadRecord(j)
  <2>1. /\ UNCHANGED <<registered, cancelled, deleting, client, wire, reply, result>>
        /\ outputs' \subseteq outputs
    BY <1>2 DEF ThreadRecord
  <2>2. status[j] = "running"
    BY <1>0, <1>2 DEF ThreadRecord, StatusInv
  <2>3. client[j] # "idle"
    BY <2>2 DEF CallsInv, CallInv
  <2>4. CASE j \in cancelled
    <3>1. status'[j] = "cancelled"
      BY <1>2, <2>4 DEF ThreadRecord
    <3> QED BY ONLY <2>1, <2>2, <2>4, <3>1, QuietCall(j) DEF QuietCall, Terminal
  <2>5. CASE j \notin cancelled
    <3>1. status'[j] = "done"
      BY <1>2, <2>5 DEF ThreadRecord
    <3>2. j \in registered
      BY <2>2, <2>3, <2>5 DEF QuietCall, CallsInv, ClientTypeOK, InCall
    <3> QED BY ONLY <2>1, <2>2, <2>5, <3>1, <3>2, QuietCall(j) DEF QuietCall, Terminal
  <2> QED BY <2>4, <2>5
<1>3. CASE ThreadFail(j)
  BY <1>0, <1>3 DEF ThreadFail, QuietCall, StatusInv, Terminal
<1>4. CASE ThreadGenerate(j)
  BY <1>0, <1>4 DEF ThreadGenerate, QuietCall, StatusInv
<1>5. CASE ThreadLookup(j) \/ ThreadAcquire(j) \/ ThreadGenerated(j) \/ ThreadRaise(j)
           \/ ThreadDiscard(j) \/ ThreadCleanup(j)
  BY <1>5 DEF ThreadLookup, ThreadAcquire, ThreadGenerated, ThreadRaise, ThreadDiscard,
     ThreadCleanup, QuietCall
<1> QED BY <1>1, <1>2, <1>3, <1>4, <1>5 DEF Thread

(* Steps for one job are no business of another.                           *)
LEMMA QuietOthers ==
    ASSUME TypeOK, CallsInv, NEW j \in Jobs, NEW i \in Jobs, i # j, QuietCall(i),
           \/ Call(j) \/ RequestStop(j) \/ Client(j) \/ Handle(j)
           \/ Thread(j) /\ UNCHANGED clientVars
    PROVE  QuietCall(i)'
<1> USE DEF QuietCall, serverVars, registryVars, fileVars, requestVars, clientVars, TypeOK,
      CallsInv, ClientTypeOK
<1>1. CASE Call(j) \/ RequestStop(j)
  BY <1>1 DEF Call, RequestStop, Goto
<1>2. CASE Client(j)
  BY <1>2 DEF Client, SubmitReply, Decide, CancelReply, PollSucceeds, PollUnknown,
     ResultReply, DeleteReply, Disconnected, RequestFails, CountPollFailure, Goto, Finally
<1>3. CASE Handle(j)
  BY <1>3 DEF Handle, Accept, HandleSubmit, HandleStatus, HandleCancel, HandleResult,
     HandleDelete, LateUnlink, Answer, Submit, Cancel, DeletePop, DeleteUnlink, ResultLookup,
     ResultRead
<1>4. CASE Thread(j) /\ UNCHANGED clientVars
  BY <1>4 DEF Thread, ThreadLookup, ThreadAcquire, ThreadCheck, ThreadGenerate,
     ThreadGenerated, ThreadRaise, ThreadRecord, ThreadFail, ThreadDiscard, ThreadCleanup
<1> QED BY <1>1, <1>2, <1>3, <1>4

LEMMA QuietStep ==
    ASSUME TypeOK, JobInv, CallsInv, QuietInv, [CallNext]_vars
    PROVE  QuietInv'
<1> SUFFICES ASSUME Quiet' PROVE late' = {} /\ \A j \in Jobs : QuietCall(j)'
  BY DEF QuietInv
<1>1. Quiet /\ LoopFree
  BY QuietBefore
<1>2. late = {} /\ \A j \in Jobs : QuietCall(j)
  BY <1>1 DEF QuietInv
<1>3. ASSUME NEW j \in Jobs,
             \/ Call(j) \/ RequestStop(j) \/ Client(j) \/ Handle(j)
             \/ Thread(j) /\ UNCHANGED clientVars
      PROVE  late' = {} /\ \A i \in Jobs : QuietCall(i)'
  <2>1. \A i \in Jobs : i # j => QuietCall(i)'
    BY <1>2, <1>3, QuietOthers
  <2>2. CASE Call(j) \/ RequestStop(j)
    <3>1. client[j] = "idle" => status[j] = "none"
      BY DEF CallsInv, CallInv, TypeOK
    <3>2. QuietCall(j)' /\ late' = late
      BY <1>2, <2>2, <3>1 DEF Call, RequestStop, Goto, InCall, QuietCall, CallsInv,
         ClientTypeOK, serverVars, registryVars, fileVars, requestVars
    <3> QED BY <1>2, <2>1, <3>2
  <2>3. CASE Client(j)
    BY <1>2, <2>1, <2>3, QuietClientStep
  <2>4. CASE Handle(j)
    BY <1>2, <2>1, <2>4, QuietHandlerStep
  <2>5. CASE Thread(j) /\ UNCHANGED clientVars
    BY <1>2, <2>1, <2>5, QuietThreadStep DEF clientVars
  <2> QED BY <1>3, <2>2, <2>3, <2>4, <2>5
<1>4. ASSUME NEW j \in Jobs, TimeOut(j) PROVE FALSE
  BY <1>1, <1>4, ClientAssumption DEF TimeOut, Quiet, Calm, CallsInv, ClientTypeOK
<1>5. ASSUME NEW j \in Jobs, LateRequest(j) PROVE FALSE
  BY <1>2, <1>5 DEF LateRequest, LateArrival
<1>6. CASE GpuPhase /\ UNCHANGED clientVars
  BY <1>2, <1>6 DEF GpuPhase, BatchRun, AlignArrive, AlignAcquire, AlignRun, PhaseEnd,
     QuietCall, clientVars, registryVars, fileVars, requestVars
<1>7. CASE ServerDies
  BY <1>7, ServerAssumption DEF ServerDies, Restart, Quiet, Calm, TypeOK
<1>8. CASE UNCHANGED vars
  BY <1>2, <1>8 DEF vars, serverVars, clientVars, registryVars, fileVars, requestVars, QuietCall
<1> QED BY <1>3, <1>4, <1>5, <1>6, <1>7, <1>8 DEF CallNext

THEOREM QuietInvariance == CallSpec => []QuietInv
<1>1. CallInit => QuietInv
  BY DEF CallInit, Init, QuietInv, QuietCall
<1> QED BY <1>1, QuietStep, ServerWithClients, TypeCorrect, JobInvariance, CallsInvariance, PTL
        DEF CallSpec

(* Without faults a call fails only because generation did.                *)
THEOREM FailuresAreReal == CallSpec => []NoSpuriousError
<1>1. QuietInv => NoSpuriousError
  BY DEF QuietInv, Quiet, QuietCall, NoSpuriousError
<1> QED BY <1>1, QuietInvariance, PTL

(* Without faults a call that has returned has left nothing at the server. *)
THEOREM NothingIsLeft == CallSpec => []ServerLeftClean
<1>1. JobInv /\ QuietInv => ServerLeftClean
  BY DEF QuietInv, Quiet, QuietCall, JobInv, FileInv, ServerLeftClean
<1> QED BY <1>1, QuietInvariance, ServerWithClients, JobInvariance, PTL
=============================================================================
