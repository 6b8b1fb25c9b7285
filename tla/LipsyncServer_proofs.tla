------------------------- MODULE LipsyncServer_proofs -------------------------
(***************************************************************************)
(* Proofs about the GPU inference server, for any number of jobs, batches, *)
(* alignments and server deaths: its types, the exclusion on the GPU, the  *)
(* hand-over of VRAM, and the life of a lip-sync job.                      *)
(***************************************************************************)
EXTENDS LipsyncServer, TLAPS

(* GpuExclusive read lock holder by lock holder.                           *)
GpuInv ==
    /\ \A j \in Jobs : thread[j] \in Holding <=> gpu = j
    /\ \A p \in Phases : phase[p] \in {"locked", "running"} <=> gpu = p

(* What a job's status says about where its thread is.                     *)
StatusInv(j) ==
    /\ status[j] = "none" <=> thread[j] = "none"
    /\ thread[j] \in {"lookup", "acquire", "check"} =>
        \/ status[j] = "queued"
        \/ status[j] = "cancelled" /\ j \in cancelled
    /\ thread[j] \in {"release", "generate", "record", "failing"} => status[j] = "running"
    /\ thread[j] = "discard" => status[j] = "failed"
    /\ thread[j] = "cleanup" => status[j] \in Terminal
    /\ status[j] = "done" =>
        thread[j] \in {"cleanup", "exited", "killed"} /\ j \in outputPath
    /\ j \in outputPath => status[j] = "done"

(* Which of a job's files exist at each point of its thread.               *)
FileInv(j) ==
    /\ thread[j] \in {"none", "lookup", "acquire", "check", "release"} => j \notin outputs
    /\ thread[j] \in {"generate", "record"} => j \in outputs
    /\ thread[j] \in {"cleanup", "exited"} => (j \in outputs => status[j] = "done")
    /\ thread[j] = "exited" => j \notin inputs

(* A download and a DELETE of one job.                                     *)
DownloadInv(j) ==
    /\ j \in deleting => j \notin registered
    /\ j \in registered \cup deleting => status[j] # "none"
    /\ download[j] # "idle" => status[j] = "done"
    /\ j \in registered /\ status[j] = "done" => j \in outputs
    /\ download[j] = "missing" => j \notin registered

JobInv == \A j \in Jobs : StatusInv(j) /\ FileInv(j) /\ DownloadInv(j)
-----------------------------------------------------------------------------
(* Types.                                                                  *)

(* Every handler and every step of a background thread keeps the registry, *)
(* the threads, the files and the locks within their types.                *)
THEOREM TypeCorrect == Spec => []TypeOK
<1>1. Init => TypeOK
  BY ServerAssumption DEF Init, TypeOK, Phases, PastLock, Holding, Terminal
<1>2. TypeOK /\ [Next]_serverVars => TypeOK'
  <2> SUFFICES ASSUME TypeOK, [Next]_serverVars PROVE TypeOK'
    OBVIOUS
  <2> USE ServerAssumption DEF TypeOK, Phases, PastLock, Holding, Terminal,
        registryVars, fileVars, requestVars, gpuVars
  <2>1. ASSUME NEW j \in Jobs, Request(j) PROVE TypeOK'
    <3>1. CASE Submit(j) BY <3>1 DEF Submit
    <3>2. CASE Cancel(j) BY <3>2 DEF Cancel
    <3>3. CASE DeletePop(j) BY <3>3 DEF DeletePop
    <3>4. CASE DeleteUnlink(j) BY <3>4 DEF DeleteUnlink
    <3>5. CASE ResultLookup(j) BY <3>5 DEF ResultLookup
    <3>6. CASE ResultRead(j) BY <3>6 DEF ResultRead
    <3> QED BY <2>1, <3>1, <3>2, <3>3, <3>4, <3>5, <3>6 DEF Request
  <2>2. ASSUME NEW j \in Jobs, Thread(j) PROVE TypeOK'
    <3>1. CASE ThreadLookup(j) BY <3>1 DEF ThreadLookup
    <3>2. CASE ThreadAcquire(j) BY <3>2 DEF ThreadAcquire
    <3>3. CASE ThreadCheck(j) BY <3>3 DEF ThreadCheck
    <3>4. CASE ThreadGenerate(j) BY <3>4 DEF ThreadGenerate
    <3>5. CASE ThreadGenerated(j) BY <3>5 DEF ThreadGenerated
    <3>6. CASE ThreadRaise(j) BY <3>6 DEF ThreadRaise
    <3>7. CASE ThreadRecord(j) BY <3>7 DEF ThreadRecord
    <3>8. CASE ThreadFail(j) BY <3>8 DEF ThreadFail
    <3>9. CASE ThreadDiscard(j) BY <3>9 DEF ThreadDiscard
    <3>10. CASE ThreadCleanup(j) BY <3>10 DEF ThreadCleanup
    <3> QED BY <2>2, <3>1, <3>2, <3>3, <3>4, <3>5, <3>6, <3>7, <3>8, <3>9, <3>10
            DEF Thread
  <2>3. CASE GpuPhase
    <3>1. ASSUME NEW b \in Batches, BatchRun(b) PROVE TypeOK'
      BY <3>1 DEF BatchRun
    <3>2. ASSUME NEW a \in Aligns, AlignArrive(a) PROVE TypeOK'
      BY <3>2 DEF AlignArrive
    <3>3. ASSUME NEW a \in Aligns, AlignAcquire(a) PROVE TypeOK'
      BY <3>3 DEF AlignAcquire
    <3>4. ASSUME NEW a \in Aligns, AlignRun(a) PROVE TypeOK'
      BY <3>4 DEF AlignRun
    <3>5. ASSUME NEW p \in Phases, PhaseEnd(p) PROVE TypeOK'
      BY <3>5 DEF PhaseEnd
    <3> QED BY <2>3, <3>1, <3>2, <3>3, <3>4, <3>5 DEF GpuPhase
  <2>4. CASE Restart
    BY <2>4 DEF Restart
  <2>5. CASE UNCHANGED serverVars
    BY <2>5 DEF serverVars
  <2> QED BY <2>1, <2>2, <2>3, <2>4, <2>5 DEF Next
<1> QED BY <1>1, <1>2, PTL DEF Spec

-----------------------------------------------------------------------------
(* The life of a job.                                                      *)

(* A step that concerns job j leaves what holds of every other job.        *)
LEMMA OtherJobs ==
    ASSUME TypeOK, JobInv, NEW j \in Jobs, Request(j) \/ Thread(j),
           NEW i \in Jobs, i # j
    PROVE  StatusInv(i)' /\ FileInv(i)' /\ DownloadInv(i)'
<1> USE DEF TypeOK, JobInv, StatusInv, FileInv, DownloadInv, Terminal, registryVars,
      fileVars, requestVars, gpuVars
<1>1. CASE Request(j)
  BY <1>1 DEF Request, Submit, Cancel, DeletePop, DeleteUnlink, ResultLookup,
       ResultRead
<1>2. CASE Thread(j)
  BY <1>2 DEF Thread, ThreadLookup, ThreadAcquire, ThreadCheck, ThreadGenerate,
       ThreadGenerated, ThreadRaise, ThreadRecord, ThreadFail, ThreadDiscard,
       ThreadCleanup
<1> QED BY <1>1, <1>2

(* Each request about a job and each step of its thread, wherever they     *)
(* meet, keeps status, files and downloads of that job in agreement.       *)
LEMMA JobStep == TypeOK /\ JobInv /\ [Next]_serverVars => JobInv'
<1> SUFFICES ASSUME TypeOK, JobInv, [Next]_serverVars PROVE JobInv'
  OBVIOUS
<1> DEFINE Good(j) == StatusInv(j) /\ FileInv(j) /\ DownloadInv(j)
<1>1. ASSUME NEW j \in Jobs, Request(j) PROVE Good(j)'
  <2> USE DEF TypeOK, JobInv, StatusInv, FileInv, DownloadInv, Terminal, registryVars,
        fileVars, requestVars, gpuVars
  <2>1. CASE Submit(j) BY <2>1 DEF Submit
  <2>2. CASE Cancel(j) BY <2>2 DEF Cancel
  <2>3. CASE DeletePop(j) BY <2>3 DEF DeletePop
  <2>4. CASE DeleteUnlink(j) BY <2>4 DEF DeleteUnlink
  <2>5. CASE ResultLookup(j) BY <2>5 DEF ResultLookup
  <2>6. CASE ResultRead(j) BY <2>6 DEF ResultRead
  <2> QED BY <1>1, <2>1, <2>2, <2>3, <2>4, <2>5, <2>6 DEF Request
<1>2. ASSUME NEW j \in Jobs, Thread(j) PROVE Good(j)'
  <2> USE DEF TypeOK, JobInv, StatusInv, FileInv, DownloadInv, Terminal, registryVars,
        fileVars, requestVars, gpuVars
  <2>1. CASE ThreadLookup(j) BY <2>1 DEF ThreadLookup
  <2>2. CASE ThreadAcquire(j) BY <2>2 DEF ThreadAcquire
  <2>3. CASE ThreadCheck(j) BY <2>3 DEF ThreadCheck
  <2>4. CASE ThreadGenerate(j) BY <2>4 DEF ThreadGenerate
  <2>5. CASE ThreadGenerated(j) BY <2>5 DEF ThreadGenerated
  <2>6. CASE ThreadRaise(j) BY <2>6 DEF ThreadRaise
  <2>7. CASE ThreadRecord(j) BY <2>7 DEF ThreadRecord
  <2>8. CASE ThreadFail(j) BY <2>8 DEF ThreadFail
  <2>9. CASE ThreadDiscard(j) BY <2>9 DEF ThreadDiscard
  <2>10. CASE ThreadCleanup(j) BY <2>10 DEF ThreadCleanup
  <2> QED BY <1>2, <2>1, <2>2, <2>3, <2>4, <2>5, <2>6, <2>7, <2>8, <2>9, <2>10
          DEF Thread
<1>3. ASSUME NEW j \in Jobs, Request(j) \/ Thread(j) PROVE JobInv'
  <2>1. Good(j)'
    BY <1>1, <1>2, <1>3
  <2>2. ASSUME NEW i \in Jobs, i # j PROVE Good(i)'
    BY <1>3, <2>2, OtherJobs
  <2>3. ASSUME NEW i \in Jobs PROVE Good(i)'
    BY <2>1, <2>2, <2>3
  <2> QED BY <2>3 DEF JobInv
<1>4. CASE GpuPhase \/ UNCHANGED serverVars
  <2>1. UNCHANGED <<registryVars, thread, fileVars, requestVars>>
    BY <1>4 DEF GpuPhase, BatchRun, AlignArrive, AlignAcquire, AlignRun, PhaseEnd,
         serverVars, gpuVars
  <2> QED BY <2>1 DEF JobInv, StatusInv, FileInv, DownloadInv, registryVars, fileVars,
            requestVars
<1>5. CASE Restart
  BY <1>5 DEF Restart, TypeOK, JobInv, StatusInv, FileInv, DownloadInv, Terminal,
       fileVars
<1> QED BY <1>3, <1>4, <1>5 DEF Next

(* Status, files and downloads of every job agree with its thread.         *)
THEOREM JobInvariance == Spec => []JobInv
<1>1. Init => JobInv
  BY DEF Init, JobInv, StatusInv, FileInv, DownloadInv, Terminal
<1> QED BY <1>1, JobStep, TypeCorrect, PTL DEF Spec

(* Whenever a cancellation, a failure or a DELETE strikes, a thread that   *)
(* has exited leaves no uploads, and a video only of a job that is done.   *)
THEOREM NothingLeftOver == Spec => []NoLeftovers
<1>1. JobInv => NoLeftovers
  BY DEF JobInv, FileInv, NoLeftovers
<1> QED BY <1>1, JobInvariance, PTL

(* A job that is called done can be downloaded, unless a DELETE of that    *)
(* job comes in between.                                                   *)
THEOREM DoneIsAvailable == Spec => []ResultAvailable
<1>1. JobInv => ResultAvailable
  BY DEF JobInv, StatusInv, DownloadInv, ResultAvailable
<1> QED BY <1>1, JobInvariance, PTL

(* No step of a thread, of a request or of the server moves a job out of a *)
(* final status.                                                           *)
LEMMA FinalStatusStep ==
    ASSUME TypeOK, JobInv, [Next]_serverVars, NEW j \in Jobs, status[j] \in Terminal
    PROVE  status'[j] = status[j]
<1>1. CASE \E i \in Jobs : Request(i)
  BY <1>1 DEF TypeOK, Terminal, registryVars, Request, Submit, Cancel, DeletePop,
       DeleteUnlink, ResultLookup, ResultRead
<1>2. CASE \E i \in Jobs : Thread(i)
  BY <1>2 DEF TypeOK, JobInv, StatusInv, Terminal, registryVars, Thread,
       ThreadLookup, ThreadAcquire, ThreadCheck, ThreadGenerate, ThreadGenerated,
       ThreadRaise, ThreadRecord, ThreadFail, ThreadDiscard, ThreadCleanup
<1>3. CASE GpuPhase \/ Restart \/ UNCHANGED serverVars
  BY <1>3 DEF GpuPhase, BatchRun, AlignArrive, AlignAcquire, AlignRun, PhaseEnd,
       Restart, registryVars, serverVars
<1> QED BY <1>1, <1>2, <1>3 DEF Next

(* A poller that saw a job done, failed or cancelled sees the same ever    *)
(* after, whatever cancellation or thread comes late.                      *)
THEOREM FinalStatusStays == Spec => TerminalStable
<1>1. TypeOK /\ JobInv /\ [Next]_serverVars
        => [\A j \in Jobs : status[j] \in Terminal => status'[j] = status[j]]_serverVars
  BY FinalStatusStep
<1> QED BY <1>1, TypeCorrect, JobInvariance, PTL DEF Spec, TerminalStable

(* Once a cancellation is accepted, a job that is not done never is.       *)
THEOREM CancellationWins == Spec => CancelWins
<1>1. TypeOK /\ [Next]_serverVars
        => [\A j \in cancelled : status[j] # "done" => status'[j] # "done"]_serverVars
  <2> SUFFICES ASSUME TypeOK, [Next]_serverVars,
                      NEW j \in cancelled, status[j] # "done"
               PROVE  status'[j] # "done"
    OBVIOUS
  <2>0. j \in Jobs
    BY DEF TypeOK
  <2>1. CASE \E i \in Jobs : Request(i)
    BY <2>0, <2>1 DEF TypeOK, registryVars, Request, Submit, Cancel, DeletePop,
         DeleteUnlink, ResultLookup, ResultRead
  <2>2. CASE \E i \in Jobs : Thread(i)
    BY <2>0, <2>2 DEF TypeOK, registryVars, Thread, ThreadLookup, ThreadAcquire,
         ThreadCheck, ThreadGenerate, ThreadGenerated, ThreadRaise, ThreadRecord,
         ThreadFail, ThreadDiscard, ThreadCleanup
  <2>3. CASE GpuPhase \/ Restart \/ UNCHANGED serverVars
    BY <2>3 DEF GpuPhase, BatchRun, AlignArrive, AlignAcquire, AlignRun, PhaseEnd,
         Restart, registryVars, serverVars
  <2> QED BY <2>1, <2>2, <2>3 DEF Next
<1> QED BY <1>1, TypeCorrect, PTL DEF Spec, CancelWins

-----------------------------------------------------------------------------
(* The GPU lock and the VRAM.                                              *)

(* The users of the GPU have different names.                              *)
LEMMA PhaseIsNoJob ==
    /\ Batches \subseteq Phases
    /\ Aligns \subseteq Phases
    /\ \A p \in Phases : p \notin Jobs /\ p # "free"
    /\ \A j \in Jobs : j # "free"
    /\ \A b \in Batches : b \notin Aligns
BY ServerAssumption DEF Phases

(* Every acquisition and every way out of a with-block keeps the record of *)
(* the lock's holder and the users of the GPU in step.  JobInv is needed:  *)
(* Submit moves a thread to its start, and it must not be one that holds   *)
(* the lock.                                                               *)
LEMMA GpuStep == TypeOK /\ JobInv /\ GpuInv /\ [Next]_serverVars => GpuInv'
<1> SUFFICES ASSUME TypeOK, JobInv, GpuInv, [Next]_serverVars PROVE GpuInv'
  OBVIOUS
<1> USE PhaseIsNoJob DEF GpuInv, TypeOK, Holding, registryVars, fileVars,
      requestVars, gpuVars
<1>1. ASSUME NEW j \in Jobs, Request(j) PROVE GpuInv'
  BY <1>1 DEF JobInv, StatusInv, Request, Submit, Cancel, DeletePop, DeleteUnlink, ResultLookup,
       ResultRead
<1>2. ASSUME NEW j \in Jobs, Thread(j) PROVE GpuInv'
  <2>1. CASE ThreadLookup(j) BY <2>1 DEF ThreadLookup
  <2>2. CASE ThreadAcquire(j) BY <2>2 DEF ThreadAcquire
  <2>3. CASE ThreadCheck(j) BY <2>3 DEF ThreadCheck
  <2>4. CASE ThreadGenerate(j) BY <2>4 DEF ThreadGenerate
  <2>5. CASE ThreadGenerated(j) BY <2>5 DEF ThreadGenerated
  <2>6. CASE ThreadRaise(j) BY <2>6 DEF ThreadRaise
  <2>7. CASE ThreadRecord(j) \/ ThreadFail(j) \/ ThreadDiscard(j) \/ ThreadCleanup(j)
    BY <2>7 DEF ThreadRecord, ThreadFail, ThreadDiscard, ThreadCleanup
  <2> QED BY <1>2, <2>1, <2>2, <2>3, <2>4, <2>5, <2>6, <2>7 DEF Thread
<1>3. CASE GpuPhase
  <2>1. ASSUME NEW b \in Batches, BatchRun(b) PROVE GpuInv'
    BY <2>1 DEF BatchRun
  <2>2. ASSUME NEW a \in Aligns, AlignArrive(a) PROVE GpuInv'
    BY <2>2 DEF AlignArrive
  <2>3. ASSUME NEW a \in Aligns, AlignAcquire(a) PROVE GpuInv'
    BY <2>3 DEF AlignAcquire
  <2>4. ASSUME NEW a \in Aligns, AlignRun(a) PROVE GpuInv'
    BY <2>4 DEF AlignRun
  <2>5. ASSUME NEW p \in Phases, PhaseEnd(p) PROVE GpuInv'
    BY <2>5 DEF PhaseEnd
  <2> QED BY <1>3, <2>1, <2>2, <2>3, <2>4, <2>5 DEF GpuPhase
<1>4. CASE Restart
  BY <1>4 DEF Restart
<1>5. CASE UNCHANGED serverVars
  BY <1>5 DEF serverVars
<1> QED BY <1>1, <1>2, <1>3, <1>4, <1>5 DEF Next

(* The recorded lock holder is the one job or phase inside the lock.       *)
THEOREM GpuInvariance == Spec => []GpuInv
<1>1. Init => GpuInv
  BY PhaseIsNoJob DEF Init, GpuInv, Holding
<1> QED BY <1>1, GpuStep, TypeCorrect, JobInvariance, PTL DEF Spec

(* At most one of the lip-sync jobs, the TTS batches, the alignments and   *)
(* the transcriptions is inside the GPU lock, and it is the one the lock   *)
(* says: no path out of any of them leaves the lock behind.                *)
THEOREM GpuExclusion == Spec => []GpuExclusive
<1>1. TypeOK /\ GpuInv => GpuExclusive
  BY PhaseIsNoJob DEF TypeOK, GpuInv, GpuExclusive, UsingGpu
<1> QED BY <1>1, TypeCorrect, GpuInvariance, PTL

(* The TTS model is not resident while a video is generated or an          *)
(* alignment runs: only the batcher loads it, under the same lock.         *)
THEOREM VramHandedOff == Spec => []VramHandoff
<1>1. Init => VramHandoff
  BY ServerAssumption, PhaseIsNoJob DEF Init, VramHandoff
<1>2. TypeOK /\ GpuInv /\ GpuInv' /\ VramHandoff /\ [Next]_serverVars => VramHandoff'
  <2> SUFFICES ASSUME TypeOK, GpuInv, GpuInv', VramHandoff, [Next]_serverVars
               PROVE VramHandoff'
    OBVIOUS
  <2> USE PhaseIsNoJob DEF GpuInv, TypeOK, Holding, VramHandoff, registryVars,
        fileVars, requestVars, gpuVars
  <2>1. ASSUME NEW j \in Jobs, Request(j) PROVE VramHandoff'
    BY <2>1 DEF Request, Submit, Cancel, DeletePop, DeleteUnlink, ResultLookup,
         ResultRead
  <2>2. ASSUME NEW j \in Jobs, Thread(j) PROVE VramHandoff'
    BY <2>2 DEF Thread, ThreadLookup, ThreadAcquire, ThreadCheck, ThreadGenerate,
         ThreadGenerated, ThreadRaise, ThreadRecord, ThreadFail, ThreadDiscard,
         ThreadCleanup
  <2>3. CASE GpuPhase
    <3>1. ASSUME NEW b \in Batches, BatchRun(b) PROVE VramHandoff'
      BY <3>1 DEF BatchRun
    <3>2. ASSUME NEW a \in Aligns, AlignArrive(a) \/ AlignAcquire(a) \/ AlignRun(a)
          PROVE VramHandoff'
      BY <3>2 DEF AlignArrive, AlignAcquire, AlignRun
    <3>3. ASSUME NEW p \in Phases, PhaseEnd(p) PROVE VramHandoff'
      BY <3>3 DEF PhaseEnd
    <3> QED BY <2>3, <3>1, <3>2, <3>3 DEF GpuPhase
  <2>4. CASE Restart
    BY <2>4 DEF Restart
  <2>5. CASE UNCHANGED serverVars
    BY <2>5 DEF serverVars
  <2> QED BY <2>1, <2>2, <2>3, <2>4, <2>5 DEF Next
<1> QED BY <1>1, <1>2, TypeCorrect, GpuInvariance, PTL DEF Spec
=============================================================================
