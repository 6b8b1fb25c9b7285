---------------------------- MODULE LipsyncServer ----------------------------
(***************************************************************************)
(* The GPU inference server (screencastgen/inference_server.py): the       *)
(* registry of lip-sync jobs, one background thread per job, the GPU lock  *)
(* that those threads share with the TTS batcher and with the /align and   *)
(* /transcribe handlers, and the residency of the TTS model.               *)
(*                                                                         *)
(* The dict a job's entry lives in and the thread's reference to that same *)
(* entry are separate: DELETE removes the id from the dict while the       *)
(* thread goes on writing the entry, so "registered" (the dict's keys) is  *)
(* a variable beside the entry's fields "status", "cancelled",             *)
(* "outputPath".                                                           *)
(***************************************************************************)
EXTENDS Naturals, FiniteSets

CONSTANTS
    Jobs,         \* job ids: uuid4().hex, never handed out twice
    Batches,      \* batched TTS calls the batcher makes, each one once
    Aligns,       \* /align and /transcribe requests, each one once
    MaxRestarts   \* bound on the number of times the server process dies

ASSUME ServerAssumption ==
    /\ IsFiniteSet(Jobs)
    /\ Jobs \cap (Batches \cup Aligns) = {}
    /\ Batches \cap Aligns = {}
    /\ "free" \notin Jobs \cup Batches \cup Aligns
    /\ MaxRestarts \in Nat

VARIABLES
    registered,   \* keys of _lipsync_jobs
    status,       \* entry["status"], of a job's entry in the dict or not
    cancelled,    \* jobs whose entry["cancelled"] is True
    outputPath,   \* jobs whose entry["output_path"] is set
    thread,       \* program counter of each job's background thread
    inputs,       \* jobs whose uploaded audio/video temp files exist
    outputs,      \* jobs whose mkstemp'ed output file exists
    deleting,     \* jobs popped by DELETE whose file is not unlinked yet
    download,     \* progress of a GET /lipsync/{id}/result
    gpu,          \* holder of _lipsync_gpu_lock
    phase,        \* state of the other users of the GPU lock
    tts,          \* the TTS model is loaded
    restarts      \* server deaths so far

registryVars == <<registered, status, cancelled, outputPath>>
fileVars     == <<inputs, outputs>>
requestVars  == <<deleting, download>>
gpuVars      == <<gpu, phase, tts>>
serverVars   == <<registryVars, thread, fileVars, requestVars, gpuVars, restarts>>

Phases   == Batches \cup Aligns
Terminal == {"done", "failed", "cancelled"}

(* A thread holds the GPU lock at these points of _run_lipsync_job.        *)
Holding  == {"check", "release", "generate"}
(* ... and has already entered the with-block at these.                    *)
PastLock == Holding \cup {"record", "failing", "discard", "cleanup", "exited"}

TypeOK ==
    /\ registered \in SUBSET Jobs
    /\ status \in [Jobs -> {"none", "queued", "running"} \cup Terminal]
    /\ cancelled \in SUBSET Jobs
    /\ outputPath \in SUBSET Jobs
    /\ thread \in [Jobs -> {"none", "lookup", "acquire", "killed"} \cup PastLock]
    /\ inputs \in SUBSET Jobs
    /\ outputs \in SUBSET Jobs
    /\ deleting \in SUBSET Jobs
    /\ download \in [Jobs -> {"idle", "open", "served", "missing"}]
    /\ gpu \in {"free"} \cup Jobs \cup Phases
    /\ phase \in [Phases -> {"idle", "waiting", "locked", "running", "over"}]
    /\ tts \in BOOLEAN
    /\ restarts \in 0..MaxRestarts

(* main() loads the TTS model before uvicorn starts.                       *)
Init ==
    /\ registered = {}
    /\ status = [j \in Jobs |-> "none"]
    /\ cancelled = {}
    /\ outputPath = {}
    /\ thread = [j \in Jobs |-> "none"]
    /\ inputs = {}
    /\ outputs = {}
    /\ deleting = {}
    /\ download = [j \in Jobs |-> "idle"]
    /\ gpu = "free"
    /\ phase = [p \in Phases |-> "idle"]
    /\ tts = TRUE
    /\ restarts = 0

(***************************************************************************)
(* /align and /transcribe are coroutines that take the GPU lock with a     *)
(* blocking "with": from the moment one waits for the lock until it has    *)
(* its result, the event loop runs nothing else.                           *)
(***************************************************************************)
LoopFree == \A a \in Aligns : phase[a] \notin {"waiting", "locked", "running"}

-----------------------------------------------------------------------------
(* The endpoints.                                                          *)

(* POST /lipsync, a coroutine: save the uploads, register, start a thread. *)
Submit(j) ==
    /\ LoopFree
    /\ status[j] = "none"
    /\ inputs' = inputs \cup {j}
    /\ registered' = registered \cup {j}
    /\ status' = [status EXCEPT ![j] = "queued"]
    /\ thread' = [thread EXCEPT ![j] = "lookup"]
    /\ UNCHANGED <<cancelled, outputPath, outputs, requestVars, gpuVars, restarts>>

(* Not the code: a running job gets a status of its own.                   *)
CancelRenames(j) ==
    /\ j \in registered
    /\ cancelled' = cancelled \cup {j}
    /\ status' = [status EXCEPT ![j] = IF @ = "running" THEN "cancelling" ELSE "cancelled"]
    /\ UNCHANGED <<registered, outputPath, thread, fileVars, requestVars,
                   gpuVars, restarts>>

(* POST /lipsync/{id}/cancel; an id that is not registered is a 404.       *)
Cancel(j) ==
    /\ j \in registered
    /\ cancelled' = cancelled \cup {j}
    /\ status' = IF status[j] = "queued"
                 THEN [status EXCEPT ![j] = "cancelled"] ELSE status
    /\ UNCHANGED <<registered, outputPath, thread, fileVars, requestVars,
                   gpuVars, restarts>>

(* DELETE /lipsync/{id}: pop under the registry lock ...                   *)
DeletePop(j) ==
    /\ j \in registered
    /\ registered' = registered \ {j}
    /\ deleting' = deleting \cup {j}
    /\ UNCHANGED <<status, cancelled, outputPath, thread, fileVars, download,
                   gpuVars, restarts>>

(* ... and unlink the entry's output_path, read after the lock is dropped. *)
DeleteUnlink(j) ==
    /\ j \in deleting
    /\ deleting' = deleting \ {j}
    /\ outputs' = IF j \in outputPath THEN outputs \ {j} ELSE outputs
    /\ UNCHANGED <<registryVars, thread, inputs, download, gpuVars, restarts>>

(* GET /lipsync/{id}/result: take the path under the registry lock ...     *)
ResultLookup(j) ==
    /\ j \in registered
    /\ status[j] = "done"
    /\ j \in outputPath
    /\ download[j] # "open"
    /\ download' = [download EXCEPT ![j] = "open"]
    /\ UNCHANGED <<registryVars, thread, fileVars, deleting, gpuVars, restarts>>

(* ... and open the file after the lock is dropped.                        *)
ResultRead(j) ==
    /\ download[j] = "open"
    /\ download' = [download EXCEPT ![j] =
                        IF j \in outputs THEN "served" ELSE "missing"]
    /\ UNCHANGED <<registryVars, thread, fileVars, deleting, gpuVars, restarts>>

-----------------------------------------------------------------------------
(* The background thread, _run_lipsync_job.                                *)

(* The entry is read without the registry lock; a job deleted before its   *)
(* thread got here is dropped with its uploads.                            *)
ThreadLookup(j) ==
    /\ thread[j] = "lookup"
    /\ IF j \in registered
       THEN /\ thread' = [thread EXCEPT ![j] = "acquire"]
            /\ UNCHANGED inputs
       ELSE /\ thread' = [thread EXCEPT ![j] = "exited"]
            /\ inputs' = inputs \ {j}
    /\ UNCHANGED <<registryVars, outputs, requestVars, gpuVars, restarts>>

(* Not the code: a job that does not wait for the GPU.                     *)
ThreadAcquireUnlocked(j) ==
    /\ thread[j] = "acquire"
    /\ gpu' = j
    /\ thread' = [thread EXCEPT ![j] = "check"]
    /\ UNCHANGED <<registryVars, fileVars, requestVars, phase, tts, restarts>>

ThreadAcquire(j) ==
    /\ thread[j] = "acquire"
    /\ gpu = "free"
    /\ gpu' = j
    /\ thread' = [thread EXCEPT ![j] = "check"]
    /\ UNCHANGED <<registryVars, fileVars, requestVars, phase, tts, restarts>>

(* Not the code: the flag is not looked at again once the GPU is free.     *)
ThreadCheckIgnoresCancel(j) ==
    /\ thread[j] = "check"
    /\ status' = [status EXCEPT ![j] = "running"]
    /\ thread' = [thread EXCEPT ![j] = "release"]
    /\ UNCHANGED <<registered, cancelled, outputPath, fileVars, requestVars,
                   gpuVars, restarts>>

(* Under both locks: stop if cancelled meanwhile, else the job is running. *)
ThreadCheck(j) ==
    /\ thread[j] = "check"
    /\ \/ /\ j \in cancelled
          /\ status' = [status EXCEPT ![j] = "cancelled"]
          /\ thread' = [thread EXCEPT ![j] = "cleanup"]
          /\ gpu' = "free"
       \/ /\ j \notin cancelled
          /\ status' = [status EXCEPT ![j] = "running"]
          /\ thread' = [thread EXCEPT ![j] = "release"]
          /\ UNCHANGED gpu
    /\ UNCHANGED <<registered, cancelled, outputPath, fileVars, requestVars,
                   phase, tts, restarts>>

(* Unload the TTS model, create the output file, call the generator.       *)
ThreadGenerate(j) ==
    /\ thread[j] = "release"
    /\ tts' = FALSE
    /\ outputs' = outputs \cup {j}
    /\ thread' = [thread EXCEPT ![j] = "generate"]
    /\ UNCHANGED <<registryVars, inputs, requestVars, gpu, phase, restarts>>

(* The generator returns; leaving the with-block frees the GPU.            *)
ThreadGenerated(j) ==
    /\ thread[j] = "generate"
    /\ gpu' = "free"
    /\ thread' = [thread EXCEPT ![j] = "record"]
    /\ UNCHANGED <<registryVars, fileVars, requestVars, phase, tts, restarts>>

(* Not the code: acquire and release without a with-block.                 *)
ThreadRaiseKeepsGpu(j) ==
    /\ thread[j] \in {"release", "generate"}
    /\ tts' = FALSE
    /\ thread' = [thread EXCEPT ![j] = "failing"]
    /\ UNCHANGED <<registryVars, fileVars, requestVars, gpu, phase, restarts>>

(* mkstemp or the generator raises; leaving the with-block frees the GPU.  *)
ThreadRaise(j) ==
    /\ thread[j] \in {"release", "generate"}
    /\ gpu' = "free"
    /\ tts' = FALSE
    /\ thread' = [thread EXCEPT ![j] = "failing"]
    /\ UNCHANGED <<registryVars, fileVars, requestVars, phase, restarts>>

(* Not the code: the outcome of generation decides alone.                  *)
ThreadRecordAlwaysDone(j) ==
    /\ thread[j] = "record"
    /\ status' = [status EXCEPT ![j] = "done"]
    /\ outputPath' = outputPath \cup {j}
    /\ thread' = [thread EXCEPT ![j] = "cleanup"]
    /\ UNCHANGED <<registered, cancelled, fileVars, requestVars, gpuVars, restarts>>

(* Not the code: the cancelled job's video stays on disk.                  *)
ThreadRecordKeepsFile(j) ==
    /\ thread[j] = "record"
    /\ status' = [status EXCEPT ![j] = IF j \in cancelled THEN "cancelled" ELSE "done"]
    /\ outputPath' = IF j \in cancelled THEN outputPath ELSE outputPath \cup {j}
    /\ thread' = [thread EXCEPT ![j] = "cleanup"]
    /\ UNCHANGED <<registered, cancelled, fileVars, requestVars, gpuVars, restarts>>

(* Under the registry lock: a cancelled job's video is dropped.            *)
ThreadRecord(j) ==
    /\ thread[j] = "record"
    /\ \/ /\ j \in cancelled
          /\ status' = [status EXCEPT ![j] = "cancelled"]
          /\ outputs' = outputs \ {j}
          /\ UNCHANGED outputPath
       \/ /\ j \notin cancelled
          /\ status' = [status EXCEPT ![j] = "done"]
          /\ outputPath' = outputPath \cup {j}
          /\ UNCHANGED outputs
    /\ thread' = [thread EXCEPT ![j] = "cleanup"]
    /\ UNCHANGED <<registered, cancelled, inputs, requestVars, gpuVars, restarts>>

ThreadFail(j) ==
    /\ thread[j] = "failing"
    /\ status' = [status EXCEPT ![j] = "failed"]
    /\ thread' = [thread EXCEPT ![j] = "discard"]
    /\ UNCHANGED <<registered, cancelled, outputPath, fileVars, requestVars,
                   gpuVars, restarts>>

ThreadDiscard(j) ==
    /\ thread[j] = "discard"
    /\ outputs' = outputs \ {j}
    /\ thread' = [thread EXCEPT ![j] = "cleanup"]
    /\ UNCHANGED <<registryVars, inputs, requestVars, gpuVars, restarts>>

(* Not the code: a finally block that unlinks every temp file it knows.    *)
ThreadCleanupAll(j) ==
    /\ thread[j] = "cleanup"
    /\ inputs' = inputs \ {j}
    /\ outputs' = outputs \ {j}
    /\ thread' = [thread EXCEPT ![j] = "exited"]
    /\ UNCHANGED <<registryVars, requestVars, gpuVars, restarts>>

(* The finally block.                                                      *)
ThreadCleanup(j) ==
    /\ thread[j] = "cleanup"
    /\ inputs' = inputs \ {j}
    /\ thread' = [thread EXCEPT ![j] = "exited"]
    /\ UNCHANGED <<registryVars, outputs, requestVars, gpuVars, restarts>>

Thread(j) ==
    \/ ThreadLookup(j) \/ ThreadAcquire(j) \/ ThreadCheck(j)
    \/ ThreadGenerate(j) \/ ThreadGenerated(j) \/ ThreadRaise(j)
    \/ ThreadRecord(j) \/ ThreadFail(j) \/ ThreadDiscard(j) \/ ThreadCleanup(j)

-----------------------------------------------------------------------------
(* The other users of the GPU lock.                                        *)

(* Not the code: a batcher built without run_lock.                         *)
BatchRunUnlocked(b) ==
    /\ phase[b] = "idle"
    /\ tts' = TRUE
    /\ phase' = [phase EXCEPT ![b] = "over"]
    /\ UNCHANGED <<registryVars, thread, fileVars, requestVars, gpu, restarts>>

(* The batcher's worker takes run_lock around synthesize_batch, which      *)
(* reloads the model when it was released (_ensure_model).                 *)
BatchRun(b) ==
    /\ phase[b] = "idle"
    /\ gpu = "free"
    /\ gpu' = b
    /\ tts' = TRUE
    /\ phase' = [phase EXCEPT ![b] = "running"]
    /\ UNCHANGED <<registryVars, thread, fileVars, requestVars, restarts>>

AlignArrive(a) ==
    /\ LoopFree
    /\ phase[a] = "idle"
    /\ phase' = [phase EXCEPT ![a] = "waiting"]
    /\ UNCHANGED <<registryVars, thread, fileVars, requestVars, gpu, tts, restarts>>

AlignAcquire(a) ==
    /\ phase[a] = "waiting"
    /\ gpu = "free"
    /\ gpu' = a
    /\ phase' = [phase EXCEPT ![a] = "locked"]
    /\ UNCHANGED <<registryVars, thread, fileVars, requestVars, tts, restarts>>

AlignRun(a) ==
    /\ phase[a] = "locked"
    /\ tts' = FALSE
    /\ phase' = [phase EXCEPT ![a] = "running"]
    /\ UNCHANGED <<registryVars, thread, fileVars, requestVars, gpu, restarts>>

(* Result or exception: the lock is released either way.                   *)
PhaseEnd(p) ==
    /\ phase[p] = "running"
    /\ gpu' = "free"
    /\ phase' = [phase EXCEPT ![p] = "over"]
    /\ UNCHANGED <<registryVars, thread, fileVars, requestVars, tts, restarts>>

(* The process dies and comes back: dict, threads and locks are new, temp  *)
(* files stay on disk, and main() loads the model again.                   *)
Restart ==
    /\ restarts < MaxRestarts
    /\ restarts' = restarts + 1
    /\ registered' = {}
    /\ thread' = [j \in Jobs |-> IF thread[j] \in {"none", "exited"}
                               THEN thread[j] ELSE "killed"]
    /\ deleting' = {}
    /\ download' = [j \in Jobs |-> "idle"]
    /\ gpu' = "free"
    /\ phase' = [p \in Phases |-> IF phase[p] = "idle" THEN "idle" ELSE "over"]
    /\ tts' = TRUE
    /\ UNCHANGED <<status, cancelled, outputPath, fileVars>>

GpuPhase ==
    \/ \E b \in Batches : BatchRun(b)
    \/ \E a \in Aligns : AlignArrive(a) \/ AlignAcquire(a) \/ AlignRun(a)
    \/ \E p \in Phases : PhaseEnd(p)

Request(j) ==
    \/ Submit(j) \/ Cancel(j) \/ DeletePop(j) \/ DeleteUnlink(j)
    \/ ResultLookup(j) \/ ResultRead(j)

Next ==
    \/ \E j \in Jobs : Request(j) \/ Thread(j)
    \/ GpuPhase
    \/ Restart

Spec == Init /\ [][Next]_serverVars

(***************************************************************************)
(* Threads and handlers the server has started keep running, and every     *)
(* generator, batch and alignment returns or raises (the LatentSync worker *)
(* is read with a timeout).  Clients owe nothing.  Weak fairness is enough *)
(* for the GPU lock because Jobs, Batches and Aligns bound its users: a    *)
(* waiting thread is overtaken finitely often.                             *)
(***************************************************************************)
ServerFairness ==
    /\ \A j \in Jobs : WF_serverVars(Thread(j)) /\ WF_serverVars(DeleteUnlink(j))
    /\ WF_serverVars(\E a \in Aligns : AlignAcquire(a) \/ AlignRun(a))
    /\ WF_serverVars(\E p \in Phases : PhaseEnd(p))

FairSpec == Spec /\ ServerFairness

-----------------------------------------------------------------------------
(* Properties.                                                             *)

UsingGpu ==
    {j \in Jobs : thread[j] \in Holding}
        \cup {p \in Phases : phase[p] \in {"locked", "running"}}

(* The GPU lock serialises TTS, transcription, alignment and lip-sync      *)
(* (inference_server.py:47-51): at most one of them uses the GPU, and it   *)
(* is the holder of the lock, on every exit path of every one of them.     *)
GpuExclusive == UsingGpu = IF gpu = "free" THEN {} ELSE {gpu}

(* "model handoffs can release VRAM before the next GPU-heavy phase        *)
(* starts": the TTS model is never resident while a video is generated or  *)
(* an alignment or transcription computes, whatever the batcher does.      *)
VramHandoff ==
    (\/ \E j \in Jobs : thread[j] = "generate"
     \/ \E a \in Aligns : phase[a] = "running") => ~tts

(* A job the server calls done can be downloaded: while it is registered   *)
(* its file exists, and a download that finds no file lost it to a DELETE. *)
ResultAvailable ==
    \A j \in Jobs :
        /\ j \in registered /\ status[j] = "done" => j \in outputPath /\ j \in outputs
        /\ download[j] = "missing" => j \notin registered

(* When a job's thread has exited, its uploads are gone, and so is its     *)
(* output unless the job is done: a cancelled or failed job leaves nothing *)
(* on disk whenever the cancellation or the failure struck.                *)
NoLeftovers ==
    \A j \in Jobs : thread[j] = "exited" =>
        /\ j \notin inputs
        /\ j \in outputs => status[j] = "done"

(* A cancellation accepted before the job is done wins: the job never      *)
(* becomes done afterwards, not even when the video was already generated. *)
CancelWins ==
    [][\A j \in cancelled : status[j] # "done" => status'[j] # "done"]_serverVars

(* A poller that saw a final status sees the same one ever after: neither  *)
(* a cancellation nor the thread moves a job out of it.                    *)
TerminalStable ==
    [][\A j \in Jobs : status[j] \in Terminal => status'[j] = status[j]]_serverVars

(* Every submitted job's thread ends, and a job still registered then has  *)
(* a final status, so that its client stops polling.                       *)
JobSettles ==
    \A j \in Jobs : thread[j] = "lookup" ~>
        /\ thread[j] \in {"exited", "killed"}
        /\ j \in registered => status[j] \in Terminal

(* inference_server.py:23, "DELETE /lipsync/{id}: Discard a lip-sync job   *)
(* and its output": once a deleted job's thread has exited, no output file *)
(* of it is left.  The code does not do this for a job deleted before it   *)
(* is recorded as done; see the README.                                    *)
DeleteDiscardsOutput ==
    \A j \in Jobs :
        thread[j] = "exited" /\ j \notin registered \cup deleting => j \notin outputs
=============================================================================
