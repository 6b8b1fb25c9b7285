------------------------------- MODULE WebJobs -------------------------------
(***************************************************************************)
(* The life of one lip-sync job in the web app: the API handlers of        *)
(* web/backend/routers/jobs.py, the Celery worker's tasks of               *)
(* web/backend/tasks/pipelines.py, and what they share: the job's row in   *)
(* the database, the stop flag in Redis, the broker's queue, the job's     *)
(* directory.  Handlers are coroutines that interleave at every await, the *)
(* worker is another process (--concurrency=1).                            *)
(*                                                                         *)
(* config_json is one JSON column.  Whoever changes a key writes the whole *)
(* column, from the copy that was read with the row; the worker's session  *)
(* never reads it again (expire_on_commit=False).                          *)
(***************************************************************************)
EXTENDS Naturals, Sequences

CONSTANTS
    Kinds,        \* exports on demand: "mp4" and "epub"
    Calls,        \* POST /export-... requests, each one once
    KindOf,       \* what each of them asks for
    MaxStops,     \* bound on POST /stop
    MaxCrashes    \* bound on tasks that die

ASSUME WebAssumption ==
    /\ Kinds \subseteq {"mp4", "epub"}
    /\ KindOf \in [Calls -> Kinds]
    /\ MaxStops \in Nat
    /\ MaxCrashes \in Nat

VARIABLES
    row, status, taskId, config,   \* the jobs table
    stopFlag,                      \* job:{id}:cancel
    queue,                         \* tasks the broker has not delivered
    revoked,                       \* the run task is revoked
    terminal,                      \* a terminal event has been published
    outputs,                       \* files in the job's directory
    creating, deleting, stopping,  \* where the handlers are
    loaded,                        \* what DELETE read of the row
    stops,                         \* stop requests so far
    call,                          \* where each export request is
    read,                          \* the config it read
    task, at,                      \* what the worker does
    copy,                          \* its copy of config_json
    outcome,                       \* exit code of its pipeline
    crashes                        \* tasks that died so far

jobRow   == <<row, status, taskId, config>>
broker   == <<queue, revoked>>
handlers == <<creating, deleting, loaded, stopping, stops, call, read>>
worker   == <<task, at, copy, outcome>>
vars == <<jobRow, stopFlag, broker, terminal, outputs, handlers, worker, crashes>>

ExportStates == {"none", "running", "done", "failed"}
Configs == [Kinds -> ExportStates]
Final   == {"completed", "failed"}
Tasks   == {"run"} \cup Kinds

TypeOK ==
    /\ row \in {"none", "present", "deleted"}
    /\ status \in {"pending", "running"} \cup Final
    /\ taskId \in BOOLEAN
    /\ config \in Configs
    /\ stopFlag \in BOOLEAN
    /\ queue \in Seq(Tasks)
    /\ revoked \in BOOLEAN
    /\ terminal \in BOOLEAN
    /\ outputs \in SUBSET Tasks
    /\ creating \in {"idle", "committed", "dispatched", "undispatched", "over"}
    /\ deleting \in {"idle", "loaded", "emptied", "over"}
    /\ loaded \in BOOLEAN
    /\ stopping \in {"idle", "checked"}
    /\ stops \in 0..MaxStops
    /\ call \in [Calls -> {"idle", "read", "dispatch", "over"}]
    /\ read \in [Calls -> Configs]
    /\ task \in Tasks \cup {"none"}
    /\ at \in {"idle", "load", "mark", "build", "pipeline", "upload", "finish",
               "clear", "publish"}
    /\ copy \in Configs
    /\ outcome \in {"ok", "failed"}
    /\ crashes \in 0..MaxCrashes

NoExports == [k \in Kinds |-> "none"]

Init ==
    /\ row = "none"
    /\ status = "pending"
    /\ taskId = FALSE
    /\ config = NoExports
    /\ stopFlag = FALSE
    /\ queue = <<>>
    /\ revoked = FALSE
    /\ terminal = FALSE
    /\ outputs = {}
    /\ creating = "idle"
    /\ deleting = "idle"
    /\ loaded = FALSE
    /\ stopping = "idle"
    /\ stops = 0
    /\ call = [c \in Calls |-> "idle"]
    /\ read = [c \in Calls |-> NoExports]
    /\ task = "none"
    /\ at = "idle"
    /\ copy = NoExports
    /\ outcome = "failed"
    /\ crashes = 0

-----------------------------------------------------------------------------
(* POST /jobs: insert and commit, dispatch, store the task's id.           *)

CreateCommit ==
    /\ creating = "idle"
    /\ creating' = "committed"
    /\ row' = "present"
    /\ UNCHANGED <<status, taskId, config, stopFlag, broker, terminal, outputs,
                   deleting, loaded, stopping, stops, call, read, worker, crashes>>

CreateDispatch ==
    /\ creating = "committed"
    /\ creating' = "dispatched"
    /\ queue' = Append(queue, "run")
    /\ UNCHANGED <<jobRow, stopFlag, revoked, terminal, outputs, deleting, loaded,
                   stopping, stops, call, read, worker, crashes>>

(* The broker refuses the task, or the API dies: the row has no task.      *)
CreateUndispatched ==
    /\ creating = "committed"
    /\ creating' = "undispatched"
    /\ UNCHANGED <<jobRow, stopFlag, broker, terminal, outputs, deleting, loaded,
                   stopping, stops, call, read, worker, crashes>>

(* The second commit updates a row that may be gone: then it raises.       *)
CreateRecord ==
    /\ creating = "dispatched"
    /\ creating' = "over"
    /\ taskId' = (taskId \/ row = "present")
    /\ UNCHANGED <<row, status, config, stopFlag, broker, terminal, outputs, deleting,
                   loaded, stopping, stops, call, read, worker, crashes>>

-----------------------------------------------------------------------------
(* DELETE /jobs/{id}.                                                      *)

DeleteLoad ==
    /\ deleting = "idle"
    /\ row = "present"
    /\ deleting' = "loaded"
    /\ loaded' = (status \in {"pending", "running"} /\ taskId)
    /\ UNCHANGED <<jobRow, stopFlag, broker, terminal, outputs, creating, stopping,
                   stops, call, read, worker, crashes>>

(* Revoke if the row, as it was read, has a task that is not over; then    *)
(* the job's directory is removed.                                         *)
DeleteFiles ==
    /\ deleting = "loaded"
    /\ deleting' = "emptied"
    /\ revoked' = (revoked \/ loaded)
    /\ outputs' = {}
    /\ UNCHANGED <<jobRow, stopFlag, queue, terminal, creating, loaded, stopping, stops,
                   call, read, worker, crashes>>

DeleteRow ==
    /\ deleting = "emptied"
    /\ deleting' = "over"
    /\ row' = "deleted"
    /\ UNCHANGED <<status, taskId, config, stopFlag, broker, terminal, outputs, creating,
                   loaded, stopping, stops, call, read, worker, crashes>>

-----------------------------------------------------------------------------
(* POST /jobs/{id}/stop: look at the status, then set the flag.            *)

StopCheck ==
    /\ stopping = "idle"
    /\ stops < MaxStops
    /\ row = "present"
    /\ status \in {"pending", "running"}
    /\ stopping' = "checked"
    /\ stops' = stops + 1
    /\ UNCHANGED <<jobRow, stopFlag, broker, terminal, outputs, creating, deleting,
                   loaded, call, read, worker, crashes>>

StopSet ==
    /\ stopping = "checked"
    /\ stopping' = "idle"
    /\ stopFlag' = TRUE
    /\ UNCHANGED <<jobRow, broker, terminal, outputs, creating, deleting, loaded, stops,
                   call, read, worker, crashes>>

-----------------------------------------------------------------------------
(* POST /jobs/{id}/export-mp4 and /export-epub.                            *)

(* Refused unless completed; nothing to do if already running.             *)
ExportRead(c) ==
    /\ call[c] = "idle"
    /\ row = "present"
    /\ status = "completed"
    /\ call' = [call EXCEPT ![c] = IF config[KindOf[c]] = "running" THEN "over" ELSE "read"]
    /\ read' = [read EXCEPT ![c] = config]
    /\ UNCHANGED <<jobRow, stopFlag, broker, terminal, outputs, creating, deleting,
                   loaded, stopping, stops, worker, crashes>>

ExportWrite(c) ==
    /\ call[c] = "read"
    /\ \/ /\ row = "present"
          /\ config' = [read[c] EXCEPT ![KindOf[c]] = "running"]
          /\ call' = [call EXCEPT ![c] = "dispatch"]
       \/ /\ row = "deleted"
          /\ call' = [call EXCEPT ![c] = "over"]
          /\ UNCHANGED config
    /\ UNCHANGED <<row, status, taskId, stopFlag, broker, terminal, outputs, creating,
                   deleting, loaded, stopping, stops, read, worker, crashes>>

ExportDispatch(c) ==
    /\ call[c] = "dispatch"
    /\ call' = [call EXCEPT ![c] = "over"]
    /\ queue' = Append(queue, KindOf[c])
    /\ UNCHANGED <<jobRow, stopFlag, revoked, terminal, outputs, creating, deleting,
                   loaded, stopping, stops, read, worker, crashes>>

(* Here too: the export stays "running".                                   *)
ExportUndispatched(c) ==
    /\ call[c] = "dispatch"
    /\ call' = [call EXCEPT ![c] = "over"]
    /\ UNCHANGED <<jobRow, stopFlag, broker, terminal, outputs, creating, deleting,
                   loaded, stopping, stops, read, worker, crashes>>

-----------------------------------------------------------------------------
(* The worker.                                                             *)

(* A revoked task is dropped.                                              *)
Take ==
    /\ task = "none"
    /\ queue # <<>>
    /\ queue' = Tail(queue)
    /\ IF Head(queue) = "run" /\ revoked
       THEN UNCHANGED worker
       ELSE /\ task' = Head(queue)
            /\ at' = "load"
            /\ UNCHANGED <<copy, outcome>>
    /\ UNCHANGED <<jobRow, stopFlag, revoked, terminal, outputs, handlers, crashes>>

(* The task returns or raises; either way it is acknowledged.              *)
Done ==
    /\ task' = "none"
    /\ at' = "idle"
    /\ outcome' = "failed"
    /\ copy' = NoExports

Goto(where) == at' = where /\ UNCHANGED <<task, copy, outcome>>

(* db_session.get(Job): an export insists on a completed job.              *)
Load ==
    /\ at = "load"
    /\ IF row = "present" /\ (task = "run" \/ status = "completed")
       THEN /\ at' = "mark"
            /\ copy' = config
            /\ UNCHANGED <<task, outcome>>
       ELSE Done
    /\ UNCHANGED <<jobRow, stopFlag, broker, terminal, outputs, handlers, crashes>>

RunMark ==
    /\ at = "mark"
    /\ task = "run"
    /\ \/ /\ row = "present"
          /\ status' = "running"
          /\ taskId' = TRUE
          /\ Goto("build")
       \/ /\ row = "deleted"
          /\ Done
          /\ UNCHANGED <<status, taskId>>
    /\ UNCHANGED <<row, config, stopFlag, broker, terminal, outputs, handlers, crashes>>

RunBuild ==
    /\ at = "build"
    /\ Goto("pipeline")
    /\ UNCHANGED <<jobRow, stopFlag, broker, terminal, outputs, handlers, crashes>>

(* Not the code: the row is left as it is.                                 *)
RunRefusedSilently ==
    /\ at = "build"
    /\ Done
    /\ UNCHANGED <<jobRow, stopFlag, broker, terminal, outputs, handlers, crashes>>

(* The upload's record is missing, or a request builder raises ValueError: *)
(* failed, without an event and without clearing the stop flag.            *)
RunRefused ==
    /\ at = "build"
    /\ status' = IF row = "present" THEN "failed" ELSE status
    /\ Done
    /\ UNCHANGED <<row, taskId, config, stopFlag, broker, terminal, outputs, handlers,
                   crashes>>

(* The pipeline runs and what it delivers is stored: the file is in the    *)
(* job's directory before anybody is told.  The run's reporter writes the  *)
(* column for each page that is done, if one is.                           *)
Pipeline ==
    /\ at = "pipeline"
    /\ \/ outcome' = "ok" /\ outputs' = outputs \cup {task}
       \/ outcome' = "failed" /\ UNCHANGED outputs
    /\ config' \in IF task = "run" /\ row = "present" THEN {config, copy} ELSE {config}
    /\ at' = "finish"
    /\ UNCHANGED <<row, status, taskId, stopFlag, broker, terminal, handlers, task, copy,
                   crashes>>

(* Not the code: published before it is committed.                         *)
RunFinishPublishing ==
    /\ at = "finish"
    /\ task = "run"
    /\ row = "present"
    /\ terminal' = TRUE
    /\ Goto("clear")
    /\ UNCHANGED <<jobRow, stopFlag, broker, outputs, handlers, crashes>>

(* The final commit, in "finally".  It writes config_json too, with the    *)
(* pipeline's result, if there is one; storing the output may still fail   *)
(* then.  Without a row it raises, and the rest is skipped.                *)
RunFinish ==
    /\ at = "finish"
    /\ task = "run"
    /\ \/ /\ row = "present"
          /\ status' = IF outcome = "ok" THEN "completed" ELSE "failed"
          /\ config' \in IF outcome = "ok" THEN {copy} ELSE {config, copy}
          /\ Goto("clear")
       \/ /\ row = "deleted"
          /\ Done
          /\ UNCHANGED <<status, config>>
    /\ UNCHANGED <<row, taskId, stopFlag, broker, terminal, outputs, handlers, crashes>>

ClearCancel ==
    /\ at = "clear"
    /\ stopFlag' = FALSE
    /\ Goto("publish")
    /\ UNCHANGED <<jobRow, broker, terminal, outputs, handlers, crashes>>

PublishTerminal ==
    /\ at = "publish"
    /\ terminal' = TRUE
    /\ Done
    /\ UNCHANGED <<jobRow, stopFlag, broker, outputs, handlers, crashes>>

(* _set_export writes the worker's copy of the column with one key set.    *)
SetExport(value) ==
    /\ copy' = [copy EXCEPT ![task] = value]
    /\ config' = copy'

(* Not the code: a state that the handlers and the reader do not know.     *)
ExportMarkStarted ==
    /\ at = "mark"
    /\ task \in Kinds
    /\ row = "present"
    /\ SetExport("started")
    /\ at' = "pipeline"
    /\ UNCHANGED <<row, status, taskId, stopFlag, broker, terminal, outputs, handlers,
                   task, outcome, crashes>>

ExportMark ==
    /\ at = "mark"
    /\ task \in Kinds
    /\ \/ /\ row = "present"
          /\ SetExport("running")
          /\ at' = "pipeline"
          /\ UNCHANGED <<task, outcome>>
       \/ /\ row = "deleted"
          /\ Done
          /\ UNCHANGED config
    /\ UNCHANGED <<row, status, taskId, stopFlag, broker, terminal, outputs, handlers,
                   crashes>>

(* Not the code: the exit code is not looked at.                           *)
ExportFinishAlwaysDone ==
    /\ at = "finish"
    /\ task \in Kinds
    /\ row = "present"
    /\ config' = [copy EXCEPT ![task] = "done"]
    /\ Done
    /\ UNCHANGED <<row, status, taskId, stopFlag, broker, terminal, outputs, handlers,
                   crashes>>

ExportFinish ==
    /\ at = "finish"
    /\ task \in Kinds
    /\ config' = IF row = "present"
                 THEN [copy EXCEPT ![task] = IF outcome = "ok" THEN "done" ELSE "failed"]
                 ELSE config
    /\ Done
    /\ UNCHANGED <<row, status, taskId, stopFlag, broker, terminal, outputs, handlers,
                   crashes>>

(* The process that runs the task dies, or the task raises where nothing   *)
(* catches it.  Acknowledged late, the task is delivered again or, when    *)
(* only the child process died, lost.                                      *)
TaskDies ==
    /\ task # "none"
    /\ crashes < MaxCrashes
    /\ crashes' = crashes + 1
    /\ Done
    /\ \/ queue' = Append(queue, task)
       \/ UNCHANGED queue
    /\ UNCHANGED <<jobRow, stopFlag, revoked, terminal, outputs, handlers>>

(* revoke(terminate=True) reaches the running task some time later.        *)
Terminate ==
    /\ revoked
    /\ task = "run"
    /\ Done
    /\ UNCHANGED <<jobRow, stopFlag, broker, terminal, outputs, handlers, crashes>>

Worker ==
    \/ Take \/ Load \/ RunMark \/ RunBuild \/ RunRefused \/ Pipeline \/ RunFinish
    \/ ClearCancel \/ PublishTerminal \/ ExportMark \/ ExportFinish

Create == CreateCommit \/ CreateDispatch \/ CreateUndispatched \/ CreateRecord
Export(c) == ExportRead(c) \/ ExportWrite(c) \/ ExportDispatch(c) \/ ExportUndispatched(c)

Next ==
    \/ Create
    \/ DeleteLoad \/ DeleteFiles \/ DeleteRow
    \/ StopCheck \/ StopSet
    \/ \E c \in Calls : Export(c)
    \/ Worker
    \/ TaskDies
    \/ Terminate

Spec == Init /\ [][Next]_vars

(* Handlers that have started go on, and so does the worker; pipelines     *)
(* end.  No user has to create, stop, export or delete anything.           *)
FairSpec ==
    /\ Spec
    /\ WF_vars(CreateDispatch \/ CreateRecord)
    /\ WF_vars(DeleteFiles \/ DeleteRow)
    /\ WF_vars(StopSet)
    /\ \A c \in Calls : WF_vars(ExportWrite(c) \/ ExportDispatch(c))
    /\ WF_vars(Worker)

-----------------------------------------------------------------------------
(* Properties.                                                             *)

BeingDeleted == deleting \in {"emptied", "over"}

(* A job that is completed has its output, and an export that is done has  *)
(* its file, in spite of lost updates, second deliveries and failing       *)
(* reruns: GET /download and /export-.../download find what the row        *)
(* promises until the job is deleted.                                      *)
DownloadsExist ==
    ~BeingDeleted =>
        /\ status = "completed" => "run" \in outputs
        /\ \A k \in Kinds : config[k] = "done" => k \in outputs

(* The browser fetches the job again when the event stream says it is      *)
(* over: by then the row has its final status.                             *)
EventTellsTheTruth == terminal /\ crashes = 0 => status \in Final

(* A job that was created is run to a final status or deleted, whatever is *)
(* stopped meanwhile, unless a task died under it or it never had one:     *)
(* what is dispatched after the commit may not be dispatched at all.       *)
JobSettles ==
    (row = "present" /\ status \notin Final)
        ~> (status \in Final \/ row = "deleted" \/ crashes > 0 \/ creating = "undispatched")

(* docs/reference/web/backend/pipeline-tasks.md:84, "records the           *)
(* independent epub_export_* state": a request for one export and the task *)
(* that makes it leave the state of the other export alone.  The whole     *)
(* column is written from stale copies, so they do not.                    *)
ExportsIndependent ==
    [][\A k \in Kinds : config'[k] # config[k] =>
        \/ task = k
        \/ \E c \in Calls : KindOf[c] = k /\ call'[c] # call[c]]_vars
=============================================================================
