---------------------------- MODULE WebJobs_proofs ----------------------------
(***************************************************************************)
(* Proofs about the life of a web job, for any exports and any number of   *)
(* export requests, stops and dying tasks: the row never promises a file   *)
(* that is not there, and a terminal event is never early.                 *)
(***************************************************************************)
EXTENDS WebJobs, SequenceTheorems, TLAPS

(* The worker has a task exactly when it is somewhere in one.              *)
WorkInv == task = "none" <=> at = "idle"

LEMMA RunIsNoExport == "run" \notin Kinds /\ "none" \notin Kinds
BY WebAssumption

-----------------------------------------------------------------------------
(* Types.                                                                  *)

LEMMA QueueTypes ==
    ASSUME NEW q \in Seq(Tasks)
    PROVE  /\ \A t \in Tasks : Append(q, t) \in Seq(Tasks)
           /\ q # <<>> => Head(q) \in Tasks /\ Tail(q) \in Seq(Tasks)
BY AppendProperties, HeadTailProperties

LEMMA HandlerTypes ==
    ASSUME TypeOK, WorkInv,
           \/ Create
           \/ DeleteLoad \/ DeleteFiles \/ DeleteRow
           \/ StopCheck \/ StopSet
    PROVE  TypeOK' /\ WorkInv'
<1>1. Append(queue, "run") \in Seq(Tasks)
  BY QueueTypes DEF TypeOK, Tasks
<1>2. CASE Create
  <2>1. (taskId \/ row = "present") \in BOOLEAN
    BY Zenon
  <2>2. CASE CreateCommit
    BY <2>2 DEF CreateCommit, TypeOK, WorkInv, broker, worker
  <2>3. CASE CreateDispatch
    BY <1>1, <2>3 DEF CreateDispatch, TypeOK, WorkInv, jobRow, worker
  <2>4. CASE CreateUndispatched
    BY <2>4 DEF CreateUndispatched, TypeOK, WorkInv, jobRow, broker, worker
  <2>5. CASE CreateRecord
    <3>1. taskId' \in BOOLEAN
      BY <2>1, <2>5, Zenon DEF CreateRecord
    <3> QED BY <2>5, <3>1 DEF CreateRecord, TypeOK, WorkInv, broker, worker
  <2> QED BY <1>2, <2>2, <2>3, <2>4, <2>5 DEF Create
<1>3. CASE DeleteLoad
  BY <1>3 DEF DeleteLoad, TypeOK, WorkInv, jobRow, broker, worker
<1>4. CASE DeleteFiles \/ DeleteRow
  BY <1>4 DEF DeleteFiles, DeleteRow, TypeOK, WorkInv, jobRow, broker, worker
<1>5. CASE StopCheck
  BY <1>5, WebAssumption DEF StopCheck, TypeOK, WorkInv, jobRow, broker, worker
<1>6. CASE StopSet
  BY <1>6 DEF StopSet, TypeOK, WorkInv, jobRow, broker, worker
<1> QED BY <1>2, <1>3, <1>4, <1>5, <1>6

LEMMA ExportTypes ==
    ASSUME TypeOK, WorkInv, NEW c \in Calls, Export(c)
    PROVE  TypeOK' /\ WorkInv'
<1>1. KindOf[c] \in Kinds /\ KindOf[c] \in Tasks
  BY WebAssumption DEF Tasks
<1>2. Append(queue, KindOf[c]) \in Seq(Tasks)
  BY <1>1, QueueTypes DEF TypeOK
<1>3. CASE ExportRead(c)
  BY <1>3 DEF ExportRead, TypeOK, WorkInv, jobRow, broker, worker
<1>4. CASE ExportWrite(c)
  <2>1. [read[c] EXCEPT ![KindOf[c]] = "running"] \in Configs
    BY <1>1 DEF TypeOK, Configs, ExportStates
  <2> QED BY <1>4, <2>1 DEF ExportWrite, TypeOK, WorkInv, jobRow, broker, worker
<1>5. CASE ExportDispatch(c)
  BY <1>2, <1>5 DEF ExportDispatch, TypeOK, WorkInv, jobRow, broker, worker
<1>6. CASE ExportUndispatched(c)
  BY <1>6 DEF ExportUndispatched, TypeOK, WorkInv, jobRow, broker, worker
<1> QED BY <1>3, <1>4, <1>5, <1>6 DEF Export

LEMMA WorkerTypes ==
    ASSUME TypeOK, WorkInv, Worker \/ TaskDies \/ Terminate
    PROVE  TypeOK' /\ WorkInv'
<1> USE DEF jobRow, broker, handlers, worker, Done, Goto
<1>1. NoExports \in Configs
  BY DEF NoExports, Configs, ExportStates
<1>2. CASE Take
  <2>1. Head(queue) \in Tasks /\ Tail(queue) \in Seq(Tasks) /\ Head(queue) # "none"
    BY <1>2, QueueTypes, RunIsNoExport DEF Take, TypeOK, Tasks
  <2> QED BY <1>2, <2>1 DEF Take, TypeOK, WorkInv
<1>3. CASE Load
  BY <1>1, <1>3 DEF Load, TypeOK, WorkInv
<1>4. CASE RunMark \/ RunBuild \/ RunRefused
  BY <1>1, <1>4 DEF RunMark, RunBuild, RunRefused, TypeOK, WorkInv, Final
<1>5. CASE Pipeline
  <2>1. task \in Tasks
    BY <1>5 DEF Pipeline, TypeOK, WorkInv
  <2> QED BY <1>5, <2>1 DEF Pipeline, TypeOK, WorkInv
<1>6. CASE RunFinish
  BY <1>1, <1>6 DEF RunFinish, TypeOK, WorkInv, Final
<1>7. CASE ClearCancel \/ PublishTerminal
  BY <1>1, <1>7 DEF ClearCancel, PublishTerminal, TypeOK, WorkInv
<1>8. CASE ExportMark
  <2>1. [copy EXCEPT ![task] = "running"] \in Configs
    BY DEF TypeOK, Configs, ExportStates
  <2>2. copy' \in Configs /\ config' \in Configs
    BY <1>1, <1>8, <2>1 DEF ExportMark, SetExport, TypeOK
  <2> QED BY <1>8, <2>2 DEF ExportMark, TypeOK, WorkInv
<1>9. CASE ExportFinish
  <2>1. \A v \in {"done", "failed"} : [copy EXCEPT ![task] = v] \in Configs
    BY DEF TypeOK, Configs, ExportStates
  <2>2. config' \in Configs
    BY <1>9, <2>1 DEF ExportFinish, TypeOK
  <2> QED BY <1>1, <1>9, <2>2 DEF ExportFinish, TypeOK, WorkInv
<1>10. CASE TaskDies
  <2>1. task \in Tasks /\ Append(queue, task) \in Seq(Tasks)
    BY <1>10, QueueTypes DEF TaskDies, TypeOK
  <2> QED BY <1>1, <1>10, <2>1, WebAssumption DEF TaskDies, TypeOK, WorkInv
<1>11. CASE Terminate
  BY <1>1, <1>11 DEF Terminate, TypeOK, WorkInv
<1> QED BY <1>2, <1>3, <1>4, <1>5, <1>6, <1>7, <1>8, <1>9, <1>10, <1>11 DEF Worker

THEOREM TypeInvariance == Spec => [](TypeOK /\ WorkInv)
<1>1. Init => TypeOK /\ WorkInv
  <2> SUFFICES ASSUME Init PROVE TypeOK /\ WorkInv
    OBVIOUS
  <2>1. NoExports \in Configs /\ <<>> \in Seq(Tasks)
    BY EmptySeq DEF NoExports, Configs, ExportStates
  <2>2. /\ call \in [Calls -> {"idle", "read", "dispatch", "over"}]
        /\ read \in [Calls -> Configs]
    BY <2>1 DEF Init
  <2>3. FALSE \in BOOLEAN
    OBVIOUS
  <2>4. taskId \in BOOLEAN /\ stopFlag \in BOOLEAN /\ revoked \in BOOLEAN
        /\ terminal \in BOOLEAN /\ loaded \in BOOLEAN
    BY <2>3 DEF Init
  <2> QED BY <2>1, <2>2, <2>4, WebAssumption DEF Init, TypeOK, WorkInv
<1>2. TypeOK /\ WorkInv /\ [Next]_vars => TypeOK' /\ WorkInv'
  <2> SUFFICES ASSUME TypeOK, WorkInv, [Next]_vars PROVE TypeOK' /\ WorkInv'
    OBVIOUS
  <2>1. CASE UNCHANGED vars
    BY <2>1 DEF vars, jobRow, broker, handlers, worker, TypeOK, WorkInv
  <2>2. CASE Next
    BY <2>2, HandlerTypes, ExportTypes, WorkerTypes DEF Next
  <2> QED BY <2>1, <2>2
<1> QED BY <1>1, <1>2, PTL DEF Spec

(* Types, for any constants that WebAssumption allows.                     *)
THEOREM TypeCorrect == Spec => []TypeOK
BY TypeInvariance, PTL

-----------------------------------------------------------------------------
(* Downloads.                                                              *)

Promised(states) == \A k \in Kinds : states[k] = "done" => k \in outputs

(* Whatever may still be written into the row, by the worker or by a       *)
(* request that has read it, promises only files that are there.           *)
KeptInv ==
    ~BeingDeleted =>
        /\ status = "completed" => "run" \in outputs
        /\ Promised(config)
        /\ Promised(copy)
        /\ \A c \in Calls : Promised(read[c])
        /\ at = "finish" /\ outcome = "ok" => task \in outputs

LEMMA HandlersKeep ==
    ASSUME TypeOK, KeptInv,
           \/ Create
           \/ DeleteLoad \/ DeleteFiles \/ DeleteRow
           \/ StopCheck \/ StopSet
    PROVE  KeptInv'
<1> USE DEF KeptInv, Promised, BeingDeleted, jobRow, broker, handlers, worker
<1>1. CASE Create
  BY <1>1 DEF Create, CreateCommit, CreateDispatch, CreateUndispatched, CreateRecord
<1>2. CASE DeleteLoad \/ DeleteFiles \/ DeleteRow
  BY <1>2 DEF DeleteLoad, DeleteFiles, DeleteRow
<1>3. CASE StopCheck \/ StopSet
  BY <1>3 DEF StopCheck, StopSet
<1> QED BY <1>1, <1>2, <1>3

LEMMA ExportKeeps ==
    ASSUME TypeOK, KeptInv, NEW c \in Calls, Export(c)
    PROVE  KeptInv'
<1> SUFFICES ASSUME ~BeingDeleted' PROVE KeptInv'
  BY DEF KeptInv
<1> USE DEF jobRow, broker, worker
<1>1. UNCHANGED <<deleting, status, outputs, copy, at, outcome, task>>
  BY DEF Export, ExportRead, ExportWrite, ExportDispatch, ExportUndispatched
<1>2. /\ status = "completed" => "run" \in outputs
      /\ Promised(config) /\ Promised(copy)
      /\ \A d \in Calls : Promised(read[d])
      /\ at = "finish" /\ outcome = "ok" => task \in outputs
  BY <1>1 DEF KeptInv, BeingDeleted
<1>3. Promised(config')
  <2>1. CASE ExportWrite(c) /\ row = "present"
    <3>1. config' = [read[c] EXCEPT ![KindOf[c]] = "running"]
      BY <2>1 DEF ExportWrite
    <3>2. read[c] \in Configs /\ Promised(read[c])
      BY <1>2 DEF TypeOK
    <3> QED BY <3>1, <3>2 DEF Promised, Configs
  <2>2. CASE ~(ExportWrite(c) /\ row = "present")
    BY <1>2, <2>2 DEF Export, ExportRead, ExportWrite, ExportDispatch, ExportUndispatched
  <2> QED BY <2>1, <2>2
<1>4. \A d \in Calls : Promised(read'[d])
  BY <1>2 DEF Export, ExportRead, ExportWrite, ExportDispatch, ExportUndispatched, TypeOK
<1> QED BY <1>1, <1>2, <1>3, <1>4 DEF KeptInv, Promised

LEMMA WorkerKeeps ==
    ASSUME TypeOK, WorkInv, KeptInv, Worker \/ TaskDies \/ Terminate
    PROVE  KeptInv'
<1> SUFFICES ASSUME ~BeingDeleted' PROVE KeptInv'
  BY DEF KeptInv
<1> USE DEF jobRow, broker, handlers, worker
<1>1. UNCHANGED <<deleting, read>>
  BY DEF Worker, Take, Load, RunMark, RunBuild, RunRefused, Pipeline, RunFinish,
     ClearCancel, PublishTerminal, ExportMark, ExportFinish, TaskDies, Terminate
<1>2. /\ status = "completed" => "run" \in outputs
      /\ Promised(config) /\ Promised(copy)
      /\ \A d \in Calls : Promised(read[d])
      /\ at = "finish" /\ outcome = "ok" => task \in outputs
  BY <1>1 DEF KeptInv, BeingDeleted
<1>3. Promised(NoExports)
  BY DEF Promised, NoExports
<1> USE DEF Done, Goto
<1>4. CASE Take \/ Load
  BY <1>1, <1>2, <1>3, <1>4 DEF Take, Load, KeptInv, Promised
<1>5. CASE RunMark \/ RunBuild \/ RunRefused
  BY <1>1, <1>2, <1>3, <1>5 DEF RunMark, RunBuild, RunRefused, KeptInv, Promised
<1>6. CASE Pipeline
  BY <1>1, <1>2, <1>6 DEF Pipeline, KeptInv, Promised
<1>7. CASE RunFinish
  <2>1. config' = config \/ config' = copy
    BY <1>7 DEF RunFinish
  <2>2. UNCHANGED outputs /\ (copy' = copy \/ copy' = NoExports)
    BY <1>7 DEF RunFinish
  <2>3. at' # "finish" /\ (status' = "completed" => "run" \in outputs)
    BY <1>2, <1>7 DEF RunFinish
  <2> QED BY <1>1, <1>2, <1>3, <2>1, <2>2, <2>3 DEF KeptInv, Promised
<1>8. CASE ClearCancel \/ PublishTerminal
  BY <1>1, <1>2, <1>3, <1>8 DEF ClearCancel, PublishTerminal, KeptInv, Promised
<1>9. CASE ExportMark
  <2>1. /\ UNCHANGED <<status, outputs>> /\ at' # "finish"
        /\ \/ config' = [copy EXCEPT ![task] = "running"] /\ copy' = config'
           \/ UNCHANGED config /\ copy' = NoExports
    BY <1>9 DEF ExportMark, SetExport
  <2>2. Promised([copy EXCEPT ![task] = "running"])
    BY <1>2 DEF Promised, TypeOK, Configs
  <2> QED BY <1>1, <1>2, <1>3, <2>1, <2>2 DEF KeptInv, Promised
<1>10. CASE ExportFinish
  <2>1. /\ UNCHANGED <<status, outputs>> /\ at' # "finish" /\ copy' = NoExports
        /\ \/ config' = [copy EXCEPT ![task] = "failed"]
           \/ config' = [copy EXCEPT ![task] = "done"] /\ at = "finish" /\ outcome = "ok"
           \/ UNCHANGED config
    BY <1>10 DEF ExportFinish
  <2>2. Promised([copy EXCEPT ![task] = "failed"])
    BY <1>2 DEF Promised, TypeOK, Configs
  <2>3. task \in outputs => Promised([copy EXCEPT ![task] = "done"])
    BY <1>2 DEF Promised, TypeOK, Configs
  <2> QED BY <1>1, <1>2, <1>3, <2>1, <2>2, <2>3 DEF KeptInv, Promised
<1>11. CASE TaskDies \/ Terminate
  BY <1>1, <1>2, <1>3, <1>11 DEF TaskDies, Terminate, KeptInv, Promised
<1> QED BY <1>4, <1>5, <1>6, <1>7, <1>8, <1>9, <1>10, <1>11 DEF Worker

THEOREM KeptInvariance == Spec => []KeptInv
<1>1. Init => KeptInv
  BY DEF Init, KeptInv, Promised, NoExports
<1>2. TypeOK /\ WorkInv /\ KeptInv /\ [Next]_vars => KeptInv'
  <2> SUFFICES ASSUME TypeOK, WorkInv, KeptInv, [Next]_vars PROVE KeptInv'
    OBVIOUS
  <2>1. CASE UNCHANGED vars
    BY <2>1 DEF vars, jobRow, broker, handlers, worker, KeptInv, Promised, BeingDeleted
  <2>2. CASE Next
    BY <2>2, HandlersKeep, ExportKeeps, WorkerKeeps DEF Next
  <2> QED BY <2>1, <2>2
<1> QED BY <1>1, <1>2, TypeInvariance, PTL DEF Spec

(* Until it is deleted, a job that is completed has its output, and an     *)
(* export that is done has its file, whatever is written over whatever.    *)
THEOREM PromisedFilesExist == Spec => []DownloadsExist
<1>1. KeptInv => DownloadsExist
  BY DEF KeptInv, DownloadsExist, Promised
<1> QED BY <1>1, KeptInvariance, PTL

-----------------------------------------------------------------------------
(* The terminal event.                                                     *)

Queued(i) == i \in 1 .. Len(queue) /\ queue[i] = "run"

(* As long as no task has died, the run task exists once: not dispatched,  *)
(* queued, or with the worker.  The event comes when the worker is past    *)
(* the final commit, and nothing moves the row any more.                   *)
OneRun ==
    /\ creating \in {"idle", "committed"} =>
          (\A i : ~Queued(i)) /\ task # "run" /\ ~terminal
    /\ \A i : Queued(i) => task # "run" /\ ~terminal
    /\ \A i, j : Queued(i) /\ Queued(j) => i = j
    /\ task = "run" => ~terminal
    /\ at \in {"clear", "publish"} => task = "run" /\ status \in Final
    /\ terminal => status \in Final

RunInv == crashes = 0 => OneRun

LEMMA QueueGrows ==
    ASSUME TypeOK, NEW t \in Tasks, queue' = Append(queue, t)
    PROVE  \A i : Queued(i)' <=> Queued(i) \/ (t = "run" /\ i = Len(queue) + 1)
<1>1. /\ Len(queue) \in Nat /\ Len(queue') = Len(queue) + 1
      /\ \A i \in 1 .. Len(queue) : queue'[i] = queue[i]
      /\ queue'[Len(queue) + 1] = t
  BY AppendProperties, LenProperties DEF TypeOK
<1> QED BY <1>1 DEF Queued

LEMMA QueueShrinks ==
    ASSUME TypeOK, queue # <<>>, queue' = Tail(queue)
    PROVE  /\ \A i : Queued(i)' => i \in Nat /\ i > 0 /\ Queued(i + 1)
           /\ Head(queue) = "run" => Queued(1)
<1>1. /\ Len(queue) \in Nat \ {0} /\ Len(queue') = Len(queue) - 1
      /\ \A i \in 1 .. Len(queue') : queue'[i] = queue[i + 1]
      /\ Head(queue) = queue[1]
  BY HeadTailProperties, LenProperties, EmptySeq DEF TypeOK
<1> QED BY <1>1 DEF Queued

LEMMA QueueKept ==
    ASSUME UNCHANGED queue
    PROVE  \A i : Queued(i)' <=> Queued(i)
BY DEF Queued

LEMMA HandlersRunOnce ==
    ASSUME TypeOK, OneRun,
           \/ Create
           \/ DeleteLoad \/ DeleteFiles \/ DeleteRow
           \/ StopCheck \/ StopSet
    PROVE  OneRun'
<1> USE DEF OneRun, jobRow, broker, handlers, worker
<1>1. CASE CreateDispatch
  <2>1. queue' = Append(queue, "run") /\ creating = "committed" /\ creating' = "dispatched"
    BY <1>1 DEF CreateDispatch
  <2>2. UNCHANGED <<task, at, status, terminal>>
    BY <1>1 DEF CreateDispatch
  <2>3. \A i : Queued(i)' <=> i = Len(queue) + 1
    BY <2>1, QueueGrows DEF Tasks
  <2> QED BY <2>1, <2>2, <2>3
<1>2. CASE CreateCommit \/ CreateUndispatched \/ CreateRecord
  <2>1. \A i : Queued(i)' <=> Queued(i)
    BY <1>2, QueueKept DEF CreateCommit, CreateUndispatched, CreateRecord
  <2> QED BY <1>2, <2>1 DEF CreateCommit, CreateUndispatched, CreateRecord
<1>3. CASE DeleteLoad \/ DeleteFiles \/ DeleteRow \/ StopCheck \/ StopSet
  <2>1. UNCHANGED <<queue, creating, task, at, status, terminal>>
    BY <1>3 DEF DeleteLoad, DeleteFiles, DeleteRow, StopCheck, StopSet
  <2>2. \A i : Queued(i)' <=> Queued(i)
    BY <2>1, QueueKept
  <2> QED BY <2>1, <2>2
<1> QED BY <1>1, <1>2, <1>3 DEF Create

LEMMA ExportRunsOnce ==
    ASSUME TypeOK, OneRun, NEW c \in Calls, Export(c)
    PROVE  OneRun'
<1> USE DEF OneRun
<1>1. UNCHANGED <<creating, task, at, status, terminal>>
  BY DEF Export, ExportRead, ExportWrite, ExportDispatch, ExportUndispatched, jobRow, worker
<1>2. \A i : Queued(i)' <=> Queued(i)
  <2>1. CASE ExportDispatch(c)
    <3>1. KindOf[c] \in Tasks /\ KindOf[c] # "run"
      BY WebAssumption, RunIsNoExport DEF Tasks
    <3> QED BY <2>1, <3>1, QueueGrows DEF ExportDispatch
  <2>2. CASE ExportRead(c) \/ ExportWrite(c) \/ ExportUndispatched(c)
    BY <2>2, QueueKept DEF ExportRead, ExportWrite, ExportUndispatched, broker
  <2> QED BY <2>1, <2>2 DEF Export
<1> QED BY <1>1, <1>2

LEMMA WorkerRunsOnce ==
    ASSUME TypeOK, WorkInv, OneRun, Worker \/ Terminate
    PROVE  OneRun'
<1> USE DEF OneRun, WorkInv, jobRow, broker, handlers, worker, Done, Goto
<1>1. CASE Take
  <2>1. /\ \A i : Queued(i)' => i \in Nat /\ i > 0 /\ Queued(i + 1)
        /\ Head(queue) = "run" => Queued(1)
    BY <1>1, QueueShrinks DEF Take
  <2>2. UNCHANGED <<creating, status, terminal>> /\ task = "none"
    BY <1>1 DEF Take
  <2>3. \/ UNCHANGED <<task, at>>
        \/ task' = Head(queue) /\ at' = "load"
    BY <1>1 DEF Take
  <2>4. creating \in {"idle", "committed"} => (\A i : ~Queued(i)') /\ Head(queue) # "run"
    BY <2>1
  <2>5. \A i, j : Queued(i)' /\ Queued(j)' => i = j
    BY <2>1
  <2>6. task' = "run" => \A i : ~Queued(i)'
    <3>1. SUFFICES ASSUME Queued(1), NEW i, Queued(i)' PROVE FALSE
      BY <2>1, <2>2, <2>3
    <3>2. Queued(i + 1) /\ i \in Nat /\ i > 0
      BY <2>1, <3>1
    <3>3. 1 = i + 1
      BY <3>1, <3>2
    <3> QED BY <3>2, <3>3
  <2>7. /\ \A i : Queued(i)' => ~terminal
        /\ task' = "run" => ~terminal
    BY <2>1, <2>2, <2>3
  <2> QED BY <2>2, <2>3, <2>4, <2>5, <2>6, <2>7
<1>2. CASE ~Take
  <2>1. \A i : Queued(i)' <=> Queued(i)
    BY <1>2, QueueKept DEF Worker, Load, RunMark, RunBuild, RunRefused, Pipeline, RunFinish,
       ClearCancel, PublishTerminal, ExportMark, ExportFinish, Terminate
  <2>2. UNCHANGED creating
    BY <1>2 DEF Worker, Load, RunMark, RunBuild, RunRefused, Pipeline, RunFinish,
       ClearCancel, PublishTerminal, ExportMark, ExportFinish, Terminate
  <2>3. CASE Load
    BY <2>1, <2>2, <2>3 DEF Load
  <2>4. CASE RunMark \/ RunBuild \/ RunRefused
    <3>1. task' = "run" => task = "run"
      BY <2>4 DEF RunMark, RunBuild, RunRefused
    <3> QED BY <2>1, <2>2, <2>4, <3>1 DEF RunMark, RunBuild, RunRefused, Final
  <2>5. CASE Pipeline
    BY <2>1, <2>2, <2>5 DEF Pipeline
  <2>6. CASE RunFinish
    BY <2>1, <2>2, <2>6 DEF RunFinish, Final
  <2>7. CASE ClearCancel \/ PublishTerminal
    BY <2>1, <2>2, <2>7 DEF ClearCancel, PublishTerminal
  <2>8. CASE ExportMark \/ ExportFinish
    BY <2>1, <2>2, <2>8 DEF ExportMark, ExportFinish
  <2>9. CASE Terminate
    BY <2>1, <2>2, <2>9 DEF Terminate
  <2> QED BY <1>2, <2>3, <2>4, <2>5, <2>6, <2>7, <2>8, <2>9 DEF Worker
<1> QED BY <1>1, <1>2

THEOREM RunInvariance == Spec => []RunInv
<1>1. Init => RunInv
  BY DEF Init, RunInv, OneRun, Queued
<1>2. TypeOK /\ WorkInv /\ RunInv /\ [Next]_vars => RunInv'
  <2> SUFFICES ASSUME TypeOK, WorkInv, RunInv, [Next]_vars PROVE RunInv'
    OBVIOUS
  <2>1. CASE UNCHANGED vars
    BY <2>1 DEF vars, jobRow, broker, handlers, worker, RunInv, OneRun, Queued
  <2>2. CASE TaskDies
    BY <2>2 DEF TaskDies, TypeOK, RunInv
  <2>3. CASE Next /\ ~TaskDies
    <3>1. UNCHANGED crashes
      BY <2>3 DEF Next, Create, CreateCommit, CreateDispatch, CreateUndispatched, CreateRecord, DeleteLoad,
         DeleteFiles, DeleteRow, StopCheck, StopSet, Export, ExportRead, ExportWrite,
         ExportDispatch, ExportUndispatched, Worker, Take, Load, RunMark, RunBuild,
         RunRefused, Pipeline, RunFinish, ClearCancel, PublishTerminal, ExportMark, ExportFinish, Terminate
    <3>2. CASE crashes = 0
      <4>1. OneRun
        BY <3>2 DEF RunInv
      <4>2. OneRun'
        BY <2>3, <4>1, HandlersRunOnce, ExportRunsOnce, WorkerRunsOnce DEF Next
      <4> QED BY <4>2 DEF RunInv
    <3> QED BY <3>1, <3>2 DEF RunInv
  <2> QED BY <2>1, <2>2, <2>3
<1> QED BY <1>1, <1>2, TypeInvariance, PTL DEF Spec

(* Unless a task died, a terminal event finds the row in a final status,   *)
(* and it stays there.                                                     *)
THEOREM EventsAreTrue == Spec => []EventTellsTheTruth
<1>1. RunInv => EventTellsTheTruth
  BY DEF RunInv, OneRun, EventTellsTheTruth
<1> QED BY <1>1, RunInvariance, PTL
=============================================================================
