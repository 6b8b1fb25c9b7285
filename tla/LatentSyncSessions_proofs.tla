---------------------- MODULE LatentSyncSessions_proofs ----------------------
(***************************************************************************)
(* Proofs about the LatentSync sessions, for any presets, calls and timer  *)
(* threads: nobody is given another call's video, and no worker process is *)
(* left running that no session knows of.                                  *)
(***************************************************************************)
EXTENDS LatentSyncSessions, SequenceTheorems, TLAPS

(* None is neither a call, a timer thread nor a worker.                    *)
LEMMA NoneIsNobody ==
    /\ \A c \in Calls : c # None
    /\ \A t \in Tickers : t # None
    /\ \A w \in Workers : w # None
BY SessionsAssumption DEF Workers

LEMMA WorkersOfCalls ==
    \A c \in Calls : <<c, "new">> \in Workers /\ <<c, "again">> \in Workers
BY DEF Workers

-----------------------------------------------------------------------------
(* Types.                                                                  *)

LEMMA TimerTypes ==
    ASSUME TypeOK, Schedule
    PROVE  armed' \in Nat /\ handle' \in {"none", "armed", "fired"}
BY DEF TypeOK, Schedule, timerVars

LEMMA TickerTypes ==
    ASSUME TypeOK, NEW t \in Tickers, Fire(t) \/ Tick(t)
    PROVE  TypeOK'
<1> USE DEF cacheVars, sessionVars, workerVars, callVars, timerVars, tickVars
<1>1. CASE Fire(t)
  <2>1. armed' \in Nat
    BY <1>1 DEF Fire, TypeOK
  <2>2. handle' \in {"none", "armed", "fired"}
    BY <1>1 DEF Fire, TypeOK
  <2>3. tick' \in [Tickers -> {"idle", "clear", "close", "closing", "schedule"}]
    BY <1>1 DEF Fire, TypeOK
  <2>4. UNCHANGED <<cacheVars, sessionVars, workerVars, callVars, left, deaths>>
    BY <1>1 DEF Fire
  <2> QED BY <2>1, <2>2, <2>3, <2>4 DEF TypeOK
<1>2. CASE TickClear(t)
  BY <1>2 DEF TickClear, TypeOK
<1>3. CASE TickClose(t)
  BY <1>3 DEF TickClose, TypeOK
<1>4. CASE TickClosed(t)
  BY <1>4 DEF TickClosed, TypeOK
<1>5. CASE TickSchedule(t)
  BY <1>5, TimerTypes DEF TickSchedule, TypeOK
<1>6. ASSUME NEW s \in Calls, CloseIfIdle(t, s) PROVE TypeOK'
  <2>1. /\ cache' \in [Presets -> Calls \cup {None}]
        /\ process' \in [Calls -> Workers \cup {None}]
        /\ alive' \in SUBSET Workers
    BY <1>6 DEF CloseIfIdle, TypeOK
  <2> QED BY <1>6, <2>1 DEF CloseIfIdle, TypeOK
<1> QED BY <1>1, <1>2, <1>3, <1>4, <1>5, <1>6 DEF Tick

LEMMA BeginTypes ==
    ASSUME TypeOK, NEW c \in Calls, Begin(c)
    PROVE  TypeOK'
<1> USE DEF cacheVars, sessionVars, workerVars, callVars, timerVars, tickVars, Goto
<1>0. PresetOf[c] \in Presets /\ <<c, "new">> \in Workers
  BY SessionsAssumption, WorkersOfCalls
<1>1. CASE Unconfigured(c)
  BY <1>1 DEF Unconfigured, TypeOK
<1>2. CASE GetCached(c)
  BY <1>0, <1>2 DEF GetCached, TypeOK
<1>3. CASE Create(c)
  BY <1>0, <1>3, NoneIsNobody DEF Create, Popen, TypeOK
<1> QED BY <1>1, <1>2, <1>3 DEF Begin

LEMMA ProceedTypes ==
    ASSUME TypeOK, NEW c \in Calls, Proceed(c)
    PROVE  TypeOK'
<1> USE DEF cacheVars, sessionVars, workerVars, callVars, timerVars, tickVars, Goto
<1>0. /\ PresetOf[c] \in Presets
      /\ <<c, "again">> \in Workers
      /\ pc[c] \notin {"idle", "over"} => session[c] \in Calls
  BY SessionsAssumption, WorkersOfCalls DEF TypeOK
<1>1. CASE Created(c)
  BY <1>0, <1>1 DEF Created, TypeOK
<1>2. CASE CreateFails(c)
  BY <1>0, <1>2 DEF CreateFails, StartFails, TypeOK
<1>3. CASE FirstSchedule(c)
  BY <1>3, TimerTypes DEF FirstSchedule, TypeOK
<1>4. CASE Run(c)
  <2>1. process' \in [Calls -> Workers \cup {None}] /\ alive' \in SUBSET Workers
    BY <1>0, <1>4 DEF Run, Popen, TypeOK
  <2> QED BY <1>0, <1>4, <2>1 DEF Run, Session, TypeOK
<1>5. CASE Restarted(c)
  BY <1>5 DEF Restarted, TypeOK
<1>6. CASE RestartFails(c)
  BY <1>6 DEF RestartFails, StartFails, Leave, TypeOK
<1>7. CASE Send(c)
  BY <1>7 DEF Send, Leave, TypeOK
<1>8. CASE Read(c)
  <2>1. replies' \in [Workers -> Seq([to : Calls, ok : BOOLEAN])]
    <3>1. Worker(c) \in Workers => Tail(replies[Worker(c)]) \in Seq([to : Calls, ok : BOOLEAN])
      BY <1>8, HeadTailProperties DEF Read, TypeOK
    <3> QED BY <1>8, <3>1 DEF Read, TypeOK
  <2>2. outcome' \in [Calls -> {"none", "video", "error"}]
    BY <1>8 DEF Read, Leave, TypeOK
  <2> QED BY <1>8, <2>1, <2>2 DEF Read, Leave, TypeOK
<1>9. CASE ReadEof(c)
  BY <1>9 DEF ReadEof, Leave, TypeOK
<1>10. CASE ReadTimesOut(c)
  BY <1>10 DEF ReadTimesOut, Leave, TypeOK
<1>11. CASE Touch(c)
  BY <1>11 DEF Touch, TypeOK
<1>12. CASE Reschedule(c)
  BY <1>12, TimerTypes DEF Reschedule, TypeOK
<1> QED BY <1>1, <1>2, <1>3, <1>4, <1>5, <1>6, <1>7, <1>8, <1>9, <1>10, <1>11, <1>12
        DEF Proceed

LEMMA WorldTypes ==
    ASSUME TypeOK,
           \/ \E w \in Workers : Serve(w) \/ WorkerDies(w)
           \/ \E s \in Calls : Age(s) \/ Collect(s)
    PROVE  TypeOK'
<1> USE DEF cacheVars, sessionVars, workerVars, callVars, timerVars, tickVars
<1>1. ASSUME NEW w \in Workers, Serve(w) PROVE TypeOK'
  <2>1. request[w] \in Calls
    BY <1>1 DEF Serve, TypeOK
  <2>2. PICK ok \in BOOLEAN :
          /\ replies' = [replies EXCEPT ![w] = Append(@, [to |-> request[w], ok |-> ok])]
          /\ made' = IF ok THEN made \cup {request[w]} ELSE made
    BY <1>1 DEF Serve
  <2>3. [to |-> request[w], ok |-> ok] \in [to : Calls, ok : BOOLEAN]
    BY <2>1
  <2>4. Append(replies[w], [to |-> request[w], ok |-> ok]) \in Seq([to : Calls, ok : BOOLEAN])
    BY <2>3, AppendProperties DEF TypeOK
  <2>5. replies' \in [Workers -> Seq([to : Calls, ok : BOOLEAN])] /\ made' \in SUBSET Calls
    BY <2>1, <2>2, <2>4 DEF TypeOK
  <2> QED BY <1>1, <2>5 DEF Serve, TypeOK
<1>2. ASSUME NEW w \in Workers, WorkerDies(w) PROVE TypeOK'
  <2>1. deaths' \in 0 .. MaxDeaths
    BY <1>2, SessionsAssumption DEF WorkerDies, TypeOK
  <2> QED BY <1>2, <2>1 DEF WorkerDies, TypeOK
<1>3. ASSUME NEW s \in Calls, Age(s) \/ Collect(s) PROVE TypeOK'
  BY <1>3 DEF Age, Collect, TypeOK
<1> QED BY <1>1, <1>2, <1>3

(* Types, for any constants that SessionsAssumption allows.                *)
THEOREM TypeCorrect == Spec => []TypeOK
<1>1. Init => TypeOK
  <2> SUFFICES ASSUME Init PROVE TypeOK
    OBVIOUS
  <2>1. <<>> \in Seq([to : Calls, ok : BOOLEAN])
    BY EmptySeq
  <2>2. replies \in [Workers -> Seq([to : Calls, ok : BOOLEAN])]
    BY <2>1 DEF Init
  <2> QED BY <2>2, SessionsAssumption DEF Init, TypeOK
<1>2. TypeOK /\ [Next]_vars => TypeOK'
  <2> SUFFICES ASSUME TypeOK, [Next]_vars PROVE TypeOK'
    OBVIOUS
  <2>1. CASE UNCHANGED vars
    BY <2>1 DEF vars, cacheVars, sessionVars, workerVars, callVars, timerVars, tickVars,
       TypeOK
  <2>2. CASE Next
    BY <2>2, TickerTypes, BeginTypes, ProceedTypes, WorldTypes DEF Next
  <2> QED BY <2>1, <2>2
<1> QED BY <1>1, <1>2, PTL DEF Spec

-----------------------------------------------------------------------------
(* Who talks to which worker.                                              *)

Before == {"idle", "create", "schedule", "run"}   \* run has no lock yet
InRun  == {"restart", "send", "read"}

(* A session is found in the cache only when its creation is over.         *)
Sessions ==
    /\ \A c \in Calls : pc[c] \in {"create", "schedule"} => session[c] = c
    /\ \A c, s \in Calls : session[c] = s =>
          pc[s] # "idle" /\ pc[c] # "idle" /\ (c # s => pc[s] # "create")
    /\ \A p \in Presets, s \in Calls : cache[p] = s => pc[s] \notin {"idle", "create"}

(* A session's process was started by the call that made the session, or   *)
(* by one that ran in it: no two sessions share one.                       *)
Processes ==
    \A s \in Calls :
        \/ process[s] = None
        \/ process[s] = <<s, "new">> /\ pc[s] # "idle"
        \/ \E c \in Calls : process[s] = <<c, "again">> /\ session[c] = s /\ pc[c] \notin Before

Locked == \A c \in Calls : pc[c] \in InRun => runLock[session[c]] = c

(* Workers that nobody has started know of nothing.                        *)
Unused(w) == w \notin alive /\ request[w] = None /\ replies[w] = <<>>
Fresh ==
    \A c \in Calls :
        /\ pc[c] = "idle" => Unused(<<c, "new">>)
        /\ pc[c] \in Before => Unused(<<c, "again">>)

(* A running worker is at work, or has a reply to deliver, only while some *)
(* call reads from it ...                                                  *)
Busy(w)  == request[w] # None \/ replies[w] # <<>>
Awaited  == \A w \in alive : Busy(w) => \E c \in Calls : pc[c] = "read" /\ Worker(c) = w

(* ... and then on that call's request.                                    *)
Serving(w, c) ==
    /\ w \in Workers
    /\ \/ request[w] = c /\ replies[w] = <<>>
       \/ request[w] = None /\ Len(replies[w]) = 1 /\ (replies[w][1].ok => c \in made)
Served == \A c \in Calls : pc[c] = "read" => Serving(Worker(c), c)

TalkInv ==
    Sessions /\ Processes /\ Locked /\ Fresh /\ Awaited /\ Served /\ NoLostWorker /\ OwnReply

(* Two calls that are in a run are in different sessions with different    *)
(* workers.                                                                *)
LEMMA Apart ==
    ASSUME TypeOK, Processes, Locked, NEW c \in Calls, NEW d \in Calls, c # d,
           pc[c] \in InRun, pc[d] \in InRun
    PROVE  session[c] # session[d] /\ (Worker(c) # None => Worker(c) # Worker(d))
<1>1. session[c] \in Calls /\ session[d] \in Calls
  BY DEF TypeOK, InRun
<1>2. session[c] # session[d]
  BY DEF Locked
<1>3. ASSUME Worker(c) # None, Worker(c) = Worker(d) PROVE FALSE
  BY <1>1, <1>2, <1>3 DEF Processes, Worker
<1> QED BY <1>2, <1>3

(* A call in a run keeps others out of its session.                        *)
LEMMA OthersOut ==
    ASSUME TypeOK, Locked, NEW s \in Calls, runLock[s] = None
    PROVE  \A c \in Calls : pc[c] \in InRun => session[c] # s
BY NoneIsNobody DEF Locked

LEMMA QuietStep ==
    ASSUME TalkInv, UNCHANGED <<cache, process, runLock, alive, request, replies, made, pc,
                               session, outcome>>
    PROVE  TalkInv'
BY DEF TalkInv, Sessions, Processes, Locked, Fresh, Unused, Awaited, Busy, Served, Serving,
   Worker, NoLostWorker, OwnReply

LEMMA TickerTalk ==
    ASSUME TypeOK, TalkInv, NEW t \in Tickers, Fire(t) \/ Tick(t)
    PROVE  TalkInv'
<1> USE DEF cacheVars, sessionVars, workerVars, callVars, timerVars, tickVars
<1>1. CASE Fire(t) \/ TickClear(t) \/ TickClose(t) \/ TickClosed(t) \/ TickSchedule(t)
  BY <1>1, QuietStep DEF Fire, TickClear, TickClose, TickClosed, TickSchedule
<1>2. ASSUME NEW s \in Calls, CloseIfIdle(t, s) PROVE TalkInv'
  <2>1. CASE s \in stale /\ runLock[s] = None
    <3>1. /\ alive' = alive \ {process[s]}
          /\ process' = [process EXCEPT ![s] = None]
          /\ cache' = [p \in Presets |-> IF cache[p] = s THEN None ELSE cache[p]]
          /\ UNCHANGED <<runLock, request, replies, made, pc, session, outcome>>
      BY <1>2, <2>1 DEF CloseIfIdle
    <3>2. \A c \in Calls : pc[c] \in InRun => session[c] # s
      BY <2>1, OthersOut DEF TalkInv
    <3>3. \A c \in Calls : pc[c] = "read" => Worker(c)' = Worker(c)
      BY <3>1, <3>2 DEF Worker, InRun, TypeOK
    <3>4. Sessions'
      BY <3>1, NoneIsNobody DEF TalkInv, Sessions
    <3>5. Processes'
      BY <3>1 DEF TalkInv, Processes, TypeOK
    <3>6. Locked' /\ Fresh' /\ OwnReply'
      BY <3>1 DEF TalkInv, Locked, Fresh, Unused, OwnReply
    <3>7. Awaited' /\ Served'
      BY <3>1, <3>3 DEF TalkInv, Awaited, Busy, Served, Serving
    <3>8. NoLostWorker'
      BY <3>1 DEF TalkInv, NoLostWorker, TypeOK
    <3> QED BY <3>4, <3>5, <3>6, <3>7, <3>8 DEF TalkInv
  <2>2. CASE ~(s \in stale /\ runLock[s] = None)
    BY <1>2, <2>2, QuietStep DEF CloseIfIdle
  <2> QED BY <2>1, <2>2
<1> QED BY <1>1, <1>2 DEF Tick

LEMMA WorldTalk ==
    ASSUME TypeOK, TalkInv,
           \/ \E w \in Workers : Serve(w) \/ WorkerDies(w)
           \/ \E s \in Calls : Age(s) \/ Collect(s)
    PROVE  TalkInv'
<1> USE DEF cacheVars, sessionVars, workerVars, callVars, timerVars, tickVars
<1>1. ASSUME NEW w \in Workers, Serve(w) PROVE TalkInv'
  <2>1. PICK ok \in BOOLEAN :
          /\ replies' = [replies EXCEPT ![w] = Append(@, [to |-> request[w], ok |-> ok])]
          /\ made' = IF ok THEN made \cup {request[w]} ELSE made
    BY <1>1 DEF Serve
  <2>2. /\ w \in alive /\ request[w] # None /\ request' = [request EXCEPT ![w] = None]
        /\ UNCHANGED <<cache, process, runLock, alive, pc, session, outcome>>
    BY <1>1 DEF Serve
  <2>3. PICK c \in Calls : pc[c] = "read" /\ Worker(c) = w
    BY <2>2 DEF TalkInv, Awaited, Busy
  <2>4. request[w] = c /\ replies[w] = <<>>
    BY <2>2, <2>3 DEF TalkInv, Served, Serving
  <2>5. replies' = [replies EXCEPT ![w] = <<[to |-> c, ok |-> ok]>>]
    <3>1. Append(<<>>, [to |-> c, ok |-> ok]) = <<[to |-> c, ok |-> ok]>>
      OBVIOUS
    <3> QED BY <2>1, <2>4, <3>1 DEF TypeOK
  <2>6. made \subseteq made' /\ (ok => c \in made')
    BY <2>1, <2>4
  <2>7. Sessions' /\ Processes' /\ Locked' /\ NoLostWorker'
    BY <2>2 DEF TalkInv, Sessions, Processes, Locked, NoLostWorker
  <2>8. OwnReply'
    BY <2>2, <2>6 DEF TalkInv, OwnReply
  <2>9. Fresh'
    BY <2>2, <2>5, WorkersOfCalls DEF TalkInv, Fresh, Unused, TypeOK
  <2>10. Awaited'
    BY <2>2, <2>3, <2>5 DEF TalkInv, Awaited, Busy, Worker, TypeOK
  <2>11. Served'
    <3> SUFFICES ASSUME NEW d \in Calls, pc[d] = "read" PROVE Serving(Worker(d), d)'
      BY <2>2 DEF Served
    <3>1. Serving(Worker(d), d) /\ Worker(d)' = Worker(d)
      BY <2>2 DEF TalkInv, Served, Worker
    <3>2. CASE Worker(d) = w
      <4>1. d = c
        BY <2>2, <2>4, <3>1, <3>2 DEF Serving
      <4>2. request'[w] = None /\ replies'[w] = <<[to |-> c, ok |-> ok]>>
        BY <2>2, <2>5 DEF TypeOK
      <4>3. Len(replies'[w]) = 1 /\ replies'[w][1].ok = ok
        BY <4>2
      <4> QED BY <2>6, <3>1, <3>2, <4>1, <4>2, <4>3 DEF Serving
    <3>3. CASE Worker(d) # w
      BY <2>2, <2>5, <2>6, <3>1, <3>3 DEF Serving, TypeOK
    <3> QED BY <3>2, <3>3
  <2> QED BY <2>7, <2>8, <2>9, <2>10, <2>11 DEF TalkInv
<1>2. ASSUME NEW w \in Workers, WorkerDies(w) PROVE TalkInv'
  BY <1>2 DEF WorkerDies, TalkInv, Sessions, Processes, Locked, Fresh, Unused, Awaited, Busy,
     Served, Serving, Worker, NoLostWorker, OwnReply
<1>3. ASSUME NEW s \in Calls, Collect(s) PROVE TalkInv'
  BY <1>3 DEF Collect, TalkInv, Sessions, Processes, Locked, Fresh, Unused, Awaited, Busy,
     Served, Serving, Worker, NoLostWorker, OwnReply
<1>4. ASSUME NEW s \in Calls, Age(s) PROVE TalkInv'
  BY <1>4, QuietStep DEF Age
<1> QED BY <1>1, <1>2, <1>3, <1>4

LEMMA BeginTalk ==
    ASSUME TypeOK, TalkInv, NEW c \in Calls, Begin(c)
    PROVE  TalkInv'
<1> USE DEF cacheVars, sessionVars, workerVars, callVars, timerVars, tickVars, Goto
<1>0. PresetOf[c] \in Presets /\ pc[c] = "idle"
  BY SessionsAssumption DEF Begin, Unconfigured, GetCached, Create
<1>1. CASE Unconfigured(c)
  <2>1. /\ pc' = [pc EXCEPT ![c] = "over"]
        /\ outcome' = [outcome EXCEPT ![c] = "error"]
        /\ UNCHANGED <<cache, process, runLock, alive, request, replies, made, session>>
    BY <1>1 DEF Unconfigured
  <2>2. Sessions' /\ Processes' /\ Locked'
    BY <1>0, <2>1 DEF TypeOK, TalkInv, Sessions, Processes, Locked, InRun, Before
  <2>3. Fresh' /\ NoLostWorker' /\ OwnReply'
    BY <1>0, <2>1 DEF TypeOK, TalkInv, Fresh, Unused, Before, NoLostWorker, OwnReply
  <2>4. Awaited' /\ Served'
    BY <1>0, <2>1 DEF TypeOK, TalkInv, Awaited, Busy, Served, Serving, Worker
  <2> QED BY <2>2, <2>3, <2>4 DEF TalkInv
<1>2. CASE GetCached(c)
  <2> DEFINE s == cache[PresetOf[c]]
  <2>1. /\ pc' = [pc EXCEPT ![c] = "run"]
        /\ session' = [session EXCEPT ![c] = s]
        /\ s \in Calls /\ pc[s] \notin {"idle", "create"}
        /\ UNCHANGED <<cache, process, runLock, alive, request, replies, made, outcome>>
    BY <1>0, <1>2 DEF GetCached, TypeOK, TalkInv, Sessions
  <2> HIDE DEF s
  <2>2. Sessions'
    BY <1>0, <2>1 DEF TypeOK, TalkInv, Sessions
  <2>3. Processes' /\ Locked'
    BY <1>0, <2>1 DEF TypeOK, TalkInv, Processes, Locked, InRun, Before
  <2>4. Fresh' /\ NoLostWorker' /\ OwnReply'
    BY <1>0, <2>1 DEF TypeOK, TalkInv, Fresh, Unused, Before, NoLostWorker, OwnReply
  <2>5. Awaited' /\ Served'
    BY <1>0, <2>1 DEF TypeOK, TalkInv, Awaited, Busy, Served, Serving, Worker
  <2> QED BY <2>2, <2>3, <2>4, <2>5 DEF TalkInv
<1>3. CASE Create(c)
  <2> DEFINE w == <<c, "new">>
  <2>1. /\ pc' = [pc EXCEPT ![c] = "create"]
        /\ session' = [session EXCEPT ![c] = c]
        /\ process' = [process EXCEPT ![c] = w]
        /\ alive' = alive \cup {w}
        /\ UNCHANGED <<cache, runLock, request, replies, made, outcome>>
    BY <1>3 DEF Create, Popen
  <2>2. /\ w \in Workers /\ Unused(w)
        /\ \A d \in Calls : session[d] # c
        /\ \A p \in Presets : cache[p] # c
    BY <1>0, WorkersOfCalls DEF TalkInv, Sessions, Fresh
  <2>3. process[c] = None
    BY <1>0, <2>2 DEF TalkInv, Processes
  <2>4. \A d \in Calls : pc[d] = "read" => Worker(d)' = Worker(d)
    BY <1>0, <2>1, <2>2 DEF Worker, TypeOK
  <2>5. Sessions'
    BY <1>0, <2>1, <2>2 DEF TypeOK, TalkInv, Sessions
  <2>6. Processes' /\ Locked'
    BY <1>0, <2>1, <2>2 DEF TypeOK, TalkInv, Processes, Locked, InRun, Before
  <2>7. Fresh'
    BY <1>0, <2>1, <2>2 DEF TypeOK, TalkInv, Fresh, Unused, Before
  <2>8. NoLostWorker' /\ OwnReply'
    BY <1>0, <2>1, <2>3, NoneIsNobody DEF TypeOK, TalkInv, NoLostWorker, OwnReply
  <2>9. Awaited'
    BY <1>0, <2>1, <2>2, <2>4 DEF TypeOK, TalkInv, Awaited, Busy, Unused
  <2>10. Served'
    BY <1>0, <2>1, <2>4 DEF TypeOK, TalkInv, Served, Serving
  <2> QED BY <2>5, <2>6, <2>7, <2>8, <2>9, <2>10 DEF TalkInv
<1> QED BY <1>1, <1>2, <1>3 DEF Begin

(* A call that only moves on, outside the pipe.                            *)
LEMMA MoveOn ==
    ASSUME TypeOK, TalkInv, NEW c \in Calls, NEW to \in {"schedule", "run", "send", "reschedule", "over"},
           pc[c] \notin {"idle", "read"},
           to = "schedule" => pc[c] = "create",
           to = "run" => pc[c] = "schedule",
           to = "send" => pc[c] = "restart",
           to = "over" => pc[c] = "reschedule",
           pc' = [pc EXCEPT ![c] = to],
           \/ UNCHANGED cache
           \/ pc[c] = "create" /\ cache' = [cache EXCEPT ![PresetOf[c]] = c],
           UNCHANGED <<process, runLock, alive, request, replies, made, session, outcome>>
    PROVE  TalkInv'
<1>1. Sessions'
  BY DEF TypeOK, TalkInv, Sessions
<1>2. Processes' /\ Locked'
  BY DEF TypeOK, TalkInv, Processes, Locked, InRun, Before
<1>3. Fresh' /\ NoLostWorker' /\ OwnReply'
  BY DEF TypeOK, TalkInv, Fresh, Unused, Before, NoLostWorker, OwnReply
<1>4. Awaited' /\ Served'
  BY DEF TypeOK, TalkInv, Awaited, Busy, Served, Serving, Worker
<1> QED BY <1>1, <1>2, <1>3, <1>4 DEF TalkInv

(* A call leaves its run, and with it its worker: it has read a reply, or  *)
(* the worker is not running.                                              *)
LEMMA RunEnds ==
    ASSUME TypeOK, TalkInv, NEW c \in Calls, NEW result \in {"video", "error"},
           pc[c] \in InRun, Leave(c, result),
           result = "video" => c \in made,
           \A w \in Workers : w # Worker(c) =>
               (w \in alive' <=> w \in alive) /\ request'[w] = request[w] /\ replies'[w] = replies[w],
           \/ /\ Worker(c) \notin alive' /\ UNCHANGED <<request, replies>>
              /\ process' = process \/ process' = [process EXCEPT ![session[c]] = None]
           \/ /\ UNCHANGED process
              /\ Worker(c) \in Workers => request'[Worker(c)] = None /\ replies'[Worker(c)] = <<>>,
           alive' \subseteq alive,
           request' \in [Workers -> Calls \cup {None}],
           UNCHANGED <<cache, made, session>>
    PROVE  TalkInv'
<1> USE DEF Goto
<1>0. /\ pc' = [pc EXCEPT ![c] = "touch"]
      /\ runLock' = [runLock EXCEPT ![session[c]] = None]
      /\ outcome' = [outcome EXCEPT ![c] = result]
      /\ session[c] \in Calls
  BY DEF Leave, Session, TypeOK, InRun
<1>1. \A d \in Calls : d # c /\ pc[d] = "read" =>
          /\ Worker(d) \in Workers
          /\ Worker(d)' = Worker(d) /\ Worker(d) # Worker(c) /\ session[d] # session[c]
  <2> SUFFICES ASSUME NEW d \in Calls, d # c, pc[d] = "read"
               PROVE  /\ Worker(d) \in Workers
                      /\ Worker(d)' = Worker(d)
                      /\ Worker(d) # Worker(c) /\ session[d] # session[c]
    OBVIOUS
  <2>1. Worker(d) \in Workers /\ Worker(d) # None
    BY NoneIsNobody DEF TalkInv, Served, Serving
  <2>2. session[d] # session[c] /\ Worker(d) # Worker(c)
    BY <2>1, Apart DEF TalkInv, InRun
  <2>3. Worker(d)' = Worker(d)
    BY <2>2, <1>0 DEF Worker, TypeOK
  <2> QED BY <2>1, <2>2, <2>3
<1>2. Sessions'
  BY <1>0 DEF TypeOK, TalkInv, Sessions, InRun
<1>3. Processes'
  <2> SUFFICES ASSUME NEW s \in Calls, process'[s] # None
               PROVE  \/ process'[s] = <<s, "new">> /\ pc'[s] # "idle"
                      \/ \E d \in Calls : /\ process'[s] = <<d, "again">>
                                         /\ session'[d] = s /\ pc'[d] \notin Before
    BY DEF Processes
  <2>1. process'[s] = process[s]
    BY <1>0 DEF TypeOK
  <2>2. CASE process[s] = <<s, "new">> /\ pc[s] # "idle"
    BY <1>0, <2>1, <2>2 DEF TypeOK
  <2>3. CASE \E d \in Calls : process[s] = <<d, "again">> /\ session[d] = s /\ pc[d] \notin Before
    BY <1>0, <2>1, <2>3 DEF TypeOK, Before
  <2> QED BY <2>1, <2>2, <2>3 DEF TalkInv, Processes
<1>4. Locked'
  <2> SUFFICES ASSUME NEW d \in Calls, pc'[d] \in InRun PROVE runLock'[session[d]] = d
    BY DEF Locked
  <2>1. d # c /\ pc[d] \in InRun
    BY <1>0 DEF TypeOK, InRun
  <2>2. session[d] # session[c]
    BY <2>1, Apart DEF TalkInv
  <2> QED BY <1>0, <2>1, <2>2 DEF TypeOK, TalkInv, Locked, InRun
<1>5. Fresh'
  <2> SUFFICES ASSUME NEW d \in Calls, NEW k \in {"new", "again"}, Unused(<<d, k>>)
               PROVE  Unused(<<d, k>>)'
    BY <1>0 DEF TypeOK, TalkInv, Fresh, Before, InRun
  <2>1. <<d, k>> \in Workers
    BY WorkersOfCalls
  <2>2. CASE <<d, k>> # Worker(c)
    BY <2>1, <2>2 DEF Unused
  <2>3. CASE <<d, k>> = Worker(c)
    BY <2>1, <2>3 DEF Unused
  <2> QED BY <2>2, <2>3
<1>6. OwnReply'
  BY <1>0 DEF TypeOK, TalkInv, OwnReply
<1>7. NoLostWorker'
  <2> SUFFICES ASSUME NEW w \in alive' PROVE \E s \in Calls : process'[s] = w
    BY DEF NoLostWorker
  <2>1. PICK s \in Calls : process[s] = w
    BY DEF TalkInv, NoLostWorker
  <2>2. s = session[c] => process' = process
    BY <2>1 DEF Worker
  <2> QED BY <1>0, <2>1, <2>2 DEF TypeOK
<1>8. Awaited'
  <2> SUFFICES ASSUME NEW w \in alive', Busy(w)'
               PROVE  \E d \in Calls : pc'[d] = "read" /\ Worker(d)' = w
    BY DEF Awaited
  <2>1. w \in alive /\ w \in Workers
    BY DEF TypeOK
  <2>2. w # Worker(c)
    BY <2>1 DEF Busy
  <2>3. Busy(w)
    BY <2>1, <2>2 DEF Busy
  <2>4. PICK d \in Calls : pc[d] = "read" /\ Worker(d) = w
    BY <2>1, <2>3 DEF TalkInv, Awaited
  <2>5. d # c
    BY <2>2, <2>4
  <2> QED BY <1>0, <1>1, <2>4, <2>5 DEF TypeOK
<1>9. Served'
  <2> SUFFICES ASSUME NEW d \in Calls, pc'[d] = "read" PROVE Serving(Worker(d), d)'
    BY DEF Served
  <2>1. d # c /\ pc[d] = "read"
    BY <1>0 DEF TypeOK
  <2>2. Worker(d)' = Worker(d) /\ Worker(d) # Worker(c) /\ Serving(Worker(d), d)
    BY <1>1, <2>1 DEF TalkInv, Served
  <2> QED BY <2>2 DEF Serving
<1> QED BY <1>2, <1>3, <1>4, <1>5, <1>6, <1>7, <1>8, <1>9 DEF TalkInv

LEMMA ProceedTalk ==
    ASSUME TypeOK, TypeOK', TalkInv, NEW c \in Calls, Proceed(c)
    PROVE  TalkInv'
<1> USE DEF cacheVars, sessionVars, workerVars, callVars, timerVars, tickVars
<1>0. /\ pc[c] \notin {"idle", "over"}
      /\ session[c] \in Calls /\ PresetOf[c] \in Presets
  <2>1. pc[c] \notin {"idle", "over"}
    BY DEF Proceed, Created, CreateFails, FirstSchedule, Run, Restarted, RestartFails, Send,
       Read, ReadEof, ReadTimesOut, Touch, Reschedule
  <2> QED BY <2>1, SessionsAssumption DEF TypeOK
<1>1. CASE Created(c) \/ FirstSchedule(c) \/ Restarted(c) \/ Reschedule(c)
  BY <1>1, MoveOn DEF Created, FirstSchedule, Restarted, Reschedule, Goto
<1>2. CASE Touch(c)
  BY <1>2, MoveOn DEF Touch, Goto
<1>3. CASE CreateFails(c)
  <2>1. /\ pc[c] = "create" /\ session[c] = c
        /\ pc' = [pc EXCEPT ![c] = "over"]
        /\ outcome' = [outcome EXCEPT ![c] = "error"]
        /\ alive' = alive \ {process[c]}
        /\ process' = process \/ process' = [process EXCEPT ![c] = None]
        /\ UNCHANGED <<cache, runLock, request, replies, made, session>>
    BY <1>3 DEF CreateFails, StartFails, Goto, TalkInv, Sessions
  <2>2. \A d \in Calls : pc[d] = "read" => session[d] # c /\ Worker(d)' = Worker(d)
    BY <1>0, <2>1 DEF TalkInv, Sessions, Worker, TypeOK
  <2>3. Sessions' /\ Locked' /\ OwnReply'
    BY <2>1 DEF TypeOK, TalkInv, Sessions, Locked, InRun, OwnReply
  <2>4. Processes'
    BY <2>1 DEF TypeOK, TalkInv, Processes, Before
  <2>5. Fresh'
    BY <2>1 DEF TypeOK, TalkInv, Fresh, Unused, Before
  <2>6. NoLostWorker'
    BY <2>1 DEF TypeOK, TalkInv, NoLostWorker
  <2>7. Awaited' /\ Served'
    BY <2>1, <2>2 DEF TypeOK, TalkInv, Awaited, Busy, Served, Serving
  <2> QED BY <2>3, <2>4, <2>5, <2>6, <2>7 DEF TalkInv
<1>4. CASE Run(c) /\ Worker(c) \in alive
  <2>1. /\ pc' = [pc EXCEPT ![c] = "send"] /\ pc[c] = "run"
        /\ runLock' = [runLock EXCEPT ![session[c]] = c]
        /\ UNCHANGED <<cache, process, alive, request, replies, made, session, outcome>>
    BY <1>4 DEF Run, Goto, Session
  <2>2. \A d \in Calls : pc[d] \in InRun => session[d] # session[c]
    BY <1>0, <1>4, OthersOut DEF Run, Session, TalkInv
  <2>3. Sessions' /\ Processes'
    BY <2>1 DEF TypeOK, TalkInv, Sessions, Processes, Before
  <2>4. Locked'
    BY <1>0, <2>1, <2>2 DEF TypeOK, TalkInv, Locked, InRun
  <2>5. Fresh' /\ NoLostWorker' /\ OwnReply'
    BY <2>1 DEF TypeOK, TalkInv, Fresh, Unused, Before, NoLostWorker, OwnReply
  <2>6. Awaited' /\ Served'
    BY <2>1 DEF TypeOK, TalkInv, Awaited, Busy, Served, Serving, Worker
  <2> QED BY <2>3, <2>4, <2>5, <2>6 DEF TalkInv
<1>5. CASE Run(c) /\ Worker(c) \notin alive
  <2> DEFINE s == session[c]
             w == <<c, "again">>
  <2>1. /\ pc' = [pc EXCEPT ![c] = "restart"] /\ pc[c] = "run"
        /\ runLock' = [runLock EXCEPT ![s] = c]
        /\ process' = [process EXCEPT ![s] = w]
        /\ alive' = alive \cup {w}
        /\ UNCHANGED <<cache, request, replies, made, session, outcome>>
    BY <1>5 DEF Run, Goto, Session, Popen
  <2>2. w \in Workers /\ Unused(w)
    BY <2>1, WorkersOfCalls DEF TalkInv, Fresh, Before
  <2>3. \A d \in Calls : pc[d] \in InRun => session[d] # s
    BY <1>0, <1>5, OthersOut DEF Run, Session, TalkInv
  <2>4. \A d \in Calls : pc[d] = "read" => Worker(d)' = Worker(d)
    BY <1>0, <2>1, <2>3 DEF Worker, TypeOK, InRun
  <2>5. Sessions'
    BY <2>1 DEF TypeOK, TalkInv, Sessions
  <2>6. Processes'
    BY <1>0, <2>1 DEF TypeOK, TalkInv, Processes, Before
  <2>7. Locked'
    BY <1>0, <2>1, <2>3 DEF TypeOK, TalkInv, Locked, InRun
  <2>8. Fresh' /\ OwnReply'
    BY <2>1 DEF TypeOK, TalkInv, Fresh, Unused, Before, OwnReply
  <2>9. NoLostWorker'
    BY <1>0, <1>5, <2>1 DEF TypeOK, TalkInv, NoLostWorker, Worker
  <2>10. Awaited'
    <3> SUFFICES ASSUME NEW v \in alive', Busy(v)'
                 PROVE  \E d \in Calls : pc'[d] = "read" /\ Worker(d)' = v
      BY DEF Awaited
    <3>1. v \in alive /\ Busy(v)
      BY <2>1, <2>2 DEF Unused, Busy
    <3>2. PICK d \in Calls : pc[d] = "read" /\ Worker(d) = v
      BY <3>1 DEF TalkInv, Awaited
    <3>3. d # c
      BY <2>1, <3>2
    <3>4. pc'[d] = "read"
      BY <2>1, <3>2, <3>3 DEF TypeOK
    <3> QED BY <2>4, <3>2, <3>4
  <2>11. Served'
    BY <2>1, <2>4 DEF TypeOK, TalkInv, Served, Serving
  <2> QED BY <2>5, <2>6, <2>7, <2>8, <2>9, <2>10, <2>11 DEF TalkInv
<1>6. CASE RestartFails(c)
  BY <1>6, RunEnds DEF RestartFails, StartFails, Session, Worker, InRun, TypeOK
<1>7. CASE Send(c) /\ Worker(c) \notin alive
  BY <1>7, RunEnds DEF Send, InRun, TypeOK
<1>8. CASE Send(c) /\ Worker(c) \in alive
  <2> DEFINE w == Worker(c)
  <2>1. /\ pc' = [pc EXCEPT ![c] = "read"] /\ pc[c] = "send"
        /\ request' = [request EXCEPT ![w] = c]
        /\ w \in Workers /\ w \in alive
        /\ UNCHANGED <<cache, process, runLock, alive, replies, made, session, outcome>>
    BY <1>8 DEF Send, Goto, TypeOK
  <2>2. \A d \in Calls : pc[d] = "read" => Worker(d) # w
    <3> SUFFICES ASSUME NEW d \in Calls, pc[d] = "read" PROVE Worker(d) # w
      OBVIOUS
    <3>1. d # c /\ w # None
      BY <2>1, NoneIsNobody
    <3> QED BY <2>1, <3>1, Apart DEF TalkInv, InRun
  <2>3. ~Busy(w)
    BY <2>1, <2>2 DEF TalkInv, Awaited
  <2>4. \A d \in Calls : Worker(d)' = Worker(d)
    BY <2>1 DEF Worker
  <2>5. Sessions' /\ Processes' /\ Locked' /\ NoLostWorker' /\ OwnReply'
    BY <2>1 DEF TypeOK, TalkInv, Sessions, Processes, Locked, InRun, Before, NoLostWorker,
       OwnReply
  <2>6. Fresh'
    <3> SUFFICES ASSUME NEW d \in Calls, NEW k \in {"new", "again"}, Unused(<<d, k>>)
                 PROVE  Unused(<<d, k>>)'
      BY <2>1 DEF TypeOK, TalkInv, Fresh, Before
    <3>1. <<d, k>> \in Workers /\ <<d, k>> # w
      BY <2>1, WorkersOfCalls DEF Unused
    <3> QED BY <2>1, <3>1 DEF Unused, TypeOK
  <2>7. Awaited'
    BY <2>1, <2>4 DEF TypeOK, TalkInv, Awaited, Busy
  <2>8. Served'
    <3> SUFFICES ASSUME NEW d \in Calls, pc'[d] = "read" PROVE Serving(Worker(d), d)'
      BY DEF Served
    <3>1. CASE d = c
      BY <2>1, <2>3, <2>4, <3>1 DEF Serving, Busy, TypeOK
    <3>2. CASE d # c
      <4>1. pc[d] = "read" /\ Serving(Worker(d), d)
        BY <2>1, <3>2 DEF TypeOK, TalkInv, Served
      <4>2. Worker(d) # w
        BY <2>2, <4>1
      <4> QED BY <2>1, <2>4, <4>1, <4>2 DEF Serving, TypeOK
    <3> QED BY <3>1, <3>2
  <2> QED BY <2>5, <2>6, <2>7, <2>8 DEF TalkInv
<1>9. CASE Read(c)
  <2> DEFINE w == Worker(c)
  <2>1. /\ w \in Workers /\ request[w] = None /\ Len(replies[w]) = 1
        /\ replies[w][1].ok => c \in made
    BY <1>9 DEF Read, TalkInv, Served, Serving
  <2>2. Head(replies[w]) = replies[w][1] /\ Tail(replies[w]) = <<>>
    <3>1. replies[w] \in Seq([to : Calls, ok : BOOLEAN]) /\ replies[w] # <<>>
      BY <1>9, <2>1 DEF Read, TypeOK
    <3>2. Len(Tail(replies[w])) = 0 /\ Tail(replies[w]) \in Seq([to : Calls, ok : BOOLEAN])
      BY <2>1, <3>1, HeadTailProperties
    <3>3. Head(replies[w]) = replies[w][1]
      BY <3>1
    <3>4. \A t \in Seq([to : Calls, ok : BOOLEAN]) : Len(t) = 0 => t = <<>>
      BY EmptySeq
    <3> QED BY <3>2, <3>3, <3>4
  <2>3. /\ replies' = [replies EXCEPT ![w] = <<>>]
        /\ Leave(c, IF replies[w][1].ok THEN "video" ELSE "error")
        /\ UNCHANGED <<cache, process, alive, request, made, session>>
        /\ pc[c] \in InRun
    BY <1>9, <2>2 DEF Read, InRun
  <2>4. /\ replies'[w] = <<>>
        /\ \A v \in Workers : v # w => replies'[v] = replies[v]
    BY <2>1, <2>3 DEF TypeOK
  <2> HIDE DEF w
  <2>5. PICK result \in {"video", "error"} :
          Leave(c, result) /\ (result = "video" => c \in made)
    BY <2>1, <2>3
  <2> QED BY <2>1, <2>3, <2>4, <2>5, RunEnds DEF w, TypeOK
<1>10. CASE ReadEof(c)
  BY <1>10, RunEnds DEF ReadEof, InRun, TypeOK
<1>11. CASE ReadTimesOut(c)
  BY <1>11, RunEnds DEF ReadTimesOut, Session, InRun, TypeOK
<1> QED BY <1>1, <1>2, <1>3, <1>4, <1>5, <1>6, <1>7, <1>8, <1>9, <1>10, <1>11 DEF Proceed

(* Who runs, who waits and what is on its way, at any time.                *)
THEOREM TalkInvariance == Spec => []TalkInv
<1>1. Init => TalkInv
  BY NoneIsNobody, WorkersOfCalls DEF Init, TalkInv, Sessions, Processes, Locked, InRun, Fresh,
     Unused, Awaited, Served, NoLostWorker, OwnReply
<1>2. TypeOK /\ TypeOK' /\ TalkInv /\ [Next]_vars => TalkInv'
  <2> SUFFICES ASSUME TypeOK, TypeOK', TalkInv, [Next]_vars PROVE TalkInv'
    OBVIOUS
  <2>1. CASE UNCHANGED vars
    BY <2>1, QuietStep DEF vars, cacheVars, sessionVars, workerVars, callVars
  <2>2. CASE Next
    BY <2>2, TickerTalk, BeginTalk, ProceedTalk, WorldTalk DEF Next
  <2> QED BY <2>1, <2>2
<1> QED BY <1>1, <1>2, TypeCorrect, PTL DEF Spec

(* A call is given a video only if a worker made one for it.               *)
THEOREM RepliesAreOwn == Spec => []OwnReply
<1>1. TalkInv => OwnReply
  BY DEF TalkInv
<1> QED BY <1>1, TalkInvariance, PTL

(* A worker that runs is the process of some session.                      *)
THEOREM WorkersAreKnown == Spec => []NoLostWorker
<1>1. TalkInv => NoLostWorker
  BY DEF TalkInv
<1> QED BY <1>1, TalkInvariance, PTL

(* The idle cleanup and the other calls leave the worker alone that a call *)
(* is reading from.                                                        *)
THEOREM WorkersAreKept == Spec => ClosedOutOfUse
<1> DEFINE Kept == \A c \in Calls : pc[c] = "read" /\ pc'[c] = "read" => Worker(c)' = Worker(c)
<1>1. TypeOK /\ TalkInv /\ [Next]_vars => [Kept]_vars
  <2> SUFFICES ASSUME TypeOK, TalkInv, [Next]_vars, ~UNCHANGED vars,
                      NEW c \in Calls, pc[c] = "read", pc'[c] = "read"
               PROVE  Worker(c)' = Worker(c)
    OBVIOUS
  <2> USE DEF cacheVars, sessionVars, workerVars, callVars, timerVars, tickVars
  <2>0. session[c] \in Calls
    BY DEF TypeOK
  <2>1. ASSUME NEW t \in Tickers, Fire(t) \/ Tick(t) PROVE Worker(c)' = Worker(c)
    <3>1. ASSUME NEW s \in Calls, CloseIfIdle(t, s) PROVE Worker(c)' = Worker(c)
      <4>1. runLock[s] = None => session[c] # s
        BY OthersOut DEF TalkInv, InRun
      <4> QED BY <2>0, <3>1, <4>1 DEF CloseIfIdle, Worker, TypeOK
    <3> QED BY <2>1, <3>1 DEF Fire, Tick, TickClear, TickClose, TickClosed, TickSchedule, Worker
  <2>2. ASSUME NEW d \in Calls, Begin(d) \/ Proceed(d) PROVE Worker(c)' = Worker(c)
    <3>1. CASE Create(d) \/ CreateFails(d)
      <4>1. session[c] # d /\ c # d
        BY <3>1 DEF Create, CreateFails, TalkInv, Sessions
      <4>2. session'[c] = session[c]
        BY <3>1, <4>1 DEF Create, CreateFails, TypeOK
      <4>3. process'[session[c]] = process[session[c]]
        BY <2>0, <3>1, <4>1 DEF Create, CreateFails, Popen, StartFails, TypeOK
      <4> QED BY <4>2, <4>3 DEF Worker
    <3>2. CASE Run(d)
      <4>1. session[d] \in Calls /\ session[c] # session[d]
        BY <3>2, OthersOut DEF Run, Session, TypeOK, TalkInv, InRun
      <4> QED BY <2>0, <3>2, <4>1 DEF Run, Popen, Session, Worker, TypeOK
    <3>3. CASE RestartFails(d) \/ ReadTimesOut(d)
      <4>1. d # c
        BY <3>3 DEF RestartFails, ReadTimesOut, Leave, Goto, TypeOK
      <4>2. session[c] # session[d] /\ session[d] \in Calls
        BY <3>3, <4>1, Apart DEF RestartFails, ReadTimesOut, TalkInv, InRun, TypeOK
      <4> QED BY <2>0, <3>3, <4>2 DEF RestartFails, StartFails, ReadTimesOut, Session, Worker,
              TypeOK
    <3>4. CASE GetCached(d)
      <4>1. d # c
        BY <3>4 DEF GetCached
      <4> QED BY <3>4, <4>1 DEF GetCached, Worker, TypeOK
    <3> QED BY <2>2, <3>1, <3>2, <3>3, <3>4 DEF Begin, Unconfigured, Proceed, Created,
            FirstSchedule, Restarted, Send, Read, ReadEof, Touch, Reschedule, Worker
  <2>3. CASE \/ \E w \in Workers : Serve(w) \/ WorkerDies(w)
             \/ \E s \in Calls : Age(s) \/ Collect(s)
    BY <2>3 DEF Serve, WorkerDies, Age, Collect, Worker
  <2> QED BY <2>1, <2>2, <2>3 DEF Next
<1> QED BY <1>1, TypeCorrect, TalkInvariance, PTL DEF Spec, ClosedOutOfUse
=============================================================================
