-------------------------- MODULE LatentSyncSessions --------------------------
(***************************************************************************)
(* The LatentSync provider (screencastgen/providers/lipsync/               *)
(* latentsync_provider.py) and the worker process it talks to              *)
(* (latentsync_worker.py): a cache with one session per preset, a session  *)
(* with one subprocess that takes one request at a time over a pipe, and a *)
(* timer that closes sessions nobody has used for a while.                 *)
(*                                                                         *)
(* A session is named by the call of run_latentsync that made it, a worker *)
(* process by the call that started it: each call makes at most one        *)
(* session and starts at most one worker for it and one in its place.      *)
(***************************************************************************)
EXTENDS Naturals, Sequences, FiniteSets

CONSTANTS
    Presets,
    Calls,       \* calls of run_latentsync, each one once
    PresetOf,    \* the preset each of them asks for
    Tickers,     \* timer threads, as many as may be at work at once
    None,
    MaxDeaths    \* bound on workers that die by themselves

ASSUME SessionsAssumption ==
    /\ PresetOf \in [Calls -> Presets]
    /\ Calls \cap Tickers = {}
    /\ None \notin Calls \cup Tickers \cup Calls \X {"new", "again"}
    /\ MaxDeaths \in Nat

VARIABLES
    cache,       \* _SESSIONS
    cacheLock,   \* holder of _SESSION_LOCK
    process,     \* session._process
    runLock,     \* holder of session._run_lock; the timer never keeps it
    stale,       \* sessions whose _last_used_at is longer ago than the timeout
    alive,       \* worker processes that run
    request,     \* what each worker is working on
    replies,     \* what each worker has written and nobody has read
    made,        \* calls whose video a worker has written
    pc, session, outcome,   \* of each call
    armed,       \* timers that have not fired
    handle,      \* what _IDLE_CLEANUP_TIMER points at
    tick, left,  \* where each timer thread is, sessions it has to look at
    deaths

cacheVars   == <<cache, cacheLock>>
sessionVars == <<process, runLock, stale>>
workerVars  == <<alive, request, replies, made>>
callVars    == <<pc, session, outcome>>
timerVars   == <<armed, handle>>
tickVars    == <<tick, left>>
vars == <<cacheVars, sessionVars, workerVars, callVars, timerVars, tickVars, deaths>>

Workers == Calls \X {"new", "again"}
Cached  == {cache[p] : p \in Presets} \ {None}

TypeOK ==
    /\ cache \in [Presets -> Calls \cup {None}]
    /\ cacheLock \in Calls \cup Tickers \cup {None}
    /\ process \in [Calls -> Workers \cup {None}]
    /\ runLock \in [Calls -> Calls \cup {None}]
    /\ stale \in SUBSET Calls
    /\ alive \in SUBSET Workers
    /\ request \in [Workers -> Calls \cup {None}]
    /\ replies \in [Workers -> Seq([to : Calls, ok : BOOLEAN])]
    /\ made \in SUBSET Calls
    /\ pc \in [Calls -> {"idle", "create", "schedule", "run", "restart", "send",
                         "read", "touch", "reschedule", "over"}]
    /\ session \in [Calls -> Calls \cup {None}]
    /\ outcome \in [Calls -> {"none", "video", "error"}]
    /\ armed \in Nat
    /\ handle \in {"none", "armed", "fired"}
    /\ tick \in [Tickers -> {"idle", "clear", "close", "closing", "schedule"}]
    /\ left \in [Tickers -> SUBSET Calls]
    /\ deaths \in 0..MaxDeaths
    /\ \A c \in Calls : pc[c] \notin {"idle", "over"} => session[c] # None

Init ==
    /\ cache = [p \in Presets |-> None]
    /\ cacheLock = None
    /\ process = [s \in Calls |-> None]
    /\ runLock = [s \in Calls |-> None]
    /\ stale = {}
    /\ alive = {}
    /\ request = [w \in Workers |-> None]
    /\ replies = [w \in Workers |-> <<>>]
    /\ made = {}
    /\ pc = [c \in Calls |-> "idle"]
    /\ session = [c \in Calls |-> None]
    /\ outcome = [c \in Calls |-> "none"]
    /\ armed = 0
    /\ handle = "none"
    /\ tick = [t \in Tickers |-> "idle"]
    /\ left = [t \in Tickers |-> {}]
    /\ deaths = 0

Goto(c, where) == pc' = [pc EXCEPT ![c] = where]

-----------------------------------------------------------------------------
(* The idle timer.                                                         *)

(* _schedule_idle_cleanup: cancel the timer that is known and start a new  *)
(* one.  Cancelling one that has fired has no effect.                      *)
Schedule ==
    IF Cached = {}
    THEN UNCHANGED timerVars
    ELSE /\ armed' = IF handle = "armed" THEN armed ELSE armed + 1
         /\ handle' = "armed"

(* A timer is the one that is known, or one that was forgotten.            *)
Fire(t) ==
    /\ armed > 0
    /\ tick[t] = "idle"
    /\ tick' = [tick EXCEPT ![t] = "clear"]
    /\ armed' = armed - 1
    /\ \/ handle = "armed" /\ handle' = "fired"
       \/ (handle = "armed" => armed > 1) /\ UNCHANGED handle
    /\ UNCHANGED <<cacheVars, sessionVars, workerVars, callVars, left, deaths>>

(* _idle_cleanup_tick: forget the timer, whichever is known by now, and    *)
(* note the time: the sessions that are stale by now may be closed ...     *)
TickClear(t) ==
    /\ tick[t] = "clear"
    /\ cacheLock = None
    /\ handle' = "none"
    /\ left' = [left EXCEPT ![t] = stale]
    /\ tick' = [tick EXCEPT ![t] = "close"]
    /\ UNCHANGED <<cacheVars, sessionVars, workerVars, callVars, armed, deaths>>

(* ... close_idle_latentsync_sessions, with the cache locked ...           *)
TickClose(t) ==
    /\ tick[t] = "close"
    /\ cacheLock = None
    /\ cacheLock' = t
    /\ left' = [left EXCEPT ![t] = @ \cap Cached]
    /\ tick' = [tick EXCEPT ![t] = "closing"]
    /\ UNCHANGED <<cache, sessionVars, workerVars, callVars, timerVars, deaths>>

(* Not the code: close_if_idle without the run lock.                       *)
CloseIfIdleAnyway(t, s) ==
    /\ tick[t] = "closing"
    /\ s \in left[t]
    /\ left' = [left EXCEPT ![t] = @ \ {s}]
    /\ IF s \in stale
       THEN /\ alive' = alive \ {process[s]}
            /\ process' = [process EXCEPT ![s] = None]
            /\ cache' = [p \in Presets |-> IF cache[p] = s THEN None ELSE cache[p]]
       ELSE UNCHANGED <<alive, process, cache>>
    /\ UNCHANGED <<cacheLock, runLock, stale, request, replies, made, callVars,
                   timerVars, tick, deaths>>

(* close_if_idle: a session that is in use or was used lately is passed    *)
(* over; the others are closed and forgotten.                              *)
CloseIfIdle(t, s) ==
    /\ tick[t] = "closing"
    /\ s \in left[t]
    /\ left' = [left EXCEPT ![t] = @ \ {s}]
    /\ IF s \in stale /\ runLock[s] = None
       THEN /\ alive' = alive \ {process[s]}
            /\ process' = [process EXCEPT ![s] = None]
            /\ cache' = [p \in Presets |-> IF cache[p] = s THEN None ELSE cache[p]]
       ELSE UNCHANGED <<alive, process, cache>>
    /\ UNCHANGED <<cacheLock, runLock, stale, request, replies, made, callVars,
                   timerVars, tick, deaths>>

TickClosed(t) ==
    /\ tick[t] = "closing"
    /\ left[t] = {}
    /\ cacheLock' = None
    /\ tick' = [tick EXCEPT ![t] = "schedule"]
    /\ UNCHANGED <<cache, sessionVars, workerVars, callVars, timerVars, left, deaths>>

(* Not the code: the tick leaves it to the next run to arm a timer.        *)
TickEnds(t) ==
    /\ tick[t] = "schedule"
    /\ tick' = [tick EXCEPT ![t] = "idle"]
    /\ UNCHANGED <<cacheVars, sessionVars, workerVars, callVars, timerVars, left, deaths>>

(* ... and wait for the next time.                                         *)
TickSchedule(t) ==
    /\ tick[t] = "schedule"
    /\ cacheLock = None
    /\ Schedule
    /\ tick' = [tick EXCEPT ![t] = "idle"]
    /\ UNCHANGED <<cacheVars, sessionVars, workerVars, callVars, left, deaths>>

Tick(t) ==
    \/ TickClear(t) \/ TickClose(t) \/ TickClosed(t) \/ TickSchedule(t)
    \/ \E s \in Calls : CloseIfIdle(t, s)

-----------------------------------------------------------------------------
(* run_latentsync: _get_session.                                           *)

(* _build_runtime_spec finds no installation, or no such preset; or there  *)
(* is no GPU, which the session finds before it starts anything.           *)
Unconfigured(c) ==
    /\ pc[c] = "idle"
    /\ Goto(c, "over")
    /\ outcome' = [outcome EXCEPT ![c] = "error"]
    /\ UNCHANGED <<cacheVars, sessionVars, workerVars, session, timerVars, tickVars, deaths>>

(* Not the code: what the cache has is taken without looking.              *)
GetUnchecked(c) ==
    /\ pc[c] = "idle"
    /\ cacheLock = None
    /\ session' = [session EXCEPT ![c] = cache[PresetOf[c]]]
    /\ Goto(c, "run")
    /\ UNCHANGED <<cacheVars, sessionVars, workerVars, outcome, timerVars, tickVars, deaths>>

GetCached(c) ==
    /\ pc[c] = "idle"
    /\ cacheLock = None
    /\ cache[PresetOf[c]] # None
    /\ session' = [session EXCEPT ![c] = cache[PresetOf[c]]]
    /\ Goto(c, "run")
    /\ UNCHANGED <<cacheVars, sessionVars, workerVars, outcome, timerVars, tickVars, deaths>>

Popen(s, w) ==
    /\ process' = [process EXCEPT ![s] = w]
    /\ alive' = alive \cup {w}

(* A session's clock starts before its worker, which is started with the   *)
(* cache locked.                                                           *)
Create(c) ==
    /\ pc[c] = "idle"
    /\ cacheLock = None
    /\ cache[PresetOf[c]] = None
    /\ cacheLock' = c
    /\ session' = [session EXCEPT ![c] = c]
    /\ Popen(c, <<c, "new">>)
    /\ Goto(c, "create")
    /\ UNCHANGED <<cache, runLock, stale, request, replies, made, outcome, timerVars,
                   tickVars, deaths>>

Created(c) ==
    /\ pc[c] = "create"
    /\ process[c] \in alive
    /\ cache' = [cache EXCEPT ![PresetOf[c]] = c]
    /\ cacheLock' = None
    /\ Goto(c, "schedule")
    /\ UNCHANGED <<sessionVars, workerVars, session, outcome, timerVars, tickVars, deaths>>

(* _start raises: the worker exits, or reports an error or nothing and is  *)
(* closed.                                                                 *)
StartFails(s) ==
    /\ alive' = alive \ {process[s]}
    /\ process' \in {process, [process EXCEPT ![s] = None]}

CreateFails(c) ==
    /\ pc[c] = "create"
    /\ StartFails(c)
    /\ cacheLock' = None
    /\ Goto(c, "over")
    /\ outcome' = [outcome EXCEPT ![c] = "error"]
    /\ UNCHANGED <<cache, runLock, stale, request, replies, made, session, timerVars,
                   tickVars, deaths>>

FirstSchedule(c) ==
    /\ pc[c] = "schedule"
    /\ cacheLock = None
    /\ Schedule
    /\ Goto(c, "run")
    /\ UNCHANGED <<cacheVars, sessionVars, workerVars, session, outcome, tickVars, deaths>>

-----------------------------------------------------------------------------
(* LatentSyncSession.run.                                                  *)

Session(c) == session[c]
Worker(c)  == process[session[c]]

(* Not the code: the process object is taken for a running worker.         *)
RunUnpolled(c) ==
    /\ pc[c] = "run"
    /\ runLock[Session(c)] = None
    /\ runLock' = [runLock EXCEPT ![Session(c)] = c]
    /\ Popen(Session(c), <<c, "again">>)
    /\ Goto(c, "restart")
    /\ UNCHANGED <<cacheVars, stale, request, replies, made, session, outcome, timerVars,
                   tickVars, deaths>>

(* Take the run lock; a session without a running worker starts one.       *)
Run(c) ==
    /\ pc[c] = "run"
    /\ runLock[Session(c)] = None
    /\ runLock' = [runLock EXCEPT ![Session(c)] = c]
    /\ IF Worker(c) \in alive
       THEN Goto(c, "send") /\ UNCHANGED <<process, alive>>
       ELSE Goto(c, "restart") /\ Popen(Session(c), <<c, "again">>)
    /\ UNCHANGED <<cacheVars, stale, request, replies, made, session, outcome, timerVars,
                   tickVars, deaths>>

Restarted(c) ==
    /\ pc[c] = "restart"
    /\ Worker(c) \in alive
    /\ Goto(c, "send")
    /\ UNCHANGED <<cacheVars, sessionVars, workerVars, session, outcome, timerVars,
                   tickVars, deaths>>

(* Leaving the with-block, with a result or with an exception.             *)
Leave(c, result) ==
    /\ runLock' = [runLock EXCEPT ![Session(c)] = None]
    /\ outcome' = [outcome EXCEPT ![c] = result]
    /\ Goto(c, "touch")

RestartFails(c) ==
    /\ pc[c] = "restart"
    /\ StartFails(Session(c))
    /\ Leave(c, "error")
    /\ UNCHANGED <<cacheVars, stale, request, replies, made, session, timerVars,
                   tickVars, deaths>>

(* Writing to a worker that died meanwhile breaks the pipe.                *)
Send(c) ==
    /\ pc[c] = "send"
    /\ IF Worker(c) \in alive
       THEN /\ request' = [request EXCEPT ![Worker(c)] = c]
            /\ Goto(c, "read")
            /\ UNCHANGED <<runLock, outcome>>
       ELSE /\ Leave(c, "error")
            /\ UNCHANGED request
    /\ UNCHANGED <<cacheVars, process, stale, alive, replies, made, session, timerVars,
                   tickVars, deaths>>

(* The caller's output file is there before the run (a temporary file of   *)
(* the server), so that looking for it afterwards finds it.                *)
Read(c) ==
    /\ pc[c] = "read"
    /\ replies[Worker(c)] # <<>>
    /\ replies' = [replies EXCEPT ![Worker(c)] = Tail(@)]
    /\ Leave(c, IF Head(replies[Worker(c)]).ok THEN "video" ELSE "error")
    /\ UNCHANGED <<cacheVars, process, stale, alive, request, made, session, timerVars,
                   tickVars, deaths>>

ReadEof(c) ==
    /\ pc[c] = "read"
    /\ replies[Worker(c)] = <<>>
    /\ Worker(c) \notin alive
    /\ Leave(c, "error")
    /\ UNCHANGED <<cacheVars, process, stale, workerVars, session, timerVars, tickVars,
                   deaths>>

(* Not the code: the worker is left to finish what it is doing.            *)
ReadTimesOutKeeping(c) ==
    /\ pc[c] = "read"
    /\ replies[Worker(c)] = <<>>
    /\ Worker(c) \in alive
    /\ Leave(c, "error")
    /\ UNCHANGED <<cacheVars, process, stale, workerVars, session, timerVars, tickVars,
                   deaths>>

(* No reply in time: the worker is closed with its request (asked to shut   *)
(* down, terminated, killed; here it is gone at once).                     *)
ReadTimesOut(c) ==
    /\ pc[c] = "read"
    /\ replies[Worker(c)] = <<>>
    /\ Worker(c) \in alive
    /\ process' = [process EXCEPT ![Session(c)] = None]
    /\ alive' = alive \ {Worker(c)}
    /\ Leave(c, "error")
    /\ UNCHANGED <<cacheVars, stale, request, replies, made, session, timerVars,
                   tickVars, deaths>>

(* The finally block: the clock is set after the run lock is released ...  *)
Touch(c) ==
    /\ pc[c] = "touch"
    /\ stale' = stale \ {Session(c)}
    /\ Goto(c, "reschedule")
    /\ UNCHANGED <<cacheVars, process, runLock, workerVars, session, outcome, timerVars,
                   tickVars, deaths>>

(* ... and the timer armed.                                                *)
Reschedule(c) ==
    /\ pc[c] = "reschedule"
    /\ cacheLock = None
    /\ Schedule
    /\ Goto(c, "over")
    /\ UNCHANGED <<cacheVars, sessionVars, workerVars, session, outcome, tickVars, deaths>>

Begin(c) == Unconfigured(c) \/ GetCached(c) \/ Create(c)

Proceed(c) ==
    \/ Created(c) \/ CreateFails(c) \/ FirstSchedule(c)
    \/ Run(c) \/ Restarted(c) \/ RestartFails(c) \/ Send(c)
    \/ Read(c) \/ ReadEof(c) \/ ReadTimesOut(c)
    \/ Touch(c) \/ Reschedule(c)

-----------------------------------------------------------------------------
(* The worker and the world.                                               *)

(* _serve: one reply for one request, of success or of failure.            *)
Serve(w) ==
    /\ w \in alive
    /\ request[w] # None
    /\ \E ok \in BOOLEAN :
        /\ replies' = [replies EXCEPT ![w] = Append(@, [to |-> request[w], ok |-> ok])]
        /\ made' = IF ok THEN made \cup {request[w]} ELSE made
    /\ request' = [request EXCEPT ![w] = None]
    /\ UNCHANGED <<cacheVars, sessionVars, alive, callVars, timerVars, tickVars, deaths>>

WorkerDies(w) ==
    /\ w \in alive
    /\ deaths < MaxDeaths
    /\ deaths' = deaths + 1
    /\ alive' = alive \ {w}
    /\ UNCHANGED <<cacheVars, sessionVars, request, replies, made, callVars, timerVars,
                   tickVars>>

(* A session that is neither cached nor held by a call (one that was       *)
(* closed between _get_session and run, and restarted by the run) is freed *)
(* with its Popen object: the worker reads the end of its input and exits. *)
Collect(s) ==
    /\ process[s] \in alive
    /\ s \notin Cached
    /\ \A c \in Calls : session[c] = s => pc[c] = "over"
    /\ alive' = alive \ {process[s]}
    /\ UNCHANGED <<cacheVars, sessionVars, request, replies, made, callVars, timerVars,
                   tickVars, deaths>>

(* The idle timeout passes since the clock of a session was set.           *)
Age(s) ==
    /\ s \in Cached \cup {cacheLock}
    /\ s \in Calls \ stale
    /\ stale' = stale \cup {s}
    /\ UNCHANGED <<cacheVars, process, runLock, workerVars, callVars, timerVars, tickVars,
                   deaths>>

Next ==
    \/ \E c \in Calls : Begin(c) \/ Proceed(c) \/ Age(c) \/ Collect(c)
    \/ \E t \in Tickers : Fire(t) \/ Tick(t)
    \/ \E w \in Workers : Serve(w) \/ WorkerDies(w)

Spec == Init /\ [][Next]_vars

(***************************************************************************)
(* Calls that have begun go on, armed timers fire, timer threads finish    *)
(* and time passes.  A read that nobody answers times out.  The locks are  *)
(* not fair; but timer threads come a whole idle timeout apart, so that    *)
(* none is kept out of a lock it can have again and again.                 *)
(***************************************************************************)
FairSpec ==
    /\ Spec
    /\ \A c \in Calls : SF_vars(Proceed(c)) /\ WF_vars(Age(c)) /\ WF_vars(Collect(c))
    /\ \A t \in Tickers : SF_vars(Tick(t))
    /\ WF_vars(\E t \in Tickers : Fire(t))

-----------------------------------------------------------------------------
(* Properties.                                                             *)

(* A video is returned only to the call it was made for: no reply of an    *)
(* earlier request, timed out or not, is read in its place.                *)
OwnReply == \A c \in Calls : outcome[c] = "video" => c \in made

(* Every worker that runs is the process of a session, so that closing the *)
(* session ends it: none is replaced or forgotten alive, on the GPU.       *)
NoLostWorker == \A w \in alive : \E s \in Calls : process[s] = w

(* The idle cleanup never closes a worker under a call: whoever is waiting *)
(* for a reply keeps the worker the request went to.                       *)
ClosedOutOfUse ==
    [][\A c \in Calls : pc[c] = "read" /\ pc'[c] = "read" => Worker(c)' = Worker(c)]_vars

(* Every worker ends, whatever calls and timers meet: as long as a session *)
(* is cached some timer is armed or at work that will look at it, and a    *)
(* worker outside the cache goes with its session.  (Each call comes once, *)
(* so that in the end no worker runs.)                                     *)
WorkersEnd == <>[](alive = {})
=============================================================================
