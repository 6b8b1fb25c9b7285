------------------------------- MODULE Batcher -------------------------------
(***************************************************************************)
(* BatchingSynthesizer (screencastgen/inference_batcher.py): /synthesize   *)
(* requests queue up, one worker thread folds neighbours that share a      *)
(* voice into a batch, waits a moment for more, and answers each request   *)
(* with its slice of one model call made under the GPU lock it shares with *)
(* the rest of the server.                                                 *)
(***************************************************************************)
EXTENDS Naturals, Sequences, FiniteSets

CONSTANTS
    Requests,    \* the requests, each naming its own text
    Voices,      \* the batch keys: language and reference voice
    Voice,       \* the batch key of each request
    None,        \* an unresolved future
    Error,       \* a future with an exception
    MaxBatch,    \* self._max_batch
    HasWindow,   \* self._window_s > 0
    MaxOthers    \* bound on how often someone else takes the GPU lock

ASSUME BatcherAssumption ==
    /\ Voice \in [Requests -> Voices]
    /\ None # Error
    /\ {None, Error} \cap [text : Requests, voice : Voices] = {}
    /\ MaxBatch \in Nat \ {0}
    /\ HasWindow \in BOOLEAN
    /\ MaxOthers \in Nat

VARIABLES
    submitted,   \* requests submit() was called for
    queue,       \* self._queue
    batch,       \* the worker's current batch
    next,        \* the first item of batch whose future is not resolved
    worker,      \* program counter of the worker thread
    stop,        \* self._stop
    gpu,         \* holder of run_lock
    others,      \* times someone else took run_lock
    answer       \* what each request's future resolved to

vars == <<submitted, queue, batch, next, worker, stop, gpu, others, answer>>

Audio == [text : Requests, voice : Voices]

TypeOK ==
    /\ submitted \in SUBSET Requests
    /\ queue \in Seq(Requests)
    /\ batch \in Seq(Requests) /\ Len(batch) <= MaxBatch
    /\ next \in Nat \ {0}
    /\ worker \in {"collect", "window", "prepare", "acquire", "running",
                   "resolve", "fail", "exited"}
    /\ stop \in BOOLEAN
    /\ gpu \in {"free", "batcher", "other"}
    /\ others \in 0..MaxOthers
    /\ answer \in [Requests -> {None, Error} \cup Audio]

Init ==
    /\ submitted = {}
    /\ queue = <<>>
    /\ batch = <<>>
    /\ next = 1
    /\ worker = "collect"
    /\ stop = FALSE
    /\ gpu = "free"
    /\ others = 0
    /\ answer = [r \in Requests |-> None]

(* submit().  No caller submits after stop(): the server never calls it.   *)
Submit(r) ==
    /\ ~stop
    /\ r \notin submitted
    /\ submitted' = submitted \cup {r}
    /\ queue' = Append(queue, r)
    /\ UNCHANGED <<batch, next, worker, stop, gpu, others, answer>>

Stop ==
    /\ ~stop
    /\ stop' = TRUE
    /\ UNCHANGED <<submitted, queue, batch, next, worker, gpu, others, answer>>

(* _drain_compatible takes k requests from the front of queue q into       *)
(* batch b: as many as share its voice and fit.                            *)
Drains(b, q, k) ==
    /\ k \in 0..Len(q)
    /\ \A i \in 1..k : Voice[q[i]] = Voice[b[1]]
    /\ Len(b) + k <= MaxBatch
    /\ k < Len(q) /\ Len(b) + k < MaxBatch => Voice[q[k + 1]] # Voice[b[1]]

Take(b, q) ==
    \E k \in 0..Len(q) :
        /\ Drains(b, q, k)
        /\ batch' = b \o SubSeq(q, 1, k)
        /\ queue' = SubSeq(q, k + 1, Len(q))

(* Not the code: items are counted from zero.                              *)
SeedFromZero ==
    /\ worker = "collect"
    /\ queue # <<>>
    /\ Take(<<Head(queue)>>, Tail(queue))
    /\ next' = 0
    /\ worker' = IF Len(batch') >= MaxBatch \/ ~HasWindow THEN "prepare" ELSE "window"
    /\ UNCHANGED <<submitted, stop, gpu, others, answer>>

(* _collect_batch: seed a batch with the oldest request and its neighbours *)
(* ...                                                                     *)
Seed ==
    /\ worker = "collect"
    /\ queue # <<>>
    /\ Take(<<Head(queue)>>, Tail(queue))
    /\ next' = 1
    /\ worker' = IF Len(batch') >= MaxBatch \/ ~HasWindow THEN "prepare" ELSE "window"
    /\ UNCHANGED <<submitted, stop, gpu, others, answer>>

(* ... wait for the window to pass without the lock, and take once more.   *)
WindowOver ==
    /\ worker = "window"
    /\ Take(batch, queue)
    /\ worker' = "prepare"
    /\ UNCHANGED <<submitted, next, stop, gpu, others, answer>>

Exit ==
    /\ worker = "collect"
    /\ stop
    /\ queue = <<>>
    /\ worker' = "exited"
    /\ UNCHANGED <<submitted, queue, batch, next, stop, gpu, others, answer>>

(* _run_batch: write the reference clip to a temp file, which may fail.    *)
Prepare ==
    /\ worker = "prepare"
    /\ worker' \in {"acquire", "fail"}
    /\ UNCHANGED <<submitted, queue, batch, next, stop, gpu, others, answer>>

Acquire ==
    /\ worker = "acquire"
    /\ gpu = "free"
    /\ gpu' = "batcher"
    /\ worker' = "running"
    /\ UNCHANGED <<submitted, queue, batch, next, stop, others, answer>>

(* The model call returns one clip per text, or raises, or returns another *)
(* number of clips, which raises after the lock is released.               *)
Synthesized ==
    /\ worker = "running"
    /\ gpu' = "free"
    /\ worker' \in {"resolve", "fail"}
    /\ UNCHANGED <<submitted, queue, batch, next, stop, others, answer>>

(* The batch is over when its last future is resolved.                     *)
Answered(value) ==
    /\ answer' = [answer EXCEPT ![batch[next]] = value]
    /\ next' = next + 1
    /\ worker' = IF next = Len(batch) THEN "collect" ELSE worker
    /\ UNCHANGED <<submitted, queue, batch, stop, gpu, others>>

(* Not the code: the slices are handed out from the wrong end.             *)
ResolveReversed ==
    /\ worker = "resolve"
    /\ Answered([text |-> batch[Len(batch) + 1 - next], voice |-> Voice[batch[1]]])

(* The whole batch is spoken in the voice of its first request.            *)
Resolve ==
    /\ worker = "resolve"
    /\ Answered([text |-> batch[next], voice |-> Voice[batch[1]]])

(* The except block: every future that is not done gets the exception.     *)
Fail ==
    /\ worker = "fail"
    /\ Answered(Error)

(* Lip-sync jobs, /align and /transcribe take the same lock.               *)
OtherTakes ==
    /\ gpu = "free"
    /\ others < MaxOthers
    /\ gpu' = "other"
    /\ others' = others + 1
    /\ UNCHANGED <<submitted, queue, batch, next, worker, stop, answer>>

OtherReleases ==
    /\ gpu = "other"
    /\ gpu' = "free"
    /\ UNCHANGED <<submitted, queue, batch, next, worker, stop, others, answer>>

Worker ==
    \/ Seed \/ WindowOver \/ Exit \/ Prepare \/ Acquire \/ Synthesized
    \/ Resolve \/ Fail

Next ==
    \/ \E r \in Requests : Submit(r)
    \/ Stop
    \/ Worker
    \/ OtherTakes
    \/ OtherReleases

Spec == Init /\ [][Next]_vars

(***************************************************************************)
(* The worker thread runs, model calls end, and whoever holds the GPU lock *)
(* lets go of it.  MaxOthers bounds how often the worker is overtaken at   *)
(* the lock, which threading.Lock does not bound.                          *)
(***************************************************************************)
FairSpec == Spec /\ WF_vars(Worker) /\ WF_vars(OtherReleases)

-----------------------------------------------------------------------------
(* Properties.                                                             *)

(* One model call never mixes two voices: every item of the batch has the  *)
(* voice of its first, also those that joined after the window; and a call *)
(* never exceeds --max-batch, what fits in VRAM.                           *)
BatchFits ==
    /\ Len(batch) <= MaxBatch
    /\ \A i \in 1..Len(batch) : Voice[batch[i]] = Voice[batch[1]]

(* The model runs only under the shared GPU lock, and the lock is given    *)
(* back on every way out of the call (test_inference_batcher.py:20).       *)
RunsUnderLock == worker = "running" <=> gpu = "batcher"

(* Requests not answered yet, in the order they will be.                   *)
Waiting == SubSeq(batch, next, Len(batch)) \o queue

(* Batching is invisible: requests are answered in the order of their      *)
(* submission, each exactly once, with its own text in its own voice or    *)
(* with an error; none is lost between queue, window and batch, not at     *)
(* stop() either, and every one is answered in the end.                    *)
Service == INSTANCE SynthesisService WITH waiting <- Waiting

Transparent == Service!Spec
=============================================================================
