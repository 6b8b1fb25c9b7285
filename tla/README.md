# A verification project for screencastgen

`screencastgen` turns documents into narrated audio, highlighted videos and
lip-synced readers. It is a Python package with a command line, an inference
server for the GPU, and a web app (FastAPI, Celery, Redis, a SQL database and a
React frontend). These modules model the parts of it in which threads,
processes, retries and leftovers of earlier runs meet. TLC checks them on small
instances, TLAPS proves the most important statements for every instance.

Paths below are relative to the repository's root.

## 1. The system

| Part | State | Operations | Where it is hard |
| --- | --- | --- | --- |
| **GPU server** `screencastgen/inference_server.py` | dict of lip-sync jobs, one thread per job, two locks, temp files, the loaded TTS model | `/synthesize`, `/transcribe`, `/align`, `/lipsync` (submit, status, result, cancel, delete) | cancellation and deletion race with the thread; the GPU lock is shared by threads, the batcher and coroutines; models must leave VRAM in time |
| **TTS batching** `inference_batcher.py` | queue, current batch, futures | submit, stop, collect, run | a batch grows around an unlocked wait; answers are assigned by position; errors hit a whole batch |
| **Remote client** `remote_gpu.py` | position in one call, failure counter | submit, poll, cancel, fetch, delete | lost and late requests, server death, cancel racing the end |
| **Pipelines** `pipelines/*.py` | position in a run, files in the output directory | validate, synthesize, align, render, build | a run may fail, be stopped or die anywhere, the next one resumes; the same directory serves several formats |
| **Tracker** `tracker.py` | `processing_status.json` | mark and look up chunks | saved in place, looked up by number |
| **Web jobs** `web/backend/routers/jobs.py`, `tasks/pipelines.py`, `tasks/progress.py` | job row, `config_json`, stop flag, broker queue, job directory | create, stop, delete, download, export; the run and export tasks | handlers interleave with the worker; whole-column writes from stale copies; second deliveries |
| **Events** `routers/events.py`, `useJobProgress.ts` | a Redis subscription per page | publish, subscribe, close | an event published once may come before the subscription; no page uses the hook, the dashboard polls |
| **Reader page** `pages/Reader.tsx` | the export status it shows, a request or a timer | poll, click, react | its polling starts over whenever its own answer changes what it shows; answers come late |
| **LatentSync sessions** `providers/lipsync/latentsync_provider.py`, `latentsync_worker.py` | session cache, idle timer, subprocess pipes | get, run, close when idle | the timer races with users; a pipe has no request ids |
| **Text** `text_processing.py`, `pipelines/common.py` | none | split into sentences, chunks; validate | a limit is checked before a full stop is added; remainders must be flushed at every cut |
| **Matching and layout** `word_matcher.py`, `page_renderer.py`, `highlight_renderer.py`, `video_composer.py` | none | heard words to printed ones, words to pixels, presenter and pane | repeated, split and misheard words; clips and frames of any shape |
| **Readers and EPUB** `reader_assets.py`, `offline_reader.py`, `epub_builder.py` | files of one job | manifest, archive, chapters and overlays | four ways to find the word at a time, two clocks |
| **Storage** `services/storage_backend.py`, `routers/reader.py`, `jobs.py` | bucket, a directory per host | upload, copy, redirect, rebuild, delete | best-effort uploads, copies that are never checked, DELETE against downloads |
| **Backends** `providers/tts`, `providers/align`, `providers/visualization`, `extractor.py`, `models.py`, `transcription.py` | a loaded model at most | one call each | what they hold while they compute |
| **Other web services** `services/*.py`, other routers | rows, one file each | uploads, voices, presets | nothing concurrent |
| **Command line** `cli.py`, `doctor.py` | none | argument parsing, checks | nothing concurrent |

How they interact. The command line and the Celery worker call a pipeline with
a reporter, which carries progress out and the stop request in. The pipeline
calls the TTS, alignment and lip-sync providers; the remote ones are HTTP
clients of the GPU server. The API hands tasks to the worker through the
broker, stop requests through a Redis key, and everything else through the
job's row; the worker tells browsers over Redis pub/sub. All GPU work of the
server passes one lock. The output directory with its tracker is the only
memory between runs.

What makes each part correct:

- *GPU server*: one user of the GPU at a time, no TTS model in VRAM beside a
  video or an alignment; a cancelled job never becomes done; final statuses are
  final; a done job has its file; nothing is left on disk; every job settles.
- *Batching*: invisible, except for speed.
- *Remote client*: one truthful outcome per call, always, and a clean server.
- *Pipeline and tracker*: the status file never promises what the files do not
  hold; what is delivered is complete and in step; a rerun can succeed.
- *Web jobs*: what the row offers for download exists; events follow commits;
  every job reaches a final status; two exports do not disturb one another.
- *Reader page*: a page that is open shows how its export ended.
- *Sessions*: every reply belongs to its request, no worker is closed in use or
  lost, every worker is closed in the end.
- *Text*: every word is said, once, in order, on its page; no chunk that the
  splitter makes is refused by the validator.
- *Matching and layout*: the highlight is not ahead of the voice, as long as the
  aligner took no word for one that is printed ahead; the word that is spoken is in
  sight wherever the pane has room for it, and the presenter covers nothing.
- *Readers*: at any time all of them mark a word that is spoken then.
- *Storage*: what is served is whole; what is deleted is gone, but for what an
  export makes that was already at work.

`PROJECT.json` lists every component, modelled or not, and under "hazards"
the places where this code can go wrong in ways tests hardly reach.

## 2. Modules

| Module | Models | Composes or extends |
| --- | --- | --- |
| `LipsyncServer` | the server's lip-sync jobs, GPU lock and VRAM | |
| `LipsyncCall` | abstract: what a caller of the remote client is promised | |
| `RemoteLipsync` | `remote_generate_lipsync` over a lossy network | extends `LipsyncServer`, refines `LipsyncCall` |
| `SynthesisService` | abstract: first come, first served synthesis | |
| `Batcher` | `BatchingSynthesizer` | refines `SynthesisService` |
| `LipsyncPipeline` | consecutive lip-sync runs over one directory, with the shared steps and the tracker | |
| `WebJobs` | one lip-sync job in the web app | |
| `LatentSyncSessions` | `run_latentsync`: session cache, idle timer, worker processes | |
| `Ordered` | `sorted()` of a set of numbers | |
| `TextPreparation` | sentences, chunks, validation | extends `Ordered` |
| `WordMatching` | matching of heard and printed words; the word at a time, three ways | |
| `ReaderBook` | manifest, offline reader, EPUB | extends `Ordered` |
| `PageLayout` | presenter and pane, text lines and scrolling, pages and boxes | |
| `JobStorage` | the files of a finished job, its downloads and its deletion | |
| `ReaderPage` | the reader page and the EPUB export it waits for | |
| `ReaderDelivery` | from a document to its readers | composes the six above |
| `MCBatcher`, `MCLipsyncPipeline`, `MCLatentSyncSessions`, `MCWebJobs`, `MCReaderDelivery` | constants for TLC | extend theirs |
| `LipsyncServer_proofs`, `RemoteLipsync_proofs`, `Batcher_proofs`, `LipsyncPipeline_proofs`, `LatentSyncSessions_proofs`, `WebJobs_proofs`, `TextPreparation_proofs`, `ReaderDelivery_proofs` | theorems and proofs | extend theirs; the last also the one before |

Definitions whose comment begins with "Not the code:" are deliberate mistakes,
each a plausible slip in the code. They are no part of a specification; in their
place of the right definition the property named in `PROJECT.json` fails, which
shows that the property depends on the code.

### LipsyncServer

`registered` is the key set of `_lipsync_jobs`; `status`, `cancelled` and
`outputPath` are the fields of a job's entry, which lives on in its thread after
a DELETE. `thread[j]` is the program counter of `_run_lipsync_job`, cut where
the thread takes or drops a lock or touches the file system. `gpu` is the holder
of `_lipsync_gpu_lock`. The endpoints are one action each, or two where the code
drops the registry lock and then uses what it read (`ResultLookup` and
`ResultRead`, `DeletePop` and `DeleteUnlink`). `AlignArrive` to `PhaseEnd` are
`/align` and `/transcribe`: coroutines that block on the lock, hence `LoopFree`,
which the other coroutine, `Submit`, waits for. `BatchRun` is the batcher's call
under the lock. `Restart` loses memory and keeps files.

### RemoteLipsync

Each call owns a job, so calls are named by jobs. `client[j]` is the position in
the call, `wire[j]` the fate of its one request in flight. The server's actions
are those of `LipsyncServer`, reached through `Accept` (event loop) and a handler
action (thread pool). `TimeOut` covers a lost request, a lost reply, and a server
whose loop is blocked; an abandoned request may arrive `late`. The answers of older
servers (a video instead of a job, a job without its name, `remote_gpu.py:193-204`)
are left out: this server gives none.

### Batcher

`Seed` and `WindowOver` are the two halves of `_collect_batch` around the wait.
`Drains` says how many requests `_drain_compatible` takes: as many neighbours as
share the voice and fit. Futures are resolved one at a time. The lock's other
users are `OtherTakes` and `OtherReleases`.

### LipsyncPipeline

A file is the text heard or seen in it, `None` when there is none, so that "the
words of page 1 are set against the audio of an older page 1" can be said. A run
is `Start`, `Validate`, concurrent `Speak`, `MarkProcessed` and `MarkFailed`,
`AlignChunk` in order, the render loop (`RenderCached`, `RenderPage` and
`MarkRendered`, `RenderFails`, `StopRendering`), and one of three builders. A
crash is possible between any two steps; `CrashInSave` leaves the status file
empty (which reads as fresh) or half written (which stops runs without
`--clean`). `output` remembers what the last successful run delivered.

A stop may come in a run of any format: the library honours whatever reporter it
is given. The web app's export tasks pass none.

### LatentSyncSessions

`cache` is `_SESSIONS`, `process[s]` a session's `_process`, `stale` the sessions
whose `_last_used_at` lies longer back than the idle timeout, `armed` and `handle`
the timers and what `_IDLE_CLEANUP_TIMER` knows of them. A session is named by
the call that made it, a worker by the call that started it. A call is `GetCached`
or `Create` (which keeps the cache locked while the worker loads), then `Run`,
`Send`, `Read` and the finally block in two steps, after the run lock is dropped.
A tick is cut where it takes and drops `_SESSION_LOCK`. The idle timeout is taken
to be set; with it disabled no timer exists and nothing is closed. A closed worker
is gone at once, where the code gives it up to seven seconds. `Collect` is
CPython's reference counting: a session that left the cache and has no caller
loses its pipe, and the worker reads the end of its input.

### WebJobs

One job's row, the stop flag, the queue, the job's files, the API's handlers cut
at their awaits, and the one worker (`web/docker-compose.yml:56`). `copy` is the
worker's stale copy of `config_json`, `read[c]` an export handler's. `TaskDies`
may put the task back (late acknowledgement) or lose it. `CreateUndispatched` and
`ExportUndispatched` are a broker that refuses a task, or an API that dies, after the
row was committed.

### TextPreparation, WordMatching, ReaderBook, PageLayout

These are the pure functions of the program, as operators. A text is a sequence
of words; a word has its size in bytes, whether it ends a sentence, how a long
sentence may be split at it, and the place of the printed word it comes from. So
`Loosened` can say what `str.split(", ")` does (the comma leaves its word and
leads the next part, as a word of its own) and `TextSpoken` can say that nothing
was lost. Of `preprocess_text` there is what changes which words there are: a printed
word is `said` as itself, as the parts of a word in camelCase, not at all (LaTeX,
comments, the inside of a block of code), or as the words of the note that begins in
the place of such a block. For matching, a word is the sequence of its letters, for
`Affix` asks whether one begins or ends with the other. `MatchStep` is one round of
the matcher's loop. `Active`,
`ReaderActive` and `OfflineActive` are the three searches for the word at a time,
the latter two with the binary searches of the code, whose three variables are one
record. `Members` are the chunks of a page, for the offline reader and for the EPUB.
`Offsets` are the starts of
the chunks in the joined audio, `Drawings` the order in which the offline reader
numbers what it draws (without a Markdown source). In `Epub` a chapter holds the
chunks that begin on its page, and a chunk's clips refer to its own file.
`Composition` is the geometry of a frame, with the code's integer divisions and
their order; `LayoutText` wraps words, `Fitted` scales a page into a pane by a
fraction.

### JobStorage

`disk[h]` is the job's directory on a host, `bucket` its objects; with local
storage, or a shared directory, worker and API use the same one. A copy is whole,
torn or missing; "audio" stands for the presenter as well, "page" for all page
images. `Send` uploads in the order of the code, and only the archive's failure
fails the job. `Fetched` is `get_output_local_path`. Storage calls block the API's
event loop, so a handler is cut at its awaits alone: `Ask` and `Download`,
`DeleteFiles` and `DeleteRow`. `ApiDies` leaves a copy that was being written cut
off, where the code writes in place. `AskExport` to `ExportDies` are one export of
the job, MP4 or EPUB: a task of the worker that DELETE does not revoke. `surviving`
remembers that it was at work when the files were deleted, or found the row
afterwards. `Refreshed` has the copy of the source, and leaves out that the manifest
of a job from an older version is rewritten in place with it.

### ReaderPage

`shown` is `epubStatus`, `poll` what the effect is waiting for, `seen` what its
request read. `Shows` is `setEpubStatus` with the effect that depends on it: a
change cleans up, which makes the old request's answer void, and starts over. That
React does so in a later render is taken to be one step: the answer of a request
that arrives in between only repeats what its successor will say.

### ReaderDelivery

`Begin`, `Chunk`, `Align` and then `Compose` (an MP4) or `Publish` (a reader) are
the highlight pipeline, of which every step needs the one before. `Recognised` is
the aligner, WhisperX, which transcribes the audio and is not told the text: for any
word it may write down none, another word or two, out of `Vocabulary`, in which there
are words that the document prints elsewhere; and it may fail at a chunk. `MaxFlaws`
bounds how often it does so in one document. A word lasts two units or up to the next
one, so that there are times at which two words meet. After `Publish` the files live on by
themselves in `JobStorage`. `ReaderPage` shares no state with a document, so a
behaviour is about one or the other.

## 3. Runs

| Run | Instance | Shows | States |
| --- | --- | --- | --- |
| `LipsyncServer` | 2 jobs, 1 batch, 1 alignment, 1 restart | safety and liveness of the server | 498 thousand |
| `RemoteLipsync` | 1 call, 1 batch, 1 alignment, 2 allowed failures, 2 lost messages, 1 server death | the client and the server implement `LipsyncCall` and leave no trace | 367 thousand |
| `Batcher` | 4 requests, 2 voices, batches of 2, the lock taken twice by others | `Batcher` implements `SynthesisService` | 35 thousand |
| `LipsyncPipeline` | 1 document of 2 chunks, 3 formats, 3 runs, 1 torn save | truthful tracker, output in step, runs end | 178 thousand |
| `LatentSyncSessions` | 2 calls for 1 preset, 1 timer thread, 1 worker that dies by itself | own replies, no worker lost, closed in use or left | 391 thousand |
| `WebJobs` | 1 job, both exports, 1 stop, 1 dying task | downloads, events, settling | 572 thousand |
| `ReaderDelivery` | documents of 1 to 4 words of 11 kinds on 1 to 3 pages, 1 flaw of the aligner, 63 pictures with 3 presenters each; 3 kinds of storage, 1 export, 1 death of the worker and of the API; 2 clicks | the text is spoken, matched and shown in step by all readers; files are whole or gone; the page learns of its export | 260 thousand |
| `LipsyncServerDelete`, `RemoteLipsyncSlowGpu`, `LipsyncPipelineContent`, `LipsyncPipelinePresenter`, `WebJobsExports` | see below | where code and docs disagree | |

Why the bounds are enough (most of the safety properties are also proved without
them, see section 5):

- *Server*: two jobs are the least that contend for the lock; a third user kind
  each comes from the batch and the alignment. `TypeOK`, `GpuExclusive`,
  `VramHandoff`, `ResultAvailable`, `NoLeftovers`, `CancelWins` and
  `TerminalStable` are proved for all sizes. One restart reaches every program
  counter a thread can be killed at.
- *Client*: calls share nothing but the server, whose jobs meet only at the GPU
  lock; the batch and the alignment stand in for other jobs there. Two allowed
  failures (five in the code) give a failure that is forgiven, one that is
  reset, and one that is fatal; two lost messages reach all of them.
- *Batcher*: four requests with one for another voice give full batches, short
  ones, ones cut by a voice, and a queue left over. A third voice would act as
  the second.
- *Pipeline*: the second of two chunks is the first that can be out of step;
  three runs are an early stop, a repair, and a run over what both left.
- *Sessions*: presets share only the lock of the cache and the timer; two calls
  for one preset meet in one session, or in two when the timer comes between. Ticks
  come an idle timeout apart, so that one thread is at work.
- *Web*: there is one row and one worker; two exports are all there are.

- *Text*: the limits are scaled from 400, 850, 900 and 5000 bytes to 4, 8, 10 and
  14, in the same order, so that words of one to nine bytes are below, at and
  above each; the window of the matcher from 30 to 3. A word alone as long as a
  sentence is one of the kinds. Four words on three pages, the middle one empty,
  are chunks that span pages, end with one, and skip one. A word may be
  said in two words, in none, or as a note of two. A word with three parts, of which
  `_is_prefix_match` knows only the first and the last, behaves as one that is taken
  for two others.
- *Aligner*: one flaw in a document: a chunk that failed, or a word that was missed,
  or taken for one or two of a word that is printed all over the documents and one
  that is printed nowhere. `NeverAhead` is about the words up to the first that was
  not harmless: a word taken for one that is printed ahead is not ("the sat sat" for
  "the cat sat"), nor a second word for a printed one, nor the middle part of three.
  Each carries the cursor on, which never comes back. The theorem has no bound on
  flaws.
- *Pictures*: 7 positions, 3 scales (one below the least the code allows), a
  landscape, an upright and a small frame, presenters upright, square and wide. The
  settings offer up to 40 percent; the command line accepts any number, and the code
  allows 90, at which a corner presenter leaves a pane of one pixel, in which no word
  can be seen. `PresenterClear` therefore asks for half of the frame up to what is
  offered, and for a word to be within the pane's width where there is room for it
  beside a margin.
- *Times*: `ReadersAgree` looks at every time of a word from its start to its end,
  with words that touch and words that do not.
- *Storage*: one object of each kind, and one export. One death of the worker reaches every
  point between two uploads.

Deadlock checking is off in every run: in all of them the bounded supply of
jobs, runs or requests ends, and the system rightly stops.

### Fairness

- *Server*: threads and handlers that have begun go on; generators, batches and
  alignments end (LatentSync's worker is read with a timeout). No client owes an
  action. A `threading.Lock` is not fair; weak fairness suffices because the
  other users of the lock are finitely many.
- *Client*: its code runs, the server answers what it accepted. Nothing must
  arrive and nothing must be lost.
- *Batcher*: the worker runs and the lock's holders release it. `stop()` is
  never owed.
- *Pipeline*: a run goes on until it ends or dies: each step is a call that
  returns or raises.
- *Sessions*: calls and ticks go on, armed timers fire, time passes; a read ends
  by its timeout at the latest. Locks are not fair, hence strong fairness: with
  finitely many calls nobody else takes a lock again and again. No worker owes a
  reply.
- *Reader page*: requests that do not fail are answered and timers fire. No
  click and no export is owed. The document's steps need no fairness: their
  properties are invariants.
- *Web*: begun handlers go on, and so does the worker; the broker delivers. No
  user owes an action. `JobSettles` excuses dying tasks and a run that was
  never dispatched, for nothing in the code looks after them.

## 4. Where the code and its documents disagree

Each of these has a run that finds it.

1. **DELETE leaves a video behind** (`LipsyncServerDelete`).
   `inference_server.py:23` promises to discard a job "and its output"; the path
   is not in the entry before the job is done, and the thread goes on.
   Cancelling first, as the client does after a stop, avoids it; a client whose
   polls failed deletes without cancelling.
2. **A slow GPU does time the client out** (`RemoteLipsyncSlowGpu`), against
   `remote_gpu.py:154-155`: an `/align` or `/transcribe` waiting for the GPU
   blocks the event loop that should answer the polls.
3. **Changed content is not invalidated** (`LipsyncPipelineContent`), against
   `docs/reference/core/tracker.md:11`: words and videos are looked up by number.
   Reader and MP4 chunk a document differently, so an MP4 export after a reader
   job can meet it.
4. **A presenter that covers some pages is reused** (`LipsyncPipelinePresenter`),
   against the comment at `pipelines/lipsync.py:478`.
5. **Exports are not independent** (`WebJobsExports`), against
   `docs/reference/web/backend/pipeline-tasks.md:83-84`: each writes the whole
   `config_json` from a stale copy.

Two more are stated as conditions of properties that hold, without a run of their own:

- *The note for a block of code lights up boxes*, against
  `docs/reference/core/word-matcher.md:67` ("No PDF match"): "See code example." is
  matched like any other words, with whatever the next 30 printed words begin or end
  with, and a whole match moves the cursor there. Such a word is not `Harmless`.
- *DELETE leaves an export behind*, against
  `docs/reference/web/backend/storage-service.md:32` ("all stored artefacts"): an
  export of a completed job is not revoked (`routers/jobs.py:200`) and writes and
  uploads its file after the job's files were deleted. Such an export is `surviving`.

## 5. Proofs

`LipsyncServer_proofs`, from `ServerAssumption` (job, batch and alignment names
are distinct, and none is "free"), for any sets of them and any number of
restarts:

- `TypeCorrect`: `TypeOK` is inductive on its own.
- `JobInvariance`: `JobInv` ties the status, path, files, download and DELETE of
  a job to its thread's program counter. A job is queued, or cancelled, before
  the check; running between the check and the record; done only after it, and
  then its path is set; its output exists while and after it is generated; a
  DELETE under way means that the job is not registered. `NothingLeftOver` and
  `DoneIsAvailable` follow from it. They are not inductive themselves: they speak
  of the thread's last step and of the status alone, and say nothing of how a
  thread gets there.
- `FinalStatusStays`: with `JobInv`, a step that sets the status finds it in none
  of the final ones, or sets the one it has (a thread that finds its job
  cancelled). `CancellationWins`: only the record step sets "done", and it looks
  at the flag under the registry lock; no invariant but `TypeOK` is needed.
- `GpuExclusion` from `GpuInvariance`: `GpuInv` says of each job and each phase
  that it is in its critical section exactly if the lock names it, which
  `GpuExclusive` says only of all of them together. `VramHandedOff` is inductive
  relative to it: the batcher, which alone loads the model, has the lock then,
  so nobody is generating.

`RemoteLipsync_proofs`, from `ClientAssumption` as well:

- `ServerWithClients`: every step of the composition is a step of the server or
  leaves it alone, so all of the above holds with clients, losses and deaths.
- `CallsInvariance`: `CallsInv` relates the outcome of a call to its job, e.g.
  the client holds a video only of a job that is done, and an outcome exactly
  from its DELETE on. `ClientTypesCorrect` follows.
- `PromiseKeptSafely`: initial states and steps of the composition map to those
  of `LipsyncCall` under the mapping of `KeepsPromise`.

- `FailuresAreReal` and `NothingIsLeft` from `QuietInvariance`. What they conclude
  is about calls that have returned. `QuietInv` says of every point of a call
  without faults that its job is registered from the submission to the DELETE, is
  cancelled only if the client asked for it, and that what the client was last
  told is true. The DELETE therefore meets only a job that is done, failed or
  can no longer be done, which is why no file outlives it. "Without faults" is
  part of the statement: with a lost message or a blocked event loop it is false,
  which `RemoteLipsyncSlowGpu` shows.

`Batcher_proofs`, from `BatcherAssumption` (voices are given, `None` and `Error`
are no clips, a batch holds at least one):

- `BatcherInvariance`: where the first unresolved request of the batch is at each
  point of the worker, that only submitted requests are queued, batched or
  answered, and that a batch fits. `TypeCorrect`, `OneVoicePerCall` and
  `LockedCalls` follow.
- `BatchingIsInvisible`: the queue of `SynthesisService` is what is unresolved of
  the batch, then what waits behind it. Collecting, preparing and running are
  stutters, resolving a future takes the head. A batch that took requests out of
  turn, or resolved them by another index, would be no stutter or no such step.

`LipsyncPipeline_proofs`, from `PipelineAssumption`:

- `RunInvariance`: of a run of any request, over whatever earlier runs left, the
  i-th page is that of chunk i, and so is the i-th clip while no page has failed;
  while the run speaks, every chunk is spoken, failed or still to come, and
  afterwards all of them are spoken. `ClipsStayInStep`, and with
  `Delivery` also `OutputIsWhole`, follow from it. No assumption on the content is
  needed.
- `TruthInvariance`: if all requests have one content (`OneContent`), every entry of
  the tracker and every file is of the text of its own chunk, and a failed chunk has
  no entry that says it was spoken. `TrackerIsTruthful`, `EveryChunkIsSpoken`,
  `RerunsRetry` and `OutputIsOfOneText` follow. The assumption cannot be dropped:
  finding 3 is the counterexample, and a run of other content that dies between
  writing an audio file and recording its hash leaves the new audio under the old
  hash.

`LatentSyncSessions_proofs`, from `SessionsAssumption`: `TalkInvariance` says who
holds a session's run lock, that a worker belongs to one session, that a worker
which nobody reads from owes no reply, and that the one being read from has the
request of its reader, or its answer. `OwnReply` (`RepliesAreOwn`) is not inductive
without the others, since a reply that was left in the pipe would be read by the
next caller. `WorkersAreKnown` comes from the parts about processes,
`WorkersAreKept` from those about locks.

`WebJobs_proofs`, from `WebAssumption`: `KeptInvariance` says that everything that
may still be written into the row (the row itself, the worker's copy, the copy of
each export handler) promises only files that exist; `DownloadsExist` speaks of
the row alone, which a stale copy may replace at any time. `EventsAreTrue` needs
`RunInvariance`: as long as no task died the run task is in one place, so that no
second delivery can change a row whose event is out.

`TextPreparation_proofs`, from `TextAssumption` (the limits are in the order of the
constants of the code), about pure functions of texts of any length: `PagedChunksOf`
and `PlainChunksOf` say that the chunks of any document under any limit say each
printed word once and in order, that each has pages, those of its words and no others,
and that `validate_chunk` accepts each one without a word as long as a sentence. The
argument follows the code: every step of a loop keeps what its accumulator says
(`BreakStep`, `CutStep`, `PackStep`, `ChunkStep`). For the limits that is not
enough by itself: a piece that `_split_long_sentence` checks against `LongSentence`
may get one byte more afterwards, its full stop (`Short`), and `validate_chunk` cuts
the joined sentences apart again and counts one byte more for each run. `Light`
carries this bound through the joining and the cutting; it is why the assumption
asks for two bytes between the two limits (the code has fifty).

The folds of the community modules are defined by recursive functions, and the
induction theorems of the library cannot be instantiated, so that induction over
sequences is done by hand, once: `SequenceInduction` speaks of a set of sequences
instead of a predicate, and a fold is shown to have the table of its partial outcomes
as its recursive function, which gives the two equations that all later lemmas use
(`FlattenAppend`, `SpokenOf`, ...).

`ReaderDelivery_proofs`, from `StorageAssumption`, `DeliveryAssumption` (a document is
pages of printed words, and words are made of letters),
`TextAssumption`, `MatchingAssumption`, `LayoutAssumption` (a font has a width for every
word, a height of lines and a margin) and `PictureAssumption` (videos, clips and pages
have a size, and every word that can be heard has a width):

- `DeletionIsFinal` (once files were deleted, nothing is stored, no request brings
  anything back, and an export can do so only if it was at work then or found the row
  before that was deleted too: `Gone` says that such a one is `surviving`, of any step
  of it, which `DeletedIsGone` needs and does not say) and `DownloadsAreWhole` (while
  the API has not died in a copy, no copy is torn, and the archive lasts as long as
  the row offers it).
- `PresenterIsApart`, which is integer arithmetic: for every frame of at least 170 by
  34 pixels, every clip, size and position, the presenter and the pane lie in the
  frame and do not meet. In a narrower one a presenter of nine tenths leaves no room
  for a margin of 16 and a pane.
- `PresenterIsClear`, the whole of `PresenterClear`, for frames that also have two
  lines of text in them (`Roomy`; with a pane lower than a line nothing can be in
  sight). `PaneHasRoom`: the pane has room for a line in every layout, so that the rest
  is about any pane. `PaneHasHalf`: up to the offered scale it has half of the frame.
  In plain text the loop of `layout_words` puts each word on the line
  of the one before or on the next, and within the width if it fits beside a margin
  (`LayoutStepOf`), and the scrolling puts the line of
  the spoken word in the middle, or leaves it where it is near the top
  (`ScrolledIntoSight`). On a page, what is fitted to the pane lies in it
  (`FittedInside`), and so does what lay in the page before (`ScaledTogether`); a box is
  on its own page (`PlacedInPane`), which is the one that is shown for its word
  (`ShownIsOwn`).
- `TypeCorrect`, `TextIsSpoken` and `ChunksAreAccepted` from `StagedInvariant`: at each
  stage `request`, `chunks` and `aligned` are what the stages before made. None of the
  three is inductive by itself, since it says nothing of the stage that comes before.
- `HighlightNeverAhead`. What is spoken has its printed words in their order
  (`InOrder`). What the aligner makes of it is *within* what is spoken (`Within`: each
  word it wrote down has the place of a spoken one, in their order, whatever it wrote),
  chunk by chunk and so for the whole (`WithinPieces`), and what is within words in
  order is in order. `MatchedBehind` is the invariant of the matcher's loop: as long as
  the words were harmless (`HarmlessUpTo`), the boxes are not ahead, and the cursor is
  behind the next word that was heard (`Behind`). That boxes are not ahead is not
  enough for the next step, which depends on the cursor: a word of which more is heard
  must leave the cursor behind its print, and one that matches nothing may move it by
  one only because the next word is of a later print. `MatchedOnTime` is about words
  that are heard as they are printed. Nothing limits how many words are missed or
  taken for others, or how many chunks failed.
- `AllReadersAgree`. Three parts meet in it. The *searches*: words are spoken in turn,
  one ending before or when the next begins (`InTurn`), so that at the time of a word
  (`Speaking`) it is spoken alone or together with a neighbour that it meets
  (`SpokenAt`). A loop that halves its range exists as a function because the range
  gets shorter (`SearchExists`), and finds what every place it can come to leads to
  (`Leads`, `SearchFinds`); for either reader these are the ranges that contain a
  spoken word, or have passed it as their best, and what is found is one of the words
  spoken then: where two meet, the readers may mark different ones. The *clocks*:
  `_concatenate_chunks` gives each chunk an offset no earlier than the end of the one
  before (`OffsetsOf`), a chunk's words lie within its audio (`AlignedOf`), and so the
  words that are spoken in a chunk, and no others, are spoken in the joined audio
  (`JoinedSpeaking`). The *order*: the offline reader and the EPUB sort chunks into
  pages by the page each begins on. `GroupedCounts` says that this changes nothing
  where those pages never fall, and `FirstPagesRise` that they never do: the chunks
  say the document in order, and the first page of a chunk is the least page of its
  words. This is where the theorems about the text are needed by the readers.

Only model-checked is all liveness: `JobSettles`, `RunsEnd`, `WorkersEnd`,
`PageLearnsExport`, and the fairness of `LipsyncCall` and `SynthesisService`.

Liveness under fairness, ENABLED, induction theorems with an operator parameter and
RECURSIVE operators are out of the prover's reach.

## 6. What is not modelled

- Rendering, templates, audio and video codecs, model inference, HTTP and JSON
  encoding, logging, progress percentages: no property is about them.
- Reading documents, the command line and `doctor`: sequential, without state.
- The visualization pipeline and its scene generation: one subprocess or model
  call per scene, and no state but files. The audio pipeline ends after the shared
  steps with a join of the files it finds; its hazard is listed.
- The event stream: no page of the frontend subscribes to it.
- The readers with a Markdown source, which draw the words of the source and not
  those of the manifest.
- Voices, presets and uploads: single rows with one file each.
- The rewriting of symbols and numbers in `preprocess_text`, and the full stops that
  it leaves standing alone for a bullet or a comment, which are no words. What it drops,
  splits and inserts is modelled by what a printed word is `said` as; which words those
  are is left to the documents.
- Timings that overlap: words are taken to be heard one after the other.

Under "hazards", `PROJECT.json` gives a note for every hazard that no property
covers.

## 7. Plan

Done, in this order: `LipsyncServer` and its proofs; `LipsyncCall` and
`RemoteLipsync` and theirs; `SynthesisService` and `Batcher`; `LipsyncPipeline`;
`LatentSyncSessions`; `WebJobs`; `TextPreparation`, `WordMatching`, `ReaderBook`,
`PageLayout`, `JobStorage` and `ReaderPage`, composed in `ReaderDelivery`; proofs
of the safety of all of them. Every invariant that a
passing run checks is also a theorem.

Next, if the code moves there:

1. `WebJobs` with `LipsyncPipeline`: which pages a second delivery renders when a
   stop flag was set after the first one cleared it, and a deletion of a running job
   that races with the worker's writes (that of a completed one with its export is in
   `JobStorage`).
2. The audio and visualization pipelines on the shared steps, with the join over
   a directory's leftovers.
3. The readers with a Markdown source.
4. Storage listings of more than one page.
