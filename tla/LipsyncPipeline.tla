--------------------------- MODULE LipsyncPipeline ---------------------------
(***************************************************************************)
(* Resumable lip-sync runs over one output directory: the pipeline         *)
(* (screencastgen/pipelines/lipsync.py), the steps it shares with the      *)
(* other pipelines (pipelines/common.py) and the ProcessingTracker         *)
(* (tracker.py) that processing_status.json persists.                      *)
(*                                                                         *)
(* A run is given a list of chunks: what its document, chunked the way its *)
(* output format wants, comes to.  Runs follow one another; each one may   *)
(* fail, be stopped early by the user or die at any point, and the next    *)
(* one resumes from the directory.  A file is represented by the texts     *)
(* that are heard or seen in it.                                           *)
(***************************************************************************)
EXTENDS Naturals, Sequences, FiniteSets

CONSTANTS
    Texts,      \* chunk texts; a text stands for its MD5 hash too
    None,       \* no entry, no file
    Requests,   \* runs that may be asked for: [fmt, chunks]
    MaxChunks,  \* length of the longest chunk list
    MaxRuns,    \* bound on the number of runs
    MaxTorn     \* bound on the number of deaths in the middle of save()

Formats == {"reader", "epub", "mp4"}
Nums    == 1..MaxChunks
Clips   == UNION {[1..n -> Texts \cup {None}] : n \in 0..MaxChunks}

ASSUME PipelineAssumption ==
    /\ None \notin Texts
    /\ MaxChunks \in Nat \ {0}
    /\ Requests \subseteq [fmt : Formats, chunks : Seq(Texts)]
    /\ \A r \in Requests : Len(r.chunks) \in Nums
    /\ MaxRuns \in Nat
    /\ MaxTorn \in Nat

VARIABLES
    \* on disk
    statusFile,  \* processing_status.json: "ok" or "corrupt"
    hash,        \* processed_chunks: the text each number was spoken for
    failed,      \* failed_chunks
    alignment,   \* aligned_chunks: the text the words were aligned with
    video,       \* video_chunks
    built,       \* which of presenter_built and epub_built are set
    audio,       \* audio_chunk_NNN: the text heard in it
    clip,        \* video_chunk_NNN.mp4: the text its face speaks
    presenter,   \* presenter.mp4: the texts its face speaks
    epub,        \* the EPUB in the directory
    \* of the run
    pc, request,
    todo,        \* chunks_to_process
    spoken,      \* those whose audio is written and not marked yet
    troubled,    \* chunks this run marked as failed
    at,          \* loop index of the alignment and render loops
    pages,       \* aligned_chunks: [num, words]
    clips,       \* lipsync_clips, by number
    lipsyncFailed, stoppedEarly,
    \* around it
    stopAsked,   \* reporter.cancelled()
    output,      \* what the last run that exited with 0 delivered
    runs, torn

tracker  == <<statusFile, hash, failed, alignment, video, built>>
files    == <<audio, clip, presenter, epub>>
chunking == <<todo, spoken, troubled>>
loops    == <<at, pages, clips, lipsyncFailed, stoppedEarly>>
around   == <<stopAsked, output, runs, torn>>
vars     == <<tracker, files, pc, request, chunking, loops, around>>

NoRequest == [fmt |-> "reader", chunks |-> <<>>]
NoOutput  == [fmt |-> "reader", early |-> FALSE, asked |-> <<>>,
              chunks |-> <<>>, words |-> <<>>, faces |-> <<>>]
NoFile    == <<>>

Chunks == request.chunks

TypeOK ==
    /\ statusFile \in {"ok", "corrupt"}
    /\ hash \in [Nums -> Texts \cup {None}]
    /\ failed \in SUBSET Nums
    /\ alignment \in [Nums -> Texts \cup {None}]
    /\ video \in SUBSET Nums
    /\ built \in SUBSET {"presenter", "epub"}
    /\ audio \in [Nums -> Texts \cup {None}]
    /\ clip \in [Nums -> Texts \cup {None}]
    /\ presenter \in Clips
    /\ pc \in {"idle", "validate", "synthesize", "align", "render", "rendered",
               "build", "presenter", "assemble"}
    /\ request \in Requests \cup {NoRequest}
    /\ todo \in SUBSET Nums
    /\ spoken \in SUBSET todo
    /\ at \in 1..MaxChunks + 1
    /\ pages \in Seq([num : Nums, words : Texts \cup {None}])
    /\ clips \in Seq(Nums)
    /\ stopAsked \in BOOLEAN
    /\ runs \in 0..MaxRuns
    /\ torn \in 0..MaxTorn

FreshTracker ==
    /\ statusFile' = "ok"
    /\ hash' = [n \in Nums |-> None]
    /\ failed' = {}
    /\ alignment' = [n \in Nums |-> None]
    /\ video' = {}
    /\ built' = {}

FreshRun ==
    /\ todo' = {}
    /\ spoken' = {}
    /\ troubled' = {}
    /\ at' = 1
    /\ pages' = <<>>
    /\ clips' = <<>>
    /\ lipsyncFailed' = FALSE
    /\ stoppedEarly' = FALSE

Init ==
    /\ statusFile = "ok"
    /\ hash = [n \in Nums |-> None]
    /\ failed = {}
    /\ alignment = [n \in Nums |-> None]
    /\ video = {}
    /\ built = {}
    /\ audio = [n \in Nums |-> None]
    /\ clip = [n \in Nums |-> None]
    /\ presenter = NoFile
    /\ epub = NoOutput
    /\ pc = "idle"
    /\ request = NoRequest
    /\ todo = {}
    /\ spoken = {}
    /\ troubled = {}
    /\ at = 1
    /\ pages = <<>>
    /\ clips = <<>>
    /\ lipsyncFailed = FALSE
    /\ stoppedEarly = FALSE
    /\ stopAsked = FALSE
    /\ output = NoOutput
    /\ runs = 0
    /\ torn = 0

-----------------------------------------------------------------------------
(* The start and the ends of a run.                                        *)

(* prepare_tracker: --clean removes the status file and nothing else; a    *)
(* corrupt one makes ProcessingTracker raise.                              *)
Start(r, clean) ==
    /\ pc = "idle"
    /\ runs < MaxRuns
    /\ clean \/ statusFile = "ok"
    /\ runs' = runs + 1
    /\ request' = r
    /\ pc' = "validate"
    /\ FreshRun
    /\ IF clean THEN FreshTracker ELSE UNCHANGED tracker
    /\ UNCHANGED <<files, stopAsked, output, torn>>

(* The web worker clears the stop request when a run has ended.            *)
End ==
    /\ pc' = "idle"
    /\ request' = NoRequest
    /\ FreshRun
    /\ stopAsked' = FALSE

(* PipelineRunResult(exit_code=1).                                         *)
Abandon == End /\ UNCHANGED <<tracker, files, output, runs, torn>>

(* PipelineRunResult(exit_code=0).                                         *)
Deliver(out) == End /\ output' = out /\ UNCHANGED <<runs, torn>>

AskStop ==
    /\ pc # "idle"
    /\ ~stopAsked
    /\ stopAsked' = TRUE
    /\ UNCHANGED <<tracker, files, pc, request, chunking, loops, output, runs, torn>>

(* The run dies.  Its stop request outlives it.                            *)
Die ==
    /\ pc # "idle"
    /\ pc' = "idle"
    /\ request' = NoRequest
    /\ FreshRun
    /\ UNCHANGED <<files, stopAsked, output, runs>>

Crash == Die /\ UNCHANGED <<tracker, torn>>

(* save() truncates the file before it writes: a death in between leaves   *)
(* an empty file, which _load takes for a fresh start, or half a document. *)
CrashInSave ==
    /\ pc \in {"validate", "synthesize", "align", "rendered", "presenter"}
    /\ torn < MaxTorn
    /\ torn' = torn + 1
    /\ Die
    /\ \/ FreshTracker
       \/ statusFile' = "corrupt" /\ UNCHANGED <<hash, failed, alignment, video, built>>

-----------------------------------------------------------------------------
(* Chunks to audio.                                                        *)

(* validate_and_collect: a chunk spoken before is skipped, one the         *)
(* backend's limits refuse is marked as failed.                            *)
Validate ==
    /\ pc = "validate"
    /\ \E bad \in SUBSET {n \in DOMAIN Chunks : hash[n] # Chunks[n]} :
        /\ failed' = failed \cup bad
        /\ troubled' = bad
        /\ todo' = {n \in DOMAIN Chunks : hash[n] # Chunks[n]} \ bad
    /\ pc' = "synthesize"
    /\ UNCHANGED <<statusFile, hash, alignment, video, built, files, request,
                   spoken, loops, around>>

(* synthesize_chunks, several at a time in any order: the backend writes   *)
(* the file, then state_lock is taken and the tracker saved.               *)
Speak(n) ==
    /\ pc = "synthesize"
    /\ n \in todo \ spoken
    /\ audio' = [audio EXCEPT ![n] = Chunks[n]]
    /\ spoken' = spoken \cup {n}
    /\ UNCHANGED <<tracker, clip, presenter, epub, pc, request, todo, troubled,
                   loops, around>>

(* Not the code: a success does not clear an earlier failure.              *)
MarkProcessedOnly(n) ==
    /\ pc = "synthesize"
    /\ n \in spoken
    /\ hash' = [hash EXCEPT ![n] = Chunks[n]]
    /\ todo' = todo \ {n}
    /\ spoken' = spoken \ {n}
    /\ UNCHANGED <<statusFile, failed, alignment, video, built, files, pc, request,
                   troubled, loops, around>>

(* Not the code: the chunk stays on the list of those to be marked.        *)
MarkProcessedForgetful(n) ==
    /\ pc = "synthesize"
    /\ n \in spoken
    /\ hash' = [hash EXCEPT ![n] = Chunks[n]]
    /\ failed' = failed \ {n}
    /\ todo' = todo \ {n}
    /\ UNCHANGED <<statusFile, alignment, video, built, files, pc, request, spoken,
                   troubled, loops, around>>

MarkProcessed(n) ==
    /\ pc = "synthesize"
    /\ n \in spoken
    /\ hash' = [hash EXCEPT ![n] = Chunks[n]]
    /\ failed' = failed \ {n}
    /\ todo' = todo \ {n}
    /\ spoken' = spoken \ {n}
    /\ UNCHANGED <<statusFile, alignment, video, built, files, pc, request,
                   troubled, loops, around>>

MarkFailed(n) ==
    /\ pc = "synthesize"
    /\ n \in todo \ spoken
    /\ failed' = failed \cup {n}
    /\ troubled' = troubled \cup {n}
    /\ todo' = todo \ {n}
    /\ UNCHANGED <<statusFile, hash, alignment, video, built, files, pc, request,
                   spoken, loops, around>>

(* Not the code: failed chunks do not end the run.                         *)
SynthesizedIgnoringFailures ==
    /\ pc = "synthesize"
    /\ todo = {}
    /\ pc' = "align"
    /\ UNCHANGED <<tracker, files, request, chunking, loops, around>>

(* Not the code: the pool waits until every chunk has succeeded.           *)
SynthesizedWaiting ==
    /\ pc = "synthesize"
    /\ todo = {}
    /\ failed = {}
    /\ pc' = "align"
    /\ UNCHANGED <<tracker, files, request, chunking, loops, around>>

(* has_failed_chunks looks at every entry, of this run or not.             *)
Synthesized ==
    /\ pc = "synthesize"
    /\ todo = {}
    /\ IF failed # {}
       THEN Abandon
       ELSE /\ pc' = "align"
            /\ UNCHANGED <<tracker, files, request, chunking, loops, around>>

-----------------------------------------------------------------------------
(* align_chunks.                                                           *)

Aligned(words) ==
    /\ pages' = Append(pages, [num |-> at, words |-> words])
    /\ at' = at + 1

(* A chunk that was not spoken is passed over.  The words are cached by    *)
(* number alone; an aligner that raises leaves the chunk without words and *)
(* without an entry.                                                       *)
AlignChunk ==
    /\ pc = "align"
    /\ at <= Len(Chunks)
    /\ IF hash[at] # Chunks[at]
       THEN at' = at + 1 /\ UNCHANGED <<alignment, pages>>
       ELSE IF alignment[at] # None
       THEN Aligned(alignment[at]) /\ UNCHANGED alignment
       ELSE \/ /\ Aligned(Chunks[at])
               /\ alignment' = [alignment EXCEPT ![at] = Chunks[at]]
            \/ Aligned(None) /\ UNCHANGED alignment
    /\ UNCHANGED <<statusFile, hash, failed, video, built, files, pc, request,
                   chunking, clips, lipsyncFailed, stoppedEarly, around>>

AlignmentOver ==
    /\ pc = "align"
    /\ at > Len(Chunks)
    /\ IF pages = <<>>
       THEN Abandon
       ELSE /\ pc' = "render"
            /\ at' = 1
            /\ UNCHANGED <<tracker, files, request, chunking, pages, clips,
                           lipsyncFailed, stoppedEarly, around>>

-----------------------------------------------------------------------------
(* The render loop.                                                        *)

Page == pages[at].num

RenderCached ==
    /\ pc = "render"
    /\ at <= Len(pages)
    /\ Page \in video
    /\ clips' = Append(clips, Page)
    /\ at' = at + 1
    /\ UNCHANGED <<tracker, files, pc, request, chunking, pages, lipsyncFailed,
                   stoppedEarly, around>>

(* The generator reads the page's audio and writes the clip ...            *)
RenderPage ==
    /\ pc = "render"
    /\ at <= Len(pages)
    /\ Page \notin video
    /\ ~stopAsked
    /\ clip' = [clip EXCEPT ![Page] = audio[Page]]
    /\ pc' = "rendered"
    /\ UNCHANGED <<tracker, audio, presenter, epub, request, chunking, loops, around>>

(* ... mark_video_rendered.                                                *)
MarkRendered ==
    /\ pc = "rendered"
    /\ video' = video \cup {Page}
    /\ clips' = Append(clips, Page)
    /\ at' = at + 1
    /\ pc' = "render"
    /\ UNCHANGED <<statusFile, hash, failed, alignment, built, files, request,
                   chunking, pages, lipsyncFailed, stoppedEarly, around>>

(* Not the code: the page is entered whether or not it could be rendered.  *)
RenderFailsEntered ==
    /\ pc = "render"
    /\ at <= Len(pages)
    /\ Page \notin video
    /\ ~stopAsked
    /\ video' = video \cup {Page}
    /\ lipsyncFailed' = TRUE
    /\ at' = at + 1
    /\ UNCHANGED <<statusFile, hash, failed, alignment, built, files, pc, request,
                   chunking, pages, clips, stoppedEarly, around>>

(* A page that raises is passed over and fails the run in the end.         *)
RenderFails ==
    /\ pc = "render"
    /\ at <= Len(pages)
    /\ Page \notin video
    /\ ~stopAsked
    /\ lipsyncFailed' = TRUE
    /\ at' = at + 1
    /\ UNCHANGED <<tracker, files, pc, request, chunking, pages, clips, stoppedEarly,
                   around>>

(* Not the code: a stop skips this page and goes on with the next.         *)
StopSkipsPage ==
    /\ pc = "render"
    /\ at <= Len(pages)
    /\ Page \notin video
    /\ stopAsked
    /\ stoppedEarly' = TRUE
    /\ at' = at + 1
    /\ UNCHANGED <<tracker, files, pc, request, chunking, pages, clips, lipsyncFailed,
                   around>>

(* A stop before the page, or LipsyncCancelled while it is generated: the  *)
(* rest of the document is left.                                           *)
StopRendering ==
    /\ pc = "render"
    /\ at <= Len(pages)
    /\ Page \notin video
    /\ stopAsked
    /\ stoppedEarly' = TRUE
    /\ at' = Len(pages) + 1
    /\ UNCHANGED <<tracker, files, pc, request, chunking, pages, clips, lipsyncFailed,
                   around>>

RenderingOver ==
    /\ pc = "render"
    /\ at > Len(pages)
    /\ IF lipsyncFailed \/ clips = <<>>
       THEN Abandon
       ELSE /\ pc' = "build"
            /\ UNCHANGED <<tracker, files, request, chunking, loops, around>>

-----------------------------------------------------------------------------
(* Building the output.                                                    *)

(* Not the code: the text of every page, however many have a clip.         *)
BuiltAllPages == pages

(* built_chunks: on an early stop, as many pages as there are clips.       *)
BuiltPages == IF stoppedEarly THEN SubSeq(pages, 1, Len(clips)) ELSE pages

(* zip(built_chunks, lipsync_clips).                                       *)
Faces ==
    LET n == IF Len(clips) < Len(BuiltPages) THEN Len(clips) ELSE Len(BuiltPages)
    IN [i \in 1..n |-> clip[clips[i]]]

Output(faces) ==
    [fmt    |-> request.fmt,
     early  |-> stoppedEarly,
     asked  |-> Chunks,
     chunks |-> [i \in 1..Len(BuiltPages) |-> Chunks[BuiltPages[i].num]],
     words  |-> [i \in 1..Len(BuiltPages) |-> BuiltPages[i].words],
     faces  |-> faces]

(* An EPUB built before is delivered as it is.                             *)
BuildEpub ==
    /\ pc = "build"
    /\ request.fmt = "epub"
    /\ IF "epub" \in built
       THEN /\ Deliver(epub)
            /\ UNCHANGED <<tracker, files>>
       ELSE /\ Deliver(Output(<<>>))
            /\ epub' = Output(<<>>)
            /\ built' = built \cup {"epub"}
            /\ UNCHANGED <<statusFile, hash, failed, alignment, video, audio, clip,
                           presenter>>

BuildMp4 ==
    /\ pc = "build"
    /\ request.fmt = "mp4"
    /\ Deliver(Output(Faces))
    /\ UNCHANGED <<tracker, files>>

(* A presenter built before is used again unless this run stopped early.   *)
PresenterReusable == "presenter" \in built /\ ~stoppedEarly

ReusePresenter ==
    /\ pc = "build"
    /\ request.fmt = "reader"
    /\ PresenterReusable
    /\ pc' = "assemble"
    /\ UNCHANGED <<tracker, files, request, chunking, loops, around>>

BuildPresenter ==
    /\ pc = "build"
    /\ request.fmt = "reader"
    /\ ~PresenterReusable
    /\ presenter' = Faces
    /\ pc' = "presenter"
    /\ UNCHANGED <<tracker, audio, clip, epub, request, chunking, loops, around>>

MarkPresenter ==
    /\ pc = "presenter"
    /\ built' = built \cup {"presenter"}
    /\ pc' = "assemble"
    /\ UNCHANGED <<statusFile, hash, failed, alignment, video, files, request,
                   chunking, loops, around>>

AssembleReader ==
    /\ pc = "assemble"
    /\ Deliver(Output(presenter))
    /\ UNCHANGED <<tracker, files>>

-----------------------------------------------------------------------------
Synthesis ==
    \/ Validate
    \/ \E n \in Nums : Speak(n) \/ MarkProcessed(n) \/ MarkFailed(n)
    \/ Synthesized

Rendering ==
    \/ AlignChunk \/ AlignmentOver
    \/ RenderCached \/ RenderPage \/ MarkRendered \/ RenderFails
    \/ StopRendering \/ RenderingOver

Building ==
    \/ BuildEpub \/ BuildMp4
    \/ ReusePresenter \/ BuildPresenter \/ MarkPresenter \/ AssembleReader

Next ==
    \/ \E r \in Requests, clean \in BOOLEAN : Start(r, clean)
    \/ Synthesis
    \/ Rendering
    \/ Building
    \/ AskStop
    \/ Crash
    \/ CrashInSave

Spec == Init /\ [][Next]_vars

(* A run that has started goes on until it ends or dies.                   *)
FairSpec == Spec /\ WF_vars(Synthesis \/ Rendering \/ Building)

-----------------------------------------------------------------------------
(* Properties.  Those marked (one content) hold as long as all runs of a   *)
(* directory come to the same chunks.                                      *)

(* The processing_status.json that a run resumes from tells the truth      *)
(* about the files beside it, wherever an earlier run died or was stopped: *)
(* the audio is that of the hash, the words and the face are those of the  *)
(* audio (one content).                                                    *)
TrackerTruthful ==
    \A n \in Nums :
        /\ hash[n] # None => audio[n] = hash[n]
        /\ alignment[n] # None => alignment[n] = audio[n]
        /\ n \in video => clip[n] = audio[n]

(* A run that gets past synthesis has audio for every chunk of its own     *)
(* text, made now or resumed, so that align_chunks passes over none (one   *)
(* content).                                                               *)
AllSpoken ==
    pc \notin {"idle", "validate", "synthesize"} =>
        \A n \in DOMAIN Chunks : hash[n] = Chunks[n] /\ audio[n] = Chunks[n]

(* common.py:241, "Re-run the command to retry failed chunks": a run fails *)
(* over chunks only if it met trouble of its own (one content).            *)
RerunRetries == pc = "synthesize" /\ failed # {} /\ todo = {} => troubled # {}

(* lipsync.py:255-257, "the clips list and aligned_chunks stay             *)
(* index-aligned": what is built has the clip of its own page for every    *)
(* page, after any mix of cached, rendered, failed and stopped pages.      *)
ClipsInStep ==
    pc \in {"build", "presenter", "assemble"} =>
        /\ Len(clips) = Len(BuiltPages)
        /\ \A i \in DOMAIN clips : clips[i] = BuiltPages[i].num

(* What a run delivers never sets the words or the face of one text        *)
(* against another text (one content).                                     *)
OutputMatches ==
    /\ \A i \in DOMAIN output.words : output.words[i] \in {None, output.chunks[i]}
    /\ \A i \in DOMAIN output.faces \cap DOMAIN output.chunks :
        output.faces[i] = output.chunks[i]

(* A video or reader that was not stopped early has the whole document; a  *)
(* run that was stopped delivers a face for exactly the pages it delivers, *)
(* and an MP4 always does.                                                 *)
OutputWhole ==
    /\ output.fmt # "epub" /\ ~output.early => output.chunks = output.asked
    /\ output.fmt = "mp4" \/ (output.fmt = "reader" /\ output.early) =>
        Len(output.faces) = Len(output.chunks)

(* No run waits for ever, whatever its predecessors left behind.           *)
RunsEnd == pc # "idle" ~> pc = "idle"

(* tracker.md:11, "Chunks are keyed by chunk_number + MD5 hash, so content *)
(* changes invalidate stale entries".  Only processed_chunks are: words    *)
(* and videos are looked up by number, and a document chunked anew is set  *)
(* against those of its old chunks.                                        *)
ContentChangesInvalidate == OutputMatches

(* lipsync.py:478, "A cached presenter covers every page": of a reader     *)
(* that is not an early stop's.  One that an early stop built is cached    *)
(* all the same.                                                           *)
CachedPresenterCoversAll ==
    output.fmt = "reader" /\ ~output.early => Len(output.faces) = Len(output.chunks)
=============================================================================
