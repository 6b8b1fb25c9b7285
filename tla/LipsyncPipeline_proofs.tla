----------------------- MODULE LipsyncPipeline_proofs -----------------------
(***************************************************************************)
(* Proofs about resumable lip-sync runs, for any number of runs, requests, *)
(* chunks and deaths.                                                      *)
(***************************************************************************)
EXTENDS LipsyncPipeline, TLAPS

USE DEF Nums, Chunks

-----------------------------------------------------------------------------
(* One run: how far its loops are, and what they have collected.           *)

Speaking == {"idle", "validate", "synthesize"}
Making   == {"build", "presenter", "assemble"}

(* There is a request while there is a run.                                *)
Requested == IF pc = "idle" THEN request = NoRequest ELSE request \in Requests

(* What is left to speak; past synthesis every chunk is accounted for.     *)
Spoken ==
    /\ todo \subseteq DOMAIN Chunks
    /\ pc # "synthesize" => todo = {}
    /\ pc = "synthesize" => \A n \in DOMAIN Chunks :
          hash[n] = Chunks[n] \/ n \in todo \/ n \in failed
    /\ pc \notin Speaking => \A n \in DOMAIN Chunks : hash[n] = Chunks[n]

(* No chunk is passed over, so that the i-th page is chunk i.              *)
Paged ==
    /\ \A i \in DOMAIN pages : pages[i].num = i
    /\ pc \in Speaking => at = 1 /\ pages = <<>>
    /\ pc = "align" => at <= Len(Chunks) + 1 /\ Len(pages) = at - 1
    /\ pc \notin Speaking \cup {"align"} => Len(pages) = Len(Chunks)

(* As long as no page has failed, the i-th clip is that of page i, and     *)
(* every page up to the loop index or to the stop has one.                 *)
Clipped ==
    /\ pc \in Speaking \cup {"align"} => clips = <<>> /\ ~lipsyncFailed /\ ~stoppedEarly
    /\ pc \in {"render", "rendered"} =>
          /\ at <= Len(pages) + 1
          /\ Len(clips) <= at - 1
          /\ stoppedEarly => at = Len(pages) + 1
          /\ ~stoppedEarly /\ ~lipsyncFailed => Len(clips) = at - 1
    /\ pc = "rendered" => at <= Len(pages)
    /\ pc \in Making =>
          /\ ~lipsyncFailed
          /\ Len(clips) <= Len(pages)
          /\ ~stoppedEarly => Len(clips) = Len(pages)
    /\ ~lipsyncFailed => \A i \in DOMAIN clips : clips[i] = i

Flags == lipsyncFailed \in BOOLEAN /\ stoppedEarly \in BOOLEAN

RunInv == TypeOK /\ Flags /\ Requested /\ Spoken /\ Paged /\ Clipped

LEMMA ChunksAre ==
    ASSUME RunInv, pc # "idle"
    PROVE  /\ Chunks \in Seq(Texts)
           /\ Len(Chunks) \in 1..MaxChunks
           /\ request.fmt \in Formats
           /\ request \in Requests
  BY PipelineAssumption DEF RunInv, Requested

(* The end of a run, and the start of the next one, which begins with      *)
(* nothing collected.                                                      *)
Rest ==
    /\ FreshRun
    /\ UNCHANGED <<audio, clip, presenter>>
    /\ built' \subseteq built \cup {"epub"} /\ video' \subseteq video /\ failed' \subseteq failed
    /\ hash' \in {hash, [n \in Nums |-> None]}
    /\ alignment' \in {alignment, [n \in Nums |-> None]}
    /\ statusFile' \in {"ok", "corrupt"}
    /\ \/ pc' = "idle" /\ request' = NoRequest
       \/ pc' = "validate" /\ request' \in Requests
    /\ stopAsked' \in BOOLEAN /\ runs' \in 0..MaxRuns /\ torn' \in 0..MaxTorn

LEMMA RestStep ==
    ASSUME RunInv, Rest
    PROVE  RunInv'
<1> USE DEF Rest
<1>1. <<>> \in Seq(Nums) /\ <<>> \in Seq([num : Nums, words : Texts \cup {None}])
  OBVIOUS
<1>2. TypeOK'
  BY <1>1, PipelineAssumption DEF TypeOK, RunInv, FreshRun, FreshTracker, files, tracker
<1>3. Flags' /\ Requested' /\ Paged' /\ Clipped'
  <2>1. Flags' /\ Requested'
    BY DEF FreshRun, Flags, Requested
  <2>2. Paged'
    BY DEF FreshRun, Paged, Speaking
  <2>3. Clipped'
    BY DEF FreshRun, Clipped, Speaking, Making
  <2> QED BY <2>1, <2>2, <2>3
<1>4. Spoken'
  BY DEF FreshRun, Spoken, Speaking
<1> QED BY <1>2, <1>3, <1>4 DEF RunInv

LEMMA SynthesisStep ==
    ASSUME RunInv, Synthesis
    PROVE  RunInv'
<1> USE DEF RunInv, files, loops, around
<1>0. /\ Chunks \in Seq(Texts) /\ Len(Chunks) \in 1..MaxChunks /\ pc # "idle"
  BY ChunksAre DEF Synthesis, Validate, Speak, MarkProcessed, MarkFailed, Synthesized
<1>1. CASE Validate
  <2>1. TypeOK' /\ Flags'
    <3>3. DOMAIN Chunks \subseteq Nums
      BY ONLY <1>0, PipelineAssumption
    <3>4. todo = {}
      BY <1>1 DEF Validate, Spoken
    <3>1. spoken = {}
      BY <3>4 DEF TypeOK
    <3>2. todo' \in SUBSET Nums /\ failed' \in SUBSET Nums /\ spoken' = {}
      BY <1>1, <3>1, <3>3 DEF Validate, TypeOK
    <3> QED BY <1>1, <3>2 DEF Validate, TypeOK, Flags
  <2>2. Requested' /\ Paged' /\ Clipped'
    BY <1>1 DEF Validate, Requested, Paged, Clipped, Speaking, Making
  <2>3. Spoken'
    BY <1>1 DEF Validate, Spoken, Speaking
  <2> QED BY <2>1, <2>2, <2>3
<1>2. ASSUME NEW n \in Nums, Speak(n) PROVE RunInv'
  <2>0. Chunks[n] \in Texts
    BY <1>0, <1>2 DEF Speak, Spoken, TypeOK
  <2>1. TypeOK' /\ Flags'
    BY <2>0, <1>2 DEF Speak, TypeOK, Flags, tracker
  <2>2. Requested' /\ Paged' /\ Clipped'
    BY <1>2 DEF Speak, Requested, Paged, Clipped
  <2>3. Spoken'
    BY <1>2 DEF Speak, Spoken, tracker
  <2> QED BY <2>1, <2>2, <2>3
<1>3. ASSUME NEW n \in Nums, MarkProcessed(n) PROVE RunInv'
  <2>0. n \in DOMAIN Chunks /\ Chunks[n] \in Texts
    BY <1>0, <1>3 DEF MarkProcessed, Spoken, TypeOK
  <2>1. TypeOK' /\ Flags'
    BY <2>0, <1>3 DEF MarkProcessed, TypeOK, Flags
  <2>2. Requested' /\ Paged' /\ Clipped'
    BY <1>3 DEF MarkProcessed, Requested, Paged, Clipped
  <2>3. Spoken'
    BY <1>3 DEF MarkProcessed, Spoken, TypeOK, Speaking
  <2> QED BY <2>1, <2>2, <2>3
<1>4. ASSUME NEW n \in Nums, MarkFailed(n) PROVE RunInv'
  <2>1. TypeOK' /\ Flags'
    BY <1>4 DEF MarkFailed, TypeOK, Flags
  <2>2. Requested' /\ Paged' /\ Clipped'
    BY <1>4 DEF MarkFailed, Requested, Paged, Clipped
  <2>3. Spoken'
    BY <1>4 DEF MarkFailed, Spoken, Speaking
  <2> QED BY <2>1, <2>2, <2>3
<1>5. CASE Synthesized
  <2>1. CASE Abandon
    <3>1. Rest
      BY <2>1 DEF Abandon, End, Rest, TypeOK, tracker
    <3> HIDE DEF RunInv
    <3> QED BY <3>1, RestStep
  <2>2. CASE failed = {} /\ pc' = "align" /\ UNCHANGED <<tracker, files, request, chunking, loops, around>>
    <3>1. TypeOK' /\ Flags'
      BY <2>2 DEF TypeOK, Flags, tracker, chunking
    <3>2. Requested'
      BY <1>0, <2>2 DEF Requested
    <3>5. Clipped'
      BY <1>0, <1>5, <2>2 DEF Synthesized, Clipped, Speaking, Making
    <3>3. Paged'
      BY <1>0, <1>5, <2>2 DEF Synthesized, Paged, Speaking
    <3>4. Spoken'
      BY <1>5, <2>2 DEF Synthesized, Spoken, Speaking, tracker, chunking
    <3> QED BY <3>1, <3>2, <3>3, <3>4, <3>5
  <2> QED BY <1>5, <2>1, <2>2 DEF Synthesized
<1> QED BY <1>1, <1>2, <1>3, <1>4, <1>5 DEF Synthesis

(* align_chunks.                                                           *)
LEMMA AlignStep ==
    ASSUME RunInv, AlignChunk \/ AlignmentOver
    PROVE  RunInv'
<1> USE DEF RunInv
<1>0. /\ Chunks \in Seq(Texts) /\ Len(Chunks) \in 1..MaxChunks /\ pc = "align"
  BY ChunksAre DEF AlignChunk, AlignmentOver
<1>00. /\ at \in Nat \ {0} /\ at <= Len(Chunks) + 1 /\ Len(pages) = at - 1
       /\ pages \in Seq([num : Nums, words : Texts \cup {None}])
       /\ \A i \in DOMAIN pages : pages[i].num = i
       /\ MaxChunks \in Nat
  BY <1>0, PipelineAssumption DEF Paged, TypeOK
<1>1. CASE AlignChunk
  <2>1. at \in DOMAIN Chunks /\ at \in Nums /\ hash[at] = Chunks[at] /\ Chunks[at] \in Texts
    BY <1>0, <1>00, <1>1 DEF AlignChunk, Spoken, Speaking
  <2>2. PICK words \in Texts \cup {None} :
          /\ Aligned(words)
          /\ alignment' \in [Nums -> Texts \cup {None}]
    <3>1. CASE alignment[at] # None
      BY <1>1, <2>1, <3>1 DEF AlignChunk, TypeOK
    <3>2. CASE alignment[at] = None
      BY <1>1, <2>1, <3>2 DEF AlignChunk, TypeOK
    <3> QED BY <3>1, <3>2
  <2> DEFINE page == [num |-> at, words |-> words]
  <2>3. /\ pages' \in Seq([num : Nums, words : Texts \cup {None}])
        /\ Len(pages') = at
        /\ \A i \in DOMAIN pages' : pages'[i] = IF i = at THEN page ELSE pages[i]
    <3>1. page \in [num : Nums, words : Texts \cup {None}]
      BY <2>1
    <3> HIDE DEF page
    <3>2. pages' = Append(pages, page)
      BY <2>2 DEF Aligned, page
    <3> QED BY <1>00, <3>1, <3>2
  <2>4. at' = at + 1
    BY <2>2 DEF Aligned
  <2>5. UNCHANGED <<statusFile, hash, failed, video, built, files, pc, request, chunking,
                    clips, lipsyncFailed, stoppedEarly, around>>
    BY <1>1 DEF AlignChunk
  <2>6. TypeOK' /\ Flags'
    <3>1. at' \in 1..MaxChunks + 1
      BY <1>0, <1>00, <2>1, <2>4
    <3> QED BY <2>2, <2>3, <2>5, <3>1 DEF TypeOK, Flags, files, chunking, around
  <2>7. Requested' /\ Spoken'
    BY <1>0, <2>5 DEF Requested, Spoken, chunking
  <2>8. Paged'
    <3>1. \A i \in DOMAIN pages' : pages'[i].num = i
      <4> SUFFICES ASSUME NEW i \in DOMAIN pages' PROVE pages'[i].num = i
        OBVIOUS
      <4>1. CASE i = at
        BY <2>3, <4>1
      <4>2. CASE i # at
        <5>1. i \in DOMAIN pages
          BY <1>00, <2>3, <4>2
        <5> QED BY <1>00, <2>3, <4>2, <5>1
      <4> QED BY <4>1, <4>2
    <3> QED BY <1>0, <1>00, <2>1, <2>3, <2>4, <2>5, <3>1 DEF Paged, Speaking
  <2>9. Clipped'
    BY <1>0, <2>5 DEF Clipped, Speaking, Making
  <2> QED BY <2>6, <2>7, <2>8, <2>9
<1>2. CASE AlignmentOver
  <2>1. pages # <<>>
    BY <1>0, <1>00, <1>2 DEF AlignmentOver
  <2>2. /\ pc' = "render" /\ at' = 1 /\ Len(pages) = Len(Chunks)
        /\ UNCHANGED <<tracker, files, request, chunking, pages, clips, lipsyncFailed,
                       stoppedEarly, around>>
    BY <1>0, <1>00, <1>2, <2>1 DEF AlignmentOver
  <2>3. TypeOK' /\ Flags'
    BY <1>00, <2>2 DEF TypeOK, Flags, tracker, files, chunking, around
  <2>4. Requested' /\ Spoken'
    BY <1>0, <2>2 DEF Requested, Spoken, Speaking, tracker, chunking
  <2>5. Paged'
    BY <1>0, <1>00, <2>2 DEF Paged, Speaking
  <2>6. Clipped'
    BY <1>0, <1>00, <2>2 DEF Clipped, Speaking, Making
  <2> QED BY <2>3, <2>4, <2>5, <2>6
<1> QED BY <1>1, <1>2

(* The render loop enters a page's clip.                                   *)
LEMMA PageRendered ==
    ASSUME RunInv, pc \in {"render", "rendered"}, at <= Len(pages), ~stoppedEarly,
           clips' = Append(clips, Page), at' = at + 1, pc' = "render",
           UNCHANGED <<pages, lipsyncFailed, stoppedEarly>>
    PROVE  /\ Page = at /\ at \in Nums
           /\ clips' \in Seq(Nums)
           /\ at' \in 1..MaxChunks + 1
           /\ Clipped'
<1>1. /\ Len(pages) \in 1..MaxChunks /\ MaxChunks \in Nat
      /\ pages \in Seq([num : Nums, words : Texts \cup {None}])
      /\ clips \in Seq(Nums) /\ at \in Nat \ {0} /\ Len(clips) \in Nat
  BY ChunksAre, PipelineAssumption DEF RunInv, Paged, TypeOK, Speaking
<1>2. at \in DOMAIN pages /\ at \in Nums
  BY <1>1
<1>3. Page = at
  BY <1>2 DEF Page, RunInv, Paged
<1>4. clips' = Append(clips, at) /\ at \in Nums
  BY <1>2, <1>3
<1>5. /\ clips' \in Seq(Nums) /\ Len(clips') = Len(clips) + 1
      /\ \A i \in 1..Len(clips) : clips'[i] = clips[i]
      /\ clips'[Len(clips) + 1] = at
  BY <1>1, <1>4
<1>6. /\ Len(clips) <= at - 1
      /\ ~lipsyncFailed => Len(clips) = at - 1 /\ \A i \in 1..Len(clips) : clips[i] = i
  BY <1>1 DEF RunInv, Clipped
<1>7. ~lipsyncFailed => \A i \in DOMAIN clips' : clips'[i] = i
  <2> SUFFICES ASSUME ~lipsyncFailed, NEW i \in 1..Len(clips) + 1 PROVE clips'[i] = i
    BY <1>1, <1>5
  <2>1. CASE i \in 1..Len(clips)
    BY <1>5, <1>6, <2>1
  <2>2. CASE i = Len(clips) + 1
    BY <1>1, <1>5, <1>6, <2>2
  <2> QED BY <1>1, <2>1, <2>2
<1>8. Clipped'
  BY <1>1, <1>5, <1>6, <1>7 DEF Clipped, Speaking, Making
<1> QED BY <1>1, <1>2, <1>3, <1>5, <1>8

LEMMA RenderStep ==
    ASSUME RunInv,
           \/ RenderCached \/ RenderPage \/ MarkRendered \/ RenderFails
           \/ StopRendering \/ RenderingOver
    PROVE  RunInv'
<1> USE DEF RunInv
<1>0. /\ pc \in {"render", "rendered"}
      /\ Len(pages) = Len(Chunks) /\ Len(pages) \in 1..MaxChunks /\ MaxChunks \in Nat
      /\ pages \in Seq([num : Nums, words : Texts \cup {None}])
      /\ clips \in Seq(Nums) /\ Len(clips) \in Nat
      /\ at \in Nat \ {0} /\ at <= Len(pages) + 1
  <2>1. pc \in {"render", "rendered"}
    BY DEF RenderCached, RenderPage, MarkRendered, RenderFails, StopRendering, RenderingOver
  <2>2. Len(pages) = Len(Chunks) /\ at <= Len(pages) + 1
    BY <2>1 DEF Paged, Clipped, Speaking
  <2> QED BY <2>1, <2>2, ChunksAre, PipelineAssumption DEF TypeOK
<1>1. CASE RenderCached
  <2>1. /\ at <= Len(pages) /\ clips' = Append(clips, Page) /\ at' = at + 1
        /\ pc = "render"
        /\ UNCHANGED <<tracker, files, pc, request, chunking, pages, lipsyncFailed,
                       stoppedEarly, around>>
    BY <1>1 DEF RenderCached
  <2>2. ~stoppedEarly
    BY <1>0, <2>1 DEF Clipped
  <2>3. clips' \in Seq(Nums) /\ at' \in 1..MaxChunks + 1 /\ Clipped'
    BY <2>1, <2>2, PageRendered
  <2>4. TypeOK' /\ Flags'
    BY <2>1, <2>3 DEF TypeOK, Flags, tracker, files, chunking, around
  <2>5. Requested' /\ Spoken' /\ Paged'
    BY <2>1 DEF Requested, Spoken, Paged, Speaking, tracker, chunking
  <2> QED BY <2>3, <2>4, <2>5
<1>2. CASE RenderPage
  <2>1. /\ at <= Len(pages) /\ pc = "render" /\ pc' = "rendered"
        /\ clip' = [clip EXCEPT ![Page] = audio[Page]]
        /\ UNCHANGED <<tracker, audio, presenter, epub, request, chunking, loops, around>>
    BY <1>2 DEF RenderPage
  <2>0. at \in DOMAIN pages /\ at \in Nums
    BY <1>0, <2>1
  <2>2. Page \in Nums
    BY <2>0 DEF Page, Paged
  <2>3. clip' \in [Nums -> Texts \cup {None}]
    BY <2>1, <2>2 DEF TypeOK
  <2>4. TypeOK' /\ Flags'
    BY <2>1, <2>3 DEF TypeOK, Flags, tracker, files, chunking, loops, around
  <2>5. Requested' /\ Spoken' /\ Paged'
    BY <2>1 DEF Requested, Spoken, Paged, Speaking, tracker, chunking, loops
  <2>6. Clipped'
    BY <1>0, <2>1 DEF Clipped, Speaking, Making, loops
  <2> QED BY <2>4, <2>5, <2>6
<1>3. CASE MarkRendered
  <2>1. /\ clips' = Append(clips, Page) /\ at' = at + 1
        /\ pc = "rendered" /\ pc' = "render" /\ video' = video \cup {Page}
        /\ UNCHANGED <<statusFile, hash, failed, alignment, built, files, request,
                       chunking, pages, lipsyncFailed, stoppedEarly, around>>
    BY <1>3 DEF MarkRendered
  <2>2. at <= Len(pages) /\ ~stoppedEarly
    BY <1>0, <2>1 DEF Clipped
  <2>3. /\ clips' \in Seq(Nums) /\ at' \in 1..MaxChunks + 1 /\ Clipped'
        /\ Page \in Nums
    BY <2>1, <2>2, PageRendered
  <2>4. TypeOK' /\ Flags'
    BY <2>1, <2>3 DEF TypeOK, Flags, files, chunking, around
  <2>5. Requested' /\ Spoken' /\ Paged'
    BY <2>1 DEF Requested, Spoken, Paged, Speaking, chunking
  <2> QED BY <2>3, <2>4, <2>5
<1>4. CASE RenderFails
  <2>1. /\ at <= Len(pages) /\ at' = at + 1 /\ pc = "render" /\ lipsyncFailed' = TRUE
        /\ UNCHANGED <<tracker, files, pc, request, chunking, pages, clips, stoppedEarly,
                       around>>
    BY <1>4 DEF RenderFails
  <2>2. at' \in 1..MaxChunks + 1
    BY <1>0, <2>1
  <2>3. TypeOK' /\ Flags'
    BY <2>1, <2>2 DEF TypeOK, Flags, tracker, files, chunking, around
  <2>4. Requested' /\ Spoken' /\ Paged'
    BY <2>1 DEF Requested, Spoken, Paged, Speaking, tracker, chunking
  <2>5. Clipped'
    BY <1>0, <2>1 DEF Clipped, Speaking, Making
  <2> QED BY <2>3, <2>4, <2>5
<1>5. CASE StopRendering
  <2>1. /\ at <= Len(pages) /\ at' = Len(pages) + 1 /\ pc = "render" /\ stoppedEarly' = TRUE
        /\ UNCHANGED <<tracker, files, pc, request, chunking, pages, clips, lipsyncFailed,
                       around>>
    BY <1>5 DEF StopRendering
  <2>2. at' \in 1..MaxChunks + 1
    BY <1>0, <2>1
  <2>3. TypeOK' /\ Flags'
    BY <2>1, <2>2 DEF TypeOK, Flags, tracker, files, chunking, around
  <2>4. Requested' /\ Spoken' /\ Paged'
    BY <2>1 DEF Requested, Spoken, Paged, Speaking, tracker, chunking
  <2>5. Clipped'
    BY <1>0, <2>1 DEF Clipped, Speaking, Making
  <2> QED BY <2>3, <2>4, <2>5
<1>6. CASE RenderingOver
  <2>1. CASE Abandon
    <3>1. Rest
      BY <2>1 DEF Abandon, End, Rest, TypeOK, tracker, files
    <3> QED BY <3>1, RestStep
  <2>2. CASE /\ ~lipsyncFailed /\ pc' = "build"
             /\ UNCHANGED <<tracker, files, request, chunking, loops, around>>
    <3>1. TypeOK' /\ Flags'
      BY <2>2 DEF TypeOK, Flags, tracker, files, chunking, loops, around
    <3>2. Requested' /\ Spoken' /\ Paged'
      BY <1>0, <2>2 DEF Requested, Spoken, Paged, Speaking, tracker, chunking, loops
    <3>3. Clipped'
      BY <1>0, <1>6, <2>2 DEF RenderingOver, Clipped, Speaking, Making, loops
    <3> QED BY <3>1, <3>2, <3>3
  <2> QED BY <1>6, <2>1, <2>2 DEF RenderingOver
<1> QED BY <1>1, <1>2, <1>3, <1>4, <1>5, <1>6

(* What is built has as many pages as clips, whether the run was stopped   *)
(* or not.                                                                 *)
LEMMA BuiltPagesAre ==
    ASSUME RunInv, pc \in Making
    PROVE  /\ Len(clips) \in 0..MaxChunks /\ Len(clips) \in Nat
           /\ DOMAIN BuiltPages = 1..Len(clips) /\ Len(BuiltPages) = Len(clips)
           /\ \A i \in 1..Len(clips) :
                BuiltPages[i] = pages[i] /\ i \in DOMAIN pages /\ clips[i] = i
           /\ Len(pages) = Len(Chunks) /\ Len(pages) \in Nat
           /\ ~stoppedEarly => Len(clips) = Len(pages)
<1>1. /\ Len(pages) = Len(Chunks) /\ Len(pages) \in 1..MaxChunks /\ MaxChunks \in Nat
      /\ pages \in Seq([num : Nums, words : Texts \cup {None}])
      /\ clips \in Seq(Nums) /\ Len(clips) \in Nat
  BY ChunksAre, PipelineAssumption DEF RunInv, Paged, TypeOK, Speaking, Making
<1>2. /\ Len(clips) <= Len(pages)
      /\ ~stoppedEarly => Len(clips) = Len(pages)
      /\ \A i \in 1..Len(clips) : clips[i] = i
  BY <1>1 DEF RunInv, Clipped
<1>3. CASE stoppedEarly
  BY <1>1, <1>2, <1>3 DEF BuiltPages
<1>4. CASE ~stoppedEarly
  BY <1>1, <1>2, <1>4 DEF BuiltPages
<1> QED BY <1>3, <1>4

LEMMA FacesAre ==
    ASSUME RunInv, pc \in Making
    PROVE  /\ Faces = [i \in 1..Len(clips) |-> clip[clips[i]]]
           /\ Faces \in Clips /\ Len(Faces) = Len(clips)
<1>1. /\ Len(clips) \in 0..MaxChunks /\ Len(clips) \in Nat /\ Len(BuiltPages) = Len(clips)
      /\ MaxChunks \in Nat
      /\ \A i \in 1..Len(clips) : clips[i] = i
  BY BuiltPagesAre, PipelineAssumption
<1>2. Faces = [i \in 1..Len(clips) |-> clip[clips[i]]]
  BY <1>1 DEF Faces
<1>3. \A i \in 1..Len(clips) : clip[clips[i]] \in Texts \cup {None}
  BY <1>1 DEF RunInv, TypeOK
<1>4. Faces \in [1..Len(clips) -> Texts \cup {None}]
  BY <1>2, <1>3
<1> QED BY <1>1, <1>2, <1>4 DEF Clips

LEMMA BuildStep ==
    ASSUME RunInv, Building
    PROVE  RunInv'
<1>1. CASE BuildEpub \/ BuildMp4 \/ AssembleReader
  <2>1. Rest
    BY <1>1 DEF RunInv, BuildEpub, BuildMp4, AssembleReader, Deliver, End, Rest, TypeOK,
       tracker, files
  <2> QED BY <2>1, RestStep
<1>2. CASE ReusePresenter \/ BuildPresenter \/ MarkPresenter
  <2>1. /\ pc \in Making /\ pc' \in {"presenter", "assemble"}
        /\ built' \subseteq built \cup {"presenter"}
        /\ presenter' \in {presenter, Faces}
        /\ UNCHANGED <<statusFile, hash, failed, alignment, video, audio, clip, request,
                       chunking, loops, around>>
    BY <1>2 DEF ReusePresenter, BuildPresenter, MarkPresenter, tracker, files, Making
  <2>2. presenter' \in Clips
    BY <2>1, FacesAre DEF RunInv, TypeOK
  <2>3. TypeOK' /\ Flags'
    BY <2>1, <2>2 DEF RunInv, TypeOK, Flags, chunking, loops, around
  <2>4. Requested' /\ Spoken' /\ Paged'
    BY <2>1 DEF RunInv, Requested, Spoken, Paged, Speaking, Making, chunking, loops
  <2>5. Clipped'
    BY <2>1 DEF RunInv, Clipped, Speaking, Making, loops
  <2> QED BY <2>3, <2>4, <2>5 DEF RunInv
<1> QED BY <1>1, <1>2 DEF Building

LEMMA RunStep ==
    ASSUME RunInv, [Next]_vars
    PROVE  RunInv'
<1>1. ASSUME NEW r \in Requests, NEW clean \in BOOLEAN, Start(r, clean)
      PROVE  RunInv'
  <2>1. runs' \in 0..MaxRuns
    BY <1>1, PipelineAssumption DEF Start, RunInv, TypeOK
  <2>2. Rest
    BY <1>1, <2>1 DEF Start, FreshTracker, Rest, RunInv, TypeOK, tracker, files
  <2> QED BY <2>2, RestStep
<1>2. CASE Crash
  <2>1. Rest
    BY <1>2 DEF Crash, Die, Rest, RunInv, TypeOK, tracker, files
  <2> QED BY <2>1, RestStep
<1>3. CASE CrashInSave
  <2>1. torn' \in 0..MaxTorn
    BY <1>3, PipelineAssumption DEF CrashInSave, RunInv, TypeOK
  <2>2. Rest
    BY <1>3, <2>1 DEF CrashInSave, Die, FreshTracker, Rest, RunInv, TypeOK, files
  <2> QED BY <2>2, RestStep
<1>4. CASE AskStop \/ UNCHANGED vars
  <2>1. /\ UNCHANGED <<tracker, files, pc, request, chunking, loops, output, runs, torn>>
        /\ stopAsked' \in BOOLEAN
    BY <1>4 DEF AskStop, vars, around, RunInv, TypeOK
  <2>2. TypeOK' /\ Flags'
    BY <2>1 DEF RunInv, TypeOK, Flags, tracker, files, chunking, loops
  <2>3. Requested' /\ Spoken' /\ Paged' /\ Clipped'
    BY <2>1 DEF RunInv, Requested, Spoken, Paged, Clipped, tracker, chunking, loops
  <2> QED BY <2>2, <2>3 DEF RunInv
<1> QED BY <1>1, <1>2, <1>3, <1>4, SynthesisStep, AlignStep, RenderStep, BuildStep
        DEF Next, Rendering

(* Where a run's loops are and what they have collected fit together,      *)
(* wherever it resumed, failed or was stopped.                             *)
THEOREM RunInvariance == Spec => []RunInv
<1>1. Init => RunInv
  <2>1. <<>> \in Seq(Nums) /\ <<>> \in Seq([num : Nums, words : Texts \cup {None}])
    OBVIOUS
  <2>2. NoFile \in Clips
    <3>1. NoFile \in [1..0 -> Texts \cup {None}]
      BY DEF NoFile
    <3> QED BY <3>1, PipelineAssumption DEF Clips
  <2> SUFFICES ASSUME Init PROVE RunInv
    OBVIOUS
  <2>3. TypeOK
    <3>1. at \in 1..MaxChunks + 1 /\ runs \in 0..MaxRuns /\ torn \in 0..MaxTorn
      BY PipelineAssumption DEF Init
    <3> QED BY <2>1, <2>2, <3>1 DEF Init, TypeOK
  <2>4. Flags /\ Requested
    BY DEF Init, Flags, Requested
  <2>5. Spoken /\ Paged /\ Clipped
    BY DEF Init, Spoken, Paged, Clipped, Speaking, Making, NoRequest
  <2> QED BY <2>3, <2>4, <2>5 DEF RunInv
<1> QED BY <1>1, RunStep, PTL DEF Spec

(* The processing status, the files and the loops of a run stay within     *)
(* their types.                                                            *)
THEOREM TypeCorrect == Spec => []TypeOK
<1>1. RunInv => TypeOK
  BY DEF RunInv
<1> QED BY <1>1, RunInvariance, PTL

(* The i-th clip is that of the i-th page that is built.                   *)
THEOREM ClipsStayInStep == Spec => []ClipsInStep
<1>1. RunInv => ClipsInStep
  <2> SUFFICES ASSUME RunInv, pc \in Making
               PROVE  /\ Len(clips) = Len(BuiltPages)
                      /\ \A i \in DOMAIN clips : clips[i] = BuiltPages[i].num
    BY DEF ClipsInStep, Making
  <2>1. DOMAIN clips = 1..Len(clips)
    BY DEF RunInv, TypeOK
  <2> QED BY <2>1, BuiltPagesAre DEF RunInv, Paged
<1> QED BY <1>1, RunInvariance, PTL

-----------------------------------------------------------------------------
(* What a run delivers.                                                    *)

LEMMA OutputIs ==
    ASSUME RunInv, pc \in Making, NEW faces
    PROVE  /\ Output(faces).fmt = request.fmt
           /\ Output(faces).early = stoppedEarly
           /\ Output(faces).asked = Chunks
           /\ Output(faces).faces = faces
           /\ DOMAIN Output(faces).chunks = 1..Len(clips)
           /\ DOMAIN Output(faces).words = 1..Len(clips)
           /\ Len(Output(faces).chunks) = Len(clips)
           /\ \A i \in 1..Len(clips) :
                /\ Output(faces).chunks[i] = Chunks[i]
                /\ Output(faces).words[i] = pages[i].words
           /\ ~stoppedEarly => Output(faces).chunks = Chunks
<1>1. /\ Len(BuiltPages) = Len(clips) /\ Len(clips) \in Nat
      /\ \A i \in 1..Len(clips) : BuiltPages[i] = pages[i] /\ BuiltPages[i].num = i
      /\ ~stoppedEarly => Len(clips) = Len(Chunks)
  BY BuiltPagesAre DEF RunInv, Paged
<1>2. /\ Output(faces).fmt = request.fmt
      /\ Output(faces).early = stoppedEarly
      /\ Output(faces).asked = Chunks
      /\ Output(faces).faces = faces
      /\ Output(faces).chunks = [i \in 1..Len(clips) |-> Chunks[BuiltPages[i].num]]
      /\ Output(faces).words = [i \in 1..Len(clips) |-> BuiltPages[i].words]
  BY <1>1 DEF Output
<1>3. Output(faces).chunks = [i \in 1..Len(clips) |-> Chunks[i]]
  BY <1>1, <1>2
<1>4. ~stoppedEarly => Output(faces).chunks = Chunks
  BY <1>1, <1>3, ChunksAre DEF Making
<1> QED BY <1>1, <1>2, <1>3, <1>4

(* The presenter of an early stop has the run's clips, and an EPUB that is *)
(* used again is an EPUB.                                                  *)
Delivery ==
    /\ "epub" \in built => epub.fmt = "epub"
    /\ pc \in {"presenter", "assemble"} =>
          request.fmt = "reader" /\ (stoppedEarly => Len(presenter) = Len(clips))
    /\ OutputWhole

LEMMA DeliveryStep ==
    ASSUME RunInv, Delivery, [Next]_vars
    PROVE  Delivery'
<1> USE DEF Delivery, OutputWhole
<1>1. ASSUME UNCHANGED <<epub, output>>, built' \subseteq built, pc' \notin {"presenter", "assemble"}
      PROVE  Delivery'
  BY <1>1
<1>2. CASE BuildEpub
  <2>1. pc \in Making /\ pc' = "idle" /\ request.fmt = "epub"
    BY <1>2 DEF BuildEpub, Deliver, End, Making
  <2>2. Output(<<>>).fmt = "epub"
    BY <2>1, OutputIs
  <2>3. output'.fmt = "epub" /\ ("epub" \in built' => epub'.fmt = "epub")
    BY <1>2, <2>2 DEF BuildEpub, Deliver, tracker, files
  <2> QED BY <2>1, <2>3
<1>3. CASE BuildMp4
  <2>1. pc \in Making /\ pc' = "idle" /\ output' = Output(Faces)
    BY <1>3 DEF BuildMp4, Deliver, End, Making
  <2>2. UNCHANGED <<built, epub>>
    BY <1>3 DEF BuildMp4, tracker, files
  <2>3. /\ output'.early = stoppedEarly /\ output'.asked = Chunks /\ output'.faces = Faces
        /\ Len(output'.chunks) = Len(clips)
        /\ ~stoppedEarly => output'.chunks = Chunks
    BY <2>1, OutputIs
  <2>4. Len(Faces) = Len(clips)
    BY <2>1, FacesAre
  <2>5. OutputWhole'
    BY <2>3, <2>4, ChunksAre DEF RunInv, Flags
  <2> QED BY <2>1, <2>2, <2>5
<1>4. CASE AssembleReader
  <2>1. pc \in Making /\ pc' = "idle" /\ output' = Output(presenter)
    BY <1>4 DEF AssembleReader, Deliver, End, Making
  <2>2. UNCHANGED <<built, epub>>
    BY <1>4 DEF AssembleReader, tracker, files
  <2>3. /\ output'.fmt = request.fmt
        /\ output'.early = stoppedEarly /\ output'.asked = Chunks /\ output'.faces = presenter
        /\ Len(output'.chunks) = Len(clips)
        /\ ~stoppedEarly => output'.chunks = Chunks
    BY <2>1, OutputIs
  <2>4. request.fmt = "reader" /\ (stoppedEarly => Len(presenter) = Len(clips))
    BY <1>4 DEF AssembleReader
  <2>5. OutputWhole'
    BY <2>3, <2>4
  <2> QED BY <2>1, <2>2, <2>5
<1>5. CASE ReusePresenter
  BY <1>5 DEF ReusePresenter, PresenterReusable, tracker, files, loops, around
<1>6. CASE BuildPresenter
  <2>1. pc \in Making
    BY <1>6 DEF BuildPresenter, Making
  <2>2. Len(Faces) = Len(clips)
    BY <2>1, FacesAre
  <2> QED BY <1>6, <2>2 DEF BuildPresenter, tracker, loops, around
<1>7. CASE MarkPresenter
  BY <1>7 DEF MarkPresenter, files, loops, around
<1>8. CASE Synthesis
  <2>1. /\ UNCHANGED <<epub, output, built>>
        /\ pc' \in {"idle", "align", "synthesize"}
    BY <1>8 DEF Synthesis, Validate, Speak, MarkProcessed, MarkFailed, Synthesized, Abandon,
       End, tracker, files, around
  <2> QED BY <1>1, <2>1
<1>9. CASE Rendering
  <2>1. UNCHANGED <<epub, output, built>> /\ pc' \notin {"presenter", "assemble"}
    BY <1>9 DEF Rendering, AlignChunk, AlignmentOver, RenderCached, RenderPage, MarkRendered,
       RenderFails, StopRendering, RenderingOver, Abandon, End, tracker, files, around
  <2> QED BY <1>1, <2>1
<1>10. ASSUME NEW r \in Requests, NEW clean \in BOOLEAN, Start(r, clean)
       PROVE  Delivery'
  <2>1. UNCHANGED <<epub, output>> /\ built' \subseteq built /\ pc' = "validate"
    BY <1>10 DEF Start, FreshTracker, tracker, files
  <2> QED BY <1>1, <2>1
<1>11. CASE Crash \/ CrashInSave
  <2>1. UNCHANGED <<epub, output>> /\ built' \subseteq built /\ pc' = "idle"
    BY <1>11 DEF Crash, CrashInSave, Die, FreshTracker, tracker, files
  <2> QED BY <1>1, <2>1
<1>12. CASE AskStop \/ UNCHANGED vars
  BY <1>12 DEF AskStop, vars, tracker, files, loops, around
<1> QED BY <1>2, <1>3, <1>4, <1>5, <1>6, <1>7, <1>8, <1>9, <1>10, <1>11, <1>12
        DEF Next, Building

(* What is delivered is the whole document unless the user stopped the     *)
(* run, and then as many faces as pages.                                   *)
THEOREM OutputIsWhole == Spec => []OutputWhole
<1>1. Init => Delivery
  BY DEF Init, Delivery, OutputWhole, NoOutput
<1>2. Delivery => OutputWhole
  BY DEF Delivery
<1> QED BY <1>1, <1>2, DeliveryStep, RunInvariance, PTL DEF Spec

-----------------------------------------------------------------------------
(* Runs of one content: what earlier runs left is what this one would make. *)

OneContent == \A r, s \in Requests : r.chunks = s.chunks

(* Text x is the n-th chunk.                                               *)
Said(n, x) == \E r \in Requests : n \in DOMAIN r.chunks /\ x = r.chunks[n]

(* The entries of the tracker and the files they are about; a failed chunk *)
(* was never spoken, and is tried again.                                   *)
Entry(n) ==
    /\ audio[n] # None => Said(n, audio[n])
    /\ hash[n] # None => Said(n, hash[n]) /\ audio[n] # None
    /\ alignment[n] # None => Said(n, alignment[n]) /\ audio[n] # None
    /\ clip[n] # None => Said(n, clip[n])
    /\ n \in video => clip[n] # None /\ audio[n] # None
    /\ n \in todo => hash[n] = None
    /\ n \in spoken => audio[n] # None
    /\ n \in failed => hash[n] = None /\ \E x : Said(n, x)
    /\ pc = "synthesize" /\ n \in failed => n \in todo \cup troubled

(* What the run has collected.                                             *)
Collected ==
    /\ \A i \in DOMAIN pages : pages[i].words # None => Said(i, pages[i].words)
    /\ \A i \in DOMAIN clips : clip[clips[i]] # None
    /\ pc = "rendered" => clip[Page] # None /\ audio[Page] # None

(* What earlier runs, or this one, have built.                             *)
BuiltBefore ==
    /\ \A i \in DOMAIN presenter : Said(i, presenter[i])
    /\ \A i \in DOMAIN epub.words : epub.words[i] \in {None, epub.chunks[i]}
    /\ DOMAIN epub.faces = {}
    /\ OutputMatches

Truth == (\A n \in Nums : Entry(n)) /\ Collected /\ BuiltBefore

LEMMA SaidOnce ==
    ASSUME OneContent, NEW n, NEW x, NEW y, Said(n, x), Said(n, y)
    PROVE  x = y
  BY DEF OneContent, Said

LEMMA SaidHere ==
    ASSUME OneContent, RunInv, pc # "idle", NEW n, NEW x
    PROVE  Said(n, x) <=> n \in DOMAIN Chunks /\ x = Chunks[n]
<1>1. request \in Requests
  BY ChunksAre
<1>2. Chunks = request.chunks
  OBVIOUS
<1> HIDE DEF Chunks
<1> QED BY <1>1, <1>2 DEF OneContent, Said

(* A run that ends or begins adds nothing to what is known.                *)
LEMMA TruthAtRest ==
    ASSUME Truth, Rest, OutputMatches',
           \A i \in DOMAIN epub'.words : epub'.words[i] \in {None, epub'.chunks[i]},
           DOMAIN epub'.faces = {}
    PROVE  Truth'
<1>1. ASSUME NEW n \in Nums PROVE Entry(n)'
  <2>1. Entry(n)
    BY DEF Truth
  <2> QED BY <2>1 DEF Entry, Rest, FreshRun, Said
<1>2. Collected'
  BY DEF Collected, Rest, FreshRun
<1>3. BuiltBefore'
  BY DEF Truth, BuiltBefore, Rest, Said
<1> QED BY <1>1, <1>2, <1>3 DEF Truth

(* The tracker's entries, while a run speaks the chunks that are left.     *)
LEMMA TruthOfSpeaking ==
    ASSUME OneContent, RunInv, Truth, Synthesis
    PROVE  Truth'
<1>0. /\ Chunks \in Seq(Texts) /\ Len(Chunks) \in 1..MaxChunks /\ pc # "idle"
      /\ MaxChunks \in Nat /\ None \notin Texts
  BY ChunksAre, PipelineAssumption
     DEF Synthesis, Validate, Speak, MarkProcessed, MarkFailed, Synthesized
<1>1. \A n \in DOMAIN Chunks : n \in Nums /\ Chunks[n] # None /\ Said(n, Chunks[n])
  BY <1>0, SaidHere
<1>2. \A n \in Nums : \A x : Said(n, x) => n \in DOMAIN Chunks /\ x = Chunks[n]
  BY <1>0, SaidHere
<1> HIDE DEF Chunks
<1>3. \A n \in Nums : Entry(n)
  BY DEF Truth
<1>4. ASSUME UNCHANGED <<clip, presenter, epub, output, pages, clips>>,
             pc' = "synthesize" \/ pc' = "align"
      PROVE  Collected' /\ BuiltBefore'
  BY <1>4 DEF Truth, Collected, BuiltBefore, OutputMatches, Said
<1>5. CASE Validate
  <2>1. PICK bad \in SUBSET {n \in DOMAIN Chunks : hash[n] # Chunks[n]} :
          /\ failed' = failed \cup bad
          /\ troubled' = bad
          /\ todo' = {n \in DOMAIN Chunks : hash[n] # Chunks[n]} \ bad
    BY <1>5 DEF Validate
  <2>2. /\ pc' = "synthesize"
        /\ UNCHANGED <<statusFile, hash, alignment, video, built, audio, clip, presenter, epub,
                       request, spoken, pages, clips, output>>
    BY <1>5 DEF Validate, files, loops, around
  <2>3. ASSUME NEW n \in Nums PROVE Entry(n)'
    <3>1. Entry(n)
      BY <1>3
    <3>2. n \in DOMAIN Chunks /\ hash[n] # Chunks[n] => hash[n] = None /\ \E x : Said(n, x)
      BY <1>1, <1>2, <3>1 DEF Entry
    <3>3. n \in failed => n \in DOMAIN Chunks /\ hash[n] # Chunks[n]
      BY <1>1, <1>2, <3>1 DEF Entry
    <3>4. n \in failed' => hash[n] = None /\ \E x : Said(n, x)
      BY <2>1, <3>1, <3>2 DEF Entry
    <3>5. n \in todo' => hash[n] = None
      BY <2>1, <3>2
    <3>6. n \in failed' => n \in todo' \cup troubled'
      BY <2>1, <3>3
    <3> QED BY <2>2, <3>1, <3>4, <3>5, <3>6 DEF Entry, Said
  <2> QED BY <1>4, <2>2, <2>3 DEF Truth
<1>6. ASSUME NEW n \in Nums, Speak(n) PROVE Truth'
  <2>1. /\ n \in todo /\ n \in DOMAIN Chunks
        /\ audio' = [audio EXCEPT ![n] = Chunks[n]] /\ spoken' = spoken \cup {n}
        /\ pc' = "synthesize"
        /\ UNCHANGED <<hash, failed, alignment, video, clip, presenter, epub, pc, todo, troubled,
                       pages, clips, output>>
    BY <1>6 DEF Speak, RunInv, Spoken, tracker, loops, around, Chunks
  <2>2. audio' \in [Nums -> Texts \cup {None}] /\ audio'[n] = Chunks[n]
        /\ \A m \in Nums \ {n} : audio'[m] = audio[m]
    BY <1>1, <2>1, <1>0 DEF RunInv, TypeOK
  <2>3. ASSUME NEW m \in Nums PROVE Entry(m)'
    <3>1. Entry(m)
      BY <1>3
    <3>2. CASE m = n
      BY <1>1, <2>1, <2>2, <3>1, <3>2 DEF Entry, Said
    <3>3. CASE m # n
      BY <2>1, <2>2, <3>1, <3>3 DEF Entry, Said
    <3> QED BY <3>2, <3>3
  <2> QED BY <1>4, <2>1, <2>3 DEF Truth
<1>7. ASSUME NEW n \in Nums, MarkProcessed(n) PROVE Truth'
  <2>1. /\ n \in todo /\ n \in DOMAIN Chunks /\ n \in spoken
        /\ hash' = [hash EXCEPT ![n] = Chunks[n]] /\ failed' = failed \ {n}
        /\ todo' = todo \ {n} /\ spoken' = spoken \ {n}
        /\ pc' = "synthesize"
        /\ UNCHANGED <<alignment, video, audio, clip, presenter, epub, pc, troubled,
                       pages, clips, output>>
    BY <1>7 DEF MarkProcessed, RunInv, TypeOK, Spoken, files, loops, around, Chunks
  <2>2. hash'[n] = Chunks[n] /\ \A m \in Nums \ {n} : hash'[m] = hash[m]
    BY <2>1 DEF RunInv, TypeOK
  <2>3. ASSUME NEW m \in Nums PROVE Entry(m)'
    <3>1. Entry(m)
      BY <1>3
    <3>2. CASE m = n
      BY <1>1, <2>1, <2>2, <3>1, <3>2 DEF Entry, Said
    <3>3. CASE m # n
      BY <2>1, <2>2, <3>1, <3>3 DEF Entry, Said
    <3> QED BY <3>2, <3>3
  <2> QED BY <1>4, <2>1, <2>3 DEF Truth
<1>8. ASSUME NEW n \in Nums, MarkFailed(n) PROVE Truth'
  <2>1. /\ n \in todo /\ n \in DOMAIN Chunks
        /\ failed' = failed \cup {n} /\ troubled' = troubled \cup {n} /\ todo' = todo \ {n}
        /\ pc' = "synthesize"
        /\ UNCHANGED <<hash, alignment, video, audio, clip, presenter, epub, pc, spoken,
                       pages, clips, output>>
    BY <1>8 DEF MarkFailed, RunInv, Spoken, files, loops, around, Chunks
  <2>2. ASSUME NEW m \in Nums PROVE Entry(m)'
    <3>1. Entry(m)
      BY <1>3
    <3> QED BY <1>1, <2>1, <3>1 DEF Entry, Said
  <2> QED BY <1>4, <2>1, <2>2 DEF Truth
<1>9. CASE Synthesized
  <2>1. CASE Abandon
    <3>1. Rest
      BY <2>1 DEF Abandon, End, Rest, RunInv, TypeOK, tracker, files
    <3>2. UNCHANGED <<epub, output>>
      BY <2>1 DEF Abandon, files
    <3> QED BY <3>1, <3>2, TruthAtRest DEF Truth, BuiltBefore, OutputMatches
  <2>2. CASE pc' = "align" /\ UNCHANGED <<tracker, files, request, chunking, loops, around>>
    <3>1. \A n \in Nums : Entry(n)'
      BY <1>3, <2>2 DEF Entry, Said, tracker, files, chunking
    <3> QED BY <1>4, <2>2, <3>1 DEF Truth, files, loops, around
  <2> QED BY <1>9, <2>1, <2>2 DEF Synthesized
<1> QED BY <1>5, <1>6, <1>7, <1>8, <1>9 DEF Synthesis

(* The words and the clips of a run.                                       *)
LEMMA TruthOfRendering ==
    ASSUME OneContent, RunInv, Truth, Rendering
    PROVE  Truth'
<1>0. /\ Chunks \in Seq(Texts) /\ Len(Chunks) \in 1..MaxChunks /\ pc # "idle"
      /\ MaxChunks \in Nat /\ None \notin Texts /\ pc \notin Speaking
  BY ChunksAre, PipelineAssumption
     DEF Rendering, AlignChunk, AlignmentOver, RenderCached, RenderPage, MarkRendered,
         RenderFails, StopRendering, RenderingOver, Speaking
<1>1. \A n \in DOMAIN Chunks :
         /\ n \in Nums /\ hash[n] = Chunks[n] /\ Chunks[n] # None /\ Said(n, Chunks[n])
         /\ audio[n] # None
  <2> SUFFICES ASSUME NEW n \in DOMAIN Chunks
               PROVE  /\ n \in Nums /\ hash[n] = Chunks[n] /\ Chunks[n] # None
                      /\ Said(n, Chunks[n]) /\ audio[n] # None
    OBVIOUS
  <2>1. n \in Nums /\ hash[n] = Chunks[n] /\ Chunks[n] # None
    BY <1>0 DEF RunInv, Spoken
  <2>2. Entry(n)
    BY <2>1 DEF Truth
  <2> QED BY <2>1, <2>2 DEF Entry
<1>3. \A n \in Nums : Entry(n)
  BY DEF Truth
<1> HIDE DEF Chunks
<1>4. ASSUME UNCHANGED <<hash, failed, alignment, video, audio, clip, chunking>>,
             pc' # "synthesize"
      PROVE  \A n \in Nums : Entry(n)'
  BY <1>0, <1>3, <1>4 DEF Entry, Said, chunking, Speaking
<1>5. ASSUME UNCHANGED <<presenter, epub, output>>
      PROVE  BuiltBefore'
  BY <1>5 DEF Truth, BuiltBefore, OutputMatches, Said
<1>6. ASSUME Abandon PROVE Truth'
  <2>1. Rest
    BY <1>6 DEF Abandon, End, Rest, RunInv, TypeOK, tracker, files
  <2>2. UNCHANGED <<epub, output>>
    BY <1>6 DEF Abandon, files
  <2> QED BY <2>1, <2>2, TruthAtRest DEF Truth, BuiltBefore, OutputMatches
<1>7. CASE AlignChunk
  <2>1. /\ pc = "align" /\ at \in DOMAIN Chunks
        /\ pages \in Seq([num : Nums, words : Texts \cup {None}]) /\ Len(pages) = at - 1
    BY <1>0, <1>7 DEF AlignChunk, RunInv, TypeOK, Paged, Chunks
  <2>2. at \in Nums /\ Entry(at) /\ hash[at] = Chunks[at] /\ audio[at] # None
    BY <1>1, <1>3, <2>1
  <2>3. PICK words \in Texts \cup {None} :
          /\ Aligned(words)
          /\ words # None => Said(at, words)
          /\ \/ UNCHANGED alignment
             \/ alignment' = [alignment EXCEPT ![at] = Chunks[at]]
    <3>1. CASE alignment[at] # None
      <4>1. Aligned(alignment[at]) /\ UNCHANGED alignment
        BY <1>7, <2>2, <3>1 DEF AlignChunk, Chunks
      <4>2. alignment[at] \in Texts \cup {None}
        BY <2>2 DEF RunInv, TypeOK
      <4> QED BY <2>2, <4>1, <4>2 DEF Entry
    <3>2. CASE alignment[at] = None
      <4>1. \/ Aligned(Chunks[at]) /\ alignment' = [alignment EXCEPT ![at] = Chunks[at]]
            \/ Aligned(None) /\ UNCHANGED alignment
        BY <1>7, <2>2, <3>2 DEF AlignChunk, Chunks
      <4>2. Chunks[at] \in Texts
        BY <1>0, <2>1
      <4> QED BY <1>1, <2>1, <4>1, <4>2
    <3> QED BY <3>1, <3>2
  <2>4. /\ pc' = "align"
        /\ UNCHANGED <<hash, failed, video, audio, clip, presenter, epub, output, chunking, clips>>
    BY <1>7, <2>1 DEF AlignChunk, files, around
  <2>5. ASSUME NEW n \in Nums PROVE Entry(n)'
    <3>1. Entry(n)
      BY <1>3
    <3>2. alignment'[n] # None => Said(n, alignment'[n]) /\ audio[n] # None
      <4>1. CASE UNCHANGED alignment
        BY <3>1, <4>1 DEF Entry
      <4>2. CASE alignment' = [alignment EXCEPT ![at] = Chunks[at]]
        <5>1. alignment'[n] = IF n = at THEN Chunks[at] ELSE alignment[n]
          BY <4>2 DEF RunInv, TypeOK
        <5> QED BY <1>1, <2>1, <2>2, <3>1, <5>1 DEF Entry
      <4> QED BY <2>3, <4>1, <4>2
    <3> QED BY <2>4, <3>1, <3>2 DEF Entry, Said, chunking
  <2>6. \A i \in DOMAIN pages' : pages'[i].words # None => Said(i, pages'[i].words)
    <3> DEFINE page == [num |-> at, words |-> words]
    <3>1. pages' = Append(pages, page) /\ page.words = words
      BY <2>3 DEF Aligned
    <3>2. page \in [num : Nums, words : Texts \cup {None}]
      BY <2>2, <2>3
    <3> HIDE DEF page
    <3>3. /\ DOMAIN pages' = 1..at
          /\ \A i \in 1..at : pages'[i] = IF i = at THEN page ELSE pages[i]
          /\ \A i \in 1..at : i # at => i \in DOMAIN pages
      BY <2>1, <2>2, <3>1, <3>2
    <3>4. ASSUME NEW i \in 1..at, pages'[i].words # None PROVE Said(i, pages'[i].words)
      <4>1. CASE i = at
        BY <2>3, <3>1, <3>3, <3>4, <4>1
      <4>2. CASE i # at
        BY <3>3, <3>4, <4>2 DEF Truth, Collected
      <4> QED BY <4>1, <4>2
    <3> QED BY <3>3, <3>4
  <2>7. Collected'
    <3>1. \A i \in DOMAIN clips : clip[clips[i]] # None
      BY DEF Truth, Collected
    <3> QED BY <2>4, <2>6, <3>1 DEF Collected, Said
  <2> QED BY <1>5, <2>4, <2>5, <2>7 DEF Truth
<1>8. CASE AlignmentOver
  <2>1. CASE /\ pc' = "render"
             /\ UNCHANGED <<tracker, files, request, chunking, pages, clips, around>>
    <3>1. Collected'
      BY <2>1 DEF Truth, Collected, Said, files
    <3> QED BY <1>4, <1>5, <2>1, <3>1 DEF Truth, tracker, files, around
  <2> QED BY <1>6, <1>8, <2>1 DEF AlignmentOver
<1>9. ASSUME pc \in {"render", "rendered"}, at <= Len(pages)
      PROVE  /\ Page = at /\ at \in DOMAIN Chunks /\ at \in Nums
             /\ audio[Page] # None /\ Entry(Page)
  <2>1. at \in DOMAIN Chunks /\ at \in DOMAIN pages
    BY <1>0, <1>9 DEF RunInv, TypeOK, Paged, Speaking, Chunks
  <2>2. Page = at
    BY <2>1 DEF RunInv, Paged, Page
  <2> QED BY <1>1, <1>3, <2>1, <2>2
<1>10. CASE RenderPage
  <2>1. /\ pc = "render" /\ at <= Len(pages) /\ pc' = "rendered"
        /\ clip' = [clip EXCEPT ![Page] = audio[Page]]
        /\ UNCHANGED <<hash, failed, alignment, video, audio, presenter, epub, output, chunking,
                       pages, clips, at>>
    BY <1>10 DEF RenderPage, tracker, loops, around
  <2>2. /\ Page \in Nums /\ audio[Page] # None /\ Entry(Page)
        /\ \A n \in Nums : clip'[n] = IF n = Page THEN audio[Page] ELSE clip[n]
    BY <1>9, <2>1 DEF RunInv, TypeOK
  <2>3. ASSUME NEW n \in Nums PROVE Entry(n)'
    <3>1. Entry(n)
      BY <1>3
    <3> QED BY <2>1, <2>2, <3>1 DEF Entry, Said, chunking
  <2>4. Collected'
    <3>0. clips \in Seq(Nums)
      BY DEF RunInv, TypeOK
    <3>5. \A i \in DOMAIN clips : clips[i] \in Nums
      <4> HIDE DEF Nums
      <4>1. DOMAIN clips = 1..Len(clips) /\ Len(clips) \in Nat
        BY <3>0
      <4> QED BY <3>0, <4>1
    <3>6. \A i \in DOMAIN clips : clip[clips[i]] # None
      BY DEF Truth, Collected
    <3>1. \A i \in DOMAIN clips : clips[i] \in Nums /\ clip[clips[i]] # None
      BY <3>5, <3>6
    <3>2. \A i \in DOMAIN clips : clip'[clips[i]] # None
      BY <2>2, <3>1
    <3>3. Page' = Page
      BY <2>1 DEF Page
    <3>4. \A i \in DOMAIN pages : pages[i].words # None => Said(i, pages[i].words)
      BY DEF Truth, Collected
    <3> QED BY <2>1, <2>2, <3>2, <3>3, <3>4 DEF Collected, Said
  <2> QED BY <1>5, <2>1, <2>3, <2>4 DEF Truth
<1>11. CASE RenderCached \/ MarkRendered
  <2>1. /\ pc \in {"render", "rendered"} /\ at <= Len(pages) /\ pc' = "render"
        /\ clips' = Append(clips, Page)
        /\ video' \subseteq video \cup {Page}
        /\ UNCHANGED <<hash, failed, alignment, audio, clip, presenter, epub, output,
                       chunking, pages>>
    BY <1>11 DEF RenderCached, MarkRendered, tracker, files, loops, around, RunInv, Clipped
  <2>2. /\ Page \in Nums /\ audio[Page] # None /\ Entry(Page)
    BY <1>9, <2>1
  <2>3. clip[Page] # None
    BY <1>11, <2>2 DEF RenderCached, MarkRendered, Truth, Collected, Entry
  <2>4. ASSUME NEW n \in Nums PROVE Entry(n)'
    <3>1. Entry(n)
      BY <1>3
    <3> QED BY <2>1, <2>2, <2>3, <3>1 DEF Entry, Said, chunking
  <2>5. Collected'
    <3>1. clips \in Seq(Nums) /\ \A i \in DOMAIN clips : clip[clips[i]] # None
      BY DEF Truth, Collected, RunInv, TypeOK
    <3>2. \A i \in DOMAIN clips' : clip[clips'[i]] # None
      BY <2>1, <2>2, <2>3, <3>1
    <3>3. \A i \in DOMAIN pages : pages[i].words # None => Said(i, pages[i].words)
      BY DEF Truth, Collected
    <3> QED BY <2>1, <3>2, <3>3 DEF Collected, Said
  <2> QED BY <1>5, <2>1, <2>4, <2>5 DEF Truth
<1>12. CASE RenderFails \/ StopRendering
  <2>1. /\ pc' = "render"
        /\ UNCHANGED <<tracker, files, chunking, pages, clips, around>>
    BY <1>12 DEF RenderFails, StopRendering
  <2>2. Collected'
    BY <2>1 DEF Truth, Collected, Said, files
  <2> QED BY <1>4, <1>5, <2>1, <2>2 DEF Truth, tracker, files, around
<1>13. CASE RenderingOver
  <2>1. CASE pc' = "build" /\ UNCHANGED <<tracker, files, request, chunking, loops, around>>
    <3>1. Collected'
      BY <2>1 DEF Truth, Collected, Said, files, loops
    <3> QED BY <1>4, <1>5, <2>1, <3>1 DEF Truth, tracker, files, around
  <2> QED BY <1>6, <1>13, <2>1 DEF RenderingOver
<1> QED BY <1>7, <1>8, <1>10, <1>11, <1>12, <1>13 DEF Rendering

(* What is built of them, and of what was built before.                    *)
LEMMA TruthOfBuilding ==
    ASSUME OneContent, RunInv, Truth, Building
    PROVE  Truth'
<1>0. pc \in Making /\ pc # "idle"
  BY DEF Building, BuildEpub, BuildMp4, ReusePresenter, BuildPresenter, MarkPresenter,
     AssembleReader, Making
<1>1. /\ Len(clips) \in Nat
      /\ \A i \in 1..Len(clips) : i \in DOMAIN pages /\ clips[i] = i /\ i \in Nums
      /\ DOMAIN clips = 1..Len(clips)
      /\ \A i \in 1..Len(clips) : clip[i] # None
  <2>1. /\ Len(clips) \in 0..MaxChunks /\ MaxChunks \in Nat
        /\ \A i \in 1..Len(clips) : i \in DOMAIN pages /\ clips[i] = i
    BY <1>0, BuiltPagesAre, PipelineAssumption
  <2>2. DOMAIN clips = 1..Len(clips)
    BY DEF RunInv, TypeOK
  <2> QED BY <2>1, <2>2 DEF Truth, Collected
<1>2. ASSUME NEW faces
      PROVE  \A i \in DOMAIN Output(faces).words :
                Output(faces).words[i] \in {None, Output(faces).chunks[i]}
  <2> SUFFICES ASSUME NEW i \in 1..Len(clips), pages[i].words # None
               PROVE  pages[i].words = Chunks[i]
    BY <1>0, OutputIs
  <2>1. Said(i, pages[i].words)
    BY <1>1 DEF Truth, Collected
  <2> QED BY <1>0, <2>1, SaidHere
<1>3. ASSUME NEW faces, \A i \in DOMAIN faces : Said(i, faces[i]), output' = Output(faces)
      PROVE  OutputMatches'
  <2>1. \A i \in DOMAIN faces \cap 1..Len(clips) : faces[i] = Chunks[i]
    BY <1>0, <1>3, SaidHere
  <2>2. /\ DOMAIN Output(faces).chunks = 1..Len(clips) /\ Output(faces).faces = faces
        /\ \A i \in 1..Len(clips) : Output(faces).chunks[i] = Chunks[i]
    BY <1>0, OutputIs
  <2> QED BY <1>2, <1>3, <2>1, <2>2 DEF OutputMatches
<1>4. /\ Faces = [i \in 1..Len(clips) |-> clip[clips[i]]]
      /\ \A i \in DOMAIN Faces : Said(i, Faces[i])
  <2>1. Faces = [i \in 1..Len(clips) |-> clip[clips[i]]]
    BY <1>0, FacesAre
  <2>2. ASSUME NEW i \in 1..Len(clips) PROVE Said(i, clip[clips[i]])
    <3>1. Entry(i) /\ clips[i] = i /\ clip[i] # None
      BY <1>1 DEF Truth
    <3> QED BY <3>1 DEF Entry
  <2> QED BY <2>1, <2>2
<1>5. CASE BuildEpub
  <2>1. Rest
    BY <1>5 DEF RunInv, BuildEpub, Deliver, End, Rest, TypeOK, tracker, files
  <2>2. CASE output' = epub /\ epub' = epub
    BY <2>1, <2>2, TruthAtRest DEF Truth, BuiltBefore, OutputMatches
  <2>3. CASE output' = Output(<<>>) /\ epub' = Output(<<>>)
    <3>1. OutputMatches'
      BY <1>3, <2>3
    <3>2. DOMAIN Output(<<>>).faces = {}
      BY <1>0, OutputIs
    <3> QED BY <1>2, <2>1, <2>3, <3>1, <3>2, TruthAtRest
  <2> QED BY <1>5, <2>2, <2>3 DEF BuildEpub, Deliver, files
<1>6. CASE BuildMp4
  <2>1. Rest
    BY <1>6 DEF RunInv, BuildMp4, Deliver, End, Rest, TypeOK, tracker, files
  <2>2. OutputMatches' /\ epub' = epub
    BY <1>3, <1>4, <1>6 DEF BuildMp4, Deliver, files
  <2> QED BY <2>1, <2>2, TruthAtRest DEF Truth, BuiltBefore
<1>7. CASE AssembleReader
  <2>1. Rest
    BY <1>7 DEF RunInv, AssembleReader, Deliver, End, Rest, TypeOK, tracker, files
  <2>2. \A i \in DOMAIN presenter : Said(i, presenter[i])
    BY DEF Truth, BuiltBefore
  <2>3. OutputMatches' /\ epub' = epub
    BY <1>3, <1>7, <2>2 DEF AssembleReader, Deliver, files
  <2> QED BY <2>1, <2>3, TruthAtRest DEF Truth, BuiltBefore
<1>8. CASE ReusePresenter \/ BuildPresenter \/ MarkPresenter
  <2>1. /\ presenter' \in {presenter, Faces} /\ pc' \in {"presenter", "assemble"}
        /\ UNCHANGED <<hash, failed, alignment, video, audio, clip, epub, output, chunking,
                       pages, clips>>
    BY <1>8 DEF ReusePresenter, BuildPresenter, MarkPresenter, tracker, files, loops, around
  <2>2. ASSUME NEW n \in Nums PROVE Entry(n)'
    <3>1. Entry(n)
      BY DEF Truth
    <3> QED BY <2>1, <3>1 DEF Entry, Said, chunking
  <2>3. Collected'
    BY <2>1 DEF Truth, Collected, Said
  <2>4. \A i \in DOMAIN presenter' : Said(i, presenter'[i])
    BY <1>4, <2>1 DEF Truth, BuiltBefore
  <2>5. BuiltBefore'
    BY <2>1, <2>4 DEF Truth, BuiltBefore, OutputMatches, Said
  <2> QED BY <2>2, <2>3, <2>5 DEF Truth
<1> QED BY <1>5, <1>6, <1>7, <1>8 DEF Building

LEMMA TruthStep ==
    ASSUME OneContent, RunInv, Truth, [Next]_vars
    PROVE  Truth'
<1>1. ASSUME Rest, UNCHANGED <<epub, output>> PROVE Truth'
  BY <1>1, TruthAtRest DEF Truth, BuiltBefore, OutputMatches
<1>2. ASSUME NEW r \in Requests, NEW clean \in BOOLEAN, Start(r, clean)
      PROVE  Truth'
  <2>1. runs' \in 0..MaxRuns
    BY <1>2, PipelineAssumption DEF Start, RunInv, TypeOK
  <2>2. Rest /\ UNCHANGED <<epub, output>>
    BY <1>2, <2>1 DEF Start, FreshTracker, Rest, RunInv, TypeOK, tracker, files
  <2> QED BY <1>1, <2>2
<1>3. CASE Crash
  <2>1. Rest /\ UNCHANGED <<epub, output>>
    BY <1>3 DEF Crash, Die, Rest, RunInv, TypeOK, tracker, files
  <2> QED BY <1>1, <2>1
<1>4. CASE CrashInSave
  <2>1. torn' \in 0..MaxTorn
    BY <1>4, PipelineAssumption DEF CrashInSave, RunInv, TypeOK
  <2>2. Rest /\ UNCHANGED <<epub, output>>
    BY <1>4, <2>1 DEF CrashInSave, Die, FreshTracker, Rest, RunInv, TypeOK, files
  <2> QED BY <1>1, <2>2
<1>5. CASE AskStop \/ UNCHANGED vars
  <2>1. UNCHANGED <<tracker, files, pc, chunking, loops, output>>
    BY <1>5 DEF AskStop, vars, around
  <2>2. ASSUME NEW n \in Nums PROVE Entry(n)'
    <3>1. Entry(n)
      BY DEF Truth
    <3> QED BY <2>1, <3>1 DEF Entry, Said, tracker, files, chunking
  <2>3. Collected'
    BY <2>1 DEF Truth, Collected, Page, Said, files, loops
  <2>4. BuiltBefore'
    BY <2>1 DEF Truth, BuiltBefore, OutputMatches, Said, files
  <2> QED BY <2>2, <2>3, <2>4 DEF Truth
<1> QED BY <1>2, <1>3, <1>4, <1>5, TruthOfSpeaking, TruthOfRendering, TruthOfBuilding
        DEF Next

(* As long as the runs of a directory come to the same chunks, its tracker *)
(* and its files agree, whatever was stopped, failed, cleaned or died.     *)
THEOREM TruthInvariance == ASSUME OneContent PROVE Spec => []Truth
<1>1. Init => Truth
  BY DEF Init, Truth, Entry, Collected, BuiltBefore, OutputMatches, NoOutput, NoFile
<1>2. RunInv /\ Truth /\ [Next]_vars => Truth'
  BY TruthStep
<1> QED BY <1>1, <1>2, RunInvariance, PTL DEF Spec

(* Then a run resumes from entries that are true of the files.             *)
THEOREM TrackerIsTruthful == ASSUME OneContent PROVE Spec => []TrackerTruthful
<1>1. Truth => TrackerTruthful
  <2> SUFFICES ASSUME Truth, NEW n \in Nums
               PROVE  /\ hash[n] # None => audio[n] = hash[n]
                      /\ alignment[n] # None => alignment[n] = audio[n]
                      /\ n \in video => clip[n] = audio[n]
    BY DEF TrackerTruthful
  <2>1. Entry(n)
    BY DEF Truth
  <2> QED BY <2>1, SaidOnce DEF Entry
<1> QED BY <1>1, TruthInvariance, PTL

(* Then every chunk of a run that is past synthesis has its own audio.     *)
THEOREM EveryChunkIsSpoken == ASSUME OneContent PROVE Spec => []AllSpoken
<1>1. RunInv /\ Truth => AllSpoken
  <2> SUFFICES ASSUME RunInv, Truth, pc \notin Speaking, NEW n \in DOMAIN Chunks
               PROVE  hash[n] = Chunks[n] /\ audio[n] = Chunks[n]
    BY DEF AllSpoken, Speaking
  <2>1. Chunks \in Seq(Texts) /\ n \in Nums /\ None \notin Texts /\ pc # "idle"
    BY ChunksAre, PipelineAssumption DEF Speaking
  <2>2. hash[n] = Chunks[n] /\ hash[n] # None
    BY <2>1 DEF RunInv, Spoken
  <2>3. Said(n, audio[n])
    BY <2>1, <2>2 DEF Truth, Entry
  <2> QED BY <2>1, <2>2, <2>3, SaidHere
<1> QED BY <1>1, RunInvariance, TruthInvariance, PTL

(* Then a run fails over chunks only for trouble of its own.               *)
THEOREM RerunsRetry == ASSUME OneContent PROVE Spec => []RerunRetries
<1>1. RunInv /\ Truth => RerunRetries
  <2> SUFFICES ASSUME RunInv, Truth, pc = "synthesize", todo = {}, NEW n \in failed
               PROVE  troubled # {}
    BY DEF RerunRetries
  <2>1. Entry(n)
    BY DEF Truth, RunInv, TypeOK
  <2> QED BY <2>1 DEF Entry
<1> QED BY <1>1, RunInvariance, TruthInvariance, PTL

(* Then no words and no face are set against another text.                 *)
THEOREM OutputIsOfOneText == ASSUME OneContent PROVE Spec => []OutputMatches
<1>1. Truth => OutputMatches
  BY DEF Truth, BuiltBefore
<1> QED BY <1>1, TruthInvariance, PTL
=============================================================================
