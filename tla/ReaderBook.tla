------------------------------- MODULE ReaderBook -------------------------------
(***************************************************************************)
(* What a reader is given of the aligned chunks: the manifest of the       *)
(* browser reader (screencastgen/reader_assets.py) and the EPUB with its   *)
(* media overlays (epub_builder.py).  An aligned chunk is                  *)
(*   [num, text, pages, words, duration]:                                  *)
(* its words as recognised, with times from the beginning of its audio.    *)
(***************************************************************************)
EXTENDS Integers, Sequences, SequencesExt, FiniteSetsExt, Ordered

(* Not the code: where each chunk ends.                                    *)
OffsetsOfEnds(aligned) ==
    FoldLeft(LAMBDA acc, ac : [all |-> Append(acc.all, acc.end + ac.duration),
                               end |-> acc.end + ac.duration],
             [all |-> <<>>, end |-> 0], aligned).all

(* _concatenate_chunks: where each chunk begins in the joined audio.       *)
Offsets(aligned) ==
    FoldLeft(LAMBDA acc, ac : [all |-> Append(acc.all, acc.end), end |-> acc.end + ac.duration],
             [all |-> <<>>, end |-> 0], aligned).all

Shifted(words, offset) ==
    [i \in DOMAIN words |-> [words[i] EXCEPT !.start = @ + offset, !.end = @ + offset]]

(* _render_pages: the pages in use that can be drawn.                      *)
PageImages(aligned, rendered) ==
    rendered \cap UNION {ToSet(aligned[k].pages) : k \in DOMAIN aligned}

(* build_reader_assets: times relative to the joined audio; the pictures   *)
(* of the pages that could be rendered.                                    *)
Manifest(aligned, rendered) ==
    LET offset == Offsets(aligned) IN
        [chunks |-> [k \in DOMAIN aligned |->
                        [num    |-> aligned[k].num,
                         offset |-> offset[k],
                         pages  |-> aligned[k].pages,
                         words  |-> Shifted(aligned[k].words, offset[k])]],
         duration |-> FoldLeft(LAMBDA n, ac : n + ac.duration, 0, aligned),
         pages    |-> PageImages(aligned, rendered)]

(* The words of all chunks, in order, as both readers search them.         *)
Timeline(manifest) ==
    FlattenSeq([k \in DOMAIN manifest.chunks |-> manifest.chunks[k].words])

(* The numbers of the chunks that have a key, in order.                    *)
Members(keys, key) == Ascending({k \in DOMAIN keys : keys[k] = key})

(* The offline reader draws page after page, each with the chunks that     *)
(* begin on it, and lights up the drawn word that has the number of the    *)
(* spoken one.                                                             *)
Drawings(manifest) ==
    LET chunks == manifest.chunks
        first == [k \in DOMAIN chunks |->
                     IF chunks[k].pages = <<>> THEN 0 ELSE Head(chunks[k].pages)]
        nums == Ascending(ToSet(first))
        Of(p) == Members(first, nums[p])
    IN  FlattenSeq([p \in DOMAIN nums |->
            FlattenSeq([i \in DOMAIN Of(p) |-> chunks[Of(p)[i]].words])])

-----------------------------------------------------------------------------
(* The EPUB.  A chapter is a page, and holds the chunks that begin on it.  *)
ChapterOf(ac) == IF ac.pages = <<>> THEN 1 ELSE Head(ac.pages)

ChapterOfEach(aligned) == [k \in DOMAIN aligned |-> ChapterOf(aligned[k])]

(* page_chunks and add_chapter                                             *)
ChunksOfChapter(aligned, num) ==
    LET own == Members(ChapterOfEach(aligned), num) IN [i \in DOMAIN own |-> aligned[own[i]]]

(* The pipelines add the chapters in the order of their pages.             *)
Spine(aligned) == Ascending(ToSet(ChapterOfEach(aligned)))

WordId(num, i) == <<num, i>>

(* _build_xhtml: a span for every word of an aligned chunk; a chunk that   *)
(* was not aligned is plain text.                                          *)
Xhtml(chunks) ==
    [k \in DOMAIN chunks |->
        [num   |-> chunks[k].num,
         spans |-> [i \in DOMAIN chunks[k].words |-> WordId(chunks[k].num, i)],
         plain |-> chunks[k].words = <<>>]]

(* _build_smil: which span is lit up during which clip of which file.      *)
Smil(chunks) ==
    FlattenSeq([k \in DOMAIN chunks |->
        [i \in DOMAIN chunks[k].words |->
            [target |-> WordId(chunks[k].num, i),
             audio  |-> chunks[k].num,
             begin  |-> chunks[k].words[i].start,
             end    |-> chunks[k].words[i].end]]])

(* Its duration: the latest end of a word in any of its files, or, if no   *)
(* word of the chapter was aligned, what its files last.                   *)
SmilDuration(chunks) ==
    LET ends == {Smil(chunks)[i].end : i \in DOMAIN Smil(chunks)} IN
    IF ends # {} THEN Max(ends)
    ELSE FoldLeft(LAMBDA n, ac : n + ac.duration, 0, chunks)

(* build: the chapters in the order of the spine, and the audio files that *)
(* were copied.                                                            *)
Epub(aligned) ==
    LET spine == Spine(aligned) IN
    [chapters |-> [c \in DOMAIN spine |->
        LET own == ChunksOfChapter(aligned, spine[c]) IN
        [num      |-> spine[c],
         text     |-> Xhtml(own),
         smil     |-> Smil(own),
         duration |-> SmilDuration(own)]],
     audio |-> {aligned[k].num : k \in DOMAIN aligned}]
=============================================================================
