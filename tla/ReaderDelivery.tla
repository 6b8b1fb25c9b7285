----------------------------- MODULE ReaderDelivery -----------------------------
(***************************************************************************)
(* From a document to its reader: the text is prepared and chunked, the    *)
(* chunks are spoken and aligned, the words are set on video frames or in  *)
(* the manifest and the EPUB, and the files are stored and served.  The    *)
(* steps of a pipeline follow one another; what the later ones need of the *)
(* earlier ones is the chunks and their words.                             *)
(*                                                                         *)
(* The reader page's polling shares nothing with the rest, so a behaviour  *)
(* is about the one or the other.                                          *)
(***************************************************************************)
EXTENDS TextPreparation, WordMatching, ReaderBook, PageLayout, JobStorage, ReaderPage

CONSTANTS
    Requests,   \* [pages, paged, limit]: prints, format, max_chunk_bytes
    Pictures,   \* [frame, faces, position, percent] of a video
    PageSize,   \* of a printed page, in points
    Vocabulary, \* what the aligner may write down for any word
    MaxFlaws    \* bound: words of a document it gets wrong, and chunks it fails at

(* A printed word of a document: its letters, without punctuation; what is *)
(* said for it; and what it ends.                                          *)
AnyPrint == [name : Seq(Letters), said : Seq(DOMAIN Size \ {Comma}),
             ends : {"none", "stop", "comma"}]

ASSUME DeliveryAssumption ==
    /\ \A r \in Requests :
         r.pages \in Seq(Seq(AnyPrint)) /\ r.paged \in BOOLEAN /\ r.limit \in Nat
    /\ Vocabulary \subseteq Seq(Letters) /\ MaxFlaws \in Nat

ASSUME PictureAssumption ==
    /\ PageSize \in Sizes
    /\ DOMAIN Size \cup {Comma} \cup Vocabulary \subseteq DOMAIN WordWidth
    /\ \A p \in Pictures :
         /\ p.frame \in Sizes /\ p.faces \in Seq(Sizes)
         /\ p.position \in Positions /\ p.percent \in Int

VARIABLES
    stage,      \* of the pipeline
    request,
    chunks,     \* [text, pages]
    aligned,    \* AlignedChunk
    picture

documentVars == <<stage, request, chunks, aligned, picture>>
vars == <<documentVars, storageVars, pageVars>>

NoRequest == [pages |-> <<>>, paged |-> FALSE, limit |-> 0]
NoPicture == [frame |-> [w |-> 1, h |-> 1], faces |-> <<>>, position |-> "left", percent |-> 0]

TypeOK ==
    /\ stage \in {"begin", "chunk", "align", "build", "composed", "stored", "page"}
    /\ request \in Requests \cup {NoRequest}
    /\ picture \in Pictures \cup {NoPicture}
    /\ \A k \in DOMAIN chunks :
        /\ DOMAIN chunks[k] = {"text", "pages"}
        /\ \A i, j \in DOMAIN chunks[k].pages : i < j => chunks[k].pages[i] < chunks[k].pages[j]
        /\ ToSet(chunks[k].pages) \subseteq DOMAIN request.pages
    /\ \A k \in DOMAIN aligned : DOMAIN aligned[k] = {"num", "text", "pages", "words", "duration"}
    /\ StorageTypeOK
    /\ PageTypeOK

Init ==
    /\ \/ stage = "begin" /\ PageClosed
       \/ stage = "page" /\ PageInit
    /\ request = NoRequest
    /\ chunks = <<>>
    /\ aligned = <<>>
    /\ picture = NoPicture
    /\ StorageInit

-----------------------------------------------------------------------------
(* A job's document, and whether its output follows the pages (EPUB and    *)
(* reader) or not (MP4).                                                   *)
Begin ==
    /\ stage = "begin"
    /\ stage' = "chunk"
    /\ request' \in Requests
    /\ UNCHANGED <<chunks, aligned, picture, storageVars, pageVars>>

Chunk ==
    /\ stage = "chunk"
    /\ stage' = "align"
    /\ chunks' = IF request.paged THEN PagedChunks(request.pages, request.limit)
                 ELSE PlainChunks(request.pages, request.limit)
    /\ UNCHANGED <<request, aligned, picture, storageVars, pageVars>>

(* The aligner writes down what it hears in the audio and is not told the  *)
(* text: any word may be missed, be taken for another one, also for one    *)
(* that is printed elsewhere, or for two; and a chunk may fail.            *)
Spots == UNION {{k} \X DOMAIN Spoken(chunks[k].text) : k \in DOMAIN chunks}

Utterances == UNION {[1..n -> Vocabulary] : n \in 0..2}

Flaws ==
    UNION {UNION {[failed : kSubset(f, DOMAIN chunks), as : [wrong -> Utterances]] :
                  wrong \in UNION {kSubset(n, Spots) : n \in 0 .. MaxFlaws - f}} :
           f \in 0 .. MaxFlaws}

(* What is written down for a word that was said at its place.             *)
WrittenDown(word, names) == [n \in DOMAIN names |-> [name |-> names[n], at |-> word.at]]

Recognised(k, flaw) ==
    LET spoken == Spoken(chunks[k].text) IN
    IF k \in flaw.failed THEN <<>>
    ELSE FlattenSeq([i \in DOMAIN spoken |->
             WrittenDown(spoken[i], IF <<k, i>> \in DOMAIN flaw.as THEN flaw.as[<<k, i>>]
                                    ELSE <<spoken[i].name>>)])

(* A word begins every three units, and lasts two or up to the next one.   *)
Timed(words, length) ==
    [i \in DOMAIN words |-> [name |-> words[i].name, at |-> words[i].at,
                             start |-> 3 * i - 2, end |-> 3 * i - 2 + length]]

(* align_chunks: a chunk whose alignment failed has no words.              *)
Align ==
    /\ stage = "align"
    /\ stage' = "build"
    /\ \E flaw \in Flaws, length \in 2..3 :
         aligned' = [k \in DOMAIN chunks |->
            LET words == Timed(Recognised(k, flaw), length) IN
            [num      |-> k,
             text     |-> chunks[k].text,
             pages    |-> chunks[k].pages,
             words    |-> words,
             duration |-> 3 * Larger(Len(chunks[k].text), Len(words)) + 1]]
    /\ UNCHANGED <<request, chunks, picture, storageVars, pageVars>>

(* An MP4: match_words_to_bboxes, and the composition.                     *)
Compose ==
    /\ stage = "build"
    /\ ~request.paged
    /\ stage' = "composed"
    /\ picture' \in Pictures
    /\ UNCHANGED <<request, chunks, aligned, storageVars, pageVars>>

(* The reader's assets and their archive, as far as the source is kept and *)
(* its pages can be drawn.  What is stored no longer depends on the words. *)
Publish ==
    /\ stage = "build"
    /\ aligned # <<>>
    /\ stage' = "stored"
    /\ \E rendered \in {{}, DOMAIN request.pages}, source \in SUBSET {"source"} :
         Build({"manifest", "audio"} \cup source
               \cup IF Manifest(aligned, rendered).pages = {} THEN {} ELSE {"page"})
    /\ request' = NoRequest
    /\ chunks' = <<>>
    /\ aligned' = <<>>
    /\ UNCHANGED <<picture, pageVars>>

Next ==
    \/ Begin \/ Chunk \/ Align \/ Compose \/ Publish
    \/ /\ stage = "stored"
       /\ StorageNext
       /\ UNCHANGED <<documentVars, pageVars>>
    \/ /\ stage = "page"
       /\ PageNext
       /\ UNCHANGED <<documentVars, storageVars>>

Spec == Init /\ [][Next]_vars /\ PageFairness

-----------------------------------------------------------------------------
(* The text.                                                               *)

Prints == Printed(request.pages)

(* The page a printed word is on.                                          *)
PageOf(at) ==
    CHOOSE p \in DOMAIN request.pages :
        at \in Len(Printed(SubSeq(request.pages, 1, p - 1))) + 1
                 .. Len(Printed(SubSeq(request.pages, 1, p)))

(* The chunks say the document: every printed word, once and in order,     *)
(* whatever was split, joined and punctuated; and where pages are kept, a  *)
(* chunk has the pages of its words and no others.                         *)
TextSpoken ==
    stage \in {"align", "build", "composed"} =>
        /\ NameAndPlace(Spoken(FlattenSeq([k \in DOMAIN chunks |-> chunks[k].text])))
             = NameAndPlace(Preprocess(Prints, 1))
        /\ request.paged => \A k \in DOMAIN chunks :
             LET own == Spoken(chunks[k].text) IN
             ToSet(chunks[k].pages) = {PageOf(own[i].at) : i \in DOMAIN own}

(* What the text is cut into is accepted by validate_chunk, so that no     *)
(* chunk fails before it is synthesized: full stops that are added after a *)
(* limit was checked never exceed the next limit.  Only a single word of   *)
(* the length of a sentence can.                                           *)
ChunksAccepted ==
    stage = "align" =>
        \A k \in DOMAIN chunks :
            \/ Valid(chunks[k].text, Limits(request.limit))
            \/ \E i \in DOMAIN chunks[k].text : chunks[k].text[i].size >= LongSentence

-----------------------------------------------------------------------------
(* The words.                                                              *)

WordsOf(k) == aligned[k].words
Heard == FlattenSeq([k \in DOMAIN aligned |-> WordsOf(k)])
Before(k) == Len(FlattenSeq([j \in 1..k - 1 |-> WordsOf(j)]))
Boxes == Match([i \in DOMAIN Heard |-> Heard[i].name], Prints)

(* A word that cannot carry the highlight past the printed word it belongs *)
(* to: nothing but punctuation; a part of that printed word, and the whole *)
(* only if nothing more is heard of it; or the last that is heard of it,   *)
(* if no printed word that the matching looks at after it is like it.      *)
Harmless(i) ==
    LET own == Heard[i].at
        more == \E j \in i + 1 .. Len(Heard) : Heard[j].at = own
    IN  \/ Heard[i].name = <<>>
        \/ Affix(Heard[i].name, Prints[own].name) /\ (more => Heard[i].name # Prints[own].name)
        \/ ~more /\ \A j \in own + 1 .. own + LookAhead :
                        j <= Len(Prints) => ~Affix(Heard[i].name, Prints[j].name)

Whole == \A i \in DOMAIN Prints : Prints[i].name # <<>> /\ Prints[i].said = <<Prints[i].name>>

(* The box that is lit up for a word is not ahead of the voice as long as  *)
(* every word up to it was harmless: heard as printed, missed, a part of   *)
(* the printed word, or taken for one that is not printed ahead.  Printed  *)
(* words that are not spoken, repeated words, punctuation and chunks that  *)
(* were not aligned do not make the matching run away.  The condition is   *)
(* needed: a word that is taken for one printed ahead, a second word for a *)
(* printed one, and a part in the middle of one carry the highlight ahead, *)
(* and it never returns.  When everything was heard as it is printed, each *)
(* word has its own box.                                                   *)
NeverAhead ==
    stage = "build" =>
        /\ \A i \in DOMAIN Boxes :
             (\A j \in 1..i : Harmless(j)) => Boxes[i] <= Heard[i].at
        /\ Whole /\ NameAndPlace(Heard) = NameAndPlace(Preprocess(Prints, 1)) =>
             \A i \in DOMAIN Boxes : Boxes[i] = Heard[i].at

(* The words that are spoken at a time: one, or the two that meet there.   *)
SpokenAt(words, t) == {i \in DOMAIN words : words[i].start <= t /\ t <= words[i].end}

(* At every time at which a word is spoken, its first and its last moment  *)
(* included, the video's clip, the browser's reader and the offline reader *)
(* all mark a word that is spoken then, each in its own way of finding it, *)
(* and the offline reader has drawn the words in the order it counts them; *)
(* and the EPUB, read through its spine, has the chunks in the order of    *)
(* the narration, with one span and one clip for each word, within what is *)
(* played of the chunk's audio.                                            *)
ReadersAgree ==
    stage = "build" =>
        LET manifest == Manifest(aligned, DOMAIN request.pages)
            line == Timeline(manifest)
            book == Epub(aligned)
            text == FlattenSeq([c \in DOMAIN book.chapters |-> book.chapters[c].text])
            clips == FlattenSeq([c \in DOMAIN book.chapters |-> book.chapters[c].smil])
        IN
        /\ \A k \in DOMAIN aligned : \A i \in DOMAIN WordsOf(k) :
             \A t \in WordsOf(k)[i].start .. WordsOf(k)[i].end :
                LET at == t + manifest.chunks[k].offset
                    now == SpokenAt(WordsOf(k), t)
                IN  /\ Active(WordsOf(k), t) \in now
                    /\ (ReaderActive(line, at) + 1) - Before(k) \in now
                    /\ (OfflineActive(line, at) + 1) - Before(k) \in now
                    /\ at <= manifest.duration
        /\ Drawings(manifest) = line
        /\ [k \in DOMAIN text |-> text[k].num] = [k \in DOMAIN aligned |-> aligned[k].num]
        /\ [i \in DOMAIN clips |-> clips[i].target]
             = FlattenSeq([k \in DOMAIN text |-> text[k].spans])
        /\ Cardinality({clips[i].target : i \in DOMAIN clips}) = Len(clips)
        /\ \A i \in DOMAIN clips :
             clips[i].audio \in book.audio /\ clips[i].end <= aligned[clips[i].audio].duration

-----------------------------------------------------------------------------
(* The picture.                                                            *)

Inside(box, frame) ==
    /\ 0 <= box.x /\ box.x + box.w <= frame.w
    /\ 0 <= box.y /\ box.y + box.h <= frame.h

Apart(a, b) == a.x + a.w <= b.x \/ b.x + b.w <= a.x \/ a.y + a.h <= b.y \/ b.y + b.h <= a.y

(* Where a printed word is; the words of a page are in one line.           *)
BoxOf(at) ==
    IF at = 0 THEN [page |-> 0]
    ELSE LET width == PageSize.w \div (Len(Prints) + 1) IN
         [x |-> at * width, y |-> (PageSize.h * 3) \div 4, w |-> width, page |-> PageOf(at)]

(* The words of a pane, while each of them is the one that is spoken: at   *)
(* its height, and from its first to its last letter, unless it is wider   *)
(* than the pane without one margin.                                       *)
TextVisible(k, pane) ==
    LET layout == LayoutText([i \in DOMAIN WordsOf(k) |-> WordsOf(k)[i].name], pane) IN
    \A i \in DOMAIN layout :
        LET scroll == ScrollOffset(layout, i, pane) IN
        /\ Drawn(layout, i, scroll, pane)
        /\ layout[i].y - scroll \in 0 .. pane.h - LineHeight
        /\ layout[i].x >= 0
        /\ Margin + layout[i].w <= pane.w => layout[i].x + layout[i].w <= pane.w

BoxVisible(k, pane) ==
    LET layout == LayoutOnPage([i \in DOMAIN WordsOf(k) |-> BoxOf(Boxes[Before(k) + i])],
                               PageSize, pane)
    IN  \A i \in DOMAIN layout : layout[i].page # 0 =>
            /\ ShownPage(layout, i) = layout[i].page
            /\ layout[i].x >= 0 /\ layout[i].x + layout[i].w <= pane.w
            /\ layout[i].y \in 0 .. pane.h

(* The greatest scale that the settings offer, in percent, and the width   *)
(* of the smallest frame for which it leaves room.                         *)
OfferedScale == 40
SmallFrame   == 320

(* The presenter never covers the reading pane, whatever the shape of its  *)
(* clip, and both are in the frame; in the pane, or in the whole frame     *)
(* where there is no presenter, the word that is spoken is drawn: scrolled *)
(* into sight in plain text and within the width of the pane, if the pane  *)
(* has room for the word beside a margin; and on the page that is shown if *)
(* it has a box.  Up to the scale that the settings offer the pane has at  *)
(* least half of the frame; a larger one, which the command line accepts,  *)
(* may leave it a single pixel.                                            *)
PresenterClear ==
    stage = "composed" =>
        LET Made(f) == Composition(picture.frame, picture.faces[f], picture.position,
                                   picture.percent)
        IN
        /\ \A f \in DOMAIN picture.faces :
            /\ Inside(Made(f).face, picture.frame)
            /\ Inside(Made(f).pane, picture.frame)
            /\ Apart(Made(f).face, Made(f).pane)
            /\ picture.percent <= OfferedScale /\ picture.frame.w >= SmallFrame =>
                 Made(f).pane.w >= picture.frame.w \div 2
        /\ \A pane \in {Made(f).pane : f \in DOMAIN picture.faces}
                         \cup {WholeFrame(picture.frame)} :
            \A k \in DOMAIN aligned : TextVisible(k, pane) /\ BoxVisible(k, pane)
=============================================================================
