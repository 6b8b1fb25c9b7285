---------------------------- MODULE TextPreparation ----------------------------
(***************************************************************************)
(* screencastgen/text_processing.py: from the words of a document to the   *)
(* chunks that are spoken.  A text is a sequence of words separated by     *)
(* single spaces.  A word keeps its size in bytes, whether it ends a       *)
(* sentence, how a long sentence may be split at it, and the place of the  *)
(* printed word it comes from (0 for a comma that stands by itself).       *)
(***************************************************************************)
EXTENDS Naturals, Sequences, SequencesExt, FiniteSetsExt, Ordered

CONSTANTS
    Letters,         \* what words are made of
    Size,            \* bytes of the words that are spoken
    And, Comma,      \* "and", and a comma split from its word
    MaxRun,          \* max_run_bytes
    LongSentence,    \* LONG_SENTENCE_THRESHOLD
    MaxTts,          \* MAX_TTS_BYTES
    SentenceWarn     \* SENTENCE_WARN_BYTES

ASSUME TextAssumption ==
    /\ Size \in [DOMAIN Size -> Nat] /\ DOMAIN Size \subseteq Seq(Letters)
    /\ {MaxRun, LongSentence, MaxTts, SentenceWarn} \subseteq Nat
    /\ MaxRun < LongSentence /\ LongSentence + 2 <= SentenceWarn
    /\ SentenceWarn <= MaxTts

(* Every word with the space after it.                                     *)
Weight(text) == FoldLeft(LAMBDA n, word : n + word.size + 1, 0, text)

Bytes(text) == IF text = <<>> THEN 0 ELSE Weight(text) - 1

(* What is spoken of a text, and what is said by it.                       *)
Spoken(text) ==
    FoldLeft(LAMBDA said, word : IF word.at = 0 THEN said ELSE Append(said, word), <<>>, text)

NameAndPlace(text) == [i \in DOMAIN text |-> <<text[i].name, text[i].at>>]

(* preprocess_text, for what changes the number of words.  A printed word  *)
(* becomes the words of its "said": itself; a word for each part of        *)
(* camelCase; none, in LaTeX, in code and in a comment; the part that is   *)
(* left of "and/or"; or the words of "See code example." for what begins a *)
(* block of code.                                                          *)
Words(print, at) ==
    [k \in DOMAIN print.said |->
        LET last == k = Len(print.said) IN
        [name  |-> print.said[k],
         at    |-> at,
         size  |-> Size[print.said[k]] + (IF last /\ print.ends # "none" THEN 1 ELSE 0),
         stop  |-> last /\ print.ends = "stop",
         split |-> IF print.said = <<And>> /\ print.ends = "none" THEN "word"
                   ELSE IF last /\ print.ends = "comma" THEN "attached" ELSE "no"]]

Preprocess(prints, first) ==
    FlattenSeq([i \in DOMAIN prints |-> Words(prints[i], first + i - 1)])

(* A full stop after the last word, unless there is one.                   *)
Stopped(text) ==
    IF text = <<>> \/ Last(text).stop THEN text
    ELSE Append(Front(text),
                [Last(text) EXCEPT !.size = @ + 1, !.stop = TRUE, !.split = "no"])

(* _break_long_runs                                                        *)
BreakStep(acc, word) ==
    LET break == acc.run + word.size > MaxRun /\ ~word.stop IN
    [out |-> Append(IF break THEN Stopped(acc.out) ELSE acc.out, word),
     run |-> IF word.stop THEN 0 ELSE (IF break THEN 0 ELSE acc.run) + word.size + 1]

BreakLongRuns(text) == FoldLeft(BreakStep, [out |-> <<>>, run |-> 0], text).out

-----------------------------------------------------------------------------
(* The pieces of a text that begin at the given places.                    *)
CutStep(pieces, i, text, places) ==
    IF pieces = <<>> \/ i \in places
    THEN Append(pieces, <<text[i]>>)
    ELSE Append(Front(pieces), Append(Last(pieces), text[i]))

CutBefore(text, places) ==
    FoldLeftDomain(LAMBDA pieces, i : CutStep(pieces, i, text, places), <<>>, text)

(* re.split after a sentence's end.                                        *)
CutAfterStops(text) == CutBefore(text, {i \in 2..Len(text) : text[i - 1].stop})

(* str.split(", "): the comma leaves its word and leads the next part.     *)
Loosened(text) ==
    FlattenSeq([i \in DOMAIN text |->
        IF text[i].split = "attached" /\ i < Len(text)
        THEN <<[text[i] EXCEPT !.size = @ - 1, !.split = "no"],
               [name |-> Comma, at |-> 0, size |-> 1, stop |-> FALSE, split |-> "no"]>>
        ELSE <<text[i]>>])

Parts(sentence, delimiter) ==
    IF delimiter = "attached"
    THEN LET loose == Loosened(sentence) IN
         CutBefore(loose, {i \in DOMAIN loose : loose[i].name = Comma})
    ELSE CutBefore(sentence, {i \in 2..Len(sentence) - 1 : sentence[i].split = "word"})

(* Not the code: the size of the part alone is compared.                   *)
PackStepUnbounded(acc, part, limit) ==
    IF Bytes(part) > limit
    THEN [out |-> IF acc.current = <<>> THEN acc.out ELSE Append(acc.out, Stopped(acc.current)),
          current |-> part]
    ELSE [acc EXCEPT !.current = @ \o part]

(* Parts are joined as long as they fit; each piece ends with a full stop. *)
PackStep(acc, part, limit) ==
    IF Bytes(acc.current) + 1 + Bytes(part) > limit
    THEN [out |-> IF acc.current = <<>> THEN acc.out ELSE Append(acc.out, Stopped(acc.current)),
          current |-> part]
    ELSE [acc EXCEPT !.current = @ \o part]

Pack(parts, limit) ==
    LET packed == FoldLeft(LAMBDA acc, part : PackStep(acc, part, limit),
                           [out |-> <<>>, current |-> <<>>], parts)
    IN  Append(packed.out, Stopped(packed.current))

(* _split_long_sentence: at the first kind of delimiter for which every    *)
(* piece is short enough, or else between words.                           *)
SplitLong(sentence) ==
    LET tries == [d \in {"attached", "word"} |-> Pack(Parts(sentence, d), LongSentence)]
        Fits(d) == Len(Parts(sentence, d)) > 1
                   /\ \A k \in DOMAIN tries[d] : Bytes(tries[d][k]) <= LongSentence
    IN  IF Bytes(sentence) <= LongSentence THEN <<sentence>>
        ELSE IF Fits("attached") THEN tries["attached"]
        ELSE IF Fits("word") THEN tries["word"]
        ELSE Pack([i \in DOMAIN sentence |-> <<sentence[i]>>], LongSentence)

(* split_into_sentences                                                    *)
Sentences(text) ==
    IF text = <<>> THEN <<>>
    ELSE LET runs == BreakLongRuns(text)
             raw == CutAfterStops(runs)
         IN  FlattenSeq([k \in DOMAIN raw |-> SplitLong(Stopped(raw[k]))])

(* split_into_sentences_by_page: every page by itself.                     *)
Printed(pages) == FlattenSeq(pages)

PageSentences(pages) ==
    LET First(p) == Len(Printed(SubSeq(pages, 1, p - 1))) + 1
        OfPage(p) == Sentences(Preprocess(pages[p], First(p)))
    IN  FlattenSeq([p \in DOMAIN pages |->
            [k \in DOMAIN OfPage(p) |-> [page |-> p, text |-> OfPage(p)[k]]]])

-----------------------------------------------------------------------------
(* Not the code: the last page first.                                      *)
SortedDown(pages) == Reverse(Ascending(pages))

Sorted(pages) == Ascending(pages)

(* create_chunks and create_chunks_with_pages: sentences are joined as     *)
(* long as they fit; a chunk may span pages.                               *)
Closed(acc) ==
    IF acc.current = <<>> THEN acc.out
    ELSE Append(acc.out, [text |-> acc.current, pages |-> Sorted(acc.pages)])

(* Not the code: the pages of the chunk before are kept.                   *)
ChunkStepKeepingPages(acc, s, limit) ==
    IF Bytes(acc.current \o s.text) > limit
    THEN [out |-> Closed(acc), current |-> s.text, pages |-> acc.pages \cup {s.page}]
    ELSE [acc EXCEPT !.current = @ \o s.text, !.pages = @ \cup {s.page}]

ChunkStep(acc, s, limit) ==
    IF Bytes(acc.current \o s.text) > limit
    THEN [out |-> Closed(acc), current |-> s.text, pages |-> {s.page}]
    ELSE [acc EXCEPT !.current = @ \o s.text, !.pages = @ \cup {s.page}]

ChunksWithPages(sentences, limit) ==
    Closed(FoldLeft(LAMBDA acc, s : ChunkStep(acc, s, limit),
                    [out |-> <<>>, current |-> <<>>, pages |-> {}], sentences))

(* Without pages.                                                          *)
Chunks(sentences, limit) ==
    LET chunks == ChunksWithPages([k \in DOMAIN sentences |->
                                      [page |-> 0, text |-> sentences[k]]], limit)
    IN  [k \in DOMAIN chunks |-> chunks[k].text]

(* extract_and_chunk_paged and extract_and_chunk                           *)
PagedChunks(pages, limit) == ChunksWithPages(PageSentences(pages), limit)

PlainChunks(pages, limit) ==
    LET chunks == Chunks(Sentences(Preprocess(Printed(pages), 1)), limit) IN
    [k \in DOMAIN chunks |-> [text |-> chunks[k], pages |-> <<>>]]

(* validation_limits                                                       *)
Limits(limit) ==
    IF limit > MaxTts THEN [chunk |-> limit, sentence |-> limit]
    ELSE [chunk |-> MaxTts, sentence |-> SentenceWarn]

(* validate_chunk: its size, its sentences, and its runs up to a sentence's *)
(* end, counted with the space after every word.                           *)
Valid(chunk, limits) ==
    LET sentences == CutAfterStops(chunk) IN
    /\ Bytes(chunk) <= limits.chunk
    /\ \A k \in DOMAIN sentences :
        /\ Bytes(sentences[k]) <= limits.sentence
        /\ Last(sentences[k]).stop => Bytes(sentences[k]) + 1 <= limits.sentence
=============================================================================
