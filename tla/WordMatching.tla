------------------------------ MODULE WordMatching ------------------------------
(***************************************************************************)
(* screencastgen/word_matcher.py: the words that were recognised in the    *)
(* audio are set against the words printed on the pages, to know which box *)
(* to light up; and which word is the one being spoken at a given time.    *)
(* A word, printed or heard, is the sequence of its letters, without those *)
(* that _normalize strips.                                                 *)
(***************************************************************************)
EXTENDS Integers, Sequences, SequencesExt, FiniteSetsExt

CONSTANT LookAhead   \* _LOOKAHEAD

ASSUME MatchingAssumption == LookAhead \in Nat \ {0}

(* _is_prefix_match                                                        *)
Affix(heard, name) ==
    heard # <<>> /\ name # <<>> /\ (IsPrefix(heard, name) \/ IsSuffix(heard, name))

(* Not the code: a part of a word uses the word up.                        *)
MatchStepConsuming(acc, heard, prints) ==
    LET window == {j \in acc.cursor + 1 .. acc.cursor + LookAhead :
                        j <= Len(prints) /\ Affix(heard, prints[j].name)}
    IN  IF heard = <<>> THEN [acc EXCEPT !.boxes = Append(@, 0)]
        ELSE IF window = {}
        THEN [cursor |-> IF acc.cursor < Len(prints) - 1 THEN acc.cursor + 1 ELSE acc.cursor,
              boxes |-> Append(acc.boxes, 0)]
        ELSE [cursor |-> Min(window), boxes |-> Append(acc.boxes, Min(window))]

(* One recognised word.  The cursor is the number of printed words passed. *)
(* The first printed word in the window that is this word, or begins or    *)
(* ends with it, gives its box; only the word itself is passed, since the  *)
(* next part may belong to the same printed word.  A word without a match  *)
(* passes one; nothing but punctuation passes none.                        *)
MatchStep(acc, heard, prints) ==
    LET window == {j \in acc.cursor + 1 .. acc.cursor + LookAhead :
                        j <= Len(prints) /\ Affix(heard, prints[j].name)}
        hit == Min(window)
    IN  IF heard = <<>> THEN [acc EXCEPT !.boxes = Append(@, 0)]
        ELSE IF window = {}
        THEN [cursor |-> IF acc.cursor < Len(prints) - 1 THEN acc.cursor + 1 ELSE acc.cursor,
              boxes |-> Append(acc.boxes, 0)]
        ELSE [cursor |-> IF prints[hit].name = heard THEN hit ELSE acc.cursor,
              boxes |-> Append(acc.boxes, hit)]

(* match_words_to_bboxes: the printed word whose box each heard word gets, *)
(* or 0.                                                                   *)
Match(heard, prints) ==
    FoldLeft(LAMBDA acc, word : MatchStep(acc, word, prints),
             [cursor |-> 0, boxes |-> <<>>], heard).boxes

-----------------------------------------------------------------------------
(* get_active_word_index: the word at this time, or the last one before.   *)
Active(words, t) ==
    LET now == {i \in DOMAIN words : words[i].start <= t /\ t <= words[i].end}
        over == {i \in DOMAIN words : words[i].end <= t}
    IN  IF now # {} THEN Min(now) ELSE IF over # {} THEN Max(over) ELSE 0

(* Both readers search by halves, 0-based, -1 when no word has begun.      *)
Bounds(words) ==
    [lo : 0 .. Len(words), hi : -1 .. Len(words) - 1, best : -1 .. Len(words) - 1]

Everything(words) == [lo |-> 0, hi |-> Len(words) - 1, best |-> -1]

(* findActiveWordIndex of the reader page                                  *)
ReaderActive(words, t) ==
    LET search[r \in Bounds(words)] ==
            LET mid == (r.lo + r.hi) \div 2
                w == words[mid + 1]
            IN  IF r.lo > r.hi THEN r.best
                ELSE IF t < w.start THEN search[[r EXCEPT !.hi = mid - 1]]
                ELSE IF t > w.end THEN search[[r EXCEPT !.lo = mid + 1, !.best = mid]]
                ELSE mid
    IN  search[Everything(words)]

(* find of the offline reader: the last word that has begun.               *)
OfflineActive(words, t) ==
    LET search[r \in Bounds(words)] ==
            LET mid == (r.lo + r.hi) \div 2 IN
            IF r.lo > r.hi THEN r.best
            ELSE IF words[mid + 1].start <= t
                 THEN search[[r EXCEPT !.lo = mid + 1, !.best = mid]]
            ELSE search[[r EXCEPT !.hi = mid - 1]]
    IN  search[Everything(words)]
=============================================================================
