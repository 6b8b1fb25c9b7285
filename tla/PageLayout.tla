------------------------------- MODULE PageLayout -------------------------------
(***************************************************************************)
(* Where things are on a video frame, in pixels: the presenter and the     *)
(* reading pane (video_composer.py), the lines of plain text and their     *)
(* scrolling (highlight_renderer.py), and the picture of a page with the   *)
(* box of a word (page_renderer.py).                                       *)
(***************************************************************************)
EXTENDS Integers, Sequences, SequencesExt, FiniteSetsExt

CONSTANTS
    WordWidth, SpaceWidth, LineHeight,   \* the font
    Margin                               \* of plain text

ASSUME LayoutAssumption ==
    /\ WordWidth \in [DOMAIN WordWidth -> Nat]
    /\ {SpaceWidth, LineHeight, Margin} \subseteq Nat

(* Of a frame, a presenter's clip, a page.                                 *)
Sizes == [w : Nat \ {0}, h : Nat \ {0}]

Corners == {"top-left", "top-right", "bottom-left", "bottom-right"}
Positions == Corners \cup {"left", "right", "center"}

AtLeft(position) == position \in {"top-left", "bottom-left", "left"}
AtTop(position)  == position \in {"top-left", "top-right"}

Larger(a, b)  == IF a > b THEN a ELSE b
Smaller(a, b) == IF a < b THEN a ELSE b

-----------------------------------------------------------------------------
(* compose_lipsync_video                                                   *)

OverlayMargin(frame) == Larger(16, (3 * Smaller(frame.w, frame.h)) \div 100)

(* The presenter in a corner: as wide as asked, unless it is too tall.     *)
Docked(frame, face, percent) ==
    LET scale == Smaller(Larger(percent, 10), 90)
        room == frame.h - 2 * OverlayMargin(frame)
        w == Larger(1, (frame.w * scale) \div 100)
        h == Larger(1, (face.h * w) \div Larger(face.w, 1))
        fit == Larger(1, room)
    IN  IF h > room
        THEN [w |-> Larger(1, (face.w * fit) \div Larger(face.h, 1)), h |-> fit]
        ELSE [w |-> w, h |-> h]

FaceSize(frame, face, position, percent) ==
    IF position \in Corners THEN Docked(frame, face, percent)
    ELSE [w |-> frame.w \div 2,
          h |-> IF position = "center" THEN frame.h \div 2 ELSE frame.h]

(* Not the code: the rail is as wide as the presenter, without margins.    *)
PaneWithoutMargins(frame, size, position) ==
    [w |-> IF position \in Corners THEN Larger(1, frame.w - Smaller(frame.w - 1, size.w))
           ELSE IF position = "center" THEN frame.w ELSE frame.w \div 2,
     h |-> IF position = "center" THEN Larger(1, frame.h - size.h) ELSE frame.h]

(* The reading pane: what a side rail leaves, a half, or the lower half.   *)
PaneSize(frame, size, position) ==
    LET rail == Smaller(frame.w - 1, size.w + 2 * OverlayMargin(frame)) IN
    [w |-> IF position \in Corners THEN Larger(1, frame.w - rail)
           ELSE IF position = "center" THEN frame.w ELSE frame.w \div 2,
     h |-> IF position = "center" THEN Larger(1, frame.h - size.h) ELSE frame.h]

Composition(frame, face, position, percent) ==
    LET margin == OverlayMargin(frame)
        size == FaceSize(frame, face, position, percent)
        pane == PaneSize(frame, size, position)
        At(x, y, s) == [x |-> x, y |-> y, w |-> s.w, h |-> s.h]
    IN  CASE position = "left"   -> [face |-> At(0, 0, size), pane |-> At(size.w, 0, pane)]
          [] position = "right"  -> [face |-> At(pane.w, 0, size), pane |-> At(0, 0, pane)]
          [] position = "center" -> [face |-> At((frame.w - size.w) \div 2, 0, size),
                                     pane |-> At(0, size.h, pane)]
          [] position \in Corners ->
                [face |-> At(IF AtLeft(position) THEN margin ELSE frame.w - size.w - margin,
                             IF AtTop(position) THEN margin ELSE frame.h - size.h - margin,
                             size),
                 pane |-> At(IF AtLeft(position) THEN frame.w - pane.w ELSE 0, 0, pane)]

(* compose_highlight_video: no presenter, and the pane is the frame.       *)
WholeFrame(frame) == [x |-> 0, y |-> 0, w |-> frame.w, h |-> frame.h]

-----------------------------------------------------------------------------
(* Plain text.                                                             *)

(* One word: on this line as long as it fits, or else on the next one.     *)
LayoutStep(acc, word, pane) ==
    LET wraps == acc.x # Margin /\ acc.x + WordWidth[word] > pane.w - Margin
        x == IF wraps THEN Margin ELSE acc.x
        line == IF wraps THEN acc.line + 1 ELSE acc.line
    IN  [out |-> Append(acc.out, [x |-> x, y |-> Margin + line * LineHeight,
                                  w |-> WordWidth[word], page |-> 0]),
         x |-> x + WordWidth[word] + SpaceWidth,
         line |-> line]

(* _word_wrap and layout_words                                             *)
LayoutText(words, pane) ==
    FoldLeft(LAMBDA acc, word : LayoutStep(acc, word, pane),
             [out |-> <<>>, x |-> Margin, line |-> 0], words).out

(* compute_scroll_offset: the active word in the middle, once it is below. *)
ScrollOffset(layout, active, pane) ==
    IF active = 0 THEN 0
    ELSE Larger(0, layout[active].y + LineHeight \div 2 - pane.h \div 2)

(* render_frame: a word is drawn unless it is outside the pane.            *)
Drawn(layout, i, scroll, pane) ==
    LET y == layout[i].y - scroll IN y + LineHeight >= 0 /\ y <= pane.h

-----------------------------------------------------------------------------
(* Pages.  A page is [w, h] in points, a box is in points of its page.     *)

(* _get_page: fitted into the pane and centred.                            *)
Fitted(page, pane) ==
    LET wide == page.w * pane.h >= page.h * pane.w   \* limited by its width
        num == IF wide THEN pane.w ELSE pane.h
        den == IF wide THEN page.w ELSE page.h
        w == Larger(1, (page.w * num) \div den)
        h == Larger(1, (page.h * num) \div den)
    IN  [num |-> num, den |-> den, w |-> w, h |-> h,
         x |-> (pane.w - w) \div 2, y |-> (pane.h - h) \div 2]

(* layout_words: a word without a box is on page 0.                        *)
LayoutOnPage(boxes, pageSize, pane) ==
    LET Place(box) ==
            LET fit == Fitted(pageSize, pane) IN
            [x |-> (box.x * fit.num) \div fit.den + fit.x,
             y |-> (box.y * fit.num) \div fit.den + fit.y,
             w |-> (box.w * fit.num) \div fit.den,
             page |-> box.page]
    IN  [i \in DOMAIN boxes |->
            IF boxes[i].page = 0 THEN [x |-> 0, y |-> 0, w |-> 0, page |-> 0]
            ELSE Place(boxes[i])]

(* _resolve_page: of the active word, of the last word before it that has  *)
(* a page, of the first word that has one.                                 *)
ShownPage(layout, active) ==
    LET placed == {i \in DOMAIN layout : layout[i].page > 0}
        before == {i \in placed : active # 0 /\ i <= active}
    IN  IF before # {} THEN layout[Max(before)].page
        ELSE IF placed # {} THEN layout[Min(placed)].page ELSE 0
=============================================================================
