---------------------------- MODULE MCReaderDelivery ----------------------------
(* Small documents for ReaderDelivery, over kinds of printed words that    *)
(* meet the limits in different ways, and that are said as they are, in    *)
(* two words, not at all, or by the note for a block of code: MP4s of all  *)
(* texts of up to two plain words; readers of all texts of up to three,    *)
(* the first word on a page of its own; readers with another limit; and    *)
(* readers of four words on three pages, of which the middle one is empty. *)
EXTENDS ReaderDelivery

A == <<"a">>
B == <<"b">>
C == <<"c">>
N == <<"n">>     \* printed nowhere
L == <<"l">>     \* a long word
Dash == <<>>     \* nothing but punctuation
AndWord == <<"and">>
CommaWord == <<",">>

AllLetters == {"a", "b", "c", "n", "l", "x", "and", ","}

ByteSize == (A :> 1) @@ (B :> 2) @@ (C :> 6) @@ (L :> 9) @@ (Dash :> 1) @@ (AndWord :> 1)
            @@ (CommaWord :> 1)
PixelWidth == (A :> 20) @@ (B :> 60) @@ (C :> 150) @@ (L :> 400) @@ (N :> 60) @@ (Dash :> 10)
              @@ (AndWord :> 40) @@ (CommaWord :> 10)

CodeNote == <<B, A>>

(* What an aligner may write down.                                         *)
Misheard == {A, N}

Word(name, ends) == [name |-> name, said |-> <<name>>, ends |-> ends]

(* A LaTeX command; camelCase; a block of code.                            *)
Unsaid == [name |-> A, said |-> <<>>, ends |-> "none"]
InTwo  == [name |-> A \o B, said |-> <<A, B>>, ends |-> "none"]
Code   == [name |-> <<"x">>, said |-> CodeNote, ends |-> "stop"]

Plain == {Word(A, "none"), Word(B, "comma"), Word(C, "none"), Word(L, "none"), InTwo, Code}

Kinds == Plain \cup {Word(A, "stop"), Word(C, "stop"), Word(AndWord, "none"),
                     Word(Dash, "none"), Unsaid}

Few == {Word(A, "stop"), Word(B, "comma"), Word(C, "none"), InTwo}

Texts(n, kinds) == UNION {[1..k -> kinds] : k \in 1..n}

Readers(texts, limits) ==
    [pages : {<<<<Head(t)>>, Tail(t)>> : t \in texts}, paged : {TRUE}, limit : limits]

AllRequests ==
    [pages : {<<t>> : t \in Texts(2, Plain)}, paged : {FALSE}, limit : {11}]
    \cup Readers(Texts(3, Kinds), {11})
    \cup Readers(Texts(3, Few), {16})
    \cup [pages : {<<SubSeq(t, 1, 2), <<>>, SubSeq(t, 3, 4)>> : t \in [1..4 -> Few]},
          paged : {TRUE}, limit : {16}]

Box(w, h) == [w |-> w, h |-> h]

(* A landscape, an upright and a small video; an upright, a square and a   *)
(* wide presenter.                                                         *)
AllPictures ==
    [frame : {Box(1280, 720), Box(720, 1280), Box(320, 240)},
     faces : {<<Box(540, 960), Box(512, 512), Box(1920, 800)>>},
     position : Positions,
     percent : {5, 40, 90}]

Page == Box(612, 792)
=============================================================================
