-------------------------- MODULE MCLipsyncPipeline --------------------------
(* One document of two chunks asked for in every format; and the reader of *)
(* a document followed by its MP4, whose sentences are split without       *)
(* regard to pages, so that the first chunk comes out differently.         *)
EXTENDS LipsyncPipeline

CONSTANTS t1, t2, t3

MCTexts == {t1, t2, t3}

MCOneContent == [fmt : Formats, chunks : {<<t1, t2>>}]

MCReaderThenMp4 ==
    {[fmt |-> "reader", chunks |-> <<t1, t2>>], [fmt |-> "mp4", chunks |-> <<t3, t2>>]}

MCReaders == [fmt : {"reader"}, chunks : {<<t1, t2>>}]
=============================================================================
