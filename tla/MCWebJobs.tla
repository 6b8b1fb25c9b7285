------------------------------ MODULE MCWebJobs ------------------------------
(* One job, with one request for its MP4 and one for its EPUB.             *)
EXTENDS WebJobs

CONSTANTS c1, c2

MCKinds == {"mp4", "epub"}
MCCalls == {c1, c2}
MCKindOf == [c \in MCCalls |-> IF c = c1 THEN "mp4" ELSE "epub"]
=============================================================================
