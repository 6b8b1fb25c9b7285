------------------------------- MODULE ReaderPage -------------------------------
(***************************************************************************)
(* The reader page and the EPUB export of its job: pages/Reader.tsx polls  *)
(* GET .../export-epub/status and sends POST .../export-epub               *)
(* (routers/jobs.py); the export is a task of the worker.                  *)
(*                                                                         *)
(* The polling lives in a React effect that depends on epubStatus: when    *)
(* the status that is shown changes, the effect is cleaned up, the request *)
(* or the timer it had is forgotten, and it starts again.  A GET reads the *)
(* row at one moment and its answer is handled at a later one.             *)
(***************************************************************************)
EXTENDS Naturals

CONSTANT MaxClicks   \* bound

VARIABLES
    shown,             \* epubStatus
    poll, seen,        \* the effect's request or timer; what the request read
    posts,             \* the POST of each click
    export,            \* epub_export_status in the row
    lost, restarted    \* a request failed; a POST began an export anew

pageVars == <<shown, poll, seen, posts, export, lost, restarted>>

ExportStates == {"none", "running", "done", "failed"}
Ended == {"done", "failed"}

PageTypeOK ==
    /\ shown \in ExportStates
    /\ poll \in {"none", "asked", "answered", "timer"}
    /\ seen \in ExportStates
    /\ posts \in [1..MaxClicks -> {"no", "sent", "served", "over"}]
    /\ export \in ExportStates
    /\ lost \in BOOLEAN
    /\ restarted \in BOOLEAN

(* The page is opened, whatever became of an earlier export.               *)
PageInit ==
    /\ shown = "none"
    /\ poll = "asked"
    /\ seen = "none"
    /\ posts = [p \in 1..MaxClicks |-> "no"]
    /\ export \in ExportStates
    /\ lost = FALSE
    /\ restarted = FALSE

(* No page is open.                                                        *)
PageClosed ==
    /\ shown = "none"
    /\ poll = "none"
    /\ seen = "none"
    /\ posts = [p \in 1..MaxClicks |-> "no"]
    /\ export = "none"
    /\ lost = FALSE
    /\ restarted = FALSE

-----------------------------------------------------------------------------
(* Not the code: the effect does not depend on the status.                 *)
ShowsOnly(status) ==
    /\ shown' = status
    /\ UNCHANGED poll

(* setEpubStatus, and the effect if that is a change.                      *)
Shows(status) ==
    /\ shown' = status
    /\ poll' = IF status = shown THEN poll ELSE IF status \in Ended THEN "none" ELSE "asked"

PollServed ==
    /\ poll = "asked"
    /\ poll' = "answered"
    /\ seen' = export
    /\ UNCHANGED <<shown, posts, export, lost, restarted>>

(* The answer; if it changes nothing, the next poll is in three seconds,   *)
(* or never.                                                               *)
PollArrives ==
    /\ poll = "answered"
    /\ IF seen # shown THEN Shows(seen)
       ELSE /\ poll' = IF seen = "running" THEN "timer" ELSE "none"
            /\ UNCHANGED shown
    /\ UNCHANGED <<seen, posts, export, lost, restarted>>

(* catch(() => undefined)                                                  *)
PollFails ==
    /\ poll \in {"asked", "answered"}
    /\ poll' = "none"
    /\ lost' = TRUE
    /\ UNCHANGED <<shown, seen, posts, export, restarted>>

TimerFires ==
    /\ poll = "timer"
    /\ poll' = "asked"
    /\ UNCHANGED <<shown, seen, posts, export, lost, restarted>>

(* handleEpubExport: the button is there unless an export runs or is done. *)
Click(p) ==
    /\ shown \in {"none", "failed"}
    /\ posts[p] = "no"
    /\ posts' = [posts EXCEPT ![p] = "sent"]
    /\ Shows("running")
    /\ UNCHANGED <<seen, export, lost, restarted>>

(* export_lipsync_epub                                                     *)
PostServed(p) ==
    /\ posts[p] = "sent"
    /\ posts' = [posts EXCEPT ![p] = "served"]
    /\ export' = "running"
    /\ restarted' = (restarted \/ export \in Ended)
    /\ UNCHANGED <<shown, poll, seen, lost>>

PostArrives(p) ==
    /\ posts[p] = "served"
    /\ posts' = [posts EXCEPT ![p] = "over"]
    /\ Shows("running")
    /\ UNCHANGED <<seen, export, lost, restarted>>

PostFails(p) ==
    /\ posts[p] \in {"sent", "served"}
    /\ posts' = [posts EXCEPT ![p] = "over"]
    /\ Shows("failed")
    /\ lost' = TRUE
    /\ UNCHANGED <<seen, export, restarted>>

(* run_lipsync_epub_export_task                                            *)
ExportEnds ==
    /\ export = "running"
    /\ export' \in Ended
    /\ UNCHANGED <<shown, poll, seen, posts, lost, restarted>>

PageNext ==
    \/ PollServed \/ PollArrives \/ PollFails \/ TimerFires
    \/ \E p \in 1..MaxClicks : Click(p) \/ PostServed(p) \/ PostArrives(p) \/ PostFails(p)
    \/ ExportEnds

(* A request that does not fail is answered, and a timer fires.            *)
PageFairness ==
    /\ WF_pageVars(PollServed) /\ WF_pageVars(PollArrives) /\ WF_pageVars(TimerFires)
    /\ \A p \in 1..MaxClicks : WF_pageVars(PostServed(p)) /\ WF_pageVars(PostArrives(p))

-----------------------------------------------------------------------------
(* An export that has ended is shown as what it ended as: an answer that   *)
(* is late, a status that is polled before the POST is served, an effect   *)
(* that starts over do not end the polling too early.  A request that      *)
(* fails ends it, and so may an old "failed" or "done" that arrives after  *)
(* the answer to a POST that began the export anew.                        *)
PageLearnsExport ==
    export \in Ended ~> (shown = export \/ lost \/ restarted)
=============================================================================
