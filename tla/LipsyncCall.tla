----------------------------- MODULE LipsyncCall -----------------------------
(***************************************************************************)
(* What a caller of remote_generate_lipsync (screencastgen/remote_gpu.py)  *)
(* is promised, with the server, the protocol and every retry abstracted   *)
(* away: a call that starts ends, exactly once; it returns a video only if *)
(* the server made one for it; it raises LipsyncCancelled only if the      *)
(* caller asked it to stop; anything else is an error.                     *)
(***************************************************************************)
CONSTANT Calls

VARIABLES
    started,   \* calls that have been made
    outcome,   \* "pending" until the call returns or raises
    made,      \* calls whose video the server has made
    stop       \* calls whose should_cancel() answers True

callVars == <<started, outcome, made, stop>>

Init ==
    /\ started = {}
    /\ outcome = [c \in Calls |-> "pending"]
    /\ made = {}
    /\ stop = {}

Start(c) ==
    /\ c \notin started
    /\ started' = started \cup {c}
    /\ UNCHANGED <<outcome, made, stop>>

RequestStop(c) ==
    /\ c \notin stop
    /\ stop' = stop \cup {c}
    /\ UNCHANGED <<started, outcome, made>>

(* The server may finish a video whose caller has already given up.        *)
Make(c) ==
    /\ c \in started \ made
    /\ made' = made \cup {c}
    /\ UNCHANGED <<started, outcome, stop>>

Return(c) ==
    /\ c \in started
    /\ outcome[c] = "pending"
    /\ \/ c \in made /\ outcome' = [outcome EXCEPT ![c] = "video"]
       \/ c \in stop /\ outcome' = [outcome EXCEPT ![c] = "cancelled"]
       \/ outcome' = [outcome EXCEPT ![c] = "error"]
    /\ UNCHANGED <<started, made, stop>>

Next == \E c \in Calls : Start(c) \/ RequestStop(c) \/ Make(c) \/ Return(c)

Spec == Init /\ [][Next]_callVars /\ \A c \in Calls : WF_callVars(Return(c))
=============================================================================
