--------------------------- MODULE SynthesisService ---------------------------
(***************************************************************************)
(* What POST /synthesize promises a request, with queue and batches        *)
(* abstracted away: requests are answered in the order they came, each     *)
(* once, with its own text in the voice it asked for or with an error, and *)
(* none waits for ever.                                                    *)
(***************************************************************************)
EXTENDS Naturals, Sequences

CONSTANTS
    Requests,   \* requests, each naming its own text
    Voice,      \* the voice each request asks for
    None,       \* no answer yet
    Error       \* an exception instead of audio

VARIABLES
    waiting,    \* accepted requests not answered yet, oldest first
    answer      \* what each request was answered

serviceVars == <<waiting, answer>>

Init ==
    /\ waiting = <<>>
    /\ answer = [r \in Requests |-> None]

Accept(r) ==
    /\ answer[r] = None
    /\ \A i \in 1..Len(waiting) : waiting[i] # r
    /\ waiting' = Append(waiting, r)
    /\ UNCHANGED answer

Answer ==
    /\ waiting # <<>>
    /\ LET r == Head(waiting)
       IN \/ answer' = [answer EXCEPT ![r] = [text |-> r, voice |-> Voice[r]]]
          \/ answer' = [answer EXCEPT ![r] = Error]
    /\ waiting' = Tail(waiting)

Next == (\E r \in Requests : Accept(r)) \/ Answer

Spec == Init /\ [][Next]_serviceVars /\ WF_serviceVars(Answer)
=============================================================================
