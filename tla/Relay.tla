------------------------------- MODULE Relay -------------------------------
(***************************************************************************)
(* What a proxied connection promises its two ends, whatever it infers     *)
(* about their session: it is a pair of FIFO channels in which each        *)
(* scenario may interfere once.  Every frame is handed on unchanged and in *)
(* order; one is lost only if a scenario fires in that step or the         *)
(* connection ends; replies are kept back only while some scenario can     *)
(* still fire, and never beyond a ReadyForQuery.                           *)
(***************************************************************************)
EXTENDS Naturals, Sequences

CONSTANTS
    Scenarios,   \* the scenarios
    None         \* no frame

VARIABLES
    open,        \* is the connection still relayed?
    armed,       \* scenarios that have not fired
    queue,       \* replies taken from the server and not handed on
    input,       \* the frame the last step took from either end, or None
    up,          \* frames handed to the server by the last step
    down         \* frames handed to the client by the last step

vars == <<open, armed, queue, input, up, down>>

Init ==
    /\ open = TRUE
    /\ armed = Scenarios
    /\ queue = <<>>
    /\ input = None
    /\ up = <<>>
    /\ down = <<>>

Interfered == armed' # armed

Fire == armed' \subseteq armed

(***************************************************************************)
(* A frame of the client goes up, or is dropped by a scenario.             *)
(***************************************************************************)
PassUp ==
    /\ open
    /\ Fire
    /\ up' = <<input'>> \/ (Interfered /\ up' = <<>>)
    /\ down' = <<>>
    /\ UNCHANGED <<open, queue>>

(***************************************************************************)
(* A frame of the server joins the queue, some of which goes down.         *)
(***************************************************************************)
PassDown ==
    /\ open
    /\ Fire
    /\ down' \o queue' = Append(queue, input')
    /\ queue' # <<>> => input'.tag # "Z" /\ armed' # {}
    /\ up' = <<>>
    /\ UNCHANGED open

(***************************************************************************)
(* A scenario drops a reply; with a ReadyForQuery goes the whole queue.    *)
(***************************************************************************)
Drop ==
    /\ open
    /\ Fire /\ Interfered
    /\ queue' = IF input'.tag = "Z" THEN <<>> ELSE queue
    /\ up' = <<>> /\ down' = <<>>
    /\ UNCHANGED open

(***************************************************************************)
(* The connection ends, in the midst of writing perhaps: what the client   *)
(* gets in this step still comes in order.  The queue is lost with it,     *)
(* after it took one more reply or before.                                 *)
(***************************************************************************)
End ==
    /\ open /\ open' = FALSE
    /\ Fire
    /\ up' \in {<<>>, <<input'>>}
    /\ \/ \E n \in 0 .. Len(queue) : down' = SubSeq(queue, 1, n)
       \/ queue = <<>> /\ down' = <<input'>>
    /\ queue' \in {queue, Append(queue, input'), <<>>}

Next ==
    \/ PassUp
    \/ PassDown
    \/ Drop
    \/ End

Spec == Init /\ [][Next]_vars
=============================================================================
