------------------------------ MODULE OneOutput ------------------------------
(***************************************************************************)
(* What the NAA relay promises of the audio that passes through it: it is  *)
(* one stream at most, it goes to the endpoint that is chosen, and a       *)
(* choice finds no stream of the choice before it open.                    *)
(***************************************************************************)
CONSTANTS
    Endpoints, Absent,      \* the endpoints, and the choice of none
    Threads                 \* what may hold a stream

VARIABLES
    chosen,     \* the endpoint audio may go to
    streams     \* pairs of a thread and the endpoint it forwards to

outputVars == <<chosen, streams>>

Init == chosen \in Endpoints \cup {Absent} /\ streams = {}

Choose(e) == chosen' = e /\ streams' = {}

Open(t) ==
    /\ streams = {} /\ chosen # Absent
    /\ streams' = {<<t, chosen>>}
    /\ UNCHANGED chosen

Close == streams' = {} /\ UNCHANGED chosen

Next ==
    \/ \E e \in Endpoints \cup {Absent} : Choose(e)
    \/ \E t \in Threads : Open(t)
    \/ Close

Spec == Init /\ [][Next]_outputVars
===============================================================================
