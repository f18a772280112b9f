----------------------------- MODULE RelayContract -----------------------------
(***************************************************************************)
(* What the outputs coordinator may rely on of the NAA relay: its          *)
(* selection, generation and gate, and the one session that it shows.      *)
(* Whatever closes the session begins a new generation, unless the session *)
(* ends by itself; and a session says under which generation it began.     *)
(* NaaRelay implements this, and HqpOutputs is built over it.              *)
(***************************************************************************)
EXTENDS Integers

CONSTANTS Routes, NoRoute

ASSUME ContractAssumption == NoRoute \notin Routes

VARIABLES
    selected,   \* the selected route, or none
    generation, \* grows with every teardown and every supersession
    gate,       \* whether clients are let in
    shown       \* the session's view: since when, and what it has reached

contractVars == <<selected, generation, gate, shown>>

Milestones == {"initialized", "playing"}
Nothing == [since |-> 0, route |-> NoRoute, reached |-> {}]

ContractInit(s) == selected = s /\ generation = 0 /\ gate = TRUE /\ shown = Nothing

Teardown == generation' = generation + 1 /\ shown' = Nothing

CommitSelection(r) == Teardown /\ selected' = r /\ gate' = TRUE

ClearSelection == Teardown /\ selected' = NoRoute /\ gate' = TRUE

\* A removed or edited route, a listener that is stopped, an accept loop that fails.
Deselect == Teardown /\ selected' = NoRoute /\ UNCHANGED gate
Close == Teardown /\ UNCHANGED <<selected, gate>>

BumpGeneration == generation' = generation + 1 /\ UNCHANGED <<selected, gate, shown>>

DisableRouting(g) == g = generation /\ Teardown /\ gate' = FALSE /\ UNCHANGED selected

OpenGate == gate' = TRUE /\ UNCHANGED <<selected, generation, shown>>

\* A client is let in, and its session reaches what it reaches until it ends.
Reserve ==
    /\ shown = Nothing /\ selected # NoRoute /\ gate
    /\ shown' = [since |-> generation, route |-> selected, reached |-> {}]
    /\ UNCHANGED <<selected, generation, gate>>

Report ==
    /\ shown # Nothing
    /\ \E m \in SUBSET Milestones : shown' = [shown EXCEPT !.reached = m]
    /\ UNCHANGED <<selected, generation, gate>>

Finish == shown' = Nothing /\ UNCHANGED <<selected, generation, gate>>

\* The process restarts with some selection that it had saved.
Restart ==
    /\ selected' \in Routes \cup {NoRoute}
    /\ generation' = 0 /\ gate' = TRUE /\ shown' = Nothing

Serving == Reserve \/ Report \/ Finish

ContractNext ==
    \/ \E r \in Routes : CommitSelection(r)
    \/ ClearSelection \/ Deselect \/ Close \/ BumpGeneration \/ OpenGate
    \/ DisableRouting(generation)
    \/ Serving \/ Restart

ContractSpec ==
    /\ \E s \in Routes \cup {NoRoute} : ContractInit(s)
    /\ [][ContractNext]_contractVars
===============================================================================
