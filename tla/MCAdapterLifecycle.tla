-------------------------- MODULE MCAdapterLifecycle --------------------------
(* A small instance of AdapterLifecycle.  While requests follow one another *)
(* the observers poll and publish as they like.  Two requests overlap only  *)
(* where nothing has been observed, and are then about LMS alone, so that   *)
(* the stops and starts of its observers are all that happens.              *)
EXTENDS AdapterLifecycle

CONSTANTS h1, h2

\* Nothing has been polled, and HQPlayer was never enabled.
Silent ==
    /\ ~disk.hidden /\ ~disk.on["hqplayer"] /\ ~flag["hqplayer"]
    /\ known = {} /\ listed = {} /\ ingress = <<>>
    /\ \A o \in Observers : \A t \in Live(o) : Quiet(worker[o][t])

\* A request is served by the first handler that is free.
FirstFree == handler[h2] = Idle /\ handler'[h2] # Idle => handler[h1] # Idle

MCNext ==
    /\ Next
    /\ FirstFree
    /\ crossed' => Silent'

MCSpec == Init /\ [][MCNext]_vars /\ Fairness
===============================================================================
