--------------------------- MODULE MCCloudConnector ---------------------------
(***************************************************************************)
(* The waits of the cloud connector, scaled down: 5 s, 30 s and 15 minutes *)
(* against a window of an hour.                                            *)
(***************************************************************************)
EXTENDS CloudConnector

MCSlow == [s \in Steps |-> CASE s = 0 -> 0 [] s = 1 -> 1 [] OTHER -> 2]
===============================================================================
