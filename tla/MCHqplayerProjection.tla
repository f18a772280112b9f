------------------------- MODULE MCHqplayerProjection -------------------------
(***************************************************************************)
(* One HQPlayer instance, small enough for TLC.  The tasks that publish    *)
(* are named as HqplayerProjection names them.                             *)
(***************************************************************************)
EXTENDS HqplayerProjection

MCPublishers == {<<"worker", i>> : i \in Instances} \cup {<<"endpoint", i>> : i \in Instances}
                  \cup {<<"manager", Lifecycle>>}

=============================================================================
