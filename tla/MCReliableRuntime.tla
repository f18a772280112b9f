------------------------- MODULE MCReliableRuntime -------------------------
(* Small instances of ReliableRuntime: a Roon zone, confirmed by callbacks  *)
(* through the provider's endpoint, and an HQPlayer zone with an endpoint   *)
(* of its own and reconfigurations.                                         *)
EXTENDS ReliableRuntime

CONSTANTS roonZone, hqpZone, play, load

MCSourceOf == [z \in Zones |-> IF z = roonZone THEN "roon" ELSE "hqplayer"]
MCProviders == {MCSourceOf[z] : z \in Zones}
MCExactProviders == MCProviders \cap {"hqplayer"}
MCCallbackProviders == MCProviders \cap {"roon"}
MCReconfigurations == Commands \ {play}
=============================================================================
