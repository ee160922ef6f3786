------------------------- MODULE MCLoopbackNetwork -------------------------
(***************************************************************************)
(* The drone and the station of the integration suite, and a third port    *)
(* that speaks to the station as well.                                     *)
(***************************************************************************)
EXTENDS LoopbackNetwork

CONSTANTS drone, gcs, other

MCPorts == {drone, gcs, other}

MCPeer == (drone :> {gcs}) @@ (gcs :> {}) @@ (other :> {gcs})

MCLearning == {gcs}

MCRatios == {-20, 0, 20, 120}
=============================================================================
