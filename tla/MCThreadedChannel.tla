------------------------- MODULE MCThreadedChannel -------------------------
(***************************************************************************)
(* The two ends of the link: the ground station learns its peer, the drone *)
(* is given it.                                                            *)
(***************************************************************************)
EXTENDS ThreadedChannel

CONSTANTS station, drone, self

Unknown == {}
=============================================================================
