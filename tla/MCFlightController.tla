------------------------- MODULE MCFlightController -------------------------
(***************************************************************************)
(* A small airspace for the flight controller.                             *)
(***************************************************************************)
EXTENDS FlightController

\* A target in the air, one near the ground and one beyond the fence.
MCTargets == {[x |-> 2, z |-> 4], [x |-> -1, z |-> 1], [x |-> 9, z |-> 9]}

\* Released, gently aside, and a diagonal far beyond the stick's range.
MCSticks == {Zero, [x |-> -2, z |-> 1], [x |-> 9, z |-> -9],
             [x |-> 0, z |-> 9]}

\* For the run at a low simulation rate: a target one and a half steps away, and a
\* stick that is either released or deflected.
MCCoarseTargets == {[x |-> 9, z |-> 5]}

MCFewSticks == {Zero, [x |-> 1, z |-> -1]}
=============================================================================
