------------------------- MODULE MCMavlinkAdapters -------------------------
(***************************************************************************)
(* A drone that shares its link with another, and sticks around the        *)
(* halves of the wire's step.                                              *)
(***************************************************************************)
EXTENDS MavlinkAdapters

MCTargets == {[x |-> 1, z |-> 2]}

\* Released; too weak for the wire; on the wire, one axis lost; within the range,
\* rounded out of the ball; beyond the range.
MCSticks == {Zero, [x |-> 3, z |-> 0], [x |-> 7, z |-> -3],
             [x |-> -15, z |-> 5], [x |-> 0, z |-> 40]}

\* Beyond the range that an axis should have.
MCRaw == {[x |-> -3, z |-> 0]}
=============================================================================
