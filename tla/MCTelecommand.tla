--------------------------- MODULE MCTelecommand ---------------------------
(***************************************************************************)
(* An airspace of a few grid points, and a stick that is released or       *)
(* deflected aside.                                                        *)
(***************************************************************************)
EXTENDS Telecommand

MCTargets == {[x |-> 1, z |-> 2]}

MCSticks == {Zero, [x |-> 1, z |-> 0]}
=============================================================================
