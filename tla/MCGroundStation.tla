-------------------------- MODULE MCGroundStation --------------------------
(***************************************************************************)
(* A station whose connection times out after four clock units and which   *)
(* repeats a stick input every three.                                      *)
(***************************************************************************)
EXTENDS GroundStation

CONSTANTS standby, active, near, far, nothing

\* A target inside the fence and one beyond it.
MCTargets == {[x |-> 1, z |-> 1], [x |-> 9, z |-> 9]}

MCSticks == {Zero, [x |-> 1, z |-> 0], [x |-> 0, z |-> -1]}
=============================================================================
