------------------------------ MODULE Geofence ------------------------------
(***************************************************************************)
(* Vectors and the geofence, which the drone and the ground station share. *)
(*                                                                         *)
(* Space is an integer grid.  A vector has one horizontal axis x, which    *)
(* stands for north and for east (the code treats the two alike), and the  *)
(* altitude z.                                                             *)
(***************************************************************************)
EXTENDS Integers

CONSTANTS
    HalfExtent,   \* half extent of the fence
    Ceiling       \* ceiling of the fence

Vec3 == [x : Int, z : Int]

Zero == [x |-> 0, z |-> 0]

plus(a, b) == [x |-> a.x + b.x, z |-> a.z + b.z]

minus(a, b) == [x |-> a.x - b.x, z |-> a.z - b.z]

clamp(v, lo, hi) == IF v < lo THEN lo ELSE IF v > hi THEN hi ELSE v

-----------------------------------------------------------------------------
(***************************************************************************)
(* A box around the take-off point, whose ground is at altitude zero.      *)
(***************************************************************************)
contains(p) == /\ p.x \in -HalfExtent .. HalfExtent
               /\ p.z \in 0 .. Ceiling

clampToFence(p) == [x |-> clamp(p.x, -HalfExtent, HalfExtent),
                    z |-> clamp(p.z, 0, Ceiling)]
=============================================================================
