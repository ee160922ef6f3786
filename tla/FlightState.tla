----------------------------- MODULE FlightState -----------------------------
(***************************************************************************)
(* Values of the drone's domain layer: the kinematics, the configuration   *)
(* of the airframe and the flight state that every function of the         *)
(* functional core takes and returns.                                      *)
(*                                                                         *)
(* Time is counted in clock units; a speed is in grid units per clock      *)
(* unit.  A length that the code obtains by a division is truncated toward *)
(* zero to the grid.                                                       *)
(***************************************************************************)
EXTENDS Geofence, FiniteSets

CONSTANTS
    HorizontalSpeed,   \* horizontal_speed_mps, also the speed of a GOTO
    ClimbSpeed,        \* climb_speed_mps
    LandSpeed,         \* land_speed_mps
    TakeoffAltitude,   \* takeoff_altitude_m
    DisarmAltitude,    \* disarm_altitude_m: motors are cut only below it
    ArrivalTolerance,  \* arrival_tolerance_m
    ManualTimeout,     \* manual_timeout, in clock units
    FullStick          \* the grid value of a fully deflected stick (1.0)

(***************************************************************************)
(* The fence is a box around the take-off point and the drone starts on    *)
(* the ground, which is below the altitude where motors may be cut.        *)
(***************************************************************************)
ASSUME FlightConfigAssumption ==
    /\ HorizontalSpeed \in Nat /\ ClimbSpeed \in Nat /\ LandSpeed \in Nat
    /\ TakeoffAltitude \in Nat /\ ArrivalTolerance \in Nat
    /\ ManualTimeout \in Nat /\ HalfExtent \in Nat /\ Ceiling \in Nat
    /\ DisarmAltitude \in Nat \ {0}
    /\ FullStick \in Nat \ {0}

FlightMode == {"Disarmed", "Takeoff", "Hold", "Goto", "Manual", "Land"}

CommandResult == {"Accepted", "AcceptedAsLand", "Rejected"}

-----------------------------------------------------------------------------
(***************************************************************************)
(* Lengths.                                                                *)
(***************************************************************************)
normSquared(v) == v.x * v.x + v.z * v.z

\* Quotient of two integers, truncated toward zero; b is positive.
truncated(a, b) == IF a >= 0 THEN a \div b ELSE -((-a) \div b)

\* The greatest k with k * k <= q.
integerRoot[q \in Nat] == Cardinality({k \in 1 .. q : k * k =< q})

\* Component c of a vector of squared length n, once that vector is scaled to
\* the given length.
scaledComponent(c, n, length) ==
    LET magnitude == integerRoot[(length * length * c * c) \div n]
    IN  IF c >= 0 THEN magnitude ELSE -magnitude

\* v.normalized() * length, for v # Zero.
scaled(v, length) ==
    [x |-> scaledComponent(v.x, normSquared(v), length),
     z |-> scaledComponent(v.z, normSquared(v), length)]

effective_takeoff_altitude ==
    IF TakeoffAltitude < Ceiling THEN TakeoffAltitude ELSE Ceiling

-----------------------------------------------------------------------------
(***************************************************************************)
(* Kinematics.  A velocity appears multiplied by the duration it is held   *)
(* for, so that velocity_towards returns a displacement of length step.    *)
(***************************************************************************)
within(from, to, tolerance) ==
    normSquared(minus(to, from)) =< tolerance * tolerance

velocity_towards(from, to, step, tolerance) ==
    IF within(from, to, tolerance) THEN Zero ELSE scaled(minus(to, from), step)

clamp_to_unit_ball(axes) ==
    IF normSquared(axes) > FullStick * FullStick THEN scaled(axes, FullStick)
                                                 ELSE axes

-----------------------------------------------------------------------------
(***************************************************************************)
(* The flight state.  An optional value is a set with at most one element. *)
(* velocity is the displacement of the last integration step; it is zero,  *)
(* and has the signs, of the velocity the code derives from it by dividing *)
(* by the duration.  sinceInput is now - last_manual_input, which the code *)
(* only compares with the timeout: it stops counting one past it.          *)
(***************************************************************************)
Expired == ManualTimeout + 1

FlightState ==
    [mode : FlightMode, armed : BOOLEAN, position : Vec3, velocity : Vec3,
     target : SUBSET Vec3, manual_axes : Vec3, sinceInput : 0 .. Expired]

InitialFlightState ==
    [mode |-> "Disarmed", armed |-> FALSE, position |-> Zero,
     velocity |-> Zero, target |-> {}, manual_axes |-> Zero,
     sinceInput |-> 0]

altitude(s) == s.position.z

\* The value of an optional that has one.
the(optional) == CHOOSE value \in optional : TRUE

\* The state when the clock has advanced by d.
aged(s, d) ==
    [s EXCEPT !.sinceInput = IF @ + d > Expired THEN Expired ELSE @ + d]
=============================================================================
