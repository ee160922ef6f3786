--------------------------- MODULE FlightDynamics ---------------------------
(***************************************************************************)
(* How the airframe moves during one simulation step: the displacement the *)
(* mode asks for, and its integration under the geofence.                  *)
(***************************************************************************)
EXTENDS FlightState

\* The desired velocity, multiplied by the duration dt of the step.
desired_velocity(s, dt) ==
    CASE s.mode = "Takeoff" ->
            IF altitude(s) < effective_takeoff_altitude
            THEN [x |-> 0, z |-> ClimbSpeed * dt]
            ELSE Zero
      [] s.mode = "Goto" ->
            IF s.target = {} THEN Zero
            ELSE velocity_towards(s.position, the(s.target),
                                  HorizontalSpeed * dt, ArrivalTolerance)
      [] s.mode = "Manual" ->
            IF s.sinceInput > ManualTimeout THEN Zero
            ELSE [x |-> truncated(s.manual_axes.x * HorizontalSpeed * dt,
                                  FullStick),
                  z |-> truncated(s.manual_axes.z * ClimbSpeed * dt,
                                  FullStick)]
      [] s.mode = "Land" -> [x |-> 0, z |-> -(LandSpeed * dt)]
      [] OTHER -> Zero

\* Moves by a displacement, as far as the fence allows.
displaced(s, displacement) ==
    LET candidate == plus(s.position, displacement)
        clamped == clampToFence(candidate)
    IN  [state |-> [s EXCEPT !.position = clamped,
                             !.velocity = minus(clamped, s.position)],
         fence_engaged |-> clamped # candidate]

integrate(s, dt) ==
    IF dt =< 0 \/ ~s.armed
    THEN [state |-> [s EXCEPT !.velocity = Zero], fence_engaged |-> FALSE]
    ELSE the({displaced(s, v) : v \in {desired_velocity(s, dt)}})
=============================================================================
