-------------------------- MODULE FlightController --------------------------
(***************************************************************************)
(* The flight controller in the drone's simulation loop.  The loop wakes   *)
(* up, reads the clock once, hands to the controller every command that    *)
(* arrived since, runs one simulation step and sleeps: DroneComposition's  *)
(* tick, called from drone_main.  A command is handled with the clock      *)
(* reading of its tick, so time passes only between ticks.                 *)
(***************************************************************************)
EXTENDS FlightStateMachine, FlightDynamics

CONSTANTS
    Ticks,     \* durations between two readings of the clock
    Targets,   \* targets a GOTO may carry, inside the fence or not
    Sticks     \* stick inputs a MANUAL_CONTROL may carry, before any clamp

ASSUME InputAssumption ==
    /\ Ticks \subseteq Nat
    /\ Targets \subseteq Vec3
    /\ Sticks \subseteq Vec3

VARIABLES
    state,          \* FlightController::state_
    fence_engaged,  \* the last integration was stopped by the fence
    transition,     \* mode entered since the last step, if any
    recorded,       \* the last mode transition written to the event log
    awake,          \* the loop is inside a tick
    dt              \* duration of the step this tick runs

vars == <<state, fence_engaged, transition, recorded, awake, dt>>

Init ==
    /\ state = InitialFlightState
    /\ fence_engaged = FALSE
    /\ transition = {}
    /\ recorded = {}
    /\ awake = FALSE
    /\ dt = 0

-----------------------------------------------------------------------------
\* Mutant: the first transition of a tick is the one that is logged.
dispatch_First(s, pending, event, v) ==
    LET outcome == apply(s, event, v)
    IN  [state |-> outcome.state,
         transition |-> IF outcome.mode_changed /\ pending = {}
                        THEN {outcome.state.mode}
                        ELSE pending]

\* FlightController::dispatch, on a state and a pending transition.
dispatch(s, pending, event, v) ==
    LET outcome == apply(s, event, v)
    IN  [state |-> outcome.state,
         transition |-> IF outcome.mode_changed THEN {outcome.state.mode}
                                                ELSE pending]

Command(event, v) ==
    /\ awake
    /\ \E done \in {dispatch(state, transition, event, v)} :
          /\ state' = done.state
          /\ transition' = done.transition
    /\ UNCHANGED <<fence_engaged, recorded, awake, dt>>

Arm == Command("Arm", Zero)

Disarm == Command("Disarm", Zero)

Land == Command("Land", Zero)

Goto(target) == Command("Goto", target)

\* Mutant: the axes are clamped one by one only.
clamped_axes_Box(stick) ==
    [x |-> clamp(stick.x, -FullStick, FullStick),
     z |-> clamp(stick.z, -FullStick, FullStick)]

\* Each axis is clamped to [-1, 1], then the vector to the unit ball.
clamped_axes(stick) ==
    clamp_to_unit_ball([x |-> clamp(stick.x, -FullStick, FullStick),
                        z |-> clamp(stick.z, -FullStick, FullStick)])

ManualInput(stick) ==
    \E axes \in {clamped_axes(stick)} : Command(manual_event(axes), axes)

\* The loop reads the clock, d after its previous reading.
WakeUp(d) ==
    /\ ~awake
    /\ awake' = TRUE
    /\ dt' = d
    /\ state' = aged(state, d)
    /\ UNCHANGED <<fence_engaged, transition, recorded>>

\* Feeds back at most one derived event.
feed(s, pending, events) ==
    IF events = {}
    THEN [state |-> s, transition |-> pending]
    ELSE dispatch(s, pending, the(events), Zero)

\* The time-driven event, the physics, the completion event; then the service
\* consumes the transition and logs it, and the loop goes to sleep.
Step ==
    /\ awake
    /\ \E timed \in {feed(state, transition, timeout_event(state))} :
       \E moved \in {integrate(timed.state, dt)} :
       \E done \in {feed(moved.state, timed.transition,
                        completion_event(moved.state))} :
          /\ state' = done.state
          /\ fence_engaged' = moved.fence_engaged
          /\ recorded' = IF done.transition = {} THEN recorded
                                                 ELSE done.transition
    /\ transition' = {}
    /\ awake' = FALSE
    /\ dt' = 0

Next ==
    \/ \E d \in Ticks : WakeUp(d)
    \/ Arm
    \/ Disarm
    \/ Land
    \/ \E target \in Targets : Goto(target)
    \/ \E stick \in Sticks : ManualInput(stick)
    \/ Step

Spec == Init /\ [][Next]_vars

(***************************************************************************)
(* The loop runs as long as the process does: it wakes up again after      *)
(* every sleep, and it reaches the step of a tick because a tick drains    *)
(* the finite list of messages it polled.  Nothing makes a command arrive. *)
(***************************************************************************)
Fairness == WF_vars(\E d \in Ticks : WakeUp(d)) /\ WF_vars(Step)

FairSpec == Spec /\ Fairness

-----------------------------------------------------------------------------
(***************************************************************************)
(* Safety.                                                                 *)
(***************************************************************************)
OptionalMode == {{}} \cup {{m} : m \in FlightMode}

TypeOK ==
    /\ state \in FlightState
    /\ \A t, u \in state.target : t = u
    /\ fence_engaged \in BOOLEAN
    /\ transition \in OptionalMode
    /\ recorded \in OptionalMode
    /\ awake \in BOOLEAN
    /\ dt \in Nat

\* The motors run in every mode but Disarmed, and they were cut only below the
\* safety altitude: neither a DISARM nor a touchdown stops them higher.
MotorsCutOnlyNearTheGround ==
    /\ state.armed <=> state.mode # "Disarmed"
    /\ ~state.armed => altitude(state) < DisarmAltitude

\* Neither the physics, nor a snap onto a take-off altitude, a target or the
\* ground leaves the fence; an accepted target lies inside it.
InsideFence ==
    /\ contains(state.position)
    /\ \A t \in state.target : contains(t)

\* A stick deflection survives in no mode but Manual, whichever command or
\* completion ended the manual flight, and Manual is never entered without one.
SticksOnlyInManual == state.manual_axes # Zero <=> state.mode = "Manual"

\* A drone in Goto has a target, without which it would hang there for ever,
\* and one that takes off, lands, is flown by hand or is disarmed has none.  Of a
\* drone that holds this says nothing: a centred stick ends a GOTO and leaves its
\* target set, although the field is documented as the active target.
TargetFollowsMode ==
    /\ state.mode = "Goto" => state.target # {}
    /\ state.mode \in {"Takeoff", "Land", "Manual", "Disarmed"} =>
          state.target = {}

\* A drone that holds or is disarmed reports no velocity, whatever it was doing
\* when it entered that mode.
HoverReportsNoVelocity ==
    state.mode \in {"Hold", "Disarmed"} => state.velocity = Zero

\* When a tick ends, a drone flown by hand heard its operator within the
\* timeout, however long the tick before it was delayed.
ManualOnlyWithFreshInput ==
    ~awake /\ state.mode = "Manual" => state.sinceInput =< ManualTimeout

\* However many transitions one tick runs through, a pending one names the
\* present mode, and between ticks the last logged one is the present mode.
LogFollowsMode ==
    /\ transition # {} => transition = {state.mode}
    /\ ~awake => IF recorded = {} THEN state.mode = "Disarmed"
                                  ELSE recorded = {state.mode}

\* The answer to a command tells what became of the drone: an accepted DISARM
\* leaves it disarmed, one accepted as a landing leaves it landing and is given
\* only to a drone too high to be disarmed, an accepted
\* LAND, GOTO or ARM is in force, and a rejected command changes nothing.
HonestAnswers ==
    \A event \in {"Arm", "Disarm", "Land", "Goto"} :
        LET outcome == apply(state, event, Zero)
            mode == outcome.state.mode
        IN  CASE outcome.result = "Rejected" -> outcome.state = state
              [] outcome.result = "AcceptedAsLand" ->
                    /\ event = "Disarm" /\ mode = "Land"
                    /\ altitude(state) >= DisarmAltitude
              [] outcome.result = "Accepted" ->
                    CASE event = "Arm" -> outcome.state.armed
                      [] event = "Disarm" -> mode = "Disarmed"
                      [] event = "Land" -> mode = "Land"
                      [] event = "Goto" -> mode = "Goto"

\* Whatever ended a mode, the next one does not act on what it left: no stick is
\* deflected outside of Manual, no velocity survives into a mode without motion,
\* and a landing, a take-off or a manual flight has no target.
NoLeftovers ==
    SticksOnlyInManual /\ TargetFollowsMode /\ HoverReportsNoVelocity

Safety ==
    /\ TypeOK
    /\ MotorsCutOnlyNearTheGround
    /\ InsideFence
    /\ SticksOnlyInManual
    /\ TargetFollowsMode
    /\ HoverReportsNoVelocity
    /\ ManualOnlyWithFreshInput
    /\ LogFollowsMode

-----------------------------------------------------------------------------
(***************************************************************************)
(* Action properties.                                                      *)
(***************************************************************************)
\* The last bit of a journey that a completion may snap over.
Snap(before, after) ==
    CASE before = "Land" /\ after = "Disarmed" -> DisarmAltitude
      [] before = "Goto" /\ after = "Hold" -> ArrivalTolerance
      [] OTHER -> 0

\* The drone moves sideways only under a GOTO or a fresh stick input, a landing
\* never climbs, and no step carries the drone further than the speed of its mode
\* allows, up to the snap onto a target or the ground: a diagonal stick, the fence
\* and the settling after a take-off included.
MovesOnlyAsItsModeAllows ==
    [][LET moved == minus(state'.position, state.position)
           fresh == state.mode = "Manual" /\ state.sinceInput =< ManualTimeout
           speed == CASE state.mode = "Land" -> LandSpeed
                      [] state.mode = "Takeoff" -> ClimbSpeed
                      [] state.mode = "Goto" -> HorizontalSpeed
                      [] fresh -> IF HorizontalSpeed > ClimbSpeed
                                  THEN HorizontalSpeed ELSE ClimbSpeed
                      [] OTHER -> 0
           reach == speed * dt + Snap(state.mode, state'.mode)
       IN  /\ moved.x # 0 => state.mode = "Goto" \/ fresh
           /\ state.mode = "Land" => moved.z =< 0
           /\ normSquared(moved) =< reach * reach]_vars

\* An automatic phase never turns back and never stands still: each step of the
\* simulation that does not end a take-off lifts the drone, each one that does not
\* end a landing lowers it, and nothing else moves it.  A ceiling below the take-off
\* altitude, at which a climb is clamped, is no exception.
AutomaticPhasesAdvance ==
    [][LET flown == awake /\ ~awake' /\ dt > 0
       IN  /\ state.mode = "Takeoff" /\ state'.mode = "Takeoff" =>
                 IF flown THEN altitude(state') > altitude(state)
                          ELSE altitude(state') = altitude(state)
           /\ state.mode = "Land" /\ state'.mode = "Land" =>
                 IF flown THEN altitude(state') < altitude(state)
                          ELSE altitude(state') = altitude(state)]_vars

-----------------------------------------------------------------------------
(***************************************************************************)
(* The controller implements the contract of the flight modes.             *)
(***************************************************************************)
Contract == INSTANCE FlightContract WITH
    SafetyAltitude <- DisarmAltitude,
    HoverAltitude <- effective_takeoff_altitude,
    mode <- state.mode,
    armed <- state.armed,
    height <- altitude(state)

\* Seen from outside, every tick and every command is a step that the contract
\* allows: a take-off ends at its altitude, a landing on the ground, a drone
\* that holds keeps its altitude and the motors stop near the ground only.
ImplementsContract == Contract!Spec

-----------------------------------------------------------------------------
(***************************************************************************)
(* Liveness.                                                               *)
(***************************************************************************)
\* A landing ends with the motors off, and a take-off ends, whatever commands keep
\* arriving.
AutomaticPhasesEnd ==
    /\ state.mode = "Land" ~> ~state.armed
    /\ state.mode = "Takeoff" ~> state.mode # "Takeoff"

\* A GOTO does not go on for ever: the drone reaches the target and holds,
\* unless another command changes its mode or its target before.
GotoArrives ==
    \A t \in Targets :
        []<>~(state.mode = "Goto" /\ clampToFence(t) \in state.target)
=============================================================================
