----------------------- MODULE FlightControllerProofs -----------------------
(***************************************************************************)
(* Proofs about the flight controller, for every airframe, fence, tick     *)
(* duration and set of inputs the assumptions allow.                       *)
(*                                                                         *)
(* The transition table is read once, in RowEffect: whichever row fires,   *)
(* its effect is one of the ten in TableEffect.  Everything else is proved *)
(* from these effects, from two facts about the geofence and from the      *)
(* shape of the integration.                                               *)
(***************************************************************************)
EXTENDS FlightController, FiniteSetTheorems, TLAPS

-----------------------------------------------------------------------------
(***************************************************************************)
(* Vectors and the fence.                                                  *)
(***************************************************************************)
LEMMA ZeroType == Zero \in Vec3 /\ Zero.x = 0 /\ Zero.z = 0
  BY DEF Zero, Vec3

LEMMA ClampType ==
  ASSUME NEW p \in Vec3
  PROVE  clampToFence(p) \in Vec3 /\ contains(clampToFence(p))
  BY FlightConfigAssumption DEF clampToFence, contains, Vec3, clamp

\* Changing the altitude of a point of the fence, up to the ceiling.
LEMMA AltitudeUpdate ==
  ASSUME NEW p \in Vec3, contains(p), NEW h \in 0 .. Ceiling
  PROVE  /\ [p EXCEPT !.z = h] \in Vec3
         /\ contains([p EXCEPT !.z = h])
         /\ [p EXCEPT !.z = h].z = h
  BY FlightConfigAssumption DEF contains, Vec3

LEMMA TakeoffAltitudeInFence ==
  effective_takeoff_altitude \in 0 .. Ceiling
  BY FlightConfigAssumption DEF effective_takeoff_altitude

LEMMA RootType == \A q \in Nat : integerRoot[q] \in Nat
<1>1. \A q \in Nat : Cardinality({k \in 1 .. q : k * k =< q}) \in Nat
  <2> SUFFICES ASSUME NEW q \in Nat
               PROVE  Cardinality({k \in 1 .. q : k * k =< q}) \in Nat
    OBVIOUS
  <2>1. IsFiniteSet(1 .. q)
    BY FS_Interval
  <2>2. {k \in 1 .. q : k * k =< q} \subseteq 1 .. q
    OBVIOUS
  <2> QED BY <2>1, <2>2, FS_Subset, FS_CardinalityType
<1> QED BY <1>1 DEF integerRoot

LEMMA ScaledType ==
  ASSUME NEW v \in Vec3, normSquared(v) > 0, NEW length \in Nat
  PROVE  scaled(v, length) \in Vec3
<1> DEFINE n == normSquared(v)
           q(c) == (length * length * c * c) \div n
<1>1. v.x \in Int /\ v.z \in Int /\ n \in Nat /\ n > 0
  BY DEF Vec3, normSquared
<1>2. ASSUME NEW c \in Int PROVE q(c) \in Nat
  <2>1. c * c \in Nat
    OBVIOUS
  <2>2. length * length \in Nat
    OBVIOUS
  <2>3. length * length * c * c = (length * length) * (c * c)
    OBVIOUS
  <2>4. (length * length) * (c * c) \in Nat
    <3> DEFINE a == length * length
               b == c * c
    <3>1. a \in Nat /\ b \in Nat BY <2>1, <2>2
    <3> HIDE DEF a, b
    <3>2. a * b \in Nat BY <3>1
    <3> QED BY <3>2 DEF a, b
  <2> DEFINE m == length * length * c * c
  <2>5. m \in Nat BY <2>3, <2>4
  <2> HIDE DEF m, n
  <2>6. m \div n \in Nat BY <2>5, <1>1
  <2> QED BY <2>6 DEF m
<1>3. ASSUME NEW c \in Int PROVE scaledComponent(c, n, length) \in Int
  BY <1>2, RootType DEF scaledComponent
<1> QED BY <1>1, <1>3 DEF scaled, Vec3

LEMMA MinusType ==
  ASSUME NEW a \in Vec3, NEW b \in Vec3
  PROVE  minus(a, b) \in Vec3 /\ normSquared(a) \in Nat
  BY DEF minus, normSquared, Vec3

LEMMA TowardsType ==
  ASSUME NEW from \in Vec3, NEW to \in Vec3, NEW step \in Nat,
         NEW tolerance \in Nat
  PROVE  velocity_towards(from, to, step, tolerance) \in Vec3
<1>1. CASE within(from, to, tolerance)
  BY <1>1, ZeroType DEF velocity_towards
<1>2. CASE ~within(from, to, tolerance)
  <2>1. minus(to, from) \in Vec3 /\ normSquared(minus(to, from)) \in Nat
    BY MinusType
  <2>2. tolerance * tolerance \in Nat
    OBVIOUS
  <2>3. normSquared(minus(to, from)) > 0
    BY <1>2, <2>1, <2>2 DEF within
  <2> QED
    BY <1>2, <2>1, <2>3, ScaledType DEF velocity_towards
<1> QED BY <1>1, <1>2

LEMMA AxesType ==
  ASSUME NEW stick \in Vec3
  PROVE  clamped_axes(stick) \in Vec3
<1> DEFINE box == [x |-> clamp(stick.x, -FullStick, FullStick),
                   z |-> clamp(stick.z, -FullStick, FullStick)]
<1>1. box \in Vec3 /\ FullStick * FullStick \in Nat
  BY FlightConfigAssumption DEF clamp, Vec3
<1>2. normSquared(box) \in Nat
  BY <1>1, MinusType
<1> HIDE DEF box
<1>3. clamp_to_unit_ball(box) \in Vec3
  BY <1>1, <1>2, ScaledType, FlightConfigAssumption DEF clamp_to_unit_ball
<1> QED BY <1>3 DEF clamped_axes, box

LEMMA TruncatedType ==
  ASSUME NEW a \in Int, NEW b \in Nat \ {0}
  PROVE  truncated(a, b) \in Int
  BY DEF truncated

-----------------------------------------------------------------------------
(***************************************************************************)
(* Sound states: what every event and every integration step preserves.    *)
(***************************************************************************)
Sound(s) ==
    /\ s \in FlightState
    /\ \A t, u \in s.target : t = u
    /\ s.armed <=> s.mode # "Disarmed"
    /\ ~s.armed => altitude(s) < DisarmAltitude
    /\ contains(s.position)
    /\ \A t \in s.target : contains(t)
    /\ s.manual_axes # Zero <=> s.mode = "Manual"
    /\ s.mode = "Goto" => s.target # {}
    /\ s.target # {} => s.mode \in {"Goto", "Hold"}
    /\ s.mode \in {"Hold", "Disarmed"} => s.velocity = Zero

LEMMA TheTarget ==
  ASSUME NEW s, Sound(s), s.target # {}
  PROVE  the(s.target) \in s.target /\ the(s.target) \in Vec3
  BY DEF Sound, FlightState, the

LEMMA DesiredVelocityType ==
  ASSUME NEW s, Sound(s), NEW d \in Nat
  PROVE  desired_velocity(s, d) \in Vec3
<1> USE FlightConfigAssumption
<1>1. /\ s.position \in Vec3 /\ s.manual_axes \in Vec3
      /\ s.mode \in FlightMode
  BY DEF Sound, FlightState
<1>2. HorizontalSpeed * d \in Nat /\ ClimbSpeed * d \in Nat /\ LandSpeed * d \in Nat
  OBVIOUS
<1>3. CASE s.mode = "Takeoff"
  BY <1>2, <1>3, ZeroType DEF desired_velocity, Vec3
<1>4. CASE s.mode = "Goto"
  <2>1. the(s.target) \in Vec3
    BY <1>4, TheTarget DEF Sound
  <2>2. velocity_towards(s.position, the(s.target), HorizontalSpeed * d,
                         ArrivalTolerance) \in Vec3
    BY <1>1, <1>2, <2>1, TowardsType
  <2> QED BY <1>4, <2>2, ZeroType DEF desired_velocity
<1>5. CASE s.mode = "Manual"
  <2>1. s.manual_axes.x * HorizontalSpeed * d \in Int
    BY <1>1 DEF Vec3
  <2>2. s.manual_axes.z * ClimbSpeed * d \in Int
    BY <1>1 DEF Vec3
  <2>3. [x |-> truncated(s.manual_axes.x * HorizontalSpeed * d, FullStick),
         z |-> truncated(s.manual_axes.z * ClimbSpeed * d, FullStick)] \in Vec3
    BY <2>1, <2>2, TruncatedType DEF Vec3
  <2> QED BY <1>5, <2>3, ZeroType DEF desired_velocity
<1>6. CASE s.mode = "Land"
  BY <1>2, <1>6 DEF desired_velocity, Vec3
<1>7. CASE s.mode \in {"Hold", "Disarmed"}
  BY <1>7, ZeroType DEF desired_velocity
<1> QED BY <1>1, <1>3, <1>4, <1>5, <1>6, <1>7 DEF FlightMode

(***************************************************************************)
(* Integration moves an armed drone inside the fence and leaves everything *)
(* but the position and the velocity alone.                                *)
(***************************************************************************)
Destination(s, d) ==
    IF d = 0 \/ ~s.armed
    THEN s.position
    ELSE clampToFence(plus(s.position, desired_velocity(s, d)))

LEMMA IntegrateEffect ==
  ASSUME NEW s, Sound(s), NEW d \in Nat
  PROVE  /\ integrate(s, d).state =
              [s EXCEPT !.position = Destination(s, d),
                        !.velocity = minus(Destination(s, d), s.position)]
         /\ integrate(s, d).fence_engaged \in BOOLEAN
<1>0. s \in FlightState /\ s.position \in Vec3 /\ s.armed \in BOOLEAN
  BY DEF Sound, FlightState
<1>1. CASE d = 0 \/ ~s.armed
  <2>1. minus(s.position, s.position) = Zero
    BY <1>0 DEF minus, Zero, Vec3
  <2>2. integrate(s, d) = [state |-> [s EXCEPT !.velocity = Zero],
                           fence_engaged |-> FALSE]
    BY <1>0, <1>1 DEF integrate
  <2>3. [s EXCEPT !.velocity = Zero] =
        [s EXCEPT !.position = s.position, !.velocity = Zero]
    BY <1>0 DEF FlightState
  <2>4. Destination(s, d) = s.position
    BY <1>1 DEF Destination
  <2>5. [s EXCEPT !.position = Destination(s, d),
                  !.velocity = minus(Destination(s, d), s.position)] =
        [s EXCEPT !.position = s.position, !.velocity = Zero]
    BY <2>1, <2>4
  <2> QED BY <2>2, <2>3, <2>5
<1>2. CASE d # 0 /\ s.armed
  <2> DEFINE v == desired_velocity(s, d)
  <2>1. integrate(s, d) = displaced(s, v)
    BY <1>0, <1>2 DEF integrate, the
  <2> QED BY <1>2, <2>1 DEF displaced, Destination
<1> QED BY <1>0, <1>1, <1>2

LEMMA IntegrateSound ==
  ASSUME NEW s, Sound(s), NEW d \in Nat
  PROVE  /\ Sound(integrate(s, d).state)
         /\ integrate(s, d).state.mode = s.mode
         /\ integrate(s, d).state.armed = s.armed
         /\ integrate(s, d).state.position = Destination(s, d)
         /\ integrate(s, d).state.sinceInput = s.sinceInput
         /\ integrate(s, d).state.target = s.target
<1> DEFINE v == desired_velocity(s, d)
           p == Destination(s, d)
           n == [s EXCEPT !.position = p, !.velocity = minus(p, s.position)]
<1>1. integrate(s, d).state = n
  BY IntegrateEffect
<1>2. s \in FlightState /\ s.position \in Vec3
  BY DEF Sound, FlightState
<1>3. v \in Vec3
  BY DesiredVelocityType
<1>4. p \in Vec3 /\ contains(p)
  <2>1. plus(s.position, v) \in Vec3
    BY <1>2, <1>3 DEF plus, Vec3
  <2> QED BY <1>2, <2>1, ClampType DEF Sound, Destination
<1>5. ~s.armed => p = s.position
  BY DEF Destination
<1>6. s.mode = "Hold" => p = s.position
  <2>1. SUFFICES ASSUME s.mode = "Hold", s.armed, d # 0
                 PROVE  clampToFence(plus(s.position, v)) = s.position
    BY DEF Destination
  <2>2. v = Zero
    BY <2>1 DEF desired_velocity
  <2>3. plus(s.position, Zero) = s.position
    BY <1>2 DEF plus, Zero, Vec3
  <2>4. clampToFence(s.position) = s.position
    BY <1>2, FlightConfigAssumption
    DEF Sound, contains, clampToFence, clamp, Vec3
  <2> QED BY <2>2, <2>3, <2>4
<1>7. minus(s.position, s.position) = Zero
  BY <1>2 DEF minus, Zero, Vec3
<1>8. minus(p, s.position) \in Vec3
  BY <1>2, <1>4, MinusType
<1> HIDE DEF p, v
<1>9. n \in FlightState
  BY <1>2, <1>4, <1>8 DEF FlightState
<1>10. /\ n.mode = s.mode /\ n.armed = s.armed /\ n.target = s.target
       /\ n.manual_axes = s.manual_axes /\ n.sinceInput = s.sinceInput
       /\ n.position = p /\ n.velocity = minus(p, s.position)
  BY <1>2 DEF FlightState
<1>11. Sound(n)
  <2> HIDE DEF n
  <2> QED
    BY <1>4, <1>5, <1>6, <1>7, <1>9, <1>10 DEF Sound, altitude
<1>12. n.position = Destination(s, d)
  BY <1>10 DEF p
<1> HIDE DEF n
<1> QED BY <1>1, <1>10, <1>11, <1>12

-----------------------------------------------------------------------------
(***************************************************************************)
(* The transition table.                                                   *)
(***************************************************************************)
\* Every way a row may take state s to state n, on an event with vector v.
TableEffect(s, event, v, n) ==
    \/ n = s
    \/ /\ s.mode = "Disarmed"
       /\ n = [begin_takeoff(s) EXCEPT !.mode = "Takeoff"]
    \/ /\ s.mode \in kArmed /\ below_safety_altitude(s)
       /\ n = [cut_motors(s) EXCEPT !.mode = "Disarmed"]
    \/ /\ s.mode \in kArmed
       /\ n = [begin_land(s) EXCEPT !.mode = "Land"]
    \/ /\ s.mode \in kPilotable
       /\ n = [set_target(s, v) EXCEPT !.mode = "Goto"]
    \/ /\ s.mode \in kPilotable /\ event = "ManualActive"
       /\ n = [set_manual(s, v) EXCEPT !.mode = "Manual"]
    \/ /\ s.mode \in kPilotable
       /\ n = [clear_manual(s) EXCEPT !.mode = "Hold"]
    \/ /\ s.mode = "Takeoff"
       /\ n = [settle_at_takeoff_altitude(s) EXCEPT !.mode = "Hold"]
    \/ /\ s.mode = "Goto"
       /\ n = [settle_at_target(s) EXCEPT !.mode = "Hold"]
    \/ /\ s.mode = "Land"
       /\ n = [touchdown(s) EXCEPT !.mode = "Disarmed"]

LEMMA TableDomain == DOMAIN Table = 1 .. 17
  BY DEF Table, kTransitions

\* Setting the mode a record has already changes nothing.
LEMMA SameModeUpdate ==
  ASSUME NEW s \in FlightState, NEW m, s.mode = m
  PROVE  [s EXCEPT !.mode = m] = s
  BY DEF FlightState

\* The actions of the table keep the mode and build flight states.
LEMMA ActionsKeepMode ==
  ASSUME NEW s \in FlightState, NEW v \in Vec3
  PROVE  /\ begin_land(s) \in FlightState /\ begin_land(s).mode = s.mode
         /\ set_target(s, v) \in FlightState /\ set_target(s, v).mode = s.mode
         /\ set_manual(s, v) \in FlightState /\ set_manual(s, v).mode = s.mode
         /\ clear_manual(s) \in FlightState /\ clear_manual(s).mode = s.mode
<1> USE ZeroType, FlightConfigAssumption
<1>1. begin_land(s) \in FlightState /\ begin_land(s).mode = s.mode
  BY DEF begin_land, FlightState
<1>2. set_target(s, v) \in FlightState /\ set_target(s, v).mode = s.mode
  BY ClampType DEF set_target, FlightState
<1>3. 0 \in 0 .. Expired
  BY DEF Expired
<1>4. set_manual(s, v) \in FlightState /\ set_manual(s, v).mode = s.mode
  BY <1>3 DEF set_manual, FlightState
<1>5. clear_manual(s) \in FlightState /\ clear_manual(s).mode = s.mode
  BY <1>3 DEF clear_manual, FlightState
<1> QED BY <1>1, <1>2, <1>4, <1>5

LEMMA RowEffect ==
  ASSUME NEW i \in 1 .. 17, NEW s \in FlightState, NEW event, NEW v \in Vec3,
         Matches(Table[i], s, event)
  PROVE  /\ TableEffect(s, event, v, Fire(Table[i], s, v).state)
         /\ Fire(Table[i], s, v).mode_changed <=>
              Fire(Table[i], s, v).state.mode # s.mode
<1> DEFINE n == Fire(Table[i], s, v).state
           changed == Fire(Table[i], s, v).mode_changed
<1>0. s.mode \in Table[i].from /\ Table[i].on = event /\ permits(Table[i].guard, s)
  BY DEF Matches
<1>1. CASE i \in {2, 3, 7, 9, 12, 13}
  <2>1. Table[i].to = kSameMode /\ Table[i].action = "identity"
    BY <1>1 DEF Table, kTransitions, Row
  <2>2. n = s /\ ~changed
    BY <2>1 DEF Fire, perform
  <2> QED BY <2>2 DEF TableEffect
<1>2. CASE i = 1
  <2>1. /\ Table[i].from = kGrounded /\ Table[i].to = "Takeoff"
        /\ Table[i].action = "begin_takeoff"
    BY <1>2 DEF Table, kTransitions, kTouchdownTransition, Row
  <2>2. perform(Table[i].action, s, v) = begin_takeoff(s)
    BY <2>1 DEF perform
  <2>3. "Takeoff" # kSameMode
    BY DEF kSameMode
  <2>4. changed /\ n = [begin_takeoff(s) EXCEPT !.mode = "Takeoff"]
    BY <1>0, <2>1, <2>2, <2>3 DEF Fire, kGrounded, kArmed, kPilotable, kAutomatic
  <2>5. n.mode # s.mode
    BY <1>0, <2>1, <2>4 DEF begin_takeoff, FlightState, kGrounded, kArmed, kPilotable, kAutomatic
  <2> QED BY <1>0, <2>1, <2>4, <2>5 DEF TableEffect, kGrounded, kPilotable
<1>3. CASE i = 4
  <2>1. /\ Table[i].from = kArmed /\ Table[i].to = "Disarmed"
        /\ Table[i].action = "cut_motors" /\ Table[i].guard = "below_safety_altitude"
    BY <1>3 DEF Table, kTransitions, kTouchdownTransition, Row
  <2>2. perform(Table[i].action, s, v) = cut_motors(s)
    BY <2>1 DEF perform
  <2>3. "Disarmed" # kSameMode
    BY DEF kSameMode
  <2>4. changed /\ n = [cut_motors(s) EXCEPT !.mode = "Disarmed"]
    BY <1>0, <2>1, <2>2, <2>3 DEF Fire, kGrounded, kArmed, kPilotable, kAutomatic
  <2>5. n.mode # s.mode
    BY <1>0, <2>1, <2>4 DEF cut_motors, FlightState, kGrounded, kArmed, kPilotable, kAutomatic
  <2> QED BY <1>0, <2>1, <2>4, <2>5 DEF TableEffect, kGrounded, permits
<1>4. CASE i \in {5, 6}
  <2>1. /\ Table[i].from = kArmed /\ Table[i].to = "Land"
        /\ Table[i].action = "begin_land"
    BY <1>4 DEF Table, kTransitions, kTouchdownTransition, Row
  <2>2. perform(Table[i].action, s, v) = begin_land(s)
    BY <2>1 DEF perform
  <2>3. "Land" # kSameMode
    BY DEF kSameMode
  <2>4. n = [begin_land(s) EXCEPT !.mode = "Land"]
    BY <2>1, <2>2, <2>3, ActionsKeepMode, SameModeUpdate DEF Fire
  <2>5. changed <=> n.mode # s.mode
    BY <2>1, <2>2, <2>3, <2>4, ActionsKeepMode DEF Fire, FlightState
  <2> QED BY <1>0, <2>1, <2>4, <2>5 DEF TableEffect, kGrounded, kPilotable
<1>5. CASE i = 8
  <2>1. /\ Table[i].from = kPilotable /\ Table[i].to = "Goto"
        /\ Table[i].action = "set_target"
    BY <1>5 DEF Table, kTransitions, kTouchdownTransition, Row
  <2>2. perform(Table[i].action, s, v) = set_target(s, v)
    BY <2>1 DEF perform
  <2>3. "Goto" # kSameMode
    BY DEF kSameMode
  <2>4. n = [set_target(s, v) EXCEPT !.mode = "Goto"]
    BY <2>1, <2>2, <2>3, ActionsKeepMode, SameModeUpdate DEF Fire
  <2>5. changed <=> n.mode # s.mode
    BY <2>1, <2>2, <2>3, <2>4, ActionsKeepMode DEF Fire, FlightState
  <2> QED BY <1>0, <2>1, <2>4, <2>5 DEF TableEffect, kGrounded, kPilotable
<1>6. CASE i = 10
  <2>1. /\ Table[i].from = kPilotable /\ Table[i].to = "Manual"
        /\ Table[i].action = "set_manual" /\ Table[i].on = "ManualActive"
    BY <1>6 DEF Table, kTransitions, kTouchdownTransition, Row
  <2>2. perform(Table[i].action, s, v) = set_manual(s, v)
    BY <2>1 DEF perform
  <2>3. "Manual" # kSameMode
    BY DEF kSameMode
  <2>4. n = [set_manual(s, v) EXCEPT !.mode = "Manual"]
    BY <2>1, <2>2, <2>3, ActionsKeepMode, SameModeUpdate DEF Fire
  <2>5. changed <=> n.mode # s.mode
    BY <2>1, <2>2, <2>3, <2>4, ActionsKeepMode DEF Fire, FlightState
  <2> QED BY <1>0, <2>1, <2>4, <2>5 DEF TableEffect, kGrounded, kPilotable
<1>7. CASE i = 11
  <2>1. /\ Table[i].from = kPilotable /\ Table[i].to = "Hold"
        /\ Table[i].action = "clear_manual"
    BY <1>7 DEF Table, kTransitions, kTouchdownTransition, Row
  <2>2. perform(Table[i].action, s, v) = clear_manual(s)
    BY <2>1 DEF perform
  <2>3. "Hold" # kSameMode
    BY DEF kSameMode
  <2>4. n = [clear_manual(s) EXCEPT !.mode = "Hold"]
    BY <2>1, <2>2, <2>3, ActionsKeepMode, SameModeUpdate DEF Fire
  <2>5. changed <=> n.mode # s.mode
    BY <2>1, <2>2, <2>3, <2>4, ActionsKeepMode DEF Fire, FlightState
  <2> QED BY <1>0, <2>1, <2>4, <2>5 DEF TableEffect, kGrounded, kPilotable
<1>8. CASE i = 14
  <2>1. /\ Table[i].from = {"Takeoff"} /\ Table[i].to = "Hold"
        /\ Table[i].action = "settle_at_takeoff_altitude"
    BY <1>8 DEF Table, kTransitions, kTouchdownTransition, Row
  <2>2. perform(Table[i].action, s, v) = settle_at_takeoff_altitude(s)
    BY <2>1 DEF perform
  <2>3. "Hold" # kSameMode
    BY DEF kSameMode
  <2>4. changed /\ n = [settle_at_takeoff_altitude(s) EXCEPT !.mode = "Hold"]
    BY <1>0, <2>1, <2>2, <2>3 DEF Fire, kGrounded, kArmed, kPilotable, kAutomatic
  <2>5. n.mode # s.mode
    BY <1>0, <2>1, <2>4 DEF settle_at_takeoff_altitude, FlightState, kGrounded, kArmed, kPilotable, kAutomatic
  <2> QED BY <1>0, <2>1, <2>4, <2>5 DEF TableEffect, kGrounded, kPilotable
<1>9. CASE i = 15
  <2>1. /\ Table[i].from = {"Goto"} /\ Table[i].to = "Hold"
        /\ Table[i].action = "settle_at_target"
    BY <1>9 DEF Table, kTransitions, kTouchdownTransition, Row
  <2>2. perform(Table[i].action, s, v) = settle_at_target(s)
    BY <2>1 DEF perform
  <2>3. "Hold" # kSameMode
    BY DEF kSameMode
  <2>4. changed /\ n = [settle_at_target(s) EXCEPT !.mode = "Hold"]
    BY <1>0, <2>1, <2>2, <2>3 DEF Fire, kGrounded, kArmed, kPilotable, kAutomatic
  <2>5. n.mode # s.mode
    BY <1>0, <2>1, <2>4 DEF settle_at_target, FlightState, kGrounded, kArmed, kPilotable, kAutomatic
  <2> QED BY <1>0, <2>1, <2>4, <2>5 DEF TableEffect, kGrounded, kPilotable
<1>10. CASE i = 16
  <2>1. /\ Table[i].from = {"Manual"} /\ Table[i].to = "Hold"
        /\ Table[i].action = "clear_manual"
    BY <1>10 DEF Table, kTransitions, kTouchdownTransition, Row
  <2>2. perform(Table[i].action, s, v) = clear_manual(s)
    BY <2>1 DEF perform
  <2>3. "Hold" # kSameMode
    BY DEF kSameMode
  <2>4. changed /\ n = [clear_manual(s) EXCEPT !.mode = "Hold"]
    BY <1>0, <2>1, <2>2, <2>3 DEF Fire, kGrounded, kArmed, kPilotable, kAutomatic
  <2>5. n.mode # s.mode
    BY <1>0, <2>1, <2>4 DEF clear_manual, FlightState, kGrounded, kArmed, kPilotable, kAutomatic
  <2> QED BY <1>0, <2>1, <2>4, <2>5 DEF TableEffect, kGrounded, kPilotable
<1>11. CASE i = 17
  <2>1. /\ Table[i].from = {"Land"} /\ Table[i].to = "Disarmed"
        /\ Table[i].action = "touchdown"
    BY <1>11 DEF Table, kTransitions, kTouchdownTransition, Row
  <2>2. perform(Table[i].action, s, v) = touchdown(s)
    BY <2>1 DEF perform
  <2>3. "Disarmed" # kSameMode
    BY DEF kSameMode
  <2>4. changed /\ n = [touchdown(s) EXCEPT !.mode = "Disarmed"]
    BY <1>0, <2>1, <2>2, <2>3 DEF Fire, kGrounded, kArmed, kPilotable, kAutomatic
  <2>5. n.mode # s.mode
    BY <1>0, <2>1, <2>4 DEF touchdown, FlightState, kGrounded, kArmed, kPilotable, kAutomatic
  <2> QED BY <1>0, <2>1, <2>4, <2>5 DEF TableEffect, kGrounded
<1> QED
  BY <1>1, <1>2, <1>3, <1>4, <1>5, <1>6, <1>7, <1>8, <1>9, <1>10, <1>11

\* Applying an event has the effect of one row, or none.
LEMMA ApplyEffect ==
  ASSUME NEW s \in FlightState, NEW event, NEW v \in Vec3
  PROVE  /\ TableEffect(s, event, v, apply(s, event, v).state)
         /\ apply(s, event, v).mode_changed <=>
              apply(s, event, v).state.mode # s.mode
<1> DEFINE outcomes == {Fire(row, s, v) : row \in find(s, event)}
<1>1. CASE outcomes = {}
  BY <1>1 DEF apply, TableEffect
<1>2. CASE outcomes # {}
  <2>1. apply(s, event, v) = the(outcomes)
    BY <1>2 DEF apply
  <2>2. the(outcomes) \in outcomes
    BY <1>2 DEF the
  <2>3. PICK row \in find(s, event) : the(outcomes) = Fire(row, s, v)
    BY <2>2
  <2>4. PICK i \in 1 .. 17 : row = Table[i] /\ Matches(Table[i], s, event)
    BY <2>3, TableDomain DEF find, MatchingRows
  <2> QED BY <2>1, <2>3, <2>4, RowEffect
<1> QED BY <1>1, <1>2

\* The events derived from the state have one row each, without a guard, so
\* the scan finds it in the mode it is for.
LEMMA SoleRow ==
  ASSUME NEW s, NEW v, NEW i \in 14 .. 17, s.mode \in Table[i].from
  PROVE  apply(s, Table[i].on, v) = Fire(Table[i], s, v)
<1>1. \A j \in 1 .. 17 : Table[j].on = Table[i].on <=> i = j
  <2>1. /\ Table[14].on = "TakeoffComplete" /\ Table[15].on = "TargetReached"
        /\ Table[16].on = "ManualTimeout" /\ Table[17].on = "Touchdown"
    BY DEF Table, kTransitions, kTouchdownTransition, Row
  <2>2. \A j \in 1 .. 13 : Table[j].on \in
          {"Arm", "Disarm", "Goto", "Land", "ManualActive", "ManualCentred"}
    BY DEF Table, kTransitions, Row
  <2> QED BY <2>1, <2>2
<1>2. Table[i].guard = "none"
  BY DEF Table, kTransitions, kTouchdownTransition, Row
<1>3. Matches(Table[i], s, Table[i].on)
  BY <1>2 DEF Matches, permits
<1>4. MatchingRows(s, Table[i].on) = {i}
  BY <1>1, <1>3, TableDomain DEF MatchingRows, Matches
<1>5. find(s, Table[i].on) = {Table[i]}
  BY <1>4 DEF find
<1> QED BY <1>5 DEF apply, the

\* What each derived event does in its mode.
LEMMA DerivedEffect ==
  ASSUME NEW s \in FlightState
  PROVE  /\ s.mode = "Takeoff" =>
              apply(s, "TakeoffComplete", Zero).state =
              [settle_at_takeoff_altitude(s) EXCEPT !.mode = "Hold"]
         /\ s.mode = "Goto" =>
              apply(s, "TargetReached", Zero).state =
              [settle_at_target(s) EXCEPT !.mode = "Hold"]
         /\ s.mode = "Manual" =>
              apply(s, "ManualTimeout", Zero).state =
              [clear_manual(s) EXCEPT !.mode = "Hold"]
         /\ s.mode = "Land" =>
              apply(s, "Touchdown", Zero).state =
              [touchdown(s) EXCEPT !.mode = "Disarmed"]
<1>1. /\ Table[14] = Row({"Takeoff"}, "TakeoffComplete", "none", "Hold",
                        "settle_at_takeoff_altitude", "Accepted")
      /\ Table[15] = Row({"Goto"}, "TargetReached", "none", "Hold",
                        "settle_at_target", "Accepted")
      /\ Table[16] = Row({"Manual"}, "ManualTimeout", "none", "Hold",
                        "clear_manual", "Accepted")
      /\ Table[17] = Row({"Land"}, "Touchdown", "none", "Disarmed",
                        "touchdown", "Accepted")
  BY DEF Table, kTransitions, kTouchdownTransition
<1>2. ASSUME s.mode = "Takeoff"
      PROVE  apply(s, "TakeoffComplete", Zero).state =
             [settle_at_takeoff_altitude(s) EXCEPT !.mode = "Hold"]
  <2>1. apply(s, "TakeoffComplete", Zero) = Fire(Table[14], s, Zero)
    <3>1. s.mode \in Table[14].from /\ Table[14].on = "TakeoffComplete"
      BY <1>1, <1>2 DEF Row
    <3> QED BY <3>1, SoleRow
  <2> QED BY <1>1, <1>2, <2>1 DEF Fire, perform, Row, kSameMode
<1>3. ASSUME s.mode = "Goto"
      PROVE  apply(s, "TargetReached", Zero).state =
             [settle_at_target(s) EXCEPT !.mode = "Hold"]
  <2>1. apply(s, "TargetReached", Zero) = Fire(Table[15], s, Zero)
    <3>1. s.mode \in Table[15].from /\ Table[15].on = "TargetReached"
      BY <1>1, <1>3 DEF Row
    <3> QED BY <3>1, SoleRow
  <2> QED BY <1>1, <1>3, <2>1 DEF Fire, perform, Row, kSameMode
<1>4. ASSUME s.mode = "Manual"
      PROVE  apply(s, "ManualTimeout", Zero).state =
             [clear_manual(s) EXCEPT !.mode = "Hold"]
  <2>1. apply(s, "ManualTimeout", Zero) = Fire(Table[16], s, Zero)
    <3>1. s.mode \in Table[16].from /\ Table[16].on = "ManualTimeout"
      BY <1>1, <1>4 DEF Row
    <3> QED BY <3>1, SoleRow
  <2> QED BY <1>1, <1>4, <2>1 DEF Fire, perform, Row, kSameMode
<1>5. ASSUME s.mode = "Land"
      PROVE  apply(s, "Touchdown", Zero).state =
             [touchdown(s) EXCEPT !.mode = "Disarmed"]
  <2>1. apply(s, "Touchdown", Zero) = Fire(Table[17], s, Zero)
    <3>1. s.mode \in Table[17].from /\ Table[17].on = "Touchdown"
      BY <1>1, <1>5 DEF Row
    <3> QED BY <3>1, SoleRow
  <2> QED BY <1>1, <1>5, <2>1 DEF Fire, perform, Row, kSameMode
<1> QED BY <1>2, <1>3, <1>4, <1>5

\* A stick input that has been silent for too long ends manual flight.
LEMMA TimeoutHolds ==
  ASSUME NEW s \in FlightState, s.mode = "Manual"
  PROVE  apply(s, "ManualTimeout", Zero).state.mode = "Hold"
<1>1. apply(s, "ManualTimeout", Zero).state = [clear_manual(s) EXCEPT !.mode = "Hold"]
  BY DerivedEffect
<1>2. clear_manual(s) \in FlightState
  BY ActionsKeepMode, ZeroType
<1> QED BY <1>1, <1>2 DEF FlightState

-----------------------------------------------------------------------------
(***************************************************************************)
(* Every effect of the table preserves soundness.                          *)
(***************************************************************************)
LEMMA EffectSound ==
  ASSUME NEW s, Sound(s), NEW event, NEW v \in Vec3,
         event = "ManualActive" => v # Zero,
         NEW n, TableEffect(s, event, v, n)
  PROVE  Sound(n)
<1> USE FlightConfigAssumption, ZeroType
<1>0. s \in FlightState
  BY DEF Sound
<1>1. CASE n = s
  BY <1>1
<1>2. CASE /\ s.mode = "Disarmed"
            /\ n = [begin_takeoff(s) EXCEPT !.mode = "Takeoff"]
  <2>1. n \in FlightState
    BY <1>0, <1>2 DEF begin_takeoff, FlightState, FlightMode, Vec3
  <2>2. /\ n.mode = "Takeoff"
        /\ n.armed
        /\ n.target = {}
        /\ n.manual_axes = Zero
        /\ n.position = s.position
    BY <1>0, <1>2 DEF begin_takeoff, FlightState
  <2> QED BY <1>2, <2>1, <2>2 DEF Sound, altitude, contains, kArmed, kPilotable, kAutomatic, below_safety_altitude
<1>3. CASE /\ s.mode \in kArmed /\ below_safety_altitude(s)
            /\ n = [cut_motors(s) EXCEPT !.mode = "Disarmed"]
  <2>1. n \in FlightState
    BY <1>0, <1>3 DEF cut_motors, FlightState, FlightMode, Vec3
  <2>2. /\ n.mode = "Disarmed"
        /\ ~n.armed
        /\ n.target = {}
        /\ n.manual_axes = Zero
        /\ n.position = s.position
        /\ n.velocity = Zero
    BY <1>0, <1>3 DEF cut_motors, FlightState
  <2> QED BY <1>3, <2>1, <2>2 DEF Sound, altitude, contains, kArmed, kPilotable, kAutomatic, below_safety_altitude
<1>4. CASE /\ s.mode \in kArmed
            /\ n = [begin_land(s) EXCEPT !.mode = "Land"]
  <2>1. n \in FlightState
    BY <1>0, <1>4 DEF begin_land, FlightState, FlightMode, Vec3
  <2>2. /\ n.mode = "Land"
        /\ n.armed = s.armed
        /\ n.target = {}
        /\ n.manual_axes = Zero
        /\ n.position = s.position
    BY <1>0, <1>4 DEF begin_land, FlightState
  <2> QED BY <1>4, <2>1, <2>2 DEF Sound, altitude, contains, kArmed, kPilotable, kAutomatic, below_safety_altitude
<1>5. CASE /\ s.mode \in kPilotable
            /\ n = [set_target(s, v) EXCEPT !.mode = "Goto"]
  <2>1. n \in FlightState
    BY <1>0, <1>5, ClampType DEF set_target, FlightState, FlightMode, Vec3
  <2>2. /\ n.mode = "Goto"
        /\ n.armed = s.armed
        /\ n.target = {clampToFence(v)}
        /\ n.manual_axes = Zero
        /\ n.position = s.position
    BY <1>0, <1>5 DEF set_target, FlightState
  <2> QED BY <1>5, <2>1, <2>2, ClampType DEF Sound, altitude, contains, kArmed, kPilotable, kAutomatic, below_safety_altitude
<1>6. CASE /\ s.mode \in kPilotable /\ event = "ManualActive"
            /\ n = [set_manual(s, v) EXCEPT !.mode = "Manual"]
  <2>1. n \in FlightState
    BY <1>0, <1>6, ActionsKeepMode DEF FlightState, FlightMode
  <2>2. /\ n.mode = "Manual"
        /\ n.armed = s.armed
        /\ n.target = {}
        /\ n.manual_axes = v
        /\ n.position = s.position
    BY <1>0, <1>6 DEF set_manual, FlightState
  <2> QED BY <1>6, <2>1, <2>2 DEF Sound, altitude, contains, kArmed, kPilotable, kAutomatic, below_safety_altitude
<1>7. CASE /\ s.mode \in kPilotable
            /\ n = [clear_manual(s) EXCEPT !.mode = "Hold"]
  <2>1. n \in FlightState
    BY <1>0, <1>7, ActionsKeepMode DEF FlightState, FlightMode
  <2>2. /\ n.mode = "Hold"
        /\ n.armed = s.armed
        /\ n.target = s.target
        /\ n.manual_axes = Zero
        /\ n.position = s.position
        /\ n.velocity = Zero
    BY <1>0, <1>7 DEF clear_manual, FlightState
  <2> QED BY <1>7, <2>1, <2>2 DEF Sound, altitude, contains, kArmed, kPilotable, kAutomatic, below_safety_altitude
<1>8. CASE /\ s.mode = "Takeoff"
            /\ n = [settle_at_takeoff_altitude(s) EXCEPT !.mode = "Hold"]
  <2> DEFINE p == [s.position EXCEPT !.z = effective_takeoff_altitude]
  <2>1. p \in Vec3 /\ contains(p)
    BY <1>0, AltitudeUpdate, TakeoffAltitudeInFence DEF Sound, FlightState
  <2>2. n = [s EXCEPT !.position = p, !.velocity = Zero, !.mode = "Hold"]
    BY <1>0, <1>8 DEF settle_at_takeoff_altitude, FlightState
  <2> HIDE DEF p
  <2>3. n \in FlightState
    BY <1>0, <2>1, <2>2 DEF FlightState, FlightMode
  <2>4. /\ n.mode = "Hold" /\ n.armed = s.armed /\ n.target = s.target
        /\ n.manual_axes = s.manual_axes /\ n.position = p
        /\ n.velocity = Zero
    BY <1>0, <2>2 DEF FlightState
  <2> QED BY <1>8, <2>1, <2>3, <2>4 DEF Sound, altitude
<1>9. CASE /\ s.mode = "Goto"
            /\ n = [settle_at_target(s) EXCEPT !.mode = "Hold"]
  <2>1. n \in FlightState
    BY <1>0, <1>9, TheTarget DEF settle_at_target, FlightState, FlightMode, Vec3
  <2>2. /\ n.mode = "Hold"
        /\ n.armed = s.armed
        /\ n.target = {}
        /\ n.manual_axes = s.manual_axes
        /\ n.position = IF s.target # {} THEN the(s.target) ELSE s.position
        /\ n.velocity = Zero
    BY <1>0, <1>9 DEF settle_at_target, FlightState
  <2> QED BY <1>9, <2>1, <2>2, TheTarget DEF Sound, altitude, contains, kArmed, kPilotable, kAutomatic, below_safety_altitude
<1>10. CASE /\ s.mode = "Land"
            /\ n = [touchdown(s) EXCEPT !.mode = "Disarmed"]
  <2> DEFINE p == [s.position EXCEPT !.z = 0]
  <2>1. p \in Vec3 /\ contains(p) /\ p.z = 0
    BY <1>0, AltitudeUpdate DEF Sound, FlightState
  <2>2. n = [s EXCEPT !.position = p, !.velocity = Zero, !.armed = FALSE,
                      !.target = {}, !.manual_axes = Zero,
                      !.mode = "Disarmed"]
    BY <1>0, <1>10 DEF touchdown, FlightState
  <2> HIDE DEF p
  <2>3. n \in FlightState
    BY <1>0, <2>1, <2>2 DEF FlightState, FlightMode
  <2>4. /\ n.mode = "Disarmed" /\ ~n.armed /\ n.target = {}
        /\ n.manual_axes = Zero /\ n.position = p /\ n.velocity = Zero
    BY <1>0, <2>2 DEF FlightState
  <2> QED BY <2>1, <2>3, <2>4 DEF Sound, altitude
<1> QED
  BY <1>1, <1>2, <1>3, <1>4, <1>5, <1>6, <1>7, <1>8, <1>9, <1>10 DEF TableEffect

-----------------------------------------------------------------------------
(***************************************************************************)
(* The inductive invariant.  LogFollowsMode alone is not inductive: what a *)
(* tick will log is settled while it runs, so the log must agree with the  *)
(* mode whenever no transition is pending, and none is pending between     *)
(* ticks.                                                                  *)
(***************************************************************************)
PendingIsMode(pending, s) ==
    /\ pending \in OptionalMode
    /\ pending # {} => pending = {s.mode}

LogAgrees(s) ==
    IF recorded = {} THEN s.mode = "Disarmed" ELSE recorded = {s.mode}

IInv ==
    /\ Sound(state)
    /\ fence_engaged \in BOOLEAN
    /\ recorded \in OptionalMode
    /\ awake \in BOOLEAN
    /\ dt \in Nat
    /\ PendingIsMode(transition, state)
    /\ transition = {} => LogAgrees(state)
    /\ ~awake => transition = {}
    /\ ManualOnlyWithFreshInput

LEMMA InitSound == Init => IInv
<1> SUFFICES ASSUME Init PROVE IInv
  OBVIOUS
<1> USE FlightConfigAssumption, ZeroType
<1> DEFINE s == InitialFlightState
<1>1. s \in FlightState
  BY DEF InitialFlightState, FlightState, FlightMode, Expired
<1>2. /\ s.mode = "Disarmed" /\ ~s.armed /\ s.position = Zero
      /\ s.velocity = Zero /\ s.target = {} /\ s.manual_axes = Zero
  BY DEF InitialFlightState
<1>3. Sound(s)
  <2> HIDE DEF s
  <2> QED BY <1>1, <1>2 DEF Sound, altitude, contains
<1> QED
  BY <1>2, <1>3 DEF Init, IInv, PendingIsMode, LogAgrees, OptionalMode,
                    ManualOnlyWithFreshInput

LEMMA DispatchSound ==
  ASSUME NEW s, Sound(s), NEW pending, PendingIsMode(pending, s),
         NEW event, NEW v \in Vec3, event = "ManualActive" => v # Zero
  PROVE  /\ Sound(dispatch(s, pending, event, v).state)
         /\ PendingIsMode(dispatch(s, pending, event, v).transition,
                          dispatch(s, pending, event, v).state)
         /\ dispatch(s, pending, event, v).transition = {} =>
              /\ pending = {}
              /\ dispatch(s, pending, event, v).state.mode = s.mode
<1> DEFINE o == apply(s, event, v)
           done == dispatch(s, pending, event, v)
<1>1. s \in FlightState
  BY DEF Sound
<1>2. TableEffect(s, event, v, o.state) /\ (o.mode_changed <=> o.state.mode # s.mode)
  BY <1>1, ApplyEffect
<1>3. Sound(o.state)
  BY <1>2, EffectSound
<1>4. o.state.mode \in FlightMode
  BY <1>3 DEF Sound, FlightState
<1>5. /\ done.state = o.state
      /\ done.transition = IF o.mode_changed THEN {o.state.mode} ELSE pending
  BY DEF dispatch
<1> HIDE DEF o, done
<1>6. PendingIsMode(done.transition, done.state)
  BY <1>2, <1>4, <1>5 DEF PendingIsMode, OptionalMode
<1>7. done.transition = {} => pending = {} /\ done.state.mode = s.mode
  BY <1>2, <1>5
<1> QED BY <1>3, <1>5, <1>6, <1>7 DEF done

DerivedEvent == {"TakeoffComplete", "TargetReached", "ManualTimeout", "Touchdown"}

LEMMA FeedSound ==
  ASSUME NEW s, Sound(s), NEW pending, PendingIsMode(pending, s),
         NEW events \in SUBSET DerivedEvent
  PROVE  /\ Sound(feed(s, pending, events).state)
         /\ PendingIsMode(feed(s, pending, events).transition,
                          feed(s, pending, events).state)
         /\ feed(s, pending, events).transition = {} =>
              /\ pending = {}
              /\ feed(s, pending, events).state.mode = s.mode
<1>1. CASE events = {}
  BY <1>1 DEF feed
<1>2. CASE events # {}
  <2>1. the(events) \in events
    BY <1>2 DEF the
  <2>2. the(events) # "ManualActive"
    BY <2>1 DEF DerivedEvent
  <2>3. feed(s, pending, events) = dispatch(s, pending, the(events), Zero)
    BY <1>2 DEF feed
  <2> QED BY <2>2, <2>3, DispatchSound, ZeroType
<1> QED BY <1>1, <1>2

LEMMA DerivedEvents ==
  ASSUME NEW s
  PROVE  /\ timeout_event(s) \in SUBSET DerivedEvent
         /\ completion_event(s) \in SUBSET DerivedEvent
<1>1. timeout_event(s) \in SUBSET DerivedEvent
  BY DEF timeout_event, DerivedEvent
<1>2. completion_event(s) \in
        {{"TakeoffComplete"}, {"TargetReached"}, {"Touchdown"}, {}}
  BY DEF completion_event
<1> QED BY <1>1, <1>2 DEF DerivedEvent

LEMMA AgedSound ==
  ASSUME NEW s, Sound(s), NEW d \in Nat
  PROVE  Sound(aged(s, d)) /\ aged(s, d).mode = s.mode
<1> DEFINE since == IF s.sinceInput + d > Expired THEN Expired
                                                 ELSE s.sinceInput + d
           n == [s EXCEPT !.sinceInput = since]
<1>1. s \in FlightState /\ s.sinceInput \in 0 .. Expired
  BY DEF Sound, FlightState
<1>2. since \in 0 .. Expired
  BY <1>1, FlightConfigAssumption DEF Expired
<1>3. aged(s, d) = n
  BY <1>1 DEF aged, FlightState
<1> HIDE DEF since
<1>4. n \in FlightState
  BY <1>1, <1>2 DEF FlightState
<1>5. /\ n.mode = s.mode /\ n.armed = s.armed /\ n.target = s.target
      /\ n.manual_axes = s.manual_axes /\ n.position = s.position
      /\ n.velocity = s.velocity
  BY <1>1 DEF FlightState
<1>6. Sound(n)
  <2> HIDE DEF n
  <2> QED BY <1>4, <1>5 DEF Sound, altitude
<1> QED BY <1>3, <1>5, <1>6

LEMMA CommandInductive ==
  ASSUME IInv, NEW event, NEW v \in Vec3, event = "ManualActive" => v # Zero,
         Command(event, v)
  PROVE  IInv'
<1> DEFINE done == dispatch(state, transition, event, v)
<1>1. state' = done.state /\ transition' = done.transition
  BY DEF Command
<1>2. /\ Sound(done.state) /\ PendingIsMode(done.transition, done.state)
      /\ done.transition = {} => transition = {} /\ done.state.mode = state.mode
  BY DispatchSound DEF IInv
<1> HIDE DEF done
<1>3. /\ Sound(state') /\ PendingIsMode(transition', state')
      /\ transition' = {} => transition = {} /\ state'.mode = state.mode
  BY <1>1, <1>2
<1>4. awake /\ awake' = awake /\ dt' = dt /\ recorded' = recorded
      /\ fence_engaged' = fence_engaged
  BY DEF Command
<1> QED
  BY <1>3, <1>4
  DEF IInv, PendingIsMode, LogAgrees, OptionalMode, ManualOnlyWithFreshInput

\* Stepping out of manual flight, and never into it.
LEMMA StepManual ==
  ASSUME NEW s \in FlightState, s.mode # "Manual", NEW pending,
         NEW events \in SUBSET DerivedEvent
  PROVE  feed(s, pending, events).state.mode # "Manual"
<1>1. CASE events = {}
  BY <1>1 DEF feed
<1>2. CASE events # {}
  <2> DEFINE e == the(events)
  <2>1. e # "ManualActive"
    <3>1. e \in events
      BY <1>2 DEF the
    <3> QED BY <3>1 DEF DerivedEvent
  <2> DEFINE n == apply(s, e, Zero).state
  <2> HIDE DEF e
  <2>2. TableEffect(s, e, Zero, n)
    BY ApplyEffect, ZeroType
  <2>3. n.mode # "Manual"
    <3> HIDE DEF n
    <3> QED
      BY <2>1, <2>2
      DEF TableEffect, FlightState, begin_takeoff, cut_motors, begin_land,
          set_target, clear_manual, settle_at_takeoff_altitude,
          settle_at_target, touchdown
  <2>4. feed(s, pending, events).state = n
    BY <1>2 DEF feed, dispatch, e
  <2> QED BY <2>3, <2>4
<1> QED BY <1>1, <1>2

LEMMA StepInductive == IInv /\ Step => IInv'
<1> SUFFICES ASSUME IInv, Step PROVE IInv'
  OBVIOUS
<1> DEFINE timed == feed(state, transition, timeout_event(state))
           moved == integrate(timed.state, dt)
           done == feed(moved.state, timed.transition, completion_event(moved.state))
<1>1. /\ awake /\ state' = done.state /\ fence_engaged' = moved.fence_engaged
      /\ recorded' = IF done.transition = {} THEN recorded ELSE done.transition
      /\ transition' = {} /\ awake' = FALSE /\ dt' = 0
  BY DEF Step
<1>2. /\ Sound(timed.state) /\ PendingIsMode(timed.transition, timed.state)
      /\ timed.transition = {} =>
           transition = {} /\ timed.state.mode = state.mode
  BY FeedSound, DerivedEvents DEF IInv
<1>3. dt \in Nat
  BY DEF IInv
<1> HIDE DEF timed
<1>4. /\ Sound(moved.state) /\ moved.state.mode = timed.state.mode
      /\ moved.state.sinceInput = timed.state.sinceInput
      /\ moved.fence_engaged \in BOOLEAN
  BY <1>2, <1>3, IntegrateSound, IntegrateEffect
<1>5. PendingIsMode(timed.transition, moved.state)
  BY <1>2, <1>4 DEF PendingIsMode
<1> HIDE DEF moved
<1>6. /\ Sound(done.state) /\ PendingIsMode(done.transition, done.state)
      /\ done.transition = {} =>
           timed.transition = {} /\ done.state.mode = moved.state.mode
  BY <1>4, <1>5, FeedSound, DerivedEvents
<1>7. LogAgrees(state)' /\ recorded' \in OptionalMode
  BY <1>1, <1>2, <1>4, <1>6 DEF IInv, LogAgrees, PendingIsMode
<1>8. state'.mode = "Manual" => state'.sinceInput =< ManualTimeout
  <2>1. CASE timed.state.mode # "Manual"
    <3>1. done.state.mode # "Manual"
      BY <1>4, <2>1, StepManual, DerivedEvents DEF Sound
    <3> QED BY <1>1, <3>1
  <2>2. CASE timed.state.mode = "Manual"
    <3>1. state.mode = "Manual"
      BY <2>2, StepManual, DerivedEvents DEF IInv, Sound, timed
    <3>2. timeout_event(state) = {}
      <4>1. SUFFICES ASSUME timeout_event(state) # {} PROVE FALSE
        OBVIOUS
      <4>2. timeout_event(state) = {"ManualTimeout"}
        BY <4>1 DEF timeout_event
      <4>3. timed.state = apply(state, "ManualTimeout", Zero).state
        BY <4>2 DEF timed, feed, dispatch, the
      <4>4. timed.state.mode = "Hold"
        BY <3>1, <4>3, TimeoutHolds DEF IInv, Sound
      <4> QED BY <2>2, <4>4
    <3>3. timed.state = state
      BY <3>2 DEF timed, feed
    <3>4. state.sinceInput =< ManualTimeout
      <4>1. state.sinceInput \in 0 .. Expired
        BY DEF IInv, Sound, FlightState
      <4> QED
        BY <3>1, <3>2, <4>1, FlightConfigAssumption DEF timeout_event, Expired
    <3>5. completion_event(moved.state) = {}
      BY <1>4, <2>2 DEF completion_event
    <3>6. done.state = moved.state
      BY <3>5 DEF feed
    <3> QED BY <1>1, <1>4, <3>3, <3>4, <3>6
  <2> QED BY <2>1, <2>2
<1> HIDE DEF done
<1> QED
  BY <1>1, <1>4, <1>6, <1>7, <1>8
  DEF IInv, PendingIsMode, OptionalMode, LogAgrees, ManualOnlyWithFreshInput

LEMMA IInvStutters ==
  ASSUME IInv, UNCHANGED vars
  PROVE  IInv'
  BY DEF vars, IInv, PendingIsMode, LogAgrees, ManualOnlyWithFreshInput

\* A stick of any value is clamped before the machine sees it.
LEMMA ManualInputInductive ==
  ASSUME IInv, NEW v \in Vec3, ManualInput(v)
  PROVE  IInv'
<1> DEFINE axes == clamped_axes(v)
<1>1. axes \in Vec3
  BY AxesType
<1>2. Command(manual_event(axes), axes)
  BY DEF ManualInput
<1>3. manual_event(axes) = "ManualActive" => axes # Zero
  BY DEF manual_event
<1> HIDE DEF axes
<1> QED BY <1>1, <1>2, <1>3, CommandInductive

LEMMA WakeUpInductive ==
  ASSUME IInv, NEW d \in Nat, WakeUp(d)
  PROVE  IInv'
<1>1. Sound(aged(state, d)) /\ aged(state, d).mode = state.mode
  BY AgedSound DEF IInv
<1> QED
  BY <1>1 DEF WakeUp, IInv, PendingIsMode, LogAgrees, ManualOnlyWithFreshInput

LEMMA Inductive == IInv /\ [Next]_vars => IInv'
<1> SUFFICES ASSUME IInv, [Next]_vars PROVE IInv'
  OBVIOUS
<1>1. ASSUME NEW d \in Ticks, WakeUp(d) PROVE IInv'
  BY <1>1, WakeUpInductive, InputAssumption
<1>2. CASE Arm
  BY <1>2, CommandInductive, ZeroType DEF Arm
<1>3. CASE Disarm
  BY <1>3, CommandInductive, ZeroType DEF Disarm
<1>4. CASE Land
  BY <1>4, CommandInductive, ZeroType DEF Land
<1>5. ASSUME NEW target \in Targets, Goto(target) PROVE IInv'
  <2>1. target \in Vec3
    BY InputAssumption
  <2> QED BY <1>5, <2>1, CommandInductive DEF Goto
<1>6. ASSUME NEW stick \in Sticks, ManualInput(stick) PROVE IInv'
  BY <1>6, ManualInputInductive, InputAssumption
<1>7. CASE Step
  BY <1>7, StepInductive
<1>8. CASE UNCHANGED vars
  BY <1>8, IInvStutters
<1> QED
  BY <1>1, <1>2, <1>3, <1>4, <1>5, <1>6, <1>7, <1>8 DEF Next

LEMMA Invariance == Spec => []IInv
  BY InitSound, Inductive, PTL DEF Spec

-----------------------------------------------------------------------------
(***************************************************************************)
(* The theorems.                                                           *)
(***************************************************************************)
\* The state, the pending transition, the log and the loop keep their types.
THEOREM TypeCorrect == Spec => []TypeOK
<1>1. IInv => TypeOK
  BY DEF IInv, Sound, TypeOK, PendingIsMode
<1> QED BY <1>1, Invariance, PTL

\* In any order of commands and ticks, the motors run in every mode but
\* Disarmed and were cut below the safety altitude only.
THEOREM MotorSafety == Spec => []MotorsCutOnlyNearTheGround
<1>1. IInv => MotorsCutOnlyNearTheGround
  BY DEF IInv, Sound, MotorsCutOnlyNearTheGround
<1> QED BY <1>1, Invariance, PTL

\* The drone and its target never leave the fence, whatever its size, the
\* speeds, the durations of the ticks and the targets asked for.
THEOREM FenceSafety == Spec => []InsideFence
<1>1. IInv => InsideFence
  BY DEF IInv, Sound, InsideFence
<1> QED BY <1>1, Invariance, PTL

\* A stick deflection does not outlive the manual flight it belongs to.
THEOREM SticksAreDropped == Spec => []SticksOnlyInManual
<1>1. IInv => SticksOnlyInManual
  BY DEF IInv, Sound, SticksOnlyInManual
<1> QED BY <1>1, Invariance, PTL

\* No flight to a target is without one, and a take-off, a landing, a manual flight
\* and a disarmed drone have none.
THEOREM TargetsAreDropped == Spec => []TargetFollowsMode
<1>1. IInv => TargetFollowsMode
  BY DEF IInv, Sound, TargetFollowsMode
<1> QED BY <1>1, Invariance, PTL

\* A velocity does not outlive the motion it belongs to.
THEOREM VelocitiesAreDropped == Spec => []HoverReportsNoVelocity
<1>1. IInv => HoverReportsNoVelocity
  BY DEF IInv, Sound, HoverReportsNoVelocity
<1> QED BY <1>1, Invariance, PTL

\* No mode acts on what another left: sticks, velocities and targets.
THEOREM NothingIsLeftOver == Spec => []NoLeftovers
BY SticksAreDropped, TargetsAreDropped, VelocitiesAreDropped, PTL DEF NoLeftovers

\* No tick, however long, ends in manual flight with stale sticks.
THEOREM FreshManual == Spec => []ManualOnlyWithFreshInput
<1>1. IInv => ManualOnlyWithFreshInput
  BY DEF IInv
<1> QED BY <1>1, Invariance, PTL

\* Between ticks the last logged transition is the mode of the drone.
THEOREM LogIsCurrent == Spec => []LogFollowsMode
<1>1. IInv => LogFollowsMode
  BY DEF IInv, LogFollowsMode, PendingIsMode, LogAgrees
<1> QED BY <1>1, Invariance, PTL

-----------------------------------------------------------------------------
(***************************************************************************)
(* The answers.  The first row that matches decides, so the rows of every  *)
(* command are read in their order.                                        *)
(***************************************************************************)
LEMMA FirstMatch ==
  ASSUME NEW s, NEW event, NEW v, NEW i \in 1 .. 17,
         Matches(Table[i], s, event),
         \A j \in 1 .. 17 : j < i => ~Matches(Table[j], s, event)
  PROVE  apply(s, event, v) = Fire(Table[i], s, v)
<1>1. i \in MatchingRows(s, event) /\ MatchingRows(s, event) \subseteq 1 .. 17
  BY TableDomain DEF MatchingRows
<1>2. \A j \in MatchingRows(s, event) : i =< j
  BY <1>1 DEF MatchingRows
<1>3. find(s, event) = {Table[i]}
  <2>1. \A k \in MatchingRows(s, event) :
          (\A j \in MatchingRows(s, event) : k =< j) => k = i
    BY <1>1, <1>2
  <2> QED BY <1>1, <1>2, <2>1 DEF find
<1> QED BY <1>3 DEF apply, the

\* The rows of the four commands.
LEMMA CommandRows ==
  /\ \A i \in 1 .. 17 :
        /\ Table[i].on = "Arm" <=> i \in {1, 2}
        /\ Table[i].on = "Disarm" <=> i \in {3, 4, 5}
        /\ Table[i].on = "Land" <=> i \in {6, 7}
        /\ Table[i].on = "Goto" <=> i \in {8, 9}
  /\ \A i \in (1 .. 9) \ {4} : Table[i].guard = "none"
  /\ Table[4].guard = "below_safety_altitude"
  /\ \A i \in {1, 3, 7} : Table[i].from = kGrounded
  /\ \A i \in {2, 4, 5, 6} : Table[i].from = kArmed
  /\ Table[8].from = kPilotable /\ Table[9].from = kAutomatic \cup kGrounded
<1>1. \A i \in 1 .. 17 :
        /\ Table[i].on = "Arm" <=> i \in {1, 2}
        /\ Table[i].on = "Disarm" <=> i \in {3, 4, 5}
        /\ Table[i].on = "Land" <=> i \in {6, 7}
        /\ Table[i].on = "Goto" <=> i \in {8, 9}
  <2>1. /\ Table[1].on = "Arm" /\ Table[2].on = "Arm"
        /\ Table[3].on = "Disarm" /\ Table[4].on = "Disarm"
        /\ Table[5].on = "Disarm" /\ Table[6].on = "Land"
        /\ Table[7].on = "Land" /\ Table[8].on = "Goto" /\ Table[9].on = "Goto"
    BY DEF Table, kTransitions, Row
  <2>2. \A i \in 10 .. 17 : Table[i].on \in
          {"ManualActive", "ManualCentred", "TakeoffComplete", "TargetReached",
           "ManualTimeout", "Touchdown"}
    BY DEF Table, kTransitions, kTouchdownTransition, Row
  <2> QED BY <2>1, <2>2
<1>2. /\ \A i \in (1 .. 9) \ {4} : Table[i].guard = "none"
      /\ Table[4].guard = "below_safety_altitude"
  BY DEF Table, kTransitions, Row
<1>3. /\ \A i \in {1, 3, 7} : Table[i].from = kGrounded
      /\ \A i \in {2, 4, 5, 6} : Table[i].from = kArmed
      /\ Table[8].from = kPilotable /\ Table[9].from = kAutomatic \cup kGrounded
  BY DEF Table, kTransitions, Row
<1> QED BY <1>1, <1>2, <1>3

\* The answer to a command, and the mode it leads to.
Outcome(s, event, o) ==
    CASE event = "Arm" ->
            /\ o.result = "Accepted"
            /\ o.state.mode = IF s.mode = "Disarmed" THEN "Takeoff" ELSE s.mode
      [] event = "Disarm" ->
            IF s.mode = "Disarmed" \/ below_safety_altitude(s)
            THEN o.result = "Accepted" /\ o.state.mode = "Disarmed"
            ELSE o.result = "AcceptedAsLand" /\ o.state.mode = "Land"
      [] event = "Land" ->
            IF s.mode = "Disarmed"
            THEN o.result = "Rejected" /\ o.state = s
            ELSE o.result = "Accepted" /\ o.state.mode = "Land"
      [] event = "Goto" ->
            IF s.mode \in kPilotable
            THEN o.result = "Accepted" /\ o.state.mode = "Goto"
            ELSE o.result = "Rejected" /\ o.state = s

LEMMA CommandOutcome ==
  ASSUME NEW s \in FlightState, NEW event \in {"Arm", "Disarm", "Land", "Goto"},
         NEW v \in Vec3
  PROVE  Outcome(s, event, apply(s, event, v))
<1> DEFINE fires(i) == apply(s, event, v) = Fire(Table[i], s, v)
<1>0. s.mode \in FlightMode
  BY DEF FlightState
<1>1. /\ s.mode \in kGrounded <=> s.mode = "Disarmed"
      /\ s.mode \in kArmed <=> s.mode # "Disarmed"
      /\ s.mode \in kAutomatic \cup kGrounded <=> s.mode \notin kPilotable
  BY <1>0 DEF kGrounded, kArmed, kAutomatic, kPilotable, FlightMode
<1>2. \A i \in 1 .. 9 : Matches(Table[i], s, event) <=>
        /\ Table[i].on = event /\ s.mode \in Table[i].from
        /\ i = 4 => below_safety_altitude(s)
  BY CommandRows DEF Matches, permits
<1>3. ASSUME NEW i \in 1 .. 9, Matches(Table[i], s, event),
             \A j \in 1 .. 9 : j < i => ~Matches(Table[j], s, event)
      PROVE  fires(i)
  BY <1>3, FirstMatch
<1> HIDE DEF fires
<1>4. CASE event = "Arm"
  <2>1. IF s.mode = "Disarmed" THEN fires(1) ELSE fires(2)
    BY <1>1, <1>2, <1>3, <1>4, CommandRows
  <2>2. fires(1) => /\ apply(s, event, v).result = "Accepted"
                    /\ apply(s, event, v).state.mode = "Takeoff"
    BY DEF fires, Fire, Table, kTransitions, Row, perform, begin_takeoff,
           kSameMode, FlightState
  <2>3. fires(2) => /\ apply(s, event, v).result = "Accepted"
                    /\ apply(s, event, v).state = s
    BY DEF fires, Fire, Table, kTransitions, Row, perform, kSameMode
  <2> QED BY <1>4, <2>1, <2>2, <2>3 DEF Outcome
<1>5. CASE event = "Disarm"
  <2>1. IF s.mode = "Disarmed" THEN fires(3)
        ELSE IF below_safety_altitude(s) THEN fires(4) ELSE fires(5)
    BY <1>1, <1>2, <1>3, <1>5, CommandRows
  <2>2. fires(3) => /\ apply(s, event, v).result = "Accepted"
                    /\ apply(s, event, v).state = s
    BY DEF fires, Fire, Table, kTransitions, Row, perform, kSameMode
  <2>3. fires(4) => /\ apply(s, event, v).result = "Accepted"
                    /\ apply(s, event, v).state.mode = "Disarmed"
    BY DEF fires, Fire, Table, kTransitions, Row, perform, cut_motors,
           kSameMode, FlightState
  <2>4. fires(5) => /\ apply(s, event, v).result = "AcceptedAsLand"
                    /\ apply(s, event, v).state.mode = "Land"
    BY DEF fires, Fire, Table, kTransitions, Row, perform, begin_land,
           kSameMode, FlightState
  <2> QED BY <1>5, <2>1, <2>2, <2>3, <2>4 DEF Outcome
<1>6. CASE event = "Land"
  <2>1. IF s.mode = "Disarmed" THEN fires(7) ELSE fires(6)
    BY <1>1, <1>2, <1>3, <1>6, CommandRows
  <2>2. fires(7) => /\ apply(s, event, v).result = "Rejected"
                    /\ apply(s, event, v).state = s
    BY DEF fires, Fire, Table, kTransitions, Row, perform, kSameMode
  <2>3. fires(6) => /\ apply(s, event, v).result = "Accepted"
                    /\ apply(s, event, v).state.mode = "Land"
    BY DEF fires, Fire, Table, kTransitions, Row, perform, begin_land,
           kSameMode, FlightState
  <2> QED BY <1>6, <2>1, <2>2, <2>3 DEF Outcome
<1>7. CASE event = "Goto"
  <2>1. IF s.mode \in kPilotable THEN fires(8) ELSE fires(9)
    BY <1>1, <1>2, <1>3, <1>7, CommandRows
  <2>2. fires(8) => /\ apply(s, event, v).result = "Accepted"
                    /\ apply(s, event, v).state.mode = "Goto"
    BY DEF fires, Fire, Table, kTransitions, Row, perform, set_target,
           kSameMode, FlightState
  <2>3. fires(9) => /\ apply(s, event, v).result = "Rejected"
                    /\ apply(s, event, v).state = s
    BY DEF fires, Fire, Table, kTransitions, Row, perform, kSameMode
  <2> QED BY <1>7, <2>1, <2>2, <2>3 DEF Outcome
<1> QED BY <1>4, <1>5, <1>6, <1>7

Honest(event, o) ==
    CASE o.result = "Rejected" -> o.state = state
      [] o.result = "AcceptedAsLand" ->
            /\ event = "Disarm" /\ o.state.mode = "Land"
            /\ altitude(state) >= DisarmAltitude
      [] o.result = "Accepted" ->
            CASE event = "Arm" -> o.state.armed
              [] event = "Disarm" -> o.state.mode = "Disarmed"
              [] event = "Land" -> o.state.mode = "Land"
              [] event = "Goto" -> o.state.mode = "Goto"

\* No command is answered with what did not happen, in any state the drone can
\* reach and whatever the table's guards shadow.
THEOREM AnswersAreHonest == Spec => []HonestAnswers
<1>1. IInv => HonestAnswers
  <2> SUFFICES ASSUME IInv, NEW event \in {"Arm", "Disarm", "Land", "Goto"}
               PROVE  Honest(event, apply(state, event, Zero))
    BY DEF HonestAnswers, Honest
  <2> DEFINE outcome == apply(state, event, Zero)
  <2>1. Sound(state) /\ state \in FlightState
    BY DEF IInv, Sound
  <2>2. Outcome(state, event, outcome)
    BY <2>1, CommandOutcome, ZeroType
  <2>3. Sound(outcome.state)
    BY <2>1, ApplyEffect, EffectSound, ZeroType
  <2>4. ~below_safety_altitude(state) => altitude(state) >= DisarmAltitude
    BY <2>1, FlightConfigAssumption
    DEF below_safety_altitude, altitude, FlightState, Vec3
  <2> HIDE DEF outcome
  <2>5. ASSUME event = "Arm" PROVE Honest(event, outcome)
    BY <2>1, <2>2, <2>3, <2>5 DEF Outcome, Sound, Honest
  <2>6. ASSUME event = "Disarm" PROVE Honest(event, outcome)
    BY <2>2, <2>4, <2>6 DEF Outcome, Honest
  <2>7. ASSUME event \in {"Land", "Goto"} PROVE Honest(event, outcome)
    BY <2>2, <2>7 DEF Outcome, Honest
  <2> QED BY <2>5, <2>6, <2>7 DEF outcome
<1> QED BY <1>1, Invariance, PTL

-----------------------------------------------------------------------------
(***************************************************************************)
(* The controller implements the contract of the flight modes.             *)
(***************************************************************************)
Outside(s) == <<s.mode, s.armed, altitude(s)>>

\* Every effect of the table, on its own, is a step of the contract.
ContractStep(s, n) ==
    \/ Outside(n) = Outside(s)
    \/ /\ s.mode = "Disarmed" /\ n.mode = "Takeoff"
       /\ n.armed /\ altitude(n) = altitude(s)
    \/ /\ s.mode = "Takeoff" /\ n.mode = "Takeoff"
       /\ n.armed = s.armed /\ altitude(n) \in altitude(s) .. Ceiling
    \/ /\ s.mode = "Takeoff" /\ n.mode = "Hold"
       /\ n.armed = s.armed /\ altitude(n) = effective_takeoff_altitude
    \/ /\ s.mode \in kPilotable /\ n.mode \in kPilotable
       /\ n.armed = s.armed /\ altitude(n) \in 0 .. Ceiling
       /\ s.mode = "Hold" => altitude(n) = altitude(s)
    \/ /\ s.mode \in kPilotable \cup {"Takeoff"} /\ n.mode = "Land"
       /\ n.armed = s.armed /\ altitude(n) = altitude(s)
    \/ /\ s.mode = "Land" /\ n.mode = "Land"
       /\ n.armed = s.armed /\ altitude(n) \in 0 .. altitude(s)
    \/ /\ s.mode = "Land" /\ n.mode = "Disarmed"
       /\ ~n.armed /\ altitude(n) = 0
    \/ /\ s.mode # "Disarmed" /\ n.mode = "Disarmed"
       /\ altitude(s) < DisarmAltitude
       /\ ~n.armed /\ altitude(n) = altitude(s)

LEMMA ContractStepIsNext ==
  ASSUME ContractStep(state, state')
  PROVE  [Contract!Next]_(Contract!vars)
<1>1. CASE Outside(state') = Outside(state)
  BY <1>1 DEF Outside, Contract!vars, altitude
<1>2. CASE Outside(state') # Outside(state)
  BY <1>2
  DEF ContractStep, altitude, kPilotable, Contract!Next, Contract!StartMotors,
      Contract!Climb, Contract!Hover, Contract!Fly, Contract!StartLanding,
      Contract!Descend, Contract!Touchdown, Contract!CutMotors, Contract!Flown
<1> QED BY <1>1, <1>2

LEMMA EffectIsContractStep ==
  ASSUME NEW s, Sound(s), NEW event, NEW v \in Vec3, NEW n,
         TableEffect(s, event, v, n), Sound(n)
  PROVE  ContractStep(s, n)
<1>0. s \in FlightState /\ s.position \in Vec3
  BY DEF Sound, FlightState
<1>1. altitude(s) \in 0 .. Ceiling /\ altitude(n) \in 0 .. Ceiling
  BY DEF Sound, contains, altitude
<1>2. CASE n = s
  BY <1>2 DEF ContractStep
<1>3. CASE s.mode = "Disarmed" /\ n = [begin_takeoff(s) EXCEPT !.mode = "Takeoff"]
  BY <1>0, <1>3 DEF ContractStep, begin_takeoff, FlightState, altitude
<1>4. CASE /\ s.mode \in kArmed /\ below_safety_altitude(s)
           /\ n = [cut_motors(s) EXCEPT !.mode = "Disarmed"]
  BY <1>0, <1>4 DEF ContractStep, cut_motors, FlightState, altitude,
     below_safety_altitude, kArmed, kPilotable, kAutomatic
<1>5. CASE s.mode \in kArmed /\ n = [begin_land(s) EXCEPT !.mode = "Land"]
  <2>1. n.mode = "Land" /\ n.armed = s.armed /\ altitude(n) = altitude(s)
    BY <1>0, <1>5 DEF begin_land, FlightState, altitude
  <2> QED BY <1>1, <1>5, <2>1
          DEF ContractStep, Outside, kArmed, kPilotable, kAutomatic
<1>6. CASE s.mode \in kPilotable /\ n = [set_target(s, v) EXCEPT !.mode = "Goto"]
  <2>1. n.mode = "Goto" /\ n.armed = s.armed /\ altitude(n) = altitude(s)
    BY <1>0, <1>6 DEF set_target, FlightState, altitude
  <2> QED BY <1>1, <1>6, <2>1 DEF ContractStep, kPilotable
<1>7. CASE s.mode \in kPilotable /\ n = [set_manual(s, v) EXCEPT !.mode = "Manual"]
  <2>1. n.mode = "Manual" /\ n.armed = s.armed /\ altitude(n) = altitude(s)
    BY <1>0, <1>7 DEF set_manual, FlightState, altitude
  <2> QED BY <1>1, <1>7, <2>1 DEF ContractStep, kPilotable
<1>8. CASE s.mode \in kPilotable /\ n = [clear_manual(s) EXCEPT !.mode = "Hold"]
  <2>1. n.mode = "Hold" /\ n.armed = s.armed /\ altitude(n) = altitude(s)
    BY <1>0, <1>8 DEF clear_manual, FlightState, altitude
  <2> QED BY <1>1, <1>8, <2>1 DEF ContractStep, kPilotable
<1>9. CASE /\ s.mode = "Takeoff"
           /\ n = [settle_at_takeoff_altitude(s) EXCEPT !.mode = "Hold"]
  <2>1. /\ n.mode = "Hold" /\ n.armed = s.armed
        /\ altitude(n) = effective_takeoff_altitude
    BY <1>0, <1>9 DEF settle_at_takeoff_altitude, FlightState, altitude, Vec3
  <2> QED BY <1>9, <2>1 DEF ContractStep
<1>10. CASE s.mode = "Goto" /\ n = [settle_at_target(s) EXCEPT !.mode = "Hold"]
  <2>1. n.mode = "Hold" /\ n.armed = s.armed
    BY <1>0, <1>10 DEF settle_at_target, FlightState
  <2> QED BY <1>1, <1>10, <2>1 DEF ContractStep, kPilotable
<1>11. CASE s.mode = "Land" /\ n = [touchdown(s) EXCEPT !.mode = "Disarmed"]
  <2>1. n.mode = "Disarmed" /\ ~n.armed /\ altitude(n) = 0
    BY <1>0, <1>11 DEF touchdown, FlightState, altitude, Vec3
  <2> QED BY <1>11, <2>1 DEF ContractStep
<1> QED
  BY <1>2, <1>3, <1>4, <1>5, <1>6, <1>7, <1>8, <1>9, <1>10, <1>11 DEF TableEffect

\* How far a mode may change the altitude in one integration.
LEMMA IntegratedAltitude ==
  ASSUME NEW s, Sound(s), NEW d \in Nat
  PROVE  LET n == integrate(s, d).state
         IN  /\ n.mode = s.mode /\ n.armed = s.armed
             /\ altitude(n) \in 0 .. Ceiling
             /\ s.mode \in {"Disarmed", "Hold"} => altitude(n) = altitude(s)
             /\ s.mode = "Takeoff" => altitude(n) \in altitude(s) .. Ceiling
             /\ s.mode = "Land" => altitude(n) \in 0 .. altitude(s)
<1> DEFINE n == integrate(s, d).state
           v == desired_velocity(s, d)
           z == clamp(altitude(s) + v.z, 0, Ceiling)
<1> USE FlightConfigAssumption
<1>0. s \in FlightState /\ s.position \in Vec3 /\ v \in Vec3
  BY DesiredVelocityType DEF Sound, FlightState
<1>1. /\ Sound(n) /\ n.mode = s.mode /\ n.armed = s.armed
      /\ n.position = Destination(s, d)
  BY IntegrateSound
<1>2. altitude(n) \in 0 .. Ceiling /\ altitude(s) \in 0 .. Ceiling
  BY <1>1 DEF Sound, contains, altitude
<1>5. altitude(n) = IF d = 0 \/ ~s.armed THEN altitude(s) ELSE z
  BY <1>0, <1>1 DEF Destination, plus, clampToFence, altitude
<1>6. s.mode = "Disarmed" => altitude(n) = altitude(s)
  BY <1>5 DEF Sound
<1>7. s.mode = "Hold" => altitude(n) = altitude(s)
  <2>1. s.mode = "Hold" => v.z = 0
    BY ZeroType DEF desired_velocity
  <2> QED BY <1>2, <1>5, <2>1 DEF clamp
<1>8. s.mode = "Takeoff" => altitude(n) >= altitude(s)
  <2>1. s.mode = "Takeoff" => v.z = 0 \/ v.z = ClimbSpeed * d
    BY ZeroType DEF desired_velocity
  <2>2. ClimbSpeed * d \in Nat
    OBVIOUS
  <2> QED BY <1>0, <1>2, <1>5, <2>1, <2>2 DEF clamp, Vec3
<1>9. s.mode = "Land" => altitude(n) =< altitude(s)
  <2>1. s.mode = "Land" => v.z = -(LandSpeed * d)
    BY DEF desired_velocity
  <2>2. LandSpeed * d \in Nat
    OBVIOUS
  <2> QED BY <1>0, <1>2, <1>5, <2>1, <2>2 DEF clamp, Vec3
<1> HIDE DEF n
<1>10. altitude(n) \in Int /\ altitude(s) \in Int
  BY <1>2
<1> QED BY <1>1, <1>2, <1>6, <1>7, <1>8, <1>9, <1>10 DEF n

\* What the completion event does, if one is due, once the drone has moved.
Completion(s, n) ==
    \/ n = s
    \/ /\ s.mode = "Takeoff"
       /\ n = [settle_at_takeoff_altitude(s) EXCEPT !.mode = "Hold"]
    \/ /\ s.mode = "Goto"
       /\ n = [settle_at_target(s) EXCEPT !.mode = "Hold"]
    \/ /\ s.mode = "Land"
       /\ n = [touchdown(s) EXCEPT !.mode = "Disarmed"]

LEMMA CompletionEffect ==
  ASSUME NEW s, Sound(s), NEW pending
  PROVE  Completion(s, feed(s, pending, completion_event(s)).state)
<1> DEFINE n == feed(s, pending, completion_event(s)).state
<1>0. s \in FlightState
  BY DEF Sound
<1>1. CASE completion_event(s) = {}
  BY <1>1 DEF feed, Completion
<1>2. ASSUME NEW e, completion_event(s) = {e}
      PROVE  n = apply(s, e, Zero).state
  <2>1. the({e}) = e
    BY DEF the
  <2> QED BY <1>2, <2>1 DEF feed, dispatch
<1>3. CASE completion_event(s) # {}
  <2>1. \/ s.mode = "Takeoff" /\ completion_event(s) = {"TakeoffComplete"}
        \/ s.mode = "Goto" /\ completion_event(s) = {"TargetReached"}
        \/ s.mode = "Land" /\ completion_event(s) = {"Touchdown"}
    BY <1>3 DEF completion_event
  <2>2. \/ s.mode = "Takeoff" /\ n = apply(s, "TakeoffComplete", Zero).state
        \/ s.mode = "Goto" /\ n = apply(s, "TargetReached", Zero).state
        \/ s.mode = "Land" /\ n = apply(s, "Touchdown", Zero).state
    BY <1>2, <2>1
  <2> QED BY <1>0, <2>2, DerivedEffect DEF Completion
<1> QED BY <1>1, <1>3

\* What a step does to a mode, unless the drone is flown by hand.
LEMMA StepModes ==
  ASSUME IInv, Step, state.mode # "Manual"
  PROVE  \/ state'.mode = state.mode
         \/ state.mode \in {"Takeoff", "Goto"} /\ state'.mode = "Hold"
         \/ state.mode = "Land" /\ state'.mode = "Disarmed"
<1> DEFINE timed == feed(state, transition, timeout_event(state))
           moved == integrate(timed.state, dt)
           done == feed(moved.state, timed.transition,
                        completion_event(moved.state))
<1>1. state' = done.state /\ Sound(state) /\ dt \in Nat
  BY DEF Step, IInv
<1>2. timed.state = state
  BY DEF timeout_event, feed
<1>3. Sound(moved.state) /\ moved.state.mode = state.mode
  BY <1>1, <1>2, IntegrateSound
<1> HIDE DEF timed, moved
<1>4. Completion(moved.state, done.state)
  BY <1>3, CompletionEffect
<1>5. moved.state \in FlightState
  BY <1>3 DEF Sound
<1> HIDE DEF done
<1> QED
  BY <1>1, <1>3, <1>4, <1>5
  DEF Completion, FlightState, settle_at_takeoff_altitude, settle_at_target,
      touchdown

-----------------------------------------------------------------------------
(***************************************************************************)
(* The sticks, which the machine accepts in the pilotable modes and        *)
(* rejects in the others.                                                  *)
(***************************************************************************)
LEMMA SticksRejected ==
  ASSUME NEW s \in FlightState, s.mode \notin kPilotable, NEW v \in Vec3,
         NEW event \in {"ManualActive", "ManualCentred"}
  PROVE  apply(s, event, v).state = s
<1>0. s.mode \in kAutomatic \cup kGrounded
  BY DEF FlightState, FlightMode, kPilotable, kAutomatic, kGrounded
<1>1. /\ Table[10] = Row(kPilotable, "ManualActive", "none", "Manual",
                         "set_manual", "Accepted")
      /\ Table[11] = Row(kPilotable, "ManualCentred", "none", "Hold",
                         "clear_manual", "Accepted")
      /\ Table[12] = Row(kAutomatic \cup kGrounded, "ManualActive", "none",
                         kSameMode, "identity", "Rejected")
      /\ Table[13] = Row(kAutomatic \cup kGrounded, "ManualCentred", "none",
                         kSameMode, "identity", "Rejected")
  BY DEF Table, kTransitions
<1>2. \A j \in 1 .. 9 : Table[j].on \notin {"ManualActive", "ManualCentred"}
  BY CommandRows DEF Table, kTransitions, Row
<1>3. \A j \in 1 .. 11 : ~Matches(Table[j], s, event)
  BY <1>1, <1>2 DEF Matches, Row
<1>4. CASE event = "ManualActive"
  <2>1. Matches(Table[12], s, event)
    BY <1>0, <1>1, <1>4 DEF Matches, Row, permits
  <2>2. apply(s, event, v) = Fire(Table[12], s, v)
    BY <1>3, <2>1, FirstMatch
  <2> QED BY <1>1, <2>2 DEF Fire, Row, perform, kSameMode
<1>5. CASE event = "ManualCentred"
  <2>1. Matches(Table[13], s, event)
    BY <1>0, <1>1, <1>5 DEF Matches, Row, permits
  <2>2. ~Matches(Table[12], s, event)
    BY <1>1, <1>5 DEF Matches, Row
  <2>3. \A j \in 1 .. 17 : j < 13 => ~Matches(Table[j], s, event)
    BY <1>3, <2>2
  <2>4. apply(s, event, v) = Fire(Table[13], s, v)
    BY <2>1, <2>3, FirstMatch
  <2> QED BY <1>1, <2>4 DEF Fire, Row, perform, kSameMode
<1> QED BY <1>4, <1>5

\* A pilotable machine accepts the stick.
LEMMA SticksAccepted ==
  ASSUME NEW s \in FlightState, s.mode \in kPilotable, NEW v \in Vec3
  PROVE  /\ apply(s, "ManualActive", v).state.mode = "Manual"
         /\ apply(s, "ManualActive", v).state.sinceInput = 0
         /\ apply(s, "ManualActive", v).state.manual_axes = v
         /\ apply(s, "ManualCentred", v).state.mode = "Hold"
<1>1. /\ Table[10] = Row(kPilotable, "ManualActive", "none", "Manual",
                         "set_manual", "Accepted")
      /\ Table[11] = Row(kPilotable, "ManualCentred", "none", "Hold",
                         "clear_manual", "Accepted")
  BY DEF Table, kTransitions
<1>2. \A j \in 1 .. 9 : Table[j].on \notin {"ManualActive", "ManualCentred"}
  BY CommandRows DEF Table, kTransitions, Row
<1>3. \A j \in 1 .. 9 : /\ ~Matches(Table[j], s, "ManualActive")
                        /\ ~Matches(Table[j], s, "ManualCentred")
  BY <1>2 DEF Matches
<1>4. apply(s, "ManualActive", v) = Fire(Table[10], s, v)
  <2>1. Matches(Table[10], s, "ManualActive")
    BY <1>1 DEF Matches, Row, permits
  <2>2. \A j \in 1 .. 17 : j < 10 => ~Matches(Table[j], s, "ManualActive")
    BY <1>3
  <2> QED BY <2>1, <2>2, FirstMatch
<1>5. apply(s, "ManualCentred", v) = Fire(Table[11], s, v)
  <2>1. Matches(Table[11], s, "ManualCentred")
    BY <1>1 DEF Matches, Row, permits
  <2>2. ~Matches(Table[10], s, "ManualCentred")
    BY <1>1 DEF Matches, Row
  <2>3. \A j \in 1 .. 17 : j < 11 => ~Matches(Table[j], s, "ManualCentred")
    BY <1>3, <2>2
  <2> QED BY <2>1, <2>3, FirstMatch
<1>6. /\ Fire(Table[10], s, v).state.mode = "Manual"
      /\ Fire(Table[10], s, v).state.sinceInput = 0
      /\ Fire(Table[10], s, v).state.manual_axes = v
  BY <1>1 DEF Fire, Row, perform, set_manual, kSameMode, FlightState
<1>7. Fire(Table[11], s, v).state.mode = "Hold"
  BY <1>1 DEF Fire, Row, perform, clear_manual, kSameMode, FlightState
<1> QED BY <1>4, <1>5, <1>6, <1>7

\* Flown by hand means: by a stick just accepted, or by the one it was flown by.
LEMMA ManualEffect ==
  ASSUME NEW s \in FlightState, NEW event, NEW v \in Vec3, NEW n,
         TableEffect(s, event, v, n), n.mode = "Manual"
  PROVE  \/ /\ s.mode = "Manual" /\ n.sinceInput = s.sinceInput
            /\ n.manual_axes = s.manual_axes
         \/ event = "ManualActive" /\ n.sinceInput = 0
<1>1. \/ n = s
      \/ event = "ManualActive" /\ n = [set_manual(s, v) EXCEPT !.mode = "Manual"]
  BY DEF TableEffect, FlightState, begin_takeoff, cut_motors, begin_land,
         set_target, clear_manual, settle_at_takeoff_altitude,
         settle_at_target, touchdown
<1> QED BY <1>1 DEF set_manual, FlightState

\* A step after which the drone is flown by hand leaves the stick alone.
LEMMA StepKeepsStick ==
  ASSUME IInv, Step, state'.mode = "Manual"
  PROVE  state.mode = "Manual" /\ state'.manual_axes = state.manual_axes
<1> DEFINE timed == feed(state, transition, timeout_event(state))
           moved == integrate(timed.state, dt)
           done == feed(moved.state, timed.transition,
                        completion_event(moved.state))
<1>1. state' = done.state /\ Sound(state) /\ dt \in Nat
  BY DEF Step, IInv
<1>2. Sound(timed.state)
  BY FeedSound, DerivedEvents DEF IInv
<1>3. ASSUME NEW s \in FlightState, NEW pending,
             NEW events \in SUBSET DerivedEvent,
             feed(s, pending, events).state.mode = "Manual"
      PROVE  /\ s.mode = "Manual"
             /\ feed(s, pending, events).state.manual_axes = s.manual_axes
  <2>1. CASE events = {}
    BY <1>3, <2>1 DEF feed
  <2>2. CASE events # {}
    <3> DEFINE e == the(events)
               n == apply(s, e, Zero).state
    <3>1. e # "ManualActive"
      <4>1. e \in events
        BY <2>2 DEF the
      <4> QED BY <4>1 DEF DerivedEvent
    <3>2. feed(s, pending, events).state = n
      BY <2>2 DEF feed, dispatch
    <3> HIDE DEF e
    <3>3. TableEffect(s, e, Zero, n)
      BY ApplyEffect, ZeroType
    <3> HIDE DEF n
    <3> QED BY <1>3, <3>1, <3>2, <3>3, ZeroType, ManualEffect
  <2> QED BY <2>1, <2>2
<1>4. ASSUME NEW s, Sound(s)
      PROVE  integrate(s, dt).state.manual_axes = s.manual_axes
  <2> DEFINE p == Destination(s, dt)
             v == minus(p, s.position)
  <2>1. integrate(s, dt).state = [s EXCEPT !.position = p, !.velocity = v]
    BY <1>1, <1>4, IntegrateEffect
  <2> HIDE DEF p, v
  <2>2. s \in FlightState
    BY <1>4 DEF Sound
  <2> QED BY <2>1, <2>2 DEF FlightState
<1>5. Sound(moved.state) /\ moved.state.mode = timed.state.mode
  BY <1>1, <1>2, IntegrateSound
<1>6. moved.state.manual_axes = timed.state.manual_axes
  BY <1>2, <1>4
<1>7. moved.state.mode = "Manual" /\ done.state.manual_axes = moved.state.manual_axes
  BY <1>1, <1>3, <1>5, DerivedEvents DEF Sound
<1>8. state.mode = "Manual" /\ timed.state.manual_axes = state.manual_axes
  <2>1. feed(state, transition, timeout_event(state)).state.mode = "Manual"
    BY <1>5, <1>7
  <2>2. state \in FlightState /\ timeout_event(state) \in SUBSET DerivedEvent
    BY <1>1, DerivedEvents DEF Sound
  <2> HIDE DEF timed
  <2>3. /\ state.mode = "Manual"
        /\ feed(state, transition, timeout_event(state)).state.manual_axes
              = state.manual_axes
    BY <1>3, <2>1, <2>2
  <2> QED BY <2>3 DEF timed
<1> QED BY <1>1, <1>6, <1>7, <1>8

LEMMA StepIsContractStep ==
  ASSUME IInv, Step
  PROVE  ContractStep(state, state')
<1> DEFINE timed == feed(state, transition, timeout_event(state))
           moved == integrate(timed.state, dt)
           done == feed(moved.state, timed.transition,
                        completion_event(moved.state))
<1>0. Sound(state) /\ state \in FlightState /\ dt \in Nat
  BY DEF IInv, Sound
<1>1. state' = done.state
  BY DEF Step
<1>2. Sound(timed.state)
  BY FeedSound, DerivedEvents DEF IInv
<1>3. \/ timed.state = state
      \/ /\ state.mode = "Manual" /\ timed.state.mode = "Hold"
         /\ timed.state.armed = state.armed
         /\ altitude(timed.state) = altitude(state)
  <2>1. CASE timeout_event(state) = {}
    BY <2>1 DEF feed
  <2>2. CASE timeout_event(state) # {}
    <3>1. state.mode = "Manual" /\ timeout_event(state) = {"ManualTimeout"}
      BY <2>2 DEF timeout_event
    <3>2. timed.state = apply(state, "ManualTimeout", Zero).state
      BY <3>1 DEF feed, dispatch, the
    <3>3. timed.state = [clear_manual(state) EXCEPT !.mode = "Hold"]
      BY <1>0, <3>1, <3>2, DerivedEffect
    <3> QED
      BY <1>0, <3>1, <3>3 DEF clear_manual, FlightState, altitude
  <2> QED BY <2>1, <2>2
<1> HIDE DEF timed
<1>4. Sound(moved.state) /\ moved.state \in FlightState
  BY <1>0, <1>2, IntegrateSound DEF Sound
<1>5. /\ moved.state.mode = timed.state.mode
      /\ moved.state.armed = timed.state.armed
      /\ altitude(moved.state) \in 0 .. Ceiling
      /\ timed.state.mode \in {"Disarmed", "Hold"} =>
            altitude(moved.state) = altitude(timed.state)
      /\ timed.state.mode = "Takeoff" =>
            altitude(moved.state) \in altitude(timed.state) .. Ceiling
      /\ timed.state.mode = "Land" =>
            altitude(moved.state) \in 0 .. altitude(timed.state)
  BY <1>0, <1>2, IntegratedAltitude
<1> HIDE DEF moved
<1>6. \/ done.state = moved.state
      \/ /\ moved.state.mode = "Takeoff" /\ done.state.mode = "Hold"
         /\ done.state.armed = moved.state.armed
         /\ altitude(done.state) = effective_takeoff_altitude
      \/ /\ moved.state.mode = "Goto" /\ done.state.mode = "Hold"
         /\ done.state.armed = moved.state.armed
      \/ /\ moved.state.mode = "Land" /\ done.state.mode = "Disarmed"
         /\ ~done.state.armed /\ altitude(done.state) = 0
  <2> DEFINE m == moved.state
             n == done.state
  <2>0. m \in FlightState /\ m.position \in Vec3
    BY <1>4 DEF FlightState
  <2>1. CASE n = m
    BY <2>1
  <2>2. CASE /\ m.mode = "Takeoff"
             /\ n = [settle_at_takeoff_altitude(m) EXCEPT !.mode = "Hold"]
    <3> HIDE DEF m, n
    <3>1. /\ n.mode = "Hold" /\ n.armed = m.armed
          /\ altitude(n) = effective_takeoff_altitude
      BY <2>0, <2>2 DEF settle_at_takeoff_altitude, FlightState, altitude, Vec3
    <3> QED BY <2>2, <3>1 DEF m, n
  <2>3. CASE m.mode = "Goto" /\ n = [settle_at_target(m) EXCEPT !.mode = "Hold"]
    <3> HIDE DEF m, n
    <3>1. n.mode = "Hold" /\ n.armed = m.armed
      BY <2>0, <2>3 DEF settle_at_target, FlightState
    <3> QED BY <2>3, <3>1 DEF m, n
  <2>4. CASE m.mode = "Land" /\ n = [touchdown(m) EXCEPT !.mode = "Disarmed"]
    <3> HIDE DEF m, n
    <3>1. n.mode = "Disarmed" /\ ~n.armed /\ altitude(n) = 0
      BY <2>0, <2>4 DEF touchdown, FlightState, altitude, Vec3
    <3> QED BY <2>4, <3>1 DEF m, n
  <2>5. Completion(m, n)
    BY <1>4, CompletionEffect
  <2> QED BY <2>1, <2>2, <2>3, <2>4, <2>5 DEF Completion
<1>7. Sound(done.state)
  BY <1>1, StepInductive DEF IInv
<1>8. /\ altitude(state) \in 0 .. Ceiling
      /\ altitude(done.state) \in 0 .. Ceiling
      /\ state.mode \in FlightMode
  BY <1>0, <1>7 DEF Sound, contains, altitude, FlightState
<1> HIDE DEF done
<1>9. ContractStep(state, done.state)
  <2>1. CASE state.mode = "Disarmed"
    BY <1>3, <1>5, <1>6, <2>1 DEF ContractStep, Outside
  <2>2. CASE state.mode = "Takeoff"
    BY <1>3, <1>5, <1>6, <2>2 DEF ContractStep
  <2>3. CASE state.mode = "Hold"
    BY <1>3, <1>5, <1>6, <2>3 DEF ContractStep, Outside
  <2>4. CASE state.mode = "Goto"
    BY <1>3, <1>5, <1>6, <1>8, <2>4 DEF ContractStep, kPilotable
  <2>5. CASE state.mode = "Manual"
    BY <1>3, <1>5, <1>6, <1>8, <2>5 DEF ContractStep, kPilotable
  <2>6. CASE state.mode = "Land"
    BY <1>3, <1>5, <1>6, <1>8, <2>6 DEF ContractStep
  <2> QED BY <1>8, <2>1, <2>2, <2>3, <2>4, <2>5, <2>6 DEF FlightMode
<1> QED BY <1>1, <1>9

LEMMA CommandIsContractStep ==
  ASSUME IInv, IInv', NEW event, NEW v \in Vec3, Command(event, v)
  PROVE  ContractStep(state, state')
<1>1. Sound(state) /\ Sound(state') /\ state \in FlightState
  BY DEF IInv, Sound
<1>2. state' = apply(state, event, v).state
  BY DEF Command, dispatch
<1>3. TableEffect(state, event, v, state')
  BY <1>1, <1>2, ApplyEffect
<1> QED BY <1>1, <1>3, EffectIsContractStep

LEMMA NextIsContractStep ==
  ASSUME IInv, IInv', [Next]_vars
  PROVE  [Contract!Next]_(Contract!vars)
<1>1. SUFFICES ContractStep(state, state')
  BY ContractStepIsNext
<1>2. ASSUME NEW d \in Ticks, WakeUp(d) PROVE ContractStep(state, state')
  <2>1. d \in Nat /\ state \in FlightState
    BY InputAssumption DEF IInv, Sound
  <2>2. Outside(aged(state, d)) = Outside(state)
    BY <2>1 DEF aged, FlightState, Outside, altitude
  <2> QED BY <1>2, <2>2 DEF WakeUp, ContractStep
<1>3. CASE Arm
  BY <1>3, CommandIsContractStep, ZeroType DEF Arm
<1>4. CASE Disarm
  BY <1>4, CommandIsContractStep, ZeroType DEF Disarm
<1>5. CASE Land
  BY <1>5, CommandIsContractStep, ZeroType DEF Land
<1>6. ASSUME NEW target \in Targets, Goto(target) PROVE ContractStep(state, state')
  <2>1. target \in Vec3
    BY InputAssumption
  <2> QED BY <1>6, <2>1, CommandIsContractStep DEF Goto
<1>7. ASSUME NEW stick \in Sticks, ManualInput(stick)
      PROVE  ContractStep(state, state')
  <2>1. clamped_axes(stick) \in Vec3
    BY AxesType, InputAssumption
  <2> QED BY <1>7, <2>1, CommandIsContractStep DEF ManualInput
<1>8. CASE Step
  BY <1>8, StepIsContractStep
<1>9. CASE UNCHANGED vars
  BY <1>9 DEF vars, ContractStep
<1> QED
  BY <1>2, <1>3, <1>4, <1>5, <1>6, <1>7, <1>8, <1>9 DEF Next

\* Whatever the airframe, the fence, the ticks and the inputs, the controller
\* is an implementation of the contract the operator is promised.
THEOREM RefinesContract == Spec => ImplementsContract
<1>1. Init => Contract!Init
  BY DEF Init, InitialFlightState, Contract!Init, altitude, Zero
<1>2. IInv /\ IInv' /\ [Next]_vars => [Contract!Next]_(Contract!vars)
  BY NextIsContractStep
<1> QED
  BY <1>1, <1>2, Invariance, PTL DEF Spec, Contract!Spec, ImplementsContract

-----------------------------------------------------------------------------
(***************************************************************************)
(* Lengths.  integerRoot counts the numbers whose square is small enough;  *)
(* they are the numbers up to the greatest of them.                        *)
(***************************************************************************)
LEMMA Least ==
  ASSUME NEW B \in SUBSET Nat, NEW b \in B
  PROVE  \E n \in B : \A m \in B : n =< m
<1>1. IsWellFoundedOn(OpToRel(<, Nat), Nat)
  BY NatLessThanWellFounded
<1>2. PICK n \in B : \A m \in B : <<m, n>> \notin OpToRel(<, Nat)
  BY <1>1, WFMin
<1>3. \A m \in B : ~(m < n)
  BY <1>2 DEF OpToRel
<1> QED BY <1>3

\* The last number whose square is at most q.
LEMMA Root ==
  ASSUME NEW q \in Nat
  PROVE  \E r \in Nat : r * r =< q /\ (r + 1) * (r + 1) > q
<1> DEFINE B == {n \in Nat : n * n > q}
<1>1. q + 1 \in B
  <2>1. (q + 1) * (q + 1) = q * q + 2 * q + 1 /\ q * q \in Nat
    OBVIOUS
  <2> QED BY <2>1
<1>2. PICK n \in B : \A m \in B : n =< m
  <2> HIDE DEF B
  <2>1. B \in SUBSET Nat
    BY DEF B
  <2> QED BY <1>1, <2>1, Least
<1>3. n \in Nat /\ n * n > q /\ n # 0
  BY <1>2
<1>4. n - 1 \in Nat /\ n - 1 \notin B
  BY <1>2, <1>3
<1>5. (n - 1) * (n - 1) =< q
  <2>1. (n - 1) * (n - 1) \in Nat
    BY <1>4
  <2> QED BY <1>4, <2>1
<1>6. (n - 1) + 1 = n
  BY <1>3
<1>7. ((n - 1) + 1) * ((n - 1) + 1) > q
  BY <1>3, <1>6
<1> DEFINE r == n - 1
<1>8. r \in Nat /\ r * r =< q /\ (r + 1) * (r + 1) > q
  BY <1>4, <1>5, <1>7
<1> HIDE DEF r
<1> QED BY <1>8

LEMMA Squares ==
  ASSUME NEW a \in Nat, NEW b \in Nat, a =< b
  PROVE  a * a \in Nat /\ b * b \in Nat /\ a * a =< b * b /\ b =< b * b
<1>1. PICK d \in Nat : b = a + d
  <2>1. b - a \in Nat /\ b = a + (b - a)
    OBVIOUS
  <2> QED BY <2>1
<1>2. /\ a * a \in Nat /\ a * d \in Nat /\ d * d \in Nat
      /\ b * b = a * a + 2 * (a * d) + d * d
  BY <1>1
<1>3. b = 0 \/ (b - 1 \in Nat /\ b * b = b + (b - 1) * b /\ (b - 1) * b \in Nat)
  OBVIOUS
<1> QED BY <1>2, <1>3

LEMMA RootSquare ==
  ASSUME NEW q \in Nat
  PROVE  integerRoot[q] \in Nat /\ integerRoot[q] * integerRoot[q] =< q
<1>1. PICK r \in Nat : r * r =< q /\ (r + 1) * (r + 1) > q
  BY Root
<1>2. ASSUME NEW k \in 1 .. q, k * k =< q PROVE k \in 1 .. r
  <2> SUFFICES ASSUME ~(k =< r) PROVE FALSE
    BY <1>1
  <2>1. k \in Nat /\ r + 1 \in Nat /\ r + 1 =< k
    BY <1>1
  <2>2. (r + 1) * (r + 1) =< k * k /\ (r + 1) * (r + 1) \in Nat /\ k * k \in Nat
    BY <2>1, Squares
  <2> QED BY <1>1, <1>2, <2>2
<1>3. ASSUME NEW k \in 1 .. r PROVE k \in 1 .. q /\ k * k =< q
  <2>1. k * k \in Nat /\ k * k =< r * r /\ k =< k * k /\ r * r \in Nat
    BY <1>1, Squares
  <2> QED BY <1>1, <2>1
<1>4. {k \in 1 .. q : k * k =< q} = 1 .. r
  BY <1>2, <1>3
<1>5. Cardinality(1 .. r) = r
  <2>1. 1 \in Int /\ r \in Int
    BY <1>1
  <2>2. Cardinality(1 .. r) = IF 1 > r THEN 0 ELSE r - 1 + 1
    BY <2>1, FS_Interval
  <2> QED BY <1>1, <2>2
<1>6. integerRoot[q] = r
  BY <1>4, <1>5 DEF integerRoot
<1> QED BY <1>1, <1>6

\* A fraction is not rounded up.
LEMMA Quotient ==
  ASSUME NEW a \in Nat, NEW b \in Nat \ {0}
  PROVE  a \div b \in Nat /\ (a \div b) * b =< a /\ (a \div b) * b \in Nat
<1> DEFINE q == a \div b
<1>1. q \in Nat /\ a = q * b + (a % b) /\ a % b \in Nat
  OBVIOUS
<1> HIDE DEF q
<1>2. q * b \in Nat
  BY <1>1
<1> QED BY <1>1, <1>2 DEF q

\* A component c of a vector of squared length n, scaled to the given length.
LEMMA ScaledComponentLength ==
  ASSUME NEW c \in Int, NEW n \in Nat \ {0}, NEW length \in Nat
  PROVE  LET k == scaledComponent(c, n, length)
         IN  k \in Int /\ (k * k) * n =< (length * length) * (c * c)
<1> DEFINE e == length * length * c * c
           q == e \div n
           r == integerRoot[q]
           k == scaledComponent(c, n, length)
<1>1. /\ length * length \in Nat /\ c * c \in Nat
      /\ e = (length * length) * (c * c)
  OBVIOUS
<1>2. e \in Nat
  <2>1. \A a, b \in Nat : a * b \in Nat
    OBVIOUS
  <2> QED BY <1>1, <2>1
<1>3. k = r \/ k = -r
  BY DEF scaledComponent
<1> HIDE DEF e, k
<1>4. q \in Nat /\ q * n =< e /\ q * n \in Nat
  BY <1>2, Quotient
<1> HIDE DEF q
<1>5. r \in Nat /\ r * r =< q
  BY <1>4, RootSquare
<1> HIDE DEF r
<1>6. k \in Int /\ k * k = r * r /\ r * r \in Nat
  BY <1>3, <1>5
<1> DEFINE s == r * r
<1>7. s * n =< q * n /\ s * n \in Int
  <2> HIDE DEF s
  <2>1. s \in Nat /\ s =< q
    BY <1>5, <1>6 DEF s
  <2>2. PICK d \in Nat : q = s + d
    <3>1. q - s \in Nat /\ q = s + (q - s)
      BY <1>4, <2>1
    <3> QED BY <3>1
  <2>3. q * n = s * n + d * n /\ s * n \in Nat /\ d * n \in Nat
    BY <2>1, <2>2
  <2> QED BY <2>3
<1>8. s * n =< e
  BY <1>2, <1>4, <1>7
<1> QED BY <1>1, <1>6, <1>8 DEF k

\* A product of the same positive factor is compared by the other one.
LEMMA Cancel ==
  ASSUME NEW a \in Int, NEW b \in Int, NEW n \in Nat \ {0}, a * n =< b * n
  PROVE  a =< b
<1> SUFFICES ASSUME a > b PROVE FALSE
  OBVIOUS
<1>1. a - b \in Nat \ {0} /\ a = b + (a - b)
  OBVIOUS
<1> DEFINE d == a - b
<1>2. d \in Nat \ {0} /\ a = b + d
  BY <1>1
<1> HIDE DEF d
<1>3. a * n = b * n + d * n /\ d * n \in Nat \ {0} /\ b * n \in Int
  BY <1>2
<1> QED BY <1>3

LEMMA ScaledLength ==
  ASSUME NEW v \in Vec3, normSquared(v) > 0, NEW length \in Nat
  PROVE  normSquared(scaled(v, length)) =< length * length
<1> DEFINE n == normSquared(v)
           x == scaledComponent(v.x, n, length)
           z == scaledComponent(v.z, n, length)
           l == length * length
           a == v.x * v.x
           b == v.z * v.z
<1>1. v.x \in Int /\ v.z \in Int /\ a \in Nat /\ b \in Nat /\ n = a + b
  BY DEF Vec3, normSquared
<1>2. n \in Nat \ {0} /\ l \in Nat
  BY <1>1
<1> HIDE DEF n
<1>3. /\ x \in Int /\ (x * x) * n =< l * a
      /\ z \in Int /\ (z * z) * n =< l * b
  BY <1>1, <1>2, ScaledComponentLength
<1>4. normSquared(scaled(v, length)) = x * x + z * z
  BY DEF scaled, normSquared, n
<1> HIDE DEF x, z, l, a, b
<1> DEFINE s == x * x
           t == z * z
<1>5. s \in Int /\ t \in Int
  BY <1>3
<1>6. s * n =< l * a /\ t * n =< l * b
  BY <1>3
<1> HIDE DEF s, t
<1>7. (s + t) * n =< l * n
  <2>1. (s + t) * n = s * n + t * n /\ l * n = l * a + l * b
    BY <1>1, <1>2, <1>5
  <2>2. s * n \in Int /\ t * n \in Int /\ l * a \in Int /\ l * b \in Int
    BY <1>1, <1>2, <1>5
  <2> QED BY <1>6, <2>1, <2>2
<1>8. s + t =< l
  <2>1. s + t \in Int /\ l \in Int
    BY <1>2, <1>5
  <2> QED BY <1>2, <1>7, <2>1, Cancel
<1> QED BY <1>4, <1>8 DEF s, t, l

\* No stick is longer than a fully deflected one.
LEMMA StickLength ==
  ASSUME NEW stick \in Vec3
  PROVE  normSquared(clamped_axes(stick)) =< FullStick * FullStick
<1> DEFINE box == [x |-> clamp(stick.x, -FullStick, FullStick),
                   z |-> clamp(stick.z, -FullStick, FullStick)]
<1>1. box \in Vec3 /\ FullStick * FullStick \in Nat /\ FullStick \in Nat
  BY FlightConfigAssumption DEF clamp, Vec3
<1>2. normSquared(box) \in Nat
  BY <1>1, MinusType
<1>3. clamped_axes(stick) = clamp_to_unit_ball(box)
  BY DEF clamped_axes
<1> HIDE DEF box
<1>4. CASE normSquared(box) > FullStick * FullStick
  <2>1. normSquared(box) > 0
    BY <1>1, <1>2, <1>4
  <2>2. clamped_axes(stick) = scaled(box, FullStick)
    BY <1>3, <1>4 DEF clamp_to_unit_ball
  <2> QED BY <1>1, <2>1, <2>2, ScaledLength
<1>5. CASE ~(normSquared(box) > FullStick * FullStick)
  BY <1>1, <1>2, <1>3, <1>5 DEF clamp_to_unit_ball
<1> QED BY <1>4, <1>5

-----------------------------------------------------------------------------
(***************************************************************************)
(* How far one step carries the drone.                                     *)
(***************************************************************************)
LEMMA SquareOfInt ==
  ASSUME NEW a \in Int
  PROVE  a * a \in Nat /\ (-a) * (-a) = a * a
  OBVIOUS

LEMMA SquaresOfInts ==
  ASSUME NEW a \in Int, NEW b \in Nat, -b =< a, a =< b
  PROVE  a * a \in Nat /\ b * b \in Nat /\ a * a =< b * b
<1>1. CASE a >= 0
  BY <1>1, Squares
<1>2. CASE a < 0
  <2> DEFINE c == -a
  <2>1. c \in Nat /\ c =< b /\ c * c = a * a
    BY <1>2, SquareOfInt
  <2> HIDE DEF c
  <2>2. c * c \in Nat /\ b * b \in Nat /\ c * c =< b * b
    BY <2>1, Squares
  <2> QED BY <2>1, <2>2
<1> QED BY <1>1, <1>2

\* A number is at most another whose square is as great.
LEMMA RootsOfSquares ==
  ASSUME NEW a \in Int, NEW b \in Nat, a * a =< b * b
  PROVE  a =< b
<1> SUFFICES ASSUME a > b PROVE FALSE
  OBVIOUS
<1>1. a \in Nat /\ b + 1 \in Nat /\ b + 1 =< a
  OBVIOUS
<1>2. (b + 1) * (b + 1) =< a * a
  BY <1>1, Squares
<1>3. (b + 1) * (b + 1) = b * b + 2 * b + 1 /\ b * b \in Nat /\ a * a \in Nat
  BY <1>1
<1> QED BY <1>2, <1>3

LEMMA ProductsGrow ==
  ASSUME NEW a \in Nat, NEW b \in Nat, NEW c \in Nat, NEW d \in Nat,
         a =< c, b =< d
  PROVE  a * b \in Nat /\ c * d \in Nat /\ a * b =< c * d
<1>1. PICK i \in Nat, j \in Nat : c = a + i /\ d = b + j
  <2>1. c - a \in Nat /\ d - b \in Nat /\ c = a + (c - a) /\ d = b + (d - b)
    OBVIOUS
  <2> QED BY <2>1
<1>2. /\ a * b \in Nat /\ a * j \in Nat /\ i * b \in Nat /\ i * j \in Nat
      /\ c * d = a * b + a * j + i * b + i * j
  BY <1>1
<1> QED BY <1>2

\* The square of a product.
LEMMA SquareOfProduct ==
  ASSUME NEW a \in Int, NEW b \in Int
  PROVE  (a * b) * (a * b) = (a * a) * (b * b) /\ a * b \in Int
  OBVIOUS

\* Cauchy and Schwarz, in the plane.
LEMMA DotProduct ==
  ASSUME NEW a \in Int, NEW b \in Int, NEW c \in Int, NEW d \in Int
  PROVE  (a * c + b * d) * (a * c + b * d) =<
         (a * a + b * b) * (c * c + d * d)
<1> DEFINE e == a * d - b * c
<1>1. e * e \in Nat
  BY SquareOfInt
<1>2. (a * a + b * b) * (c * c + d * d)
        = (a * c + b * d) * (a * c + b * d) + e * e
  OBVIOUS
<1>3. (a * c + b * d) * (a * c + b * d) \in Int
  OBVIOUS
<1> HIDE DEF e
<1> QED BY <1>1, <1>2, <1>3

\* Two displacements in a row are no longer than the sum of their lengths.
LEMMA Triangle ==
  ASSUME NEW u \in Vec3, NEW v \in Vec3, NEW s \in Nat, NEW t \in Nat,
         normSquared(u) =< s * s, normSquared(v) =< t * t
  PROVE  normSquared(plus(u, v)) =< (s + t) * (s + t)
<1> DEFINE a == u.x
           b == u.z
           c == v.x
           d == v.z
           m == a * a + b * b
           n == c * c + d * d
           p == a * c + b * d
           q == s * t
<1>1. a \in Int /\ b \in Int /\ c \in Int /\ d \in Int
  BY DEF Vec3
<1>2. normSquared(u) = m /\ normSquared(v) = n
  BY DEF normSquared
<1>3. normSquared(plus(u, v)) = (a + c) * (a + c) + (b + d) * (b + d)
  BY DEF normSquared, plus
<1> HIDE DEF a, b, c, d
<1>4. m \in Nat /\ n \in Nat /\ p \in Int /\ q \in Nat
  <2>1. a * a \in Nat /\ b * b \in Nat /\ c * c \in Nat /\ d * d \in Nat
    BY <1>1, SquareOfInt
  <2> QED BY <1>1, <2>1
<1>5. (a + c) * (a + c) + (b + d) * (b + d) = m + 2 * p + n
  BY <1>1
<1>6. p * p =< m * n
  BY <1>1, DotProduct
<1>7. q * q = (s * s) * (t * t)
  BY SquareOfProduct
<1>8. (s + t) * (s + t) = s * s + 2 * q + t * t
  OBVIOUS
<1> HIDE DEF m, n, p, q
<1> DEFINE s2 == s * s
           t2 == t * t
<1>9. s2 \in Nat /\ t2 \in Nat /\ m =< s2 /\ n =< t2
  BY <1>2
<1>10. q * q = s2 * t2
  BY <1>7
<1>11. (s + t) * (s + t) = s2 + 2 * q + t2
  BY <1>8
<1> HIDE DEF s2, t2
<1>12. m * n \in Nat /\ s2 * t2 \in Nat /\ m * n =< s2 * t2
  BY <1>4, <1>9, ProductsGrow
<1>13. p * p =< q * q
  <2>1. p * p \in Int /\ q * q \in Int
    BY <1>4
  <2> QED BY <1>6, <1>10, <1>12, <2>1
<1>14. p =< q
  BY <1>4, <1>13, RootsOfSquares
<1> QED BY <1>3, <1>4, <1>5, <1>9, <1>11, <1>14

\* The fence shortens a displacement of a drone inside it, and never reverses it.
LEMMA FenceShortens ==
  ASSUME NEW p \in Vec3, contains(p), NEW v \in Vec3
  PROVE  LET moved == minus(clampToFence(plus(p, v)), p)
         IN  /\ moved \in Vec3
             /\ moved.x \in 0 .. v.x \/ moved.x \in v.x .. 0
             /\ moved.z \in 0 .. v.z \/ moved.z \in v.z .. 0
             /\ normSquared(moved) =< normSquared(v)
<1> DEFINE moved == minus(clampToFence(plus(p, v)), p)
<1> USE FlightConfigAssumption
<1>1. /\ v.x \in Int /\ v.z \in Int /\ p.x \in -HalfExtent .. HalfExtent
      /\ p.z \in 0 .. Ceiling
  BY DEF Vec3, contains
<1>2. /\ moved.x = clamp(p.x + v.x, -HalfExtent, HalfExtent) - p.x
      /\ moved.z = clamp(p.z + v.z, 0, Ceiling) - p.z
  BY DEF minus, plus, clampToFence
<1>3. moved \in Vec3
  BY <1>1, <1>2 DEF minus, plus, clampToFence, clamp, Vec3
<1>4. moved.x \in 0 .. v.x \/ moved.x \in v.x .. 0
  BY <1>1, <1>2 DEF clamp
<1>5. moved.z \in 0 .. v.z \/ moved.z \in v.z .. 0
  BY <1>1, <1>2 DEF clamp
<1>6. ASSUME NEW a \in Int, NEW b \in Int, a \in 0 .. b \/ a \in b .. 0
      PROVE  a * a =< b * b /\ a * a \in Nat /\ b * b \in Nat
  <2>1. CASE b >= 0
    BY <1>6, <2>1, Squares
  <2>2. CASE b < 0
    <3> DEFINE c == -b
    <3>1. c \in Nat /\ -c =< a /\ a =< c /\ c * c = b * b
      BY <1>6, <2>2, SquareOfInt
    <3> HIDE DEF c
    <3>2. a * a \in Nat /\ c * c \in Nat /\ a * a =< c * c
      BY <3>1, SquaresOfInts
    <3> QED BY <3>1, <3>2
  <2> QED BY <2>1, <2>2
<1> HIDE DEF moved
<1>7. normSquared(moved) =< normSquared(v)
  <2> DEFINE mx == moved.x
             mz == moved.z
             vx == v.x
             vz == v.z
  <2>1. mx \in Int /\ mz \in Int /\ vx \in Int /\ vz \in Int
    BY <1>1, <1>3 DEF Vec3
  <2>2. /\ mx \in 0 .. vx \/ mx \in vx .. 0
        /\ mz \in 0 .. vz \/ mz \in vz .. 0
    BY <1>4, <1>5
  <2>3. normSquared(moved) = mx * mx + mz * mz /\ normSquared(v) = vx * vx + vz * vz
    BY DEF normSquared
  <2> HIDE DEF mx, mz, vx, vz
  <2>4. mx * mx =< vx * vx /\ mx * mx \in Nat /\ vx * vx \in Nat
    BY <1>6, <2>1, <2>2
  <2>5. mz * mz =< vz * vz /\ mz * mz \in Nat /\ vz * vz \in Nat
    BY <1>6, <2>1, <2>2
  <2> QED BY <2>3, <2>4, <2>5
<1> QED BY <1>3, <1>4, <1>5, <1>7 DEF moved

\* A component of a stick, turned into a part of the reach of a step.
LEMMA TruncatedPart ==
  ASSUME NEW a \in Int, NEW r \in Nat, NEW f \in Nat \ {0}
  PROVE  LET k == truncated(a * r, f)
         IN  k \in Int /\ (k * k) * (f * f) =< (a * a) * (r * r)
<1> DEFINE k == truncated(a * r, f)
           e == a * r
           m == IF e >= 0 THEN e ELSE -e
           q == m \div f
<1>1. e \in Int /\ e * e = (a * a) * (r * r)
  BY SquareOfProduct
<1>2. k = q \/ k = -q
  BY DEF truncated
<1> HIDE DEF e, k
<1>3. m \in Nat /\ m * m = e * e
  BY <1>1, SquareOfInt
<1> HIDE DEF m
<1>4. q \in Nat /\ q * f =< m /\ q * f \in Nat
  BY <1>3, Quotient
<1> HIDE DEF q
<1>5. k \in Int /\ k * k = q * q
  BY <1>2, <1>4
<1>6. (q * f) * (q * f) =< m * m
  BY <1>3, <1>4, Squares
<1>7. (q * f) * (q * f) = (q * q) * (f * f)
  BY <1>4, SquareOfProduct
<1> QED BY <1>1, <1>3, <1>5, <1>6, <1>7 DEF k, e

Faster == IF HorizontalSpeed > ClimbSpeed THEN HorizontalSpeed ELSE ClimbSpeed

\* However the stick is held, it asks for no more than the faster speed.
LEMMA ManualLength ==
  ASSUME NEW axes \in Vec3, normSquared(axes) =< FullStick * FullStick, NEW d \in Nat
  PROVE  LET v == [x |-> truncated(axes.x * HorizontalSpeed * d, FullStick),
                   z |-> truncated(axes.z * ClimbSpeed * d, FullStick)]
         IN  normSquared(v) =< (Faster * d) * (Faster * d)
<1> DEFINE h == HorizontalSpeed * d
           c == ClimbSpeed * d
           r == Faster * d
           x == truncated(axes.x * h, FullStick)
           z == truncated(axes.z * c, FullStick)
           v == [x |-> truncated(axes.x * HorizontalSpeed * d, FullStick),
                 z |-> truncated(axes.z * ClimbSpeed * d, FullStick)]
           f2 == FullStick * FullStick
           h2 == h * h
           c2 == c * c
           r2 == r * r
           ax == axes.x * axes.x
           az == axes.z * axes.z
<1>1. /\ HorizontalSpeed \in Nat /\ ClimbSpeed \in Nat /\ Faster \in Nat
      /\ HorizontalSpeed =< Faster /\ ClimbSpeed =< Faster
      /\ FullStick \in Nat \ {0} /\ axes.x \in Int /\ axes.z \in Int
  BY FlightConfigAssumption DEF Faster, Vec3
<1>2. h \in Nat /\ c \in Nat /\ r \in Nat /\ h =< r /\ c =< r
  BY <1>1, ProductsGrow
<1>3. /\ axes.x * HorizontalSpeed * d = axes.x * h
      /\ axes.z * ClimbSpeed * d = axes.z * c
  BY <1>1
<1>4. normSquared(v) = x * x + z * z
  BY <1>3 DEF normSquared
<1> HIDE DEF h, c, r
<1>5. /\ h2 \in Nat /\ r2 \in Nat /\ h2 =< r2 /\ c2 \in Nat /\ c2 =< r2
  BY <1>2, Squares
<1>6. f2 \in Nat \ {0} /\ ax \in Nat /\ az \in Nat /\ ax + az =< f2
  <2>1. normSquared(axes) = ax + az
    BY DEF normSquared
  <2>2. ax \in Nat /\ az \in Nat
    BY <1>1, SquareOfInt
  <2> QED BY <1>1, <2>1, <2>2
<1>7. x \in Int /\ (x * x) * f2 =< ax * h2
  BY <1>1, <1>2, TruncatedPart
<1>8. z \in Int /\ (z * z) * f2 =< az * c2
  BY <1>1, <1>2, TruncatedPart
<1> HIDE DEF x, z, f2, h2, c2, ax, az
<1> DEFINE s == x * x
           t == z * z
<1>9. s \in Int /\ t \in Int /\ s * f2 =< ax * h2 /\ t * f2 =< az * c2
  BY <1>7, <1>8
<1> HIDE DEF s, t, r2
<1>10. /\ ax * h2 \in Nat /\ ax * r2 \in Nat /\ ax * h2 =< ax * r2
       /\ az * c2 \in Nat /\ az * r2 \in Nat /\ az * c2 =< az * r2
  BY <1>5, <1>6, ProductsGrow
<1>11. (ax + az) * r2 =< f2 * r2 /\ f2 * r2 \in Nat
  <2>1. ax + az \in Nat /\ f2 \in Nat
    BY <1>6
  <2> QED BY <1>5, <1>6, <2>1, ProductsGrow
<1>12. (s + t) * f2 =< r2 * f2
  <2>1. (s + t) * f2 = s * f2 + t * f2 /\ s * f2 \in Int /\ t * f2 \in Int
    BY <1>6, <1>9
  <2>2. (ax + az) * r2 = ax * r2 + az * r2 /\ f2 * r2 = r2 * f2
    BY <1>5, <1>6
  <2> QED BY <1>9, <1>10, <1>11, <2>1, <2>2
<1>13. s + t =< r2
  <2>1. s + t \in Int /\ r2 \in Int
    BY <1>5, <1>9
  <2> QED BY <1>6, <1>12, <2>1, Cancel
<1> QED BY <1>4, <1>13 DEF s, t, r2, r, v

-----------------------------------------------------------------------------
(***************************************************************************)
(* The displacement of one integration step, mode by mode.                 *)
(***************************************************************************)
Fresh(s) == s.mode = "Manual" /\ s.sinceInput =< ManualTimeout

Moved(s, d) == minus(Destination(s, d), s.position)

LEMMA MovedShortens ==
  ASSUME NEW s, Sound(s), NEW d \in Nat
  PROVE  /\ desired_velocity(s, d) \in Vec3
         /\ Moved(s, d) \in Vec3
         /\ Moved(s, d).x \in 0 .. desired_velocity(s, d).x
            \/ Moved(s, d).x \in desired_velocity(s, d).x .. 0
         /\ Moved(s, d).z \in 0 .. desired_velocity(s, d).z
            \/ Moved(s, d).z \in desired_velocity(s, d).z .. 0
         /\ normSquared(Moved(s, d)) =< normSquared(desired_velocity(s, d))
<1> DEFINE v == desired_velocity(s, d)
           m == Moved(s, d)
<1>1. v \in Vec3 /\ s.position \in Vec3 /\ contains(s.position)
  BY DesiredVelocityType DEF Sound, FlightState
<1>2. v.x \in Int /\ v.z \in Int /\ normSquared(v) \in Nat
  BY <1>1, MinusType DEF Vec3
<1> HIDE DEF v
<1>3. CASE d = 0 \/ ~s.armed
  <2>1. m = Zero
    BY <1>1, <1>3 DEF Moved, Destination, minus, Zero, Vec3
  <2>2. normSquared(Zero) = 0
    BY DEF normSquared, Zero
  <2>3. m.x = 0 /\ m.z = 0 /\ m \in Vec3
    BY <2>1, ZeroType
  <2> QED BY <1>1, <1>2, <2>1, <2>2, <2>3 DEF v
<1>4. CASE ~(d = 0 \/ ~s.armed)
  <2>1. m = minus(clampToFence(plus(s.position, v)), s.position)
    BY <1>4 DEF Moved, Destination, v
  <2> QED BY <1>1, <2>1, FenceShortens DEF v
<1> QED BY <1>3, <1>4

LEMMA MovedByMode ==
  ASSUME NEW s, Sound(s), NEW d \in Nat,
         normSquared(s.manual_axes) =< FullStick * FullStick
  PROVE  LET m == Moved(s, d)
         IN  /\ m \in Vec3
             /\ s.mode \in {"Disarmed", "Hold"} => m = Zero
             /\ s.mode = "Takeoff" => m.x = 0 /\ m.z \in 0 .. ClimbSpeed * d
             /\ s.mode = "Takeoff" /\ altitude(s) >= effective_takeoff_altitude =>
                   m.z = 0
             /\ s.mode = "Land" => m.x = 0 /\ m.z \in -(LandSpeed * d) .. 0
             /\ s.mode = "Goto" =>
                   normSquared(m) =< (HorizontalSpeed * d) * (HorizontalSpeed * d)
             /\ Fresh(s) => normSquared(m) =< (Faster * d) * (Faster * d)
<1> DEFINE m == Moved(s, d)
           v == desired_velocity(s, d)
<1>1. /\ v \in Vec3 /\ m \in Vec3
      /\ m.x \in 0 .. v.x \/ m.x \in v.x .. 0
      /\ m.z \in 0 .. v.z \/ m.z \in v.z .. 0
      /\ normSquared(m) =< normSquared(v)
  BY MovedShortens
<1>2. m.x \in Int /\ m.z \in Int /\ v.x \in Int /\ v.z \in Int
  BY <1>1 DEF Vec3
<1>3. normSquared(m) \in Nat /\ normSquared(v) \in Nat
  BY <1>1, MinusType
<1> DEFINE h == HorizontalSpeed * d
           c == ClimbSpeed * d
           l == LandSpeed * d
<1>4. h \in Nat /\ c \in Nat /\ l \in Nat
  BY FlightConfigAssumption
<1>5. s.position \in Vec3 /\ s.manual_axes \in Vec3
  BY DEF Sound, FlightState
<1> HIDE DEF m
<1>6. ASSUME v.x = 0 PROVE m.x = 0
  BY <1>1, <1>2, <1>6
<1>7. ASSUME v.z = 0 PROVE m.z = 0
  BY <1>1, <1>2, <1>7
<1>8. ASSUME s.mode \in {"Disarmed", "Hold"} PROVE m = Zero
  <2>1. v = Zero
    BY <1>8 DEF desired_velocity
  <2>2. m.x = 0 /\ m.z = 0
    BY <1>6, <1>7, <2>1, ZeroType
  <2> QED BY <1>1, <2>2 DEF Vec3, Zero
<1>9. ASSUME s.mode = "Takeoff"
      PROVE  /\ m.x = 0 /\ m.z \in 0 .. c
             /\ altitude(s) >= effective_takeoff_altitude => m.z = 0
  <2>1. v = IF altitude(s) < effective_takeoff_altitude
            THEN [x |-> 0, z |-> c] ELSE Zero
    BY <1>9 DEF desired_velocity
  <2>2. altitude(s) \in Int /\ effective_takeoff_altitude \in Int
    BY <1>5, TakeoffAltitudeInFence, FlightConfigAssumption DEF altitude, Vec3
  <2>3. v.x = 0 /\ (v.z = c \/ v.z = 0)
        /\ (altitude(s) >= effective_takeoff_altitude => v.z = 0)
    BY <2>1, <2>2, ZeroType
  <2> HIDE DEF v, c
  <2> QED BY <1>1, <1>2, <1>4, <1>6, <2>3
<1>10. ASSUME s.mode = "Land" PROVE m.x = 0 /\ m.z \in -l .. 0
  <2>1. v.x = 0 /\ v.z = -l
    BY <1>10 DEF desired_velocity
  <2> HIDE DEF v, l
  <2> QED BY <1>1, <1>2, <1>4, <1>6, <2>1
<1>11. ASSUME s.mode = "Goto" PROVE normSquared(m) =< h * h
  <2>1. s.target # {} /\ the(s.target) \in Vec3
    BY <1>11, TheTarget DEF Sound
  <2> DEFINE t == the(s.target)
  <2>2. v = velocity_towards(s.position, t, h, ArrivalTolerance)
    BY <1>11, <2>1 DEF desired_velocity
  <2> HIDE DEF v, t, h
  <2>3. h * h \in Nat
    BY <1>4
  <2>4. CASE within(s.position, t, ArrivalTolerance)
    <3>1. v = Zero
      BY <2>2, <2>4 DEF velocity_towards
    <3>2. normSquared(v) = 0
      BY <3>1 DEF normSquared, Zero
    <3> QED BY <1>1, <1>3, <2>3, <3>2
  <2>5. CASE ~within(s.position, t, ArrivalTolerance)
    <3> DEFINE w == minus(t, s.position)
    <3>1. v = scaled(w, h)
      BY <2>2, <2>5 DEF velocity_towards
    <3>2. w \in Vec3 /\ normSquared(w) \in Nat
      BY <1>5, <2>1, MinusType DEF t
    <3>3. normSquared(w) > 0
      <4>1. ArrivalTolerance * ArrivalTolerance \in Nat
        BY FlightConfigAssumption
      <4> QED BY <2>5, <3>2, <4>1 DEF within
    <3> HIDE DEF w
    <3>4. normSquared(scaled(w, h)) =< h * h
      BY <1>4, <3>2, <3>3, ScaledLength
    <3> QED BY <1>1, <1>3, <2>3, <3>1, <3>4
  <2> QED BY <2>4, <2>5
<1>12. ASSUME Fresh(s) PROVE normSquared(m) =< (Faster * d) * (Faster * d)
  <2>1. s.mode = "Manual" /\ ~(s.sinceInput > ManualTimeout)
    <3>1. s.sinceInput \in Int /\ ManualTimeout \in Int
      BY FlightConfigAssumption DEF Sound, FlightState, Expired
    <3> QED BY <1>12, <3>1 DEF Fresh
  <2>2. v = [x |-> truncated(s.manual_axes.x * HorizontalSpeed * d, FullStick),
             z |-> truncated(s.manual_axes.z * ClimbSpeed * d, FullStick)]
    BY <2>1 DEF desired_velocity
  <2>3. normSquared(v) =< (Faster * d) * (Faster * d)
    BY <1>5, <2>2, ManualLength
  <2>4. (Faster * d) * (Faster * d) \in Int
    BY FlightConfigAssumption DEF Faster
  <2> QED BY <1>1, <1>3, <2>3, <2>4
<1> QED BY <1>1, <1>8, <1>9, <1>10, <1>11, <1>12 DEF m

\* When the completion event is due, and where it leaves the drone.
Due(s, n) ==
    \/ /\ n = s
       /\ s.mode = "Takeoff" => altitude(s) < effective_takeoff_altitude
       /\ s.mode = "Land" => ~(altitude(s) < DisarmAltitude)
    \/ /\ s.mode = "Takeoff" /\ altitude(s) >= effective_takeoff_altitude
       /\ n.mode = "Hold"
       /\ n.position = [s.position EXCEPT !.z = effective_takeoff_altitude]
    \/ /\ s.mode = "Goto" /\ n.mode = "Hold"
       /\ n.position \in Vec3
       /\ normSquared(minus(n.position, s.position)) =<
            ArrivalTolerance * ArrivalTolerance
    \/ /\ s.mode = "Land" /\ altitude(s) < DisarmAltitude
       /\ n.mode = "Disarmed"
       /\ n.position = [s.position EXCEPT !.z = 0]

LEMMA CompletionDue ==
  ASSUME NEW s, Sound(s), NEW pending
  PROVE  Due(s, feed(s, pending, completion_event(s)).state)
<1> DEFINE n == feed(s, pending, completion_event(s)).state
<1>0. s \in FlightState /\ s.position \in Vec3
  BY DEF Sound, FlightState
<1>1. ASSUME NEW e, completion_event(s) = {e}
      PROVE  n = apply(s, e, Zero).state
  <2>1. the({e}) = e
    BY DEF the
  <2> QED BY <1>1, <2>1 DEF feed, dispatch
<1>2. CASE s.mode = "Takeoff"
  <2>1. altitude(s) \in Int /\ effective_takeoff_altitude \in Int
    BY <1>0, TakeoffAltitudeInFence, FlightConfigAssumption DEF altitude, Vec3
  <2>2. CASE altitude(s) < effective_takeoff_altitude
    <3>1. completion_event(s) = {}
      BY <1>2, <2>1, <2>2 DEF completion_event
    <3> QED BY <1>2, <2>2, <3>1 DEF feed, Due
  <2>3. CASE altitude(s) >= effective_takeoff_altitude
    <3>1. completion_event(s) = {"TakeoffComplete"}
      BY <1>2, <2>3 DEF completion_event
    <3>2. n = [settle_at_takeoff_altitude(s) EXCEPT !.mode = "Hold"]
      BY <1>0, <1>1, <1>2, <3>1, DerivedEffect
    <3> HIDE DEF n
    <3>3. n.mode = "Hold"
          /\ n.position = [s.position EXCEPT !.z = effective_takeoff_altitude]
      BY <1>0, <3>2 DEF settle_at_takeoff_altitude, FlightState
    <3> QED BY <1>2, <2>3, <3>3 DEF Due, n
  <2> QED BY <2>1, <2>2, <2>3
<1>3. CASE s.mode = "Goto"
  <2>1. CASE \E t \in s.target : within(s.position, t, ArrivalTolerance)
    <3>1. completion_event(s) = {"TargetReached"}
      BY <1>3, <2>1 DEF completion_event
    <3>2. n = [settle_at_target(s) EXCEPT !.mode = "Hold"]
      BY <1>0, <1>1, <1>3, <3>1, DerivedEffect
    <3>3. PICK t \in s.target : within(s.position, t, ArrivalTolerance)
      BY <2>1
    <3>4. the(s.target) = t /\ t \in Vec3 /\ s.target # {}
      BY <1>3, <3>3, TheTarget DEF Sound
    <3> HIDE DEF n
    <3>5. n.mode = "Hold" /\ n.position = t
      BY <1>0, <3>2, <3>4 DEF settle_at_target, FlightState
    <3>6. normSquared(minus(n.position, s.position)) =<
            ArrivalTolerance * ArrivalTolerance
      BY <3>3, <3>5 DEF within
    <3> QED BY <1>3, <3>4, <3>5, <3>6 DEF Due, n
  <2>2. CASE ~\E t \in s.target : within(s.position, t, ArrivalTolerance)
    <3>1. completion_event(s) = {}
      BY <1>3, <2>2 DEF completion_event
    <3> QED BY <1>3, <3>1 DEF feed, Due
  <2> QED BY <2>1, <2>2
<1>4. CASE s.mode = "Land" /\ altitude(s) < DisarmAltitude
  <2>1. completion_event(s) = {"Touchdown"}
    BY <1>4 DEF completion_event
  <2>2. n = [touchdown(s) EXCEPT !.mode = "Disarmed"]
    BY <1>0, <1>1, <1>4, <2>1, DerivedEffect
  <2> HIDE DEF n
  <2>3. n.mode = "Disarmed" /\ n.position = [s.position EXCEPT !.z = 0]
    BY <1>0, <2>2 DEF touchdown, FlightState
  <2> QED BY <1>4, <2>3 DEF Due, n
<1>5. CASE /\ s.mode \notin {"Takeoff", "Goto"}
           /\ ~(s.mode = "Land" /\ altitude(s) < DisarmAltitude)
  <2>1. completion_event(s) = {}
    BY <1>5 DEF completion_event
  <2> QED BY <1>5, <2>1 DEF feed, Due
<1> QED BY <1>2, <1>3, <1>4, <1>5

\* The time-driven event, before the integration: it stops a drone that hears
\* its operator no more, and carries no drone anywhere.
LEMMA TimeoutDue ==
  ASSUME NEW s, Sound(s), NEW pending
  PROVE  LET n == feed(s, pending, timeout_event(s)).state
         IN  \/ n = s /\ (s.mode = "Manual" => Fresh(s))
             \/ /\ s.mode = "Manual" /\ ~Fresh(s)
                /\ n.mode = "Hold" /\ n.position = s.position
                /\ n.manual_axes = Zero
<1> DEFINE n == feed(s, pending, timeout_event(s)).state
<1>0. s \in FlightState /\ s.sinceInput \in Int /\ ManualTimeout \in Int
  BY FlightConfigAssumption DEF Sound, FlightState, Expired
<1>1. CASE s.mode = "Manual" /\ s.sinceInput > ManualTimeout
  <2>1. timeout_event(s) = {"ManualTimeout"}
    BY <1>1 DEF timeout_event
  <2>2. n = apply(s, "ManualTimeout", Zero).state
    BY <2>1 DEF feed, dispatch, the
  <2>3. n = [clear_manual(s) EXCEPT !.mode = "Hold"]
    BY <1>0, <1>1, <2>2, DerivedEffect
  <2> HIDE DEF n
  <2>4. n.mode = "Hold" /\ n.position = s.position /\ n.manual_axes = Zero
    BY <1>0, <2>3 DEF clear_manual, FlightState
  <2> QED BY <1>0, <1>1, <2>4 DEF n, Fresh
<1>2. CASE ~(s.mode = "Manual" /\ s.sinceInput > ManualTimeout)
  <2>1. timeout_event(s) = {}
    BY <1>2 DEF timeout_event
  <2>2. n = s
    BY <2>1 DEF feed
  <2> QED BY <1>0, <1>2, <2>2 DEF Fresh
<1> QED BY <1>1, <1>2

-----------------------------------------------------------------------------
(***************************************************************************)
(* Every step is as long as its mode allows.  Two facts carry it that no   *)
(* single state shows to be needed: a stick is never longer than a fully   *)
(* deflected one, and a drone that takes off is below its take-off         *)
(* altitude, or the step that ends the take-off would snap it downward.    *)
(***************************************************************************)
Orderly(s) ==
    /\ normSquared(s.manual_axes) =< FullStick * FullStick
    /\ s.mode = "Takeoff" => altitude(s) < effective_takeoff_altitude

Speed(s) ==
    CASE s.mode = "Land" -> LandSpeed
      [] s.mode = "Takeoff" -> ClimbSpeed
      [] s.mode = "Goto" -> HorizontalSpeed
      [] Fresh(s) -> Faster
      [] OTHER -> 0

Reach(s, n, d) == Speed(s) * d + Snap(s.mode, n.mode)

Allowed(s, n, d) ==
    LET moved == minus(n.position, s.position)
    IN  /\ moved.x # 0 => s.mode = "Goto" \/ Fresh(s)
        /\ s.mode = "Land" => moved.z =< 0
        /\ normSquared(moved) =< Reach(s, n, d) * Reach(s, n, d)

LEMMA ReachType ==
  ASSUME NEW s, NEW n, NEW d \in Nat
  PROVE  /\ Reach(s, n, d) \in Nat
         /\ Reach(s, n, d) * Reach(s, n, d) \in Nat
<1>1. Speed(s) \in Nat
  BY FlightConfigAssumption DEF Speed, Faster
<1>2. Snap(s.mode, n.mode) \in Nat
  BY FlightConfigAssumption DEF Snap
<1> DEFINE r == Reach(s, n, d)
<1>3. r \in Nat
  BY <1>1, <1>2 DEF Reach
<1> HIDE DEF r
<1>4. r * r \in Nat
  BY <1>3
<1> QED BY <1>3, <1>4 DEF r

LEMMA StandingIsAllowed ==
  ASSUME NEW s, s.position \in Vec3, NEW n, n.position = s.position, NEW d \in Nat
  PROVE  Allowed(s, n, d)
<1> DEFINE moved == minus(n.position, s.position)
<1>1. moved = Zero
  BY DEF minus, Vec3, Zero
<1>2. moved.x = 0 /\ moved.z = 0 /\ normSquared(moved) = 0
  BY <1>1 DEF Zero, normSquared
<1> HIDE DEF moved
<1>3. Reach(s, n, d) * Reach(s, n, d) \in Nat
  BY ReachType
<1> DEFINE r == Reach(s, n, d) * Reach(s, n, d)
<1> HIDE DEF r
<1>4. normSquared(moved) =< r
  BY <1>2, <1>3 DEF r
<1> QED BY <1>2, <1>4 DEF Allowed, moved, r

\* The integration of a drone in one of the modes that the time-driven event
\* leaves alone, and the completion event.
LEMMA StepIsAllowed ==
  ASSUME NEW s, Sound(s), Orderly(s), s.mode = "Manual" => Fresh(s),
         NEW d \in Nat, NEW m, m.mode = s.mode, m.position \in Vec3,
         m.position = Destination(s, d), NEW n, Due(m, n)
  PROVE  Allowed(s, n, d)
<1> DEFINE mv == Moved(s, d)
           p == s.position
           moved == minus(n.position, p)
           r == Reach(s, n, d)
<1>1. /\ mv \in Vec3
      /\ s.mode \in {"Disarmed", "Hold"} => mv = Zero
      /\ s.mode = "Takeoff" => mv.x = 0 /\ mv.z \in 0 .. ClimbSpeed * d
      /\ s.mode = "Land" => mv.x = 0 /\ mv.z \in -(LandSpeed * d) .. 0
      /\ s.mode = "Goto" =>
            normSquared(mv) =< (HorizontalSpeed * d) * (HorizontalSpeed * d)
      /\ Fresh(s) => normSquared(mv) =< (Faster * d) * (Faster * d)
  BY MovedByMode DEF Orderly
<1>2. p \in Vec3 /\ s.mode \in FlightMode
  BY DEF Sound, FlightState
<1>3. mv = minus(m.position, p)
  BY DEF Moved
<1>4. m.position.x = p.x + mv.x /\ m.position.z = p.z + mv.z
  BY <1>2, <1>3 DEF minus, Vec3
<1>5. /\ p.x \in Int /\ p.z \in Int /\ mv.x \in Int /\ mv.z \in Int
      /\ m.position.x \in Int /\ m.position.z \in Int
  BY <1>1, <1>2 DEF Vec3
<1>6. moved.x = n.position.x - p.x /\ moved.z = n.position.z - p.z
  BY DEF minus
<1>7. r \in Nat /\ r * r \in Nat
  BY ReachType
<1> HIDE DEF mv
<1>8. CASE s.mode \in {"Disarmed", "Hold"}
  <2>1. n = m
    BY <1>8 DEF Due
  <2>2. mv.x = 0 /\ mv.z = 0
    BY <1>1, <1>8, ZeroType
  <2>3. n.position = p
    BY <1>2, <1>4, <1>5, <2>1, <2>2 DEF Vec3
  <2> QED BY <1>2, <2>3, StandingIsAllowed
<1>9. CASE s.mode = "Takeoff"
  <2> DEFINE c == ClimbSpeed * d
             e == effective_takeoff_altitude
  <2>1. c \in Nat /\ e \in Int
    BY FlightConfigAssumption, TakeoffAltitudeInFence
  <2>2. mv.x = 0 /\ mv.z \in 0 .. c
    BY <1>1, <1>9
  <2>3. p.z < e
    BY <1>9 DEF Orderly, altitude
  <2>4. r >= c
    <3>1. Speed(s) = ClimbSpeed
      BY <1>9 DEF Speed, Fresh
    <3>2. Snap(s.mode, n.mode) = 0
      BY <1>9 DEF Snap
    <3> QED BY <2>1, <3>1, <3>2 DEF Reach
  <2> HIDE DEF c, e, r
  <2>5. moved.x = 0 /\ moved.z \in 0 .. c
    <3>1. CASE n = m
      BY <1>4, <1>5, <1>6, <2>2, <3>1
    <3>2. CASE /\ altitude(m) >= e
               /\ n.position = [m.position EXCEPT !.z = e]
      <4>1. n.position.x = m.position.x /\ n.position.z = e /\ m.position.z >= e
        BY <3>2 DEF altitude, Vec3
      <4> QED BY <1>4, <1>5, <1>6, <2>1, <2>2, <2>3, <4>1
    <3> QED BY <1>9, <3>1, <3>2 DEF Due, e
  <2> DEFINE z == moved.z
  <2>6. normSquared(moved) = z * z
    <3>1. z \in Int
      BY <2>1, <2>5
    <3> HIDE DEF z
    <3> QED BY <2>5, <3>1 DEF normSquared, z
  <2>7. z \in Int /\ -r =< z /\ z =< r
    BY <1>7, <2>1, <2>4, <2>5
  <2> HIDE DEF z
  <2>8. z * z =< r * r
    BY <1>7, <2>7, SquaresOfInts
  <2> HIDE DEF moved
  <2> QED BY <1>9, <2>5, <2>6, <2>8 DEF Allowed, moved, r
<1>10. CASE s.mode = "Land"
  <2> DEFINE l == LandSpeed * d
  <2>1. l \in Nat /\ DisarmAltitude \in Nat
    BY FlightConfigAssumption
  <2>2. mv.x = 0 /\ mv.z \in -l .. 0
    BY <1>1, <1>10
  <2>3. p.z >= 0
    BY <1>5, FlightConfigAssumption DEF Sound, contains
  <2>4. Speed(s) = LandSpeed
    BY <1>10 DEF Speed, Fresh
  <2>5. n.mode = "Disarmed" => r = l + DisarmAltitude
    BY <1>10, <2>4 DEF Reach, Snap
  <2>6. r >= l
    <3>1. Snap(s.mode, n.mode) \in Nat
      BY FlightConfigAssumption DEF Snap
    <3> QED BY <2>1, <2>4, <3>1 DEF Reach
  <2> HIDE DEF l, r
  <2>7. moved.x = 0 /\ moved.z \in -r .. 0
    <3>1. CASE n = m
      BY <1>4, <1>5, <1>6, <1>7, <2>1, <2>2, <2>6, <3>1
    <3>2. CASE /\ altitude(m) < DisarmAltitude /\ n.mode = "Disarmed"
               /\ n.position = [m.position EXCEPT !.z = 0]
      <4>1. /\ n.position.x = m.position.x /\ n.position.z = 0
            /\ m.position.z < DisarmAltitude
        BY <3>2 DEF altitude, Vec3
      <4> QED BY <1>4, <1>5, <1>6, <1>7, <2>1, <2>2, <2>3, <2>5, <3>2, <4>1
    <3> QED BY <1>10, <3>1, <3>2 DEF Due
  <2> DEFINE z == moved.z
  <2>8. z \in Int /\ -r =< z /\ z =< r /\ z =< 0
    BY <1>7, <2>7
  <2>9. normSquared(moved) = z * z
    <3> HIDE DEF z
    <3> QED BY <2>7, <2>8 DEF normSquared, z
  <2> HIDE DEF z
  <2>10. z * z =< r * r
    BY <1>7, <2>8, SquaresOfInts
  <2> HIDE DEF moved
  <2> QED BY <1>10, <2>7, <2>8, <2>9, <2>10 DEF Allowed, moved, r, z
<1>11. CASE s.mode = "Goto"
  <2> DEFINE h == HorizontalSpeed * d
             u == minus(n.position, m.position)
  <2>1. h \in Nat /\ ArrivalTolerance \in Nat
    BY FlightConfigAssumption
  <2>2. normSquared(mv) =< h * h
    BY <1>1, <1>11
  <2>3. Speed(s) = HorizontalSpeed
    BY <1>11 DEF Speed, Fresh
  <2>4. n.mode = "Hold" => r = h + ArrivalTolerance
    BY <1>11, <2>3 DEF Reach, Snap
  <2>5. n.mode = "Goto" => r = h
    BY <1>11, <2>1, <2>3 DEF Reach, Snap
  <2> HIDE DEF h, r
  <2>6. CASE n = m
    BY <1>3, <1>11, <2>2, <2>5, <2>6 DEF Allowed, r
  <2>7. CASE /\ n.mode = "Hold" /\ n.position \in Vec3
             /\ normSquared(u) =< ArrivalTolerance * ArrivalTolerance
    <3>1. u \in Vec3
      BY <2>7, MinusType
    <3>2. moved = plus(mv, u)
      BY <1>2, <1>3, <2>7 DEF minus, plus, Vec3
    <3>3. normSquared(plus(mv, u)) =< (h + ArrivalTolerance) * (h + ArrivalTolerance)
      BY <1>1, <2>1, <2>2, <2>7, <3>1, Triangle
    <3> HIDE DEF moved
    <3> QED BY <1>11, <2>4, <2>7, <3>2, <3>3 DEF Allowed, moved, r
  <2> QED BY <1>11, <2>6, <2>7 DEF Due
<1>12. CASE s.mode = "Manual"
  <2>1. n = m /\ Fresh(s)
    BY <1>12 DEF Due
  <2>2. r = Faster * d
    <3>1. Speed(s) = Faster
      BY <1>12, <2>1 DEF Speed, Fresh
    <3>2. Snap(s.mode, n.mode) = 0
      BY <1>12 DEF Snap
    <3>3. Faster * d \in Nat
      BY FlightConfigAssumption DEF Faster
    <3> QED BY <3>1, <3>2, <3>3 DEF Reach
  <2>3. normSquared(mv) =< (Faster * d) * (Faster * d)
    BY <1>1, <2>1
  <2> HIDE DEF r
  <2> QED BY <1>3, <1>12, <2>1, <2>2, <2>3 DEF Allowed, r
<1> QED BY <1>2, <1>8, <1>9, <1>10, <1>11, <1>12 DEF FlightMode

\* No row for an operator's command or a stick moves the drone.
LEMMA CommandStands ==
  ASSUME NEW s \in FlightState, NEW v \in Vec3,
         NEW event \in {"Arm", "Disarm", "Land", "Goto", "ManualActive",
                        "ManualCentred"}
  PROVE  apply(s, event, v).state.position = s.position
<1> DEFINE outcomes == {Fire(row, s, v) : row \in find(s, event)}
<1>1. CASE outcomes = {}
  BY <1>1 DEF apply
<1>2. CASE outcomes # {}
  <2>1. apply(s, event, v) = the(outcomes)
    BY <1>2 DEF apply
  <2>2. the(outcomes) \in outcomes
    BY <1>2 DEF the
  <2>3. PICK row \in find(s, event) : the(outcomes) = Fire(row, s, v)
    BY <2>2
  <2>4. PICK i \in 1 .. 17 : row = Table[i] /\ Matches(Table[i], s, event)
    BY <2>3, TableDomain DEF find, MatchingRows
  <2>5. Table[i].on = event
    BY <2>4 DEF Matches
  <2>6. i \notin 14 .. 17
    <3>1. /\ Table[14].on = "TakeoffComplete" /\ Table[15].on = "TargetReached"
          /\ Table[16].on = "ManualTimeout" /\ Table[17].on = "Touchdown"
      BY DEF Table, kTransitions, kTouchdownTransition, Row
    <3> QED BY <2>5, <3>1
  <2>7. Table[i].action \in {"identity", "begin_takeoff", "cut_motors",
                             "begin_land", "set_target", "set_manual",
                             "clear_manual"}
    <3>1. i \in 1 .. 13
      BY <2>6
    <3> QED BY <3>1 DEF Table, kTransitions, Row
  <2> DEFINE next == perform(Table[i].action, s, v)
  <2>8. next.position = s.position /\ [next EXCEPT !.mode = Table[i].to].position
          = s.position
    BY <2>7
    DEF perform, FlightState, begin_takeoff, cut_motors, begin_land, set_target,
        set_manual, clear_manual
  <2>9. Fire(Table[i], s, v).state.position = s.position
    BY <2>8 DEF Fire
  <2> QED BY <2>1, <2>3, <2>4, <2>9
<1> QED BY <1>1, <1>2

\* Every effect of the table leaves the state orderly.
LEMMA EffectOrderly ==
  ASSUME DisarmAltitude =< effective_takeoff_altitude,
         NEW s, Sound(s), Orderly(s), NEW event, NEW v \in Vec3,
         event = "ManualActive" => normSquared(v) =< FullStick * FullStick,
         NEW n, TableEffect(s, event, v, n)
  PROVE  Orderly(n)
<1> DEFINE f == FullStick * FullStick
<1>0. s \in FlightState /\ normSquared(s.manual_axes) =< f
  BY DEF Sound, FlightState, Orderly
<1>1. normSquared(Zero) =< f
  <2>1. f \in Nat
    BY FlightConfigAssumption
  <2> QED BY <2>1 DEF normSquared, Zero
<1>2. /\ \/ n.manual_axes = s.manual_axes
         \/ n.manual_axes = Zero
         \/ n.manual_axes = v /\ event = "ManualActive"
      /\ \/ n = s
         \/ n.mode # "Takeoff"
         \/ s.mode = "Disarmed" /\ n.position = s.position
  BY <1>0
  DEF TableEffect, FlightState, begin_takeoff, cut_motors, begin_land,
      set_target, set_manual, clear_manual, settle_at_takeoff_altitude,
      settle_at_target, touchdown
<1>3. normSquared(n.manual_axes) =< f
  BY <1>0, <1>1, <1>2
<1>4. ASSUME s.mode = "Disarmed", n.position = s.position
      PROVE  altitude(n) < effective_takeoff_altitude
  <2>1. altitude(s) < DisarmAltitude /\ altitude(n) = altitude(s)
    BY <1>4 DEF Sound, altitude
  <2>2. altitude(s) \in Int /\ effective_takeoff_altitude \in Int
    BY <1>0, TakeoffAltitudeInFence, FlightConfigAssumption
    DEF FlightState, altitude, Vec3
  <2> QED BY <2>1, <2>2, FlightConfigAssumption
<1> QED BY <1>2, <1>3, <1>4 DEF Orderly

LEMMA CommandOrderly ==
  ASSUME DisarmAltitude =< effective_takeoff_altitude, IInv, Orderly(state),
         NEW v \in Vec3,
         NEW event \in {"Arm", "Disarm", "Land", "Goto", "ManualActive",
                        "ManualCentred"},
         event = "ManualActive" => normSquared(v) =< FullStick * FullStick,
         Command(event, v)
  PROVE  Orderly(state') /\ Allowed(state, state', dt)
<1>1. Sound(state) /\ state \in FlightState /\ state.position \in Vec3 /\ dt \in Nat
  BY DEF IInv, Sound, FlightState
<1>2. state' = apply(state, event, v).state
  BY DEF Command, dispatch
<1>3. TableEffect(state, event, v, state')
  BY <1>1, <1>2, ApplyEffect
<1>4. state'.position = state.position
  BY <1>1, <1>2, CommandStands
<1> QED BY <1>1, <1>3, <1>4, EffectOrderly, StandingIsAllowed

\* A step that ends a take-off leaves the mode, and no step enters it.
LEMMA StepOrderly ==
  ASSUME IInv, Orderly(state), Step
  PROVE  Orderly(state') /\ Allowed(state, state', dt)
<1> DEFINE timed == feed(state, transition, timeout_event(state))
           m == integrate(timed.state, dt).state
           n == feed(m, timed.transition, completion_event(m)).state
<1>1. Sound(state) /\ state \in FlightState /\ state.position \in Vec3 /\ dt \in Nat
  BY DEF IInv, Sound, FlightState
<1>2. state' = n
  BY DEF Step
<1>3. Sound(timed.state)
  BY <1>1, FeedSound, DerivedEvents DEF IInv
<1>4. \/ timed.state = state /\ (state.mode = "Manual" => Fresh(state))
      \/ /\ state.mode = "Manual" /\ ~Fresh(state)
         /\ timed.state.mode = "Hold" /\ timed.state.position = state.position
         /\ timed.state.manual_axes = Zero
  BY <1>1, TimeoutDue
<1>5. /\ Sound(m) /\ m.mode = timed.state.mode
      /\ m.position = Destination(timed.state, dt)
  BY <1>1, <1>3, IntegrateSound
<1>6. m.manual_axes = timed.state.manual_axes
  <2> DEFINE p == Destination(timed.state, dt)
             w == minus(p, timed.state.position)
             s == timed.state
  <2>1. m = [s EXCEPT !.position = p, !.velocity = w]
    BY <1>1, <1>3, IntegrateEffect
  <2>2. s \in FlightState
    BY <1>3 DEF Sound
  <2> HIDE DEF p, w, s, m
  <2>3. m.manual_axes = s.manual_axes
    BY <2>1, <2>2 DEF FlightState
  <2> QED BY <2>3 DEF s
<1>7. Due(m, n)
  BY <1>5, CompletionDue
<1>8. m.position \in Vec3 /\ m \in FlightState
  BY <1>5 DEF Sound, FlightState
<1>9. Completion(m, n)
  BY <1>5, CompletionEffect
<1> HIDE DEF timed, m, n
<1>10. n.manual_axes \in {m.manual_axes, Zero}
       /\ (n.mode = "Takeoff" => n = m)
  BY <1>8, <1>9
  DEF Completion, FlightState, settle_at_takeoff_altitude, settle_at_target,
      touchdown
<1>11. normSquared(Zero) =< FullStick * FullStick
  <2>1. FullStick * FullStick \in Nat
    BY FlightConfigAssumption
  <2> QED BY <2>1 DEF normSquared, Zero
<1>12. normSquared(n.manual_axes) =< FullStick * FullStick
  BY <1>4, <1>6, <1>10, <1>11 DEF Orderly
<1>13. n.mode = "Takeoff" => altitude(n) < effective_takeoff_altitude
  <2> SUFFICES ASSUME n.mode = "Takeoff"
               PROVE  altitude(n) < effective_takeoff_altitude
    OBVIOUS
  <2>1. n = m
    BY <1>10
  <2> QED BY <1>7, <2>1 DEF Due
<1>14. Orderly(n)
  BY <1>12, <1>13 DEF Orderly
<1>15. CASE timed.state = state /\ (state.mode = "Manual" => Fresh(state))
  <2>1. Allowed(state, n, dt)
    BY <1>1, <1>5, <1>7, <1>8, <1>15, StepIsAllowed
  <2> QED BY <1>2, <1>14, <2>1
<1>16. CASE /\ timed.state.mode = "Hold"
            /\ timed.state.position = state.position
  <2>1. n = m
    BY <1>5, <1>7, <1>16 DEF Due
  <2>2. Moved(timed.state, dt) = Zero
    <3>1. desired_velocity(timed.state, dt) = Zero
      BY <1>16 DEF desired_velocity
    <3>2. /\ Moved(timed.state, dt) \in Vec3
          /\ Moved(timed.state, dt).x \in 0 .. 0
          /\ Moved(timed.state, dt).z \in 0 .. 0
      BY <1>1, <1>3, <3>1, MovedShortens, ZeroType
    <3> QED BY <3>2 DEF Vec3, Zero
  <2>3. m.position = state.position
    <3>1. minus(m.position, state.position) = Zero
      BY <1>5, <1>16, <2>2 DEF Moved
    <3> QED BY <1>1, <1>8, <3>1 DEF minus, Zero, Vec3
  <2> QED BY <1>1, <1>2, <1>14, <2>1, <2>3, StandingIsAllowed
<1> QED BY <1>4, <1>15, <1>16

LEMMA NextOrderly ==
  ASSUME DisarmAltitude =< effective_takeoff_altitude, IInv, Orderly(state),
         [Next]_vars
  PROVE  Orderly(state') /\ Allowed(state, state', dt)
<1>0. Sound(state) /\ state \in FlightState /\ state.position \in Vec3 /\ dt \in Nat
  BY DEF IInv, Sound, FlightState
<1>1. ASSUME NEW d \in Ticks, WakeUp(d)
      PROVE  Orderly(state') /\ Allowed(state, state', dt)
  <2> DEFINE n == aged(state, d)
  <2>1. state' = n
    BY <1>1 DEF WakeUp
  <2>2. n.mode = state.mode /\ n.manual_axes = state.manual_axes
        /\ n.position = state.position
    BY <1>0 DEF aged, FlightState
  <2> HIDE DEF n
  <2> QED BY <1>0, <2>1, <2>2, StandingIsAllowed DEF Orderly, altitude
<1>2. CASE Arm
  BY <1>2, CommandOrderly, ZeroType DEF Arm
<1>3. CASE Disarm
  BY <1>3, CommandOrderly, ZeroType DEF Disarm
<1>4. CASE Land
  BY <1>4, CommandOrderly, ZeroType DEF Land
<1>5. ASSUME NEW target \in Targets, Goto(target)
      PROVE  Orderly(state') /\ Allowed(state, state', dt)
  <2>1. target \in Vec3
    BY InputAssumption
  <2> QED BY <1>5, <2>1, CommandOrderly DEF Goto
<1>6. ASSUME NEW stick \in Sticks, ManualInput(stick)
      PROVE  Orderly(state') /\ Allowed(state, state', dt)
  <2> DEFINE axes == clamped_axes(stick)
  <2>1. axes \in Vec3 /\ normSquared(axes) =< FullStick * FullStick
    BY AxesType, StickLength, InputAssumption
  <2>2. Command(manual_event(axes), axes)
    BY <1>6 DEF ManualInput
  <2> HIDE DEF axes
  <2>3. manual_event(axes) \in {"ManualActive", "ManualCentred"}
    BY DEF manual_event
  <2> QED BY <2>1, <2>2, <2>3, CommandOrderly
<1>7. CASE Step
  BY <1>7, StepOrderly
<1>8. CASE UNCHANGED vars
  <2>1. state' = state
    BY <1>8 DEF vars
  <2> QED BY <1>0, <2>1, StandingIsAllowed
<1> QED
  BY <1>1, <1>2, <1>3, <1>4, <1>5, <1>6, <1>7, <1>8 DEF Next

\* Whatever the speeds, the fence, the ticks and the inputs: no step carries the
\* drone sideways without a GOTO or a fresh stick, lifts a landing drone, or goes
\* further than the speed of its mode and the snap of its completion allow.  An
\* airframe whose take-off altitude lies below the altitude at which it may be
\* disarmed would break it: it is disarmed above the take-off altitude, armed
\* again and snapped down.
THEOREM MotionIsBounded ==
  ASSUME DisarmAltitude =< effective_takeoff_altitude
  PROVE  Spec => MovesOnlyAsItsModeAllows
<1> DEFINE A == LET moved == minus(state'.position, state.position)
                    fresh == state.mode = "Manual"
                               /\ state.sinceInput =< ManualTimeout
                    speed == CASE state.mode = "Land" -> LandSpeed
                               [] state.mode = "Takeoff" -> ClimbSpeed
                               [] state.mode = "Goto" -> HorizontalSpeed
                               [] fresh -> IF HorizontalSpeed > ClimbSpeed
                                           THEN HorizontalSpeed ELSE ClimbSpeed
                               [] OTHER -> 0
                    reach == speed * dt + Snap(state.mode, state'.mode)
                IN  /\ moved.x # 0 => state.mode = "Goto" \/ fresh
                    /\ state.mode = "Land" => moved.z =< 0
                    /\ normSquared(moved) =< reach * reach
<1>1. Init => Orderly(state)
  <2> SUFFICES ASSUME Init PROVE Orderly(state)
    OBVIOUS
  <2>1. state.manual_axes = Zero /\ state.mode = "Disarmed"
    BY DEF Init, InitialFlightState
  <2>2. FullStick * FullStick \in Nat
    BY FlightConfigAssumption
  <2> QED BY <2>1, <2>2 DEF Orderly, normSquared, Zero
<1>2. IInv /\ Orderly(state) /\ [Next]_vars => Orderly(state)'
  BY NextOrderly
<1>3. IInv /\ Orderly(state) /\ [Next]_vars => [A]_vars
  <2> SUFFICES ASSUME IInv, Orderly(state), [Next]_vars PROVE A
    OBVIOUS
  <2>1. Allowed(state, state', dt)
    BY NextOrderly
  <2> QED BY <2>1 DEF Allowed, Reach, Speed, Fresh, Faster
<1> HIDE DEF A
<1>4. Spec => [][A]_vars
  BY <1>1, <1>2, <1>3, Invariance, PTL DEF Spec
<1> QED BY <1>4 DEF A, MovesOnlyAsItsModeAllows

-----------------------------------------------------------------------------
(***************************************************************************)
(* The automatic phases get on.  A take-off that a step does not end is    *)
(* below its altitude, hence below the ceiling, and there is room to       *)
(* climb; a landing that a step does not end is above the ground.          *)
(***************************************************************************)
Advances(s, n, flown) ==
    /\ s.mode = "Takeoff" /\ n.mode = "Takeoff" =>
          IF flown THEN altitude(n) > altitude(s) ELSE altitude(n) = altitude(s)
    /\ s.mode = "Land" /\ n.mode = "Land" =>
          IF flown THEN altitude(n) < altitude(s) ELSE altitude(n) = altitude(s)

LEMMA PhaseStepAdvances ==
  ASSUME ClimbSpeed # 0, LandSpeed # 0, NEW s, Sound(s),
         s.mode \in {"Takeoff", "Land"}, NEW d \in Nat,
         NEW m, m.mode = s.mode, m.position = Destination(s, d),
         NEW n, Due(m, n)
  PROVE  Advances(s, n, d > 0)
<1> DEFINE p == s.position
           v == desired_velocity(s, d)
<1>1. /\ p \in Vec3 /\ p.z \in Int /\ 0 =< p.z /\ p.z =< Ceiling
      /\ s.armed /\ v \in Vec3 /\ v.z \in Int
  BY DesiredVelocityType DEF Sound, FlightState, contains, Vec3
<1>2. /\ ClimbSpeed \in Nat /\ LandSpeed \in Nat /\ Ceiling \in Nat
      /\ DisarmAltitude \in Nat /\ DisarmAltitude > 0
      /\ effective_takeoff_altitude \in Int
      /\ effective_takeoff_altitude =< Ceiling
  BY FlightConfigAssumption, TakeoffAltitudeInFence
<1>3. SUFFICES ASSUME n.mode = s.mode PROVE Advances(s, n, d > 0)
  BY DEF Advances
<1>4. /\ n = m
      /\ s.mode = "Takeoff" => altitude(m) < effective_takeoff_altitude
      /\ s.mode = "Land" => ~(altitude(m) < DisarmAltitude)
  BY <1>3 DEF Due
<1>5. CASE d = 0
  <2>1. altitude(n) = altitude(s)
    BY <1>4, <1>5 DEF Destination, altitude
  <2> QED BY <1>5, <2>1 DEF Advances
<1>6. CASE d # 0
  <2>1. altitude(n) = clamp(p.z + v.z, 0, Ceiling)
    BY <1>1, <1>4, <1>6 DEF Destination, altitude, clampToFence, plus
  <2>2. altitude(s) = p.z /\ d > 0
    BY <1>6 DEF altitude
  <2>3. CASE s.mode = "Takeoff"
    <3>1. altitude(n) < effective_takeoff_altitude
      BY <1>4, <2>3
    <3>2. CASE p.z < effective_takeoff_altitude
      <4>1. v.z = ClimbSpeed * d
        BY <2>2, <2>3, <3>2 DEF desired_velocity
      <4>2. ClimbSpeed * d \in Nat /\ ClimbSpeed * d > 0
        BY <1>2, <2>2
      <4> DEFINE c == ClimbSpeed * d
      <4> HIDE DEF c
      <4>3. v.z = c /\ c \in Nat /\ c > 0
        BY <4>1, <4>2 DEF c
      <4> HIDE DEF v, p
      <4>4. altitude(n) > p.z
        BY <1>1, <1>2, <2>1, <3>2, <4>3 DEF clamp
      <4> QED BY <2>2, <2>3, <4>4 DEF Advances
    <3>3. CASE ~(p.z < effective_takeoff_altitude)
      <4>1. v.z = 0
        BY <2>2, <2>3, <3>3, ZeroType DEF desired_velocity
      <4> HIDE DEF v, p
      <4>2. altitude(n) = p.z
        BY <1>1, <1>2, <2>1, <4>1 DEF clamp
      <4> QED BY <1>1, <1>2, <3>1, <3>3, <4>2
    <3> QED BY <3>2, <3>3
  <2>4. CASE s.mode = "Land"
    <3>1. ~(altitude(n) < DisarmAltitude)
      BY <1>4, <2>4
    <3>2. v.z = -(LandSpeed * d)
      BY <2>4 DEF desired_velocity
    <3>3. LandSpeed * d \in Nat /\ LandSpeed * d > 0
      BY <1>2, <2>2
    <3> DEFINE l == LandSpeed * d
    <3> HIDE DEF l
    <3>4. v.z = -l /\ l \in Nat /\ l > 0
      BY <3>2, <3>3 DEF l
    <3> HIDE DEF v, p
    <3>5. altitude(n) < p.z
      BY <1>1, <1>2, <2>1, <3>1, <3>4 DEF clamp
    <3> QED BY <2>2, <2>4, <3>5 DEF Advances
  <2> QED BY <2>3, <2>4
<1> QED BY <1>5, <1>6

LEMMA NextAdvances ==
  ASSUME ClimbSpeed # 0, LandSpeed # 0, IInv, [Next]_vars
  PROVE  Advances(state, state', awake /\ ~awake' /\ dt > 0)
<1>0. Sound(state) /\ state \in FlightState /\ dt \in Nat
  BY DEF IInv, Sound
<1>1. ASSUME state'.position = state.position, ~(awake /\ ~awake')
      PROVE  Advances(state, state', awake /\ ~awake' /\ dt > 0)
  BY <1>1 DEF Advances, altitude
<1>2. ASSUME NEW v \in Vec3,
             NEW event \in {"Arm", "Disarm", "Land", "Goto", "ManualActive",
                            "ManualCentred"},
             Command(event, v)
      PROVE  Advances(state, state', awake /\ ~awake' /\ dt > 0)
  <2>1. state' = apply(state, event, v).state /\ awake' = awake
    BY <1>2 DEF Command, dispatch
  <2>2. state'.position = state.position
    BY <1>0, <2>1, CommandStands
  <2> QED BY <1>1, <2>1, <2>2
<1>3. ASSUME NEW d \in Ticks, WakeUp(d)
      PROVE  Advances(state, state', awake /\ ~awake' /\ dt > 0)
  <2>1. state' = aged(state, d) /\ ~awake
    BY <1>3 DEF WakeUp
  <2>2. state'.position = state.position
    BY <1>0, <2>1 DEF aged, FlightState
  <2> QED BY <1>1, <2>1, <2>2
<1>4. CASE Step
  <2> DEFINE timed == feed(state, transition, timeout_event(state))
             m == integrate(timed.state, dt).state
             n == feed(m, timed.transition, completion_event(m)).state
  <2>1. SUFFICES ASSUME state.mode \in {"Takeoff", "Land"}
                 PROVE  Advances(state, state', awake /\ ~awake' /\ dt > 0)
    BY DEF Advances
  <2>2. state' = n /\ awake /\ ~awake'
    BY <1>4 DEF Step
  <2>3. timed.state = state
    BY <1>0, <2>1, TimeoutDue
  <2>4. /\ Sound(m) /\ m.mode = state.mode
        /\ m.position = Destination(state, dt)
    BY <1>0, <2>3, IntegrateSound
  <2>5. Due(m, n)
    BY <2>4, CompletionDue
  <2> HIDE DEF timed, m, n
  <2>6. Advances(state, n, dt > 0)
    BY <1>0, <2>1, <2>4, <2>5, PhaseStepAdvances
  <2> QED BY <2>2, <2>6
<1>5. ASSUME NEW target \in Targets, Goto(target)
      PROVE  Advances(state, state', awake /\ ~awake' /\ dt > 0)
  <2>1. target \in Vec3
    BY InputAssumption
  <2> QED BY <1>2, <1>5, <2>1 DEF Goto
<1>6. ASSUME NEW stick \in Sticks, ManualInput(stick)
      PROVE  Advances(state, state', awake /\ ~awake' /\ dt > 0)
  <2> DEFINE axes == clamped_axes(stick)
  <2>1. axes \in Vec3
    BY AxesType, InputAssumption
  <2>2. Command(manual_event(axes), axes)
    BY <1>6 DEF ManualInput
  <2> HIDE DEF axes
  <2>3. manual_event(axes) \in {"ManualActive", "ManualCentred"}
    BY DEF manual_event
  <2> QED BY <1>2, <2>1, <2>2, <2>3
<1>7. CASE UNCHANGED vars
  <2>1. state' = state /\ awake' = awake
    BY <1>7 DEF vars
  <2> QED BY <1>1, <2>1
<1> QED
  BY <1>2, <1>3, <1>4, <1>5, <1>6, <1>7, ZeroType
  DEF Next, Arm, Disarm, Land

\* Whatever the speeds, the altitudes and the ceiling, as long as the drone can
\* climb and sink at all: no step of a take-off or a landing is in vain, so that
\* a take-off has at most Ceiling of them, wherever the ceiling lies.
THEOREM PhasesAdvance ==
  ASSUME ClimbSpeed # 0, LandSpeed # 0
  PROVE  Spec => AutomaticPhasesAdvance
<1> DEFINE A == Advances(state, state', awake /\ ~awake' /\ dt > 0)
<1>1. IInv /\ [Next]_vars => [A]_vars
  BY NextAdvances
<1>2. [A]_vars =>
        [LET flown == awake /\ ~awake' /\ dt > 0
         IN  /\ state.mode = "Takeoff" /\ state'.mode = "Takeoff" =>
                   IF flown THEN altitude(state') > altitude(state)
                            ELSE altitude(state') = altitude(state)
             /\ state.mode = "Land" /\ state'.mode = "Land" =>
                   IF flown THEN altitude(state') < altitude(state)
                            ELSE altitude(state') = altitude(state)]_vars
  BY DEF Advances
<1> HIDE DEF A
<1>3. Spec => [][A]_vars
  BY <1>1, Invariance, PTL DEF Spec
<1> QED BY <1>2, <1>3, PTL DEF AutomaticPhasesAdvance
=============================================================================
