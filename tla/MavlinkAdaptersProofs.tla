------------------------ MODULE MavlinkAdaptersProofs ------------------------
(***************************************************************************)
(* Proofs about the adapters: what the wire does to a value, for every     *)
(* scale and step, and what holds of the drone and of the station across   *)
(* it, for every set of messages.                                          *)
(***************************************************************************)
EXTENDS MavlinkAdapters, FlightControllerProofs

-----------------------------------------------------------------------------
(***************************************************************************)
(* The axes of a stick.                                                    *)
(***************************************************************************)
\* Rounding n to a multiple of WireStep is off by half a step at most.
LEMMA RoundingUp ==
  ASSUME NEW n \in Nat
  PROVE  LET q == (2 * n + WireStep) \div (2 * WireStep)
         IN  /\ q \in Nat
             /\ q * (2 * WireStep) =< 2 * n + WireStep
             /\ 2 * n + WireStep < q * (2 * WireStep) + 2 * WireStep
<1> DEFINE a == 2 * n + WireStep
           b == 2 * WireStep
           q == a \div b
<1>1. a \in Nat /\ b \in Nat \ {0}
  BY WireAssumption
<1> HIDE DEF a, b
<1>2. q \in Nat /\ a = q * b + (a % b) /\ a % b \in 0 .. b - 1
  BY <1>1
<1>3. q * b \in Nat
  BY <1>1, <1>2
<1>4. q * b =< a /\ a < q * b + b
  BY <1>1, <1>2, <1>3
<1> QED BY <1>2, <1>4 DEF a, b

\* What the far end reads from an axis n of the near end.
arrived(n) == from_manual_axis(to_manual_axis(n))

LEMMA RoundedMagnitude ==
  ASSUME NEW n \in 0 .. FullStick
  PROVE  LET q == (2 * n + WireStep) \div (2 * WireStep)
         IN  /\ q \in 0 .. ManualScale
             /\ q * WireStep \in 0 .. FullStick
             /\ 2 * (q * WireStep) - 2 * n =< WireStep
             /\ 2 * n - 2 * (q * WireStep) < WireStep
             /\ q = 0 <=> 2 * n < WireStep
<1> DEFINE q == (2 * n + WireStep) \div (2 * WireStep)
<1>0. /\ n \in Nat /\ WireStep \in Nat \ {0} /\ ManualScale \in Nat
      /\ FullStick = ManualScale * WireStep /\ FullStick \in Nat /\ n =< FullStick
  BY WireAssumption, FlightConfigAssumption
<1>1. /\ q \in Nat
      /\ q * (2 * WireStep) =< 2 * n + WireStep
      /\ 2 * n + WireStep < q * (2 * WireStep) + 2 * WireStep
  BY <1>0, RoundingUp
<1> HIDE DEF q
<1>2. q * WireStep \in Nat /\ q * (2 * WireStep) = 2 * (q * WireStep)
  BY <1>0, <1>1
<1>3. q =< ManualScale
  <2>1. SUFFICES ASSUME q >= ManualScale + 1 PROVE FALSE
    BY <1>0, <1>1
  <2>2. q * WireStep >= (ManualScale + 1) * WireStep
    BY <1>0, <1>1, <2>1
  <2>3. (ManualScale + 1) * WireStep = FullStick + WireStep
    BY <1>0
  <2> QED BY <1>0, <1>1, <1>2, <2>2, <2>3
<1>4. q * WireStep =< ManualScale * WireStep
  BY <1>0, <1>1, <1>3
<1>5. q = 0 <=> 2 * n < WireStep
  <2>1. ASSUME q = 0 PROVE 2 * n < WireStep
    BY <1>0, <1>1, <1>2, <2>1
  <2>2. ASSUME q # 0 PROVE ~(2 * n < WireStep)
    <3>1. q * WireStep >= WireStep
      BY <1>0, <1>1, <2>2
    <3> QED BY <1>0, <1>1, <1>2, <3>1
  <2> QED BY <2>1, <2>2
<1>6. q \in 0 .. ManualScale
  BY <1>0, <1>1, <1>3
<1>7. q * WireStep \in 0 .. FullStick
  BY <1>0, <1>2, <1>4
<1>8. /\ 2 * (q * WireStep) - 2 * n =< WireStep
      /\ 2 * n - 2 * (q * WireStep) < WireStep
  BY <1>0, <1>1, <1>2
<1> QED BY <1>5, <1>6, <1>7, <1>8 DEF q

\* Whatever an axis is, the value on the wire is in the range that it announces
\* and fits its sixteen bits: to_manual_axis clamps before it casts.
THEOREM AxisFitsTheWire ==
  ASSUME NEW n \in Int
  PROVE  to_manual_axis(n) \in -ManualScale .. ManualScale
<1> DEFINE m == clamp(n, -FullStick, FullStick)
<1>0. FullStick \in Nat
  BY FlightConfigAssumption
<1>1. m \in -FullStick .. FullStick /\ FullStick \in Nat /\ ManualScale \in Nat
  <2>1. m \in -FullStick .. FullStick
    BY <1>0 DEF clamp
  <2>2. ManualScale \in Nat
    BY WireAssumption
  <2> QED BY <1>0, <2>1, <2>2
<1>2. to_manual_axis(n) = lround(m)
  BY DEF to_manual_axis
<1> HIDE DEF m
<1>3. CASE m >= 0
  <2>1. m \in 0 .. FullStick
    BY <1>1, <1>3
  <2> QED BY <1>1, <1>2, <1>3, <2>1, RoundedMagnitude DEF lround
<1>4. CASE m < 0
  <2>1. -m \in 0 .. FullStick
    BY <1>1, <1>4
  <2>2. (2 * (-m) + WireStep) \div (2 * WireStep) \in 0 .. ManualScale
    BY <2>1, RoundedMagnitude
  <2>3. 2 * (-m) + WireStep = WireStep - 2 * m
    BY <1>1, WireAssumption
  <2>4. lround(m) = -((2 * (-m) + WireStep) \div (2 * WireStep))
    BY <1>1, <1>4, <2>3 DEF lround
  <2> QED BY <1>1, <1>2, <2>2, <2>4
<1> QED BY <1>1, <1>3, <1>4

\* An axis within the range of the stick arrives on its own side, at most half a
\* step of the wire away; it arrives as a centred one exactly if it is closer to
\* the centre than half a step.
THEOREM AxisSurvivesTheWire ==
  ASSUME NEW n \in -FullStick .. FullStick
  PROVE  /\ 2 * arrived(n) - 2 * n \in -WireStep .. WireStep
         /\ arrived(n) \in -FullStick .. FullStick
         /\ n >= 0 => arrived(n) >= 0
         /\ n =< 0 => arrived(n) =< 0
         /\ arrived(n) = 0 <=> 2 * n \in 1 - WireStep .. WireStep - 1
<1>0. /\ FullStick \in Nat /\ WireStep \in Nat \ {0} /\ n \in Int
      /\ clamp(n, -FullStick, FullStick) = n
  BY FlightConfigAssumption, WireAssumption DEF clamp
<1>1. \A raw \in Int : raw * WireStep \in -FullStick .. FullStick =>
        from_manual_axis(raw) = raw * WireStep
  BY <1>0 DEF from_manual_axis, clamp
<1>2. CASE n >= 0
  <2> DEFINE q == (2 * n + WireStep) \div (2 * WireStep)
  <2>1. n \in 0 .. FullStick
    BY <1>0, <1>2
  <2>2. /\ q \in 0 .. ManualScale
        /\ q * WireStep \in 0 .. FullStick
        /\ 2 * (q * WireStep) - 2 * n =< WireStep
        /\ 2 * n - 2 * (q * WireStep) < WireStep
        /\ q = 0 <=> 2 * n < WireStep
    BY <2>1, RoundedMagnitude
  <2>3. to_manual_axis(n) = q
    BY <1>0, <1>2 DEF to_manual_axis, lround
  <2> HIDE DEF q
  <2>4. q \in Nat /\ q * WireStep \in Nat
    BY <2>2, WireAssumption
  <2>5. arrived(n) = q * WireStep
    BY <1>0, <1>1, <2>2, <2>3, <2>4 DEF arrived
  <2>6. q * WireStep = 0 <=> q = 0
    BY <1>0, <2>4
  <2> QED BY <1>0, <1>2, <2>2, <2>4, <2>5, <2>6
<1>3. CASE n < 0
  <2> DEFINE q == (2 * (-n) + WireStep) \div (2 * WireStep)
  <2>1. -n \in 0 .. FullStick
    BY <1>0, <1>3
  <2>2. /\ q \in 0 .. ManualScale
        /\ q * WireStep \in 0 .. FullStick
        /\ 2 * (q * WireStep) - 2 * (-n) =< WireStep
        /\ 2 * (-n) - 2 * (q * WireStep) < WireStep
        /\ q = 0 <=> 2 * (-n) < WireStep
    BY <2>1, RoundedMagnitude
  <2>3. to_manual_axis(n) = -q
    <3>1. 2 * (-n) + WireStep = WireStep - 2 * n
      BY <1>0
    <3> QED BY <1>0, <1>3, <3>1 DEF to_manual_axis, lround
  <2> HIDE DEF q
  <2>4. q \in Nat /\ q * WireStep \in Nat /\ (-q) * WireStep = -(q * WireStep)
    BY <2>2, WireAssumption
  <2>5. arrived(n) = -(q * WireStep)
    BY <1>0, <1>1, <2>2, <2>3, <2>4 DEF arrived
  <2>6. q * WireStep = 0 <=> q = 0
    BY <1>0, <2>4
  <2> QED BY <1>0, <1>3, <2>2, <2>4, <2>5, <2>6
<1> QED BY <1>0, <1>2, <1>3

-----------------------------------------------------------------------------
(***************************************************************************)
(* The reports.                                                            *)
(***************************************************************************)
LEMMA FlagsRoundTrip ==
  ASSUME NEW armed \in BOOLEAN
  PROVE  is_armed(base_mode(armed)) = armed
<1>1. is_armed(216) = TRUE
  BY DEF is_armed, MAV_MODE_FLAG_SAFETY_ARMED
<1>2. is_armed(88) = FALSE
  BY DEF is_armed, MAV_MODE_FLAG_SAFETY_ARMED
<1>3. base_mode(TRUE) = 216 /\ base_mode(FALSE) = 88
  BY DEF base_mode, MAV_MODE_GUIDED_ARMED, MAV_MODE_GUIDED_DISARMED
<1>4. CASE armed = TRUE
  BY <1>1, <1>3, <1>4
<1>5. CASE armed = FALSE
  BY <1>2, <1>3, <1>5
<1> QED BY <1>4, <1>5

LEMMA ModeRoundTrip ==
  ASSUME NEW mode \in FlightMode
  PROVE  flight_mode(custom_mode(mode)) = mode
<1>1. \E i \in 0 .. 5 : FlightModes[i + 1] = mode
  BY DEF FlightModes, FlightMode
<1>2. FlightModes[custom_mode(mode) + 1] = mode
  BY <1>1 DEF custom_mode
<1> QED BY <1>2 DEF flight_mode

LEMMA NedRoundTrip ==
  ASSUME NEW v \in Vec3
  PROVE  ned(v) \in Vec3 /\ ned(ned(v)) = v
<1>1. PICK x \in Int, z \in Int : v = [x |-> x, z |-> z]
  BY DEF Vec3
<1>2. \A h \in Int : ned([x |-> x, z |-> h]) = [x |-> x, z |-> -h]
  BY DEF ned
<1>3. ned(v) = [x |-> x, z |-> -z] /\ -z \in Int /\ -(-z) = z
  BY <1>1, <1>2
<1> QED BY <1>1, <1>2, <1>3 DEF Vec3

LEMMA ModeNumber ==
  ASSUME NEW mode \in FlightMode
  PROVE  custom_mode(mode) \in 0 .. 5
<1>1. \E i \in 0 .. 5 : FlightModes[i + 1] = mode
  BY DEF FlightModes, FlightMode
<1> QED BY <1>1 DEF custom_mode

-----------------------------------------------------------------------------
(***************************************************************************)
(* Whatever arrives over the wire is an input that the controller's        *)
(* invariant, IInv, allows for.                                            *)
(***************************************************************************)
Commands == {"MAV_CMD_NAV_LAND", "MAV_CMD_OVERRIDE_GOTO", "another command"}

UpMessage ==
    [msgid : {"SET_MODE"}, target : Int, base_mode : Int]
    \cup [msgid : {"COMMAND_LONG"}, target : Int, command : Commands, v : Vec3]
    \cup [msgid : {"MANUAL_CONTROL"}, target : Int, axes : Vec3, origin : Vec3]
    \cup [msgid : {"HEARTBEAT"}]

UplinkInv == IInv /\ uplink \in Seq(UpMessage)

LEMMA AxisType ==
  ASSUME NEW n \in Int
  PROVE  to_manual_axis(n) \in Int /\ from_manual_axis(n) \in Int
<1>1. to_manual_axis(n) \in Int
  <2>1. ManualScale \in Nat
    BY WireAssumption
  <2> QED BY <2>1, AxisFitsTheWire
<1>2. from_manual_axis(n) \in Int
  <2>1. n * WireStep \in Int /\ FullStick \in Int
    BY WireAssumption, FlightConfigAssumption
  <2> QED BY <2>1 DEF from_manual_axis, clamp
<1> QED BY <1>1, <1>2

LEMMA TransmitType ==
  ASSUME NEW v \in Vec3, NEW order \in {"Arm", "Disarm", "Land", "Goto", "Manual"}
  PROVE  transmit(order, v) \in UpMessage
<1>0. /\ system_id \in Int /\ base_mode(TRUE) \in Int /\ base_mode(FALSE) \in Int
      /\ to_manual_axes(v) \in Vec3
  <2>1. to_manual_axes(v) \in Vec3
    BY AxisType DEF to_manual_axes, Vec3
  <2> QED
    BY <2>1, AdaptersAssumption
    DEF base_mode, MAV_MODE_GUIDED_ARMED, MAV_MODE_GUIDED_DISARMED
<1>1. CASE order = "Arm"
  BY <1>0, <1>1 DEF transmit, set_mode, UpMessage
<1>2. CASE order = "Disarm"
  BY <1>0, <1>2 DEF transmit, set_mode, UpMessage
<1>3. CASE order = "Land"
  BY <1>0, <1>3, ZeroType DEF transmit, command_long, UpMessage, Commands
<1>4. CASE order = "Goto"
  BY <1>0, <1>4 DEF transmit, command_long, UpMessage, Commands
<1>5. CASE order = "Manual"
  BY <1>0, <1>5 DEF transmit, manual_control, UpMessage
<1> QED BY <1>1, <1>2, <1>3, <1>4, <1>5

LEMMA ForeignType == Foreign \subseteq UpMessage
<1>1. \A target \in Others : target \in Int
  BY AdaptersAssumption
<1>2. \A raw \in Raw : raw \in Vec3 /\ from_manual_axes(raw) \in Vec3
  BY AxisType, AdaptersAssumption DEF from_manual_axes, Vec3
<1>3. ForeignModes \subseteq UpMessage
  <2>1. \A target \in Others, flags \in {0, 255} :
          set_mode(target, flags) \in UpMessage
    BY <1>1 DEF set_mode, UpMessage
  <2> QED BY <2>1 DEF ForeignModes
<1>4. ASSUME NEW target \in Others \cup {system_id}, NEW command \in Commands
      PROVE  command_long(target, command, Zero) \in UpMessage
  <2>1. target \in Int
    BY <1>1, AdaptersAssumption
  <2> QED BY <2>1, ZeroType DEF command_long, UpMessage
<1>5. ForeignCommands \subseteq UpMessage
  <2>1. \A target \in Others,
           command \in {"MAV_CMD_NAV_LAND", "MAV_CMD_OVERRIDE_GOTO"} :
          command_long(target, command, Zero) \in UpMessage
    BY <1>4 DEF Commands
  <2> QED BY <2>1 DEF ForeignCommands
<1>6. ForeignSticks \subseteq UpMessage
  <2>1. \A target \in Others, raw \in Raw :
          manual_control(target, raw, from_manual_axes(raw)) \in UpMessage
    BY <1>1, <1>2 DEF manual_control, UpMessage
  <2> QED BY <2>1 DEF ForeignSticks
<1>7. command_long(system_id, "another command", Zero) \in UpMessage
  BY <1>4 DEF Commands
<1>8. [msgid |-> "HEARTBEAT"] \in UpMessage
  BY DEF UpMessage
<1> QED BY <1>3, <1>5, <1>6, <1>7, <1>8 DEF Foreign

\* One case per kind of message that is executed.
LEMMA HandleInductive ==
  ASSUME UplinkInv, Handle
  PROVE  UplinkInv'
<1> DEFINE message == Head(uplink)
<1>1. /\ uplink # <<>> /\ uplink' = Tail(uplink) /\ message \in UpMessage
      /\ uplink' \in Seq(UpMessage)
  BY DEF Handle, UplinkInv
<1>2. \/ Ignore(message)
      \/ SetMode(message) \/ CommandLong(message) \/ ManualControl(message)
  BY DEF Handle
<1>3. IInv
  BY DEF UplinkInv
<1> HIDE DEF message
<1>4. ASSUME Ignore(message) PROVE IInv'
  BY <1>3, <1>4, IInvStutters DEF Ignore
<1>5. ASSUME SetMode(message) PROVE IInv'
  <2>1. Arm \/ Disarm
    BY <1>5 DEF SetMode
  <2> QED BY <1>3, <2>1, CommandInductive, ZeroType DEF Arm, Disarm
<1>6. ASSUME CommandLong(message) PROVE IInv'
  <2>1. message.v \in Vec3
    BY <1>1, <1>6 DEF CommandLong, UpMessage
  <2>2. \/ Command("Goto", message.v) \/ Command("Land", Zero)
        \/ UNCHANGED vars
    BY <1>6 DEF CommandLong, Answered
  <2> QED BY <1>3, <2>1, <2>2, CommandInductive, ZeroType, IInvStutters
<1>7. ASSUME ManualControl(message) PROVE IInv'
  <2>1. message.axes \in Vec3
    BY <1>1, <1>7 DEF ManualControl, UpMessage
  <2>2. from_manual_axes(message.axes) \in Vec3
    BY <2>1, AxisType DEF from_manual_axes, Vec3
  <2> QED BY <1>3, <1>7, <2>2, ManualInputInductive DEF ManualControl
<1>8. IInv'
  BY <1>2, <1>4, <1>5, <1>6, <1>7
<1> QED BY <1>1, <1>8 DEF UplinkInv

LEMMA UplinkInductive == UplinkInv /\ [MavNext]_mavVars => UplinkInv'
<1> SUFFICES ASSUME UplinkInv, [MavNext]_mavVars PROVE UplinkInv'
  OBVIOUS
<1>0. IInv /\ uplink \in Seq(UpMessage)
  BY DEF UplinkInv
<1>1. ASSUME NEW message \in UpMessage, Enter(message) PROVE UplinkInv'
  <2>1. UNCHANGED vars /\ uplink' = Append(uplink, message)
    BY <1>1 DEF Enter
  <2>2. IInv'
    BY <1>0, <2>1, IInvStutters
  <2> QED BY <1>0, <2>1, <2>2 DEF UplinkInv
<1>2. CASE Transmit
  <2>1. /\ \A order \in Clicks \ {"Goto"} : transmit(order, Zero) \in UpMessage
        /\ \A v \in Targets : transmit("Goto", v) \in UpMessage
        /\ \A v \in Sticks : transmit("Manual", v) \in UpMessage
    BY TransmitType, ZeroType, AdaptersAssumption, InputAssumption
  <2> QED BY <1>1, <1>2, <2>1 DEF Transmit
<1>3. CASE Intrude
  BY <1>1, <1>3, ForeignType DEF Intrude
<1>4. CASE BeginTick
  BY <1>0, <1>4, WakeUpInductive, InputAssumption DEF BeginTick, UplinkInv
<1>5. CASE Handle
  BY <1>5, HandleInductive
<1>6. ASSUME NEW due \in BOOLEAN, EndTick(due) PROVE UplinkInv'
  BY <1>0, <1>6, StepInductive DEF EndTick, UplinkInv
<1>7. CASE ReceiveNext
  BY <1>0, <1>7, IInvStutters DEF ReceiveNext, UplinkInv
<1>8. CASE UNCHANGED mavVars
  BY <1>0, <1>8, IInvStutters DEF mavVars, UplinkInv
<1> QED
  BY <1>2, <1>3, <1>4, <1>5, <1>6, <1>7, <1>8 DEF MavNext

LEMMA UplinkInvariance == MavSpec => []UplinkInv
<1>1. MavInit => UplinkInv
  BY InitSound DEF MavInit, UplinkInv
<1> QED BY <1>1, UplinkInductive, PTL DEF MavSpec

\* The drone keeps its promises whatever the adapters feed it: messages from the
\* station, from another system, with axes out of range, in any order.
THEOREM SafeAcrossTheWire ==
  MavSpec => []/\ MotorsCutOnlyNearTheGround
               /\ InsideFence
               /\ SticksOnlyInManual
               /\ ManualOnlyWithFreshInput
<1>1. UplinkInv => /\ MotorsCutOnlyNearTheGround
                   /\ InsideFence
                   /\ SticksOnlyInManual
                   /\ ManualOnlyWithFreshInput
  BY DEF UplinkInv, IInv, Sound, MotorsCutOnlyNearTheGround, InsideFence,
         SticksOnlyInManual
<1> QED BY <1>1, UplinkInvariance, PTL

-----------------------------------------------------------------------------
(***************************************************************************)
(* The sticks.  A MANUAL_CONTROL on its way holds the axes that its stick  *)
(* is rounded to, or the other way round if another system sent it; and    *)
(* what is read from it is next to that stick.                             *)
(***************************************************************************)
Carried(m) ==
    m.axes = to_manual_axes(m.origin) \/ m.origin = from_manual_axes(m.axes)

WireAxes ==
    [x : -ManualScale .. ManualScale, z : -ManualScale .. ManualScale]

OffCentre(v) ==
    \E c \in DOMAIN v : 2 * v[c] \notin 1 - WireStep .. WireStep - 1

\* axes is flown when v was sent.
Flown(axes, v) ==
    \E raw \in WireAxes : /\ Approximates(from_manual_axes(raw), v)
                          /\ axes = clamped_axes(from_manual_axes(raw))

StickInv ==
    /\ UplinkInv
    /\ \A i \in DOMAIN uplink :
          uplink[i].msgid = "MANUAL_CONTROL" => Carried(uplink[i])
    /\ state.mode = "Manual" => OffCentre(stick) /\ Flown(state.manual_axes, stick)

LEMMA ScaleFacts ==
  /\ FullStick \in Nat /\ WireStep \in Nat \ {0} /\ ManualScale \in Nat \ {0}
  /\ FullStick = ManualScale * WireStep /\ WireStep =< FullStick
<1>1. /\ WireStep \in Nat \ {0} /\ ManualScale \in Nat \ {0}
      /\ FullStick = ManualScale * WireStep /\ FullStick \in Nat
  BY WireAssumption, FlightConfigAssumption
<1>2. 1 * WireStep =< ManualScale * WireStep
  BY <1>1
<1> QED BY <1>1, <1>2

\* An axis of the station, on the wire and read again.
LEMMA AxisOfTheStation ==
  ASSUME NEW n \in Int
  PROVE  LET m == clamp(n, -FullStick, FullStick)
             r == from_manual_axis(to_manual_axis(n))
         IN  /\ 2 * (r - m) \in -WireStep .. WireStep
             /\ r # 0 => 2 * n \notin 1 - WireStep .. WireStep - 1
<1> DEFINE m == clamp(n, -FullStick, FullStick)
<1>1. /\ m \in -FullStick .. FullStick /\ m \in Int
      /\ clamp(m, -FullStick, FullStick) = m
      /\ m = n \/ (n > FullStick /\ m = FullStick)
               \/ (n < -FullStick /\ m = -FullStick)
  BY ScaleFacts DEF clamp
<1>2. to_manual_axis(n) = to_manual_axis(m)
  BY <1>1 DEF to_manual_axis
<1> HIDE DEF m
<1> DEFINE r == arrived(m)
<1>3. from_manual_axis(to_manual_axis(n)) = r
  BY <1>2 DEF arrived
<1>4. /\ 2 * r - 2 * m \in -WireStep .. WireStep
      /\ r \in -FullStick .. FullStick
      /\ r = 0 <=> 2 * m \in 1 - WireStep .. WireStep - 1
  BY <1>1, AxisSurvivesTheWire
<1> HIDE DEF r
<1>5. r \in Int
  BY <1>4, ScaleFacts
<1>6. 2 * (r - m) \in -WireStep .. WireStep
  BY <1>1, <1>4, <1>5, ScaleFacts
<1>7. r # 0 => 2 * n \notin 1 - WireStep .. WireStep - 1
  BY <1>1, <1>4, ScaleFacts
<1> QED BY <1>3, <1>6, <1>7 DEF m

\* An axis of another system is read as the value of the wire it is cut to.
LEMMA AxisOfAnother ==
  ASSUME NEW raw \in Int
  PROVE  LET k == clamp(raw, -ManualScale, ManualScale)
             r == from_manual_axis(raw)
         IN  /\ k \in -ManualScale .. ManualScale /\ from_manual_axis(k) = r
             /\ r \in -FullStick .. FullStick
             /\ clamp(r, -FullStick, FullStick) = r
             /\ r # 0 => 2 * r \notin 1 - WireStep .. WireStep - 1
<1> DEFINE k == clamp(raw, -ManualScale, ManualScale)
           p == raw * WireStep
           q == k * WireStep
           r == from_manual_axis(raw)
<1>0. r = clamp(p, -FullStick, FullStick)
      /\ from_manual_axis(k) = clamp(q, -FullStick, FullStick)
  BY DEF from_manual_axis
<1>1. /\ k \in -ManualScale .. ManualScale
      /\ k = raw \/ (raw > ManualScale /\ k = ManualScale)
                 \/ (raw < -ManualScale /\ k = -ManualScale)
  BY ScaleFacts DEF clamp
<1>2. p \in Int /\ q \in Int
  BY <1>1, ScaleFacts
<1>3. raw > ManualScale => p > FullStick
  <2> SUFFICES ASSUME raw > ManualScale PROVE p > FullStick
    OBVIOUS
  <2>1. raw * WireStep >= (ManualScale + 1) * WireStep
    BY ScaleFacts
  <2>2. (ManualScale + 1) * WireStep = FullStick + WireStep
    BY ScaleFacts
  <2> QED BY <1>2, <2>1, <2>2, ScaleFacts
<1>4. raw < -ManualScale => p < -FullStick
  <2> SUFFICES ASSUME raw < -ManualScale PROVE p < -FullStick
    OBVIOUS
  <2>1. (-raw) * WireStep >= (ManualScale + 1) * WireStep
    BY ScaleFacts
  <2>2. (ManualScale + 1) * WireStep = FullStick + WireStep
    BY ScaleFacts
  <2>3. (-raw) * WireStep = -p
    BY ScaleFacts
  <2> QED BY <1>2, <2>1, <2>2, <2>3, ScaleFacts
<1>5. \/ q = p \/ (q = FullStick /\ p > FullStick)
      \/ (q = -FullStick /\ p < -FullStick)
  <2>1. (-ManualScale) * WireStep = -FullStick
    BY ScaleFacts
  <2> QED BY <1>1, <1>3, <1>4, <2>1, ScaleFacts
<1>6. p = 0 \/ p >= WireStep \/ p =< -WireStep
  <2>1. CASE raw >= 1
    <3>1. raw * WireStep >= 1 * WireStep
      BY <2>1, ScaleFacts
    <3> QED BY <3>1, ScaleFacts
  <2>2. CASE raw =< -1
    <3>1. (-raw) * WireStep >= 1 * WireStep /\ (-raw) * WireStep = -p
      BY <2>2, ScaleFacts
    <3> QED BY <1>2, <3>1, ScaleFacts
  <2>3. CASE raw = 0
    BY <2>3, ScaleFacts
  <2> QED BY <2>1, <2>2, <2>3
<1> HIDE DEF k, p, q, r
<1>7. /\ r \in -FullStick .. FullStick /\ clamp(r, -FullStick, FullStick) = r
      /\ from_manual_axis(k) = r
  BY <1>0, <1>2, <1>5, ScaleFacts DEF clamp
<1>8. r # 0 => 2 * r \notin 1 - WireStep .. WireStep - 1
  BY <1>0, <1>2, <1>6, ScaleFacts DEF clamp
<1> QED BY <1>1, <1>7, <1>8 DEF k, r

LEMMA VectorParts ==
  ASSUME NEW v \in Vec3
  PROVE  /\ DOMAIN v = {"x", "z"} /\ v.x \in Int /\ v.z \in Int
         /\ v["x"] = v.x /\ v["z"] = v.z
  BY DEF Vec3

LEMMA CarriedStick ==
  ASSUME NEW axes \in Vec3, NEW origin \in Vec3,
         \/ axes = to_manual_axes(origin)
         \/ origin = from_manual_axes(axes)
  PROVE  /\ Flown(clamped_axes(from_manual_axes(axes)), origin)
         /\ from_manual_axes(axes) # Zero => OffCentre(origin)
<1> DEFINE read == from_manual_axes(axes)
<1>0. /\ read = [x |-> from_manual_axis(axes.x), z |-> from_manual_axis(axes.z)]
      /\ read.x = from_manual_axis(axes.x) /\ read.z = from_manual_axis(axes.z)
      /\ read["x"] = read.x /\ read["z"] = read.z
  BY DEF from_manual_axes
<1>1. read # Zero => read.x # 0 \/ read.z # 0
  BY <1>0 DEF Zero
<1>2. /\ DOMAIN origin = {"x", "z"} /\ origin.x \in Int /\ origin.z \in Int
      /\ origin["x"] = origin.x /\ origin["z"] = origin.z
      /\ axes.x \in Int /\ axes.z \in Int
  BY VectorParts
<1> HIDE DEF read
<1>3. ASSUME \A c \in {"x", "z"} :
               /\ read[c] # 0 => 2 * origin[c] \notin 1 - WireStep .. WireStep - 1
               /\ 2 * (read[c] - clamp(origin[c], -FullStick, FullStick))
                     \in -WireStep .. WireStep,
             NEW raw \in WireAxes, from_manual_axes(raw) = read
      PROVE  /\ Flown(clamped_axes(read), origin)
             /\ read # Zero => OffCentre(origin)
  <2>1. Approximates(read, origin)
    BY <1>2, <1>3 DEF Approximates
  <2>2. read # Zero => OffCentre(origin)
    BY <1>0, <1>1, <1>2, <1>3 DEF OffCentre
  <2> QED BY <1>3, <2>1, <2>2 DEF Flown
<1>4. CASE axes = to_manual_axes(origin)
  <2>1. axes.x = to_manual_axis(origin.x) /\ axes.z = to_manual_axis(origin.z)
    BY <1>4 DEF to_manual_axes
  <2>2. axes \in WireAxes
    <3>1. axes = [x |-> axes.x, z |-> axes.z]
      BY DEF Vec3
    <3>2. /\ axes.x \in -ManualScale .. ManualScale
          /\ axes.z \in -ManualScale .. ManualScale
      BY <1>2, <2>1, AxisFitsTheWire
    <3> QED BY <3>1, <3>2 DEF WireAxes
  <2>3. /\ 2 * (read.x - clamp(origin.x, -FullStick, FullStick))
              \in -WireStep .. WireStep
        /\ read.x # 0 => 2 * origin.x \notin 1 - WireStep .. WireStep - 1
    BY <1>0, <1>2, <2>1, AxisOfTheStation
  <2>4. /\ 2 * (read.z - clamp(origin.z, -FullStick, FullStick))
              \in -WireStep .. WireStep
        /\ read.z # 0 => 2 * origin.z \notin 1 - WireStep .. WireStep - 1
    BY <1>0, <1>2, <2>1, AxisOfTheStation
  <2>5. from_manual_axes(axes) = read
    BY DEF read
  <2> QED BY <1>0, <1>2, <1>3, <2>2, <2>3, <2>4, <2>5 DEF read
<1>5. CASE origin = from_manual_axes(axes)
  <2> DEFINE kx == clamp(axes.x, -ManualScale, ManualScale)
             kz == clamp(axes.z, -ManualScale, ManualScale)
  <2>1. origin = read
    BY <1>5 DEF read
  <2>2. /\ kx \in -ManualScale .. ManualScale /\ from_manual_axis(kx) = read.x
        /\ read.x \in Int /\ clamp(read.x, -FullStick, FullStick) = read.x
        /\ read.x # 0 => 2 * read.x \notin 1 - WireStep .. WireStep - 1
    BY <1>0, <1>2, <2>1, AxisOfAnother
  <2>3. /\ kz \in -ManualScale .. ManualScale /\ from_manual_axis(kz) = read.z
        /\ read.z \in Int /\ clamp(read.z, -FullStick, FullStick) = read.z
        /\ read.z # 0 => 2 * read.z \notin 1 - WireStep .. WireStep - 1
    BY <1>0, <1>2, <2>1, AxisOfAnother
  <2> HIDE DEF kx, kz
  <2> DEFINE raw == [x |-> kx, z |-> kz]
  <2>4. raw \in WireAxes /\ from_manual_axes(raw) = read
    BY <1>0, <2>2, <2>3 DEF WireAxes, from_manual_axes
  <2> HIDE DEF raw
  <2>5. \A m \in Int : 2 * (m - m) \in -WireStep .. WireStep
    BY ScaleFacts
  <2>6. \A c \in {"x", "z"} :
          /\ read[c] # 0 => 2 * origin[c] \notin 1 - WireStep .. WireStep - 1
          /\ 2 * (read[c] - clamp(origin[c], -FullStick, FullStick))
                \in -WireStep .. WireStep
    BY <1>0, <2>1, <2>2, <2>3, <2>5
  <2> QED BY <1>3, <2>4, <2>6 DEF read
<1> QED BY <1>4, <1>5

\* The machine in Manual flies the stick it was just given, or what it flew before.
LEMMA ManualInputSticks ==
  ASSUME IInv, NEW v \in Vec3, ManualInput(v), state'.mode = "Manual"
  PROVE  state'.manual_axes = clamped_axes(v) /\ clamped_axes(v) # Zero
<1> DEFINE axes == clamped_axes(v)
<1>1. axes \in Vec3 /\ state \in FlightState
  BY AxesType DEF IInv, Sound
<1>2. state' = apply(state, manual_event(axes), axes).state
  BY DEF ManualInput, Command, dispatch
<1>3. /\ manual_event(axes) \in {"ManualActive", "ManualCentred"}
      /\ manual_event(axes) = "ManualActive" => axes # Zero
  BY DEF manual_event
<1> HIDE DEF axes
<1>4. state.mode \in kPilotable
  <2> SUFFICES ASSUME state.mode \notin kPilotable PROVE FALSE
    OBVIOUS
  <2>1. state' = state
    BY <1>1, <1>2, <1>3, SticksRejected
  <2> QED BY <2>1 DEF kPilotable
<1>5. manual_event(axes) = "ManualActive"
  <2> SUFFICES ASSUME manual_event(axes) = "ManualCentred" PROVE FALSE
    BY <1>3
  <2>1. state'.mode = "Hold"
    BY <1>1, <1>2, <1>4, SticksAccepted
  <2> QED BY <2>1
<1>6. state'.manual_axes = axes
  BY <1>1, <1>2, <1>4, <1>5, SticksAccepted
<1> QED BY <1>3, <1>5, <1>6 DEF axes

LEMMA StickInductive ==
  StickInv /\ UplinkInv' /\ [MavNext]_mavVars => StickInv'
<1> SUFFICES ASSUME StickInv, UplinkInv', [MavNext]_mavVars PROVE StickInv'
  OBVIOUS
<1>0. UplinkInv /\ IInv /\ uplink \in Seq(UpMessage) /\ uplink' \in Seq(UpMessage)
  BY DEF StickInv, UplinkInv
<1>1. ASSUME UNCHANGED stick,
             state'.mode = "Manual" =>
               state.mode = "Manual" /\ state'.manual_axes = state.manual_axes,
             \A i \in DOMAIN uplink' :
               uplink'[i].msgid = "MANUAL_CONTROL" => Carried(uplink'[i])
      PROVE  StickInv'
  BY <1>1 DEF StickInv, Carried
<1>2. ASSUME NEW m \in UpMessage, m.msgid = "MANUAL_CONTROL" => Carried(m), Enter(m)
      PROVE  StickInv'
  <2>1. /\ uplink' = Append(uplink, m) /\ UNCHANGED <<stick, state>>
    BY <1>2 DEF Enter, history, vars
  <2>2. ASSUME NEW i \in DOMAIN uplink' PROVE uplink'[i] = m \/
               (i \in DOMAIN uplink /\ uplink'[i] = uplink[i])
    BY <1>0, <2>1
  <2>3. \A i \in DOMAIN uplink' :
               uplink'[i].msgid = "MANUAL_CONTROL" => Carried(uplink'[i])
    BY <1>2, <2>2 DEF StickInv
  <2> QED BY <1>1, <2>1, <2>3
<1>3. CASE Transmit
  <2>1. ASSUME NEW v \in Vec3, NEW order \in {"Arm", "Disarm", "Land", "Goto", "Manual"}
        PROVE  /\ transmit(order, v) \in UpMessage
               /\ transmit(order, v).msgid = "MANUAL_CONTROL"
                    => Carried(transmit(order, v))
    <3>1. transmit(order, v) \in UpMessage
      BY TransmitType
    <3>2. CASE order = "Manual"
      BY <3>1, <3>2 DEF transmit, manual_control, Carried
    <3>3. CASE order \in {"Arm", "Disarm", "Land", "Goto"}
      BY <3>1, <3>3 DEF transmit, set_mode, command_long
    <3> QED BY <3>1, <3>2, <3>3
  <2>2. PICK v \in Vec3, order \in {"Arm", "Disarm", "Land", "Goto", "Manual"} :
          Enter(transmit(order, v))
    BY <1>3, ZeroType, InputAssumption, AdaptersAssumption DEF Transmit
  <2> QED BY <1>2, <2>1, <2>2
<1>4. CASE Intrude
  <2>1. PICK m \in Foreign : Enter(m)
    BY <1>4 DEF Intrude
  <2>2. m.msgid = "MANUAL_CONTROL" => Carried(m)
    <3>1. CASE m \in ForeignSticks
      <4>1. PICK target \in Others, raw \in Raw :
              m = manual_control(target, raw, from_manual_axes(raw))
        BY <3>1 DEF ForeignSticks
      <4>2. m.axes = raw /\ m.origin = from_manual_axes(raw)
        BY <4>1 DEF manual_control
      <4> QED BY <4>2 DEF Carried
    <3>2. CASE m \notin ForeignSticks
      <4>1. \A t, w : set_mode(t, w).msgid = "SET_MODE"
        BY DEF set_mode
      <4>2. \A t, w, v : command_long(t, w, v).msgid = "COMMAND_LONG"
        BY DEF command_long
      <4>3. m.msgid \in {"SET_MODE", "COMMAND_LONG", "HEARTBEAT"}
        <5>1. \/ m \in ForeignModes \/ m \in ForeignCommands
              \/ m = command_long(system_id, "another command", Zero)
              \/ m = [msgid |-> "HEARTBEAT"]
          BY <3>2 DEF Foreign
        <5>2. CASE m \in ForeignModes
          BY <4>1, <5>2 DEF ForeignModes
        <5>3. CASE m \in ForeignCommands
          BY <4>2, <5>3 DEF ForeignCommands
        <5>4. CASE m = command_long(system_id, "another command", Zero)
          BY <4>2, <5>4
        <5>5. CASE m = [msgid |-> "HEARTBEAT"]
          BY <5>5
        <5> QED BY <5>1, <5>2, <5>3, <5>4, <5>5
      <4> QED BY <4>3
    <3> QED BY <3>1, <3>2
  <2> QED BY <1>2, <2>1, <2>2, ForeignType
<1>5. CASE BeginTick
  <2>1. PICK d \in Ticks : state' = aged(state, d) /\ UNCHANGED <<uplink, stick>>
    BY <1>5 DEF BeginTick, WakeUp, history
  <2>2. state'.mode = state.mode /\ state'.manual_axes = state.manual_axes
    BY <1>0, <2>1 DEF IInv, Sound, FlightState, aged
  <2>3. \A i \in DOMAIN uplink' :
          uplink'[i].msgid = "MANUAL_CONTROL" => Carried(uplink'[i])
    BY <2>1 DEF StickInv
  <2> QED BY <1>1, <2>1, <2>2, <2>3
<1>6. CASE Handle
  <2> DEFINE m == Head(uplink)
  <2>1. /\ uplink # <<>> /\ uplink' = Tail(uplink)
        /\ \/ Ignore(m)
           \/ addressed_to(m) /\ (SetMode(m) \/ CommandLong(m) \/ ManualControl(m))
    BY <1>6 DEF Handle
  <2>2. /\ m \in UpMessage /\ m = uplink[1] /\ 1 \in DOMAIN uplink
        /\ \A i \in DOMAIN uplink' :
             i + 1 \in DOMAIN uplink /\ uplink'[i] = uplink[i + 1]
    BY <1>0, <2>1
  <2>3. /\ \A i \in DOMAIN uplink' :
             uplink'[i].msgid = "MANUAL_CONTROL" => Carried(uplink'[i])
        /\ m.msgid = "MANUAL_CONTROL" => Carried(m)
    BY <2>2 DEF StickInv
  <2> HIDE DEF m
  <2>4. CASE Ignore(m)
    BY <1>1, <2>3, <2>4 DEF Ignore, vars, history
  <2>5. ASSUME NEW event \in {"Arm", "Disarm", "Land", "Goto"}, NEW v \in Vec3,
               Command(event, v), UNCHANGED stick
        PROVE  StickInv'
    <3>1. state' = apply(state, event, v).state /\ state \in FlightState
      BY <1>0, <2>5 DEF Command, dispatch, IInv, Sound
    <3>2. TableEffect(state, event, v, state')
      BY <3>1, ApplyEffect
    <3>3. state'.mode = "Manual" =>
            state.mode = "Manual" /\ state'.manual_axes = state.manual_axes
      BY <3>1, <3>2, ManualEffect
    <3> QED BY <1>1, <2>3, <2>5, <3>3
  <2>6. CASE SetMode(m)
    BY <2>5, <2>6, ZeroType DEF SetMode, Arm, Disarm
  <2>7. CASE CommandLong(m)
    <3>1. m.v \in Vec3
      BY <2>2, <2>7 DEF CommandLong, UpMessage
    <3>2. \/ Command("Goto", m.v) /\ UNCHANGED stick
          \/ Command("Land", Zero) /\ UNCHANGED stick
          \/ UNCHANGED <<state, stick>>
      BY <2>7 DEF CommandLong, Answered, vars, history
    <3> QED BY <1>1, <2>3, <2>5, <3>1, <3>2, ZeroType
  <2>8. CASE addressed_to(m) /\ ManualControl(m)
    <3> DEFINE read == from_manual_axes(m.axes)
    <3>1. /\ m.msgid = "MANUAL_CONTROL" /\ ManualInput(read) /\ stick' = m.origin
      BY <2>8 DEF ManualControl, addressed_to, Targeted
    <3>2. m.axes \in Vec3 /\ m.origin \in Vec3 /\ Carried(m)
      BY <2>2, <2>3, <3>1 DEF UpMessage
    <3>3. read \in Vec3
      BY <3>2, AxisType DEF from_manual_axes, Vec3
    <3>4. /\ Flown(clamped_axes(read), m.origin)
          /\ read # Zero => OffCentre(m.origin)
      BY <3>2, CarriedStick DEF Carried
    <3> HIDE DEF read
    <3>5. clamped_axes(Zero) = Zero
      <4>1. clamp(0, -FullStick, FullStick) = 0 /\ 0 * 0 + 0 * 0 =< FullStick * FullStick
        BY ScaleFacts DEF clamp
      <4> QED
        BY <4>1, ZeroType, FlightConfigAssumption
        DEF clamped_axes, clamp_to_unit_ball, normSquared, Zero
    <3>6. state'.mode = "Manual" =>
            OffCentre(stick') /\ Flown(state'.manual_axes, stick')
      BY <1>0, <3>1, <3>3, <3>4, <3>5, ManualInputSticks
    <3>7. (state.mode = "Manual" => OffCentre(stick) /\ Flown(state.manual_axes, stick))'
      BY <3>6 DEF OffCentre, Flown, Approximates
    <3> QED BY <2>3, <3>7 DEF StickInv, Carried
  <2> QED BY <2>1, <2>4, <2>6, <2>7, <2>8
<1>7. ASSUME NEW due \in BOOLEAN, EndTick(due) PROVE StickInv'
  <2>1. /\ Step /\ uplink' = uplink
        /\ state'.mode = "Manual" => stick' = stick
    BY <1>7 DEF EndTick
  <2>2. state'.mode = "Manual" =>
          state.mode = "Manual" /\ state'.manual_axes = state.manual_axes
    BY <1>0, <2>1, StepKeepsStick
  <2> QED BY <2>1, <2>2 DEF StickInv, Carried
<1>8. CASE ReceiveNext \/ UNCHANGED mavVars
  <2>1. UNCHANGED <<state, uplink, stick>>
    BY <1>8 DEF ReceiveNext, mavVars, vars, history
  <2> QED BY <2>1 DEF StickInv, Carried
<1> QED BY <1>3, <1>4, <1>5, <1>6, <1>7, <1>8 DEF MavNext

\* For every wire, coarse or fine, every stick and whatever other systems send: the
\* drone flies what the operator did, rounded once.
THEOREM StickArrivesForEver == MavSpec => []StickArrives
<1>1. MavInit => StickInv
  <2>1. MavInit => UplinkInv
    BY InitSound DEF MavInit, UplinkInv
  <2> QED
    BY <2>1 DEF MavInit, Init, InitialFlightState, StickInv
<1>2. StickInv => StickArrives
  BY DEF StickInv, StickArrives, OffCentre, Flown, WireAxes
<1> QED BY <1>1, <1>2, StickInductive, UplinkInvariance, PTL DEF MavSpec

-----------------------------------------------------------------------------
(***************************************************************************)
(* The station's snapshot.  ShownIsReal is not inductive: while reports    *)
(* are on their way, the last one of either kind, or the snapshot if there *)
(* is none, carries what was reported.                                     *)
(***************************************************************************)
Telemetry ==
    [armed : BOOLEAN, mode : FlightMode, position : Vec3, velocity : Vec3]

MavResult ==
    {"MAV_RESULT_ACCEPTED", "MAV_RESULT_TEMPORARILY_REJECTED", "MAV_RESULT_DENIED"}

DownMessage ==
    [msgid : {"HEARTBEAT"}, base_mode : {88, 216}, custom_mode : 0 .. 5]
    \cup [msgid : {"LOCAL_POSITION_NED"}, position : Vec3, velocity : Vec3]
    \cup [msgid : {"COMMAND_ACK"}, command : Commands, result : MavResult]

SaysStatus(m, t) ==
    /\ is_armed(m.base_mode) = t.armed
    /\ flight_mode(m.custom_mode) = t.mode

SaysPosition(m, t) ==
    /\ ned(m.position) = t.position
    /\ ned(m.velocity) = t.velocity

Last(d, i, kind) ==
    d[i].msgid = kind /\ \A j \in DOMAIN d : d[j].msgid = kind => j =< i

Carries(d, snap, t) ==
    /\ \A i \in DOMAIN d : Last(d, i, "HEARTBEAT") => SaysStatus(d[i], t)
    /\ \A i \in DOMAIN d : Last(d, i, "LOCAL_POSITION_NED") => SaysPosition(d[i], t)
    /\ (\A i \in DOMAIN d : d[i].msgid # "HEARTBEAT") =>
          snap.armed = t.armed /\ snap.mode = t.mode
    /\ (\A i \in DOMAIN d : d[i].msgid # "LOCAL_POSITION_NED") =>
          snap.position = t.position /\ snap.velocity = t.velocity

DownlinkInv ==
    /\ UplinkInv
    /\ downlink \in Seq(DownMessage)
    /\ snapshot \in Telemetry /\ reported \in Telemetry
    /\ Carries(downlink, snapshot, reported)

LEMMA CarriesAppend ==
  ASSUME NEW d \in Seq(DownMessage), NEW snap, NEW t, Carries(d, snap, t),
         NEW ack \in DownMessage, ack.msgid = "COMMAND_ACK"
  PROVE  Carries(Append(d, ack), snap, t)
<1> DEFINE e == Append(d, ack)
<1>1. /\ DOMAIN d = 1 .. Len(d) /\ Len(d) \in Nat
      /\ DOMAIN e = 1 .. Len(d) + 1 /\ e[Len(d) + 1] = ack
      /\ \A i \in DOMAIN d : e[i] = d[i] /\ i \in DOMAIN e
  OBVIOUS
<1> HIDE DEF e
<1>2. \A i \in DOMAIN e : e[i].msgid # "COMMAND_ACK" => i \in DOMAIN d
  BY <1>1
<1>3. \A i \in DOMAIN e, kind \in {"HEARTBEAT", "LOCAL_POSITION_NED"} :
        Last(e, i, kind) => i \in DOMAIN d /\ e[i] = d[i] /\ Last(d, i, kind)
  BY <1>1, <1>2 DEF Last
<1> QED BY <1>1, <1>3 DEF Carries, e

LEMMA CarriesTail ==
  ASSUME NEW d \in Seq(DownMessage), d # <<>>, NEW snap, NEW t,
         Carries(d, snap, t), NEW next,
         \/ /\ Head(d).msgid = "HEARTBEAT"
            /\ SaysStatus(Head(d), next)
            /\ next.position = snap.position /\ next.velocity = snap.velocity
         \/ /\ Head(d).msgid = "LOCAL_POSITION_NED"
            /\ SaysPosition(Head(d), next)
            /\ next.armed = snap.armed /\ next.mode = snap.mode
         \/ Head(d).msgid = "COMMAND_ACK" /\ next = snap
  PROVE  Carries(Tail(d), next, t)
<1> DEFINE e == Tail(d)
<1>1. /\ DOMAIN d = 1 .. Len(d) /\ Len(d) \in Nat \ {0}
      /\ DOMAIN e = 1 .. Len(d) - 1 /\ d[1] = Head(d)
      /\ \A i \in DOMAIN e : e[i] = d[i + 1]
  OBVIOUS
<1> HIDE DEF e
<1>2. \A j \in DOMAIN d : j = 1 \/ (j - 1 \in DOMAIN e /\ e[j - 1] = d[j])
  BY <1>1
<1>3. \A i \in DOMAIN e, kind \in {"HEARTBEAT", "LOCAL_POSITION_NED"} :
        Last(e, i, kind) => i + 1 \in DOMAIN d /\ Last(d, i + 1, kind)
  BY <1>1, <1>2 DEF Last
<1>4. ASSUME NEW kind \in {"HEARTBEAT", "LOCAL_POSITION_NED"},
             \A i \in DOMAIN e : e[i].msgid # kind
      PROVE  IF Head(d).msgid = kind THEN 1 \in DOMAIN d /\ Last(d, 1, kind)
             ELSE \A i \in DOMAIN d : d[i].msgid # kind
  BY <1>1, <1>2, <1>4 DEF Last
<1>5. /\ \A i \in DOMAIN e : Last(e, i, "HEARTBEAT") => SaysStatus(e[i], t)
      /\ \A i \in DOMAIN e : Last(e, i, "LOCAL_POSITION_NED") =>
            SaysPosition(e[i], t)
  BY <1>1, <1>3 DEF Carries
<1>6. ASSUME \A i \in DOMAIN e : e[i].msgid # "HEARTBEAT"
      PROVE  next.armed = t.armed /\ next.mode = t.mode
  <2>1. CASE Head(d).msgid = "HEARTBEAT"
    <3>1. SaysStatus(Head(d), t)
      BY <1>1, <1>4, <1>6, <2>1 DEF Carries
    <3> QED BY <2>1, <3>1 DEF SaysStatus
  <2>2. CASE Head(d).msgid # "HEARTBEAT"
    <3>1. snap.armed = t.armed /\ snap.mode = t.mode
      BY <1>4, <1>6, <2>2 DEF Carries
    <3> QED BY <2>2, <3>1
  <2> QED BY <2>1, <2>2
<1>7. ASSUME \A i \in DOMAIN e : e[i].msgid # "LOCAL_POSITION_NED"
      PROVE  next.position = t.position /\ next.velocity = t.velocity
  <2>1. CASE Head(d).msgid = "LOCAL_POSITION_NED"
    <3>1. SaysPosition(Head(d), t)
      BY <1>1, <1>4, <1>7, <2>1 DEF Carries
    <3> QED BY <2>1, <3>1 DEF SaysPosition
  <2>2. CASE Head(d).msgid # "LOCAL_POSITION_NED"
    <3>1. snap.position = t.position /\ snap.velocity = t.velocity
      BY <1>4, <1>7, <2>2 DEF Carries
    <3> QED BY <2>2, <3>1
  <2> QED BY <2>1, <2>2
<1> QED BY <1>5, <1>6, <1>7 DEF Carries, e

LEMMA CarriesPublish ==
  ASSUME NEW d \in Seq(DownMessage), NEW snap, NEW t \in Telemetry
  PROVE  /\ d \o publish(t) \in Seq(DownMessage)
         /\ Carries(d \o publish(t), snap, t)
<1> DEFINE heartbeat == [msgid |-> "HEARTBEAT", base_mode |-> base_mode(t.armed),
                         custom_mode |-> custom_mode(t.mode)]
           position == [msgid |-> "LOCAL_POSITION_NED",
                        position |-> ned(t.position), velocity |-> ned(t.velocity)]
           e == d \o <<heartbeat, position>>
<1>0. /\ t.armed \in BOOLEAN /\ t.mode \in FlightMode
      /\ t.position \in Vec3 /\ t.velocity \in Vec3
  BY DEF Telemetry
<1>1. heartbeat \in DownMessage /\ heartbeat.msgid = "HEARTBEAT"
  <2>1. base_mode(t.armed) \in {88, 216}
    BY DEF base_mode, MAV_MODE_GUIDED_ARMED, MAV_MODE_GUIDED_DISARMED
  <2> QED BY <1>0, <2>1, ModeNumber DEF DownMessage
<1>2. position \in DownMessage /\ position.msgid = "LOCAL_POSITION_NED"
  BY <1>0, NedRoundTrip DEF DownMessage
<1>3. SaysStatus(heartbeat, t)
  BY <1>0, FlagsRoundTrip, ModeRoundTrip DEF SaysStatus
<1>4. SaysPosition(position, t)
  BY <1>0, NedRoundTrip DEF SaysPosition
<1>5. publish(t) = <<heartbeat, position>>
  BY DEF publish
<1> HIDE DEF heartbeat, position
<1>6. /\ e \in Seq(DownMessage) /\ Len(d) \in Nat /\ DOMAIN e = 1 .. Len(d) + 2
      /\ e[Len(d) + 1] = heartbeat /\ e[Len(d) + 2] = position
  BY <1>1, <1>2
<1> HIDE DEF e
<1>7. \A i \in DOMAIN e : Last(e, i, "HEARTBEAT") => e[i] = heartbeat
  BY <1>1, <1>2, <1>6 DEF Last
<1>8. \A i \in DOMAIN e : Last(e, i, "LOCAL_POSITION_NED") => e[i] = position
  BY <1>1, <1>2, <1>6 DEF Last
<1>9. /\ ~\A i \in DOMAIN e : e[i].msgid # "HEARTBEAT"
      /\ ~\A i \in DOMAIN e : e[i].msgid # "LOCAL_POSITION_NED"
  BY <1>1, <1>2, <1>6
<1>10. Carries(e, snap, t)
  BY <1>3, <1>4, <1>7, <1>8, <1>9 DEF Carries
<1> QED BY <1>5, <1>6, <1>10 DEF e

LEMMA TelemetryType ==
  ASSUME NEW s \in FlightState
  PROVE  telemetry(s) \in Telemetry
  BY DEF telemetry, Telemetry, FlightState

\* What the receiver makes of the first message that is on its way.
LEMMA ReceiveEffect ==
  ASSUME NEW m \in DownMessage, snapshot \in Telemetry, Receive(m)
  PROVE  /\ snapshot' \in Telemetry
         /\ \/ /\ m.msgid = "HEARTBEAT"
               /\ SaysStatus(m, snapshot')
               /\ snapshot'.position = snapshot.position
               /\ snapshot'.velocity = snapshot.velocity
            \/ /\ m.msgid = "LOCAL_POSITION_NED"
               /\ SaysPosition(m, snapshot')
               /\ snapshot'.armed = snapshot.armed
               /\ snapshot'.mode = snapshot.mode
            \/ m.msgid = "COMMAND_ACK" /\ snapshot' = snapshot
<1>1. CASE m.msgid = "HEARTBEAT"
  <2>1. snapshot' = [snapshot EXCEPT !.armed = is_armed(m.base_mode),
                                     !.mode = flight_mode(m.custom_mode)]
    BY <1>1 DEF Receive
  <2>2. is_armed(m.base_mode) \in BOOLEAN
    BY DEF is_armed
  <2>3. m.custom_mode \in 0 .. 5
    BY <1>1 DEF DownMessage
  <2>4. flight_mode(m.custom_mode) \in FlightMode
    BY <2>3 DEF flight_mode, FlightModes, FlightMode
  <2> QED BY <1>1, <2>1, <2>2, <2>4 DEF Telemetry, SaysStatus
<1>2. CASE m.msgid = "LOCAL_POSITION_NED"
  <2>1. snapshot' = [snapshot EXCEPT !.position = ned(m.position),
                                     !.velocity = ned(m.velocity)]
    BY <1>2 DEF Receive
  <2>2. ned(m.position) \in Vec3 /\ ned(m.velocity) \in Vec3
    BY <1>2, NedRoundTrip DEF DownMessage
  <2> QED BY <1>2, <2>1, <2>2 DEF Telemetry, SaysPosition
<1>3. CASE m.msgid \notin {"HEARTBEAT", "LOCAL_POSITION_NED"}
  BY <1>3 DEF Receive
<1> QED BY <1>1, <1>2, <1>3

LEMMA DownlinkUnchanged ==
  ASSUME DownlinkInv, UplinkInv', UNCHANGED <<downlink, snapshot, reported>>
  PROVE  DownlinkInv'
  BY DEF DownlinkInv

LEMMA AckType ==
  ASSUME NEW command \in Commands, NEW result \in CommandResult
  PROVE  COMMAND_ACK(command, result) \in DownMessage
<1>1. to_mav_result(result) \in MavResult
  BY DEF CommandResult, to_mav_result, MavResult
<1> QED BY <1>1 DEF COMMAND_ACK, DownMessage

\* Every row of the table has an outcome, and an event without one is rejected.
LEMMA ResultType ==
  ASSUME NEW s, NEW event, NEW v
  PROVE  apply(s, event, v).result \in CommandResult
<1> DEFINE outcomes == {Fire(row, s, v) : row \in find(s, event)}
<1>1. CASE outcomes = {}
  BY <1>1 DEF apply, CommandResult
<1>2. CASE outcomes # {}
  <2>1. apply(s, event, v) = the(outcomes) /\ the(outcomes) \in outcomes
    BY <1>2 DEF apply, the
  <2>2. PICK row \in find(s, event) : apply(s, event, v) = Fire(row, s, v)
    BY <2>1
  <2>3. PICK i \in 1 .. 17 : row = Table[i]
    BY TableDomain DEF find, MatchingRows
  <2>4. \A j \in 1 .. 17 : Table[j].outcome \in CommandResult
    BY DEF Table, kTransitions, kTouchdownTransition, Row, CommandResult
  <2> QED BY <2>2, <2>3, <2>4 DEF Fire
<1> QED BY <1>1, <1>2

LEMMA DownlinkInductive ==
  DownlinkInv /\ UplinkInv' /\ [MavNext]_mavVars => DownlinkInv'
<1> SUFFICES ASSUME DownlinkInv, UplinkInv', [MavNext]_mavVars
             PROVE  DownlinkInv'
  OBVIOUS
<1>1. CASE Transmit \/ Intrude
  BY <1>1, DownlinkUnchanged DEF Transmit, Intrude, Enter, history
<1>2. CASE BeginTick
  BY <1>2, DownlinkUnchanged DEF BeginTick, history
<1>3. CASE Handle
  <2> DEFINE message == Head(uplink)
  <2>1. /\ snapshot' = snapshot
        /\ \/ Ignore(message)
           \/ SetMode(message) \/ CommandLong(message) \/ ManualControl(message)
    BY <1>3 DEF Handle
  <2>2. reported' = reported
    BY <2>1
    DEF Ignore, SetMode, CommandLong, ManualControl, Silently, Answered, history
  <2>3. CASE downlink' = downlink
    BY <2>1, <2>2, <2>3, DownlinkUnchanged
  <2>4. CASE downlink' # downlink
    <3>1. PICK ack \in DownMessage :
            ack.msgid = "COMMAND_ACK" /\ downlink' = Append(downlink, ack)
      <4>1. CommandLong(message)
        BY <2>1, <2>4 DEF Ignore, SetMode, ManualControl, Silently
      <4>2. \/ Answered("Goto", "MAV_CMD_OVERRIDE_GOTO", message.v)
            \/ Answered("Land", "MAV_CMD_NAV_LAND", Zero)
        BY <2>4, <4>1 DEF CommandLong
      <4>3. ASSUME NEW event, NEW command \in Commands, NEW v,
                   Answered(event, command, v)
            PROVE  \E ack \in DownMessage : /\ ack.msgid = "COMMAND_ACK"
                                            /\ downlink' = Append(downlink, ack)
        <5> DEFINE a == COMMAND_ACK(command, apply(state, event, v).result)
        <5>1. a \in DownMessage /\ a.msgid = "COMMAND_ACK"
          BY AckType, ResultType DEF COMMAND_ACK
        <5>2. downlink' = Append(downlink, a)
          BY <4>3 DEF Answered
        <5> QED BY <5>1, <5>2
      <4> QED BY <4>2, <4>3 DEF Commands
    <3>3. downlink' \in Seq(DownMessage)
      BY <3>1 DEF DownlinkInv
    <3>4. Carries(downlink', snapshot, reported)
      BY <3>1, CarriesAppend DEF DownlinkInv
    <3> QED BY <2>1, <2>2, <3>3, <3>4 DEF DownlinkInv
  <2> QED BY <2>3, <2>4
<1>4. ASSUME NEW due \in BOOLEAN, EndTick(due) PROVE DownlinkInv'
  <2>1. CASE ~due
    BY <1>4, <2>1, DownlinkUnchanged DEF EndTick
  <2>2. CASE due
    <3>1. /\ snapshot' = snapshot /\ reported' = telemetry(state')
          /\ downlink' = downlink \o publish(telemetry(state'))
      BY <1>4, <2>2 DEF EndTick
    <3>2. telemetry(state') \in Telemetry
      BY TelemetryType DEF UplinkInv, IInv, Sound
    <3>3. /\ downlink' \in Seq(DownMessage)
          /\ Carries(downlink', snapshot, reported')
      BY <3>1, <3>2, CarriesPublish DEF DownlinkInv
    <3> QED BY <3>1, <3>2, <3>3 DEF DownlinkInv
  <2> QED BY <2>1, <2>2
<1>5. CASE ReceiveNext
  <2>1. /\ downlink # <<>> /\ downlink' = Tail(downlink)
        /\ Receive(Head(downlink)) /\ reported' = reported
    BY <1>5 DEF ReceiveNext, history
  <2>2. /\ downlink \in Seq(DownMessage) /\ Head(downlink) \in DownMessage
        /\ downlink' \in Seq(DownMessage)
    BY <2>1 DEF DownlinkInv
  <2>3. /\ snapshot' \in Telemetry
        /\ Carries(Tail(downlink), snapshot', reported)
    BY <2>1, <2>2, ReceiveEffect, CarriesTail DEF DownlinkInv
  <2> QED BY <2>1, <2>2, <2>3 DEF DownlinkInv
<1>6. CASE UNCHANGED mavVars
  BY <1>6, DownlinkUnchanged DEF mavVars, history
<1> QED BY <1>1, <1>2, <1>3, <1>4, <1>5, <1>6 DEF MavNext

LEMMA DownlinkInvariance == MavSpec => []DownlinkInv
<1>1. MavInit => DownlinkInv
  <2> SUFFICES ASSUME MavInit PROVE DownlinkInv
    OBVIOUS
  <2>1. UplinkInv
    BY InitSound DEF MavInit, UplinkInv
  <2>2. DefaultTelemetry \in Telemetry
    BY ZeroType DEF DefaultTelemetry, Telemetry, FlightMode
  <2> QED BY <2>1, <2>2 DEF MavInit, DownlinkInv, Carries
<1> QED BY <1>1, DownlinkInductive, UplinkInvariance, PTL DEF MavSpec

\* Whatever is published when, and however long reports are on their way: once
\* they came in, the station shows what the drone reported last.
THEOREM ShownIsRealForEver == MavSpec => []ShownIsReal
<1>1. DownlinkInv => ShownIsReal
  <2> SUFFICES ASSUME DownlinkInv, downlink = <<>> PROVE snapshot = reported
    BY DEF ShownIsReal
  <2>1. /\ snapshot \in Telemetry /\ reported \in Telemetry
        /\ snapshot.armed = reported.armed /\ snapshot.mode = reported.mode
        /\ snapshot.position = reported.position
        /\ snapshot.velocity = reported.velocity
    BY DEF DownlinkInv, Carries
  <2> QED BY <2>1 DEF Telemetry
<1> QED BY <1>1, DownlinkInvariance, PTL

-----------------------------------------------------------------------------
(***************************************************************************)
(* The answers.  What an answer says of the mode stays true until another  *)
(* order is executed or a report is made: a step alone ends a flight to a  *)
(* target or a landing only in the mode that the answer allows for.        *)
(***************************************************************************)
SaysMode(a, mode) ==
    CASE a.result = "MAV_RESULT_ACCEPTED" ->
            IF a.command = "MAV_CMD_NAV_LAND" THEN mode \in {"Land", "Disarmed"}
                                              ELSE mode \in {"Goto", "Hold"}
      [] a.result = "MAV_RESULT_DENIED" ->
            IF a.command = "MAV_CMD_NAV_LAND"
            THEN mode = "Disarmed"
            ELSE mode \in {"Takeoff", "Hold", "Land", "Disarmed"}
      [] OTHER -> FALSE

AnswerInv == UplinkInv /\ \A a \in answer : SaysMode(a, state.mode)

LEMMA AnswerIsTrue ==
  ASSUME UplinkInv, NEW event, NEW command, NEW v \in Vec3,
         \/ event = "Land" /\ command = "MAV_CMD_NAV_LAND"
         \/ event = "Goto" /\ command = "MAV_CMD_OVERRIDE_GOTO",
         Answered(event, command, v)
  PROVE  \A a \in answer' : SaysMode(a, state'.mode)
<1> DEFINE o == apply(state, event, v)
           a == COMMAND_ACK(command, o.result)
<1>1. answer' = {a} /\ a.command = command /\ a.result = to_mav_result(o.result)
  BY DEF Answered, COMMAND_ACK
<1>2. state' = o.state
  BY DEF Answered, Command, dispatch
<1>3. state \in FlightState /\ state.mode \in FlightMode
  BY DEF UplinkInv, IInv, Sound, FlightState
<1>4. Outcome(state, event, o)
  BY <1>3, CommandOutcome
<1> HIDE DEF o, a
<1>5. CASE event = "Land"
  <2>1. \/ o.result = "Rejected" /\ state'.mode = "Disarmed"
        \/ o.result = "Accepted" /\ state'.mode = "Land"
    BY <1>2, <1>4, <1>5 DEF Outcome
  <2> QED BY <1>1, <1>5, <2>1 DEF SaysMode, to_mav_result
<1>6. CASE event = "Goto"
  <2>1. \/ /\ o.result = "Rejected"
           /\ state'.mode \in {"Takeoff", "Land", "Disarmed"}
        \/ o.result = "Accepted" /\ state'.mode = "Goto"
    BY <1>2, <1>3, <1>4, <1>6 DEF Outcome, kPilotable, FlightMode
  <2> QED BY <1>1, <1>6, <2>1 DEF SaysMode, to_mav_result
<1> QED BY <1>5, <1>6

LEMMA AnswerSurvivesStep ==
  ASSUME IInv, Step, NEW a, SaysMode(a, state.mode)
  PROVE  SaysMode(a, state'.mode)
<1>1. state.mode # "Manual"
  BY DEF SaysMode
<1>2. \/ state'.mode = state.mode
      \/ state.mode \in {"Takeoff", "Goto"} /\ state'.mode = "Hold"
      \/ state.mode = "Land" /\ state'.mode = "Disarmed"
  BY <1>1, StepModes
<1> QED BY <1>2 DEF SaysMode

LEMMA AnswerKept ==
  ASSUME AnswerInv, UplinkInv', UNCHANGED <<state, answer>>
  PROVE  AnswerInv'
  BY DEF AnswerInv

LEMMA AnswerInductive ==
  AnswerInv /\ UplinkInv' /\ [MavNext]_mavVars => AnswerInv'
<1> SUFFICES ASSUME AnswerInv, UplinkInv', [MavNext]_mavVars PROVE AnswerInv'
  OBVIOUS
<1>0. UplinkInv /\ IInv
  BY DEF AnswerInv, UplinkInv
<1>1. CASE Transmit \/ Intrude
  BY <1>1, AnswerKept DEF Transmit, Intrude, Enter, history, vars
<1>2. CASE BeginTick
  <2>1. PICK d \in Ticks : state' = aged(state, d) /\ answer' = answer
    BY <1>2 DEF BeginTick, WakeUp, history
  <2>2. state'.mode = state.mode
    BY <1>0, <2>1, AgedSound, InputAssumption DEF IInv
  <2> QED BY <2>1, <2>2 DEF AnswerInv
<1>3. CASE Handle
  <2> DEFINE message == Head(uplink)
  <2>1. /\ message \in UpMessage
        /\ \/ Ignore(message)
           \/ SetMode(message) \/ CommandLong(message) \/ ManualControl(message)
    BY <1>0, <1>3 DEF Handle, UplinkInv
  <2> HIDE DEF message
  <2>2. CASE Ignore(message)
    BY <2>2, AnswerKept DEF Ignore, vars, history
  <2>3. CASE SetMode(message) \/ ManualControl(message)
    <3>1. answer' = {}
      BY <2>3 DEF SetMode, ManualControl, Silently
    <3> QED BY <3>1 DEF AnswerInv
  <2>4. CASE CommandLong(message)
    <3>1. message.v \in Vec3
      BY <2>1, <2>4 DEF CommandLong, UpMessage
    <3>2. \/ Answered("Goto", "MAV_CMD_OVERRIDE_GOTO", message.v)
          \/ Answered("Land", "MAV_CMD_NAV_LAND", Zero)
          \/ UNCHANGED <<state, answer>>
      BY <2>4 DEF CommandLong, vars, history
    <3>3. CASE Answered("Goto", "MAV_CMD_OVERRIDE_GOTO", message.v)
      BY <1>0, <3>1, <3>3, AnswerIsTrue DEF AnswerInv
    <3>4. CASE Answered("Land", "MAV_CMD_NAV_LAND", Zero)
      BY <1>0, <3>4, AnswerIsTrue, ZeroType DEF AnswerInv
    <3> QED BY <3>2, <3>3, <3>4, AnswerKept
  <2> QED BY <2>1, <2>2, <2>3, <2>4
<1>4. ASSUME NEW due \in BOOLEAN, EndTick(due) PROVE AnswerInv'
  <2>1. Step /\ answer' \subseteq answer
    BY <1>4 DEF EndTick
  <2> QED BY <1>0, <2>1, AnswerSurvivesStep DEF AnswerInv
<1>5. CASE ReceiveNext
  BY <1>5, AnswerKept DEF ReceiveNext, vars, history
<1>6. CASE UNCHANGED mavVars
  BY <1>6, AnswerKept DEF mavVars, vars, history
<1> QED BY <1>1, <1>2, <1>3, <1>4, <1>5, <1>6 DEF MavNext

\* An answer makes the downlink longer by one, what arrives shorter, and only a
\* publication makes it longer by two.
LEMMA OnlyPublicationsReport ==
  ASSUME DownlinkInv, MavNext, Reported
  PROVE  Step /\ reported' = telemetry(state')
<1>1. /\ downlink \in Seq(DownMessage) /\ Len(downlink) \in Nat
      /\ Len(downlink') = Len(downlink) + 2
  BY DEF DownlinkInv, Reported
<1>2. ASSUME downlink' = downlink PROVE FALSE
  BY <1>1, <1>2
<1>3. ASSUME NEW ack, downlink' = Append(downlink, ack) PROVE FALSE
  BY <1>1, <1>3
<1>4. ASSUME ReceiveNext PROVE FALSE
  <2>1. downlink # <<>> /\ downlink' = Tail(downlink)
    BY <1>4 DEF ReceiveNext
  <2> QED BY <1>1, <2>1
<1>5. ASSUME Handle PROVE FALSE
  <2>1. \/ downlink' = downlink
        \/ \E ack : downlink' = Append(downlink, ack)
    BY <1>5 DEF Handle, Ignore, SetMode, CommandLong, ManualControl, Silently,
                Answered
  <2> QED BY <1>2, <1>3, <2>1
<1>6. PICK due \in BOOLEAN : EndTick(due)
  BY <1>2, <1>4, <1>5 DEF MavNext, Transmit, Intrude, Enter, BeginTick
<1> QED BY <1>2, <1>6 DEF EndTick

\* In any order of commands, ticks and reports, of which a tick may have none or
\* several: an answer is never contradicted by the report that follows it, be it
\* the same as the report before.
THEOREM AnswersAreConfirmed == MavSpec => AnswersMatchReports
<1> DEFINE Confirmed ==
             \A a \in answer : Reported =>
               CASE a.result = "MAV_RESULT_ACCEPTED" ->
                       IF a.command = "MAV_CMD_NAV_LAND"
                       THEN reported'.mode \in {"Land", "Disarmed"}
                       ELSE reported'.mode \in {"Goto", "Hold"}
                 [] a.result = "MAV_RESULT_DENIED" ->
                       IF a.command = "MAV_CMD_NAV_LAND"
                       THEN reported'.mode = "Disarmed"
                       ELSE reported'.mode # "Goto"
                 [] OTHER -> FALSE
<1>1. MavInit => AnswerInv
  <2>1. MavInit => UplinkInv
    BY InitSound DEF MavInit, UplinkInv
  <2> QED BY <2>1 DEF MavInit, AnswerInv
<1>2. AnswerInv /\ DownlinkInv /\ [MavNext]_mavVars => [Confirmed]_mavVars
  <2> SUFFICES ASSUME AnswerInv, DownlinkInv, MavNext, NEW a \in answer,
                      Reported
               PROVE  SaysMode(a, reported'.mode)
    BY DEF SaysMode
  <2>1. Step /\ reported' = telemetry(state')
    BY OnlyPublicationsReport
  <2>2. SaysMode(a, state'.mode)
    BY <2>1, AnswerSurvivesStep DEF AnswerInv, UplinkInv
  <2> QED BY <2>1, <2>2 DEF telemetry
<1>3. AnswersMatchReports <=> [][Confirmed]_mavVars
  BY DEF AnswersMatchReports
<1> QED
  BY <1>1, <1>2, <1>3, AnswerInductive, UplinkInvariance, DownlinkInvariance, PTL
  DEF MavSpec
=============================================================================
