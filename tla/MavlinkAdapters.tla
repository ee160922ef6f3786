--------------------------- MODULE MavlinkAdapters ---------------------------
(***************************************************************************)
(* The adapters between MAVLink and the two domains, around the whole of   *)
(* FlightController: the station's transmitter encodes orders, the drone's *)
(* command receiver decodes and executes the messages that are for it,     *)
(* answers some, and its telemetry publisher reports; the station's        *)
(* telemetry receiver accumulates the reports in its snapshot.             *)
(*                                                                         *)
(* Other systems share the link: their messages are for another drone, for *)
(* everyone, or of a kind that nobody handles.  The link keeps the order,  *)
(* and what it loses was never sent; what losses and reordering do is the  *)
(* subject of Telecommand and TelemetryLink.                               *)
(***************************************************************************)
EXTENDS FlightController, WireFormat, Sequences

CONSTANTS
    system_id,     \* the drone's
    Others,        \* other values of a target field
    Clicks,        \* orders the operator may give, besides the stick
    Raw,           \* axes that another system may put into a MANUAL_CONTROL
    MaxUplink,     \* messages on their way to the drone
    MaxDownlink    \* messages on their way to the station when a tick begins

Broadcast == 0

ASSUME AdaptersAssumption ==
    /\ system_id \in 1 .. 255
    /\ Others \subseteq 0 .. 255 /\ system_id \notin Others
    /\ Clicks \subseteq {"Arm", "Disarm", "Land", "Goto"}
    /\ Raw \subseteq [x : Int, z : Int]
    /\ MaxUplink \in Nat /\ MaxDownlink \in Nat

VARIABLES
    uplink,      \* messages for the drone, the ones a tick polled included
    downlink,    \* messages for the station
    snapshot,    \* MavlinkTelemetryReceiver::snapshot_
    \* History:
    reported,    \* the telemetry of the last publication
    stick,       \* the stick that was last sent to the drone, while in Manual
    answer       \* the last answer since another order or report, an optional

history == <<reported, stick, answer>>
mavVars == <<vars, uplink, downlink, snapshot, history>>

DefaultTelemetry ==
    [armed |-> FALSE, mode |-> "Disarmed", position |-> Zero, velocity |-> Zero]

MavInit ==
    /\ Init
    /\ uplink = <<>> /\ downlink = <<>>
    /\ snapshot = DefaultTelemetry
    /\ reported = DefaultTelemetry /\ stick = Zero /\ answer = {}

-----------------------------------------------------------------------------
(***************************************************************************)
(* The station's transmitter.  A message carries the order it was made     *)
(* from, which no program reads.                                           *)
(***************************************************************************)
set_mode(target, flags) ==
    [msgid |-> "SET_MODE", target |-> target, base_mode |-> flags]

command_long(target, command, v) ==
    [msgid |-> "COMMAND_LONG", target |-> target, command |-> command, v |-> v]

manual_control(target, axes, origin) ==
    [msgid |-> "MANUAL_CONTROL", target |-> target, axes |-> axes,
     origin |-> origin]

to_manual_axes(v) == [x |-> to_manual_axis(v.x), z |-> to_manual_axis(v.z)]

from_manual_axes(raw) ==
    [x |-> from_manual_axis(raw.x), z |-> from_manual_axis(raw.z)]

transmit(order, v) ==
    CASE order = "Arm" -> set_mode(system_id, base_mode(TRUE))
      [] order = "Disarm" -> set_mode(system_id, base_mode(FALSE))
      [] order = "Land" -> command_long(system_id, "MAV_CMD_NAV_LAND", Zero)
      [] order = "Goto" -> command_long(system_id, "MAV_CMD_OVERRIDE_GOTO", v)
      [] order = "Manual" ->
            manual_control(system_id, to_manual_axes(v), v)

\* What other systems put on the link.
ForeignModes ==
    {set_mode(target, flags) : target \in Others, flags \in {0, 255}}

ForeignCommands ==
    {command_long(target, command, Zero) : target \in Others,
        command \in {"MAV_CMD_NAV_LAND", "MAV_CMD_OVERRIDE_GOTO"}}

ForeignSticks ==
    {manual_control(target, raw, from_manual_axes(raw)) :
        target \in Others, raw \in Raw}

Foreign ==
    ForeignModes \cup ForeignCommands \cup ForeignSticks
    \cup {command_long(system_id, "another command", Zero),
          [msgid |-> "HEARTBEAT"]}

Enter(message) ==
    /\ ~awake /\ Len(uplink) < MaxUplink
    /\ uplink' = Append(uplink, message)
    /\ UNCHANGED <<vars, downlink, snapshot, history>>

Transmit ==
    \/ \E order \in Clicks \ {"Goto"} : Enter(transmit(order, Zero))
    \/ "Goto" \in Clicks /\ \E v \in Targets : Enter(transmit("Goto", v))
    \/ \E v \in Sticks : Enter(transmit("Manual", v))

Intrude == \E message \in Foreign : Enter(message)

-----------------------------------------------------------------------------
(***************************************************************************)
(* The drone's command receiver.                                           *)
(***************************************************************************)
isForUs(message) == message.target \in {Broadcast, system_id}

Targeted == {"SET_MODE", "COMMAND_LONG", "MANUAL_CONTROL"}

addressed_to(message) == message.msgid \in Targeted => isForUs(message)

COMMAND_ACK(command, result) ==
    [msgid |-> "COMMAND_ACK", command |-> command,
     result |-> to_mav_result(result)]

\* A command that is answered: executed and acknowledged.
Answered(event, command, v) ==
    \E ack \in {COMMAND_ACK(command, apply(state, event, v).result)} :
        /\ Command(event, v)
        /\ downlink' = Append(downlink, ack)
        /\ answer' = {ack}
        /\ UNCHANGED <<reported, stick>>

Silently == UNCHANGED <<downlink, reported>> /\ answer' = {}

SetMode(message) ==
    /\ message.msgid = "SET_MODE"
    /\ \/ is_armed(message.base_mode) /\ Arm
       \/ ~is_armed(message.base_mode) /\ Disarm
    /\ Silently /\ UNCHANGED stick

CommandLong(message) ==
    /\ message.msgid = "COMMAND_LONG"
    /\ \/ /\ message.command = "MAV_CMD_OVERRIDE_GOTO"
          /\ Answered("Goto", message.command, message.v)
       \/ /\ message.command = "MAV_CMD_NAV_LAND"
          /\ Answered("Land", message.command, Zero)
       \/ /\ message.command \notin {"MAV_CMD_OVERRIDE_GOTO", "MAV_CMD_NAV_LAND"}
          /\ UNCHANGED <<vars, downlink, history>>

ManualControl(message) ==
    /\ message.msgid = "MANUAL_CONTROL"
    /\ ManualInput(from_manual_axes(message.axes))
    /\ stick' = IF isForUs(message) THEN message.origin ELSE stick
    /\ Silently

Ignore(message) ==
    /\ message.msgid \notin Targeted \/ ~addressed_to(message)
    /\ UNCHANGED <<vars, downlink, history>>

\* MavlinkCommandReceiver::handle, on the next message of the tick.
Handle ==
    /\ awake /\ uplink # <<>>
    /\ uplink' = Tail(uplink)
    /\ \E message \in {Head(uplink)} :
          \/ Ignore(message)
          \/ /\ addressed_to(message)
             /\ \/ SetMode(message)
                \/ CommandLong(message)
                \/ ManualControl(message)
    /\ UNCHANGED snapshot

-----------------------------------------------------------------------------
(***************************************************************************)
(* The drone's tick, and its telemetry publisher.  Whether a publication   *)
(* is due is the subject of TelemetrySchedule.                             *)
(***************************************************************************)
BeginTick ==
    /\ Len(downlink) =< MaxDownlink
    /\ \E d \in Ticks : WakeUp(d)
    /\ UNCHANGED <<uplink, downlink, snapshot, history>>

telemetry(s) ==
    [armed |-> s.armed, mode |-> s.mode, position |-> s.position,
     velocity |-> s.velocity]

\* Mutant: the axes are not flipped.
publish_Enu(t) ==
    <<[msgid |-> "HEARTBEAT", base_mode |-> base_mode(t.armed),
       custom_mode |-> custom_mode(t.mode)],
      [msgid |-> "LOCAL_POSITION_NED", position |-> t.position,
       velocity |-> t.velocity]>>

publish(t) ==
    <<[msgid |-> "HEARTBEAT", base_mode |-> base_mode(t.armed),
       custom_mode |-> custom_mode(t.mode)],
      [msgid |-> "LOCAL_POSITION_NED", position |-> ned(t.position),
       velocity |-> ned(t.velocity)]>>

EndTick(due) ==
    /\ uplink = <<>>
    /\ Step
    /\ IF due
       THEN /\ downlink' = downlink \o publish(telemetry(state'))
            /\ reported' = telemetry(state')
            /\ answer' = {}
       ELSE UNCHANGED <<downlink, reported, answer>>
    /\ stick' = IF state'.mode = "Manual" THEN stick ELSE Zero
    /\ UNCHANGED <<uplink, snapshot>>

-----------------------------------------------------------------------------
(***************************************************************************)
(* The station's telemetry receiver.  It counts the answers, and nothing   *)
(* reads the count.                                                        *)
(***************************************************************************)
Receive(message) ==
    \/ /\ message.msgid = "HEARTBEAT"
       /\ snapshot' = [snapshot EXCEPT
                          !.armed = is_armed(message.base_mode),
                          !.mode = flight_mode(message.custom_mode)]
    \/ /\ message.msgid = "LOCAL_POSITION_NED"
       /\ snapshot' = [snapshot EXCEPT !.position = ned(message.position),
                                       !.velocity = ned(message.velocity)]
    \/ message.msgid = "COMMAND_ACK" /\ UNCHANGED snapshot

ReceiveNext ==
    /\ ~awake /\ downlink # <<>>
    /\ downlink' = Tail(downlink)
    /\ Receive(Head(downlink))
    /\ UNCHANGED <<vars, uplink, history>>

MavNext ==
    \/ Transmit
    \/ Intrude
    \/ BeginTick
    \/ Handle
    \/ \E due \in BOOLEAN : EndTick(due)
    \/ ReceiveNext

MavSpec == MavInit /\ [][MavNext]_mavVars

-----------------------------------------------------------------------------
\* On each axis, a value of the wire is at most half a step from a stick, put into
\* the range of an axis.
Approximates(read, v) ==
    \A c \in DOMAIN v :
        2 * (read[c] - clamp(v[c], -FullStick, FullStick)) \in -WireStep .. WireStep

\* A stick position survives the way over the wire: a drone in Manual flies the
\* value of the wire next to the last stick that was meant for it, and a stick that
\* the wire rounds to the centre never keeps it in Manual.
StickArrives ==
    state.mode = "Manual" =>
        /\ \E c \in DOMAIN stick :
              2 * stick[c] \notin 1 - WireStep .. WireStep - 1
        /\ \E raw \in [x : -ManualScale .. ManualScale,
                      z : -ManualScale .. ManualScale] :
              /\ Approximates(from_manual_axes(raw), stick)
              /\ state.manual_axes = clamped_axes(from_manual_axes(raw))

\* What the station shows when all reports came in is what the drone reported
\* last, flags, number of the mode and the flipped axis included: above all, a
\* drone shown on the ground with stopped motors was there.
ShownIsReal == downlink = <<>> => snapshot = reported

\* A report is the two messages of a publication; an answer is one message.
Reported == Len(downlink') = Len(downlink) + 2

\* An answer and the next report never contradict each other: a landing that was
\* accepted goes on or has ended, a flight to a target that was accepted goes on
\* or has arrived, and one that was denied did not begin.
AnswersMatchReports ==
    [][\A a \in answer : Reported =>
          CASE a.result = "MAV_RESULT_ACCEPTED" ->
                  IF a.command = "MAV_CMD_NAV_LAND"
                  THEN reported'.mode \in {"Land", "Disarmed"}
                  ELSE reported'.mode \in {"Goto", "Hold"}
            [] a.result = "MAV_RESULT_DENIED" ->
                  IF a.command = "MAV_CMD_NAV_LAND"
                  THEN reported'.mode = "Disarmed"
                  ELSE reported'.mode # "Goto"
            [] OTHER -> FALSE]_mavVars
=============================================================================
