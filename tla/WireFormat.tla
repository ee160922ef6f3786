----------------------------- MODULE WireFormat -----------------------------
(***************************************************************************)
(* What the MAVLink adapters of the two programs write into the fields of  *)
(* a message, and what the other side reads there.                         *)
(*                                                                         *)
(* A stick axis is a multiple of 1 / FullStick in the programs, of         *)
(* 1 / ManualScale on the wire, which is coarser.                          *)
(***************************************************************************)
EXTENDS FlightState

CONSTANTS
    ManualScale,   \* kManualScale, the wire's value of a fully deflected stick
    WireStep       \* distance of two neighbouring values of the wire

ASSUME WireAssumption ==
    /\ ManualScale \in 1 .. 32767
    /\ WireStep \in Nat \ {0}
    /\ FullStick = ManualScale * WireStep

-----------------------------------------------------------------------------
(***************************************************************************)
(* MANUAL_CONTROL.                                                         *)
(***************************************************************************)
\* Mutant: the cast alone, which truncates.
lround_Cast(n) == truncated(n, WireStep)

\* std::lround of n / WireStep, which rounds halves away from zero.
lround(n) ==
    IF n >= 0 THEN (2 * n + WireStep) \div (2 * WireStep)
              ELSE -((WireStep - 2 * n) \div (2 * WireStep))

to_manual_axis(n) == lround(clamp(n, -FullStick, FullStick))

from_manual_axis(raw) == clamp(raw * WireStep, -FullStick, FullStick)

-----------------------------------------------------------------------------
(***************************************************************************)
(* HEARTBEAT and SET_MODE: base_mode is a set of flags, custom_mode is the *)
(* number of the mode.                                                     *)
(***************************************************************************)
MAV_MODE_FLAG_SAFETY_ARMED == 128
MAV_MODE_GUIDED_DISARMED == 88
MAV_MODE_GUIDED_ARMED == 216

base_mode(armed) ==
    IF armed THEN MAV_MODE_GUIDED_ARMED ELSE MAV_MODE_GUIDED_DISARMED

\* (base_mode & MAV_MODE_FLAG_SAFETY_ARMED) != 0, on eight bits.
is_armed(mode_flags) ==
    (mode_flags \div MAV_MODE_FLAG_SAFETY_ARMED) % 2 = 1

\* The numbers of the enumeration.
FlightModes == <<"Disarmed", "Takeoff", "Hold", "Goto", "Manual", "Land">>

custom_mode(mode) == CHOOSE i \in 0 .. 5 : FlightModes[i + 1] = mode

\* static_cast<FlightMode>, on a number that the drone sends.
flight_mode(number) == FlightModes[number + 1]

-----------------------------------------------------------------------------
(***************************************************************************)
(* LOCAL_POSITION_NED, whose z axis points down.                           *)
(***************************************************************************)
\* One flip on either side.
ned(v) == [v EXCEPT !.z = -@]

-----------------------------------------------------------------------------
(***************************************************************************)
(* COMMAND_ACK.                                                            *)
(***************************************************************************)
\* Mutant: a rejected command is reported like one that will be done later.
to_mav_result_Soft(result) ==
    CASE result = "Accepted" -> "MAV_RESULT_ACCEPTED"
      [] OTHER -> "MAV_RESULT_TEMPORARILY_REJECTED"

to_mav_result(result) ==
    CASE result = "Accepted" -> "MAV_RESULT_ACCEPTED"
      [] result = "AcceptedAsLand" -> "MAV_RESULT_TEMPORARILY_REJECTED"
      [] result = "Rejected" -> "MAV_RESULT_DENIED"
=============================================================================
