--------------------------- MODULE FlightContract ---------------------------
(***************************************************************************)
(* What the drone promises its operator, seen from outside: the mode it    *)
(* reports, whether its motors run, and its altitude.  How it moves and    *)
(* which command or event makes it change mode is left open.               *)
(***************************************************************************)
EXTENDS Integers

CONSTANTS
    SafetyAltitude,   \* motors may be cut below it
    HoverAltitude,    \* where a take-off ends
    Ceiling           \* never flown above

VARIABLES mode, armed, height

vars == <<mode, armed, height>>

Flown == {"Hold", "Goto", "Manual"}

Init == mode = "Disarmed" /\ ~armed /\ height = 0

\* The motors start and the automatic climb begins.
StartMotors ==
    /\ mode = "Disarmed" /\ mode' = "Takeoff"
    /\ armed'
    /\ height' = height

Climb ==
    /\ mode = "Takeoff" /\ mode' = "Takeoff"
    /\ armed' = armed
    /\ height' \in height .. Ceiling

\* The climb ends in a hover at the take-off altitude.
Hover ==
    /\ mode = "Takeoff" /\ mode' = "Hold"
    /\ armed' = armed
    /\ height' = HoverAltitude

\* The operator has the drone fly about; a drone that holds does not move.
Fly ==
    /\ mode \in Flown /\ mode' \in Flown
    /\ armed' = armed
    /\ height' \in 0 .. Ceiling
    /\ mode = "Hold" => height' = height

StartLanding ==
    /\ mode \in Flown \cup {"Takeoff"} /\ mode' = "Land"
    /\ armed' = armed
    /\ height' = height

Descend ==
    /\ mode = "Land" /\ mode' = "Land"
    /\ armed' = armed
    /\ height' \in 0 .. height

\* A landing ends on the ground.
Touchdown ==
    /\ mode = "Land" /\ mode' = "Disarmed"
    /\ ~armed'
    /\ height' = 0

CutMotors ==
    /\ mode # "Disarmed" /\ mode' = "Disarmed"
    /\ height < SafetyAltitude
    /\ ~armed'
    /\ height' = height

Next == \/ StartMotors \/ Climb \/ Hover \/ Fly
        \/ StartLanding \/ Descend \/ Touchdown \/ CutMotors

Spec == Init /\ [][Next]_vars

\* A take-off and a landing come to an end, whatever the operator does.
Completes == WF_vars(Hover) /\ WF_vars(Touchdown)

FairSpec == Spec /\ Completes
=============================================================================
