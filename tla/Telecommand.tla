---------------------------- MODULE Telecommand ----------------------------
(***************************************************************************)
(* The way of commands: an operator clicks and holds the stick, the ground *)
(* station transmits, the link loses, delays, repeats and reorders, and    *)
(* the drone, which is the whole of FlightController, executes.            *)
(*                                                                         *)
(* Time passes in units, as long as nobody is overdue: a process runs its  *)
(* tick and a frame ends its way within the bounds below.                  *)
(***************************************************************************)
EXTENDS FlightController, StickRepetition, SequencesExt

CONSTANTS
    Clicks,        \* orders the operator may give, besides the stick
    DroneGap,      \* longest time between two ticks of the drone
    StationGap,    \* longest time between two frames of the station
    MaxDelay,      \* longest time a frame is on the way
    MaxLosses,     \* sticks, or clicks, that the link loses in a row
    MaxCopies,     \* frames that the link repeats
    MaxPending     \* frames not yet executed when a click or a copy is made

ASSUME LinkAssumption ==
    /\ Clicks \subseteq {"Arm", "Disarm", "Land", "Goto"}
    /\ DroneGap \in Nat \ {0} /\ StationGap \in Nat \ {0}
    /\ MaxDelay \in Nat /\ MaxLosses \in Nat /\ MaxCopies \in Nat
    /\ MaxPending \in Nat /\ ManualPeriod \in Nat \ {0}

VARIABLES
    open,            \* the station is inside a frame of its loop
    sinceTick,       \* time since the drone's last tick
    sinceStation,    \* time since the station's last frame
    uplink,          \* frames on the way
    inbox,           \* frames that wait for the drone's tick
    losses,          \* sticks and clicks lost since one arrived
    copies,          \* frames repeated so far
    \* History:
    sinceDeflected,  \* time since the operator last deflected the stick, an
                     \* optional that is forgotten beyond DeadMansTime
    held,            \* time since the operator holds it and gave no other order
                     \* than ARM, an optional
    landing          \* the drone was told to land or disarm, and no ARM that
                     \* was given since, or was on its way then, is left

link == <<uplink, inbox, losses, copies>>
gcs == <<open, sinceStation, sinceManual, manual_active>>
operator == <<sinceDeflected, held, landing>>
teleVars == <<vars, sinceTick, link, gcs, operator>>

TeleInit ==
    /\ Init
    /\ open = FALSE /\ sinceManual = {} /\ manual_active = FALSE
    /\ sinceTick = 0 /\ sinceStation = 0
    /\ uplink = <<>> /\ inbox = <<>> /\ losses = [stick |-> 0, click |-> 0] /\ copies = 0
    /\ sinceDeflected = {} /\ held = {} /\ landing = TRUE

\* The longest time that the drone may be flown by a stick that was let go: the
\* frame of the last deflection is late, and the drone then waits for the next.
DeadMansTime == MaxDelay + DroneGap + ManualTimeout + DroneGap

\* The longest time between two sticks that arrive while the operator holds it:
\* a repetition waits for the first frame after the period.
LongestSilence ==
    (MaxLosses + 1) * (ManualPeriod + StationGap - 1) + MaxDelay

-----------------------------------------------------------------------------
quiet == ~awake /\ ~open

overdue ==
    \/ sinceTick >= DroneGap
    \/ sinceStation >= StationGap
    \/ \E i \in DOMAIN uplink : uplink[i].age >= MaxDelay

Pass ==
    /\ quiet /\ ~overdue
    /\ sinceTick' = sinceTick + 1
    /\ sinceStation' = sinceStation + 1
    /\ uplink' = [i \in DOMAIN uplink |-> [uplink[i] EXCEPT !.age = @ + 1]]
    /\ sinceDeflected' = {t + 1 : t \in {t \in sinceDeflected : t < DeadMansTime}}
    /\ held' = {IF t > LongestSilence + DroneGap THEN t ELSE t + 1 : t \in held}
    /\ UNCHANGED <<vars, inbox, losses, copies, open, sinceManual,
                   manual_active, landing>>

-----------------------------------------------------------------------------
(***************************************************************************)
(* A frame of the station's loop: the clock is read, the operator clicks,  *)
(* and the stick is passed to send_manual.                                 *)
(***************************************************************************)
OpenFrame ==
    /\ quiet /\ sinceStation > 0
    /\ open' = TRUE
    /\ sinceStation' = 0
    /\ sinceManual' = {IF t < 2 * ManualPeriod THEN t + sinceStation ELSE t :
                         t \in sinceManual}
    /\ UNCHANGED <<vars, sinceTick, link, manual_active, operator>>

\* What MavlinkCommandTransmitter puts on the wire; only a GOTO has a target,
\* which the station clamps to its fence.
ordered(order, v) ==
    [order |-> order, age |-> 0,
     v |-> IF order = "Goto" THEN clampToFence(v) ELSE v]

pending == Len(uplink) + Len(inbox)

inTransit(orders) ==
    \/ \E i \in DOMAIN uplink : uplink[i].order \in orders
    \/ \E i \in DOMAIN inbox : inbox[i].order \in orders

Click(order, v) ==
    /\ open /\ pending < MaxPending
    /\ uplink' = Append(uplink, ordered(order, v))
    /\ landing' = (landing /\ order # "Arm")
    /\ held' = IF order = "Arm" THEN held ELSE {}
    /\ UNCHANGED <<vars, sinceTick, inbox, losses, copies, gcs, sinceDeflected>>

\* The end of the frame.
Stick(a) ==
    /\ open
    /\ open' = FALSE
    /\ sinceDeflected' = IF a # Zero THEN {0} ELSE sinceDeflected
    /\ held' = IF a = Zero THEN {} ELSE IF held = {} THEN {0} ELSE held
    /\ \/ /\ transmitted(a)
          /\ uplink' = Append(uplink, ordered("Manual", a))
       \/ /\ silent(a) \/ limited(a)
          /\ UNCHANGED <<uplink, sinceManual, manual_active>>
    /\ UNCHANGED <<vars, sinceTick, sinceStation, inbox, losses, copies, landing>>

-----------------------------------------------------------------------------
sort(frame) == IF frame.order = "Manual" THEN "stick" ELSE "click"

Arrive(i) ==
    /\ quiet
    /\ inbox' = Append(inbox, [uplink[i] EXCEPT !.age = 0])
    /\ uplink' = RemoveAt(uplink, i)
    /\ losses' = [losses EXCEPT ![sort(uplink[i])] = 0]
    /\ UNCHANGED <<vars, sinceTick, copies, gcs, operator>>

Lose(i) ==
    /\ quiet /\ losses[sort(uplink[i])] < MaxLosses
    /\ uplink' = RemoveAt(uplink, i)
    /\ losses' = [losses EXCEPT ![sort(uplink[i])] = @ + 1]
    /\ UNCHANGED <<vars, sinceTick, inbox, copies, gcs, operator>>

Repeat(i) ==
    /\ quiet /\ copies < MaxCopies /\ pending < MaxPending
    /\ copies' = copies + 1
    /\ uplink' = Append(uplink, uplink[i])
    /\ UNCHANGED <<vars, sinceTick, inbox, losses, gcs, operator>>

-----------------------------------------------------------------------------
(***************************************************************************)
(* A tick of the drone.  Nothing else happens inside it: no other step     *)
(* could be told from one before or after the tick.                        *)
(***************************************************************************)
DroneTick ==
    /\ quiet /\ sinceTick > 0
    /\ WakeUp(sinceTick)
    /\ sinceTick' = 0
    /\ UNCHANGED <<link, gcs, operator>>

\* MavlinkCommandReceiver::handle.
Execute(message) ==
    \/ message.order = "Arm" /\ Arm
    \/ message.order = "Disarm" /\ Disarm
    \/ message.order = "Land" /\ Land
    \/ message.order = "Goto" /\ Goto(message.v)
    \/ message.order = "Manual" /\ ManualInput(message.v)

Handle ==
    /\ inbox # <<>>
    /\ Execute(Head(inbox))
    /\ inbox' = Tail(inbox)
    /\ landing' = (\/ landing
                   \/ /\ Head(inbox).order \in {"Land", "Disarm"}
                      /\ ~inTransit({"Arm"}))
    /\ UNCHANGED <<sinceTick, uplink, losses, copies, gcs, sinceDeflected, held>>

EndTick ==
    /\ inbox = <<>>
    /\ Step
    /\ UNCHANGED <<sinceTick, link, gcs, operator>>

DroneStep == DroneTick \/ Handle \/ EndTick

Deliver == \E i \in DOMAIN uplink : Arrive(i) \/ Lose(i)

StationStep ==
    \/ OpenFrame
    \/ \E a \in Sticks : Stick(a)

Operator ==
    \E order \in Clicks :
        \/ order # "Goto" /\ Click(order, Zero)
        \/ order = "Goto" /\ \E v \in Targets : Click("Goto", v)

TeleNext ==
    \/ Pass \/ DroneStep \/ Deliver \/ StationStep \/ Operator
    \/ \E i \in DOMAIN uplink : Repeat(i)

TeleSpec == TeleInit /\ [][TeleNext]_teleVars

-----------------------------------------------------------------------------
\* A dead man's handle across the link: whatever the link does with the frames,
\* the one that says the stick was released included, the drone is flown by hand
\* for no longer than that after the operator let go.
DeadMansHandle == state.mode = "Manual" => sinceDeflected # {}

\* An order to land or to disarm that was handled is final, in whatever order
\* the frames that were sent before and after it arrive and however often, until
\* the operator arms the drone again.
LandingIsFinal == landing => state.mode \in {"Land", "Disarmed"}

\* A drone flown by hand stays so once the operator holds the stick and what was
\* ordered before is through, as long as the timeout has room for the losses in a
\* row, the delays and the late frames.
HeldStickFlies ==
    [][(/\ LongestSilence =< ManualTimeout
        /\ \E t \in held : t > LongestSilence + DroneGap
        /\ state.mode = "Manual") => state'.mode = "Manual"]_teleVars
=============================================================================
