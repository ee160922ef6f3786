--------------------------- MODULE TelemetryLink ---------------------------
(***************************************************************************)
(* The way of telemetry: the drone publishes a HEARTBEAT and a             *)
(* LOCAL_POSITION_NED by its schedule, the link loses, delays and reorders *)
(* them, and the ground station, which is the whole of GroundStation,      *)
(* shows what arrives.  The drone may crash and start again, and the link  *)
(* may go down for any time.                                               *)
(*                                                                         *)
(* Time passes in units, as long as nobody is overdue: a process runs its  *)
(* tick and a frame ends its way within the bounds below.  A frame and     *)
(* what the station shows of it carry their age.                           *)
(***************************************************************************)
EXTENDS GroundStation, TelemetrySchedule, SequencesExt

CONSTANTS
    DroneGap,      \* longest time between two ticks of the drone
    StationGap,    \* longest time between two ticks of the station
    MaxDelay,      \* longest time a frame is on the way
    MaxLosses,     \* frames of a kind that the link loses in a row
    Faults,        \* what may go wrong: single frames are lost, or the drone
                   \* crashes and the link goes down, each for any time
    OldestFrame    \* age at which a frame of each kind that is shown stops ageing,
                   \* beyond the bounds that are looked at under each fault

Kinds == {"HEARTBEAT", "LOCAL_POSITION_NED"}

ASSUME LinkAssumption ==
    /\ TelemetryPeriod \in Nat \ {0}
    /\ DroneGap \in 1 .. TelemetryPeriod /\ StationGap \in Nat \ {0}
    /\ MaxDelay \in Nat /\ MaxLosses \in Nat /\ Faults \subseteq {"losses", "outages"}
    /\ OldestFrame \in [Faults -> [Kinds -> Nat]]

VARIABLES
    fault,          \* what goes wrong in this behaviour, one of Faults
    up,             \* the drone process runs
    untilDue,       \* next_publication_ - now, an optional
    sinceTick,      \* time since the drone's last tick
    sinceStation,   \* time since the station's last tick
    partitioned,    \* the link is down
    losses,         \* frames of each kind lost since one arrived
    air,            \* frames on the way
    inbox,          \* frames that wait for the station's tick
    shown           \* age of the frame shown of each kind, an optional

drone == <<up, untilDue, sinceTick>>
network == <<fault, partitioned, losses, air>>
station == <<vars, inbox, shown, sinceStation>>
linkVars == <<drone, network, station>>

LinkInit ==
    /\ Init
    /\ fault \in Faults
    /\ up = TRUE /\ untilDue = {} /\ sinceTick = 0 /\ sinceStation = 0
    /\ partitioned = FALSE /\ losses = [k \in Kinds |-> 0]
    /\ air = <<>> /\ inbox = <<>> /\ shown = [k \in Kinds |-> {}]

-----------------------------------------------------------------------------
capped(k, age) ==
    IF age < OldestFrame[fault][k] THEN age ELSE OldestFrame[fault][k]

older(frames) == [i \in DOMAIN frames |-> [frames[i] EXCEPT !.age = @ + 1]]

overdue ==
    \/ up /\ sinceTick >= DroneGap
    \/ sinceStation >= StationGap
    \/ \E i \in DOMAIN air : air[i].age >= MaxDelay

Pass ==
    /\ ~awake /\ ~overdue
    /\ untilDue' = {t - 1 : t \in untilDue}
    /\ sinceTick' = IF up THEN sinceTick + 1 ELSE 0
    /\ sinceStation' = sinceStation + 1
    /\ air' = older(air) /\ inbox' = older(inbox)
    /\ shown' = [k \in Kinds |-> {capped(k, t + 1) : t \in shown[k]}]
    /\ UNCHANGED <<up, fault, partitioned, losses, vars>>

\* MavlinkTelemetryPublisher::publish.
published == <<[kind |-> "HEARTBEAT", age |-> 0],
               [kind |-> "LOCAL_POSITION_NED", age |-> 0]>>

\* A tick of the drone, whose first one arms the schedule.
DroneTick ==
    /\ up /\ sinceTick > 0 /\ ~awake
    /\ sinceTick' = 0
    /\ \E deadline \in IF untilDue = {} THEN {0} ELSE untilDue :
          \/ /\ isDue(deadline, 0)
             /\ untilDue' = {reschedule(deadline, 0)}
             /\ air' = air \o published
          \/ /\ ~isDue(deadline, 0)
             /\ untilDue' = {deadline}
             /\ UNCHANGED air
    /\ UNCHANGED <<up, fault, partitioned, losses, station>>

-----------------------------------------------------------------------------
\* Frames arrive in any order.
Arrive(i) ==
    /\ ~awake /\ ~partitioned
    /\ inbox' = Append(inbox, air[i])
    /\ air' = RemoveAt(air, i)
    /\ losses' = [losses EXCEPT ![air[i].kind] = 0]
    /\ UNCHANGED <<drone, fault, partitioned, vars, shown, sinceStation>>

Lose(i) ==
    /\ ~awake
    /\ \/ partitioned /\ UNCHANGED losses
       \/ /\ fault = "losses" /\ losses[air[i].kind] < MaxLosses
          /\ losses' = [losses EXCEPT ![air[i].kind] = @ + 1]
    /\ air' = RemoveAt(air, i)
    /\ UNCHANGED <<drone, fault, partitioned, station>>

Partition ==
    /\ fault = "outages" /\ ~awake
    /\ partitioned' = ~partitioned
    /\ UNCHANGED <<drone, fault, losses, air, station>>

\* The drone process ends, and what it sent goes on; a new one has no schedule.
Crash ==
    /\ fault = "outages" /\ up /\ ~awake
    /\ up' = FALSE /\ untilDue' = {} /\ sinceTick' = 0
    /\ UNCHANGED <<network, station>>

Restart ==
    /\ ~up /\ ~awake
    /\ up' = TRUE
    /\ UNCHANGED <<untilDue, sinceTick, network, station>>

-----------------------------------------------------------------------------
(***************************************************************************)
(* A tick of the station: the clock is read, the frames that arrived are   *)
(* handled in order, and the status is updated.  Nothing else happens in   *)
(* between: no other step could be told from one before or after the tick. *)
(***************************************************************************)
StationTick ==
    /\ sinceStation > 0
    /\ WakeUp(sinceStation)
    /\ sinceStation' = 0
    /\ UNCHANGED <<inbox, shown, drone, network>>

Handle ==
    /\ inbox # <<>>
    /\ \/ /\ Head(inbox).kind = "HEARTBEAT"
          /\ \E status \in Statuses : Heartbeat(status)
       \/ /\ Head(inbox).kind = "LOCAL_POSITION_NED"
          /\ \E position \in Positions : Position(position)
    /\ inbox' = Tail(inbox)
    /\ LET frame == Head(inbox)
       IN shown' = [shown EXCEPT ![frame.kind] = {capped(frame.kind, frame.age)}]
    /\ UNCHANGED <<sinceStation, drone, network>>

EndTick ==
    /\ inbox = <<>>
    /\ Update
    /\ UNCHANGED <<inbox, shown, sinceStation, drone, network>>

Station == StationTick \/ Handle \/ EndTick

Deliver == \E i \in DOMAIN air : Arrive(i) \/ Lose(i)

LinkNext == \/ Pass \/ DroneTick \/ Station \/ Deliver
            \/ Partition \/ Crash \/ Restart

LinkSpec == LinkInit /\ [][LinkNext]_linkVars

\* Time passes, both processes run while they are up, and the link gets rid of
\* what it was given.  Nothing is assumed of crashes, restarts and outages.
LinkFairSpec ==
    /\ LinkSpec
    /\ WF_linkVars(Pass) /\ WF_linkVars(DroneTick)
    /\ WF_linkVars(Station) /\ WF_linkVars(Deliver)

-----------------------------------------------------------------------------
\* The longest time between two arrivals of a kind over a link that works: the
\* absolute schedule does not add the lateness of one tick to that of another.
LongestGap == (MaxLosses + 1) * TelemetryPeriod + (DroneGap - 1) + MaxDelay

\* The status does not flap over a link that works: as many losses in a row as
\* the timeout has room for, late frames and late ticks do not disconnect.
SurvivesLosses ==
    [][fault = "losses" /\ LongestGap < ConnectionTimeout /\ view.connected
         => view'.connected]_linkVars

\* Nor is either half of the snapshot, of which one may be lost while the other is
\* not, older than that link makes it: a frame that another overtook replaces what
\* is newer, but for no longer than until the next one.
SnapshotIsRecent ==
    fault = "losses" =>
        \A k \in Kinds : \A t \in shown[k] : t =< MaxDelay + LongestGap + StationGap

\* A drone that is shown as connected published the status that is shown not
\* long ago: neither positions, nor a frame that was on the way when the drone
\* crashed, keep it alive for longer.
ConnectedMeansPublished ==
    ~awake /\ view.connected =>
        \E t \in shown["HEARTBEAT"] :
            t < ConnectionTimeout + MaxDelay + 2 * StationGap

\* When the drone is gone for good, or the link is, the station finds out; and when
\* the drone runs and the link works again, the connection comes back and stays.
FindsOut ==
    /\ <>[]~up => <>[]~view.connected
    /\ <>[]partitioned => <>[]~view.connected
    /\ <>[](up /\ ~partitioned) => <>[]view.connected
=============================================================================
