---------------------------- MODULE GroundStation ----------------------------
(***************************************************************************)
(* The ground station: GcsService with its ConnectionMonitor, driven by    *)
(* GcsComposition::tick and by an operator.  A tick reads the clock,       *)
(* handles the frames that arrived and updates the connection status; the  *)
(* operator acts between two ticks.  The link may bring any frame or none, *)
(* which covers every loss, repetition and reordering.                     *)
(*                                                                         *)
(* An instant is kept as the time that has passed since; it stops counting *)
(* at Forgotten, beyond every duration the code compares it with.          *)
(***************************************************************************)
EXTENDS StickRepetition

CONSTANTS
    ConnectionTimeout,   \* connection_timeout
    Forgotten,
    Frames,              \* durations between two readings of the clock
    Statuses,            \* what a HEARTBEAT says: armed flag and mode
    Positions,           \* what a LOCAL_POSITION_NED says
    Targets,             \* targets the operator may click
    Sticks,              \* stick positions, of which Zero is the centred one
    NoTelemetry          \* a default Telemetry

ASSUME StationAssumption ==
    /\ ConnectionTimeout \in Nat \ {0} /\ ManualPeriod \in Nat \ {0}
    /\ Forgotten \in Nat
    /\ Forgotten > ConnectionTimeout /\ Forgotten > ManualPeriod
    /\ Frames \subseteq Nat \ {0}
    /\ Targets \subseteq Vec3 /\ Sticks \subseteq Vec3
    /\ HalfExtent \in Nat /\ Ceiling \in Nat

VARIABLES
    awake,            \* inside GcsComposition::tick
    sinceHeartbeat,   \* now - last_heartbeat_, an optional
    connected,        \* ConnectionMonitor::connected_
    snapshot,         \* MavlinkTelemetryReceiver::snapshot_
    view,             \* GcsView
    \* History:
    log,              \* the last connection event recorded, an optional
    order,            \* the last trajectory order transmitted
    axes,             \* the last axes transmitted
    stick,            \* the last axes passed to send_manual
    call,             \* whether the last step transmitted axes
    sinceAnte,        \* age of the transmission before the last, an optional
    heard             \* age of the last HEARTBEAT, an optional

link == <<sinceHeartbeat, connected, snapshot, log, heard>>
manual == <<sinceManual, manual_active, axes, stick, sinceAnte>>
vars == <<awake, link, view, manual, order, call>>

Init ==
    /\ awake = FALSE
    /\ sinceHeartbeat = {} /\ connected = FALSE
    /\ snapshot = [status |-> NoTelemetry, position |-> NoTelemetry]
    /\ view = [telemetry |-> snapshot, connected |-> FALSE, goto_target |-> {}]
    /\ sinceManual = {} /\ manual_active = FALSE
    /\ log = {} /\ order = "none"
    /\ axes = Zero /\ stick = Zero /\ sinceAnte = {}
    /\ call = "none" /\ heard = {}

-----------------------------------------------------------------------------
(***************************************************************************)
(* The tick.                                                               *)
(***************************************************************************)
aged(since, d) == {IF t + d > Forgotten THEN Forgotten ELSE t + d : t \in since}

WakeUp(d) ==
    /\ ~awake
    /\ awake' = TRUE
    /\ sinceHeartbeat' = aged(sinceHeartbeat, d)
    /\ sinceManual' = aged(sinceManual, d)
    /\ sinceAnte' = aged(sinceAnte, d)
    /\ heard' = aged(heard, d)
    /\ call' = "none"
    /\ UNCHANGED <<connected, snapshot, log, view, manual_active, axes, stick,
                   order>>

\* MavlinkTelemetryReceiver::handle, on a HEARTBEAT.
Heartbeat(status) ==
    /\ awake
    /\ snapshot' = [snapshot EXCEPT !.status = status]
    /\ sinceHeartbeat' = {0}
    /\ heard' = {0}
    /\ view' = [view EXCEPT !.telemetry = snapshot']
    /\ call' = "none"
    /\ UNCHANGED <<awake, connected, log, manual, order>>

\* Mutant: any frame proves that the link is alive.
Position_IsAlive(position) ==
    /\ awake
    /\ snapshot' = [snapshot EXCEPT !.position = position]
    /\ sinceHeartbeat' = {0}
    /\ view' = [view EXCEPT !.telemetry = snapshot']
    /\ call' = "none"
    /\ UNCHANGED <<awake, connected, log, heard, manual, order>>

\* The same, on a LOCAL_POSITION_NED.
Position(position) ==
    /\ awake
    /\ snapshot' = [snapshot EXCEPT !.position = position]
    /\ view' = [view EXCEPT !.telemetry = snapshot']
    /\ call' = "none"
    /\ UNCHANGED <<awake, sinceHeartbeat, connected, log, heard, manual, order>>

\* Mutant: a heartbeat that came once proves it for ever.
alive_Ever == sinceHeartbeat # {}

\* ConnectionMonitor::update, but for the edge that it reports.
alive == \E t \in sinceHeartbeat : t < ConnectionTimeout

\* Mutant: the goal of a GOTO survives the loss of the link.
Update_KeepsTarget ==
    /\ awake
    /\ awake' = FALSE
    /\ connected' = alive
    /\ log' = IF alive # connected THEN {alive} ELSE log
    /\ view' = [view EXCEPT !.connected = alive]
    /\ call' = "none"
    /\ UNCHANGED <<sinceHeartbeat, snapshot, heard, manual, order>>

\* GcsService::update, the end of the tick.
Update ==
    /\ awake
    /\ awake' = FALSE
    /\ connected' = alive
    /\ log' = IF alive # connected THEN {alive} ELSE log
    /\ view' = [view EXCEPT !.connected = alive,
                            !.goto_target = IF connected /\ ~alive THEN {}
                                                                   ELSE @]
    /\ call' = "none"
    /\ UNCHANGED <<sinceHeartbeat, snapshot, heard, manual, order>>

-----------------------------------------------------------------------------
(***************************************************************************)
(* The operator.  ARM, DISARM and LAND are transmitted and change nothing  *)
(* in the ground station.                                                  *)
(***************************************************************************)
send_goto(target) ==
    /\ ~awake
    /\ view' = [view EXCEPT !.goto_target = {clampToFence(target)}]
    /\ order' = "goto"
    /\ call' = "none"
    /\ UNCHANGED <<awake, link, manual>>

send_manual(a) ==
    /\ ~awake
    /\ stick' = a
    /\ \/ /\ silent(a) \/ limited(a)
          /\ call' = "none"
          /\ UNCHANGED <<view, sinceManual, manual_active, axes, sinceAnte,
                         order>>
       \/ /\ transmitted(a)
          /\ call' = "sent"
          /\ sinceAnte' = sinceManual
          /\ axes' = a
          /\ order' = "manual"
          /\ view' = IF a # Zero THEN [view EXCEPT !.goto_target = {}]
                                    ELSE view
    /\ UNCHANGED <<awake, link>>

Next ==
    \/ \E d \in Frames : WakeUp(d)
    \/ \E status \in Statuses : Heartbeat(status)
    \/ \E position \in Positions : Position(position)
    \/ Update
    \/ \E target \in Targets : send_goto(target)
    \/ \E a \in Sticks : send_manual(a)

Spec == Init /\ [][Next]_vars

-----------------------------------------------------------------------------
optionalAge(o) == o \in {{}} \cup {{t} : t \in 0 .. Forgotten}

TypeOK ==
    /\ {awake, connected, manual_active} \subseteq BOOLEAN
    /\ optionalAge(sinceHeartbeat) /\ optionalAge(sinceManual)
    /\ optionalAge(sinceAnte) /\ optionalAge(heard)
    /\ call \in {"none", "sent"}
    /\ snapshot \in [status : Statuses \cup {NoTelemetry},
                     position : Positions \cup {NoTelemetry}]
    /\ view.telemetry = snapshot /\ view.connected \in BOOLEAN
    /\ \A t \in view.goto_target :
            view.goto_target = {t} /\ t \in Vec3 /\ contains(t)
    /\ log \in {{}, {TRUE}, {FALSE}}
    /\ order \in {"none", "goto", "manual"}
    /\ {axes, stick} \subseteq Vec3

\* Between two ticks, the drone is shown as connected exactly if a HEARTBEAT
\* came within the timeout: a stream of positions does not keep a link alive,
\* and one late heartbeat revives it.
ConnectedMeansHeard ==
    ~awake => (view.connected <=> \E t \in heard : t < ConnectionTimeout)

\* Between two ticks the last event recorded tells the status that is shown,
\* and no event was recorded before the drone was heard.
EventsFollowStatus ==
    ~awake => /\ view.connected = (log = {TRUE})
              /\ heard = {} => log = {}

\* A connection event is recorded when the status that is shown changes, and
\* then only.  The goal of a GOTO is not shown as live across a loss of the link.
LossIsAnnouncedOnce ==
    [][/\ log' # log <=> view'.connected # view.connected
       /\ view.connected /\ ~view'.connected => view'.goto_target = {}]_vars

\* The release of the stick is never swallowed, not even one that follows the
\* last repetition at once: when the operator let go, what the drone was told
\* last is that the stick is centred.
ReleaseIsNeverSwallowed == stick = Zero => axes = Zero

\* However the operator plays with the stick, no three transmissions fall into one
\* period: a release passes the limit at once, but it follows a deflection, which
\* was not early, and no deflection is early after it.
ManualIsRateLimited ==
    [][call' = "sent" => \A t \in sinceAnte : t >= ManualPeriod]_vars

(***************************************************************************)
(* The comment in send_manual says "manual input overrides a pending GOTO".*)
(* The drone takes a centred stick for manual input too.                   *)
(***************************************************************************)
ManualOverridesGoto == order = "manual" => view.goto_target = {}
=============================================================================
