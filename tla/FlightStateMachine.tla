------------------------- MODULE FlightStateMachine -------------------------
(***************************************************************************)
(* The declarative flight mode machine: a table of transitions, of which   *)
(* the first row that matches an event is applied, and the predicates that *)
(* derive completion events from the state.                                *)
(***************************************************************************)
EXTENDS FlightState, Sequences

Event == {"Arm", "Disarm", "Goto", "Land", "ManualActive", "ManualCentred",
          "TakeoffComplete", "TargetReached", "ManualTimeout", "Touchdown"}

\* Mutant: the landing counts as flown by the operator.
kPilotable_Land == {"Hold", "Goto", "Manual", "Land"}

kPilotable == {"Hold", "Goto", "Manual"}

kAutomatic == {"Takeoff", "Land"}
kArmed == kPilotable \cup kAutomatic
kGrounded == {"Disarmed"}

-----------------------------------------------------------------------------
(***************************************************************************)
(* Guards and actions.  Each takes the state and the vector of the         *)
(* payload; a payload's instant is always the present one.                 *)
(***************************************************************************)
below_safety_altitude(s) == altitude(s) < DisarmAltitude

begin_takeoff(s) ==
    [s EXCEPT !.armed = TRUE, !.target = {}, !.manual_axes = Zero]

cut_motors(s) ==
    [s EXCEPT !.armed = FALSE, !.velocity = Zero, !.target = {},
              !.manual_axes = Zero]

begin_land(s) == [s EXCEPT !.target = {}, !.manual_axes = Zero]

\* Mutant: the target is taken as it comes.
set_target_Unclamped(s, v) ==
    [s EXCEPT !.target = {v}, !.manual_axes = Zero]

set_target(s, v) ==
    [s EXCEPT !.target = {clampToFence(v)}, !.manual_axes = Zero]

\* Mutant: the target is kept.
set_manual_KeepsTarget(s, v) ==
    [s EXCEPT !.manual_axes = v, !.sinceInput = 0]

set_manual(s, v) ==
    [s EXCEPT !.manual_axes = v, !.sinceInput = 0, !.target = {}]

clear_manual(s) ==
    [s EXCEPT !.manual_axes = Zero, !.sinceInput = 0, !.velocity = Zero]

settle_at_takeoff_altitude(s) ==
    [s EXCEPT !.position.z = effective_takeoff_altitude, !.velocity = Zero]

settle_at_target(s) ==
    [s EXCEPT !.position = IF s.target # {} THEN the(s.target) ELSE @,
              !.velocity = Zero, !.target = {}]

\* Mutant: the drone stays where the descent brought it.
touchdown_InTheAir(s) ==
    [s EXCEPT !.velocity = Zero, !.armed = FALSE, !.target = {},
              !.manual_axes = Zero]

touchdown(s) ==
    [s EXCEPT !.position.z = 0, !.velocity = Zero, !.armed = FALSE,
              !.target = {}, !.manual_axes = Zero]

\* Mutant: guards are not evaluated.
permits_Always(guard, s) == TRUE

\* The guard and the action a row of the table names.
permits(guard, s) == guard = "below_safety_altitude" => below_safety_altitude(s)

perform(action, s, v) ==
    CASE action = "identity" -> s
      [] action = "begin_takeoff" -> begin_takeoff(s)
      [] action = "cut_motors" -> cut_motors(s)
      [] action = "begin_land" -> begin_land(s)
      [] action = "set_target" -> set_target(s, v)
      [] action = "set_manual" -> set_manual(s, v)
      [] action = "clear_manual" -> clear_manual(s)
      [] action = "settle_at_takeoff_altitude" -> settle_at_takeoff_altitude(s)
      [] action = "settle_at_target" -> settle_at_target(s)
      [] action = "touchdown" -> touchdown(s)

-----------------------------------------------------------------------------
(***************************************************************************)
(* The table.                                                              *)
(***************************************************************************)
kSameMode == "SameMode"

Row(from, on, guard, to, action, outcome) ==
    [from |-> from, on |-> on, guard |-> guard, to |-> to,
     action |-> action, outcome |-> outcome]

kTransitions == <<
    Row(kGrounded, "Arm", "none", "Takeoff", "begin_takeoff", "Accepted"),
    Row(kArmed, "Arm", "none", kSameMode, "identity", "Accepted"),
    Row(kGrounded, "Disarm", "none", kSameMode, "identity", "Accepted"),
    Row(kArmed, "Disarm", "below_safety_altitude", "Disarmed", "cut_motors",
        "Accepted"),
    Row(kArmed, "Disarm", "none", "Land", "begin_land", "AcceptedAsLand"),
    Row(kArmed, "Land", "none", "Land", "begin_land", "Accepted"),
    Row(kGrounded, "Land", "none", kSameMode, "identity", "Rejected"),
    Row(kPilotable, "Goto", "none", "Goto", "set_target", "Accepted"),
    Row(kAutomatic \cup kGrounded, "Goto", "none", kSameMode, "identity",
        "Rejected"),
    Row(kPilotable, "ManualActive", "none", "Manual", "set_manual",
        "Accepted"),
    Row(kPilotable, "ManualCentred", "none", "Hold", "clear_manual",
        "Accepted"),
    Row(kAutomatic \cup kGrounded, "ManualActive", "none", kSameMode,
        "identity", "Rejected"),
    Row(kAutomatic \cup kGrounded, "ManualCentred", "none", kSameMode,
        "identity", "Rejected"),
    Row({"Takeoff"}, "TakeoffComplete", "none", "Hold",
        "settle_at_takeoff_altitude", "Accepted"),
    Row({"Goto"}, "TargetReached", "none", "Hold", "settle_at_target",
        "Accepted"),
    Row({"Manual"}, "ManualTimeout", "none", "Hold", "clear_manual",
        "Accepted") >>

kTouchdownTransition ==
    Row({"Land"}, "Touchdown", "none", "Disarmed", "touchdown", "Accepted")

\* The order of the scan: the array, then the appended row.
Table == Append(kTransitions, kTouchdownTransition)

Matches(row, s, event) ==
    /\ row.on = event
    /\ s.mode \in row.from
    /\ permits(row.guard, s)

MatchingRows(s, event) == {i \in DOMAIN Table : Matches(Table[i], s, event)}

\* Mutant: the last matching row wins.
find_Last(s, event) ==
    {Table[i] : i \in {i \in MatchingRows(s, event) :
                          \A j \in MatchingRows(s, event) : i >= j}}

\* The first matching row, if any.
find(s, event) ==
    {Table[i] : i \in {i \in MatchingRows(s, event) :
                          \A j \in MatchingRows(s, event) : i =< j}}

\* What firing a row does.
Fire(row, s, v) ==
    LET next == perform(row.action, s, v)
        changed == row.to # kSameMode /\ row.to # s.mode
    IN  [state |-> IF changed THEN [next EXCEPT !.mode = row.to] ELSE next,
         result |-> row.outcome,
         mode_changed |-> changed]

\* An event that no row matches leaves the state untouched.
apply(s, event, v) ==
    LET outcomes == {Fire(row, s, v) : row \in find(s, event)}
    IN  IF outcomes = {}
        THEN [state |-> s, result |-> "Rejected", mode_changed |-> FALSE]
        ELSE the(outcomes)

-----------------------------------------------------------------------------
(***************************************************************************)
(* Events derived from the state.                                          *)
(***************************************************************************)
\* Mutants: the take-off altitude must be exceeded; the target must be hit
\* exactly.
completion_event_Exceeds(s) ==
    CASE s.mode = "Takeoff" /\ altitude(s) > effective_takeoff_altitude ->
            {"TakeoffComplete"}
      [] s.mode = "Land" /\ altitude(s) < DisarmAltitude -> {"Touchdown"}
      [] OTHER -> {}

completion_event_Exact(s) ==
    CASE s.mode = "Takeoff" /\ altitude(s) >= effective_takeoff_altitude ->
            {"TakeoffComplete"}
      [] s.mode = "Goto" /\ s.position \in s.target -> {"TargetReached"}
      [] s.mode = "Land" /\ altitude(s) < DisarmAltitude -> {"Touchdown"}
      [] OTHER -> {}

completion_event(s) ==
    CASE s.mode = "Takeoff" /\ altitude(s) >= effective_takeoff_altitude ->
            {"TakeoffComplete"}
      [] s.mode = "Goto"
         /\ \E t \in s.target : within(s.position, t, ArrivalTolerance) ->
            {"TargetReached"}
      [] s.mode = "Land" /\ altitude(s) < DisarmAltitude -> {"Touchdown"}
      [] OTHER -> {}

\* Mutant: off by one.
timeout_event_Late(s) ==
    IF s.mode = "Manual" /\ s.sinceInput > ManualTimeout + 1
    THEN {"ManualTimeout"}
    ELSE {}

timeout_event(s) ==
    IF s.mode = "Manual" /\ s.sinceInput > ManualTimeout
    THEN {"ManualTimeout"}
    ELSE {}

manual_event(axes) == IF axes = Zero THEN "ManualCentred" ELSE "ManualActive"
=============================================================================
