--------------------------- MODULE SimulationLoop ---------------------------
(***************************************************************************)
(* The two schedules of the drone process: the loop of drone_main, which   *)
(* runs a tick per simulation period, and the publication of telemetry by  *)
(* DroneService::step, which the tick calls.  Both add their period to an  *)
(* absolute deadline, and move the deadline when an overrun made it        *)
(* obsolete.  Instants are counted from the start of the loop.             *)
(*                                                                         *)
(* A sleep ends no sooner than its deadline and as late as the scheduler   *)
(* likes; the time that a tick takes is part of the lateness of the next.  *)
(***************************************************************************)
EXTENDS TelemetrySchedule

CONSTANTS
    TickPeriod,        \* period of the simulation loop
    Latenesses,        \* by how much a reading of the clock may be late
    Horizon            \* no reading of the clock is later than this

ASSUME ScheduleAssumption ==
    /\ TickPeriod \in Nat \ {0}
    /\ TelemetryPeriod \in Nat \ {0}
    /\ Latenesses \subseteq Nat
    /\ Horizon \in Nat

VARIABLES
    running,            \* g_running
    next_tick,          \* the loop sleeps until then
    previous,           \* the last reading of the clock
    next_publication,   \* an optional: unset until the first tick
    publications,       \* frames published so far
    \* History, which the code does not keep:
    ticks,              \* ticks run so far
    ante,               \* the reading before the last, an optional
    origin,             \* the reading of the first tick, an optional
    published,          \* when the last frame was published, an optional
    antePublished,      \* when the frame before it was, an optional
    longest             \* longest time between two readings

code == <<running, next_tick, previous, next_publication, publications>>
history == <<ticks, ante, origin, published, antePublished, longest>>
vars == <<code, history>>

Init ==
    /\ running = TRUE
    /\ next_tick = 0
    /\ previous = 0
    /\ next_publication = {}
    /\ publications = 0
    /\ ticks = 0
    /\ ante = {} /\ origin = {} /\ published = {} /\ antePublished = {}
    /\ longest = 0

-----------------------------------------------------------------------------
\* The first tick arms the publication schedule.
due(now) == IF next_publication = {} THEN {now} ELSE next_publication

\* The scheduling half of DroneService::step.
PublishWhenDue(now) ==
    \E deadline \in due(now) :
        \/ /\ isDue(deadline, now)
           /\ next_publication' = {reschedule(deadline, now)}
           /\ publications' = publications + 1
           /\ published' = {now}
           /\ antePublished' = published
        \/ /\ ~isDue(deadline, now)
           /\ next_publication' = {deadline}
           /\ UNCHANGED <<publications, published, antePublished>>

\* Mutant: an overrun leaves the deadline behind.
nextTick_Behind(deadline, now) == deadline + TickPeriod

\* The deadline that follows a tick.
nextTick(deadline, now) ==
    IF deadline + TickPeriod < now THEN now + TickPeriod
                                   ELSE deadline + TickPeriod

\* When the loop's sleep may end.
earliest == IF next_tick > previous THEN next_tick ELSE previous

\* The loop wakes up late by the given time, reads the clock, runs its tick and
\* computes until when to sleep.
Tick(lateness) ==
    /\ running
    /\ \E now \in {earliest + lateness} :
          /\ now =< Horizon
          /\ PublishWhenDue(now)
          /\ next_tick' = nextTick(next_tick, now)
          /\ previous' = now
          /\ ante' = IF ticks = 0 THEN {} ELSE {previous}
          /\ origin' = IF ticks = 0 THEN {now} ELSE origin
          /\ longest' = IF ticks > 0 /\ now - previous > longest
                        THEN now - previous
                        ELSE longest
    /\ ticks' = ticks + 1
    /\ UNCHANGED running

\* SIGINT or SIGTERM; the loop tests the flag before every tick.
handle_signal ==
    /\ running
    /\ running' = FALSE
    /\ UNCHANGED <<next_tick, previous, next_publication, publications, history>>

\* The loop has ended.
Finished == ~running /\ UNCHANGED vars

Next ==
    \/ \E lateness \in Latenesses : Tick(lateness)
    \/ handle_signal
    \/ Finished

Spec == Init /\ [][Next]_vars

-----------------------------------------------------------------------------
isOptional(o) == o \subseteq Nat /\ \A t, u \in o : t = u

TypeOK ==
    /\ running \in BOOLEAN
    /\ next_tick \in Nat /\ previous \in Nat
    /\ publications \in Nat /\ ticks \in Nat /\ longest \in Nat
    /\ isOptional(next_publication) /\ isOptional(origin)
    /\ isOptional(ante)
    /\ isOptional(published) /\ isOptional(antePublished)

\* The stream is never faster than its rate: n + 1 frames take at least n
\* periods, whatever overruns the loop suffered.
NeverFasterThanItsRate ==
    \A start \in origin :
        (publications - 1) * TelemetryPeriod =< previous - start

\* The rate does not drift: as long as no two ticks are further apart than a
\* telemetry period, there is no less than one frame for every period that
\* elapsed, however late each single tick was.  There are no more either:
\* NeverFasterThanItsRate.
RateDoesNotDrift ==
    \A start \in origin :
        longest =< TelemetryPeriod =>
            previous - start < publications * TelemetryPeriod

\* A ground station is never left with an old frame: when a tick ends, the last
\* one is younger than a telemetry period, even if the tick was an overrun.
TelemetryIsFresh ==
    origin # {} =>
        \E t \in published : previous - t < TelemetryPeriod

\* The simulation never runs faster than its rate.
NeverSpinsFaster == (ticks - 1) * TickPeriod =< previous

\* An overrun is absorbed, not turned into a burst of frames: a frame and the
\* second one after it are more than a period apart.
NoCatchUpBurst ==
    [][publications' # publications =>
         \A t \in antePublished : previous' - t > TelemetryPeriod]_vars

\* An overrun is absorbed, not turned into a burst of ticks: a tick and the
\* second one after it are at least a period apart.
NoCatchUpTicks ==
    [][ticks' # ticks =>
         \A t \in ante : previous' - t >= TickPeriod]_vars
=============================================================================
