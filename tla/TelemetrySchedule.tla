------------------------- MODULE TelemetrySchedule -------------------------
(***************************************************************************)
(* When a frame of telemetry is due, and when the next one is.             *)
(***************************************************************************)
EXTENDS Integers

CONSTANT TelemetryPeriod   \* telemetry_period

\* Mutants: the schedule is relative to the publication; a missed deadline is
\* left in the past.
reschedule_Relative(deadline, now) == now + TelemetryPeriod

reschedule_CatchUp(deadline, now) == deadline + TelemetryPeriod

\* Mutant: a publication that was late skips the next one.
reschedule_Skip(deadline, now) ==
    IF deadline < now THEN deadline + 2 * TelemetryPeriod
                      ELSE deadline + TelemetryPeriod

\* The deadline that follows a publication.
reschedule(deadline, now) ==
    IF deadline + TelemetryPeriod =< now THEN now + TelemetryPeriod
                                         ELSE deadline + TelemetryPeriod

\* Whether a publication is due.
isDue(deadline, now) == now >= deadline
=============================================================================
