-------------------------- MODULE StickRepetition --------------------------
(***************************************************************************)
(* When GcsService::send_manual transmits the stick that it is given.      *)
(***************************************************************************)
EXTENDS Geofence

CONSTANT ManualPeriod   \* manual_period

VARIABLES
    sinceManual,    \* now - last_manual_sent_, an optional
    manual_active

\* Mutants: a centred stick is rate-limited like another; the limit is twice the
\* period; a stick that stays centred is repeated.
limited_Release(a) == \E t \in sinceManual : t < ManualPeriod

limited_Twice(a) ==
    a # Zero /\ \E t \in sinceManual : t < 2 * ManualPeriod

silent_Never(a) == FALSE

\* A repetition that comes too early.
limited(a) == a # Zero /\ \E t \in sinceManual : t < ManualPeriod

\* A centred stick that was not deflected before stays silent.
silent(a) == a = Zero /\ ~manual_active

\* The stick is transmitted, and the station remembers when and whether it was
\* deflected.
transmitted(a) ==
    /\ ~silent(a) /\ ~limited(a)
    /\ sinceManual' = {0}
    /\ manual_active' = (a # Zero)
=============================================================================
